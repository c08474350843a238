--------------------------- MODULE StorageProofs ---------------------------
(***************************************************************************)
(* What any number of programs that open one file can leave in it, for     *)
(* every file they may find and every number of crashes.                   *)
(*                                                                         *)
(* The open transaction of the writer is a function of the file and of the *)
(* version it has come to (Advanced).  A commit therefore moves a part from *)
(* what it was to the current version in one step, and a refusal depends   *)
(* only on the file that was found.                                        *)
(***************************************************************************)
EXTENDS Storage, TLAPS

(***************************************************************************)
(* d is f with a part migrated from its marker to version v, step by step, *)
(* none of the steps having refused.                                       *)
(***************************************************************************)
Advanced(f, d, part, v) ==
    /\ \A q \in Parts : d.marker[q] = IF q = part THEN v ELSE f.marker[q]
    /\ \A q \in Parts : d.level[q] = IF q = part /\ v # f.marker[q] THEN Higher(f.level[q], v)
                                     ELSE f.level[q]
    /\ d.flaws = IF f.marker[part] = 0 /\ v # 0 THEN StepTables(f, part, 1) ELSE f.flaws
    /\ d.lease = IF part = "queue" /\ f.marker[part] < 3 /\ v >= 3 THEN "none" ELSE f.lease
    /\ d.unknown = f.unknown /\ d.wal = f.wal
    /\ v = Current[part] /\ v # f.marker[part] =>
          IF part = "queue" THEN f.level[part] < v ELSE "both" \notin d.flaws

Saves == [revision : Nat, by : Identities \cup {Nobody}]
Records == [identity : Identities \cup {Nobody}, header : Saves, steps : Saves,
            artifacts : Saves, history : Seq(Saves)]

Reading == {"steps", "history", "artifacts"}

Program == [pc : {"idle", "failed", "done", "journal", "look", "lock", "migrate", "open",
                  "read", "write", "header"} \cup Reading,
            use : Uses, version : Nat,
            error : {"none", "unsupported", "outdated", "locked", "refused", "mismatch",
                     "missing"},
            identity : Identities \cup {Nobody}, mark : Nat, loaded : Records]

Typed ==
    /\ file \in Shapes /\ start \in Files /\ draft \in Shapes
    /\ writer \in Openers \cup {Nobody}
    /\ opener \in [Openers -> Program]
    /\ saved \in Seq(Records)

\* Which use of the file comes to which step; only one that failed has an error.
UsesAt ==
  [ idle |-> Uses, failed |-> Uses, done |-> Uses, journal |-> Prepared, look |-> {"claim"},
    lock |-> Uses \ {"inspect"}, migrate |-> Uses \ {"inspect"}, open |-> {"claim"},
    read |-> {"save"}, write |-> {"save"}, header |-> {"load", "inspect"},
    steps |-> {"load", "inspect"}, history |-> {"load", "inspect"},
    artifacts |-> {"load", "inspect"}]

Routed ==
    \A p \in Openers :
        /\ opener[p].use \in UsesAt[opener[p].pc]
        /\ opener[p].pc # "failed" => opener[p].error = "none"

\* The writer's transaction is its part, advanced to the version it has come to.
Drafted ==
    /\ writer = Nobody => draft = file
    /\ \A p \in Openers : writer = p <=> At(p, "migrate")
    /\ \A p \in Openers : At(p, "migrate") =>
          /\ opener[p].version \in file.marker[Part(p)]..Current[Part(p)]
          /\ Advanced(file, draft, Part(p), opener[p].version)

\* What a commit, a claim and a journal mode can make of the file that was found.
Reached ==
    /\ \A part \in Parts : WholePart(part)
    /\ file.unknown = start.unknown
    /\ file.flaws \subseteq start.flaws
    /\ file.marker["transactions"] # 10 => file.flaws = start.flaws
    /\ file.marker["queue"] >= 3 => file.lease # "bare"
    /\ start.lease = "token" /\ start.marker["queue"] >= 3 => file.lease = "token"
    /\ ~Supported(start) =>
          /\ file = start
          /\ \A p \in Openers : opener[p].pc \in {"idle", "failed", "lock"}

(***************************************************************************)
(* What a reader has so far is of the record at its mark, and that record  *)
(* is the one it goes on to see: with a rollback journal it is still the   *)
(* last, because nobody can save beside a reader.                          *)
(***************************************************************************)
OnMark(q) ==
    /\ q.mark \in DOMAIN saved
    /\ ~file.wal => q.mark = Len(saved)
    /\ q.loaded.identity = saved[q.mark].identity /\ q.loaded.header = saved[q.mark].header
    /\ q.pc \in {"history", "artifacts"} => q.loaded.steps = saved[q.mark].steps
    /\ q.pc = "artifacts" => q.loaded.history = saved[q.mark].history

Coherent == \A p \in Openers : opener[p].pc \in Reading => OnMark(opener[p])

StoreInv == Typed /\ Routed /\ Drafted /\ Reached /\ OnlyBadFilesAreRefused /\ Coherent
            /\ LoadsAreCoherent

-----------------------------------------------------------------------------
(* Files and migration steps *)

LEMMA PartsAre == Parts = {"queue", "transactions"}
  BY DEF Parts

LEMMA CurrentIs == Current["queue"] = 5 /\ Current["transactions"] = 10
  BY DEF Current, Parts

\* The policy lets a program in exactly when it would have let in the first one.
LEMMA SupportedStays ==
    ASSUME Typed, Reached
    PROVE  Supported(file) <=> Supported(start)
<1>1. CASE Supported(start)
  <2>1. ASSUME NEW part \in Parts PROVE file.marker[part] <= Current[part]
    <3>1. start.marker[part] <= Current[part] /\ WholePart(part) /\ Current[part] \in Nat
      BY <1>1, CurrentIs, PartsAre DEF Supported, Reached
    <3> QED
      BY <3>1 DEF WholePart
  <2> QED
    BY <1>1, <2>1 DEF Supported, Reached
<1>2. CASE ~Supported(start)
  BY <1>2 DEF Reached
<1> QED
  BY <1>1, <1>2

\* What one migration step writes.
LEMMA MigratedExact ==
    ASSUME NEW f \in Shapes, NEW part \in Parts, NEW v \in 1..Current[part]
    PROVE  /\ Migrated(f, part, v) \in Shapes
           /\ \A q \in Parts : Migrated(f, part, v).marker[q] = IF q = part THEN v ELSE f.marker[q]
           /\ \A q \in Parts : Migrated(f, part, v).level[q] =
                                  IF q = part THEN Higher(f.level[q], v) ELSE f.level[q]
           /\ Migrated(f, part, v).flaws = StepTables(f, part, v)
           /\ Migrated(f, part, v).lease = IF part = "queue" /\ v = 3 THEN "none" ELSE f.lease
           /\ Migrated(f, part, v).unknown = f.unknown /\ Migrated(f, part, v).wal = f.wal
<1>1. f.marker \in [Parts -> 0..11] /\ f.level \in [Parts -> 0..10] /\ f.flaws \in SUBSET Flaws
      /\ f.unknown \in BOOLEAN /\ f.wal \in BOOLEAN /\ f.lease \in Leases
  BY DEF Shapes
<1>2. v \in 0..11 /\ v \in 0..10
  BY CurrentIs, PartsAre
<1>3. Higher(f.level[part], v) \in 0..10
  BY <1>1, <1>2 DEF Higher
<1>4. StepTables(f, part, v) \in SUBSET Flaws
  BY <1>1 DEF StepTables, Flaws
<1> DEFINE flaws == StepTables(f, part, v)
           level == Higher(f.level[part], v)
           lease == IF part = "queue" /\ v = 3 THEN "none" ELSE f.lease
<1>5. lease \in Leases
  BY <1>1 DEF Leases
<1>6. Migrated(f, part, v) = [f EXCEPT !.marker[part] = v, !.level[part] = level,
                                       !.flaws = flaws, !.lease = lease]
  BY DEF Migrated
<1> HIDE DEF flaws, level, lease
<1>7. flaws \in SUBSET Flaws /\ level \in 0..10
  BY <1>3, <1>4 DEF flaws, level
<1>8. /\ Migrated(f, part, v).marker = [f.marker EXCEPT ![part] = v]
      /\ Migrated(f, part, v).level = [f.level EXCEPT ![part] = level]
      /\ Migrated(f, part, v).flaws = flaws /\ Migrated(f, part, v).lease = lease
      /\ Migrated(f, part, v).unknown = f.unknown /\ Migrated(f, part, v).wal = f.wal
  BY <1>6 DEF Shapes
<1>9. Migrated(f, part, v) \in Shapes
  <2>1. [f.marker EXCEPT ![part] = v] \in [Parts -> 0..11]
    BY <1>1, <1>2
  <2>2. [f.level EXCEPT ![part] = level] \in [Parts -> 0..10]
    BY <1>1, <1>7
  <2>3. Migrated(f, part, v) = [marker |-> [f.marker EXCEPT ![part] = v],
                                level |-> [f.level EXCEPT ![part] = level], flaws |-> flaws,
                                unknown |-> f.unknown, wal |-> f.wal, lease |-> lease]
    BY <1>6 DEF Shapes
  <2> QED
    BY <1>1, <1>5, <1>7, <2>1, <2>2, <2>3 DEF Shapes
<1> QED
  BY <1>1, <1>8, <1>9 DEF flaws, level, lease

LEMMA AdvancedNot ==
    ASSUME NEW f \in Shapes, NEW part \in Parts, f.marker[part] <= Current[part]
    PROVE  Advanced(f, f, part, f.marker[part])
<1>1. f.marker \in [Parts -> 0..11]
  BY DEF Shapes
<1> QED
  BY <1>1 DEF Advanced

\* A step that does not refuse brings the draft one version further.
LEMMA AdvancedOnce ==
    ASSUME NEW f \in Shapes, NEW d \in Shapes, NEW part \in Parts,
           NEW v \in Nat, f.marker[part] <= v, v < Current[part],
           Advanced(f, d, part, v), ~Refuses(d, part, v + 1)
    PROVE  Migrated(d, part, v + 1) \in Shapes
           /\ Advanced(f, Migrated(d, part, v + 1), part, v + 1)
<1> DEFINE m == Migrated(d, part, v + 1)
<1>1. f.marker \in [Parts -> 0..11] /\ f.level \in [Parts -> 0..10]
      /\ d.marker \in [Parts -> 0..11] /\ d.level \in [Parts -> 0..10]
  BY DEF Shapes
<1>2. Current[part] \in {5, 10} /\ (part = "queue" => Current[part] = 5)
      /\ (part = "transactions" => Current[part] = 10)
  BY CurrentIs, PartsAre
<1>3. /\ m \in Shapes
      /\ \A q \in Parts : m.marker[q] = IF q = part THEN v + 1 ELSE d.marker[q]
      /\ \A q \in Parts : m.level[q] = IF q = part THEN Higher(d.level[q], v + 1) ELSE d.level[q]
      /\ m.flaws = StepTables(d, part, v + 1)
      /\ m.lease = IF part = "queue" /\ v + 1 = 3 THEN "none" ELSE d.lease
      /\ m.unknown = d.unknown /\ m.wal = d.wal
  BY <1>2, MigratedExact
<1> HIDE DEF m
<1>4. \A q \in Parts : m.marker[q] = IF q = part THEN v + 1 ELSE f.marker[q]
  BY <1>3 DEF Advanced
<1>5. \A q \in Parts : m.level[q] = IF q = part /\ v + 1 # f.marker[q]
                                    THEN Higher(f.level[q], v + 1) ELSE f.level[q]
  <2>1. Higher(d.level[part], v + 1) = Higher(f.level[part], v + 1)
    <3>1. d.level[part] = IF v # f.marker[part] THEN Higher(f.level[part], v) ELSE f.level[part]
      BY DEF Advanced
    <3>2. f.level[part] \in Nat
      BY <1>1
    <3> QED
      BY <3>1, <3>2 DEF Higher
  <2>2. v + 1 # f.marker[part]
    BY <1>1
  <2> QED
    BY <1>3, <2>1, <2>2 DEF Advanced
<1>6. m.flaws = IF f.marker[part] = 0 /\ v + 1 # 0 THEN StepTables(f, part, 1) ELSE f.flaws
  <2>1. CASE v = 0
    <3>1. f.marker[part] = 0
      BY <1>1, <2>1
    <3>2. d.level[part] = f.level[part] /\ d.flaws = f.flaws
      BY <2>1, <3>1 DEF Advanced
    <3>3. StepTables(d, part, 1) = StepTables(f, part, 1)
      BY <3>2 DEF StepTables
    <3> QED
      BY <1>3, <2>1, <3>1, <3>3
  <2>2. CASE v # 0
    <3>1. StepTables(d, part, v + 1) = d.flaws
      BY <2>2 DEF StepTables
    <3> QED
      BY <1>3, <2>2, <3>1 DEF Advanced
  <2> QED
    BY <2>1, <2>2
<1>7. m.lease = IF part = "queue" /\ f.marker[part] < 3 /\ v + 1 >= 3 THEN "none" ELSE f.lease
  BY <1>1, <1>3 DEF Advanced
<1>8. ASSUME v + 1 = Current[part]
      PROVE  IF part = "queue" THEN f.level[part] < v + 1 ELSE "both" \notin m.flaws
  <2>1. CASE part = "queue"
    <3>1. d.level[part] < 5
      BY <1>1, <1>2, <1>8, <2>1 DEF Refuses
    <3>2. d.level[part] = IF v # f.marker[part] THEN Higher(f.level[part], v) ELSE f.level[part]
      BY DEF Advanced
    <3> QED
      BY <1>1, <1>2, <1>8, <2>1, <3>1, <3>2 DEF Higher
  <2>2. CASE part = "transactions"
    <3>1. "both" \notin d.flaws /\ v + 1 = 10
      BY <1>2, <1>8, <2>2 DEF Refuses
    <3>2. m.flaws = d.flaws
      BY <1>3, <3>1 DEF StepTables
    <3> QED
      BY <2>2, <3>1, <3>2
  <2> QED
    BY <2>1, <2>2, PartsAre
<1>9. m.unknown = f.unknown /\ m.wal = f.wal
  BY <1>3 DEF Advanced
<1>10. Advanced(f, m, part, v + 1)
  BY <1>4, <1>5, <1>6, <1>7, <1>8, <1>9 DEF Advanced
<1> QED
  BY <1>3, <1>10 DEF m

\* A part that could be upgraded when it was found is refused by no step.
LEMMA UpgradablePasses ==
    ASSUME NEW f \in Shapes, NEW d \in Shapes, NEW part \in Parts,
           NEW v \in Nat, f.marker[part] <= v, v < Current[part],
           Advanced(f, d, part, v), Upgradable(f, part)
    PROVE  ~Refuses(d, part, v + 1)
<1>1. f.marker \in [Parts -> 0..11] /\ f.level \in [Parts -> 0..10]
      /\ d.level \in [Parts -> 0..10] /\ f.flaws \subseteq Flaws
  BY DEF Shapes
<1>2. d.level[part] = IF v # f.marker[part] THEN Higher(f.level[part], v) ELSE f.level[part]
  BY DEF Advanced
<1>3. CASE part = "queue"
  <2>1. f.level[part] < 5
    BY <1>1, <1>3, CurrentIs DEF Upgradable
  <2>2. v + 1 = 5 => d.level[part] < 5
    BY <1>1, <1>2, <2>1 DEF Higher
  <2> QED
    BY <1>1, <1>3, <2>2 DEF Refuses
<1>4. CASE part = "transactions"
  <2>1. v < 10 /\ f.marker[part] # 10
    BY <1>1, <1>4, CurrentIs
  <2>2. CASE f.level[part] = 10 /\ f.marker[part] >= 1 /\ f.flaws \cap {"both", "legacyChildren"} = {}
    <3>1. d.flaws = f.flaws /\ d.level[part] = 10
      BY <1>1, <1>2, <2>1, <2>2 DEF Advanced, Higher
    <3> QED
      BY <1>4, <2>2, <3>1 DEF Refuses
  <2>3. CASE /\ f.level[part] < 10
             /\ f.flaws \cap {"both", "orphan"} = {}
             /\ "noSkills" \in f.flaws => f.marker[part] = 0
             /\ "badTime" \in f.flaws => f.level[part] >= 7
    <3>1. StepTables(f, part, 1) = f.flaws \ {"noSkills"}
      BY <1>1, <1>4, <2>3 DEF StepTables
    <3>2. d.flaws \subseteq f.flaws /\ (v # 0 => "noSkills" \notin d.flaws)
      BY <1>1, <2>3, <3>1 DEF Advanced
    <3>3. d.level[part] < 10 /\ d.level[part] >= f.level[part]
      BY <1>1, <1>2, <2>1, <2>3 DEF Higher
    <3>4. ~(v + 1 = 7 /\ d.level[part] < 7 /\ "badTime" \in d.flaws)
      BY <1>1, <2>3, <3>2, <3>3
    <3>5. v + 1 = 10 => d.flaws \cap {"both", "noSkills", "orphan"} = {}
      BY <2>3, <3>2
    <3> QED
      BY <1>1, <1>4, <3>3, <3>4, <3>5 DEF Refuses
  <2> QED
    BY <1>4, <2>1, <2>2, <2>3 DEF Upgradable
<1> QED
  BY <1>3, <1>4, PartsAre

-----------------------------------------------------------------------------
(* The programs *)

\* What is true of one program, whatever the others do.
Own(q) ==
    /\ q \in Program /\ q.use \in UsesAt[q.pc]
    /\ q.pc # "failed" => q.error = "none"
    /\ Supported(start) \/ q.pc \in {"idle", "failed", "lock"}
    /\ q.error = "refused" => ~Upgradable(start, PartOf(q.use))
    /\ q.error = "unsupported" => ~Supported(start)
    /\ q.pc \in Reading => OnMark(q)
    /\ q.pc = "done" /\ q.use \in {"load", "inspect"} =>
          \E n \in DOMAIN saved : q.loaded = saved[n]

\* What a program may become that neither holds nor takes the write lock.
Fits(q) == Own(q) /\ q.pc # "migrate"

LEMMA Known ==
    ASSUME StoreInv, NEW p \in Openers
    PROVE  Typed /\ Own(opener[p]) /\ (Supported(file) <=> Supported(start))
  BY SupportedStays
     DEF StoreInv, Typed, Routed, Reached, OnlyBadFilesAreRefused, Coherent, LoadsAreCoherent,
         Own, At, Part

\* Only program p moves: what concerns the programs alone stays true.
LEMMA OwnStep ==
    ASSUME StoreInv, NEW p \in Openers, NEW q, Own(q), opener' = [opener EXCEPT ![p] = q],
           UNCHANGED <<start, saved>>,
           \/ file'.wal = file.wal
           \/ q.pc \notin Reading /\ \A r \in Openers \ {p} : Closed(r)
    PROVE  /\ opener' \in [Openers -> Program]
           /\ opener'[p] = q /\ \A r \in Openers \ {p} : opener'[r] = opener[r]
           /\ Routed' /\ OnlyBadFilesAreRefused' /\ Coherent' /\ LoadsAreCoherent'
           /\ ~Supported(start) =>
                 \A r \in Openers : opener'[r].pc \in {"idle", "failed", "lock"}
<1>1. /\ opener' \in [Openers -> Program] /\ opener'[p] = q
      /\ \A r \in Openers \ {p} : opener'[r] = opener[r]
  BY DEF StoreInv, Typed, Own
<1>2. Routed'
  BY <1>1 DEF StoreInv, Routed, Own
<1>3. OnlyBadFilesAreRefused'
  BY <1>1 DEF StoreInv, OnlyBadFilesAreRefused, Part, Own
<1>4. Coherent'
  <2>1. ASSUME NEW r \in Openers, opener'[r].pc \in Reading PROVE OnMark(opener[r])'
    <3>1. file'.wal = file.wal
      BY <1>1, <2>1 DEF Closed, Reading
    <3>2. OnMark(opener'[r])
      BY <1>1, <2>1 DEF StoreInv, Coherent, Own
    <3> QED
      BY <3>1, <3>2 DEF OnMark
  <2> QED
    BY <2>1 DEF Coherent
<1>6. LoadsAreCoherent'
  BY <1>1 DEF StoreInv, LoadsAreCoherent, At, Own
<1>5. ~Supported(start) => \A r \in Openers : opener'[r].pc \in {"idle", "failed", "lock"}
  BY <1>1 DEF StoreInv, Reached, Own
<1> QED
  BY <1>1, <1>2, <1>3, <1>4, <1>5, <1>6

\* A program that holds no lock afterwards; what it had not committed is gone.
LEMMA RollbackStep ==
    ASSUME StoreInv, NEW p \in Openers, NEW q, Fits(q),
           opener' = [opener EXCEPT ![p] = q],
           Release(p), UNCHANGED <<file, start, saved>>
    PROVE  StoreInv'
<1>1. /\ opener' \in [Openers -> Program]
      /\ opener'[p] = q /\ \A r \in Openers \ {p} : opener'[r] = opener[r]
      /\ Routed' /\ OnlyBadFilesAreRefused' /\ Coherent' /\ LoadsAreCoherent'
      /\ ~Supported(start) => \A r \in Openers : opener'[r].pc \in {"idle", "failed", "lock"}
  BY OwnStep DEF Fits
<1>2. Nobody \notin Openers /\ Typed
  BY StorageAssumption DEF StoreInv
<1>3. Typed'
  BY <1>1, <1>2 DEF Typed, Release
<1>4. Drafted'
  <2>1. ASSUME NEW r \in Openers PROVE writer' = r <=> r # p /\ writer = r
    BY <1>2, <2>1 DEF Release
  <2>2. \A r \in Openers : At(r, "migrate")' <=> r # p /\ At(r, "migrate")
    BY <1>1 DEF At, Fits
  <2>3. \A r \in Openers : writer' = r <=> At(r, "migrate")'
    BY <2>1, <2>2 DEF StoreInv, Drafted
  <2>4. ASSUME NEW r \in Openers, At(r, "migrate")'
        PROVE  /\ opener'[r].version \in file.marker[Part(r)']..Current[Part(r)']
               /\ Advanced(file, draft', Part(r)', opener'[r].version)
    <3>1. r # p /\ opener'[r] = opener[r] /\ At(r, "migrate") /\ writer = r
      BY <1>1, <2>2, <2>4 DEF StoreInv, Drafted
    <3>2. draft' = draft /\ Part(r)' = Part(r)
      BY <3>1 DEF Release, Part
    <3> QED
      BY <3>1, <3>2 DEF StoreInv, Drafted
  <2>5. writer' = Nobody => draft' = file
    BY DEF Release, StoreInv, Drafted
  <2> QED
    BY <2>3, <2>4, <2>5 DEF Drafted
<1>5. Reached'
  BY <1>1 DEF StoreInv, Reached, WholePart
<1> QED
  BY <1>1, <1>3, <1>4, <1>5 DEF StoreInv

LEMMA FitsStep ==
    ASSUME StoreInv, NEW p \in Openers, NEW q, Fits(q), ~At(p, "migrate"),
           opener' = [opener EXCEPT ![p] = q],
           UNCHANGED <<file, start, writer, draft, saved>>
    PROVE  StoreInv'
<1>1. writer # p
  BY DEF StoreInv, Drafted
<1>2. Release(p)
  BY <1>1 DEF Release
<1> QED
  BY <1>2, RollbackStep

LEMMA NoRecordIs == NoRecord \in Records
  BY DEF NoRecord, NoSave, Records, Saves

\* A program that gives up.
LEMMA FailFits ==
    ASSUME StoreInv, NEW p \in Openers,
           NEW e \in {"unsupported", "locked", "mismatch", "missing", "refused"},
           e = "unsupported" => ~Supported(start),
           e = "refused" => ~Upgradable(start, Part(p))
    PROVE  Fits([opener[p] EXCEPT !.pc = "failed", !.error = e])
<1>1. opener[p] \in Program
  BY Known DEF Own
<1> QED
  BY <1>1 DEF Fits, Own, Program, Reading, UsesAt, Part

-----------------------------------------------------------------------------
(* Steps that move one program *)

LEMMA CheckSound ==
    ASSUME StoreInv, NEW p \in Openers, NEW use \in Uses, Check(p, use)
    PROVE  StoreInv'
<1> DEFINE q == [opener[p] EXCEPT
                    !.use = use,
                    !.pc = IF Supported(file) THEN "journal" ELSE "failed",
                    !.error = IF Supported(file) THEN "none" ELSE "unsupported"]
<1>1. opener[p] \in Program /\ opener[p].pc = "idle" /\ (Supported(file) <=> Supported(start))
      /\ opener \in [Openers -> Program]
  BY Known DEF Own, Check, At, Typed
<1>2. opener' = [opener EXCEPT ![p] = q]
  BY <1>1 DEF Check
<1>3. Fits(q)
  BY <1>1 DEF Fits, Own, Program, Reading, UsesAt, Check
<1> QED
  BY <1>1, <1>2, <1>3, FitsStep DEF Check, At

LEMMA BeginSound ==
    ASSUME StoreInv, NEW p \in Openers, NEW use \in Uses, Begin(p, use)
    PROVE  StoreInv'
<1>1. PICK identity \in Identities :
         opener' = [opener EXCEPT ![p] =
             [@ EXCEPT !.use = use, !.pc = "lock", !.identity = identity]]
  BY DEF Begin
<1> DEFINE q == [opener[p] EXCEPT !.use = use, !.pc = "lock", !.identity = identity]
<1>2. /\ opener[p] \in Program /\ opener[p].pc = "idle" /\ opener \in [Openers -> Program]
      /\ opener[p].error = "none"
  BY Known DEF Own, Begin, At, Typed
<1>3. opener' = [opener EXCEPT ![p] = q]
  BY <1>1, <1>2
<1>4. Fits(q)
  BY <1>2 DEF Fits, Own, Program, Reading, UsesAt, Begin, Part
<1> QED
  BY <1>2, <1>3, <1>4, FitsStep DEF Begin, At
LEMMA InspectSound ==
    ASSUME StoreInv, NEW p \in Openers, Inspect(p)
    PROVE  StoreInv'
<1> DEFINE current == file.marker["transactions"] = Current["transactions"]
           q == [opener[p] EXCEPT
                    !.use = "inspect",
                    !.pc = IF Supported(file) /\ current THEN "header" ELSE "failed",
                    !.error = CASE ~Supported(file) -> "unsupported"
                                [] Supported(file) /\ ~current -> "outdated"
                                [] OTHER -> "none"]
<1>1. opener[p] \in Program /\ opener[p].pc = "idle" /\ (Supported(file) <=> Supported(start))
      /\ opener \in [Openers -> Program]
  BY Known DEF Own, Inspect, At, Typed
<1>2. opener' = [opener EXCEPT ![p] = q]
  BY DEF Inspect
<1>3. Fits(q)
  <2> HIDE DEF current
  <2>1. CASE ~Supported(file)
    BY <1>1, <2>1 DEF Fits, Own, Program, Reading, UsesAt, Uses
  <2>2. CASE Supported(file) /\ ~current
    BY <1>1, <2>2 DEF Fits, Own, Program, Reading, UsesAt, Uses
  <2>3. CASE Supported(file) /\ current
    BY <1>1, <2>3 DEF Fits, Own, Program, Reading, UsesAt, Uses
  <2> QED
    BY <2>1, <2>2, <2>3
<1> QED
  BY <1>1, <1>2, <1>3, FitsStep DEF Inspect, At

LEMMA LookSound ==
    ASSUME StoreInv, NEW p \in Openers, Look(p)
    PROVE  StoreInv'
<1> DEFINE current == file.marker["queue"] = Current["queue"]
           version == file.marker["queue"]
           q == [opener[p] EXCEPT
                    !.version = version,
                    !.pc = CASE ~Supported(file) -> "failed"
                             [] Supported(file) /\ current -> "open"
                             [] OTHER -> "lock",
                    !.error = IF Supported(file) THEN "none" ELSE "unsupported"]
<1>1. /\ opener[p] \in Program /\ opener[p].pc = "look" /\ opener[p].use = "claim"
      /\ Supported(file) <=> Supported(start)
      /\ opener \in [Openers -> Program] /\ version \in Nat
  BY Known, PartsAre DEF Own, Look, At, Typed, UsesAt, Shapes
<1>2. opener' = [opener EXCEPT ![p] = q]
  BY DEF Look
<1>3. Fits(q)
  <2> HIDE DEF current, version
  <2>1. CASE ~Supported(file)
    BY <1>1, <2>1 DEF Fits, Own, Program, Reading, UsesAt, Uses
  <2>2. CASE Supported(file) /\ ~current
    BY <1>1, <2>2 DEF Fits, Own, Program, Reading, UsesAt, Uses
  <2>3. CASE Supported(file) /\ current
    BY <1>1, <2>3 DEF Fits, Own, Program, Reading, UsesAt, Uses
  <2> QED
    BY <2>1, <2>2, <2>3
<1> QED
  BY <1>1, <1>2, <1>3, FitsStep DEF Look, At

LEMMA JournalBusySound ==
    ASSUME StoreInv, NEW p \in Openers, JournalBusy(p)
    PROVE  StoreInv'
<1>1. Fits([opener[p] EXCEPT !.pc = "failed", !.error = "locked"])
  BY FailFits
<1> QED
  BY <1>1, FitsStep DEF JournalBusy, Fail, At

LEMMA LockBusySound ==
    ASSUME StoreInv, NEW p \in Openers, LockBusy(p)
    PROVE  StoreInv'
<1>1. Fits([opener[p] EXCEPT !.pc = "failed", !.error = "locked"])
  BY FailFits
<1> QED
  BY <1>1, FitsStep DEF LockBusy, Fail, At

LEMMA SaveReadSound ==
    ASSUME StoreInv, NEW p \in Openers, SaveRead(p)
    PROVE  StoreInv'
<1>1. opener[p] \in Program /\ opener[p].pc = "read" /\ opener[p].use = "save"
      /\ opener[p].error = "none" /\ Supported(start)
  BY Known DEF Own, SaveRead, At, UsesAt
<1>2. Fits([opener[p] EXCEPT !.pc = "write"])
  BY <1>1 DEF Fits, Own, Program, Reading, UsesAt, Uses
<1>3. Fits([opener[p] EXCEPT !.pc = "failed", !.error = "mismatch"])
  BY FailFits
<1>4. \/ opener' = [opener EXCEPT ![p] = [@ EXCEPT !.pc = "write"]]
      \/ opener' = [opener EXCEPT ![p] = [@ EXCEPT !.pc = "failed", !.error = "mismatch"]]
  BY DEF SaveRead, Goto, Fail
<1> QED
  BY <1>1, <1>2, <1>3, <1>4, FitsStep DEF SaveRead, At

LEMMA LoadHeaderSound ==
    ASSUME StoreInv, NEW p \in Openers, LoadHeader(p)
    PROVE  StoreInv'
<1>1. /\ Typed /\ opener[p] \in Program /\ opener[p].pc = "header"
      /\ opener[p].use \in {"load", "inspect"} /\ opener[p].error = "none" /\ Supported(start)
  BY Known DEF Own, LoadHeader, At, UsesAt
<1>2. CASE saved = <<>>
  <2>1. Fits([opener[p] EXCEPT !.pc = "failed", !.error = "missing"])
    BY FailFits
  <2> QED
    BY <1>1, <1>2, <2>1, FitsStep DEF LoadHeader, Fail, At
<1>3. CASE saved # <<>>
  <2>1. Len(saved) \in DOMAIN saved /\ record \in Records /\ record = saved[Len(saved)]
        /\ Len(saved) \in Nat
    BY <1>1, <1>3 DEF Typed, record
  <2> DEFINE loaded == [NoRecord EXCEPT !.identity = record.identity, !.header = record.header]
             q == [opener[p] EXCEPT !.pc = "steps", !.mark = Len(saved), !.loaded = loaded]
  <2>2. /\ loaded \in Records
        /\ loaded.identity = record.identity /\ loaded.header = record.header
    BY <2>1, NoRecordIs DEF Records
  <2>3. opener' = [opener EXCEPT ![p] = q]
    BY <1>3 DEF LoadHeader
  <2>4. Fits(q)
    <3> HIDE DEF loaded
    <3>1. /\ q.pc = "steps" /\ q.use = opener[p].use /\ q.error = "none"
          /\ q.mark = Len(saved) /\ q.loaded = loaded /\ q \in Program
      BY <1>1, <2>1, <2>2 DEF Program, Reading
    <3> HIDE DEF q
    <3>2. OnMark(q)
      BY <2>1, <2>2, <3>1 DEF OnMark
    <3> QED
      BY <1>1, <3>1, <3>2 DEF Fits, Own, UsesAt
  <2> QED
    BY <1>1, <2>3, <2>4, FitsStep DEF LoadHeader, At
<1> QED
  BY <1>2, <1>3

\* Under a shared lock and on a snapshot alike, a reader sees the record at its mark.
LEMMA SeesItsMark ==
    ASSUME StoreInv, NEW p \in Openers, opener[p].pc \in Reading
    PROVE  /\ Seen(p) = saved[opener[p].mark] /\ Seen(p) \in Records
           /\ OnMark(opener[p]) /\ opener[p].mark \in DOMAIN saved
           /\ opener[p] \in Program /\ opener[p].use \in {"load", "inspect"}
           /\ opener[p].error = "none" /\ Supported(start)
<1>1. /\ Typed /\ opener[p] \in Program /\ opener[p].use \in {"load", "inspect"}
      /\ opener[p].error = "none" /\ Supported(start)
  BY Known DEF Own, UsesAt, Reading
<1>2. OnMark(opener[p])
  BY DEF StoreInv, Coherent
<1>3. opener[p].mark \in DOMAIN saved /\ saved[opener[p].mark] \in Records
  BY <1>1, <1>2 DEF OnMark, Typed
<1>4. ~file.wal => record = saved[opener[p].mark]
  BY <1>1, <1>2, <1>3 DEF OnMark, record, Typed
<1> QED
  BY <1>1, <1>2, <1>3, <1>4 DEF Seen

LEMMA LoadStepsSound ==
    ASSUME StoreInv, NEW p \in Openers, LoadSteps(p)
    PROVE  StoreInv'
<1> DEFINE loaded == [opener[p].loaded EXCEPT !.steps = Seen(p).steps]
           q == [opener[p] EXCEPT !.pc = "history", !.loaded = loaded]
<1>1. opener[p].pc = "steps" /\ opener[p].pc \in Reading
  BY DEF LoadSteps, At, Reading
<1>2. /\ Seen(p) = saved[opener[p].mark] /\ Seen(p) \in Records /\ OnMark(opener[p])
      /\ opener[p].mark \in DOMAIN saved
      /\ opener[p] \in Program /\ opener[p].use \in {"load", "inspect"}
      /\ opener[p].error = "none" /\ Supported(start)
  BY <1>1, SeesItsMark
<1>3. /\ loaded \in Records /\ loaded.steps = saved[opener[p].mark].steps
      /\ loaded.identity = opener[p].loaded.identity /\ loaded.header = opener[p].loaded.header
  BY <1>2 DEF Program, Records
<1>4. opener' = [opener EXCEPT ![p] = q]
  BY DEF LoadSteps
<1> HIDE DEF loaded
<1>5. /\ q \in Program /\ q.pc = "history" /\ q.use = opener[p].use /\ q.error = "none"
      /\ q.mark = opener[p].mark /\ q.loaded = loaded
  BY <1>2, <1>3 DEF Program, Reading
<1> HIDE DEF q
<1>6. OnMark(q)
  BY <1>2, <1>3, <1>5 DEF OnMark
<1>7. Fits(q)
  BY <1>2, <1>5, <1>6 DEF Fits, Own, UsesAt
<1> QED
  BY <1>1, <1>4, <1>7, FitsStep DEF LoadSteps, At

LEMMA LoadHistorySound ==
    ASSUME StoreInv, NEW p \in Openers, LoadHistory(p)
    PROVE  StoreInv'
<1> DEFINE loaded == [opener[p].loaded EXCEPT !.history = Seen(p).history]
           q == [opener[p] EXCEPT !.pc = "artifacts", !.loaded = loaded]
<1>1. opener[p].pc = "history" /\ opener[p].pc \in Reading
  BY DEF LoadHistory, At, Reading
<1>2. /\ Seen(p) = saved[opener[p].mark] /\ Seen(p) \in Records /\ OnMark(opener[p])
      /\ opener[p].mark \in DOMAIN saved
      /\ opener[p] \in Program /\ opener[p].use \in {"load", "inspect"}
      /\ opener[p].error = "none" /\ Supported(start)
  BY <1>1, SeesItsMark
<1>3. /\ loaded \in Records /\ loaded.history = saved[opener[p].mark].history
      /\ loaded.identity = opener[p].loaded.identity /\ loaded.header = opener[p].loaded.header
      /\ loaded.steps = opener[p].loaded.steps
  BY <1>2 DEF Program, Records
<1>4. opener' = [opener EXCEPT ![p] = q]
  BY DEF LoadHistory
<1> HIDE DEF loaded
<1>5. /\ q \in Program /\ q.pc = "artifacts" /\ q.use = opener[p].use /\ q.error = "none"
      /\ q.mark = opener[p].mark /\ q.loaded = loaded
  BY <1>2, <1>3 DEF Program, Reading
<1> HIDE DEF q
<1>6. OnMark(q)
  BY <1>1, <1>2, <1>3, <1>5 DEF OnMark
<1>7. Fits(q)
  BY <1>2, <1>5, <1>6 DEF Fits, Own, UsesAt
<1> QED
  BY <1>1, <1>4, <1>7, FitsStep DEF LoadHistory, At

\* The last rows complete the record at the mark: what is returned is that save's.
LEMMA LoadArtifactsSound ==
    ASSUME StoreInv, NEW p \in Openers, LoadArtifacts(p)
    PROVE  StoreInv'
<1> DEFINE loaded == [opener[p].loaded EXCEPT !.artifacts = Seen(p).artifacts]
           q == [opener[p] EXCEPT !.pc = "done", !.loaded = loaded]
<1>1. opener[p].pc = "artifacts" /\ opener[p].pc \in Reading
  BY DEF LoadArtifacts, At, Reading
<1>2. /\ Seen(p) = saved[opener[p].mark] /\ Seen(p) \in Records /\ OnMark(opener[p])
      /\ opener[p].mark \in DOMAIN saved
      /\ opener[p] \in Program /\ opener[p].use \in {"load", "inspect"}
      /\ opener[p].error = "none" /\ Supported(start)
  BY <1>1, SeesItsMark
<1>3. loaded \in Records /\ loaded = saved[opener[p].mark]
  <2>1. /\ opener[p].loaded.identity = Seen(p).identity
        /\ opener[p].loaded.header = Seen(p).header
        /\ opener[p].loaded.steps = Seen(p).steps
        /\ opener[p].loaded.history = Seen(p).history
    BY <1>1, <1>2 DEF OnMark
  <2>2. opener[p].loaded \in Records
    BY <1>2 DEF Program
  <2>3. loaded = Seen(p)
    BY <1>2, <2>1, <2>2 DEF Records
  <2> QED
    BY <1>2, <2>3
<1>4. opener' = [opener EXCEPT ![p] = q]
  BY DEF LoadArtifacts
<1> HIDE DEF loaded
<1>5. /\ q \in Program /\ q.pc = "done" /\ q.use = opener[p].use /\ q.error = "none"
      /\ q.loaded = loaded
  BY <1>2, <1>3 DEF Program
<1> HIDE DEF q
<1>6. Fits(q)
  BY <1>2, <1>3, <1>5 DEF Fits, Own, UsesAt, Uses, Reading
<1> QED
  BY <1>1, <1>4, <1>6, FitsStep DEF LoadArtifacts, At

-----------------------------------------------------------------------------
(* Steps that change the file, the lock or the record *)

\* Leaving WAL needs the file alone: the open transaction of another program,
\* which is a copy of the file, never keeps the old mode.
LEMMA SetJournalSound ==
    ASSUME StoreInv, NEW p \in Openers, SetJournal(p)
    PROVE  StoreInv'
<1>1. /\ Typed /\ opener[p] \in Program /\ opener[p].pc = "journal" /\ opener[p].use \in Prepared
      /\ opener[p].error = "none" /\ Supported(start)
  BY Known DEF Own, SetJournal, At, UsesAt
<1> DEFINE pc == IF Part(p) = "queue" THEN "look" ELSE "lock"
           q == [opener[p] EXCEPT !.pc = pc]
<1>2. Own(q) /\ q.pc # "migrate"
  <2>1. CASE opener[p].use = "claim"
    BY <1>1, <2>1 DEF Own, Program, Reading, UsesAt, Part, PartOf, Uses
  <2>2. CASE opener[p].use = "prepare"
    BY <1>1, <2>2 DEF Own, Program, Reading, UsesAt, Part, PartOf, Uses
  <2> QED
    BY <1>1, <2>1, <2>2 DEF Prepared
<1>3. opener' = [opener EXCEPT ![p] = q]
  BY DEF SetJournal, Goto
<1>9. \/ file'.wal = file.wal
      \/ q.pc \notin Reading /\ \A r \in Openers \ {p} : Closed(r)
  <2>1. file'.wal = FALSE /\ file.wal \in BOOLEAN
    BY <1>1 DEF SetJournal, Typed, Shapes
  <2>2. q.pc = "look" \/ q.pc = "lock"
    BY <1>1 DEF Program
  <2>3. q.pc \notin Reading
    <3> HIDE DEF q
    <3> QED
      BY <2>2 DEF Reading
  <2>4. file.wal => \A r \in Openers \ {p} : Closed(r)
    BY DEF SetJournal
  <2>5. ~file.wal => file'.wal = file.wal
    BY <2>1
  <2> HIDE DEF q, pc
  <2> QED
    BY <2>3, <2>4, <2>5
<1> HIDE DEF q, pc
<1>4. /\ opener' \in [Openers -> Program]
      /\ opener'[p] = q /\ \A r \in Openers \ {p} : opener'[r] = opener[r]
      /\ Routed' /\ OnlyBadFilesAreRefused' /\ Coherent' /\ LoadsAreCoherent'
  BY <1>2, <1>3, <1>9, OwnStep DEF SetJournal
<1>5. /\ file' \in Shapes /\ file'.marker = file.marker /\ file'.level = file.level
      /\ file'.flaws = file.flaws /\ file'.unknown = file.unknown /\ file'.lease = file.lease
  BY <1>1 DEF SetJournal, Typed, Shapes
<1>6. Typed'
  BY <1>1, <1>4, <1>5 DEF Typed, SetJournal
<1>7. Drafted'
  <2>1. \A r \in Openers : At(r, "migrate")' <=> At(r, "migrate")
    BY <1>1, <1>2, <1>4 DEF At
  <2>2. ASSUME NEW r \in Openers, At(r, "migrate")
        PROVE  /\ opener'[r].version \in file'.marker[Part(r)']..Current[Part(r)']
               /\ Advanced(file', draft', Part(r)', opener'[r].version)
    <3>1. r # p /\ opener'[r] = opener[r] /\ writer = r /\ writer # Nobody
      BY <1>1, <1>4, <2>2, StorageAssumption DEF At, StoreInv, Drafted
    <3>2. ~file.wal
      BY <2>2, <3>1 DEF SetJournal, Closed, At
    <3>3. file' = file
      BY <1>1, <3>2 DEF SetJournal, Typed, Shapes
    <3>4. draft' = draft /\ Part(r)' = Part(r)
      BY <3>1 DEF SetJournal, Part
    <3> QED
      BY <2>2, <3>1, <3>3, <3>4 DEF StoreInv, Drafted
  <2> QED
    BY <2>1, <2>2 DEF StoreInv, Drafted, SetJournal
<1>8. Reached'
  <2>1. UNCHANGED start
    BY DEF SetJournal
  <2> QED
    BY <1>1, <1>5, <2>1 DEF StoreInv, Reached, WholePart, Supported
<1> QED
  BY <1>4, <1>6, <1>7, <1>8 DEF StoreInv

LEMMA LockSound ==
    ASSUME StoreInv, NEW p \in Openers, Lock(p)
    PROVE  StoreInv'
<1>1. /\ Typed /\ opener[p] \in Program /\ opener[p].pc = "lock"
      /\ opener[p].use \in Uses \ {"inspect"} /\ opener[p].error = "none"
      /\ Supported(file) <=> Supported(start)
      /\ opener[p].error = "none" /\ writer = Nobody
  BY Known DEF Own, Lock, At, UsesAt
<1>2. CASE ~Supported(file)
  <2>1. Fits([opener[p] EXCEPT !.pc = "failed", !.error = "unsupported"])
    BY <1>1, <1>2, FailFits
  <2> QED
    BY <1>1, <1>2, <2>1, FitsStep DEF Lock, Fail, At
<1>3. CASE Supported(file)
  <2> DEFINE version == file.marker[Part(p)]
             q == [opener[p] EXCEPT !.pc = "migrate", !.version = version]
  <2>1. opener' = [opener EXCEPT ![p] = q]
    BY <1>3 DEF Lock
  <2>2. Part(p) \in Parts /\ version \in Nat /\ version <= Current[Part(p)]
    BY <1>1, <1>3, PartsAre DEF Part, PartOf, Supported, Typed, Shapes
  <2>3. Own(q)
    <3> HIDE DEF version
    <3> QED
      BY <1>1, <1>3, <2>2 DEF Own, Program, Reading, UsesAt, Uses
  <2>4. q.use = opener[p].use /\ q.version = version /\ q.pc = "migrate"
    BY <1>1 DEF Program
  <2> HIDE DEF q, version
  <2>5. /\ opener' \in [Openers -> Program]
        /\ opener'[p] = q /\ \A r \in Openers \ {p} : opener'[r] = opener[r]
        /\ Routed' /\ OnlyBadFilesAreRefused' /\ Coherent' /\ LoadsAreCoherent'
    BY <2>1, <2>3, OwnStep DEF Lock
  <2>6. UNCHANGED <<file, start, draft, saved>> /\ writer' = p
    BY <1>3 DEF Lock
  <2>7. Typed'
    BY <1>1, <2>5, <2>6 DEF Typed
  <2>8. Drafted'
    <3>1. ASSUME NEW r \in Openers PROVE At(r, "migrate")' <=> r = p
      BY <1>1, <2>4, <2>5, StorageAssumption DEF At, StoreInv, Drafted
    <3>2. Part(p)' = Part(p) /\ opener'[p].version = version
      BY <2>4, <2>5 DEF Part
    <3>3. version \in file.marker[Part(p)]..Current[Part(p)]
      BY <2>2, CurrentIs, PartsAre DEF version
    <3>4. draft = file
      BY <1>1 DEF StoreInv, Drafted
    <3>5. Advanced(file, draft, Part(p), version)
      BY <1>1, <2>2, <3>4, AdvancedNot DEF version, Typed
    <3> QED
      BY <2>6, <3>1, <3>2, <3>3, <3>5, StorageAssumption DEF Drafted
  <2>9. Reached'
    BY <1>1, <1>3, <2>6 DEF StoreInv, Reached, WholePart
  <2> QED
    BY <2>5, <2>7, <2>8, <2>9 DEF StoreInv
<1> QED
  BY <1>2, <1>3

LEMMA StepSound ==
    ASSUME StoreInv, NEW p \in Openers, Step(p)
    PROVE  StoreInv'
<1>1. /\ Typed /\ opener[p] \in Program /\ opener[p].pc = "migrate"
      /\ opener[p].use \in Uses \ {"inspect"} /\ opener[p].error = "none"
      /\ Supported(start)
  BY Known DEF Own, Step, At, UsesAt
<1> DEFINE v == opener[p].version
           q == [opener[p] EXCEPT !.version = v + 1]
           part == Part(p)
<1>2. part \in Parts /\ v \in Nat /\ v < Current[part] /\ part = PartOf(opener[p].use)
  BY <1>1, PartsAre DEF Part, PartOf, Program, Step
<1>3. file.marker[part] <= v /\ Advanced(file, draft, part, v) /\ writer = p
  <2>1. file.marker[part] \in Nat /\ Current[part] \in Nat
    BY <1>1, <1>2, CurrentIs, PartsAre DEF Typed, Shapes
  <2> QED
    BY <1>1, <1>2, <2>1 DEF StoreInv, Drafted, At
<1>4. ~Refuses(draft, part, v + 1) /\ draft' = Migrated(draft, part, v + 1)
      /\ opener' = [opener EXCEPT ![p] = q]
  BY DEF Step
<1>5. Own(q) /\ q.use = opener[p].use /\ q.version = v + 1 /\ q.pc = "migrate"
  <2> HIDE DEF v
  <2> QED
    BY <1>1, <1>2 DEF Own, Program, Reading, UsesAt, Uses
<1> HIDE DEF v, q, part
<1>6. draft' \in Shapes /\ Advanced(file, draft', part, v + 1)
  BY <1>1, <1>2, <1>3, <1>4, AdvancedOnce DEF Typed
<1>7. /\ opener' \in [Openers -> Program]
      /\ opener'[p] = q /\ \A r \in Openers \ {p} : opener'[r] = opener[r]
      /\ Routed' /\ OnlyBadFilesAreRefused' /\ Coherent' /\ LoadsAreCoherent'
  BY <1>4, <1>5, OwnStep DEF Step
<1>8. UNCHANGED <<file, start, writer, saved>>
  BY DEF Step
<1>9. Typed'
  BY <1>1, <1>6, <1>7, <1>8 DEF Typed
<1>10. Drafted'
  <2>1. ASSUME NEW r \in Openers PROVE At(r, "migrate")' <=> r = p
    BY <1>1, <1>3, <1>5, <1>7 DEF At, StoreInv, Drafted
  <2>2. Part(p)' = part /\ opener'[p].version = v + 1
    BY <1>2, <1>5, <1>7 DEF Part
  <2>3. v + 1 \in file.marker[part]..Current[part]
    BY <1>1, <1>2, <1>3, CurrentIs, PartsAre DEF Typed, Shapes
  <2> QED
    BY <1>3, <1>6, <1>8, <2>1, <2>2, <2>3, StorageAssumption DEF Drafted
<1>11. Reached'
  BY <1>1, <1>8 DEF StoreInv, Reached, WholePart
<1> QED
  BY <1>7, <1>9, <1>10, <1>11 DEF StoreInv
\* A refusal is owed to the file as it was found: what another program has migrated
\* since is not migrated again.
LEMMA RefuseSound ==
    ASSUME StoreInv, NEW p \in Openers, Refuse(p)
    PROVE  StoreInv'
<1>1. /\ Typed /\ opener[p] \in Program /\ opener[p].pc = "migrate"
      /\ opener[p].use \in Uses \ {"inspect"}
  BY Known DEF Own, Refuse, At, UsesAt
<1> DEFINE v == opener[p].version
           part == Part(p)
<1>2. part \in Parts /\ v \in Nat /\ v < Current[part] /\ Refuses(draft, part, v + 1)
  BY <1>1, PartsAre DEF Part, PartOf, Program, Refuse
<1>3. file.marker[part] <= v /\ Advanced(file, draft, part, v)
  <2>1. file.marker[part] \in Nat /\ Current[part] \in Nat
    BY <1>1, <1>2, CurrentIs, PartsAre DEF Typed, Shapes
  <2> QED
    BY <1>1, <1>2, <2>1 DEF StoreInv, Drafted, At
<1> HIDE DEF v, part
<1>4. ~Upgradable(file, part)
  BY <1>1, <1>2, <1>3, UpgradablePasses DEF Typed
<1>5. ~Upgradable(start, part)
  <2>1. file.marker[part] # Current[part]
    BY <1>1, <1>2, <1>3, CurrentIs, PartsAre DEF Typed, Shapes
  <2>2. file.marker[part] = start.marker[part] /\ file.level[part] = start.level[part]
    BY <1>2, <2>1 DEF StoreInv, Reached, WholePart
  <2>3. file.flaws \subseteq start.flaws
    BY DEF StoreInv, Reached
  <2> QED
    BY <1>2, <1>4, <2>2, <2>3, PartsAre DEF Upgradable
<1>6. Fits([opener[p] EXCEPT !.pc = "failed", !.error = "refused"])
  BY <1>5, FailFits DEF part
<1> QED
  BY <1>6, RollbackStep DEF Refuse, Fail

LEMMA CommitBusySound ==
    ASSUME StoreInv, NEW p \in Openers, CommitBusy(p)
    PROVE  StoreInv'
<1>1. Fits([opener[p] EXCEPT !.pc = "failed", !.error = "locked"])
  BY FailFits
<1> QED
  BY <1>1, RollbackStep DEF CommitBusy, Fail

\* A draft at the current version is a whole part, no worse than the file it came from.
LEMMA AdvancedWhole ==
    ASSUME NEW f \in Shapes, NEW d \in Shapes, NEW part \in Parts,
           Advanced(f, d, part, Current[part])
    PROVE  /\ d.marker[part] = Current[part]
           /\ d.level[part] = IF f.marker[part] = Current[part] THEN f.level[part] ELSE Current[part]
           /\ \A q \in Parts \ {part} : d.marker[q] = f.marker[q] /\ d.level[q] = f.level[q]
           /\ d.flaws \subseteq f.flaws
           /\ part = "queue" => d.flaws = f.flaws
           /\ d.unknown = f.unknown
           /\ d.lease = IF part = "queue" /\ f.marker[part] < 3 THEN "none" ELSE f.lease
<1>1. f.marker \in [Parts -> 0..11] /\ f.level \in [Parts -> 0..10] /\ Current[part] \in {5, 10}
      /\ (part = "queue" => Current[part] = 5) /\ (part = "transactions" => Current[part] = 10)
  BY CurrentIs, PartsAre DEF Shapes
<1>2. d.level[part] = IF f.marker[part] = Current[part] THEN f.level[part] ELSE Current[part]
  <2>1. CASE f.marker[part] = Current[part]
    BY <2>1 DEF Advanced
  <2>2. CASE f.marker[part] # Current[part]
    <3>1. d.level[part] = Higher(f.level[part], Current[part])
      BY <2>2 DEF Advanced
    <3>2. f.level[part] \in 0..10 /\ (part = "queue" => f.level[part] < Current[part])
      BY <1>1, <2>2 DEF Advanced
    <3> QED
      BY <1>1, <2>2, <3>1, <3>2, PartsAre DEF Higher
  <2> QED
    BY <2>1, <2>2
<1>3. d.flaws \subseteq f.flaws /\ (part = "queue" => d.flaws = f.flaws)
  <2>1. CASE f.marker[part] # 0
    BY <2>1 DEF Advanced
  <2>2. CASE f.marker[part] = 0
    <3>1. d.flaws = StepTables(f, part, 1)
      BY <1>1, <2>2 DEF Advanced
    <3>2. CASE part = "queue"
      BY <3>1, <3>2 DEF StepTables
    <3>3. CASE part = "transactions"
      <4>1. "both" \notin d.flaws
        BY <1>1, <2>2, <3>3 DEF Advanced
      <4>2. f.level[part] < 10 \/ f.level[part] = 10
        BY <1>1
      <4> QED
        BY <3>1, <3>3, <4>1, <4>2 DEF StepTables
    <3> QED
      BY <3>2, <3>3, PartsAre
  <2> QED
    BY <2>1, <2>2
<1> QED
  BY <1>1, <1>2, <1>3 DEF Advanced

\* What a commit makes of the file: a whole part, or no change.
LEMMA CommitSound ==
    ASSUME StoreInv, NEW p \in Openers, Commit(p)
    PROVE  StoreInv'
<1>1. /\ Typed /\ opener[p] \in Program /\ opener[p].pc = "migrate"
      /\ opener[p].use \in Uses \ {"inspect"} /\ opener[p].error = "none"
      /\ Supported(start)
  BY Known DEF Own, Commit, At, UsesAt
<1> DEFINE part == Part(p)
           pc == Ready[opener[p].use]
           q == [opener[p] EXCEPT !.pc = pc]
<1>2. part \in Parts /\ opener[p].version = Current[part]
  BY <1>1, PartsAre DEF Part, PartOf, Commit
<1>3. Advanced(file, draft, part, Current[part]) /\ writer = p
  BY <1>1, <1>2 DEF StoreInv, Drafted, At
<1>4. Own(q) /\ q.pc # "migrate"
  <2>1. \/ opener[p].use = "claim" /\ pc = "open"
        \/ opener[p].use = "prepare" /\ pc = "done"
        \/ opener[p].use = "save" /\ pc = "read"
        \/ opener[p].use = "load" /\ pc = "header"
    BY <1>1 DEF Ready, Uses
  <2> HIDE DEF pc
  <2> QED
    BY <1>1, <2>1 DEF Own, Program, Reading, UsesAt, Prepared, Uses
<1>5. opener' = [opener EXCEPT ![p] = q] /\ file' = draft /\ writer' = Nobody
      /\ UNCHANGED <<start, draft, saved>>
  BY DEF Commit, Goto
<1> HIDE DEF part, pc, q
<1>6. /\ opener' \in [Openers -> Program]
      /\ opener'[p] = q /\ \A r \in Openers \ {p} : opener'[r] = opener[r]
      /\ Routed' /\ OnlyBadFilesAreRefused' /\ Coherent' /\ LoadsAreCoherent'
  BY <1>3, <1>4, <1>5, OwnStep DEF Advanced
<1>7. Typed'
  BY <1>1, <1>5, <1>6 DEF Typed
<1>8. Drafted'
  <2>1. \A r \in Openers : ~At(r, "migrate")'
    BY <1>3, <1>4, <1>6 DEF At, StoreInv, Drafted
  <2> QED
    BY <1>5, <2>1, StorageAssumption DEF Drafted
<1>9. /\ draft.marker[part] = Current[part]
      /\ draft.level[part] = IF file.marker[part] = Current[part] THEN file.level[part]
                             ELSE Current[part]
      /\ \A r \in Parts \ {part} : /\ draft.marker[r] = file.marker[r]
                                   /\ draft.level[r] = file.level[r]
      /\ draft.flaws \subseteq file.flaws
      /\ part = "queue" => draft.flaws = file.flaws
      /\ draft.unknown = file.unknown
      /\ draft.lease = IF part = "queue" /\ file.marker[part] < 3 THEN "none" ELSE file.lease
  BY <1>1, <1>2, <1>3, AdvancedWhole DEF Typed
<1>10. Reached'
  <2>1. \A r \in Parts : WholePart(r)'
    <3>1. ASSUME NEW r \in Parts PROVE WholePart(r)'
      BY <1>5, <1>9 DEF StoreInv, Reached, WholePart
    <3> QED
      BY <3>1
  <2>2. file'.flaws \subseteq start'.flaws /\ file'.unknown = start'.unknown
    BY <1>5, <1>9 DEF StoreInv, Reached
  <2>3. file'.marker["transactions"] # 10 => file'.flaws = start'.flaws
    <3>1. CASE part = "queue"
      BY <1>5, <1>9, <3>1, PartsAre DEF StoreInv, Reached
    <3>2. CASE part = "transactions"
      BY <1>5, <1>9, <3>2, CurrentIs
    <3> QED
      BY <1>2, <3>1, <3>2, PartsAre
  <2>4. /\ file'.marker["queue"] >= 3 => file'.lease # "bare"
        /\ start'.lease = "token" /\ start'.marker["queue"] >= 3 => file'.lease = "token"
    <3>1. CASE part = "queue"
      <4>1. file.marker["queue"] \in Nat /\ start.marker["queue"] \in Nat
        BY <1>1, PartsAre DEF Typed, Shapes, Files
      <4>2. start.marker["queue"] >= 3 => file.marker["queue"] >= 3
        BY <4>1, CurrentIs, PartsAre DEF StoreInv, Reached, WholePart
      <4>3. file.marker["queue"] < 3 \/ file.marker["queue"] >= 3
        BY <4>1
      <4> QED
        <5>1. CASE file.marker["queue"] < 3
          <6>1. file'.lease = "none" /\ ~(start.marker["queue"] >= 3)
            BY <1>5, <1>9, <3>1, <4>1, <4>2, <5>1
          <6> QED
            BY <1>5, <6>1
        <5>2. CASE file.marker["queue"] >= 3
          <6>1. file'.lease = file.lease
            BY <1>5, <1>9, <3>1, <4>1, <5>2
          <6> QED
            BY <1>5, <5>2, <6>1 DEF StoreInv, Reached
        <5> QED
          BY <4>3, <5>1, <5>2
    <3>2. CASE part = "transactions"
      BY <1>5, <1>9, <3>2, PartsAre DEF StoreInv, Reached
    <3> QED
      BY <1>2, <3>1, <3>2, PartsAre
  <2> QED
    BY <1>1, <1>5, <2>1, <2>2, <2>3, <2>4 DEF Reached, Supported
<1> QED
  BY <1>6, <1>7, <1>8, <1>10 DEF StoreInv

\* A claim is made in a file that nobody migrates, at version 5.
LEMMA ClaimTokenSound ==
    ASSUME StoreInv, NEW p \in Openers, ClaimToken(p)
    PROVE  StoreInv'
<1>1. /\ Typed /\ opener[p] \in Program /\ opener[p].pc = "open" /\ opener[p].use = "claim"
      /\ opener[p].error = "none" /\ Supported(start) /\ writer = Nobody
  BY Known DEF Own, ClaimToken, At, UsesAt
<1> DEFINE q == [opener[p] EXCEPT !.pc = "done"]
<1>2. Own(q) /\ q.pc = "done"
  BY <1>1 DEF Own, Program, Reading, UsesAt, Uses
<1>3. opener' = [opener EXCEPT ![p] = q]
  BY DEF ClaimToken, Goto
<1>5. /\ file' \in Shapes /\ file'.marker = file.marker /\ file'.level = file.level
      /\ file'.flaws = file.flaws /\ file'.unknown = file.unknown /\ file'.lease = "token"
      /\ file'.wal = file.wal
  BY <1>1 DEF ClaimToken, Typed, Shapes, Leases
<1> HIDE DEF q
<1>4. /\ opener' \in [Openers -> Program]
      /\ opener'[p] = q /\ \A r \in Openers \ {p} : opener'[r] = opener[r]
      /\ Routed' /\ OnlyBadFilesAreRefused' /\ Coherent' /\ LoadsAreCoherent'
  BY <1>2, <1>3, <1>5, OwnStep DEF ClaimToken
<1>6. UNCHANGED <<start, writer, saved>> /\ draft' = file'
  BY DEF ClaimToken
<1>7. Typed'
  BY <1>1, <1>4, <1>5, <1>6 DEF Typed
<1>8. Drafted'
  <2>1. \A r \in Openers : ~At(r, "migrate")'
    BY <1>1, <1>2, <1>4, StorageAssumption DEF At, StoreInv, Drafted
  <2> QED
    BY <1>1, <1>6, <2>1, StorageAssumption DEF Drafted
<1>9. Reached'
  BY <1>1, <1>5, <1>6 DEF StoreInv, Reached, WholePart, Supported
<1> QED
  BY <1>4, <1>7, <1>8, <1>9 DEF StoreInv

\* A history keeps its rows and gains those of the save beyond them.
LEMMA AddedTyped ==
    ASSUME NEW history \in Seq(Saves), NEW save \in Saves, NEW length \in Nat
    PROVE  Added(history, save, length) \in Seq(Saves)
<1> DEFINE most == Higher(Len(history), length)
<1>1. most \in Nat
  BY DEF Higher
<1> HIDE DEF most
<1>2. \A i \in 1..most : (IF i \in DOMAIN history THEN history[i] ELSE save) \in Saves
  OBVIOUS
<1>3. Added(history, save, length)
         = [i \in 1..most |-> IF i \in DOMAIN history THEN history[i] ELSE save]
  BY DEF Added, most
<1> QED
  BY <1>1, <1>2, <1>3

\* A save adds a record after the ones that readers and finished loads have to do with;
\* with a rollback journal there is no reader beside it.
LEMMA SaveWriteSound ==
    ASSUME StoreInv, NEW p \in Openers, SaveWrite(p)
    PROVE  StoreInv'
<1>1. /\ Typed /\ opener[p] \in Program /\ opener[p].pc = "write" /\ opener[p].use = "save"
      /\ opener[p].error = "none" /\ Supported(start)
  BY Known DEF Own, SaveWrite, At, UsesAt
<1>2. opener' = [opener EXCEPT ![p] = [@ EXCEPT !.pc = "done"]]
      /\ UNCHANGED <<file, start, writer, draft>> /\ ~Blocked
  BY DEF SaveWrite, Goto
<1>3. /\ opener' \in [Openers -> Program]
      /\ opener'[p] = [opener[p] EXCEPT !.pc = "done"]
      /\ \A r \in Openers \ {p} : opener'[r] = opener[r]
  BY <1>1, <1>2 DEF Typed, Program
<1>4. opener'[p].pc = "done" /\ opener'[p].use = "save" /\ opener'[p].error = "none"
  BY <1>1, <1>3 DEF Program
<1>5. PICK new \in Records : saved' = Append(saved, new)
  <2> DEFINE save == [revision |-> record.header.revision + 1, by |-> opener[p].identity]
             identity == IF record.identity = Nobody THEN save.by ELSE record.identity
  <2>1. record \in Records
    BY <1>1, NoRecordIs DEF record, Typed
  <2>2. record.header.revision \in Nat /\ record.identity \in Identities \cup {Nobody}
        /\ record.history \in Seq(Saves) /\ opener[p].identity \in Identities \cup {Nobody}
    BY <1>1, <2>1 DEF Records, Saves, Program
  <2>3. save \in Saves /\ identity \in Identities \cup {Nobody}
    BY <2>2 DEF Saves
  <2>4. PICK length \in 0..MaxHistory :
           saved' = Append(saved,
              [identity |-> identity, header |-> save, steps |-> save, artifacts |-> save,
               history |-> Added(record.history, save, length)])
    BY DEF SaveWrite
  <2> HIDE DEF save, identity
  <2>5. Added(record.history, save, length) \in Seq(Saves)
    BY <2>2, <2>3, AddedTyped, StorageAssumption
  <2> QED
    BY <2>3, <2>4, <2>5 DEF Records
<1>6. /\ saved' \in Seq(Records) /\ Len(saved) \in Nat
      /\ \A n \in DOMAIN saved : n \in DOMAIN saved' /\ saved'[n] = saved[n]
  BY <1>1, <1>5 DEF Typed
<1>7. Typed'
  BY <1>1, <1>2, <1>3, <1>6 DEF Typed
<1>8. Routed'
  <2>1. opener'[p].use \in UsesAt[opener'[p].pc]
    BY <1>4 DEF UsesAt, Uses
  <2> QED
    BY <1>3, <1>4, <2>1 DEF StoreInv, Routed
<1>9. Drafted'
  <2>1. \A r \in Openers : At(r, "migrate")' <=> At(r, "migrate")
    BY <1>1, <1>3, <1>4 DEF At
  <2>2. \A r \in Openers : At(r, "migrate") => Part(r)' = Part(r) /\ opener'[r] = opener[r]
    BY <1>1, <1>3 DEF At, Part
  <2> QED
    BY <1>2, <2>1, <2>2 DEF StoreInv, Drafted, Advanced
<1>10. Reached'
  BY <1>1, <1>2, <1>3, <1>4 DEF StoreInv, Reached, WholePart
<1>11. OnlyBadFilesAreRefused'
  BY <1>2, <1>3, <1>4 DEF StoreInv, OnlyBadFilesAreRefused, Part
<1>12. Coherent'
  <2>1. ASSUME NEW r \in Openers, opener'[r].pc \in Reading PROVE OnMark(opener[r])'
    <3>1. opener'[r] = opener[r] /\ opener[r].pc \in Reading
      BY <1>3, <1>4, <2>1 DEF Reading
    <3>2. OnMark(opener[r])
      BY <3>1 DEF StoreInv, Coherent
    <3>3. file.wal
      BY <1>2, <3>1 DEF Blocked, Readers, Reading
    <3> QED
      BY <1>2, <1>6, <3>1, <3>2, <3>3 DEF OnMark
  <2> QED
    BY <2>1 DEF Coherent
<1>13. LoadsAreCoherent'
  <2>1. ASSUME NEW r \in Openers, opener'[r].pc = "done", opener'[r].use \in {"load", "inspect"}
        PROVE  \E n \in DOMAIN saved' : opener'[r].loaded = saved'[n]
    <3>1. opener'[r] = opener[r]
      BY <1>3, <1>4, <2>1
    <3>2. PICK n \in DOMAIN saved : opener[r].loaded = saved[n]
      BY <2>1, <3>1 DEF StoreInv, LoadsAreCoherent, At
    <3> QED
      BY <1>6, <3>1, <3>2
  <2> QED
    BY <2>1 DEF LoadsAreCoherent, At
<1> QED
  BY <1>7, <1>8, <1>9, <1>10, <1>11, <1>12, <1>13 DEF StoreInv

LEMMA CrashSound ==
    ASSUME StoreInv, NEW p \in Openers, Crash(p)
    PROVE  StoreInv'
<1>1. Fits(Idle)
  BY NoRecordIs DEF Fits, Own, Idle, Program, UsesAt, Uses, Reading
<1> QED
  BY <1>1, RollbackStep DEF Crash
-----------------------------------------------------------------------------
(* The specification *)

LEMMA InitSound == Init => StoreInv
<1> SUFFICES ASSUME Init PROVE StoreInv
  OBVIOUS
<1>1. Idle \in Program /\ \A p \in Openers : opener[p] = Idle
  BY NoRecordIs DEF Init, Idle, Program, Uses
<1>2. opener \in [Openers -> Program]
  BY <1>1 DEF Init
<1>3. file \in Files /\ start = file /\ draft = file /\ writer = Nobody
  BY StorageAssumption DEF Init
<1>4. Typed
  BY <1>2, <1>3 DEF Typed, Init, Files
<1>5. Routed
  BY <1>1 DEF Routed, Idle, UsesAt, Uses
<1>6. Drafted
  BY <1>1, <1>3, StorageAssumption DEF Drafted, At, Idle
<1>7. Reached
  BY <1>1, <1>3 DEF Reached, WholePart, Idle, Files
<1>8. OnlyBadFilesAreRefused /\ Coherent /\ LoadsAreCoherent
  BY <1>1 DEF OnlyBadFilesAreRefused, Coherent, LoadsAreCoherent, At, Idle, Reading
<1> QED
  BY <1>4, <1>5, <1>6, <1>7, <1>8 DEF StoreInv

LEMMA NextSound == StoreInv /\ [Next]_vars => StoreInv'
<1> SUFFICES ASSUME StoreInv, [Next]_vars PROVE StoreInv'
  OBVIOUS
<1>1. CASE UNCHANGED vars
  BY <1>1 DEF vars, StoreInv, Typed, Routed, Drafted, Advanced, Reached, WholePart, Coherent,
              OnMark, OnlyBadFilesAreRefused, LoadsAreCoherent, At, Part
<1>2. ASSUME NEW p \in Openers, NEW use \in Uses, Check(p, use) \/ Begin(p, use)
      PROVE  StoreInv'
  BY <1>2, CheckSound, BeginSound
<1>3. ASSUME NEW p \in Openers, Inspect(p) \/ SetJournal(p) \/ JournalBusy(p) \/ Look(p)
      PROVE  StoreInv'
  BY <1>3, InspectSound, SetJournalSound, JournalBusySound, LookSound
<1>4. ASSUME NEW p \in Openers,
             Lock(p) \/ LockBusy(p) \/ Step(p) \/ Refuse(p) \/ Commit(p) \/ CommitBusy(p)
      PROVE  StoreInv'
  BY <1>4, LockSound, LockBusySound, StepSound, RefuseSound, CommitSound, CommitBusySound
<1>5. ASSUME NEW p \in Openers,
             \/ ClaimToken(p) \/ SaveRead(p) \/ SaveWrite(p)
             \/ LoadHeader(p) \/ LoadSteps(p) \/ LoadHistory(p) \/ LoadArtifacts(p)
             \/ Crash(p)
      PROVE  StoreInv'
  BY <1>5, ClaimTokenSound, SaveReadSound, SaveWriteSound, LoadHeaderSound, LoadStepsSound,
     LoadHistorySound, LoadArtifactsSound, CrashSound
<1> QED
  BY <1>1, <1>2, <1>3, <1>4, <1>5 DEF Next

\* StoreInv holds in every state, for any set of programs and any files they may find.
THEOREM StorageInvariant == Spec => []StoreInv
  BY InitSound, NextSound, PTL DEF Spec

\* Whichever way the _ensure_schema of the queue, that of the transactions and the checks
\* before them are interleaved, killed or refused, the file is found whole: each part as it was
\* or at the current version, no new damage, no newer file touched, no lease without a token.
THEOREM FilesAreAlwaysWhole == Spec => []FilesAreWhole
<1>1. StoreInv => FilesAreWhole
  BY DEF StoreInv, Reached, FilesAreWhole
<1> QED
  BY <1>1, StorageInvariant, PTL

\* ensure_supported_schema and a migration step that raises judge the file that was found,
\* never what another program did to it at the same moment.
THEOREM OnlyBadFilesAreEverRefused == Spec => []OnlyBadFilesAreRefused
<1>1. StoreInv => OnlyBadFilesAreRefused
  BY DEF StoreInv
<1> QED
  BY <1>1, StorageInvariant, PTL

\* load_transaction returns the record exactly as one save left it, header, steps, history
\* and artifacts, for any number of programs that save beside it: with a rollback journal its
\* shared lock keeps _write_transaction_rows out, in WAL mode BEGIN fixes what it sees.
THEOREM LoadsAreAlwaysCoherent == Spec => []LoadsAreCoherent
<1>1. StoreInv => LoadsAreCoherent
  BY DEF StoreInv
<1> QED
  BY <1>1, StorageInvariant, PTL

=============================================================================
