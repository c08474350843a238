------------------------------ MODULE Storage ------------------------------
(***************************************************************************)
(* The SQLite file under the queue and the transaction store               *)
(* (rpacore/_sqlite.py, the migrations of rpacore/persistence.py and       *)
(* rpacore/queue.py, save_transaction and load_transaction).               *)
(*                                                                         *)
(* A file holds two parts with a schema version (the marker) each.  Every  *)
(* program that opens it first refuses a file of a newer version, then may *)
(* change the journal mode, then migrates its own part, one version at a   *)
(* time, in one write transaction.  Several programs open the same file;   *)
(* any of them may die between two steps.                                  *)
(*                                                                         *)
(* level[part] is the version whose tables and columns are really there:   *)
(* it differs from the marker in files whose marker a user put back.       *)
(***************************************************************************)
EXTENDS Naturals, Sequences, FiniteSets

CONSTANTS
    Openers,      \* programs using the file
    Starts,       \* the files they may find
    Identities,   \* automation definition identities a saved record carries
    Nobody,       \* no program; no identity
    MaxHistory,   \* bound on the history entries of a transaction that is saved
    MaxCrashes    \* bound on the programs that die and start again

Parts == {"queue", "transactions"}

\* QUEUE_SCHEMA_VERSION and TRANSACTION_SCHEMA_VERSION.
Current == [part \in Parts |-> IF part = "queue" THEN 5 ELSE 10]

(***************************************************************************)
(* What stops a migration: both generations of step tables, new step       *)
(* tables with old child columns, no step table at all, a creation time    *)
(* that does not parse, an exception row without its step.                 *)
(***************************************************************************)
Flaws == {"both", "legacyChildren", "noSkills", "badTime", "orphan"}

\* Whether an item is in progress, without or with a claim token (v3 adds it).
Leases == {"none", "bare", "token"}

Shapes == [marker: [Parts -> 0..11], level: [Parts -> 0..10],
           flaws: SUBSET Flaws, unknown: BOOLEAN, wal: BOOLEAN, lease: Leases]

\* Since version 3 no claim is made without a token, and no row is left with one.
Files == {f \in Shapes : f.marker["queue"] >= 3 => f.lease # "bare"}

ASSUME StorageAssumption ==
    /\ Starts \subseteq Files
    /\ Nobody \notin Openers \cup Identities
    /\ MaxHistory \in Nat /\ MaxCrashes \in Nat

(***************************************************************************)
(* What a program does with the file: build a SqliteQueue and claim, run   *)
(* _prepare_transaction_database, save or load a transaction, or inspect   *)
(* the file without writing.                                               *)
(***************************************************************************)
Uses == {"claim", "prepare", "save", "load", "inspect"}
PartOf(use) == IF use = "claim" THEN "queue" ELSE "transactions"
Prepared == {"claim", "prepare"}       \* check, then journal mode, then schema

VARIABLES
    file,      \* what is committed
    start,     \* the file as the programs found it
    writer,    \* the program that holds the write lock, or Nobody
    draft,     \* the file as the writer's uncommitted transaction leaves it
    saved,     \* the one transaction of the store, as each save so far left it
    opener,    \* the programs
    crashes

vars == <<file, start, writer, draft, saved, opener, crashes>>

(***************************************************************************)
(* A save is known by the revision it gives the record and the identity it *)
(* was made under.  A record says which save wrote its header row, which   *)
(* its steps and exceptions, which its metadata and artifacts and, for     *)
(* each sequence number from 1, which save wrote that row of the history.  *)
(***************************************************************************)
NoSave == [revision |-> 0, by |-> Nobody]
NoRecord == [identity |-> Nobody, header |-> NoSave, steps |-> NoSave, artifacts |-> NoSave,
             history |-> <<>>]

\* What is stored now.
record == IF saved = <<>> THEN NoRecord ELSE saved[Len(saved)]

\* mark is the number of saves a read transaction has behind it.
Idle == [pc |-> "idle", use |-> "inspect", version |-> 0, error |-> "none",
         identity |-> Nobody, mark |-> 0, loaded |-> NoRecord]

Init ==
    /\ file \in Starts
    /\ start = file
    /\ writer = Nobody
    /\ draft = file
    /\ saved = <<>>
    /\ opener = [p \in Openers |-> Idle]
    /\ crashes = 0

At(p, pc) == opener[p].pc = pc
Part(p) == PartOf(opener[p].use)
Goto(p, pc) == opener' = [opener EXCEPT ![p].pc = pc]
Fail(p, error) ==
    opener' = [opener EXCEPT ![p] = [@ EXCEPT !.pc = "failed", !.error = error]]

\* No connection is open.
Closed(p) == opener[p].pc \in {"idle", "failed", "done"}

\* The programs inside a read transaction.
Readers == {p \in Openers : opener[p].pc \in {"steps", "history", "artifacts"}}

\* With a rollback journal a reader's shared lock keeps every change out of the
\* file; in WAL mode a change goes into the log beside it.
Blocked == ~file.wal /\ Readers # {}

Higher(a, b) == IF a > b THEN a ELSE b

-----------------------------------------------------------------------------
(* The compatibility policy and the migrations *)

\* ensure_database_compatibility and ensure_supported_schema: every part.
Supported(f) ==
    /\ ~f.unknown
    /\ \A part \in Parts : f.marker[part] <= Current[part]

(***************************************************************************)
(* A migration step that raises: adding a column that is there, a time     *)
(* that does not parse, tables v10 cannot tell apart or copy.              *)
(***************************************************************************)
Refuses(f, part, v) ==
    \/ part = "queue" /\ v = 5 /\ f.level[part] >= 5
    \/ part = "transactions" /\ v = 7 /\ f.level[part] < 7 /\ "badTime" \in f.flaws
    \/ /\ part = "transactions" /\ v = 10
       /\ \/ "both" \in f.flaws
          \/ f.level[part] = 10 /\ "legacyChildren" \in f.flaws
          \/ f.level[part] < 10 /\ f.flaws \cap {"noSkills", "orphan"} # {}

\* Version 1 creates the old step table whenever it is not there, also beside
\* the new one.
StepTables(f, part, v) ==
    CASE part = "transactions" /\ v = 1 /\ f.level[part] = 10 -> f.flaws \cup {"both"}
      [] part = "transactions" /\ v = 1 /\ f.level[part] < 10 -> f.flaws \ {"noSkills"}
      [] OTHER -> f.flaws

\* The file after migration step v of a part.  Queue version 3 takes back every
\* lease: a row from before has no token to tell its worker from a later one.
Migrated(f, part, v) ==
    [f EXCEPT !.marker[part] = v,
              !.level[part] = Higher(@, v),
              !.flaws = StepTables(f, part, v),
              !.lease = IF part = "queue" /\ v = 3 THEN "none" ELSE @]

-----------------------------------------------------------------------------
(* Opening: compatibility, journal mode, schema *)

\* The connection closes; an uncommitted transaction is rolled back.
Release(p) ==
    /\ writer' = IF writer = p THEN Nobody ELSE writer
    /\ draft' = IF writer = p THEN file ELSE draft

\* Where a program goes once its part has the current schema.
Ready == [claim |-> "open", prepare |-> "done", save |-> "read", load |-> "header",
          inspect |-> "header"]

\* SqliteQueue(), _prepare_transaction_database(): look before anything changes.
Check(p, use) ==
    /\ At(p, "idle")
    /\ use \in Prepared
    /\ opener' = [opener EXCEPT ![p] =
          [@ EXCEPT !.use = use,
                    !.pc = IF Supported(file) THEN "journal" ELSE "failed",
                    !.error = IF Supported(file) THEN "none" ELSE "unsupported"]]
    /\ UNCHANGED <<file, start, writer, draft, saved, crashes>>

\* save_transaction(), load_transaction(): straight to the schema.
Begin(p, use) ==
    /\ At(p, "idle")
    /\ use \in {"save", "load"}
    /\ \E identity \in Identities :
           opener' = [opener EXCEPT ![p] = [@ EXCEPT !.use = use, !.pc = "lock",
                                                     !.identity = identity]]
    /\ UNCHANGED <<file, start, writer, draft, saved, crashes>>

\* A read-only load wants the current schema and migrates nothing.
Inspect(p) ==
    /\ At(p, "idle")
    /\ LET current == file.marker["transactions"] = Current["transactions"] IN
           opener' = [opener EXCEPT ![p] =
               [@ EXCEPT !.use = "inspect",
                         !.pc = IF Supported(file) /\ current THEN "header" ELSE "failed",
                         !.error = CASE ~Supported(file) -> "unsupported"
                                     [] Supported(file) /\ ~current -> "outdated"
                                     [] OTHER -> "none"]]
    /\ UNCHANGED <<file, start, writer, draft, saved, crashes>>

(***************************************************************************)
(* PRAGMA journal_mode = DELETE.  Leaving WAL needs the file alone; it is  *)
(* no part of the schema transaction and stays when that rolls back.       *)
(***************************************************************************)
SetJournal(p) ==
    /\ At(p, "journal")
    /\ file.wal => \A q \in Openers \ {p} : Closed(q)
    /\ file' = [file EXCEPT !.wal = FALSE]
    /\ draft' = IF writer = Nobody THEN file' ELSE draft
    /\ Goto(p, IF Part(p) = "queue" THEN "look" ELSE "lock")
    /\ UNCHANGED <<start, writer, saved, crashes>>

JournalBusy(p) ==
    /\ At(p, "journal")
    /\ file.wal
    /\ \E q \in Openers \ {p} : ~Closed(q)
    /\ Fail(p, "locked")
    /\ UNCHANGED <<file, start, writer, draft, saved, crashes>>

\* The queue looks at its marker before it asks for the lock.
Look(p) ==
    /\ At(p, "look")
    /\ LET current == file.marker["queue"] = Current["queue"] IN
           opener' = [opener EXCEPT ![p] =
               [@ EXCEPT !.version = file.marker["queue"],
                         !.pc = CASE ~Supported(file) -> "failed"
                                  [] Supported(file) /\ current -> "open"
                                  [] OTHER -> "lock",
                         !.error = IF Supported(file) THEN "none" ELSE "unsupported"]]
    /\ UNCHANGED <<file, start, writer, draft, saved, crashes>>

\* Faulty: the version read before the lock is taken at its word.
LockStale(p) ==
    /\ At(p, "lock")
    /\ writer = Nobody
    /\ writer' = p
    /\ opener' = [opener EXCEPT ![p].pc = "migrate"]
    /\ UNCHANGED <<file, start, draft, saved, crashes>>

\* BEGIN IMMEDIATE, then the same checks and the marker once more.
Lock(p) ==
    /\ At(p, "lock")
    /\ writer = Nobody
    /\ IF Supported(file)
       THEN /\ writer' = p
            /\ opener' = [opener EXCEPT ![p] = [@ EXCEPT !.pc = "migrate",
                                                         !.version = file.marker[Part(p)]]]
       ELSE /\ Fail(p, "unsupported")
            /\ UNCHANGED writer
    /\ UNCHANGED <<file, start, draft, saved, crashes>>

\* The lock is not given within the timeout of one second.
LockBusy(p) ==
    /\ opener[p].pc \in {"lock", "write"}
    /\ writer # Nobody \/ (At(p, "write") /\ Blocked)
    /\ Fail(p, "locked")
    /\ UNCHANGED <<file, start, writer, draft, saved, crashes>>

\* Faulty: a step commits by itself, ahead of the ones that may still refuse.
StepByItself(p) ==
    /\ At(p, "migrate")
    /\ opener[p].version < Current[Part(p)]
    /\ ~Refuses(draft, Part(p), opener[p].version + 1)
    /\ draft' = Migrated(draft, Part(p), opener[p].version + 1)
    /\ file' = draft'
    /\ opener' = [opener EXCEPT ![p].version = @ + 1]
    /\ UNCHANGED <<start, writer, saved, crashes>>

\* The next migration step, in the open transaction.
Step(p) ==
    /\ At(p, "migrate")
    /\ opener[p].version < Current[Part(p)]
    /\ ~Refuses(draft, Part(p), opener[p].version + 1)
    /\ draft' = Migrated(draft, Part(p), opener[p].version + 1)
    /\ opener' = [opener EXCEPT ![p].version = @ + 1]
    /\ UNCHANGED <<file, start, writer, saved, crashes>>

\* The next step raises: nothing of the ones before it stays.
Refuse(p) ==
    /\ At(p, "migrate")
    /\ opener[p].version < Current[Part(p)]
    /\ Refuses(draft, Part(p), opener[p].version + 1)
    /\ Fail(p, "refused")
    /\ Release(p)
    /\ UNCHANGED <<file, start, saved, crashes>>

\* The migration commits; one that found the current version has written nothing
\* and needs no reader to go.
Commit(p) ==
    /\ At(p, "migrate")
    /\ opener[p].version = Current[Part(p)]
    /\ draft # file => ~Blocked
    /\ file' = draft
    /\ writer' = Nobody
    /\ Goto(p, Ready[opener[p].use])
    /\ UNCHANGED <<start, draft, saved, crashes>>

CommitBusy(p) ==
    /\ At(p, "migrate")
    /\ opener[p].version = Current[Part(p)]
    /\ draft # file /\ Blocked
    /\ Fail(p, "locked")
    /\ Release(p)
    /\ UNCHANGED <<file, start, saved, crashes>>

-----------------------------------------------------------------------------
(* Using the open file *)

\* next_item leaves a row in progress with a token.
ClaimToken(p) ==
    /\ At(p, "open")
    /\ writer = Nobody /\ ~Blocked
    /\ file' = [file EXCEPT !.lease = "token"]
    /\ draft' = file'
    /\ Goto(p, "done")
    /\ UNCHANGED <<start, writer, saved, crashes>>

(***************************************************************************)
(* _write_transaction_rows reads the stored identity first.  A SELECT      *)
(* opens no transaction in sqlite3's legacy mode: the one that is written  *)
(* under begins at the INSERT after it.                                    *)
(***************************************************************************)
SaveRead(p) ==
    /\ At(p, "read")
    /\ IF record.identity \in {Nobody, opener[p].identity}
       THEN Goto(p, "write")
       ELSE Fail(p, "mismatch")
    /\ UNCHANGED <<file, start, writer, draft, saved, crashes>>

\* INSERT OR IGNORE by sequence number: the rows that are there stay as they
\* are, and a longer history adds the ones that are not.
Added(history, save, length) ==
    [i \in 1..Higher(Len(history), length) |->
        IF i \in DOMAIN history THEN history[i] ELSE save]

(***************************************************************************)
(* The rest of _write_transaction_rows.  INSERT OR IGNORE leaves a stored  *)
(* identity alone; the UPDATE takes the header to the next revision; the   *)
(* steps, metadata and artifacts are deleted and written anew.  Processes  *)
(* save their own copies of the transaction, so the history of one need    *)
(* not be longer than what another has stored.                             *)
(***************************************************************************)
SaveWrite(p) ==
    /\ At(p, "write")
    /\ writer = Nobody /\ ~Blocked
    /\ LET save == [revision |-> record.header.revision + 1, by |-> opener[p].identity]
           identity == IF record.identity = Nobody THEN save.by ELSE record.identity
       IN  \E length \in 0..MaxHistory :
               saved' = Append(saved,
                   [identity |-> identity, header |-> save, steps |-> save, artifacts |-> save,
                    history |-> Added(record.history, save, length)])
    /\ Goto(p, "done")
    /\ UNCHANGED <<file, start, writer, draft, crashes>>

\* BEGIN and the header row: from here the shared lock is held or, in WAL mode,
\* the snapshot of the moment is.
LoadHeader(p) ==
    /\ At(p, "header")
    /\ IF saved = <<>>
       THEN Fail(p, "missing")
       ELSE opener' = [opener EXCEPT ![p] =
                [@ EXCEPT !.pc = "steps", !.mark = Len(saved),
                          !.loaded = [NoRecord EXCEPT !.identity = record.identity,
                                                      !.header = record.header]]]
    /\ UNCHANGED <<file, start, writer, draft, saved, crashes>>

\* Faulty: no BEGIN, so that every SELECT sees what is committed by then.
SeenLate(p) == record

\* The record a read transaction goes on to see.
Seen(p) == IF file.wal THEN saved[opener[p].mark] ELSE record

\* The steps and, one SELECT for each, their exceptions.
LoadSteps(p) ==
    /\ At(p, "steps")
    /\ opener' = [opener EXCEPT ![p] =
          [@ EXCEPT !.pc = "history",
                    !.loaded = [opener[p].loaded EXCEPT !.steps = Seen(p).steps]]]
    /\ UNCHANGED <<file, start, writer, draft, saved, crashes>>

LoadHistory(p) ==
    /\ At(p, "history")
    /\ opener' = [opener EXCEPT ![p] =
          [@ EXCEPT !.pc = "artifacts",
                    !.loaded = [opener[p].loaded EXCEPT !.history = Seen(p).history]]]
    /\ UNCHANGED <<file, start, writer, draft, saved, crashes>>

\* The metadata and the artifacts; then the connection closes.
LoadArtifacts(p) ==
    /\ At(p, "artifacts")
    /\ opener' = [opener EXCEPT ![p] =
          [@ EXCEPT !.pc = "done",
                    !.loaded = [opener[p].loaded EXCEPT !.artifacts = Seen(p).artifacts]]]
    /\ UNCHANGED <<file, start, writer, draft, saved, crashes>>

\* The program dies wherever it is, and starts again.
Crash(p) ==
    /\ ~Closed(p)
    /\ crashes < MaxCrashes
    /\ crashes' = crashes + 1
    /\ opener' = [opener EXCEPT ![p] = Idle]
    /\ Release(p)
    /\ UNCHANGED <<file, start, saved>>

Next ==
    \E p \in Openers :
        \/ \E use \in Uses : Check(p, use) \/ Begin(p, use)
        \/ Inspect(p)
        \/ SetJournal(p) \/ JournalBusy(p) \/ Look(p)
        \/ Lock(p) \/ LockBusy(p)
        \/ Step(p) \/ Refuse(p) \/ Commit(p) \/ CommitBusy(p)
        \/ ClaimToken(p)
        \/ SaveRead(p) \/ SaveWrite(p)
        \/ LoadHeader(p) \/ LoadSteps(p) \/ LoadHistory(p) \/ LoadArtifacts(p)
        \/ Crash(p)

Spec == Init /\ [][Next]_vars

-----------------------------------------------------------------------------
(* Properties *)

\* A part is as it was found, or at the current version altogether.
WholePart(part) ==
    \/ file.marker[part] = start.marker[part] /\ file.level[part] = start.level[part]
    \/ file.marker[part] = Current[part] /\ file.level[part] = Current[part]

(***************************************************************************)
(* Whatever order programs open a file in, and wherever one of them dies   *)
(* or is refused, nobody ever finds a half-migrated part, new damage, or   *)
(* a file of a newer version changed (journal mode included).  A part that *)
(* was migrated past version 3 has no lease without a token, and a claim   *)
(* made under a token is not taken back by a late migration.               *)
(***************************************************************************)
FilesAreWhole ==
    /\ \A part \in Parts : WholePart(part)
    /\ file.flaws \subseteq start.flaws
    /\ ~Supported(start) => file = start
    /\ file.marker["queue"] >= 3 => file.lease # "bare"
    /\ start.lease = "token" /\ start.marker["queue"] >= 3 => file.lease = "token"

\* What a part may look like for its migration to go through: no flaw it would
\* meet, no marker put back behind a change that cannot be made twice.
Upgradable(f, part) ==
    IF part = "queue" THEN f.level["queue"] < 5 \/ f.marker["queue"] = 5
    ELSE \/ f.marker[part] = 10
         \/ /\ f.level[part] = 10
            /\ f.marker[part] >= 1 /\ f.flaws \cap {"both", "legacyChildren"} = {}
         \/ /\ f.level[part] < 10
            /\ f.flaws \cap {"both", "orphan"} = {}
            /\ "noSkills" \in f.flaws => f.marker[part] = 0
            /\ "badTime" \in f.flaws => f.level[part] >= 7

(***************************************************************************)
(* A program is refused only because of what the file was when the first   *)
(* one came: never because another one migrated it at the same moment, or  *)
(* died doing so.  (Waiting for the lock may still time out.)              *)
(***************************************************************************)
OnlyBadFilesAreRefused ==
    \A p \in Openers :
        /\ opener[p].error = "refused" => ~Upgradable(start, Part(p))
        /\ opener[p].error = "unsupported" => ~Supported(start)

(***************************************************************************)
(* load_transaction: "Load one coherent transaction", and the revision     *)
(* "from the same snapshot".  What it returns is the record exactly as     *)
(* some save left it, revision, steps and history: never a header joined   *)
(* with the steps of a later save or with history rows added since,        *)
(* whoever saves between its SELECTs, with a rollback journal and in WAL   *)
(* mode.  (That record need not come from one save: history rows of        *)
(* earlier saves stand beside the header and steps of the last one.)       *)
(***************************************************************************)
LoadsAreCoherent ==
    \A p \in Openers :
        At(p, "done") /\ opener[p].use \in {"load", "inspect"} =>
            \E n \in DOMAIN saved : opener[p].loaded = saved[n]

(***************************************************************************)
(* docs/durability.md: save_transaction() rejects attempts to change the   *)
(* definition identity without modifying the existing record.  So what is  *)
(* stored was always written by a program of the stored identity.          *)
(***************************************************************************)
MismatchedSaveIsRefused == record.header.by = record.identity
=============================================================================
