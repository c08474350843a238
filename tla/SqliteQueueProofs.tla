-------------------------- MODULE SqliteQueueProofs --------------------------
(***************************************************************************)
(* Proofs about SqliteQueue, for every number of items, workers, retries   *)
(* and clock ticks.                                                        *)
(*                                                                         *)
(* The argument is local to one item.  Good(r, l) says that a row r and an *)
(* attempt ledger l fit together: types, agreement of the claim columns    *)
(* with the open attempt, and the retry budget.  One lemma per way the     *)
(* code changes a row and its ledger shows that Good is kept; the          *)
(* invariance proof then only matches each action with its lemma.          *)
(*                                                                         *)
(* Steps: Effects names the seven things that can happen to an item in a   *)
(* step; each action causes one of them, and the properties of steps, and  *)
(* of pairs of items, are read off them.  The only invariant needed beside *)
(* the first is that no call is ahead of the clock.                        *)
(*                                                                         *)
(* Refinement: SqliteQueue implements WorkQueue, and keeps undecodable     *)
(* items from every worker.  The view of an item is its status, its        *)
(* retries, the outcomes in its ledger and its quarantines.  Each step of  *)
(* the code changes the view of the items it writes by a step of the       *)
(* promise, or changes no view.  QueueInv says which attempt is the last   *)
(* one; what is added is which workers may hold a poison item.             *)
(*                                                                         *)
(* Retry count: each delivery that fails, and each override that forces a  *)
(* retry, is counted once.  Audited relates the count of an item to its    *)
(* ledger and its overrides, an open delivery not yet costing anything.    *)
(*                                                                         *)
(* Waits: the delay before a retry, with no floating point (RetryPolicy).  *)
(***************************************************************************)
EXTENDS SqliteQueue, RetryPolicy, SequenceTheorems, FiniteSetTheorems, TLAPS

\* The open attempt of a leased row is the newest one and carries the row's token.
Coherent(r, l) ==
    IF r.status = "in_progress"
    THEN /\ r.token = Len(l)
         /\ Len(l) > 0
         /\ \A k \in 1..Len(l) : l[k].outcome = "open" <=> k = Len(l)
         /\ r.claimedBy = l[Len(l)].worker
    ELSE /\ r.token = NoToken
         /\ \A k \in 1..Len(l) : l[k].outcome # "open"

\* Every delivery but the current or the successful one has cost a retry.
Budget(r, l) ==
    /\ Len(l) <= r.retries + (IF r.status \in {"in_progress", "successful"} THEN 1 ELSE 0)
    /\ Len(l) <= MaxRetries + 1
    /\ r.status \in {"pending", "in_progress"} => r.retries <= MaxRetries
    /\ r.status = "absent" => Len(l) = 0 /\ r.retries = 0

Good(r, l) == /\ r \in Row
              /\ l \in Seq(AttemptRow)
              /\ Coherent(r, l)
              /\ Budget(r, l)

-----------------------------------------------------------------------------
(* Lemmas about one row and its ledger                                       *)

\* A retry that is granted has a delivery delay, so its due time is a number.
LEMMA RetryDueType ==
    ASSUME NEW now \in Nat, NEW n \in Nat \ {0}, MayRetry(n)
    PROVE  RetryDue(now, n) \in Nat
<1>1. n \in 1..MaxRetries
  BY QueueAssumption DEF MayRetry
<1>2. RetryWait[n] \in Nat
  BY <1>1, QueueAssumption
<1> QED
  BY <1>2 DEF RetryDue, NoTime

\* _close_attempt keeps the ledger a ledger of the same length and touches at most the
\* attempt it names.
LEMMA CloseLemma ==
    ASSUME NEW l \in Seq(AttemptRow), NEW t \in Nat, NEW o \in Outcomes
    PROVE  /\ Close(l, t, o) \in Seq(AttemptRow)
           /\ Len(Close(l, t, o)) = Len(l)
           /\ \A k \in 1..Len(l) :
                Close(l, t, o)[k] = IF k = t /\ l[t].outcome = "open"
                                    THEN [worker |-> l[t].worker, outcome |-> o]
                                    ELSE l[k]
<1>1. DOMAIN l = 1..Len(l)
  OBVIOUS
<1>2. CASE t \in DOMAIN l /\ l[t].outcome = "open"
  <2>1. t \in 1..Len(l)
    BY <1>1, <1>2
  <2>2. l[t] \in AttemptRow
    BY <2>1
  <2> DEFINE e == [worker |-> l[t].worker, outcome |-> o]
  <2>3. e \in AttemptRow
    BY <2>2 DEF AttemptRow
  <2>4. Close(l, t, o) = [l EXCEPT ![t] = e]
    BY <1>2 DEF Close
  <2> HIDE DEF e
  <2>5. /\ [l EXCEPT ![t] = e] \in Seq(AttemptRow)
        /\ Len([l EXCEPT ![t] = e]) = Len(l)
        /\ \A j \in 1..Len(l) : [l EXCEPT ![t] = e][j] = IF j = t THEN e ELSE l[j]
    BY <2>1, <2>3, ExceptSeq
  <2> QED
    BY <1>2, <2>4, <2>5 DEF e
<1>3. CASE ~(t \in DOMAIN l /\ l[t].outcome = "open")
  BY <1>1, <1>3 DEF Close
<1> QED
  BY <1>2, <1>3

\* fail(), the reclaim and force_fail() write a row of the right type.
LEMMA FailedType ==
    ASSUME NEW r \in Row, NEW n \in Nat \ {0}, NEW retry \in BOOLEAN, NEW now \in Nat
    PROVE  /\ Failed(r, n, retry, now) \in Row
           /\ Failed(r, n, retry, now).retries = n
           /\ Failed(r, n, retry, now).token = NoToken
           /\ Failed(r, n, retry, now).status = IF retry /\ MayRetry(n)
                                                THEN "pending" ELSE "failed"
<1> DEFINE again == retry /\ MayRetry(n)
<1>1. CASE again
  <2>1. RetryDue(now, n) \in Nat
    BY <1>1, RetryDueType
  <2> QED
    BY <1>1, <2>1 DEF Failed, Row, Statuses, NoToken, NoTime
<1>2. CASE ~again
  BY <1>2 DEF Failed, Row, Statuses, NoToken, NoTime
<1> QED
  BY <1>1, <1>2

\* A claim that ends in failure or expiry leaves the item coherent and one retry poorer.
LEMMA FailedGood ==
    ASSUME NEW r, NEW l, Good(r, l), r.status = "in_progress",
           NEW retry \in BOOLEAN, NEW now \in Nat, NEW o \in Outcomes \ {"open"}
    PROVE  Good(Failed(r, r.retries + 1, retry, now), Close(l, r.token, o))
<1> DEFINE n == r.retries + 1
           s == Failed(r, n, retry, now)
           m == Close(l, r.token, o)
<1>1. /\ r \in Row /\ l \in Seq(AttemptRow) /\ r.token = Len(l)
      /\ r.retries \in Nat /\ Len(l) \in Nat
  BY DEF Good, Coherent, Row
<1>2. /\ s \in Row /\ s.retries = n /\ s.token = NoToken
      /\ s.status = IF retry /\ MayRetry(n) THEN "pending" ELSE "failed"
  <2>1. n \in Nat \ {0}
    BY <1>1
  <2> HIDE DEF n
  <2> QED
    BY <1>1, <2>1, FailedType
<1>3. /\ m \in Seq(AttemptRow) /\ Len(m) = Len(l)
      /\ \A k \in 1..Len(l) : m[k] = IF k = Len(l) /\ l[Len(l)].outcome = "open"
                                    THEN [worker |-> l[Len(l)].worker, outcome |-> o]
                                    ELSE l[k]
  BY <1>1, CloseLemma
<1>4. Coherent(s, m)
  <2>1. \A k \in 1..Len(m) : m[k].outcome # "open"
    BY <1>1, <1>3 DEF Good, Coherent
  <2> QED
    BY <1>2, <2>1 DEF Coherent
<1>5. Budget(s, m)
  BY <1>1, <1>2, <1>3, QueueAssumption DEF Good, Budget, MayRetry
<1> HIDE DEF s, m
<1>6. Good(s, m)
  BY <1>2, <1>3, <1>4, <1>5 DEF Good
<1> QED
  BY <1>6 DEF s, m, n

\* complete() keeps the row and the ledger coherent.
LEMMA SucceededGood ==
    ASSUME NEW r, NEW l, Good(r, l), r.status = "in_progress",
           NEW o \in Outcomes \ {"open"}
    PROVE  Good(Succeeded(r), Close(l, r.token, o))
<1> DEFINE s == Succeeded(r)
           m == Close(l, r.token, o)
<1>1. /\ r \in Row /\ l \in Seq(AttemptRow) /\ r.token = Len(l)
      /\ r.retries \in Nat /\ Len(l) \in Nat
  BY DEF Good, Coherent, Row
<1>2. /\ s \in Row /\ s.retries = r.retries /\ s.token = NoToken
      /\ s.status = "successful"
  BY <1>1 DEF Succeeded, Row, Statuses, NoTime, NoToken
<1>3. /\ m \in Seq(AttemptRow) /\ Len(m) = Len(l)
      /\ \A k \in 1..Len(l) : m[k] = IF k = Len(l) /\ l[Len(l)].outcome = "open"
                                    THEN [worker |-> l[Len(l)].worker, outcome |-> o]
                                    ELSE l[k]
  BY <1>1, CloseLemma
<1>4. Coherent(s, m)
  <2>1. \A k \in 1..Len(m) : m[k].outcome # "open"
    BY <1>1, <1>3 DEF Good, Coherent
  <2> QED
    BY <1>2, <2>1 DEF Coherent
<1>5. Budget(s, m)
  BY <1>1, <1>2, <1>3, QueueAssumption DEF Good, Budget
<1> HIDE DEF s, m
<1>6. Good(s, m)
  BY <1>2, <1>3, <1>4, <1>5 DEF Good
<1> QED
  BY <1>6 DEF s, m

\* What an override does to the ledger: close the claim the row carries, if any.
OverrideClose(r, l) ==
    IF r.token # NoToken THEN Close(l, r.token, "admin_override") ELSE l

\* An override closes every attempt of the item and moves no other.
LEMMA OverrideCloses ==
    ASSUME NEW r, NEW l, Good(r, l)
    PROVE  LET m == OverrideClose(r, l) IN
           /\ m \in Seq(AttemptRow)
           /\ Len(m) = Len(l)
           /\ \A k \in 1..Len(m) : m[k].outcome # "open"
<1>1. /\ r \in Row /\ l \in Seq(AttemptRow) /\ r.token \in Nat /\ Len(l) \in Nat
  BY DEF Good, Row
<1>2. CASE r.status = "in_progress"
  <2>1. r.token = Len(l) /\ r.token # NoToken
    BY <1>1, <1>2 DEF Good, Coherent, NoToken
  <2> DEFINE m == Close(l, r.token, "admin_override")
  <2>2. /\ m \in Seq(AttemptRow) /\ Len(m) = Len(l)
        /\ \A k \in 1..Len(l) : m[k] = IF k = Len(l) /\ l[Len(l)].outcome = "open"
                                 THEN [worker |-> l[Len(l)].worker, outcome |-> "admin_override"]
                                 ELSE l[k]
    <3>1. "admin_override" \in Outcomes
      BY DEF Outcomes
    <3> QED
      BY <1>1, <2>1, <3>1, CloseLemma
  <2>3. \A k \in 1..Len(m) : m[k].outcome # "open"
    BY <1>1, <1>2, <2>2 DEF Good, Coherent
  <2> HIDE DEF m
  <2>4. OverrideClose(r, l) = m
    BY <2>1 DEF OverrideClose, m
  <2> QED
    BY <2>2, <2>3, <2>4
<1>3. CASE r.status # "in_progress"
  <2>1. OverrideClose(r, l) = l
    BY <1>3 DEF Good, Coherent, OverrideClose
  <2> QED
    BY <1>1, <1>3, <2>1 DEF Good, Coherent
<1> QED
  BY <1>2, <1>3

\* force_complete() keeps any row, whatever its status, coherent.
LEMMA ForceCompleteGood ==
    ASSUME NEW r, NEW l, Good(r, l), r.status # "absent"
    PROVE  Good([Succeeded(r) EXCEPT !.claimedBy = NoWorker], OverrideClose(r, l))
<1> DEFINE s == [Succeeded(r) EXCEPT !.claimedBy = NoWorker]
           m == OverrideClose(r, l)
<1>1. r \in Row /\ l \in Seq(AttemptRow) /\ r.retries \in Nat /\ Len(l) \in Nat
  BY DEF Good, Row
<1>2. /\ s \in Row /\ s.retries = r.retries /\ s.token = NoToken
      /\ s.status = "successful"
  BY <1>1 DEF Succeeded, Row, Statuses, NoTime, NoToken
<1>3. /\ m \in Seq(AttemptRow) /\ Len(m) = Len(l)
      /\ \A k \in 1..Len(m) : m[k].outcome # "open"
  BY OverrideCloses
<1> HIDE DEF s, m
<1>4. Coherent(s, m)
  BY <1>2, <1>3 DEF Coherent
<1>5. Budget(s, m)
  BY <1>1, <1>2, <1>3, QueueAssumption DEF Good, Budget
<1>6. Good(s, m)
  BY <1>2, <1>3, <1>4, <1>5 DEF Good
<1> QED
  BY <1>6 DEF s, m

\* force_fail() keeps any row coherent, and requeues only within the retry budget.
LEMMA ForceFailGood ==
    ASSUME NEW r, NEW l, Good(r, l), r.status # "absent",
           NEW retry \in BOOLEAN, NEW now \in Nat
    PROVE  Good([Failed(r, r.retries + 1, retry, now) EXCEPT !.claimedBy = NoWorker],
                OverrideClose(r, l))
<1> DEFINE n == r.retries + 1
           f == Failed(r, n, retry, now)
           s == [f EXCEPT !.claimedBy = NoWorker]
           m == OverrideClose(r, l)
<1>1. r \in Row /\ l \in Seq(AttemptRow) /\ r.retries \in Nat /\ Len(l) \in Nat
  BY DEF Good, Row
<1>2. /\ f \in Row /\ f.retries = n /\ f.token = NoToken
      /\ f.status = IF retry /\ MayRetry(n) THEN "pending" ELSE "failed"
  <2>1. n \in Nat \ {0}
    BY <1>1
  <2> HIDE DEF n
  <2> QED
    BY <1>1, <2>1, FailedType
<1>3. /\ m \in Seq(AttemptRow) /\ Len(m) = Len(l)
      /\ \A k \in 1..Len(m) : m[k].outcome # "open"
  BY OverrideCloses
<1> HIDE DEF f, m
<1>4. /\ s \in Row /\ s.retries = n /\ s.token = NoToken
      /\ s.status = IF retry /\ MayRetry(n) THEN "pending" ELSE "failed"
  BY <1>2 DEF Row
<1> HIDE DEF s
<1>5. Coherent(s, m)
  BY <1>3, <1>4 DEF Coherent
<1>6. Budget(s, m)
  BY <1>1, <1>3, <1>4, QueueAssumption DEF Good, Budget, MayRetry
<1>7. Good(s, m)
  BY <1>3, <1>4, <1>5, <1>6 DEF Good
<1> QED
  BY <1>7 DEF s, m, f, n

\* A fresh row is coherent with the empty ledger an absent item has.
LEMMA InsertGood ==
    ASSUME NEW r, NEW l, Good(r, l), r.status = "absent", NEW due \in Nat
    PROVE  Good([EmptyRow EXCEPT !.status = "pending", !.due = due], l)
<1> DEFINE s == [EmptyRow EXCEPT !.status = "pending", !.due = due]
<1>1. /\ s \in Row /\ s.status = "pending" /\ s.retries = 0 /\ s.token = NoToken
  BY DEF EmptyRow, Row, Statuses, NoTime, NoToken, NoTransaction, NoWorker
<1> HIDE DEF s
<1>2. Coherent(s, l)
  BY <1>1 DEF Good, Coherent
<1>3. Budget(s, l)
  BY <1>1, QueueAssumption DEF Good, Budget
<1>4. Good(s, l)
  BY <1>1, <1>2, <1>3 DEF Good
<1> QED
  BY <1>4 DEF s

\* The quarantine of a pending item keeps it coherent: no attempt was open.
LEMMA QuarantineGood ==
    ASSUME NEW r, NEW l, Good(r, l), r.status = "pending"
    PROVE  Good([r EXCEPT !.status = "failed", !.claimedBy = NoWorker,
                          !.claimedAt = NoTime, !.token = NoToken, !.due = NoTime], l)
<1> DEFINE s == [r EXCEPT !.status = "failed", !.claimedBy = NoWorker,
                          !.claimedAt = NoTime, !.token = NoToken, !.due = NoTime]
<1>1. /\ s \in Row /\ s.status = "failed" /\ s.retries = r.retries /\ s.token = NoToken
  BY DEF Good, Row, Statuses, NoTime, NoToken
<1> HIDE DEF s
<1>2. Coherent(s, l)
  BY <1>1 DEF Good, Coherent
<1>3. Budget(s, l)
  BY <1>1 DEF Good, Budget
<1>4. Good(s, l)
  BY <1>1, <1>2, <1>3 DEF Good
<1> QED
  BY <1>4 DEF s

\* A claim opens a new newest attempt under a new token.
LEMMA ClaimGood ==
    ASSUME NEW r, NEW l, Good(r, l), r.status = "pending", NEW name \in Names, NEW now \in Nat
    PROVE  Good([r EXCEPT !.status = "in_progress", !.claimedBy = name, !.claimedAt = now,
                          !.token = Len(l) + 1, !.due = NoTime],
                Append(l, Attempt(name)))
<1> DEFINE s == [r EXCEPT !.status = "in_progress", !.claimedBy = name, !.claimedAt = now,
                          !.token = Len(l) + 1, !.due = NoTime]
           a == Attempt(name)
           m == Append(l, a)
<1>1. r \in Row /\ l \in Seq(AttemptRow) /\ r.retries \in Nat /\ Len(l) \in Nat
  BY DEF Good, Row
<1>2. /\ s \in Row /\ s.status = "in_progress" /\ s.retries = r.retries
      /\ s.token = Len(l) + 1 /\ s.claimedBy = name
  <2> DEFINE t == Len(l) + 1
  <2>1. t \in Nat /\ name \in Names \cup {NoWorker}
    BY <1>1
  <2> HIDE DEF t
  <2>2. [r EXCEPT !.status = "in_progress", !.claimedBy = name, !.claimedAt = now,
                  !.token = t, !.due = NoTime] \in Row
    BY <1>1, <2>1 DEF Row, Statuses, NoTime
  <2> QED
    BY <1>1, <2>2 DEF t, Row
<1>3. a \in AttemptRow /\ a.outcome = "open" /\ a.worker = name
  BY DEF Attempt, AttemptRow, Outcomes
<1> HIDE DEF a
<1>4. /\ m \in Seq(AttemptRow) /\ Len(m) = Len(l) + 1
      /\ \A k \in 1..Len(l) : m[k] = l[k]
      /\ m[Len(l) + 1] = a
  BY <1>1, <1>3, AppendProperties
<1> HIDE DEF s, m
<1>5. Coherent(s, m)
  <2>1. \A k \in 1..Len(l) : m[k].outcome # "open"
    BY <1>4 DEF Good, Coherent
  <2>2. \A k \in 1..Len(m) : m[k].outcome = "open" <=> k = Len(m)
    BY <1>1, <1>3, <1>4, <2>1
  <2> QED
    BY <1>1, <1>2, <1>3, <1>4, <2>2 DEF Coherent
<1>6. Budget(s, m)
  BY <1>1, <1>2, <1>4, QueueAssumption DEF Good, Budget
<1>7. Good(s, m)
  BY <1>2, <1>4, <1>5, <1>6 DEF Good
<1> QED
  BY <1>7 DEF s, m, a

\* Renewing a lease and binding a transaction leave the claim columns alone.
LEMMA RenewGood ==
    ASSUME NEW r, NEW l, Good(r, l), NEW now \in Nat
    PROVE  Good([r EXCEPT !.claimedAt = now], l)
BY DEF Good, Row, Coherent, Budget

\* Binding a transaction leaves the claim columns of a leased row alone.
LEMMA BindGood ==
    ASSUME NEW r, NEW l, Good(r, l), NEW tx \in Nat
    PROVE  Good([r EXCEPT !.tx = tx], l)
BY DEF Good, Row, Coherent, Budget

-----------------------------------------------------------------------------
(* The inductive invariant                                                   *)

\* What a worker remembers of its claim: a token that was issued, and, between the read
\* and the write of fail(), the retry count of the row if the claim is still its own.
Remembers(w) ==
    /\ worker[w].pc \in Holding => /\ worker[w].token \in Nat \ {0}
                                   /\ worker[w].token <= Len(ledger[worker[w].item])
    /\ worker[w].pc = "failing" /\ Owns(w) =>
          worker[w].retries = row[worker[w].item].retries

AllGood == \A i \in Items : Good(row[i], ledger[i])
AllRemember == \A w \in Workers : Remembers(w)
QueueInv == TypeOK /\ AllGood /\ AllRemember

\* The inductive invariant holds when the database is empty.
LEMMA QueueInvInit == Init => QueueInv
<1> SUFFICES ASSUME Init PROVE QueueInv
  OBVIOUS
<1>1. EmptyRow \in Row /\ EmptyRow.status = "absent" /\ EmptyRow.retries = 0
      /\ EmptyRow.token = NoToken
  BY DEF EmptyRow, Row, Statuses, NoTime, NoToken, NoTransaction
<1>2. <<>> \in Seq(AttemptRow) /\ Len(<<>>) = 0 /\ <<>> \in Seq(OverrideRow)
  OBVIOUS
<1>3. Idle \in Local /\ Idle.pc = "idle"
  BY DEF Idle, Local, Pcs, NoTime, NoToken
<1>4. TypeOK
  BY <1>1, <1>2, <1>3 DEF Init, TypeOK, Bound
<1>5. AllGood
  <2>1. Good(EmptyRow, <<>>)
    BY <1>1, <1>2, QueueAssumption DEF Good, Coherent, Budget
  <2> QED
    BY <2>1 DEF Init, AllGood
<1>6. AllRemember
  BY <1>3 DEF Init, AllRemember, Remembers, Holding
<1> QED
  BY <1>4, <1>5, <1>6 DEF QueueInv

\* What every step does to the row and the ledger of one item: they stay good, no attempt
\* is dropped, and a claim that was already issued is not altered while it is current.
Keeps(i) ==
    /\ Good(row'[i], ledger'[i])
    /\ Len(ledger'[i]) >= Len(ledger[i])
    /\ row'[i].status = "in_progress" /\ row'[i].token <= Len(ledger[i]) =>
          /\ row[i].status = "in_progress"
          /\ row'[i].token = row[i].token
          /\ row'[i].claimedBy = row[i].claimedBy
          /\ row'[i].retries = row[i].retries
AllKept == \A i \in Items : Keeps(i)

\* The static facts every proof below starts from.
LEMMA InvFacts ==
    ASSUME QueueInv
    PROVE  /\ \A i \in Items : /\ Good(row[i], ledger[i])
                               /\ row[i] \in Row /\ ledger[i] \in Seq(AttemptRow)
                               /\ Len(ledger[i]) \in Nat
                               /\ row[i].retries \in Nat /\ row[i].token \in Nat
           /\ \A w \in Workers : /\ worker[w] \in Local
                                 /\ WorkerName[w] \in Names
                                 /\ worker[w].pc \in Bound => worker[w].item \in Items
BY DEF QueueInv, TypeOK, AllGood, Row, Names

\* A step that leaves rows and ledgers alone keeps them.
LEMMA UnchangedKept ==
    ASSUME QueueInv, UNCHANGED <<row, ledger>>
    PROVE  AllKept
BY InvFacts DEF AllKept, Keeps

\* A step that replaces the row and the ledger of one item by a good pair which is either
\* out of progress, freshly claimed or the same claim, keeps all items.
LEMMA OneItemKept ==
    ASSUME QueueInv, NEW i \in Items, NEW r, NEW l,
           row' = [row EXCEPT ![i] = r], ledger' = [ledger EXCEPT ![i] = l],
           Good(r, l), Len(l) >= Len(ledger[i]),
           \/ r.status # "in_progress"
           \/ r.token = Len(ledger[i]) + 1
           \/ /\ row[i].status = "in_progress" /\ r.token = row[i].token
              /\ r.claimedBy = row[i].claimedBy /\ r.retries = row[i].retries
    PROVE  AllKept
<1>1. row \in [Items -> Row] /\ ledger \in [Items -> Seq(AttemptRow)]
  BY DEF QueueInv, TypeOK
<1>2. ASSUME NEW j \in Items PROVE Keeps(j)
  <2>1. CASE j = i
    <3>1. row'[j] = r /\ ledger'[j] = l
      BY <1>1, <2>1
    <3> QED
      BY <2>1, <3>1, InvFacts DEF Keeps
  <2>2. CASE j # i
    <3>1. row'[j] = row[j] /\ ledger'[j] = ledger[j]
      BY <1>1, <2>2
    <3> QED
      BY <3>1, InvFacts DEF Keeps
  <2> QED
    BY <2>1, <2>2
<1> QED
  BY <1>2 DEF AllKept

\* A kept database keeps what the workers that did not move remember.
LEMMA RememberKept ==
    ASSUME QueueInv, AllKept, NEW w \in Workers, worker'[w] = worker[w]
    PROVE  Remembers(w)'
<1>1. CASE worker[w].pc \notin Holding
  BY <1>1 DEF Remembers, Holding
<1>2. CASE worker[w].pc \in Holding
  <2> DEFINE i == worker[w].item
  <2>1. i \in Items
    BY <1>2, InvFacts DEF Holding, Bound
  <2>2. Keeps(i)
    BY <2>1 DEF AllKept
  <2>3. /\ worker[w].token \in Nat \ {0} /\ worker[w].token <= Len(ledger[i])
        /\ worker[w].pc = "failing" /\ Owns(w) => worker[w].retries = row[i].retries
    BY <1>2 DEF QueueInv, AllRemember, Remembers
  <2>4. Len(ledger[i]) \in Nat /\ Len(ledger'[i]) \in Nat
    BY <2>1, <2>2, InvFacts DEF Keeps, Good
  <2>5. Owns(w)' => Owns(w) /\ row'[i].retries = row[i].retries
    BY <2>2, <2>3 DEF Owns, Keeps
  <2> QED
    BY <2>2, <2>3, <2>4, <2>5 DEF Remembers, Keeps
<1> QED
  BY <1>1, <1>2

\* Assembles the invariant of the next state from its parts.
LEMMA KeptInv ==
    ASSUME QueueInv, AllKept,
           row' = [i \in Items |-> row'[i]], ledger' = [i \in Items |-> ledger'[i]],
           clock' \in Nat, poison' \in [Items -> Nat],
           overrides' \in [Items -> Seq(OverrideRow)], worker' \in [Workers -> Local],
           \A w \in Workers : worker'[w].pc \in Bound => worker'[w].item \in Items,
           \A w \in Workers : worker'[w] = worker[w] \/ Remembers(w)'
    PROVE  QueueInv'
<1>1. \A i \in Items : Good(row'[i], ledger'[i])
  BY DEF AllKept, Keeps
<1>2. row' \in [Items -> Row] /\ ledger' \in [Items -> Seq(AttemptRow)]
  <2>1. \A i \in Items : row'[i] \in Row /\ ledger'[i] \in Seq(AttemptRow)
    BY <1>1 DEF Good
  <2> QED
    BY <2>1
<1>3. TypeOK'
  BY <1>2 DEF TypeOK
<1>4. AllRemember'
  BY RememberKept DEF AllRemember
<1> QED
  BY <1>1, <1>3, <1>4 DEF QueueInv, AllGood

\* A step in which one worker moves to a state x of the right type.
LEMMA WorkerMoves ==
    ASSUME QueueInv, NEW w \in Workers, NEW x \in Local,
           worker' = [worker EXCEPT ![w] = x], x.pc \in Bound => x.item \in Items
    PROVE  /\ worker' \in [Workers -> Local]
           /\ worker'[w] = x
           /\ \A v \in Workers : worker'[v].pc \in Bound => worker'[v].item \in Items
           /\ \A v \in Workers : v # w => worker'[v] = worker[v]
<1>1. worker \in [Workers -> Local]
  BY DEF QueueInv, TypeOK
<1>2. worker'[w] = x /\ \A v \in Workers : v # w => worker'[v] = worker[v]
  BY <1>1
<1> QED
  BY <1>1, <1>2, InvFacts

\* A worker that holds no claim has nothing to remember.
LEMMA NotHolding ==
    ASSUME NEW w \in Workers, worker'[w].pc \notin Holding
    PROVE  Remembers(w)'
BY DEF Remembers, Holding

\* A worker that is idle has a record of the right type and no claim.
LEMMA IdleType == Idle \in Local /\ Idle.pc = "idle" /\ "idle" \notin Bound \cup Holding
BY DEF Idle, Local, Pcs, NoTime, NoToken, Bound, Holding

\* A step of one worker w that only moves w, to a state without a claim.
LEMMA LocalStepInv ==
    ASSUME QueueInv, NEW w \in Workers, NEW x \in Local,
           worker' = [worker EXCEPT ![w] = x], x.pc \in Bound => x.item \in Items,
           UNCHANGED <<clock, database>>, x.pc \notin Holding
    PROVE  QueueInv'
<1>1. AllKept
  BY UnchangedKept DEF database
<1>2. /\ row' = [i \in Items |-> row'[i]] /\ ledger' = [i \in Items |-> ledger'[i]]
      /\ clock' \in Nat /\ poison' \in [Items -> Nat]
      /\ overrides' \in [Items -> Seq(OverrideRow)]
  BY DEF QueueInv, TypeOK, database
<1>3. \A v \in Workers : worker'[v] = worker[v] \/ Remembers(v)'
  BY WorkerMoves, NotHolding
<1> QED
  BY <1>1, <1>2, <1>3, WorkerMoves, KeptInv

-----------------------------------------------------------------------------
(* One lemma per action                                                      *)

\* Time passing keeps the invariant: no row or ledger is touched.
LEMMA TickInv == ASSUME QueueInv, Tick PROVE QueueInv'
<1>1. AllKept
  BY UnchangedKept DEF Tick, database
<1>2. /\ row' = [i \in Items |-> row'[i]] /\ ledger' = [i \in Items |-> ledger'[i]]
      /\ clock' \in Nat /\ poison' \in [Items -> Nat]
      /\ overrides' \in [Items -> Seq(OverrideRow)] /\ worker' \in [Workers -> Local]
      /\ \A w \in Workers : worker'[w].pc \in Bound => worker'[w].item \in Items
  BY DEF QueueInv, TypeOK, Tick, database
<1>3. \A w \in Workers : worker'[w] = worker[w]
  BY DEF Tick
<1> QED
  BY <1>1, <1>2, <1>3, KeptInv

\* add and add_once: a fresh row goes with the empty ledger of an absent item.
LEMMA InsertInv ==
    ASSUME QueueInv, NEW i \in Items, NEW delay \in AddDelays, Insert(i, delay)
    PROVE  QueueInv'
<1> DEFINE due == IF delay = 0 THEN NoTime ELSE clock + delay
           r == [EmptyRow EXCEPT !.status = "pending", !.due = due]
<1>1. due \in Nat /\ clock \in Nat
  <2>1. delay \in Nat /\ clock \in Nat
    BY QueueAssumption DEF QueueInv, TypeOK
  <2> QED
    BY <2>1 DEF NoTime
<1> HIDE DEF due
<1>2. row[i].status = "absent" /\ row' = [row EXCEPT ![i] = r]
  BY DEF Insert, due
<1>3. Good(row[i], ledger[i])
  BY InvFacts
<1>4. Good(r, ledger[i]) /\ r.status = "pending"
  BY <1>1, <1>2, <1>3, InsertGood DEF EmptyRow
<1> HIDE DEF r
<1>5. ledger' = [ledger EXCEPT ![i] = ledger[i]] /\ Len(ledger[i]) \in Nat
  BY InvFacts DEF Insert, QueueInv, TypeOK
<1>6. AllKept
  <2> DEFINE l == ledger[i]
  <2>1. Len(l) >= Len(ledger[i]) /\ r.status # "in_progress"
    BY <1>4, <1>5
  <2>2. ledger' = [ledger EXCEPT ![i] = l] /\ row' = [row EXCEPT ![i] = r] /\ Good(r, l)
    BY <1>2, <1>4, <1>5
  <2> HIDE DEF l
  <2> QED
    BY <2>1, <2>2, OneItemKept
<1>7. /\ row' = [j \in Items |-> row'[j]] /\ ledger' = [j \in Items |-> ledger'[j]]
      /\ clock' \in Nat /\ poison' \in [Items -> Nat]
      /\ overrides' \in [Items -> Seq(OverrideRow)] /\ worker' \in [Workers -> Local]
      /\ \A w \in Workers : worker'[w].pc \in Bound => worker'[w].item \in Items
      /\ \A w \in Workers : worker'[w] = worker[w]
  BY <1>2 DEF QueueInv, TypeOK, Insert
<1> QED
  BY <1>6, <1>7, KeptInv

\* The steps of next_item and of fail() that only read, and a crash.
LEMMA ReadOnlyInv ==
    ASSUME QueueInv, NEW w \in Workers,
           Poll(w) \/ Select(w) \/ SelectNothing(w) \/ Stamp(w) \/ Crash(w)
    PROVE  QueueInv'
<1> DEFINE s == worker[w]
<1>1. s \in Local /\ clock \in Nat /\ Items \subseteq Items \cup {0}
  BY InvFacts DEF QueueInv, TypeOK
<1>2. CASE Poll(w)
  <2> DEFINE x == [s EXCEPT !.pc = "polling", !.now = clock]
  <2>1. x \in Local /\ x.pc = "polling"
    BY <1>1 DEF Local, Pcs
  <2>2. worker' = [worker EXCEPT ![w] = x] /\ UNCHANGED <<clock, database>>
    BY <1>2 DEF Poll
  <2> HIDE DEF x
  <2> QED
    BY <2>1, <2>2, LocalStepInv DEF Bound, Holding
<1>3. CASE Select(w)
  <2>1. PICK i \in Eligible :
          worker' = [worker EXCEPT ![w] =
              [@ EXCEPT !.item = i, !.due = row[i].due,
                        !.pc = IF i \in PoisonItems THEN "quarantining" ELSE "selected"]]
    BY <1>3 DEF Select
  <2> DEFINE x == [s EXCEPT !.item = i, !.due = row[i].due,
                            !.pc = IF i \in PoisonItems THEN "quarantining" ELSE "selected"]
  <2>2. i \in Items /\ row[i].due \in Nat
    BY InvFacts DEF Eligible, Row
  <2>3. x \in Local /\ x.pc \in {"quarantining", "selected"} /\ x.item \in Items
    BY <1>1, <2>2 DEF Local, Pcs
  <2>4. worker' = [worker EXCEPT ![w] = x]
    BY <2>1
  <2>5. UNCHANGED <<clock, database>>
    BY <1>3 DEF Select
  <2> HIDE DEF x
  <2> QED
    BY <2>3, <2>4, <2>5, LocalStepInv DEF Holding
<1>4. CASE SelectNothing(w) \/ Crash(w)
  <2>1. worker' = [worker EXCEPT ![w] = Idle] /\ UNCHANGED <<clock, database>>
    BY <1>4 DEF SelectNothing, Crash, Stop
  <2> QED
    BY <2>1, IdleType, LocalStepInv
<1>5. CASE Stamp(w)
  <2> DEFINE x == [s EXCEPT !.pc = "claiming", !.now = clock]
  <2>1. x \in Local /\ x.pc = "claiming" /\ x.item = s.item
    BY <1>1 DEF Local, Pcs
  <2>2. worker' = [worker EXCEPT ![w] = x] /\ UNCHANGED <<clock, database>>
    BY <1>5 DEF Stamp
  <2>3. x.item \in Items
    BY <1>5, <2>1, InvFacts DEF Stamp, At, Bound
  <2> HIDE DEF x
  <2> QED
    BY <2>1, <2>2, <2>3, LocalStepInv DEF Holding
<1> QED
  BY <1>2, <1>3, <1>4, <1>5

\* The reclaim transaction of next_item: every item it touches stays coherent and pays a
\* retry, and a worker that loses its claim keeps only a stale token.
LEMMA ReclaimInv ==
    ASSUME QueueInv, NEW w \in Workers, Reclaim(w)
    PROVE  QueueInv'
<1> DEFINE now == worker[w].now
           x == [Idle EXCEPT !.pc = "selecting"]
<1>1. now \in Nat
  BY InvFacts DEF Local
<1> HIDE DEF now
<1>2. /\ row' = [i \in Items |->
                   IF Stale(row[i], now)
                   THEN Failed(row[i], row[i].retries + 1, TRUE, now) ELSE row[i]]
      /\ ledger' = [i \in Items |->
                      IF Stale(row[i], now) /\ row[i].token # NoToken
                      THEN Close(ledger[i], row[i].token, "lease_expired") ELSE ledger[i]]
      /\ worker' = [worker EXCEPT ![w] = x]
      /\ UNCHANGED <<clock, poison, overrides>>
  BY DEF Reclaim, now
<1>3. ASSUME NEW i \in Items PROVE Keeps(i)
  <2>1. /\ Good(row[i], ledger[i]) /\ Len(ledger[i]) \in Nat
        /\ row[i].retries \in Nat /\ row[i].token \in Nat
    BY InvFacts
  <2>2. CASE Stale(row[i], now)
    <3>1. row[i].status = "in_progress" /\ row[i].token # NoToken
      BY <2>1, <2>2 DEF Stale, Good, Coherent, NoToken
    <3> DEFINE r == Failed(row[i], row[i].retries + 1, TRUE, now)
               l == Close(ledger[i], row[i].token, "lease_expired")
    <3>2. row'[i] = r /\ ledger'[i] = l
      BY <1>2, <2>2, <3>1
    <3>3. Good(r, l)
      <4>1. "lease_expired" \in Outcomes \ {"open"}
        BY DEF Outcomes
      <4> QED
        BY <1>1, <2>1, <3>1, <4>1, FailedGood
    <3>4. r.status # "in_progress"
      BY DEF Failed
    <3>5. Len(l) = Len(ledger[i])
      <4>1. "lease_expired" \in Outcomes /\ ledger[i] \in Seq(AttemptRow)
        BY <2>1 DEF Outcomes, Good
      <4> QED
        BY <2>1, <4>1, CloseLemma
    <3> HIDE DEF r, l
    <3> QED
      BY <2>1, <3>2, <3>3, <3>4, <3>5 DEF Keeps
  <2>3. CASE ~Stale(row[i], now)
    BY <1>2, <2>1, <2>3 DEF Keeps
  <2> QED
    BY <2>2, <2>3
<1>4. AllKept
  BY <1>3 DEF AllKept
<1>5. x \in Local /\ x.pc = "selecting"
  BY IdleType DEF Local, Pcs
<1> HIDE DEF x
<1>6. /\ row' = [i \in Items |-> row'[i]] /\ ledger' = [i \in Items |-> ledger'[i]]
      /\ clock' \in Nat /\ poison' \in [Items -> Nat]
      /\ overrides' \in [Items -> Seq(OverrideRow)]
  BY <1>2 DEF QueueInv, TypeOK
<1>7. x.pc \in Bound => x.item \in Items
  BY <1>5 DEF Bound
<1>8. \A v \in Workers : worker'[v] = worker[v] \/ Remembers(v)'
  BY <1>2, <1>5, <1>7, WorkerMoves, NotHolding DEF Holding
<1> QED
  BY <1>2, <1>4, <1>5, <1>6, <1>7, <1>8, WorkerMoves, KeptInv

\* A step in which worker w moves to a state without a claim while one item changes.
LEMMA OneItemStepInv ==
    ASSUME QueueInv, NEW w \in Workers, NEW x \in Local, NEW i \in Items, NEW r, NEW l,
           worker' = [worker EXCEPT ![w] = x], x.pc \in Bound => x.item \in Items,
           row' = [row EXCEPT ![i] = r], ledger' = [ledger EXCEPT ![i] = l],
           Good(r, l), Len(l) >= Len(ledger[i]),
           \/ r.status # "in_progress"
           \/ r.token = Len(ledger[i]) + 1
           \/ /\ row[i].status = "in_progress" /\ r.token = row[i].token
              /\ r.claimedBy = row[i].claimedBy /\ r.retries = row[i].retries,
           UNCHANGED <<clock, overrides>>, poison' \in [Items -> Nat],
           AllKept => Remembers(w)'
    PROVE  QueueInv'
<1>1. AllKept
  BY OneItemKept
<1>2. /\ row' = [j \in Items |-> row'[j]] /\ ledger' = [j \in Items |-> ledger'[j]]
      /\ clock' \in Nat /\ overrides' \in [Items -> Seq(OverrideRow)]
  BY DEF QueueInv, TypeOK
<1>3. \A v \in Workers : worker'[v] = worker[v] \/ Remembers(v)'
  BY <1>1, WorkerMoves
<1> QED
  BY <1>1, <1>2, <1>3, WorkerMoves, KeptInv

\* The poison transaction of next_item fails an item that nobody holds.
LEMMA QuarantineInv ==
    ASSUME QueueInv, NEW w \in Workers, Quarantine(w)
    PROVE  QueueInv'
<1> DEFINE i == worker[w].item
           x == [Idle EXCEPT !.pc = "selecting"]
<1>1. i \in Items
  BY InvFacts DEF Quarantine, At, Bound
<1>2. x \in Local /\ x.pc = "selecting"
  BY IdleType DEF Local, Pcs
<1>3. worker' = [worker EXCEPT ![w] = x] /\ UNCHANGED <<clock, ledger, overrides>>
  BY DEF Quarantine
<1> HIDE DEF x
<1>4. x.pc \in Bound => x.item \in Items
  BY <1>2 DEF Bound
<1>5. CASE StillSelected(i, worker[w].due, clock)
  <2> DEFINE r == [row[i] EXCEPT !.status = "failed", !.claimedBy = NoWorker,
                                 !.claimedAt = NoTime, !.token = NoToken, !.due = NoTime]
             l == ledger[i]
  <2>1. row' = [row EXCEPT ![i] = r] /\ poison' = [poison EXCEPT ![i] = @ + 1]
    BY <1>5 DEF Quarantine
  <2>2. Good(row[i], l) /\ row[i].status = "pending" /\ Len(l) \in Nat /\ row[i] \in Row
    BY <1>1, <1>5, InvFacts DEF StillSelected
  <2>3. Good(r, l) /\ r.status # "in_progress"
    BY <2>2, QuarantineGood DEF Row
  <2>4. ledger' = [ledger EXCEPT ![i] = l] /\ Len(l) >= Len(ledger[i])
    BY <1>3, <2>2 DEF QueueInv, TypeOK
  <2>5. poison' \in [Items -> Nat]
    BY <1>1, <2>1 DEF QueueInv, TypeOK
  <2>6. Remembers(w)'
    BY <1>2, <1>3, <1>4, WorkerMoves, NotHolding DEF Holding
  <2> HIDE DEF r, l, i
  <2> QED
    BY <1>1, <1>2, <1>3, <1>4, <2>1, <2>3, <2>4, <2>5, <2>6, OneItemStepInv
<1>6. CASE ~StillSelected(i, worker[w].due, clock)
  <2>1. UNCHANGED <<clock, database>>
    BY <1>3, <1>6 DEF Quarantine, database
  <2> QED
    BY <1>2, <1>3, <1>4, <2>1, LocalStepInv DEF Holding
<1> QED
  BY <1>5, <1>6

\* The claiming transaction of next_item: a new token, which no worker can remember.
LEMMA ClaimInv ==
    ASSUME QueueInv, NEW w \in Workers, Claim(w)
    PROVE  QueueInv'
<1> DEFINE i == worker[w].item
           now == worker[w].now
           token == Len(ledger[i]) + 1
<1>1. i \in Items /\ now \in Nat
  BY InvFacts DEF Claim, At, Bound, Local
<1>2. Len(ledger[i]) \in Nat /\ Good(row[i], ledger[i]) /\ row[i] \in Row
  BY <1>1, InvFacts
<1>3. token \in Nat \ {0}
  BY <1>2
<1>4. CASE StillSelected(i, worker[w].due, now)
  <2> DEFINE r == [row[i] EXCEPT !.status = "in_progress", !.claimedBy = WorkerName[w],
                                 !.claimedAt = now, !.token = token, !.due = NoTime]
             l == Append(ledger[i], Attempt(WorkerName[w]))
             x == [Idle EXCEPT !.pc = "working", !.item = i, !.token = token]
  <2>1. /\ row' = [row EXCEPT ![i] = r] /\ ledger' = [ledger EXCEPT ![i] = l]
        /\ worker' = [worker EXCEPT ![w] = x] /\ UNCHANGED <<clock, poison, overrides>>
    BY <1>4 DEF Claim
  <2>2. row[i].status = "pending" /\ WorkerName[w] \in Names
    BY <1>4, InvFacts DEF StillSelected
  <2>3. Good(r, l)
    BY <1>1, <1>2, <2>2, ClaimGood
  <2>4. r.token = Len(ledger[i]) + 1
    BY <1>2 DEF Row
  <2>5. Len(l) = Len(ledger[i]) + 1 /\ Len(l) >= Len(ledger[i])
    BY <1>2, AppendProperties DEF Good, Attempt, AttemptRow
  <2>6. x \in Local /\ x.pc = "working" /\ x.item = i /\ x.token = token
    BY <1>1, <1>3, IdleType DEF Local, Pcs, Idle
  <2>7. poison' \in [Items -> Nat] /\ ledger'[i] = l
    BY <1>1, <2>1 DEF QueueInv, TypeOK
  <2> HIDE DEF x
  <2>8. worker'[w] = x
    BY <1>1, <2>1, <2>6, WorkerMoves
  <2>9. Remembers(w)'
    <3>1. worker'[w].token \in Nat \ {0} /\ worker'[w].token <= Len(ledger'[worker'[w].item])
      BY <1>2, <1>3, <2>5, <2>6, <2>7, <2>8
    <3>2. worker'[w].pc # "failing"
      BY <2>6, <2>8
    <3> QED
      BY <3>1, <3>2 DEF Remembers
  <2>10. x.pc \in Bound => x.item \in Items
    BY <1>1, <2>6
  <2> HIDE DEF r, l, i
  <2> QED
    BY <1>1, <2>1, <2>3, <2>4, <2>5, <2>6, <2>7, <2>9, <2>10, OneItemStepInv
<1>5. CASE ~StillSelected(i, worker[w].due, now)
  <2> DEFINE x == [Idle EXCEPT !.pc = "selecting"]
  <2>1. worker' = [worker EXCEPT ![w] = x] /\ UNCHANGED <<clock, database>>
    BY <1>5 DEF Claim, database
  <2>2. x \in Local /\ x.pc = "selecting"
    BY IdleType DEF Local, Pcs
  <2> HIDE DEF x
  <2> QED
    BY <2>1, <2>2, LocalStepInv DEF Bound, Holding
<1> QED
  BY <1>4, <1>5

\* The operations under a claim: what the holder knows when its guard holds.
LEMMA OwnerFacts ==
    ASSUME QueueInv, NEW w \in Workers, worker[w].pc \in Holding
    PROVE  LET i == worker[w].item IN
           /\ i \in Items /\ worker[w] \in Local
           /\ Good(row[i], ledger[i]) /\ row[i] \in Row
           /\ ledger[i] \in Seq(AttemptRow) /\ Len(ledger[i]) \in Nat
           /\ worker[w].token \in Nat \ {0} /\ worker[w].token <= Len(ledger[i])
           /\ Owns(w) => row[i].status = "in_progress" /\ row[i].token = worker[w].token
BY InvFacts DEF QueueInv, AllRemember, Remembers, Holding, Bound, Owns

\* A worker that lost its claim stops and changes nothing.
LEMMA StopInv ==
    ASSUME QueueInv, NEW w \in Workers, Stop(w), UNCHANGED <<clock, database>>
    PROVE  QueueInv'
BY IdleType, LocalStepInv DEF Stop

\* bind_transaction writes one column of a row its caller holds, or stops the caller.
LEMMA BindInv ==
    ASSUME QueueInv, NEW w \in Workers, BindTransaction(w)
    PROVE  QueueInv'
<1> DEFINE i == worker[w].item
           x == worker[w]
<1>1. x.pc = "working" /\ x.pc \in Holding
  BY DEF BindTransaction, At, Holding
<1>2. CASE Owns(w)
  <2> DEFINE r == [row[i] EXCEPT !.tx = worker[w].token]
             l == ledger[i]
  <2>1. row' = [row EXCEPT ![i] = r] /\ UNCHANGED <<worker, clock, ledger, poison, overrides>>
    BY <1>2 DEF BindTransaction
  <2>2. /\ i \in Items /\ x \in Local /\ row[i] \in Row /\ Len(l) \in Nat
        /\ Good(row[i], l) /\ row[i].status = "in_progress" /\ worker[w].token \in Nat
    BY <1>1, <1>2, OwnerFacts
  <2>3. Good(r, l)
    BY <2>2, BindGood
  <2>4. /\ row[i].status = "in_progress" /\ r.token = row[i].token
        /\ r.claimedBy = row[i].claimedBy /\ r.retries = row[i].retries
    BY <2>2 DEF Row
  <2>5. /\ worker' = [worker EXCEPT ![w] = x] /\ ledger' = [ledger EXCEPT ![i] = l]
        /\ poison' \in [Items -> Nat]
    BY <2>1, <2>2 DEF QueueInv, TypeOK
  <2>6. AllKept => Remembers(w)'
    BY <2>1, RememberKept
  <2>7. Len(l) >= Len(ledger[i]) /\ (x.pc \in Bound => x.item \in Items)
    BY <2>2
  <2> HIDE DEF r, l, i, x
  <2> QED
    BY <2>1, <2>2, <2>3, <2>4, <2>5, <2>6, <2>7, OneItemStepInv
<1>3. CASE ~Owns(w)
  BY <1>3, StopInv DEF BindTransaction, database
<1> QED
  BY <1>2, <1>3

\* renew_lease reads the clock and nothing else before its UPDATE.
LEMMA RenewStartInv ==
    ASSUME QueueInv, NEW w \in Workers, RenewStart(w)
    PROVE  QueueInv'
<1> DEFINE x == [worker[w] EXCEPT !.pc = "renewing", !.now = clock]
<1>1. worker[w].pc \in Holding
  BY DEF RenewStart, At, Holding
<1>2. x \in Local /\ x.pc = "renewing" /\ x.item = worker[w].item /\ x.token = worker[w].token
  <2>1. worker[w] \in Local /\ clock \in Nat
    BY InvFacts DEF QueueInv, TypeOK
  <2> QED
    BY <2>1 DEF Local, Pcs
<1>3. worker' = [worker EXCEPT ![w] = x] /\ UNCHANGED <<clock, database>>
  BY DEF RenewStart
<1> HIDE DEF x
<1>4. x.item \in Items
  BY <1>1, <1>2, OwnerFacts
<1>5. AllKept
  BY <1>3, UnchangedKept DEF database
<1>6. Remembers(w)'
  BY <1>1, <1>2, <1>3, <1>4, WorkerMoves, OwnerFacts DEF Remembers, database
<1>7. /\ row' = [j \in Items |-> row'[j]] /\ ledger' = [j \in Items |-> ledger'[j]]
      /\ clock' \in Nat /\ poison' \in [Items -> Nat]
      /\ overrides' \in [Items -> Seq(OverrideRow)]
  BY <1>3 DEF QueueInv, TypeOK, database
<1>8. \A v \in Workers : worker'[v] = worker[v] \/ Remembers(v)'
  BY <1>2, <1>3, <1>4, <1>6, WorkerMoves
<1> QED
  BY <1>2, <1>3, <1>4, <1>5, <1>7, <1>8, WorkerMoves, KeptInv

\* The UPDATE of renew_lease moves the claim time of a row its caller holds.
LEMMA RenewLeaseInv ==
    ASSUME QueueInv, NEW w \in Workers, RenewLease(w)
    PROVE  QueueInv'
<1> DEFINE i == worker[w].item
<1>1. worker[w].pc \in Holding
  BY DEF RenewLease, At, Holding
<1>2. CASE Owns(w)
  <2> DEFINE r == [row[i] EXCEPT !.claimedAt = worker[w].now]
             l == ledger[i]
             x == [worker[w] EXCEPT !.pc = "working", !.now = NoTime]
  <2>1. /\ row' = [row EXCEPT ![i] = r] /\ worker' = [worker EXCEPT ![w] = x]
        /\ UNCHANGED <<clock, ledger, poison, overrides>>
    BY <1>2 DEF RenewLease
  <2>2. /\ i \in Items /\ worker[w] \in Local /\ row[i] \in Row /\ Len(l) \in Nat
        /\ Good(row[i], l) /\ row[i].status = "in_progress"
        /\ worker[w].token \in Nat \ {0} /\ worker[w].token <= Len(l)
    BY <1>1, <1>2, OwnerFacts
  <2>3. Good(r, l)
    BY <2>2, RenewGood DEF Local
  <2>4. /\ row[i].status = "in_progress" /\ r.token = row[i].token
        /\ r.claimedBy = row[i].claimedBy /\ r.retries = row[i].retries
    BY <2>2 DEF Row
  <2>5. x \in Local /\ x.pc = "working" /\ x.item = i /\ x.token = worker[w].token
    BY <2>2 DEF Local, Pcs, NoTime
  <2>6. ledger' = [ledger EXCEPT ![i] = l] /\ poison' \in [Items -> Nat]
    BY <2>1, <2>2 DEF QueueInv, TypeOK
  <2> HIDE DEF x
  <2>7. Remembers(w)'
    BY <2>1, <2>2, <2>5, WorkerMoves DEF Remembers
  <2>8. Len(l) >= Len(ledger[i]) /\ (x.pc \in Bound => x.item \in Items)
    BY <2>2, <2>5
  <2> HIDE DEF r, l, i
  <2> QED
    BY <2>1, <2>2, <2>3, <2>4, <2>5, <2>6, <2>7, <2>8, OneItemStepInv
<1>3. CASE ~Owns(w)
  BY <1>3, StopInv DEF RenewLease, database
<1> QED
  BY <1>2, <1>3

\* complete() ends the claim of its caller, in the row and in the ledger.
LEMMA CompleteInv ==
    ASSUME QueueInv, NEW w \in Workers, Complete(w)
    PROVE  QueueInv'
<1> DEFINE i == worker[w].item
<1>1. worker[w].pc \in Holding /\ worker' = [worker EXCEPT ![w] = Idle]
  BY DEF Complete, At, Holding, Stop
<1>2. CASE Owns(w)
  <2> DEFINE r == Succeeded(row[i])
             l == Close(ledger[i], row[i].token, "successful")
  <2>1. /\ i \in Items /\ Good(row[i], ledger[i]) /\ row[i].status = "in_progress"
        /\ row[i].token = worker[w].token /\ worker[w].token \in Nat
        /\ ledger[i] \in Seq(AttemptRow) /\ Len(ledger[i]) \in Nat /\ row[i] \in Row
    BY <1>1, <1>2, OwnerFacts
  <2>2. /\ row' = [row EXCEPT ![i] = r] /\ ledger' = [ledger EXCEPT ![i] = l]
        /\ UNCHANGED <<clock, poison, overrides>>
    BY <1>2, <2>1 DEF Complete
  <2>3. "successful" \in Outcomes \ {"open"}
    BY DEF Outcomes
  <2>4. Good(r, l) /\ Len(l) >= Len(ledger[i])
    <3>1. Good(r, l)
      BY <2>1, <2>3, SucceededGood
    <3>2. Len(l) = Len(ledger[i])
      BY <2>1, <2>3, CloseLemma
    <3> HIDE DEF l
    <3> QED
      BY <2>1, <3>1, <3>2
  <2>5. r.status # "in_progress" /\ poison' \in [Items -> Nat]
    BY <2>1, <2>2 DEF Succeeded, Row, QueueInv, TypeOK
  <2>6. Remembers(w)'
    BY <1>1, IdleType, WorkerMoves, NotHolding
  <2> HIDE DEF r, l, i
  <2> QED
    BY <1>1, <2>1, <2>2, <2>4, <2>5, <2>6, IdleType, OneItemStepInv
<1>3. CASE ~Owns(w)
  BY <1>3, StopInv DEF Complete, database
<1> QED
  BY <1>2, <1>3

\* fail() remembers the retry count of the row it holds.
LEMMA FailReadInv ==
    ASSUME QueueInv, NEW w \in Workers, FailRead(w)
    PROVE  QueueInv'
<1> DEFINE i == worker[w].item
           x == [worker[w] EXCEPT !.pc = "failing", !.retries = row[i].retries, !.now = clock]
<1>1. worker[w].pc \in Holding /\ UNCHANGED <<clock, database>>
  BY DEF FailRead, At, Holding
<1>2. CASE Owns(w)
  <2>1. /\ i \in Items /\ worker[w] \in Local /\ row[i].retries \in Nat /\ clock \in Nat
        /\ worker[w].token \in Nat \ {0} /\ worker[w].token <= Len(ledger[i])
    BY <1>1, OwnerFacts DEF Row, QueueInv, TypeOK
  <2>2. /\ x \in Local /\ x.pc = "failing" /\ x.item = i /\ x.token = worker[w].token
        /\ x.retries = row[i].retries
    BY <2>1 DEF Local, Pcs
  <2>3. worker' = [worker EXCEPT ![w] = x]
    BY <1>2 DEF FailRead
  <2> HIDE DEF x
  <2>4. worker'[w] = x
    BY <2>1, <2>2, <2>3, WorkerMoves
  <2>5. Remembers(w)'
    BY <1>1, <2>1, <2>2, <2>4 DEF Remembers, database
  <2>6. AllKept
    BY <1>1, UnchangedKept DEF database
  <2>7. /\ row' = [j \in Items |-> row'[j]] /\ ledger' = [j \in Items |-> ledger'[j]]
        /\ clock' \in Nat /\ poison' \in [Items -> Nat]
        /\ overrides' \in [Items -> Seq(OverrideRow)]
    BY <1>1 DEF QueueInv, TypeOK, database
  <2>8. \A v \in Workers : worker'[v] = worker[v] \/ Remembers(v)'
    BY <2>1, <2>2, <2>3, <2>5, WorkerMoves
  <2> QED
    BY <2>1, <2>2, <2>3, <2>6, <2>7, <2>8, WorkerMoves, KeptInv
<1>3. CASE ~Owns(w)
  BY <1>1, <1>3, StopInv DEF FailRead
<1> QED
  BY <1>2, <1>3

\* The UPDATE of fail(): the retry count read without a lock is still the row's, because
\* it changes only together with the token.
LEMMA FailWriteInv ==
    ASSUME QueueInv, NEW w \in Workers, NEW retry \in BOOLEAN, FailWrite(w, retry)
    PROVE  QueueInv'
<1> DEFINE i == worker[w].item
           n == worker[w].retries + 1
           outcome == IF retry /\ MayRetry(n) THEN "retry_scheduled" ELSE "failed"
<1>1. worker[w].pc = "failing" /\ worker' = [worker EXCEPT ![w] = Idle]
  BY DEF FailWrite, At, Stop
<1>2. worker[w].pc \in Holding
  BY <1>1 DEF Holding
<1>3. CASE Owns(w)
  <2> DEFINE r == Failed(row[i], row[i].retries + 1, retry, worker[w].now)
             l == Close(ledger[i], row[i].token, outcome)
  <2>1. /\ i \in Items /\ Good(row[i], ledger[i]) /\ row[i].status = "in_progress"
        /\ row[i].token = worker[w].token /\ worker[w].token \in Nat
        /\ ledger[i] \in Seq(AttemptRow) /\ Len(ledger[i]) \in Nat /\ row[i] \in Row
        /\ worker[w].now \in Nat
    BY <1>2, <1>3, OwnerFacts DEF Local
  <2>2. worker[w].retries = row[i].retries
    BY <1>1, <1>3 DEF QueueInv, AllRemember, Remembers
  <2>3. /\ row' = [row EXCEPT ![i] = r] /\ ledger' = [ledger EXCEPT ![i] = l]
        /\ UNCHANGED <<clock, poison, overrides>>
    BY <1>3, <2>1, <2>2 DEF FailWrite
  <2>4. outcome \in Outcomes \ {"open"}
    BY DEF Outcomes
  <2> HIDE DEF outcome
  <2>5. Good(r, l)
    BY <2>1, <2>4, FailedGood
  <2>6. Len(l) = Len(ledger[i])
    <3>1. outcome \in Outcomes /\ row[i].token \in Nat /\ ledger[i] \in Seq(AttemptRow)
      BY <2>1, <2>4
    <3> HIDE DEF i
    <3> QED
      BY ONLY <3>1, CloseLemma
  <2>7. r.status # "in_progress"
    BY <2>1 DEF Failed, Row
  <2>8. poison' \in [Items -> Nat]
    BY <2>3 DEF QueueInv, TypeOK
  <2>9. Remembers(w)'
    BY <1>1, IdleType, WorkerMoves, NotHolding
  <2> HIDE DEF r, l
  <2>10. Len(l) >= Len(ledger[i])
    BY <2>1, <2>6
  <2> HIDE DEF i
  <2> QED
    BY <1>1, <2>1, <2>3, <2>5, <2>7, <2>8, <2>9, <2>10, IdleType, OneItemStepInv
<1>4. CASE ~Owns(w)
  BY <1>4, StopInv DEF FailWrite, database
<1> QED
  BY <1>3, <1>4

\* An override that keeps its item coherent keeps the invariant; the claim it takes from a
\* worker leaves that worker a stale token.
LEMMA OverrideInv ==
    ASSUME QueueInv, NEW i \in Items, NEW action \in {"force_complete", "force_fail"}, NEW new,
           Override(i, action, new), new \in Row, new.status # "in_progress",
           Good(new, OverrideClose(row[i], ledger[i]))
    PROVE  QueueInv'
<1> DEFINE l == OverrideClose(row[i], ledger[i])
           e == [action |-> action, from |-> row[i].status, to |-> new.status]
<1>1. /\ row' = [row EXCEPT ![i] = new]
      /\ ledger' = [ledger EXCEPT ![i] = l]
      /\ overrides' = [overrides EXCEPT ![i] = Append(@, e)]
      /\ UNCHANGED <<clock, poison, worker>>
  BY DEF Override, OverrideClose, QueueInv, TypeOK
<1>2. Good(row[i], ledger[i]) /\ row[i] \in Row /\ Len(ledger[i]) \in Nat
  BY InvFacts
<1>3. Len(l) = Len(ledger[i])
  BY <1>2, OverrideCloses
<1> HIDE DEF l
<1>4. Len(l) >= Len(ledger[i]) /\ Good(new, l)
  BY <1>2, <1>3 DEF l
<1>5. AllKept
  BY <1>1, <1>4, OneItemKept
<1>6. overrides' \in [Items -> Seq(OverrideRow)]
  <2>1. e \in OverrideRow
    BY <1>2 DEF OverrideRow, Row
  <2> HIDE DEF e
  <2>2. overrides \in [Items -> Seq(OverrideRow)]
    BY DEF QueueInv, TypeOK
  <2>3. Append(overrides[i], e) \in Seq(OverrideRow)
    BY <2>1, <2>2, AppendProperties
  <2> QED
    BY <1>1, <2>2, <2>3
<1>7. /\ row' = [j \in Items |-> row'[j]] /\ ledger' = [j \in Items |-> ledger'[j]]
      /\ clock' \in Nat /\ poison' \in [Items -> Nat] /\ worker' \in [Workers -> Local]
      /\ \A w \in Workers : worker'[w].pc \in Bound => worker'[w].item \in Items
      /\ \A w \in Workers : worker'[w] = worker[w]
  BY <1>1 DEF QueueInv, TypeOK
<1> QED
  BY <1>5, <1>6, <1>7, KeptInv

\* force_complete() and force_fail() are such overrides.
LEMMA ForceInv ==
    ASSUME QueueInv, NEW i \in Items,
           ForceComplete(i) \/ ForceFail(i, TRUE) \/ ForceFail(i, FALSE)
    PROVE  QueueInv'
<1>1. /\ Good(row[i], ledger[i]) /\ row[i] \in Row /\ clock \in Nat
      /\ row[i].status # "absent"
  BY InvFacts DEF QueueInv, TypeOK, ForceComplete, ForceFail, Override
<1>2. CASE ForceComplete(i)
  <2> DEFINE new == [Succeeded(row[i]) EXCEPT !.claimedBy = NoWorker]
  <2>1. Good(new, OverrideClose(row[i], ledger[i]))
    BY <1>1, ForceCompleteGood
  <2>2. new \in Row /\ new.status # "in_progress"
    BY <1>1, <2>1 DEF Good, Succeeded, Row
  <2>3. Override(i, "force_complete", new)
    BY <1>2 DEF ForceComplete
  <2> HIDE DEF new
  <2> QED
    BY <2>1, <2>2, <2>3, OverrideInv
<1>3. ASSUME NEW retry \in BOOLEAN, ForceFail(i, retry) PROVE QueueInv'
  <2> DEFINE f == Failed(row[i], row[i].retries + 1, retry, clock)
             new == [f EXCEPT !.claimedBy = NoWorker]
  <2>1. Good(new, OverrideClose(row[i], ledger[i]))
    BY <1>1, ForceFailGood
  <2>2. f \in Row /\ f.status # "in_progress"
    <3>1. row[i].retries + 1 \in Nat \ {0}
      BY <1>1 DEF Row
    <3> QED
      BY <1>1, <3>1, FailedType
  <2>3. Override(i, "force_fail", new)
    BY <1>3 DEF ForceFail
  <2> HIDE DEF f
  <2>4. new \in Row /\ new.status # "in_progress"
    BY <2>2 DEF Row
  <2> HIDE DEF new
  <2> QED
    BY <2>1, <2>3, <2>4, OverrideInv
<1> QED
  BY <1>2, <1>3

-----------------------------------------------------------------------------
(* The theorems                                                              *)

\* Every step of the queue keeps the inductive invariant.
LEMMA QueueInvStep == QueueInv /\ [Next]_vars => QueueInv'
<1> SUFFICES ASSUME QueueInv, [Next]_vars PROVE QueueInv'
  OBVIOUS
<1>1. CASE Tick
  BY <1>1, TickInv
<1>2. CASE \E i \in Items : Add(i) \/ AddOnce(i)
  BY <1>2, InsertInv DEF Add, AddOnce
<1>3. CASE \E i \in Items : ForceComplete(i) \/ ForceFail(i, TRUE) \/ ForceFail(i, FALSE)
  BY <1>3, ForceInv
<1>4. ASSUME NEW w \in Workers, NextItem(w) PROVE QueueInv'
  BY <1>4, ReadOnlyInv, ReclaimInv, QuarantineInv, ClaimInv DEF NextItem
<1>5. ASSUME NEW w \in Workers,
             \/ BindTransaction(w) \/ RenewStart(w) \/ RenewLease(w)
             \/ Finish(w) \/ Fail(w) \/ Crash(w)
      PROVE  QueueInv'
  BY <1>5, BindInv, RenewStartInv, RenewLeaseInv, CompleteInv, FailReadInv, FailWriteInv,
     ReadOnlyInv DEF Finish, Fail
<1>6. CASE UNCHANGED vars
  BY <1>6 DEF vars, QueueInv, TypeOK, AllGood, AllRemember, Remembers, Owns
<1> QED
  BY <1>1, <1>2, <1>3, <1>4, <1>5, <1>6 DEF Next

\* The inductive invariant holds in every reachable state.
THEOREM QueueInvariant == Spec => []QueueInv
BY QueueInvInit, QueueInvStep, PTL DEF Spec

\* Every variable keeps its type (queue.py: the columns each statement writes).
THEOREM TypeCorrect == Spec => []TypeOK
<1>1. QueueInv => TypeOK
  BY DEF QueueInv
<1> QED
  BY <1>1, QueueInvariant, PTL

\* queue_items and queue_attempts never disagree about who holds an item.
THEOREM LedgerAlwaysMatchesClaim == Spec => []LedgerMatchesClaim
<1>1. QueueInv => LedgerMatchesClaim
  <2> SUFFICES ASSUME QueueInv, NEW i \in Items
               PROVE  IF Leased(i)
                      THEN /\ Open(i) = {Len(ledger[i])}
                           /\ row[i].token = Len(ledger[i])
                           /\ row[i].claimedBy = ledger[i][row[i].token].worker
                      ELSE /\ Open(i) = {}
                           /\ row[i].token = NoToken
    BY DEF LedgerMatchesClaim
  <2>1. Good(row[i], ledger[i]) /\ ledger[i] \in Seq(AttemptRow) /\ Len(ledger[i]) \in Nat
    BY InvFacts
  <2>2. DOMAIN ledger[i] = 1..Len(ledger[i])
    BY <2>1
  <2> QED
    BY <2>1, <2>2 DEF Good, Coherent, Leased, Open
<1> QED
  BY <1>1, QueueInvariant, PTL

\* No item is delivered more than max_retries + 1 times, whatever fails or is overridden.
THEOREM DeliveriesAlwaysBounded == Spec => []DeliveriesBounded
<1>1. QueueInv => DeliveriesBounded
  BY DEF QueueInv, AllGood, Good, Budget, DeliveriesBounded
<1> QED
  BY <1>1, QueueInvariant, PTL

-----------------------------------------------------------------------------
(* Steps *)

\* A call acts on a time it read before; a row that is not there binds nothing.
Past == \A w \in Workers : worker[w].now <= clock
Unbound == \A i \in Items : row[i].status = "absent" => row[i].tx = NoTransaction
StepInv == Past /\ Unbound

Rested(i) == row'[i] = row[i] /\ overrides'[i] = overrides[i]

Inserted(i) ==
    /\ Add(i) \/ AddOnce(i)
    /\ row[i].status = "absent" /\ row'[i].status = "pending"
    /\ row'[i].tx = NoTransaction
    /\ \A j \in Items : j # i => row'[j] = row[j]

Claimed(i) ==
    /\ row[i].status = "pending" /\ row[i].due <= clock
    /\ row'[i].status = "in_progress"
    /\ row'[i].tx = row[i].tx /\ overrides'[i] = overrides[i]

Quarantined(i) ==
    /\ row[i].status = "pending" /\ row'[i].status = "failed"
    /\ row'[i].tx = row[i].tx /\ overrides'[i] = overrides[i]

\* A holder binds a transaction or renews its lease.
Held(i) ==
    /\ row[i].status = "in_progress" /\ row'[i].status = "in_progress"
    /\ row'[i].token = row[i].token
    /\ row'[i].tx \in {row[i].tx, row[i].token}
    /\ overrides'[i] = overrides[i]

Released(i) ==
    /\ row[i].status = "in_progress"
    /\ row'[i].status \in {"pending", "successful", "failed"}
    /\ row'[i].tx = row[i].tx /\ overrides'[i] = overrides[i]
    /\ Expired(i) \/ EndedByHolder(i)

Overridden(i) ==
    /\ row[i].status # "absent"
    /\ row'[i].status \in {"pending", "successful", "failed"}
    /\ row'[i].tx = row[i].tx
    /\ \E action : overrides'[i] = Append(overrides[i], [action |-> action,
                                            from |-> row[i].status, to |-> row'[i].status])

Happens(i) == \/ Rested(i) \/ Inserted(i) \/ Claimed(i) \/ Quarantined(i)
              \/ Held(i) \/ Released(i) \/ Overridden(i)

-----------------------------------------------------------------------------
(* One lemma per kind of step                                                *)

\* A step that leaves rows and audit alone.
LEMMA NothingHappens ==
    ASSUME UNCHANGED <<row, overrides>>
    PROVE  \A i \in Items : Happens(i)
BY DEF Happens, Rested

\* add and add_once change one row.
LEMMA InsertHappens ==
    ASSUME QueueInv, NEW k \in Items, Add(k) \/ AddOnce(k), NEW i \in Items
    PROVE  Happens(i)
<1>1. PICK delay \in AddDelays : Insert(k, delay)
  BY DEF Add, AddOnce
<1> DEFINE r == [EmptyRow EXCEPT !.status = "pending",
                                 !.due = IF delay = 0 THEN NoTime ELSE clock + delay]
<1>2. row[k].status = "absent" /\ row' = [row EXCEPT ![k] = r] /\ overrides' = overrides
  BY <1>1 DEF Insert
<1>3. r.status = "pending" /\ r.tx = NoTransaction
  BY DEF EmptyRow
<1>4. row \in [Items -> Row]
  BY DEF QueueInv, TypeOK
<1> HIDE DEF r
<1>5. row'[k] = r /\ \A j \in Items : j # k => row'[j] = row[j]
  BY <1>2, <1>4
<1> QED
  BY <1>2, <1>3, <1>5 DEF Happens, Inserted, Rested

\* The claim of next_item uses a time that has passed.
LEMMA ClaimHappens ==
    ASSUME QueueInv, StepInv, NEW w \in Workers, Claim(w), NEW i \in Items
    PROVE  Happens(i)
<1> DEFINE k == worker[w].item
           now == worker[w].now
<1>1. CASE StillSelected(k, worker[w].due, now)
  <2> DEFINE r == [row[k] EXCEPT !.status = "in_progress", !.claimedBy = WorkerName[w],
                                 !.claimedAt = now, !.token = Len(ledger[k]) + 1,
                                 !.due = NoTime]
  <2>1. row' = [row EXCEPT ![k] = r] /\ overrides' = overrides
    BY <1>1 DEF Claim
  <2>2. /\ k \in Items /\ row[k] \in Row /\ row \in [Items -> Row]
        /\ now \in Nat /\ clock \in Nat /\ now <= clock /\ row[k].due \in Nat
    BY InvFacts DEF Claim, At, Bound, QueueInv, TypeOK, StepInv, Past, Local, Row
  <2>3. row[k].status = "pending" /\ row[k].due <= clock
    BY <1>1, <2>2 DEF StillSelected
  <2>4. r.status = "in_progress" /\ r.tx = row[k].tx
    BY <2>2 DEF Row
  <2> HIDE DEF r, k
  <2> QED
    BY <2>1, <2>2, <2>3, <2>4 DEF Happens, Claimed, Rested
<1>2. CASE ~StillSelected(k, worker[w].due, now)
  BY <1>2, NothingHappens DEF Claim
<1> QED
  BY <1>1, <1>2

\* The quarantine of next_item fails a waiting item.
LEMMA QuarantineHappens ==
    ASSUME QueueInv, NEW w \in Workers, Quarantine(w), NEW i \in Items
    PROVE  Happens(i)
<1> DEFINE k == worker[w].item
<1>1. CASE StillSelected(k, worker[w].due, clock)
  <2> DEFINE r == [row[k] EXCEPT !.status = "failed", !.claimedBy = NoWorker,
                                 !.claimedAt = NoTime, !.token = NoToken, !.due = NoTime]
  <2>1. row' = [row EXCEPT ![k] = r] /\ overrides' = overrides
    BY <1>1 DEF Quarantine
  <2>2. k \in Items /\ row[k] \in Row /\ row \in [Items -> Row] /\ row[k].status = "pending"
    BY <1>1, InvFacts DEF Quarantine, At, Bound, QueueInv, TypeOK, StillSelected
  <2>3. r.status = "failed" /\ r.tx = row[k].tx
    BY <2>2 DEF Row
  <2> HIDE DEF r, k
  <2> QED
    BY <2>1, <2>2, <2>3 DEF Happens, Quarantined, Rested
<1>2. CASE ~StillSelected(k, worker[w].due, clock)
  BY <1>2, NothingHappens DEF Quarantine
<1> QED
  BY <1>1, <1>2

\* Comparing whole seconds never shortens a lease.
LEMMA SecondsElapsed ==
    ASSUME NEW now \in Nat, NEW claimed \in Nat, Seconds(now) - Seconds(claimed) > LeaseTimeout
    PROVE  now - claimed > LeaseTimeout * TicksPerSecond
<1> DEFINE t == TicksPerSecond
           a == now \div t
           b == claimed \div t
<1>1. t \in Nat \ {0} /\ LeaseTimeout \in Nat
  BY QueueAssumption
<1>2. a \in Nat /\ a * t <= now
  BY <1>1
<1>3. b \in Nat /\ claimed < (b + 1) * t
  BY <1>1
<1>4. a >= b + 1 + LeaseTimeout
  BY <1>1, <1>2, <1>3 DEF Seconds
<1> HIDE DEF a, b
<1>5. a * t >= (b + 1 + LeaseTimeout) * t
  BY <1>1, <1>2, <1>3, <1>4
<1>6. (b + 1 + LeaseTimeout) * t = (b + 1) * t + LeaseTimeout * t
  BY <1>1, <1>3
<1>7. (b + 1) * t \in Nat /\ LeaseTimeout * t \in Nat /\ a * t \in Nat
  BY <1>1, <1>2, <1>3
<1> QED
  BY <1>2, <1>3, <1>5, <1>6, <1>7

\* The reclaim takes a lease that has elapsed, or nothing.
LEMMA ReclaimHappens ==
    ASSUME QueueInv, StepInv, NEW w \in Workers, Reclaim(w), NEW i \in Items
    PROVE  Happens(i)
<1> DEFINE now == worker[w].now
           n == row[i].retries + 1
<1>1. /\ now \in Nat /\ clock \in Nat /\ now <= clock /\ row[i] \in Row
      /\ n \in Nat \ {0} /\ row[i].claimedAt \in Nat
  <2>1. row[i] \in Row /\ row[i].retries \in Nat /\ worker[w] \in Local
    BY InvFacts
  <2>2. clock \in Nat /\ now <= clock
    BY DEF QueueInv, TypeOK, StepInv, Past
  <2>3. now \in Nat /\ row[i].claimedAt \in Nat
    BY <2>1 DEF Local, Row
  <2> QED
    BY <2>1, <2>2, <2>3
<1>2. CASE Stale(row[i], now)
  <2>1. row'[i] = Failed(row[i], n, TRUE, now) /\ overrides' = overrides
    BY <1>2 DEF Reclaim
  <2>2. /\ Failed(row[i], n, TRUE, now).status \in {"pending", "failed"}
        /\ Failed(row[i], n, TRUE, now).tx = row[i].tx
    BY <1>1 DEF Failed, Row
  <2>3. Expired(i)
    <3>1. now - row[i].claimedAt > LeaseTimeout * TicksPerSecond
      BY <1>1, <1>2, SecondsElapsed DEF Stale
    <3>2. LeaseTimeout * TicksPerSecond \in Nat
      BY QueueAssumption
    <3> HIDE DEF now
    <3> QED
      BY <1>1, <3>1, <3>2 DEF Expired
  <2> QED
    BY <1>2, <2>1, <2>2, <2>3 DEF Stale, Happens, Released
<1>3. CASE ~Stale(row[i], now)
  BY <1>3 DEF Reclaim, Happens, Rested
<1> QED
  BY <1>2, <1>3

\* bind_transaction and renew_lease act for the holder only.
LEMMA HoldHappens ==
    ASSUME QueueInv, NEW w \in Workers, BindTransaction(w) \/ RenewLease(w), NEW i \in Items
    PROVE  Happens(i)
<1> DEFINE k == worker[w].item
<1>1. worker[w].pc \in Holding
  BY DEF BindTransaction, RenewLease, At, Holding
<1>2. CASE Owns(w)
  <2>1. /\ k \in Items /\ row[k] \in Row /\ row \in [Items -> Row]
        /\ row[k].status = "in_progress" /\ row[k].token = worker[w].token
    BY <1>1, <1>2, OwnerFacts DEF QueueInv, TypeOK
  <2>2. CASE BindTransaction(w)
    <3> DEFINE r == [row[k] EXCEPT !.tx = worker[w].token]
    <3>1. row' = [row EXCEPT ![k] = r] /\ overrides' = overrides
      BY <1>2, <2>2 DEF BindTransaction
    <3>2. r.status = row[k].status /\ r.token = row[k].token /\ r.tx = row[k].token
      BY <2>1 DEF Row
    <3> HIDE DEF r, k
    <3> QED
      BY <2>1, <3>1, <3>2 DEF Happens, Held, Rested
  <2>3. CASE RenewLease(w)
    <3> DEFINE r == [row[k] EXCEPT !.claimedAt = worker[w].now]
    <3>1. row' = [row EXCEPT ![k] = r] /\ overrides' = overrides
      BY <1>2, <2>3 DEF RenewLease
    <3>2. r.status = row[k].status /\ r.token = row[k].token /\ r.tx = row[k].tx
      BY <2>1 DEF Row
    <3> HIDE DEF r, k
    <3> QED
      BY <2>1, <3>1, <3>2 DEF Happens, Held, Rested
  <2> QED
    BY <2>2, <2>3
<1>3. CASE ~Owns(w)
  BY <1>3, NothingHappens DEF BindTransaction, RenewLease
<1> QED
  BY <1>2, <1>3

\* complete() and fail() end the claim of the worker that calls them.
LEMMA FinishHappens ==
    ASSUME QueueInv, NEW w \in Workers, Complete(w) \/ Fail(w), NEW i \in Items
    PROVE  Happens(i)
<1> DEFINE k == worker[w].item
           n == worker[w].retries + 1
<1>1. /\ worker[w].pc \in {"working", "failing"} /\ worker[w].pc \in Holding
      /\ worker' = [worker EXCEPT ![w] = Idle] /\ overrides' = overrides
  BY DEF Complete, Fail, FailWrite, At, Holding, Stop
<1>2. CASE Owns(w)
  <2>1. /\ k \in Items /\ row[k] \in Row /\ row \in [Items -> Row]
        /\ row[k].status = "in_progress" /\ row[k].token = worker[w].token
    BY <1>1, <1>2, OwnerFacts DEF QueueInv, TypeOK
  <2>2. worker'[w].pc = "idle"
    BY <1>1, IdleType DEF QueueInv, TypeOK
  <2>3. EndedByHolder(k)
    BY <1>1, <2>1, <2>2 DEF EndedByHolder
  <2>4. ASSUME NEW r, row' = [row EXCEPT ![k] = r],
               r.status \in {"pending", "successful", "failed"}, r.tx = row[k].tx
        PROVE  Happens(i)
    <3> HIDE DEF k
    <3> QED
      BY <1>1, <2>1, <2>3, <2>4 DEF Happens, Released, Rested
  <2>5. CASE Complete(w)
    <3>1. row' = [row EXCEPT ![k] = Succeeded(row[k])]
      BY <1>2, <2>5 DEF Complete
    <3>2. Succeeded(row[k]).status = "successful" /\ Succeeded(row[k]).tx = row[k].tx
      BY <2>1 DEF Succeeded, Row
    <3> QED
      BY <2>4, <3>1, <3>2
  <2>6. ASSUME NEW retry \in BOOLEAN, FailWrite(w, retry) PROVE Happens(i)
    <3> DEFINE r == Failed(row[k], n, retry, worker[w].now)
    <3>1. row' = [row EXCEPT ![k] = r]
      BY <1>2, <2>6 DEF FailWrite
    <3>2. r.status \in {"pending", "failed"} /\ r.tx = row[k].tx
      BY <2>1 DEF Failed, Row
    <3> HIDE DEF r
    <3> QED
      BY <2>4, <3>1, <3>2
  <2> QED
    BY <2>5, <2>6 DEF Fail
<1>3. CASE ~Owns(w)
  BY <1>3, NothingHappens DEF Complete, Fail, FailWrite
<1> QED
  BY <1>2, <1>3

\* An override leaves an audit row that says where the item came from.
LEMMA OverrideHappens ==
    ASSUME QueueInv, NEW k \in Items,
           ForceComplete(k) \/ ForceFail(k, TRUE) \/ ForceFail(k, FALSE), NEW i \in Items
    PROVE  Happens(i)
<1>1. /\ row[k] \in Row /\ row \in [Items -> Row]
      /\ overrides \in [Items -> Seq(OverrideRow)] /\ clock \in Nat
  BY InvFacts DEF QueueInv, TypeOK
<1>2. ASSUME NEW r, NEW action, Override(k, action, r),
             r.status \in {"pending", "successful", "failed"}, r.tx = row[k].tx
      PROVE  Happens(i)
  <2> DEFINE o == Append(overrides[k], [action |-> action, from |-> row[k].status,
                                        to |-> r.status])
  <2>1. /\ row' = [row EXCEPT ![k] = r] /\ overrides' = [overrides EXCEPT ![k] = o]
        /\ row[k].status # "absent"
    BY <1>2 DEF Override
  <2>2. row'[k] = r /\ overrides'[k] = o
    BY <1>1, <2>1
  <2>3. Overridden(k)
    BY <1>2, <2>1, <2>2 DEF Overridden
  <2> HIDE DEF o
  <2>4. i # k => Rested(i)
    BY <1>1, <2>1 DEF Rested
  <2> QED
    BY <2>3, <2>4 DEF Happens
<1>3. CASE ForceComplete(k)
  <2> DEFINE r == [Succeeded(row[k]) EXCEPT !.claimedBy = NoWorker]
  <2>1. r.status = "successful" /\ r.tx = row[k].tx
    BY <1>1 DEF Succeeded, Row
  <2>2. Override(k, "force_complete", r)
    BY <1>3 DEF ForceComplete
  <2> HIDE DEF r
  <2> QED
    BY <1>2, <2>1, <2>2
<1>4. ASSUME NEW retry \in BOOLEAN, ForceFail(k, retry) PROVE Happens(i)
  <2> DEFINE n == row[k].retries + 1
             f == Failed(row[k], n, retry, clock)
             r == [f EXCEPT !.claimedBy = NoWorker]
  <2>1. Override(k, "force_fail", r)
    BY <1>4 DEF ForceFail
  <2>2. n \in Nat \ {0}
    BY InvFacts
  <2> HIDE DEF n
  <2>3. f \in Row /\ f.status \in {"pending", "failed"} /\ f.tx = row[k].tx
    <3>1. f \in Row /\ f.status \in {"pending", "failed"}
      BY <1>1, <2>2, FailedType
    <3>2. f.tx = row[k].tx
      BY <1>1 DEF Failed, Row
    <3> QED
      BY <3>1, <3>2
  <2> HIDE DEF f
  <2>4. r.status = f.status /\ r.tx = f.tx
    BY <2>3 DEF Row
  <2> HIDE DEF r
  <2> QED
    BY <1>2, <2>1, <2>3, <2>4
<1> QED
  BY <1>3, <1>4

\* Every step does one of the seven to every item.
LEMMA Effects ==
    ASSUME QueueInv, StepInv, [Next]_vars, NEW i \in Items
    PROVE  Happens(i)
<1>1. CASE UNCHANGED vars
  BY <1>1, NothingHappens DEF vars
<1>2. ASSUME \/ Tick
             \/ \E w \in Workers : \/ Poll(w) \/ Select(w) \/ SelectNothing(w) \/ Stamp(w)
                                   \/ RenewStart(w) \/ FailRead(w) \/ Crash(w)
      PROVE  Happens(i)
  <2>1. UNCHANGED database
    BY <1>2 DEF Tick, Poll, Select, SelectNothing, Stamp, RenewStart, FailRead, Crash
  <2> QED
    BY <2>1, NothingHappens DEF database
<1> QED
  BY <1>1, <1>2, InsertHappens, ClaimHappens, QuarantineHappens, ReclaimHappens, HoldHappens,
     FinishHappens, OverrideHappens DEF Next, NextItem, Finish

-----------------------------------------------------------------------------
(* The added invariant                                                       *)

\* Nothing has happened yet.
LEMMA StepInvInit == Init => StepInv
BY DEF Init, StepInv, Past, Unbound, Idle, EmptyRow, NoTime, NoTransaction

\* A call that moves keeps its time, drops it or takes the present one.
LEMMA PastStep ==
    ASSUME QueueInv, StepInv, [Next]_vars
    PROVE  Past'
<1>1. /\ clock \in Nat /\ worker \in [Workers -> Local]
      /\ \A v \in Workers : worker[v].now \in Nat /\ worker[v].now <= clock
  BY DEF QueueInv, TypeOK, StepInv, Past, Local
<1>2. CASE UNCHANGED worker /\ (clock' = clock \/ clock' = clock + 1)
  BY <1>1, <1>2 DEF Past
<1>3. ASSUME NEW w \in Workers, NEW x, worker' = [worker EXCEPT ![w] = x],
             clock' = clock, x.now \in {NoTime, clock, worker[w].now}
      PROVE  Past'
  <2>1. x.now <= clock
    BY <1>1, <1>3 DEF NoTime
  <2>2. \A v \in Workers : worker'[v] = IF v = w THEN x ELSE worker[v]
    BY <1>1, <1>3
  <2> QED
    BY <1>1, <1>3, <2>1, <2>2 DEF Past
<1>4. Idle.now = NoTime
  BY DEF Idle
<1>5. CASE UNCHANGED vars
  BY <1>2, <1>5 DEF vars
<1>6. CASE Tick
  BY <1>2, <1>6 DEF Tick
<1>7. ASSUME NEW i \in Items, \/ Add(i) \/ AddOnce(i) \/ ForceComplete(i)
                              \/ ForceFail(i, TRUE) \/ ForceFail(i, FALSE)
      PROVE  Past'
  BY <1>2, <1>7 DEF Add, AddOnce, Insert, ForceComplete, ForceFail, Override
<1>8. ASSUME NEW w \in Workers, Poll(w) \/ Stamp(w) \/ RenewStart(w)
      PROVE  Past'
  <2>1. PICK pc \in {"polling", "claiming", "renewing"} :
          worker' = [worker EXCEPT ![w] = [@ EXCEPT !.pc = pc, !.now = clock]]
    BY <1>8 DEF Poll, Stamp, RenewStart
  <2> DEFINE x == [worker[w] EXCEPT !.pc = pc, !.now = clock]
  <2>2. worker' = [worker EXCEPT ![w] = x] /\ x.now = clock /\ clock' = clock
    BY <1>1, <1>8, <2>1 DEF Local, Poll, Stamp, RenewStart
  <2> HIDE DEF x
  <2> QED
    BY <1>3, <2>2
<1>9. ASSUME NEW w \in Workers, Select(w) PROVE Past'
  <2>1. PICK i \in Eligible :
          worker' = [worker EXCEPT ![w] =
              [@ EXCEPT !.item = i, !.due = row[i].due,
                        !.pc = IF i \in PoisonItems THEN "quarantining" ELSE "selected"]]
    BY <1>9 DEF Select
  <2> DEFINE x == [worker[w] EXCEPT !.item = i, !.due = row[i].due,
                                    !.pc = IF i \in PoisonItems THEN "quarantining"
                                                                ELSE "selected"]
  <2>2. worker' = [worker EXCEPT ![w] = x]
    BY <2>1
  <2>3. x.now = worker[w].now
    BY <1>1 DEF Local
  <2>4. clock' = clock
    BY <1>9 DEF Select
  <2> HIDE DEF x
  <2> QED
    BY <1>3, <2>2, <2>3, <2>4
<1>10. ASSUME NEW w \in Workers, Stop(w), clock' = clock PROVE Past'
  BY <1>3, <1>4, <1>10 DEF Stop
<1>11. ASSUME NEW w \in Workers, Reclaim(w) \/ Quarantine(w) \/ Claim(w) PROVE Past'
  <2> DEFINE x == [Idle EXCEPT !.pc = "selecting"]
             y == [Idle EXCEPT !.pc = "working", !.item = worker[w].item,
                               !.token = Len(ledger[worker[w].item]) + 1]
  <2>1. x.now = NoTime /\ y.now = NoTime
    BY DEF Idle
  <2>2. worker' = [worker EXCEPT ![w] = x] \/ worker' = [worker EXCEPT ![w] = y]
    BY <1>11 DEF Reclaim, Quarantine, Claim
  <2>3. clock' = clock
    BY <1>11 DEF Reclaim, Quarantine, Claim
  <2> HIDE DEF x, y
  <2> QED
    BY <1>3, <2>1, <2>2, <2>3
<1>12. ASSUME NEW w \in Workers, BindTransaction(w) \/ RenewLease(w) \/ FailRead(w)
       PROVE  Past'
  <2> DEFINE y == [worker[w] EXCEPT !.pc = "working", !.now = NoTime]
             z == [worker[w] EXCEPT !.pc = "failing",
                                    !.retries = row[worker[w].item].retries, !.now = clock]
  <2>1. y.now = NoTime /\ z.now = clock
    BY <1>1 DEF Local
  <2>2. /\ \/ worker' = [worker EXCEPT ![w] = y] \/ worker' = [worker EXCEPT ![w] = z]
           \/ Stop(w) \/ UNCHANGED worker
        /\ clock' = clock
    BY <1>12 DEF BindTransaction, RenewLease, FailRead
  <2> HIDE DEF y, z
  <2> QED
    BY <1>2, <1>3, <1>10, <2>1, <2>2
<1>13. ASSUME NEW w \in Workers, SelectNothing(w) \/ Complete(w) \/ Fail(w) \/ Crash(w)
       PROVE  Past'
  BY <1>10, <1>13 DEF SelectNothing, Complete, Fail, FailWrite, Crash
<1> QED
  BY <1>5, <1>6, <1>7, <1>8, <1>9, <1>11, <1>12, <1>13 DEF Next, NextItem, Finish

\* Only enqueuing ends an item's absence, and nothing ends its presence.
LEMMA UnboundStep ==
    ASSUME QueueInv, StepInv, [Next]_vars
    PROVE  Unbound'
<1> SUFFICES ASSUME NEW i \in Items, row'[i].status = "absent"
             PROVE  row'[i].tx = NoTransaction
  BY DEF Unbound
<1>1. Rested(i)
  BY Effects
     DEF Happens, Inserted, Claimed, Quarantined, Held, Released, Overridden
<1> QED
  BY <1>1 DEF Rested, StepInv, Unbound

\* Both invariants hold in every reachable state.
LEMMA StepInvariants == Spec => [](QueueInv /\ StepInv)
<1>1. Init => QueueInv /\ StepInv
  BY QueueInvInit, StepInvInit
<1>2. QueueInv /\ StepInv /\ [Next]_vars => (QueueInv /\ StepInv)'
  BY QueueInvStep, PastStep, UnboundStep DEF StepInv
<1> QED
  BY <1>1, <1>2, PTL DEF Spec

-----------------------------------------------------------------------------
(* The theorems                                                              *)

\* A lease is lost only after lease_timeout, to the holder's own transition or to an
\* operator (queue.py: _is_stale, the WHERE clause of every mutation under a claim).
THEOREM LeasesAreHonoured == Spec => LeaseHonoured
<1> DEFINE Step == \A i \in Items :
              Leased(i) /\ (row'[i].token # row[i].token \/ row'[i].status # "in_progress") =>
                  \/ Expired(i)
                  \/ EndedByHolder(i)
                  \/ Len(overrides'[i]) > Len(overrides[i])
<1>1. QueueInv /\ StepInv /\ [Next]_vars => Step
  <2> SUFFICES ASSUME QueueInv, StepInv, [Next]_vars, NEW i \in Items, Leased(i),
                      row'[i].token # row[i].token \/ row'[i].status # "in_progress"
               PROVE  \/ Expired(i)
                      \/ EndedByHolder(i)
                      \/ Len(overrides'[i]) > Len(overrides[i])
    OBVIOUS
  <2>1. Released(i) \/ Overridden(i)
    BY Effects DEF Leased, Happens, Rested, Inserted, Claimed, Quarantined, Held
  <2>2. CASE Overridden(i)
    <3>1. overrides[i] \in Seq(OverrideRow) /\ Len(overrides[i]) \in Nat
      BY DEF QueueInv, TypeOK
    <3>2. PICK e : overrides'[i] = Append(overrides[i], e)
      BY <2>2 DEF Overridden
    <3>3. Len(overrides'[i]) = Len(overrides[i]) + 1
      BY <3>1, <3>2
    <3> QED
      BY <3>1, <3>3
  <2> QED
    BY <2>1, <2>2 DEF Released
<1>2. Step => [Step]_vars
  OBVIOUS
<1> QED
  BY <1>1, StepInvariants, PTL DEF Spec, LeaseHonoured

\* No item is delivered before its eligibility time, or from another status than pending
\* (queue.py: the UPDATE of next_item repeats both conditions).
THEOREM DeliveriesAreDue == Spec => NoEarlyDelivery
<1> DEFINE Step == \A i \in Items :
              row'[i].status = "in_progress" /\ row'[i].token # row[i].token =>
                  row[i].status = "pending" /\ row[i].due <= clock
<1>1. QueueInv /\ StepInv /\ [Next]_vars => Step
  BY Effects DEF Happens, Rested, Inserted, Claimed, Quarantined, Held, Released, Overridden
<1> QED
  BY <1>1, StepInvariants, PTL DEF Spec, NoEarlyDelivery

\* Only the holder of a claim changes the transaction an item is bound to
\* (queue.py: bind_transaction).
THEOREM BindingsBelongToClaims == Spec => BindingBelongsToClaim
<1> DEFINE Step == \A i \in Items :
              row'[i].tx # row[i].tx => Leased(i) /\ row'[i].tx = row[i].token
<1>1. QueueInv /\ StepInv /\ [Next]_vars => Step
  BY Effects
     DEF Leased, Happens, Rested, Inserted, Claimed, Quarantined, Held, Released, Overridden,
         StepInv, Unbound
<1> QED
  BY <1>1, StepInvariants, PTL DEF Spec, BindingBelongsToClaim

-----------------------------------------------------------------------------
(* One active item per reference                                             *)

\* The audit only grows, so a revival stays on record.
LEMMA RevivalStays ==
    ASSUME QueueInv, StepInv, [Next]_vars, NEW i \in Items, Revived(i)
    PROVE  Revived(i)'
<1>1. overrides[i] \in Seq(OverrideRow)
  BY DEF QueueInv, TypeOK
<1>2. CASE overrides'[i] = overrides[i]
  BY <1>2 DEF Revived
<1>3. ASSUME NEW e, overrides'[i] = Append(overrides[i], e) PROVE Revived(i)'
  <2>1. \A k \in DOMAIN overrides[i] : k \in DOMAIN overrides'[i]
                                       /\ overrides'[i][k] = overrides[i][k]
    BY <1>1, <1>3
  <2> QED
    BY <2>1 DEF Revived
<1>4. CASE Inserted(i)
  <2>1. overrides' = overrides
    BY <1>4 DEF Inserted, Add, AddOnce, Insert
  <2> QED
    BY <1>2, <2>1
<1> QED
  BY <1>2, <1>3, <1>4, Effects
     DEF Happens, Rested, Claimed, Quarantined, Held, Released, Overridden

\* An item becomes active when it is enqueued or when an operator revives it.
LEMMA BecomesActive ==
    ASSUME QueueInv, StepInv, [Next]_vars, NEW i \in Items, ~Active(i), Active(i)'
    PROVE  Inserted(i) \/ Revived(i)'
<1>1. row[i] \in Row /\ overrides[i] \in Seq(OverrideRow)
  BY InvFacts DEF QueueInv, TypeOK
<1>2. Inserted(i) \/ Overridden(i)
  BY Effects DEF Active, Happens, Rested, Claimed, Quarantined, Held, Released
<1>3. CASE Overridden(i)
  <2>1. row[i].status \in Terminal /\ row'[i].status = "pending"
    BY <1>1, <1>3 DEF Active, Overridden, Row, Statuses, Terminal
  <2>2. PICK action : overrides'[i] = Append(overrides[i], [action |-> action,
                                            from |-> row[i].status, to |-> row'[i].status])
    BY <1>3 DEF Overridden
  <2> DEFINE e == [action |-> action, from |-> row[i].status, to |-> row'[i].status]
             n == Len(overrides[i]) + 1
  <2>3. e.from \in Terminal /\ e.to = "pending"
    BY <2>1
  <2> HIDE DEF e
  <2>4. n \in DOMAIN overrides'[i] /\ overrides'[i][n] = e
    BY <1>1, <2>2 DEF e
  <2> HIDE DEF n
  <2> QED
    BY <2>3, <2>4 DEF Revived
<1> QED
  BY <1>2, <1>3

\* add_once inserts a reference only while no item of it is active.
LEMMA EnqueuedAlone ==
    ASSUME NEW i \in Items, NEW j \in Items, i # j, i \in OnceItems, Inserted(i),
           Reference[j] = Reference[i]
    PROVE  ~Active(j) /\ row'[j] = row[j]
<1>1. ~Duplicate(i) /\ row'[j] = row[j]
  BY DEF Inserted, Add, AddOnce
<1> QED
  BY <1>1 DEF Duplicate, Active

\* The duplicate check and the insert of add_once are one transaction, so two items it
\* inserted for one reference are active together only after an operator's revival.
THEOREM OneActiveItemPerReference == Spec => []OneActivePerReference
<1>1. Init => OneActivePerReference
  BY QueueAssumption DEF Init, EmptyRow, OneActivePerReference, Active
<1>2. QueueInv /\ StepInv /\ OneActivePerReference /\ [Next]_vars => OneActivePerReference'
  <2> SUFFICES ASSUME QueueInv, StepInv, OneActivePerReference, [Next]_vars,
                      NEW i \in OnceItems, NEW j \in OnceItems, i # j,
                      Reference[i] = Reference[j], Active(i)', Active(j)'
               PROVE  Revived(i)' \/ Revived(j)'
    BY DEF OneActivePerReference
  <2>1. i \in Items /\ j \in Items
    BY QueueAssumption
  <2>2. CASE Active(i) /\ Active(j)
    BY <2>1, <2>2, RevivalStays DEF OneActivePerReference
  <2>3. CASE ~Active(i)
    <3>1. CASE Inserted(i)
      BY <2>1, <3>1, EnqueuedAlone DEF Active
    <3> QED
      BY <2>1, <2>3, <3>1, BecomesActive
  <2>4. CASE ~Active(j)
    <3>1. CASE Inserted(j)
      BY <2>1, <3>1, EnqueuedAlone DEF Active
    <3> QED
      BY <2>1, <2>4, <3>1, BecomesActive
  <2> QED
    BY <2>2, <2>3, <2>4
<1> QED
  BY <1>1, <1>2, StepInvariants, PTL DEF Spec

-----------------------------------------------------------------------------
(* Refinement *)

OutcomesOf(l) == [k \in DOMAIN l |-> l[k].outcome]
View(r, l, p) == [status |-> r.status, retries |-> r.retries,
                  log |-> OutcomesOf(l), quarantines |-> p]
Abs == [i \in Items |-> Promised(i)]

\* A worker that is about to claim has selected a decodable item, and one that is about
\* to set an item aside has selected a poison one.
Aware(w) ==
    /\ worker[w].pc \in {"selected", "claiming"} => worker[w].item \notin PoisonItems
    /\ worker[w].pc = "quarantining" => worker[w].item \in PoisonItems

\* A poison item is never in progress, and each quarantine but the last was overridden.
KeptAside(i) ==
    /\ row[i].status = "absent" => poison[i] = 0
    /\ i \in PoisonItems => /\ row[i].status # "in_progress"
                            /\ ledger[i] = <<>>
                            /\ poison[i] <= Len(overrides[i]) + 1
                            /\ row[i].status \in {"absent", "pending"} =>
                                  poison[i] <= Len(overrides[i])

PromiseInv == /\ \A w \in Workers : Aware(w)
              /\ \A i \in Items : KeptAside(i)

-----------------------------------------------------------------------------
(* Lemmas about logs                                                         *)

\* The log of a ledger is a sequence of the same length.
LEMMA LogSeq ==
    ASSUME NEW l \in Seq(AttemptRow)
    PROVE  /\ OutcomesOf(l) \in Seq(Outcomes)
           /\ Len(OutcomesOf(l)) = Len(l)
           /\ \A k \in 1..Len(l) : OutcomesOf(l)[k] = l[k].outcome
<1>1. DOMAIN l = 1..Len(l) /\ Len(l) \in Nat
  OBVIOUS
<1>2. \A k \in 1..Len(l) : l[k].outcome \in Outcomes
  <2>1. \A k \in 1..Len(l) : l[k] \in AttemptRow
    OBVIOUS
  <2> QED
    BY <2>1 DEF AttemptRow
<1>3. OutcomesOf(l) = [k \in 1..Len(l) |-> l[k].outcome]
  BY <1>1 DEF OutcomesOf
<1> QED
  BY <1>1, <1>2, <1>3

\* A claim appends an open attempt.
LEMMA LogAppend ==
    ASSUME NEW l \in Seq(AttemptRow), NEW name \in Names
    PROVE  OutcomesOf(Append(l, Attempt(name))) = Append(OutcomesOf(l), "open")
<1> DEFINE a == Attempt(name)
           m == Append(l, a)
<1>1. a \in AttemptRow /\ a.outcome = "open" /\ "open" \in Outcomes /\ Len(l) \in Nat
  BY DEF Attempt, AttemptRow, Outcomes
<1> HIDE DEF a
<1>2. /\ m \in Seq(AttemptRow) /\ Len(m) = Len(l) + 1
      /\ \A k \in 1..Len(l) : m[k] = l[k]
      /\ m[Len(l) + 1] = a
  BY <1>1, AppendProperties
<1> HIDE DEF m
<1> DEFINE u == OutcomesOf(m)
           v == Append(OutcomesOf(l), "open")
<1>3. /\ u \in Seq(Outcomes) /\ Len(u) = Len(l) + 1
      /\ \A k \in 1..Len(m) : u[k] = m[k].outcome
  BY <1>2, LogSeq
<1>4. /\ OutcomesOf(l) \in Seq(Outcomes) /\ Len(OutcomesOf(l)) = Len(l)
      /\ \A k \in 1..Len(l) : OutcomesOf(l)[k] = l[k].outcome
  BY LogSeq
<1>5. /\ v \in Seq(Outcomes) /\ Len(v) = Len(l) + 1
      /\ \A k \in 1..Len(l) : v[k] = l[k].outcome
      /\ v[Len(l) + 1] = "open"
  BY <1>1, <1>4, AppendProperties
<1> HIDE DEF u, v
<1>6. \A k \in 1..Len(u) : u[k] = v[k]
  BY <1>1, <1>2, <1>3, <1>5
<1>7. u = v
  BY <1>3, <1>5, <1>6, SeqEqual
<1> QED
  BY <1>7 DEF u, v, m, a

\* _close_attempt ends the delivery that is under way: the open attempt is the last one.
LEMMA LogClose ==
    ASSUME NEW r, NEW l, Good(r, l), r.status = "in_progress", NEW o \in Outcomes
    PROVE  OutcomesOf(Close(l, r.token, o)) = Promise!End(OutcomesOf(l), o)
<1> DEFINE n == Len(l)
           m == Close(l, r.token, o)
           u == OutcomesOf(m)
           v == Promise!End(OutcomesOf(l), o)
<1>1. /\ l \in Seq(AttemptRow) /\ n \in Nat /\ n > 0 /\ r.token = n
      /\ l[n].outcome = "open"
  BY DEF Good, Coherent
<1>2. /\ m \in Seq(AttemptRow) /\ Len(m) = n
      /\ \A k \in 1..n : m[k] = IF k = n THEN [worker |-> l[n].worker, outcome |-> o]
                                         ELSE l[k]
  BY <1>1, CloseLemma
<1> HIDE DEF m
<1>3. /\ u \in Seq(Outcomes) /\ Len(u) = n
      /\ \A k \in 1..n : u[k] = IF k = n THEN o ELSE l[k].outcome
  BY <1>2, LogSeq
<1>4. /\ OutcomesOf(l) \in Seq(Outcomes) /\ Len(OutcomesOf(l)) = n
      /\ \A k \in 1..n : OutcomesOf(l)[k] = l[k].outcome
  BY <1>1, LogSeq
<1> DEFINE q == OutcomesOf(l)
<1>5. q # <<>> /\ q[Len(q)] = "open"
  BY <1>1, <1>4, EmptySeq
<1>6. v = [q EXCEPT ![n] = o]
  BY <1>4, <1>5 DEF Promise!End
<1> HIDE DEF q, v
<1>7. /\ v \in Seq(Outcomes) /\ Len(v) = n
      /\ \A k \in 1..n : v[k] = IF k = n THEN o ELSE q[k]
  BY <1>1, <1>4, <1>6, ExceptSeq DEF q
<1> HIDE DEF u
<1>8. u = v
  BY <1>3, <1>4, <1>7, SeqEqual DEF q
<1> QED
  BY <1>8 DEF u, v, m

\* Nothing is under way on an item that is not in progress, so ending it changes nothing.
LEMMA LogRests ==
    ASSUME NEW r, NEW l, Good(r, l), r.status # "in_progress", NEW o
    PROVE  Promise!End(OutcomesOf(l), o) = OutcomesOf(l)
<1>1. /\ l \in Seq(AttemptRow) /\ Len(l) \in Nat
      /\ \A k \in 1..Len(l) : l[k].outcome # "open"
  BY DEF Good, Coherent
<1>2. /\ OutcomesOf(l) \in Seq(Outcomes) /\ Len(OutcomesOf(l)) = Len(l)
      /\ \A k \in 1..Len(l) : OutcomesOf(l)[k] = l[k].outcome
  BY <1>1, LogSeq
<1>3. OutcomesOf(l) # <<>> => Len(l) \in 1..Len(l)
  BY <1>1, <1>2, EmptySeq
<1> QED
  BY <1>1, <1>2, <1>3 DEF Promise!End

\* An override ends whatever is under way.
LEMMA LogOverridden ==
    ASSUME NEW r, NEW l, Good(r, l)
    PROVE  OutcomesOf(OverrideClose(r, l)) = Promise!End(OutcomesOf(l), "admin_override")
<1>1. CASE r.status = "in_progress"
  <2>1. r.token # NoToken /\ "admin_override" \in Outcomes
    BY <1>1 DEF Good, Coherent, NoToken, Outcomes
  <2> QED
    BY <1>1, <2>1, LogClose DEF OverrideClose
<1>2. CASE r.status # "in_progress"
  <2>1. OverrideClose(r, l) = l
    BY <1>2 DEF Good, Coherent, OverrideClose
  <2> QED
    BY <1>2, <2>1, LogRests
<1> QED
  BY <1>1, <1>2

-----------------------------------------------------------------------------
(* Steps of the view                                                         *)

\* A step that leaves statuses, retries, ledgers and quarantines alone is no step of
\* the promise.
LEMMA SameView ==
    ASSUME \A i \in Items : /\ row'[i].status = row[i].status
                            /\ row'[i].retries = row[i].retries,
           UNCHANGED <<ledger, poison>>
    PROVE  UNCHANGED Abs
BY DEF Abs, Promised

\* A step that replaces what is stored of one item replaces its view.
LEMMA OneView ==
    ASSUME QueueInv, NEW i \in Items, NEW r, NEW l, NEW p,
           row' = [row EXCEPT ![i] = r], ledger' = [ledger EXCEPT ![i] = l],
           poison' = [poison EXCEPT ![i] = p]
    PROVE  Abs' = [Abs EXCEPT ![i] = View(r, l, p)]
<1>1. /\ row \in [Items -> Row] /\ ledger \in [Items -> Seq(AttemptRow)]
      /\ poison \in [Items -> Nat]
  BY DEF QueueInv, TypeOK
<1>2. \A j \in Items : Abs'[j] = IF j = i THEN View(r, l, p) ELSE Abs[j]
  BY <1>1 DEF Abs, Promised, View, OutcomesOf
<1> QED
  BY <1>2 DEF Abs

\* A step that rewrites the row and the ledger of one item shows as a step of its view.
LEMMA RewrittenView ==
    ASSUME QueueInv, NEW i \in Items, NEW r, NEW l,
           row' = [row EXCEPT ![i] = r], ledger' = [ledger EXCEPT ![i] = l], poison' = poison
    PROVE  Abs' = [Abs EXCEPT ![i] = View(r, l, poison[i])]
<1> DEFINE p == poison[i]
<1>1. poison' = [poison EXCEPT ![i] = p]
  BY DEF QueueInv, TypeOK
<1> HIDE DEF p
<1>2. Abs' = [Abs EXCEPT ![i] = View(r, l, p)]
  BY <1>1, OneView
<1> QED
  BY <1>2 DEF p

\* What the promise sees of one item.
LEMMA ViewOf ==
    ASSUME NEW i \in Items
    PROVE  /\ Abs[i] = View(row[i], ledger[i], poison[i])
           /\ Abs[i].status = row[i].status
           /\ Abs[i].retries = row[i].retries
           /\ Abs[i].log = OutcomesOf(ledger[i])
           /\ Abs[i].quarantines = poison[i]
BY DEF Abs, Promised, View, OutcomesOf

\* A turn of an item shows in its view as its new status and log.
LEMMA ViewTurned ==
    ASSUME NEW i \in Items, NEW r, NEW l, r.retries = row[i].retries
    PROVE  View(r, l, poison[i]) = Promise!Turn(Abs[i], r.status, OutcomesOf(l))
BY ViewOf DEF View, Promise!Turn

\* Spending a retry, by failure, expiry or override, is what Failed makes of the view.
LEMMA ViewSpent ==
    ASSUME NEW i \in Items, NEW retry \in BOOLEAN, NEW r, NEW l, NEW o,
           r.status = IF retry /\ MayRetry(row[i].retries + 1) THEN "pending" ELSE "failed",
           r.retries = row[i].retries + 1,
           OutcomesOf(l) = Promise!End(OutcomesOf(ledger[i]), o)
    PROVE  View(r, l, poison[i]) = Promise!Spend(Abs[i], retry, o)
BY ViewOf DEF View, Promise!Spend, MayRetry

-----------------------------------------------------------------------------
(* Each step of the queue is a step of the promise                           *)

\* Enqueuing puts in an item that was never there: no delivery, retry or quarantine.
LEMMA InsertStep ==
    ASSUME QueueInv, PromiseInv, NEW i \in Items, NEW delay \in AddDelays, Insert(i, delay)
    PROVE  Promise!Put(i)
<1> DEFINE r == [EmptyRow EXCEPT !.status = "pending",
                                 !.due = IF delay = 0 THEN NoTime ELSE clock + delay]
<1>1. /\ row[i].status = "absent" /\ row' = [row EXCEPT ![i] = r]
      /\ UNCHANGED <<ledger, poison>>
  BY DEF Insert
<1>2. r.status = "pending" /\ r.retries = 0
  BY DEF EmptyRow
<1> HIDE DEF r
<1>3. /\ row[i].retries = 0 /\ Len(ledger[i]) = 0 /\ ledger[i] \in Seq(AttemptRow)
      /\ poison[i] = 0
  BY <1>1, InvFacts DEF Good, Budget, PromiseInv, KeptAside
<1>4. OutcomesOf(ledger[i]) = <<>>
  BY <1>3, LogSeq, EmptySeq
<1>5. Abs' = [Abs EXCEPT ![i] = View(r, ledger[i], poison[i])]
  <2> DEFINE l == ledger[i]
             p == poison[i]
  <2>1. ledger' = [ledger EXCEPT ![i] = l] /\ poison' = [poison EXCEPT ![i] = p]
    BY <1>1 DEF QueueInv, TypeOK
  <2> HIDE DEF l, p
  <2>2. Abs' = [Abs EXCEPT ![i] = View(r, l, p)]
    BY <1>1, <2>1, OneView
  <2> QED
    BY <2>2 DEF l, p
<1>6. Abs[i] = Promise!Absent
  BY <1>1, <1>3, <1>4, ViewOf DEF View, Promise!Absent
<1>7. View(r, ledger[i], poison[i]) = Promise!Turn(Abs[i], "pending", <<>>)
  BY <1>2, <1>3, <1>4, ViewTurned
<1> QED
  BY <1>5, <1>6, <1>7 DEF Promise!Put, Abs

\* A claim that goes through delivers a decodable item that waits.
LEMMA ClaimStep ==
    ASSUME QueueInv, PromiseInv, NEW w \in Workers, Claim(w)
    PROVE  Promise!Deliver(worker[w].item) \/ UNCHANGED Abs
<1> DEFINE i == worker[w].item
<1>1. i \in Items /\ i \notin PoisonItems
  BY InvFacts DEF Claim, At, Bound, PromiseInv, Aware
<1>2. CASE StillSelected(i, worker[w].due, worker[w].now)
  <2> DEFINE r == [row[i] EXCEPT !.status = "in_progress", !.claimedBy = WorkerName[w],
                                 !.claimedAt = worker[w].now, !.token = Len(ledger[i]) + 1,
                                 !.due = NoTime]
             l == Append(ledger[i], Attempt(WorkerName[w]))
  <2>1. row' = [row EXCEPT ![i] = r] /\ ledger' = [ledger EXCEPT ![i] = l] /\ poison' = poison
    BY <1>2 DEF Claim
  <2>2. /\ row[i].status = "pending" /\ row[i] \in Row /\ ledger[i] \in Seq(AttemptRow)
        /\ WorkerName[w] \in Names
    BY <1>1, <1>2, InvFacts DEF StillSelected
  <2>3. r.status = "in_progress" /\ r.retries = row[i].retries
    BY <2>2 DEF Row
  <2>4. OutcomesOf(l) = Append(Abs[i].log, "open")
    BY <1>1, <2>2, LogAppend, ViewOf
  <2> HIDE DEF r, l, i
  <2>5. Abs' = [Abs EXCEPT ![i] = View(r, l, poison[i])]
    BY <1>1, <2>1, RewrittenView
  <2>6. View(r, l, poison[i])
          = Promise!Turn(Abs[i], "in_progress", Append(Abs[i].log, "open"))
    <3> DEFINE log == Append(Abs[i].log, "open")
    <3>1. OutcomesOf(l) = log
      BY <2>4
    <3> HIDE DEF log
    <3>2. View(r, l, poison[i]) = Promise!Turn(Abs[i], "in_progress", log)
      BY <1>1, <2>3, <3>1, ViewTurned
    <3> QED
      BY <3>2 DEF log
  <2>7. Abs[i].status = "pending"
    BY <1>1, <2>2, ViewOf
  <2>8. Promise!Deliver(i)
    BY <1>1, <2>5, <2>6, <2>7 DEF Promise!Deliver, Abs
  <2> QED
    BY <2>8 DEF i
<1>3. CASE ~StillSelected(i, worker[w].due, worker[w].now)
  BY <1>3, SameView DEF Claim
<1> QED
  BY <1>2, <1>3

\* complete() under a live claim is the success of the delivery that is under way.
LEMMA CompleteStep ==
    ASSUME QueueInv, NEW w \in Workers, Complete(w)
    PROVE  Promise!Succeed(worker[w].item) \/ UNCHANGED Abs
<1> DEFINE i == worker[w].item
<1>1. worker[w].pc \in Holding
  BY DEF Complete, At, Holding
<1>2. CASE Owns(w)
  <2> DEFINE r == Succeeded(row[i])
             l == Close(ledger[i], row[i].token, "successful")
  <2>1. /\ i \in Items /\ Good(row[i], ledger[i]) /\ row[i].status = "in_progress"
        /\ row[i].token = worker[w].token /\ row[i] \in Row
    BY <1>1, <1>2, OwnerFacts
  <2>2. row' = [row EXCEPT ![i] = r] /\ ledger' = [ledger EXCEPT ![i] = l] /\ poison' = poison
    BY <1>2, <2>1 DEF Complete
  <2>3. r.status = "successful" /\ r.retries = row[i].retries
    BY <2>1 DEF Succeeded, Row
  <2>4. OutcomesOf(l) = Promise!End(OutcomesOf(ledger[i]), "successful")
    <3>1. "successful" \in Outcomes
      BY DEF Outcomes
    <3> HIDE DEF i
    <3> QED
      BY <2>1, <3>1, LogClose
  <2> HIDE DEF r, l, i
  <2>5. Abs' = [Abs EXCEPT ![i] = View(r, l, poison[i])]
    BY <2>1, <2>2, RewrittenView
  <2>6. View(r, l, poison[i])
          = Promise!Turn(Abs[i], "successful", Promise!End(Abs[i].log, "successful"))
    BY <2>1, <2>3, <2>4, ViewTurned, ViewOf
  <2>7. Abs[i].status = "in_progress"
    BY <2>1, ViewOf
  <2>8. Promise!Succeed(i)
    BY <2>1, <2>5, <2>6, <2>7 DEF Promise!Succeed, Abs
  <2> QED
    BY <2>8 DEF i
<1>3. CASE ~Owns(w)
  BY <1>3, SameView DEF Complete
<1> QED
  BY <1>2, <1>3

\* fail() under a live claim gives the item back, or fails it, at the price of one retry:
\* the retry count it read without a lock is still the row's.
LEMMA FailWriteStep ==
    ASSUME QueueInv, NEW w \in Workers, NEW retry \in BOOLEAN, FailWrite(w, retry)
    PROVE  Promise!GiveBack(worker[w].item, retry) \/ UNCHANGED Abs
<1> DEFINE i == worker[w].item
           n == worker[w].retries + 1
           o == IF retry /\ MayRetry(n) THEN "retry_scheduled" ELSE "failed"
<1>1. worker[w].pc = "failing" /\ worker[w].pc \in Holding
  BY DEF FailWrite, At, Holding
<1>2. CASE Owns(w)
  <2> DEFINE r == Failed(row[i], n, retry, worker[w].now)
             l == Close(ledger[i], row[i].token, o)
  <2>1. /\ i \in Items /\ Good(row[i], ledger[i]) /\ row[i].status = "in_progress"
        /\ row[i].token = worker[w].token /\ row[i] \in Row /\ worker[w].now \in Nat
        /\ row[i].retries \in Nat
    BY <1>1, <1>2, OwnerFacts DEF Local, Row
  <2>2. n = row[i].retries + 1 /\ n \in Nat \ {0}
    BY <1>1, <1>2, <2>1 DEF QueueInv, AllRemember, Remembers
  <2>3. row' = [row EXCEPT ![i] = r] /\ ledger' = [ledger EXCEPT ![i] = l] /\ poison' = poison
    BY <1>2, <2>1 DEF FailWrite
  <2> HIDE DEF n
  <2>4. /\ r.status = IF retry /\ MayRetry(n) THEN "pending" ELSE "failed"
        /\ r.retries = n
    <3> HIDE DEF i
    <3> QED
      BY <2>1, <2>2, FailedType
  <2>5. o \in Outcomes /\ o = IF retry /\ row[i].retries + 1 <= MaxRetries
                              THEN "retry_scheduled" ELSE "failed"
    BY <2>2 DEF Outcomes, MayRetry
  <2> HIDE DEF o
  <2>6. OutcomesOf(l) = Promise!End(OutcomesOf(ledger[i]), o)
    <3> HIDE DEF i
    <3> QED
      BY <2>1, <2>5, LogClose
  <2> HIDE DEF r, l, i
  <2>7. Abs' = [Abs EXCEPT ![i] = View(r, l, poison[i])]
    BY <2>1, <2>3, RewrittenView
  <2>8. View(r, l, poison[i]) = Promise!Spend(Abs[i], retry, o)
    BY <2>1, <2>2, <2>4, <2>6, ViewSpent
  <2>9. Abs[i].status = "in_progress" /\ Abs[i].retries = row[i].retries
    BY <2>1, ViewOf
  <2>10. Promise!GiveBack(i, retry)
    BY <2>1, <2>5, <2>7, <2>8, <2>9 DEF Promise!GiveBack, Abs
  <2> QED
    BY <2>10 DEF i
<1>3. CASE ~Owns(w)
  BY <1>3, SameView DEF FailWrite
<1> QED
  BY <1>2, <1>3

\* One reclaim ends the deliveries of every item whose lease is stale, at one retry each.
LEMMA ReclaimStep ==
    ASSUME QueueInv, NEW w \in Workers, Reclaim(w)
    PROVE  Promise!Expire({i \in Items : Stale(row[i], worker[w].now)})
<1> DEFINE now == worker[w].now
           S == {i \in Items : Stale(row[i], now)}
<1>1. now \in Nat
  BY InvFacts DEF Local
<1>2. /\ row' = [i \in Items |->
                   IF Stale(row[i], now)
                   THEN Failed(row[i], row[i].retries + 1, TRUE, now) ELSE row[i]]
      /\ ledger' = [i \in Items |->
                      IF Stale(row[i], now) /\ row[i].token # NoToken
                      THEN Close(ledger[i], row[i].token, "lease_expired") ELSE ledger[i]]
      /\ poison' = poison
  BY DEF Reclaim
<1> HIDE DEF now
<1>3. ASSUME NEW i \in Items
      PROVE  Abs'[i] = IF i \in S THEN Promise!Spend(Abs[i], TRUE, "lease_expired") ELSE Abs[i]
  <2>1. /\ Good(row[i], ledger[i]) /\ row[i] \in Row /\ row[i].retries \in Nat
        /\ Abs'[i] = View(row'[i], ledger'[i], poison[i])
    BY <1>2, InvFacts DEF Abs, Promised, View, OutcomesOf
  <2>2. CASE Stale(row[i], now)
    <3> DEFINE r == Failed(row[i], row[i].retries + 1, TRUE, now)
               l == Close(ledger[i], row[i].token, "lease_expired")
    <3>1. row[i].status = "in_progress" /\ row[i].token # NoToken
      BY <2>1, <2>2 DEF Stale, Good, Coherent, NoToken
    <3>2. row'[i] = r /\ ledger'[i] = l
      BY <1>2, <2>2, <3>1
    <3>3. /\ r.status = IF TRUE /\ MayRetry(row[i].retries + 1) THEN "pending" ELSE "failed"
          /\ r.retries = row[i].retries + 1
      <4> DEFINE n == row[i].retries + 1
      <4>1. n \in Nat \ {0}
        BY <2>1
      <4> HIDE DEF n
      <4>2. /\ Failed(row[i], n, TRUE, now).retries = n
            /\ Failed(row[i], n, TRUE, now).status
                 = IF TRUE /\ MayRetry(n) THEN "pending" ELSE "failed"
        BY <1>1, <2>1, <4>1, FailedType
      <4> QED
        BY <4>2 DEF n
    <3>4. OutcomesOf(l) = Promise!End(OutcomesOf(ledger[i]), "lease_expired")
      <4>1. "lease_expired" \in Outcomes
        BY DEF Outcomes
      <4> QED
        BY <2>1, <3>1, <4>1, LogClose
    <3> HIDE DEF r, l
    <3>5. View(r, l, poison[i]) = Promise!Spend(Abs[i], TRUE, "lease_expired")
      <4> DEFINE retry == TRUE
      <4>1. /\ retry \in BOOLEAN
            /\ r.status = IF retry /\ MayRetry(row[i].retries + 1) THEN "pending" ELSE "failed"
        BY <3>3
      <4> HIDE DEF retry
      <4>2. View(r, l, poison[i]) = Promise!Spend(Abs[i], retry, "lease_expired")
        BY <3>3, <3>4, <4>1, ViewSpent
      <4> QED
        BY <4>2 DEF retry
    <3> QED
      BY <2>1, <2>2, <3>2, <3>5
  <2>3. CASE ~Stale(row[i], now)
    BY <1>2, <2>1, <2>3, ViewOf
  <2> QED
    BY <2>2, <2>3
<1>4. \A i \in S : Abs[i].status = "in_progress"
  BY ViewOf DEF Stale
<1>5. Abs' = [i \in Items |-> IF i \in S THEN Promise!Spend(Abs[i], TRUE, "lease_expired")
                                         ELSE Abs[i]]
  BY <1>3 DEF Abs
<1> HIDE DEF S
<1>6. Promise!Expire(S)
  BY <1>4, <1>5 DEF Promise!Expire, Abs
<1> QED
  BY <1>6 DEF S, now

\* An undecodable item that waits is set aside; it was never delivered.
LEMMA QuarantineStep ==
    ASSUME QueueInv, PromiseInv, NEW w \in Workers, Quarantine(w)
    PROVE  Promise!Quarantine(worker[w].item) \/ UNCHANGED Abs
<1> DEFINE i == worker[w].item
<1>1. i \in Items /\ i \in PoisonItems
  BY InvFacts DEF Quarantine, At, Bound, PromiseInv, Aware
<1>2. CASE StillSelected(i, worker[w].due, clock)
  <2> DEFINE r == [row[i] EXCEPT !.status = "failed", !.claimedBy = NoWorker,
                                 !.claimedAt = NoTime, !.token = NoToken, !.due = NoTime]
             l == ledger[i]
             p == poison[i] + 1
  <2>1. row' = [row EXCEPT ![i] = r] /\ poison' = [poison EXCEPT ![i] = p]
    BY <1>2 DEF Quarantine
  <2>2. row[i].status = "pending" /\ row[i] \in Row
    BY <1>1, <1>2, InvFacts DEF StillSelected
  <2>3. ledger' = [ledger EXCEPT ![i] = l]
    BY DEF Quarantine, QueueInv, TypeOK
  <2>4. r.status = "failed" /\ r.retries = row[i].retries
    BY <2>2 DEF Row
  <2> HIDE DEF r, l, p, i
  <2>5. Abs' = [Abs EXCEPT ![i] = View(r, l, p)]
    BY <1>1, <2>1, <2>3, OneView
  <2>6. View(r, l, p) = Promise!SetAside(Abs[i])
    BY <1>1, <2>4, ViewOf DEF View, Promise!SetAside, l, p
  <2>7. Abs[i].status = "pending"
    BY <1>1, <2>2, ViewOf
  <2>8. Promise!Quarantine(i)
    BY <1>1, <2>5, <2>6, <2>7 DEF Promise!Quarantine, Abs
  <2> QED
    BY <2>8 DEF i
<1>3. CASE ~StillSelected(i, worker[w].due, clock)
  BY <1>3, SameView DEF Quarantine
<1> QED
  BY <1>2, <1>3

\* Binding a transaction and renewing a lease show in no view.
LEMMA BindStep ==
    ASSUME QueueInv, NEW w \in Workers, BindTransaction(w) \/ RenewLease(w)
    PROVE  UNCHANGED Abs
<1> DEFINE i == worker[w].item
<1>1. row \in [Items -> Row]
  BY DEF QueueInv, TypeOK
<1>2. \A j \in Items : row'[j].status = row[j].status /\ row'[j].retries = row[j].retries
  <2>1. CASE row' = [row EXCEPT ![i].tx = worker[w].token]
    BY <1>1, <2>1 DEF Row
  <2>2. CASE row' = [row EXCEPT ![i].claimedAt = worker[w].now]
    BY <1>1, <2>2 DEF Row
  <2>3. CASE row' = row
    BY <2>3
  <2> QED
    BY <2>1, <2>2, <2>3 DEF BindTransaction, RenewLease
<1>3. UNCHANGED <<ledger, poison>>
  BY DEF BindTransaction, RenewLease
<1> QED
  BY <1>2, <1>3, SameView

\* force_complete() ends what is under way and makes any item successful.
LEMMA ForceCompleteStep ==
    ASSUME QueueInv, NEW i \in Items, ForceComplete(i)
    PROVE  Promise!ForceComplete(i)
<1> DEFINE r == [Succeeded(row[i]) EXCEPT !.claimedBy = NoWorker]
           l == OverrideClose(row[i], ledger[i])
<1>1. /\ Good(row[i], ledger[i]) /\ row[i] \in Row /\ row[i].status # "absent"
  BY InvFacts DEF ForceComplete, Override
<1>2. row' = [row EXCEPT ![i] = r] /\ ledger' = [ledger EXCEPT ![i] = l] /\ poison' = poison
  BY DEF ForceComplete, Override, OverrideClose
<1>3. r.status = "successful" /\ r.retries = row[i].retries
  BY <1>1 DEF Succeeded, Row
<1>4. OutcomesOf(l) = Promise!End(Abs[i].log, "admin_override")
  BY <1>1, LogOverridden, ViewOf
<1> HIDE DEF r, l
<1>5. Abs' = [Abs EXCEPT ![i] = View(r, l, poison[i])]
  BY <1>2, RewrittenView
<1>6. View(r, l, poison[i])
        = Promise!Turn(Abs[i], "successful", Promise!End(Abs[i].log, "admin_override"))
  <2> DEFINE log == Promise!End(Abs[i].log, "admin_override")
  <2>1. OutcomesOf(l) = log
    BY <1>4
  <2> HIDE DEF log
  <2>2. View(r, l, poison[i]) = Promise!Turn(Abs[i], "successful", log)
    BY <1>3, <2>1, ViewTurned
  <2> QED
    BY <2>2 DEF log
<1>7. Abs[i].status # "absent"
  BY <1>1, ViewOf
<1> QED
  BY <1>5, <1>6, <1>7 DEF Promise!ForceComplete, Abs

\* force_fail() ends what is under way at the price of one retry.
LEMMA ForceFailStep ==
    ASSUME QueueInv, NEW i \in Items, NEW retry \in BOOLEAN, ForceFail(i, retry)
    PROVE  Promise!ForceFail(i, retry)
<1> DEFINE n == row[i].retries + 1
           f == Failed(row[i], n, retry, clock)
           r == [f EXCEPT !.claimedBy = NoWorker]
           l == OverrideClose(row[i], ledger[i])
<1>1. /\ Good(row[i], ledger[i]) /\ row[i] \in Row /\ row[i].status # "absent"
      /\ n \in Nat \ {0} /\ clock \in Nat
  BY InvFacts DEF ForceFail, Override, QueueInv, TypeOK
<1>2. row' = [row EXCEPT ![i] = r] /\ ledger' = [ledger EXCEPT ![i] = l] /\ poison' = poison
  BY DEF ForceFail, Override, OverrideClose
<1> HIDE DEF n
<1>3. /\ f \in Row /\ f.retries = n
      /\ f.status = IF retry /\ MayRetry(n) THEN "pending" ELSE "failed"
  BY <1>1, FailedType
<1> HIDE DEF f
<1>4. r.status = f.status /\ r.retries = f.retries
  BY <1>3 DEF Row
<1>5. OutcomesOf(l) = Promise!End(OutcomesOf(ledger[i]), "admin_override")
  BY <1>1, LogOverridden
<1> HIDE DEF r, l
<1>6. Abs' = [Abs EXCEPT ![i] = View(r, l, poison[i])]
  BY <1>2, RewrittenView
<1>7. View(r, l, poison[i]) = Promise!Spend(Abs[i], retry, "admin_override")
  BY <1>3, <1>4, <1>5, ViewSpent DEF n
<1>8. Abs[i].status # "absent"
  BY <1>1, ViewOf
<1> QED
  BY <1>6, <1>7, <1>8 DEF Promise!ForceFail, Abs

-----------------------------------------------------------------------------
(* The added invariant                                                       *)

\* Nothing has happened yet.
LEMMA PromiseInvInit == Init => PromiseInv
<1> SUFFICES ASSUME Init PROVE PromiseInv
  OBVIOUS
<1>1. \A w \in Workers : Aware(w)
  BY DEF Init, Idle, Aware
<1>2. \A i \in Items : KeptAside(i)
  BY DEF Init, EmptyRow, KeptAside
<1> QED
  BY <1>1, <1>2 DEF PromiseInv

\* A step that moves one worker to a state in which it has selected nothing keeps all
\* workers aware.
LEMMA AwareMoves ==
    ASSUME QueueInv, PromiseInv, NEW w \in Workers, NEW x,
           worker' = [worker EXCEPT ![w] = x],
           x.pc \in {"selected", "claiming"} => x.item \notin PoisonItems,
           x.pc = "quarantining" => x.item \in PoisonItems
    PROVE  \A v \in Workers : Aware(v)'
<1>1. worker \in [Workers -> Local]
  BY DEF QueueInv, TypeOK
<1>2. \A v \in Workers : worker'[v] = IF v = w THEN x ELSE worker[v]
  BY <1>1
<1> QED
  BY <1>2 DEF PromiseInv, Aware

\* Every step keeps the workers aware: an item's payload does not change.
LEMMA AwareStep ==
    ASSUME QueueInv, PromiseInv, Next
    PROVE  \A v \in Workers : Aware(v)'
<1>1. CASE UNCHANGED worker
  BY <1>1 DEF PromiseInv, Aware
<1>2. ASSUME NEW w \in Workers, Select(w) PROVE \A v \in Workers : Aware(v)'
  <2>1. PICK i \in Eligible :
          worker' = [worker EXCEPT ![w] =
              [@ EXCEPT !.item = i, !.due = row[i].due,
                        !.pc = IF i \in PoisonItems THEN "quarantining" ELSE "selected"]]
    BY <1>2 DEF Select
  <2> DEFINE x == [worker[w] EXCEPT !.item = i, !.due = row[i].due,
                                    !.pc = IF i \in PoisonItems THEN "quarantining"
                                                                ELSE "selected"]
  <2>2. worker' = [worker EXCEPT ![w] = x]
    BY <2>1
  <2>3. x.item = i /\ x.pc = IF i \in PoisonItems THEN "quarantining" ELSE "selected"
    BY InvFacts DEF Local
  <2> HIDE DEF x
  <2> QED
    BY <2>2, <2>3, AwareMoves
<1>3. ASSUME NEW w \in Workers, Stamp(w) PROVE \A v \in Workers : Aware(v)'
  <2> DEFINE x == [worker[w] EXCEPT !.pc = "claiming", !.now = clock]
  <2>1. worker' = [worker EXCEPT ![w] = x] /\ worker[w].pc = "selected"
    BY <1>3 DEF Stamp, At
  <2>2. x.pc = "claiming" /\ x.item = worker[w].item
    BY InvFacts DEF Local
  <2> HIDE DEF x
  <2> QED
    BY <2>1, <2>2, AwareMoves DEF PromiseInv, Aware
<1>4. ASSUME NEW w \in Workers, NEW x, worker' = [worker EXCEPT ![w] = x],
             x.pc \in {"idle", "polling", "selecting", "working", "renewing", "failing"}
      PROVE  \A v \in Workers : Aware(v)'
  BY <1>4, AwareMoves
<1>5. ASSUME NEW w \in Workers, Stop(w) PROVE \A v \in Workers : Aware(v)'
  BY <1>4, <1>5, IdleType DEF Stop
<1>6. ASSUME NEW w \in Workers, Poll(w) PROVE \A v \in Workers : Aware(v)'
  <2> DEFINE x == [worker[w] EXCEPT !.pc = "polling", !.now = clock]
  <2>1. worker' = [worker EXCEPT ![w] = x] /\ x.pc = "polling"
    BY <1>6, InvFacts DEF Poll, Local
  <2> HIDE DEF x
  <2> QED
    BY <1>4, <2>1
<1>7. ASSUME NEW w \in Workers, Reclaim(w) \/ Quarantine(w) \/ Claim(w)
      PROVE  \A v \in Workers : Aware(v)'
  <2>1. CASE worker' = [worker EXCEPT ![w] = [Idle EXCEPT !.pc = "selecting"]]
    <3> DEFINE x == [Idle EXCEPT !.pc = "selecting"]
    <3>1. x.pc = "selecting"
      BY DEF Idle
    <3>2. worker' = [worker EXCEPT ![w] = x]
      BY <2>1
    <3> HIDE DEF x
    <3> QED
      BY <1>4, <3>1, <3>2
  <2>2. CASE worker' = [worker EXCEPT ![w] = [Idle EXCEPT !.pc = "working",
                          !.item = worker[w].item, !.token = Len(ledger[worker[w].item]) + 1]]
    <3> DEFINE x == [Idle EXCEPT !.pc = "working", !.item = worker[w].item,
                                 !.token = Len(ledger[worker[w].item]) + 1]
    <3>1. x.pc = "working"
      BY DEF Idle
    <3>2. worker' = [worker EXCEPT ![w] = x]
      BY <2>2
    <3> HIDE DEF x
    <3> QED
      BY <1>4, <3>1, <3>2
  <2> QED
    BY <1>7, <2>1, <2>2 DEF Reclaim, Quarantine, Claim
<1>8. ASSUME NEW w \in Workers, RenewStart(w) \/ RenewLease(w) \/ FailRead(w)
      PROVE  \A v \in Workers : Aware(v)'
  <2> DEFINE x == [worker[w] EXCEPT !.pc = "renewing", !.now = clock]
             y == [worker[w] EXCEPT !.pc = "working", !.now = NoTime]
             z == [worker[w] EXCEPT !.pc = "failing",
                                    !.retries = row[worker[w].item].retries, !.now = clock]
  <2>1. x.pc = "renewing" /\ y.pc = "working" /\ z.pc = "failing"
    BY InvFacts DEF Local
  <2>2. \/ worker' = [worker EXCEPT ![w] = x]
        \/ worker' = [worker EXCEPT ![w] = y]
        \/ worker' = [worker EXCEPT ![w] = z]
        \/ Stop(w)
    BY <1>8 DEF RenewStart, RenewLease, FailRead
  <2> HIDE DEF x, y, z
  <2> QED
    BY <1>4, <1>5, <2>1, <2>2
<1>9. ASSUME NEW w \in Workers,
             \/ SelectNothing(w) \/ BindTransaction(w) \/ Complete(w)
             \/ Fail(w) \/ Crash(w)
      PROVE  \A v \in Workers : Aware(v)'
  BY <1>1, <1>5, <1>9 DEF SelectNothing, BindTransaction, Complete, Fail, FailWrite, Crash
<1>10. ASSUME Tick \/ \E i \in Items : \/ Add(i) \/ AddOnce(i) \/ ForceComplete(i)
                                       \/ ForceFail(i, TRUE) \/ ForceFail(i, FALSE)
       PROVE  UNCHANGED worker
  BY <1>10 DEF Tick, Add, AddOnce, Insert, ForceComplete, ForceFail, Override
<1> QED
  BY <1>1, <1>2, <1>3, <1>6, <1>7, <1>8, <1>9, <1>10 DEF Next, NextItem, Finish

\* What a step must make of one item to keep it aside.
Aside(i, r, l, p, o) ==
    /\ r.status = "absent" => p = 0
    /\ i \in PoisonItems => /\ r.status # "in_progress"
                            /\ l = <<>>
                            /\ p <= Len(o) + 1
                            /\ r.status \in {"absent", "pending"} => p <= Len(o)

\* The facts about one item the steps below start from.
LEMMA AsideFacts ==
    ASSUME QueueInv, PromiseInv
    PROVE  \A i \in Items : /\ KeptAside(i) /\ poison[i] \in Nat
                            /\ overrides[i] \in Seq(OverrideRow) /\ Len(overrides[i]) \in Nat
BY DEF PromiseInv, QueueInv, TypeOK

\* A step that rewrites one item and keeps it aside keeps all items aside.
LEMMA AsideRewritten ==
    ASSUME QueueInv, PromiseInv, NEW i \in Items, NEW r, NEW l, NEW p, NEW o,
           row' = [row EXCEPT ![i] = r], ledger' = [ledger EXCEPT ![i] = l],
           poison' = [poison EXCEPT ![i] = p], overrides' = [overrides EXCEPT ![i] = o],
           Aside(i, r, l, p, o)
    PROVE  \A j \in Items : KeptAside(j)'
<1>1. /\ row \in [Items -> Row] /\ ledger \in [Items -> Seq(AttemptRow)]
      /\ poison \in [Items -> Nat] /\ overrides \in [Items -> Seq(OverrideRow)]
  BY DEF QueueInv, TypeOK
<1> SUFFICES ASSUME NEW j \in Items PROVE KeptAside(j)'
  OBVIOUS
<1>2. CASE j = i
  <2>1. row'[j] = r /\ ledger'[j] = l /\ poison'[j] = p /\ overrides'[j] = o
    BY <1>1, <1>2
  <2> QED
    BY <1>2, <2>1 DEF Aside, KeptAside
<1>3. CASE j # i
  <2>1. /\ row'[j] = row[j] /\ ledger'[j] = ledger[j]
        /\ poison'[j] = poison[j] /\ overrides'[j] = overrides[j]
    BY <1>1, <1>3
  <2> QED
    BY <2>1, AsideFacts DEF KeptAside
<1> QED
  BY <1>2, <1>3

\* A step that only takes items out of progress, or writes other columns, keeps them aside:
\* no undecodable item is in progress.
LEMMA AsideHeld ==
    ASSUME QueueInv, PromiseInv,
           UNCHANGED <<poison, overrides>>,
           \A i \in Items : \/ row[i].status = "in_progress" /\ row'[i].status # "absent"
                            \/ row'[i].status = row[i].status /\ ledger'[i] = ledger[i]
    PROVE  \A j \in Items : KeptAside(j)'
BY AsideFacts DEF KeptAside

\* Each step keeps undecodable items aside.
LEMMA AsideStep ==
    ASSUME QueueInv, PromiseInv, Next
    PROVE  \A j \in Items : KeptAside(j)'
<1>1. CASE UNCHANGED database
  BY <1>1, AsideFacts DEF database, KeptAside
<1>2. ASSUME NEW i \in Items, Add(i) \/ AddOnce(i) PROVE \A j \in Items : KeptAside(j)'
  <2>1. PICK delay \in AddDelays : Insert(i, delay)
    BY <1>2 DEF Add, AddOnce
  <2> DEFINE r == [EmptyRow EXCEPT !.status = "pending",
                                   !.due = IF delay = 0 THEN NoTime ELSE clock + delay]
             l == ledger[i]
             p == poison[i]
             o == overrides[i]
  <2>2. row' = [row EXCEPT ![i] = r] /\ row[i].status = "absent"
    BY <2>1 DEF Insert
  <2>3. /\ ledger' = [ledger EXCEPT ![i] = l] /\ poison' = [poison EXCEPT ![i] = p]
        /\ overrides' = [overrides EXCEPT ![i] = o]
    BY <2>1 DEF Insert, QueueInv, TypeOK
  <2>4. Aside(i, r, l, p, o)
    BY <2>2, AsideFacts DEF EmptyRow, Aside, KeptAside
  <2> HIDE DEF r, l, p, o
  <2> QED
    BY <2>2, <2>3, <2>4, AsideRewritten
<1>3. ASSUME NEW w \in Workers, Quarantine(w) PROVE \A j \in Items : KeptAside(j)'
  <2> DEFINE i == worker[w].item
             r == [row[i] EXCEPT !.status = "failed", !.claimedBy = NoWorker,
                                 !.claimedAt = NoTime, !.token = NoToken, !.due = NoTime]
             l == ledger[i]
             p == poison[i] + 1
             o == overrides[i]
  <2>1. CASE StillSelected(i, worker[w].due, clock)
    <3>1. row' = [row EXCEPT ![i] = r] /\ poison' = [poison EXCEPT ![i] = p]
      BY <1>3, <2>1 DEF Quarantine
    <3>2. i \in Items /\ row[i].status = "pending" /\ row[i] \in Row
      BY <2>1, <1>3, InvFacts DEF Quarantine, At, Bound, StillSelected
    <3>3. ledger' = [ledger EXCEPT ![i] = l] /\ overrides' = [overrides EXCEPT ![i] = o]
      BY <1>3 DEF Quarantine, QueueInv, TypeOK
    <3>4. r.status = "failed"
      BY <3>2 DEF Row
    <3> HIDE DEF i
    <3>5. i \in PoisonItems => l = <<>> /\ p <= Len(o) + 1
      BY <3>2, AsideFacts DEF KeptAside
    <3> HIDE DEF r, l, p, o
    <3>6. Aside(i, r, l, p, o)
      BY <3>4, <3>5 DEF Aside
    <3> QED
      BY <3>1, <3>2, <3>3, <3>6, AsideRewritten
  <2>2. CASE ~StillSelected(i, worker[w].due, clock)
    BY <1>1, <1>3, <2>2 DEF Quarantine, database
  <2> QED
    BY <2>1, <2>2
<1>4. ASSUME NEW w \in Workers, Claim(w) PROVE \A j \in Items : KeptAside(j)'
  <2> DEFINE i == worker[w].item
             r == [row[i] EXCEPT !.status = "in_progress", !.claimedBy = WorkerName[w],
                                 !.claimedAt = worker[w].now, !.token = Len(ledger[i]) + 1,
                                 !.due = NoTime]
             l == Append(ledger[i], Attempt(WorkerName[w]))
             p == poison[i]
             o == overrides[i]
  <2>1. CASE StillSelected(i, worker[w].due, worker[w].now)
    <3>1. row' = [row EXCEPT ![i] = r] /\ ledger' = [ledger EXCEPT ![i] = l]
      BY <2>1, <1>4 DEF Claim
    <3>2. i \in Items /\ row[i] \in Row /\ i \notin PoisonItems
      BY <1>4, InvFacts DEF Claim, At, Bound, PromiseInv, Aware
    <3>3. poison' = [poison EXCEPT ![i] = p] /\ overrides' = [overrides EXCEPT ![i] = o]
      BY <1>4 DEF Claim, QueueInv, TypeOK
    <3>4. r.status = "in_progress"
      BY <3>2 DEF Row
    <3> HIDE DEF r, l, i
    <3>5. Aside(i, r, l, p, o)
      BY <3>2, <3>4 DEF Aside
    <3> HIDE DEF p, o
    <3> QED
      BY <3>1, <3>2, <3>3, <3>5, AsideRewritten
  <2>2. CASE ~StillSelected(i, worker[w].due, worker[w].now)
    BY <1>1, <1>4, <2>2 DEF Claim, database
  <2> QED
    BY <2>1, <2>2
<1>5. ASSUME NEW w \in Workers, Reclaim(w) PROVE \A j \in Items : KeptAside(j)'
  <2>1. \A i \in Items : \/ row[i].status = "in_progress" /\ row'[i].status # "absent"
                         \/ row'[i].status = row[i].status /\ ledger'[i] = ledger[i]
    <3> TAKE i \in Items
    <3> DEFINE n == row[i].retries + 1
               now == worker[w].now
    <3>1. CASE Stale(row[i], now)
      <4>1. row'[i] = Failed(row[i], n, TRUE, now)
        BY <1>5, <3>1 DEF Reclaim
      <4>2. n \in Nat \ {0} /\ now \in Nat /\ row[i] \in Row
        BY InvFacts DEF Local
      <4>3. Failed(row[i], n, TRUE, now).status # "absent"
        BY <4>2 DEF Failed, Row
      <4> QED
        BY <3>1, <4>1, <4>3 DEF Stale
    <3>2. CASE ~Stale(row[i], now)
      BY <1>5, <3>2 DEF Reclaim
    <3> QED
      BY <3>1, <3>2
  <2>2. UNCHANGED <<poison, overrides>>
    BY <1>5 DEF Reclaim
  <2> QED
    BY <2>1, <2>2, AsideHeld
<1>6. ASSUME NEW w \in Workers, BindTransaction(w) \/ RenewLease(w)
      PROVE  \A j \in Items : KeptAside(j)'
  <2>1. row \in [Items -> Row]
    BY DEF QueueInv, TypeOK
  <2>2. \A j \in Items : row'[j].status = row[j].status
    <3>1. CASE row' = [row EXCEPT ![worker[w].item].tx = worker[w].token]
      BY <2>1, <3>1 DEF Row
    <3>2. CASE row' = [row EXCEPT ![worker[w].item].claimedAt = worker[w].now]
      BY <2>1, <3>2 DEF Row
    <3>3. CASE row' = row
      BY <3>3
    <3> QED
      BY <1>6, <3>1, <3>2, <3>3 DEF BindTransaction, RenewLease
  <2>3. UNCHANGED <<ledger, poison, overrides>>
    BY <1>6 DEF BindTransaction, RenewLease
  <2> QED
    BY <2>2, <2>3, AsideHeld
<1>7. ASSUME NEW w \in Workers, Complete(w) \/ Fail(w) PROVE \A j \in Items : KeptAside(j)'
  <2>1. CASE Owns(w)
    <3> DEFINE i == worker[w].item
    <3>1. worker[w].pc \in Holding
      BY <1>7 DEF Complete, Fail, FailWrite, At, Holding
    <3>2. i \in Items /\ row[i].status = "in_progress" /\ row \in [Items -> Row]
          /\ ledger \in [Items -> Seq(AttemptRow)] /\ row[i] \in Row
      BY <2>1, <3>1, OwnerFacts DEF QueueInv, TypeOK
    <3>3. PICK r, l : /\ row' = [row EXCEPT ![i] = r] /\ ledger' = [ledger EXCEPT ![i] = l]
                      /\ r.status # "absent"
      <4>1. CASE Complete(w)
        <5>1. /\ row' = [row EXCEPT ![i] = Succeeded(row[i])]
              /\ ledger' = [ledger EXCEPT ![i] = Close(ledger[i], worker[w].token, "successful")]
          BY <2>1, <3>2, <4>1 DEF Complete
        <5>2. Succeeded(row[i]).status # "absent"
          BY <3>2 DEF Succeeded, Row
        <5> QED
          BY <5>1, <5>2
      <4>2. ASSUME NEW retry \in BOOLEAN, FailWrite(w, retry)
            PROVE  \E r, l : /\ row' = [row EXCEPT ![i] = r]
                             /\ ledger' = [ledger EXCEPT ![i] = l]
                             /\ r.status # "absent"
        <5> DEFINE n == worker[w].retries + 1
                   o == IF retry /\ MayRetry(n) THEN "retry_scheduled" ELSE "failed"
                   r == Failed(row[i], n, retry, worker[w].now)
        <5>1. /\ row' = [row EXCEPT ![i] = r]
              /\ ledger' = [ledger EXCEPT ![i] = Close(ledger[i], worker[w].token, o)]
          BY <2>1, <3>2, <4>2 DEF FailWrite
        <5>2. r.status # "absent"
          BY <3>2 DEF Failed, Row
        <5> QED
          BY <5>1, <5>2
      <4> QED
        BY <1>7, <4>1, <4>2 DEF Fail
    <3> HIDE DEF i
    <3>4. \A j \in Items : \/ row[j].status = "in_progress" /\ row'[j].status # "absent"
                           \/ row'[j].status = row[j].status /\ ledger'[j] = ledger[j]
      BY <3>2, <3>3
    <3>5. UNCHANGED <<poison, overrides>>
      BY <1>7 DEF Complete, Fail, FailWrite
    <3> QED
      BY <3>4, <3>5, AsideHeld
  <2>2. CASE ~Owns(w)
    BY <1>1, <1>7, <2>2 DEF Complete, Fail, FailWrite, database
  <2> QED
    BY <2>1, <2>2
<1>8. ASSUME NEW i \in Items, NEW action, NEW r, Override(i, action, r),
             r.status \notin {"absent", "in_progress"}
      PROVE  \A j \in Items : KeptAside(j)'
  <2> DEFINE l == OverrideClose(row[i], ledger[i])
             p == poison[i]
             e == [action |-> action, from |-> row[i].status, to |-> r.status]
             o == Append(overrides[i], e)
  <2>1. row' = [row EXCEPT ![i] = r] /\ ledger' = [ledger EXCEPT ![i] = l]
    BY <1>8 DEF Override, OverrideClose
  <2>2. poison' = [poison EXCEPT ![i] = p] /\ overrides' = [overrides EXCEPT ![i] = o]
    BY <1>8 DEF Override, QueueInv, TypeOK
  <2>3. Len(o) = Len(overrides[i]) + 1
    BY AsideFacts
  <2>4. i \in PoisonItems => l = <<>>
    <3>1. Good(row[i], ledger[i])
      BY InvFacts
    <3> QED
      BY <3>1, AsideFacts DEF KeptAside, Good, Coherent, OverrideClose
  <2>5. i \in PoisonItems => p <= Len(overrides[i]) + 1
    BY AsideFacts DEF KeptAside
  <2>6. i \in PoisonItems => p <= Len(o)
    BY <2>3, <2>5
  <2> HIDE DEF l, p, o
  <2>7. Len(o) \in Nat /\ p \in Nat
    BY <2>3, AsideFacts DEF p
  <2>8. Aside(i, r, l, p, o)
    BY <1>8, <2>4, <2>6, <2>7 DEF Aside
  <2> QED
    BY <2>1, <2>2, <2>8, AsideRewritten
<1>9. ASSUME NEW i \in Items, ForceComplete(i) PROVE \A j \in Items : KeptAside(j)'
  <2> DEFINE r == [Succeeded(row[i]) EXCEPT !.claimedBy = NoWorker]
  <2>1. r.status \notin {"absent", "in_progress"}
    BY InvFacts DEF Succeeded, Row
  <2>2. Override(i, "force_complete", r)
    BY <1>9 DEF ForceComplete
  <2> HIDE DEF r
  <2> QED
    BY <1>8, <2>1, <2>2
<1>10. ASSUME NEW i \in Items, NEW retry \in BOOLEAN, ForceFail(i, retry)
       PROVE  \A j \in Items : KeptAside(j)'
  <2> DEFINE f == Failed(row[i], row[i].retries + 1, retry, clock)
             r == [f EXCEPT !.claimedBy = NoWorker]
  <2>1. f \in Row /\ f.status \in {"pending", "failed"}
    <3> DEFINE n == row[i].retries + 1
    <3>1. row[i] \in Row /\ n \in Nat \ {0} /\ clock \in Nat
      BY InvFacts DEF QueueInv, TypeOK
    <3> HIDE DEF n
    <3>2. /\ Failed(row[i], n, retry, clock) \in Row
          /\ Failed(row[i], n, retry, clock).status \in {"pending", "failed"}
      BY <3>1, FailedType
    <3> QED
      BY <3>2 DEF n
  <2>2. Override(i, "force_fail", r)
    BY <1>10 DEF ForceFail
  <2> HIDE DEF f
  <2>3. r.status \notin {"absent", "in_progress"}
    BY <2>1 DEF Row
  <2> HIDE DEF r
  <2> QED
    BY <1>8, <2>2, <2>3
<1>11. ASSUME \/ Tick
              \/ \E w \in Workers : \/ Poll(w) \/ Select(w) \/ SelectNothing(w) \/ Stamp(w)
                                    \/ RenewStart(w) \/ FailRead(w) \/ Crash(w)
       PROVE  UNCHANGED database
  BY <1>11 DEF Tick, Poll, Select, SelectNothing, Stamp, RenewStart, FailRead, Crash
<1> QED
  BY <1>1, <1>2, <1>3, <1>4, <1>5, <1>6, <1>7, <1>9, <1>10, <1>11 DEF Next, NextItem, Finish

-----------------------------------------------------------------------------
(* The theorems                                                              *)

\* Every step keeps the added invariant.
LEMMA PromiseInvStep == QueueInv /\ PromiseInv /\ [Next]_vars => PromiseInv'
<1> SUFFICES ASSUME QueueInv, PromiseInv, [Next]_vars PROVE PromiseInv'
  OBVIOUS
<1>1. CASE Next
  <2>1. (\A w \in Workers : Aware(w)') /\ (\A i \in Items : KeptAside(i)')
    BY <1>1, AwareStep, AsideStep
  <2> QED
    BY <2>1 DEF PromiseInv
<1>2. CASE UNCHANGED vars
  BY <1>2 DEF vars, PromiseInv, Aware, KeptAside
<1> QED
  BY <1>1, <1>2

\* Both invariants hold in every reachable state.
LEMMA BothInvariants == Spec => [](QueueInv /\ PromiseInv)
<1>1. Init => QueueInv /\ PromiseInv
  BY QueueInvInit, PromiseInvInit
<1>2. QueueInv /\ PromiseInv /\ [Next]_vars => (QueueInv /\ PromiseInv)'
  BY QueueInvStep, PromiseInvStep
<1> QED
  BY <1>1, <1>2, PTL DEF Spec

\* Every step of the queue is a step of the promise, or changes no view.
LEMMA StepRefines ==
    ASSUME QueueInv, PromiseInv, [Next]_vars
    PROVE  Promise!Next \/ UNCHANGED Abs
<1>1. CASE UNCHANGED vars
  BY <1>1, SameView DEF vars
<1>2. ASSUME NEW i \in Items, Add(i) \/ AddOnce(i) PROVE Promise!Next
  <2>1. Promise!Put(i)
    BY <1>2, InsertStep DEF Add, AddOnce
  <2> QED
    BY <2>1 DEF Promise!Next
<1>3. ASSUME NEW i \in Items, ForceComplete(i) \/ ForceFail(i, TRUE) \/ ForceFail(i, FALSE)
      PROVE  Promise!Next
  <2>1. Promise!ForceComplete(i) \/ \E retry \in BOOLEAN : Promise!ForceFail(i, retry)
    BY <1>3, ForceCompleteStep, ForceFailStep
  <2> QED
    BY <2>1 DEF Promise!Next
<1>4. ASSUME NEW w \in Workers, Claim(w) \/ Quarantine(w) \/ Complete(w) \/ Fail(w)
      PROVE  Promise!Next \/ UNCHANGED Abs
  <2>1. worker[w].item \in Items
    BY <1>4, InvFacts
       DEF Claim, Quarantine, Complete, Fail, FailWrite, At, Bound
  <2>2. \/ Promise!Deliver(worker[w].item) \/ Promise!Quarantine(worker[w].item)
        \/ Promise!Succeed(worker[w].item)
        \/ \E retry \in BOOLEAN : Promise!GiveBack(worker[w].item, retry)
        \/ UNCHANGED Abs
    BY <1>4, ClaimStep, QuarantineStep, CompleteStep, FailWriteStep DEF Fail
  <2> QED
    BY <2>1, <2>2 DEF Promise!Next
<1>5. ASSUME NEW w \in Workers, Reclaim(w) PROVE Promise!Next
  <2> DEFINE S == {i \in Items : Stale(row[i], worker[w].now)}
  <2>1. Promise!Expire(S) /\ S \in SUBSET Items
    BY <1>5, ReclaimStep
  <2> HIDE DEF S
  <2> QED
    BY <2>1 DEF Promise!Next
<1>6. ASSUME \/ Tick
             \/ \E w \in Workers : \/ Poll(w) \/ Select(w) \/ SelectNothing(w) \/ Stamp(w)
                                   \/ RenewStart(w) \/ FailRead(w) \/ Crash(w)
      PROVE  UNCHANGED Abs
  <2>1. UNCHANGED database
    BY <1>6 DEF Tick, Poll, Select, SelectNothing, Stamp, RenewStart, FailRead, Crash
  <2> QED
    BY <2>1, SameView DEF database
<1> QED
  BY <1>1, <1>2, <1>3, <1>4, <1>5, <1>6, BindStep DEF Next, NextItem, Finish

\* The SQLite queue implements the abstract one: with stale reads, shared worker names,
\* expiring leases and transitions that write two tables, it does nothing a queue that
\* delivers a waiting item, ends each delivery once and counts each retry could not do.
THEOREM QueueKeepsItsPromise == Spec => ImplementsWorkQueue
<1>1. Init => Promise!Init
  <2> SUFFICES ASSUME Init PROVE Promise!Init
    OBVIOUS
  <2>1. \A i \in Items : Promised(i) = Promise!Absent
    BY DEF Init, EmptyRow, Promised, Promise!Absent
  <2> QED
    BY <2>1 DEF Promise!Init
<1>2. QueueInv /\ PromiseInv /\ [Next]_vars => [Promise!Next]_Abs
  BY StepRefines
<1> QED
  BY <1>1, <1>2, BothInvariants, PTL DEF Spec, ImplementsWorkQueue, Promise!Spec, Abs

\* next_item quarantines an undecodable payload instead of handing it out, and once between
\* operator overrides, although the SELECT and the quarantine are separate transactions.
THEOREM PoisonIsNeverDelivered == Spec => []PoisonNeverDelivered
<1>1. QueueInv /\ PromiseInv => PoisonNeverDelivered
  <2> SUFFICES ASSUME QueueInv, PromiseInv, NEW i \in PoisonItems
               PROVE  ledger[i] = <<>> /\ poison[i] <= Len(overrides[i]) + 1
    BY DEF PoisonNeverDelivered
  <2>1. i \in Items
    BY QueueAssumption
  <2> QED
    BY <2>1, AsideFacts DEF KeptAside
<1> QED
  BY <1>1, BothInvariants, PTL

-----------------------------------------------------------------------------
(* The retry count *)

\* The attempts of a ledger that cost a retry, the overrides of an audit that do.
Costs == {"retry_scheduled", "failed", "lease_expired"}
SpentIn(l) == {k \in DOMAIN l : l[k].outcome \in Costs}
ForcedIn(o) == {k \in DOMAIN o : o[k].action = "force_fail"}
Audited(r, l, o) == r.retries = Cardinality(SpentIn(l)) + Cardinality(ForcedIn(o))

\* A set of positions of a sequence can be counted.
LEMMA Countable ==
    ASSUME NEW S, NEW s \in Seq(S), NEW T \in SUBSET DOMAIN s
    PROVE  IsFiniteSet(T) /\ Cardinality(T) \in Nat
<1>1. DOMAIN s = 1..Len(s) /\ Len(s) \in Nat
  OBVIOUS
<1>2. IsFiniteSet(1..Len(s))
  BY <1>1, FS_Interval
<1>3. IsFiniteSet(T)
  BY <1>1, <1>2, FS_Subset
<1> QED
  BY <1>3, FS_CardinalityType

\* The attempt a claim opens costs nothing yet.
LEMMA OpeningIsFree ==
    ASSUME NEW l \in Seq(AttemptRow), NEW name
    PROVE  SpentIn(Append(l, Attempt(name))) = SpentIn(l)
<1> DEFINE m == Append(l, Attempt(name))
<1>1. DOMAIN l = 1..Len(l) /\ Len(l) \in Nat
  OBVIOUS
<1>2. /\ DOMAIN m = 1..(Len(l) + 1) /\ m[Len(l) + 1] = Attempt(name)
      /\ \A k \in 1..Len(l) : m[k] = l[k]
  BY AppendProperties
<1>3. Attempt(name).outcome \notin Costs
  BY DEF Attempt, Costs
<1> HIDE DEF m
<1>4. \A k : k \in SpentIn(m) <=> k \in SpentIn(l)
  <2> TAKE k
  <2>1. k \in 1..(Len(l) + 1) <=> k \in 1..Len(l) \/ k = Len(l) + 1
    BY <1>1
  <2>2. Len(l) + 1 \notin 1..Len(l)
    BY <1>1
  <2> QED
    BY <1>1, <1>2, <1>3, <2>1, <2>2 DEF SpentIn
<1>5. SpentIn(m) = SpentIn(l)
  BY <1>4
<1> QED
  BY <1>5 DEF m

\* Closing the open attempt costs one retry if its outcome does.
LEMMA ClosingCosts ==
    ASSUME NEW r, NEW l, Good(r, l), r.status = "in_progress", NEW o \in Outcomes
    PROVE  Cardinality(SpentIn(Close(l, r.token, o)))
             = Cardinality(SpentIn(l)) + (IF o \in Costs THEN 1 ELSE 0)
<1> DEFINE n == Len(l)
           m == Close(l, r.token, o)
<1>1. /\ l \in Seq(AttemptRow) /\ n \in Nat /\ n > 0 /\ r.token = n
      /\ l[n].outcome = "open"
  BY DEF Good, Coherent
<1>2. /\ m \in Seq(AttemptRow) /\ Len(m) = n
      /\ \A k \in 1..n : m[k] = IF k = n THEN [worker |-> l[n].worker, outcome |-> o]
                                         ELSE l[k]
  BY <1>1, CloseLemma
<1> HIDE DEF m
<1>3. DOMAIN l = 1..n /\ DOMAIN m = 1..n /\ n \in 1..n /\ m[n].outcome = o
  <2>1. DOMAIN l = 1..n /\ DOMAIN m = 1..n
    BY <1>1, <1>2
  <2>2. n \in 1..n
    BY <1>1
  <2>3. m[n] = [worker |-> l[n].worker, outcome |-> o]
    BY <1>2, <2>2
  <2> QED
    BY <2>1, <2>2, <2>3
<1>4. IsFiniteSet(SpentIn(l)) /\ Cardinality(SpentIn(l)) \in Nat
  BY <1>1, Countable DEF SpentIn
<1>5. n \notin SpentIn(l)
  BY <1>1, <1>3 DEF SpentIn, Costs
<1> HIDE DEF n
<1>6. \A k : k \in SpentIn(m) <=> k \in SpentIn(l) \/ (k = n /\ o \in Costs)
  <2> TAKE k
  <2>1. CASE k = n
    BY <1>1, <1>2, <1>3, <1>5, <2>1 DEF SpentIn
  <2>2. CASE k # n
    BY <1>1, <1>2, <1>3, <2>2 DEF SpentIn
  <2> QED
    BY <2>1, <2>2
<1>7. CASE o \in Costs
  <2>1. SpentIn(m) = SpentIn(l) \cup {n}
    BY <1>6, <1>7
  <2>2. Cardinality(SpentIn(m)) = Cardinality(SpentIn(l)) + 1
    BY <1>4, <1>5, <2>1, FS_AddElement
  <2> QED
    BY <1>7, <2>2 DEF m
<1>8. CASE o \notin Costs
  <2>1. SpentIn(m) = SpentIn(l)
    BY <1>6, <1>8
  <2> QED
    BY <1>4, <1>8, <2>1 DEF m
<1> QED
  BY <1>7, <1>8

\* An override costs no attempt.
LEMMA OverridingIsFree ==
    ASSUME NEW r, NEW l, Good(r, l)
    PROVE  Cardinality(SpentIn(OverrideClose(r, l))) = Cardinality(SpentIn(l))
<1>1. CASE r.status = "in_progress"
  <2>1. "admin_override" \in Outcomes /\ "admin_override" \notin Costs
    BY DEF Outcomes, Costs
  <2>2. Cardinality(SpentIn(Close(l, r.token, "admin_override"))) = Cardinality(SpentIn(l)) + 0
    BY <1>1, <2>1, ClosingCosts
  <2>3. Cardinality(SpentIn(l)) \in Nat
    BY Countable DEF Good, SpentIn
  <2> QED
    BY <2>2, <2>3 DEF OverrideClose
<1>2. CASE r.status # "in_progress"
  BY <1>2 DEF Good, Coherent, OverrideClose
<1> QED
  BY <1>1, <1>2

\* Of the overrides, a force_fail costs a retry.
LEMMA ForcingCosts ==
    ASSUME NEW o \in Seq(OverrideRow), NEW e
    PROVE  Cardinality(ForcedIn(Append(o, e)))
             = Cardinality(ForcedIn(o)) + (IF e.action = "force_fail" THEN 1 ELSE 0)
<1> DEFINE n == Len(o) + 1
           m == Append(o, e)
<1>1. DOMAIN o = 1..Len(o) /\ Len(o) \in Nat /\ n \notin DOMAIN o
  OBVIOUS
<1>2. /\ DOMAIN m = 1..n /\ m[n] = e /\ \A k \in DOMAIN o : m[k] = o[k]
  BY <1>1, AppendProperties
<1>3. DOMAIN m = DOMAIN o \cup {n}
  BY <1>1, <1>2
<1>4. IsFiniteSet(ForcedIn(o)) /\ Cardinality(ForcedIn(o)) \in Nat
  BY Countable DEF ForcedIn
<1>5. n \notin ForcedIn(o)
  BY <1>1 DEF ForcedIn
<1> HIDE DEF m, n
<1>6. \A k : k \in ForcedIn(m) <=> k \in ForcedIn(o) \/ (k = n /\ e.action = "force_fail")
  BY <1>1, <1>2, <1>3 DEF ForcedIn
<1>7. CASE e.action = "force_fail"
  <2>1. ForcedIn(m) = ForcedIn(o) \cup {n}
    BY <1>6, <1>7
  <2>2. Cardinality(ForcedIn(m)) = Cardinality(ForcedIn(o)) + 1
    BY <1>4, <1>5, <2>1, FS_AddElement
  <2> QED
    BY <1>7, <2>2 DEF m
<1>8. CASE e.action # "force_fail"
  <2>1. ForcedIn(m) = ForcedIn(o)
    BY <1>6, <1>8
  <2> QED
    BY <1>4, <1>8, <2>1 DEF m
<1> QED
  BY <1>7, <1>8

AllAudited == \A i \in Items : Audited(row[i], ledger[i], overrides[i])

\* The facts about one item the steps below start from.
LEMMA AuditFacts ==
    ASSUME QueueInv, AllAudited, NEW i \in Items
    PROVE  /\ row \in [Items -> Row] /\ ledger \in [Items -> Seq(AttemptRow)]
           /\ overrides \in [Items -> Seq(OverrideRow)]
           /\ row[i] \in Row /\ row[i].retries \in Nat /\ ledger[i] \in Seq(AttemptRow)
           /\ overrides[i] \in Seq(OverrideRow) /\ Good(row[i], ledger[i])
           /\ Audited(row[i], ledger[i], overrides[i])
           /\ Cardinality(SpentIn(ledger[i])) \in Nat
           /\ Cardinality(ForcedIn(overrides[i])) \in Nat
<1>1. ledger[i] \in Seq(AttemptRow) /\ overrides[i] \in Seq(OverrideRow)
  BY DEF QueueInv, TypeOK
<1>2. Cardinality(SpentIn(ledger[i])) \in Nat
  BY <1>1, Countable DEF SpentIn
<1>3. Cardinality(ForcedIn(overrides[i])) \in Nat
  BY <1>1, Countable DEF ForcedIn
<1> QED
  BY <1>1, <1>2, <1>3, InvFacts DEF QueueInv, TypeOK, AllAudited

\* A step that rewrites one item and accounts for its retries keeps the count audited.
LEMMA AuditRewritten ==
    ASSUME QueueInv, AllAudited, NEW i \in Items, NEW r, NEW l, NEW o,
           row' = [row EXCEPT ![i] = r], ledger' = [ledger EXCEPT ![i] = l],
           overrides' = [overrides EXCEPT ![i] = o], Audited(r, l, o)
    PROVE  AllAudited'
<1> SUFFICES ASSUME NEW j \in Items PROVE Audited(row'[j], ledger'[j], overrides'[j])
  BY DEF AllAudited, Audited, SpentIn, ForcedIn
<1>1. CASE j = i
  BY <1>1, AuditFacts
<1>2. CASE j # i
  <2>1. row'[j] = row[j] /\ ledger'[j] = ledger[j] /\ overrides'[j] = overrides[j]
    BY <1>2, AuditFacts
  <2> QED
    BY <2>1, AuditFacts
<1> QED
  BY <1>1, <1>2

\* A row is written with its retries, and its ledger and audit as they were.
LEMMA AuditRests ==
    ASSUME QueueInv, AllAudited, NEW i \in Items, NEW r, r.retries = row[i].retries,
           row' = [row EXCEPT ![i] = r], UNCHANGED <<ledger, overrides>>
    PROVE  AllAudited'
<1>1. Audited(r, ledger[i], overrides[i])
  BY AuditFacts DEF Audited
<1>2. /\ ledger' = [ledger EXCEPT ![i] = ledger[i]]
      /\ overrides' = [overrides EXCEPT ![i] = overrides[i]]
  BY AuditFacts
<1> QED
  BY <1>1, <1>2, AuditRewritten

LEMMA AuditUnchanged ==
    ASSUME AllAudited, UNCHANGED database
    PROVE  AllAudited'
BY DEF AllAudited, Audited, SpentIn, ForcedIn, database

LEMMA AuditInsert ==
    ASSUME QueueInv, AllAudited, NEW i \in Items, Add(i) \/ AddOnce(i)
    PROVE  AllAudited'
<1>1. PICK delay \in AddDelays : Insert(i, delay)
  BY DEF Add, AddOnce
<1> DEFINE r == [EmptyRow EXCEPT !.status = "pending",
                                 !.due = IF delay = 0 THEN NoTime ELSE clock + delay]
<1>2. row' = [row EXCEPT ![i] = r] /\ row[i].status = "absent" /\ UNCHANGED <<ledger, overrides>>
  BY <1>1 DEF Insert
<1>3. r.retries = 0
  BY DEF EmptyRow
<1> HIDE DEF r
<1>4. row[i].retries = 0
  BY <1>2, AuditFacts DEF Good, Budget
<1> QED
  BY <1>2, <1>3, <1>4, AuditRests

LEMMA AuditPoll ==
    ASSUME QueueInv, AllAudited, NEW w \in Workers, Quarantine(w) \/ Claim(w)
    PROVE  AllAudited'
<1> DEFINE i == worker[w].item
<1>1. i \in Items
  BY InvFacts DEF Quarantine, Claim, At, Bound
<1>2. CASE Quarantine(w) /\ StillSelected(i, worker[w].due, clock)
  <2> DEFINE r == [row[i] EXCEPT !.status = "failed", !.claimedBy = NoWorker,
                                 !.claimedAt = NoTime, !.token = NoToken, !.due = NoTime]
  <2>1. row' = [row EXCEPT ![i] = r] /\ UNCHANGED <<ledger, overrides>>
    BY <1>2 DEF Quarantine
  <2>2. r.retries = row[i].retries
    BY <1>1, AuditFacts DEF Row
  <2> HIDE DEF r, i
  <2> QED
    BY <1>1, <2>1, <2>2, AuditRests
<1>3. CASE Claim(w) /\ StillSelected(i, worker[w].due, worker[w].now)
  <2> DEFINE token == Len(ledger[i]) + 1
             r == [row[i] EXCEPT !.status = "in_progress", !.claimedBy = WorkerName[w],
                                 !.claimedAt = worker[w].now, !.token = token, !.due = NoTime]
             l == Append(ledger[i], Attempt(WorkerName[w]))
  <2>1. row' = [row EXCEPT ![i] = r] /\ ledger' = [ledger EXCEPT ![i] = l]
        /\ UNCHANGED overrides
    BY <1>3 DEF Claim
  <2> HIDE DEF token
  <2>2. r.retries = row[i].retries
    BY <1>1, AuditFacts DEF Row
  <2>3. SpentIn(l) = SpentIn(ledger[i])
    BY <1>1, AuditFacts, OpeningIsFree
  <2> HIDE DEF r, l, i
  <2>4. Audited(r, l, overrides[i])
    BY <1>1, <2>2, <2>3, AuditFacts DEF Audited
  <2>5. overrides' = [overrides EXCEPT ![i] = overrides[i]]
    BY <1>1, <2>1, AuditFacts
  <2> QED
    BY <1>1, <2>1, <2>4, <2>5, AuditRewritten
<1>4. CASE /\ ~(Quarantine(w) /\ StillSelected(i, worker[w].due, clock))
           /\ ~(Claim(w) /\ StillSelected(i, worker[w].due, worker[w].now))
  BY <1>4, AuditUnchanged DEF Quarantine, Claim, database
<1> QED
  BY <1>2, <1>3, <1>4

LEMMA AuditHold ==
    ASSUME QueueInv, AllAudited, NEW w \in Workers, BindTransaction(w) \/ RenewLease(w)
    PROVE  AllAudited'
<1> DEFINE i == worker[w].item
<1>1. UNCHANGED <<ledger, overrides, poison>>
  BY DEF BindTransaction, RenewLease
<1>2. CASE row' = row
  BY <1>1, <1>2, AuditUnchanged DEF database
<1>3. CASE row' # row
  <2>1. i \in Items
    BY InvFacts DEF BindTransaction, RenewLease, At, Bound
  <2>2. \/ row' = [row EXCEPT ![i] = [row[i] EXCEPT !.tx = worker[w].token]]
        \/ row' = [row EXCEPT ![i] = [row[i] EXCEPT !.claimedAt = worker[w].now]]
    BY <1>3, <2>1, AuditFacts DEF BindTransaction, RenewLease
  <2>3. /\ [row[i] EXCEPT !.tx = worker[w].token].retries = row[i].retries
        /\ [row[i] EXCEPT !.claimedAt = worker[w].now].retries = row[i].retries
    BY <2>1, AuditFacts DEF Row
  <2> QED
    BY <1>1, <2>1, <2>2, <2>3, AuditRests
<1> QED
  BY <1>2, <1>3

\* A claim that succeeds costs nothing, one that fails or expires one retry.
LEMMA AuditEnds ==
    ASSUME QueueInv, AllAudited, NEW i \in Items, row[i].status = "in_progress",
           NEW r, NEW o \in Outcomes,
           r.retries = row[i].retries + (IF o \in Costs THEN 1 ELSE 0)
    PROVE  Audited(r, Close(ledger[i], row[i].token, o), overrides[i])
<1> DEFINE m == Close(ledger[i], row[i].token, o)
           d == IF o \in Costs THEN 1 ELSE 0
<1>1. Cardinality(SpentIn(m)) = Cardinality(SpentIn(ledger[i])) + d
  BY AuditFacts, ClosingCosts
<1>2. d \in Nat /\ r.retries = row[i].retries + d
  OBVIOUS
<1> HIDE DEF m, d
<1>3. Audited(r, m, overrides[i])
  BY <1>1, <1>2, AuditFacts DEF Audited
<1> QED
  BY <1>3 DEF m

LEMMA AuditFinish ==
    ASSUME QueueInv, AllAudited, NEW w \in Workers, Complete(w) \/ Fail(w)
    PROVE  AllAudited'
<1> DEFINE i == worker[w].item
<1>1. CASE Owns(w)
  <2>1. worker[w].pc \in Holding /\ UNCHANGED overrides
    BY DEF Complete, Fail, FailWrite, At, Holding
  <2>2. /\ i \in Items /\ row[i] \in Row /\ row[i].status = "in_progress"
        /\ row[i].token = worker[w].token
        /\ overrides' = [overrides EXCEPT ![i] = overrides[i]]
    BY <1>1, <2>1, OwnerFacts, AuditFacts
  <2>3. CASE Complete(w)
    <3> DEFINE r == Succeeded(row[i])
               l == Close(ledger[i], row[i].token, "successful")
    <3>1. row' = [row EXCEPT ![i] = r] /\ ledger' = [ledger EXCEPT ![i] = l]
      BY <1>1, <2>2, <2>3 DEF Complete
    <3>2. r.retries = row[i].retries + (IF "successful" \in Costs THEN 1 ELSE 0)
      BY <2>2, AuditFacts DEF Succeeded, Row, Costs
    <3> HIDE DEF r, i
    <3>3. Audited(r, l, overrides[i])
      BY <2>2, <3>2, AuditEnds DEF Outcomes
    <3> HIDE DEF l
    <3> QED
      BY <2>2, <3>1, <3>3, AuditRewritten
  <2>4. ASSUME NEW retry \in BOOLEAN, FailWrite(w, retry) PROVE AllAudited'
    <3> DEFINE n == worker[w].retries + 1
               outcome == IF retry /\ MayRetry(n) THEN "retry_scheduled" ELSE "failed"
               r == Failed(row[i], n, retry, worker[w].now)
               l == Close(ledger[i], row[i].token, outcome)
    <3>1. row' = [row EXCEPT ![i] = r] /\ ledger' = [ledger EXCEPT ![i] = l]
      BY <1>1, <2>2, <2>4 DEF FailWrite
    <3>2. worker[w].retries = row[i].retries
      BY <1>1, <2>4 DEF FailWrite, At, QueueInv, AllRemember, Remembers
    <3>3. r.retries = n
      BY <2>2 DEF Failed, Row
    <3>4. outcome \in Outcomes /\ outcome \in Costs
      BY DEF Outcomes, Costs
    <3> HIDE DEF r, outcome, i
    <3>5. Audited(r, l, overrides[i])
      BY <2>2, <3>2, <3>3, <3>4, AuditEnds
    <3> HIDE DEF l
    <3> QED
      BY <2>2, <3>1, <3>5, AuditRewritten
  <2> QED
    BY <2>3, <2>4 DEF Fail
<1>2. CASE ~Owns(w)
  BY <1>2, AuditUnchanged DEF Complete, Fail, FailWrite, database
<1> QED
  BY <1>1, <1>2

LEMMA AuditReclaim ==
    ASSUME QueueInv, AllAudited, NEW w \in Workers, Reclaim(w)
    PROVE  AllAudited'
<1> SUFFICES ASSUME NEW i \in Items PROVE Audited(row'[i], ledger'[i], overrides'[i])
  BY DEF AllAudited, Audited, SpentIn, ForcedIn
<1>1. overrides' = overrides
  BY DEF Reclaim
<1>2. CASE Stale(row[i], worker[w].now)
  <2> DEFINE n == row[i].retries + 1
             r == Failed(row[i], n, TRUE, worker[w].now)
  <2>1. row[i].status = "in_progress" /\ row[i].token # NoToken
    BY <1>2, AuditFacts DEF Stale, Good, Coherent, NoToken
  <2>2. row'[i] = r /\ ledger'[i] = Close(ledger[i], row[i].token, "lease_expired")
    BY <1>2, <2>1 DEF Reclaim
  <2>3. r.retries = n
    BY AuditFacts DEF Failed, Row
  <2> HIDE DEF r
  <2>4. "lease_expired" \in Outcomes /\ "lease_expired" \in Costs
    BY DEF Outcomes, Costs
  <2> QED
    BY <1>1, <2>1, <2>2, <2>3, <2>4, AuditEnds
<1>3. CASE ~Stale(row[i], worker[w].now)
  BY <1>1, <1>3, AuditFacts DEF Reclaim
<1> QED
  BY <1>2, <1>3

LEMMA AuditOverride ==
    ASSUME QueueInv, AllAudited, NEW i \in Items,
           ForceComplete(i) \/ ForceFail(i, TRUE) \/ ForceFail(i, FALSE)
    PROVE  AllAudited'
<1>1. ASSUME NEW action, NEW r, Override(i, action, r),
             r.retries = row[i].retries + (IF action = "force_fail" THEN 1 ELSE 0)
      PROVE  AllAudited'
  <2> DEFINE e == [action |-> action, from |-> row[i].status, to |-> r.status]
             l == OverrideClose(row[i], ledger[i])
             o == Append(overrides[i], e)
             d == IF action = "force_fail" THEN 1 ELSE 0
  <2>1. /\ row' = [row EXCEPT ![i] = r] /\ ledger' = [ledger EXCEPT ![i] = l]
        /\ overrides' = [overrides EXCEPT ![i] = o]
    BY <1>1 DEF Override, OverrideClose
  <2>2. Cardinality(SpentIn(l)) = Cardinality(SpentIn(ledger[i]))
    BY AuditFacts, OverridingIsFree
  <2>3. Cardinality(ForcedIn(o)) = Cardinality(ForcedIn(overrides[i])) + d
    BY AuditFacts, ForcingCosts
  <2>4. d \in Nat /\ r.retries = row[i].retries + d
    BY <1>1
  <2> HIDE DEF l, o, d
  <2>5. Audited(r, l, o)
    BY <2>2, <2>3, <2>4, AuditFacts DEF Audited
  <2> QED
    BY <2>1, <2>5, AuditRewritten
<1>2. CASE ForceComplete(i)
  <2> DEFINE r == [Succeeded(row[i]) EXCEPT !.claimedBy = NoWorker]
  <2>1. Override(i, "force_complete", r)
    BY <1>2 DEF ForceComplete
  <2>2. r.retries = row[i].retries + 0
    BY AuditFacts DEF Succeeded, Row
  <2> HIDE DEF r
  <2> QED
    BY <1>1, <2>1, <2>2
<1>3. ASSUME NEW retry \in BOOLEAN, ForceFail(i, retry) PROVE AllAudited'
  <2> DEFINE n == row[i].retries + 1
             f == Failed(row[i], n, retry, clock)
             r == [f EXCEPT !.claimedBy = NoWorker]
  <2>1. Override(i, "force_fail", r)
    BY <1>3 DEF ForceFail
  <2>2. f.retries = n
    BY AuditFacts DEF Failed, Row
  <2> HIDE DEF f
  <2>3. r.retries = f.retries
    OBVIOUS
  <2> HIDE DEF r
  <2> QED
    BY <1>1, <2>1, <2>2, <2>3
<1> QED
  BY <1>2, <1>3

\* Every step accounts for the retries it spends.
LEMMA AuditStep ==
    ASSUME QueueInv, AllAudited, [Next]_vars
    PROVE  AllAudited'
<1>1. CASE UNCHANGED vars
  BY <1>1, AuditUnchanged DEF vars, database
<1>2. ASSUME \/ Tick
             \/ \E w \in Workers : \/ Poll(w) \/ Select(w) \/ SelectNothing(w) \/ Stamp(w)
                                   \/ RenewStart(w) \/ FailRead(w) \/ Crash(w)
      PROVE  AllAudited'
  <2>1. UNCHANGED database
    BY <1>2 DEF Tick, Poll, Select, SelectNothing, Stamp, RenewStart, FailRead, Crash
  <2> QED
    BY <2>1, AuditUnchanged
<1> QED
  BY <1>1, <1>2, AuditInsert, AuditPoll, AuditHold, AuditFinish, AuditReclaim, AuditOverride
     DEF Next, NextItem, Finish

\* retry_count is what the audit tables account for: fail(), the reclaim and force_fail add
\* one with the row they write, and the unlocked read in fail() loses none, because its
\* UPDATE holds only while the claim, and so the count that was read, is still current.
THEOREM RetryCountIsAlwaysAudited == Spec => []RetryCountIsAudited
<1>1. Init => AllAudited
  <2> SUFFICES ASSUME Init, NEW i \in Items PROVE Audited(row[i], ledger[i], overrides[i])
    BY DEF AllAudited
  <2>1. SpentIn(<<>>) = {} /\ ForcedIn(<<>>) = {}
    BY DEF SpentIn, ForcedIn
  <2>2. row[i].retries = 0 /\ ledger[i] = <<>> /\ overrides[i] = <<>>
    BY DEF Init, EmptyRow
  <2> QED
    BY <2>1, <2>2, FS_EmptySet DEF Audited
<1>2. QueueInv /\ AllAudited /\ [Next]_vars => AllAudited'
  BY AuditStep
<1>3. AllAudited => RetryCountIsAudited
  BY DEF AllAudited, Audited, SpentIn, ForcedIn, Costs, RetryCountIsAudited, Spent, Forced
<1> QED
  BY <1>1, <1>2, <1>3, QueueInvariant, PTL DEF Spec

-----------------------------------------------------------------------------
(* Waits *)

\* A started tick is counted in full: x <= y * RoundUp(x, y) < x + y.
LEMMA RoundUpBounds ==
    ASSUME NEW x \in Nat, NEW y \in Nat \ {0}
    PROVE  /\ RoundUp(x, y) \in Nat
           /\ x <= y * RoundUp(x, y)
           /\ y * RoundUp(x, y) < x + y
<1> DEFINE m == x + y - 1
<1>1. m \in Nat
  BY SMT
<1>2. /\ m \div y \in Nat
      /\ y * (m \div y) <= m
      /\ m < y * (m \div y) + y
  BY <1>1, SMT
<1> QED
  BY <1>2, SMT DEF RoundUp

\* With any positive cap the wait is at least one tick and at most the cap, however large
\* the power grew: a retry with a delay is never immediate, and never later than a day.
THEOREM WaitIsBounded ==
    ASSUME NEW x \in Nat, NEW y \in Nat \ {0}, NEW cap \in Nat \ {0}
    PROVE  Capped(x, y, cap) \in 1..cap
<1>1. CASE x >= cap * y
  BY <1>1, SMT DEF Capped
<1>2. CASE x < cap * y
  <2> DEFINE q == RoundUp(x, y)
  <2>1. q \in Nat /\ y * q < x + y
    BY RoundUpBounds
  <2>2. ASSUME q > cap PROVE FALSE
    <3>1. y * q >= y * (cap + 1)
      BY <2>1, <2>2, SMT
    <3>2. y * (cap + 1) = cap * y + y
      BY SMT
    <3> QED
      BY <2>1, <3>1, <3>2, <1>2, SMT
  <2>3. q <= cap
    BY <2>1, <2>2, SMT
  <2> QED
    BY <1>2, <2>1, <2>3, SMT DEF Capped
<1>3. cap * y \in Nat
  BY SMT
<1> QED
  BY <1>1, <1>2, <1>3, SMT

\* A wait is never shorter than the policy asks for, unless the cap cuts it.
THEOREM WaitIsLongEnough ==
    ASSUME NEW x \in Nat, NEW y \in Nat \ {0}, NEW cap \in Nat \ {0}
    PROVE  Capped(x, y, cap) = cap \/ x <= y * Capped(x, y, cap)
<1>1. CASE x >= cap * y
  BY <1>1, SMT DEF Capped
<1>2. CASE x < cap * y
  <2>1. RoundUp(x, y) \in Nat /\ x <= y * RoundUp(x, y)
    BY RoundUpBounds
  <2>2. CASE RoundUp(x, y) = 0
    BY <1>2, <2>1, <2>2, SMT DEF Capped
  <2>3. CASE RoundUp(x, y) # 0
    BY <1>2, <2>1, <2>3, SMT DEF Capped
  <2> QED
    BY <2>2, <2>3
<1>3. cap * y \in Nat
  BY SMT
<1> QED
  BY <1>1, <1>2, <1>3, SMT

=============================================================================
