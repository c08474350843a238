----------------------------- MODULE SqliteQueue -----------------------------
(***************************************************************************)
(* The durable work queue of RPA Core (src/rpacore/queue.py).              *)
(*                                                                         *)
(* One SQLite database is shared by worker processes and by an operator.   *)
(* Every write transaction of the code is one action; what a call reads    *)
(* before it takes the write lock (the clock, the selected row, the retry  *)
(* count) is kept in the caller's local state and may be stale by the time *)
(* the transaction commits.                                                *)
(*                                                                         *)
(* Items are numbered by their rank in the claim order (created_at, id).   *)
(* A claim token is a fresh uuid4 in the code; here the token of a claim   *)
(* is the position of its attempt in the item's attempt ledger, so a token *)
(* is never reused.  NoTime stands for SQL NULL: an eligibility of NULL    *)
(* and an eligibility in the past are both "due".                          *)
(***************************************************************************)
EXTENDS Integers, Sequences, FiniteSets

CONSTANTS
    Items,           \* ranks of the queue items
    Workers,         \* worker processes
    WorkerName,      \* the worker_id each process claims under (a host name: may be shared)
    Reference,       \* the business reference of each item
    OnceItems,       \* items enqueued with add_once (the others with add)
    PoisonItems,     \* items whose stored payload does not decode
    MaxRetries,      \* [queue] max_retries
    LeaseTimeout,    \* [queue] lease_timeout, whole seconds
    TicksPerSecond,  \* resolution of the clock: ticks in a second
    RetryWait,       \* ticks of delivery delay before the n-th retry (0: no delay)
    AddDelays,       \* ticks of delay with which a producer may enqueue
    MaxClock,        \* bound: the last instant of the clock
    RenewUntil,      \* bound: no lease is renewed after this instant
    MaxOverrides     \* bound: operator overrides of each item

NoTime == 0
NoToken == 0
NoTransaction == 0
NoWorker == ""
Names == {WorkerName[w] : w \in Workers}
Statuses == {"absent", "pending", "in_progress", "successful", "failed"}
Terminal == {"successful", "failed"}
Outcomes == {"open", "successful", "retry_scheduled", "failed", "lease_expired",
             "admin_override"}

ASSUME QueueAssumption ==
    /\ Items \subseteq Nat \ {0} /\ IsFiniteSet(Items)
    /\ WorkerName \in [Workers -> STRING] /\ NoWorker \notin Names
    /\ Reference \in [Items -> STRING]
    /\ OnceItems \subseteq Items /\ PoisonItems \subseteq Items
    /\ MaxRetries \in Nat
    /\ LeaseTimeout \in Nat \ {0}
    /\ TicksPerSecond \in Nat \ {0}
    /\ RetryWait \in [1..MaxRetries -> Nat]
    /\ AddDelays \subseteq Nat
    /\ MaxClock \in Nat \ {0} /\ RenewUntil \in Nat
    /\ MaxOverrides \in [Items -> Nat]

VARIABLES
    clock,      \* wall clock shared by the processes, in ticks
    row,        \* queue_items
    ledger,     \* queue_attempts, per item in sequence order
    poison,     \* number of queue_poison_events per item
    overrides,  \* queue_admin_events, per item in sequence order
    worker      \* where each worker process is, and what it remembers

vars == <<clock, row, ledger, poison, overrides, worker>>
database == <<row, ledger, poison, overrides>>

-----------------------------------------------------------------------------
(* Rows and ledgers                                                          *)

EmptyRow == [status |-> "absent", retries |-> 0, claimedBy |-> NoWorker,
             claimedAt |-> NoTime, token |-> NoToken, tx |-> NoTransaction,
             due |-> NoTime]

Seconds(t) == t \div TicksPerSecond

\* retry_available_at: no eligibility time when the policy has no delay.
RetryDue(now, n) == IF RetryWait[n] = 0 THEN NoTime ELSE now + RetryWait[n]

MayRetry(n) == n <= MaxRetries

\* Operators marked "faulty" are seeded bugs: no action uses them.  Each stands in for
\* the definition that follows it, to show that a property would notice the bug.

\* faulty: the retry is granted but not counted
FailedUncounted(r, n, retry, now) ==
    [r EXCEPT !.status = IF retry /\ MayRetry(n) THEN "pending" ELSE "failed",
              !.claimedBy = NoWorker, !.claimedAt = NoTime, !.token = NoToken]

\* What fail(), the stale-lease reclaim and force_fail() make of a row.
Failed(r, n, retry, now) ==
    LET again == retry /\ MayRetry(n)
    IN  [r EXCEPT !.status = IF again THEN "pending" ELSE "failed",
                  !.retries = n,
                  !.claimedBy = IF again THEN NoWorker ELSE @,
                  !.claimedAt = NoTime,
                  !.token = NoToken,
                  !.due = IF again THEN RetryDue(now, n) ELSE NoTime]

\* faulty: a status QueueStatus does not know
SucceededMisnamed(r) == [r EXCEPT !.status = "complete", !.token = NoToken]

Succeeded(r) == [r EXCEPT !.status = "successful", !.claimedAt = NoTime,
                          !.token = NoToken, !.due = NoTime]

Attempt(name) == [worker |-> name, outcome |-> "open"]

\* faulty: WHERE item_id = ? alone; and no statement at all
CloseEvery(l, t, o) == [k \in DOMAIN l |-> [l[k] EXCEPT !.outcome = o]]
CloseNone(l, t, o) == l

\* _close_attempt: the first outcome recorded for a claim is final.
Close(l, t, o) ==
    IF t \in DOMAIN l /\ l[t].outcome = "open"
    THEN [l EXCEPT ![t] = [worker |-> l[t].worker, outcome |-> o]]
    ELSE l

-----------------------------------------------------------------------------
(* Worker processes                                                          *)

Idle == [pc |-> "idle", item |-> 0, token |-> NoToken, due |-> NoTime,
         now |-> NoTime, retries |-> 0]

At(w, pc) == worker[w].pc = pc
Stop(w) == worker' = [worker EXCEPT ![w] = Idle]

Init ==
    /\ clock = 1
    /\ row = [i \in Items |-> EmptyRow]
    /\ ledger = [i \in Items |-> <<>>]
    /\ poison = [i \in Items |-> 0]
    /\ overrides = [i \in Items |-> <<>>]
    /\ worker = [w \in Workers |-> Idle]

Leased(i) == row[i].status = "in_progress"

\* Time passes while a lease runs or a deadline is ahead: nothing else reads it.
Tick ==
    /\ clock < MaxClock
    /\ \E i \in Items : \/ Leased(i) /\ clock <= row[i].claimedAt
                                              + (LeaseTimeout + 1) * TicksPerSecond
                        \/ row[i].due > clock
    /\ clock' = clock + 1
    /\ UNCHANGED <<database, worker>>

-----------------------------------------------------------------------------
(* Producers: add and add_once                                               *)

Insert(i, delay) ==
    /\ row[i].status = "absent"
    /\ row' = [row EXCEPT ![i] =
                 [EmptyRow EXCEPT !.status = "pending",
                                  !.due = IF delay = 0 THEN NoTime ELSE clock + delay]]
    /\ UNCHANGED <<clock, ledger, poison, overrides, worker>>

Add(i) ==
    /\ i \notin OnceItems
    /\ \E delay \in AddDelays : Insert(i, delay)

\* faulty: an item in progress does not count
DuplicatePending(i) ==
    \E j \in Items : Reference[j] = Reference[i] /\ row[j].status = "pending"
Duplicate(i) ==
    \E j \in Items : /\ Reference[j] = Reference[i]
                     /\ row[j].status \in {"pending", "in_progress"}

\* The duplicate check and the insert share one BEGIN IMMEDIATE transaction; a
\* duplicate rolls back and nothing changes.
AddOnce(i) ==
    /\ i \in OnceItems
    /\ ~Duplicate(i)
    /\ \E delay \in AddDelays : Insert(i, delay)

-----------------------------------------------------------------------------
(* next_item: reclaim, select, then a guarded claim or quarantine            *)

\* The call reads the clock before it opens the database.
Poll(w) ==
    /\ At(w, "idle")
    /\ worker' = [worker EXCEPT ![w] = [@ EXCEPT !.pc = "polling", !.now = clock]]
    /\ UNCHANGED <<clock, database>>

\* faulty: >= for >; and the difference the wrong way round
StaleEarly(r, now) ==
    r.status = "in_progress" /\ Seconds(now) - Seconds(r.claimedAt) >= LeaseTimeout
StaleReversed(r, now) ==
    r.status = "in_progress" /\ Seconds(r.claimedAt) - Seconds(now) > LeaseTimeout
Stale(r, now) ==
    /\ r.status = "in_progress"
    /\ r.claimedAt # NoTime
    /\ Seconds(now) - Seconds(r.claimedAt) > LeaseTimeout

\* One write transaction returns every stale lease to the queue.
Reclaim(w) ==
    LET now == worker[w].now IN
    /\ At(w, "polling")
    /\ row' = [i \in Items |->
                 IF Stale(row[i], now)
                 THEN Failed(row[i], row[i].retries + 1, TRUE, now) ELSE row[i]]
    /\ ledger' = [i \in Items |->
                    IF Stale(row[i], now) /\ row[i].token # NoToken
                    THEN Close(ledger[i], row[i].token, "lease_expired") ELSE ledger[i]]
    /\ worker' = [worker EXCEPT ![w] = [Idle EXCEPT !.pc = "selecting"]]
    /\ UNCHANGED <<clock, poison, overrides>>

Due(i) == row[i].status = "pending" /\ row[i].due <= clock
Eligible == {i \in Items : Due(i)}

\* The SELECT runs without a lock: the row may change before it is claimed.
Select(w) ==
    /\ At(w, "selecting")
    /\ \E i \in Eligible :
        /\ \A j \in Eligible : i <= j
        /\ worker' = [worker EXCEPT ![w] =
              [@ EXCEPT !.item = i, !.due = row[i].due,
                        !.pc = IF i \in PoisonItems THEN "quarantining" ELSE "selected"]]
    /\ UNCHANGED <<clock, database>>

SelectNothing(w) ==
    /\ At(w, "selecting")
    /\ Eligible = {}
    /\ Stop(w)
    /\ UNCHANGED <<clock, database>>

\* faulty: the eligibility, or the status, is not checked again
StillPending(i, due, now) == row[i].status = "pending"
StillPresent(i, due, now) == row[i].due = due /\ row[i].due <= now
\* The guard of the claiming and the quarantining UPDATE.
StillSelected(i, due, now) ==
    row[i].status = "pending" /\ row[i].due = due /\ row[i].due <= now

Quarantine(w) ==
    LET i == worker[w].item IN
    /\ At(w, "quarantining")
    /\ IF StillSelected(i, worker[w].due, clock)
       THEN /\ row' = [row EXCEPT ![i] = [@ EXCEPT !.status = "failed", !.claimedBy = NoWorker,
                                                   !.claimedAt = NoTime, !.token = NoToken,
                                                   !.due = NoTime]]
            /\ poison' = [poison EXCEPT ![i] = @ + 1]
       ELSE UNCHANGED <<row, poison>>
    /\ worker' = [worker EXCEPT ![w] = [Idle EXCEPT !.pc = "selecting"]]
    /\ UNCHANGED <<clock, ledger, overrides>>

\* The claim time and token are fixed before BEGIN IMMEDIATE can wait.
Stamp(w) ==
    /\ At(w, "selected")
    /\ worker' = [worker EXCEPT ![w] = [@ EXCEPT !.pc = "claiming", !.now = clock]]
    /\ UNCHANGED <<clock, database>>

Claim(w) ==
    LET i == worker[w].item
        now == worker[w].now
        token == Len(ledger[i]) + 1
    IN
    /\ At(w, "claiming")
    /\ IF StillSelected(i, worker[w].due, now)
       THEN /\ row' = [row EXCEPT ![i] = [@ EXCEPT !.status = "in_progress",
                                                   !.claimedBy = WorkerName[w],
                                                   !.claimedAt = now, !.token = token,
                                                   !.due = NoTime]]
            /\ ledger' = [ledger EXCEPT ![i] = Append(@, Attempt(WorkerName[w]))]
            /\ worker' = [worker EXCEPT ![w] = [Idle EXCEPT !.pc = "working",
                                                            !.item = i, !.token = token]]
       ELSE /\ worker' = [worker EXCEPT ![w] = [Idle EXCEPT !.pc = "selecting"]]
            /\ UNCHANGED <<row, ledger>>
    /\ UNCHANGED <<clock, poison, overrides>>

-----------------------------------------------------------------------------
(* The claim holder: bind_transaction, renew_lease, complete, fail           *)

\* faulty: the claim is recognised by worker_id alone
OwnsByName(w) ==
    LET r == row[worker[w].item] IN
    r.status = "in_progress" /\ r.claimedBy = WorkerName[w]
\* The WHERE clause every mutation under a claim repeats.
Owns(w) ==
    LET r == row[worker[w].item] IN
    /\ r.status = "in_progress"
    /\ r.claimedBy = WorkerName[w]
    /\ r.token = worker[w].token
    /\ r.token # NoToken

\* The transaction a claim binds is the one its attempt created: its token.
\* QueueLeaseLostError ends the worker's use of the claim in every operation.
BindTransaction(w) ==
    LET i == worker[w].item IN
    /\ At(w, "working")
    /\ IF Owns(w)
       THEN row' = [row EXCEPT ![i].tx = worker[w].token] /\ UNCHANGED worker
       ELSE Stop(w) /\ UNCHANGED row
    /\ UNCHANGED <<clock, ledger, poison, overrides>>

RenewStart(w) ==
    /\ At(w, "working")
    /\ clock <= RenewUntil
    /\ worker' = [worker EXCEPT ![w] = [@ EXCEPT !.pc = "renewing", !.now = clock]]
    /\ UNCHANGED <<clock, database>>

RenewLease(w) ==
    LET i == worker[w].item IN
    /\ At(w, "renewing")
    /\ IF Owns(w)
       THEN /\ row' = [row EXCEPT ![i].claimedAt = worker[w].now]
            /\ worker' = [worker EXCEPT ![w] = [@ EXCEPT !.pc = "working", !.now = NoTime]]
       ELSE Stop(w) /\ UNCHANGED row
    /\ UNCHANGED <<clock, ledger, poison, overrides>>

Complete(w) ==
    LET i == worker[w].item IN
    /\ At(w, "working")
    /\ IF Owns(w)
       THEN /\ row' = [row EXCEPT ![i] = Succeeded(@)]
            /\ ledger' = [ledger EXCEPT ![i] = Close(@, worker[w].token, "successful")]
       ELSE UNCHANGED <<row, ledger>>
    /\ Stop(w)
    /\ UNCHANGED <<clock, poison, overrides>>

\* fail() reads the retry count in autocommit; only its UPDATE takes the lock.
FailRead(w) ==
    LET r == row[worker[w].item] IN
    /\ At(w, "working")
    /\ IF Owns(w)
       THEN worker' = [worker EXCEPT ![w] = [@ EXCEPT !.pc = "failing", !.retries = r.retries,
                                                      !.now = clock]]
       ELSE Stop(w)
    /\ UNCHANGED <<clock, database>>

FailWrite(w, retry) ==
    LET i == worker[w].item
        n == worker[w].retries + 1
        outcome == IF retry /\ MayRetry(n) THEN "retry_scheduled" ELSE "failed"
    IN
    /\ At(w, "failing")
    /\ IF Owns(w)
       THEN /\ row' = [row EXCEPT ![i] = Failed(@, n, retry, worker[w].now)]
            /\ ledger' = [ledger EXCEPT ![i] = Close(@, worker[w].token, outcome)]
       ELSE UNCHANGED <<row, ledger>>
    /\ Stop(w)
    /\ UNCHANGED <<clock, poison, overrides>>

\* A worker process dies while it holds a claim.  Dying inside next_item leaves
\* nothing behind, which is the same as never having called it.
Crash(w) ==
    /\ worker[w].pc \in {"working", "renewing", "failing"}
    /\ Stop(w)
    /\ UNCHANGED <<clock, database>>

-----------------------------------------------------------------------------
(* The operator: force_complete and force_fail                               *)

\* Lock, read, transition, close the current attempt, audit: one transaction.
Override(i, action, new) ==
    /\ row[i].status # "absent"
    /\ Len(overrides[i]) < MaxOverrides[i]
    /\ row' = [row EXCEPT ![i] = new]
    /\ ledger' = [ledger EXCEPT ![i] =
                    IF row[i].token # NoToken
                    THEN Close(@, row[i].token, "admin_override") ELSE @]
    /\ overrides' = [overrides EXCEPT ![i] =
                       Append(@, [action |-> action, from |-> row[i].status,
                                  to |-> new.status])]
    /\ UNCHANGED <<clock, poison, worker>>

ForceComplete(i) ==
    Override(i, "force_complete", [Succeeded(row[i]) EXCEPT !.claimedBy = NoWorker])

ForceFail(i, retry) ==
    Override(i, "force_fail", [Failed(row[i], row[i].retries + 1, retry, clock)
                                 EXCEPT !.claimedBy = NoWorker])

-----------------------------------------------------------------------------

Finish(w) == Complete(w) \/ FailRead(w)
Fail(w) == FailWrite(w, TRUE) \/ FailWrite(w, FALSE)

\* One step of the next_item call worker w is in.
NextItem(w) ==
    \/ Poll(w) \/ Reclaim(w) \/ Select(w) \/ SelectNothing(w)
    \/ Quarantine(w) \/ Stamp(w) \/ Claim(w)

Next ==
    \/ Tick
    \/ \E i \in Items : Add(i) \/ AddOnce(i)
    \/ \E i \in Items : ForceComplete(i) \/ ForceFail(i, TRUE) \/ ForceFail(i, FALSE)
    \/ \E w \in Workers :
        \/ NextItem(w)
        \/ BindTransaction(w) \/ RenewStart(w) \/ RenewLease(w)
        \/ Finish(w) \/ Fail(w)
        \/ Crash(w)

Spec == Init /\ [][Next]_vars

\* Time passes, workers keep polling, a call that started ends, and a worker
\* that still holds a claim finishes its item unless it dies.
Fairness ==
    /\ WF_vars(Tick)
    /\ \A w \in Workers :
        WF_vars(NextItem(w)) /\ WF_vars(RenewLease(w)) /\ WF_vars(Fail(w))
        /\ SF_vars(Finish(w))

FairSpec == Spec /\ Fairness

-----------------------------------------------------------------------------
(* Types                                                                     *)

Row == [status : Statuses, retries : Nat, claimedBy : Names \cup {NoWorker},
        claimedAt : Nat, token : Nat, tx : Nat, due : Nat]
AttemptRow == [worker : Names, outcome : Outcomes]
OverrideRow == [action : {"force_complete", "force_fail"}, from : Statuses, to : Statuses]
Pcs == {"idle", "polling", "selecting", "quarantining", "selected", "claiming",
        "working", "renewing", "failing"}
Bound == {"quarantining", "selected", "claiming", "working", "renewing", "failing"}
Holding == {"working", "renewing", "failing"}
Local == [pc : Pcs, item : Items \cup {0}, token : Nat, due : Nat, now : Nat, retries : Nat]

\* The type of every variable; a worker that is past its SELECT names an item.
TypeOK ==
    /\ clock \in Nat
    /\ row \in [Items -> Row]
    /\ ledger \in [Items -> Seq(AttemptRow)]
    /\ poison \in [Items -> Nat]
    /\ overrides \in [Items -> Seq(OverrideRow)]
    /\ worker \in [Workers -> Local]
    /\ \A w \in Workers : worker[w].pc \in Bound => worker[w].item \in Items

-----------------------------------------------------------------------------
(* Safety                                                                    *)

Open(i) == {k \in DOMAIN ledger[i] : ledger[i][k].outcome = "open"}

\* The claim columns of queue_items and the attempt ledger never disagree: an item is
\* in progress exactly when one attempt is open, that attempt is the newest one, and the
\* row carries its token and its worker (queue.py: claim, reclaim, complete, fail and the
\* overrides each update two tables in one transaction).
LedgerMatchesClaim ==
    \A i \in Items :
        IF Leased(i)
        THEN /\ Open(i) = {Len(ledger[i])}
             /\ row[i].token = Len(ledger[i])
             /\ row[i].claimedBy = ledger[i][row[i].token].worker
        ELSE /\ Open(i) = {}
             /\ row[i].token = NoToken

\* An item is handed to workers at most max_retries + 1 times in its whole life, whatever
\* crashes, expired leases, failures and operator requeues happen, because each way back
\* to pending spends one retry (queue.py: next_item, fail, _force_transition).
DeliveriesBounded == \A i \in Items : Len(ledger[i]) <= MaxRetries + 1

Spent(i) == {k \in DOMAIN ledger[i] :
                ledger[i][k].outcome \in {"retry_scheduled", "failed", "lease_expired"}}
Forced(i) == {k \in DOMAIN overrides[i] : overrides[i][k].action = "force_fail"}

\* retry_count is exactly what the audit tables account for: one per failed or expired
\* attempt and one per force_fail, none for a success or a quarantine, and no increment
\* is lost between the unlocked read in fail() and its guarded UPDATE.
RetryCountIsAudited ==
    \A i \in Items : row[i].retries = Cardinality(Spent(i)) + Cardinality(Forced(i))

Active(i) == row[i].status \in {"pending", "in_progress"}
Revived(i) == \E k \in DOMAIN overrides[i] :
                  overrides[i][k].from \in Terminal /\ overrides[i][k].to = "pending"

\* add_once keeps a reference from being active twice: two items it inserted for one
\* reference are both pending or in progress only if an operator revived a finished one.
OneActivePerReference ==
    \A i, j \in OnceItems :
        i # j /\ Reference[i] = Reference[j] /\ Active(i) /\ Active(j)
            => Revived(i) \/ Revived(j)

\* An undecodable item never reaches a worker, and is quarantined at most once between
\* operator overrides.
PoisonNeverDelivered ==
    \A i \in PoisonItems :
        /\ ledger[i] = <<>>
        /\ poison[i] <= Len(overrides[i]) + 1

-----------------------------------------------------------------------------
(* What a step may never do                                                  *)

Expired(i) == clock - row[i].claimedAt > LeaseTimeout * TicksPerSecond
EndedByHolder(i) ==
    \E w \in Workers : /\ worker[w].pc \in {"working", "failing"}
                       /\ worker[w].item = i /\ worker[w].token = row[i].token
                       /\ worker'[w].pc = "idle"

\* A claim is taken from its holder only after lease_timeout has really elapsed since the
\* claim or its last renewal, by the holder itself, or by an operator: never by a stale
\* worker, even one that shares the holder's worker_id, nor by rounding to whole seconds.
\* The time counts from the recorded claimed_at, which a claim reads before BEGIN IMMEDIATE
\* can make it wait: that a lease may be old already when it is born is outside this property.
LeaseHonoured ==
    [][\A i \in Items :
          Leased(i) /\ (row'[i].token # row[i].token \/ row'[i].status # "in_progress") =>
              \/ Expired(i)
              \/ EndedByHolder(i)
              \/ Len(overrides'[i]) > Len(overrides[i])]_vars

\* Nothing is delivered before its durable eligibility time, although the row was selected
\* and the clock read before the claiming transaction; an item enters progress only from
\* pending.
NoEarlyDelivery ==
    [][\A i \in Items :
          row'[i].status = "in_progress" /\ row'[i].token # row[i].token =>
              row[i].status = "pending" /\ row[i].due <= clock]_vars

\* The transaction an item is bound to changes only to the transaction of the attempt that
\* holds the claim: retries, expiry, overrides and workers that lost the claim keep it.
BindingBelongsToClaim ==
    [][\A i \in Items :
          row'[i].tx # row[i].tx => Leased(i) /\ row'[i].tx = row[i].token]_vars

-----------------------------------------------------------------------------
(* The promise                                                               *)

\* What of an item's rows the abstract queue speaks about.
Promised(i) ==
    [status |-> row[i].status, retries |-> row[i].retries,
     log |-> [k \in DOMAIN ledger[i] |-> ledger[i][k].outcome],
     quarantines |-> poison[i]]

Promise == INSTANCE WorkQueue WITH item <- [i \in Items |-> Promised(i)]

\* The SQLite queue, with its stale reads, shared worker names, expiring leases and
\* two-table updates, does nothing the abstract queue could not do: an item is delivered
\* only while it waits, each delivery ends once and its first outcome stays, every way
\* back and every failure spends one retry, and each resting status has its cause.
ImplementsWorkQueue == Promise!Spec

-----------------------------------------------------------------------------
(* Liveness                                                                  *)

\* Every item that is waiting or in progress is eventually successful or failed: a dead
\* worker's lease expires, a delayed retry becomes due, a poison item does not block the
\* queue, and the retry budget ends the cycle.
EveryItemSettles ==
    \A i \in Items : Active(i) ~> row[i].status \in Terminal

=============================================================================
