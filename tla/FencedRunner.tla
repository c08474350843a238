----------------------------- MODULE FencedRunner -----------------------------
(***************************************************************************)
(* Queue workers that run durable transactions: src/rpacore/runner.py with *)
(* transaction_db_path set, and the fenced checkpoint of                   *)
(* src/rpacore/_queue_checkpoint.py that joins queue and transaction store.*)
(*                                                                         *)
(* One queue item is delivered to worker after worker.  A worker whose     *)
(* lease ran out is not stopped: it goes on with its step, its checkpoint  *)
(* and its final transition, beside the worker that holds the claim now.   *)
(* What keeps them apart is the claim token and the revision, tested in    *)
(* the transaction that writes.                                            *)
(*                                                                         *)
(* The queue is as abstract as the runner sees it (SqliteQueue has its     *)
(* detail; a lease may run out at any moment), and so is the engine: one   *)
(* pass, whose moves are each followed by a checkpoint (Engine has its     *)
(* retry passes, halting failures and memory errors).  The transaction a   *)
(* claim builds is named by the claim's token.                             *)
(***************************************************************************)
EXTENDS Transactions

CONSTANTS
    Workers,
    CanEnd,         \* the ways in which user code may end each step
    QueueRetries,   \* [queue] max_retries
    RetryBusiness,  \* retry_business_failures
    MaxManual,      \* bound: saves from outside the queue
    MaxForced       \* bound: operator overrides

Endings == {"ok", "skip", "business", "system"}

ASSUME RunnerAssumption ==
    /\ NumSteps \in Nat
    /\ CanEnd \in [Steps -> SUBSET Endings]
    /\ QueueRetries \in Nat
    /\ RetryBusiness \in BOOLEAN
    /\ MaxManual \in Nat /\ MaxForced \in Nat

VARIABLES
    item,    \* the row of the queue item
    store,   \* the transaction database: revision and snapshot per transaction
    worker,  \* where each worker process is, and what it remembers
    manual,  \* a save_transaction from outside the queue: what it read, and how many so far
    bodies   \* history variable: executions of each step's body by workers

vars == <<item, store, worker, manual, bodies>>

NoClaim == 0
NoTransaction == 0
Ids == 1..QueueRetries + 1
Absent == [rev |-> 0, tx |-> Nothing]

-----------------------------------------------------------------------------
(* The engine, one move at a time                                            *)

Begun(tx) == Record([tx EXCEPT !.status = "in_progress", !.outcome = "unknown"],
                    "transaction_started", 0)

Ended(tx, s, ending) ==
    CASE ending = "ok" -> Mark(tx, s, "successful", "step_succeeded")
      [] ending = "skip" -> Mark(tx, s, "skipped", "step_skipped")
      [] OTHER -> LET exc == [kind |-> ending, halts |-> ending = "system",
                              retry |-> tx.retries]
                  IN  Mark([tx EXCEPT !.steps[s].excs = Append(@, exc)],
                           s, "failed", "step_failed")

Executing(tx) == {s \in DOMAIN tx.steps : tx.steps[s].status = "in_progress"}
Waiting(tx) == {s \in DOMAIN tx.steps : tx.steps[s].status = "pending"}

\* What the engine may do next with a transaction: begin, end the step in progress, start
\* the next one, or settle.  A system failure ends the pass; business failures do not.
Moves(tx) ==
    IF tx.status = "pending" THEN {Begun(tx)}
    ELSE IF Executing(tx) # {}
         THEN UNION {{Ended(tx, s, e) : e \in CanEnd[s]} : s \in Executing(tx)}
    ELSE IF Waiting(tx) = {} \/ Retryable(tx) # {} THEN {Settled(tx)}
    ELSE {Mark(tx, s, "in_progress", "step_started") :
             s \in {r \in Waiting(tx) : \A other \in Waiting(tx) : r <= other}}

Over(tx) == tx.status \in {"successful", "failed"}

-----------------------------------------------------------------------------
(* The claim                                                                 *)

\* base is a history variable: the snapshot the worker last read or wrote.
Idle == [pc |-> "idle", token |-> NoClaim, tx |-> NoTransaction, rev |-> 0,
         mem |-> Nothing, base |-> Nothing, err |-> "none", heartbeat |-> "none",
         intended |-> FALSE]

Outside == [tx |-> NoTransaction, mem |-> Nothing, saves |-> 0]

At(w, pc) == worker[w].pc = pc
Goto(w, pc) == worker' = [worker EXCEPT ![w].pc = pc]
Stop(w) == worker' = [worker EXCEPT ![w] = Idle]
GiveUp(w, err) == worker' = [worker EXCEPT ![w] = [@ EXCEPT !.pc = "ending", !.err = err]]

Owns(w) == item.status = "in_progress" /\ item.token = worker[w].token

\* faulty: the retry budget is not looked at
ReturnedAlways(r, retry) ==
    [r EXCEPT !.status = IF retry THEN "pending" ELSE "failed",
              !.token = NoClaim, !.retries = @ + 1]
\* A claim that ends without success: retried while the budget lasts.
Returned(r, retry) ==
    [r EXCEPT !.status = IF retry /\ r.retries < QueueRetries THEN "pending" ELSE "failed",
              !.token = NoClaim, !.retries = @ + 1]

Init ==
    /\ item = [status |-> "pending", token |-> NoClaim, claims |-> 0, retries |-> 0,
               tx |-> NoTransaction, forced |-> 0]
    /\ store = [t \in Ids |-> Absent]
    /\ worker = [w \in Workers |-> Idle]
    /\ manual = Outside
    /\ bodies = [s \in Steps |-> 0]

\* next_item; the worker sees the binding of that moment, and its heartbeat starts.
Claim(w) ==
    LET token == item.claims + 1 IN
    /\ At(w, "idle") /\ item.status = "pending"
    /\ item' = [item EXCEPT !.status = "in_progress", !.token = token, !.claims = token]
    /\ worker' = [worker EXCEPT ![w] = [Idle EXCEPT !.pc = "claimed", !.token = token,
                                                    !.tx = item.tx]]
    /\ UNCHANGED <<store, manual, bodies>>

\* The lease of the holder runs out and some next_item reclaims the item.
Expire ==
    /\ item.status = "in_progress"
    /\ item' = Returned(item, TRUE)
    /\ UNCHANGED <<store, worker, manual, bodies>>

\* The heartbeat thread ends when a renewal is refused or fails for another reason; it
\* cannot be heard of while the runner holds operation_lock.
HeartbeatFails(w) ==
    /\ ~At(w, "idle") /\ worker[w].heartbeat = "none"
    /\ \/ worker' = [worker EXCEPT ![w].heartbeat = "broken"]
       \/ ~Owns(w) /\ worker' = [worker EXCEPT ![w].heartbeat = "lost"]
    /\ UNCHANGED <<item, store, manual, bodies>>

-----------------------------------------------------------------------------
(* _save_queue_transaction_fenced                                            *)

\* faulty: the claim is not tested; and the revision is not tested
FenceOpen(w, t) == item.tx \in {NoTransaction, t} /\ store[t].rev = worker[w].rev
FenceUnrevised(w, t) == Owns(w) /\ item.tx \in {NoTransaction, t}
\* What the write transaction tests before it touches a row.
Fence(w, t) ==
    /\ Owns(w)
    /\ item.tx \in {NoTransaction, t}
    /\ store[t].rev = worker[w].rev

\* faulty: a save from outside leaves the revision alone
WrittenUnrevised(t, tx) ==
    [store EXCEPT ![t] = [@ EXCEPT !.tx = [tx EXCEPT
                             !.history = Merged(store[t].tx.history, tx.history)]]]
Written(t, tx) ==
    [store EXCEPT ![t] = [rev |-> store[t].rev + 1,
                          tx |-> [tx EXCEPT
                             !.history = Merged(store[t].tx.history, tx.history)]]]

\* faulty: the binding is left to a later call
BoundLater(t) == item
\* The initial save binds the item in the same transaction.
Bound(t) == [item EXCEPT !.tx = t]

-----------------------------------------------------------------------------
(* _transaction_for_queue_item                                               *)

\* The builder, or the validation of what it built, fails.
BuildFails(w, err) ==
    /\ At(w, "claimed")
    /\ err \in {"retry", "final"}
    /\ GiveUp(w, err)
    /\ UNCHANGED <<item, store, manual, bodies>>

\* An unbound item: the transaction is built, stored and bound.
Bind(w) ==
    LET t == worker[w].token IN
    /\ At(w, "claimed") /\ worker[w].tx = NoTransaction
    /\ IF Fence(w, t)
       THEN /\ store' = Written(t, Fresh)
            /\ item' = Bound(t)
            /\ worker' = [worker EXCEPT ![w] = [@ EXCEPT !.pc = "running", !.tx = t, !.rev = 1,
                                                         !.mem = Fresh, !.base = store'[t].tx]]
       ELSE GiveUp(w, "lost") /\ UNCHANGED <<item, store>>
    /\ UNCHANGED <<manual, bodies>>

\* Any other error of the initial save, before or after its commit.
BindFails(w, done) ==
    LET t == worker[w].token IN
    /\ At(w, "claimed") /\ worker[w].tx = NoTransaction
    /\ IF done
       THEN Fence(w, t) /\ store' = Written(t, Fresh) /\ item' = Bound(t)
       ELSE UNCHANGED <<item, store>>
    /\ GiveUp(w, "retry")
    /\ UNCHANGED <<manual, bodies>>

\* faulty: a finished transaction is run again
NeedsRunAlways(tx) == TRUE
NeedsRun(tx) == tx.status # "successful"

\* A bound item: snapshot and revision come from one read transaction.
Load(w) ==
    LET t == worker[w].tx
        tx == Prepared(store[t].tx, RetryBusiness)
    IN
    /\ At(w, "claimed") /\ t # NoTransaction
    /\ worker' = [worker EXCEPT ![w] =
                      [@ EXCEPT !.pc = IF NeedsRun(tx) THEN "running" ELSE "returned",
                                !.rev = store[t].rev, !.mem = tx, !.base = store[t].tx]]
    /\ UNCHANGED <<item, store, manual, bodies>>

-----------------------------------------------------------------------------
(* engine.run under the lease-checked, fenced checkpoint                     *)

Advance(w) ==
    /\ At(w, "running")
    /\ \E tx \in Moves(worker[w].mem) :
          worker' = [worker EXCEPT ![w] = [@ EXCEPT !.pc = "moved", !.mem = tx]]
    /\ UNCHANGED <<item, store, manual, bodies>>

\* heartbeat.raise_if_failed, before and after the save and when the engine returned.
LeaseCheckFails(w) ==
    /\ worker[w].pc \in {"moved", "saved", "returned"}
    /\ worker[w].heartbeat # "none"
    /\ GiveUp(w, IF worker[w].heartbeat = "lost" THEN "lost" ELSE "renewal")
    /\ UNCHANGED <<item, store, manual, bodies>>

\* The lease check and the save share operation_lock, so they are one step.
Save(w) ==
    LET t == worker[w].tx IN
    /\ At(w, "moved") /\ worker[w].heartbeat = "none"
    /\ IF Fence(w, t)
       THEN /\ store' = Written(t, worker[w].mem)
            /\ worker' = [worker EXCEPT ![w] = [@ EXCEPT !.pc = "saved", !.rev = store'[t].rev,
                                                         !.base = store'[t].tx]]
       ELSE GiveUp(w, "lost") /\ UNCHANGED store
    /\ UNCHANGED <<item, manual, bodies>>

\* _in_memory_checkpoint_failure_allows_queue_retry
AllowsRetryUnstored(tx) == LastEvent(tx) = "step_failed" => BusinessFailed(tx) = {}
\* _transaction_history_allows_queue_retry
AllowsRetryStored(tx) == LastEvent(tx) # "step_succeeded" /\ AllowsRetryUnstored(tx)

\* Any other error of the save, before or after its commit.  The policy looks at what it
\* can read back; the state may also not be valid JSON, which is never retried.
SaveFails(w, done) ==
    LET t == worker[w].tx
        tx == worker[w].mem
        left == IF done THEN Written(t, tx) ELSE store
        policy == IF left[t].tx.history = tx.history
                  THEN AllowsRetryStored(left[t].tx) ELSE AllowsRetryUnstored(tx)
    IN
    /\ At(w, "moved") /\ worker[w].heartbeat = "none"
    /\ done => Fence(w, t)
    /\ store' = left
    /\ \/ GiveUp(w, IF policy THEN "retry" ELSE "final")
       \/ GiveUp(w, IF AllowsRetryUnstored(tx) THEN "retry" ELSE "final")
       \/ ~done /\ GiveUp(w, "final")
    /\ UNCHANGED <<item, manual, bodies>>

\* The engine goes on; a step that was recorded as started is executed.
Continue(w) ==
    /\ At(w, "saved") /\ worker[w].heartbeat = "none"
    /\ Goto(w, IF Over(worker[w].mem) THEN "returned" ELSE "running")
    /\ bodies' = [s \in Steps |-> IF s \in Executing(worker[w].mem)
                                  THEN bodies[s] + 1 ELSE bodies[s]]
    /\ UNCHANGED <<item, store, manual>>

-----------------------------------------------------------------------------
(* The end of the claim                                                      *)

\* faulty: a failed transaction counts as well
SucceededOver(tx) == Over(tx)
Succeeded(tx) == tx.status = "successful"

Return(w) ==
    /\ At(w, "returned") /\ worker[w].heartbeat = "none"
    /\ worker' = [worker EXCEPT ![w] = [@ EXCEPT !.pc = "ending",
                                                 !.intended = Succeeded(worker[w].mem)]]
    /\ UNCHANGED <<item, store, manual, bodies>>

\* _transaction_has_only_business_failures
OnlyBusiness(tx) ==
    LET failed == {s \in DOMAIN tx.steps : tx.steps[s].status = "failed"}
    IN  failed # {} /\ failed = BusinessFailed(tx)

\* The last lease checks follow the report, the notifiers and the after_item callback.
Lost(w) == "lost" \in {worker[w].err, worker[w].heartbeat}
Retry(w) ==
    \/ worker[w].err \in {"retry", "renewal"}
    \/ worker[w].err = "none" /\ (\/ worker[w].heartbeat = "broken"
                                  \/ RetryBusiness
                                  \/ ~OnlyBusiness(worker[w].mem))

\* The final transition is skipped when the claim is known to be lost; otherwise the queue
\* refuses it if it is.
Close(w) ==
    /\ At(w, "ending")
    /\ IF Lost(w) \/ ~Owns(w) THEN UNCHANGED item
       ELSE item' = IF worker[w].intended
                    THEN [item EXCEPT !.status = "successful", !.token = NoClaim]
                    ELSE Returned(item, Retry(w))
    /\ Stop(w)
    /\ UNCHANGED <<store, manual, bodies>>

\* The process dies, a fatal signal ends the run, or the final transition fails.
Crash(w) ==
    /\ ~At(w, "idle")
    /\ Stop(w)
    /\ UNCHANGED <<item, store, manual, bodies>>

-----------------------------------------------------------------------------
(* Others                                                                    *)

ForceTransition(new) ==
    /\ item.forced < MaxForced
    /\ item' = [new EXCEPT !.token = NoClaim, !.forced = @ + 1]
    /\ UNCHANGED <<store, worker, manual, bodies>>
ForceComplete == ForceTransition([item EXCEPT !.status = "successful"])
ForceFail(retry) == ForceTransition(Returned(item, retry))

\* Someone resumes the stored snapshot and saves it with save_transaction, which tests
\* neither the claim nor the revision; the snapshot may be old by then.
ManualRead(t) ==
    /\ manual.saves < MaxManual /\ manual.tx = NoTransaction
    /\ store[t] # Absent
    /\ manual' = [manual EXCEPT !.tx = t, !.mem = Prepared(store[t].tx, FALSE)]
    /\ UNCHANGED <<item, store, worker, bodies>>
ManualSave ==
    /\ manual.tx # NoTransaction
    /\ manual' = [Outside EXCEPT !.saves = manual.saves + 1]
    /\ store' = Written(manual.tx, manual.mem)
    /\ UNCHANGED <<item, worker, bodies>>

-----------------------------------------------------------------------------

Prepare(w) ==
    \/ Bind(w) \/ Load(w)
    \/ \E done \in BOOLEAN : BindFails(w, done)
    \/ \E err \in {"retry", "final"} : BuildFails(w, err)

Run(w) ==
    \/ Advance(w) \/ Save(w) \/ Continue(w) \/ LeaseCheckFails(w)
    \/ \E done \in BOOLEAN : SaveFails(w, done)

Next ==
    \/ \E w \in Workers :
        \/ Claim(w) \/ Prepare(w) \/ Run(w) \/ Return(w) \/ Close(w)
        \/ HeartbeatFails(w) \/ Crash(w)
    \/ Expire
    \/ ForceComplete \/ \E retry \in BOOLEAN : ForceFail(retry)
    \/ ManualSave \/ \E t \in Ids : ManualRead(t)

Spec == Init /\ [][Next]_vars

-----------------------------------------------------------------------------
(* Types                                                                     *)

Item == [status : {"pending", "in_progress", "successful", "failed"}, token : Nat,
         claims : Nat, retries : Nat, tx : Ids \cup {NoTransaction}, forced : Nat]
Snapshot == [rev : Nat, tx : Transaction \cup {Nothing}]
Pcs == {"idle", "claimed", "running", "moved", "saved", "returned", "ending"}
Local == [pc : Pcs, token : Nat, tx : Ids \cup {NoTransaction}, rev : Nat,
          mem : Transaction \cup {Nothing}, base : Transaction \cup {Nothing},
          err : {"none", "lost", "renewal", "retry", "final"},
          heartbeat : {"none", "lost", "broken"}, intended : BOOLEAN]

\* The type of every variable; no more claims are made than the retry budget allows.
TypeOK ==
    /\ item \in Item /\ item.claims <= QueueRetries + 1
    /\ store \in [Ids -> Snapshot]
    /\ worker \in [Workers -> Local]
    /\ manual \in [tx : Ids \cup {NoTransaction}, mem : Transaction \cup {Nothing},
                  saves : 0..MaxManual]
    /\ bodies \in [Steps -> Nat]

-----------------------------------------------------------------------------
(* Properties                                                                *)

\* Initial binding is atomic: a transaction is in the store exactly if the item is bound
\* to it, so the claims of an item never leave an orphan or a second transaction, and no
\* claim finds a binding that leads nowhere.
OneTransactionPerItem == \A t \in Ids : store[t] # Absent <=> item.tx = t

\* A body runs only after its start was stored, and no later save by another worker or
\* from outside drops that entry (history rows are INSERT OR IGNORE): the stored history
\* counts every execution, also those of workers that had lost the claim.
EveryExecutionIsOnRecord ==
    \A s \in Steps : bodies[s] > 0 =>
        LET history == store[item.tx].tx.history
        IN  bodies[s] <= Cardinality({k \in DOMAIN history :
                             history[k].event = "step_started" /\ history[k].step = s})

\* The checkpoint is a compare-and-swap: a worker's write replaces the very snapshot that
\* worker read or wrote last, whoever wrote in between, save_transaction included.
NoLostUpdate ==
    [][\A t \in Ids : store'[t] # store[t] /\ UNCHANGED manual =>
          \E w \in Workers : worker'[w] # worker[w] /\ worker[w].base = store[t].tx]_vars

\* The claim test of the checkpoint is for the holder: whatever workers that lost the claim
\* still try, the revision the holder remembers stays current and its saves are accepted,
\* unless save_transaction intervened.
HolderIsCurrent ==
    \A w \in Workers : Owns(w) /\ manual.saves = 0
        /\ worker[w].pc \in {"running", "moved", "saved", "returned"}
        => worker[w].rev = store[worker[w].tx].rev

\* A worker closes an item as successful only if that success is stored: also when it
\* stopped between its last checkpoint and complete(), or another worker was faster.
\* Only save_transaction, which is unconditional, can have replaced the snapshot.
CompletionIsStored ==
    [][/\ item'.status = "successful" /\ item.status # "successful"
       /\ UNCHANGED item.forced /\ manual.saves = 0
       => store[item.tx].tx.status = "successful"]_vars

\* No worker takes back a stored outcome that recovery is to respect: a success, and a
\* business failure unless retry_business_failures is set.
StoredOutcomeIsKept ==
    [][UNCHANGED manual => \A t \in Ids : store[t] # Absent => \A s \in Steps :
          LET before == store[t].tx
              after == store'[t].tx
          IN  /\ before.steps[s].status = "successful" => after.steps[s] = before.steps[s]
              /\ s \in BusinessFailed(before) /\ ~RetryBusiness
                 => after.steps[s] = before.steps[s]]_vars

\* A stored success of the whole transaction is never run again: the next claim, after a
\* crash between the last checkpoint and complete() or after an override, only closes.
StoredVerdictIsFinal ==
    [][UNCHANGED manual => \A t \in Ids :
          store[t].tx.status = "successful" => store'[t] = store[t]]_vars

\* src/docs/durability.md:866-869: after a checkpoint failure that follows a successful,
\* skipped or terminal business-failed step outcome, the item is not retried.
UnstoredOutcomeIsNotRetried ==
    [][\A w \in Workers :
          /\ At(w, "ending") /\ worker'[w] = Idle /\ worker[w].err = "retry"
          /\ \/ LastEvent(worker[w].mem) \in {"step_succeeded", "step_skipped"}
             \/ /\ LastEvent(worker[w].mem) = "step_failed"
                /\ BusinessFailed(worker[w].mem) # {}
          => ~(item.status = "in_progress" /\ item'.status = "pending")]_vars

=============================================================================
