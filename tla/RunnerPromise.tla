---------------------------- MODULE RunnerPromise ----------------------------
(***************************************************************************)
(* The queue item, as the queue runner (src/rpacore/runner.py) and its     *)
(* checkpoints treat it, keeps the promise of WorkQueue.                   *)
(*                                                                         *)
(* FencedRunner has its own picture of the queue: a row without attempts,  *)
(* whose lease may run out at any moment.  SqliteQueue implements          *)
(* WorkQueue; so does that picture, once a history variable records how    *)
(* each claim ended.  The variable follows the steps of FencedRunner and   *)
(* forbids none of them.                                                   *)
(***************************************************************************)
EXTENDS FencedRunner

VARIABLE outcomes   \* history variable: the outcome of each claim

promiseVars == <<vars, outcomes>>

\* The item was put in before the runners started; its payload decodes.
Promised == <<[status |-> item.status, retries |-> item.retries, log |-> outcomes,
               quarantines |-> 0]>>

Promise == INSTANCE WorkQueue
    WITH Items <- {1}, PoisonItems <- {}, MaxRetries <- QueueRetries, item <- Promised

\* Who ended the claim: an operator, a next_item that found the lease expired, or the
\* worker's own final transition.
Outcome ==
    IF item'.forced # item.forced THEN "admin_override"
    ELSE IF UNCHANGED worker THEN "lease_expired"
    ELSE IF item'.status = "successful" THEN "successful"
    ELSE IF item'.status = "pending" THEN "retry_scheduled"
    ELSE "failed"

ClaimEnds ==
    item'.forced # item.forced \/ (item.status = "in_progress" /\ item'.status # "in_progress")

Logged ==
    outcomes' = IF item'.claims # item.claims THEN Append(outcomes, "open")
                ELSE IF ClaimEnds THEN Promise!End(outcomes, Outcome)
                ELSE outcomes

PromiseInit == Init /\ outcomes = <<>>
PromiseNext == Next /\ Logged
PromiseSpec == PromiseInit /\ [][PromiseNext]_promiseVars

-----------------------------------------------------------------------------

\* Whatever workers crash, lose their lease, go on without it or are overridden, the item
\* is delivered, closed and retried only as WorkQueue promises from the moment it was put
\* in: a claim ends once, every way back costs a retry, and the budget is kept.
RunnerKeepsPromise ==
    /\ Promised = <<Promise!Turn(Promise!Absent, "pending", <<>>)>>
    /\ [][Promise!Next]_Promised
=============================================================================
