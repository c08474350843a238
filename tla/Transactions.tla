---------------------------- MODULE Transactions ----------------------------
(***************************************************************************)
(* The Transaction object of RPA Core and the pure functions on it:        *)
(* history (src/rpacore/transaction.py), the classification of failures    *)
(* and the verdict (src/rpacore/engine.py), recovery of a stored snapshot  *)
(* (src/rpacore/recovery.py) and the merge of history rows on a save       *)
(* (src/rpacore/persistence.py).                                           *)
(*                                                                         *)
(* Steps are named by their execution_order.  The retry disposition is a   *)
(* function of the outcome category in every assignment of the code and is *)
(* not stored twice: "system_failed" is retry_exhausted, "business_failed" *)
(* and "validation_failed" are not_requested, "successful" is              *)
(* not_applicable, the others are unknown.                                 *)
(***************************************************************************)
EXTENDS Integers, SequencesExt, FiniteSetsExt

CONSTANT NumSteps    \* steps of a transaction

Steps == 1..NumSteps
StepStatuses == {"pending", "in_progress", "successful", "failed", "skipped"}
Done == {"successful", "skipped"}

Nothing == [status |-> "none", outcome |-> "unknown", retries |-> 0,
            steps |-> <<>>, history |-> <<>>]

-----------------------------------------------------------------------------
(* Transactions                                                              *)

Fresh == [status |-> "pending", outcome |-> "unknown", retries |-> 0,
          steps |-> [s \in Steps |-> [status |-> "pending", excs |-> <<>>]],
          history |-> <<>>]

\* append_history: step 0 stands for an entry about the transaction itself.
Record(tx, event, s) ==
    [tx EXCEPT !.history = Append(@, [event |-> event, retry |-> tx.retries, step |-> s])]

\* The mutation of one step and its history entry.
Mark(tx, s, status, event) == Record([tx EXCEPT !.steps[s].status = status], event, s)

\* Makes the steps of a set runnable.
Reset(tx, S) ==
    [tx EXCEPT !.steps = [s \in Steps |-> IF s \in S
                                          THEN [tx.steps[s] EXCEPT !.status = "pending"]
                                          ELSE tx.steps[s]]]

LastEvent(tx) == IF tx.history = <<>> THEN "none" ELSE Last(tx.history).event
Resumed(tx) == LastEvent(tx) = "transaction_resumed"

FailedLastBy(tx, s, kind) ==
    /\ tx.steps[s].status = "failed"
    /\ tx.steps[s].excs # <<>>
    /\ Last(tx.steps[s].excs).kind = kind

Retryable(tx) == {s \in Steps : FailedLastBy(tx, s, "system")}
BusinessFailed(tx) == {s \in Steps : FailedLastBy(tx, s, "business")}
Halting(tx) == {s \in BusinessFailed(tx) : Last(tx.steps[s].excs).halts}

\* _last_failed_exception: the exception of the newest STEP_FAILED entry.
TerminalKind(tx) ==
    LET failures == {k \in DOMAIN tx.history : tx.history[k].event = "step_failed"}
        entry == tx.history[Max(failures)]
        excs == tx.steps[entry.step].excs
        same == {k \in DOMAIN excs : excs[k].retry = entry.retry}
    IN  IF failures = {} \/ same = {} THEN "none" ELSE excs[Max(same)].kind

\* Operators marked "faulty" are seeded bugs: no action uses them.  Each stands in for
\* the definition that follows it, to show that a property would notice the bug.

\* faulty: a transaction with failed steps is reported as successful
SettledAny(tx) == Record([tx EXCEPT !.status = "successful", !.outcome = "successful"],
                         "transaction_completed", 0)

\* The verdict at the end of a run.
Settled(tx) ==
    LET outcome == IF \A s \in Steps : tx.steps[s].status \in Done THEN "successful"
                   ELSE IF TerminalKind(tx) = "business" THEN "business_failed"
                   ELSE "system_failed"
    IN  Record([tx EXCEPT !.outcome = outcome,
                          !.status = IF outcome = "successful" THEN outcome ELSE "failed"],
               "transaction_completed", 0)

-----------------------------------------------------------------------------
(* Recovery of a persisted snapshot                                          *)

Interrupted(tx) ==
    tx.status = "in_progress" \/ \E s \in Steps : tx.steps[s].status = "in_progress"

\* faulty: the current retry count stands for the retry pass of the failure
PropagatedNow(tx) ==
    {s \in Steps : \E k \in DOMAIN tx.history, h \in Halting(tx) :
        /\ tx.history[k].event = "step_skipped" /\ tx.history[k].step = s
        /\ h < s /\ tx.retries = tx.history[k].retry}
\* Skips that history ties to a halting failure: same retry pass, later step.
Propagated(tx) ==
    {s \in Steps : \E k \in DOMAIN tx.history, h \in Halting(tx) :
        /\ tx.history[k].event = "step_skipped" /\ tx.history[k].step = s
        /\ h < s /\ Last(tx.steps[h].excs).retry = tx.history[k].retry}

PreservedSkips(tx, again) ==
    LET kept == IF Interrupted(tx) \/ Resumed(tx)
                THEN {s \in Steps : tx.steps[s].status = "skipped"} ELSE Propagated(tx)
    IN  IF again THEN kept \ Propagated(tx) ELSE kept

\* faulty: the exception that failed the step is not looked at
ResumedStatusPlain(tx, s, again) ==
    IF \/ tx.steps[s].status = "successful"
       \/ (tx.steps[s].status = "skipped" /\ s \in PreservedSkips(tx, again))
    THEN tx.steps[s].status ELSE "pending"

ResumedStatus(tx, s, again) ==
    IF \/ tx.steps[s].status = "successful"
       \/ (tx.steps[s].status = "skipped" /\ s \in PreservedSkips(tx, again))
       \/ (s \in BusinessFailed(tx) /\ ~again)
    THEN tx.steps[s].status ELSE "pending"

\* faulty: a status that Status does not know; and a resumed transaction that starts a new
\* history
PreparedMisnamed(tx, again) ==
    Record([tx EXCEPT !.status = "resumed", !.retries = 0], "transaction_resumed", 0)
PreparedAnew(tx, again) ==
    Record([tx EXCEPT !.status = "pending", !.retries = 0, !.history = <<>>],
           "transaction_resumed", 0)

\* _prepare_resumed_transaction: the outcome of the snapshot is kept until the next run.
Prepared(tx, again) ==
    LET ready == [tx EXCEPT !.status = "pending", !.retries = 0,
                            !.steps = [s \in Steps |-> [tx.steps[s] EXCEPT
                                          !.status = ResumedStatus(tx, s, again)]]]
    IN  IF tx.status = "successful" THEN tx
        ELSE IF Resumed(tx) THEN ready
        ELSE Record(ready, "transaction_resumed", 0)

-----------------------------------------------------------------------------
(* Storage                                                                   *)

\* Child rows of history are INSERT OR IGNORE by sequence.
Merged(old, new) ==
    [k \in 1..Max({Len(old), Len(new)}) |-> IF k <= Len(old) THEN old[k] ELSE new[k]]

-----------------------------------------------------------------------------
(* Types                                                                     *)

Outcomes == {"unknown", "successful", "business_failed", "validation_failed",
             "system_failed", "interrupted"}
Events == {"transaction_started", "step_started", "step_succeeded", "step_failed",
           "step_skipped", "step_interrupted", "retry_scheduled", "transaction_resumed",
           "transaction_completed"}
Exc == [kind : {"business", "system"}, halts : BOOLEAN, retry : Nat]
Entry == [event : Events, retry : Nat, step : Steps \cup {0}]
StepRecord == [status : StepStatuses, excs : Seq(Exc)]
Transaction == [status : {"pending", "in_progress", "successful", "failed"},
                outcome : Outcomes, retries : Nat,
                steps : [Steps -> StepRecord], history : Seq(Entry)]

=============================================================================
