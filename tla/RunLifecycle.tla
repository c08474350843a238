---------------------------- MODULE RunLifecycle ----------------------------
(***************************************************************************)
(* One call of run_queue_loop (src/rpacore/runner.py), or of               *)
(* execute_transaction (src/rpacore/execution.py), from start to return.   *)
(*                                                                         *)
(* The thread of the caller acquires the resource scope, claims items one  *)
(* at a time, executes, reports, notifies, calls back and closes each, and *)
(* releases the scope; beside it a heartbeat thread renews the lease of    *)
(* the item in hand.  The two share operation_lock.  User code (the scope, *)
(* the engine's steps, notifiers, callbacks) may fail in every way, the    *)
(* database may be locked, the lease may lapse, a signal may arrive and    *)
(* the caller may set the stop event.  What is stored of the transaction   *)
(* is in FencedRunner; what the queue does with an item is in SqliteQueue. *)
(***************************************************************************)
EXTENDS Integers, FiniteSets

CONSTANTS
    Configs,      \* how the call may be configured
    Items,        \* ranks of the queue items
    MaxRetries,   \* [queue] max_retries
    Notifiers,    \* number of notifiers
    Attempts      \* attempts of a claim, renewal, transition, notification or save

Options == [mode : {"loop", "direct"}, scoped : BOOLEAN, durable : BOOLEAN,
            custom : BOOLEAN, retryBusiness : BOOLEAN]

\* transaction_db_path requires the built-in queue.
ASSUME LifecycleAssumption ==
    /\ Configs \subseteq {o \in Options : ~(o.custom /\ o.durable)}
    /\ Items \subseteq Nat \ {0} /\ IsFiniteSet(Items)
    /\ MaxRetries \in Nat /\ Notifiers \in Nat /\ Attempts \in Nat \ {0}

VARIABLES
    option,   \* how the call was configured
    run,      \* where the caller's thread is, and its local variables
    beat,     \* the heartbeat thread and its _LeaseHeartbeat
    lock,     \* holder of operation_lock
    queue,    \* the queue items, as this worker sees them
    stop,     \* the caller's stop_event
    count,    \* QueueRunSummary
    done      \* history: what has really been done so far

vars == <<option, run, beat, lock, queue, stop, count, done>>
thread == <<option, queue, stop, count, done>>

NoItem == 0
Errors == {"none", "ordinary", "fatal"}

\* The counters of claims and their dispositions; those of errors that change nothing
\* else (callback, notification, lifecycle, persistence) are left out.
NoCount == [processed |-> 0, completed |-> 0, failed |-> 0, retryScheduled |-> 0,
            terminalFailed |-> 0, leaseLost |-> 0, unknown |-> 0]

\* The local variables of _run_claimed_item_with_context.
NewItem == [item |-> NoItem, status |-> "none", outcome |-> "none", built |-> FALSE,
            intended |-> FALSE, lost |-> FALSE, notifier |-> 0]

Init ==
    /\ option \in Configs
    /\ run = [pc |-> "start", error |-> "none", scope |-> "none", attempt |-> 1,
              local |-> NewItem, joined |-> TRUE]
    /\ beat = [pc |-> "off", item |-> NoItem, error |-> "none", attempt |-> 1,
               stop |-> FALSE]
    /\ lock = "free"
    /\ queue = [i \in Items |-> [status |-> "pending", retries |-> 0, held |-> FALSE]]
    /\ stop = FALSE
    /\ count = NoCount
    /\ done = [completed |-> 0, retried |-> 0, failed |-> 0, released |-> 0,
               finished |-> 0, late |-> 0]

At(pc) == run.pc = pc
InItem == run.local.item # NoItem
Item == queue[run.local.item]

\* faulty: one attempt too many
ExhaustedLate == run.attempt > Attempts
Exhausted == run.attempt = Attempts

\* faulty: the exception leaves _run_items before the finally clause stops the heartbeat
RaisedAtOnce(e) == run' = [run EXCEPT !.pc = "leaving", !.error = e]
\* An exception leaves the loop: through the finally clause of _run_items when an item is
\* in hand, then through the handlers of run_queue_loop.
Raised(e) ==
    run' = [run EXCEPT !.pc = IF InItem THEN "stopping" ELSE "leaving", !.error = e]

Goto(pc) == run' = [run EXCEPT !.pc = pc, !.attempt = 1]
Set(pc, local) == run' = [run EXCEPT !.pc = pc, !.attempt = 1, !.local = local]
Again == run' = [run EXCEPT !.attempt = @ + 1]

-----------------------------------------------------------------------------
(* Start and resource scope                                                  *)

\* Checks of the arguments, and _prepare_transaction_database.
Start ==
    /\ At("start")
    /\ \/ Goto("entering")
       \/ \E e \in {"ordinary", "fatal"} : Raised(e)
    /\ UNCHANGED <<thread, beat, lock>>

Working == IF option.mode = "loop" THEN "polling" ELSE "executing"

\* resource_scope.__enter__; what it yields may be of a wrong type, which is an error
\* inside the scope.
EnterScope ==
    /\ At("entering")
    /\ \/ ~option.scoped /\ Goto(Working)
       \/ option.scoped /\ run' = [run EXCEPT !.pc = Working, !.scope = "open"]
       \/ option.scoped /\ run' = [run EXCEPT !.pc = "leaving", !.scope = "open",
                                              !.error = "ordinary"]
       \/ option.scoped /\ \E e \in {"ordinary", "fatal"} : Raised(e)
    /\ UNCHANGED <<thread, beat, lock>>

-----------------------------------------------------------------------------
(* Claims: _next_item_with_retries                                           *)

Poll ==
    /\ At("polling")
    /\ run' = [run EXCEPT !.pc = IF stop THEN "leaving" ELSE "claiming"]
    /\ UNCHANGED <<thread, beat, lock>>

Pending == {i \in Items : queue[i].status = "pending"}
Late == [done EXCEPT !.late = @ + IF stop THEN 1 ELSE 0]

Claim ==
    /\ At("claiming")
    /\ \E i \in Pending :
        /\ \A j \in Pending : i <= j
        /\ Set("working", [NewItem EXCEPT !.item = i])
        /\ queue' = [queue EXCEPT ![i] = [@ EXCEPT !.status = "in_progress", !.held = TRUE]]
        /\ beat' = [pc |-> "waiting", item |-> i, error |-> "none", attempt |-> 1,
                    stop |-> FALSE]
    /\ count' = [count EXCEPT !.processed = @ + 1]
    /\ done' = Late
    /\ UNCHANGED <<option, lock, stop>>

\* Nothing is eligible: pending items may be delayed, or claimed by others meanwhile.
ClaimNothing ==
    /\ At("claiming")
    /\ Goto("leaving")
    /\ done' = Late
    /\ UNCHANGED <<option, beat, lock, queue, stop, count>>

\* faulty: the stop event is read once for all attempts
ClaimAgainAtOnce == Again
\* The stop event is read before each attempt.
ClaimAgain == run' = [run EXCEPT !.pc = "polling", !.attempt = @ + 1]

\* Only the built-in claim is tried again, since its lock errors leave no claim.
ClaimFails ==
    /\ At("claiming")
    /\ \/ ~option.custom /\ ~Exhausted /\ ClaimAgain
       \/ Raised("ordinary")
    /\ done' = Late
    /\ UNCHANGED <<option, beat, lock, queue, stop, count>>

\* A signal may arrive after the claim was committed: nobody then knows its token.
ClaimInterrupted ==
    /\ At("claiming")
    /\ Raised("fatal")
    /\ \/ UNCHANGED queue
       \/ \E i \in Pending : queue' = [queue EXCEPT ![i].status = "in_progress"]
    /\ done' = Late
    /\ UNCHANGED <<option, beat, lock, stop, count>>

-----------------------------------------------------------------------------
(* The heartbeat thread                                                      *)

BeatWake ==
    /\ beat.pc = "waiting"
    /\ beat' = [beat EXCEPT !.pc = IF beat.stop THEN "ended" ELSE "wanting"]
    /\ UNCHANGED <<thread, run, lock>>

BeatLock ==
    /\ beat.pc = "wanting"
    /\ lock = "free"
    /\ lock' = "beat"
    /\ beat' = [beat EXCEPT !.pc = "renewing", !.attempt = 1]
    /\ UNCHANGED <<thread, run>>

BeatEnds(error) ==
    /\ lock' = "free"
    /\ beat' = [beat EXCEPT !.pc = "ended", !.error = error]

\* One attempt of _renew_lease_with_retries: renewed, refused, locked or failed.
BeatRenew ==
    /\ beat.pc = "renewing"
    /\ \/ /\ queue[beat.item].held
          /\ lock' = "free"
          /\ beat' = [beat EXCEPT !.pc = IF beat.stop THEN "ended" ELSE "waiting"]
       \/ ~queue[beat.item].held /\ BeatEnds("lost")
       \/ /\ beat.attempt < Attempts
          /\ beat' = [beat EXCEPT !.attempt = @ + 1]
          /\ UNCHANGED lock
       \/ BeatEnds("broken")
       \/ BeatEnds("fatal")
    /\ UNCHANGED <<thread, run>>

-----------------------------------------------------------------------------
(* One claimed item: _run_claimed_item_with_context                          *)

Found(outcome) == [run.local EXCEPT !.outcome = IF @ = "none" THEN outcome ELSE @]
Losing == Set("losing", [run.local EXCEPT !.lost = TRUE, !.outcome = "lost"])

\* heartbeat.raise_if_failed() and what the handlers around it make of the error.
Checked(next) ==
    \/ beat.error = "none" /\ Goto(next)
    \/ beat.error = "lost" /\ Losing
    \/ beat.error = "broken" /\ Set(next, Found("retryable"))
    \/ beat.error = "fatal" /\ Raised("fatal")

\* Build or resume the transaction and run the engine.  The status is the one the engine
\* leaves; an exception says whether the queue may retry, or that the claim is gone.
Work ==
    /\ At("working")
    /\ \/ \E status \in {"successful", "business", "system"} :
             Set("judging", [run.local EXCEPT !.built = TRUE, !.status = status])
       \/ \E outcome \in {"retryable", "final"}, built \in BOOLEAN :
             Set("checking", [run.local EXCEPT !.built = built, !.outcome = outcome])
       \/ /\ beat.error = "lost" \/ (option.durable /\ ~Item.held)
          /\ Losing
    /\ UNCHANGED <<thread, beat, lock>>

\* The lease check and the validation of the state after the engine returned: only then
\* is the success of the transaction taken for the item's.
Judge ==
    /\ At("judging")
    /\ \/ /\ beat.error = "none"
          /\ \/ Set("checking", [run.local EXCEPT !.intended = run.local.status = "successful"])
             \/ Set("checking", Found("final"))
       \/ beat.error # "none" /\ Checked("checking")
    /\ UNCHANGED <<thread, beat, lock>>

Check ==
    /\ \/ At("checking") /\ Checked("reporting")
       \/ At("rechecking") /\ Checked("deciding")
    /\ UNCHANGED <<thread, beat, lock>>

\* generate_report may raise: the outcome stays, and nobody is notified.
Report ==
    /\ At("reporting")
    /\ \/ run.local.built /\ Goto("notifying")
       \/ Goto("calling")
    /\ UNCHANGED <<thread, beat, lock>>

Notified == Set("notifying", [run.local EXCEPT !.notifier = @ + 1])

\* dispatch: each notifier in turn.  Temporary failures are tried again; a notifier that
\* fails in the end is counted and passed over.
Notify ==
    /\ At("notifying")
    /\ run.local.notifier < Notifiers
    /\ Notified \/ (~Exhausted /\ Again)
    /\ UNCHANGED <<thread, beat, lock>>

NotifyDone ==
    /\ At("notifying")
    /\ run.local.notifier = Notifiers
    /\ Goto("calling")
    /\ UNCHANGED <<thread, beat, lock>>

\* after_item: an ordinary error of the callback is counted and changes nothing else.
AfterItem ==
    /\ At("calling")
    /\ Goto("rechecking")
    /\ UNCHANGED <<thread, beat, lock>>

\* User code raises MemoryError or SystemExit, or Ctrl-C arrives.
Signal ==
    /\ run.pc \in {"polling", "working", "judging", "checking", "reporting", "notifying",
                   "calling", "rechecking", "deciding", "losing"}
    /\ Raised("fatal")
    /\ UNCHANGED <<thread, beat, lock>>

-----------------------------------------------------------------------------
(* The final transition, under operation_lock                                *)

Acquire ==
    /\ At("deciding")
    /\ lock = "free"
    /\ lock' = "main"
    /\ Goto("closing")
    /\ UNCHANGED <<thread, beat>>

\* The retry flag handed to fail().
Retry ==
    \/ run.local.outcome = "retryable"
    \/ run.local.outcome = "none" /\ (option.retryBusiness \/ run.local.status # "business")

\* What the queue makes of the item: complete(), or fail() within the retry budget.
Disposition ==
    IF run.local.intended THEN "completed"
    ELSE IF Retry /\ Item.retries < MaxRetries THEN "retried" ELSE "failed"

Resting == [completed |-> "successful", retried |-> "pending", failed |-> "failed"]

Transition ==
    /\ Item.held
    /\ queue' = [queue EXCEPT ![run.local.item] =
                   [status |-> Resting[Disposition], held |-> FALSE,
                    retries |-> @.retries + IF Disposition = "completed" THEN 0 ELSE 1]]
    /\ done' = [done EXCEPT ![Disposition] = @ + 1]

\* faulty: the retry flag is counted, not what became of it
CounterOfRequest(attested) ==
    IF run.local.intended THEN {"completed"}
    ELSE {"failed", IF Retry THEN "retryScheduled" ELSE "terminalFailed"}
\* The counters a transition advances; fail() of a custom provider may attest nothing.
Counters(attested) ==
    IF Disposition = "completed" THEN {"completed"}
    ELSE {"failed", IF ~attested THEN "unknown"
                    ELSE IF Disposition = "retried" THEN "retryScheduled" ELSE "terminalFailed"}

Counted(counters) ==
    count' = [c \in DOMAIN count |-> count[c] + IF c \in counters THEN 1 ELSE 0]

CloseApplied ==
    /\ At("closing")
    /\ Transition
    /\ \E attested \in {TRUE, ~option.custom} : Counted(Counters(attested))
    /\ lock' = "free"
    /\ Goto("stopping")
    /\ UNCHANGED <<option, beat, stop>>

CloseRefused ==
    /\ At("closing")
    /\ ~Item.held
    /\ lock' = "free"
    /\ Losing
    /\ UNCHANGED <<thread, beat>>

\* A custom provider may raise a lock error, or return a value outside its contract,
\* after it made the transition; the built-in queue has then changed nothing.
MaybeDone == UNCHANGED <<queue, done>> \/ (option.custom /\ Transition)

CloseLocked ==
    /\ At("closing")
    /\ ~Exhausted
    /\ Again
    /\ MaybeDone
    /\ UNCHANGED <<option, beat, lock, stop, count>>

\* The last lock error, or any other: the runner gives up and the lease is left to expire.
CloseBroken ==
    /\ At("closing")
    /\ Raised("ordinary")
    /\ MaybeDone
    /\ lock' = "free"
    /\ UNCHANGED <<option, beat, stop, count>>

\* A signal before or after the commit, in any case before it is counted.
CloseInterrupted ==
    /\ At("closing")
    /\ Raised("fatal")
    /\ UNCHANGED <<queue, done>> \/ Transition
    /\ lock' = "free"
    /\ UNCHANGED <<option, beat, stop, count>>

Lose ==
    /\ At("losing")
    /\ Counted({"failed", "leaseLost"})
    /\ Goto("stopping")
    /\ UNCHANGED <<option, beat, lock, queue, stop, done>>

-----------------------------------------------------------------------------
(* The end of an item: _stop_lease_heartbeat_preserving_error                *)

\* faulty: join() alone
StopNotSet == UNCHANGED beat
StopBeat == beat' = [beat EXCEPT !.stop = TRUE]

Stopping ==
    /\ At("stopping")
    /\ StopBeat
    /\ Goto("joining")
    /\ UNCHANGED <<thread, lock>>

\* faulty: the result of _run_claimed_item is ignored
NextAlways == IF run.error = "none" THEN "polling" ELSE "leaving"
\* A known lease loss ends the loop, as an exception does.
NextPc == IF run.error = "none" /\ ~run.local.lost THEN "polling" ELSE "leaving"

Join ==
    /\ At("joining")
    /\ beat.pc = "ended"
    /\ Set(NextPc, NewItem)
    /\ UNCHANGED <<thread, beat, lock>>

\* Ctrl-C while joining: a note if an exception is in flight, else the exception.
JoinInterrupted ==
    /\ At("joining")
    /\ run' = [run EXCEPT !.pc = "leaving", !.local = NewItem, !.joined = FALSE,
                          !.error = IF @ = "none" THEN "fatal" ELSE @]
    /\ UNCHANGED <<thread, beat, lock>>

-----------------------------------------------------------------------------
(* The end of the run                                                        *)

\* What resource_scope.__exit__ does: returns false or true, or raises.
Exits == {"falsy", "truthy", "ordinary", "fatal"}

\* faulty: the truth of __exit__ is honoured before the signal is looked at
AfterExitTruthy(e, exit) ==
    IF exit \in Errors THEN (IF e = "fatal" THEN e ELSE exit)
    ELSE IF exit = "truthy" THEN "none" ELSE e
\* The error left after the scope of the loop: a fatal one stays whatever __exit__ does;
\* __exit__ may suppress or replace an ordinary one.
AfterExit(e, exit) ==
    CASE e = "fatal" -> e
      [] e # "fatal" /\ exit \in Errors -> exit
      [] e # "fatal" /\ exit = "truthy" -> "none"
      [] OTHER -> e

\* Of execute_transaction: __exit__ may suppress or replace every exception.
AfterDirectExit(e, exit) ==
    IF exit \in Errors THEN exit ELSE IF exit = "truthy" THEN "none" ELSE e

Ending == IF option.mode = "loop" THEN "finishing" ELSE "over"

LeaveScope ==
    /\ At("leaving")
    /\ run.scope = "open"
    /\ \E exit \in Exits :
          run' = [run EXCEPT !.pc = Ending, !.scope = "closed",
                             !.error = IF option.mode = "loop" THEN AfterExit(@, exit)
                                       ELSE AfterDirectExit(@, exit)]
    /\ done' = [done EXCEPT !.released = @ + 1]
    /\ UNCHANGED <<option, beat, lock, queue, stop, count>>

NoScopeToLeave ==
    /\ At("leaving")
    /\ run.scope = "none"
    /\ Goto(Ending)
    /\ UNCHANGED <<thread, beat, lock>>

\* on_finish: an ordinary error is counted, a fatal one raised unless one is in flight.
OnFinish ==
    /\ At("finishing")
    /\ \/ Goto("over")
       \/ run' = [run EXCEPT !.pc = "over", !.error = "fatal"]
    /\ done' = [done EXCEPT !.finished = @ + 1]
    /\ UNCHANGED <<option, beat, lock, queue, stop, count>>

-----------------------------------------------------------------------------
(* execute_transaction                                                       *)

\* The engine reaches a checkpoint; it returns or raises.
Execute ==
    /\ At("executing")
    /\ option.durable
    /\ Goto("saving")
    /\ UNCHANGED <<thread, beat, lock>>

ExecuteEnds ==
    /\ At("executing")
    /\ Goto("leaving") \/ \E e \in {"ordinary", "fatal"} : Raised(e)
    /\ UNCHANGED <<thread, beat, lock>>

\* _save_transaction_with_retries.
DirectSave ==
    /\ At("saving")
    /\ \/ Goto("executing")
       \/ ~Exhausted /\ Again
       \/ \E e \in {"ordinary", "fatal"} : Raised(e)
    /\ UNCHANGED <<thread, beat, lock>>

-----------------------------------------------------------------------------
(* The rest of the system                                                    *)

SetStop ==
    /\ option.mode = "loop" /\ ~At("over")
    /\ ~stop
    /\ stop' = TRUE
    /\ UNCHANGED <<option, run, beat, lock, queue, count, done>>

\* A lease lapses and the item goes back to the queue, uses up its retries, or is
\* claimed by another worker.
Expire ==
    /\ \E i \in Items :
        /\ queue[i].status = "in_progress"
        /\ \E status \in {"elsewhere", IF queue[i].retries < MaxRetries
                                       THEN "pending" ELSE "failed"} :
              queue' = [queue EXCEPT ![i] = [status |-> status, held |-> FALSE,
                                             retries |-> @.retries + 1]]
    /\ UNCHANGED <<option, run, beat, lock, stop, count, done>>

-----------------------------------------------------------------------------

Claiming == Poll \/ Claim \/ ClaimNothing \/ ClaimFails
Heartbeat == BeatWake \/ BeatLock \/ BeatRenew
Processing == Work \/ Judge \/ Check \/ Report \/ Notify \/ NotifyDone \/ AfterItem
Closing == CloseApplied \/ CloseRefused \/ CloseLocked \/ CloseBroken
Leaving == LeaveScope \/ NoScopeToLeave \/ OnFinish
Direct == Execute \/ ExecuteEnds \/ DirectSave

\* The caller's thread, but for its waiting for the lock and for signals.
Main ==
    \/ Start \/ EnterScope \/ Claiming \/ Processing \/ Closing \/ Lose
    \/ Stopping \/ Join \/ Leaving \/ Direct

Signals == Signal \/ ClaimInterrupted \/ CloseInterrupted \/ JoinInterrupted

Next == Main \/ Acquire \/ Signals \/ Heartbeat \/ SetStop \/ Expire

Spec == Init /\ [][Next]_vars

\* Both threads run.  The heartbeat holds the lock only while it renews and then waits
\* for its interval, so the caller's thread gets the lock in the end.  User code returns,
\* and the engine makes finitely many checkpoints.
Fairness ==
    /\ WF_vars(Main) /\ SF_vars(Acquire) /\ SF_vars(ExecuteEnds) /\ WF_vars(Heartbeat)

FairSpec == Spec /\ Fairness

-----------------------------------------------------------------------------
(* Types                                                                     *)

ItemPcs == {"working", "judging", "checking", "reporting", "notifying", "calling",
            "rechecking", "deciding", "closing", "losing", "stopping", "joining"}
Pcs == ItemPcs \cup {"start", "entering", "polling", "claiming", "executing", "saving",
                     "leaving", "finishing", "over"}
Local == [item : Items \cup {NoItem}, status : {"none", "successful", "business", "system"},
          outcome : {"none", "lost", "retryable", "final"}, built : BOOLEAN,
          intended : BOOLEAN, lost : BOOLEAN, notifier : 0..Notifiers]
Run == [pc : Pcs, error : Errors, scope : {"none", "open", "closed"}, attempt : 1..Attempts,
        local : Local, joined : BOOLEAN]
Beat == [pc : {"off", "waiting", "wanting", "renewing", "ended"}, item : Items \cup {NoItem},
         error : {"none", "lost", "broken", "fatal"}, attempt : 1..Attempts, stop : BOOLEAN]
Row == [status : {"pending", "in_progress", "successful", "failed", "elsewhere"},
        retries : Nat, held : BOOLEAN]

\* The type of every variable; an item is in hand exactly in the steps of one, and the
\* attempts of every retried call are bounded.
TypeOK ==
    /\ option \in Configs
    /\ run \in Run /\ (InItem <=> run.pc \in ItemPcs)
    /\ beat \in Beat
    /\ lock \in {"free", "main", "beat"}
    /\ queue \in [Items -> Row]
    /\ stop \in BOOLEAN
    /\ count \in [DOMAIN NoCount -> Nat]
    /\ done \in [{"completed", "retried", "failed", "released", "finished", "late"} -> Nat]

-----------------------------------------------------------------------------
(* Safety                                                                    *)

Settled == count.completed + count.failed

\* The summary adds up (QueueRunSummary): every failure has one disposition, and no item is
\* taken up before the one before it is counted, so that an aborted run leaves at most
\* the item in hand out.
CountsAddUp ==
    /\ count.failed = count.retryScheduled + count.terminalFailed + count.leaseLost
                        + count.unknown
    /\ count.processed \in {Settled, Settled + 1}
    /\ run.pc \in {"polling", "claiming"} => count.processed = Settled

\* And it is true: unless a signal fell into a transition, the summary counts the
\* transitions the built-in queue really made, each once, under what became of the item,
\* although a transition may be called three times.
CountsAreTrue ==
    ~option.custom /\ run.error # "fatal" =>
        /\ count.completed = done.completed
        /\ count.retryScheduled = done.retried
        /\ count.terminalFailed = done.failed

CountsHold == CountsAddUp /\ CountsAreTrue

\* The resource scope is open around all work and no longer: no item, claim or heartbeat
\* is active before it is entered or after it is released, unless Ctrl-C interrupted the
\* join; it is released once whatever failed, and then on_finish is called once.
ScopeCoversWork ==
    /\ option.scoped /\ (InItem \/ run.pc \in {"polling", "claiming", "executing", "saving"})
          => run.scope = "open"
    /\ ~InItem /\ run.joined => beat.pc \in {"off", "ended"}
    /\ done.released = (IF run.scope = "closed" THEN 1 ELSE 0)
    /\ At("over") => /\ run.scope # "open"
                     /\ done.finished = (IF option.mode = "loop" THEN 1 ELSE 0)

\* After the stop event is set, next_item is called at most once more: the call that was
\* about to begin; a claim that meets a locked database is not tried again.
StopIsPrompt == done.late <= 1

-----------------------------------------------------------------------------
(* What a step may never do                                                  *)

\* A signal that aborts the loop is what its caller sees: no cleanup, callback, truthy
\* __exit__ or later error replaces it (runner.py, "Cleanup precedence").
SignalIsNotSwallowed ==
    [][option.mode = "loop" /\ run.error = "fatal" => run'.error = "fatal"]_vars

\* From the moment the loss of a lease is known the worker leaves the item alone: it
\* reports, calls back and moves nothing, and claims no other item.
LossStopsRun ==
    [][run.local.lost \/ count.leaseLost > 0 =>
          /\ count'.processed = count.processed
          /\ run'.pc \notin {"reporting", "notifying", "calling", "closing"}
          /\ done'.completed + done'.retried + done'.failed
                 = done.completed + done.retried + done.failed]_vars

-----------------------------------------------------------------------------
(* Liveness                                                                  *)

\* Every call returns or raises: the final transition gets operation_lock although the
\* heartbeat keeps taking it, the heartbeat sees its stop event although it may be
\* waiting for the lock, and the retry budgets of queue and calls end every loop.
RunEnds == <>At("over")

=============================================================================
