------------------------- MODULE RunLifecycleProofs -------------------------
(***************************************************************************)
(* One call of the runner, for every configuration, any number of items,   *)
(* notifiers and retries: what the summary counts, what the resource scope *)
(* covers, and what an error, a lost lease and the stop event end.         *)
(*                                                                         *)
(* Every property is a fact about how far the caller's thread has come.    *)
(* The invariant says it for each of them: where an error, a known loss    *)
(* and an unreleased scope may be, and at which points the summary is one  *)
(* item behind the claims.                                                 *)
(***************************************************************************)
EXTENDS RunLifecycle, TLAPS

\* Where an exception in flight, or the end of an item, may find the thread.
Ends == {"stopping", "joining", "leaving", "finishing", "over"}
InLoop == ItemPcs \cup {"polling", "claiming"}

\* An error is on its way out; each mode has its own part of the graph.
Errands ==
    /\ run.error # "none" => run.pc \in Ends
    /\ option.mode = "loop" => run.pc \notin {"executing", "saving"}
    /\ option.mode = "direct" => run.pc \notin InLoop \cup {"finishing"}

\* A known loss is counted next, and what was counted ends the loop.
Losses ==
    /\ run.local.lost => run.pc \in {"losing", "stopping", "joining"}
    /\ At("losing") => run.local.lost
    /\ count.leaseLost > 0 => /\ run.pc \in Ends
                              /\ run.pc \in {"stopping", "joining"} => run.local.lost

\* One item is taken up and not counted from its claim to the end of its transition.
Behind == count.processed = Settled + 1
Balanced == count.processed = Settled
Tally ==
    /\ count.failed = count.retryScheduled + count.terminalFailed + count.leaseLost
                        + count.unknown
    /\ Balanced \/ Behind
    /\ run.pc \in ItemPcs \ Ends => Behind
    /\ run.pc \notin ItemPcs \cup Ends => Balanced
    /\ run.pc \in {"stopping", "joining"} /\ run.error = "none" => Balanced

\* The summary is true until a signal makes it worthless, and that one is not forgotten.
Truth ==
    ~option.custom /\ ~(option.mode = "loop" /\ run.error = "fatal") =>
        /\ count.completed = done.completed
        /\ count.retryScheduled = done.retried
        /\ count.terminalFailed = done.failed

\* The scope is entered once, before everything, and left once, after everything.
Scope ==
    /\ run.pc \in {"start", "entering"} => run.scope = "none"
    /\ option.scoped /\ run.pc \in InLoop \cup {"executing", "saving"} => run.scope = "open"
    /\ run.pc \in {"finishing", "over"} => run.scope # "open"
    /\ done.released = (IF run.scope = "closed" THEN 1 ELSE 0)
    /\ done.finished = (IF At("over") /\ option.mode = "loop" THEN 1 ELSE 0)
    /\ ~InItem /\ run.joined => beat.pc \in {"off", "ended"}

\* A call of next_item after the stop event was the last one.
Stops == done.late = 0 \/ (done.late = 1 /\ stop /\ ~At("claiming"))

LifeInv == TypeOK /\ Errands /\ Losses /\ Tally /\ Truth /\ Scope /\ Stops

-----------------------------------------------------------------------------
(* The moves of the caller's thread *)

\* The thread is at pc, with this error and these local variables; the scope is as it was.
Moved(pc, error, local) ==
    /\ run' \in Run
    /\ run'.pc = pc /\ run'.error = error /\ run'.local = local
    /\ run'.scope = run.scope /\ run'.joined = run.joined

\* The first attempt of every retried call is within its bound.
LEMMA FirstAttempt == 1 \in 1..Attempts /\ Attempts \in Nat
  BY LifecycleAssumption

LEMMA GotoExact ==
    ASSUME TypeOK, NEW pc \in Pcs, Goto(pc)
    PROVE  Moved(pc, run.error, run.local)
<1>1. run \in Run
  BY DEF TypeOK
<1> QED
  BY <1>1, FirstAttempt DEF Run, Goto, Moved

LEMMA SetExact ==
    ASSUME TypeOK, NEW pc \in Pcs, NEW local \in Local, Set(pc, local)
    PROVE  Moved(pc, run.error, local)
<1>1. run \in Run
  BY DEF TypeOK
<1> QED
  BY <1>1, FirstAttempt DEF Run, Set, Moved

LEMMA RaisedExact ==
    ASSUME TypeOK, NEW e \in Errors, Raised(e)
    PROVE  Moved(IF InItem THEN "stopping" ELSE "leaving", e, run.local)
<1>1. run \in Run
  BY DEF TypeOK
<1> QED
  BY <1>1 DEF Run, Raised, Moved, Pcs, ItemPcs

\* Another attempt of the same step.
LEMMA AgainExact ==
    ASSUME TypeOK, ~Exhausted, Again
    PROVE  Moved(run.pc, run.error, run.local)
<1>1. run \in Run
  BY DEF TypeOK
<1>2. run.attempt + 1 \in 1..Attempts
  BY <1>1, FirstAttempt DEF Run, Exhausted
<1> QED
  BY <1>1, <1>2 DEF Run, Again, Moved

-----------------------------------------------------------------------------
(* Steps inside an item *)

\* The thread goes on with the item in hand, finds it lost, or raises; nothing else of
\* the invariant is touched.
Onward(pc, error, local) ==
    /\ pc \in ItemPcs \ {"joining"} /\ error \in Errors /\ local \in Local
    /\ Moved(pc, error, local)
    /\ local.item = run.local.item
    /\ pc = "stopping" <=> error # "none"
    /\ local.lost => pc \in {"losing", "stopping"}
    /\ pc = "losing" => local.lost

LEMMA OnwardLife ==
    ASSUME LifeInv, run.pc \in ItemPcs \ Ends,
           NEW pc, NEW error, NEW local, Onward(pc, error, local),
           UNCHANGED <<thread, beat>>, lock' \in {"free", "main", "beat"}
    PROVE  LifeInv'
<1>1. TypeOK /\ run \in Run
  BY DEF LifeInv, TypeOK
<1>2. UNCHANGED <<option, queue, stop, count, done, beat>>
  BY DEF thread
<1>3. TypeOK'
  BY <1>1, <1>2, SMT DEF TypeOK, Onward, Moved, InItem, ItemPcs
<1> HIDE DEF TypeOK
<1>4. (Errands /\ Losses /\ Tally /\ Truth /\ Scope /\ Stops)'
  BY <1>2, SMT DEF LifeInv, Errands, Losses, Tally, Truth, Scope, Stops, At, Onward,
     Moved, InItem, ItemPcs, InLoop, Ends, Settled, Balanced, Behind
<1> QED
  BY <1>3, <1>4 DEF LifeInv

\* Before its end an item has no error, and is lost only in the step that counts it.
LEMMA Unspoilt ==
    ASSUME LifeInv, run.pc \in ItemPcs \ Ends
    PROVE  /\ TypeOK /\ InItem /\ run.error = "none" /\ run.local \in Local
           /\ run.local.lost <=> At("losing")
  BY SMT DEF LifeInv, TypeOK, Run, Errands, Losses, At, ItemPcs, Ends

\* The ways an item's step ends.
LEMMA GotoOnward ==
    ASSUME LifeInv, run.pc \in ItemPcs \ Ends, ~At("losing"),
           NEW pc \in ItemPcs \ {"joining", "stopping", "losing"}, Goto(pc)
    PROVE  Onward(pc, "none", run.local)
<1>1. Moved(pc, run.error, run.local)
  BY Unspoilt, GotoExact DEF Pcs
<1> QED
  BY <1>1, Unspoilt DEF Onward, Errors

LEMMA SetOnward ==
    ASSUME LifeInv, run.pc \in ItemPcs \ Ends, ~At("losing"),
           NEW pc \in ItemPcs \ {"joining", "stopping", "losing"},
           NEW local \in Local, local.item = run.local.item, local.lost = run.local.lost,
           Set(pc, local)
    PROVE  Onward(pc, "none", local)
<1>1. Moved(pc, run.error, local)
  BY Unspoilt, SetExact DEF Pcs
<1> QED
  BY <1>1, Unspoilt DEF Onward, Errors

LEMMA LosingOnward ==
    ASSUME LifeInv, run.pc \in ItemPcs \ Ends, Losing
    PROVE  \E local : Onward("losing", "none", local)
<1> DEFINE local == [run.local EXCEPT !.lost = TRUE, !.outcome = "lost"]
<1>1. local \in Local /\ local.item = run.local.item /\ local.lost
  BY Unspoilt DEF Local
<1>2. "losing" \in Pcs /\ "losing" \in ItemPcs \ {"joining"}
  BY DEF Pcs, ItemPcs
<1>3. Set("losing", local)
  BY DEF Losing
<1> HIDE DEF local
<1>4. Moved("losing", run.error, local)
  BY <1>1, <1>2, <1>3, Unspoilt, SetExact
<1> QED
  BY <1>1, <1>2, <1>4, Unspoilt DEF Onward, Errors

LEMMA RaisedOnward ==
    ASSUME LifeInv, run.pc \in ItemPcs \ Ends, NEW e \in Errors \ {"none"}, Raised(e)
    PROVE  Onward("stopping", e, run.local)
<1>1. Moved("stopping", e, run.local)
  BY Unspoilt, RaisedExact
<1> QED
  BY <1>1, Unspoilt DEF Onward, ItemPcs

\* Every way out of heartbeat.raise_if_failed keeps the item in hand.
LEMMA CheckedOnward ==
    ASSUME LifeInv, run.pc \in ItemPcs \ Ends, ~At("losing"),
           NEW next \in ItemPcs \ {"joining", "stopping", "losing"}, Checked(next)
    PROVE  \E pc, error, local : Onward(pc, error, local)
<1>1. CASE Goto(next)
  BY <1>1, GotoOnward
<1>2. CASE Losing
  BY <1>2, LosingOnward
<1>3. CASE Set(next, Found("retryable"))
  <2>1. /\ Found("retryable") \in Local
        /\ Found("retryable").item = run.local.item
        /\ Found("retryable").lost = run.local.lost
    BY Unspoilt DEF Found, Local
  <2> QED
    BY <1>3, <2>1, SetOnward
<1>4. CASE Raised("fatal")
  BY <1>4, RaisedOnward DEF Errors
<1> QED
  BY <1>1, <1>2, <1>3, <1>4 DEF Checked

LEMMA WorkOnward ==
    ASSUME LifeInv, Work
    PROVE  \E pc, error, local : Onward(pc, error, local)
<1>1. run.pc \in ItemPcs \ Ends /\ ~At("losing")
  BY DEF Work, At, ItemPcs, Ends
<1>2. {"judging", "checking"} \subseteq ItemPcs \ {"joining", "stopping", "losing"}
  BY DEF ItemPcs
<1>3. ASSUME NEW status \in {"successful", "business", "system"},
             Set("judging", [run.local EXCEPT !.built = TRUE, !.status = status])
      PROVE  \E pc, error, local : Onward(pc, error, local)
  <2> DEFINE local == [run.local EXCEPT !.built = TRUE, !.status = status]
  <2>1. local \in Local /\ local.item = run.local.item /\ local.lost = run.local.lost
    BY <1>1, Unspoilt DEF Local
  <2> HIDE DEF local
  <2>2. Set("judging", local)
    BY <1>3 DEF local
  <2> QED
    BY <1>1, <1>2, <2>1, <2>2, SetOnward
<1>4. ASSUME NEW outcome \in {"retryable", "final"}, NEW built \in BOOLEAN,
             Set("checking", [run.local EXCEPT !.built = built, !.outcome = outcome])
      PROVE  \E pc, error, local : Onward(pc, error, local)
  <2> DEFINE local == [run.local EXCEPT !.built = built, !.outcome = outcome]
  <2>1. local \in Local /\ local.item = run.local.item /\ local.lost = run.local.lost
    BY <1>1, Unspoilt DEF Local
  <2> HIDE DEF local
  <2>2. Set("checking", local)
    BY <1>4 DEF local
  <2> QED
    BY <1>1, <1>2, <2>1, <2>2, SetOnward
<1>5. CASE Losing
  BY <1>1, <1>5, LosingOnward
<1> QED
  BY <1>3, <1>4, <1>5 DEF Work

LEMMA JudgeOnward ==
    ASSUME LifeInv, Judge
    PROVE  \E pc, error, local : Onward(pc, error, local)
<1>1. run.pc \in ItemPcs \ Ends /\ ~At("losing")
  BY DEF Judge, At, ItemPcs, Ends
<1>2. "checking" \in ItemPcs \ {"joining", "stopping", "losing"}
  BY DEF ItemPcs
<1>3. CASE Set("checking", [run.local EXCEPT !.intended = run.local.status = "successful"])
  <2> DEFINE local == [run.local EXCEPT !.intended = run.local.status = "successful"]
  <2>1. local \in Local /\ local.item = run.local.item /\ local.lost = run.local.lost
    BY <1>1, Unspoilt DEF Local
  <2> HIDE DEF local
  <2>2. Set("checking", local)
    BY <1>3 DEF local
  <2> QED
    BY <1>1, <1>2, <2>1, <2>2, SetOnward
<1>4. CASE Set("checking", Found("final"))
  <2>1. Found("final") \in Local /\ Found("final").item = run.local.item
        /\ Found("final").lost = run.local.lost
    BY <1>1, Unspoilt DEF Found, Local
  <2> QED
    BY <1>1, <1>2, <1>4, <2>1, SetOnward
<1>5. CASE Checked("checking")
  BY <1>1, <1>2, <1>5, CheckedOnward
<1> QED
  BY <1>3, <1>4, <1>5 DEF Judge

LEMMA ProcessingLife ==
    ASSUME LifeInv, Processing
    PROVE  LifeInv'
<1>1. run.pc \in ItemPcs \ Ends /\ ~At("losing")
  BY DEF Processing, Work, Judge, Check, Report, Notify, NotifyDone, AfterItem, At,
     ItemPcs, Ends
<1>2. UNCHANGED <<thread, beat, lock>> /\ lock \in {"free", "main", "beat"}
  BY DEF Processing, Work, Judge, Check, Report, Notify, NotifyDone, AfterItem, LifeInv,
     TypeOK
<1>3. {"reporting", "deciding", "notifying", "calling", "rechecking"}
         \subseteq ItemPcs \ {"joining", "stopping", "losing"}
  BY DEF ItemPcs
<1>4. \E pc, error, local : Onward(pc, error, local)
  <2>1. CASE Work
    BY <2>1, WorkOnward
  <2>2. CASE Judge
    BY <2>2, JudgeOnward
  <2>3. CASE Check
    BY <1>1, <1>3, <2>3, CheckedOnward DEF Check
  <2>4. CASE Report
    BY <1>1, <1>3, <2>4, GotoOnward DEF Report
  <2>5. CASE Notify
    <3>1. CASE Notified
      <4> DEFINE local == [run.local EXCEPT !.notifier = @ + 1]
      <4>1. local \in Local /\ local.item = run.local.item /\ local.lost = run.local.lost
        BY <1>1, <2>5, Unspoilt, LifecycleAssumption DEF Local, Notify
      <4> HIDE DEF local
      <4>2. Set("notifying", local)
        BY <3>1 DEF Notified, local
      <4> QED
        BY <1>1, <1>3, <4>1, <4>2, SetOnward
    <3>2. CASE ~Exhausted /\ Again
      <4>1. Moved("notifying", run.error, run.local)
        BY <1>1, <2>5, <3>2, Unspoilt, AgainExact DEF Notify, At
      <4> QED
        BY <1>1, <1>3, <4>1, Unspoilt DEF Onward, Errors
    <3> QED
      BY <2>5, <3>1, <3>2 DEF Notify
  <2>6. CASE NotifyDone
    BY <1>1, <1>3, <2>6, GotoOnward DEF NotifyDone
  <2>7. CASE AfterItem
    BY <1>1, <1>3, <2>7, GotoOnward DEF AfterItem
  <2> QED
    BY <2>1, <2>2, <2>3, <2>4, <2>5, <2>6, <2>7 DEF Processing
<1> QED
  BY <1>1, <1>2, <1>4, OnwardLife

-----------------------------------------------------------------------------
(* The final transition *)

Facts == {"completed", "retried", "failed", "released", "finished", "late"}
Names == {"processed", "completed", "failed", "retryScheduled", "terminalFailed",
          "leaseLost", "unknown"}

LEMMA NamesAre == DOMAIN NoCount = Names
  BY DEF NoCount, Names

\* What is really done of an item is done once, and is what its disposition says.
LEMMA TransitionExact ==
    ASSUME TypeOK, InItem, Transition
    PROVE  /\ queue' \in [Items -> Row]
           /\ done' \in [Facts -> Nat]
           /\ Disposition \in {"completed", "retried", "failed"}
           /\ \A f \in Facts : done'[f] = done[f] + IF f = Disposition THEN 1 ELSE 0
<1>1. run.local.item \in Items
  BY DEF TypeOK, Run, Local, InItem
<1>2. Disposition \in {"completed", "retried", "failed"}
  BY DEF Disposition
<1>3. Resting[Disposition] \in {"successful", "pending", "failed"}
  BY <1>2 DEF Resting
<1> HIDE DEF Disposition
<1>4. queue' \in [Items -> Row]
  BY <1>1, <1>3 DEF Transition, TypeOK, Row
<1>5. done \in [Facts -> Nat]
  BY DEF TypeOK, Facts
<1>6. done' = [done EXCEPT ![Disposition] = @ + 1]
  BY DEF Transition
<1> QED
  BY <1>2, <1>4, <1>5, <1>6 DEF Facts

LEMMA CountedExact ==
    ASSUME TypeOK, NEW counters, Counted(counters)
    PROVE  /\ count' \in [Names -> Nat]
           /\ \A c \in Names : count'[c] = count[c] + IF c \in counters THEN 1 ELSE 0
<1>1. count \in [Names -> Nat]
  BY NamesAre DEF TypeOK
<1> QED
  BY <1>1 DEF Counted

\* The summary counts what was done, and one disposition for every failure.
LEMMA CloseAppliedLife ==
    ASSUME LifeInv, CloseApplied
    PROVE  LifeInv'
<1>1. TypeOK /\ InItem /\ run.error = "none" /\ ~run.local.lost /\ run.pc = "closing"
  BY Unspoilt DEF CloseApplied, At, ItemPcs, Ends
<1>2. Moved("stopping", "none", run.local)
  BY <1>1, GotoExact DEF CloseApplied, Pcs, ItemPcs
<1>3. PICK attested \in {TRUE, ~option.custom} : Counted(Counters(attested))
  BY DEF CloseApplied
<1>4. /\ queue' \in [Items -> Row]
      /\ done' \in [Facts -> Nat]
      /\ Disposition \in {"completed", "retried", "failed"}
      /\ \A f \in Facts : done'[f] = done[f] + IF f = Disposition THEN 1 ELSE 0
  BY <1>1, TransitionExact DEF CloseApplied
<1>5. /\ count' \in [Names -> Nat]
      /\ \A c \in Names : count'[c] = count[c] + IF c \in Counters(attested) THEN 1 ELSE 0
  BY <1>1, <1>3, CountedExact
<1>6. UNCHANGED <<option, beat, stop>> /\ lock' = "free"
  BY DEF CloseApplied
<1>7. count \in [Names -> Nat] /\ done \in [Facts -> Nat]
  BY <1>1, NamesAre DEF TypeOK, Facts
<1>8. TypeOK'
  BY <1>1, <1>2, <1>4, <1>5, <1>6, NamesAre, SMT DEF TypeOK, Moved, InItem, ItemPcs, Facts
<1> HIDE DEF TypeOK, Disposition, Counted, Transition
<1>9. (Errands /\ Losses /\ Scope /\ Stops)'
  BY <1>1, <1>2, <1>4, <1>5, <1>6, <1>7, SMT DEF LifeInv, Errands, Losses, Scope, Stops,
     At, Moved, InItem, ItemPcs, InLoop, Ends, Facts, Names, Counters
<1>10. (Tally /\ Truth)'
  <2>1. /\ Tally /\ Truth /\ Behind
    BY <1>1 DEF LifeInv, Tally, ItemPcs, Ends
  <2>2. CASE Disposition = "completed"
    <3>1. Counters(attested) = {"completed"}
      BY <2>2 DEF Counters
    <3> QED
      BY <1>1, <1>2, <1>4, <1>5, <1>6, <1>7, <2>1, <2>2, <3>1, SMT DEF Tally, Truth, Moved,
         Facts, Names, Ends, ItemPcs, Balanced, Behind, Settled
  <2>3. CASE Disposition # "completed" /\ attested = FALSE
    <3>1. Counters(attested) = {"failed", "unknown"}
      BY <2>3 DEF Counters
    <3>2. option.custom
      BY <1>3, <2>3
    <3> QED
      BY <1>1, <1>2, <1>5, <1>6, <1>7, <2>1, <3>1, <3>2, SMT DEF Tally, Truth, Moved,
         Names, Ends, ItemPcs, Balanced, Behind, Settled
  <2>4. CASE Disposition = "retried" /\ attested = TRUE
    <3>1. Counters(attested) = {"failed", "retryScheduled"}
      BY <2>4 DEF Counters
    <3> QED
      BY <1>1, <1>2, <1>4, <1>5, <1>6, <1>7, <2>1, <2>4, <3>1, SMT DEF Tally, Truth, Moved,
         Facts, Names, Ends, ItemPcs, Balanced, Behind, Settled
  <2>5. CASE Disposition = "failed" /\ attested = TRUE
    <3>1. Counters(attested) = {"failed", "terminalFailed"}
      BY <2>5 DEF Counters
    <3> QED
      BY <1>1, <1>2, <1>4, <1>5, <1>6, <1>7, <2>1, <2>5, <3>1, SMT DEF Tally, Truth, Moved,
         Facts, Names, Ends, ItemPcs, Balanced, Behind, Settled
  <2>6. attested \in BOOLEAN
    BY <1>3
  <2> QED
    BY <1>4, <2>2, <2>3, <2>4, <2>5, <2>6
<1> QED
  BY <1>8, <1>9, <1>10 DEF LifeInv

\* Waiting for operation_lock and losing the item there are steps inside the item.
LEMMA AcquireLife ==
    ASSUME LifeInv, Acquire \/ CloseRefused
    PROVE  LifeInv'
<1>1. run.pc \in ItemPcs \ Ends /\ ~At("losing")
  BY DEF Acquire, CloseRefused, At, ItemPcs, Ends
<1>2. UNCHANGED <<thread, beat>> /\ lock' \in {"free", "main", "beat"}
  BY DEF Acquire, CloseRefused
<1>3. \E pc, error, local : Onward(pc, error, local)
  <2>1. CASE Acquire
    <3>1. "closing" \in ItemPcs \ {"joining", "stopping", "losing"}
      BY DEF ItemPcs
    <3> QED
      BY <1>1, <2>1, <3>1, GotoOnward DEF Acquire
  <2>2. CASE CloseRefused
    BY <1>1, <2>2, LosingOnward DEF CloseRefused
  <2> QED
    BY <2>1, <2>2
<1> QED
  BY <1>1, <1>2, <1>3, OnwardLife

\* A transition that is not counted is one of a custom queue, or a signal fell into it.
LEMMA UncountedLife ==
    ASSUME LifeInv, At("closing"),
           NEW pc, NEW error, NEW local, Onward(pc, error, local),
           UNCHANGED <<option, beat, stop, count>>, lock' \in {"free", "main", "beat"},
           UNCHANGED <<queue, done>> \/ ((option.custom \/ error = "fatal") /\ Transition)
    PROVE  LifeInv'
<1>1. TypeOK /\ InItem /\ run.error = "none" /\ ~run.local.lost /\ run.pc = "closing"
      /\ run.pc \in ItemPcs \ Ends
  BY Unspoilt DEF At, ItemPcs, Ends
<1>2. CASE UNCHANGED <<queue, done>>
  BY <1>1, <1>2, OnwardLife DEF thread
<1>3. CASE (option.custom \/ error = "fatal") /\ Transition
  <2>1. /\ queue' \in [Items -> Row]
        /\ done' \in [Facts -> Nat]
        /\ Disposition \in {"completed", "retried", "failed"}
        /\ \A f \in Facts : done'[f] = done[f] + IF f = Disposition THEN 1 ELSE 0
    BY <1>1, <1>3, TransitionExact
  <2>2. done \in [Facts -> Nat] /\ option.mode \in {"loop", "direct"}
    BY <1>1, LifecycleAssumption DEF TypeOK, Facts, Options
  <2> HIDE DEF Disposition
  <2>3. done'.released = done.released /\ done'.finished = done.finished
        /\ done'.late = done.late
    BY <2>1, <2>2 DEF Facts
  <2>4. TypeOK'
    BY <1>1, <2>1, SMT DEF TypeOK, Onward, Moved, InItem, ItemPcs, Facts
  <2> HIDE DEF TypeOK
  <2>5. (Errands /\ Losses /\ Tally /\ Scope /\ Stops)'
    BY <1>1, <2>3, SMT DEF LifeInv, Errands, Losses, Tally, Scope, Stops, At, Onward,
       Moved, InItem, ItemPcs, InLoop, Ends, Settled, Balanced, Behind
  <2>6. option.mode = "loop"
    BY <1>1, <2>2, SMT DEF LifeInv, Errands, InLoop, ItemPcs, Ends
  <2>7. Truth'
    BY <1>3, <2>6 DEF Truth, Onward, Moved
  <2> QED
    BY <2>4, <2>5, <2>7 DEF LifeInv
<1> QED
  BY <1>2, <1>3

LEMMA CloseLife ==
    ASSUME LifeInv, CloseLocked \/ CloseBroken \/ CloseInterrupted
    PROVE  LifeInv'
<1>1. At("closing") /\ run.pc \in ItemPcs \ Ends
  BY DEF CloseLocked, CloseBroken, CloseInterrupted, At, ItemPcs, Ends
<1>2. UNCHANGED <<option, beat, stop, count>> /\ lock' \in {"free", "main", "beat"}
  BY DEF CloseLocked, CloseBroken, CloseInterrupted, LifeInv, TypeOK
<1>3. CASE CloseLocked
  <2>1. Onward("closing", "none", run.local)
    <3>1. Moved("closing", run.error, run.local)
      BY <1>1, <1>3, Unspoilt, AgainExact DEF CloseLocked, At
    <3> QED
      BY <1>1, <3>1, Unspoilt DEF Onward, Errors, ItemPcs, At
  <2>2. UNCHANGED <<queue, done>> \/ (option.custom /\ Transition)
    BY <1>3 DEF CloseLocked, MaybeDone
  <2> QED
    BY <1>1, <1>2, <2>1, <2>2, UncountedLife
<1>4. CASE CloseBroken
  <2>1. Onward("stopping", "ordinary", run.local)
    BY <1>1, <1>4, RaisedOnward DEF CloseBroken, Errors
  <2>2. UNCHANGED <<queue, done>> \/ (option.custom /\ Transition)
    BY <1>4 DEF CloseBroken, MaybeDone
  <2> QED
    BY <1>1, <1>2, <2>1, <2>2, UncountedLife
<1>5. CASE CloseInterrupted
  <2>1. Onward("stopping", "fatal", run.local)
    BY <1>1, <1>5, RaisedOnward DEF CloseInterrupted, Errors
  <2>2. UNCHANGED <<queue, done>> \/ Transition
    BY <1>5 DEF CloseInterrupted
  <2> QED
    BY <1>1, <1>2, <2>1, <2>2, UncountedLife
<1> QED
  BY <1>3, <1>4, <1>5

\* The loss of a lease is counted as the item's end.
LEMMA LoseLife ==
    ASSUME LifeInv, Lose
    PROVE  LifeInv'
<1>1. TypeOK /\ InItem /\ run.error = "none" /\ run.local.lost /\ run.pc = "losing"
  BY Unspoilt DEF Lose, At, ItemPcs, Ends
<1>2. Moved("stopping", "none", run.local)
  BY <1>1, GotoExact DEF Lose, Pcs, ItemPcs
<1>3. /\ count' \in [Names -> Nat]
      /\ \A c \in Names : count'[c] = count[c] + IF c \in {"failed", "leaseLost"} THEN 1 ELSE 0
  BY <1>1, CountedExact DEF Lose
<1>4. UNCHANGED <<option, beat, lock, queue, stop, done>>
  BY DEF Lose
<1>5. count \in [Names -> Nat]
  BY <1>1, NamesAre DEF TypeOK
<1>6. TypeOK'
  BY <1>1, <1>2, <1>3, <1>4, NamesAre, SMT DEF TypeOK, Moved, InItem, ItemPcs
<1> HIDE DEF TypeOK
<1>7. (Errands /\ Losses /\ Tally /\ Truth /\ Scope /\ Stops)'
  BY <1>1, <1>2, <1>3, <1>4, <1>5, SMT DEF LifeInv, Errands, Losses, Tally, Truth, Scope,
     Stops, At, Moved, InItem, ItemPcs, InLoop, Ends, Names, Settled, Balanced, Behind
<1> QED
  BY <1>6, <1>7 DEF LifeInv

-----------------------------------------------------------------------------
(* The end of an item *)

LEMMA NothingInHand == NewItem \in Local /\ NewItem.item = NoItem /\ ~NewItem.lost
  BY LifecycleAssumption DEF NewItem, Local

\* The heartbeat is told to stop, and the item is out of hand once it has ended.
LEMMA StoppingLife ==
    ASSUME LifeInv, Stopping
    PROVE  LifeInv'
<1>1. TypeOK /\ run.pc = "stopping"
  BY DEF LifeInv, Stopping, At
<1>2. Moved("joining", run.error, run.local)
  BY <1>1, GotoExact DEF Stopping, Pcs, ItemPcs
<1>3. UNCHANGED <<option, queue, stop, count, done, lock>> /\ beat' = [beat EXCEPT !.stop = TRUE]
  BY DEF Stopping, thread, StopBeat
<1>4. beat \in Beat
  BY <1>1 DEF TypeOK
<1>5. beat' \in Beat /\ beat'.pc = beat.pc
  BY <1>3, <1>4 DEF Beat
<1>6. TypeOK'
  BY <1>1, <1>2, <1>3, <1>5, SMT DEF TypeOK, Moved, InItem, ItemPcs
<1> HIDE DEF TypeOK
<1>7. (Errands /\ Losses /\ Tally /\ Truth /\ Scope /\ Stops)'
  BY <1>1, <1>2, <1>3, <1>5, SMT DEF LifeInv, Errands, Losses, Tally, Truth, Scope, Stops,
     At, Moved, InItem, ItemPcs, InLoop, Ends, Settled, Balanced, Behind
<1> QED
  BY <1>6, <1>7 DEF LifeInv

LEMMA JoinLife ==
    ASSUME LifeInv, Join
    PROVE  LifeInv'
<1>1. TypeOK /\ run.pc = "joining" /\ beat.pc = "ended" /\ option.mode \in {"loop", "direct"}
  BY LifecycleAssumption DEF LifeInv, Join, At, TypeOK, Options
<1>2. Moved(NextPc, run.error, NewItem)
  BY <1>1, SetExact, NothingInHand DEF Join, Pcs, NextPc
<1>3. UNCHANGED <<option, queue, stop, count, done, beat, lock>>
  BY DEF Join, thread
<1>4. TypeOK'
  BY <1>1, <1>2, <1>3, NothingInHand, SMT DEF TypeOK, Moved, InItem, ItemPcs, NextPc
<1> HIDE DEF TypeOK
<1>5. /\ NextPc = "polling" => run.error = "none" /\ ~run.local.lost
      /\ NextPc \in {"polling", "leaving"}
  BY DEF NextPc
<1> HIDE DEF NextPc
<1>6. run.error \in Errors /\ option.mode = "loop"
  BY <1>1, SMT DEF LifeInv, TypeOK, Run, Errands, InLoop, ItemPcs
<1>7. count.leaseLost > 0 => run.local.lost
  BY <1>1 DEF LifeInv, Losses
<1>8. (Errands /\ Losses /\ Tally /\ Truth /\ Stops)'
  BY <1>1, <1>2, <1>3, <1>5, <1>6, <1>7, NothingInHand, SMT DEF LifeInv, Errands, Losses,
     Tally, Truth, Stops, At, Moved, InItem, ItemPcs, InLoop, Ends, Settled, Balanced, Behind
<1>9. Scope'
  BY <1>1, <1>2, <1>3, <1>5, SMT DEF LifeInv, Scope, At, Moved, ItemPcs, InLoop
<1> QED
  BY <1>4, <1>8, <1>9 DEF LifeInv

LEMMA JoinInterruptedLife ==
    ASSUME LifeInv, JoinInterrupted
    PROVE  LifeInv'
<1>1. TypeOK /\ run.pc = "joining" /\ run \in Run
  BY DEF LifeInv, JoinInterrupted, At, TypeOK
<1>2. /\ run' \in Run
      /\ run'.pc = "leaving" /\ run'.local = NewItem /\ run'.joined = FALSE
      /\ run'.error = (IF run.error = "none" THEN "fatal" ELSE run.error)
      /\ run'.scope = run.scope
  BY <1>1, NothingInHand DEF JoinInterrupted, Run, Pcs, Errors
<1>3. UNCHANGED <<option, queue, stop, count, done, beat, lock>>
  BY DEF JoinInterrupted, thread
<1>4. TypeOK'
  BY <1>1, <1>2, <1>3, NothingInHand, SMT DEF TypeOK, InItem, ItemPcs
<1> HIDE DEF TypeOK
<1>5. (Errands /\ Losses /\ Tally /\ Truth /\ Scope /\ Stops)'
  BY <1>1, <1>2, <1>3, NothingInHand, SMT DEF LifeInv, Errands, Losses, Tally, Truth, Scope,
     Stops, At, InItem, ItemPcs, InLoop, Ends, Settled, Balanced, Behind
<1> QED
  BY <1>4, <1>5 DEF LifeInv

-----------------------------------------------------------------------------
(* Start, claims and the end of the run *)

LEMMA StartLife ==
    ASSUME LifeInv, Start \/ NoScopeToLeave
    PROVE  LifeInv'
<1>1. TypeOK /\ run.pc \in {"start", "leaving"} /\ option.mode \in {"loop", "direct"}
  BY LifecycleAssumption DEF LifeInv, Start, NoScopeToLeave, At, TypeOK, Options
<1>2. UNCHANGED <<option, queue, stop, count, done, beat, lock>>
  BY DEF Start, NoScopeToLeave, thread
<1>3. ~InItem /\ run.error \in Errors /\ (run.pc = "start" => run.error = "none")
  BY <1>1 DEF LifeInv, TypeOK, ItemPcs, Errands, Ends, Run
<1>4. \E pc, error :
         /\ Moved(pc, error, run.local)
         /\ \/ run.pc = "start" /\ pc = "entering" /\ error = "none"
            \/ run.pc = "start" /\ pc = "leaving" /\ error # "none"
            \/ run.pc = "leaving" /\ pc = Ending /\ error = run.error /\ run.scope = "none"
  <2>1. CASE Start /\ Goto("entering")
    BY <1>1, <1>3, <2>1, GotoExact DEF Start, At, Pcs
  <2>2. ASSUME NEW e \in {"ordinary", "fatal"}, Start, Raised(e)
        PROVE  Moved("leaving", e, run.local) /\ run.pc = "start"
    BY <1>1, <1>3, <2>2, RaisedExact DEF Start, At, Errors
  <2>3. CASE NoScopeToLeave
    <3>1. Ending \in Pcs
      BY DEF Ending, Pcs
    <3> QED
      BY <1>1, <2>3, <3>1, GotoExact DEF NoScopeToLeave, At
  <2> QED
    BY <2>1, <2>2, <2>3 DEF Start
<1>5. PICK pc, error :
         /\ Moved(pc, error, run.local)
         /\ \/ run.pc = "start" /\ pc = "entering" /\ error = "none"
            \/ run.pc = "start" /\ pc = "leaving" /\ error # "none"
            \/ run.pc = "leaving" /\ pc = Ending /\ error = run.error /\ run.scope = "none"
  BY <1>4
<1>6. Ending = (IF option.mode = "loop" THEN "finishing" ELSE "over")
  BY DEF Ending
<1> HIDE DEF Ending
<1>7. TypeOK'
  BY <1>1, <1>2, <1>3, <1>5, <1>6, SMT DEF TypeOK, Moved, InItem, ItemPcs
<1> HIDE DEF TypeOK
<1>8. (Errands /\ Losses /\ Tally /\ Truth /\ Scope /\ Stops)'
  BY <1>1, <1>2, <1>3, <1>5, <1>6, SMT DEF LifeInv, Errands, Losses, Tally, Truth, Scope,
     Stops, At, Moved, InItem, ItemPcs, InLoop, Ends, Settled, Balanced, Behind
<1> QED
  BY <1>7, <1>8 DEF LifeInv

LEMMA EnterScopeLife ==
    ASSUME LifeInv, EnterScope
    PROVE  LifeInv'
<1>1. TypeOK /\ run.pc = "entering" /\ option.mode \in {"loop", "direct"}
      /\ option.scoped \in BOOLEAN /\ run \in Run
  BY LifecycleAssumption DEF LifeInv, EnterScope, At, TypeOK, Options
<1>2. UNCHANGED <<option, queue, stop, count, done, beat, lock>>
  BY DEF EnterScope, thread
<1>3. ~InItem /\ run.error = "none" /\ run.scope = "none"
  BY <1>1 DEF LifeInv, TypeOK, ItemPcs, Errands, Ends, Scope
<1>4. Working = (IF option.mode = "loop" THEN "polling" ELSE "executing")
  BY DEF Working
<1> HIDE DEF Working
<1>5. /\ run' \in Run /\ run'.local = run.local /\ run'.joined = run.joined
      /\ \/ run'.pc = Working /\ run'.error = "none" /\ run'.scope = "open" /\ option.scoped
         \/ run'.pc = Working /\ run'.error = "none" /\ run'.scope = "none" /\ ~option.scoped
         \/ run'.pc = "leaving" /\ run'.error # "none" /\ run'.scope \in {"open", "none"}
  <2>1. CASE ~option.scoped /\ Goto(Working)
    <3>1. Working \in Pcs
      BY <1>4 DEF Pcs
    <3> QED
      BY <1>1, <1>3, <2>1, <3>1, GotoExact DEF Moved
  <2>2. CASE option.scoped /\ run' = [run EXCEPT !.pc = Working, !.scope = "open"]
    BY <1>1, <1>3, <1>4, <2>2 DEF Run, Pcs
  <2>3. CASE run' = [run EXCEPT !.pc = "leaving", !.scope = "open", !.error = "ordinary"]
    BY <1>1, <1>3, <2>3 DEF Run, Pcs, Errors
  <2>4. ASSUME NEW e \in {"ordinary", "fatal"}, Raised(e)
        PROVE  Moved("leaving", e, run.local)
    BY <1>1, <1>3, <2>4, RaisedExact DEF Errors
  <2> QED
    BY <1>3, <2>1, <2>2, <2>3, <2>4 DEF EnterScope, Moved
<1>6. TypeOK'
  BY <1>1, <1>2, <1>3, <1>4, <1>5, SMT DEF TypeOK, InItem, ItemPcs
<1> HIDE DEF TypeOK
<1>7. (Errands /\ Losses /\ Tally /\ Truth /\ Scope /\ Stops)'
  BY <1>1, <1>2, <1>3, <1>4, <1>5, SMT DEF LifeInv, Errands, Losses, Tally, Truth, Scope,
     Stops, At, InItem, ItemPcs, InLoop, Ends, Settled, Balanced, Behind
<1> QED
  BY <1>6, <1>7 DEF LifeInv

LEMMA PollLife ==
    ASSUME LifeInv, Poll
    PROVE  LifeInv'
<1>1. TypeOK /\ run \in Run
  BY DEF LifeInv, TypeOK
<1>2. Moved(IF stop THEN "leaving" ELSE "claiming", run.error, run.local)
  BY <1>1 DEF Poll, Moved, Run, Pcs
<1>3. UNCHANGED <<option, queue, stop, count, done, beat, lock>>
  BY DEF Poll, thread
<1>4. At("polling")
  BY DEF Poll
<1>5. TypeOK'
  BY <1>1, <1>2, <1>3, <1>4, SMT DEF TypeOK, Moved, InItem, At, ItemPcs
<1> HIDE DEF TypeOK
<1>6. (Errands /\ Losses /\ Tally /\ Truth /\ Scope /\ Stops)'
  BY <1>2, <1>3, <1>4, SMT DEF LifeInv, Errands, Losses, Tally, Truth, Scope, Stops, At,
     Moved, InItem, ItemPcs, InLoop, Ends, Settled, Balanced, Behind
<1> QED
  BY <1>5, <1>6 DEF LifeInv

\* A call of next_item before which the stop event was set is counted as late.
LEMMA LateExact ==
    ASSUME TypeOK, done' = Late
    PROVE  /\ done' \in [Facts -> Nat]
           /\ done'.late = done.late + IF stop THEN 1 ELSE 0
           /\ \A f \in Facts \ {"late"} : done'[f] = done[f]
<1>1. done \in [Facts -> Nat] /\ "late" \in Facts
  BY DEF TypeOK, Facts
<1> QED
  BY <1>1 DEF Late

\* The claim is where the summary falls behind, and the heartbeat begins.
LEMMA ClaimLife ==
    ASSUME LifeInv, Claim
    PROVE  LifeInv'
<1>1. TypeOK /\ run.pc = "claiming" /\ ~InItem /\ run.error = "none" /\ done.late = 0
      /\ option.mode \in {"loop", "direct"}
  BY LifecycleAssumption DEF LifeInv, Claim, At, TypeOK, ItemPcs, Errands, Ends, Stops, Options
<1>2. PICK i \in Items :
         /\ Set("working", [NewItem EXCEPT !.item = i])
         /\ queue' = [queue EXCEPT ![i] = [@ EXCEPT !.status = "in_progress", !.held = TRUE]]
         /\ beat' = [pc |-> "waiting", item |-> i, error |-> "none", attempt |-> 1,
                     stop |-> FALSE]
  BY DEF Claim, Pending
<1> DEFINE local == [NewItem EXCEPT !.item = i]
<1>3. local \in Local /\ local.item = i /\ ~local.lost
  BY NothingInHand, LifecycleAssumption DEF NewItem, Local
<1>4. Set("working", local)
  BY <1>2
<1> HIDE DEF local
<1>5. Moved("working", "none", local)
  BY <1>1, <1>3, <1>4, SetExact DEF Pcs, ItemPcs
<1>6. i # NoItem
  BY LifecycleAssumption DEF NoItem
<1>7. queue' \in [Items -> Row] /\ beat' \in Beat
  BY <1>1, <1>2, FirstAttempt DEF TypeOK, Row, Beat
<1>8. count \in [Names -> Nat]
  BY <1>1, NamesAre DEF TypeOK
<1>9. /\ count' \in [Names -> Nat]
      /\ \A c \in Names : count'[c] = count[c] + IF c = "processed" THEN 1 ELSE 0
  BY <1>8 DEF Claim, Names
<1>10. /\ done' \in [Facts -> Nat]
       /\ done'.late = done.late + IF stop THEN 1 ELSE 0
       /\ \A f \in Facts \ {"late"} : done'[f] = done[f]
  BY <1>1, LateExact DEF Claim
<1>11. UNCHANGED <<option, lock, stop>>
  BY DEF Claim
<1>12. TypeOK'
  BY <1>1, <1>3, <1>5, <1>6, <1>7, <1>9, <1>10, <1>11, NamesAre, SMT DEF TypeOK, Moved,
     InItem, ItemPcs, Facts
<1>13. stop \in BOOLEAN
  BY <1>1 DEF TypeOK
<1> HIDE DEF TypeOK
<1>14. (Errands /\ Losses /\ Tally /\ Truth)'
  BY <1>1, <1>3, <1>5, <1>8, <1>9, <1>10, <1>11, SMT DEF LifeInv, Errands, Losses, Tally,
     Truth, At, Moved, ItemPcs, InLoop, Ends, Names, Facts, Settled, Balanced, Behind
<1>15. (Scope /\ Stops)'
  BY <1>1, <1>3, <1>5, <1>6, <1>10, <1>11, <1>13, SMT DEF LifeInv, Scope, Stops, At, Moved,
     InItem, ItemPcs, InLoop, Facts
<1> QED
  BY <1>12, <1>14, <1>15 DEF LifeInv

\* A claim that brings nothing ends the loop, or goes back to look at the stop event.
LEMMA NoClaimLife ==
    ASSUME LifeInv, ClaimNothing \/ ClaimFails \/ ClaimInterrupted
    PROVE  LifeInv'
<1>1. TypeOK /\ run.pc = "claiming" /\ ~InItem /\ run.error = "none" /\ done.late = 0
      /\ run \in Run
  BY DEF LifeInv, ClaimNothing, ClaimFails, ClaimInterrupted, At, TypeOK, ItemPcs, Errands,
     Ends, Stops
<1>2. \E pc, error : /\ Moved(pc, error, run.local)
                     /\ pc = "leaving" \/ (pc = "polling" /\ error = "none")
  <2>1. CASE ClaimNothing
    BY <1>1, <2>1, GotoExact DEF ClaimNothing, Pcs
  <2>2. CASE ClaimFails /\ ~Exhausted /\ ClaimAgain
    <3>1. run.attempt + 1 \in 1..Attempts
      BY <1>1, <2>2, FirstAttempt DEF Run, Exhausted
    <3>2. Moved("polling", "none", run.local)
      BY <1>1, <2>2, <3>1 DEF ClaimAgain, Run, Moved, Pcs
    <3> QED
      BY <3>2
  <2>3. CASE Raised("ordinary")
    BY <1>1, <2>3, RaisedExact DEF Errors
  <2>4. CASE Raised("fatal")
    BY <1>1, <2>4, RaisedExact DEF Errors
  <2> QED
    BY <2>1, <2>2, <2>3, <2>4 DEF ClaimFails, ClaimInterrupted
<1>3. PICK pc, error : /\ Moved(pc, error, run.local)
                       /\ pc = "leaving" \/ (pc = "polling" /\ error = "none")
  BY <1>2
<1>4. UNCHANGED <<option, beat, lock, stop, count>> /\ done' = Late
  BY DEF ClaimNothing, ClaimFails, ClaimInterrupted
<1>5. queue' \in [Items -> Row]
  <2>1. queue \in [Items -> Row]
    BY <1>1 DEF TypeOK
  <2>2. ASSUME NEW i \in Pending, queue' = [queue EXCEPT ![i].status = "in_progress"]
        PROVE  queue' \in [Items -> Row]
    BY <2>1, <2>2 DEF Row, Pending
  <2> QED
    BY <2>1, <2>2 DEF ClaimNothing, ClaimFails, ClaimInterrupted
<1>6. /\ done' \in [Facts -> Nat]
      /\ done'.late = done.late + IF stop THEN 1 ELSE 0
      /\ \A f \in Facts \ {"late"} : done'[f] = done[f]
  BY <1>1, <1>4, LateExact
<1>7. TypeOK'
  BY <1>1, <1>3, <1>4, <1>5, <1>6, SMT DEF TypeOK, Moved, InItem, ItemPcs, Facts
<1>8. stop \in BOOLEAN
  BY <1>1 DEF TypeOK
<1> HIDE DEF TypeOK
<1>9. (Errands /\ Losses /\ Tally /\ Truth /\ Scope /\ Stops)'
  BY <1>1, <1>3, <1>4, <1>6, <1>8, SMT DEF LifeInv, Errands, Losses, Tally, Truth, Scope,
     Stops, At, Moved, InItem, ItemPcs, InLoop, Ends, Facts, Settled, Balanced, Behind
<1> QED
  BY <1>7, <1>9 DEF LifeInv

LEMMA SignalLife ==
    ASSUME LifeInv, Signal
    PROVE  LifeInv'
<1>1. TypeOK /\ UNCHANGED <<thread, beat, lock>> /\ lock \in {"free", "main", "beat"}
  BY DEF LifeInv, TypeOK, Signal
<1>2. CASE run.pc \in ItemPcs \ Ends
  BY <1>1, <1>2, RaisedOnward, OnwardLife DEF Signal, Errors
<1>3. CASE run.pc = "polling"
  <2>1. ~InItem
    BY <1>1, <1>3 DEF TypeOK, ItemPcs
  <2>2. Moved("leaving", "fatal", run.local)
    BY <1>1, <2>1, RaisedExact DEF Signal, Errors
  <2>3. UNCHANGED <<option, queue, stop, count, done, beat, lock>>
    BY <1>1 DEF thread
  <2>4. TypeOK'
    BY <1>1, <2>1, <2>2, <2>3, SMT DEF TypeOK, Moved, InItem, ItemPcs
  <2> HIDE DEF TypeOK
  <2>5. (Errands /\ Losses /\ Tally /\ Truth /\ Scope /\ Stops)'
    BY <1>3, <2>1, <2>2, <2>3, SMT DEF LifeInv, Errands, Losses, Tally, Truth, Scope, Stops,
       At, Moved, InItem, ItemPcs, InLoop, Ends, Settled, Balanced, Behind
  <2> QED
    BY <2>4, <2>5 DEF LifeInv
<1> QED
  BY <1>2, <1>3 DEF Signal, ItemPcs, Ends

\* The scope is released, and only an ordinary error of the loop may go with it.
LEMMA LeaveScopeLife ==
    ASSUME LifeInv, LeaveScope
    PROVE  LifeInv'
<1>1. TypeOK /\ run.pc = "leaving" /\ run \in Run /\ run.scope = "open"
      /\ option.mode \in {"loop", "direct"}
  BY LifecycleAssumption DEF LifeInv, LeaveScope, At, TypeOK, Options
<1>2. ~InItem
  BY <1>1 DEF TypeOK, ItemPcs
<1>3. PICK exit \in Exits :
         run' = [run EXCEPT !.pc = Ending, !.scope = "closed",
                            !.error = IF option.mode = "loop" THEN AfterExit(@, exit)
                                      ELSE AfterDirectExit(@, exit)]
  BY DEF LeaveScope
<1>4. /\ AfterExit(run.error, exit) \in Errors /\ AfterDirectExit(run.error, exit) \in Errors
      /\ run.error = "fatal" => AfterExit(run.error, exit) = "fatal"
  BY <1>1 DEF AfterExit, AfterDirectExit, Run, Errors, Exits
<1>5. Ending = (IF option.mode = "loop" THEN "finishing" ELSE "over")
  BY DEF Ending
<1> HIDE DEF Ending
<1>6. /\ run' \in Run /\ run'.pc = Ending /\ run'.scope = "closed"
      /\ run'.local = run.local /\ run'.joined = run.joined
      /\ option.mode = "loop" /\ run.error = "fatal" => run'.error = "fatal"
  <2> DEFINE error == IF option.mode = "loop" THEN AfterExit(run.error, exit)
                      ELSE AfterDirectExit(run.error, exit)
  <2>1. error \in Errors /\ (option.mode = "loop" /\ run.error = "fatal" => error = "fatal")
    BY <1>4
  <2>2. run' = [run EXCEPT !.pc = Ending, !.scope = "closed", !.error = error]
    BY <1>3
  <2> HIDE DEF error
  <2> QED
    BY <1>1, <1>5, <2>1, <2>2 DEF Run, Pcs
<1>7. UNCHANGED <<option, beat, lock, queue, stop, count>>
  BY DEF LeaveScope
<1>8. /\ done \in [Facts -> Nat] /\ done' \in [Facts -> Nat]
      /\ done'.released = done.released + 1
      /\ \A f \in Facts \ {"released"} : done'[f] = done[f]
  BY <1>1 DEF TypeOK, Facts, LeaveScope
<1>9. TypeOK'
  BY <1>1, <1>2, <1>5, <1>6, <1>7, <1>8, SMT DEF TypeOK, InItem, ItemPcs, Facts
<1> HIDE DEF TypeOK
<1>10. (Errands /\ Losses /\ Tally /\ Truth /\ Scope /\ Stops)'
  BY <1>1, <1>2, <1>5, <1>6, <1>7, <1>8, SMT DEF LifeInv, Errands, Losses, Tally, Truth,
     Scope, Stops, At, InItem, ItemPcs, InLoop, Ends, Facts, Settled, Balanced, Behind
<1> QED
  BY <1>9, <1>10 DEF LifeInv

LEMMA OnFinishLife ==
    ASSUME LifeInv, OnFinish
    PROVE  LifeInv'
<1>1. TypeOK /\ run.pc = "finishing" /\ run \in Run /\ option.mode = "loop"
  BY LifecycleAssumption DEF LifeInv, OnFinish, At, TypeOK, Options, Errands
<1>2. ~InItem
  BY <1>1 DEF TypeOK, ItemPcs
<1>3. /\ run' \in Run /\ run'.pc = "over" /\ run'.scope = run.scope
      /\ run'.local = run.local /\ run'.joined = run.joined
      /\ run'.error \in {run.error, "fatal"}
  <2>1. CASE Goto("over")
    BY <1>1, <2>1, GotoExact DEF Moved, Pcs
  <2>2. CASE run' = [run EXCEPT !.pc = "over", !.error = "fatal"]
    BY <1>1, <2>2 DEF Run, Pcs, Errors
  <2> QED
    BY <2>1, <2>2 DEF OnFinish
<1>4. UNCHANGED <<option, beat, lock, queue, stop, count>>
  BY DEF OnFinish
<1>5. /\ done \in [Facts -> Nat] /\ done' \in [Facts -> Nat]
      /\ done'.finished = done.finished + 1
      /\ \A f \in Facts \ {"finished"} : done'[f] = done[f]
  BY <1>1 DEF TypeOK, Facts, OnFinish
<1>6. TypeOK'
  BY <1>1, <1>2, <1>3, <1>4, <1>5, SMT DEF TypeOK, InItem, ItemPcs, Facts
<1> HIDE DEF TypeOK
<1>7. (Errands /\ Losses /\ Tally /\ Truth /\ Scope /\ Stops)'
  BY <1>1, <1>2, <1>3, <1>4, <1>5, SMT DEF LifeInv, Errands, Losses, Tally, Truth, Scope,
     Stops, At, InItem, ItemPcs, InLoop, Ends, Facts, Settled, Balanced, Behind
<1> QED
  BY <1>6, <1>7 DEF LifeInv

\* execute_transaction claims nothing and counts nothing.
LEMMA DirectLife ==
    ASSUME LifeInv, Direct
    PROVE  LifeInv'
<1>1. /\ TypeOK /\ run.pc \in {"executing", "saving"} /\ run.error = "none" /\ ~InItem
      /\ option.mode \in {"loop", "direct"}
  BY LifecycleAssumption DEF LifeInv, Direct, Execute, ExecuteEnds, DirectSave, At, TypeOK,
     ItemPcs, Errands, Ends, Options
<1>2. UNCHANGED <<option, queue, stop, count, done, beat, lock>>
  BY DEF Direct, Execute, ExecuteEnds, DirectSave, thread
<1>3. \E pc, error : /\ Moved(pc, error, run.local)
                     /\ pc = "leaving" \/ (pc \in {"executing", "saving"} /\ error = "none")
  <2>1. CASE \E pc \in {"executing", "saving", "leaving"} : Goto(pc)
    BY <1>1, <2>1, GotoExact DEF Pcs
  <2>2. CASE \E e \in {"ordinary", "fatal"} : Raised(e)
    BY <1>1, <2>2, RaisedExact DEF Errors
  <2>3. CASE ~Exhausted /\ Again
    BY <1>1, <2>3, AgainExact
  <2> QED
    BY <2>1, <2>2, <2>3 DEF Direct, Execute, ExecuteEnds, DirectSave
<1>4. PICK pc, error : /\ Moved(pc, error, run.local)
                       /\ pc = "leaving" \/ (pc \in {"executing", "saving"} /\ error = "none")
  BY <1>3
<1>5. TypeOK'
  BY <1>1, <1>2, <1>4, SMT DEF TypeOK, Moved, InItem, ItemPcs
<1> HIDE DEF TypeOK
<1>6. (Errands /\ Losses /\ Tally /\ Truth /\ Scope /\ Stops)'
  BY <1>1, <1>2, <1>4, SMT DEF LifeInv, Errands, Losses, Tally, Truth, Scope, Stops, At,
     Moved, InItem, ItemPcs, InLoop, Ends, Settled, Balanced, Behind
<1> QED
  BY <1>5, <1>6 DEF LifeInv

-----------------------------------------------------------------------------
(* Beside the caller's thread *)

\* Neither the heartbeat nor the world around the call moves the thread or the summary.
LEMMA BesideLife ==
    ASSUME LifeInv,
           UNCHANGED <<option, run, count, done>>,
           beat' \in Beat, lock' \in {"free", "main", "beat"},
           queue' \in [Items -> Row], stop' \in BOOLEAN,
           beat.pc \in {"off", "ended"} => beat' = beat,
           stop => stop'
    PROVE  LifeInv'
<1>1. TypeOK'
  BY DEF LifeInv, TypeOK, InItem
<1>2. (Errands /\ Losses /\ Tally /\ Truth /\ Stops)'
  BY DEF LifeInv, Errands, Losses, Tally, Truth, Stops, At, Settled, Balanced, Behind
<1>3. Scope'
  BY DEF LifeInv, Scope, At, InItem
<1> QED
  BY <1>1, <1>2, <1>3 DEF LifeInv

LEMMA HeartbeatLife ==
    ASSUME LifeInv, Heartbeat
    PROVE  LifeInv'
<1>1. beat \in Beat /\ queue \in [Items -> Row] /\ stop \in BOOLEAN
      /\ lock \in {"free", "main", "beat"}
  BY DEF LifeInv, TypeOK
<1>2. UNCHANGED <<option, run, count, done, queue, stop>>
  BY DEF Heartbeat, BeatWake, BeatLock, BeatRenew, thread
<1>3. beat.pc \notin {"off", "ended"}
  BY DEF Heartbeat, BeatWake, BeatLock, BeatRenew
<1>4. beat' \in Beat /\ lock' \in {"free", "main", "beat"}
  <2>1. CASE BeatWake
    BY <1>1, <2>1 DEF BeatWake, Beat
  <2>2. CASE BeatLock
    BY <1>1, <2>2, FirstAttempt DEF BeatLock, Beat
  <2>3. CASE BeatRenew
    <3>1. beat.attempt < Attempts => beat.attempt + 1 \in 1..Attempts
      BY <1>1, FirstAttempt DEF Beat
    <3> QED
      BY <1>1, <2>3, <3>1 DEF BeatRenew, BeatEnds, Beat
  <2> QED
    BY <2>1, <2>2, <2>3 DEF Heartbeat
<1> QED
  BY <1>1, <1>2, <1>3, <1>4, BesideLife

LEMMA OutsideLife ==
    ASSUME LifeInv, SetStop \/ Expire
    PROVE  LifeInv'
<1>1. beat \in Beat /\ queue \in [Items -> Row] /\ stop \in BOOLEAN
      /\ lock \in {"free", "main", "beat"}
  BY DEF LifeInv, TypeOK
<1>2. UNCHANGED <<option, run, count, done, beat, lock>>
  BY DEF SetStop, Expire
<1>3. CASE SetStop
  BY <1>1, <1>2, <1>3, BesideLife DEF SetStop
<1>4. CASE Expire
  <2>1. queue' \in [Items -> Row]
    BY <1>1, <1>4 DEF Expire, Row
  <2> QED
    BY <1>1, <1>2, <1>4, <2>1, BesideLife DEF Expire
<1> QED
  BY <1>3, <1>4

-----------------------------------------------------------------------------
(* The theorems *)

LEMMA InitLife ==
    ASSUME Init
    PROVE  LifeInv
<1>1. run \in Run
  BY FirstAttempt, NothingInHand DEF Init, Run, Pcs, Errors
<1>2. beat \in Beat
  BY FirstAttempt DEF Init, Beat
<1>3. queue \in [Items -> Row]
  BY DEF Init, Row
<1>4. count \in [Names -> Nat] /\ \A c \in Names : count[c] = 0
  BY DEF Init, NoCount, Names
<1>5. done \in [Facts -> Nat] /\ \A f \in Facts : done[f] = 0
  BY DEF Init, Facts
<1>6. run.pc = "start" /\ run.error = "none" /\ run.scope = "none" /\ run.local = NewItem
      /\ beat.pc = "off" /\ option \in Configs /\ lock = "free" /\ stop = FALSE
  BY DEF Init
<1>7. TypeOK
  <2>1. InItem <=> run.pc \in ItemPcs
    BY <1>6, NothingInHand DEF InItem, ItemPcs
  <2>2. stop \in BOOLEAN /\ lock \in {"free", "main", "beat"}
    BY <1>6
  <2> QED
    BY <1>1, <1>2, <1>3, <1>4, <1>5, <1>6, <2>1, <2>2, NamesAre DEF TypeOK, Facts
<1>8. Errands /\ Losses
  BY <1>4, <1>6, NothingInHand DEF Errands, Losses, At, ItemPcs, InLoop, Ends, Names
<1>9. Tally /\ Truth
  BY <1>4, <1>5, <1>6 DEF Tally, Truth, ItemPcs, Ends, Names, Facts, Settled, Balanced, Behind
<1>10. Scope /\ Stops
  BY <1>5, <1>6 DEF Scope, Stops, At, ItemPcs, InLoop, Facts
<1> QED
  BY <1>7, <1>8, <1>9, <1>10 DEF LifeInv

LEMMA StepLife ==
    ASSUME LifeInv, [Next]_vars
    PROVE  LifeInv'
<1>1. CASE Main
  BY <1>1, StartLife, EnterScopeLife, PollLife, ClaimLife, NoClaimLife, ProcessingLife,
     CloseAppliedLife, AcquireLife, CloseLife, LoseLife, StoppingLife, JoinLife,
     LeaveScopeLife, OnFinishLife, DirectLife DEF Main, Claiming, Closing, Leaving
<1>2. CASE Acquire
  BY <1>2, AcquireLife
<1>3. CASE Signals
  BY <1>3, SignalLife, NoClaimLife, CloseLife, JoinInterruptedLife DEF Signals
<1>4. CASE Heartbeat
  BY <1>4, HeartbeatLife
<1>5. CASE SetStop \/ Expire
  BY <1>5, OutsideLife
<1>6. CASE UNCHANGED vars
  <2>1. UNCHANGED <<option, run, beat, lock, queue, stop, count, done>>
    BY <1>6 DEF vars
  <2>2. beat' \in Beat /\ lock' \in {"free", "main", "beat"} /\ queue' \in [Items -> Row]
        /\ stop' \in BOOLEAN
    BY <2>1 DEF LifeInv, TypeOK
  <2> QED
    BY <2>1, <2>2, BesideLife
<1> QED
  BY <1>1, <1>2, <1>3, <1>4, <1>5, <1>6 DEF Next

\* In every run the thread, the summary, the scope and the stop event agree as LifeInv says.
THEOREM LifeInvariant == Spec => []LifeInv
  BY InitLife, StepLife, PTL DEF Spec

\* The attempts of every retried call are bounded, and an item is in hand exactly in the
\* steps of one (runner.py, _run_items and the _with_retries helpers).
THEOREM LifecycleAlwaysTyped == Spec => []TypeOK
<1>1. LifeInv => TypeOK
  BY DEF LifeInv
<1> QED
  BY <1>1, LifeInvariant, PTL

\* The summary adds up and counts what the queue really did (runner.py, QueueRunSummary).
THEOREM CountsAlwaysHold == Spec => []CountsHold
<1>1. LifeInv => CountsHold
  <2> SUFFICES ASSUME LifeInv PROVE CountsHold
    OBVIOUS
  <2>1. /\ Tally /\ Truth
        /\ run.pc \in {"polling", "claiming"} => run.pc \notin ItemPcs \cup Ends
    BY DEF LifeInv, ItemPcs, Ends
  <2>2. CountsAddUp
    BY <2>1 DEF Tally, CountsAddUp, Balanced, Behind
  <2>3. CountsAreTrue
    BY <2>1 DEF Truth, CountsAreTrue
  <2> QED
    BY <2>2, <2>3 DEF CountsHold
<1> QED
  BY <1>1, LifeInvariant, PTL

\* The resource scope is open around all work, released once whatever failed, and then
\* on_finish is called once (runner.py, run_queue_loop; execution.py, execute_transaction).
THEOREM ScopeAlwaysCoversWork == Spec => []ScopeCoversWork
<1>1. LifeInv => ScopeCoversWork
  BY DEF LifeInv, Scope, ScopeCoversWork, TypeOK, At, InLoop
<1> QED
  BY <1>1, LifeInvariant, PTL

\* One call of next_item at most begins after the stop event is set (runner.py,
\* _next_item_with_retries reads the event before every attempt).
THEOREM StopIsAlwaysPrompt == Spec => []StopIsPrompt
<1>1. LifeInv => StopIsPrompt
  BY DEF LifeInv, Stops, StopIsPrompt
<1> QED
  BY <1>1, LifeInvariant, PTL

\* A fatal error is past every step that could raise another one.
LEMMA FatalStays ==
    ASSUME LifeInv, [Next]_vars, option.mode = "loop", run.error = "fatal"
    PROVE  run'.error = "fatal"
<1>1. TypeOK /\ run.pc \in Ends /\ run \in Run
  BY DEF LifeInv, Errands, TypeOK
<1>2. CASE UNCHANGED run
  BY <1>2
<1>3. CASE Stopping \/ Join \/ NoScopeToLeave
  BY <1>1, <1>3 DEF Stopping, Join, NoScopeToLeave, Goto, Set, Run
<1>4. CASE JoinInterrupted
  BY <1>1, <1>4 DEF JoinInterrupted, Run
<1>5. CASE OnFinish
  BY <1>1, <1>5 DEF OnFinish, Goto, Run
<1>6. CASE LeaveScope
  BY <1>1, <1>6 DEF LeaveScope, AfterExit, Run
<1>7. \/ UNCHANGED run \/ Stopping \/ Join \/ NoScopeToLeave
      \/ JoinInterrupted \/ OnFinish \/ LeaveScope
  BY <1>1 DEF Next, Main, Claiming, Heartbeat, Processing, Closing, Leaving, Direct, Signals,
     vars, At, Ends, Start, EnterScope, Poll, Claim, ClaimNothing, ClaimFails, Work, Judge,
     Check, Report, Notify, NotifyDone, AfterItem, CloseApplied, CloseRefused, CloseLocked,
     CloseBroken, Lose, Execute, ExecuteEnds, DirectSave, Acquire, Signal, ClaimInterrupted,
     CloseInterrupted, BeatWake, BeatLock, BeatRenew, SetStop, Expire
<1> QED
  BY <1>2, <1>3, <1>4, <1>5, <1>6, <1>7

\* Once a loss is known, only the steps to the end of the run are left.
LEMMA LossEnds ==
    ASSUME LifeInv, [Next]_vars, run.local.lost \/ count.leaseLost > 0
    PROVE  /\ count'.processed = count.processed
           /\ run'.pc \notin {"reporting", "notifying", "calling", "closing"}
           /\ done'.completed + done'.retried + done'.failed
                  = done.completed + done.retried + done.failed
<1>1. /\ TypeOK /\ run \in Run /\ run.pc \in Ends \cup {"losing"}
      /\ count \in [Names -> Nat] /\ done \in [Facts -> Nat]
  BY NamesAre DEF LifeInv, Losses, Ends, TypeOK, Facts
<1>2. CASE UNCHANGED <<run, count, done>>
  BY <1>1, <1>2 DEF Ends
<1>3. CASE Stopping \/ Join \/ NoScopeToLeave \/ JoinInterrupted
  BY <1>1, <1>3 DEF Stopping, Join, NoScopeToLeave, JoinInterrupted, Goto, Set, Run, NextPc,
     Ending, thread
<1>4. CASE OnFinish \/ LeaveScope
  BY <1>1, <1>4 DEF OnFinish, LeaveScope, Goto, Run, Ending, Facts
<1>5. CASE Lose
  <2>1. \A c \in Names : count'[c] = count[c] + IF c \in {"failed", "leaseLost"} THEN 1 ELSE 0
    BY <1>1, <1>5, CountedExact DEF Lose
  <2>2. UNCHANGED done /\ run'.pc = "stopping"
    BY <1>1, <1>5 DEF Lose, Goto, Run
  <2> QED
    BY <1>1, <2>1, <2>2 DEF Names
<1>6. CASE Signal
  BY <1>1, <1>6 DEF Signal, Raised, Run, thread
<1>7. \/ UNCHANGED <<run, count, done>> \/ Stopping \/ Join \/ NoScopeToLeave
      \/ JoinInterrupted \/ OnFinish \/ LeaveScope \/ Lose \/ Signal
  BY <1>1 DEF Next, Main, Claiming, Heartbeat, Processing, Closing, Leaving, Direct, Signals,
     vars, thread, At, Ends, Start, EnterScope, Poll, Claim, ClaimNothing, ClaimFails, Work,
     Judge, Check, Report, Notify, NotifyDone, AfterItem, CloseApplied, CloseRefused,
     CloseLocked, CloseBroken, Execute, ExecuteEnds, DirectSave, Acquire, ClaimInterrupted,
     CloseInterrupted, BeatWake, BeatLock, BeatRenew, SetStop, Expire
<1> QED
  BY <1>2, <1>3, <1>4, <1>5, <1>6, <1>7

\* No cleanup, callback, truthy __exit__ or later error replaces a signal (runner.py,
\* run_queue_loop, "Cleanup precedence").
THEOREM SignalIsNeverSwallowed == Spec => SignalIsNotSwallowed
<1>1. LifeInv /\ [Next]_vars =>
        [option.mode = "loop" /\ run.error = "fatal" => run'.error = "fatal"]_vars
  BY FatalStays
<1> QED
  BY <1>1, LifeInvariant, PTL DEF Spec, SignalIsNotSwallowed

\* A worker that knows it lost its lease moves nothing more and claims nothing more
\* (runner.py, _run_claimed_item_with_context and run_queue_loop).
THEOREM LossAlwaysStopsRun == Spec => LossStopsRun
<1>1. LifeInv /\ [Next]_vars =>
        [run.local.lost \/ count.leaseLost > 0 =>
            /\ count'.processed = count.processed
            /\ run'.pc \notin {"reporting", "notifying", "calling", "closing"}
            /\ done'.completed + done'.retried + done'.failed
                   = done.completed + done.retried + done.failed]_vars
  BY LossEnds
<1> QED
  BY <1>1, LifeInvariant, PTL DEF Spec, LossStopsRun

=============================================================================
