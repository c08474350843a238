----------------------------- MODULE EngineProofs -----------------------------
(***************************************************************************)
(* Proofs about Engine, for every number of steps, retries and runs.       *)
(*                                                                         *)
(* No invariant of disk alone says why a checkpoint loses nothing: the     *)
(* argument needs that the stored history is a prefix of the history in    *)
(* memory, which every append keeps, every checkpoint restores to equality *)
(* and every resume starts from.                                           *)
(*                                                                         *)
(* What a run promises needs a second invariant, RunInv, which ties the    *)
(* control point to the history: the newest failure in the history is the  *)
(* newest exception of its step and stands until the run is over, every    *)
(* skipped step has a cause, a step that recovery barred stays skipped or  *)
(* failed, and each pass starts a step at most once.                       *)
(***************************************************************************)
EXTENDS Engine, TransactionProofs, FiniteSetTheorems

-----------------------------------------------------------------------------
(* The inductive invariant                                                   *)

\* What is stored never runs ahead of the object.
Behind(old, new) == old = Nothing \/ (Pre(old.history, new.history) /\ Keeps(old, new))

\* A step that was recorded as started stays in progress until its body runs.
Started == At("executing") \/ engine.then = "executing"
              => mem.steps[engine.cursor].status = "in_progress"

EngineInv ==
    /\ TypeOK
    /\ engine.then = "executing" => At("saving")
    /\ mem # Nothing => Behind(disk, mem)
    /\ IntentIsDurable
    /\ Started

\* One more history entry, and no success lost, keep the snapshot behind.
LEMMA BehindGrows ==
    ASSUME NEW old \in Transaction \cup {Nothing}, NEW tx \in Transaction,
           NEW new \in Transaction, Behind(old, tx), Keeps(tx, new),
           \E e \in Entry : new.history = Append(tx.history, e)
    PROVE  Behind(old, new)
<1>1. CASE old = Nothing
  BY <1>1 DEF Behind
<1>2. CASE old # Nothing
  <2>1. PICK e \in Entry : new.history = Append(tx.history, e)
    OBVIOUS
  <2>2. old.history \in Seq(Entry) /\ tx.history \in Seq(Entry)
    BY <1>2, TransactionParts
  <2>3. Pre(old.history, new.history)
    BY <1>2, <2>1, <2>2, PrefixAppend DEF Behind
  <2>4. Keeps(old, new)
    BY <1>2 DEF Behind, Keeps
  <2> QED
    BY <2>3, <2>4 DEF Behind
<1> QED
  BY <1>1, <1>2

\* A checkpoint stores exactly the object.
LEMMA StoredIsMem ==
    ASSUME mem \in Transaction, disk \in Transaction \cup {Nothing}, Behind(disk, mem)
    PROVE  Stored(mem) = mem
<1>1. mem.history \in Seq(Entry) /\ disk.history \in Seq(Entry)
  <2>1. disk = Nothing => disk.history = <<>> /\ <<>> \in Seq(Entry)
    BY DEF Nothing
  <2> QED
    BY <2>1, TransactionParts
<1>2. Pre(disk.history, mem.history)
  BY <1>1 DEF Behind, Pre, Nothing
<1>3. Merged(disk.history, mem.history) = mem.history
  BY <1>1, <1>2, MergedIsNew
<1> QED
  BY <1>3 DEF Stored, Transaction

\* The control record of a pending checkpoint.
LEMMA SaveThenLemma ==
    ASSUME engine \in Control, NEW then \in Pcs, NEW cursor \in Steps \cup {0}
    PROVE  LET new == SaveThen(then, cursor) IN
           /\ new \in Control
           /\ new.pc = "saving" /\ new.then = then /\ new.cursor = cursor
BY DEF SaveThen, Control, Pcs

\* The end of the steps is a position of the cursor.
LEMMA NumStepsIsCursor == NumSteps \in Steps \cup {0}
BY EngineAssumption DEF Steps

\* Idle control.
LEMMA IdleIsControl == Idle \in Control /\ Idle.pc = "idle" /\ Idle.then = "idle"
BY DEF Idle, Control, Pcs

\* A step of run() that changes the object but stores nothing.
LEMMA MutationInv ==
    ASSUME EngineInv, mem # Nothing, mem' \in Transaction, UNCHANGED disk,
           Keeps(mem, mem'), \E e \in Entry : mem'.history = Append(mem.history, e),
           engine' \in Control, runs' \in Nat, barred' \in SUBSET Steps,
           ~At("executing")',
           engine'.then = "executing" =>
              /\ At("saving")' /\ engine'.cursor \in Steps
              /\ mem'.steps[engine'.cursor].status = "in_progress"
    PROVE  EngineInv'
<1>1. mem \in Transaction /\ disk \in Transaction \cup {Nothing} /\ Behind(disk, mem)
  BY DEF EngineInv, TypeOK
<1>2. Behind(disk, mem')
  BY <1>1, BehindGrows
<1>3. mem' # Nothing
  BY TransactionParts
<1>4. TypeOK'
  BY <1>1, <1>3 DEF TypeOK
<1> QED
  BY <1>2, <1>4 DEF EngineInv, Started, IntentIsDurable

\* A step that changes only the position of run().
LEMMA ControlInv ==
    ASSUME EngineInv, UNCHANGED <<mem, disk>>, engine' \in Control, runs' \in Nat,
           barred' \in SUBSET Steps, mem # Nothing,
           engine'.pc # "executing", engine'.then # "executing"
    PROVE  EngineInv'
BY DEF EngineInv, TypeOK, At, Started, IntentIsDurable

-----------------------------------------------------------------------------
(* One lemma per action                                                      *)

\* Nothing exists at first.
LEMMA InitInv == Init => EngineInv
BY IdleIsControl DEF Init, EngineInv, TypeOK, IntentIsDurable, Started, At, Nothing

\* The caller's actions before a run.
LEMMA CreateInv == ASSUME EngineInv, Create PROVE EngineInv'
<1>1. mem' \in Transaction /\ UNCHANGED disk /\ disk = Nothing /\ engine.pc = "idle"
  BY FreshType DEF Create, At
<1> QED
  BY <1>1 DEF EngineInv, TypeOK, Create, Behind, At, Started, IntentIsDurable

\* The invariant of a checkpoint: what is stored becomes the object.
LEMMA StoreInv ==
    ASSUME EngineInv, mem # Nothing, disk' = Stored(mem), UNCHANGED mem
    PROVE  mem \in Transaction /\ disk' = mem /\ Behind(disk, mem)'
<1>1. mem \in Transaction /\ disk \in Transaction \cup {Nothing} /\ Behind(disk, mem)
  BY DEF EngineInv, TypeOK
<1>2. disk' = mem
  BY <1>1, StoredIsMem
<1>3. mem.history \in Seq(Entry)
  BY <1>1, TransactionParts
<1> QED
  BY <1>1, <1>2, <1>3 DEF Behind, Pre, Keeps

\* A transaction that was created or resumed is stored before it runs.
LEMMA SavePreparedInv == ASSUME EngineInv, SavePrepared PROVE EngineInv'
<1>1. mem # Nothing
  BY DEF SavePrepared, Nothing
<1>2. mem \in Transaction /\ disk' = mem /\ Behind(disk, mem)'
  BY <1>1, StoreInv DEF SavePrepared
<1> QED
  BY <1>2 DEF EngineInv, TypeOK, SavePrepared, At, Started, IntentIsDurable

\* The checkpoint of a run: a step starts with what is stored.
LEMMA SaveInv == ASSUME EngineInv, Save PROVE EngineInv'
<1>1. mem # Nothing
  BY DEF EngineInv, TypeOK, Save, At
<1>2. mem \in Transaction /\ disk' = mem /\ Behind(disk, mem)'
  BY <1>1, StoreInv DEF Save
<1>3. /\ engine' \in Control /\ engine'.then = "idle"
      /\ engine'.pc = "executing" => engine.then = "executing" /\ engine'.cursor = engine.cursor
  BY IdleIsControl DEF Save, EngineInv, TypeOK, Control, Pcs
<1>4. TypeOK'
  BY <1>1, <1>2, <1>3 DEF EngineInv, TypeOK, Save, At
<1>5. Started'
  BY <1>3 DEF EngineInv, Started, Save, At
<1> QED
  BY <1>2, <1>3, <1>4, <1>5 DEF EngineInv, IntentIsDurable, Save

\* Recovery starts from what is stored.
LEMMA ResumeInv ==
    ASSUME EngineInv, NEW again \in BOOLEAN, Resume(again)
    PROVE  EngineInv'
<1>1. disk \in Transaction /\ mem' = Prepared(disk, again) /\ UNCHANGED <<disk, engine, runs>>
      /\ engine.pc = "idle"
  BY DEF EngineInv, TypeOK, Resume, At
<1>2. /\ mem' \in Transaction
      /\ Pre(disk.history, mem'.history) /\ Keeps(disk, mem')
  BY <1>1, PreparedLemma
<1>3. barred' \in SUBSET Steps
  BY DEF Resume, Promised, BusinessFailed, CausalSkips
<1>4. mem' # Nothing /\ Behind(disk, mem)'
  <2>1. mem' # Nothing
    BY <1>2, TransactionParts
  <2> QED
    BY <1>1, <1>2, <2>1 DEF Behind
<1> QED
  BY <1>1, <1>2, <1>3, <1>4 DEF EngineInv, TypeOK, At, Started, IntentIsDurable

\* The object while a run is in progress.
LEMMA ObjectFacts ==
    ASSUME EngineInv, mem # Nothing
    PROVE  /\ mem \in Transaction /\ engine \in Control
           /\ runs \in Nat /\ barred \in SUBSET Steps
           /\ Keeps(mem, mem)
BY DEF EngineInv, TypeOK, Keeps

\* run() starts: skipped steps may count again, successful ones never do.
LEMMA StartRunInv == ASSUME EngineInv, StartRun PROVE EngineInv'
<1> DEFINE base == [Reset(mem, Reopened(mem)) EXCEPT !.status = "in_progress",
                                                     !.outcome = "unknown"]
<1>1. /\ mem # Nothing /\ mem' = Record(base, "transaction_started", 0) /\ UNCHANGED disk
      /\ runs' = runs + 1
      /\ engine' = [Idle EXCEPT !.pc = "saving", !.then = "choosing",
                               !.blocked = IF Resumed(mem) THEN BusinessFailed(mem) ELSE {}]
      /\ barred' = IF Resumed(mem) THEN barred ELSE {}
  BY DEF StartRun
<1>2. mem \in Transaction /\ barred \in SUBSET Steps /\ runs \in Nat
  BY <1>1, ObjectFacts
<1>3. /\ Reopened(mem) \in SUBSET Steps
      /\ \A s \in Reopened(mem) : mem.steps[s].status # "successful"
  BY DEF Reopened
<1>4. /\ Reset(mem, Reopened(mem)) \in Transaction
      /\ Reset(mem, Reopened(mem)).history = mem.history
      /\ Keeps(mem, Reset(mem, Reopened(mem)))
  BY <1>2, <1>3, ResetLemma
<1>5. /\ base \in Transaction /\ base.history = mem.history
      /\ base.steps = Reset(mem, Reopened(mem)).steps
  BY <1>4 DEF Transaction, Outcomes
<1> HIDE DEF base
<1>6. Keeps(mem, base)
  BY <1>4, <1>5 DEF Keeps
<1>7. /\ mem' \in Transaction /\ Keeps(mem, mem')
      /\ \E e \in Entry : mem'.history = Append(mem.history, e)
  <2>1. "transaction_started" \in Events
    BY DEF Events
  <2> QED
    BY <1>1, <1>2, <1>5, <1>6, <2>1, RecordKeeps
<1>8. engine' \in Control /\ engine'.pc = "saving" /\ engine'.then = "choosing"
  BY <1>1, IdleIsControl DEF Control, Pcs, BusinessFailed
<1> QED
  BY <1>1, <1>2, <1>7, <1>8, MutationInv DEF At

\* A refused run writes its verdict in memory alone.
LEMMA RejectInv == ASSUME EngineInv, Reject PROVE EngineInv'
<1> DEFINE base == [mem EXCEPT !.status = "failed", !.outcome = "validation_failed"]
<1>1. /\ mem # Nothing /\ mem' = Record(base, "transaction_completed", 0)
      /\ UNCHANGED <<disk, engine, barred>> /\ runs' = runs + 1 /\ At("idle")
  BY DEF Reject
<1>2. mem \in Transaction /\ barred \in SUBSET Steps /\ runs \in Nat /\ engine \in Control
  BY <1>1, ObjectFacts
<1>3. /\ base \in Transaction /\ base.history = mem.history /\ base.steps = mem.steps
  BY <1>2 DEF Transaction, Outcomes
<1> HIDE DEF base
<1>4. /\ mem' \in Transaction /\ Keeps(mem, mem')
      /\ \E e \in Entry : mem'.history = Append(mem.history, e)
  <2>1. "transaction_completed" \in Events /\ Keeps(mem, base)
    BY <1>3 DEF Events, Keeps
  <2> QED
    BY <1>1, <1>2, <1>3, <2>1, RecordKeeps
<1>5. engine'.then # "executing"
  BY <1>1 DEF EngineInv, At
<1> QED
  BY <1>1, <1>2, <1>4, <1>5, MutationInv DEF At

\* A step that is started was not successful.
LEMMA StartStepInv == ASSUME EngineInv, StartStep PROVE EngineInv'
<1>1. mem # Nothing /\ UNCHANGED <<disk, runs, barred>>
  BY DEF EngineInv, TypeOK, StartStep, At
<1>2. PICK s \in Steps : /\ First(s, Runnable)
                         /\ mem' = Mark(mem, s, "in_progress", "step_started")
                         /\ engine' = SaveThen("executing", s)
  BY DEF StartStep
<1>3. mem \in Transaction /\ engine \in Control /\ barred \in SUBSET Steps /\ runs \in Nat
      /\ Keeps(mem, mem)
  BY <1>1, ObjectFacts
<1>4. mem.steps[s].status # "successful"
  BY <1>2 DEF First, Runnable, Done
<1>5. /\ mem' \in Transaction /\ Keeps(mem, mem') /\ mem'.steps[s].status = "in_progress"
      /\ \E e \in Entry : mem'.history = Append(mem.history, e)
  <2>1. "in_progress" \in StepStatuses /\ "step_started" \in Events
    BY DEF StepStatuses, Events
  <2> QED
    BY <1>2, <1>3, <1>4, <2>1, MarkKeeps
<1>6. /\ engine' \in Control /\ engine'.pc = "saving" /\ engine'.cursor = s
  <2>1. "executing" \in Pcs
    BY DEF Pcs
  <2> QED
    BY <1>2, <1>3, <2>1, SaveThenLemma
<1> QED
  BY <1>1, <1>3, <1>5, <1>6, MutationInv DEF At

\* What is known of the step whose body runs.
LEMMA ExecutingFacts ==
    ASSUME EngineInv, At("executing")
    PROVE  /\ mem # Nothing /\ mem \in Transaction /\ engine \in Control
           /\ engine.cursor \in Steps
           /\ mem.steps[engine.cursor].status = "in_progress"
           /\ runs \in Nat /\ barred \in SUBSET Steps /\ Keeps(mem, mem)
<1>1. mem # Nothing
  BY DEF EngineInv, TypeOK, At
<1> QED
  BY <1>1, ObjectFacts DEF EngineInv, TypeOK, Started

\* The end of a step body: the step in progress gets its status, then the checkpoint.
LEMMA EndOfStepInv ==
    ASSUME EngineInv, At("executing"), UNCHANGED <<disk, runs>>, barred' \in SUBSET Steps,
           NEW base \in Transaction, base.history = mem.history,
           Keeps(mem, base), base.steps[engine.cursor].status # "successful",
           NEW status \in StepStatuses, NEW event \in Events,
           mem' = Mark(base, engine.cursor, status, event),
           NEW then \in Pcs \ {"executing"}, NEW cursor \in Steps \cup {0},
           engine' = SaveThen(then, cursor)
    PROVE  EngineInv'
<1>1. /\ mem' \in Transaction /\ Keeps(mem, mem')
      /\ \E e \in Entry : mem'.history = Append(mem.history, e)
  BY ExecutingFacts, MarkKeeps
<1>2. engine' \in Control /\ engine'.pc = "saving" /\ engine'.then = then
  BY ExecutingFacts, SaveThenLemma
<1> QED
  BY <1>1, <1>2, ExecutingFacts, MutationInv DEF At

\* A step body that returns.
LEMMA EndStepInv ==
    ASSUME EngineInv, NEW ending \in {"ok", "skip"}, EndStep(ending)
    PROVE  EngineInv'
<1>1. /\ At("executing") /\ UNCHANGED <<disk, runs, barred>>
      /\ engine' = SaveThen("choosing", engine.cursor)
  BY DEF EndStep
<1>2. PICK status \in {"successful", "skipped"}, event \in {"step_succeeded", "step_skipped"} :
         mem' = Mark(mem, engine.cursor, status, event)
  BY DEF EndStep
<1>3. /\ status \in StepStatuses /\ event \in Events /\ "choosing" \in Pcs \ {"executing"}
      /\ mem.steps[engine.cursor].status # "successful"
  BY <1>1, ExecutingFacts DEF StepStatuses, Events, Pcs
<1> QED
  BY <1>1, <1>2, <1>3, ExecutingFacts, EndOfStepInv

\* A step body that fails with an exception.
LEMMA FailStepInv ==
    ASSUME EngineInv, At("executing"), UNCHANGED <<disk, runs>>, barred' \in SUBSET Steps,
           NEW exc \in Exc, FailStep(exc),
           NEW then \in Pcs \ {"executing"}, NEW cursor \in Steps \cup {0},
           engine' = SaveThen(then, cursor)
    PROVE  EngineInv'
<1> DEFINE base == [mem EXCEPT !.steps[engine.cursor].excs = Append(@, exc)]
<1>1. mem' = Mark(base, engine.cursor, "failed", "step_failed")
  BY DEF FailStep
<1>2. /\ base \in Transaction /\ base.history = mem.history /\ Keeps(mem, base)
      /\ base.steps[engine.cursor].status = "in_progress"
  BY ExecutingFacts, ExcLemma
<1> HIDE DEF base
<1>3. "failed" \in StepStatuses /\ "step_failed" \in Events
  BY DEF StepStatuses, Events
<1>4. base.steps[engine.cursor].status # "successful"
  BY <1>2
<1> QED
  BY <1>1, <1>2, <1>3, <1>4, EndOfStepInv

\* The exception a step raises now.
LEMMA RaisedType ==
    ASSUME EngineInv, At("executing"), NEW kind \in {"business", "system"}, NEW halts \in BOOLEAN
    PROVE  Raised(kind, halts) \in Exc
<1>1. mem.retries \in Nat
  BY ExecutingFacts, TransactionParts
<1> QED
  BY <1>1 DEF Raised, Exc

\* BusinessException.
LEMMA BusinessFailureInv ==
    ASSUME EngineInv, NEW halts \in BOOLEAN, BusinessFailure(halts)
    PROVE  EngineInv'
<1> DEFINE then == IF halts THEN "skipping" ELSE "choosing"
<1>1. /\ At("executing") /\ UNCHANGED <<disk, runs>> /\ FailStep(Raised("business", halts))
      /\ engine' = SaveThen(then, engine.cursor) /\ barred' = barred \cup {engine.cursor}
  BY DEF BusinessFailure
<1>2. then \in Pcs \ {"executing"}
  BY DEF Pcs
<1> HIDE DEF then
<1>3. barred' \in SUBSET Steps /\ engine.cursor \in Steps \cup {0}
  BY <1>1, ExecutingFacts
<1>4. Raised("business", halts) \in Exc
  BY <1>1, RaisedType
<1> QED
  BY <1>1, <1>2, <1>3, <1>4, FailStepInv

\* SystemException, or an exception wrapped as one.
LEMMA SystemFailureInv == ASSUME EngineInv, SystemFailure PROVE EngineInv'
<1>1. /\ At("executing") /\ UNCHANGED <<disk, runs, barred>>
      /\ FailStep(Raised("system", TRUE)) /\ engine' = SaveThen("choosing", NumSteps)
  BY DEF SystemFailure
<1>2. "choosing" \in Pcs \ {"executing"}
  BY DEF Pcs
<1>3. barred' \in SUBSET Steps
  BY <1>1, ExecutingFacts
<1>4. Raised("system", TRUE) \in Exc
  BY <1>1, RaisedType
<1> QED
  BY <1>1, <1>2, <1>3, <1>4, NumStepsIsCursor, FailStepInv

\* MemoryError in a step body.
LEMMA StepInterruptedInv == ASSUME EngineInv, StepInterrupted PROVE EngineInv'
<1>1. /\ At("executing") /\ UNCHANGED <<disk, runs, barred>>
      /\ mem' = Mark(mem, engine.cursor, "failed", "step_interrupted")
      /\ engine' = SaveThen("aborting", NumSteps)
  BY DEF StepInterrupted
<1>2. /\ "aborting" \in Pcs \ {"executing"} /\ "failed" \in StepStatuses
      /\ "step_interrupted" \in Events /\ mem.steps[engine.cursor].status # "successful"
  BY <1>1, ExecutingFacts DEF Pcs, StepStatuses, Events
<1> QED
  BY <1>1, <1>2, ExecutingFacts, NumStepsIsCursor, EndOfStepInv

\* A run in progress has an object and is not between a STEP_STARTED and its checkpoint.
LEMMA RunningFacts ==
    ASSUME EngineInv, NEW pc \in Pcs \ {"idle", "saving", "executing"}, At(pc)
    PROVE  /\ mem # Nothing /\ mem \in Transaction /\ engine \in Control
           /\ engine.then # "executing" /\ engine.pc # "executing" /\ engine.pc # "idle"
           /\ runs \in Nat /\ barred \in SUBSET Steps /\ Keeps(mem, mem)
<1>1. mem # Nothing
  BY DEF EngineInv, TypeOK, At
<1> QED
  BY <1>1, ObjectFacts DEF EngineInv, At

\* The steps after a halting failure.
LEMMA SkipDownstreamInv == ASSUME EngineInv, SkipDownstream PROVE EngineInv'
<1>1. /\ At("skipping") /\ UNCHANGED <<disk, runs, barred>>
      /\ "skipping" \in Pcs \ {"idle", "saving", "executing"} /\ "choosing" \in Pcs
  BY DEF SkipDownstream, Pcs
<1>2. CASE Downstream = {} /\ engine' = SaveThen("choosing", NumSteps) /\ UNCHANGED mem
  <2>1. engine' \in Control /\ engine'.pc = "saving" /\ engine'.then = "choosing"
    BY <1>1, <1>2, RunningFacts, NumStepsIsCursor, SaveThenLemma
  <2> QED
    BY <1>1, <1>2, <2>1, RunningFacts, ControlInv
<1>3. CASE UNCHANGED engine /\ \E s \in Steps : /\ First(s, Downstream)
                                             /\ mem' = Mark(mem, s, "skipped", "step_skipped")
  <2>1. PICK s \in Steps : /\ First(s, Downstream)
                           /\ mem' = Mark(mem, s, "skipped", "step_skipped")
    BY <1>3
  <2>2. mem.steps[s].status # "successful"
    BY <2>1 DEF First, Downstream
  <2>3. "skipped" \in StepStatuses /\ "step_skipped" \in Events
    BY DEF StepStatuses, Events
  <2>4. /\ mem' \in Transaction /\ Keeps(mem, mem')
        /\ \E e \in Entry : mem'.history = Append(mem.history, e)
    BY <1>1, <2>1, <2>2, <2>3, RunningFacts, MarkKeeps
  <2> QED
    BY <1>1, <1>3, <2>4, RunningFacts, MutationInv DEF At
<1> QED
  BY <1>2, <1>3 DEF SkipDownstream

\* The end of a pass.
LEMMA EndPassInv == ASSUME EngineInv, EndPass PROVE EngineInv'
<1>1. /\ At("choosing") /\ UNCHANGED <<mem, disk, runs, barred>>
      /\ "choosing" \in Pcs \ {"idle", "saving", "executing"} /\ "passed" \in Pcs
  BY DEF EndPass, Pcs
<1>2. engine' \in Control /\ engine'.pc # "executing" /\ engine'.then # "executing"
  <2>1. CASE engine' = SaveThen("passed", NumSteps)
    <3>1. engine' \in Control /\ engine'.pc = "saving" /\ engine'.then = "passed"
      BY <1>1, <2>1, RunningFacts, NumStepsIsCursor, SaveThenLemma
    <3> QED
      BY <3>1
  <2>2. CASE engine' = [engine EXCEPT !.pc = "passed"]
    BY <1>1, <2>2, RunningFacts DEF Control
  <2> QED
    BY <2>1, <2>2 DEF EndPass
<1> QED
  BY <1>1, <1>2, RunningFacts, ControlInv

\* A retry pass reopens steps that failed for a system reason.
LEMMA RetryPassInv == ASSUME EngineInv, RetryPass PROVE EngineInv'
<1> DEFINE base == [Reset(mem, Retryable(mem)) EXCEPT !.retries = @ + 1]
<1>1. /\ At("passed") /\ UNCHANGED <<disk, runs, barred>>
      /\ mem' = Record(base, "retry_scheduled", 0)
      /\ engine' = [engine EXCEPT !.pc = "choosing", !.cursor = 0, !.retrying = TRUE,
                                 !.blocked = BusinessFailed(mem)]
      /\ "passed" \in Pcs \ {"idle", "saving", "executing"} /\ "choosing" \in Pcs
      /\ "retry_scheduled" \in Events
  BY DEF RetryPass, Pcs, Events
<1>2. mem # Nothing /\ mem \in Transaction /\ engine \in Control /\ engine.then # "executing"
      /\ runs \in Nat /\ barred \in SUBSET Steps
  BY <1>1, RunningFacts
<1>3. /\ Retryable(mem) \in SUBSET Steps
      /\ \A s \in Retryable(mem) : mem.steps[s].status # "successful"
  BY DEF Retryable, FailedLastBy
<1>4. /\ Reset(mem, Retryable(mem)) \in Transaction
      /\ Reset(mem, Retryable(mem)).history = mem.history
      /\ Keeps(mem, Reset(mem, Retryable(mem)))
  BY <1>2, <1>3, ResetLemma
<1>5. /\ base \in Transaction /\ base.history = mem.history
      /\ base.steps = Reset(mem, Retryable(mem)).steps
  BY <1>4 DEF Transaction
<1> HIDE DEF base
<1>6. Keeps(mem, base)
  BY <1>4, <1>5 DEF Keeps
<1>7. /\ mem' \in Transaction /\ Keeps(mem, mem')
      /\ \E e \in Entry : mem'.history = Append(mem.history, e)
  BY <1>1, <1>2, <1>5, <1>6, RecordKeeps
<1>8. BusinessFailed(mem) \in SUBSET Steps
  BY DEF BusinessFailed
<1>9. engine' \in Control /\ engine'.pc = "choosing" /\ engine'.then = engine.then
  BY <1>1, <1>2, <1>8 DEF Control
<1> QED
  BY <1>1, <1>2, <1>7, <1>9, MutationInv DEF At

\* The verdict of a run changes no step.
LEMMA VerdictInv ==
    ASSUME EngineInv, NEW pc \in Pcs \ {"idle", "saving", "executing"}, At(pc),
           UNCHANGED <<disk, runs, barred>>,
           NEW status \in {"successful", "failed"}, NEW outcome \in Outcomes,
           mem' = Record([mem EXCEPT !.status = status, !.outcome = outcome],
                         "transaction_completed", 0),
           engine' = SaveThen("idle", NumSteps)
    PROVE  EngineInv'
<1> DEFINE base == [mem EXCEPT !.status = status, !.outcome = outcome]
<1>1. /\ base \in Transaction /\ base.history = mem.history /\ base.steps = mem.steps
  BY RunningFacts DEF Transaction
<1>2. mem' = Record(base, "transaction_completed", 0)
  OBVIOUS
<1> HIDE DEF base
<1>3. Keeps(mem, base) /\ "transaction_completed" \in Events /\ "idle" \in Pcs
  BY <1>1 DEF Keeps, Events, Pcs
<1>4. /\ mem' \in Transaction /\ Keeps(mem, mem')
      /\ \E e \in Entry : mem'.history = Append(mem.history, e)
  BY <1>1, <1>2, <1>3, RunningFacts, RecordKeeps
<1>5. engine' \in Control /\ engine'.pc = "saving" /\ engine'.then = "idle"
  BY <1>3, RunningFacts, NumStepsIsCursor, SaveThenLemma
<1> QED
  BY <1>4, <1>5, RunningFacts, MutationInv DEF At

\* The regular end of a run.
LEMMA CompleteInv == ASSUME EngineInv, Complete PROVE EngineInv'
<1>1. /\ At("passed") /\ UNCHANGED <<disk, runs, barred>>
      /\ mem' = Settled(mem) /\ engine' = SaveThen("idle", NumSteps)
      /\ "passed" \in Pcs \ {"idle", "saving", "executing"}
  BY DEF Complete, Pcs
<1>2. PICK status \in {"successful", "failed"}, outcome \in Outcomes :
        Settled(mem) = Record([mem EXCEPT !.status = status, !.outcome = outcome],
                              "transaction_completed", 0)
  <2> DEFINE outcome == IF \A s \in Steps : mem.steps[s].status \in Done THEN "successful"
                        ELSE IF TerminalKind(mem) = "business" THEN "business_failed"
                        ELSE "system_failed"
             status == IF outcome = "successful" THEN outcome ELSE "failed"
  <2>1. outcome \in Outcomes
    BY DEF Outcomes
  <2>2. status \in {"successful", "failed"}
    OBVIOUS
  <2>3. Settled(mem) = Record([mem EXCEPT !.outcome = outcome, !.status = status],
                              "transaction_completed", 0)
    BY DEF Settled
  <2> HIDE DEF outcome, status
  <2>4. [mem EXCEPT !.outcome = outcome, !.status = status]
          = [mem EXCEPT !.status = status, !.outcome = outcome]
    BY <1>1, RunningFacts DEF Transaction
  <2> QED
    BY <2>1, <2>2, <2>3, <2>4
<1> QED
  BY <1>1, <1>2, VerdictInv

\* The MemoryError end of a run.
LEMMA AbortInv == ASSUME EngineInv, Abort PROVE EngineInv'
<1>1. /\ At("aborting") /\ UNCHANGED <<disk, runs, barred>>
      /\ mem' = Record([mem EXCEPT !.status = "failed", !.outcome = "interrupted"],
                       "transaction_completed", 0)
      /\ engine' = SaveThen("idle", NumSteps)
      /\ "aborting" \in Pcs \ {"idle", "saving", "executing"}
      /\ "interrupted" \in Outcomes
  BY DEF Abort, Pcs, Outcomes
<1> QED
  BY <1>1, VerdictInv

\* run() gives up between two checkpoints: the object stays ahead of the snapshot.
LEMMA GiveUpInv ==
    ASSUME EngineInv, Escape \/ OutOfMemory
    PROVE  EngineInv'
<1>1. /\ UNCHANGED <<mem, disk, runs, barred>> /\ ~At("idle")
      /\ \/ engine' = Idle
         \/ engine' = [engine EXCEPT !.pc = "aborting", !.then = "idle"]
  BY DEF Escape, OutOfMemory, At
<1>2. mem # Nothing
  BY <1>1 DEF EngineInv, TypeOK
<1>3. engine \in Control /\ runs \in Nat /\ barred \in SUBSET Steps
  BY <1>2, ObjectFacts
<1>4. engine' \in Control /\ engine'.pc # "executing" /\ engine'.then # "executing"
  BY <1>1, <1>3, IdleIsControl DEF Control, Pcs
<1> QED
  BY <1>1, <1>2, <1>3, <1>4, ControlInv

\* The process dies: only the snapshot is left.
LEMMA CrashInv == ASSUME EngineInv, Crash PROVE EngineInv'
<1>1. mem' = Nothing /\ engine' = Idle /\ UNCHANGED <<disk, runs, barred>>
  BY DEF Crash
<1> QED
  BY <1>1, IdleIsControl DEF EngineInv, TypeOK, At, Started, IntentIsDurable

-----------------------------------------------------------------------------
(* Theorems                                                                  *)

\* Every step keeps the inductive invariant.
LEMMA EngineInvStep == EngineInv /\ [Next]_vars => EngineInv'
<1> SUFFICES ASSUME EngineInv, [Next]_vars PROVE EngineInv'
  OBVIOUS
<1>1. CASE UNCHANGED vars
  BY <1>1 DEF vars, EngineInv, TypeOK, At, Started, IntentIsDurable
<1>2. CASE Create
  BY <1>2, CreateInv
<1>3. CASE SavePrepared
  BY <1>3, SavePreparedInv
<1>4. CASE \E again \in BOOLEAN : Resume(again)
  BY <1>4, ResumeInv
<1>5. CASE StartRun
  BY <1>5, StartRunInv
<1>6. CASE Reject
  BY <1>6, RejectInv
<1>7. CASE Save
  BY <1>7, SaveInv
<1>8. CASE StartStep
  BY <1>8, StartStepInv
<1>9. CASE \E ending \in {"ok", "skip"} : EndStep(ending)
  BY <1>9, EndStepInv
<1>10. CASE \E halts \in BOOLEAN : BusinessFailure(halts)
  BY <1>10, BusinessFailureInv
<1>11. CASE SystemFailure
  BY <1>11, SystemFailureInv
<1>12. CASE StepInterrupted
  BY <1>12, StepInterruptedInv
<1>13. CASE SkipDownstream
  BY <1>13, SkipDownstreamInv
<1>14. CASE EndPass
  BY <1>14, EndPassInv
<1>15. CASE RetryPass
  BY <1>15, RetryPassInv
<1>16. CASE Complete
  BY <1>16, CompleteInv
<1>17. CASE Abort
  BY <1>17, AbortInv
<1>18. CASE Escape \/ OutOfMemory
  BY <1>18, GiveUpInv
<1>19. CASE Crash
  BY <1>19, CrashInv
<1> QED
  BY <1>1, <1>2, <1>3, <1>4, <1>5, <1>6, <1>7, <1>8, <1>9, <1>10, <1>11, <1>12, <1>13,
     <1>14, <1>15, <1>16, <1>17, <1>18, <1>19 DEF Next

\* The inductive invariant holds in every reachable state.
THEOREM EngineInvariant == Spec => []EngineInv
  BY InitInv, EngineInvStep, PTL DEF Spec

\* Every variable keeps its type (engine.py and recovery.py: what each assignment writes).
THEOREM EngineTypeCorrect == Spec => []TypeOK
<1>1. EngineInv => TypeOK
  BY DEF EngineInv
<1> QED
  BY <1>1, EngineInvariant, PTL

\* No step body runs before its STEP_STARTED checkpoint is stored (engine.py, _execute_pass).
THEOREM IntentAlwaysDurable == Spec => []IntentIsDurable
<1>1. EngineInv => IntentIsDurable
  BY DEF EngineInv
<1> QED
  BY <1>1, EngineInvariant, PTL

\* The stored history is always a prefix of the history in memory (recovery.py, and the
\* insert-or-ignore of persistence.py).
THEOREM DurableHistoryAlwaysPrefix == Spec => []DurableHistoryIsPrefix
<1>1. EngineInv => DurableHistoryIsPrefix
  <2> SUFFICES ASSUME EngineInv, mem # Nothing
               PROVE  IsPrefix(disk.history, mem.history)
    BY DEF DurableHistoryIsPrefix
  <2>1. mem \in Transaction /\ disk \in Transaction \cup {Nothing} /\ Behind(disk, mem)
    BY DEF EngineInv, TypeOK
  <2>2. mem.history \in Seq(Entry)
    BY <2>1, TransactionParts
  <2>3. CASE disk = Nothing
    <3>1. disk.history = <<>> /\ <<>> \in Seq(Entry)
      BY <2>3 DEF Nothing
    <3>2. Pre(disk.history, mem.history)
      BY <2>2, <3>1 DEF Pre
    <3> QED
      BY <2>2, <3>1, <3>2, PrefixIff
  <2>4. CASE disk # Nothing
    <3>1. disk.history \in Seq(Entry) /\ Pre(disk.history, mem.history)
      BY <2>1, <2>4, TransactionParts DEF Behind
    <3> QED
      BY <2>2, <3>1, PrefixIff
  <2> QED
    BY <2>3, <2>4
<1> QED
  BY <1>1, EngineInvariant, PTL

\* A durable success is never lost, whatever crashes, lost checkpoints, retries and resumes
\* happen, so no successful step is ever repeated.
THEOREM SuccessAlwaysKept == Spec => SuccessIsKept
<1> DEFINE Kept == \A s \in Steps : disk # Nothing /\ disk.steps[s].status = "successful"
                      => disk'.steps[s].status = "successful"
<1>1. EngineInv /\ [Next]_vars => [Kept]_vars
  <2> SUFFICES ASSUME EngineInv, Next, disk # Nothing, disk' # disk,
                      NEW s \in Steps, disk.steps[s].status = "successful"
               PROVE  disk'.steps[s].status = "successful"
    BY DEF Next
  <2>1. Save \/ SavePrepared
    BY DEF Next, Create, Resume, StartRun, Reject, StartStep, EndStep, BusinessFailure,
           SystemFailure, StepInterrupted, SkipDownstream, EndPass, RetryPass, Complete,
           Abort, Escape, OutOfMemory, Crash
  <2>2. mem # Nothing /\ disk' = Stored(mem) /\ UNCHANGED mem
    BY <2>1 DEF Save, SavePrepared, Nothing, EngineInv, TypeOK, At
  <2>3. disk' = mem
    BY <2>2, StoreInv
  <2> QED
    BY <2>2, <2>3 DEF EngineInv, Behind, Keeps
<1> QED
  BY <1>1, EngineInvariant, PTL DEF Spec, SuccessIsKept

-----------------------------------------------------------------------------
(* What one run knows of its steps                                           *)
(*                                                                           *)
(* The verdict, the retry budget and the finality of a business failure are  *)
(* statements about histories.  RunInv says how the position of run() and    *)
(* the object account for the history since its TRANSACTION_STARTED entry.   *)

\* The position run() is at or goes on to after its checkpoint.
Heading(pc) == At(pc) \/ engine.then = pc

\* The steps this run will not start any more in its current pass.
Fixed == IF At("idle") THEN Steps ELSE engine.blocked \cup 1..engine.cursor

\* Entry k is the newest one about step s.
Newest(tx, s, k) ==
    /\ k \in DOMAIN tx.history /\ tx.history[k].step = s
    /\ \A j \in DOMAIN tx.history : j > k => tx.history[j].step # s

\* The skip of entry k was the step's own choice; or the halting failure h caused it.
OwnSkip(tx, k) == k > 1 /\ tx.history[k - 1].step = tx.history[k].step
Causes(tx, h, k) ==
    /\ h \in Halting(tx) /\ h < tx.history[k].step
    /\ Last(tx.steps[h].excs).retry = tx.history[k].retry

SkipExplained(tx, s, fixed) ==
    \E k \in DOMAIN tx.history :
        /\ Newest(tx, s, k) /\ tx.history[k].event = "step_skipped"
        /\ OwnSkip(tx, k) \/ \E h \in fixed : Causes(tx, h, k)

\* Every skipped step says in the history why, and a failure that caused it still stands.
SkipsExplained(tx, fixed) ==
    \A s \in Steps : tx.steps[s].status = "skipped" => SkipExplained(tx, s, fixed)

\* The entries of the current run that started step s, and those of its failures.
StartsOf(tx, s) == {k \in Since(tx.history, "transaction_started") :
                        tx.history[k].event = "step_started" /\ tx.history[k].step = s}
Failures(tx) == {k \in Since(tx.history, "transaction_started") :
                    tx.history[k].event = "step_failed"}

InBudget(tx) ==
    /\ tx.retries <= MaxRetries
    /\ \A s \in Steps : Cardinality(StartsOf(tx, s)) <= MaxRetries + 1

NewestFailure(tx, k) ==
    /\ k \in DOMAIN tx.history /\ tx.history[k].event = "step_failed"
    /\ \A j \in DOMAIN tx.history : j > k => tx.history[j].event # "step_failed"

\* The newest STEP_FAILED entry is about the newest exception of its step.
FailureKnown(tx) ==
    /\ \A k \in DOMAIN tx.history : NewestFailure(tx, k) =>
         LET f == tx.history[k].step IN
         /\ f \in Steps /\ tx.steps[f].excs # <<>>
         /\ Last(tx.steps[f].excs).retry = tx.history[k].retry
    /\ (\E k \in DOMAIN tx.history : tx.history[k].event = "step_failed") =>
         \E k \in DOMAIN tx.history : NewestFailure(tx, k)

\* VerdictIsTrue of an object, which may also have been refused by the validation.
Verdict(tx) ==
    /\ tx.status = "successful" =>
         tx.outcome = "successful" /\ \A s \in Steps : tx.steps[s].status \in Done
    /\ tx.status = "failed" /\ tx.outcome \notin {"interrupted", "validation_failed"} =>
         \E s \in Steps : tx.steps[s].status \notin Done
    /\ tx.status = "failed" /\ tx.outcome = "business_failed" => BusinessFailed(tx) # {}

\* run() has written its verdict, or is about to write that of an interruption.
Ending == Heading("aborting") \/ (At("saving") /\ engine.then = "idle")
Working == ~At("idle") /\ ~Ending

OwnEntry == Heading("executing") =>
    mem.history # <<>> /\ Last(mem.history).step = engine.cursor

HaltStands == Heading("skipping") =>
    /\ Failures(mem) # {} /\ engine.cursor \in Halting(mem)
    /\ Last(mem.steps[engine.cursor].excs).retry = mem.retries

Explained ==
    /\ disk # Nothing => SkipsExplained(disk, Steps)
    /\ mem # Nothing => SkipsExplained(mem, Fixed)

\* No step that recovery promised to leave alone can be started.
BarredStays ==
    /\ disk = Nothing => barred = {}
    /\ mem # Nothing /\ (~At("idle") \/ Resumed(mem)) =>
         \A s \in barred : mem.steps[s].status = "skipped" \/ s \in BusinessFailed(mem) \cap Fixed

\* A step starts at most once per pass, and only a retry pass starts it again.
Budget ==
    /\ mem # Nothing => InBudget(mem)
    /\ disk # Nothing => InBudget(disk)
    /\ ~At("idle") => \A s \in Steps :
         Cardinality(StartsOf(mem, s)) <= mem.retries + (IF s <= engine.cursor THEN 1 ELSE 0)

\* As long as no step has failed in this run, every step it has passed is done.
Visited == Working /\ Failures(mem) = {} =>
    \A s \in Steps : s <= engine.cursor \/ Heading("passed") =>
        \/ mem.steps[s].status \in Done \/ s \in engine.blocked
        \/ s = engine.cursor /\ Heading("executing")

\* A business failure of this run stands until the run is over.
FailureStays == ~At("idle") =>
    /\ engine.blocked \subseteq BusinessFailed(mem)
    /\ \A k \in Failures(mem) :
          NewestFailure(mem, k) /\ Last(mem.steps[mem.history[k].step].excs).kind = "business"
             => mem.history[k].step \in BusinessFailed(mem) \cap Fixed

Verdicts ==
    /\ mem # Nothing => Verdict(mem) /\ FailureKnown(mem)
    /\ disk # Nothing => /\ Verdict(disk) /\ FailureKnown(disk)
                         /\ disk.status = "failed" => disk.outcome # "validation_failed"
    /\ ~At("idle") => mem.outcome # "validation_failed"
    /\ Working => mem.status = "in_progress"

\* What follows a checkpoint is known only while it is due.
ThenIdle == ~At("saving") => engine.then = "idle"

RunInv == /\ ThenIdle /\ OwnEntry /\ HaltStands /\ Explained /\ BarredStays
          /\ Budget /\ Visited /\ FailureStays /\ Verdicts

-----------------------------------------------------------------------------
(* One more history entry                                                    *)

\* new is tx with one more entry e.
Grown(tx, new, e) == /\ tx \in Transaction /\ new \in Transaction /\ e \in Entry
                     /\ new.history = Append(tx.history, e)

\* The positions of a grown history.
LEMMA GrownFacts ==
    ASSUME NEW tx, NEW new, NEW e, Grown(tx, new, e)
    PROVE  /\ Len(tx.history) \in Nat
           /\ DOMAIN tx.history = 1..Len(tx.history)
           /\ DOMAIN new.history = 1..(Len(tx.history) + 1)
           /\ Len(new.history) = Len(tx.history) + 1
           /\ \A k \in 1..Len(tx.history) : new.history[k] = tx.history[k]
           /\ new.history[Len(tx.history) + 1] = e
           /\ new.history # <<>> /\ Last(new.history) = e
<1>1. tx.history \in Seq(Entry) /\ e \in Entry
  BY TransactionParts DEF Grown
<1> QED
  BY <1>1, AppendFacts DEF Grown

\* The entry that explains a skip stays the newest one of its step.
LEMMA ExplainedGrows ==
    ASSUME NEW tx, NEW new, NEW e, Grown(tx, new, e),
           NEW F, NEW G, SkipsExplained(tx, F),
           \A h \in F \cap Halting(tx) : h \in G /\ new.steps[h] = tx.steps[h],
           \A s \in Steps : new.steps[s].status = "skipped" =>
              \/ tx.steps[s].status = "skipped" /\ e.step # s
              \/ /\ e.step = s /\ e.event = "step_skipped"
                 /\ \/ tx.history # <<>> /\ Last(tx.history).step = s
                    \/ \E h \in G \cap Halting(new) :
                          h < s /\ Last(new.steps[h].excs).retry = e.retry
    PROVE  SkipsExplained(new, G)
<1> SUFFICES ASSUME NEW s \in Steps, new.steps[s].status = "skipped"
             PROVE  SkipExplained(new, s, G)
  BY DEF SkipsExplained
<1> DEFINE n == Len(tx.history)
<1>1. /\ n \in Nat /\ DOMAIN tx.history = 1..n /\ DOMAIN new.history = 1..(n + 1)
      /\ \A k \in 1..n : new.history[k] = tx.history[k]
      /\ new.history[n + 1] = e
  BY GrownFacts
<1>2. \A h \in F \cap Halting(tx) : h \in Halting(new)
  BY DEF Halting, BusinessFailed, FailedLastBy
<1> HIDE DEF n
<1>3. CASE tx.steps[s].status = "skipped" /\ e.step # s
  <2>1. PICK k \in DOMAIN tx.history :
            /\ Newest(tx, s, k) /\ tx.history[k].event = "step_skipped"
            /\ OwnSkip(tx, k) \/ \E h \in F : Causes(tx, h, k)
    BY <1>3 DEF SkipsExplained, SkipExplained
  <2>2. k \in DOMAIN new.history /\ new.history[k] = tx.history[k]
    BY <1>1
  <2>3. Newest(new, s, k)
    <3> SUFFICES ASSUME NEW j \in DOMAIN new.history, j > k PROVE new.history[j].step # s
      BY <2>1, <2>2 DEF Newest
    <3>1. CASE j = n + 1
      BY <1>1, <1>3, <3>1
    <3>2. CASE j \in 1..n
      BY <1>1, <2>1, <3>2 DEF Newest
    <3> QED
      BY <1>1, <3>1, <3>2
  <2>4. CASE OwnSkip(tx, k)
    <3>1. k - 1 \in 1..n
      BY <1>1, <2>1, <2>4 DEF OwnSkip
    <3>2. OwnSkip(new, k)
      BY <1>1, <2>2, <2>4, <3>1 DEF OwnSkip
    <3> QED
      BY <2>1, <2>2, <2>3, <3>2 DEF SkipExplained
  <2>5. CASE \E h \in F : Causes(tx, h, k)
    <3>1. PICK h \in F : Causes(tx, h, k)
      BY <2>5
    <3>2. h \in G /\ Causes(new, h, k)
      BY <1>2, <2>2, <3>1 DEF Causes
    <3> QED
      BY <2>1, <2>2, <2>3, <3>2 DEF SkipExplained
  <2> QED
    BY <2>1, <2>4, <2>5
<1>4. CASE /\ e.step = s /\ e.event = "step_skipped"
           /\ \/ tx.history # <<>> /\ Last(tx.history).step = s
              \/ \E h \in G \cap Halting(new) : h < s /\ Last(new.steps[h].excs).retry = e.retry
  <2>1. /\ n + 1 \in DOMAIN new.history /\ Newest(new, s, n + 1)
        /\ new.history[n + 1].event = "step_skipped"
    BY <1>1, <1>4 DEF Newest
  <2>2. CASE tx.history # <<>> /\ Last(tx.history).step = s
    <3>1. tx.history \in Seq(Entry)
      BY TransactionParts DEF Grown
    <3>2. n \in 1..n /\ tx.history[n].step = s
      BY <2>2, <3>1 DEF n, Last
    <3>3. OwnSkip(new, n + 1)
      BY <1>1, <1>4, <3>2 DEF OwnSkip
    <3> QED
      BY <2>1, <3>3 DEF SkipExplained
  <2>3. CASE \E h \in G \cap Halting(new) : h < s /\ Last(new.steps[h].excs).retry = e.retry
    <3>1. \E h \in G : Causes(new, h, n + 1)
      BY <1>1, <1>4, <2>3 DEF Causes
    <3> QED
      BY <2>1, <3>1 DEF SkipExplained
  <2> QED
    BY <1>4, <2>2, <2>3
<1> QED
  BY <1>3, <1>4

\* The entries since the start of the run, with one more entry.
LEMMA SinceGrows ==
    ASSUME NEW tx, NEW new, NEW e, Grown(tx, new, e)
    PROVE  /\ Since(tx.history, "transaction_started") \subseteq 1..Len(tx.history)
           /\ Since(new.history, "transaction_started") =
                IF e.event = "transaction_started" THEN {}
                ELSE Since(tx.history, "transaction_started") \cup {Len(tx.history) + 1}
<1> DEFINE n == Len(tx.history)
           old == Since(tx.history, "transaction_started")
           now == Since(new.history, "transaction_started")
<1>1. /\ n \in Nat /\ DOMAIN tx.history = 1..n /\ DOMAIN new.history = 1..(n + 1)
      /\ Len(new.history) = n + 1
      /\ \A k \in 1..n : new.history[k] = tx.history[k]
      /\ new.history[n + 1] = e
  BY GrownFacts
<1>2. /\ old = {k \in 1..n : \A j \in k..n : tx.history[j].event # "transaction_started"}
      /\ now = {k \in 1..(n + 1) :
                  \A j \in k..(n + 1) : new.history[j].event # "transaction_started"}
  BY <1>1 DEF Since
<1> HIDE DEF old, now, n
<1>3. CASE e.event = "transaction_started"
  <2>1. \A k \in 1..(n + 1) : n + 1 \in k..(n + 1)
    BY <1>1
  <2> QED
    BY <1>1, <1>2, <1>3, <2>1 DEF n, old, now
<1>4. CASE e.event # "transaction_started"
  <2>1. \A k \in 1..n : (\A j \in k..(n + 1) : new.history[j].event # "transaction_started")
                          <=> (\A j \in k..n : tx.history[j].event # "transaction_started")
    <3>1. \A k \in 1..n : k..(n + 1) = (k..n) \cup {n + 1} /\ k..n \subseteq 1..n
      BY <1>1
    <3> QED
      BY <1>1, <1>4, <3>1
  <2>2. (n + 1)..(n + 1) = {n + 1} /\ 1..(n + 1) = (1..n) \cup {n + 1}
    BY <1>1
  <2>3. now = old \cup {n + 1}
    BY <1>1, <1>2, <1>4, <2>1, <2>2
  <2> QED
    BY <1>2, <1>4, <2>3 DEF n, old, now
<1> QED
  BY <1>3, <1>4

\* The starts of a step, counted.
LEMMA StartsGrow ==
    ASSUME NEW tx, NEW new, NEW e, Grown(tx, new, e), NEW s \in Steps
    PROVE  /\ Cardinality(StartsOf(tx, s)) \in Nat
           /\ e.event = "transaction_started" => Cardinality(StartsOf(new, s)) = 0
           /\ e.event \notin {"transaction_started", "step_started"} \/ e.step # s =>
                Cardinality(StartsOf(new, s)) <= Cardinality(StartsOf(tx, s))
           /\ Cardinality(StartsOf(new, s)) <= Cardinality(StartsOf(tx, s)) + 1
<1> DEFINE n == Len(tx.history)
           old == Since(tx.history, "transaction_started")
           now == Since(new.history, "transaction_started")
<1>1. /\ n \in Nat
      /\ \A k \in 1..n : new.history[k] = tx.history[k]
      /\ new.history[n + 1] = e
  BY GrownFacts
<1>2. /\ old \subseteq 1..n
      /\ now = IF e.event = "transaction_started" THEN {} ELSE old \cup {n + 1}
  BY SinceGrows
<1>3. /\ StartsOf(tx, s) = {k \in old : /\ tx.history[k].event = "step_started"
                                      /\ tx.history[k].step = s}
      /\ StartsOf(new, s) = {k \in now : /\ new.history[k].event = "step_started"
                                       /\ new.history[k].step = s}
  BY DEF StartsOf
<1> HIDE DEF n, old, now
<1>4. IsFiniteSet(StartsOf(tx, s)) /\ Cardinality(StartsOf(tx, s)) \in Nat
  <2>1. IsFiniteSet(1..n)
    BY <1>1, FS_Interval
  <2>2. StartsOf(tx, s) \subseteq 1..n
    BY <1>2, <1>3
  <2> QED
    BY <2>1, <2>2, FS_Subset, FS_CardinalityType
<1>5. CASE e.event = "transaction_started"
  <2>1. StartsOf(new, s) = {}
    BY <1>2, <1>3, <1>5
  <2>2. Cardinality(StartsOf(new, s)) = 0
    BY <2>1, FS_EmptySet
  <2> QED
    BY <1>4, <2>2
<1>6. CASE e.event # "transaction_started" /\ (e.event # "step_started" \/ e.step # s)
  <2>1. StartsOf(new, s) = StartsOf(tx, s)
    BY <1>1, <1>2, <1>3, <1>6
  <2> QED
    BY <1>4, <1>6, <2>1
<1>7. CASE e.event = "step_started" /\ e.step = s
  <2>1. StartsOf(new, s) = StartsOf(tx, s) \cup {n + 1}
    BY <1>1, <1>2, <1>3, <1>7
  <2>2. Cardinality(StartsOf(new, s)) \in {Cardinality(StartsOf(tx, s)),
                                           Cardinality(StartsOf(tx, s)) + 1}
    <3>1. \A S : IsFiniteSet(S) => Cardinality(S \cup {n + 1}) \in
                                     {Cardinality(S), Cardinality(S) + 1}
      BY FS_AddElement
    <3> QED
      BY <1>4, <2>1, <3>1
  <2> QED
    BY <1>4, <1>7, <2>2
<1> QED
  BY <1>5, <1>6, <1>7

\* A count of starts is a number.
LEMMA StartsIsNat ==
    ASSUME NEW tx \in Transaction, NEW s \in Steps
    PROVE  Cardinality(StartsOf(tx, s)) \in Nat
<1> DEFINE e == Note(tx, "transaction_started", 0)
           new == Record(tx, "transaction_started", 0)
<1>1. new \in Transaction /\ e \in Entry /\ new.history = Append(tx.history, e)
  <2>1. "transaction_started" \in Events
    BY DEF Events
  <2> QED
    BY <2>1, RecordExact
<1> HIDE DEF e, new
<1>2. Grown(tx, new, e)
  BY <1>1 DEF Grown
<1> QED
  BY <1>2, StartsGrow

\* The failures of the run, and the newest of all.
LEMMA FailuresGrow ==
    ASSUME NEW tx, NEW new, NEW e, Grown(tx, new, e)
    PROVE  /\ e.event = "transaction_started" => Failures(new) = {}
           /\ e.event = "step_failed" => Failures(new) = Failures(tx) \cup {Len(tx.history) + 1}
           /\ e.event \notin {"transaction_started", "step_failed"} => Failures(new) = Failures(tx)
           /\ \A k \in DOMAIN new.history : NewestFailure(new, k) =>
                IF e.event = "step_failed" THEN k = Len(tx.history) + 1 ELSE NewestFailure(tx, k)
<1> DEFINE n == Len(tx.history)
           old == Since(tx.history, "transaction_started")
           now == Since(new.history, "transaction_started")
<1>1. /\ n \in Nat /\ DOMAIN tx.history = 1..n /\ DOMAIN new.history = 1..(n + 1)
      /\ \A k \in 1..n : new.history[k] = tx.history[k]
      /\ new.history[n + 1] = e
  BY GrownFacts
<1>2. /\ old \subseteq 1..n
      /\ now = IF e.event = "transaction_started" THEN {} ELSE old \cup {n + 1}
  BY SinceGrows
<1>3. /\ Failures(tx) = {k \in old : tx.history[k].event = "step_failed"}
      /\ Failures(new) = {k \in now : new.history[k].event = "step_failed"}
  BY DEF Failures
<1>4. ASSUME NEW k \in DOMAIN new.history, NewestFailure(new, k)
      PROVE  IF e.event = "step_failed" THEN k = n + 1 ELSE NewestFailure(tx, k)
  <2>1. CASE e.event = "step_failed"
    BY <1>1, <1>4, <2>1 DEF NewestFailure
  <2>2. CASE e.event # "step_failed"
    <3>1. k # n + 1
      BY <1>1, <1>4, <2>2 DEF NewestFailure
    <3>2. k \in 1..n
      BY <1>1, <3>1
    <3>3. \A j \in 1..n : j > k => tx.history[j].event # "step_failed"
      BY <1>1, <1>4 DEF NewestFailure
    <3> QED
      BY <1>1, <1>4, <2>2, <3>2, <3>3 DEF NewestFailure
  <2> QED
    BY <2>1, <2>2
<1> HIDE DEF n, old, now
<1>5. /\ e.event = "transaction_started" => Failures(new) = {}
      /\ e.event = "step_failed" => Failures(new) = Failures(tx) \cup {n + 1}
      /\ e.event \notin {"transaction_started", "step_failed"} => Failures(new) = Failures(tx)
  BY <1>1, <1>2, <1>3
<1> QED
  BY <1>4, <1>5 DEF n

\* The newest failure stays known when no exception is recorded without its entry.
LEMMA KnownGrows ==
    ASSUME NEW tx, NEW new, NEW e, Grown(tx, new, e), FailureKnown(tx),
           \/ /\ e.event # "step_failed"
              /\ \A s \in Steps : new.steps[s].excs = tx.steps[s].excs
           \/ /\ e.event = "step_failed" /\ e.step \in Steps
              /\ new.steps[e.step].excs # <<>>
              /\ Last(new.steps[e.step].excs).retry = e.retry
    PROVE  FailureKnown(new)
<1> DEFINE n == Len(tx.history)
<1>1. /\ n \in Nat /\ DOMAIN tx.history = 1..n /\ DOMAIN new.history = 1..(n + 1)
      /\ \A k \in 1..n : new.history[k] = tx.history[k]
      /\ new.history[n + 1] = e
  BY GrownFacts
<1>2. ASSUME NEW k \in DOMAIN new.history, NewestFailure(new, k)
      PROVE  LET f == new.history[k].step IN
             /\ f \in Steps /\ new.steps[f].excs # <<>>
             /\ Last(new.steps[f].excs).retry = new.history[k].retry
  <2>1. CASE e.event = "step_failed"
    <3>1. k = n + 1
      BY <1>2, <2>1, FailuresGrow
    <3>2. new.history[k] = e
      BY <1>1, <3>1
    <3> QED
      BY <2>1, <3>2
  <2>2. CASE e.event # "step_failed"
    <3>1. NewestFailure(tx, k)
      BY <1>2, <2>2, FailuresGrow
    <3>2. k \in DOMAIN tx.history /\ new.history[k] = tx.history[k]
      BY <1>1, <3>1 DEF NewestFailure
    <3> QED
      BY <2>2, <3>1, <3>2 DEF FailureKnown
  <2> QED
    BY <2>1, <2>2
<1> HIDE DEF n
<1>3. ASSUME NEW j \in DOMAIN new.history, new.history[j].event = "step_failed"
      PROVE  \E k \in DOMAIN new.history : NewestFailure(new, k)
  <2>1. CASE e.event = "step_failed"
    <3>1. n + 1 \in DOMAIN new.history /\ NewestFailure(new, n + 1)
      BY <1>1, <2>1 DEF NewestFailure
    <3> QED
      BY <3>1
  <2>2. CASE e.event # "step_failed"
    <3>1. j \in 1..n
      BY <1>1, <1>3, <2>2
    <3>2. PICK k \in DOMAIN tx.history : NewestFailure(tx, k)
      BY <1>1, <1>3, <3>1 DEF FailureKnown
    <3>3. k \in 1..n /\ \A i \in 1..n : i > k => new.history[i].event # "step_failed"
      BY <1>1, <3>2 DEF NewestFailure
    <3>4. NewestFailure(new, k)
      BY <1>1, <2>2, <3>2, <3>3 DEF NewestFailure
    <3> QED
      BY <1>1, <3>3, <3>4
  <2> QED
    BY <2>1, <2>2
<1> QED
  BY <1>2, <1>3 DEF FailureKnown

-----------------------------------------------------------------------------
(* A change of one step during a run                                         *)

\* Step c, which is neither done nor refused to this pass, gets a new status, and the
\* history the entry of it; run() goes on at the same step or at a later one.
StepChange(c, event) ==
    /\ disk' = disk
    /\ mem \in Transaction /\ mem' \in Transaction
    /\ c \in Steps /\ Note(mem, event, c) \in Entry
    /\ mem'.history = Append(mem.history, Note(mem, event, c))
    /\ mem'.retries = mem.retries /\ mem'.status = mem.status /\ mem'.outcome = mem.outcome
    /\ \A s \in Steps \ {c} : mem'.steps[s] = mem.steps[s]
    /\ Working /\ ~At("idle")'
    /\ engine \in Control /\ engine' \in Control
    /\ engine'.blocked = engine.blocked /\ engine.cursor <= engine'.cursor
    /\ mem.steps[c].status \notin Done /\ c \notin BusinessFailed(mem) \cap Fixed
    /\ event # "transaction_started"

\* What the lemmas below use of a change.
LEMMA ChangeFacts ==
    ASSUME NEW c, NEW event, StepChange(c, event)
    PROVE  /\ Grown(mem, mem', Note(mem, event, c))
           /\ Note(mem, event, c).event = event /\ Note(mem, event, c).step = c
           /\ Note(mem, event, c).retry = mem.retries
           /\ mem # Nothing /\ mem' # Nothing /\ ~At("idle")
           /\ engine.cursor \in Int /\ engine'.cursor \in Int
           /\ Fixed = engine.blocked \cup 1..engine.cursor
           /\ Fixed' = engine'.blocked \cup 1..engine'.cursor
           /\ Fixed \subseteq Fixed'
<1>1. /\ Grown(mem, mem', Note(mem, event, c))
      /\ Note(mem, event, c).event = event /\ Note(mem, event, c).step = c
      /\ Note(mem, event, c).retry = mem.retries
  BY DEF StepChange, Grown, Note
<1>2. mem # Nothing /\ mem' # Nothing /\ ~At("idle")
  BY TransactionParts DEF StepChange, Working
<1>3. engine.cursor \in Int /\ engine'.cursor \in Int
  BY EngineAssumption DEF StepChange, Control, Steps
<1>4. /\ Fixed = engine.blocked \cup 1..engine.cursor
      /\ Fixed' = engine'.blocked \cup 1..engine'.cursor
  BY <1>2 DEF StepChange, Fixed
<1>5. Fixed \subseteq Fixed'
  BY <1>3, <1>4 DEF StepChange
<1> QED
  BY <1>1, <1>2, <1>3, <1>4, <1>5

\* Reasons of skips.
LEMMA ChangeExplained ==
    ASSUME NEW c, NEW event, StepChange(c, event), Explained,
           mem'.steps[c].status = "skipped" =>
              /\ event = "step_skipped"
              /\ \/ mem.history # <<>> /\ Last(mem.history).step = c
                 \/ \E h \in Fixed \cap Halting(mem) :
                       h < c /\ Last(mem.steps[h].excs).retry = mem.retries
    PROVE  Explained'
<1> DEFINE e == Note(mem, event, c)
<1>1. /\ Grown(mem, mem', e) /\ e.event = event /\ e.step = c /\ e.retry = mem.retries
      /\ mem # Nothing /\ Fixed \subseteq Fixed'
  BY ChangeFacts
<1> HIDE DEF e
<1>2. SkipsExplained(mem, Fixed)
  BY <1>1 DEF Explained
<1>3. \A h \in Fixed \cap Halting(mem) :
         h \in Fixed' /\ mem'.steps[h] = mem.steps[h] /\ h \in Halting(mem')
  <2> SUFFICES ASSUME NEW h \in Fixed \cap Halting(mem)
               PROVE  h \in Fixed' /\ mem'.steps[h] = mem.steps[h] /\ h \in Halting(mem')
    OBVIOUS
  <2>1. h \in Steps /\ h # c
    BY DEF Halting, BusinessFailed, StepChange
  <2>2. mem'.steps[h] = mem.steps[h]
    BY <2>1 DEF StepChange
  <2> QED
    BY <1>1, <2>2 DEF Halting, BusinessFailed, FailedLastBy
<1>4. \A s \in Steps : mem'.steps[s].status = "skipped" =>
         \/ mem.steps[s].status = "skipped" /\ e.step # s
         \/ /\ e.step = s /\ e.event = "step_skipped"
            /\ \/ mem.history # <<>> /\ Last(mem.history).step = s
               \/ \E h \in Fixed' \cap Halting(mem') :
                     h < s /\ Last(mem'.steps[h].excs).retry = e.retry
  <2> SUFFICES ASSUME NEW s \in Steps, mem'.steps[s].status = "skipped"
               PROVE  \/ mem.steps[s].status = "skipped" /\ e.step # s
                      \/ /\ e.step = s /\ e.event = "step_skipped"
                         /\ \/ mem.history # <<>> /\ Last(mem.history).step = s
                            \/ \E h \in Fixed' \cap Halting(mem') :
                                  h < s /\ Last(mem'.steps[h].excs).retry = e.retry
    OBVIOUS
  <2>1. CASE s # c
    BY <1>1, <2>1 DEF StepChange
  <2>2. CASE s = c
    BY <1>1, <1>3, <2>2
  <2> QED
    BY <2>1, <2>2
<1>5. SkipsExplained(mem', Fixed')
  BY <1>1, <1>2, <1>3, <1>4, ExplainedGrows
<1> QED
  BY <1>5 DEF Explained, StepChange

\* Barred steps.
LEMMA ChangeBarred ==
    ASSUME NEW c, NEW event, StepChange(c, event), BarredStays,
           barred' = barred \/ /\ barred' = barred \cup {c} /\ disk # Nothing
                               /\ c \in BusinessFailed(mem') \cap Fixed',
           barred \in SUBSET Steps
    PROVE  BarredStays'
<1>1. mem # Nothing /\ ~At("idle") /\ Fixed \subseteq Fixed'
  BY ChangeFacts
<1>2. ASSUME NEW s \in barred
      PROVE  mem'.steps[s].status = "skipped" \/ s \in BusinessFailed(mem') \cap Fixed'
  <2>1. s \in Steps /\ (mem.steps[s].status = "skipped" \/ s \in BusinessFailed(mem) \cap Fixed)
    BY <1>1 DEF BarredStays
  <2>2. s # c
    BY <2>1 DEF StepChange, Done
  <2>3. mem'.steps[s] = mem.steps[s]
    BY <2>1, <2>2 DEF StepChange
  <2> QED
    BY <1>1, <2>1, <2>3 DEF BusinessFailed, FailedLastBy
<1>3. disk' = disk
  BY DEF StepChange
<1>4. \A s \in barred' : mem'.steps[s].status = "skipped" \/ s \in BusinessFailed(mem') \cap Fixed'
  BY <1>2
<1>5. disk = Nothing => barred' = {}
  BY DEF BarredStays
<1> QED
  BY <1>3, <1>4, <1>5 DEF BarredStays

\* Starts within the retry budget.
LEMMA ChangeBudget ==
    ASSUME NEW c, NEW event, StepChange(c, event), Budget,
           event = "step_started" => engine.cursor < c /\ c <= engine'.cursor
    PROVE  Budget'
<1> DEFINE e == Note(mem, event, c)
<1>1. /\ Grown(mem, mem', e) /\ e.event = event /\ e.step = c
      /\ mem # Nothing /\ ~At("idle") /\ engine.cursor \in Int /\ engine'.cursor \in Int
  BY ChangeFacts
<1>2. /\ mem'.retries = mem.retries /\ mem.retries \in Nat /\ disk' = disk
      /\ engine.cursor <= engine'.cursor /\ event # "transaction_started" /\ c \in Steps
  BY TransactionParts DEF StepChange
<1> HIDE DEF e
<1>3. InBudget(mem) /\ \A s \in Steps :
         Cardinality(StartsOf(mem, s)) <= mem.retries + (IF s <= engine.cursor THEN 1 ELSE 0)
  BY <1>1 DEF Budget
<1>4. ASSUME NEW s \in Steps
      PROVE  /\ Cardinality(StartsOf(mem', s))
                  <= mem.retries + (IF s <= engine'.cursor THEN 1 ELSE 0)
             /\ Cardinality(StartsOf(mem', s)) <= MaxRetries + 1
  <2>1. /\ Cardinality(StartsOf(mem, s)) \in Nat
        /\ Cardinality(StartsOf(mem', s)) <= Cardinality(StartsOf(mem, s)) + 1
        /\ event # "step_started" \/ c # s =>
             Cardinality(StartsOf(mem', s)) <= Cardinality(StartsOf(mem, s))
    BY <1>1, <1>2, StartsGrow
  <2>2. Cardinality(StartsOf(mem', s)) \in Nat
    <3>1. mem' \in Transaction
      BY DEF StepChange
    <3> QED
      BY <1>1, <3>1, StartsIsNat
  <2>3. s \in Int /\ MaxRetries \in Nat /\ mem.retries <= MaxRetries
    BY <1>3, EngineAssumption DEF InBudget, Steps
  <2>4. CASE event = "step_started" /\ c = s
    BY <1>1, <1>2, <1>3, <2>1, <2>2, <2>3, <2>4
  <2>5. CASE ~(event = "step_started" /\ c = s)
    BY <1>1, <1>2, <1>3, <2>1, <2>2, <2>3, <2>5
  <2> QED
    BY <2>4, <2>5
<1>5. InBudget(mem')
  BY <1>2, <1>3, <1>4 DEF InBudget
<1> QED
  BY <1>2, <1>4, <1>5 DEF Budget

\* A business failure that stands.
LEMMA ChangeFailureStays ==
    ASSUME NEW c, NEW event, StepChange(c, event), FailureStays,
           event # "step_failed" => mem'.steps[c].excs = mem.steps[c].excs,
           event = "step_failed" => /\ mem'.steps[c].status = "failed"
                                    /\ mem'.steps[c].excs # <<>>
                                    /\ c <= engine'.cursor,
           FailureKnown(mem)
    PROVE  FailureStays'
<1> DEFINE e == Note(mem, event, c)
           n == Len(mem.history)
<1>1. /\ Grown(mem, mem', e) /\ e.event = event /\ e.step = c
      /\ mem # Nothing /\ ~At("idle") /\ engine.cursor \in Int /\ engine'.cursor \in Int
      /\ Fixed = engine.blocked \cup 1..engine.cursor
      /\ Fixed' = engine'.blocked \cup 1..engine'.cursor
      /\ Fixed \subseteq Fixed'
  BY ChangeFacts
<1>2. \A s \in BusinessFailed(mem) \cap Fixed :
         mem'.steps[s] = mem.steps[s] /\ s \in BusinessFailed(mem')
  <2> SUFFICES ASSUME NEW s \in BusinessFailed(mem) \cap Fixed
               PROVE  mem'.steps[s] = mem.steps[s] /\ s \in BusinessFailed(mem')
    OBVIOUS
  <2>1. s \in Steps /\ s # c
    BY DEF BusinessFailed, StepChange
  <2>2. mem'.steps[s] = mem.steps[s]
    BY <2>1 DEF StepChange
  <2> QED
    BY <2>2 DEF BusinessFailed, FailedLastBy
<1>3. engine'.blocked \subseteq BusinessFailed(mem')
  BY <1>1, <1>2 DEF FailureStays, StepChange
<1> HIDE DEF e, n
<1>4. ASSUME NEW k \in Failures(mem'), NewestFailure(mem', k),
             Last(mem'.steps[mem'.history[k].step].excs).kind = "business"
      PROVE  mem'.history[k].step \in BusinessFailed(mem') \cap Fixed'
  <2>1. k \in DOMAIN mem'.history
    BY <1>4 DEF NewestFailure
  <2>2. CASE event = "step_failed"
    <3>1. k = n + 1
      BY <1>1, <1>4, <2>1, <2>2, FailuresGrow DEF n
    <3>2. mem'.history[k].step = c
      BY <1>1, <3>1, GrownFacts DEF n
    <3>3. c \in Steps /\ c \in 1..engine'.cursor
      BY <1>1, <2>2 DEF StepChange, Steps
    <3> QED
      BY <1>1, <1>4, <2>2, <3>2, <3>3 DEF BusinessFailed, FailedLastBy
  <2>3. CASE event # "step_failed"
    <3>1. NewestFailure(mem, k) /\ k \in Failures(mem)
      <4>1. event # "transaction_started"
        BY DEF StepChange
      <4> QED
        BY <1>1, <1>4, <2>1, <2>3, <4>1, FailuresGrow
    <3>2. mem'.history[k] = mem.history[k]
      BY <1>1, <3>1, GrownFacts DEF NewestFailure
    <3>3. mem.history[k].step \in Steps
      BY <3>1 DEF FailureKnown, NewestFailure
    <3>4. mem'.steps[mem.history[k].step].excs = mem.steps[mem.history[k].step].excs
      BY <2>3, <3>3 DEF StepChange
    <3>5. mem.history[k].step \in BusinessFailed(mem) \cap Fixed
      BY <1>1, <1>4, <3>1, <3>2, <3>4 DEF FailureStays
    <3> QED
      BY <1>1, <1>2, <3>2, <3>5
  <2> QED
    BY <2>2, <2>3
<1> QED
  BY <1>3, <1>4 DEF FailureStays

\* Verdicts are not written yet.
LEMMA ChangeVerdicts ==
    ASSUME NEW c, NEW event, StepChange(c, event), Verdicts,
           event # "step_failed" => mem'.steps[c].excs = mem.steps[c].excs,
           event = "step_failed" => /\ mem'.steps[c].excs # <<>>
                                    /\ Last(mem'.steps[c].excs).retry = mem.retries
    PROVE  Verdicts'
<1> DEFINE e == Note(mem, event, c)
<1>1. /\ Grown(mem, mem', e) /\ e.event = event /\ e.step = c /\ e.retry = mem.retries
      /\ mem # Nothing /\ mem' # Nothing /\ ~At("idle")
  BY ChangeFacts
<1> HIDE DEF e
<1>2. /\ mem'.status = "in_progress" /\ mem'.outcome # "validation_failed" /\ disk' = disk
      /\ mem'.outcome = mem.outcome
  BY <1>1 DEF Verdicts, StepChange
<1>3. FailureKnown(mem')
  <2>1. FailureKnown(mem) /\ c \in Steps
    BY <1>1 DEF Verdicts, StepChange
  <2>2. event # "step_failed" => \A s \in Steps : mem'.steps[s].excs = mem.steps[s].excs
    BY DEF StepChange
  <2> QED
    BY <1>1, <2>1, <2>2, KnownGrows
<1>4. Verdict(mem')
  BY <1>2 DEF Verdict
<1> QED
  BY <1>2, <1>3, <1>4 DEF Verdicts

\* All of it, but what depends on where run() goes on.
LEMMA ChangeRunInv ==
    ASSUME NEW c, NEW event, StepChange(c, event), RunInv, EngineInv,
           event # "step_failed" => mem'.steps[c].excs = mem.steps[c].excs,
           event = "step_failed" => /\ mem'.steps[c].status = "failed"
                                    /\ mem'.steps[c].excs # <<>>
                                    /\ Last(mem'.steps[c].excs).retry = mem.retries
                                    /\ c <= engine'.cursor,
           event = "step_started" => engine.cursor < c /\ c <= engine'.cursor,
           mem'.steps[c].status = "skipped" =>
              /\ event = "step_skipped"
              /\ \/ mem.history # <<>> /\ Last(mem.history).step = c
                 \/ \E h \in Fixed \cap Halting(mem) :
                       h < c /\ Last(mem.steps[h].excs).retry = mem.retries,
           barred' = barred \/ /\ barred' = barred \cup {c} /\ disk # Nothing
                               /\ c \in BusinessFailed(mem') \cap Fixed',
           ThenIdle', OwnEntry', HaltStands', Visited'
    PROVE  RunInv'
<1>1. OwnEntry /\ HaltStands /\ Explained /\ BarredStays /\ Budget /\ FailureStays /\ Verdicts
  BY DEF RunInv
<1>2. barred \in SUBSET Steps
  BY DEF EngineInv, TypeOK
<1>3. FailureKnown(mem)
  <2>1. mem # Nothing
    BY ChangeFacts
  <2> QED
    BY <1>1, <2>1 DEF Verdicts
<1>4. Explained'
  BY <1>1, ChangeExplained
<1>5. BarredStays'
  BY <1>1, <1>2, ChangeBarred
<1>6. Budget'
  BY <1>1, ChangeBudget
<1>7. FailureStays'
  BY <1>1, <1>3, ChangeFailureStays
<1>8. Verdicts'
  BY <1>1, ChangeVerdicts
<1> QED
  BY <1>4, <1>5, <1>6, <1>7, <1>8 DEF RunInv

\* A step is started.
LEMMA StartStepRun == ASSUME EngineInv, RunInv, StartStep PROVE RunInv'
<1>1. /\ At("choosing") /\ UNCHANGED <<disk, runs, barred>>
      /\ mem \in Transaction /\ engine \in Control
  <2>1. "choosing" \in Pcs \ {"idle", "saving", "executing"}
    BY DEF Pcs
  <2> QED
    BY <2>1, RunningFacts DEF StartStep
<1>2. PICK c \in Steps : /\ First(c, Runnable)
                         /\ mem' = Mark(mem, c, "in_progress", "step_started")
                         /\ engine' = SaveThen("executing", c)
  BY DEF StartStep
<1>3. /\ mem' \in Transaction /\ Note(mem, "step_started", c) \in Entry
      /\ mem'.history = Append(mem.history, Note(mem, "step_started", c))
      /\ mem'.steps[c].status = "in_progress" /\ mem'.steps[c].excs = mem.steps[c].excs
      /\ \A t \in Steps \ {c} : mem'.steps[t] = mem.steps[t]
      /\ mem'.status = mem.status /\ mem'.retries = mem.retries /\ mem'.outcome = mem.outcome
  <2>1. "in_progress" \in StepStatuses /\ "step_started" \in Events
    BY DEF StepStatuses, Events
  <2> QED
    BY <1>1, <1>2, <2>1, MarkExact
<1>4. /\ engine' \in Control /\ engine'.pc = "saving" /\ engine'.then = "executing"
      /\ engine'.cursor = c /\ engine'.blocked = engine.blocked
  <2>1. "executing" \in Pcs
    BY DEF Pcs
  <2> QED
    BY <1>1, <1>2, <2>1, SaveThenLemma DEF SaveThen, Control
<1>5. /\ c > engine.cursor /\ mem.steps[c].status \notin Done /\ c \notin engine.blocked
      /\ \A s \in Steps : s > engine.cursor /\ s < c =>
            mem.steps[s].status \in Done \/ s \in engine.blocked
  BY <1>2 DEF First, Runnable, Steps
<1>6. c \notin Fixed /\ engine.then # "aborting" /\ Working /\ engine.cursor \in Int /\ c \in Int
  <2>1. engine.cursor \in Int /\ c \in Int
    BY <1>1, EngineAssumption DEF Control, Steps
  <2>2. engine.then = "idle"
    BY <1>1 DEF RunInv, ThenIdle, At
  <2> QED
    BY <1>1, <1>5, <2>1, <2>2 DEF Fixed, Working, Ending, Heading, At
<1>7. StepChange(c, "step_started")
  BY <1>1, <1>3, <1>4, <1>5, <1>6 DEF StepChange, At
<1>8. ThenIdle' /\ OwnEntry' /\ HaltStands'
  <2>1. Grown(mem, mem', Note(mem, "step_started", c))
    BY <1>1, <1>3 DEF Grown
  <2>2. mem'.history # <<>> /\ Last(mem'.history).step = c
    BY <2>1, GrownFacts DEF Note
  <2> QED
    BY <1>4, <2>2 DEF ThenIdle, OwnEntry, HaltStands, Heading, At
<1>9. Visited'
  <2> SUFFICES ASSUME Failures(mem') = {}, NEW s \in Steps, s <= c
               PROVE  \/ mem'.steps[s].status \in Done \/ s \in engine.blocked
                      \/ s = c
    <3>1. ~Heading("passed")' /\ Heading("executing")'
      BY <1>4 DEF Heading, At
    <3> QED
      BY <1>4, <3>1 DEF Visited
  <2>1. Failures(mem) = {}
    <3>1. Grown(mem, mem', Note(mem, "step_started", c)) /\ Note(mem, "step_started", c).event = "step_started"
      BY <1>1, <1>3 DEF Grown, Note
    <3> QED
      BY <3>1, FailuresGrow
  <2>2. CASE s <= engine.cursor
    <3>1. mem.steps[s].status \in Done \/ s \in engine.blocked
      BY <1>1, <1>6, <2>1, <2>2 DEF RunInv, Visited, Heading, At, ThenIdle
    <3> QED
      BY <1>3, <3>1
  <2>3. CASE ~(s <= engine.cursor) /\ s # c
    <3>1. s > engine.cursor /\ s < c
      BY <1>6, <2>3 DEF Steps
    <3> QED
      BY <1>3, <1>5, <3>1, <2>3
  <2> QED
    BY <2>2, <2>3
<1>10. engine.cursor < c /\ c <= engine'.cursor
  BY <1>4, <1>5, <1>6
<1>11. mem'.steps[c].status # "skipped" /\ barred' = barred
  BY <1>1, <1>3
<1> QED
  BY <1>3, <1>7, <1>8, <1>9, <1>10, <1>11, ChangeRunInv

\* The end of a step body, and where run() goes on after it.
LEMMA EndOfStepRun ==
    ASSUME EngineInv, RunInv, At("executing"), disk' = disk,
           NEW base \in Transaction, base.history = mem.history, base.status = mem.status,
           base.retries = mem.retries, base.outcome = mem.outcome,
           \A s \in Steps \ {engine.cursor} : base.steps[s] = mem.steps[s],
           NEW status \in StepStatuses \ {"in_progress"},
           NEW event \in Events \ {"transaction_started", "step_started"},
           mem' = Mark(base, engine.cursor, status, event),
           status = "skipped" => event = "step_skipped",
           event # "step_failed" =>
              base.steps[engine.cursor].excs = mem.steps[engine.cursor].excs,
           event = "step_failed" =>
              /\ status = "failed" /\ base.steps[engine.cursor].excs # <<>>
              /\ Last(base.steps[engine.cursor].excs).retry = mem.retries,
           NEW then \in {"choosing", "skipping", "aborting"}, NEW cursor \in Steps \cup {0},
           engine' = SaveThen(then, cursor), engine.cursor <= cursor,
           \/ event = "step_failed" \/ then = "aborting"
           \/ status \in Done /\ cursor = engine.cursor,
           barred' = barred \/ /\ barred' = barred \cup {engine.cursor}
                               /\ engine.cursor \in BusinessFailed(mem'),
           HaltStands'
    PROVE  RunInv'
<1> DEFINE c == engine.cursor
<1>1. /\ mem # Nothing /\ mem \in Transaction /\ engine \in Control /\ c \in Steps
      /\ mem.steps[c].status = "in_progress" /\ engine.then = "idle" /\ engine.pc = "executing"
      /\ disk # Nothing
  <2>1. disk = mem
    BY DEF EngineInv, IntentIsDurable
  <2> QED
    BY <2>1, ExecutingFacts DEF RunInv, ThenIdle, At
<1>2. /\ mem' \in Transaction /\ Note(mem, event, c) \in Entry
      /\ mem'.history = Append(mem.history, Note(mem, event, c))
      /\ mem'.steps[c].status = status /\ mem'.steps[c].excs = base.steps[c].excs
      /\ \A t \in Steps \ {c} : mem'.steps[t] = mem.steps[t]
      /\ mem'.status = mem.status /\ mem'.retries = mem.retries /\ mem'.outcome = mem.outcome
  <2>1. Note(base, event, c) = Note(mem, event, c)
    BY DEF Note
  <2> QED
    BY <1>1, <2>1, MarkExact
<1>3. /\ engine' \in Control /\ engine'.pc = "saving" /\ engine'.then = then
      /\ engine'.cursor = cursor /\ engine'.blocked = engine.blocked
  <2>1. then \in Pcs
    BY DEF Pcs
  <2> QED
    BY <1>1, <2>1, SaveThenLemma DEF SaveThen, Control
<1>4. c \in Int /\ cursor \in Int
  BY <1>1, EngineAssumption DEF Steps
<1> HIDE DEF c
<1>5. StepChange(c, event)
  <2>1. mem.steps[c].status \notin Done /\ c \notin BusinessFailed(mem)
    BY <1>1 DEF Done, BusinessFailed, FailedLastBy
  <2>2. Working /\ ~At("idle")'
    BY <1>1, <1>3 DEF Working, Ending, Heading, At
  <2>3. engine.cursor <= engine'.cursor
    BY <1>3
  <2>4. event # "transaction_started"
    OBVIOUS
  <2> QED
    BY <1>1, <1>2, <1>3, <2>1, <2>2, <2>3, <2>4 DEF StepChange
<1>6. ThenIdle' /\ OwnEntry'
  BY <1>3 DEF ThenIdle, OwnEntry, Heading, At
<1>7. /\ Grown(mem, mem', Note(mem, event, c)) /\ Note(mem, event, c).event = event
  BY <1>5, ChangeFacts
<1>8. Visited'
  <2> SUFFICES ASSUME Working', Failures(mem') = {}, NEW s \in Steps, s <= cursor
               PROVE  mem'.steps[s].status \in Done \/ s \in engine.blocked
    <3>1. ~Heading("passed")'
      BY <1>3 DEF Heading, At
    <3> QED
      BY <1>3, <3>1 DEF Visited
  <2>1. event # "step_failed" /\ then # "aborting"
    <3>1. event # "step_failed"
      BY <1>7, FailuresGrow
    <3>2. then # "aborting"
      BY <1>3 DEF Working, Ending, Heading, At
    <3> QED
      BY <3>1, <3>2
  <2>2. Failures(mem) = {}
    BY <1>7, <2>1, FailuresGrow
  <2>3. CASE s = c
    BY <1>2, <2>1, <2>3
  <2>4. CASE s # c
    <3>1. Working /\ s <= engine.cursor
      BY <1>5, <2>1 DEF StepChange, c
    <3>2. mem.steps[s].status \in Done \/ s \in engine.blocked
      BY <2>2, <2>4, <3>1 DEF RunInv, Visited, c
    <3> QED
      BY <1>2, <2>4, <3>2
  <2> QED
    BY <2>3, <2>4
<1>9. status = "skipped" => mem.history # <<>> /\ Last(mem.history).step = c
  BY <1>1 DEF RunInv, OwnEntry, Heading, c
<1>10. /\ event # "step_failed" => mem'.steps[c].excs = mem.steps[c].excs
       /\ event = "step_failed" => /\ mem'.steps[c].status = "failed"
                                    /\ mem'.steps[c].excs # <<>>
                                    /\ Last(mem'.steps[c].excs).retry = mem.retries
       /\ c <= engine'.cursor
  BY <1>2, <1>3 DEF c
<1>11. barred' = barred \/ /\ barred' = barred \cup {c} /\ disk # Nothing
                           /\ c \in BusinessFailed(mem') \cap Fixed'
  <2>1. c \in Fixed'
    BY <1>1, <1>3, <1>4, <1>10 DEF Fixed, At, Steps
  <2> QED
    BY <1>1, <2>1 DEF c
<1> QED
  BY <1>2, <1>5, <1>6, <1>8, <1>9, <1>10, <1>11, ChangeRunInv

\* A step that returns.
LEMMA EndStepRun ==
    ASSUME EngineInv, RunInv, NEW ending \in {"ok", "skip"}, EndStep(ending)
    PROVE  RunInv'
<1>1. /\ At("executing") /\ UNCHANGED <<disk, barred>>
      /\ engine' = SaveThen("choosing", engine.cursor)
  BY DEF EndStep
<1>2. PICK status \in {"successful", "skipped"}, event \in {"step_succeeded", "step_skipped"} :
         /\ mem' = Mark(mem, engine.cursor, status, event)
         /\ status = "skipped" => event = "step_skipped"
  BY DEF EndStep
<1>3. /\ status \in StepStatuses \ {"in_progress"} /\ status \in Done
      /\ event \in Events \ {"transaction_started", "step_started"} /\ event # "step_failed"
      /\ "choosing" \in Pcs
  BY DEF StepStatuses, Done, Events, Pcs
<1>4. mem \in Transaction /\ engine \in Control /\ engine.cursor \in Steps
      /\ engine.cursor \in Int
  BY <1>1, ExecutingFacts, EngineAssumption DEF Steps
<1>5. engine'.pc = "saving" /\ engine'.then = "choosing"
  BY <1>1, <1>3, <1>4, SaveThenLemma
<1>6. HaltStands'
  BY <1>5 DEF HaltStands, Heading, At
<1>7. engine.cursor <= engine.cursor
  BY <1>4
<1> QED
  BY <1>1, <1>2, <1>3, <1>4, <1>6, <1>7, EndOfStepRun

\* A step that raises an exception.
LEMMA FailStepRun ==
    ASSUME EngineInv, RunInv, At("executing"), disk' = disk,
           NEW kind \in {"business", "system"}, NEW halts \in BOOLEAN,
           FailStep(Raised(kind, halts)),
           NEW then \in {"choosing", "skipping"}, NEW cursor \in Steps \cup {0},
           engine' = SaveThen(then, cursor), engine.cursor <= cursor,
           then = "skipping" => kind = "business" /\ halts /\ cursor = engine.cursor,
           \/ barred' = barred
           \/ barred' = barred \cup {engine.cursor} /\ kind = "business"
    PROVE  RunInv'
<1> DEFINE c == engine.cursor
           exc == Raised(kind, halts)
           base == [mem EXCEPT !.steps[c].excs = Append(@, exc)]
<1>1. /\ mem # Nothing /\ mem \in Transaction /\ engine \in Control /\ c \in Steps
      /\ exc \in Exc /\ exc.kind = kind /\ exc.halts = halts /\ exc.retry = mem.retries
  BY ExecutingFacts, RaisedType DEF Raised
<1>2. mem' = Mark(base, c, "failed", "step_failed")
  BY DEF FailStep
<1> HIDE DEF exc
<1>3. /\ base \in Transaction /\ base.history = mem.history /\ base.status = mem.status
      /\ base.retries = mem.retries /\ base.outcome = mem.outcome
      /\ base.steps[c].excs # <<>> /\ Last(base.steps[c].excs) = exc
      /\ \A t \in Steps \ {c} : base.steps[t] = mem.steps[t]
  <2>1. mem \in Transaction /\ c \in Steps /\ exc \in Exc
    BY <1>1
  <2> HIDE DEF c
  <2> QED
    BY <2>1, ExcExact
<1> HIDE DEF base
<1>4. /\ "failed" \in StepStatuses \ {"in_progress"}
      /\ "step_failed" \in Events \ {"transaction_started", "step_started"}
      /\ then \in Pcs
  BY DEF StepStatuses, Events, Pcs
<1>5. /\ mem'.history = Append(mem.history, Note(mem, "step_failed", c))
      /\ mem'.steps[c].status = "failed" /\ mem'.steps[c].excs = base.steps[c].excs
      /\ mem' \in Transaction /\ Note(mem, "step_failed", c) \in Entry
      /\ mem'.retries = mem.retries
  <2>1. Note(base, "step_failed", c) = Note(mem, "step_failed", c)
    BY <1>3 DEF Note
  <2> QED
    BY <1>1, <1>2, <1>3, <1>4, <2>1, MarkExact
<1>6. kind = "business" => c \in BusinessFailed(mem')
  BY <1>1, <1>3, <1>5 DEF BusinessFailed, FailedLastBy
<1>7. engine'.pc = "saving" /\ engine'.then = then /\ engine'.cursor = cursor
  BY <1>1, <1>4, SaveThenLemma
<1>8. HaltStands'
  <2> SUFFICES ASSUME then = "skipping"
               PROVE  /\ Failures(mem') # {} /\ engine'.cursor \in Halting(mem')
                      /\ Last(mem'.steps[engine'.cursor].excs).retry = mem'.retries
    BY <1>7 DEF HaltStands, Heading, At
  <2>1. Failures(mem') # {}
    <3>1. /\ Grown(mem, mem', Note(mem, "step_failed", c))
          /\ Note(mem, "step_failed", c).event = "step_failed"
      BY <1>1, <1>5 DEF Grown, Note
    <3>2. Failures(mem') = Failures(mem) \cup {Len(mem.history) + 1}
      BY <3>1, FailuresGrow
    <3> QED
      BY <3>2
  <2>2. engine'.cursor = c
    BY <1>7
  <2> QED
    BY <1>1, <1>3, <1>5, <1>6, <2>1, <2>2 DEF Halting
<1> QED
  BY <1>1, <1>2, <1>3, <1>4, <1>6, <1>8, EndOfStepRun

\* BusinessException.
LEMMA BusinessFailureRun ==
    ASSUME EngineInv, RunInv, NEW halts \in BOOLEAN, BusinessFailure(halts)
    PROVE  RunInv'
<1> DEFINE then == IF halts THEN "skipping" ELSE "choosing"
<1>1. /\ At("executing") /\ disk' = disk /\ FailStep(Raised("business", halts))
      /\ engine' = SaveThen(then, engine.cursor) /\ barred' = barred \cup {engine.cursor}
  BY DEF BusinessFailure
<1>2. then \in {"choosing", "skipping"} /\ (then = "skipping" => halts)
  OBVIOUS
<1> HIDE DEF then
<1>3. engine.cursor \in Steps \cup {0} /\ engine.cursor <= engine.cursor
  BY <1>1, ExecutingFacts, EngineAssumption DEF Steps
<1> QED
  BY <1>1, <1>2, <1>3, FailStepRun

\* SystemException.
LEMMA SystemFailureRun == ASSUME EngineInv, RunInv, SystemFailure PROVE RunInv'
<1>1. /\ At("executing") /\ disk' = disk /\ barred' = barred
      /\ FailStep(Raised("system", TRUE)) /\ engine' = SaveThen("choosing", NumSteps)
  BY DEF SystemFailure
<1>2. engine.cursor <= NumSteps
  BY <1>1, ExecutingFacts, EngineAssumption DEF Steps
<1>3. PICK halts \in BOOLEAN : FailStep(Raised("system", halts))
  BY <1>1
<1> QED
  BY <1>1, <1>2, <1>3, NumStepsIsCursor, FailStepRun

\* MemoryError in a step body.
LEMMA StepInterruptedRun == ASSUME EngineInv, RunInv, StepInterrupted PROVE RunInv'
<1>1. /\ At("executing") /\ disk' = disk /\ barred' = barred
      /\ mem' = Mark(mem, engine.cursor, "failed", "step_interrupted")
      /\ engine' = SaveThen("aborting", NumSteps)
  BY DEF StepInterrupted
<1>2. /\ "failed" \in StepStatuses \ {"in_progress"}
      /\ "step_interrupted" \in Events \ {"transaction_started", "step_started"}
      /\ "aborting" \in Pcs
  BY DEF StepStatuses, Events, Pcs
<1>3. mem \in Transaction /\ engine \in Control /\ engine.cursor <= NumSteps
  BY <1>1, ExecutingFacts, EngineAssumption DEF Steps
<1>4. engine'.pc = "saving" /\ engine'.then = "aborting"
  BY <1>1, <1>2, <1>3, NumStepsIsCursor, SaveThenLemma
<1>5. HaltStands'
  BY <1>4 DEF HaltStands, Heading, At
<1> QED
  BY <1>1, <1>2, <1>3, <1>5, NumStepsIsCursor, EndOfStepRun

\* More steps that stand explain no fewer skips.
LEMMA ExplainedWidens ==
    ASSUME NEW tx, NEW F, NEW G, SkipsExplained(tx, F), F \cap Halting(tx) \subseteq G
    PROVE  SkipsExplained(tx, G)
<1> SUFFICES ASSUME NEW s \in Steps, tx.steps[s].status = "skipped"
             PROVE  SkipExplained(tx, s, G)
  BY DEF SkipsExplained
<1>1. PICK k \in DOMAIN tx.history :
          /\ Newest(tx, s, k) /\ tx.history[k].event = "step_skipped"
          /\ OwnSkip(tx, k) \/ \E h \in F : Causes(tx, h, k)
  BY DEF SkipsExplained, SkipExplained
<1>2. \A h \in F : Causes(tx, h, k) => h \in G
  BY DEF Causes
<1> QED
  BY <1>1, <1>2 DEF SkipExplained

\* Halting failures are steps.
LEMMA HaltingIsStep == ASSUME NEW tx PROVE Halting(tx) \subseteq BusinessFailed(tx)
                                           /\ BusinessFailed(tx) \subseteq Steps
BY DEF Halting, BusinessFailed

\* What holds of every step that changes neither the object nor the snapshot.
LEMMA ControlRun ==
    ASSUME EngineInv, RunInv, UNCHANGED <<mem, disk, barred>>, ~At("idle"), ~At("idle")',
           engine' \in Control, engine'.blocked = engine.blocked,
           engine.cursor <= engine'.cursor, Working' => Working,
           ThenIdle', OwnEntry', HaltStands', Visited'
    PROVE  RunInv'
<1>1. mem # Nothing /\ mem \in Transaction /\ engine \in Control
  BY ObjectFacts DEF EngineInv, TypeOK
<1>2. engine.cursor \in Int /\ engine'.cursor \in Int
  BY <1>1, EngineAssumption DEF Control, Steps
<1>3. Fixed \subseteq Fixed' /\ Fixed' = engine'.blocked \cup 1..engine'.cursor
  BY <1>2 DEF Fixed
<1>4. SkipsExplained(mem, Fixed)
  BY <1>1 DEF RunInv, Explained
<1>5. SkipsExplained(mem, Fixed')
  BY <1>3, <1>4, ExplainedWidens
<1>6. Explained'
  BY <1>5 DEF RunInv, Explained
<1>7. BarredStays'
  BY <1>1, <1>3 DEF RunInv, BarredStays
<1>8. Budget'
  <2>1. ASSUME NEW s \in Steps
        PROVE  Cardinality(StartsOf(mem, s)) <= mem.retries + (IF s <= engine'.cursor THEN 1 ELSE 0)
    <3>1. /\ Cardinality(StartsOf(mem, s)) \in Nat /\ mem.retries \in Nat /\ s \in Int
          /\ Cardinality(StartsOf(mem, s)) <= mem.retries + (IF s <= engine.cursor THEN 1 ELSE 0)
      BY <1>1, StartsIsNat, TransactionParts DEF RunInv, Budget, Steps
    <3> QED
      BY <1>2, <3>1
  <2> QED
    BY <2>1 DEF RunInv, Budget
<1>9. FailureStays'
  BY <1>3 DEF RunInv, FailureStays
<1>10. Verdicts'
  BY DEF RunInv, Verdicts
<1> QED
  BY <1>6, <1>7, <1>8, <1>9, <1>10 DEF RunInv

\* The steps after a halting failure.
LEMMA SkipDownstreamRun == ASSUME EngineInv, RunInv, SkipDownstream PROVE RunInv'
<1>1. /\ At("skipping") /\ UNCHANGED <<disk, runs, barred>>
      /\ "skipping" \in Pcs \ {"idle", "saving", "executing"} /\ "choosing" \in Pcs
  BY DEF SkipDownstream, Pcs
<1>2. /\ mem # Nothing /\ mem \in Transaction /\ engine \in Control /\ engine.then = "idle"
      /\ engine.pc = "skipping" /\ engine.cursor \in Int /\ engine.cursor <= NumSteps
      /\ Working
  <2>1. mem # Nothing /\ mem \in Transaction /\ engine \in Control
    BY <1>1, RunningFacts
  <2>2. engine.cursor \in Int /\ engine.cursor <= NumSteps
    BY <2>1, EngineAssumption DEF Control, Steps
  <2>3. engine.then = "idle" /\ engine.pc = "skipping"
    BY <1>1 DEF RunInv, ThenIdle, At
  <2> QED
    BY <2>1, <2>2, <2>3 DEF Working, Ending, Heading, At
<1>3. /\ Failures(mem) # {} /\ engine.cursor \in Halting(mem)
      /\ Last(mem.steps[engine.cursor].excs).retry = mem.retries
  BY <1>1 DEF RunInv, HaltStands, Heading
<1>4. CASE Downstream = {} /\ engine' = SaveThen("choosing", NumSteps) /\ UNCHANGED mem
  <2>1. /\ engine' \in Control /\ engine'.pc = "saving" /\ engine'.then = "choosing"
        /\ engine'.cursor = NumSteps /\ engine'.blocked = engine.blocked
    BY <1>1, <1>2, <1>4, NumStepsIsCursor, SaveThenLemma DEF SaveThen, Control
  <2>2. ThenIdle' /\ OwnEntry' /\ HaltStands' /\ Visited'
    BY <1>3, <1>4, <2>1 DEF ThenIdle, OwnEntry, HaltStands, Visited, Heading, At
  <2> QED
    BY <1>1, <1>2, <1>4, <2>1, <2>2, ControlRun DEF At
<1>5. CASE UNCHANGED engine /\ \E s \in Steps : /\ First(s, Downstream)
                                             /\ mem' = Mark(mem, s, "skipped", "step_skipped")
  <2>1. PICK c \in Steps : /\ First(c, Downstream)
                           /\ mem' = Mark(mem, c, "skipped", "step_skipped")
    BY <1>5
  <2>2. c > engine.cursor /\ mem.steps[c].status = "pending" /\ c \in Int
    BY <2>1 DEF First, Downstream, Steps
  <2>3. /\ mem' \in Transaction /\ Note(mem, "step_skipped", c) \in Entry
        /\ mem'.history = Append(mem.history, Note(mem, "step_skipped", c))
        /\ mem'.steps[c].status = "skipped" /\ mem'.steps[c].excs = mem.steps[c].excs
        /\ \A t \in Steps \ {c} : mem'.steps[t] = mem.steps[t]
        /\ mem'.status = mem.status /\ mem'.retries = mem.retries /\ mem'.outcome = mem.outcome
    <3>1. "skipped" \in StepStatuses /\ "step_skipped" \in Events
      BY DEF StepStatuses, Events
    <3> QED
      BY <1>2, <2>1, <3>1, MarkExact
  <2>4. StepChange(c, "step_skipped")
    <3>1. mem.steps[c].status \notin Done /\ c \notin BusinessFailed(mem)
      BY <2>2 DEF Done, BusinessFailed, FailedLastBy
    <3> QED
      BY <1>1, <1>2, <1>5, <2>3, <3>1 DEF StepChange, At
  <2>5. Failures(mem') = Failures(mem)
    BY <2>4, ChangeFacts, FailuresGrow
  <2>6. ThenIdle' /\ OwnEntry' /\ Visited'
    BY <1>2, <1>3, <1>5, <2>5 DEF ThenIdle, OwnEntry, Visited, Heading, At
  <2>7. HaltStands'
    <3>1. engine.cursor \in Steps /\ engine.cursor # c
      BY <1>2, <1>3, <2>2, HaltingIsStep
    <3>2. mem'.steps[engine.cursor] = mem.steps[engine.cursor]
      BY <2>3, <3>1
    <3>3. engine.cursor \in Halting(mem')
      BY <1>3, <3>2 DEF Halting, BusinessFailed, FailedLastBy
    <3> QED
      BY <1>3, <1>5, <2>3, <2>5, <3>2, <3>3 DEF HaltStands
  <2>8. \E h \in Fixed \cap Halting(mem) :
           h < c /\ Last(mem.steps[h].excs).retry = mem.retries
    <3>1. engine.cursor \in Fixed
      BY <1>2, <1>3, HaltingIsStep DEF Fixed, At, Steps
    <3> QED
      BY <1>2, <1>3, <2>2, <3>1
  <2>9. barred' = barred
    BY <1>1
  <2> QED
    BY <2>3, <2>4, <2>6, <2>7, <2>8, <2>9, ChangeRunInv
<1> QED
  BY <1>4, <1>5 DEF SkipDownstream

\* The end of a pass.
LEMMA EndPassRun == ASSUME EngineInv, RunInv, EndPass PROVE RunInv'
<1>1. /\ At("choosing") /\ UNCHANGED <<mem, disk, runs, barred>> /\ Runnable = {}
      /\ "choosing" \in Pcs \ {"idle", "saving", "executing"} /\ "passed" \in Pcs
  BY DEF EndPass, Pcs
<1>2. /\ mem # Nothing /\ mem \in Transaction /\ engine \in Control
      /\ engine.pc = "choosing" /\ engine.then = "idle" /\ Working
      /\ engine.cursor \in Int /\ engine.cursor <= NumSteps
  <2>1. mem # Nothing /\ mem \in Transaction /\ engine \in Control
    BY <1>1, RunningFacts
  <2>2. engine.cursor \in Int /\ engine.cursor <= NumSteps
    BY <2>1, EngineAssumption DEF Control, Steps
  <2>3. engine.then = "idle" /\ engine.pc = "choosing"
    BY <1>1 DEF RunInv, ThenIdle, At
  <2> QED
    BY <2>1, <2>2, <2>3 DEF Working, Ending, Heading, At
<1>3. /\ engine' \in Control /\ engine'.blocked = engine.blocked
      /\ engine.cursor <= engine'.cursor
      /\ \/ engine'.pc = "saving" /\ engine'.then = "passed"
         \/ engine'.pc = "passed" /\ engine'.then = "idle"
  <2>1. CASE engine' = SaveThen("passed", NumSteps)
    BY <1>1, <1>2, <2>1, NumStepsIsCursor, SaveThenLemma DEF SaveThen, Control
  <2>2. CASE engine' = [engine EXCEPT !.pc = "passed"]
    BY <1>1, <1>2, <2>2 DEF Control
  <2> QED
    BY <2>1, <2>2 DEF EndPass
<1>4. ThenIdle' /\ OwnEntry' /\ HaltStands' /\ ~At("idle") /\ ~At("idle")'
  BY <1>2, <1>3 DEF ThenIdle, OwnEntry, HaltStands, Heading, At
<1>5. Visited'
  <2> SUFFICES ASSUME Failures(mem) = {}, NEW s \in Steps
               PROVE  mem.steps[s].status \in Done \/ s \in engine.blocked
    BY <1>1, <1>3 DEF Visited
  <2>1. CASE s <= engine.cursor
    BY <1>2, <2>1 DEF RunInv, Visited, Heading, At
  <2>2. CASE ~(s <= engine.cursor)
    BY <1>1, <1>2, <2>2 DEF Runnable, Steps
  <2> QED
    BY <2>1, <2>2
<1> QED
  BY <1>1, <1>2, <1>3, <1>4, <1>5, ControlRun

\* run() is over: every step is one it will not start.
LEMMA LeaveRun ==
    ASSUME EngineInv, RunInv, UNCHANGED <<mem, barred>>, disk' = disk \/ disk' = mem,
           mem # Nothing, ~At("idle"), engine' = Idle
    PROVE  RunInv'
<1>1. /\ mem \in Transaction /\ engine'.pc = "idle" /\ engine'.then = "idle" /\ Fixed' = Steps
  BY ObjectFacts DEF Idle, Fixed, At
<1>2. SkipsExplained(mem, Steps)
  <2>1. SkipsExplained(mem, Fixed)
    BY DEF RunInv, Explained
  <2> QED
    BY <2>1, HaltingIsStep, ExplainedWidens
<1>3. Explained'
  BY <1>1, <1>2 DEF RunInv, Explained
<1>4. BarredStays'
  <2>1. \A s \in barred : mem.steps[s].status = "skipped" \/ s \in BusinessFailed(mem) \cap Steps
    BY HaltingIsStep DEF RunInv, BarredStays
  <2> QED
    BY <1>1, <2>1 DEF RunInv, BarredStays
<1>5. Budget'
  BY <1>1 DEF RunInv, Budget, At
<1>6. Verdicts'
  BY <1>1 DEF RunInv, Verdicts, At, Working
<1>7. ThenIdle' /\ OwnEntry' /\ HaltStands' /\ Visited' /\ FailureStays'
  BY <1>1 DEF ThenIdle, OwnEntry, HaltStands, Visited, FailureStays, Heading, At, Working
<1> QED
  BY <1>3, <1>4, <1>5, <1>6, <1>7 DEF RunInv

\* run() gives up between two checkpoints.
LEMMA GiveUpRun == ASSUME EngineInv, RunInv, Escape \/ OutOfMemory PROVE RunInv'
<1>1. /\ UNCHANGED <<mem, disk, runs, barred>> /\ ~At("idle")
  BY DEF Escape, OutOfMemory, At
<1>2. mem # Nothing /\ engine \in Control
  BY <1>1, ObjectFacts DEF EngineInv, TypeOK
<1>3. CASE engine' = Idle
  BY <1>1, <1>2, <1>3, LeaveRun
<1>4. CASE engine' = [engine EXCEPT !.pc = "aborting", !.then = "idle"]
  <2>1. /\ engine' \in Control /\ engine'.pc = "aborting" /\ engine'.then = "idle"
        /\ engine'.blocked = engine.blocked /\ engine'.cursor = engine.cursor
        /\ engine.cursor \in Int
    <3>1. engine.cursor \in Int
      BY <1>2, EngineAssumption DEF Control, Steps
    <3> QED
      BY <1>2, <1>4, <3>1 DEF Control, Pcs
  <2>2. ~Working' /\ ~At("idle")' /\ ThenIdle' /\ OwnEntry' /\ HaltStands' /\ Visited'
    BY <2>1 DEF Working, Ending, ThenIdle, OwnEntry, HaltStands, Visited, Heading, At
  <2> QED
    BY <1>1, <2>1, <2>2, ControlRun
<1> QED
  BY <1>3, <1>4 DEF Escape, OutOfMemory

\* A checkpoint stores the object, and what holds of the object holds of the snapshot.
LEMMA SaveRun == ASSUME EngineInv, RunInv, Save PROVE RunInv'
<1>1. /\ At("saving") /\ UNCHANGED <<mem, runs, barred>> /\ ~At("idle") /\ disk' = Stored(mem)
  BY DEF Save, At
<1>2. mem # Nothing /\ mem \in Transaction /\ engine \in Control
  BY <1>1, ObjectFacts DEF EngineInv, TypeOK
<1>3. disk' = mem
  BY <1>1, <1>2, StoreInv
<1>4. CASE engine.then = "idle"
  BY <1>1, <1>2, <1>3, <1>4, LeaveRun DEF Save
<1>5. CASE engine.then # "idle"
  <2>1. /\ engine'.pc = engine.then /\ engine'.then = "idle" /\ engine' \in Control
        /\ engine'.blocked = engine.blocked /\ engine'.cursor = engine.cursor
    BY <1>1, <1>2, <1>5, IdleIsControl DEF Save, Control
  <2>2. Fixed' = Fixed /\ ~At("idle")'
    BY <1>1, <1>5, <2>1 DEF Fixed, At
  <2>3. \A pc \in Pcs \ {"idle", "saving"} : Heading(pc)' => Heading(pc)
    BY <1>5, <2>1 DEF Heading, At
  <2>4. Working' => Working
    BY <1>1, <1>5, <2>1, <2>2 DEF Working, Ending, Heading, At
  <2>5. ThenIdle' /\ OwnEntry' /\ HaltStands'
    BY <1>1, <2>1, <2>3 DEF ThenIdle, OwnEntry, HaltStands, Pcs, RunInv
  <2>6. Visited'
    <3>1. Heading("passed")' => Heading("passed")
      BY <2>3 DEF Pcs
    <3>2. Heading("executing") => Heading("executing")'
      BY <1>1, <2>1 DEF Heading, At
    <3> QED
      BY <1>1, <2>1, <2>4, <3>1, <3>2 DEF RunInv, Visited
  <2>7. Explained'
    <3>1. SkipsExplained(mem, Fixed)
      BY <1>2 DEF RunInv, Explained
    <3>2. SkipsExplained(mem, Steps)
      BY <3>1, HaltingIsStep, ExplainedWidens
    <3> QED
      BY <1>1, <1>3, <2>2, <3>1, <3>2 DEF Explained
  <2>8. BarredStays'
    BY <1>1, <1>2, <1>3, <2>2 DEF RunInv, BarredStays
  <2>9. Budget'
    BY <1>1, <1>2, <1>3, <2>1, <2>2 DEF RunInv, Budget
  <2>10. FailureStays'
    BY <1>1, <2>1, <2>2 DEF RunInv, FailureStays
  <2>11. Verdicts'
    BY <1>1, <1>2, <1>3, <2>4 DEF RunInv, Verdicts
  <2> QED
    BY <2>5, <2>6, <2>7, <2>8, <2>9, <2>10, <2>11 DEF RunInv
<1> QED
  BY <1>4, <1>5

\* A step of the caller: run() is not running.
LEMMA CallerRun ==
    ASSUME At("idle"), At("idle")', ThenIdle, engine'.then = "idle",
           Explained', BarredStays', Verdicts',
           mem' # Nothing => InBudget(mem'), disk' # Nothing => InBudget(disk')
    PROVE  RunInv'
<1>1. ThenIdle' /\ OwnEntry' /\ HaltStands' /\ Visited' /\ FailureStays'
  BY DEF ThenIdle, OwnEntry, HaltStands, Visited, FailureStays, Heading, At, Working
<1>2. Budget'
  BY DEF Budget
<1> QED
  BY <1>1, <1>2 DEF RunInv

\* A prepared transaction is stored.
LEMMA SavePreparedRun == ASSUME EngineInv, RunInv, SavePrepared PROVE RunInv'
<1>1. /\ At("idle") /\ mem.status = "pending" /\ disk' = Stored(mem)
      /\ UNCHANGED <<mem, engine, runs, barred>>
  BY DEF SavePrepared
<1>2. mem # Nothing
  BY <1>1 DEF Nothing
<1>3. disk' = mem
  BY <1>1, <1>2, StoreInv
<1>4. /\ engine.then = "idle" /\ ThenIdle /\ At("idle")'
  BY <1>1 DEF RunInv, ThenIdle, At
<1>5. Explained'
  BY <1>1, <1>2, <1>3 DEF RunInv, Explained, Fixed, At
<1>6. BarredStays'
  BY <1>1, <1>2, <1>3 DEF RunInv, BarredStays, Fixed, At
<1>7. Verdicts'
  BY <1>1, <1>2, <1>3, <1>4 DEF RunInv, Verdicts, Working
<1>8. InBudget(mem)
  BY <1>2 DEF RunInv, Budget
<1> QED
  BY <1>1, <1>3, <1>4, <1>5, <1>6, <1>7, <1>8, CallerRun

\* A new transaction has no history to answer for.
LEMMA CreateRun == ASSUME EngineInv, RunInv, Create PROVE RunInv'
<1>1. /\ At("idle") /\ disk = Nothing /\ mem' = Fresh /\ UNCHANGED <<disk, engine, barred>>
  BY DEF Create
<1>2. /\ engine.then = "idle" /\ ThenIdle /\ At("idle")'
  BY <1>1 DEF RunInv, ThenIdle, At
<1>3. /\ Fresh.history = <<>> /\ Fresh.retries = 0 /\ Fresh.status = "pending"
      /\ \A s \in Steps : Fresh.steps[s].status = "pending"
  BY DEF Fresh
<1>4. Explained'
  BY <1>1, <1>3 DEF Explained, SkipsExplained
<1>5. BarredStays'
  BY <1>1 DEF RunInv, BarredStays
<1>6. Verdicts'
  BY <1>1, <1>2, <1>3 DEF Verdicts, Verdict, FailureKnown, Working
<1>7. InBudget(Fresh)
  <2>1. \A s \in Steps : StartsOf(Fresh, s) = {}
    BY <1>3 DEF StartsOf, Since
  <2>2. \A s \in Steps : Cardinality(StartsOf(Fresh, s)) = 0
    BY <2>1, FS_EmptySet
  <2> QED
    BY <1>3, <2>2, EngineAssumption DEF InBudget
<1> QED
  BY <1>1, <1>2, <1>4, <1>5, <1>6, <1>7, CallerRun

\* The process dies.
LEMMA CrashRun == ASSUME EngineInv, RunInv, Crash PROVE RunInv'
<1>1. mem' = Nothing /\ engine' = Idle /\ UNCHANGED <<disk, runs, barred>>
  BY DEF Crash
<1>2. engine'.pc = "idle" /\ engine'.then = "idle"
  BY <1>1, IdleIsControl
<1>3. Explained' /\ BarredStays' /\ Verdicts' /\ Budget'
  BY <1>1, <1>2 DEF RunInv, Explained, BarredStays, Verdicts, Budget, At, Working
<1>4. ThenIdle' /\ OwnEntry' /\ HaltStands' /\ Visited' /\ FailureStays'
  BY <1>2 DEF ThenIdle, OwnEntry, HaltStands, Visited, FailureStays, Heading, At, Working
<1> QED
  BY <1>3, <1>4 DEF RunInv

\* An entry about the transaction itself explains nothing and unexplains nothing.
LEMMA NoteExplained ==
    ASSUME NEW tx, NEW new, NEW e, Grown(tx, new, e), e.step = 0,
           NEW F, NEW G, SkipsExplained(tx, F),
           \A h \in F \cap Halting(tx) : h \in G /\ new.steps[h] = tx.steps[h],
           \A s \in Steps : new.steps[s].status = "skipped" => tx.steps[s].status = "skipped"
    PROVE  SkipsExplained(new, G)
<1>1. \A s \in Steps : e.step # s
  BY EngineAssumption DEF Steps
<1> QED
  BY <1>1, ExplainedGrows

\* The budget of a run without a new start.
LEMMA NoteBudget ==
    ASSUME NEW tx, NEW new, NEW e, Grown(tx, new, e), e.step = 0, InBudget(tx),
           new.retries <= MaxRetries, NEW s \in Steps
    PROVE  /\ Cardinality(StartsOf(tx, s)) \in Nat /\ Cardinality(StartsOf(new, s)) \in Nat
           /\ Cardinality(StartsOf(new, s)) <= Cardinality(StartsOf(tx, s))
           /\ InBudget(new)
<1>1. ASSUME NEW t \in Steps
      PROVE  /\ Cardinality(StartsOf(tx, t)) \in Nat /\ Cardinality(StartsOf(new, t)) \in Nat
             /\ Cardinality(StartsOf(new, t)) <= Cardinality(StartsOf(tx, t))
             /\ Cardinality(StartsOf(new, t)) <= MaxRetries + 1
  <2>1. e.step # t
    BY EngineAssumption DEF Steps
  <2>2. /\ Cardinality(StartsOf(tx, t)) \in Nat /\ Cardinality(StartsOf(new, t)) \in Nat
        /\ Cardinality(StartsOf(new, t)) <= Cardinality(StartsOf(tx, t))
    BY <2>1, StartsGrow, StartsIsNat DEF Grown
  <2>3. Cardinality(StartsOf(tx, t)) <= MaxRetries + 1 /\ MaxRetries \in Nat
    BY EngineAssumption DEF InBudget
  <2> QED
    BY <2>2, <2>3
<1> QED
  BY <1>1 DEF InBudget

\* The verdict of a run: no step changes.
LEMMA VerdictRun ==
    ASSUME EngineInv, RunInv, NEW pc \in Pcs \ {"idle", "saving", "executing"}, At(pc),
           UNCHANGED <<disk, runs, barred>>,
           NEW status \in {"successful", "failed"}, NEW outcome \in Outcomes,
           outcome # "validation_failed",
           mem' = Record([mem EXCEPT !.status = status, !.outcome = outcome],
                         "transaction_completed", 0),
           engine' = SaveThen("idle", NumSteps), Verdict(mem')
    PROVE  RunInv'
<1> DEFINE base == [mem EXCEPT !.status = status, !.outcome = outcome]
           e == Note(mem, "transaction_completed", 0)
<1>1. /\ base \in Transaction /\ base.history = mem.history /\ base.steps = mem.steps
      /\ base.retries = mem.retries /\ base.outcome = outcome
      /\ mem # Nothing /\ mem \in Transaction /\ engine \in Control
  BY RunningFacts DEF Transaction
<1>2. mem' = Record(base, "transaction_completed", 0)
  OBVIOUS
<1>3. e.event = "transaction_completed" /\ e.step = 0
  BY DEF Note
<1>4. e = Note(base, "transaction_completed", 0)
  BY <1>1 DEF Note
<1> HIDE DEF base, e
<1>5. /\ Grown(mem, mem', e) /\ mem'.steps = mem.steps /\ mem'.retries = mem.retries
      /\ mem'.outcome = outcome /\ mem' # Nothing
  <2>1. "transaction_completed" \in Events
    BY DEF Events
  <2> QED
    BY <1>1, <1>2, <1>4, <2>1, RecordExact, TransactionParts DEF Grown
<1>6. /\ engine' \in Control /\ engine'.pc = "saving" /\ engine'.then = "idle"
      /\ engine'.cursor = NumSteps /\ engine'.blocked = engine.blocked
  <2>1. "idle" \in Pcs
    BY DEF Pcs
  <2> QED
    BY <1>1, <2>1, NumStepsIsCursor, SaveThenLemma DEF SaveThen, Control
<1>7. ~At("idle") /\ ~At("idle")' /\ ~Working'
  BY <1>6 DEF At, Working, Ending, Heading
<1>8. Fixed \subseteq Fixed' /\ Fixed' = engine'.blocked \cup 1..NumSteps
  BY <1>1, <1>6, <1>7, EngineAssumption DEF Fixed, Control, Steps
<1>9. ThenIdle' /\ OwnEntry' /\ HaltStands' /\ Visited'
  BY <1>6, <1>7 DEF ThenIdle, OwnEntry, HaltStands, Visited, Heading, At
<1>10. Explained'
  <2>1. SkipsExplained(mem, Fixed)
    BY <1>1 DEF RunInv, Explained
  <2>2. SkipsExplained(mem', Fixed')
    BY <1>3, <1>5, <1>8, <2>1, NoteExplained
  <2> QED
    BY <2>2 DEF RunInv, Explained
<1>11. BarredStays'
  BY <1>1, <1>5, <1>7, <1>8 DEF RunInv, BarredStays, BusinessFailed, FailedLastBy
<1>12. Budget'
  <2>1. InBudget(mem) /\ mem'.retries <= MaxRetries
    BY <1>1, <1>5 DEF RunInv, Budget, InBudget
  <2>2. ASSUME NEW s \in Steps
        PROVE  /\ Cardinality(StartsOf(mem', s))
                     <= mem.retries + (IF s <= engine'.cursor THEN 1 ELSE 0)
               /\ InBudget(mem')
    <3>1. /\ Cardinality(StartsOf(mem, s)) \in Nat /\ Cardinality(StartsOf(mem', s)) \in Nat
          /\ Cardinality(StartsOf(mem', s)) <= Cardinality(StartsOf(mem, s))
          /\ InBudget(mem')
      BY <1>3, <1>5, <2>1, NoteBudget
    <3>2. /\ mem.retries \in Nat /\ s <= engine'.cursor
          /\ Cardinality(StartsOf(mem, s)) <= mem.retries + (IF s <= engine.cursor THEN 1 ELSE 0)
      BY <1>1, <1>6, <1>7, TransactionParts, EngineAssumption DEF RunInv, Budget, Steps
    <3> QED
      BY <3>1, <3>2
  <2>3. InBudget(mem')
    BY <1>5, <2>1, <2>2 DEF InBudget
  <2> QED
    BY <1>5, <2>2, <2>3 DEF RunInv, Budget
<1>13. FailureStays'
  <2>1. Failures(mem') = Failures(mem) /\ \A k \in DOMAIN mem'.history :
           NewestFailure(mem', k) => NewestFailure(mem, k) /\ mem'.history[k] = mem.history[k]
    <3>1. Failures(mem') = Failures(mem) /\ \A k \in DOMAIN mem'.history :
             NewestFailure(mem', k) => NewestFailure(mem, k)
      BY <1>3, <1>5, FailuresGrow
    <3>2. \A k \in DOMAIN mem.history : mem'.history[k] = mem.history[k]
      BY <1>5, GrownFacts
    <3> QED
      BY <3>1, <3>2 DEF NewestFailure
  <2>2. BusinessFailed(mem') = BusinessFailed(mem)
    BY <1>5 DEF BusinessFailed, FailedLastBy
  <2> QED
    BY <1>5, <1>6, <1>7, <1>8, <2>1, <2>2 DEF RunInv, FailureStays, NewestFailure
<1>14. Verdicts'
  <2>1. FailureKnown(mem')
    <3>1. FailureKnown(mem)
      BY <1>1 DEF RunInv, Verdicts
    <3> QED
      BY <1>3, <1>5, <3>1, KnownGrows
  <2> QED
    BY <1>5, <1>7, <2>1 DEF RunInv, Verdicts
<1> QED
  BY <1>9, <1>10, <1>11, <1>12, <1>13, <1>14 DEF RunInv

\* When a step has failed in this run, the newest failure of all is of this run.
LEMMA NewestIsOfRun ==
    ASSUME NEW tx \in Transaction, Failures(tx) # {},
           NEW k \in DOMAIN tx.history, NewestFailure(tx, k)
    PROVE  k \in Failures(tx)
<1>1. /\ DOMAIN tx.history = 1..Len(tx.history) /\ Len(tx.history) \in Nat
  BY TransactionParts
<1>2. PICK j \in Failures(tx) : TRUE
  OBVIOUS
<1>3. /\ j \in DOMAIN tx.history /\ tx.history[j].event = "step_failed"
      /\ \A i \in j..Len(tx.history) : tx.history[i].event # "transaction_started"
  BY DEF Failures, Since
<1>4. j <= k
  BY <1>1, <1>3 DEF NewestFailure
<1>5. k..Len(tx.history) \subseteq j..Len(tx.history)
  BY <1>1, <1>3, <1>4
<1> QED
  BY <1>3, <1>5 DEF Failures, Since, NewestFailure

\* The kind of the failure a verdict goes by is that of the newest STEP_FAILED entry.
LEMMA TerminalKindIs ==
    ASSUME NEW tx \in Transaction, FailureKnown(tx), TerminalKind(tx) = "business"
    PROVE  \E k \in DOMAIN tx.history :
              /\ NewestFailure(tx, k)
              /\ Last(tx.steps[tx.history[k].step].excs).kind = "business"
<1> DEFINE failures == {k \in DOMAIN tx.history : tx.history[k].event = "step_failed"}
<1>1. /\ tx.history \in Seq(Entry) /\ DOMAIN tx.history = 1..Len(tx.history)
      /\ Len(tx.history) \in Nat /\ tx.steps \in [Steps -> StepRecord]
  BY TransactionParts
<1>2. failures # {}
  BY DEF TerminalKind
<1>3. PICK k \in DOMAIN tx.history : NewestFailure(tx, k)
  BY <1>2 DEF FailureKnown
<1>4. Max(failures) = k
  <2>1. failures \in SUBSET Int /\ k \in failures /\ \A j \in failures : j <= k
    BY <1>1, <1>3 DEF NewestFailure
  <2> QED
    BY <2>1, MaxIs
<1> DEFINE entry == tx.history[k]
           excs == tx.steps[entry.step].excs
           same == {j \in DOMAIN excs : excs[j].retry = entry.retry}
<1>5. /\ entry.step \in Steps /\ excs # <<>> /\ Last(excs).retry = entry.retry
      /\ excs \in Seq(Exc)
  <2>1. entry.step \in Steps /\ excs # <<>> /\ Last(excs).retry = entry.retry
    BY <1>3 DEF FailureKnown
  <2>2. tx.steps[entry.step] \in StepRecord
    BY <1>1, <2>1
  <2> QED
    BY <2>1, <2>2 DEF StepRecord
<1>6. TerminalKind(tx) = IF same = {} THEN "none" ELSE excs[Max(same)].kind
  BY <1>2, <1>4 DEF TerminalKind
<1> HIDE DEF excs, entry
<1>7. Max(same) = Len(excs)
  <2>1. DOMAIN excs = 1..Len(excs) /\ Len(excs) \in 1..Len(excs) /\ excs[Len(excs)] = Last(excs)
    BY <1>5 DEF Last
  <2>2. /\ same \in SUBSET Int /\ Len(excs) \in same
        /\ \A j \in same : j <= Len(excs)
    BY <1>5, <2>1
  <2> QED
    BY <2>2, MaxIs
<1>8. Last(excs).kind = "business"
  BY <1>6, <1>7 DEF Last
<1> QED
  BY <1>3, <1>8 DEF excs, entry

\* The regular end of a run: the verdict is true.
LEMMA CompleteRun == ASSUME EngineInv, RunInv, Complete PROVE RunInv'
<1>1. /\ At("passed") /\ UNCHANGED <<disk, runs, barred>>
      /\ mem' = Settled(mem) /\ engine' = SaveThen("idle", NumSteps)
      /\ "passed" \in Pcs \ {"idle", "saving", "executing"}
  BY DEF Complete, Pcs
<1>2. /\ mem # Nothing /\ mem \in Transaction /\ engine \in Control
      /\ engine.pc = "passed" /\ engine.then = "idle" /\ Working
      /\ FailureKnown(mem)
  <2>1. mem # Nothing /\ mem \in Transaction /\ engine \in Control
    BY <1>1, RunningFacts
  <2>2. engine.pc = "passed" /\ engine.then = "idle"
    BY <1>1 DEF RunInv, ThenIdle, At
  <2> QED
    BY <2>1, <2>2 DEF Working, Ending, Heading, At, RunInv, Verdicts
<1> DEFINE alldone == \A s \in Steps : mem.steps[s].status \in Done
           outcome == IF alldone THEN "successful"
                      ELSE IF TerminalKind(mem) = "business" THEN "business_failed"
                      ELSE "system_failed"
           status == IF outcome = "successful" THEN outcome ELSE "failed"
           base == [mem EXCEPT !.status = status, !.outcome = outcome]
<1>3. /\ outcome \in Outcomes /\ outcome # "validation_failed"
      /\ status \in {"successful", "failed"}
      /\ status = "successful" => alldone /\ outcome = "successful"
      /\ status = "failed" => ~alldone
      /\ outcome = "business_failed" => TerminalKind(mem) = "business" /\ ~alldone
  BY DEF Outcomes
<1>4. mem' = Record(base, "transaction_completed", 0)
  <2>1. Settled(mem) = Record([mem EXCEPT !.outcome = outcome, !.status = status],
                              "transaction_completed", 0)
    BY DEF Settled
  <2> HIDE DEF outcome, status
  <2>2. [mem EXCEPT !.outcome = outcome, !.status = status] = base
    BY <1>2 DEF Transaction
  <2> QED
    BY <1>1, <2>1, <2>2
<1> HIDE DEF outcome, status
<1>5. /\ base \in Transaction /\ base.steps = mem.steps
      /\ base.status = status /\ base.outcome = outcome
  BY <1>2, <1>3 DEF Transaction
<1>6. mem'.steps = mem.steps /\ mem'.status = status /\ mem'.outcome = outcome
  <2>1. "transaction_completed" \in Events
    BY DEF Events
  <2> HIDE DEF base
  <2> QED
    BY <1>4, <1>5, <2>1, RecordExact
<1>7. BusinessFailed(mem') = BusinessFailed(mem)
  BY <1>6 DEF BusinessFailed, FailedLastBy
<1>8. outcome = "business_failed" => BusinessFailed(mem) # {}
  <2> SUFFICES ASSUME TerminalKind(mem) = "business", ~alldone
               PROVE  BusinessFailed(mem) # {}
    BY <1>3
  <2>1. CASE Failures(mem) = {}
    <3>1. PICK s \in Steps : mem.steps[s].status \notin Done
      OBVIOUS
    <3>2. s \in engine.blocked
      BY <1>2, <2>1, <3>1 DEF RunInv, Visited, Heading, At
    <3> QED
      BY <1>2, <3>2 DEF RunInv, FailureStays, At
  <2>2. CASE Failures(mem) # {}
    <3>1. PICK k \in DOMAIN mem.history :
              /\ NewestFailure(mem, k)
              /\ Last(mem.steps[mem.history[k].step].excs).kind = "business"
      BY <1>2, TerminalKindIs
    <3>2. k \in Failures(mem)
      BY <1>2, <2>2, <3>1, NewestIsOfRun
    <3> QED
      BY <1>2, <3>1, <3>2 DEF RunInv, FailureStays, At
  <2> QED
    BY <2>1, <2>2
<1>9. Verdict(mem')
  BY <1>3, <1>6, <1>7, <1>8 DEF Verdict
<1> QED
  BY <1>1, <1>3, <1>4, <1>9, VerdictRun

\* The MemoryError end of a run.
LEMMA AbortRun == ASSUME EngineInv, RunInv, Abort PROVE RunInv'
<1> DEFINE base == [mem EXCEPT !.status = "failed", !.outcome = "interrupted"]
<1>1. /\ At("aborting") /\ UNCHANGED <<disk, runs, barred>>
      /\ mem' = Record(base, "transaction_completed", 0)
      /\ engine' = SaveThen("idle", NumSteps)
      /\ "aborting" \in Pcs \ {"idle", "saving", "executing"}
      /\ "interrupted" \in Outcomes
  BY DEF Abort, Pcs, Outcomes
<1>2. base \in Transaction /\ base.status = "failed" /\ base.outcome = "interrupted"
  BY <1>1, RunningFacts DEF Transaction
<1>3. mem'.status = "failed" /\ mem'.outcome = "interrupted"
  <2>1. "transaction_completed" \in Events
    BY DEF Events
  <2> HIDE DEF base
  <2> QED
    BY <1>1, <1>2, <2>1, RecordExact
<1>4. Verdict(mem')
  BY <1>3 DEF Verdict
<1> QED
  BY <1>1, <1>4, VerdictRun

\* A refused run.
LEMMA RejectRun == ASSUME EngineInv, RunInv, Reject PROVE RunInv'
<1> DEFINE base == [mem EXCEPT !.status = "failed", !.outcome = "validation_failed"]
           e == Note(mem, "transaction_completed", 0)
<1>1. /\ At("idle") /\ mem # Nothing /\ UNCHANGED <<disk, engine, barred>>
      /\ mem' = Record(base, "transaction_completed", 0)
  BY DEF Reject
<1>2. /\ mem \in Transaction
      /\ base \in Transaction /\ base.history = mem.history /\ base.steps = mem.steps
      /\ base.status = "failed" /\ base.outcome = "validation_failed"
      /\ base.retries = mem.retries
  BY <1>1, ObjectFacts DEF Transaction, Outcomes
<1>3. e = Note(base, "transaction_completed", 0) /\ e.event = "transaction_completed" /\ e.step = 0
  BY <1>2 DEF Note
<1> HIDE DEF base, e
<1>4. /\ Grown(mem, mem', e) /\ mem'.steps = mem.steps /\ mem'.status = "failed"
      /\ mem'.outcome = "validation_failed" /\ mem'.retries = mem.retries /\ mem' # Nothing
  <2>1. "transaction_completed" \in Events
    BY DEF Events
  <2> QED
    BY <1>1, <1>2, <1>3, <2>1, RecordExact, TransactionParts DEF Grown
<1>5. /\ engine'.then = "idle" /\ ThenIdle /\ At("idle")' /\ Fixed = Steps /\ Fixed' = Steps
  BY <1>1 DEF RunInv, ThenIdle, At, Fixed
<1>6. Explained'
  <2>1. SkipsExplained(mem, Steps)
    BY <1>1, <1>5 DEF RunInv, Explained
  <2>2. SkipsExplained(mem', Steps)
    BY <1>3, <1>4, <2>1, NoteExplained
  <2> QED
    BY <1>1, <1>5, <2>2 DEF RunInv, Explained
<1>7. ~Resumed(mem')
  BY <1>3, <1>4, GrownFacts DEF Resumed, LastEvent
<1>8. BarredStays'
  BY <1>1, <1>5, <1>7 DEF RunInv, BarredStays
<1>9. Verdicts'
  <2>1. FailureKnown(mem')
    <3>1. FailureKnown(mem)
      BY <1>1 DEF RunInv, Verdicts
    <3> QED
      BY <1>3, <1>4, <3>1, KnownGrows
  <2>2. Verdict(mem')
    BY <1>4 DEF Verdict
  <2> QED
    BY <1>1, <1>5, <2>1, <2>2 DEF RunInv, Verdicts, Working
<1>10. InBudget(mem')
  <2>1. InBudget(mem) /\ mem'.retries <= MaxRetries
    BY <1>1, <1>4 DEF RunInv, Budget, InBudget
  <2>2. \A s \in Steps : InBudget(mem')
    BY <1>3, <1>4, <2>1, NoteBudget
  <2> QED
    BY <2>1, <2>2 DEF InBudget
<1>11. disk' # Nothing => InBudget(disk')
  BY <1>1 DEF RunInv, Budget
<1> QED
  BY <1>1, <1>5, <1>6, <1>8, <1>9, <1>10, <1>11, CallerRun

\* run() starts: its history begins with the entry TRANSACTION_STARTED.
LEMMA StartRunRun == ASSUME EngineInv, RunInv, StartRun PROVE RunInv'
<1> DEFINE old == Reset(mem, Reopened(mem))
           base == [old EXCEPT !.status = "in_progress", !.outcome = "unknown"]
           e == Note(mem, "transaction_started", 0)
<1>1. /\ At("idle") /\ mem # Nothing /\ disk' = disk
      /\ mem' = Record(base, "transaction_started", 0)
      /\ engine' = [Idle EXCEPT !.pc = "saving", !.then = "choosing",
                               !.blocked = IF Resumed(mem) THEN BusinessFailed(mem) ELSE {}]
      /\ barred' = IF Resumed(mem) THEN barred ELSE {}
  BY DEF StartRun
<1>2. /\ mem \in Transaction /\ Reopened(mem) \in SUBSET Steps
      /\ \A s \in Reopened(mem) : mem.steps[s].status = "skipped"
  BY <1>1, ObjectFacts DEF Reopened
<1>3. /\ old \in Transaction /\ old.history = mem.history /\ old.retries = mem.retries
      /\ \A s \in Reopened(mem) : old.steps[s].status = "pending"
      /\ \A s \in Steps : old.steps[s].excs = mem.steps[s].excs
      /\ \A s \in Steps \ Reopened(mem) : old.steps[s] = mem.steps[s]
  BY <1>2, ResetExact
<1> HIDE DEF old
<1>4. /\ base \in Transaction /\ base.history = mem.history /\ base.steps = old.steps
      /\ base.status = "in_progress" /\ base.outcome = "unknown"
      /\ base.retries = mem.retries
  BY <1>3 DEF Transaction, Outcomes
<1>5. /\ e = Note(base, "transaction_started", 0)
      /\ e.event = "transaction_started" /\ e.step = 0
  BY <1>4 DEF Note
<1> HIDE DEF base, e
<1>6. /\ Grown(mem, mem', e) /\ mem'.steps = old.steps /\ mem'.status = "in_progress"
      /\ mem'.outcome = "unknown" /\ mem'.retries = mem.retries /\ mem' # Nothing
  <2>1. "transaction_started" \in Events
    BY DEF Events
  <2> QED
    BY <1>1, <1>2, <1>4, <1>5, <2>1, RecordExact, TransactionParts DEF Grown
<1>7. /\ engine'.pc = "saving" /\ engine'.then = "choosing" /\ engine'.cursor = 0
      /\ engine'.blocked = IF Resumed(mem) THEN BusinessFailed(mem) ELSE {}
      /\ Fixed = Steps /\ Fixed' = engine'.blocked \cup 1..0
  BY <1>1 DEF Idle, Fixed, At
<1>8. Failures(mem') = {}
  BY <1>5, <1>6, FailuresGrow
<1>9. \A s \in Steps : s \in BusinessFailed(mem) => old.steps[s] = mem.steps[s]
                                                     /\ s \in BusinessFailed(mem')
  <2>1. \A s \in Steps : s \in BusinessFailed(mem) => s \notin Reopened(mem)
    BY <1>2 DEF BusinessFailed, FailedLastBy
  <2> QED
    BY <1>3, <1>6, <2>1 DEF BusinessFailed, FailedLastBy
<1>10. ThenIdle' /\ OwnEntry' /\ HaltStands'
  BY <1>7 DEF ThenIdle, OwnEntry, HaltStands, Heading, At
<1>11. Visited'
  <2>1. \A s \in Steps : ~(s <= 0)
    BY EngineAssumption DEF Steps
  <2>2. ~Heading("passed")'
    BY <1>7 DEF Heading, At
  <2> QED
    BY <1>7, <2>1, <2>2 DEF Visited
<1>12. FailureStays'
  BY <1>7, <1>8, <1>9, HaltingIsStep DEF FailureStays
<1>13. Explained'
  <2>1. CASE Resumed(mem)
    <3>1. SkipsExplained(mem, Steps)
      BY <1>1, <1>7 DEF RunInv, Explained
    <3>2. \A h \in Steps \cap Halting(mem) : h \in Fixed' /\ mem'.steps[h] = mem.steps[h]
      BY <1>6, <1>7, <1>9, <2>1, HaltingIsStep
    <3>3. \A s \in Steps : mem'.steps[s].status = "skipped" => mem.steps[s].status = "skipped"
      BY <1>3, <1>6
    <3>4. SkipsExplained(mem', Fixed')
      BY <1>5, <1>6, <3>1, <3>2, <3>3, NoteExplained
    <3> QED
      BY <1>1, <3>4 DEF RunInv, Explained
  <2>2. CASE ~Resumed(mem)
    <3>1. \A s \in Steps : mem'.steps[s].status # "skipped"
      BY <1>3, <1>6, <2>2 DEF Reopened
    <3> QED
      BY <1>1, <3>1 DEF RunInv, Explained, SkipsExplained
  <2> QED
    BY <2>1, <2>2
<1>14. BarredStays'
  <2>1. CASE Resumed(mem)
    <3>1. Reopened(mem) = {} /\ barred' = barred
      BY <1>1, <2>1 DEF Reopened
    <3>2. \A s \in barred : mem.steps[s].status = "skipped" \/ s \in BusinessFailed(mem)
      BY <1>1, <2>1 DEF RunInv, BarredStays
    <3>3. barred \in SUBSET Steps
      BY DEF EngineInv, TypeOK
    <3>4. \A s \in barred : mem'.steps[s] = mem.steps[s]
      BY <1>3, <1>6, <3>1, <3>3
    <3>5. \A s \in barred : mem'.steps[s].status = "skipped" \/ s \in BusinessFailed(mem') \cap Fixed'
      BY <1>7, <1>9, <2>1, <3>2, <3>3, <3>4
    <3> QED
      BY <1>1, <3>1, <3>5 DEF RunInv, BarredStays
  <2>2. CASE ~Resumed(mem)
    BY <1>1, <2>2 DEF BarredStays
  <2> QED
    BY <2>1, <2>2
<1>15. Budget'
  <2>1. InBudget(mem) /\ MaxRetries \in Nat /\ mem.retries \in Nat
    BY <1>1, <1>2, TransactionParts, EngineAssumption DEF RunInv, Budget
  <2>2. \A s \in Steps : Cardinality(StartsOf(mem', s)) = 0
    BY <1>5, <1>6, StartsGrow
  <2>3. InBudget(mem')
    BY <1>6, <2>1, <2>2 DEF InBudget
  <2> QED
    BY <1>1, <1>6, <2>1, <2>2, <2>3 DEF RunInv, Budget
<1>16. Verdicts'
  <2>1. FailureKnown(mem')
    <3>1. FailureKnown(mem)
      BY <1>1 DEF RunInv, Verdicts
    <3> QED
      BY <1>3, <1>5, <1>6, <3>1, KnownGrows
  <2>2. Verdict(mem')
    BY <1>6 DEF Verdict
  <2> QED
    BY <1>1, <1>6, <2>1, <2>2 DEF RunInv, Verdicts
<1> QED
  BY <1>10, <1>11, <1>12, <1>13, <1>14, <1>15, <1>16 DEF RunInv

\* A retry pass runs only after a failure of this run, and leaves business failures alone.
LEMMA RetryPassRun == ASSUME EngineInv, RunInv, RetryPass PROVE RunInv'
<1> DEFINE old == Reset(mem, Retryable(mem))
           base == [old EXCEPT !.retries = @ + 1]
           e == Note(base, "retry_scheduled", 0)
<1>1. /\ At("passed") /\ UNCHANGED <<disk, runs, barred>>
      /\ mem' = Record(base, "retry_scheduled", 0)
      /\ engine' = [engine EXCEPT !.pc = "choosing", !.cursor = 0, !.retrying = TRUE,
                                 !.blocked = BusinessFailed(mem)]
      /\ mem.retries < MaxRetries /\ Retryable(mem) # {}
      /\ "passed" \in Pcs \ {"idle", "saving", "executing"}
  BY DEF RetryPass, MayRetry, Pcs
<1>2. /\ mem # Nothing /\ mem \in Transaction /\ engine \in Control
      /\ engine.pc = "passed" /\ engine.then = "idle" /\ Working /\ ~At("idle")
      /\ mem.retries \in Nat
  <2>1. mem # Nothing /\ mem \in Transaction /\ engine \in Control
    BY <1>1, RunningFacts
  <2>2. engine.pc = "passed" /\ engine.then = "idle"
    BY <1>1 DEF RunInv, ThenIdle, At
  <2> QED
    BY <2>1, <2>2, TransactionParts DEF Working, Ending, Heading, At
<1>3. /\ Retryable(mem) \in SUBSET Steps
      /\ \A s \in Retryable(mem) : /\ mem.steps[s].status = "failed"
                                   /\ s \notin BusinessFailed(mem)
  BY DEF Retryable, BusinessFailed, FailedLastBy
<1>4. /\ old \in Transaction /\ old.history = mem.history /\ old.retries = mem.retries
      /\ old.status = mem.status /\ old.outcome = mem.outcome
      /\ \A s \in Retryable(mem) : old.steps[s].status = "pending"
      /\ \A s \in Steps : old.steps[s].excs = mem.steps[s].excs
      /\ \A s \in Steps \ Retryable(mem) : old.steps[s] = mem.steps[s]
  BY <1>2, <1>3, ResetExact
<1> HIDE DEF old
<1>5. /\ base \in Transaction /\ base.history = mem.history /\ base.steps = old.steps
      /\ base.status = mem.status /\ base.outcome = mem.outcome
      /\ base.retries = mem.retries + 1
  BY <1>2, <1>4 DEF Transaction
<1>6. e.event = "retry_scheduled" /\ e.step = 0
  BY DEF Note
<1> HIDE DEF base, e
<1>7. /\ Grown(mem, mem', e) /\ mem'.steps = old.steps /\ mem'.status = mem.status
      /\ mem'.outcome = mem.outcome /\ mem'.retries = mem.retries + 1 /\ mem' # Nothing
  <2>1. "retry_scheduled" \in Events
    BY DEF Events
  <2> QED
    BY <1>1, <1>2, <1>5, <2>1, RecordExact, TransactionParts DEF Grown, e
<1>8. /\ engine'.pc = "choosing" /\ engine'.then = "idle" /\ engine'.cursor = 0
      /\ engine'.blocked = BusinessFailed(mem)
      /\ Fixed' = BusinessFailed(mem) \cup 1..0 /\ ~At("idle")' /\ Working'
  BY <1>1, <1>2 DEF Control, Fixed, At, Working, Ending, Heading
<1>9. Failures(mem) # {}
  <2> SUFFICES ASSUME Failures(mem) = {} PROVE FALSE
    OBVIOUS
  <2>1. PICK s \in Steps : s \in Retryable(mem)
    BY <1>1, <1>3
  <2>2. mem.steps[s].status \in Done \/ s \in engine.blocked
    BY <1>2, <2>1 DEF RunInv, Visited, Heading, At
  <2>3. mem.steps[s].status = "failed" /\ s \notin BusinessFailed(mem)
    BY <1>3, <2>1
  <2> QED
    BY <1>2, <2>2, <2>3 DEF RunInv, FailureStays, Done
<1>10. Failures(mem') = Failures(mem) /\ \A k \in DOMAIN mem'.history :
          NewestFailure(mem', k) => NewestFailure(mem, k) /\ mem'.history[k] = mem.history[k]
  <2>1. Failures(mem') = Failures(mem) /\ \A k \in DOMAIN mem'.history :
           NewestFailure(mem', k) => NewestFailure(mem, k)
    BY <1>6, <1>7, FailuresGrow
  <2>2. \A k \in DOMAIN mem.history : mem'.history[k] = mem.history[k]
    BY <1>7, GrownFacts
  <2> QED
    BY <2>1, <2>2 DEF NewestFailure
<1>11. \A s \in Steps : s \in BusinessFailed(mem) => /\ mem'.steps[s] = mem.steps[s]
                                                     /\ s \in BusinessFailed(mem')
  BY <1>3, <1>4, <1>7 DEF BusinessFailed, FailedLastBy
<1>12. ThenIdle' /\ OwnEntry' /\ HaltStands' /\ Visited'
  BY <1>8, <1>9, <1>10 DEF ThenIdle, OwnEntry, HaltStands, Visited, Heading, At
<1>13. FailureStays'
  <2>1. engine'.blocked \subseteq BusinessFailed(mem')
    BY <1>8, <1>11, HaltingIsStep
  <2>2. ASSUME NEW k \in Failures(mem'), NewestFailure(mem', k),
               Last(mem'.steps[mem'.history[k].step].excs).kind = "business"
        PROVE  mem'.history[k].step \in BusinessFailed(mem') \cap Fixed'
    <3>1. k \in Failures(mem) /\ NewestFailure(mem, k) /\ mem'.history[k] = mem.history[k]
      BY <1>10, <2>2 DEF NewestFailure
    <3>2. mem.history[k].step \in Steps
      BY <1>2, <3>1 DEF RunInv, Verdicts, FailureKnown, NewestFailure
    <3>3. mem'.steps[mem.history[k].step].excs = mem.steps[mem.history[k].step].excs
      BY <1>4, <1>7, <3>2
    <3>4. mem.history[k].step \in BusinessFailed(mem)
      BY <1>2, <2>2, <3>1, <3>3 DEF RunInv, FailureStays
    <3> QED
      BY <1>8, <1>11, <3>1, <3>2, <3>4
  <2> QED
    BY <2>1, <2>2 DEF FailureStays
<1>14. Explained'
  <2>1. SkipsExplained(mem, Fixed)
    BY <1>2 DEF RunInv, Explained
  <2>2. \A h \in Fixed \cap Halting(mem) : h \in Fixed' /\ mem'.steps[h] = mem.steps[h]
    BY <1>8, <1>11, HaltingIsStep
  <2>3. \A s \in Steps : mem'.steps[s].status = "skipped" => mem.steps[s].status = "skipped"
    BY <1>4, <1>7
  <2>4. SkipsExplained(mem', Fixed')
    BY <1>6, <1>7, <2>1, <2>2, <2>3, NoteExplained
  <2> QED
    BY <1>1, <2>4 DEF RunInv, Explained
<1>15. BarredStays'
  <2>1. barred \in SUBSET Steps
    BY DEF EngineInv, TypeOK
  <2>2. ASSUME NEW s \in barred
        PROVE  mem'.steps[s].status = "skipped" \/ s \in BusinessFailed(mem') \cap Fixed'
    <3>1. mem.steps[s].status = "skipped" \/ s \in BusinessFailed(mem)
      BY <1>2 DEF RunInv, BarredStays
    <3>2. s \in Steps \ Retryable(mem)
      BY <1>3, <2>1, <3>1
    <3> QED
      BY <1>4, <1>7, <1>8, <1>11, <3>1, <3>2
  <2> QED
    BY <1>1, <2>2 DEF RunInv, BarredStays
<1>16. Budget'
  <2>1. InBudget(mem) /\ MaxRetries \in Nat /\ mem'.retries <= MaxRetries
    BY <1>1, <1>2, <1>7, EngineAssumption DEF RunInv, Budget
  <2>2. ASSUME NEW s \in Steps
        PROVE  /\ Cardinality(StartsOf(mem', s)) <= mem.retries + 1
               /\ InBudget(mem')
    <3>1. /\ Cardinality(StartsOf(mem, s)) \in Nat /\ Cardinality(StartsOf(mem', s)) \in Nat
          /\ Cardinality(StartsOf(mem', s)) <= Cardinality(StartsOf(mem, s))
          /\ InBudget(mem')
      BY <1>6, <1>7, <2>1, NoteBudget
    <3>2. Cardinality(StartsOf(mem, s)) <= mem.retries + (IF s <= engine.cursor THEN 1 ELSE 0)
      BY <1>2 DEF RunInv, Budget
    <3> QED
      BY <1>2, <3>1, <3>2
  <2>3. InBudget(mem')
    BY <1>7, <2>1, <2>2 DEF InBudget
  <2>4. \A s \in Steps : /\ ~(s <= engine'.cursor)
                         /\ Cardinality(StartsOf(mem', s)) <= mem'.retries
    BY <1>7, <1>8, <2>2, EngineAssumption DEF Steps
  <2>5. \A s \in Steps : Cardinality(StartsOf(mem', s)) <= mem'.retries + 0
    BY <1>2, <1>7, <2>2
  <2> QED
    BY <1>1, <2>3, <2>4, <2>5 DEF RunInv, Budget
<1>17. Verdicts'
  <2>1. FailureKnown(mem')
    <3>1. FailureKnown(mem)
      BY <1>2 DEF RunInv, Verdicts
    <3> QED
      BY <1>4, <1>6, <1>7, <3>1, KnownGrows
  <2>2. mem'.status = "in_progress" /\ mem'.outcome # "validation_failed"
    BY <1>2, <1>7 DEF RunInv, Verdicts
  <2>3. Verdict(mem')
    BY <2>2 DEF Verdict
  <2> QED
    BY <1>1, <2>1, <2>2, <2>3 DEF RunInv, Verdicts
<1> QED
  BY <1>12, <1>13, <1>14, <1>15, <1>16, <1>17 DEF RunInv

-----------------------------------------------------------------------------
(* What recovery keeps                                                       *)

\* A skip that a halting failure caused is one that history ties to it.
LEMMA CausedIsPropagated ==
    ASSUME NEW tx, NEW s \in Steps, NEW k \in DOMAIN tx.history, NEW h,
           tx.history[k].step = s, tx.history[k].event = "step_skipped", Causes(tx, h, k)
    PROVE  s \in Propagated(tx)
BY DEF Causes, Propagated

\* The skips a resumed transaction keeps are explained as they were.
LEMMA ResumedExplained ==
    ASSUME NEW tx \in Transaction, NEW again \in BOOLEAN, tx.status # "successful",
           SkipsExplained(tx, Steps)
    PROVE  SkipsExplained(Prepared(tx, again), Steps)
<1> DEFINE new == Prepared(tx, again)
<1>1. /\ \A s \in Steps : /\ new.steps[s].status = ResumedStatus(tx, s, again)
                          /\ new.steps[s].excs = tx.steps[s].excs
      /\ \/ Resumed(tx) /\ new.history = tx.history
         \/ \E e \in Entry : /\ e.event = "transaction_resumed" /\ e.step = 0
                             /\ new.history = Append(tx.history, e)
  BY PreparedExact
<1> HIDE DEF new
<1>2. /\ DOMAIN tx.history \subseteq DOMAIN new.history /\ DOMAIN tx.history \subseteq Int
      /\ \A k \in DOMAIN tx.history : new.history[k] = tx.history[k]
      /\ \A k \in DOMAIN new.history \ DOMAIN tx.history : new.history[k].step = 0
      /\ \A k \in DOMAIN tx.history : k > 1 => k - 1 \in DOMAIN tx.history
  <2>1. tx.history \in Seq(Entry)
    BY TransactionParts
  <2>2. /\ DOMAIN tx.history = 1..Len(tx.history) /\ Len(tx.history) \in Nat
    BY <2>1
  <2>3. CASE new.history = tx.history
    BY <2>2, <2>3
  <2>4. CASE \E e \in Entry : e.step = 0 /\ new.history = Append(tx.history, e)
    BY <2>1, <2>2, <2>4, AppendFacts
  <2> QED
    BY <1>1, <2>3, <2>4
<1> SUFFICES ASSUME NEW s \in Steps, new.steps[s].status = "skipped"
             PROVE  SkipExplained(new, s, Steps)
  BY DEF SkipsExplained, new
<1>3. tx.steps[s].status = "skipped" /\ s \in PreservedSkips(tx, again)
  BY <1>1 DEF ResumedStatus, BusinessFailed, FailedLastBy
<1>4. PICK k \in DOMAIN tx.history :
          /\ Newest(tx, s, k) /\ tx.history[k].event = "step_skipped"
          /\ OwnSkip(tx, k) \/ \E h \in Steps : Causes(tx, h, k)
  BY <1>3 DEF SkipsExplained, SkipExplained
<1>5. /\ k \in DOMAIN new.history /\ new.history[k] = tx.history[k] /\ Newest(new, s, k)
  <2>1. s # 0
    BY EngineAssumption DEF Steps
  <2>2. k \in DOMAIN new.history /\ new.history[k] = tx.history[k]
    BY <1>2
  <2>3. \A j \in DOMAIN new.history : j > k => new.history[j].step # s
    BY <1>2, <1>4, <2>1 DEF Newest
  <2> QED
    BY <1>4, <2>2, <2>3 DEF Newest
<1>6. CASE OwnSkip(tx, k)
  <2>1. OwnSkip(new, k)
    BY <1>2, <1>5, <1>6 DEF OwnSkip
  <2> QED
    BY <1>4, <1>5, <2>1 DEF SkipExplained
<1>7. CASE \E h \in Steps : Causes(tx, h, k)
  <2>1. PICK h \in Steps : Causes(tx, h, k)
    BY <1>7
  <2>2. s \in Propagated(tx)
    BY <1>4, <2>1, CausedIsPropagated DEF Newest
  <2>3. ~again
    BY <1>3, <2>2 DEF PreservedSkips
  <2>4. /\ h \in Halting(tx) /\ h < tx.history[k].step
        /\ Last(tx.steps[h].excs).retry = tx.history[k].retry
    BY <2>1 DEF Causes
  <2>5. new.steps[h].status = "failed" /\ new.steps[h].excs = tx.steps[h].excs
    BY <1>1, <2>3, <2>4 DEF ResumedStatus, Halting, BusinessFailed, FailedLastBy
  <2>6. h \in Halting(new)
    BY <2>4, <2>5 DEF Halting, BusinessFailed, FailedLastBy
  <2>7. Causes(new, h, k)
    BY <1>5, <2>4, <2>5, <2>6 DEF Causes
  <2> QED
    BY <1>4, <1>5, <2>7 DEF SkipExplained
<1> QED
  BY <1>4, <1>6, <1>7

\* What recovery promises is what it writes.
LEMMA PromiseIsKept ==
    ASSUME NEW tx \in Transaction, tx.status # "successful", SkipsExplained(tx, Steps),
           NEW s \in BusinessFailed(tx) \cup CausalSkips(tx)
    PROVE  LET new == Prepared(tx, FALSE) IN
           new.steps[s].status = "skipped" \/ s \in BusinessFailed(new)
<1> DEFINE new == Prepared(tx, FALSE)
<1>1. PICK again \in BOOLEAN : again = FALSE
  OBVIOUS
<1>2. /\ \A t \in Steps : /\ new.steps[t].status = ResumedStatus(tx, t, FALSE)
                          /\ new.steps[t].excs = tx.steps[t].excs
  BY <1>1, PreparedExact
<1> HIDE DEF new
<1>3. CASE s \in BusinessFailed(tx)
  <2>1. s \in Steps /\ ResumedStatus(tx, s, FALSE) = "failed"
    BY <1>3 DEF ResumedStatus, BusinessFailed, FailedLastBy
  <2>2. s \in BusinessFailed(new)
    BY <1>2, <1>3, <2>1 DEF BusinessFailed, FailedLastBy
  <2> QED
    BY <2>2 DEF new
<1>4. CASE s \in CausalSkips(tx)
  <2> DEFINE about == {k \in DOMAIN tx.history : tx.history[k].step = s}
  <2>1. /\ s \in Steps /\ tx.steps[s].status = "skipped"
        /\ Max(about) > 1 /\ tx.history[Max(about) - 1].step # s
    BY <1>4 DEF CausalSkips
  <2>2. PICK k \in DOMAIN tx.history :
            /\ Newest(tx, s, k) /\ tx.history[k].event = "step_skipped"
            /\ OwnSkip(tx, k) \/ \E h \in Steps : Causes(tx, h, k)
    BY <2>1 DEF SkipsExplained, SkipExplained
  <2>3. Max(about) = k
    <3>1. DOMAIN tx.history = 1..Len(tx.history) /\ Len(tx.history) \in Nat
      BY TransactionParts
    <3>2. about \in SUBSET Int /\ k \in about /\ \A j \in about : j <= k
      BY <2>2, <3>1 DEF Newest
    <3> QED
      BY <3>2, MaxIs
  <2> HIDE DEF about
  <2>4. ~OwnSkip(tx, k)
    BY <2>1, <2>2, <2>3 DEF OwnSkip, Newest
  <2>5. s \in Propagated(tx)
    BY <2>1, <2>2, <2>4, CausedIsPropagated DEF Newest
  <2>6. s \in PreservedSkips(tx, FALSE)
    BY <2>1, <2>5 DEF PreservedSkips
  <2>7. ResumedStatus(tx, s, FALSE) = "skipped"
    BY <2>1, <2>6 DEF ResumedStatus
  <2> QED
    BY <1>2, <2>1, <2>7 DEF new
<1> QED
  BY <1>3, <1>4

\* Recovery starts from what is stored, and keeps its promise.
LEMMA ResumeRun ==
    ASSUME EngineInv, RunInv, NEW again \in BOOLEAN, Resume(again)
    PROVE  RunInv'
<1>1. /\ At("idle") /\ disk # Nothing /\ disk \in Transaction
      /\ mem' = Prepared(disk, again) /\ barred' = Promised(disk, again)
      /\ UNCHANGED <<disk, engine>>
  BY DEF Resume, EngineInv, TypeOK
<1>2. /\ engine'.then = "idle" /\ ThenIdle /\ At("idle")' /\ Fixed' = Steps
  BY <1>1 DEF RunInv, ThenIdle, At, Fixed
<1>3. /\ SkipsExplained(disk, Steps) /\ InBudget(disk) /\ FailureKnown(disk) /\ Verdict(disk)
  BY <1>1 DEF RunInv, Explained, Budget, Verdicts
<1>4. CASE disk.status = "successful"
  <2>1. mem' = disk /\ barred' = {}
    BY <1>1, <1>4 DEF Prepared, Promised
  <2>2. Explained' /\ BarredStays' /\ Verdicts'
    BY <1>1, <1>2, <1>3, <2>1 DEF RunInv, Explained, BarredStays, Verdicts, Working
  <2> QED
    BY <1>1, <1>2, <1>3, <2>1, <2>2, CallerRun
<1>5. CASE disk.status # "successful"
  <2>1. /\ mem' \in Transaction /\ mem'.status = "pending" /\ mem'.retries = 0
        /\ \A s \in Steps : mem'.steps[s].excs = disk.steps[s].excs
        /\ \/ mem'.history = disk.history
           \/ \E e \in Entry : /\ e.event = "transaction_resumed" /\ e.step = 0
                               /\ mem'.history = Append(disk.history, e)
    BY <1>1, <1>5, PreparedExact
  <2>2. Explained'
    <3>1. SkipsExplained(mem', Steps)
      BY <1>1, <1>3, <1>5, ResumedExplained
    <3> QED
      BY <1>1, <1>2, <1>3, <3>1 DEF Explained
  <2>3. BarredStays'
    <3>1. CASE again
      BY <1>1, <3>1 DEF BarredStays, Promised
    <3>2. CASE ~again
      <4>1. again = FALSE
        BY <3>2
      <4>2. \A s \in barred' : mem'.steps[s].status = "skipped" \/ s \in BusinessFailed(mem')
        BY <1>1, <1>3, <1>5, <4>1, PromiseIsKept DEF Promised
      <4> QED
        BY <1>1, <1>2, <4>2, HaltingIsStep DEF BarredStays
    <3> QED
      BY <3>1, <3>2
  <2>4. FailureKnown(mem') /\ InBudget(mem')
    <3>1. CASE mem'.history = disk.history
      <4>1. \A s \in Steps : StartsOf(mem', s) = StartsOf(disk, s)
        BY <3>1 DEF StartsOf
      <4>2. InBudget(mem')
        BY <1>3, <2>1, <4>1, EngineAssumption DEF InBudget
      <4>3. FailureKnown(mem')
        BY <1>3, <2>1, <3>1 DEF FailureKnown, NewestFailure
      <4> QED
        BY <4>2, <4>3
    <3>2. CASE \E e \in Entry : /\ e.event = "transaction_resumed" /\ e.step = 0
                                /\ mem'.history = Append(disk.history, e)
      <4>1. PICK e \in Entry : /\ e.event = "transaction_resumed" /\ e.step = 0
                               /\ mem'.history = Append(disk.history, e)
        BY <3>2
      <4>2. Grown(disk, mem', e)
        BY <1>1, <2>1, <4>1 DEF Grown
      <4>3. FailureKnown(mem')
        BY <1>3, <2>1, <4>1, <4>2, KnownGrows
      <4>4. mem'.retries <= MaxRetries
        BY <2>1, EngineAssumption
      <4>5. \A s \in Steps : InBudget(mem')
        BY <1>3, <4>1, <4>2, <4>4, NoteBudget
      <4>6. InBudget(mem')
        BY <4>4, <4>5 DEF InBudget
      <4> QED
        BY <4>3, <4>6
    <3> QED
      BY <2>1, <3>1, <3>2
  <2>5. Verdicts'
    <3>1. Verdict(mem')
      BY <2>1 DEF Verdict
    <3> QED
      BY <1>1, <1>2, <2>4, <3>1 DEF RunInv, Verdicts, Working
  <2> QED
    BY <1>1, <1>2, <1>3, <2>2, <2>3, <2>4, <2>5, CallerRun
<1> QED
  BY <1>4, <1>5

\* Nothing has happened at first.
LEMMA InitRun == Init => RunInv
<1> SUFFICES ASSUME Init PROVE RunInv
  OBVIOUS
<1>1. mem = Nothing /\ disk = Nothing /\ engine.pc = "idle" /\ engine.then = "idle" /\ barred = {}
  BY IdleIsControl DEF Init
<1>2. Explained /\ BarredStays /\ Budget /\ Verdicts
  BY <1>1 DEF Explained, BarredStays, Budget, Verdicts, Working, At
<1>3. ThenIdle /\ OwnEntry /\ HaltStands /\ Visited /\ FailureStays
  BY <1>1 DEF ThenIdle, OwnEntry, HaltStands, Visited, FailureStays, Heading, At, Working
<1> QED
  BY <1>2, <1>3 DEF RunInv

\* Every step keeps the invariant of a run.
LEMMA RunInvStep == EngineInv /\ RunInv /\ [Next]_vars => RunInv'
<1> SUFFICES ASSUME EngineInv, RunInv, [Next]_vars PROVE RunInv'
  OBVIOUS
<1>1. CASE UNCHANGED vars
  BY <1>1 DEF vars, RunInv, ThenIdle, OwnEntry, HaltStands, Explained, BarredStays, Budget,
              Visited, FailureStays, Verdicts, Working, Ending, Heading, At, Fixed
<1>2. CASE Create
  BY <1>2, CreateRun
<1>3. CASE SavePrepared
  BY <1>3, SavePreparedRun
<1>4. CASE \E again \in BOOLEAN : Resume(again)
  BY <1>4, ResumeRun
<1>5. CASE StartRun
  BY <1>5, StartRunRun
<1>6. CASE Reject
  BY <1>6, RejectRun
<1>7. CASE Save
  BY <1>7, SaveRun
<1>8. CASE StartStep
  BY <1>8, StartStepRun
<1>9. CASE \E ending \in {"ok", "skip"} : EndStep(ending)
  BY <1>9, EndStepRun
<1>10. CASE \E halts \in BOOLEAN : BusinessFailure(halts)
  BY <1>10, BusinessFailureRun
<1>11. CASE SystemFailure
  BY <1>11, SystemFailureRun
<1>12. CASE StepInterrupted
  BY <1>12, StepInterruptedRun
<1>13. CASE SkipDownstream
  BY <1>13, SkipDownstreamRun
<1>14. CASE EndPass
  BY <1>14, EndPassRun
<1>15. CASE RetryPass
  BY <1>15, RetryPassRun
<1>16. CASE Complete
  BY <1>16, CompleteRun
<1>17. CASE Abort
  BY <1>17, AbortRun
<1>18. CASE Escape \/ OutOfMemory
  BY <1>18, GiveUpRun
<1>19. CASE Crash
  BY <1>19, CrashRun
<1> QED
  BY <1>1, <1>2, <1>3, <1>4, <1>5, <1>6, <1>7, <1>8, <1>9, <1>10, <1>11, <1>12, <1>13,
     <1>14, <1>15, <1>16, <1>17, <1>18, <1>19 DEF Next

-----------------------------------------------------------------------------
(* What a run promises                                                       *)

\* The invariant of a run holds in every reachable state.
THEOREM RunInvariant == Spec => [](EngineInv /\ RunInv)
  BY InitInv, InitRun, EngineInvStep, RunInvStep, PTL DEF Spec

\* A business failure is final: no step that recovery promised to leave alone is executed
\* (recovery.py, _prepare_resumed_transaction; engine.py, the blocked steps of a pass).
THEOREM BusinessFailureAlwaysTerminal == Spec => []BusinessFailureIsTerminal
<1>1. EngineInv /\ RunInv => BusinessFailureIsTerminal
  <2> SUFFICES ASSUME EngineInv, RunInv, At("executing") PROVE engine.cursor \notin barred
    BY DEF BusinessFailureIsTerminal
  <2>1. /\ mem # Nothing /\ ~At("idle")
        /\ mem.steps[engine.cursor].status = "in_progress"
    BY ExecutingFacts DEF At
  <2> QED
    BY <2>1 DEF RunInv, BarredStays, BusinessFailed, FailedLastBy
<1> QED
  BY <1>1, RunInvariant, PTL

\* One run executes a step at most max_retries + 1 times (engine.py, the retry loop of run()).
THEOREM RetryAlwaysWithinBudget == Spec => []RetryWithinBudget
<1>1. EngineInv /\ RunInv => RetryWithinBudget
  <2> SUFFICES ASSUME EngineInv, RunInv, NEW s \in Steps
               PROVE  Cardinality(StartsOf(mem, s)) <= MaxRetries + 1
    BY DEF RetryWithinBudget, StartsOf
  <2>1. CASE mem # Nothing
    BY <2>1 DEF RunInv, Budget, InBudget
  <2>2. CASE mem = Nothing
    <3>1. StartsOf(mem, s) = {}
      BY <2>2 DEF StartsOf, Since, Nothing
    <3>2. Cardinality(StartsOf(mem, s)) = 0
      BY <3>1, FS_EmptySet
    <3> QED
      BY <3>2, EngineAssumption
  <2> QED
    BY <2>1, <2>2
<1> QED
  BY <1>1, RunInvariant, PTL

\* A stored verdict is true of the stored steps (engine.py, the end of _run, where the
\* status of every step and _last_failed_exception decide).
THEOREM VerdictAlwaysTrue == Spec => []VerdictIsTrue
<1>1. EngineInv /\ RunInv => VerdictIsTrue
  <2> SUFFICES ASSUME EngineInv, RunInv PROVE VerdictIsTrue
    OBVIOUS
  <2>1. CASE disk = Nothing
    BY <2>1 DEF VerdictIsTrue, Nothing
  <2>2. CASE disk # Nothing
    <3>1. Verdict(disk) /\ (disk.status = "failed" => disk.outcome # "validation_failed")
      BY <2>2 DEF RunInv, Verdicts
    <3> QED
      BY <3>1 DEF Verdict, VerdictIsTrue
  <2> QED
    BY <2>1, <2>2
<1> QED
  BY <1>1, RunInvariant, PTL

=============================================================================
