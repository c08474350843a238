-------------------------------- MODULE Engine --------------------------------
(***************************************************************************)
(* Step execution with strict checkpoints (src/rpacore/engine.py) and      *)
(* same-id recovery (src/rpacore/recovery.py) of one transaction.          *)
(*                                                                         *)
(* mem is the Transaction object of the running process, disk the last     *)
(* snapshot its checkpoint callback stored.  Engine.run() changes mem,     *)
(* appends one history entry, and only then checkpoints: the process can   *)
(* die, the transition sink or the callback can raise, and memory can run  *)
(* out between any two of these, so each of them is an action.             *)
(*                                                                         *)
(* Module Transactions has the pure functions on a transaction.            *)
(***************************************************************************)
EXTENDS Transactions

CONSTANTS
    CanEnd,      \* the ways in which user code may end each step
    MaxRetries,  \* Engine(max_retries)
    MaxRuns      \* bound: calls of Engine.run over the transaction's life

Endings == {"ok", "skip", "business", "halt", "system", "memory"}

ASSUME EngineAssumption ==
    /\ NumSteps \in Nat
    /\ CanEnd \in [Steps -> SUBSET Endings]
    /\ MaxRetries \in Nat
    /\ MaxRuns \in Nat

VARIABLES
    mem,     \* the Transaction object, or Nothing
    disk,    \* its persisted snapshot, or Nothing
    engine,  \* where Engine.run is
    runs,    \* calls of Engine.run so far
    barred   \* history variable: steps that recovery promised not to execute again

vars == <<mem, disk, engine, runs, barred>>

-----------------------------------------------------------------------------
(* What recovery promises                                                    *)

\* The steps the engine skipped because an earlier one halted them: no STEP_STARTED of
\* their own comes right before their newest entry.
CausalSkips(tx) ==
    {s \in Steps :
        LET about == {k \in DOMAIN tx.history : tx.history[k].step = s}
            k == Max(about)
        IN  /\ tx.steps[s].status = "skipped"
            /\ k > 1 /\ tx.history[k - 1].step # s}

\* What recovery promises of a snapshot: business failures, and the steps skipped because
\* of them, stay as they are unless the caller asks to retry them.
Promised(tx, again) ==
    IF again \/ tx.status = "successful" THEN {}
    ELSE BusinessFailed(tx) \cup CausalSkips(tx)

-----------------------------------------------------------------------------
(* The program counter                                                       *)

Idle == [pc |-> "idle", then |-> "idle", cursor |-> 0, blocked |-> {}, retrying |-> FALSE]
At(pc) == engine.pc = pc

\* faulty: the step body may run although its checkpoint has not been stored
SaveLater(then, cursor) ==
    [engine EXCEPT !.pc = IF then = "executing" THEN then ELSE "saving",
                   !.then = then, !.cursor = cursor]

\* The checkpoint comes next, and what follows it.
SaveThen(then, cursor) ==
    [engine EXCEPT !.pc = "saving", !.then = then, !.cursor = cursor]

Init ==
    /\ mem = Nothing /\ disk = Nothing
    /\ engine = Idle
    /\ runs = 0
    /\ barred = {}

\* The caller builds the transaction.
Create ==
    /\ At("idle") /\ mem = Nothing /\ disk = Nothing
    /\ mem' = Fresh
    /\ UNCHANGED <<disk, engine, runs, barred>>

\* save_transaction replaces the snapshot; history rows are only added.
Stored(tx) == [tx EXCEPT !.history = Merged(disk.history, tx.history)]

\* The caller stores a transaction it created or resumed before it runs it.
SavePrepared ==
    /\ At("idle") /\ mem.status = "pending"
    /\ disk' = Stored(mem)
    /\ UNCHANGED <<mem, engine, runs, barred>>

Resume(again) ==
    /\ At("idle") /\ disk # Nothing
    /\ mem' = Prepared(disk, again)
    /\ barred' = Promised(disk, again)
    /\ UNCHANGED <<disk, engine, runs>>

-----------------------------------------------------------------------------
(* Engine.run                                                                *)

\* _reset_skipped_steps: skips count again when the caller re-runs the object itself.
Reopened(tx) ==
    IF Resumed(tx) THEN {} ELSE {s \in Steps : tx.steps[s].status = "skipped"}

StartRun ==
    /\ At("idle") /\ mem # Nothing
    /\ runs < MaxRuns /\ runs' = runs + 1
    /\ mem' = Record([Reset(mem, Reopened(mem)) EXCEPT !.status = "in_progress",
                                                      !.outcome = "unknown"],
                     "transaction_started", 0)
    /\ engine' = [Idle EXCEPT !.pc = "saving", !.then = "choosing",
                             !.blocked = IF Resumed(mem) THEN BusinessFailed(mem) ELSE {}]
    /\ barred' = IF Resumed(mem) THEN barred ELSE {}
    /\ UNCHANGED disk

\* validate_for_execution refuses the transaction: nothing is checkpointed.
Reject ==
    /\ At("idle") /\ mem # Nothing
    /\ runs < MaxRuns /\ runs' = runs + 1
    /\ mem' = Record([mem EXCEPT !.status = "failed", !.outcome = "validation_failed"],
                     "transaction_completed", 0)
    /\ UNCHANGED <<disk, engine, barred>>

\* The checkpoint callback stores the transaction.
Save ==
    /\ At("saving")
    /\ disk' = Stored(mem)
    /\ engine' = IF engine.then = "idle" THEN Idle
                 ELSE [engine EXCEPT !.pc = engine.then, !.then = "idle"]
    /\ UNCHANGED <<mem, runs, barred>>

\* faulty: steps that are done are visited again
RunnableAny == {s \in Steps : s > engine.cursor /\ s \notin engine.blocked}
\* What is left of the current pass.
Runnable == {s \in Steps : /\ s > engine.cursor
                           /\ mem.steps[s].status \notin Done
                           /\ s \notin engine.blocked}

First(s, S) == s \in S /\ \A t \in S : s <= t

StartStep ==
    /\ At("choosing")
    /\ \E s \in Steps :
        /\ First(s, Runnable)
        /\ mem' = Mark(mem, s, "in_progress", "step_started")
        /\ engine' = SaveThen("executing", s)
    /\ UNCHANGED <<disk, runs, barred>>

\* The step returned: successful, or skipped by its own choice.
EndStep(ending) ==
    LET s == engine.cursor IN
    /\ At("executing")
    /\ ending \in CanEnd[s]
    /\ \/ ending = "ok" /\ mem' = Mark(mem, s, "successful", "step_succeeded")
       \/ ending = "skip" /\ mem' = Mark(mem, s, "skipped", "step_skipped")
    /\ engine' = SaveThen("choosing", s)
    /\ UNCHANGED <<disk, runs, barred>>

Raised(kind, halts) == [kind |-> kind, halts |-> halts, retry |-> mem.retries]
FailStep(exc) ==
    LET s == engine.cursor IN
    mem' = Mark([mem EXCEPT !.steps[s].excs = Append(@, exc)], s, "failed", "step_failed")

\* BusinessException: the step fails for good; later steps run unless it halts them.
BusinessFailure(halts) ==
    LET s == engine.cursor IN
    /\ At("executing")
    /\ (IF halts THEN "halt" ELSE "business") \in CanEnd[s]
    /\ FailStep(Raised("business", halts))
    /\ engine' = SaveThen(IF halts THEN "skipping" ELSE "choosing", s)
    /\ barred' = barred \cup {s}
    /\ UNCHANGED <<disk, runs>>

\* SystemException, or any other Exception wrapped as one: the pass is over.
SystemFailure ==
    /\ At("executing")
    /\ "system" \in CanEnd[engine.cursor]
    /\ FailStep(Raised("system", TRUE))
    /\ engine' = SaveThen("choosing", NumSteps)
    /\ UNCHANGED <<disk, runs, barred>>

\* MemoryError from the step: no exception is recorded.
StepInterrupted ==
    /\ At("executing")
    /\ "memory" \in CanEnd[engine.cursor]
    /\ mem' = Mark(mem, engine.cursor, "failed", "step_interrupted")
    /\ engine' = SaveThen("aborting", NumSteps)
    /\ UNCHANGED <<disk, runs, barred>>

Downstream == {s \in Steps : s > engine.cursor /\ mem.steps[s].status = "pending"}

\* After a halting failure: pending steps become skipped one by one, then one checkpoint.
SkipDownstream ==
    /\ At("skipping")
    /\ \/ /\ \E s \in Steps : /\ First(s, Downstream)
                              /\ mem' = Mark(mem, s, "skipped", "step_skipped")
          /\ UNCHANGED engine
       \/ /\ Downstream = {}
          /\ engine' = SaveThen("choosing", NumSteps)
          /\ UNCHANGED mem
    /\ UNCHANGED <<disk, runs, barred>>

\* The pass is over; a retry pass is checkpointed once more.
EndPass ==
    /\ At("choosing") /\ Runnable = {}
    /\ engine' = IF engine.retrying THEN SaveThen("passed", NumSteps)
                 ELSE [engine EXCEPT !.pc = "passed"]
    /\ UNCHANGED <<mem, disk, runs, barred>>

\* faulty: <= for <
MayRetryOnce(tx) == tx.retries <= MaxRetries /\ Retryable(tx) # {}
MayRetry(tx) == tx.retries < MaxRetries /\ Retryable(tx) # {}

\* RETRY_SCHEDULED is not checkpointed by itself.
RetryPass ==
    /\ At("passed") /\ MayRetry(mem)
    /\ mem' = Record([Reset(mem, Retryable(mem)) EXCEPT !.retries = @ + 1],
                     "retry_scheduled", 0)
    /\ engine' = [engine EXCEPT !.pc = "choosing", !.cursor = 0, !.retrying = TRUE,
                                !.blocked = BusinessFailed(mem)]
    /\ UNCHANGED <<disk, runs, barred>>

Complete ==
    /\ At("passed") /\ ~MayRetry(mem)
    /\ mem' = Settled(mem)
    /\ engine' = SaveThen("idle", NumSteps)
    /\ UNCHANGED <<disk, runs, barred>>

\* The MemoryError handler of run(): an ordinary error of its checkpoint is swallowed.
Abort ==
    /\ At("aborting")
    /\ mem' = Record([mem EXCEPT !.status = "failed", !.outcome = "interrupted"],
                     "transaction_completed", 0)
    /\ engine' = SaveThen("idle", NumSteps)
    /\ UNCHANGED <<disk, runs, barred>>

-----------------------------------------------------------------------------
(* What goes wrong around the steps                                          *)

\* The checkpoint, the transition sink or the step raises what run() does not catch.
Escape ==
    /\ \/ engine.pc \in {"saving", "skipping", "executing"}
       \/ At("choosing") /\ LastEvent(mem) = "retry_scheduled"
    /\ engine' = Idle
    /\ UNCHANGED <<mem, disk, runs, barred>>

\* A checkpoint or a sink inside run()'s try block raises MemoryError.
OutOfMemory ==
    /\ \/ engine.pc \in {"saving", "skipping"}
       \/ At("choosing") /\ LastEvent(mem) = "retry_scheduled"
    /\ LastEvent(mem) \notin {"transaction_started", "transaction_completed"}
    /\ engine' = [engine EXCEPT !.pc = "aborting", !.then = "idle"]
    /\ UNCHANGED <<mem, disk, runs, barred>>

\* The process dies.
Crash ==
    /\ mem # Nothing
    /\ mem' = Nothing
    /\ engine' = Idle
    /\ UNCHANGED <<disk, runs, barred>>

Next ==
    \/ Create \/ SavePrepared \/ \E again \in BOOLEAN : Resume(again)
    \/ StartRun \/ Reject \/ Save
    \/ StartStep \/ \E ending \in {"ok", "skip"} : EndStep(ending)
    \/ \E halts \in BOOLEAN : BusinessFailure(halts)
    \/ SystemFailure \/ StepInterrupted \/ SkipDownstream
    \/ EndPass \/ RetryPass \/ Complete \/ Abort
    \/ Escape \/ OutOfMemory \/ Crash

Spec == Init /\ [][Next]_vars

-----------------------------------------------------------------------------
(* Types                                                                     *)

Pcs == {"idle", "saving", "choosing", "executing", "skipping", "passed", "aborting"}
Control == [pc : Pcs, then : Pcs, cursor : Steps \cup {0},
            blocked : SUBSET Steps, retrying : BOOLEAN]

\* The type of every variable; a step body runs only while the object exists.
TypeOK ==
    /\ mem \in Transaction \cup {Nothing}
    /\ disk \in Transaction \cup {Nothing}
    /\ engine \in Control
    /\ runs \in Nat
    /\ barred \in SUBSET Steps
    /\ ~At("idle") => mem # Nothing
    /\ At("executing") \/ engine.then = "executing" => engine.cursor \in Steps

-----------------------------------------------------------------------------
(* Safety                                                                    *)

\* No step body runs before everything that led to it is durable: while a step executes,
\* the stored snapshot is the object itself, with the step in progress and its
\* STEP_STARTED entry last (engine.py: strict checkpoints of _execute_pass).
IntentIsDurable == At("executing") => disk = mem

\* The stored history is a prefix of the history of the object that goes on from it,
\* whatever checkpoints were lost and however often the transaction was resumed; this is
\* why INSERT OR IGNORE by sequence never drops or mixes entries.
DurableHistoryIsPrefix == mem # Nothing => IsPrefix(disk.history, mem.history)

\* A business failure is terminal: a step whose business failure was stored before a
\* resume, or happened in this run, and a step durably skipped because of one, is not
\* executed again unless the caller resumes with retry_business_failures or re-runs the
\* object itself.
BusinessFailureIsTerminal == At("executing") => engine.cursor \notin barred

Since(h, event) == {k \in DOMAIN h : \A j \in k..Len(h) : h[j].event # event}

\* One run executes a step at most max_retries + 1 times, whatever mixture of business,
\* system and memory failures its passes meet.
RetryWithinBudget ==
    \A s \in Steps :
        Cardinality({k \in Since(mem.history, "transaction_started") :
                        mem.history[k].event = "step_started" /\ mem.history[k].step = s})
            <= MaxRetries + 1

\* A stored verdict is true of the stored steps: success means that every step succeeded or
\* was skipped, a failure leaves a step that did not, and business_failed leaves a step
\* that failed for a business reason (a resumed snapshot is pending, not settled).
VerdictIsTrue ==
    LET done == {s \in Steps : disk.steps[s].status \in Done} IN
    /\ disk.status = "successful" => disk.outcome = "successful" /\ done = Steps
    /\ disk.status = "failed" /\ disk.outcome # "interrupted" => done # Steps
    /\ disk.status = "failed" /\ disk.outcome = "business_failed"
          => BusinessFailed(disk) # {}

\* Once the success of a step is stored it is never lost, so the step is never repeated.
SuccessIsKept ==
    [][\A s \in Steps : disk # Nothing /\ disk.steps[s].status = "successful"
          => disk'.steps[s].status = "successful"]_vars

-----------------------------------------------------------------------------
(* What the documentation says and the code does not do                      *)

\* docs/api.md: "a terminal business ... result is not_requested, and a system failure after
\* the Engine's configured retry budget is retry_exhausted": a transaction whose failed
\* steps all failed for business reasons is not reported as an exhausted system failure.
SystemFailureIsSystem ==
    disk.outcome = "system_failed" =>
        \E s \in Steps : disk.steps[s].status \notin Done /\ s \notin BusinessFailed(disk)

=============================================================================
