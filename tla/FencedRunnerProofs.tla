-------------------------- MODULE FencedRunnerProofs --------------------------
(***************************************************************************)
(* Proofs about FencedRunner, for every number of workers, steps, retries, *)
(* saves from outside and overrides.                                       *)
(*                                                                         *)
(* What a worker remembers is sound as long as three facts are known of it *)
(* (LocalInv): its transaction is the one the item is bound to; its        *)
(* revision is not ahead of the store, and if it is the stored one then so *)
(* is the snapshot it started from; and while it holds the claim its       *)
(* revision is the stored one.  The last fact needs that two workers never *)
(* hold one token, the second that every write adds one to the revision.   *)
(*                                                                         *)
(* StoredInv: what a worker is about to write goes on from what it read or *)
(* wrote last, so a verdict is never overwritten by unfinished work, and a *)
(* completion is confirmed only of a stored outcome.                       *)
(*                                                                         *)
(* RecordInv: a worker that may execute a step holds a ticket, the number  *)
(* of the stored start it goes on from.  Tickets are all different and an  *)
(* execution uses one up, so there are no more executions than starts.     *)
(*                                                                         *)
(* The promise: from RunnerInv, a step of the workers shows in the view of *)
(* RunnerPromise as one step of WorkQueue or not at all (PromiseStep).     *)
(***************************************************************************)
EXTENDS RunnerPromise, TransactionProofs, FiniteSetTheorems

-----------------------------------------------------------------------------
(* Moves of the engine keep the type of a transaction                        *)

\* A history entry after a change of the header.
LEMMA HeaderLemma ==
    ASSUME NEW tx \in Transaction, NEW outcome \in Outcomes,
           NEW status \in {"pending", "in_progress", "successful", "failed"},
           NEW event \in Events
    PROVE  Record([tx EXCEPT !.status = status, !.outcome = outcome], event, 0) \in Transaction
<1> DEFINE base == [tx EXCEPT !.status = status, !.outcome = outcome]
<1>1. base \in Transaction
  BY DEF Transaction
<1> HIDE DEF base
<1>2. Record(base, event, 0) \in Transaction
  BY <1>1, RecordLemma
<1> QED
  BY <1>2 DEF base

\* The start of a run.
LEMMA BegunType == ASSUME NEW tx \in Transaction PROVE Begun(tx) \in Transaction
<1>1. "unknown" \in Outcomes /\ "transaction_started" \in Events
  BY DEF Outcomes, Events
<1> QED
  BY <1>1, HeaderLemma DEF Begun

\* The verdict at its end.
LEMMA SettledType == ASSUME NEW tx \in Transaction PROVE Settled(tx) \in Transaction
<1> DEFINE outcome == IF \A s \in Steps : tx.steps[s].status \in Done THEN "successful"
                      ELSE IF TerminalKind(tx) = "business" THEN "business_failed"
                      ELSE "system_failed"
           status == IF outcome = "successful" THEN outcome ELSE "failed"
<1>1. /\ outcome \in Outcomes /\ "transaction_completed" \in Events
      /\ status \in {"pending", "in_progress", "successful", "failed"}
  BY DEF Outcomes, Events
<1>2. Settled(tx) = Record([tx EXCEPT !.outcome = outcome, !.status = status],
                           "transaction_completed", 0)
  BY DEF Settled
<1> HIDE DEF outcome, status
<1>3. [tx EXCEPT !.outcome = outcome, !.status = status]
        = [tx EXCEPT !.status = status, !.outcome = outcome]
  BY DEF Transaction
<1>4. Record([tx EXCEPT !.status = status, !.outcome = outcome],
             "transaction_completed", 0) \in Transaction
  BY <1>1, HeaderLemma
<1> QED
  BY <1>2, <1>3, <1>4

\* The end of a step.
LEMMA EndedType ==
    ASSUME NEW tx \in Transaction, NEW s \in Steps, NEW ending \in Endings
    PROVE  Ended(tx, s, ending) \in Transaction
<1>1. CASE ending \in {"ok", "skip"}
  <2>1. PICK status \in {"successful", "skipped"}, event \in {"step_succeeded", "step_skipped"} :
           Ended(tx, s, ending) = Mark(tx, s, status, event)
    BY <1>1 DEF Ended
  <2>2. status \in StepStatuses /\ event \in Events
    BY DEF StepStatuses, Events
  <2> QED
    BY <2>1, <2>2, MarkLemma
<1>2. CASE ending \in {"business", "system"}
  <2> DEFINE exc == [kind |-> ending, halts |-> ending = "system", retry |-> tx.retries]
             base == [tx EXCEPT !.steps[s].excs = Append(@, exc)]
  <2>1. exc \in Exc
    BY <1>2, TransactionParts DEF Exc
  <2>2. Ended(tx, s, ending) = Mark(base, s, "failed", "step_failed")
    BY <1>2 DEF Ended
  <2> HIDE DEF exc
  <2>3. base \in Transaction
    BY <2>1, ExcLemma
  <2>4. "failed" \in StepStatuses /\ "step_failed" \in Events
    BY DEF StepStatuses, Events
  <2> HIDE DEF base
  <2> QED
    BY <2>2, <2>3, <2>4, MarkLemma
<1> QED
  BY <1>1, <1>2 DEF Endings

\* Every move of the engine.
LEMMA MovesType ==
    ASSUME NEW tx \in Transaction, NEW new \in Moves(tx)
    PROVE  new \in Transaction
<1>1. DOMAIN tx.steps = Steps
  BY TransactionParts
<1>2. CASE tx.status = "pending"
  BY <1>2, BegunType DEF Moves
<1>3. CASE tx.status # "pending" /\ Executing(tx) # {}
  <2>1. PICK s \in Executing(tx) : \E ending \in CanEnd[s] : new = Ended(tx, s, ending)
    BY <1>3 DEF Moves
  <2>2. PICK ending \in CanEnd[s] : new = Ended(tx, s, ending)
    BY <2>1
  <2>3. s \in Steps /\ ending \in Endings
    BY <1>1, <2>1, RunnerAssumption DEF Executing
  <2> QED
    BY <2>2, <2>3, EndedType
<1>4. CASE tx.status # "pending" /\ Executing(tx) = {}
  <2>1. CASE Waiting(tx) = {} \/ Retryable(tx) # {}
    BY <1>4, <2>1, SettledType DEF Moves
  <2>2. CASE ~(Waiting(tx) = {} \/ Retryable(tx) # {})
    <3>1. PICK s \in Waiting(tx) : new = Mark(tx, s, "in_progress", "step_started")
      BY <1>4, <2>2 DEF Moves
    <3>2. s \in Steps
      BY <1>1 DEF Waiting
    <3>3. "in_progress" \in StepStatuses /\ "step_started" \in Events
      BY DEF StepStatuses, Events
    <3> QED
      BY <3>1, <3>2, <3>3, MarkLemma
  <2> QED
    BY <2>1, <2>2
<1> QED
  BY <1>2, <1>3, <1>4

-----------------------------------------------------------------------------
(* Writes                                                                    *)

\* The merge of two histories is a history.
LEMMA MergedType ==
    ASSUME NEW old \in Seq(Entry), NEW new \in Seq(Entry)
    PROVE  Merged(old, new) \in Seq(Entry)
<1> DEFINE n == Max({Len(old), Len(new)})
<1>1. n \in Nat /\ (n = Len(old) \/ n = Len(new))
  <2>1. Len(old) \in Nat /\ Len(new) \in Nat
    OBVIOUS
  <2>2. CASE Len(old) <= Len(new)
    BY <2>1, <2>2, MaxOfTwo
  <2>3. CASE Len(new) <= Len(old)
    <3>1. {Len(old), Len(new)} = {Len(new), Len(old)}
      OBVIOUS
    <3> QED
      BY <2>1, <2>3, <3>1, MaxOfTwo
  <2> QED
    BY <2>1, <2>2, <2>3
<1>2. Merged(old, new) = [k \in 1..n |-> IF k <= Len(old) THEN old[k] ELSE new[k]]
  BY DEF Merged
<1> HIDE DEF n
<1>3. \A k \in 1..n : (IF k <= Len(old) THEN old[k] ELSE new[k]) \in Entry
  BY <1>1
<1>4. Merged(old, new) \in [1..n -> Entry]
  BY <1>2, <1>3
<1> QED
  BY <1>1, <1>4

\* What a write does to the store.
LEMMA WrittenLemma ==
    ASSUME store \in [Ids -> Snapshot], NEW t \in Ids, NEW tx \in Transaction
    PROVE  /\ Written(t, tx) \in [Ids -> Snapshot]
           /\ Written(t, tx)[t].rev = store[t].rev + 1
           /\ Written(t, tx)[t].tx \in Transaction
           /\ \A u \in Ids \ {t} : Written(t, tx)[u] = store[u]
<1> DEFINE history == Merged(store[t].tx.history, tx.history)
           new == [tx EXCEPT !.history = history]
           row == [rev |-> store[t].rev + 1, tx |-> new]
<1>1. store[t].tx.history \in Seq(Entry)
  <2>1. CASE store[t].tx \in Transaction
    BY <2>1, TransactionParts
  <2>2. CASE store[t].tx = Nothing
    BY <2>2 DEF Nothing
  <2> QED
    BY <2>1, <2>2 DEF Snapshot
<1>2. history \in Seq(Entry)
  BY <1>1, MergedType, TransactionParts
<1> HIDE DEF history
<1>3. new \in Transaction
  BY <1>2 DEF Transaction
<1> HIDE DEF new
<1>4. row \in Snapshot /\ row.rev = store[t].rev + 1 /\ row.tx = new
  BY <1>3 DEF Snapshot
<1>5. Written(t, tx) = [store EXCEPT ![t] = row]
  BY DEF Written, new, history
<1> HIDE DEF row
<1> QED
  BY <1>3, <1>4, <1>5

-----------------------------------------------------------------------------
(* The inductive invariant                                                   *)

\* The item has a claim left whenever it can be claimed.
Budget ==
    /\ item.claims <= item.retries + 1
    /\ item.status = "pending" => item.claims <= item.retries
    /\ item.status \in {"pending", "in_progress"} => item.retries <= QueueRetries

Active == {"running", "moved", "saved", "returned"}

\* What a worker remembers, l, agrees with the item and the store.
LocalInv(l) ==
    /\ l.pc # "idle" => l.token \in 1..item.claims
    /\ l.tx # NoTransaction => l.tx = item.tx
    /\ l.pc = "claimed" => l.rev = 0 /\ l.base = Nothing
    /\ l.pc \in Active => l.tx # NoTransaction /\ l.mem \in Transaction
    /\ l.tx # NoTransaction =>
         /\ l.rev <= store[l.tx].rev
         /\ l.rev = store[l.tx].rev => l.base = store[l.tx].tx
    /\ /\ l.pc \in Active /\ manual.saves = 0
       /\ item.status = "in_progress" /\ item.token = l.token
       => l.rev = store[l.tx].rev

\* No two workers hold one token.
Distinct ==
    \A v, w \in Workers : v # w /\ ~At(v, "idle") /\ ~At(w, "idle")
                             => worker[v].token # worker[w].token

\* A transaction is in the store from revision 1 on.
StoreInv ==
    \A t \in Ids : \/ store[t] = Absent
                   \/ store[t].rev > 0 /\ store[t].tx \in Transaction

\* What someone outside has read belongs to the item.
ManualInv ==
    manual.tx # NoTransaction =>
        manual.tx = item.tx /\ manual.mem \in Transaction /\ manual.saves < MaxManual

RunnerInv ==
    /\ TypeOK
    /\ Budget
    /\ OneTransactionPerItem
    /\ StoreInv
    /\ ManualInv
    /\ Distinct
    /\ \A w \in Workers : LocalInv(worker[w])

\* The invariant implies the property of the same name of the holder.
LEMMA HolderLemma == RunnerInv => HolderIsCurrent
BY DEF RunnerInv, HolderIsCurrent, LocalInv, Owns, Active

\* The idle worker.
LEMMA IdleType == Idle \in Local /\ Idle.pc = "idle" /\ Idle.tx = NoTransaction
BY DEF Idle, Local, Pcs, NoClaim, NoTransaction

\* A worker moves on under its own token; nothing else changes.
LEMMA MoveInv ==
    ASSUME RunnerInv, NEW w \in Workers, UNCHANGED <<item, store, manual>>,
           bodies' \in [Steps -> Nat],
           worker' \in [Workers -> Local], \A v \in Workers \ {w} : worker'[v] = worker[v],
           \/ worker'[w].pc = "idle"
           \/ worker[w].pc # "idle" /\ worker'[w].token = worker[w].token,
           LocalInv(worker[w])'
    PROVE  RunnerInv'
<1>1. TypeOK' /\ Budget' /\ OneTransactionPerItem' /\ StoreInv' /\ ManualInv'
  BY DEF RunnerInv, TypeOK, Budget, OneTransactionPerItem, StoreInv, ManualInv
<1>2. Distinct'
  BY DEF RunnerInv, Distinct, At
<1>3. ASSUME NEW v \in Workers PROVE LocalInv(worker[v])'
  <2>1. CASE v = w
    BY <2>1
  <2>2. CASE v # w
    <3>1. LocalInv(worker[v]) /\ worker'[v] = worker[v]
      BY <2>2 DEF RunnerInv
    <3> QED
      BY <3>1 DEF LocalInv
  <2> QED
    BY <2>1, <2>2
<1> QED
  BY <1>1, <1>2, <1>3 DEF RunnerInv

\* A claim ends: the item leaves its holder; workers stay or stop.
LEMMA ReleaseInv ==
    ASSUME RunnerInv, UNCHANGED <<store, manual, bodies>>,
           item' \in Item, item'.claims = item.claims, item'.tx = item.tx,
           item'.status # "in_progress", Budget',
           worker' \in [Workers -> Local],
           \A v \in Workers : worker'[v] = worker[v] \/ worker'[v] = Idle
    PROVE  RunnerInv'
<1>1. TypeOK' /\ OneTransactionPerItem' /\ StoreInv' /\ ManualInv'
  BY DEF RunnerInv, TypeOK, OneTransactionPerItem, StoreInv, ManualInv
<1>2. Distinct'
  BY IdleType DEF RunnerInv, Distinct, At
<1>3. ASSUME NEW v \in Workers PROVE LocalInv(worker[v])'
  <2>1. CASE worker'[v] = worker[v]
    <3>1. LocalInv(worker[v])
      BY DEF RunnerInv
    <3> QED
      BY <2>1, <3>1 DEF LocalInv
  <2>2. CASE worker'[v] = Idle
    BY <2>2, IdleType DEF LocalInv, Active
  <2> QED
    BY <2>1, <2>2
<1> QED
  BY <1>1, <1>2, <1>3 DEF RunnerInv

\* The holder writes its transaction: other workers do not hold the claim, and fall behind.
LEMMA WriteInv ==
    ASSUME RunnerInv, NEW w \in Workers, NEW t \in Ids, NEW tx \in Transaction,
           ~At(w, "idle"), Fence(w, t),
           store' = Written(t, tx), item' = Bound(t), UNCHANGED <<manual, bodies>>,
           worker' \in [Workers -> Local], \A v \in Workers \ {w} : worker'[v] = worker[v],
           worker'[w].token = worker[w].token, LocalInv(worker[w])'
    PROVE  RunnerInv'
<1>1. /\ store' \in [Ids -> Snapshot]
      /\ store'[t].rev = store[t].rev + 1 /\ store'[t].tx \in Transaction
      /\ \A u \in Ids \ {t} : store'[u] = store[u]
      /\ store[t].rev \in Nat
  BY WrittenLemma DEF RunnerInv, TypeOK, Snapshot
<1>2. /\ item' \in Item /\ item'.tx = t /\ item'.status = item.status
      /\ item'.token = item.token /\ item'.claims = item.claims
      /\ item'.retries = item.retries /\ item.tx \in {NoTransaction, t}
  BY DEF Bound, RunnerInv, TypeOK, Item, Fence
<1>3. store'[t] # Absent
  BY <1>1 DEF Absent
<1>4. TypeOK'
  BY <1>1, <1>2 DEF RunnerInv, TypeOK
<1>5. Budget'
  BY <1>2 DEF RunnerInv, Budget
<1>6. OneTransactionPerItem'
  <2>1. \A u \in Ids \ {t} : store[u] = Absent
    BY <1>2 DEF RunnerInv, OneTransactionPerItem, Ids, NoTransaction
  <2> QED
    BY <1>1, <1>2, <1>3, <2>1 DEF OneTransactionPerItem
<1>7. StoreInv'
  <2>1. StoreInv
    BY DEF RunnerInv
  <2> QED
    BY <1>1, <2>1 DEF StoreInv
<1>8. ManualInv'
  BY <1>2 DEF RunnerInv, ManualInv
<1>9. Distinct'
  BY DEF RunnerInv, Distinct, At
<1>10. ASSUME NEW v \in Workers PROVE LocalInv(worker[v])'
  <2>1. CASE v = w
    BY <2>1
  <2>2. CASE v # w
    <3>1. LocalInv(worker[v]) /\ worker'[v] = worker[v] /\ worker[v] \in Local
      BY <2>2 DEF RunnerInv, TypeOK
    <3>2. worker[v].pc # "idle" => worker[v].token # item.token
      BY <2>2 DEF RunnerInv, Distinct, At, Fence, Owns
    <3>3. worker[v].tx # NoTransaction => worker[v].tx = t
      BY <1>2, <3>1 DEF LocalInv
    <3>4. worker[v].tx # NoTransaction => worker[v].rev < store'[worker[v].tx].rev
      BY <1>1, <3>1, <3>3 DEF LocalInv, Local
    <3>5. worker[v].rev \in Nat /\ store'[t].rev \in Nat
      BY <1>1, <3>1 DEF Local
    <3> QED
      BY <1>2, <3>1, <3>2, <3>3, <3>4, <3>5 DEF LocalInv, Active
  <2> QED
    BY <2>1, <2>2
<1> QED
  BY <1>4, <1>5, <1>6, <1>7, <1>8, <1>9, <1>10 DEF RunnerInv

-----------------------------------------------------------------------------
(* Every step keeps the invariant                                            *)

\* The start.
LEMMA InitInv == Init => RunnerInv
<1> SUFFICES ASSUME Init PROVE RunnerInv
  OBVIOUS
<1>1. /\ item \in Item /\ item.claims = 0 /\ item.retries = 0 /\ item.tx = NoTransaction
      /\ item.status = "pending"
  BY DEF Init, Item, NoClaim, NoTransaction
<1>2. store \in [Ids -> Snapshot] /\ \A t \in Ids : store[t] = Absent
  BY DEF Init, Snapshot, Absent
<1>3. worker \in [Workers -> Local] /\ \A w \in Workers : worker[w] = Idle
  BY IdleType DEF Init
<1>4. manual.tx = NoTransaction /\ bodies \in [Steps -> Nat]
      /\ manual \in [tx : Ids \cup {NoTransaction}, mem : Transaction \cup {Nothing},
                     saves : 0..MaxManual]
  BY RunnerAssumption DEF Init, Outside
<1>5. TypeOK
  BY <1>1, <1>2, <1>3, <1>4, RunnerAssumption DEF TypeOK
<1>6. Budget /\ OneTransactionPerItem /\ StoreInv /\ ManualInv
  BY <1>1, <1>2, <1>4, RunnerAssumption
     DEF Budget, OneTransactionPerItem, StoreInv, ManualInv, Ids, NoTransaction
<1>7. Distinct /\ \A w \in Workers : LocalInv(worker[w])
  BY <1>3, IdleType DEF Distinct, LocalInv, Active, At
<1> QED
  BY <1>5, <1>6, <1>7 DEF RunnerInv

\* A new claim gets a token nobody has.
LEMMA ClaimInv == ASSUME RunnerInv, NEW w \in Workers, Claim(w) PROVE RunnerInv'
<1> DEFINE token == item.claims + 1
           l == [Idle EXCEPT !.pc = "claimed", !.token = token, !.tx = item.tx]
<1>1. /\ item.status = "pending" /\ item \in Item /\ item.claims \in Nat
      /\ item' = [item EXCEPT !.status = "in_progress", !.token = token, !.claims = token]
      /\ worker' = [worker EXCEPT ![w] = l]
      /\ UNCHANGED <<store, manual, bodies>>
      /\ item.tx \in Ids \cup {NoTransaction} /\ item.retries \in Nat
  BY DEF Claim, RunnerInv, TypeOK, Item
<1>2. /\ item' \in Item /\ item'.claims = token /\ item'.tx = item.tx /\ token \in Nat
      /\ item'.retries = item.retries /\ item'.status = "in_progress"
  <2>1. token \in Nat
    BY <1>1
  <2> HIDE DEF l, token
  <2> QED
    BY <1>1, <2>1 DEF Item
<1>3. /\ l \in Local /\ l.pc = "claimed" /\ l.token = token /\ l.tx = item.tx
      /\ l.rev = 0 /\ l.base = Nothing
  <2>1. "claimed" \in Pcs /\ Idle \in Local /\ Idle.rev = 0 /\ Idle.base = Nothing
    BY IdleType DEF Idle, Pcs
  <2> HIDE DEF token
  <2> QED
    BY <1>1, <1>2, <2>1 DEF Local
<1>4. /\ worker' \in [Workers -> Local] /\ worker'[w] = l
      /\ \A v \in Workers \ {w} : worker'[v] = worker[v]
  BY <1>1, <1>3 DEF RunnerInv, TypeOK
<1> HIDE DEF l
<1>5. Budget' /\ item'.claims <= QueueRetries + 1
  <2>1. /\ item.status = "pending" /\ item.claims \in Nat /\ item.retries \in Nat
        /\ QueueRetries \in Nat
    BY <1>1, RunnerAssumption
  <2>2. item.claims <= item.retries /\ item.retries <= QueueRetries
    BY <2>1 DEF RunnerInv, Budget
  <2> QED
    BY <1>2, <2>1, <2>2 DEF Budget
<1>6. TypeOK'
  BY <1>1, <1>2, <1>4, <1>5 DEF RunnerInv, TypeOK
<1>7. OneTransactionPerItem' /\ StoreInv' /\ ManualInv'
  BY <1>1, <1>2 DEF RunnerInv, OneTransactionPerItem, StoreInv, ManualInv
<1>8. \A v \in Workers : worker[v].pc # "idle" => worker[v].token \in 1..item.claims
  BY DEF RunnerInv, LocalInv
<1>9. Distinct'
  BY <1>1, <1>3, <1>4, <1>8 DEF RunnerInv, Distinct, At
<1>10. ASSUME NEW v \in Workers PROVE LocalInv(worker[v])'
  <2>1. CASE v = w
    <3>1. item.tx # NoTransaction => store[item.tx].rev > 0 /\ store[item.tx].rev \in Nat
      <4>1. item.tx # NoTransaction => item.tx \in Ids /\ store[item.tx] # Absent
        BY <1>1 DEF RunnerInv, OneTransactionPerItem
      <4> QED
        BY <4>1 DEF RunnerInv, StoreInv, TypeOK, Snapshot
    <3> QED
      BY <1>1, <1>2, <1>3, <1>4, <2>1, <3>1 DEF LocalInv, Active
  <2>2. CASE v # w
    <3>1. LocalInv(worker[v]) /\ worker'[v] = worker[v] /\ worker[v] \in Local
      BY <1>4, <2>2 DEF RunnerInv, TypeOK
    <3>2. worker[v].pc # "idle" => worker[v].token # token
      BY <1>1, <1>8
    <3>3. item'.token = token
      BY <1>1 DEF Item
    <3> QED
      BY <1>1, <1>2, <3>1, <3>2, <3>3 DEF LocalInv, Active
  <2> QED
    BY <2>1, <2>2
<1> QED
  BY <1>5, <1>6, <1>7, <1>9, <1>10 DEF RunnerInv

\* Facts about a worker that holds, or once held, a claim.
LEMMA WorkerFacts ==
    ASSUME RunnerInv, NEW w \in Workers, ~At(w, "idle")
    PROVE  /\ worker \in [Workers -> Local] /\ worker[w] \in Local /\ LocalInv(worker[w])
           /\ worker[w].token \in Ids
           /\ worker[w].tx \in Ids \cup {NoTransaction}
           /\ worker[w].pc \in Active => worker[w].tx \in Ids /\ worker[w].mem \in Transaction
<1>1. /\ worker \in [Workers -> Local] /\ worker[w] \in Local /\ LocalInv(worker[w])
      /\ item.claims <= QueueRetries + 1 /\ item.claims \in Nat
  BY DEF RunnerInv, TypeOK, Item
<1>2. worker[w].token \in Ids
  BY <1>1, RunnerAssumption DEF LocalInv, Ids, At
<1> QED
  BY <1>1, <1>2 DEF LocalInv, Local

\* What giving up does to the worker.
LEMMA GiveUpLemma ==
    ASSUME RunnerInv, NEW w \in Workers, ~At(w, "idle"),
           NEW err \in {"lost", "renewal", "retry", "final"}, GiveUp(w, err)
    PROVE  /\ worker' \in [Workers -> Local]
           /\ \A v \in Workers \ {w} : worker'[v] = worker[v]
           /\ worker'[w].pc = "ending" /\ worker'[w].token = worker[w].token
           /\ worker'[w].tx = worker[w].tx /\ worker'[w].rev = worker[w].rev
           /\ worker'[w].base = worker[w].base
<1>1. "ending" \in Pcs
  BY DEF Pcs
<1> QED
  BY <1>1, WorkerFacts DEF GiveUp, Local

\* Giving up without a write.
LEMMA GiveUpInv ==
    ASSUME RunnerInv, NEW w \in Workers, ~At(w, "idle"),
           NEW err \in {"lost", "renewal", "retry", "final"}, GiveUp(w, err),
           UNCHANGED <<item, store, manual, bodies>>
    PROVE  RunnerInv'
<1>1. LocalInv(worker[w]) /\ worker[w] \in Local
  BY WorkerFacts
<1>2. LocalInv(worker[w])'
  BY <1>1, GiveUpLemma DEF LocalInv, Active, At
<1>3. bodies' \in [Steps -> Nat]
  BY DEF RunnerInv, TypeOK
<1> QED
  BY <1>2, <1>3, GiveUpLemma, MoveInv DEF At

\* Giving up after a write that was committed.
LEMMA GiveUpWriteInv ==
    ASSUME RunnerInv, NEW w \in Workers, ~At(w, "idle"),
           NEW err \in {"lost", "renewal", "retry", "final"}, GiveUp(w, err),
           NEW t \in Ids, NEW tx \in Transaction, Fence(w, t),
           worker[w].tx \in {NoTransaction, t},
           store' = Written(t, tx), item' = Bound(t), UNCHANGED <<manual, bodies>>
    PROVE  RunnerInv'
<1>1. LocalInv(worker[w]) /\ worker[w] \in Local
  BY WorkerFacts
<1>2. /\ store'[t].rev = store[t].rev + 1 /\ store[t].rev \in Nat
      /\ item'.tx = t /\ item'.claims = item.claims
  <2>1. item \in Item /\ store \in [Ids -> Snapshot]
    BY DEF RunnerInv, TypeOK
  <2> QED
    BY <2>1, WrittenLemma DEF Bound, Item, Snapshot
<1>3. worker[w].rev = store[t].rev
  BY DEF Fence
<1>4. LocalInv(worker[w])'
  BY <1>1, <1>2, <1>3, GiveUpLemma DEF LocalInv, Active, At
<1> QED
  BY <1>4, GiveUpLemma, WriteInv

\* An item bound to the transaction already is left as it is.
LEMMA BoundSame == ASSUME RunnerInv, NEW t \in Ids, item.tx = t PROVE Bound(t) = item
BY DEF Bound, RunnerInv, TypeOK, Item

\* The initial save.
LEMMA BindInv == ASSUME RunnerInv, NEW w \in Workers, Bind(w) PROVE RunnerInv'
<1> DEFINE t == worker[w].token
<1>1. /\ At(w, "claimed") /\ ~At(w, "idle") /\ worker[w].tx = NoTransaction
      /\ UNCHANGED <<manual, bodies>>
  BY DEF Bind, At
<1>2. t \in Ids /\ worker[w] \in Local /\ LocalInv(worker[w]) /\ worker \in [Workers -> Local]
  BY <1>1, WorkerFacts
<1>3. CASE Fence(w, t)
  <2>1. /\ store' = Written(t, Fresh) /\ item' = Bound(t)
        /\ worker' = [worker EXCEPT ![w] = [@ EXCEPT !.pc = "running", !.tx = t, !.rev = 1,
                                                     !.mem = Fresh, !.base = store'[t].tx]]
    BY <1>3 DEF Bind
  <2>2. /\ store'[t].rev = store[t].rev + 1 /\ store'[t].tx \in Transaction
        /\ item'.tx = t /\ item'.claims = item.claims
    <3>1. item \in Item /\ store \in [Ids -> Snapshot]
      BY DEF RunnerInv, TypeOK
    <3> QED
      BY <1>2, <2>1, <3>1, WrittenLemma, FreshType DEF Bound, Item
  <2>3. store[t].rev = 0
    BY <1>1, <1>2, <1>3 DEF Fence, LocalInv, At
  <2>4. /\ worker' \in [Workers -> Local] /\ \A v \in Workers \ {w} : worker'[v] = worker[v]
        /\ worker'[w].pc = "running" /\ worker'[w].tx = t /\ worker'[w].rev = 1
        /\ worker'[w].mem = Fresh /\ worker'[w].base = store'[t].tx
        /\ worker'[w].token = worker[w].token
    <3>1. "running" \in Pcs
      BY DEF Pcs
    <3> QED
      BY <1>2, <2>1, <2>2, <3>1, FreshType DEF Local
  <2>5. LocalInv(worker[w])'
    BY <1>1, <1>2, <2>2, <2>3, <2>4, FreshType DEF LocalInv, At, Ids, NoTransaction
  <2> QED
    BY <1>1, <1>2, <1>3, <2>1, <2>4, <2>5, FreshType, WriteInv
<1>4. CASE ~Fence(w, t)
  <2>1. GiveUp(w, "lost") /\ UNCHANGED <<item, store>>
    BY <1>4 DEF Bind
  <2> QED
    BY <1>1, <2>1, GiveUpInv
<1> QED
  BY <1>3, <1>4

\* The initial save fails.
LEMMA BindFailsInv ==
    ASSUME RunnerInv, NEW w \in Workers, NEW done \in BOOLEAN, BindFails(w, done)
    PROVE  RunnerInv'
<1>1. /\ ~At(w, "idle") /\ worker[w].tx = NoTransaction /\ GiveUp(w, "retry")
      /\ UNCHANGED <<manual, bodies>>
  BY DEF BindFails, At
<1>2. CASE done
  <2>1. /\ Fence(w, worker[w].token) /\ item' = Bound(worker[w].token)
        /\ store' = Written(worker[w].token, Fresh)
    BY <1>2 DEF BindFails
  <2>2. worker[w].token \in Ids
    BY <1>1, WorkerFacts
  <2> QED
    BY <1>1, <2>1, <2>2, FreshType, GiveUpWriteInv
<1>3. CASE ~done
  <2>1. UNCHANGED <<item, store>>
    BY <1>3 DEF BindFails
  <2> QED
    BY <1>1, <2>1, GiveUpInv
<1> QED
  BY <1>2, <1>3

\* A bound transaction is in the store.
LEMMA BoundIsStored ==
    ASSUME RunnerInv, item.tx # NoTransaction
    PROVE  item.tx \in Ids /\ store[item.tx].tx \in Transaction /\ store[item.tx].rev \in Nat
<1>1. item.tx \in Ids /\ store[item.tx] # Absent
  BY DEF RunnerInv, TypeOK, Item, OneTransactionPerItem
<1> QED
  BY <1>1 DEF RunnerInv, StoreInv, TypeOK, Snapshot

\* The recovery of a bound transaction.
LEMMA LoadInv == ASSUME RunnerInv, NEW w \in Workers, Load(w) PROVE RunnerInv'
<1> DEFINE t == worker[w].tx
           tx == Prepared(store[t].tx, RetryBusiness)
<1>1. /\ At(w, "claimed") /\ ~At(w, "idle") /\ t # NoTransaction
      /\ UNCHANGED <<item, store, manual, bodies>>
  BY DEF Load, At
<1>2. PICK pc \in {"running", "returned"} :
         worker' = [worker EXCEPT ![w] = [@ EXCEPT !.pc = pc, !.rev = store[t].rev, !.mem = tx,
                                                   !.base = store[t].tx]]
  BY DEF Load
<1>3. worker[w] \in Local /\ LocalInv(worker[w]) /\ worker \in [Workers -> Local]
  BY <1>1, WorkerFacts
<1>4. t = item.tx /\ store[t].tx \in Transaction /\ store[t].rev \in Nat
  BY <1>1, <1>3, BoundIsStored DEF LocalInv
<1>5. tx \in Transaction
  BY <1>4, PreparedLemma, RunnerAssumption
<1> HIDE DEF tx
<1>6. /\ worker' \in [Workers -> Local] /\ \A v \in Workers \ {w} : worker'[v] = worker[v]
      /\ worker'[w].pc = pc /\ worker'[w].tx = t /\ worker'[w].rev = store[t].rev
      /\ worker'[w].mem = tx /\ worker'[w].base = store[t].tx
      /\ worker'[w].token = worker[w].token
  <2>1. pc \in Pcs
    BY DEF Pcs
  <2> QED
    BY <1>2, <1>3, <1>4, <1>5, <2>1 DEF Local
<1>7. LocalInv(worker[w])'
  BY <1>1, <1>3, <1>4, <1>5, <1>6 DEF LocalInv, At
<1>8. bodies' \in [Steps -> Nat]
  BY <1>1 DEF RunnerInv, TypeOK
<1> QED
  BY <1>1, <1>6, <1>7, <1>8, MoveInv DEF At

\* A worker that changes where it is, or its transaction, by one move of the engine.
LEMMA PassInv ==
    ASSUME RunnerInv, NEW w \in Workers, worker[w].pc \in Active,
           UNCHANGED <<item, store, manual>>, bodies' \in [Steps -> Nat],
           NEW pc \in Active, NEW mem \in Transaction,
           worker' = [worker EXCEPT ![w] = [@ EXCEPT !.pc = pc, !.mem = mem]]
    PROVE  RunnerInv'
<1>1. ~At(w, "idle")
  BY DEF Active, At
<1>2. worker[w] \in Local /\ LocalInv(worker[w]) /\ worker \in [Workers -> Local]
  BY <1>1, WorkerFacts
<1>3. /\ worker' \in [Workers -> Local] /\ \A v \in Workers \ {w} : worker'[v] = worker[v]
      /\ worker'[w].pc = pc /\ worker'[w].tx = worker[w].tx
      /\ worker'[w].rev = worker[w].rev /\ worker'[w].mem = mem
      /\ worker'[w].base = worker[w].base /\ worker'[w].token = worker[w].token
  <2>1. pc \in Pcs
    BY DEF Pcs, Active
  <2> QED
    BY <1>2, <2>1 DEF Local
<1>4. LocalInv(worker[w])'
  BY <1>2, <1>3 DEF LocalInv, Active
<1> QED
  BY <1>1, <1>3, <1>4, MoveInv DEF At

\* engine.run: the next move.
LEMMA AdvanceInv == ASSUME RunnerInv, NEW w \in Workers, Advance(w) PROVE RunnerInv'
<1>1. At(w, "running") /\ UNCHANGED <<item, store, manual, bodies>>
  BY DEF Advance
<1>2. PICK mem \in Moves(worker[w].mem) :
         worker' = [worker EXCEPT ![w] = [@ EXCEPT !.pc = "moved", !.mem = mem]]
  BY DEF Advance
<1>3. mem \in Transaction
  BY <1>1, MovesType, WorkerFacts DEF At, Active
<1>4. bodies' \in [Steps -> Nat]
  BY <1>1 DEF RunnerInv, TypeOK
<1>5. "moved" \in Active /\ worker[w].pc \in Active
  BY <1>1 DEF Active, At
<1> QED
  BY <1>1, <1>2, <1>3, <1>4, <1>5, PassInv

\* The engine goes on after a checkpoint.
LEMMA ContinueInv == ASSUME RunnerInv, NEW w \in Workers, Continue(w) PROVE RunnerInv'
<1>1. /\ At(w, "saved") /\ UNCHANGED <<item, store, manual>>
      /\ \E pc \in {"running", "returned"} : Goto(w, pc)
      /\ bodies' = [s \in Steps |-> IF s \in Executing(worker[w].mem)
                                    THEN bodies[s] + 1 ELSE bodies[s]]
  BY DEF Continue
<1>2. PICK pc \in {"running", "returned"} : worker' = [worker EXCEPT ![w].pc = pc]
  BY <1>1 DEF Goto
<1>3. worker[w].mem \in Transaction /\ worker \in [Workers -> Local]
  BY <1>1, WorkerFacts DEF At, Active
<1>4. worker' = [worker EXCEPT ![w] = [@ EXCEPT !.pc = pc, !.mem = worker[w].mem]]
  BY <1>2, <1>3 DEF Local
<1>5. bodies' \in [Steps -> Nat]
  BY <1>1 DEF RunnerInv, TypeOK
<1>6. pc \in Active /\ worker[w].pc \in Active
  BY <1>1 DEF Active, At
<1> QED
  BY <1>1, <1>3, <1>4, <1>5, <1>6, PassInv

\* The checkpoint.
LEMMA SaveInv == ASSUME RunnerInv, NEW w \in Workers, Save(w) PROVE RunnerInv'
<1> DEFINE t == worker[w].tx
           mem == worker[w].mem
<1>1. /\ At(w, "moved") /\ ~At(w, "idle") /\ worker[w].pc \in Active
      /\ UNCHANGED <<item, manual, bodies>>
  BY DEF Save, At, Active
<1>2. /\ t \in Ids /\ mem \in Transaction
      /\ worker[w] \in Local /\ LocalInv(worker[w]) /\ worker \in [Workers -> Local]
  BY <1>1, WorkerFacts
<1>3. CASE Fence(w, t)
  <2>1. /\ store' = Written(t, mem)
        /\ worker' = [worker EXCEPT ![w] = [@ EXCEPT !.pc = "saved", !.rev = store'[t].rev,
                                                     !.base = store'[t].tx]]
    BY <1>3 DEF Save
  <2>2. item.tx = t
    BY <1>1, <1>2 DEF LocalInv
  <2>3. item' = Bound(t)
    BY <1>1, <1>2, <2>2, BoundSame
  <2>4. /\ store'[t].rev = store[t].rev + 1 /\ store'[t].tx \in Transaction
        /\ store[t].rev \in Nat
    <3>1. store \in [Ids -> Snapshot]
      BY DEF RunnerInv, TypeOK
    <3> QED
      BY <1>2, <2>1, <3>1, WrittenLemma DEF Snapshot
  <2>5. worker[w].rev = store[t].rev
    BY <1>3 DEF Fence
  <2>6. /\ worker' \in [Workers -> Local] /\ \A v \in Workers \ {w} : worker'[v] = worker[v]
        /\ worker'[w].pc = "saved" /\ worker'[w].tx = t /\ worker'[w].rev = store'[t].rev
        /\ worker'[w].mem = mem /\ worker'[w].base = store'[t].tx
        /\ worker'[w].token = worker[w].token
    <3>1. "saved" \in Pcs /\ store'[t].rev \in Nat
      BY <2>4 DEF Pcs
    <3>2. worker' = [worker EXCEPT ![w] = [@ EXCEPT !.pc = "saved", !.rev = store'[t].rev,
                                                    !.base = store'[t].tx]]
      BY <2>1
    <3> QED
      BY <1>2, <2>4, <3>1, <3>2 DEF Local
  <2>7. worker[w].rev \in Nat
    BY <1>2 DEF Local
  <2>8. LocalInv(worker[w])'
    BY <1>1, <1>2, <2>2, <2>4, <2>5, <2>6, <2>7 DEF LocalInv, At, Active
  <2> QED
    BY <1>1, <1>2, <1>3, <2>1, <2>3, <2>6, <2>8, WriteInv
<1>4. CASE ~Fence(w, t)
  <2>1. GiveUp(w, "lost") /\ UNCHANGED store
    BY <1>4 DEF Save
  <2> QED
    BY <1>1, <2>1, GiveUpInv
<1> QED
  BY <1>3, <1>4

\* The checkpoint fails.
LEMMA SaveFailsInv ==
    ASSUME RunnerInv, NEW w \in Workers, NEW done \in BOOLEAN, SaveFails(w, done)
    PROVE  RunnerInv'
<1> DEFINE t == worker[w].tx
           mem == worker[w].mem
<1>1. /\ ~At(w, "idle") /\ worker[w].pc \in Active /\ UNCHANGED <<item, manual, bodies>>
      /\ \E err \in {"retry", "final"} : GiveUp(w, err)
      /\ done => Fence(w, t)
      /\ store' = IF done THEN Written(t, mem) ELSE store
  BY DEF SaveFails, At, Active
<1>2. PICK err \in {"retry", "final"} : GiveUp(w, err)
  BY <1>1
<1>3. t \in Ids /\ mem \in Transaction /\ LocalInv(worker[w])
  BY <1>1, WorkerFacts
<1>4. item' = Bound(t)
  <2>1. item.tx = t
    BY <1>1, <1>3 DEF LocalInv
  <2> QED
    BY <1>1, <1>3, <2>1, BoundSame
<1>5. CASE done
  BY <1>1, <1>2, <1>3, <1>4, <1>5, GiveUpWriteInv
<1>6. CASE ~done
  BY <1>1, <1>2, <1>6, GiveUpInv
<1> QED
  BY <1>5, <1>6

\* The outcome of a run is taken.
LEMMA ReturnInv == ASSUME RunnerInv, NEW w \in Workers, Return(w) PROVE RunnerInv'
<1>1. /\ ~At(w, "idle") /\ UNCHANGED <<item, store, manual, bodies>>
      /\ worker' = [worker EXCEPT ![w] = [@ EXCEPT !.pc = "ending",
                                                   !.intended = Succeeded(worker[w].mem)]]
  BY DEF Return, At
<1>2. worker[w] \in Local /\ LocalInv(worker[w]) /\ worker \in [Workers -> Local]
  BY <1>1, WorkerFacts
<1>3. /\ worker' \in [Workers -> Local] /\ \A v \in Workers \ {w} : worker'[v] = worker[v]
      /\ worker'[w].pc = "ending" /\ worker'[w].tx = worker[w].tx
      /\ worker'[w].rev = worker[w].rev /\ worker'[w].base = worker[w].base
      /\ worker'[w].token = worker[w].token
  <2>1. "ending" \in Pcs /\ Succeeded(worker[w].mem) \in BOOLEAN
    BY DEF Pcs, Succeeded
  <2> HIDE DEF Succeeded
  <2> QED
    BY <1>1, <1>2, <2>1 DEF Local
<1>4. LocalInv(worker[w])'
  BY <1>1, <1>2, <1>3 DEF LocalInv, Active, At
<1>5. bodies' \in [Steps -> Nat]
  BY <1>1 DEF RunnerInv, TypeOK
<1> QED
  BY <1>1, <1>3, <1>4, <1>5, MoveInv DEF At

\* The heartbeat ends.
LEMMA HeartbeatInv == ASSUME RunnerInv, NEW w \in Workers, HeartbeatFails(w) PROVE RunnerInv'
<1>1. ~At(w, "idle") /\ UNCHANGED <<item, store, manual, bodies>>
  BY DEF HeartbeatFails
<1>2. PICK heartbeat \in {"lost", "broken"} :
         worker' = [worker EXCEPT ![w].heartbeat = heartbeat]
  BY DEF HeartbeatFails
<1>3. worker[w] \in Local /\ LocalInv(worker[w]) /\ worker \in [Workers -> Local]
  BY <1>1, WorkerFacts
<1>4. /\ worker' \in [Workers -> Local] /\ \A v \in Workers \ {w} : worker'[v] = worker[v]
      /\ worker'[w].pc = worker[w].pc /\ worker'[w].tx = worker[w].tx
      /\ worker'[w].rev = worker[w].rev /\ worker'[w].base = worker[w].base
      /\ worker'[w].mem = worker[w].mem /\ worker'[w].token = worker[w].token
  BY <1>2, <1>3 DEF Local
<1>5. LocalInv(worker[w])'
  BY <1>1, <1>3, <1>4 DEF LocalInv
<1>6. bodies' \in [Steps -> Nat]
  BY <1>1 DEF RunnerInv, TypeOK
<1> QED
  BY <1>1, <1>4, <1>5, <1>6, MoveInv DEF At

\* The process dies.
LEMMA CrashInv == ASSUME RunnerInv, NEW w \in Workers, Crash(w) PROVE RunnerInv'
<1>1. worker' = [worker EXCEPT ![w] = Idle] /\ UNCHANGED <<item, store, manual, bodies>>
  BY DEF Crash, Stop
<1>2. /\ worker' \in [Workers -> Local] /\ \A v \in Workers \ {w} : worker'[v] = worker[v]
      /\ worker'[w] = Idle
  BY <1>1, IdleType DEF RunnerInv, TypeOK
<1>3. LocalInv(worker[w])'
  BY <1>2, IdleType DEF LocalInv, Active
<1>4. bodies' \in [Steps -> Nat]
  BY <1>1 DEF RunnerInv, TypeOK
<1> QED
  BY <1>1, <1>2, <1>3, <1>4, IdleType, MoveInv

-----------------------------------------------------------------------------
(* Steps that end a claim                                                    *)

\* A returned item may be claimed again only while the budget lasts.
LEMMA ReturnedLemma ==
    ASSUME RunnerInv, NEW retry \in BOOLEAN
    PROVE  LET r == Returned(item, retry) IN
           /\ r \in Item /\ r.claims = item.claims /\ r.tx = item.tx
           /\ r.status \in {"pending", "failed"}
           /\ r.status = "pending" => r.retries <= QueueRetries
           /\ r.retries = item.retries + 1 /\ r.forced = item.forced
           /\ r.claims <= r.retries
<1> DEFINE r == Returned(item, retry)
           status == IF retry /\ item.retries < QueueRetries THEN "pending" ELSE "failed"
           retries == item.retries + 1
<1>1. item \in Item /\ item.retries \in Nat /\ item.claims \in Nat /\ QueueRetries \in Nat
  BY RunnerAssumption DEF RunnerInv, TypeOK, Item
<1>2. /\ retries \in Nat /\ status \in {"pending", "failed"}
      /\ status = "pending" => retries <= QueueRetries
      /\ item.claims <= retries
  BY <1>1 DEF RunnerInv, Budget
<1>3. r = [item EXCEPT !.status = status, !.token = NoClaim, !.retries = retries]
  BY DEF Returned
<1> HIDE DEF status, retries, r
<1>4. r \in Item /\ r.claims = item.claims /\ r.tx = item.tx /\ r.status = status
      /\ r.retries = retries /\ r.forced = item.forced
  BY <1>1, <1>2, <1>3 DEF Item, NoClaim
<1> QED
  BY <1>2, <1>4 DEF retries, r

\* Reclaim.
LEMMA ExpireInv == ASSUME RunnerInv, Expire PROVE RunnerInv'
<1>1. item' = Returned(item, TRUE) /\ UNCHANGED <<store, worker, manual, bodies>>
  BY DEF Expire
<1>2. worker' \in [Workers -> Local]
  BY <1>1 DEF RunnerInv, TypeOK
<1>3. /\ item' \in Item /\ item'.claims = item.claims /\ item'.tx = item.tx
      /\ item'.status \in {"pending", "failed"}
      /\ item'.status = "pending" => item'.retries <= QueueRetries
      /\ item'.claims <= item'.retries
  BY <1>1, ReturnedLemma
<1>4. Budget'
  BY <1>3 DEF Budget, Item
<1> QED
  BY <1>1, <1>2, <1>3, <1>4, ReleaseInv

\* An item that is set to successful.
LEMMA SucceededBudget ==
    ASSUME RunnerInv, NEW forced \in Nat,
           item' = [item EXCEPT !.status = "successful", !.token = NoClaim, !.forced = forced]
    PROVE  /\ item' \in Item /\ item'.claims = item.claims /\ item'.tx = item.tx
           /\ item'.status # "in_progress" /\ Budget'
<1>1. item \in Item
  BY DEF RunnerInv, TypeOK
<1>2. /\ item' \in Item /\ item'.claims = item.claims /\ item'.tx = item.tx
      /\ item'.status = "successful" /\ item'.retries = item.retries
  BY <1>1 DEF Item, NoClaim
<1> QED
  BY <1>2 DEF RunnerInv, Budget

\* The final transition.
LEMMA CloseInv == ASSUME RunnerInv, NEW w \in Workers, Close(w) PROVE RunnerInv'
<1>1. worker' = [worker EXCEPT ![w] = Idle] /\ UNCHANGED <<store, manual, bodies>>
  BY DEF Close, Stop
<1>2. /\ worker' \in [Workers -> Local] /\ \A v \in Workers \ {w} : worker'[v] = worker[v]
      /\ worker'[w] = Idle
  BY <1>1, IdleType DEF RunnerInv, TypeOK
<1>3. CASE UNCHANGED item
  <2>1. bodies' \in [Steps -> Nat] /\ LocalInv(worker[w])'
    BY <1>1, <1>2, IdleType DEF RunnerInv, TypeOK, LocalInv, Active
  <2> QED
    BY <1>1, <1>2, <1>3, <2>1, IdleType, MoveInv
<1>4. CASE item' = [item EXCEPT !.status = "successful", !.token = NoClaim]
  <2>1. item \in Item
    BY DEF RunnerInv, TypeOK
  <2>2. /\ item.forced \in Nat
        /\ item' = [item EXCEPT !.status = "successful", !.token = NoClaim,
                                !.forced = item.forced]
    BY <1>4, <2>1 DEF Item
  <2>3. /\ item' \in Item /\ item'.claims = item.claims /\ item'.tx = item.tx
        /\ item'.status # "in_progress" /\ Budget'
    BY <2>2, SucceededBudget
  <2> QED
    BY <1>1, <1>2, <2>3, ReleaseInv
<1>5. CASE item' = Returned(item, Retry(w))
  <2>1. Retry(w) \in BOOLEAN
    BY DEF Retry
  <2>2. /\ item' \in Item /\ item'.claims = item.claims /\ item'.tx = item.tx
        /\ item'.status \in {"pending", "failed"}
        /\ item'.status = "pending" => item'.retries <= QueueRetries
        /\ item'.claims <= item'.retries
    BY <1>5, <2>1, ReturnedLemma
  <2>3. Budget'
    BY <2>2 DEF Budget, Item
  <2> QED
    BY <1>1, <1>2, <2>2, <2>3, ReleaseInv
<1> QED
  BY <1>3, <1>4, <1>5 DEF Close

-----------------------------------------------------------------------------
(* Steps of others                                                           *)

\* force_complete.
LEMMA ForceCompleteInv == ASSUME RunnerInv, ForceComplete PROVE RunnerInv'
<1>1. /\ item' = [[item EXCEPT !.status = "successful"] EXCEPT !.token = NoClaim,
                                                               !.forced = @ + 1]
      /\ UNCHANGED <<store, worker, manual, bodies>>
  BY DEF ForceComplete, ForceTransition
<1>2. item \in Item /\ worker' \in [Workers -> Local]
  BY <1>1 DEF RunnerInv, TypeOK
<1>3. /\ item.forced + 1 \in Nat
      /\ item' = [item EXCEPT !.status = "successful", !.token = NoClaim,
                              !.forced = item.forced + 1]
  BY <1>1, <1>2 DEF Item
<1>4. /\ item' \in Item /\ item'.claims = item.claims /\ item'.tx = item.tx
      /\ item'.status # "in_progress" /\ Budget'
  BY <1>3, SucceededBudget
<1> QED
  BY <1>1, <1>2, <1>4, ReleaseInv

\* force_fail.
LEMMA ForceFailInv ==
    ASSUME RunnerInv, NEW retry \in BOOLEAN, ForceFail(retry)
    PROVE  RunnerInv'
<1> DEFINE r == Returned(item, retry)
<1>1. /\ item' = [r EXCEPT !.token = NoClaim, !.forced = @ + 1]
      /\ UNCHANGED <<store, worker, manual, bodies>>
  BY DEF ForceFail, ForceTransition
<1>2. /\ r \in Item /\ r.claims = item.claims /\ r.tx = item.tx
      /\ r.status \in {"pending", "failed"}
      /\ r.status = "pending" => r.retries <= QueueRetries
      /\ r.claims <= r.retries
  BY ReturnedLemma
<1> HIDE DEF r
<1>3. worker' \in [Workers -> Local]
  BY <1>1 DEF RunnerInv, TypeOK
<1>4. /\ item' \in Item /\ item'.claims = r.claims /\ item'.tx = r.tx
      /\ item'.status = r.status /\ item'.retries = r.retries
  <2>1. r.forced + 1 \in Nat /\ item' = [r EXCEPT !.token = NoClaim, !.forced = r.forced + 1]
    BY <1>1, <1>2 DEF Item
  <2>2. /\ r.token \in Nat /\ NoClaim \in Nat
        /\ r.status \in {"pending", "in_progress", "successful", "failed"}
    BY <1>2 DEF Item, NoClaim
  <2> QED
    BY <1>2, <2>1, <2>2 DEF Item
<1>5. Budget'
  BY <1>2, <1>4 DEF Budget, Item
<1> QED
  BY <1>1, <1>2, <1>3, <1>4, <1>5, ReleaseInv

\* The facts about the claim do not depend on a caller that only reads.
LEMMA ManualReadInv == ASSUME RunnerInv, NEW t \in Ids, ManualRead(t) PROVE RunnerInv'
<1> DEFINE tx == Prepared(store[t].tx, FALSE)
<1>1. /\ manual.saves < MaxManual /\ store[t] # Absent
      /\ manual' = [manual EXCEPT !.tx = t, !.mem = tx]
      /\ UNCHANGED <<item, store, worker, bodies>>
  BY DEF ManualRead
<1>2. tx \in Transaction
  BY <1>1, PreparedLemma DEF RunnerInv, StoreInv
<1> HIDE DEF tx
<1>3. item.tx = t
  BY <1>1 DEF RunnerInv, OneTransactionPerItem
<1>4. TypeOK' /\ manual'.saves = manual.saves /\ manual'.tx = t /\ manual'.mem = tx
  BY <1>1, <1>2 DEF RunnerInv, TypeOK
<1>5. ManualInv'
  BY <1>1, <1>2, <1>3, <1>4 DEF ManualInv
<1>6. \A w \in Workers : LocalInv(worker[w])'
  BY <1>1, <1>4 DEF RunnerInv, LocalInv
<1>7. Budget' /\ OneTransactionPerItem' /\ StoreInv' /\ Distinct'
  BY <1>1 DEF RunnerInv, Budget, OneTransactionPerItem, StoreInv, Distinct, At
<1> QED
  BY <1>4, <1>5, <1>6, <1>7 DEF RunnerInv

\* save_transaction: every worker that knows the transaction falls behind.
LEMMA ManualSaveInv == ASSUME RunnerInv, ManualSave PROVE RunnerInv'
<1> DEFINE t == manual.tx
<1>1. /\ t # NoTransaction /\ manual' = [Outside EXCEPT !.saves = manual.saves + 1]
      /\ store' = Written(t, manual.mem)
      /\ UNCHANGED <<item, worker, bodies>>
  BY DEF ManualSave
<1>2. /\ t = item.tx /\ t \in Ids /\ manual.mem \in Transaction
      /\ manual.saves \in Nat /\ manual.saves < MaxManual /\ MaxManual \in Nat
  BY <1>1, RunnerAssumption DEF RunnerInv, TypeOK, ManualInv
<1>3. /\ store' \in [Ids -> Snapshot]
      /\ store'[t].rev = store[t].rev + 1 /\ store'[t].tx \in Transaction
      /\ \A u \in Ids \ {t} : store'[u] = store[u]
      /\ store[t].rev \in Nat
  BY <1>1, <1>2, WrittenLemma DEF RunnerInv, TypeOK, Snapshot
<1>4. /\ manual'.tx = NoTransaction /\ manual'.saves = manual.saves + 1
      /\ manual' \in [tx : Ids \cup {NoTransaction}, mem : Transaction \cup {Nothing},
                      saves : 0..MaxManual]
  BY <1>1, <1>2 DEF Outside
<1>5. TypeOK' /\ Budget' /\ Distinct' /\ ManualInv'
  BY <1>1, <1>3, <1>4 DEF RunnerInv, TypeOK, Budget, Distinct, At, ManualInv
<1>6. store'[t] # Absent
  BY <1>3 DEF Absent
<1>7. OneTransactionPerItem'
  BY <1>1, <1>2, <1>3, <1>6 DEF RunnerInv, OneTransactionPerItem
<1>8. StoreInv'
  <2>1. StoreInv
    BY DEF RunnerInv
  <2> QED
    BY <1>3, <2>1 DEF StoreInv
<1>9. ASSUME NEW v \in Workers PROVE LocalInv(worker[v])'
  <2>1. LocalInv(worker[v]) /\ worker'[v] = worker[v] /\ worker[v] \in Local
    BY <1>1 DEF RunnerInv, TypeOK
  <2>2. worker[v].tx # NoTransaction => worker[v].tx = t /\ worker[v].rev < store'[t].rev
    BY <1>2, <1>3, <2>1 DEF LocalInv, Local
  <2>3. worker[v].rev \in Nat /\ store'[t].rev \in Nat /\ manual'.saves # 0
    BY <1>2, <1>3, <1>4, <2>1 DEF Local
  <2> QED
    BY <1>1, <2>1, <2>2, <2>3 DEF LocalInv
<1> QED
  BY <1>5, <1>7, <1>8, <1>9 DEF RunnerInv

-----------------------------------------------------------------------------
(* The theorems                                                              *)

\* Building or validating the transaction fails, or the lease turns out to be lost.
LEMMA StopInv ==
    ASSUME RunnerInv, NEW w \in Workers,
           (\E err \in {"retry", "final"} : BuildFails(w, err)) \/ LeaseCheckFails(w)
    PROVE  RunnerInv'
<1>1. PICK err \in {"lost", "renewal", "retry", "final"} : GiveUp(w, err)
  BY DEF BuildFails, LeaseCheckFails
<1>2. ~At(w, "idle") /\ UNCHANGED <<item, store, manual, bodies>>
  BY DEF BuildFails, LeaseCheckFails, At
<1> QED
  BY <1>1, <1>2, GiveUpInv

\* The invariant is inductive.
LEMMA RunnerInvStep == RunnerInv /\ [Next]_vars => RunnerInv'
<1> SUFFICES ASSUME RunnerInv, [Next]_vars PROVE RunnerInv'
  OBVIOUS
<1>1. CASE UNCHANGED vars
  <2>1. UNCHANGED <<item, store, worker, manual, bodies>>
    BY <1>1 DEF vars
  <2>2. TypeOK' /\ Budget' /\ OneTransactionPerItem' /\ StoreInv' /\ ManualInv' /\ Distinct'
    BY <2>1 DEF RunnerInv, TypeOK, Budget, OneTransactionPerItem, StoreInv, ManualInv,
                Distinct, At
  <2>3. \A w \in Workers : LocalInv(worker[w])'
    BY <2>1 DEF RunnerInv, LocalInv
  <2> QED
    BY <2>2, <2>3 DEF RunnerInv
<1>2. ASSUME NEW w \in Workers, Claim(w) PROVE RunnerInv'
  BY <1>2, ClaimInv
<1>3. ASSUME NEW w \in Workers, Prepare(w) PROVE RunnerInv'
  BY <1>3, BindInv, LoadInv, BindFailsInv, StopInv DEF Prepare
<1>4. ASSUME NEW w \in Workers, Run(w) PROVE RunnerInv'
  BY <1>4, AdvanceInv, SaveInv, ContinueInv, StopInv, SaveFailsInv DEF Run
<1>5. ASSUME NEW w \in Workers, Return(w) \/ Close(w) \/ HeartbeatFails(w) \/ Crash(w)
      PROVE RunnerInv'
  BY <1>5, ReturnInv, CloseInv, HeartbeatInv, CrashInv
<1>6. CASE Expire \/ ForceComplete \/ \E retry \in BOOLEAN : ForceFail(retry)
  BY <1>6, ExpireInv, ForceCompleteInv, ForceFailInv
<1>7. CASE ManualSave \/ \E t \in Ids : ManualRead(t)
  BY <1>7, ManualSaveInv, ManualReadInv
<1> QED
  BY <1>1, <1>2, <1>3, <1>4, <1>5, <1>6, <1>7 DEF Next

\* The inductive invariant holds in every reachable state of runner.py's workers.
THEOREM RunnerInvariant == Spec => []RunnerInv
  BY InitInv, RunnerInvStep, PTL DEF Spec

\* Every variable keeps its type, and no more claims are made than the budget allows.
THEOREM RunnerTypeCorrect == Spec => []TypeOK
<1>1. RunnerInv => TypeOK
  BY DEF RunnerInv
<1> QED
  BY <1>1, RunnerInvariant, PTL

\* The initial save of _save_queue_transaction_fenced binds and stores together: no orphan,
\* no second transaction, no binding that leads nowhere.
THEOREM OneTransactionAlways == Spec => []OneTransactionPerItem
<1>1. RunnerInv => OneTransactionPerItem
  BY DEF RunnerInv
<1> QED
  BY <1>1, RunnerInvariant, PTL

\* Whatever workers without the claim try, the checkpoints of the holder stay acceptable.
THEOREM HolderAlwaysCurrent == Spec => []HolderIsCurrent
  BY HolderLemma, RunnerInvariant, PTL

\* The snapshot a worker replaces is the one it read or wrote last.
LEMMA NoLostUpdateStep ==
    ASSUME RunnerInv, [Next]_vars, NEW t \in Ids, store'[t] # store[t], UNCHANGED manual
    PROVE  \E w \in Workers : worker'[w] # worker[w] /\ worker[w].base = store[t].tx
<1>1. store \in [Ids -> Snapshot] /\ worker \in [Workers -> Local]
  BY DEF RunnerInv, TypeOK
<1>2. PICK w \in Workers : \/ Bind(w) \/ Save(w)
                           \/ \E done \in BOOLEAN : BindFails(w, done) \/ SaveFails(w, done)
  <2>1. ~ManualSave
    <3>1. SUFFICES ASSUME ManualSave PROVE FALSE
      OBVIOUS
    <3>2. manual'.saves = manual.saves + 1 /\ manual.saves \in Nat
      BY <3>1 DEF ManualSave, Outside, RunnerInv, TypeOK
    <3> QED
      BY <3>2
  <2> QED
    BY <2>1 DEF Next, vars, Prepare, Run, Claim, Load, BuildFails, Advance, Continue,
                LeaseCheckFails, Return, Close, HeartbeatFails, Crash, Expire, ForceComplete,
                ForceFail, ForceTransition, ManualRead
<1>3. ~At(w, "idle")
  BY <1>2 DEF Bind, Save, BindFails, SaveFails, At
<1>4. worker[w] \in Local /\ LocalInv(worker[w])
  BY <1>3, WorkerFacts
<1>5. CASE At(w, "claimed") /\ worker[w].tx = NoTransaction
  <2>1. Fence(w, worker[w].token) /\ \E tx : store' = Written(worker[w].token, tx)
    BY <1>2, <1>5 DEF Bind, BindFails, Save, SaveFails, At
  <2>2. t = worker[w].token
    BY <1>1, <2>1 DEF Written
  <2>3. store[t] = Absent /\ worker[w].base = Nothing
    BY <1>4, <1>5, <2>1, <2>2 DEF Fence, LocalInv, At, RunnerInv, StoreInv
  <2>4. worker'[w] # worker[w]
    <3>1. worker'[w].pc \in {"running", "ending"}
      <4> DEFINE id == worker[w].token
      <4>1. \/ GiveUp(w, "lost")
            \/ GiveUp(w, "retry")
            \/ worker' = [worker EXCEPT ![w] =
                   [@ EXCEPT !.pc = "running", !.tx = id, !.rev = 1, !.mem = Fresh,
                             !.base = store'[id].tx]]
        <5>1. CASE Bind(w)
          BY <1>5, <5>1 DEF Bind, At
        <5>2. CASE \E done \in BOOLEAN : BindFails(w, done)
          BY <5>2 DEF BindFails
        <5>3. ~Save(w)
          BY <1>5 DEF Save, At
        <5>4. \A done \in BOOLEAN : ~SaveFails(w, done)
          BY <1>5 DEF SaveFails, At
        <5> QED
          BY <1>2, <5>1, <5>2, <5>3, <5>4
      <4>2. ASSUME NEW err, GiveUp(w, err) PROVE worker'[w].pc = "ending"
        BY <1>1, <4>2 DEF GiveUp, Local
      <4>3. ASSUME NEW x, worker' = [worker EXCEPT ![w] = x] PROVE worker'[w] = x
        BY <1>1, <4>3
      <4>4. ASSUME NEW base
            PROVE  [worker[w] EXCEPT !.pc = "running", !.tx = id, !.rev = 1, !.mem = Fresh,
                                     !.base = base].pc = "running"
        BY <1>1 DEF Local
      <4> HIDE DEF id
      <4> QED
        BY <4>1, <4>2, <4>3, <4>4
    <3> QED
      BY <1>5, <3>1 DEF At
  <2> QED
    BY <2>3, <2>4 DEF Absent
<1>6. CASE At(w, "moved")
  <2>1. /\ Fence(w, worker[w].tx)
        /\ \E tx : store' = Written(worker[w].tx, tx)
    BY <1>2, <1>6 DEF Bind, BindFails, Save, SaveFails, At
  <2>2. t = worker[w].tx
    BY <1>1, <2>1 DEF Written
  <2>3. worker[w].base = store[t].tx
    BY <1>4, <1>6, <2>1, <2>2 DEF Fence, LocalInv, At, Active
  <2>4. worker'[w] # worker[w]
    <3>1. worker'[w].pc \in {"saved", "ending"}
      BY <1>1, <1>2, <1>6 DEF Bind, BindFails, Save, SaveFails, At, GiveUp, Local
    <3> QED
      BY <1>6, <3>1 DEF At
  <2> QED
    BY <2>3, <2>4
<1> QED
  BY <1>2, <1>5, <1>6 DEF Bind, BindFails, Save, SaveFails

\* The fenced checkpoint is a compare-and-swap on the snapshot, not only on its revision.
THEOREM NoUpdateEverLost == Spec => NoLostUpdate
<1>1. RunnerInv /\ [Next]_vars =>
        [\A t \in Ids : store'[t] # store[t] /\ UNCHANGED manual =>
            \E w \in Workers : worker'[w] # worker[w] /\ worker[w].base = store[t].tx]_vars
  BY NoLostUpdateStep
<1> QED
  BY <1>1, RunnerInvariant, PTL DEF Spec, NoLostUpdate
-----------------------------------------------------------------------------
(* What a worker may still overwrite                                         *)

\* The steps whose outcome recovery and the engine must leave alone.
Barred(tx, s) ==
    \/ tx.steps[s].status = "successful"
    \/ s \in BusinessFailed(tx) /\ ~RetryBusiness

\* The transaction new goes on from old: its history extends it, and no barred step is touched.
Kept(old, new) ==
    /\ Pre(old.history, new.history)
    /\ \A s \in Steps : Barred(old, s) => new.steps[s] = old.steps[s]

\* A step in progress is the one the newest entry of the history started.
StartOf(e, s) == e.event = "step_started" /\ e.step = s
Started(tx) ==
    /\ tx.status = "pending" => Executing(tx) = {}
    /\ \A s \in Executing(tx) : StartOf(tx.history[Len(tx.history)], s)

\* What a move of the engine writes: one entry, and only steps that were not over.
LEMMA MovesExact ==
    ASSUME NEW tx \in Transaction, Started(tx), NEW new \in Moves(tx)
    PROVE  /\ new \in Transaction /\ Started(new)
           /\ \E e \in Entry : new.history = Append(tx.history, e)
           /\ \A s \in Steps : new.steps[s] = tx.steps[s]
                               \/ tx.steps[s].status \in {"pending", "in_progress"}
<1>1. /\ DOMAIN tx.steps = Steps /\ tx.history \in Seq(Entry)
      /\ new \in Transaction /\ DOMAIN new.steps = Steps
  BY TransactionParts, MovesType
<1>2. CASE tx.status = "pending"
  <2> DEFINE base == [tx EXCEPT !.status = "in_progress", !.outcome = "unknown"]
  <2>1. base \in Transaction /\ base.steps = tx.steps /\ base.history = tx.history
    BY DEF Transaction, Outcomes
  <2>2. new = Record(base, "transaction_started", 0)
    BY <1>2 DEF Moves, Begun
  <2> HIDE DEF base
  <2>3. "transaction_started" \in Events
    BY DEF Events
  <2>4. new.steps = tx.steps /\ \E e \in Entry : new.history = Append(tx.history, e)
    BY <2>1, <2>2, <2>3, RecordExact
  <2>5. Executing(new) = {}
    BY <1>2, <2>4 DEF Started, Executing
  <2> QED
    BY <1>1, <2>4, <2>5 DEF Started
<1>3. CASE tx.status # "pending" /\ Executing(tx) # {}
  <2>1. PICK s \in Executing(tx) : \E ending \in CanEnd[s] : new = Ended(tx, s, ending)
    BY <1>3 DEF Moves
  <2>2. PICK ending \in CanEnd[s] : new = Ended(tx, s, ending)
    BY <2>1
  <2>3. s \in Steps /\ ending \in Endings /\ tx.steps[s].status = "in_progress"
    BY <1>1, <2>1, RunnerAssumption DEF Executing
  <2>4. Executing(tx) = {s}
    BY <2>1 DEF Started, StartOf
  <2>5. PICK base \in Transaction, status \in {"successful", "skipped", "failed"},
             event \in {"step_succeeded", "step_skipped", "step_failed"} :
           /\ new = Mark(base, s, status, event)
           /\ base.history = tx.history /\ base.status = tx.status
           /\ \A t \in Steps \ {s} : base.steps[t] = tx.steps[t]
    <3>1. CASE ending = "ok"
      BY <2>2, <3>1 DEF Ended
    <3>2. CASE ending = "skip"
      BY <2>2, <3>2 DEF Ended
    <3>3. CASE ending \notin {"ok", "skip"}
      <4> DEFINE exc == [kind |-> ending, halts |-> ending = "system", retry |-> tx.retries]
                 base == [tx EXCEPT !.steps[s].excs = Append(@, exc)]
      <4>1. exc \in Exc
        BY <2>3, <3>3, TransactionParts DEF Exc, Endings
      <4>2. new = Mark(base, s, "failed", "step_failed")
        BY <2>2, <3>3 DEF Ended
      <4> HIDE DEF exc
      <4>3. /\ base \in Transaction /\ base.history = tx.history /\ base.status = tx.status
            /\ \A t \in Steps \ {s} : base.steps[t] = tx.steps[t]
        BY <2>3, <4>1, ExcExact
      <4> HIDE DEF base
      <4> QED
        BY <4>2, <4>3
    <3> QED
      BY <3>1, <3>2, <3>3
  <2>6. status \in StepStatuses /\ event \in Events
    BY DEF StepStatuses, Events
  <2>7. /\ \E e \in Entry : new.history = Append(tx.history, e)
        /\ new.steps[s].status = status
        /\ \A t \in Steps \ {s} : new.steps[t] = tx.steps[t]
        /\ new.status = tx.status
    BY <2>3, <2>5, <2>6, MarkExact
  <2>8. Executing(new) = {}
    BY <1>1, <2>4, <2>7 DEF Executing
  <2> QED
    BY <1>1, <2>3, <2>7, <2>8 DEF Started
<1>4. CASE tx.status # "pending" /\ Executing(tx) = {} /\ new = Settled(tx)
  <2>1. PICK outcome \in {"successful", "business_failed", "system_failed"},
             status \in {"successful", "failed"} :
           new = Record([tx EXCEPT !.outcome = outcome, !.status = status],
                        "transaction_completed", 0)
    BY <1>4 DEF Settled
  <2> DEFINE base == [tx EXCEPT !.outcome = outcome, !.status = status]
  <2>2. base \in Transaction /\ base.steps = tx.steps /\ base.history = tx.history
    BY DEF Transaction, Outcomes
  <2>3. new = Record(base, "transaction_completed", 0) /\ "transaction_completed" \in Events
    BY <2>1 DEF Events
  <2> HIDE DEF base
  <2>4. new.steps = tx.steps /\ \E e \in Entry : new.history = Append(tx.history, e)
    BY <2>2, <2>3, RecordExact
  <2>5. Executing(new) = {}
    BY <1>4, <2>4 DEF Executing
  <2> QED
    BY <1>1, <2>4, <2>5 DEF Started
<1>5. CASE tx.status # "pending" /\ Executing(tx) = {} /\ new # Settled(tx)
  <2>1. PICK s \in Waiting(tx) : new = Mark(tx, s, "in_progress", "step_started")
    BY <1>5 DEF Moves
  <2>2. s \in Steps /\ tx.steps[s].status = "pending"
    BY <1>1 DEF Waiting
  <2>3. "in_progress" \in StepStatuses /\ "step_started" \in Events
    BY DEF StepStatuses, Events
  <2> DEFINE e == Note(tx, "step_started", s)
  <2>4. /\ e \in Entry /\ new.history = Append(tx.history, e)
        /\ \A t \in Steps \ {s} : new.steps[t] = tx.steps[t]
        /\ new.status = tx.status
    BY <2>1, <2>2, <2>3, MarkExact
  <2>5. StartOf(e, s)
    BY DEF StartOf, Note
  <2> HIDE DEF e
  <2>6. new.history[Len(new.history)] = e
    BY <1>1, <2>4, AppendFacts
  <2>7. \A t \in Executing(new) : t = s
    BY <1>1, <1>5, <2>4 DEF Executing
  <2> QED
    BY <1>1, <1>5, <2>2, <2>4, <2>5, <2>6, <2>7 DEF Started
<1> QED
  BY <1>2, <1>3, <1>4, <1>5

\* A move of the engine goes on from whatever the transaction went on from.
LEMMA MovesKept ==
    ASSUME NEW base \in Transaction, NEW tx \in Transaction, Kept(base, tx), Started(tx),
           NEW new \in Moves(tx)
    PROVE  Kept(base, new) /\ Started(new) /\ Len(base.history) < Len(new.history)
<1>1. PICK e \in Entry : new.history = Append(tx.history, e)
  BY MovesExact
<1>2. /\ base.history \in Seq(Entry) /\ tx.history \in Seq(Entry)
      /\ Pre(base.history, tx.history)
  BY TransactionParts DEF Kept
<1>3. Pre(base.history, new.history) /\ Len(base.history) < Len(new.history)
  <2>1. Pre(base.history, new.history)
    BY <1>1, <1>2, PrefixAppend
  <2>2. Len(base.history) \in Nat /\ Len(tx.history) \in Nat
        /\ Len(base.history) <= Len(tx.history) /\ Len(new.history) = Len(tx.history) + 1
    BY <1>1, <1>2, AppendFacts DEF Pre
  <2> QED
    BY <2>1, <2>2
<1>4. ASSUME NEW s \in Steps, Barred(base, s) PROVE new.steps[s] = base.steps[s]
  <2>1. tx.steps[s] = base.steps[s]
    BY <1>4 DEF Kept
  <2>2. tx.steps[s].status \notin {"pending", "in_progress"}
    BY <1>4, <2>1 DEF Barred, BusinessFailed, FailedLastBy
  <2> QED
    BY <2>1, <2>2, MovesExact
<1> QED
  BY <1>3, <1>4, MovesExact DEF Kept

\* A transaction goes on from itself.
LEMMA KeptSelf == ASSUME NEW tx \in Transaction PROVE Kept(tx, tx)
BY TransactionParts DEF Kept, Pre

\* Recovery goes on from the snapshot; nothing is in progress afterwards.
LEMMA PreparedKept ==
    ASSUME NEW tx \in Transaction, tx.status # "successful"
    PROVE  LET new == Prepared(tx, RetryBusiness) IN
           new.status = "pending" /\ Kept(tx, new) /\ Started(new)
<1> DEFINE new == Prepared(tx, RetryBusiness)
<1>1. /\ new \in Transaction /\ new.status = "pending" /\ Pre(tx.history, new.history)
      /\ \A s \in Steps : /\ new.steps[s].status = ResumedStatus(tx, s, RetryBusiness)
                          /\ new.steps[s].excs = tx.steps[s].excs
  BY RunnerAssumption, PreparedExact, PreparedLemma
<1> HIDE DEF new
<1>2. tx.steps \in [Steps -> StepRecord] /\ new.steps \in [Steps -> StepRecord]
  BY <1>1, TransactionParts
<1>3. ASSUME NEW s \in Steps, Barred(tx, s) PROVE new.steps[s] = tx.steps[s]
  <2>1. new.steps[s].status = tx.steps[s].status
    BY <1>1, <1>3 DEF Barred, ResumedStatus
  <2>2. \A q, r \in StepRecord : q.status = r.status /\ q.excs = r.excs => q = r
    BY DEF StepRecord
  <2>3. tx.steps[s] \in StepRecord /\ new.steps[s] \in StepRecord
    BY <1>2
  <2> QED
    BY <1>1, <2>1, <2>2, <2>3
<1>4. \A s \in Steps : new.steps[s].status # "in_progress"
  BY <1>1 DEF ResumedStatus, BusinessFailed, FailedLastBy
<1>5. Started(new)
  BY <1>2, <1>4 DEF Started, Executing
<1> QED
  BY <1>1, <1>3, <1>5 DEF Kept, new

\* A fresh transaction has nothing in progress.
LEMMA FreshStarted == Started(Fresh) /\ Fresh.history = <<>> /\ Fresh.status = "pending"
BY DEF Started, Executing, Fresh
\* A write leaves the stored history where it was and adds to its end.
LEMMA MergedExtends ==
    ASSUME NEW old \in Seq(Entry), NEW new \in Seq(Entry)
    PROVE  Pre(old, Merged(old, new))
<1> DEFINE n == Max({Len(old), Len(new)})
<1>1. Len(old) \in Nat /\ Len(new) \in Nat
  OBVIOUS
<1>2. n \in Nat /\ Len(old) <= n
  <2>1. CASE Len(old) <= Len(new)
    BY <1>1, <2>1, MaxOfTwo
  <2>2. CASE Len(new) <= Len(old)
    <3>1. {Len(old), Len(new)} = {Len(new), Len(old)}
      OBVIOUS
    <3> QED
      BY <1>1, <2>2, <3>1, MaxOfTwo
  <2> QED
    BY <1>1, <2>1, <2>2
<1>3. Merged(old, new) = [k \in 1..n |-> IF k <= Len(old) THEN old[k] ELSE new[k]]
  BY DEF Merged
<1> HIDE DEF n
<1>4. Merged(old, new) \in Seq(Entry)
  BY MergedType
<1>5. Len(Merged(old, new)) = n
  <2>0. DOMAIN Merged(old, new) = 1..n
    BY <1>3
  <2>1. DOMAIN Merged(old, new) = 1..n /\ DOMAIN Merged(old, new) = 1..Len(Merged(old, new))
    BY <2>0, <1>4
  <2>2. Len(Merged(old, new)) \in Nat
    BY <1>4
  <2>3. ASSUME NEW i \in Nat, NEW j \in Nat, 1..i = 1..j PROVE i <= j
    <3>1. i = 0 \/ i \in 1..i
      OBVIOUS
    <3>2. i = 0 \/ i \in 1..j
      BY <2>3, <3>1
    <3> QED
      BY <3>2
  <2>4. n <= Len(Merged(old, new)) /\ Len(Merged(old, new)) <= n
    BY <1>2, <2>1, <2>2, <2>3
  <2> QED
    BY <1>2, <2>2, <2>4
<1> QED
  BY <1>1, <1>2, <1>3, <1>5 DEF Pre

\* The stored history is a sequence, also that of a transaction that is not there.
LEMMA StoredHistory ==
    ASSUME RunnerInv, NEW t \in Ids
    PROVE  store[t].tx.history \in Seq(Entry)
<1>1. CASE store[t] = Absent
  <2>1. store[t].tx.history = <<>>
    BY <1>1 DEF Absent, Nothing
  <2> QED
    BY <2>1
<1>2. CASE store[t].tx \in Transaction
  BY <1>2, TransactionParts
<1> QED
  BY <1>1, <1>2 DEF RunnerInv, StoreInv

\* What a write stores, field by field.
LEMMA WrittenExact ==
    ASSUME RunnerInv, NEW t \in Ids, NEW tx \in Transaction
    PROVE  LET new == Written(t, tx)[t].tx IN
           /\ new.status = tx.status /\ new.steps = tx.steps
           /\ new.history = Merged(store[t].tx.history, tx.history)
           /\ Pre(store[t].tx.history, new.history)
           /\ Pre(store[t].tx.history, tx.history) => new = tx
<1> DEFINE history == Merged(store[t].tx.history, tx.history)
           new == [tx EXCEPT !.history = history]
<1>1. /\ store \in [Ids -> Snapshot]
      /\ store[t].tx.history \in Seq(Entry) /\ tx.history \in Seq(Entry)
  BY StoredHistory, TransactionParts DEF RunnerInv, TypeOK
<1>2. Written(t, tx)[t].tx = new
  BY <1>1 DEF Written
<1>3. Pre(store[t].tx.history, history)
  BY <1>1, MergedExtends
<1>4. Pre(store[t].tx.history, tx.history) => history = tx.history
  BY <1>1, MergedIsNew
<1> HIDE DEF history
<1>5. /\ new.status = tx.status /\ new.steps = tx.steps /\ new.history = history
      /\ history = tx.history => new = tx
  BY DEF Transaction
<1> HIDE DEF new
<1> QED
  BY <1>2, <1>3, <1>4, <1>5 DEF history

\* What a worker remembers, l, goes on from the snapshot it read or wrote last.
Sound(l) ==
    /\ l.pc \in Active => l.base \in Transaction /\ Kept(l.base, l.mem)
    /\ l.pc \in {"running", "moved"} => l.base.status # "successful"
    /\ l.pc \in {"running", "moved", "saved"} => Started(l.mem)
    /\ l.pc = "moved" => Len(l.base.history) < Len(l.mem.history)
    /\ l.pc = "saved" => l.base = l.mem
    /\ l.pc = "returned" /\ l.mem.status = "successful" => l.base.status = "successful"
    /\ l.intended => /\ l.pc = "ending" /\ l.tx # NoTransaction
                     /\ l.base.status = "successful"

\* A worker without a transaction in hand, or one that gave up.
LEMMA SoundAway ==
    ASSUME NEW l, l.pc \notin Active, ~l.intended
    PROVE  Sound(l)
BY DEF Sound, Active

\* The steps of one worker leave the others alone.
LEMMA StepOfWorker ==
    ASSUME RunnerInv, NEW w \in Workers,
           Claim(w) \/ Prepare(w) \/ Run(w) \/ Return(w) \/ Close(w)
           \/ HeartbeatFails(w) \/ Crash(w)
    PROVE  \A v \in Workers \ {w} : worker'[v] = worker[v]
<1>1. \E l : worker' = [worker EXCEPT ![w] = l]
  BY DEF Claim, Prepare, Bind, Load, BindFails, BuildFails, Run, Advance, Save, SaveFails,
         Continue, LeaseCheckFails, Return, Close, HeartbeatFails, Crash, Goto, Stop, GiveUp
<1>2. worker \in [Workers -> Local]
  BY DEF RunnerInv, TypeOK
<1> QED
  BY <1>1, <1>2

\* Giving up.
LEMMA GiveUpSound ==
    ASSUME RunnerInv, NEW w \in Workers, ~At(w, "idle"), ~At(w, "ending"),
           Sound(worker[w]),
           NEW err \in {"lost", "renewal", "retry", "final"}, GiveUp(w, err)
    PROVE  Sound(worker'[w])
<1>1. worker' = [worker EXCEPT ![w] = [@ EXCEPT !.pc = "ending", !.err = err]]
      /\ worker \in [Workers -> Local] /\ worker[w] \in Local
  BY WorkerFacts DEF GiveUp
<1>2. worker'[w].pc = "ending" /\ worker'[w].intended = worker[w].intended
  BY <1>1 DEF Local
<1>3. ~worker[w].intended
  BY DEF Sound, At
<1> QED
  BY <1>2, <1>3, SoundAway DEF Active

\* Preparing the transaction of a claim.
LEMMA BindSound ==
    ASSUME RunnerInv, NEW w \in Workers, Bind(w), Sound(worker[w])
    PROVE  Sound(worker'[w])
<1> DEFINE t == worker[w].token
<1>1. /\ At(w, "claimed") /\ ~At(w, "idle") /\ ~At(w, "ending")
      /\ worker[w].tx = NoTransaction
  BY DEF Bind, At
<1>2. t \in Ids /\ worker[w] \in Local /\ LocalInv(worker[w]) /\ worker \in [Workers -> Local]
  BY <1>1, WorkerFacts
<1>3. CASE Fence(w, t)
  <2>1. /\ store' = Written(t, Fresh)
        /\ worker' = [worker EXCEPT ![w] = [@ EXCEPT !.pc = "running", !.tx = t, !.rev = 1,
                                                     !.mem = Fresh, !.base = store'[t].tx]]
    BY <1>3 DEF Bind
  <2>2. store[t] = Absent
    BY <1>1, <1>2, <1>3 DEF Fence, LocalInv, At, RunnerInv, StoreInv
  <2>3. store'[t].tx = Fresh
    <3>1. Pre(store[t].tx.history, Fresh.history)
      BY <2>2, FreshStarted DEF Absent, Nothing, Pre
    <3> QED
      BY <1>2, <2>1, <3>1, FreshType, WrittenExact
  <2>4. /\ worker'[w].pc = "running" /\ worker'[w].mem = Fresh /\ worker'[w].base = Fresh
        /\ worker'[w].intended = worker[w].intended
    BY <1>2, <2>1, <2>3 DEF Local
  <2> QED
    BY <1>1, <2>4, FreshType, FreshStarted, KeptSelf DEF Sound, At
<1>4. CASE ~Fence(w, t)
  <2>1. GiveUp(w, "lost")
    BY <1>4 DEF Bind
  <2> QED
    BY <1>1, <2>1, GiveUpSound
<1> QED
  BY <1>3, <1>4

\* Recovering it.
LEMMA LoadSound ==
    ASSUME RunnerInv, NEW w \in Workers, Load(w), Sound(worker[w])
    PROVE  Sound(worker'[w])
<1> DEFINE t == worker[w].tx
           old == store[t].tx
           tx == Prepared(old, RetryBusiness)
<1>1. At(w, "claimed") /\ ~At(w, "idle") /\ t # NoTransaction
  BY DEF Load, At
<1>2. worker[w] \in Local /\ LocalInv(worker[w]) /\ worker \in [Workers -> Local]
  BY <1>1, WorkerFacts
<1>3. old \in Transaction /\ ~worker[w].intended
  BY <1>1, <1>2, BoundIsStored DEF LocalInv, Sound, At
<1>4. worker' = [worker EXCEPT ![w] =
                    [@ EXCEPT !.pc = IF NeedsRun(tx) THEN "running" ELSE "returned",
                              !.rev = store[t].rev, !.mem = tx, !.base = old]]
  BY DEF Load
<1> HIDE DEF tx, old
<1>5. /\ worker'[w].pc = IF NeedsRun(tx) THEN "running" ELSE "returned"
      /\ worker'[w].mem = tx /\ worker'[w].base = old /\ ~worker'[w].intended
  BY <1>2, <1>3, <1>4 DEF Local
<1>6. CASE old.status = "successful"
  <2>1. tx = old
    BY <1>6 DEF tx, Prepared
  <2> QED
    BY <1>3, <1>5, <1>6, <2>1, KeptSelf DEF Sound, NeedsRun
<1>7. CASE old.status # "successful"
  <2>1. tx.status = "pending" /\ Kept(old, tx) /\ Started(tx)
    BY <1>3, <1>7, PreparedKept DEF tx
  <2> QED
    BY <1>3, <1>5, <1>7, <2>1 DEF Sound, NeedsRun
<1> QED
  BY <1>6, <1>7

\* The next move of the engine.
LEMMA AdvanceSound ==
    ASSUME RunnerInv, NEW w \in Workers, Advance(w), Sound(worker[w])
    PROVE  Sound(worker'[w])
<1>1. At(w, "running") /\ ~At(w, "idle")
  BY DEF Advance, At
<1>2. PICK mem \in Moves(worker[w].mem) :
         worker' = [worker EXCEPT ![w] = [@ EXCEPT !.pc = "moved", !.mem = mem]]
  BY DEF Advance
<1>3. /\ worker[w] \in Local /\ worker \in [Workers -> Local]
      /\ worker[w].mem \in Transaction
  BY <1>1, WorkerFacts DEF Active, At
<1>4. /\ worker'[w].pc = "moved" /\ worker'[w].mem = mem
      /\ worker'[w].base = worker[w].base /\ worker'[w].intended = worker[w].intended
  BY <1>2, <1>3 DEF Local
<1>5. /\ worker[w].base \in Transaction /\ Kept(worker[w].base, worker[w].mem)
      /\ worker[w].base.status # "successful" /\ Started(worker[w].mem)
      /\ ~worker[w].intended
  BY <1>1 DEF Sound, Active, At
<1>6. Kept(worker[w].base, mem) /\ Started(mem)
      /\ Len(worker[w].base.history) < Len(mem.history)
  BY <1>2, <1>3, <1>5, MovesKept
<1> QED
  BY <1>4, <1>5, <1>6 DEF Sound

\* The checkpoint stores the very transaction the engine has.
LEMMA SavedIsMem ==
    ASSUME RunnerInv, NEW w \in Workers, At(w, "moved"), Sound(worker[w]),
           Fence(w, worker[w].tx)
    PROVE  /\ worker[w].tx \in Ids /\ worker[w].base = store[worker[w].tx].tx
           /\ item.tx = worker[w].tx
           /\ Written(worker[w].tx, worker[w].mem)[worker[w].tx].tx = worker[w].mem
<1> DEFINE t == worker[w].tx
<1>1. ~At(w, "idle") /\ worker[w].pc \in Active
  BY DEF At, Active
<1>2. t \in Ids /\ worker[w].mem \in Transaction /\ LocalInv(worker[w]) /\ t # NoTransaction
  BY <1>1, WorkerFacts DEF LocalInv
<1>3. worker[w].base = store[t].tx /\ item.tx = t
  BY <1>2 DEF Fence, LocalInv
<1>4. Pre(store[t].tx.history, worker[w].mem.history)
  BY <1>1, <1>3 DEF Sound, Kept
<1> QED
  BY <1>2, <1>3, <1>4, WrittenExact

LEMMA SaveSound ==
    ASSUME RunnerInv, NEW w \in Workers, Save(w), Sound(worker[w])
    PROVE  Sound(worker'[w])
<1> DEFINE t == worker[w].tx
<1>1. /\ At(w, "moved") /\ ~At(w, "idle") /\ ~At(w, "ending") /\ worker[w].pc \in Active
  BY DEF Save, At, Active
<1>2. /\ worker[w].mem \in Transaction
      /\ worker[w] \in Local /\ worker \in [Workers -> Local]
  BY <1>1, WorkerFacts
<1>3. CASE Fence(w, t)
  <2>1. store'[t].tx = worker[w].mem
    BY <1>1, <1>3, SavedIsMem DEF Save
  <2>2. worker' = [worker EXCEPT ![w] = [@ EXCEPT !.pc = "saved", !.rev = store'[t].rev,
                                                  !.base = worker[w].mem]]
    BY <1>3, <2>1 DEF Save
  <2>3. /\ worker'[w].pc = "saved" /\ worker'[w].mem = worker[w].mem
        /\ worker'[w].base = worker[w].mem /\ worker'[w].intended = worker[w].intended
    BY <1>2, <2>2 DEF Local
  <2> QED
    BY <1>1, <1>2, <2>3, KeptSelf DEF Sound, At
<1>4. CASE ~Fence(w, t)
  <2>1. GiveUp(w, "lost")
    BY <1>4 DEF Save
  <2> QED
    BY <1>1, <2>1, GiveUpSound
<1> QED
  BY <1>3, <1>4

\* Going on after the checkpoint.
LEMMA ContinueSound ==
    ASSUME RunnerInv, NEW w \in Workers, Continue(w), Sound(worker[w])
    PROVE  Sound(worker'[w])
<1> DEFINE mem == worker[w].mem
<1>1. /\ At(w, "saved") /\ ~At(w, "idle") /\ worker[w].pc \in Active
      /\ worker' = [worker EXCEPT ![w].pc = IF Over(mem) THEN "returned" ELSE "running"]
  BY DEF Continue, At, Active, Goto
<1>2. worker[w] \in Local /\ worker \in [Workers -> Local] /\ mem \in Transaction
  BY <1>1, WorkerFacts
<1>3. /\ worker'[w].pc = IF Over(mem) THEN "returned" ELSE "running"
      /\ worker'[w].mem = mem /\ worker'[w].base = worker[w].base
      /\ worker'[w].intended = worker[w].intended
  BY <1>1, <1>2 DEF Local
<1>4. worker[w].base = mem /\ Started(mem) /\ ~worker[w].intended
  BY <1>1 DEF Sound, At
<1>5. CASE Over(mem)
  BY <1>2, <1>3, <1>4, <1>5, KeptSelf DEF Sound
<1>6. CASE ~Over(mem)
  BY <1>2, <1>3, <1>4, <1>6, KeptSelf DEF Sound, Over
<1> QED
  BY <1>5, <1>6

\* Taking the outcome of the run.
LEMMA ReturnSound ==
    ASSUME RunnerInv, NEW w \in Workers, Return(w), Sound(worker[w])
    PROVE  Sound(worker'[w])
<1>1. /\ At(w, "returned") /\ ~At(w, "idle") /\ worker[w].pc \in Active
      /\ worker' = [worker EXCEPT ![w] = [@ EXCEPT !.pc = "ending",
                                                   !.intended = Succeeded(worker[w].mem)]]
  BY DEF Return, At, Active
<1>2. /\ worker[w] \in Local /\ worker \in [Workers -> Local] /\ LocalInv(worker[w])
  BY <1>1, WorkerFacts
<1>3. /\ worker'[w].pc = "ending" /\ worker'[w].base = worker[w].base
      /\ worker'[w].tx = worker[w].tx
      /\ worker'[w].intended = Succeeded(worker[w].mem)
  <2> HIDE DEF Succeeded
  <2> QED
    BY <1>1, <1>2 DEF Local
<1>4. worker[w].tx # NoTransaction
  BY <1>1, <1>2 DEF LocalInv
<1> QED
  BY <1>1, <1>3, <1>4 DEF Sound, Active, At, Succeeded

\* Every other step of a worker.
LEMMA OtherSound ==
    ASSUME RunnerInv, NEW w \in Workers, Sound(worker[w]),
           \/ Claim(w) \/ Close(w) \/ Crash(w) \/ HeartbeatFails(w)
           \/ LeaseCheckFails(w) \/ (\E err \in {"retry", "final"} : BuildFails(w, err))
           \/ \E done \in BOOLEAN : BindFails(w, done) \/ SaveFails(w, done)
    PROVE  Sound(worker'[w])
<1>1. worker \in [Workers -> Local] /\ worker[w] \in Local
  BY DEF RunnerInv, TypeOK
<1>2. CASE Claim(w)
  <2>1. worker'[w] = [Idle EXCEPT !.pc = "claimed", !.token = item.claims + 1,
                                  !.tx = item.tx]
    BY <1>1, <1>2 DEF Claim
  <2>2. worker'[w].pc = "claimed" /\ ~worker'[w].intended
    BY <2>1 DEF Idle
  <2> QED
    BY <2>2, SoundAway DEF Active
<1>3. CASE Close(w) \/ Crash(w)
  <2>1. worker'[w] = Idle
    BY <1>1, <1>3 DEF Close, Crash, Stop
  <2>2. Idle.pc \notin Active /\ ~Idle.intended
    BY DEF Idle, Active
  <2> QED
    BY <2>1, <2>2, SoundAway
<1>4. CASE HeartbeatFails(w)
  <2>1. PICK heartbeat : worker' = [worker EXCEPT ![w].heartbeat = heartbeat]
    BY <1>4 DEF HeartbeatFails
  <2>2. /\ worker'[w].pc = worker[w].pc /\ worker'[w].tx = worker[w].tx
        /\ worker'[w].mem = worker[w].mem /\ worker'[w].base = worker[w].base
        /\ worker'[w].intended = worker[w].intended
    BY <1>1, <2>1 DEF Local
  <2> QED
    BY <2>2 DEF Sound
<1>5. CASE \/ LeaseCheckFails(w) \/ (\E err \in {"retry", "final"} : BuildFails(w, err))
           \/ \E done \in BOOLEAN : BindFails(w, done) \/ SaveFails(w, done)
  <2>1. /\ ~At(w, "idle") /\ ~At(w, "ending")
        /\ \E err \in {"lost", "renewal", "retry", "final"} : GiveUp(w, err)
    BY <1>5 DEF LeaseCheckFails, BuildFails, BindFails, SaveFails, At
  <2> QED
    BY <2>1, GiveUpSound
<1> QED
  BY <1>2, <1>3, <1>4, <1>5

SoundInv == \A w \in Workers : Sound(worker[w])

\* Whatever happens, every worker goes on from what it read or wrote last.
LEMMA SoundStep == RunnerInv /\ SoundInv /\ [Next]_vars => SoundInv'
<1> SUFFICES ASSUME RunnerInv, SoundInv, [Next]_vars, NEW v \in Workers
             PROVE  Sound(worker'[v])
  BY DEF SoundInv
<1>1. Sound(worker[v])
  BY DEF SoundInv
<1>2. CASE UNCHANGED worker
  BY <1>1, <1>2
<1>3. ASSUME NEW w \in Workers,
             Claim(w) \/ Prepare(w) \/ Run(w) \/ Return(w) \/ Close(w)
             \/ HeartbeatFails(w) \/ Crash(w)
      PROVE  Sound(worker'[v])
  <2>1. CASE v # w
    BY <1>1, <1>3, <2>1, StepOfWorker
  <2>2. CASE v = w
    BY <1>1, <1>3, <2>2, BindSound, LoadSound, AdvanceSound, SaveSound, ContinueSound,
       ReturnSound, OtherSound DEF Prepare, Run
  <2> QED
    BY <2>1, <2>2
<1> QED
  BY <1>2, <1>3 DEF Next, vars, Expire, ForceComplete, ForceFail, ForceTransition,
                    ManualRead, ManualSave
\* The holder that means to complete the item has seen the stored snapshot.
Confirmed(l) ==
    /\ l.intended /\ manual.saves = 0
    /\ item.status = "in_progress" /\ item.token = l.token
    => l.rev = store[l.tx].rev
ConfirmedInv == \A w \in Workers : Confirmed(worker[w])

\* An item that is claimed keeps its holder, or gets one with a new token; a write is the
\* holder's, or comes from outside.
LEMMA ClaimKept ==
    ASSUME RunnerInv, [Next]_vars, NEW v \in Workers, ~At(v, "idle"),
           manual'.saves = 0, item'.status = "in_progress", item'.token = worker[v].token
    PROVE  /\ manual.saves = 0 /\ item.status = "in_progress"
           /\ item.token = worker[v].token
           /\ \A w \in Workers \ {v} : ~Owns(w) \/ At(w, "idle")
<1>1. /\ item \in Item /\ manual.saves \in Nat /\ worker[v].token <= item.claims
      /\ item.claims \in Nat
  BY WorkerFacts DEF RunnerInv, TypeOK, Item, LocalInv, At
<1>2. manual.saves = 0
  <2>1. manual'.saves = manual.saves \/ manual'.saves = manual.saves + 1
    <3>1. CASE UNCHANGED manual
      BY <3>1
    <3>2. CASE \E t \in Ids : ManualRead(t)
      BY <3>2 DEF ManualRead, RunnerInv, TypeOK
    <3>3. CASE ManualSave
      BY <3>3 DEF ManualSave, Outside
    <3> QED
      BY <3>1, <3>2, <3>3
         DEF Next, vars, Prepare, Run, Claim, Bind, BindFails, Save, SaveFails, Load,
             BuildFails, Advance, Continue, LeaseCheckFails, Return, Close, HeartbeatFails,
             Crash, Expire, ForceComplete, ForceFail, ForceTransition
  <2> QED
    BY <1>1, <2>1
<1>3. item.status = "in_progress" /\ item.token = worker[v].token
  <2>1. CASE UNCHANGED item
    BY <2>1
  <2>2. ASSUME NEW w \in Workers, Claim(w) PROVE FALSE
    <3>1. item'.token = item.claims + 1
      BY <1>1, <2>2 DEF Claim, Item
    <3> QED
      BY <1>1, <3>1
  <2>3. CASE \E t \in Ids : item' = Bound(t)
    BY <1>1, <2>3 DEF Bound, Item
  <2>4. CASE Expire \/ \E w \in Workers : Close(w)
    <3>1. \/ UNCHANGED item \/ item' = [item EXCEPT !.status = "successful", !.token = NoClaim]
          \/ \E retry \in BOOLEAN : item' = Returned(item, retry)
      BY <2>4 DEF Expire, Close, Retry
    <3> QED
      BY <1>1, <2>1, <3>1, ReturnedLemma DEF Item
  <2>5. CASE ForceComplete
    BY <1>1, <2>5 DEF ForceComplete, ForceTransition, Item
  <2>6. ASSUME NEW retry \in BOOLEAN, ForceFail(retry) PROVE FALSE
    <3>1. Returned(item, retry) \in Item /\ Returned(item, retry).status # "in_progress"
      BY ReturnedLemma
    <3>2. item'.status = Returned(item, retry).status
      BY <2>6, <3>1 DEF ForceFail, ForceTransition, Item
    <3> QED
      BY <3>1, <3>2
  <2>7. ASSUME NEW w \in Workers, Bind(w) \/ \E done \in BOOLEAN : BindFails(w, done)
        PROVE  UNCHANGED item \/ \E t \in Ids : item' = Bound(t)
    <3>1. worker[w].token \in Ids
      BY <2>7, WorkerFacts DEF Bind, BindFails, At
    <3> QED
      BY <2>7, <3>1 DEF Bind, BindFails
  <2> QED
    BY <2>1, <2>2, <2>3, <2>4, <2>5, <2>6, <2>7
       DEF Next, vars, Prepare, Run, Save, SaveFails, Load, BuildFails, Advance, Continue,
           LeaseCheckFails, Return, HeartbeatFails, Crash, ManualRead, ManualSave
<1>4. \A w \in Workers \ {v} : ~Owns(w) \/ At(w, "idle")
  BY <1>3 DEF Owns, RunnerInv, Distinct
<1> QED
  BY <1>2, <1>3, <1>4

\* Only the holder writes, unless the write comes from outside.
LEMMA WriterOwns ==
    ASSUME RunnerInv, [Next]_vars, store' # store, ~ManualSave
    PROVE  \E w \in Workers :
             /\ ~At(w, "idle")
             /\ \/ /\ At(w, "claimed") /\ worker[w].tx = NoTransaction
                   /\ Fence(w, worker[w].token)
                   /\ store' = Written(worker[w].token, Fresh)
                   /\ Bind(w) \/ \E done \in BOOLEAN : BindFails(w, done)
                \/ /\ At(w, "moved") /\ Fence(w, worker[w].tx)
                   /\ store' = Written(worker[w].tx, worker[w].mem)
                   /\ Save(w) \/ \E done \in BOOLEAN : SaveFails(w, done)
<1>1. PICK w \in Workers : \/ Bind(w) \/ Save(w)
                           \/ \E done \in BOOLEAN : BindFails(w, done) \/ SaveFails(w, done)
  BY DEF Next, vars, Prepare, Run, Claim, Load, BuildFails, Advance, Continue,
         LeaseCheckFails, Return, Close, HeartbeatFails, Crash, Expire, ForceComplete,
         ForceFail, ForceTransition, ManualRead
<1>2. CASE Bind(w) \/ \E done \in BOOLEAN : BindFails(w, done)
  BY <1>2 DEF Bind, BindFails, At
<1>3. CASE Save(w) \/ \E done \in BOOLEAN : SaveFails(w, done)
  BY <1>3 DEF Save, SaveFails, At
<1> QED
  BY <1>1, <1>2, <1>3

\* Where its step takes a worker.
LEMMA NewPc ==
    ASSUME RunnerInv, NEW v \in Workers
    PROVE  /\ Claim(v) => worker'[v].pc = "claimed"
           /\ Close(v) \/ Crash(v) => worker'[v].pc = "idle"
           /\ Load(v) \/ Continue(v) => worker'[v].pc \in {"running", "returned"}
           /\ Advance(v) => worker'[v].pc = "moved"
           /\ Bind(v) /\ Fence(v, worker[v].token) => worker'[v].pc = "running"
           /\ Save(v) /\ Fence(v, worker[v].tx) =>
                worker'[v].pc = "saved" /\ worker'[v].mem = worker[v].mem
           /\ Return(v) \/ (\E err : GiveUp(v, err)) => worker'[v].pc = "ending"
<1>1. worker \in [Workers -> Local] /\ worker[v] \in Local
  BY DEF RunnerInv, TypeOK
<1>2. ASSUME Claim(v) PROVE worker'[v].pc = "claimed"
  BY <1>1, <1>2 DEF Claim, Idle
<1>3. ASSUME Close(v) \/ Crash(v) PROVE worker'[v].pc = "idle"
  BY <1>1, <1>3 DEF Close, Crash, Stop, Idle
<1>4. ASSUME Load(v) PROVE worker'[v].pc \in {"running", "returned"}
  <2>1. PICK tx : worker' = [worker EXCEPT ![v] =
                      [@ EXCEPT !.pc = IF NeedsRun(tx) THEN "running" ELSE "returned",
                                !.rev = store[worker[v].tx].rev, !.mem = tx,
                                !.base = store[worker[v].tx].tx]]
    BY <1>4 DEF Load
  <2> QED
    BY <1>1, <2>1 DEF Local
<1>5. ASSUME Advance(v) PROVE worker'[v].pc = "moved"
  <2>1. PICK tx : worker' = [worker EXCEPT ![v] = [@ EXCEPT !.pc = "moved", !.mem = tx]]
    BY <1>5 DEF Advance
  <2> QED
    BY <1>1, <2>1 DEF Local
<1>6. ASSUME Continue(v) PROVE worker'[v].pc \in {"running", "returned"}
  <2>1. PICK pc \in {"running", "returned"} : worker' = [worker EXCEPT ![v].pc = pc]
    BY <1>6 DEF Continue, Goto
  <2> QED
    BY <1>1, <2>1 DEF Local
<1>7. ASSUME Bind(v), Fence(v, worker[v].token) PROVE worker'[v].pc = "running"
  <2>1. PICK tx : worker' = [worker EXCEPT ![v] = [@ EXCEPT !.pc = "running",
                                                  !.tx = worker[v].token, !.rev = 1,
                                                  !.mem = Fresh, !.base = tx]]
    BY <1>7 DEF Bind
  <2> QED
    BY <1>1, <2>1 DEF Local
<1>8. ASSUME Save(v), Fence(v, worker[v].tx)
      PROVE  worker'[v].pc = "saved" /\ worker'[v].mem = worker[v].mem
  <2>1. worker' = [worker EXCEPT ![v] = [@ EXCEPT !.pc = "saved", !.rev = store'[worker[v].tx].rev,
                                                  !.base = store'[worker[v].tx].tx]]
    BY <1>8 DEF Save
  <2> QED
    BY <1>1, <2>1 DEF Local
<1>9. ASSUME Return(v) \/ \E err : GiveUp(v, err) PROVE worker'[v].pc = "ending"
  <2>1. CASE Return(v)
    <3>1. PICK intended : worker' = [worker EXCEPT ![v] = [@ EXCEPT !.pc = "ending",
                                                                    !.intended = intended]]
      BY <2>1 DEF Return
    <3> QED
      BY <1>1, <3>1 DEF Local
  <2>2. CASE \E err : GiveUp(v, err)
    <3>1. PICK err : worker' = [worker EXCEPT ![v] = [@ EXCEPT !.pc = "ending", !.err = err]]
      BY <2>2 DEF GiveUp
    <3> QED
      BY <1>1, <3>1 DEF Local
  <2> QED
    BY <1>9, <2>1, <2>2
<1> QED
  BY <1>2, <1>3, <1>4, <1>5, <1>6, <1>7, <1>8, <1>9

LEMMA ConfirmedStep == RunnerInv /\ SoundInv /\ ConfirmedInv /\ [Next]_vars => ConfirmedInv'
<1> SUFFICES ASSUME RunnerInv, SoundInv, ConfirmedInv, [Next]_vars, NEW v \in Workers,
                    worker'[v].intended, manual'.saves = 0,
                    item'.status = "in_progress", item'.token = worker'[v].token
             PROVE  worker'[v].rev = store'[worker'[v].tx].rev
  BY DEF ConfirmedInv, Confirmed
<1> DEFINE Same == /\ worker'[v].intended = worker[v].intended /\ worker'[v].rev = worker[v].rev
                   /\ worker'[v].tx = worker[v].tx /\ worker'[v].token = worker[v].token
<1>1. /\ worker \in [Workers -> Local] /\ worker[v] \in Local
      /\ Sound(worker[v]) /\ Sound(worker'[v]) /\ Confirmed(worker[v])
  BY SoundStep DEF RunnerInv, TypeOK, SoundInv, ConfirmedInv
<1>2. worker'[v].pc = "ending"
  BY <1>1 DEF Sound
<1>3. CASE Return(v)
  <2>1. /\ At(v, "returned") /\ ~At(v, "idle") /\ UNCHANGED <<item, store, manual>>
        /\ worker' = [worker EXCEPT ![v] = [@ EXCEPT !.pc = "ending",
                                                     !.intended = Succeeded(worker[v].mem)]]
    BY <1>3 DEF Return, At
  <2>2. /\ worker'[v].rev = worker[v].rev /\ worker'[v].tx = worker[v].tx
        /\ worker'[v].token = worker[v].token
    BY <1>1, <2>1 DEF Local
  <2>3. LocalInv(worker[v])
    BY DEF RunnerInv
  <2> QED
    BY <2>1, <2>2, <2>3 DEF LocalInv, At, Active
<1>4. CASE ~Return(v)
  <2>1. Same
    <3>1. CASE worker'[v] = worker[v]
      BY <3>1
    <3>2. CASE HeartbeatFails(v)
      <4>1. PICK heartbeat : worker' = [worker EXCEPT ![v].heartbeat = heartbeat]
        BY <3>2 DEF HeartbeatFails
      <4>2. worker'[v] = [worker[v] EXCEPT !.heartbeat = heartbeat]
        BY <1>1, <4>1
      <4> QED
        BY <1>1, <4>2 DEF Local
    <3>3. CASE \E err \in {"lost", "renewal", "retry", "final"} : GiveUp(v, err)
      <4>1. PICK err : worker' = [worker EXCEPT ![v] = [@ EXCEPT !.pc = "ending", !.err = err]]
        BY <3>3 DEF GiveUp
      <4>2. worker'[v] = [worker[v] EXCEPT !.pc = "ending", !.err = err]
        BY <1>1, <4>1
      <4> QED
        BY <1>1, <4>2 DEF Local
    <3>4. ASSUME Claim(v) \/ Load(v) \/ Advance(v) \/ Continue(v) \/ Close(v) \/ Crash(v)
                 \/ (Bind(v) /\ Fence(v, worker[v].token))
                 \/ (Save(v) /\ Fence(v, worker[v].tx))
          PROVE  FALSE
      BY <1>2, <3>4, NewPc
    <3>5. ASSUME NEW w \in Workers, w # v,
                 Claim(w) \/ Prepare(w) \/ Run(w) \/ Return(w) \/ Close(w)
                 \/ HeartbeatFails(w) \/ Crash(w)
          PROVE  worker'[v] = worker[v]
      BY <3>5, StepOfWorker
    <3>6. ASSUME Claim(v) \/ Prepare(v) \/ Run(v) \/ Close(v) \/ HeartbeatFails(v) \/ Crash(v)
          PROVE  Same
      <4>1. CASE Prepare(v)
        BY <3>3, <3>4, <4>1 DEF Prepare, Bind, BindFails, BuildFails
      <4>2. CASE Run(v)
        BY <3>3, <3>4, <4>2 DEF Run, Save, SaveFails, LeaseCheckFails
      <4> QED
        BY <3>2, <3>4, <3>6, <4>1, <4>2
    <3>7. CASE UNCHANGED worker
      BY <3>7
    <3> QED
      BY <1>4, <3>1, <3>5, <3>6, <3>7
         DEF Next, vars, Expire, ForceComplete, ForceFail, ForceTransition, ManualRead,
             ManualSave
  <2>2. worker[v].intended /\ worker[v].pc = "ending" /\ worker[v].tx # NoTransaction
    BY <1>1, <2>1 DEF Sound
  <2>3. /\ manual.saves = 0 /\ item.status = "in_progress" /\ item.token = worker[v].token
        /\ \A w \in Workers \ {v} : ~Owns(w) \/ At(w, "idle")
    BY <2>1, <2>2, ClaimKept DEF At
  <2>4. worker[v].rev = store[worker[v].tx].rev
    BY <1>1, <2>2, <2>3 DEF Confirmed
  <2>5. store' = store
    <3>1. ~ManualSave
      <4>1. ManualSave => manual'.saves = manual.saves + 1
        BY DEF ManualSave, Outside
      <4> QED
        BY <2>3, <4>1
    <3> QED
      BY <2>2, <2>3, <3>1, WriterOwns DEF Fence, At
  <2> QED
    BY <2>1, <2>4, <2>5
<1> QED
  BY <1>3, <1>4

\* At the start nobody has anything in hand.
LEMMA SoundInit == Init => SoundInv /\ ConfirmedInv
<1>1. Idle.pc \notin Active /\ ~Idle.intended
  BY DEF Idle, Active
<1> QED
  BY <1>1, SoundAway DEF Init, SoundInv, ConfirmedInv, Confirmed

StoredInv == RunnerInv /\ SoundInv /\ ConfirmedInv

\* What every worker remembers is sound, in every reachable state.
THEOREM StoredInvariant == Spec => []StoredInv
<1>1. Init => StoredInv
  BY InitInv, SoundInit DEF StoredInv
<1>2. StoredInv /\ [Next]_vars => StoredInv'
  BY RunnerInvStep, SoundStep, ConfirmedStep DEF StoredInv
<1> QED
  BY <1>1, <1>2, PTL DEF Spec
\* Nobody but save_transaction replaces a stored success, and no write undoes the outcome of
\* a step that recovery respects.
LEMMA StoredOutcomeStep ==
    ASSUME RunnerInv, SoundInv, [Next]_vars, UNCHANGED manual, NEW t \in Ids
    PROVE  /\ store[t].tx.status = "successful" => store'[t] = store[t]
           /\ store[t] # Absent =>
                \A s \in Steps : Barred(store[t].tx, s) =>
                    store'[t].tx.steps[s] = store[t].tx.steps[s]
<1>1. store \in [Ids -> Snapshot] /\ manual.saves \in Nat
  BY DEF RunnerInv, TypeOK
<1>2. ~ManualSave
  <2>1. ManualSave => manual'.saves = manual.saves + 1
    BY DEF ManualSave, Outside
  <2> QED
    BY <1>1, <2>1
<1>3. SUFFICES ASSUME store'[t] # store[t]
               PROVE  /\ store[t].tx.status # "successful"
                      /\ store[t] # Absent =>
                           \A s \in Steps : Barred(store[t].tx, s) =>
                               store'[t].tx.steps[s] = store[t].tx.steps[s]
  OBVIOUS
<1>4. PICK w \in Workers :
         /\ ~At(w, "idle")
         /\ \/ /\ At(w, "claimed") /\ worker[w].tx = NoTransaction
               /\ Fence(w, worker[w].token)
               /\ store' = Written(worker[w].token, Fresh)
            \/ /\ At(w, "moved") /\ Fence(w, worker[w].tx)
               /\ store' = Written(worker[w].tx, worker[w].mem)
  BY <1>2, <1>3, WriterOwns
<1>5. worker[w] \in Local /\ LocalInv(worker[w]) /\ Sound(worker[w])
  BY <1>4, WorkerFacts DEF SoundInv
<1>6. CASE At(w, "claimed")
  <2>1. Fence(w, worker[w].token) /\ store' = Written(worker[w].token, Fresh)
    BY <1>4, <1>6 DEF At
  <2>2. t = worker[w].token
    BY <1>1, <1>3, <2>1 DEF Written
  <2>3. store[t] = Absent
    BY <1>5, <1>6, <2>1, <2>2 DEF Fence, LocalInv, At, RunnerInv, StoreInv
  <2> QED
    BY <2>3 DEF Absent, Nothing
<1>7. CASE At(w, "moved")
  <2>1. Fence(w, worker[w].tx) /\ store' = Written(worker[w].tx, worker[w].mem)
    BY <1>4, <1>7 DEF At
  <2>2. t = worker[w].tx
    BY <1>1, <1>3, <2>1 DEF Written
  <2>3. worker[w].base = store[t].tx /\ store'[t].tx = worker[w].mem
    BY <1>5, <1>7, <2>1, <2>2, SavedIsMem
  <2>4. worker[w].base.status # "successful" /\ Kept(worker[w].base, worker[w].mem)
    BY <1>5, <1>7 DEF Sound, At, Active
  <2> QED
    BY <2>3, <2>4 DEF Kept
<1> QED
  BY <1>4, <1>6, <1>7

\* A stored success of the whole transaction is final: no worker runs it or writes it again,
\* however late its claim, its checkpoint or its crash.
THEOREM StoredVerdictAlwaysFinal == Spec => StoredVerdictIsFinal
<1>1. StoredInv /\ [Next]_vars =>
        [UNCHANGED manual => \A t \in Ids :
            store[t].tx.status = "successful" => store'[t] = store[t]]_vars
  BY StoredOutcomeStep DEF StoredInv
<1> QED
  BY <1>1, StoredInvariant, PTL DEF Spec, StoredVerdictIsFinal

\* No worker takes back a stored success of a step, nor a business failure that is not to be
\* retried.
THEOREM StoredOutcomeAlwaysKept == Spec => StoredOutcomeIsKept
<1>1. StoredInv /\ [Next]_vars =>
        [UNCHANGED manual => \A t \in Ids : store[t] # Absent => \A s \in Steps :
            LET before == store[t].tx
                after == store'[t].tx
            IN  /\ before.steps[s].status = "successful"
                   => after.steps[s] = before.steps[s]
                /\ s \in BusinessFailed(before) /\ ~RetryBusiness
                   => after.steps[s] = before.steps[s]]_vars
  BY StoredOutcomeStep DEF StoredInv, Barred
<1> QED
  BY <1>1, StoredInvariant, PTL DEF Spec, StoredOutcomeIsKept

\* The item is completed for a stored success only.
LEMMA CompletionStep ==
    ASSUME StoredInv, [Next]_vars, item'.status = "successful",
           item.status # "successful", UNCHANGED item.forced, manual.saves = 0
    PROVE  store[item.tx].tx.status = "successful"
<1>1. item \in Item /\ RunnerInv
  BY DEF StoredInv, RunnerInv, TypeOK
<1>2. PICK w \in Workers : Close(w) /\ Owns(w) /\ worker[w].intended
  <2>1. ASSUME NEW retry \in BOOLEAN, item' = Returned(item, retry) PROVE FALSE
    BY <1>1, <2>1, ReturnedLemma
  <2>2. ASSUME ForceComplete PROVE FALSE
    BY <1>1, <2>2 DEF ForceComplete, ForceTransition, Item
  <2>3. ASSUME NEW retry \in BOOLEAN, ForceFail(retry) PROVE FALSE
    <3>1. Returned(item, retry) \in Item /\ Returned(item, retry).status # "successful"
      BY <1>1, ReturnedLemma
    <3> QED
      BY <2>3, <3>1 DEF ForceFail, ForceTransition, Item
  <2>4. ASSUME NEW t \in Ids, item' = Bound(t) PROVE FALSE
    BY <1>1, <2>4 DEF Bound, Item
  <2>5. ASSUME NEW w \in Workers, Bind(w) \/ \E done \in BOOLEAN : BindFails(w, done)
        PROVE  UNCHANGED item
    <3>1. worker[w].token \in Ids
      BY <1>1, <2>5, WorkerFacts DEF Bind, BindFails, At
    <3> QED
      BY <2>4, <2>5, <3>1 DEF Bind, BindFails
  <2>6. ASSUME NEW w \in Workers, Claim(w) PROVE FALSE
    BY <1>1, <2>6 DEF Claim, Item
  <2>7. ASSUME NEW w \in Workers, Close(w), ~(Owns(w) /\ worker[w].intended)
        PROVE  UNCHANGED item
    <3>1. Retry(w) \in BOOLEAN
      BY DEF Retry
    <3> QED
      BY <2>1, <2>7, <3>1 DEF Close
  <2>8. ~UNCHANGED item
    OBVIOUS
  <2> QED
    BY <2>1, <2>2, <2>3, <2>5, <2>6, <2>7, <2>8
       DEF Next, vars, Expire, Prepare, Run, Save, SaveFails, Load, BuildFails, Advance,
           Continue, LeaseCheckFails, Return, HeartbeatFails, Crash, ManualRead, ManualSave
<1>3. Sound(worker[w]) /\ Confirmed(worker[w]) /\ LocalInv(worker[w])
  BY DEF StoredInv, SoundInv, ConfirmedInv, RunnerInv
<1>4. /\ worker[w].tx # NoTransaction /\ worker[w].tx = item.tx
      /\ worker[w].base.status = "successful"
  BY <1>2, <1>3 DEF Sound, LocalInv
<1>5. worker[w].rev = store[worker[w].tx].rev
  BY <1>2, <1>3 DEF Confirmed, Owns
<1> QED
  BY <1>3, <1>4, <1>5 DEF LocalInv

\* complete() is called for a success that is stored, also by a worker that slept between its
\* last checkpoint and the call.
THEOREM CompletionAlwaysStored == Spec => CompletionIsStored
<1>1. StoredInv /\ [Next]_vars =>
        [/\ item'.status = "successful" /\ item.status # "successful"
         /\ UNCHANGED item.forced /\ manual.saves = 0
         => store[item.tx].tx.status = "successful"]_vars
  BY CompletionStep
<1> QED
  BY <1>1, StoredInvariant, PTL DEF Spec, CompletionIsStored
-----------------------------------------------------------------------------
(* Every execution is on record                                              *)

\* The stored history of the item's transaction, and the starts of a step in it.
Log == store[item.tx].tx.history
Starts(s) == {k \in DOMAIN Log : StartOf(Log[k], s)}

\* A worker that has stored the start of s and is about to execute it; the position of its
\* entry is a ticket for one execution that is not counted yet.
Ready(l, s) == l.pc = "saved" /\ s \in Executing(l.mem)
Ticket(l) == Len(l.mem.history)
Tickets(s) == {Ticket(worker[w]) : w \in {v \in Workers : Ready(worker[v], s)}}

\* Beside the tickets, which are all different, there are as many starts as executions.
RecordInv ==
    /\ \A w \in Workers, s \in Steps : Ready(worker[w], s) => Ticket(worker[w]) \in Starts(s)
    /\ \A v, w \in Workers, s \in Steps : Ready(worker[v], s) /\ Ready(worker[w], s) /\ v # w
                                          => Ticket(worker[v]) # Ticket(worker[w])
    /\ \A s \in Steps : IF item.tx = NoTransaction THEN bodies[s] = 0
                        ELSE bodies[s] <= Cardinality(Starts(s) \ Tickets(s))

\* Sets of positions are finite.
LEMMA StartsFinite ==
    ASSUME NEW h \in Seq(Entry), NEW S \in SUBSET DOMAIN h
    PROVE  IsFiniteSet(S) /\ Cardinality(S) \in Nat
<1>1. DOMAIN h = 1..Len(h) /\ Len(h) \in Int
  OBVIOUS
<1>2. IsFiniteSet(1..Len(h))
  BY <1>1, FS_Interval
<1> QED
  BY <1>1, <1>2, FS_Subset, FS_CardinalityType

\* A worker that is ready holds the item's transaction.
LEMMA ReadyBound ==
    ASSUME RunnerInv, NEW w \in Workers, NEW s, Ready(worker[w], s)
    PROVE  /\ item.tx \in Ids /\ item.tx = worker[w].tx /\ worker[w].mem \in Transaction
           /\ Ticket(worker[w]) \in Nat
<1>1. ~At(w, "idle") /\ worker[w].pc \in Active
  BY DEF Ready, At, Active
<1>2. /\ worker[w].tx \in Ids /\ worker[w].mem \in Transaction /\ LocalInv(worker[w])
      /\ worker[w].tx # NoTransaction
  BY <1>1, WorkerFacts DEF LocalInv
<1> QED
  BY <1>2, TransactionParts DEF LocalInv, Ticket

\* The stored history only grows at its end, and the item stays bound.
LEMMA LogGrows ==
    ASSUME RunnerInv, [Next]_vars, item.tx # NoTransaction
    PROVE  /\ item'.tx = item.tx
           /\ Log \in Seq(Entry) /\ Log' \in Seq(Entry) /\ Pre(Log, Log')
<1>1. /\ item \in Item /\ item.tx \in Ids /\ store \in [Ids -> Snapshot]
      /\ Log \in Seq(Entry) /\ RunnerInv'
  BY BoundIsStored, StoredHistory, RunnerInvStep DEF RunnerInv, TypeOK, Log
<1>2. CASE UNCHANGED store
  <2>1. store[item.tx] # Absent /\ store'[item.tx] # Absent
    BY <1>1, <1>2 DEF RunnerInv, OneTransactionPerItem
  <2>2. item'.tx = item.tx
    BY <1>1, <2>1 DEF RunnerInv, OneTransactionPerItem
  <2> QED
    BY <1>1, <1>2, <2>2 DEF Log, Pre
<1>3. CASE ManualSave
  <2> DEFINE t == manual.tx
  <2>1. /\ t = item.tx /\ manual.mem \in Transaction
        /\ store' = Written(t, manual.mem) /\ UNCHANGED item
    BY <1>3 DEF ManualSave, RunnerInv, ManualInv
  <2>2. Pre(store[t].tx.history, store'[t].tx.history)
    BY <1>1, <2>1, WrittenExact
  <2>3. Log' \in Seq(Entry)
    BY <1>1, <2>1, StoredHistory, MergedType, WrittenExact, TransactionParts DEF Log
  <2> QED
    BY <1>1, <2>1, <2>2, <2>3 DEF Log
<1>4. CASE store' # store /\ ~ManualSave
  <2>1. PICK w \in Workers :
           /\ ~At(w, "idle")
           /\ \/ /\ At(w, "claimed") /\ worker[w].tx = NoTransaction
                 /\ Fence(w, worker[w].token)
                 /\ store' = Written(worker[w].token, Fresh)
              \/ /\ At(w, "moved") /\ Fence(w, worker[w].tx)
                 /\ store' = Written(worker[w].tx, worker[w].mem)
    BY <1>4, WriterOwns
  <2>2. PICK t \in Ids, tx \in Transaction : store' = Written(t, tx) /\ item.tx \in {NoTransaction, t}
    BY <2>1, WorkerFacts, FreshType DEF Fence, At, Active
  <2>3. t = item.tx /\ store[t] # Absent
    BY <1>1, <2>2 DEF RunnerInv, OneTransactionPerItem
  <2>4. Pre(store[t].tx.history, store'[t].tx.history)
    BY <2>2, WrittenExact
  <2>5. store'[t].tx \in Transaction
    BY <1>1, <2>2, WrittenLemma
  <2>6. store'[t] # Absent
    BY <2>5, TransactionParts DEF Absent
  <2>7. item'.tx = t
    BY <1>1, <2>6 DEF RunnerInv, OneTransactionPerItem
  <2>8. store'[t].tx.history \in Seq(Entry)
    BY <2>5, TransactionParts
  <2> QED
    BY <1>1, <2>3, <2>4, <2>7, <2>8 DEF Log
<1> QED
  BY <1>2, <1>3, <1>4

\* A worker becomes ready by its checkpoint only, which puts its ticket at the new end of
\* the stored history.
LEMMA ReadyStep ==
    ASSUME StoredInv, [Next]_vars, NEW v \in Workers, NEW s, Ready(worker'[v], s)
    PROVE  \/ /\ Ready(worker[v], s) /\ worker'[v].mem = worker[v].mem /\ ~Continue(v)
           \/ /\ item.tx \in Ids /\ item'.tx = item.tx /\ UNCHANGED bodies
              /\ Log' = worker'[v].mem.history /\ Len(Log) < Ticket(worker'[v])
              /\ Log' \in Seq(Entry)
              /\ StartOf(worker'[v].mem.history[Ticket(worker'[v])], s)
              /\ \A u \in Workers \ {v} : worker'[u] = worker[u]
<1>1. /\ worker \in [Workers -> Local] /\ worker[v] \in Local /\ RunnerInv
      /\ worker'[v].pc = "saved" /\ s \in Executing(worker'[v].mem)
      /\ Sound(worker[v])
  BY DEF StoredInv, RunnerInv, TypeOK, Ready, SoundInv
<1>2. CASE worker'[v] = worker[v] /\ ~Continue(v)
  BY <1>2
<1>3. CASE HeartbeatFails(v)
  <2>1. PICK heartbeat : worker' = [worker EXCEPT ![v].heartbeat = heartbeat]
    BY <1>3 DEF HeartbeatFails
  <2>2. worker'[v] = [worker[v] EXCEPT !.heartbeat = heartbeat]
    BY <1>1, <2>1
  <2>3. worker'[v].pc = worker[v].pc /\ worker'[v].mem = worker[v].mem
    BY <1>1, <2>2 DEF Local
  <2>4. ~Continue(v)
    BY <1>1, NewPc
  <2> QED
    BY <1>1, <2>3, <2>4 DEF Ready
<1>4. CASE Save(v) /\ Fence(v, worker[v].tx)
  <2> DEFINE t == worker[v].tx
             mem == worker[v].mem
  <2>1. /\ At(v, "moved") /\ ~At(v, "idle") /\ store' = Written(t, mem)
        /\ UNCHANGED <<item, bodies>>
    BY <1>4 DEF Save, At
  <2>2. worker'[v].mem = mem /\ mem \in Transaction
    BY <1>1, <1>4, <2>1, NewPc, WorkerFacts DEF At, Active
  <2>3. /\ t \in Ids /\ worker[v].base = store[t].tx /\ item.tx = t
        /\ store'[t].tx = mem
    BY <1>1, <1>4, <2>1, SavedIsMem
  <2>4. Len(worker[v].base.history) < Len(mem.history) /\ Started(mem)
    BY <1>1, <2>1 DEF Sound, At
  <2>5. \A u \in Workers \ {v} : worker'[u] = worker[u]
    BY <1>1, <1>4, StepOfWorker DEF Run
  <2>6. Log' = mem.history /\ Len(Log) < Len(mem.history)
    BY <2>1, <2>3, <2>4 DEF Log
  <2>7. StartOf(mem.history[Len(mem.history)], s)
    BY <1>1, <2>2, <2>4 DEF Started
  <2> QED
    BY <2>1, <2>2, <2>3, <2>5, <2>6, <2>7, TransactionParts DEF Ticket
<1>5. ASSUME Claim(v) \/ Load(v) \/ Continue(v) \/ Close(v) \/ Crash(v) \/ Advance(v)
             \/ (Bind(v) /\ Fence(v, worker[v].token)) \/ Return(v) \/ \E err : GiveUp(v, err)
      PROVE  FALSE
  BY <1>1, <1>5, NewPc
<1>6. ASSUME NEW w \in Workers, w # v,
             Claim(w) \/ Prepare(w) \/ Run(w) \/ Return(w) \/ Close(w)
             \/ HeartbeatFails(w) \/ Crash(w)
      PROVE  worker'[v] = worker[v]
  BY <1>1, <1>6, StepOfWorker
<1>7. ASSUME Prepare(v) \/ Run(v) PROVE Save(v) /\ Fence(v, worker[v].tx)
  <2>1. CASE Prepare(v)
    BY <1>5, <2>1 DEF Prepare, Bind, BindFails, BuildFails
  <2>2. CASE Run(v)
    BY <1>5, <2>2 DEF Run, Save, SaveFails, LeaseCheckFails
  <2> QED
    BY <1>7, <2>1, <2>2
<1>8. CASE UNCHANGED worker
  BY <1>2, <1>5, <1>8
<1> QED
  BY <1>2, <1>3, <1>4, <1>5, <1>6, <1>7, <1>8
     DEF Next, vars, Expire, ForceComplete, ForceFail, ForceTransition, ManualRead, ManualSave
\* One ticket more.
LEMMA OneMore ==
    ASSUME NEW S, NEW T, NEW k, IsFiniteSet(T), S \subseteq T, k \in T, k \notin S
    PROVE  Cardinality(S) + 1 <= Cardinality(T)
<1>1. IsFiniteSet(S) /\ S \cup {k} \subseteq T
  BY FS_Subset
<1>2. Cardinality(S \cup {k}) = Cardinality(S) + 1
  BY <1>1, FS_AddElement
<1>3. Cardinality(S \cup {k}) <= Cardinality(T)
  BY <1>1, FS_Subset
<1> QED
  BY <1>2, <1>3

\* The step that binds the item finds nothing executed, and leaves nobody ready.
LEMMA RecordUnbound ==
    ASSUME StoredInv, RecordInv, [Next]_vars, item.tx = NoTransaction
    PROVE  RecordInv'
<1>1. RunnerInv /\ RunnerInv'
  BY RunnerInvStep DEF StoredInv
<1>2. \A w \in Workers, s \in Steps : ~Ready(worker'[w], s)
  <2>1. \A w \in Workers, s \in Steps : ~Ready(worker[w], s)
    BY <1>1, ReadyBound DEF NoTransaction, Ids
  <2> QED
    BY <2>1, ReadyStep DEF NoTransaction, Ids
<1>3. bodies' = bodies
  <2>1. ~\E w \in Workers : Continue(w)
    <3>1. SUFFICES ASSUME NEW w \in Workers, Continue(w) PROVE FALSE
      OBVIOUS
    <3>2. worker[w].pc \in Active /\ ~At(w, "idle")
      BY <3>1 DEF Continue, At, Active
    <3>3. LocalInv(worker[w])
      BY <1>1 DEF RunnerInv
    <3> QED
      BY <3>2, <3>3 DEF LocalInv
  <2> QED
    BY <2>1 DEF Next, vars, Prepare, Run, Claim, Bind, BindFails, Save, SaveFails, Load,
                BuildFails, Advance, LeaseCheckFails, Return, Close, HeartbeatFails, Crash,
                Expire, ForceComplete, ForceFail, ForceTransition, ManualRead, ManualSave
<1>4. \A s \in Steps : bodies'[s] = 0
  BY <1>3 DEF RecordInv
<1>5. ASSUME item'.tx # NoTransaction, NEW s \in Steps
      PROVE  0 <= Cardinality((Starts(s) \ Tickets(s))')
  <2>1. item'.tx \in Ids
    BY <1>1, <1>5 DEF RunnerInv, TypeOK, Item
  <2>2. Log' \in Seq(Entry)
    <3>1. store'[item'.tx] # Absent
      BY <1>1, <1>5, <2>1 DEF RunnerInv, OneTransactionPerItem
    <3>2. store'[item'.tx].tx \in Transaction
      BY <1>1, <2>1, <3>1 DEF RunnerInv, StoreInv
    <3> QED
      BY <3>2, TransactionParts DEF Log
  <2>3. (Starts(s) \ Tickets(s))' \in SUBSET DOMAIN Log'
    BY DEF Starts
  <2>4. Cardinality((Starts(s) \ Tickets(s))') \in Nat
    BY <2>2, <2>3, StartsFinite
  <2> QED
    BY <2>4
<1> QED
  BY <1>2, <1>4, <1>5 DEF RecordInv

\* A ticket that was issued, or the one that is issued now.
LEMMA TicketStep ==
    ASSUME StoredInv, RecordInv, [Next]_vars, item.tx # NoTransaction,
           NEW v \in Workers, NEW s \in Steps, Ready(worker'[v], s)
    PROVE  \/ /\ Ready(worker[v], s) /\ Ticket(worker'[v]) = Ticket(worker[v])
              /\ Ticket(worker[v]) \in Starts(s) /\ ~Continue(v)
           \/ /\ Ticket(worker'[v]) > Len(Log) /\ Ticket(worker'[v]) \in Starts(s)'
              /\ UNCHANGED bodies
              /\ \A u \in Workers \ {v} : worker'[u] = worker[u]
<1>1. CASE Ready(worker[v], s) /\ worker'[v].mem = worker[v].mem /\ ~Continue(v)
  BY <1>1 DEF Ticket, RecordInv
<1>2. CASE /\ item.tx \in Ids /\ item'.tx = item.tx /\ UNCHANGED bodies
           /\ Log' = worker'[v].mem.history /\ Len(Log) < Ticket(worker'[v])
           /\ Log' \in Seq(Entry)
           /\ StartOf(worker'[v].mem.history[Ticket(worker'[v])], s)
           /\ \A u \in Workers \ {v} : worker'[u] = worker[u]
  <2> DEFINE k == Ticket(worker'[v])
             h == worker'[v].mem.history
  <2>1. k = Len(h) /\ h \in Seq(Entry)
    BY <1>2 DEF Ticket
  <2>2. Log \in Seq(Entry)
    BY LogGrows DEF StoredInv
  <2>3. k \in Nat /\ Len(Log) \in Nat /\ DOMAIN h = 1..Len(h)
    BY <2>1, <2>2
  <2>4. k \in DOMAIN h /\ k > Len(Log)
    BY <1>2, <2>1, <2>3
  <2> QED
    BY <1>2, <2>4 DEF Starts
<1> QED
  BY <1>1, <1>2, ReadyStep

LEMMA RecordStep == StoredInv /\ RecordInv /\ [Next]_vars => RecordInv'
<1> SUFFICES ASSUME StoredInv, RecordInv, [Next]_vars PROVE RecordInv'
  OBVIOUS
<1>1. CASE item.tx = NoTransaction
  BY <1>1, RecordUnbound
<1>2. CASE item.tx # NoTransaction
  <2>1. /\ item'.tx = item.tx /\ Log \in Seq(Entry) /\ Log' \in Seq(Entry)
        /\ Pre(Log, Log') /\ RunnerInv
    BY <1>2, LogGrows DEF StoredInv
  <2>2. Len(Log) \in Nat /\ DOMAIN Log = 1..Len(Log) /\ Len(Log') \in Nat
        /\ DOMAIN Log' = 1..Len(Log')
    BY <2>1
  <2>3. \A s \in Steps : Starts(s) \subseteq Starts(s)' /\ \A k \in Starts(s) : k <= Len(Log)
    BY <2>1, <2>2 DEF Starts, Pre
  <2>4. ASSUME NEW w \in Workers, NEW s \in Steps, Ready(worker'[w], s)
        PROVE  Ticket(worker'[w]) \in Starts(s)'
    BY <1>2, <2>3, <2>4, TicketStep
  <2>5. ASSUME NEW v \in Workers, NEW w \in Workers, NEW s \in Steps, v # w,
               Ready(worker'[v], s), Ready(worker'[w], s)
        PROVE  Ticket(worker'[v]) # Ticket(worker'[w])
    <3>1. ASSUME NEW u \in Workers, NEW o \in Workers, u # o, Ready(worker'[u], s),
                 Ready(worker'[o], s), Ticket(worker'[u]) > Len(Log),
                 \A x \in Workers \ {u} : worker'[x] = worker[x]
          PROVE  Ticket(worker'[u]) # Ticket(worker'[o])
      <4>1. worker'[o] = worker[o]
        BY <3>1
      <4>2. Ticket(worker[o]) \in Starts(s)
        BY <3>1, <4>1 DEF RecordInv
      <4>3. Ticket(worker[o]) <= Len(Log) /\ Ticket(worker[o]) \in Nat
        BY <2>1, <2>3, <3>1, <4>1, <4>2, ReadyBound
      <4> QED
        BY <2>2, <3>1, <4>1, <4>3
    <3>2. CASE /\ Ready(worker[v], s) /\ Ticket(worker'[v]) = Ticket(worker[v])
               /\ Ready(worker[w], s) /\ Ticket(worker'[w]) = Ticket(worker[w])
      BY <2>5, <3>2 DEF RecordInv
    <3>3. CASE /\ Ticket(worker'[v]) > Len(Log)
               /\ \A u \in Workers \ {v} : worker'[u] = worker[u]
      BY <2>5, <3>1, <3>3
    <3>4. CASE /\ Ticket(worker'[w]) > Len(Log)
               /\ \A u \in Workers \ {w} : worker'[u] = worker[u]
      BY <2>5, <3>1, <3>4
    <3> QED
      BY <1>2, <2>5, <3>2, <3>3, <3>4, TicketStep
  <2>6. ASSUME NEW s \in Steps
        PROVE  /\ Starts(s) \ Tickets(s) \subseteq (Starts(s) \ Tickets(s))'
               /\ IsFiniteSet((Starts(s) \ Tickets(s))')
               /\ Cardinality(Starts(s) \ Tickets(s)) \in Nat
               /\ Cardinality((Starts(s) \ Tickets(s))') \in Nat
               /\ Cardinality(Starts(s) \ Tickets(s)) <= Cardinality((Starts(s) \ Tickets(s))')
    <3>1. ASSUME NEW k \in Starts(s), k \notin Tickets(s)
          PROVE  k \in Starts(s)' /\ k \notin Tickets(s)'
      <4>1. ASSUME NEW v \in Workers, Ready(worker'[v], s), k = Ticket(worker'[v]) PROVE FALSE
        <5>1. CASE Ready(worker[v], s) /\ Ticket(worker'[v]) = Ticket(worker[v])
          BY <3>1, <4>1, <5>1 DEF Tickets
        <5>2. CASE Ticket(worker'[v]) > Len(Log)
          <6>1. k <= Len(Log) /\ k \in Nat
            BY <2>2, <2>3 DEF Starts
          <6> QED
            BY <2>2, <4>1, <5>2, <6>1
        <5> QED
          BY <1>2, <4>1, <5>1, <5>2, TicketStep
      <4>2. k \notin Tickets(s)'
        BY <4>1 DEF Tickets
      <4> QED
        BY <2>3, <4>2
    <3>2. Starts(s) \ Tickets(s) \subseteq (Starts(s) \ Tickets(s))'
      BY <3>1
    <3>3. /\ Starts(s) \ Tickets(s) \in SUBSET DOMAIN Log
          /\ (Starts(s) \ Tickets(s))' \in SUBSET DOMAIN Log'
      BY DEF Starts
    <3>4. /\ IsFiniteSet((Starts(s) \ Tickets(s))')
          /\ Cardinality(Starts(s) \ Tickets(s)) \in Nat
          /\ Cardinality((Starts(s) \ Tickets(s))') \in Nat
      BY <2>1, <3>3, StartsFinite
    <3> QED
      BY <3>2, <3>4, FS_Subset
  <2>7. ASSUME NEW s \in Steps
        PROVE  bodies'[s] <= Cardinality((Starts(s) \ Tickets(s))')
    <3> DEFINE before == Cardinality(Starts(s) \ Tickets(s))
               after == Cardinality((Starts(s) \ Tickets(s))')
    <3>0. before \in Nat /\ after \in Nat /\ before <= after
      BY <2>6
    <3>1. bodies[s] <= before /\ bodies[s] \in Nat
      BY <1>2, <2>1 DEF RecordInv, RunnerInv, TypeOK
    <3> SUFFICES bodies'[s] <= after
      OBVIOUS
    <3> HIDE DEF before, after
    <3>2. CASE bodies'[s] = bodies[s]
      BY <3>0, <3>1, <3>2
    <3>3. CASE bodies'[s] # bodies[s]
      <4>1. PICK w \in Workers : Continue(w)
        BY <3>3 DEF Next, vars, Prepare, Run, Claim, Bind, BindFails, Save, SaveFails, Load,
                    BuildFails, Advance, LeaseCheckFails, Return, Close, HeartbeatFails,
                    Crash, Expire, ForceComplete, ForceFail, ForceTransition, ManualRead,
                    ManualSave
      <4>2. Ready(worker[w], s) /\ bodies'[s] = bodies[s] + 1
        BY <3>3, <4>1 DEF Continue, Ready, At
      <4> DEFINE k == Ticket(worker[w])
      <4>3. k \in Starts(s) /\ k \in Tickets(s)
        BY <4>2 DEF RecordInv, Tickets
      <4>4. k \in Starts(s)' /\ k <= Len(Log)
        BY <2>3, <4>3
      <4>5. k \notin Tickets(s)'
        <5>1. ASSUME NEW v \in Workers, Ready(worker'[v], s), k = Ticket(worker'[v]) PROVE FALSE
          <6>1. ~UNCHANGED bodies
            BY <3>3
          <6>2. /\ Ready(worker[v], s) /\ Ticket(worker'[v]) = Ticket(worker[v])
                /\ ~Continue(v)
            BY <1>2, <5>1, <6>1, TicketStep
          <6>3. v # w
            BY <4>1, <6>2
          <6> QED
            BY <4>2, <5>1, <6>2, <6>3 DEF RecordInv
        <5> QED
          BY <5>1 DEF Tickets
      <4> HIDE DEF k
      <4>6. before + 1 <= after
        BY <2>6, <4>3, <4>4, <4>5, OneMore DEF before, after
      <4> QED
        BY <3>0, <3>1, <4>2, <4>6
    <3> QED
      BY <3>2, <3>3
  <2> QED
    BY <1>2, <2>1, <2>4, <2>5, <2>7 DEF RecordInv
<1> QED
  BY <1>1, <1>2

\* Beside the tickets there are as many stored starts as executions.
LEMMA RecordIsEnough == StoredInv /\ RecordInv => EveryExecutionIsOnRecord
<1> SUFFICES ASSUME StoredInv, RecordInv, NEW s \in Steps, bodies[s] > 0
             PROVE  bodies[s] <= Cardinality(Starts(s))
  BY DEF EveryExecutionIsOnRecord, Starts, Log, StartOf
<1>1. item.tx # NoTransaction /\ bodies[s] <= Cardinality(Starts(s) \ Tickets(s))
      /\ bodies[s] \in Nat /\ RunnerInv
  BY DEF RecordInv, StoredInv, RunnerInv, TypeOK
<1>2. Log \in Seq(Entry)
  BY <1>1, BoundIsStored, StoredHistory DEF Log
<1>3. Starts(s) \in SUBSET DOMAIN Log /\ Starts(s) \ Tickets(s) \in SUBSET DOMAIN Log
  BY DEF Starts
<1>4. /\ IsFiniteSet(Starts(s)) /\ Cardinality(Starts(s)) \in Nat
      /\ Cardinality(Starts(s) \ Tickets(s)) \in Nat
  BY <1>2, <1>3, StartsFinite
<1>5. Cardinality(Starts(s) \ Tickets(s)) <= Cardinality(Starts(s))
  BY <1>4, FS_Subset
<1> QED
  BY <1>1, <1>4, <1>5

\* A body that a worker executed left its step_started entry in the stored history, whoever
\* wrote before and after: also the executions of workers that had lost the claim are there.
THEOREM EveryExecutionAlwaysOnRecord == Spec => []EveryExecutionIsOnRecord
<1>1. Init => RecordInv
  BY DEF Init, RecordInv, Ready, Idle
<1>2. Spec => []RecordInv
  BY <1>1, RecordStep, StoredInvariant, PTL DEF Spec
<1> QED
  BY <1>2, RecordIsEnough, StoredInvariant, PTL

-----------------------------------------------------------------------------
(* The promise of WorkQueue                                                  *)

\* The item as WorkQueue sees it.
View == [status |-> item.status, retries |-> item.retries, log |-> outcomes,
         quarantines |-> 0]

\* The only item of the refinement changes as its view does.
LEMMA OneItem ==
    ASSUME NEW x, NEW y
    PROVE  /\ <<x>>[1] = x
           /\ [<<x>> EXCEPT ![1] = y] = <<y>>
           /\ [i \in {1} |-> IF i \in {1} THEN y ELSE <<x>>[i]] = <<y>>
<1>1. <<x>> = [i \in {1} |-> x] /\ <<y>> = [i \in {1} |-> y]
  <2>1. DOMAIN <<x>> = {1} /\ DOMAIN <<y>> = {1} /\ <<x>>[1] = x /\ <<y>>[1] = y
    OBVIOUS
  <2> QED
    BY <2>1
<1> QED
  BY <1>1

\* A step that leaves status, retries, claims and overrides alone does not show.
LEMMA ViewRests ==
    ASSUME Logged, item'.status = item.status, item'.retries = item.retries,
           item'.claims = item.claims, item'.forced = item.forced
    PROVE  UNCHANGED Promised
<1>1. outcomes' = outcomes
  BY DEF Logged, ClaimEnds
<1> QED
  BY <1>1 DEF Promised

\* A delivery.
LEMMA ClaimDelivers ==
    ASSUME RunnerInv, Logged, NEW w \in Workers, Claim(w)
    PROVE  Promise!Next
<1>1. item \in Item /\ item.claims \in Nat /\ item.claims + 1 # item.claims
  BY DEF RunnerInv, TypeOK, Item
<1>2. /\ item.status = "pending" /\ item'.status = "in_progress"
      /\ item'.retries = item.retries /\ item'.claims # item.claims
  BY <1>1 DEF Claim, Item
<1>3. outcomes' = Append(outcomes, "open")
  BY <1>2 DEF Logged
<1>4. Promised = <<View>> /\ Promised' = <<View'>>
  BY DEF Promised, View
<1>5. View' = Promise!Turn(View, "in_progress", Append(View.log, "open"))
  BY <1>2, <1>3 DEF View, Promise!Turn
<1>6. View.status = "pending"
  BY <1>2 DEF View
<1> HIDE DEF View
<1>7. Promise!Deliver(1)
  BY <1>4, <1>5, <1>6, OneItem DEF Promise!Deliver
<1> QED
  BY <1>7 DEF Promise!Next

\* What a claim that ends without success leaves of the item, and of its log.
LEMMA ReturnedView ==
    ASSUME RunnerInv, Logged, NEW retry \in BOOLEAN, NEW outcome,
           item'.status = Returned(item, retry).status,
           item'.retries = Returned(item, retry).retries,
           item'.claims = item.claims, ClaimEnds, Outcome = outcome
    PROVE  View' = Promise!Spend(View, retry, outcome)
<1>1. item.retries \in Nat /\ QueueRetries \in Nat /\ item \in Item
  BY RunnerAssumption DEF RunnerInv, TypeOK, Item
<1>2. item'.status = IF retry /\ item.retries < QueueRetries THEN "pending" ELSE "failed"
  BY <1>1 DEF Returned, Item
<1>3. item'.retries = item.retries + 1
  BY <1>1 DEF Returned, Item
<1>4. item.retries < QueueRetries <=> item.retries + 1 <= QueueRetries
  BY <1>1
<1>5. outcomes' = Promise!End(outcomes, outcome)
  BY DEF Logged
<1> QED
  BY <1>2, <1>3, <1>4, <1>5 DEF View, Promise!Spend

\* An expired lease.
LEMMA ExpireExpires == ASSUME RunnerInv, Logged, Expire PROVE Promise!Next
<1>1. /\ item.status = "in_progress" /\ item' = Returned(item, TRUE) /\ UNCHANGED worker
      /\ item \in Item
  BY DEF Expire, RunnerInv, TypeOK
<1>2. /\ item'.claims = item.claims /\ item'.forced = item.forced
      /\ item'.status \in {"pending", "failed"}
  BY <1>1, ReturnedLemma
<1>3. ClaimEnds /\ Outcome = "lease_expired"
  BY <1>1, <1>2 DEF ClaimEnds, Outcome
<1>4. View' = Promise!Spend(View, TRUE, "lease_expired")
  BY <1>1, <1>2, <1>3, ReturnedView
<1>5. Promised = <<View>> /\ Promised' = <<View'>> /\ View.status = "in_progress"
  BY <1>1 DEF Promised, View
<1> HIDE DEF View
<1>6. Promised[1] = View
  BY <1>5, OneItem
<1>7. <<View'>> = [i \in {1} |-> IF i \in {1}
                                THEN Promise!Spend(Promised[i], TRUE, "lease_expired")
                                ELSE Promised[i]]
  <2>1. <<View'>> = [i \in {1} |-> IF i \in {1} THEN View' ELSE <<View>>[i]]
    BY OneItem
  <2> QED
    BY <1>4, <1>6, <2>1
<1>8. Promise!Expire({1})
  BY <1>5, <1>6, <1>7 DEF Promise!Expire
<1> QED
  BY <1>8 DEF Promise!Next

\* The final transition succeeds or gives the item back, or the claim was lost.
LEMMA CloseEnds ==
    ASSUME RunnerInv, Logged, NEW w \in Workers, Close(w)
    PROVE  Promise!Next \/ UNCHANGED Promised
<1>1. ~UNCHANGED worker
  <2>1. worker' = [worker EXCEPT ![w] = Idle] /\ worker[w].pc = "ending"
    BY DEF Close, Stop, At
  <2>2. worker'[w] = Idle
    BY <2>1 DEF RunnerInv, TypeOK
  <2> QED
    BY <2>1, <2>2, IdleType
<1>2. item \in Item
  BY DEF RunnerInv, TypeOK
<1>3. Promised = <<View>> /\ Promised' = <<View'>>
  BY DEF Promised, View
<1>4. CASE UNCHANGED item
  BY <1>4, ViewRests
<1>5. CASE Owns(w) /\ item' = [item EXCEPT !.status = "successful", !.token = NoClaim]
  <2>1. /\ item'.status = "successful" /\ item.status = "in_progress"
        /\ item'.retries = item.retries /\ item'.claims = item.claims
        /\ item'.forced = item.forced
    BY <1>2, <1>5 DEF Item, Owns
  <2>2. ClaimEnds /\ Outcome = "successful"
    BY <1>1, <2>1 DEF ClaimEnds, Outcome
  <2>3. outcomes' = Promise!End(outcomes, "successful")
    BY <2>1, <2>2 DEF Logged
  <2>4. View' = Promise!Turn(View, "successful", Promise!End(View.log, "successful"))
    BY <2>1, <2>3 DEF View, Promise!Turn
  <2>5. View.status = "in_progress"
    BY <2>1 DEF View
  <2> HIDE DEF View
  <2>6. Promise!Succeed(1)
    BY <1>3, <2>4, <2>5, OneItem DEF Promise!Succeed
  <2> QED
    BY <2>6 DEF Promise!Next
<1>6. CASE Owns(w) /\ item' = Returned(item, Retry(w))
  <2> DEFINE again == Retry(w) /\ View.retries + 1 <= QueueRetries
             outcome == IF again THEN "retry_scheduled" ELSE "failed"
  <2>1. Retry(w) \in BOOLEAN
    BY DEF Retry
  <2>2. /\ item'.claims = item.claims /\ item'.forced = item.forced
        /\ item'.status \in {"pending", "failed"} /\ item.status = "in_progress"
    BY <1>6, <2>1, ReturnedLemma DEF Owns
  <2>3. item'.status = IF again THEN "pending" ELSE "failed"
    <3>1. item.retries \in Nat /\ QueueRetries \in Nat
      BY <1>2, RunnerAssumption DEF Item
    <3>2. item'.status = IF Retry(w) /\ item.retries < QueueRetries
                         THEN "pending" ELSE "failed"
      BY <1>2, <1>6 DEF Returned, Item
    <3> QED
      BY <3>1, <3>2 DEF View
  <2>4. ClaimEnds /\ Outcome = outcome
    BY <1>1, <2>2, <2>3 DEF ClaimEnds, Outcome
  <2>5. View' = Promise!Spend(View, Retry(w), outcome)
    BY <1>6, <2>1, <2>2, <2>4, ReturnedView
  <2>6. View.status = "in_progress"
    BY <2>2 DEF View
  <2> HIDE DEF View
  <2>7. Promise!GiveBack(1, Retry(w))
    BY <1>3, <2>5, <2>6, OneItem DEF Promise!GiveBack
  <2> QED
    BY <2>1, <2>7 DEF Promise!Next
<1> QED
  BY <1>4, <1>5, <1>6 DEF Close

\* An operator completes the item.
LEMMA ForceCompleteEnds == ASSUME RunnerInv, Logged, ForceComplete PROVE Promise!Next
<1>1. item \in Item /\ item.forced \in Nat /\ item.forced + 1 # item.forced
  BY DEF RunnerInv, TypeOK, Item
<1>2. /\ item'.status = "successful" /\ item'.retries = item.retries
      /\ item'.claims = item.claims /\ item'.forced # item.forced
  BY <1>1 DEF ForceComplete, ForceTransition, Item
<1>3. outcomes' = Promise!End(outcomes, "admin_override")
  BY <1>2 DEF Logged, ClaimEnds, Outcome
<1>4. Promised = <<View>> /\ Promised' = <<View'>> /\ View.status # "absent"
  BY <1>1 DEF Promised, View, Item
<1>5. View' = Promise!Turn(View, "successful", Promise!End(View.log, "admin_override"))
  BY <1>2, <1>3 DEF View, Promise!Turn
<1> HIDE DEF View
<1>6. Promise!ForceComplete(1)
  BY <1>4, <1>5, OneItem DEF Promise!ForceComplete
<1> QED
  BY <1>6 DEF Promise!Next

\* An operator fails the item, or sends it back.
LEMMA ForceFailEnds ==
    ASSUME RunnerInv, Logged, NEW retry \in BOOLEAN, ForceFail(retry)
    PROVE  Promise!Next
<1> DEFINE r == Returned(item, retry)
<1>1. item \in Item /\ item.forced \in Nat /\ item.forced + 1 # item.forced
  BY DEF RunnerInv, TypeOK, Item
<1>2. r \in Item /\ r.claims = item.claims /\ r.forced = item.forced
  BY ReturnedLemma
<1>3. item' = [r EXCEPT !.token = NoClaim, !.forced = r.forced + 1]
  BY DEF ForceFail, ForceTransition
<1> HIDE DEF r
<1>4. /\ item'.status = r.status /\ item'.retries = r.retries
      /\ item'.claims = item.claims /\ item'.forced # item.forced
  BY <1>1, <1>2, <1>3 DEF Item
<1>5. ClaimEnds /\ Outcome = "admin_override"
  BY <1>4 DEF ClaimEnds, Outcome
<1>6. View' = Promise!Spend(View, retry, "admin_override")
  BY <1>4, <1>5, ReturnedView DEF r
<1>7. Promised = <<View>> /\ Promised' = <<View'>> /\ View.status # "absent"
  BY <1>1 DEF Promised, View, Item
<1> HIDE DEF View
<1>8. Promise!ForceFail(1, retry)
  BY <1>6, <1>7, OneItem DEF Promise!ForceFail
<1> QED
  BY <1>8 DEF Promise!Next

\* Binding the item does not show.
LEMMA BindRests ==
    ASSUME RunnerInv, Logged, NEW t, item' = Bound(t)
    PROVE  UNCHANGED Promised
<1>1. item \in Item
  BY DEF RunnerInv, TypeOK
<1>2. /\ item'.status = item.status /\ item'.retries = item.retries
      /\ item'.claims = item.claims /\ item'.forced = item.forced
  BY <1>1 DEF Bound, Item
<1> QED
  BY <1>2, ViewRests

\* Every step shows as a step of WorkQueue or not at all.
LEMMA PromiseStep ==
    ASSUME RunnerInv, [PromiseNext]_promiseVars
    PROVE  [Promise!Next]_Promised
<1>1. CASE UNCHANGED promiseVars
  BY <1>1 DEF promiseVars, vars, Promised
<1>2. CASE Next /\ Logged
  <2>1. CASE UNCHANGED item
    BY <1>2, <2>1, ViewRests
  <2>2. CASE \E w \in Workers : Claim(w)
    BY <1>2, <2>2, ClaimDelivers
  <2>3. CASE \E w \in Workers : Close(w)
    BY <1>2, <2>3, CloseEnds
  <2>4. CASE Expire
    BY <1>2, <2>4, ExpireExpires
  <2>5. CASE ForceComplete
    BY <1>2, <2>5, ForceCompleteEnds
  <2>6. CASE \E retry \in BOOLEAN : ForceFail(retry)
    BY <1>2, <2>6, ForceFailEnds
  <2>7. CASE \E t : item' = Bound(t)
    BY <1>2, <2>7, BindRests
  <2>8. ASSUME NEW w \in Workers, Prepare(w) \/ Run(w) \/ Return(w)
                                  \/ HeartbeatFails(w) \/ Crash(w)
        PROVE  UNCHANGED item \/ \E t : item' = Bound(t)
    BY <2>8 DEF Prepare, Bind, Load, BindFails, BuildFails, Run, Advance, Save, Continue,
                LeaseCheckFails, SaveFails, Return, HeartbeatFails, Crash
  <2>9. ASSUME ManualSave \/ \E t \in Ids : ManualRead(t) PROVE UNCHANGED item
    BY <2>9 DEF ManualSave, ManualRead
  <2> QED
    BY <1>2, <2>1, <2>2, <2>3, <2>4, <2>5, <2>6, <2>7, <2>8, <2>9 DEF Next
<1> QED
  BY <1>1, <1>2 DEF PromiseNext

\* The item keeps the promise of WorkQueue through every interleaving of workers, with and
\* without the claim, crashes, overrides and saves from outside: each claim ends once, for
\* one reason, and each way back costs a retry of the budget.
THEOREM RunnerAlwaysKeepsPromise == PromiseSpec => RunnerKeepsPromise
<1>1. PromiseInit => Promised = <<Promise!Turn(Promise!Absent, "pending", <<>>)>>
  BY DEF PromiseInit, Init, Promised, Promise!Turn, Promise!Absent
<1>2. PromiseInit => Init
  BY DEF PromiseInit
<1>3. [PromiseNext]_promiseVars => [Next]_vars
  BY DEF PromiseNext, promiseVars
<1>4. PromiseSpec => Spec
  BY <1>2, <1>3, PTL DEF PromiseSpec, Spec
<1>5. PromiseSpec => []RunnerInv
  BY <1>4, RunnerInvariant, PTL
<1>6. RunnerInv /\ [PromiseNext]_promiseVars => [Promise!Next]_Promised
  BY PromiseStep
<1> QED
  BY <1>1, <1>5, <1>6, PTL DEF PromiseSpec, RunnerKeepsPromise

=============================================================================
