-------------------------- MODULE TransactionProofs --------------------------
(* Lemmas about the operators of Transactions, for every number of steps.    *)
EXTENDS Transactions, SequenceTheorems, TLAPS

-----------------------------------------------------------------------------
(* Prefixes of sequences                                                     *)

\* The larger of two lengths.
LEMMA MaxOfTwo ==
    ASSUME NEW a \in Nat, NEW b \in Nat, a <= b
    PROVE  Max({a, b}) = b
<1>1. b \in {a, b} /\ \A y \in {a, b} : b >= y
  OBVIOUS
<1>2. \A x \in {a, b} : (\A y \in {a, b} : x >= y) => x = b
  OBVIOUS
<1> QED
  BY <1>1, <1>2 DEF Max

Pre(old, new) == /\ Len(old) <= Len(new)
                 /\ \A k \in 1..Len(old) : old[k] = new[k]

\* IsPrefix compares the two sequences position by position.
LEMMA PrefixIff ==
    ASSUME NEW S, NEW old \in Seq(S), NEW new \in Seq(S)
    PROVE  IsPrefix(old, new) <=> Pre(old, new)
<1>1. Len(old) \in Nat /\ Len(new) \in Nat /\ SubSeq(old, 1, Len(old)) = old
  OBVIOUS
<1>2. CASE Len(old) <= Len(new)
  <2>1. /\ SubSeq(new, 1, Len(old)) \in Seq(S)
        /\ Len(SubSeq(new, 1, Len(old))) = Len(old)
        /\ \A k \in 1..Len(old) : SubSeq(new, 1, Len(old))[k] = new[k]
    BY <1>1, <1>2
  <2>2. (old = SubSeq(new, 1, Len(old))) <=> \A k \in 1..Len(old) : old[k] = new[k]
    BY <1>1, <2>1, SeqEqual
  <2> QED
    BY <1>1, <1>2, <2>2 DEF IsPrefix, Pre
<1>3. CASE ~(Len(old) <= Len(new))
  BY <1>3 DEF IsPrefix, Pre
<1> QED
  BY <1>2, <1>3

\* The history merge of a checkpoint whose object extends what is stored stores exactly the
\* history of the object.
LEMMA MergedIsNew ==
    ASSUME NEW S, NEW old \in Seq(S), NEW new \in Seq(S), Pre(old, new)
    PROVE  Merged(old, new) = new
<1>1. Max({Len(old), Len(new)}) = Len(new)
  BY MaxOfTwo DEF Pre
<1>2. /\ Merged(old, new) = [k \in 1..Len(new) |->
                              IF k <= Len(old) THEN old[k] ELSE new[k]]
      /\ Len(old) \in Nat /\ Len(new) \in Nat
  BY <1>1 DEF Merged
<1>3. \A k \in 1..Len(new) : (IF k <= Len(old) THEN old[k] ELSE new[k]) = new[k]
  BY <1>2 DEF Pre
<1>4. Merged(old, new) = [k \in 1..Len(new) |-> new[k]]
  BY <1>2, <1>3
<1> QED
  BY <1>4

\* Appending one entry keeps what was a prefix.
LEMMA PrefixAppend ==
    ASSUME NEW S, NEW old \in Seq(S), NEW new \in Seq(S), NEW e \in S, Pre(old, new)
    PROVE  Pre(old, Append(new, e))
BY DEF Pre

-----------------------------------------------------------------------------
(* Transactions                                                              *)

\* A transaction is never the absent one, and its parts have their types.
LEMMA TransactionParts ==
    ASSUME NEW tx \in Transaction
    PROVE  /\ tx # Nothing
           /\ tx.retries \in Nat /\ tx.outcome \in Outcomes
           /\ tx.status \in {"pending", "in_progress", "successful", "failed"}
           /\ tx.steps \in [Steps -> StepRecord]
           /\ tx.history \in Seq(Entry)
BY DEF Transaction, Nothing

\* A fresh transaction has the type of one.
LEMMA FreshType == Fresh \in Transaction
<1>1. [s \in Steps |-> [status |-> "pending", excs |-> <<>>]] \in [Steps -> StepRecord]
  BY DEF StepRecord, StepStatuses
<1>2. <<>> \in Seq(Entry)
  OBVIOUS
<1> QED
  BY <1>1, <1>2 DEF Fresh, Transaction, Outcomes

\* append_history leaves everything but the history alone and extends the history by one.
LEMMA RecordLemma ==
    ASSUME NEW tx \in Transaction, NEW event \in Events, NEW s \in Steps \cup {0}
    PROVE  LET new == Record(tx, event, s) IN
           /\ new \in Transaction
           /\ new.steps = tx.steps /\ new.status = tx.status /\ new.retries = tx.retries
           /\ \E e \in Entry : new.history = Append(tx.history, e)
<1> DEFINE e == [event |-> event, retry |-> tx.retries, step |-> s]
           new == [tx EXCEPT !.history = Append(@, e)]
<1>1. e \in Entry
  BY TransactionParts DEF Entry
<1>2. tx.history \in Seq(Entry) /\ Append(tx.history, e) \in Seq(Entry)
  <2>1. tx.history \in Seq(Entry)
    BY TransactionParts
  <2> HIDE DEF e
  <2> QED
    BY <1>1, <2>1
<1>3. /\ new \in Transaction
      /\ new.steps = tx.steps /\ new.status = tx.status /\ new.retries = tx.retries
      /\ new.history = Append(tx.history, e)
  <2> HIDE DEF e
  <2> QED
    BY <1>2 DEF Transaction
<1>4. Record(tx, event, s) = new
  BY DEF Record
<1> HIDE DEF e, new
<1> QED
  BY <1>1, <1>3, <1>4

\* A step mutation changes the status of one step, and is followed by its history entry.
LEMMA MarkLemma ==
    ASSUME NEW tx \in Transaction, NEW s \in Steps,
           NEW status \in StepStatuses, NEW event \in Events
    PROVE  LET new == Mark(tx, s, status, event) IN
           /\ new \in Transaction
           /\ new.steps[s].status = status
           /\ \A t \in Steps \ {s} : new.steps[t] = tx.steps[t]
           /\ new.status = tx.status
           /\ \E e \in Entry : new.history = Append(tx.history, e)
<1> DEFINE base == [tx EXCEPT !.steps[s].status = status]
<1>1. tx.steps \in [Steps -> StepRecord]
  BY TransactionParts
<1>2. [tx.steps EXCEPT ![s].status = status] \in [Steps -> StepRecord]
  BY <1>1 DEF StepRecord
<1>3. base.steps = [tx.steps EXCEPT ![s].status = status]
  BY DEF Transaction
<1>4. /\ base \in Transaction
      /\ base.status = tx.status /\ base.history = tx.history
  BY <1>2 DEF Transaction
<1>5. base.steps[s].status = status /\ \A t \in Steps \ {s} : base.steps[t] = tx.steps[t]
  BY <1>1, <1>3 DEF StepRecord
<1>6. Mark(tx, s, status, event) = Record(base, event, s)
  BY DEF Mark
<1> HIDE DEF base
<1> QED
  BY <1>4, <1>5, <1>6, RecordLemma

WithStatus(r, status) == [r EXCEPT !.status = status]

\* Setting the status of a step record.
LEMMA SetStatus ==
    ASSUME NEW r \in StepRecord, NEW status \in StepStatuses
    PROVE  WithStatus(r, status) \in StepRecord /\ WithStatus(r, status).status = status
BY DEF StepRecord, WithStatus

\* A success of old is a success of new.
Keeps(old, new) ==
    \A s \in Steps : old.steps[s].status = "successful" => new.steps[s].status = "successful"

\* Setting the status of every step.
LEMMA RestoreLemma ==
    ASSUME NEW old \in [Steps -> StepRecord], NEW status \in [Steps -> StepStatuses],
           NEW new, new = [s \in Steps |-> WithStatus(old[s], status[s])]
    PROVE  /\ new \in [Steps -> StepRecord]
           /\ \A s \in Steps : new[s].status = status[s]
<1>1. \A s \in Steps : /\ WithStatus(old[s], status[s]) \in StepRecord
                        /\ WithStatus(old[s], status[s]).status = status[s]
  BY SetStatus
<1> QED
  BY <1>1

\* Recovery keeps every success, and goes on with the stored history.
LEMMA PreparedLemma ==
    ASSUME NEW tx \in Transaction, NEW again \in BOOLEAN
    PROVE  LET new == Prepared(tx, again) IN
           /\ new \in Transaction
           /\ Pre(tx.history, new.history)
           /\ Keeps(tx, new)
<1> DEFINE restored == [s \in Steps |-> [tx.steps[s] EXCEPT !.status = ResumedStatus(tx, s, again)]]
           ready == [tx EXCEPT !.status = "pending", !.retries = 0, !.steps = restored]
<1>1. tx.steps \in [Steps -> StepRecord] /\ tx.history \in Seq(Entry)
  BY TransactionParts
<1> DEFINE status == [s \in Steps |-> ResumedStatus(tx, s, again)]
<1>2. /\ status \in [Steps -> StepStatuses]
      /\ \A s \in Steps : tx.steps[s].status = "successful" => status[s] = "successful"
  <2>1. \A s \in Steps : tx.steps[s].status \in StepStatuses
    BY <1>1 DEF StepRecord
  <2>2. \A s \in Steps : ResumedStatus(tx, s, again) \in {tx.steps[s].status, "pending"}
    BY DEF ResumedStatus
  <2>3. \A s \in Steps : tx.steps[s].status = "successful"
                            => ResumedStatus(tx, s, again) = "successful"
    BY DEF ResumedStatus
  <2> QED
    BY <2>1, <2>2, <2>3 DEF StepStatuses
<1>3. /\ restored \in [Steps -> StepRecord]
      /\ \A s \in Steps : tx.steps[s].status = "successful"
                            => restored[s].status = "successful"
  <2>1. restored = [s \in Steps |-> WithStatus(tx.steps[s], status[s])]
    BY DEF WithStatus
  <2> HIDE DEF restored, status
  <2>2. /\ restored \in [Steps -> StepRecord]
        /\ \A s \in Steps : restored[s].status = status[s]
    BY <1>1, <1>2, <2>1, RestoreLemma
  <2> QED
    BY <1>2, <2>2
<1>4. /\ ready \in Transaction
      /\ ready.steps = restored /\ ready.history = tx.history
  <2> HIDE DEF restored
  <2> QED
    BY <1>3 DEF Transaction
<1>5. Prepared(tx, again) = IF tx.status = "successful" THEN tx
                            ELSE IF Resumed(tx) THEN ready
                            ELSE Record(ready, "transaction_resumed", 0)
  BY DEF Prepared
<1> HIDE DEF restored, ready
<1>6. CASE tx.status = "successful"
  BY <1>1, <1>5, <1>6 DEF Pre, Keeps
<1>7. CASE tx.status # "successful" /\ Resumed(tx)
  BY <1>1, <1>3, <1>4, <1>5, <1>7 DEF Pre, Keeps
<1>8. CASE tx.status # "successful" /\ ~Resumed(tx)
  <2>1. "transaction_resumed" \in Events
    BY DEF Events
  <2>2. PICK e \in Entry : /\ Record(ready, "transaction_resumed", 0) \in Transaction
                           /\ Record(ready, "transaction_resumed", 0).steps = restored
                           /\ Record(ready, "transaction_resumed", 0).history
                                = Append(tx.history, e)
    BY <1>4, <2>1, RecordLemma
  <2>3. Pre(tx.history, Append(tx.history, e))
    BY <1>1, PrefixAppend DEF Pre
  <2>4. Prepared(tx, again) = Record(ready, "transaction_resumed", 0)
    BY <1>5, <1>8
  <2>5. Keeps(tx, Prepared(tx, again))
    BY <1>3, <2>2, <2>4 DEF Keeps
  <2> QED
    BY <2>2, <2>3, <2>4, <2>5
<1> QED
  BY <1>6, <1>7, <1>8

\* Making steps runnable that have not succeeded.
LEMMA ResetLemma ==
    ASSUME NEW tx \in Transaction, NEW S \in SUBSET Steps,
           \A s \in S : tx.steps[s].status # "successful"
    PROVE  /\ Reset(tx, S) \in Transaction
           /\ Reset(tx, S).history = tx.history
           /\ Reset(tx, S).retries = tx.retries
           /\ Keeps(tx, Reset(tx, S))
<1> DEFINE new == [s \in Steps |-> IF s \in S THEN WithStatus(tx.steps[s], "pending")
                                   ELSE tx.steps[s]]
<1>1. tx.steps \in [Steps -> StepRecord] /\ "pending" \in StepStatuses
  BY TransactionParts DEF StepStatuses
<1>2. \A s \in Steps : WithStatus(tx.steps[s], "pending") \in StepRecord
  BY <1>1, SetStatus
<1>3. /\ new \in [Steps -> StepRecord]
      /\ \A s \in Steps \ S : new[s] = tx.steps[s]
  BY <1>1, <1>2
<1>4. Reset(tx, S) = [tx EXCEPT !.steps = new]
  BY DEF Reset, WithStatus
<1> HIDE DEF new
<1>5. /\ Reset(tx, S) \in Transaction
      /\ Reset(tx, S).history = tx.history /\ Reset(tx, S).retries = tx.retries
      /\ Reset(tx, S).steps = new
  BY <1>3, <1>4 DEF Transaction
<1>6. Keeps(tx, Reset(tx, S))
  BY <1>3, <1>5 DEF Keeps
<1> QED
  BY <1>5, <1>6

\* A history entry about an object that has lost no success.
LEMMA RecordKeeps ==
    ASSUME NEW tx \in Transaction, NEW base \in Transaction, base.history = tx.history,
           Keeps(tx, base), NEW event \in Events, NEW s \in Steps \cup {0}
    PROVE  LET new == Record(base, event, s) IN
           /\ new \in Transaction
           /\ Keeps(tx, new)
           /\ \E e \in Entry : new.history = Append(tx.history, e)
<1>1. Record(base, event, s).steps = base.steps
  BY RecordLemma
<1> QED
  BY <1>1, RecordLemma DEF Keeps

\* A step that is marked without having succeeded.
LEMMA MarkKeeps ==
    ASSUME NEW tx \in Transaction, NEW base \in Transaction, base.history = tx.history,
           Keeps(tx, base), NEW s \in Steps, base.steps[s].status # "successful",
           NEW status \in StepStatuses, NEW event \in Events
    PROVE  LET new == Mark(base, s, status, event) IN
           /\ new \in Transaction
           /\ Keeps(tx, new)
           /\ new.steps[s].status = status
           /\ \E e \in Entry : new.history = Append(tx.history, e)
<1> DEFINE new == Mark(base, s, status, event)
<1>1. /\ new \in Transaction /\ new.steps[s].status = status
      /\ \A t \in Steps \ {s} : new.steps[t] = base.steps[t]
      /\ \E e \in Entry : new.history = Append(tx.history, e)
  BY MarkLemma
<1> HIDE DEF new
<1>2. Keeps(base, new)
  BY <1>1 DEF Keeps
<1>3. Keeps(tx, new)
  BY <1>2 DEF Keeps
<1> QED
  BY <1>1, <1>3 DEF new

\* Recording an exception changes no status.
LEMMA ExcLemma ==
    ASSUME NEW tx \in Transaction, NEW s \in Steps, NEW exc \in Exc
    PROVE  LET base == [tx EXCEPT !.steps[s].excs = Append(@, exc)] IN
           /\ base \in Transaction /\ base.history = tx.history
           /\ \A t \in Steps : base.steps[t].status = tx.steps[t].status
           /\ Keeps(tx, base)
<1> DEFINE base == [tx EXCEPT !.steps[s].excs = Append(@, exc)]
           excs == Append(tx.steps[s].excs, exc)
           r == [tx.steps[s] EXCEPT !.excs = excs]
<1>1. tx.steps \in [Steps -> StepRecord] /\ tx.steps[s].excs \in Seq(Exc)
  BY TransactionParts DEF StepRecord
<1>2. excs \in Seq(Exc)
  BY <1>1
<1>3. r \in StepRecord /\ r.status = tx.steps[s].status
  <2> HIDE DEF excs
  <2> QED
    BY <1>1, <1>2 DEF StepRecord
<1>4. base = [tx EXCEPT !.steps = [tx.steps EXCEPT ![s] = r]]
  OBVIOUS
<1> HIDE DEF r, excs
<1>5. [tx.steps EXCEPT ![s] = r] \in [Steps -> StepRecord]
  BY <1>1, <1>3
<1> HIDE DEF base
<1>6. /\ base \in Transaction /\ base.history = tx.history
      /\ base.steps = [tx.steps EXCEPT ![s] = r]
  BY <1>4, <1>5 DEF Transaction
<1>7. \A t \in Steps : base.steps[t].status = tx.steps[t].status
  BY <1>1, <1>3, <1>6
<1>8. Keeps(tx, base)
  BY <1>7 DEF Keeps
<1> QED
  BY <1>6, <1>7, <1>8 DEF base

-----------------------------------------------------------------------------
(* What the operators write, field by field                                  *)

\* The greatest element of a set of integers.
LEMMA MaxIs ==
    ASSUME NEW S \in SUBSET Int, NEW k \in S, \A j \in S : j <= k
    PROVE  Max(S) = k
<1>1. k \in S /\ \A y \in S : k >= y
  OBVIOUS
<1>2. \A x \in S : (\A y \in S : x >= y) => x = k
  OBVIOUS
<1> QED
  BY <1>1, <1>2 DEF Max

\* A sequence with one more element.
LEMMA AppendFacts ==
    ASSUME NEW S, NEW h \in Seq(S), NEW e \in S
    PROVE  LET g == Append(h, e) IN
           /\ g \in Seq(S) /\ Len(h) \in Nat /\ Len(g) = Len(h) + 1
           /\ DOMAIN h = 1..Len(h) /\ DOMAIN g = 1..(Len(h) + 1)
           /\ \A k \in 1..Len(h) : g[k] = h[k]
           /\ g[Len(h) + 1] = e /\ g # <<>> /\ Last(g) = e
<1> DEFINE g == Append(h, e)
<1>1. /\ g \in Seq(S) /\ Len(h) \in Nat /\ Len(g) = Len(h) + 1
      /\ \A k \in 1..Len(h) : g[k] = h[k]
      /\ g[Len(h) + 1] = e
  OBVIOUS
<1>2. DOMAIN h = 1..Len(h) /\ DOMAIN g = 1..Len(g)
  BY <1>1
<1> HIDE DEF g
<1> QED
  BY <1>1, <1>2 DEF g, Last

\* The entry append_history writes.
Note(tx, event, s) == [event |-> event, retry |-> tx.retries, step |-> s]

\* append_history changes the history alone.
LEMMA RecordExact ==
    ASSUME NEW tx \in Transaction, NEW event \in Events, NEW s \in Steps \cup {0}
    PROVE  LET new == Record(tx, event, s) IN
           /\ new \in Transaction /\ Note(tx, event, s) \in Entry
           /\ new.history = Append(tx.history, Note(tx, event, s))
           /\ new.steps = tx.steps /\ new.status = tx.status
           /\ new.retries = tx.retries /\ new.outcome = tx.outcome
<1> DEFINE e == Note(tx, event, s)
           new == [tx EXCEPT !.history = Append(@, e)]
<1>1. e \in Entry
  BY TransactionParts DEF Entry, Note
<1>2. Record(tx, event, s) = new
  BY DEF Record, Note
<1> HIDE DEF e
<1>3. Append(tx.history, e) \in Seq(Entry)
  BY <1>1, TransactionParts
<1>4. /\ new \in Transaction /\ new.history = Append(tx.history, e)
      /\ new.steps = tx.steps /\ new.status = tx.status
      /\ new.retries = tx.retries /\ new.outcome = tx.outcome
  BY <1>3 DEF Transaction
<1> HIDE DEF new
<1> QED
  BY <1>1, <1>2, <1>4 DEF e

\* A step mutation changes the status of one step, and the history.
LEMMA MarkExact ==
    ASSUME NEW tx \in Transaction, NEW s \in Steps,
           NEW status \in StepStatuses, NEW event \in Events
    PROVE  LET new == Mark(tx, s, status, event) IN
           /\ new \in Transaction /\ Note(tx, event, s) \in Entry
           /\ new.history = Append(tx.history, Note(tx, event, s))
           /\ new.steps[s].status = status /\ new.steps[s].excs = tx.steps[s].excs
           /\ \A t \in Steps \ {s} : new.steps[t] = tx.steps[t]
           /\ new.status = tx.status /\ new.retries = tx.retries /\ new.outcome = tx.outcome
<1> DEFINE base == [tx EXCEPT !.steps[s].status = status]
<1>1. tx.steps \in [Steps -> StepRecord]
  BY TransactionParts
<1>2. [tx.steps EXCEPT ![s].status = status] \in [Steps -> StepRecord]
  BY <1>1 DEF StepRecord
<1>3. base.steps = [tx.steps EXCEPT ![s].status = status]
  BY DEF Transaction
<1>4. /\ base \in Transaction /\ base.status = tx.status /\ base.history = tx.history
      /\ base.retries = tx.retries /\ base.outcome = tx.outcome
  BY <1>2 DEF Transaction
<1>5. /\ base.steps[s].status = status /\ base.steps[s].excs = tx.steps[s].excs
      /\ \A t \in Steps \ {s} : base.steps[t] = tx.steps[t]
  BY <1>1, <1>3 DEF StepRecord
<1>6. Mark(tx, s, status, event) = Record(base, event, s)
  BY DEF Mark
<1>7. Note(base, event, s) = Note(tx, event, s)
  BY <1>4 DEF Note
<1> HIDE DEF base
<1> QED
  BY <1>4, <1>5, <1>6, <1>7, RecordExact

\* Making steps runnable changes their status alone.
LEMMA ResetExact ==
    ASSUME NEW tx \in Transaction, NEW S \in SUBSET Steps
    PROVE  LET new == Reset(tx, S) IN
           /\ new \in Transaction /\ new.history = tx.history /\ new.status = tx.status
           /\ new.retries = tx.retries /\ new.outcome = tx.outcome
           /\ \A s \in S : new.steps[s].status = "pending"
           /\ \A s \in Steps : new.steps[s].excs = tx.steps[s].excs
           /\ \A s \in Steps \ S : new.steps[s] = tx.steps[s]
<1> DEFINE steps == [s \in Steps |-> IF s \in S THEN WithStatus(tx.steps[s], "pending")
                                     ELSE tx.steps[s]]
<1>1. tx.steps \in [Steps -> StepRecord] /\ "pending" \in StepStatuses
  BY TransactionParts DEF StepStatuses
<1>2. \A s \in Steps : /\ WithStatus(tx.steps[s], "pending") \in StepRecord
                       /\ WithStatus(tx.steps[s], "pending").status = "pending"
                       /\ WithStatus(tx.steps[s], "pending").excs = tx.steps[s].excs
  BY <1>1 DEF StepRecord, WithStatus
<1>3. /\ steps \in [Steps -> StepRecord]
      /\ \A s \in S : steps[s].status = "pending"
      /\ \A s \in Steps : steps[s].excs = tx.steps[s].excs
      /\ \A s \in Steps \ S : steps[s] = tx.steps[s]
  BY <1>1, <1>2
<1>4. Reset(tx, S) = [tx EXCEPT !.steps = steps]
  BY DEF Reset, WithStatus
<1> HIDE DEF steps
<1>5. /\ Reset(tx, S) \in Transaction /\ Reset(tx, S).history = tx.history
      /\ Reset(tx, S).status = tx.status
      /\ Reset(tx, S).retries = tx.retries /\ Reset(tx, S).outcome = tx.outcome
      /\ Reset(tx, S).steps = steps
  BY <1>3, <1>4 DEF Transaction
<1> QED
  BY <1>3, <1>5

\* What recovery writes into a snapshot that was not successful.
LEMMA PreparedExact ==
    ASSUME NEW tx \in Transaction, NEW again \in BOOLEAN, tx.status # "successful"
    PROVE  LET new == Prepared(tx, again) IN
           /\ new \in Transaction
           /\ new.status = "pending" /\ new.retries = 0 /\ new.outcome = tx.outcome
           /\ \A s \in Steps : /\ new.steps[s].status = ResumedStatus(tx, s, again)
                               /\ new.steps[s].excs = tx.steps[s].excs
           /\ \/ Resumed(tx) /\ new.history = tx.history
              \/ \E e \in Entry : /\ e.event = "transaction_resumed" /\ e.step = 0
                                  /\ new.history = Append(tx.history, e)
<1> DEFINE steps == [s \in Steps |-> WithStatus(tx.steps[s], ResumedStatus(tx, s, again))]
           ready == [tx EXCEPT !.status = "pending", !.retries = 0, !.steps = steps]
<1>1. tx.steps \in [Steps -> StepRecord]
  BY TransactionParts
<1>2. \A s \in Steps : ResumedStatus(tx, s, again) \in StepStatuses
  BY <1>1 DEF ResumedStatus, StepRecord, StepStatuses
<1>3. /\ steps \in [Steps -> StepRecord]
      /\ \A s \in Steps : /\ steps[s].status = ResumedStatus(tx, s, again)
                          /\ steps[s].excs = tx.steps[s].excs
  BY <1>1, <1>2 DEF StepRecord, WithStatus
<1>4. Prepared(tx, again) = IF Resumed(tx) THEN ready
                            ELSE Record(ready, "transaction_resumed", 0)
  BY DEF Prepared, WithStatus
<1> HIDE DEF steps
<1>5. /\ ready \in Transaction /\ ready.status = "pending" /\ ready.retries = 0
      /\ ready.outcome = tx.outcome /\ ready.steps = steps /\ ready.history = tx.history
  BY <1>3 DEF Transaction
<1> HIDE DEF ready
<1>6. CASE Resumed(tx)
  BY <1>3, <1>4, <1>5, <1>6
<1>7. CASE ~Resumed(tx)
  <2> DEFINE e == Note(ready, "transaction_resumed", 0)
             new == Record(ready, "transaction_resumed", 0)
  <2>1. "transaction_resumed" \in Events
    BY DEF Events
  <2>2. /\ new \in Transaction /\ e \in Entry /\ new.history = Append(tx.history, e)
        /\ new.steps = steps /\ new.status = "pending" /\ new.retries = 0
        /\ new.outcome = tx.outcome
    BY <1>5, <2>1, RecordExact
  <2>3. e.event = "transaction_resumed" /\ e.step = 0
    BY DEF Note
  <2>4. Prepared(tx, again) = new
    BY <1>4, <1>7
  <2> HIDE DEF e, new
  <2> QED
    BY <1>3, <2>2, <2>3, <2>4
<1> QED
  BY <1>6, <1>7

\* Recording an exception of one step changes its exceptions alone.
LEMMA ExcExact ==
    ASSUME NEW tx \in Transaction, NEW s \in Steps, NEW exc \in Exc
    PROVE  LET base == [tx EXCEPT !.steps[s].excs = Append(@, exc)] IN
           /\ base \in Transaction /\ base.history = tx.history /\ base.status = tx.status
           /\ base.retries = tx.retries /\ base.outcome = tx.outcome
           /\ base.steps[s].status = tx.steps[s].status
           /\ base.steps[s].excs = Append(tx.steps[s].excs, exc)
           /\ base.steps[s].excs # <<>> /\ Last(base.steps[s].excs) = exc
           /\ \A t \in Steps \ {s} : base.steps[t] = tx.steps[t]
<1> DEFINE base == [tx EXCEPT !.steps[s].excs = Append(@, exc)]
           excs == Append(tx.steps[s].excs, exc)
           r == [tx.steps[s] EXCEPT !.excs = excs]
<1>1. tx.steps \in [Steps -> StepRecord] /\ tx.steps[s].excs \in Seq(Exc)
  BY TransactionParts DEF StepRecord
<1>2. excs \in Seq(Exc) /\ excs # <<>> /\ Last(excs) = exc
  BY <1>1, AppendFacts
<1>3. r \in StepRecord /\ r.status = tx.steps[s].status /\ r.excs = excs
  <2> HIDE DEF excs
  <2> QED
    BY <1>1, <1>2 DEF StepRecord
<1>4. base = [tx EXCEPT !.steps = [tx.steps EXCEPT ![s] = r]]
  OBVIOUS
<1> HIDE DEF r, excs
<1>5. [tx.steps EXCEPT ![s] = r] \in [Steps -> StepRecord]
  BY <1>1, <1>3
<1> HIDE DEF base
<1>6. /\ base \in Transaction /\ base.history = tx.history /\ base.status = tx.status
      /\ base.retries = tx.retries /\ base.outcome = tx.outcome
      /\ base.steps = [tx.steps EXCEPT ![s] = r]
  BY <1>4, <1>5 DEF Transaction
<1>7. base.steps[s] = r /\ \A t \in Steps \ {s} : base.steps[t] = tx.steps[t]
  BY <1>1, <1>6
<1> QED
  BY <1>2, <1>3, <1>6, <1>7 DEF base, excs

=============================================================================
