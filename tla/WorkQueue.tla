----------------------------- MODULE WorkQueue -----------------------------
(***************************************************************************)
(* What RPA Core's work queue promises, without clocks, processes, tokens  *)
(* or SQL.  SqliteQueue implements it: see ImplementsWorkQueue there.      *)
(*                                                                         *)
(* An item is put in once, is delivered while it waits, and each delivery  *)
(* ends exactly once: it succeeds, is given back, fails, expires, or an    *)
(* operator ends it.  Every way back to waiting, and every failure but a   *)
(* quarantine, spends one retry, and an item without retries left fails.   *)
(***************************************************************************)
EXTENDS Naturals, Sequences

CONSTANTS
    Items,        \* the work items
    PoisonItems,  \* those whose payload does not decode
    MaxRetries    \* deliveries after the first

VARIABLE item     \* status, retries spent, outcome of each delivery, quarantines

Absent == [status |-> "absent", retries |-> 0, log |-> <<>>, quarantines |-> 0]

Init == item = [i \in Items |-> Absent]

\* The outcome of the delivery that is under way, if one is.
End(log, outcome) ==
    IF log # <<>> /\ log[Len(log)] = "open"
    THEN [log EXCEPT ![Len(log)] = outcome] ELSE log

\* An item that turns to a status, with the log its deliveries left.
Turn(x, status, log) ==
    [status |-> status, retries |-> x.retries, log |-> log, quarantines |-> x.quarantines]

\* One retry is spent: the item waits again if it may and is to.
Spend(x, again, outcome) ==
    [status |-> IF again /\ x.retries + 1 <= MaxRetries THEN "pending" ELSE "failed",
     retries |-> x.retries + 1, log |-> End(x.log, outcome), quarantines |-> x.quarantines]

\* An item that never reaches a worker is set aside.
SetAside(x) ==
    [status |-> "failed", retries |-> x.retries, log |-> x.log,
     quarantines |-> x.quarantines + 1]

Put(i) ==
    /\ item[i] = Absent
    /\ item' = [item EXCEPT ![i] = Turn(@, "pending", <<>>)]

Deliver(i) ==
    /\ item[i].status = "pending"
    /\ i \notin PoisonItems
    /\ item' = [item EXCEPT ![i] = Turn(@, "in_progress", Append(@.log, "open"))]

Succeed(i) ==
    /\ item[i].status = "in_progress"
    /\ item' = [item EXCEPT ![i] = Turn(@, "successful", End(@.log, "successful"))]

\* The holder gives the item back; without a retry left, or unwilling, it fails it.
GiveBack(i, retry) ==
    LET again == retry /\ item[i].retries + 1 <= MaxRetries IN
    /\ item[i].status = "in_progress"
    /\ item' = [item EXCEPT ![i] = Spend(@, retry, IF again THEN "retry_scheduled" ELSE "failed")]

\* Holders that stopped renewing lose their items, several at once.
Expire(S) ==
    /\ \A i \in S : item[i].status = "in_progress"
    /\ item' = [i \in Items |-> IF i \in S THEN Spend(item[i], TRUE, "lease_expired")
                                           ELSE item[i]]

Quarantine(i) ==
    /\ item[i].status = "pending"
    /\ i \in PoisonItems
    /\ item' = [item EXCEPT ![i] = SetAside(@)]

\* An operator ends or revives any item.
ForceComplete(i) ==
    /\ item[i].status # "absent"
    /\ item' = [item EXCEPT ![i] = Turn(@, "successful", End(@.log, "admin_override"))]

ForceFail(i, retry) ==
    /\ item[i].status # "absent"
    /\ item' = [item EXCEPT ![i] = Spend(@, retry, "admin_override")]

Next ==
    \/ \E i \in Items :
        \/ Put(i) \/ Deliver(i) \/ Succeed(i) \/ Quarantine(i) \/ ForceComplete(i)
        \/ \E retry \in BOOLEAN : GiveBack(i, retry) \/ ForceFail(i, retry)
    \/ \E S \in SUBSET Items : Expire(S)

Spec == Init /\ [][Next]_item
=============================================================================
