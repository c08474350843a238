---------------------------- MODULE MCSqliteQueue ----------------------------
(* Instances of SqliteQueue for TLC.                                         *)
EXTENDS SqliteQueue, RetryPolicy, TLC

CONSTANTS w1, w2

\* Two processes of one host claim under the same worker_id.
MCWorkerName == [w \in Workers |-> "host"]
MCReference == [i \in Items |-> "invoice"]
\* A delay of one tick that doubles, capped at three: 1, 2, 3, 3, ...
MCWait == [n \in 1..MaxRetries |-> RetryAfter(1, 2, 1, 3, n)]

\* How often the operator may override an item.
MCOnce == [i \in Items |-> 1]
MCNever == [i \in Items |-> 0]

\* The capped power against its definition, where TLC's integers hold it.
ASSUME \A delay \in 0..6, num \in 2..4, n \in 1..5, cap \in {1, 7, 40} :
    RetryAfter(delay, num, 2, cap, n) =
        IF delay = 0 THEN 0
        ELSE CHOOSE w \in 1..cap :
                 /\ \A v \in 1..cap : v < w => v * 2 ^ (n - 1) < delay * num ^ (n - 1)
                 /\ w = cap \/ w * 2 ^ (n - 1) >= delay * num ^ (n - 1)

\* Invariant of the liveness instance, to be checked again whenever its bounds change: the
\* clock never stops at its bound, so no lease or delay is cut off by it.
ClockToSpare == clock < MaxClock

Processes == Permutations(Workers)
=============================================================================
