---------------------------- MODULE RetryPolicy ----------------------------
(***************************************************************************)
(* How long a queue item waits before its n-th retry                       *)
(* (src/rpacore/_queue_retry.py), in whole ticks of the clock.             *)
(*                                                                         *)
(* The code works in floating point and looks at the logarithm of the      *)
(* delay before it computes the power, so that a large retry number never  *)
(* overflows.  Here the backoff is the ratio num / den >= 1 and the        *)
(* comparison with the cap is exact; what floating point rounds away, a    *)
(* microsecond at the cap, is not modelled.                                *)
(***************************************************************************)
EXTENDS Naturals

RoundUp(x, y) == (x + y - 1) \div y

\* x / y ticks: the cap when it is reached, a started tick in full, never none.
Capped(x, y, cap) ==
    IF x >= cap * y THEN cap
    ELSE IF RoundUp(x, y) = 0 THEN 1 ELSE RoundUp(x, y)

\* retry_available_at: 0 stands for no eligibility time at all.
RetryAfter(delay, num, den, cap, n) ==
    IF delay = 0 THEN 0
    ELSE Capped(delay * num ^ (n - 1), den ^ (n - 1), cap)

=============================================================================
