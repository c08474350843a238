---------------------------- MODULE MCListings ----------------------------
(* An instance of Listings for TLC: three items of one reference, which two   *)
(* workers of one host deliver, or three transactions, two of them made at    *)
(* the same time.  The first item does not decode, and an operator may force  *)
(* it back; it can be inserted after the others, so that a walk of the items  *)
(* reaches both good ones while workers move them and it appears behind.      *)
EXTENDS Listings, TLC

MCWorkerName == [w \in Workers |-> "host"]
MCReference == [i \in Items |-> "invoice"]
MCNoWait == [n \in 1..MaxRetries |-> 0]
MCOverrides == [i \in Items |-> IF i \in PoisonItems THEN 1 ELSE 0]
MCFilters == {Statuses, {"pending"}}
MCAge == <<1, 1, 2>>

Processes == Permutations(Workers)
=============================================================================
