------------------------------ MODULE Listings ------------------------------
(***************************************************************************)
(* Everything the package lists while it is written to: the queue's pages  *)
(* and the transactions' lists.  The two stores are databases that share   *)
(* nothing, so a behaviour moves the one that is being walked.             *)
(***************************************************************************)
EXTENDS QueuePages, TransactionLists

VARIABLE walked   \* the store that is walked

ListingsInit ==
    /\ PageInit
    /\ ListInit
    /\ walked \in {"queue", "transactions"}
    \* An idle store stands still, so one of its states is enough.
    /\ walked = "queue" => \A t \in Ids : stored[t] = Absent

ListingsNext ==
    \/ walked = "queue" /\ PageNext /\ UNCHANGED listVars /\ UNCHANGED walked
    \/ walked = "transactions" /\ ListNext /\ UNCHANGED pageVars /\ UNCHANGED walked

ListingsSpec == ListingsInit /\ [][ListingsNext]_<<pageVars, listVars, walked>>
=============================================================================
