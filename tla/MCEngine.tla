------------------------------ MODULE MCEngine ------------------------------
(* Instances of Engine for TLC.                                              *)
EXTENDS Engine

\* Every step may end in every way.
MCAnyEnding == [s \in Steps |-> Endings]

\* The endings that interact across recoveries, every ending at one of the steps: the
\* first step may halt the second one in the first pass, in a retry or in a later run.
MCEndings ==
    [s \in Steps |-> IF s = 1 THEN {"ok", "halt", "system"}
                     ELSE {"skip", "business", "memory"}]

=============================================================================
