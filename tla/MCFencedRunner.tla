--------------------------- MODULE MCFencedRunner ---------------------------
(* Instances of FencedRunner for TLC.                                        *)
EXTENDS FencedRunner, TLC

CONSTANTS w1, w2

MCSymmetry == Permutations({w1, w2})

\* Every step may end in every way.
MCAnyEnding == [s \in Steps |-> Endings]

\* Success, or a business failure.
MCOkOrBusiness == [s \in Steps |-> {"ok", "business"}]
=============================================================================
