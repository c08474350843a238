----------------------------- MODULE MCRelease -----------------------------
(* Model checking Release: publishing jobs and platform cells are alike.    *)
EXTENDS Release, TLC

(* Two commits with the same version: a fix lands on main before the tag. *)
MCVersion == <<1, 1>>
MCSymmetry == Permutations(Jobs) \union Permutations(Platforms)
=============================================================================
