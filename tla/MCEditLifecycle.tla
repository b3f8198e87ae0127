-------------------------- MODULE MCEditLifecycle --------------------------
(* Instances of EditLifecycle.                                              *)
EXTENDS EditLifecycle, TLC

CONSTANTS p1, p2, c1, c2

OneProp == {p1}
TwoProps == {p1, p2}
OtherProp == {p2}
TwoCmds == {c1, c2}
NoProps == {}

(* Processes are interchangeable.                                           *)
Symmetry == Permutations(TwoCmds)
=============================================================================
