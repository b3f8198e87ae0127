--------------------------- MODULE MCApprovalStore ---------------------------
(* Model-checking instance of ApprovalStore: the confirmed binding, and for *)
(* each field a binding that differs from it in that field alone.           *)
EXTENDS ApprovalStore, TLC

CONSTANTS c1, c2, g1

MCHashes == {"confirmed", "drifted"}
MCConfirmed == [f \in Fields |-> "confirmed"]
MCConfirmedSet == {MCConfirmed}
MCBindings == {MCConfirmed} \union {[MCConfirmed EXCEPT ![f] = "drifted"] : f \in Fields}

Symmetry == Permutations(Callers)
=============================================================================
