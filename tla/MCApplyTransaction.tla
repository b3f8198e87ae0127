------------------------- MODULE MCApplyTransaction -------------------------
(* Model-checking instances of ApplyTransaction: three paths, of which the  *)
(* requests replace, create and delete the first two.                       *)
EXTENDS ApplyTransaction, TLC

CONSTANTS a, b, t1, t2, p1, p2

(* Path 2 does not exist at the start.                                      *)
MCInitFiles == (1 :> a) @@ (2 :> Absent) @@ (3 :> a)

RequestOf(policy, planned, before, after) ==
  [policy |-> policy, files |-> planned,
   before |-> before @@ MCInitFiles, after |-> after @@ MCInitFiles]

(* Replace path 1 and create path 2; then delete path 1.                    *)
ReplaceAndCreate(policy) ==
  RequestOf(policy, {1, 2}, (1 :> a) @@ (2 :> Absent), (1 :> b) @@ (2 :> b))
DeleteFirst(policy) == RequestOf(policy, {1}, (1 :> b), (1 :> Absent))

MCRequests == {ReplaceAndCreate("require_clean"), DeleteFirst("allow_dirty")}
MCGitRequests == MCRequests \union {DeleteFirst("optional")}
MCCleanRequests == {ReplaceAndCreate("require_clean")}
MCOptionalRequests == {ReplaceAndCreate("optional")}
MCMixedRequests == {ReplaceAndCreate("optional"), DeleteFirst("optional")}

Symmetry == Permutations(Procs) \union Permutations(Txns)
=============================================================================
