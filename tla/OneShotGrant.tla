---------------------------- MODULE OneShotGrant ----------------------------
(***************************************************************************)
(* What the approval store promises: a grant is used at most once.  It is  *)
(* issued with the binding the user confirmed; the first caller to present *)
(* it gets an answer, yes only for that very binding, and whatever the     *)
(* answer, or if the caller dies before it gets one, the grant is spent.   *)
(***************************************************************************)
CONSTANTS Grants, Bindings, NoBinding

VARIABLES
  status,   \* grant -> "unissued", "available", "granted", "refused", "lost"
  bound     \* grant -> the binding it was issued for

vars == <<status, bound>>

Init ==
  /\ status = [g \in Grants |-> "unissued"]
  /\ bound = [g \in Grants |-> NoBinding]

Issue(g) ==
  /\ status[g] = "unissued"
  /\ \E b \in Bindings : bound' = [bound EXCEPT ![g] = b]
  /\ status' = [status EXCEPT ![g] = "available"]

(* Only an available grant changes, and only to a final status.            *)
Spend(g, end) ==
  /\ status[g] = "available"
  /\ status' = [status EXCEPT ![g] = end]
  /\ UNCHANGED bound

Next == \E g \in Grants : Issue(g) \/ \E end \in {"granted", "refused", "lost"} : Spend(g, end)

Spec == Init /\ [][Next]_vars
=============================================================================
