------------------------- MODULE MCRecoveryAndStream -------------------------
(* Recovery of apply transactions and the assistant command share no state  *)
(* and are checked in one run: the instance is the sum of the two, not      *)
(* their product, for no transaction is begun before the one assistant      *)
(* command that is refused without a session to tell it to has returned.    *)
EXTENDS MCApplyTransaction, MCAssistantStream

Unheard == [Base EXCEPT !.valid = FALSE, !.protocol = FALSE]
MCAllCommands == MCCommands \union {Unheard}

Turn == opts = Unheard /\ apc = "returned"

MCInit == Init /\ StreamInit

MCNext ==
  \/ ~Turn /\ StreamNext /\ UNCHANGED vars
  \/ Turn /\ Next /\ UNCHANGED streamVars

(* The fairness of the two modules; before its turn no operation of the     *)
(* engine is under way and no transaction is listed, so none is owed.       *)
MCFairness == Fairness /\ WF_streamVars(Engine) /\ WF_streamVars(Receive)

MCSpec == MCInit /\ [][MCNext]_<<vars, streamVars>> /\ MCFairness
=============================================================================
