--------------------------- MODULE MCEditCommands ---------------------------
(* Two processes and nothing else but a clock and a cancellation; the first *)
(* state chooses what they meet: five commands on two proposals for one     *)
(* file, or four on one proposal, on which either commands of a kind run    *)
(* twice at once, or the TTL elapses and a command is cancelled.            *)
EXTENDS MCEditLifecycle

VARIABLE scenario

scenarioVars == <<vars, scenario>>

(* Which of two idle processes starts, and which of two proposals comes     *)
(* first, is a matter of their names: a reduction by symmetry that holds    *)
(* for Settles as well.                                                     *)
StartsInOrder == cmd[c2] = Idle /\ cmd'[c2] # Idle => cmd[c1] # Idle
FirstIsP1 == issued = 1 => \A c \in Cmds : cmd[c].prop # p2

OneProposal == issued <= 4 /\ \A c \in Cmds : cmd[c].prop # p2

Within ==
  CASE scenario = "overlapping" ->
         FirstIsP1 /\ contested = {} /\ late = {} /\ budget.cancels = 0
    [] scenario = "contended" -> OneProposal /\ late = {} /\ budget.cancels = 0
    [] scenario = "expiring" -> OneProposal /\ contested = {}

ScenarioInit == Init /\ scenario \in {"overlapping", "contended", "expiring"}

ScenarioNext == Next /\ UNCHANGED scenario /\ Within' /\ StartsInOrder

(* A started command keeps running, as in FairSpec: no bound of a scenario  *)
(* stops one that has started.                                              *)
ScenarioSpec ==
  /\ ScenarioInit /\ [][ScenarioNext]_scenarioVars
  /\ \A c \in Cmds : WF_scenarioVars(Works(c) /\ UNCHANGED scenario)
=============================================================================
