-------------------------- MODULE MCAssistantStream --------------------------
(* Instances of AssistantStream.                                            *)
EXTENDS AssistantStream

Base == [mode |-> "legacy", fallback |-> FALSE, symbolUsable |-> TRUE,
         compareGenerate |-> FALSE, verify |-> FALSE, valid |-> TRUE,
         requestValid |-> TRUE, protocol |-> TRUE]

(* Every mode and context outcome, and one request per way to be refused.   *)
MCCommands ==
  { Base,
    [Base EXCEPT !.valid = FALSE],
    [Base EXCEPT !.requestValid = FALSE],
    [Base EXCEPT !.compareGenerate = TRUE],
    [Base EXCEPT !.protocol = FALSE],
    [Base EXCEPT !.mode = "symbol", !.verify = TRUE],
    [Base EXCEPT !.mode = "symbol", !.symbolUsable = FALSE],
    [Base EXCEPT !.mode = "symbol", !.symbolUsable = FALSE, !.fallback = TRUE],
    [Base EXCEPT !.mode = "compare"],
    [Base EXCEPT !.mode = "compare", !.compareGenerate = TRUE],
    [Base EXCEPT !.mode = "compare", !.compareGenerate = TRUE, !.symbolUsable = FALSE],
    [Base EXCEPT !.mode = "compare", !.compareGenerate = TRUE, !.protocol = FALSE] }
=============================================================================
