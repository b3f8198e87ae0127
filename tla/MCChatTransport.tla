--------------------------- MODULE MCChatTransport ---------------------------
(* Instances of ChatTransport.                                              *)
EXTENDS ChatTransport

MCFileLines == <<2, 1>>

Task == [query |-> "none", noAdvice |-> FALSE, rust |-> FALSE]
Turn == [workspace |-> "same", grounded |-> "yes", fingerprint |-> TRUE,
         scope |-> "references_only", size |-> 1]
Whole(id, p) == [id |-> id, kind |-> "file", path |-> p, lo |-> 1, hi |-> 1]
Lines(id, p, lo, hi) == [id |-> id, kind |-> "range", path |-> p, lo |-> lo, hi |-> hi]

Base ==
  [command |-> "ask", scope |-> "references_preferred", restricted |-> FALSE,
   evidence |-> "required", task |-> Task, refs |-> <<>>, history |-> <<>>,
   decodes |-> TRUE, wellFormed |-> TRUE, prompt |-> TRUE, readOnly |-> TRUE,
   edit |-> "none", maxRefs |-> 2, maxBytes |-> 3, maxTurns |-> 1, maxChars |-> 2,
   maxPrompt |-> 4]

History == <<[Turn EXCEPT !.workspace = "other"], Turn,
             [Turn EXCEPT !.grounded = "unknown"], Turn, [Turn EXCEPT !.scope = "automatic"]>>

(* One request per route, and one per way to be refused.                    *)
MCRequests ==
  { [Base EXCEPT !.refs = <<Whole(1, "a"), Lines(2, "b", 1, 1)>>],
    [Base EXCEPT !.refs = <<Whole(1, "a"), Whole(2, "b")>>, !.scope = "automatic",
                 !.restricted = TRUE, !.evidence = "optional"],
    [Base EXCEPT !.refs = <<Lines(1, "a", 1, 1), Lines(2, "a", 2, 2)>>,
                 !.scope = "references_only", !.task.noAdvice = TRUE],
    [Base EXCEPT !.command = "inspect", !.task.query = "keys", !.refs = <<Lines(1, "a", 2, 2)>>],
    [Base EXCEPT !.command = "inspect", !.task.query = "unparsable", !.refs = <<Whole(1, "a")>>],
    [Base EXCEPT !.command = "plan", !.task.query = "unstructured", !.refs = <<Whole(1, "a")>>],
    [Base EXCEPT !.history = History,
                 !.refs = <<[Whole(1, "a") EXCEPT !.kind = "identity"],
                            [Whole(2, "a") EXCEPT !.kind = "unsafe"]>>],
    [Base EXCEPT !.history = History, !.scope = "automatic", !.maxTurns = 3],
    [Base EXCEPT !.history = History, !.scope = "automatic", !.restricted = TRUE],
    [Base EXCEPT !.command = "status", !.prompt = FALSE],
    [Base EXCEPT !.command = "analyze", !.prompt = FALSE, !.readOnly = FALSE],
    [Base EXCEPT !.command = "context", !.maxPrompt = 0],
    [Base EXCEPT !.command = "apply", !.edit = "confirmation"],
    [Base EXCEPT !.command = "diff", !.edit = "confirmation"],
    [Base EXCEPT !.decodes = FALSE],
    [Base EXCEPT !.refs = <<Whole(1, "a"), Whole(1, "b")>>] }
=============================================================================
