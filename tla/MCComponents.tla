---------------------------- MODULE MCComponents ----------------------------
(* The components that have an instance of their own and no common state,   *)
(* checked in one run: the first state chooses the part of it that moves.   *)
(* The policy engine is checked once with two callers at a time, and once   *)
(* with every kind of request from one.                                     *)
(* The index is checked once while it is built and searched, and once while *)
(* files are read for a chat request; the chat sessions once over two       *)
(* clears, and once over a clear and a reload of the window; one of the     *)
(* two threads takes a second turn.                                         *)
EXTENDS ChatSession, EditReview, MCPolicyEngine, MCRagIndex, MCEditPlan, MCDocumentFacts,
        MCJavaEdits

VARIABLE part

Parts ==
  {"clears", "reload", "review", "policy", "rules", "index", "references", "plan", "facts", "java"}

componentVars == <<part, sessionVars, reviewVars, engineVars, ragVars, planVars, facts, javaVars>>

ComponentsInit ==
  /\ part \in Parts
  /\ SessionInit /\ ReviewInit /\ EngineInit /\ RagInit /\ PlanInit
  /\ JavaInit /\ (part # "java" => \A f \in JavaFiles : javaHead[f] = <<"broken">>)
  /\ IF part = "facts" THEN FactsInit
     ELSE facts = [format |-> "json", text |-> <<"{", "}">>, first |-> 1,
                   answered |-> FALSE, refused |-> FALSE, lines |-> <<>>]

TurnsBegun(t) == Len(chat[t]) + (IF In(t, "idle") THEN 0 ELSE 1)

ComponentsNext ==
  /\ UNCHANGED part
  /\ \/ /\ part \in {"clears", "reload"} /\ SessionNext
        /\ IF part = "clears" THEN counts'.reloads = 0 ELSE counts'.clears < 2
        /\ \E t \in Threads : TurnsBegun(t)' < MaxTurns
        /\ UNCHANGED <<reviewVars, engineVars, ragVars, planVars, facts, javaVars>>
     \/ /\ part = "review" /\ ReviewNext
        /\ UNCHANGED <<sessionVars, engineVars, ragVars, planVars, facts, javaVars>>
     \/ /\ part = "policy" /\ EngineNext
        /\ UNCHANGED <<sessionVars, reviewVars, ragVars, planVars, facts, javaVars>>
     \/ /\ part = "rules"
        /\ EngineStep(c1) \/ (events = <<>> /\ \E ask \in RuleAsks : Observe(c1, ask))
        /\ UNCHANGED <<sessionVars, reviewVars, ragVars, planVars, facts, javaVars>>
     \/ /\ part \in {"index", "references"} /\ RagNext
        /\ IF part = "index" THEN used'.requests = 0 ELSE used'.builds = 0
        /\ UNCHANGED <<sessionVars, reviewVars, engineVars, planVars, facts, javaVars>>
     \/ /\ part = "plan" /\ PlanNext
        /\ UNCHANGED <<sessionVars, reviewVars, engineVars, ragVars, facts, javaVars>>
     \/ /\ part = "facts" /\ FactsNext
        /\ UNCHANGED <<sessionVars, reviewVars, engineVars, ragVars, planVars, javaVars>>
     \/ /\ part = "java" /\ JavaNext
        /\ UNCHANGED <<sessionVars, reviewVars, engineVars, ragVars, planVars, facts>>

ComponentsSpec == ComponentsInit /\ [][ComponentsNext]_componentVars
=============================================================================
