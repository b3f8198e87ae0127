----------------------------- MODULE ChatRuntime -----------------------------
(* One chat request inside the command line process                          *)
(* (crates/opticcode-core/chat_runtime.rs and crates/opticcode-cli/chat.rs): *)
(* validation, authorization, resolution of the attached references, the     *)
(* routes that answer, and the single terminal event.  A step is one await   *)
(* of execute_chat or one read of the file system; between two steps files   *)
(* change and the request is cancelled.  The progress events of a step       *)
(* travel together as one event.                                             *)
EXTENDS Grounding

CONSTANTS
  Requests,        \* the requests a client may send
  Paths,           \* files of the workspace
  FileLines,       \* lines of each version of a file
  SourceSays,      \* features the files themselves contain
  PipeCapacity,    \* events between the runtime and its reader
  TextChunks,      \* TokenDelta events of an answer
  MaxSaves         \* model bound: changes of files during a request

ASSUME ChatAssumption ==
  /\ Paths # {}
  /\ FileLines \in Seq(Nat) /\ FileLines # <<>>
  /\ SourceSays \subseteq Features
  /\ PipeCapacity \in Nat \ {0} /\ TextChunks \in Nat \ {0} /\ MaxSaves \in Nat

VARIABLES
  req,             \* the request
  token,           \* the CancellationToken
  rt,              \* the state of execute_chat
  ver,             \* version of each file, 0 when it is absent
  saves,           \* changes of files so far
  since,           \* versions each file had since the answer was produced
  pipe             \* events rendered and not yet read

runtimeVars == <<req, token, rt, ver, saves, since, pipe>>

Versions == 1..Len(FileLines)
GroundedCommands == {"ask", "plan", "inspect"}
LocalCommands == {"context", "analyze", "index", "legacy", "status", "runs", "help"}
Infallible == {"status", "runs", "help"}
EditCommands == {"fix", "verify", "diff", "apply", "rollback"}
Commands == GroundedCommands \union LocalCommands \union EditCommands \union {"unknown"}
RequiresPrompt == {"ask", "plan", "context", "inspect", "fix"}
ChatTerminals == {"completed", "cancelled", "failed"}

(* A reference names a file and, if it is a range, its lines; the budgets    *)
(* are numbers; a command that is none is `unknown`.                         *)
ASSUME RequestsAssumption ==
  \A r \in Requests :
    /\ {Len(r.refs), r.maxRefs, r.maxBytes} \subseteq Nat
    /\ \A i \in 1..Len(r.refs) :
         r.refs[i].path \in Paths /\ {r.refs[i].lo, r.refs[i].hi} \subseteq Nat
    /\ r.command \in Commands /\ r.restricted \in BOOLEAN

NoAnswer == [empty |-> TRUE, says |-> {}, claims |-> <<>>, general |-> FALSE]

NewRequest ==
  [pc |-> "setup", ix |-> 1, first |-> 0, snaps |-> <<>>, refused |-> 0,
   kept |-> 0, turns |-> {}, prompt |-> {}, asked |-> FALSE, answer |-> NoAnswer,
   route |-> "none", left |-> TextChunks, res |-> "none", seq |-> 0,
   texts |-> 0, status |-> "none"]

RuntimeInit ==
  /\ req \in Requests
  /\ token = FALSE
  /\ rt = NewRequest
  /\ ver \in [Paths -> {1}]
  /\ saves = 0
  /\ since = [p \in Paths |-> {}]
  /\ pipe = <<>>

-----------------------------------------------------------------------------
(* ChatEventEmitter::send and validate_and_render_event: the event takes the *)
(* next sequence number and waits for room.                                  *)
Emit(kind, next) ==
  /\ Len(pipe) < PipeCapacity
  /\ pipe' = Append(pipe, [seq |-> rt.seq, type |-> kind])
  /\ rt' = [next EXCEPT !.seq = rt.seq + 1]

Quietly(next) == rt' = next /\ UNCHANGED pipe
At(pc) == rt.pc = pc
GoTo(pc) == [rt EXCEPT !.pc = pc]
(* What was prepared is dropped with the error.                              *)
Failure == [NewRequest EXCEPT !.pc = "finish", !.res = "err", !.seq = rt.seq,
                              !.route = rt.route, !.left = rt.left, !.texts = rt.texts]
Success == [rt EXCEPT !.pc = "finish", !.res = "ok"]
FilesAlone == UNCHANGED <<req, token, ver, saves, since>>

(* run_chat: a request that does not decode, or a provider that cannot be    *)
(* created, is answered by one setup failure event.                          *)
HasApp == req.command \in {"ask", "plan", "fix"}
Setup ==
  /\ At("setup")
  /\ \/ (~req.decodes \/ HasApp) /\ Emit("failed", [GoTo("done") EXCEPT !.status = "failed"])
     \/ req.decodes /\ Quietly(GoTo("validate"))
  /\ FilesAlone

(* validate_request: identifiers, lengths and numbers are wellFormed.        *)
ValidRequest ==
  /\ req.wellFormed
  /\ req.command # "unknown"
  /\ req.command \in RequiresPrompt => req.prompt
  /\ Len(req.refs) <= req.maxRefs
  /\ req.edit # "none" => req.command \in EditCommands
  /\ req.edit = "discard" => req.command = "diff"
  /\ req.edit = "confirmation" => req.command \in {"apply", "rollback"}
  /\ \A i, j \in 1..Len(req.refs) : req.refs[i].id = req.refs[j].id => i = j

Validate ==
  /\ At("validate")
  /\ Quietly(IF ValidRequest THEN GoTo("authorize") ELSE Failure)
  /\ FilesAlone

(* authorize_chat_request: the policy engine may be unavailable, deny the    *)
(* context action or find the workspace changed.                             *)
Authorize ==
  /\ At("authorize")
  /\ \/ Quietly(Failure)
     \/ Emit("progress", GoTo("accepted"))
  /\ FilesAlone

(* The client may only ask for read_only; the workspace must be a real       *)
(* directory (prepare_request).                                              *)
Accepted ==
  /\ At("accepted")
  /\ \/ Quietly(Failure)
     \/ req.readOnly /\ ~token /\ Emit("progress", GoTo("read"))
  /\ FilesAlone

-----------------------------------------------------------------------------
(* The current reference, and the lines of a version it stands for.          *)
Ref == req.refs[rt.ix]
Lo(r) == IF r.kind = "range" THEN r.lo ELSE 1
Hi(r, v) == IF r.kind = "range" THEN r.hi ELSE FileLines[v]
RangeExists(r, v) == Lo(r) <= Hi(r, v) /\ Hi(r, v) <= FileLines[v]

Refused == [rt EXCEPT !.pc = "read", !.ix = rt.ix + 1, !.refused = rt.refused + 1]
Resolved == [rt EXCEPT !.pc = "read", !.ix = rt.ix + 1]

(* resolve_reference, first read: a run or a proposal is an identity only; a *)
(* path outside the workspace, a sensitive or absent file and a range that   *)
(* is not in the file are refused.                                           *)
ReadReference ==
  /\ At("read") /\ rt.ix <= Len(req.refs)
  /\ IF Ref.kind = "identity" THEN Emit("progress", Resolved)
     ELSE IF Ref.kind = "unsafe" \/ ver[Ref.path] = 0 THEN Emit("progress", Refused)
     ELSE IF ~RangeExists(Ref, ver[Ref.path]) THEN Emit("progress", Refused)
     ELSE Quietly([GoTo("reread") EXCEPT !.first = ver[Ref.path]])
  /\ FilesAlone

Snapshot == [path |-> Ref.path, ver |-> rt.first, lo |-> Lo(Ref), hi |-> Hi(Ref, rt.first)]
Bytes == Snapshot.hi + 1 - Snapshot.lo

OverBudget == rt.kept + Bytes > req.maxBytes

(* resolve_reference, second read, and the byte budget of prepare_request.   *)
RereadReference ==
  /\ At("reread")
  /\ Emit("progress",
          IF ver[Ref.path] # rt.first \/ OverBudget THEN Refused
          ELSE [Resolved EXCEPT !.snaps = Append(rt.snaps, Snapshot),
                                !.kept = rt.kept + Bytes])
  /\ FilesAlone

Scope == EffectiveScope(req.scope, req.restricted)

BroadContext(scope, snaps) ==
  scope = "automatic" \/ (scope = "references_preferred" /\ snaps = <<>>)

(* The turns bounded_history may use: outside the automatic scope only turns *)
(* known to be grounded in this workspace.                                   *)
TurnFits(turn, scope) ==
  /\ turn.workspace # "other"
  /\ turn.grounded # "no"
  /\ scope # "automatic" =>
       turn.workspace = "same" /\ turn.grounded = "yes" /\ turn.fingerprint
  /\ ~(scope = "references_preferred" /\ turn.scope = "automatic")

(* bounded_history walks from the newest turn; a turn that does not fit is   *)
(* passed over, the first one over a budget ends the walk.  So a turn is     *)
(* kept if it is within the budgets together with the fitting newer ones.    *)
Characters(turns) == MapThenSumSet(LAMBDA i : req.history[i].size, turns)

BoundedHistory(scope) ==
  LET fitting == {i \in DOMAIN req.history : TurnFits(req.history[i], scope)}
      From(i) == {j \in fitting : j >= i}
  IN {i \in fitting :
        Cardinality(From(i)) <= req.maxTurns /\ Characters(From(i)) <= req.maxChars}

Manifest == ContextManifest(Scope, rt.snaps)

(* prepare_request once every reference is resolved: the history and the     *)
(* project summary enter the prompt only where broad context is allowed.     *)
Prepare ==
  /\ At("read") /\ rt.ix > Len(req.refs)
  /\ LET broad == BroadContext(Scope, rt.snaps)
         history == IF broad THEN BoundedHistory(Scope) ELSE {}
     IN IF Scope = "references_only" /\ rt.snaps = <<>> THEN Quietly(Failure)
        ELSE IF rt.kept + Characters(history) > req.maxPrompt THEN Quietly(Failure)
        ELSE Emit("progress",
                  [GoTo("prepared") EXCEPT
                     !.turns = history,
                     !.prompt = {"task", "references"}
                                \union IF broad THEN {"history", "project"} ELSE {}])
  /\ FilesAlone

-----------------------------------------------------------------------------
(* execute_chat_inner chooses the route.                                     *)
Route ==
  /\ At("prepared")
  /\ Quietly(
       IF token THEN Success
       ELSE CASE req.command = "inspect" -> GoTo("context")
              [] req.command \in {"ask", "plan"} ->
                   IF Scope # "automatic" /\ rt.snaps # <<>> THEN GoTo("context")
                   ELSE [GoTo("assistant") EXCEPT !.route = "automatic_assistant"]
              [] req.command \in LocalCommands -> GoTo("local")
              [] req.command \in EditCommands -> GoTo("edit"))
  /\ FilesAlone

(* run_grounded_assistant.                                                   *)
GroundedContext ==
  /\ At("context")
  /\ Emit("progress", IF token THEN Failure ELSE GoTo("facts"))
  /\ FilesAlone

(* inspect_document_facts: a structured document answers a document question *)
(* without a model; each fact cites its line.                                *)
DocumentFacts(s) ==
  [empty |-> FALSE, says |-> {}, general |-> FALSE,
   claims |-> <<[id |-> 1, class |-> "observed", words |-> "task", absence |-> FALSE,
                 evidence |-> {[path |-> s.path, lo |-> s.lo, hi |-> s.lo,
                                hash |-> InjectedHash(s.path, s.ver, s.lo, s.hi)]}]>>]

Facts ==
  /\ At("facts")
  /\ IF Len(rt.snaps) # 1 \/ req.task.query \in {"none", "unstructured"}
     THEN Quietly(GoTo("provider")) /\ UNCHANGED since
     ELSE IF req.task.query = "unparsable" THEN Quietly(Failure) /\ UNCHANGED since
     ELSE /\ Emit("progress", [GoTo("check") EXCEPT !.answer = DocumentFacts(rt.snaps[1]),
                                                    !.route = "document_facts"])
          /\ since' = [p \in Paths |-> {ver[p]}]
  /\ UNCHANGED <<req, token, ver, saves>>

(* The provider is set up: only commands that need one were given one, and   *)
(* the model is verified.                                                    *)
StartProvider ==
  /\ At("provider")
  /\ \/ Quietly(Failure)
     \/ HasApp /\ Emit("progress", [GoTo("generate") EXCEPT !.route = "reference_llm"])
  /\ FilesAlone

-----------------------------------------------------------------------------
(* What a model may answer: an honest answer that cites every snapshot, or   *)
(* one that departs from it.                                                 *)
Citation(s) ==
  [path |-> s.path, lo |-> s.lo, hi |-> s.hi, hash |-> InjectedHash(s.path, s.ver, s.lo, s.hi)]
Claim(id, s) ==
  [id |-> id, class |-> "observed", words |-> "source", absence |-> FALSE,
   evidence |-> {Citation(s)}]
Honest(snaps) ==
  [empty |-> FALSE, says |-> {}, general |-> FALSE,
   claims |-> [i \in 1..Len(snaps) |-> Claim(i, snaps[i])]]

Departures(snaps) ==
  LET h == Honest(snaps)
      c == Citation(snaps[1])
      With(claim) == [h EXCEPT !.claims = <<claim>> \o Tail(h.claims)]
      Cites(e) == With([h.claims[1] EXCEPT !.evidence = {e}])
  IN { h, NoAnswer,
       [h EXCEPT !.claims = <<>>],
       [h EXCEPT !.claims = h.claims \o <<h.claims[1]>>],
       [h EXCEPT !.general = TRUE],
       With([h.claims[1] EXCEPT !.evidence = {}]),
       With([h.claims[1] EXCEPT !.evidence = {}, !.class = "general_knowledge"]),
       With([h.claims[1] EXCEPT !.words = "foreign"]),
       With([h.claims[1] EXCEPT !.words = "task", !.absence = TRUE]) }
     \union {[h EXCEPT !.says = {f}] : f \in Features}
     \union {Cites([c EXCEPT !.path = p]) : p \in Paths}
     \union {Cites([c EXCEPT !.hash = InjectedHash(c.path, v, c.lo, c.hi)]) : v \in Versions}
     \union {Cites([c EXCEPT !.hi = c.hi + 1])}

Answered(r) ==
  /\ rt' = [GoTo("generated") EXCEPT !.answer = r]
  /\ since' = [p \in Paths |-> {ver[p]}]
  /\ UNCHANGED <<req, token, ver, saves, pipe>>

(* generate_grounded_response: the provider fails or is cancelled, answers,  *)
(* or answers something that does not parse, which is corrected once.        *)
Generate ==
  /\ At("generate")
  /\ \/ Quietly(Failure) /\ FilesAlone
     \/ ~rt.asked /\ Quietly(IF token THEN Failure ELSE [rt EXCEPT !.asked = TRUE]) /\ FilesAlone
     \/ ~token /\ \E r \in Departures(rt.snaps) : Answered(r)

Generated ==
  /\ At("generated")
  /\ Quietly(IF token THEN Failure ELSE GoTo("check"))
  /\ FilesAlone

(* validate_grounded_answer.                                                 *)
CheckAnswer ==
  /\ At("check")
  /\ Emit("progress",
          IF /\ ValidateEvidence(rt.answer, Manifest, req.evidence)
             /\ ValidateCompliance(rt.answer, req.task, Manifest, rt.snaps, SourceSays)
          THEN [GoTo("revalidate") EXCEPT !.ix = 1] ELSE Failure)
  /\ FilesAlone

(* Mutant: only the first snapshot is read again.                            *)
FirstSnapshotCurrent == rt.ix > 1 \/ ver[rt.snaps[rt.ix].path] = rt.snaps[rt.ix].ver

(* revalidate_reference_snapshots reads one file after the other.            *)
SnapshotCurrent == ver[rt.snaps[rt.ix].path] = rt.snaps[rt.ix].ver
Revalidate ==
  /\ At("revalidate")
  /\ Quietly(IF rt.ix > Len(rt.snaps) THEN GoTo("text")
             ELSE IF SnapshotCurrent THEN [rt EXCEPT !.ix = rt.ix + 1] ELSE Failure)
  /\ FilesAlone

(* emit_text of a grounded answer, in bounded chunks; nothing looks at the   *)
(* token any more.                                                           *)
EmitText ==
  /\ At("text")
  /\ Emit("text", [(IF rt.left = 1 THEN Success ELSE rt) EXCEPT
                      !.left = rt.left - 1, !.texts = rt.texts + 1])
  /\ FilesAlone

-----------------------------------------------------------------------------
(* run_assistant: the events of the assistant stream (AssistantStream) are   *)
(* translated as they come; the report decides.                              *)
Assistant ==
  /\ At("assistant")
  /\ \/ rt.left > 0 /\ Emit("text", [rt EXCEPT !.left = rt.left - 1, !.texts = rt.texts + 1])
     \/ Quietly(Success)
     \/ Quietly(Failure)
  /\ FilesAlone

(* run_context_command, run_analyze_command, run_index_command,              *)
(* run_legacy_command, run_status_command, run_runs_command,                 *)
(* run_help_command: an analysis may fail; the report is emitted as text.    *)
LocalCommand ==
  /\ At("local")
  /\ \/ req.command \notin Infallible /\ Quietly(Failure)
     \/ Emit("text", [Success EXCEPT !.texts = rt.texts + 1])
  /\ FilesAlone

(* run_chat_edit: the commands of EditLifecycle, seen from the stream.       *)
EditCommand ==
  /\ At("edit")
  /\ \/ Quietly(Failure)
     \/ Emit("progress", GoTo("edited"))
  /\ FilesAlone

EditReport ==
  /\ At("edited")
  /\ \/ Quietly(Failure)
     \/ Emit("text", [Success EXCEPT !.texts = rt.texts + 1])
  /\ FilesAlone

(* Mutant: a cancelled request that produced a result reports completion.    *)
LateCancelIgnored == rt.res = "err" /\ token
IsCancelled == token

(* execute_chat sends the terminal event.                                    *)
Finish ==
  /\ At("finish")
  /\ IF IsCancelled THEN Emit("cancelled", [GoTo("done") EXCEPT !.status = "cancelled"])
     ELSE IF rt.res = "err" THEN Emit("failed", [GoTo("done") EXCEPT !.status = "failed"])
     ELSE Emit("progress", GoTo("completed"))
  /\ FilesAlone

Complete ==
  /\ At("completed")
  /\ Emit("completed", [GoTo("done") EXCEPT !.status = "completed"])
  /\ FilesAlone

RuntimeStep ==
  \/ Setup \/ Validate \/ Authorize \/ Accepted
  \/ ReadReference \/ RereadReference \/ Prepare \/ Route
  \/ GroundedContext \/ Facts \/ StartProvider \/ Generate \/ Generated
  \/ CheckAnswer \/ Revalidate \/ EmitText
  \/ Assistant \/ LocalCommand \/ EditCommand \/ EditReport \/ Finish \/ Complete

(* The user saves or deletes a file, while the request may still read it.    *)
Save(p, v) ==
  /\ saves < MaxSaves
  /\ rt.pc \in {"read", "reread", "facts", "generate", "generated", "check", "revalidate"}
  /\ v # ver[p]
  /\ ver' = [ver EXCEPT ![p] = v]
  /\ since' = [since EXCEPT ![p] = @ \union {v}]
  /\ saves' = saves + 1
  /\ UNCHANGED <<req, token, rt, pipe>>
=============================================================================
