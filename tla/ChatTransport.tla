---------------------------- MODULE ChatTransport ----------------------------
(* A chat request from the VS Code extension to the command line process and *)
(* back: runSequencedStream of protocol/client.ts spawns the process, writes *)
(* the request, validates every NDJSON event, cancels through stdin, kills   *)
(* after a grace period and settles its promise when the process has closed. *)
(* The runtime itself is ChatRuntime.                                        *)
EXTENDS ChatRuntime

CONSTANTS
  EventLimit,      \* limits.events of the client
  ConsumerThrows   \* the outcomes of a consumer of events: throws or not

ASSUME TransportAssumption == EventLimit \in Nat /\ ConsumerThrows \subseteq BOOLEAN

VARIABLES
  child,           \* the process: its life, exit code, a kill on its way
  control,         \* the cancel line: not written, written, read
  client           \* the state of the client's promise

vars == <<runtimeVars, child, control, client>>

NewClient ==
  [expected |-> 0, texts |-> 0, terminal |-> "none", error |-> "none",
   requested |-> FALSE, timedOut |-> FALSE, timer |-> FALSE, forced |-> FALSE,
   stdin |-> TRUE, result |-> "none"]

Init ==
  /\ RuntimeInit
  /\ child = [life |-> "running", code |-> 0, kill |-> FALSE, partial |-> FALSE]
  /\ control = "none"
  /\ client = NewClient

Running == child.life = "running"
Settled == client.result # "none"

-----------------------------------------------------------------------------
(* The process.                                                              *)
Runtime == Running /\ RuntimeStep /\ UNCHANGED <<child, control, client>>

(* run_chat ends with the code of the report's status.                       *)
Exit ==
  /\ Running /\ At("done")
  /\ child' = [child EXCEPT !.life = "exited",
                            !.code = IF rt.status = "completed" THEN 0 ELSE 2]
  /\ UNCHANGED <<runtimeVars, control, client>>

(* watch_control_stdin: a thread reads the control line.  (Ctrl-C sets the   *)
(* same token; the extension's child process has no console.)                *)
WatchControl ==
  /\ Running /\ control = "written" /\ ~At("setup")
  /\ control' = "read"
  /\ token' = TRUE
  /\ UNCHANGED <<req, rt, ver, saves, since, pipe, child, client>>

(* The kill takes effect: the memory of the process is gone, what was not    *)
(* yet in the pipe is lost, and the last line may be cut.                    *)
Die ==
  /\ Running /\ child.kill
  /\ \E n \in 0..Len(pipe) : pipe' = SubSeq(pipe, 1, n)
  /\ \E cut \in BOOLEAN :
       child' = [child EXCEPT !.life = "killed", !.partial = cut]
  /\ rt' = [NewRequest EXCEPT !.pc = "done", !.seq = rt.seq, !.texts = rt.texts,
                              !.status = rt.status]
  /\ since' = [p \in Paths |-> {}]
  /\ UNCHANGED <<req, token, ver, saves, control, client>>

-----------------------------------------------------------------------------
(* The client.  failParser keeps the first error and kills.                  *)
Kill == child' = [child EXCEPT !.kill = TRUE]
FailParser(code) ==
  /\ client' = [client EXCEPT !.error = code, !.forced = Running \/ client.forced]
  /\ IF Running THEN Kill ELSE UNCHANGED child

Expected(e) == client.expected + 1

(* acceptLine: an event after the terminal one, a gap in the sequence and    *)
(* too many events are errors; the consumer of the event may throw.          *)
AcceptLine(e, throws) ==
  IF client.terminal # "none" THEN FailParser("terminal_duplicate")
  ELSE IF e.seq # client.expected THEN FailParser("sequence_mismatch")
  ELSE IF client.expected >= EventLimit THEN FailParser("output_limit")
  ELSE LET seen == [client EXCEPT
                      !.expected = Expected(e),
                      !.texts = @ + (IF e.type = "text" THEN 1 ELSE 0),
                      !.terminal = IF e.type \in ChatTerminals THEN e.type ELSE @,
                      !.stdin = @ /\ e.type \notin ChatTerminals]
       IN IF throws
          THEN /\ client' = [seen EXCEPT !.error = "process_interrupted",
                                         !.forced = Running \/ client.forced]
               /\ IF Running THEN Kill ELSE UNCHANGED child
          ELSE client' = seen /\ UNCHANGED child

(* The stdout handler; after an error it discards what arrives.              *)
Receive(throws) ==
  /\ ~Settled
  /\ pipe # <<>>
  /\ pipe' = Tail(pipe)
  /\ IF client.error # "none" THEN UNCHANGED <<client, child>>
     ELSE AcceptLine(Head(pipe), throws)
  /\ UNCHANGED <<req, token, rt, ver, saves, since, control>>

(* Mutant: the grace period is not started.                                  *)
NoGrace(c) == c
ScheduleForcedTermination(c) == [c EXCEPT !.timer = TRUE]

(* requestCleanCancellation: the control line is written once, and only      *)
(* while stdin is open.                                                      *)
RequestCancellation(c) ==
  /\ client' = ScheduleForcedTermination([c EXCEPT !.requested = TRUE, !.stdin = FALSE])
  /\ control' = IF client.stdin THEN "written" ELSE control
  /\ UNCHANGED <<runtimeVars, child>>

Cancel ==
  /\ ~Settled /\ ~client.requested
  /\ RequestCancellation(client)

Timeout ==
  /\ ~Settled /\ ~client.timedOut
  /\ RequestCancellation([client EXCEPT !.timedOut = TRUE])

(* forceTerminate, when the grace period has passed.                         *)
ForceTerminate ==
  /\ ~Settled /\ client.timer
  /\ ~child.kill
  /\ Running
  /\ Kill
  /\ client' = [client EXCEPT !.forced = TRUE]
  /\ UNCHANGED <<runtimeVars, control>>

ExitCode == IF child.life = "killed" THEN 1 ELSE child.code

(* Mutant: the exit code of a completed stream is not looked at.             *)
ExitCodeIgnored ==
  IF client.error # "none" THEN client.error
  ELSE IF child.partial THEN "invalid_ndjson"
  ELSE IF client.timedOut THEN "timeout"
  ELSE IF client.terminal = "none" THEN "process_interrupted"
  ELSE client.terminal

(* The close handler, in its order: a parser error, a cut line, the timeout, *)
(* a missing terminal event, a completed stream with a failing exit code.    *)
Settlement ==
  IF client.error # "none" THEN client.error
  ELSE IF child.partial THEN "invalid_ndjson"
  ELSE IF client.timedOut THEN "timeout"
  ELSE IF client.terminal = "none" THEN
         IF client.requested
         THEN IF client.forced THEN "cancellation_forced" ELSE "cancellation_unconfirmed"
         ELSE IF ExitCode # 0 THEN "process_interrupted" ELSE "terminal_missing"
  ELSE IF client.terminal = "completed" /\ ExitCode # 0 THEN "process_failed"
  ELSE client.terminal

Close ==
  /\ ~Settled /\ ~Running
  /\ pipe = <<>>
  /\ client' = [client EXCEPT !.result = Settlement]
  /\ UNCHANGED <<runtimeVars, child, control>>

Change == Running /\ \E p \in Paths, v \in 0..Len(FileLines) :
            Save(p, v) /\ UNCHANGED <<child, control, client>>

Rested == Settled /\ UNCHANGED vars

Next ==
  \/ Runtime \/ Exit \/ WatchControl \/ Die
  \/ \E throws \in ConsumerThrows : Receive(throws)
  \/ Cancel \/ Timeout \/ ForceTerminate \/ Close
  \/ Change \/ Rested

Spec == Init /\ [][Next]_vars

(* The client's event loop, its timers and the operating system's delivery   *)
(* of a kill.  Nothing is assumed of the process: it may hang anywhere.      *)
FairSpec ==
  /\ Spec
  /\ WF_vars(Receive(FALSE)) /\ WF_vars(Timeout) /\ WF_vars(ForceTerminate)
  /\ WF_vars(Die) /\ WF_vars(Close)
-----------------------------------------------------------------------------
TypeOK ==
  /\ req \in Requests
  /\ token \in BOOLEAN
  /\ rt.seq \in Nat /\ rt.refused \in 0..Len(req.refs)
  /\ rt.kept \in 0..req.maxBytes
  /\ rt.left \in 0..TextChunks /\ rt.texts \in 0..TextChunks
  /\ ver \in [Paths -> 0..Len(FileLines)]
  /\ Len(pipe) <= PipeCapacity
  /\ child.life \in {"running", "exited", "killed"} /\ child.code \in {0, 2}
  /\ control \in {"none", "written", "read"}
  /\ client.expected \in 0..EventLimit

(* A grounded answer is shown only if every claim of fact cites lines that   *)
(* were injected for this request, with the hash they were injected with     *)
(* (run_grounded_assistant, validate_grounded_answer).                       *)
AnswerIsGrounded ==
  rt.texts > 0 /\ rt.route \in {"reference_llm", "document_facts"} =>
    GroundedIn(rt.answer, rt.snaps)

(* When the first words of a grounded answer are shown, every file it rests  *)
(* on has had the injected content at some moment after the answer was       *)
(* produced: an edit made while the model was thinking is never missed       *)
(* (resolve_reference, revalidate_reference_snapshots).                      *)
AnswerNotStale ==
  [][rt.texts = 0 /\ rt'.texts = 1 /\ rt.route \in {"reference_llm", "document_facts"} =>
       \A i \in 1..Len(rt.snaps) : rt.snaps[i].ver \in since[rt.snaps[i].path]]_vars

(* A request restricted to its references, by its scope or by its words,     *)
(* never sends a model the history or the project summary; a request that    *)
(* prefers references and has none uses only history that is known to be     *)
(* grounded in this workspace (effective_context_scope, prepare_request,     *)
(* bounded_history).                                                         *)
ScopeKept ==
  /\ req.restricted \/ req.scope = "references_only" =>
       rt.prompt \subseteq {"task", "references"} /\ rt.route # "automatic_assistant"
  /\ \A i \in rt.turns :
       /\ req.history[i].workspace # "other"
       /\ req.scope # "automatic" =>
            req.history[i].workspace = "same" /\ req.history[i].grounded = "yes"

(* A promise that resolves as completed has seen every event of a process    *)
(* that completed, all of the text included, and ended with code 0; one that *)
(* resolves as cancelled or failed reports what the process decided.         *)
ResolvedIsWhole ==
  /\ client.result = "completed" =>
       /\ rt.status = "completed" /\ child.life = "exited" /\ child.code = 0
       /\ client.expected = rt.seq /\ client.texts = rt.texts
  /\ client.result \in ChatTerminals => client.result = rt.status

(* A request cancelled before its terminal event was chosen, wherever the    *)
(* token was set and whether anything looked at it, is never reported as     *)
(* completed (execute_chat).                                                 *)
CancelHonoured ==
  [][token /\ rt.status = "none" /\ ~At("completed") =>
       rt'.status # "completed" /\ rt'.pc # "completed"]_vars

(* The events of the command line never look like a broken stream to the     *)
(* client: no gap, no event after the terminal one, no silent success        *)
(* (ChatEventEmitter::send, validate_and_render_event).                      *)
NoProtocolError ==
  /\ client.error \notin {"terminal_duplicate", "sequence_mismatch", "output_limit"}
  /\ client.result # "terminal_missing"

(* Every request settles, even if the process hangs: the timeout cancels,    *)
(* the grace period ends and the process is killed (runSequencedStream).     *)
Settles == <>Settled

(* What is shown is grounded in what was injected, and what was injected is *)
(* within the scope of the request.                                         *)
GroundedInScope == TypeOK /\ AnswerIsGrounded /\ ScopeKept

(* The client settles with what the process decided and received, and never *)
(* takes a stream of the command line for a broken one.                     *)
SettledAsDecided == ResolvedIsWhole /\ NoProtocolError

=============================================================================
