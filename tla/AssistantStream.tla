--------------------------- MODULE AssistantStream ---------------------------
(* One assistant command (crates/opticcode-core/src/assistant_runtime.rs):   *)
(* context preparation, the model preflight, one provider generation per     *)
(* prepared prompt, and the events sent to the consumer of the protocol.     *)
(* The provider's future, the channel between the two and the forwarding     *)
(* loop run in one task: while an event is being forwarded the provider      *)
(* does not advance.  The consumer of the assistant's events is another      *)
(* task, which may be slow or go away.                                       *)
EXTENDS ProviderStream

CONSTANTS
  Commands,           \* the AssistantExecutionOptions a command may get
  AssistantCapacity,  \* capacity of the assistant's event channel
  MaxLosses           \* model bound: deliveries that time out

Modes == {"legacy", "symbol"}

(* compareGenerate authorizes a second generation; symbolUsable is what the  *)
(* context analysis finds; valid and requestValid are the outcomes of        *)
(* validate_execution_options and GenerationRequest::validate on the model   *)
(* name, the prompt and the limits; protocol says that there is a session to *)
(* send events to.                                                           *)
Options ==
  [mode : Modes \union {"compare"}, fallback : BOOLEAN, symbolUsable : BOOLEAN,
   compareGenerate : BOOLEAN, verify : BOOLEAN, valid : BOOLEAN,
   requestValid : BOOLEAN, protocol : BOOLEAN]

ASSUME AssistantAssumption ==
  /\ Commands \subseteq Options
  /\ AssistantCapacity \in Nat \ {0}
  /\ MaxLosses \in Nat

VARIABLES
  opts,        \* the AssistantExecutionOptions and what they lead to
  apc,         \* control point of execute_assistant
  runs,        \* AssistantRunReport, one per prompt
  index,       \* the prompt at work
  errors,      \* codes of the report's errors
  held,        \* the provider event being forwarded, or NoEvent
  validation,  \* ProviderEventValidationState
  aseq,        \* AssistantEventEmitter.sequence
  aq,          \* assistant events sent and not yet received
  sink,        \* is the receiver open?
  losses,      \* deliveries that timed out
  seen,        \* what the consumer received
  ret          \* what execute_assistant returned

assistantVars == <<opts, runs, index, errors, held, validation, aseq, aq, sink, losses>>
streamVars == <<providerVars, assistantVars, apc, seen, ret>>

NoEvent == [type |-> "none", seq |-> 0, output |-> 0]
NoValidation == [next |-> 0, terminals |-> 0]

-----------------------------------------------------------------------------
(* prepare_assistant_context: legacy context is always usable; an unusable   *)
(* symbol context is refused or replaced by the legacy one, as asked.        *)
UsedMode(o) ==
  CASE o.mode = "legacy" -> "legacy"
    [] o.mode = "compare" -> "compare"
    [] o.mode = "symbol" -> IF o.symbolUsable THEN "symbol"
                            ELSE IF o.fallback THEN "legacy" ELSE "none"

Usable(o, mode) == mode = "legacy" \/ o.symbolUsable

(* requested_run_modes.                                                      *)
RequestedRunModes(o) ==
  IF o.mode = "compare" THEN <<"legacy", "symbol">>
  ELSE IF UsedMode(o) = "none" THEN <<o.mode>> ELSE <<UsedMode(o)>>

PreparedRuns(o) ==
  [i \in DOMAIN RequestedRunModes(o) |->
    LET mode == RequestedRunModes(o)[i]
    IN [mode |-> mode, skipped |-> ~Usable(o, mode), generated |-> FALSE,
        output |-> 0, failed |-> FALSE]]

(* validate_execution_options.                                               *)
OptionsAccepted(o) == o.valid /\ (o.compareGenerate => o.mode = "compare")

StreamInit ==
  /\ ProviderInit
  /\ opts \in Commands
  /\ apc = "started"
  /\ runs = <<>> /\ index = 0 /\ errors = <<>>
  /\ held = NoEvent /\ validation = NoValidation
  /\ aseq = 0 /\ aq = <<>>
  /\ sink = "open" /\ losses = 0
  /\ seen = [next |-> 0, whole |-> TRUE, late |-> FALSE, terminal |-> "none",
             text |-> [m \in Modes |-> 0], outputs |-> [m \in Modes |-> 0]]
  /\ ret = "none"

-----------------------------------------------------------------------------
(* AssistantEventEmitter::send.  The number is taken before the delivery, so *)
(* one that times out leaves a gap.                                          *)
AssistantEvent(kind, mode, provider) ==
  [seq |-> aseq, kind |-> kind, mode |-> mode, provider |-> provider]

Delivered(event) ==
  /\ opts.protocol
  /\ sink = "open"
  /\ Len(aq) < AssistantCapacity
  /\ aq' = Append(aq, event)
  /\ aseq' = aseq + 1
  /\ UNCHANGED <<sink, losses>>

(* The channel stays full for EVENT_DELIVERY_TIMEOUT, or is closed.          *)
Undelivered ==
  /\ opts.protocol
  /\ aseq' = aseq + 1
  /\ \/ /\ sink = "open" /\ Len(aq) = AssistantCapacity /\ losses < MaxLosses
        /\ losses' = losses + 1
     \/ /\ sink = "closed"
        /\ UNCHANGED losses
  /\ UNCHANGED <<aq, sink>>

NoSession == ~opts.protocol /\ UNCHANGED <<aseq, aq, sink, losses>>

Quiet == UNCHANGED <<providerVars, opts, runs, index, errors, held, validation, seen>>

ReturnWith(result) == apc' = "returned" /\ ret' = result
ContinueAt(pc) == apc' = pc /\ UNCHANGED ret

(* A send at control point `at`: delivered or not needed, the command goes   *)
(* on at `then`; not delivered, it returns the delivery error.               *)
SendThen(at, event, then) ==
  /\ apc = at
  /\ \/ (Delivered(event) \/ NoSession) /\ ContinueAt(then)
     \/ Undelivered /\ ReturnWith("undelivered")
  /\ Quiet

SendStarted == SendThen("started", AssistantEvent("started", "none", NoEvent), "prepare")

(* An error of execute_assistant_inner outside the report ("inner").         *)
InnerFails(pcs) ==
  /\ apc \in pcs
  /\ errors' = Append(errors, IF cancelled THEN "request_cancelled" ELSE "command_failed")
  /\ ContinueAt("inner_error")
  /\ UNCHANGED <<providerVars, opts, runs, index, held, validation, seen, aseq, aq, sink, losses>>

(* Options, cancellation, context, profile, memory and RAG up to the report. *)
PrepareContext ==
  /\ apc = "prepare"
  /\ OptionsAccepted(opts) /\ ~cancelled
  /\ runs' = PreparedRuns(opts)
  /\ ContinueAt("prepared")
  /\ UNCHANGED <<providerVars, opts, index, errors, held, validation, seen, aseq, aq, sink, losses>>

(* The workspace, profile, memory or index cannot be read, the options are   *)
(* refused, or the request was cancelled.                                    *)
PrepareFails == InnerFails({"prepare"})

(* The prepared context is announced; a failed delivery is an inner error.   *)
SendPrepared ==
  /\ apc = "prepared"
  /\ \/ (Delivered(AssistantEvent("prepared", "none", NoEvent)) \/ NoSession)
        /\ UNCHANGED errors /\ ContinueAt("decide")
     \/ /\ Undelivered
        /\ errors' = Append(errors, IF cancelled THEN "request_cancelled" ELSE "command_failed")
        /\ ContinueAt("inner_error")
  /\ UNCHANGED <<providerVars, opts, runs, index, held, validation, seen>>

(* attach_error: the run of the mode, if any, and the report take the error. *)
Attach(code, mode) ==
  /\ errors' = Append(errors, code)
  /\ runs' = [i \in DOMAIN runs |->
                IF runs[i].mode = mode THEN [runs[i] EXCEPT !.failed = TRUE] ELSE runs[i]]

Rest == UNCHANGED <<providerVars, opts, index, held, validation, seen, aseq, aq, sink, losses>>

(* The early returns between the context event and the first generation.     *)
Decide ==
  /\ apc = "decide"
  /\ IF cancelled THEN Attach("request_cancelled", "none") /\ ContinueAt("finish")
     ELSE IF opts.mode = "compare" /\ ~opts.compareGenerate
     THEN UNCHANGED <<errors, runs>> /\ ContinueAt("compared")
     ELSE IF UsedMode(opts) = "none" \/ (opts.mode = "compare" /\ ~opts.symbolUsable)
     THEN Attach("context_rejected", "symbol") /\ ContinueAt("finish")
     ELSE UNCHANGED <<errors, runs>> /\ ContinueAt(IF opts.verify THEN "preflight" ELSE "next")
  /\ Rest

(* The health check races the token; the model must be in the inventory.     *)
Preflight ==
  /\ apc = "preflight"
  /\ \/ cancelled /\ Attach("request_cancelled", "none") /\ ContinueAt("finish")
     \/ \E code \in {"model_unavailable", "ollama_unavailable"} :
          Attach(code, "none") /\ ContinueAt("finish")
     \/ UNCHANGED <<errors, runs>> /\ ContinueAt("next")
  /\ Rest

-----------------------------------------------------------------------------
(* The loop over the prompts: a skipped one is passed over, and the error of *)
(* one does not stop the next.                                               *)
NextPrompt ==
  /\ apc = "next"
  /\ LET left == {i \in DOMAIN runs : i > index /\ ~runs[i].skipped}
     IN IF left = {} THEN /\ ContinueAt("finish")
                          /\ UNCHANGED <<index, prov, validation>>
        ELSE /\ index' = CHOOSE i \in left : \A j \in left : i <= j
             /\ prov' = NewStream("open")
             /\ validation' = NoValidation
             /\ ContinueAt(IF opts.protocol THEN "stream" ELSE "generate")
  /\ UNCHANGED <<cancelled, pq, chunks, opts, runs, errors, held, seen, aseq, aq, sink, losses>>

(* The run's outcome enters the report; the future and its channel are       *)
(* dropped.                                                                  *)
Generated(output) ==
  /\ runs' = [runs EXCEPT ![index].generated = TRUE, ![index].output = output]
  /\ UNCHANGED errors
(* Mutant: every failed generation counts as cancelled.                      *)
AlwaysCancelled(kind) ==
  /\ runs' = [runs EXCEPT ![index].failed = TRUE]
  /\ errors' = Append(errors, "generation_cancelled")
GenerationFailed(kind) ==
  /\ runs' = [runs EXCEPT ![index].failed = TRUE]
  /\ errors' = Append(errors, IF kind = "cancelled" THEN "generation_cancelled"
                              ELSE "generation_failed")
Close == prov' = NewStream("idle") /\ pq' = <<>> /\ held' = NoEvent

(* Without a session the prompt is generated in one call, whose token nobody *)
(* cancels: the body is read, bounded and parsed as a whole.                 *)
Generate ==
  /\ apc = "generate"
  /\ \/ opts.requestValid /\ \E n \in 0..MaxOutput : Generated(n)
     \/ GenerationFailed("failed")
  /\ Close
  /\ ContinueAt("next")
  /\ UNCHANGED <<cancelled, chunks, opts, index, validation, seen, aseq, aq, sink, losses>>

(* stream_provider_generation polls the future while no event is held.       *)
Provider ==
  /\ apc = "stream"
  /\ held = NoEvent
  /\ ProviderStep \/ Open(opts.requestValid)
  /\ UNCHANGED <<assistantVars, apc, seen, ret>>

(* Its select takes an event; once the future has ended, all of them.        *)
TakeEvent ==
  /\ apc = "stream"
  /\ held = NoEvent
  /\ pq # <<>>
  /\ held' = Head(pq)
  /\ pq' = Tail(pq)
  /\ UNCHANGED <<cancelled, prov, chunks, opts, runs, index, errors, validation, aseq, aq,
                 sink, losses, apc, seen, ret>>

EventAccepted(event) == validation.terminals = 0 /\ event.seq = validation.next

(* validate_and_forward_provider_event: an event that is refused or cannot   *)
(* be delivered cancels the token and abandons the generation.               *)
Abandon ==
  /\ cancelled' = TRUE
  /\ Close
  /\ GenerationFailed("failed")
  /\ ContinueAt("next")

Refuse ==
  /\ ~EventAccepted(held)
  /\ Abandon
  /\ UNCHANGED <<validation, aseq, aq, sink, losses>>

Deliver ==
  /\ EventAccepted(held)
  /\ validation' = [next |-> validation.next + 1,
                    terminals |-> validation.terminals + (IF IsTerminal(held) THEN 1 ELSE 0)]
  /\ \/ /\ Delivered(AssistantEvent("provider", runs[index].mode, held))
        /\ held' = NoEvent
        /\ UNCHANGED <<cancelled, prov, pq, runs, errors, apc, ret>>
     \/ Undelivered /\ Abandon

Forward ==
  /\ apc = "stream"
  /\ held # NoEvent
  /\ IF EventAccepted(held) THEN Deliver ELSE Refuse
  /\ UNCHANGED <<chunks, opts, index, seen>>

(* validate_provider_stream_completion.                                      *)
StreamResult == IF validation.terminals = 1 THEN prov.res ELSE "failed"

EndStream ==
  /\ apc = "stream"
  /\ held = NoEvent /\ pq = <<>> /\ prov.pc = "done"
  /\ IF StreamResult = "ok" THEN Generated(prov.out) ELSE GenerationFailed(StreamResult)
  /\ Close
  /\ ContinueAt("next")
  /\ UNCHANGED <<cancelled, chunks, opts, index, validation, seen, aseq, aq, sink, losses>>

-----------------------------------------------------------------------------
Success == errors = <<>> /\ \A i \in DOMAIN runs : runs[i].generated /\ ~runs[i].failed

ReportWasCancelled ==
  \E i \in DOMAIN errors : errors[i] \in {"generation_cancelled", "request_cancelled"}

(* execute_assistant: the terminal event of a report or of an inner error.   *)
FinalKind ==
  CASE apc = "compared" -> "completed"
    [] apc = "finish" -> IF Success THEN "completed"
                         ELSE IF ReportWasCancelled THEN "cancelled" ELSE "failed"
    [] apc = "inner_error" -> IF ReportWasCancelled THEN "cancelled" ELSE "failed"

SendFinal ==
  /\ apc \in {"compared", "finish", "inner_error"}
  /\ \/ /\ Delivered(AssistantEvent(FinalKind, "none", NoEvent)) \/ NoSession
        /\ ReturnWith(IF apc = "inner_error" THEN "error" ELSE FinalKind)
     \/ Undelivered /\ ReturnWith("undelivered")
  /\ Quiet

-----------------------------------------------------------------------------
(* The consumer (external): it receives, may fall behind, and may leave.     *)
Receive ==
  /\ aq # <<>> /\ sink = "open"
  /\ LET e == Head(aq)
         Brings(type) == e.kind = "provider" /\ e.provider.type = type
     IN seen' = [
          next |-> e.seq + 1,
          whole |-> seen.whole /\ e.seq = seen.next,
          late |-> seen.late \/ seen.terminal # "none",
          terminal |-> IF e.kind \in ProviderTerminals THEN e.kind ELSE seen.terminal,
          text |-> IF Brings("delta") THEN [seen.text EXCEPT ![e.mode] = @ + 1] ELSE seen.text,
          outputs |-> IF Brings("completed") THEN [seen.outputs EXCEPT ![e.mode] = e.provider.output]
                      ELSE seen.outputs]
  /\ aq' = Tail(aq)
  /\ UNCHANGED <<providerVars, opts, runs, index, errors, held, validation, aseq, sink, losses, apc, ret>>

Leave ==
  /\ sink = "open" /\ opts.protocol /\ losses < MaxLosses
  /\ sink' = "closed" /\ aq' = <<>> /\ losses' = losses + 1
  /\ UNCHANGED <<providerVars, opts, runs, index, errors, held, validation, aseq, apc, seen, ret>>

(* The user cancels, or the session that owns the token does.                *)
Cancel ==
  /\ ~cancelled /\ opts.protocol /\ apc # "returned"
  /\ cancelled' = TRUE
  /\ UNCHANGED <<prov, pq, chunks, assistantVars, apc, seen, ret>>

Engine ==
  \/ SendStarted \/ PrepareContext \/ PrepareFails \/ SendPrepared \/ Decide \/ Preflight
  \/ NextPrompt \/ Generate \/ Provider \/ TakeEvent \/ Forward \/ EndStream \/ SendFinal

Rested == apc = "returned" /\ (aq = <<>> \/ sink = "closed") /\ UNCHANGED streamVars

StreamNext == Engine \/ Receive \/ Leave \/ Cancel \/ Rested

StreamSpec == StreamInit /\ [][StreamNext]_streamVars

(* The runtime polls the command; the HTTP timeout ends a silent server; the *)
(* consumer that stays keeps receiving.                                      *)
FairStreamSpec == StreamSpec /\ WF_streamVars(Engine) /\ WF_streamVars(Receive)

-----------------------------------------------------------------------------
StreamTypeOK ==
  /\ ProviderTypeOK
  /\ opts \in Options
  /\ apc \in {"started", "prepare", "prepared", "decide", "compared", "preflight", "next",
              "stream", "generate", "finish", "inner_error", "returned"}
  /\ index \in 0..Len(runs) /\ Len(runs) <= 2
  /\ held \in LlmEvents \union {NoEvent}
  /\ validation \in [next : Nat, terminals : 0..1]
  /\ Len(aq) <= AssistantCapacity
  /\ ret \in {"none", "completed", "failed", "cancelled", "error", "undelivered"}

Lossless == losses = 0

(* A consumer that stays and keeps up sees the numbers 0, 1, 2, ... without  *)
(* a gap, nothing after the terminal event, and, once the command has        *)
(* returned, exactly one terminal event, of the kind the command returned.   *)
StreamIsWhole ==
  Lossless =>
    /\ seen.whole /\ ~seen.late
    /\ apc = "returned" /\ aq = <<>> /\ opts.protocol =>
         seen.terminal \in (IF ret = "error" THEN {"failed", "cancelled"} ELSE {ret})

(* The provider obeys the contract its events are validated against: however *)
(* the stream ends, no event is out of order or after the terminal one.      *)
NeverRefused == held # NoEvent => EventAccepted(held)

(* Whatever is lost on the way: a consumer that found no gap and saw the     *)
(* command complete has, for every run, the whole text of the answer.        *)
CompletedIsWhole ==
  seen.whole /\ seen.terminal = "completed" =>
    \/ opts.mode = "compare" /\ ~opts.compareGenerate /\ seen.text = [m \in Modes |-> 0]
    \/ \A i \in DOMAIN runs :
         LET r == runs[i] IN
         r.generated /\ seen.text[r.mode] = r.output /\ seen.outputs[r.mode] = r.output

(* A command is only ever reported as cancelled when its token was: a        *)
(* failure is not passed off as the user's decision.                         *)
CancelledForCause == seen.terminal = "cancelled" => cancelled

(* Every command returns, and a consumer that stayed gets its terminal event, *)
(* whatever the server does and whenever the token is cancelled.             *)
Answered == <>(apc = "returned" /\ (Lossless /\ opts.protocol => seen.terminal # "none"))

(* The events of a command are one well-formed stream: the provider keeps   *)
(* its contract, the consumer sees no gap and one terminal event of the     *)
(* right kind, and cancelled only for a cancelled token.                    *)
StreamIsSound == StreamTypeOK /\ StreamIsWhole /\ NeverRefused /\ CancelledForCause

=============================================================================
