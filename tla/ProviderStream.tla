--------------------------- MODULE ProviderStream ---------------------------
(* The Ollama provider's streaming generation (crates/opticcode-llm): the    *)
(* future returned by OllamaProvider::stream, the response body it reads     *)
(* line by line, and the bounded channel its events go into.  A step runs    *)
(* from one await point of the future to the next; the future only advances  *)
(* when its owner polls it, so a composing module says when a step may occur. *)
(* The receiver of the channel lives in the same task as the future, so a    *)
(* send into a full channel waits and never times out.                       *)
EXTENDS Naturals, Sequences

CONSTANTS
  ProviderCapacity,   \* capacity of the provider's event channel
  MaxOutput,          \* MAX_GENERATED_OUTPUT_BYTES, in pieces of text
  MaxChunks           \* model bound: chunks the server sends

ASSUME ProviderAssumption ==
  /\ ProviderCapacity \in Nat \ {0}
  /\ MaxOutput \in Nat
  /\ MaxChunks \in Nat

VARIABLES
  cancelled,          \* the request's CancellationToken
  prov,               \* the state of the stream's future
  pq,                 \* events sent and not yet received
  chunks              \* chunks the server has sent, in all streams

providerVars == <<cancelled, prov, pq, chunks>>

(* A line of the response body: an empty line, a piece of text, the final    *)
(* object without or with text, and bytes that do not parse.                 *)
Lines == {"blank", "text", "done", "last", "bad"}
NoLine == "none"

ProviderTerminals == {"completed", "failed", "cancelled"}
LlmEvents == [type : {"started", "delta"} \union ProviderTerminals,
              seq : Nat, output : Nat]
IsTerminal(e) == e.type \in ProviderTerminals

(* seq counts the delivered events, out the text accumulated so far; rest is *)
(* a line whose end has not arrived; fin says that the line being emitted is *)
(* the final one; res is the result of the stream once it is decided.        *)
NewStream(pc) ==
  [pc |-> pc, seq |-> 0, out |-> 0, lines |-> <<>>, rest |-> NoLine,
   eof |-> FALSE, fin |-> FALSE, res |-> "none"]

ProviderInit ==
  /\ cancelled = FALSE
  /\ prov = NewStream("idle")
  /\ pq = <<>>
  /\ chunks = 0

-----------------------------------------------------------------------------
(* The future returns Err(kind) from stream_inner: stream turns the error    *)
(* into the terminal event it still has to send.                             *)
Failing(kind) == [prov EXCEPT !.pc = "terminal", !.res = kind, !.lines = <<>>]
Finishing == [prov EXCEPT !.pc = "terminal", !.res = "ok", !.lines = <<>>]

HasRoom == Len(pq) < ProviderCapacity
Push(type) ==
  pq' = Append(pq, [type |-> type, seq |-> prov.seq, output |-> prov.out])

(* stream: an already cancelled request sends its terminal event only.       *)
Open(valid) ==
  /\ prov.pc = "open"
  /\ prov' = IF ~valid THEN [prov EXCEPT !.pc = "done", !.res = "failed"]
             ELSE IF cancelled THEN Failing("cancelled")
             ELSE [prov EXCEPT !.pc = "started"]
  /\ UNCHANGED <<cancelled, pq, chunks>>

(* emit_event: delivery races cancellation; the sequence number is used up   *)
(* only by an event that was delivered.                                      *)
EmitCancelled ==
  /\ prov.pc \in {"started", "emit"}
  /\ cancelled
  /\ prov' = Failing("cancelled")
  /\ UNCHANGED <<cancelled, pq, chunks>>

AfterEmit(next) == [next EXCEPT !.seq = prov.seq + 1]

EmitStarted ==
  /\ prov.pc = "started"
  /\ HasRoom
  /\ Push("started")
  /\ prov' = AfterEmit([prov EXCEPT !.pc = "request"])
  /\ UNCHANGED <<cancelled, chunks>>

EmitDelta ==
  /\ prov.pc = "emit"
  /\ HasRoom
  /\ Push("delta")
  /\ prov' = AfterEmit(IF prov.fin THEN Finishing ELSE [prov EXCEPT !.pc = "read"])
  /\ UNCHANGED <<cancelled, chunks>>

(* send_generate_request: the answer, its status, the transport and the      *)
(* timeout race the token.                                                   *)
SendRequest ==
  /\ prov.pc = "request"
  /\ \/ cancelled /\ prov' = Failing("cancelled")
     \/ prov' = Failing("failed")
     \/ prov' = [prov EXCEPT !.pc = "read"]
  /\ UNCHANGED <<cancelled, pq, chunks>>

(* stream_inner waits for the next chunk when no whole line is buffered.     *)
Waiting == prov.pc = "read" /\ prov.lines = <<>> /\ ~prov.eof

(* A chunk brings whole lines, of which the first ends the unfinished line   *)
(* before it, or the beginning of a line.                                    *)
Chunk(whole) ==
  /\ Waiting
  /\ chunks < MaxChunks
  /\ chunks' = chunks + 1
  /\ prov' = [prov EXCEPT !.rest = NoLine,
                          !.lines = IF prov.rest = NoLine THEN whole
                                    ELSE <<prov.rest>> \o Tail(whole)]
  /\ UNCHANGED <<cancelled, pq>>

PartOfLine(k) ==
  /\ Waiting
  /\ chunks < MaxChunks
  /\ chunks' = chunks + 1
  /\ prov.rest \in {NoLine, "blank"}
  /\ prov' = [prov EXCEPT !.rest = k]
  /\ UNCHANGED <<cancelled, pq>>

(* Cancellation, a transport error, the request timeout or a line longer     *)
(* than MAX_STREAM_LINE_BYTES ends the read.                                 *)
ReadFails ==
  /\ Waiting
  /\ \/ cancelled /\ prov' = Failing("cancelled")
     \/ prov' = Failing("failed")
  /\ UNCHANGED <<cancelled, pq, chunks>>

(* The body ends: an unfinished line that is not blank is still processed,   *)
(* as the line it is or as the truncated object it may be.                   *)
EndOfBody ==
  /\ Waiting
  /\ \E k \in IF prov.rest \in {NoLine, "blank"} THEN {NoLine}
              ELSE {prov.rest, "bad"} :
       prov' = [prov EXCEPT !.eof = TRUE, !.rest = NoLine,
                            !.lines = IF k = NoLine THEN <<>> ELSE <<k>>]
  /\ UNCHANGED <<cancelled, pq, chunks>>

(* Mutant: the final line's own text is dropped.                             *)
FinalTextDropped(k) ==
  CASE k = "blank" -> [prov EXCEPT !.lines = Tail(prov.lines)]
    [] k = "bad" -> Failing("failed")
    [] k \in {"done", "last"} ->
         [Finishing EXCEPT !.out = prov.out + (IF k = "last" THEN 1 ELSE 0)]
    [] OTHER -> IF prov.out + 1 > MaxOutput THEN Failing("failed")
                ELSE [prov EXCEPT !.pc = "emit", !.out = prov.out + 1, !.fin = FALSE,
                                  !.lines = Tail(prov.lines)]

(* Mutant: an empty line is never consumed.                                  *)
BlankKept(k) ==
  CASE k = "blank" -> prov
    [] k = "bad" -> Failing("failed")
    [] k = "done" -> Finishing
    [] k \in {"text", "last"} ->
         IF prov.out + 1 > MaxOutput THEN Failing("failed")
         ELSE [prov EXCEPT !.pc = "emit", !.out = prov.out + 1,
                           !.fin = (k = "last"), !.lines = Tail(prov.lines)]

(* process_stream_line: text is accumulated, within the output limit, and    *)
(* then emitted; the final line ends the stream after its own text.          *)
ProcessLine(k) ==
  CASE k = "blank" -> [prov EXCEPT !.lines = Tail(prov.lines)]
    [] k = "bad" -> Failing("failed")
    [] k = "done" -> Finishing
    [] k \in {"text", "last"} ->
         IF prov.out + 1 > MaxOutput THEN Failing("failed")
         ELSE [prov EXCEPT !.pc = "emit", !.out = prov.out + 1,
                           !.fin = (k = "last"), !.lines = Tail(prov.lines)]

Line ==
  /\ prov.pc = "read"
  /\ prov.lines # <<>>
  /\ prov' = ProcessLine(Head(prov.lines))
  /\ UNCHANGED <<cancelled, pq, chunks>>

(* The stream ended without a final object.                                  *)
NoFinalLine ==
  /\ prov.pc = "read"
  /\ prov.lines = <<>>
  /\ prov.eof
  /\ prov' = Failing("failed")
  /\ UNCHANGED <<cancelled, pq, chunks>>

TerminalOf(res) == IF res = "ok" THEN "completed" ELSE res

(* send_terminal_event: it ignores the token.                                *)
SendTerminal ==
  /\ prov.pc = "terminal"
  /\ HasRoom
  /\ Push(TerminalOf(prov.res))
  /\ prov' = [prov EXCEPT !.pc = "done"]
  /\ UNCHANGED <<cancelled, chunks>>

(* The steps of the future that need nothing from the server.                *)
Local == EmitCancelled \/ EmitStarted \/ EmitDelta \/ Line \/ NoFinalLine \/ SendTerminal

WholeLines == UNION {[1..n -> Lines] : n \in 1..2}

ProviderStep ==
  \/ Local
  \/ SendRequest
  \/ ReadFails
  \/ EndOfBody
  \/ \E whole \in WholeLines : Chunk(whole)
  \/ \E k \in Lines : PartOfLine(k)

ProviderTypeOK ==
  /\ cancelled \in BOOLEAN
  /\ prov.pc \in {"idle", "open", "started", "request", "read", "emit", "terminal", "done"}
  /\ prov.seq \in Nat
  /\ prov.out \in 0..MaxOutput
  /\ prov.lines \in Seq(Lines)
  /\ prov.rest \in Lines \union {NoLine}
  /\ prov.eof \in BOOLEAN /\ prov.fin \in BOOLEAN
  /\ prov.res \in {"none", "ok", "failed", "cancelled"}
  /\ pq \in Seq(LlmEvents) /\ Len(pq) <= ProviderCapacity
  /\ chunks \in 0..MaxChunks
=============================================================================
