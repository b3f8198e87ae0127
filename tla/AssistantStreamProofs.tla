----------------------- MODULE AssistantStreamProofs -----------------------
(* AssistantStream: the provider keeps the contract its events are checked  *)
(* against, the events of a command are one well-formed stream, and a       *)
(* completed command has delivered the whole text of every run, for any     *)
(* channel capacities, output limit, number of chunks and of lost events.   *)
EXTENDS AssistantStream, SequenceTheorems, TLAPS

-----------------------------------------------------------------------------
(* The inductive invariant: types.                                          *)

Streams ==
  [pc : {"idle", "open", "started", "request", "read", "emit", "terminal", "done"},
   seq : Nat, out : 0..MaxOutput, lines : Seq(Lines), rest : Lines \union {NoLine},
   eof : BOOLEAN, fin : BOOLEAN, res : {"none", "ok", "failed", "cancelled"}]

RunReports ==
  [mode : Modes, skipped : BOOLEAN, generated : BOOLEAN, output : 0..MaxOutput, failed : BOOLEAN]

Codes == {"request_cancelled", "command_failed", "context_rejected", "model_unavailable",
          "ollama_unavailable", "generation_cancelled", "generation_failed"}

AssistantEvents ==
  [seq : Nat, kind : {"started", "prepared", "provider"} \union ProviderTerminals,
   mode : Modes \union {"none"}, provider : LlmEvents \union {NoEvent}]

Sights ==
  [next : Nat, whole : BOOLEAN, late : BOOLEAN, terminal : ProviderTerminals \union {"none"},
   text : [Modes -> Nat], outputs : [Modes -> Nat]]

Points == {"started", "prepare", "prepared", "decide", "compared", "preflight", "next",
           "stream", "generate", "finish", "inner_error", "returned"}

ProviderTypes ==
  /\ cancelled \in BOOLEAN /\ prov \in Streams /\ chunks \in 0..MaxChunks
  /\ pq \in Seq(LlmEvents) /\ Len(pq) <= ProviderCapacity

EngineTypes ==
  /\ opts \in Options /\ apc \in Points
  /\ \E n \in 0..2 : runs \in [1..n -> RunReports]
  /\ \A j, k \in DOMAIN runs : runs[j].mode = runs[k].mode => j = k
  /\ index \in 0..Len(runs) /\ errors \in Seq(Codes)
  /\ held \in LlmEvents \union {NoEvent} /\ validation \in [next : Nat, terminals : 0..1]
  /\ ret \in {"none", "completed", "failed", "cancelled", "error", "undelivered"}

ConsumerTypes ==
  /\ aseq \in Nat /\ aq \in Seq(AssistantEvents) /\ Len(aq) <= AssistantCapacity
  /\ sink \in {"open", "closed"} /\ losses \in Nat /\ seen \in Sights

Types == ProviderTypes /\ EngineTypes /\ ConsumerTypes

-----------------------------------------------------------------------------
(* What the engine has taken of the current stream; what an event says.     *)
Taken == validation.next + (IF held = NoEvent THEN 0 ELSE 1)

Shaped(e) ==
  /\ e.type = "started" => e.seq = 0
  /\ e.type = "delta" => e.seq >= 1 /\ e.output = e.seq
  /\ e.type = "completed" => e.seq >= 1 /\ e.output = e.seq - 1

(* The text produced is the number of the next event, give or take the one  *)
(* being emitted.                                                           *)
Counted ==
  /\ prov.pc \in {"open", "started"} => prov.seq = 0 /\ prov.out = 0
  /\ prov.pc = "request" => prov.seq = 1 /\ prov.out = 0
  /\ prov.pc = "read" => prov.seq = prov.out + 1
  /\ prov.pc = "emit" => prov.seq = prov.out /\ prov.out >= 1
  /\ prov.pc = "terminal" => prov.res # "none" /\ (prov.res = "ok" => prov.seq = prov.out + 1)
  /\ prov.res = "cancelled" => cancelled

LastWord(e) == prov.pc = "done" /\ e.type = TerminalOf(prov.res) /\ e.output = prov.out

(* The events on their way from the provider are numbered without a gap,    *)
(* and the terminal one is the last.                                        *)
Contract ==
  /\ held # NoEvent => held.seq = validation.next /\ validation.terminals = 0 /\ Shaped(held)
  /\ \A i \in 1..Len(pq) : pq[i].seq = Taken + i - 1 /\ Shaped(pq[i])
  /\ prov.pc \notin {"done", "idle"} => Taken + Len(pq) = prov.seq
  /\ \A i \in 1..Len(pq) : IsTerminal(pq[i]) => i = Len(pq) /\ LastWord(pq[i])
  /\ IsTerminal(held) => pq = <<>> /\ LastWord(held)
  /\ validation.terminals = 1 => held = NoEvent /\ pq = <<>> /\ prov.pc \in {"done", "idle"}

-----------------------------------------------------------------------------
(* Where the command is.                                                    *)
EarlyPoints == {"started", "prepare", "prepared", "decide", "compared", "preflight"}

Control ==
  /\ apc \in EarlyPoints => index = 0
  /\ apc = "compared" => opts.mode = "compare" /\ ~opts.compareGenerate
  /\ apc \in {"stream", "generate"} => index \in DOMAIN runs
  /\ apc = "stream" => opts.protocol
  /\ apc = "generate" => ~opts.protocol
  /\ apc # "stream" => held = NoEvent /\ pq = <<>>
  /\ apc \notin {"stream", "generate"} => prov.pc = "idle"
  /\ \A k \in DOMAIN runs :
       runs[k].generated => k < index \/ (k = index /\ apc \notin {"stream", "generate"})
  /\ \A i \in DOMAIN errors : errors[i] \in {"generation_cancelled", "request_cancelled"} => cancelled

(* The modes of which the consumer may have an event.                       *)
Begun == {runs[k].mode : k \in {j \in DOMAIN runs : j < index \/ (j = index /\ validation.next > 0)}}

IsProv(e) == e.kind = "provider"

(* The provider events in the assistant's channel.                          *)
Passing ==
  /\ \A i \in 1..Len(aq) : IsProv(aq[i]) =>
       /\ aq[i].mode \in Begun /\ aq[i].provider \in LlmEvents /\ Shaped(aq[i].provider)
       /\ apc = "stream" /\ aq[i].mode = runs[index].mode =>
            /\ aq[i].provider.seq < validation.next
            /\ IsTerminal(aq[i].provider) => validation.terminals = 1
  /\ \A i, j \in 1..Len(aq) : i < j /\ IsProv(aq[i]) /\ IsProv(aq[j]) /\ aq[i].mode = aq[j].mode =>
       ~IsTerminal(aq[i].provider) /\ aq[j].provider.seq # 0
  /\ \A m \in Modes : seen.text[m] # 0 => m \in Begun
  /\ aq # <<>> => opts.protocol /\ sink = "open"

(* As long as nothing was lost, each of them follows its predecessor, in    *)
(* the channel or in what the consumer has.                                 *)
Clean == errors = <<>> /\ sink = "open"

Chain ==
  \A i \in 1..Len(aq) : IsProv(aq[i]) =>
    IF aq[i].provider.seq = 0 THEN seen.text[aq[i].mode] = 0
    ELSE IF i = 1 THEN seen.text[aq[i].mode] = aq[i].provider.seq - 1
    ELSE /\ IsProv(aq[i-1]) /\ aq[i-1].mode = aq[i].mode
         /\ aq[i-1].provider.seq = aq[i].provider.seq - 1

ChainEnd ==
  apc = "stream" /\ validation.next >= 1 /\ validation.terminals = 0 =>
    IF aq = <<>> THEN seen.text[runs[index].mode] = validation.next - 1
    ELSE LET last == aq[Len(aq)] IN
         IsProv(last) /\ last.mode = runs[index].mode /\ last.provider.seq = validation.next - 1

(* The whole text n of mode m is with the consumer, or its last event is on *)
(* the way.                                                                 *)
Arrives(m, n) ==
  \/ /\ seen.text[m] = n /\ seen.outputs[m] = n
     /\ \A i \in 1..Len(aq) : IsProv(aq[i]) => aq[i].mode # m
  \/ \E i \in 1..Len(aq) :
       IsProv(aq[i]) /\ aq[i].mode = m /\ aq[i].provider.type = "completed" /\ aq[i].provider.output = n

Delivery ==
  Clean /\ opts.protocol =>
    /\ Chain /\ ChainEnd
    /\ \A k \in DOMAIN runs : runs[k].generated => Arrives(runs[k].mode, runs[k].output)
    /\ apc = "stream" /\ validation.terminals = 1 /\ prov.res = "ok" => Arrives(runs[index].mode, prov.out)

-----------------------------------------------------------------------------
(* What a terminal event of the command says.                               *)
NothingAsked == opts.mode = "compare" /\ ~opts.compareGenerate /\ index = 0

Final(kind) ==
  /\ ret = kind \/ (ret = "error" /\ kind \in {"failed", "cancelled"})
  /\ kind = "cancelled" => cancelled
  /\ kind = "completed" => NothingAsked \/ (errors = <<>> /\ \A k \in DOMAIN runs : runs[k].generated)

Terminal ==
  /\ \A i \in 1..Len(aq) : aq[i].kind \in ProviderTerminals =>
       i = Len(aq) /\ apc = "returned" /\ Final(aq[i].kind)
  /\ seen.terminal # "none" => aq = <<>> /\ apc = "returned" /\ Final(seen.terminal)
  /\ ~seen.late
  /\ seen.terminal = "completed" =>
       NothingAsked \/ \A k \in DOMAIN runs :
         /\ runs[k].generated
         /\ seen.text[runs[k].mode] = runs[k].output /\ seen.outputs[runs[k].mode] = runs[k].output

(* As long as no delivery timed out and the consumer stays.                 *)
Gapless ==
  Lossless =>
    /\ seen.whole /\ sink = "open" /\ aseq = seen.next + Len(aq)
    /\ \A i \in 1..Len(aq) : aq[i].seq = seen.next + i - 1
    /\ apc = "returned" /\ opts.protocol =>
         seen.terminal # "none" \/ (aq # <<>> /\ aq[Len(aq)].kind \in ProviderTerminals)

Inv ==
  /\ Types /\ Counted /\ Contract /\ Control
  /\ Passing /\ Delivery /\ Terminal /\ Gapless

-----------------------------------------------------------------------------
(* The provider.                                                            *)

(* What the engine has of the stream does not change while the provider     *)
(* works.                                                                   *)
ProviderKept == ProviderTypes' /\ Counted' /\ Contract'

LEMMA StreamTypes ==
  ASSUME prov \in Streams, NEW kind \in {"ok", "failed", "cancelled"}
  PROVE  LET p == [prov EXCEPT !.pc = "terminal", !.res = kind, !.lines = <<>>] IN
         p \in Streams /\ p.pc = "terminal" /\ p.res = kind /\ p.seq = prov.seq /\ p.out = prov.out
<1>. DEFINE p == [prov EXCEPT !.pc = "terminal", !.res = kind, !.lines = <<>>]
<1>1. <<>> \in Seq(Lines)
  OBVIOUS
<1>2. p \in Streams
  BY <1>1 DEF Streams
<1>3. p.pc = "terminal" /\ p.res = kind /\ p.seq = prov.seq /\ p.out = prov.out
  BY DEF Streams
<1>. QED BY <1>2, <1>3

LEMMA NewStreamType ==
  ASSUME NEW pc \in {"idle", "open"}
  PROVE  /\ NewStream(pc) \in Streams
         /\ NewStream(pc).pc = pc /\ NewStream(pc).seq = 0 /\ NewStream(pc).out = 0 /\ NewStream(pc).res = "none"
<1>1. 0 \in 0..MaxOutput
  BY ProviderAssumption
<1>. QED BY <1>1 DEF NewStream, Streams

(* A step that sends nothing.                                               *)
LEMMA SilentKept ==
  ASSUME Types, Counted, Contract, held = NoEvent, prov.pc \notin {"done", "idle"},
         UNCHANGED <<cancelled, pq, held, validation>>, chunks' \in 0..MaxChunks,
         prov' \in Streams, prov'.pc # "idle", prov'.seq = prov.seq, Counted'
  PROVE  ProviderKept
<1>1. ProviderTypes'
  BY DEF Types, ProviderTypes
<1>2. Taken' = Taken
  BY DEF Taken
<1>3. \A i \in 1..Len(pq) : ~IsTerminal(pq[i])
  BY DEF Contract, LastWord
<1>4. validation.terminals # 1
  BY DEF Contract
<1>5. ~IsTerminal(held)
  BY DEF IsTerminal, NoEvent, ProviderTerminals
<1>6. Contract'
  BY <1>2, <1>3, <1>4, <1>5 DEF Contract
<1>. QED BY <1>1, <1>6 DEF ProviderKept

(* A step that sends an event.                                              *)
LEMMA PushKept ==
  ASSUME Types, Counted, Contract, held = NoEvent, prov.pc \notin {"done", "idle"}, HasRoom,
         NEW e \in LlmEvents, pq' = Append(pq, e), e.seq = prov.seq, Shaped(e),
         UNCHANGED <<cancelled, chunks, held, validation>>,
         prov' \in Streams, Counted',
         \/ ~IsTerminal(e) /\ prov'.pc \notin {"done", "idle"} /\ prov'.seq = prov.seq + 1
         \/ IsTerminal(e) /\ LastWord(e)'
  PROVE  ProviderKept
<1>0. pq \in Seq(LlmEvents) /\ Len(pq) \in Nat /\ Len(pq) < ProviderCapacity /\ validation.next \in Nat
  BY DEF Types, ProviderTypes, EngineTypes, HasRoom
<1>1. /\ pq' \in Seq(LlmEvents) /\ Len(pq') = Len(pq) + 1 /\ pq'[Len(pq) + 1] = e
      /\ \A i \in 1..Len(pq) : pq'[i] = pq[i]
  BY <1>0, AppendProperties
<1>2. ProviderTypes'
  BY <1>0, <1>1, ProviderAssumption DEF Types, ProviderTypes
<1>3. Taken' = Taken /\ Taken = validation.next /\ Taken + Len(pq) = prov.seq
  BY <1>0 DEF Taken, Contract
<1>4. \A i \in 1..Len(pq) : ~IsTerminal(pq[i])
  BY DEF Contract, LastWord
<1>5. validation.terminals # 1 /\ ~IsTerminal(held)
  BY DEF Contract, IsTerminal, NoEvent, ProviderTerminals
<1>6. \A i \in 1..Len(pq') : i \in 1..Len(pq) \/ i = Len(pq) + 1
  BY <1>0, <1>1
<1>7. \A i \in 1..Len(pq') : pq'[i].seq = Taken + i - 1 /\ Shaped(pq'[i])
  <2>1. ASSUME NEW i \in 1..Len(pq) PROVE pq'[i].seq = Taken + i - 1 /\ Shaped(pq'[i])
    BY <1>1 DEF Contract
  <2>2. pq'[Len(pq) + 1].seq = Taken + (Len(pq) + 1) - 1 /\ Shaped(pq'[Len(pq) + 1])
    BY <1>0, <1>1, <1>3
  <2>. QED BY <1>6, <2>1, <2>2
<1>8. \A i \in 1..Len(pq') : IsTerminal(pq'[i]) =>
        /\ i = Len(pq')
        /\ prov'.pc = "done" /\ pq'[i].type = TerminalOf(prov'.res) /\ pq'[i].output = prov'.out
  <2>1. ASSUME NEW i \in 1..Len(pq) PROVE ~IsTerminal(pq'[i])
    BY <1>1, <1>4
  <2>2. IsTerminal(e) => prov'.pc = "done" /\ e.type = TerminalOf(prov'.res) /\ e.output = prov'.out
    BY DEF LastWord
  <2>. QED BY <1>1, <1>6, <2>1, <2>2
<1>9. prov'.pc \notin {"done", "idle"} => Taken' + Len(pq') = prov'.seq
  BY <1>0, <1>1, <1>3 DEF LastWord
<1>10. Contract'
  BY <1>3, <1>5, <1>7, <1>8, <1>9 DEF Contract, LastWord
<1>. QED BY <1>2, <1>10 DEF ProviderKept

(* The steps of the future.                                                 *)
LEMMA FailingKept ==
  ASSUME Types, Counted, Contract, held = NoEvent, prov.pc \notin {"done", "idle"},
         UNCHANGED <<cancelled, pq, held, validation, chunks>>,
         \/ cancelled /\ prov' = Failing("cancelled")
         \/ prov' = Failing("failed")
  PROVE  ProviderKept
<1>1. PICK kind \in {"failed", "cancelled"} : prov' = Failing(kind) /\ (kind = "cancelled" => cancelled)
  OBVIOUS
<1>2. /\ prov' \in Streams /\ prov'.pc = "terminal" /\ prov'.res = kind
      /\ prov'.seq = prov.seq /\ prov'.out = prov.out
  BY <1>1, StreamTypes DEF Failing, Types, ProviderTypes
<1>3. Counted'
  BY <1>1, <1>2 DEF Counted
<1>. QED BY <1>2, <1>3, SilentKept DEF Types, ProviderTypes

LEMMA OpenKept ==
  ASSUME Types, Counted, Contract, held = NoEvent, NEW valid \in BOOLEAN, Open(valid), UNCHANGED <<held, validation>>
  PROVE  ProviderKept
<1>0. prov.pc = "open" /\ prov \in Streams /\ UNCHANGED <<cancelled, pq, chunks>> /\ chunks \in 0..MaxChunks
  BY DEF Open, Types, ProviderTypes
<1>1. CASE prov' = Failing("cancelled") /\ cancelled
  BY <1>0, <1>1, FailingKept
<1>2. CASE prov' = [prov EXCEPT !.pc = "done", !.res = "failed"]
  <2>1. prov' \in Streams
    BY <1>0, <1>2 DEF Streams
  <2>2. prov'.pc = "done" /\ prov'.res = "failed" /\ prov'.seq = prov.seq
    BY <1>0, <1>2 DEF Streams
  <2>3. Counted'
    BY <2>2 DEF Counted
  <2>. QED BY <1>0, <2>1, <2>2, <2>3, SilentKept
<1>3. CASE prov' = [prov EXCEPT !.pc = "started"]
  <2>1. prov' \in Streams
    BY <1>0, <1>3 DEF Streams
  <2>2. prov'.pc = "started" /\ prov'.res = prov.res /\ prov'.seq = prov.seq /\ prov'.out = prov.out
    BY <1>0, <1>3 DEF Streams
  <2>3. Counted'
    BY <1>0, <2>2 DEF Counted
  <2>. QED BY <1>0, <2>1, <2>2, <2>3, SilentKept
<1>. QED BY <1>1, <1>2, <1>3 DEF Open

LEMMA SendRequestKept ==
  ASSUME Types, Counted, Contract, held = NoEvent, SendRequest, UNCHANGED <<held, validation>>
  PROVE  ProviderKept
<1>0. prov.pc = "request" /\ prov \in Streams /\ UNCHANGED <<cancelled, pq, chunks>> /\ chunks \in 0..MaxChunks
  BY DEF SendRequest, Types, ProviderTypes
<1>1. CASE prov' = [prov EXCEPT !.pc = "read"]
  <2>1. prov' \in Streams
    BY <1>0, <1>1 DEF Streams
  <2>2. prov'.pc = "read" /\ prov'.res = prov.res /\ prov'.seq = prov.seq /\ prov'.out = prov.out
    BY <1>0, <1>1 DEF Streams
  <2>3. Counted'
    BY <1>0, <2>2 DEF Counted
  <2>. QED BY <1>0, <2>1, <2>2, <2>3, SilentKept
<1>. QED BY <1>0, <1>1, FailingKept DEF SendRequest

(* The reading of the body changes only what is buffered.                   *)
LEMMA BufferKept ==
  ASSUME Types, Counted, Contract, held = NoEvent, prov.pc = "read", UNCHANGED <<cancelled, pq, held, validation>>,
         chunks' \in 0..MaxChunks, NEW lines \in Seq(Lines), NEW rest \in Lines \union {NoLine}, NEW eof \in BOOLEAN,
         prov' = [[[prov EXCEPT !.rest = rest] EXCEPT !.lines = lines] EXCEPT !.eof = eof]
  PROVE  ProviderKept
<1>0. prov \in Streams
  BY DEF Types, ProviderTypes
<1>1. prov' \in Streams
  BY <1>0 DEF Streams
<1>2. prov'.pc = prov.pc /\ prov'.res = prov.res /\ prov'.seq = prov.seq /\ prov'.out = prov.out
  BY <1>0 DEF Streams
<1>3. Counted'
  BY <1>2 DEF Counted
<1>. QED BY <1>1, <1>2, <1>3, SilentKept

LEMMA WholeLinesType ==
  ASSUME NEW whole \in WholeLines
  PROVE  whole \in Seq(Lines) /\ whole # <<>> /\ Tail(whole) \in Seq(Lines)
<1>1. PICK n \in 1..2 : whole \in [1..n -> Lines]
  BY DEF WholeLines
<1>2. whole \in Seq(Lines) /\ Len(whole) = n
  BY <1>1
<1>3. whole # <<>>
  BY <1>2
<1>. QED BY <1>2, <1>3

LEMMA ReadKept ==
  ASSUME Types, Counted, Contract, held = NoEvent, UNCHANGED <<held, validation>>,
         \/ ReadFails \/ EndOfBody
         \/ \E whole \in WholeLines : Chunk(whole)
         \/ \E k \in Lines : PartOfLine(k)
  PROVE  ProviderKept
<1>0. /\ prov.pc = "read" /\ prov \in Streams /\ UNCHANGED <<cancelled, pq>>
      /\ chunks \in 0..MaxChunks /\ MaxChunks \in Nat
      /\ prov.rest \in Lines \union {NoLine} /\ prov.lines \in Seq(Lines) /\ prov.eof \in BOOLEAN
  BY ProviderAssumption DEF ReadFails, EndOfBody, Chunk, PartOfLine, Waiting, Types, ProviderTypes, Streams
<1>1. CASE ReadFails
  BY <1>0, <1>1, FailingKept DEF ReadFails
<1>2. CASE EndOfBody
  <2>1. PICK k \in Lines \union {NoLine} :
          prov' = [prov EXCEPT !.eof = TRUE, !.rest = NoLine, !.lines = IF k = NoLine THEN <<>> ELSE <<k>>]
    BY <1>0, <1>2 DEF EndOfBody, Lines
  <2>. DEFINE lines == IF k = NoLine THEN <<>> ELSE <<k>>
  <2>2. lines \in Seq(Lines)
    <3>1. CASE k = NoLine BY <3>1
    <3>2. CASE k # NoLine BY <3>2
    <3>. QED BY <3>1, <3>2
  <2>. HIDE DEF lines
  <2>3. prov' = [[[prov EXCEPT !.rest = NoLine] EXCEPT !.lines = lines] EXCEPT !.eof = TRUE]
    <3>1. prov' = [prov EXCEPT !.eof = TRUE, !.rest = NoLine, !.lines = lines]
      BY <2>1 DEF lines
    <3>. QED BY <1>0, <3>1 DEF Streams
  <2>4. chunks' = chunks
    BY <1>2 DEF EndOfBody
  <2>. QED BY <1>0, <2>2, <2>3, <2>4, BufferKept
<1>3. ASSUME NEW whole \in WholeLines, Chunk(whole) PROVE ProviderKept
  <2>. DEFINE lines == IF prov.rest = NoLine THEN whole ELSE <<prov.rest>> \o Tail(whole)
  <2>1. lines \in Seq(Lines)
    <3>1. whole \in Seq(Lines) /\ Tail(whole) \in Seq(Lines)
      BY WholeLinesType
    <3>2. prov.rest # NoLine => <<prov.rest>> \in Seq(Lines)
      BY <1>0
    <3>3. prov.rest # NoLine => <<prov.rest>> \o Tail(whole) \in Seq(Lines)
      BY <3>1, <3>2, ConcatProperties
    <3>. QED BY <3>1, <3>3
  <2>2. prov' = [prov EXCEPT !.rest = NoLine, !.lines = lines]
    BY <1>3 DEF Chunk
  <2>. HIDE DEF lines
  <2>3. prov' = [[[prov EXCEPT !.rest = NoLine] EXCEPT !.lines = lines] EXCEPT !.eof = prov.eof]
    BY <1>0, <2>2 DEF Streams
  <2>4. chunks < MaxChunks /\ chunks' = chunks + 1
    BY <1>3 DEF Chunk
  <2>5. chunks' \in 0..MaxChunks
    BY <1>0, <2>4
  <2>. QED BY <1>0, <2>1, <2>3, <2>5, BufferKept
<1>4. ASSUME NEW k \in Lines, PartOfLine(k) PROVE ProviderKept
  <2>1. prov' = [prov EXCEPT !.rest = k]
    BY <1>4 DEF PartOfLine
  <2>2. prov' = [[[prov EXCEPT !.rest = k] EXCEPT !.lines = prov.lines] EXCEPT !.eof = prov.eof]
    BY <1>0, <2>1 DEF Streams
  <2>3. chunks' \in 0..MaxChunks
    BY <1>0, <1>4 DEF PartOfLine
  <2>. QED BY <1>0, <2>2, <2>3, BufferKept
<1>. QED BY <1>1, <1>2, <1>3, <1>4

(* A line is consumed, fails the stream, ends it, or becomes the next event. *)
LEMMA LineKept ==
  ASSUME Types, Counted, Contract, held = NoEvent, Line, UNCHANGED <<held, validation>>
  PROVE  ProviderKept
<1>0. /\ prov.pc = "read" /\ prov \in Streams /\ UNCHANGED <<cancelled, pq, chunks>>
      /\ chunks \in 0..MaxChunks /\ prov.seq = prov.out + 1 /\ prov.lines \in Seq(Lines)
      /\ prov.out \in 0..MaxOutput /\ MaxOutput \in Nat /\ (prov.res = "cancelled" => cancelled)
  BY ProviderAssumption DEF Line, Types, ProviderTypes, Streams, Counted
<1>1. prov.lines # <<>>
  BY DEF Line
<1>2. Tail(prov.lines) \in Seq(Lines) /\ Head(prov.lines) \in Lines
  BY <1>0, <1>1
<1>3. PICK k \in Lines : prov' = ProcessLine(k)
  BY <1>2 DEF Line
<1>. DEFINE more == Tail(prov.lines)
<1>. HIDE DEF more
<1>4. CASE prov' = [prov EXCEPT !.lines = more]
  <2>1. prov' \in Streams
    BY <1>0, <1>2, <1>4 DEF Streams, more
  <2>2. prov'.pc = "read" /\ prov'.res = prov.res /\ prov'.seq = prov.seq /\ prov'.out = prov.out
    BY <1>0, <1>4 DEF Streams
  <2>3. Counted'
    BY <1>0, <2>2 DEF Counted
  <2>. QED BY <1>0, <2>1, <2>2, <2>3, SilentKept
<1>5. CASE prov' = Failing("failed")
  BY <1>0, <1>5, FailingKept
<1>6. CASE prov' = Finishing
  <2>1. /\ prov' \in Streams /\ prov'.pc = "terminal" /\ prov'.res = "ok"
        /\ prov'.seq = prov.seq /\ prov'.out = prov.out
    BY <1>0, <1>6, StreamTypes DEF Finishing
  <2>2. Counted'
    BY <1>0, <2>1 DEF Counted
  <2>. QED BY <1>0, <2>1, <2>2, SilentKept
<1>7. PICK n \in Nat : n = prov.out + 1 /\ n >= 1 /\ n = prov.seq
  <2>1. prov.out \in Nat /\ prov.seq = prov.out + 1
    BY <1>0
  <2>. QED BY <2>1
<1>8. ASSUME NEW last \in BOOLEAN, n \in 0..MaxOutput,
             prov' = [prov EXCEPT !.pc = "emit", !.out = n, !.fin = last, !.lines = more]
      PROVE  ProviderKept
  <2>1. prov' \in Streams
    BY <1>0, <1>2, <1>8 DEF Streams, more
  <2>2. prov'.pc = "emit" /\ prov'.res = prov.res /\ prov'.seq = prov.seq /\ prov'.out = n
    BY <1>0, <1>8 DEF Streams
  <2>3. Counted'
    BY <1>0, <1>7, <2>2 DEF Counted
  <2>. QED BY <1>0, <2>1, <2>2, <2>3, SilentKept
<1>9. k \in {"text", "last"} =>
        \/ prov' = Failing("failed")
        \/ /\ n \in 0..MaxOutput
           /\ prov' = [prov EXCEPT !.pc = "emit", !.out = n, !.fin = (k = "last"), !.lines = more]
  <2>1. CASE n > MaxOutput
    BY <1>3, <1>7, <2>1 DEF ProcessLine
  <2>2. CASE ~(n > MaxOutput)
    <3>1. n \in 0..MaxOutput
      BY ProviderAssumption, <2>2
    <3>2. k \in {"text", "last"} =>
            prov' = [prov EXCEPT !.pc = "emit", !.out = n, !.fin = (k = "last"), !.lines = more]
      BY <1>3, <1>7, <2>2 DEF ProcessLine, more
    <3>. QED BY <3>1, <3>2
  <2>. QED BY <2>1, <2>2
<1>10. k \in {"text", "last"} => ProviderKept
  BY <1>5, <1>8, <1>9
<1>11. k = "blank" => prov' = [prov EXCEPT !.lines = more]
  BY <1>3 DEF ProcessLine, more
<1>12. k = "bad" => prov' = Failing("failed")
  BY <1>3 DEF ProcessLine
<1>13. k = "done" => prov' = Finishing
  BY <1>3 DEF ProcessLine
<1>. QED BY <1>4, <1>5, <1>6, <1>10, <1>11, <1>12, <1>13 DEF Lines

LEMMA EmitStartedKept ==
  ASSUME Types, Counted, Contract, held = NoEvent, EmitStarted, UNCHANGED <<held, validation>>
  PROVE  ProviderKept
<1>. DEFINE e == [type |-> "started", seq |-> prov.seq, output |-> prov.out]
<1>0. /\ prov.pc = "started" /\ prov \in Streams /\ UNCHANGED <<cancelled, chunks>>
      /\ prov.seq = 0 /\ prov.out = 0 /\ HasRoom
  BY DEF EmitStarted, Types, ProviderTypes, Counted
<1>1. e \in LlmEvents /\ ~IsTerminal(e) /\ Shaped(e) /\ e.seq = prov.seq
  BY <1>0 DEF LlmEvents, IsTerminal, ProviderTerminals, Shaped
<1>2. pq' = Append(pq, e)
  BY DEF EmitStarted, Push
<1>3. prov.seq + 1 = 1
  BY <1>0
<1>4. prov' = [[prov EXCEPT !.pc = "request"] EXCEPT !.seq = 1]
  BY <1>3 DEF EmitStarted, AfterEmit
<1>5. prov' \in Streams
  BY <1>0, <1>4 DEF Streams
<1>6. prov'.pc = "request" /\ prov'.res = prov.res /\ prov'.seq = 1 /\ prov'.out = prov.out
  BY <1>0, <1>4 DEF Streams
<1>7. Counted'
  BY <1>0, <1>6 DEF Counted
<1>8. prov'.pc \notin {"done", "idle"} /\ prov'.seq = prov.seq + 1
  BY <1>3, <1>6
<1>. HIDE DEF e
<1>. QED BY <1>0, <1>1, <1>2, <1>5, <1>7, <1>8, PushKept

LEMMA EmitDeltaKept ==
  ASSUME Types, Counted, Contract, held = NoEvent, EmitDelta, UNCHANGED <<held, validation>>
  PROVE  ProviderKept
<1>. DEFINE e == [type |-> "delta", seq |-> prov.seq, output |-> prov.out]
<1>0. /\ prov.pc = "emit" /\ prov \in Streams /\ UNCHANGED <<cancelled, chunks>>
      /\ prov.seq = prov.out /\ prov.out >= 1 /\ prov.seq \in Nat /\ HasRoom /\ prov.out \in Nat
      /\ (prov.res = "cancelled" => cancelled)
  BY ProviderAssumption DEF EmitDelta, Types, ProviderTypes, Streams, Counted
<1>1. e \in LlmEvents /\ ~IsTerminal(e) /\ Shaped(e) /\ e.seq = prov.seq
  BY <1>0 DEF LlmEvents, IsTerminal, ProviderTerminals, Shaped
<1>2. pq' = Append(pq, e)
  BY DEF EmitDelta, Push
<1>3. PICK n \in Nat : n = prov.seq + 1
  BY <1>0
<1>4. CASE prov' = [Finishing EXCEPT !.seq = n]
  <2>1. /\ Finishing \in Streams /\ Finishing.pc = "terminal" /\ Finishing.res = "ok"
        /\ Finishing.out = prov.out
    BY <1>0, StreamTypes DEF Finishing
  <2>2. prov' \in Streams
    BY <1>4, <2>1 DEF Streams
  <2>3. prov'.pc = "terminal" /\ prov'.res = "ok" /\ prov'.seq = n /\ prov'.out = prov.out
    BY <1>4, <2>1 DEF Streams
  <2>4. prov'.seq = prov'.out + 1
    BY <1>0, <1>3, <2>3
  <2>5. Counted'
    BY <1>0, <2>3, <2>4 DEF Counted
  <2>6. prov'.pc \notin {"done", "idle"} /\ prov'.seq = prov.seq + 1
    BY <1>3, <2>3
  <2>. HIDE DEF e
  <2>. QED BY <1>0, <1>1, <1>2, <2>2, <2>5, <2>6, PushKept
<1>5. CASE prov' = [[prov EXCEPT !.pc = "read"] EXCEPT !.seq = n]
  <2>2. prov' \in Streams
    BY <1>0, <1>5 DEF Streams
  <2>3. prov'.pc = "read" /\ prov'.res = prov.res /\ prov'.seq = n /\ prov'.out = prov.out
    BY <1>0, <1>5 DEF Streams
  <2>4. prov'.seq = prov'.out + 1
    BY <1>0, <1>3, <2>3
  <2>5. Counted'
    BY <1>0, <2>3, <2>4 DEF Counted
  <2>6. prov'.pc \notin {"done", "idle"} /\ prov'.seq = prov.seq + 1
    BY <1>3, <2>3
  <2>. HIDE DEF e
  <2>. QED BY <1>0, <1>1, <1>2, <2>2, <2>5, <2>6, PushKept
<1>. QED BY <1>3, <1>4, <1>5 DEF EmitDelta, AfterEmit

LEMMA SendTerminalKept ==
  ASSUME Types, Counted, Contract, held = NoEvent, SendTerminal, UNCHANGED <<held, validation>>
  PROVE  ProviderKept
<1>0. /\ prov.pc = "terminal" /\ prov \in Streams /\ UNCHANGED <<cancelled, chunks>>
      /\ prov.seq \in Nat /\ prov.out \in Nat /\ HasRoom
      /\ prov.res \in {"ok", "failed", "cancelled"} /\ (prov.res = "ok" => prov.seq = prov.out + 1)
      /\ (prov.res = "cancelled" => cancelled)
  BY ProviderAssumption DEF SendTerminal, Types, ProviderTypes, Streams, Counted
<1>1. PICK e \in LlmEvents :
        /\ e = [type |-> TerminalOf(prov.res), seq |-> prov.seq, output |-> prov.out]
  <2>1. TerminalOf(prov.res) \in ProviderTerminals
    BY <1>0 DEF TerminalOf, ProviderTerminals
  <2>. QED BY <1>0, <2>1 DEF LlmEvents
<1>2. IsTerminal(e) /\ Shaped(e) /\ e.seq = prov.seq
  <2>1. e.type = TerminalOf(prov.res) /\ e.seq = prov.seq /\ e.output = prov.out
    BY <1>1
  <2>2. prov.res = "ok" => e.seq >= 1 /\ e.output = e.seq - 1
    BY <1>0, <2>1
  <2>. QED BY <1>0, <2>1, <2>2 DEF TerminalOf, IsTerminal, ProviderTerminals, Shaped
<1>3. pq' = Append(pq, e)
  BY <1>1 DEF SendTerminal, Push
<1>4. prov' = [prov EXCEPT !.pc = "done"]
  BY DEF SendTerminal
<1>5. prov' \in Streams
  BY <1>0, <1>4 DEF Streams
<1>6. prov'.pc = "done" /\ prov'.res = prov.res /\ prov'.seq = prov.seq /\ prov'.out = prov.out
  BY <1>0, <1>4 DEF Streams
<1>7. Counted'
  BY <1>0, <1>6 DEF Counted
<1>8. prov'.pc = "done" /\ e.type = TerminalOf(prov'.res) /\ e.output = prov'.out
  BY <1>1, <1>6
<1>. QED BY <1>0, <1>2, <1>3, <1>5, <1>7, <1>8, PushKept DEF LastWord

LEMMA ProviderStepKept ==
  ASSUME Types, Counted, Contract, held = NoEvent, ProviderStep, UNCHANGED <<held, validation>>
  PROVE  ProviderKept
<1>1. CASE EmitCancelled
  BY <1>1, FailingKept DEF EmitCancelled
<1>2. CASE NoFinalLine
  BY <1>2, FailingKept DEF NoFinalLine
<1>3. CASE EmitStarted \/ EmitDelta \/ Line \/ SendTerminal
  BY <1>3, EmitStartedKept, EmitDeltaKept, LineKept, SendTerminalKept
<1>4. CASE SendRequest
  BY <1>4, SendRequestKept
<1>5. CASE \/ ReadFails \/ EndOfBody
           \/ \E whole \in WholeLines : Chunk(whole)
           \/ \E k \in Lines : PartOfLine(k)
  BY <1>5, ReadKept
<1>. QED BY <1>1, <1>2, <1>3, <1>4, <1>5 DEF ProviderStep, Local

-----------------------------------------------------------------------------
(* The assistant's channel.                                                 *)

(* Before the command returns, no terminal event is anywhere.               *)
LEMMA NoTerminalYet ==
  ASSUME Inv, apc # "returned"
  PROVE  /\ \A i \in 1..Len(aq) : aq[i].kind \notin ProviderTerminals
         /\ seen.terminal = "none"
BY DEF Inv, Terminal

LEMMA TerminalSilent ==
  ASSUME Inv, apc # "returned", UNCHANGED <<aq, seen>>
  PROVE  Terminal'
<1>1. /\ \A i \in 1..Len(aq) : aq[i].kind \notin ProviderTerminals
      /\ seen.terminal = "none" /\ ~seen.late
  BY NoTerminalYet DEF Inv, Terminal
<1>2. seen.terminal # "completed"
  BY <1>1
<1>. QED BY <1>1, <1>2 DEF Terminal

(* No event of the run that is about to start is on its way.                *)
Fresh == apc' = "stream" =>
  /\ validation'.next = 0 /\ validation'.terminals = 0
  /\ runs'[index'].mode \notin Begun

LEMMA PassingSilent ==
  ASSUME Types, Passing, Fresh, Begun \subseteq Begun', UNCHANGED <<aq, seen, opts, sink>>
  PROVE  Passing'
<1>1. \A i \in 1..Len(aq) : IsProv(aq[i]) =>
        aq[i].mode \in Begun /\ aq[i].provider \in LlmEvents /\ Shaped(aq[i].provider)
  BY DEF Passing
<1>2. \A i \in 1..Len(aq) : IsProv(aq[i]) => ~(apc' = "stream" /\ aq[i].mode = runs'[index'].mode)
  BY <1>1 DEF Fresh
<1>3. \A m \in Modes : seen.text[m] # 0 => m \in Begun'
  BY DEF Passing
<1>. QED BY <1>1, <1>2, <1>3 DEF Passing

(* What was generated stays what it is.                                     *)
SameGenerated ==
  \A k \in DOMAIN runs' : runs'[k].generated =>
    k \in DOMAIN runs /\ runs[k].generated /\ runs'[k].mode = runs[k].mode /\ runs'[k].output = runs[k].output

LEMMA DeliverySilent ==
  ASSUME Delivery, Fresh, SameGenerated, errors' = <<>> => errors = <<>>,
         UNCHANGED <<aq, seen, opts, sink>>
  PROVE  Delivery'
<1>. SUFFICES ASSUME Clean', opts'.protocol
              PROVE  /\ Chain' /\ ChainEnd'
                     /\ \A k \in DOMAIN runs' : runs'[k].generated => Arrives(runs[k].mode, runs[k].output)'
                     /\ apc' = "stream" /\ validation'.terminals = 1 /\ prov'.res = "ok" =>
                          Arrives(runs[index].mode, prov.out)'
  BY DEF Delivery
<1>1. Clean /\ opts.protocol
  BY DEF Clean
<1>2. Chain'
  BY <1>1 DEF Delivery, Chain
<1>3. ChainEnd'
  BY DEF Fresh, ChainEnd
<1>4. ASSUME NEW k \in DOMAIN runs', runs'[k].generated
      PROVE  Arrives(runs[k].mode, runs[k].output)'
  <2>1. /\ Arrives(runs[k].mode, runs[k].output)
        /\ runs'[k].mode = runs[k].mode /\ runs'[k].output = runs[k].output
    BY <1>1, <1>4 DEF Delivery, SameGenerated
  <2>. QED BY <2>1 DEF Arrives
<1>5. ~(apc' = "stream" /\ validation'.terminals = 1)
  BY DEF Fresh
<1>. QED BY <1>2, <1>3, <1>4, <1>5

LEMMA GaplessSilent ==
  ASSUME Gapless, UNCHANGED <<aseq, aq, sink, losses, seen, opts>>,
         apc' # "returned" \/ ~opts.protocol
  PROVE  Gapless'
BY DEF Gapless, Lossless

(* A delivery that fails is a loss.                                         *)
LEMMA UndeliveredLoses ==
  ASSUME Types, Gapless, Undelivered, UNCHANGED seen
  PROVE  ConsumerTypes' /\ Gapless' /\ UNCHANGED <<aq, sink>>
<1>1. losses \in Nat /\ aseq \in Nat
  BY DEF Types, ConsumerTypes
<1>2. aseq' = aseq + 1 /\ UNCHANGED <<aq, sink>> /\ (losses' = losses + 1 \/ (sink = "closed" /\ losses' = losses))
  BY DEF Undelivered
<1>3. aseq' \in Nat /\ losses' \in Nat
  BY <1>1, <1>2
<1>4. ConsumerTypes'
  BY <1>2, <1>3 DEF Types, ConsumerTypes
<1>5. losses' # 0
  <2>1. sink = "closed" => losses # 0
    BY DEF Gapless, Lossless
  <2>. QED BY <1>1, <1>2, <2>1
<1>6. Gapless'
  BY <1>5 DEF Gapless, Lossless
<1>. QED BY <1>2, <1>4, <1>6

(* A delivered event is the last of the channel.                            *)
Added(e) ==
  /\ aq' \in Seq(AssistantEvents) /\ Len(aq) \in Nat /\ Len(aq') = Len(aq) + 1 /\ aq'[Len(aq) + 1] = e
  /\ \A i \in 1..Len(aq) : aq'[i] = aq[i]
  /\ \A i \in 1..Len(aq') : i \in 1..Len(aq) \/ i = Len(aq) + 1
  /\ aq' # <<>> /\ sink = "open" /\ sink' = "open" /\ losses' = losses /\ aseq' = aseq + 1 /\ opts.protocol

LEMMA DeliveredAdds ==
  ASSUME Types, NEW e \in AssistantEvents, Delivered(e), UNCHANGED seen
  PROVE  Added(e) /\ ConsumerTypes'
<1>1. aq \in Seq(AssistantEvents) /\ Len(aq) \in Nat /\ Len(aq) < AssistantCapacity /\ aseq \in Nat /\ AssistantCapacity \in Nat
  BY AssistantAssumption DEF Types, ConsumerTypes, Delivered
<1>2. aq' = Append(aq, e) /\ aseq' = aseq + 1 /\ sink = "open" /\ UNCHANGED <<sink, losses>> /\ opts.protocol
  BY DEF Delivered
<1>3. /\ aq' \in Seq(AssistantEvents) /\ Len(aq') = Len(aq) + 1 /\ aq'[Len(aq) + 1] = e
      /\ \A i \in 1..Len(aq) : aq'[i] = aq[i]
  BY <1>1, <1>2, AppendProperties
<1>4. (\A i \in 1..Len(aq') : i \in 1..Len(aq) \/ i = Len(aq) + 1) /\ Len(aq') <= AssistantCapacity
  BY <1>1, <1>3
<1>5. aq' # <<>>
  BY <1>1, <1>3
<1>6. Added(e)
  BY <1>1, <1>2, <1>3, <1>4, <1>5 DEF Added
<1>7. aseq' \in Nat
  BY <1>1, <1>2
<1>. QED BY <1>2, <1>3, <1>4, <1>6, <1>7 DEF Types, ConsumerTypes

LEMMA GaplessAdded ==
  ASSUME Types, Gapless, NEW e, Added(e), e.seq = aseq, UNCHANGED <<seen, opts>>,
         apc' # "returned" \/ e.kind \in ProviderTerminals
  PROVE  Gapless'
<1>. SUFFICES ASSUME Lossless' PROVE
       /\ seen.whole /\ sink' = "open" /\ aseq' = seen.next + Len(aq')
       /\ \A i \in 1..Len(aq') : aq'[i].seq = seen.next + i - 1
       /\ apc' = "returned" /\ opts.protocol =>
            seen.terminal # "none" \/ (aq' # <<>> /\ aq'[Len(aq')].kind \in ProviderTerminals)
  BY DEF Gapless
<1>1. /\ seen.whole /\ aseq = seen.next + Len(aq) /\ \A i \in 1..Len(aq) : aq[i].seq = seen.next + i - 1
  BY DEF Gapless, Lossless, Added
<1>2. seen.next \in Nat /\ Len(aq) \in Nat
  BY DEF Types, ConsumerTypes, Sights
<1>3. aseq' = seen.next + Len(aq')
  BY <1>1, <1>2 DEF Added
<1>4. \A i \in 1..Len(aq') : aq'[i].seq = seen.next + i - 1
  <2>1. ASSUME NEW i \in 1..Len(aq) PROVE aq'[i].seq = seen.next + i - 1
    BY <1>1 DEF Added
  <2>2. aq'[Len(aq) + 1].seq = seen.next + (Len(aq) + 1) - 1
    BY <1>1, <1>2 DEF Added
  <2>. QED BY <2>1, <2>2 DEF Added
<1>. QED BY <1>1, <1>3, <1>4 DEF Added

(* A terminal event is sent when the command returns.                       *)
LEMMA TerminalAdded ==
  ASSUME Inv, apc # "returned", NEW e, Added(e), UNCHANGED seen,
         e.kind \in ProviderTerminals => apc' = "returned" /\ Final(e.kind)'
  PROVE  Terminal'
<1>1. /\ \A i \in 1..Len(aq) : aq[i].kind \notin ProviderTerminals
      /\ seen.terminal = "none" /\ ~seen.late
  BY NoTerminalYet DEF Inv, Terminal
<1>2. seen.terminal # "completed"
  BY <1>1
<1>3. PICK kind : kind = e.kind
  OBVIOUS
<1>4. kind \in ProviderTerminals => apc' = "returned" /\ Final(kind)'
  BY <1>3 DEF Final, NothingAsked
<1>5. ASSUME NEW i \in 1..Len(aq'), aq'[i].kind \in ProviderTerminals
      PROVE  i = Len(aq') /\ aq'[i].kind = kind
  BY <1>1, <1>3, <1>5 DEF Added
<1>. QED BY <1>1, <1>2, <1>4, <1>5 DEF Terminal, Final, NothingAsked

(* An event of the command itself adds nothing to what the runs delivered.  *)
LEMMA PassingAdded ==
  ASSUME Types, Passing, NEW e, Added(e), ~IsProv(e), apc' # "stream",
         Begun \subseteq Begun', UNCHANGED <<seen, opts>>
  PROVE  Passing'
<1>1. \A i \in 1..Len(aq') : IsProv(aq'[i]) => i \in 1..Len(aq) /\ aq'[i] = aq[i]
  BY DEF Added
<1>2. \A i \in 1..Len(aq') : IsProv(aq'[i]) =>
        aq'[i].mode \in Begun' /\ aq'[i].provider \in LlmEvents /\ Shaped(aq'[i].provider)
  BY <1>1 DEF Passing
<1>3. \A i, j \in 1..Len(aq') :
        i < j /\ IsProv(aq'[i]) /\ IsProv(aq'[j]) /\ aq'[i].mode = aq'[j].mode =>
        ~IsTerminal(aq'[i].provider) /\ aq'[j].provider.seq # 0
  BY <1>1 DEF Passing
<1>4. \A m \in Modes : seen.text[m] # 0 => m \in Begun'
  BY DEF Passing
<1>5. opts'.protocol /\ sink' = "open"
  BY DEF Added
<1>. QED BY <1>2, <1>3, <1>4, <1>5 DEF Passing

LEMMA DeliveryAdded ==
  ASSUME Delivery, NEW e, Added(e), ~IsProv(e), apc' # "stream", UNCHANGED <<seen, opts, runs, errors>>
  PROVE  Delivery'
<1>. SUFFICES ASSUME Clean', opts'.protocol
              PROVE  Chain' /\ \A k \in DOMAIN runs' : runs'[k].generated => Arrives(runs[k].mode, runs[k].output)'
  BY DEF Delivery, ChainEnd
<1>1. Clean /\ opts.protocol
  BY DEF Clean, Added
<1>2. \A i \in 1..Len(aq') : IsProv(aq'[i]) => i \in 1..Len(aq) /\ aq'[i] = aq[i]
  BY DEF Added
<1>3. Chain'
  <2>1. Chain
    BY <1>1 DEF Delivery
  <2>2. ASSUME NEW i \in 1..Len(aq), i # 1 PROVE i - 1 \in 1..Len(aq)
    BY <2>2 DEF Added
  <2>3. ASSUME NEW i \in 1..Len(aq), i # 1 PROVE aq'[i-1] = aq[i-1]
    BY <2>2, <2>3 DEF Added
  <2>. QED BY <1>2, <2>1, <2>3 DEF Chain
<1>4. ASSUME NEW k \in DOMAIN runs, runs[k].generated
      PROVE  Arrives(runs[k].mode, runs[k].output)'
  <2>1. Arrives(runs[k].mode, runs[k].output)
    BY <1>1, <1>4 DEF Delivery
  <2>2. \A i \in 1..Len(aq) : i \in 1..Len(aq') /\ aq'[i] = aq[i]
    BY DEF Added
  <2>. QED BY <1>2, <2>1, <2>2 DEF Arrives
<1>. QED BY <1>3, <1>4

-----------------------------------------------------------------------------
(* The steps of the command outside a stream.                               *)

LEMMA ProviderSame ==
  ASSUME Types, Counted, Contract, UNCHANGED <<cancelled, prov, pq, chunks, held, validation>>
  PROVE  ProviderKept
BY DEF Types, ProviderTypes, Counted, Contract, Taken, LastWord, ProviderKept

LEMMA BegunSame ==
  ASSUME UNCHANGED <<runs, index, validation>>
  PROVE  Begun' = Begun
BY DEF Begun

(* A step that leaves the channel alone.                                    *)
LEMMA SilentStep ==
  ASSUME Inv, apc # "returned", UNCHANGED <<aseq, aq, sink, losses, seen, opts>>, apc' # "returned",
         Fresh, Begun \subseteq Begun', ProviderKept, EngineTypes', Control', Delivery'
  PROVE  Inv'
<1>1. ConsumerTypes'
  BY DEF Inv, Types, ConsumerTypes
<1>2. Passing' /\ Terminal' /\ Gapless'
  BY PassingSilent, TerminalSilent, GaplessSilent DEF Inv
<1>. QED BY <1>1, <1>2 DEF Inv, Types, ProviderKept

(* A step that sends an event of the command, or fails to.                  *)
Says(kind) ==
  \/ /\ Delivered(AssistantEvent(kind, "none", NoEvent)) \/ NoSession
     /\ errors' = errors
     /\ apc' # "returned" => kind \notin ProviderTerminals
     /\ apc' = "returned" => kind \in ProviderTerminals /\ Final(kind)'
  \/ /\ Undelivered
     /\ errors' = errors \/ errors' # <<>>

LEMMA SayStep ==
  ASSUME Inv, apc \notin {"stream", "returned"}, apc' # "stream",
         UNCHANGED <<cancelled, prov, pq, chunks, opts, runs, index, held, validation, seen>>,
         NEW kind \in {"started", "prepared"} \union ProviderTerminals, Says(kind),
         EngineTypes', Control'
  PROVE  Inv'
<1>0. ProviderKept /\ Begun' = Begun
  BY ProviderSame, BegunSame DEF Inv
<1>1. Fresh /\ SameGenerated
  BY DEF Fresh, SameGenerated
<1>2. CASE Delivered(AssistantEvent(kind, "none", NoEvent)) /\ errors' = errors
           /\ (apc' # "returned" => kind \notin ProviderTerminals)
           /\ (apc' = "returned" => kind \in ProviderTerminals /\ Final(kind)')
  <2>1. PICK e \in AssistantEvents : e = AssistantEvent(kind, "none", NoEvent)
    BY DEF AssistantEvent, AssistantEvents, Inv, Types, ConsumerTypes
  <2>2. e.seq = aseq /\ e.kind = kind /\ ~IsProv(e)
    BY <2>1 DEF AssistantEvent, IsProv, ProviderTerminals
  <2>3. Added(e) /\ ConsumerTypes'
    BY <1>2, <2>1, DeliveredAdds DEF Inv
  <2>4. Passing' /\ Delivery'
    BY <1>0, <1>2, <2>2, <2>3, PassingAdded, DeliveryAdded DEF Inv
  <2>5. Gapless'
    BY <1>2, <2>2, <2>3, GaplessAdded DEF Inv
  <2>6. Terminal'
    <3>1. e.kind \in ProviderTerminals => apc' = "returned" /\ Final(e.kind)'
      BY <1>2, <2>2 DEF Final, NothingAsked
    <3>. QED BY <2>3, <3>1, TerminalAdded
  <2>. QED BY <1>0, <2>3, <2>4, <2>5, <2>6 DEF Inv, Types, ProviderKept
<1>3. CASE NoSession /\ errors' = errors
  <2>1. UNCHANGED <<aseq, aq, sink, losses>> /\ ~opts.protocol
    BY <1>3 DEF NoSession
  <2>2. ConsumerTypes'
    BY <2>1 DEF Inv, Types, ConsumerTypes
  <2>3. Passing' /\ Terminal' /\ Gapless' /\ Delivery'
    BY <1>0, <1>1, <1>3, <2>1, PassingSilent, TerminalSilent, GaplessSilent, DeliverySilent DEF Inv
  <2>. QED BY <1>0, <2>2, <2>3 DEF Inv, Types, ProviderKept
<1>4. CASE Undelivered /\ (errors' = errors \/ errors' # <<>>)
  <2>1. ConsumerTypes' /\ Gapless' /\ UNCHANGED <<aq, sink>>
    BY <1>4, UndeliveredLoses DEF Inv
  <2>2. Passing' /\ Terminal' /\ Delivery'
    BY <1>0, <1>1, <1>4, <2>1, PassingSilent, TerminalSilent, DeliverySilent DEF Inv
  <2>. QED BY <1>0, <2>1, <2>2 DEF Inv, Types, ProviderKept
<1>. QED BY <1>2, <1>3, <1>4 DEF Says

LEMMA SendStartedKept ==
  ASSUME Inv, SendStarted
  PROVE  Inv'
<1>1. /\ apc = "started" /\ Quiet
      /\ \/ (Delivered(AssistantEvent("started", "none", NoEvent)) \/ NoSession) /\ apc' = "prepare" /\ ret' = ret
         \/ Undelivered /\ apc' = "returned" /\ ret' = "undelivered"
  BY DEF SendStarted, SendThen, ContinueAt, ReturnWith
<1>2. UNCHANGED <<cancelled, prov, pq, chunks, opts, runs, index, errors, held, validation, seen>>
  BY <1>1 DEF Quiet, providerVars
<1>3. Says("started")
  BY <1>1, <1>2 DEF Says, ProviderTerminals
<1>4. EngineTypes'
  BY <1>1, <1>2 DEF Inv, Types, EngineTypes, Points
<1>5. Control'
  BY <1>1, <1>2 DEF Inv, Control, EarlyPoints
<1>. QED BY <1>1, <1>2, <1>3, <1>4, <1>5, SayStep

(* The codes of the report.                                                 *)
LEMMA ErrorAdded ==
  ASSUME EngineTypes, NEW code \in Codes, errors' = Append(errors, code)
  PROVE  /\ errors' \in Seq(Codes) /\ errors' # <<>>
         /\ \A i \in DOMAIN errors' : (i \in DOMAIN errors /\ errors'[i] = errors[i]) \/ errors'[i] = code
<1>1. errors \in Seq(Codes) /\ Len(errors) \in Nat
  BY DEF EngineTypes
<1>2. /\ errors' \in Seq(Codes) /\ Len(errors') = Len(errors) + 1 /\ errors'[Len(errors) + 1] = code
      /\ \A i \in 1..Len(errors) : errors'[i] = errors[i]
  BY <1>1, AppendProperties
<1>3. errors' # <<>>
  BY <1>1, <1>2
<1>4. DOMAIN errors' = 1..(Len(errors) + 1) /\ DOMAIN errors = 1..Len(errors)
  BY <1>1, <1>2
<1>. QED BY <1>1, <1>2, <1>3, <1>4

InnerCode == IF cancelled THEN "request_cancelled" ELSE "command_failed"

LEMMA SendPreparedKept ==
  ASSUME Inv, SendPrepared
  PROVE  Inv'
<1>1. /\ apc = "prepared" /\ ret' = ret
      /\ \/ (Delivered(AssistantEvent("prepared", "none", NoEvent)) \/ NoSession) /\ apc' = "decide" /\ errors' = errors
         \/ Undelivered /\ apc' = "inner_error" /\ errors' = Append(errors, InnerCode)
  BY DEF SendPrepared, ContinueAt, InnerCode
<1>2. UNCHANGED <<cancelled, prov, pq, chunks, opts, runs, index, held, validation, seen>>
  BY DEF SendPrepared, providerVars
<1>3. errors' = Append(errors, InnerCode) =>
        /\ errors' \in Seq(Codes) /\ errors' # <<>>
        /\ \A i \in DOMAIN errors' : errors'[i] \in {"generation_cancelled", "request_cancelled"} => cancelled
  <2>1. InnerCode \in Codes /\ (InnerCode \in {"generation_cancelled", "request_cancelled"} => cancelled)
    BY DEF InnerCode, Codes
  <2>. QED BY <2>1, ErrorAdded DEF Inv, Types, Control
<1>4. Says("prepared")
  BY <1>1, <1>3 DEF Says, ProviderTerminals
<1>5. EngineTypes'
  BY <1>1, <1>2, <1>3 DEF Inv, Types, EngineTypes, Points
<1>6. \A i \in DOMAIN errors' : errors'[i] \in {"generation_cancelled", "request_cancelled"} => cancelled'
  BY <1>1, <1>2, <1>3 DEF Inv, Control
<1>7. Control'
  BY <1>1, <1>2, <1>6 DEF Inv, Control, EarlyPoints
<1>. QED BY <1>1, <1>2, <1>4, <1>5, <1>7, SayStep

LEMMA SendFinalKept ==
  ASSUME Inv, SendFinal
  PROVE  Inv'
<1>1. PICK kind : kind = FinalKind
  OBVIOUS
<1>2. UNCHANGED <<cancelled, prov, pq, chunks, opts, runs, index, errors, held, validation, seen>>
  BY DEF SendFinal, Quiet, providerVars
<1>3. /\ apc \in {"compared", "finish", "inner_error"} /\ apc' = "returned"
      /\ \/ /\ Delivered(AssistantEvent(kind, "none", NoEvent)) \/ NoSession
            /\ ret' = IF apc = "inner_error" THEN "error" ELSE kind
         \/ Undelivered /\ ret' = "undelivered"
  BY <1>1 DEF SendFinal, ReturnWith
<1>4. ReportWasCancelled => cancelled
  BY DEF ReportWasCancelled, Inv, Control
<1>5. /\ kind \in ProviderTerminals
      /\ apc = "inner_error" => kind \in {"failed", "cancelled"}
      /\ kind = "cancelled" => cancelled
      /\ kind = "completed" => apc = "compared" \/ Success
  BY <1>1, <1>3, <1>4 DEF FinalKind, ProviderTerminals
<1>6. kind = "completed" => NothingAsked \/ (errors = <<>> /\ \A k \in DOMAIN runs : runs[k].generated)
  BY <1>5 DEF Inv, Control, EarlyPoints, NothingAsked, Success
<1>7. ret' # "undelivered" => Final(kind)'
  BY <1>2, <1>3, <1>5, <1>6 DEF Final, NothingAsked
<1>8. Says(kind)
  BY <1>2, <1>3, <1>5, <1>7 DEF Says, ProviderTerminals
<1>9. EngineTypes'
  <2>1. ret' \in {"none", "completed", "failed", "cancelled", "error", "undelivered"}
    BY <1>3, <1>5 DEF ProviderTerminals
  <2>. QED BY <1>2, <1>3, <2>1 DEF Inv, Types, EngineTypes, Points
<1>10. Control'
  BY <1>2, <1>3 DEF Inv, Control, EarlyPoints
<1>. QED BY <1>2, <1>3, <1>5, <1>8, <1>9, <1>10, SayStep

(* The runs of the report: their number and modes never change.             *)
LEMMA RunsLength ==
  ASSUME EngineTypes
  PROVE  \E n \in 0..2 : runs \in [1..n -> RunReports] /\ DOMAIN runs = 1..n /\ Len(runs) = n
<1>1. PICK n \in 0..2 : runs \in [1..n -> RunReports]
  BY DEF EngineTypes
<1>2. runs \in Seq(RunReports) /\ Len(runs) = n /\ DOMAIN runs = 1..n
  BY <1>1
<1>. QED BY <1>1, <1>2

SameRuns ==
  /\ DOMAIN runs' = DOMAIN runs
  /\ \A k \in DOMAIN runs : runs'[k].mode = runs[k].mode

LEMMA RunsKept ==
  ASSUME EngineTypes, runs' \in [DOMAIN runs -> RunReports],
         \A k \in DOMAIN runs : runs'[k].mode = runs[k].mode
  PROVE  /\ \E n \in 0..2 : runs' \in [1..n -> RunReports]
         /\ \A j, k \in DOMAIN runs' : runs'[j].mode = runs'[k].mode => j = k
         /\ Len(runs') = Len(runs) /\ SameRuns
<1>1. PICK n \in 0..2 : runs \in [1..n -> RunReports] /\ DOMAIN runs = 1..n /\ Len(runs) = n
  BY RunsLength
<1>2. SameRuns
  BY DEF SameRuns
<1>3. runs' \in [1..n -> RunReports]
  BY <1>1
<1>4. runs' \in Seq(RunReports) /\ Len(runs') = n
  BY <1>3
<1>5. \A j, k \in DOMAIN runs' : runs'[j].mode = runs'[k].mode => j = k
  BY <1>2 DEF SameRuns, EngineTypes
<1>. QED BY <1>1, <1>2, <1>3, <1>4, <1>5

LEMMA BegunKept ==
  ASSUME SameRuns, index' = index, validation.next > 0 => validation'.next > 0
  PROVE  Begun \subseteq Begun'
BY DEF SameRuns, Begun

LEMMA AttachKept ==
  ASSUME EngineTypes, NEW code \in Codes, NEW mode, Attach(code, mode)
  PROVE  /\ \E n \in 0..2 : runs' \in [1..n -> RunReports]
         /\ \A j, k \in DOMAIN runs' : runs'[j].mode = runs'[k].mode => j = k
         /\ Len(runs') = Len(runs) /\ SameRuns /\ SameGenerated
         /\ errors' \in Seq(Codes) /\ errors' # <<>>
         /\ \A i \in DOMAIN errors' : (i \in DOMAIN errors /\ errors'[i] = errors[i]) \/ errors'[i] = code
<1>. DEFINE r(k) == IF runs[k].mode = mode THEN [runs[k] EXCEPT !.failed = TRUE] ELSE runs[k]
<1>1. PICK n \in 0..2 : runs \in [1..n -> RunReports] /\ DOMAIN runs = 1..n
  BY RunsLength
<1>2. ASSUME NEW k \in DOMAIN runs
      PROVE  r(k) \in RunReports /\ r(k).mode = runs[k].mode /\ r(k).generated = runs[k].generated /\ r(k).output = runs[k].output
  <2>1. runs[k] \in RunReports
    BY <1>1, <1>2
  <2>. QED BY <2>1 DEF RunReports
<1>3. runs' = [k \in DOMAIN runs |-> r(k)] /\ errors' = Append(errors, code)
  BY DEF Attach
<1>4. SameGenerated
  BY <1>2, <1>3 DEF SameGenerated
<1>. HIDE DEF r
<1>5. runs' \in [DOMAIN runs -> RunReports] /\ \A k \in DOMAIN runs : runs'[k].mode = runs[k].mode
  BY <1>2, <1>3
<1>. QED BY <1>3, <1>4, <1>5, RunsKept, ErrorAdded

(* The provider is closed.                                                  *)
LEMMA CloseKept ==
  ASSUME Types, Close, cancelled' \in BOOLEAN, chunks' = chunks, validation' \in [next : Nat, terminals : 0..1]
  PROVE  ProviderKept
<1>1. /\ prov' \in Streams /\ prov'.pc = "idle" /\ prov'.res = "none" /\ pq' = <<>> /\ held' = NoEvent
  BY NewStreamType DEF Close
<1>2. pq' \in Seq(LlmEvents) /\ Len(pq') = 0 /\ 0 <= ProviderCapacity
  BY <1>1, ProviderAssumption
<1>3. ProviderTypes'
  BY <1>1, <1>2 DEF Types, ProviderTypes
<1>4. Counted'
  BY <1>1 DEF Counted
<1>5. ~IsTerminal(held')
  BY <1>1 DEF IsTerminal, NoEvent, ProviderTerminals
<1>6. Contract'
  BY <1>1, <1>2, <1>5 DEF Contract
<1>. QED BY <1>3, <1>4, <1>6 DEF ProviderKept

(* The prepared runs, with distinct modes and nothing generated.            *)
LEMMA PreparedType ==
  ASSUME NEW o \in Options
  PROVE  /\ \E n \in 0..2 : PreparedRuns(o) \in [1..n -> RunReports]
         /\ \A j, k \in DOMAIN PreparedRuns(o) : PreparedRuns(o)[j].mode = PreparedRuns(o)[k].mode => j = k
         /\ \A k \in DOMAIN PreparedRuns(o) : ~PreparedRuns(o)[k].generated
<1>1. \/ RequestedRunModes(o) = <<"legacy", "symbol">>
      \/ RequestedRunModes(o) = <<"legacy">> \/ RequestedRunModes(o) = <<"symbol">>
  <2>1. o.mode \in {"legacy", "symbol", "compare"}
    BY DEF Options, Modes
  <2>2. o.mode # "compare" => UsedMode(o) \in {"legacy", "symbol", "none"}
    BY <2>1 DEF UsedMode
  <2>. QED BY <2>1, <2>2 DEF RequestedRunModes
<1>2. PICK q : q = RequestedRunModes(o)
  OBVIOUS
<1>3. PICK n \in 1..2 : /\ q \in [1..n -> Modes] /\ DOMAIN q = 1..n
                        /\ \A j, k \in 1..n : q[j] = q[k] => j = k
  <2>1. CASE q = <<"legacy", "symbol">>
    <3>1. q \in [1..2 -> Modes] /\ q[1] # q[2] /\ DOMAIN q = 1..2
      BY <2>1 DEF Modes
    <3>. QED BY <3>1
  <2>2. CASE q = <<"legacy">> \/ q = <<"symbol">>
    <3>1. q \in [1..1 -> Modes] /\ DOMAIN q = 1..1
      BY <2>2 DEF Modes
    <3>. QED BY <3>1
  <2>. QED BY <1>1, <1>2, <2>1, <2>2
<1>. DEFINE r(k) == [mode |-> q[k], skipped |-> ~Usable(o, q[k]), generated |-> FALSE, output |-> 0, failed |-> FALSE]
<1>4. PreparedRuns(o) = [k \in 1..n |-> r(k)]
  BY <1>2, <1>3 DEF PreparedRuns
<1>5. ASSUME NEW k \in 1..n PROVE r(k) \in RunReports /\ r(k).mode = q[k] /\ r(k).generated = FALSE
  <2>1. 0 \in 0..MaxOutput
    BY ProviderAssumption
  <2>2. q[k] \in Modes
    BY <1>3
  <2>3. (~Usable(o, q[k])) \in BOOLEAN
    OBVIOUS
  <2>. QED BY <2>1, <2>2, <2>3 DEF RunReports
<1>. HIDE DEF r
<1>6. PreparedRuns(o) \in [1..n -> RunReports]
  BY <1>4, <1>5
<1>7. \A k \in 1..n : PreparedRuns(o)[k].mode = q[k] /\ ~PreparedRuns(o)[k].generated
  BY <1>4, <1>5
<1>8. DOMAIN PreparedRuns(o) = 1..n
  BY <1>4
<1>. QED BY <1>3, <1>6, <1>7, <1>8

LEMMA PrepareKept ==
  ASSUME Inv, PrepareContext
  PROVE  Inv'
<1>1. apc = "prepare" /\ apc' = "prepared" /\ ret' = ret /\ runs' = PreparedRuns(opts)
  BY DEF PrepareContext, ContinueAt
<1>2. UNCHANGED <<cancelled, prov, pq, chunks, opts, index, errors, held, validation, seen, aseq, aq, sink, losses>>
  BY DEF PrepareContext, providerVars
<1>3. opts \in Options /\ index = 0
  BY <1>1 DEF Inv, Types, EngineTypes, Control, EarlyPoints
<1>4. /\ \E n \in 0..2 : runs' \in [1..n -> RunReports]
      /\ \A j, k \in DOMAIN runs' : runs'[j].mode = runs'[k].mode => j = k
      /\ \A k \in DOMAIN runs' : ~runs'[k].generated
  BY <1>1, <1>3, PreparedType
<1>5. 0 \in 0..Len(runs')
  <2>1. PICK n \in 0..2 : runs' \in [1..n -> RunReports]
    BY <1>4
  <2>2. runs' \in Seq(RunReports) /\ Len(runs') = n
    BY <2>1
  <2>. QED BY <2>2
<1>6. EngineTypes'
  BY <1>1, <1>2, <1>3, <1>4, <1>5 DEF Inv, Types, EngineTypes, Points
<1>7. Control'
  BY <1>1, <1>2, <1>4 DEF Inv, Control, EarlyPoints
<1>8. Begun = {}
  <2>1. PICK n \in 0..2 : DOMAIN runs = 1..n
    BY RunsLength DEF Inv, Types
  <2>. QED BY <1>3, <2>1 DEF Begun
<1>9. ProviderKept
  BY <1>2, ProviderSame DEF Inv
<1>10. Fresh /\ SameGenerated
  BY <1>1, <1>4 DEF Fresh, SameGenerated
<1>11. Delivery'
  BY <1>2, <1>10, DeliverySilent DEF Inv
<1>. QED BY <1>1, <1>2, <1>6, <1>7, <1>8, <1>9, <1>10, <1>11, SilentStep

LEMMA PrepareFailsKept ==
  ASSUME Inv, PrepareFails
  PROVE  Inv'
<1>1. apc = "prepare" /\ apc' = "inner_error" /\ ret' = ret /\ errors' = Append(errors, InnerCode)
  BY DEF PrepareFails, InnerFails, ContinueAt, InnerCode
<1>2. UNCHANGED <<cancelled, prov, pq, chunks, opts, runs, index, held, validation, seen, aseq, aq, sink, losses>>
  BY DEF PrepareFails, InnerFails, providerVars
<1>3. /\ errors' \in Seq(Codes) /\ errors' # <<>>
      /\ \A i \in DOMAIN errors' : errors'[i] \in {"generation_cancelled", "request_cancelled"} => cancelled
  <2>1. InnerCode \in Codes /\ (InnerCode \in {"generation_cancelled", "request_cancelled"} => cancelled)
    BY DEF InnerCode, Codes
  <2>. QED BY <1>1, <2>1, ErrorAdded DEF Inv, Types, Control
<1>4. EngineTypes'
  BY <1>1, <1>2, <1>3 DEF Inv, Types, EngineTypes, Points
<1>5. Control'
  BY <1>1, <1>2, <1>3 DEF Inv, Control, EarlyPoints
<1>6. ProviderKept /\ Begun' = Begun
  BY <1>2, ProviderSame, BegunSame DEF Inv
<1>7. Fresh /\ SameGenerated
  BY <1>1, <1>2 DEF Fresh, SameGenerated
<1>8. Delivery'
  BY <1>2, <1>3, <1>7, DeliverySilent DEF Inv
<1>. QED BY <1>1, <1>2, <1>4, <1>5, <1>6, <1>7, <1>8, SilentStep

(* The early returns: an error enters the report, or nothing changes.       *)
Settling ==
  /\ apc \in {"decide", "preflight"} /\ ret' = ret
  /\ \/ /\ \E code \in Codes, mode \in Modes \union {"none"} :
             Attach(code, mode) /\ (code \in {"generation_cancelled", "request_cancelled"} => cancelled)
        /\ apc' = "finish"
     \/ /\ UNCHANGED <<errors, runs>>
        /\ apc' \in {"compared", "preflight", "next"}
        /\ apc' = "compared" => opts.mode = "compare" /\ ~opts.compareGenerate

(* The report keeps its runs and its errors, and no code says cancelled     *)
(* unless the token is.                                                     *)
ReportKept ==
  /\ \E n \in 0..2 : runs' \in [1..n -> RunReports]
  /\ \A j, k \in DOMAIN runs' : runs'[j].mode = runs'[k].mode => j = k
  /\ Len(runs') = Len(runs) /\ SameRuns
  /\ errors' \in Seq(Codes) /\ (errors' = <<>> => errors = <<>>)
  /\ \A i \in DOMAIN errors' : errors'[i] \in {"generation_cancelled", "request_cancelled"} => cancelled'

LEMMA SettlingKept ==
  ASSUME Inv, Settling, Rest
  PROVE  Inv'
<1>1. UNCHANGED <<cancelled, prov, pq, chunks, opts, index, held, validation, seen, aseq, aq, sink, losses>>
  BY DEF Rest, providerVars
<1>2. apc \in {"decide", "preflight"} /\ ret' = ret /\ apc' \in {"finish", "compared", "preflight", "next"}
  BY DEF Settling
<1>3. ReportKept /\ SameGenerated
  <2>1. ASSUME NEW code \in Codes, NEW mode, Attach(code, mode),
               code \in {"generation_cancelled", "request_cancelled"} => cancelled
        PROVE  ReportKept /\ SameGenerated
    BY <1>1, <2>1, AttachKept DEF Inv, Types, Control, ReportKept
  <2>2. CASE UNCHANGED <<errors, runs>>
    BY <1>1, <2>2 DEF Inv, Types, EngineTypes, Control, SameRuns, SameGenerated, ReportKept
  <2>. QED BY <2>1, <2>2 DEF Settling
<1>4. EngineTypes'
  BY <1>1, <1>2, <1>3 DEF ReportKept, Inv, Types, EngineTypes, Points
<1>5. Control'
  <2>1. index = 0
    BY <1>2 DEF Inv, Control, EarlyPoints
  <2>2. apc' = "compared" => opts'.mode = "compare" /\ ~opts'.compareGenerate
    BY <1>1 DEF Settling
  <2>3. \A k \in DOMAIN runs' : runs'[k].generated =>
          k < index' \/ (k = index' /\ apc' \notin {"stream", "generate"})
    BY <1>1, <1>2, <1>3 DEF Inv, Control, SameGenerated
  <2>. QED BY <1>1, <1>2, <1>3, <2>1, <2>2, <2>3 DEF Inv, Control, ReportKept
<1>6. ProviderKept /\ Begun \subseteq Begun'
  BY <1>1, <1>3, ProviderSame, BegunKept DEF Inv, ReportKept
<1>7. Fresh
  BY <1>2 DEF Fresh
<1>8. Delivery'
  BY <1>1, <1>3, <1>7, DeliverySilent DEF Inv, ReportKept
<1>. QED BY <1>1, <1>2, <1>4, <1>5, <1>6, <1>7, <1>8, SilentStep

LEMMA DecideKept ==
  ASSUME Inv, Decide
  PROVE  Inv'
<1>1. Settling
  <2>1. apc = "decide" /\ ret' = ret
    BY DEF Decide, ContinueAt
  <2>2. "request_cancelled" \in Codes /\ "context_rejected" \in Codes /\ "symbol" \in Modes
    BY DEF Codes, Modes
  <2>3. CASE cancelled
    BY <2>1, <2>2, <2>3 DEF Decide, ContinueAt, Settling
  <2>4. CASE ~cancelled
    BY <2>1, <2>2, <2>4 DEF Decide, ContinueAt, Settling
  <2>. QED BY <2>3, <2>4
<1>. QED BY <1>1, SettlingKept DEF Decide

LEMMA PreflightKept ==
  ASSUME Inv, Preflight
  PROVE  Inv'
<1>1. Settling
  <2>1. apc = "preflight" /\ ret' = ret
    BY DEF Preflight, ContinueAt
  <2>2. "request_cancelled" \in Codes /\ "model_unavailable" \in Codes /\ "ollama_unavailable" \in Codes
    BY DEF Codes
  <2>. QED BY <2>1, <2>2 DEF Preflight, ContinueAt, Settling
<1>. QED BY <1>1, SettlingKept DEF Preflight

LEMMA NextPromptKept ==
  ASSUME Inv, NextPrompt
  PROVE  Inv'
<1>. DEFINE left == {i \in DOMAIN runs : i > index /\ ~runs[i].skipped}
<1>0. UNCHANGED <<cancelled, pq, chunks, opts, runs, errors, held, seen, aseq, aq, sink, losses, ret>> /\ apc = "next"
  BY DEF NextPrompt, ContinueAt
<1>1. SameGenerated
  BY <1>0 DEF SameGenerated
<1>2. CASE apc' = "finish" /\ UNCHANGED <<index, prov, validation>>
  <2>1. ProviderKept /\ Begun' = Begun
    BY <1>0, <1>2, ProviderSame, BegunSame DEF Inv
  <2>2. EngineTypes'
    BY <1>0, <1>2 DEF Inv, Types, EngineTypes, Points
  <2>3. Control'
    BY <1>0, <1>2 DEF Inv, Control, EarlyPoints
  <2>4. Fresh
    BY <1>2 DEF Fresh
  <2>5. Delivery'
    BY <1>0, <1>1, <2>4, DeliverySilent DEF Inv
  <2>. QED BY <1>0, <1>2, <2>1, <2>2, <2>3, <2>4, <2>5, SilentStep
<1>3. ASSUME left # {}, index' = CHOOSE i \in left : \A j \in left : i <= j,
             prov' = NewStream("open"), validation' = NoValidation,
             apc' = IF opts.protocol THEN "stream" ELSE "generate"
      PROVE  Inv'
  <2>1. PICK n \in 0..2 : DOMAIN runs = 1..n /\ Len(runs) = n
    BY RunsLength DEF Inv, Types
  <2>2. index \in 0..n
    BY <2>1 DEF Inv, Types, EngineTypes
  <2>3. \E i \in left : \A j \in left : i <= j
    <3>1. \A i \in left : i = 1 \/ i = 2
      BY <2>1
    <3>2. CASE 1 \in left
      BY <3>1, <3>2
    <3>3. CASE 1 \notin left
      BY <1>3, <3>1, <3>3
    <3>. QED BY <3>2, <3>3
  <2>4. index' \in left
    BY <1>3, <2>3
  <2>5. index' \in DOMAIN runs /\ index' > index /\ index' \in 0..Len(runs)
    BY <2>1, <2>4
  <2>. HIDE DEF left
  <2>6. /\ prov' \in Streams /\ prov'.pc = "open" /\ prov'.seq = 0 /\ prov'.out = 0 /\ prov'.res = "none"
        /\ validation'.next = 0 /\ validation'.terminals = 0 /\ validation' \in [next : Nat, terminals : 0..1]
    BY <1>3, NewStreamType DEF NoValidation
  <2>7. pq = <<>> /\ held = NoEvent
    BY <1>0 DEF Inv, Control
  <2>8. ProviderKept
    <3>1. ProviderTypes'
      BY <1>0, <2>6 DEF Inv, Types, ProviderTypes
    <3>2. Counted'
      BY <2>6 DEF Counted
    <3>3. Taken' = 0 /\ Len(pq') = 0
      BY <1>0, <2>6, <2>7 DEF Taken
    <3>4. ~IsTerminal(held')
      BY <1>0, <2>7 DEF IsTerminal, NoEvent, ProviderTerminals
    <3>5. Contract'
      BY <1>0, <2>6, <2>7, <3>3, <3>4 DEF Contract
    <3>. QED BY <3>1, <3>2, <3>5 DEF ProviderKept
  <2>9. EngineTypes'
    BY <1>0, <1>3, <2>5, <2>6 DEF Inv, Types, EngineTypes, Points
  <2>10. \A k \in DOMAIN runs : runs[k].generated => k < index'
    <3>1. ASSUME NEW k \in DOMAIN runs, runs[k].generated PROVE k <= index
      BY <2>1, <2>2, <3>1 DEF Inv, Control
    <3>. QED BY <2>1, <2>2, <2>5, <3>1
  <2>11. Control'
    BY <1>0, <1>3, <2>5, <2>6, <2>7, <2>10 DEF Inv, Control, EarlyPoints
  <2>12. \A k \in DOMAIN runs : k < index \/ (k = index /\ validation.next > 0) => k < index'
    BY <2>1, <2>2, <2>5
  <2>13. Begun \subseteq Begun'
    BY <1>0, <2>12 DEF Begun
  <2>14. runs'[index'].mode \notin Begun
    <3>1. ASSUME NEW k \in DOMAIN runs, k < index', runs[k].mode = runs[index'].mode PROVE FALSE
      <4>1. k = index'
        BY <2>5, <3>1 DEF Inv, Types, EngineTypes
      <4>. QED BY <2>1, <2>5, <3>1, <4>1
    <3>. QED BY <1>0, <2>12, <3>1 DEF Begun
  <2>15. Fresh
    BY <2>6, <2>14 DEF Fresh
  <2>16. Delivery'
    BY <1>0, <1>1, <2>15, DeliverySilent DEF Inv
  <2>17. apc' # "returned"
    BY <1>3
  <2>. QED BY <1>0, <2>8, <2>9, <2>11, <2>13, <2>15, <2>16, <2>17, SilentStep
<1>. QED BY <1>2, <1>3 DEF NextPrompt, ContinueAt

(* The outcome of a generation enters the report.                           *)
LEMMA GeneratedKept ==
  ASSUME EngineTypes, Control, index \in DOMAIN runs, NEW n \in 0..MaxOutput, Generated(n), cancelled' = cancelled
  PROVE  /\ ReportKept /\ errors' = errors
         /\ \A k \in DOMAIN runs' : runs'[k].generated =>
              \/ k = index /\ runs'[k].output = n
              \/ k # index /\ runs[k].generated /\ runs'[k].output = runs[k].output
<1>1. PICK m \in 0..2 : runs \in [1..m -> RunReports] /\ DOMAIN runs = 1..m
  BY RunsLength
<1>2. runs[index] \in RunReports
  BY <1>1
<1>3. runs' = [runs EXCEPT ![index] = [[runs[index] EXCEPT !.generated = TRUE] EXCEPT !.output = n]]
  BY <1>1 DEF Generated
<1>. DEFINE r == [[runs[index] EXCEPT !.generated = TRUE] EXCEPT !.output = n]
<1>4. r \in RunReports /\ r.mode = runs[index].mode /\ r.output = n
  BY <1>2 DEF RunReports
<1>. HIDE DEF r
<1>5. runs' = [runs EXCEPT ![index] = r]
  BY <1>3 DEF r
<1>6. runs' \in [DOMAIN runs -> RunReports] /\ \A k \in DOMAIN runs : runs'[k].mode = runs[k].mode
  BY <1>1, <1>4, <1>5
<1>7. ReportKept
  BY <1>6, RunsKept DEF Generated, ReportKept, EngineTypes, Control
<1>. QED BY <1>1, <1>4, <1>5, <1>7 DEF Generated

LEMMA FailedKept ==
  ASSUME EngineTypes, Control, index \in DOMAIN runs, NEW kind, GenerationFailed(kind),
         kind = "cancelled" => cancelled, cancelled => cancelled'
  PROVE  ReportKept /\ SameGenerated /\ errors' # <<>>
<1>1. PICK m \in 0..2 : runs \in [1..m -> RunReports] /\ DOMAIN runs = 1..m
  BY RunsLength
<1>2. runs[index] \in RunReports
  BY <1>1
<1>. DEFINE r == [runs[index] EXCEPT !.failed = TRUE]
<1>3. r \in RunReports /\ r.mode = runs[index].mode /\ r.output = runs[index].output /\ r.generated = runs[index].generated
  BY <1>2 DEF RunReports
<1>. HIDE DEF r
<1>4. runs' = [runs EXCEPT ![index] = r]
  BY DEF r, GenerationFailed
<1>5. runs' \in [DOMAIN runs -> RunReports] /\ \A k \in DOMAIN runs : runs'[k].mode = runs[k].mode
  BY <1>1, <1>3, <1>4
<1>6. PICK code \in Codes : /\ errors' = Append(errors, code)
                            /\ code \in {"generation_cancelled", "request_cancelled"} => cancelled
  BY DEF GenerationFailed, Codes
<1>7. /\ errors' \in Seq(Codes) /\ errors' # <<>>
      /\ \A i \in DOMAIN errors' : errors'[i] \in {"generation_cancelled", "request_cancelled"} => cancelled'
  BY <1>6, ErrorAdded DEF Control
<1>8. ReportKept
  BY <1>5, <1>7, RunsKept DEF ReportKept
<1>9. SameGenerated
  BY <1>1, <1>3, <1>4 DEF SameGenerated
<1>. QED BY <1>7, <1>8, <1>9

(* The end of a generation, however it ends.                                *)
Closing ==
  /\ apc \in {"stream", "generate"} /\ apc' = "next" /\ ret' = ret
  /\ Close /\ ReportKept
  /\ UNCHANGED <<chunks, opts, index, seen>>
  /\ cancelled' \in BOOLEAN /\ validation' \in [next : Nat, terminals : 0..1]
  /\ validation.next > 0 => validation'.next > 0
  /\ \A k \in DOMAIN runs' : runs'[k].generated => k = index \/ (k \in DOMAIN runs /\ runs[k].generated)

LEMMA ClosingKept ==
  ASSUME Inv, Closing
  PROVE  ProviderKept /\ EngineTypes' /\ Control' /\ Begun \subseteq Begun' /\ Fresh
<1>1. ProviderKept
  BY CloseKept DEF Closing, Inv
<1>2. pq' = <<>> /\ held' = NoEvent /\ prov'.pc = "idle"
  BY NewStreamType DEF Closing, Close
<1>3. EngineTypes'
  BY <1>2 DEF Closing, ReportKept, Inv, Types, EngineTypes, Points
<1>4. \A k \in DOMAIN runs' : runs'[k].generated => k < index \/ k = index
  BY DEF Closing, Inv, Control
<1>5. Control'
  BY <1>2, <1>4 DEF Closing, ReportKept, Control, EarlyPoints
<1>6. Begun \subseteq Begun'
  BY BegunKept DEF Closing, ReportKept
<1>7. Fresh
  BY DEF Closing, Fresh
<1>. QED BY <1>1, <1>3, <1>5, <1>6, <1>7

LEMMA GenerateKept ==
  ASSUME Inv, Generate
  PROVE  Inv'
<1>1. /\ apc = "generate" /\ apc' = "next" /\ ret' = ret /\ Close
      /\ UNCHANGED <<cancelled, chunks, opts, index, validation, seen, aseq, aq, sink, losses>>
  BY DEF Generate, ContinueAt
<1>2. EngineTypes /\ Control /\ index \in DOMAIN runs /\ ~opts.protocol
  BY <1>1 DEF Inv, Types, Control
<1>3. ReportKept /\ \A k \in DOMAIN runs' : runs'[k].generated => k = index \/ (k \in DOMAIN runs /\ runs[k].generated)
  <2>1. ASSUME NEW n \in 0..MaxOutput, Generated(n) PROVE ReportKept
    BY <1>1, <1>2, <2>1, GeneratedKept
  <2>2. ASSUME NEW n \in 0..MaxOutput, Generated(n)
        PROVE  \A k \in DOMAIN runs' : runs'[k].generated => k = index \/ (k \in DOMAIN runs /\ runs[k].generated)
    BY <1>1, <1>2, <2>2, GeneratedKept DEF ReportKept, SameRuns
  <2>3. CASE GenerationFailed("failed")
    BY <1>1, <1>2, <2>3, FailedKept DEF SameGenerated
  <2>. QED BY <2>1, <2>2, <2>3 DEF Generate
<1>4. Closing
  BY <1>1, <1>3 DEF Closing, Inv, Types, ProviderTypes, EngineTypes
<1>5. Delivery'
  BY <1>1, <1>2 DEF Delivery
<1>. QED BY <1>1, <1>4, <1>5, ClosingKept, SilentStep

LEMMA EndStreamKept ==
  ASSUME Inv, EndStream
  PROVE  Inv'
<1>1. /\ apc = "stream" /\ apc' = "next" /\ ret' = ret /\ Close
      /\ UNCHANGED <<cancelled, chunks, opts, index, validation, seen, aseq, aq, sink, losses>>
  BY DEF EndStream, ContinueAt
<1>2. EngineTypes /\ Control /\ index \in DOMAIN runs /\ prov \in Streams /\ prov.out \in 0..MaxOutput
  BY <1>1 DEF Inv, Types, Control, ProviderTypes, Streams
<1>3. CASE StreamResult = "ok"
  <2>1. validation.terminals = 1 /\ prov.res = "ok"
    BY <1>3 DEF StreamResult
  <2>2. PICK n \in 0..MaxOutput : n = prov.out
    BY <1>2
  <2>3. Generated(n)
    BY <1>3, <2>2 DEF EndStream
  <2>4. /\ ReportKept /\ errors' = errors
        /\ \A k \in DOMAIN runs' : runs'[k].generated =>
              \/ k = index /\ runs'[k].output = n
              \/ k # index /\ runs[k].generated /\ runs'[k].output = runs[k].output
    BY <1>1, <1>2, <2>3, GeneratedKept
  <2>5. Closing
    BY <1>1, <2>4 DEF Closing, ReportKept, SameRuns, Inv, Types, ProviderTypes, EngineTypes
  <2>6. Delivery'
    <3>. SUFFICES ASSUME Clean', opts'.protocol
                  PROVE  Chain' /\ \A k \in DOMAIN runs' : runs'[k].generated => Arrives(runs[k].mode, runs[k].output)'
      BY <1>1 DEF Delivery, ChainEnd
    <3>1. Clean /\ opts.protocol
      BY <1>1, <2>4 DEF Clean
    <3>2. Chain'
      BY <1>1, <3>1 DEF Inv, Delivery, Chain
    <3>3. ASSUME NEW k \in DOMAIN runs', runs'[k].generated
          PROVE  Arrives(runs[k].mode, runs[k].output)'
      <4>1. k \in DOMAIN runs /\ runs'[k].mode = runs[k].mode
        BY <2>4 DEF ReportKept, SameRuns
      <4>2. Arrives(runs[k].mode, runs'[k].output)
        <5>1. CASE k = index
          BY <1>1, <2>1, <2>2, <2>4, <3>1, <3>3, <5>1 DEF Inv, Delivery
        <5>2. CASE k # index
          BY <2>4, <3>1, <3>3, <4>1, <5>2 DEF Inv, Delivery
        <5>. QED BY <5>1, <5>2
      <4>. QED BY <1>1, <4>1, <4>2 DEF Arrives
    <3>. QED BY <3>2, <3>3
  <2>. QED BY <1>1, <2>5, <2>6, ClosingKept, SilentStep
<1>4. CASE StreamResult # "ok"
  <2>1. PICK kind : GenerationFailed(kind) /\ kind = StreamResult
    BY <1>4 DEF EndStream
  <2>2. kind = "cancelled" => cancelled
    BY <2>1 DEF StreamResult, Inv, Counted
  <2>3. ReportKept /\ SameGenerated /\ errors' # <<>>
    BY <1>1, <1>2, <2>1, <2>2, FailedKept
  <2>4. Closing
    BY <1>1, <2>3 DEF Closing, SameGenerated, Inv, Types, ProviderTypes, EngineTypes
  <2>5. Delivery'
    BY <1>1, <2>3, <2>4, ClosingKept, DeliverySilent DEF Inv
  <2>. QED BY <1>1, <2>4, <2>5, ClosingKept, SilentStep
<1>. QED BY <1>3, <1>4

-----------------------------------------------------------------------------
(* The steps of a stream.                                                   *)

LEMMA ProviderActionKept ==
  ASSUME Inv, Provider
  PROVE  Inv'
<1>1. apc = "stream" /\ held = NoEvent /\ UNCHANGED <<assistantVars, apc, seen, ret>>
  BY DEF Provider
<1>2. UNCHANGED <<opts, runs, index, errors, held, validation, aseq, aq, sink, losses>>
  BY <1>1 DEF assistantVars
<1>3. ProviderKept
  <2>1. opts.requestValid \in BOOLEAN
    BY DEF Inv, Types, EngineTypes, Options
  <2>. QED BY <1>1, <1>2, <2>1, ProviderStepKept, OpenKept DEF Inv, Provider
<1>4. prov.pc \notin {"done", "idle"} /\ (cancelled' = cancelled)
  BY DEF Provider, ProviderStep, Local, Open, EmitCancelled, EmitStarted, EmitDelta, Line, NoFinalLine,
         SendTerminal, SendRequest, ReadFails, EndOfBody, Chunk, PartOfLine, Waiting
<1>5. validation.terminals # 1
  BY <1>4 DEF Inv, Contract
<1>6. EngineTypes' /\ ConsumerTypes'
  BY <1>1, <1>2 DEF Inv, Types, EngineTypes, ConsumerTypes
<1>7. Control'
  BY <1>1, <1>2, <1>4 DEF Inv, Control, EarlyPoints
<1>8. Begun' = Begun
  BY <1>2, BegunSame
<1>9. Passing'
  BY <1>1, <1>2, <1>8 DEF Inv, Passing
<1>10. Delivery'
  BY <1>1, <1>2, <1>5 DEF Inv, Delivery, Clean, Chain, ChainEnd, Arrives
<1>11. Terminal' /\ Gapless'
  BY <1>1, <1>2, TerminalSilent, GaplessSilent DEF Inv
<1>. QED BY <1>3, <1>6, <1>7, <1>9, <1>10, <1>11 DEF Inv, Types, ProviderKept

LEMMA TakeEventKept ==
  ASSUME Inv, TakeEvent
  PROVE  Inv'
<1>1. /\ apc = "stream" /\ held = NoEvent /\ pq # <<>> /\ held' = Head(pq) /\ pq' = Tail(pq)
      /\ UNCHANGED <<cancelled, prov, chunks, opts, runs, index, errors, validation, aseq, aq,
                     sink, losses, apc, seen, ret>>
  BY DEF TakeEvent
<1>2. pq \in Seq(LlmEvents) /\ Len(pq) <= ProviderCapacity /\ validation.next \in Nat
  BY DEF Inv, Types, ProviderTypes, EngineTypes
<1>3. /\ held' = pq[1] /\ held' \in LlmEvents /\ Len(pq) \in Nat /\ Len(pq) >= 1
      /\ pq' \in Seq(LlmEvents) /\ Len(pq') = Len(pq) - 1 /\ \A i \in 1..Len(pq') : pq'[i] = pq[i+1] /\ i + 1 \in 1..Len(pq)
  BY <1>1, <1>2
<1>4. held' # NoEvent /\ 1 \in 1..Len(pq)
  BY <1>3 DEF LlmEvents, NoEvent, ProviderTerminals
<1>5. Taken = validation.next /\ Taken' = validation.next + 1
  BY <1>1, <1>2, <1>4 DEF Taken
<1>6. held'.seq = validation.next /\ Shaped(held')
  <2>1. held'.seq = Taken + 1 - 1 /\ Shaped(held')
    BY <1>3, <1>4 DEF Inv, Contract
  <2>. QED BY <1>2, <1>5, <2>1
<1>7. validation.terminals = 0
  <2>1. validation.terminals \in 0..1 /\ validation.terminals # 1
    BY <1>1 DEF Inv, Contract, Types, EngineTypes
  <2>. QED BY <2>1
<1>8. \A i \in 1..Len(pq') : pq'[i].seq = Taken' + i - 1 /\ Shaped(pq'[i])
  <2>1. ASSUME NEW i \in 1..Len(pq') PROVE pq'[i].seq = Taken' + i - 1 /\ Shaped(pq'[i])
    <3>1. pq'[i].seq = Taken + (i + 1) - 1 /\ Shaped(pq'[i])
      BY <1>3 DEF Inv, Contract
    <3>. QED BY <1>2, <1>3, <1>5, <3>1
  <2>. QED BY <2>1
<1>9. prov'.pc \notin {"done", "idle"} => Taken' + Len(pq') = prov'.seq
  <2>1. prov.pc \notin {"done", "idle"} => validation.next + Len(pq) = prov.seq
    BY <1>5 DEF Inv, Contract
  <2>2. Taken' + Len(pq') = validation.next + Len(pq)
    BY <1>2, <1>3, <1>5
  <2>. QED BY <1>1, <2>1, <2>2
<1>10. \A i \in 1..Len(pq') : IsTerminal(pq'[i]) =>
         /\ i = Len(pq')
         /\ prov'.pc = "done" /\ pq'[i].type = TerminalOf(prov'.res) /\ pq'[i].output = prov'.out
  <2>1. ASSUME NEW i \in 1..Len(pq'), IsTerminal(pq'[i])
        PROVE  /\ i + 1 = Len(pq)
               /\ prov.pc = "done" /\ pq'[i].type = TerminalOf(prov.res) /\ pq'[i].output = prov.out
    BY <1>3, <2>1 DEF Inv, Contract, LastWord
  <2>2. ASSUME NEW i \in 1..Len(pq'), i + 1 = Len(pq) PROVE i = Len(pq')
    BY <1>3, <2>2
  <2>. QED BY <1>1, <2>1, <2>2
<1>11. IsTerminal(held') =>
         /\ pq' = <<>>
         /\ prov'.pc = "done" /\ held'.type = TerminalOf(prov'.res) /\ held'.output = prov'.out
  <2>1. IsTerminal(pq[1]) => 1 = Len(pq) /\ LastWord(pq[1])
    BY <1>4 DEF Inv, Contract
  <2>2. 1 = Len(pq) => pq' = <<>>
    <3>1. pq' \in Seq(LlmEvents)
      BY <1>3
    <3>2. Len(pq) = 1 => Len(pq') = 0
      <4>1. PICK n \in Nat : n = Len(pq) /\ Len(pq') = n - 1
        BY <1>3
      <4>. QED BY <4>1
    <3>. QED BY <3>1, <3>2, EmptySeq
  <2>. QED BY <1>1, <1>3, <2>1, <2>2 DEF LastWord
<1>12. Contract'
  BY <1>1, <1>6, <1>7, <1>8, <1>9, <1>10, <1>11 DEF Contract, LastWord
<1>13. Counted' /\ ProviderTypes'
  BY <1>1, <1>2, <1>3, ProviderAssumption DEF Inv, Types, ProviderTypes, Counted
<1>14. EngineTypes' /\ ConsumerTypes'
  BY <1>1, <1>3 DEF Inv, Types, EngineTypes, ConsumerTypes
<1>15. Control'
  BY <1>1 DEF Inv, Control, EarlyPoints
<1>16. Begun' = Begun
  BY <1>1, BegunSame
<1>17. Passing'
  BY <1>1, <1>16 DEF Inv, Passing
<1>18. Delivery'
  BY <1>1 DEF Inv, Delivery, Clean, Chain, ChainEnd, Arrives
<1>19. Terminal' /\ Gapless'
  BY <1>1, TerminalSilent, GaplessSilent DEF Inv
<1>. QED BY <1>12, <1>13, <1>14, <1>15, <1>17, <1>18, <1>19 DEF Inv, Types

(* An event of the provider is forwarded.                                   *)
Forwarded(m, h) ==
  /\ apc = "stream" /\ held = h /\ h \in LlmEvents /\ h # NoEvent /\ held' = NoEvent
  /\ index \in DOMAIN runs /\ m = runs[index].mode /\ m \in Modes
  /\ h.seq = validation.next /\ validation.next \in Nat /\ validation.terminals = 0
  /\ validation'.next = validation.next + 1
  /\ validation'.terminals = IF IsTerminal(h) THEN 1 ELSE 0
  /\ UNCHANGED <<cancelled, prov, pq, chunks, opts, runs, index, errors, apc, ret, seen>>

LEMMA ForwardedProvider ==
  ASSUME Inv, NEW m, NEW h, Forwarded(m, h), validation' \in [next : Nat, terminals : 0..1]
  PROVE  ProviderKept /\ EngineTypes' /\ Control'
<1>1. ProviderTypes' /\ Counted'
  BY DEF Forwarded, Inv, Types, ProviderTypes, Counted
<1>2. Taken' = Taken
  <2>1. Taken = validation.next + 1
    BY DEF Forwarded, Taken
  <2>2. Taken' = validation.next + 1
    BY DEF Forwarded, Taken
  <2>. QED BY <2>1, <2>2
<1>3. ~IsTerminal(held')
  BY DEF Forwarded, IsTerminal, NoEvent, ProviderTerminals
<1>4. validation'.terminals = 1 => pq = <<>> /\ prov.pc = "done"
  BY DEF Forwarded, Inv, Contract, LastWord
<1>5. /\ \A i \in 1..Len(pq) : pq[i].seq = Taken + i - 1 /\ Shaped(pq[i])
      /\ prov.pc \notin {"done", "idle"} => Taken + Len(pq) = prov.seq
      /\ \A i \in 1..Len(pq) : IsTerminal(pq[i]) =>
           i = Len(pq) /\ prov.pc = "done" /\ pq[i].type = TerminalOf(prov.res) /\ pq[i].output = prov.out
  BY DEF Inv, Contract, LastWord
<1>6. pq' = pq /\ prov' = prov /\ held' = NoEvent
  BY DEF Forwarded
<1>7. Contract'
  BY <1>2, <1>3, <1>4, <1>5, <1>6 DEF Contract, LastWord
<1>8. EngineTypes'
  BY DEF Forwarded, Inv, Types, EngineTypes
<1>9. Control'
  BY DEF Forwarded, Inv, Control, EarlyPoints
<1>. QED BY <1>1, <1>7, <1>8, <1>9 DEF ProviderKept

LEMMA ForwardedPassing ==
  ASSUME Inv, NEW m, NEW h, Forwarded(m, h), NEW e, Added(e),
         e.kind = "provider", e.mode = m, e.provider = h
  PROVE  Passing'
<1>0. /\ DOMAIN runs \subseteq Nat /\ m \in Modes /\ index \in DOMAIN runs /\ validation.next \in Nat
      /\ UNCHANGED <<runs, index, opts, seen, apc>> /\ validation'.next = validation.next + 1 /\ m = runs[index].mode
  <2>1. PICK n \in 0..2 : DOMAIN runs = 1..n
    BY RunsLength DEF Inv, Types
  <2>. QED BY <2>1 DEF Forwarded
<1>1. validation'.next > 0
  BY <1>0
<1>2. Begun \subseteq Begun' /\ m \in Begun'
  <2>1. SameRuns
    BY <1>0 DEF SameRuns
  <2>2. Begun \subseteq Begun'
    BY <1>0, <1>1, <2>1, BegunKept
  <2>. QED BY <1>0, <1>1, <2>2 DEF Begun
<1>3. Shaped(h) /\ h \in LlmEvents /\ h.seq \in Nat /\ h.seq = validation.next
  BY DEF Forwarded, Inv, Contract, LlmEvents
<1>4. ASSUME NEW i \in 1..Len(aq), IsProv(aq[i]), aq[i].mode = m
      PROVE  ~IsTerminal(aq[i].provider) /\ aq[i].provider.seq < validation.next /\ aq[i].provider.seq \in Nat
  <2>1. aq[i].provider.seq < validation.next /\ (IsTerminal(aq[i].provider) => validation.terminals = 1) /\ aq[i].provider \in LlmEvents
    BY <1>4 DEF Forwarded, Inv, Passing
  <2>2. ~IsTerminal(aq[i].provider)
    BY <2>1 DEF Forwarded
  <2>3. aq[i].provider.seq \in Nat
    BY <2>1 DEF LlmEvents
  <2>. QED BY <2>1, <2>2, <2>3
<1>5. \A i \in 1..Len(aq') : IsProv(aq'[i]) =>
        /\ aq'[i].mode \in Begun' /\ aq'[i].provider \in LlmEvents /\ Shaped(aq'[i].provider)
        /\ apc' = "stream" /\ aq'[i].mode = runs'[index'].mode =>
             /\ aq'[i].provider.seq < validation'.next
             /\ IsTerminal(aq'[i].provider) => validation'.terminals = 1
  <2>1. ASSUME NEW i \in 1..Len(aq), IsProv(aq[i])
        PROVE  /\ aq[i].mode \in Begun' /\ aq[i].provider \in LlmEvents /\ Shaped(aq[i].provider)
               /\ aq[i].mode = m => aq[i].provider.seq < validation'.next /\ ~IsTerminal(aq[i].provider)
    <3>1. aq[i].mode = m => aq[i].provider.seq < validation'.next /\ ~IsTerminal(aq[i].provider)
      BY <1>0, <1>4, <2>1
    <3>. QED BY <1>2, <2>1, <3>1 DEF Inv, Passing
  <2>2. /\ e.mode \in Begun' /\ e.provider \in LlmEvents /\ Shaped(e.provider)
        /\ e.provider.seq < validation'.next /\ (IsTerminal(e.provider) => validation'.terminals = 1)
    <3>1. h.seq < validation'.next
      BY <1>0, <1>3
    <3>. QED BY <1>2, <1>3, <3>1 DEF Forwarded
  <2>. QED BY <1>0, <2>1, <2>2 DEF Added
<1>6. \A i, j \in 1..Len(aq') :
        i < j /\ IsProv(aq'[i]) /\ IsProv(aq'[j]) /\ aq'[i].mode = aq'[j].mode =>
        ~IsTerminal(aq'[i].provider) /\ aq'[j].provider.seq # 0
  <2>1. ASSUME NEW i \in 1..Len(aq), NEW j \in 1..Len(aq), i < j, IsProv(aq[i]), IsProv(aq[j]), aq[i].mode = aq[j].mode
        PROVE  ~IsTerminal(aq[i].provider) /\ aq[j].provider.seq # 0
    BY <2>1 DEF Inv, Passing
  <2>2. ASSUME NEW i \in 1..Len(aq), IsProv(aq[i]), aq[i].mode = e.mode
        PROVE  ~IsTerminal(aq[i].provider) /\ e.provider.seq # 0
    BY <1>3, <1>4, <2>2
  <2>3. ASSUME NEW i \in 1..Len(aq'), NEW j \in 1..Len(aq'), i < j
        PROVE  i \in 1..Len(aq) /\ (j \in 1..Len(aq) \/ j = Len(aq) + 1)
    BY <2>3 DEF Added
  <2>. QED BY <2>1, <2>2, <2>3 DEF Added
<1>7. \A n \in Modes : seen'.text[n] # 0 => n \in Begun'
  BY <1>0, <1>2 DEF Inv, Passing
<1>8. opts'.protocol /\ sink' = "open"
  BY <1>0 DEF Added
<1>. QED BY <1>5, <1>6, <1>7, <1>8 DEF Passing

LEMMA ForwardedDelivery ==
  ASSUME Inv, NEW m, NEW h, Forwarded(m, h), NEW e, Added(e),
         e.kind = "provider", e.mode = m, e.provider = h
  PROVE  Delivery'
<1>. SUFFICES ASSUME Clean', opts'.protocol
              PROVE  /\ Chain' /\ ChainEnd'
                     /\ \A k \in DOMAIN runs' : runs'[k].generated => Arrives(runs[k].mode, runs[k].output)'
                     /\ apc' = "stream" /\ validation'.terminals = 1 /\ prov'.res = "ok" =>
                          Arrives(runs[index].mode, prov.out)'
  BY DEF Delivery
<1>0. /\ UNCHANGED <<runs, index, opts, seen, apc, errors, prov>> /\ validation.next \in Nat /\ m = runs[index].mode
      /\ validation'.next = validation.next + 1 /\ h.seq = validation.next /\ apc = "stream" /\ m \in Modes
      /\ index \in DOMAIN runs
  BY DEF Forwarded
<1>1. Clean /\ opts.protocol
  BY <1>0 DEF Clean, Added
<1>2. Chain /\ ChainEnd
  BY <1>1 DEF Inv, Delivery
<1>3. validation.next = 0 => seen.text[m] = 0
  <2>1. PICK n \in 0..2 : DOMAIN runs = 1..n
    BY RunsLength DEF Inv, Types
  <2>2. ASSUME NEW k \in DOMAIN runs, k < index PROVE runs[k].mode # m
    <3>1. runs[k].mode = runs[index].mode => k = index
      BY <1>0 DEF Inv, Types, EngineTypes
    <3>. QED BY <1>0, <2>1, <2>2, <3>1
  <2>3. validation.next = 0 => m \notin Begun
    BY <2>2 DEF Begun
  <2>. QED BY <1>0, <2>3 DEF Inv, Passing
<1>4. Chain'
  <2>1. ASSUME NEW i \in 1..Len(aq), i # 1 PROVE i - 1 \in 1..Len(aq) /\ aq'[i-1] = aq[i-1]
    BY <2>1 DEF Added
  <2>2. ASSUME NEW i \in 1..Len(aq), IsProv(aq'[i])
        PROVE  IF aq'[i].provider.seq = 0 THEN seen.text[aq'[i].mode] = 0
               ELSE IF i = 1 THEN seen.text[aq'[i].mode] = aq'[i].provider.seq - 1
               ELSE /\ IsProv(aq'[i-1]) /\ aq'[i-1].mode = aq'[i].mode
                    /\ aq'[i-1].provider.seq = aq'[i].provider.seq - 1
    BY <1>2, <2>1, <2>2 DEF Chain, Added
  <2>3. PICK i : i = Len(aq) + 1
    OBVIOUS
  <2>4. IF e.provider.seq = 0 THEN seen.text[e.mode] = 0
        ELSE IF i = 1 THEN seen.text[e.mode] = e.provider.seq - 1
        ELSE /\ IsProv(aq'[i-1]) /\ aq'[i-1].mode = e.mode
             /\ aq'[i-1].provider.seq = e.provider.seq - 1
    <3>1. CASE validation.next = 0
      BY <1>0, <1>3, <3>1
    <3>2. CASE validation.next # 0
      <4>1. validation.next >= 1 /\ validation.terminals = 0
        BY <1>0, <3>2 DEF Forwarded
      <4>2. CASE aq = <<>>
        <5>1. seen.text[m] = validation.next - 1
          BY <1>0, <1>2, <4>1, <4>2 DEF ChainEnd
        <5>2. Len(aq) = 0
          BY <4>2
        <5>3. i = 1
          BY <2>3, <5>2
        <5>. QED BY <1>0, <3>2, <5>1, <5>3
      <4>3. CASE aq # <<>>
        <5>1. IsProv(aq[Len(aq)]) /\ aq[Len(aq)].mode = m /\ aq[Len(aq)].provider.seq = validation.next - 1
          BY <1>0, <1>2, <4>1, <4>3 DEF ChainEnd
        <5>2. Len(aq) \in 1..Len(aq) /\ Len(aq) >= 1 /\ Len(aq) \in Nat
          BY <4>3, EmptySeq DEF Inv, Types, ConsumerTypes
        <5>3. i - 1 = Len(aq) /\ i # 1
          BY <2>3, <5>2
        <5>4. aq'[i - 1] = aq[Len(aq)]
          BY <5>2, <5>3 DEF Added
        <5>. QED BY <1>0, <3>2, <5>1, <5>3, <5>4
      <4>. QED BY <4>2, <4>3
    <3>. QED BY <3>1, <3>2
  <2>5. aq'[i] = e
    BY <2>3 DEF Added
  <2>6. \A j \in 1..Len(aq') : j \in 1..Len(aq) \/ j = i
    BY <2>3 DEF Added
  <2>7. seen' = seen
    BY <1>0
  <2>. QED BY <2>2, <2>4, <2>5, <2>6, <2>7 DEF Chain
<1>5. ChainEnd'
  <2>1. aq' # <<>> /\ aq'[Len(aq')] = e
    BY DEF Added
  <2>2. IsProv(e) /\ e.mode = runs'[index'].mode /\ e.provider.seq = validation'.next - 1
    BY <1>0 DEF IsProv
  <2>. QED BY <2>1, <2>2 DEF ChainEnd
<1>6. \A i \in 1..Len(aq) : i \in 1..Len(aq') /\ aq'[i] = aq[i]
  BY DEF Added
<1>7. ASSUME NEW k \in DOMAIN runs, runs[k].generated
      PROVE  Arrives(runs[k].mode, runs[k].output)'
  <2>1. Arrives(runs[k].mode, runs[k].output)
    BY <1>1, <1>7 DEF Inv, Delivery
  <2>2. runs[k].mode # m
    <3>1. k < index
      BY <1>0, <1>7 DEF Inv, Control
    <3>2. PICK n \in 0..2 : DOMAIN runs = 1..n
      BY RunsLength DEF Inv, Types
    <3>3. k # index
      BY <1>0, <3>1, <3>2
    <3>. QED BY <1>0, <3>3 DEF Inv, Types, EngineTypes
  <2>3. \A i \in 1..Len(aq') : i \in 1..Len(aq) \/ aq'[i] = e
    BY DEF Added
  <2>. QED BY <1>0, <1>6, <2>1, <2>2, <2>3 DEF Arrives
<1>8. ASSUME validation'.terminals = 1, prov'.res = "ok"
      PROVE  Arrives(runs[index].mode, prov.out)'
  <2>1. IsTerminal(h) /\ prov.res = "ok"
    BY <1>0, <1>8 DEF Forwarded
  <2>2. h.type = "completed" /\ h.output = prov.out
    BY <2>1 DEF Forwarded, Inv, Contract, LastWord, TerminalOf
  <2>3. Len(aq') \in 1..Len(aq') /\ aq'[Len(aq')] = e
    BY DEF Added
  <2>. QED BY <1>0, <2>2, <2>3 DEF Arrives, IsProv
<1>. QED BY <1>0, <1>4, <1>5, <1>7, <1>8

LEMMA ForwardKept ==
  ASSUME Inv, Forward
  PROVE  Inv'
<1>1. apc = "stream" /\ held # NoEvent /\ UNCHANGED <<chunks, opts, index, seen>> /\ held \in LlmEvents
  BY DEF Forward, Inv, Types, EngineTypes
<1>2. EventAccepted(held) /\ Deliver /\ held.seq = validation.next /\ validation.terminals = 0
  BY <1>1 DEF Forward, Inv, Contract, EventAccepted
<1>3. /\ validation.next \in Nat /\ index \in DOMAIN runs /\ runs[index].mode \in Modes
      /\ cancelled \in BOOLEAN /\ EngineTypes /\ Control
  <2>1. PICK n \in 0..2 : runs \in [1..n -> RunReports]
    BY DEF Inv, Types, EngineTypes
  <2>2. index \in DOMAIN runs
    BY <1>1 DEF Inv, Control
  <2>3. runs[index].mode \in Modes
    BY <2>1, <2>2 DEF RunReports
  <2>. QED BY <2>2, <2>3 DEF Inv, Types, EngineTypes, ProviderTypes
<1>4. /\ validation'.next = validation.next + 1 /\ validation'.terminals = IF IsTerminal(held) THEN 1 ELSE 0
      /\ validation' \in [next : Nat, terminals : 0..1]
  <2>1. PICK t \in 0..1 : t = (IF IsTerminal(held) THEN 1 ELSE 0)
    OBVIOUS
  <2>2. validation' = [next |-> validation.next + 1, terminals |-> t]
    <3>1. validation.terminals + t = t
      BY <1>2, <2>1
    <3>. QED BY <1>2, <2>1, <3>1 DEF Deliver
  <2>3. validation.next + 1 \in Nat
    BY <1>3
  <2>. QED BY <2>1, <2>2, <2>3
<1>5. CASE /\ Delivered(AssistantEvent("provider", runs[index].mode, held)) /\ held' = NoEvent
           /\ UNCHANGED <<cancelled, prov, pq, runs, errors, apc, ret>>
  <2>1. PICK e \in AssistantEvents, m \in Modes, h \in LlmEvents :
          e = AssistantEvent("provider", runs[index].mode, held) /\ m = runs[index].mode /\ h = held
    <3>1. aseq \in Nat
      BY DEF Inv, Types, ConsumerTypes
    <3>. QED BY <1>1, <1>3, <3>1 DEF AssistantEvent, AssistantEvents
  <2>2. e.seq = aseq /\ e.kind = "provider" /\ e.mode = m /\ e.provider = h
    BY <2>1 DEF AssistantEvent
  <2>3. Added(e) /\ ConsumerTypes'
    BY <1>1, <1>5, <2>1, DeliveredAdds DEF Inv
  <2>4. Forwarded(m, h)
    BY <1>1, <1>2, <1>3, <1>4, <1>5, <2>1 DEF Forwarded
  <2>5. ProviderKept /\ EngineTypes' /\ Control'
    BY <1>4, <2>4, ForwardedProvider
  <2>6. Passing' /\ Delivery'
    BY <2>2, <2>3, <2>4, ForwardedPassing, ForwardedDelivery
  <2>7. Gapless'
    BY <1>1, <1>5, <2>2, <2>3, GaplessAdded DEF Inv
  <2>8. e.kind \notin ProviderTerminals
    BY <2>2 DEF ProviderTerminals
  <2>9. Terminal'
    BY <1>1, <2>3, <2>8, TerminalAdded
  <2>. QED BY <2>3, <2>5, <2>6, <2>7, <2>9 DEF Inv, Types, ProviderKept
<1>6. CASE Undelivered /\ Abandon
  <2>1. /\ cancelled' = TRUE /\ Close /\ GenerationFailed("failed") /\ apc' = "next" /\ ret' = ret
    BY <1>6 DEF Abandon, ContinueAt
  <2>2. ReportKept /\ SameGenerated /\ errors' # <<>>
    BY <1>3, <2>1, FailedKept
  <2>3. validation'.next > 0
    BY <1>3, <1>4
  <2>4. Closing
    BY <1>1, <1>4, <2>1, <2>2, <2>3 DEF Closing, SameGenerated
  <2>5. ProviderKept /\ EngineTypes' /\ Control' /\ Begun \subseteq Begun' /\ Fresh
    BY <2>4, ClosingKept
  <2>6. ConsumerTypes' /\ Gapless' /\ UNCHANGED <<aq, sink>>
    BY <1>1, <1>6, UndeliveredLoses DEF Inv
  <2>7. Passing' /\ Terminal' /\ Delivery'
    BY <1>1, <2>2, <2>5, <2>6, PassingSilent, TerminalSilent, DeliverySilent DEF Inv
  <2>. QED BY <2>5, <2>6, <2>7 DEF Inv, Types, ProviderKept
<1>. QED BY <1>2, <1>5, <1>6 DEF Deliver

-----------------------------------------------------------------------------
(* The consumer.                                                            *)

IsDelta(e) == e.kind = "provider" /\ e.provider.type = "delta"
IsWhole(e) == e.kind = "provider" /\ e.provider.type = "completed"

(* The first event e leaves the channel.                                    *)
Received(e) ==
  /\ Len(aq) \in Nat /\ 1 \in 1..Len(aq) /\ aq[1] = e /\ e \in AssistantEvents /\ sink = "open" /\ opts.protocol
  /\ aq' \in Seq(AssistantEvents) /\ Len(aq') = Len(aq) - 1
  /\ \A i \in 1..Len(aq') : aq'[i] = aq[i+1] /\ i + 1 \in 1..Len(aq)
  /\ IsProv(e) => e.mode \in Begun /\ e.mode \in Modes /\ e.provider \in LlmEvents /\ Shaped(e.provider)
  /\ UNCHANGED <<cancelled, prov, pq, chunks, opts, runs, index, errors, held, validation, aseq, sink, losses, apc, ret>>

(* What the consumer has after it.                                          *)
Noted(e) ==
  /\ seen' \in Sights /\ seen'.next = e.seq + 1
  /\ seen'.whole = (seen.whole /\ e.seq = seen.next)
  /\ seen'.late = (seen.late \/ seen.terminal # "none")
  /\ seen'.terminal = IF e.kind \in ProviderTerminals THEN e.kind ELSE seen.terminal
  /\ \A m \in Modes :
       /\ seen'.text[m] = IF IsDelta(e) /\ e.mode = m THEN seen.text[m] + 1 ELSE seen.text[m]
       /\ seen'.outputs[m] = IF IsWhole(e) /\ e.mode = m THEN e.provider.output ELSE seen.outputs[m]
       /\ seen.text[m] \in Nat

LEMMA BegunModes ==
  ASSUME EngineTypes
  PROVE  Begun \subseteq Modes
<1>1. PICK n \in 0..2 : runs \in [1..n -> RunReports] /\ DOMAIN runs = 1..n
  BY RunsLength
<1>2. \A k \in DOMAIN runs : runs[k].mode \in Modes
  BY <1>1 DEF RunReports
<1>. QED BY <1>2 DEF Begun

LEMMA ReceiveTakes ==
  ASSUME Inv, Receive
  PROVE  \E e \in AssistantEvents : Received(e) /\ Noted(e)
<1>1. aq # <<>> /\ sink = "open" /\ aq' = Tail(aq)
  BY DEF Receive
<1>2. aq \in Seq(AssistantEvents)
  BY DEF Inv, Types, ConsumerTypes
<1>3. PICK e \in AssistantEvents : e = Head(aq)
  BY <1>1, <1>2
<1>4. /\ Len(aq) \in Nat /\ 1 \in 1..Len(aq) /\ aq[1] = e
      /\ aq' \in Seq(AssistantEvents) /\ Len(aq') = Len(aq) - 1
      /\ \A i \in 1..Len(aq') : aq'[i] = aq[i+1] /\ i + 1 \in 1..Len(aq)
  BY <1>1, <1>2, <1>3
<1>5. IsProv(e) => e.mode \in Begun /\ e.mode \in Modes /\ e.provider \in LlmEvents /\ Shaped(e.provider)
  BY <1>4, BegunModes DEF Inv, Types, Passing
<1>6. Received(e)
  BY <1>1, <1>4, <1>5 DEF Received, Receive, providerVars, Inv, Passing
<1>. DEFINE text == IF IsDelta(e) THEN [seen.text EXCEPT ![e.mode] = seen.text[e.mode] + 1] ELSE seen.text
            outputs == IF IsWhole(e) THEN [seen.outputs EXCEPT ![e.mode] = e.provider.output] ELSE seen.outputs
            whole == seen.whole /\ e.seq = seen.next
            late == seen.late \/ seen.terminal # "none"
            terminal == IF e.kind \in ProviderTerminals THEN e.kind ELSE seen.terminal
<1>7. /\ seen \in Sights /\ seen.text \in [Modes -> Nat] /\ seen.outputs \in [Modes -> Nat]
      /\ seen.terminal \in ProviderTerminals \union {"none"}
  BY DEF Inv, Types, ConsumerTypes, Sights
<1>8. seen' = [next |-> e.seq + 1, whole |-> whole, late |-> late, terminal |-> terminal,
               text |-> text, outputs |-> outputs]
  BY <1>3 DEF Receive, IsDelta, IsWhole
<1>9. IsDelta(e) \/ IsWhole(e) => e.mode \in Modes /\ e.provider \in LlmEvents
  BY <1>5 DEF IsDelta, IsWhole, IsProv
<1>10. e.provider \in LlmEvents => e.provider.output \in Nat
  BY DEF LlmEvents
<1>11. text \in [Modes -> Nat] /\ outputs \in [Modes -> Nat]
  <2>1. IsDelta(e) => seen.text[e.mode] + 1 \in Nat
    BY <1>7, <1>9
  <2>2. text \in [Modes -> Nat]
    BY <1>7, <1>9, <2>1
  <2>3. outputs \in [Modes -> Nat]
    BY <1>7, <1>9, <1>10
  <2>. QED BY <2>2, <2>3
<1>12. \A m \in Modes :
         /\ text[m] = IF IsDelta(e) /\ e.mode = m THEN seen.text[m] + 1 ELSE seen.text[m]
         /\ outputs[m] = IF IsWhole(e) /\ e.mode = m THEN e.provider.output ELSE seen.outputs[m]
         /\ seen.text[m] \in Nat
  BY <1>7, <1>9
<1>13. whole \in BOOLEAN /\ late \in BOOLEAN
  <2>1. seen.whole \in BOOLEAN /\ seen.late \in BOOLEAN
    BY <1>7 DEF Sights
  <2>. QED BY <2>1
<1>14. terminal \in ProviderTerminals \union {"none"}
  BY <1>7
<1>15. e.seq + 1 \in Nat
  <2>1. e.seq \in Nat
    BY DEF AssistantEvents
  <2>. QED BY <2>1
<1>. HIDE DEF text, outputs, whole, late, terminal
<1>16. seen' \in Sights
  BY <1>8, <1>11, <1>13, <1>14, <1>15 DEF Sights
<1>17. /\ seen'.next = e.seq + 1 /\ seen'.whole = whole /\ seen'.late = late /\ seen'.terminal = terminal
       /\ seen'.text = text /\ seen'.outputs = outputs
  BY <1>8
<1>18. Noted(e)
  BY <1>12, <1>16, <1>17 DEF Noted, whole, late, terminal
<1>. QED BY <1>6, <1>18

LEMMA ReceivedPassing ==
  ASSUME Inv, NEW e \in AssistantEvents, Received(e), Noted(e)
  PROVE  Passing'
<1>1. Begun' = Begun
  BY BegunSame DEF Received
<1>2. \A i \in 1..Len(aq') : IsProv(aq'[i]) =>
        /\ aq'[i].mode \in Begun' /\ aq'[i].provider \in LlmEvents /\ Shaped(aq'[i].provider)
        /\ apc' = "stream" /\ aq'[i].mode = runs'[index'].mode =>
             /\ aq'[i].provider.seq < validation'.next
             /\ IsTerminal(aq'[i].provider) => validation'.terminals = 1
  BY <1>1 DEF Received, Inv, Passing
<1>3. ASSUME NEW i \in 1..Len(aq'), NEW j \in 1..Len(aq'), i < j, IsProv(aq'[i]), IsProv(aq'[j]),
             aq'[i].mode = aq'[j].mode
      PROVE  ~IsTerminal(aq'[i].provider) /\ aq'[j].provider.seq # 0
  <2>1. i + 1 < j + 1
    BY <1>3
  <2>2. /\ aq'[i] = aq[i+1] /\ i + 1 \in 1..Len(aq)
        /\ aq'[j] = aq[j+1] /\ j + 1 \in 1..Len(aq)
    BY DEF Received
  <2>3. ASSUME NEW a \in 1..Len(aq), NEW b \in 1..Len(aq), a < b, IsProv(aq[a]), IsProv(aq[b]), aq[a].mode = aq[b].mode
        PROVE  ~IsTerminal(aq[a].provider) /\ aq[b].provider.seq # 0
    BY <2>3 DEF Inv, Passing
  <2>. QED BY <1>3, <2>1, <2>2, <2>3
<1>4. \A m \in Modes : seen'.text[m] # 0 => m \in Begun'
  <2>1. ASSUME NEW m \in Modes, seen'.text[m] # 0 PROVE m \in Begun
    <3>1. seen.text[m] # 0 \/ (IsDelta(e) /\ e.mode = m)
      BY <2>1 DEF Noted
    <3>2. IsDelta(e) => e.mode \in Begun
      BY DEF Received, IsDelta, IsProv
    <3>. QED BY <3>1, <3>2 DEF Inv, Passing
  <2>. QED BY <1>1, <2>1
<1>5. opts'.protocol /\ sink' = "open"
  BY DEF Received
<1>. QED BY <1>2, <1>3, <1>4, <1>5 DEF Passing

(* An event behind the first one, of the same run.                          *)
LEMMA Following ==
  ASSUME Inv, NEW e \in AssistantEvents, Received(e), NEW i \in 1..Len(aq'), IsProv(e), IsProv(aq'[i]), aq'[i].mode = e.mode
  PROVE  ~IsTerminal(e.provider) /\ aq'[i].provider.seq # 0
<1>1. aq'[i] = aq[i+1] /\ i + 1 \in 1..Len(aq) /\ 1 \in 1..Len(aq) /\ aq[1] = e
  BY DEF Received
<1>2. 1 < i + 1
  OBVIOUS
<1>3. ASSUME NEW a \in 1..Len(aq), NEW b \in 1..Len(aq), a < b, IsProv(aq[a]), IsProv(aq[b]), aq[a].mode = aq[b].mode
      PROVE  ~IsTerminal(aq[a].provider) /\ aq[b].provider.seq # 0
  BY <1>3 DEF Inv, Passing
<1>. QED BY <1>1, <1>2, <1>3

(* What the consumer has of a run once the first event is an event of it.   *)
LEMMA ReceivedText ==
  ASSUME Inv, Chain, NEW e \in AssistantEvents, Received(e), Noted(e), IsProv(e)
  PROVE  /\ e.provider.type \in {"started", "delta"} => seen'.text[e.mode] = e.provider.seq
         /\ e.provider.type = "completed" =>
              seen'.text[e.mode] = e.provider.output /\ seen'.outputs[e.mode] = e.provider.output
<1>1. IF e.provider.seq = 0 THEN seen.text[e.mode] = 0 ELSE seen.text[e.mode] = e.provider.seq - 1
  BY DEF Received, Chain
<1>2. /\ e.mode \in Modes /\ Shaped(e.provider) /\ e.provider \in LlmEvents
      /\ seen.text[e.mode] \in Nat
      /\ seen'.text[e.mode] = IF IsDelta(e) THEN seen.text[e.mode] + 1 ELSE seen.text[e.mode]
      /\ seen'.outputs[e.mode] = IF IsWhole(e) THEN e.provider.output ELSE seen.outputs[e.mode]
  BY DEF Received, Noted
<1>3. e.provider.seq \in Nat
  BY <1>2 DEF LlmEvents
<1>4. CASE e.provider.type = "started"
  <2>1. e.provider.seq = 0 /\ ~IsDelta(e) /\ ~IsWhole(e)
    BY <1>2, <1>4 DEF Shaped, IsDelta, IsWhole
  <2>. QED BY <1>1, <1>2, <1>4, <2>1
<1>5. CASE e.provider.type = "delta"
  <2>1. e.provider.seq >= 1 /\ IsDelta(e)
    BY <1>2, <1>5 DEF Shaped, IsDelta, IsProv
  <2>2. seen.text[e.mode] = e.provider.seq - 1
    BY <1>1, <1>3, <2>1
  <2>3. seen'.text[e.mode] = seen.text[e.mode] + 1
    BY <1>2, <2>1
  <2>4. seen'.text[e.mode] = e.provider.seq
    BY <1>2, <1>3, <2>2, <2>3
  <2>. QED BY <1>5, <2>4
<1>6. CASE e.provider.type = "completed"
  <2>1. e.provider.seq >= 1 /\ e.provider.output = e.provider.seq - 1 /\ ~IsDelta(e) /\ IsWhole(e)
    BY <1>2, <1>6 DEF Shaped, IsDelta, IsWhole, IsProv
  <2>2. seen.text[e.mode] = e.provider.seq - 1
    BY <1>1, <1>3, <2>1
  <2>. QED BY <1>2, <1>6, <2>1, <2>2
<1>. QED BY <1>4, <1>5, <1>6

LEMMA ReceivedChain ==
  ASSUME Inv, Chain, NEW e \in AssistantEvents, Received(e), Noted(e)
  PROVE  Chain'
<1>. SUFFICES ASSUME NEW i \in 1..Len(aq'), IsProv(aq'[i])
              PROVE  IF aq'[i].provider.seq = 0 THEN seen'.text[aq'[i].mode] = 0
                     ELSE IF i = 1 THEN seen'.text[aq'[i].mode] = aq'[i].provider.seq - 1
                     ELSE /\ IsProv(aq'[i-1]) /\ aq'[i-1].mode = aq'[i].mode
                          /\ aq'[i-1].provider.seq = aq'[i].provider.seq - 1
  BY DEF Chain
<1>0. PICK f, j : f = aq'[i] /\ j = i + 1 /\ f = aq[j] /\ j \in 1..Len(aq)
  BY DEF Received
<1>1. IF f.provider.seq = 0 THEN seen.text[f.mode] = 0
      ELSE IF j = 1 THEN seen.text[f.mode] = f.provider.seq - 1
      ELSE /\ IsProv(aq[j-1]) /\ aq[j-1].mode = f.mode
           /\ aq[j-1].provider.seq = f.provider.seq - 1
  BY <1>0 DEF Chain
<1>2. j # 1 /\ j - 1 = i
  BY <1>0
<1>3. f.mode \in Modes /\ f.provider \in LlmEvents /\ f.provider.seq \in Nat
  <2>1. f.mode \in Modes /\ f.provider \in LlmEvents
    BY <1>0, BegunModes DEF Inv, Types, Passing
  <2>. QED BY <2>1 DEF LlmEvents
<1>4. IsProv(e) /\ e.mode = f.mode => ~IsTerminal(e.provider) /\ f.provider.seq # 0
  BY <1>0, Following
<1>5. CASE f.provider.seq = 0
  <2>1. ~(IsDelta(e) /\ e.mode = f.mode)
    BY <1>4, <1>5 DEF IsDelta, IsProv
  <2>2. seen'.text[f.mode] = seen.text[f.mode]
    BY <1>3, <2>1 DEF Noted
  <2>. QED BY <1>0, <1>1, <1>5, <2>2
<1>6. CASE f.provider.seq # 0 /\ i = 1
  <2>1. IsProv(e) /\ e.mode = f.mode /\ e.provider.seq = f.provider.seq - 1
    BY <1>1, <1>2, <1>6 DEF Received
  <2>2. e.provider.type \in {"started", "delta"}
    BY <1>4, <2>1 DEF IsTerminal, Received, LlmEvents
  <2>3. seen'.text[e.mode] = e.provider.seq
    BY <2>1, <2>2, ReceivedText
  <2>. QED BY <1>0, <1>6, <2>1, <2>3
<1>7. CASE f.provider.seq # 0 /\ i # 1
  <2>1. i - 1 \in 1..Len(aq') /\ (i - 1) + 1 = i
    BY <1>7
  <2>2. aq'[i-1] = aq[i]
    BY <2>1 DEF Received
  <2>. QED BY <1>0, <1>1, <1>2, <1>7, <2>2
<1>. QED BY <1>0, <1>5, <1>6, <1>7

LEMMA ReceivedChainEnd ==
  ASSUME Inv, Chain, ChainEnd, NEW e \in AssistantEvents, Received(e), Noted(e)
  PROVE  ChainEnd'
<1>. SUFFICES ASSUME apc = "stream", validation.next >= 1, validation.terminals = 0
              PROVE  IF aq' = <<>> THEN seen'.text[runs[index].mode] = validation.next - 1
                     ELSE /\ IsProv(aq'[Len(aq')]) /\ aq'[Len(aq')].mode = runs[index].mode
                          /\ aq'[Len(aq')].provider.seq = validation.next - 1
  BY DEF Received, ChainEnd
<1>0. aq # <<>>
  BY DEF Received
<1>1. PICK f, n : /\ n = Len(aq) /\ n \in Nat /\ f = aq[n] /\ IsProv(f) /\ f.mode = runs[index].mode
                  /\ f.provider.seq = validation.next - 1
  BY <1>0 DEF Received, ChainEnd
<1>2. CASE aq' = <<>>
  <2>1. Len(aq') = 0
    BY <1>2
  <2>2. n = 1
    <3>1. PICK k \in Nat : k = n /\ Len(aq') = k - 1
      BY <1>1 DEF Received
    <3>2. k - 1 = 0
      BY <2>1, <3>1
    <3>. QED BY <3>1, <3>2
  <2>3. f = e
    BY <1>1, <2>2 DEF Received
  <2>4. ~IsTerminal(f.provider) /\ f.provider \in LlmEvents
    <3>1. n \in 1..Len(aq)
      BY <1>1, <2>2 DEF Received
    <3>. QED BY <1>1, <3>1 DEF Inv, Passing
  <2>5. f.provider.type \in {"started", "delta"}
    BY <2>4 DEF IsTerminal, LlmEvents
  <2>6. seen'.text[f.mode] = f.provider.seq
    BY <1>1, <2>3, <2>5, ReceivedText
  <2>. QED BY <1>1, <1>2, <2>6
<1>3. CASE aq' # <<>>
  <2>1. PICK k \in Nat : k = Len(aq') /\ k # 0 /\ k = n - 1
    BY <1>1, <1>3, EmptySeq DEF Received
  <2>2. PICK j \in Nat : j = n /\ k = j - 1
    BY <1>1, <2>1
  <2>3. k \in 1..k /\ k + 1 = j
    BY <2>1, <2>2
  <2>4. aq'[Len(aq')] = f
    BY <1>1, <2>1, <2>2, <2>3 DEF Received
  <2>. QED BY <1>1, <1>3, <2>4
<1>. QED BY <1>2, <1>3

LEMMA ReceivedArrives ==
  ASSUME Inv, Chain, NEW e \in AssistantEvents, Received(e), Noted(e), NEW m \in Modes, NEW n, Arrives(m, n)
  PROVE  Arrives(m, n)'
<1>1. CASE /\ seen.text[m] = n /\ seen.outputs[m] = n
           /\ \A i \in 1..Len(aq) : IsProv(aq[i]) => aq[i].mode # m
  <2>1. ~(IsDelta(e) /\ e.mode = m) /\ ~(IsWhole(e) /\ e.mode = m)
    BY <1>1 DEF Received, IsDelta, IsWhole, IsProv
  <2>2. seen'.text[m] = n /\ seen'.outputs[m] = n
    BY <1>1, <2>1 DEF Noted
  <2>3. \A i \in 1..Len(aq') : IsProv(aq'[i]) => aq'[i].mode # m
    BY <1>1 DEF Received
  <2>. QED BY <2>2, <2>3 DEF Arrives
<1>2. ASSUME NEW i \in 1..Len(aq), IsProv(aq[i]), aq[i].mode = m, aq[i].provider.type = "completed", aq[i].provider.output = n
      PROVE  Arrives(m, n)'
  <2>1. CASE i = 1
    <3>1. e = aq[i] /\ IsProv(e) /\ e.mode = m
      BY <1>2, <2>1 DEF Received
    <3>2. seen'.text[m] = n /\ seen'.outputs[m] = n
      BY <1>2, <3>1, ReceivedText
    <3>3. IsTerminal(e.provider)
      BY <1>2, <3>1 DEF IsTerminal, ProviderTerminals
    <3>4. \A j \in 1..Len(aq') : IsProv(aq'[j]) => aq'[j].mode # m
      BY <3>1, <3>3, Following
    <3>. QED BY <3>2, <3>4 DEF Arrives
  <2>2. CASE i # 1
    <3>1. PICK j : j = i - 1
      OBVIOUS
    <3>2. j \in 1..Len(aq') /\ j + 1 = i
      BY <2>2, <3>1 DEF Received
    <3>3. aq'[j] = aq[i]
      BY <3>2 DEF Received
    <3>. QED BY <1>2, <3>2, <3>3 DEF Arrives
  <2>. QED BY <2>1, <2>2
<1>. QED BY <1>1, <1>2 DEF Arrives

LEMMA ReceivedTerminal ==
  ASSUME Inv, NEW e \in AssistantEvents, Received(e), Noted(e)
  PROVE  Terminal'
<1>0. seen.terminal = "none" /\ ~seen.late /\ aq # <<>>
  BY DEF Received, Inv, Terminal
<1>1. ~seen'.late
  BY <1>0 DEF Noted
<1>2. ASSUME NEW i \in 1..Len(aq'), aq'[i].kind \in ProviderTerminals
      PROVE  i = Len(aq') /\ apc = "returned" /\ Final(aq'[i].kind)
  <2>1. PICK j : j = i + 1 /\ j \in 1..Len(aq) /\ aq'[i] = aq[j]
    BY DEF Received
  <2>2. j = Len(aq) /\ apc = "returned" /\ Final(aq'[i].kind)
    BY <1>2, <2>1 DEF Inv, Terminal
  <2>3. i = Len(aq')
    BY <2>1, <2>2 DEF Received
  <2>. QED BY <2>2, <2>3
<1>3. e.kind \in ProviderTerminals => aq' = <<>> /\ apc = "returned" /\ Final(e.kind) /\ Len(aq) = 1
  <2>1. e.kind \in ProviderTerminals => Len(aq) = 1 /\ apc = "returned" /\ Final(e.kind)
    BY DEF Received, Inv, Terminal
  <2>2. Len(aq) = 1 => Len(aq') = 0
    <3>1. PICK n \in Nat : n = Len(aq) /\ Len(aq') = n - 1
      BY DEF Received
    <3>. QED BY <3>1
  <2>. QED BY <2>1, <2>2, EmptySeq DEF Received
<1>4. seen'.terminal # "none" => e.kind \in ProviderTerminals /\ seen'.terminal = e.kind
  BY <1>0 DEF Noted
<1>5. UNCHANGED <<ret, cancelled, opts, index, errors, runs, apc>>
  BY DEF Received
<1>6. ASSUME e.kind = "completed", ~NothingAsked, NEW k \in DOMAIN runs
      PROVE  /\ runs[k].generated
             /\ seen'.text[runs[k].mode] = runs[k].output /\ seen'.outputs[runs[k].mode] = runs[k].output
  <2>1. Len(aq) = 1 /\ Final(e.kind)
    BY <1>3, <1>6 DEF ProviderTerminals
  <2>2. errors = <<>> /\ runs[k].generated
    BY <1>6, <2>1 DEF Final
  <2>3. Arrives(runs[k].mode, runs[k].output)
    BY <2>2 DEF Inv, Delivery, Clean, Received
  <2>4. \A i \in 1..Len(aq) : ~IsProv(aq[i])
    <3>1. \A i \in 1..Len(aq) : i = 1
      BY <2>1
    <3>. QED BY <1>6, <3>1 DEF Received, IsProv
  <2>5. seen.text[runs[k].mode] = runs[k].output /\ seen.outputs[runs[k].mode] = runs[k].output
    BY <2>3, <2>4 DEF Arrives
  <2>6. runs[k].mode \in Modes
    <3>1. PICK n \in 0..2 : runs \in [1..n -> RunReports] /\ DOMAIN runs = 1..n
      BY RunsLength DEF Inv, Types
    <3>. QED BY <3>1 DEF RunReports
  <2>7. ~IsDelta(e) /\ ~IsWhole(e)
    BY <1>6 DEF IsDelta, IsWhole
  <2>. QED BY <2>2, <2>5, <2>6, <2>7 DEF Noted
<1>7. seen'.terminal = "completed" => NothingAsked \/ \A k \in DOMAIN runs :
        /\ runs[k].generated
        /\ seen'.text[runs[k].mode] = runs[k].output /\ seen'.outputs[runs[k].mode] = runs[k].output
  BY <1>4, <1>6
<1>8. seen'.terminal # "none" => aq' = <<>> /\ apc = "returned" /\ Final(seen'.terminal)
  BY <1>3, <1>4
<1>. QED BY <1>1, <1>2, <1>5, <1>7, <1>8 DEF Terminal, Final, NothingAsked

LEMMA ReceivedGapless ==
  ASSUME Inv, NEW e \in AssistantEvents, Received(e), Noted(e)
  PROVE  Gapless'
<1>. SUFFICES ASSUME Lossless
              PROVE  /\ seen'.whole /\ sink' = "open" /\ aseq' = seen'.next + Len(aq')
                     /\ \A i \in 1..Len(aq') : aq'[i].seq = seen'.next + i - 1
                     /\ apc' = "returned" /\ opts'.protocol =>
                          seen'.terminal # "none" \/ (aq' # <<>> /\ aq'[Len(aq')].kind \in ProviderTerminals)
  BY DEF Received, Gapless, Lossless
<1>0. /\ seen.whole /\ aseq = seen.next + Len(aq)
      /\ \A i \in 1..Len(aq) : aq[i].seq = seen.next + i - 1
      /\ apc = "returned" /\ opts.protocol =>
           seen.terminal # "none" \/ (aq # <<>> /\ aq[Len(aq)].kind \in ProviderTerminals)
  BY DEF Inv, Gapless
<1>1. seen.next \in Nat /\ Len(aq) \in Nat /\ Len(aq') = Len(aq) - 1
  BY DEF Inv, Types, ConsumerTypes, Sights, Received
<1>2. e.seq = seen.next
  <2>1. e.seq = seen.next + 1 - 1
    BY <1>0 DEF Received
  <2>. QED BY <1>1, <2>1
<1>3. seen'.whole /\ seen'.next = seen.next + 1
  BY <1>0, <1>2 DEF Noted
<1>4. aseq' = seen'.next + Len(aq')
  <2>1. aseq' = seen.next + Len(aq)
    BY <1>0 DEF Received
  <2>. QED BY <1>1, <1>3, <2>1
<1>5. ASSUME NEW i \in 1..Len(aq') PROVE aq'[i].seq = seen'.next + i - 1
  <2>1. aq'[i].seq = seen.next + (i + 1) - 1
    BY <1>0 DEF Received
  <2>. QED BY <1>1, <1>3, <2>1
<1>6. ASSUME apc = "returned", opts.protocol
      PROVE  seen'.terminal # "none" \/ (aq' # <<>> /\ aq'[Len(aq')].kind \in ProviderTerminals)
  <2>1. aq[Len(aq)].kind \in ProviderTerminals
    BY <1>0, <1>6 DEF Inv, Terminal, Received
  <2>2. CASE Len(aq) = 1
    <3>1. e.kind \in ProviderTerminals
      BY <2>1, <2>2 DEF Received
    <3>2. seen'.terminal = e.kind
      BY <3>1 DEF Noted
    <3>. QED BY <3>1, <3>2 DEF ProviderTerminals
  <2>3. CASE Len(aq) # 1
    <3>1. Len(aq') \in Nat /\ Len(aq') \in 1..Len(aq') /\ Len(aq') + 1 = Len(aq) /\ Len(aq') # 0
      BY <1>1, <2>3 DEF Received
    <3>2. aq'[Len(aq')] = aq[Len(aq)]
      BY <3>1 DEF Received
    <3>3. aq' # <<>>
      BY <3>1
    <3>. QED BY <2>1, <3>2, <3>3
  <2>. QED BY <2>2, <2>3
<1>. QED BY <1>3, <1>4, <1>5, <1>6 DEF Received

LEMMA ReceiveKept ==
  ASSUME Inv, Receive
  PROVE  Inv'
<1>1. PICK e \in AssistantEvents : Received(e) /\ Noted(e)
  BY ReceiveTakes
<1>2. UNCHANGED <<cancelled, prov, pq, chunks, opts, runs, index, errors, held, validation, aseq, sink, losses, apc, ret>>
  BY <1>1 DEF Received
<1>3. ProviderKept
  BY <1>2, ProviderSame DEF Inv
<1>4. EngineTypes' /\ Control'
  BY <1>2 DEF Inv, Types, EngineTypes, Control, EarlyPoints
<1>5. ConsumerTypes'
  <2>1. Len(aq') <= AssistantCapacity
    <3>1. Len(aq) <= AssistantCapacity /\ Len(aq) \in Nat /\ Len(aq') = Len(aq) - 1 /\ AssistantCapacity \in Nat
      BY <1>1, AssistantAssumption DEF Received, Inv, Types, ConsumerTypes
    <3>. QED BY <3>1
  <2>. QED BY <1>1, <1>2, <2>1 DEF Received, Noted, Inv, Types, ConsumerTypes
<1>6. Passing' /\ Terminal' /\ Gapless'
  BY <1>1, ReceivedPassing, ReceivedTerminal, ReceivedGapless
<1>7. Delivery'
  <2>. SUFFICES ASSUME Clean', opts'.protocol
                PROVE  /\ Chain' /\ ChainEnd'
                       /\ \A k \in DOMAIN runs' : runs'[k].generated => Arrives(runs[k].mode, runs[k].output)'
                       /\ apc' = "stream" /\ validation'.terminals = 1 /\ prov'.res = "ok" =>
                            Arrives(runs[index].mode, prov.out)'
    BY DEF Delivery
  <2>1. Clean /\ opts.protocol
    BY <1>2 DEF Clean
  <2>2. Chain /\ ChainEnd
    BY <2>1 DEF Inv, Delivery
  <2>3. Chain' /\ ChainEnd'
    BY <1>1, <2>2, ReceivedChain, ReceivedChainEnd
  <2>4. \A k \in DOMAIN runs : runs[k].mode \in Modes
    <3>1. PICK n \in 0..2 : runs \in [1..n -> RunReports] /\ DOMAIN runs = 1..n
      BY RunsLength DEF Inv, Types
    <3>. QED BY <3>1 DEF RunReports
  <2>5. ASSUME NEW k \in DOMAIN runs, runs[k].generated PROVE Arrives(runs[k].mode, runs[k].output)'
    <3>1. PICK m \in Modes, n \in {runs[k].output} : m = runs[k].mode /\ Arrives(m, n)
      BY <2>1, <2>4, <2>5 DEF Inv, Delivery
    <3>2. Arrives(m, n)'
      BY <1>1, <2>2, <3>1, ReceivedArrives
    <3>. QED BY <1>2, <3>1, <3>2 DEF Arrives
  <2>6. ASSUME apc = "stream", validation.terminals = 1, prov.res = "ok" PROVE Arrives(runs[index].mode, prov.out)'
    <3>0. index \in DOMAIN runs
      BY <2>6 DEF Inv, Control
    <3>1. PICK m \in Modes, n \in {prov.out} : m = runs[index].mode /\ Arrives(m, n)
      BY <2>1, <2>4, <2>6, <3>0 DEF Inv, Delivery
    <3>2. Arrives(m, n)'
      BY <1>1, <2>2, <3>1, ReceivedArrives
    <3>. QED BY <1>2, <3>1, <3>2 DEF Arrives
  <2>. QED BY <1>2, <2>3, <2>5, <2>6
<1>. QED BY <1>3, <1>4, <1>5, <1>6, <1>7 DEF Inv, Types, ProviderKept

LEMMA LeaveKept ==
  ASSUME Inv, Leave
  PROVE  Inv'
<1>1. /\ opts.protocol /\ sink' = "closed" /\ aq' = <<>> /\ losses' = losses + 1
      /\ UNCHANGED <<cancelled, prov, pq, chunks, opts, runs, index, errors, held, validation, aseq, apc, seen, ret>>
  BY DEF Leave, providerVars
<1>2. ProviderKept /\ Begun' = Begun
  BY <1>1, ProviderSame, BegunSame DEF Inv
<1>3. EngineTypes' /\ Control'
  BY <1>1 DEF Inv, Types, EngineTypes, Control, EarlyPoints
<1>4. losses' \in Nat /\ losses' # 0
  BY <1>1 DEF Inv, Types, ConsumerTypes
<1>5. aq' \in Seq(AssistantEvents) /\ Len(aq') = 0 /\ 0 <= AssistantCapacity
  BY <1>1, AssistantAssumption
<1>6. ConsumerTypes'
  BY <1>1, <1>4, <1>5 DEF Inv, Types, ConsumerTypes
<1>7. \A m \in Modes : seen.text[m] # 0 => m \in Begun
  BY DEF Inv, Passing
<1>8. Passing'
  BY <1>1, <1>2, <1>5, <1>7 DEF Passing
<1>9. Delivery'
  BY <1>1 DEF Delivery, Clean
<1>10. Terminal'
  BY <1>1, <1>5 DEF Inv, Terminal, Final, NothingAsked
<1>11. Gapless'
  BY <1>4 DEF Gapless, Lossless
<1>. QED BY <1>2, <1>3, <1>6, <1>8, <1>9, <1>10, <1>11 DEF Inv, Types, ProviderKept

LEMMA CancelKept ==
  ASSUME Inv, Cancel
  PROVE  Inv'
<1>1. cancelled' = TRUE /\ UNCHANGED <<prov, pq, chunks, apc, seen, ret>> /\ apc # "returned"
  BY DEF Cancel
<1>2. UNCHANGED <<opts, runs, index, errors, held, validation, aseq, aq, sink, losses>>
  BY DEF Cancel, assistantVars
<1>3. ProviderTypes' /\ Counted' /\ Contract'
  BY <1>1, <1>2 DEF Inv, Types, ProviderTypes, Counted, Contract, Taken, LastWord
<1>4. EngineTypes' /\ Control' /\ ConsumerTypes'
  BY <1>1, <1>2 DEF Inv, Types, EngineTypes, Control, EarlyPoints, ConsumerTypes
<1>5. Begun' = Begun
  BY <1>2, BegunSame
<1>6. Passing' /\ Delivery'
  BY <1>1, <1>2, <1>5 DEF Inv, Passing, Delivery, Clean, Chain, ChainEnd, Arrives
<1>7. Terminal' /\ Gapless'
  BY <1>1, <1>2, TerminalSilent, GaplessSilent DEF Inv
<1>. QED BY <1>3, <1>4, <1>6, <1>7 DEF Inv, Types

LEMMA InvSame ==
  ASSUME Inv, UNCHANGED streamVars
  PROVE  Inv'
<1>1. /\ UNCHANGED <<cancelled, prov, pq, chunks, opts, runs, index, errors, held, validation>>
      /\ UNCHANGED <<aseq, aq, sink, losses, apc, seen, ret>>
  BY DEF streamVars, providerVars, assistantVars
<1>2. ProviderKept /\ Begun' = Begun
  BY <1>1, ProviderSame, BegunSame DEF Inv
<1>3. EngineTypes' /\ Control' /\ ConsumerTypes'
  BY <1>1 DEF Inv, Types, EngineTypes, Control, EarlyPoints, ConsumerTypes
<1>4. Passing' /\ Delivery'
  BY <1>1, <1>2 DEF Inv, Passing, Delivery, Clean, Chain, ChainEnd, Arrives
<1>5. Terminal' /\ Gapless'
  BY <1>1 DEF Inv, Terminal, Final, NothingAsked, Gapless, Lossless
<1>. QED BY <1>2, <1>3, <1>4, <1>5 DEF Inv, Types, ProviderKept

-----------------------------------------------------------------------------
LEMMA InvInit == StreamInit => Inv
<1>. SUFFICES ASSUME StreamInit PROVE Inv
  OBVIOUS
<1>1. /\ cancelled = FALSE /\ prov = NewStream("idle") /\ pq = <<>> /\ chunks = 0
      /\ opts \in Options /\ apc = "started" /\ runs = <<>> /\ index = 0 /\ errors = <<>>
      /\ held = NoEvent /\ validation = NoValidation /\ aseq = 0 /\ aq = <<>>
      /\ sink = "open" /\ losses = 0 /\ ret = "none"
      /\ seen = [next |-> 0, whole |-> TRUE, late |-> FALSE, terminal |-> "none",
                 text |-> [m \in Modes |-> 0], outputs |-> [m \in Modes |-> 0]]
  BY AssistantAssumption DEF StreamInit, ProviderInit
<1>2. prov \in Streams /\ prov.pc = "idle" /\ prov.res = "none"
  BY <1>1, NewStreamType
<1>3. Len(pq) = 0 /\ Len(aq) = 0 /\ Len(runs) = 0 /\ DOMAIN runs = {} /\ DOMAIN errors = {}
  BY <1>1
<1>4. ProviderTypes
  <2>1. 0 \in 0..MaxChunks /\ 0 <= ProviderCapacity
    BY ProviderAssumption
  <2>2. pq \in Seq(LlmEvents)
    BY <1>1
  <2>. QED BY <1>1, <1>2, <1>3, <2>1, <2>2 DEF ProviderTypes
<1>5. EngineTypes
  <2>1. runs \in [1..0 -> RunReports]
    BY <1>1
  <2>. QED BY <1>1, <1>3, <2>1 DEF EngineTypes, Points, NoValidation
<1>6. seen \in Sights /\ seen.terminal = "none" /\ seen.late = FALSE /\ seen.whole = TRUE /\ seen.next = 0
  BY <1>1 DEF Sights
<1>7. \A m \in Modes : seen.text[m] = 0
  BY <1>1
<1>8. ConsumerTypes
  BY <1>1, <1>3, <1>6, AssistantAssumption DEF ConsumerTypes
<1>9. Counted
  BY <1>1, <1>2 DEF Counted
<1>10. ~IsTerminal(held) /\ validation.terminals = 0
  BY <1>1 DEF IsTerminal, NoEvent, ProviderTerminals, NoValidation
<1>11. Contract
  BY <1>1, <1>2, <1>3, <1>10 DEF Contract
<1>12. Control
  BY <1>1, <1>2, <1>3 DEF Control
<1>13. Passing
  BY <1>1, <1>3, <1>7 DEF Passing
<1>14. Delivery
  BY <1>1, <1>3, <1>10 DEF Delivery, Chain, ChainEnd
<1>15. Terminal
  BY <1>3, <1>6 DEF Terminal
<1>16. Gapless
  BY <1>1, <1>3, <1>6 DEF Gapless
<1>. QED BY <1>4, <1>5, <1>8, <1>9, <1>11, <1>12, <1>13, <1>14, <1>15, <1>16 DEF Inv, Types

LEMMA InvNext == Inv /\ [StreamNext]_streamVars => Inv'
<1>. SUFFICES ASSUME Inv, [StreamNext]_streamVars PROVE Inv'
  OBVIOUS
<1>1. CASE UNCHANGED streamVars
  BY <1>1, InvSame
<1>2. CASE Rested
  BY <1>2, InvSame DEF Rested
<1>3. CASE SendStarted \/ PrepareContext \/ PrepareFails \/ SendPrepared
  BY <1>3, SendStartedKept, PrepareKept, PrepareFailsKept, SendPreparedKept
<1>4. CASE Decide \/ Preflight \/ NextPrompt \/ Generate
  BY <1>4, DecideKept, PreflightKept, NextPromptKept, GenerateKept
<1>5. CASE Provider \/ TakeEvent \/ Forward \/ EndStream \/ SendFinal
  BY <1>5, ProviderActionKept, TakeEventKept, ForwardKept, EndStreamKept, SendFinalKept
<1>6. CASE Receive \/ Leave \/ Cancel
  BY <1>6, ReceiveKept, LeaveKept, CancelKept
<1>. QED BY <1>1, <1>2, <1>3, <1>4, <1>5, <1>6 DEF StreamNext, Engine

LEMMA InvAlways == StreamSpec => []Inv
BY InvInit, InvNext, PTL DEF StreamSpec

(* The events of a command are one well-formed stream, whatever the server   *)
(* sends, wherever the token is cancelled and however long the channels are: *)
(* no event of the provider is ever refused by                               *)
(* validate_and_forward_provider_event, a consumer that loses nothing sees   *)
(* the numbers without a gap and exactly one terminal event, of the kind     *)
(* execute_assistant returns, and sees "cancelled" only for a cancelled      *)
(* token.                                                                    *)
THEOREM StreamIsSoundHolds == StreamSpec => []StreamIsSound
<1>1. Inv => StreamIsSound
  <2>. SUFFICES ASSUME Inv PROVE StreamIsSound
    OBVIOUS
  <2>1. StreamTypeOK
    <3>1. ProviderTypeOK
      BY DEF Inv, Types, ProviderTypes, Streams, ProviderTypeOK
    <3>2. Len(runs) <= 2
      <4>1. PICK n \in 0..2 : Len(runs) = n
        BY RunsLength DEF Inv, Types
      <4>. QED BY <4>1
    <3>. QED BY <3>1, <3>2 DEF Inv, Types, EngineTypes, ConsumerTypes, Points, StreamTypeOK
  <2>2. ASSUME Lossless, apc = "returned", aq = <<>>, opts.protocol
        PROVE  seen.terminal \in (IF ret = "error" THEN {"failed", "cancelled"} ELSE {ret})
    <3>1. seen.terminal # "none" /\ Final(seen.terminal)
      BY <2>2 DEF Inv, Gapless, Terminal
    <3>2. seen.terminal \in ProviderTerminals
      BY <3>1 DEF Inv, Types, ConsumerTypes, Sights
    <3>. QED BY <3>1, <3>2 DEF Final, ProviderTerminals
  <2>3. StreamIsWhole
    BY <2>2 DEF Inv, Gapless, Terminal, StreamIsWhole
  <2>4. NeverRefused
    BY DEF Inv, Contract, NeverRefused, EventAccepted
  <2>5. CancelledForCause
    BY DEF Inv, Terminal, Final, CancelledForCause
  <2>. QED BY <2>1, <2>3, <2>4, <2>5 DEF StreamIsSound
<1>. QED BY <1>1, InvAlways, PTL

(* Whatever is lost on the way, a consumer that found no gap and saw the     *)
(* command complete has the whole text of every run execute_assistant        *)
(* reports, and the output each terminal event of the provider announced.    *)
THEOREM CompletedIsWholeHolds == StreamSpec => []CompletedIsWhole
<1>1. Inv => CompletedIsWhole
  <2>. SUFFICES ASSUME Inv, seen.terminal = "completed", ~\A i \in DOMAIN runs :
                         LET r == runs[i] IN
                         r.generated /\ seen.text[r.mode] = r.output /\ seen.outputs[r.mode] = r.output
                PROVE  opts.mode = "compare" /\ ~opts.compareGenerate /\ seen.text = [m \in Modes |-> 0]
    BY DEF CompletedIsWhole
  <2>1. NothingAsked
    BY DEF Inv, Terminal
  <2>2. Begun = {}
    <3>1. PICK n \in 0..2 : DOMAIN runs = 1..n
      BY RunsLength DEF Inv, Types
    <3>. QED BY <2>1, <3>1 DEF Begun, NothingAsked
  <2>3. \A m \in Modes : seen.text[m] = 0
    BY <2>2 DEF Inv, Passing
  <2>4. seen.text \in [Modes -> Nat]
    BY DEF Inv, Types, ConsumerTypes, Sights
  <2>. QED BY <2>1, <2>3, <2>4 DEF NothingAsked
<1>. QED BY <1>1, InvAlways, PTL

=============================================================================
