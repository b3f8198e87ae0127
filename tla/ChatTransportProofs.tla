------------------------ MODULE ChatTransportProofs ------------------------
(* ChatTransport and ChatRuntime: what is shown is grounded, within the     *)
(* scope and not stale, a cancelled request is not reported as completed,   *)
(* and the client settles with what the process decided, for any request,   *)
(* any files and any number of changes to them.                             *)
EXTENDS ChatTransport, FiniteSetTheorems, SequenceTheorems, NaturalsInduction,
        WellFoundedInduction, TLAPS

-----------------------------------------------------------------------------
(* The inductive invariant, first of the runtime.  Each part is a predicate *)
(* of the local state r.                                                    *)
Entry == {"setup", "validate", "authorize", "accepted"}
Early == Entry \union
  {"read", "reread", "prepared", "context", "facts", "provider", "generate", "local", "edit",
   "edited"}
Late == {"assistant", "text", "finish", "completed", "done"}
Places == Early \union {"generated", "check", "revalidate"} \union Late

Snapshots == [path : Paths, ver : Nat, lo : Nat, hi : Nat]

LocalFields ==
  {"pc", "ix", "first", "snaps", "refused", "kept", "turns", "prompt", "asked", "answer",
   "route", "left", "res", "seq", "texts", "status"}

Shaped(r) ==
  /\ LocalFields \subseteq DOMAIN r
  /\ r.pc \in Places
  /\ r.ix \in Nat \ {0} /\ r.snaps \in Seq(Snapshots)
  /\ r.left \in 0..TextChunks /\ r.texts \in 0..TextChunks
  /\ r.status \in {"none"} \union ChatTerminals
  /\ r.status # "none" => r.pc = "done"
  /\ r.refused \in 0..Len(req.refs) /\ r.kept \in 0..req.maxBytes

(* How far the references have been read.                                   *)
Reading(r) ==
  /\ r.pc \in Entry => r.ix = 1 /\ r.refused = 0
  /\ r.pc \in {"read", "reread"} => r.ix <= Len(req.refs) + 1 /\ r.refused < r.ix
  /\ r.pc = "reread" =>
       /\ r.ix <= Len(req.refs)
       /\ r.first \in Versions /\ RangeExists(req.refs[r.ix], r.first)
  /\ r.pc \notin {"setup", "validate", "finish", "completed", "done"} =>
       Len(req.refs) <= req.maxRefs /\ req.command \in Commands \ {"unknown"}

(* The lines an answer cites are numbers, whatever a model writes.          *)
Numbered(a) ==
  /\ Len(a.claims) \in Nat
  /\ \A i \in 1..Len(a.claims) : \A c \in a.claims[i].evidence : c.lo \in Int /\ c.hi \in Int

(* Nothing is said before the answer is checked.                            *)
Answering(r) ==
  /\ r.pc \in Early => r.answer = NoAnswer
  /\ r.pc \in Early \union {"generated", "check", "revalidate"} =>
       r.texts = 0 /\ r.left = TextChunks
  /\ r.pc \in {"text", "assistant"} => r.texts + r.left = TextChunks
  /\ r.pc = "text" => r.left >= 1
  /\ r.pc \in {"generated", "check"} => Numbered(r.answer)
  /\ r.pc \in Late \union {"revalidate"} => GroundedIn(r.answer, r.snaps)

(* A model that must cite has been given something to cite.                 *)
Routed(r) ==
  /\ r.pc \in Early \ {"generate"} => r.route = "none"
  /\ r.pc = "assistant" => r.route = "automatic_assistant"
  /\ r.pc \in {"context", "facts", "provider"} => r.snaps # <<>> \/ req.command = "inspect"
  /\ r.pc = "generate" => r.snaps # <<>>

Strict == req.restricted \/ req.scope = "references_only"

Scoped(r) ==
  /\ Strict => r.prompt \subseteq {"task", "references"} /\ r.route # "automatic_assistant"
  /\ Strict /\ r.pc = "prepared" => r.snaps # <<>>
  /\ \A i \in r.turns :
       /\ req.history[i].workspace # "other"
       /\ req.scope # "automatic" =>
            req.history[i].workspace = "same" /\ req.history[i].grounded = "yes"

Local(r) == Shaped(r) /\ Reading(r) /\ Answering(r) /\ Routed(r) /\ Scoped(r)

(* From the answer on, since holds what each file has been; the snapshots   *)
(* that have been read again were among it.                                 *)
Seen(r, i) == r.snaps[i].ver \in since[r.snaps[i].path]
Current(r) ==
  /\ r.pc \in {"generated", "check", "revalidate", "text"} =>
       \A p \in Paths : ver[p] \in since[p]
  /\ r.pc = "revalidate" => \A i \in 1..Len(r.snaps) : i < r.ix => Seen(r, i)
  /\ r.pc = "text" => \A i \in 1..Len(r.snaps) : Seen(r, i)

(* The most events there may have been.                                     *)
Events(r) ==
  CASE r.pc \in {"setup", "validate", "authorize"} -> 0
    [] r.pc = "accepted" -> 1
    [] r.pc \in {"read", "reread"} -> r.ix + 1
    [] r.pc \in {"prepared", "context", "local", "edit"} -> req.maxRefs + 3
    [] r.pc \in {"facts", "provider", "edited"} -> req.maxRefs + 4
    [] r.pc \in {"generate", "generated", "check"} -> req.maxRefs + 5
    [] r.pc = "revalidate" -> req.maxRefs + 6
    [] r.pc = "assistant" -> req.maxRefs + 3 + (TextChunks - r.left)
    [] r.pc = "text" -> req.maxRefs + 6 + (TextChunks - r.left)
    [] r.pc = "finish" -> req.maxRefs + 6 + TextChunks
    [] r.pc = "completed" -> req.maxRefs + 7 + TextChunks
    [] OTHER -> req.maxRefs + 8 + TextChunks

Counted == rt.seq \in Nat /\ rt.seq <= Events(rt)

World ==
  /\ req \in Requests
  /\ token \in BOOLEAN
  /\ ver \in [Paths -> 0..Len(FileLines)]
  /\ since \in [Paths -> SUBSET Nat]

RuntimeInv == World /\ Local(rt) /\ Current(rt) /\ Counted

-----------------------------------------------------------------------------
(* The stream between the two.  As long as the client has found no error,   *)
(* what is in the pipe is what it has not seen; a kill loses the end of it. *)
Kinds == {"progress", "text"} \union ChatTerminals
PipeEvents == [seq : Nat, type : Kinds]

TextNumbers(s) == {s[i].seq : i \in {j \in 1..Len(s) : s[j].type = "text"}}

ClientErrors ==
  {"none", "process_interrupted", "terminal_duplicate", "sequence_mismatch", "output_limit"}

Results ==
  ClientErrors \union ChatTerminals \union
  {"invalid_ndjson", "timeout", "cancellation_forced", "cancellation_unconfirmed",
   "terminal_missing", "process_failed"}

Clients ==
  [expected : 0..EventLimit, texts : Nat, terminal : {"none"} \union ChatTerminals,
   error : ClientErrors, requested : BOOLEAN, timedOut : BOOLEAN, timer : BOOLEAN,
   forced : BOOLEAN, stdin : BOOLEAN, result : Results]

TransportTypes ==
  /\ pipe \in Seq(PipeEvents) /\ Len(pipe) <= PipeCapacity
  /\ child \in [life : {"running", "exited", "killed"}, code : {0, 2}, kill : BOOLEAN,
                partial : BOOLEAN]
  /\ control \in {"none", "written", "read"}
  /\ client \in Clients

Numbers ==
  /\ \A i \in 1..Len(pipe) : pipe[i].seq = client.expected + (i - 1)
  /\ client.expected + Len(pipe) <= rt.seq
  /\ child.life # "killed" => client.expected + Len(pipe) = rt.seq
  /\ child.life # "killed" => client.texts + Cardinality(TextNumbers(pipe)) = rt.texts

Terminal ==
  /\ \A i \in 1..Len(pipe) :
       pipe[i].type \in ChatTerminals => i = Len(pipe) /\ pipe[i].type = rt.status
  /\ client.terminal # "none" => pipe = <<>> /\ client.terminal = rt.status
  /\ child.life # "killed" /\ rt.status # "none" =>
       client.terminal = rt.status \/ (pipe # <<>> /\ pipe[Len(pipe)].type = rt.status)

Ends ==
  /\ child.life # "killed" /\ rt.pc = "done" => rt.status # "none"
  /\ child.life = "exited" =>
       rt.pc = "done" /\ child.code = (IF rt.status = "completed" THEN 0 ELSE 2)
  /\ Settled => ~Running

StreamInv ==
  /\ TransportTypes /\ Ends
  /\ client.error = "none" => Numbers /\ Terminal
  /\ ResolvedIsWhole

ChatInv == RuntimeInv /\ StreamInv
-----------------------------------------------------------------------------
(* One step of the runtime.                                                 *)

RequestKept == UNCHANGED <<req, token, ver>>

(* What a step sends: nothing, or the next event, which says where the      *)
(* request has got to.                                                      *)
Silent == pipe' = pipe /\ rt'.seq = rt.seq /\ rt'.texts = rt.texts /\ rt'.status = rt.status

Sends(kind) ==
  /\ Len(pipe) < PipeCapacity
  /\ pipe' = Append(pipe, [seq |-> rt.seq, type |-> kind])
  /\ rt'.seq = rt.seq + 1
  /\ rt'.texts = rt.texts + (IF kind = "text" THEN 1 ELSE 0)
  /\ kind = "text" => rt.pc = "text" \/ rt.route \in {"none", "automatic_assistant"}
  /\ IF kind \in ChatTerminals THEN rt'.status = kind /\ rt'.pc = "done"
     ELSE rt'.status = rt.status
  /\ kind = "completed" => rt.pc = "completed"

Spoken ==
  /\ Silent \/ \E kind \in Kinds : Sends(kind)
  /\ rt.pc # "done"
  /\ rt'.pc = "done" => rt'.status # "none"
  /\ rt'.pc = "completed" => ~token

Goes == RuntimeInv' /\ Spoken

(* What a state owes apart from the number of its events.                   *)
LEMMA NumberAside ==
  ASSUME NEW n, NEW m, Local(n), Current(n), LocalFields \subseteq DOMAIN m,
         \A field \in LocalFields \ {"seq"} : m[field] = n[field]
  PROVE  Local(m) /\ Current(m) /\ Events(m) = Events(n)
<1>1. /\ m.pc = n.pc /\ m.ix = n.ix /\ m.first = n.first /\ m.snaps = n.snaps
      /\ m.refused = n.refused /\ m.kept = n.kept /\ m.turns = n.turns /\ m.prompt = n.prompt
      /\ m.answer = n.answer /\ m.route = n.route /\ m.left = n.left
      /\ m.texts = n.texts /\ m.status = n.status
  BY DEF LocalFields
<1>2. Shaped(m)
  BY <1>1 DEF Local, Shaped
<1>3. Reading(m)
  BY <1>1 DEF Local, Reading
<1>4. Answering(m)
  BY <1>1 DEF Local, Answering
<1>5. Routed(m) /\ Scoped(m)
  BY <1>1 DEF Local, Routed, Scoped
<1>6. Current(m)
  BY <1>1 DEF Current, Seen
<1>7. Events(m) = Events(n)
  BY <1>1 DEF Events
<1>. QED BY <1>2, <1>3, <1>4, <1>5, <1>6, <1>7 DEF Local

(* The invariant after a step to m that leaves the world alone.             *)
LEMMA Arrives ==
  ASSUME RuntimeInv, FilesAlone, NEW m, rt' = m, Local(m), Current(m),
         m.seq \in Nat, m.seq <= Events(m)
  PROVE  RuntimeInv'
<1>1. World'
  BY DEF RuntimeInv, World, FilesAlone
<1>2. Local(rt)'
  <2>1. Shaped(rt)' /\ Reading(rt)' /\ Routed(rt)' /\ Answering(rt)'
    BY DEF Local, Shaped, Reading, Routed, Answering, FilesAlone, RangeExists, Lo, Hi
  <2>2. Scoped(rt)'
    BY DEF Local, Scoped, FilesAlone, Strict
  <2>. QED BY <2>1, <2>2 DEF Local
<1>3. Current(rt)'
  BY DEF Current, Seen, FilesAlone
<1>4. Counted'
  BY DEF Counted, Events, FilesAlone
<1>. QED BY <1>1, <1>2, <1>3, <1>4 DEF RuntimeInv

LEMMA QuietStep ==
  ASSUME RuntimeInv, NEW n, Quietly(n), FilesAlone, rt.pc # "done",
         Local(n), Current(n), rt.seq <= Events(n),
         n.seq = rt.seq, n.texts = rt.texts, n.status = rt.status, n.pc # "done",
         n.pc = "completed" => ~token
  PROVE  Goes
<1>1. RuntimeInv'
  BY Arrives DEF Quietly, RuntimeInv, Counted
<1>2. Spoken
  BY DEF Spoken, Silent, Quietly
<1>. QED BY <1>1, <1>2 DEF Goes

LEMMA EmitStep ==
  ASSUME RuntimeInv, NEW kind \in Kinds, NEW n, Emit(kind, n), FilesAlone, rt.pc # "done",
         Local(n), Current(n), rt.seq + 1 <= Events(n),
         n.texts = rt.texts + (IF kind = "text" THEN 1 ELSE 0),
         kind = "text" => rt.pc = "text" \/ rt.route \in {"none", "automatic_assistant"},
         IF kind \in ChatTerminals THEN n.status = kind /\ n.pc = "done"
         ELSE n.status = rt.status /\ n.pc # "done",
         kind = "completed" => rt.pc = "completed",
         n.pc = "completed" => ~token
  PROVE  Goes
<1>1. PICK s : s = rt.seq + 1
  OBVIOUS
<1>2. PICK m : m = [n EXCEPT !.seq = s]
  OBVIOUS
<1>3. rt' = m
  BY <1>1, <1>2 DEF Emit
<1>4. LocalFields \subseteq DOMAIN n
  BY DEF Local, Shaped
<1>5. LocalFields \subseteq DOMAIN m /\ m.seq = s
  BY <1>2, <1>4 DEF LocalFields
<1>6. \A field \in LocalFields \ {"seq"} : m[field] = n[field]
  BY <1>2, <1>4
<1>7. /\ Local(m) /\ Current(m) /\ Events(m) = Events(n)
      /\ m.pc = n.pc /\ m.texts = n.texts /\ m.status = n.status
  BY <1>5, <1>6, NumberAside DEF LocalFields
<1>8. RuntimeInv'
  BY <1>1, <1>3, <1>5, <1>7, Arrives DEF RuntimeInv, Counted
<1>9. Sends(kind)
  BY <1>1, <1>3, <1>5, <1>7 DEF Sends, Emit
<1>10. rt'.pc = "done" => rt'.status # "none"
  BY <1>3, <1>7 DEF ChatTerminals
<1>. QED BY <1>3, <1>7, <1>8, <1>9, <1>10 DEF Goes, Spoken

LEMMA ProgressStep ==
  ASSUME RuntimeInv, NEW n, Emit("progress", n), FilesAlone, rt.pc # "done",
         Local(n), Current(n), rt.seq + 1 <= Events(n),
         n.texts = rt.texts, n.status = rt.status, n.pc # "done",
         n.pc = "completed" => ~token
  PROVE  Goes
<1> PICK kind : kind = "progress"
  OBVIOUS
<1>1. rt.texts + 0 = rt.texts
  BY DEF RuntimeInv, Local, Shaped
<1>2. kind \in Kinds /\ kind \notin ChatTerminals /\ kind # "text" /\ kind # "completed"
  BY DEF Kinds, ChatTerminals
<1>. QED BY <1>1, <1>2, EmitStep

-----------------------------------------------------------------------------
(* What was prepared is dropped with the error.                             *)
LEMMA FailureFits ==
  ASSUME RuntimeInv, rt.pc \notin {"text", "finish", "completed", "done"}
  PROVE  /\ Local(Failure) /\ Current(Failure)
         /\ Failure.seq = rt.seq /\ Failure.texts = rt.texts /\ Failure.status = rt.status
         /\ Failure.pc = "finish" /\ rt.seq <= Events(Failure) /\ rt.seq + 1 <= Events(Failure)
<1>1. /\ Failure.pc = "finish" /\ Failure.ix = 1 /\ Failure.snaps = <<>> /\ Failure.refused = 0
      /\ Failure.kept = 0 /\ Failure.turns = {} /\ Failure.prompt = {}
      /\ Failure.answer = NoAnswer /\ Failure.route = rt.route /\ Failure.left = rt.left
      /\ Failure.seq = rt.seq /\ Failure.texts = rt.texts /\ Failure.status = "none"
      /\ LocalFields \subseteq DOMAIN Failure
  BY DEF Failure, NewRequest, LocalFields
<1>2. rt.status = "none"
  BY DEF RuntimeInv, Local, Shaped
<1>3. {Len(req.refs), req.maxBytes} \subseteq Nat
  BY RequestsAssumption DEF RuntimeInv, World
<1>4. Shaped(Failure)
  BY <1>1, <1>3 DEF RuntimeInv, Local, Shaped, Places, Late
<1>5. Reading(Failure)
  BY <1>1 DEF Reading, Entry
<1>6. GroundedIn(NoAnswer, <<>>)
  BY DEF GroundedIn, NoAnswer
<1>7. Answering(Failure)
  BY <1>1, <1>6 DEF Answering, Early, Entry
<1>8. Routed(Failure)
  BY <1>1 DEF Routed, Early, Entry
<1>9. Scoped(Failure)
  BY <1>1 DEF Scoped, RuntimeInv, Local
<1>10. Current(Failure)
  BY <1>1 DEF Current
<1>11. rt.seq <= Events(Failure) /\ rt.seq + 1 <= Events(Failure)
  <2>1. req.maxRefs \in Nat /\ rt.ix \in Nat /\ rt.left \in 0..TextChunks /\ TextChunks \in Nat \ {0}
    BY RequestsAssumption, ChatAssumption DEF RuntimeInv, World, Local, Shaped
  <2>2. rt.pc \in {"read", "reread"} => rt.ix <= req.maxRefs + 1
    BY <1>3, <2>1 DEF RuntimeInv, Local, Reading
  <2>3. Events(Failure) = req.maxRefs + 6 + TextChunks
    BY <1>1 DEF Events
  <2>4. rt.seq \in Nat /\ rt.seq <= req.maxRefs + 5 + TextChunks
    <3>1. rt.pc \in {"setup", "validate", "authorize", "accepted", "read", "reread", "prepared",
                     "context", "local", "edit", "facts", "provider", "edited", "generate",
                     "generated", "check", "revalidate", "assistant"}
      BY DEF RuntimeInv, Local, Shaped, Places, Early, Entry, Late
    <3>2. rt.seq \in Nat /\ rt.seq <= Events(rt)
      BY DEF RuntimeInv, Counted
    <3>3. CASE rt.pc \in {"setup", "validate", "authorize", "accepted", "read", "reread"}
      BY <2>1, <2>2, <3>2, <3>3 DEF Events
    <3>4. CASE rt.pc \in {"prepared", "context", "local", "edit", "facts", "provider", "edited"}
      BY <2>1, <3>2, <3>4 DEF Events
    <3>5. CASE rt.pc \in {"generate", "generated", "check", "revalidate", "assistant"}
      BY <2>1, <3>2, <3>5 DEF Events
    <3>. QED BY <3>1, <3>3, <3>4, <3>5
  <2>. QED BY <2>1, <2>3, <2>4
<1>. QED BY <1>1, <1>2, <1>4, <1>5, <1>7, <1>8, <1>9, <1>10, <1>11 DEF Local

LEMMA Fails ==
  ASSUME RuntimeInv, rt.pc \notin {"text", "finish", "completed", "done"},
         Quietly(Failure), FilesAlone
  PROVE  Goes
<1> PICK n : n = Failure
  OBVIOUS
<1>. QED BY FailureFits, QuietStep

LEMMA FailsAloud ==
  ASSUME RuntimeInv, rt.pc \notin {"text", "finish", "completed", "done"},
         Emit("progress", Failure), FilesAlone
  PROVE  Goes
<1> PICK n : n = Failure
  OBVIOUS
<1>. QED BY FailureFits, ProgressStep

(* The local state after a step that moves on to pc.                        *)
LEMMA GoToFields ==
  ASSUME RuntimeInv, NEW place
  PROVE  LET n == GoTo(place)
         IN /\ LocalFields \subseteq DOMAIN n
            /\ n.pc = place
            /\ \A field \in LocalFields \ {"pc"} : n[field] = rt[field]
<1>1. LocalFields \subseteq DOMAIN rt
  BY DEF RuntimeInv, Local, Shaped
<1>. QED BY <1>1 DEF GoTo, LocalFields

LEMMA Numbers0 ==
  ASSUME RuntimeInv
  PROVE  /\ {Len(req.refs), req.maxRefs, req.maxBytes} \subseteq Nat
         /\ TextChunks \in Nat \ {0}
         /\ rt.ix \in Nat \ {0} /\ rt.seq \in Nat /\ rt.left \in 0..TextChunks
         /\ rt.texts \in 0..TextChunks
BY RequestsAssumption, ChatAssumption DEF RuntimeInv, World, Local, Shaped, Counted

LEMMA SetupStep == RuntimeInv /\ Setup => Goes
<1> SUFFICES ASSUME RuntimeInv, Setup PROVE Goes
  OBVIOUS
<1>1. rt.pc = "setup" /\ FilesAlone
  BY DEF Setup, At
<1>2. CASE Quietly(GoTo("validate"))
  <2> PICK n : n = GoTo("validate")
    OBVIOUS
  <2>1. /\ LocalFields \subseteq DOMAIN n
        /\ n.pc = "validate"
        /\ \A field \in LocalFields \ {"pc"} : n[field] = rt[field]
    BY GoToFields
  <2>2. Local(n) /\ Current(n) /\ rt.seq <= Events(n)
    BY <1>1, <2>1 DEF LocalFields, RuntimeInv, Counted, Local, Shaped, Reading, Answering, Routed,
       Scoped, Current, Events, Places, Early, Entry, Late
  <2>. QED BY <1>1, <1>2, <2>1, <2>2, QuietStep DEF LocalFields
<1>3. CASE Emit("failed", [GoTo("done") EXCEPT !.status = "failed"])
  <2> PICK n : n = [GoTo("done") EXCEPT !.status = "failed"]
    OBVIOUS
  <2>1. /\ LocalFields \subseteq DOMAIN n
        /\ n.pc = "done" /\ n.status = "failed"
        /\ \A field \in LocalFields \ {"pc", "status"} : n[field] = rt[field]
    BY GoToFields DEF LocalFields
  <2>2. GroundedIn(rt.answer, rt.snaps)
    BY <1>1 DEF RuntimeInv, Local, Answering, Early, Entry, GroundedIn, NoAnswer
  <2>3. Local(n) /\ Current(n)
    BY <1>1, <2>1, <2>2 DEF LocalFields, RuntimeInv, Local, Shaped, Reading, Answering, Routed,
       Scoped, Current, Places, Early, Entry, Late, ChatTerminals
  <2>4. rt.seq + 1 <= Events(n)
    BY <1>1, <2>1, Numbers0, SMTT(30) DEF RuntimeInv, Counted, Events
  <2> PICK kind : kind = "failed"
    OBVIOUS
  <2>5. kind \in Kinds /\ kind \in ChatTerminals /\ kind # "text" /\ kind # "completed"
    BY DEF Kinds, ChatTerminals
  <2>6. n.texts = rt.texts + 0
    BY <2>1, Numbers0 DEF LocalFields
  <2>. QED BY <1>1, <1>3, <2>1, <2>3, <2>4, <2>5, <2>6, EmitStep
<1>. QED BY <1>1, <1>2, <1>3 DEF Setup

LEMMA ValidateStep == RuntimeInv /\ Validate => Goes
<1> SUFFICES ASSUME RuntimeInv, Validate PROVE Goes
  OBVIOUS
<1>1. rt.pc = "validate" /\ FilesAlone
  BY DEF Validate, At
<1>2. CASE ValidRequest
  <2> PICK n : n = GoTo("authorize")
    OBVIOUS
  <2>1. /\ LocalFields \subseteq DOMAIN n
        /\ n.pc = "authorize"
        /\ \A field \in LocalFields \ {"pc"} : n[field] = rt[field]
    BY GoToFields
  <2>2. Len(req.refs) <= req.maxRefs /\ req.command \in Commands \ {"unknown"}
    BY <1>2, RequestsAssumption DEF ValidRequest, RuntimeInv, World
  <2>3. Local(n) /\ Current(n) /\ rt.seq <= Events(n)
    BY <1>1, <2>1, <2>2 DEF LocalFields, RuntimeInv, Counted, Local, Shaped, Reading, Answering,
       Routed, Scoped, Current, Events, Places, Early, Entry, Late
  <2>. QED BY <1>1, <1>2, <2>1, <2>3, QuietStep DEF LocalFields, Validate
<1>. QED BY <1>1, <1>2, Fails DEF Validate

LEMMA AuthorizeStep == RuntimeInv /\ Authorize => Goes
<1> SUFFICES ASSUME RuntimeInv, Authorize PROVE Goes
  OBVIOUS
<1>1. rt.pc = "authorize" /\ FilesAlone
  BY DEF Authorize, At
<1>2. CASE Emit("progress", GoTo("accepted"))
  <2> PICK n : n = GoTo("accepted")
    OBVIOUS
  <2>1. /\ LocalFields \subseteq DOMAIN n
        /\ n.pc = "accepted"
        /\ \A field \in LocalFields \ {"pc"} : n[field] = rt[field]
    BY GoToFields
  <2>2. Local(n) /\ Current(n)
    BY <1>1, <2>1 DEF LocalFields, RuntimeInv, Local, Shaped, Reading, Answering, Routed,
       Scoped, Current, Places, Early, Entry, Late
  <2>3. rt.seq + 1 <= Events(n)
    BY <1>1, <2>1, Numbers0 DEF RuntimeInv, Counted, Events
  <2>4. n.texts = rt.texts /\ n.status = rt.status
    BY <2>1 DEF LocalFields
  <2>. QED BY <1>1, <1>2, <2>1, <2>2, <2>3, <2>4, ProgressStep
<1>. QED BY <1>1, <1>2, Fails DEF Authorize

LEMMA AcceptedStep == RuntimeInv /\ Accepted => Goes
<1> SUFFICES ASSUME RuntimeInv, Accepted PROVE Goes
  OBVIOUS
<1>1. rt.pc = "accepted" /\ FilesAlone
  BY DEF Accepted, At
<1>2. CASE Emit("progress", GoTo("read"))
  <2> PICK n : n = GoTo("read")
    OBVIOUS
  <2>1. /\ LocalFields \subseteq DOMAIN n
        /\ n.pc = "read"
        /\ \A field \in LocalFields \ {"pc"} : n[field] = rt[field]
    BY GoToFields
  <2>2. Local(n) /\ Current(n)
    BY <1>1, <2>1, Numbers0 DEF LocalFields, RuntimeInv, Local, Shaped, Reading, Answering, Routed,
       Scoped, Current, Places, Early, Entry, Late
  <2>3. rt.seq + 1 <= Events(n)
    BY <1>1, <2>1, Numbers0 DEF RuntimeInv, Counted, Events, LocalFields
  <2>4. n.texts = rt.texts /\ n.status = rt.status
    BY <2>1 DEF LocalFields
  <2>. QED BY <1>1, <1>2, <2>1, <2>2, <2>3, <2>4, ProgressStep
<1>. QED BY <1>1, <1>2, Fails DEF Accepted

-----------------------------------------------------------------------------
(* The references.                                                          *)

(* The next reference, whether the last one was taken or refused.           *)
LEMMA NextReference ==
  ASSUME RuntimeInv, rt.pc \in {"read", "reread"}, rt.ix <= Len(req.refs), FilesAlone,
         NEW n, LocalFields \subseteq DOMAIN n, n.pc = "read", n.ix = rt.ix + 1,
         n.refused \in {rt.refused, rt.refused + 1},
         n.snaps \in Seq(Snapshots), n.kept \in 0..req.maxBytes,
         \A field \in LocalFields \ {"pc", "ix", "refused", "snaps", "kept"} :
           n[field] = rt[field],
         Emit("progress", n)
  PROVE  Goes
<1>1. /\ n.left = rt.left /\ n.texts = rt.texts /\ n.status = rt.status /\ n.answer = rt.answer
      /\ n.route = rt.route /\ n.prompt = rt.prompt /\ n.turns = rt.turns
  BY DEF LocalFields
<1>2. rt.refused \in Nat /\ rt.refused < rt.ix
  BY DEF RuntimeInv, Local, Shaped, Reading
<1>3. n.refused \in 0..Len(req.refs) /\ n.refused < n.ix /\ n.ix <= Len(req.refs) + 1
  <2> PICK i, k, m : i = rt.ix /\ k = rt.refused /\ m = n.refused
    OBVIOUS
  <2>1. i \in Nat /\ k \in Nat /\ k < i /\ m \in {k, k + 1} /\ i <= Len(req.refs)
        /\ Len(req.refs) \in Nat /\ n.ix = i + 1
    BY <1>2, Numbers0
  <2>2. m \in 0..Len(req.refs) /\ m < i + 1 /\ i + 1 <= Len(req.refs) + 1
    BY <2>1
  <2>. QED BY <2>1, <2>2
<1>8. Shaped(n)
  BY <1>1, <1>3, Numbers0, SMTT(30) DEF RuntimeInv, Local, Shaped, Places, Early
<1>9. Reading(n)
  BY <1>3 DEF RuntimeInv, Local, Reading, Entry
<1>4. Answering(n) /\ Routed(n) /\ Scoped(n)
  BY <1>1 DEF RuntimeInv, Local, Answering, Routed, Scoped, Early, Entry, Late
<1>5. Current(n)
  BY DEF Current
<1>6. rt.seq + 1 <= Events(n)
  <2>1. Events(n) = rt.ix + 1 + 1
    BY DEF Events
  <2>2. rt.seq <= rt.ix + 1
    BY DEF RuntimeInv, Counted, Events
  <2>. QED BY <2>1, <2>2, Numbers0
<1>. QED BY <1>1, <1>4, <1>5, <1>6, <1>8, <1>9, ProgressStep DEF Local

LEMMA ReferenceTyped ==
  ASSUME RuntimeInv, rt.ix <= Len(req.refs)
  PROVE  Ref.path \in Paths /\ Ref.lo \in Nat /\ Ref.hi \in Nat /\ Lo(Ref) \in Nat
BY RequestsAssumption, Numbers0, SMTT(30) DEF RuntimeInv, World, Ref, Lo

LEMMA RefusedStep ==
  ASSUME RuntimeInv, rt.pc \in {"read", "reread"}, rt.ix <= Len(req.refs), FilesAlone,
         Emit("progress", Refused)
  PROVE  Goes
<1> PICK n : n = Refused
  OBVIOUS
<1> PICK i, k : i = rt.ix + 1 /\ k = rt.refused + 1
  OBVIOUS
<1>1. n = [rt EXCEPT !.pc = "read", !.ix = i, !.refused = k]
  BY DEF Refused
<1>2. LocalFields \subseteq DOMAIN rt /\ rt.snaps \in Seq(Snapshots) /\ rt.kept \in 0..req.maxBytes
  BY DEF RuntimeInv, Local, Shaped
<1>3. /\ LocalFields \subseteq DOMAIN n /\ n.pc = "read" /\ n.ix = i /\ n.refused = k
      /\ n.snaps = rt.snaps /\ n.kept = rt.kept
      /\ \A field \in LocalFields \ {"pc", "ix", "refused", "snaps", "kept"} : n[field] = rt[field]
  BY <1>1, <1>2 DEF LocalFields
<1>. QED BY <1>2, <1>3, NextReference

LEMMA ReadReferenceStep == RuntimeInv /\ ReadReference => Goes
<1> SUFFICES ASSUME RuntimeInv, ReadReference PROVE Goes
  OBVIOUS
<1>1. rt.pc = "read" /\ rt.ix <= Len(req.refs) /\ FilesAlone
  BY DEF ReadReference, At
<1>2. CASE Emit("progress", Resolved)
  <2> PICK n : n = Resolved
    OBVIOUS
  <2> PICK i : i = rt.ix + 1
    OBVIOUS
  <2>1. n = [rt EXCEPT !.pc = "read", !.ix = i]
    BY DEF Resolved
  <2>2. LocalFields \subseteq DOMAIN rt /\ rt.snaps \in Seq(Snapshots)
        /\ rt.kept \in 0..req.maxBytes
    BY DEF RuntimeInv, Local, Shaped
  <2>3. /\ LocalFields \subseteq DOMAIN n /\ n.pc = "read" /\ n.ix = i /\ n.refused = rt.refused
        /\ n.snaps = rt.snaps /\ n.kept = rt.kept
        /\ \A field \in LocalFields \ {"pc", "ix", "refused", "snaps", "kept"} :
             n[field] = rt[field]
    BY <2>1, <2>2 DEF LocalFields
  <2>. QED BY <1>1, <1>2, <2>2, <2>3, NextReference
<1>3. CASE Emit("progress", Refused)
  BY <1>1, <1>3, RefusedStep
<1>4. CASE /\ Quietly([GoTo("reread") EXCEPT !.first = ver[Ref.path]])
           /\ ver[Ref.path] # 0 /\ RangeExists(Ref, ver[Ref.path])
  <2> PICK v : v = ver[Ref.path]
    OBVIOUS
  <2> PICK n : n = [GoTo("reread") EXCEPT !.first = v]
    OBVIOUS
  <2>1. /\ LocalFields \subseteq DOMAIN n
        /\ n.pc = "reread" /\ n.first = v
        /\ \A field \in LocalFields \ {"pc", "first"} : n[field] = rt[field]
    BY GoToFields DEF LocalFields
  <2>2. v \in Versions
    BY <1>1, <1>4, ReferenceTyped DEF RuntimeInv, World, Versions
  <2>3. Shaped(n)
    BY <1>1, <2>1 DEF LocalFields, RuntimeInv, Local, Shaped, Places, Early, Entry
  <2>4. Reading(n)
    BY <1>1, <1>4, <2>1, <2>2 DEF LocalFields, RuntimeInv, Local, Reading, Ref, Entry
  <2>5. Answering(n) /\ Routed(n) /\ Scoped(n) /\ Current(n) /\ rt.seq <= Events(n)
    BY <1>1, <2>1 DEF LocalFields, RuntimeInv, Counted, Local, Answering, Routed,
       Scoped, Current, Events, Early, Entry, Late
  <2>6. n.seq = rt.seq /\ n.texts = rt.texts /\ n.status = rt.status
    BY <2>1 DEF LocalFields
  <2>. QED BY <1>1, <1>4, <2>1, <2>3, <2>4, <2>5, <2>6, QuietStep DEF Local
<1>. QED BY <1>2, <1>3, <1>4 DEF ReadReference

LEMMA RereadReferenceStep == RuntimeInv /\ RereadReference => Goes
<1> SUFFICES ASSUME RuntimeInv, RereadReference PROVE Goes
  OBVIOUS
<1>1. rt.pc = "reread" /\ rt.ix <= Len(req.refs) /\ FilesAlone
  BY DEF RereadReference, At, RuntimeInv, Local, Reading
<1>2. CASE Emit("progress", Refused)
  BY <1>1, <1>2, RefusedStep
<1>3. CASE ~OverBudget /\ Emit("progress", [Resolved EXCEPT !.snaps = Append(rt.snaps, Snapshot),
                                                            !.kept = rt.kept + Bytes])
  <2> PICK i, s, k : i = rt.ix + 1 /\ s = Append(rt.snaps, Snapshot) /\ k = rt.kept + Bytes
    OBVIOUS
  <2> PICK n : n = [Resolved EXCEPT !.snaps = s, !.kept = k]
    OBVIOUS
  <2>1. n = [rt EXCEPT !.pc = "read", !.ix = i, !.snaps = s, !.kept = k]
    BY DEF Resolved
  <2>2. LocalFields \subseteq DOMAIN rt /\ rt.snaps \in Seq(Snapshots)
        /\ rt.kept \in 0..req.maxBytes
    BY DEF RuntimeInv, Local, Shaped
  <2>3. /\ LocalFields \subseteq DOMAIN n /\ n.pc = "read" /\ n.ix = i /\ n.refused = rt.refused
        /\ n.snaps = s /\ n.kept = k
        /\ \A field \in LocalFields \ {"pc", "ix", "refused", "snaps", "kept"} :
             n[field] = rt[field]
    BY <2>1, <2>2 DEF LocalFields
  <2>4. rt.first \in Versions /\ RangeExists(Ref, rt.first)
    BY <1>1 DEF RuntimeInv, Local, Reading, Ref
  <2>5. FileLines[rt.first] \in Nat /\ rt.first \in Nat
    BY <2>4, ChatAssumption DEF Versions
  <2>6. Lo(Ref) \in Nat /\ Hi(Ref, rt.first) \in Nat /\ Lo(Ref) <= Hi(Ref, rt.first)
    BY <1>1, <2>4, <2>5, ReferenceTyped DEF RangeExists, Hi
  <2>7. Snapshot \in Snapshots /\ Snapshot.hi = Hi(Ref, rt.first) /\ Snapshot.lo = Lo(Ref)
    BY <1>1, <2>5, <2>6, ReferenceTyped DEF Snapshot, Snapshots
  <2>8. Bytes \in Nat
    BY <2>6, <2>7 DEF Bytes
  <2>9. s \in Seq(Snapshots) /\ k \in 0..req.maxBytes
    BY <1>3, <2>2, <2>7, <2>8, Numbers0 DEF OverBudget
  <2>10. Emit("progress", n)
    BY <1>3
  <2>. QED BY <1>1, <2>3, <2>9, <2>10, NextReference
<1>. QED BY <1>2, <1>3 DEF RereadReference

LEMMA ScopeOfRequest ==
  ASSUME RuntimeInv
  PROVE  (Strict => Scope = "references_only") /\ (req.scope # "automatic" => Scope # "automatic")
BY DEF Strict, Scope, EffectiveScope

LEMMA PrepareStep == RuntimeInv /\ Prepare => Goes
<1> SUFFICES ASSUME RuntimeInv, Prepare PROVE Goes
  OBVIOUS
<1>1. rt.pc = "read" /\ FilesAlone
  BY DEF Prepare, At
<1> PICK broad : broad = BroadContext(Scope, rt.snaps)
  OBVIOUS
<1> PICK history : history = IF broad THEN BoundedHistory(Scope) ELSE {}
  OBVIOUS
<1> PICK prompt : prompt = {"task", "references"}
                             \union IF broad THEN {"history", "project"} ELSE {}
  OBVIOUS
<1>2. CASE Quietly(Failure)
  BY <1>1, <1>2, Fails
<1>3. CASE /\ ~(Scope = "references_only" /\ rt.snaps = <<>>)
           /\ Emit("progress", [GoTo("prepared") EXCEPT !.turns = history, !.prompt = prompt])
  <2> PICK n : n = [GoTo("prepared") EXCEPT !.turns = history, !.prompt = prompt]
    OBVIOUS
  <2>1. /\ LocalFields \subseteq DOMAIN n
        /\ n.pc = "prepared" /\ n.turns = history /\ n.prompt = prompt
        /\ \A field \in LocalFields \ {"pc", "turns", "prompt"} : n[field] = rt[field]
    <3> PICK g : g = GoTo("prepared")
      OBVIOUS
    <3>1. /\ LocalFields \subseteq DOMAIN g /\ g.pc = "prepared"
          /\ \A field \in LocalFields \ {"pc"} : g[field] = rt[field]
      BY GoToFields
    <3>2. n = [g EXCEPT !.turns = history, !.prompt = prompt]
      OBVIOUS
    <3>. QED BY <3>1, <3>2 DEF LocalFields
  <2>2. Shaped(n) /\ Reading(n) /\ Answering(n) /\ Routed(n) /\ Current(n)
    <3>1. Shaped(n) /\ Current(n)
      BY <1>1, <2>1 DEF LocalFields, RuntimeInv, Local, Shaped, Current, Places, Early
    <3>2. Reading(n)
      BY <1>1, <2>1 DEF LocalFields, RuntimeInv, Local, Reading, Entry
    <3>3. Answering(n) /\ Routed(n)
      BY <1>1, <2>1 DEF LocalFields, RuntimeInv, Local, Answering, Routed, Early, Entry, Late
    <3>. QED BY <3>1, <3>2, <3>3
  <2>3. \A i \in history : TurnFits(req.history[i], Scope)
    BY DEF BoundedHistory
  <2>4. Strict => n.prompt \subseteq {"task", "references"} /\ n.snaps # <<>>
    BY <1>3, <2>1, ScopeOfRequest DEF LocalFields, BroadContext
  <2>5. n.route = "none"
    BY <1>1, <2>1 DEF LocalFields, RuntimeInv, Local, Routed, Early, Entry
  <2>6. Scoped(n)
    BY <2>1, <2>3, <2>4, <2>5, ScopeOfRequest DEF Scoped, TurnFits
  <2>7. rt.seq + 1 <= Events(n)
    <3>1. rt.seq <= rt.ix + 1 /\ rt.ix <= req.maxRefs + 1
      BY <1>1, Numbers0 DEF RuntimeInv, Counted, Events, Local, Reading, Entry
    <3>2. Events(n) = req.maxRefs + 3
      BY <2>1 DEF Events
    <3>. QED BY <3>1, <3>2, Numbers0
  <2>8. n.texts = rt.texts /\ n.status = rt.status
    BY <2>1 DEF LocalFields
  <2>. QED BY <1>1, <1>3, <2>1, <2>2, <2>6, <2>7, <2>8, ProgressStep DEF Local
<1>. QED BY <1>2, <1>3 DEF Prepare

-----------------------------------------------------------------------------
(* The routes.                                                              *)

(* What a request that is answered at once ends with.                       *)
LEMMA SuccessFits ==
  ASSUME RuntimeInv, rt.pc \in {"prepared", "assistant"}
  PROVE  /\ Local(Success) /\ Current(Success) /\ Success.pc = "finish"
         /\ rt.seq <= Events(Success)
         /\ Success.seq = rt.seq /\ Success.texts = rt.texts /\ Success.status = rt.status
<1> PICK n : n = Success
  OBVIOUS
<1>1. LocalFields \subseteq DOMAIN rt
  BY DEF RuntimeInv, Local, Shaped
<1>2. /\ LocalFields \subseteq DOMAIN n /\ n.pc = "finish"
      /\ \A field \in LocalFields \ {"pc", "res"} : n[field] = rt[field]
  BY <1>1 DEF Success, LocalFields
<1>3. GroundedIn(rt.answer, rt.snaps)
  BY DEF RuntimeInv, Local, Answering, Early, Late, GroundedIn, NoAnswer
<1>4. Local(n) /\ Current(n)
  BY <1>2, <1>3 DEF LocalFields, RuntimeInv, Local, Shaped, Reading, Answering, Routed,
     Scoped, Current, Places, Early, Entry, Late
<1>5. rt.seq <= Events(n)
  <2>1. Events(n) = req.maxRefs + 6 + TextChunks
    BY <1>2 DEF Events
  <2>2. rt.seq <= req.maxRefs + 3 + TextChunks
    <3>1. CASE rt.pc = "prepared"
      BY <3>1, Numbers0 DEF RuntimeInv, Counted, Events
    <3>2. CASE rt.pc = "assistant"
      BY <3>2, Numbers0 DEF RuntimeInv, Counted, Events
    <3>. QED BY <3>1, <3>2
  <2>. QED BY <2>1, <2>2, Numbers0
<1>. QED BY <1>2, <1>4, <1>5 DEF LocalFields

LEMMA RouteStep == RuntimeInv /\ Route => Goes
<1> SUFFICES ASSUME RuntimeInv, Route PROVE Goes
  OBVIOUS
<1>1. rt.pc = "prepared" /\ FilesAlone
  BY DEF Route, At
<1>2. CASE token
  <2> PICK n : n = Success
    OBVIOUS
  <2>. QED BY <1>1, <1>2, SuccessFits, QuietStep DEF Route
<1>3. ASSUME NEW place \in {"context", "local", "edit"},
             place = "context" => rt.snaps # <<>> \/ req.command = "inspect",
             Quietly(GoTo(place))
      PROVE  Goes
  <2> PICK n : n = GoTo(place)
    OBVIOUS
  <2>1. /\ LocalFields \subseteq DOMAIN n
        /\ n.pc = place
        /\ \A field \in LocalFields \ {"pc"} : n[field] = rt[field]
    BY GoToFields
  <2>2. Local(n) /\ Current(n) /\ rt.seq <= Events(n)
    BY <1>1, <1>3, <2>1 DEF LocalFields, RuntimeInv, Counted, Local, Shaped, Reading, Answering,
       Routed, Scoped, Current, Events, Places, Early, Entry, Late
  <2>3. n.seq = rt.seq /\ n.texts = rt.texts /\ n.status = rt.status
    BY <2>1 DEF LocalFields
  <2>. QED BY <1>1, <1>3, <2>1, <2>2, <2>3, QuietStep
<1>4. CASE /\ Quietly([GoTo("assistant") EXCEPT !.route = "automatic_assistant"])
           /\ ~(Scope # "automatic" /\ rt.snaps # <<>>)
  <2> PICK n : n = [GoTo("assistant") EXCEPT !.route = "automatic_assistant"]
    OBVIOUS
  <2>1. /\ LocalFields \subseteq DOMAIN n
        /\ n.pc = "assistant" /\ n.route = "automatic_assistant"
        /\ \A field \in LocalFields \ {"pc", "route"} : n[field] = rt[field]
    BY GoToFields DEF LocalFields
  <2>2. GroundedIn(rt.answer, rt.snaps)
    BY <1>1 DEF RuntimeInv, Local, Answering, Early, GroundedIn, NoAnswer
  <2>3. ~Strict
    BY <1>1, <1>4, ScopeOfRequest DEF RuntimeInv, Local, Scoped
  <2>4. Shaped(n) /\ Reading(n) /\ Routed(n) /\ Current(n)
    BY <1>1, <2>1 DEF LocalFields, RuntimeInv, Local, Shaped, Reading, Routed,
       Current, Places, Early, Entry, Late
  <2>5. Answering(n) /\ Scoped(n)
    BY <1>1, <2>1, <2>2, <2>3, Numbers0 DEF LocalFields, RuntimeInv, Local, Answering, Scoped,
       Early, Entry, Late
  <2>6. rt.seq <= Events(n)
    <3>1. Events(n) = req.maxRefs + 3
      <4>1. n.left = TextChunks
        BY <1>1, <2>1 DEF LocalFields, RuntimeInv, Local, Answering, Early, Entry
      <4>. QED BY <2>1, <4>1, Numbers0 DEF Events
    <3>2. rt.seq <= req.maxRefs + 3
      BY <1>1 DEF RuntimeInv, Counted, Events
    <3>. QED BY <3>1, <3>2
  <2>7. n.seq = rt.seq /\ n.texts = rt.texts /\ n.status = rt.status
    BY <2>1 DEF LocalFields
  <2>. QED BY <1>1, <1>4, <2>1, <2>4, <2>5, <2>6, <2>7, QuietStep DEF Local
<1>5. req.command \in Commands \ {"unknown"}
  BY <1>1 DEF RuntimeInv, Local, Reading
<1>. QED BY <1>1, <1>2, <1>3, <1>4, <1>5 DEF Route, Commands, GroundedCommands

-----------------------------------------------------------------------------
(* The grounded route.                                                      *)

(* A set of numbers that is bounded has a greatest element, which Max finds.*)
LEMMA GreatestElement ==
  ASSUME NEW N \in Nat, NEW S, S \subseteq 1..N, S # {}
  PROVE  Max(S) \in S
<1>. DEFINE R == OpToRel(<, Nat)
            T == {N - i : i \in S}
<1>0. T \subseteq Nat /\ T # {}
  <2>1. \A i \in S : i \in Nat /\ i <= N /\ N - i \in Nat
    OBVIOUS
  <2>. QED BY <2>1
<1>1. \E k \in T : \A j \in T : ~(<<j, k>> \in R)
  <2>. HIDE DEF T
  <2>. QED BY <1>0, NatLessThanWellFounded, WFMin
<1>2. \A k, j \in T : j < k => <<j, k>> \in R
  BY <1>0 DEF OpToRel
<1>. HIDE DEF R
<1>3. PICK k \in T : \A j \in T : ~(j < k)
  BY <1>1, <1>2
<1>4. PICK i \in S : k = N - i
  OBVIOUS
<1>5. \A j \in S : i >= j
  <2>1. ASSUME NEW j \in S PROVE i >= j
    <3>1. N - j \in T /\ ~(N - j < N - i)
      BY <1>3, <1>4
    <3>. QED BY <3>1, <1>4
  <2>. QED BY <2>1
<1>. QED BY <1>4, <1>5 DEF Max

(* An answer that passes the validator is grounded in the snapshots the     *)
(* manifest was built from (validate_evidence, build_context_manifest).     *)
LEMMA ValidIsGrounded ==
  ASSUME NEW snaps \in Seq(Snapshots), NEW scope, NEW mode, NEW a, Numbered(a),
         ValidateEvidence(a, ContextManifest(scope, snaps), mode)
  PROVE  GroundedIn(a, snaps)
<1> PICK m : m = ContextManifest(scope, snaps)
  OBVIOUS
<1>1. /\ Len(m.entries) = Len(snaps)
      /\ \A i \in 1..Len(snaps) :
           /\ m.entries[i].path = snaps[i].path
           /\ m.entries[i].hash = InjectedHash(snaps[i].path, snaps[i].ver, snaps[i].lo, snaps[i].hi)
           /\ m.entries[i].lo = snaps[i].lo /\ m.entries[i].hi = snaps[i].hi
  BY DEF ContextManifest, ManifestEntry
<1>2. ASSUME NEW c, c.lo \in Int, c.hi \in Int, CitationHolds(c, m)
      PROVE  CitesSnapshot(c, snaps)
  <2> PICK S : S = {i \in 1..Len(m.entries) : m.entries[i].path = c.path}
    OBVIOUS
  <2>1. S \subseteq 1..Len(snaps) /\ S # {} /\ Len(snaps) \in Nat
    BY <1>1, <1>2 DEF CitationHolds, InjectedPaths
  <2>2. PICK k : k = Max(S)
    OBVIOUS
  <2>3. k \in S
    BY <2>1, <2>2, GreatestElement
  <2>4. EntryOf(m, c.path) = m.entries[k]
    BY <2>2 DEF EntryOf
  <2>5. k \in 1..Len(snaps) /\ snaps[k] \in Snapshots /\ snaps[k].path = c.path
    BY <1>1, <2>1, <2>3
  <2>6. snaps[k].lo \in Nat /\ snaps[k].hi \in Nat
    BY <2>5 DEF Snapshots
  <2>7. /\ c.hash = InjectedHash(snaps[k].path, snaps[k].ver, snaps[k].lo, snaps[k].hi)
        /\ c.lo >= snaps[k].lo /\ c.hi <= snaps[k].hi /\ c.lo <= c.hi
    BY <1>1, <1>2, <2>4, <2>5 DEF CitationHolds
  <2>8. c.lo \in snaps[k].lo..snaps[k].hi /\ c.hi \in c.lo..snaps[k].hi
    BY <1>2, <2>6, <2>7
  <2>. QED BY <2>5, <2>7, <2>8 DEF CitesSnapshot
<1>3. ASSUME NEW i \in 1..Len(a.claims)
      PROVE  /\ a.claims[i].class \in NeedsEvidence => a.claims[i].evidence # {}
             /\ \A c \in a.claims[i].evidence : CitesSnapshot(c, snaps)
  <2>1. ClaimHolds(a.claims[i], a, m, mode)
    BY <1>3 DEF ValidateEvidence
  <2>2. \A c \in a.claims[i].evidence : CitesSnapshot(c, snaps)
    BY <1>2, <1>3, <2>1 DEF ClaimHolds, Numbered
  <2>3. a.claims[i].class \in NeedsEvidence => a.claims[i].evidence # {}
    BY <2>1 DEF ClaimHolds, EvidenceRequired
  <2>. QED BY <2>2, <2>3
<1>. QED BY <1>3 DEF GroundedIn

(* Whatever a model answers, the lines it cites are numbers.                *)
LEMMA DeparturesNumbered ==
  ASSUME NEW snaps \in Seq(Snapshots), snaps # <<>>, NEW r \in Departures(snaps)
  PROVE  Numbered(r)
<1> PICK h : h = Honest(snaps)
  OBVIOUS
<1> PICK c : c = Citation(snaps[1])
  OBVIOUS
<1> DEFINE Good(e) == \A x \in e : x.lo \in Int /\ x.hi \in Int
           With(claim) == [h EXCEPT !.claims = <<claim>> \o Tail(h.claims)]
<1>1. Len(snaps) \in Nat /\ Len(snaps) >= 1 /\ \A i \in 1..Len(snaps) : snaps[i] \in Snapshots
  OBVIOUS
<1>2. \A s \in Snapshots : Citation(s).lo \in Nat /\ Citation(s).hi \in Nat
  BY DEF Citation, Snapshots
<1>3. /\ h = [empty |-> FALSE, says |-> {}, general |-> FALSE, claims |-> h.claims]
      /\ h.claims = [i \in 1..Len(snaps) |-> Claim(i, snaps[i])]
  BY DEF Honest
<1>4. h.claims \in Seq({Claim(i, snaps[i]) : i \in 1..Len(snaps)}) /\ Len(h.claims) = Len(snaps)
  BY <1>1, <1>3
<1>5. \A i \in 1..Len(snaps) : Good(h.claims[i].evidence)
  BY <1>1, <1>2, <1>3 DEF Claim
<1>6. c.lo \in Nat /\ c.hi \in Nat /\ c = [path |-> c.path, lo |-> c.lo, hi |-> c.hi, hash |-> c.hash]
  BY <1>1, <1>2 DEF Citation
<1>7. Numbered(h) /\ Numbered(NoAnswer)
  BY <1>4, <1>5 DEF Numbered, NoAnswer
<1>8. ASSUME NEW claim, Good(claim.evidence)
      PROVE  Numbered(With(claim))
  <2> PICK s : s = <<claim>> \o Tail(h.claims)
    OBVIOUS
  <2>1. Len(s) = Len(snaps) /\ s[1] = claim /\ \A i \in 2..Len(snaps) : s[i] = h.claims[i]
    BY <1>1, <1>4
  <2>2. \A i \in 1..Len(s) : Good(s[i].evidence)
    BY <1>5, <1>8, <2>1
  <2>3. With(claim).claims = s
    BY <1>3
  <2>. QED BY <1>1, <2>1, <2>2, <2>3 DEF Numbered
<1> PICK d : d = h.claims[1]
  OBVIOUS
<1>9. /\ d = [id |-> 1, class |-> "observed", words |-> "source", absence |-> FALSE,
              evidence |-> d.evidence]
      /\ d.evidence = {c}
  <2>1. d = Claim(1, snaps[1])
    BY <1>1, <1>3
  <2>. QED BY <2>1 DEF Claim
<1>10. /\ \A e : [d EXCEPT !.evidence = e].evidence = e
       /\ [d EXCEPT !.evidence = {}, !.class = "general_knowledge"].evidence = {}
       /\ [d EXCEPT !.words = "foreign"].evidence = {c}
       /\ [d EXCEPT !.words = "task", !.absence = TRUE].evidence = {c}
  BY <1>9
<1>11. /\ Good({}) /\ Good({c})
       /\ \A p \in Paths : Good({[c EXCEPT !.path = p]})
       /\ \A x : Good({[c EXCEPT !.hash = x]})
  BY <1>6
<1>12. Good({[c EXCEPT !.hi = c.hi + 1]})
  <2> PICK k : k = c.hi + 1
    OBVIOUS
  <2>1. k \in Int /\ [c EXCEPT !.hi = k].hi = k /\ [c EXCEPT !.hi = k].lo = c.lo
    BY <1>6
  <2>. QED BY <1>6, <2>1
<1>13. Numbered([h EXCEPT !.claims = <<>>])
  <2>1. [h EXCEPT !.claims = <<>>].claims = <<>>
    BY <1>3
  <2>. QED BY <2>1 DEF Numbered
<1>14. Numbered([h EXCEPT !.claims = h.claims \o <<d>>])
  <2> PICK s : s = h.claims \o <<d>>
    OBVIOUS
  <2>1. [h EXCEPT !.claims = s].claims = s
    BY <1>3
  <2> PICK C : C = {Claim(i, snaps[i]) : i \in 1..Len(snaps)}
    OBVIOUS
  <2>3. h.claims \in Seq(C) /\ <<d>> \in Seq(C) /\ Len(<<d>>) = 1 /\ <<d>>[1] = d
    BY <1>1, <1>4
  <2>2. Len(s) = Len(snaps) + 1
        /\ \A i \in 1..Len(s) : s[i] = d \/ (i \in 1..Len(snaps) /\ s[i] = h.claims[i])
    <3>1. /\ Len(s) = Len(h.claims) + Len(<<d>>)
          /\ \A i \in 1..Len(h.claims) + Len(<<d>>) :
               s[i] = IF i <= Len(h.claims) THEN h.claims[i] ELSE <<d>>[i - Len(h.claims)]
      BY <2>3, ConcatProperties
    <3>2. ASSUME NEW i \in 1..Len(snaps) + 1, i > Len(snaps)
          PROVE  i - Len(snaps) = 1
      BY <1>1, <3>2
    <3>. QED BY <1>1, <1>4, <2>3, <3>1, <3>2
  <2>4. \A i \in 1..Len(s) : Good(s[i].evidence)
    BY <1>5, <1>9, <1>11, <2>2
  <2>. QED BY <1>1, <2>1, <2>2, <2>4 DEF Numbered
<1>15. /\ Numbered([h EXCEPT !.general = TRUE])
       /\ \A f : Numbered([h EXCEPT !.says = {f}])
  <2>1. [h EXCEPT !.general = TRUE].claims = h.claims
        /\ \A f : [h EXCEPT !.says = {f}].claims = h.claims
    BY <1>3
  <2>. QED BY <1>7, <2>1 DEF Numbered
<1>16. \A e : Good(e) => Numbered(With([d EXCEPT !.evidence = e]))
  BY <1>8, <1>10
<1>17. /\ Numbered(With([d EXCEPT !.evidence = {}, !.class = "general_knowledge"]))
       /\ Numbered(With([d EXCEPT !.words = "foreign"]))
       /\ Numbered(With([d EXCEPT !.words = "task", !.absence = TRUE]))
  BY <1>8, <1>10, <1>11
<1>18. /\ \A p \in Paths : Numbered(With([d EXCEPT !.evidence = {[c EXCEPT !.path = p]}]))
       /\ \A x : Numbered(With([d EXCEPT !.evidence = {[c EXCEPT !.hash = x]}]))
       /\ Numbered(With([d EXCEPT !.evidence = {[c EXCEPT !.hi = c.hi + 1]}]))
       /\ Numbered(With([d EXCEPT !.evidence = {}]))
  BY <1>11, <1>12, <1>16
<1>19. \/ r \in {h, NoAnswer, [h EXCEPT !.claims = <<>>],
                 [h EXCEPT !.claims = h.claims \o <<d>>], [h EXCEPT !.general = TRUE]}
       \/ r \in {With([d EXCEPT !.evidence = {}]),
                 With([d EXCEPT !.evidence = {}, !.class = "general_knowledge"]),
                 With([d EXCEPT !.words = "foreign"]),
                 With([d EXCEPT !.words = "task", !.absence = TRUE])}
       \/ \E f \in Features : r = [h EXCEPT !.says = {f}]
       \/ \E p \in Paths : r = With([d EXCEPT !.evidence = {[c EXCEPT !.path = p]}])
       \/ \E v \in Versions :
            r = With([d EXCEPT !.evidence = {[c EXCEPT !.hash = InjectedHash(c.path, v, c.lo, c.hi)]}])
       \/ r = With([d EXCEPT !.evidence = {[c EXCEPT !.hi = c.hi + 1]}])
  BY ZenonT(60) DEF Departures
<1>. HIDE DEF With
<1>20. CASE r \in {h, NoAnswer, [h EXCEPT !.claims = <<>>],
                  [h EXCEPT !.claims = h.claims \o <<d>>], [h EXCEPT !.general = TRUE]}
  BY <1>7, <1>13, <1>14, <1>15, <1>20
<1>21. CASE r \in {With([d EXCEPT !.evidence = {}]),
                  With([d EXCEPT !.evidence = {}, !.class = "general_knowledge"]),
                  With([d EXCEPT !.words = "foreign"]),
                  With([d EXCEPT !.words = "task", !.absence = TRUE])}
  BY <1>17, <1>18, <1>21
<1>22. CASE \E f \in Features : r = [h EXCEPT !.says = {f}]
  BY <1>15, <1>22
<1>23. CASE \E p \in Paths : r = With([d EXCEPT !.evidence = {[c EXCEPT !.path = p]}])
  BY <1>18, <1>23
<1>24. CASE \E v \in Versions :
              r = With([d EXCEPT !.evidence = {[c EXCEPT !.hash = InjectedHash(c.path, v, c.lo, c.hi)]}])
  <2>1. PICK v \in Versions :
           r = With([d EXCEPT !.evidence = {[c EXCEPT !.hash = InjectedHash(c.path, v, c.lo, c.hi)]}])
    BY <1>24
  <2> PICK x : x = InjectedHash(c.path, v, c.lo, c.hi)
    OBVIOUS
  <2>2. r = With([d EXCEPT !.evidence = {[c EXCEPT !.hash = x]}])
    BY <2>1
  <2>. QED BY <1>18, <2>2
<1>25. CASE r = With([d EXCEPT !.evidence = {[c EXCEPT !.hi = c.hi + 1]}])
  BY <1>18, <1>25
<1>. QED BY <1>19, <1>20, <1>21, <1>22, <1>23, <1>24, <1>25

LEMMA GroundedContextStep == RuntimeInv /\ GroundedContext => Goes
<1> SUFFICES ASSUME RuntimeInv, GroundedContext PROVE Goes
  OBVIOUS
<1>1. rt.pc = "context" /\ FilesAlone
  BY DEF GroundedContext, At
<1>2. CASE token
  BY <1>1, <1>2, FailsAloud DEF GroundedContext
<1>3. CASE ~token
  <2> PICK n : n = GoTo("facts")
    OBVIOUS
  <2>1. /\ LocalFields \subseteq DOMAIN n
        /\ n.pc = "facts"
        /\ \A field \in LocalFields \ {"pc"} : n[field] = rt[field]
    BY GoToFields
  <2>2. Local(n) /\ Current(n)
    BY <1>1, <2>1 DEF LocalFields, RuntimeInv, Local, Shaped, Reading, Answering, Routed,
       Scoped, Current, Places, Early, Entry, Late
  <2>3. rt.seq + 1 <= Events(n)
    <3>1. Events(n) = req.maxRefs + 4 /\ rt.seq <= req.maxRefs + 3
      BY <1>1, <2>1 DEF RuntimeInv, Counted, Events
    <3>. QED BY <3>1, Numbers0
  <2>4. n.texts = rt.texts /\ n.status = rt.status
    BY <2>1 DEF LocalFields
  <2>. QED BY <1>1, <1>3, <2>1, <2>2, <2>3, <2>4, ProgressStep DEF GroundedContext
<1>. QED BY <1>2, <1>3

(* The answer is there: from now on `since` tells what each file has been.  *)
LEMMA AnswerArrives ==
  ASSUME RuntimeInv, UNCHANGED <<req, token, ver, saves>>, since' = [p \in Paths |-> {ver[p]}],
         NEW n, rt' = n, Local(n), n.pc \in {"generated", "check"},
         n.seq \in Nat, n.seq <= Events(n)
  PROVE  RuntimeInv'
<1>1. \A p \in Paths : ver[p] \in Nat
  BY DEF RuntimeInv, World
<1>2. World'
  BY <1>1 DEF RuntimeInv, World
<1>3. Shaped(rt)' /\ Reading(rt)' /\ Routed(rt)' /\ Answering(rt)' /\ Scoped(rt)'
  BY DEF Local, Shaped, Reading, Routed, Answering, Scoped, Strict, RangeExists, Lo, Hi
<1>4. Current(rt)'
  BY DEF Current
<1>5. Counted'
  BY DEF Counted, Events
<1>. QED BY <1>2, <1>3, <1>4, <1>5 DEF RuntimeInv, Local

LEMMA FactsStep == RuntimeInv /\ Facts => Goes
<1> SUFFICES ASSUME RuntimeInv, Facts PROVE Goes
  OBVIOUS
<1>1. rt.pc = "facts"
  BY DEF Facts, At
<1>2. CASE Quietly(GoTo("provider")) /\ UNCHANGED since
  <2> PICK n : n = GoTo("provider")
    OBVIOUS
  <2>1. /\ LocalFields \subseteq DOMAIN n
        /\ n.pc = "provider"
        /\ \A field \in LocalFields \ {"pc"} : n[field] = rt[field]
    BY GoToFields
  <2>2. Local(n) /\ Current(n) /\ rt.seq <= Events(n)
    BY <1>1, <2>1 DEF LocalFields, RuntimeInv, Counted, Local, Shaped, Reading, Answering, Routed,
       Scoped, Current, Events, Places, Early, Entry, Late
  <2>3. n.seq = rt.seq /\ n.texts = rt.texts /\ n.status = rt.status
    BY <2>1 DEF LocalFields
  <2>4. FilesAlone
    BY <1>2 DEF Facts, FilesAlone
  <2>. QED BY <1>1, <1>2, <2>1, <2>2, <2>3, <2>4, QuietStep
<1>3. CASE Quietly(Failure) /\ UNCHANGED since
  <2>1. FilesAlone
    BY <1>3 DEF Facts, FilesAlone
  <2>. QED BY <1>1, <1>3, <2>1, Fails
<1>4. CASE /\ Len(rt.snaps) = 1
           /\ Emit("progress", [GoTo("check") EXCEPT !.answer = DocumentFacts(rt.snaps[1]),
                                                     !.route = "document_facts"])
           /\ since' = [p \in Paths |-> {ver[p]}]
  <2> PICK a, s : a = DocumentFacts(rt.snaps[1]) /\ s = rt.seq + 1
    OBVIOUS
  <2> PICK n : n = [GoTo("check") EXCEPT !.answer = a, !.route = "document_facts"]
    OBVIOUS
  <2> PICK m : m = [n EXCEPT !.seq = s]
    OBVIOUS
  <2>0. /\ LocalFields \subseteq DOMAIN n /\ n.pc = "check" /\ n.answer = a
        /\ n.route = "document_facts"
        /\ \A field \in LocalFields \ {"pc", "answer", "route"} : n[field] = rt[field]
    <3> PICK g : g = GoTo("check")
      OBVIOUS
    <3>1. /\ LocalFields \subseteq DOMAIN g /\ g.pc = "check"
          /\ \A field \in LocalFields \ {"pc"} : g[field] = rt[field]
      BY GoToFields
    <3>2. n = [g EXCEPT !.answer = a, !.route = "document_facts"]
      OBVIOUS
    <3>. QED BY <3>1, <3>2 DEF LocalFields
  <2>1. /\ LocalFields \subseteq DOMAIN m /\ m.pc = "check" /\ m.answer = a
        /\ m.route = "document_facts" /\ m.seq = s
        /\ \A field \in LocalFields \ {"pc", "answer", "route", "seq"} : m[field] = rt[field]
    BY <2>0 DEF LocalFields
  <2>2. rt.snaps \in Seq(Snapshots) /\ rt.snaps[1] \in Snapshots
    BY <1>4 DEF RuntimeInv, Local, Shaped
  <2>3. Numbered(a)
    <3> PICK x : x = rt.snaps[1]
      OBVIOUS
    <3>1. x.lo \in Nat
      BY <2>2 DEF Snapshots
    <3>. QED BY <3>1 DEF DocumentFacts, Numbered
  <2>4. Shaped(m) /\ Reading(m) /\ Routed(m) /\ Scoped(m)
    <3>1. Shaped(m)
      BY <1>1, <2>1 DEF LocalFields, RuntimeInv, Local, Shaped, Places
    <3>2. Reading(m)
      BY <1>1, <2>1 DEF LocalFields, RuntimeInv, Local, Reading, Entry
    <3>3. Routed(m) /\ Scoped(m)
      BY <1>1, <2>1 DEF LocalFields, RuntimeInv, Local, Routed, Scoped, Early, Entry
    <3>. QED BY <3>1, <3>2, <3>3
  <2>5. Answering(m)
    BY <1>1, <2>1, <2>3 DEF LocalFields, RuntimeInv, Local, Answering, Early, Entry, Late
  <2>6. s \in Nat /\ s <= Events(m)
    <3>1. Events(m) = req.maxRefs + 5 /\ rt.seq <= req.maxRefs + 4
      BY <1>1, <2>1 DEF RuntimeInv, Counted, Events
    <3>. QED BY <3>1, Numbers0, SMTT(30)
  <2> PICK kind : kind = "progress"
    OBVIOUS
  <2>7. /\ rt' = m /\ Len(pipe) < PipeCapacity
        /\ pipe' = Append(pipe, [seq |-> rt.seq, type |-> kind])
    BY <1>4 DEF Emit
  <2>8. RuntimeInv'
    BY <1>4, <2>1, <2>4, <2>5, <2>6, <2>7, AnswerArrives DEF Facts, Local
  <2>9. m.texts = rt.texts /\ m.status = rt.status /\ rt.texts + 0 = rt.texts
    <3>1. m.texts = rt.texts /\ m.status = rt.status
      BY <2>1 DEF LocalFields
    <3>2. rt.texts + 0 = rt.texts
      BY Numbers0
    <3>. QED BY <3>1, <3>2
  <2>10. kind \in Kinds /\ kind \notin ChatTerminals /\ kind # "text" /\ kind # "completed"
    BY DEF Kinds, ChatTerminals
  <2>11. Sends(kind)
    BY <2>1, <2>7, <2>9, <2>10 DEF Sends
  <2>. QED BY <1>1, <2>1, <2>7, <2>8, <2>10, <2>11 DEF Goes, Spoken
<1>. QED BY <1>2, <1>3, <1>4 DEF Facts

LEMMA StartProviderStep == RuntimeInv /\ StartProvider => Goes
<1> SUFFICES ASSUME RuntimeInv, StartProvider PROVE Goes
  OBVIOUS
<1>1. rt.pc = "provider" /\ FilesAlone
  BY DEF StartProvider, At
<1>2. CASE HasApp /\ Emit("progress", [GoTo("generate") EXCEPT !.route = "reference_llm"])
  <2> PICK n : n = [GoTo("generate") EXCEPT !.route = "reference_llm"]
    OBVIOUS
  <2>1. /\ LocalFields \subseteq DOMAIN n
        /\ n.pc = "generate" /\ n.route = "reference_llm"
        /\ \A field \in LocalFields \ {"pc", "route"} : n[field] = rt[field]
    BY GoToFields DEF LocalFields
  <2>2. n.snaps # <<>>
    BY <1>1, <1>2, <2>1 DEF HasApp, LocalFields, RuntimeInv, Local, Routed
  <2>3. Local(n) /\ Current(n)
    BY <1>1, <2>1, <2>2 DEF LocalFields, RuntimeInv, Local, Shaped, Reading, Answering, Routed,
       Scoped, Current, Places, Early, Entry, Late
  <2>4. rt.seq + 1 <= Events(n)
    <3>1. Events(n) = req.maxRefs + 5 /\ rt.seq <= req.maxRefs + 4
      BY <1>1, <2>1 DEF RuntimeInv, Counted, Events
    <3>. QED BY <3>1, Numbers0
  <2>5. n.texts = rt.texts /\ n.status = rt.status
    BY <2>1 DEF LocalFields
  <2>. QED BY <1>1, <1>2, <2>1, <2>3, <2>4, <2>5, ProgressStep
<1>. QED BY <1>1, <1>2, Fails DEF StartProvider

LEMMA GenerateStep == RuntimeInv /\ Generate => Goes
<1> SUFFICES ASSUME RuntimeInv, Generate PROVE Goes
  OBVIOUS
<1>1. rt.pc = "generate"
  BY DEF Generate, At
<1>2. CASE Quietly(Failure) /\ FilesAlone
  BY <1>1, <1>2, Fails
<1>3. CASE Quietly([rt EXCEPT !.asked = TRUE]) /\ FilesAlone
  <2> PICK n : n = [rt EXCEPT !.asked = TRUE]
    OBVIOUS
  <2>0. LocalFields \subseteq DOMAIN rt
    BY DEF RuntimeInv, Local, Shaped
  <2>1. /\ LocalFields \subseteq DOMAIN n
        /\ \A field \in LocalFields \ {"asked"} : n[field] = rt[field]
    BY <2>0
  <2>2. Local(n) /\ Current(n) /\ rt.seq <= Events(n)
    BY <1>1, <2>1 DEF LocalFields, RuntimeInv, Counted, Local, Shaped, Reading, Answering, Routed,
       Scoped, Current, Events, Places, Early, Entry, Late
  <2>3. n.seq = rt.seq /\ n.texts = rt.texts /\ n.status = rt.status /\ n.pc = rt.pc
    BY <2>1 DEF LocalFields
  <2>. QED BY <1>1, <1>3, <2>2, <2>3, QuietStep
<1>4. CASE ~token /\ \E r \in Departures(rt.snaps) : Answered(r)
  <2>1. PICK r \in Departures(rt.snaps) : Answered(r)
    BY <1>4
  <2> PICK n : n = [GoTo("generated") EXCEPT !.answer = r]
    OBVIOUS
  <2>2. /\ LocalFields \subseteq DOMAIN n /\ n.pc = "generated" /\ n.answer = r
        /\ \A field \in LocalFields \ {"pc", "answer"} : n[field] = rt[field]
    BY GoToFields DEF LocalFields
  <2>3. Numbered(r)
    BY <1>1, DeparturesNumbered DEF RuntimeInv, Local, Shaped, Routed
  <2>4. Shaped(n) /\ Reading(n) /\ Routed(n) /\ Scoped(n)
    BY <1>1, <2>2 DEF LocalFields, RuntimeInv, Local, Shaped, Reading, Routed,
       Scoped, Places, Early, Entry, Late
  <2>5. Answering(n)
    BY <1>1, <2>2, <2>3 DEF LocalFields, RuntimeInv, Local, Answering, Early, Entry, Late
  <2>6. n.seq = rt.seq /\ n.texts = rt.texts /\ n.status = rt.status /\ n.seq <= Events(n)
    BY <1>1, <2>2 DEF LocalFields, RuntimeInv, Counted, Events
  <2>7. rt' = n /\ pipe' = pipe
    BY <2>1 DEF Answered
  <2>8. RuntimeInv'
    BY <2>1, <2>2, <2>4, <2>5, <2>6, <2>7, Numbers0, AnswerArrives DEF Answered, Local
  <2>. QED BY <1>1, <2>2, <2>6, <2>7, <2>8 DEF Goes, Spoken, Silent
<1>. QED BY <1>2, <1>3, <1>4 DEF Generate

LEMMA GeneratedStep == RuntimeInv /\ Generated => Goes
<1> SUFFICES ASSUME RuntimeInv, Generated PROVE Goes
  OBVIOUS
<1>1. rt.pc = "generated" /\ FilesAlone
  BY DEF Generated, At
<1>2. CASE token
  BY <1>1, <1>2, Fails DEF Generated
<1>3. CASE ~token
  <2> PICK n : n = GoTo("check")
    OBVIOUS
  <2>1. /\ LocalFields \subseteq DOMAIN n
        /\ n.pc = "check"
        /\ \A field \in LocalFields \ {"pc"} : n[field] = rt[field]
    BY GoToFields
  <2>2. Local(n) /\ Current(n) /\ rt.seq <= Events(n)
    BY <1>1, <2>1 DEF LocalFields, RuntimeInv, Counted, Local, Shaped, Reading, Answering, Routed,
       Scoped, Current, Events, Places, Early, Entry, Late
  <2>3. n.seq = rt.seq /\ n.texts = rt.texts /\ n.status = rt.status
    BY <2>1 DEF LocalFields
  <2>. QED BY <1>1, <1>3, <2>1, <2>2, <2>3, QuietStep DEF Generated
<1>. QED BY <1>2, <1>3

LEMMA CheckAnswerStep == RuntimeInv /\ CheckAnswer => Goes
<1> SUFFICES ASSUME RuntimeInv, CheckAnswer PROVE Goes
  OBVIOUS
<1>1. rt.pc = "check" /\ FilesAlone
  BY DEF CheckAnswer, At
<1>2. CASE Emit("progress", Failure)
  BY <1>1, <1>2, FailsAloud
<1>3. CASE /\ ValidateEvidence(rt.answer, Manifest, req.evidence)
           /\ Emit("progress", [GoTo("revalidate") EXCEPT !.ix = 1])
  <2> PICK n : n = [GoTo("revalidate") EXCEPT !.ix = 1]
    OBVIOUS
  <2>1. /\ LocalFields \subseteq DOMAIN n
        /\ n.pc = "revalidate" /\ n.ix = 1
        /\ \A field \in LocalFields \ {"pc", "ix"} : n[field] = rt[field]
    BY GoToFields DEF LocalFields
  <2>2. GroundedIn(rt.answer, rt.snaps)
    BY <1>1, <1>3, ValidIsGrounded DEF Manifest, RuntimeInv, Local, Shaped, Answering
  <2>3. Shaped(n) /\ Reading(n) /\ Routed(n) /\ Scoped(n)
    BY <1>1, <2>1 DEF LocalFields, RuntimeInv, Local, Shaped, Reading, Routed,
       Scoped, Places, Early, Entry, Late
  <2>4. Answering(n)
    BY <1>1, <2>1, <2>2 DEF LocalFields, RuntimeInv, Local, Answering, Early, Entry, Late
  <2>5. Current(n)
    BY <1>1, <2>1 DEF RuntimeInv, Current
  <2>6. rt.seq + 1 <= Events(n)
    <3>1. Events(n) = req.maxRefs + 6 /\ rt.seq <= req.maxRefs + 5
      BY <1>1, <2>1 DEF RuntimeInv, Counted, Events
    <3>. QED BY <3>1, Numbers0
  <2>7. n.texts = rt.texts /\ n.status = rt.status
    BY <2>1 DEF LocalFields
  <2>. QED BY <1>1, <1>3, <2>1, <2>3, <2>4, <2>5, <2>6, <2>7, ProgressStep DEF Local
<1>. QED BY <1>2, <1>3 DEF CheckAnswer

LEMMA RevalidateStep == RuntimeInv /\ Revalidate => Goes
<1> SUFFICES ASSUME RuntimeInv, Revalidate PROVE Goes
  OBVIOUS
<1>1. rt.pc = "revalidate" /\ FilesAlone
  BY DEF Revalidate, At
<1>2. rt.snaps \in Seq(Snapshots) /\ Len(rt.snaps) \in Nat
  BY DEF RuntimeInv, Local, Shaped
<1>3. CASE Quietly(Failure)
  BY <1>1, <1>3, Fails
<1>4. CASE rt.ix > Len(rt.snaps) /\ Quietly(GoTo("text"))
  <2> PICK n : n = GoTo("text")
    OBVIOUS
  <2>1. /\ LocalFields \subseteq DOMAIN n
        /\ n.pc = "text"
        /\ \A field \in LocalFields \ {"pc"} : n[field] = rt[field]
    BY GoToFields
  <2>2. Local(n)
    BY <1>1, <2>1, Numbers0, SMTT(30)
       DEF LocalFields, RuntimeInv, Local, Shaped, Reading, Answering, Routed,
       Scoped, Places, Early, Entry, Late
  <2>3. Current(n)
    BY <1>1, <1>2, <1>4, <2>1, Numbers0 DEF LocalFields, RuntimeInv, Current, Seen
  <2>4. n.seq = rt.seq /\ n.texts = rt.texts /\ n.status = rt.status
    BY <2>1 DEF LocalFields
  <2>5. rt.seq <= Events(n)
    <3>1. n.left = TextChunks
      BY <1>1, <2>1 DEF LocalFields, RuntimeInv, Local, Answering
    <3>2. Events(n) = req.maxRefs + 6 + (TextChunks - TextChunks) /\ rt.seq <= req.maxRefs + 6
      BY <1>1, <2>1, <3>1 DEF RuntimeInv, Counted, Events
    <3>. QED BY <3>2, Numbers0
  <2>. QED BY <1>1, <1>4, <2>1, <2>2, <2>3, <2>4, <2>5, QuietStep
<1>5. CASE ~(rt.ix > Len(rt.snaps)) /\ SnapshotCurrent /\ Quietly([rt EXCEPT !.ix = rt.ix + 1])
  <2> PICK i : i = rt.ix + 1
    OBVIOUS
  <2> PICK n : n = [rt EXCEPT !.ix = i]
    OBVIOUS
  <2>0. LocalFields \subseteq DOMAIN rt
    BY DEF RuntimeInv, Local, Shaped
  <2>1. /\ LocalFields \subseteq DOMAIN n /\ n.ix = i
        /\ \A field \in LocalFields \ {"ix"} : n[field] = rt[field]
    BY <2>0 DEF LocalFields
  <2>2. Local(n) /\ rt.seq <= Events(n)
    BY <1>1, <2>1, Numbers0, SMTT(30) DEF LocalFields, RuntimeInv, Counted, Local, Shaped, Reading,
       Answering, Routed, Scoped, Events, Places, Early, Entry, Late
  <2>3. rt.snaps[rt.ix].path \in Paths /\ Seen(rt, rt.ix)
    <3>1. rt.snaps[rt.ix] \in Snapshots
      BY <1>2, <1>5, Numbers0
    <3>2. rt.snaps[rt.ix].path \in Paths
      BY <3>1 DEF Snapshots
    <3>. QED BY <1>1, <1>5, <3>2 DEF SnapshotCurrent, RuntimeInv, Current, Seen
  <2>4. \A j \in 1..Len(rt.snaps) : j < i => j < rt.ix \/ j = rt.ix
    BY <1>2, Numbers0
  <2>5. Current(n)
    BY <1>1, <2>1, <2>3, <2>4 DEF LocalFields, RuntimeInv, Current, Seen
  <2>6. n.seq = rt.seq /\ n.texts = rt.texts /\ n.status = rt.status /\ n.pc = rt.pc
    BY <2>1 DEF LocalFields
  <2>. QED BY <1>1, <1>5, <2>2, <2>5, <2>6, QuietStep
<1>. QED BY <1>3, <1>4, <1>5 DEF Revalidate

(* The words of an answer, whichever route it took.                         *)
LEMMA TextStep ==
  ASSUME RuntimeInv, NEW n, Emit("text", n), FilesAlone, rt.pc # "done",
         rt.pc = "text" \/ rt.route \in {"none", "automatic_assistant"},
         Local(n), Current(n), rt.seq + 1 <= Events(n),
         n.texts = rt.texts + 1, n.status = rt.status, n.pc \notin {"completed", "done"}
  PROVE  Goes
<1> PICK kind : kind = "text"
  OBVIOUS
<1>1. kind \in Kinds /\ kind \notin ChatTerminals /\ kind # "completed"
  BY DEF Kinds, ChatTerminals
<1>. QED BY <1>1, EmitStep

LEMMA EmitTextStep == RuntimeInv /\ EmitText => Goes
<1> SUFFICES ASSUME RuntimeInv, EmitText PROVE Goes
  OBVIOUS
<1>1. rt.pc = "text" /\ FilesAlone
  BY DEF EmitText, At
<1>2. LocalFields \subseteq DOMAIN rt
  BY DEF RuntimeInv, Local, Shaped
<1>3. rt.texts + rt.left = TextChunks /\ rt.left >= 1
  BY <1>1 DEF RuntimeInv, Local, Answering
<1> PICK l, x : l = rt.left - 1 /\ x = rt.texts + 1
  OBVIOUS
<1>4. /\ l \in 0..TextChunks /\ x \in 0..TextChunks /\ x + l = TextChunks
      /\ TextChunks - l = TextChunks - rt.left + 1
  <2>1. rt.left \in Int /\ rt.texts \in Nat /\ TextChunks \in Nat
    BY Numbers0
  <2>. QED BY <1>3, <2>1
<1>5. rt.seq \in Nat /\ rt.seq <= req.maxRefs + 6 + (TextChunks - rt.left)
  BY <1>1 DEF RuntimeInv, Counted, Events
<1>6. CASE rt.left = 1
  <2> PICK m : m = Success
    OBVIOUS
  <2>1. /\ LocalFields \subseteq DOMAIN m /\ m.pc = "finish"
        /\ \A field \in LocalFields \ {"pc", "res"} : m[field] = rt[field]
    BY <1>2 DEF Success, LocalFields
  <2> PICK n : n = [m EXCEPT !.left = l, !.texts = x]
    OBVIOUS
  <2>2. /\ LocalFields \subseteq DOMAIN n /\ n.pc = "finish" /\ n.left = l /\ n.texts = x
        /\ \A field \in LocalFields \ {"pc", "res", "left", "texts"} : n[field] = rt[field]
    BY <2>1 DEF LocalFields
  <2>3. Local(n) /\ Current(n)
    <3>1. Shaped(n) /\ Current(n)
      BY <1>1, <1>4, <2>2 DEF LocalFields, RuntimeInv, Local, Shaped, Current, Places, Late
    <3>2. Reading(n) /\ Routed(n) /\ Scoped(n)
      BY <1>1, <2>2 DEF LocalFields, RuntimeInv, Local, Reading, Routed, Scoped, Early, Entry
    <3>3. Answering(n)
      BY <1>1, <1>4, <2>2 DEF LocalFields, RuntimeInv, Local, Answering, Early, Entry, Late
    <3>. QED BY <3>1, <3>2, <3>3 DEF Local
  <2>4. Events(n) = req.maxRefs + 6 + TextChunks
    BY <2>2 DEF Events
  <2>5. rt.seq + 1 <= Events(n)
    BY <1>5, <1>6, <2>4, Numbers0
  <2>6. n.status = rt.status
    BY <2>2 DEF LocalFields
  <2>7. Emit("text", n)
    BY <1>6 DEF EmitText
  <2>. QED BY <1>1, <2>2, <2>3, <2>5, <2>6, <2>7, TextStep
<1>7. CASE rt.left # 1
  <2> PICK n : n = [rt EXCEPT !.left = l, !.texts = x]
    OBVIOUS
  <2>1. /\ LocalFields \subseteq DOMAIN n /\ n.left = l /\ n.texts = x /\ n.pc = "text"
        /\ \A field \in LocalFields \ {"left", "texts"} : n[field] = rt[field]
    BY <1>1, <1>2 DEF LocalFields
  <2>2. l >= 1
    BY <1>3, <1>7, Numbers0
  <2>3. Shaped(n) /\ Reading(n) /\ Routed(n) /\ Scoped(n)
    BY <1>1, <1>4, <2>1 DEF LocalFields, RuntimeInv, Local, Shaped, Reading, Routed,
       Scoped, Places, Early, Entry, Late
  <2>4. Answering(n)
    BY <1>1, <1>4, <2>1, <2>2 DEF LocalFields, RuntimeInv, Local, Answering, Early, Entry, Late
  <2>5. Current(n)
    BY <1>1, <2>1 DEF LocalFields, RuntimeInv, Current, Seen
  <2>6. Events(n) = req.maxRefs + 6 + (TextChunks - l)
    BY <2>1 DEF Events
  <2>7. rt.seq + 1 <= Events(n)
    <3>1. rt.left \in Int /\ TextChunks \in Nat /\ req.maxRefs \in Nat
      BY Numbers0
    <3>. QED BY <1>4, <1>5, <2>6, <3>1
  <2>8. n.status = rt.status
    BY <2>1 DEF LocalFields
  <2>9. Emit("text", n)
    BY <1>7 DEF EmitText
  <2>. QED BY <1>1, <2>1, <2>3, <2>4, <2>5, <2>7, <2>8, <2>9, TextStep DEF Local
<1>. QED BY <1>6, <1>7

-----------------------------------------------------------------------------
(* The other routes.                                                        *)
LEMMA AssistantStep == RuntimeInv /\ Assistant => Goes
<1> SUFFICES ASSUME RuntimeInv, Assistant PROVE Goes
  OBVIOUS
<1>1. rt.pc = "assistant" /\ FilesAlone
  BY DEF Assistant, At
<1>2. CASE Quietly(Failure)
  BY <1>1, <1>2, Fails
<1>3. CASE Quietly(Success)
  <2> PICK n : n = Success
    OBVIOUS
  <2>. QED BY <1>1, <1>3, SuccessFits, QuietStep
<1>4. CASE /\ rt.left > 0
           /\ Emit("text", [rt EXCEPT !.left = rt.left - 1, !.texts = rt.texts + 1])
  <2>0. LocalFields \subseteq DOMAIN rt
    BY DEF RuntimeInv, Local, Shaped
  <2>1. rt.texts + rt.left = TextChunks /\ rt.route = "automatic_assistant"
    BY <1>1 DEF RuntimeInv, Local, Answering, Routed
  <2> PICK l, x : l = rt.left - 1 /\ x = rt.texts + 1
    OBVIOUS
  <2>2. /\ l \in 0..TextChunks /\ x \in 0..TextChunks /\ x + l = TextChunks
        /\ TextChunks - l = TextChunks - rt.left + 1
    <3>1. rt.left \in Int /\ rt.texts \in Nat /\ TextChunks \in Nat
      BY Numbers0
    <3>. QED BY <1>4, <2>1, <3>1
  <2> PICK n : n = [rt EXCEPT !.left = l, !.texts = x]
    OBVIOUS
  <2>3. /\ LocalFields \subseteq DOMAIN n /\ n.left = l /\ n.texts = x /\ n.pc = "assistant"
        /\ \A field \in LocalFields \ {"left", "texts"} : n[field] = rt[field]
    BY <1>1, <2>0 DEF LocalFields
  <2>4. Shaped(n) /\ Reading(n) /\ Routed(n) /\ Scoped(n) /\ Current(n)
    BY <1>1, <2>2, <2>3 DEF LocalFields, RuntimeInv, Local, Shaped, Reading, Routed,
       Scoped, Current, Places, Early, Entry, Late
  <2>5. Answering(n)
    BY <1>1, <2>2, <2>3 DEF LocalFields, RuntimeInv, Local, Answering, Early, Entry, Late
  <2>6. Events(n) = req.maxRefs + 3 + (TextChunks - l)
    BY <2>3 DEF Events
  <2>7. rt.seq \in Nat /\ rt.seq <= req.maxRefs + 3 + (TextChunks - rt.left)
    BY <1>1 DEF RuntimeInv, Counted, Events
  <2>8. rt.seq + 1 <= Events(n)
    <3>1. rt.left \in Int /\ TextChunks \in Nat /\ req.maxRefs \in Nat
      BY Numbers0
    <3>. QED BY <2>2, <2>6, <2>7, <3>1
  <2>9. n.status = rt.status
    BY <2>3 DEF LocalFields
  <2>. QED BY <1>1, <1>4, <2>1, <2>3, <2>4, <2>5, <2>8, <2>9, TextStep DEF Local
<1>. QED BY <1>1, <1>2, <1>3, <1>4 DEF Assistant

(* A report that is shown at once.                                          *)
LEMMA ReportStep ==
  ASSUME RuntimeInv, rt.pc \in {"local", "edited"}, FilesAlone,
         Emit("text", [Success EXCEPT !.texts = rt.texts + 1])
  PROVE  Goes
<1>1. LocalFields \subseteq DOMAIN rt
  BY DEF RuntimeInv, Local, Shaped
<1>2. rt.texts = 0 /\ rt.route = "none" /\ rt.answer = NoAnswer
  BY DEF RuntimeInv, Local, Answering, Routed, Early
<1> PICK x : x = rt.texts + 1
  OBVIOUS
<1>3. x \in 0..TextChunks
  BY <1>2, Numbers0
<1> PICK m : m = Success
  OBVIOUS
<1>4. /\ LocalFields \subseteq DOMAIN m /\ m.pc = "finish"
      /\ \A field \in LocalFields \ {"pc", "res"} : m[field] = rt[field]
  BY <1>1 DEF Success, LocalFields
<1> PICK n : n = [m EXCEPT !.texts = x]
  OBVIOUS
<1>5. /\ LocalFields \subseteq DOMAIN n /\ n.pc = "finish" /\ n.texts = x
      /\ \A field \in LocalFields \ {"pc", "res", "texts"} : n[field] = rt[field]
  BY <1>4 DEF LocalFields
<1>6. GroundedIn(rt.answer, rt.snaps)
  BY <1>2 DEF GroundedIn, NoAnswer
<1>7. Local(n) /\ Current(n)
  BY <1>3, <1>5, <1>6 DEF LocalFields, RuntimeInv, Local, Shaped, Reading, Answering, Routed,
     Scoped, Current, Places, Early, Entry, Late
<1>8. Events(n) = req.maxRefs + 6 + TextChunks
  BY <1>5 DEF Events
<1>9. rt.seq <= req.maxRefs + 4
  <2>1. CASE rt.pc = "local"
    <3>1. rt.seq <= req.maxRefs + 3
      BY <2>1 DEF RuntimeInv, Counted, Events
    <3>. QED BY <3>1, Numbers0
  <2>2. CASE rt.pc = "edited"
    BY <2>2 DEF RuntimeInv, Counted, Events
  <2>. QED BY <2>1, <2>2
<1>10. rt.seq + 1 <= Events(n)
  BY <1>8, <1>9, Numbers0
<1>11. n.status = rt.status
  BY <1>5 DEF LocalFields
<1>. QED BY <1>2, <1>5, <1>7, <1>10, <1>11, TextStep

LEMMA LocalCommandStep == RuntimeInv /\ LocalCommand => Goes
BY Fails, ReportStep DEF LocalCommand, At

LEMMA EditReportStep == RuntimeInv /\ EditReport => Goes
BY Fails, ReportStep DEF EditReport, At

LEMMA EditCommandStep == RuntimeInv /\ EditCommand => Goes
<1> SUFFICES ASSUME RuntimeInv, EditCommand PROVE Goes
  OBVIOUS
<1>1. rt.pc = "edit" /\ FilesAlone
  BY DEF EditCommand, At
<1>2. CASE Emit("progress", GoTo("edited"))
  <2> PICK n : n = GoTo("edited")
    OBVIOUS
  <2>1. /\ LocalFields \subseteq DOMAIN n
        /\ n.pc = "edited"
        /\ \A field \in LocalFields \ {"pc"} : n[field] = rt[field]
    BY GoToFields
  <2>2. Local(n) /\ Current(n)
    BY <1>1, <2>1 DEF LocalFields, RuntimeInv, Local, Shaped, Reading, Answering, Routed,
       Scoped, Current, Places, Early, Entry, Late
  <2>3. rt.seq + 1 <= Events(n)
    <3>1. Events(n) = req.maxRefs + 4 /\ rt.seq <= req.maxRefs + 3
      BY <1>1, <2>1 DEF RuntimeInv, Counted, Events
    <3>. QED BY <3>1, Numbers0
  <2>4. n.texts = rt.texts /\ n.status = rt.status
    BY <2>1 DEF LocalFields
  <2>. QED BY <1>1, <1>2, <2>1, <2>2, <2>3, <2>4, ProgressStep
<1>. QED BY <1>1, <1>2, Fails DEF EditCommand

-----------------------------------------------------------------------------
(* The end.                                                                 *)

(* The terminal event.                                                      *)
LEMMA EndStep ==
  ASSUME RuntimeInv, rt.pc \in {"finish", "completed"}, FilesAlone,
         NEW kind \in ChatTerminals, kind = "completed" => rt.pc = "completed",
         Emit(kind, [GoTo("done") EXCEPT !.status = kind])
  PROVE  Goes
<1> PICK n : n = [GoTo("done") EXCEPT !.status = kind]
  OBVIOUS
<1>1. /\ LocalFields \subseteq DOMAIN n
      /\ n.pc = "done" /\ n.status = kind
      /\ \A field \in LocalFields \ {"pc", "status"} : n[field] = rt[field]
  BY GoToFields DEF LocalFields
<1>2. Local(n) /\ Current(n)
  BY <1>1 DEF LocalFields, RuntimeInv, Local, Shaped, Reading, Answering, Routed,
     Scoped, Current, Places, Early, Entry, Late
<1>3. Events(n) = req.maxRefs + 8 + TextChunks
  BY <1>1 DEF Events
<1>4. rt.seq <= req.maxRefs + 7 + TextChunks
  <2>1. CASE rt.pc = "finish"
    <3>1. rt.seq <= req.maxRefs + 6 + TextChunks
      BY <2>1 DEF RuntimeInv, Counted, Events
    <3>. QED BY <3>1, Numbers0
  <2>2. CASE rt.pc = "completed"
    BY <2>2 DEF RuntimeInv, Counted, Events
  <2>. QED BY <2>1, <2>2
<1>5. rt.seq + 1 <= Events(n)
  BY <1>3, <1>4, Numbers0
<1>6. kind # "text" /\ kind \in Kinds
  BY DEF ChatTerminals, Kinds
<1>7. n.texts = rt.texts + 0
  <2>1. n.texts = rt.texts
    BY <1>1 DEF LocalFields
  <2>. QED BY <2>1, Numbers0
<1>. QED BY <1>1, <1>2, <1>5, <1>6, <1>7, EmitStep

LEMMA FinishStep == RuntimeInv /\ Finish => Goes
<1> SUFFICES ASSUME RuntimeInv, Finish PROVE Goes
  OBVIOUS
<1>1. rt.pc = "finish" /\ FilesAlone
  BY DEF Finish, At
<1>2. CASE token
  BY <1>1, <1>2, EndStep DEF Finish, IsCancelled, ChatTerminals
<1>3. CASE ~token /\ rt.res = "err"
  BY <1>1, <1>3, EndStep DEF Finish, IsCancelled, ChatTerminals
<1>4. CASE ~token /\ rt.res # "err"
  <2> PICK n : n = GoTo("completed")
    OBVIOUS
  <2>1. /\ LocalFields \subseteq DOMAIN n
        /\ n.pc = "completed"
        /\ \A field \in LocalFields \ {"pc"} : n[field] = rt[field]
    BY GoToFields
  <2>2. Shaped(n) /\ Current(n)
    BY <1>1, <2>1 DEF LocalFields, RuntimeInv, Local, Shaped, Current, Places, Late
  <2>20. Reading(n) /\ Answering(n) /\ Routed(n) /\ Scoped(n)
    BY <1>1, <2>1 DEF LocalFields, RuntimeInv, Local, Reading, Answering, Routed, Scoped,
       Early, Entry, Late
  <2>3. rt.seq + 1 <= Events(n)
    <3>1. Events(n) = req.maxRefs + 7 + TextChunks /\ rt.seq <= req.maxRefs + 6 + TextChunks
      BY <1>1, <2>1 DEF RuntimeInv, Counted, Events
    <3>. QED BY <3>1, Numbers0
  <2>4. n.texts = rt.texts /\ n.status = rt.status
    BY <2>1 DEF LocalFields
  <2>. QED BY <1>1, <1>4, <2>1, <2>2, <2>20, <2>3, <2>4, ProgressStep
       DEF Finish, IsCancelled, Local
<1>. QED BY <1>2, <1>3, <1>4

LEMMA CompleteStep == RuntimeInv /\ Complete => Goes
BY EndStep DEF Complete, At, ChatTerminals

LEMMA RuntimeGoes == RuntimeInv /\ RuntimeStep => Goes
BY SetupStep, ValidateStep, AuthorizeStep, AcceptedStep, ReadReferenceStep, RereadReferenceStep,
   PrepareStep, RouteStep, GroundedContextStep, FactsStep, StartProviderStep, GenerateStep,
   GeneratedStep, CheckAnswerStep, RevalidateStep, EmitTextStep, AssistantStep, LocalCommandStep,
   EditCommandStep, EditReportStep, FinishStep, CompleteStep DEF RuntimeStep


-----------------------------------------------------------------------------
(* What is not a step of the runtime.                                       *)

(* A step that leaves the request and the files alone, the token aside.     *)
LEMMA RuntimeKept ==
  ASSUME RuntimeInv, UNCHANGED <<req, rt, ver, since>>, token' \in BOOLEAN
  PROVE  RuntimeInv'
<1>1. World'
  BY DEF RuntimeInv, World
<1>2. Shaped(rt)' /\ Reading(rt)' /\ Routed(rt)' /\ Answering(rt)' /\ Scoped(rt)'
  BY DEF RuntimeInv, Local, Shaped, Reading, Routed, Answering, Scoped, Strict, RangeExists,
     Lo, Hi
<1>3. Current(rt)' /\ Counted'
  BY DEF RuntimeInv, Current, Seen, Counted, Events
<1>. QED BY <1>1, <1>2, <1>3 DEF RuntimeInv, Local

(* A change of a file adds to what the file has been.                       *)
LEMMA SaveStep ==
  ASSUME RuntimeInv, NEW p \in Paths, NEW v \in 0..Len(FileLines), Save(p, v)
  PROVE  RuntimeInv'
<1>1. /\ UNCHANGED <<req, token, rt>>
      /\ ver' = [ver EXCEPT ![p] = v] /\ since' = [since EXCEPT ![p] = @ \union {v}]
  BY DEF Save
<1>2. ver \in [Paths -> 0..Len(FileLines)] /\ since \in [Paths -> SUBSET Nat] /\ v \in Nat
  BY DEF RuntimeInv, World
<1>3. World'
  BY <1>1, <1>2 DEF RuntimeInv, World
<1>4. Shaped(rt)' /\ Reading(rt)' /\ Routed(rt)' /\ Answering(rt)' /\ Scoped(rt)'
  BY <1>1 DEF RuntimeInv, Local, Shaped, Reading, Routed, Answering, Scoped, Strict, RangeExists,
     Lo, Hi
<1>5. \A q \in Paths : since[q] \subseteq since'[q] /\ (ver[q] \in since[q] => ver'[q] \in since'[q])
  BY <1>1, <1>2
<1>6. Current(rt)'
  <2>1. \A i \in 1..Len(rt.snaps) : rt.snaps[i].path \in Paths
    <3>1. rt.snaps \in Seq(Snapshots)
      BY DEF RuntimeInv, Local, Shaped
    <3>2. \A i \in 1..Len(rt.snaps) : rt.snaps[i] \in Snapshots
      BY <3>1
    <3>. QED BY <3>2 DEF Snapshots
  <2>. QED BY <1>1, <1>5, <2>1 DEF RuntimeInv, Current, Seen
<1>7. Counted'
  BY <1>1 DEF RuntimeInv, Counted, Events
<1>. QED BY <1>3, <1>4, <1>6, <1>7 DEF RuntimeInv, Local

(* However far a request has got, the number of its events is bounded.       *)
LEMMA EventsBound ==
  ASSUME RuntimeInv
  PROVE  rt.seq \in Nat /\ rt.seq <= req.maxRefs + 8 + TextChunks
<1>1. rt.seq <= Events(rt)
  BY DEF RuntimeInv, Counted
<1>2. rt.pc \in {"read", "reread"} => rt.ix <= req.maxRefs + 1
  BY Numbers0 DEF RuntimeInv, Local, Reading, Entry
<1>3. /\ rt.ix \in Nat /\ req.maxRefs \in Nat /\ TextChunks \in Nat
      /\ rt.left \in Int /\ 0 <= rt.left /\ rt.left <= TextChunks
  BY Numbers0
<1>4. Events(rt) <= req.maxRefs + 8 + TextChunks
  <2>1. CASE rt.pc \in {"setup", "validate", "authorize", "accepted", "read", "reread"}
    BY <1>2, <1>3, <2>1 DEF Events
  <2>2. CASE rt.pc \in {"prepared", "context", "local", "edit", "facts", "provider", "edited"}
    BY <1>3, <2>2 DEF Events
  <2>3. CASE rt.pc \in {"generate", "generated", "check", "revalidate"}
    BY <1>3, <2>3 DEF Events
  <2>4. CASE rt.pc \in {"assistant", "text"}
    BY <1>3, <2>4 DEF Events
  <2>5. CASE rt.pc \in {"finish", "completed", "done"}
    <3>1. Events(rt) \in {req.maxRefs + 6 + TextChunks, req.maxRefs + 7 + TextChunks,
                          req.maxRefs + 8 + TextChunks}
      BY <2>5 DEF Events
    <3>. QED BY <1>3, <3>1
  <2>. QED BY <2>1, <2>2, <2>3, <2>4, <2>5
       DEF RuntimeInv, Local, Shaped, Places, Early, Entry, Late
<1>5. Events(rt) \in Int
  <2>1. CASE rt.pc \in {"setup", "validate", "authorize", "accepted", "read", "reread"}
    BY <1>3, <2>1 DEF Events
  <2>2. CASE rt.pc \notin {"setup", "validate", "authorize", "accepted", "read", "reread"}
    BY <1>3, <2>2 DEF Events
  <2>. QED BY <2>1, <2>2
<1>. QED BY <1>1, <1>3, <1>4, <1>5, Numbers0

(* The memory of a process that is killed is gone.                          *)
LEMMA DieStep == RuntimeInv /\ Die => RuntimeInv'
<1> SUFFICES ASSUME RuntimeInv, Die PROVE RuntimeInv'
  OBVIOUS
<1>1. /\ rt' = [NewRequest EXCEPT !.pc = "done", !.seq = rt.seq, !.texts = rt.texts,
                                  !.status = rt.status]
      /\ since' = [p \in Paths |-> {}] /\ UNCHANGED <<req, token, ver>>
  BY DEF Die
<1>2. /\ LocalFields \subseteq DOMAIN rt' /\ rt'.pc = "done" /\ rt'.seq = rt.seq
      /\ rt'.texts = rt.texts /\ rt'.status = rt.status /\ rt'.ix = 1 /\ rt'.snaps = <<>>
      /\ rt'.refused = 0 /\ rt'.kept = 0 /\ rt'.turns = {} /\ rt'.prompt = {}
      /\ rt'.answer = NoAnswer /\ rt'.route = "none" /\ rt'.left = TextChunks
  BY <1>1 DEF NewRequest, LocalFields
<1>3. World'
  BY <1>1 DEF RuntimeInv, World
<1>4. req' = req /\ Len(req.refs) \in Nat /\ req.maxBytes \in Nat /\ TextChunks \in 0..TextChunks
  BY <1>1, Numbers0
<1>5. Shaped(rt)'
  BY <1>2, <1>4 DEF RuntimeInv, Local, Shaped, Places, Late
<1>6. Reading(rt)' /\ Routed(rt)' /\ Scoped(rt)'
  BY <1>2 DEF Reading, Routed, Scoped, Early, Entry
<1>7. Answering(rt)'
  BY <1>2 DEF Answering, Early, Entry, GroundedIn, NoAnswer
<1>8. Current(rt)'
  BY <1>2 DEF Current
<1>9. Counted'
  <2>1. Events(rt)' = req.maxRefs + 8 + TextChunks
    BY <1>2, <1>4 DEF Events
  <2>2. rt.seq \in Nat /\ rt.seq <= req.maxRefs + 8 + TextChunks
    BY EventsBound
  <2>. QED BY <1>2, <2>1, <2>2 DEF Counted
<1>. QED BY <1>3, <1>5, <1>6, <1>7, <1>8, <1>9 DEF RuntimeInv, Local

LEMMA RuntimeStart == Init => RuntimeInv
<1> SUFFICES ASSUME Init PROVE RuntimeInv
  OBVIOUS
<1>1. RuntimeInit
  BY DEF Init
<1>2. 1 \in 0..Len(FileLines)
  BY ChatAssumption
<1>3. World
  BY <1>1, <1>2 DEF RuntimeInit, World
<1>4. Len(req.refs) \in Nat /\ req.maxBytes \in Nat /\ TextChunks \in Nat
  BY <1>1, RequestsAssumption, ChatAssumption DEF RuntimeInit
<1>5. Shaped(rt) /\ Reading(rt) /\ Routed(rt) /\ Scoped(rt)
  BY <1>1, <1>4 DEF RuntimeInit, NewRequest, Shaped, Reading, Routed, Scoped, LocalFields,
     Places, Early, Entry, Late
<1>6. Answering(rt)
  BY <1>1 DEF RuntimeInit, NewRequest, Answering, Early, Entry, Late
<1>7. Current(rt) /\ Counted
  BY <1>1 DEF RuntimeInit, NewRequest, Current, Counted, Events
<1>. QED BY <1>3, <1>5, <1>6, <1>7 DEF RuntimeInv, Local

-----------------------------------------------------------------------------
(* The stream.                                                              *)

(* The texts of a sequence whose events are numbered from e on.             *)
LEMMA TextsFinite ==
  ASSUME NEW s \in Seq(PipeEvents), NEW e \in Nat,
         \A i \in 1..Len(s) : s[i].seq = e + (i - 1)
  PROVE  /\ IsFiniteSet(TextNumbers(s)) /\ Cardinality(TextNumbers(s)) \in Nat
         /\ \A x \in TextNumbers(s) : e <= x /\ x < e + Len(s)
<1>1. \A x \in TextNumbers(s) : x \in Nat /\ e <= x /\ x < e + Len(s)
  BY DEF TextNumbers
<1>2. TextNumbers(s) \in SUBSET (e..(e + Len(s)))
  BY <1>1
<1>3. e \in Int /\ e + Len(s) \in Int
  OBVIOUS
<1>4. IsFiniteSet(e..(e + Len(s)))
  BY <1>3, FS_Interval
<1>5. IsFiniteSet(TextNumbers(s))
  BY <1>2, <1>4, FS_Subset
<1>. QED BY <1>1, <1>5, FS_CardinalityType

LEMMA TextsAppended ==
  ASSUME NEW s \in Seq(PipeEvents), NEW e \in PipeEvents
  PROVE  TextNumbers(Append(s, e))
           = TextNumbers(s) \union (IF e.type = "text" THEN {e.seq} ELSE {})
<1> PICK t : t = Append(s, e)
  OBVIOUS
<1>1. /\ Len(t) = Len(s) + 1 /\ Len(s) \in Nat
      /\ \A i \in 1..Len(s) : t[i] = s[i]
      /\ t[Len(s) + 1] = e
  BY AppendProperties
<1>2. TextNumbers(t) \subseteq TextNumbers(s) \union (IF e.type = "text" THEN {e.seq} ELSE {})
  <2>1. ASSUME NEW i \in 1..Len(t), t[i].type = "text"
        PROVE  t[i].seq \in TextNumbers(s) \union (IF e.type = "text" THEN {e.seq} ELSE {})
    <3>1. CASE i = Len(s) + 1
      BY <1>1, <2>1, <3>1
    <3>2. CASE i \in 1..Len(s)
      BY <1>1, <2>1, <3>2 DEF TextNumbers
    <3>. QED BY <1>1, <3>1, <3>2
  <2>. QED BY <2>1 DEF TextNumbers
<1>3. TextNumbers(s) \subseteq TextNumbers(t)
  BY <1>1 DEF TextNumbers
<1>4. e.type = "text" => e.seq \in TextNumbers(t)
  <2>1. Len(s) + 1 \in 1..Len(t)
    BY <1>1
  <2>. QED BY <1>1, <2>1 DEF TextNumbers
<1>. QED BY <1>2, <1>3, <1>4

LEMMA TextsReceived ==
  ASSUME NEW s \in Seq(PipeEvents), s # <<>>
  PROVE  TextNumbers(s)
           = TextNumbers(Tail(s)) \union (IF s[1].type = "text" THEN {s[1].seq} ELSE {})
<1> PICK t : t = Tail(s)
  OBVIOUS
<1>1. Len(s) \in Nat /\ Len(s) >= 1
  BY EmptySeq
<1>2. /\ t \in Seq(PipeEvents) /\ Len(t) = Len(s) - 1
      /\ \A i \in 1..Len(t) : t[i] = s[i + 1]
  BY HeadTailProperties
<1>3. TextNumbers(s) \subseteq TextNumbers(t) \union (IF s[1].type = "text" THEN {s[1].seq} ELSE {})
  <2>1. ASSUME NEW i \in 1..Len(s), s[i].type = "text"
        PROVE  s[i].seq \in TextNumbers(t) \union (IF s[1].type = "text" THEN {s[1].seq} ELSE {})
    <3>1. CASE i = 1
      BY <2>1, <3>1
    <3>2. CASE i # 1
      <4>1. i - 1 \in 1..Len(t)
        BY <1>1, <1>2, <3>2
      <4>2. t[i - 1] = s[i]
        BY <1>2, <4>1
      <4>. QED BY <2>1, <4>1, <4>2 DEF TextNumbers
    <3>. QED BY <3>1, <3>2
  <2>. QED BY <2>1 DEF TextNumbers
<1>4. TextNumbers(t) \subseteq TextNumbers(s)
  <2>1. \A i \in 1..Len(t) : i + 1 \in 1..Len(s)
    BY <1>1, <1>2
  <2>. QED BY <1>2, <2>1 DEF TextNumbers
<1>5. s[1].type = "text" => s[1].seq \in TextNumbers(s)
  BY <1>1 DEF TextNumbers
<1>. QED BY <1>3, <1>4, <1>5

LEMMA NoTexts == Cardinality(TextNumbers(<<>>)) = 0
<1>1. TextNumbers(<<>>) = {}
  BY DEF TextNumbers
<1>. QED BY <1>1, FS_EmptySet

(* A runtime that has said how it ended says no more.                       *)
LEMMA StatusIsLast == RuntimeInv /\ rt.pc # "done" => rt.status = "none"
BY DEF RuntimeInv, Local, Shaped

(* The client's limit is above what one request can send: 16 384 events     *)
(* (DEFAULT_EVENT_LIMIT of client.ts), and at most 64 references            *)
(* (MAX_CHAT_REFERENCES), 4 096 pieces of text (MAX_CHAT_OUTPUT_TOKENS) and *)
(* the events of the other steps.                                           *)
StreamFits == \A r \in Requests : r.maxRefs + TextChunks + 8 <= EventLimit

Expectations ==
  /\ ChatInv
  /\ StreamFits => NoProtocolError

(* A step of the runtime adds at most one event, the next one.              *)
LEMMA SpokenStream ==
  ASSUME Expectations, Running, Spoken, UNCHANGED <<child, control, client>>
  PROVE  StreamInv' /\ (StreamFits => NoProtocolError')
<1>1. /\ TransportTypes /\ Ends /\ ResolvedIsWhole /\ client.result = "none"
      /\ child.life = "running" /\ ~Settled
  BY DEF Expectations, ChatInv, StreamInv, Ends, Running, Settled
<1>2. /\ child' = child /\ control' = control /\ client' = client /\ rt.pc # "done"
      /\ rt'.pc = "done" => rt'.status # "none"
      /\ rt.seq \in Nat /\ rt.texts \in Nat /\ rt.status = "none"
  BY StatusIsLast, Numbers0 DEF Spoken, Expectations, ChatInv
<1>3. Ends'
  BY <1>1, <1>2 DEF Ends, Settled, Running
<1>4. ResolvedIsWhole'
  BY <1>1, <1>2 DEF ResolvedIsWhole, ChatTerminals
<1>5. StreamFits => NoProtocolError'
  BY <1>2 DEF NoProtocolError, Expectations
<1>6. CASE Silent
  <2>1. TransportTypes'
    BY <1>1, <1>2, <1>6 DEF TransportTypes, Silent
  <2>2. client'.error = "none" => Numbers' /\ Terminal'
    BY <1>1, <1>2, <1>6 DEF Expectations, ChatInv, StreamInv, Numbers, Terminal, Silent
  <2>. QED BY <1>3, <1>4, <1>5, <2>1, <2>2 DEF StreamInv
<1>7. CASE \E kind \in Kinds : Sends(kind)
  <2>1. PICK kind \in Kinds : Sends(kind)
    BY <1>7
  <2> PICK e : e = [seq |-> rt.seq, type |-> kind]
    OBVIOUS
  <2>2. /\ e \in PipeEvents /\ e.seq = rt.seq /\ e.type = kind
        /\ pipe \in Seq(PipeEvents) /\ Len(pipe) < PipeCapacity
        /\ pipe' = Append(pipe, e)
        /\ rt'.seq = rt.seq + 1
        /\ rt'.texts = rt.texts + (IF kind = "text" THEN 1 ELSE 0)
        /\ IF kind \in ChatTerminals THEN rt'.status = kind ELSE rt'.status = rt.status
    BY <1>1, <1>2, <2>1 DEF Sends, PipeEvents, TransportTypes
  <2>3. /\ pipe' \in Seq(PipeEvents) /\ pipe' # <<>> /\ Len(pipe') = Len(pipe) + 1
        /\ \A i \in 1..Len(pipe) : pipe'[i] = pipe[i]
        /\ pipe'[Len(pipe')] = e /\ Len(pipe) \in Nat
    BY <2>2, AppendProperties
  <2>4. TransportTypes'
    <3>1. Len(pipe') <= PipeCapacity
      BY <2>2, <2>3, ChatAssumption
    <3>. QED BY <1>1, <1>2, <2>3, <3>1 DEF TransportTypes
  <2>5. ASSUME client.error = "none"
        PROVE  Numbers' /\ Terminal'
    <3>1. /\ Numbers /\ Terminal
          /\ client.expected \in Nat /\ client.texts \in Nat
          /\ client.expected + Len(pipe) = rt.seq
          /\ client.texts + Cardinality(TextNumbers(pipe)) = rt.texts
      BY <1>1, <2>5 DEF Expectations, ChatInv, StreamInv, Numbers, TransportTypes, Clients
    <3>2. /\ IsFiniteSet(TextNumbers(pipe)) /\ Cardinality(TextNumbers(pipe)) \in Nat
          /\ \A x \in TextNumbers(pipe) : x < client.expected + Len(pipe)
      BY <2>2, <3>1, TextsFinite DEF Numbers
    <3>3. Cardinality(TextNumbers(pipe'))
            = Cardinality(TextNumbers(pipe)) + (IF kind = "text" THEN 1 ELSE 0)
      <4>1. CASE kind = "text"
        <5>1. TextNumbers(pipe') = TextNumbers(pipe) \union {rt.seq}
          BY <2>2, <4>1, TextsAppended
        <5>2. rt.seq \notin TextNumbers(pipe)
          BY <1>2, <3>1, <3>2
        <5>3. Cardinality(TextNumbers(pipe) \union {rt.seq}) = Cardinality(TextNumbers(pipe)) + 1
          BY <3>2, <5>2, FS_AddElement
        <5>. QED BY <4>1, <5>1, <5>3
      <4>2. CASE kind # "text"
        <5>1. TextNumbers(pipe') = TextNumbers(pipe)
          BY <2>2, <4>2, TextsAppended
        <5>. QED BY <3>2, <4>2, <5>1
      <4>. QED BY <4>1, <4>2
    <3>4. \A i \in 1..Len(pipe') : pipe'[i].seq = client.expected + (i - 1)
      <4>1. \A i \in 1..Len(pipe') : i \in 1..Len(pipe) \/ i = Len(pipe')
        BY <2>3
      <4>2. rt.seq = client.expected + (Len(pipe') - 1)
        BY <2>3, <3>1
      <4>. QED BY <2>2, <2>3, <3>1, <4>1, <4>2 DEF Numbers
    <3>5. client.expected + Len(pipe') = rt'.seq /\ rt'.seq <= rt'.seq
      <4>1. /\ client.expected \in Nat /\ Len(pipe) \in Nat /\ Len(pipe') = Len(pipe) + 1
            /\ client.expected + Len(pipe) = rt.seq /\ rt'.seq = rt.seq + 1
        BY <2>2, <2>3, <3>1
      <4>. QED BY <4>1
    <3>6. client.texts + Cardinality(TextNumbers(pipe')) = rt'.texts
      <4> PICK c : c = Cardinality(TextNumbers(pipe))
        OBVIOUS
      <4>1. c \in Nat /\ client.texts \in Nat /\ client.texts + c = rt.texts
        BY <3>1, <3>2
      <4>2. CASE kind = "text"
        <5>1. rt'.texts = rt.texts + 1 /\ Cardinality(TextNumbers(pipe')) = c + 1
          BY <2>2, <3>3, <4>2
        <5>. QED BY <4>1, <5>1
      <4>3. CASE kind # "text"
        <5>1. rt'.texts = rt.texts + 0 /\ Cardinality(TextNumbers(pipe')) = c + 0
          BY <2>2, <3>3, <4>3
        <5>. QED BY <4>1, <5>1
      <4>. QED BY <4>2, <4>3
    <3>7. Numbers'
      BY <1>2, <3>4, <3>5, <3>6 DEF Numbers
    <3>8. \A i \in 1..Len(pipe) : pipe[i].type \notin ChatTerminals
      BY <1>2, <3>1 DEF Terminal, ChatTerminals
    <3>9. client.terminal = "none"
      BY <1>2, <3>1 DEF Terminal
    <3>10. \A i \in 1..Len(pipe') :
             pipe'[i].type \in ChatTerminals => i = Len(pipe') /\ pipe'[i].type = rt'.status
      <4>1. \A i \in 1..Len(pipe') : i \in 1..Len(pipe) \/ i = Len(pipe')
        BY <2>3
      <4>. QED BY <2>2, <2>3, <3>8, <4>1
    <3>11. rt'.status # "none" => pipe'[Len(pipe')].type = rt'.status
      BY <1>2, <2>2, <2>3
    <3>12. Terminal'
      BY <1>2, <2>3, <3>9, <3>10, <3>11 DEF Terminal
    <3>. QED BY <3>7, <3>12
  <2>. QED BY <1>2, <1>3, <1>4, <1>5, <2>4, <2>5 DEF StreamInv
<1>. QED BY <1>6, <1>7 DEF Spoken

LEMMA ErrorSet ==
  ASSUME NEW c \in Clients, NEW code \in ClientErrors,
         client' = [c EXCEPT !.error = code, !.forced = Running \/ client.forced]
  PROVE  client' \in Clients /\ client'.result = c.result /\ client'.error = code
<1> PICK f : f = (Running \/ client.forced)
  OBVIOUS
<1>1. f \in BOOLEAN
  OBVIOUS
<1>. QED BY <1>1 DEF Clients

(* The client receives the next event, in its place.                        *)
LEMMA ReceiveStream ==
  ASSUME Expectations, NEW throws, Receive(throws)
  PROVE  StreamInv' /\ (StreamFits => NoProtocolError')
<1>1. TransportTypes /\ Ends /\ client.result = "none"
  BY DEF Expectations, ChatInv, StreamInv, Receive, Settled
<1>2. /\ pipe # <<>> /\ pipe' = Tail(pipe) /\ UNCHANGED <<req, token, rt, ver, saves, since, control>>
      /\ IF client.error # "none" THEN UNCHANGED <<client, child>>
         ELSE AcceptLine(Head(pipe), throws)
  BY DEF Receive
<1>3. /\ pipe \in Seq(PipeEvents) /\ Len(pipe) \in Nat /\ Len(pipe) >= 1
      /\ Head(pipe) = pipe[1] /\ pipe[1] \in PipeEvents
      /\ pipe' \in Seq(PipeEvents) /\ Len(pipe') = Len(pipe) - 1
      /\ \A i \in 1..Len(pipe') : pipe'[i] = pipe[i + 1]
  <2>1. pipe \in Seq(PipeEvents)
    BY <1>1 DEF TransportTypes
  <2>2. Len(pipe) \in Nat /\ Len(pipe) >= 1
    BY <1>2, <2>1, EmptySeq
  <2>. QED BY <1>2, <2>1, <2>2, HeadTailProperties
<1> PICK e : e = pipe[1]
  OBVIOUS
<1>4. e \in PipeEvents /\ e.seq \in Nat /\ e.type \in Kinds
  BY <1>3 DEF PipeEvents
<1>5. /\ client \in Clients /\ client.expected \in 0..EventLimit /\ client.texts \in Nat
      /\ EventLimit \in Nat
      /\ child \in [life : {"running", "exited", "killed"}, code : {0, 2}, kill : BOOLEAN,
                    partial : BOOLEAN]
      /\ control \in {"none", "written", "read"}
  BY <1>1, TransportAssumption DEF TransportTypes, Clients
<1>6. Len(pipe') <= PipeCapacity
  <2>1. Len(pipe) <= PipeCapacity /\ PipeCapacity \in Nat
    BY <1>1, ChatAssumption DEF TransportTypes
  <2>. QED BY <1>3, <2>1
(* What is kept whatever the client makes of the event.                     *)
<1>7. ASSUME client' \in Clients, client'.result = "none",
             child' \in {child, [child EXCEPT !.kill = TRUE]}
      PROVE  TransportTypes' /\ Ends' /\ ResolvedIsWhole' /\ child'.life = child.life
  <2>1. /\ child' \in [life : {"running", "exited", "killed"}, code : {0, 2}, kill : BOOLEAN,
                       partial : BOOLEAN]
        /\ child'.life = child.life /\ child'.code = child.code
    BY <1>5, <1>7
  <2>2. TransportTypes'
    BY <1>2, <1>3, <1>5, <1>6, <1>7, <2>1 DEF TransportTypes
  <2>3. Ends'
    BY <1>1, <1>2, <1>7, <2>1 DEF Ends, Settled, Running
  <2>4. ResolvedIsWhole'
    BY <1>7 DEF ResolvedIsWhole, ChatTerminals
  <2>. QED BY <2>1, <2>2, <2>3, <2>4
<1>8. CASE client.error # "none"
  <2>1. client' = client /\ child' = child
    BY <1>2, <1>8
  <2>. QED BY <1>1, <1>5, <1>7, <1>8, <2>1 DEF StreamInv, Expectations, NoProtocolError
<1>9. CASE client.error = "none"
  <2>1. /\ Numbers /\ Terminal /\ AcceptLine(e, throws)
    BY <1>1, <1>2, <1>3, <1>9 DEF Expectations, ChatInv, StreamInv
  <2>2. /\ client.terminal = "none" /\ e.seq = client.expected
        /\ client.expected + Len(pipe) <= rt.seq
    <3>1. 1 \in 1..Len(pipe) /\ client.expected + (1 - 1) = client.expected
      BY <1>3, <1>5
    <3>. QED BY <1>2, <2>1, <3>1 DEF Numbers, Terminal
  <2>3. CASE client.expected >= EventLimit
    <3>1. FailParser("output_limit")
      BY <2>1, <2>2, <2>3 DEF AcceptLine
    <3>2. /\ client' = [client EXCEPT !.error = "output_limit", !.forced = Running \/ client.forced]
          /\ child' \in {child, [child EXCEPT !.kill = TRUE]}
      BY <3>1 DEF FailParser, Kill
    <3>3. client' \in Clients /\ client'.result = "none" /\ client'.error = "output_limit"
      BY <1>1, <1>5, <3>2 DEF Clients, ClientErrors, Running
    <3>4. ~StreamFits
      <4>1. /\ rt.seq \in Nat /\ rt.seq <= req.maxRefs + 8 + TextChunks /\ req.maxRefs \in Nat
            /\ TextChunks \in Nat
        BY EventsBound, Numbers0 DEF Expectations, ChatInv
      <4>2. req \in Requests
        BY DEF Expectations, ChatInv, RuntimeInv, World
      <4>3. ~(req.maxRefs + TextChunks + 8 <= EventLimit)
        BY <1>3, <1>5, <2>2, <2>3, <4>1
      <4>. QED BY <4>2, <4>3 DEF StreamFits
    <3>. QED BY <1>7, <3>2, <3>3, <3>4 DEF StreamInv
  <2>4. CASE ~(client.expected >= EventLimit)
    <3> PICK x, w : x = client.expected + 1
                    /\ w = client.texts + (IF e.type = "text" THEN 1 ELSE 0)
      OBVIOUS
    <3> PICK last, open : /\ last = IF e.type \in ChatTerminals THEN e.type ELSE client.terminal
                          /\ open = (client.stdin /\ e.type \notin ChatTerminals)
      OBVIOUS
    <3> PICK seen : seen = [client EXCEPT !.expected = x, !.texts = w, !.terminal = last,
                                          !.stdin = open]
      OBVIOUS
    <3>0. /\ last \in {"none"} \union ChatTerminals /\ open \in BOOLEAN
          /\ seen = [client EXCEPT
                       !.expected = x, !.texts = w,
                       !.terminal = IF e.type \in ChatTerminals THEN e.type ELSE @,
                       !.stdin = @ /\ e.type \notin ChatTerminals]
      BY <2>2
    <3>1. x \in 0..EventLimit /\ w \in Nat
      BY <1>5, <2>4
    <3>2. /\ seen \in Clients /\ seen.expected = x /\ seen.texts = w /\ seen.error = "none"
          /\ seen.result = "none"
          /\ seen.terminal = IF e.type \in ChatTerminals THEN e.type ELSE "none"
      BY <1>1, <1>5, <1>9, <2>2, <3>0, <3>1 DEF Clients
    <3>3. IF throws
          THEN /\ client' = [seen EXCEPT !.error = "process_interrupted",
                                         !.forced = Running \/ client.forced]
               /\ IF Running THEN Kill ELSE UNCHANGED child
          ELSE client' = seen /\ UNCHANGED child
      BY <2>1, <2>2, <2>4, <3>0 DEF AcceptLine, Expected
    <3>4. CASE throws
      <4>1. /\ client' = [seen EXCEPT !.error = "process_interrupted",
                                      !.forced = Running \/ client.forced]
            /\ child' \in {child, [child EXCEPT !.kill = TRUE]}
        BY <3>3, <3>4 DEF Kill
      <4>2. client' \in Clients /\ client'.result = "none" /\ client'.error = "process_interrupted"
        <5>1. "process_interrupted" \in ClientErrors
          BY DEF ClientErrors
        <5>2. seen \in Clients /\ seen.result = "none"
          BY <3>2
        <5>. QED BY <4>1, <5>1, <5>2, ErrorSet, Zenon
      <4>. QED BY <1>7, <4>1, <4>2 DEF StreamInv, NoProtocolError
    <3>5. CASE ~throws
      <4>1. client' = seen /\ child' = child
        BY <3>3, <3>5
      <4>2. TransportTypes' /\ Ends' /\ ResolvedIsWhole' /\ NoProtocolError'
        BY <1>7, <3>2, <4>1 DEF NoProtocolError
      <4>3. \A i \in 1..Len(pipe') : pipe'[i].seq = x + (i - 1)
        <5>1. \A i \in 1..Len(pipe') : i + 1 \in 1..Len(pipe) /\ client.expected + (i + 1 - 1) = x + (i - 1)
          <6>1. client.expected \in Nat /\ Len(pipe) \in Nat /\ Len(pipe') = Len(pipe) - 1
            BY <1>3, <1>5
          <6>2. x = client.expected + 1
            OBVIOUS
          <6>. QED BY <6>1, <6>2
        <5>. QED BY <1>3, <2>1, <5>1 DEF Numbers
      <4>4. x + Len(pipe') = client.expected + Len(pipe)
        BY <1>3, <1>5
      <4>5. w + Cardinality(TextNumbers(pipe')) = client.texts + Cardinality(TextNumbers(pipe))
        <5>1. /\ IsFiniteSet(TextNumbers(pipe')) /\ Cardinality(TextNumbers(pipe')) \in Nat
              /\ \A y \in TextNumbers(pipe') : x <= y
          <6>1. x \in Nat
            BY <3>1, <1>5
          <6>. QED BY <1>3, <4>3, <6>1, TextsFinite
        <5>2. TextNumbers(pipe) = TextNumbers(pipe') \union (IF e.type = "text" THEN {e.seq} ELSE {})
          BY <1>2, <1>3, TextsReceived
        <5>3. CASE e.type = "text"
          <6>1. e.seq \notin TextNumbers(pipe')
            BY <1>5, <2>2, <5>1
          <6>2. Cardinality(TextNumbers(pipe)) = Cardinality(TextNumbers(pipe')) + 1
            <7>1. TextNumbers(pipe) = TextNumbers(pipe') \union {e.seq}
              BY <5>2, <5>3
            <7>. QED BY <5>1, <6>1, <7>1, FS_AddElement
          <6>3. w = client.texts + 1
            BY <5>3
          <6>. QED BY <1>5, <5>1, <6>2, <6>3
        <5>4. CASE e.type # "text"
          <6>1. TextNumbers(pipe) = TextNumbers(pipe') /\ w = client.texts + 0
            BY <5>2, <5>4
          <6>. QED BY <1>5, <5>1, <6>1
        <5>. QED BY <5>3, <5>4
      <4>6. Numbers'
        BY <1>2, <2>1, <3>2, <4>1, <4>3, <4>4, <4>5 DEF Numbers
      <4>7. Terminal'
        <5>1. e.type \in ChatTerminals => Len(pipe) = 1 /\ e.type = rt.status
          BY <1>3, <2>1 DEF Terminal
        <5>2. \A i \in 1..Len(pipe') :
                pipe'[i].type \in ChatTerminals => i = Len(pipe') /\ pipe'[i].type = rt.status
          <6>1. \A i \in 1..Len(pipe') : i + 1 \in 1..Len(pipe) /\ (i + 1 = Len(pipe) => i = Len(pipe'))
            BY <1>3
          <6>. QED BY <1>3, <2>1, <6>1 DEF Terminal
        <5>3. seen.terminal # "none" => pipe' = <<>> /\ seen.terminal = rt.status
          <6>1. Len(pipe) = 1 => pipe' = <<>>
            BY <1>3, EmptySeq
          <6>. QED BY <3>2, <5>1, <6>1
        <5>4. child.life # "killed" /\ rt.status # "none" =>
                seen.terminal = rt.status \/ (pipe' # <<>> /\ pipe'[Len(pipe')].type = rt.status)
          <6>1. SUFFICES ASSUME child.life # "killed" /\ rt.status # "none"
                         PROVE  seen.terminal = rt.status
                                \/ (pipe' # <<>> /\ pipe'[Len(pipe')].type = rt.status)
            OBVIOUS
          <6>2. pipe[Len(pipe)].type = rt.status /\ rt.status \in ChatTerminals
            BY <2>1, <2>2, <6>1 DEF Terminal, Expectations, ChatInv, RuntimeInv, Local, Shaped
          <6>3. CASE Len(pipe) = 1
            BY <3>2, <6>2, <6>3
          <6>4. CASE Len(pipe) # 1
            <7>1. Len(pipe') \in 1..Len(pipe') /\ Len(pipe') + 1 = Len(pipe) /\ Len(pipe') # 0
              BY <1>3, <6>4
            <7>2. pipe' # <<>>
              BY <7>1
            <7>. QED BY <1>3, <6>2, <7>1, <7>2
          <6>. QED BY <6>3, <6>4
        <5>. QED BY <1>2, <4>1, <5>2, <5>3, <5>4 DEF Terminal
      <4>. QED BY <4>2, <4>6, <4>7 DEF StreamInv
    <3>. QED BY <3>4, <3>5
  <2>. QED BY <2>3, <2>4
<1>. QED BY <1>8, <1>9

(* A step that leaves the stream, what was received and the outcome alone.  *)
LEMMA StreamAside ==
  ASSUME Expectations, UNCHANGED <<rt, pipe>>, TransportTypes',
         child'.life = child.life, child'.code = child.code,
         client'.expected = client.expected, client'.texts = client.texts,
         client'.terminal = client.terminal, client'.error = client.error,
         client'.result = client.result
  PROVE  StreamInv' /\ (StreamFits => NoProtocolError')
<1>1. /\ Ends /\ ResolvedIsWhole
      /\ client.error = "none" => Numbers /\ Terminal
      /\ StreamFits => NoProtocolError
  BY DEF Expectations, ChatInv, StreamInv
<1>2. Ends'
  BY <1>1 DEF Ends, Settled, Running
<1>3. ResolvedIsWhole'
  BY <1>1 DEF ResolvedIsWhole
<1>4. client'.error = "none" => Numbers' /\ Terminal'
  BY <1>1 DEF Numbers, Terminal
<1>5. StreamFits => NoProtocolError'
  BY <1>1 DEF NoProtocolError
<1>. QED BY <1>2, <1>3, <1>4, <1>5 DEF StreamInv

LEMMA AskSet ==
  ASSUME NEW c \in Clients,
         client' = [c EXCEPT !.requested = TRUE, !.stdin = FALSE, !.timer = TRUE]
  PROVE  /\ client' \in Clients /\ client'.expected = c.expected /\ client'.texts = c.texts
         /\ client'.terminal = c.terminal /\ client'.error = c.error /\ client'.result = c.result
BY DEF Clients

LEMMA RequestStream ==
  ASSUME Expectations, NEW c \in {client, [client EXCEPT !.timedOut = TRUE]},
         RequestCancellation(c)
  PROVE  ChatInv' /\ (StreamFits => NoProtocolError')
<1>1. /\ UNCHANGED <<req, token, rt, ver, since, pipe, child>>
      /\ client' = [c EXCEPT !.requested = TRUE, !.stdin = FALSE, !.timer = TRUE]
      /\ control' \in {"written", control}
  BY DEF RequestCancellation, ScheduleForcedTermination, runtimeVars
<1>2. TransportTypes /\ token \in BOOLEAN
  BY DEF Expectations, ChatInv, StreamInv, RuntimeInv, World
<1>3. client \in Clients
  BY <1>2 DEF TransportTypes
<1>4. /\ c \in Clients /\ c.expected = client.expected /\ c.texts = client.texts
      /\ c.terminal = client.terminal /\ c.error = client.error /\ c.result = client.result
  BY <1>3 DEF Clients
<1>5. /\ client' \in Clients /\ client'.expected = client.expected
      /\ client'.texts = client.texts /\ client'.terminal = client.terminal
      /\ client'.error = client.error /\ client'.result = client.result
  BY <1>1, <1>4, AskSet
<1>6. TransportTypes'
  BY <1>1, <1>2, <1>5 DEF TransportTypes
<1>7. RuntimeInv'
  BY <1>1, <1>2, RuntimeKept DEF Expectations, ChatInv
<1>. QED BY <1>1, <1>5, <1>6, <1>7, StreamAside DEF ChatInv

LEMMA ForceStream ==
  ASSUME Expectations, ForceTerminate
  PROVE  ChatInv' /\ (StreamFits => NoProtocolError')
<1>1. /\ UNCHANGED <<req, token, rt, ver, since, pipe, control>>
      /\ client' = [client EXCEPT !.forced = TRUE] /\ child' = [child EXCEPT !.kill = TRUE]
  BY DEF ForceTerminate, Kill, runtimeVars
<1>2. TransportTypes /\ token \in BOOLEAN
  BY DEF Expectations, ChatInv, StreamInv, RuntimeInv, World
<1>3. /\ client' \in Clients /\ client'.expected = client.expected
      /\ client'.texts = client.texts /\ client'.terminal = client.terminal
      /\ client'.error = client.error /\ client'.result = client.result
  BY <1>1, <1>2 DEF TransportTypes, Clients
<1>4. TransportTypes' /\ child'.life = child.life /\ child'.code = child.code
  BY <1>1, <1>2, <1>3 DEF TransportTypes
<1>5. RuntimeInv'
  BY <1>1, <1>2, RuntimeKept DEF Expectations, ChatInv
<1>. QED BY <1>1, <1>3, <1>4, <1>5, StreamAside DEF ChatInv

LEMMA WatchStream ==
  ASSUME Expectations, WatchControl
  PROVE  ChatInv' /\ (StreamFits => NoProtocolError')
<1>1. /\ UNCHANGED <<req, rt, ver, since, pipe, child, client>>
      /\ control' = "read" /\ token' \in BOOLEAN
  BY DEF WatchControl
<1>2. TransportTypes
  BY DEF Expectations, ChatInv, StreamInv
<1>3. TransportTypes'
  BY <1>1, <1>2 DEF TransportTypes
<1>4. RuntimeInv'
  BY <1>1, RuntimeKept DEF Expectations, ChatInv
<1>. QED BY <1>1, <1>3, <1>4, StreamAside DEF ChatInv

LEMMA ChangeStream ==
  ASSUME Expectations, Change
  PROVE  ChatInv' /\ (StreamFits => NoProtocolError')
<1>1. RuntimeInv'
  BY SaveStep DEF Change, Expectations, ChatInv
<1>2. UNCHANGED <<rt, pipe, child, control, client>>
  BY DEF Change, Save
<1>3. TransportTypes'
  BY <1>2 DEF Expectations, ChatInv, StreamInv, TransportTypes
<1>. QED BY <1>1, <1>2, <1>3, StreamAside DEF ChatInv

(* The process ends with the code of its report.                            *)
LEMMA ExitStream ==
  ASSUME Expectations, Exit
  PROVE  ChatInv' /\ (StreamFits => NoProtocolError')
<1> PICK code : code = IF rt.status = "completed" THEN 0 ELSE 2
  OBVIOUS
<1>1. /\ UNCHANGED <<req, token, rt, ver, since, pipe, control, client>>
      /\ child' = [child EXCEPT !.life = "exited", !.code = code]
      /\ child.life = "running" /\ rt.pc = "done"
  BY DEF Exit, runtimeVars, Running, At
<1>2. TransportTypes /\ Ends /\ token \in BOOLEAN /\ client.result = "none"
  BY <1>1 DEF Expectations, ChatInv, StreamInv, RuntimeInv, World, Ends, Settled, Running
<1>3. TransportTypes' /\ child'.life = "exited" /\ child'.code = code
  BY <1>1, <1>2 DEF TransportTypes
<1>4. RuntimeInv'
  BY <1>1, <1>2, RuntimeKept DEF Expectations, ChatInv
<1>5. Ends' /\ ResolvedIsWhole'
  BY <1>1, <1>2, <1>3 DEF Ends, ResolvedIsWhole, Settled, Running, ChatTerminals
<1>6. client'.error = "none" => Numbers' /\ Terminal'
  BY <1>1, <1>3 DEF Expectations, ChatInv, StreamInv, Numbers, Terminal
<1>7. StreamFits => NoProtocolError'
  BY <1>1 DEF Expectations, NoProtocolError
<1>. QED BY <1>3, <1>4, <1>5, <1>6, <1>7 DEF ChatInv, StreamInv

(* A kill loses the end of what was sent.                                   *)
LEMMA DieStream ==
  ASSUME Expectations, Die
  PROVE  ChatInv' /\ (StreamFits => NoProtocolError')
<1>1. PICK n \in 0..Len(pipe) : pipe' = SubSeq(pipe, 1, n)
  BY DEF Die
<1>2. PICK cut \in BOOLEAN : child' = [child EXCEPT !.life = "killed", !.partial = cut]
  BY DEF Die
<1>3. /\ child.life = "running" /\ UNCHANGED <<control, client>>
      /\ rt'.pc = "done" /\ rt'.seq = rt.seq /\ rt'.texts = rt.texts /\ rt'.status = rt.status
  BY DEF Die, Running, NewRequest
<1>4. TransportTypes /\ Ends /\ client.result = "none"
  BY <1>3 DEF Expectations, ChatInv, StreamInv, Ends, Settled, Running
<1>5. /\ pipe \in Seq(PipeEvents) /\ Len(pipe) \in Nat /\ Len(pipe) <= PipeCapacity
      /\ n \in Nat /\ n <= Len(pipe) /\ PipeCapacity \in Nat
  BY <1>4, ChatAssumption DEF TransportTypes
<1>6. pipe' \in Seq(PipeEvents) /\ Len(pipe') = n /\ \A i \in 1..n : pipe'[i] = pipe[i]
  <2>1. \A i \in 1..n : pipe[i] \in PipeEvents
    BY <1>5
  <2>2. 1 \in Int /\ n \in Int
    BY <1>5
  <2>. QED BY <1>1, <1>5, <2>1, <2>2, SubSeqProperties
<1>7. TransportTypes' /\ child'.life = "killed"
  <2>1. child \in [life : {"running", "exited", "killed"}, code : {0, 2}, kill : BOOLEAN,
                    partial : BOOLEAN]
    BY <1>4 DEF TransportTypes
  <2>2. /\ child' \in [life : {"running", "exited", "killed"}, code : {0, 2}, kill : BOOLEAN,
                        partial : BOOLEAN]
        /\ child'.life = "killed"
    BY <1>2, <2>1
  <2>3. Len(pipe') <= PipeCapacity
    BY <1>5, <1>6
  <2>. QED BY <1>3, <1>4, <1>6, <2>2, <2>3 DEF TransportTypes
<1>8. RuntimeInv'
  BY DieStep DEF Expectations, ChatInv
<1>9. Ends' /\ ResolvedIsWhole'
  BY <1>3, <1>4, <1>7 DEF Ends, ResolvedIsWhole, Settled, Running, ChatTerminals
<1>10. ASSUME client.error = "none"
       PROVE  Numbers' /\ Terminal'
  <2>1. Numbers /\ Terminal /\ client.expected \in Nat /\ rt.seq \in Nat
    BY <1>4, <1>10, Numbers0 DEF Expectations, ChatInv, StreamInv, TransportTypes, Clients
  <2>2. \A i \in 1..n : i \in 1..Len(pipe)
    BY <1>5
  <2>3. client.expected + n <= rt.seq
    BY <1>5, <2>1 DEF Numbers
  <2>4. Numbers'
    BY <1>3, <1>6, <1>7, <2>1, <2>2, <2>3 DEF Numbers
  <2>5. client.terminal # "none" => pipe' = <<>>
    <3>1. client.terminal # "none" => n = 0
      BY <1>5, <2>1, EmptySeq DEF Terminal
    <3>. QED BY <1>6, <3>1, EmptySeq
  <2>6. \A i \in 1..n : i = Len(pipe) => i = n
    BY <1>5
  <2>7. Terminal'
    BY <1>3, <1>6, <1>7, <2>1, <2>2, <2>5, <2>6 DEF Terminal
  <2>. QED BY <2>4, <2>7
<1>11. StreamFits => NoProtocolError'
  BY <1>3 DEF Expectations, NoProtocolError
<1>. QED BY <1>3, <1>7, <1>8, <1>9, <1>10, <1>11 DEF ChatInv, StreamInv

(* The promise settles.                                                     *)
LEMMA CloseStream ==
  ASSUME Expectations, Close
  PROVE  ChatInv' /\ (StreamFits => NoProtocolError')
<1> PICK outcome : outcome = Settlement
  OBVIOUS
<1>1. /\ UNCHANGED <<req, token, rt, ver, since, pipe, child, control>>
      /\ client' = [client EXCEPT !.result = outcome]
      /\ client.result = "none" /\ child.life # "running" /\ pipe = <<>>
  BY DEF Close, runtimeVars, Settled, Running
<1>2. TransportTypes /\ Ends /\ token \in BOOLEAN
  BY DEF Expectations, ChatInv, StreamInv, RuntimeInv, World
<1>3. /\ client \in Clients /\ client.error \in ClientErrors
      /\ client.terminal \in {"none"} \union ChatTerminals
      /\ child.life \in {"running", "exited", "killed"} /\ child.code \in {0, 2}
  BY <1>2 DEF TransportTypes, Clients
<1>4. outcome \in Results
  <2>1. outcome \in {client.error, client.terminal, "invalid_ndjson", "timeout",
                     "cancellation_forced", "cancellation_unconfirmed", "process_interrupted",
                     "terminal_missing", "process_failed"}
    BY DEF Settlement
  <2>. QED BY <1>3, <2>1 DEF Results, ClientErrors
<1>5. /\ client' \in Clients /\ client'.expected = client.expected
      /\ client'.texts = client.texts /\ client'.terminal = client.terminal
      /\ client'.error = client.error /\ client'.result = outcome
  BY <1>1, <1>3, <1>4 DEF Clients
<1>6. TransportTypes'
  BY <1>1, <1>2, <1>5 DEF TransportTypes
<1>7. RuntimeInv'
  BY <1>1, <1>2, RuntimeKept DEF Expectations, ChatInv
<1>8. Ends'
  BY <1>1, <1>2 DEF Ends, Running
<1>9. client'.error = "none" => Numbers' /\ Terminal'
  BY <1>1, <1>5 DEF Expectations, ChatInv, StreamInv, Numbers, Terminal
<1>10. outcome \in ChatTerminals =>
         /\ client.error = "none" /\ client.terminal = outcome
         /\ outcome = "completed" => ExitCode = 0
  <2>1. CASE client.error # "none"
    <3>1. outcome = client.error
      BY <2>1 DEF Settlement
    <3>. QED BY <1>3, <2>1, <3>1 DEF ClientErrors, ChatTerminals
  <2>2. CASE client.error = "none" /\ (child.partial \/ client.timedOut \/ client.terminal = "none")
    <3>1. outcome \in {"invalid_ndjson", "timeout", "cancellation_forced",
                       "cancellation_unconfirmed", "process_interrupted", "terminal_missing"}
      BY <2>2 DEF Settlement
    <3>. QED BY <3>1 DEF ChatTerminals
  <2>3. CASE /\ client.error = "none" /\ ~child.partial /\ ~client.timedOut
             /\ client.terminal # "none"
    <3>1. outcome = IF client.terminal = "completed" /\ ExitCode # 0 THEN "process_failed"
                    ELSE client.terminal
      BY <2>3 DEF Settlement
    <3>. QED BY <2>3, <3>1 DEF ChatTerminals
  <2>. QED BY <2>1, <2>2, <2>3
<1>11. outcome \in ChatTerminals => outcome = rt.status
  BY <1>10 DEF Expectations, ChatInv, StreamInv, Terminal, ChatTerminals
<1>12. ASSUME outcome = "completed"
       PROVE  /\ child.life = "exited" /\ child.code = 0
              /\ client.expected = rt.seq /\ client.texts = rt.texts
  <2>1. "completed" \in ChatTerminals
    BY DEF ChatTerminals
  <2>2. client.error = "none" /\ child.life = "exited" /\ child.code = 0
    BY <1>1, <1>3, <1>10, <1>12, <2>1 DEF ExitCode
  <2>3. Numbers /\ client.expected \in Nat /\ client.texts \in Nat
    BY <1>3, <2>2 DEF Expectations, ChatInv, StreamInv, Clients
  <2>4. Len(pipe) = 0 /\ Cardinality(TextNumbers(pipe)) = 0
    BY <1>1, NoTexts
  <2>5. client.expected + Len(pipe) = rt.seq
        /\ client.texts + Cardinality(TextNumbers(pipe)) = rt.texts
    BY <2>2, <2>3 DEF Numbers
  <2>. QED BY <2>2, <2>3, <2>4, <2>5
<1>13. ResolvedIsWhole'
  <2>1. "completed" \in ChatTerminals
    BY DEF ChatTerminals
  <2>. QED BY <1>1, <1>5, <1>11, <1>12, <2>1 DEF ResolvedIsWhole
<1>14. outcome # "terminal_missing"
  <2>1. SUFFICES ASSUME outcome = "terminal_missing" PROVE FALSE
    OBVIOUS
  <2>2. client.error = "none" /\ client.terminal = "none" /\ ExitCode = 0
    BY <1>3, <2>1 DEF Settlement, ClientErrors, ChatTerminals
  <2>3. child.life = "exited" /\ child.code = 0
    BY <1>1, <1>3, <2>2 DEF ExitCode
  <2>4. rt.status = "completed"
    BY <1>2, <2>3 DEF Ends
  <2>5. Terminal
    BY <2>2 DEF Expectations, ChatInv, StreamInv
  <2>. QED BY <1>1, <2>2, <2>3, <2>4, <2>5 DEF Terminal
<1>15. StreamFits => NoProtocolError'
  BY <1>5, <1>14 DEF Expectations, NoProtocolError
<1>. QED BY <1>6, <1>7, <1>8, <1>9, <1>13, <1>15 DEF ChatInv, StreamInv

-----------------------------------------------------------------------------
LEMMA ExpectationsStart == Init => Expectations
<1> SUFFICES ASSUME Init PROVE Expectations
  OBVIOUS
<1>1. /\ pipe = <<>> /\ rt = NewRequest /\ control = "none" /\ client = NewClient
      /\ child = [life |-> "running", code |-> 0, kill |-> FALSE, partial |-> FALSE]
  BY DEF Init, RuntimeInit
<1>2. TransportTypes
  <2>1. client \in Clients
    BY <1>1, TransportAssumption DEF Clients, ClientErrors, Results, NewClient, ChatTerminals
  <2>2. pipe \in Seq(PipeEvents) /\ Len(pipe) <= PipeCapacity
    BY <1>1, ChatAssumption, EmptySeq
  <2>. QED BY <1>1, <2>1, <2>2 DEF TransportTypes
<1>3. Ends /\ ResolvedIsWhole /\ NoProtocolError
  BY <1>1 DEF Ends, ResolvedIsWhole, NoProtocolError, Settled, Running, NewClient, NewRequest,
     ChatTerminals
<1>4. Numbers /\ Terminal
  BY <1>1, NoTexts DEF Numbers, Terminal, NewClient, NewRequest
<1>. QED BY <1>2, <1>3, <1>4, RuntimeStart DEF Expectations, ChatInv, StreamInv

LEMMA ExpectationsKept == Expectations /\ [Next]_vars => Expectations'
<1> SUFFICES ASSUME Expectations, [Next]_vars PROVE Expectations'
  OBVIOUS
<1>1. CASE Runtime
  <2>1. Goes
    BY <1>1, RuntimeGoes DEF Runtime, Expectations, ChatInv
  <2>. QED BY <1>1, <2>1, SpokenStream DEF Runtime, Goes, Expectations, ChatInv
<1>2. CASE \E throws \in ConsumerThrows : Receive(throws)
  <2>1. PICK throws \in ConsumerThrows : Receive(throws)
    BY <1>2
  <2>2. token \in BOOLEAN /\ RuntimeInv
    BY DEF Expectations, ChatInv, RuntimeInv, World
  <2>3. RuntimeInv'
    BY <2>1, <2>2, RuntimeKept DEF Receive
  <2>. QED BY <2>1, <2>3, ReceiveStream DEF Expectations, ChatInv
<1>3. CASE Cancel
  BY <1>3, RequestStream DEF Cancel, Expectations
<1>4. CASE Timeout
  BY <1>4, RequestStream DEF Timeout, Expectations
<1>5. CASE Exit \/ WatchControl \/ Die
  BY <1>5, ExitStream, WatchStream, DieStream DEF Expectations
<1>6. CASE ForceTerminate \/ Close \/ Change
  BY <1>6, ForceStream, CloseStream, ChangeStream DEF Expectations
<1>7. CASE UNCHANGED vars
  <2>1. UNCHANGED <<req, token, rt, ver, since, pipe, child, control, client>>
    BY <1>7 DEF vars, runtimeVars
  <2>2. token \in BOOLEAN /\ RuntimeInv /\ TransportTypes
    BY DEF Expectations, ChatInv, RuntimeInv, World, StreamInv
  <2>3. RuntimeInv'
    BY <2>1, <2>2, RuntimeKept
  <2>4. TransportTypes'
    BY <2>1, <2>2 DEF TransportTypes
  <2>. QED BY <2>1, <2>3, <2>4, StreamAside DEF Expectations, ChatInv
<1>. QED BY <1>1, <1>2, <1>3, <1>4, <1>5, <1>6, <1>7 DEF Next, Rested

LEMMA ExpectationsHold == Spec => []Expectations
BY ExpectationsStart, ExpectationsKept, PTL DEF Spec

(* Whatever model, files and changes: every claim of fact that is shown     *)
(* cites lines that were injected, with the hash they were injected with,   *)
(* and what was injected is within the scope of the request                 *)
(* (run_grounded_assistant, validate_grounded_answer, bounded_history).     *)
THEOREM GroundedInScopeHolds == Spec => []GroundedInScope
<1>1. Expectations => GroundedInScope
  <2> SUFFICES ASSUME Expectations PROVE GroundedInScope
    OBVIOUS
  <2>1. TransportTypes /\ World /\ Local(rt) /\ rt.seq \in Nat
    BY DEF Expectations, ChatInv, StreamInv, RuntimeInv, Counted
  <2>2. TypeOK
    BY <2>1 DEF TypeOK, TransportTypes, Clients, World, Local, Shaped
  <2>3. AnswerIsGrounded
    <3>1. SUFFICES ASSUME rt.texts > 0 PROVE GroundedIn(rt.answer, rt.snaps)
      BY DEF AnswerIsGrounded
    <3>2. rt.pc \in Late
      BY <2>1, <3>1 DEF Local, Answering, Shaped, Places
    <3>. QED BY <2>1, <3>2 DEF Local, Answering
  <2>4. ScopeKept
    BY <2>1 DEF ScopeKept, Local, Scoped, Strict
  <2>. QED BY <2>2, <2>3, <2>4 DEF GroundedInScope
<1>. QED BY <1>1, ExpectationsHold, PTL

(* When the first words of a grounded answer are shown, every file it rests *)
(* on has had the injected content since the answer was produced, however   *)
(* many changes there are (revalidate_reference_snapshots).                 *)
THEOREM AnswerNotStaleHolds == Spec => AnswerNotStale
<1> DEFINE Step == rt.texts = 0 /\ rt'.texts = 1
                     /\ rt.route \in {"reference_llm", "document_facts"}
                   => \A i \in 1..Len(rt.snaps) : rt.snaps[i].ver \in since[rt.snaps[i].path]
<1>1. Expectations /\ [Next]_vars => [Step]_vars
  <2> SUFFICES ASSUME Expectations, Next, rt.texts = 0, rt'.texts = 1,
                      rt.route \in {"reference_llm", "document_facts"},
                      NEW i \in 1..Len(rt.snaps)
               PROVE  rt.snaps[i].ver \in since[rt.snaps[i].path]
    BY DEF Step
  <2>1. CASE Runtime
    <3>1. Spoken
      BY <2>1, RuntimeGoes DEF Runtime, Expectations, ChatInv, Goes
    <3>2. rt.pc = "text"
      <4>1. CASE Silent
        BY <4>1 DEF Silent
      <4>2. CASE \E kind \in Kinds : Sends(kind)
        BY <4>2 DEF Sends
      <4>. QED BY <3>1, <4>1, <4>2 DEF Spoken
    <3>. QED BY <3>2 DEF Expectations, ChatInv, RuntimeInv, Current, Seen
  <2>2. CASE ~Runtime
    <3>1. rt'.texts = rt.texts
      BY <2>2 DEF Next, Exit, WatchControl, Die, Receive, Cancel, Timeout, RequestCancellation,
         ForceTerminate, Close, Change, Save, Rested, runtimeVars, vars, NewRequest
    <3>. QED BY <3>1
  <2>. QED BY <2>1, <2>2
<1>. QED BY <1>1, ExpectationsHold, PTL DEF Spec, AnswerNotStale

(* A request cancelled before its end was chosen is never reported as       *)
(* completed, wherever the token was set (execute_chat).                    *)
THEOREM CancelHonouredHolds == Spec => CancelHonoured
<1> DEFINE Step == token /\ rt.status = "none" /\ ~At("completed") =>
                     rt'.status # "completed" /\ rt'.pc # "completed"
<1>1. Expectations /\ [Next]_vars => [Step]_vars
  <2> SUFFICES ASSUME Expectations, Next, token, rt.status = "none", rt.pc # "completed"
               PROVE  rt'.status # "completed" /\ rt'.pc # "completed"
    BY DEF Step, At
  <2>1. CASE Runtime
    <3>1. Spoken
      BY <2>1, RuntimeGoes DEF Runtime, Expectations, ChatInv, Goes
    <3>. QED BY <3>1 DEF Spoken, Silent, Sends
  <2>2. CASE Die
    BY <2>2 DEF Die, NewRequest
  <2>3. CASE ~Runtime /\ ~Die
    <3>1. rt' = rt
      BY <2>3 DEF Next, Exit, WatchControl, Receive, Cancel, Timeout, RequestCancellation,
         ForceTerminate, Close, Change, Save, Rested, runtimeVars, vars
    <3>. QED BY <3>1
  <2>. QED BY <2>1, <2>2, <2>3
<1>. QED BY <1>1, ExpectationsHold, PTL DEF Spec, CancelHonoured

(* A client whose limit the events of a request stay below settles with     *)
(* what the process decided and received, whatever it is that cancels,      *)
(* kills or throws, and never takes the stream for a broken one             *)
(* (runSequencedStream, ChatEventEmitter::send).                            *)
THEOREM SettledAsDecidedHolds == ASSUME StreamFits PROVE Spec => []SettledAsDecided
<1>1. Expectations => SettledAsDecided
  BY DEF Expectations, ChatInv, StreamInv, SettledAsDecided
<1>. QED BY <1>1, ExpectationsHold, PTL
=============================================================================
