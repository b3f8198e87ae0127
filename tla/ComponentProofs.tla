-------------------------- MODULE ComponentProofs --------------------------
(***************************************************************************)
(* Proofs about the components that have an instance of their own:         *)
(*                                                                         *)
(*   EditReview    UserDecides                                             *)
(*   RagIndex      IndexIsSound                                            *)
(*   JavaEdits     EditsAreVerified                                        *)
(*   ChatSession   StoreIsSaved, ClearedIsNotSent                          *)
(*   EditPlan      PlanIsFaithful                                          *)
(*                                                                         *)
(* EditReview.  That each change of the workspace was confirmed needs what *)
(* a command carries from one stage to the next: an approval is for the    *)
(* command's own operation (Row), and a confirmation in flight is one the  *)
(* user gave (Consented).  That what the extension holds was committed     *)
(* needs the events that are still on their way (Told), and that nothing   *)
(* moves a proposal's transaction once it is applied (Committed, Keeps).   *)
(*                                                                         *)
(* RagIndex.  A stamp never comes back, so two looks that agree saw one    *)
(* text (Reads); a build that met no fault and no other build finds on     *)
(* disk what it left there (Solo).                                         *)
(*                                                                         *)
(* JavaEdits.  A report that can be used validates exactly the files with  *)
(* provable edits, and two usable reports on one text are the same.        *)
(*                                                                         *)
(* ChatSession.  A session is used in one epoch only (OfKnownTurns), and   *)
(* what was cleared is in no list that a session of a later epoch may be   *)
(* read from: not in memory, in the memento, on disk, or with a handler    *)
(* under way (ClearedLists, ClearedHandlers).                              *)
(*                                                                         *)
(* EditPlan.  The ranges do not overlap, so that sorted from the last to   *)
(* the first each replacement leaves untouched what is before its range    *)
(* (UntouchedTo), and the text it ends with is the one put together from   *)
(* the first to the last (Meeting).  A fold over a sequence is unrolled    *)
(* into the values it has at each prefix, and what holds of all of them is *)
(* proved by counting (CountingUp).                                        *)
(***************************************************************************)
EXTENDS EditReview, RagIndex, JavaEdits, ChatSession, EditPlan, FiniteSetTheorems,
        SequenceTheorems, NaturalsInduction, WellFoundedInduction, TLAPS

-----------------------------------------------------------------------------
(* What a command holds.                                                    *)
ReviewStages ==
  {"idle", "artifact", "artifact_again", "modal", "called", "executing", "returning"}

ReviewIds == Approvals \union (0..MaxAttempts) \union {Nothing}

EventTypes ==
  {"approval_required", "diff_ready", "proposal_discarded", "rollback_available",
   "apply_completed", "rollback_completed"}

ReviewEvents ==
  {e \in [type : EventTypes, id : ReviewIds, success : BOOLEAN] :
     /\ e.type = "approval_required" => e.id \in Approvals
     /\ e.type \in {"rollback_available", "apply_completed"} => e.id \in 1..MaxAttempts}

ReviewLocals ==
  [stage : ReviewStages,
   kind : ReviewOperations \union {"show", "discard", Nothing},
   approval : Approvals \union {Nothing},
   transaction : 0..MaxAttempts,
   then : {"idle", "choose", "offer"},
   back : {"idle", "artifact", "artifact_again"},
   op : ReviewOperations \union {"verify", "diff", "discard", Nothing},
   confirmation : Approvals \union {Nothing},
   events : Seq(ReviewEvents),
   failed : BOOLEAN]

(* An approval is for the command's operation; what opened the modal has    *)
(* one; what is executed was confirmed for that operation.                  *)
Row(r) ==
  /\ r \in ReviewLocals
  /\ r.then # "idle" => r.kind \in ReviewOperations
  /\ r.approval # Nothing => r.approval[1] = r.kind
  /\ r.stage = "modal" => r.kind = "discard" \/ (r.kind \in ReviewOperations /\ r.approval # Nothing)
  /\ r.confirmation # Nothing => r.op \in ReviewOperations
  /\ r.stage = "executing" =>
       r.op \in ReviewOperations /\ r.confirmation # Nothing /\ r.confirmation[1] = r.op

Artifacts == [approval : Approvals \union {Nothing}, transaction : 0..MaxAttempts]
Proposals == [state : ProposalStates, transaction : 0..MaxAttempts, diff : BOOLEAN]

ReviewTypes ==
  /\ record \in Proposals
  /\ artifact \in Artifacts \union {Nothing}
  /\ published \subseteq Approvals \union ({"transaction"} \X (1..MaxAttempts))
  /\ review \in [Commands -> ReviewLocals]
  /\ \A c \in Commands : Row(review[c])
  /\ accepted \in [ReviewOperations -> Nat]

(* A confirmation in flight is one the user gave.                           *)
Consented ==
  \A c \in Commands : review[c].confirmation # Nothing => accepted[review[c].op] >= 1

(* The transaction the proposal was applied by; the record keeps it.        *)
Settled == record.state \in {"applied", "rolled_back"}
Committed(t) ==
  /\ Settled
  /\ record.transaction = t
  /\ \E x \in ran : x.op = "apply" /\ x.transaction = t

Claims(e) == e.type = "rollback_available" \/ (e.type = "apply_completed" /\ e.success)

Told ==
  \A c \in Commands : \A i \in 1..Len(review[c].events) :
    Claims(review[c].events[i]) => Committed(review[c].events[i].id)

Held == artifact # Nothing /\ artifact.transaction # 0 => Committed(artifact.transaction)

(* A proposal is applied once, and rolled back once, each confirmed.        *)
Carried ==
  /\ \A x \in ran :
       /\ x.op \in ReviewOperations
       /\ x.confirmed # Nothing /\ x.confirmed[1] = x.op
       /\ accepted[x.op] >= 1
       /\ x.op = "apply" => Settled
       /\ x.op = "rollback" => record.state = "rolled_back"
  /\ \A x, y \in ran : x.op = y.op => x = y

ReviewInv == ReviewTypes /\ Consented /\ Told /\ Held /\ Carried

-----------------------------------------------------------------------------
(* Rows.                                                                    *)

LEMMA RowAtRest == Row(AtRest)
BY ReviewAssumption DEF Row, AtRest, ReviewLocals, ReviewStages

(* What the runtime answers, or that it failed.                             *)
LEMMA RowAnswer ==
  ASSUME NEW r, Row(r), NEW es \in Seq(ReviewEvents)
  PROVE  LET q == [r EXCEPT !.stage = "returning", !.events = es]
         IN Row(q) /\ q.events = es /\ q.confirmation = r.confirmation /\ q.op = r.op
BY ZenonT(60) DEF Row, ReviewLocals, ReviewStages

LEMMA RowFailed ==
  ASSUME NEW r, Row(r)
  PROVE  LET q == [r EXCEPT !.stage = "returning", !.failed = TRUE]
         IN Row(q) /\ q.events = r.events /\ q.confirmation = r.confirmation /\ q.op = r.op
BY ZenonT(60) DEF Row, ReviewLocals, ReviewStages

LEMMA RowObserved ==
  ASSUME NEW r, Row(r), NEW es \in Seq(ReviewEvents)
  PROVE  LET q == [r EXCEPT !.events = es]
         IN Row(q) /\ q.events = es /\ q.confirmation = r.confirmation /\ q.op = r.op
BY DEF Row, ReviewLocals, ReviewStages

LEMMA RowCalling ==
  ASSUME NEW r, Row(r),
         NEW op \in ReviewOperations \union {"verify", "diff", "discard"},
         NEW id \in Approvals \union {Nothing}, id # Nothing => op \in ReviewOperations,
         NEW back \in {"idle", "artifact", "artifact_again"}
  PROVE  LET q == Calling(r, op, id, back)
         IN Row(q) /\ q.events = <<>> /\ q.confirmation = id /\ q.op = op
<1> DEFINE q == [r EXCEPT !.stage = "called", !.op = op, !.confirmation = id, !.back = back,
                          !.events = <<>>, !.failed = FALSE]
<1>1. <<>> \in Seq(ReviewEvents)
  OBVIOUS
<1>2. r \in ReviewLocals
  BY DEF Row
<1>3. q \in ReviewLocals
  BY <1>1, <1>2, ZenonT(60) DEF ReviewLocals, ReviewStages
<1>4. /\ q.stage = "called" /\ q.op = op /\ q.confirmation = id /\ q.events = <<>>
      /\ q.then = r.then /\ q.kind = r.kind /\ q.approval = r.approval
  BY <1>2 DEF ReviewLocals
<1> HIDE DEF q
<1>5. Row(q)
  BY <1>3, <1>4 DEF Row
<1> QED
  BY <1>4, <1>5 DEF q, Calling

LEMMA RowBack ==
  ASSUME NEW r, Row(r)
  PROVE  LET q == [r EXCEPT !.stage = r.back]
         IN Row(q) /\ q.events = r.events /\ q.confirmation = r.confirmation /\ q.op = r.op
BY DEF Row, ReviewLocals, ReviewStages

LEMMA RowExecuting ==
  ASSUME NEW r, Row(r), r.op \in ReviewOperations, r.confirmation # Nothing,
         r.confirmation[1] = r.op
  PROVE  LET q == [r EXCEPT !.stage = "executing"]
         IN Row(q) /\ q.events = r.events /\ q.confirmation = r.confirmation /\ q.op = r.op
BY DEF Row, ReviewLocals, ReviewStages

(* What no step does: move a settled proposal, or forget what was done.     *)
Keeps ==
  /\ ran \subseteq ran'
  /\ Settled => record'.state \in {"applied", "rolled_back"} /\ record'.transaction = record.transaction
  /\ record.state = "rolled_back" => record'.state = "rolled_back"
  /\ \A op \in ReviewOperations : accepted'[op] >= accepted[op]

CommittedNext(t) ==
  /\ record'.state \in {"applied", "rolled_back"}
  /\ record'.transaction = t
  /\ \E x \in ran' : x.op = "apply" /\ x.transaction = t

LEMMA CommittedStays ==
  ASSUME Keeps, NEW t, Committed(t)
  PROVE  CommittedNext(t)
BY DEF Keeps, Committed, CommittedNext, Settled

LEMMA RowsNow ==
  ASSUME ReviewTypes, NEW c \in Commands, NEW r, Row(r), Now(c, r)
  PROVE  /\ review' \in [Commands -> ReviewLocals]
         /\ review'[c] = r
         /\ \A d \in Commands : d # c => review'[d] = review[d]
         /\ \A d \in Commands : Row(review'[d])
<1>1. r \in ReviewLocals
  BY DEF Row
<1>2. /\ review' \in [Commands -> ReviewLocals]
      /\ review'[c] = r
      /\ \A d \in Commands : d # c => review'[d] = review[d]
  BY <1>1 DEF ReviewTypes, Now
<1>3. \A d \in Commands : Row(review'[d])
  BY <1>2 DEF ReviewTypes
<1> QED
  BY <1>2, <1>3

(* A step of one command.                                                   *)
Typed ==
  /\ record' \in Proposals
  /\ artifact' \in Artifacts \union {Nothing}
  /\ published' \subseteq Approvals \union ({"transaction"} \X (1..MaxAttempts))
  /\ accepted' \in [ReviewOperations -> Nat]

Brings(r) ==
  /\ r.confirmation # Nothing => accepted'[r.op] >= 1
  /\ \A i \in 1..Len(r.events) : Claims(r.events[i]) => CommittedNext(r.events[i].id)

LEMMA CommandStep ==
  ASSUME ReviewInv, NEW c \in Commands, NEW r, Row(r), Now(c, r), Typed, Keeps, Brings(r)
  PROVE  ReviewTypes' /\ Consented' /\ Told'
<1>1. /\ review' \in [Commands -> ReviewLocals]
      /\ review'[c] = r
      /\ \A d \in Commands : d # c => review'[d] = review[d]
      /\ \A d \in Commands : Row(review'[d])
  BY RowsNow DEF ReviewInv
<1>2. ReviewTypes'
  BY <1>1 DEF Typed, ReviewTypes
<1>3. Consented'
  <2> SUFFICES ASSUME NEW d \in Commands, review'[d].confirmation # Nothing
               PROVE  accepted'[review'[d].op] >= 1
    BY DEF Consented
  <2>1. CASE d = c
    BY <2>1, <1>1 DEF Brings
  <2>2. CASE d # c
    <3>1. review'[d] = review[d] /\ Row(review[d])
      BY <2>2, <1>1 DEF ReviewInv, ReviewTypes
    <3> DEFINE op == review[d].op
    <3>2. op \in ReviewOperations /\ accepted[op] >= 1
      BY <3>1 DEF Row, ReviewInv, Consented
    <3>3. accepted'[op] >= accepted[op] /\ accepted'[op] \in Nat /\ accepted[op] \in Nat
      BY <3>2 DEF Keeps, Typed, ReviewInv, ReviewTypes
    <3> QED
      BY <3>1, <3>2, <3>3
  <2> QED
    BY <2>1, <2>2
<1>4. Told'
  <2> SUFFICES ASSUME NEW d \in Commands, NEW i \in 1..Len(review'[d].events),
                      Claims(review'[d].events[i])
               PROVE  CommittedNext(review'[d].events[i].id)
    BY DEF Told, Committed, CommittedNext, Settled, Claims
  <2>1. CASE d = c
    BY <2>1, <1>1 DEF Brings
  <2>2. CASE d # c
    <3>1. review'[d] = review[d]
      BY <2>2, <1>1
    <3>2. Committed(review[d].events[i].id)
      BY <3>1 DEF ReviewInv, Told
    <3> QED
      BY <3>1, <3>2, CommittedStays
  <2> QED
    BY <2>1, <2>2
<1> QED
  BY <1>2, <1>3, <1>4

LEMMA HeldStays ==
  ASSUME Held, Keeps, artifact' = artifact
  PROVE  Held'
<1> SUFFICES ASSUME artifact # Nothing, artifact.transaction # 0
             PROVE  CommittedNext(artifact.transaction)
  BY DEF Held, Committed, CommittedNext, Settled
<1> QED
  BY CommittedStays DEF Held

LEMMA CarriedStays ==
  ASSUME ReviewInv, Typed, Keeps, ran' = ran
  PROVE  Carried'
<1>1. \A op \in ReviewOperations : accepted'[op] \in Nat /\ accepted[op] \in Nat
  BY DEF Typed, ReviewInv, ReviewTypes
<1>2. ASSUME NEW x \in ran PROVE accepted'[x.op] >= 1
  <2>1. x.op \in ReviewOperations /\ accepted[x.op] >= 1
    BY <1>2 DEF ReviewInv, Carried
  <2> QED
    BY <2>1, <1>1 DEF Keeps
<1> QED
  BY <1>2 DEF ReviewInv, Carried, Keeps, Settled

(* A step that only moves one command.                                      *)
LEMMA LocalStep ==
  ASSUME ReviewInv, NEW c \in Commands, NEW r, Row(r), Now(c, r),
         UNCHANGED <<record, artifact, published, accepted, ran>>,
         r.confirmation # Nothing => accepted[r.op] >= 1,
         r.events = review[c].events \/ r.events = <<>>
  PROVE  ReviewInv'
<1>1. Typed /\ Keeps
  BY DEF Typed, Keeps, ReviewInv, ReviewTypes, Settled
<1>2. Brings(r)
  <2> SUFFICES ASSUME NEW i \in 1..Len(r.events), Claims(r.events[i])
               PROVE  CommittedNext(r.events[i].id)
    BY DEF Brings
  <2>1. r.events = review[c].events
    OBVIOUS
  <2>2. Committed(r.events[i].id)
    BY <2>1 DEF ReviewInv, Told
  <2> QED
    BY <2>2, <1>1, CommittedStays
<1> QED
  BY <1>1, <1>2, CommandStep, HeldStays, CarriedStays DEF ReviewInv

-----------------------------------------------------------------------------
(* The commands.                                                            *)

LEMMA RowAsking ==
  ASSUME NEW kind \in ReviewOperations, NEW id \in Approvals \union {Nothing},
         id # Nothing => id[1] = kind, NEW t \in 0..MaxAttempts
  PROVE  LET r == [AtRest EXCEPT !.stage = "artifact", !.kind = kind, !.then = "choose"]
             p == [r EXCEPT !.approval = id]
             q == [r EXCEPT !.transaction = t]
         IN /\ Row(p) /\ p.events = <<>> /\ p.confirmation = Nothing
            /\ Row(q) /\ q.events = <<>> /\ q.confirmation = Nothing
<1> DEFINE r == [AtRest EXCEPT !.stage = "artifact", !.kind = kind, !.then = "choose"]
           p == [r EXCEPT !.approval = id]
           q == [r EXCEPT !.transaction = t]
<1>1. /\ AtRest \in ReviewLocals /\ AtRest.events = <<>> /\ AtRest.confirmation = Nothing
      /\ AtRest.approval = Nothing
  BY RowAtRest DEF Row, AtRest
<1>2. r \in ReviewLocals
  BY <1>1 DEF ReviewLocals, ReviewStages
<1>3. /\ r.stage = "artifact" /\ r.kind = kind /\ r.then = "choose" /\ r.approval = Nothing
      /\ r.events = <<>> /\ r.confirmation = Nothing
  BY <1>1 DEF ReviewLocals
<1> HIDE DEF r
<1>4. p \in ReviewLocals /\ q \in ReviewLocals
  BY <1>2 DEF ReviewLocals
<1>5. /\ p.stage = "artifact" /\ p.kind = kind /\ p.then = "choose" /\ p.approval = id
      /\ p.events = <<>> /\ p.confirmation = Nothing
  BY <1>2, <1>3 DEF ReviewLocals
<1>6. /\ q.stage = "artifact" /\ q.kind = kind /\ q.then = "choose" /\ q.approval = Nothing
      /\ q.events = <<>> /\ q.confirmation = Nothing
  BY <1>2, <1>3 DEF ReviewLocals
<1> HIDE DEF p, q
<1>7. Row(p) /\ Row(q)
  BY <1>4, <1>5, <1>6 DEF Row
<1> QED
  BY <1>5, <1>6, <1>7 DEF p, q, r

LEMMA AskStep ==
  ASSUME ReviewInv, NEW c \in Commands, NEW r, Row(r), r.events = <<>>,
         r.confirmation = Nothing, Ask(c, r)
  PROVE  ReviewInv'
BY LocalStep DEF Ask

LEMMA TypeRequestStep ==
  ASSUME ReviewInv, NEW c \in Commands, NEW op \in {"verify", "diff", "apply", "rollback"},
         TypeRequest(c, op)
  PROVE  ReviewInv'
<1> PICK r : r = Calling(AtRest, op, Nothing, "idle")
  OBVIOUS
<1>0. /\ op \in ReviewOperations \union {"verify", "diff", "discard"}
      /\ Nothing \in Approvals \union {Nothing}
      /\ "idle" \in {"idle", "artifact", "artifact_again"}
  BY DEF ReviewOperations
<1>1. Row(r) /\ r.events = <<>> /\ r.confirmation = Nothing
  BY <1>0, RowAtRest, RowCalling
<1>2. Ask(c, r)
  BY DEF TypeRequest
<1> QED
  BY <1>1, <1>2, AskStep

LEMMA ShowDiffStep ==
  ASSUME ReviewInv, NEW c \in Commands, ShowDiff(c) \/ PressDiscard(c)
  PROVE  ReviewInv'
<1>1. \A r : r = [AtRest EXCEPT !.stage = "artifact", !.kind = "show", !.then = "idle"]
               => Row(r) /\ r.events = <<>> /\ r.confirmation = Nothing
  BY RowAtRest, ZenonT(60) DEF Row, AtRest, ReviewLocals, ReviewStages
<1>2. \A r : r = [AtRest EXCEPT !.stage = "modal", !.kind = "discard"]
               => Row(r) /\ r.events = <<>> /\ r.confirmation = Nothing
  BY RowAtRest, ZenonT(60) DEF Row, AtRest, ReviewLocals, ReviewStages
<1>3. PICK r : Row(r) /\ r.events = <<>> /\ r.confirmation = Nothing /\ Ask(c, r)
  BY <1>1, <1>2 DEF ShowDiff, PressDiscard
<1> QED
  BY <1>3, AskStep

LEMMA PressStep ==
  ASSUME ReviewInv, NEW c \in Commands, NEW op \in ReviewOperations,
         NEW button \in {Nothing} \union Buttons(op), Press(c, op, button)
  PROVE  ReviewInv'
<1> DEFINE start == [AtRest EXCEPT !.stage = "artifact", !.kind = op, !.then = "choose"]
<1>1. 0 \in 0..MaxAttempts
  BY ReviewAssumption
<1>2. \/ button = Nothing
      \/ button \in Approvals /\ button[1] = op
      \/ button[1] = "transaction" /\ button[2] \in 0..MaxAttempts
  BY ReviewAssumption DEF Buttons, ReviewInv, ReviewTypes, Approvals, ReviewOperations
<1>3. PICK r : Row(r) /\ r.events = <<>> /\ r.confirmation = Nothing /\ Ask(c, r)
  <2>1. CASE button # Nothing /\ button[1] = "transaction"
    <3>1. button[2] \in 0..MaxAttempts
      BY <1>2, <2>1 DEF ReviewOperations
    <3>2. Ask(c, [start EXCEPT !.transaction = button[2]])
      BY <2>1 DEF Press
    <3>3. Nothing \in Approvals \union {Nothing}
      OBVIOUS
    <3> QED
      BY <3>1, <3>2, <3>3, RowAsking
  <2>2. CASE ~(button # Nothing /\ button[1] = "transaction")
    <3>1. button \in Approvals \union {Nothing} /\ (button # Nothing => button[1] = op)
      BY <1>2, <2>2
    <3>2. Ask(c, [start EXCEPT !.approval = button])
      BY <2>2 DEF Press
    <3> QED
      BY <3>1, <3>2, <1>1, RowAsking
  <2> QED
    BY <2>1, <2>2
<1> QED
  BY <1>3, AskStep

LEMMA RowChosen ==
  ASSUME NEW r, Row(r), r.then = "choose", r.stage # "modal", artifact \in Artifacts
  PROVE  LET q == Chosen(r)
         IN /\ Row(q)
            /\ q.confirmation \in {r.confirmation, Nothing}
            /\ q.confirmation # Nothing => q.op = r.op
            /\ q.events \in {r.events, <<>>}
<1> DEFINE approval == IF r.kind = "apply" /\ r.approval = Nothing THEN artifact.approval ELSE r.approval
           t == IF r.kind = "rollback" /\ r.transaction = 0 THEN artifact.transaction ELSE r.transaction
           known == [r EXCEPT !.transaction = t]
           asked == [known EXCEPT !.approval = Nothing, !.then = "offer"]
           shown == [known EXCEPT !.stage = "modal", !.approval = approval]
<1>0. r \in ReviewLocals /\ r.kind \in ReviewOperations
  BY DEF Row
<1>1. t \in 0..MaxAttempts
  BY <1>0 DEF Artifacts, ReviewLocals
<1>2. approval \in Approvals \union {Nothing}
  BY <1>0 DEF Artifacts, ReviewLocals
<1> HIDE DEF t, approval
<1>3. known \in ReviewLocals /\ asked \in ReviewLocals /\ shown \in ReviewLocals
  BY <1>0, <1>1, <1>2 DEF ReviewLocals, ReviewStages
<1>4. /\ asked.stage = r.stage /\ asked.kind = r.kind /\ asked.approval = Nothing
      /\ asked.then = "offer" /\ asked.op = r.op /\ asked.confirmation = r.confirmation
  BY <1>0 DEF ReviewLocals
<1>5. /\ shown.stage = "modal" /\ shown.kind = r.kind /\ shown.approval = approval
      /\ shown.then = r.then /\ shown.op = r.op /\ shown.confirmation = r.confirmation
      /\ shown.events = r.events
  BY <1>0 DEF ReviewLocals
<1>6. Chosen(r) = IF approval = Nothing \/ ArtifactOperation # r.kind
                  THEN Calling(asked, r.kind, Nothing, "artifact") ELSE shown
  BY DEF Chosen, approval, t
<1>7. CASE approval = Nothing \/ ArtifactOperation # r.kind
  <2>1. Row(asked)
    BY <1>0, <1>3, <1>4 DEF Row
  <2>2. Nothing \in Approvals \union {Nothing}
    OBVIOUS
  <2>3. LET q == Calling(asked, r.kind, Nothing, "artifact")
        IN Row(q) /\ q.events = <<>> /\ q.confirmation = Nothing
    BY <2>1, <2>2, <1>0, RowCalling
  <2> QED
    BY <2>3, <1>6, <1>7
<1>8. CASE ~(approval = Nothing \/ ArtifactOperation # r.kind)
  <2>1. approval[1] = r.kind
    BY <1>0, <1>8 DEF approval, ArtifactOperation, Row
  <2>2. Row(shown)
    BY <1>0, <1>3, <1>5, <1>8, <2>1 DEF Row
  <2> QED
    BY <2>2, <1>5, <1>6, <1>8
<1> QED
  BY <1>7, <1>8

LEMMA RowOffered ==
  ASSUME NEW r, Row(r), r.then = "offer", artifact \in Artifacts
  PROVE  LET q == Offered(r)
         IN /\ Row(q)
            /\ q.confirmation \in {r.confirmation, Nothing}
            /\ q.confirmation # Nothing => q.op = r.op
            /\ q.events \in {r.events, <<>>}
<1> DEFINE shown == [r EXCEPT !.stage = "modal", !.approval = artifact.approval]
<1>0. r \in ReviewLocals /\ r.kind \in ReviewOperations
  BY DEF Row
<1>1. CASE ArtifactOperation # r.kind
  BY <1>1, RowAtRest DEF Offered, AtRest
<1>2. CASE ArtifactOperation = r.kind
  <2>1. artifact.approval \in Approvals /\ artifact.approval # Nothing /\ artifact.approval[1] = r.kind
    BY <1>0, <1>2, ReviewAssumption DEF ArtifactOperation, Artifacts
  <2>2. shown \in ReviewLocals
    BY <1>0, <2>1 DEF ReviewLocals, ReviewStages
  <2>3. /\ shown.stage = "modal" /\ shown.kind = r.kind /\ shown.approval = artifact.approval
        /\ shown.then = r.then /\ shown.op = r.op /\ shown.confirmation = r.confirmation
        /\ shown.events = r.events
    BY <1>0 DEF ReviewLocals
  <2>4. Row(shown)
    BY <1>0, <2>1, <2>2, <2>3 DEF Row
  <2> QED
    BY <2>3, <2>4, <1>2 DEF Offered
<1> QED
  BY <1>1, <1>2

LEMMA EnsureArtifactStep ==
  ASSUME ReviewInv, NEW c \in Commands, EnsureArtifact(c)
  PROVE  ReviewInv'
<1> DEFINE r == review[c]
<1>1. Row(r) /\ (r.confirmation # Nothing => accepted[r.op] >= 1)
  BY DEF ReviewInv, ReviewTypes, Consented
<1>2. UNCHANGED <<record, artifact, published, accepted, ran>>
  BY DEF EnsureArtifact
<1>3. PICK q : /\ Now(c, q) /\ Row(q)
               /\ q.confirmation \in {r.confirmation, Nothing}
               /\ q.confirmation # Nothing => q.op = r.op
               /\ q.events \in {r.events, <<>>}
  <2>1. CASE Now(c, AtRest)
    BY <2>1, RowAtRest DEF AtRest
  <2>2. CASE Now(c, Calling(r, "diff", Nothing, "artifact_again"))
    <3>1. "diff" \in ReviewOperations \union {"verify", "diff", "discard"}
          /\ Nothing \in Approvals \union {Nothing}
          /\ "artifact_again" \in {"idle", "artifact", "artifact_again"}
      OBVIOUS
    <3>2. LET q == Calling(r, "diff", Nothing, "artifact_again")
          IN Row(q) /\ q.events = <<>> /\ q.confirmation = Nothing
      BY <1>1, <3>1, RowCalling
    <3> QED
      BY <2>2, <3>2
  <2>3. CASE Waits(c, "artifact") \/ Waits(c, "artifact_again")
    <3>1. r.stage # "modal"
      BY <2>3 DEF Waits
    <3>2. CASE artifact = Nothing
      BY <2>1, <2>2, <3>2 DEF EnsureArtifact, Leave
    <3>3. CASE artifact # Nothing
      <4>1. artifact \in Artifacts
        BY <3>3 DEF ReviewInv, ReviewTypes
      <4>2. Now(c, CASE r.then = "choose" -> Chosen(r) [] r.then = "offer" -> Offered(r) [] OTHER -> AtRest)
        BY <3>3 DEF EnsureArtifact
      <4>3. CASE r.then = "choose"
        <5>1. Now(c, Chosen(r))
          BY <4>2, <4>3
        <5> QED
          BY <5>1, <4>1, <4>3, <3>1, <1>1, RowChosen
      <4>4. CASE r.then = "offer"
        <5>1. Now(c, Offered(r))
          BY <4>2, <4>4
        <5> QED
          BY <5>1, <4>1, <4>4, <1>1, RowOffered
      <4>5. CASE r.then \notin {"choose", "offer"}
        BY <2>1, <4>2, <4>5
      <4> QED
        BY <4>3, <4>4, <4>5
    <3> QED
      BY <3>2, <3>3
  <2> QED
    BY <2>3 DEF EnsureArtifact
<1> QED
  BY <1>1, <1>2, <1>3, LocalStep

LEMMA DismissStep ==
  ASSUME ReviewInv, NEW c \in Commands, Dismiss(c)
  PROVE  ReviewInv'
<1> PICK r : r = AtRest
  OBVIOUS
<1>1. Row(r) /\ r.events = <<>> /\ r.confirmation = Nothing
  BY RowAtRest DEF AtRest
<1>2. Now(c, r)
  BY DEF Dismiss, Leave
<1> QED
  BY <1>1, <1>2, LocalStep DEF Dismiss

LEMMA AcceptStep ==
  ASSUME ReviewInv, NEW c \in Commands, Accept(c)
  PROVE  ReviewInv'
<1> PICK r : r = review[c]
  OBVIOUS
<1>1. Row(r) /\ r \in ReviewLocals /\ r.stage = "modal"
  BY DEF ReviewInv, ReviewTypes, Row, Accept, Waits
<1>2. "idle" \in {"idle", "artifact", "artifact_again"} /\ Nothing \in Approvals \union {Nothing}
      /\ "discard" \in ReviewOperations \union {"verify", "diff", "discard"}
  OBVIOUS
<1>3. CASE r.kind = "discard"
  <2> PICK q : q = Calling(r, "discard", Nothing, "idle")
    OBVIOUS
  <2>1. Row(q) /\ q.events = <<>> /\ q.confirmation = Nothing
    <3> PICK op, id, back : op = "discard" /\ id = Nothing /\ back = "idle"
      OBVIOUS
    <3>1. /\ op \in ReviewOperations \union {"verify", "diff", "discard"}
          /\ id \in Approvals \union {Nothing} /\ (id # Nothing => op \in ReviewOperations)
          /\ back \in {"idle", "artifact", "artifact_again"}
      BY <1>2
    <3>2. q = Calling(r, op, id, back)
      OBVIOUS
    <3>3. Row(q) /\ q.events = <<>> /\ q.confirmation = id
      BY <1>1, <3>1, <3>2, RowCalling
    <3> QED
      BY <3>3
  <2>2. Now(c, q) /\ UNCHANGED accepted
    BY <1>3 DEF Accept
  <2> QED
    BY <2>1, <2>2, LocalStep DEF Accept
<1>4. CASE r.kind # "discard"
  <2>1. r.kind \in ReviewOperations /\ r.approval \in Approvals
    BY <1>1, <1>4 DEF Row, ReviewLocals
  <2> PICK q : q = Calling(r, r.kind, r.approval, "idle")
    OBVIOUS
  <2>2. Row(q) /\ q.events = <<>> /\ q.confirmation = r.approval /\ q.op = r.kind
    BY <1>1, <1>2, <2>1, RowCalling
  <2>3. Now(c, q) /\ accepted' = [accepted EXCEPT ![r.kind] = @ + 1]
    BY <1>4 DEF Accept
  <2>4. accepted \in [ReviewOperations -> Nat]
    BY DEF ReviewInv, ReviewTypes
  <2>5. /\ accepted' \in [ReviewOperations -> Nat]
        /\ accepted'[r.kind] >= 1
        /\ \A op \in ReviewOperations : accepted'[op] >= accepted[op]
    BY <2>1, <2>3, <2>4
  <2>6. UNCHANGED <<record, artifact, published, ran>>
    BY DEF Accept
  <2>7. Typed /\ Keeps
    BY <2>5, <2>6 DEF Typed, Keeps, ReviewInv, ReviewTypes, Settled
  <2>8. Brings(q)
    BY <2>2, <2>5 DEF Brings
  <2> QED
    BY <2>2, <2>3, <2>6, <2>7, <2>8, CommandStep, HeldStays, CarriedStays DEF ReviewInv
<1> QED
  BY <1>3, <1>4

-----------------------------------------------------------------------------
(* The runtime.                                                             *)

Moves ==
  /\ record' \in Proposals
  /\ ran \subseteq ran'
  /\ Settled => record'.state \in {"applied", "rolled_back"} /\ record'.transaction = record.transaction
  /\ record.state = "rolled_back" => record'.state = "rolled_back"

LEMMA AnswerStep ==
  ASSUME ReviewInv, NEW c \in Commands, NEW es \in Seq(ReviewEvents), Answer(c, es),
         published' = published, Moves,
         \A i \in 1..Len(es) : Claims(es[i]) => CommittedNext(es[i].id)
  PROVE  ReviewTypes' /\ Consented' /\ Told' /\ Held' /\ (ran' = ran => Carried')
<1> PICK r : r = review[c]
  OBVIOUS
<1> PICK q : q = [r EXCEPT !.stage = "returning", !.events = es]
  OBVIOUS
<1>1. Row(r) /\ (r.confirmation # Nothing => accepted[r.op] >= 1)
  BY DEF ReviewInv, ReviewTypes, Consented
<1>2. Row(q) /\ q.events = es /\ q.confirmation = r.confirmation /\ q.op = r.op
  <2>1. es \in Seq(ReviewEvents)
    OBVIOUS
  <2> QED
    BY ONLY <1>1, <2>1, RowAnswer, q = [r EXCEPT !.stage = "returning", !.events = es]
<1>3. Now(c, q) /\ UNCHANGED <<artifact, accepted>>
  BY DEF Answer
<1>4. Typed /\ Keeps
  BY <1>3 DEF Typed, Keeps, Moves, ReviewInv, ReviewTypes
<1>5. Brings(q)
  BY <1>1, <1>2, <1>3 DEF Brings
<1> QED
  BY <1>2, <1>3, <1>4, <1>5, CommandStep, HeldStays, CarriedStays DEF ReviewInv

LEMMA FailStep ==
  ASSUME ReviewInv, NEW c \in Commands, FailCommand(c), UNCHANGED <<record, ran, published>>
  PROVE  ReviewInv'
<1> PICK r : r = review[c]
  OBVIOUS
<1> PICK q : q = [r EXCEPT !.stage = "returning", !.failed = TRUE]
  OBVIOUS
<1>1. Row(r) /\ (r.confirmation # Nothing => accepted[r.op] >= 1)
  BY DEF ReviewInv, ReviewTypes, Consented
<1>2. Row(q) /\ q.events = r.events /\ q.confirmation = r.confirmation /\ q.op = r.op
  BY <1>1, RowFailed
<1>3. Now(c, q) /\ UNCHANGED <<artifact, accepted>>
  BY DEF FailCommand
<1> QED
  BY <1>1, <1>2, <1>3, LocalStep

(* The events of an answer.                                                 *)
LEMMA RequestIds ==
  ASSUME record \in Proposals, NEW op \in ReviewOperations
  PROVE  ApprovalRequestId(record, op) \in Approvals
<1>1. record.transaction \in 0..MaxAttempts /\ 0 \in 0..MaxAttempts
  BY ReviewAssumption DEF Proposals
<1> QED
  BY <1>1 DEF ApprovalRequestId, Approvals

LEMMA EventFacts ==
  ASSUME record \in Proposals, NEW op \in ReviewOperations
  PROVE  /\ DiffReady \in ReviewEvents /\ ~Claims(DiffReady)
         /\ ApprovalEvent(record, op) \in ReviewEvents /\ ~Claims(ApprovalEvent(record, op))
<1>1. ApprovalRequestId(record, op) \in Approvals
  BY RequestIds
<1> QED
  BY <1>1 DEF DiffReady, ApprovalEvent, Event, ReviewEvents, EventTypes, ReviewIds, Claims

LEMMA OneEvent ==
  ASSUME NEW e \in ReviewEvents
  PROVE  /\ <<e>> \in Seq(ReviewEvents)
         /\ \A i \in 1..Len(<<e>>) : <<e>>[i] = e
OBVIOUS

LEMMA TwoEvents ==
  ASSUME NEW e \in ReviewEvents, NEW f \in ReviewEvents
  PROVE  /\ <<e, f>> \in Seq(ReviewEvents)
         /\ \A i \in 1..Len(<<e, f>>) : <<e, f>>[i] = e \/ <<e, f>>[i] = f
OBVIOUS

LEMMA RunDiscardStep ==
  ASSUME ReviewInv, NEW c \in Commands, RunDiscard(c)
  PROVE  ReviewInv'
<1>0. record \in Proposals
  BY DEF ReviewInv, ReviewTypes
<1>1. CASE record.state \in Expirable
  <2> PICK e : e = Event("proposal_discarded", Nothing, TRUE)
    OBVIOUS
  <2>1. e \in ReviewEvents /\ ~Claims(e)
    BY DEF Event, ReviewEvents, EventTypes, ReviewIds, Claims
  <2>2. record' = [record EXCEPT !.state = "discarded"] /\ Answer(c, <<e>>)
        /\ published' = published /\ ran' = ran
    BY <1>1 DEF RunDiscard
  <2>3. Moves
    BY <1>0, <1>1, <2>2 DEF Moves, Proposals, ProposalStates, Expirable, Settled
  <2> QED
    BY <2>1, <2>2, <2>3, OneEvent, AnswerStep DEF ReviewInv
<1>2. CASE record.state \notin Expirable
  BY <1>2, FailStep DEF RunDiscard
<1> QED
  BY <1>1, <1>2

LEMMA RunDiffStep ==
  ASSUME ReviewInv, NEW c \in Commands, RunDiff(c)
  PROVE  ReviewInv'
<1>0. record \in Proposals /\ "apply" \in ReviewOperations
  BY DEF ReviewInv, ReviewTypes, ReviewOperations
<1>1. CASE Reviewable(record)
  <2> PICK es : es = IF record.state = "verified"
                     THEN <<DiffReady, ApprovalEvent(record, "apply")>> ELSE <<DiffReady>>
    OBVIOUS
  <2>1. es \in Seq(ReviewEvents) /\ \A i \in 1..Len(es) : ~Claims(es[i])
    BY <1>0, EventFacts, OneEvent, TwoEvents
  <2>2. Answer(c, es) /\ published' = published /\ ran' = ran /\ record' = record
    BY <1>1 DEF RunDiff, NothingStored
  <2>3. Moves
    BY <1>0, <2>2 DEF Moves, Settled
  <2> QED
    BY <2>1, <2>2, <2>3, AnswerStep DEF ReviewInv
<1>2. CASE ~Reviewable(record)
  BY <1>2, FailStep DEF RunDiff, NothingStored
<1> QED
  BY <1>1, <1>2

LEMMA RunVerifyStep ==
  ASSUME ReviewInv, NEW c \in Commands, RunVerify(c)
  PROVE  ReviewInv'
<1>0. record \in Proposals /\ "apply" \in ReviewOperations
  BY DEF ReviewInv, ReviewTypes, ReviewOperations
<1>1. CASE record.state \in Expirable
  <2>1. PICK es \in {<<DiffReady, ApprovalEvent(record, "apply")>>, <<>>},
             s \in {"verified", "verification_failed"}, d \in BOOLEAN :
          Answer(c, es) /\ record' = [record EXCEPT !.state = s, !.diff = d]
    BY <1>1 DEF RunVerify
  <2>2. es \in Seq(ReviewEvents) /\ \A i \in 1..Len(es) : ~Claims(es[i])
    <3>1. CASE es = <<>>
      BY <3>1
    <3>2. CASE es = <<DiffReady, ApprovalEvent(record, "apply")>>
      BY <3>2, <1>0, EventFacts, TwoEvents
    <3> QED
      BY <3>1, <3>2
  <2>3. published' = published /\ ran' = ran
    BY DEF RunVerify
  <2>4. Moves
    BY <1>0, <1>1, <2>1, <2>3 DEF Moves, Proposals, ProposalStates, Expirable, Settled
  <2> QED
    BY <2>1, <2>2, <2>3, <2>4, AnswerStep DEF ReviewInv
<1>2. CASE record.state \notin Expirable
  BY <1>2, FailStep DEF RunVerify
<1> QED
  BY <1>1, <1>2

LEMMA RunOperationStep ==
  ASSUME ReviewInv, NEW c \in Commands, RunOperation(c)
  PROVE  ReviewInv'
<1> PICK r : r = review[c]
  OBVIOUS
<1>0. /\ record \in Proposals /\ r.op \in ReviewOperations /\ Row(r)
      /\ (r.confirmation # Nothing => accepted[r.op] >= 1)
  BY DEF ReviewInv, ReviewTypes, RunOperation, Consented
<1>1. CASE Now(c, [r EXCEPT !.stage = "executing"]) /\ NativeConfirmation(c)
           /\ UNCHANGED <<artifact, accepted, asks>> /\ NothingStored
  <2> PICK q : q = [r EXCEPT !.stage = "executing"]
    OBVIOUS
  <2>1. r.confirmation # Nothing /\ r.confirmation[1] = r.op
    BY <1>1 DEF NativeConfirmation, ApprovalRequestId
  <2>2. Row(q) /\ q.events = r.events /\ q.confirmation = r.confirmation /\ q.op = r.op
    BY <1>0, <2>1, RowExecuting
  <2> QED
    BY <1>0, <1>1, <2>2, LocalStep DEF NothingStored
<1>2. CASE Answer(c, OfferedEvents(r.op)) /\ NothingStored
  <2> PICK es : es = OfferedEvents(r.op)
    OBVIOUS
  <2>1. es \in Seq(ReviewEvents) /\ \A i \in 1..Len(es) : ~Claims(es[i])
    BY <1>0, EventFacts, OneEvent, TwoEvents DEF OfferedEvents
  <2>2. Moves
    BY <1>0, <1>2 DEF Moves, Settled, NothingStored
  <2> QED
    BY <1>2, <2>1, <2>2, AnswerStep DEF ReviewInv, NothingStored
<1>3. CASE FailCommand(c) /\ NothingStored
  BY <1>3, FailStep DEF NothingStored
<1> QED
  BY <1>1, <1>2, <1>3 DEF RunOperation

(* The step that applies: what it reports is committed, and it is the first *)
(* apply of the proposal, as no proposal that was applied is verified.      *)
LEMMA ExecuteApplyStep ==
  ASSUME ReviewInv, NEW c \in Commands, ExecuteApply(c)
  PROVE  ReviewInv'
<1> PICK r : r = review[c]
  OBVIOUS
<1> PICK t : t = record.transaction + 1
  OBVIOUS
<1>0. /\ record \in Proposals /\ Row(r) /\ r.stage = "executing" /\ r.op = "apply"
      /\ r.confirmation # Nothing /\ r.confirmation[1] = "apply"
      /\ accepted["apply"] >= 1
  BY DEF ReviewInv, ReviewTypes, ExecuteApply, Consented, Row, Waits
<1>1. t \in 1..MaxAttempts /\ t \in 0..MaxAttempts
  BY <1>0, ReviewAssumption DEF ExecuteApply, Proposals
<1> DEFINE x == [op |-> "apply", transaction |-> t, confirmed |-> r.confirmation]
           done(ok) == Event("apply_completed", t, ok)
           offer == Event("rollback_available", t, TRUE)
<1>2. CASE /\ record.state = "verified"
           /\ record' = [record EXCEPT !.state = "applied", !.transaction = t]
           /\ ran' = ran \union {x}
           /\ Answer(c, <<done(TRUE), offer>>)
  <2>1. /\ record' \in Proposals /\ record'.state = "applied" /\ record'.transaction = t
    BY <1>0, <1>1, <1>2 DEF Proposals, ProposalStates
  <2>2. ~Settled /\ \A y \in ran : y.op # "apply" /\ y.op # "rollback"
    BY <1>2 DEF ReviewInv, Carried, Settled
  <2>3. Moves
    BY <1>2, <2>1, <2>2 DEF Moves, Settled
  <2>4. done(TRUE) \in ReviewEvents /\ offer \in ReviewEvents
    BY <1>1 DEF Event, ReviewEvents, EventTypes, ReviewIds
  <2>5. CommittedNext(t)
    BY <1>2, <2>1, ZenonT(60) DEF CommittedNext
  <2>6. done(TRUE).id = t /\ offer.id = t
    BY DEF Event
  <2>7. published' = published /\ accepted' = accepted
    BY <1>2 DEF ExecuteApply, Answer
  <2> HIDE DEF done, offer
  <2>8. ReviewTypes' /\ Consented' /\ Told' /\ Held'
    <3> PICK es : es = <<done(TRUE), offer>>
      OBVIOUS
    <3>1. es \in Seq(ReviewEvents) /\ \A i \in 1..Len(es) : es[i].id = t
      BY <2>4, <2>6, TwoEvents
    <3> QED
      BY <1>2, <2>3, <2>5, <2>7, <3>1, AnswerStep
  <2>9. Carried'
    <3>1. ran = {}
      BY <2>2 DEF ReviewInv, Carried, ReviewOperations
    <3>2. ran' = {x}
      BY <1>2, <3>1
    <3> QED
      BY <1>0, <2>1, <2>7, <3>2 DEF Carried, Settled, ReviewOperations
  <2> QED
    BY <2>8, <2>9 DEF ReviewInv
<1>3. CASE /\ record.state = "verified"
           /\ \E s \in {"verified", "failed"} :
                record' = [record EXCEPT !.state = s, !.transaction = t]
           /\ ran' = ran
           /\ Answer(c, <<done(FALSE)>>)
  <2>1. record' \in Proposals
    BY <1>0, <1>1, <1>3 DEF Proposals, ProposalStates
  <2>2. Moves
    BY <1>3, <2>1 DEF Moves, Settled
  <2>3. done(FALSE) \in ReviewEvents /\ ~Claims(done(FALSE))
    BY <1>1 DEF Event, ReviewEvents, EventTypes, ReviewIds, Claims
  <2>4. published' = published
    BY DEF ExecuteApply
  <2> HIDE DEF done
  <2> PICK es : es = <<done(FALSE)>>
    OBVIOUS
  <2>5. es \in Seq(ReviewEvents) /\ \A i \in 1..Len(es) : ~Claims(es[i])
    BY <2>3, OneEvent
  <2> QED
    BY <1>3, <2>2, <2>4, <2>5, AnswerStep DEF ReviewInv
<1>4. CASE FailCommand(c) /\ UNCHANGED <<record, ran, published>>
  BY <1>4, FailStep
<1> QED
  BY <1>2, <1>3, <1>4 DEF ExecuteApply

LEMMA ExecuteRollbackStep ==
  ASSUME ReviewInv, NEW c \in Commands, ExecuteRollback(c)
  PROVE  ReviewInv'
<1> PICK r : r = review[c]
  OBVIOUS
<1> PICK done : done = Event("rollback_completed", record.transaction, TRUE)
  OBVIOUS
<1>0. /\ record \in Proposals /\ Row(r) /\ r.stage = "executing" /\ r.op = "rollback"
      /\ r.confirmation # Nothing /\ r.confirmation[1] = "rollback"
      /\ accepted["rollback"] >= 1
  BY DEF ReviewInv, ReviewTypes, ExecuteRollback, Consented, Row, Waits
<1>1. done \in ReviewEvents /\ ~Claims(done)
  BY <1>0 DEF Proposals, Event, ReviewEvents, EventTypes, ReviewIds, Claims
<1> PICK es : es = <<done>>
  OBVIOUS
<1>2. es \in Seq(ReviewEvents) /\ \A i \in 1..Len(es) : ~Claims(es[i])
  BY <1>1, OneEvent
<1> DEFINE x == [op |-> "rollback", transaction |-> record.transaction, confirmed |-> r.confirmation]
<1>3. CASE /\ record.state = "applied"
           /\ record' = [record EXCEPT !.state = "rolled_back"]
           /\ ran' = ran \union {x}
           /\ Answer(c, es)
  <2>1. /\ record' \in Proposals /\ record'.state = "rolled_back"
        /\ record'.transaction = record.transaction
    BY <1>0, <1>3 DEF Proposals, ProposalStates
  <2>2. Moves
    BY <1>3, <2>1 DEF Moves, Settled
  <2>3. published' = published /\ accepted' = accepted
    BY <1>3 DEF ExecuteRollback, Answer
  <2>4. ReviewTypes' /\ Consented' /\ Told' /\ Held'
    BY <1>2, <1>3, <2>2, <2>3, AnswerStep
  <2>5. Carried'
    <3>1. \A y \in ran : y.op = "apply" /\ y.op \in ReviewOperations
      BY <1>3 DEF ReviewInv, Carried, ReviewOperations
    <3>2. x.op = "rollback" /\ x.confirmed = r.confirmation
      OBVIOUS
    <3> HIDE DEF x
    <3>3. \A y \in ran' : y = x \/ y \in ran
      BY <1>3
    <3>4. \A y \in ran' :
            /\ y.op \in ReviewOperations
            /\ y.confirmed # Nothing /\ y.confirmed[1] = y.op
            /\ accepted[y.op] >= 1
      BY <1>0, <3>1, <3>2, <3>3 DEF ReviewInv, Carried, ReviewOperations
    <3>5. \A y, z \in ran' : y.op = z.op => y = z
      BY <3>1, <3>2, <3>3 DEF ReviewInv, Carried
    <3> QED
      BY <2>1, <2>3, <3>4, <3>5 DEF Carried, Settled
  <2> QED
    BY <2>4, <2>5 DEF ReviewInv
<1>4. CASE UNCHANGED <<record, ran>> /\ Answer(c, es)
  <2>1. Moves /\ published' = published
    BY <1>0, <1>4 DEF Moves, Settled, ExecuteRollback
  <2> QED
    BY <1>2, <1>4, <2>1, AnswerStep DEF ReviewInv
<1>5. CASE FailCommand(c) /\ UNCHANGED <<record, ran, published>>
  BY <1>5, FailStep
<1> QED
  BY <1>3, <1>4, <1>5 DEF ExecuteRollback

LEMMA ObserveEventStep ==
  ASSUME ReviewInv, NEW c \in Commands, ObserveEvent(c)
  PROVE  ReviewInv'
<1> PICK r : r = review[c]
  OBVIOUS
<1> PICK e : e = Head(r.events)
  OBVIOUS
<1> PICK q : q = [r EXCEPT !.events = Tail(r.events)]
  OBVIOUS
<1>1. Row(r) /\ (r.confirmation # Nothing => accepted[r.op] >= 1)
  BY DEF ReviewInv, ReviewTypes, Consented
<1>2. r.events \in Seq(ReviewEvents) /\ r.events # <<>>
  BY <1>1 DEF Row, ReviewLocals, ObserveEvent
<1>3. /\ e \in ReviewEvents /\ e = r.events[1] /\ 1 \in 1..Len(r.events)
      /\ Tail(r.events) \in Seq(ReviewEvents)
      /\ \A i \in 1..Len(Tail(r.events)) : i + 1 \in 1..Len(r.events) /\ Tail(r.events)[i] = r.events[i + 1]
  BY <1>2
<1>4. Row(q) /\ q.events = Tail(r.events) /\ q.confirmation = r.confirmation /\ q.op = r.op
  BY ONLY <1>1, <1>3, RowObserved, q = [r EXCEPT !.events = Tail(r.events)]
<1>5. /\ Now(c, q) /\ artifact' = Accepted(e) /\ published' = published \union Button(e)
      /\ UNCHANGED <<record, accepted, ran>>
  BY DEF ObserveEvent
<1>6. Claims(e) => Committed(e.id)
  BY <1>3 DEF ReviewInv, Told
<1>7. /\ e.type \in EventTypes /\ e.success \in BOOLEAN
      /\ e.type = "approval_required" => e.id \in Approvals
      /\ e.type \in {"rollback_available", "apply_completed"} => e.id \in 1..MaxAttempts
  BY <1>3 DEF ReviewEvents
<1> DEFINE fresh == [approval |-> Nothing, transaction |-> 0]
<1>7a. \/ artifact' = fresh
      \/ artifact' = artifact
      \/ artifact' = Nothing
      \/ /\ artifact # Nothing /\ e.type = "approval_required"
         /\ artifact' = [artifact EXCEPT !.approval = e.id]
      \/ /\ artifact # Nothing /\ Claims(e)
         /\ artifact' = [artifact EXCEPT !.transaction = e.id]
  BY <1>5 DEF Accepted, Claims
<1>8. artifact' \in Artifacts \union {Nothing}
  <2>1. artifact \in Artifacts \union {Nothing} /\ 0 \in 0..MaxAttempts
    BY ReviewAssumption DEF ReviewInv, ReviewTypes
  <2>2. \A n \in 1..MaxAttempts : n \in 0..MaxAttempts
    BY ReviewAssumption
  <2> QED
    BY <1>7a, <1>7, <2>1, <2>2 DEF Artifacts, Claims
<1>9. published' \subseteq Approvals \union ({"transaction"} \X (1..MaxAttempts))
  <2>1. Button(e) \subseteq Approvals \union ({"transaction"} \X (1..MaxAttempts))
    BY <1>7 DEF Button
  <2> QED
    BY <1>5, <2>1 DEF ReviewInv, ReviewTypes
<1>10. Typed /\ Keeps
  BY <1>5, <1>8, <1>9 DEF Typed, Keeps, ReviewInv, ReviewTypes, Settled
<1>11. Brings(q)
  <2>1. \A i \in 1..Len(q.events) : Claims(q.events[i]) => Committed(q.events[i].id)
    BY <1>3, <1>4 DEF ReviewInv, Told
  <2> QED
    BY <2>1, <1>1, <1>4, <1>5, <1>10, CommittedStays DEF Brings
<1>12. Held'
  <2> SUFFICES ASSUME artifact' # Nothing, artifact'.transaction # 0
               PROVE  CommittedNext(artifact'.transaction)
    BY DEF Held, Committed, CommittedNext, Settled
  <2>1. \/ artifact # Nothing /\ artifact'.transaction = artifact.transaction
        \/ Claims(e) /\ artifact'.transaction = e.id
        \/ artifact'.transaction = 0
    <3>1. artifact \in Artifacts \union {Nothing}
      BY DEF ReviewInv, ReviewTypes
    <3> QED
      BY <1>7a, <1>7, <3>1 DEF Artifacts
  <2>2. CASE artifact # Nothing /\ artifact'.transaction = artifact.transaction
    BY <2>2, <1>10, CommittedStays DEF ReviewInv, Held
  <2>3. CASE Claims(e) /\ artifact'.transaction = e.id
    BY <2>3, <1>6, <1>10, CommittedStays
  <2> QED
    BY <2>1, <2>2, <2>3
<1> QED
  BY <1>4, <1>5, <1>10, <1>11, <1>12, CommandStep, CarriedStays DEF ReviewInv

LEMMA RuntimeReturnsStep ==
  ASSUME ReviewInv, NEW c \in Commands, RuntimeReturns(c)
  PROVE  ReviewInv'
<1> PICK r : r = review[c]
  OBVIOUS
<1>1. Row(r) /\ (r.confirmation # Nothing => accepted[r.op] >= 1)
  BY DEF ReviewInv, ReviewTypes, Consented
<1>2. UNCHANGED <<record, artifact, published, accepted, ran>>
  BY DEF RuntimeReturns
<1>3. CASE Now(c, AtRest)
  <2> PICK q : q = AtRest
    OBVIOUS
  <2>1. Row(q) /\ q.events = <<>> /\ q.confirmation = Nothing
    BY RowAtRest DEF AtRest
  <2> QED
    BY <1>2, <1>3, <2>1, LocalStep
<1>4. CASE Now(c, [r EXCEPT !.stage = r.back])
  <2> PICK q : q = [r EXCEPT !.stage = r.back]
    OBVIOUS
  <2>1. Row(q) /\ q.events = r.events /\ q.confirmation = r.confirmation /\ q.op = r.op
    BY <1>1, RowBack
  <2> QED
    BY <1>1, <1>2, <1>4, <2>1, LocalStep
<1> QED
  BY <1>3, <1>4 DEF RuntimeReturns, Leave

LEMMA ExpireStep ==
  ASSUME ReviewInv, Expire
  PROVE  ReviewInv'
<1>1. /\ record \in Proposals /\ record.state \in Expirable
      /\ record' = [record EXCEPT !.state = "expired"]
      /\ UNCHANGED <<artifact, review, published, accepted, ran>>
  BY DEF ReviewInv, ReviewTypes, Expire
<1>2. Typed /\ Keeps
  BY <1>1 DEF Typed, Keeps, ReviewInv, ReviewTypes, Proposals, ProposalStates, Expirable, Settled
<1>3. ~Settled
  BY <1>1 DEF Settled, Expirable
<1>4. Told' /\ Held'
  <2>1. \A t : ~Committed(t)
    BY <1>3 DEF Committed
  <2>2. \A c \in Commands : \A i \in 1..Len(review[c].events) : ~Claims(review[c].events[i])
    BY <2>1 DEF ReviewInv, Told
  <2>3. Told'
    BY <1>1, <2>2 DEF Told, Claims
  <2>4. Held'
    BY <1>1, <1>2, HeldStays DEF ReviewInv
  <2> QED
    BY <2>3, <2>4
<1>5. ReviewTypes' /\ Consented'
  BY <1>1, <1>2 DEF Typed, ReviewInv, ReviewTypes, Consented
<1> QED
  BY <1>1, <1>2, <1>4, <1>5, CarriedStays DEF ReviewInv

LEMMA ReviewInvInitially == ReviewInit => ReviewInv
<1> HAVE ReviewInit
<1>1. review = [c \in Commands |-> AtRest] /\ Row(AtRest) /\ AtRest \in ReviewLocals
  BY RowAtRest DEF ReviewInit, Row
<1>2. record \in Proposals /\ 0 \in 0..MaxAttempts
  BY ReviewAssumption DEF ReviewInit, Proposals, ProposalStates
<1>3. ReviewTypes
  BY <1>1, <1>2 DEF ReviewInit, ReviewTypes
<1>4. \A c \in Commands : review[c].confirmation = Nothing /\ review[c].events = <<>>
  BY <1>1 DEF AtRest
<1> QED
  BY <1>3, <1>4 DEF ReviewInit, ReviewInv, Consented, Told, Held, Carried

LEMMA ReviewInvKept == ReviewInv /\ [ReviewNext]_reviewVars => ReviewInv'
<1> SUFFICES ASSUME ReviewInv, [ReviewNext]_reviewVars PROVE ReviewInv'
  OBVIOUS
<1>1. CASE UNCHANGED reviewVars
  BY <1>1 DEF reviewVars, ReviewInv, ReviewTypes, Consented, Told, Held, Carried, Committed, Settled,
              Claims
<1>2. CASE Expire
  BY <1>2, ExpireStep
<1>3. ASSUME NEW c \in Commands, NEW op \in {"verify", "diff", "apply", "rollback"}, TypeRequest(c, op)
      PROVE  ReviewInv'
  BY <1>3, TypeRequestStep
<1>4. ASSUME NEW c \in Commands, NEW op \in ReviewOperations,
             NEW button \in {Nothing} \union Buttons(op), Press(c, op, button)
      PROVE  ReviewInv'
  BY <1>4, PressStep
<1>5. ASSUME NEW c \in Commands,
             \/ ShowDiff(c) \/ PressDiscard(c) \/ EnsureArtifact(c) \/ Accept(c) \/ Dismiss(c)
             \/ RunDiscard(c) \/ RunDiff(c) \/ RunVerify(c) \/ RunOperation(c)
             \/ ExecuteApply(c) \/ ExecuteRollback(c) \/ ObserveEvent(c) \/ RuntimeReturns(c)
      PROVE  ReviewInv'
  BY <1>5, ShowDiffStep, EnsureArtifactStep, AcceptStep, DismissStep, RunDiscardStep, RunDiffStep,
     RunVerifyStep, RunOperationStep, ExecuteApplyStep, ExecuteRollbackStep, ObserveEventStep,
     RuntimeReturnsStep
<1> QED
  BY <1>1, <1>2, <1>3, <1>4, <1>5 DEF ReviewNext

LEMMA ReviewInvGives == ReviewInv => UserDecides
<1> HAVE ReviewInv
<1>1. ReviewTypeOK
  <2>1. \A c \in Commands : review[c] \in ReviewLocals
    BY DEF ReviewInv, ReviewTypes
  <2>2. \A c \in Commands : review[c].stage \in ReviewStages /\ review[c].approval \in Approvals \union {Nothing}
    BY <2>1 DEF ReviewLocals
  <2> QED
    BY <2>2 DEF ReviewInv, ReviewTypes, ReviewTypeOK, Proposals, Artifacts, ReviewStages
<1>2. ConfirmedByUser
  <2> SUFFICES ASSUME NEW op \in ReviewOperations
               PROVE  Cardinality({x \in ran : x.op = op}) <= accepted[op]
    BY DEF ConfirmedByUser, ReviewInv, Carried
  <2> DEFINE S == {x \in ran : x.op = op}
  <2>1. accepted[op] \in Nat
    BY DEF ReviewInv, ReviewTypes
  <2>2. CASE S = {}
    BY <2>1, <2>2, FS_EmptySet
  <2>3. CASE S # {}
    <3>1. PICK x : x \in S
      BY <2>3
    <3>2. S = {x} /\ accepted[op] >= 1
      BY <3>1 DEF ReviewInv, Carried
    <3>3. Cardinality(S) = 1
      BY <3>2, FS_Singleton
    <3> QED
      BY <3>2, <3>3, <2>1
  <2> QED
    BY <2>2, <2>3
<1>3. KnownTransactionCommitted
  <2> SUFFICES ASSUME artifact # Nothing, artifact.transaction # 0
               PROVE  /\ [op |-> "apply", transaction |-> artifact.transaction] \in
                           {[op |-> x.op, transaction |-> x.transaction] : x \in ran}
                      /\ record.transaction = artifact.transaction
    BY DEF KnownTransactionCommitted
  <2> QED
    BY DEF ReviewInv, Held, Committed
<1> QED
  BY <1>1, <1>2, <1>3 DEF UserDecides

(* The workspace is changed only on the user's confirmation, once for each, *)
(* and the transaction the extension holds is the one that was committed:   *)
(* for any number of commands with their modals open across each other,     *)
(* any number of apply attempts and any order in which events arrive        *)
(* (editReview.ts, chat_edit_runtime.rs).                                   *)
THEOREM UserDecidesHolds == ReviewSpec => []UserDecides
<1>1. ReviewInit => ReviewInv
  BY ReviewInvInitially
<1>2. ReviewInv /\ [ReviewNext]_reviewVars => ReviewInv'
  BY ReviewInvKept
<1>3. ReviewInv => UserDecides
  BY ReviewInvGives
<1> QED
  BY <1>1, <1>2, <1>3, PTL DEF ReviewSpec

-----------------------------------------------------------------------------
(* The index.                                                               *)

(* The paths an index may hold, by what does not change about a file.       *)
Admitted ==
  {e.path : e \in {f \in Entries :
     ~DeniedDirectory(f) /\ ~SensitiveFileName(f) /\ f.extension = "allowlisted"}}

StableTexts == {<<"plain", "plain">>, <<"split", "split">>}
CleanDocuments == [path : Admitted, text : StableTexts]
GenerationRecords == [documents : SUBSET CleanDocuments, chunks : SUBSET CleanDocuments]

ReadStages == {"look", "open", "rest", "verify", "stable", "refused", "done"}
Readings ==
  [path : Paths \union {NoGeneration}, before : Nat, text : Seq(Texts), at : ReadStages]

BuildStages ==
  {"idle", "recovered", "scanning", "validated", "manifest", "finalized", "pointer",
   "confirming", "published", "failed"}
OwnCauses == {"fault", "damaged", "split"}
BuildLocals ==
  [stage : BuildStages, id : Nat, todo : SUBSET Admitted, documents : SUBSET CleanDocuments,
   alone : BOOLEAN, cause : OwnCauses \union {"none", "missing", "superseded"}]

Uses ==
  [builds : 0..MaxBuilds, searches : Nat, requests : Nat, edits : 0..MaxEdits, faults : Nat]

SourceFiles == [link : BOOLEAN, text : Texts, stamp : Nat]

Sources ==
  /\ used \in Uses
  /\ source \in [Paths -> SourceFiles]
  /\ \A p \in Paths :
       /\ source[p].stamp <= used.edits
       /\ source[p].link <=> source[p].text = "outside"

(* What a read has so far, if the fingerprint is still the one it began     *)
(* with, is the text of the file: fingerprints never come back.             *)
ReadFits(p, r) ==
  /\ r.at # "done" => r.path \in Paths
  /\ r.at # "done" /\ p \in Builders => r.path \in Admitted
  /\ r.at \in {"open", "rest", "verify"} => r.before <= source[r.path].stamp
  /\ r.at = "rest" =>
       \E x \in Texts :
         r.text = <<x>> /\ (source[r.path].stamp = r.before => source[r.path].text = x)
  /\ r.at = "verify" =>
       \E x, y \in Texts :
         /\ r.text = <<x, y>>
         /\ source[r.path].stamp = r.before => source[r.path].text = x /\ source[r.path].text = y
  /\ r.at = "stable" => r.text \in StableTexts

Reads ==
  /\ reading \in [Processes -> Readings]
  /\ \A p \in Processes : ReadFits(p, reading[p])

(* A build has an identifier of its own.                                    *)
Builds ==
  /\ build \in [Builders -> BuildLocals]
  /\ \A b \in Builders : Building(b) => build[b].id \in 1..used.builds
  /\ \A b, c \in Builders : b # c /\ Building(b) /\ Building(c) => build[b].id # build[c].id

Index ==
  /\ staging \subseteq 1..used.builds /\ temps \subseteq 1..used.builds
  /\ DOMAIN generations \subseteq 1..used.builds
  /\ \A g \in DOMAIN generations : generations[g] \in GenerationRecords
  /\ current = NoGeneration \/ Published(current)
  /\ \A b \in Builders :
       /\ build[b].stage \in {"finalized", "pointer"} => Published(build[b].id)
       /\ build[b].stage \in {"recovered", "scanning", "validated", "manifest"} => ~Published(build[b].id)

(* A build no other one ran across finds what it left.                      *)
Solo ==
  \A b \in Builders :
    build[b].alone =>
      /\ Building(b) => \A c \in Builders : c # b => ~Building(c)
      /\ build[b].stage \in {"scanning", "validated", "manifest"} => build[b].id \in staging
      /\ build[b].stage = "pointer" => build[b].id \in temps
      /\ build[b].stage = "confirming" => current = build[b].id
      /\ build[b].stage = "failed" => build[b].cause \in OwnCauses

Searches ==
  /\ search \in [Searchers -> [stage : {"idle", "resolved", "answered", "refused"},
                              id : Nat \union {NoGeneration}, hits : SUBSET CleanDocuments]]
  /\ \A s \in Searchers :
       /\ search[s].stage \in {"resolved", "answered"} => Published(search[s].id)
       /\ search[s].stage = "answered" => search[s].hits = generations[search[s].id].documents

Handed == \A d \in given : d.text \in StableTexts

RagInv == Sources /\ Reads /\ Builds /\ Index /\ Solo /\ Searches /\ Handed

LEMMA RagInvInitially == RagInit => RagInv
<1> HAVE RagInit
<1>1. Sources
  <2>1. 0 \in 0..MaxBuilds /\ 0 \in 0..MaxEdits
    BY RagAssumption
  <2>2. used \in Uses /\ used.edits = 0
    BY <2>1 DEF RagInit, Uses
  <2> QED
    BY <2>2 DEF RagInit, Sources, SourceFiles, Texts
<1>2. Reads
  <2>1. NotReading \in Readings /\ NotReading.at = "done"
    BY DEF NotReading, Readings, ReadStages
  <2> QED
    BY <2>1 DEF RagInit, Reads, ReadFits
<1>3. Builds /\ Solo
  <2>1. NotBuilding \in BuildLocals /\ NotBuilding.stage = "idle"
    BY DEF NotBuilding, BuildLocals, BuildStages
  <2> QED
    BY <2>1 DEF RagInit, Builds, Solo, Building
<1>4. Index
  <2>1. DOMAIN generations = {}
    BY DEF RagInit
  <2>2. \A b \in Builders : build[b].stage = "idle"
    BY DEF RagInit, NotBuilding
  <2> QED
    BY <2>1, <2>2 DEF RagInit, Index
<1>5. Searches
  BY DEF RagInit, Searches, NotSearching
<1>6. Handed
  BY DEF RagInit, Handed
<1> QED
  BY <1>1, <1>2, <1>3, <1>4, <1>5, <1>6 DEF RagInv

LEMMA RagInvGives == RagInv => IndexIsSound
<1> HAVE RagInv
<1>1. RagTypeOK
  <2>1. \A p \in Paths : source[p].text \in Texts /\ source[p].stamp \in 0..MaxEdits
    <3> TAKE p \in Paths
    <3>1. /\ source[p].text \in Texts /\ source[p].stamp \in Nat /\ source[p].stamp <= used.edits
          /\ used.edits \in 0..MaxEdits
      BY DEF RagInv, Sources, SourceFiles, Uses
    <3> QED
      BY <3>1, RagAssumption
  <2>2. staging \union temps \union DOMAIN generations \subseteq 1..MaxBuilds
    <3>1. used.builds \in 0..MaxBuilds
      BY DEF RagInv, Sources, Uses
    <3>2. \A g \in 1..used.builds : g \in 1..MaxBuilds
      BY <3>1, RagAssumption
    <3> QED
      BY <3>2 DEF RagInv, Index
  <2>3. Admitted \subseteq Paths
    BY DEF Admitted, Paths
  <2>4. \A b \in Builders : build[b].stage \in BuildStages /\ build[b].todo \subseteq Paths
    BY <2>3 DEF RagInv, Builds, BuildLocals
  <2>5. \A p \in Processes : reading[p].at \in ReadStages
    BY DEF RagInv, Reads, Readings
  <2> QED
    BY <2>1, <2>2, <2>4, <2>5 DEF RagTypeOK, BuildStages, ReadStages
<1>2. CurrentIsPublished
  BY DEF RagInv, Index, CurrentIsPublished
<1>3. OnlyStableText
  <2>1. \A g \in DOMAIN generations : \A d \in generations[g].documents : d \in CleanDocuments
    BY DEF RagInv, Index, GenerationRecords
  <2>2. \A d \in CleanDocuments : d.text \in StableTexts /\ d.path \in Admitted
    BY DEF CleanDocuments
  <2>3. \A t \in StableTexts : t[1] = t[2] /\ t[1] \notin {"secret", "outside"}
    BY DEF StableTexts
  <2> DEFINE kept == UNION {generations[g].documents : g \in DOMAIN generations}
  <2>4. kept \subseteq CleanDocuments
    BY <2>1
  <2>5. \A d \in given : d.text \in StableTexts
    BY DEF RagInv, Handed
  <2> HIDE DEF kept
  <2>6. \A d \in kept \union given : d.text[1] = d.text[2] /\ d.text[1] \notin {"secret", "outside"}
    BY <2>2, <2>3, <2>4, <2>5
  <2>7. \A d \in kept : d.path \in Admitted
    BY <2>2, <2>4
  <2> QED
    BY <2>6, <2>7 DEF OnlyStableText, kept, Admitted
<1>4. SearchIsWhole
  BY DEF RagInv, Searches, SearchIsWhole
<1>5. BuildFailsOnlyForCause
  BY DEF RagInv, Solo, OwnCauses, BuildFailsOnlyForCause
<1> QED
  BY <1>1, <1>2, <1>3, <1>4, <1>5 DEF IndexIsSound

(* What a step leaves alone.                                                *)
LEMMA SourcesStay ==
  ASSUME Sources, source' = source, used' \in Uses, used'.edits >= used.edits
  PROVE  Sources'
<1>1. used.edits \in Nat /\ used'.edits \in Nat
  BY RagAssumption DEF Sources, Uses
<1>2. \A p \in Paths : source[p].stamp \in Nat
  BY DEF Sources, SourceFiles
<1> QED
  BY <1>1, <1>2 DEF Sources

LEMMA ReadsStay ==
  ASSUME Reads, UNCHANGED <<reading, source>>
  PROVE  Reads'
BY DEF Reads, ReadFits

LEMMA BuildsStay ==
  ASSUME Builds, build' = build, used'.builds = used.builds
  PROVE  Builds'
BY DEF Builds, Building

LEMMA IndexStays ==
  ASSUME Index, UNCHANGED <<indexVars, build>>, used'.builds = used.builds
  PROVE  Index'
BY DEF Index, indexVars, Published

LEMMA SoloStays ==
  ASSUME Solo, UNCHANGED <<indexVars, build>>
  PROVE  Solo'
BY DEF Solo, indexVars, Building

LEMMA SearchesStay ==
  ASSUME Searches, search' = search, generations' = generations
  PROVE  Searches'
BY DEF Searches, Published

(* One process goes on with its read.                                       *)
LEMMA ReadStep ==
  ASSUME Reads, source' = source, NEW p \in Processes, NEW r \in Readings,
         reading' = [reading EXCEPT ![p] = r], ReadFits(p, r)
  PROVE  Reads'
<1>1. /\ reading' \in [Processes -> Readings]
      /\ reading'[p] = r
      /\ \A q \in Processes : q # p => reading'[q] = reading[q]
  BY DEF Reads
<1>2. \A q \in Processes : ReadFits(q, reading'[q])
  BY <1>1 DEF Reads
<1> QED
  BY <1>1, <1>2 DEF Reads, ReadFits

ReadOnly(p) ==
  /\ UNCHANGED <<source, indexVars, build, search, given, used>>
  /\ \E r \in Readings : reading' = [reading EXCEPT ![p] = r] /\ ReadFits(p, r)

LEMMA ReadOnlyStep ==
  ASSUME RagInv, NEW p \in Processes, ReadOnly(p)
  PROVE  RagInv'
<1>1. Reads'
  BY ReadStep DEF RagInv, ReadOnly
<1>2. used' \in Uses /\ used'.edits >= used.edits /\ generations' = generations
  BY RagAssumption DEF RagInv, Sources, Uses, ReadOnly, indexVars
<1>3. Sources' /\ Builds' /\ Index' /\ Solo' /\ Searches'
  BY <1>2, SourcesStay, BuildsStay, IndexStays, SoloStays, SearchesStay DEF RagInv, ReadOnly
<1> QED
  BY <1>1, <1>3 DEF RagInv, ReadOnly, Handed

LEMMA ProcessFacts ==
  ASSUME RagInv, NEW p \in Processes, reading[p].at # "done"
  PROVE  /\ reading[p] \in Readings /\ ReadFits(p, reading[p])
         /\ reading[p].path \in Paths
         /\ source[reading[p].path] \in SourceFiles
         /\ source[reading[p].path].link <=> source[reading[p].path].text = "outside"
BY DEF RagInv, Reads, ReadFits, Sources

LEMMA LookStep ==
  ASSUME RagInv, NEW p \in Processes, Look(p)
  PROVE  RagInv'
<1> PICK r : r = reading[p]
  OBVIOUS
<1>1. /\ r \in Readings /\ ReadFits(p, r) /\ r.path \in Paths
      /\ source[r.path] \in SourceFiles /\ r.at = "look"
  BY ProcessFacts DEF Look
<1>2. CASE reading' = [reading EXCEPT ![p] = [r EXCEPT !.at = "refused"]]
  <2> PICK q : q = [r EXCEPT !.at = "refused"]
    OBVIOUS
  <2>1. q \in Readings
    BY <1>1 DEF Readings, ReadStages
  <2>2. q.at = "refused" /\ q.path = r.path
    BY <1>1 DEF Readings
  <2>3. ReadFits(p, q)
    BY <1>1, <2>2 DEF ReadFits
  <2> QED
    BY <1>2, <2>1, <2>3, ReadOnlyStep DEF ReadOnly, Look
<1>3. CASE reading' = [reading EXCEPT ![p] = [r EXCEPT !.at = "open", !.before = Fingerprint(r.path)]]
  <2> PICK q : q = [r EXCEPT !.at = "open", !.before = Fingerprint(r.path)]
    OBVIOUS
  <2>1. Fingerprint(r.path) \in Nat /\ Fingerprint(r.path) = source[r.path].stamp
    BY <1>1 DEF SourceFiles, Fingerprint
  <2>2. q \in Readings
    BY <1>1, <2>1 DEF Readings, ReadStages
  <2>3. q.at = "open" /\ q.path = r.path /\ q.before = Fingerprint(r.path)
    BY <1>1 DEF Readings
  <2>4. ReadFits(p, q)
    BY <1>1, <2>1, <2>3 DEF ReadFits
  <2> QED
    BY <1>3, <2>2, <2>4, ReadOnlyStep DEF ReadOnly, Look
<1> QED
  BY <1>2, <1>3 DEF Look

LEMMA OpenFileStep ==
  ASSUME RagInv, NEW p \in Processes, OpenFile(p)
  PROVE  RagInv'
<1> PICK r : r = reading[p]
  OBVIOUS
<1>1. /\ r \in Readings /\ ReadFits(p, r) /\ r.path \in Paths
      /\ source[r.path] \in SourceFiles /\ r.at = "open"
  BY ProcessFacts DEF OpenFile
<1>2. CASE reading' = [reading EXCEPT ![p] = [r EXCEPT !.at = "refused"]]
  <2> PICK q : q = [r EXCEPT !.at = "refused"]
    OBVIOUS
  <2>1. q \in Readings
    BY <1>1 DEF Readings, ReadStages
  <2>2. q.at = "refused" /\ q.path = r.path
    BY <1>1 DEF Readings
  <2>3. ReadFits(p, q)
    BY <1>1, <2>2 DEF ReadFits
  <2> QED
    BY <1>2, <2>1, <2>3, ReadOnlyStep DEF ReadOnly, OpenFile
<1>3. CASE reading' = [reading EXCEPT ![p] = [r EXCEPT !.at = "rest", !.text = <<source[r.path].text>>]]
  <2> PICK x : x = source[r.path].text
    OBVIOUS
  <2> PICK q : q = [r EXCEPT !.at = "rest", !.text = <<x>>]
    OBVIOUS
  <2>1. x \in Texts /\ <<x>> \in Seq(Texts)
    BY <1>1 DEF SourceFiles
  <2>2. q \in Readings
    BY <1>1, <2>1 DEF Readings, ReadStages
  <2>3. q.at = "rest" /\ q.path = r.path /\ q.before = r.before /\ q.text = <<x>>
    BY <1>1 DEF Readings
  <2>4. ReadFits(p, q)
    BY <1>1, <2>1, <2>3 DEF ReadFits
  <2> QED
    BY <1>3, <2>2, <2>4, ReadOnlyStep DEF ReadOnly, OpenFile
<1> QED
  BY <1>2, <1>3 DEF OpenFile

LEMMA ReadRestStep ==
  ASSUME RagInv, NEW p \in Processes, ReadRest(p)
  PROVE  RagInv'
<1> PICK r : r = reading[p]
  OBVIOUS
<1> PICK y : y = source[r.path].text
  OBVIOUS
<1>1. /\ r \in Readings /\ ReadFits(p, r) /\ r.path \in Paths
      /\ source[r.path] \in SourceFiles /\ r.at = "rest"
  BY ProcessFacts DEF ReadRest
<1>2. PICK x \in Texts : r.text = <<x>> /\ (source[r.path].stamp = r.before => source[r.path].text = x)
  BY <1>1 DEF ReadFits
<1>3. y \in Texts
  BY <1>1 DEF SourceFiles
<1>4. Append(r.text, y) = <<x, y>> /\ <<x, y>> \in Seq(Texts)
  <2>1. <<x, y>> \in Seq(Texts)
    BY <1>3
  <2>2. Append(<<x>>, y) = <<x, y>>
    <3>0. <<x>> \in Seq(Texts)
      OBVIOUS
    <3>1. Append(<<x>>, y) \in Seq(Texts) /\ Len(Append(<<x>>, y)) = 2
      BY <1>3, <3>0
    <3>2. Append(<<x>>, y)[1] = x /\ Append(<<x>>, y)[2] = y
      BY <1>3, <3>0
    <3>3. Len(<<x, y>>) = 2 /\ <<x, y>>[1] = x /\ <<x, y>>[2] = y
      OBVIOUS
    <3>4. \A i \in 1..2 : Append(<<x>>, y)[i] = <<x, y>>[i]
      BY <3>2, <3>3
    <3> QED
      BY <2>1, <3>1, <3>3, <3>4, SeqEqual
  <2> QED
    BY <1>2, <2>1, <2>2
<1> PICK q : q = [r EXCEPT !.text = <<x, y>>, !.at = "verify"]
  OBVIOUS
<1>5. q \in Readings
  BY <1>1, <1>4 DEF Readings, ReadStages
<1>6. q.at = "verify" /\ q.path = r.path /\ q.before = r.before /\ q.text = <<x, y>>
  BY <1>1 DEF Readings
<1>7. ReadFits(p, q)
  BY <1>1, <1>2, <1>3, <1>6 DEF ReadFits
<1>8. reading' = [reading EXCEPT ![p] = q]
  BY <1>4 DEF ReadRest
<1> QED
  BY <1>5, <1>7, <1>8, ReadOnlyStep DEF ReadOnly, ReadRest

(* The second look sees every change: what is stable is one text, of a      *)
(* regular file, in which no secret was found.                              *)
LEMMA VerifyReadStep ==
  ASSUME RagInv, NEW p \in Processes, VerifyRead(p)
  PROVE  RagInv'
<1> PICK r : r = reading[p]
  OBVIOUS
<1>1. /\ r \in Readings /\ ReadFits(p, r) /\ r.path \in Paths
      /\ source[r.path] \in SourceFiles /\ r.at = "verify"
      /\ source[r.path].link <=> source[r.path].text = "outside"
  BY ProcessFacts DEF VerifyRead
<1> PICK at : at = IF Unmoved(r) /\ ~DetectSecret(r.text) THEN "stable" ELSE "refused"
  OBVIOUS
<1> PICK q : q = [r EXCEPT !.at = at]
  OBVIOUS
<1>2. q \in Readings
  BY <1>1 DEF Readings, ReadStages
<1>3. q.at = at /\ q.path = r.path /\ q.text = r.text
  BY <1>1 DEF Readings
<1>4. at = "stable" => r.text \in StableTexts
  <2> SUFFICES ASSUME Unmoved(r), ~DetectSecret(r.text) PROVE r.text \in StableTexts
    OBVIOUS
  <2>1. PICK x \in Texts : r.text = <<x, x>> /\ source[r.path].text = x
    BY <1>1 DEF ReadFits, Unmoved, Fingerprint
  <2>2. x # "outside" /\ x # "secret"
    BY <1>1, <2>1 DEF Unmoved, DetectSecret
  <2> QED
    BY <2>1, <2>2 DEF Texts, StableTexts
<1>5. ReadFits(p, q)
  BY <1>1, <1>3, <1>4 DEF ReadFits
<1>6. reading' = [reading EXCEPT ![p] = q]
  BY DEF VerifyRead
<1> QED
  BY <1>2, <1>5, <1>6, ReadOnlyStep DEF ReadOnly, VerifyRead

-----------------------------------------------------------------------------
(* Builds.  A step of a build, other than the first and the one that makes  *)
(* the generation.                                                          *)
RowFits(r) ==
  /\ r.stage \in {"finalized", "pointer"} => Published(r.id)
  /\ r.stage \in {"recovered", "scanning", "validated", "manifest"} => ~Published(r.id)

AloneFits(r) ==
  r.alone =>
    /\ r.stage \in {"scanning", "validated", "manifest"} => r.id \in staging'
    /\ r.stage = "pointer" => r.id \in temps'
    /\ r.stage = "confirming" => current' = r.id
    /\ r.stage = "failed" => r.cause \in OwnCauses

BuildOnly ==
  /\ UNCHANGED <<source, search, given>>
  /\ used' \in Uses /\ used'.builds = used.builds /\ used'.edits = used.edits

Owns(b, r) ==
  /\ r \in BuildLocals
  /\ Step(b, r)
  /\ r.id = build[b].id /\ r.alone = build[b].alone
  /\ Building(b) \/ (r.stage = build[b].stage /\ UNCHANGED indexVars)
  /\ AloneFits(r)

LEMMA OwnStep ==
  ASSUME Builds, NEW b \in Builders, NEW r \in BuildLocals, Step(b, r)
  PROVE  /\ build' \in [Builders -> BuildLocals]
         /\ build'[b] = r
         /\ \A c \in Builders : c # b => build'[c] = build[c]
BY DEF Builds, Step

LEMMA BuildsStep ==
  ASSUME RagInv, NEW b \in Builders, NEW r, Owns(b, r), used'.builds = used.builds
  PROVE  Builds'
<1>1. /\ build' \in [Builders -> BuildLocals]
      /\ build'[b] = r
      /\ \A c \in Builders : c # b => build'[c] = build[c]
  BY OwnStep DEF RagInv, Owns
<1>2. r.id = build[b].id
      /\ (r.stage \notin {"idle", "failed", "published"} => Building(b))
  BY DEF Owns, Building
<1> QED
  BY <1>1, <1>2 DEF RagInv, Builds, Building

LEMMA SoloStep ==
  ASSUME RagInv, NEW b \in Builders, NEW r, Owns(b, r)
  PROVE  Solo'
<1>1. /\ build' \in [Builders -> BuildLocals]
      /\ build'[b] = r
      /\ \A c \in Builders : c # b => build'[c] = build[c]
  BY OwnStep DEF RagInv, Owns
<1>2. /\ r.alone = build[b].alone
      /\ r.stage \notin {"idle", "failed", "published"} => Building(b)
  BY DEF Owns, Building
<1> SUFFICES ASSUME NEW c \in Builders, build'[c].alone
    PROVE  /\ Building(c)' => \A d \in Builders : d # c => ~Building(d)'
           /\ build'[c].stage \in {"scanning", "validated", "manifest"} => build'[c].id \in staging'
           /\ build'[c].stage = "pointer" => build'[c].id \in temps'
           /\ build'[c].stage = "confirming" => current' = build'[c].id
           /\ build'[c].stage = "failed" => build'[c].cause \in OwnCauses
  BY DEF Solo, Building
<1>3. CASE c = b
  <2>1. Building(c)' => \A d \in Builders : d # c => ~Building(d)'
    BY <1>1, <1>2, <1>3 DEF RagInv, Solo, Building
  <2> QED
    BY <2>1, <1>1, <1>3 DEF Owns, AloneFits
<1>4. CASE c # b /\ Building(b)
  <2>1. ~Building(c) /\ build'[c] = build[c]
    BY <1>1, <1>4 DEF RagInv, Solo
  <2> QED
    BY <2>1 DEF Building, RagInv, Solo
<1>5. CASE c # b /\ ~Building(b)
  <2>1. /\ build'[c] = build[c] /\ UNCHANGED indexVars
        /\ \A d \in Builders : build'[d].stage = build[d].stage
    BY <1>1, <1>5 DEF Owns
  <2> QED
    BY <2>1 DEF RagInv, Solo, Building, indexVars
<1> QED
  BY <1>3, <1>4, <1>5

LEMMA IndexStep ==
  ASSUME RagInv, NEW b \in Builders, NEW r, Owns(b, r), RowFits(r),
         generations' = generations, used'.builds = used.builds,
         staging' \subseteq 1..used.builds, temps' \subseteq 1..used.builds,
         current' = current \/ Published(current')
  PROVE  Index'
<1>1. /\ build'[b] = r
      /\ \A c \in Builders : c # b => build'[c] = build[c]
  BY OwnStep DEF RagInv, Owns
<1> QED
  BY <1>1 DEF RagInv, Index, Published, RowFits

LEMMA BuilderStep ==
  ASSUME RagInv, NEW b \in Builders, NEW r, Owns(b, r), RowFits(r), BuildOnly, Reads',
         generations' = generations,
         staging' \subseteq 1..used.builds, temps' \subseteq 1..used.builds,
         current' = current \/ Published(current')
  PROVE  RagInv'
<1>1. Builds' /\ Solo' /\ Index'
  BY BuildsStep, SoloStep, IndexStep DEF BuildOnly
<1>2. used'.edits >= used.edits
  BY RagAssumption DEF RagInv, Sources, Uses, BuildOnly
<1>3. Sources' /\ Searches' /\ Handed'
  BY <1>2, SourcesStay, SearchesStay DEF RagInv, BuildOnly, Handed
<1> QED
  BY <1>1, <1>3 DEF RagInv

LEMMA NotReadingFits ==
  ASSUME Reads, source' = source, NEW p \in Processes, reading' = [reading EXCEPT ![p] = NotReading]
  PROVE  Reads'
<1>1. NotReading \in Readings /\ NotReading.at = "done"
  BY DEF NotReading, Readings, ReadStages
<1>2. ReadFits(p, NotReading)
  BY <1>1 DEF ReadFits
<1> QED
  BY <1>1, <1>2, ReadStep

LEMMA BuilderFacts ==
  ASSUME RagInv, NEW b \in Builders
  PROVE  /\ b \in Processes /\ build[b] \in BuildLocals
         /\ UNCHANGED <<source, search, given, used>> => BuildOnly
         /\ staging \subseteq 1..used.builds /\ temps \subseteq 1..used.builds
         /\ Building(b) => build[b].id \in 1..used.builds
BY DEF RagInv, Builds, Index, Sources, BuildOnly, Processes

LEMMA FailsStep ==
  ASSUME RagInv, NEW b \in Builders, Building(b), NEW cause, Fails(b, cause), BuildOnly,
         cause \in OwnCauses \/ (cause \in {"missing", "superseded"} /\ ~build[b].alone)
  PROVE  RagInv'
<1> PICK r : r = [build[b] EXCEPT !.stage = "failed", !.cause = cause]
  OBVIOUS
<1>0. build[b] \in BuildLocals /\ b \in Processes
  BY BuilderFacts
<1>1. r \in BuildLocals
  BY <1>0 DEF BuildLocals, BuildStages
<1>2. r.stage = "failed" /\ r.cause = cause /\ r.id = build[b].id /\ r.alone = build[b].alone
  BY <1>0 DEF BuildLocals
<1>3. Step(b, r) /\ UNCHANGED indexVars /\ reading' = [reading EXCEPT ![b] = NotReading]
  BY DEF Fails
<1>4. Owns(b, r) /\ RowFits(r)
  BY <1>1, <1>2, <1>3 DEF Owns, AloneFits, RowFits
<1>5. Reads'
  BY <1>0, <1>3, NotReadingFits DEF RagInv, BuildOnly
<1>6. UNCHANGED <<staging, temps, generations, current>>
  BY <1>3 DEF indexVars
<1> QED
  BY <1>4, <1>5, <1>6, BuilderFacts, BuilderStep

LEMMA InventoryAdmitted == CollectInventory \subseteq Admitted
<1>1. \A e \in Entries : InventoryRule(e) = "allow" =>
        ~DeniedDirectory(e) /\ ~SensitiveFileName(e) /\ e.extension = "allowlisted"
  BY DEF InventoryRule
<1> QED
  BY <1>1 DEF CollectInventory, Admitted

LEMMA PrepareStep ==
  ASSUME RagInv, NEW b \in Builders, Prepare(b)
  PROVE  RagInv'
<1>0. /\ build[b] \in BuildLocals /\ build[b].stage = "recovered" /\ Building(b)
      /\ build[b].id \in 1..used.builds /\ BuildOnly
  BY BuilderFacts DEF Prepare, Building
<1>1. CASE Fails(b, "damaged")
  BY <1>0, <1>1, FailsStep DEF OwnCauses
<1>2. CASE ~Fails(b, "damaged")
  <2> PICK r : r = [build[b] EXCEPT !.stage = "scanning", !.todo = CollectInventory]
    OBVIOUS
  <2>1. /\ staging' = staging \union {build[b].id} /\ Step(b, r)
        /\ UNCHANGED <<temps, generations, current, reading>>
    BY <1>2 DEF Prepare
  <2>2. r \in BuildLocals
    BY <1>0, InventoryAdmitted DEF BuildLocals, BuildStages
  <2>3. r.stage = "scanning" /\ r.id = build[b].id /\ r.alone = build[b].alone
    BY <1>0 DEF BuildLocals
  <2>4. ~Published(r.id)
    BY <1>0, <2>3 DEF RagInv, Index
  <2>5. Owns(b, r) /\ RowFits(r)
    BY <1>0, <2>1, <2>2, <2>3, <2>4 DEF Owns, AloneFits, RowFits
  <2>6. Reads'
    BY <2>1, <1>0, ReadsStay DEF RagInv, BuildOnly
  <2>7. staging' \subseteq 1..used.builds /\ temps' \subseteq 1..used.builds
    BY <1>0, <2>1, BuilderFacts
  <2> QED
    BY <1>0, <2>1, <2>5, <2>6, <2>7, BuilderStep
<1> QED
  BY <1>1, <1>2

LEMMA TakeCandidateStep ==
  ASSUME RagInv, NEW b \in Builders, TakeCandidate(b)
  PROVE  RagInv'
<1>0. /\ build[b] \in BuildLocals /\ build[b].stage = "scanning" /\ Building(b)
      /\ build[b].id \in 1..used.builds /\ BuildOnly /\ b \in Processes
      /\ UNCHANGED <<staging, temps, generations, current>>
  BY BuilderFacts DEF TakeCandidate, Building, indexVars
<1>1. PICK p \in build[b].todo :
        /\ reading' = [reading EXCEPT ![b] = [NotReading EXCEPT !.path = p, !.at = "look"]]
        /\ Step(b, [build[b] EXCEPT !.todo = @ \ {p}])
  BY DEF TakeCandidate
<1>2. p \in Admitted /\ p \in Paths
  BY <1>0, <1>1 DEF BuildLocals, Admitted, Paths
<1>3. Reads'
  <2> PICK q : q = [NotReading EXCEPT !.path = p, !.at = "look"]
    OBVIOUS
  <2>0. NotReading \in Readings
    BY DEF NotReading, Readings, ReadStages
  <2>1. q \in Readings /\ q.at = "look" /\ q.path = p
    BY <1>2, <2>0 DEF Readings, ReadStages
  <2>2. ReadFits(b, q)
    BY <1>2, <2>1 DEF ReadFits
  <2> QED
    BY <1>0, <1>1, <2>1, <2>2, ReadStep DEF RagInv, BuildOnly
<1> PICK r : r = [build[b] EXCEPT !.todo = @ \ {p}]
  OBVIOUS
<1>4. r \in BuildLocals
  BY <1>0 DEF BuildLocals
<1>5. r.stage = "scanning" /\ r.id = build[b].id /\ r.alone = build[b].alone
  BY <1>0 DEF BuildLocals
<1>6. Owns(b, r) /\ RowFits(r)
  BY <1>0, <1>1, <1>4, <1>5 DEF Owns, AloneFits, RowFits, RagInv, Index, Solo
<1> QED
  BY <1>0, <1>3, <1>6, BuilderFacts, BuilderStep

LEMMA WriteDocumentStep ==
  ASSUME RagInv, NEW b \in Builders, WriteDocument(b)
  PROVE  RagInv'
<1> PICK q : q = reading[b]
  OBVIOUS
<1>0. /\ build[b] \in BuildLocals /\ BuildOnly /\ b \in Processes
      /\ UNCHANGED indexVars /\ UNCHANGED <<staging, temps, generations, current>>
  BY BuilderFacts DEF WriteDocument, Building, indexVars
<1>1. Reads'
  BY <1>0, NotReadingFits DEF WriteDocument, RagInv, BuildOnly
<1> PICK new : new = IF q.at = "stable" THEN {[path |-> q.path, text |-> q.text]} ELSE {}
  OBVIOUS
<1>2. new \subseteq CleanDocuments
  <2>1. q.at = "stable" => q.path \in Admitted /\ q.text \in StableTexts
    BY <1>0, ProcessFacts DEF ReadFits
  <2> QED
    BY <2>1 DEF CleanDocuments
<1> PICK r : r = [build[b] EXCEPT !.documents = @ \union new]
  OBVIOUS
<1>3. Step(b, r)
  BY DEF WriteDocument
<1>4. r \in BuildLocals
  BY <1>0, <1>2 DEF BuildLocals
<1>5. /\ r.stage = build[b].stage /\ r.id = build[b].id /\ r.alone = build[b].alone
      /\ r.cause = build[b].cause
  BY <1>0 DEF BuildLocals
<1>6. Owns(b, r) /\ RowFits(r)
  BY <1>0, <1>3, <1>4, <1>5 DEF Owns, AloneFits, RowFits, RagInv, Index, Solo
<1> QED
  BY <1>0, <1>1, <1>6, BuilderFacts, BuilderStep

LEMMA ValidateDataStep ==
  ASSUME RagInv, NEW b \in Builders, ValidateData(b)
  PROVE  RagInv'
<1>0. /\ build[b] \in BuildLocals /\ build[b].stage = "scanning" /\ Building(b)
      /\ build[b].id \in 1..used.builds /\ BuildOnly /\ b \in Processes
  BY BuilderFacts DEF ValidateData, Building
<1>1. CASE Fails(b, IF build[b].id \in staging THEN "split" ELSE "missing")
  <2> PICK cause : cause = IF build[b].id \in staging THEN "split" ELSE "missing"
    OBVIOUS
  <2>1. cause \in OwnCauses \/ (cause \in {"missing", "superseded"} /\ ~build[b].alone)
    BY <1>0 DEF OwnCauses, RagInv, Solo
  <2> QED
    BY <1>0, <1>1, <2>1, FailsStep
<1>2. CASE build[b].id \in staging /\ Step(b, [build[b] EXCEPT !.stage = "validated"])
           /\ UNCHANGED <<indexVars, reading>>
  <2> PICK r : r = [build[b] EXCEPT !.stage = "validated"]
    OBVIOUS
  <2>1. r \in BuildLocals
    BY <1>0 DEF BuildLocals, BuildStages
  <2>2. r.stage = "validated" /\ r.id = build[b].id /\ r.alone = build[b].alone
    BY <1>0 DEF BuildLocals
  <2>3. UNCHANGED <<staging, temps, generations, current>>
    BY <1>2 DEF indexVars
  <2>4. Owns(b, r) /\ RowFits(r)
    BY <1>0, <1>2, <2>1, <2>2, <2>3 DEF Owns, AloneFits, RowFits, RagInv, Index
  <2>5. Reads'
    BY <1>0, <1>2, ReadsStay DEF RagInv, BuildOnly
  <2> QED
    BY <1>0, <2>3, <2>4, <2>5, BuilderFacts, BuilderStep
<1> QED
  BY <1>1, <1>2 DEF ValidateData

LEMMA WriteCurrentTempStep ==
  ASSUME RagInv, NEW b \in Builders, WriteCurrentTemp(b)
  PROVE  RagInv'
<1>0. /\ build[b] \in BuildLocals /\ build[b].stage = "finalized" /\ Building(b)
      /\ build[b].id \in 1..used.builds /\ BuildOnly /\ b \in Processes
  BY BuilderFacts DEF WriteCurrentTemp, Building
<1> PICK r : r = [build[b] EXCEPT !.stage = "pointer"]
  OBVIOUS
<1>1. r \in BuildLocals
  BY <1>0 DEF BuildLocals, BuildStages
<1>2. r.stage = "pointer" /\ r.id = build[b].id /\ r.alone = build[b].alone
  BY <1>0 DEF BuildLocals
<1>3. /\ Step(b, r) /\ temps' = temps \union {build[b].id}
      /\ UNCHANGED <<staging, generations, current, reading>>
  BY DEF WriteCurrentTemp
<1>4. Owns(b, r) /\ RowFits(r)
  BY <1>0, <1>1, <1>2, <1>3 DEF Owns, AloneFits, RowFits, RagInv, Index
<1>5. Reads'
  BY <1>0, <1>3, ReadsStay DEF RagInv, BuildOnly
<1>6. staging' \subseteq 1..used.builds /\ temps' \subseteq 1..used.builds
  BY <1>0, <1>3, BuilderFacts
<1> QED
  BY <1>0, <1>3, <1>4, <1>5, <1>6, BuilderStep

LEMMA PublishStep ==
  ASSUME RagInv, NEW b \in Builders, Publish(b)
  PROVE  RagInv'
<1>0. /\ build[b] \in BuildLocals /\ build[b].stage = "pointer" /\ Building(b)
      /\ build[b].id \in 1..used.builds /\ BuildOnly /\ b \in Processes
  BY BuilderFacts DEF Publish, Building
<1>1. CASE build[b].id \notin temps
  <2>1. Fails(b, "missing") /\ ~build[b].alone
    BY <1>0, <1>1 DEF Publish, RagInv, Solo
  <2> QED
    BY <1>0, <2>1, FailsStep
<1>2. CASE build[b].id \in temps
  <2> PICK r : r = [build[b] EXCEPT !.stage = "confirming"]
    OBVIOUS
  <2>1. /\ Step(b, r) /\ temps' = temps \ {build[b].id} /\ current' = build[b].id
        /\ UNCHANGED <<staging, generations, reading>>
    BY <1>2 DEF Publish
  <2>2. r \in BuildLocals
    BY <1>0 DEF BuildLocals, BuildStages
  <2>3. r.stage = "confirming" /\ r.id = build[b].id /\ r.alone = build[b].alone
    BY <1>0 DEF BuildLocals
  <2>4. Owns(b, r) /\ RowFits(r)
    BY <1>0, <2>1, <2>2, <2>3 DEF Owns, AloneFits, RowFits
  <2>5. Published(current')
    BY <1>0, <2>1 DEF RagInv, Index
  <2>6. Reads'
    BY <1>0, <2>1, ReadsStay DEF RagInv, BuildOnly
  <2>7. staging' \subseteq 1..used.builds /\ temps' \subseteq 1..used.builds
    BY <1>0, <2>1, BuilderFacts
  <2> QED
    BY <1>0, <2>1, <2>4, <2>5, <2>6, <2>7, BuilderStep
<1> QED
  BY <1>1, <1>2 DEF Publish

LEMMA ConfirmStep ==
  ASSUME RagInv, NEW b \in Builders, Confirm(b)
  PROVE  RagInv'
<1>0. /\ build[b] \in BuildLocals /\ build[b].stage = "confirming" /\ Building(b)
      /\ build[b].id \in 1..used.builds /\ BuildOnly /\ b \in Processes
  BY BuilderFacts DEF Confirm, Building
<1>1. CASE Fails(b, IF current # build[b].id THEN "superseded" ELSE "damaged")
  <2> PICK cause : cause = IF current # build[b].id THEN "superseded" ELSE "damaged"
    OBVIOUS
  <2>1. cause \in OwnCauses \/ (cause \in {"missing", "superseded"} /\ ~build[b].alone)
    BY <1>0 DEF OwnCauses, RagInv, Solo
  <2> QED
    BY <1>0, <1>1, <2>1, FailsStep
<1>2. CASE Step(b, [build[b] EXCEPT !.stage = "published"]) /\ UNCHANGED <<indexVars, reading>>
  <2> PICK r : r = [build[b] EXCEPT !.stage = "published"]
    OBVIOUS
  <2>1. r \in BuildLocals
    BY <1>0 DEF BuildLocals, BuildStages
  <2>2. r.stage = "published" /\ r.id = build[b].id /\ r.alone = build[b].alone
    BY <1>0 DEF BuildLocals
  <2>3. UNCHANGED <<staging, temps, generations, current>>
    BY <1>2 DEF indexVars
  <2>4. Owns(b, r) /\ RowFits(r)
    BY <1>0, <1>2, <2>1, <2>2, <2>3 DEF Owns, AloneFits, RowFits
  <2>5. Reads'
    BY <1>0, <1>2, ReadsStay DEF RagInv, BuildOnly
  <2> QED
    BY <1>0, <2>3, <2>4, <2>5, BuilderFacts, BuilderStep
<1> QED
  BY <1>1, <1>2 DEF Confirm

LEMMA InterruptStep ==
  ASSUME RagInv, NEW b \in Builders, Interrupt(b)
  PROVE  RagInv'
<1>1. used \in Uses
  BY DEF RagInv, Sources
<1>2. used' \in Uses /\ used'.builds = used.builds /\ used'.edits = used.edits
  BY <1>1 DEF Interrupt, Uses
<1>3. BuildOnly
  BY <1>2 DEF BuildOnly, Interrupt
<1> QED
  BY <1>3, FailsStep DEF Interrupt, OwnCauses

(* The step that makes the generation: under a name no other build has, so  *)
(* that nothing a search holds changes under it.                            *)
LEMMA FinalizeStep ==
  ASSUME RagInv, NEW b \in Builders, Finalize(b)
  PROVE  RagInv'
<1> PICK o : o = build[b]
  OBVIOUS
<1>0. /\ o \in BuildLocals /\ o.stage \in {"validated", "manifest"} /\ Building(b)
      /\ o.id \in 1..used.builds /\ BuildOnly /\ b \in Processes
      /\ ~Published(o.id)
  BY BuilderFacts DEF Finalize, Building, RagInv, Index
<1>1. CASE o.id \notin staging
  <2>1. Fails(b, "missing") /\ ~o.alone
    BY <1>0, <1>1 DEF Finalize, RagInv, Solo
  <2> QED
    BY <1>0, <2>1, FailsStep
<1>2. CASE o.id \in staging /\ o.stage = "validated"
  <2> PICK r : r = [o EXCEPT !.stage = "manifest"]
    OBVIOUS
  <2>1. Step(b, r) /\ UNCHANGED <<staging, generations, temps, current, reading>>
    BY <1>0, <1>2 DEF Finalize
  <2>2. r \in BuildLocals
    BY <1>0 DEF BuildLocals, BuildStages
  <2>3. r.stage = "manifest" /\ r.id = o.id /\ r.alone = o.alone
    BY <1>0 DEF BuildLocals
  <2>4. Owns(b, r) /\ RowFits(r)
    BY <1>0, <1>2, <2>1, <2>2, <2>3 DEF Owns, AloneFits, RowFits
  <2>5. Reads'
    BY <1>0, <2>1, ReadsStay DEF RagInv, BuildOnly
  <2> QED
    BY <1>0, <2>1, <2>4, <2>5, BuilderFacts, BuilderStep
<1>3. CASE o.id \in staging /\ o.stage = "manifest"
  <2> PICK r : r = [o EXCEPT !.stage = "finalized"]
    OBVIOUS
  <2> DEFINE made == [documents |-> o.documents, chunks |-> o.documents]
  <2>1. /\ Step(b, r) /\ UNCHANGED <<temps, current, reading>>
        /\ staging' = staging \ {o.id}
        /\ generations' = [g \in DOMAIN generations \union {o.id} |->
                             IF g = o.id THEN made ELSE generations[g]]
    BY <1>0, <1>3 DEF Finalize
  <2>2. r \in BuildLocals
    BY <1>0 DEF BuildLocals, BuildStages
  <2>3. r.stage = "finalized" /\ r.id = o.id /\ r.alone = o.alone
    BY <1>0 DEF BuildLocals
  <2>4. Owns(b, r)
    BY <1>0, <2>1, <2>2, <2>3 DEF Owns, AloneFits
  <2>5. Builds' /\ Solo'
    BY <1>0, <2>4, BuildsStep, SoloStep DEF BuildOnly
  <2>6. Reads' /\ Sources' /\ Handed'
    <3>1. used'.edits >= used.edits
      BY <1>0, RagAssumption DEF RagInv, Sources, Uses, BuildOnly
    <3> QED
      BY <1>0, <2>1, <3>1, ReadsStay, SourcesStay DEF RagInv, BuildOnly, Handed
  <2>7. made \in GenerationRecords
    BY <1>0 DEF BuildLocals, GenerationRecords
  <2> HIDE DEF made
  <2>8. /\ DOMAIN generations' = DOMAIN generations \union {o.id}
        /\ generations'[o.id] = made
        /\ \A g \in DOMAIN generations : generations'[g] = generations[g]
    BY <1>0, <2>1 DEF Published
  <2>9. Searches'
    BY <1>0, <2>8 DEF RagInv, Searches, Published, BuildOnly
  <2>10. Index'
    <3>1. /\ build'[b] = r
          /\ \A c \in Builders : c # b => build'[c] = build[c]
      BY <2>4, OwnStep DEF RagInv, Owns
    <3>2. \A g \in DOMAIN generations' : generations'[g] \in GenerationRecords /\ g \in 1..used.builds
      BY <1>0, <2>7, <2>8 DEF RagInv, Index
    <3>3. staging' \subseteq 1..used.builds /\ temps' \subseteq 1..used.builds
      BY <2>1, BuilderFacts
    <3>4. current' = NoGeneration \/ current' \in DOMAIN generations'
      BY <2>1, <2>8 DEF RagInv, Index, Published
    <3>5. \A c \in Builders :
            /\ build'[c].stage \in {"finalized", "pointer"} => build'[c].id \in DOMAIN generations'
            /\ build'[c].stage \in {"recovered", "scanning", "validated", "manifest"} =>
                 build'[c].id \notin DOMAIN generations'
      <4> TAKE c \in Builders
      <4>1. CASE c = b
        BY <4>1, <2>3, <2>8, <3>1
      <4>2. CASE c # b
        <5>1. Building(c) => build[c].id # o.id
          BY <4>2, <1>0 DEF RagInv, Builds
        <5> QED
          BY <4>2, <5>1, <2>8, <3>1 DEF RagInv, Index, Published, Building
      <4> QED
        BY <4>1, <4>2
    <3> QED
      BY <1>0, <3>2, <3>3, <3>4, <3>5 DEF Index, Published, BuildOnly
  <2> QED
    BY <2>5, <2>6, <2>9, <2>10 DEF RagInv
<1> QED
  BY <1>0, <1>1, <1>2, <1>3

(* A build begins: it takes away what others, or what was left by one that  *)
(* stopped, and those under way are no longer alone.                        *)
LEMMA BeginStep ==
  ASSUME RagInv, NEW b \in Builders, Begin(b)
  PROVE  RagInv'
<1> PICK n : n = used.builds
  OBVIOUS
<1>1. used \in Uses /\ n \in 0..MaxBuilds /\ n < MaxBuilds /\ MaxBuilds \in Nat
  BY RagAssumption DEF RagInv, Sources, Uses, Begin
<1>2. used' \in Uses /\ used'.builds = n + 1 /\ used'.edits = used.edits
  <2>1. n + 1 \in 0..MaxBuilds
    BY <1>1
  <2>2. used' = [used EXCEPT !.builds = used.builds + 1]
    BY DEF Begin
  <2>3. used' = [used EXCEPT !.builds = n + 1]
    BY <2>2
  <2> QED
    BY <1>1, <2>1, <2>3 DEF Uses
<1>3. /\ staging' = {} /\ temps' = {} /\ generations' = generations
      /\ UNCHANGED <<source, current, reading, search, given>>
  BY DEF Begin, RecoverIncompletePublications
<1>4. Sources' /\ Reads' /\ Searches' /\ Handed'
  <2>1. used'.edits >= used.edits
    BY <1>1, <1>2 DEF Uses
  <2> QED
    BY <1>2, <1>3, <2>1, SourcesStay, ReadsStay, SearchesStay DEF RagInv, Handed
<1> DEFINE started == [NotBuilding EXCEPT !.stage = "recovered", !.id = n + 1, !.alone = Others(b) = {}]
           marked(c) == [build[c] EXCEPT !.alone = @ /\ ~Building(c)]
<1>5. build' = [c \in Builders |-> IF c = b THEN started ELSE marked(c)]
  BY DEF Begin, NewGenerationId
<1>6. /\ started \in BuildLocals
      /\ started.stage = "recovered" /\ started.id = n + 1 /\ started.alone = (Others(b) = {})
  <2>1. NotBuilding \in BuildLocals
    BY DEF NotBuilding, BuildLocals, BuildStages
  <2>2. (Others(b) = {}) \in BOOLEAN /\ n + 1 \in Nat
    BY <1>1
  <2> QED
    BY <2>1, <2>2 DEF BuildLocals, BuildStages
<1>7. ASSUME NEW c \in Builders
      PROVE  /\ marked(c) \in BuildLocals
             /\ marked(c).stage = build[c].stage /\ marked(c).id = build[c].id
             /\ marked(c).cause = build[c].cause
             /\ marked(c).alone = (build[c].alone /\ ~Building(c))
  <2>1. build[c] \in BuildLocals
    BY BuilderFacts
  <2>2. (build[c].alone /\ ~Building(c)) \in BOOLEAN
    BY <2>1 DEF BuildLocals
  <2> QED
    BY <2>1, <2>2 DEF BuildLocals
<1> HIDE DEF started, marked
<1>8. /\ build' \in [Builders -> BuildLocals]
      /\ build'[b] = started
      /\ \A c \in Builders : c # b => build'[c] = marked(c)
  BY <1>5, <1>6, <1>7
<1>9. \A c \in Builders : Building(c) => build[c].id \in 1..n
  BY DEF RagInv, Builds
<1>10. \A i \in 1..n : i \in 1..(n + 1) /\ i # n + 1
  BY <1>1
<1>11. n + 1 \in 1..(n + 1)
  BY <1>1
<1>12. Builds'
  <2>1. \A c \in Builders : Building(c)' => build'[c].id \in 1..(n + 1)
    BY <1>6, <1>7, <1>8, <1>9, <1>10, <1>11 DEF Building
  <2>2. \A c, d \in Builders : c # d /\ Building(c)' /\ Building(d)' => build'[c].id # build'[d].id
    BY <1>6, <1>7, <1>8, <1>9, <1>10 DEF Building, RagInv, Builds
  <2> QED
    BY <1>2, <1>8, <2>1, <2>2 DEF Builds, Building
<1>13. Index'
  <2>1. DOMAIN generations \subseteq 1..n /\ n + 1 \notin DOMAIN generations
    BY <1>10 DEF RagInv, Index
  <2>2. \A c \in Builders :
          /\ build'[c].stage \in {"finalized", "pointer"} => build'[c].id \in DOMAIN generations
          /\ build'[c].stage \in {"recovered", "scanning", "validated", "manifest"} =>
               build'[c].id \notin DOMAIN generations
    BY <1>6, <1>7, <1>8, <2>1 DEF RagInv, Index, Published
  <2> QED
    BY <1>2, <1>3, <1>10, <2>1, <2>2 DEF RagInv, Index, Published
<1>14. Solo'
  <2> SUFFICES ASSUME NEW c \in Builders, build'[c].alone
      PROVE  /\ Building(c)' => \A d \in Builders : d # c => ~Building(d)'
             /\ build'[c].stage \in {"scanning", "validated", "manifest"} => build'[c].id \in staging'
             /\ build'[c].stage = "pointer" => build'[c].id \in temps'
             /\ build'[c].stage = "confirming" => current' = build'[c].id
             /\ build'[c].stage = "failed" => build'[c].cause \in OwnCauses
    BY DEF Solo, Building
  <2>1. CASE c = b
    <3>1. \A d \in Builders : d # b => ~Building(d)
      BY <2>1, <1>6, <1>8 DEF Others
    <3>2. \A d \in Builders : d # b => ~Building(d)'
      BY <3>1, <1>7, <1>8 DEF Building
    <3> QED
      BY <2>1, <3>2, <1>6, <1>8
  <2>2. CASE c # b
    <3>1. ~Building(c) /\ build[c].alone /\ build'[c].stage = build[c].stage
          /\ build'[c].cause = build[c].cause
      BY <2>2, <1>7, <1>8
    <3> QED
      BY <3>1 DEF Building, RagInv, Solo
  <2> QED
    BY <2>1, <2>2
<1> QED
  BY <1>4, <1>12, <1>13, <1>14 DEF RagInv

-----------------------------------------------------------------------------
(* Searches, references, and the world around.                              *)

LEMMA SearchStep ==
  ASSUME RagInv, NEW s \in Searchers, ResolveActive(s) \/ SearchChunks(s)
  PROVE  RagInv'
<1>1. used' \in Uses /\ used'.builds = used.builds /\ used'.edits = used.edits
  <2>1. used \in Uses
    BY DEF RagInv, Sources
  <2> QED
    BY <2>1 DEF ResolveActive, SearchChunks, Uses
<1>2. UNCHANGED <<source, indexVars, build, reading, given>> /\ generations' = generations
  BY DEF ResolveActive, SearchChunks, indexVars
<1>3. used'.edits >= used.edits
  BY <1>1, RagAssumption DEF Uses
<1>4. Sources' /\ Reads' /\ Builds' /\ Index' /\ Solo' /\ Handed'
  BY <1>1, <1>2, <1>3, SourcesStay, ReadsStay, BuildsStay, IndexStays, SoloStays DEF RagInv, Handed
<1>5. Searches'
  <2> DEFINE Records == [stage : {"idle", "resolved", "answered", "refused"},
                         id : Nat \union {NoGeneration}, hits : SUBSET CleanDocuments]
             Fits(r) == /\ r.stage \in {"resolved", "answered"} => Published(r.id)
                        /\ r.stage = "answered" => r.hits = generations[r.id].documents
  <2>1. PICK r \in Records : search' = [search EXCEPT ![s] = r] /\ Fits(r)
    <3>1. CASE ResolveActive(s)
      <4>1. CASE current = NoGeneration \/ ~Published(current)
        <5> PICK r : r = [NotSearching EXCEPT !.stage = "refused"]
          OBVIOUS
        <5>1. r \in Records /\ r.stage = "refused"
          BY DEF NotSearching
        <5> QED
          BY <3>1, <4>1, <5>1 DEF ResolveActive
      <4>2. CASE Published(current) /\ current # NoGeneration
        <5> PICK r : r = [stage |-> "resolved", id |-> current, hits |-> {}]
          OBVIOUS
        <5>1. current \in Nat
          BY <4>2 DEF RagInv, Index, Published
        <5>2. r \in Records /\ Fits(r)
          BY <4>2, <5>1
        <5> QED
          BY <3>1, <4>2, <5>2 DEF ResolveActive
      <4> QED
        BY <4>1, <4>2
    <3>2. CASE SearchChunks(s)
      <4> PICK o : o = search[s]
        OBVIOUS
      <4>1. o \in Records /\ o.stage = "resolved"
        BY <3>2 DEF RagInv, Searches, SearchChunks
      <4>2. CASE ChunksMatch(o.id)
        <5> PICK r : r = [o EXCEPT !.stage = "answered", !.hits = generations[o.id].chunks]
          OBVIOUS
        <5>1. /\ generations[o.id].chunks \subseteq CleanDocuments /\ Published(o.id)
              /\ generations[o.id].chunks = generations[o.id].documents
          BY <4>2 DEF ChunksMatch, RagInv, Index, GenerationRecords, Published
        <5>2. r \in Records
          BY <4>1, <5>1
        <5>3. r.stage = "answered" /\ r.id = o.id /\ r.hits = generations[o.id].chunks
          BY <4>1
        <5> QED
          BY <3>2, <4>2, <5>1, <5>2, <5>3 DEF SearchChunks
      <4>3. CASE ~ChunksMatch(o.id)
        <5> PICK r : r = [o EXCEPT !.stage = "refused"]
          OBVIOUS
        <5>1. r \in Records /\ r.stage = "refused"
          BY <4>1
        <5> QED
          BY <3>2, <4>3, <5>1 DEF SearchChunks
      <4> QED
        BY <4>2, <4>3
    <3> QED
      BY <3>1, <3>2
  <2>2. search \in [Searchers -> Records]
    BY DEF RagInv, Searches
  <2> HIDE DEF Records
  <2>3. /\ search' \in [Searchers -> Records] /\ search'[s] = r
        /\ \A t \in Searchers : t # s => search'[t] = search[t]
    BY <2>1, <2>2
  <2>4. \A t \in Searchers : Fits(search'[t])
    BY <2>1, <2>3 DEF RagInv, Searches
  <2> QED
    BY <1>2, <2>3, <2>4 DEF Searches, Published, Records
<1> QED
  BY <1>4, <1>5 DEF RagInv

LEMMA ReferrerFacts ==
  ASSUME NEW r \in Referrers
  PROVE  r \in Processes /\ r \notin Builders
BY RagAssumption DEF Processes

LEMMA ReferStep ==
  ASSUME RagInv, NEW r \in Referrers, NEW path \in Paths, Refer(r, path)
  PROVE  RagInv'
<1>0. r \in Processes /\ r \notin Builders
  BY ReferrerFacts
<1>1. used' \in Uses /\ used'.builds = used.builds /\ used'.edits = used.edits
  <2>1. used \in Uses
    BY DEF RagInv, Sources
  <2> QED
    BY <2>1 DEF Refer, Uses
<1>2. UNCHANGED <<source, indexVars, build, search, given>> /\ generations' = generations
  BY DEF Refer, indexVars
<1>3. used'.edits >= used.edits
  BY <1>1, RagAssumption DEF Uses
<1>4. Sources' /\ Builds' /\ Index' /\ Solo' /\ Searches' /\ Handed'
  BY <1>1, <1>2, <1>3, SourcesStay, BuildsStay, IndexStays, SoloStays, SearchesStay DEF RagInv, Handed
<1>5. Reads'
  <2> PICK q : q = [NotReading EXCEPT !.path = path, !.at = "look"]
    OBVIOUS
  <2>0. NotReading \in Readings
    BY DEF NotReading, Readings, ReadStages
  <2>1. q \in Readings /\ q.at = "look" /\ q.path = path
    BY <2>0 DEF Readings, ReadStages
  <2>2. ReadFits(r, q)
    BY <1>0, <2>1 DEF ReadFits
  <2> QED
    BY <1>0, <1>2, <2>1, <2>2, ReadStep DEF RagInv, Refer
<1> QED
  BY <1>4, <1>5 DEF RagInv

LEMMA ResolveStep ==
  ASSUME RagInv, NEW r \in Referrers, Resolve(r)
  PROVE  RagInv'
<1>0. r \in Processes
  BY ReferrerFacts
<1>1. UNCHANGED <<source, indexVars, build, search, used>> /\ generations' = generations
  BY DEF Resolve, indexVars
<1>2. used' \in Uses /\ used'.edits >= used.edits
  BY <1>1, RagAssumption DEF RagInv, Sources, Uses
<1>3. Sources' /\ Builds' /\ Index' /\ Solo' /\ Searches'
  BY <1>1, <1>2, SourcesStay, BuildsStay, IndexStays, SoloStays, SearchesStay DEF RagInv
<1>4. Reads'
  BY <1>0, <1>1, NotReadingFits DEF RagInv, Resolve
<1>5. Handed'
  <2> PICK q : q = reading[r]
    OBVIOUS
  <2>1. q.at = "stable" => q.text \in StableTexts
    BY <1>0, ProcessFacts DEF ReadFits
  <2>2. \A d \in given' : d \in given \/ (q.at = "stable" /\ d = [path |-> q.path, text |-> q.text])
    BY DEF Resolve
  <2> QED
    BY <2>1, <2>2 DEF RagInv, Handed
<1> QED
  BY <1>3, <1>4, <1>5 DEF RagInv

(* A change gives the path a fingerprint it never had: a read under way     *)
(* will see that.                                                           *)
LEMMA TouchStep ==
  ASSUME RagInv, NEW path, Touch(path)
  PROVE  RagInv'
<1>1. /\ used' \in Uses /\ used'.builds = used.builds
      /\ used'.edits = used.edits + 1 /\ used.edits \in Nat
  <2>1. used \in Uses /\ used.edits \in 0..MaxEdits /\ used.edits < MaxEdits /\ MaxEdits \in Nat
    BY RagAssumption DEF RagInv, Sources, Uses, Touch
  <2>2. used.edits + 1 \in 0..MaxEdits /\ used' = [used EXCEPT !.edits = used.edits + 1]
    BY <2>1 DEF Touch
  <2> QED
    BY <2>1, <2>2 DEF Uses
<1>2. UNCHANGED <<indexVars, build, reading, search, given>> /\ generations' = generations
  BY DEF Touch, indexVars
<1>3. Builds' /\ Index' /\ Solo' /\ Searches' /\ Handed'
  BY <1>1, <1>2, BuildsStay, IndexStays, SoloStays, SearchesStay DEF RagInv, Handed
<1>4. PICK text \in Texts :
        source' = [source EXCEPT ![path] = [link |-> text = "outside", text |-> text,
                                            stamp |-> source[path].stamp + 1]]
  BY DEF Touch, Texts
<1>5. source \in [Paths -> SourceFiles] /\ \A p \in Paths : source[p].stamp \in Nat
  BY DEF RagInv, Sources, SourceFiles
<1> DEFINE now == [link |-> text = "outside", text |-> text, stamp |-> source[path].stamp + 1]
<1>6. path \in Paths => now \in SourceFiles
  <2>1. path \in Paths => source[path].stamp + 1 \in Nat
    BY <1>5
  <2> QED
    BY <2>1 DEF SourceFiles
<1>7. now.stamp = source[path].stamp + 1 /\ now.text = text /\ now.link = (text = "outside")
  OBVIOUS
<1> HIDE DEF now
<1>8. /\ source' \in [Paths -> SourceFiles]
      /\ path \in Paths => source'[path] = now
      /\ \A p \in Paths : p # path => source'[p] = source[p]
  BY <1>4, <1>5, <1>6 DEF now
<1>9. \A p \in Paths : source'[p].stamp = source[p].stamp + 1
                       \/ (source'[p].stamp = source[p].stamp /\ source'[p] = source[p])
  BY <1>7, <1>8
<1>10. Sources'
  <2> SUFFICES ASSUME NEW p \in Paths
               PROVE  /\ source'[p].stamp <= used'.edits
                      /\ source'[p].link <=> source'[p].text = "outside"
    BY <1>1, <1>8 DEF Sources
  <2>1. source[p].stamp <= used.edits
    BY DEF RagInv, Sources
  <2>2. source'[p].stamp <= used'.edits
    BY <1>1, <1>5, <1>9, <2>1
  <2>3. source'[p].link <=> source'[p].text = "outside"
    BY <1>7, <1>8 DEF RagInv, Sources
  <2> QED
    BY <2>2, <2>3
<1>11. Reads'
  <2> SUFFICES ASSUME NEW p \in Processes, NEW r, r = reading[p], ReadFits(p, r)
               PROVE  ReadFits(p, r)'
    BY <1>2 DEF RagInv, Reads, ReadFits
  <2>0. r \in Readings /\ r.before \in Nat
    BY DEF RagInv, Reads, Readings
  <2>1. CASE r.at \in {"open", "rest", "verify"}
    <3>1. r.path \in Paths /\ r.before <= source[r.path].stamp /\ source[r.path].stamp \in Nat
      BY <1>5, <2>1 DEF ReadFits
    <3>2. /\ r.before <= source'[r.path].stamp
          /\ source'[r.path].stamp = r.before =>
               source'[r.path] = source[r.path] /\ source[r.path].stamp = r.before
      BY <1>9, <2>0, <3>1
    <3> QED
      BY <2>1, <3>1, <3>2 DEF ReadFits
  <2>2. CASE r.at \notin {"open", "rest", "verify"}
    BY <2>2 DEF ReadFits
  <2> QED
    BY <2>1, <2>2
<1> QED
  BY <1>3, <1>10, <1>11 DEF RagInv

LEMMA DamageStep ==
  ASSUME RagInv, NEW g \in DOMAIN generations, Damage(g)
  PROVE  RagInv'
<1>1. used' \in Uses /\ used'.builds = used.builds /\ used'.edits = used.edits
  <2>1. used \in Uses
    BY DEF RagInv, Sources
  <2> QED
    BY <2>1 DEF Damage, Uses
<1>2. UNCHANGED <<source, staging, temps, current, build, reading, search, given>>
  BY DEF Damage
<1>3. used'.edits >= used.edits
  BY <1>1, RagAssumption DEF Uses
<1>4. Sources' /\ Reads' /\ Builds' /\ Handed'
  BY <1>1, <1>2, <1>3, SourcesStay, ReadsStay, BuildsStay DEF RagInv, Handed
<1>5. Solo'
  BY <1>2 DEF RagInv, Solo, Building
<1>6. generations[g] \in GenerationRecords
  BY DEF RagInv, Index
<1> DEFINE now == [generations[g] EXCEPT !.chunks = {}]
<1>7. now \in GenerationRecords /\ now.documents = generations[g].documents
  BY <1>6 DEF GenerationRecords
<1>8. generations' = [generations EXCEPT ![g] = now]
  BY DEF Damage
<1> HIDE DEF now
<1>9. /\ DOMAIN generations' = DOMAIN generations
      /\ \A h \in DOMAIN generations : generations'[h] = IF h = g THEN now ELSE generations[h]
  BY <1>8
<1>10. \A h \in DOMAIN generations :
         generations'[h] \in GenerationRecords /\ generations'[h].documents = generations[h].documents
  BY <1>7, <1>9 DEF RagInv, Index
<1>11. Index'
  BY <1>1, <1>2, <1>9, <1>10 DEF RagInv, Index, Published
<1>12. Searches'
  BY <1>2, <1>9, <1>10 DEF RagInv, Searches, Published
<1> QED
  BY <1>4, <1>5, <1>11, <1>12 DEF RagInv

LEMMA RagInvKept == RagInv /\ [RagNext]_ragVars => RagInv'
<1> SUFFICES ASSUME RagInv, [RagNext]_ragVars PROVE RagInv'
  OBVIOUS
<1>1. CASE UNCHANGED ragVars
  <2>1. UNCHANGED <<source, reading, build, search, given, used>> /\ UNCHANGED indexVars
        /\ generations' = generations
    BY <1>1 DEF ragVars, indexVars
  <2>2. used' \in Uses /\ used'.edits >= used.edits
    BY <2>1, RagAssumption DEF RagInv, Sources, Uses
  <2> QED
    BY <2>1, <2>2, SourcesStay, ReadsStay, BuildsStay, IndexStays, SoloStays, SearchesStay
    DEF RagInv, Handed
<1>2. ASSUME NEW p \in Processes, Look(p) \/ OpenFile(p) \/ ReadRest(p) \/ VerifyRead(p)
      PROVE  RagInv'
  BY <1>2, LookStep, OpenFileStep, ReadRestStep, VerifyReadStep
<1>3. ASSUME NEW b \in Builders,
             \/ Begin(b) \/ Prepare(b) \/ TakeCandidate(b) \/ WriteDocument(b) \/ ValidateData(b)
             \/ Finalize(b) \/ WriteCurrentTemp(b) \/ Publish(b) \/ Confirm(b) \/ Interrupt(b)
      PROVE  RagInv'
  BY <1>3, BeginStep, PrepareStep, TakeCandidateStep, WriteDocumentStep, ValidateDataStep,
     FinalizeStep, WriteCurrentTempStep, PublishStep, ConfirmStep, InterruptStep
<1>4. ASSUME NEW s \in Searchers, ResolveActive(s) \/ SearchChunks(s)
      PROVE  RagInv'
  BY <1>4, SearchStep
<1>5. ASSUME NEW r \in Referrers, Resolve(r) \/ \E p \in Paths : Refer(r, p)
      PROVE  RagInv'
  BY <1>5, ResolveStep, ReferStep
<1>6. ASSUME NEW p \in Edited, Touch(p)
      PROVE  RagInv'
  BY <1>6, TouchStep
<1>7. ASSUME NEW g \in DOMAIN generations, Damage(g)
      PROVE  RagInv'
  BY <1>7, DamageStep
<1> QED
  BY <1>1, <1>2, <1>3, <1>4, <1>5, <1>6, <1>7 DEF RagNext

(* CURRENT names a whole generation of stable texts without secrets,        *)
(* searches answer from all of it, and no leftover stops the next build:    *)
(* for any number of builders, searchers and chat requests at a time, any   *)
(* files and any number of builds, edits and faults (rag/index.rs,          *)
(* rag/reference.rs).                                                       *)
THEOREM IndexIsSoundHolds == RagSpec => []IndexIsSound
<1>1. RagInit => RagInv
  BY RagInvInitially
<1>2. RagInv /\ [RagNext]_ragVars => RagInv'
  BY RagInvKept
<1>3. RagInv => IndexIsSound
  BY RagInvGives
<1> QED
  BY <1>1, <1>2, <1>3, PTL DEF RagSpec

-----------------------------------------------------------------------------
(* What the report of a usable analysis says of the texts it is about.      *)
Provable(text) == \E i \in DOMAIN text : text[i] = "edit"

ReportFits(report, index) ==
  /\ DOMAIN report.validations = {f \in JavaFiles : Provable(index[f])}
  /\ \A f \in JavaFiles : Provable(index[f]) =>
       report.validations[f].after = EditedText(index[f])
  /\ Cardinality(report.proposals) <= MaxProposals

LEMMA OnlyEditsPass ==
  ASSUME NEW ref \in References, NEW changed \in BOOLEAN
  PROVE  /\ Rejection(ref, changed) = "no" <=> ref = "edit" /\ ~changed
         /\ ref = "edit" /\ changed => Rejection(ref, changed) = "SourceChanged"
BY DEF References, Rejection

PlacesOf(index) == UNION {{f} \X DOMAIN index[f] : f \in JavaFiles}

LEMMA PlacesFinite ==
  ASSUME NEW index \in [JavaFiles -> JavaTexts]
  PROVE  IsFiniteSet(PlacesOf(index))
<1> DEFINE rows == {{f} \X DOMAIN index[f] : f \in JavaFiles}
<1> DEFINE row == [f \in JavaFiles |-> {f} \X DOMAIN index[f]]
<1>1. IsFiniteSet(JavaFiles)
  BY JavaAssumption, FS_Interval DEF JavaFiles
<1>2. row \in Surjection(JavaFiles, rows)
  BY DEF Surjection
<1>3. IsFiniteSet(rows)
  BY <1>1, <1>2, FS_Surjection
<1>4. ASSUME NEW T \in rows
      PROVE  IsFiniteSet(T)
  <2>1. PICK f \in JavaFiles : T = {f} \X DOMAIN index[f]
    OBVIOUS
  <2>2. index[f] \in Seq(References)
    BY JavaAssumption
  <2>3. PICK n \in Nat : DOMAIN index[f] = 1..n
    BY <2>2, LenProperties
  <2>4. IsFiniteSet(DOMAIN index[f])
    BY <2>3, FS_Interval
  <2>5. IsFiniteSet({f})
    BY FS_Singleton
  <2> QED
    BY <2>1, <2>4, <2>5, FS_Product
<1> QED
  BY <1>3, <1>4, FS_UNION DEF PlacesOf

LEMMA ProposalsFit ==
  ASSUME NEW index \in [JavaFiles -> JavaTexts], NEW read,
         \A f \in JavaFiles : NeedsSnapshot(index[f]) => f \in DOMAIN read,
         Usable(ProposeJavaEdits(index, read))
  PROVE  ReportFits(ProposeJavaEdits(index, read), index)
<1> DEFINE places == PlacesOf(index)
           changed(p) == p[1] \in DOMAIN read /\ read[p[1]] # index[p[1]]
           verdict(p) == Rejection(index[p[1]][p[2]], changed(p))
           found == {p \in places : verdict(p) = "no"}
           files == {p[1] : p \in found}
           report == ProposeJavaEdits(index, read)
<1>1. /\ report.proposals = found
      /\ report.validations = [f \in files |-> [before |-> read[f], after |-> EditedText(read[f])]]
      /\ ~(Cardinality(found) > MaxProposals)
      /\ \A p \in places : verdict(p) # "SourceChanged"
  BY DEF ProposeJavaEdits, Usable, PlacesOf, BlocksApplication
<1>2. ASSUME NEW p \in places
      PROVE  /\ p = <<p[1], p[2]>> /\ p[1] \in JavaFiles /\ p[2] \in DOMAIN index[p[1]]
             /\ index[p[1]][p[2]] \in References
  BY JavaAssumption DEF PlacesOf
<1>3. ASSUME NEW f \in JavaFiles, NEW i \in DOMAIN index[f]
      PROVE  <<f, i>> \in places
  BY DEF PlacesOf
<1>4. ASSUME NEW p \in places, index[p[1]][p[2]] = "edit"
      PROVE  p \in found
  BY <1>1, <1>2, <1>4, OnlyEditsPass
<1>5. ASSUME NEW p \in found
      PROVE  index[p[1]][p[2]] = "edit" /\ ~changed(p)
  <2>1. changed(p) \in BOOLEAN
    OBVIOUS
  <2> QED
    BY <1>2, <2>1, OnlyEditsPass
<1>6. files = {f \in JavaFiles : Provable(index[f])}
  <2>1. ASSUME NEW f \in files
        PROVE  f \in JavaFiles /\ Provable(index[f])
    BY <1>2, <1>5 DEF Provable
  <2>2. ASSUME NEW f \in JavaFiles, Provable(index[f])
        PROVE  f \in files
    <3>1. PICK i \in DOMAIN index[f] : index[f][i] = "edit"
      BY <2>2 DEF Provable
    <3>2. <<f, i>> \in found
      BY <1>3, <1>4, <3>1
    <3> QED
      BY <3>2
  <2> QED
    BY <2>1, <2>2
<1>7. ASSUME NEW f \in files
      PROVE  read[f] = index[f]
  <2>1. PICK p \in found : f = p[1]
    OBVIOUS
  <2>2. p[2] \in DOMAIN index[f] /\ index[f][p[2]] = "edit" /\ f \in JavaFiles
    BY <1>2, <1>5, <2>1
  <2>3. NeedsSnapshot(index[f])
    BY <2>2 DEF NeedsSnapshot
  <2> QED
    BY <1>5, <2>1, <2>2, <2>3
<1>8. Cardinality(found) \in Nat
  <2>1. IsFiniteSet(found)
    BY PlacesFinite, FS_Subset
  <2> QED
    BY <2>1, FS_CardinalityType
<1>9. Cardinality(found) <= MaxProposals
  BY <1>1, <1>8, JavaAssumption
<1> HIDE DEF found, files, report
<1> QED
  BY <1>1, <1>6, <1>7, <1>9 DEF ReportFits, report

-----------------------------------------------------------------------------
(* The local variables of a verification, and what they are worth where it  *)
(* stands: the report of the source from the analysis on, the report of the *)
(* worktree from the contract on, and the verdict drawn from it at the end. *)
VerifyFields ==
  {"at", "index", "snapshot", "source", "base", "again", "after", "failed",
   "postWrite", "worktree", "unchanged", "status"}

Indexed ==
  /\ DOMAIN verify = VerifyFields
  /\ verify.index \in Seq(JavaTexts) /\ Len(verify.index) <= NJavaFiles
  /\ verify.at = "index" => Len(verify.index) < NJavaFiles
  /\ verify.at = "snapshot" => Len(verify.index) = NJavaFiles

OnCommit == verify.at = "add" => verify.base \in ProjectTexts

Analysed ==
  /\ verify.at \in {"tree", "head", "add", "revalidate"} => ReportFits(verify.source, verify.index)
  /\ verify.at \in {"materialize", "apply", "postwrite", "build"} \/ verify.postWrite =>
       ReportFits(verify.again, verify.index)

Concluded ==
  /\ verify.postWrite \in BOOLEAN
  /\ verify.postWrite => verify.at \in {"build", "capture", "reread", "rehead", "ended"}
  /\ verify.postWrite /\ verify.at = "ended" => verify.status = DeriveStatus(verify.worktree)

JavaInv == JavaTypeOK /\ Indexed /\ OnCommit /\ Analysed /\ Concluded

LEMMA JavaInvInitially == JavaInit => JavaInv
<1> SUFFICES ASSUME JavaInit PROVE JavaInv
  OBVIOUS
<1>1. Cardinality(NoReport.proposals) = 0
  BY FS_EmptySet DEF NoReport
<1>2. verify.index \in Seq(JavaTexts) /\ Len(verify.index) = 0
  BY DEF JavaInit
<1>3. JavaTypeOK
  BY <1>1, JavaAssumption DEF JavaTypeOK, JavaInit
<1>4. Indexed
  BY <1>2, JavaAssumption DEF Indexed, JavaInit, VerifyFields
<1> QED
  BY <1>3, <1>4 DEF JavaInv, OnCommit, Analysed, Concluded, JavaInit

LEMMA JavaInvGives == JavaInv => EditsAreVerified
<1> SUFFICES ASSUME JavaInv, VerificationSuccess, verify.status # "NoChanges"
             PROVE  /\ verify.status = "Passed"
                    /\ \A f \in JavaFiles :
                         IF Provable(verify.index[f])
                         THEN verify.after[f] = EditedText(verify.index[f])
                         ELSE verify.after[f] = verify.base[f]
  BY DEF JavaInv, EditsAreVerified, VerifiedAsAnalysed, Provable
<1>1. /\ verify.at = "ended" /\ verify.failed = "none" /\ verify.postWrite
      /\ FinalGitState /\ verify.worktree = "Passed"
  BY DEF VerificationSuccess
<1>2. verify.status = "Passed"
  BY <1>1 DEF JavaInv, Concluded, DeriveStatus
<1>3. ReportFits(verify.again, verify.index)
  BY <1>1 DEF JavaInv, Analysed
<1> QED
  BY <1>1, <1>2, <1>3 DEF ReportFits, FinalGitState, EditedFiles

(* What a step that leaves the index and the reports alone may do.          *)
Advances ==
  /\ DOMAIN verify' = VerifyFields
  /\ verify'.index = verify.index /\ verify'.source = verify.source
  /\ verify'.again = verify.again /\ verify'.postWrite = verify.postWrite
  /\ verify.at \notin {"index", "snapshot", "ended"}
  /\ verify'.at \notin {"index", "snapshot"}

LEMMA AnalysedStays ==
  ASSUME Analysed, Advances,
         verify'.at \in {"tree", "head", "add", "revalidate"} =>
           verify.at \in {"tree", "head", "add", "revalidate"},
         verify'.at \in {"materialize", "apply", "postwrite", "build"} =>
           verify.at \in {"materialize", "apply", "postwrite", "build"}
  PROVE  Analysed'
BY DEF Analysed, Advances, ReportFits, Provable, EditedText

LEMMA IndexedStays == Indexed /\ Advances => Indexed'
BY DEF Indexed, Advances

LEMMA IndexFileStep == JavaInv /\ IndexFile => JavaInv'
<1> SUFFICES ASSUME JavaInv, IndexFile PROVE JavaInv'
  OBVIOUS
<1>1. PICK n \in Nat : n = Len(verify.index)
  BY DEF JavaInv, Indexed
<1>2. n < NJavaFiles /\ n + 1 \in JavaFiles
  BY <1>1, JavaAssumption DEF JavaInv, Indexed, IndexFile, JavaFiles
<1>3. PICK text \in JavaTexts : text = javaTree[n + 1]
  BY <1>2 DEF JavaInv, JavaTypeOK, ProjectTexts
<1>4. PICK index : index = Append(verify.index, text)
  OBVIOUS
<1>5. index \in Seq(JavaTexts) /\ Len(index) = n + 1
  BY <1>1, <1>4, AppendProperties DEF JavaInv, Indexed
<1>6. verify' = [verify EXCEPT !.index = index,
                               !.at = IF Len(index) = NJavaFiles THEN "snapshot" ELSE "index"]
  BY <1>1, <1>3, <1>4 DEF IndexFile
<1>7. /\ DOMAIN verify' = VerifyFields /\ verify'.index = index
      /\ verify'.at = IF n + 1 = NJavaFiles THEN "snapshot" ELSE "index"
      /\ verify'.again = verify.again /\ verify'.postWrite = verify.postWrite
  BY <1>5, <1>6 DEF JavaInv, Indexed, VerifyFields
<1>8. ~verify.postWrite /\ verify.postWrite \in BOOLEAN
  BY DEF JavaInv, Concluded, IndexFile
<1>9. Indexed'
  BY <1>2, <1>5, <1>7, JavaAssumption DEF Indexed
<1>10. JavaTypeOK'
  BY <1>7 DEF JavaInv, JavaTypeOK, IndexFile
<1> QED
  BY <1>7, <1>8, <1>9, <1>10 DEF JavaInv, OnCommit, Analysed, Concluded

LEMMA SnapshotFileStep == JavaInv /\ SnapshotFile => JavaInv'
<1> SUFFICES ASSUME JavaInv, SnapshotFile PROVE JavaInv'
  OBVIOUS
<1>1. PICK snapshot : verify' = [verify EXCEPT !.snapshot = snapshot]
  BY DEF SnapshotFile
<1>2. /\ DOMAIN verify' = VerifyFields /\ verify'.index = verify.index
      /\ verify'.at = "snapshot"
      /\ verify'.again = verify.again /\ verify'.postWrite = verify.postWrite
  BY <1>1 DEF JavaInv, Indexed, VerifyFields, SnapshotFile
<1>3. ~verify.postWrite /\ verify.postWrite \in BOOLEAN
  BY DEF JavaInv, Concluded, SnapshotFile
<1>4. Indexed'
  BY <1>2 DEF JavaInv, Indexed, SnapshotFile
<1>5. JavaTypeOK'
  BY <1>2 DEF JavaInv, JavaTypeOK, SnapshotFile
<1> QED
  BY <1>2, <1>3, <1>4, <1>5 DEF JavaInv, OnCommit, Analysed, Concluded

LEMMA ProposeStep == JavaInv /\ Propose => JavaInv'
<1> SUFFICES ASSUME JavaInv, Propose PROVE JavaInv'
  OBVIOUS
<1>1. PICK report : report = ProposeJavaEdits(verify.index, verify.snapshot)
  OBVIOUS
<1>2. /\ DOMAIN verify' = VerifyFields /\ verify'.index = verify.index
      /\ verify'.source = report
      /\ verify'.at \in {"ended", "noop", "tree"} /\ (verify'.at = "tree" => Usable(report))
      /\ verify'.again = verify.again /\ verify'.postWrite = verify.postWrite
  BY <1>1 DEF JavaInv, Indexed, VerifyFields, Propose
<1>3. ~verify.postWrite /\ verify.postWrite \in BOOLEAN
  BY DEF JavaInv, Concluded, Propose
<1>4. verify.index \in [JavaFiles -> JavaTexts]
  BY DEF JavaInv, Indexed, Propose, JavaFiles
<1>5. \A f \in JavaFiles : NeedsSnapshot(verify.index[f]) => f \in DOMAIN verify.snapshot
  BY DEF Propose, Unread
<1>6. Usable(report) => ReportFits(report, verify.index)
  BY <1>1, <1>4, <1>5, ProposalsFit
<1>7. Indexed'
  BY <1>2 DEF JavaInv, Indexed
<1>8. JavaTypeOK'
  BY <1>2 DEF JavaInv, JavaTypeOK, Propose
<1>9. verify'.at = "tree" => ReportFits(verify.source, verify.index)'
  BY <1>2, <1>6 DEF ReportFits, Provable, EditedText
<1> QED
  BY <1>2, <1>3, <1>7, <1>8, <1>9 DEF JavaInv, OnCommit, Analysed, Concluded

(* A step of the run in the worktree that neither applies, nor compares the *)
(* reports, nor concludes.                                                  *)
Forward ==
  /\ Advances /\ UNCHANGED <<javaHead, javaTree>>
  /\ javaWork' = <<>> \/ DOMAIN javaWork' = JavaFiles
  /\ touches' \in 0..MaxTouches
  /\ <<verify.at, verify'.at>> \in
       {<<"noop", "ended">>, <<"tree", "head">>, <<"tree", "ended">>, <<"head", "add">>,
        <<"add", "revalidate">>, <<"add", "capture">>, <<"revalidate", "capture">>,
        <<"materialize", "apply">>, <<"materialize", "capture">>,
        <<"apply", "postwrite">>, <<"apply", "capture">>, <<"postwrite", "capture">>,
        <<"build", "capture">>, <<"capture", "reread">>, <<"reread", "rehead">>}
  /\ verify'.at = "add" => verify'.base \in ProjectTexts

LEMMA ForwardStep == JavaInv /\ Forward => JavaInv'
<1> SUFFICES ASSUME JavaInv, Forward PROVE JavaInv'
  OBVIOUS
<1>1. Indexed'
  BY IndexedStays DEF JavaInv, Forward
<1>2. Analysed'
  BY AnalysedStays DEF JavaInv, Forward
<1>3. JavaTypeOK'
  BY DEF JavaInv, JavaTypeOK, Forward, Advances
<1>4. Concluded' /\ OnCommit'
  BY DEF JavaInv, Concluded, OnCommit, Forward, Advances
<1> QED
  BY <1>1, <1>2, <1>3, <1>4 DEF JavaInv

LEMMA FaultCounts == JavaTypeOK /\ Fault => touches' \in 0..MaxTouches
BY JavaAssumption DEF JavaTypeOK, Fault

LEMMA WorkTyped == JavaTypeOK => (javaWork = <<>> \/ DOMAIN javaWork = JavaFiles) /\ touches \in 0..MaxTouches
BY DEF JavaTypeOK

LEMMA ReadStepsForward ==
  ASSUME JavaInv, NothingToEdit \/ ReadClean \/ ReadHead \/ RereadTree \/ Materialize
  PROVE  Forward
<1>1. CASE NothingToEdit
  <2>1. Advances /\ verify'.at = "ended"
    BY <1>1 DEF JavaInv, Indexed, VerifyFields, NothingToEdit, Advances
  <2> QED
    BY <1>1, <2>1, WorkTyped DEF JavaInv, NothingToEdit, Forward
<1>2. CASE ReadClean
  <2>1. Advances /\ verify'.at \in {"head", "ended"}
    BY <1>2 DEF JavaInv, Indexed, VerifyFields, ReadClean, Advances
  <2> QED
    BY <1>2, <2>1, WorkTyped DEF JavaInv, ReadClean, Forward
<1>3. CASE ReadHead
  <2>1. Advances /\ verify'.at = "add" /\ verify'.base = javaHead
    BY <1>3 DEF JavaInv, Indexed, VerifyFields, ReadHead, Advances
  <2> QED
    BY <1>3, <2>1, WorkTyped DEF JavaInv, JavaTypeOK, ReadHead, Forward
<1>4. CASE RereadTree
  <2>1. Advances /\ verify'.at = "rehead"
    BY <1>4 DEF JavaInv, Indexed, VerifyFields, RereadTree, Advances
  <2> QED
    BY <1>4, <2>1, WorkTyped DEF JavaInv, RereadTree, Forward
<1>5. CASE Materialize
  <2>1. Advances /\ verify'.at \in {"apply", "capture"}
    BY <1>5 DEF JavaInv, Indexed, VerifyFields, Materialize, FailEdits, Advances
  <2> QED
    BY <1>5, <2>1, WorkTyped DEF JavaInv, Materialize, Forward
<1> QED
  BY <1>1, <1>2, <1>3, <1>4, <1>5

LEMMA WriteStepsForward ==
  ASSUME JavaInv, AddWorktree \/ ApplyEdits \/ BuildProject \/ CaptureWork
  PROVE  Forward
<1>1. CASE AddWorktree
  <2>1. Advances /\ verify'.at \in {"revalidate", "capture"}
    BY <1>1 DEF JavaInv, Indexed, VerifyFields, AddWorktree, FailRun, Advances
  <2>2. touches' \in 0..MaxTouches
    BY <1>1, FaultCounts, WorkTyped DEF JavaInv, AddWorktree
  <2>3. javaWork' = <<>> \/ DOMAIN javaWork' = JavaFiles
    BY <1>1, WorkTyped DEF JavaInv, OnCommit, AddWorktree, ProjectTexts
  <2> QED
    BY <1>1, <2>1, <2>2, <2>3 DEF AddWorktree, Forward
<1>2. CASE ApplyEdits
  <2>1. Advances /\ verify'.at \in {"postwrite", "capture"}
    BY <1>2 DEF JavaInv, Indexed, VerifyFields, ApplyEdits, FailRun, Advances
  <2>2. touches' \in 0..MaxTouches
    BY <1>2, FaultCounts, WorkTyped DEF JavaInv, ApplyEdits
  <2>3. javaWork' = <<>> \/ DOMAIN javaWork' = JavaFiles
    BY <1>2, WorkTyped DEF JavaInv, ApplyEdits
  <2> QED
    BY <1>2, <2>1, <2>2, <2>3 DEF ApplyEdits, Forward
<1>3. CASE BuildProject
  <2>1. Advances /\ verify'.at = "capture"
    BY <1>3 DEF JavaInv, Indexed, VerifyFields, BuildProject, FailRun, Advances
  <2>2. touches' \in 0..MaxTouches
    BY <1>3, FaultCounts, WorkTyped DEF JavaInv, BuildProject
  <2> QED
    BY <1>3, <2>1, <2>2, WorkTyped DEF JavaInv, BuildProject, Forward
<1>4. CASE CaptureWork
  <2>1. Advances /\ verify'.at = "reread"
    BY <1>4 DEF JavaInv, Indexed, VerifyFields, CaptureWork, Advances
  <2>2. touches' \in 0..MaxTouches
    BY <1>4, FaultCounts, WorkTyped DEF JavaInv, CaptureWork
  <2> QED
    BY <1>4, <2>1, <2>2 DEF CaptureWork, Forward
<1> QED
  BY <1>1, <1>2, <1>3, <1>4

(* The one step that takes a report over: it is the report of the source.   *)
LEMMA RevalidateEditsStep == JavaInv /\ RevalidateEdits => JavaInv'
<1> SUFFICES ASSUME JavaInv, RevalidateEdits PROVE JavaInv'
  OBVIOUS
<1>1. PICK again :
        IF ContractMatches(again)
        THEN verify' = [verify EXCEPT !.again = again, !.at = "materialize"]
        ELSE FailEdits("RevalidationFailed")
  BY DEF RevalidateEdits
<1>2. CASE ~ContractMatches(again)
  <2>1. Advances /\ verify'.at = "capture"
    BY <1>1, <1>2 DEF JavaInv, Indexed, VerifyFields, RevalidateEdits, FailEdits, Advances
  <2>2. Forward
    BY <2>1, WorkTyped DEF JavaInv, RevalidateEdits, Forward
  <2> QED
    BY <2>2, ForwardStep
<1>3. CASE ContractMatches(again)
  <2>1. again = verify.source /\ ReportFits(verify.source, verify.index)
    BY <1>3 DEF ContractMatches, JavaInv, Analysed, RevalidateEdits
  <2>2. /\ DOMAIN verify' = VerifyFields /\ verify'.index = verify.index
        /\ verify'.again = verify.source /\ verify'.at = "materialize"
        /\ verify'.postWrite = verify.postWrite
    BY <1>1, <1>3, <2>1 DEF JavaInv, Indexed, VerifyFields
  <2>3. verify.postWrite = FALSE
    BY DEF JavaInv, Concluded, RevalidateEdits
  <2>4. ReportFits(verify.again, verify.index)'
    BY <2>1, <2>2 DEF ReportFits, Provable, EditedText
  <2>5. JavaTypeOK'
    BY <2>1, <2>2 DEF JavaInv, JavaTypeOK, RevalidateEdits, ReportFits
  <2>6. Indexed'
    BY <2>2 DEF JavaInv, Indexed
  <2> QED
    BY <2>2, <2>3, <2>4, <2>5, <2>6 DEF JavaInv, Analysed, Concluded, OnCommit
<1> QED
  BY <1>2, <1>3

LEMMA PostWriteStep == JavaInv /\ PostWrite => JavaInv'
<1> SUFFICES ASSUME JavaInv, PostWrite PROVE JavaInv'
  OBVIOUS
<1>1. CASE FailEdits("PostWriteValidationFailed")
  <2>1. Advances /\ verify'.at = "capture"
    BY <1>1 DEF JavaInv, Indexed, VerifyFields, PostWrite, FailEdits, Advances
  <2>2. Forward
    BY <2>1, WorkTyped DEF JavaInv, PostWrite, Forward
  <2> QED
    BY <2>2, ForwardStep
<1>2. CASE verify' = [verify EXCEPT !.postWrite = TRUE, !.at = "build"]
  <2>1. /\ DOMAIN verify' = VerifyFields /\ verify'.index = verify.index
        /\ verify'.again = verify.again /\ verify'.at = "build" /\ verify'.postWrite = TRUE
    BY <1>2 DEF JavaInv, Indexed, VerifyFields
  <2>2. ReportFits(verify.again, verify.index)'
    BY <2>1 DEF JavaInv, Analysed, PostWrite, ReportFits, Provable, EditedText
  <2>3. JavaTypeOK' /\ Indexed'
    BY <2>1 DEF JavaInv, JavaTypeOK, PostWrite, Indexed
  <2> QED
    BY <2>1, <2>2, <2>3 DEF JavaInv, Analysed, Concluded, OnCommit
<1> QED
  BY <1>1, <1>2 DEF PostWrite

LEMMA RereadHeadStep == JavaInv /\ RereadHead => JavaInv'
<1> SUFFICES ASSUME JavaInv, RereadHead PROVE JavaInv'
  OBVIOUS
<1>1. PICK worktree : verify' = [verify EXCEPT !.worktree = worktree,
                                   !.status = DeriveStatus(worktree), !.at = "ended"]
  BY DEF RereadHead
<1>2. PICK status : status = DeriveStatus(worktree)
  OBVIOUS
<1>3. verify' = [verify EXCEPT !.worktree = worktree, !.status = status, !.at = "ended"]
  BY <1>1, <1>2
<1>4. /\ Advances /\ verify'.at = "ended"
      /\ verify'.worktree = worktree /\ verify'.status = status
      /\ verify'.after = verify.after /\ verify'.base = verify.base
      /\ verify'.failed = verify.failed
  BY <1>3 DEF JavaInv, Indexed, VerifyFields, RereadHead, Advances
<1>5. Indexed' /\ Analysed'
  BY <1>4, IndexedStays, AnalysedStays DEF JavaInv
<1>6. JavaTypeOK'
  BY <1>4 DEF JavaInv, JavaTypeOK, RereadHead, Advances
<1>7. FinalGitState' <=> FinalGitState
  BY <1>4 DEF FinalGitState, EditedFiles, Advances
<1>8. verify'.status = DeriveStatus(verify.worktree)'
  BY <1>2, <1>4, <1>7 DEF DeriveStatus, Advances
<1>9. Concluded' /\ OnCommit'
  BY <1>4, <1>8 DEF JavaInv, Concluded, OnCommit, Advances
<1> QED
  BY <1>5, <1>6, <1>9 DEF JavaInv

LEMMA UserWritesStep == JavaInv /\ UserWrites => JavaInv'
<1> SUFFICES ASSUME JavaInv, UserWrites PROVE JavaInv'
  OBVIOUS
<1>1. verify' = verify /\ touches' \in 0..MaxTouches
  BY FaultCounts DEF JavaInv, UserWrites
<1>2. {javaHead', javaTree'} \subseteq ProjectTexts
  BY DEF JavaInv, JavaTypeOK, UserWrites, ProjectTexts
<1>3. javaWork' = <<>> \/ DOMAIN javaWork' = JavaFiles
  BY WorkTyped DEF JavaInv, UserWrites
<1>4. JavaTypeOK'
  BY <1>1, <1>2, <1>3 DEF JavaInv, JavaTypeOK
<1>5. Indexed' /\ OnCommit'
  BY <1>1 DEF JavaInv, Indexed, OnCommit
<1>6. Analysed'
  BY <1>1 DEF JavaInv, Analysed, ReportFits, Provable, EditedText
<1>7. Concluded'
  BY <1>1 DEF JavaInv, Concluded, DeriveStatus, FinalGitState, EditedFiles
<1> QED
  BY <1>4, <1>5, <1>6, <1>7 DEF JavaInv

LEMMA JavaInvKept == JavaInv /\ [JavaNext]_javaVars => JavaInv'
<1> SUFFICES ASSUME JavaInv, [JavaNext]_javaVars PROVE JavaInv'
  OBVIOUS
<1>1. CASE NothingToEdit \/ ReadClean \/ ReadHead \/ RereadTree \/ Materialize
  BY <1>1, ReadStepsForward, ForwardStep
<1>2. CASE AddWorktree \/ ApplyEdits \/ BuildProject \/ CaptureWork
  BY <1>2, WriteStepsForward, ForwardStep
<1>3. CASE UNCHANGED javaVars
  <2>1. UNCHANGED <<javaHead, javaTree, javaWork, verify, touches>>
    BY <1>3 DEF javaVars
  <2> QED
    BY <2>1 DEF JavaInv, JavaTypeOK, Indexed, OnCommit, Analysed, Concluded, DeriveStatus,
           FinalGitState, EditedFiles, ReportFits, Provable, EditedText
<1> QED
  BY <1>1, <1>2, <1>3, IndexFileStep, SnapshotFileStep, ProposeStep, RevalidateEditsStep,
     PostWriteStep, RereadHeadStep, UserWritesStep DEF JavaNext

(* A verification of Java edits that reports success left in its worktree   *)
(* the text it analysed with every provable member renamed, and the         *)
(* committed text elsewhere: for any number of files, any texts, and any    *)
(* number of writes by the user and the build between the steps             *)
(* (java_edit_worktree.rs, java_edits/).                                    *)
THEOREM EditsAreVerifiedHolds == JavaSpec => []EditsAreVerified
<1>1. JavaInit => JavaInv
  BY JavaInvInitially
<1>2. JavaInv /\ [JavaNext]_javaVars => JavaInv'
  BY JavaInvKept
<1>3. JavaInv => EditsAreVerified
  BY JavaInvGives
<1> QED
  BY <1>1, <1>2, <1>3, PTL DEF JavaSpec

-----------------------------------------------------------------------------
(* ChatSession.  A nonempty set of numbers has a least element, which       *)
(* CHOOSE finds.                                                            *)
LEMMA LeastPlace ==
  ASSUME NEW P, P \subseteq Nat, P # {}
  PROVE  (CHOOSE i \in P : \A j \in P : i <= j) \in P
<1> DEFINE R == OpToRel(<, Nat)
<1>1. \E i \in P : \A j \in P : ~(<<j, i>> \in R)
  BY NatLessThanWellFounded, WFMin
<1>2. \A i, j \in P : j < i => <<j, i>> \in R
  BY DEF OpToRel
<1> HIDE DEF R
<1>3. PICK i \in P : \A j \in P : ~(j < i)
  BY <1>1, <1>2
<1>4. \A j \in P : i <= j
  BY <1>3
<1> QED
  BY <1>4

(* Operators on sequences that the session store uses.                      *)
LEMMA BoundedSeqs ==
  ASSUME NEW S, NEW n \in Nat, NEW s
  PROVE  s \in BoundedSeq(S, n) <=> s \in Seq(S) /\ Len(s) <= n
<1>1. ASSUME s \in BoundedSeq(S, n)
      PROVE  s \in Seq(S) /\ Len(s) <= n
  <2>1. PICK m \in 0..n : s \in [1..m -> S]
    BY <1>1 DEF BoundedSeq, SeqOf
  <2> QED
    BY <2>1
<1>2. ASSUME s \in Seq(S), Len(s) <= n
      PROVE  s \in BoundedSeq(S, n)
  <2>1. PICK m \in Nat : m = Len(s)
    BY <1>2
  <2>2. s \in [1..m -> S]
    BY <1>2, <2>1
  <2>3. m \in 0..n
    BY <1>2, <2>1
  <2> QED
    BY <2>2, <2>3 DEF BoundedSeq, SeqOf
<1> QED
  BY <1>1, <1>2

(* A part of a sequence.                                                    *)
LEMMA PartOfSeq ==
  ASSUME NEW S, NEW s \in Seq(S), NEW a \in 1..(Len(s) + 1), NEW b \in 0..Len(s)
  PROVE  /\ SubSeq(s, a, b) \in Seq(S)
         /\ Len(SubSeq(s, a, b)) = IF a <= b THEN b - a + 1 ELSE 0
         /\ \A i \in 1..Len(SubSeq(s, a, b)) :
              /\ i + a - 1 \in 1..Len(s)
              /\ SubSeq(s, a, b)[i] = s[i + a - 1]
<1>1. PICK n \in Nat : n = Len(s)
  OBVIOUS
<1>2. a \in Int /\ b \in Int /\ 1 <= a /\ a <= n + 1 /\ b <= n /\ 0 <= b
  BY <1>1
<1>3. \A i \in a..b : s[i] \in S
  BY <1>1, <1>2
<1>4. /\ SubSeq(s, a, b) \in Seq(S)
      /\ Len(SubSeq(s, a, b)) = IF a <= b THEN b - a + 1 ELSE 0
      /\ \A i \in 1..(b - a + 1) : SubSeq(s, a, b)[i] = s[a + i - 1]
  BY <1>2, <1>3, SubSeqProperties
<1>5. ASSUME NEW i \in 1..Len(SubSeq(s, a, b))
      PROVE  i + a - 1 \in 1..Len(s) /\ SubSeq(s, a, b)[i] = s[i + a - 1]
  <2>1. a <= b /\ i \in 1..(b - a + 1)
    BY <1>2, <1>4
  <2>2. i + a - 1 \in 1..n /\ a + i - 1 = i + a - 1
    BY <1>2, <2>1
  <2> QED
    BY <1>1, <1>4, <2>1, <2>2
<1> QED
  BY <1>4, <1>5

LEMMA RemoveAtProperties ==
  ASSUME NEW S, NEW s \in Seq(S), NEW i \in 1..Len(s)
  PROVE  /\ RemoveAt(s, i) \in Seq(S)
         /\ Len(RemoveAt(s, i)) = Len(s) - 1
         /\ \A j \in 1..(Len(s) - 1) : RemoveAt(s, i)[j] = s[IF j < i THEN j ELSE j + 1]
<1>1. PICK n \in Nat : n = Len(s)
  OBVIOUS
<1>2. i \in 1..n /\ n - 1 \in Nat
  BY <1>1
<1>3. PICK p : p = SubSeq(s, 1, i - 1)
  OBVIOUS
<1>4. PICK q : q = SubSeq(s, i + 1, n)
  OBVIOUS
<1>5. /\ p \in Seq(S) /\ Len(p) = i - 1
      /\ \A j \in 1..(i - 1) : p[j] = s[j]
  <2>1. \A j \in 1..(i - 1) : s[j] \in S
    BY <1>1, <1>2
  <2>2. /\ p \in Seq(S)
        /\ Len(p) = IF 1 <= i - 1 THEN i - 1 - 1 + 1 ELSE 0
        /\ \A j \in 1..(i - 1 - 1 + 1) : p[j] = s[1 + j - 1]
    BY <1>2, <1>3, <2>1, SubSeqProperties
  <2> QED
    BY <1>2, <2>2
<1>6. /\ q \in Seq(S) /\ Len(q) = n - i
      /\ \A j \in 1..(n - i) : q[j] = s[i + j]
  <2>1. \A j \in (i + 1)..n : s[j] \in S
    BY <1>1, <1>2
  <2>2. /\ q \in Seq(S)
        /\ Len(q) = IF i + 1 <= n THEN n - (i + 1) + 1 ELSE 0
        /\ \A j \in 1..(n - (i + 1) + 1) : q[j] = s[i + 1 + j - 1]
    BY <1>2, <1>4, <2>1, SubSeqProperties
  <2> QED
    BY <1>2, <2>2
<1>7. RemoveAt(s, i) = p \o q
  BY <1>1, <1>3, <1>4 DEF RemoveAt
<1>8. /\ p \o q \in Seq(S) /\ Len(p \o q) = Len(p) + Len(q)
      /\ \A j \in 1..(Len(p) + Len(q)) : (p \o q)[j] = IF j <= Len(p) THEN p[j] ELSE q[j - Len(p)]
  BY <1>5, <1>6, ConcatProperties
<1>9. Len(p \o q) = n - 1 /\ Len(p) + Len(q) = n - 1
  BY <1>2, <1>5, <1>6, <1>8
<1>10. ASSUME NEW j \in 1..(n - 1)
       PROVE  (p \o q)[j] = s[IF j < i THEN j ELSE j + 1]
  <2>1. (p \o q)[j] = IF j <= i - 1 THEN p[j] ELSE q[j - (i - 1)]
    BY <1>5, <1>8, <1>9
  <2>2. CASE j < i
    BY <1>2, <1>5, <2>1, <2>2
  <2>3. CASE ~(j < i)
    <3>1. j - (i - 1) \in 1..(n - i) /\ i + (j - (i - 1)) = j + 1
      BY <1>2, <2>3
    <3>2. q[j - (i - 1)] = s[j + 1]
      BY <1>6, <3>1
    <3> QED
      BY <1>2, <2>1, <2>3, <3>2
  <2> QED
    BY <2>2, <2>3
<1> QED
  BY <1>1, <1>7, <1>8, <1>9, <1>10

(* The greatest place of a sequence with a property, which CHOOSE finds.    *)
LEMMA GreatestPlace ==
  ASSUME NEW n \in Nat, NEW P, P \subseteq 1..n, P # {}
  PROVE  (CHOOSE i \in P : \A j \in P : j <= i) \in P
<1> DEFINE M == {n - i : i \in P}
<1>0. \A i \in P : n - i \in Nat
  OBVIOUS
<1>1. M \subseteq Nat /\ M # {}
  BY <1>0, Zenon
<1> DEFINE R == OpToRel(<, Nat)
<1>2. \E m \in M : \A k \in M : ~(<<k, m>> \in R)
  BY <1>1, NatLessThanWellFounded, WFMin
<1>3. \A k, m \in M : k < m => <<k, m>> \in R
  BY <1>1 DEF OpToRel
<1> HIDE DEF R
<1>4. PICK m \in M : \A k \in M : ~(k < m)
  BY <1>2, <1>3
<1>5. PICK i \in P : m = n - i
  OBVIOUS
<1>6. \A j \in P : j <= i
  <2> TAKE j \in P
  <2>1. ~(n - j < n - i)
    BY <1>4, <1>5
  <2> QED
    BY <2>1
<1> QED
  BY <1>6

(* RemoveFirstMatch and RemoveFirst, as the store uses them: the list, or   *)
(* the list without one place that holds the key.                           *)
LEMMA WithoutKey ==
  ASSUME NEW S, NEW list \in Seq(S), NEW key
  PROVE  \/ Without(list, key) = list /\ \A i \in 1..Len(list) : list[i].id # key
         \/ \E i \in 1..Len(list) : list[i].id = key /\ Without(list, key) = RemoveAt(list, i)
<1> DEFINE places == {i \in 1..Len(list) : list[i].id = key}
<1>1. CASE places = {}
  BY <1>1 DEF Without, RemoveFirstMatch
<1>2. CASE places # {}
  <2>1. Min(places) \in places
    <3>1. places \subseteq Nat
      OBVIOUS
    <3> QED
      BY <1>2, <3>1, LeastPlace DEF Min
  <2>2. Without(list, key) = RemoveAt(list, Min(places))
    BY <1>2 DEF Without, RemoveFirstMatch, SelectInSeq
  <2> QED
    BY <2>1, <2>2
<1> QED
  BY <1>1, <1>2

LEMMA WithoutElement ==
  ASSUME NEW S, NEW list \in Seq(S), NEW e
  PROVE  \/ RemoveFirst(list, e) = list
         \/ \E i \in 1..Len(list) : RemoveFirst(list, e) = RemoveAt(list, i)
<1> DEFINE places == {i \in 1..Len(list) : list[i] = e}
<1>1. CASE places = {}
  BY <1>1 DEF RemoveFirst
<1>2. CASE places # {}
  <2>1. Min(places) \in places
    <3>1. places \subseteq Nat
      OBVIOUS
    <3> QED
      BY <1>2, <3>1, LeastPlace DEF Min
  <2>2. RemoveFirst(list, e) = RemoveAt(list, Min(places))
    BY <1>2 DEF RemoveFirst, SelectInSeq
  <2> QED
    BY <2>1, <2>2
<1> QED
  BY <1>1, <1>2

-----------------------------------------------------------------------------
(* A turn is known from the moment its handler starts; what a thread has    *)
(* used of a session is a pair of its name and an epoch.                    *)
Opened(t) == Len(chat[t]) + (IF In(t, "idle") THEN 0 ELSE 1)
KnownTurn(y) == y \in Turns /\ y[2] <= Opened(y[1])

Active(t) == talk[t].stage \in {"running", "answered", "storing"}

UsedBy(t, y, k) ==
  \/ Active(t) /\ talk[t].session = y /\ talk[t].epoch = k
  \/ \E u \in Range(chat[t]) : u.session = y /\ u.epoch = k

Used(y, k) == \E t \in Threads : UsedBy(t, y, k)

Stored == Range(sessions) \union Range(memento.list) \union Range(disk.list)

SessionLists == {l \in BoundedSeq(Sessions, MaxSessions) :
                   \A i, j \in DOMAIN l : l[i].id = l[j].id => i = j}

Mementos == [epoch : Nat, list : SessionLists]

TurnEntries ==
  {u \in [run : Turns, session : Turns \union {NoSession}, epoch : Nat \union {NoSession}] :
     u.epoch \in Nat => u.session \in Turns}

Handlers ==
  {h \in [stage : {"idle", "running", "answered", "storing"},
          run : Turns \union {NoSession}, epoch : Nat, session : Turns \union {NoSession},
          stored : Sessions \union {NoSession}, history : Seq(TurnEntries)] :
     h.stage # "idle" => h.session \in Turns}

SessionTypes ==
  /\ sessions \in SessionLists
  /\ memento \in Mementos /\ disk \in Mementos
  /\ disk.epoch <= memento.epoch /\ memento.epoch <= counts.clears
  /\ chat \in [Threads -> Seq(TurnEntries)]
  /\ talk \in [Threads -> Handlers]
  /\ clear \in [stage : {"idle", "epoch", "list"}, begun : SUBSET Turns]
  /\ forgotten \subseteq Turns
  /\ counts \in [clears : 0..MaxClears, reloads : 0..MaxReloads, unsaved : BOOLEAN]

(* Runs are named by their place, and a request holds turns of its thread.  *)
Placed ==
  \A t \in Threads :
    /\ \A i \in DOMAIN chat[t] : chat[t][i].run = <<t, i>>
    /\ Active(t) => Len(chat[t]) < MaxTurns /\ talk[t].run = <<t, Len(chat[t]) + 1>>
    /\ talk[t].history \in BoundedSeq(Range(chat[t]), MaxHistory)

(* Everything that is stored, used or cleared is of a turn that has begun,  *)
(* and a session is used in one epoch only.                                 *)
OfKnownTurns ==
  /\ \A s \in Stored : KnownTurn(s.id)
  /\ \A y \in forgotten \union clear.begun : KnownTurn(y)
  /\ \A y, k : Used(y, k) /\ k \in Nat => KnownTurn(y)
  /\ \A y, k, m : Used(y, k) /\ Used(y, m) /\ {k, m} \subseteq Nat => k = m

Sendable(s) == Range(s.runs) \intersect forgotten = {} /\ s.repositoryState \notin forgotten
Untouched(s) == Range(s.runs) \intersect clear.begun = {} /\ s.repositoryState \notin clear.begun

(* A session that an epoch the disk has not left behind may use holds       *)
(* nothing of the last clear; one of the epoch the memento names holds      *)
(* nothing of the clear that is under way.                                  *)
ClearedLists ==
  \A k \in Nat :
    /\ k >= disk.epoch => \A s \in Stored : Used(s.id, k) => Sendable(s)
    /\ k >= memento.epoch => \A s \in Range(sessions) : Used(s.id, k) => Untouched(s)
    /\ k >= memento.epoch /\ clear.stage = "list" =>
         \A s \in Range(memento.list) : Used(s.id, k) => Untouched(s)

(* The same of what a handler read before it awaited the runtime.           *)
ClearedHandlers ==
  \A t \in Threads : Active(t) =>
    /\ talk[t].epoch <= memento.epoch
    /\ talk[t].epoch >= disk.epoch =>
         /\ talk[t].run \notin forgotten
         /\ talk[t].stored # NoSession => Sendable(talk[t].stored)
    /\ talk[t].epoch = memento.epoch =>
         /\ talk[t].run \notin clear.begun
         /\ talk[t].stored # NoSession => Untouched(talk[t].stored)

(* No update was lost: the disk is behind only while somebody is storing.   *)
Saving ==
  ~counts.unsaved =>
    /\ clear.stage # "epoch" => memento.list = sessions
    /\ (\A t \in Threads : ~In(t, "storing")) /\ clear.stage = "idle" => disk = memento

SessionInv == SessionTypes /\ Placed /\ OfKnownTurns /\ ClearedLists /\ ClearedHandlers /\ Saving

-----------------------------------------------------------------------------
(* The store keeps a bounded list with every session once.                  *)
LEMMA SessionListSeq ==
  ASSUME NEW l
  PROVE  l \in SessionLists <=> /\ l \in Seq(Sessions) /\ Len(l) <= MaxSessions
                                /\ \A i, j \in 1..Len(l) : l[i].id = l[j].id => i = j
<1>1. MaxSessions \in Nat
  BY SessionAssumption
<1>2. l \in BoundedSeq(Sessions, MaxSessions) <=> l \in Seq(Sessions) /\ Len(l) <= MaxSessions
  BY <1>1, BoundedSeqs
<1>3. l \in Seq(Sessions) => DOMAIN l = 1..Len(l)
  OBVIOUS
<1> QED
  BY <1>2, <1>3 DEF SessionLists

LEMMA LatestSessions ==
  ASSUME NEW all \in Seq(Sessions),
         \A i, j \in 1..Len(all) : all[i].id = all[j].id => i = j
  PROVE  LET kept == SubSeq(all, IF Len(all) > MaxSessions THEN Len(all) - MaxSessions + 1 ELSE 1,
                            Len(all))
         IN kept \in SessionLists /\ Range(kept) \subseteq Range(all)
<1>1. PICK n \in Nat : n = Len(all)
  OBVIOUS
<1>2. PICK m \in Nat : m = MaxSessions /\ m > 0
  BY SessionAssumption
<1>3. PICK a : a = IF n > m THEN n - m + 1 ELSE 1
  OBVIOUS
<1>4. a \in 1..(n + 1) /\ n \in 0..n /\ (IF a <= n THEN n - a + 1 ELSE 0) <= m
  BY <1>2, <1>3
<1>5. PICK kept : kept = SubSeq(all, a, n)
  OBVIOUS
<1>6. /\ kept \in Seq(Sessions) /\ Len(kept) <= m
      /\ \A i \in 1..Len(kept) : i + a - 1 \in 1..n /\ kept[i] = all[i + a - 1]
  BY <1>1, <1>4, <1>5, PartOfSeq
<1>7. PICK k \in Nat : k = Len(kept)
  BY <1>6
<1>8. ASSUME NEW i \in 1..k, NEW j \in 1..k, kept[i].id = kept[j].id
      PROVE  i = j
  <2>1. i + a - 1 = j + a - 1
    BY <1>1, <1>6, <1>7, <1>8
  <2>2. i \in Int /\ j \in Int /\ a \in Int
    BY <1>4
  <2> QED
    BY <2>1, <2>2
<1>9. kept \in SessionLists
  BY <1>2, <1>6, <1>7, <1>8, SessionListSeq
<1>10. Range(kept) \subseteq Range(all)
  <2>1. DOMAIN kept = 1..Len(kept) /\ DOMAIN all = 1..n
    BY <1>1, <1>6
  <2> QED
    BY <1>6, <2>1 DEF Range
<1> QED
  BY <1>1, <1>2, <1>3, <1>5, <1>9, <1>10

LEMMA RetainedList ==
  ASSUME NEW list \in SessionLists, NEW entry \in Sessions
  PROVE  /\ Retained(list, entry) \in SessionLists
         /\ Range(Retained(list, entry)) \subseteq Range(list) \union {entry}
<1>1. /\ list \in Seq(Sessions)
      /\ \A i, j \in 1..Len(list) : list[i].id = list[j].id => i = j
  BY SessionListSeq
<1>2. PICK n \in Nat : n = Len(list)
  BY <1>1
<1>3. PICK others : others = Without(list, entry.id)
  OBVIOUS
<1>4. /\ others \in Seq(Sessions)
      /\ \A i, j \in 1..Len(others) : others[i].id = others[j].id => i = j
      /\ \A i \in 1..Len(others) : others[i].id # entry.id
      /\ Range(others) \subseteq Range(list)
  <2>1. CASE others = list /\ \A i \in 1..Len(list) : list[i].id # entry.id
    BY <1>1, <2>1
  <2>2. CASE \E i \in 1..Len(list) : list[i].id = entry.id /\ others = RemoveAt(list, i)
    <3>1. PICK i \in 1..n : list[i].id = entry.id /\ others = RemoveAt(list, i)
      BY <1>2, <2>2
    <3>2. /\ others \in Seq(Sessions) /\ Len(others) = n - 1
          /\ \A j \in 1..(n - 1) : others[j] = list[IF j < i THEN j ELSE j + 1]
      BY <1>1, <1>2, <3>1, RemoveAtProperties
    <3>3. \A j \in 1..(n - 1) :
            LET p == IF j < i THEN j ELSE j + 1
            IN p \in 1..n /\ p # i /\ others[j] = list[p]
      BY <3>2
    <3>4. \A j, k \in 1..(n - 1) : others[j].id = others[k].id => j = k
      <4> SUFFICES ASSUME NEW j \in 1..(n - 1), NEW k \in 1..(n - 1), others[j].id = others[k].id
                   PROVE  j = k
        OBVIOUS
      <4>1. (IF j < i THEN j ELSE j + 1) = (IF k < i THEN k ELSE k + 1)
        BY <1>1, <1>2, <3>3
      <4> QED
        BY <4>1
    <3>5. \A j \in 1..(n - 1) : others[j].id # entry.id
      BY <1>1, <1>2, <3>1, <3>3
    <3>6. Range(others) \subseteq Range(list)
      <4>1. DOMAIN others = 1..(n - 1) /\ DOMAIN list = 1..n
        BY <1>1, <1>2, <3>2
      <4> QED
        BY <3>3, <4>1 DEF Range
    <3> QED
      BY <3>2, <3>4, <3>5, <3>6
  <2> QED
    BY <1>1, <1>3, <2>1, <2>2, WithoutKey
<1>5. PICK m \in Nat : m = Len(others)
  BY <1>4
<1>6. PICK all : all = Append(others, entry)
  OBVIOUS
<1>7. /\ all \in Seq(Sessions) /\ Len(all) = m + 1
      /\ \A i \in 1..m : all[i] = others[i]
      /\ all[m + 1] = entry
  BY <1>4, <1>5, <1>6, AppendProperties
<1>8. \A i, j \in 1..(m + 1) : all[i].id = all[j].id => i = j
  <2> SUFFICES ASSUME NEW i \in 1..(m + 1), NEW j \in 1..(m + 1), all[i].id = all[j].id
               PROVE  i = j
    OBVIOUS
  <2>1. (i \in 1..m \/ i = m + 1) /\ (j \in 1..m \/ j = m + 1)
    OBVIOUS
  <2> QED
    BY <1>4, <1>5, <1>7, <2>1
<1>9. Range(all) \subseteq Range(others) \union {entry}
  <2>1. DOMAIN all = 1..(m + 1) /\ DOMAIN others = 1..m
    BY <1>4, <1>5, <1>7
  <2>2. \A i \in 1..(m + 1) : i \in 1..m \/ i = m + 1
    OBVIOUS
  <2> QED
    BY <1>7, <2>1, <2>2 DEF Range
<1>10. Retained(list, entry) =
         SubSeq(all, IF Len(all) > MaxSessions THEN Len(all) - MaxSessions + 1 ELSE 1, Len(all))
  BY <1>3, <1>6 DEF Retained
<1>11. Retained(list, entry) \in SessionLists /\ Range(Retained(list, entry)) \subseteq Range(all)
  BY <1>7, <1>8, <1>10, LatestSessions
<1> QED
  BY <1>4, <1>9, <1>11

LEMMA RecentRunsBounded ==
  ASSUME NEW run \in Turns, NEW stored \in Sessions \union {NoSession}
  PROVE  /\ RecentRuns(run, stored) \in BoundedSeq(Turns, MaxRuns)
         /\ Range(RecentRuns(run, stored)) \subseteq
              {run} \union (IF stored = NoSession THEN {} ELSE Range(stored.runs))
<1>1. PICK m \in Nat : m = MaxRuns /\ m > 0
  BY SessionAssumption
<1>2. PICK known : known = IF stored = NoSession THEN {} ELSE Range(stored.runs)
  OBVIOUS
<1>3. PICK older : older = IF stored = NoSession THEN <<>> ELSE RemoveFirst(stored.runs, run)
  OBVIOUS
<1>4. older \in Seq(Turns) /\ \A i \in 1..Len(older) : older[i] \in known
  <2>1. CASE stored = NoSession
    BY <1>3, <2>1
  <2>2. CASE stored # NoSession
    <3>1. stored.runs \in BoundedSeq(Turns, MaxRuns)
      BY <2>2 DEF Sessions
    <3>2. PICK runs \in Seq(Turns) : runs = stored.runs
      BY <1>1, <3>1, BoundedSeqs
    <3>3. \A i \in 1..Len(runs) : runs[i] \in known
      BY <1>2, <2>2, <3>2 DEF Range
    <3>4. CASE older = runs
      BY <3>2, <3>3, <3>4
    <3>5. CASE \E i \in 1..Len(runs) : older = RemoveAt(runs, i)
      <4>1. PICK n \in Nat : n = Len(runs)
        BY <3>2
      <4>2. PICK i \in 1..n : older = RemoveAt(runs, i)
        BY <3>5, <4>1
      <4>3. /\ older \in Seq(Turns) /\ Len(older) = n - 1
            /\ \A j \in 1..(n - 1) : older[j] = runs[IF j < i THEN j ELSE j + 1]
        BY <3>2, <4>1, <4>2, RemoveAtProperties
      <4>4. \A j \in 1..(n - 1) : (IF j < i THEN j ELSE j + 1) \in 1..n
        OBVIOUS
      <4> QED
        BY <3>3, <4>1, <4>3, <4>4
    <3> QED
      BY <1>3, <2>2, <3>2, <3>4, <3>5, WithoutElement
  <2> QED
    BY <2>1, <2>2
<1>5. PICK k \in Nat : k = Len(older)
  BY <1>4
<1>6. PICK all : all = <<run>> \o older
  OBVIOUS
<1>7. /\ all \in Seq(Turns) /\ Len(all) = k + 1
      /\ \A i \in 1..(k + 1) : all[i] \in {run} \union known
  <2>1. <<run>> \in Seq(Turns) /\ Len(<<run>>) = 1 /\ <<run>>[1] = run
    OBVIOUS
  <2>2. /\ all \in Seq(Turns) /\ Len(all) = 1 + k
        /\ \A i \in 1..(1 + k) : all[i] = IF i <= 1 THEN <<run>>[i] ELSE older[i - 1]
    BY <1>4, <1>5, <1>6, <2>1, ConcatProperties
  <2>3. \A i \in 1..(k + 1) : i = 1 \/ (~(i <= 1) /\ i - 1 \in 1..k)
    BY <1>5
  <2> QED
    BY <1>4, <1>5, <2>1, <2>2, <2>3
<1>8. PICK b : b = IF Len(all) > MaxRuns THEN MaxRuns ELSE Len(all)
  OBVIOUS
<1>9. b \in 0..(k + 1) /\ b <= m /\ 1 <= b /\ b \in Nat
  BY <1>1, <1>5, <1>7, <1>8
<1>10. PICK kept : kept = SubSeq(all, 1, b)
  OBVIOUS
<1>11. /\ kept \in Seq(Turns) /\ Len(kept) = b
       /\ \A i \in 1..b : i \in 1..(k + 1) /\ kept[i] = all[i]
  <2>1. 1 \in 1..(k + 2) /\ (IF 1 <= b THEN b - 1 + 1 ELSE 0) = b
    BY <1>5, <1>9
  <2>2. /\ kept \in Seq(Turns) /\ Len(kept) = b
        /\ \A i \in 1..b : i + 1 - 1 \in 1..(k + 1) /\ kept[i] = all[i + 1 - 1]
    BY <1>7, <1>9, <1>10, <2>1, PartOfSeq
  <2> QED
    BY <2>2
<1>12. RecentRuns(run, stored) = kept
  BY <1>3, <1>6, <1>8, <1>10 DEF RecentRuns
<1>13. kept \in BoundedSeq(Turns, MaxRuns)
  BY <1>1, <1>9, <1>11, BoundedSeqs
<1>14. Range(kept) \subseteq {run} \union known
  <2>1. DOMAIN kept = 1..b
    BY <1>11
  <2> QED
    BY <1>7, <1>11, <2>1 DEF Range
<1> QED
  BY <1>2, <1>12, <1>13, <1>14

(* What a request takes over from the turns of its thread.                  *)
LEMMA SuffixBounded ==
  ASSUME NEW S, NEW h \in Seq(S), NEW a \in 1..(Len(h) + 1)
  PROVE  /\ SubSeq(h, a, Len(h)) \in Seq(S)
         /\ Range(SubSeq(h, a, Len(h))) \subseteq Range(h)
<1>1. PICK n \in Nat : n = Len(h)
  OBVIOUS
<1>2. PICK kept : kept = SubSeq(h, a, n)
  OBVIOUS
<1>3. /\ kept \in Seq(S)
      /\ \A i \in 1..Len(kept) : i + a - 1 \in 1..n /\ kept[i] = h[i + a - 1]
  BY <1>1, <1>2, PartOfSeq
<1>4. DOMAIN kept = 1..Len(kept) /\ DOMAIN h = 1..n
  BY <1>1, <1>3
<1>5. Range(kept) \subseteq Range(h)
  BY <1>3, <1>4 DEF Range
<1> QED
  BY <1>1, <1>2, <1>3, <1>5

LEMMA HistoryBounded ==
  ASSUME NEW S, NEW h \in Seq(S), NEW epoch
  PROVE  LET sent == BoundChatHistory(HistorySinceContextEpoch(h, epoch))
         IN sent \in Seq(S) /\ sent \in BoundedSeq(Range(h), MaxHistory)
<1>1. PICK n \in Nat : n = Len(h)
  OBVIOUS
<1>2. PICK since : since = HistorySinceContextEpoch(h, epoch)
  OBVIOUS
<1>3. since \in Seq(S) /\ Range(since) \subseteq Range(h)
  <2> DEFINE foreign == {i \in DOMAIN h : h[i].epoch \notin {epoch, NoSession}}
  <2>1. CASE foreign = {}
    BY <1>2, <2>1 DEF HistorySinceContextEpoch
  <2>2. CASE foreign # {}
    <3>1. PICK i : i = CHOOSE p \in foreign : \A j \in foreign : j <= p
      OBVIOUS
    <3>2. foreign \subseteq 1..n
      BY <1>1
    <3>3. i \in foreign
      <4> HIDE DEF foreign
      <4> QED
        BY <2>2, <3>1, <3>2, GreatestPlace
    <3>4. i + 1 \in 1..(n + 1)
      BY <1>1, <3>3
    <3>5. since = SubSeq(h, i + 1, n)
      BY <1>1, <1>2, <2>2, <3>1 DEF HistorySinceContextEpoch
    <3> QED
      BY <1>1, <3>4, <3>5, SuffixBounded
  <2> QED
    BY <2>1, <2>2
<1>4. PICK m \in Nat : m = MaxHistory /\ m > 0
  BY SessionAssumption
<1>5. PICK k \in Nat : k = Len(since)
  BY <1>3
<1>6. PICK a : a = IF k > m THEN k - m + 1 ELSE 1
  OBVIOUS
<1>7. a \in 1..(k + 1) /\ k \in 0..k /\ (IF a <= k THEN k - a + 1 ELSE 0) <= m
  BY <1>4, <1>6
<1>8. PICK sent : sent = SubSeq(since, a, k)
  OBVIOUS
<1>9. sent \in Seq(S) /\ Range(sent) \subseteq Range(since)
  BY <1>3, <1>5, <1>7, <1>8, SuffixBounded
<1>10. Len(sent) <= m
  BY <1>3, <1>5, <1>7, <1>8, PartOfSeq
<1>11. sent \in Seq(Range(h))
  <2>1. DOMAIN sent = 1..Len(sent)
    BY <1>9
  <2>2. \A i \in 1..Len(sent) : sent[i] \in Range(sent)
    BY <2>1 DEF Range
  <2>3. \A i \in 1..Len(sent) : sent[i] \in Range(h)
    BY <1>3, <1>9, <2>2
  <2> QED
    BY <1>9, <2>3
<1>12. sent \in BoundedSeq(Range(h), MaxHistory)
  BY <1>4, <1>10, <1>11, BoundedSeqs
<1> QED
  BY <1>2, <1>4, <1>5, <1>6, <1>8, <1>9, <1>12 DEF BoundChatHistory

(* The session of a thread is one that a turn of the epoch has used.        *)
LEMMA SessionFromHistory ==
  ASSUME NEW S, NEW h \in Seq(S), NEW epoch
  PROVE  LET known == SessionIdFromHistory(h, epoch)
         IN \/ known = NoSession
            \/ \E u \in Range(h) : u.session = known /\ u.epoch = epoch
<1> DEFINE own == {i \in DOMAIN h : h[i].epoch = epoch}
<1>1. CASE own = {}
  BY <1>1 DEF SessionIdFromHistory
<1>2. CASE own # {}
  <2>1. PICK i : i = CHOOSE p \in own : \A j \in own : j <= p
    OBVIOUS
  <2>2. PICK n \in Nat : DOMAIN h = 1..n
    OBVIOUS
  <2>3. i \in own
    <3>1. own \subseteq 1..n
      BY <2>2
    <3> HIDE DEF own
    <3> QED
      BY <1>2, <2>1, <3>1, GreatestPlace
  <2>4. SessionIdFromHistory(h, epoch) = h[i].session
    BY <1>2, <2>1 DEF SessionIdFromHistory
  <2> QED
    BY <2>3, <2>4 DEF Range
<1> QED
  BY <1>1, <1>2

LEMMA StoredSession ==
  ASSUME NEW id, Get(id) # NoSession
  PROVE  Get(id) \in Range(sessions) /\ Get(id).id = id
<1> DEFINE found == {i \in DOMAIN sessions : sessions[i].id = id}
<1>1. found # {}
  BY DEF Get
<1>2. PICK i : i = CHOOSE j \in found : TRUE
  OBVIOUS
<1>3. i \in found /\ Get(id) = sessions[i]
  BY <1>1, <1>2 DEF Get
<1> QED
  BY <1>3 DEF Range

-----------------------------------------------------------------------------
(* Every step but the start of a turn: no thread opens a turn, nothing is   *)
(* used that was not, and a handler that goes on keeps what it has read.    *)
Carries(t) ==
  /\ Active(t)
  /\ talk'[t].run = talk[t].run /\ talk'[t].epoch = talk[t].epoch
  /\ talk'[t].session = talk[t].session /\ talk'[t].stored = talk[t].stored

Recedes ==
  /\ chat' \in [Threads -> Seq(TurnEntries)] /\ talk' \in [Threads -> Handlers]
  /\ Placed'
  /\ \A y, k : k \in Nat /\ Used(y, k)' => Used(y, k)
  /\ \A t \in Threads : Opened(t)' = Opened(t)
  /\ \A t \in Threads : Active(t)' => Carries(t)

LEMMA SessionConstants ==
  /\ MaxSessions \in Nat \ {0} /\ MaxRuns \in Nat \ {0} /\ MaxHistory \in Nat \ {0}
  /\ MaxTurns \in Nat /\ MaxClears \in Nat /\ MaxReloads \in Nat
  /\ NoSession \notin Nat /\ NoSession \notin Turns
BY SessionAssumption DEF Turns

LEMMA QuietHandler ==
  Quiet \in Handlers /\ Quiet.stage = "idle" /\ Quiet.history = <<>> /\ Quiet.stored = NoSession
BY DEF Quiet, Handlers

LEMMA NoHistory ==
  ASSUME NEW S
  PROVE  <<>> \in BoundedSeq(S, MaxHistory)
<1>1. PICK n \in Nat : n = MaxHistory
  BY SessionConstants
<1>2. <<>> \in Seq(S) /\ Len(<<>>) <= n
  BY <1>1
<1> QED
  BY <1>1, <1>2, BoundedSeqs

LEMMA ActiveOrIdle ==
  ASSUME talk \in [Threads -> Handlers], NEW t \in Threads
  PROVE  Active(t) <=> ~In(t, "idle")
<1>1. talk[t] \in Handlers
  OBVIOUS
<1> QED
  BY <1>1 DEF Active, In, Handlers

LEMMA RunIsTurn ==
  ASSUME SessionTypes, Placed, NEW t \in Threads, Active(t)
  PROVE  /\ talk[t].run \in Turns /\ talk[t].run = <<t, Len(chat[t]) + 1>>
         /\ talk[t].session \in Turns /\ talk[t].epoch \in Nat
         /\ talk[t].stored \in Sessions \union {NoSession}
<1>1. talk[t] \in Handlers /\ chat[t] \in Seq(TurnEntries)
  BY DEF SessionTypes
<1>2. PICK n \in Nat : n = Len(chat[t])
  BY <1>1
<1>3. n < MaxTurns /\ talk[t].run = <<t, n + 1>>
  BY <1>2 DEF Placed
<1>4. n + 1 \in 1..MaxTurns
  BY <1>3, SessionConstants
<1> QED
  BY <1>1, <1>2, <1>3, <1>4 DEF Handlers, Active, Turns

LEMMA SameRecedes ==
  ASSUME SessionTypes, Placed, UNCHANGED <<chat, talk>>
  PROVE  Recedes
<1>1. \A y, k : Used(y, k)' => Used(y, k)
  BY DEF Used, UsedBy, Active
<1>2. \A t \in Threads : Opened(t)' = Opened(t)
  BY DEF Opened, In
<1>3. \A t \in Threads : Active(t)' => Carries(t)
  BY DEF Active, Carries
<1>4. Placed'
  BY DEF Placed, Active
<1> QED
  BY <1>1, <1>2, <1>3, <1>4 DEF Recedes, SessionTypes

LEMMA StageRecedes ==
  ASSUME SessionTypes, Placed, NEW t \in Threads, Active(t),
         NEW stage \in {"answered", "storing"},
         talk' = [talk EXCEPT ![t] = [talk[t] EXCEPT !.stage = stage]], chat' = chat
  PROVE  Recedes
<1>1. talk[t] \in Handlers /\ talk \in [Threads -> Handlers]
  BY DEF SessionTypes
<1>2. PICK h : h = [talk[t] EXCEPT !.stage = stage]
  OBVIOUS
<1>3. /\ h.stage = stage /\ h.run = talk[t].run /\ h.epoch = talk[t].epoch
      /\ h.session = talk[t].session /\ h.stored = talk[t].stored /\ h.history = talk[t].history
  BY <1>1, <1>2 DEF Handlers
<1>4. h \in Handlers
  BY <1>1, <1>2, RunIsTurn DEF Handlers
<1>5. /\ talk' \in [Threads -> Handlers] /\ talk'[t] = h
      /\ \A u \in Threads : u # t => talk'[u] = talk[u]
  BY <1>1, <1>2, <1>4
<1>6. \A u \in Threads : Active(u)' => Carries(u)
  BY <1>3, <1>5 DEF Active, Carries
<1>7. \A u \in Threads : Opened(u)' = Opened(u)
  BY <1>3, <1>5 DEF Opened, In, Active
<1>8. \A y, k : Used(y, k)' => Used(y, k)
  <2> SUFFICES ASSUME NEW y, NEW k, NEW u \in Threads, UsedBy(u, y, k)'
               PROVE  UsedBy(u, y, k)
    BY DEF Used
  <2> QED
    BY <1>6 DEF UsedBy, Carries, Active
<1>9. Placed'
  <2> SUFFICES ASSUME NEW u \in Threads
               PROVE  /\ \A i \in DOMAIN chat'[u] : chat'[u][i].run = <<u, i>>
                      /\ Active(u)' => Len(chat'[u]) < MaxTurns /\ talk'[u].run = <<u, Len(chat'[u]) + 1>>
                      /\ talk'[u].history \in BoundedSeq(Range(chat'[u]), MaxHistory)
    BY DEF Placed
  <2>1. talk'[u].history = talk[u].history
    BY <1>3, <1>5
  <2> QED
    BY <1>6, <2>1 DEF Placed, Carries
<1> QED
  BY <1>5, <1>6, <1>7, <1>8, <1>9 DEF Recedes, SessionTypes

(* A turn closed with what its handler had read, or with nothing.           *)
Closes(u, t) ==
  /\ u.run = talk[t].run
  /\ \/ u.session = NoSession /\ u.epoch = NoSession
     \/ u.session = talk[t].session /\ u.epoch = talk[t].epoch

LEMMA ClosedEntry ==
  ASSUME SessionTypes, Placed, NEW t \in Threads, Active(t), NEW session, NEW epoch, NEW u,
         u = [run |-> talk[t].run, session |-> session, epoch |-> epoch],
         \/ session = NoSession /\ epoch = NoSession
         \/ session = talk[t].session /\ epoch = talk[t].epoch
  PROVE  u \in TurnEntries /\ Closes(u, t)
BY RunIsTurn, SessionConstants DEF TurnEntries, Closes

(* Some threads close their turn and are quiet, the others stay.            *)
LEMMA ClosingRecedes ==
  ASSUME SessionTypes, Placed, DOMAIN talk' = Threads, DOMAIN chat' = Threads,
         chat' = [t \in Threads |-> chat'[t]], talk' = [t \in Threads |-> talk'[t]],
         \A t \in Threads :
           \/ talk'[t] = talk[t] /\ chat'[t] = chat[t]
           \/ talk'[t] = Quiet /\ ~Active(t) /\ chat'[t] = chat[t]
           \/ /\ talk'[t] = Quiet /\ Active(t)
              /\ \E u \in TurnEntries : Closes(u, t) /\ chat'[t] = Append(chat[t], u)
  PROVE  Recedes
<1>1. ASSUME NEW t \in Threads
      PROVE  /\ chat'[t] \in Seq(TurnEntries) /\ talk'[t] \in Handlers
             /\ \A y, k : k \in Nat /\ UsedBy(t, y, k)' => UsedBy(t, y, k)
             /\ Opened(t)' = Opened(t)
             /\ Active(t)' => Carries(t)
             /\ \A i \in DOMAIN chat'[t] : chat'[t][i].run = <<t, i>>
             /\ Active(t)' => Len(chat'[t]) < MaxTurns /\ talk'[t].run = <<t, Len(chat'[t]) + 1>>
             /\ talk'[t].history \in BoundedSeq(Range(chat'[t]), MaxHistory)
  <2>1. chat[t] \in Seq(TurnEntries) /\ talk[t] \in Handlers /\ talk \in [Threads -> Handlers]
    BY DEF SessionTypes
  <2>2. CASE talk'[t] = talk[t] /\ chat'[t] = chat[t]
    BY <2>1, <2>2 DEF UsedBy, Active, Opened, In, Carries, Placed
  <2>3. CASE talk'[t] = Quiet /\ ~Active(t) /\ chat'[t] = chat[t]
    <3>1. ~Active(t)' /\ In(t, "idle") /\ In(t, "idle")'
      BY <2>1, <2>3, QuietHandler, ActiveOrIdle DEF Active, In
    <3>2. \A y, k : UsedBy(t, y, k)' => UsedBy(t, y, k)
      BY <2>3, <3>1 DEF UsedBy
    <3>3. Opened(t)' = Opened(t)
      BY <2>3, <3>1 DEF Opened
    <3> QED
      BY <2>1, <2>3, <3>1, <3>2, <3>3, QuietHandler, NoHistory DEF Placed
  <2>4. CASE /\ talk'[t] = Quiet /\ Active(t)
             /\ \E u \in TurnEntries : Closes(u, t) /\ chat'[t] = Append(chat[t], u)
    <3>1. PICK u \in TurnEntries : Closes(u, t) /\ chat'[t] = Append(chat[t], u)
      BY <2>4
    <3>2. PICK n \in Nat : n = Len(chat[t])
      BY <2>1
    <3>3. /\ chat'[t] \in Seq(TurnEntries) /\ Len(chat'[t]) = n + 1
          /\ \A i \in 1..n : chat'[t][i] = chat[t][i]
          /\ chat'[t][n + 1] = u
      BY <2>1, <3>1, <3>2, AppendProperties
    <3>4. DOMAIN chat'[t] = 1..(n + 1) /\ DOMAIN chat[t] = 1..n
      BY <2>1, <3>2, <3>3
    <3>5. \A i \in 1..(n + 1) : i \in 1..n \/ i = n + 1
      OBVIOUS
    <3>6. ~Active(t)' /\ In(t, "idle")' /\ ~In(t, "idle")
      BY <2>1, <2>4, QuietHandler, ActiveOrIdle DEF Active, In
    <3>7. u.run = <<t, n + 1>>
      BY <2>4, <3>1, <3>2, RunIsTurn DEF Closes
    <3>8. \A i \in DOMAIN chat'[t] : chat'[t][i].run = <<t, i>>
      BY <3>3, <3>4, <3>5, <3>7 DEF Placed
    <3>9. ASSUME NEW y, NEW k \in Nat, UsedBy(t, y, k)'
          PROVE  UsedBy(t, y, k)
      <4>1. PICK e \in Range(chat'[t]) : e.session = y /\ e.epoch = k
        BY <3>6, <3>9 DEF UsedBy
      <4>2. PICK i \in 1..(n + 1) : e = chat'[t][i]
        BY <3>4 DEF Range
      <4>3. CASE i \in 1..n
        BY <3>3, <3>4, <4>1, <4>2, <4>3 DEF UsedBy, Range
      <4>4. CASE i = n + 1
        BY <2>4, <3>1, <3>3, <4>1, <4>2, <4>4, SessionConstants DEF UsedBy, Closes
      <4> QED
        BY <3>5, <4>3, <4>4
    <3>10. Opened(t) = n + 1
      BY <3>2, <3>6 DEF Opened
    <3>11. Opened(t)' = n + 1
      BY <3>3, <3>6 DEF Opened
    <3> QED
      BY <2>4, <3>3, <3>6, <3>8, <3>9, <3>10, <3>11, QuietHandler, NoHistory
  <2> QED
    BY <2>2, <2>3, <2>4
<1>2. \A y, k : k \in Nat /\ Used(y, k)' => Used(y, k)
  BY <1>1 DEF Used
<1>3. Placed'
  BY <1>1 DEF Placed
<1>4. chat' \in [Threads -> Seq(TurnEntries)] /\ talk' \in [Threads -> Handlers]
  BY <1>1
<1> QED
  BY <1>1, <1>2, <1>3, <1>4 DEF Recedes

LEMMA EndTurnRecedes ==
  ASSUME SessionTypes, Placed, NEW t \in Threads, Active(t), NEW session, NEW epoch,
         EndTurn(t, session, epoch),
         \/ session = NoSession /\ epoch = NoSession
         \/ session = talk[t].session /\ epoch = talk[t].epoch
  PROVE  Recedes /\ \A v \in Threads : talk'[v] = IF v = t THEN Quiet ELSE talk[v]
<1>1. talk \in [Threads -> Handlers] /\ chat \in [Threads -> Seq(TurnEntries)]
  BY DEF SessionTypes
<1>2. PICK u : u = [run |-> talk[t].run, session |-> session, epoch |-> epoch]
  OBVIOUS
<1>3. u \in TurnEntries /\ Closes(u, t)
  BY <1>2, ClosedEntry
<1>4. /\ chat' = [chat EXCEPT ![t] = Append(chat[t], u)]
      /\ talk' = [talk EXCEPT ![t] = Quiet]
  BY <1>1, <1>2 DEF EndTurn, Speak
<1>5. \A v \in Threads :
        /\ talk'[v] = IF v = t THEN Quiet ELSE talk[v]
        /\ chat'[v] = IF v = t THEN Append(chat[v], u) ELSE chat[v]
  BY <1>1, <1>4
<1>6. DOMAIN talk' = Threads /\ DOMAIN chat' = Threads
  BY <1>1, <1>4
<1>7. chat' = [v \in Threads |-> chat'[v]] /\ talk' = [v \in Threads |-> talk'[v]]
  BY <1>1, <1>4
<1>8. Recedes
  BY <1>3, <1>5, <1>6, <1>7, ClosingRecedes
<1> QED
  BY <1>5, <1>8

LEMMA ReloadRecedes ==
  ASSUME SessionTypes, Placed, Reload
  PROVE  Recedes /\ \A t \in Threads : ~Active(t)'
<1>1. talk \in [Threads -> Handlers] /\ chat \in [Threads -> Seq(TurnEntries)]
  BY DEF SessionTypes
<1>2. /\ chat' = [t \in Threads |->
                    IF In(t, "idle") THEN chat[t]
                    ELSE Append(chat[t],
                           [run |-> talk[t].run, session |-> NoSession, epoch |-> NoSession])]
      /\ talk' = [t \in Threads |-> Quiet]
  BY DEF Reload
<1>3. DOMAIN talk' = Threads /\ DOMAIN chat' = Threads
  BY <1>2
<1>4. chat' = [t \in Threads |-> chat'[t]] /\ talk' = [t \in Threads |-> talk'[t]]
  BY <1>2
<1>5. ASSUME NEW t \in Threads
      PROVE  /\ talk'[t] = Quiet
             /\ \/ ~Active(t) /\ chat'[t] = chat[t]
                \/ /\ Active(t)
                   /\ \E u \in TurnEntries : Closes(u, t) /\ chat'[t] = Append(chat[t], u)
  <2>1. talk'[t] = Quiet
    BY <1>2
  <2>2. CASE In(t, "idle")
    BY <1>1, <1>2, <2>1, <2>2, ActiveOrIdle
  <2>3. CASE ~In(t, "idle")
    <3>1. PICK u : u = [run |-> talk[t].run, session |-> NoSession, epoch |-> NoSession]
      OBVIOUS
    <3>2. chat'[t] = Append(chat[t], u)
      BY <1>2, <2>3, <3>1
    <3>3. Active(t)
      BY <1>1, <2>3, ActiveOrIdle
    <3>4. u \in TurnEntries /\ Closes(u, t)
      BY <3>1, <3>3, ClosedEntry
    <3> QED
      BY <2>1, <3>2, <3>3, <3>4
  <2> QED
    BY <2>2, <2>3
<1>6. Recedes
  BY <1>3, <1>4, <1>5, ClosingRecedes
<1>7. \A t \in Threads : ~Active(t)'
  BY <1>5, QuietHandler DEF Active
<1> QED
  BY <1>6, <1>7

-----------------------------------------------------------------------------
(* What a step keeps of the invariant, from what it does to the lists.      *)
LEMMA KnownTurnStays ==
  ASSUME Recedes, NEW y, KnownTurn(y)
  PROVE  KnownTurn(y)'
<1>1. y[1] \in Threads
  BY DEF KnownTurn, Turns
<1>2. Opened(y[1])' = Opened(y[1])
  BY <1>1 DEF Recedes
<1> QED
  BY <1>2 DEF KnownTurn

LEMMA KnownTurnsStay ==
  ASSUME OfKnownTurns, Recedes,
         \A s \in Stored' : KnownTurn(s.id),
         \A y \in (forgotten \union clear.begun)' : KnownTurn(y)
  PROVE  OfKnownTurns'
<1>1. \A s \in Stored' : KnownTurn(s.id)'
  <2> TAKE s \in Stored'
  <2>1. PICK y : y = s.id
    OBVIOUS
  <2>2. KnownTurn(y)'
    BY <2>1, KnownTurnStays
  <2> QED
    BY <2>1, <2>2 DEF KnownTurn
<1>2. \A y \in (forgotten \union clear.begun)' : KnownTurn(y)'
  BY KnownTurnStays
<1>3. \A y, k : Used(y, k)' /\ k \in Nat => KnownTurn(y)'
  BY KnownTurnStays DEF OfKnownTurns, Recedes
<1>4. \A y, k, m : Used(y, k)' /\ Used(y, m)' /\ {k, m} \subseteq Nat => k = m
  BY DEF OfKnownTurns, Recedes
<1> QED
  BY <1>1, <1>2, <1>3, <1>4 DEF OfKnownTurns

(* A handler that goes on keeps its promise while the epochs only grow and  *)
(* what is forgotten and cleared stays.                                     *)
LEMMA HandlersStay ==
  ASSUME SessionTypes, ClearedHandlers, Recedes,
         memento'.epoch \in Nat, disk'.epoch \in Nat,
         memento'.epoch = memento.epoch, disk'.epoch >= disk.epoch,
         forgotten' = forgotten, clear'.begun \subseteq clear.begun
  PROVE  ClearedHandlers'
<1> SUFFICES ASSUME NEW t \in Threads, Active(t)'
             PROVE  /\ talk'[t].epoch <= memento'.epoch
                    /\ talk'[t].epoch >= disk'.epoch =>
                         /\ talk'[t].run \notin forgotten'
                         /\ talk'[t].stored # NoSession =>
                              /\ Range(talk'[t].stored.runs) \intersect forgotten' = {}
                              /\ talk'[t].stored.repositoryState \notin forgotten'
                    /\ talk'[t].epoch = memento'.epoch =>
                         /\ talk'[t].run \notin clear'.begun
                         /\ talk'[t].stored # NoSession =>
                              /\ Range(talk'[t].stored.runs) \intersect clear'.begun = {}
                              /\ talk'[t].stored.repositoryState \notin clear'.begun
  BY DEF ClearedHandlers, Sendable, Untouched
<1>1. Carries(t) /\ talk[t].epoch \in Nat /\ disk.epoch \in Nat
  BY DEF Recedes, SessionTypes, Handlers, Mementos
<1>2. talk'[t].epoch >= disk'.epoch => talk[t].epoch >= disk.epoch
  BY <1>1 DEF Carries
<1> QED
  BY <1>1, <1>2 DEF ClearedHandlers, Sendable, Untouched, Carries

-----------------------------------------------------------------------------
LEMMA EmptyList == <<>> \in SessionLists /\ Range(<<>>) = {}
<1>1. <<>> \in BoundedSeq(Sessions, MaxSessions)
  <2>1. PICK n \in Nat : n = MaxSessions
    BY SessionConstants
  <2>2. <<>> \in Seq(Sessions) /\ Len(<<>>) <= n
    BY <2>1
  <2> QED
    BY <2>1, <2>2, BoundedSeqs
<1> QED
  BY <1>1 DEF SessionLists, Range

LEMMA SessionInvInitially == SessionInit => SessionInv
<1> SUFFICES ASSUME SessionInit PROVE SessionInv
  OBVIOUS
<1>1. /\ \A t \in Threads : ~Active(t) /\ In(t, "idle") /\ talk[t] = Quiet /\ chat[t] = <<>>
      /\ talk \in [Threads -> Handlers]
  BY QuietHandler DEF SessionInit, Active, In
<1>2. chat \in [Threads -> Seq(TurnEntries)]
  BY DEF SessionInit
<1>3. memento \in Mementos /\ disk = memento /\ memento.epoch = 0 /\ memento.list = <<>>
  BY EmptyList DEF SessionInit, Mementos
<1>4. counts \in [clears : 0..MaxClears, reloads : 0..MaxReloads, unsaved : BOOLEAN] /\ counts.clears = 0
  BY SessionConstants DEF SessionInit
<1>5. SessionTypes
  BY <1>1, <1>2, <1>3, <1>4, EmptyList DEF SessionTypes, SessionInit
<1>6. Placed
  BY <1>1, QuietHandler, NoHistory DEF Placed
<1>7. Stored = {} /\ forgotten = {} /\ clear.begun = {} /\ sessions = <<>> /\ clear.stage = "idle"
  BY <1>3, EmptyList DEF Stored, SessionInit
<1>8. \A y, k : ~Used(y, k)
  BY <1>1, EmptyList DEF Used, UsedBy
<1>9. OfKnownTurns
  BY <1>7, <1>8 DEF OfKnownTurns
<1>10. ClearedLists /\ ClearedHandlers /\ Saving
  BY <1>1, <1>3, <1>7, <1>8 DEF ClearedLists, ClearedHandlers, Saving
<1> QED
  BY <1>5, <1>6, <1>9, <1>10 DEF SessionInv

(* A step of a handler or of the editor that leaves the lists as they are,  *)
(* or puts them on the disk.                                                *)
Settles ==
  /\ Recedes
  /\ sessions' = sessions /\ memento' = memento /\ clear' = clear /\ forgotten' = forgotten
  /\ disk' = disk \/ disk' = memento
  /\ counts' \in [clears : 0..MaxClears, reloads : 0..MaxReloads, unsaved : BOOLEAN]
  /\ counts'.clears = counts.clears

LEMMA SettlesStep ==
  ASSUME SessionInv, Settles
  PROVE  SessionTypes' /\ Placed' /\ OfKnownTurns' /\ ClearedLists' /\ ClearedHandlers'
<1>1. disk.epoch \in Nat /\ memento.epoch \in Nat /\ disk.epoch <= memento.epoch
  BY DEF SessionInv, SessionTypes, Mementos
<1>2. disk'.epoch \in Nat /\ disk'.epoch >= disk.epoch
  BY <1>1 DEF Settles
<1>3. SessionTypes'
  BY <1>1 DEF SessionInv, SessionTypes, Settles, Recedes, Mementos
<1>4. Stored' \subseteq Stored
  BY DEF Settles, Stored
<1>5. OfKnownTurns'
  BY <1>4, KnownTurnsStay DEF SessionInv, Settles, OfKnownTurns
<1>6. ClearedLists'
  <2>1. ASSUME NEW k \in Nat, k >= disk'.epoch, NEW s \in Stored', Used(s.id, k)'
        PROVE  Sendable(s)'
    <3>1. k >= disk.epoch
      BY <1>1, <1>2, <2>1
    <3>2. s \in Stored /\ Used(s.id, k)
      BY <1>4, <2>1 DEF Settles, Recedes
    <3> QED
      BY <3>1, <3>2 DEF SessionInv, ClearedLists, Settles, Sendable
  <2>2. ASSUME NEW k \in Nat, k >= memento.epoch, NEW s \in Range(sessions), Used(s.id, k)'
        PROVE  Untouched(s)'
    BY <2>2 DEF SessionInv, ClearedLists, Settles, Recedes, Untouched
  <2>3. ASSUME NEW k \in Nat, k >= memento.epoch, clear.stage = "list",
               NEW s \in Range(memento.list), Used(s.id, k)'
        PROVE  Untouched(s)'
    BY <2>3 DEF SessionInv, ClearedLists, Settles, Recedes, Untouched
  <2> QED
    BY <2>1, <2>2, <2>3 DEF ClearedLists, Settles
<1>7. ClearedHandlers'
  BY <1>1, <1>2, HandlersStay DEF SessionInv, Settles
<1> QED
  BY <1>3, <1>5, <1>6, <1>7 DEF Settles, Recedes

LEMMA TurnFailsStep ==
  ASSUME SessionInv, NEW t \in Threads, TurnFails(t)
  PROVE  SessionInv'
<1>1. Active(t) /\ ~In(t, "storing")
  BY DEF TurnFails, In, Active
<1>2. Recedes /\ \A v \in Threads : talk'[v] = IF v = t THEN Quiet ELSE talk[v]
  BY <1>1, EndTurnRecedes DEF SessionInv, TurnFails
<1>3. Settles
  BY <1>2 DEF SessionInv, SessionTypes, TurnFails, Settles
<1>4. Saving'
  BY <1>1, <1>2 DEF SessionInv, Saving, TurnFails, In
<1> QED
  BY <1>3, <1>4, SettlesStep DEF SessionInv

LEMMA RunChatStep ==
  ASSUME SessionInv, NEW t \in Threads, RunChat(t)
  PROVE  SessionInv'
<1>1. Active(t) /\ ~In(t, "storing")
  BY DEF RunChat, In, Active
<1>2. talk' = [talk EXCEPT ![t] = [talk[t] EXCEPT !.stage = "answered"]] /\ chat' = chat
  BY DEF RunChat, Speak
<1>3. Recedes
  BY <1>1, <1>2, StageRecedes DEF SessionInv
<1>4. Settles
  BY <1>3 DEF SessionInv, SessionTypes, RunChat, Settles
<1>5. \A v \in Threads : In(v, "storing") => In(v, "storing")'
  BY <1>1, <1>2 DEF SessionInv, SessionTypes, In
<1>6. Saving'
  BY <1>5 DEF SessionInv, Saving, RunChat
<1> QED
  BY <1>4, <1>6, SettlesStep DEF SessionInv

LEMMA TurnEndsStep ==
  ASSUME SessionInv, NEW t \in Threads, TurnEnds(t)
  PROVE  SessionInv'
<1>1. Active(t)
  BY DEF TurnEnds, In, Active
<1>2. Recedes
  BY <1>1, EndTurnRecedes DEF SessionInv, TurnEnds
<1>3. \/ disk' = memento /\ counts' = counts
      \/ disk' = disk /\ counts' = [counts EXCEPT !.unsaved = TRUE]
  BY DEF TurnEnds, Flushed, FlushFails
<1>4. /\ counts' \in [clears : 0..MaxClears, reloads : 0..MaxReloads, unsaved : BOOLEAN]
      /\ counts'.clears = counts.clears
      /\ ~counts'.unsaved => disk' = memento /\ ~counts.unsaved
  BY <1>3 DEF SessionInv, SessionTypes
<1>5. Settles
  BY <1>2, <1>3, <1>4 DEF TurnEnds, Settles
<1>6. Saving'
  BY <1>4 DEF SessionInv, Saving, TurnEnds
<1> QED
  BY <1>5, <1>6, SettlesStep DEF SessionInv

-----------------------------------------------------------------------------
(* What ChatSessionStore::record writes.                                    *)
LEMMA RecordedSession ==
  ASSUME SessionInv, NEW t \in Threads, Active(t), NEW entry,
         entry = [id |-> talk[t].session, runs |-> RecentRuns(talk[t].run, talk[t].stored),
                   repositoryState |-> talk[t].run]
  PROVE  /\ entry \in Sessions /\ entry.id = talk[t].session
         /\ talk[t].epoch >= disk.epoch => Sendable(entry)
         /\ talk[t].epoch = memento.epoch => Untouched(entry)
<1>1. PICK run \in Turns, stored \in Sessions \union {NoSession} :
        run = talk[t].run /\ stored = talk[t].stored
  BY RunIsTurn DEF SessionInv
<1>2. PICK runs \in BoundedSeq(Turns, MaxRuns) : runs = RecentRuns(run, stored)
  BY RecentRunsBounded
<1>3. Range(runs) \subseteq {run} \union (IF stored = NoSession THEN {} ELSE Range(stored.runs))
  BY <1>2, RecentRunsBounded
<1>4. entry = [id |-> talk[t].session, runs |-> runs, repositoryState |-> run]
  BY <1>1, <1>2
<1>5. entry \in Sessions
  BY <1>4, RunIsTurn DEF SessionInv, Sessions
<1>6. entry.id = talk[t].session /\ entry.runs = runs /\ entry.repositoryState = run
  BY <1>4
<1>7. talk[t].epoch >= disk.epoch => Sendable(entry)
  BY <1>1, <1>3, <1>6 DEF SessionInv, ClearedHandlers, Sendable
<1>8. talk[t].epoch = memento.epoch => Untouched(entry)
  BY <1>1, <1>3, <1>6 DEF SessionInv, ClearedHandlers, Untouched
<1> QED
  BY <1>5, <1>6, <1>7, <1>8

LEMMA RecordStep ==
  ASSUME SessionInv, NEW t \in Threads, Record(t)
  PROVE  SessionInv'
<1>1. Active(t) /\ In(t, "answered")
  BY DEF Record, In, Active
<1>2. PICK entry :
        entry = [id |-> talk[t].session, runs |-> RecentRuns(talk[t].run, talk[t].stored),
                  repositoryState |-> talk[t].run]
  OBVIOUS
<1>3. PICK list : list = Retained(sessions, entry)
  OBVIOUS
<1>4. /\ sessions' = list /\ memento' = [memento EXCEPT !.list = list]
      /\ talk' = [talk EXCEPT ![t] = [talk[t] EXCEPT !.stage = "storing"]] /\ chat' = chat
      /\ UNCHANGED <<disk, clear, forgotten, counts>>
  BY <1>2, <1>3 DEF Record, Speak
<1>5. /\ entry \in Sessions /\ entry.id = talk[t].session
      /\ talk[t].epoch >= disk.epoch => Sendable(entry)
      /\ talk[t].epoch = memento.epoch => Untouched(entry)
  BY <1>1, <1>2, RecordedSession
<1>6. list \in SessionLists /\ Range(list) \subseteq Range(sessions) \union {entry}
  BY <1>3, <1>5, RetainedList DEF SessionInv, SessionTypes
<1>7. memento' \in Mementos /\ memento'.epoch = memento.epoch /\ memento'.list = list
  BY <1>4, <1>6 DEF SessionInv, SessionTypes, Mementos
<1>8. Recedes
  BY <1>1, <1>4, StageRecedes DEF SessionInv
<1>9. Stored' \subseteq Stored \union {entry}
  BY <1>4, <1>6, <1>7 DEF Stored
<1>10. Used(entry.id, talk[t].epoch) /\ talk[t].epoch \in Nat
  BY <1>1, <1>5, RunIsTurn DEF SessionInv, Used, UsedBy
<1>11. SessionTypes'
  BY <1>4, <1>6, <1>7, <1>8 DEF SessionInv, SessionTypes, Recedes
<1>12. OfKnownTurns'
  <2>1. KnownTurn(entry.id)
    BY <1>10 DEF SessionInv, OfKnownTurns
  <2>2. \A s \in Stored' : KnownTurn(s.id)
    BY <1>9, <2>1 DEF SessionInv, OfKnownTurns
  <2> QED
    BY <1>4, <1>8, <2>2, KnownTurnsStay DEF SessionInv, OfKnownTurns
<1>13. ASSUME NEW k \in Nat, Used(entry.id, k)'
       PROVE  k = talk[t].epoch
  <2>1. Used(entry.id, k)
    BY <1>8, <1>13 DEF Recedes
  <2> QED
    BY <1>10, <2>1 DEF SessionInv, OfKnownTurns
<1>14. disk.epoch \in Nat /\ memento.epoch \in Nat /\ talk[t].epoch <= memento.epoch
  BY <1>1 DEF SessionInv, SessionTypes, Mementos, ClearedHandlers
<1>15. ClearedLists'
  <2>1. ASSUME NEW k \in Nat, k >= disk.epoch, NEW s \in Stored', Used(s.id, k)'
        PROVE  Sendable(s)'
    <3>1. CASE s = entry
      BY <1>4, <1>5, <1>13, <2>1, <3>1 DEF Sendable
    <3>2. CASE s \in Stored
      BY <1>4, <1>8, <2>1, <3>2 DEF SessionInv, ClearedLists, Recedes, Sendable
    <3> QED
      BY <1>9, <3>1, <3>2
  <2>2. ASSUME NEW k \in Nat, k >= memento.epoch, NEW s \in Range(list), Used(s.id, k)'
        PROVE  Untouched(s)'
    <3>1. CASE s = entry
      <4>1. talk[t].epoch = memento.epoch
        BY <1>10, <1>13, <1>14, <2>2, <3>1
      <4> QED
        BY <1>4, <1>5, <3>1, <4>1 DEF Untouched
    <3>2. CASE s \in Range(sessions)
      BY <1>4, <1>8, <2>2, <3>2 DEF SessionInv, ClearedLists, Recedes, Untouched
    <3> QED
      BY <1>6, <3>1, <3>2
  <2> QED
    BY <1>4, <1>7, <2>1, <2>2 DEF ClearedLists
<1>16. ClearedHandlers'
  BY <1>4, <1>7, <1>8, <1>14, HandlersStay DEF SessionInv
<1>17. In(t, "storing")'
  <2>1. talk[t] \in Handlers /\ talk \in [Threads -> Handlers]
    BY DEF SessionInv, SessionTypes
  <2>2. talk'[t] = [talk[t] EXCEPT !.stage = "storing"]
    BY <1>4, <2>1
  <2> QED
    BY <2>1, <2>2 DEF In, Handlers
<1>18. Saving'
  BY <1>4, <1>7, <1>17 DEF SessionInv, Saving
<1> QED
  BY <1>8, <1>11, <1>12, <1>15, <1>16, <1>18 DEF SessionInv, Recedes

-----------------------------------------------------------------------------
(* The clear command.                                                       *)
LEMMA BegunTurns ==
  ASSUME SessionTypes, Placed
  PROVE  Begun \subseteq Turns /\ \A y \in Begun : KnownTurn(y)
<1>1. ASSUME NEW t \in Threads, ~In(t, "idle")
      PROVE  KnownTurn(talk[t].run)
  <2>1. Active(t)
    BY <1>1, ActiveOrIdle DEF SessionTypes
  <2>2. talk[t].run \in Turns /\ talk[t].run = <<t, Len(chat[t]) + 1>>
    BY <2>1, RunIsTurn
  <2>3. PICK n \in Nat : n = Len(chat[t])
    BY DEF SessionTypes
  <2>4. Opened(t) = n + 1 /\ talk[t].run = <<t, n + 1>>
    BY <1>1, <2>2, <2>3 DEF Opened
  <2> QED
    BY <2>2, <2>4 DEF KnownTurn
<1>2. ASSUME NEW t \in Threads, NEW u \in Range(chat[t])
      PROVE  KnownTurn(u.run)
  <2>1. chat[t] \in Seq(TurnEntries)
    BY DEF SessionTypes
  <2>2. PICK n \in Nat : n = Len(chat[t])
    BY <2>1
  <2>3. DOMAIN chat[t] = 1..n
    BY <2>1, <2>2
  <2>4. PICK i \in 1..n : u = chat[t][i]
    BY <2>3 DEF Range
  <2>5. u.run = <<t, i>> /\ u.run \in Turns
    BY <2>1, <2>3, <2>4 DEF Placed, TurnEntries
  <2>6. i <= Opened(t)
    <3>1. CASE In(t, "idle")
      BY <2>2, <3>1 DEF Opened
    <3>2. CASE ~In(t, "idle")
      BY <2>2, <3>2 DEF Opened
    <3> QED
      BY <3>1, <3>2
  <2> QED
    BY <2>5, <2>6 DEF KnownTurn
<1>3. ASSUME NEW y \in Begun
      PROVE  KnownTurn(y)
  <2>1. CASE \E t \in Threads : ~In(t, "idle") /\ y = talk[t].run
    BY <1>1, <2>1
  <2>2. CASE \E t \in Threads : \E u \in Range(chat[t]) : y = u.run
    BY <1>2, <2>2
  <2> QED
    BY <2>1, <2>2 DEF Begun
<1> QED
  BY <1>3 DEF KnownTurn

LEMMA EmptiedSessions ==
  ASSUME NEW list \in SessionLists, NEW emptied,
         emptied = [i \in DOMAIN list |-> WithoutContext(list[i])]
  PROVE  /\ emptied \in SessionLists
         /\ \A s \in Range(emptied) :
              /\ s.runs = <<>> /\ s.repositoryState = NoSession
              /\ \E e \in Range(list) : s.id = e.id
<1>1. list \in Seq(Sessions) /\ Len(list) <= MaxSessions
  BY SessionListSeq
<1>2. PICK n \in Nat : n = Len(list)
  BY <1>1
<1>3. DOMAIN list = 1..n /\ \A i \in 1..n : list[i] \in Sessions
  BY <1>1, <1>2
<1>4. <<>> \in BoundedSeq(Turns, MaxRuns)
  <2>1. PICK m \in Nat : m = MaxRuns
    BY SessionConstants
  <2>2. <<>> \in Seq(Turns) /\ Len(<<>>) <= m
    BY <2>1
  <2> QED
    BY <2>1, <2>2, BoundedSeqs
<1>5. ASSUME NEW i \in 1..n
      PROVE  /\ emptied[i] \in Sessions /\ emptied[i].id = list[i].id
             /\ emptied[i].runs = <<>> /\ emptied[i].repositoryState = NoSession
  <2>1. emptied[i] = WithoutContext(list[i])
    BY <1>3
  <2>2. list[i] \in Sessions
    BY <1>3
  <2> QED
    BY <1>4, <2>1, <2>2 DEF Sessions, WithoutContext
<1>6. emptied \in Seq(Sessions) /\ Len(emptied) = n /\ DOMAIN emptied = 1..n
  <2>1. DOMAIN emptied = 1..n
    BY <1>3
  <2>2. emptied = [i \in 1..n |-> emptied[i]]
    BY <1>3
  <2>3. emptied \in [1..n -> Sessions]
    BY <1>5, <2>2
  <2>4. emptied \in Seq(Sessions)
    BY <2>3
  <2>5. Len(emptied) = n
    BY <2>3
  <2> QED
    BY <2>1, <2>4, <2>5
<1>7. emptied \in SessionLists
  BY <1>1, <1>2, <1>5, <1>6, SessionListSeq, ZenonT(60)
<1>8. ASSUME NEW s \in Range(emptied)
      PROVE  /\ s.runs = <<>> /\ s.repositoryState = NoSession
             /\ \E e \in Range(list) : s.id = e.id
  <2>1. PICK i \in 1..n : s = emptied[i]
    BY <1>6 DEF Range
  <2> QED
    BY <1>3, <1>5, <2>1 DEF Range
<1> QED
  BY <1>7, <1>8

LEMMA ClearBeginsStep == SessionInv /\ ClearBegins => SessionInv'
<1> SUFFICES ASSUME SessionInv, ClearBegins PROVE SessionInv'
  OBVIOUS
<1>1. Recedes
  BY SameRecedes DEF SessionInv, ClearBegins
<1>2. /\ sessions' \in SessionLists
      /\ \A s \in Range(sessions') :
           /\ s.runs = <<>> /\ s.repositoryState = NoSession
           /\ \E e \in Range(sessions) : s.id = e.id
  BY EmptiedSessions DEF SessionInv, SessionTypes, ClearBegins
<1>3. /\ memento.epoch \in Nat /\ disk.epoch \in Nat /\ disk.epoch <= memento.epoch
      /\ memento.epoch <= counts.clears /\ counts.clears \in Nat
  BY DEF SessionInv, SessionTypes, Mementos
<1>4. memento' \in Mementos /\ memento'.epoch = memento.epoch + 1 /\ memento'.list = memento.list
  <2>1. PICK e \in Nat : e = memento.epoch + 1
    BY <1>3
  <2>2. memento' = [memento EXCEPT !.epoch = e]
    BY <2>1 DEF ClearBegins
  <2>3. memento \in Mementos
    BY DEF SessionInv, SessionTypes
  <2>4. memento' \in Mementos
    BY <2>2, <2>3 DEF Mementos
  <2>5. memento'.epoch = e /\ memento'.list = memento.list
    BY <2>2, <2>3 DEF Mementos
  <2> QED
    BY <2>1, <2>4, <2>5
<1>5. /\ counts' \in [clears : 0..MaxClears, reloads : 0..MaxReloads, unsaved : BOOLEAN]
      /\ counts'.clears = counts.clears + 1
  <2>1. PICK c : c = counts.clears + 1
    OBVIOUS
  <2>2. c \in 0..MaxClears
    BY <1>3, <2>1, SessionConstants DEF ClearBegins
  <2>3. counts' = [counts EXCEPT !.clears = c]
    BY <2>1 DEF ClearBegins
  <2>4. counts \in [clears : 0..MaxClears, reloads : 0..MaxReloads, unsaved : BOOLEAN]
    BY DEF SessionInv, SessionTypes
  <2>5. counts' \in [clears : 0..MaxClears, reloads : 0..MaxReloads, unsaved : BOOLEAN]
    BY <2>2, <2>3, <2>4
  <2>6. counts'.clears = c
    BY <2>3, <2>4
  <2> QED
    BY <2>1, <2>5, <2>6
<1>6. PICK begun : begun = Begun /\ begun \subseteq Turns /\ \A y \in begun : KnownTurn(y)
  BY BegunTurns DEF SessionInv
<1>7. clear' = [stage |-> "epoch", begun |-> begun]
  BY <1>6 DEF ClearBegins
<1>8. clear' \in [stage : {"idle", "epoch", "list"}, begun : SUBSET Turns]
      /\ clear'.begun = begun /\ clear'.stage = "epoch"
  BY <1>6, <1>7
<1>9. SessionTypes'
  BY <1>1, <1>2, <1>3, <1>4, <1>5, <1>8 DEF SessionInv, SessionTypes, Recedes, ClearBegins
<1>10. \A s \in Stored' : \E e \in Stored : s.id = e.id /\ (s \in Range(sessions') \/ s = e)
  BY <1>2, <1>4 DEF Stored, ClearBegins
<1>11. OfKnownTurns'
  <2>1. \A s \in Stored' : KnownTurn(s.id)
    BY <1>10 DEF SessionInv, OfKnownTurns
  <2> QED
    BY <1>1, <1>6, <1>8, <2>1, KnownTurnsStay DEF SessionInv, OfKnownTurns, ClearBegins
<1>12. ASSUME NEW s \in Range(sessions')
       PROVE  /\ Range(s.runs) \intersect forgotten' = {} /\ s.repositoryState \notin forgotten'
              /\ Range(s.runs) \intersect begun = {} /\ s.repositoryState \notin begun
  BY <1>2, <1>6, <1>12, EmptyList, SessionConstants DEF SessionInv, SessionTypes, ClearBegins
<1>13. ClearedLists'
  <2>1. ASSUME NEW k \in Nat, k >= disk.epoch, NEW s \in Stored', Used(s.id, k)'
        PROVE  Sendable(s)'
    <3>1. CASE s \in Range(sessions')
      BY <1>12, <3>1 DEF Sendable
    <3>2. CASE s \in Stored
      BY <1>1, <2>1, <3>2 DEF SessionInv, ClearedLists, Recedes, Sendable, ClearBegins
    <3> QED
      BY <1>10, <3>1, <3>2
  <2>2. \A s \in Range(sessions') : Untouched(s)'
    BY <1>8, <1>12 DEF Untouched
  <2> QED
    BY <1>8, <2>1, <2>2 DEF ClearedLists, ClearBegins
<1>14. ClearedHandlers'
  <2> SUFFICES ASSUME NEW t \in Threads, Active(t)'
               PROVE  /\ talk'[t].epoch <= memento'.epoch
                      /\ talk'[t].epoch # memento'.epoch
                      /\ talk'[t].epoch >= disk'.epoch =>
                           /\ talk'[t].run \notin forgotten'
                           /\ talk'[t].stored # NoSession => Sendable(talk[t].stored)'
    BY DEF ClearedHandlers, Sendable, ClearBegins
  <2>1. Active(t) /\ talk[t].epoch \in Nat /\ talk' = talk
    BY DEF ClearBegins, Active, SessionInv, SessionTypes, Handlers
  <2> QED
    BY <1>3, <1>4, <2>1 DEF SessionInv, ClearedHandlers, Sendable, ClearBegins
<1>15. Saving'
  BY <1>4, <1>5, <1>8 DEF SessionInv, Saving, ClearBegins
<1> QED
  BY <1>1, <1>9, <1>11, <1>13, <1>14, <1>15 DEF SessionInv, Recedes

LEMMA ClearStoresListStep == SessionInv /\ ClearStoresList => SessionInv'
<1> SUFFICES ASSUME SessionInv, ClearStoresList PROVE SessionInv'
  OBVIOUS
<1>1. Recedes
  BY SameRecedes DEF SessionInv, ClearStoresList
<1>2. disk' = memento /\ counts' = counts /\ sessions' = sessions /\ forgotten' = forgotten
  BY DEF ClearStoresList, Flushed
<1>3. memento' \in Mementos /\ memento'.epoch = memento.epoch /\ memento'.list = sessions
  <2>1. memento' = [memento EXCEPT !.list = sessions]
    BY DEF ClearStoresList
  <2>2. memento \in Mementos /\ sessions \in SessionLists
    BY DEF SessionInv, SessionTypes
  <2> QED
    BY <2>1, <2>2 DEF Mementos
<1>4. clear' \in [stage : {"idle", "epoch", "list"}, begun : SUBSET Turns]
      /\ clear'.begun = clear.begun /\ clear'.stage = "list"
  <2>1. clear' = [clear EXCEPT !.stage = "list"]
    BY DEF ClearStoresList
  <2>2. clear \in [stage : {"idle", "epoch", "list"}, begun : SUBSET Turns]
    BY DEF SessionInv, SessionTypes
  <2> QED
    BY <2>1, <2>2
<1>5. disk.epoch \in Nat /\ memento.epoch \in Nat /\ disk.epoch <= memento.epoch
  BY DEF SessionInv, SessionTypes, Mementos
<1>6. SessionTypes'
  BY <1>1, <1>2, <1>3, <1>4, <1>5 DEF SessionInv, SessionTypes, Recedes
<1>7. Stored' \subseteq Stored
  BY <1>2, <1>3 DEF Stored
<1>8. OfKnownTurns'
  BY <1>1, <1>2, <1>4, <1>7, KnownTurnsStay DEF SessionInv, OfKnownTurns
<1>9. ClearedLists'
  <2>1. ASSUME NEW k \in Nat, k >= memento.epoch, NEW s \in Stored', Used(s.id, k)'
        PROVE  Sendable(s)'
    <3>1. k >= disk.epoch
      BY <1>5, <2>1
    <3>2. s \in Stored /\ Used(s.id, k)
      BY <1>1, <1>7, <2>1 DEF Recedes
    <3> QED
      BY <1>2, <3>1, <3>2 DEF SessionInv, ClearedLists, Sendable
  <2>2. ASSUME NEW k \in Nat, k >= memento.epoch, NEW s \in Range(sessions), Used(s.id, k)'
        PROVE  Untouched(s)'
    BY <1>1, <1>4, <2>2 DEF SessionInv, ClearedLists, Recedes, Untouched
  <2> QED
    BY <1>2, <1>3, <2>1, <2>2 DEF ClearedLists
<1>10. ClearedHandlers'
  BY <1>1, <1>2, <1>3, <1>4, <1>5, HandlersStay DEF SessionInv
<1>11. Saving'
  BY <1>2, <1>3, <1>4 DEF Saving
<1> QED
  BY <1>1, <1>6, <1>8, <1>9, <1>10, <1>11 DEF SessionInv, Recedes

(* What was begun when the clear started is forgotten from here on.         *)
LEMMA ClearEndsStep == SessionInv /\ ClearEnds => SessionInv'
<1> SUFFICES ASSUME SessionInv, ClearEnds PROVE SessionInv'
  OBVIOUS
<1>1. Recedes
  BY SameRecedes DEF SessionInv, ClearEnds
<1>2. /\ disk' = memento /\ counts' = counts /\ sessions' = sessions /\ memento' = memento
      /\ talk' = talk /\ forgotten' = clear.begun
      /\ clear'.begun = {} /\ clear'.stage = "idle" /\ clear.stage = "list"
      /\ clear' \in [stage : {"idle", "epoch", "list"}, begun : SUBSET Turns]
  BY DEF ClearEnds, Flushed
<1>3. SessionTypes'
  BY <1>1, <1>2 DEF SessionInv, SessionTypes, Recedes, Mementos
<1>4. Stored' = Range(sessions) \union Range(memento.list)
  BY <1>2 DEF Stored
<1>5. OfKnownTurns'
  BY <1>1, <1>2, <1>4, KnownTurnsStay DEF SessionInv, OfKnownTurns, Stored
<1>6. ClearedLists'
  <2>1. ASSUME NEW k \in Nat, k >= memento.epoch, NEW s \in Stored', Used(s.id, k)'
        PROVE  Sendable(s)'
    <3>1. Used(s.id, k)
      BY <1>1, <2>1 DEF Recedes
    <3>2. Untouched(s)
      BY <1>2, <1>4, <2>1, <3>1 DEF SessionInv, ClearedLists
    <3> QED
      BY <1>2, <3>2 DEF Untouched, Sendable
  <2>2. \A s : Untouched(s)'
    BY <1>2 DEF Untouched
  <2> QED
    BY <1>2, <2>1, <2>2 DEF ClearedLists
<1>7. ClearedHandlers'
  <2> SUFFICES ASSUME NEW t \in Threads, Active(t)
               PROVE  /\ talk[t].epoch <= memento.epoch
                      /\ talk[t].epoch >= memento.epoch =>
                           /\ talk[t].run \notin clear.begun
                           /\ talk[t].stored # NoSession => Untouched(talk[t].stored)
    BY <1>2 DEF ClearedHandlers, Sendable, Untouched, Active
  <2>1. talk[t].epoch \in Nat /\ memento.epoch \in Nat
    BY DEF SessionInv, SessionTypes, Handlers, Mementos
  <2>2. talk[t].epoch <= memento.epoch
    BY DEF SessionInv, ClearedHandlers
  <2>3. talk[t].epoch >= memento.epoch => talk[t].epoch = memento.epoch
    BY <2>1, <2>2
  <2> QED
    BY <2>2, <2>3 DEF SessionInv, ClearedHandlers
<1>8. Saving'
  BY <1>2 DEF SessionInv, Saving
<1> QED
  BY <1>1, <1>3, <1>5, <1>6, <1>7, <1>8 DEF SessionInv, Recedes

LEMMA ClearFailsStep == SessionInv /\ ClearFails => SessionInv'
<1> SUFFICES ASSUME SessionInv, ClearFails PROVE SessionInv'
  OBVIOUS
<1>1. Recedes
  BY SameRecedes DEF SessionInv, ClearFails
<1>2. /\ disk' = disk /\ sessions' = sessions /\ memento' = memento /\ forgotten' = forgotten
      /\ clear'.begun = {} /\ clear'.stage = "idle"
      /\ clear' \in [stage : {"idle", "epoch", "list"}, begun : SUBSET Turns]
  BY DEF ClearFails, FlushFails
<1>3. /\ counts' \in [clears : 0..MaxClears, reloads : 0..MaxReloads, unsaved : BOOLEAN]
      /\ counts'.clears = counts.clears /\ counts'.unsaved = TRUE
  BY DEF SessionInv, SessionTypes, ClearFails, FlushFails
<1>4. SessionTypes'
  BY <1>1, <1>2, <1>3 DEF SessionInv, SessionTypes, Recedes
<1>5. Stored' = Stored
  BY <1>2 DEF Stored
<1>6. OfKnownTurns'
  BY <1>1, <1>2, <1>5, KnownTurnsStay DEF SessionInv, OfKnownTurns
<1>7. ClearedLists'
  <2>1. ASSUME NEW k \in Nat, k >= disk.epoch, NEW s \in Stored, Used(s.id, k)'
        PROVE  Sendable(s)'
    BY <1>1, <1>2, <2>1 DEF SessionInv, ClearedLists, Recedes, Sendable
  <2>2. \A s : Untouched(s)'
    BY <1>2 DEF Untouched
  <2> QED
    BY <1>2, <1>5, <2>1, <2>2 DEF ClearedLists
<1>8. disk.epoch \in Nat /\ memento.epoch \in Nat
  BY DEF SessionInv, SessionTypes, Mementos
<1>9. ClearedHandlers'
  BY <1>1, <1>2, <1>8, HandlersStay DEF SessionInv
<1>10. Saving'
  BY <1>3 DEF Saving
<1> QED
  BY <1>1, <1>4, <1>6, <1>7, <1>9, <1>10 DEF SessionInv, Recedes

LEMMA ReloadStep == SessionInv /\ Reload => SessionInv'
<1> SUFFICES ASSUME SessionInv, Reload PROVE SessionInv'
  OBVIOUS
<1>1. Recedes /\ \A t \in Threads : ~Active(t)'
  BY ReloadRecedes DEF SessionInv
<1>2. /\ disk' = disk /\ sessions' = disk.list /\ memento' = disk /\ forgotten' = forgotten
      /\ clear'.begun = {} /\ clear'.stage = "idle"
      /\ clear' \in [stage : {"idle", "epoch", "list"}, begun : SUBSET Turns]
  BY DEF Reload
<1>3. /\ counts' \in [clears : 0..MaxClears, reloads : 0..MaxReloads, unsaved : BOOLEAN]
      /\ counts'.clears = counts.clears
  <2>1. counts \in [clears : 0..MaxClears, reloads : 0..MaxReloads, unsaved : BOOLEAN]
    BY DEF SessionInv, SessionTypes
  <2>2. PICK r : r = counts.reloads + 1
    OBVIOUS
  <2>3. r \in 0..MaxReloads
    BY <2>1, <2>2, SessionConstants DEF Reload
  <2>4. counts' = [counts EXCEPT !.reloads = r]
    BY <2>2 DEF Reload
  <2> QED
    BY <2>1, <2>3, <2>4
<1>4. /\ disk.epoch \in Nat /\ disk.epoch <= counts.clears /\ disk.list \in SessionLists
      /\ disk \in Mementos
  BY DEF SessionInv, SessionTypes, Mementos
<1>5. SessionTypes'
  BY <1>1, <1>2, <1>3, <1>4 DEF SessionInv, SessionTypes, Recedes
<1>6. Stored' \subseteq Stored
  BY <1>2 DEF Stored
<1>7. OfKnownTurns'
  BY <1>1, <1>2, <1>6, KnownTurnsStay DEF SessionInv, OfKnownTurns
<1>8. ClearedLists'
  <2>1. ASSUME NEW k \in Nat, k >= disk.epoch, NEW s \in Stored', Used(s.id, k)'
        PROVE  Sendable(s)'
    BY <1>1, <1>2, <1>6, <2>1 DEF SessionInv, ClearedLists, Recedes, Sendable
  <2>2. \A s : Untouched(s)'
    BY <1>2 DEF Untouched
  <2> QED
    BY <1>2, <2>1, <2>2 DEF ClearedLists
<1>9. ClearedHandlers'
  BY <1>1 DEF ClearedHandlers
<1>10. Saving'
  BY <1>2 DEF Saving
<1> QED
  BY <1>1, <1>5, <1>7, <1>8, <1>9, <1>10 DEF SessionInv, Recedes

-----------------------------------------------------------------------------
(* The start of a turn: the session is one that this epoch has used, or a   *)
(* new one that nothing is stored of.                                       *)
LEMMA TurnStarted ==
  ASSUME SessionInv, NEW t \in Threads, StartTurn(t)
  PROVE  \E h \in Handlers :
           /\ h.stage = "running" /\ h.run = <<t, Len(chat[t]) + 1>> /\ h.epoch = memento.epoch
           /\ h.history \in BoundedSeq(Range(chat[t]), MaxHistory)
           /\ talk' = [talk EXCEPT ![t] = h]
           /\ h.run \in Turns /\ ~KnownTurn(h.run)
           /\ Used(h.session, memento.epoch) \/ h.session = h.run
           /\ h.stored # NoSession => h.stored \in Range(sessions) /\ h.stored.id = h.session
<1>1. chat[t] \in Seq(TurnEntries) /\ memento.epoch \in Nat /\ talk \in [Threads -> Handlers]
  BY DEF SessionInv, SessionTypes, Mementos
<1>2. PICK n \in Nat : n = Len(chat[t])
  BY <1>1
<1>3. n < MaxTurns /\ In(t, "idle")
  BY <1>2 DEF StartTurn
<1>4. PICK run : run = <<t, n + 1>>
  OBVIOUS
<1>5. run \in Turns /\ run = RunOf(t)
  <2>1. n + 1 \in 1..MaxTurns
    BY <1>3, SessionConstants
  <2> QED
    BY <1>2, <1>4, <2>1 DEF Turns, RunOf
<1>6. ~KnownTurn(run)
  <2>1. Opened(t) = n
    BY <1>2, <1>3 DEF Opened
  <2>2. run[1] = t /\ run[2] = n + 1
    BY <1>4
  <2> QED
    BY <2>1, <2>2 DEF KnownTurn
<1>7. PICK known : known = SessionIdFromHistory(chat[t], memento.epoch)
  OBVIOUS
<1>8. known # NoSession => known \in Turns /\ Used(known, memento.epoch)
  <2> SUFFICES ASSUME known # NoSession
               PROVE  known \in Turns /\ Used(known, memento.epoch)
    OBVIOUS
  <2>1. PICK u \in Range(chat[t]) : u.session = known /\ u.epoch = memento.epoch
    BY <1>1, <1>7, SessionFromHistory
  <2>2. u \in TurnEntries
    BY <1>1, RangeOfSeq
  <2> QED
    BY <1>1, <2>1, <2>2 DEF TurnEntries, Used, UsedBy
<1>9. PICK id : id = IF known = NoSession THEN run ELSE known
  OBVIOUS
<1>10. id \in Turns /\ (Used(id, memento.epoch) \/ id = run)
  BY <1>5, <1>8, <1>9
<1>11. PICK stored : stored = Get(id)
  OBVIOUS
<1>12. stored # NoSession => stored \in Range(sessions) /\ stored.id = id
  BY <1>11, StoredSession
<1>13. stored \in Sessions \union {NoSession}
  <2>1. sessions \in Seq(Sessions)
    BY SessionListSeq DEF SessionInv, SessionTypes
  <2>2. Range(sessions) \subseteq Sessions
    BY <2>1, RangeOfSeq
  <2> QED
    BY <1>12, <2>2
<1>14. PICK sent : sent = BoundChatHistory(HistorySinceContextEpoch(chat[t], memento.epoch))
  OBVIOUS
<1>15. sent \in Seq(TurnEntries) /\ sent \in BoundedSeq(Range(chat[t]), MaxHistory)
  BY <1>1, <1>14, HistoryBounded
<1>16. PICK h : h = [stage |-> "running", run |-> run, epoch |-> memento.epoch, session |-> id,
                     stored |-> stored, history |-> sent]
  OBVIOUS
<1>17. talk' = [talk EXCEPT ![t] = h]
  BY <1>5, <1>7, <1>9, <1>11, <1>14, <1>16 DEF StartTurn, Speak
<1>18. h \in Handlers
  BY <1>1, <1>5, <1>10, <1>13, <1>15, <1>16 DEF Handlers
<1>19. /\ h.stage = "running" /\ h.run = run /\ h.epoch = memento.epoch /\ h.session = id
       /\ h.stored = stored /\ h.history = sent
  BY <1>16
<1> QED
  BY <1>2, <1>4, <1>5, <1>6, <1>10, <1>12, <1>15, <1>17, <1>18, <1>19

(* What the handler of a new turn reads.                                    *)
LEMMA ReadsCleared ==
  ASSUME SessionInv, NEW s \in Range(sessions), NEW run, ~KnownTurn(run),
         Used(s.id, memento.epoch) \/ s.id = run
  PROVE  Sendable(s) /\ Untouched(s)
<1>1. KnownTurn(s.id)
  BY DEF SessionInv, OfKnownTurns, Stored
<1>2. Used(s.id, memento.epoch)
  BY <1>1
<1>3. memento.epoch \in Nat /\ disk.epoch \in Nat /\ memento.epoch >= disk.epoch
  BY DEF SessionInv, SessionTypes, Mementos
<1>4. Sendable(s)
  BY <1>2, <1>3 DEF SessionInv, ClearedLists, Stored
<1>5. Untouched(s)
  BY <1>2, <1>3 DEF SessionInv, ClearedLists
<1> QED
  BY <1>4, <1>5

LEMMA StartTurnStep ==
  ASSUME SessionInv, NEW t \in Threads, StartTurn(t)
  PROVE  SessionInv'
<1>1. PICK h \in Handlers :
        /\ h.stage = "running" /\ h.run = <<t, Len(chat[t]) + 1>> /\ h.epoch = memento.epoch
        /\ h.history \in BoundedSeq(Range(chat[t]), MaxHistory)
        /\ talk' = [talk EXCEPT ![t] = h]
        /\ h.run \in Turns /\ ~KnownTurn(h.run)
        /\ Used(h.session, memento.epoch) \/ h.session = h.run
        /\ h.stored # NoSession => h.stored \in Range(sessions) /\ h.stored.id = h.session
  BY TurnStarted
<1>2. /\ UNCHANGED <<sessions, memento, disk, chat, clear, forgotten, counts>>
      /\ In(t, "idle") /\ Len(chat[t]) < MaxTurns
  BY DEF StartTurn
<1>3. /\ talk \in [Threads -> Handlers] /\ memento.epoch \in Nat
      /\ chat \in [Threads -> Seq(TurnEntries)]
  BY DEF SessionInv, SessionTypes, Mementos
<1>4. \A u \in Threads : talk'[u] = IF u = t THEN h ELSE talk[u]
  BY <1>1, <1>3
<1>5. SessionTypes'
  BY <1>1, <1>2, <1>3 DEF SessionInv, SessionTypes
<1>6. Placed'
  <2> SUFFICES ASSUME NEW u \in Threads
               PROVE  /\ \A i \in DOMAIN chat[u] : chat[u][i].run = <<u, i>>
                      /\ Active(u)' => Len(chat[u]) < MaxTurns /\ talk'[u].run = <<u, Len(chat[u]) + 1>>
                      /\ talk'[u].history \in BoundedSeq(Range(chat[u]), MaxHistory)
    BY <1>2 DEF Placed
  <2>1. CASE u = t
    BY <1>1, <1>2, <1>4, <2>1 DEF SessionInv, Placed
  <2>2. CASE u # t
    BY <1>4, <2>2 DEF SessionInv, Placed, Active
  <2> QED
    BY <2>1, <2>2
<1>7. ASSUME NEW y, NEW k, Used(y, k)'
      PROVE  Used(y, k) \/ (y = h.session /\ k = memento.epoch)
  <2>1. PICK u \in Threads : UsedBy(u, y, k)'
    BY <1>7 DEF Used
  <2>2. CASE u = t
    BY <1>1, <1>2, <1>4, <2>1, <2>2 DEF Used, UsedBy
  <2>3. CASE u # t
    BY <1>2, <1>4, <2>1, <2>3 DEF Used, UsedBy, Active
  <2> QED
    BY <2>2, <2>3
<1>8. ASSUME NEW y, KnownTurn(y)
      PROVE  KnownTurn(y)'
  <2>1. PICK u \in Threads : u = y[1]
    BY <1>8 DEF KnownTurn, Turns
  <2>2. y \in Turns /\ y[2] <= Opened(u) /\ y[2] \in Nat
    BY <1>8, <2>1 DEF KnownTurn, Turns
  <2>3. PICK n \in Nat : n = Len(chat[u])
    BY <1>3
  <2>4. CASE u = t
    <3>1. ~In(u, "idle")'
      BY <1>1, <1>4, <2>4 DEF In
    <3>2. Opened(u) = n
      BY <1>2, <2>3, <2>4 DEF Opened
    <3>3. Opened(u)' = n + 1
      BY <1>2, <2>3, <3>1 DEF Opened
    <3>4. y[2] <= Opened(u)'
      BY <2>2, <3>2, <3>3
    <3> QED
      BY <2>1, <2>2, <3>4 DEF KnownTurn
  <2>5. CASE u # t
    <3>1. Opened(u)' = Opened(u)
      BY <1>2, <1>4, <2>5 DEF Opened, In
    <3> QED
      BY <2>1, <2>2, <3>1 DEF KnownTurn
  <2> QED
    BY <2>4, <2>5
<1>9. KnownTurn(h.run)'
  <2>1. PICK n \in Nat : n = Len(chat[t])
    BY <1>3
  <2>2. ~In(t, "idle")'
    BY <1>1, <1>4 DEF In
  <2>3. Opened(t)' = n + 1
    BY <1>2, <2>1, <2>2 DEF Opened
  <2>4. h.run[1] = t /\ h.run[2] = n + 1
    BY <1>1, <2>1
  <2> QED
    BY <1>1, <2>3, <2>4 DEF KnownTurn
<1>10. Stored' = Stored
  BY <1>2 DEF Stored
<1>11. OfKnownTurns'
  <2>1. \A s \in Stored' : KnownTurn(s.id)'
    <3> TAKE s \in Stored'
    <3>1. PICK y : y = s.id
      OBVIOUS
    <3>2. KnownTurn(y)'
      BY <1>8, <1>10, <3>1 DEF SessionInv, OfKnownTurns
    <3> QED
      BY <3>1, <3>2 DEF KnownTurn
  <2>2. \A y \in (forgotten \union clear.begun)' : KnownTurn(y)'
    BY <1>2, <1>8 DEF SessionInv, OfKnownTurns
  <2>3. ASSUME NEW y, NEW k \in Nat, Used(y, k)'
        PROVE  KnownTurn(y)'
    <3>1. CASE Used(y, k)
      BY <1>8, <3>1 DEF SessionInv, OfKnownTurns
    <3>2. CASE y = h.session /\ Used(h.session, memento.epoch)
      BY <1>3, <1>8, <3>2 DEF SessionInv, OfKnownTurns
    <3>3. CASE y = h.run
      BY <1>9, <3>3
    <3> QED
      BY <1>1, <1>7, <2>3, <3>1, <3>2, <3>3
  <2>4. ASSUME NEW y, NEW k \in Nat, NEW m \in Nat, Used(y, k)', Used(y, m)'
        PROVE  k = m
    <3>1. \A e \in Nat : Used(h.run, e) => FALSE
      BY <1>1 DEF SessionInv, OfKnownTurns
    <3>2. \A e \in Nat : Used(h.session, e) => e = memento.epoch
      BY <1>1, <1>3, <3>1 DEF SessionInv, OfKnownTurns
    <3>3. CASE y = h.session
      BY <1>7, <2>4, <3>2, <3>3
    <3>4. CASE y # h.session
      BY <1>7, <2>4, <3>4 DEF SessionInv, OfKnownTurns
    <3> QED
      BY <3>3, <3>4
  <2> QED
    BY <2>1, <2>2, <2>3, <2>4 DEF OfKnownTurns
<1>12. ASSUME NEW s \in Stored, NEW k \in Nat, Used(s.id, k)'
       PROVE  Used(s.id, k)
  <2>1. s.id # h.run
    BY <1>1 DEF SessionInv, OfKnownTurns
  <2> QED
    BY <1>1, <1>7, <1>12, <2>1
<1>13. ClearedLists'
  <2>1. \A s : Sendable(s)' = Sendable(s) /\ Untouched(s)' = Untouched(s)
    BY <1>2 DEF Sendable, Untouched
  <2> QED
    BY <1>2, <1>10, <1>12, <2>1 DEF SessionInv, ClearedLists, Stored
<1>14. ClearedHandlers'
  <2> SUFFICES ASSUME NEW u \in Threads, Active(u)'
               PROVE  /\ talk'[u].epoch <= memento.epoch
                      /\ talk'[u].epoch >= disk.epoch =>
                           /\ talk'[u].run \notin forgotten
                           /\ talk'[u].stored # NoSession =>
                                /\ Range(talk'[u].stored.runs) \intersect forgotten = {}
                                /\ talk'[u].stored.repositoryState \notin forgotten
                      /\ talk'[u].epoch = memento.epoch =>
                           /\ talk'[u].run \notin clear.begun
                           /\ talk'[u].stored # NoSession =>
                                /\ Range(talk'[u].stored.runs) \intersect clear.begun = {}
                                /\ talk'[u].stored.repositoryState \notin clear.begun
    BY <1>2 DEF ClearedHandlers, Sendable, Untouched
  <2>1. CASE u = t
    <3>1. talk'[u] = h
      BY <1>4, <2>1
    <3>2. h.run \notin forgotten /\ h.run \notin clear.begun
      BY <1>1 DEF SessionInv, OfKnownTurns
    <3>3. h.stored # NoSession => Sendable(h.stored) /\ Untouched(h.stored)
      BY <1>1, ReadsCleared
    <3>4. h.epoch = memento.epoch
      BY <1>1
    <3> QED
      BY <1>3, <3>1, <3>2, <3>3, <3>4 DEF Sendable, Untouched
  <2>2. CASE u # t
    <3>1. talk'[u] = talk[u] /\ Active(u)
      BY <1>4, <2>2 DEF Active
    <3> QED
      BY <3>1 DEF SessionInv, ClearedHandlers, Sendable, Untouched
  <2> QED
    BY <2>1, <2>2
<1>15. Saving'
  <2>1. \A u \in Threads : In(u, "storing") => In(u, "storing")'
    BY <1>2, <1>4 DEF In
  <2> QED
    BY <1>2, <2>1 DEF SessionInv, Saving
<1> QED
  BY <1>5, <1>6, <1>11, <1>13, <1>14, <1>15 DEF SessionInv

-----------------------------------------------------------------------------
LEMMA SessionInvKept == SessionInv /\ [SessionNext]_sessionVars => SessionInv'
<1> SUFFICES ASSUME SessionInv, [SessionNext]_sessionVars PROVE SessionInv'
  OBVIOUS
<1>1. ASSUME NEW t \in Threads,
             StartTurn(t) \/ TurnFails(t) \/ RunChat(t) \/ Record(t) \/ TurnEnds(t)
      PROVE  SessionInv'
  BY <1>1, StartTurnStep, TurnFailsStep, RunChatStep, RecordStep, TurnEndsStep
<1>2. CASE UNCHANGED sessionVars
  <2>1. UNCHANGED <<sessions, memento, disk, chat, talk, clear, forgotten, counts>>
    BY <1>2 DEF sessionVars
  <2>2. Recedes
    BY <2>1, SameRecedes DEF SessionInv
  <2>3. Settles
    BY <2>1, <2>2 DEF SessionInv, SessionTypes, Settles
  <2>4. Saving'
    BY <2>1 DEF SessionInv, Saving, In
  <2> QED
    BY <2>3, <2>4, SettlesStep DEF SessionInv
<1> QED
  BY <1>1, <1>2, ClearBeginsStep, ClearStoresListStep, ClearEndsStep, ClearFailsStep, ReloadStep
     DEF SessionNext

LEMMA SessionInvGives == SessionInv => StoreIsSaved
<1> SUFFICES ASSUME SessionInv PROVE StoreIsSaved
  OBVIOUS
<1>1. ASSUME NEW l \in SessionLists
      PROVE  Range(l) \subseteq Sessions /\ Len(l) <= MaxSessions
  BY SessionListSeq, RangeOfSeq
<1>2. \A m \in {memento, disk} : m.epoch \in 0..MaxClears /\ Range(m.list) \subseteq Sessions
  <2>1. /\ memento.list \in SessionLists /\ disk.list \in SessionLists
        /\ memento.epoch \in Nat /\ disk.epoch \in Nat /\ disk.epoch <= memento.epoch
        /\ memento.epoch <= counts.clears /\ counts.clears \in 0..MaxClears
    BY DEF SessionInv, SessionTypes, Mementos
  <2>2. memento.epoch \in 0..MaxClears /\ disk.epoch \in 0..MaxClears
    BY <2>1, SessionConstants
  <2> QED
    BY <1>1, <2>1, <2>2
<1>3. /\ Len(sessions) <= MaxSessions /\ Range(sessions) \subseteq Sessions
      /\ \A i, j \in DOMAIN sessions : sessions[i].id = sessions[j].id => i = j
  BY <1>1 DEF SessionInv, SessionTypes, SessionLists
<1>4. \A t \in Threads :
        /\ talk[t].stage \in {"idle", "running", "answered", "storing"}
        /\ talk[t].history \in BoundedSeq(Range(chat[t]), MaxHistory)
        /\ talk[t].stored \in Sessions \union {NoSession}
  BY DEF SessionInv, SessionTypes, Placed, Handlers
<1>5. NothingUnsaved
  BY DEF SessionInv, Saving, NothingUnsaved, In
<1> QED
  BY <1>2, <1>3, <1>4, <1>5 DEF StoreIsSaved, SessionTypeOK

(* Only the start of a turn makes a handler run.                            *)
LEMMA OthersRecede ==
  ASSUME SessionInv, [SessionNext]_sessionVars, \A t \in Threads : ~StartTurn(t)
  PROVE  Recedes
<1>1. ASSUME NEW t \in Threads, TurnFails(t) \/ TurnEnds(t)
      PROVE  Recedes
  <2>1. Active(t)
    BY <1>1 DEF TurnFails, TurnEnds, In, Active
  <2> QED
    BY <1>1, <2>1, EndTurnRecedes DEF SessionInv, TurnFails, TurnEnds
<1>2. ASSUME NEW t \in Threads, RunChat(t) \/ Record(t)
      PROVE  Recedes
  <2>1. Active(t) /\ chat' = chat
    BY <1>2 DEF RunChat, Record, In, Active
  <2>2. PICK stage \in {"answered", "storing"} :
          talk' = [talk EXCEPT ![t] = [talk[t] EXCEPT !.stage = stage]]
    BY <1>2 DEF RunChat, Record, Speak
  <2> QED
    BY <2>1, <2>2, StageRecedes DEF SessionInv
<1>3. ASSUME ClearBegins \/ ClearStoresList \/ ClearEnds \/ ClearFails \/ UNCHANGED sessionVars
      PROVE  Recedes
  <2>1. UNCHANGED <<chat, talk>>
    BY <1>3 DEF ClearBegins, ClearStoresList, ClearEnds, ClearFails, sessionVars
  <2> QED
    BY <2>1, SameRecedes DEF SessionInv
<1>4. Reload => Recedes
  BY ReloadRecedes DEF SessionInv
<1> QED
  BY <1>1, <1>2, <1>3, <1>4 DEF SessionNext

(* The step that ClearedIsNotSent is about.                                 *)
SendsCleared ==
  \A t \in Threads :
    In(t, "idle") /\ talk'[t].stage = "running" /\ talk'[t].stored # NoSession =>
      /\ Range(talk'[t].stored.runs) \intersect forgotten = {}
      /\ talk'[t].stored.repositoryState \notin forgotten

LEMMA SendsClearedStep == SessionInv /\ [SessionNext]_sessionVars => SendsCleared
<1> SUFFICES ASSUME SessionInv, [SessionNext]_sessionVars, NEW t \in Threads,
                    In(t, "idle"), talk'[t].stage = "running", talk'[t].stored # NoSession
             PROVE  /\ Range(talk'[t].stored.runs) \intersect forgotten = {}
                    /\ talk'[t].stored.repositoryState \notin forgotten
  BY DEF SendsCleared
<1>1. CASE \A u \in Threads : ~StartTurn(u)
  <2>1. Active(t)' => Active(t)
    BY <1>1, OthersRecede DEF Recedes, Carries
  <2> QED
    BY <2>1 DEF Active, In
<1>2. CASE \E u \in Threads : StartTurn(u)
  <2>1. PICK u \in Threads : StartTurn(u)
    BY <1>2
  <2>2. PICK h \in Handlers :
          /\ talk' = [talk EXCEPT ![u] = h] /\ ~KnownTurn(h.run)
          /\ Used(h.session, memento.epoch) \/ h.session = h.run
          /\ h.stored # NoSession => h.stored \in Range(sessions) /\ h.stored.id = h.session
    BY <2>1, TurnStarted
  <2>3. talk \in [Threads -> Handlers]
    BY DEF SessionInv, SessionTypes
  <2>4. t = u /\ talk'[t] = h
    BY <2>2, <2>3 DEF In
  <2>5. Sendable(h.stored)
    BY <2>2, <2>4, ReadsCleared
  <2> QED
    BY <2>4, <2>5 DEF Sendable
<1> QED
  BY <1>1, <1>2

(* The session store stays within its bounds with every session once, and   *)
(* what the editor holds is what the extension uses whenever nothing is     *)
(* under way and no update failed: for any number of threads, turns, clears *)
(* and reloads (session.ts, participant.ts).                                *)
THEOREM StoreIsSavedHolds == SessionSpec => []StoreIsSaved
<1>1. SessionInit => SessionInv
  BY SessionInvInitially
<1>2. SessionInv /\ [SessionNext]_sessionVars => SessionInv'
  BY SessionInvKept
<1>3. SessionInv => StoreIsSaved
  BY SessionInvGives
<1> QED
  BY <1>1, <1>2, <1>3, PTL DEF SessionSpec

(* No request built after a clear has finished carries a run or a           *)
(* repository state from before it, whatever handlers wrote back since and  *)
(* wherever the window was reloaded (session.ts, participant.ts).           *)
THEOREM ClearedIsNotSentHolds == SessionSpec => ClearedIsNotSent
<1>1. SessionInit => SessionInv
  BY SessionInvInitially
<1>2. SessionInv /\ [SessionNext]_sessionVars => SessionInv'
  BY SessionInvKept
<1>3. SessionInv /\ [SessionNext]_sessionVars => [SendsCleared]_sessionVars
  BY SendsClearedStep
<1>4. SessionSpec => [][SendsCleared]_sessionVars
  BY <1>1, <1>2, <1>3, PTL DEF SessionSpec
<1> QED
  BY <1>4 DEF ClearedIsNotSent, SendsCleared

-----------------------------------------------------------------------------
(* EditPlan.  Texts and folds.                                              *)

(* What holds of 0, and of k + 1 when it holds of k, holds up to n: the     *)
(* numbers for which it does not have no least one.                         *)
LEMMA CountingUp ==
  ASSUME NEW n \in Nat, NEW S, 0 \in S, \A k \in 0..n : k < n /\ k \in S => k + 1 \in S
  PROVE  0..n \subseteq S
<1> DEFINE R == OpToRel(<, Nat)
           T == {k \in 0..n : k \notin S}
<1>1. SUFFICES ASSUME T # {} PROVE FALSE
  OBVIOUS
<1>2. T \subseteq Nat
  OBVIOUS
<1>3. \E i \in T : \A j \in T : ~(<<j, i>> \in R)
  BY <1>1, <1>2, NatLessThanWellFounded, WFMin
<1>4. \A i, j \in T : j < i => <<j, i>> \in R
  BY <1>2 DEF OpToRel
<1> HIDE DEF R
<1>5. PICK i \in T : \A j \in T : ~(j < i)
  BY <1>3, <1>4
<1>6. i # 0 /\ i - 1 \in 0..n /\ i - 1 < n /\ i - 1 < i
  OBVIOUS
<1>7. i - 1 \in S
  BY <1>5, <1>6
<1>8. (i - 1) + 1 \in S
  BY <1>6, <1>7
<1> QED
  BY <1>8

(* Some of the first n numbers have a greatest one.                         *)
LEMMA GreatestOf ==
  ASSUME NEW n \in Nat, NEW s \in SUBSET (1..n), s # {}
  PROVE  /\ Max(s) \in s
         /\ \A i \in s : i <= Max(s)
<1> DEFINE S == {k \in Nat : (\E i \in s : i <= k) => \E i \in s : \A j \in s : j <= k => j <= i}
<1>1. 0 \in S
  OBVIOUS
<1>2. ASSUME NEW k \in 0..n, k < n, k \in S PROVE k + 1 \in S
  <2>1. CASE k + 1 \in s
    <3>1. \A j \in s : j <= k + 1 => j <= k + 1
      OBVIOUS
    <3> QED BY <2>1, <3>1
  <2>2. CASE k + 1 \notin s
    <3>1. \A j \in s : j <= k + 1 => j <= k
      BY <2>2
    <3>2. \A j \in s : j <= k => j <= k + 1
      OBVIOUS
    <3> QED BY <1>2, <3>1, <3>2
  <2> QED BY <2>1, <2>2
<1>3. n \in S
  <2>1. 0..n \subseteq S
    <3> HIDE DEF S
    <3> QED BY <1>1, <1>2, CountingUp
  <2> QED BY <2>1
<1>4. \E i \in s : \A j \in s : j <= i
  <2>1. \A j \in s : j <= n
    OBVIOUS
  <2>2. \E i \in s : i <= n
    BY <2>1
  <2> QED BY <1>3, <2>1, <2>2
<1>5. \E i \in s : \A j \in s : i >= j
  BY <1>4
<1> QED
  BY <1>5 DEF Max

(* Which one, when it is known.                                             *)
LEMMA GreatestIs ==
  ASSUME NEW m \in Int, NEW s, m \in s, \A i \in s : i \in Int /\ i <= m
  PROVE  Max(s) = m
<1>1. \A i \in s : (\A j \in s : i >= j) => i = m
  OBVIOUS
<1>2. \A j \in s : m >= j
  OBVIOUS
<1> QED
  BY <1>1, <1>2 DEF Max

(* A fold over a sequence comes from a function on sets of places; so does  *)
(* its value at each prefix.  This is what replaces ranges one by one.      *)
AllReplaced(text, ops, q) ==
  FoldLeft(LAMBDA u, i : Replaced(u, ops[i]), text, q)

(* The texts between them.                                                  *)
Replacements(text, ops, n, q, t) ==
  /\ t[0] = text
  /\ \A k \in 1..n : t[k] = Replaced(t[k - 1], ops[q[k]])
  /\ t[n] = AllReplaced(text, ops, q)

(* Each text is the one before it with one more range replaced.             *)
LEMMA ReplacedInTurn ==
  ASSUME NEW text, NEW ops, NEW n \in Nat, NEW q, DOMAIN q = 1..n
  PROVE  \E t : Replacements(text, ops, n, q, t)
<1> DEFINE FoldStep(g, s) == IF s = {} THEN text ELSE Replaced(g[s \ {Max(s)}], ops[q[Max(s)]])
           Folds(m, g) == g = [s \in SUBSET (1..m) |-> FoldStep(g, s)]
           S == {m \in Nat : \E g : Folds(m, g)}
<1>1. 0 \in S
  <2> DEFINE g == [s \in SUBSET (1..0) |-> text]
  <2>1. \A s \in SUBSET (1..0) : s = {}
    OBVIOUS
  <2>2. Folds(0, g)
    BY <2>1
  <2> QED BY <2>2
<1>2. ASSUME NEW m \in 0..n, m < n, m \in S PROVE m + 1 \in S
  <2>1. PICK g : Folds(m, g)
    BY <1>2
  <2> DEFINE h == [s \in SUBSET (1..(m + 1)) |->
                     IF m + 1 \in s THEN Replaced(g[s \ {m + 1}], ops[q[m + 1]]) ELSE g[s]]
  <2>2. ASSUME NEW s \in SUBSET (1..(m + 1)) PROVE h[s] = FoldStep(h, s)
    <3>1. CASE s = {}
      <4>1. m + 1 \notin s /\ s \in SUBSET (1..m)
        BY <3>1
      <4>2. h[s] = g[s] /\ g[s] = text
        BY <2>1, <3>1, <4>1
      <4> QED BY <3>1, <4>2
    <3>2. CASE s # {} /\ m + 1 \in s
      <4>1. Max(s) = m + 1
        <5> HIDE DEF FoldStep, Folds, S, h
        <5>1. m + 1 \in Int /\ \A i \in s : i \in Int /\ i <= m + 1
          OBVIOUS
        <5> QED BY <3>2, <5>1, GreatestIs
      <4>2. s \ {m + 1} \in SUBSET (1..(m + 1)) /\ s \ {m + 1} \in SUBSET (1..m)
        OBVIOUS
      <4>3. h[s \ {m + 1}] = g[s \ {m + 1}]
        BY <4>2
      <4> QED BY <3>2, <4>1, <4>3
    <3>3. CASE s # {} /\ m + 1 \notin s
      <4>1. s \in SUBSET (1..m)
        BY <3>3
      <4>2. Max(s) \in s
        <5> HIDE DEF FoldStep, Folds, S, h
        <5>1. m \in Nat
          OBVIOUS
        <5> QED BY <3>3, <4>1, <5>1, GreatestOf
      <4>3. /\ s \ {Max(s)} \in SUBSET (1..(m + 1)) /\ s \ {Max(s)} \in SUBSET (1..m)
            /\ m + 1 \notin s \ {Max(s)}
        BY <3>3, <4>1
      <4>4. h[s \ {Max(s)}] = g[s \ {Max(s)}] /\ h[s] = g[s]
        BY <3>3, <4>3
      <4>5. g[s] = Replaced(g[s \ {Max(s)}], ops[q[Max(s)]])
        BY <2>1, <3>3, <4>1
      <4> QED BY <3>3, <4>4, <4>5
    <3> QED BY <3>1, <3>2, <3>3
  <2> HIDE DEF FoldStep
  <2>3. Folds(m + 1, h)
    BY <2>2
  <2> HIDE DEF Folds, h
  <2> QED BY <2>3
<1> HIDE DEF S
<1>3. n \in S
  <2>1. 0..n \subseteq S
    BY <1>1, <1>2, CountingUp
  <2> QED BY <2>1
<1> USE DEF S
<1> DEFINE f == CHOOSE g : Folds(n, g)
<1>4. AllReplaced(text, ops, q) = f[1..n]
  BY DEF AllReplaced, FoldLeft, MapThenFoldSet
<1>5. Folds(n, f)
  <2> HIDE DEF Folds
  <2> QED BY <1>3
<1> HIDE DEF f, S
<1> DEFINE t == [k \in 0..n |-> f[1..k]]
<1>6. t[0] = text
  <2>1. 1..0 = {} /\ {} \in SUBSET (1..n)
    OBVIOUS
  <2> QED BY <1>5, <2>1
<1>7. ASSUME NEW k \in 1..n PROVE t[k] = Replaced(t[k - 1], ops[q[k]])
  <2>1. 1..k \in SUBSET (1..n) /\ 1..k # {} /\ (1..k) \ {k} = 1..(k - 1)
    OBVIOUS
  <2>2. Max(1..k) = k
    <3>1. k \in Int /\ k \in 1..k /\ \A i \in 1..k : i \in Int /\ i <= k
      OBVIOUS
    <3> HIDE DEF FoldStep, Folds, t
    <3> QED BY <3>1, GreatestIs
  <2>3. f[1..k] = Replaced(f[(1..k) \ {k}], ops[q[k]])
    BY <1>5, <2>1, <2>2
  <2>4. t[k] = f[1..k] /\ t[k - 1] = f[1..(k - 1)]
    OBVIOUS
  <2> QED BY <2>1, <2>3, <2>4
<1> HIDE DEF FoldStep, Folds
<1>8. t[n] = f[1..n]
  OBVIOUS
<1> HIDE DEF t
<1> QED
  BY <1>4, <1>6, <1>7, <1>8 DEF Replacements
(* The same of what is put together from left to right.                     *)
Unmade == [text |-> <<>>, at |-> 0]

PutTogether(text, ops, q) ==
  FoldLeft(LAMBDA u, i : Piece(text, u, ops[i]), Unmade, q)

LEMMA PutTogetherInTurn ==
  ASSUME NEW text, NEW ops, NEW n \in Nat, NEW q, DOMAIN q = 1..n
  PROVE  \E t : /\ t[0] = Unmade
                /\ \A k \in 1..n : t[k] = Piece(text, t[k - 1], ops[q[k]])
                /\ t[n] = PutTogether(text, ops, q)
<1> DEFINE FoldStep(g, s) == IF s = {} THEN Unmade ELSE Piece(text, g[s \ {Max(s)}], ops[q[Max(s)]])
           Folds(m, g) == g = [s \in SUBSET (1..m) |-> FoldStep(g, s)]
           S == {m \in Nat : \E g : Folds(m, g)}
<1>1. 0 \in S
  <2> DEFINE g == [s \in SUBSET (1..0) |-> Unmade]
  <2>1. \A s \in SUBSET (1..0) : s = {}
    OBVIOUS
  <2>2. Folds(0, g)
    BY <2>1
  <2> QED BY <2>2
<1>2. ASSUME NEW m \in 0..n, m < n, m \in S PROVE m + 1 \in S
  <2>1. PICK g : Folds(m, g)
    BY <1>2
  <2> DEFINE h == [s \in SUBSET (1..(m + 1)) |->
                     IF m + 1 \in s THEN Piece(text, g[s \ {m + 1}], ops[q[m + 1]]) ELSE g[s]]
  <2>2. ASSUME NEW s \in SUBSET (1..(m + 1)) PROVE h[s] = FoldStep(h, s)
    <3>1. CASE s = {}
      <4>1. m + 1 \notin s /\ s \in SUBSET (1..m)
        BY <3>1
      <4>2. h[s] = g[s] /\ g[s] = Unmade
        BY <2>1, <3>1, <4>1
      <4> QED BY <3>1, <4>2
    <3>2. CASE s # {} /\ m + 1 \in s
      <4>1. Max(s) = m + 1
        <5> HIDE DEF FoldStep, Folds, S, h
        <5>1. m + 1 \in Int /\ \A i \in s : i \in Int /\ i <= m + 1
          OBVIOUS
        <5> QED BY <3>2, <5>1, GreatestIs
      <4>2. s \ {m + 1} \in SUBSET (1..(m + 1)) /\ s \ {m + 1} \in SUBSET (1..m)
        OBVIOUS
      <4>3. h[s \ {m + 1}] = g[s \ {m + 1}]
        BY <4>2
      <4> QED BY <3>2, <4>1, <4>3
    <3>3. CASE s # {} /\ m + 1 \notin s
      <4>1. s \in SUBSET (1..m)
        BY <3>3
      <4>2. Max(s) \in s
        <5> HIDE DEF FoldStep, Folds, S, h
        <5>1. m \in Nat
          OBVIOUS
        <5> QED BY <3>3, <4>1, <5>1, GreatestOf
      <4>3. /\ s \ {Max(s)} \in SUBSET (1..(m + 1)) /\ s \ {Max(s)} \in SUBSET (1..m)
            /\ m + 1 \notin s \ {Max(s)}
        BY <3>3, <4>1
      <4>4. h[s \ {Max(s)}] = g[s \ {Max(s)}] /\ h[s] = g[s]
        BY <3>3, <4>3
      <4>5. g[s] = Piece(text, g[s \ {Max(s)}], ops[q[Max(s)]])
        BY <2>1, <3>3, <4>1
      <4> QED BY <3>3, <4>4, <4>5
    <3> QED BY <3>1, <3>2, <3>3
  <2> HIDE DEF FoldStep
  <2>3. Folds(m + 1, h)
    BY <2>2
  <2> HIDE DEF Folds, h
  <2> QED BY <2>3
<1> HIDE DEF S
<1>3. n \in S
  <2>1. 0..n \subseteq S
    BY <1>1, <1>2, CountingUp
  <2> QED BY <2>1
<1> USE DEF S
<1> DEFINE f == CHOOSE g : Folds(n, g)
<1>4. PutTogether(text, ops, q) = f[1..n]
  BY DEF PutTogether, FoldLeft, MapThenFoldSet
<1>5. Folds(n, f)
  <2> HIDE DEF Folds
  <2> QED BY <1>3
<1> HIDE DEF f, S
<1> DEFINE t == [k \in 0..n |-> f[1..k]]
<1>6. t[0] = Unmade
  <2>1. 1..0 = {} /\ {} \in SUBSET (1..n)
    OBVIOUS
  <2> QED BY <1>5, <2>1
<1>7. ASSUME NEW k \in 1..n PROVE t[k] = Piece(text, t[k - 1], ops[q[k]])
  <2>1. 1..k \in SUBSET (1..n) /\ 1..k # {} /\ (1..k) \ {k} = 1..(k - 1)
    OBVIOUS
  <2>2. Max(1..k) = k
    <3>1. k \in Int /\ k \in 1..k /\ \A i \in 1..k : i \in Int /\ i <= k
      OBVIOUS
    <3> HIDE DEF FoldStep, Folds, t
    <3> QED BY <3>1, GreatestIs
  <2>3. f[1..k] = Piece(text, f[(1..k) \ {k}], ops[q[k]])
    BY <1>5, <2>1, <2>2
  <2>4. t[k] = f[1..k] /\ t[k - 1] = f[1..(k - 1)]
    OBVIOUS
  <2> QED BY <2>1, <2>3, <2>4
<1> HIDE DEF FoldStep, Folds
<1>8. t[n] = f[1..n]
  OBVIOUS
<1> HIDE DEF t
<1> QED
  BY <1>4, <1>6, <1>7, <1>8
(* The same of the operations on one path.                                  *)
Picked(path, on, o) == IF o.path = path THEN Append(on, o) ELSE on

AllPicked(path, q) ==
  FoldLeft(LAMBDA u, o : IF o.path = path THEN Append(u, o) ELSE u, <<>>, q)

LEMMA PickedInTurn ==
  ASSUME NEW path, NEW n \in Nat, NEW q, DOMAIN q = 1..n
  PROVE  \E t : /\ t[0] = <<>>
                /\ \A k \in 1..n : t[k] = Picked(path, t[k - 1], q[k])
                /\ t[n] = AllPicked(path, q)
<1> DEFINE FoldStep(g, s) == IF s = {} THEN <<>> ELSE Picked(path, g[s \ {Max(s)}], q[Max(s)])
           Folds(m, g) == g = [s \in SUBSET (1..m) |-> FoldStep(g, s)]
           S == {m \in Nat : \E g : Folds(m, g)}
<1>1. 0 \in S
  <2> DEFINE g == [s \in SUBSET (1..0) |-> <<>>]
  <2>1. \A s \in SUBSET (1..0) : s = {}
    OBVIOUS
  <2>2. Folds(0, g)
    BY <2>1
  <2> QED BY <2>2
<1>2. ASSUME NEW m \in 0..n, m < n, m \in S PROVE m + 1 \in S
  <2>1. PICK g : Folds(m, g)
    BY <1>2
  <2> DEFINE h == [s \in SUBSET (1..(m + 1)) |->
                     IF m + 1 \in s THEN Picked(path, g[s \ {m + 1}], q[m + 1]) ELSE g[s]]
  <2>2. ASSUME NEW s \in SUBSET (1..(m + 1)) PROVE h[s] = FoldStep(h, s)
    <3>1. CASE s = {}
      <4>1. m + 1 \notin s /\ s \in SUBSET (1..m)
        BY <3>1
      <4>2. h[s] = g[s] /\ g[s] = <<>>
        BY <2>1, <3>1, <4>1
      <4> QED BY <3>1, <4>2
    <3>2. CASE s # {} /\ m + 1 \in s
      <4>1. Max(s) = m + 1
        <5> HIDE DEF FoldStep, Folds, S, h
        <5>1. m + 1 \in Int /\ \A i \in s : i \in Int /\ i <= m + 1
          OBVIOUS
        <5> QED BY <3>2, <5>1, GreatestIs
      <4>2. s \ {m + 1} \in SUBSET (1..(m + 1)) /\ s \ {m + 1} \in SUBSET (1..m)
        OBVIOUS
      <4>3. h[s \ {m + 1}] = g[s \ {m + 1}]
        BY <4>2
      <4> QED BY <3>2, <4>1, <4>3
    <3>3. CASE s # {} /\ m + 1 \notin s
      <4>1. s \in SUBSET (1..m)
        BY <3>3
      <4>2. Max(s) \in s
        <5> HIDE DEF FoldStep, Folds, S, h
        <5>1. m \in Nat
          OBVIOUS
        <5> QED BY <3>3, <4>1, <5>1, GreatestOf
      <4>3. /\ s \ {Max(s)} \in SUBSET (1..(m + 1)) /\ s \ {Max(s)} \in SUBSET (1..m)
            /\ m + 1 \notin s \ {Max(s)}
        BY <3>3, <4>1
      <4>4. h[s \ {Max(s)}] = g[s \ {Max(s)}] /\ h[s] = g[s]
        BY <3>3, <4>3
      <4>5. g[s] = Picked(path, g[s \ {Max(s)}], q[Max(s)])
        BY <2>1, <3>3, <4>1
      <4> QED BY <3>3, <4>4, <4>5
    <3> QED BY <3>1, <3>2, <3>3
  <2> HIDE DEF FoldStep
  <2>3. Folds(m + 1, h)
    BY <2>2
  <2> HIDE DEF Folds, h
  <2> QED BY <2>3
<1> HIDE DEF S
<1>3. n \in S
  <2>1. 0..n \subseteq S
    BY <1>1, <1>2, CountingUp
  <2> QED BY <2>1
<1> USE DEF S
<1> DEFINE f == CHOOSE g : Folds(n, g)
<1>4. AllPicked(path, q) = f[1..n]
  BY DEF AllPicked, FoldLeft, MapThenFoldSet, Picked
<1>5. Folds(n, f)
  <2> HIDE DEF Folds
  <2> QED BY <1>3
<1> HIDE DEF f, S
<1> DEFINE t == [k \in 0..n |-> f[1..k]]
<1>6. t[0] = <<>>
  <2>1. 1..0 = {} /\ {} \in SUBSET (1..n)
    OBVIOUS
  <2> QED BY <1>5, <2>1
<1>7. ASSUME NEW k \in 1..n PROVE t[k] = Picked(path, t[k - 1], q[k])
  <2>1. 1..k \in SUBSET (1..n) /\ 1..k # {} /\ (1..k) \ {k} = 1..(k - 1)
    OBVIOUS
  <2>2. Max(1..k) = k
    <3>1. k \in Int /\ k \in 1..k /\ \A i \in 1..k : i \in Int /\ i <= k
      OBVIOUS
    <3> HIDE DEF FoldStep, Folds, t
    <3> QED BY <3>1, GreatestIs
  <2>3. f[1..k] = Picked(path, f[(1..k) \ {k}], q[k])
    BY <1>5, <2>1, <2>2
  <2>4. t[k] = f[1..k] /\ t[k - 1] = f[1..(k - 1)]
    OBVIOUS
  <2> QED BY <2>1, <2>3, <2>4
<1> HIDE DEF FoldStep, Folds
<1>8. t[n] = f[1..n]
  OBVIOUS
<1> HIDE DEF t
<1> QED
  BY <1>4, <1>6, <1>7, <1>8
(* A finite strict total order of the first n numbers has a sorted sequence:*)
(* the place of each is the number of those that come before it.            *)
LEMMA SortedExists ==
  ASSUME NEW n \in Nat, NEW R,
         \A i \in 1..n : <<i, i>> \notin R,
         \A i, j, k \in 1..n : <<i, j>> \in R /\ <<j, k>> \in R => <<i, k>> \in R,
         \A i, j \in 1..n : i # j => <<i, j>> \in R \/ <<j, i>> \in R
  PROVE  \E q \in [1..n -> 1..n] : \A i, j \in 1..n : i < j => <<q[i], q[j]>> \in R
<1> DEFINE D == 1..n
           Earlier(i) == {j \in D : <<j, i>> \in R}
           place == [i \in D |-> Cardinality(Earlier(i)) + 1]
<1>1. IsFiniteSet(D) /\ Cardinality(D) = n
  BY FS_Interval
<1>2. ASSUME NEW i \in D
      PROVE  IsFiniteSet(Earlier(i)) /\ Cardinality(Earlier(i)) \in 0..(n - 1)
  <2>1. Earlier(i) \in SUBSET (D \ {i})
    OBVIOUS
  <2>2. IsFiniteSet(D \ {i}) /\ Cardinality(D \ {i}) = n - 1
    BY <1>1, FS_RemoveElement
  <2>3. IsFiniteSet(Earlier(i)) /\ Cardinality(Earlier(i)) <= Cardinality(D \ {i})
    <3> HIDE DEF Earlier, D
    <3> QED BY <2>1, <2>2, FS_Subset
  <2>4. Cardinality(Earlier(i)) \in Nat
    BY <2>3, FS_CardinalityType
  <2> QED BY <2>2, <2>3, <2>4
<1>3. ASSUME NEW i \in D, NEW j \in D, <<i, j>> \in R
      PROVE  place[i] < place[j]
  <2>1. Earlier(i) \in SUBSET Earlier(j) /\ i \in Earlier(j) /\ i \notin Earlier(i)
    BY <1>3
  <2>2. /\ Cardinality(Earlier(i)) <= Cardinality(Earlier(j))
        /\ Cardinality(Earlier(i)) # Cardinality(Earlier(j))
    <3>1. IsFiniteSet(Earlier(j))
      BY <1>2
    <3> HIDE DEF Earlier, D
    <3> QED BY <2>1, <3>1, FS_Subset
  <2>3. Cardinality(Earlier(i)) \in 0..(n - 1) /\ Cardinality(Earlier(j)) \in 0..(n - 1)
    <3> HIDE DEF Earlier, D
    <3> QED BY <1>2
  <2> HIDE DEF Earlier
  <2> QED BY <2>2, <2>3
<1>4. place \in [D -> D]
  <2>1. ASSUME NEW i \in D PROVE Cardinality(Earlier(i)) + 1 \in D
    <3>1. Cardinality(Earlier(i)) \in 0..(n - 1)
      BY <1>2
    <3> HIDE DEF Earlier
    <3> QED BY <3>1
  <2> HIDE DEF Earlier, D
  <2> QED BY <2>1
<1>5. \A i, j \in D : place[i] = place[j] => i = j
  <2> SUFFICES ASSUME NEW i \in D, NEW j \in D, i # j PROVE place[i] # place[j]
    OBVIOUS
  <2>1. place[i] \in Int /\ place[j] \in Int
    <3> HIDE DEF place
    <3> QED BY <1>4
  <2>2. place[i] < place[j] \/ place[j] < place[i]
    <3> HIDE DEF place
    <3> QED BY <1>3
  <2> HIDE DEF place
  <2> QED BY <2>1, <2>2
<1> HIDE DEF place, Earlier
<1>6. place \in Surjection(D, D)
  <2>1. place \in Injection(D, D)
    BY <1>4, <1>5 DEF Injection, IsInjective
  <2> QED BY <1>1, <2>1, FS_Injection
<1>7. \A m \in D : \E i \in D : place[i] = m
  BY <1>6 DEF Surjection
<1> DEFINE q == [m \in D |-> CHOOSE i \in D : place[i] = m]
<1>8. q \in [D -> D] /\ \A m \in D : place[q[m]] = m
  BY <1>7
<1>9. ASSUME NEW i \in D, NEW j \in D, i < j PROVE <<q[i], q[j]>> \in R
  <2>1. q[i] \in D /\ q[j] \in D /\ q[i] # q[j] /\ ~(place[q[j]] < place[q[i]])
    BY <1>8, <1>9
  <2> QED BY <1>3, <2>1
<1> QED
  BY <1>8, <1>9

(* Operations with ranges: the sequence that the code sorts them into.      *)
Ranged(ops, n) ==
  \A i \in 1..n : ops[i].start \in Nat /\ ops[i].end \in Nat

(* The operations of a file can be sorted from the last range to the first, *)
(* in one way that CHOOSE then finds.                                       *)
LEMMA LastFirstExists ==
  ASSUME NEW n \in Nat, NEW ops, Ranged(ops, n)
  PROVE  \E q \in [1..n -> 1..n] : \A i, j \in 1..n : i < j => LastFirst(ops, q[i], q[j])
<1> DEFINE R == {x \in (1..n) \X (1..n) : LastFirst(ops, x[1], x[2])}
<1>1. \A i, j \in 1..n : <<i, j>> \in R <=> LastFirst(ops, i, j)
  OBVIOUS
<1>2. \A i \in 1..n : <<i, i>> \notin R
  BY <1>1 DEF LastFirst, Ranged
<1>3. \A i, j, k \in 1..n : <<i, j>> \in R /\ <<j, k>> \in R => <<i, k>> \in R
  <2> HIDE DEF R
  <2> QED BY <1>1 DEF LastFirst, Ranged
<1>4. \A i, j \in 1..n : i # j => <<i, j>> \in R \/ <<j, i>> \in R
  <2> HIDE DEF R
  <2> QED BY <1>1 DEF LastFirst, Ranged
<1>5. \E q \in [1..n -> 1..n] : \A i, j \in 1..n : i < j => <<q[i], q[j]>> \in R
  <2> HIDE DEF R
  <2> QED BY <1>2, <1>3, <1>4, SortedExists
<1> QED
  BY <1>1, <1>5

(* Parts of texts.                                                          *)
LEMMA BytesOf ==
  ASSUME NEW B, NEW t \in Seq(B), NEW a \in Nat, NEW b \in Nat, a <= b, b <= Len(t)
  PROVE  /\ Bytes(t, a, b) \in Seq(B) /\ Len(Bytes(t, a, b)) = b - a
         /\ \A i \in 1..(b - a) : Bytes(t, a, b)[i] = t[a + i]
<1>1. \A i \in (a + 1)..b : t[i] \in B
  <2>1. \A i \in (a + 1)..b : i \in 1..Len(t)
    OBVIOUS
  <2> QED BY <2>1, ElementOfSeq
<1>2. /\ SubSeq(t, a + 1, b) \in Seq(B)
      /\ Len(SubSeq(t, a + 1, b)) = IF a + 1 <= b THEN b - (a + 1) + 1 ELSE 0
      /\ \A i \in 1..(b - (a + 1) + 1) : SubSeq(t, a + 1, b)[i] = t[(a + 1 + i) - 1]
  <2>1. a + 1 \in Int /\ b \in Int
    OBVIOUS
  <2> QED BY <1>1, <2>1, SubSeqProperties
<1>3. b - (a + 1) + 1 = b - a
  OBVIOUS
<1>4. \A i \in 1..(b - a) : (a + 1 + i) - 1 = a + i
  OBVIOUS
<1> QED
  BY <1>2, <1>3, <1>4 DEF Bytes

LEMMA BytesAt ==
  ASSUME NEW B, NEW t \in Seq(B), NEW a \in Nat, NEW b \in Nat, a <= b, b <= Len(t),
         NEW i \in 1..(b - a)
  PROVE  Bytes(t, a, b)[i] = t[a + i]
  BY BytesOf

LEMMA BytesIn ==
  ASSUME NEW B, NEW t \in Seq(B), NEW a \in Nat, NEW b \in Nat, a <= b, b <= Len(t)
  PROVE  Bytes(t, a, b) \in Seq(B) /\ Len(Bytes(t, a, b)) = b - a
  BY BytesOf

(* Two stretches that meet are one.                                         *)
LEMMA BytesMeet ==
  ASSUME NEW B, NEW t \in Seq(B), NEW a \in Nat, NEW b \in Nat, NEW c \in Nat,
         a <= b, b <= c, c <= Len(t)
  PROVE  Bytes(t, a, b) \o Bytes(t, b, c) = Bytes(t, a, c)
<1>1. Len(t) \in Nat
  BY LenProperties
<1>2. a + 1 \in 1..(Len(t) + 1) /\ b \in (a + 1) - 1..Len(t) /\ c \in b..Len(t)
  BY <1>1
<1> QED
  BY <1>2, ConcatAdjacentSubSeq DEF Bytes

(* A stretch of the first bytes is that stretch of the text.                *)
LEMMA BytesOfBytes ==
  ASSUME NEW B, NEW t \in Seq(B), NEW c \in Nat, c <= Len(t),
         NEW a \in Nat, NEW b \in Nat, a <= b, b <= c
  PROVE  Bytes(Bytes(t, 0, c), a, b) = Bytes(t, a, b)
<1>1. Len(t) \in Nat /\ b <= Len(t)
  BY LenProperties
<1> DEFINE u == Bytes(t, 0, c)
<1>2. u \in Seq(B) /\ Len(u) = c /\ \A i \in 1..c : u[i] = t[i]
  <2>1. c - 0 = c /\ \A i \in 1..c : 0 + i = i
    OBVIOUS
  <2>2. 0 \in Nat /\ 0 <= c
    OBVIOUS
  <2>3. /\ u \in Seq(B) /\ Len(u) = c - 0
        /\ \A i \in 1..(c - 0) : u[i] = t[0 + i]
    BY <2>2, BytesIn, BytesAt
  <2> QED BY <2>1, <2>3
<1> HIDE DEF u
<1>3. Bytes(u, a, b) \in Seq(B) /\ Len(Bytes(u, a, b)) = b - a
      /\ \A i \in 1..(b - a) : Bytes(u, a, b)[i] = u[a + i]
  <2>1. b <= Len(u)
    BY <1>2
  <2> QED BY <1>2, <2>1, BytesIn, BytesAt, ZenonT(60)
<1>4. Bytes(t, a, b) \in Seq(B) /\ Len(Bytes(t, a, b)) = b - a
      /\ \A i \in 1..(b - a) : Bytes(t, a, b)[i] = t[a + i]
  BY <1>1, BytesIn, BytesAt
<1>5. \A i \in 1..(b - a) : a + i \in 1..c
  OBVIOUS
<1>6. \A i \in 1..(b - a) : Bytes(u, a, b)[i] = Bytes(t, a, b)[i]
  BY <1>2, <1>3, <1>4, <1>5
<1>7. Bytes(u, a, b) = Bytes(t, a, b)
  BY <1>3, <1>4, <1>6, SeqEqual
<1> QED
  BY <1>7 DEF u

(* A stretch of the first of two texts.                                     *)
LEMMA BytesOfFirst ==
  ASSUME NEW B, NEW u \in Seq(B), NEW v \in Seq(B), NEW a \in Nat, NEW b \in Nat,
         a <= b, b <= Len(u)
  PROVE  Bytes(u \o v, a, b) = Bytes(u, a, b)
<1>1. /\ u \o v \in Seq(B) /\ Len(u \o v) = Len(u) + Len(v) /\ Len(u) \in Nat /\ Len(v) \in Nat
      /\ \A i \in 1..(Len(u) + Len(v)) : (u \o v)[i] = IF i <= Len(u) THEN u[i] ELSE v[i - Len(u)]
  BY ConcatProperties, LenProperties
<1>2. b <= Len(u \o v)
  BY <1>1
<1>3. /\ Bytes(u \o v, a, b) \in Seq(B) /\ Len(Bytes(u \o v, a, b)) = b - a
      /\ \A i \in 1..(b - a) : Bytes(u \o v, a, b)[i] = (u \o v)[a + i]
  BY <1>1, <1>2, BytesIn, BytesAt, ZenonT(60)
<1>4. /\ Bytes(u, a, b) \in Seq(B) /\ Len(Bytes(u, a, b)) = b - a
      /\ \A i \in 1..(b - a) : Bytes(u, a, b)[i] = u[a + i]
  BY BytesIn, BytesAt
<1>5. \A i \in 1..(b - a) : a + i \in 1..(Len(u) + Len(v)) /\ a + i <= Len(u)
  BY <1>1
<1>6. \A i \in 1..(b - a) : Bytes(u \o v, a, b)[i] = Bytes(u, a, b)[i]
  BY <1>1, <1>3, <1>4, <1>5
<1> QED
  BY <1>3, <1>4, <1>6, SeqEqual

(* The end of two texts is the end of the first, and the second.            *)
LEMMA BytesToTheEnd ==
  ASSUME NEW B, NEW u \in Seq(B), NEW v \in Seq(B), NEW a \in Nat, a <= Len(u)
  PROVE  Bytes(u \o v, a, Len(u \o v)) = Bytes(u, a, Len(u)) \o v
<1> DEFINE n == Len(u)
           m == Len(v)
<1>1. /\ u \o v \in Seq(B) /\ Len(u \o v) = n + m /\ n \in Nat /\ m \in Nat
      /\ \A i \in 1..(n + m) : (u \o v)[i] = IF i <= n THEN u[i] ELSE v[i - n]
  BY ConcatProperties, LenProperties
<1> HIDE DEF n, m
<1>2. a <= n + m /\ n + m <= Len(u \o v) /\ n + m \in Nat /\ a <= n /\ n <= Len(u)
  BY <1>1 DEF n
<1>3. /\ Bytes(u \o v, a, n + m) \in Seq(B) /\ Len(Bytes(u \o v, a, n + m)) = (n + m) - a
      /\ \A i \in 1..((n + m) - a) : Bytes(u \o v, a, n + m)[i] = (u \o v)[a + i]
  <2>1. \A z \in Seq(B), l \in Nat :
          a <= l /\ l <= Len(z) =>
            /\ Bytes(z, a, l) \in Seq(B) /\ Len(Bytes(z, a, l)) = l - a
            /\ \A i \in 1..(l - a) : Bytes(z, a, l)[i] = z[a + i]
    BY BytesIn, BytesAt
  <2> HIDE DEF n, m
  <2> QED BY <1>1, <1>2, <2>1
<1>4. /\ Bytes(u, a, n) \in Seq(B) /\ Len(Bytes(u, a, n)) = n - a
      /\ \A i \in 1..(n - a) : Bytes(u, a, n)[i] = u[a + i]
  <2>1. a <= n /\ n <= Len(u) /\ n \in Nat
    BY <1>1, <1>2
  <2> QED BY <2>1, BytesIn, BytesAt
<1> DEFINE w == Bytes(u, a, n) \o v
<1>5. /\ w \in Seq(B) /\ Len(w) = (n - a) + m
      /\ \A i \in 1..((n - a) + m) : w[i] = IF i <= n - a THEN Bytes(u, a, n)[i] ELSE v[i - (n - a)]
  BY <1>4, ConcatProperties DEF m
<1> HIDE DEF w
<1>6. ASSUME NEW i \in 1..((n + m) - a) PROVE Bytes(u \o v, a, n + m)[i] = w[i]
  <2>1. a + i \in 1..(n + m) /\ i \in 1..((n - a) + m) /\ i - (n - a) = (a + i) - n
    BY <1>1, <1>2
  <2>2. Bytes(u \o v, a, n + m)[i] = IF a + i <= n THEN u[a + i] ELSE v[(a + i) - n]
    BY <1>1, <1>3, <2>1
  <2>3. i <= n - a <=> a + i <= n
    BY <1>1, <1>2
  <2>4. i <= n - a => i \in 1..(n - a)
    OBVIOUS
  <2> QED BY <1>4, <1>5, <2>1, <2>2, <2>3, <2>4
<1>7. (n + m) - a = (n - a) + m
  BY <1>1
<1>8. Bytes(u \o v, a, n + m) = w
  BY <1>3, <1>5, <1>6, <1>7, SeqEqual
<1> QED
  BY <1>1, <1>8 DEF w, n

(* Concatenation is associative.                                            *)
Three(B, t, u, v) == t \in Seq(B) /\ u \in Seq(B) /\ v \in Seq(B)

(* Which of three texts are put together first does not matter.             *)
LEMMA Regrouped ==
  ASSUME NEW B, NEW t, NEW u, NEW v, Three(B, t, u, v)
  PROVE  (t \o u) \o v = t \o (u \o v)
  BY ConcatAssociative DEF Three

LEMMA RegroupedParts ==
  ASSUME NEW B, NEW t, NEW u, NEW v, NEW w, Three(B, t, u, v \o w)
  PROVE  (t \o u) \o (v \o w) = t \o (u \o (v \o w))
  BY Regrouped

(* A text of which the first s bytes are as they were.                      *)
Within(B, text, s, rest) ==
  text \in Seq(B) /\ s \in Nat /\ s <= Len(text) /\ rest \in Seq(B)

(* A range among those bytes, and what replaces it.                         *)
Fits(B, s, a, b, new) ==
  a \in Nat /\ b \in Nat /\ a <= b /\ b <= s /\ new \in Seq(B)

(* One more replacement, before all others.  What is made of the text up to *)
(* there is untouched, and the rest is a piece and what followed it.        *)
Put(t, a, b, new) == Bytes(t, 0, a) \o new \o Bytes(t, b, Len(t))

(* A replacement leaves a text.                                             *)
LEMMA PutTyped ==
  ASSUME NEW B, NEW text, NEW s, NEW rest, Within(B, text, s, rest),
         NEW a, NEW b, NEW new, Fits(B, s, a, b, new)
  PROVE  new \o (Bytes(text, b, s) \o rest) \in Seq(B)
<1> DEFINE x == Bytes(text, b, s)
<1>1. text \in Seq(B) /\ s \in Nat /\ s <= Len(text) /\ rest \in Seq(B)
  BY DEF Within
<1>2. b \in Nat /\ b <= s /\ new \in Seq(B)
  BY DEF Fits
<1>3. x \in Seq(B)
  BY <1>1, <1>2, BytesIn
<1> HIDE DEF x
<1>4. x \o rest \in Seq(B)
  BY <1>1, <1>3, ConcatProperties
<1> QED
  BY <1>2, <1>4, ConcatProperties DEF x

(* Up to the range the text is as it was, then come the replacement, what   *)
(* was untouched after the range, and the rest.                             *)
LEMMA PutMakes ==
  ASSUME NEW B, NEW text, NEW s, NEW rest, Within(B, text, s, rest),
         NEW a, NEW b, NEW new, Fits(B, s, a, b, new)
  PROVE  Put(Bytes(text, 0, s) \o rest, a, b, new)
           = Bytes(text, 0, a) \o (new \o (Bytes(text, b, s) \o rest))
<1> SUFFICES ASSUME text \in Seq(B), s \in Nat, s <= Len(text), rest \in Seq(B),
                    a \in Nat, b \in Nat, a <= b, b <= s, new \in Seq(B)
             PROVE  Put(Bytes(text, 0, s) \o rest, a, b, new)
                      = Bytes(text, 0, a) \o (new \o (Bytes(text, b, s) \o rest))
  BY DEF Within, Fits
<1> DEFINE u == Bytes(text, 0, s)
           x == Bytes(text, b, s)
           y == Bytes(text, 0, a)
           t == u \o rest
<1>1. 0 \in Nat /\ 0 <= s /\ s - 0 = s /\ 0 <= a /\ a <= s /\ s <= Len(text)
      /\ Len(text) \in Nat /\ a <= Len(text)
  BY LenProperties
<1>2. u \in Seq(B) /\ Len(u) = s
  BY <1>1, BytesIn
<1>3. x \in Seq(B)
  BY <1>1, BytesIn
<1>4. y \in Seq(B)
  BY <1>1, BytesIn
<1>5. Bytes(t, 0, a) = y
  <2>1. Bytes(u \o rest, 0, a) = Bytes(u, 0, a)
    <3> HIDE DEF u
    <3>1. a <= Len(u)
      BY <1>1, <1>2
    <3> QED BY <1>1, <1>2, <3>1, BytesOfFirst
  <2>2. Bytes(u, 0, a) = y
    BY <1>1, BytesOfBytes
  <2> QED BY <2>1, <2>2
<1>6. Bytes(t, b, Len(t)) = x \o rest
  <2>1. Bytes(u \o rest, b, Len(u \o rest)) = Bytes(u, b, Len(u)) \o rest
    <3> HIDE DEF u
    <3>1. b <= Len(u)
      BY <1>2
    <3> QED BY <1>2, <3>1, BytesToTheEnd
  <2>2. Bytes(u, b, s) = x
    <3>1. s <= s
      OBVIOUS
    <3> QED BY <1>1, <3>1, BytesOfBytes
  <2> HIDE DEF u, x
  <2> QED BY <1>2, <2>1, <2>2
<1>7. x \o rest \in Seq(B)
  <2> HIDE DEF x
  <2> QED BY <1>3, ConcatProperties
<1>9. Put(t, a, b, new) = (y \o new) \o (x \o rest)
  <2> HIDE DEF t, x, y
  <2> QED BY <1>5, <1>6 DEF Put
<1>10. (y \o new) \o (x \o rest) = y \o (new \o (x \o rest))
  <2>1. Three(B, y, new, x \o rest)
    BY <1>4, <1>7 DEF Three
  <2> HIDE DEF x, y, u
  <2> QED BY <2>1, RegroupedParts, SMTT(30)
<1> QED
  BY <1>9, <1>10

(* The other way round: one more piece, put to what is made already.        *)
Made(B, m, r) == m.text \in Seq(B) /\ m.at \in Nat /\ m.at <= r

(* What is made, what lies between it and s, and the rest.                  *)
Joined(text, m, s, rest) == m.text \o (Bytes(text, m.at, s) \o rest)

(* One more piece takes the range and its replacement over from the rest.   *)
LEMMA PieceMade ==
  ASSUME NEW B, NEW text, NEW s, NEW rest, Within(B, text, s, rest),
         NEW e, Fits(B, s, e.start, e.end, e.new),
         NEW m, Made(B, m, e.start)
  PROVE  /\ Made(B, Piece(text, m, e), s)
         /\ Joined(text, Piece(text, m, e), s, rest)
              = Joined(text, m, e.start, e.new \o (Bytes(text, e.end, s) \o rest))
<1>0. PICK r, c, d, new, done : r = e.start /\ c = e.end /\ d = m.at /\ new = e.new /\ done = m.text
  OBVIOUS
<1>1. text \in Seq(B) /\ s \in Nat /\ s <= Len(text) /\ rest \in Seq(B)
  BY DEF Within
<1>2. r \in Nat /\ c \in Nat /\ r <= c /\ c <= s /\ new \in Seq(B)
  BY <1>0 DEF Fits
<1>3. done \in Seq(B) /\ d \in Nat /\ d <= r
  BY <1>0 DEF Made
<1>4. Piece(text, m, e).text = (done \o Bytes(text, d, r)) \o new /\ Piece(text, m, e).at = c
  BY <1>0 DEF Piece
<1> DEFINE w == Bytes(text, d, r)
           x == Bytes(text, c, s)
           y == x \o rest
<1>5. Len(text) \in Nat /\ r <= Len(text)
  BY <1>1, <1>2, LenProperties
<1>6. w \in Seq(B)
  BY <1>1, <1>2, <1>3, <1>5, BytesIn
<1>7. x \in Seq(B)
  BY <1>1, <1>2, BytesIn
<1> HIDE DEF w, x
<1>8. y \in Seq(B)
  BY <1>1, <1>7, ConcatProperties
<1> HIDE DEF y
<1>9. done \o w \in Seq(B) /\ (done \o w) \o new \in Seq(B) /\ new \o y \in Seq(B)
  BY <1>2, <1>3, <1>6, <1>8, ConcatProperties
<1>10. ((done \o w) \o new) \o y = (done \o w) \o (new \o y)
  <2>1. Three(B, done \o w, new, y)
    BY <1>2, <1>8, <1>9 DEF Three
  <2> QED BY <2>1, Regrouped
<1>11. (done \o w) \o (new \o y) = done \o (w \o (new \o y))
  <2>1. Three(B, done, w, new \o y)
    BY <1>3, <1>6, <1>9 DEF Three
  <2>2. \A p : Three(B, done, w, p) => (done \o w) \o p = done \o (w \o p)
    BY Regrouped
  <2> QED BY <2>1, <2>2
<1>12. Made(B, Piece(text, m, e), s)
  BY <1>2, <1>4, <1>9 DEF Made, w
<1>13. Joined(text, Piece(text, m, e), s, rest) = ((done \o w) \o new) \o y
  BY <1>4 DEF Joined, w, x, y
<1>14. Joined(text, m, e.start, e.new \o (Bytes(text, e.end, s) \o rest)) = done \o (w \o (new \o y))
  BY <1>0 DEF Joined, w, x, y
<1> QED
  BY <1>10, <1>11, <1>12, <1>13, <1>14

(* What follows the first s bytes is the rest.                              *)
LEMMA RestOf ==
  ASSUME NEW B, NEW text, NEW s, NEW rest, Within(B, text, s, rest)
  PROVE  LET t == Bytes(text, 0, s) \o rest IN Bytes(t, s, Len(t)) = rest
<1> DEFINE t == Bytes(text, 0, s) \o rest
<1> SUFFICES ASSUME text \in Seq(B), s \in Nat, s <= Len(text), rest \in Seq(B)
             PROVE  Bytes(t, s, Len(t)) = rest
  BY DEF Within
<1> DEFINE u == Bytes(text, 0, s)
<1>1. 0 \in Nat /\ 0 <= s /\ s - 0 = s
  OBVIOUS
<1>2. u \in Seq(B) /\ Len(u) = s
  BY <1>1, BytesIn
<1>3. t = u \o rest
  OBVIOUS
<1> HIDE DEF u
<1>4. Bytes(u \o rest, s, Len(u \o rest)) = Bytes(u, s, Len(u)) \o rest
  <2>1. s <= Len(u)
    BY <1>2
  <2> QED BY <1>2, <2>1, BytesToTheEnd
<1>5. Bytes(u, s, s) = <<>>
  <2>1. s + 1 \in Int /\ s \in Int /\ s < s + 1
    OBVIOUS
  <2> QED BY <2>1, SubSeqEmpty DEF Bytes
<1>6. <<>> \o rest = rest
  BY ConcatEmptySeq
<1> QED
  BY <1>2, <1>3, <1>4, <1>5, <1>6

(* The whole text is there before the first replacement.                    *)
LEMMA TextAndNothing ==
  ASSUME NEW B, NEW text \in Seq(B)
  PROVE  Bytes(text, 0, Len(text)) \o <<>> = text
<1>1. Bytes(text, 0, Len(text)) = text
  BY SubSeqFull DEF Bytes
<1> QED
  BY <1>1, ConcatEmptySeq

(* Operations that have been checked against a text.                        *)
Editable(B, text, ops, n) ==
  \A i \in 1..n :
    /\ ops[i].start \in Nat /\ ops[i].end \in Nat /\ ops[i].new \in Seq(B)
    /\ ops[i].start <= ops[i].end /\ ops[i].end <= Len(text)

(* How far the text is untouched after k replacements.                      *)
Edge(text, ops, q, k) == IF k = 0 THEN Len(text) ELSE ops[q[k]].start

(* Ranges sorted from the last to the first and without overlap: each ends  *)
(* where the one before it starts, or earlier.                              *)
LEMMA RangesApart ==
  ASSUME NEW B, NEW text \in Seq(B), NEW n \in Nat, NEW ops, DOMAIN ops = 1..n,
         Editable(B, text, ops, n), ~Overlap(ops),
         NEW q \in [1..n -> 1..n], \A i, j \in 1..n : i < j => LastFirst(ops, q[i], q[j])
  PROVE  /\ \A i, j \in 1..n : i < j => q[i] # q[j] /\ ops[q[j]].end <= ops[q[i]].start
         /\ \A k \in 0..n : Edge(text, ops, q, k) \in Nat /\ Edge(text, ops, q, k) <= Len(text)
         /\ \A k \in 1..n : ops[q[k]].end <= Edge(text, ops, q, k - 1)
<1>0. Len(text) \in Nat
  BY LenProperties
<1>1. ASSUME NEW i \in 1..n, NEW j \in 1..n, i < j
      PROVE  q[i] # q[j] /\ ops[q[j]].end <= ops[q[i]].start
  <2> DEFINE a == q[i]
             b == q[j]
  <2>1. a \in 1..n /\ b \in 1..n /\ LastFirst(ops, a, b)
    BY <1>1
  <2> HIDE DEF a, b
  <2>2. /\ ops[a].start \in Nat /\ ops[a].end \in Nat /\ ops[b].start \in Nat /\ ops[b].end \in Nat
        /\ ops[a].start <= ops[a].end /\ ops[b].start <= ops[b].end
    BY <2>1 DEF Editable
  <2>3. a # b
    BY <2>1, <2>2 DEF LastFirst
  <2>4. /\ Before(ops, b, a) => ops[b].end <= ops[a].start
        /\ Before(ops, a, b) => ops[a].end <= ops[b].start
    <3>1. \A x, y \in 1..n : x # y /\ Before(ops, x, y) => ~(ops[x].end > ops[y].start)
      BY DEF Overlap
    <3>2. /\ Before(ops, b, a) => ~(ops[b].end > ops[a].start)
          /\ Before(ops, a, b) => ~(ops[a].end > ops[b].start)
      BY <2>1, <2>3, <3>1
    <3> QED BY <2>2, <3>2
  <2>5. ops[b].end <= ops[a].start
    BY <2>1, <2>2, <2>4 DEF LastFirst, Before
  <2> QED BY <2>3, <2>5 DEF a, b
<1>2. ASSUME NEW k \in 0..n PROVE Edge(text, ops, q, k) \in Nat /\ Edge(text, ops, q, k) <= Len(text)
  <2>1. CASE k = 0
    BY <1>0, <2>1 DEF Edge
  <2>2. CASE k # 0
    <3>1. q[k] \in 1..n
      BY <2>2
    <3>2. /\ ops[q[k]].start \in Nat /\ ops[q[k]].end \in Nat
          /\ ops[q[k]].start <= ops[q[k]].end /\ ops[q[k]].end <= Len(text)
      BY <3>1 DEF Editable
    <3> QED BY <1>0, <2>2, <3>2, SMTT(30) DEF Edge
  <2> QED BY <2>1, <2>2
<1>3. ASSUME NEW k \in 1..n PROVE ops[q[k]].end <= Edge(text, ops, q, k - 1)
  <2>1. CASE k = 1
    BY <2>1 DEF Edge, Editable
  <2>2. CASE k # 1
    <3>1. k - 1 \in 1..n /\ k - 1 < k /\ k - 1 # 0
      BY <2>2
    <3> QED BY <1>1, <3>1 DEF Edge
  <2> QED BY <2>1, <2>2
<1> QED
  BY <1>1, <1>2, <1>3

(* What the replacements have made of the end of the text.                  *)
Remains(text, ops, q, t, k) == Bytes(t[k], Edge(text, ops, q, k), Len(t[k]))

(* The texts t that come of replacing ranges in the order q, each before    *)
(* the last.                                                                *)
Replacing(B, text, ops, n, q, t) ==
  /\ text \in Seq(B) /\ n \in Nat
  /\ Editable(B, text, ops, n)
  /\ q \in [1..n -> 1..n]
  /\ t[0] = text
  /\ \A k \in 0..n : Edge(text, ops, q, k) \in Nat /\ Edge(text, ops, q, k) <= Len(text)
  /\ \A k \in 1..n : ops[q[k]].end <= Edge(text, ops, q, k - 1)
  /\ \A k \in 1..n : t[k] = Replaced(t[k - 1], ops[q[k]])

(* After k of them the text is untouched up to the last.                    *)
UntouchedTo(B, text, ops, q, t, k) ==
  /\ Within(B, text, Edge(text, ops, q, k), Remains(text, ops, q, t, k))
  /\ t[k] = Bytes(text, 0, Edge(text, ops, q, k)) \o Remains(text, ops, q, t, k)

(* And what follows is what was put there, a piece of the text, and what    *)
(* followed it.                                                             *)
Grown(text, ops, q, t, k) ==
  LET o == ops[q[k + 1]]
  IN Remains(text, ops, q, t, k + 1)
       = o.new \o (Bytes(text, o.end, Edge(text, ops, q, k)) \o Remains(text, ops, q, t, k))

(* One replacement moves the edge to the start of its range.                *)
LEMMA ReplacedOnce ==
  ASSUME NEW B, NEW text, NEW n \in Nat, NEW ops, NEW q, NEW t,
         Replacing(B, text, ops, n, q, t),
         NEW k \in 0..(n - 1), UntouchedTo(B, text, ops, q, t, k)
  PROVE  UntouchedTo(B, text, ops, q, t, k + 1) /\ Grown(text, ops, q, t, k)
<1>1. k + 1 \in 1..n /\ (k + 1) - 1 = k /\ k \in 0..n /\ k + 1 \in 0..n /\ k + 1 # 0
  OBVIOUS
<1>2. q[k + 1] \in 1..n
  BY <1>1 DEF Replacing
<1>3. PICK s : s = Edge(text, ops, q, k)
  OBVIOUS
<1>4. PICK rest : rest = Remains(text, ops, q, t, k)
  OBVIOUS
<1>5. PICK e : e = ops[q[k + 1]]
  OBVIOUS
<1>6. PICK a : a = e.start
  OBVIOUS
<1>7. PICK b : b = e.end
  OBVIOUS
<1>8. PICK new : new = e.new
  OBVIOUS
<1>9. PICK r : r = new \o (Bytes(text, b, s) \o rest)
  OBVIOUS
<1>10. Within(B, text, s, rest) /\ t[k] = Bytes(text, 0, s) \o rest
  BY <1>3, <1>4 DEF UntouchedTo
<1>11. Fits(B, s, a, b, new) /\ b <= Len(text)
  <2>1. e.start \in Nat /\ e.end \in Nat /\ e.new \in Seq(B) /\ e.start <= e.end /\ e.end <= Len(text)
    BY <1>2, <1>5 DEF Editable, Replacing
  <2>2. e.end <= s
    BY <1>1, <1>3, <1>5 DEF Replacing
  <2> QED BY <1>6, <1>7, <1>8, <2>1, <2>2 DEF Fits
<1>12. t[k + 1] = Put(t[k], a, b, new)
  <2>1. t[k + 1] = Replaced(t[k], e)
    BY <1>1, <1>5 DEF Replacing
  <2> QED BY <1>6, <1>7, <1>8, <2>1 DEF Replaced, Put
<1>13. r \in Seq(B)
  BY <1>9, <1>10, <1>11, PutTyped
<1>14. t[k + 1] = Bytes(text, 0, a) \o r
  <2>1. Put(Bytes(text, 0, s) \o rest, a, b, new) = Bytes(text, 0, a) \o r
    BY <1>9, <1>10, <1>11, PutMakes
  <2> QED BY <1>10, <1>12, <2>1
<1>15. Within(B, text, a, r)
  BY <1>10, <1>11, <1>13, LenProperties DEF Within, Fits
<1>16. Bytes(t[k + 1], a, Len(t[k + 1])) = r
  <2> DEFINE u == Bytes(text, 0, a) \o r
  <2>1. Bytes(u, a, Len(u)) = r
    BY <1>15, RestOf
  <2> QED BY <1>14, <2>1
<1>17. Edge(text, ops, q, k + 1) = a
  BY <1>1, <1>5, <1>6 DEF Edge
<1>18. Remains(text, ops, q, t, k + 1) = r
  BY <1>16, <1>17 DEF Remains
<1>19. UntouchedTo(B, text, ops, q, t, k + 1)
  BY <1>14, <1>15, <1>17, <1>18 DEF UntouchedTo
<1>20. Grown(text, ops, q, t, k)
  BY <1>3, <1>4, <1>5, <1>7, <1>8, <1>9, <1>18 DEF Grown
<1> QED
  BY <1>19, <1>20

(* So do all of them, one by one.                                           *)
LEMMA ReplacedAll ==
  ASSUME NEW B, NEW text \in Seq(B), NEW n \in Nat, NEW ops, NEW q, NEW t,
         Replacing(B, text, ops, n, q, t)
  PROVE  /\ Remains(text, ops, q, t, 0) = <<>>
         /\ \A k \in 0..n : UntouchedTo(B, text, ops, q, t, k)
         /\ \A k \in 0..(n - 1) : Grown(text, ops, q, t, k)
<1> DEFINE S == {k \in Nat : UntouchedTo(B, text, ops, q, t, k)}
<1>1. Edge(text, ops, q, 0) = Len(text) /\ t[0] = text
  BY DEF Edge, Replacing
<1>2. Remains(text, ops, q, t, 0) = <<>>
  <2>1. Len(text) \in Nat /\ Len(text) + 1 \in Int /\ Len(text) < Len(text) + 1
    BY LenProperties
  <2>2. SubSeq(text, Len(text) + 1, Len(text)) = <<>>
    BY <2>1, SubSeqEmpty
  <2> QED BY <1>1, <2>2 DEF Remains, Bytes
<1>3. UntouchedTo(B, text, ops, q, t, 0)
  <2>1. <<>> \in Seq(B) /\ Len(text) \in Nat
    BY EmptySeq, LenProperties
  <2>2. Bytes(text, 0, Len(text)) \o <<>> = text
    BY TextAndNothing
  <2>3. Within(B, text, Len(text), <<>>)
    BY <2>1 DEF Within
  <2>4. t[0] = Bytes(text, 0, Len(text)) \o <<>>
    BY <1>1, <2>2
  <2> QED BY <1>1, <1>2, <2>3, <2>4 DEF UntouchedTo
<1>4. ASSUME NEW k \in 0..n, k < n, k \in S PROVE k + 1 \in S
  <2>1. k \in 0..(n - 1) /\ k + 1 \in Nat
    BY <1>4
  <2>2. UntouchedTo(B, text, ops, q, t, k)
    BY <1>4
  <2> QED BY <2>1, <2>2, ReplacedOnce
<1>5. 0..n \subseteq S
  <2>1. 0 \in S
    BY <1>3
  <2> HIDE DEF S
  <2> QED BY <1>4, <2>1, CountingUp
<1>6. \A k \in 0..n : UntouchedTo(B, text, ops, q, t, k)
  BY <1>5
<1>7. ASSUME NEW k \in 0..(n - 1) PROVE Grown(text, ops, q, t, k)
  <2>1. UntouchedTo(B, text, ops, q, t, k)
    BY <1>6
  <2> QED BY <2>1, ReplacedOnce
<1> QED
  BY <1>2, <1>6, <1>7

(* The texts m put together in the other order.                             *)
Assembling(text, ops, n, q, m) ==
  /\ m[0] = Unmade
  /\ \A j \in 1..n : m[j] = Piece(text, m[j - 1], ops[q[(n + 1) - j]])

(* What is made, what is left between the ranges, and what the replacements *)
(* have made of the rest, is the text they end with.                        *)
Meeting(B, text, ops, q, t, n, m, j) ==
  /\ Made(B, m[j], Edge(text, ops, q, n - j))
  /\ t[n] = Joined(text, m[j], Edge(text, ops, q, n - j), Remains(text, ops, q, t, n - j))

(* Nothing is put together yet, and all replacements are made.              *)
LEMMA MeetingFirst ==
  ASSUME NEW B, NEW text \in Seq(B), NEW n \in Nat, NEW ops, NEW q, NEW t, NEW m,
         UntouchedTo(B, text, ops, q, t, n), Assembling(text, ops, n, q, m)
  PROVE  Meeting(B, text, ops, q, t, n, m, 0)
<1>1. PICK s, rest : s = Edge(text, ops, q, n) /\ rest = Remains(text, ops, q, t, n)
  OBVIOUS
<1>2. Within(B, text, s, rest) /\ t[n] = Bytes(text, 0, s) \o rest
  BY <1>1 DEF UntouchedTo
<1>3. m[0].text = <<>> /\ m[0].at = 0
  BY DEF Assembling, Unmade
<1>4. text \in Seq(B) /\ s \in Nat /\ s <= Len(text) /\ rest \in Seq(B)
  BY <1>2 DEF Within
<1>5. Made(B, m[0], s)
  BY <1>3, <1>4, EmptySeq DEF Made
<1>6. Joined(text, m[0], s, rest) = t[n]
  <2> DEFINE u == Bytes(text, 0, s) \o rest
  <2>1. Bytes(text, 0, s) \in Seq(B)
    BY <1>4, BytesIn
  <2>2. u \in Seq(B)
    BY <1>4, <2>1, ConcatProperties
  <2>3. <<>> \o u = u
    <3> HIDE DEF u
    <3> QED BY <2>2, ConcatEmptySeq
  <2> QED BY <1>2, <1>3, <2>3 DEF Joined
<1>7. n - 0 = n
  OBVIOUS
<1> QED
  BY <1>1, <1>5, <1>6, <1>7 DEF Meeting

(* The next piece is what the last replacement not yet passed has put there. *)
LEMMA MeetingNext ==
  ASSUME NEW B, NEW text, NEW n \in Nat, NEW ops, NEW q, NEW t, NEW m,
         Replacing(B, text, ops, n, q, t), Assembling(text, ops, n, q, m),
         NEW j \in 0..(n - 1), Meeting(B, text, ops, q, t, n, m, j),
         UntouchedTo(B, text, ops, q, t, (n - j) - 1), Grown(text, ops, q, t, (n - j) - 1)
  PROVE  Meeting(B, text, ops, q, t, n, m, j + 1)
<1>1. PICK k \in 0..(n - 1) : k = (n - j) - 1
  OBVIOUS
<1>2. /\ n - j = k + 1 /\ n - (j + 1) = k /\ (n + 1) - (j + 1) = k + 1 /\ (j + 1) - 1 = j
      /\ k + 1 # 0 /\ k + 1 \in 1..n /\ j + 1 \in 1..n /\ (k + 1) - 1 = k /\ k \in 0..n
  BY <1>1
<1>3. PICK s, rest, e : s = Edge(text, ops, q, k) /\ rest = Remains(text, ops, q, t, k) /\ e = ops[q[k + 1]]
  OBVIOUS
<1>4. Within(B, text, s, rest)
  BY <1>1, <1>3 DEF UntouchedTo
<1>5. Fits(B, s, e.start, e.end, e.new)
  <2>1. q[k + 1] \in 1..n
    BY <1>2 DEF Replacing
  <2>2. e.start \in Nat /\ e.end \in Nat /\ e.new \in Seq(B) /\ e.start <= e.end
    BY <1>3, <2>1 DEF Editable, Replacing
  <2>3. e.end <= s
    BY <1>2, <1>3 DEF Replacing
  <2> QED BY <2>2, <2>3 DEF Fits
<1>6. Edge(text, ops, q, n - j) = e.start
  BY <1>2, <1>3 DEF Edge
<1>7. Remains(text, ops, q, t, n - j) = e.new \o (Bytes(text, e.end, s) \o rest)
  <2>1. Grown(text, ops, q, t, k)
    BY <1>1
  <2> QED BY <1>2, <1>3, <2>1 DEF Grown
<1>8. Made(B, m[j], e.start)
      /\ t[n] = Joined(text, m[j], e.start, e.new \o (Bytes(text, e.end, s) \o rest))
  BY <1>6, <1>7 DEF Meeting
<1>9. m[j + 1] = Piece(text, m[j], e)
  BY <1>2, <1>3 DEF Assembling
<1>10. Made(B, m[j + 1], s) /\ t[n] = Joined(text, m[j + 1], s, rest)
  BY <1>4, <1>5, <1>8, <1>9, PieceMade
<1> QED
  BY <1>2, <1>3, <1>10 DEF Meeting

(* The text of the replacements from the last to the first is the one put   *)
(* together from the first to the last.                                     *)
Finished(text, made) == made.text \o Bytes(text, made.at, Len(text))

LEMMA MeetingLast ==
  ASSUME NEW B, NEW text, NEW n, NEW ops, NEW q, NEW t, NEW m,
         Replacing(B, text, ops, n, q, t), Assembling(text, ops, n, q, m)
  PROVE  t[n] = Finished(text, m[n])
<1>0. text \in Seq(B) /\ n \in Nat
  BY DEF Replacing
<1> DEFINE S == {j \in Nat : Meeting(B, text, ops, q, t, n, m, j)}
<1>1. /\ Remains(text, ops, q, t, 0) = <<>>
      /\ \A k \in 0..n : UntouchedTo(B, text, ops, q, t, k)
      /\ \A k \in 0..(n - 1) : Grown(text, ops, q, t, k)
  BY <1>0, ReplacedAll
<1>2. Meeting(B, text, ops, q, t, n, m, 0)
  <2>1. UntouchedTo(B, text, ops, q, t, n)
    BY <1>0, <1>1
  <2> QED BY <1>0, <2>1, MeetingFirst
<1>3. ASSUME NEW j \in 0..n, j < n, j \in S PROVE j + 1 \in S
  <2>1. j \in 0..(n - 1) /\ j + 1 \in Nat /\ (n - j) - 1 \in 0..(n - 1) /\ (n - j) - 1 \in 0..n
    BY <1>0, <1>3
  <2>2. Meeting(B, text, ops, q, t, n, m, j)
    BY <1>3
  <2>3. UntouchedTo(B, text, ops, q, t, (n - j) - 1) /\ Grown(text, ops, q, t, (n - j) - 1)
    BY <1>1, <2>1
  <2>4. Meeting(B, text, ops, q, t, n, m, j + 1)
    BY <1>0, <2>1, <2>2, <2>3, MeetingNext
  <2> QED BY <2>1, <2>4
<1>4. 0..n \subseteq S
  <2>1. 0 \in S
    BY <1>2
  <2> HIDE DEF S
  <2> QED BY <1>0, <1>3, <2>1, CountingUp
<1>5. Meeting(B, text, ops, q, t, n, m, n) /\ n - n = 0
  BY <1>0, <1>4
<1>6. Edge(text, ops, q, 0) = Len(text)
  BY DEF Edge
<1>7. PICK done, a : done = m[n].text /\ a = m[n].at
  OBVIOUS
<1>8. /\ a \in Nat /\ a <= Len(text)
      /\ t[n] = done \o (Bytes(text, a, Len(text)) \o <<>>)
  BY <1>1, <1>5, <1>6, <1>7 DEF Meeting, Made, Joined
<1>9. Bytes(text, a, Len(text)) \o <<>> = Bytes(text, a, Len(text))
  <2>1. Len(text) \in Nat /\ Len(text) <= Len(text)
    BY <1>0, LenProperties
  <2>2. Bytes(text, a, Len(text)) \in Seq(B)
    BY <1>0, <1>8, <2>1, BytesIn
  <2> QED BY <2>2, ConcatEmptySeq
<1> QED
  BY <1>7, <1>8, <1>9 DEF Finished

(* The operations of a valid modification, applied one after the other from *)
(* the last range to the first, make the text that is put together from the *)
(* first to the last.                                                       *)
LEMMA ProposedIsAssembled ==
  ASSUME NEW B, NEW text \in Seq(B), NEW n \in Nat, NEW ops, DOMAIN ops = 1..n,
         Editable(B, text, ops, n), ~Overlap(ops)
  PROVE  \E order \in [DOMAIN ops -> DOMAIN ops] :
           /\ \A i, j \in DOMAIN ops : i < j =>
                order[i] # order[j] /\ ops[order[i]].end <= ops[order[j]].start
           /\ Proposed(text, ops) = Assembled(text, ops, order)
<1> DEFINE Sorts(p) == \A i, j \in 1..n : i < j => LastFirst(ops, p[i], p[j])
<1>1. PICK q \in [1..n -> 1..n] : Sorts(q) /\ Proposed(text, ops) = AllReplaced(text, ops, q)
  <2> DEFINE sorted == CHOOSE p \in [1..n -> 1..n] : Sorts(p)
  <2>1. Ranged(ops, n)
    BY DEF Ranged, Editable
  <2>2. \E p \in [1..n -> 1..n] : Sorts(p)
    BY <2>1, LastFirstExists
  <2>3. sorted \in [1..n -> 1..n] /\ Sorts(sorted)
    <3> HIDE DEF Sorts
    <3> QED BY <2>2
  <2>4. Proposed(text, ops) = AllReplaced(text, ops, sorted)
    BY DEF Proposed, AllReplaced
  <2> HIDE DEF Sorts, sorted
  <2> QED BY <2>3, <2>4
<1>3. DOMAIN q = 1..n
  BY <1>1
<1>4. PICK t : Replacements(text, ops, n, q, t)
  BY <1>3, ReplacedInTurn
<1>5. /\ \A i, j \in 1..n : i < j => q[i] # q[j] /\ ops[q[j]].end <= ops[q[i]].start
      /\ \A k \in 0..n : Edge(text, ops, q, k) \in Nat /\ Edge(text, ops, q, k) <= Len(text)
      /\ \A k \in 1..n : ops[q[k]].end <= Edge(text, ops, q, k - 1)
  BY <1>1, RangesApart
<1>6. Replacing(B, text, ops, n, q, t)
  BY <1>1, <1>4, <1>5 DEF Replacing, Replacements
<1> DEFINE order == [i \in 1..n |-> q[(n + 1) - i]]
<1>7. order \in [1..n -> 1..n]
  BY <1>1
<1>8. PICK m : /\ m[0] = Unmade
               /\ \A k \in 1..n : m[k] = Piece(text, m[k - 1], ops[order[k]])
               /\ m[n] = PutTogether(text, ops, order)
  <2>1. DOMAIN order = 1..n
    OBVIOUS
  <2> HIDE DEF order
  <2> QED BY <2>1, PutTogetherInTurn
<1>9. Assembling(text, ops, n, q, m)
  BY <1>8 DEF Assembling
<1>10. t[n] = Finished(text, m[n])
  <2> HIDE DEF order, Sorts
  <2> QED BY <1>6, <1>9, MeetingLast
<1>11. Proposed(text, ops) = Assembled(text, ops, order)
  <2> HIDE DEF order
  <2> QED BY <1>1, <1>4, <1>8, <1>10 DEF Assembled, Finished, PutTogether, Unmade, Replacements
<1>12. ASSUME NEW i \in 1..n, NEW j \in 1..n, i < j
       PROVE  order[i] # order[j] /\ ops[order[i]].end <= ops[order[j]].start
  <2>1. /\ (n + 1) - i \in 1..n /\ (n + 1) - j \in 1..n /\ (n + 1) - j < (n + 1) - i
        /\ order[i] = q[(n + 1) - i] /\ order[j] = q[(n + 1) - j]
    BY <1>12
  <2> HIDE DEF order
  <2> QED BY <1>5, <2>1
<1> HIDE DEF order
<1> QED
  BY <1>7, <1>11, <1>12

(* The operations on one path are operations of the answer.                 *)
LEMMA OperationsOnTyped ==
  ASSUME NEW answer, NEW O, answer.operations \in Seq(O), NEW path
  PROVE  OperationsOn(answer, path) \in Seq(O)
<1> DEFINE q == answer.operations
           n == Len(q)
<1>1. n \in Nat /\ DOMAIN q = 1..n /\ \A i \in 1..n : q[i] \in O
  BY LenProperties, ElementOfSeq
<1>2. OperationsOn(answer, path) = AllPicked(path, q)
  BY DEF OperationsOn, AllPicked
<1> HIDE DEF q, n
<1>3. PICK t : /\ t[0] = <<>>
               /\ \A k \in 1..n : t[k] = Picked(path, t[k - 1], q[k])
               /\ t[n] = AllPicked(path, q)
  BY <1>1, PickedInTurn
<1> DEFINE S == {k \in Nat : t[k] \in Seq(O)}
<1>4. 0 \in S
  BY <1>3, EmptySeq
<1>5. ASSUME NEW k \in 0..n, k < n, k \in S PROVE k + 1 \in S
  <2>1. k + 1 \in 1..n /\ (k + 1) - 1 = k /\ t[k] \in Seq(O) /\ k + 1 \in Nat
    BY <1>1, <1>5
  <2>2. t[k + 1] = Picked(path, t[k], q[k + 1]) /\ q[k + 1] \in O
    BY <1>1, <1>3, <2>1
  <2>3. t[k + 1] \in Seq(O)
    <3>1. PICK u, o : u = t[k] /\ o = q[k + 1]
      OBVIOUS
    <3>2. Append(u, o) \in Seq(O)
      BY <2>1, <2>2, <3>1, AppendProperties
    <3> QED BY <2>1, <2>2, <3>1, <3>2 DEF Picked
  <2> QED BY <2>1, <2>3
<1>6. 0..n \subseteq S
  <2> HIDE DEF S
  <2> QED BY <1>1, <1>4, <1>5, CountingUp
<1>7. t[n] \in Seq(O)
  BY <1>1, <1>6
<1> QED
  BY <1>2, <1>3, <1>7

-----------------------------------------------------------------------------
(* The request.                                                             *)

Stages == {"idle", "trusting", "intended", "primary", "correctable", "corrected",
           "parsed", "validating", "stored", "failed"}

PlanTyped ==
  /\ tree \in [PlanPaths -> {NoText} \union Text]
  /\ userEdits \in 0..MaxUserEdits
  /\ fix = [stage |-> fix.stage, intent |-> fix.intent, answer |-> fix.answer,
            todo |-> fix.todo, files |-> fix.files]
  /\ fix.stage \in Stages
  /\ DOMAIN fix.intent \subseteq Referenced
  /\ fix.todo \subseteq PlanPaths
  /\ fix.stage = "trusting" => fix.todo \subseteq Referenced
  /\ fix.answer.operations \in Seq(Operations)

(* What ProposedAsPlanned says of one file.                                 *)
Faithful(answer, s) ==
  LET ops == OperationsOn(answer, s.path)
  IN /\ \E order \in [DOMAIN ops -> DOMAIN ops] :
          /\ \A i, j \in DOMAIN ops : i < j =>
               order[i] # order[j] /\ ops[order[i]].end <= ops[order[j]].start
          /\ s.proposed = Assembled(s.base, ops, order)
     /\ DetectLineEnding(s.base) # "none" => DetectLineEnding(s.proposed) = DetectLineEnding(s.base)

(* Each file validated so far is, with some left or done; what is stored is *)
(* within the authority of the intent.                                      *)
PlanInv ==
  /\ PlanTyped
  /\ fix.stage \in {"validating", "stored"} =>
       /\ \A s \in fix.files : s.base # NoText => Faithful(fix.answer, s)
       /\ fix.todo # {} \/ fix.files # {}
  /\ fix.stage \notin {"validating", "stored"} => fix.files = {}
  /\ fix.stage = "stored" => fix.todo = {} /\ AuthorityAllows

(* What a valid modification proposes is its operations, put together.      *)
LEMMA ModificationFaithful ==
  ASSUME NEW text \in Text, NEW answer, answer.operations \in Seq(Operations), NEW path,
         NEW s, s.path = path, s.base = text,
         s.proposed = Proposed(text, OperationsOn(answer, path)),
         ModificationValid(text, OperationsOn(answer, path))
  PROVE  Faithful(answer, s)
<1>1. PICK ops : ops = OperationsOn(answer, path)
  OBVIOUS
<1>2. PICK n \in Nat : DOMAIN ops = 1..n /\ \A i \in 1..n : ops[i] \in Operations
  <2>1. ops \in Seq(Operations)
    BY <1>1, OperationsOnTyped
  <2> QED BY <2>1, LenProperties, ElementOfSeq
<1>3. text \in Seq(STRING)
  BY DEF Text
<1>4. Editable(STRING, text, ops, n)
  <2>1. \A i \in 1..n : ops[i].start <= ops[i].end /\ ops[i].end <= Len(text)
    BY <1>1, <1>2 DEF ModificationValid, RangeValid
  <2>2. \A i \in 1..n : ops[i].start \in Nat /\ ops[i].end \in Nat /\ ops[i].new \in Seq(STRING)
    BY <1>2, TextsAssumption DEF Text
  <2> QED BY <2>1, <2>2 DEF Editable
<1>5. ~Overlap(ops)
  BY <1>1 DEF ModificationValid
<1>6. PICK order \in [DOMAIN ops -> DOMAIN ops] :
        /\ \A i, j \in DOMAIN ops : i < j =>
             order[i] # order[j] /\ ops[order[i]].end <= ops[order[j]].start
        /\ Proposed(text, ops) = Assembled(text, ops, order)
  BY <1>2, <1>3, <1>4, <1>5, ProposedIsAssembled, ZenonT(60)
<1>7. DetectLineEnding(text) # "none" => DetectLineEnding(Proposed(text, ops)) = DetectLineEnding(text)
  BY <1>1 DEF ModificationValid
<1> QED
  BY <1>1, <1>6, <1>7 DEF Faithful

(* The invariant gives the property, holds initially and is kept.           *)
LEMMA PlanInvGives == PlanInv => PlanIsFaithful
<1> SUFFICES ASSUME PlanInv PROVE PlanIsFaithful
  OBVIOUS
<1>1. PlanTypeOK
  BY DEF PlanInv, PlanTyped, PlanTypeOK, Stages
<1>2. ASSUME fix.stage = "stored", NEW s \in fix.files
      PROVE  Faithful(fix.answer, s) /\ s.path \in Referenced /\ s.base = fix.intent[s.path]
  BY <1>2 DEF PlanInv, PlanTyped, AuthorityAllows, TargetAllowed
<1>3. ConfinedToIntent
  BY <1>2 DEF ConfinedToIntent, PlanInv
<1>4. ProposedAsPlanned
  BY <1>2 DEF ProposedAsPlanned, Faithful
<1> QED
  BY <1>1, <1>3, <1>4 DEF PlanIsFaithful

LEMMA PlanInvInitially == PlanInit => PlanInv
<1> SUFFICES ASSUME PlanInit PROVE PlanInv
  OBVIOUS
<1>1. <<>> \in Seq(Operations) /\ DOMAIN <<>> = {}
  BY EmptySeq
<1>2. 0 \in 0..MaxUserEdits
  BY PlanAssumption
<1> QED
  BY <1>1, <1>2, TextsAssumption DEF PlanInit, PlanInv, PlanTyped, NoAnswer, Stages

LEMMA RequestFixKeeps == PlanInv /\ RequestFix => PlanInv'
BY TextsAssumption DEF PlanInv, PlanTyped, RequestFix, Fail, Stages

LEMMA TrustFileKeeps ==
  ASSUME PlanInv, NEW p \in PlanPaths, TrustFile(p)
  PROVE  PlanInv'
<1>1. CASE fix' = [fix EXCEPT !.stage = "failed", !.files = {}]
  BY <1>1 DEF PlanInv, PlanTyped, TrustFile, Stages
<1>2. CASE fix' = [fix EXCEPT !.todo = @ \ {p},
                     !.intent = [q \in DOMAIN @ \union {p} |-> IF q = p THEN tree[p] ELSE @[q]]]
  BY <1>2 DEF PlanInv, PlanTyped, TrustFile, Stages
<1> QED
  BY <1>1, <1>2 DEF TrustFile, Fail

LEMMA BuildIntentKeeps == PlanInv /\ BuildIntent => PlanInv'
BY DEF PlanInv, PlanTyped, BuildIntent, Fail, Stages

LEMMA GenerateKeeps == PlanInv /\ Generate => PlanInv'
<1> SUFFICES ASSUME PlanInv, Generate PROVE PlanInv'
  OBVIOUS
<1>1. PICK answer \in Answers :
        fix' = [fix EXCEPT !.answer = answer,
                           !.stage = IF fix.stage = "intended" THEN "primary" ELSE "corrected"]
  BY DEF Generate
<1>2. answer.operations \in Seq(Operations)
  <2>1. \A n \in 0..MaxOperations : [1..n -> Operations] \subseteq Seq(Operations)
    BY PlanAssumption
  <2>2. answer.operations \in {<<>>} \union UNION {[1..n -> Operations] : n \in 0..MaxOperations}
    BY DEF Answers
  <2> QED BY <2>1, <2>2, EmptySeq
<1> QED
  BY <1>1, <1>2 DEF PlanInv, PlanTyped, Generate, Stages

LEMMA GenerationFailsKeeps == PlanInv /\ GenerationFails => PlanInv'
BY DEF PlanInv, PlanTyped, GenerationFails, Fail, Stages

LEMMA ParseEditPlanKeeps == PlanInv /\ ParseEditPlan => PlanInv'
BY DEF PlanInv, PlanTyped, ParseEditPlan, Fail, Stages

(* An admissible plan has an operation, and so a file to validate.          *)
LEMMA TouchedTyped ==
  ASSUME NEW answer, answer.operations \in Seq(Operations)
  PROVE  /\ TouchedPaths(answer) \subseteq PlanPaths
         /\ PlanAdmissible(answer) => TouchedPaths(answer) # {}
<1>1. PICK n \in Nat : /\ n = Len(answer.operations) /\ DOMAIN answer.operations = 1..n
                       /\ \A i \in 1..n : answer.operations[i] \in Operations
  BY LenProperties, ElementOfSeq
<1>2. TouchedPaths(answer) \subseteq PlanPaths
  BY <1>1, TextsAssumption DEF TouchedPaths
<1>3. ASSUME PlanAdmissible(answer) PROVE TouchedPaths(answer) # {}
  <2>1. 1 \in 1..n
    BY <1>1, <1>3, PlanAssumption DEF PlanAdmissible
  <2> QED BY <1>1, <2>1 DEF TouchedPaths
<1> QED
  BY <1>2, <1>3

LEMMA BeginValidationKeeps == PlanInv /\ BeginValidation => PlanInv'
<1> SUFFICES ASSUME PlanInv, BeginValidation PROVE PlanInv'
  OBVIOUS
<1>1. CASE Fail
  BY <1>1 DEF PlanInv, PlanTyped, BeginValidation, Fail, Stages
<1>2. CASE PlanAdmissible(fix.answer)
           /\ fix' = [fix EXCEPT !.stage = "validating", !.todo = TouchedPaths(fix.answer)]
  <2>1. TouchedPaths(fix.answer) \subseteq PlanPaths /\ TouchedPaths(fix.answer) # {}
    BY <1>2, TouchedTyped DEF PlanInv, PlanTyped
  <2> QED BY <1>2, <2>1 DEF PlanInv, PlanTyped, BeginValidation, Stages
<1> QED
  BY <1>1, <1>2 DEF BeginValidation

LEMMA ValidateGroupKeeps ==
  ASSUME PlanInv, NEW p \in PlanPaths, ValidateGroup(p)
  PROVE  PlanInv'
<1> DEFINE ops == OperationsOn(fix.answer, p)
           creates == \E i \in DOMAIN ops : ops[i].kind = "create"
           snapshot == [path |-> p, base |-> tree[p],
                        proposed |-> IF creates THEN ops[1].new ELSE Proposed(tree[p], ops)]
<1>1. CASE Fail
  BY <1>1 DEF PlanInv, PlanTyped, ValidateGroup, Fail, Stages
<1>2. CASE /\ IF creates THEN CreationValid(tree[p], ops) ELSE ModificationValid(tree[p], ops)
           /\ fix' = [fix EXCEPT !.todo = @ \ {p}, !.files = @ \union {snapshot}]
  <2>1. snapshot.base # NoText => Faithful(fix.answer, snapshot)
    <3>1. CASE creates
      BY <1>2, <3>1 DEF CreationValid
    <3>2. CASE ~creates /\ tree[p] # NoText
      <4>1. tree[p] \in Text /\ fix.answer.operations \in Seq(Operations)
        BY <3>2 DEF PlanInv, PlanTyped
      <4>2. ModificationValid(tree[p], ops)
        BY <1>2, <3>2
      <4>3. snapshot.path = p /\ snapshot.base = tree[p] /\ snapshot.proposed = Proposed(tree[p], ops)
        BY <3>2
      <4> HIDE DEF snapshot
      <4> QED BY <4>1, <4>2, <4>3, ModificationFaithful
    <3> QED BY <3>1, <3>2
  <2> HIDE DEF snapshot
  <2> QED BY <1>2, <2>1 DEF PlanInv, PlanTyped, ValidateGroup, Stages
<1> QED
  BY <1>1, <1>2 DEF ValidateGroup

LEMMA StorePlanKeeps == PlanInv /\ StorePlan => PlanInv'
<1> SUFFICES ASSUME PlanInv, StorePlan PROVE PlanInv'
  OBVIOUS
<1>1. CASE Fail
  BY <1>1 DEF PlanInv, PlanTyped, StorePlan, Fail, Stages
<1>2. CASE AuthorityAllows /\ fix' = [fix EXCEPT !.stage = "stored"]
  <2>1. fix'.answer = fix.answer /\ fix'.files = fix.files /\ fix'.intent = fix.intent
        /\ fix'.todo = fix.todo /\ fix'.stage = "stored"
    BY <1>2 DEF PlanInv, PlanTyped
  <2>2. AuthorityAllows'
    BY <1>2, <2>1 DEF AuthorityAllows, TargetAllowed
  <2>3. PlanTyped'
    BY <1>2 DEF PlanInv, PlanTyped, StorePlan, Stages
  <2> QED BY <2>1, <2>2, <2>3 DEF PlanInv, StorePlan
<1> QED
  BY <1>1, <1>2 DEF StorePlan

LEMMA UserEditsKeeps ==
  ASSUME PlanInv, NEW p \in PlanPaths, NEW t \in UserTexts, UserEdits(p, t)
  PROVE  PlanInv'
BY PlanAssumption, TextsAssumption DEF PlanInv, PlanTyped, UserEdits, AuthorityAllows, TargetAllowed

LEMMA PlanInvKept == PlanInv /\ [PlanNext]_planVars => PlanInv'
<1> SUFFICES ASSUME PlanInv, [PlanNext]_planVars PROVE PlanInv'
  OBVIOUS
<1>1. CASE UNCHANGED planVars
  BY <1>1 DEF planVars, PlanInv, PlanTyped, AuthorityAllows, TargetAllowed
<1> QED
  BY <1>1, RequestFixKeeps, TrustFileKeeps, BuildIntentKeeps, GenerateKeeps, GenerationFailsKeeps,
     ParseEditPlanKeeps, BeginValidationKeeps, ValidateGroupKeeps, StorePlanKeeps, UserEditsKeeps
  DEF PlanNext

(* Whatever the model answers and whatever the user writes meanwhile, a     *)
(* stored proposal changes files the user referred to and no other, each    *)
(* from the text the intent has of it, and what it proposes is its          *)
(* operations applied to that text (validate_modification_group,            *)
(* validate_edit_plan_against_authority).                                   *)
THEOREM PlanIsFaithfulHolds == PlanSpec => []PlanIsFaithful
<1> QED
  BY PlanInvInitially, PlanInvKept, PlanInvGives, PTL DEF PlanSpec

=============================================================================
