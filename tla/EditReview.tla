----------------------------- MODULE EditReview -----------------------------
(***************************************************************************)
(* Reviewing an edit proposal from the editor: the commands behind the     *)
(* buttons (extensions/vscode-opticcode/src/chat/editReview.ts), the       *)
(* artifacts they read (editArtifacts.ts), and the runtime commands they   *)
(* start (crates/opticcode-core/src/chat_edit_runtime.rs).  Commands run   *)
(* concurrently, their modals stay open while others work, and the events  *)
(* of a runtime reach the one shared artifact one at a time.  The steps of *)
(* an apply or rollback inside the runtime are EditLifecycle's; here each  *)
(* is one step, taken some time after the runtime loaded the record.       *)
(***************************************************************************)
EXTENDS Integers, Sequences, FiniteSets

CONSTANTS
  Commands,    \* review commands and typed chat requests under way at a time
  Nothing,     \* undefined
  MaxAttempts, \* bound on apply attempts (transactions)
  MaxAsks      \* bound on commands started

ReviewOperations == {"apply", "rollback"}

ASSUME ReviewAssumption ==
  /\ MaxAttempts \in Nat /\ MaxAsks \in Nat
  /\ Nothing \notin ReviewOperations

VARIABLES
  record,      \* the proposal in the store: state, last attempt's transaction, verified diff
  artifact,    \* what the extension knows of it, or Nothing
  review,      \* each command: stage and local variables
  published,   \* the approvals and transactions of the buttons the user can press
  accepted,    \* history: how many modals of each operation the user accepted
  ran,         \* history: the operations the runtime carried out
  asks         \* commands started so far

reviewVars == <<record, artifact, review, published, accepted, ran, asks>>

ProposalStates ==
  {"generated", "verification_failed", "verified", "applied", "rolled_back", "discarded",
   "expired", "failed"}

(* `then` is what follows ensureArtifact, `back` what follows the runtime.  *)
AtRest == [stage |-> "idle", kind |-> Nothing, approval |-> Nothing, transaction |-> 0, then |-> "idle",
           back |-> "idle", op |-> Nothing, confirmation |-> Nothing, events |-> <<>>, failed |-> FALSE]

ReviewInit ==
  /\ record = [state |-> "generated", transaction |-> 0, diff |-> FALSE]
  /\ artifact = Nothing
  /\ review = [c \in Commands |-> AtRest]
  /\ published = {}
  /\ accepted = [op \in ReviewOperations |-> 0]
  /\ ran = {}
  /\ asks = 0

Now(c, r) == review' = [review EXCEPT ![c] = r]
Waits(c, stage) == review[c].stage = stage
Leave(c) == Now(c, AtRest)

(* runEditCommand: the runtime is asked for op, with the approval the user  *)
(* confirmed if any.                                                        *)
Calling(r, op, confirmation, back) ==
  [r EXCEPT !.stage = "called", !.op = op, !.confirmation = confirmation, !.back = back,
            !.events = <<>>, !.failed = FALSE]

-----------------------------------------------------------------------------
(* The runtime.                                                             *)

(* ensure_reviewable.                                                       *)
Reviewable(p) == p.state \notin {"expired", "discarded", "failed"} /\ p.diff

(* approval_request_id: bound to the verified diff, of which a proposal has *)
(* one, or to the transaction.                                              *)
ApprovalRequestId(p, op) == <<op, IF op = "rollback" THEN p.transaction ELSE 0>>

Event(type, id, success) == [type |-> type, id |-> id, success |-> success]
ApprovalEvent(p, op) == Event("approval_required", ApprovalRequestId(p, op), TRUE)
DiffReady == Event("diff_ready", Nothing, TRUE)

Answer(c, events) ==
  /\ Now(c, [review[c] EXCEPT !.stage = "returning", !.events = events])
  /\ UNCHANGED <<artifact, accepted, asks>>
FailCommand(c) ==
  /\ Now(c, [review[c] EXCEPT !.stage = "returning", !.failed = TRUE])
  /\ UNCHANGED <<artifact, accepted, asks>>
NothingStored == UNCHANGED <<record, ran, published>>
Expirable == {"generated", "verification_failed", "verified"}

(* run_diff with discard, and the store's rule for it.                      *)
RunDiscard(c) ==
  /\ Waits(c, "called") /\ review[c].op = "discard"
  /\ \/ /\ record.state \in Expirable
        /\ record' = [record EXCEPT !.state = "discarded"]
        /\ Answer(c, <<Event("proposal_discarded", Nothing, TRUE)>>)
     \/ /\ record.state \notin Expirable
        /\ FailCommand(c)
        /\ UNCHANGED record
  /\ UNCHANGED <<published, ran>>

(* run_diff.                                                                *)
RunDiff(c) ==
  /\ Waits(c, "called") /\ review[c].op = "diff"
  /\ \/ /\ Reviewable(record)
        /\ Answer(c, IF record.state = "verified"
                     THEN <<DiffReady, ApprovalEvent(record, "apply")>> ELSE <<DiffReady>>)
     \/ /\ ~Reviewable(record)
        /\ FailCommand(c)
  /\ NothingStored

(* run_verify and verify_and_emit.                                          *)
RunVerify(c) ==
  /\ Waits(c, "called") /\ review[c].op = "verify"
  /\ \/ /\ record.state \in Expirable
        /\ record' = [record EXCEPT !.state = "verified", !.diff = TRUE]
        /\ Answer(c, <<DiffReady, ApprovalEvent(record, "apply")>>)
     \/ /\ record.state \in Expirable
        /\ record' = [record EXCEPT !.state = "verification_failed", !.diff = FALSE]
        /\ Answer(c, <<>>)
     \/ /\ record.state \notin Expirable
        /\ FailCommand(c)
        /\ UNCHANGED record
  /\ UNCHANGED <<published, ran>>

(* run_apply and run_rollback before the transaction.  resolve_proposal     *)
(* refuses a transaction that is not the record's; without a confirmation   *)
(* they say what would have to be confirmed; with one,                      *)
(* validate_native_confirmation compares it with the record just loaded.    *)
Offerable(r) ==
  /\ r.transaction \in {0, record.transaction}
  /\ IF r.op = "apply" THEN Reviewable(record) ELSE record.transaction # 0

OfferedEvents(op) ==
  IF op = "apply" THEN <<DiffReady, ApprovalEvent(record, op)>> ELSE <<ApprovalEvent(record, op)>>

(* Mutant: asking for the operation in the chat is consent enough.          *)
TypedConsent(c) ==
  LET r == review[c]
  IN r.confirmation = Nothing \/ r.confirmation = ApprovalRequestId(record, r.op)

NativeConfirmation(c) ==
  review[c].confirmation # Nothing /\ review[c].confirmation = ApprovalRequestId(record, review[c].op)

RunOperation(c) ==
  LET r == review[c]
  IN /\ Waits(c, "called") /\ r.op \in ReviewOperations
     /\ \/ /\ Offerable(r) /\ NativeConfirmation(c)
           /\ Now(c, [r EXCEPT !.stage = "executing"])
           /\ UNCHANGED <<artifact, accepted, asks>>
        \/ /\ Offerable(r) /\ r.confirmation = Nothing /\ record.diff /\ ~NativeConfirmation(c)
           /\ Answer(c, OfferedEvents(r.op))
        \/ /\ \/ ~Offerable(r)
              \/ ~NativeConfirmation(c) /\ (r.confirmation # Nothing \/ ~record.diff)
           /\ FailCommand(c)
     /\ NothingStored

(* apply_verified_proposal_with_transaction_id, on the record as it is now. *)
(* A failed attempt leaves its transaction in the report.                   *)
ExecuteApply(c) ==
  LET attempt == record.transaction + 1
      Done(success) == Event("apply_completed", attempt, success)
  IN /\ Waits(c, "executing") /\ review[c].op = "apply"
     /\ attempt <= MaxAttempts
     /\ \/ /\ record.state = "verified"
           /\ record' = [record EXCEPT !.state = "applied", !.transaction = attempt]
           /\ ran' = ran \union {[op |-> "apply", transaction |-> attempt,
                                  confirmed |-> review[c].confirmation]}
           /\ Answer(c, <<Done(TRUE), Event("rollback_available", attempt, TRUE)>>)
        \/ /\ record.state = "verified"
           /\ \E s \in {"verified", "failed"} :
                record' = [record EXCEPT !.state = s, !.transaction = attempt]
           /\ UNCHANGED ran
           /\ Answer(c, <<Done(FALSE)>>)
        \/ /\ record.state # "verified"
           /\ UNCHANGED <<record, ran>>
           /\ FailCommand(c)
     /\ UNCHANGED published

(* rollback_edit_proposal, likewise; a second rollback reports success.     *)
ExecuteRollback(c) ==
  LET done == Event("rollback_completed", record.transaction, TRUE)
  IN /\ Waits(c, "executing") /\ review[c].op = "rollback"
     /\ \/ /\ record.state = "applied"
           /\ record' = [record EXCEPT !.state = "rolled_back"]
           /\ ran' = ran \union {[op |-> "rollback", transaction |-> record.transaction,
                                  confirmed |-> review[c].confirmation]}
           /\ Answer(c, <<done>>)
        \/ /\ record.state = "rolled_back"
           /\ UNCHANGED <<record, ran>>
           /\ Answer(c, <<done>>)
        \/ /\ record.state # "rolled_back"     \* refused, or it failed
           /\ UNCHANGED <<record, ran>>
           /\ FailCommand(c)
     /\ UNCHANGED published

-----------------------------------------------------------------------------
(* ChatEditArtifactStore::accept.  Only a diff creates an artifact; it      *)
(* keeps what was known.                                                    *)
Accepted(e) ==
  CASE e.type = "diff_ready" ->
         IF artifact = Nothing THEN [approval |-> Nothing, transaction |-> 0] ELSE artifact
    [] e.type = "proposal_discarded" -> Nothing
    [] artifact # Nothing /\ e.type = "approval_required" -> [artifact EXCEPT !.approval = e.id]
    [] /\ artifact # Nothing
       /\ e.type = "rollback_available" \/ (e.type = "apply_completed" /\ e.success) ->
         [artifact EXCEPT !.transaction = e.id]
    [] OTHER -> artifact

(* An event is observed, and the button for it is rendered.                 *)
Button(e) ==
  CASE e.type = "approval_required" -> {e.id}
    [] e.type = "rollback_available" -> {<<"transaction", e.id>>}
    [] OTHER -> {}

ObserveEvent(c) ==
  LET e == Head(review[c].events)
  IN /\ Waits(c, "returning") /\ review[c].events # <<>>
     /\ artifact' = Accepted(e)
     /\ published' = published \union Button(e)
     /\ Now(c, [review[c] EXCEPT !.events = Tail(@)])
     /\ UNCHANGED <<record, accepted, ran, asks>>

(* The runtime process is over: a failure is thrown.                        *)
RuntimeReturns(c) ==
  /\ Waits(c, "returning") /\ review[c].events = <<>>
  /\ IF review[c].failed \/ review[c].back = "idle" THEN Leave(c)
     ELSE Now(c, [review[c] EXCEPT !.stage = review[c].back])
  /\ UNCHANGED <<record, artifact, published, accepted, ran, asks>>

-----------------------------------------------------------------------------
(* The commands.  A typed request is one run of the runtime.                *)
Ask(c, r) ==
  /\ Waits(c, "idle")
  /\ asks < MaxAsks
  /\ asks' = asks + 1
  /\ Now(c, r)
  /\ UNCHANGED <<record, artifact, published, accepted, ran>>

TypeRequest(c, op) == Ask(c, Calling(AtRest, op, Nothing, "idle"))

ShowDiff(c) == Ask(c, [AtRest EXCEPT !.stage = "artifact", !.kind = "show", !.then = "idle"])

(* applyProposal and rollbackTransaction, from a button that carries an     *)
(* approval or, for a rollback, a transaction, or from the palette.         *)
Press(c, op, button) ==
  LET r == [AtRest EXCEPT !.stage = "artifact", !.kind = op, !.then = "choose"]
  IN Ask(c, IF button # Nothing /\ button[1] = "transaction" THEN [r EXCEPT !.transaction = button[2]]
            ELSE [r EXCEPT !.approval = button])

Buttons(op) == {b \in published : b[1] \in (IF op = "rollback" THEN {op, "transaction"} ELSE {op})}

PressDiscard(c) == Ask(c, [AtRest EXCEPT !.stage = "modal", !.kind = "discard"])

ArtifactOperation == IF artifact.approval = Nothing THEN Nothing ELSE artifact.approval[1]

(* With the artifact at hand: without an approval for this very operation   *)
(* the runtime is asked for one.                                            *)
Chosen(r) ==
  LET approval == IF r.kind = "apply" /\ r.approval = Nothing THEN artifact.approval ELSE r.approval
      known == [r EXCEPT !.transaction = IF r.kind = "rollback" /\ @ = 0 THEN artifact.transaction ELSE @]
  IN IF approval = Nothing \/ ArtifactOperation # r.kind
     THEN Calling([known EXCEPT !.approval = Nothing, !.then = "offer"], r.kind, Nothing, "artifact")
     ELSE [known EXCEPT !.stage = "modal", !.approval = approval]

(* Asked once, it must have published one: a modal, or an error.            *)
Offered(r) ==
  IF ArtifactOperation # r.kind THEN AtRest
  ELSE [r EXCEPT !.stage = "modal", !.approval = artifact.approval]

(* ensureArtifact: one /diff if it is missing, an error if it still is.     *)
EnsureArtifact(c) ==
  LET r == review[c]
  IN /\ \/ /\ Waits(c, "artifact") /\ artifact = Nothing
           /\ Now(c, Calling(r, "diff", Nothing, "artifact_again"))
        \/ /\ Waits(c, "artifact_again") /\ artifact = Nothing
           /\ Leave(c)
        \/ /\ Waits(c, "artifact") \/ Waits(c, "artifact_again")
           /\ artifact # Nothing
           /\ Now(c, CASE r.then = "choose" -> Chosen(r)
                        [] r.then = "offer" -> Offered(r)
                        [] OTHER -> AtRest)
     /\ UNCHANGED <<record, artifact, published, accepted, ran, asks>>

Accept(c) ==
  LET r == review[c]
  IN /\ Waits(c, "modal")
     /\ IF r.kind = "discard"
        THEN Now(c, Calling(r, "discard", Nothing, "idle")) /\ UNCHANGED accepted
        ELSE /\ Now(c, Calling(r, r.kind, r.approval, "idle"))
             /\ accepted' = [accepted EXCEPT ![r.kind] = @ + 1]
     /\ UNCHANGED <<record, artifact, published, ran, asks>>

Dismiss(c) ==
  /\ Waits(c, "modal")
  /\ Leave(c)
  /\ UNCHANGED <<record, artifact, published, accepted, ran, asks>>

(* The proposal's time is up.                                               *)
Expire ==
  /\ record.state \in Expirable
  /\ record' = [record EXCEPT !.state = "expired"]
  /\ UNCHANGED <<artifact, review, published, accepted, ran, asks>>

ReviewNext ==
  \/ \E c \in Commands :
       \/ \E op \in {"verify", "diff", "apply", "rollback"} : TypeRequest(c, op)
       \/ ShowDiff(c) \/ PressDiscard(c)
       \/ \E op \in ReviewOperations : \E button \in {Nothing} \union Buttons(op) : Press(c, op, button)
       \/ EnsureArtifact(c) \/ Accept(c) \/ Dismiss(c)
       \/ RunDiscard(c) \/ RunDiff(c) \/ RunVerify(c) \/ RunOperation(c)
       \/ ExecuteApply(c) \/ ExecuteRollback(c)
       \/ ObserveEvent(c) \/ RuntimeReturns(c)
  \/ Expire

ReviewSpec == ReviewInit /\ [][ReviewNext]_reviewVars

-----------------------------------------------------------------------------
(* Properties.                                                              *)

Approvals == ReviewOperations \X (0..MaxAttempts)

ReviewTypeOK ==
  /\ record.state \in ProposalStates /\ record.transaction \in 0..MaxAttempts
  /\ artifact = Nothing \/ artifact.approval \in Approvals \union {Nothing}
  /\ published \subseteq Approvals \union ({"transaction"} \X (1..MaxAttempts))
  /\ \A c \in Commands :
       /\ review[c].stage \in {"idle", "artifact", "artifact_again", "modal",
                              "called", "executing", "returning"}
       /\ review[c].approval \in Approvals \union {Nothing}

(* The workspace is changed, forwards or back, only on the user's native    *)
(* confirmation of that operation, each confirmation used once: no typed    *)
(* request, button or mix of concurrent commands gets around a modal.       *)
ConfirmedByUser ==
  \A op \in ReviewOperations :
    /\ Cardinality({x \in ran : x.op = op}) <= accepted[op]
    /\ \A x \in ran : x.confirmed # Nothing /\ x.confirmed[1] = x.op

(* The extension never holds a transaction the runtime did not commit, and  *)
(* what it offers to roll back is the proposal's only one.                  *)
KnownTransactionCommitted ==
  artifact # Nothing /\ artifact.transaction # 0 =>
    /\ [op |-> "apply", transaction |-> artifact.transaction] \in
         {[op |-> x.op, transaction |-> x.transaction] : x \in ran}
    /\ record.transaction = artifact.transaction

(* The user decides: each change of the workspace has its own confirmation, *)
(* and the transaction the extension holds is one that was committed.       *)
UserDecides == ReviewTypeOK /\ ConfirmedByUser /\ KnownTransactionCommitted

=============================================================================
