---------------------------- MODULE EditLifecycle ----------------------------
(***************************************************************************)
(* The life of an edit proposal (crates/opticcode-edit): the chat commands *)
(* fix, verify, diff, discard, apply and rollback, run by concurrent       *)
(* processes over one proposal store and one workspace.  Every store       *)
(* update is atomic (a lock file and an immutable generation per update);  *)
(* everything between two updates interleaves with the other commands, the *)
(* user's edits, cancellation, expiry, crashes and I/O errors.             *)
(*                                                                         *)
(* The transaction engine is the one of module ApplyTransaction, reduced   *)
(* to what its callers see: a start under the workspace lock, and an end.  *)
(* A proposal edits one file, so that each policy check of a verification  *)
(* is made once.                                                           *)
(***************************************************************************)
EXTENDS Integers, FiniteSets

CONSTANTS
  Props,          \* proposal identifiers
  Cmds,           \* processes, one chat command each at a time
  None,           \* Option::None
  Overlap,        \* do all proposals edit the same file, or each its own?
  MaxPolicy,      \* record_policy's limit on policy references (512)
  MaxGenerations, \* MAX_RECORD_GENERATIONS (4096)
  MaxCommands,    \* bound on the commands started
  MaxEdits,       \* bound on the user's edits, reverts and commits
  MaxRepairs,     \* bound on `apply --undo` and `--recover` at the command line
  MaxCrashes,     \* bound on crashes
  MaxFaults,      \* bound on I/O errors
  MaxCancels,     \* bound on cancelled commands
  MaxDisturbances,\* bound on the sum of these five
  MayExpire,      \* the proposals whose TTL may elapse
  MayContend      \* the proposals on which a command may be run twice at once

ASSUME LifecycleAssumption ==
  /\ None \notin Props /\ None \notin Cmds
  /\ Overlap \in BOOLEAN
  /\ MayExpire \subseteq Props /\ MayContend \subseteq Props
  /\ {MaxPolicy, MaxGenerations, MaxCommands, MaxEdits, MaxRepairs,
      MaxCrashes, MaxFaults, MaxCancels, MaxDisturbances} \subseteq Nat

(* ProposalState.  `generated` is the first entry of a transition history   *)
(* only: a record is first published as `validated`.                        *)
States == {"validated", "worktree_prepared", "worktree_applied", "build_running",
           "verified", "verification_failed", "approval_pending", "applying",
           "applied", "rollback_available", "rolling_back", "rolled_back",
           "discarded", "expired", "failed"}

(* can_transition_to.                                                       *)
Successors(s) ==
  CASE s = "validated" ->
         {"worktree_prepared", "verification_failed", "failed", "expired", "discarded"}
    [] s = "worktree_prepared" -> {"worktree_applied", "verification_failed", "failed"}
    [] s = "worktree_applied" -> {"build_running", "verification_failed", "failed"}
    [] s = "build_running" -> {"verified", "verification_failed", "failed"}
    [] s = "verified" ->
         {"worktree_prepared", "verification_failed", "approval_pending", "applying",
          "expired", "discarded"}
    [] s = "verification_failed" -> {"worktree_prepared", "expired", "discarded"}
    [] s = "approval_pending" -> {"applying", "verified", "expired", "discarded"}
    [] s = "applying" -> {"applied", "verified", "failed"}
    [] s = "applied" -> {"rollback_available", "rolling_back", "failed"}
    [] s = "rollback_available" -> {"rolling_back", "expired"}
    [] s = "rolling_back" -> {"rolled_back", "rollback_available", "failed"}
    [] OTHER -> {}

DiscardAlways(s, next) ==             \* mutant of CanTransition
  next \in Successors(s) \/ next = s \/ next = "discarded"
CanTransition(s, next) == next \in Successors(s) \/ next = s

(* The states a command passes through while it runs.                       *)
Transient == {"worktree_prepared", "worktree_applied", "build_running",
              "approval_pending", "applying", "applied", "rolling_back"}

Txns == 1..MaxCommands

(* ProposalRecord: the report fields keep what later commands read of them. *)
ApplyReports == [txn : Txns, success : BOOLEAN]

Records ==
  [state : States, generations : Nat, policy : Nat,
   verification : {"none", "failed", "passed"},   \* and verified_diff with it
   apply : ApplyReports \union {None},
   rollback : {"none", "failed", "done"}]

ASSUME RecordAssumption == None \notin Records \union ApplyReports

VARIABLES
  rec,        \* proposal -> its latest generation in the store, or None
  late,       \* proposals whose expires_at has passed
  content,    \* proposal -> what its files hold in the workspace
  elsewhere,  \* the rest of the workspace: as at base_head, dirty, or committed
  lock,       \* holder of the engine's workspace lock
  txns,       \* transaction -> its proposal and the state of its journal
  cmd,        \* process -> the command it runs
  proven,     \* proposals whose worktree stages all passed (history)
  contested,  \* proposals on which a command was run twice at once (history)
  issued,     \* commands started
  budget      \* how much of each kind of environment step is spent

storeVars == <<rec, late>>
workspaceVars == <<content, elsewhere>>
engineVars == <<lock, txns>>
vars == <<storeVars, workspaceVars, engineVars, cmd, proven, contested, issued, budget>>

Budgets == [edits : Nat, repairs : Nat, crashes : Nat, faults : Nat, cancels : Nat]

-----------------------------------------------------------------------------
(* The workspace.                                                           *)

Contents == {"base", "proposed", "partial", "foreign"}

SameFiles(p, q) == p = q \/ Overlap

(* The workspace once the files of p hold v.                                *)
Written(p, v) ==
  [q \in Props |-> IF q = p THEN v
                   ELSE IF ~Overlap THEN content[q]
                   ELSE IF v = "base" THEN "base" ELSE "foreign"]

(* Nothing but the files of p differs from HEAD.                            *)
OthersClean(p) ==
  elsewhere # "dirty" /\ \A q \in Props : SameFiles(p, q) \/ content[q] = "base"

Clean == elsewhere # "dirty" /\ \A p \in Props : content[p] = "base"

(* observe_repository agrees with the plan: clean, base_head, same digest.  *)
AtBase == Clean /\ elsewhere = "same"

-----------------------------------------------------------------------------
(* A running command.                                                       *)

Ops == {"fix", "verify", "diff", "discard", "apply", "rollback"}

Idle == [op |-> "none", pc |-> "idle", prop |-> None, txn |-> 0, decisions |-> 0,
         bound |-> "none", result |-> "none", next |-> "none", ok |-> FALSE,
         silent |-> FALSE, cancelled |-> FALSE]

Pcs == {"idle", "observe_fix", "create", "context_policy", "discard", "load", "expire",
        "observe", "prepare", "write", "build_start", "build", "pending", "issue",
        "retreat", "applying", "rolling", "consume", "refuse", "execute", "executing",
        "recheck", "postcheck", "undo", "undoing", "undone", "conclude", "available",
        "policy", "report"}

Commands ==
  [op : Ops \union {"none"}, pc : Pcs, prop : Props \union {None},
   txn : Txns \union {0}, decisions : Nat, bound : Contents \union {"none"},
   result : {"none", "rolled_back", "error"}, next : States \union {"none"},
   ok : BOOLEAN, silent : BOOLEAN, cancelled : BOOLEAN]

JournalStates == {"none", "open", "committed", "undoing", "rolled_back", "stuck"}

TypeOK ==
  /\ rec \in [Props -> Records \union {None}]
  /\ late \subseteq Props
  /\ content \in [Props -> Contents]
  /\ elsewhere \in {"same", "dirty", "committed"}
  /\ lock \in Cmds \union {None}
  /\ txns \in [Txns -> [prop : Props \union {None}, state : JournalStates]]
  /\ cmd \in [Cmds -> Commands]
  /\ proven \subseteq Props /\ contested \subseteq Props
  /\ issued \in 0..MaxCommands
  /\ budget \in Budgets

Init ==
  /\ rec = [p \in Props |-> None] /\ late = {}
  /\ content = [p \in Props |-> "base"] /\ elsewhere = "same"
  /\ lock = None /\ txns = [t \in Txns |-> [prop |-> None, state |-> "none"]]
  /\ cmd = [c \in Cmds |-> Idle]
  /\ proven = {} /\ contested = {} /\ issued = 0
  /\ budget = [edits |-> 0, repairs |-> 0, crashes |-> 0, faults |-> 0, cancels |-> 0]

Goto(c, l) == cmd' = [cmd EXCEPT ![c].pc = l]

(* The command returns, with a result or with `?`.                          *)
Return(c) == cmd' = [cmd EXCEPT ![c] = Idle]

(* A step of the environment, within its bounds.                            *)
Spend(kind, bound) ==
  /\ budget[kind] < bound
  /\ budget.edits + budget.repairs + budget.crashes + budget.faults + budget.cancels
       < MaxDisturbances
  /\ budget' = [budget EXCEPT ![kind] = @ + 1]

IoError == Spend("faults", MaxFaults)
NoIoError == UNCHANGED budget

-----------------------------------------------------------------------------
(* ProposalStore.                                                           *)

(* load_latest_valid_record refuses a directory with too many generations.  *)
Readable(p) == rec[p] # None /\ rec[p].generations <= MaxGenerations

(* update: the next generation of p.                                        *)
Publish(p, r) == rec' = [rec EXCEPT ![p] = [r EXCEPT !.generations = @ + 1]]

(* transition, and its failures: an illegal change of state, an unreadable  *)
(* record, a busy store or an I/O error.                                    *)
Transition(p, next) ==
  /\ Readable(p) /\ CanTransition(rec[p].state, next)
  /\ Publish(p, [rec[p] EXCEPT !.state = next])
  /\ NoIoError

TransitionRefused(p, next) ==
  /\ UNCHANGED rec
  /\ \/ ~(Readable(p) /\ CanTransition(rec[p].state, next)) /\ NoIoError
     \/ IoError

(* expired: the TTL does not end what was applied.                          *)
Expired(p) ==
  p \in late /\ rec[p].state \notin {"applied", "rollback_available", "rolling_back", "rolled_back"}

(* A transition that ends the command when it fails, and goes on at l.      *)
MoveOrReturn(c, next, l) ==
  \/ Transition(cmd[c].prop, next) /\ Goto(c, l)
  \/ TransitionRefused(cmd[c].prop, next) /\ Return(c)

-----------------------------------------------------------------------------
(* Starting a command: run_fix, run_verify, run_diff, run_apply and         *)
(* run_rollback.  A fix makes a new identifier; the others resolve a        *)
(* proposal that exists.  Whatever they read before the command proper is   *)
(* read again by it.  Nothing keeps a command from being started twice at   *)
(* once on one proposal.                                                    *)

(* A fix ends in a verification.                                            *)
Kind(op) == IF op = "fix" THEN "verify" ELSE op

(* op is started on p while a command of its kind is at work there.  A diff *)
(* or a discard writes to the record at most once, when it ends.            *)
Contends(p, op) ==
  /\ op \notin {"diff", "discard"}
  /\ \E d \in Cmds : cmd[d].prop = p /\ Kind(cmd[d].op) = Kind(op)

FirstPc(op) == CASE op = "fix" -> "observe_fix" [] op = "discard" -> "discard" [] OTHER -> "load"

Start(c, p, op) ==
  /\ cmd[c].pc = "idle"
  /\ issued < MaxCommands
  /\ IF op = "fix" THEN rec[p] = None /\ \A d \in Cmds : cmd[d].prop # p ELSE rec[p] # None
  /\ Contends(p, op) => p \in MayContend
  /\ contested' = IF Contends(p, op) THEN contested \union {p} ELSE contested
  /\ issued' = issued + 1
  /\ cmd' = [cmd EXCEPT ![c] =
               [Idle EXCEPT !.op = op, !.pc = FirstPc(op), !.prop = p, !.txn = issued']]
  /\ UNCHANGED <<storeVars, workspaceVars, engineVars, proven, budget>>

(* run_fix up to the validated plan: the workspace must be clean.  The      *)
(* model's answer may be refused.                                           *)
ObserveFix(c) ==
  /\ cmd[c].pc = "observe_fix"
  /\ \/ AtBase /\ ~cmd[c].cancelled /\ Goto(c, "create")
     \/ Return(c)
  /\ UNCHANGED <<storeVars, workspaceVars, engineVars, proven, issued, budget>>

(* create_record; a proposal that verification never reaches stays          *)
(* validated.                                                               *)
Create(c) ==
  /\ cmd[c].pc = "create"
  /\ \/ /\ rec' = [rec EXCEPT ![cmd[c].prop] =
                     [state |-> "validated", generations |-> 1, policy |-> 0,
                      verification |-> "none", apply |-> None, rollback |-> "none"]]
        /\ Goto(c, "context_policy")
        /\ NoIoError
     \/ IoError /\ Return(c) /\ UNCHANGED rec
  /\ UNCHANGED <<late, workspaceVars, engineVars, proven, issued>>

(* record_policy: refused beyond its bound.                                 *)
RecordPolicy(p, n) ==
  /\ Readable(p) /\ rec[p].policy + n <= MaxPolicy
  /\ Publish(p, [rec[p] EXCEPT !.policy = @ + n])
  /\ NoIoError

RecordPolicyRefused(p, n) ==
  /\ UNCHANGED rec
  /\ \/ ~(Readable(p) /\ rec[p].policy + n <= MaxPolicy) /\ NoIoError
     \/ IoError

ContextPolicy(c) ==
  /\ cmd[c].pc = "context_policy"
  /\ \/ RecordPolicy(cmd[c].prop, 1) /\ Goto(c, "load")
     \/ RecordPolicyRefused(cmd[c].prop, 1) /\ Return(c)
  /\ UNCHANGED <<late, workspaceVars, engineVars, proven, issued>>

Discard(c) ==
  /\ cmd[c].pc = "discard"
  /\ \/ Transition(cmd[c].prop, "discarded")
     \/ TransitionRefused(cmd[c].prop, "discarded")
  /\ Return(c)
  /\ UNCHANGED <<late, workspaceVars, engineVars, proven, issued>>

(* validate_verification_preconditions, validate_apply_preconditions and    *)
(* the checks of rollback_edit_proposal on the record.                      *)
Preconditions(op, r) ==
  CASE op \in {"fix", "verify"} -> r.state \in {"validated", "verified", "verification_failed"}
    [] op = "apply" -> r.state = "verified" /\ r.verification = "passed"
    [] op = "rollback" -> /\ r.state \in {"rollback_available", "applied"}
                          /\ r.apply # None
                          /\ r.apply.success
    [] OTHER -> FALSE

(* expire_if_needed reads, and writes in a second store access; a rollback  *)
(* only reads.  /diff ends here.                                            *)
Load(c) ==
  LET p == cmd[c].prop
      r == rec[p]
      expiring == cmd[c].op # "rollback" /\ Expired(p) /\ r.state # "expired"
      goes == Preconditions(cmd[c].op, r) /\ ~Expired(p)
  IN /\ cmd[c].pc = "load"
     /\ \/ Readable(p) /\ expiring /\ Goto(c, "expire")
        \/ /\ Readable(p) /\ ~expiring /\ goes
           /\ cmd' = [cmd EXCEPT ![c].pc = "observe",
                                 ![c].txn = IF cmd[c].op = "rollback" THEN r.apply.txn ELSE @]
        \/ ~(Readable(p) /\ (expiring \/ goes)) /\ Return(c)
     /\ UNCHANGED <<storeVars, workspaceVars, engineVars, proven, issued, budget>>

(* An expired record meets no precondition, so the command ends either way. *)
Expire(c) ==
  /\ cmd[c].pc = "expire"
  /\ \/ Transition(cmd[c].prop, "expired")
     \/ TransitionRefused(cmd[c].prop, "expired")
  /\ Return(c)
  /\ UNCHANGED <<late, workspaceVars, engineVars, proven, issued>>

(* The workspace and the first policy decision.  A rollback wants the exact *)
(* applied diff, and issues its approval before it touches the record.      *)
Observe(c) ==
  LET p == cmd[c].prop
      op == cmd[c].op
      fits == IF op = "rollback"
              THEN elsewhere = "same" /\ content[p] = "proposed" /\ OthersClean(p)
              ELSE AtBase
  IN /\ cmd[c].pc = "observe"
     /\ \/ /\ fits /\ ~cmd[c].cancelled
           /\ cmd' = [cmd EXCEPT
                ![c].pc = CASE op = "apply" -> "pending" [] op = "rollback" -> "rolling"
                            [] OTHER -> "prepare",
                ![c].decisions = IF op \in {"apply", "rollback"} THEN 1 ELSE 0]
           /\ NoIoError
        \/ ~(fits /\ ~cmd[c].cancelled) /\ Return(c) /\ NoIoError
        \/ IoError /\ Return(c)
     /\ UNCHANGED <<storeVars, workspaceVars, engineVars, proven, issued>>

-----------------------------------------------------------------------------
(* verify_edit_proposal, inside run_in_disposable_worktree: three stages    *)
(* that move the record, the build, and finish_verification.                *)

Stages ==
  [prepare     |-> [next |-> "worktree_prepared", then |-> "write", decisions |-> 1],
   write       |-> [next |-> "worktree_applied", then |-> "build_start", decisions |-> 2],
   build_start |-> [next |-> "build_running", then |-> "build", decisions |-> 1]]

(* What finish_verification is to record.                                   *)
Finish(c, ok, n) ==
  cmd' = [cmd EXCEPT ![c].pc = "conclude", ![c].ok = ok, ![c].decisions = @ + n,
                     ![c].next = IF ok THEN "verified" ELSE "verification_failed"]

(* The worktree needs an unchanged source; an error in a stage, a refused   *)
(* transition included, still cleans up and finishes as failed.             *)
Stage(c) ==
  LET stage == Stages[cmd[c].pc]
      starts == (cmd[c].pc = "prepare" => AtBase) /\ ~cmd[c].cancelled
  IN /\ cmd[c].pc \in DOMAIN Stages
     /\ \/ /\ starts
           /\ Transition(cmd[c].prop, stage.next)
           /\ cmd' = [cmd EXCEPT ![c].pc = stage.then,
                                 ![c].decisions = @ + stage.decisions]
        \/ /\ starts
           /\ TransitionRefused(cmd[c].prop, stage.next)
           /\ Finish(c, FALSE, stage.decisions + 1)
        \/ /\ \/ ~starts /\ NoIoError
              \/ IoError
           /\ Finish(c, FALSE, 1)
           /\ UNCHANGED rec
     /\ UNCHANGED <<late, workspaceVars, engineVars, proven, issued>>

(* success in finish_verification.                                          *)
BuildIgnored(passed, cleaned, unchanged) == cleaned /\ unchanged  \* mutant of Success
Success(passed, cleaned, unchanged) == passed /\ cleaned /\ unchanged

(* Mutant of Build: a build that does not pass leaves with `?`.             *)
BuildReturns(c) ==
  /\ cmd[c].pc = "build"
  /\ \/ /\ AtBase /\ ~cmd[c].cancelled /\ Finish(c, TRUE, 2)
        /\ proven' = proven \union {cmd[c].prop}
     \/ Return(c) /\ UNCHANGED proven
  /\ UNCHANGED <<storeVars, workspaceVars, engineVars, issued, budget>>

(* The build and the tests pass or fail, the cleanup works or not, and the  *)
(* source is compared with what it was.                                     *)
Build(c) ==
  /\ cmd[c].pc = "build"
  /\ \E passed, cleaned \in BOOLEAN :
       /\ passed => ~cmd[c].cancelled
       /\ Finish(c, Success(passed, cleaned, AtBase), 2)
       /\ proven' = IF passed /\ cleaned /\ AtBase THEN proven \union {cmd[c].prop} ELSE proven
  /\ UNCHANGED <<storeVars, workspaceVars, engineVars, issued, budget>>

-----------------------------------------------------------------------------
(* apply_verified_proposal and rollback_edit_proposal.                      *)

Pending(c) ==
  /\ cmd[c].pc = "pending"
  /\ MoveOrReturn(c, "approval_pending", "issue")
  /\ UNCHANGED <<late, workspaceVars, engineVars, proven, issued>>

(* issue_approval evaluates the paths again and binds the content of the    *)
(* files; a path that appeared or disappeared is refused.                   *)
Issue(c) ==
  LET now == content[cmd[c].prop] IN
  /\ cmd[c].pc = "issue"
  /\ \/ cmd' = [cmd EXCEPT ![c].pc = "applying", ![c].bound = now] /\ NoIoError
     \/ now # "base" /\ Goto(c, "retreat") /\ NoIoError
     \/ IoError /\ Goto(c, "retreat")
  /\ UNCHANGED <<storeVars, workspaceVars, engineVars, proven, issued>>

Retreat(c) ==
  /\ cmd[c].pc = "retreat"
  /\ \/ Transition(cmd[c].prop, "verified")
     \/ TransitionRefused(cmd[c].prop, "verified")
  /\ Return(c)
  /\ UNCHANGED <<late, workspaceVars, engineVars, proven, issued>>

Applying(c) ==
  /\ cmd[c].pc = "applying"
  /\ MoveOrReturn(c, "applying", "consume")
  /\ UNCHANGED <<late, workspaceVars, engineVars, proven, issued>>

Rolling(c) ==
  /\ cmd[c].pc = "rolling"
  /\ MoveOrReturn(c, "rolling_back", "consume")
  /\ UNCHANGED <<late, workspaceVars, engineVars, proven, issued>>

(* authorize: the grant is consumed if its binding still holds.  A rollback *)
(* is bound to no file.                                                     *)
Consume(c) ==
  LET apply == cmd[c].op = "apply"
      bound == apply => content[cmd[c].prop] = cmd[c].bound
      step(l) == cmd' = [cmd EXCEPT ![c].pc = l, ![c].decisions = @ + 1]
  IN /\ cmd[c].pc = "consume"
     /\ \/ bound /\ step(IF apply THEN "execute" ELSE "undo") /\ NoIoError
        \/ ~bound /\ step("refuse") /\ NoIoError
        \/ IoError /\ Goto(c, "refuse")
     /\ UNCHANGED <<storeVars, workspaceVars, engineVars, proven, issued>>

(* The approval was not consumed: the record goes back, nothing was done.   *)
Refuse(c) ==
  LET back == IF cmd[c].op = "apply" THEN "verified" ELSE "rollback_available" IN
  /\ cmd[c].pc = "refuse"
  /\ \/ /\ Transition(cmd[c].prop, back)
        /\ cmd' = [cmd EXCEPT ![c].pc = "policy", ![c].silent = TRUE]
     \/ TransitionRefused(cmd[c].prop, back) /\ Return(c)
  /\ UNCHANGED <<late, workspaceVars, engineVars, proven, issued>>

(* execute_apply_transaction, first part: the lock, a clean worktree and    *)
(* the expected contents, or an error before anything is written.           *)
Execute(c) ==
  LET p == cmd[c].prop
      fits == lock = None /\ Clean
  IN /\ cmd[c].pc = "execute"
     /\ \/ /\ fits
           /\ lock' = c
           /\ txns' = [txns EXCEPT ![cmd[c].txn] = [prop |-> p, state |-> "open"]]
           /\ content' = Written(p, "partial")
           /\ Goto(c, "executing")
           /\ NoIoError
        \/ /\ \/ ~fits /\ NoIoError
              \/ IoError
           /\ Goto(c, "recheck")
           /\ UNCHANGED <<lock, txns, content>>
     /\ UNCHANGED <<storeVars, elsewhere, proven, issued>>

Settle(c, state) ==
  /\ txns' = [txns EXCEPT ![cmd[c].txn].state = state]
  /\ lock' = None

(* Second part: committed; or rolled back, which fails if the rest of the   *)
(* worktree changed (files restored, Git state not), if a target holds      *)
(* foreign content, or on an I/O error.                                     *)
Executing(c) ==
  LET p == cmd[c].prop
      sound == content[p] = "partial" /\ OthersClean(p)
  IN /\ cmd[c].pc = "executing"
     /\ \/ /\ sound
           /\ Settle(c, "committed")
           /\ content' = Written(p, "proposed")
           /\ Goto(c, "postcheck")
           /\ NoIoError
        \/ /\ content[p] \in {"base", "partial"}
           /\ \/ ~sound /\ NoIoError
              \/ IoError
           /\ Settle(c, IF OthersClean(p) THEN "rolled_back" ELSE "stuck")
           /\ content' = Written(p, "base")
           /\ Goto(c, "recheck")
        \/ /\ \/ content[p] \notin {"base", "partial"} /\ NoIoError
              \/ IoError
           /\ Settle(c, "stuck")
           /\ Goto(c, "recheck")
           /\ UNCHANGED content
     /\ UNCHANGED <<storeVars, elsewhere, proven, issued>>

(* finish_failed_apply: the real snapshots decide where the record goes.    *)
AlwaysRestored(c) == TRUE             \* mutant of SnapshotsAtBase
SnapshotsAtBase(c) == content[cmd[c].prop] = "base"

Concluding(c, next, ok) ==
  cmd' = [cmd EXCEPT ![c].pc = "conclude", ![c].next = next, ![c].ok = ok]

Recheck(c) ==
  /\ cmd[c].pc = "recheck"
  /\ Concluding(c, IF SnapshotsAtBase(c) THEN "verified" ELSE "failed", FALSE)
  /\ UNCHANGED <<storeVars, workspaceVars, engineVars, proven, issued, budget>>

(* Reparse and exact diff; a cancelled diff fails like a different one.     *)
Postcheck(c) ==
  LET p == cmd[c].prop
      exact == content[p] = "proposed" /\ OthersClean(p) /\ ~cmd[c].cancelled
  IN /\ cmd[c].pc = "postcheck"
     /\ \/ exact /\ Concluding(c, "applied", TRUE) /\ NoIoError
        \/ ~exact /\ Goto(c, "undo") /\ NoIoError
        \/ IoError /\ Goto(c, "undo")
     /\ UNCHANGED <<storeVars, workspaceVars, engineVars, proven, issued>>

(* rollback_apply_transaction: idempotent once rolled back.                 *)
Undo(c) ==
  LET p == cmd[c].prop
      done == txns[cmd[c].txn].state = "rolled_back"
      back(result) == cmd' = [cmd EXCEPT ![c].pc = "undone", ![c].result = result]
  IN /\ cmd[c].pc = "undo"
     /\ \/ /\ lock = None /\ ~done
           /\ lock' = c
           /\ txns' = [txns EXCEPT ![cmd[c].txn].state = "undoing"]
           /\ content' = IF content[p] = "proposed" THEN Written(p, "partial") ELSE content
           /\ Goto(c, "undoing")
           /\ NoIoError
        \/ /\ \/ lock = None /\ done /\ NoIoError /\ back(IF Clean THEN "rolled_back" ELSE "error")
              \/ lock # None /\ NoIoError /\ back("error")
              \/ IoError /\ back("error")
           /\ UNCHANGED <<lock, txns, content>>
     /\ UNCHANGED <<storeVars, elsewhere, proven, issued>>

Undoing(c) ==
  LET p == cmd[c].prop
      own == content[p] \in {"base", "partial"}
      back(result) == cmd' = [cmd EXCEPT ![c].pc = "undone", ![c].result = result]
  IN /\ cmd[c].pc = "undoing"
     /\ \/ /\ own
           /\ Settle(c, IF OthersClean(p) THEN "rolled_back" ELSE "stuck")
           /\ content' = Written(p, "base")
           /\ back(IF OthersClean(p) THEN "rolled_back" ELSE "error")
           /\ NoIoError
        \/ /\ \/ ~own /\ NoIoError
              \/ IoError
           /\ Settle(c, "stuck")
           /\ back("error")
           /\ UNCHANGED content
     /\ UNCHANGED <<storeVars, elsewhere, proven, issued>>

(* After the engine's rollback.  An apply goes back to verified or fails.   *)
(* A rollback checks the snapshots and observes the repository again: an    *)
(* error there returns at once and leaves the record in rolling_back.       *)
Undone(c) ==
  LET rolled == cmd[c].result = "rolled_back" IN
  /\ cmd[c].pc = "undone"
  /\ \/ /\ cmd[c].op = "apply"
        /\ Concluding(c, IF rolled /\ SnapshotsAtBase(c) THEN "verified" ELSE "failed", FALSE)
        /\ NoIoError
     \/ /\ cmd[c].op = "rollback" /\ ~rolled
        /\ Concluding(c, "rollback_available", FALSE)
        /\ NoIoError
     \/ /\ cmd[c].op = "rollback" /\ rolled
        /\ SnapshotsAtBase(c) /\ ~cmd[c].cancelled
        /\ Concluding(c, IF AtBase THEN "rolled_back" ELSE "failed", AtBase)
        /\ NoIoError
     \/ /\ cmd[c].op = "rollback" /\ rolled
        /\ \/ ~(SnapshotsAtBase(c) /\ ~cmd[c].cancelled) /\ NoIoError
           \/ IoError
        /\ Return(c)
  /\ UNCHANGED <<storeVars, workspaceVars, engineVars, proven, issued>>

(* The last transition, record_policy and the report.                       *)
Conclude(c) ==
  /\ cmd[c].pc = "conclude"
  /\ MoveOrReturn(c, cmd[c].next, IF cmd[c].next = "applied" THEN "available" ELSE "policy")
  /\ UNCHANGED <<late, workspaceVars, engineVars, proven, issued>>

Available(c) ==
  /\ cmd[c].pc = "available"
  /\ MoveOrReturn(c, "rollback_available", "policy")
  /\ UNCHANGED <<late, workspaceVars, engineVars, proven, issued>>

Policy(c) ==
  /\ cmd[c].pc = "policy"
  /\ \/ /\ RecordPolicy(cmd[c].prop, cmd[c].decisions)
        /\ IF cmd[c].silent THEN Return(c) ELSE Goto(c, "report")
     \/ RecordPolicyRefused(cmd[c].prop, cmd[c].decisions) /\ Return(c)
  /\ UNCHANGED <<late, workspaceVars, engineVars, proven, issued>>

(* record_verification, record_apply, record_rollback.                      *)
ReportedBefore(r, command) ==         \* mutant of Reported: as `success` is initialised
  CASE command.op = "apply" -> [r EXCEPT !.apply = [txn |-> command.txn, success |-> FALSE]]
    [] command.op = "rollback" -> [r EXCEPT !.rollback = "failed"]
    [] OTHER -> [r EXCEPT !.verification = IF command.ok THEN "passed" ELSE "failed"]

ReportedAttempt(r, command) ==        \* mutant of Reported: an attempt taken for a success
  CASE command.op = "apply" -> [r EXCEPT !.apply = [txn |-> command.txn, success |-> TRUE]]
    [] command.op = "rollback" -> [r EXCEPT !.rollback = "done"]
    [] OTHER -> [r EXCEPT !.verification = "passed"]

Reported(r, command) ==
  CASE command.op = "apply" ->
         [r EXCEPT !.apply = [txn |-> command.txn, success |-> command.ok]]
    [] command.op = "rollback" ->
         [r EXCEPT !.rollback = IF command.ok THEN "done" ELSE "failed"]
    [] OTHER -> [r EXCEPT !.verification = IF command.ok THEN "passed" ELSE "failed"]

Report(c) ==
  LET p == cmd[c].prop IN
  /\ cmd[c].pc = "report"
  /\ \/ Readable(p) /\ Publish(p, Reported(rec[p], cmd[c])) /\ NoIoError
     \/ ~Readable(p) /\ UNCHANGED rec /\ NoIoError
     \/ IoError /\ UNCHANGED rec
  /\ Return(c)
  /\ UNCHANGED <<late, workspaceVars, engineVars, proven, issued>>

-----------------------------------------------------------------------------
(* The environment.                                                         *)

(* The client cancels the request; the command reads the token later.       *)
Cancel(c) ==
  /\ cmd[c].pc # "idle" /\ ~cmd[c].cancelled
  /\ Spend("cancels", MaxCancels)
  /\ cmd' = [cmd EXCEPT ![c].cancelled = TRUE]
  /\ UNCHANGED <<storeVars, workspaceVars, engineVars, proven, issued>>

Crash(c) ==
  /\ cmd[c].pc # "idle"
  /\ Spend("crashes", MaxCrashes)
  /\ lock' = IF lock = c THEN None ELSE lock
  /\ Return(c)
  /\ UNCHANGED <<storeVars, workspaceVars, txns, proven, issued>>

TtlElapses(p) ==
  /\ p \in MayExpire \ late /\ rec[p] # None
  /\ late' = late \union {p}
  /\ UNCHANGED <<rec, workspaceVars, engineVars, cmd, proven, issued, budget>>

(* The user edits a file of a proposal or another one, commits the latter,  *)
(* or checks everything out again.                                          *)
UserActs ==
  /\ Spend("edits", MaxEdits)
  /\ \/ \E p \in Props : content[p] # "foreign" /\ content' = Written(p, "foreign") /\ UNCHANGED elsewhere
     \/ elsewhere # "dirty" /\ elsewhere' = "dirty" /\ UNCHANGED content
     \/ elsewhere = "dirty" /\ elsewhere' = "committed" /\ UNCHANGED content
     \/ /\ \E p \in Props : content[p] # "base"
        /\ content' = [p \in Props |-> "base"] /\ UNCHANGED elsewhere
  /\ UNCHANGED <<storeVars, engineVars, cmd, proven, issued>>

(* `apply --recover` or `apply --undo`, which do not know of proposals.     *)
Repair(t) ==
  LET p == txns[t].prop
      own == content[p] # "foreign"
  IN /\ Spend("repairs", MaxRepairs)
     /\ lock = None
     /\ txns[t].state \in {"open", "committed", "undoing", "stuck"}
     /\ txns' = [txns EXCEPT ![t].state = IF own /\ OthersClean(p) THEN "rolled_back" ELSE "stuck"]
     /\ content' = IF own THEN Written(p, "base") ELSE content
     /\ UNCHANGED <<storeVars, elsewhere, lock, cmd, proven, issued>>

Step(c) ==
  \/ ObserveFix(c) \/ Create(c) \/ ContextPolicy(c) \/ Discard(c)
  \/ Load(c) \/ Expire(c) \/ Observe(c) \/ Stage(c) \/ Build(c)
  \/ Pending(c) \/ Issue(c) \/ Retreat(c) \/ Applying(c) \/ Rolling(c) \/ Consume(c)
  \/ Refuse(c) \/ Execute(c) \/ Executing(c) \/ Recheck(c) \/ Postcheck(c)
  \/ Undo(c) \/ Undoing(c) \/ Undone(c)
  \/ Conclude(c) \/ Available(c) \/ Policy(c) \/ Report(c)

Environment ==
  \/ \E c \in Cmds : Cancel(c) \/ Crash(c)
  \/ \E p \in Props : TtlElapses(p)
  \/ UserActs
  \/ \E t \in Txns : Repair(t)

(* Only the start of a command can make a proposal contested.               *)
Works(c) == Step(c) /\ UNCHANGED contested

Next ==
  \/ \E c \in Cmds, p \in Props, op \in Ops : Start(c, p, op)
  \/ \E c \in Cmds : Works(c)
  \/ Environment /\ UNCHANGED contested

Spec == Init /\ [][Next]_vars

(* A started command keeps running.                                         *)
FairSpec == Spec /\ \A c \in Cmds : WF_vars(Works(c))

-----------------------------------------------------------------------------
(* Properties.                                                              *)

AtRest == \A c \in Cmds : cmd[c].pc = "idle"

(* The part of an apply, of a rollback and of a verification during which   *)
(* the record must stay in the state the command put it in.                 *)
Section(c) ==
  LET at == cmd[c].pc
      engine == {"consume", "refuse", "execute", "executing", "recheck", "postcheck",
                 "undo", "undoing", "undone", "conclude"}
  IN CASE at = "write" -> {"worktree_prepared"}
       [] at = "build_start" -> {"worktree_applied"}
       [] at = "build" -> {"build_running"}
       [] at = "available" -> {"applied"}
       [] cmd[c].op = "apply" /\ at \in engine -> {"applying"}
       [] cmd[c].op = "rollback" /\ at \in engine -> {"rolling_back"}
       [] OTHER -> States

(* The recorded state is the proposal's lock: while a command is between    *)
(* its transitions, no other command, discard, expiry or failure path moves *)
(* the record under it (can_transition_to), whatever crashes and errors     *)
(* happen, unless a command was run twice at once on that proposal.         *)
StateIsLock ==
  \A c \in Cmds :
    LET p == cmd[c].prop IN
    p # None /\ p \notin contested /\ rec[p] # None => rec[p].state \in Section(c)

(* What the reports say happened: a successful apply report names a         *)
(* transaction of this proposal that did commit, and a proposal is rolled   *)
(* back only when the engine rolled that transaction back.  Of two applies  *)
(* at once the later report replaces the earlier one, also when it failed.  *)
ReportsTrue ==
  \A p \in Props : rec[p] # None /\ rec[p].apply # None =>
    LET t == txns[rec[p].apply.txn] IN
    /\ rec[p].apply.success => t.prop = p /\ t.state \notin {"none", "open"}
    /\ rec[p].state = "rolled_back" /\ p \notin contested =>
         rec[p].apply.success /\ t.state = "rolled_back"

(* Only a proposal whose worktree build, cleanup and source guard passed is *)
(* ever written to the original workspace; and only while its record says   *)
(* it is being applied, not once it was discarded or has expired, unless a  *)
(* command was run twice at once on it: the one that fails takes the record *)
(* out of `applying` under the other.                                       *)
AppliedWasVerified ==
  [][\A t \in Txns :
       LET p == txns'[t].prop IN
       txns[t].state = "none" /\ txns'[t].state = "open" =>
         p \in proven /\ (p \in contested \/ rec[p].state = "applying")]_vars

(* An apply that fails returns to `verified` only when none of the          *)
(* proposal's changes is left in the workspace, whatever the user edits,    *)
(* reverts or repairs meanwhile and whichever proposals for the same files  *)
(* are applied, unless a command was run twice at once on this one.         *)
VerifiedIsRestored ==
  [][\A p \in Props \ contested :
       rec[p] # None /\ rec[p].state = "applying" /\ rec'[p].state = "verified" =>
         content[p] \notin {"proposed", "partial"}]_vars

(* "En cas d'echec apply, OpticCode verifie les snapshots reels avant de    *)
(* revenir a `verified`" (docs/chat-edits.md:206), of every proposal.  The  *)
(* code does not keep this one: the failure of an approval returns to       *)
(* `verified` without a look (apply.rs:116, 137), while another apply of the*)
(* proposal writes.                                                         *)
FailureIsChecked ==
  [][\A p \in Props :
       rec[p] # None /\ rec[p].state = "applying" /\ rec'[p].state = "verified" =>
         content[p] \notin {"proposed", "partial"}]_vars

(* No bound of the store is near: every record can be read, and takes the   *)
(* two policy references that a command adds at most.                       *)
Roomy == \A p \in Props : rec[p] # None => Readable(p) /\ rec[p].policy + 2 <= MaxPolicy

Calm == budget.crashes = 0 /\ budget.faults = 0 /\ Roomy

(* `rollback_available` keeps its word: with no command running, no crash   *)
(* and no I/O error, the record names the committed transaction a rollback  *)
(* needs.                                                                   *)
RollbackUsable ==
  AtRest /\ Calm =>
    \A p \in Props \ contested : rec[p] # None /\ rec[p].state = "rollback_available" =>
      rec[p].apply # None /\ rec[p].apply.success

(* The snapshots or the repository could not be checked after a rollback:   *)
(* rollback_edit_proposal returns between the engine's rollback, which is   *)
(* done, and the transition that would have recorded it.                    *)
Overtaken(p) ==
  /\ rec[p].state = "rolling_back"
  /\ rec[p].apply # None /\ txns[rec[p].apply.txn].state = "rolled_back"

(* No command that ends by itself leaves the record in a state that only a  *)
(* running command leaves again, whatever the user edits or cancels: but for*)
(* a rollback whose files are restored and whose checks then fail.          *)
NotStranded ==
  AtRest /\ Calm =>
    \A p \in Props \ contested : rec[p] # None /\ rec[p].state \in Transient => Overtaken(p)

(* No command ends in a dead end: a state that only a command leaves is left*)
(* by the one that entered it, and a rollback that is offered can be made,  *)
(* unless a command was run twice at once on the proposal.                  *)
NoDeadEnd == NotStranded /\ RollbackUsable

(* A state that only a running command leaves is left, whichever commands   *)
(* run at the same time, also two of a kind on one proposal: they do not    *)
(* wait for each other, and none is left behind by the failure of another.  *)
(* The one way to stay behind is that of Overtaken: the files of a rollback *)
(* are restored, a proposal for the same file is applied or the request is  *)
(* cancelled before its last checks, and the command returns without a      *)
(* transition.                                                              *)
Moving(p) == rec[p] # None /\ rec[p].state \in Transient

LeftBehind(p) == Overtaken(p) /\ \A c \in Cmds : cmd[c].prop # p

Settles == \A p \in Props : Moving(p) ~> (~Moving(p) \/ LeftBehind(p))

=============================================================================
