-------------------------- MODULE ApplyTransaction --------------------------
(***************************************************************************)
(* The transactional file engine of OpticCode                              *)
(* (crates/opticcode-tools/src/apply_transaction.rs): `apply`, automatic   *)
(* rollback, explicit `undo` and `recover`, run by concurrent processes    *)
(* over one workspace that a user edits at the same time, with process     *)
(* crashes and I/O errors at every durable step.                           *)
(*                                                                         *)
(* A path is a number: `validate_and_sort_mutations` orders the mutations  *)
(* by path, and the engine applies them in that order and restores them in *)
(* the reverse one.  A content is a model value, and so is its BLAKE3      *)
(* fingerprint; Absent is a file that does not exist.                      *)
(***************************************************************************)
EXTENDS Integers, Sequences, FiniteSets

CONSTANTS
  Procs,      \* the OpticCode processes (one running operation each)
  Txns,       \* transaction identifiers
  NFiles,     \* the workspace has the paths 1..NFiles
  Contents,   \* file contents
  Absent,     \* no file at the path
  InitFiles,  \* the workspace, and the Git HEAD, at the start
  Requests,   \* the ApplyTransactionRequests processes may submit
  GitRepo,    \* is the workspace a Git worktree?
  None,       \* Option::None
  RaceWindow, \* may the user write between the last check and the rename?
  SyncFaults, \* may a directory sync fail after the rename it follows?
  MaxEdits,   \* bound on the user's writes and commits
  MaxCrashes, \* bound on process crashes
  MaxFaults,  \* bound on I/O errors
  MaxEvents   \* bound on the journal of a transaction: no rollback past it

Files == 1..NFiles
Value == Contents \union {Absent}
Policies == {"require_clean", "allow_dirty", "optional"}

(* ApplyTransactionRequest: the planned paths, and what is expected at, and *)
(* wanted for, each of them.                                                *)
Request == [files : SUBSET Files, before : [Files -> Value],
            after : [Files -> Value], policy : Policies]

ASSUME ConstantsAssumption ==
  /\ NFiles \in Nat
  /\ Absent \notin Contents
  /\ InitFiles \in [Files -> Value]
  /\ Requests \subseteq Request
  /\ None \notin Procs /\ None \notin Txns
  /\ {GitRepo, RaceWindow, SyncFaults} \subseteq BOOLEAN
  /\ {MaxEdits, MaxCrashes, MaxFaults, MaxEvents} \subseteq Nat

(* ApplyTransactionState; "none" is the state before the first event.       *)
States == {"prepared", "applying", "applied", "finalizing", "committed",
           "rollback_started", "rolled_back", "rollback_failed"}

(* valid_transition.                                                        *)
Transitions ==
  { <<"none", "prepared">>,
    <<"prepared", "applying">>,     <<"prepared", "rollback_started">>,
    <<"applying", "applied">>,      <<"applying", "rollback_started">>,
    <<"applied", "finalizing">>,    <<"applied", "rollback_started">>,
    <<"finalizing", "committed">>,  <<"finalizing", "rollback_started">>,
    <<"committed", "rollback_started">>,
    <<"rollback_started", "rolled_back">>,
    <<"rollback_started", "rollback_failed">>,
    <<"rollback_failed", "rollback_started">> }

ValidTransition(from, to) == <<from, to>> \in Transitions

Event == [seq : Nat, state : States, files : SUBSET Files]

VARIABLES
  files,     \* the workspace: path -> content
  modes,     \* path -> permission bits, "own" or those of a new temporary
  head,      \* the Git HEAD: path -> content
  debris,    \* temporaries that a dead or failed process left beside targets
  lock,      \* holder of .opticcode/apply.lock, or None
  dirs,      \* transactions whose run directory exists
  backups,   \* transaction -> path -> content of backups/N.bin, or None
  manifest,  \* transaction -> manifest.json, or None
  journal,   \* transaction -> the JSON files of events/, in name order
  pc, loc,   \* control point and local variables of each process
  edits, crashes, faults \* how much of the environment's budget is spent

workspaceVars == <<files, modes, head>>
runVars == <<dirs, backups, manifest, journal>>
budgetVars == <<edits, crashes, faults>>
vars == <<workspaceVars, debris, lock, runVars, pc, loc, budgetVars>>

-----------------------------------------------------------------------------
(* Reading the disk.                                                        *)

(* A temporary of process p is in the workspace: staged, not yet renamed.   *)
HoldsTemp(p) == pc[p] \in {"staged", "publish"} /\ loc[p].to # Absent

(* capture_git_state, then effective_git_changes: every path whose content  *)
(* differs from HEAD, with its fingerprint; temporaries beside the targets  *)
(* are untracked files and are not filtered, `.opticcode` is.               *)
GitStatus ==
  [changes |-> {<<f, files[f]>> : f \in {g \in Files : files[g] # head[g]}},
   debris  |-> debris,
   live    |-> {p \in Procs : HoldsTemp(p)}]

GitClean == GitStatus = [changes |-> {}, debris |-> 0, live |-> {}]

GitStatuses == [changes : SUBSET (Files \X Value), debris : Nat, live : SUBSET Procs]

(* unrelated_git_changes: what a snapshot says of the paths not in fs.      *)
Unrelated(git, fs) ==
  [git EXCEPT !.changes = {change \in git.changes : change[1] \notin fs}]

LastState(t) ==
  IF journal[t] = <<>> THEN "none" ELSE journal[t][Len(journal[t])].state

(* validate_event_semantics: which files an event may, or must, name.       *)
EventFilesOK(event, planned) ==
  /\ event.files \subseteq planned
  /\ event.state \in {"prepared", "applying"} => event.files = {}
  /\ event.state \in {"applied", "finalizing", "committed", "rolled_back"}
       => event.files = planned

(* The journal part of inspect_run_directory: consecutive sequence numbers  *)
(* from 0, legal transitions only, sound events.                            *)
JournalOK(events, planned) ==
  \A i \in 1..Len(events) :
    /\ events[i].seq = i - 1
    /\ ValidTransition(IF i = 1 THEN "none" ELSE events[i-1].state, events[i].state)
    /\ EventFilesOK(events[i], planned)

(* validate_manifest_artifacts: the backup of every file that existed is    *)
(* there and has the recorded fingerprint.                                  *)
BackupsOK(t) ==
  \A f \in manifest[t].files :
    manifest[t].before[f] # Absent => backups[t][f] = manifest[t].before[f]

(* inspect_run_directory: `valid`, then `recoverable`.  A run directory     *)
(* without a manifest is not a legacy run, because prepare_transaction      *)
(* creates backups/ and events/ before anything else.                       *)
InspectionValid(t) ==
  /\ t \in dirs
  /\ manifest[t] # None
  /\ journal[t] # <<>>
  /\ BackupsOK(t)
  /\ JournalOK(journal[t], manifest[t].files)

RecoverableForgetsRollback(t) ==      \* mutant of Recoverable
  InspectionValid(t) /\ LastState(t) \notin {"committed", "rolled_back", "rollback_started"}

Recoverable(t) ==
  InspectionValid(t) /\ LastState(t) \notin {"committed", "rolled_back"}

-----------------------------------------------------------------------------
(* Local state of a process.                                                *)

Idle == [op |-> "none", txn |-> None, req |-> None, git |-> None,
         state |-> "none", seq |-> 0, modified |-> {}, restored |-> {},
         errors |-> FALSE, undoing |-> FALSE,
         file |-> 0, from |-> Absent, to |-> Absent, outcome |-> "none"]

Locals ==
  [op : {"none", "apply", "undo", "recover"}, txn : Txns \union {None},
   req : Requests \union {None}, git : GitStatuses \union {None},
   state : States \union {"none"}, seq : Nat,
   modified : SUBSET Files, restored : SUBSET Files,
   errors : BOOLEAN, undoing : BOOLEAN,
   file : 0..(NFiles + 1), from : Value, to : Value,
   outcome : {"none", "error", "committed", "rolled_back", "rollback_failed"}]

Manifests ==
  [files : SUBSET Files, before : [Files -> Value], after : [Files -> Value],
   mode : [Files -> {"own", "temp"}], git : GitStatuses \union {None}]

ASSUME NoneAssumption == None \notin Manifests

ApplyPcs == {"lock", "capture", "backup", "manifest", "prepared", "applying",
             "mutate", "verify", "finalize", "git_check", "commit"}
TargetPcs == {"staged", "publish", "confirm"}
RollbackPcs == {"rollback_lock", "inspect", "rollback_start", "restore",
                "git_restored", "rollback_end"}
Pcs == {"idle", "report"} \union ApplyPcs \union TargetPcs \union RollbackPcs

TypeOK ==
  /\ files \in [Files -> Value]
  /\ modes \in [Files -> {"own", "temp"}]
  /\ head \in [Files -> Value]
  /\ debris \in Nat
  /\ lock \in Procs \union {None}
  /\ dirs \subseteq Txns
  /\ backups \in [Txns -> [Files -> Value \union {None}]]
  /\ manifest \in [Txns -> Manifests \union {None}]
  /\ journal \in [Txns -> Seq(Event)]
  /\ pc \in [Procs -> Pcs]
  /\ loc \in [Procs -> Locals]
  /\ edits \in Nat /\ crashes \in Nat /\ faults \in Nat

Init ==
  /\ files = InitFiles /\ head = InitFiles
  /\ modes = [f \in Files |-> "own"]
  /\ debris = 0 /\ lock = None /\ dirs = {}
  /\ backups = [t \in Txns |-> [f \in Files |-> None]]
  /\ manifest = [t \in Txns |-> None]
  /\ journal = [t \in Txns |-> <<>>]
  /\ pc = [p \in Procs |-> "idle"]
  /\ loc = [p \in Procs |-> Idle]
  /\ edits = 0 /\ crashes = 0 /\ faults = 0

Goto(p, l) == pc' = [pc EXCEPT ![p] = l]

(* An early `return Err(...)`: the lock, if held, is dropped after it.      *)
ReturnError(p) ==
  /\ Goto(p, "report")
  /\ loc' = [loc EXCEPT ![p].outcome = "error"]

(* An I/O error of this step, within the budget.                            *)
IoError == faults < MaxFaults /\ faults' = faults + 1
NoIoError == UNCHANGED faults

-----------------------------------------------------------------------------
(* TransactionJournal::transition, through write_json_new_atomic.  Three    *)
(* ends: the event is published and the in-memory state advances; nothing   *)
(* is published; or the event is published and the directory sync after the *)
(* rename fails, so that the in-memory state does not advance.              *)

Publish(p, next, named) ==
  journal' = [journal EXCEPT ![loc[p].txn] =
                Append(@, [seq |-> loc[p].seq, state |-> next, files |-> named])]

Transition(p, next, named) ==
  /\ ValidTransition(loc[p].state, next)
  /\ Publish(p, next, named)
  /\ NoIoError

TransitionFails(p, next, named) ==
  \/ ~ValidTransition(loc[p].state, next) /\ NoIoError /\ UNCHANGED journal
  \/ ValidTransition(loc[p].state, next) /\ IoError /\ UNCHANGED journal
  \/ /\ SyncFaults
     /\ ValidTransition(loc[p].state, next)
     /\ Publish(p, next, named)
     /\ IoError

(* The in-memory journal after a successful transition.                     *)
Advanced(l, next) == [l EXCEPT !.state = next, !.seq = @ + 1]

-----------------------------------------------------------------------------
(* Preparation: prepare_transaction.  Any error returns to the caller and   *)
(* leaves the targets as they were.                                         *)

StartApply(p, t, req) ==
  /\ pc[p] = "idle"
  /\ req.files # {}
  /\ \A f \in req.files : req.before[f] # req.after[f]
  /\ req.policy = "require_clean" => GitRepo /\ GitClean  \* preflight, no lock
  /\ loc' = [loc EXCEPT ![p] = [Idle EXCEPT !.op = "apply", !.txn = t, !.req = req]]
  /\ Goto(p, "lock")
  /\ UNCHANGED <<workspaceVars, debris, lock, runVars, budgetVars>>

(* WorkspaceTransactionLock::acquire: try_lock, an error when it is held.   *)
LockNotTried == TRUE                   \* mutant of TryLock
TryLock == lock = None

AcquireLock(p) ==
  /\ pc[p] \in {"lock", "rollback_lock"}
  /\ \/ /\ TryLock
        /\ lock' = p
        /\ Goto(p, IF pc[p] = "lock" THEN "capture" ELSE "inspect")
        /\ UNCHANGED loc
     \/ /\ ~TryLock
        /\ ReturnError(p)
        /\ UNCHANGED lock
  /\ UNCHANGED <<workspaceVars, debris, runVars, budgetVars>>

(* Git again, under the lock: where the policy makes it optional, a capture *)
(* that fails counts as no repository.  Then create_transaction_directory,  *)
(* its two subdirectories and patch.diff.                                   *)
CreateRun(p) ==
  LET t == loc[p].txn
      policy == loc[p].req.policy
      refused == \/ policy # "optional" /\ ~GitRepo
                 \/ policy = "require_clean" /\ ~GitClean
                 \/ t \in dirs                            \* Collision
  IN /\ pc[p] = "capture"
     /\ \/ /\ refused
           /\ ReturnError(p)
           /\ UNCHANGED <<dirs, faults>>
        \/ /\ ~refused
           /\ dirs' = dirs \union {t}
           /\ \/ /\ NoIoError
                 /\ loc' = [loc EXCEPT ![p].git = IF GitRepo THEN GitStatus ELSE None]
              \/ /\ policy = "optional" /\ GitRepo /\ IoError
                 /\ loc' = [loc EXCEPT ![p].git = None]
           /\ Goto(p, "backup")
     /\ UNCHANGED <<workspaceVars, debris, lock, backups, manifest, journal, edits, crashes>>

(* A file that exists is copied to backups/.                                *)
NoBackup(t, f) == backups              \* mutant of WithBackup
WithBackup(t, f) ==
  IF files[f] = Absent THEN backups ELSE [backups EXCEPT ![t][f] = files[f]]

(* One turn of the backup loop: the content must be the expected one.       *)
BackupFile(p) ==
  LET t == loc[p].txn
      req == loc[p].req
      pending == {g \in req.files : g > loc[p].file}
  IN /\ pc[p] = "backup"
     /\ \/ /\ pending = {}
           /\ Goto(p, "manifest")
           /\ UNCHANGED <<loc, backups>>
        \/ \E f \in pending :
             /\ \A g \in pending : f <= g
             /\ \/ /\ files[f] # req.before[f]
                   /\ ReturnError(p)
                   /\ UNCHANGED backups
                \/ /\ files[f] = req.before[f]
                   /\ backups' = WithBackup(t, f)
                   /\ loc' = [loc EXCEPT ![p].file = f]
                   /\ UNCHANGED pc
     /\ UNCHANGED <<workspaceVars, debris, lock, dirs, manifest, journal, budgetVars>>

WriteManifest(p) ==
  LET req == loc[p].req IN
  /\ pc[p] = "manifest"
  /\ manifest' = [manifest EXCEPT ![loc[p].txn] =
       [files |-> req.files, before |-> req.before, after |-> req.after,
        mode |-> modes, git |-> loc[p].git]]
  /\ \/ NoIoError /\ Goto(p, "prepared") /\ UNCHANGED loc
     \/ SyncFaults /\ IoError /\ ReturnError(p)
  /\ UNCHANGED <<workspaceVars, debris, lock, dirs, backups, journal, edits, crashes>>

Prepare(p) ==
  /\ pc[p] = "prepared"
  /\ \/ /\ Transition(p, "prepared", {})
        /\ loc' = [loc EXCEPT ![p] = Advanced(@, "prepared")]
        /\ Goto(p, "applying")
     \/ /\ TransitionFails(p, "prepared", {})
        /\ ReturnError(p)
  /\ UNCHANGED <<workspaceVars, debris, lock, dirs, backups, manifest, edits, crashes>>

-----------------------------------------------------------------------------
(* Application: the body of execute_apply_transaction_with_faults.  Any     *)
(* error in it continues in rollback_prepared_context.                      *)

Rollback(p) ==
  /\ Goto(p, "rollback_start")
  /\ loc' = [loc EXCEPT ![p].undoing = TRUE]

(* A journal transition of the body, then `l`, or the rollback.             *)
BodyTransition(p, next, named, l, outcome) ==
  \/ /\ Transition(p, next, named)
     /\ loc' = [loc EXCEPT ![p] = [Advanced(@, next) EXCEPT !.file = 0,
                                                            !.outcome = outcome]]
     /\ Goto(p, l)
  \/ /\ TransitionFails(p, next, named)
     /\ Rollback(p)

(* verify_mutations_applied.                                                *)
MutationsApplied(t) ==
  \A f \in manifest[t].files : files[f] = manifest[t].after[f]

StartApplying(p) ==
  /\ pc[p] = "applying"
  /\ BodyTransition(p, "applying", {}, "mutate", "none")
  /\ UNCHANGED <<workspaceVars, debris, lock, dirs, backups, manifest, edits, crashes>>

(* apply_mutation up to the staging of the temporary (or the first check of *)
(* a deletion), for the first file not yet modified.                        *)
ApplyMutation(p) ==
  LET m == manifest[loc[p].txn]
      pending == {g \in m.files : g > loc[p].file}
  IN /\ pc[p] = "mutate"
     /\ \/ /\ pending = {}
           /\ Goto(p, "verify")
           /\ UNCHANGED loc
        \/ \E f \in pending :
             /\ \A g \in pending : f <= g
             /\ \/ /\ files[f] # m.before[f]
                   /\ Rollback(p)
                \/ /\ files[f] = m.before[f]
                   /\ loc' = [loc EXCEPT ![p].file = f, ![p].from = m.before[f],
                                         ![p].to = m.after[f]]
                   /\ Goto(p, "staged")
     /\ UNCHANGED <<workspaceVars, debris, lock, runVars, budgetVars>>

VerifyApplied(p) ==
  /\ pc[p] = "verify"
  /\ \/ /\ MutationsApplied(loc[p].txn)
        /\ BodyTransition(p, "applied", loc[p].modified, "finalize", "none")
     \/ /\ ~MutationsApplied(loc[p].txn)
        /\ Rollback(p)
        /\ UNCHANGED <<journal, faults>>
  /\ UNCHANGED <<workspaceVars, debris, lock, dirs, backups, manifest, edits, crashes>>

Finalize(p) ==
  /\ pc[p] = "finalize"
  /\ BodyTransition(p, "finalizing", loc[p].modified, "git_check", "none")
  /\ UNCHANGED <<workspaceVars, debris, lock, dirs, backups, manifest, edits, crashes>>

(* verify_git_state_for_commit, then the second verify_mutations_applied.   *)
GitCheck(p) ==
  LET m == manifest[loc[p].txn]
      unchanged == IF m.git = None THEN TRUE
                   ELSE Unrelated(m.git, m.files) = Unrelated(GitStatus, m.files)
  IN /\ pc[p] = "git_check"
     /\ \/ /\ unchanged /\ MutationsApplied(loc[p].txn)
           /\ Goto(p, "commit")
           /\ UNCHANGED loc
        \/ /\ ~(unchanged /\ MutationsApplied(loc[p].txn))
           /\ Rollback(p)
     /\ UNCHANGED <<workspaceVars, debris, lock, runVars, budgetVars>>

Commit(p) ==
  /\ pc[p] = "commit"
  /\ BodyTransition(p, "committed", loc[p].modified, "report", "committed")
  /\ UNCHANGED <<workspaceVars, debris, lock, dirs, backups, manifest, edits, crashes>>

-----------------------------------------------------------------------------
(* One target, under apply_mutation or restore_transaction_file:            *)
(* atomic_replace_bytes_checked, or the check and removal of a deletion.    *)

(* What an error on a target does: the body rolls back, the restore loop    *)
(* records the error and breaks.                                            *)
TargetFails(p) ==
  \/ ~loc[p].undoing /\ Rollback(p)
  \/ /\ loc[p].undoing
     /\ Goto(p, "git_restored")
     /\ loc' = [loc EXCEPT ![p].errors = TRUE]

(* The last read of the target before its rename or removal.                *)
NotReread(p) == TRUE                   \* mutant of StillExpected
StillExpected(p) == files[loc[p].file] = loc[p].from

Recheck(p) ==
  /\ pc[p] = "staged"
  /\ \/ StillExpected(p) /\ Goto(p, "publish") /\ UNCHANGED loc
     \/ ~StillExpected(p) /\ TargetFails(p)
  /\ UNCHANGED <<workspaceVars, debris, lock, runVars, budgetVars>>

(* The rename (or the removal) takes effect; the directory sync after it    *)
(* may still fail.                                                          *)
PublishTarget(p) ==
  LET f == loc[p].file IN
  /\ pc[p] = "publish"
  /\ files' = [files EXCEPT ![f] = loc[p].to]
  /\ modes' = IF loc[p].to = Absent THEN modes ELSE [modes EXCEPT ![f] = "temp"]
  /\ \/ NoIoError /\ Goto(p, "confirm") /\ UNCHANGED loc
     \/ SyncFaults /\ IoError /\ TargetFails(p)
  /\ UNCHANGED <<head, debris, lock, runVars, edits, crashes>>

(* restore_permissions and the read that verifies the target; the removal   *)
(* of a created file is not read back.                                      *)
Confirm(p) ==
  LET m == manifest[loc[p].txn]
      f == loc[p].file
      unread == loc[p].undoing /\ loc[p].to = Absent
      ok == unread \/ files[f] = loc[p].to
  IN /\ pc[p] = "confirm"
     /\ modes' = IF files[f] # Absent /\ loc[p].to # Absent /\ m.before[f] # Absent
                 THEN [modes EXCEPT ![f] = m.mode[f]] ELSE modes
     /\ \/ ~ok /\ TargetFails(p)
        \/ /\ ok /\ ~loc[p].undoing
           /\ loc' = [loc EXCEPT ![p].modified = @ \union {f}]
           /\ Goto(p, "mutate")
        \/ /\ ok /\ loc[p].undoing
           /\ loc' = [loc EXCEPT ![p].restored = @ \union {f}]
           /\ Goto(p, "restore")
     /\ UNCHANGED <<files, head, debris, lock, runVars, budgetVars>>

-----------------------------------------------------------------------------
(* Rollback: rollback_apply_transaction_with_faults (`apply --undo`,        *)
(* `apply --recover`), and rollback_manifest, which an apply shares.        *)

StartRollback(p, t, op) ==
  /\ pc[p] = "idle"
  /\ t \in dirs
  /\ Len(journal[t]) + 2 <= MaxEvents
  /\ loc' = [loc EXCEPT ![p] = [Idle EXCEPT !.op = op, !.txn = t]]
  /\ Goto(p, "rollback_lock")
  /\ UNCHANGED <<workspaceVars, debris, lock, runVars, budgetVars>>

(* verify_manifest_files_restored.                                          *)
FilesRestored(t) ==
  \A f \in manifest[t].files :
    /\ files[f] = manifest[t].before[f]
    /\ manifest[t].before[f] # Absent => modes[f] = manifest[t].mode[f]

(* verify_git_restored; None (no snapshot) is not false.                    *)
GitRestored(t) == manifest[t].git = None \/ GitStatus = manifest[t].git

(* A resumed journal continues after the events on disk.                    *)
ResumeSequence(t) == Len(journal[t])

Inspect(p) ==
  LET t == loc[p].txn
      done == LastState(t) = "rolled_back"
      refused == \/ ~InspectionValid(t)
                 \/ done /\ ~(FilesRestored(t) /\ GitRestored(t))
                 \/ LastState(t) = "committed" /\ loc[p].op = "recover"
  IN /\ pc[p] = "inspect"
     /\ \/ /\ refused
           /\ ReturnError(p)
        \/ /\ ~refused /\ done
           /\ loc' = [loc EXCEPT ![p].outcome = "rolled_back"]
           /\ Goto(p, "report")
        \/ /\ ~refused /\ ~done
           /\ loc' = [loc EXCEPT ![p].state = LastState(t),
                                 ![p].seq = ResumeSequence(t), ![p].undoing = TRUE]
           /\ Goto(p, "rollback_start")
     /\ UNCHANGED <<workspaceVars, debris, lock, runVars, budgetVars>>

(* A rollback interrupted after its start does not start again.             *)
NeverBegun(p) == FALSE                 \* mutant of RollbackBegun
RollbackBegun(p) == loc[p].state = "rollback_started"

(* A rollback whose start cannot be journalled records the error and goes   *)
(* on restoring.                                                            *)
RollbackStart(p) ==
  LET start(l, failed) == [l EXCEPT !.file = NFiles + 1, !.restored = {}, !.errors = failed]
      started == RollbackBegun(p)
  IN /\ pc[p] = "rollback_start"
     /\ \/ /\ started
           /\ loc' = [loc EXCEPT ![p] = start(@, FALSE)]
           /\ UNCHANGED <<journal, faults>>
        \/ /\ ~started
           /\ Transition(p, "rollback_started", loc[p].modified)
           /\ loc' = [loc EXCEPT ![p] = start(Advanced(@, "rollback_started"), FALSE)]
        \/ /\ ~started
           /\ TransitionFails(p, "rollback_started", loc[p].modified)
           /\ loc' = [loc EXCEPT ![p] = start(@, TRUE)]
     /\ Goto(p, "restore")
     /\ UNCHANGED <<workspaceVars, debris, lock, dirs, backups, manifest, edits, crashes>>

(* What restore_transaction_file needs of the manifest record of f: is the  *)
(* content already the one before, which mode goes with it, what to write.  *)
NeverRestored(m, f) == FALSE           \* mutant of AlreadyRestored
AlreadyRestored(m, f) == files[f] = m.before[f]

ModeKept(m, f) == modes                \* mutant of ModeRestored
ModeRestored(m, f) ==
  IF m.before[f] = Absent THEN modes ELSE [modes EXCEPT ![f] = m.mode[f]]

RestoredContent(t, f) ==
  IF manifest[t].before[f] = Absent THEN Absent ELSE backups[t][f]

(* restore_transaction_file up to the staging, for the last file not yet    *)
(* restored: a file already as before only gets its mode back; a content    *)
(* that is neither before nor after is refused.                             *)
RestoreFile(p) ==
  LET t == loc[p].txn
      m == manifest[t]
      pending == {g \in m.files : g < loc[p].file}
  IN /\ pc[p] = "restore"
     /\ \/ /\ pending = {}
           /\ Goto(p, "git_restored")
           /\ UNCHANGED <<loc, modes>>
        \/ \E f \in pending :
             /\ \A g \in pending : g <= f
             /\ \/ /\ AlreadyRestored(m, f)
                   /\ modes' = ModeRestored(m, f)
                   /\ loc' = [loc EXCEPT ![p].file = f, ![p].restored = @ \union {f}]
                   /\ UNCHANGED pc
                \/ /\ ~AlreadyRestored(m, f) /\ files[f] # m.after[f]
                   /\ TargetFails(p)
                   /\ UNCHANGED modes
                \/ /\ ~AlreadyRestored(m, f) /\ files[f] = m.after[f]
                   /\ loc' = [loc EXCEPT ![p].file = f, ![p].from = m.after[f],
                                         ![p].to = RestoredContent(t, f)]
                   /\ Goto(p, "staged")
                   /\ UNCHANGED modes
     /\ UNCHANGED <<files, head, debris, lock, runVars, budgetVars>>

VerifyGitRestored(p) ==
  /\ pc[p] = "git_restored"
  /\ \/ NoIoError /\ loc' = [loc EXCEPT ![p].errors = @ \/ ~GitRestored(loc[p].txn)]
     \/ /\ manifest[loc[p].txn].git # None                 \* git itself fails
        /\ IoError
        /\ loc' = [loc EXCEPT ![p].errors = TRUE]
  /\ Goto(p, "rollback_end")
  /\ UNCHANGED <<workspaceVars, debris, lock, runVars, edits, crashes>>

(* The result is `rolled_back` only when every step, the last journal       *)
(* transition included, succeeded.                                          *)
RollbackResult(l) == IF l.errors THEN "rollback_failed" ELSE "rolled_back"

RollbackEnd(p) ==
  LET next == RollbackResult(loc[p]) IN
  /\ pc[p] = "rollback_end"
  /\ \/ /\ Transition(p, next, loc[p].restored)
        /\ loc' = [loc EXCEPT ![p] = [Advanced(@, next) EXCEPT !.outcome = next]]
     \/ /\ TransitionFails(p, next, loc[p].restored)
        /\ loc' = [loc EXCEPT ![p].outcome = "rollback_failed"]
  /\ Goto(p, "report")
  /\ UNCHANGED <<workspaceVars, debris, lock, dirs, backups, manifest, edits, crashes>>

(* The operation returns its result; Drop releases the lock.                *)
Return(p) ==
  /\ pc[p] = "report"
  /\ Goto(p, "idle")
  /\ loc' = [loc EXCEPT ![p] = Idle]
  /\ lock' = IF lock = p THEN None ELSE lock
  /\ UNCHANGED <<workspaceVars, debris, runVars, budgetVars>>

-----------------------------------------------------------------------------
(* The environment.                                                         *)

(* An I/O error that a step meets before it changes anything.  Preparation  *)
(* may fail once the run directory exists, staging once the temporary does: *)
(* write_synced_file does not remove it.                                    *)
IoFailure(p) ==
  /\ IoError
  /\ \/ /\ pc[p] \in {"lock", "capture", "backup", "manifest", "rollback_lock", "inspect"}
        /\ ReturnError(p)
        /\ \/ UNCHANGED dirs
           \/ pc[p] = "capture" /\ dirs' = dirs \union {loc[p].txn}
        /\ UNCHANGED debris
     \/ /\ pc[p] \in {"mutate", "verify", "git_check"}
        /\ Rollback(p)
        /\ UNCHANGED <<debris, dirs>>
     \/ /\ pc[p] \in {"staged", "publish", "confirm", "restore"}
        /\ TargetFails(p)
        /\ \/ UNCHANGED debris
           \/ pc[p] = "staged" /\ HoldsTemp(p) /\ debris' = debris + 1
        /\ UNCHANGED dirs
  /\ UNCHANGED <<workspaceVars, lock, backups, manifest, journal, edits, crashes>>

(* The process dies: the OS releases its lock, a staged temporary stays.    *)
Crash(p) ==
  /\ pc[p] # "idle"
  /\ crashes < MaxCrashes
  /\ crashes' = crashes + 1
  /\ debris' = IF HoldsTemp(p) THEN debris + 1 ELSE debris
  /\ lock' = IF lock = p THEN None ELSE lock
  /\ Goto(p, "idle")
  /\ loc' = [loc EXCEPT ![p] = Idle]
  /\ UNCHANGED <<workspaceVars, runVars, edits, faults>>

(* An editor, a build or the user writes, creates or deletes a file.        *)
UserWrites(f, v) ==
  /\ edits < MaxEdits
  /\ files[f] # v
  /\ RaceWindow \/ \A p \in Procs : pc[p] # "publish"
  /\ files' = [files EXCEPT ![f] = v]
  /\ edits' = edits + 1
  /\ UNCHANGED <<modes, head, debris, lock, runVars, pc, loc, crashes, faults>>

(* The user commits the workspace to Git.                                   *)
UserCommits ==
  /\ GitRepo
  /\ edits < MaxEdits
  /\ head # files
  /\ head' = files
  /\ edits' = edits + 1
  /\ UNCHANGED <<files, modes, debris, lock, runVars, pc, loc, crashes, faults>>

(* The steps of a running operation.                                        *)
Step(p) ==
  \/ AcquireLock(p) \/ CreateRun(p) \/ BackupFile(p) \/ WriteManifest(p) \/ Prepare(p)
  \/ StartApplying(p) \/ ApplyMutation(p) \/ VerifyApplied(p) \/ Finalize(p)
  \/ GitCheck(p) \/ Commit(p)
  \/ Recheck(p) \/ PublishTarget(p) \/ Confirm(p)
  \/ Inspect(p) \/ RollbackStart(p) \/ RestoreFile(p) \/ VerifyGitRestored(p)
  \/ RollbackEnd(p) \/ Return(p)

Next ==
  \/ \E p \in Procs :
       \/ \E t \in Txns, req \in Requests : StartApply(p, t, req)
       \/ \E t \in Txns, op \in {"undo", "recover"} : StartRollback(p, t, op)
       \/ Step(p) \/ IoFailure(p) \/ Crash(p)
  \/ \E f \in Files, v \in Value : UserWrites(f, v)
  \/ UserCommits

Spec == Init /\ [][Next]_vars

(* A started operation keeps running.  The operator's part of the recovery  *)
(* protocol: a transaction that stays listed as recoverable is recovered    *)
(* again, however many other operations are run in between.                 *)
Fairness ==
  /\ \A p \in Procs : WF_vars(Step(p))
  /\ \A t \in Txns : SF_vars(\E p \in Procs : Recoverable(t) /\ StartRollback(p, t, "recover"))

FairSpec == Spec /\ Fairness

-----------------------------------------------------------------------------
(* Properties.                                                              *)

(* Whatever processes, crashes and I/O errors interleave, the events on     *)
(* disk of every transaction form a legal journal: consecutive sequence     *)
(* numbers, legal transitions, every event naming the files it must         *)
(* (docs/apply-transaction.md, invariants 4 and 13).                        *)
JournalsValid ==
  \A t \in Txns :
    \/ manifest[t] = None /\ journal[t] = <<>>
    \/ manifest[t] # None /\ JournalOK(journal[t], manifest[t].files)

(* The engine's writes: the step changes f, and is not the user's.          *)
EngineWrites(f) == files'[f] # files[f] /\ edits' = edits

JournalledWrite(f) ==
  \E p \in Procs :
    /\ lock = p
    /\ f \in manifest[loc[p].txn].files
    /\ InspectionValid(loc[p].txn)
    /\ LastState(loc[p].txn) # "rolled_back"

OwnWrite(f) ==
  \E p \in Procs :
    LET m == manifest[loc[p].txn] IN
    /\ lock = p
    /\ \/ files[f] = m.before[f] /\ files'[f] = m.after[f]
       \/ files[f] = m.after[f] /\ files'[f] = m.before[f]

(* A step that is not the user's changes a target only while its process    *)
(* holds the workspace lock and the transaction on disk can be rolled back: *)
(* a valid inspection, its backups included, and not rolled back yet        *)
(* (invariants 1, 5 and 13).                                                *)
WriteAhead == [][\A f \in Files : EngineWrites(f) => JournalledWrite(f)]_vars

(* A step that is not the user's only ever replaces the content the manifest *)
(* records before the transaction by the one after it, or the reverse: no    *)
(* content written outside the transaction is overwritten (invariants 6, 9). *)
ForeignContentKept == [][\A f \in Files : EngineWrites(f) => OwnWrite(f)]_vars

(* What an operation reports is what the workspace holds: `committed` means *)
(* every target has its new content, `rolled_back` that every target, its   *)
(* mode and the Git state are those from before (invariants 8, 10, 11), as  *)
(* long as the user has not changed the workspace meanwhile.                *)
OutcomeHolds ==
  edits = 0 =>
    \A p \in Procs : pc[p] = "report" =>
      LET t == loc[p].txn IN
      /\ loc[p].outcome = "committed" => MutationsApplied(t)
      /\ loc[p].outcome = "rolled_back" => FilesRestored(t) /\ GitRestored(t)

(* The journal is the source of truth: an operation that reports            *)
(* `committed` or `rolled_back` leaves a journal that a later inspection    *)
(* finds valid and in that very state.                                      *)
OutcomeJournalled ==
  \A p \in Procs :
    pc[p] = "report" /\ loc[p].outcome \in {"committed", "rolled_back"} =>
      InspectionValid(loc[p].txn) /\ LastState(loc[p].txn) = loc[p].outcome

(* Every difference from the initial workspace is the work of a transaction *)
(* that is committed or can still be rolled back from its journal: no       *)
(* crash, failed preparation or failed rollback leaves an orphan change.    *)
ChangesAccounted ==
  edits = 0 =>
    \A f \in Files : files[f] # InitFiles[f] =>
      \E t \in Txns :
        /\ InspectionValid(t)
        /\ LastState(t) \notin {"prepared", "rolled_back"}
        /\ f \in manifest[t].files /\ files[f] = manifest[t].after[f]

(* At rest, if the targets of a transaction are partly before and partly    *)
(* after, a transaction over one of them is listed as recoverable: "le      *)
(* journal et les backups rendent un etat partiel detectable et             *)
(* recuperable" (docs/apply-transaction.md:149).                            *)
PartialIsRecoverable ==
  edits = 0 /\ (\A p \in Procs : pc[p] = "idle") =>
    \A t \in Txns : manifest[t] # None =>
      \A f, g \in manifest[t].files :
        files[f] = manifest[t].before[f] /\ files[g] = manifest[t].after[g] =>
          \E u \in Txns : Recoverable(u) /\ manifest[u].files \intersect {f, g} # {}

(* A rollback fails only for a cause outside the engine: an I/O error, or   *)
(* a workspace that the user changed.  A crash alone, at whatever step,     *)
(* leaves a state that recovery restores.                                   *)
FailsOnlyForCause ==
  \A p \in Procs :
    pc[p] = "report" /\ loc[p].outcome = "rollback_failed" => edits > 0 \/ faults > 0

(* Recovery, retried, settles every interrupted transaction: what is listed *)
(* as recoverable ends committed or rolled back.                            *)
RecoveryConverges ==
  \A t \in Txns :
    Recoverable(t) ~> LastState(t) \in {"committed", "rolled_back"}

(* An operation that reports its outcome tells the truth about the files and*)
(* about its journal, whatever other operations did meanwhile.              *)
OutcomeIsTrue == OutcomeHolds /\ OutcomeJournalled

(* Recovery loses nothing and needs no luck: each change of a target is     *)
(* accounted for, and an undo or recovery fails for a cause only.           *)
RecoveryIsSound == ChangesAccounted /\ FailsOnlyForCause

(* The planned change that the manifests and journals on disk stand for: a  *)
(* verified or finalizing application is still an application.              *)
AbstractStatus ==
  [t \in Txns |-> IF LastState(t) \in {"applied", "finalizing"} THEN "applying" ELSE LastState(t)]

Abstract == INSTANCE PlannedChange
              WITH Plans <- Manifests, NoPlan <- None, plan <- manifest,
                   status <- AbstractStatus, edited <- edits > 0, faulty <- faults > 0

(* The engine carries out planned changes: whatever processes, crashes, I/O *)
(* errors, failed syncs and edits interleave, a file only moves between the *)
(* two contents of a plan, while the journal says so, and `committed` or    *)
(* `rolled_back` is on record of nothing that is not (invariants 1, 4, 6, 8,*)
(* 9 and 10 of docs/apply-transaction.md).                                  *)
ImplementsPlannedChange == Abstract!Spec

=============================================================================
