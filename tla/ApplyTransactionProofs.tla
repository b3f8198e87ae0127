----------------------- MODULE ApplyTransactionProofs -----------------------
(* ApplyTransaction: type correctness, legal journals, write-ahead, foreign *)
(* content kept, that what a call reports is true of the files and of the   *)
(* journal, that the engine implements PlannedChange, and that recovery is  *)
(* sound and partial states recoverable, for any number of processes,       *)
(* transactions, files, crashes, I/O errors and external edits.             *)
EXTENDS ApplyTransaction, SequenceTheorems, TLAPS

-----------------------------------------------------------------------------
(* The inductive invariant.  A process past the lock is the lock's holder,  *)
(* and then knows the transaction as the disk has it; the others know only  *)
(* what they asked for.                                                     *)

BodyPcs == {"applying", "mutate", "verify", "finalize", "git_check", "commit"}
UndoPcs == {"rollback_start", "restore", "git_restored", "rollback_end"}
ManifestPcs == {"prepared"} \union BodyPcs \union TargetPcs \union UndoPcs
LockedPcs == {"capture", "backup", "manifest", "inspect"} \union ManifestPcs

(* What the process was called with.                                        *)
Called(p) ==
  /\ pc[p] # "idle" => loc[p].txn \in Txns
  /\ pc[p] \in {"lock", "capture", "backup", "manifest"} => loc[p].req \in Requests

(* Before the body, the local state is the initial one.                     *)
Fresh(p) ==
  /\ pc[p] \in {"lock", "rollback_lock", "capture", "inspect", "backup", "manifest", "prepared"} =>
       loc[p].modified = {} /\ loc[p].undoing = FALSE /\ loc[p].state = "none" /\ loc[p].seq = 0
  /\ pc[p] \in {"lock", "capture"} => loc[p].file = 0
  /\ pc[p] = "applying" => loc[p].modified = {}

(* The backup loop has covered the files up to loc.file.                    *)
Preparing(p) ==
  LET t == loc[p].txn
      req == loc[p].req
  IN pc[p] \in {"backup", "manifest"} =>
       /\ t \in dirs /\ manifest[t] = None
       /\ \A f \in req.files :
            (pc[p] = "manifest" \/ f <= loc[p].file) /\ req.before[f] # Absent
              => backups[t][f] = req.before[f]

(* The in-memory journal is the journal on disk, unless a sync may fail     *)
(* after the rename; a transaction that is rolled back is left alone.       *)
InSync(p) ==
  /\ pc[p] = "prepared" => journal[loc[p].txn] = <<>>
  /\ ~SyncFaults /\ pc[p] \in BodyPcs \union TargetPcs \union UndoPcs =>
       loc[p].state = LastState(loc[p].txn) /\ loc[p].seq = Len(journal[loc[p].txn])
  /\ pc[p] \in BodyPcs \union TargetPcs \union UndoPcs => loc[p].state \notin {"none", "rolled_back"}

(* How far the application has got.                                         *)
Applying(p) ==
  LET planned == manifest[loc[p].txn].files IN
  /\ pc[p] = "mutate" => loc[p].modified = {g \in planned : g <= loc[p].file}
  /\ pc[p] \in TargetPcs /\ ~loc[p].undoing => loc[p].modified = {g \in planned : g < loc[p].file}
  /\ pc[p] \in {"verify", "finalize", "git_check", "commit"} => loc[p].modified = planned
  /\ pc[p] \in BodyPcs => ~loc[p].undoing
  /\ pc[p] \in TargetPcs => loc[p].file \in planned

(* How far the restoration has got.                                         *)
Undoing(p) ==
  LET planned == manifest[loc[p].txn].files IN
  /\ pc[p] = "rollback_start" => loc[p].modified \subseteq planned
  /\ pc[p] = "restore" => loc[p].restored = {g \in planned : g >= loc[p].file}
  /\ pc[p] \in TargetPcs /\ loc[p].undoing => loc[p].restored = {g \in planned : g > loc[p].file}
  /\ pc[p] \in {"git_restored", "rollback_end"} =>
       loc[p].restored \subseteq planned /\ (~loc[p].errors => loc[p].restored = planned)
  /\ pc[p] \in UndoPcs => loc[p].undoing

(* What is about to replace what; the last check of a target holds until    *)
(* its rename, unless the user may write in between.                        *)
Targeting(p) ==
  LET m == manifest[loc[p].txn]
      f == loc[p].file
  IN /\ pc[p] \in TargetPcs =>
          IF loc[p].undoing THEN loc[p].from = m.after[f] /\ loc[p].to = m.before[f]
                            ELSE loc[p].from = m.before[f] /\ loc[p].to = m.after[f]
     /\ pc[p] = "publish" /\ ~RaceWindow => files[f] = loc[p].from

ProcOK(p) ==
  /\ Called(p) /\ Fresh(p)
  /\ pc[p] \in LockedPcs => lock = p
  /\ pc[p] \in ManifestPcs => manifest[loc[p].txn] # None
  /\ Preparing(p) /\ InSync(p) /\ Applying(p) /\ Undoing(p) /\ Targeting(p)

(* What the disk holds of a transaction.                                    *)
RunOK(t) ==
  /\ manifest[t] = None => journal[t] = <<>>
  /\ manifest[t] # None => t \in dirs /\ BackupsOK(t)
  /\ manifest[t] # None /\ ~SyncFaults => JournalOK(journal[t], manifest[t].files)

Inv == TypeOK /\ (\A p \in Procs : ProcOK(p)) /\ (\A t \in Txns : RunOK(t))

-----------------------------------------------------------------------------
LEMMA IdleType == Idle \in Locals
BY ConstantsAssumption DEF Idle, Locals, Files, Value

LEMMA InvInit == Init => Inv
<1>. SUFFICES ASSUME Init PROVE Inv
  OBVIOUS
<1>1. TypeOK
  <2>2. pc \in [Procs -> Pcs] BY DEF Init, Pcs
  <2>3. journal \in [Txns -> Seq(Event)] BY DEF Init
  <2>. QED BY IdleType, <2>2, <2>3, ConstantsAssumption DEF Init, TypeOK, Value
<1>2. \A p \in Procs : ProcOK(p)
  BY DEF Init, ProcOK, Called, Fresh, Preparing, InSync, Applying, Undoing, Targeting, LockedPcs, ManifestPcs,
         BodyPcs, TargetPcs, UndoPcs
<1>3. \A t \in Txns : RunOK(t)
  BY DEF Init, RunOK
<1>. QED BY <1>1, <1>2, <1>3 DEF Inv

(* An event with the next sequence number, reached by a legal transition    *)
(* and naming what it must, extends a legal journal.                        *)
LEMMA JournalExtended ==
  ASSUME NEW events \in Seq(Event), NEW event \in Event, NEW planned,
         JournalOK(events, planned),
         event.seq = Len(events),
         ValidTransition(IF events = <<>> THEN "none" ELSE events[Len(events)].state, event.state),
         EventFilesOK(event, planned)
  PROVE  JournalOK(Append(events, event), planned)
<1>. DEFINE longer == Append(events, event)
<1>. SUFFICES ASSUME NEW i \in 1..Len(longer)
              PROVE  /\ longer[i].seq = i - 1
                     /\ ValidTransition(IF i = 1 THEN "none" ELSE longer[i-1].state, longer[i].state)
                     /\ EventFilesOK(longer[i], planned)
  BY DEF JournalOK
<1>1. CASE i <= Len(events)
  BY <1>1 DEF JournalOK
<1>2. CASE i = Len(events) + 1
  <2>1. longer[i] = event /\ (i # 1 => longer[i-1] = events[Len(events)] /\ events # <<>>)
    BY <1>2
  <2>2. i = 1 => events = <<>>
    BY <1>2
  <2>. QED BY <1>2, <2>1, <2>2
<1>. QED BY <1>1, <1>2

-----------------------------------------------------------------------------
(* The step of one process and the knowledge of the others.                 *)

Acts(p) ==
  \/ \E t \in Txns, req \in Requests : StartApply(p, t, req)
  \/ \E t \in Txns, op \in {"undo", "recover"} : StartRollback(p, t, op)
  \/ Step(p) \/ IoFailure(p) \/ Crash(p)

(* A process writes run directories only from behind the lock, and passes   *)
(* the lock only when it is free.                                           *)
LEMMA ActsFrame ==
  ASSUME TypeOK, NEW p \in Procs, Acts(p)
  PROVE  /\ \A q \in Procs : q # p => pc'[q] = pc[q] /\ loc'[q] = loc[q]
         /\ pc[p] \notin LockedPcs => UNCHANGED <<runVars, files>>
         /\ \/ lock' = lock
            \/ lock = None /\ lock' = p
            \/ lock = p /\ lock' = None
<1>1. \A q \in Procs : q # p => pc'[q] = pc[q] /\ loc'[q] = loc[q]
  BY ZenonT(60)
     DEF Acts, StartApply, StartRollback, Step, IoFailure, Crash, AcquireLock, CreateRun, BackupFile,
         WriteManifest, Prepare, StartApplying, ApplyMutation, VerifyApplied, Finalize, GitCheck,
         Commit, Recheck, PublishTarget, Confirm, Inspect, RollbackStart, RestoreFile,
         VerifyGitRestored, RollbackEnd, Return, Goto, ReturnError, Rollback, TargetFails,
         BodyTransition, TypeOK
<1>2. pc[p] \notin LockedPcs => UNCHANGED <<runVars, files>>
  BY DEF Acts, StartApply, StartRollback, Step, IoFailure, Crash, AcquireLock, CreateRun, BackupFile,
         WriteManifest, Prepare, StartApplying, ApplyMutation, VerifyApplied, Finalize, GitCheck,
         Commit, Recheck, PublishTarget, Confirm, Inspect, RollbackStart, RestoreFile,
         VerifyGitRestored, RollbackEnd, Return, LockedPcs, ManifestPcs, BodyPcs, UndoPcs, TargetPcs,
         runVars, workspaceVars
<1>3. \/ lock' = lock
      \/ lock = None /\ lock' = p
      \/ lock = p /\ lock' = None
  BY DEF Acts, StartApply, StartRollback, Step, IoFailure, Crash, AcquireLock, TryLock, CreateRun,
         BackupFile, WriteManifest, Prepare, StartApplying, ApplyMutation, VerifyApplied, Finalize,
         GitCheck, Commit, Recheck, PublishTarget, Confirm, Inspect, RollbackStart, RestoreFile,
         VerifyGitRestored, RollbackEnd, Return
<1>. QED BY <1>1, <1>2, <1>3

(* So a step leaves the knowledge of every other process intact.            *)
LEMMA OthersKept ==
  ASSUME Inv, NEW p \in Procs, Acts(p), NEW q \in Procs, q # p
  PROVE  ProcOK(q)'
<1>1. pc'[q] = pc[q] /\ loc'[q] = loc[q] /\ ProcOK(q) /\ ProcOK(p) /\ None \notin Procs
  BY ActsFrame, ConstantsAssumption DEF Inv
<1>2. CASE pc[q] \in LockedPcs
  <2>1. lock = q /\ pc[p] \notin LockedPcs
    BY <1>1, <1>2 DEF ProcOK
  <2>2. lock' = lock /\ UNCHANGED <<runVars, files>>
    BY <1>1, <2>1, ActsFrame DEF Inv
  <2>. QED
    BY <1>1, <2>2 DEF ProcOK, Called, Fresh, Preparing, InSync, Applying, Undoing, Targeting, LastState, runVars
<1>3. CASE pc[q] \notin LockedPcs
  BY <1>1, <1>3 DEF ProcOK, Called, Fresh, Preparing, InSync, Applying, Undoing, Targeting, LockedPcs, ManifestPcs,
                    BodyPcs, TargetPcs, UndoPcs
<1>. QED BY <1>2, <1>3

-----------------------------------------------------------------------------
(* The step of a process and its own knowledge.                             *)

LEMMA RunsKept ==
  ASSUME Inv, UNCHANGED runVars
  PROVE  \A t \in Txns : RunOK(t)'
BY DEF Inv, RunOK, BackupsOK, runVars

(* Local states as the steps change them.                                   *)
LEMMA LocalTypes ==
  ASSUME TypeOK, NEW p \in Procs
  PROVE  /\ loc[p] \in Locals
         /\ \A l \in Pcs : Goto(p, l) => pc' \in [Procs -> Pcs] /\ pc'[p] = l
         /\ \A l \in Locals : loc' = [loc EXCEPT ![p] = l] => loc' \in [Procs -> Locals] /\ loc'[p] = l
BY DEF TypeOK, Goto

(* A flag of a local state may be set or cleared.                           *)
LEMMA LocalFlags ==
  ASSUME NEW l \in Locals, NEW b \in BOOLEAN
  PROVE  [l EXCEPT !.undoing = b] \in Locals /\ [l EXCEPT !.errors = b] \in Locals
<1>1. [l EXCEPT !.undoing = b] \in Locals BY DEF Locals
<1>2. [l EXCEPT !.errors = b] \in Locals BY DEF Locals
<1>. QED BY <1>1, <1>2

(* An early error return.                                                   *)
LEMMA ErrorKept ==
  ASSUME Inv, NEW p \in Procs, pc[p] # "idle", ReturnError(p)
  PROVE  /\ pc' \in [Procs -> Pcs] /\ loc' \in [Procs -> Locals]
         /\ ProcOK(p)'
<1>1. loc' = [loc EXCEPT ![p] = [loc[p] EXCEPT !.outcome = "error"]] /\ Goto(p, "report")
  BY DEF ReturnError
<1>2. [loc[p] EXCEPT !.outcome = "error"] \in Locals
  BY LocalTypes DEF Inv, Locals
<1>3. /\ pc' \in [Procs -> Pcs] /\ loc' \in [Procs -> Locals]
      /\ pc'[p] = "report" /\ loc'[p] = [loc[p] EXCEPT !.outcome = "error"]
  BY <1>1, <1>2, LocalTypes DEF Inv, Pcs
<1>4. loc'[p].txn \in Txns
  BY <1>3, LocalTypes DEF Inv, ProcOK, Called, Locals
<1>. QED BY <1>3, <1>4 DEF ProcOK, Called, Fresh, Preparing, InSync, Applying, Undoing, Targeting, LockedPcs,
                           ManifestPcs, BodyPcs, TargetPcs, UndoPcs

(* An error of the body, a journal transition that failed included, starts  *)
(* the rollback.                                                            *)
LEMMA RollbackKept ==
  ASSUME Inv, NEW p \in Procs, Rollback(p), UNCHANGED <<lock, dirs, backups, manifest>>,
         ~SyncFaults => UNCHANGED journal,
         pc[p] \in BodyPcs \/ (pc[p] \in TargetPcs /\ ~loc[p].undoing)
  PROVE  /\ pc' \in [Procs -> Pcs] /\ loc' \in [Procs -> Locals]
         /\ ProcOK(p)'
<1>1. loc' = [loc EXCEPT ![p] = [loc[p] EXCEPT !.undoing = TRUE]] /\ Goto(p, "rollback_start")
  BY DEF Rollback
<1>2. [loc[p] EXCEPT !.undoing = TRUE] \in Locals
  BY LocalTypes, LocalFlags DEF Inv
<1>3. /\ pc' \in [Procs -> Pcs] /\ loc' \in [Procs -> Locals]
      /\ pc'[p] = "rollback_start" /\ loc'[p] = [loc[p] EXCEPT !.undoing = TRUE]
  BY <1>1, <1>2, LocalTypes DEF Inv, Pcs, RollbackPcs
<1>4. /\ loc'[p].txn = loc[p].txn /\ loc'[p].modified = loc[p].modified /\ loc'[p].undoing = TRUE
      /\ loc'[p].state = loc[p].state /\ loc'[p].seq = loc[p].seq
  BY <1>3, LocalTypes DEF Inv, Locals
<1>5. loc[p].modified \subseteq manifest[loc[p].txn].files
  BY DEF Inv, ProcOK, Fresh, Applying, BodyPcs
<1>6. lock = p /\ loc[p].txn \in Txns /\ manifest[loc[p].txn] # None
  BY DEF Inv, ProcOK, Called, LockedPcs, ManifestPcs, BodyPcs, TargetPcs
<1>7. InSync(p)'
  BY <1>3, <1>4, LocalTypes DEF Inv, ProcOK, InSync, LastState
<1>. QED BY <1>3, <1>4, <1>5, <1>6, <1>7
         DEF ProcOK, Called, Fresh, Preparing, Applying, Undoing, Targeting, BodyPcs, TargetPcs, UndoPcs

(* An error on a target: the body rolls back, the restoration stops.        *)
LEMMA TargetFailsKept ==
  ASSUME Inv, NEW p \in Procs, TargetFails(p), UNCHANGED <<lock, runVars>>,
         pc[p] \in TargetPcs \union {"restore"}
  PROVE  /\ pc' \in [Procs -> Pcs] /\ loc' \in [Procs -> Locals]
         /\ ProcOK(p)'
<1>1. CASE ~loc[p].undoing
  <2>1. pc[p] \in TargetPcs BY <1>1 DEF Inv, ProcOK, Undoing, UndoPcs
  <2>. QED BY <1>1, <2>1, RollbackKept DEF TargetFails, runVars
<1>2. CASE loc[p].undoing
  <2>1. loc' = [loc EXCEPT ![p] = [loc[p] EXCEPT !.errors = TRUE]] /\ Goto(p, "git_restored")
    BY <1>2 DEF TargetFails
  <2>2. [loc[p] EXCEPT !.errors = TRUE] \in Locals
    BY LocalTypes, LocalFlags DEF Inv
  <2>3. /\ pc' \in [Procs -> Pcs] /\ loc' \in [Procs -> Locals]
        /\ pc'[p] = "git_restored" /\ loc'[p] = [loc[p] EXCEPT !.errors = TRUE]
    BY <2>1, <2>2, LocalTypes DEF Inv, Pcs, RollbackPcs
  <2>4. /\ loc'[p].txn = loc[p].txn /\ loc'[p].restored = loc[p].restored /\ loc'[p].undoing
        /\ loc'[p].state = loc[p].state /\ loc'[p].seq = loc[p].seq /\ loc'[p].errors
    BY <1>2, <2>3, LocalTypes DEF Inv, Locals
  <2>5. loc[p].restored \subseteq manifest[loc[p].txn].files
    BY <1>2 DEF Inv, ProcOK, Undoing
  <2>6. lock = p /\ loc[p].txn \in Txns /\ manifest[loc[p].txn] # None
    BY DEF Inv, ProcOK, Called, LockedPcs, ManifestPcs, TargetPcs, UndoPcs
  <2>7. InSync(p)'
    BY <2>3, <2>4, LocalTypes DEF Inv, ProcOK, InSync, LastState, runVars, UndoPcs
  <2>. QED BY <2>3, <2>4, <2>5, <2>6, <2>7
           DEF ProcOK, Called, Fresh, Preparing, Applying, Undoing, Targeting, BodyPcs, TargetPcs, UndoPcs, runVars
<1>. QED BY <1>1, <1>2, LocalTypes DEF Inv, Locals

(* What a step of p has to establish; OthersKept does the rest.             *)
Kept(p) == TypeOK' /\ ProcOK(p)' /\ \A t \in Txns : RunOK(t)'

(* The steps that change no run directory and no target.                    *)
LEMMA QuietKept ==
  ASSUME Inv, NEW p \in Procs, UNCHANGED <<workspaceVars, runVars, edits, crashes>>,
         pc' \in [Procs -> Pcs], loc' \in [Procs -> Locals], ProcOK(p)',
         lock' \in Procs \union {None}, debris' \in Nat, faults' \in Nat
  PROVE  Kept(p)
<1>1. TypeOK' BY DEF Inv, TypeOK, workspaceVars, runVars
<1>. QED BY <1>1, RunsKept DEF Kept

LEMMA StartApplyKept ==
  ASSUME Inv, NEW p \in Procs, NEW t \in Txns, NEW req \in Requests, StartApply(p, t, req)
  PROVE  Kept(p)
<1>. DEFINE l == [Idle EXCEPT !.op = "apply", !.txn = t, !.req = req]
<1>1. l \in Locals
  BY IdleType DEF Locals
<1>2. /\ pc' \in [Procs -> Pcs] /\ pc'[p] = "lock"
      /\ loc' \in [Procs -> Locals] /\ loc'[p] = l
  <2>1. loc' = [loc EXCEPT ![p] = l] /\ Goto(p, "lock")
    BY DEF StartApply
  <2>. HIDE DEF l
  <2>. QED BY <1>1, <2>1, LocalTypes DEF Inv, Pcs, ApplyPcs
<1>3. ProcOK(p)'
  BY <1>2 DEF Idle, ProcOK, Called, Fresh, Preparing, InSync, Applying, Undoing, Targeting, LockedPcs,
              ManifestPcs, BodyPcs, TargetPcs, UndoPcs
<1>. QED BY <1>2, <1>3, QuietKept DEF StartApply, Inv, TypeOK, budgetVars

LEMMA StartRollbackKept ==
  ASSUME Inv, NEW p \in Procs, NEW t \in Txns, NEW op \in {"undo", "recover"}, StartRollback(p, t, op)
  PROVE  Kept(p)
<1>. DEFINE l == [Idle EXCEPT !.op = op, !.txn = t]
<1>1. l \in Locals
  BY IdleType DEF Locals
<1>2. /\ pc' \in [Procs -> Pcs] /\ pc'[p] = "rollback_lock"
      /\ loc' \in [Procs -> Locals] /\ loc'[p] = l
  BY <1>1, LocalTypes DEF StartRollback, Inv, Pcs, RollbackPcs
<1>3. ProcOK(p)'
  BY <1>2 DEF Idle, ProcOK, Called, Fresh, Preparing, InSync, Applying, Undoing, Targeting, LockedPcs,
              ManifestPcs, BodyPcs, TargetPcs, UndoPcs
<1>. QED BY <1>2, <1>3, QuietKept DEF StartRollback, Inv, TypeOK, budgetVars

LEMMA AcquireLockKept ==
  ASSUME Inv, NEW p \in Procs, AcquireLock(p)
  PROVE  Kept(p)
<1>1. CASE TryLock
  <2>1. /\ pc' \in [Procs -> Pcs]
        /\ pc'[p] = IF pc[p] = "lock" THEN "capture" ELSE "inspect"
        /\ UNCHANGED loc /\ lock' = p
    BY <1>1, LocalTypes DEF AcquireLock, Inv, Pcs, ApplyPcs, RollbackPcs
  <2>2. ProcOK(p)'
    BY <2>1 DEF AcquireLock, Inv, ProcOK, Called, Fresh, Preparing, InSync, Applying, Undoing, Targeting,
                LockedPcs, ManifestPcs, BodyPcs, TargetPcs, UndoPcs
  <2>. QED BY <2>1, <2>2, QuietKept DEF AcquireLock, Inv, TypeOK, budgetVars
<1>2. CASE ~TryLock
  BY <1>2, ErrorKept, QuietKept DEF AcquireLock, Inv, TypeOK, budgetVars
<1>. QED BY <1>1, <1>2

(* A Git snapshot is one the manifest can record.                           *)
LEMMA GitStatusType ==
  ASSUME TypeOK
  PROVE  GitStatus \in GitStatuses
BY DEF TypeOK, GitStatus, GitStatuses

LEMMA CreateRunKept ==
  ASSUME Inv, NEW p \in Procs, CreateRun(p)
  PROVE  Kept(p)
<1>. DEFINE t == loc[p].txn
            captured == IF GitRepo THEN GitStatus ELSE None
<1>0. t \in Txns /\ lock = p /\ loc[p] \in Locals /\ pc[p] = "capture"
  BY LocalTypes DEF CreateRun, Inv, ProcOK, Called, LockedPcs
<1>1. CASE UNCHANGED dirs /\ ReturnError(p)
  <2>0. UNCHANGED faults \/ IoError
    BY ZenonT(30) DEF CreateRun, NoIoError
  <2>1. faults' \in Nat
    BY <2>0 DEF Inv, TypeOK, IoError
  <2>. QED BY <1>0, <1>1, <2>1, ErrorKept, QuietKept DEF CreateRun, Inv, TypeOK, runVars
<1>2. CASE ~(UNCHANGED dirs /\ ReturnError(p))
  <2>0. PICK git \in {captured, None} : loc' = [loc EXCEPT ![p].git = git]
    BY <1>2 DEF CreateRun
  <2>. DEFINE l == [loc[p] EXCEPT !.git = git]
  <2>1. /\ t \notin dirs /\ dirs' = dirs \union {t} /\ Goto(p, "backup")
        /\ loc' = [loc EXCEPT ![p] = l]
    BY <1>2, <2>0 DEF CreateRun
  <2>2. l \in Locals
    BY <1>0, <2>0, GitStatusType DEF Inv, Locals
  <2>3. /\ pc' \in [Procs -> Pcs] /\ pc'[p] = "backup"
        /\ loc' \in [Procs -> Locals] /\ loc'[p] = l
    BY <2>1, <2>2, LocalTypes DEF Inv, Pcs, ApplyPcs
  <2>4. TypeOK'
    BY <1>0, <2>1, <2>3 DEF CreateRun, Inv, TypeOK, workspaceVars, IoError, NoIoError
  <2>5. \A u \in Txns : RunOK(u)'
    BY <2>1 DEF CreateRun, Inv, RunOK, BackupsOK
  <2>6. manifest[t] = None
    BY <1>0, <2>1 DEF Inv, RunOK
  <2>7. /\ l.txn = t /\ l.req = loc[p].req /\ l.file = loc[p].file /\ l.modified = loc[p].modified
        /\ l.undoing = loc[p].undoing /\ l.state = loc[p].state /\ l.seq = loc[p].seq
    BY <1>0 DEF Locals
  <2>8. /\ loc[p].req \in Requests /\ loc[p].file = 0 /\ loc[p].modified = {} /\ loc[p].undoing = FALSE
        /\ loc[p].state = "none" /\ loc[p].seq = 0
    BY <1>0 DEF Inv, ProcOK, Called, Fresh
  <2>9. \A f \in loc[p].req.files : ~(f <= 0)
    BY <2>8, ConstantsAssumption DEF Request, Files
  <2>. HIDE DEF l, t
  <2>10. ProcOK(p)'
    BY <1>0, <2>1, <2>3, <2>6, <2>7, <2>8, <2>9
       DEF CreateRun, ProcOK, Called, Fresh, Preparing, InSync, Applying, Undoing, Targeting, LockedPcs,
           ManifestPcs, BodyPcs, TargetPcs, UndoPcs
  <2>. QED BY <2>4, <2>5, <2>10 DEF Kept
<1>. QED BY <1>1, <1>2

LEMMA BackupFileKept ==
  ASSUME Inv, NEW p \in Procs, BackupFile(p)
  PROVE  Kept(p)
<1>. DEFINE t == loc[p].txn
            req == loc[p].req
            pending == {g \in req.files : g > loc[p].file}
<1>0. /\ t \in Txns /\ lock = p /\ loc[p] \in Locals /\ pc[p] = "backup"
      /\ req \in Requests /\ req.files \subseteq Files /\ req.before \in [Files -> Value]
      /\ loc[p].file \in Int /\ Files \subseteq Int
  BY LocalTypes, ConstantsAssumption DEF BackupFile, Inv, ProcOK, Called, LockedPcs, Request, Locals, Files
<1>1. CASE UNCHANGED backups /\ ReturnError(p)
  BY <1>0, <1>1, ErrorKept, QuietKept DEF BackupFile, Inv, TypeOK, budgetVars, runVars
<1>2. CASE pending = {} /\ Goto(p, "manifest") /\ UNCHANGED <<loc, backups>>
  <2>1. pc' \in [Procs -> Pcs] /\ pc'[p] = "manifest"
    BY <1>2, LocalTypes DEF Inv, Pcs, ApplyPcs
  <2>2. ASSUME NEW f \in req.files PROVE f <= loc[p].file
    <3>1. f \in Int /\ ~(f > loc[p].file) BY <1>0, <1>2
    <3>. QED BY <1>0, <3>1
  <2>3. ProcOK(p)'
    BY <1>0, <1>2, <2>1, <2>2
       DEF BackupFile, Inv, ProcOK, Called, Fresh, Preparing, InSync, Applying, Undoing, Targeting, LockedPcs,
           ManifestPcs, BodyPcs, TargetPcs, UndoPcs
  <2>. QED BY <1>2, <2>1, <2>3, QuietKept DEF BackupFile, Inv, TypeOK, budgetVars, runVars
<1>3. CASE \E f \in pending :
             /\ \A g \in pending : f <= g
             /\ files[f] = req.before[f]
             /\ backups' = WithBackup(t, f)
             /\ loc' = [loc EXCEPT ![p].file = f]
             /\ UNCHANGED pc
  <2>. PICK f \in pending :
             /\ \A g \in pending : f <= g
             /\ files[f] = req.before[f]
             /\ backups' = WithBackup(t, f)
             /\ loc' = [loc EXCEPT ![p].file = f]
             /\ UNCHANGED pc
    BY <1>3
  <2>. DEFINE l == [loc[p] EXCEPT !.file = f]
  <2>0. f \in Files /\ f \in req.files /\ f > loc[p].file /\ f \in Int
    BY <1>0
  <2>1. l \in Locals
    <3>1. f \in 0..(NFiles + 1) BY <2>0, ConstantsAssumption DEF Files
    <3>. QED BY <1>0, <3>1 DEF Locals
  <2>2. loc' \in [Procs -> Locals] /\ loc'[p] = l
    BY <2>1, LocalTypes DEF Inv
  <2>3. /\ backups' \in [Txns -> [Files -> Value \union {None}]]
        /\ \A u \in Txns, g \in Files : u # t \/ g # f => backups'[u][g] = backups[u][g]
        /\ files[f] # Absent => backups'[t][f] = files[f]
    BY <1>0, <2>0 DEF WithBackup, Inv, TypeOK
  <2>4. TypeOK'
    BY <2>2, <2>3 DEF BackupFile, Inv, TypeOK, workspaceVars, budgetVars
  <2>5. t \in dirs /\ manifest[t] = None
    BY <1>0 DEF Inv, ProcOK, Preparing
  <2>6. ASSUME NEW u \in Txns PROVE RunOK(u)'
    <3>1. CASE u = t
      BY <2>5, <3>1 DEF BackupFile, Inv, RunOK
    <3>2. CASE u # t
      <4>1. manifest[u] # None => manifest[u].files \subseteq Files
        BY DEF Inv, TypeOK, Manifests
      <4>. QED BY <3>2, <4>1, <2>3 DEF BackupFile, Inv, RunOK, BackupsOK
    <3>. QED BY <3>1, <3>2
  <2>7. /\ l.txn = t /\ l.req = req /\ l.file = f /\ l.modified = loc[p].modified
        /\ l.undoing = loc[p].undoing /\ l.state = loc[p].state /\ l.seq = loc[p].seq
    BY <1>0 DEF Locals
  <2>8. \A g \in req.files : g <= f /\ req.before[g] # Absent => backups'[t][g] = req.before[g]
    <3>. SUFFICES ASSUME NEW g \in req.files, g <= f, req.before[g] # Absent
                  PROVE  backups'[t][g] = req.before[g]
      OBVIOUS
    <3>1. CASE g = f BY <3>1, <2>3
    <3>2. CASE g # f
      <4>1. g <= loc[p].file BY <1>0, <2>0, <3>2
      <4>. QED BY <1>0, <2>3, <3>2, <4>1 DEF Inv, ProcOK, Preparing
    <3>. QED BY <3>1, <3>2
  <2>9. /\ pc'[p] = "backup" /\ UNCHANGED <<lock, dirs, manifest>>
        /\ loc[p].modified = {} /\ loc[p].undoing = FALSE /\ loc[p].state = "none" /\ loc[p].seq = 0
    BY <1>0 DEF BackupFile, Inv, ProcOK, Fresh
  <2>. HIDE DEF l, t, req
  <2>10. Preparing(p)'
    <3>1. loc'[p].txn = t /\ loc'[p].req = req /\ loc'[p].file = f /\ pc'[p] = "backup"
      BY <2>2, <2>7, <2>9
    <3>2. t \in dirs' /\ manifest'[t] = None
      BY <2>5, <2>9
    <3>3. \A g \in req.files :
            (pc'[p] = "manifest" \/ g <= f) /\ req.before[g] # Absent => backups'[t][g] = req.before[g]
      BY <2>8, <2>9
    <3>. QED BY <3>1, <3>2, <3>3 DEF Preparing
  <2>11. ProcOK(p)'
    BY <1>0, <2>2, <2>7, <2>9, <2>10
       DEF ProcOK, Called, Fresh, InSync, Applying, Undoing, Targeting, LockedPcs,
           ManifestPcs, BodyPcs, TargetPcs, UndoPcs
  <2>. QED BY <2>4, <2>6, <2>11 DEF Kept
<1>. QED BY <1>1, <1>2, <1>3 DEF BackupFile

LEMMA WriteManifestKept ==
  ASSUME Inv, NEW p \in Procs, WriteManifest(p)
  PROVE  Kept(p)
<1>. DEFINE t == loc[p].txn
            req == loc[p].req
            m == [files |-> req.files, before |-> req.before, after |-> req.after,
                  mode |-> modes, git |-> loc[p].git]
<1>0. /\ t \in Txns /\ lock = p /\ loc[p] \in Locals /\ pc[p] = "manifest"
      /\ req \in Requests /\ req \in Request /\ loc[p].git \in GitStatuses \union {None}
  BY LocalTypes, ConstantsAssumption DEF WriteManifest, Inv, ProcOK, Called, LockedPcs, Locals
<1>1. m \in Manifests /\ m # None
  BY <1>0, NoneAssumption DEF Request, Manifests, Inv, TypeOK
<1>2. manifest' = [manifest EXCEPT ![t] = m] /\ UNCHANGED <<dirs, backups, journal, lock>>
  BY DEF WriteManifest
<1>3. /\ t \in dirs /\ manifest[t] = None /\ journal[t] = <<>>
      /\ \A f \in req.files : req.before[f] # Absent => backups[t][f] = req.before[f]
  BY <1>0 DEF Inv, ProcOK, Preparing, RunOK
<1>4. m.files = req.files /\ m.before = req.before
  OBVIOUS
<1>. HIDE DEF m
<1>5. manifest' \in [Txns -> Manifests \union {None}] /\ manifest'[t] = m
  BY <1>0, <1>1, <1>2 DEF Inv, TypeOK
<1>6. ASSUME NEW u \in Txns PROVE RunOK(u)'
  <2>1. CASE u = t
    BY <1>0, <1>1, <1>2, <1>3, <1>4, <1>5, <2>1 DEF RunOK, BackupsOK, JournalOK
  <2>2. CASE u # t
    <3>1. manifest'[u] = manifest[u] BY <1>2, <2>2 DEF Inv, TypeOK
    <3>. QED BY <1>2, <3>1 DEF Inv, RunOK, BackupsOK
  <2>. QED BY <2>1, <2>2
<1>7. CASE NoIoError /\ Goto(p, "prepared") /\ UNCHANGED loc
  <2>1. pc' \in [Procs -> Pcs] /\ pc'[p] = "prepared"
    BY <1>7, LocalTypes DEF Inv, Pcs, ApplyPcs
  <2>2. TypeOK'
    BY <1>5, <1>7, <2>1 DEF WriteManifest, NoIoError, Inv, TypeOK, workspaceVars
  <2>3. ProcOK(p)'
    BY <1>0, <1>1, <1>2, <1>3, <1>5, <1>7, <2>1
       DEF Inv, ProcOK, Called, Fresh, Preparing, InSync, Applying, Undoing, Targeting, LockedPcs,
           ManifestPcs, BodyPcs, TargetPcs, UndoPcs
  <2>. QED BY <1>6, <2>2, <2>3 DEF Kept
<1>8. CASE IoError /\ ReturnError(p)
  <2>1. pc' \in [Procs -> Pcs] /\ loc' \in [Procs -> Locals] /\ ProcOK(p)'
    BY <1>0, <1>8, ErrorKept
  <2>2. TypeOK'
    BY <1>5, <1>8, <2>1 DEF WriteManifest, IoError, Inv, TypeOK, workspaceVars
  <2>. QED BY <1>6, <2>1, <2>2 DEF Kept
<1>. QED BY <1>7, <1>8 DEF WriteManifest

-----------------------------------------------------------------------------
(* Journal transitions.                                                     *)

(* What a process that has a manifest knows of its journal.                 *)
LEMMA Current ==
  ASSUME Inv, NEW p \in Procs, pc[p] \in ManifestPcs
  PROVE  /\ loc[p].txn \in Txns /\ loc[p] \in Locals /\ lock = p
         /\ manifest[loc[p].txn] \in Manifests /\ manifest[loc[p].txn] # None
         /\ ~SyncFaults => loc[p].state = LastState(loc[p].txn) /\ loc[p].seq = Len(journal[loc[p].txn])
<1>1. loc[p].txn \in Txns /\ loc[p] \in Locals /\ lock = p /\ manifest[loc[p].txn] # None
  BY LocalTypes DEF Inv, ProcOK, Called, LockedPcs, ManifestPcs, BodyPcs, TargetPcs, UndoPcs
<1>2. manifest[loc[p].txn] \in Manifests
  BY <1>1 DEF Inv, TypeOK
<1>3. CASE pc[p] = "prepared"
  BY <1>1, <1>2, <1>3 DEF Inv, ProcOK, Fresh, InSync, LastState
<1>4. CASE pc[p] # "prepared"
  BY <1>1, <1>2, <1>4 DEF Inv, ProcOK, InSync, ManifestPcs
<1>. QED BY <1>3, <1>4

LEMMA PublishKept ==
  ASSUME Inv, NEW p \in Procs, NEW next \in States, NEW named \in SUBSET Files,
         pc[p] \in ManifestPcs, Publish(p, next, named), UNCHANGED <<dirs, backups, manifest>>,
         ~SyncFaults => /\ ValidTransition(loc[p].state, next)
                        /\ EventFilesOK([seq |-> loc[p].seq, state |-> next, files |-> named],
                                        manifest[loc[p].txn].files)
  PROVE  /\ journal' \in [Txns -> Seq(Event)]
         /\ \A t \in Txns : RunOK(t)'
         /\ Len(journal'[loc[p].txn]) = Len(journal[loc[p].txn]) + 1 /\ journal'[loc[p].txn] # <<>>
         /\ journal'[loc[p].txn][Len(journal'[loc[p].txn])].state = next
<1>. DEFINE t == loc[p].txn
            event == [seq |-> loc[p].seq, state |-> next, files |-> named]
<1>1. /\ t \in Txns /\ manifest[t] # None /\ loc[p] \in Locals
      /\ ~SyncFaults => loc[p].state = LastState(t) /\ loc[p].seq = Len(journal[t])
  BY Current
<1>2. event \in Event /\ event.seq = loc[p].seq /\ event.state = next
  BY <1>1 DEF Event, Locals
<1>3. journal' = [journal EXCEPT ![t] = Append(journal[t], event)]
  BY DEF Publish
<1>4. journal \in [Txns -> Seq(Event)] /\ journal[t] \in Seq(Event)
  BY <1>1 DEF Inv, TypeOK
<1>5. ~SyncFaults => EventFilesOK(event, manifest[t].files) /\ ValidTransition(loc[p].state, next)
  OBVIOUS
<1>. HIDE DEF event, t
<1>6. /\ journal' \in [Txns -> Seq(Event)] /\ journal'[t] = Append(journal[t], event)
      /\ \A u \in Txns : u # t => journal'[u] = journal[u]
  BY <1>1, <1>2, <1>3, <1>4
<1>7. /\ Len(journal'[t]) = Len(journal[t]) + 1 /\ journal'[t] # <<>>
      /\ journal'[t][Len(journal'[t])].state = next
  <2>1. /\ Append(journal[t], event) # <<>> /\ Len(Append(journal[t], event)) = Len(journal[t]) + 1
        /\ Append(journal[t], event)[Len(journal[t]) + 1] = event
    BY <1>2, <1>4, AppendProperties
  <2>. QED BY <1>2, <1>6, <2>1
<1>8. ASSUME NEW u \in Txns PROVE RunOK(u)'
  <2>1. CASE u # t
    BY <1>6, <2>1 DEF Inv, RunOK, BackupsOK
  <2>2. CASE u = t /\ SyncFaults
    BY <1>1, <2>2 DEF Inv, RunOK, BackupsOK
  <2>3. CASE u = t /\ ~SyncFaults
    <3>1. JournalOK(journal[t], manifest[t].files)
      BY <1>1, <2>3 DEF Inv, RunOK
    <3>2. ValidTransition(IF journal[t] = <<>> THEN "none" ELSE journal[t][Len(journal[t])].state, next)
      BY <1>1, <1>5, <2>3 DEF LastState
    <3>3. JournalOK(journal'[t], manifest[t].files)
      BY <1>1, <1>2, <1>4, <1>5, <1>6, <2>3, <3>1, <3>2, JournalExtended
    <3>. QED BY <1>1, <2>3, <3>3 DEF Inv, RunOK, BackupsOK
  <2>. QED BY <2>1, <2>2, <2>3
<1>. QED BY <1>6, <1>7, <1>8 DEF t

(* A transition that fails leaves the journal alone, or, if its sync may    *)
(* fail, extends it.                                                        *)
LEMMA TransitionFailsKept ==
  ASSUME Inv, NEW p \in Procs, NEW next \in States, NEW named \in SUBSET Files,
         pc[p] \in ManifestPcs, TransitionFails(p, next, named), UNCHANGED <<dirs, backups, manifest>>
  PROVE  /\ journal' \in [Txns -> Seq(Event)]
         /\ \A t \in Txns : RunOK(t)'
         /\ ~SyncFaults => UNCHANGED journal
         /\ faults' \in Nat
<1>0. faults' \in Nat
  BY DEF TransitionFails, IoError, NoIoError, Inv, TypeOK
<1>1. CASE UNCHANGED journal
  <2>1. \A t \in Txns : RunOK(t)' BY <1>1, RunsKept DEF runVars
  <2>. QED BY <1>0, <1>1, <2>1 DEF Inv, TypeOK
<1>2. CASE SyncFaults /\ Publish(p, next, named)
  BY <1>0, <1>2, PublishKept
<1>. QED BY <1>1, <1>2 DEF TransitionFails

(* The in-memory journal after a transition.                                *)
LEMMA AdvancedType ==
  ASSUME NEW l \in Locals, NEW next \in States
  PROVE  /\ Advanced(l, next) \in Locals
         /\ Advanced(l, next).txn = l.txn
         /\ Advanced(l, next).state = next /\ Advanced(l, next).seq = l.seq + 1
         /\ Advanced(l, next).modified = l.modified /\ Advanced(l, next).undoing = l.undoing
         /\ Advanced(l, next).restored = l.restored
<1>1. Advanced(l, next) \in Locals
  <2>1. l.seq + 1 \in Nat BY DEF Locals
  <2>. QED BY <2>1 DEF Advanced, Locals
<1>2. /\ Advanced(l, next).txn = l.txn
      /\ Advanced(l, next).state = next /\ Advanced(l, next).seq = l.seq + 1
  BY DEF Advanced, Locals
<1>3. /\ Advanced(l, next).modified = l.modified /\ Advanced(l, next).undoing = l.undoing
      /\ Advanced(l, next).restored = l.restored
  BY DEF Advanced, Locals
<1>. QED BY <1>1, <1>2, <1>3

LEMMA PrepareKept ==
  ASSUME Inv, NEW p \in Procs, Prepare(p)
  PROVE  Kept(p)
<1>. DEFINE t == loc[p].txn
<1>0. pc[p] = "prepared" /\ pc[p] \in ManifestPcs /\ "prepared" \in States
  BY DEF Prepare, ManifestPcs, States
<1>1. /\ t \in Txns /\ loc[p] \in Locals /\ lock = p /\ manifest[t] # None
      /\ ~SyncFaults => loc[p].seq = Len(journal[t])
  BY <1>0, Current
<1>2. loc[p].modified = {} /\ loc[p].undoing = FALSE /\ loc[p].state = "none"
  BY <1>0 DEF Inv, ProcOK, Fresh
<1>3. UNCHANGED <<workspaceVars, debris, lock, dirs, backups, manifest, edits, crashes>>
  BY DEF Prepare
<1>4. CASE /\ Transition(p, "prepared", {})
           /\ loc' = [loc EXCEPT ![p] = Advanced(@, "prepared")]
           /\ Goto(p, "applying")
  <2>1. Publish(p, "prepared", {}) /\ UNCHANGED faults
    BY <1>4 DEF Transition, NoIoError
  <2>2. /\ ValidTransition(loc[p].state, "prepared")
        /\ EventFilesOK([seq |-> loc[p].seq, state |-> "prepared", files |-> {}], manifest[t].files)
    BY <1>2 DEF ValidTransition, Transitions, EventFilesOK
  <2>3. /\ journal' \in [Txns -> Seq(Event)]
        /\ \A u \in Txns : RunOK(u)'
        /\ Len(journal'[t]) = Len(journal[t]) + 1 /\ journal'[t] # <<>>
        /\ journal'[t][Len(journal'[t])].state = "prepared"
    <3>1. {} \in SUBSET Files OBVIOUS
    <3>. QED BY <1>0, <1>3, <2>1, <2>2, <3>1, PublishKept
  <2>4. /\ pc' \in [Procs -> Pcs] /\ pc'[p] = "applying"
        /\ loc' \in [Procs -> Locals] /\ loc'[p] = Advanced(loc[p], "prepared")
    BY <1>0, <1>1, <1>4, AdvancedType, LocalTypes DEF Inv, Pcs, ApplyPcs
  <2>5. TypeOK'
    BY <1>3, <2>1, <2>3, <2>4 DEF Inv, TypeOK, workspaceVars
  <2>6. /\ loc'[p].txn = t /\ loc'[p].state = "prepared" /\ loc'[p].seq = loc[p].seq + 1
        /\ loc'[p].modified = {} /\ loc'[p].undoing = FALSE
    BY <1>0, <1>1, <1>2, <2>4, AdvancedType
  <2>7. InSync(p)'
    BY <1>1, <2>3, <2>4, <2>6 DEF InSync, LastState
  <2>8. ProcOK(p)'
    BY <1>1, <1>3, <2>4, <2>6, <2>7
       DEF ProcOK, Called, Fresh, Preparing, Applying, Undoing, Targeting, BodyPcs, TargetPcs, UndoPcs
  <2>. QED BY <2>3, <2>5, <2>8 DEF Kept
<1>5. CASE TransitionFails(p, "prepared", {}) /\ ReturnError(p)
  <2>1. pc' \in [Procs -> Pcs] /\ loc' \in [Procs -> Locals] /\ ProcOK(p)'
    BY <1>0, <1>5, ErrorKept
  <2>2. journal' \in [Txns -> Seq(Event)] /\ (\A u \in Txns : RunOK(u)') /\ faults' \in Nat
    BY <1>0, <1>3, <1>5, TransitionFailsKept
  <2>3. TypeOK'
    BY <1>3, <2>1, <2>2 DEF Inv, TypeOK, workspaceVars
  <2>. QED BY <2>1, <2>2, <2>3 DEF Kept
<1>. QED BY <1>4, <1>5 DEF Prepare

(* A journal transition of the body: on to the next point, or to the        *)
(* rollback.                                                                *)
LEMMA BodyTransitionKept ==
  ASSUME Inv, NEW p \in Procs, pc[p] \in BodyPcs, NEW next \in States, NEW named \in SUBSET Files,
         next # "rolled_back", NEW point \in {"mutate", "finalize", "git_check", "report"},
         NEW result \in {"none", "committed"},
         BodyTransition(p, next, named, point, result),
         UNCHANGED <<workspaceVars, debris, lock, dirs, backups, manifest, edits, crashes>>,
         EventFilesOK([seq |-> loc[p].seq, state |-> next, files |-> named], manifest[loc[p].txn].files),
         point = "mutate" => loc[p].modified = {},
         point \in {"finalize", "git_check"} => loc[p].modified = manifest[loc[p].txn].files
  PROVE  Kept(p)
<1>. DEFINE t == loc[p].txn
            l == [Advanced(loc[p], next) EXCEPT !.file = 0, !.outcome = result]
<1>0. pc[p] \in ManifestPcs
  BY DEF ManifestPcs
<1>1. /\ t \in Txns /\ loc[p] \in Locals /\ lock = p /\ manifest[t] # None /\ manifest[t].files \subseteq Files
      /\ ~SyncFaults => loc[p].seq = Len(journal[t])
  BY <1>0, Current DEF Manifests
<1>2. ~loc[p].undoing
  BY DEF Inv, ProcOK, Applying
<1>3. CASE Transition(p, next, named) /\ loc' = [loc EXCEPT ![p] = l] /\ Goto(p, point)
  <2>1. Publish(p, next, named) /\ UNCHANGED faults /\ ValidTransition(loc[p].state, next)
    BY <1>3 DEF Transition, NoIoError
  <2>2. /\ journal' \in [Txns -> Seq(Event)]
        /\ \A u \in Txns : RunOK(u)'
        /\ Len(journal'[t]) = Len(journal[t]) + 1 /\ journal'[t] # <<>>
        /\ journal'[t][Len(journal'[t])].state = next
    BY <1>0, <2>1, PublishKept
  <2>3. /\ l \in Locals /\ l.txn = t /\ l.state = next /\ l.seq = loc[p].seq + 1 /\ l.file = 0
        /\ l.modified = loc[p].modified /\ l.undoing = loc[p].undoing
    <3>. DEFINE a == Advanced(loc[p], next)
    <3>1. /\ a \in Locals /\ a.txn = t /\ a.state = next /\ a.seq = loc[p].seq + 1
          /\ a.modified = loc[p].modified /\ a.undoing = loc[p].undoing
      BY <1>1, AdvancedType
    <3>2. 0 \in 0..(NFiles + 1) BY ConstantsAssumption
    <3>. HIDE DEF a
    <3>3. [a EXCEPT !.file = 0, !.outcome = result] \in Locals
      BY <3>1, <3>2 DEF Locals
    <3>4. [a EXCEPT !.file = 0, !.outcome = result].file = 0
      BY <3>1 DEF Locals
    <3>5. /\ [a EXCEPT !.file = 0, !.outcome = result].txn = a.txn
          /\ [a EXCEPT !.file = 0, !.outcome = result].state = a.state
          /\ [a EXCEPT !.file = 0, !.outcome = result].seq = a.seq
          /\ [a EXCEPT !.file = 0, !.outcome = result].modified = a.modified
          /\ [a EXCEPT !.file = 0, !.outcome = result].undoing = a.undoing
      BY <3>1 DEF Locals
    <3>. QED BY <3>1, <3>3, <3>4, <3>5 DEF a
  <2>. HIDE DEF l
  <2>4. /\ pc' \in [Procs -> Pcs] /\ pc'[p] = point
        /\ loc' \in [Procs -> Locals] /\ loc'[p] = l
    BY <1>3, <2>3, LocalTypes DEF Inv, Pcs, ApplyPcs
  <2>5. TypeOK'
    BY <2>1, <2>2, <2>4 DEF Inv, TypeOK, workspaceVars
  <2>6. InSync(p)'
    BY <1>1, <2>2, <2>3, <2>4 DEF InSync, LastState, States
  <2>7. point = "mutate" => {g \in manifest[t].files : g <= 0} = {}
    BY <1>1, ConstantsAssumption DEF Files
  <2>8. ProcOK(p)'
    BY <1>1, <1>2, <2>3, <2>4, <2>6, <2>7
       DEF ProcOK, Called, Fresh, Preparing, Applying, Undoing, Targeting, BodyPcs, TargetPcs, UndoPcs
  <2>. QED BY <2>2, <2>5, <2>8 DEF Kept
<1>4. CASE TransitionFails(p, next, named) /\ Rollback(p)
  <2>1. /\ journal' \in [Txns -> Seq(Event)] /\ (\A u \in Txns : RunOK(u)') /\ faults' \in Nat
        /\ ~SyncFaults => UNCHANGED journal
    BY <1>0, <1>4, TransitionFailsKept
  <2>2. pc' \in [Procs -> Pcs] /\ loc' \in [Procs -> Locals] /\ ProcOK(p)'
    BY <1>4, <2>1, RollbackKept
  <2>3. TypeOK'
    BY <2>1, <2>2 DEF Inv, TypeOK, workspaceVars
  <2>. QED BY <2>1, <2>2, <2>3 DEF Kept
<1>. QED BY <1>3, <1>4 DEF BodyTransition

(* What the body's transitions journal.                                     *)
LEMMA StartApplyingKept ==
  ASSUME Inv, NEW p \in Procs, StartApplying(p)
  PROVE  Kept(p)
<1>1. pc[p] \in BodyPcs /\ pc[p] = "applying"
  BY DEF StartApplying, BodyPcs
<1>2. loc[p].modified = {}
  BY <1>1 DEF Inv, ProcOK, Fresh
<1>3. EventFilesOK([seq |-> loc[p].seq, state |-> "applying", files |-> {}], manifest[loc[p].txn].files)
  BY DEF EventFilesOK
<1>4. {} \in SUBSET Files /\ "applying" \in States
  BY DEF States
<1>. QED BY <1>1, <1>2, <1>3, <1>4, BodyTransitionKept DEF StartApplying

LEMMA ModifiedTransitionKept ==
  ASSUME Inv, NEW p \in Procs, pc[p] \in {"verify", "finalize", "commit"},
         NEW next \in {"applied", "finalizing", "committed"},
         NEW point \in {"finalize", "git_check", "report"}, NEW result \in {"none", "committed"},
         BodyTransition(p, next, loc[p].modified, point, result),
         UNCHANGED <<workspaceVars, debris, lock, dirs, backups, manifest, edits, crashes>>
  PROVE  Kept(p)
<1>1. pc[p] \in BodyPcs /\ pc[p] \in ManifestPcs /\ next \in States
  BY DEF BodyPcs, ManifestPcs, States
<1>2. loc[p].modified = manifest[loc[p].txn].files
  BY DEF Inv, ProcOK, Applying
<1>3. loc[p].modified \in SUBSET Files
  BY <1>1, <1>2, Current DEF Manifests
<1>4. EventFilesOK([seq |-> loc[p].seq, state |-> next, files |-> loc[p].modified],
                   manifest[loc[p].txn].files)
  BY <1>2 DEF EventFilesOK
<1>. QED BY <1>1, <1>2, <1>3, <1>4, BodyTransitionKept

LEMMA VerifyAppliedKept ==
  ASSUME Inv, NEW p \in Procs, VerifyApplied(p)
  PROVE  Kept(p)
<1>1. CASE MutationsApplied(loc[p].txn)
  BY <1>1, ModifiedTransitionKept DEF VerifyApplied
<1>2. CASE ~MutationsApplied(loc[p].txn)
  <2>1. Rollback(p) /\ UNCHANGED <<lock, runVars>> /\ pc[p] \in BodyPcs
    BY <1>2 DEF VerifyApplied, BodyPcs, runVars
  <2>2. pc' \in [Procs -> Pcs] /\ loc' \in [Procs -> Locals] /\ ProcOK(p)'
    BY <2>1, RollbackKept DEF runVars
  <2>. QED BY <1>2, <2>1, <2>2, QuietKept DEF VerifyApplied, Inv, TypeOK
<1>. QED BY <1>1, <1>2

LEMMA FinalizeKept ==
  ASSUME Inv, NEW p \in Procs, Finalize(p)
  PROVE  Kept(p)
BY ModifiedTransitionKept DEF Finalize

LEMMA CommitKept ==
  ASSUME Inv, NEW p \in Procs, Commit(p)
  PROVE  Kept(p)
BY ModifiedTransitionKept DEF Commit

LEMMA GitCheckKept ==
  ASSUME Inv, NEW p \in Procs, GitCheck(p)
  PROVE  Kept(p)
<1>0. pc[p] = "git_check" /\ pc[p] \in BodyPcs /\ pc[p] \in ManifestPcs
      /\ UNCHANGED <<workspaceVars, debris, lock, runVars, budgetVars>>
  BY DEF GitCheck, BodyPcs, ManifestPcs
<1>1. CASE Goto(p, "commit") /\ UNCHANGED loc
  <2>1. pc' \in [Procs -> Pcs] /\ pc'[p] = "commit"
    BY <1>1, LocalTypes DEF Inv, Pcs, ApplyPcs
  <2>2. ProcOK(p)'
    BY <1>0, <1>1, <2>1 DEF Inv, ProcOK, Called, Fresh, Preparing, InSync, Applying, Undoing, Targeting, LastState,
         BodyPcs, TargetPcs, UndoPcs, LockedPcs, runVars
  <2>. QED BY <1>0, <1>1, <2>1, <2>2, QuietKept DEF Inv, TypeOK, budgetVars
<1>2. CASE Rollback(p)
  <2>1. pc' \in [Procs -> Pcs] /\ loc' \in [Procs -> Locals] /\ ProcOK(p)'
    BY <1>0, <1>2, RollbackKept DEF runVars
  <2>. QED BY <1>0, <2>1, QuietKept DEF Inv, TypeOK, budgetVars
<1>. QED BY <1>1, <1>2 DEF GitCheck

-----------------------------------------------------------------------------
(* Targets.                                                                 *)

(* A step that changes targets and no run directory.                        *)
LEMMA TargetKept ==
  ASSUME Inv, NEW p \in Procs, UNCHANGED <<head, debris, lock, runVars, edits, crashes>>,
         files' \in [Files -> Value], modes' \in [Files -> {"own", "temp"}], faults' \in Nat,
         pc' \in [Procs -> Pcs], loc' \in [Procs -> Locals], ProcOK(p)'
  PROVE  Kept(p)
<1>1. TypeOK' BY DEF Inv, TypeOK, runVars
<1>. QED BY <1>1, RunsKept DEF Kept

LEMMA ApplyMutationKept ==
  ASSUME Inv, NEW p \in Procs, ApplyMutation(p)
  PROVE  Kept(p)
<1>. DEFINE t == loc[p].txn
            m == manifest[t]
            pending == {g \in m.files : g > loc[p].file}
<1>0. /\ pc[p] = "mutate" /\ pc[p] \in BodyPcs /\ pc[p] \in ManifestPcs
      /\ UNCHANGED <<workspaceVars, debris, lock, runVars, budgetVars>>
  BY DEF ApplyMutation, BodyPcs, ManifestPcs
<1>1. /\ t \in Txns /\ loc[p] \in Locals /\ lock = p /\ m \in Manifests /\ m # None
  BY <1>0, Current
<1>2. /\ m.files \subseteq Files /\ Files \subseteq Int /\ loc[p].file \in Int
      /\ m.before \in [Files -> Value] /\ m.after \in [Files -> Value]
  BY <1>1, ConstantsAssumption DEF Manifests, Files, Locals
<1>3. loc[p].modified = {g \in m.files : g <= loc[p].file} /\ ~loc[p].undoing
  BY <1>0 DEF Inv, ProcOK, Applying
<1>4. CASE pending = {} /\ Goto(p, "verify") /\ UNCHANGED loc
  <2>1. pc' \in [Procs -> Pcs] /\ pc'[p] = "verify"
    BY <1>4, LocalTypes DEF Inv, Pcs, ApplyPcs
  <2>2. loc[p].modified = m.files
    <3>1. ASSUME NEW g \in m.files PROVE g <= loc[p].file
      <4>1. g \in Int /\ ~(g > loc[p].file) BY <1>2, <1>4
      <4>. QED BY <1>2, <4>1
    <3>. QED BY <1>3, <3>1
  <2>3. ProcOK(p)'
    BY <1>0, <1>4, <2>1, <2>2 DEF Inv, ProcOK, Called, Fresh, Preparing, InSync, Applying, Undoing, Targeting,
         LastState, BodyPcs, TargetPcs, UndoPcs, LockedPcs, runVars
  <2>. QED BY <1>0, <1>4, <2>1, <2>3, QuietKept DEF Inv, TypeOK, budgetVars
<1>5. CASE Rollback(p)
  <2>1. pc' \in [Procs -> Pcs] /\ loc' \in [Procs -> Locals] /\ ProcOK(p)'
    BY <1>0, <1>5, RollbackKept DEF runVars
  <2>. QED BY <1>0, <2>1, QuietKept DEF Inv, TypeOK, budgetVars
<1>6. ASSUME NEW f \in pending, \A g \in pending : f <= g, Goto(p, "staged"),
             loc' = [loc EXCEPT ![p].file = f, ![p].from = m.before[f], ![p].to = m.after[f]]
      PROVE  Kept(p)
  <2>. DEFINE l == [loc[p] EXCEPT !.file = f, !.from = m.before[f], !.to = m.after[f]]
  <2>1. f \in Files /\ f \in m.files /\ f \in Int /\ f > loc[p].file /\ f \in 0..(NFiles + 1)
    BY <1>2, ConstantsAssumption DEF Files
  <2>2. m.before[f] \in Value /\ m.after[f] \in Value
    BY <1>2, <2>1
  <2>3. l \in Locals
    BY <1>1, <2>1, <2>2 DEF Locals
  <2>4. /\ l.txn = t /\ l.file = f /\ l.modified = loc[p].modified /\ l.undoing = loc[p].undoing
        /\ l.state = loc[p].state /\ l.seq = loc[p].seq /\ l.from = m.before[f] /\ l.to = m.after[f]
    BY <1>1 DEF Locals
  <2>5. loc' = [loc EXCEPT ![p] = l]
    BY <1>6
  <2>. HIDE DEF l
  <2>6. /\ pc' \in [Procs -> Pcs] /\ pc'[p] = "staged"
        /\ loc' \in [Procs -> Locals] /\ loc'[p] = l
    BY <1>6, <2>3, <2>5, LocalTypes DEF Inv, Pcs, TargetPcs
  <2>7. loc[p].modified = {g \in m.files : g < f}
    <3>1. ASSUME NEW g \in m.files PROVE g <= loc[p].file <=> g < f
      <4>1. g \in Int /\ (g > loc[p].file => f <= g) BY <1>2, <1>6
      <4>. QED BY <1>2, <2>1, <4>1
    <3>. QED BY <1>3, <3>1
  <2>8. InSync(p)'
    BY <1>0, <1>1, <2>4, <2>6 DEF Inv, ProcOK, InSync, LastState, runVars
  <2>9. ProcOK(p)'
    BY <1>0, <1>1, <1>3, <2>1, <2>4, <2>6, <2>7, <2>8
       DEF ProcOK, Called, Fresh, Preparing, Applying, Undoing, Targeting, BodyPcs, TargetPcs, UndoPcs, runVars
  <2>. QED BY <1>0, <2>6, <2>9, QuietKept DEF Inv, TypeOK, budgetVars
<1>. QED BY <1>4, <1>5, <1>6 DEF ApplyMutation

LEMMA RecheckKept ==
  ASSUME Inv, NEW p \in Procs, Recheck(p)
  PROVE  Kept(p)
<1>0. /\ pc[p] = "staged" /\ pc[p] \in TargetPcs
      /\ UNCHANGED <<workspaceVars, debris, lock, runVars, budgetVars>>
  BY DEF Recheck, TargetPcs
<1>1. CASE StillExpected(p) /\ Goto(p, "publish") /\ UNCHANGED loc
  <2>1. pc' \in [Procs -> Pcs] /\ pc'[p] = "publish"
    BY <1>1, LocalTypes DEF Inv, Pcs, TargetPcs
  <2>2. ProcOK(p)'
    BY <1>0, <1>1, <2>1 DEF Inv, ProcOK, Called, Fresh, Preparing, InSync, Applying, Undoing, Targeting,
         StillExpected, LastState, BodyPcs, TargetPcs, UndoPcs, LockedPcs, ManifestPcs, runVars, workspaceVars
  <2>. QED BY <1>0, <1>1, <2>1, <2>2, QuietKept DEF Inv, TypeOK, budgetVars
<1>2. CASE TargetFails(p)
  <2>1. pc' \in [Procs -> Pcs] /\ loc' \in [Procs -> Locals] /\ ProcOK(p)'
    BY <1>0, <1>2, TargetFailsKept
  <2>. QED BY <1>0, <2>1, QuietKept DEF Inv, TypeOK, budgetVars
<1>. QED BY <1>1, <1>2 DEF Recheck

LEMMA PublishTargetKept ==
  ASSUME Inv, NEW p \in Procs, PublishTarget(p)
  PROVE  Kept(p)
<1>0. /\ pc[p] = "publish" /\ pc[p] \in TargetPcs
      /\ UNCHANGED <<head, debris, lock, runVars, edits, crashes>>
  BY DEF PublishTarget, TargetPcs
<1>1. /\ files' \in [Files -> Value] /\ modes' \in [Files -> {"own", "temp"}]
  <2>1. loc[p].to \in Value BY LocalTypes DEF Inv, Locals
  <2>. QED BY <2>1 DEF PublishTarget, Inv, TypeOK
<1>2. CASE NoIoError /\ Goto(p, "confirm") /\ UNCHANGED loc
  <2>1. pc' \in [Procs -> Pcs] /\ pc'[p] = "confirm"
    BY <1>2, LocalTypes DEF Inv, Pcs, TargetPcs
  <2>2. ProcOK(p)'
    BY <1>0, <1>2, <2>1 DEF Inv, ProcOK, Called, Fresh, Preparing, InSync, Applying, Undoing, Targeting,
         LastState, BodyPcs, TargetPcs, UndoPcs, LockedPcs, ManifestPcs, runVars
  <2>. QED BY <1>0, <1>1, <1>2, <2>1, <2>2, TargetKept DEF Inv, TypeOK, NoIoError
<1>3. CASE IoError /\ TargetFails(p)
  <2>1. pc' \in [Procs -> Pcs] /\ loc' \in [Procs -> Locals] /\ ProcOK(p)'
    BY <1>0, <1>3, TargetFailsKept
  <2>2. faults' \in Nat BY <1>3 DEF IoError, Inv, TypeOK
  <2>. QED BY <1>0, <1>1, <2>1, <2>2, TargetKept
<1>. QED BY <1>2, <1>3 DEF PublishTarget

LEMMA ConfirmKept ==
  ASSUME Inv, NEW p \in Procs, Confirm(p)
  PROVE  Kept(p)
<1>. DEFINE t == loc[p].txn
            m == manifest[t]
            f == loc[p].file
<1>0. /\ pc[p] = "confirm" /\ pc[p] \in TargetPcs /\ pc[p] \in ManifestPcs
      /\ UNCHANGED <<files, head, debris, lock, runVars, budgetVars>>
  BY DEF Confirm, TargetPcs, ManifestPcs
<1>1. /\ t \in Txns /\ loc[p] \in Locals /\ lock = p /\ m \in Manifests /\ m # None
  BY <1>0, Current
<1>2. /\ f \in m.files /\ m.files \subseteq Files /\ Files \subseteq Int /\ m.mode \in [Files -> {"own", "temp"}]
      /\ f \in Int /\ f \in Files
  BY <1>0, <1>1, ConstantsAssumption DEF Inv, ProcOK, Applying, Manifests, Files
<1>3. modes' \in [Files -> {"own", "temp"}] /\ files' \in [Files -> Value] /\ faults' \in Nat
  BY <1>0, <1>2 DEF Confirm, Inv, TypeOK, budgetVars
<1>4. CASE TargetFails(p)
  <2>1. pc' \in [Procs -> Pcs] /\ loc' \in [Procs -> Locals] /\ ProcOK(p)'
    BY <1>0, <1>4, TargetFailsKept
  <2>. QED BY <1>0, <1>3, <2>1, TargetKept DEF budgetVars
<1>5. CASE /\ ~loc[p].undoing
           /\ loc' = [loc EXCEPT ![p].modified = @ \union {f}]
           /\ Goto(p, "mutate")
  <2>. DEFINE l == [loc[p] EXCEPT !.modified = loc[p].modified \union {f}]
  <2>1. loc[p].modified \union {f} \in SUBSET Files
    BY <1>1, <1>2 DEF Locals
  <2>2. l \in Locals
    BY <1>1, <2>1 DEF Locals
  <2>3. /\ l.txn = t /\ l.file = f /\ l.modified = loc[p].modified \union {f} /\ l.undoing = loc[p].undoing
        /\ l.state = loc[p].state /\ l.seq = loc[p].seq
    BY <1>1 DEF Locals
  <2>4. loc' = [loc EXCEPT ![p] = l]
    BY <1>5
  <2>. HIDE DEF l
  <2>5. /\ pc' \in [Procs -> Pcs] /\ pc'[p] = "mutate"
        /\ loc' \in [Procs -> Locals] /\ loc'[p] = l
    BY <1>5, <2>2, <2>4, LocalTypes DEF Inv, Pcs, ApplyPcs
  <2>6. loc[p].modified \union {f} = {g \in m.files : g <= f}
    <3>1. loc[p].modified = {g \in m.files : g < f} BY <1>0, <1>5 DEF Inv, ProcOK, Applying
    <3>2. ASSUME NEW g \in m.files PROVE g <= f <=> (g < f \/ g = f)
      <4>1. g \in Int BY <1>2
      <4>. HIDE DEF f, m
      <4>. QED BY <1>2, <4>1
    <3>. QED BY <1>2, <3>1, <3>2
  <2>7. InSync(p)'
    BY <1>0, <1>1, <2>3, <2>5 DEF Inv, ProcOK, InSync, LastState, runVars
  <2>8. ProcOK(p)'
    BY <1>0, <1>1, <1>5, <2>3, <2>5, <2>6, <2>7
       DEF ProcOK, Called, Fresh, Preparing, Applying, Undoing, Targeting, BodyPcs, TargetPcs, UndoPcs, runVars
  <2>. QED BY <1>0, <1>3, <2>5, <2>8, TargetKept DEF budgetVars
<1>6. CASE /\ loc[p].undoing
           /\ loc' = [loc EXCEPT ![p].restored = @ \union {f}]
           /\ Goto(p, "restore")
  <2>. DEFINE l == [loc[p] EXCEPT !.restored = loc[p].restored \union {f}]
  <2>1. loc[p].restored \union {f} \in SUBSET Files
    BY <1>1, <1>2 DEF Locals
  <2>2. l \in Locals
    BY <1>1, <2>1 DEF Locals
  <2>3. /\ l.txn = t /\ l.file = f /\ l.restored = loc[p].restored \union {f} /\ l.undoing = loc[p].undoing
        /\ l.state = loc[p].state /\ l.seq = loc[p].seq
    BY <1>1 DEF Locals
  <2>4. loc' = [loc EXCEPT ![p] = l]
    BY <1>6
  <2>. HIDE DEF l
  <2>5. /\ pc' \in [Procs -> Pcs] /\ pc'[p] = "restore"
        /\ loc' \in [Procs -> Locals] /\ loc'[p] = l
    BY <1>6, <2>2, <2>4, LocalTypes DEF Inv, Pcs, RollbackPcs
  <2>6. loc[p].restored \union {f} = {g \in m.files : g >= f}
    <3>1. loc[p].restored = {g \in m.files : g > f} BY <1>0, <1>6 DEF Inv, ProcOK, Undoing
    <3>2. ASSUME NEW g \in m.files PROVE g >= f <=> (g > f \/ g = f)
      <4>1. g \in Int BY <1>2
      <4>. HIDE DEF f, m
      <4>. QED BY <1>2, <4>1
    <3>. QED BY <1>2, <3>1, <3>2
  <2>7. InSync(p)'
    BY <1>0, <1>1, <2>3, <2>5 DEF Inv, ProcOK, InSync, LastState, runVars, UndoPcs
  <2>8. ProcOK(p)'
    BY <1>0, <1>1, <1>6, <2>3, <2>5, <2>6, <2>7
       DEF ProcOK, Called, Fresh, Preparing, Applying, Undoing, Targeting, BodyPcs, TargetPcs, UndoPcs, runVars
  <2>. QED BY <1>0, <1>3, <2>5, <2>8, TargetKept DEF budgetVars
<1>. QED BY <1>4, <1>5, <1>6 DEF Confirm

-----------------------------------------------------------------------------
(* Rollback.                                                                *)

LEMMA InspectKept ==
  ASSUME Inv, NEW p \in Procs, Inspect(p)
  PROVE  Kept(p)
<1>. DEFINE t == loc[p].txn
<1>0. /\ pc[p] = "inspect" /\ t \in Txns /\ loc[p] \in Locals /\ lock = p
      /\ UNCHANGED <<workspaceVars, debris, lock, runVars, budgetVars>>
  BY LocalTypes DEF Inspect, Inv, ProcOK, Called, LockedPcs
<1>1. CASE ReturnError(p)
  BY <1>0, <1>1, ErrorKept, QuietKept DEF Inv, TypeOK, budgetVars
<1>2. CASE loc' = [loc EXCEPT ![p].outcome = "rolled_back"] /\ Goto(p, "report")
  <2>1. [loc[p] EXCEPT !.outcome = "rolled_back"] \in Locals
    BY <1>0 DEF Locals
  <2>2. /\ pc' \in [Procs -> Pcs] /\ pc'[p] = "report"
        /\ loc' \in [Procs -> Locals] /\ loc'[p] = [loc[p] EXCEPT !.outcome = "rolled_back"]
    BY <1>2, <2>1, LocalTypes DEF Inv, Pcs
  <2>3. loc'[p].txn = t
    BY <1>0, <2>2 DEF Locals
  <2>4. ProcOK(p)'
    BY <1>0, <2>2, <2>3 DEF ProcOK, Called, Fresh, Preparing, InSync, Applying, Undoing, Targeting, LockedPcs,
                            ManifestPcs, BodyPcs, TargetPcs, UndoPcs
  <2>. QED BY <1>0, <2>2, <2>4, QuietKept DEF Inv, TypeOK, budgetVars
<1>3. CASE /\ InspectionValid(t) /\ LastState(t) # "rolled_back"
           /\ loc' = [loc EXCEPT ![p].state = LastState(t),
                                 ![p].seq = ResumeSequence(t), ![p].undoing = TRUE]
           /\ Goto(p, "rollback_start")
  <2>. DEFINE a == [loc[p] EXCEPT !.state = LastState(t), !.seq = Len(journal[t])]
              l == [a EXCEPT !.undoing = TRUE]
  <2>1. LastState(t) \in States /\ LastState(t) # "none" /\ Len(journal[t]) \in Nat
    <3>1. journal[t] \in Seq(Event) /\ journal[t] # <<>> BY <1>0, <1>3 DEF Inv, TypeOK, InspectionValid
    <3>2. Len(journal[t]) \in 1..Len(journal[t]) BY <3>1
    <3>3. journal[t][Len(journal[t])] \in Event BY <3>1, <3>2
    <3>. QED BY <3>1, <3>3 DEF LastState, Event, States
  <2>2. a \in Locals /\ l \in Locals
    <3>1. a \in Locals BY <1>0, <2>1 DEF Locals
    <3>. QED BY <3>1, LocalFlags
  <2>3. /\ l.txn = t /\ l.modified = loc[p].modified /\ l.undoing = TRUE
        /\ l.state = LastState(t) /\ l.seq = Len(journal[t])
    BY <1>0 DEF Locals
  <2>4. loc' = [loc EXCEPT ![p] = l]
    BY <1>3 DEF ResumeSequence
  <2>. HIDE DEF l
  <2>5. /\ pc' \in [Procs -> Pcs] /\ pc'[p] = "rollback_start"
        /\ loc' \in [Procs -> Locals] /\ loc'[p] = l
    BY <1>3, <2>2, <2>4, LocalTypes DEF Inv, Pcs, RollbackPcs
  <2>6. manifest[t] # None /\ loc[p].modified = {}
    BY <1>0, <1>3 DEF InspectionValid, Inv, ProcOK, Fresh
  <2>7. InSync(p)'
    BY <1>0, <1>3, <2>1, <2>3, <2>5, ZenonT(60) DEF InSync, LastState, runVars
  <2>8. ProcOK(p)'
    BY <1>0, <2>3, <2>5, <2>6, <2>7
       DEF ProcOK, Called, Fresh, Preparing, Applying, Undoing, Targeting, BodyPcs, TargetPcs, UndoPcs, runVars
  <2>. QED BY <1>0, <2>5, <2>8, QuietKept DEF Inv, TypeOK, budgetVars
<1>. QED BY <1>1, <1>2, <1>3 DEF Inspect

(* The local state with which the restore loop begins.                      *)
LEMMA LoopStart ==
  ASSUME NEW l \in Locals, NEW failed \in BOOLEAN
  PROVE  LET k == [l EXCEPT !.file = NFiles + 1, !.restored = {}, !.errors = failed] IN
         /\ k \in Locals
         /\ k.txn = l.txn /\ k.state = l.state /\ k.seq = l.seq /\ k.undoing = l.undoing
         /\ k.file = NFiles + 1 /\ k.restored = {}
<1>. DEFINE a == [l EXCEPT !.file = NFiles + 1, !.restored = {}]
            k == [l EXCEPT !.file = NFiles + 1, !.restored = {}, !.errors = failed]
<1>1. a \in Locals
  <2>1. NFiles + 1 \in 0..(NFiles + 1) BY ConstantsAssumption
  <2>2. {} \in SUBSET Files OBVIOUS
  <2>. QED BY <2>1, <2>2 DEF Locals
<1>2. k = [a EXCEPT !.errors = failed]
  BY DEF Locals
<1>3. k \in Locals
  BY <1>1, <1>2, LocalFlags
<1>4. k.txn = l.txn /\ k.state = l.state /\ k.seq = l.seq /\ k.undoing = l.undoing
  BY DEF Locals
<1>5. k.file = NFiles + 1 /\ k.restored = {}
  BY DEF Locals
<1>. QED BY <1>3, <1>4, <1>5

LEMMA RollbackStartKept ==
  ASSUME Inv, NEW p \in Procs, RollbackStart(p)
  PROVE  Kept(p)
<1>. DEFINE t == loc[p].txn
            start(l, failed) == [l EXCEPT !.file = NFiles + 1, !.restored = {}, !.errors = failed]
            lastState == IF journal'[t] = <<>> THEN "none" ELSE journal'[t][Len(journal'[t])].state
<1>0. /\ pc[p] = "rollback_start" /\ pc[p] \in UndoPcs /\ pc[p] \in ManifestPcs
      /\ Goto(p, "restore")
      /\ UNCHANGED <<workspaceVars, debris, lock, dirs, backups, manifest, edits, crashes>>
  BY DEF RollbackStart, ManifestPcs, UndoPcs
<1>1. /\ t \in Txns /\ loc[p] \in Locals /\ lock = p /\ manifest[t] # None /\ manifest[t].files \subseteq Files
      /\ ~SyncFaults => loc[p].state = LastState(t) /\ loc[p].seq = Len(journal[t])
  BY <1>0, Current DEF Manifests
<1>2. /\ loc[p].undoing /\ loc[p].modified \subseteq manifest[t].files
      /\ loc[p].state \notin {"none", "rolled_back"}
  BY <1>0 DEF Inv, ProcOK, InSync, Undoing
<1>3. pc' \in [Procs -> Pcs] /\ pc'[p] = "restore"
  BY <1>0, LocalTypes DEF Inv, Pcs, RollbackPcs
<1>4. {g \in manifest[t].files : g >= NFiles + 1} = {}
  BY <1>1, ConstantsAssumption DEF Files
(* Whichever way the loop is entered with local state l.                    *)
<1>5. ASSUME NEW l \in Locals, NEW failed \in BOOLEAN,
             l.txn = t, l.undoing = loc[p].undoing, l.state \notin {"none", "rolled_back"},
             loc' = [loc EXCEPT ![p] = start(l, failed)],
             journal' \in [Txns -> Seq(Event)], faults' \in Nat,
             \A u \in Txns : RunOK(u)',
             ~SyncFaults => l.seq = Len(journal'[t]) /\ l.state = lastState
      PROVE  Kept(p)
  <2>. DEFINE k == start(l, failed)
  <2>1. /\ k \in Locals /\ k.txn = t /\ k.state = l.state /\ k.seq = l.seq /\ k.undoing = loc[p].undoing
        /\ k.file = NFiles + 1 /\ k.restored = {}
    BY <1>5, LoopStart
  <2>2. loc' = [loc EXCEPT ![p] = k]
    BY <1>5
  <2>. HIDE DEF k
  <2>3. loc' \in [Procs -> Locals] /\ loc'[p] = k
    BY <2>1, <2>2, LocalTypes DEF Inv
  <2>4. TypeOK'
    BY <1>0, <1>3, <1>5, <2>3 DEF Inv, TypeOK, workspaceVars
  <2>5. InSync(p)'
    BY <1>3, <1>5, <2>1, <2>3 DEF InSync, LastState
  <2>6. ProcOK(p)'
    BY <1>0, <1>1, <1>2, <1>3, <1>4, <2>1, <2>3, <2>5
       DEF ProcOK, Called, Fresh, Preparing, Applying, Undoing, Targeting, BodyPcs, TargetPcs, UndoPcs
  <2>. QED BY <1>5, <2>4, <2>6 DEF Kept
<1>6. CASE /\ loc' = [loc EXCEPT ![p] = start(loc[p], FALSE)]
           /\ UNCHANGED <<journal, faults>>
  <2>1. \A u \in Txns : RunOK(u)'
    BY <1>0, <1>6, RunsKept DEF runVars
  <2>2. ~SyncFaults => loc[p].seq = Len(journal'[t]) /\ loc[p].state = lastState
    BY <1>1, <1>6 DEF LastState
  <2>3. journal' \in [Txns -> Seq(Event)] /\ faults' \in Nat
    BY <1>6 DEF Inv, TypeOK
  <2>4. FALSE \in BOOLEAN OBVIOUS
  <2>. QED BY <1>1, <1>2, <1>5, <1>6, <2>1, <2>2, <2>3, <2>4
<1>7. CASE /\ Transition(p, "rollback_started", loc[p].modified)
           /\ loc' = [loc EXCEPT ![p] = start(Advanced(loc[p], "rollback_started"), FALSE)]
  <2>. DEFINE a == Advanced(loc[p], "rollback_started")
  <2>0. "rollback_started" \in States /\ FALSE \in BOOLEAN
    BY DEF States
  <2>1. Publish(p, "rollback_started", loc[p].modified) /\ UNCHANGED faults
        /\ ValidTransition(loc[p].state, "rollback_started")
    BY <1>7 DEF Transition, NoIoError
  <2>2. EventFilesOK([seq |-> loc[p].seq, state |-> "rollback_started", files |-> loc[p].modified],
                     manifest[t].files)
    BY <1>2 DEF EventFilesOK
  <2>3. /\ journal' \in [Txns -> Seq(Event)]
        /\ \A u \in Txns : RunOK(u)'
        /\ Len(journal'[t]) = Len(journal[t]) + 1 /\ journal'[t] # <<>>
        /\ journal'[t][Len(journal'[t])].state = "rollback_started"
    <3>1. loc[p].modified \in SUBSET Files BY <1>1, <1>2
    <3>. QED BY <1>0, <2>0, <2>1, <2>2, <3>1, PublishKept
  <2>4. /\ a \in Locals /\ a.txn = t /\ a.undoing = loc[p].undoing
        /\ a.state = "rollback_started" /\ a.seq = loc[p].seq + 1
    BY <1>1, <2>0, AdvancedType
  <2>5. ~SyncFaults => a.seq = Len(journal'[t]) /\ a.state = lastState
    BY <1>1, <2>3, <2>4 DEF LastState
  <2>6. faults' \in Nat
    BY <2>1 DEF Inv, TypeOK
  <2>7. loc' = [loc EXCEPT ![p] = start(a, FALSE)]
    BY <1>7
  <2>. HIDE DEF a
  <2>. QED BY <1>5, <2>0, <2>3, <2>4, <2>5, <2>6, <2>7
<1>8. CASE /\ TransitionFails(p, "rollback_started", loc[p].modified)
           /\ loc' = [loc EXCEPT ![p] = start(loc[p], TRUE)]
  <2>0. "rollback_started" \in States /\ TRUE \in BOOLEAN /\ loc[p].modified \in SUBSET Files
    BY <1>1, <1>2 DEF States
  <2>1. /\ journal' \in [Txns -> Seq(Event)] /\ (\A u \in Txns : RunOK(u)') /\ faults' \in Nat
        /\ ~SyncFaults => UNCHANGED journal
    BY <1>0, <1>8, <2>0, TransitionFailsKept
  <2>2. ~SyncFaults => loc[p].seq = Len(journal'[t]) /\ loc[p].state = lastState
    BY <1>1, <2>1 DEF LastState
  <2>. QED BY <1>1, <1>2, <1>5, <1>8, <2>0, <2>1, <2>2
<1>. QED BY <1>6, <1>7, <1>8 DEF RollbackStart

LEMMA RestoreFileKept ==
  ASSUME Inv, NEW p \in Procs, RestoreFile(p)
  PROVE  Kept(p)
<1>. DEFINE t == loc[p].txn
            m == manifest[t]
            pending == {g \in m.files : g < loc[p].file}
<1>0. /\ pc[p] = "restore" /\ pc[p] \in UndoPcs /\ pc[p] \in ManifestPcs
      /\ UNCHANGED <<files, head, debris, lock, runVars, budgetVars>>
  BY DEF RestoreFile, UndoPcs, ManifestPcs
<1>1. /\ t \in Txns /\ loc[p] \in Locals /\ lock = p /\ m \in Manifests /\ m # None
  BY <1>0, Current
<1>2. /\ m.files \subseteq Files /\ Files \subseteq Int /\ loc[p].file \in Int
      /\ m.before \in [Files -> Value] /\ m.after \in [Files -> Value] /\ m.mode \in [Files -> {"own", "temp"}]
  BY <1>1, ConstantsAssumption DEF Manifests, Files, Locals
<1>3. loc[p].restored = {g \in m.files : g >= loc[p].file} /\ loc[p].undoing
  BY <1>0 DEF Inv, ProcOK, Undoing
<1>4. files' \in [Files -> Value] /\ faults' \in Nat /\ modes \in [Files -> {"own", "temp"}]
  BY <1>0 DEF Inv, TypeOK, budgetVars
<1>5. CASE pending = {} /\ Goto(p, "git_restored") /\ UNCHANGED <<loc, modes>>
  <2>1. pc' \in [Procs -> Pcs] /\ pc'[p] = "git_restored"
    BY <1>5, LocalTypes DEF Inv, Pcs, RollbackPcs
  <2>2. loc[p].restored = m.files
    <3>1. ASSUME NEW g \in m.files PROVE g >= loc[p].file
      <4>1. g \in Int /\ ~(g < loc[p].file) BY <1>2, <1>5
      <4>. QED BY <1>2, <4>1
    <3>. QED BY <1>3, <3>1
  <2>3. InSync(p)'
    BY <1>0, <1>1, <1>5, <2>1 DEF Inv, ProcOK, InSync, LastState, runVars, UndoPcs
  <2>4. ProcOK(p)'
    BY <1>0, <1>1, <1>3, <1>5, <2>1, <2>2, <2>3
       DEF ProcOK, Called, Fresh, Preparing, Applying, Undoing, Targeting, BodyPcs, TargetPcs, UndoPcs, runVars
  <2>. QED BY <1>0, <1>4, <1>5, <2>1, <2>4, TargetKept DEF Inv, TypeOK, budgetVars
<1>6. CASE TargetFails(p) /\ UNCHANGED modes
  <2>1. pc' \in [Procs -> Pcs] /\ loc' \in [Procs -> Locals] /\ ProcOK(p)'
    BY <1>0, <1>6, TargetFailsKept
  <2>. QED BY <1>0, <1>4, <1>6, <2>1, TargetKept DEF budgetVars
<1>7. ASSUME NEW f \in pending, \A g \in pending : g <= f
      PROVE  /\ f \in Files /\ f \in m.files /\ f \in Int /\ f < loc[p].file /\ f \in 0..(NFiles + 1)
             /\ loc[p].restored = {g \in m.files : g > f}
             /\ loc[p].restored \union {f} = {g \in m.files : g >= f}
  <2>1. f \in Files /\ f \in m.files /\ f \in Int /\ f < loc[p].file /\ f \in 0..(NFiles + 1)
    BY <1>2, ConstantsAssumption DEF Files
  <2>2. ASSUME NEW g \in m.files
        PROVE  (g >= loc[p].file <=> g > f) /\ (g >= f <=> (g > f \/ g = f))
    <3>1. g \in Int /\ (g < loc[p].file => g <= f) BY <1>2, <1>7
    <3>. HIDE DEF m
    <3>. QED BY <1>2, <2>1, <3>1
  <2>3. loc[p].restored = {g \in m.files : g > f}
    BY <1>3, <2>2
  <2>. QED BY <2>1, <2>2, <2>3
<1>8. ASSUME NEW f \in pending, \A g \in pending : g <= f, modes' = ModeRestored(m, f),
             loc' = [loc EXCEPT ![p].file = f, ![p].restored = @ \union {f}], UNCHANGED pc
      PROVE  Kept(p)
  <2>. DEFINE l == [loc[p] EXCEPT !.file = f, !.restored = loc[p].restored \union {f}]
  <2>1. f \in Files /\ f \in 0..(NFiles + 1) /\ loc[p].restored \union {f} = {g \in m.files : g >= f}
    BY <1>7, <1>8
  <2>2. l \in Locals
    <3>1. loc[p].restored \union {f} \in SUBSET Files BY <1>1, <2>1 DEF Locals
    <3>. QED BY <1>1, <2>1, <3>1 DEF Locals
  <2>3. /\ l.txn = t /\ l.file = f /\ l.restored = loc[p].restored \union {f} /\ l.undoing = loc[p].undoing
        /\ l.state = loc[p].state /\ l.seq = loc[p].seq
    BY <1>1 DEF Locals
  <2>4. loc' = [loc EXCEPT ![p] = l]
    BY <1>8
  <2>. HIDE DEF l
  <2>5. pc' \in [Procs -> Pcs] /\ pc'[p] = "restore" /\ loc' \in [Procs -> Locals] /\ loc'[p] = l
    BY <1>0, <1>8, <2>2, <2>4, LocalTypes DEF Inv, TypeOK
  <2>6. modes' \in [Files -> {"own", "temp"}]
    BY <1>2, <1>4, <1>8, <2>1 DEF ModeRestored
  <2>7. InSync(p)'
    BY <1>0, <1>1, <2>3, <2>5 DEF Inv, ProcOK, InSync, LastState, runVars, UndoPcs
  <2>8. ProcOK(p)'
    BY <1>0, <1>1, <1>3, <2>1, <2>3, <2>5, <2>7
       DEF ProcOK, Called, Fresh, Preparing, Applying, Undoing, Targeting, BodyPcs, TargetPcs, UndoPcs, runVars
  <2>. QED BY <1>0, <1>4, <2>5, <2>6, <2>8, TargetKept DEF budgetVars
<1>9. ASSUME NEW f \in pending, \A g \in pending : g <= f, UNCHANGED modes, Goto(p, "staged"),
             loc' = [loc EXCEPT ![p].file = f, ![p].from = m.after[f],
                                ![p].to = RestoredContent(t, f)]
      PROVE  Kept(p)
  <2>. DEFINE l == [loc[p] EXCEPT !.file = f, !.from = m.after[f], !.to = RestoredContent(t, f)]
  <2>1. f \in Files /\ f \in m.files /\ f \in 0..(NFiles + 1) /\ loc[p].restored = {g \in m.files : g > f}
    BY <1>7, <1>9
  <2>2. m.after[f] \in Value /\ RestoredContent(t, f) \in Value /\ RestoredContent(t, f) = m.before[f]
    <3>1. m.before[f] # Absent => backups[t][f] = m.before[f]
      BY <1>1, <2>1 DEF Inv, RunOK, BackupsOK
    <3>. QED BY <1>2, <2>1, <3>1 DEF RestoredContent, Value
  <2>3. l \in Locals
    BY <1>1, <2>1, <2>2 DEF Locals
  <2>4. /\ l.txn = t /\ l.file = f /\ l.restored = loc[p].restored /\ l.undoing = loc[p].undoing
        /\ l.state = loc[p].state /\ l.seq = loc[p].seq
        /\ l.from = m.after[f] /\ l.to = RestoredContent(t, f)
    BY <1>1 DEF Locals
  <2>5. loc' = [loc EXCEPT ![p] = l]
    BY <1>9
  <2>. HIDE DEF l
  <2>6. pc' \in [Procs -> Pcs] /\ pc'[p] = "staged" /\ loc' \in [Procs -> Locals] /\ loc'[p] = l
    BY <1>9, <2>3, <2>5, LocalTypes DEF Inv, Pcs, TargetPcs
  <2>7. InSync(p)'
    BY <1>0, <1>1, <2>4, <2>6 DEF Inv, ProcOK, InSync, LastState, runVars, UndoPcs
  <2>8. ProcOK(p)'
    BY <1>0, <1>1, <1>3, <2>1, <2>2, <2>4, <2>6, <2>7
       DEF ProcOK, Called, Fresh, Preparing, Applying, Undoing, Targeting, BodyPcs, TargetPcs, UndoPcs, runVars
  <2>. QED BY <1>0, <1>4, <1>9, <2>6, <2>8, TargetKept DEF budgetVars
<1>. QED BY <1>5, <1>6, <1>8, <1>9 DEF RestoreFile

LEMMA VerifyGitRestoredKept ==
  ASSUME Inv, NEW p \in Procs, VerifyGitRestored(p)
  PROVE  Kept(p)
<1>. DEFINE t == loc[p].txn
<1>0. /\ pc[p] = "git_restored" /\ pc[p] \in UndoPcs /\ pc[p] \in ManifestPcs
      /\ Goto(p, "rollback_end") /\ UNCHANGED <<workspaceVars, debris, lock, runVars, edits, crashes>>
      /\ faults' \in Nat
  BY DEF VerifyGitRestored, IoError, NoIoError, Inv, TypeOK, UndoPcs, ManifestPcs
<1>1. /\ t \in Txns /\ loc[p] \in Locals /\ lock = p /\ manifest[t] # None
  BY <1>0, Current
<1>2. /\ loc[p].restored \subseteq manifest[t].files /\ loc[p].undoing
      /\ ~loc[p].errors => loc[p].restored = manifest[t].files
  BY <1>0 DEF Inv, ProcOK, Undoing
<1>3. PICK failed \in BOOLEAN :
        (loc[p].errors => failed) /\ loc' = [loc EXCEPT ![p] = [loc[p] EXCEPT !.errors = failed]]
  <2>1. loc' = [loc EXCEPT ![p] = [loc[p] EXCEPT !.errors = loc[p].errors \/ ~GitRestored(t)]]
        \/ loc' = [loc EXCEPT ![p] = [loc[p] EXCEPT !.errors = TRUE]]
    BY DEF VerifyGitRestored
  <2>2. (loc[p].errors \/ ~GitRestored(t)) \in BOOLEAN /\ TRUE \in BOOLEAN
    OBVIOUS
  <2>. QED BY <2>1, <2>2
<1>. DEFINE l == [loc[p] EXCEPT !.errors = failed]
<1>4. l \in Locals
  BY <1>1, LocalFlags
<1>5. /\ l.txn = t /\ l.restored = loc[p].restored /\ l.state = loc[p].state /\ l.seq = loc[p].seq
  BY <1>1 DEF Locals
<1>6. (l.errors <=> failed) /\ (l.undoing <=> loc[p].undoing)
  <2>1. l.errors = failed BY <1>1 DEF Locals
  <2>2. l.undoing = loc[p].undoing BY <1>1 DEF Locals
  <2>. QED BY <2>1, <2>2
<1>7. loc' = [loc EXCEPT ![p] = l]
  BY <1>3
<1>. HIDE DEF l
<1>8. pc' \in [Procs -> Pcs] /\ pc'[p] = "rollback_end" /\ loc' \in [Procs -> Locals] /\ loc'[p] = l
  BY <1>0, <1>4, <1>7, LocalTypes DEF Inv, Pcs, RollbackPcs
<1>9. InSync(p)'
  BY <1>0, <1>1, <1>5, <1>8 DEF Inv, ProcOK, InSync, LastState, runVars, UndoPcs
<1>10. ProcOK(p)'
  BY <1>0, <1>1, <1>2, <1>3, <1>5, <1>6, <1>8, <1>9
     DEF ProcOK, Called, Fresh, Preparing, Applying, Undoing, Targeting, BodyPcs, TargetPcs, UndoPcs, runVars
<1>. QED BY <1>0, <1>8, <1>10, QuietKept DEF Inv, TypeOK

LEMMA RollbackEndKept ==
  ASSUME Inv, NEW p \in Procs, RollbackEnd(p)
  PROVE  Kept(p)
<1>. DEFINE t == loc[p].txn
            next == RollbackResult(loc[p])
<1>0. /\ pc[p] = "rollback_end" /\ pc[p] \in UndoPcs /\ pc[p] \in ManifestPcs /\ Goto(p, "report")
      /\ UNCHANGED <<workspaceVars, debris, lock, dirs, backups, manifest, edits, crashes>>
  BY DEF RollbackEnd, UndoPcs, ManifestPcs
<1>1. /\ t \in Txns /\ loc[p] \in Locals /\ lock = p /\ manifest[t] # None /\ manifest[t].files \subseteq Files
  BY <1>0, Current DEF Manifests
<1>2. /\ loc[p].restored \subseteq manifest[t].files
      /\ ~loc[p].errors => loc[p].restored = manifest[t].files
  BY <1>0 DEF Inv, ProcOK, Undoing
<1>3. next \in {"rolled_back", "rollback_failed"} /\ next \in States /\ loc[p].restored \in SUBSET Files
      /\ (next = "rolled_back" => ~loc[p].errors)
  BY <1>1, <1>2 DEF RollbackResult, States
<1>4. EventFilesOK([seq |-> loc[p].seq, state |-> next, files |-> loc[p].restored], manifest[t].files)
  <2>. HIDE DEF next
  <2>. QED BY <1>2, <1>3 DEF EventFilesOK
<1>5. /\ journal' \in [Txns -> Seq(Event)] /\ (\A u \in Txns : RunOK(u)') /\ faults' \in Nat
  <2>. HIDE DEF next
  <2>1. CASE TransitionFails(p, next, loc[p].restored)
    BY <1>0, <1>3, <2>1, TransitionFailsKept
  <2>2. CASE Transition(p, next, loc[p].restored)
    <3>1. /\ Publish(p, next, loc[p].restored) /\ UNCHANGED faults
          /\ ValidTransition(loc[p].state, next)
      BY <2>2 DEF Transition, NoIoError
    <3>2. faults' \in Nat BY <3>1 DEF Inv, TypeOK
    <3>. QED BY <1>0, <1>3, <1>4, <3>1, <3>2, PublishKept
  <2>. QED BY <2>1, <2>2 DEF RollbackEnd, next
<1>6. PICK l \in Locals : l.txn = t /\ loc' = [loc EXCEPT ![p] = l]
  <2>1. CASE loc' = [loc EXCEPT ![p] = [Advanced(loc[p], next) EXCEPT !.outcome = next]]
    <3>. DEFINE a == Advanced(loc[p], next)
    <3>1. a \in Locals /\ a.txn = t
      <4>. HIDE DEF next
      <4>. QED BY <1>1, <1>3, AdvancedType
    <3>. HIDE DEF a, next
    <3>2. [a EXCEPT !.outcome = next] \in Locals /\ [a EXCEPT !.outcome = next].txn = t
      BY <1>3, <3>1 DEF Locals
    <3>. QED BY <2>1, <3>2 DEF a
  <2>2. CASE loc' = [loc EXCEPT ![p] = [loc[p] EXCEPT !.outcome = "rollback_failed"]]
    <3>1. /\ [loc[p] EXCEPT !.outcome = "rollback_failed"] \in Locals
          /\ [loc[p] EXCEPT !.outcome = "rollback_failed"].txn = t
      BY <1>1 DEF Locals
    <3>. QED BY <2>2, <3>1
  <2>. QED BY <2>1, <2>2 DEF RollbackEnd
<1>7. pc' \in [Procs -> Pcs] /\ pc'[p] = "report" /\ loc' \in [Procs -> Locals] /\ loc'[p] = l
  BY <1>0, <1>6, LocalTypes DEF Inv, Pcs
<1>8. ProcOK(p)'
  BY <1>1, <1>6, <1>7 DEF ProcOK, Called, Fresh, Preparing, InSync, Applying, Undoing, Targeting, LockedPcs,
                          ManifestPcs, BodyPcs, TargetPcs, UndoPcs
<1>9. TypeOK'
  BY <1>0, <1>5, <1>7 DEF Inv, TypeOK, workspaceVars
<1>. QED BY <1>5, <1>8, <1>9 DEF Kept

(* A process that returns or dies forgets what it knew.                     *)
LEMMA IdleKept ==
  ASSUME Inv, NEW p \in Procs, Goto(p, "idle"), loc' = [loc EXCEPT ![p] = Idle]
  PROVE  pc' \in [Procs -> Pcs] /\ loc' \in [Procs -> Locals] /\ ProcOK(p)'
<1>1. pc' \in [Procs -> Pcs] /\ pc'[p] = "idle" /\ loc' \in [Procs -> Locals]
  BY IdleType, LocalTypes DEF Inv, Pcs
<1>. QED BY <1>1 DEF ProcOK, Called, Fresh, Preparing, InSync, Applying, Undoing, Targeting, LockedPcs,
                     ManifestPcs, BodyPcs, TargetPcs, UndoPcs

LEMMA ReturnKept ==
  ASSUME Inv, NEW p \in Procs, Return(p)
  PROVE  Kept(p)
BY IdleKept, QuietKept DEF Return, Inv, TypeOK, budgetVars

-----------------------------------------------------------------------------
(* The environment.                                                         *)

LEMMA CrashKept ==
  ASSUME Inv, NEW p \in Procs, Crash(p)
  PROVE  Kept(p)
<1>1. pc' \in [Procs -> Pcs] /\ loc' \in [Procs -> Locals] /\ ProcOK(p)'
  BY IdleKept DEF Crash
<1>2. debris' \in Nat /\ lock' \in Procs \union {None} /\ crashes' \in Nat
  BY DEF Crash, Inv, TypeOK
<1>3. TypeOK'
  BY <1>1, <1>2 DEF Crash, Inv, TypeOK, workspaceVars, runVars
<1>. QED BY <1>1, <1>3, RunsKept DEF Crash, Kept

LEMMA IoFailureKept ==
  ASSUME Inv, NEW p \in Procs, IoFailure(p)
  PROVE  Kept(p)
<1>0. /\ faults' \in Nat /\ debris' \in Nat
      /\ UNCHANGED <<workspaceVars, lock, backups, manifest, journal, edits, crashes>>
  BY DEF IoFailure, IoError, Inv, TypeOK
<1>1. CASE /\ pc[p] \in {"lock", "capture", "backup", "manifest", "rollback_lock", "inspect"}
           /\ ReturnError(p)
           /\ dirs' = dirs \/ dirs' = dirs \union {loc[p].txn}
  <2>1. loc[p].txn \in Txns
    BY <1>1 DEF Inv, ProcOK, Called
  <2>2. pc' \in [Procs -> Pcs] /\ loc' \in [Procs -> Locals] /\ ProcOK(p)'
    BY <1>1, ErrorKept
  <2>3. TypeOK'
    BY <1>0, <1>1, <2>1, <2>2 DEF Inv, TypeOK, workspaceVars
  <2>4. \A u \in Txns : RunOK(u)'
    BY <1>0, <1>1 DEF Inv, RunOK, BackupsOK
  <2>. QED BY <2>2, <2>3, <2>4 DEF Kept
<1>2. CASE pc[p] \in {"mutate", "verify", "git_check"} /\ Rollback(p) /\ UNCHANGED dirs
  <2>1. pc' \in [Procs -> Pcs] /\ loc' \in [Procs -> Locals] /\ ProcOK(p)'
    BY <1>0, <1>2, RollbackKept DEF BodyPcs
  <2>. QED BY <1>0, <1>2, <2>1, QuietKept DEF Inv, TypeOK, runVars
<1>3. CASE pc[p] \in {"staged", "publish", "confirm", "restore"} /\ TargetFails(p) /\ UNCHANGED dirs
  <2>1. pc' \in [Procs -> Pcs] /\ loc' \in [Procs -> Locals] /\ ProcOK(p)'
    BY <1>0, <1>3, TargetFailsKept DEF TargetPcs, runVars
  <2>. QED BY <1>0, <1>3, <2>1, QuietKept DEF Inv, TypeOK, runVars
<1>. QED BY <1>1, <1>2, <1>3 DEF IoFailure

(* What the user does is no part of what processes know.                    *)
LEMMA UserKept ==
  ASSUME Inv, (\E f \in Files, v \in Value : UserWrites(f, v)) \/ UserCommits
  PROVE  Inv'
<1>1. UNCHANGED <<modes, debris, lock, runVars, pc, loc, crashes, faults>>
  BY DEF UserWrites, UserCommits
<1>2. files' \in [Files -> Value] /\ head' \in [Files -> Value] /\ edits' \in Nat
  BY DEF UserWrites, UserCommits, Inv, TypeOK
<1>3. TypeOK'
  BY <1>1, <1>2 DEF Inv, TypeOK, runVars
<1>4. \A p \in Procs : ProcOK(p)'
  <2>. SUFFICES ASSUME NEW p \in Procs PROVE ProcOK(p)'
    OBVIOUS
  <2>1. Targeting(p)'
    <3>1. pc[p] = "publish" /\ ~RaceWindow => UNCHANGED files
      BY DEF UserWrites, UserCommits
    <3>. QED BY <1>1, <3>1 DEF Inv, ProcOK, Targeting, runVars
  <2>. QED
    BY <1>1, <2>1 DEF Inv, ProcOK, Called, Fresh, Preparing, InSync, Applying, Undoing, LastState, runVars
<1>. QED BY <1>1, <1>3, <1>4, RunsKept DEF Inv

LEMMA ActsKept ==
  ASSUME Inv, NEW p \in Procs, Acts(p)
  PROVE  Kept(p)
BY StartApplyKept, StartRollbackKept, AcquireLockKept, CreateRunKept, BackupFileKept, WriteManifestKept,
   PrepareKept, StartApplyingKept, ApplyMutationKept, VerifyAppliedKept, FinalizeKept, GitCheckKept,
   CommitKept, RecheckKept, PublishTargetKept, ConfirmKept, InspectKept, RollbackStartKept,
   RestoreFileKept, VerifyGitRestoredKept, RollbackEndKept, ReturnKept, IoFailureKept, CrashKept
   DEF Acts, Step

LEMMA InvNext == Inv /\ [Next]_vars => Inv'
<1>. SUFFICES ASSUME Inv, [Next]_vars PROVE Inv'
  OBVIOUS
<1>1. ASSUME NEW p \in Procs, Acts(p) PROVE Inv'
  <2>1. Kept(p)
    BY <1>1, ActsKept
  <2>2. \A q \in Procs : ProcOK(q)'
    BY <1>1, <2>1, OthersKept DEF Kept
  <2>. QED BY <2>1, <2>2 DEF Inv, Kept
<1>2. CASE (\E f \in Files, v \in Value : UserWrites(f, v)) \/ UserCommits
  BY <1>2, UserKept
<1>3. CASE UNCHANGED vars
  <2>1. TypeOK'
    BY <1>3 DEF vars, workspaceVars, runVars, budgetVars, Inv, TypeOK
  <2>2. \A p \in Procs : ProcOK(p)'
    BY <1>3 DEF vars, runVars, workspaceVars, Inv, ProcOK, Called, Fresh, Preparing, InSync, Applying, Undoing, Targeting, LastState
  <2>. QED BY <1>3, <2>1, <2>2, RunsKept DEF vars, Inv
<1>. QED BY <1>1, <1>2, <1>3 DEF Next, Acts

LEMMA InvAlways == Spec => []Inv
BY InvInit, InvNext, PTL DEF Spec

(* No interleaving of applications, rollbacks, recoveries, crashes, I/O     *)
(* errors, failed directory syncs and user edits takes the engine out of    *)
(* its state space.                                                         *)
THEOREM TypeCorrect == Spec => []TypeOK
<1>1. Inv => TypeOK
  BY DEF Inv
<1>. QED BY <1>1, InvAlways, PTL

(* If a directory sync does not fail after its rename, the journal on disk  *)
(* of every transaction is legal at every moment: TransactionJournal's      *)
(* in-memory state and sequence never part from the events on disk, because *)
(* a process works on a run only behind the workspace lock.                 *)
THEOREM JournalsValidHolds ==
  ASSUME ~SyncFaults
  PROVE  Spec => []JournalsValid
<1>1. Inv => JournalsValid
  BY DEF Inv, RunOK, JournalsValid
<1>. QED BY <1>1, InvAlways, PTL

-----------------------------------------------------------------------------
(* Writes to targets.                                                       *)

(* Only the rename or removal of PublishTarget writes, and only its target. *)
LEMMA OnlyPublishTarget ==
  ASSUME Inv, Next, NEW f \in Files, EngineWrites(f)
  PROVE  \E p \in Procs : /\ pc[p] = "publish" /\ f = loc[p].file /\ files'[f] = loc[p].to
<1>1. files'[f] # files[f] /\ edits' = edits /\ edits \in Nat
  BY DEF EngineWrites, Inv, TypeOK
<1>2. ~UserCommits /\ \A g \in Files, v \in Value : ~UserWrites(g, v)
  <2>1. edits' # edits + 1 BY <1>1
  <2>. QED BY <2>1 DEF UserCommits, UserWrites
<1>3. PICK p \in Procs : Acts(p)
  BY <1>2 DEF Next, Acts
<1>4. PublishTarget(p)
  <2>1. files' # files BY <1>1
  <2>. QED BY <1>3, <2>1
    DEF Acts, StartApply, StartRollback, Step, IoFailure, Crash, AcquireLock, CreateRun, BackupFile,
        WriteManifest, Prepare, StartApplying, ApplyMutation, VerifyApplied, Finalize, GitCheck,
        Commit, Recheck, Confirm, Inspect, RollbackStart, RestoreFile, VerifyGitRestored,
        RollbackEnd, Return, workspaceVars
<1>5. /\ pc[p] = "publish" /\ files' = [files EXCEPT ![loc[p].file] = loc[p].to]
      /\ files \in [Files -> Value]
  BY <1>4 DEF PublishTarget, Inv, TypeOK
<1>6. f = loc[p].file /\ files'[f] = loc[p].to
  BY <1>1, <1>5
<1>. QED BY <1>5, <1>6

(* If a directory sync does not fail after its rename, every write of the   *)
(* engine to the workspace happens under the lock, on a planned file of a   *)
(* transaction that the disk alone, at that very moment, suffices to roll   *)
(* back: manifest, verified backups, legal journal.  A crash can follow any *)
(* write.                                                                   *)
THEOREM WriteAheadHolds ==
  ASSUME ~SyncFaults
  PROVE  Spec => WriteAhead
<1>1. Inv /\ [Next]_vars => [\A f \in Files : EngineWrites(f) => JournalledWrite(f)]_vars
  <2>. SUFFICES ASSUME Inv, Next, NEW f \in Files, EngineWrites(f)
                PROVE  JournalledWrite(f)
    OBVIOUS
  <2>1. PICK p \in Procs : pc[p] = "publish" /\ f = loc[p].file
    BY OnlyPublishTarget
  <2>. DEFINE t == loc[p].txn
  <2>2. pc[p] \in TargetPcs /\ pc[p] \in ManifestPcs
    BY <2>1 DEF TargetPcs, ManifestPcs
  <2>3. lock = p /\ t \in Txns /\ manifest[t] # None /\ loc[p].state = LastState(t)
    BY <2>2, Current
  <2>4. f \in manifest[t].files /\ loc[p].state \notin {"none", "rolled_back"}
    BY <2>1, <2>2 DEF Inv, ProcOK, Applying, InSync
  <2>5. journal[t] # <<>> /\ LastState(t) # "rolled_back"
    BY <2>3, <2>4 DEF LastState
  <2>6. t \in dirs /\ BackupsOK(t) /\ JournalOK(journal[t], manifest[t].files)
    BY <2>3 DEF Inv, RunOK
  <2>. QED BY <2>3, <2>4, <2>5, <2>6 DEF JournalledWrite, InspectionValid
<1>. QED BY <1>1, InvAlways, PTL DEF Spec, WriteAhead

(* If nobody writes a target between its last check and its rename, the     *)
(* engine only ever exchanges the contents its manifest records: whatever   *)
(* crashes, I/O errors, failed syncs or concurrent operations happen, a     *)
(* content it did not plan is never overwritten nor written.                *)
THEOREM ForeignContentKeptHolds ==
  ASSUME ~RaceWindow
  PROVE  Spec => ForeignContentKept
<1>1. Inv /\ [Next]_vars => [\A f \in Files : EngineWrites(f) => OwnWrite(f)]_vars
  <2>. SUFFICES ASSUME Inv, Next, NEW f \in Files, EngineWrites(f)
                PROVE  OwnWrite(f)
    OBVIOUS
  <2>1. PICK p \in Procs : pc[p] = "publish" /\ f = loc[p].file /\ files'[f] = loc[p].to
    BY OnlyPublishTarget
  <2>2. pc[p] \in TargetPcs /\ pc[p] \in ManifestPcs
    BY <2>1 DEF TargetPcs, ManifestPcs
  <2>3. lock = p
    BY <2>2, Current
  <2>4. Targeting(p)
    BY DEF Inv, ProcOK
  <2>. QED BY <2>1, <2>2, <2>3, <2>4 DEF OwnWrite, Targeting
<1>. QED BY <1>1, InvAlways, PTL DEF Spec, ForeignContentKept

-----------------------------------------------------------------------------
(* What an operation reports.  With no edit of the user, the workspace is   *)
(* what the holder of the lock last found or made of it.                    *)

Restored(t, f) ==
  /\ files[f] = manifest[t].before[f]
  /\ manifest[t].before[f] # Absent => modes[f] = manifest[t].mode[f]

Reporting(p, outcome) == pc[p] = "report" /\ loc[p].outcome = outcome

(* The report is about the transaction on disk, and the lock is still held. *)
Settled(p) ==
  pc[p] = "report" /\ loc[p].outcome \in {"committed", "rolled_back"} =>
    /\ lock = p /\ manifest[loc[p].txn] # None
    /\ ~SyncFaults => journal[loc[p].txn] # <<>> /\ LastState(loc[p].txn) = loc[p].outcome

(* What the process has found or made of the workspace.                     *)
Found(p) ==
  LET t == loc[p].txn IN
  /\ pc[p] = "commit" \/ Reporting(p, "committed") => MutationsApplied(t)
  /\ pc[p] = "confirm" => files[loc[p].file] = loc[p].to
  /\ pc[p] \in {"restore", "git_restored", "rollback_end"} \/ (pc[p] \in TargetPcs /\ loc[p].undoing) =>
       \A f \in loc[p].restored : Restored(t, f)
  /\ pc[p] = "rollback_end" /\ ~loc[p].errors => GitRestored(t)
  /\ Reporting(p, "rolled_back") => FilesRestored(t) /\ GitRestored(t)

(* What p knows of its own, as the edits of the user leave it.              *)
Knowing(p) == Settled(p) /\ (edits = 0 => Found(p))

(* Behind the lock, nobody else changes the workspace.                      *)
LEMMA OutsideTheLock ==
  ASSUME TypeOK, NEW p \in Procs, Acts(p)
  PROVE  /\ edits' = edits
         /\ pc[p] \notin LockedPcs => UNCHANGED <<files, modes, head, debris, manifest, journal>>
<1>1. edits' = edits
  BY DEF Acts, StartApply, StartRollback, Step, IoFailure, Crash, AcquireLock, CreateRun, BackupFile,
         WriteManifest, Prepare, StartApplying, ApplyMutation, VerifyApplied, Finalize, GitCheck,
         Commit, Recheck, PublishTarget, Confirm, Inspect, RollbackStart, RestoreFile,
         VerifyGitRestored, RollbackEnd, Return, budgetVars
<1>2. pc[p] \notin LockedPcs => UNCHANGED <<files, modes, head, debris, manifest, journal>>
  BY DEF Acts, StartApply, StartRollback, Step, IoFailure, Crash, AcquireLock, CreateRun, BackupFile,
         WriteManifest, Prepare, StartApplying, ApplyMutation, VerifyApplied, Finalize, GitCheck,
         Commit, Recheck, PublishTarget, Confirm, Inspect, RollbackStart, RestoreFile,
         VerifyGitRestored, RollbackEnd, Return, LockedPcs, ManifestPcs, BodyPcs, UndoPcs, TargetPcs,
         runVars, workspaceVars, HoldsTemp
<1>. QED BY <1>1, <1>2

(* Only the holder of the lock has a temporary in the workspace.            *)
LEMMA NoTemporary ==
  ASSUME Inv, NEW p \in Procs, lock = p, pc[p] \notin {"staged", "publish"}
  PROVE  \A q \in Procs : ~HoldsTemp(q)
BY DEF Inv, ProcOK, HoldsTemp, LockedPcs, ManifestPcs, TargetPcs

(* So Git answers the same as long as files, HEAD and leftovers are.        *)
LEMMA GitUnchanged ==
  ASSUME Inv, Inv', NEW p \in Procs, lock = p, lock' = p,
         pc[p] \notin {"staged", "publish"}, pc'[p] \notin {"staged", "publish"},
         UNCHANGED <<files, head, debris>>
  PROVE  UNCHANGED GitStatus
<1>1. \A q \in Procs : ~HoldsTemp(q)
  BY NoTemporary
<1>2. \A q \in Procs : ~HoldsTemp(q)'
  BY DEF Inv, ProcOK, HoldsTemp, LockedPcs, ManifestPcs, TargetPcs
<1>. QED BY <1>1, <1>2 DEF GitStatus

(* The step of another process leaves what p knows as it is.                *)
LEMMA OthersKnowing ==
  ASSUME Inv, Inv', NEW q \in Procs, Acts(q), NEW p \in Procs, p # q, Knowing(p)
  PROVE  Knowing(p)'
<1>1. /\ pc'[p] = pc[p] /\ loc'[p] = loc[p] /\ edits' = edits /\ None \notin Procs
      /\ ProcOK(p) /\ ProcOK(q)
  BY ActsFrame, OutsideTheLock, ConstantsAssumption DEF Inv
<1>2. CASE lock = p
  <2>1. lock' = p /\ pc[q] \notin LockedPcs
    BY <1>1, <1>2, ActsFrame DEF Inv, ProcOK
  <2>2. UNCHANGED <<files, modes, head, debris, manifest, journal>>
    BY <2>1, OutsideTheLock DEF Inv
  <2>3. pc[p] \notin {"staged", "publish"} => UNCHANGED GitStatus
    BY <1>1, <1>2, <2>1, <2>2, GitUnchanged
  <2>4. Settled(p)'
    BY <1>1, <1>2, <2>1, <2>2 DEF Knowing, Settled, LastState
  <2>5. Found(p) => Found(p)'
    BY <1>1, <2>2, <2>3 DEF Found, Reporting, Restored, MutationsApplied, FilesRestored, GitRestored
  <2>. QED BY <1>1, <2>4, <2>5 DEF Knowing
<1>3. CASE lock # p
  <2>1. pc[p] \notin LockedPcs /\ ~(pc[p] = "report" /\ loc[p].outcome \in {"committed", "rolled_back"})
    BY <1>1, <1>3 DEF ProcOK, Knowing, Settled
  <2>. QED
    BY <1>1, <2>1 DEF Knowing, Settled, Found, Reporting, LockedPcs, ManifestPcs, BodyPcs, UndoPcs, TargetPcs
<1>. QED BY <1>2, <1>3

-----------------------------------------------------------------------------
(* The steps of p itself.  Most lead to a point where nothing is known yet. *)
UnknowingPcs == {"idle", "lock", "rollback_lock", "capture", "inspect", "backup", "manifest", "prepared",
                 "applying", "mutate", "verify", "finalize", "git_check", "rollback_start"}

LEMMA NothingKnown ==
  ASSUME NEW p \in Procs,
         \/ pc'[p] \in UnknowingPcs
         \/ pc'[p] = "report" /\ loc'[p].outcome \notin {"committed", "rolled_back"}
         \/ pc'[p] \in {"staged", "publish"} /\ ~loc'[p].undoing
  PROVE  Knowing(p)'
BY DEF Knowing, Settled, Found, Reporting, UnknowingPcs, TargetPcs

LEMMA ErrorKnowing ==
  ASSUME Inv, NEW p \in Procs, ReturnError(p)
  PROVE  Knowing(p)'
<1>1. pc'[p] = "report" /\ loc'[p].outcome = "error"
  BY DEF ReturnError, Goto, Inv, TypeOK, Locals
<1>. QED BY <1>1, NothingKnown

LEMMA RollbackKnowing ==
  ASSUME Inv, NEW p \in Procs, Rollback(p)
  PROVE  Knowing(p)'
<1>1. pc'[p] = "rollback_start"
  BY DEF Rollback, Goto, Inv, TypeOK
<1>. QED BY <1>1, NothingKnown DEF UnknowingPcs

LEMMA IdleKnowing ==
  ASSUME Inv, NEW p \in Procs, Goto(p, "idle")
  PROVE  Knowing(p)'
<1>1. pc'[p] = "idle"
  BY DEF Goto, Inv, TypeOK
<1>. QED BY <1>1, NothingKnown DEF UnknowingPcs

(* The preparation, and the entry of every operation.                       *)
LEMMA PreparationKnowing ==
  ASSUME Inv, NEW p \in Procs,
         \/ \E t \in Txns, req \in Requests : StartApply(p, t, req)
         \/ \E t \in Txns, op \in {"undo", "recover"} : StartRollback(p, t, op)
         \/ AcquireLock(p) \/ CreateRun(p) \/ BackupFile(p) \/ WriteManifest(p) \/ Prepare(p)
  PROVE  Knowing(p)'
<1>1. CASE ReturnError(p)
  BY <1>1, ErrorKnowing
<1>2. CASE ~ReturnError(p)
  <2>1. pc'[p] \in {"lock", "rollback_lock", "capture", "inspect", "backup", "manifest", "prepared", "applying"}
    BY <1>2 DEF StartApply, StartRollback, AcquireLock, CreateRun, BackupFile, WriteManifest, Prepare,
                Goto, Inv, TypeOK
  <2>. QED BY <2>1, NothingKnown DEF UnknowingPcs
<1>. QED BY <1>1, <1>2

(* The body: nothing is known of the workspace before the last check.       *)
LEMMA BodyKnowing ==
  ASSUME Inv, NEW p \in Procs,
         StartApplying(p) \/ ApplyMutation(p) \/ VerifyApplied(p) \/ Finalize(p)
  PROVE  Knowing(p)'
<1>1. CASE Rollback(p)
  BY <1>1, RollbackKnowing
<1>2. CASE ~Rollback(p) /\ ~ApplyMutation(p)
  <2>1. pc'[p] \in {"mutate", "finalize", "git_check"}
    BY <1>2 DEF StartApplying, VerifyApplied, Finalize, BodyTransition, Goto, Inv, TypeOK
  <2>. QED BY <2>1, NothingKnown DEF UnknowingPcs
<1>3. CASE ~Rollback(p) /\ ApplyMutation(p)
  <2>1. pc[p] = "mutate" /\ ~loc[p].undoing
    BY <1>3 DEF ApplyMutation, Inv, ProcOK, Applying, BodyPcs
  <2>2. pc'[p] \in {"verify", "staged"}
    BY <1>3 DEF ApplyMutation, Goto, Inv, TypeOK
  <2>3. loc'[p].undoing = loc[p].undoing
    <3> PICK m : m = manifest[loc[p].txn]
      OBVIOUS
    <3>1. loc' = loc \/ \E f : loc' = [loc EXCEPT ![p].file = f, ![p].from = m.before[f],
                                                  ![p].to = m.after[f]]
      BY <1>3 DEF ApplyMutation
    <3>2. loc \in [Procs -> Locals]
      BY DEF Inv, TypeOK
    <3>3. ASSUME NEW f, loc' = [loc EXCEPT ![p].file = f, ![p].from = m.before[f],
                                           ![p].to = m.after[f]]
          PROVE  loc'[p].undoing = loc[p].undoing
      <4> PICK a, b : a = m.before[f] /\ b = m.after[f]
        OBVIOUS
      <4>1. loc' = [loc EXCEPT ![p].file = f, ![p].from = a, ![p].to = b]
        BY <3>3
      <4>. QED BY <3>2, <4>1 DEF Locals
    <3>. QED BY <3>1, <3>3
  <2>. QED BY <2>1, <2>2, <2>3, NothingKnown DEF UnknowingPcs
<1>. QED BY <1>1, <1>2, <1>3

LEMMA GitCheckKnowing ==
  ASSUME Inv, NEW p \in Procs, GitCheck(p)
  PROVE  Knowing(p)'
<1>1. CASE Rollback(p)
  BY <1>1, RollbackKnowing
<1>2. CASE MutationsApplied(loc[p].txn) /\ Goto(p, "commit") /\ UNCHANGED loc
  <2>1. pc'[p] = "commit" /\ UNCHANGED <<files, manifest>>
    BY <1>2 DEF GitCheck, Goto, Inv, TypeOK, workspaceVars, runVars
  <2>2. loc'[p] = loc[p]
    BY <1>2
  <2>. QED BY <1>2, <2>1, <2>2 DEF Knowing, Settled, Found, Reporting, MutationsApplied, TargetPcs
<1>. QED BY <1>1, <1>2 DEF GitCheck

(* A journal transition that succeeds leaves its state on disk.             *)
LEMMA TransitionPublished ==
  ASSUME Inv, NEW p \in Procs, NEW next \in States, NEW named \in SUBSET Files,
         pc[p] \in ManifestPcs, Transition(p, next, named), UNCHANGED <<dirs, backups, manifest>>,
         EventFilesOK([seq |-> loc[p].seq, state |-> next, files |-> named], manifest[loc[p].txn].files)
  PROVE  /\ journal'[loc[p].txn] # <<>>
         /\ journal'[loc[p].txn][Len(journal'[loc[p].txn])].state = next
<1>1. Publish(p, next, named) /\ ValidTransition(loc[p].state, next)
  BY DEF Transition
<1>. QED BY <1>1, PublishKept

LEMMA CommitKnowing ==
  ASSUME Inv, NEW p \in Procs, Commit(p), Knowing(p)
  PROVE  Knowing(p)'
<1>. DEFINE t == loc[p].txn
            next == "committed"
            l == [Advanced(loc[p], next) EXCEPT !.file = 0, !.outcome = "committed"]
<1>0. /\ pc[p] = "commit" /\ pc[p] \in ManifestPcs
      /\ UNCHANGED <<files, modes, head, debris, lock, dirs, backups, manifest, edits>>
  BY DEF Commit, ManifestPcs, BodyPcs, workspaceVars
<1>1. /\ t \in Txns /\ loc[p] \in Locals /\ lock = p /\ manifest[t] # None /\ manifest[t].files \subseteq Files
  BY <1>0, Current DEF Manifests
<1>2. CASE Rollback(p)
  BY <1>2, RollbackKnowing
<1>3. CASE Transition(p, next, loc[p].modified) /\ loc' = [loc EXCEPT ![p] = l] /\ Goto(p, "report")
  <2>1. loc[p].modified = manifest[t].files
    BY <1>0 DEF Inv, ProcOK, Applying
  <2>2. EventFilesOK([seq |-> loc[p].seq, state |-> next, files |-> loc[p].modified], manifest[t].files)
    BY <2>1 DEF EventFilesOK
  <2>3. journal'[t] # <<>> /\ journal'[t][Len(journal'[t])].state = "committed"
    BY <1>0, <1>1, <1>3, <2>1, <2>2, TransitionPublished DEF States
  <2>4. l.txn = t /\ l.outcome = "committed"
    <3>. DEFINE a == Advanced(loc[p], next)
    <3>1. a \in Locals /\ a.txn = t
      BY <1>1, AdvancedType DEF States
    <3>. HIDE DEF a
    <3>2. [a EXCEPT !.file = 0, !.outcome = "committed"].txn = a.txn
      BY <3>1 DEF Locals
    <3>3. [a EXCEPT !.file = 0, !.outcome = "committed"].outcome = "committed"
      BY <3>1 DEF Locals
    <3>. QED BY <3>1, <3>2, <3>3 DEF a
  <2>. HIDE DEF l
  <2>5. pc'[p] = "report" /\ loc'[p] = l
    BY <1>3 DEF Goto, Inv, TypeOK
  <2>6. Settled(p)'
    BY <1>0, <1>1, <2>3, <2>4, <2>5 DEF Settled, LastState
  <2>7. edits = 0 => MutationsApplied(t)
    BY <1>0 DEF Knowing, Found
  <2>8. edits' = 0 => Found(p)'
    BY <1>0, <2>4, <2>5, <2>7 DEF Found, Reporting, MutationsApplied, TargetPcs
  <2>. QED BY <2>6, <2>8 DEF Knowing
<1>. QED BY <1>2, <1>3 DEF Commit, BodyTransition

-----------------------------------------------------------------------------
(* Restoring.  What has been restored stays so until the report.            *)

(* The files that p has restored, at any point of its loop.                 *)
LEMMA RestoredSoFar ==
  ASSUME NEW p \in Procs, Knowing(p), edits = 0,
         pc[p] \in {"restore", "git_restored", "rollback_end"} \/ (pc[p] \in TargetPcs /\ loc[p].undoing)
  PROVE  \A f \in loc[p].restored :
           /\ files[f] = manifest[loc[p].txn].before[f]
           /\ manifest[loc[p].txn].before[f] # Absent => modes[f] = manifest[loc[p].txn].mode[f]
BY DEF Knowing, Found, Restored

(* In the loop, what is to be known is what is restored.                    *)
LEMMA RestoringKnowing ==
  ASSUME NEW p \in Procs, pc'[p] \in {"restore", "git_restored", "staged", "publish"},
         loc'[p].txn = loc[p].txn, UNCHANGED <<manifest, edits>>,
         edits = 0 =>
           \A f \in loc'[p].restored :
             /\ files'[f] = manifest[loc[p].txn].before[f]
             /\ manifest[loc[p].txn].before[f] # Absent => modes'[f] = manifest[loc[p].txn].mode[f]
  PROVE  Knowing(p)'
BY DEF Knowing, Settled, Found, Reporting, Restored, TargetPcs

(* An error on a target leaves what was restored before it.                 *)
LEMMA TargetFailsKnowing ==
  ASSUME Inv, NEW p \in Procs, TargetFails(p), pc[p] \in TargetPcs \union {"restore"},
         Knowing(p), UNCHANGED <<manifest, edits>>,
         \A f \in loc[p].restored : loc[p].undoing => files'[f] = files[f] /\ modes'[f] = modes[f]
  PROVE  Knowing(p)'
<1>1. CASE Rollback(p)
  BY <1>1, RollbackKnowing
<1>2. CASE loc[p].undoing /\ Goto(p, "git_restored") /\ loc' = [loc EXCEPT ![p].errors = TRUE]
  <2>1. pc'[p] = "git_restored" /\ loc'[p].txn = loc[p].txn /\ loc'[p].restored = loc[p].restored
    BY <1>2 DEF Goto, Inv, TypeOK, Locals
  <2>. QED BY <1>2, <2>1, RestoredSoFar, RestoringKnowing
<1>. QED BY <1>1, <1>2 DEF TargetFails

(* The target being worked on is not among the restored.                    *)
LEMMA TargetNotRestored ==
  ASSUME Inv, NEW p \in Procs, pc[p] \in TargetPcs, loc[p].undoing
  PROVE  loc[p].file \notin loc[p].restored
<1>. DEFINE t == loc[p].txn
<1>1. /\ loc[p].file \in manifest[t].files /\ manifest[t].files \subseteq Files /\ Files \subseteq Int
      /\ loc[p].restored = {g \in manifest[t].files : g > loc[p].file}
  BY Current, ConstantsAssumption DEF Inv, ProcOK, Applying, Undoing, Manifests, ManifestPcs, Files
<1>2. ~(loc[p].file > loc[p].file)
  <2>1. loc[p].file \in Int BY <1>1
  <2>. QED BY <2>1
<1>. QED BY <1>1, <1>2

LEMMA RecheckKnowing ==
  ASSUME Inv, NEW p \in Procs, Recheck(p), Knowing(p)
  PROVE  Knowing(p)'
<1>0. pc[p] = "staged" /\ pc[p] \in TargetPcs /\ UNCHANGED <<files, modes, manifest, edits>>
  BY DEF Recheck, TargetPcs, workspaceVars, runVars, budgetVars
<1>1. CASE TargetFails(p)
  BY <1>0, <1>1, TargetFailsKnowing
<1>2. CASE Goto(p, "publish") /\ UNCHANGED loc
  <2>1. pc'[p] = "publish" /\ loc'[p] = loc[p]
    BY <1>2 DEF Goto, Inv, TypeOK
  <2>2. CASE loc[p].undoing
    BY <1>0, <2>1, <2>2, RestoredSoFar, RestoringKnowing
  <2>3. CASE ~loc[p].undoing
    BY <2>1, <2>3, NothingKnown
  <2>. QED BY <2>2, <2>3
<1>. QED BY <1>1, <1>2 DEF Recheck

LEMMA PublishTargetKnowing ==
  ASSUME Inv, NEW p \in Procs, PublishTarget(p), Knowing(p)
  PROVE  Knowing(p)'
<1>. DEFINE f == loc[p].file
<1>0. /\ pc[p] = "publish" /\ pc[p] \in TargetPcs /\ pc[p] \in ManifestPcs /\ UNCHANGED <<manifest, edits>>
      /\ files' = [files EXCEPT ![f] = loc[p].to]
      /\ modes' = IF loc[p].to = Absent THEN modes ELSE [modes EXCEPT ![f] = "temp"]
  BY DEF PublishTarget, TargetPcs, ManifestPcs, runVars
<1>1. loc[p].undoing => f \notin loc[p].restored
  BY <1>0, TargetNotRestored
<1>2. /\ f \in Files /\ files \in [Files -> Value] /\ modes \in [Files -> {"own", "temp"}]
      /\ loc[p].restored \subseteq Files
  BY <1>0, Current DEF Inv, ProcOK, Applying, Manifests, TypeOK, Locals
<1>3. /\ files'[f] = loc[p].to
      /\ \A g \in loc[p].restored : g # f => files'[g] = files[g] /\ modes'[g] = modes[g]
  BY <1>0, <1>2
<1>. HIDE DEF f
<1>4. CASE TargetFails(p)
  BY <1>0, <1>1, <1>3, <1>4, TargetFailsKnowing
<1>5. CASE Goto(p, "confirm") /\ UNCHANGED loc
  <2>1. pc'[p] = "confirm" /\ loc'[p] = loc[p]
    BY <1>5 DEF Goto, Inv, TypeOK
  <2>2. edits = 0 /\ loc[p].undoing =>
          \A g \in loc[p].restored :
            /\ files'[g] = manifest[loc[p].txn].before[g]
            /\ manifest[loc[p].txn].before[g] # Absent => modes'[g] = manifest[loc[p].txn].mode[g]
    BY <1>0, <1>1, <1>3, RestoredSoFar
  <2>. QED BY <1>0, <1>3, <2>1, <2>2 DEF f, Knowing, Settled, Found, Reporting, Restored, TargetPcs
<1>. QED BY <1>4, <1>5 DEF PublishTarget

LEMMA ConfirmKnowing ==
  ASSUME Inv, NEW p \in Procs, Confirm(p), Knowing(p)
  PROVE  Knowing(p)'
<1>. DEFINE t == loc[p].txn
            m == manifest[t]
            f == loc[p].file
<1>0. /\ pc[p] = "confirm" /\ pc[p] \in TargetPcs /\ pc[p] \in ManifestPcs
      /\ UNCHANGED <<files, manifest, edits>>
      /\ modes' = IF files[f] # Absent /\ loc[p].to # Absent /\ m.before[f] # Absent
                  THEN [modes EXCEPT ![f] = m.mode[f]] ELSE modes
  BY DEF Confirm, TargetPcs, ManifestPcs, runVars, budgetVars
<1>1. loc[p].undoing => f \notin loc[p].restored
  BY <1>0, TargetNotRestored
<1>2. /\ f \in Files /\ modes \in [Files -> {"own", "temp"}] /\ loc[p].restored \subseteq Files
  BY <1>0, Current DEF Inv, ProcOK, Applying, Manifests, TypeOK, Locals
<1>3. \A g \in loc[p].restored : g # f => modes'[g] = modes[g]
  BY <1>0, <1>2
<1>4. CASE TargetFails(p)
  BY <1>0, <1>1, <1>3, <1>4, TargetFailsKnowing
<1>5. CASE Goto(p, "mutate")
  <2>1. pc'[p] = "mutate"
    BY <1>5 DEF Goto, Inv, TypeOK
  <2>. QED BY <2>1, NothingKnown DEF UnknowingPcs
<1>6. CASE loc[p].undoing /\ loc' = [loc EXCEPT ![p].restored = @ \union {f}] /\ Goto(p, "restore")
  <2>1. pc'[p] = "restore" /\ loc'[p].txn = t /\ loc'[p].restored = loc[p].restored \union {f}
    BY <1>6 DEF Goto, Inv, TypeOK, Locals
  <2>2. edits = 0 => files[f] = m.before[f] /\ loc[p].to = m.before[f]
    BY <1>0, <1>6 DEF Knowing, Found, Inv, ProcOK, Targeting
  <2>3. edits = 0 /\ m.before[f] # Absent => modes'[f] = m.mode[f]
    BY <1>0, <1>2, <2>2
  <2>4. edits = 0 =>
          \A g \in loc[p].restored : files[g] = m.before[g] /\ (m.before[g] # Absent => modes'[g] = m.mode[g])
    BY <1>0, <1>1, <1>3, <1>6, RestoredSoFar
  <2>. QED BY <1>0, <2>1, <2>2, <2>3, <2>4, RestoringKnowing
<1>. QED BY <1>4, <1>5, <1>6 DEF Confirm

(* A rollback starts with nothing restored.                                 *)
LEMMA RollbackStartKnowing ==
  ASSUME Inv, NEW p \in Procs, RollbackStart(p)
  PROVE  Knowing(p)'
<1>0. /\ pc[p] = "rollback_start" /\ pc[p] \in ManifestPcs /\ pc'[p] = "restore"
      /\ UNCHANGED <<manifest, edits>>
  BY DEF RollbackStart, ManifestPcs, UndoPcs, Goto, Inv, TypeOK
<1>1. loc[p] \in Locals /\ "rollback_started" \in States
  BY LocalTypes DEF Inv, States
<1>2. PICK l \in Locals, failed \in BOOLEAN :
        /\ l.txn = loc[p].txn
        /\ loc' = [loc EXCEPT ![p] = [l EXCEPT !.file = NFiles + 1, !.restored = {}, !.errors = failed]]
  BY <1>1, AdvancedType DEF RollbackStart
<1>. DEFINE r == [l EXCEPT !.file = NFiles + 1, !.restored = {}, !.errors = failed]
<1>3. r.txn = loc[p].txn /\ r.restored = {}
  BY <1>2 DEF Locals
<1>4. loc'[p] = r
  BY <1>2 DEF Inv, TypeOK
<1>. HIDE DEF r
<1>. QED BY <1>0, <1>3, <1>4, RestoringKnowing

LEMMA RestoreFileKnowing ==
  ASSUME Inv, NEW p \in Procs, RestoreFile(p), Knowing(p)
  PROVE  Knowing(p)'
<1>. DEFINE t == loc[p].txn
            m == manifest[t]
            pending == {g \in m.files : g < loc[p].file}
<1>0. /\ pc[p] = "restore" /\ pc[p] \in ManifestPcs /\ UNCHANGED <<files, manifest, edits>>
      /\ loc[p] \in Locals
  BY LocalTypes DEF RestoreFile, UndoPcs, ManifestPcs, runVars, budgetVars, Inv
<1>1. m.files \subseteq Files /\ modes \in [Files -> {"own", "temp"}] /\ loc[p].restored \subseteq Files
  BY <1>0, Current DEF Manifests, Inv, TypeOK, Locals
<1>2. CASE Goto(p, "git_restored") /\ UNCHANGED <<loc, modes>>
  <2>1. pc'[p] = "git_restored" /\ loc'[p] = loc[p]
    BY <1>2 DEF Goto, Inv, TypeOK
  <2>. QED BY <1>0, <1>2, <2>1, RestoredSoFar, RestoringKnowing
<1>3. CASE TargetFails(p) /\ UNCHANGED modes
  BY <1>0, <1>3, TargetFailsKnowing
<1>4. ASSUME NEW f \in pending, AlreadyRestored(m, f), modes' = ModeRestored(m, f),
             loc' = [loc EXCEPT ![p].file = f, ![p].restored = @ \union {f}], UNCHANGED pc
      PROVE  Knowing(p)'
  <2>. DEFINE l == [loc[p] EXCEPT !.file = f, !.restored = loc[p].restored \union {f}]
  <2>1. l.txn = t /\ l.restored = loc[p].restored \union {f}
    BY <1>0 DEF Locals
  <2>2. loc'[p] = l
    BY <1>4 DEF Inv, TypeOK
  <2>. HIDE DEF l
  <2>3. f \in Files /\ files[f] = m.before[f]
    BY <1>1, <1>4 DEF AlreadyRestored
  <2>4. m.before[f] # Absent => modes'[f] = m.mode[f]
    BY <1>1, <1>4, <2>3 DEF ModeRestored
  <2>5. \A g \in loc[p].restored : g # f => modes'[g] = modes[g]
    BY <1>1, <1>4, <2>3 DEF ModeRestored
  <2>6. edits = 0 =>
          \A g \in loc[p].restored : files[g] = m.before[g] /\ (m.before[g] # Absent => modes'[g] = m.mode[g])
    BY <1>0, <2>4, <2>5, RestoredSoFar
  <2>. QED BY <1>0, <1>4, <2>1, <2>2, <2>3, <2>4, <2>6, RestoringKnowing
<1>5. ASSUME NEW f \in pending, UNCHANGED modes, Goto(p, "staged"),
             loc' = [loc EXCEPT ![p].file = f, ![p].from = m.after[f],
                                ![p].to = RestoredContent(t, f)]
      PROVE  Knowing(p)'
  <2>. DEFINE l == [loc[p] EXCEPT !.file = f, !.from = m.after[f], !.to = RestoredContent(t, f)]
  <2>1. l.txn = t /\ l.restored = loc[p].restored
    BY <1>0 DEF Locals
  <2>2. loc'[p] = l /\ pc'[p] = "staged"
    BY <1>5 DEF Goto, Inv, TypeOK
  <2>. HIDE DEF l
  <2>. QED BY <1>0, <1>5, <2>1, <2>2, RestoredSoFar, RestoringKnowing
<1>. QED BY <1>2, <1>3, <1>4, <1>5 DEF RestoreFile

(* An error recorded is never forgotten, so that no error means that every  *)
(* step of the rollback succeeded, the comparison with Git included.        *)
LEMMA VerifyGitRestoredKnowing ==
  ASSUME Inv, Inv', NEW p \in Procs, VerifyGitRestored(p), Knowing(p)
  PROVE  Knowing(p)'
<1>. DEFINE t == loc[p].txn
<1>0. /\ pc[p] = "git_restored" /\ pc[p] \in ManifestPcs /\ pc'[p] = "rollback_end"
      /\ UNCHANGED <<files, modes, head, debris, lock, manifest, edits>>
  BY DEF VerifyGitRestored, UndoPcs, ManifestPcs, workspaceVars, runVars, Goto, Inv, TypeOK
<1>1. lock = p /\ loc[p] \in Locals
  BY <1>0, Current
<1>2. UNCHANGED GitStatus
  BY <1>0, <1>1, GitUnchanged
<1>3. PICK failed \in BOOLEAN :
        (~GitRestored(t) => failed) /\ loc' = [loc EXCEPT ![p] = [loc[p] EXCEPT !.errors = failed]]
  <2>1. loc' = [loc EXCEPT ![p] = [loc[p] EXCEPT !.errors = loc[p].errors \/ ~GitRestored(t)]]
        \/ loc' = [loc EXCEPT ![p] = [loc[p] EXCEPT !.errors = TRUE]]
    BY DEF VerifyGitRestored
  <2>2. (loc[p].errors \/ ~GitRestored(t)) \in BOOLEAN /\ TRUE \in BOOLEAN
    OBVIOUS
  <2>. QED BY <2>1, <2>2
<1>. DEFINE l == [loc[p] EXCEPT !.errors = failed]
<1>4. l.txn = t /\ l.restored = loc[p].restored
  BY <1>1 DEF Locals
<1>5. l.errors = failed
  BY <1>1 DEF Locals
<1>6. loc'[p] = l
  BY <1>3 DEF Inv, TypeOK
<1>. HIDE DEF l
<1>7. Settled(p)'
  BY <1>0 DEF Settled
<1>8. edits = 0 =>
        \A f \in loc[p].restored :
          /\ files[f] = manifest[t].before[f]
          /\ manifest[t].before[f] # Absent => modes[f] = manifest[t].mode[f]
  BY <1>0, RestoredSoFar
<1>9. ~loc'[p].errors => GitRestored(t)
  BY <1>3, <1>5, <1>6
<1>10. edits' = 0 => Found(p)'
  BY <1>0, <1>2, <1>4, <1>6, <1>8, <1>9 DEF Found, Reporting, Restored, GitRestored, TargetPcs
<1>. QED BY <1>7, <1>10 DEF Knowing

LEMMA RollbackEndKnowing ==
  ASSUME Inv, Inv', NEW p \in Procs, RollbackEnd(p), Knowing(p)
  PROVE  Knowing(p)'
<1>. DEFINE t == loc[p].txn
            next == RollbackResult(loc[p])
<1>0. /\ pc[p] = "rollback_end" /\ pc[p] \in ManifestPcs /\ pc'[p] = "report"
      /\ UNCHANGED <<files, modes, head, debris, lock, dirs, backups, manifest, edits>>
  BY DEF RollbackEnd, UndoPcs, ManifestPcs, workspaceVars, Goto, Inv, TypeOK
<1>1. /\ t \in Txns /\ loc[p] \in Locals /\ lock = p /\ manifest[t] # None /\ manifest[t].files \subseteq Files
  BY <1>0, Current DEF Manifests
<1>2. UNCHANGED GitStatus
  BY <1>0, <1>1, GitUnchanged
<1>3. /\ loc[p].restored \subseteq manifest[t].files
      /\ ~loc[p].errors => loc[p].restored = manifest[t].files
  BY <1>0 DEF Inv, ProcOK, Undoing
<1>4. /\ next \in {"rolled_back", "rollback_failed"} /\ next \in States
      /\ next = "rolled_back" => ~loc[p].errors
  BY DEF RollbackResult, States
<1>. HIDE DEF next
<1>5. CASE /\ Transition(p, next, loc[p].restored)
           /\ loc' = [loc EXCEPT ![p] = [Advanced(loc[p], next) EXCEPT !.outcome = next]]
  <2>. DEFINE a == Advanced(loc[p], next)
              l == [a EXCEPT !.outcome = next]
  <2>1. a \in Locals /\ a.txn = t
    BY <1>1, <1>4, AdvancedType
  <2>2. loc'[p] = l
    BY <1>5 DEF Inv, TypeOK
  <2>. HIDE DEF a
  <2>3. l.txn = t /\ l.outcome = next
    BY <2>1 DEF Locals
  <2>. HIDE DEF l
  <2>4. CASE next # "rolled_back"
    BY <1>0, <1>4, <2>2, <2>3, <2>4, NothingKnown
  <2>5. CASE next = "rolled_back"
    <3>1. loc[p].restored = manifest[t].files /\ ~loc[p].errors
      BY <1>3, <1>4, <2>5
    <3>2. EventFilesOK([seq |-> loc[p].seq, state |-> next, files |-> loc[p].restored], manifest[t].files)
      BY <2>5, <3>1 DEF EventFilesOK
    <3>3. journal'[t] # <<>> /\ journal'[t][Len(journal'[t])].state = next
      BY <1>0, <1>1, <1>3, <1>4, <1>5, <3>2, TransitionPublished
    <3>4. Settled(p)'
      BY <1>0, <1>1, <2>2, <2>3, <3>3 DEF Settled, LastState
    <3>5. edits = 0 => FilesRestored(t) /\ GitRestored(t)
      BY <1>0, <3>1 DEF Knowing, Found, Restored, FilesRestored
    <3>6. edits' = 0 => Found(p)'
      BY <1>0, <1>2, <2>2, <2>3, <2>5, <3>5
         DEF Found, Reporting, FilesRestored, GitRestored, TargetPcs
    <3>. QED BY <3>4, <3>6 DEF Knowing
  <2>. QED BY <2>4, <2>5
<1>6. CASE loc' = [loc EXCEPT ![p].outcome = "rollback_failed"]
  <2>1. loc'[p].outcome = "rollback_failed"
    BY <1>6 DEF Inv, TypeOK, Locals
  <2>. QED BY <1>0, <2>1, NothingKnown
<1>. QED BY <1>5, <1>6 DEF RollbackEnd, next

(* A transaction already rolled back is reported so only if the workspace   *)
(* still is as before it.                                                   *)
LEMMA InspectKnowing ==
  ASSUME Inv, Inv', NEW p \in Procs, Inspect(p)
  PROVE  Knowing(p)'
<1>. DEFINE t == loc[p].txn
<1>0. /\ pc[p] = "inspect" /\ lock = p
      /\ UNCHANGED <<files, modes, head, debris, lock, manifest, journal, edits>>
  BY DEF Inspect, Inv, ProcOK, LockedPcs, workspaceVars, runVars, budgetVars
<1>1. CASE ReturnError(p)
  BY <1>1, ErrorKnowing
<1>2. CASE Goto(p, "rollback_start")
  <2>1. pc'[p] = "rollback_start"
    BY <1>2 DEF Goto, Inv, TypeOK
  <2>. QED BY <2>1, NothingKnown DEF UnknowingPcs
<1>3. CASE /\ InspectionValid(t) /\ LastState(t) = "rolled_back" /\ FilesRestored(t) /\ GitRestored(t)
           /\ loc' = [loc EXCEPT ![p].outcome = "rolled_back"] /\ Goto(p, "report")
  <2>1. pc'[p] = "report" /\ loc'[p].outcome = "rolled_back" /\ loc'[p].txn = t
    BY <1>3 DEF Goto, Inv, TypeOK, Locals
  <2>2. UNCHANGED GitStatus
    BY <1>0, <2>1, GitUnchanged
  <2>3. Settled(p)'
    BY <1>0, <1>3, <2>1 DEF Settled, LastState, InspectionValid
  <2>4. Found(p)'
    BY <1>0, <1>3, <2>1, <2>2 DEF Found, Reporting, FilesRestored, GitRestored, TargetPcs
  <2>. QED BY <2>3, <2>4 DEF Knowing
<1>. QED BY <1>1, <1>2, <1>3 DEF Inspect

LEMMA IoFailureKnowing ==
  ASSUME Inv, NEW p \in Procs, IoFailure(p), Knowing(p)
  PROVE  Knowing(p)'
<1>0. UNCHANGED <<files, modes, manifest, edits>>
  BY DEF IoFailure, workspaceVars
<1>1. CASE ReturnError(p)
  BY <1>1, ErrorKnowing
<1>2. CASE Rollback(p)
  BY <1>2, RollbackKnowing
<1>3. CASE pc[p] \in TargetPcs \union {"restore"} /\ TargetFails(p)
  BY <1>0, <1>3, TargetFailsKnowing
<1>. QED BY <1>1, <1>2, <1>3 DEF IoFailure, TargetPcs

-----------------------------------------------------------------------------
Truth == \A p \in Procs : Knowing(p)

LEMMA TruthInit == Init => Truth
BY DEF Init, Truth, Knowing, Settled, Found, Reporting, TargetPcs

LEMMA OwnKnowing ==
  ASSUME Inv, Inv', NEW p \in Procs, Acts(p), Knowing(p)
  PROVE  Knowing(p)'
BY PreparationKnowing, BodyKnowing, GitCheckKnowing, CommitKnowing, RecheckKnowing, PublishTargetKnowing,
   ConfirmKnowing, InspectKnowing, RollbackStartKnowing, RestoreFileKnowing, VerifyGitRestoredKnowing,
   RollbackEndKnowing, IdleKnowing, IoFailureKnowing
   DEF Acts, Step, Return, Crash

(* An edit of the user ends what is claimed of the workspace, not what is   *)
(* claimed of the journal.                                                  *)
LEMMA UserKnowing ==
  ASSUME Inv, (\E f \in Files, v \in Value : UserWrites(f, v)) \/ UserCommits, NEW p \in Procs, Knowing(p)
  PROVE  Knowing(p)'
<1>1. UNCHANGED <<lock, manifest, journal, pc, loc>> /\ edits' = edits + 1 /\ edits \in Nat
  BY DEF UserWrites, UserCommits, Inv, TypeOK, runVars
<1>2. edits' # 0
  BY <1>1
<1>. QED BY <1>1, <1>2 DEF Knowing, Settled, LastState

LEMMA TruthNext == Inv /\ Inv' /\ Truth /\ [Next]_vars => Truth'
<1>. SUFFICES ASSUME Inv, Inv', Truth, [Next]_vars, NEW p \in Procs PROVE Knowing(p)'
  BY DEF Truth
<1>0. Knowing(p)
  BY DEF Truth
<1>1. ASSUME NEW q \in Procs, Acts(q) PROVE Knowing(p)'
  BY <1>0, <1>1, OwnKnowing, OthersKnowing
<1>2. CASE (\E f \in Files, v \in Value : UserWrites(f, v)) \/ UserCommits
  BY <1>0, <1>2, UserKnowing
<1>3. CASE UNCHANGED vars
  <2>1. UNCHANGED <<lock, manifest, journal, pc, loc, files, modes, head, debris, edits>>
    BY <1>3 DEF vars, workspaceVars, runVars, budgetVars
  <2>2. UNCHANGED GitStatus
    BY <2>1 DEF GitStatus, HoldsTemp
  <2>. QED BY <1>0, <2>1, <2>2
           DEF Knowing, Settled, Found, Reporting, Restored, MutationsApplied, FilesRestored, GitRestored, LastState
<1>. QED BY <1>1, <1>2, <1>3 DEF Next, Acts

LEMMA TruthAlways == Spec => [](Inv /\ Truth)
<1>1. Init => Inv /\ Truth
  BY InvInit, TruthInit
<1>2. Inv /\ Truth /\ [Next]_vars => (Inv /\ Truth)'
  BY InvNext, TruthNext
<1>. QED BY <1>1, <1>2, PTL DEF Spec

(* As long as the user has not changed the workspace, an operation reports  *)
(* `committed` only if every target has its new content, and `rolled_back`  *)
(* only if every target, its mode and the Git state are those from before,  *)
(* whatever crashes, I/O errors, failed directory syncs and operations of   *)
(* other processes came in between.                                         *)
THEOREM ReportMatchesWorkspace == Spec => []OutcomeHolds
<1>1. Truth => OutcomeHolds
  BY DEF Truth, Knowing, Found, Reporting, OutcomeHolds
<1>. QED BY <1>1, TruthAlways, PTL

(* If a directory sync does not fail after its rename, the report is also   *)
(* what the journal on disk says, and a later inspection finds it valid.    *)
THEOREM OutcomeIsTrueHolds ==
  ASSUME ~SyncFaults
  PROVE  Spec => []OutcomeIsTrue
<1>1. Truth => OutcomeHolds
  BY DEF Truth, Knowing, Found, Reporting, OutcomeHolds
<1>2. Inv /\ Truth => OutcomeJournalled
  <2>. SUFFICES ASSUME Inv, Truth, NEW p \in Procs,
                       pc[p] = "report", loc[p].outcome \in {"committed", "rolled_back"}
                PROVE  InspectionValid(loc[p].txn) /\ LastState(loc[p].txn) = loc[p].outcome
    BY DEF OutcomeJournalled
  <2>1. /\ loc[p].txn \in Txns /\ manifest[loc[p].txn] # None
        /\ journal[loc[p].txn] # <<>> /\ LastState(loc[p].txn) = loc[p].outcome
    BY DEF Inv, ProcOK, Called, Truth, Knowing, Settled
  <2>. QED BY <2>1 DEF Inv, RunOK, InspectionValid
<1>. QED BY <1>1, <1>2, TruthAlways, PTL DEF OutcomeIsTrue

-----------------------------------------------------------------------------
(* How the control of a process goes with the journal on disk, and with the *)
(* files as long as the user has not changed them.                          *)

(* The state on record at a point of the application.                       *)
BodyState(l) ==
  IF l = "applying" THEN "prepared"
  ELSE IF l = "finalize" THEN "applied"
  ELSE IF l \in {"git_check", "commit"} THEN "finalizing" ELSE "applying"

(* A transaction is planned from the files as they are.                     *)
Planning(p) ==
  LET req == loc[p].req IN
  /\ pc[p] \in {"lock", "capture", "backup", "manifest"} =>
       \A f \in req.files : req.before[f] # req.after[f]
  /\ pc[p] \in {"backup", "manifest"} /\ edits = 0 =>
       \A f \in req.files : pc[p] = "manifest" \/ f <= loc[p].file => files[f] = req.before[f]

(* What is on record of the transaction at work.                            *)
OnRecord(p) ==
  LET state == LastState(loc[p].txn) IN
  /\ pc[p] \in BodyPcs \/ (pc[p] \in TargetPcs /\ ~loc[p].undoing) =>
       state = BodyState(pc[p]) /\ loc[p].state = state
  /\ pc[p] = "rollback_start" =>
       /\ state \notin {"none", "rolled_back"}
       /\ state = "rollback_started" <=> loc[p].state = "rollback_started"
  /\ pc[p] \in {"restore", "git_restored", "rollback_end"} \/ (pc[p] \in TargetPcs /\ loc[p].undoing) =>
       /\ state \notin {"none", "rolled_back"}
       /\ loc[p].state = "rollback_started" => state = "rollback_started"
       /\ state = "rollback_started" \/ faults > 0

(* The target still is as it was last read.                                 *)
Aiming(p) ==
  pc[p] \in {"staged", "publish"} /\ edits = 0 => files[loc[p].file] = loc[p].from

OnCourse(p) == Planning(p) /\ OnRecord(p) /\ Aiming(p)

LEMMA FaultsGrow ==
  ASSUME TypeOK, NEW p \in Procs, Acts(p)
  PROVE  faults' \in {faults, faults + 1}
<1>1. CASE Step(p) \/ IoFailure(p)
  BY <1>1 DEF Step, IoFailure, AcquireLock, CreateRun, BackupFile,
       WriteManifest, Prepare, StartApplying, ApplyMutation, VerifyApplied, Finalize, GitCheck,
       Commit, Recheck, PublishTarget, Confirm, Inspect, RollbackStart, RestoreFile,
       VerifyGitRestored, RollbackEnd, Return, BodyTransition, Transition, TransitionFails,
       IoError, NoIoError, budgetVars
<1>. QED BY <1>1 DEF Acts, StartApply, StartRollback, Crash, budgetVars

(* The state on record after an event.                                      *)
LEMMA PublishedState ==
  ASSUME Inv, NEW p \in Procs, NEW next \in States, NEW named \in SUBSET Files,
         pc[p] \in ManifestPcs, Publish(p, next, named)
  PROVE  \A t \in Txns : LastState(t)' = IF t = loc[p].txn THEN next ELSE LastState(t)
<1>. DEFINE t == loc[p].txn
            event == [seq |-> loc[p].seq, state |-> next, files |-> named]
<1>1. /\ t \in Txns /\ loc[p] \in Locals
      /\ journal \in [Txns -> Seq(Event)] /\ journal[t] \in Seq(Event)
  BY Current DEF Inv, TypeOK
<1>2. event \in Event /\ event.state = next
  BY <1>1 DEF Event, Locals
<1>3. journal' = [journal EXCEPT ![t] = Append(journal[t], event)]
  BY DEF Publish
<1>. HIDE DEF event, t
<1>4. journal'[t] = Append(journal[t], event) /\ \A u \in Txns : u # t => journal'[u] = journal[u]
  BY <1>1, <1>2, <1>3
<1>5. /\ Append(journal[t], event) # <<>> /\ Len(Append(journal[t], event)) = Len(journal[t]) + 1
      /\ Append(journal[t], event)[Len(journal[t]) + 1] = event
  BY <1>1, <1>2, AppendProperties
<1>6. \A u \in Txns : u = t => LastState(u)' = next
  <2>1. Len(Append(journal[t], event)) = Len(journal[t]) + 1
    BY <1>5
  <2>2. journal'[t] # <<>> /\ journal'[t][Len(journal'[t])] = event
    BY <1>4, <1>5, <2>1
  <2>. QED BY <1>2, <2>2 DEF LastState
<1>7. \A u \in Txns : u # t => LastState(u)' = LastState(u)
  BY <1>4 DEF LastState
<1>. QED BY <1>6, <1>7 DEF t

(* A transition that fails leaves the record alone, unless its sync fails.  *)
LEMMA FailedState ==
  ASSUME Inv, NEW p \in Procs, NEW next \in States, NEW named \in SUBSET Files,
         pc[p] \in ManifestPcs, TransitionFails(p, next, named)
  PROVE  /\ faults' \in {faults, faults + 1}
         /\ ValidTransition(loc[p].state, next) => faults' = faults + 1
         /\ \/ \A t \in Txns : LastState(t)' = LastState(t)
            \/ /\ ValidTransition(loc[p].state, next)
               /\ \A t \in Txns : LastState(t)' = IF t = loc[p].txn THEN next ELSE LastState(t)
<1>1. CASE UNCHANGED journal
  BY <1>1 DEF TransitionFails, NoIoError, IoError, LastState
<1>2. CASE ValidTransition(loc[p].state, next) /\ Publish(p, next, named) /\ IoError
  BY <1>2, PublishedState DEF IoError
<1>. QED BY <1>1, <1>2 DEF TransitionFails

(* The step of another process.                                             *)
LEMMA OthersOnCourse ==
  ASSUME Inv, Inv', NEW q \in Procs, Acts(q), NEW p \in Procs, p # q, OnCourse(p)
  PROVE  OnCourse(p)'
<1>1. /\ pc'[p] = pc[p] /\ loc'[p] = loc[p] /\ edits' = edits /\ None \notin Procs
      /\ ProcOK(p) /\ ProcOK(q) /\ faults \in Nat /\ faults' \in {faults, faults + 1}
  BY ActsFrame, OutsideTheLock, FaultsGrow, ConstantsAssumption DEF Inv, TypeOK
<1>2. faults > 0 => faults' > 0
  BY <1>1
<1>3. CASE pc[p] \in LockedPcs
  <2>1. lock = p /\ pc[q] \notin LockedPcs
    BY <1>1, <1>3 DEF ProcOK
  <2>2. UNCHANGED <<files, journal>>
    BY <2>1, OutsideTheLock DEF Inv
  <2>. QED BY <1>1, <1>2, <2>2 DEF OnCourse, Planning, OnRecord, Aiming, LastState
<1>4. CASE pc[p] \notin LockedPcs
  <2>1. OnRecord(p)' /\ Aiming(p)'
    BY <1>1, <1>4 DEF OnRecord, Aiming, LockedPcs, ManifestPcs, BodyPcs, UndoPcs, TargetPcs
  <2>2. Planning(p)'
    BY <1>1, <1>4 DEF OnCourse, Planning, LockedPcs
  <2>. QED BY <2>1, <2>2 DEF OnCourse
<1>. QED BY <1>3, <1>4

(* Where nothing is claimed.                                                *)
LEMMA OffCourse ==
  ASSUME NEW p \in Procs, pc'[p] \in {"idle", "report", "rollback_lock", "inspect", "prepared"}
  PROVE  OnCourse(p)'
BY DEF OnCourse, Planning, OnRecord, Aiming, BodyPcs, TargetPcs

LEMMA ErrorOffCourse ==
  ASSUME Inv, NEW p \in Procs, ReturnError(p)
  PROVE  OnCourse(p)'
<1>1. pc'[p] = "report"
  BY DEF ReturnError, Goto, Inv, TypeOK
<1>. QED BY <1>1, OffCourse

(* Preparation: the plan is made of a request that changes something, from  *)
(* the files as they are.                                                   *)
LEMMA StartApplyOnCourse ==
  ASSUME Inv, NEW p \in Procs, NEW t \in Txns, NEW req \in Requests, StartApply(p, t, req)
  PROVE  OnCourse(p)'
<1>. DEFINE l == [Idle EXCEPT !.op = "apply", !.txn = t, !.req = req]
<1>1. pc'[p] = "lock" /\ loc'[p] = l
  BY DEF StartApply, Goto, Inv, TypeOK
<1>2. l.req = req
  BY DEF Idle
<1>3. \A f \in req.files : req.before[f] # req.after[f]
  BY DEF StartApply
<1>. QED BY <1>1, <1>2, <1>3 DEF OnCourse, Planning, OnRecord, Aiming, BodyPcs, TargetPcs

LEMMA AcquireLockOnCourse ==
  ASSUME Inv, NEW p \in Procs, AcquireLock(p), OnCourse(p)
  PROVE  OnCourse(p)'
<1>1. CASE ReturnError(p)
  BY <1>1, ErrorOffCourse
<1>2. CASE Goto(p, IF pc[p] = "lock" THEN "capture" ELSE "inspect") /\ UNCHANGED loc
  <2>1. pc'[p] = (IF pc[p] = "lock" THEN "capture" ELSE "inspect") /\ loc'[p] = loc[p]
    BY <1>2 DEF Goto, Inv, TypeOK
  <2>. QED BY <2>1, OffCourse DEF OnCourse, Planning, OnRecord, Aiming, BodyPcs, TargetPcs
<1>. QED BY <1>1, <1>2 DEF AcquireLock

LEMMA CreateRunOnCourse ==
  ASSUME Inv, NEW p \in Procs, CreateRun(p), OnCourse(p)
  PROVE  OnCourse(p)'
<1>1. CASE ReturnError(p)
  BY <1>1, ErrorOffCourse
<1>2. CASE Goto(p, "backup") /\ \E git \in GitStatuses \union {None} : loc' = [loc EXCEPT ![p].git = git]
  <2>1. pc[p] = "capture" /\ loc[p].file = 0 /\ loc[p].req \in Request
    BY ConstantsAssumption DEF CreateRun, Inv, ProcOK, Called, Fresh
  <2>2. pc'[p] = "backup" /\ loc'[p].req = loc[p].req /\ loc'[p].file = 0
    BY <1>2, <2>1 DEF Goto, Inv, TypeOK, Locals
  <2>3. \A f \in loc[p].req.files : ~(f <= 0)
    BY <2>1, ConstantsAssumption DEF Request, Files
  <2>. QED BY <2>1, <2>2, <2>3 DEF OnCourse, Planning, OnRecord, Aiming, BodyPcs, TargetPcs
<1>. QED BY <1>1, <1>2, GitStatusType DEF CreateRun, Inv

LEMMA BackupFileOnCourse ==
  ASSUME Inv, NEW p \in Procs, BackupFile(p), OnCourse(p)
  PROVE  OnCourse(p)'
<1>. DEFINE req == loc[p].req
            pending == {g \in req.files : g > loc[p].file}
<1>0. /\ pc[p] = "backup" /\ UNCHANGED <<files, edits>>
      /\ req.files \subseteq Files /\ Files \subseteq Int /\ loc[p].file \in Int
  <2>1. pc[p] = "backup" /\ UNCHANGED <<files, edits>>
    BY DEF BackupFile, workspaceVars, budgetVars
  <2>2. req \in Request
    BY <2>1, ConstantsAssumption DEF Inv, ProcOK, Called
  <2>3. Files \subseteq Int /\ loc[p].file \in Int
    BY ConstantsAssumption DEF Files, Inv, TypeOK, Locals
  <2>. QED BY <2>1, <2>2, <2>3 DEF Request
<1>1. CASE ReturnError(p)
  BY <1>1, ErrorOffCourse
<1>2. CASE pending = {} /\ Goto(p, "manifest") /\ UNCHANGED loc
  <2>1. pc'[p] = "manifest" /\ loc'[p] = loc[p]
    BY <1>2 DEF Goto, Inv, TypeOK
  <2>2. ASSUME NEW f \in req.files PROVE f <= loc[p].file
    <3>1. f \notin pending /\ f \in Int
      BY <1>0, <1>2
    <3>2. ~(f > loc[p].file)
      BY <3>1
    <3>. QED BY <1>0, <3>1, <3>2
  <2>. QED BY <1>0, <2>1, <2>2 DEF OnCourse, Planning, OnRecord, Aiming, BodyPcs, TargetPcs
<1>3. ASSUME NEW f \in pending, \A g \in pending : f <= g, files[f] = req.before[f],
             loc' = [loc EXCEPT ![p].file = f], UNCHANGED pc
      PROVE  OnCourse(p)'
  <2>1. pc'[p] = "backup" /\ loc'[p].req = req /\ loc'[p].file = f
    BY <1>0, <1>3 DEF Inv, TypeOK, Locals
  <2>2. \A g \in req.files : g <= f => g <= loc[p].file \/ g = f
    BY <1>0, <1>3
  <2>. QED BY <1>0, <1>3, <2>1, <2>2 DEF OnCourse, Planning, OnRecord, Aiming, BodyPcs, TargetPcs
<1>. QED BY <1>1, <1>2, <1>3 DEF BackupFile

LEMMA WriteManifestOffCourse ==
  ASSUME Inv, NEW p \in Procs, WriteManifest(p)
  PROVE  OnCourse(p)'
<1>1. CASE Goto(p, "prepared")
  <2>1. pc'[p] = "prepared"
    BY <1>1 DEF Goto, Inv, TypeOK
  <2>. QED BY <2>1, OffCourse
<1>. QED BY <1>1, ErrorOffCourse DEF WriteManifest

(* The application: each point has its state on record.                     *)
LEMMA PrepareOnCourse ==
  ASSUME Inv, NEW p \in Procs, Prepare(p)
  PROVE  OnCourse(p)'
<1>. DEFINE t == loc[p].txn
<1>0. pc[p] = "prepared" /\ pc[p] \in ManifestPcs /\ "prepared" \in States
  BY DEF Prepare, ManifestPcs, States
<1>1. CASE ReturnError(p)
  BY <1>1, ErrorOffCourse
<1>2. CASE /\ Transition(p, "prepared", {}) /\ Goto(p, "applying")
           /\ loc' = [loc EXCEPT ![p] = Advanced(loc[p], "prepared")]
  <2>1. \A u \in Txns : LastState(u)' = IF u = t THEN "prepared" ELSE LastState(u)
    BY <1>0, <1>2, PublishedState DEF Transition
  <2>2. t \in Txns /\ loc[p] \in Locals
    BY <1>0, Current
  <2>3. pc'[p] = "applying" /\ loc'[p].txn = t /\ loc'[p].state = "prepared"
    BY <1>0, <1>2, <2>2, AdvancedType DEF Goto, Inv, TypeOK
  <2>4. LastState(loc[p].txn)' = "prepared"
    BY <2>1, <2>2, <2>3 DEF LastState
  <2>. QED BY <2>3, <2>4 DEF OnCourse, Planning, OnRecord, Aiming, BodyState, BodyPcs, TargetPcs
<1>. QED BY <1>1, <1>2 DEF Prepare

(* An error of the application starts a rollback that is not yet on record. *)
LEMMA RollbackOnCourse ==
  ASSUME Inv, NEW p \in Procs, Rollback(p), NEW t \in Txns, t = loc[p].txn,
         loc[p].state # "rollback_started",
         LastState(t)' \notin {"none", "rolled_back", "rollback_started"}
  PROVE  OnCourse(p)'
<1>1. pc'[p] = "rollback_start" /\ loc'[p].txn = t /\ loc'[p].state = loc[p].state
  BY DEF Rollback, Goto, Inv, TypeOK, Locals
<1>2. LastState(loc[p].txn)' \notin {"none", "rolled_back", "rollback_started"}
  BY <1>1 DEF LastState
<1>. QED BY <1>1, <1>2 DEF OnCourse, Planning, OnRecord, Aiming, BodyPcs, TargetPcs

(* An error that leaves the journal alone.                                  *)
LEMMA BodyErrorOnCourse ==
  ASSUME Inv, NEW p \in Procs, Rollback(p), OnCourse(p), UNCHANGED journal,
         pc[p] \in BodyPcs \/ (pc[p] \in TargetPcs /\ ~loc[p].undoing)
  PROVE  OnCourse(p)'
<1>1. loc[p].txn \in Txns
  BY Current DEF ManifestPcs
<1>2. /\ LastState(loc[p].txn) \in {"prepared", "applying", "applied", "finalizing"}
      /\ loc[p].state = LastState(loc[p].txn)
  BY DEF OnCourse, OnRecord, BodyState
<1>3. \A t \in Txns : LastState(t)' = LastState(t)
  BY DEF LastState
<1>. QED BY <1>1, <1>2, <1>3, RollbackOnCourse

LEMMA BodyTransitionOnCourse ==
  ASSUME Inv, NEW p \in Procs, pc[p] \in BodyPcs, OnCourse(p), NEW named \in SUBSET Files,
         NEW next \in {"applying", "applied", "finalizing", "committed"},
         NEW point \in {"mutate", "finalize", "git_check", "report"}, NEW result \in {"none", "committed"},
         BodyTransition(p, next, named, point, result),
         point # "report" => BodyState(point) = next
  PROVE  OnCourse(p)'
<1>. DEFINE t == loc[p].txn
            a == Advanced(loc[p], next)
            l == [a EXCEPT !.file = 0, !.outcome = result]
<1>0. pc[p] \in ManifestPcs /\ next \in States /\ pc[p] \notin TargetPcs
  BY DEF ManifestPcs, BodyPcs, TargetPcs, States
<1>1. t \in Txns /\ loc[p] \in Locals
  BY <1>0, Current
<1>2. CASE Transition(p, next, named) /\ loc' = [loc EXCEPT ![p] = l] /\ Goto(p, point)
  <2>1. \A u \in Txns : LastState(u)' = IF u = t THEN next ELSE LastState(u)
    BY <1>0, <1>2, PublishedState DEF Transition
  <2>2. a \in Locals /\ a.txn = t /\ a.state = next
    BY <1>0, <1>1, AdvancedType
  <2>. HIDE DEF a
  <2>3. l.txn = t /\ l.state = next
    BY <2>2 DEF Locals
  <2>. HIDE DEF l
  <2>4. pc'[p] = point /\ loc'[p] = l
    BY <1>2 DEF Goto, Inv, TypeOK
  <2>5. LastState(loc[p].txn)' = next
    BY <1>1, <2>1, <2>3, <2>4 DEF LastState
  <2>. QED BY <2>3, <2>4, <2>5 DEF OnCourse, Planning, OnRecord, Aiming, BodyPcs, TargetPcs
<1>3. CASE TransitionFails(p, next, named) /\ Rollback(p)
  <2>1. \/ \A u \in Txns : LastState(u)' = LastState(u)
        \/ \A u \in Txns : LastState(u)' = IF u = t THEN next ELSE LastState(u)
    BY <1>0, <1>3, FailedState
  <2>2. /\ LastState(t) \in {"prepared", "applying", "applied", "finalizing"}
        /\ loc[p].state = LastState(t)
    BY DEF OnCourse, OnRecord, BodyState
  <2>. QED BY <1>1, <1>3, <2>1, <2>2, RollbackOnCourse
<1>. QED BY <1>2, <1>3 DEF BodyTransition

LEMMA BodyOnCourse ==
  ASSUME Inv, NEW p \in Procs, StartApplying(p) \/ VerifyApplied(p) \/ Finalize(p) \/ Commit(p), OnCourse(p)
  PROVE  OnCourse(p)'
<1>1. pc[p] \in BodyPcs /\ pc[p] \in ManifestPcs
  BY DEF StartApplying, VerifyApplied, Finalize, Commit, BodyPcs, ManifestPcs
<1>2. {} \subseteq Files /\ loc[p].modified \subseteq Files
  BY <1>1, Current DEF Locals
<1>3. CASE Rollback(p) /\ UNCHANGED journal
  BY <1>1, <1>3, BodyErrorOnCourse
<1>4. CASE BodyTransition(p, "applying", {}, "mutate", "none")
  BY <1>1, <1>2, <1>4, BodyTransitionOnCourse DEF BodyState
<1>5. CASE BodyTransition(p, "applied", loc[p].modified, "finalize", "none")
  BY <1>1, <1>2, <1>5, BodyTransitionOnCourse DEF BodyState
<1>6. CASE BodyTransition(p, "finalizing", loc[p].modified, "git_check", "none")
  BY <1>1, <1>2, <1>6, BodyTransitionOnCourse DEF BodyState
<1>7. CASE BodyTransition(p, "committed", loc[p].modified, "report", "committed")
  BY <1>1, <1>2, <1>7, BodyTransitionOnCourse
<1>. QED BY <1>3, <1>4, <1>5, <1>6, <1>7 DEF StartApplying, VerifyApplied, Finalize, Commit

LEMMA GitCheckOnCourse ==
  ASSUME Inv, NEW p \in Procs, GitCheck(p), OnCourse(p)
  PROVE  OnCourse(p)'
<1>0. pc[p] = "git_check" /\ pc[p] \in BodyPcs /\ UNCHANGED journal
  BY DEF GitCheck, BodyPcs, runVars
<1>1. CASE Rollback(p)
  BY <1>0, <1>1, BodyErrorOnCourse
<1>2. CASE Goto(p, "commit") /\ UNCHANGED loc
  <2>1. pc'[p] = "commit" /\ loc'[p] = loc[p]
    BY <1>2 DEF Goto, Inv, TypeOK
  <2>. QED BY <1>0, <2>1
           DEF OnCourse, Planning, OnRecord, Aiming, BodyState, LastState, BodyPcs, TargetPcs
<1>. QED BY <1>1, <1>2 DEF GitCheck

LEMMA ApplyMutationOnCourse ==
  ASSUME Inv, NEW p \in Procs, ApplyMutation(p), OnCourse(p)
  PROVE  OnCourse(p)'
<1>. DEFINE m == manifest[loc[p].txn]
<1>0. pc[p] = "mutate" /\ pc[p] \in BodyPcs /\ ~loc[p].undoing /\ UNCHANGED <<journal, files, edits>>
  BY DEF ApplyMutation, BodyPcs, runVars, workspaceVars, budgetVars, Inv, ProcOK, Applying
<1>1. CASE Rollback(p)
  BY <1>0, <1>1, BodyErrorOnCourse
<1>2. CASE Goto(p, "verify") /\ UNCHANGED loc
  <2>1. pc'[p] = "verify" /\ loc'[p] = loc[p]
    BY <1>2 DEF Goto, Inv, TypeOK
  <2>. QED BY <1>0, <2>1
           DEF OnCourse, Planning, OnRecord, Aiming, BodyState, LastState, BodyPcs, TargetPcs
<1>3. ASSUME NEW f \in m.files, files[f] = m.before[f], Goto(p, "staged"),
             loc' = [loc EXCEPT ![p].file = f, ![p].from = m.before[f], ![p].to = m.after[f]]
      PROVE  OnCourse(p)'
  <2>1. /\ pc'[p] = "staged" /\ loc'[p].txn = loc[p].txn /\ loc'[p].state = loc[p].state
        /\ ~loc'[p].undoing /\ loc'[p].file = f /\ loc'[p].from = m.before[f]
    BY <1>0, <1>3 DEF Goto, Inv, TypeOK, Locals
  <2>. QED BY <1>0, <1>3, <2>1
           DEF OnCourse, Planning, OnRecord, Aiming, BodyState, LastState, BodyPcs, TargetPcs
<1>. QED BY <1>1, <1>2, <1>3 DEF ApplyMutation

(* Targets.  An error on one of a restoration stops it, the record as it is.*)
LEMMA TargetFailsOnCourse ==
  ASSUME Inv, NEW p \in Procs, TargetFails(p), pc[p] \in TargetPcs \union {"restore"},
         OnCourse(p), UNCHANGED journal, faults' \in {faults, faults + 1}
  PROVE  OnCourse(p)'
<1>1. CASE ~loc[p].undoing /\ Rollback(p)
  <2>1. pc[p] \in TargetPcs
    BY <1>1 DEF Inv, ProcOK, Undoing, UndoPcs
  <2>. QED BY <1>1, <2>1, BodyErrorOnCourse
<1>2. CASE loc[p].undoing /\ Goto(p, "git_restored") /\ loc' = [loc EXCEPT ![p].errors = TRUE]
  <2>1. pc'[p] = "git_restored" /\ loc'[p].txn = loc[p].txn /\ loc'[p].state = loc[p].state
    BY <1>2 DEF Goto, Inv, TypeOK, Locals
  <2>2. faults > 0 => faults' > 0
    BY DEF Inv, TypeOK
  <2>. QED BY <1>2, <2>1, <2>2 DEF OnCourse, Planning, OnRecord, Aiming, LastState, BodyPcs, TargetPcs
<1>. QED BY <1>1, <1>2 DEF TargetFails

(* A step from target to target, or back into the loop.                     *)
LEMMA TargetOnCourse ==
  ASSUME Inv, NEW p \in Procs, pc[p] \in TargetPcs \union {"restore"}, OnCourse(p),
         loc'[p].txn = loc[p].txn, loc'[p].state = loc[p].state, loc'[p].undoing = loc[p].undoing,
         UNCHANGED <<journal, faults>>,
         pc'[p] \in TargetPcs \/ pc'[p] = (IF loc[p].undoing THEN "restore" ELSE "mutate"),
         Aiming(p)'
  PROVE  OnCourse(p)'
<1>1. pc[p] = "restore" => loc[p].undoing
  BY DEF Inv, ProcOK, Undoing, UndoPcs
<1>2. Planning(p)'
  BY DEF Planning, TargetPcs
<1>3. LastState(loc[p].txn)' = LastState(loc[p].txn)
  BY DEF LastState
<1>4. CASE loc[p].undoing
  BY <1>2, <1>3, <1>4 DEF OnCourse, OnRecord, BodyPcs, TargetPcs
<1>5. CASE ~loc[p].undoing
  BY <1>1, <1>2, <1>3, <1>5 DEF OnCourse, OnRecord, BodyState, BodyPcs, TargetPcs
<1>. QED BY <1>4, <1>5

LEMMA RecheckOnCourse ==
  ASSUME Inv, NEW p \in Procs, Recheck(p), OnCourse(p)
  PROVE  OnCourse(p)'
<1>0. pc[p] = "staged" /\ pc[p] \in TargetPcs /\ UNCHANGED <<journal, faults, files, edits>>
  BY DEF Recheck, TargetPcs, runVars, workspaceVars, budgetVars
<1>1. CASE TargetFails(p)
  BY <1>0, <1>1, TargetFailsOnCourse
<1>2. CASE StillExpected(p) /\ Goto(p, "publish") /\ UNCHANGED loc
  <2>1. pc'[p] = "publish" /\ loc'[p] = loc[p]
    BY <1>2 DEF Goto, Inv, TypeOK
  <2>2. Aiming(p)'
    BY <1>0, <1>2, <2>1 DEF Aiming, StillExpected
  <2>. QED BY <1>0, <2>1, <2>2, TargetOnCourse DEF TargetPcs
<1>. QED BY <1>1, <1>2 DEF Recheck

LEMMA PublishTargetOnCourse ==
  ASSUME Inv, NEW p \in Procs, PublishTarget(p), OnCourse(p)
  PROVE  OnCourse(p)'
<1>0. /\ pc[p] = "publish" /\ pc[p] \in TargetPcs /\ UNCHANGED journal
  BY DEF PublishTarget, TargetPcs, runVars
<1>1. CASE TargetFails(p) /\ IoError
  BY <1>0, <1>1, TargetFailsOnCourse DEF IoError
<1>2. CASE Goto(p, "confirm") /\ UNCHANGED <<loc, faults>>
  <2>1. pc'[p] = "confirm" /\ loc'[p] = loc[p]
    BY <1>2 DEF Goto, Inv, TypeOK
  <2>. QED BY <1>0, <1>2, <2>1, TargetOnCourse DEF Aiming, TargetPcs
<1>. QED BY <1>1, <1>2 DEF PublishTarget, NoIoError

LEMMA ConfirmOnCourse ==
  ASSUME Inv, NEW p \in Procs, Confirm(p), OnCourse(p)
  PROVE  OnCourse(p)'
<1>0. pc[p] = "confirm" /\ pc[p] \in TargetPcs /\ UNCHANGED <<journal, faults>>
  BY DEF Confirm, TargetPcs, runVars, budgetVars
<1>1. CASE TargetFails(p)
  BY <1>0, <1>1, TargetFailsOnCourse
<1>2. ASSUME ~loc[p].undoing, Goto(p, "mutate"),
             loc' = [loc EXCEPT ![p].modified = @ \union {loc[p].file}]
      PROVE  OnCourse(p)'
  <2>1. /\ pc'[p] = "mutate" /\ loc'[p].txn = loc[p].txn /\ loc'[p].state = loc[p].state
        /\ loc'[p].undoing = loc[p].undoing
    BY <1>2 DEF Goto, Inv, TypeOK, Locals
  <2>. QED BY <1>0, <1>2, <2>1, TargetOnCourse DEF Aiming
<1>3. ASSUME loc[p].undoing, Goto(p, "restore"),
             loc' = [loc EXCEPT ![p].restored = @ \union {loc[p].file}]
      PROVE  OnCourse(p)'
  <2>1. /\ pc'[p] = "restore" /\ loc'[p].txn = loc[p].txn /\ loc'[p].state = loc[p].state
        /\ loc'[p].undoing = loc[p].undoing
    BY <1>3 DEF Goto, Inv, TypeOK, Locals
  <2>. QED BY <1>0, <1>3, <2>1, TargetOnCourse DEF Aiming
<1>. QED BY <1>1, <1>2, <1>3 DEF Confirm

(* The rollback: its start is on record, or an I/O error kept it off.       *)
LEMMA InspectOnCourse ==
  ASSUME Inv, NEW p \in Procs, Inspect(p)
  PROVE  OnCourse(p)'
<1>. DEFINE t == loc[p].txn
<1>1. CASE ReturnError(p)
  BY <1>1, ErrorOffCourse
<1>2. CASE Goto(p, "report")
  <2>1. pc'[p] = "report"
    BY <1>2 DEF Goto, Inv, TypeOK
  <2>. QED BY <2>1, OffCourse
<1>3. CASE /\ InspectionValid(t) /\ LastState(t) # "rolled_back" /\ Goto(p, "rollback_start")
           /\ loc' = [loc EXCEPT ![p].state = LastState(t), ![p].seq = ResumeSequence(t),
                                 ![p].undoing = TRUE]
  <2>1. pc'[p] = "rollback_start" /\ loc'[p].txn = t /\ loc'[p].state = LastState(t)
    BY <1>3 DEF Goto, Inv, TypeOK, Locals
  <2>2. t \in Txns /\ journal[t] # <<>> /\ journal[t] \in Seq(Event) /\ UNCHANGED journal
    BY <1>3 DEF Inspect, Inv, ProcOK, Called, TypeOK, InspectionValid, runVars
  <2>3. LastState(t) # "none"
    <3>1. journal[t][Len(journal[t])] \in Event
      BY <2>2
    <3>. QED BY <2>2, <3>1 DEF LastState, Event, States
  <2>4. LastState(loc[p].txn)' = LastState(t)
    BY <2>1, <2>2 DEF LastState
  <2>. QED BY <1>3, <2>1, <2>3, <2>4 DEF OnCourse, Planning, OnRecord, Aiming, BodyPcs, TargetPcs
<1>. QED BY <1>1, <1>2, <1>3 DEF Inspect

LEMMA RollbackStartOnCourse ==
  ASSUME Inv, NEW p \in Procs, RollbackStart(p), OnCourse(p)
  PROVE  OnCourse(p)'
<1>. DEFINE t == loc[p].txn
            start(l, failed) == [l EXCEPT !.file = NFiles + 1, !.restored = {}, !.errors = failed]
            next == "rollback_started"
            a == Advanced(loc[p], next)
<1>0. pc[p] = "rollback_start" /\ pc[p] \in ManifestPcs /\ pc'[p] = "restore" /\ next \in States
  BY DEF RollbackStart, ManifestPcs, UndoPcs, States, Goto, Inv, TypeOK
<1>1. t \in Txns /\ loc[p] \in Locals /\ loc[p].modified \subseteq Files
  BY <1>0, Current DEF Locals
<1>2. /\ LastState(t) \notin {"none", "rolled_back"}
      /\ LastState(t) = next <=> loc[p].state = next
      /\ loc[p].state \in States \ {"rolled_back"}
  BY <1>0, <1>1 DEF OnCourse, OnRecord, Inv, ProcOK, InSync, UndoPcs, Locals
<1>3. \A l \in Locals, failed \in BOOLEAN : start(l, failed).txn = l.txn /\ start(l, failed).state = l.state
  BY DEF Locals
<1>. HIDE DEF start
<1>4. CASE RollbackBegun(p) /\ loc' = [loc EXCEPT ![p] = start(loc[p], FALSE)] /\ UNCHANGED journal
  <2>1. loc'[p].txn = t /\ loc'[p].state = loc[p].state
    BY <1>1, <1>3, <1>4 DEF Inv, TypeOK
  <2>2. UNCHANGED journal
    BY <1>4
  <2>3. LastState(loc[p].txn)' = LastState(t)
    BY <2>1, <2>2 DEF LastState
  <2>. QED BY <1>0, <1>2, <1>4, <2>1, <2>3
           DEF OnCourse, Planning, OnRecord, Aiming, BodyPcs, TargetPcs, RollbackBegun
<1>5. CASE Transition(p, next, loc[p].modified) /\ loc' = [loc EXCEPT ![p] = start(a, FALSE)]
  <2>1. \A u \in Txns : LastState(u)' = IF u = t THEN next ELSE LastState(u)
    BY <1>0, <1>1, <1>5, PublishedState DEF Transition
  <2>2. a \in Locals /\ a.txn = t
    BY <1>0, <1>1, AdvancedType
  <2>. HIDE DEF a
  <2>3. loc'[p].txn = t
    BY <1>1, <1>3, <1>5, <2>2 DEF Inv, TypeOK
  <2>4. LastState(loc[p].txn)' = next
    BY <1>1, <2>1, <2>3 DEF LastState
  <2>. QED BY <1>0, <2>4 DEF OnCourse, Planning, OnRecord, Aiming, BodyPcs, TargetPcs
<1>6. CASE /\ ~RollbackBegun(p) /\ TransitionFails(p, next, loc[p].modified)
           /\ loc' = [loc EXCEPT ![p] = start(loc[p], TRUE)]
  <2>1. ValidTransition(loc[p].state, next)
    BY <1>2, <1>6 DEF RollbackBegun, ValidTransition, Transitions, States
  <2>2. faults' = faults + 1 /\ faults \in Nat
    BY <1>0, <1>1, <1>6, <2>1, FailedState DEF Inv, TypeOK
  <2>3. \/ \A u \in Txns : LastState(u)' = LastState(u)
        \/ \A u \in Txns : LastState(u)' = IF u = t THEN next ELSE LastState(u)
    BY <1>0, <1>1, <1>6, FailedState
  <2>4. loc'[p].txn = t /\ loc'[p].state = loc[p].state
    BY <1>1, <1>3, <1>6 DEF Inv, TypeOK
  <2>5. LastState(loc[p].txn)' \in {LastState(t), next}
    BY <1>1, <2>3, <2>4 DEF LastState
  <2>6. faults' > 0
    BY <2>2
  <2>. QED BY <1>0, <1>2, <1>6, <2>4, <2>5, <2>6
           DEF OnCourse, Planning, OnRecord, Aiming, BodyPcs, TargetPcs, RollbackBegun
<1>. QED BY <1>4, <1>5, <1>6 DEF RollbackStart, start

LEMMA RestoreFileOnCourse ==
  ASSUME Inv, NEW p \in Procs, RestoreFile(p), OnCourse(p)
  PROVE  OnCourse(p)'
<1>. DEFINE t == loc[p].txn
            m == manifest[t]
<1>0. /\ pc[p] = "restore" /\ pc[p] \in TargetPcs \union {"restore"} /\ loc[p].undoing
      /\ UNCHANGED <<journal, faults, files, edits>>
  BY DEF RestoreFile, runVars, budgetVars, Inv, ProcOK, Undoing, UndoPcs
<1>1. CASE TargetFails(p)
  BY <1>0, <1>1, TargetFailsOnCourse
<1>2. CASE Goto(p, "git_restored") /\ UNCHANGED loc
  <2>1. pc'[p] = "git_restored" /\ loc'[p] = loc[p]
    BY <1>2 DEF Goto, Inv, TypeOK
  <2>. QED BY <1>0, <2>1 DEF OnCourse, Planning, OnRecord, Aiming, LastState, BodyPcs, TargetPcs
<1>3. ASSUME NEW f \in m.files, UNCHANGED pc,
             loc' = [loc EXCEPT ![p].file = f, ![p].restored = @ \union {f}]
      PROVE  OnCourse(p)'
  <2>1. /\ pc'[p] = "restore" /\ loc'[p].txn = loc[p].txn /\ loc'[p].state = loc[p].state
        /\ loc'[p].undoing = loc[p].undoing
    BY <1>0, <1>3 DEF Inv, TypeOK, Locals
  <2>. QED BY <1>0, <2>1, TargetOnCourse DEF Aiming
<1>4. ASSUME NEW f \in m.files, files[f] = m.after[f], Goto(p, "staged"),
             loc' = [loc EXCEPT ![p].file = f, ![p].from = m.after[f], ![p].to = RestoredContent(t, f)]
      PROVE  OnCourse(p)'
  <2>1. /\ pc'[p] = "staged" /\ loc'[p].txn = loc[p].txn /\ loc'[p].state = loc[p].state
        /\ loc'[p].undoing = loc[p].undoing /\ loc'[p].file = f /\ loc'[p].from = m.after[f]
    BY <1>4 DEF Goto, Inv, TypeOK, Locals
  <2>2. Aiming(p)'
    BY <1>0, <1>4, <2>1 DEF Aiming
  <2>. QED BY <1>0, <2>1, <2>2, TargetOnCourse DEF TargetPcs
<1>. QED BY <1>1, <1>2, <1>3, <1>4 DEF RestoreFile

LEMMA VerifyGitRestoredOnCourse ==
  ASSUME Inv, NEW p \in Procs, VerifyGitRestored(p), OnCourse(p)
  PROVE  OnCourse(p)'
<1>1. pc[p] = "git_restored" /\ pc'[p] = "rollback_end" /\ UNCHANGED journal
  BY DEF VerifyGitRestored, Goto, Inv, TypeOK, runVars
<1>2. loc'[p].txn = loc[p].txn /\ loc'[p].state = loc[p].state
  BY DEF VerifyGitRestored, Inv, TypeOK, Locals
<1>3. faults > 0 => faults' > 0
  BY DEF VerifyGitRestored, NoIoError, IoError, Inv, TypeOK
<1>. QED BY <1>1, <1>2, <1>3 DEF OnCourse, Planning, OnRecord, Aiming, LastState, BodyPcs, TargetPcs

LEMMA ReportOffCourse ==
  ASSUME Inv, NEW p \in Procs, RollbackEnd(p) \/ Return(p) \/ Crash(p)
  PROVE  OnCourse(p)'
<1>1. pc'[p] \in {"report", "idle"}
  BY DEF RollbackEnd, Return, Crash, Goto, Inv, TypeOK
<1>. QED BY <1>1, OffCourse

LEMMA StartRollbackOffCourse ==
  ASSUME Inv, NEW p \in Procs, NEW t \in Txns, NEW op, StartRollback(p, t, op)
  PROVE  OnCourse(p)'
<1>1. pc'[p] = "rollback_lock"
  BY DEF StartRollback, Goto, Inv, TypeOK
<1>. QED BY <1>1, OffCourse

LEMMA IoFailureOnCourse ==
  ASSUME Inv, NEW p \in Procs, IoFailure(p), OnCourse(p)
  PROVE  OnCourse(p)'
<1>0. UNCHANGED journal /\ faults' = faults + 1
  BY DEF IoFailure, IoError
<1>1. CASE ReturnError(p)
  BY <1>1, ErrorOffCourse
<1>2. CASE pc[p] \in BodyPcs /\ Rollback(p)
  BY <1>0, <1>2, BodyErrorOnCourse
<1>3. CASE pc[p] \in TargetPcs \union {"restore"} /\ TargetFails(p)
  BY <1>0, <1>3, TargetFailsOnCourse
<1>. QED BY <1>1, <1>2, <1>3 DEF IoFailure, TargetPcs, BodyPcs

LEMMA OwnOnCourse ==
  ASSUME Inv, NEW p \in Procs, Acts(p), OnCourse(p)
  PROVE  OnCourse(p)'
BY StartApplyOnCourse, StartRollbackOffCourse, AcquireLockOnCourse, CreateRunOnCourse, BackupFileOnCourse,
   WriteManifestOffCourse, PrepareOnCourse, BodyOnCourse, GitCheckOnCourse, ApplyMutationOnCourse,
   RecheckOnCourse, PublishTargetOnCourse, ConfirmOnCourse, InspectOnCourse, RollbackStartOnCourse,
   RestoreFileOnCourse, VerifyGitRestoredOnCourse, ReportOffCourse, IoFailureOnCourse
   DEF Acts, Step

LEMMA UserOnCourse ==
  ASSUME Inv, (\E f \in Files, v \in Value : UserWrites(f, v)) \/ UserCommits, NEW p \in Procs, OnCourse(p)
  PROVE  OnCourse(p)'
<1>1. UNCHANGED <<journal, pc, loc, faults>> /\ edits' = edits + 1 /\ edits \in Nat
  BY DEF UserWrites, UserCommits, Inv, TypeOK, runVars
<1>2. edits' # 0
  BY <1>1
<1>. QED BY <1>1, <1>2 DEF OnCourse, Planning, OnRecord, Aiming, LastState

(* All that is known of a state.                                            *)
Courses == \A p \in Procs : OnCourse(p)
Known == Inv /\ Truth /\ Courses

LEMMA KnownNext == Known /\ [Next]_vars => Known'
<1>. SUFFICES ASSUME Known, [Next]_vars PROVE Known'
  OBVIOUS
<1>0. Inv /\ Inv' /\ Truth' /\ Courses
  BY InvNext, TruthNext DEF Known
<1>. SUFFICES ASSUME NEW p \in Procs PROVE OnCourse(p)'
  BY <1>0 DEF Known, Courses
<1>1. OnCourse(p)
  BY <1>0 DEF Courses
<1>2. ASSUME NEW q \in Procs, Acts(q) PROVE OnCourse(p)'
  BY <1>0, <1>1, <1>2, OwnOnCourse, OthersOnCourse
<1>3. CASE (\E f \in Files, v \in Value : UserWrites(f, v)) \/ UserCommits
  BY <1>0, <1>1, <1>3, UserOnCourse
<1>4. CASE UNCHANGED vars
  BY <1>1, <1>4
     DEF vars, workspaceVars, runVars, budgetVars, OnCourse, Planning, OnRecord, Aiming, LastState
<1>. QED BY <1>2, <1>3, <1>4 DEF Next, Acts

LEMMA KnownInit == Init => Known
<1>1. Init => Courses
  BY DEF Init, Courses, OnCourse, Planning, OnRecord, Aiming, BodyPcs, TargetPcs
<1>. QED BY <1>1, InvInit, TruthInit DEF Known

LEMMA KnownAlways == Spec => []Known
BY KnownInit, KnownNext, PTL DEF Spec

-----------------------------------------------------------------------------
(* The planned change: each step of the engine is one of PlannedChange, or  *)
(* changes nothing of it.                                                   *)

LEMMA MayFaultHolds ==
  ASSUME TypeOK, faults' \in {faults, faults + 1}
  PROVE  Abstract!MayFault
<1>1. (faults > 0)' = (faults > 0) \/ (faults > 0)' = TRUE
  BY DEF TypeOK
<1>. QED BY <1>1 DEF Abstract!MayFault

LEMMA SameRecord ==
  ASSUME \A u \in Txns : LastState(u)' = LastState(u)
  PROVE  UNCHANGED AbstractStatus
BY DEF AbstractStatus

(* Verifying and finalizing are not told apart from applying.               *)
LEMMA SameStatus ==
  ASSUME NEW t \in Txns, NEW next \in {"applied", "finalizing"},
         LastState(t) \in {"applying", "applied", "finalizing"},
         \A u \in Txns : LastState(u)' = IF u = t THEN next ELSE LastState(u)
  PROVE  UNCHANGED AbstractStatus
BY DEF AbstractStatus

LEMMA NewStatus ==
  ASSUME NEW t \in Txns, NEW next \in States \ {"applied", "finalizing"},
         \A u \in Txns : LastState(u)' = IF u = t THEN next ELSE LastState(u)
  PROVE  AbstractStatus' = [AbstractStatus EXCEPT ![t] = next]
BY DEF AbstractStatus

LEMMA QuietRefines ==
  ASSUME Inv, UNCHANGED <<files, manifest, AbstractStatus, edits>>, faults' \in {faults, faults + 1}
  PROVE  Abstract!Fault
BY MayFaultHolds DEF Inv, Abstract!Fault

(* An event of the journal, published by a transition that succeeds or by   *)
(* one whose sync fails.                                                    *)
LEMMA EventRefines ==
  ASSUME Known, NEW p \in Procs, pc[p] \in ManifestPcs, NEW t \in Txns, t = loc[p].txn,
         NEW next \in States \ {"applied", "finalizing"},
         \A u \in Txns : LastState(u)' = IF u = t THEN next ELSE LastState(u),
         NEW from, AbstractStatus[t] \in from,
         UNCHANGED <<files, manifest, edits>>, faults' \in {faults, faults + 1}
  PROVE  Abstract!OnRecord(t, from, next)
<1>1. manifest[t] # None
  BY Current DEF Known
<1>2. AbstractStatus' = [AbstractStatus EXCEPT ![t] = next]
  BY NewStatus
<1>3. Abstract!MayFault
  BY MayFaultHolds DEF Known, Inv
<1>. QED BY <1>1, <1>2, <1>3 DEF Abstract!OnRecord

(* A transition leaves the record as it is, or publishes its event.         *)
LEMMA TransitionRecord ==
  ASSUME Inv, NEW p \in Procs, NEW next \in States, NEW named \in SUBSET Files,
         pc[p] \in ManifestPcs, Transition(p, next, named) \/ TransitionFails(p, next, named)
  PROVE  /\ faults' \in {faults, faults + 1}
         /\ \/ \A u \in Txns : LastState(u)' = LastState(u)
            \/ /\ ValidTransition(loc[p].state, next)
               /\ \A u \in Txns : LastState(u)' = IF u = loc[p].txn THEN next ELSE LastState(u)
BY FailedState, PublishedState DEF Transition, NoIoError

LEMMA WriteManifestRefines ==
  ASSUME Known, Known', NEW p \in Procs, WriteManifest(p)
  PROVE  Abstract!Next
<1>. DEFINE t == loc[p].txn
            req == loc[p].req
            new == [files |-> req.files, before |-> req.before, after |-> req.after,
                    mode |-> modes, git |-> loc[p].git]
<1>1. /\ pc[p] = "manifest" /\ manifest' = [manifest EXCEPT ![t] = new]
      /\ UNCHANGED <<files, journal, edits>> /\ faults' \in {faults, faults + 1}
  BY DEF WriteManifest, workspaceVars, NoIoError, IoError
<1>2. t \in Txns /\ manifest[t] = None /\ manifest \in [Txns -> Manifests \union {None}]
  BY <1>1 DEF Known, Inv, TypeOK, ProcOK, Called, Preparing
<1>3. manifest'[t] = new
  BY <1>1, <1>2
<1>4. new \in Manifests
  <2>1. req \in Requests /\ loc[p] \in Locals /\ modes \in [Files -> {"own", "temp"}]
    BY <1>1 DEF Known, Inv, ProcOK, Called, TypeOK
  <2>. QED BY <2>1, ConstantsAssumption DEF Manifests, Request, Locals
<1>5. \A f \in req.files : req.before[f] # req.after[f]
  BY <1>1 DEF Known, Courses, OnCourse, Planning
<1>6. ~(edits > 0) => \A f \in req.files : files[f] = req.before[f]
  <2>1. ~(edits > 0) => edits = 0
    BY DEF Known, Inv, TypeOK
  <2>. QED BY <1>1, <2>1 DEF Known, Courses, OnCourse, Planning
<1>7. UNCHANGED AbstractStatus
  BY <1>1, SameRecord DEF LastState
<1>8. Abstract!MayFault
  BY <1>1, MayFaultHolds DEF Known, Inv
<1>9. /\ new.files = req.files /\ new.before = req.before /\ new.after = req.after
  OBVIOUS
<1>. HIDE DEF new
<1>10. Abstract!MakePlan(t)
  BY <1>1, <1>2, <1>3, <1>4, <1>5, <1>6, <1>7, <1>8, <1>9 DEF Abstract!MakePlan
<1>. QED BY <1>2, <1>10 DEF Abstract!Next

LEMMA PrepareRefines ==
  ASSUME Known, NEW p \in Procs, Prepare(p)
  PROVE  Abstract!Next
<1>. DEFINE t == loc[p].txn
<1>1. /\ pc[p] = "prepared" /\ pc[p] \in ManifestPcs /\ UNCHANGED <<files, manifest, edits>>
      /\ Transition(p, "prepared", {}) \/ TransitionFails(p, "prepared", {})
      /\ "prepared" \in States
  BY DEF Prepare, workspaceVars, ManifestPcs, States
<1>2. t \in Txns /\ LastState(t) = "none"
  BY <1>1, Current DEF Known, Inv, ProcOK, InSync, LastState
<1>3. AbstractStatus[t] = "none"
  BY <1>2 DEF AbstractStatus
<1>4. faults' \in {faults, faults + 1}
  BY <1>1, TransitionRecord DEF Known
<1>5. CASE \A u \in Txns : LastState(u)' = LastState(u)
  BY <1>1, <1>4, <1>5, SameRecord, QuietRefines DEF Known, Abstract!Next
<1>6. CASE \A u \in Txns : LastState(u)' = IF u = t THEN "prepared" ELSE LastState(u)
  <2>1. Abstract!Prepare(t)
    BY <1>1, <1>2, <1>3, <1>4, <1>6, EventRefines DEF Abstract!Prepare
  <2>. QED BY <1>2, <2>1 DEF Abstract!Next
<1>. QED BY <1>1, <1>5, <1>6, TransitionRecord DEF Known

(* The transitions of the body.                                             *)
LEMMA BodyRefines ==
  ASSUME Known, NEW p \in Procs, StartApplying(p) \/ VerifyApplied(p) \/ Finalize(p) \/ Commit(p)
  PROVE  Abstract!Next
<1>. DEFINE t == loc[p].txn
<1>1. /\ pc[p] \in BodyPcs /\ pc[p] \in ManifestPcs
      /\ UNCHANGED <<files, manifest, edits>>
  BY DEF StartApplying, VerifyApplied, Finalize, Commit, BodyPcs, ManifestPcs, workspaceVars
<1>2. t \in Txns /\ {} \subseteq Files /\ loc[p].modified \subseteq Files
  BY <1>1, Current DEF Known, Locals
<1>3. LastState(t) = BodyState(pc[p])
  BY <1>1 DEF Known, Courses, OnCourse, OnRecord
<1>. SUFFICES ASSUME NEW next \in States, NEW named \in SUBSET Files,
                     Transition(p, next, named) \/ TransitionFails(p, next, named),
                     \/ pc[p] = "applying" /\ next = "applying"
                     \/ pc[p] = "verify" /\ next = "applied"
                     \/ pc[p] = "finalize" /\ next = "finalizing"
                     \/ pc[p] = "commit" /\ next = "committed"
              PROVE  Abstract!Next
  <2>1. CASE UNCHANGED <<journal, faults>>
    BY <1>1, <2>1, SameRecord, QuietRefines DEF Known, LastState, Abstract!Next
  <2>. QED BY <1>2, <2>1 DEF StartApplying, VerifyApplied, Finalize, Commit, BodyTransition, States
<1>4. faults' \in {faults, faults + 1}
  BY <1>1, TransitionRecord DEF Known
<1>5. CASE \A u \in Txns : LastState(u)' = LastState(u)
  BY <1>1, <1>4, <1>5, SameRecord, QuietRefines DEF Known, Abstract!Next
<1>6. CASE \A u \in Txns : LastState(u)' = IF u = t THEN next ELSE LastState(u)
  <2>1. CASE next \in {"applied", "finalizing"}
    <3>1. LastState(t) \in {"applying", "applied", "finalizing"}
      BY <1>3, <2>1 DEF BodyState
    <3>. QED BY <1>1, <1>2, <1>4, <1>6, <2>1, <3>1, SameStatus, QuietRefines DEF Known, Abstract!Next
  <2>2. CASE next = "applying"
    <3>1. AbstractStatus[t] = "prepared"
      BY <1>2, <1>3, <2>2 DEF BodyState, AbstractStatus
    <3>2. Abstract!Begin(t)
      BY <1>1, <1>2, <1>4, <1>6, <2>2, <3>1, EventRefines DEF Abstract!Begin
    <3>. QED BY <1>2, <3>2 DEF Abstract!Next
  <2>3. CASE next = "committed"
    <3>1. AbstractStatus[t] = "applying"
      BY <1>2, <1>3, <2>3 DEF BodyState, AbstractStatus
    <3>2. Abstract!OnRecord(t, {"applying"}, "committed")
      BY <1>1, <1>2, <1>4, <1>6, <2>3, <3>1, EventRefines
    <3>3. edits > 0 \/ \A f \in manifest[t].files : files[f] = manifest[t].after[f]
      <4>1. edits > 0 \/ edits = 0
        BY DEF Known, Inv, TypeOK
      <4>. QED BY <2>3, <4>1 DEF Known, Truth, Knowing, Found, MutationsApplied
    <3>4. Abstract!Commit(t)
      BY <3>2, <3>3 DEF Abstract!Commit, Abstract!AllAfter
    <3>. QED BY <1>2, <3>4 DEF Abstract!Next
  <2>. QED BY <2>1, <2>2, <2>3
<1>. QED BY <1>1, <1>5, <1>6, TransitionRecord DEF Known

(* What can be rolled back: the states on record before a rollback.         *)
LEMMA UndoableStatus ==
  ASSUME NEW t \in Txns, LastState(t) \in States, LastState(t) \notin {"rolled_back", "rollback_started"}
  PROVE  AbstractStatus[t] \in Abstract!Undoable
BY DEF AbstractStatus, Abstract!Undoable, States

LEMMA LastStateType ==
  ASSUME TypeOK, NEW t \in Txns
  PROVE  LastState(t) \in States \union {"none"}
<1>1. journal[t] \in Seq(Event)
  BY DEF TypeOK
<1>2. journal[t] # <<>> => journal[t][Len(journal[t])] \in Event
  BY <1>1
<1>. QED BY <1>2 DEF LastState, Event

LEMMA RollbackStartRefines ==
  ASSUME Known, NEW p \in Procs, RollbackStart(p)
  PROVE  Abstract!Next
<1>. DEFINE t == loc[p].txn
            next == "rollback_started"
<1>1. /\ pc[p] = "rollback_start" /\ pc[p] \in ManifestPcs /\ next \in States
      /\ UNCHANGED <<files, manifest, edits>>
  BY DEF RollbackStart, ManifestPcs, UndoPcs, States, workspaceVars
<1>2. t \in Txns /\ loc[p].modified \subseteq Files
  BY <1>1, Current DEF Known, Locals
<1>3. CASE UNCHANGED <<journal, faults>>
  BY <1>1, <1>3, SameRecord, QuietRefines DEF Known, LastState, Abstract!Next
<1>4. CASE /\ ~RollbackBegun(p)
           /\ Transition(p, next, loc[p].modified) \/ TransitionFails(p, next, loc[p].modified)
  <2>1. faults' \in {faults, faults + 1}
    BY <1>1, <1>2, <1>4, TransitionRecord DEF Known
  <2>2. CASE \A u \in Txns : LastState(u)' = LastState(u)
    BY <1>1, <2>1, <2>2, SameRecord, QuietRefines DEF Known, Abstract!Next
  <2>3. CASE \A u \in Txns : LastState(u)' = IF u = t THEN next ELSE LastState(u)
    <3>1. LastState(t) \in States /\ LastState(t) \notin {"rolled_back", "rollback_started"}
      BY <1>1, <1>2, <1>4, LastStateType DEF Known, Inv, Courses, OnCourse, OnRecord, RollbackBegun
    <3>2. AbstractStatus[t] \in Abstract!Undoable
      BY <1>2, <3>1, UndoableStatus
    <3>3. Abstract!StartRollback(t)
      BY <1>1, <1>2, <2>1, <2>3, <3>2, EventRefines DEF Abstract!StartRollback
    <3>. QED BY <1>2, <3>3 DEF Abstract!Next
  <2>. QED BY <1>1, <1>2, <1>4, <2>2, <2>3, TransitionRecord DEF Known
<1>. QED BY <1>3, <1>4 DEF RollbackStart

LEMMA RollbackEndRefines ==
  ASSUME Known, NEW p \in Procs, RollbackEnd(p)
  PROVE  Abstract!Next
<1>. DEFINE t == loc[p].txn
            next == RollbackResult(loc[p])
<1>1. /\ pc[p] = "rollback_end" /\ pc[p] \in ManifestPcs /\ UNCHANGED <<files, manifest, edits>>
      /\ next \in States \ {"applied", "finalizing"} /\ next \in {"rolled_back", "rollback_failed"}
      /\ Transition(p, next, loc[p].restored) \/ TransitionFails(p, next, loc[p].restored)
  BY DEF RollbackEnd, ManifestPcs, UndoPcs, States, workspaceVars, RollbackResult
<1>2. t \in Txns /\ loc[p].restored \subseteq Files
  BY <1>1, Current DEF Known, Locals
<1>3. faults' \in {faults, faults + 1}
  BY <1>1, <1>2, TransitionRecord DEF Known
<1>4. CASE \A u \in Txns : LastState(u)' = LastState(u)
  BY <1>1, <1>3, <1>4, SameRecord, QuietRefines DEF Known, Abstract!Next
<1>5. CASE /\ ValidTransition(loc[p].state, next)
           /\ \A u \in Txns : LastState(u)' = IF u = t THEN next ELSE LastState(u)
  <2>1. loc[p].state = "rollback_started"
    BY <1>1, <1>5 DEF ValidTransition, Transitions
  <2>2. LastState(t) = "rollback_started"
    BY <1>1, <2>1 DEF Known, Courses, OnCourse, OnRecord
  <2>3. AbstractStatus[t] = "rollback_started"
    BY <1>2, <2>2 DEF AbstractStatus
  <2>4. Abstract!OnRecord(t, {"rollback_started"}, next)
    BY <1>1, <1>2, <1>3, <1>5, <2>3, EventRefines
  <2>5. CASE next = "rollback_failed"
    <3>1. Abstract!FailRollback(t)
      BY <2>4, <2>5 DEF Abstract!FailRollback
    <3>. QED BY <1>2, <3>1 DEF Abstract!Next
  <2>6. CASE next = "rolled_back"
    <3>1. ~loc[p].errors
      BY <2>6 DEF RollbackResult
    <3>2. loc[p].restored = manifest[t].files
      BY <1>1, <3>1 DEF Known, Inv, ProcOK, Undoing
    <3>3. edits > 0 \/ edits = 0
      BY DEF Known, Inv, TypeOK
    <3>4. edits > 0 \/ \A f \in manifest[t].files : files[f] = manifest[t].before[f]
      BY <1>1, <3>2, <3>3 DEF Known, Truth, Knowing, Found, Restored
    <3>5. Abstract!RollBack(t)
      BY <2>4, <2>6, <3>4 DEF Abstract!RollBack, Abstract!AllBefore
    <3>. QED BY <1>2, <3>5 DEF Abstract!Next
  <2>. QED BY <1>1, <2>5, <2>6
<1>. QED BY <1>1, <1>2, <1>4, <1>5, TransitionRecord DEF Known

(* The rename of a target: a write of the application or a restoration.     *)
LEMMA PublishTargetRefines ==
  ASSUME Known, NEW p \in Procs, PublishTarget(p), ~RaceWindow \/ edits = 0
  PROVE  Abstract!Next
<1>. DEFINE t == loc[p].txn
            m == manifest[t]
            f == loc[p].file
<1>1. /\ pc[p] = "publish" /\ pc[p] \in TargetPcs /\ pc[p] \in ManifestPcs
      /\ files' = [files EXCEPT ![f] = loc[p].to] /\ UNCHANGED <<manifest, journal, edits>>
      /\ faults' \in {faults, faults + 1}
  BY DEF PublishTarget, TargetPcs, ManifestPcs, runVars, NoIoError, IoError
<1>2. t \in Txns /\ m # None /\ m \in Manifests
  BY <1>1, Current DEF Known
<1>3. f \in m.files /\ f \in Files
  BY <1>1, <1>2 DEF Known, Inv, ProcOK, Applying, Manifests
<1>4. files[f] = loc[p].from
  BY <1>1 DEF Known, Inv, ProcOK, Targeting, Courses, OnCourse, Aiming
<1>5. IF loc[p].undoing THEN loc[p].from = m.after[f] /\ loc[p].to = m.before[f]
                        ELSE loc[p].from = m.before[f] /\ loc[p].to = m.after[f]
  BY <1>1 DEF Known, Inv, ProcOK, Targeting
<1>6. UNCHANGED AbstractStatus
  BY <1>1, SameRecord DEF LastState
<1>7. Abstract!MayFault
  BY <1>1, MayFaultHolds DEF Known, Inv
<1>8. CASE loc[p].undoing
  <2>1. LastState(t) \in States \ {"rolled_back"}
    BY <1>1, <1>2, <1>8, LastStateType DEF Known, Inv, Courses, OnCourse, OnRecord
  <2>2. LastState(t) = "rollback_started" \/ faults > 0
    BY <1>1, <1>8 DEF Known, Courses, OnCourse, OnRecord
  <2>3. AbstractStatus[t] = "rollback_started" \/ (faults > 0 /\ AbstractStatus[t] \in Abstract!Undoable)
    BY <1>2, <2>1, <2>2, UndoableStatus DEF AbstractStatus
  <2>4. Abstract!Move(f, m.after[f], m.before[f])
    BY <1>1, <1>4, <1>5, <1>6, <1>7, <1>8 DEF Abstract!Move
  <2>5. Abstract!Restore(t, f)
    BY <1>2, <1>3, <2>3, <2>4 DEF Abstract!Restore
  <2>. QED BY <1>2, <1>3, <2>5 DEF Abstract!Next
<1>9. CASE ~loc[p].undoing
  <2>1. AbstractStatus[t] = "applying"
    BY <1>1, <1>2, <1>9 DEF Known, Courses, OnCourse, OnRecord, BodyState, AbstractStatus
  <2>2. Abstract!Move(f, m.before[f], m.after[f])
    BY <1>1, <1>4, <1>5, <1>6, <1>7, <1>9 DEF Abstract!Move
  <2>3. Abstract!Write(t, f)
    BY <1>2, <1>3, <2>1, <2>2 DEF Abstract!Write
  <2>. QED BY <1>2, <1>3, <2>3 DEF Abstract!Next
<1>. QED BY <1>8, <1>9

(* The other steps leave files, plans and journals as they are.             *)
LEMMA ActsRefines ==
  ASSUME Known, Known', NEW p \in Procs, Acts(p), ~RaceWindow \/ edits = 0
  PROVE  Abstract!Next
<1>1. faults' \in {faults, faults + 1} /\ edits' = edits
  BY FaultsGrow, OutsideTheLock DEF Known, Inv
<1>2. CASE UNCHANGED <<files, manifest, journal>>
  BY <1>1, <1>2, SameRecord, QuietRefines DEF Known, LastState, Abstract!Next
<1>3. \/ UNCHANGED <<files, manifest, journal>>
      \/ WriteManifest(p) \/ Prepare(p) \/ StartApplying(p) \/ VerifyApplied(p) \/ Finalize(p)
      \/ Commit(p) \/ PublishTarget(p) \/ RollbackStart(p) \/ RollbackEnd(p)
  BY DEF Acts, StartApply, StartRollback, Step, IoFailure, Crash, AcquireLock, CreateRun, BackupFile,
         ApplyMutation, GitCheck, Recheck, Confirm, Inspect, RestoreFile, VerifyGitRestored, Return,
         runVars, workspaceVars
<1>. QED BY <1>2, <1>3, WriteManifestRefines, PrepareRefines, BodyRefines, PublishTargetRefines,
            RollbackStartRefines, RollbackEndRefines

LEMMA UserRefines ==
  ASSUME Known, (\E f \in Files, v \in Value : UserWrites(f, v)) \/ UserCommits
  PROVE  Abstract!Next
<1>1. /\ UNCHANGED <<manifest, journal, faults>> /\ edits' = edits + 1 /\ edits \in Nat
      /\ files \in [Files -> Value] /\ head \in [Files -> Value]
  BY DEF UserWrites, UserCommits, runVars, Known, Inv, TypeOK
<1>2. \E f \in Files : \A g \in Files \ {f} : files'[g] = files[g]
  BY <1>1 DEF UserWrites, UserCommits
<1>3. (edits > 0)' = TRUE
  BY <1>1
<1>4. UNCHANGED AbstractStatus
  BY <1>1, SameRecord DEF LastState
<1>5. Abstract!Edit
  BY <1>1, <1>2, <1>3, <1>4 DEF Abstract!Edit
<1>. QED BY <1>5 DEF Abstract!Next

LEMMA StepRefines ==
  ASSUME Known, Known', [Next]_vars, ~RaceWindow \/ edits = 0
  PROVE  [Abstract!Next]_(Abstract!vars)
<1>1. CASE UNCHANGED vars
  <2>1. UNCHANGED <<files, manifest, AbstractStatus, edits, faults>>
    BY <1>1, SameRecord DEF vars, workspaceVars, runVars, budgetVars, LastState
  <2>. QED BY <2>1 DEF Abstract!vars
<1>. QED BY <1>1, ActsRefines, UserRefines DEF Next, Acts

(* If nobody writes a target between its last check and its rename, the     *)
(* engine implements the planned change: whatever processes, crashes, I/O   *)
(* errors, failed syncs and edits of the user interleave, a file only moves *)
(* between the two contents of a plan, from before to after while an        *)
(* application is on record and back while a rollback is, and the record    *)
(* says `committed` or `rolled_back` only of transactions that are.         *)
THEOREM ImplementsPlannedChangeHolds ==
  ASSUME ~RaceWindow
  PROVE  Spec => ImplementsPlannedChange
<1>1. Init => Abstract!Init
  <2>. SUFFICES ASSUME Init PROVE Abstract!Init
    OBVIOUS
  <2>1. AbstractStatus = [t \in Txns |-> "none"]
    BY DEF Init, AbstractStatus, LastState
  <2>2. (edits > 0) = FALSE /\ (faults > 0) = FALSE
    BY DEF Init
  <2>. QED BY <2>1, <2>2 DEF Init, Abstract!Init
<1>2. Known /\ Known' /\ [Next]_vars => [Abstract!Next]_(Abstract!vars)
  BY StepRefines
<1>. QED BY <1>1, <1>2, KnownAlways, PTL DEF Spec, ImplementsPlannedChange, Abstract!Spec

-----------------------------------------------------------------------------
(* Where the contents come from.  As long as each content has one origin,   *)
(* the contents that a file has gone through since the start form a path,   *)
(* each the work of a transaction that is not rolled back; an application   *)
(* extends the path of a file at its end and a restoration takes the end    *)
(* off.                                                                     *)

Targets(t, f) == manifest[t] # None /\ f \in manifest[t].files
Before(t, f) == manifest[t].before[f]
After(t, f) == manifest[t].after[f]

(* On record as begun and not as rolled back; and not as committed either.  *)
Alive(t) == AbstractStatus[t] \notin {"none", "prepared", "rolled_back"}
Unsettled(t) == Alive(t) /\ AbstractStatus[t] # "committed"

(* No transaction brings back the initial content of a file, and two that   *)
(* write the same content to it write it over the same content.  A request  *)
(* may be submitted again.                                                  *)
OneOrigin ==
  \A t \in Txns, f \in Files : Targets(t, f) =>
    /\ After(t, f) # InitFiles[f]
    /\ \A u \in Txns : Targets(u, f) /\ After(u, f) = After(t, f) => Before(u, f) = Before(t, f)

SamePlan(u, t) ==
  /\ manifest[u] # None
  /\ manifest[u].files = manifest[t].files
  /\ manifest[u].before = manifest[t].before
  /\ manifest[u].after = manifest[t].after

(* Two transactions that write the same content to a file have one plan.    *)
OnePlan ==
  \A t \in Txns, f \in Files : Targets(t, f) =>
    /\ After(t, f) # InitFiles[f]
    /\ \A u \in Txns : Targets(u, f) /\ After(u, f) = After(t, f) => SamePlan(u, t)

(* The contents of C are the path of file f.                                *)
Path(f, C) ==
  /\ InitFiles[f] \in C /\ files[f] \in C
  /\ \A v \in C : v # InitFiles[f] =>
       \E t \in Txns : Targets(t, f) /\ Alive(t) /\ After(t, f) = v /\ Before(t, f) \in C
  /\ \A t \in Txns : Targets(t, f) /\ After(t, f) \in C => Before(t, f) # files[f]
  /\ \A t, u \in Txns :
       /\ Targets(t, f) /\ After(t, f) \in C
       /\ Targets(u, f) /\ After(u, f) \in C
       /\ Before(t, f) = Before(u, f)
       => After(t, f) = After(u, f)

(* A plan is on the paths of all its files or of none, unless it is being   *)
(* carried out or rolled back.                                              *)
Whole(paths) ==
  \A t \in Txns :
    (\E f \in Files : Targets(t, f) /\ After(t, f) \in paths[f]) =>
      \/ \A f \in manifest[t].files : After(t, f) \in paths[f]
      \/ \E u \in Txns : SamePlan(u, t) /\ Unsettled(u)

Traced(paths) ==
  /\ \A f \in Files : Path(f, paths[f])
  /\ OnePlan /\ faults = 0 => Whole(paths)

Tracing == edits = 0 /\ OneOrigin => \E paths \in [Files -> SUBSET Value] : Traced(paths)

LEMMA OnePlanOneOrigin == OnePlan => OneOrigin
BY DEF OnePlan, OneOrigin, SamePlan, Before

(* Plans are kept, so that what is asked of them was asked before.          *)
PlansKept == \A t \in Txns : manifest[t] # None => manifest'[t] = manifest[t]

LEMMA AskedBefore ==
  ASSUME PlansKept
  PROVE  (OneOrigin' => OneOrigin) /\ (OnePlan' => OnePlan)
<1>1. ASSUME OneOrigin', NEW t \in Txns, NEW f \in Files, Targets(t, f)
      PROVE  /\ After(t, f) # InitFiles[f]
             /\ \A u \in Txns : Targets(u, f) /\ After(u, f) = After(t, f) => Before(u, f) = Before(t, f)
  BY <1>1 DEF PlansKept, OneOrigin, Targets, Before, After
<1>2. ASSUME OnePlan', NEW t \in Txns, NEW f \in Files, Targets(t, f)
      PROVE  /\ After(t, f) # InitFiles[f]
             /\ \A u \in Txns : Targets(u, f) /\ After(u, f) = After(t, f) => SamePlan(u, t)
  BY <1>2 DEF PlansKept, OnePlan, SamePlan, Targets, After
<1>. QED BY <1>1, <1>2 DEF OneOrigin, OnePlan

(* The path of a file that no step writes.                                  *)
LEMMA PathKept ==
  ASSUME NEW f \in Files, NEW C, Path(f, C), files'[f] = files[f], UNCHANGED manifest,
         \A t \in Txns : Targets(t, f) /\ After(t, f) \in C /\ Alive(t) => Alive(t)'
  PROVE  Path(f, C)'
<1>1. \A t \in Txns : Targets(t, f)' = Targets(t, f) /\ Before(t, f)' = Before(t, f) /\ After(t, f)' = After(t, f)
  BY DEF Targets, Before, After
<1>. QED BY <1>1 DEF Path

(* A new plan does not start where the path went on.                        *)
LEMMA NewPlanOffPath ==
  ASSUME NEW f \in Files, NEW C, Path(f, C), PlansKept, OneOrigin', NEW t \in Txns,
         manifest[t] = None, Targets(t, f)', Before(t, f)' = files[f]
  PROVE  After(t, f)' \notin C
<1>. SUFFICES ASSUME After(t, f)' \in C PROVE FALSE
  OBVIOUS
<1>1. After(t, f)' # InitFiles[f]
  BY DEF OneOrigin
<1>2. PICK u \in Txns : Targets(u, f) /\ After(u, f) = After(t, f)'
  BY <1>1 DEF Path
<1>3. Targets(u, f)' /\ After(u, f)' = After(u, f) /\ Before(u, f)' = Before(u, f)
  BY <1>2 DEF PlansKept, Targets, After, Before
<1>4. Before(u, f) = files[f]
  BY <1>2, <1>3 DEF OneOrigin
<1>. QED BY <1>2, <1>4 DEF Path

LEMMA MakePlanPath ==
  ASSUME NEW f \in Files, NEW C, Path(f, C), PlansKept, OneOrigin', NEW t \in Txns,
         manifest[t] = None, \A u \in Txns : u # t => manifest'[u] = manifest[u],
         Targets(t, f)' => Before(t, f)' = files[f],
         UNCHANGED <<files, AbstractStatus>>
  PROVE  Path(f, C)'
<1>1. \A u \in Txns : Alive(u)' = Alive(u)
  BY DEF Alive
<1>2. Targets(t, f)' => After(t, f)' \notin C
  BY NewPlanOffPath
<1>3. \A u \in Txns : u # t => /\ Targets(u, f)' = Targets(u, f)
                              /\ Before(u, f)' = Before(u, f) /\ After(u, f)' = After(u, f)
  BY DEF Targets, Before, After
<1>4. ~Targets(t, f)
  BY DEF Targets
<1>. QED BY <1>1, <1>2, <1>3, <1>4 DEF Path

(* An application puts its content at the end of the path.                  *)
LEMMA WritePath ==
  ASSUME NEW f \in Files, NEW C, Path(f, C), OneOrigin, NEW t \in Txns, Targets(t, f), Alive(t),
         files[f] = Before(t, f), files'[f] = After(t, f), UNCHANGED <<manifest, AbstractStatus>>
  PROVE  Path(f, C \union {After(t, f)})'
<1>. DEFINE v == After(t, f)
            D == C \union {v}
<1>1. \A u \in Txns : /\ Targets(u, f)' = Targets(u, f) /\ Alive(u)' = Alive(u)
                     /\ Before(u, f)' = Before(u, f) /\ After(u, f)' = After(u, f)
  BY DEF Targets, Before, After, Alive
<1>2. v \notin C /\ v # InitFiles[f] /\ files[f] \in C
  BY DEF Path, OneOrigin
<1>3. \A u \in Txns : Targets(u, f) /\ After(u, f) = v => Before(u, f) = files[f]
  BY DEF OneOrigin
<1>4. \A u \in Txns : Targets(u, f) /\ After(u, f) \in C => Before(u, f) \in C /\ Before(u, f) # files[f]
  <2>. SUFFICES ASSUME NEW u \in Txns, Targets(u, f), After(u, f) \in C PROVE Before(u, f) \in C
    BY DEF Path
  <2>1. PICK w \in Txns : Targets(w, f) /\ After(w, f) = After(u, f) /\ Before(w, f) \in C
    BY DEF Path, OneOrigin
  <2>. QED BY <2>1 DEF OneOrigin
<1>. HIDE DEF v
<1>5. InitFiles[f] \in D /\ files'[f] \in D
  BY DEF Path, v
<1>6. \A w \in D : w # InitFiles[f] =>
        \E u \in Txns : Targets(u, f) /\ Alive(u) /\ After(u, f) = w /\ Before(u, f) \in D
  BY <1>2 DEF Path, v
<1>7. \A u \in Txns : Targets(u, f) /\ After(u, f) \in D => Before(u, f) # v
  BY <1>2, <1>3, <1>4
<1>8. \A u, w \in Txns :
        /\ Targets(u, f) /\ After(u, f) \in D /\ Targets(w, f) /\ After(w, f) \in D
        /\ Before(u, f) = Before(w, f)
        => After(u, f) = After(w, f)
  BY <1>2, <1>3, <1>4 DEF Path
<1>9. Path(f, D)'
  BY <1>1, <1>5, <1>6, <1>7, <1>8 DEF Path, v
<1>. QED BY <1>9 DEF v

(* A restoration takes its content off the end of the path.                 *)
LEMMA RestorePath ==
  ASSUME NEW f \in Files, NEW C, Path(f, C), OneOrigin, NEW t \in Txns, Targets(t, f),
         files[f] = After(t, f), files'[f] = Before(t, f), UNCHANGED <<manifest, AbstractStatus>>
  PROVE  Path(f, C \ {After(t, f)})'
<1>. DEFINE v == After(t, f)
            D == C \ {v}
<1>1. \A u \in Txns : /\ Targets(u, f)' = Targets(u, f) /\ Alive(u)' = Alive(u)
                     /\ Before(u, f)' = Before(u, f) /\ After(u, f)' = After(u, f)
  BY DEF Targets, Before, After, Alive
<1>2. v \in C /\ v # InitFiles[f] /\ Before(t, f) # v
  BY DEF Path, OneOrigin
<1>3. Before(t, f) \in C
  <2>1. PICK w \in Txns : Targets(w, f) /\ After(w, f) = v /\ Before(w, f) \in C
    BY <1>2 DEF Path
  <2>. QED BY <2>1 DEF OneOrigin
<1>4. InitFiles[f] \in D /\ files'[f] \in D
  BY <1>2, <1>3 DEF Path
<1>5. \A w \in D : w # InitFiles[f] =>
        \E u \in Txns : Targets(u, f) /\ Alive(u) /\ After(u, f) = w /\ Before(u, f) \in D
  <2>. SUFFICES ASSUME NEW w \in D, w # InitFiles[f]
                PROVE  \E u \in Txns : Targets(u, f) /\ Alive(u) /\ After(u, f) = w /\ Before(u, f) \in D
    OBVIOUS
  <2>1. PICK u \in Txns : Targets(u, f) /\ Alive(u) /\ After(u, f) = w /\ Before(u, f) \in C
    BY DEF Path
  <2>2. Before(u, f) # v
    BY <2>1 DEF Path
  <2>. QED BY <2>1, <2>2
<1>6. \A u \in Txns : Targets(u, f) /\ After(u, f) \in D => Before(u, f) # files'[f]
  BY <1>2 DEF Path
<1>7. \A u, w \in Txns :
        /\ Targets(u, f) /\ After(u, f) \in D /\ Targets(w, f) /\ After(w, f) \in D
        /\ Before(u, f) = Before(w, f)
        => After(u, f) = After(w, f)
  BY DEF Path
<1>. HIDE DEF v
<1>8. Path(f, D)'
  BY <1>1, <1>4, <1>5, <1>6, <1>7 DEF Path, v
<1>. QED BY <1>8 DEF v

LEMMA WholeWitness ==
  ASSUME NEW paths, Whole(paths), NEW t \in Txns, NEW f \in Files, Targets(t, f), After(t, f) \in paths[f]
  PROVE  \/ \A g \in manifest[t].files : After(t, g) \in paths[g]
         \/ \E u \in Txns : SamePlan(u, t) /\ Unsettled(u)
BY DEF Whole

(* A change of the record.  What is no longer alive is on no path, and what *)
(* is settled is on all of its paths or on none.                            *)
LEMMA RecordTraced ==
  ASSUME Inv, NEW paths, Traced(paths), NEW t \in Txns, NEW to,
         \A u \in Txns : AbstractStatus'[u] = IF u = t THEN to ELSE AbstractStatus[u],
         UNCHANGED <<files, manifest>>, faults' = 0 => faults = 0, manifest[t] # None,
         \/ Alive(t) => Alive(t)'
         \/ \A f \in manifest[t].files : After(t, f) \notin paths[f],
         \/ Unsettled(t) => Unsettled(t)'
         \/ \A f \in manifest[t].files : After(t, f) \in paths[f]
         \/ \A f \in manifest[t].files : After(t, f) \notin paths[f]
  PROVE  Traced(paths)'
<1>1. \A u \in Txns : u # t => Alive(u)' = Alive(u) /\ Unsettled(u)' = Unsettled(u)
  BY DEF Alive, Unsettled
<1>2. \A u \in Txns, f \in Files : Targets(u, f) /\ After(u, f) \in paths[f] /\ Alive(u) => Alive(u)'
  BY <1>1 DEF Targets
<1>3. \A f \in Files : Path(f, paths[f])'
  BY <1>2, PathKept DEF Traced
<1>4. ASSUME OnePlan', faults' = 0 PROVE Whole(paths)'
  <2>1. Whole(paths)
    BY <1>4 DEF Traced, OnePlan, Targets, After, SamePlan
  <2>2. \A u, w \in Txns : /\ SamePlan(u, w)' = SamePlan(u, w)
                          /\ \A f \in Files : Targets(u, f)' = Targets(u, f) /\ After(u, f)' = After(u, f)
    BY DEF SamePlan, Targets, After
  <2>3. ASSUME NEW w \in Txns, NEW f \in Files, Targets(w, f), After(w, f) \in paths[f]
        PROVE  \/ \A g \in manifest[w].files : After(w, g) \in paths[g]
               \/ \E u \in Txns : SamePlan(u, w) /\ Unsettled(u)'
    <3>1. CASE \A g \in manifest[w].files : After(w, g) \in paths[g]
      BY <3>1
    <3>2. ASSUME NEW u \in Txns, SamePlan(u, w), Unsettled(u)
          PROVE  \/ \A g \in manifest[w].files : After(w, g) \in paths[g]
                 \/ \E x \in Txns : SamePlan(x, w) /\ Unsettled(x)'
      <4>1. CASE u # t \/ Unsettled(u)'
        BY <1>1, <3>2, <4>1
      <4>2. CASE u = t /\ ~Unsettled(u)'
        <5>1. /\ manifest[w].files = manifest[t].files
              /\ \A g \in manifest[t].files : After(w, g) = After(t, g)
          BY <3>2, <4>2 DEF SamePlan, After
        <5>2. f \in manifest[t].files /\ After(t, f) \in paths[f]
          BY <2>3, <5>1 DEF Targets
        <5>3. \A g \in manifest[t].files : After(t, g) \in paths[g]
          BY <3>2, <4>2, <5>2
        <5>. QED BY <5>1, <5>3
      <4>. QED BY <4>1, <4>2
    <3>. QED BY <2>1, <2>3, <3>1, <3>2, WholeWitness
  <2>4. \A w \in Txns : \A g \in manifest[w].files : After(w, g)' = After(w, g)
    BY DEF After
  <2>. QED BY <2>2, <2>3, <2>4 DEF Whole
<1>. QED BY <1>3, <1>4 DEF Traced

LEMMA PlannedFiles ==
  ASSUME Inv, NEW t \in Txns, manifest[t] # None
  PROVE  manifest[t].files \subseteq Files /\ \A f \in manifest[t].files : Targets(t, f)
<1>1. manifest[t] \in Manifests
  BY DEF Inv, TypeOK
<1>. QED BY <1>1 DEF Manifests, Targets

LEMMA MakePlanTraced ==
  ASSUME Inv, Inv', NEW paths, Traced(paths), OneOrigin', edits = 0, NEW t \in Txns, Abstract!MakePlan(t),
         faults' = 0 => faults = 0
  PROVE  Traced(paths)'
<1>1. /\ manifest[t] = None /\ manifest'[t] # None
      /\ \A f \in manifest'[t].files : files[f] = manifest'[t].before[f]
      /\ manifest' = [manifest EXCEPT ![t] = manifest'[t]] /\ UNCHANGED <<files, AbstractStatus>>
  BY NoneAssumption DEF Abstract!MakePlan
<1>2. \A u \in Txns : u # t => manifest'[u] = manifest[u]
  BY <1>1 DEF Inv, TypeOK
<1>3. PlansKept
  BY <1>1, <1>2 DEF PlansKept
<1>4. \A f \in Files : Targets(t, f)' => Before(t, f)' = files[f]
  BY <1>1 DEF Targets, Before
<1>5. \A f \in Files : Path(f, paths[f])'
  BY <1>1, <1>2, <1>3, <1>4, MakePlanPath DEF Traced
<1>6. ASSUME OnePlan', faults' = 0 PROVE Whole(paths)'
  <2>1. Whole(paths)
    BY <1>3, <1>6, AskedBefore DEF Traced
  <2>2. \A f \in Files : Targets(t, f)' => After(t, f)' \notin paths[f]
    BY <1>1, <1>3, <1>4, NewPlanOffPath DEF Traced
  <2>3. \A u \in Txns : Unsettled(u)' = Unsettled(u)
    BY <1>1 DEF Unsettled, Alive
  <2>4. \A u, w \in Txns : SamePlan(u, w) /\ manifest[w] # None => SamePlan(u, w)'
    BY <1>3 DEF SamePlan, PlansKept
  <2>5. \A w \in Txns : w # t =>
          /\ manifest'[w] = manifest[w]
          /\ \A f \in Files : Targets(w, f)' = Targets(w, f)
          /\ \A f : After(w, f)' = After(w, f)
    BY <1>2 DEF Targets, After
  <2>6. ASSUME NEW w \in Txns, NEW f \in Files, Targets(w, f)', After(w, f)' \in paths[f]
        PROVE  \/ \A g \in manifest'[w].files : After(w, g)' \in paths[g]
               \/ \E u \in Txns : SamePlan(u, w)' /\ Unsettled(u)'
    <3>1. w # t
      BY <2>2, <2>6
    <3>2. Targets(w, f) /\ After(w, f) \in paths[f] /\ manifest[w] # None
      BY <2>5, <2>6, <3>1 DEF Targets
    <3>. QED BY <2>1, <2>3, <2>4, <2>5, <3>1, <3>2, WholeWitness
  <2>. QED BY <2>6 DEF Whole
<1>. QED BY <1>5, <1>6 DEF Traced

(* A move of one file of t, with what becomes of its path.                  *)
LEMMA MoveTraced ==
  ASSUME Inv, NEW paths \in [Files -> SUBSET Value], Traced(paths), NEW t \in Txns, NEW f \in Files, Targets(t, f),
         NEW D \in SUBSET Value, Path(f, D)',
         paths[f] \ {After(t, f)} \subseteq D, D \subseteq paths[f] \union {After(t, f)},
         \A g \in Files : g # f => files'[g] = files[g],
         UNCHANGED <<manifest, AbstractStatus>>, faults' = 0 => faults = 0 /\ Unsettled(t)
  PROVE  Traced([paths EXCEPT ![f] = D])'
<1>. DEFINE moved == [paths EXCEPT ![f] = D]
<1>1. moved[f] = D /\ \A g \in Files : g # f => moved[g] = paths[g]
  OBVIOUS
<1>. HIDE DEF moved
<1>2. /\ \A u \in Txns : Alive(u)' = Alive(u) /\ Unsettled(u)' = Unsettled(u)
      /\ \A u, w \in Txns : SamePlan(u, w)' = SamePlan(u, w)
      /\ \A u \in Txns : \A g : After(u, g)' = After(u, g) /\ Targets(u, g)' = Targets(u, g)
  BY DEF Alive, Unsettled, SamePlan, Targets, After
<1>3. \A g \in Files : Path(g, moved[g])'
  <2>. SUFFICES ASSUME NEW g \in Files, g # f PROVE Path(g, paths[g])'
    BY <1>1
  <2>. QED BY <1>2, PathKept DEF Traced
<1>4. ASSUME OnePlan', faults' = 0 PROVE Whole(moved)'
  <2>1. Whole(paths) /\ OnePlan /\ Unsettled(t)
    BY <1>4, AskedBefore DEF Traced, PlansKept
  <2>2. \A w \in Txns, g \in Files :
          Targets(w, g) /\ (After(w, g) \in moved[g] <=> After(w, g) \notin paths[g]) => SamePlan(t, w)
    <3>. SUFFICES ASSUME NEW w \in Txns, NEW g \in Files, Targets(w, g),
                         After(w, g) \in moved[g] <=> After(w, g) \notin paths[g]
                  PROVE  SamePlan(t, w)
      OBVIOUS
    <3>1. g = f /\ After(w, g) = After(t, f)
      BY <1>1
    <3>. QED BY <2>1, <3>1 DEF OnePlan
  <2>3. ASSUME NEW w \in Txns, NEW g \in Files, Targets(w, g), After(w, g) \in moved[g]
        PROVE  \/ \A h \in manifest[w].files : After(w, h) \in moved[h]
               \/ \E u \in Txns : SamePlan(u, w) /\ Unsettled(u)
    <3>1. CASE SamePlan(t, w)
      BY <2>1, <3>1
    <3>2. CASE ~SamePlan(t, w)
      <4>1. After(w, g) \in paths[g]
        BY <2>2, <2>3, <3>2
      <4>2. manifest[w] # None
        BY <2>3 DEF Targets
      <4>3. \A h \in manifest[w].files : h \in Files /\ (After(w, h) \in moved[h] <=> After(w, h) \in paths[h])
        BY <2>2, <3>2, <4>2, PlannedFiles
      <4>. QED BY <2>1, <2>3, <4>1, <4>3, WholeWitness
    <3>. QED BY <3>1, <3>2
  <2>. QED BY <1>2, <2>3 DEF Whole
<1>5. Traced(moved)'
  BY <1>3, <1>4 DEF Traced
<1>. QED BY <1>5 DEF moved

LEMMA RecordChanged ==
  ASSUME NEW t \in Txns, NEW from, NEW to, Abstract!OnRecord(t, from, to)
  PROVE  /\ \A u \in Txns : AbstractStatus'[u] = IF u = t THEN to ELSE AbstractStatus[u]
         /\ AbstractStatus[t] \in from /\ manifest[t] # None /\ UNCHANGED <<files, manifest>>
<1>1. AbstractStatus' = [AbstractStatus EXCEPT ![t] = to]
  BY DEF Abstract!OnRecord
<1>2. \A u \in Txns : [AbstractStatus EXCEPT ![t] = to][u] = IF u = t THEN to ELSE AbstractStatus[u]
  BY DEF AbstractStatus
<1>. QED BY <1>1, <1>2 DEF Abstract!OnRecord

LEMMA OnRecordTraced ==
  ASSUME Inv, NEW paths, Traced(paths), edits = 0, faults' = 0 => faults = 0, NEW t \in Txns,
         \/ Abstract!Prepare(t) \/ Abstract!Begin(t) \/ Abstract!Commit(t)
         \/ Abstract!StartRollback(t) \/ Abstract!RollBack(t) \/ Abstract!FailRollback(t)
  PROVE  Traced(paths)'
<1>1. ~(edits > 0)
  OBVIOUS
<1>2. CASE Abstract!Prepare(t)
  <2>1. /\ \A u \in Txns : AbstractStatus'[u] = IF u = t THEN "prepared" ELSE AbstractStatus[u]
        /\ AbstractStatus[t] = "none" /\ manifest[t] # None /\ UNCHANGED <<files, manifest>>
    BY <1>2, RecordChanged DEF Abstract!Prepare
  <2>2. ~Alive(t) /\ ~Unsettled(t)
    BY <2>1 DEF Alive, Unsettled
  <2>. QED BY <2>1, <2>2, RecordTraced
<1>3. CASE Abstract!Begin(t)
  <2>1. /\ \A u \in Txns : AbstractStatus'[u] = IF u = t THEN "applying" ELSE AbstractStatus[u]
        /\ manifest[t] # None /\ UNCHANGED <<files, manifest>>
    BY <1>3, RecordChanged DEF Abstract!Begin
  <2>2. Alive(t)' /\ Unsettled(t)'
    BY <2>1 DEF Alive, Unsettled
  <2>. QED BY <2>1, <2>2, RecordTraced
<1>4. CASE Abstract!Commit(t)
  <2>1. /\ \A u \in Txns : AbstractStatus'[u] = IF u = t THEN "committed" ELSE AbstractStatus[u]
        /\ manifest[t] # None /\ UNCHANGED <<files, manifest>>
    BY <1>4, RecordChanged DEF Abstract!Commit
  <2>2. Alive(t)'
    BY <2>1 DEF Alive
  <2>3. \A f \in manifest[t].files : f \in Files /\ files[f] = After(t, f)
    BY <1>1, <1>4, <2>1, PlannedFiles DEF Abstract!Commit, Abstract!AllAfter, After
  <2>4. \A f \in manifest[t].files : After(t, f) \in paths[f]
    BY <2>3 DEF Traced, Path
  <2>. QED BY <2>1, <2>2, <2>4, RecordTraced
<1>5. CASE Abstract!StartRollback(t)
  <2>1. /\ \A u \in Txns : AbstractStatus'[u] = IF u = t THEN "rollback_started" ELSE AbstractStatus[u]
        /\ manifest[t] # None /\ UNCHANGED <<files, manifest>>
    BY <1>5, RecordChanged DEF Abstract!StartRollback
  <2>2. Alive(t)' /\ Unsettled(t)'
    BY <2>1 DEF Alive, Unsettled
  <2>. QED BY <2>1, <2>2, RecordTraced
<1>6. CASE Abstract!RollBack(t)
  <2>1. /\ \A u \in Txns : AbstractStatus'[u] = IF u = t THEN "rolled_back" ELSE AbstractStatus[u]
        /\ manifest[t] # None /\ UNCHANGED <<files, manifest>>
    BY <1>6, RecordChanged DEF Abstract!RollBack
  <2>2. \A f \in manifest[t].files : f \in Files /\ Targets(t, f) /\ files[f] = Before(t, f)
    BY <1>1, <1>6, <2>1, PlannedFiles DEF Abstract!RollBack, Abstract!AllBefore, Before
  <2>3. \A f \in manifest[t].files : After(t, f) \notin paths[f]
    BY <2>2 DEF Traced, Path
  <2>. QED BY <2>1, <2>3, RecordTraced
<1>7. CASE Abstract!FailRollback(t)
  <2>1. /\ \A u \in Txns : AbstractStatus'[u] = IF u = t THEN "rollback_failed" ELSE AbstractStatus[u]
        /\ manifest[t] # None /\ UNCHANGED <<files, manifest>>
    BY <1>7, RecordChanged DEF Abstract!FailRollback
  <2>2. Alive(t)' /\ Unsettled(t)'
    BY <2>1 DEF Alive, Unsettled
  <2>. QED BY <2>1, <2>2, RecordTraced
<1>. QED BY <1>2, <1>3, <1>4, <1>5, <1>6, <1>7

LEMMA WriteTraced ==
  ASSUME Inv, NEW paths \in [Files -> SUBSET Value], Traced(paths), OneOrigin, faults' = 0 => faults = 0,
         NEW t \in Txns, NEW f \in Files, Abstract!Write(t, f)
  PROVE  \E moved \in [Files -> SUBSET Value] : Traced(moved)'
<1>. DEFINE D == paths[f] \union {After(t, f)}
<1>1. /\ Targets(t, f) /\ AbstractStatus[t] = "applying"
      /\ files[f] = Before(t, f) /\ files' = [files EXCEPT ![f] = After(t, f)]
      /\ UNCHANGED <<manifest, AbstractStatus>>
  BY DEF Abstract!Write, Abstract!Move, Targets, Before, After
<1>2. files'[f] = After(t, f) /\ \A g \in Files : g # f => files'[g] = files[g]
  BY <1>1 DEF Inv, TypeOK
<1>3. Alive(t) /\ Unsettled(t)
  BY <1>1 DEF Alive, Unsettled
<1>4. After(t, f) \in Value
  BY <1>1 DEF Inv, TypeOK, Targets, After, Manifests
<1>5. D \in SUBSET Value /\ paths[f] \ {After(t, f)} \subseteq D /\ D \subseteq paths[f] \union {After(t, f)}
  BY <1>4
<1>6. Path(f, D)'
  BY <1>1, <1>2, <1>3, WritePath DEF Traced
<1>7. UNCHANGED After(t, f)
  BY <1>1 DEF After
<1>8. D' = D
  BY <1>7
<1>. HIDE DEF D
<1>9. Traced([paths EXCEPT ![f] = D])'
  BY <1>1, <1>2, <1>3, <1>5, <1>6, <1>8, MoveTraced
<1>10. [paths EXCEPT ![f] = D] \in [Files -> SUBSET Value]
  BY <1>5
<1>. QED BY <1>8, <1>9, <1>10

LEMMA RestoreTraced ==
  ASSUME Inv, NEW paths \in [Files -> SUBSET Value], Traced(paths), OneOrigin, faults' = 0 => faults = 0,
         NEW t \in Txns, NEW f \in Files, Abstract!Restore(t, f)
  PROVE  \E moved \in [Files -> SUBSET Value] : Traced(moved)'
<1>. DEFINE D == paths[f] \ {After(t, f)}
<1>1. /\ Targets(t, f)
      /\ AbstractStatus[t] = "rollback_started" \/ faults > 0
      /\ files[f] = After(t, f) /\ files' = [files EXCEPT ![f] = Before(t, f)]
      /\ UNCHANGED <<manifest, AbstractStatus>>
  BY DEF Abstract!Restore, Abstract!Move, Targets, Before, After
<1>2. files'[f] = Before(t, f) /\ \A g \in Files : g # f => files'[g] = files[g]
  BY <1>1 DEF Inv, TypeOK
<1>3. faults' = 0 => Unsettled(t)
  <2>1. faults = 0 => ~(faults > 0)
    OBVIOUS
  <2>. QED BY <1>1, <2>1 DEF Alive, Unsettled
<1>5. D \in SUBSET Value /\ paths[f] \ {After(t, f)} \subseteq D /\ D \subseteq paths[f] \union {After(t, f)}
  OBVIOUS
<1>6. Path(f, D)'
  BY <1>1, <1>2, RestorePath DEF Traced
<1>7. UNCHANGED After(t, f)
  BY <1>1 DEF After
<1>8. D' = D
  BY <1>7
<1>. HIDE DEF D
<1>9. Traced([paths EXCEPT ![f] = D])'
  BY <1>1, <1>2, <1>3, <1>5, <1>6, <1>8, MoveTraced
<1>10. [paths EXCEPT ![f] = D] \in [Files -> SUBSET Value]
  BY <1>5
<1>. QED BY <1>8, <1>9, <1>10

LEMMA StillTraced ==
  ASSUME NEW paths, Traced(paths), UNCHANGED <<files, manifest, AbstractStatus>>, faults' = 0 => faults = 0
  PROVE  Traced(paths)'
<1>1. \A u, w \in Txns : SamePlan(u, w)' = SamePlan(u, w)
  BY DEF SamePlan
<1>2. \A u \in Txns : /\ Alive(u)' = Alive(u) /\ Unsettled(u)' = Unsettled(u)
                     /\ \A g : After(u, g)' = After(u, g) /\ Targets(u, g)' = Targets(u, g)
  BY DEF Alive, Unsettled, After, Targets
<1>3. \A f \in Files : Path(f, paths[f])'
  BY <1>2, PathKept DEF Traced
<1>4. OnePlan' => OnePlan
  BY AskedBefore DEF PlansKept
<1>5. Whole(paths) => Whole(paths)'
  BY <1>1, <1>2 DEF Whole
<1>. QED BY <1>3, <1>4, <1>5 DEF Traced

LEMMA TracingNext == Known /\ Known' /\ Tracing /\ [Next]_vars => Tracing'
<1>. SUFFICES ASSUME Known, Known', Tracing, [Next]_vars, edits' = 0, OneOrigin'
              PROVE  \E moved \in [Files -> SUBSET Value] : Traced(moved)'
  BY DEF Tracing
<1>0. Inv /\ Inv' /\ TypeOK
  BY DEF Known, Inv
<1>1. edits = 0 /\ (faults' = 0 => faults = 0)
  <2>1. ASSUME NEW p \in Procs, Acts(p) PROVE edits = 0 /\ (faults' = 0 => faults = 0)
    <3>1. faults' \in {faults, faults + 1} /\ edits' = edits /\ faults \in Nat
      BY <1>0, <2>1, FaultsGrow, OutsideTheLock DEF TypeOK
    <3>. QED BY <3>1
  <2>2. CASE (\E f \in Files, v \in Value : UserWrites(f, v)) \/ UserCommits
    <3>1. edits' = edits + 1 /\ edits \in Nat
      BY <1>0, <2>2 DEF UserWrites, UserCommits, TypeOK
    <3>. QED BY <3>1
  <2>. QED BY <2>1, <2>2 DEF Next, Acts, vars, budgetVars
<1>2. [Abstract!Next]_(Abstract!vars)
  BY <1>1, StepRefines
<1>3. CASE UNCHANGED <<files, manifest, AbstractStatus>>
  <2>1. PlansKept
    BY <1>3 DEF PlansKept
  <2>2. PICK paths \in [Files -> SUBSET Value] : Traced(paths)
    BY <1>1, <2>1, AskedBefore DEF Tracing
  <2>. QED BY <1>1, <1>3, <2>2, StillTraced
<1>4. ASSUME NEW t \in Txns, Abstract!MakePlan(t) PROVE \E moved \in [Files -> SUBSET Value] : Traced(moved)'
  <2>1. manifest[t] = None /\ manifest' = [manifest EXCEPT ![t] = manifest'[t]]
    BY <1>4 DEF Abstract!MakePlan
  <2>2. PlansKept
    BY <1>0, <2>1 DEF PlansKept, TypeOK
  <2>3. PICK paths \in [Files -> SUBSET Value] : Traced(paths)
    BY <1>1, <2>2, AskedBefore DEF Tracing
  <2>. QED BY <1>0, <1>1, <1>4, <2>3, MakePlanTraced
<1>5. ASSUME UNCHANGED manifest PROVE PlansKept
  BY <1>5 DEF PlansKept
<1>6. ASSUME NEW t \in Txns,
             \/ Abstract!Prepare(t) \/ Abstract!Begin(t) \/ Abstract!Commit(t)
             \/ Abstract!StartRollback(t) \/ Abstract!RollBack(t) \/ Abstract!FailRollback(t)
      PROVE  \E moved \in [Files -> SUBSET Value] : Traced(moved)'
  <2>1. UNCHANGED manifest
    BY <1>6 DEF Abstract!Prepare, Abstract!Begin, Abstract!Commit, Abstract!StartRollback,
                Abstract!RollBack, Abstract!FailRollback, Abstract!OnRecord
  <2>2. PICK paths \in [Files -> SUBSET Value] : Traced(paths)
    BY <1>1, <1>5, <2>1, AskedBefore DEF Tracing
  <2>. QED BY <1>0, <1>1, <1>6, <2>2, OnRecordTraced
<1>7. ASSUME NEW t \in Txns, NEW f \in Files, Abstract!Write(t, f) \/ Abstract!Restore(t, f)
      PROVE  \E moved \in [Files -> SUBSET Value] : Traced(moved)'
  <2>1. UNCHANGED manifest
    BY <1>7 DEF Abstract!Write, Abstract!Restore, Abstract!Move
  <2>2. OneOrigin
    BY <1>5, <2>1, AskedBefore
  <2>3. PICK paths \in [Files -> SUBSET Value] : Traced(paths)
    BY <1>1, <2>2 DEF Tracing
  <2>. QED BY <1>0, <1>1, <1>7, <2>2, <2>3, WriteTraced, RestoreTraced
<1>8. ~Abstract!Edit
  <2>1. ~(edits' > 0)
    BY <1>1
  <2>. QED BY <2>1 DEF Abstract!Edit
<1>. QED BY <1>2, <1>3, <1>4, <1>6, <1>7, <1>8 DEF Abstract!Next, Abstract!Fault, Abstract!vars

LEMMA TracingInit == Init => Tracing
<1>. SUFFICES ASSUME Init PROVE \E paths \in [Files -> SUBSET Value] : Traced(paths)
  BY DEF Tracing
<1>. DEFINE paths == [f \in Files |-> {InitFiles[f]}]
<1>1. paths \in [Files -> SUBSET Value]
  BY ConstantsAssumption
<1>2. \A t \in Txns, f \in Files : ~Targets(t, f)
  BY DEF Init, Targets
<1>3. \A f \in Files : Path(f, paths[f])
  BY <1>2 DEF Init, Path
<1>4. Whole(paths)
  BY <1>2 DEF Whole
<1>. QED BY <1>1, <1>3, <1>4 DEF Traced

LEMMA TracingAlways == Spec => [](Known /\ Tracing)
<1>1. Init => Known /\ Tracing
  BY KnownInit, TracingInit
<1>2. Known /\ Tracing /\ [Next]_vars => (Known /\ Tracing)'
  BY KnownNext, TracingNext
<1>. QED BY <1>1, <1>2, PTL DEF Spec

(* What is alive on record is there to be inspected.                        *)
LEMMA AliveValid ==
  ASSUME Inv, ~SyncFaults, NEW t \in Txns, manifest[t] # None, Alive(t)
  PROVE  /\ InspectionValid(t) /\ LastState(t) \notin {"none", "prepared", "rolled_back"}
         /\ Unsettled(t) => LastState(t) # "committed"
<1>1. LastState(t) \notin {"none", "prepared", "rolled_back"} /\ (Unsettled(t) => LastState(t) # "committed")
  BY DEF Alive, Unsettled, AbstractStatus
<1>2. journal[t] # <<>>
  BY <1>1 DEF LastState
<1>. QED BY <1>1, <1>2 DEF Inv, RunOK, InspectionValid

(* As long as each content has one origin, and a directory sync does not    *)
(* fail after its rename, no crash, no failed preparation or rollback, and  *)
(* no order of applications, undos and recoveries of any number of          *)
(* transactions, leaves a file with a content that is neither the initial   *)
(* one nor that of a transaction that is committed or can be rolled back.   *)
(* With contents written back over others it would not hold: see README.    *)
THEOREM ChangesAccountedHolds ==
  ASSUME ~SyncFaults
  PROVE  Spec => [](OneOrigin => ChangesAccounted)
<1>1. Known /\ Tracing => (OneOrigin => ChangesAccounted)
  <2>. SUFFICES ASSUME Known, Tracing, OneOrigin, edits = 0, NEW f \in Files, files[f] # InitFiles[f]
                PROVE  \E t \in Txns : /\ InspectionValid(t)
                                       /\ LastState(t) \notin {"prepared", "rolled_back"}
                                       /\ f \in manifest[t].files /\ files[f] = manifest[t].after[f]
    BY DEF ChangesAccounted
  <2>1. PICK paths \in [Files -> SUBSET Value] : Traced(paths)
    BY DEF Tracing
  <2>2. PICK t \in Txns : Targets(t, f) /\ Alive(t) /\ After(t, f) = files[f]
    BY <2>1 DEF Traced, Path
  <2>. QED BY <2>2, AliveValid DEF Known, Targets, After
<1>. QED BY <1>1, TracingAlways, PTL

(* As long as transactions that write the same content to a file have one   *)
(* plan, and no I/O error has happened, a transaction whose files are partly*)
(* before and partly after it is listed as recoverable, or one with the     *)
(* same plan is: at any moment, after any crashes and in any order of       *)
(* operations.                                                              *)
THEOREM PartialIsRecoverableHolds ==
  ASSUME ~SyncFaults
  PROVE  Spec => [](OnePlan /\ faults = 0 => PartialIsRecoverable)
<1>1. Known /\ Tracing => (OnePlan /\ faults = 0 => PartialIsRecoverable)
  <2>. SUFFICES ASSUME Known, Tracing, OnePlan, faults = 0, edits = 0,
                       NEW t \in Txns, manifest[t] # None,
                       NEW f \in manifest[t].files, NEW g \in manifest[t].files,
                       files[f] = manifest[t].before[f], files[g] = manifest[t].after[g]
                PROVE  \E u \in Txns : Recoverable(u) /\ manifest[u].files \intersect {f, g} # {}
    BY DEF PartialIsRecoverable
  <2>1. Inv
    BY DEF Known
  <2>2. f \in Files /\ g \in Files /\ Targets(t, f) /\ Targets(t, g)
    BY <2>1, PlannedFiles
  <2>3. PICK paths \in [Files -> SUBSET Value] : Traced(paths)
    BY OnePlanOneOrigin DEF Tracing
  <2>4. After(t, g) \in paths[g] /\ After(t, f) \notin paths[f]
    BY <2>2, <2>3 DEF Traced, Path, Before, After
  <2>5. Whole(paths)
    BY <2>3 DEF Traced
  <2>6. PICK u \in Txns : SamePlan(u, t) /\ Unsettled(u)
    BY <2>2, <2>4, <2>5, WholeWitness
  <2>7. manifest[u] # None /\ f \in manifest[u].files /\ Alive(u)
    BY <2>6 DEF SamePlan, Unsettled
  <2>8. Recoverable(u)
    BY <2>1, <2>6, <2>7, AliveValid DEF Recoverable
  <2>. QED BY <2>7, <2>8
<1>. QED BY <1>1, TracingAlways, PTL

-----------------------------------------------------------------------------
(* Why a rollback fails.  As long as the transactions that touch a file     *)
(* plan the same change of it, which a request submitted again does, each   *)
(* file is as they found it or left it.                                     *)

OneChange ==
  \A t, u \in Txns, f \in Files : Targets(t, f) /\ Targets(u, f) =>
    Before(t, f) = Before(u, f) /\ After(t, f) = After(u, f)

Separate ==
  edits = 0 /\ OneChange =>
    \A f \in Files :
      /\ (\A t \in Txns : ~Targets(t, f)) => files[f] = InitFiles[f]
      /\ \A t \in Txns : Targets(t, f) =>
           /\ Before(t, f) = InitFiles[f] /\ After(t, f) # InitFiles[f]
           /\ files[f] \in {Before(t, f), After(t, f)}

LEMMA ChangeKept ==
  ASSUME PlansKept
  PROVE  OneChange' => OneChange
<1>1. \A t \in Txns, f \in Files : Targets(t, f) =>
        Targets(t, f)' /\ Before(t, f)' = Before(t, f) /\ After(t, f)' = After(t, f)
  BY DEF PlansKept, Targets, Before, After
<1>. QED BY <1>1 DEF OneChange

LEMMA SeparateMove ==
  ASSUME Inv, Separate, UNCHANGED <<manifest, edits>>, NEW f \in Files,
         files' = files
         \/ \E t \in Txns : Targets(t, f) /\ files'[f] \in {Before(t, f), After(t, f)}
                            /\ \A g \in Files : g # f => files'[g] = files[g]
  PROVE  Separate'
<1>1. (OneChange' => OneChange)
      /\ \A t \in Txns, g \in Files : /\ Targets(t, g)' = Targets(t, g)
                                      /\ Before(t, g)' = Before(t, g) /\ After(t, g)' = After(t, g)
  BY DEF OneChange, Targets, Before, After
<1>2. CASE files' = files
  BY <1>1, <1>2 DEF Separate
<1>3. ASSUME NEW t \in Txns, Targets(t, f), files'[f] \in {Before(t, f), After(t, f)},
             \A g \in Files : g # f => files'[g] = files[g]
      PROVE  Separate'
  <2>. SUFFICES ASSUME edits = 0, OneChange
                PROVE  \A g \in Files :
                         /\ (\A u \in Txns : ~Targets(u, g)) => files'[g] = InitFiles[g]
                         /\ \A u \in Txns : Targets(u, g) =>
                              /\ Before(u, g) = InitFiles[g] /\ After(u, g) # InitFiles[g]
                              /\ files'[g] \in {Before(u, g), After(u, g)}
    BY <1>1 DEF Separate
  <2>1. \A u \in Txns : Targets(u, f) => Before(u, f) = Before(t, f) /\ After(u, f) = After(t, f)
    BY <1>3 DEF OneChange
  <2>. QED BY <1>3, <2>1 DEF Separate
<1>. QED BY <1>2, <1>3

LEMMA SeparatePlan ==
  ASSUME Inv, Separate, NEW t \in Txns, Abstract!MakePlan(t), UNCHANGED edits
  PROVE  Separate'
<1>1. /\ manifest[t] = None /\ manifest'[t] # None
      /\ \A f \in manifest'[t].files : manifest'[t].before[f] # manifest'[t].after[f]
      /\ edits = 0 => \A f \in manifest'[t].files : files[f] = manifest'[t].before[f]
      /\ manifest' = [manifest EXCEPT ![t] = manifest'[t]] /\ UNCHANGED <<files, AbstractStatus>>
  BY NoneAssumption DEF Abstract!MakePlan
<1>2. \A u \in Txns : u # t => manifest'[u] = manifest[u]
  BY <1>1 DEF Inv, TypeOK
<1>3. \A u \in Txns, f \in Files : u # t => /\ Targets(u, f)' = Targets(u, f)
                                           /\ Before(u, f)' = Before(u, f) /\ After(u, f)' = After(u, f)
  BY <1>2 DEF Targets, Before, After
<1>4. \A f \in Files : ~Targets(t, f)
  BY <1>1 DEF Targets
<1>5. OneChange' => OneChange
  BY <1>1, <1>2, ChangeKept DEF PlansKept
<1>6. edits = 0 => \A f \in Files : Targets(t, f)' => files[f] = Before(t, f)' /\ Before(t, f)' # After(t, f)'
  BY <1>1 DEF Targets, Before, After
<1>. SUFFICES ASSUME edits = 0, OneChange', NEW f \in Files
              PROVE  /\ (\A u \in Txns : ~Targets(u, f)') => files[f] = InitFiles[f]
                     /\ \A u \in Txns : Targets(u, f)' =>
                          /\ Before(u, f)' = InitFiles[f] /\ After(u, f)' # InitFiles[f]
                          /\ files[f] \in {Before(u, f)', After(u, f)'}
  BY <1>1 DEF Separate
<1>7. /\ (\A u \in Txns : ~Targets(u, f)) => files[f] = InitFiles[f]
      /\ \A u \in Txns : Targets(u, f) =>
           /\ Before(u, f) = InitFiles[f] /\ After(u, f) # InitFiles[f]
           /\ files[f] \in {Before(u, f), After(u, f)}
  BY <1>5 DEF Separate
<1>8. CASE ~Targets(t, f)'
  BY <1>3, <1>4, <1>7, <1>8
<1>9. CASE Targets(t, f)'
  <2>1. files[f] = Before(t, f)' /\ Before(t, f)' # After(t, f)'
    BY <1>6, <1>9
  <2>2. CASE \A u \in Txns : ~Targets(u, f)
    BY <1>3, <1>7, <1>9, <2>1, <2>2
  <2>3. ASSUME NEW u \in Txns, Targets(u, f)
        PROVE  Before(t, f)' = InitFiles[f]
    <3>1. u # t /\ Targets(u, f)' /\ Before(u, f)' = Before(u, f)
      BY <1>3, <1>4, <2>3
    <3>2. Before(t, f)' = Before(u, f)'
      BY <1>9, <3>1 DEF OneChange
    <3>. QED BY <1>7, <2>3, <3>1, <3>2
  <2>4. Before(t, f)' = InitFiles[f]
    BY <1>7, <2>1, <2>2, <2>3
  <2>. QED BY <1>3, <1>7, <1>9, <2>1, <2>4
<1>. QED BY <1>8, <1>9

LEMMA SeparateNext == Known /\ Known' /\ Separate /\ [Next]_vars => Separate'
<1>. SUFFICES ASSUME Known, Known', Separate, [Next]_vars PROVE Separate'
  OBVIOUS
<1>0. Inv
  BY DEF Known
<1>1. CASE edits' # 0
  BY <1>1 DEF Separate
<1>2. CASE edits' = 0
  <2>1. UNCHANGED edits
    <3>1. ASSUME NEW p \in Procs, Acts(p) PROVE UNCHANGED edits
      BY <1>0, <3>1, OutsideTheLock DEF Inv
    <3>2. ~((\E f \in Files, v \in Value : UserWrites(f, v)) \/ UserCommits)
      <4>1. edits \in Nat /\ edits' # edits + 1
        BY <1>0, <1>2 DEF Inv, TypeOK
      <4>. QED BY <4>1 DEF UserWrites, UserCommits
    <3>. QED BY <3>1, <3>2 DEF Next, Acts, vars, budgetVars
  <2>2. [Abstract!Next]_(Abstract!vars)
    BY <1>2, <2>1, StepRefines
  <2>3. CASE UNCHANGED <<files, manifest>>
    <3>1. UNCHANGED <<OneChange, edits>> /\
          \A t \in Txns, g \in Files : /\ Targets(t, g)' = Targets(t, g)
                                      /\ Before(t, g)' = Before(t, g) /\ After(t, g)' = After(t, g)
      BY <2>1, <2>3 DEF OneChange, Targets, Before, After
    <3>. QED BY <2>3, <3>1 DEF Separate
  <2>4. ASSUME NEW t \in Txns, Abstract!MakePlan(t) PROVE Separate'
    BY <1>0, <2>1, <2>4, SeparatePlan
  <2>5. ASSUME NEW t \in Txns, NEW f \in Files, Abstract!Write(t, f) \/ Abstract!Restore(t, f) PROVE Separate'
    <3>1. /\ Targets(t, f) /\ UNCHANGED manifest
          /\ \/ files' = [files EXCEPT ![f] = After(t, f)]
             \/ files' = [files EXCEPT ![f] = Before(t, f)]
      BY <2>5 DEF Abstract!Write, Abstract!Restore, Abstract!Move, Targets, Before, After
    <3>2. files'[f] \in {Before(t, f), After(t, f)} /\ \A g \in Files : g # f => files'[g] = files[g]
      BY <1>0, <3>1 DEF Inv, TypeOK
    <3>. QED BY <1>0, <2>1, <3>1, <3>2, SeparateMove
  <2>6. ~Abstract!Edit
    <3>1. ~(edits' > 0)
      BY <1>2
    <3>. QED BY <3>1 DEF Abstract!Edit
  <2>7. \/ UNCHANGED <<files, manifest>>
        \/ \E t \in Txns : Abstract!MakePlan(t)
        \/ \E t \in Txns, f \in Files : Abstract!Write(t, f) \/ Abstract!Restore(t, f)
    BY <2>2, <2>6 DEF Abstract!Next, Abstract!vars, Abstract!Fault, Abstract!Prepare, Abstract!Begin,
                      Abstract!Commit, Abstract!StartRollback, Abstract!RollBack, Abstract!FailRollback,
                      Abstract!OnRecord
  <2>. QED BY <2>3, <2>4, <2>5, <2>7
<1>. QED BY <1>1, <1>2

LEMMA SeparateInit == Init => Separate
<1>. SUFFICES ASSUME Init PROVE Separate
  OBVIOUS
<1>1. \A t \in Txns, f \in Files : ~Targets(t, f)
  BY DEF Init, Targets
<1>. QED BY <1>1 DEF Init, Separate

(* Outside Git, no snapshot is recorded.                                    *)
NoSnapshots ==
  ~GitRepo =>
    /\ \A t \in Txns : manifest[t] # None => manifest[t].git = None
    /\ \A p \in Procs : pc[p] \in {"backup", "manifest"} => loc[p].git = None

(* Without an edit and an I/O error, nothing goes wrong in a rollback.      *)
Undisturbed == edits = 0 /\ faults = 0 /\ OneChange /\ ~GitRepo

RollingBack(p) ==
  pc[p] \in {"restore", "git_restored", "rollback_end"} \/ (pc[p] \in TargetPcs /\ loc[p].undoing)

GoesWell(p) ==
  /\ RollingBack(p) => ~loc[p].errors /\ loc[p].state = "rollback_started"
  /\ pc[p] = "report" => loc[p].outcome # "rollback_failed"

Smooth == Undisturbed => \A p \in Procs : GoesWell(p)

(* Plans are kept by every step, so that what a rollback relies on held     *)
(* before it.                                                               *)
LEMMA UndisturbedBefore ==
  ASSUME Known, Known', [Next]_vars, Undisturbed'
  PROVE  Undisturbed /\ UNCHANGED <<edits, faults>>
<1>0. TypeOK
  BY DEF Known, Inv
<1>1. UNCHANGED <<edits, faults>>
  <2>1. ASSUME NEW p \in Procs, Acts(p) PROVE UNCHANGED <<edits, faults>>
    <3>1. faults' \in {faults, faults + 1} /\ edits' = edits /\ faults \in Nat /\ faults' = 0
      BY <1>0, <2>1, FaultsGrow, OutsideTheLock DEF TypeOK, Undisturbed
    <3>. QED BY <3>1
  <2>2. ~((\E f \in Files, v \in Value : UserWrites(f, v)) \/ UserCommits)
    <3>1. edits \in Nat /\ edits' = 0
      BY <1>0 DEF TypeOK, Undisturbed
    <3>. QED BY <3>1 DEF UserWrites, UserCommits
  <2>. QED BY <2>1, <2>2 DEF Next, Acts, vars, budgetVars
<1>2. [Abstract!Next]_(Abstract!vars)
  BY <1>1, StepRefines DEF Undisturbed
<1>3. PlansKept
  <2>1. ASSUME NEW t \in Txns, Abstract!MakePlan(t) PROVE PlansKept
    <3>1. manifest[t] = None /\ manifest' = [manifest EXCEPT ![t] = manifest'[t]]
      BY <2>1 DEF Abstract!MakePlan
    <3>. QED BY <1>0, <3>1 DEF PlansKept, TypeOK
  <2>2. ASSUME UNCHANGED manifest PROVE PlansKept
    BY <2>2 DEF PlansKept
  <2>3. (\E t \in Txns : Abstract!MakePlan(t)) \/ UNCHANGED manifest
    BY <1>2 DEF Abstract!Next, Abstract!vars, Abstract!Fault, Abstract!Edit, Abstract!Prepare,
                Abstract!Begin, Abstract!Commit, Abstract!StartRollback, Abstract!RollBack,
                Abstract!FailRollback, Abstract!OnRecord, Abstract!Write, Abstract!Restore, Abstract!Move
  <2>. QED BY <2>1, <2>2, <2>3
<1>. QED BY <1>1, <1>3, ChangeKept DEF Undisturbed

LEMMA NoSnapshotsNext == Inv /\ NoSnapshots /\ [Next]_vars => NoSnapshots'
<1>. SUFFICES ASSUME Inv, NoSnapshots, [Next]_vars, ~GitRepo
              PROVE  /\ \A t \in Txns : manifest'[t] # None => manifest'[t].git = None
                     /\ \A p \in Procs : pc'[p] \in {"backup", "manifest"} => loc'[p].git = None
  BY DEF NoSnapshots
<1>0. /\ \A t \in Txns : manifest[t] # None => manifest[t].git = None
      /\ \A p \in Procs : pc[p] \in {"backup", "manifest"} => loc[p].git = None
  BY DEF NoSnapshots
<1>1. ASSUME NEW p \in Procs, Acts(p)
      PROVE  /\ \A t \in Txns : manifest'[t] # None => manifest'[t].git = None
             /\ \A q \in Procs : pc'[q] \in {"backup", "manifest"} => loc'[q].git = None
  <2>1. \A q \in Procs : q # p => pc'[q] = pc[q] /\ loc'[q] = loc[q]
    BY <1>1, ActsFrame DEF Inv
  <2>2. CASE CreateRun(p)
    <3>1. UNCHANGED manifest
      BY <2>2 DEF CreateRun
    <3>2. pc'[p] = "backup" => loc'[p].git = None
      BY <2>2 DEF CreateRun, ReturnError, Goto, Inv, TypeOK, Locals
    <3>3. pc'[p] # "manifest"
      BY <2>2 DEF CreateRun, ReturnError, Goto, Inv, TypeOK
    <3>. QED BY <1>0, <2>1, <3>1, <3>2, <3>3
  <2>3. CASE BackupFile(p)
    <3>1. UNCHANGED manifest /\ pc[p] = "backup"
      BY <2>3 DEF BackupFile
    <3>2. pc'[p] = "report" \/ loc'[p].git = loc[p].git
      BY <2>3 DEF BackupFile, ReturnError, Goto, Inv, TypeOK, Locals
    <3>. QED BY <1>0, <2>1, <3>1, <3>2
  <2>4. CASE WriteManifest(p)
    <3>1. /\ pc[p] = "manifest" /\ pc'[p] \in {"prepared", "report"}
          /\ manifest' = [manifest EXCEPT ![loc[p].txn] =
               [files |-> loc[p].req.files, before |-> loc[p].req.before, after |-> loc[p].req.after,
                mode |-> modes, git |-> loc[p].git]]
      BY <2>4 DEF WriteManifest, ReturnError, Goto, Inv, TypeOK
    <3>2. \A t \in Txns : manifest'[t] = manifest[t] \/ manifest'[t].git = loc[p].git
      BY <3>1 DEF Inv, TypeOK
    <3>. QED BY <1>0, <2>1, <3>1, <3>2
  <2>5. CASE ~(CreateRun(p) \/ BackupFile(p) \/ WriteManifest(p))
    <3>1. UNCHANGED manifest
      BY <1>1, <2>5
         DEF Acts, StartApply, StartRollback, Step, IoFailure, Crash, AcquireLock, Prepare, StartApplying,
             ApplyMutation, VerifyApplied, Finalize, GitCheck, Commit, Recheck, PublishTarget, Confirm,
             Inspect, RollbackStart, RestoreFile, VerifyGitRestored, RollbackEnd, Return, runVars
    <3>2. pc'[p] \notin {"backup", "manifest"}
      BY <1>1, <2>5
         DEF Acts, StartApply, StartRollback, Step, IoFailure, Crash, AcquireLock, Prepare, StartApplying,
             ApplyMutation, VerifyApplied, Finalize, GitCheck, Commit, Recheck, PublishTarget, Confirm,
             Inspect, RollbackStart, RestoreFile, VerifyGitRestored, RollbackEnd, Return, Goto, ReturnError,
             Rollback, TargetFails, BodyTransition, Inv, TypeOK
    <3>. QED BY <1>0, <2>1, <3>1, <3>2
  <2>. QED BY <2>2, <2>3, <2>4, <2>5
<1>2. CASE UNCHANGED <<manifest, pc, loc>>
  BY <1>0, <1>2
<1>. QED BY <1>1, <1>2 DEF Next, Acts, vars, runVars, UserWrites, UserCommits

(* What p may rely on.                                                      *)
Calm(p) == Known /\ Separate /\ NoSnapshots /\ Undisturbed /\ GoesWell(p) /\ UNCHANGED <<edits, faults>>

LEMMA NotRollingBack ==
  ASSUME NEW p \in Procs,
         \/ pc'[p] \in {"idle", "lock", "rollback_lock", "capture", "inspect", "backup", "manifest",
                        "prepared", "rollback_start"} \union BodyPcs
         \/ pc'[p] \in TargetPcs /\ ~loc'[p].undoing
         \/ pc'[p] = "report" /\ loc'[p].outcome # "rollback_failed"
  PROVE  GoesWell(p)'
BY DEF GoesWell, RollingBack, BodyPcs, TargetPcs

LEMMA ErrorGoesWell ==
  ASSUME Inv, NEW p \in Procs, ReturnError(p)
  PROVE  GoesWell(p)'
<1>1. pc'[p] = "report" /\ loc'[p].outcome = "error"
  BY DEF ReturnError, Goto, Inv, TypeOK, Locals
<1>. QED BY <1>1, NotRollingBack

LEMMA RollbackGoesWell ==
  ASSUME Inv, NEW p \in Procs, Rollback(p)
  PROVE  GoesWell(p)'
<1>1. pc'[p] = "rollback_start"
  BY DEF Rollback, Goto, Inv, TypeOK
<1>. QED BY <1>1, NotRollingBack

LEMMA PreparationGoesWell ==
  ASSUME Inv, NEW p \in Procs,
         \/ \E t \in Txns, req \in Requests : StartApply(p, t, req)
         \/ \E t \in Txns, op \in {"undo", "recover"} : StartRollback(p, t, op)
         \/ AcquireLock(p) \/ CreateRun(p) \/ BackupFile(p) \/ WriteManifest(p) \/ Prepare(p)
         \/ Return(p) \/ Crash(p)
  PROVE  GoesWell(p)'
<1>1. CASE ReturnError(p)
  BY <1>1, ErrorGoesWell
<1>2. CASE ~ReturnError(p)
  <2>1. pc'[p] \in {"lock", "rollback_lock", "capture", "inspect", "backup", "manifest", "prepared", "applying",
                    "idle"}
    BY <1>2 DEF StartApply, StartRollback, AcquireLock, CreateRun, BackupFile, WriteManifest, Prepare,
                Return, Crash, Goto, Inv, TypeOK
  <2>. QED BY <2>1, NotRollingBack DEF BodyPcs
<1>. QED BY <1>1, <1>2

LEMMA BodyGoesWell ==
  ASSUME Inv, NEW p \in Procs,
         StartApplying(p) \/ ApplyMutation(p) \/ VerifyApplied(p) \/ Finalize(p) \/ GitCheck(p) \/ Commit(p)
  PROVE  GoesWell(p)'
<1>1. CASE Rollback(p)
  BY <1>1, RollbackGoesWell
<1>2. CASE ~Rollback(p)
  <2>1. CASE ApplyMutation(p)
    <3>1. pc[p] = "mutate" /\ ~loc[p].undoing
      BY <2>1 DEF ApplyMutation, Inv, ProcOK, Applying, BodyPcs
    <3>2. CASE Goto(p, "verify")
      <4>1. pc'[p] = "verify"
        BY <3>2 DEF Goto, Inv, TypeOK
      <4>. QED BY <4>1, NotRollingBack DEF BodyPcs
    <3>3. ASSUME NEW f \in manifest[loc[p].txn].files, Goto(p, "staged"),
                 loc' = [loc EXCEPT ![p].file = f, ![p].from = manifest[loc[p].txn].before[f],
                                    ![p].to = manifest[loc[p].txn].after[f]]
          PROVE  GoesWell(p)'
      <4>1. pc'[p] = "staged" /\ ~loc'[p].undoing
        BY <3>1, <3>3 DEF Goto, Inv, TypeOK, Locals
      <4>. QED BY <4>1, NotRollingBack DEF TargetPcs
    <3>. QED BY <1>2, <2>1, <3>2, <3>3 DEF ApplyMutation
  <2>2. CASE Commit(p)
    <3>. DEFINE a == Advanced(loc[p], "committed")
    <3>1. Goto(p, "report") /\ loc' = [loc EXCEPT ![p] = [a EXCEPT !.file = 0, !.outcome = "committed"]]
      BY <1>2, <2>2 DEF Commit, BodyTransition
    <3>2. a \in Locals
      BY AdvancedType DEF States, Inv, TypeOK
    <3>. HIDE DEF a
    <3>3. [a EXCEPT !.file = 0, !.outcome = "committed"].outcome = "committed"
      BY <3>2 DEF Locals
    <3>4. pc'[p] = "report" /\ loc'[p].outcome = "committed"
      BY <3>1, <3>3 DEF Goto, Inv, TypeOK
    <3>. QED BY <3>4, NotRollingBack
  <2>3. CASE StartApplying(p) \/ VerifyApplied(p) \/ Finalize(p) \/ GitCheck(p)
    <3>1. pc'[p] \in BodyPcs
      BY <1>2, <2>3 DEF StartApplying, VerifyApplied, Finalize, GitCheck, BodyTransition, Goto, Inv, TypeOK,
                        BodyPcs
    <3>. QED BY <3>1, NotRollingBack
  <2>. QED BY <2>1, <2>2, <2>3
<1>. QED BY <1>1, <1>2

(* A target is replaced without an error, whichever way it goes.            *)
LEMMA TargetGoesWell ==
  ASSUME NEW p \in Procs, Calm(p), Recheck(p) \/ PublishTarget(p) \/ Confirm(p)
  PROVE  GoesWell(p)'
<1>0. /\ Inv /\ Knowing(p) /\ OnCourse(p) /\ GoesWell(p) /\ edits = 0
      /\ faults \in Nat /\ faults' = faults /\ pc[p] \in TargetPcs
  BY DEF Calm, Known, Truth, Courses, Undisturbed, Inv, TypeOK, Recheck, PublishTarget, Confirm, TargetPcs
<1>1. ~IoError
  BY <1>0 DEF IoError
<1>2. CASE Recheck(p)
  <2>1. StillExpected(p)
    BY <1>0, <1>2 DEF OnCourse, Aiming, Recheck, StillExpected
  <2>2. pc'[p] = "publish" /\ loc'[p] = loc[p]
    BY <1>0, <1>2, <2>1 DEF Recheck, Goto, Inv, TypeOK
  <2>. QED BY <1>0, <2>2 DEF GoesWell, RollingBack, TargetPcs
<1>3. CASE PublishTarget(p)
  <2>1. pc'[p] = "confirm" /\ loc'[p] = loc[p]
    BY <1>0, <1>1, <1>3 DEF PublishTarget, Goto, Inv, TypeOK
  <2>. QED BY <1>0, <2>1 DEF GoesWell, RollingBack, TargetPcs
<1>4. CASE Confirm(p)
  <2>1. pc[p] = "confirm" /\ files[loc[p].file] = loc[p].to
    BY <1>0, <1>4 DEF Confirm, Knowing, Found
  <2>2. \/ pc'[p] = "mutate"
        \/ /\ loc[p].undoing /\ pc'[p] = "restore"
           /\ loc'[p].errors = loc[p].errors /\ loc'[p].state = loc[p].state
    BY <1>0, <1>4, <2>1 DEF Confirm, Goto, Inv, TypeOK, Locals
  <2>. QED BY <1>0, <2>2 DEF GoesWell, RollingBack, TargetPcs
<1>. QED BY <1>2, <1>3, <1>4

LEMMA InspectGoesWell ==
  ASSUME Inv, NEW p \in Procs, Inspect(p)
  PROVE  GoesWell(p)'
<1>1. CASE ReturnError(p)
  BY <1>1, ErrorGoesWell
<1>2. CASE ~ReturnError(p)
  <2>1. pc'[p] = "rollback_start" \/ (pc'[p] = "report" /\ loc'[p].outcome = "rolled_back")
    BY <1>2 DEF Inspect, Goto, Inv, TypeOK, Locals
  <2>. QED BY <2>1, NotRollingBack
<1>. QED BY <1>1, <1>2

(* The start of the rollback is on record, or was before.                   *)
LEMMA RollbackStartGoesWell ==
  ASSUME NEW p \in Procs, Calm(p), RollbackStart(p)
  PROVE  GoesWell(p)'
<1>. DEFINE start(l, failed) == [l EXCEPT !.file = NFiles + 1, !.restored = {}, !.errors = failed]
            next == "rollback_started"
            a == Advanced(loc[p], next)
<1>0. /\ Inv /\ OnCourse(p) /\ faults \in Nat /\ faults' = faults
      /\ pc[p] = "rollback_start" /\ pc[p] \in ManifestPcs /\ pc'[p] = "restore" /\ next \in States
      /\ loc[p] \in Locals /\ loc[p].modified \subseteq Files
  BY Current DEF Calm, Known, Courses, Inv, TypeOK, RollbackStart, Goto, ManifestPcs, UndoPcs, States, Locals
<1>1. ~TransitionFails(p, next, loc[p].modified) \/ RollbackBegun(p)
  <2>. SUFFICES ASSUME TransitionFails(p, next, loc[p].modified), ~RollbackBegun(p) PROVE FALSE
    OBVIOUS
  <2>1. loc[p].state \in States \ {"rolled_back", next}
    BY <1>0 DEF Inv, ProcOK, InSync, UndoPcs, Locals, RollbackBegun
  <2>2. ValidTransition(loc[p].state, next)
    BY <2>1 DEF ValidTransition, Transitions, States
  <2>3. faults' = faults + 1
    BY <1>0, <2>2, FailedState
  <2>. QED BY <1>0, <2>3
<1>2. \A l \in Locals, failed \in BOOLEAN :
        start(l, failed).errors = failed /\ start(l, failed).state = l.state
  BY DEF Locals
<1>. HIDE DEF start
<1>3. CASE RollbackBegun(p) /\ loc' = [loc EXCEPT ![p] = start(loc[p], FALSE)]
  <2>1. ~loc'[p].errors /\ loc'[p].state = loc[p].state
    BY <1>0, <1>2, <1>3 DEF Inv, TypeOK
  <2>. QED BY <1>0, <1>3, <2>1 DEF GoesWell, RollbackBegun
<1>4. CASE loc' = [loc EXCEPT ![p] = start(a, FALSE)]
  <2>1. a \in Locals /\ a.state = next
    BY <1>0, AdvancedType DEF Advanced, Locals
  <2>. HIDE DEF a
  <2>2. ~loc'[p].errors /\ loc'[p].state = next
    BY <1>0, <1>2, <1>4, <2>1 DEF Inv, TypeOK
  <2>. QED BY <1>0, <2>2 DEF GoesWell
<1>. QED BY <1>1, <1>3, <1>4 DEF RollbackStart, start

(* Nothing is found at a target but what was before or is wanted after.     *)
LEMMA RestoreFileGoesWell ==
  ASSUME NEW p \in Procs, Calm(p), RestoreFile(p)
  PROVE  GoesWell(p)'
<1>. DEFINE t == loc[p].txn
            m == manifest[t]
<1>0. /\ Inv /\ GoesWell(p) /\ edits = 0 /\ OneChange /\ pc[p] = "restore"
      /\ ~loc[p].errors /\ loc[p].state = "rollback_started"
  BY DEF Calm, Known, Undisturbed, RestoreFile, GoesWell, RollingBack
<1>1. t \in Txns /\ m # None /\ m.files \subseteq Files
  BY <1>0, Current DEF ManifestPcs, UndoPcs, Manifests
<1>2. \A f \in m.files : AlreadyRestored(m, f) \/ files[f] = m.after[f]
  BY <1>0, <1>1 DEF Calm, Separate, Targets, Before, After, AlreadyRestored
<1>3. CASE Goto(p, "git_restored") /\ UNCHANGED loc
  BY <1>0, <1>3 DEF Goto, Inv, TypeOK, GoesWell, RollingBack
<1>4. ASSUME NEW f \in m.files, UNCHANGED pc,
             loc' = [loc EXCEPT ![p].file = f, ![p].restored = @ \union {f}]
      PROVE  GoesWell(p)'
  <2>1. pc'[p] = "restore" /\ loc'[p].errors = loc[p].errors /\ loc'[p].state = loc[p].state
    BY <1>0, <1>4 DEF Inv, TypeOK, Locals
  <2>. QED BY <1>0, <2>1 DEF GoesWell
<1>5. ASSUME NEW f \in m.files, Goto(p, "staged"),
             loc' = [loc EXCEPT ![p].file = f, ![p].from = m.after[f], ![p].to = RestoredContent(t, f)]
      PROVE  GoesWell(p)'
  <2>1. pc'[p] = "staged" /\ loc'[p].errors = loc[p].errors /\ loc'[p].state = loc[p].state
    BY <1>0, <1>5 DEF Goto, Inv, TypeOK, Locals
  <2>. QED BY <1>0, <2>1 DEF GoesWell
<1>. QED BY <1>2, <1>3, <1>4, <1>5 DEF RestoreFile

LEMMA VerifyGitRestoredGoesWell ==
  ASSUME NEW p \in Procs, Calm(p), VerifyGitRestored(p)
  PROVE  GoesWell(p)'
<1>0. /\ Inv /\ pc[p] = "git_restored" /\ ~loc[p].errors /\ loc[p].state = "rollback_started"
      /\ faults \in Nat /\ faults' = faults /\ ~GitRepo
  BY DEF Calm, Known, Undisturbed, VerifyGitRestored, GoesWell, RollingBack, Inv, TypeOK
<1>1. ~IoError
  BY <1>0 DEF IoError
<1>2. GitRestored(loc[p].txn)
  BY <1>0, Current DEF Calm, NoSnapshots, GitRestored, ManifestPcs, UndoPcs
<1>3. loc' = [loc EXCEPT ![p].errors = @ \/ ~GitRestored(loc[p].txn)] /\ Goto(p, "rollback_end")
  BY <1>1 DEF VerifyGitRestored
<1>4. pc'[p] = "rollback_end" /\ ~loc'[p].errors /\ loc'[p].state = loc[p].state
  BY <1>0, <1>2, <1>3 DEF Goto, Inv, TypeOK, Locals
<1>. QED BY <1>0, <1>4 DEF GoesWell

LEMMA RollbackEndGoesWell ==
  ASSUME NEW p \in Procs, Calm(p), RollbackEnd(p)
  PROVE  GoesWell(p)'
<1>. DEFINE next == "rolled_back"
            a == Advanced(loc[p], next)
<1>0. /\ Inv /\ pc[p] = "rollback_end" /\ ~loc[p].errors /\ loc[p].state = "rollback_started"
      /\ faults \in Nat /\ faults' = faults /\ loc[p] \in Locals /\ pc[p] \in ManifestPcs
      /\ next \in States
  BY DEF Calm, Known, RollbackEnd, GoesWell, RollingBack, Inv, TypeOK, ManifestPcs, UndoPcs, States
<1>1. RollbackResult(loc[p]) = next
  BY <1>0 DEF RollbackResult
<1>2. ~TransitionFails(p, next, loc[p].restored)
  <2>1. ValidTransition(loc[p].state, next)
    BY <1>0 DEF ValidTransition, Transitions
  <2>2. loc[p].restored \subseteq Files
    BY <1>0 DEF Locals
  <2>3. ~(faults' = faults + 1)
    BY <1>0
  <2>. QED BY <1>0, <2>1, <2>2, <2>3, FailedState
<1>3. loc' = [loc EXCEPT ![p] = [a EXCEPT !.outcome = next]] /\ Goto(p, "report")
  BY <1>1, <1>2 DEF RollbackEnd
<1>4. a \in Locals
  BY <1>0, AdvancedType
<1>. HIDE DEF a
<1>5. [a EXCEPT !.outcome = next].outcome = next
  BY <1>4 DEF Locals
<1>6. pc'[p] = "report" /\ loc'[p].outcome = next
  BY <1>0, <1>3, <1>5 DEF Goto, Inv, TypeOK
<1>. QED BY <1>6, NotRollingBack

LEMMA OwnGoesWell ==
  ASSUME NEW p \in Procs, Calm(p), Acts(p)
  PROVE  GoesWell(p)'
<1>1. Inv
  BY DEF Calm, Known
<1>2. ~IoFailure(p)
  <2>1. faults \in Nat /\ faults' = faults
    BY <1>1 DEF Calm, Inv, TypeOK
  <2>. QED BY <2>1 DEF IoFailure, IoError
<1>. QED
  BY <1>1, <1>2, PreparationGoesWell, BodyGoesWell, TargetGoesWell, InspectGoesWell, RollbackStartGoesWell,
     RestoreFileGoesWell, VerifyGitRestoredGoesWell, RollbackEndGoesWell
     DEF Acts, Step

Sound == Known /\ Separate /\ NoSnapshots /\ Smooth

LEMMA SoundNext == Sound /\ [Next]_vars => Sound'
<1>. SUFFICES ASSUME Sound, [Next]_vars PROVE Sound'
  OBVIOUS
<1>1. Known' /\ Separate' /\ NoSnapshots'
  BY KnownNext, SeparateNext, NoSnapshotsNext DEF Sound, Known
<1>2. ASSUME Undisturbed', NEW p \in Procs PROVE GoesWell(p)'
  <2>1. Calm(p)
    BY <1>1, <1>2, UndisturbedBefore DEF Sound, Smooth, Calm
  <2>2. ASSUME NEW q \in Procs, Acts(q) PROVE GoesWell(p)'
    <3>1. CASE q = p
      BY <2>1, <2>2, <3>1, OwnGoesWell
    <3>2. CASE q # p
      <4>1. pc'[p] = pc[p] /\ loc'[p] = loc[p]
        BY <2>2, <3>2, ActsFrame DEF Sound, Known, Inv
      <4>. QED BY <2>1, <4>1 DEF Calm, GoesWell, RollingBack
    <3>. QED BY <3>1, <3>2
  <2>3. CASE UNCHANGED <<pc, loc>>
    BY <2>1, <2>3 DEF Calm, GoesWell, RollingBack
  <2>. QED BY <2>2, <2>3 DEF Next, Acts, vars, UserWrites, UserCommits
<1>. QED BY <1>1, <1>2 DEF Sound, Smooth

LEMMA SoundInit == Init => Sound
<1>. SUFFICES ASSUME Init PROVE Sound
  OBVIOUS
<1>1. NoSnapshots /\ Smooth
  BY DEF Init, NoSnapshots, Smooth, GoesWell, RollingBack, TargetPcs
<1>. QED BY <1>1, KnownInit, SeparateInit DEF Sound

LEMMA SoundAlways == Spec => []Sound
BY SoundInit, SoundNext, PTL DEF Spec

(* Outside Git, as long as transactions that touch the same file plan the   *)
(* same change of it, and a directory sync does not fail after its rename:  *)
(* every change of a file is accounted for, and no crash, no process and no *)
(* retry makes an undo or a recovery fail, only an I/O error or an edit of  *)
(* the user does.  Without the first two hypotheses an undo also fails under*)
(* a later change of the same file or, in Git, when another path has changed*)
(* since: by a later transaction, or by a temporary that a crash left.      *)
THEOREM RecoveryIsSoundHolds ==
  ASSUME ~SyncFaults, ~GitRepo
  PROVE  Spec => [](OneChange => RecoveryIsSound)
<1>1. Sound /\ OneChange => FailsOnlyForCause
  <2>. SUFFICES ASSUME Sound, OneChange, edits = 0, faults = 0, NEW p \in Procs,
                       pc[p] = "report"
                PROVE  loc[p].outcome # "rollback_failed"
    BY DEF FailsOnlyForCause, Sound, Known, Inv, TypeOK
  <2>. QED BY DEF Sound, Smooth, Undisturbed, GoesWell
<1>2. Sound /\ OneChange /\ edits = 0 => OneOrigin
  BY DEF Sound, Separate, OneChange, OneOrigin
<1>3. ~(edits = 0) => ChangesAccounted
  BY DEF ChangesAccounted
<1>4. Spec => [](OneOrigin => ChangesAccounted)
  BY ChangesAccountedHolds
<1>. QED BY <1>1, <1>2, <1>3, <1>4, SoundAlways, PTL DEF RecoveryIsSound

=============================================================================
