------------------------------ MODULE Worktree ------------------------------
(***************************************************************************)
(* Disposable Git worktrees (crates/opticcode-tools/src/worktree.rs).  A    *)
(* run proves that its source repository is clean, publishes a lease,       *)
(* reserves a directory, has Git make a detached worktree there, applies    *)
(* and builds inside it, cleans up and reads the source again.  A run ends  *)
(* at any step when its process dies; `worktrees --cleanup` takes over from *)
(* the lease.  Both kinds of run are here: "verify" is                      *)
(* verify_patch_with_storage, "edit" is run_in_disposable_worktree.         *)
(***************************************************************************)
EXTENDS Integers

CONSTANTS
  Runs,         \* run identifiers; new_run_id never repeats one
  Cleaners,     \* processes that run `worktrees --cleanup`
  CleanActive,  \* whether a cleanup may name a run whose process is alive
  MaxCrashes,   \* bound on process deaths
  MaxFaults,    \* bound on failing Git commands and I/O calls
  MaxChanges,   \* bound on other programs' changes to the source
  NoRun

ASSUME WorktreeAssumption ==
  /\ Runs \intersect Cleaners = {} /\ NoRun \notin Runs
  /\ CleanActive \in BOOLEAN
  /\ {MaxCrashes, MaxFaults, MaxChanges} \subseteq Nat

Actors == Runs \union Cleaners
Aspects == {"tree", "head", "refs"}

VARIABLES
  lease,       \* run -> its descriptor: "none", "partial" (created, not yet written), "valid"
  dir,         \* run -> its directory: "none", "empty", "populated"
  registered,  \* run -> Git lists the directory as a worktree
  source,      \* aspect of the source repository -> version; a tree is clean in version 0
  pc,          \* actor -> control point
  loc,         \* run -> local variables and report
  target,      \* actor -> the run it cleans up
  cancelled,   \* run -> its token: "no", "early", or "late": after its last cancellable command
  cleaned,     \* actor -> the success of its cleanup report: "none", "yes", "no"
  crashes, faults, changes

diskVars == <<lease, dir, registered>>
budgetVars == <<crashes, faults, changes>>
vars == <<diskVars, source, pc, loc, target, cancelled, cleaned, budgetVars>>

Fresh == [kind |-> "verify", read |-> [a \in Aspects |-> 0], status |-> "SetupFailed",
          failed |-> FALSE, unchanged |-> TRUE, success |-> FALSE]

Init ==
  /\ lease = [r \in Runs |-> "none"]
  /\ dir = [r \in Runs |-> "none"]
  /\ registered = [r \in Runs |-> FALSE]
  /\ source = [a \in Aspects |-> 0]
  /\ pc = [a \in Actors |-> "idle"]
  /\ loc = [r \in Runs |-> Fresh]
  /\ target = [a \in Actors |-> IF a \in Runs THEN a ELSE NoRun]
  /\ cancelled = [r \in Runs |-> "no"]
  /\ cleaned = [a \in Actors |-> "none"]
  /\ crashes = 0 /\ faults = 0 /\ changes = 0

Goto(a, from, to) == pc[a] = from /\ pc' = [pc EXCEPT ![a] = to]

(* A Git command or an I/O call fails, or a Git command is ended by its     *)
(* timeout.                                                                 *)
Fault == faults < MaxFaults /\ faults' = faults + 1 /\ UNCHANGED <<crashes, changes>>

IsCancelled(r) == cancelled[r] # "no"

(* A command under the token: it ends without success when the token is set *)
(* (run_process_with_cancellation), or when it fails.                       *)
Interrupted(r) == (IsCancelled(r) /\ UNCHANGED budgetVars) \/ Fault

(* The run still works; "ended" it has returned, "crashed" its process died. *)
Active(r) == pc[r] \notin {"idle", "ended", "crashed"}

-----------------------------------------------------------------------------
(* Preconditions: the source is read, and nothing is on disk yet.           *)

Start(r) ==
  /\ Goto(r, "idle", "read_tree")
  /\ \E k \in {"verify", "edit"} : loc' = [loc EXCEPT ![r].kind = k]
  /\ UNCHANGED <<diskVars, source, target, cancelled, cleaned, budgetVars>>

(* capture_git_state, which must find no change.                            *)
ReadTree(r) ==
  /\ pc[r] = "read_tree"
  /\ \/ source["tree"] = 0 /\ Goto(r, "read_tree", "read_head") /\ UNCHANGED budgetVars
     \/ source["tree"] # 0 /\ Goto(r, "read_tree", "ended") /\ UNCHANGED budgetVars
     \/ Fault /\ Goto(r, "read_tree", "ended")
  /\ UNCHANGED <<diskVars, source, loc, target, cancelled, cleaned>>

(* resolve_head and capture_refs_fingerprint.                               *)
Read(r, aspect, here, next) ==
  /\ \/ /\ ~IsCancelled(r) /\ Goto(r, here, next)
        /\ loc' = [loc EXCEPT ![r].read[aspect] = source[aspect]]
        /\ UNCHANGED budgetVars
     \/ Interrupted(r) /\ Goto(r, here, "ended") /\ UNCHANGED loc
  /\ UNCHANGED <<diskVars, source, target, cancelled, cleaned>>

ReadHead(r) == Read(r, "head", "read_head", "read_refs")
ReadRefs(r) == Read(r, "refs", "read_refs", "permit")

(* before_create: the policy engine may refuse an edit's worktree.          *)
BeforeCreate(r) ==
  /\ \/ Goto(r, "permit", "create_lease")
     \/ loc[r].kind = "edit" /\ Goto(r, "permit", "ended")
  /\ UNCHANGED <<diskVars, source, loc, target, cancelled, cleaned, budgetVars>>

(* Mutant: the directory is reserved before the lease has its content.      *)
LeaseUnwritten(r) ==
  /\ Goto(r, "create_lease", "reserve")
  /\ lease' = [lease EXCEPT ![r] = "partial"]
  /\ UNCHANGED <<dir, registered, source, loc, target, cancelled, cleaned, budgetVars>>

(* write_lease: create_new, then the content, synced.  On a failure the     *)
(* descriptor is removed, if that can be done, here and in Reserve.         *)
CreateLease(r) ==
  /\ \/ /\ Goto(r, "create_lease", "write_lease")
        /\ lease' = [lease EXCEPT ![r] = "partial"]
        /\ UNCHANGED budgetVars
     \/ Fault /\ Goto(r, "create_lease", "ended") /\ UNCHANGED lease
  /\ UNCHANGED <<dir, registered, source, loc, target, cancelled, cleaned>>

WriteLease(r) ==
  /\ \/ /\ Goto(r, "write_lease", "reserve")
        /\ lease' = [lease EXCEPT ![r] = "valid"]
        /\ UNCHANGED budgetVars
     \/ /\ Fault /\ Goto(r, "write_lease", "ended")
        /\ \E left \in {"none", "partial", "valid"} : lease' = [lease EXCEPT ![r] = left]
  /\ UNCHANGED <<dir, registered, source, loc, target, cancelled, cleaned>>

Reserve(r) ==
  /\ \/ /\ Goto(r, "reserve", "add")
        /\ dir' = [dir EXCEPT ![r] = "empty"]
        /\ UNCHANGED <<lease, budgetVars>>
     \/ /\ Fault /\ Goto(r, "reserve", "ended")
        /\ \E left \in {"none", "valid"} : lease' = [lease EXCEPT ![r] = left]
        /\ UNCHANGED dir
  /\ UNCHANGED <<registered, source, loc, target, cancelled, cleaned>>

-----------------------------------------------------------------------------
(* The worktree.  A failure of a verify run is a status; an edit run cleans *)
(* up and returns the error.                                                *)

SetStatus(r, s) == loc' = [loc EXCEPT ![r].status = s]

SetupFails(r, here, s) ==
  LET edit == loc[r].kind = "edit" IN
  /\ Goto(r, here, IF edit THEN "cleanup" ELSE "capture")
  /\ loc' = [loc EXCEPT ![r].status = s, ![r].failed = edit]

(* What a `git worktree add` or `remove` that failed or was ended may have  *)
(* done: each of its two effects, or not.                                   *)
Interrupt(t, d) ==
  /\ \E e \in {dir[t], d} : dir' = [dir EXCEPT ![t] = e]
  /\ \E b \in BOOLEAN : registered' = [registered EXCEPT ![t] = b]

(* git worktree add --detach.                                               *)
AddWorktree(r) ==
  /\ \/ /\ ~IsCancelled(r) /\ Goto(r, "add", "setup")
        /\ dir' = [dir EXCEPT ![r] = "populated"]
        /\ registered' = [registered EXCEPT ![r] = TRUE]
        /\ UNCHANGED <<loc, budgetVars>>
     \/ /\ Interrupted(r)
        /\ SetupFails(r, "add", IF IsCancelled(r) THEN "Cancelled" ELSE "SetupFailed")
        /\ Interrupt(r, "populated")
  /\ UNCHANGED <<lease, source, target, cancelled, cleaned>>

(* The new worktree is clean, at the base commit and detached.              *)
Setup(r) ==
  /\ \/ Goto(r, "setup", "apply") /\ ~IsCancelled(r) /\ UNCHANGED <<loc, budgetVars>>
     \/ /\ Interrupted(r)
        /\ \E s \in {"SetupFailed"} \union (IF IsCancelled(r) THEN {"Cancelled"} ELSE {}) :
             SetupFails(r, "setup", s)
  /\ UNCHANGED <<diskVars, source, target, cancelled, cleaned>>

AfterOperation(r) == IF loc[r].kind = "verify" THEN "capture" ELSE "authorize"

(* The apply action; it does not look at the token.                         *)
Apply(r) ==
  /\ \/ Goto(r, "apply", "build") /\ UNCHANGED <<loc, budgetVars>>
     \/ Fault /\ Goto(r, "apply", AfterOperation(r)) /\ SetStatus(r, "ApplyFailed")
  /\ UNCHANGED <<diskVars, source, target, cancelled, cleaned>>

(* is_cancelled, then the build under the token and the strict Git guard.   *)
Build(r) ==
  /\ Goto(r, "build", AfterOperation(r))
  /\ \/ ~IsCancelled(r) /\ SetStatus(r, "Passed") /\ UNCHANGED budgetVars
     \/ IsCancelled(r) /\ SetStatus(r, "Cancelled") /\ UNCHANGED budgetVars
     \/ Fault /\ SetStatus(r, "BuildFailed")
  /\ UNCHANGED <<diskVars, source, target, cancelled, cleaned>>

(* A verify run captures the worktree's final state and its diff; what      *)
(* cannot be captured takes a Passed back.                                  *)
Unproved(r) ==
  SetStatus(r, IF loc[r].status = "Passed" THEN "VerificationFailed" ELSE loc[r].status)

Capture(r) ==
  /\ \/ dir[r] # "none" /\ Goto(r, "capture", "diff") /\ UNCHANGED <<loc, budgetVars>>
     \/ dir[r] # "none" /\ Goto(r, "capture", "diff") /\ Fault /\ Unproved(r)
     \/ dir[r] = "none" /\ Goto(r, "capture", "cleanup") /\ UNCHANGED <<loc, budgetVars>>
  /\ UNCHANGED <<diskVars, source, target, cancelled, cleaned>>

CaptureDiff(r) ==
  /\ Goto(r, "diff", "cleanup")
  /\ \/ ~IsCancelled(r) /\ UNCHANGED <<loc, budgetVars>>
     \/ Interrupted(r) /\ Unproved(r)
  /\ UNCHANGED <<diskVars, source, target, cancelled, cleaned>>

(* before_cleanup: the policy engine may refuse it; the lease then stays.   *)
BeforeCleanup(r) ==
  /\ \/ Goto(r, "authorize", "cleanup") /\ UNCHANGED cleaned
     \/ Goto(r, "authorize", "reread_tree") /\ cleaned' = [cleaned EXCEPT ![r] = "no"]
  /\ UNCHANGED <<diskVars, source, loc, target, cancelled, budgetVars>>

-----------------------------------------------------------------------------
(* cleanup_lease, by the run itself or by a cleanup command.  It never      *)
(* looks at the token.                                                      *)

InCleanup == {"cleanup", "remove", "inspect", "rmdir", "gone", "relist", "unlease"}

(* The cleanup has a report; an edit run whose setup failed returns then.   *)
Report(a, outcome) ==
  /\ cleaned' = [cleaned EXCEPT ![a] = outcome]
  /\ pc' = [pc EXCEPT ![a] = IF a \in Cleaners THEN "idle"
                             ELSE IF loc[a].failed THEN "ended" ELSE "reread_tree"]

(* The cleanup ends with an error, and with it the run.                     *)
Abort(a) ==
  /\ cleaned' = [cleaned EXCEPT ![a] = "no"]
  /\ pc' = [pc EXCEPT ![a] = IF a \in Cleaners THEN "idle" ELSE "ended"]

Step(a, to) == pc' = [pc EXCEPT ![a] = to] /\ UNCHANGED cleaned

(* validate_lease, which resolves a directory that exists, and              *)
(* worktree_is_registered.                                                  *)
List(a) ==
  /\ pc[a] = "cleanup"
  /\ \/ Step(a, IF registered[target[a]] THEN "remove" ELSE "inspect") /\ UNCHANGED budgetVars
     \/ Fault /\ Report(a, "no")
     \/ dir[target[a]] # "none" /\ Fault /\ Abort(a)
  /\ UNCHANGED <<diskVars, source, loc, target, cancelled>>

(* git worktree remove --force: refused when the worktree is not registered  *)
(* any more.                                                                *)
Remove(a) ==
  LET t == target[a] IN
  /\ pc[a] = "remove"
  /\ \/ /\ registered[t] /\ Step(a, "gone") /\ UNCHANGED budgetVars
        /\ dir' = [dir EXCEPT ![t] = "none"]
        /\ registered' = [registered EXCEPT ![t] = FALSE]
     \/ /\ ~registered[t] /\ Report(a, "no") /\ UNCHANGED <<dir, registered, budgetVars>>
     \/ /\ registered[t] /\ Fault /\ Report(a, "no")
        /\ Interrupt(t, "none")
  /\ UNCHANGED <<lease, source, loc, target, cancelled>>

(* Mutant: an unregistered directory is removed with its content.           *)
InspectRemovesAll(a) ==
  /\ pc[a] = "inspect"
  /\ Step(a, "gone")
  /\ dir' = [dir EXCEPT ![target[a]] = "none"]
  /\ UNCHANGED <<lease, registered, source, loc, target, cancelled, budgetVars>>

(* Mutant: an empty unregistered directory is refused like a full one.      *)
EmptyRefused(a) ==
  /\ pc[a] = "inspect"
  /\ IF dir[target[a]] = "none" THEN Step(a, "gone") ELSE Report(a, "no")
  /\ UNCHANGED <<diskVars, source, loc, target, cancelled, budgetVars>>

(* An unregistered directory with a content is refused.                     *)
Inspect(a) ==
  /\ pc[a] = "inspect"
  /\ \/ dir[target[a]] = "none" /\ Step(a, "gone") /\ UNCHANGED budgetVars
     \/ dir[target[a]] = "empty" /\ Step(a, "rmdir") /\ UNCHANGED budgetVars
     \/ dir[target[a]] = "populated" /\ Report(a, "no") /\ UNCHANGED budgetVars
     \/ dir[target[a]] # "none" /\ Fault /\ Abort(a)   \* directory_is_empty
  /\ UNCHANGED <<diskVars, source, loc, target, cancelled>>

RemoveDir(a) ==
  LET t == target[a] IN
  /\ pc[a] = "rmdir"
  /\ \/ /\ dir[t] = "empty" /\ Step(a, "gone") /\ UNCHANGED budgetVars
        /\ dir' = [dir EXCEPT ![t] = "none"]
     \/ dir[t] # "empty" /\ Report(a, "no") /\ UNCHANGED <<dir, budgetVars>>
     \/ Fault /\ Report(a, "no") /\ UNCHANGED dir
  /\ UNCHANGED <<lease, registered, source, loc, target, cancelled>>

CheckGone(a) ==
  /\ pc[a] = "gone"
  /\ IF dir[target[a]] = "none" THEN Step(a, "relist") ELSE Report(a, "no")
  /\ UNCHANGED <<diskVars, source, loc, target, cancelled, budgetVars>>

Relist(a) ==
  /\ pc[a] = "relist"
  /\ \/ ~registered[target[a]] /\ Step(a, "unlease") /\ UNCHANGED budgetVars
     \/ registered[target[a]] /\ Report(a, "no") /\ UNCHANGED budgetVars
     \/ Fault /\ Report(a, "no")
  /\ UNCHANGED <<diskVars, source, loc, target, cancelled>>

(* The lease goes last; that it is gone already is no error.                *)
RemoveLease(a) ==
  /\ pc[a] = "unlease"
  /\ \/ /\ lease' = [lease EXCEPT ![target[a]] = "none"]
        /\ Report(a, "yes") /\ UNCHANGED budgetVars
     \/ Fault /\ Report(a, "no") /\ UNCHANGED lease
  /\ UNCHANGED <<dir, registered, source, loc, target, cancelled>>

(* cleanup_disposable_worktree_in: without a lease it only looks whether    *)
(* the directory is gone, a lease it cannot read is an error.               *)
StartCleanup(c, r) ==
  /\ pc[c] = "idle" /\ pc[r] # "idle"
  /\ CleanActive \/ ~Active(r)
  /\ target' = [target EXCEPT ![c] = r]
  /\ \/ /\ lease[r] = "valid"
        /\ pc' = [pc EXCEPT ![c] = "cleanup"]
        /\ cleaned' = [cleaned EXCEPT ![c] = "none"]
        /\ UNCHANGED budgetVars
     \/ /\ lease[r] # "valid"
        /\ cleaned' = [cleaned EXCEPT ![c] =
                         IF lease[r] = "none" /\ dir[r] = "none" THEN "yes" ELSE "no"]
        /\ UNCHANGED <<pc, budgetVars>>
     \/ /\ Fault
        /\ cleaned' = [cleaned EXCEPT ![c] = "no"]
        /\ UNCHANGED pc
  /\ UNCHANGED <<diskVars, source, loc, cancelled>>

-----------------------------------------------------------------------------
(* The source is read again, without the token, and the report summed up.   *)

Reread(r, aspect, here, next) ==
  /\ Goto(r, here, next)
  /\ \/ /\ loc' = [loc EXCEPT ![r].unchanged = @ /\ source[aspect] = loc[r].read[aspect]]
        /\ UNCHANGED budgetVars
     \/ /\ Fault
        /\ loc' = [loc EXCEPT ![r].unchanged = FALSE]
  /\ UNCHANGED <<diskVars, source, target, cancelled, cleaned>>

RereadTree(r) == Reread(r, "tree", "reread_tree", "reread_head")
RereadHead(r) == Reread(r, "head", "reread_head", "reread_refs")
RereadRefs(r) == Reread(r, "refs", "reread_refs", "sum_up")

(* Mutant: a success does not depend on the source.                         *)
SourceIgnored(r) ==
  /\ Goto(r, "sum_up", "ended")
  /\ loc' = [loc EXCEPT ![r].success = loc[r].status = "Passed" /\ cleaned[r] = "yes"]
  /\ UNCHANGED <<diskVars, source, target, cancelled, cleaned, budgetVars>>

(* verification_summary, and DisposableWorktreeRun::success.                *)
SumUp(r) ==
  LET status == IF loc[r].kind = "verify" /\ ~loc[r].unchanged
                THEN "SourceChanged" ELSE loc[r].status IN
  /\ Goto(r, "sum_up", "ended")
  /\ loc' = [loc EXCEPT ![r].status = status,
                        ![r].success = /\ status = "Passed" /\ loc[r].unchanged
                                       /\ cleaned[r] = "yes"]
  /\ UNCHANGED <<diskVars, source, target, cancelled, cleaned, budgetVars>>

-----------------------------------------------------------------------------
(* The environment.                                                         *)

(* A process dies, and a Git command it waits for with it.                  *)
Crash(a) ==
  /\ crashes < MaxCrashes /\ crashes' = crashes + 1
  /\ IF a \in Runs THEN Active(a) ELSE pc[a] \in InCleanup
  /\ pc' = [pc EXCEPT ![a] = IF a \in Runs THEN "crashed" ELSE "idle"]
  /\ \/ pc[a] = "add" /\ Interrupt(target[a], "populated")
     \/ pc[a] = "remove" /\ registered[target[a]] /\ Interrupt(target[a], "none")
     \/ UNCHANGED <<dir, registered>>
  /\ UNCHANGED <<lease, source, loc, target, cancelled, cleaned, faults, changes>>

Cancellable == {"read_tree", "read_head", "read_refs", "permit", "create_lease", "write_lease",
                "reserve", "add", "setup", "apply", "build", "capture", "diff"}

Cancel(r) ==
  /\ Active(r) /\ cancelled[r] = "no"
  /\ cancelled' = [cancelled EXCEPT ![r] = IF pc[r] \in Cancellable THEN "early" ELSE "late"]
  /\ UNCHANGED <<diskVars, source, pc, loc, target, cleaned, budgetVars>>

(* Another program edits, tags or commits in the source, or takes it back.  *)
ChangeSource ==
  /\ changes < MaxChanges /\ changes' = changes + 1
  /\ \E A \in {{"tree"}, {"refs"}, {"head", "refs"}} :
       source' = [a \in Aspects |-> IF a \in A THEN 1 - source[a] ELSE source[a]]
  /\ UNCHANGED <<diskVars, pc, loc, target, cancelled, cleaned, crashes, faults>>

-----------------------------------------------------------------------------
Prepare(r) ==
  \/ ReadTree(r) \/ ReadHead(r) \/ ReadRefs(r) \/ BeforeCreate(r)
  \/ CreateLease(r) \/ WriteLease(r) \/ Reserve(r)
Work(r) ==
  \/ AddWorktree(r) \/ Setup(r) \/ Apply(r) \/ Build(r)
  \/ Capture(r) \/ CaptureDiff(r) \/ BeforeCleanup(r)
Cleanup(a) ==
  \/ List(a) \/ Remove(a) \/ Inspect(a) \/ RemoveDir(a)
  \/ CheckGone(a) \/ Relist(a) \/ RemoveLease(a)
Conclude(r) == RereadTree(r) \/ RereadHead(r) \/ RereadRefs(r) \/ SumUp(r)

Next ==
  \/ \E r \in Runs : Start(r) \/ Prepare(r) \/ Work(r) \/ Conclude(r) \/ Cancel(r)
  \/ \E c \in Cleaners, r \in Runs : StartCleanup(c, r)
  \/ \E a \in Actors : Cleanup(a) \/ Crash(a)
  \/ ChangeSource

(* A process that runs goes on; an operator who finds a lease cleans it up  *)
(* again and again.                                                         *)
Fairness ==
  /\ \A r \in Runs : WF_vars(Prepare(r) \/ Work(r) \/ Conclude(r))
  /\ \A a \in Actors : WF_vars(Cleanup(a))
  /\ \A c \in Cleaners, r \in Runs : SF_vars(StartCleanup(c, r))

Spec == Init /\ [][Next]_vars
FairSpec == Spec /\ Fairness

-----------------------------------------------------------------------------
RunPcs == Cancellable \union InCleanup \union
          {"idle", "authorize", "reread_tree", "reread_head", "reread_refs", "sum_up",
           "ended", "crashed"}
Statuses == {"Passed", "SetupFailed", "ApplyFailed", "BuildFailed", "Cancelled",
             "VerificationFailed", "SourceChanged"}
Locals == [kind : {"verify", "edit"}, read : [Aspects -> 0..1], status : Statuses,
           failed : BOOLEAN, unchanged : BOOLEAN, success : BOOLEAN]

(* Every variable holds a value of its type.                                *)
TypeOK ==
  /\ lease \in [Runs -> {"none", "partial", "valid"}]
  /\ dir \in [Runs -> {"none", "empty", "populated"}]
  /\ registered \in [Runs -> BOOLEAN]
  /\ source \in [Aspects -> 0..1]
  /\ pc \in [Actors -> RunPcs]
  /\ loc \in [Runs -> Locals]
  /\ target \in [Actors -> Runs \union {NoRun}]
  /\ cancelled \in [Runs -> {"no", "early", "late"}]
  /\ cleaned \in [Actors -> {"none", "yes", "no"}]
  /\ {crashes, faults, changes} \subseteq Nat

(* Whatever dies or fails, a directory or a Git registration of a run is on *)
(* disk only together with the run's readable lease, from which a cleanup   *)
(* finds it: the lease is published before the directory is reserved and    *)
(* removed after both are gone.                                             *)
LeaseCovers ==
  \A r \in Runs : dir[r] # "none" \/ registered[r] => lease[r] = "valid"

(* A cleanup that reports success, by the run or by a command, first or     *)
(* repeated, leaves neither directory nor registration nor lease.           *)
CleanedIsGone ==
  \A a \in Actors : cleaned[a] = "yes" =>
    /\ dir[target[a]] = "none" /\ ~registered[target[a]]
    /\ lease[target[a]] = "none"

(* A verification whose token was set before its last cancellable command   *)
(* ended never succeeds, at whatever step the token was set.                *)
CancelledNeverPasses ==
  \A r \in Runs : loc[r].success /\ loc[r].kind = "verify" => cancelled[r] # "early"

(* A cleanup never removes content that Git does not know as a worktree.    *)
RemovesOnlyRegistered ==
  [][\A r \in Runs : dir[r] = "populated" /\ dir'[r] = "none" => registered[r]]_vars

(* A source that is no longer as the run read it, and stays so, is never    *)
(* certified, whichever of tree, HEAD and refs it is.                       *)
Drifted(r) ==
  /\ pc[r] = "reread_tree" /\ changes = MaxChanges
  /\ \E a \in Aspects : source[a] # loc[r].read[a]
DriftRefused == \A r \in Runs : [](Drifted(r) => []~loc[r].success)

(* What a dead run left behind is cleaned up in the end, but for content    *)
(* that Git does not list, which every cleanup refuses.                     *)
CleansUp ==
  \A r \in Runs : (lease[r] = "valid" /\ ~Active(r))
    ~> (lease[r] # "valid" \/ (dir[r] = "populated" /\ ~registered[r]))

(* What a run leaves on disk is covered by a readable lease, a cleanup that *)
(* reports success left nothing, and a cancelled run never reports a pass.  *)
WorktreeAccounted == TypeOK /\ LeaseCovers /\ CleanedIsGone /\ CancelledNeverPasses

=============================================================================
