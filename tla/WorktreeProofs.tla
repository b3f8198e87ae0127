--------------------------- MODULE WorktreeProofs ---------------------------
(* Worktree: leases, cleanups and verdicts, for any number of runs,         *)
(* cleanups, crashes, failures and changes of the source.                   *)
EXTENDS Worktree, TLAPS

(* A run before it has reserved its directory, and one that will never      *)
(* again act on it.                                                         *)
Unreserved == {"idle", "read_tree", "read_head", "read_refs", "permit", "create_lease",
               "write_lease", "reserve"}
Over == {"reread_tree", "reread_head", "reread_refs", "sum_up", "ended", "crashed"}

(* Who cleans up what: a run itself, a cleanup command the run it was given. *)
Targets ==
  /\ \A r \in Runs : target[r] = r
  /\ \A c \in Cleaners :
       /\ pc[c] \in InCleanup \union {"idle"}
       /\ pc[c] # "idle" \/ cleaned[c] = "yes" => target[c] \in Runs

(* A cleanup command works only on a run whose process is gone.             *)
Apart ==
  \A c \in Cleaners : target[c] \in Runs => pc[target[c]] \in {"ended", "crashed"}

(* What is on disk at each point of a run.                                  *)
PreparedAt(r) ==
  /\ pc[r] \in Unreserved => dir[r] = "none" /\ ~registered[r]
  /\ pc[r] \in {"reserve", "add"} => lease[r] = "valid"
  /\ pc[r] \in {"setup", "apply", "build"} => dir[r] # "none"
  /\ pc[r] = "capture" /\ loc[r].status = "Passed" => dir[r] # "none"

CoveredAt(r) == dir[r] # "none" \/ registered[r] => lease[r] = "valid"

(* What a cleanup has established before it removes the lease, and what it  *)
(* reports.                                                                 *)
CleaningAt(a) ==
  /\ pc[a] \in {"relist", "unlease"} => dir[target[a]] = "none"
  /\ pc[a] = "unlease" => ~registered[target[a]]
  /\ cleaned[a] = "yes" =>
       /\ a \in Cleaners \/ pc[a] \in Over
       /\ dir[target[a]] = "none" /\ ~registered[target[a]]
       /\ lease[target[a]] = "none"

(* Where a verdict stands, and what the token says about it.                *)
VerdictAt(r) ==
  /\ pc[r] = "authorize" => loc[r].kind = "edit"
  /\ loc[r].success => pc[r] = "ended" /\ (loc[r].kind = "verify" => cancelled[r] # "early")
  /\ /\ loc[r].kind = "verify" /\ loc[r].status = "Passed"
     /\ pc[r] \in InCleanup \union {"reread_tree", "reread_head", "reread_refs", "sum_up"}
     => cancelled[r] # "early"

Inv ==
  /\ TypeOK
  /\ Targets /\ Apart
  /\ \A r \in Runs : PreparedAt(r) /\ CoveredAt(r) /\ VerdictAt(r)
  /\ \A a \in Actors : CleaningAt(a)

(* Every step preserves the types.                                          *)
LEMMA TypeInit == Init => TypeOK
<1>1. Fresh \in Locals
  BY DEF Fresh, Locals, Aspects, Statuses
<1>2. "idle" \in RunPcs
  BY DEF RunPcs
<1>. QED BY <1>1, <1>2 DEF Init, TypeOK, Actors, Aspects

(* The updates of a run's local variables keep their types.                 *)
LEMMA LocalsUpdates ==
  ASSUME TypeOK, NEW r \in Runs
  PROVE  /\ \A k \in {"verify", "edit"} :
              loc' = [loc EXCEPT ![r].kind = k] => loc' \in [Runs -> Locals]
         /\ \A x \in Aspects, v \in 0..1 :
              loc' = [loc EXCEPT ![r].read[x] = v] => loc' \in [Runs -> Locals]
         /\ \A s \in Statuses : SetStatus(r, s) => loc' \in [Runs -> Locals]
         /\ \A s \in Statuses, b \in BOOLEAN :
              loc' = [loc EXCEPT ![r].status = s, ![r].failed = b] => loc' \in [Runs -> Locals]
         /\ \A s \in Statuses, b \in BOOLEAN :
              loc' = [loc EXCEPT ![r].status = s, ![r].success = b] => loc' \in [Runs -> Locals]
         /\ \A b \in BOOLEAN : loc' = [loc EXCEPT ![r].unchanged = b] => loc' \in [Runs -> Locals]
<1>1. loc[r] \in Locals
  BY DEF TypeOK
<1>2. \A k \in {"verify", "edit"} : [loc[r] EXCEPT !.kind = k] \in Locals
  BY <1>1 DEF Locals
<1>3. \A x \in Aspects, v \in 0..1 : [loc[r] EXCEPT !.read[x] = v] \in Locals
  BY <1>1 DEF Locals
<1>4. \A s \in Statuses, b \in BOOLEAN :
        /\ [loc[r] EXCEPT !.status = s] \in Locals
        /\ [loc[r] EXCEPT !.status = s, !.failed = b] \in Locals
        /\ [loc[r] EXCEPT !.status = s, !.success = b] \in Locals
  BY <1>1 DEF Locals
<1>5. \A k \in {"verify", "edit"} :
        loc' = [loc EXCEPT ![r].kind = k] => loc' \in [Runs -> Locals]
  BY <1>2 DEF TypeOK
<1>6. \A x \in Aspects, v \in 0..1 :
        loc' = [loc EXCEPT ![r].read[x] = v] => loc' \in [Runs -> Locals]
  BY <1>3 DEF TypeOK
<1>7. \A s \in Statuses : SetStatus(r, s) => loc' \in [Runs -> Locals]
  BY <1>4 DEF TypeOK, SetStatus
<1>8. \A s \in Statuses, b \in BOOLEAN :
        loc' = [loc EXCEPT ![r].status = s, ![r].failed = b] => loc' \in [Runs -> Locals]
  <2>. TAKE s \in Statuses, b \in BOOLEAN
  <2>1. [loc[r] EXCEPT !.status = s, !.failed = b] \in Locals BY <1>4
  <2>2. HAVE loc' = [loc EXCEPT ![r].status = s, ![r].failed = b]
  <2>3. loc' = [loc EXCEPT ![r] = [loc[r] EXCEPT !.status = s, !.failed = b]]
    BY <2>2 DEF TypeOK
  <2>. QED BY <2>1, <2>3 DEF TypeOK
<1>9. \A s \in Statuses, b \in BOOLEAN :
        loc' = [loc EXCEPT ![r].status = s, ![r].success = b] => loc' \in [Runs -> Locals]
  <2>. TAKE s \in Statuses, b \in BOOLEAN
  <2>1. [loc[r] EXCEPT !.status = s, !.success = b] \in Locals BY <1>4
  <2>2. HAVE loc' = [loc EXCEPT ![r].status = s, ![r].success = b]
  <2>3. loc' = [loc EXCEPT ![r] = [loc[r] EXCEPT !.status = s, !.success = b]]
    BY <2>2 DEF TypeOK
  <2>. QED BY <2>1, <2>3 DEF TypeOK
<1>10. \A b \in BOOLEAN : loc' = [loc EXCEPT ![r].unchanged = b] => loc' \in [Runs -> Locals]
  <2>. TAKE b \in BOOLEAN
  <2>1. [loc[r] EXCEPT !.unchanged = b] \in Locals BY <1>1 DEF Locals
  <2>. QED BY <2>1 DEF TypeOK
<1>. QED BY <1>5, <1>6, <1>7, <1>8, <1>9, <1>10

LEMMA InterruptType ==
  ASSUME TypeOK, NEW t \in Runs, NEW d \in {"none", "populated"}, Interrupt(t, d)
  PROVE  registered' \in [Runs -> BOOLEAN] /\ dir' \in [Runs -> {"none", "empty", "populated"}]
<1>1. PICK e \in {dir[t], d} : dir' = [dir EXCEPT ![t] = e]
  BY DEF Interrupt
<1>2. PICK b \in BOOLEAN : registered' = [registered EXCEPT ![t] = b]
  BY DEF Interrupt
<1>3. dir' \in [Runs -> {"none", "empty", "populated"}]
  BY <1>1 DEF TypeOK
<1>4. registered' \in [Runs -> BOOLEAN]
  BY <1>2 DEF TypeOK
<1>. QED BY <1>3, <1>4

LEMMA TypeNext == TypeOK /\ Targets /\ [Next]_vars => TypeOK'
<1>. SUFFICES ASSUME TypeOK, Targets, [Next]_vars PROVE TypeOK'
  OBVIOUS
<1>. USE DEF diskVars, budgetVars, Actors
<1>t. /\ "idle" \in RunPcs /\ "read_tree" \in RunPcs /\ "read_head" \in RunPcs
      /\ "read_refs" \in RunPcs /\ "permit" \in RunPcs /\ "create_lease" \in RunPcs
      /\ "write_lease" \in RunPcs /\ "reserve" \in RunPcs /\ "add" \in RunPcs
      /\ "setup" \in RunPcs /\ "apply" \in RunPcs /\ "build" \in RunPcs
      /\ "capture" \in RunPcs /\ "diff" \in RunPcs /\ "authorize" \in RunPcs
      /\ "reread_tree" \in RunPcs /\ "reread_head" \in RunPcs /\ "reread_refs" \in RunPcs
      /\ "sum_up" \in RunPcs /\ "ended" \in RunPcs /\ "crashed" \in RunPcs
      /\ "cleanup" \in RunPcs /\ "remove" \in RunPcs /\ "inspect" \in RunPcs
      /\ "rmdir" \in RunPcs /\ "gone" \in RunPcs /\ "relist" \in RunPcs /\ "unlease" \in RunPcs
  BY DEF RunPcs, Cancellable, InCleanup
<1>s. /\ "Passed" \in Statuses /\ "SetupFailed" \in Statuses /\ "ApplyFailed" \in Statuses
      /\ "BuildFailed" \in Statuses /\ "Cancelled" \in Statuses
      /\ "VerificationFailed" \in Statuses /\ "SourceChanged" \in Statuses
  BY DEF Statuses
<1>b. \/ UNCHANGED budgetVars \/ Fault => {crashes', faults', changes'} \subseteq Nat
  BY DEF Fault, TypeOK
<1>l. \A r \in Runs : loc[r].status \in Statuses /\ loc[r].unchanged \in BOOLEAN
  BY DEF TypeOK, Locals
<1>a. "tree" \in Aspects /\ "head" \in Aspects /\ "refs" \in Aspects
  BY DEF Aspects
<1>1. ASSUME NEW r \in Runs, Start(r) PROVE TypeOK'
  <2>1. pc' \in [Actors -> RunPcs]
    BY <1>1, <1>t DEF Start, Goto, TypeOK
  <2>2. loc' \in [Runs -> Locals]
    BY <1>1, LocalsUpdates DEF Start
  <2>. QED BY <1>1, <2>1, <2>2 DEF Start, TypeOK
<1>2. ASSUME NEW r \in Runs, ReadTree(r) PROVE TypeOK'
  <2>1. pc' \in [Actors -> RunPcs]
    BY <1>2, <1>t DEF ReadTree, Goto, TypeOK
  <2>3. {crashes', faults', changes'} \subseteq Nat
    BY <1>2, <1>b DEF ReadTree
  <2>. QED BY <1>2, <2>1, <2>3 DEF ReadTree, TypeOK
<1>3. ASSUME NEW r \in Runs, ReadHead(r) PROVE TypeOK'
  <2>1. pc' \in [Actors -> RunPcs]
    BY <1>3, <1>t DEF ReadHead, Read, Interrupted, Goto, TypeOK
  <2>2. loc' \in [Runs -> Locals]
    <3>1. UNCHANGED loc \/ \E v \in 0..1 : loc' = [loc EXCEPT ![r].read["head"] = v]
      BY <1>3, <1>a DEF ReadHead, Read, TypeOK
    <3>. QED BY <3>1, <1>a, LocalsUpdates DEF TypeOK
  <2>3. {crashes', faults', changes'} \subseteq Nat
    BY <1>3, <1>b DEF ReadHead, Read, Interrupted
  <2>. QED BY <1>3, <2>1, <2>2, <2>3 DEF ReadHead, Read, Interrupted, TypeOK
<1>4. ASSUME NEW r \in Runs, ReadRefs(r) PROVE TypeOK'
  <2>1. pc' \in [Actors -> RunPcs]
    BY <1>4, <1>t DEF ReadRefs, Read, Interrupted, Goto, TypeOK
  <2>2. loc' \in [Runs -> Locals]
    <3>1. UNCHANGED loc \/ \E v \in 0..1 : loc' = [loc EXCEPT ![r].read["refs"] = v]
      BY <1>4, <1>a DEF ReadRefs, Read, TypeOK
    <3>. QED BY <3>1, <1>a, LocalsUpdates DEF TypeOK
  <2>3. {crashes', faults', changes'} \subseteq Nat
    BY <1>4, <1>b DEF ReadRefs, Read, Interrupted
  <2>. QED BY <1>4, <2>1, <2>2, <2>3 DEF ReadRefs, Read, Interrupted, TypeOK
<1>5. ASSUME NEW r \in Runs, BeforeCreate(r) PROVE TypeOK'
  <2>1. pc' \in [Actors -> RunPcs]
    BY <1>5, <1>t DEF BeforeCreate, Goto, TypeOK
  <2>. QED BY <1>5, <2>1 DEF BeforeCreate, TypeOK
<1>6. ASSUME NEW r \in Runs, CreateLease(r) PROVE TypeOK'
  <2>1. pc' \in [Actors -> RunPcs]
    BY <1>6, <1>t DEF CreateLease, Goto, TypeOK
  <2>3. {crashes', faults', changes'} \subseteq Nat
    BY <1>6, <1>b DEF CreateLease
  <2>. QED BY <1>6, <2>1, <2>3 DEF CreateLease, TypeOK
<1>7. ASSUME NEW r \in Runs, WriteLease(r) PROVE TypeOK'
  <2>1. pc' \in [Actors -> RunPcs]
    BY <1>7, <1>t DEF WriteLease, Goto, TypeOK
  <2>3. {crashes', faults', changes'} \subseteq Nat
    BY <1>7, <1>b DEF WriteLease
  <2>. QED BY <1>7, <2>1, <2>3 DEF WriteLease, TypeOK
<1>8. ASSUME NEW r \in Runs, Reserve(r) PROVE TypeOK'
  <2>1. pc' \in [Actors -> RunPcs]
    BY <1>8, <1>t DEF Reserve, Goto, TypeOK
  <2>3. {crashes', faults', changes'} \subseteq Nat
    BY <1>8, <1>b DEF Reserve
  <2>. QED BY <1>8, <2>1, <2>3 DEF Reserve, TypeOK
<1>9. ASSUME NEW r \in Runs, AddWorktree(r) PROVE TypeOK'
  <2>1. pc' \in [Actors -> RunPcs]
    BY <1>9, <1>t DEF AddWorktree, SetupFails, Interrupt, Interrupted, Goto, TypeOK
  <2>2. loc' \in [Runs -> Locals]
    <3>1. UNCHANGED loc \/ \E s \in Statuses, b \in BOOLEAN :
                                loc' = [loc EXCEPT ![r].status = s, ![r].failed = b]
      BY <1>9, <1>s DEF AddWorktree, SetupFails
    <3>. QED BY <3>1, <1>a, LocalsUpdates DEF TypeOK
  <2>3. {crashes', faults', changes'} \subseteq Nat
    BY <1>9, <1>b DEF AddWorktree, SetupFails, Interrupt, Interrupted
  <2>4. registered' \in [Runs -> BOOLEAN] /\ dir' \in [Runs -> {"none", "empty", "populated"}]
    BY <1>9, InterruptType DEF AddWorktree, TypeOK
  <2>. QED BY <1>9, <2>1, <2>2, <2>3, <2>4 DEF AddWorktree, TypeOK
<1>10. ASSUME NEW r \in Runs, Setup(r) PROVE TypeOK'
  <2>1. pc' \in [Actors -> RunPcs]
    BY <1>10, <1>t, ZenonT(60) DEF Setup, SetupFails, Interrupted, Goto, TypeOK
  <2>2. loc' \in [Runs -> Locals]
    <3>1. UNCHANGED loc \/ \E s \in Statuses, b \in BOOLEAN :
                                loc' = [loc EXCEPT ![r].status = s, ![r].failed = b]
      BY <1>10, <1>s DEF Setup, SetupFails
    <3>. QED BY <3>1, <1>a, LocalsUpdates DEF TypeOK
  <2>3. {crashes', faults', changes'} \subseteq Nat
    BY <1>10, <1>b DEF Setup, SetupFails, Interrupted
  <2>. QED BY <1>10, <2>1, <2>2, <2>3 DEF Setup, SetupFails, Interrupted, TypeOK
<1>11. ASSUME NEW r \in Runs, Apply(r) PROVE TypeOK'
  <2>1. pc' \in [Actors -> RunPcs]
    BY <1>11, <1>t DEF Apply, AfterOperation, SetStatus, Goto, TypeOK
  <2>2. loc' \in [Runs -> Locals]
    <3>1. UNCHANGED loc \/ \E s \in Statuses : SetStatus(r, s)
      BY <1>11, <1>s DEF Apply
    <3>. QED BY <3>1, <1>a, LocalsUpdates DEF TypeOK
  <2>3. {crashes', faults', changes'} \subseteq Nat
    BY <1>11, <1>b DEF Apply, AfterOperation, SetStatus
  <2>. QED BY <1>11, <2>1, <2>2, <2>3 DEF Apply, AfterOperation, SetStatus, TypeOK
<1>12. ASSUME NEW r \in Runs, Build(r) PROVE TypeOK'
  <2>1. pc' \in [Actors -> RunPcs]
    BY <1>12, <1>t DEF Build, AfterOperation, SetStatus, Goto, TypeOK
  <2>2. loc' \in [Runs -> Locals]
    <3>1. UNCHANGED loc \/ \E s \in Statuses : SetStatus(r, s)
      BY <1>12, <1>s DEF Build
    <3>. QED BY <3>1, <1>a, LocalsUpdates DEF TypeOK
  <2>3. {crashes', faults', changes'} \subseteq Nat
    BY <1>12, <1>b DEF Build, AfterOperation, SetStatus
  <2>. QED BY <1>12, <2>1, <2>2, <2>3 DEF Build, AfterOperation, SetStatus, TypeOK
<1>13. ASSUME NEW r \in Runs, Capture(r) PROVE TypeOK'
  <2>1. pc' \in [Actors -> RunPcs]
    BY <1>13, <1>t DEF Capture, Unproved, SetStatus, Goto, TypeOK
  <2>2. loc' \in [Runs -> Locals]
    <3>1. UNCHANGED loc \/ \E s \in Statuses : SetStatus(r, s)
      BY <1>13, <1>s, <1>l DEF Capture, Unproved
    <3>. QED BY <3>1, <1>a, LocalsUpdates DEF TypeOK
  <2>3. {crashes', faults', changes'} \subseteq Nat
    BY <1>13, <1>b DEF Capture, Unproved, SetStatus
  <2>. QED BY <1>13, <2>1, <2>2, <2>3 DEF Capture, Unproved, SetStatus, TypeOK
<1>14. ASSUME NEW r \in Runs, CaptureDiff(r) PROVE TypeOK'
  <2>1. pc' \in [Actors -> RunPcs]
    BY <1>14, <1>t DEF CaptureDiff, Unproved, SetStatus, Interrupted, Goto, TypeOK
  <2>2. loc' \in [Runs -> Locals]
    <3>1. UNCHANGED loc \/ \E s \in Statuses : SetStatus(r, s)
      BY <1>14, <1>s, <1>l DEF CaptureDiff, Unproved
    <3>. QED BY <3>1, <1>a, LocalsUpdates DEF TypeOK
  <2>3. {crashes', faults', changes'} \subseteq Nat
    BY <1>14, <1>b DEF CaptureDiff, Unproved, SetStatus, Interrupted
  <2>. QED BY <1>14, <2>1, <2>2, <2>3 DEF CaptureDiff, Unproved, SetStatus, Interrupted,
                                          TypeOK
<1>15. ASSUME NEW r \in Runs, BeforeCleanup(r) PROVE TypeOK'
  <2>1. pc' \in [Actors -> RunPcs]
    BY <1>15, <1>t DEF BeforeCleanup, Goto, TypeOK
  <2>. QED BY <1>15, <2>1 DEF BeforeCleanup, TypeOK
<1>16. ASSUME NEW r \in Runs, RereadTree(r) PROVE TypeOK'
  <2>1. pc' \in [Actors -> RunPcs]
    BY <1>16, <1>t DEF RereadTree, Reread, Goto, TypeOK
  <2>2. loc' \in [Runs -> Locals]
    <3>1. \E b \in BOOLEAN : loc' = [loc EXCEPT ![r].unchanged = b]
      BY <1>16, <1>l DEF RereadTree, Reread
    <3>. QED BY <3>1, <1>a, LocalsUpdates DEF TypeOK
  <2>3. {crashes', faults', changes'} \subseteq Nat
    BY <1>16, <1>b DEF RereadTree, Reread
  <2>. QED BY <1>16, <2>1, <2>2, <2>3 DEF RereadTree, Reread, TypeOK
<1>17. ASSUME NEW r \in Runs, RereadHead(r) PROVE TypeOK'
  <2>1. pc' \in [Actors -> RunPcs]
    BY <1>17, <1>t DEF RereadHead, Reread, Goto, TypeOK
  <2>2. loc' \in [Runs -> Locals]
    <3>1. \E b \in BOOLEAN : loc' = [loc EXCEPT ![r].unchanged = b]
      BY <1>17, <1>l DEF RereadHead, Reread
    <3>. QED BY <3>1, <1>a, LocalsUpdates DEF TypeOK
  <2>3. {crashes', faults', changes'} \subseteq Nat
    BY <1>17, <1>b DEF RereadHead, Reread
  <2>. QED BY <1>17, <2>1, <2>2, <2>3 DEF RereadHead, Reread, TypeOK
<1>18. ASSUME NEW r \in Runs, RereadRefs(r) PROVE TypeOK'
  <2>1. pc' \in [Actors -> RunPcs]
    BY <1>18, <1>t DEF RereadRefs, Reread, Goto, TypeOK
  <2>2. loc' \in [Runs -> Locals]
    <3>1. \E b \in BOOLEAN : loc' = [loc EXCEPT ![r].unchanged = b]
      BY <1>18, <1>l DEF RereadRefs, Reread
    <3>. QED BY <3>1, <1>a, LocalsUpdates DEF TypeOK
  <2>3. {crashes', faults', changes'} \subseteq Nat
    BY <1>18, <1>b DEF RereadRefs, Reread
  <2>. QED BY <1>18, <2>1, <2>2, <2>3 DEF RereadRefs, Reread, TypeOK
<1>19. ASSUME NEW r \in Runs, SumUp(r) PROVE TypeOK'
  <2>1. pc' \in [Actors -> RunPcs]
    BY <1>19, <1>t DEF SumUp, Goto, TypeOK
  <2>2. loc' \in [Runs -> Locals]
    <3>1. \E s \in Statuses, b \in BOOLEAN :
                loc' = [loc EXCEPT ![r].status = s, ![r].success = b]
      BY <1>19, <1>s, <1>l DEF SumUp
    <3>. QED BY <3>1, <1>a, LocalsUpdates DEF TypeOK
  <2>. QED BY <1>19, <2>1, <2>2 DEF SumUp, TypeOK
<1>20. ASSUME NEW r \in Runs, Cancel(r) PROVE TypeOK'
  <2>. QED BY <1>20 DEF Cancel, TypeOK
<1>21. ASSUME NEW a \in Actors, List(a) PROVE TypeOK'
  <2>1. pc' \in [Actors -> RunPcs]
    BY <1>21, <1>t DEF List, Step, Report, Abort, TypeOK
  <2>3. {crashes', faults', changes'} \subseteq Nat
    BY <1>21, <1>b DEF List
  <2>. QED BY <1>21, <2>1, <2>3 DEF List, Step, Report, Abort, TypeOK
<1>22. ASSUME NEW a \in Actors, Remove(a) PROVE TypeOK'
  <2>t. a \in Runs \/ target[a] \in Runs
    BY <1>22 DEF Remove, Targets, InCleanup
  <2>1. pc' \in [Actors -> RunPcs]
    BY <1>22, <1>t DEF Remove, Step, Report, TypeOK
  <2>3. {crashes', faults', changes'} \subseteq Nat
    BY <1>22, <1>b DEF Remove
  <2>4. registered' \in [Runs -> BOOLEAN] /\ dir' \in [Runs -> {"none", "empty", "populated"}]
    <3>1. target[a] \in Runs BY <2>t DEF Targets
    <3>2. CASE Interrupt(target[a], "none") BY <3>1, <3>2, InterruptType
    <3>3. CASE /\ dir' = [dir EXCEPT ![target[a]] = "none"]
               /\ registered' = [registered EXCEPT ![target[a]] = FALSE]
      BY <3>1, <3>3 DEF TypeOK
    <3>. QED BY <1>22, <3>2, <3>3 DEF Remove, TypeOK
  <2>. QED BY <1>22, <2>1, <2>t, <2>3, <2>4 DEF Remove, Step, Report, TypeOK, Targets
<1>23. ASSUME NEW a \in Actors, Inspect(a) PROVE TypeOK'
  <2>1. pc' \in [Actors -> RunPcs]
    BY <1>23, <1>t DEF Inspect, Step, Report, Abort, TypeOK
  <2>3. {crashes', faults', changes'} \subseteq Nat
    BY <1>23, <1>b DEF Inspect
  <2>. QED BY <1>23, <2>1, <2>3 DEF Inspect, Step, Report, Abort, TypeOK
<1>24. ASSUME NEW a \in Actors, RemoveDir(a) PROVE TypeOK'
  <2>t. a \in Runs \/ target[a] \in Runs
    BY <1>24 DEF RemoveDir, Targets, InCleanup
  <2>1. pc' \in [Actors -> RunPcs]
    BY <1>24, <1>t DEF RemoveDir, Step, Report, TypeOK
  <2>3. {crashes', faults', changes'} \subseteq Nat
    BY <1>24, <1>b DEF RemoveDir
  <2>. QED BY <1>24, <2>1, <2>t, <2>3 DEF RemoveDir, Step, Report, TypeOK, Targets
<1>25. ASSUME NEW a \in Actors, CheckGone(a) PROVE TypeOK'
  <2>1. pc' \in [Actors -> RunPcs]
    BY <1>25, <1>t DEF CheckGone, Step, Report, TypeOK
  <2>. QED BY <1>25, <2>1 DEF CheckGone, Step, Report, TypeOK
<1>26. ASSUME NEW a \in Actors, Relist(a) PROVE TypeOK'
  <2>1. pc' \in [Actors -> RunPcs]
    BY <1>26, <1>t DEF Relist, Step, Report, TypeOK
  <2>3. {crashes', faults', changes'} \subseteq Nat
    BY <1>26, <1>b DEF Relist
  <2>. QED BY <1>26, <2>1, <2>3 DEF Relist, Step, Report, TypeOK
<1>27. ASSUME NEW a \in Actors, RemoveLease(a) PROVE TypeOK'
  <2>t. a \in Runs \/ target[a] \in Runs
    BY <1>27 DEF RemoveLease, Targets, InCleanup
  <2>1. pc' \in [Actors -> RunPcs]
    BY <1>27, <1>t DEF RemoveLease, Report, TypeOK
  <2>3. {crashes', faults', changes'} \subseteq Nat
    BY <1>27, <1>b DEF RemoveLease
  <2>. QED BY <1>27, <2>1, <2>t, <2>3 DEF RemoveLease, Report, TypeOK, Targets
<1>28. ASSUME NEW a \in Actors, Crash(a) PROVE TypeOK'
  <2>t. a \in Runs \/ target[a] \in Runs
    BY <1>28 DEF Crash, Targets, InCleanup
  <2>1. pc' \in [Actors -> RunPcs]
    BY <1>28, <1>t DEF Crash, TypeOK
  <2>4. registered' \in [Runs -> BOOLEAN] /\ dir' \in [Runs -> {"none", "empty", "populated"}]
    BY <1>28, <2>t, InterruptType DEF Crash, TypeOK, Targets
  <2>. QED BY <1>28, <2>1, <2>t, <2>4 DEF Crash, Active, TypeOK, Targets
<1>29. ASSUME NEW c \in Cleaners, NEW r \in Runs, StartCleanup(c, r) PROVE TypeOK'
  <2>1. {crashes', faults', changes'} \subseteq Nat
    BY <1>29, <1>b DEF StartCleanup
  <2>. QED BY <1>29, <1>t, <2>1 DEF StartCleanup, TypeOK
<1>30. CASE ChangeSource
  BY <1>30 DEF ChangeSource, TypeOK, Aspects
<1>31. CASE UNCHANGED vars
  BY <1>31 DEF vars, TypeOK
<1>. QED BY <1>1, <1>2, <1>3, <1>4, <1>5, <1>6, <1>7, <1>8, <1>9, <1>10, <1>11, <1>12,
            <1>13, <1>14, <1>15, <1>16, <1>17, <1>18, <1>19, <1>20, <1>21, <1>22, <1>23,
            <1>24, <1>25, <1>26, <1>27, <1>28, <1>29, <1>30, <1>31
           DEF Next, Prepare, Work, Cleanup, Conclude

-----------------------------------------------------------------------------
LEMMA InvInit == Init => Inv
<1>. SUFFICES ASSUME Init PROVE Inv
  OBVIOUS
<1>1. Targets /\ Apart
  BY WorktreeAssumption DEF Init, Targets, Apart, Actors, InCleanup
<1>2. \A r \in Runs : PreparedAt(r) /\ CoveredAt(r) /\ VerdictAt(r)
  BY DEF Init, Actors, Fresh, PreparedAt, CoveredAt, VerdictAt, InCleanup
<1>3. \A a \in Actors : CleaningAt(a)
  BY DEF Init, CleaningAt
<1>. QED BY TypeInit, <1>1, <1>2, <1>3 DEF Inv

(* The steps of a run up to its cleanup and after it.                       *)
OwnStep(r) == Start(r) \/ Prepare(r) \/ Work(r) \/ Conclude(r)

(* They touch nothing of another run or a cleanup command.                  *)
LEMMA OwnFrame ==
  ASSUME TypeOK, NEW r \in Runs, OwnStep(r)
  PROVE  /\ \A a \in Actors \ {r} : pc'[a] = pc[a] /\ cleaned'[a] = cleaned[a]
         /\ \A s \in Runs \ {r} : /\ lease'[s] = lease[s] /\ dir'[s] = dir[s]
                                  /\ registered'[s] = registered[s] /\ loc'[s] = loc[s]
         /\ UNCHANGED <<target, cancelled>>
<1>. USE DEF TypeOK, Goto, diskVars
<1>1. CASE Start(r) BY <1>1 DEF Start
<1>2. CASE Prepare(r)
  BY <1>2 DEF Prepare, ReadTree, ReadHead, ReadRefs, Read, BeforeCreate, CreateLease, WriteLease,
              Reserve
<1>3. CASE Work(r)
  BY <1>3, ZenonT(60)
     DEF Work, AddWorktree, Setup, SetupFails, Interrupt, Apply, Build, SetStatus, Capture,
              Unproved, CaptureDiff, BeforeCleanup
<1>4. CASE Conclude(r)
  BY <1>4 DEF Conclude, RereadTree, RereadHead, RereadRefs, Reread, SumUp
<1>. QED BY <1>1, <1>2, <1>3, <1>4 DEF OwnStep

LEMMA RereadKeeps ==
  ASSUME TypeOK, NEW r \in Runs, NEW x, NEW here, NEW next, Reread(r, x, here, next)
  PROVE  /\ loc'[r].kind = loc[r].kind /\ loc'[r].success = loc[r].success
         /\ loc'[r].status = loc[r].status
<1>1. PICK b : loc' = [loc EXCEPT ![r].unchanged = b]
  BY DEF Reread
<1>. QED BY <1>1 DEF TypeOK, Locals

(* A run before its cleanup and after it keeps what holds of itself: the    *)
(* lease is valid before there is a directory, and a pass that the token    *)
(* came before is taken back.                                               *)
LEMMA OwnKeeps ==
  ASSUME Inv, NEW r \in Runs, OwnStep(r)
  PROVE  /\ PreparedAt(r)' /\ CoveredAt(r)' /\ VerdictAt(r)' /\ CleaningAt(r)'
         /\ pc[r] \notin {"ended", "crashed"}
<1>. USE DEF Goto, diskVars, Actors
<1>0. /\ PreparedAt(r) /\ CoveredAt(r) /\ VerdictAt(r) /\ CleaningAt(r)
      /\ target[r] = r /\ loc[r] \in Locals /\ TypeOK
  BY DEF Inv, Targets, TypeOK
<1>. USE DEF PreparedAt, CoveredAt, VerdictAt, CleaningAt, Unreserved, Over, InCleanup
<1>1. CASE Start(r)
  BY <1>0, <1>1 DEF Start, TypeOK, Locals, IsCancelled
<1>2. CASE ReadTree(r)
  BY <1>0, <1>2 DEF ReadTree, TypeOK, Locals, IsCancelled
<1>3. CASE ReadHead(r)
  <2>1. /\ pc[r] = "read_head" /\ pc'[r] \in {"read_refs", "ended"}
        /\ UNCHANGED <<lease, dir, registered, target, cancelled, cleaned>>
        /\ UNCHANGED loc \/ \E v : loc' = [loc EXCEPT ![r].read["head"] = v]
    BY <1>0, <1>3 DEF ReadHead, Read, TypeOK
  <2>2. loc'[r].success = loc[r].success
    BY <1>0, <2>1 DEF TypeOK, Locals
  <2>. QED BY <1>0, <2>1, <2>2
<1>4. CASE ReadRefs(r)
  <2>1. /\ pc[r] = "read_refs" /\ pc'[r] \in {"permit", "ended"}
        /\ UNCHANGED <<lease, dir, registered, target, cancelled, cleaned>>
        /\ UNCHANGED loc \/ \E v : loc' = [loc EXCEPT ![r].read["refs"] = v]
    BY <1>0, <1>4 DEF ReadRefs, Read, TypeOK
  <2>2. loc'[r].success = loc[r].success
    BY <1>0, <2>1 DEF TypeOK, Locals
  <2>. QED BY <1>0, <2>1, <2>2
<1>5. CASE BeforeCreate(r)
  BY <1>0, <1>5 DEF BeforeCreate, TypeOK, Locals, IsCancelled
<1>6. CASE CreateLease(r)
  <2>1. /\ pc[r] = "create_lease" /\ pc'[r] \in {"write_lease", "ended"}
        /\ UNCHANGED <<dir, registered, loc, target, cancelled, cleaned>>
    BY <1>6 DEF CreateLease, Inv, TypeOK
  <2>2. dir[r] = "none" /\ ~registered[r] /\ cleaned[r] # "yes" /\ ~loc[r].success
    BY <1>0, <2>1, WorktreeAssumption
  <2>3. dir'[r] = "none" /\ ~registered'[r] /\ cleaned'[r] # "yes" /\ ~loc'[r].success
    BY <2>1, <2>2
  <2>. QED BY <2>1, <2>3
<1>7. CASE WriteLease(r)
  <2>1. /\ pc[r] = "write_lease"
        /\ pc'[r] = "ended" \/ (pc'[r] = "reserve" /\ lease'[r] = "valid")
        /\ UNCHANGED <<dir, registered, loc, target, cancelled, cleaned>>
    BY <1>7 DEF WriteLease, Inv, TypeOK
  <2>2. dir[r] = "none" /\ ~registered[r] /\ cleaned[r] # "yes" /\ ~loc[r].success
    BY <1>0, <2>1, WorktreeAssumption
  <2>3. dir'[r] = "none" /\ ~registered'[r] /\ cleaned'[r] # "yes" /\ ~loc'[r].success
    BY <2>1, <2>2
  <2>. QED BY <2>1, <2>3
<1>8. CASE Reserve(r)
  BY <1>0, <1>8 DEF Reserve, TypeOK, Locals, IsCancelled
<1>9. CASE AddWorktree(r)
  <2>1. pc[r] = "add" /\ lease[r] = "valid" /\ UNCHANGED <<lease, target, cancelled, cleaned>>
    BY <1>0, <1>9 DEF AddWorktree, SetupFails
  <2>2. CASE pc'[r] = "setup" /\ dir'[r] = "populated" /\ UNCHANGED loc
    BY <1>0, <2>1, <2>2, WorktreeAssumption
  <2>3. ASSUME NEW x \in {"SetupFailed", "Cancelled"}, SetupFails(r, "add", x)
        PROVE  /\ PreparedAt(r)' /\ CoveredAt(r)' /\ VerdictAt(r)' /\ CleaningAt(r)'
               /\ pc[r] \notin {"ended", "crashed"}
    <3>1. pc'[r] = IF loc[r].kind = "edit" THEN "cleanup" ELSE "capture"
      BY <1>0, <2>3 DEF SetupFails, TypeOK
    <3>2. PICK e : loc' = [loc EXCEPT ![r].status = x, ![r].failed = e]
      BY <2>3 DEF SetupFails
    <3>3. /\ loc'[r].kind = loc[r].kind /\ loc'[r].success = loc[r].success
          /\ loc'[r].status # "Passed"
      BY <1>0, <3>2 DEF TypeOK, Locals
    <3>. QED BY <1>0, <2>1, <3>1, <3>3, WorktreeAssumption
  <2>. QED BY <1>0, <1>9, <2>2, <2>3 DEF AddWorktree, TypeOK
<1>10. CASE Setup(r)
  <2>1. pc[r] = "setup" /\ UNCHANGED <<lease, dir, registered, target, cancelled, cleaned>>
    BY <1>10 DEF Setup, SetupFails
  <2>2. CASE pc'[r] = "apply" /\ UNCHANGED loc
    BY <1>0, <2>1, <2>2
  <2>3. ASSUME NEW x \in {"SetupFailed", "Cancelled"}, SetupFails(r, "setup", x)
        PROVE  /\ PreparedAt(r)' /\ CoveredAt(r)' /\ VerdictAt(r)' /\ CleaningAt(r)'
               /\ pc[r] \notin {"ended", "crashed"}
    <3>1. pc'[r] = IF loc[r].kind = "edit" THEN "cleanup" ELSE "capture"
      BY <2>3 DEF SetupFails, Inv, TypeOK
    <3>2. PICK e : loc' = [loc EXCEPT ![r].status = x, ![r].failed = e]
      BY <2>3 DEF SetupFails
    <3>3. /\ loc'[r].kind = loc[r].kind /\ loc'[r].success = loc[r].success
          /\ loc'[r].status # "Passed"
      BY <1>0, <3>2 DEF Inv, TypeOK, Locals
    <3>. QED BY <1>0, <2>1, <3>1, <3>3
  <2>. QED BY <1>10, <2>2, <2>3 DEF Setup, Inv, TypeOK
<1>11. CASE Apply(r)
  BY <1>0, <1>11, SMTT(30) DEF Apply, AfterOperation, SetStatus, TypeOK, Locals, IsCancelled
<1>12. CASE Build(r)
  <2>1. /\ pc[r] = "build" /\ UNCHANGED <<lease, dir, registered, target, cancelled, cleaned>>
        /\ pc'[r] = IF loc[r].kind = "verify" THEN "capture" ELSE "authorize"
        /\ \E x \in Statuses : loc' = [loc EXCEPT ![r].status = x]
    BY <1>12 DEF Build, SetStatus, AfterOperation, Statuses, Inv, TypeOK
  <2>2. loc'[r].kind = loc[r].kind /\ loc'[r].success = loc[r].success
    BY <1>0, <2>1 DEF Inv, TypeOK, Locals
  <2>3. loc[r].kind \in {"verify", "edit"}
    BY <1>0 DEF Locals
  <2>. QED BY <1>0, <2>1, <2>2, <2>3
<1>13. CASE Capture(r)
  <2>1. /\ pc[r] = "capture" /\ UNCHANGED <<lease, dir, registered, target, cancelled, cleaned>>
        /\ \/ pc'[r] = "diff" /\ (UNCHANGED loc \/ \E x \in Statuses : loc' = [loc EXCEPT ![r].status = x])
           \/ pc'[r] = "cleanup" /\ UNCHANGED loc /\ dir[r] = "none"
    <3>1. loc[r].status \in Statuses /\ "VerificationFailed" \in Statuses
      BY <1>0 DEF Locals, Statuses
    <3>. QED BY <3>1, <1>13 DEF Capture, Unproved, SetStatus, Inv, TypeOK
  <2>2. loc'[r].kind = loc[r].kind /\ loc'[r].success = loc[r].success
    BY <1>0, <2>1 DEF Inv, TypeOK, Locals
  <2>. QED BY <1>0, <2>1, <2>2
<1>14. CASE CaptureDiff(r)
  <2>1. /\ pc[r] = "diff" /\ pc'[r] = "cleanup"
        /\ UNCHANGED <<lease, dir, registered, target, cancelled, cleaned>>
        /\ \/ cancelled[r] = "no" /\ UNCHANGED loc
           \/ loc' = [loc EXCEPT ![r].status = IF loc[r].status = "Passed"
                                               THEN "VerificationFailed" ELSE loc[r].status]
    BY <1>14 DEF CaptureDiff, Unproved, SetStatus, IsCancelled, Inv, TypeOK
  <2>2. /\ loc'[r].kind = loc[r].kind /\ loc'[r].success = loc[r].success
        /\ cancelled[r] # "no" => loc'[r].status # "Passed"
    BY <1>0, <2>1 DEF Inv, TypeOK, Locals
  <2>. QED BY <1>0, <2>1, <2>2
<1>15. CASE BeforeCleanup(r)
  BY <1>0, <1>15 DEF BeforeCleanup, TypeOK, Locals, IsCancelled
<1>16. CASE RereadTree(r)
  <2>1. /\ pc[r] = "reread_tree" /\ pc'[r] = "reread_head"
        /\ UNCHANGED <<lease, dir, registered, target, cancelled, cleaned>>
    BY <1>16 DEF RereadTree, Reread, Inv, TypeOK
  <2>. QED BY <1>0, <1>16, <2>1, RereadKeeps DEF RereadTree, Inv
<1>17. CASE RereadHead(r)
  <2>1. /\ pc[r] = "reread_head" /\ pc'[r] = "reread_refs"
        /\ UNCHANGED <<lease, dir, registered, target, cancelled, cleaned>>
    BY <1>17 DEF RereadHead, Reread, Inv, TypeOK
  <2>. QED BY <1>0, <1>17, <2>1, RereadKeeps DEF RereadHead, Inv
<1>18. CASE RereadRefs(r)
  <2>1. /\ pc[r] = "reread_refs" /\ pc'[r] = "sum_up"
        /\ UNCHANGED <<lease, dir, registered, target, cancelled, cleaned>>
    BY <1>18 DEF RereadRefs, Reread, Inv, TypeOK
  <2>. QED BY <1>0, <1>18, <2>1, RereadKeeps DEF RereadRefs, Inv
<1>19. CASE SumUp(r)
  BY <1>0, <1>19 DEF SumUp, TypeOK, Locals, IsCancelled
<1>. QED BY <1>1, <1>2, <1>3, <1>4, <1>5, <1>6, <1>7, <1>8, <1>9, <1>10, <1>11, <1>12,
            <1>13, <1>14, <1>15, <1>16, <1>17, <1>18, <1>19
           DEF OwnStep, Prepare, Work, Conclude

(* A cleanup step is one of an actor with a run to clean up, and leaves the *)
(* others alone.                                                            *)
LEMMA CleanupFrame ==
  ASSUME TypeOK, Targets, NEW a \in Actors, Cleanup(a)
  PROVE  /\ target[a] \in Runs /\ pc[a] \in InCleanup
         /\ \A b \in Actors \ {a} : pc'[b] = pc[b] /\ cleaned'[b] = cleaned[b]
         /\ UNCHANGED <<loc, target, cancelled>>
         /\ pc'[a] \in IF a \in Cleaners THEN InCleanup \union {"idle"}
                       ELSE InCleanup \union {"reread_tree", "ended"}
<1>1. pc[a] \in InCleanup
  BY DEF Cleanup, List, Remove, Inspect, RemoveDir, CheckGone, Relist, RemoveLease, InCleanup
<1>2. target[a] \in Runs
  BY <1>1 DEF Targets, Actors, InCleanup
<1>3. a \notin Cleaners => a \in Runs
  BY DEF Actors
<1>4. UNCHANGED <<loc, target, cancelled>>
  BY DEF Cleanup, List, Remove, Inspect, RemoveDir, CheckGone, Relist, RemoveLease
<1>5. \A b \in Actors \ {a} : pc'[b] = pc[b] /\ cleaned'[b] = cleaned[b]
  BY DEF Cleanup, List, Remove, Inspect, RemoveDir, CheckGone, Relist, RemoveLease, Step, Report,
         Abort, TypeOK
<1>6. \/ UNCHANGED cleaned /\ \E p \in InCleanup : pc' = [pc EXCEPT ![a] = p]
      \/ \E o \in {"yes", "no"} : Report(a, o)
      \/ Abort(a)
  BY DEF Cleanup, List, Remove, Inspect, RemoveDir, CheckGone, Relist, RemoveLease, Step, InCleanup
<1>7. pc'[a] \in IF a \in Cleaners THEN InCleanup \union {"idle"}
                 ELSE InCleanup \union {"reread_tree", "ended"}
  BY <1>3, <1>6 DEF Report, Abort, TypeOK
<1>. QED BY <1>1, <1>2, <1>4, <1>5, <1>7

LEMMA TargetsNext == TypeOK /\ Targets /\ [Next]_vars => Targets'
<1>. SUFFICES ASSUME TypeOK, Targets, [Next]_vars PROVE Targets'
  OBVIOUS
<1>1. ASSUME NEW r \in Runs, OwnStep(r) PROVE Targets'
  BY <1>1, OwnFrame, WorktreeAssumption DEF Targets, Actors
<1>2. ASSUME NEW a \in Actors, Cleanup(a) PROVE Targets'
  <2>1. \A c \in Cleaners : pc'[c] \in InCleanup \union {"idle"}
    BY <1>2, CleanupFrame DEF Targets, Actors
  <2>2. \A c \in Cleaners : pc'[c] # "idle" \/ cleaned'[c] = "yes" => target'[c] \in Runs
    BY <1>2, CleanupFrame DEF Targets, Actors
  <2>. QED BY <1>2, <2>1, <2>2, CleanupFrame DEF Targets
<1>3. ASSUME NEW a \in Actors, Crash(a) PROVE Targets'
  <2>1. /\ UNCHANGED <<target, cleaned>>
        /\ \A c \in Cleaners : pc'[c] = pc[c] \/ pc'[c] = "idle"
    BY <1>3, WorktreeAssumption DEF Crash, TypeOK, Actors
  <2>. QED BY <2>1 DEF Targets
<1>4. ASSUME NEW c \in Cleaners, NEW r \in Runs, StartCleanup(c, r) PROVE Targets'
  <2>1. \A b \in Actors \ {c} : pc'[b] = pc[b] /\ cleaned'[b] = cleaned[b] /\ target'[b] = target[b]
    BY <1>4 DEF StartCleanup, TypeOK, Actors
  <2>2. target'[c] = r /\ pc'[c] \in {"cleanup", "idle"}
    BY <1>4 DEF StartCleanup, TypeOK, Actors
  <2>. QED BY <2>1, <2>2, WorktreeAssumption DEF Targets, Actors, InCleanup
<1>5. ASSUME NEW r \in Runs, Cancel(r) PROVE Targets'
  BY <1>5 DEF Cancel, Targets
<1>6. CASE ChangeSource \/ UNCHANGED vars
  BY <1>6 DEF ChangeSource, vars, Targets
<1>. QED BY <1>1, <1>2, <1>3, <1>4, <1>5, <1>6 DEF Next, OwnStep

(* A cleanup only takes away: nothing of another run changes, what is gone  *)
(* stays gone, and the lease goes only once the rest is gone.               *)
Shrinks(t) ==
  /\ dir'[t] \in {dir[t], "none"}
  /\ registered'[t] => registered[t]
  /\ lease'[t] = lease[t] \/ (lease'[t] = "none" /\ dir'[t] = "none" /\ ~registered'[t])

LEMMA InterruptShrinks ==
  ASSUME TypeOK, NEW t \in Runs, registered[t], Interrupt(t, "none"), UNCHANGED lease
  PROVE  /\ Shrinks(t)
         /\ \A s \in Runs \ {t} : dir'[s] = dir[s] /\ registered'[s] = registered[s]
<1>1. PICK e \in {dir[t], "none"} : dir' = [dir EXCEPT ![t] = e]
  BY DEF Interrupt
<1>2. PICK b \in BOOLEAN : registered' = [registered EXCEPT ![t] = b]
  BY DEF Interrupt
<1>. QED BY <1>1, <1>2 DEF Shrinks, TypeOK

LEMMA CleanupEffect ==
  ASSUME Inv, NEW a \in Actors, Cleanup(a)
  PROVE  /\ Shrinks(target[a])
         /\ \A s \in Runs \ {target[a]} :
              lease'[s] = lease[s] /\ dir'[s] = dir[s] /\ registered'[s] = registered[s]
         /\ CleaningAt(a)'
<1>. USE DEF diskVars
<1>1. pc[a] \in InCleanup /\ target[a] \in Runs /\ target'[a] = target[a]
  BY CleanupFrame DEF Inv
<1>2. CleaningAt(a)
  BY DEF Inv
<1>3. PICK t \in Runs : target[a] = t
  BY <1>1
<1>4. a \notin Cleaners => a \in Runs
  BY DEF Actors
<1>6. /\ Shrinks(t)
      /\ \A s \in Runs \ {t} :
           lease'[s] = lease[s] /\ dir'[s] = dir[s] /\ registered'[s] = registered[s]
  <2>1. CASE List(a) \/ Inspect(a) \/ CheckGone(a) \/ Relist(a)
    BY <2>1 DEF List, Inspect, CheckGone, Relist, Shrinks
  <2>2. CASE Remove(a)
    <3>1. CASE UNCHANGED <<dir, registered>>
      BY <2>2, <3>1 DEF Remove, Shrinks
    <3>2. CASE /\ dir' = [dir EXCEPT ![t] = "none"]
               /\ registered' = [registered EXCEPT ![t] = FALSE]
      BY <2>2, <3>2 DEF Remove, Shrinks, Inv, TypeOK
    <3>3. CASE registered[t] /\ Interrupt(t, "none")
      BY <2>2, <3>3, InterruptShrinks DEF Remove, Inv
    <3>. QED BY <2>2, <1>3, <3>1, <3>2, <3>3 DEF Remove
  <2>3. CASE RemoveDir(a)
    BY <2>3, <1>3 DEF RemoveDir, Shrinks, Inv, TypeOK
  <2>4. CASE RemoveLease(a)
    BY <2>4, <1>2, <1>3 DEF RemoveLease, Shrinks, CleaningAt, Inv, TypeOK
  <2>. QED BY <2>1, <2>2, <2>3, <2>4 DEF Cleanup
<1>10. CleaningAt(a)'
  <2>1. pc'[a] = "relist" => dir[t] = "none" /\ dir' = dir
    BY <1>1, <1>3, <1>4 DEF Cleanup, List, Remove, Inspect, RemoveDir, CheckGone, Relist, RemoveLease,
       Step, Report, Abort, Inv, TypeOK, InCleanup
  <2>2. pc'[a] = "unlease" => dir[t] = "none" /\ ~registered[t] /\ UNCHANGED <<dir, registered>>
    BY <1>2, <1>3, <1>4 DEF Cleanup, List, Remove, Inspect, RemoveDir, CheckGone, Relist, RemoveLease,
       Step, Report, Abort, Inv, TypeOK, CleaningAt
  <2>3. cleaned'[a] = "yes" /\ cleaned[a] # "yes" =>
          /\ a \in Cleaners \/ pc'[a] \in Over
          /\ dir'[t] = "none" /\ ~registered'[t] /\ lease'[t] = "none"
    BY <1>2, <1>3, <1>4 DEF Cleanup, List, Remove, Inspect, RemoveDir, CheckGone, Relist, RemoveLease,
       Step, Report, Abort, Inv, TypeOK, CleaningAt, Over
  <2>4. cleaned[a] = "yes" => a \in Cleaners
    BY <1>1, <1>2 DEF CleaningAt, InCleanup, Over
  <2>5. cleaned[a] = "yes" => dir'[t] = "none" /\ ~registered'[t] /\ lease'[t] = "none"
    BY <1>2, <1>3, <1>6 DEF CleaningAt, Shrinks
  <2>6. target'[a] = t
    BY <1>1, <1>3
  <2>. QED BY <2>1, <2>2, <2>3, <2>4, <2>5, <2>6 DEF CleaningAt
<1>. QED BY <1>3, <1>6, <1>10

(* Every step preserves the invariant, provided that nobody cleans up after *)
(* a run that is still at work.                                             *)
LEMMA InvNext == ~CleanActive /\ Inv /\ [Next]_vars => Inv'
<1>. SUFFICES ASSUME ~CleanActive, Inv, [Next]_vars PROVE Inv'
  OBVIOUS
<1>0. TypeOK'
  BY TypeNext DEF Inv
<1>t. Targets'
  BY TargetsNext DEF Inv
<1>i. /\ Targets /\ Apart /\ TypeOK /\ \A r \in Runs : PreparedAt(r) /\ CoveredAt(r) /\ VerdictAt(r)
      /\ \A a \in Actors : CleaningAt(a)
  BY DEF Inv
<1>1. ASSUME NEW r \in Runs, OwnStep(r) PROVE Inv'
  <2>1. /\ PreparedAt(r)' /\ CoveredAt(r)' /\ VerdictAt(r)' /\ CleaningAt(r)'
        /\ pc[r] \notin {"ended", "crashed"}
    BY <1>1, OwnKeeps
  <2>2. /\ \A a \in Actors \ {r} : pc'[a] = pc[a] /\ cleaned'[a] = cleaned[a]
        /\ \A s \in Runs \ {r} : /\ lease'[s] = lease[s] /\ dir'[s] = dir[s]
                                 /\ registered'[s] = registered[s] /\ loc'[s] = loc[s]
        /\ UNCHANGED <<target, cancelled>>
    BY <1>1, <1>i, OwnFrame
  <2>3. \A s \in Runs \ {r} : PreparedAt(s)' /\ CoveredAt(s)' /\ VerdictAt(s)'
    BY <1>i, <2>2 DEF PreparedAt, CoveredAt, VerdictAt, Actors
  <2>4. \A a \in Actors \ {r} : pc[a] \in InCleanup \/ cleaned[a] = "yes" =>
                                target[a] \in Runs \ {r}
    BY <1>i, <2>1 DEF Targets, Apart, Actors, InCleanup
  <2>5. \A a \in Actors \ {r} : CleaningAt(a)'
    BY <1>i, <2>2, <2>4 DEF CleaningAt, InCleanup
  <2>6. Apart'
    BY <1>i, <2>1, <2>2 DEF Apart, Actors
  <2>. QED BY <1>0, <1>t, <2>1, <2>3, <2>5, <2>6 DEF Inv
<1>2. ASSUME NEW a \in Actors, Cleanup(a) PROVE Inv'
  <2>1. PICK t \in Runs : t = target[a]
    BY <1>2, <1>i, CleanupFrame
  <2>2. /\ Shrinks(t)
        /\ \A s \in Runs \ {t} :
             lease'[s] = lease[s] /\ dir'[s] = dir[s] /\ registered'[s] = registered[s]
        /\ \A b \in Actors \ {a} : pc'[b] = pc[b] /\ cleaned'[b] = cleaned[b]
        /\ UNCHANGED <<loc, target, cancelled>>
        /\ pc[a] \in InCleanup
        /\ pc'[a] \in IF a \in Cleaners THEN InCleanup \union {"idle"}
                      ELSE InCleanup \union {"reread_tree", "ended"}
        /\ CleaningAt(a)'
    BY <1>2, <1>i, <2>1, CleanupEffect, CleanupFrame
  <2>3. \A b \in Actors \ {a} : CleaningAt(b)'
    <3>. SUFFICES ASSUME NEW b \in Actors, b # a PROVE CleaningAt(b)'
      OBVIOUS
    <3>1. pc'[b] = pc[b] /\ cleaned'[b] = cleaned[b] /\ target'[b] = target[b] /\ CleaningAt(b)
      BY <1>i, <2>2
    <3>2. CASE target[b] = t
      BY <3>1, <3>2, <2>2 DEF CleaningAt, Shrinks
    <3>3. CASE target[b] # t
      <4>1. pc[b] \in InCleanup \/ cleaned[b] = "yes" => target[b] \in Runs
        BY <1>i DEF Targets, Actors, InCleanup
      <4>. QED BY <3>1, <3>3, <4>1, <2>2 DEF CleaningAt, InCleanup
    <3>. QED BY <3>2, <3>3
  <2>4. \A r \in Runs : CoveredAt(r)'
    <3>. SUFFICES ASSUME NEW r \in Runs PROVE CoveredAt(r)'
      OBVIOUS
    <3>1. CASE r = t BY <1>i, <3>1, <2>2 DEF CoveredAt, Shrinks
    <3>2. CASE r # t BY <1>i, <3>2, <2>2 DEF CoveredAt
    <3>. QED BY <3>1, <3>2
  <2>5. \A r \in Runs : PreparedAt(r)' /\ VerdictAt(r)'
    <3>. SUFFICES ASSUME NEW r \in Runs PROVE PreparedAt(r)' /\ VerdictAt(r)'
      OBVIOUS
    <3>1. CASE r = a
      <4>1. r \notin Cleaners BY WorktreeAssumption
      <4>2. pc'[r] \in InCleanup \union {"reread_tree", "ended"} /\ pc[r] \in InCleanup
        BY <2>2, <3>1, <4>1
      <4>3. PreparedAt(r)' BY <4>2 DEF PreparedAt, InCleanup, Unreserved
      <4>4. VerdictAt(r)' BY <1>i, <2>2, <4>2 DEF VerdictAt, InCleanup
      <4>. QED BY <4>3, <4>4
    <3>2. CASE r # a
      <4>1. pc'[r] = pc[r] /\ loc'[r] = loc[r] /\ cancelled'[r] = cancelled[r]
        BY <2>2, <3>2 DEF Actors
      <4>2. CASE r = t
        <5>1. pc[r] \in {"ended", "crashed"}
          BY <1>i, <2>1, <3>2, <4>2 DEF Targets, Apart, Actors
        <5>. QED BY <1>i, <4>1, <5>1 DEF PreparedAt, VerdictAt, Unreserved
      <4>3. CASE r # t
        BY <1>i, <2>2, <4>1, <4>3 DEF PreparedAt, VerdictAt
      <4>. QED BY <4>2, <4>3
    <3>. QED BY <3>1, <3>2
  <2>6. Apart'
    <3>1. \A r \in Runs : pc[r] \in {"ended", "crashed"} => pc'[r] \in {"ended", "crashed"}
      BY <2>2 DEF Actors, InCleanup
    <3>. QED BY <1>i, <2>2, <3>1 DEF Apart
  <2>. QED BY <1>0, <1>t, <2>2, <2>3, <2>4, <2>5, <2>6 DEF Inv
<1>3. ASSUME NEW a \in Actors, Crash(a) PROVE Inv'
  <2>0. UNCHANGED <<lease, loc, target, cancelled, cleaned>>
    BY <1>3 DEF Crash
  <2>1. \A b \in Actors \ {a} : pc'[b] = pc[b]
    BY <1>3, <1>i DEF Crash, TypeOK
  <2>2. IF a \in Runs THEN Active(a) /\ pc'[a] = "crashed"
                      ELSE pc[a] \in InCleanup /\ pc'[a] = "idle"
    BY <1>3, <1>i DEF Crash, TypeOK
  <2>3. PICK t \in Runs : t = target[a]
    BY <1>i, <2>2 DEF Targets, Actors, InCleanup
  <2>4. \A s \in Runs \ {t} : dir'[s] = dir[s] /\ registered'[s] = registered[s]
    <3>1. ASSUME NEW d, Interrupt(t, d)
          PROVE  \A s \in Runs \ {t} : dir'[s] = dir[s] /\ registered'[s] = registered[s]
      BY <3>1, <1>i DEF Interrupt, TypeOK
    <3>. QED BY <1>3, <2>3, <3>1 DEF Crash
  <2>5. Shrinks(t) \/ (a = t /\ pc[a] = "add")
    <3>1. CASE UNCHANGED <<dir, registered>>
      BY <2>0, <3>1 DEF Shrinks
    <3>2. CASE registered[t] /\ Interrupt(t, "none")
      BY <2>0, <3>2, <1>i, InterruptShrinks
    <3>3. CASE pc[a] = "add"
      BY <1>i, <2>3, <3>3 DEF Targets, Actors, InCleanup
    <3>. QED BY <1>3, <2>3, <3>1, <3>2, <3>3 DEF Crash
  <2>6. \A r \in Runs : pc'[r] = pc[r] \/ (r = a /\ pc'[r] = "crashed")
    BY <2>1, <2>2 DEF Actors
  <2>7. \A r \in Runs : CoveredAt(r)'
    <3>. SUFFICES ASSUME NEW r \in Runs PROVE CoveredAt(r)'
      OBVIOUS
    <3>1. CASE r # t BY <1>i, <2>0, <2>4, <3>1 DEF CoveredAt
    <3>2. CASE r = t /\ Shrinks(t) BY <1>i, <3>2 DEF CoveredAt, Shrinks
    <3>3. CASE r = a /\ pc[a] = "add" BY <1>i, <2>0, <3>3 DEF CoveredAt, PreparedAt
    <3>. QED BY <2>5, <3>1, <3>2, <3>3
  <2>8. \A r \in Runs : PreparedAt(r)' /\ VerdictAt(r)'
    <3>. SUFFICES ASSUME NEW r \in Runs PROVE PreparedAt(r)' /\ VerdictAt(r)'
      OBVIOUS
    <3>1. CASE r = a
      <4>1. pc'[r] = "crashed" /\ ~loc[r].success
        BY <1>i, <2>2, <3>1 DEF VerdictAt, Active
      <4>. QED BY <2>0, <4>1 DEF PreparedAt, VerdictAt, Unreserved, InCleanup
    <3>2. CASE r # a /\ r = t
      <4>1. pc[r] \in {"ended", "crashed"} /\ pc'[r] = pc[r]
        BY <1>i, <2>3, <2>6, <3>2 DEF Targets, Apart, Actors
      <4>. QED BY <1>i, <2>0, <4>1 DEF PreparedAt, VerdictAt, Unreserved
    <3>3. CASE r # a /\ r # t
      BY <1>i, <2>0, <2>4, <2>6, <3>3 DEF PreparedAt, VerdictAt
    <3>. QED BY <3>1, <3>2, <3>3
  <2>9. \A b \in Actors : CleaningAt(b)'
    <3>. SUFFICES ASSUME NEW b \in Actors PROVE CleaningAt(b)'
      OBVIOUS
    <3>1. /\ cleaned'[b] = cleaned[b] /\ target'[b] = target[b] /\ UNCHANGED lease
          /\ pc'[b] = pc[b] \/ (b = a /\ pc'[b] \in {"idle", "crashed"})
          /\ b \in Cleaners \/ pc[b] \in Over => b \in Cleaners \/ pc'[b] \in Over
      BY <2>0, <2>1, <2>2 DEF Over, Actors
    <3>2. CASE target[b] = t /\ Shrinks(t)
      BY <1>i, <3>1, <3>2 DEF CleaningAt, Shrinks
    <3>3. CASE target[b] = t /\ a = t /\ pc[a] = "add"
      <4>1. CASE b = a
        BY <1>i, <3>1, <3>3, <4>1, <2>2, WorktreeAssumption DEF CleaningAt, Over
      <4>2. CASE b # a
        BY <1>i, <2>2, <2>3, <3>3, <4>2 DEF Targets, Apart, Actors
      <4>. QED BY <4>1, <4>2
    <3>4. CASE target[b] # t
      <4>1. pc[b] \in InCleanup \/ cleaned[b] = "yes" => target[b] \in Runs
        BY <1>i DEF Targets, Actors, InCleanup
      <4>. QED BY <1>i, <3>1, <3>4, <4>1, <2>4 DEF CleaningAt, InCleanup
    <3>. QED BY <2>5, <3>2, <3>3, <3>4
  <2>10. Apart'
    BY <1>i, <2>0, <2>6 DEF Apart
  <2>. QED BY <1>0, <1>t, <2>7, <2>8, <2>9, <2>10 DEF Inv
<1>4. ASSUME NEW c \in Cleaners, NEW r \in Runs, StartCleanup(c, r) PROVE Inv'
  <2>1. /\ UNCHANGED <<lease, dir, registered, loc, cancelled>>
        /\ pc[r] \in {"ended", "crashed"}
        /\ target' = [target EXCEPT ![c] = r]
        /\ \A b \in Actors \ {c} : pc'[b] = pc[b] /\ cleaned'[b] = cleaned[b] /\ target'[b] = target[b]
    BY <1>4, <1>i DEF StartCleanup, Active, TypeOK, diskVars, Actors
  <2>2. /\ target'[c] = r /\ pc'[c] \in {"cleanup", "idle"}
        /\ cleaned'[c] = "yes" => lease[r] = "none" /\ dir[r] = "none"
    BY <1>4, <1>i DEF StartCleanup, TypeOK, Actors
  <2>3. \A s \in Runs : pc'[s] = pc[s] /\ target'[s] = target[s]
    BY <2>1, WorktreeAssumption DEF Actors
  <2>4. \A s \in Runs : PreparedAt(s)' /\ CoveredAt(s)' /\ VerdictAt(s)'
    BY <1>i, <2>1, <2>3 DEF PreparedAt, CoveredAt, VerdictAt
  <2>5. CleaningAt(c)'
    BY <1>i, <2>1, <2>2 DEF CleaningAt, CoveredAt
  <2>6. \A b \in Actors \ {c} : CleaningAt(b)'
    BY <1>i, <2>1 DEF CleaningAt
  <2>7. Apart'
    BY <1>i, <2>1, <2>2, <2>3 DEF Apart, Actors
  <2>. QED BY <1>0, <1>t, <2>4, <2>5, <2>6, <2>7 DEF Inv
<1>5. ASSUME NEW r \in Runs, Cancel(r) PROVE Inv'
  <2>1. /\ UNCHANGED <<lease, dir, registered, pc, loc, target, cleaned>>
        /\ \A s \in Runs \ {r} : cancelled'[s] = cancelled[s]
        /\ pc[r] \notin Cancellable => cancelled'[r] = "late"
        /\ Active(r)
    BY <1>5, <1>i DEF Cancel, TypeOK, diskVars
  <2>2. \A s \in Runs : VerdictAt(s)'
    BY <1>i, <2>1 DEF VerdictAt, Active, Cancellable, InCleanup
  <2>3. \A s \in Runs : PreparedAt(s)' /\ CoveredAt(s)'
    BY <1>i, <2>1 DEF PreparedAt, CoveredAt
  <2>. QED BY <1>0, <1>t, <1>i, <2>1, <2>2, <2>3 DEF Inv, Apart, CleaningAt
<1>6. CASE ChangeSource \/ UNCHANGED vars
  <2>1. UNCHANGED <<lease, dir, registered, pc, loc, target, cancelled, cleaned>>
    BY <1>6 DEF ChangeSource, vars, diskVars
  <2>2. \A s \in Runs : PreparedAt(s)' /\ CoveredAt(s)' /\ VerdictAt(s)'
    BY <1>i, <2>1 DEF PreparedAt, CoveredAt, VerdictAt
  <2>3. \A b \in Actors : CleaningAt(b)'
    BY <1>i, <2>1 DEF CleaningAt
  <2>4. Apart'
    BY <1>i, <2>1 DEF Apart
  <2>. QED BY <1>0, <1>t, <2>2, <2>3, <2>4 DEF Inv
<1>. QED BY <1>1, <1>2, <1>3, <1>4, <1>5, <1>6 DEF Next, OwnStep

-----------------------------------------------------------------------------
(* As long as cleanups name only runs whose process is gone, nothing a run  *)
(* left on disk is without a readable lease, a cleanup that reports success *)
(* left nothing, and a run cancelled in time never passes, however many     *)
(* runs and cleanups there are and whatever dies or fails (worktree.rs).    *)
THEOREM WorktreeAccountedHolds ==
  ASSUME ~CleanActive
  PROVE  Spec => []WorktreeAccounted
<1>1. Inv => WorktreeAccounted
  <2>. SUFFICES ASSUME Inv PROVE WorktreeAccounted
    OBVIOUS
  <2>1. LeaseCovers
    BY DEF Inv, LeaseCovers, CoveredAt
  <2>2. CleanedIsGone
    BY DEF Inv, CleanedIsGone, CleaningAt
  <2>3. CancelledNeverPasses
    BY DEF Inv, CancelledNeverPasses, VerdictAt
  <2>. QED BY <2>1, <2>2, <2>3 DEF Inv, WorktreeAccounted
<1>2. Inv /\ [Next]_vars => Inv'
  BY InvNext
<1>. QED BY <1>1, <1>2, InvInit, PTL DEF Spec

-----------------------------------------------------------------------------
(* What holds also when a cleanup names a run at work.                      *)

(* A run succeeds with its last step.                                       *)
Settled == \A r \in Runs : loc[r].success => pc[r] = "ended"

LEMMA SuccessKept ==
  ASSUME TypeOK, NEW r \in Runs, NEW v, NEW e
  PROVE  /\ loc' = [loc EXCEPT ![r].kind = v] => loc'[r].success = loc[r].success
         /\ loc' = [loc EXCEPT ![r].read["head"] = v] => loc'[r].success = loc[r].success
         /\ loc' = [loc EXCEPT ![r].read["refs"] = v] => loc'[r].success = loc[r].success
         /\ loc' = [loc EXCEPT ![r].status = v] => loc'[r].success = loc[r].success
         /\ loc' = [loc EXCEPT ![r].status = v, ![r].failed = e]
              => loc'[r].success = loc[r].success
<1>1. loc' = [loc EXCEPT ![r].kind = v] => loc'[r].success = loc[r].success
  BY DEF TypeOK, Locals
<1>2. loc' = [loc EXCEPT ![r].read["head"] = v] => loc'[r].success = loc[r].success
  BY DEF TypeOK, Locals
<1>3. loc' = [loc EXCEPT ![r].read["refs"] = v] => loc'[r].success = loc[r].success
  BY DEF TypeOK, Locals
<1>4. loc' = [loc EXCEPT ![r].status = v] => loc'[r].success = loc[r].success
  BY DEF TypeOK, Locals
<1>5. loc' = [loc EXCEPT ![r].status = v, ![r].failed = e] => loc'[r].success = loc[r].success
  BY DEF TypeOK, Locals
<1>. QED BY <1>1, <1>2, <1>3, <1>4, <1>5

LEMMA SettledNext == TypeOK /\ Targets /\ Settled /\ [Next]_vars => Settled'
<1>. SUFFICES ASSUME TypeOK, Targets, Settled, [Next]_vars PROVE Settled'
  OBVIOUS
<1>1. ASSUME NEW r \in Runs, OwnStep(r) PROVE Settled'
  <2>1. pc[r] # "ended"
    BY <1>1 DEF OwnStep, Start, Prepare, ReadTree, ReadHead, ReadRefs, Read, BeforeCreate,
           CreateLease, WriteLease, Reserve, Work, AddWorktree, Setup, SetupFails, Apply, Build,
           Capture, CaptureDiff, BeforeCleanup, Conclude, RereadTree, RereadHead, RereadRefs,
           Reread, SumUp, Goto
  <2>2. CASE SumUp(r)
    <3>1. pc'[r] = "ended" BY <2>2 DEF SumUp, Goto, TypeOK, Actors
    <3>. QED BY <1>1, <3>1, OwnFrame DEF Settled, Actors
  <2>3. CASE ~SumUp(r)
    <3>1. loc'[r].success = loc[r].success
      <4>1. CASE Start(r)
        BY <4>1, SuccessKept DEF Start
      <4>2. CASE Prepare(r)
        BY <4>2, SuccessKept DEF Prepare, ReadTree, ReadHead, ReadRefs, Read, BeforeCreate,
                                 CreateLease, WriteLease, Reserve
      <4>3. CASE Work(r)
        <5>1. ASSUME NEW here, NEW x, SetupFails(r, here, x)
              PROVE  loc'[r].success = loc[r].success
          BY <5>1, SuccessKept DEF SetupFails
        <5>2. CASE AddWorktree(r) \/ Setup(r)
          BY <5>1, <5>2 DEF AddWorktree, Setup
        <5>3. CASE Apply(r) \/ Build(r) \/ Capture(r) \/ CaptureDiff(r) \/ BeforeCleanup(r)
          BY <5>3, SuccessKept DEF Apply, Build, SetStatus, Capture, Unproved, CaptureDiff,
                                   BeforeCleanup
        <5>. QED BY <4>3, <5>2, <5>3 DEF Work
      <4>4. CASE Conclude(r)
        BY <2>3, <4>4, RereadKeeps DEF Conclude, RereadTree, RereadHead, RereadRefs
      <4>. QED BY <1>1, <4>1, <4>2, <4>3, <4>4 DEF OwnStep
    <3>. QED BY <1>1, <2>1, <3>1, OwnFrame DEF Settled, Actors
  <2>. QED BY <2>2, <2>3
<1>2. ASSUME NEW a \in Actors, Cleanup(a) PROVE Settled'
  <2>1. \A r \in Runs : loc'[r] = loc[r] /\ (pc'[r] = pc[r] \/ pc[r] # "ended")
    BY <1>2, CleanupFrame DEF Actors, InCleanup
  <2>. QED BY <2>1 DEF Settled
<1>3. ASSUME NEW a \in Actors, Crash(a) PROVE Settled'
  BY <1>3 DEF Crash, Active, Settled, TypeOK, Actors
<1>4. ASSUME NEW c \in Cleaners, NEW r \in Runs, StartCleanup(c, r) PROVE Settled'
  BY <1>4, WorktreeAssumption DEF StartCleanup, Settled, TypeOK, Actors
<1>5. CASE (\E r \in Runs : Cancel(r)) \/ ChangeSource \/ UNCHANGED vars
  BY <1>5 DEF Cancel, ChangeSource, vars, Settled
<1>. QED BY <1>1, <1>2, <1>3, <1>4, <1>5 DEF Next, OwnStep

Basic == TypeOK /\ Targets /\ Settled

LEMMA BasicAlways == Spec => []Basic
<1>1. Init => Basic
  <2>1. Init => Targets
    BY WorktreeAssumption DEF Init, Targets, Actors, InCleanup
  <2>2. Init => Settled
    BY DEF Init, Fresh, Settled
  <2>. QED BY <2>1, <2>2, TypeInit DEF Basic
<1>2. Basic /\ [Next]_vars => Basic'
  BY TypeNext, TargetsNext, SettledNext DEF Basic
<1>. QED BY <1>1, <1>2, PTL DEF Spec

(* A run whose source has drifted for good is on its way to be refused: the *)
(* difference is still to be read, or has been noted.                       *)
Doomed(r) ==
  LET differs(A) == \E x \in A : source[x] # loc[r].read[x] IN
  /\ changes = MaxChanges /\ ~loc[r].success
  /\ \/ pc[r] = "reread_tree" /\ differs(Aspects)
     \/ pc[r] = "reread_head" /\ (~loc[r].unchanged \/ differs({"head", "refs"}))
     \/ pc[r] = "reread_refs" /\ (~loc[r].unchanged \/ differs({"refs"}))
     \/ pc[r] = "sum_up" /\ ~loc[r].unchanged
     \/ pc[r] \in {"ended", "crashed"}

LEMMA DoomedNext ==
  ASSUME Basic, NEW r \in Runs, Doomed(r), [Next]_vars
  PROVE  Doomed(r)'
<1>. USE DEF Basic
<1>0. /\ changes = MaxChanges /\ ~loc[r].success /\ MaxChanges \in Nat
      /\ pc[r] \in {"reread_tree", "reread_head", "reread_refs", "sum_up", "ended", "crashed"}
  BY WorktreeAssumption DEF Doomed
<1>1. CASE changes' = changes /\ source' = source /\ pc'[r] = pc[r] /\ loc'[r] = loc[r]
  BY <1>1 DEF Doomed
<1>2. ASSUME NEW x \in Runs, OwnStep(x) PROVE Doomed(r)'
  <2>1. source' = source /\ changes' = changes
    BY <1>2 DEF OwnStep, Start, Prepare, ReadTree, ReadHead, ReadRefs, Read, BeforeCreate,
           CreateLease, WriteLease, Reserve, Work, AddWorktree, Setup, Interrupted, Apply, Build,
           Capture, CaptureDiff, BeforeCleanup, Conclude, RereadTree, RereadHead, RereadRefs,
           Reread, SumUp, Fault, budgetVars
  <2>2. CASE x # r
    <3>1. pc'[r] = pc[r] /\ loc'[r] = loc[r]
      BY <1>2, <2>2, OwnFrame DEF Actors
    <3>. QED BY <1>1, <2>1, <3>1
  <2>3. CASE x = r
    <3>1. Conclude(r)
      BY <1>0, <1>2, <2>3 DEF OwnStep, Start, Prepare, ReadTree, ReadHead, ReadRefs, Read,
           BeforeCreate, CreateLease, WriteLease, Reserve, Work, AddWorktree, Setup, SetupFails,
           Apply, Build, Capture, CaptureDiff, BeforeCleanup, Goto
    <3>2. ASSUME NEW y \in Aspects, NEW here, NEW next, Reread(r, y, here, next)
          PROVE  /\ loc'[r].read = loc[r].read /\ loc'[r].success = loc[r].success
                 /\ ~loc[r].unchanged \/ source[y] # loc[r].read[y] => ~loc'[r].unchanged
                 /\ pc[r] = here /\ pc'[r] = next
      <4>1. PICK b \in BOOLEAN : /\ loc' = [loc EXCEPT ![r].unchanged = b]
                                 /\ ~loc[r].unchanged \/ source[y] # loc[r].read[y] => ~b
        BY <3>2 DEF Reread
      <4>2. loc[r] \in Locals BY DEF TypeOK
      <4>3. loc'[r] = [loc[r] EXCEPT !.unchanged = b] BY <4>1 DEF TypeOK
      <4>4. loc'[r].read = loc[r].read /\ loc'[r].success = loc[r].success /\ loc'[r].unchanged = b
        BY <4>2, <4>3 DEF Locals
      <4>. QED BY <3>2, <4>1, <4>4 DEF Reread, Goto, TypeOK, Actors
    <3>a. "tree" \in Aspects /\ "head" \in Aspects /\ "refs" \in Aspects
      BY DEF Aspects
    <3>3. CASE RereadTree(r)
      BY <1>0, <2>1, <3>2, <3>3, <3>a DEF RereadTree, Doomed, Aspects
    <3>4. CASE RereadHead(r)
      BY <1>0, <2>1, <3>2, <3>4, <3>a DEF RereadHead, Doomed
    <3>5. CASE RereadRefs(r)
      BY <1>0, <2>1, <3>2, <3>5, <3>a DEF RereadRefs, Doomed
    <3>6. CASE SumUp(r)
      <4>1. pc[r] = "sum_up" /\ pc'[r] = "ended" /\ ~loc[r].unchanged
        BY <3>6 DEF SumUp, Goto, Doomed, TypeOK, Actors
      <4>2. PICK v : loc' = [loc EXCEPT ![r].status = v, ![r].success = FALSE]
        BY <3>6, <4>1 DEF SumUp
      <4>3. ~loc'[r].success
        BY <4>2 DEF TypeOK, Locals
      <4>. QED BY <1>0, <2>1, <4>1, <4>3 DEF Doomed
    <3>. QED BY <3>1, <3>3, <3>4, <3>5, <3>6 DEF Conclude
  <2>. QED BY <2>2, <2>3
<1>3. ASSUME NEW a \in Actors, Cleanup(a) PROVE Doomed(r)'
  <2>1. source' = source /\ changes' = changes
    BY <1>3 DEF Cleanup, List, Remove, Inspect, RemoveDir, CheckGone, Relist, RemoveLease, Fault,
                budgetVars
  <2>2. pc'[r] = pc[r] /\ loc' = loc
    BY <1>0, <1>3, CleanupFrame DEF Actors, InCleanup
  <2>. QED BY <1>1, <2>1, <2>2
<1>4. ASSUME NEW a \in Actors, Crash(a) PROVE Doomed(r)'
  <2>1. /\ source' = source /\ changes' = changes /\ loc' = loc
        /\ pc'[r] = pc[r] \/ pc'[r] = "crashed"
    BY <1>4 DEF Crash, TypeOK, Actors
  <2>. QED BY <1>0, <2>1 DEF Doomed
<1>5. ASSUME NEW c \in Cleaners, NEW x \in Runs, StartCleanup(c, x) PROVE Doomed(r)'
  <2>1. source' = source /\ changes' = changes /\ loc' = loc
    BY <1>5 DEF StartCleanup, Fault, budgetVars
  <2>2. pc'[r] = pc[r]
    BY <1>5, WorktreeAssumption DEF StartCleanup, TypeOK, Actors
  <2>. QED BY <1>1, <2>1, <2>2
<1>6. ASSUME NEW x \in Runs, Cancel(x) PROVE Doomed(r)'
  BY <1>1, <1>6 DEF Cancel, budgetVars
<1>7. ~ChangeSource
  BY <1>0 DEF ChangeSource
<1>8. CASE UNCHANGED vars
  BY <1>1, <1>8 DEF vars, budgetVars
<1>. QED BY <1>2, <1>3, <1>4, <1>5, <1>6, <1>7, <1>8 DEF Next, OwnStep

(* A cleanup never deletes the content of a directory that Git does not     *)
(* list as a worktree, even one that races with the run (cleanup_lease).    *)
THEOREM RemovesOnlyRegisteredHolds == Spec => RemovesOnlyRegistered
<1>1. ASSUME Basic, [Next]_vars, NEW r \in Runs, dir[r] = "populated", dir'[r] = "none"
      PROVE  registered[r]
  <2>. USE <1>1 DEF Basic
  <2>1. ASSUME NEW x \in Runs, OwnStep(x) PROVE FALSE
    <3>1. ASSUME NEW d \in {"populated"}, Interrupt(x, d) PROVE FALSE
      BY <3>1 DEF Interrupt, TypeOK
    <3>2. CASE Start(x) \/ Prepare(x) \/ Conclude(x)
      BY <3>2 DEF Start, Prepare, ReadTree, ReadHead, ReadRefs, Read, BeforeCreate, CreateLease,
             WriteLease, Reserve, Conclude, RereadTree, RereadHead, RereadRefs, Reread, SumUp,
             TypeOK, diskVars
    <3>3. CASE Work(x)
      BY <3>1, <3>3 DEF Work, AddWorktree, Setup, Apply, Build, Capture, CaptureDiff,
             BeforeCleanup, TypeOK, diskVars
    <3>. QED BY <2>1, <3>2, <3>3 DEF OwnStep
  <2>2. ASSUME NEW a \in Actors, Cleanup(a) \/ Crash(a) PROVE registered[r]
    <3>1. \/ dir' = dir
          \/ \E e \in {dir[target[a]], "populated"} : dir' = [dir EXCEPT ![target[a]] = e]
          \/ registered[target[a]] /\ \E e : dir' = [dir EXCEPT ![target[a]] = e]
          \/ dir[target[a]] = "empty" /\ \E e : dir' = [dir EXCEPT ![target[a]] = e]
      BY <2>2 DEF Cleanup, List, Remove, Inspect, RemoveDir, CheckGone, Relist, RemoveLease, Crash,
             Interrupt, diskVars
    <3>. QED BY <3>1 DEF TypeOK
  <2>3. CASE \/ \E c \in Cleaners, x \in Runs : StartCleanup(c, x)
             \/ \E x \in Runs : Cancel(x)
             \/ ChangeSource \/ UNCHANGED vars
    BY <2>3 DEF StartCleanup, Cancel, ChangeSource, vars, diskVars
  <2>. QED BY <2>1, <2>2, <2>3 DEF Next, OwnStep
<1>2. Basic /\ [Next]_vars =>
        [\A r \in Runs : dir[r] = "populated" /\ dir'[r] = "none" => registered[r]]_vars
  BY <1>1
<1>. QED BY <1>2, BasicAlways, PTL DEF Spec, RemovesOnlyRegistered

(* A source that is no longer as the run read it, and stays so, is never    *)
(* certified, whichever of tree, HEAD and refs changed and however the run  *)
(* goes on (verify_patch_with_storage, run_in_disposable_worktree).         *)
THEOREM DriftRefusedHolds == Spec => DriftRefused
<1>1. ASSUME NEW r \in Runs
      PROVE  Spec => [](Drifted(r) => []~loc[r].success)
  <2>1. Basic /\ Drifted(r) => Doomed(r)
    BY DEF Basic, Drifted, Doomed, Settled
  <2>2. Basic /\ Doomed(r) /\ [Next]_vars => Doomed(r)'
    BY DoomedNext
  <2>3. Doomed(r) => ~loc[r].success
    BY DEF Doomed
  <2>. QED BY <2>1, <2>2, <2>3, BasicAlways, PTL DEF Spec
<1>. QED BY <1>1 DEF DriftRefused

=============================================================================
