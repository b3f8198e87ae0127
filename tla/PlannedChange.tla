---------------------------- MODULE PlannedChange ----------------------------
(***************************************************************************)
(* What the file engine promises of the workspace.  A transaction is a     *)
(* plan: what each of its files holds before it, and after it.  A file is  *)
(* only ever moved from the one to the other.  A transaction on record as  *)
(* committed has moved all of its files and one on record as rolled back   *)
(* none, as long as nobody else has edited the workspace; and a file only  *)
(* moves back while a rollback is on record, unless an I/O error kept the  *)
(* record from being written.                                              *)
(***************************************************************************)
CONSTANTS
  Txns, Files,
  Plans,    \* records with the fields files, before and after, among others
  NoPlan

VARIABLES
  files,    \* the workspace: path -> content
  plan,     \* transaction -> its plan, or NoPlan
  status,   \* transaction -> what is on record of it
  edited,   \* has anybody else changed the workspace?
  faulty    \* has there been an I/O error?

vars == <<files, plan, status, edited, faulty>>

Init ==
  /\ plan = [t \in Txns |-> NoPlan]
  /\ status = [t \in Txns |-> "none"]
  /\ edited = FALSE
  /\ faulty = FALSE

(* Every file of t is as before, or as after, the transaction.              *)
AllBefore(t) == \A f \in plan[t].files : files[f] = plan[t].before[f]
AllAfter(t) == \A f \in plan[t].files : files[f] = plan[t].after[f]

(* An I/O error may come with any step; it is not forgotten.                *)
MayFault == faulty' \in {faulty, TRUE}

(* A transaction is planned once, from the workspace as it is.              *)
MakePlan(t) ==
  LET new == plan'[t] IN
  /\ plan[t] = NoPlan /\ new \in Plans
  /\ \A f \in new.files : new.before[f] # new.after[f]
  /\ ~edited => \A f \in new.files : files[f] = new.before[f]
  /\ plan' = [plan EXCEPT ![t] = new]
  /\ UNCHANGED <<files, status, edited>> /\ MayFault

OnRecord(t, from, to) ==
  /\ plan[t] # NoPlan
  /\ status[t] \in from
  /\ status' = [status EXCEPT ![t] = to]
  /\ UNCHANGED <<files, plan, edited>> /\ MayFault

Prepare(t) == OnRecord(t, {"none"}, "prepared")
Begin(t) == OnRecord(t, {"prepared"}, "applying")
Commit(t) == OnRecord(t, {"applying"}, "committed") /\ (edited \/ AllAfter(t))

(* What is neither undone nor being undone can be; a failure can be retried.*)
Undoable == {"prepared", "applying", "committed", "rollback_failed"}

StartRollback(t) == OnRecord(t, Undoable, "rollback_started")
RollBack(t) == OnRecord(t, {"rollback_started"}, "rolled_back") /\ (edited \/ AllBefore(t))
FailRollback(t) == OnRecord(t, {"rollback_started"}, "rollback_failed")

Move(f, from, to) ==
  /\ files[f] = from
  /\ files' = [files EXCEPT ![f] = to]
  /\ UNCHANGED <<plan, status, edited>> /\ MayFault

Write(t, f) ==
  /\ plan[t] # NoPlan /\ f \in plan[t].files
  /\ status[t] = "applying"
  /\ Move(f, plan[t].before[f], plan[t].after[f])

Restore(t, f) ==
  /\ plan[t] # NoPlan /\ f \in plan[t].files
  /\ \/ status[t] = "rollback_started"
     \/ faulty /\ status[t] \in Undoable
  /\ Move(f, plan[t].after[f], plan[t].before[f])

(* The user, an editor or a build writes a file, or commits the workspace.  *)
Edit ==
  /\ edited' = TRUE
  /\ \E f \in Files : \A g \in Files \ {f} : files'[g] = files[g]
  /\ UNCHANGED <<plan, status, faulty>>

Fault == UNCHANGED <<files, plan, status, edited>> /\ MayFault

Next ==
  \/ \E t \in Txns :
       \/ MakePlan(t) \/ Prepare(t) \/ Begin(t) \/ Commit(t)
       \/ StartRollback(t) \/ RollBack(t) \/ FailRollback(t)
       \/ \E f \in Files : Write(t, f) \/ Restore(t, f)
  \/ Edit \/ Fault

Spec == Init /\ [][Next]_vars
=============================================================================
