------------------------- MODULE ProcessRunnerProofs -------------------------
(* Theorems about ProcessRunner, for every limit, chunk size and pipe       *)
(* capacity, on both platforms.                                             *)
EXTENDS ProcessRunner, TLAPS

USE DEF Streams, envVars, requestVars, reportVars, runnerVars, childVars,
  descendantVars,
        treeVars, streamVars

(* What a subsequence and a concatenation are, element by element.          *)
LEMMA SliceAt ==
  ASSUME NEW q \in Seq(Nat), NEW d \in Nat, d <= Len(q)
  PROVE  /\ SubSeq(q, d + 1, Len(q)) \in Seq(Nat)
         /\ Len(SubSeq(q, d + 1, Len(q))) = Len(q) - d
         /\ \A i \in 1..(Len(q) - d) : SubSeq(q, d + 1, Len(q))[i] = q[d + i]
<1>1. SubSeq(q, d + 1, Len(q)) = [i \in 1..(Len(q) - d) |-> q[d + i]]
  OBVIOUS
<1>2. \A i \in 1..(Len(q) - d) : q[d + i] \in Nat
  OBVIOUS
<1>3. Len(q) - d \in Nat
  OBVIOUS
<1> QED BY <1>1, <1>2, <1>3

LEMMA ConcatAt ==
  ASSUME NEW p \in Seq(Nat), NEW q \in Seq(Nat)
  PROVE  /\ p \o q \in Seq(Nat)
         /\ Len(p \o q) = Len(p) + Len(q)
         /\ \A i \in 1..(Len(p) + Len(q)) :
              (p \o q)[i] = IF i <= Len(p) THEN p[i] ELSE q[i - Len(p)]
OBVIOUS

(* q holds the last bytes of the first n of a stream.                       *)
EndsAt(q, n) == \A i \in 1..Len(q) : q[i] = n - Len(q) + i

Kept(n) == IF n <= Limit THEN n ELSE Limit

(* A push of bytes that follow an exact tail gives an exact tail: the two   *)
(* cases of BoundedTail::push.                                              *)
LEMMA PushAt ==
  ASSUME NEW n \in Nat, NEW old \in Seq(Nat), NEW new \in Seq(Nat),
         NEW a \in Nat, NEW b \in Nat,
         Len(old) = a, Len(new) = b, a = Kept(n),
         EndsAt(old, n), EndsAt(new, n + b)
  PROVE  /\ Push(old, new) \in Seq(Nat)
         /\ Len(Push(old, new)) = Kept(n + b)
         /\ EndsAt(Push(old, new), n + b)
<1>0. Limit \in Nat \ {0}
  BY RunnerAssumption
<1>1. CASE b >= Limit
  <2>1. b - Limit \in Nat
    BY <1>0, <1>1
  <2>2. PICK d \in Nat : d = b - Limit
    BY <2>1
  <2>3. Push(old, new) = SubSeq(new, d + 1, b)
    BY <1>1, <2>2 DEF Push
  <2>4. d <= b BY <1>0, <2>2
  <2>5. PICK p \in Seq(Nat) :
          /\ p = Push(old, new)
          /\ Len(p) = b - d
          /\ \A i \in 1..(b - d) : p[i] = new[d + i]
    BY <2>3, <2>4, SliceAt
  <2>6. b - d = Limit /\ Limit = Kept(n + b)
    BY <1>0, <1>1, <2>2 DEF Kept
  <2>7. \A i \in 1..Limit : p[i] = n + b - Limit + i
    <3> SUFFICES ASSUME NEW i \in 1..Limit PROVE p[i] = n + b - Limit + i
      OBVIOUS
    <3>1. d + i \in 1..b BY <1>0, <2>2, <2>1
    <3>2. new[d + i] = n + b - b + (d + i) BY <3>1 DEF EndsAt
    <3>3. n + b - b + (d + i) = n + b - Limit + i BY <1>0, <2>2
    <3>4. p[i] = new[d + i] BY <2>5, <2>6
    <3> QED BY <3>2, <3>3, <3>4
  <2> QED BY <2>5, <2>6, <2>7 DEF EndsAt
<1>2. CASE b < Limit
  <2> DEFINE e == IF a + b > Limit THEN a + b - Limit ELSE 0
  <2>1. e \in Nat /\ e <= a /\ a - e + b = Kept(n + b) /\ a - e <= n
    BY <1>0, <1>2 DEF Kept
  <2>2. PICK d \in Nat : d = e
    BY <2>1
  <2>3. PICK kept \in Seq(Nat) :
          /\ kept = SubSeq(old, d + 1, a)
          /\ Len(kept) = a - d
          /\ \A i \in 1..(a - d) : kept[i] = old[d + i]
    <3>1. d <= Len(old) BY <2>1, <2>2
    <3>2. /\ SubSeq(old, d + 1, Len(old)) \in Seq(Nat)
          /\ Len(SubSeq(old, d + 1, Len(old))) = Len(old) - d
          /\ \A i \in 1..(Len(old) - d) : SubSeq(old, d + 1, Len(old))[i] = old[d + i]
      BY <3>1, SliceAt, Zenon
    <3>3. Len(old) = a OBVIOUS
    <3> QED BY <3>2, <3>3, Zenon
  <2>4. Push(old, new) = kept \o new
    <3>1. ~(b >= Limit) BY <1>0, <1>2
    <3> QED BY <3>1, <2>2, <2>3 DEF Push
  <2>5. PICK m \in Nat : m = a - d /\ m + b = Kept(n + b) /\ m <= n
    BY <2>1, <2>2
  <2> HIDE DEF e
  <2>6. \A i \in 1..m : kept[i] = n - m + i
    <3> SUFFICES ASSUME NEW i \in 1..m PROVE kept[i] = n - m + i
      OBVIOUS
    <3>1. d + i \in 1..a BY <2>5
    <3>2. old[d + i] = n - a + (d + i) BY <3>1 DEF EndsAt
    <3>3. n - a + (d + i) = n - m + i BY <2>5, SMTT(30)
    <3>4. kept[i] = old[d + i] BY <2>3, <2>5
    <3> QED BY <3>2, <3>3, <3>4
  <2>7. Len(kept) = m BY <2>3, <2>5
  <2>8. PICK p \in Seq(Nat) :
          /\ p = Push(old, new)
          /\ Len(p) = m + b
          /\ \A i \in 1..(m + b) : p[i] = IF i <= m THEN kept[i] ELSE new[i - m]
    <3>1. /\ kept \o new \in Seq(Nat)
          /\ Len(kept \o new) = m + b
          /\ \A i \in 1..(m + b) :
               (kept \o new)[i] = IF i <= m THEN kept[i] ELSE new[i - m]
      BY <2>7, ConcatAt
    <3> QED BY <2>4, <3>1, Zenon
  <2>9. \A i \in 1..(m + b) : p[i] = n + b - (m + b) + i
    <3> SUFFICES ASSUME NEW i \in 1..(m + b) PROVE p[i] = n + b - (m + b) + i
      OBVIOUS
    <3>1. n + b - (m + b) + i = n - m + i OBVIOUS
    <3>2. CASE i <= m
      <4>1. i \in 1..m BY <3>2
      <4> QED BY <4>1, <3>1, <3>2, <2>6, <2>8
    <3>3. CASE ~(i <= m)
      <4>1. i - m \in 1..b BY <3>3
      <4>2. p[i] = new[i - m] BY <3>3, <2>8
      <4>3. new[i - m] = n + b - b + (i - m) BY <4>1 DEF EndsAt
      <4>4. n + b - b + (i - m) = n - m + i OBVIOUS
      <4> QED BY <4>2, <4>3, <4>4, <3>1
    <3> QED BY <3>2, <3>3
  <2> QED BY <2>5, <2>8, <2>9 DEF EndsAt
<1> QED BY <1>0, <1>1, <1>2

LEMMA LastAt ==
  ASSUME NEW n \in Nat
  PROVE  /\ LastBytes(n, Limit) \in Seq(Nat)
         /\ Len(LastBytes(n, Limit)) = Kept(n)
         /\ EndsAt(LastBytes(n, Limit), n)
BY RunnerAssumption DEF LastBytes, Bytes, Kept, EndsAt

(* BoundedTail::push takes the tail of n bytes to the tail of n + k.        *)
LEMMA PushLast ==
  ASSUME NEW n \in Nat, NEW k \in Nat
  PROVE  Push(LastBytes(n, Limit), Bytes(n, k)) = LastBytes(n + k, Limit)
<1>1. PICK new \in Seq(Nat) : new = Bytes(n, k) /\ Len(new) = k /\ EndsAt(new, n + k)
  <2>1. Bytes(n, k) \in Seq(Nat) /\ Len(Bytes(n, k)) = k
    BY DEF Bytes
  <2>2. \A i \in 1..k : Bytes(n, k)[i] = n + k - k + i
    BY DEF Bytes
  <2>3. EndsAt(Bytes(n, k), n + k)
    BY <2>1, <2>2 DEF EndsAt
  <2> QED BY <2>1, <2>3, Zenon
<1>2. PICK old \in Seq(Nat) :
        old = LastBytes(n, Limit) /\ Len(old) = Kept(n) /\ EndsAt(old, n)
  BY LastAt
<1>3. Kept(n) \in Nat
  BY RunnerAssumption DEF Kept
<1>4. PICK p \in Seq(Nat) :
        p = Push(old, new) /\ Len(p) = Kept(n + k) /\ EndsAt(p, n + k)
  <2>1. /\ Push(old, new) \in Seq(Nat)
        /\ Len(Push(old, new)) = Kept(n + k)
        /\ EndsAt(Push(old, new), n + k)
    BY <1>1, <1>2, <1>3, PushAt
  <2> QED BY <2>1, Zenon
<1>5. PICK l \in Seq(Nat) :
        l = LastBytes(n + k, Limit) /\ Len(l) = Kept(n + k) /\ EndsAt(l, n + k)
  <2>1. n + k \in Nat OBVIOUS
  <2> QED BY <2>1, LastAt, Zenon
<1>6. Len(p) = Len(l) /\ \A i \in 1..Len(p) : p[i] = l[i]
  BY <1>4, <1>5 DEF EndsAt
<1>7. p = l
  BY <1>6
<1> QED BY <1>1, <1>2, <1>4, <1>5, <1>7

-----------------------------------------------------------------------------
(* What the control points of the call say of the processes.                *)
Control ==
  /\ pc = "start" => child = "none" /\ descendant = "none"
  /\ pc \in {"start", "attach"} => ~attached /\ \A s \in Streams : reader[s] = "idle"
  /\ child = "none" => pc \in {"start", "done", "error"} /\ descendant = "none"
  /\ pc \in {"poll", "check_cancel", "check_timeout", "terminate", "wait"} => attached
  /\ pc \in {"finish_stdout", "finish_stderr", "report"} => child # "running" /\ reaped
  /\ inJob => attached
  /\ status # "none" => pc = "done"
  /\ requested = "Cancelled" => cancelled
  /\ requested = "TimedOut" => elapsed
  /\ pc = "wait" /\ JobObject => child # "running" /\ (descendant = "alive" => ~inJob)

(* What a finished drain thread and a finished capture say of the pipes.    *)
Captured ==
  /\ \A s \in Streams : drained[s] <= written[s]
  /\ \A s \in Streams : reader[s] = "eof" =>
       drained[s] = written[s] /\ ~WriteEndOpen /\ child # "none"
  /\ \A s \in Streams : capture[s] = "ok" =>
       reader[s] = "eof" /\ snapshot[s].total = drained[s]
  /\ status = "Success" => child = "exited_ok" /\ \A s \in Streams : capture[s] = "ok"

IInv == TypeOK /\ Control /\ ReportIsHonest /\ JobIsEmpty /\ Captured /\ TailIsExact

LEMMA PushTyped ==
  ASSUME NEW old \in Seq(Nat), NEW n \in Nat, NEW k \in Nat
  PROVE  Push(old, Bytes(n, k)) \in Seq(Nat)
BY RunnerAssumption, SMTT(30) DEF Push, Bytes

LEMMA TypeStep == TypeOK /\ [Next]_vars => TypeOK'
<1> SUFFICES ASSUME TypeOK, [Next]_vars PROVE TypeOK'
  OBVIOUS
<1> DEFINE goal == TypeOK'
<1>1. CASE AlreadyCancelled
  BY <1>1 DEF AlreadyCancelled, Goto, TypeOK, Pcs, Statuses
<1>2. CASE Spawn
  BY <1>2 DEF Spawn, Goto, TypeOK, Pcs, Statuses
<1>3. CASE Attach
  BY <1>3 DEF Attach, Goto, StartCaptures, TypeOK, Pcs, Statuses
<1>4. CASE AttachMissed
  BY <1>4 DEF AttachMissed, Goto, StartCaptures, TypeOK, Pcs, Statuses
<1>5. CASE PollExited
  BY <1>5 DEF PollExited, Goto, DropTree, KillChild, KillJob, TypeOK, Pcs, Statuses
<1>6. CASE PollRunning
  BY <1>6 DEF PollRunning, Goto, TypeOK, Pcs, Statuses
<1>7. CASE CheckCancel
  BY <1>7 DEF CheckCancel, TypeOK, Pcs, Statuses
<1>8. CASE CheckTimeout
  BY <1>8 DEF CheckTimeout, TypeOK, Pcs, Statuses
<1>9. CASE Terminate
  BY <1>9 DEF Terminate, Goto, KillChild, KillJob, TypeOK, Pcs, Statuses
<1>10. CASE Wait
  BY <1>10 DEF Wait, Goto, TypeOK, Pcs, Statuses
<1>11. CASE Report
  BY <1>11 DEF Report, Goto, TypeOK, Pcs, Statuses
<1>12. CASE NotStarted
  BY <1>12 DEF NotStarted, Goto, TypeOK, Pcs, Statuses
<1>13. CASE AttachFails
  BY <1>13 DEF AttachFails, Goto, KillChild, TypeOK, Pcs, Statuses
<1>14. CASE PollFails
  BY <1>14 DEF PollFails, Goto, DropTree, KillChild, KillJob, TypeOK, Pcs, Statuses
<1>15. CASE TerminateFails
  BY <1>15 DEF TerminateFails, Goto, DropTree, KillChild, KillJob, TypeOK, Pcs, Statuses
<1>16. CASE ChildWrites
  BY <1>16 DEF ChildWrites, Room, ChildRuns, TypeOK, Pcs, Statuses
<1>17. CASE ChildExits
  BY <1>17 DEF ChildExits, ChildRuns, TypeOK, Pcs, Statuses
<1>18. CASE ChildForks
  BY <1>18 DEF ChildForks, ChildRuns, TypeOK, Pcs, Statuses
<1>19. CASE DescendantExits
  BY <1>19 DEF DescendantExits, DescendantRuns, TypeOK, Pcs, Statuses
<1>20. CASE Cancel
  BY <1>20 DEF Cancel, Polling, TypeOK, Pcs, Statuses
<1>21. CASE Elapse
  BY <1>21 DEF Elapse, Polling, TypeOK, Pcs, Statuses
<1>22. ASSUME NEW s \in Streams, Finish(s) PROVE goal
  BY <1>22 DEF Finish, FinishState, TypeOK, Pcs, Statuses
<1>23. ASSUME NEW s \in Streams, ChildCommits(s) PROVE goal
  BY <1>23 DEF ChildCommits, ChildRuns, TypeOK, Pcs, Statuses
<1>24. ASSUME NEW s \in Streams, DescendantWrites(s) PROVE goal
  BY <1>24 DEF DescendantWrites, DescendantRuns, Room, TypeOK, Pcs, Statuses
<1>25. ASSUME NEW s \in Streams, Drain(s) PROVE goal
  <2>1. PICK k \in 1..Chunk :
          /\ tail' = [tail EXCEPT ![s] = Push(tail[s], Bytes(drained[s], k))]
          /\ drained' = [drained EXCEPT ![s] = drained[s] + k]
    BY <1>25 DEF Drain
  <2>2. k \in Nat BY RunnerAssumption
  <2>3. tail[s] \in Seq(Nat) /\ drained[s] \in Nat BY DEF TypeOK
  <2>4. Push(tail[s], Bytes(drained[s], k)) \in Seq(Nat) BY <2>2, <2>3, PushTyped
  <2>5. tail' \in [Streams -> Seq(Nat)] BY <2>1, <2>4 DEF TypeOK
  <2>6. drained' \in [Streams -> Nat] BY <2>1, <2>2, <2>3 DEF TypeOK
  <2> QED BY <1>25, <2>5, <2>6 DEF Drain, TypeOK
<1>26. ASSUME NEW s \in Streams, DrainEnds(s) PROVE goal
  BY <1>26 DEF DrainEnds, TypeOK, Pcs, Statuses
<1>27. ASSUME NEW s \in Streams, DrainFails(s) PROVE goal
  BY <1>27 DEF DrainFails, TypeOK, Pcs, Statuses
<1>28. CASE UNCHANGED vars
  BY <1>28 DEF vars, TypeOK, Pcs, Statuses
<1>29. CASE WaitFails
  BY <1>29 DEF WaitFails, Goto, TypeOK, Pcs, Statuses
<1> QED BY <1>1, <1>2, <1>3, <1>4, <1>5, <1>6, <1>7, <1>8, <1>9, <1>10, <1>11, <1>12,
  <1>13, <1>14, <1>15, <1>16, <1>17, <1>18, <1>19, <1>20, <1>21, <1>22, <1>23, <1>24,
  <1>25, <1>26, <1>27, <1>28, <1>29 DEF Next, Runner, Faults, Tree, Readers

(* The control part, with the two invariants it is for.                     *)
LEMMA ControlStep == TypeOK /\ Control /\ JobIsEmpty /\ [Next]_vars => Control' /\ JobIsEmpty'
<1> SUFFICES ASSUME TypeOK, Control, JobIsEmpty,
  [Next]_vars PROVE Control' /\ JobIsEmpty'
  OBVIOUS
<1> DEFINE goal == Control' /\ JobIsEmpty'
<1>1. CASE AlreadyCancelled
  BY <1>1 DEF AlreadyCancelled, Goto, TypeOK, Control, JobIsEmpty, JobObject, Returned
<1>2. CASE Spawn
  BY <1>2 DEF Spawn, Goto, TypeOK, Control, JobIsEmpty, JobObject, Returned
<1>3. CASE Attach
  BY <1>3 DEF Attach, Goto, StartCaptures, TypeOK, Control, JobIsEmpty, JobObject,
    Returned
<1>4. CASE AttachMissed
  BY <1>4 DEF AttachMissed, Goto, StartCaptures, TypeOK, Control, JobIsEmpty,
    JobObject, Returned
<1>5. CASE PollExited
  BY <1>5 DEF PollExited, Goto, DropTree, KillChild, KillJob, TypeOK, Control,
    JobIsEmpty, JobObject, Returned
<1>6. CASE PollRunning
  BY <1>6 DEF PollRunning, Goto, TypeOK, Control, JobIsEmpty, JobObject, Returned
<1>7. CASE CheckCancel
  BY <1>7 DEF CheckCancel, TypeOK, Control, JobIsEmpty, JobObject, Returned
<1>8. CASE CheckTimeout
  BY <1>8 DEF CheckTimeout, TypeOK, Control, JobIsEmpty, JobObject, Returned
<1>9. CASE Terminate
  BY <1>9 DEF Terminate, Goto, KillChild, KillJob, TypeOK, Control, JobIsEmpty,
    JobObject, Returned
<1>10. CASE Wait
  BY <1>10 DEF Wait, Goto, TypeOK, Control, JobIsEmpty, JobObject, Returned
<1>11. CASE Report
  BY <1>11 DEF Report, Goto, CaptureErrors, TypeOK, Control, JobIsEmpty, JobObject,
    Returned
<1>12. CASE NotStarted
  BY <1>12 DEF NotStarted, Goto, TypeOK, Control, JobIsEmpty, JobObject, Returned
<1>13. CASE AttachFails
  BY <1>13 DEF AttachFails, Goto, KillChild, TypeOK, Control, JobIsEmpty, JobObject,
    Returned
<1>14. CASE PollFails
  BY <1>14 DEF PollFails, Goto, DropTree, KillChild, KillJob, TypeOK, Control,
    JobIsEmpty, JobObject, Returned
<1>15. CASE TerminateFails
  BY <1>15 DEF TerminateFails, Goto, DropTree, KillChild, KillJob, TypeOK, Control,
    JobIsEmpty, JobObject, Returned
<1>16. CASE ChildWrites
  BY <1>16 DEF ChildWrites, Room, ChildRuns, TypeOK, Control, JobIsEmpty, JobObject,
    Returned
<1>17. CASE ChildExits
  BY <1>17 DEF ChildExits, ChildRuns, TypeOK, Control, JobIsEmpty, JobObject, Returned
<1>18. CASE ChildForks
  BY <1>18 DEF ChildForks, ChildRuns, TypeOK, Control, JobIsEmpty, JobObject, Returned
<1>19. CASE DescendantExits
  BY <1>19 DEF DescendantExits, DescendantRuns, TypeOK, Control, JobIsEmpty,
    JobObject, Returned
<1>20. CASE Cancel
  BY <1>20 DEF Cancel, Polling, TypeOK, Control, JobIsEmpty, JobObject, Returned
<1>21. CASE Elapse
  BY <1>21 DEF Elapse, Polling, TypeOK, Control, JobIsEmpty, JobObject, Returned
<1>22. ASSUME NEW s \in Streams, Finish(s) PROVE goal
  BY <1>22 DEF Finish, FinishState, TypeOK, Control, JobIsEmpty, JobObject, Returned
<1>23. ASSUME NEW s \in Streams, ChildCommits(s) PROVE goal
  BY <1>23 DEF ChildCommits, ChildRuns, TypeOK, Control, JobIsEmpty, JobObject, Returned
<1>24. ASSUME NEW s \in Streams, DescendantWrites(s) PROVE goal
  BY <1>24 DEF DescendantWrites, DescendantRuns, Room, TypeOK, Control, JobIsEmpty,
    JobObject, Returned
<1>25. ASSUME NEW s \in Streams, Drain(s) PROVE goal
  BY <1>25 DEF Drain, TypeOK, Control, JobIsEmpty, JobObject, Returned
<1>26. ASSUME NEW s \in Streams, DrainEnds(s) PROVE goal
  BY <1>26 DEF DrainEnds, TypeOK, Control, JobIsEmpty, JobObject, Returned
<1>27. ASSUME NEW s \in Streams, DrainFails(s) PROVE goal
  BY <1>27 DEF DrainFails, TypeOK, Control, JobIsEmpty, JobObject, Returned
<1>28. CASE UNCHANGED vars
  BY <1>28 DEF vars, TypeOK, Control, JobIsEmpty, JobObject, Returned
<1>29. CASE WaitFails
  BY <1>29 DEF WaitFails, Goto, TypeOK, Control, JobIsEmpty, JobObject, Returned
<1> QED BY <1>1, <1>2, <1>3, <1>4, <1>5, <1>6, <1>7, <1>8, <1>9, <1>10, <1>11, <1>12,
  <1>13, <1>14, <1>15, <1>16, <1>17, <1>18, <1>19, <1>20, <1>21, <1>22, <1>23, <1>24,
  <1>25, <1>26, <1>27, <1>28, <1>29 DEF Next, Runner, Faults, Tree, Readers

LEMMA HonestStep ==
  TypeOK /\ Control /\ ReportIsHonest /\ [Next]_vars => ReportIsHonest'
<1> SUFFICES ASSUME TypeOK, Control, ReportIsHonest, [Next]_vars PROVE ReportIsHonest'
  OBVIOUS
<1> DEFINE goal == ReportIsHonest'
<1>1. CASE AlreadyCancelled
  BY <1>1 DEF AlreadyCancelled, Goto, TypeOK, Control, ReportIsHonest, CaptureErrors,
    Returned
<1>2. CASE Spawn
  BY <1>2 DEF Spawn, Goto, TypeOK, Control, ReportIsHonest, CaptureErrors, Returned
<1>3. CASE Attach
  BY <1>3 DEF Attach, Goto, StartCaptures, TypeOK, Control, ReportIsHonest,
    CaptureErrors, Returned
<1>4. CASE AttachMissed
  BY <1>4 DEF AttachMissed, Goto, StartCaptures, TypeOK, Control, ReportIsHonest,
    CaptureErrors, Returned
<1>5. CASE PollExited
  BY <1>5 DEF PollExited, Goto, DropTree, KillChild, KillJob, TypeOK, Control,
    ReportIsHonest, CaptureErrors, Returned
<1>6. CASE PollRunning
  BY <1>6 DEF PollRunning, Goto, TypeOK, Control, ReportIsHonest, CaptureErrors,
    Returned
<1>7. CASE CheckCancel
  BY <1>7 DEF CheckCancel, TypeOK, Control, ReportIsHonest, CaptureErrors, Returned
<1>8. CASE CheckTimeout
  BY <1>8 DEF CheckTimeout, TypeOK, Control, ReportIsHonest, CaptureErrors, Returned
<1>9. CASE Terminate
  BY <1>9 DEF Terminate, Goto, KillChild, KillJob, TypeOK, Control, ReportIsHonest,
    CaptureErrors, Returned
<1>10. CASE Wait
  BY <1>10 DEF Wait, Goto, TypeOK, Control, ReportIsHonest, CaptureErrors, Returned
<1>11. CASE Report
  BY <1>11 DEF Report, Goto, CaptureErrors, TypeOK, Control, ReportIsHonest, Returned
<1>12. CASE NotStarted
  BY <1>12 DEF NotStarted, Goto, TypeOK, Control, ReportIsHonest, CaptureErrors,
    Returned
<1>13. CASE AttachFails
  BY <1>13 DEF AttachFails, Goto, KillChild, TypeOK, Control, ReportIsHonest,
    CaptureErrors, Returned
<1>14. CASE PollFails
  BY <1>14 DEF PollFails, Goto, DropTree, KillChild, KillJob, TypeOK, Control,
    ReportIsHonest, CaptureErrors, Returned
<1>15. CASE TerminateFails
  BY <1>15 DEF TerminateFails, Goto, DropTree, KillChild, KillJob, TypeOK, Control,
    ReportIsHonest, CaptureErrors, Returned
<1>16. CASE ChildWrites
  BY <1>16 DEF ChildWrites, Room, ChildRuns, TypeOK, Control, ReportIsHonest,
    CaptureErrors, Returned
<1>17. CASE ChildExits
  BY <1>17 DEF ChildExits, ChildRuns, TypeOK, Control, ReportIsHonest, CaptureErrors,
    Returned
<1>18. CASE ChildForks
  BY <1>18 DEF ChildForks, ChildRuns, TypeOK, Control, ReportIsHonest, CaptureErrors,
    Returned
<1>19. CASE DescendantExits
  BY <1>19 DEF DescendantExits, DescendantRuns, TypeOK, Control, ReportIsHonest,
    CaptureErrors, Returned
<1>20. CASE Cancel
  BY <1>20 DEF Cancel, Polling, TypeOK, Control, ReportIsHonest, CaptureErrors, Returned
<1>21. CASE Elapse
  BY <1>21 DEF Elapse, Polling, TypeOK, Control, ReportIsHonest, CaptureErrors, Returned
<1>22. ASSUME NEW s \in Streams, Finish(s) PROVE goal
  BY <1>22 DEF Finish, FinishState, TypeOK, Control, ReportIsHonest, CaptureErrors,
    Returned
<1>23. ASSUME NEW s \in Streams, ChildCommits(s) PROVE goal
  BY <1>23 DEF ChildCommits, ChildRuns, TypeOK, Control, ReportIsHonest,
    CaptureErrors, Returned
<1>24. ASSUME NEW s \in Streams, DescendantWrites(s) PROVE goal
  BY <1>24 DEF DescendantWrites, DescendantRuns, Room, TypeOK, Control,
    ReportIsHonest, CaptureErrors, Returned
<1>25. ASSUME NEW s \in Streams, Drain(s) PROVE goal
  BY <1>25 DEF Drain, TypeOK, Control, ReportIsHonest, CaptureErrors, Returned
<1>26. ASSUME NEW s \in Streams, DrainEnds(s) PROVE goal
  BY <1>26 DEF DrainEnds, TypeOK, Control, ReportIsHonest, CaptureErrors, Returned
<1>27. ASSUME NEW s \in Streams, DrainFails(s) PROVE goal
  BY <1>27 DEF DrainFails, TypeOK, Control, ReportIsHonest, CaptureErrors, Returned
<1>28. CASE UNCHANGED vars
  BY <1>28 DEF vars, TypeOK, Control, ReportIsHonest, CaptureErrors, Returned
<1>29. CASE WaitFails
  BY <1>29 DEF WaitFails, Goto, TypeOK, Control, ReportIsHonest, CaptureErrors, Returned
<1> QED BY <1>1, <1>2, <1>3, <1>4, <1>5, <1>6, <1>7, <1>8, <1>9, <1>10, <1>11, <1>12,
  <1>13, <1>14, <1>15, <1>16, <1>17, <1>18, <1>19, <1>20, <1>21, <1>22, <1>23, <1>24,
  <1>25, <1>26, <1>27, <1>28, <1>29 DEF Next, Runner, Faults, Tree, Readers

LEMMA CapturedStep == TypeOK /\ Control /\ Captured /\ [Next]_vars => Captured'
<1> SUFFICES ASSUME TypeOK, Control, Captured, [Next]_vars PROVE Captured'
  OBVIOUS
<1> DEFINE goal == Captured'
<1>1. CASE AlreadyCancelled
  BY <1>1 DEF AlreadyCancelled, Goto, TypeOK, Control, Captured, WriteEndOpen, Returned
<1>2. CASE Spawn
  BY <1>2 DEF Spawn, Goto, TypeOK, Control, Captured, WriteEndOpen, Returned
<1>3. CASE Attach
  BY <1>3 DEF Attach, Goto, StartCaptures, TypeOK, Control, Captured, WriteEndOpen,
    Returned
<1>4. CASE AttachMissed
  BY <1>4 DEF AttachMissed, Goto, StartCaptures, TypeOK, Control, Captured,
    WriteEndOpen, Returned
<1>5. CASE PollExited
  BY <1>5 DEF PollExited, Goto, DropTree, KillChild, KillJob, TypeOK, Control,
    Captured, WriteEndOpen, Returned
<1>6. CASE PollRunning
  BY <1>6 DEF PollRunning, Goto, TypeOK, Control, Captured, WriteEndOpen, Returned
<1>7. CASE CheckCancel
  BY <1>7 DEF CheckCancel, TypeOK, Control, Captured, WriteEndOpen, Returned
<1>8. CASE CheckTimeout
  BY <1>8 DEF CheckTimeout, TypeOK, Control, Captured, WriteEndOpen, Returned
<1>9. CASE Terminate
  BY <1>9 DEF Terminate, Goto, KillChild, KillJob, TypeOK, Control, Captured,
    WriteEndOpen, Returned
<1>10. CASE Wait
  BY <1>10 DEF Wait, Goto, TypeOK, Control, Captured, WriteEndOpen, Returned
<1>11. CASE Report
  BY <1>11 DEF Report, Goto, CaptureErrors, TypeOK, Control, Captured, WriteEndOpen,
    Returned
<1>12. CASE NotStarted
  BY <1>12 DEF NotStarted, Goto, TypeOK, Control, Captured, WriteEndOpen, Returned
<1>13. CASE AttachFails
  BY <1>13 DEF AttachFails, Goto, KillChild, TypeOK, Control, Captured, WriteEndOpen,
    Returned
<1>14. CASE PollFails
  BY <1>14 DEF PollFails, Goto, DropTree, KillChild, KillJob, TypeOK, Control,
    Captured, WriteEndOpen, Returned
<1>15. CASE TerminateFails
  BY <1>15 DEF TerminateFails, Goto, DropTree, KillChild, KillJob, TypeOK, Control,
    Captured, WriteEndOpen, Returned
<1>16. CASE ChildWrites
  BY <1>16 DEF ChildWrites, Room, ChildRuns, TypeOK, Control, Captured, WriteEndOpen,
    Returned
<1>17. CASE ChildExits
  BY <1>17 DEF ChildExits, ChildRuns, TypeOK, Control, Captured, WriteEndOpen, Returned
<1>18. CASE ChildForks
  BY <1>18 DEF ChildForks, ChildRuns, TypeOK, Control, Captured, WriteEndOpen, Returned
<1>19. CASE DescendantExits
  BY <1>19 DEF DescendantExits, DescendantRuns, TypeOK, Control, Captured,
    WriteEndOpen, Returned
<1>20. CASE Cancel
  BY <1>20 DEF Cancel, Polling, TypeOK, Control, Captured, WriteEndOpen, Returned
<1>21. CASE Elapse
  BY <1>21 DEF Elapse, Polling, TypeOK, Control, Captured, WriteEndOpen, Returned
<1>22. ASSUME NEW s \in Streams, Finish(s) PROVE goal
  BY <1>22 DEF Finish, FinishState, TypeOK, Control, Captured, WriteEndOpen, Returned
<1>23. ASSUME NEW s \in Streams, ChildCommits(s) PROVE goal
  BY <1>23 DEF ChildCommits, ChildRuns, TypeOK, Control, Captured, WriteEndOpen,
    Returned
<1>24. ASSUME NEW s \in Streams, DescendantWrites(s) PROVE goal
  BY <1>24 DEF DescendantWrites, DescendantRuns, Room, TypeOK, Control, Captured,
    WriteEndOpen, Returned
<1>25. ASSUME NEW s \in Streams, Drain(s) PROVE goal
  BY <1>25 DEF Drain, TypeOK, Control, Captured, WriteEndOpen, Returned
<1>26. ASSUME NEW s \in Streams, DrainEnds(s) PROVE goal
  BY <1>26 DEF DrainEnds, TypeOK, Control, Captured, WriteEndOpen, Returned
<1>27. ASSUME NEW s \in Streams, DrainFails(s) PROVE goal
  BY <1>27 DEF DrainFails, TypeOK, Control, Captured, WriteEndOpen, Returned
<1>28. CASE UNCHANGED vars
  BY <1>28 DEF vars, TypeOK, Control, Captured, WriteEndOpen, Returned
<1>29. CASE WaitFails
  BY <1>29 DEF WaitFails, Goto, TypeOK, Control, Captured, WriteEndOpen, Returned
<1> QED BY <1>1, <1>2, <1>3, <1>4, <1>5, <1>6, <1>7, <1>8, <1>9, <1>10, <1>11, <1>12,
  <1>13, <1>14, <1>15, <1>16, <1>17, <1>18, <1>19, <1>20, <1>21, <1>22, <1>23, <1>24,
  <1>25, <1>26, <1>27, <1>28, <1>29 DEF Next, Runner, Faults, Tree, Readers

LEMMA TailStep == TypeOK /\ TailIsExact /\ [Next]_vars => TailIsExact'
<1> SUFFICES ASSUME TypeOK, TailIsExact, [Next]_vars PROVE TailIsExact'
  OBVIOUS
<1> DEFINE goal == TailIsExact'
<1>1. CASE AlreadyCancelled
  BY <1>1 DEF AlreadyCancelled, Goto, TailIsExact
<1>2. CASE Spawn
  BY <1>2 DEF Spawn, Goto, TailIsExact
<1>3. CASE Attach
  BY <1>3 DEF Attach, Goto, TailIsExact
<1>4. CASE AttachMissed
  BY <1>4 DEF AttachMissed, Goto, TailIsExact
<1>5. CASE PollExited
  BY <1>5 DEF PollExited, Goto, TailIsExact
<1>6. CASE PollRunning
  BY <1>6 DEF PollRunning, Goto, TailIsExact
<1>7. CASE CheckCancel
  BY <1>7 DEF CheckCancel, TailIsExact
<1>8. CASE CheckTimeout
  BY <1>8 DEF CheckTimeout, TailIsExact
<1>9. CASE Terminate
  BY <1>9 DEF Terminate, Goto, TailIsExact
<1>10. CASE Wait
  BY <1>10 DEF Wait, Goto, TailIsExact
<1>11. CASE Report
  BY <1>11 DEF Report, Goto, TailIsExact
<1>12. CASE NotStarted
  BY <1>12 DEF NotStarted, Goto, TailIsExact
<1>13. CASE AttachFails
  BY <1>13 DEF AttachFails, Goto, TailIsExact
<1>14. CASE PollFails
  BY <1>14 DEF PollFails, Goto, TailIsExact
<1>15. CASE TerminateFails
  BY <1>15 DEF TerminateFails, Goto, TailIsExact
<1>16. CASE ChildWrites
  BY <1>16 DEF ChildWrites, TailIsExact
<1>17. CASE ChildExits
  BY <1>17 DEF ChildExits, TailIsExact
<1>18. CASE ChildForks
  BY <1>18 DEF ChildForks, TailIsExact
<1>19. CASE DescendantExits
  BY <1>19 DEF DescendantExits, TailIsExact
<1>20. CASE Cancel
  BY <1>20 DEF Cancel, Polling, TailIsExact
<1>21. CASE Elapse
  BY <1>21 DEF Elapse, Polling, TailIsExact
<1>22. ASSUME NEW s \in Streams, Finish(s) PROVE goal
  BY <1>22 DEF Finish, TailIsExact, TypeOK
<1>23. ASSUME NEW s \in Streams, ChildCommits(s) PROVE goal
  BY <1>23 DEF ChildCommits, TailIsExact
<1>24. ASSUME NEW s \in Streams, DescendantWrites(s) PROVE goal
  BY <1>24 DEF DescendantWrites, TailIsExact
<1>25. ASSUME NEW s \in Streams, Drain(s) PROVE goal
  <2>1. PICK k \in 1..Chunk :
          /\ tail' = [tail EXCEPT ![s] = Push(tail[s], Bytes(drained[s], k))]
          /\ drained' = [drained EXCEPT ![s] = drained[s] + k]
    BY <1>25 DEF Drain
  <2>2. k \in Nat BY RunnerAssumption
  <2>3. drained[s] \in Nat /\ tail[s] = LastBytes(drained[s], Limit)
    BY DEF TypeOK, TailIsExact
  <2>4. Push(tail[s], Bytes(drained[s], k)) = LastBytes(drained[s] + k, Limit)
    BY <2>2, <2>3, PushLast
  <2>5. \A r \in Streams : tail'[r] = LastBytes(drained'[r], Limit)
    BY <2>1, <2>4 DEF TypeOK, TailIsExact
  <2>6. UNCHANGED snapshot BY <1>25 DEF Drain
  <2> QED BY <2>5, <2>6 DEF TailIsExact
<1>26. ASSUME NEW s \in Streams, DrainEnds(s) PROVE goal
  BY <1>26 DEF DrainEnds, TailIsExact
<1>27. ASSUME NEW s \in Streams, DrainFails(s) PROVE goal
  BY <1>27 DEF DrainFails, TailIsExact
<1>28. CASE UNCHANGED vars
  BY <1>28 DEF vars, TailIsExact
<1>29. CASE WaitFails
  BY <1>29 DEF WaitFails, Goto, TailIsExact
<1> QED BY <1>1, <1>2, <1>3, <1>4, <1>5, <1>6, <1>7, <1>8, <1>9, <1>10, <1>11, <1>12,
  <1>13, <1>14, <1>15, <1>16, <1>17, <1>18, <1>19, <1>20, <1>21, <1>22, <1>23, <1>24,
  <1>25, <1>26, <1>27, <1>28, <1>29 DEF Next, Runner, Faults, Tree, Readers

LEMMA InitHolds == Init => IInv
<1> SUFFICES ASSUME Init PROVE IInv
  OBVIOUS
<1>0. {cancelled, elapsed, attached, succeeded, reaped, hangs, inJob} \subseteq BOOLEAN
  BY Zenon DEF Init
<1>1. TypeOK
  <2>1. <<>> \in Seq(Nat) OBVIOUS
  <2>2. tail \in [Streams -> Seq(Nat)] BY <2>1 DEF Init
  <2>3. snapshot \in [Streams -> [bytes : Seq(Nat), total : Nat]] BY <2>1 DEF Init
  <2> QED BY <1>0, <2>2, <2>3 DEF Init, TypeOK, Pcs, Statuses
<1>2. Control /\ JobIsEmpty /\ ReportIsHonest
  BY DEF Init, Control, JobIsEmpty, ReportIsHonest
<1>3. Captured
  BY DEF Init, Captured
<1>4. LastBytes(0, Limit) = <<>>
  <2>1. LastBytes(0, Limit) \in Seq(Nat) /\ Len(LastBytes(0, Limit)) = 0
    BY LastAt, RunnerAssumption DEF Kept
  <2> QED BY <2>1
<1>5. TailIsExact
  BY <1>4 DEF Init, TailIsExact
<1> QED BY <1>1, <1>2, <1>3, <1>5 DEF IInv

(* The conjunction of the parts is inductive.                               *)
THEOREM Inductive == Spec => []IInv
<1>1. IInv /\ [Next]_vars => IInv'
  BY TypeStep, ControlStep, HonestStep, CapturedStep, TailStep DEF IInv
<1> QED BY InitHolds, <1>1, PTL DEF Spec

(* Every reachable state of ProcessRunner is well typed.                    *)
THEOREM TypeCorrect == Spec => []TypeOK
<1>1. IInv => TypeOK BY DEF IInv
<1> QED BY <1>1, Inductive, PTL

(* BoundedTail keeps exactly the last bytes it was pushed, for every limit  *)
(* and every division of the stream into chunks, and a report shows them.   *)
THEOREM TailIsExactHolds == Spec => []TailIsExact
<1>1. IInv => TailIsExact BY DEF IInv
<1> QED BY <1>1, Inductive, PTL

(* A Success is a child that ended with 0 and an output that is complete.   *)
THEOREM SuccessIsCompleteHolds == Spec => []SuccessIsComplete
<1>1. IInv => SuccessIsComplete
  BY DEF IInv, Captured, SuccessIsComplete
<1> QED BY <1>1, Inductive, PTL

(* A report never leaves its child running, and its status has its cause.   *)
THEOREM ReportIsHonestHolds == Spec => []ReportIsHonest
<1>1. IInv => ReportIsHonest BY DEF IInv
<1> QED BY <1>1, Inductive, PTL

(* Whichever way a call ends, nothing is left in its job.                   *)
THEOREM JobIsEmptyHolds == Spec => []JobIsEmpty
<1>1. IInv => JobIsEmpty BY DEF IInv
<1> QED BY <1>1, Inductive, PTL
=============================================================================
