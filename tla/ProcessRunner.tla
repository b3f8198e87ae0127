---------------------------- MODULE ProcessRunner ----------------------------
(***************************************************************************)
(* The bounded process runner                                               *)
(* (crates/opticcode-tools/src/process_runner.rs, process_runner/windows.rs)*)
(* that carries every Git command and every build.  One call spawns a       *)
(* child, drains its two pipes on two threads that keep only a bounded      *)
(* tail, polls for exit, cancellation and timeout, ends the child on the    *)
(* last two, and gives the drain threads a bounded time to reach the end of *)
(* their pipes.  The child may start a descendant that inherits the pipes.  *)
(*                                                                          *)
(* Byte n of a stream is the number n, so that a tail shows which bytes it  *)
(* kept.                                                                    *)
(***************************************************************************)
EXTENDS Integers, Sequences

CONSTANTS
  Strategies,   \* the ProcessTreeStrategy values of the platforms modelled
  Limit,        \* output_limit_bytes: bytes kept per stream
  Chunk,        \* bytes one read may return
  PipeCapacity, \* bytes a pipe holds before its writer blocks
  MaxBytes      \* stream -> bound on the bytes written to it

Streams == {"stdout", "stderr"}

ASSUME RunnerAssumption ==
  /\ Strategies \subseteq {"windows_job_object", "direct_child"}
  /\ {Limit, Chunk, PipeCapacity} \subseteq Nat \ {0}
  /\ MaxBytes \in [Streams -> Nat]

VARIABLES
  strategy,    \* how this platform ends a process tree
  pc,          \* the control point of run_process_with_cancellation
  cancelled,   \* the CancellationToken
  elapsed,     \* started_at.elapsed() has reached request.timeout
  attached,    \* tree_attached
  requested,   \* requested_status, or "none"
  succeeded,   \* termination.succeeded
  child,       \* the root process
  reaped,      \* its exit status has been collected
  hangs,       \* it never ends by itself
  writing,     \* the stream it is writing to, or "none"
  descendant,  \* a process it started, which inherited its pipes
  inJob,       \* that process belongs to the job object
  written,     \* stream -> bytes written to its pipe
  drained,     \* stream -> total_bytes of its BoundedTail
  tail,        \* stream -> bytes of its BoundedTail
  reader,      \* stream -> its drain thread
  capture,     \* stream -> how CaptureTask::finish ended
  snapshot,    \* stream -> the CaptureSnapshot taken there
  status       \* the ProcessStatus returned, or "none"

envVars == <<strategy, cancelled, elapsed>>
requestVars == <<requested, succeeded>>
reportVars == <<capture, snapshot, status>>
runnerVars == <<pc, attached, requestVars, reportVars>>
childVars == <<child, reaped, hangs, writing>>
descendantVars == <<descendant, inJob>>
treeVars == <<childVars, descendantVars>>
streamVars == <<written, drained, tail, reader>>
vars == <<envVars, runnerVars, treeVars, streamVars>>

Init ==
  /\ strategy \in Strategies
  /\ pc = "start"
  /\ cancelled = FALSE
  /\ elapsed = FALSE /\ attached = FALSE
  /\ requested = "none" /\ succeeded = FALSE /\ status = "none"
  /\ child = "none" /\ reaped = FALSE
  /\ hangs \in BOOLEAN
  /\ writing = "none"
  /\ descendant = "none" /\ inJob = FALSE
  /\ written = [s \in Streams |-> 0]
  /\ drained = [s \in Streams |-> 0]
  /\ tail = [s \in Streams |-> <<>>]
  /\ reader = [s \in Streams |-> "idle"]
  /\ capture = [s \in Streams |-> "open"]
  /\ snapshot = [s \in Streams |-> [bytes |-> <<>>, total |-> 0]]

Returned == pc \in {"done", "error"}
WriteEndOpen == child = "running" \/ descendant = "alive"
JobObject == strategy = "windows_job_object"

-----------------------------------------------------------------------------
(* BoundedTail::push on a chunk of k bytes that follows n earlier ones.     *)

Bytes(n, k) == [i \in 1..k |-> n + i]

(* Mutant: a full tail gives up its newest bytes instead of its oldest.     *)
OldestKept(bytes, chunk) ==
  IF Len(chunk) >= Limit
  THEN SubSeq(chunk, Len(chunk) - Limit + 1, Len(chunk))
  ELSE LET overflow == IF Len(bytes) + Len(chunk) > Limit
                       THEN Len(bytes) + Len(chunk) - Limit ELSE 0
       IN SubSeq(bytes, 1, Len(bytes) - overflow) \o chunk

Push(bytes, chunk) ==
  IF Len(chunk) >= Limit
  THEN SubSeq(chunk, Len(chunk) - Limit + 1, Len(chunk))
  ELSE LET overflow == IF Len(bytes) + Len(chunk) > Limit
                       THEN Len(bytes) + Len(chunk) - Limit ELSE 0
       IN SubSeq(bytes, overflow + 1, Len(bytes)) \o chunk

(* drain_reader: it reads until the pipe has no writer left, or until a     *)
(* read fails.  Nothing but the end of the pipe stops it, the limit least.  *)
Drain(s) ==
  /\ reader[s] = "reading" /\ ~Returned
  /\ \E k \in 1..Chunk :
       /\ drained[s] + k <= written[s]
       /\ tail' = [tail EXCEPT ![s] = Push(tail[s], Bytes(drained[s], k))]
       /\ drained' = [drained EXCEPT ![s] = drained[s] + k]
  /\ UNCHANGED <<envVars, runnerVars, treeVars, written, reader>>

DrainEnds(s) ==
  /\ reader[s] = "reading" /\ ~Returned
  /\ drained[s] = written[s] /\ ~WriteEndOpen
  /\ reader' = [reader EXCEPT ![s] = "eof"]
  /\ UNCHANGED <<envVars, runnerVars, treeVars, written, drained, tail>>

DrainFails(s) ==
  /\ reader[s] = "reading" /\ ~Returned
  /\ reader' = [reader EXCEPT ![s] = "failed"]
  /\ UNCHANGED <<envVars, runnerVars, treeVars, written, drained, tail>>

-----------------------------------------------------------------------------
(* The processes the runner started, and its callers: code outside the      *)
(* repository.                                                              *)

Room(s) == reader[s] # "failed" /\ written[s] - drained[s] < PipeCapacity

(* What they do after the call returned is not followed.                    *)
ChildRuns == child = "running" /\ ~Returned
DescendantRuns == descendant = "alive" /\ ~Returned

(* A child commits to one write and blocks until the pipe takes it, as a    *)
(* program that fills stderr before it touches stdout does.                 *)
ChildCommits(s) ==
  /\ ChildRuns /\ writing = "none"
  /\ written[s] < MaxBytes[s] /\ reader[s] # "failed"
  /\ writing' = s
  /\ UNCHANGED <<envVars, runnerVars, child, reaped, hangs, descendantVars, streamVars>>

ChildWrites ==
  /\ ChildRuns /\ writing \in Streams
  /\ \/ /\ Room(writing)
        /\ written' = [written EXCEPT ![writing] = written[writing] + 1]
     \/ /\ reader[writing] = "failed"   \* a broken pipe
        /\ UNCHANGED written
  /\ writing' = "none"
  /\ UNCHANGED <<envVars, runnerVars, child, reaped, hangs, descendantVars, drained,
                 tail, reader>>

ChildExits ==
  /\ ChildRuns /\ ~hangs /\ writing = "none"
  /\ child' \in {"exited_ok", "exited_err"}
  /\ UNCHANGED <<envVars, runnerVars, reaped, hangs, writing, descendantVars,
                 streamVars>>

ChildForks ==
  /\ ChildRuns /\ descendant = "none"
  /\ descendant' = "alive"
  /\ inJob' = (JobObject /\ attached)
  /\ UNCHANGED <<envVars, runnerVars, childVars, streamVars>>

DescendantWrites(s) ==
  /\ DescendantRuns /\ Room(s)
  /\ writing # s /\ written[s] < MaxBytes[s]
  /\ written' = [written EXCEPT ![s] = written[s] + 1]
  /\ UNCHANGED <<envVars, runnerVars, treeVars, drained, tail, reader>>

DescendantExits ==
  /\ DescendantRuns
  /\ descendant' = "dead"
  /\ UNCHANGED <<envVars, runnerVars, childVars, inJob, streamVars>>

(* The token and the clock are looked at until the polling is over.         *)
Polling == pc \in {"attach", "poll", "check_cancel", "check_timeout"}

Cancel ==
  /\ ~cancelled /\ (pc = "start" \/ Polling)
  /\ cancelled' = TRUE
  /\ UNCHANGED <<strategy, elapsed, runnerVars, treeVars, streamVars>>

Elapse ==
  /\ ~elapsed /\ Polling
  /\ elapsed' = TRUE
  /\ UNCHANGED <<strategy, cancelled, runnerVars, treeVars, streamVars>>

-----------------------------------------------------------------------------
(* run_process_with_cancellation                                            *)

Goto(from, to) == pc = from /\ pc' = to

(* What a signal or TerminateJobObject does to a process.                   *)
KillChild == child' = IF child = "running" THEN "killed" ELSE child
KillJob == descendant' = IF descendant = "alive" /\ inJob THEN "dead" ELSE descendant

(* Closing the last handle of the job ends what is still in it; on the other *)
(* platforms dropping the guard does nothing.                               *)
DropTree ==
  IF JobObject /\ attached THEN KillChild /\ KillJob
                           ELSE UNCHANGED <<child, descendant>>

AlreadyCancelled ==
  /\ Goto("start", "done")
  /\ cancelled
  /\ status' = "Cancelled"
  /\ UNCHANGED <<envVars, requestVars, capture, snapshot, attached, treeVars,
                 streamVars>>

(* validate_request, the tree guard or the spawn fails: no child.           *)
NotStarted ==
  /\ Goto("start", "error")
  /\ UNCHANGED <<envVars, requestVars, reportVars, attached, treeVars, streamVars>>

Spawn ==
  /\ Goto("start", "attach")
  /\ ~cancelled
  /\ child' = "running"
  /\ UNCHANGED <<envVars, requestVars, reportVars, attached, reaped, hangs, writing,
                 descendantVars, streamVars>>

StartCaptures == reader' = [s \in Streams |-> "reading"]

(* tree.assign succeeds; it cannot for a process that has already ended     *)
(* when it is a job object, and always does when it is nothing.             *)
Attach ==
  /\ Goto("attach", "poll")
  /\ JobObject => child = "running"
  /\ attached' = TRUE
  /\ StartCaptures
  /\ UNCHANGED <<envVars, requestVars, reportVars, treeVars, written, drained, tail>>

(* tree.assign fails and try_wait finds the child ended: initial_exit.      *)
AttachMissed ==
  /\ Goto("attach", "finish_stdout")
  /\ JobObject /\ child # "running"
  /\ reaped' = TRUE
  /\ StartCaptures
  /\ UNCHANGED <<envVars, requestVars, reportVars, attached, child, hangs, writing,
                 descendantVars, written, drained, tail>>

(* tree.assign fails on a live child (or try_wait fails): kill, wait, bail. *)
(* The pipes were never read.                                               *)
AttachFails ==
  /\ Goto("attach", "error")
  /\ JobObject
  /\ KillChild
  /\ reaped' = TRUE
  /\ UNCHANGED <<envVars, requestVars, reportVars, attached, hangs, writing,
                 descendantVars, streamVars>>

(* try_wait.  Its error leaves the function: the guard is dropped, and where *)
(* that does nothing the child is left running.                             *)
PollExited ==
  /\ Goto("poll", "finish_stdout")
  /\ child # "running"
  /\ reaped' = TRUE
  /\ DropTree
  /\ UNCHANGED <<envVars, requestVars, reportVars, attached, hangs, writing, inJob,
                 streamVars>>

PollRunning ==
  /\ Goto("poll", "check_cancel")
  /\ child = "running"
  /\ UNCHANGED <<envVars, requestVars, reportVars, attached, treeVars, streamVars>>

PollFails ==
  /\ Goto("poll", "error")
  /\ DropTree
  /\ UNCHANGED <<envVars, requestVars, reportVars, attached, reaped, hangs, writing,
                 inJob, streamVars>>

CheckCancel ==
  /\ pc = "check_cancel"
  /\ pc' = IF cancelled THEN "terminate" ELSE "check_timeout"
  /\ requested' = IF cancelled THEN "Cancelled" ELSE requested
  /\ UNCHANGED <<envVars, succeeded, reportVars, attached, treeVars, streamVars>>

(* Mutant: the deadline is not looked at.                                   *)
TimeoutUnchecked ==
  /\ Goto("check_timeout", "poll")
  /\ UNCHANGED <<envVars, requestVars, reportVars, attached, treeVars, streamVars>>

CheckTimeout ==
  /\ pc = "check_timeout"
  /\ pc' = IF elapsed THEN "terminate" ELSE "poll"
  /\ requested' = IF elapsed THEN "TimedOut" ELSE requested
  /\ UNCHANGED <<envVars, succeeded, reportVars, attached, treeVars, streamVars>>

(* tree.terminate.  On Windows it ends the job, and the drop that follows   *)
(* ends it when the call failed.  Elsewhere it is child.kill().             *)
Terminate ==
  /\ Goto("terminate", "wait")
  /\ succeeded' = TRUE
  /\ KillChild
  /\ IF JobObject THEN KillJob ELSE UNCHANGED descendant
  /\ UNCHANGED <<envVars, requested, reportVars, attached, reaped, hangs, writing,
                 inJob, streamVars>>

(* It fails; the direct-child fallback may fail too.                        *)
TerminateFails ==
  /\ Goto("terminate", "wait")
  /\ IF JobObject THEN DropTree
                  ELSE (KillChild \/ UNCHANGED child) /\ UNCHANGED descendant
  /\ UNCHANGED <<envVars, requestVars, reportVars, attached, reaped, hangs, writing,
                 inJob, streamVars>>

(* Mutant: the exit status is polled once instead of waited for.            *)
WaitOnce ==
  /\ Goto("wait", "finish_stdout")
  /\ reaped' = (child # "running")
  /\ UNCHANGED <<envVars, requestVars, reportVars, attached, child, hangs, writing,
                 descendantVars, streamVars>>

(* child.wait() has no deadline.                                            *)
Wait ==
  /\ Goto("wait", "finish_stdout")
  /\ child # "running"
  /\ reaped' = TRUE
  /\ UNCHANGED <<envVars, requestVars, reportVars, attached, child, hangs, writing,
                 descendantVars, streamVars>>

WaitFails ==
  /\ Goto("wait", "error")
  /\ UNCHANGED <<envVars, requestVars, reportVars, attached, treeVars, streamVars>>

(* Mutant: a drain that timed out is not an error.                         *)
DrainTimeoutIgnored(thread) == IF thread = "failed" THEN "failed" ELSE "ok"

(* CaptureTask::finish on one stream: it takes the thread's answer, or      *)
(* gives up after OUTPUT_DRAIN_TIMEOUT and leaves the thread running; the   *)
(* snapshot is taken either way.                                            *)
FinishState(thread) ==
  CASE thread = "eof" -> "ok" [] thread = "failed" -> "failed" [] OTHER -> "drain_timeout"

Finish(s) ==
  /\ pc = (IF s = "stdout" THEN "finish_stdout" ELSE "finish_stderr")
  /\ pc' = (IF s = "stdout" THEN "finish_stderr" ELSE "report")
  /\ capture' = [capture EXCEPT ![s] = FinishState(reader[s])]
  /\ snapshot' = [snapshot EXCEPT ![s] = [bytes |-> tail[s], total |-> drained[s]]]
  /\ UNCHANGED <<envVars, requestVars, status, attached, treeVars, streamVars>>

CaptureErrors == {s \in Streams : capture[s] # "ok"}

Report ==
  /\ Goto("report", "done")
  /\ status' = CASE requested # "none" -> requested
                 [] requested = "none" /\ child = "exited_ok" /\ CaptureErrors = {}
                      -> "Success"
                 [] OTHER -> "Failed"
  /\ UNCHANGED <<envVars, requestVars, capture, snapshot, attached, treeVars,
                 streamVars>>

Runner ==
  \/ AlreadyCancelled \/ Spawn \/ Attach \/ AttachMissed
  \/ PollExited \/ PollRunning \/ CheckCancel \/ CheckTimeout
  \/ Terminate \/ Wait \/ (\E s \in Streams : Finish(s)) \/ Report

Faults == NotStarted \/ AttachFails \/ PollFails \/ TerminateFails \/ WaitFails

Tree ==
  \/ ChildWrites \/ ChildExits \/ ChildForks \/ DescendantExits
  \/ \E s \in Streams : ChildCommits(s) \/ DescendantWrites(s)

Readers == \E s \in Streams : Drain(s) \/ DrainEnds(s) \/ DrainFails(s)

Next == Runner \/ Faults \/ Tree \/ Readers \/ Cancel \/ Elapse

(* The runner's thread and the two drain threads run; a child that does not *)
(* hang goes on writing and exits.  The clock, the caller and the           *)
(* descendant owe nothing.                                                  *)
Fairness ==
  /\ WF_vars(Runner)
  /\ \A s \in Streams : WF_vars(Drain(s)) /\ WF_vars(DrainEnds(s))
  /\ WF_vars(ChildWrites) /\ WF_vars(ChildExits)

Spec == Init /\ [][Next]_vars
FairSpec == Spec /\ Fairness

-----------------------------------------------------------------------------
Statuses == {"none", "Success", "Failed", "TimedOut", "Cancelled"}
Pcs == {"start", "attach", "poll", "check_cancel", "check_timeout", "terminate", "wait",
        "finish_stdout", "finish_stderr", "report", "done", "error"}

(* Every variable holds a value of its type.                                *)
TypeOK ==
  /\ strategy \in Strategies
  /\ pc \in Pcs
  /\ {cancelled, elapsed, attached, succeeded, reaped, hangs, inJob} \subseteq BOOLEAN
  /\ requested \in {"none", "Cancelled", "TimedOut"}
  /\ status \in Statuses
  /\ child \in {"none", "running", "exited_ok", "exited_err", "killed"}
  /\ writing \in Streams \union {"none"}
  /\ descendant \in {"none", "alive", "dead"}
  /\ written \in [Streams -> Nat] /\ drained \in [Streams -> Nat]
  /\ tail \in [Streams -> Seq(Nat)]
  /\ reader \in [Streams -> {"idle", "reading", "eof", "failed"}]
  /\ capture \in [Streams -> {"open", "ok", "failed", "drain_timeout"}]
  /\ snapshot \in [Streams -> [bytes : Seq(Nat), total : Nat]]

(* The last m bytes of the first n of a stream.                             *)
LastBytes(n, m) == IF n <= m THEN Bytes(0, n) ELSE Bytes(n - m, m)

(* What BoundedTail keeps, whatever the sizes of the chunks it was pushed,  *)
(* is exactly the last `limit` bytes read, and what the report shows of a   *)
(* stream is such a tail of the bytes it counts.                            *)
TailIsExact ==
  \A s \in Streams :
    /\ tail[s] = LastBytes(drained[s], Limit)
    /\ snapshot[s].bytes = LastBytes(snapshot[s].total, Limit)

(* A call that answers Success ran a child that ended by itself with code 0, *)
(* and its output counts every byte anyone wrote to the two pipes: nobody is *)
(* left who could write another.                                            *)
SuccessIsComplete ==
  status = "Success" =>
    /\ child = "exited_ok" /\ ~WriteEndOpen
    /\ \A s \in Streams : snapshot[s].total = written[s]

(* A call that returns a report has collected its child (no root process    *)
(* outlives it), and its status has its cause: Cancelled the token,         *)
(* TimedOut the deadline, Failed an exit other than 0, an end by signal or  *)
(* an output that could not be read to its end.                             *)
ReportIsHonest ==
  pc = "done" =>
    /\ child # "running"
    /\ reaped \/ child = "none"
    /\ status = "Cancelled" => cancelled
    /\ status = "TimedOut" => elapsed
    /\ status = "Failed" => child \in {"exited_err", "killed"} \/ CaptureErrors # {}

(* Once the call is over, with a report or an error, no process of the job  *)
(* is left, whichever way it ended.  A descendant started before the child  *)
(* joined the job is not one of them.                                       *)
JobIsEmpty ==
  pc \in {"finish_stdout", "finish_stderr", "report", "done", "error"} /\ JobObject =>
    /\ child # "running"
    /\ descendant = "alive" => ~inJob

(* The call returns when its child ends by itself, when its deadline has    *)
(* passed and when it is cancelled, unless the operating system refuses to  *)
(* end the child: neither a child that fills both pipes far beyond the      *)
(* limit nor a descendant that keeps them open can hold it.                 *)
Returns ==
  (pc # "start" /\ (~hangs \/ elapsed \/ cancelled))
    ~> (Returned \/ (pc = "wait" /\ ~succeeded))
=============================================================================
