# A formal model of OpticCode

OpticCode is a local coding agent for Java/Bukkit projects: a Rust workspace
(`src/crates/`) with a command line, and a VS Code extension
(`src/extensions/vscode-opticcode/`). It proposes edits with a local language
model, verifies them in a disposable Git worktree, asks the user for a one-shot
approval, applies them to the real workspace in a journalled transaction and can
undo that transaction. This directory holds TLA+ modules for the parts in which
order, concurrency and failure decide correctness, the TLC runs that check them
and the TLAPS proofs about them.

## Inventory

| Component | State | Operations | Hard behaviour | What makes it correct |
|---|---|---|---|---|
| Transactional file engine (`opticcode-tools/src/apply_transaction.rs`) | targets in the workspace, `.opticcode/apply.lock`, `.opticcode/runs/<id>/` (backups, manifest, one JSON file per event), in-memory journal | apply, automatic rollback, `--undo`, `--recover`, inspect, list | crash or I/O error at each durable step, external edits, several processes | write-ahead, all-or-restored, no foreign content overwritten, recovery converges |
| Approval store (`opticcode-policy/src/approval.rs`) | `active/`, `used/` records, `.claim` files | issue, consume | racing consumers, crash after the claim, expiry, drift | one answer per grant, only for the confirmed binding |
| Policy engine and audit (`opticcode-policy/src/engine.rs`, `paths.rs`, `audit.rs`) | what a caller observed, the file system, leases, audit directory | evaluate, check, revalidate, issue_approval, record, rotate | a workspace that changes between the check and the act, audit failure or crash after the grant is consumed, rotation races | what executes was authorized as it executes, once per grant, and is on record |
| Edit lifecycle (`opticcode-edit/src/store.rs`, `apply.rs`, `rollback.rs`, `verification.rs`) | proposal generations, state machine | create, verify, apply, rollback, discard, expire | two commands on one proposal, crash between state change and effect | recorded state agrees with the workspace |
| Worktrees (`opticcode-tools/src/worktree.rs`) | lease files, reserved directories, Git's list of worktrees; the source's tree, HEAD and refs as read | edit run, verify patch, cleanup, list | crash at any step, interrupted Git commands, two cleanups at once, a source that moves | whatever is on disk has a lease, nothing but an own worktree is removed, no drifted source is certified |
| Process runner (`process_runner.rs`, `process_runner/windows.rs`) | child process, job object, two drain threads with bounded tails, cancellation token | run, cancel | exit, cancel and timeout in one poll, full pipes, descendants that keep pipes open | the call returns, child reaped, status names the cause, no success with output missing |
| Git state (`git_state.rs`) | snapshots | capture, compare, report | change kinds, repeated changes | pre-existing and new changes are told apart |
| RAG index and file references (`rag/`) | staging directories, generations, `CURRENT` | build, recover, search, read a referenced file | a build killed at any step, overlapping builds, files edited or replaced by links while they are read | `CURRENT` names a whole generation of stable texts without secrets, the next build succeeds |
| LLM provider (`opticcode-llm/src/ollama.rs`) | stream, bounded channel, output budget | stream, cancel | end, error, cancel, overflow of a stream while events wait | one terminal event, no text lost |
| Assistant runtime (`opticcode-core/src/assistant_runtime.rs`) | prompts, provider stream, bounded event channel | execute, forward, cancel | a consumer that is slow or leaves, cancellation at each await | one well-formed stream, the command returns |
| Chat runtime and grounding (`chat_runtime.rs`, `grounding.rs`) | request, reference snapshots, manifest, event sequence | resolve, answer, validate, revalidate, cancel | files that change between reading and answering, a model that cites anything | only grounded, current answers within the scope are shown |
| Document facts (`grounding.rs`) | scanner of a JSON, YAML or TOML text | is a key there, on which line | nesting, lists, partial texts | the line is the key's line |
| Edit intents and plans (`opticcode-edit/src/intent.rs`, `validation.rs`, `chat_edit_runtime.rs`) | trusted files, intent, plan | trust, generate, correct, validate, store | files that change meanwhile, overlapping and empty ranges | the proposal is the plan, within what the user referred to |
| Java edits (`java_edits/`, `java_edit_worktree.rs`) | index, proposals, worktree | index, propose, revalidate, apply, build, compare | a source that is edited or committed, a build that writes | a success left exactly the analysed edits |
| VS Code protocol client (`protocol/client.ts`) | child process, timers, promise | request, cancel, time out, kill | late, lost or partial output, a process that hangs | each request settles, with what the process decided |
| VS Code chat and review (`chat/participant.ts`, `session.ts`, `editReview.ts`, `editArtifacts.ts`) | session store, memento, artifact, modals | turn, clear, reload; show, verify, apply, roll back, discard | `await` between a read and the write that depends on it | cleared context is not sent, every change was confirmed |
| Evaluation harness, command-line parsing, syntax trees | text | parse, format, measure | none beyond text processing | left out |

Components interact by calls inside one process, and by files between processes:
the CLI and the extension start separate processes that share the workspace, the
run directories and the approval store. The edit lifecycle calls the policy
engine, which calls the approval store, and then the file engine. The extension
starts one process per chat request and talks to it in lines over its standard
streams.

## Modules

| Module | Models or proves | Code |
|---|---|---|
| `ApplyTransaction` | the file engine: apply, rollback, undo, recover; and its refinement mapping to `PlannedChange` | `opticcode-tools/src/apply_transaction.rs`, `git_state.rs` |
| `PlannedChange` | what the file engine promises of the workspace | |
| `MCApplyTransaction` | instances: three paths, of which requests replace, create and delete two | |
| `ApplyTransactionProofs` | theorems about `ApplyTransaction` | |
| `OneShotGrant` | what an approval store promises | |
| `ApprovalStore` | the store, one file operation per step, and its refinement mapping to `OneShotGrant` | `opticcode-policy/src/approval.rs` |
| `MCApprovalStore` | instance: one confirmed binding and, for each compared field, one that differs in that field only | |
| `PolicyParameters` | the constants `ApprovalStore` and `PolicyEngine` share: the grants, and what no answer is | |
| `EditLifecycle` | the proposal store and the commands that move a proposal; uses the engine as its callers see it | `opticcode-edit/src/{schema,store,verification,apply,rollback,transaction,policy_adapter}.rs`, `opticcode-core/src/chat_edit_runtime.rs` |
| `MCEditLifecycle`, `MCEditCommands` | instances: one or two proposals, two processes; what `edit_commands` lets them meet, chosen by the first state | |
| `EditLifecycleProofs` | theorems about `EditLifecycle` | |
| `ProcessRunner` | one call of the bounded process runner and the processes it started | `opticcode-tools/src/process_runner.rs`, `process_runner/windows.rs` |
| `MCProcessRunner` | instance: both platforms, a pipe smaller than the output | |
| `ProcessRunnerProofs` | theorems about `ProcessRunner` | |
| `Worktree` | disposable worktrees: both kinds of run, and the cleanup command | `opticcode-tools/src/worktree.rs` |
| `MCWorktree` | instance: one run, two cleanup commands | |
| `WorktreeProofs` | theorems about `Worktree` | |
| `ProviderStream` | the provider's stream of events over a bounded channel | `opticcode-llm/src/{ollama,protocol,provider}.rs` |
| `AssistantStream` | one assistant command; extends `ProviderStream`, whose future it polls | `opticcode-core/src/{assistant_runtime,protocol,context_runtime}.rs` |
| `AssistantStreamProofs` | theorems about `AssistantStream` and the provider it polls | |
| `Grounding` | the rules a structured answer is checked by | `opticcode-core/src/grounding.rs` |
| `ChatRuntime` | one chat request inside the process; extends `Grounding` | `opticcode-core/src/{chat_runtime,chat_protocol}.rs`, `opticcode-cli/src/chat.rs` |
| `ChatTransport` | the same request from the editor and back; extends `ChatRuntime` | `vscode-opticcode/src/protocol/client.ts` |
| `ChatTransportProofs` | theorems about `ChatTransport` and the runtime in it | |
| `ChatSession` | the chat participant and its session store | `vscode-opticcode/src/chat/{participant,session}.ts` |
| `EditReview` | the review commands, the artifact they share, the runtime they start | `vscode-opticcode/src/chat/{editReview,editArtifacts}.ts`, `chat_edit_runtime.rs` |
| `PolicyRules` | `evaluate`: every rule, as a function of a request and a file system | `opticcode-policy/src/{engine,paths,model}.rs` |
| `PolicyEngine` | callers, grants (an `INSTANCE` of `OneShotGrant`), audit log, revalidation | `opticcode-policy/src/{engine,audit}.rs`, `policy_adapter.rs` |
| `PolicyProofs` | theorems about `ApprovalStore` and `PolicyEngine` | |
| `RagIndex` | builds, searches and stable reads | `opticcode-tools/src/rag/{index,policy,reference}.rs` |
| `EditPlan` | from a chat request to a stored plan | `opticcode-edit/src/{intent,validation,generation}.rs`, `chat_edit_runtime.rs` |
| `DocumentFacts` | the line scanners, and what a text says by its structure | `opticcode-core/src/grounding.rs` |
| `JavaEdits` | legacy Java edits proved in a worktree | `opticcode-tools/src/java_edits/`, `java_edit_worktree.rs` |
| `ComponentProofs` | theorems about `EditReview`, `RagIndex`, `JavaEdits`, `ChatSession` and `EditPlan` | |
| `MCAssistantStream`, `MCChatTransport` | instances: one request for each route and each refusal | |
| `MCPolicyEngine`, `MCRagIndex`, `MCEditPlan`, `MCDocumentFacts`, `MCJavaEdits` | values for the constants of these modules | |
| `MCRecoveryAndStream` | one run over recovery and the assistant command, which share no state: no transaction is begun before one command has returned | |
| `MCComponents` | one run over the modules that share no state: the first state chooses the part that moves | |

### ApplyTransaction

One process runs one operation at a time; `pc[p]` is its place in the code and
`loc[p]` its local variables (the request, the in-memory journal `state` and
`seq`, the loop index `file`, the sets `modified` and `restored`, the collected
`errors`). The disk is `files` (contents), `modes` (permission bits), `debris`
(temporaries left beside targets), `dirs`, `backups`, `manifest` and `journal`
(one run directory per transaction) and the operating system's `lock`; `head` is
the Git HEAD. Contents and fingerprints are one and the same model value, so a
hash comparison is an equality.

An action ends where the code makes something durable. An apply goes through
`StartApply`, `AcquireLock`, `CreateRun`, `BackupFile` (once per planned file),
`WriteManifest`, `Prepare`, `StartApplying`, then for each file `ApplyMutation`,
`Recheck` (the last read before the rename), `PublishTarget` (the rename) and
`Confirm` (permissions and read-back), then `VerifyApplied`, `Finalize`,
`GitCheck` and `Commit`. An error before `Prepare` returns; an error after it is
a `Rollback`. `StartRollback` with `undo` or `recover` enters at `Inspect`.
`RollbackStart`, `RestoreFile` (in reverse order, with the same three target
steps), `VerifyGitRestored` and `RollbackEnd` collect errors and go on, as
`rollback_manifest` does. `Transition` publishes an event; `TransitionFails`
fails before the rename or, with `SyncFaults`, after it, where the event is on
disk and the in-memory sequence number is not advanced. The environment crashes a
process (the lock is released, temporaries stay), fails an I/O call, writes a
file and commits; with `RaceWindow` it writes between `Recheck` and
`PublishTarget` too.

### ApprovalStore

`active`, `consuming`, `used` and `claims` are the files of the store. `Issue`
writes a record; `Consume` reads the clock, and `CheckReused`, `CheckPresent`,
`Claim` (create_new of the claim file), `Take` (the rename to `-consuming`),
`Compare` and `Retire` (the rename to `used/`) are the file operations of
`consume_at`. A caller may observe any binding. The refinement mapping reads the
abstract grant off the record and the history of answers: a claim that leads to
no comparison is a stutter of `OneShotGrant`.

### EditLifecycle

`rec[p]` is the latest generation of proposal `p`: its state, the number of
generations and policy references, and what later commands read of its three
reports. A store update is one step (`StoreLock` and an immutable generation per
update make it so); everything between two updates interleaves. `cmd[c]` is the
command a process runs: its place, the transaction it names, the policy
decisions it has collected, the content its approval is bound to, what it will
record. `content` and `elsewhere` are the workspace relative to the plan's base;
`lock` and `txns` are the engine as its callers see it: `Execute`/`Executing` and
`Undo`/`Undoing` are the first and the last step of the operations that
`ApplyTransaction` models in full, and `Repair` is an undo or recover at the
command line, which knows of no proposal.

A fix observes, creates the record, stores its policy reference and goes on as a
verification: `Load`, `Observe`, three `Stage`s that move the record, `Build`,
and `Conclude`, `Policy`, `Report`, three store updates. An apply is `Load`,
`Observe`, `Pending`, `Issue`, `Applying`, `Consume`, the engine, `Postcheck` and
the same end; a rollback is `Load`, `Observe`, `Rolling`, `Consume`, `Undo`,
`Undone` and the same end. `Retreat`, `Refuse` and `Recheck` are the failure
paths. What a command does after `Return` is nothing: a `?` in the code is
`Return` here, and the record stays as it is. `Start` leaves
out what the chat runtime reads before the command proper, since the command
reads it again. It notes in `contested` when a command of the same kind is at work on
the proposal.

### ProcessRunner

`pc` is the place in `run_process_with_cancellation`. `Spawn`, `Attach` (or
`AttachMissed`: the child had ended before it could join the job), `PollExited` /
`PollRunning`, `CheckCancel`, `CheckTimeout`, `Terminate`, `Wait`, `Finish` for
each stream and `Report` follow the code; `NotStarted`, `AttachFails`,
`PollFails`, `TerminateFails` and `WaitFails` are its error paths. `strategy` is
chosen once: with a job object dropping the guard (`DropTree`) ends what is in
it, with a direct child it does nothing. The two drain threads are actors of
their own (`Drain`, `DrainEnds`, `DrainFails`) on `written`, `drained` and `tail`;
`Push` is `BoundedTail::push`. Byte n of a stream is the number n, so a tail shows
which bytes it kept. The child commits to a write and blocks while its pipe is
full; it may hang, fork once (`descendant`, in the job or not) and fail to die.
`Finish` may come at any time while the thread still reads, which is
`OUTPUT_DRAIN_TIMEOUT`.

### Worktree

`lease`, `dir` and `registered` are the disk: the descriptor (absent, created but
not yet written, readable), the directory (absent, empty, with content) and Git's
list. `source` holds a version for each of the three aspects the code reads
separately: tree, HEAD and refs. A run goes through `ReadTree`, `ReadHead`,
`ReadRefs`, `BeforeCreate`, `CreateLease`, `WriteLease`, `Reserve`,
`AddWorktree`, `Setup`, `Apply`, `Build`; a verify run then through `Capture` and
`CaptureDiff`, an edit run through `BeforeCleanup`; then both through
`cleanup_lease` (`List`, `Remove` or `Inspect` and `RemoveDir`, `CheckGone`,
`Relist`, `RemoveLease`), `RereadTree`, `RereadHead`, `RereadRefs` and `SumUp`.
`StartCleanup` is the cleanup command, which enters at `List`. A Git command that
fails, times out, is cancelled or dies with its process has each of its effects
or not (`Interrupt`). `kind` tells the two runs apart where the code does: a
failed setup is a status of a verify run and an error of an edit run, whose
cleanup needs the policy engine's consent. The operation inside an edit run is
reduced to the same `Apply` and `Build`.

### ProviderStream and AssistantStream

`prov` is the future of `OllamaProvider::stream`: its control point, the lines
that have arrived, the line whose end has not, the text so far. A step runs from
one `await` to the next: the connection, a chunk of the body (any number of
lines, or a part of one), the next line, a send into the bounded channel. A line
is blank, text, the final object with or without text, or does not parse.
`AssistantStream` owns the future: `Engine` polls it, receives its event,
validates the number (`validation`), forwards it to the consumer's channel with a
deadline, and between prompts prepares, decides and runs the next. The provider
stands still while an event is forwarded, as both run in one task. The consumer
(`Receive`, `Leave`) and the token (`Cancel`) act at any time.

### Grounding, ChatRuntime and ChatTransport

`Grounding` holds the manifest of what was injected and the two validators. A
hash is the content it names; the words of an answer are reduced to the features
the validators look for. `ChatRuntime` is `execute_chat`: validation of the
request, authorization, each reference read in two looks, the byte, turn and
character budgets, the history that a restricted scope excludes (stated as the set
of the turns that `bounded_history` keeps), the route
(model, document fact, local command, edit command), the answer, which may cite
anything, its validation, the second look at every snapshot, the chunks of text
and the terminal event. `Change` saves, deletes or creates a file between any two
steps. `ChatTransport` adds the process and its pipe, the client's event loop
(`Receive` with the checks of every event, `Close`), the cancel line, the timeout
and the kill after the grace period.

### ChatSession and EditReview

Both model one JavaScript thread in which every `await` lets others run.
`ChatSession`: `StartTurn` reads the epoch and the session, `RunChat` is the
runtime, `Record` writes back what was read before it, `TurnEnds` hands the turn
to the editor, which keeps it across reloads. A clear is two awaited updates, of
which either may fail. `memento` answers from memory, `disk` is what a reload
finds. `EditReview`: a command finds or fetches its artifact, opens a modal and
starts the runtime; `record` is the proposal as the runtime sees it; events reach
the shared artifact one at a time (`ObserveEvent`, `Accepted`), also events of
older commands.

### PolicyRules and PolicyEngine

Checks are listed in the order of the code and the first one that fails gives the
denial (`FirstError`, `Decide`). `w` is the file system the engine looks at itself, `r` what the
caller observed of the repository. `PolicyEngine` runs `check`: the evaluation,
the consumption of the grant, the audit event, its listing and rotation; then the
caller revalidates (`Unchanged`) and executes. An evaluation and a revalidation are
one step each, where the code looks at the paths of a request one by one
(`engine.rs:82`). What a process rests on is revalidated with the rest: its
directory below the worktree, its wrapper in both repositories, or the installed tool. The user edits and commits, a
caller crashes and a call fails between any two of these. The store is used by
what it promises; `approval_store` shows that its files keep the promise.

### RagIndex

A build recovers what earlier ones left, takes the inventory, reads each
candidate in four steps (`Look`, `OpenFile`, `ReadRest`, `VerifyRead`), writes
documents and chunks, renames its staging directory to a generation, writes a
temporary pointer and renames it to `CURRENT`. `Interrupt` kills it at any step,
`Damage` truncates a chunk file, `Touch` edits a source or puts a link in its
place. The recovery of what earlier builds left is one step, where the code goes
through the entries one by one. A fingerprint is length, modification time and attributes; a change that
keeps all three is invisible to the code and left out.

### EditPlan

A text is a sequence of bytes; CR, LF and what the secret scan finds are bytes of
their own. Trusted files are read and compared with HEAD, the intent names them,
the model answers (well-formed or not, once corrected), each file's operations
are validated against the text read now, applied from the last to the first, and
the plan is stored. The reference definition `Assembled` puts the text together
from left to right.

### DocumentFacts

`ScanJson`, `ScanIndentedAssignments` and `ParseToml` are folds over a text, as the scanners of
`grounding.rs` are loops. `FactIsExact` compares them with paths that are read
off the structure of the text.

### JavaEdits

A text is the sequence of its member references, each of a kind: what the index
and the catalogue of rules make of it. A verification indexes, reads again the
files it will edit, proposes, reads the clean state and HEAD, checks the commit
out, proposes again, materializes, applies, reads back, builds, captures what Git
sees, and reads tree and HEAD once more. The second proposal reads the worktree's
index and snapshots in one step, where the code goes file by file
(`java_edit_worktree.rs:465`); what it reads is read once more, by hash, before it
is materialized. The user writes and commits in the source
and the build writes in the worktree, between any two steps.

## Runs

| Run | Instance | Shows |
|---|---|---|
| `apply_concurrent` | 2 processes, 2 transactions over overlapping files, 2 crashes, at most 9 events per journal | `JournalsValid`, `OutcomeIsTrue`, `PartialIsRecoverable` |
| `apply_sync` | 1 process, 2 transactions, 1 edit, 1 crash, 1 I/O error, directory syncs that fail after the rename | `ImplementsPlannedChange` |
| `recovery_and_stream` | 1 process, 1 transaction outside Git, 2 crashes, 2 I/O errors, fairness; apart from it, 13 kinds of assistant command, both channels of capacity 1, 3 chunks, 2 pieces of output, 1 late delivery, fairness | `RecoveryIsSound`, `RecoveryConverges`, `WriteAhead`; `StreamIsSound`, `CompletedIsWhole`, `Answered` |
| `approval_store` | 2 callers, 1 grant, drift in each field, 1 crash, 1 I/O error, expiry | `ConsumedIsBound`, `ImplementsOneShot` |
| `edit_commands` | 2 processes, fairness, and one of: 5 commands on 2 proposals for the same file; 4 on 1, two of a kind at once; 4 on 1, its expiry and 1 cancellation | `StateIsLock`, `AppliedWasVerified`, `Settles` |
| `edit_environment` | 2 processes, 1 proposal, 4 commands, at most 3 of: two edits, a repair, a crash, an I/O error, a cancellation; generation bound within reach | `ReportsTrue`, `NoDeadEnd`, `VerifiedIsRestored` |
| `process_runner` | one call on either platform, 3 bytes on stdout and 1 on stderr, pipe, limit and chunk of 2, one descendant, fairness | `TailIsExact`, `SuccessIsComplete`, `ReportIsHonest`, `Returns` |
| `worktree` | 1 run of either kind, 2 cleanup commands, 1 crash, 2 failing calls, cancellation, 1 change to the source, fairness | `WorktreeAccounted`, `RemovesOnlyRegistered`, `DriftRefused`, `CleansUp` |
| `chat_request` | 16 requests, 2 files of 2 versions, 1 change, pipe of capacity 1, a consumer that may throw, fairness | `GroundedInScope`, `SettledAsDecided`, `AnswerNotStale`, `CancelHonoured`, `Settles` |
| `components` | the parts of `MCComponents`, one at a time | `StoreIsSaved`, `ClearedIsNotSent`, `UserDecides`, `ExecutedIsAuthorized`, `AuthorizedIsCurrent`, `IndexIsSound`, `PlanIsFaithful`, `FactIsExact`, `EditsAreVerified` |

Some properties are conjunctions, so that one name says what a component owes:

| Property | Parts |
|---|---|
| `OutcomeIsTrue` | `OutcomeHolds` (what is reported of the files), `OutcomeJournalled` (and of the journal) |
| `RecoveryIsSound` | `ChangesAccounted`, `FailsOnlyForCause` |
| `NoDeadEnd` | `NotStranded`, `RollbackUsable` |
| `WorktreeAccounted` | types, `LeaseCovers`, `CleanedIsGone`, `CancelledNeverPasses` |
| `StreamIsSound` | types and channel bounds, `StreamIsWhole`, `NeverRefused`, `CancelledForCause` |
| `GroundedInScope` | types and budgets, `AnswerIsGrounded`, `ScopeKept` |
| `SettledAsDecided` | `ResolvedIsWhole`, `NoProtocolError` |
| `StoreIsSaved` | types and store limits, `NothingUnsaved` |
| `UserDecides` | types, `ConfirmedByUser`, `KnownTransactionCommitted` |
| `ExecutedIsAuthorized` | types, `OneExecutionPerGrant`, `OriginalNeedsGrant`, `ConfinedToLease`, `ExecutedIsAudited` |
| `IndexIsSound` | types, `CurrentIsPublished`, `OnlyStableText`, `SearchIsWhole`, `BuildFailsOnlyForCause` |
| `PlanIsFaithful` | types, `ProposedAsPlanned`, `ConfinedToIntent` |
| `EditsAreVerified` | types, `VerifiedAsAnalysed` |

The types of the file engine, the approval store, the edit lifecycle and the
process runner, and `ForeignContentKept`, `SingleAnswer` and `JobIsEmpty`, are
theorems and are in no run.

Two runs show that the code does something else than its documentation says:

* `apply_sync_fault`: an event whose directory sync fails is on disk, and its
  sequence number is used again: the journal is invalid from then on.
* `edit_unchecked`: of two applies of one proposal at once, the one whose approval
  fails sets the record to `verified` without a look at the snapshots, while the
  other has written them (`FailureIsChecked`; `apply.rs:116`, `apply.rs:137`;
  `docs/chat-edits.md:206`).

### What the passing runs leave out

These are changes to the constants of a run under which a property fails, or
facts that the model takes from the code as they are.

* Nothing keeps a command from being run twice at once on a proposal, and the state
  graph accepts a transition to the state a record already has. `contested` is the
  history of the proposals on which that happened (`Contends`). The applies share
  the record's state, so what rests on it is promised of the other proposals only:
  `StateIsLock`, `VerifiedIsRestored`, `NoDeadEnd`, that a proposal is written only
  while its record says `applying` (second half of `AppliedWasVerified`: if the
  `authorize` of one apply fails, `apply.rs:129`, the record is `verified` or even
  `discarded` when the other writes) and that `rolled_back` is said of the
  reported transaction (second half of `ReportsTrue`). What does not rest on it
  holds of every proposal: only what was proven is written, a successful report
  names a transaction of the proposal that committed, and `Settles`. `MayContend`
  bounds the proposals on which a run lets it happen.
* `NotStranded` and `Settles` have one exception, `Overtaken`. A rollback whose
  files the engine has restored checks the snapshots and the repository after that, and leaves with
  `?` when the check fails or is cancelled: the record stays in `rolling_back` for
  good (`rollback.rs:134`; `docs/chat-edits.md:202`). It needs no cancellation,
  edit or fault: `edit_commands` without the exception finds the five commands
  fix p1, fix p2, apply p1, rollback p1 and, between the engine's rollback of p1
  and the check, apply p2, a proposal for the same file. `LeftBehind` also says
  that nobody is at work on the proposal any more.
* `apply_concurrent` with one process and one transaction outside Git
  (`Requests <- MCOptionalRequests`), one crash and one I/O error:
  `PartialIsRecoverable` fails. An undo whose first event
  cannot be written restores files all the same, and a crash then leaves a mixed
  workspace whose journal says committed and is not listed as recoverable
  (`apply_transaction.rs:1585`). A second I/O error does what the crash does: the
  failed undo has no legal way to `rollback_failed` either, since no
  `rollback_started` precedes it (`apply_transaction.rs:890`), and an inspection
  does not list what is committed (`apply_transaction.rs:1182`;
  `docs/apply-transaction.md:148`).
* `recovery_and_stream` with `GitRepo = TRUE`, `Requests <- MCCleanRequests` and one
  crash: `FailsOnlyForCause` fails. A crash between staging and rename leaves a
  temporary that Git reports, and every recovery ends `rollback_failed`
  (`apply_transaction.rs:2181`).
* `NoDeadEnd` is about records that have room left in the store (`Roomy`). With
  `MaxPolicy` within reach (8, say, where the code has 512) `record_policy` refuses
  the reference after the commit, so a record says `rollback_available` and has no
  apply report to roll back with (`apply.rs:288`); with the bound on generations
  reached, a verification leaves its record in `build_running`.
* After a clear, the history sent is cut at the last turn of another epoch. A turn
  that failed carries no epoch, so failed turns after that one are still sent
  (`participant.ts:702`; `docs/grounding.md:95`). `ClearedIsNotSent` therefore
  speaks of the runs and repository states of the session. For the
  same reason it does not speak of turns: if the update that makes the new epoch
  durable fails and the window is reloaded, the next clear uses that number again,
  and turns of the lost epoch count as turns of the new one.
* The HEAD in a policy request is observed once by the caller; revalidation
  evaluates the rules again with that HEAD and looks at the paths anew
  (`engine.rs:72`). `AuthorizedIsCurrent` therefore speaks of the paths.
* Keys of objects in JSON arrays and of YAML list items are given the path of the
  enclosing object (`docs/grounding.md:127`). `FactIsExact` allows a citation
  inside a list.
* An intent's expiry is checked when it is made; a secret that appears only across
  the boundary of a replacement is not looked for (`validation.rs:341`).
* A Java verification that ends with no changes may speak of a text older than the
  clean commit it checked; `VerifiedAsAnalysed` is about verifications with edits.

### Bounds

Two transactions with overlapping files suffice for every order of apply, undo
and recover between two journals, and two files per transaction for every mixed
state; a third path stands for the rest of the worktree. A journal of five events
is a commit, seven a commit and its undo, nine one more failed rollback. One
crash or error is enough to enter every failure path, two to fail inside the
recovery of the first. For a grant two callers are enough, since the claim has one winner
and all losers are alike. In the lifecycle four commands on one proposal are fix,
apply, rollback and one more command, verify, discard or a second apply, in any
order and overlap; five on two proposals are two fixes, an apply and a rollback of
one, and an apply of the other between any two of their steps.
`MaxDisturbances` bounds the environment's steps together, since three of them
(an edit, its effect on a failure path, a crash or error inside that path) are
what a failure path can meet before it ends. `MaxPolicy` is 512 in the code and
`MaxGenerations` 4096; the latter
is 16 in `edit_environment`, so that four commands reach it (fix, apply and
rollback write 8 to 12 generations).
A runner's call is alone: calls share nothing. Three bytes against a pipe and a
limit of two block the writer once, overflow the tail once and make one chunk as
large as the limit; a chunk larger than the limit is covered by the proof. One
descendant is enough, since what matters is whether any writer is left. Worktree
runs share nothing but the source, which no run writes, so one is enough; two
cleanups on it meet in every order; one crash ends the run or a cleanup, two
failing calls fail the run and then its cleanup.
For a stream, a channel of capacity 1 blocks at each event, two pieces of output
reach the limit that a third exceeds, and three chunks can end in the middle of a
line and go on. A chat request holds at most two references, so that they are of
two files or of one, with a budget that the second exceeds; one change of a file
falls before, between or after the looks at it. Two threads with three turns, two
clears and one reload meet in every order (`components` keeps the second clear and
the reload apart). Two review commands, two attempts; two callers of one grant with one
audit event kept, so that rotation removes one; two builds, two faults and two
edits, so that a build recovers from one that failed while a file changes twice
under a reader. The texts of plans, facts and Java files are all those of a small
length over the symbols the code tells apart.
Symmetry is used in runs without temporal properties of the leads-to kind only.
`edit_commands` has one, and breaks its symmetry by hand instead: of two idle
processes the first starts, and of two new proposals the first is created first.

`CHECK_DEADLOCK FALSE`: the bounds let every model come to rest, as the system
does when nobody calls it.

### Fairness

`WF` on a process's own steps says that a running operation goes on: no step of
these operations waits for another process (the engine's lock is tried once and
refused, the store's lock is held for one update and tried until a deadline).
`RecoveryConverges` also needs the operator: `SF` on starting `recover` for a
transaction that is listed as recoverable again and again. Crashes and errors
are never forced and are bounded in number; without that bound nothing would
converge. `Settles` of the edit lifecycle assumes `WF` on running commands only.

`Returns` assumes `WF` on the calling thread, on the two drain threads, and on a
child that does not hang (it finishes its write when there is room, and exits).
The clock, the caller's token and the descendant owe nothing: the property says
what happens once the deadline has passed or the token is set. It excludes a
child the operating system refuses to end, for which `child.wait()` has no
deadline. `CleansUp` assumes `WF` on a running process and `SF` on the operator's
cleanup command, and excludes a directory with content that Git does not list,
which every cleanup refuses.

`Answered` assumes `WF` on the command's task (the HTTP timeout ends a silent
server) and on a consumer that stays. `Settles` of `ChatTransport` assumes `WF` on
the client's event loop and timers, on the delivery of a kill and on the close of
the pipes, and nothing of the process, which may hang anywhere.

## Proofs

A theorem holds for every value of the constants that satisfies the assumptions
of its module: any number of processes, files, transactions, proposals, runs,
requests, crashes, errors and edits. The bounds that name a limit of the code
(`EventLimit`, `MaxPolicy`, a channel's capacity) are constants too.

| Assumption | Says |
|---|---|
| `ConstantsAssumption`, `NoneAssumption` | file engine: requests are over the paths; no manifest is `None` |
| `ApprovalAssumption`, `EngineAssumption` | approval store, policy engine: the confirmed bindings; the bounds are numbers |
| `AsksAssumption` | policy requests have the fields of `PolicyRequest` and an action of the table, and a worktree they name is one of those the leases speak of |
| `WorldAssumption` | the source of a lease is not inside its worktree, which `WorktreeManager` creates in a directory of its own (`worktree.rs:578`, `worktree.rs:933`) |
| `LifecycleAssumption`, `RecordAssumption` | edit lifecycle: the bounds are numbers; no record is `None` |
| `WorktreeAssumption`, `RunnerAssumption` | runs and cleanups have different names; limits and chunks are positive |
| `ProviderAssumption`, `AssistantAssumption` | capacities are positive; the kinds of command |
| `ChatAssumption`, `RequestsAssumption`, `TransportAssumption` | the shape of requests, texts and references; the event limit is a number |
| `ReviewAssumption`, `RagAssumption`, `JavaAssumption`, `SessionAssumption`, `PlanAssumption` | the same for the parts of `components` |
| `TextsAssumption` | texts are sequences of bytes, the operations of a plan have unsigned offsets, every path has a file or none |

Some theorems have a hypothesis besides, which is named with them: `~SyncFaults`,
`~RaceWindow`, `~GitRepo`, `~CleanActive` and `StreamFits` on
the constants, and `OneOrigin`, `OnePlan` and `OneChange` on the plans that the
transactions so far have made.

### The file engine: `ApplyTransactionProofs`

* `TypeCorrect`.
* `JournalsValidHolds` and `WriteAheadHolds`, provided no directory sync fails
  after its rename (`~SyncFaults`; `apply_sync_fault` shows that it matters).
* `ForeignContentKeptHolds`, provided no write falls between the last read of a
  target and its rename (`~RaceWindow`: there is no such atomic operation on
  files, and the code does not claim one). No run sets `RaceWindow`; of the
  other theorems only the refinement below assumes it away too.
* `ReportMatchesWorkspace`: without any hypothesis, what an operation reports of
  the files is so as long as nobody edited them (`OutcomeHolds`).
  `OutcomeIsTrueHolds` adds the journal (`OutcomeJournalled`), under `~SyncFaults`.

The first four follow from one inductive invariant, `Inv`, the conjunction of the
types, `ProcOK(p)` for every process and `RunOK(t)` for every transaction.
`RunOK` says what the disk holds: a journal only beside a manifest, the backups
the manifest names, a legal journal. It is not inductive alone: that the next
event is legal depends on the in-memory journal, hence `InSync` (it equals the
one on disk), which survives other processes' steps only because a process past
the lock is its holder; that the event names the right files depends on how far
the loops have got, hence `Applying` and `Undoing`; that a rename replaces what
the manifest expects depends on the last check, hence `Targeting`. There is one
lemma per action, and lemmas for what extends a legal journal.

What is reported follows from `Truth`, inductive relative to `Inv`: each process
is `Settled` (a report is of the transaction on disk, the lock still held) and
`Found` (what it has found or made of the workspace, at each point where it knows
something). `OutsideTheLock` is the reason why nobody else can spoil that.

`ImplementsPlannedChangeHolds` (`~RaceWindow`): the engine implements
`PlannedChange`, a specification without processes, locks, journals, crashes or
temporaries. A step of the engine is the planning of a transaction, a change of
what is on record of it, the move of one file between the two contents of a plan,
an edit, or a stutter. A record only says `committed` or `rolled_back` of
transactions that are; a file only moves forward while an application is on
record, and back while a rollback is, unless an I/O error kept `rollback_started`
from being written (the abstract `Restore` allows that after a fault; the code
goes on). `Known` is `Inv`, `Truth` and `OnCourse(p)`: where the operation of a
process is, against what is on record on disk, and what it writes next. There is
one lemma per action, on `AbstractStatus` and the one file it moves.

The remaining three are about the sequence of all transactions, and hold under
hypotheses on the plans:

* `ChangesAccountedHolds` (`~SyncFaults`, `OneOrigin`): each file has its initial
  content, or one of a transaction that is committed or can be rolled back. The
  invariant is existential, `Traced`: for each file there is a set of contents, its
  path (`Path`), which holds the initial and the present one, and of which each
  other one was written by a live transaction over one in the set. A new
  transaction extends the path of the files it writes, a rollback ends it one
  earlier. `OneOrigin` says that no transaction brings the initial content back
  and that two which write the same content write it over the same content. It
  cannot be dropped: with a to b, b to c and c to b, an undo of the second finds b
  and has nothing to do, an undo of the third then restores c, and no transaction
  that is left accounts for it.
* `PartialIsRecoverableHolds` (`~SyncFaults`, no I/O error so far, `OnePlan`: two
  transactions that write the same content to a file have one plan): a mixed
  workspace is listed as recoverable, at any moment. The same sets serve, with
  `Whole`. That an I/O error breaks it is shown above.
* `RecoveryIsSoundHolds` (`~SyncFaults`, `~GitRepo`, `OneChange`: transactions on the
  same file plan the same change of it): an undo or a recovery fails only for an
  I/O error or an edit. `Separate` says that each file is as its transactions
  found it or left it, `GoesWell` that an operation in progress has met no error.
  Under a later and different change of the same file an undo fails rightly. In
  Git it fails also when another path has changed since the snapshot, since the
  whole status is compared (`apply_transaction.rs:2181`), by a later transaction
  or by a temporary that a crash left.

### Grants and decisions: `PolicyProofs`

Of `ApprovalStore`: `TypeCorrect`, `SingleAnswerHolds` (a grant is compared
once at most) and `ConsumedIsBoundHolds` (`consumed` is answered to one caller,
for the confirmed binding, unexpired when the call began). The invariant follows
the grant: its record is in at most one place, a claim precedes the taking, and
only the process that took it is between the taking and the answer.
`StoreImplementsOneShot` is the refinement: under the mapping of `ImplementsOneShot`
the initial states of the store are initial states of `OneShotGrant`, and every
step of its files is a step of a grant or a stutter. It needs `Present` besides:
who has passed the check of the active record claims a grant that was issued.

Of `PolicyEngine`: `ExecutedIsAuthorizedHolds` and `AuthorizedIsCurrentHolds`.
Here a grant is what `OneShotGrant` promises, so that the two theorems and the
refinement together speak of the code's store. `EngineInv` says of each call
what it may rest on at its stage (`CallInv`): once answered, its event is in the
history, a consumed grant is granted and bound to what was asked, and a decision
without a grant confines the effect to the caller's lease (`ByRule`). `History`
says that no two events consumed the same grant, `Audited` that whatever was
executed is authorized and in the log, or was rotated out by `MaxEvents` newer
ones. `SameLayout` is the part of the file system that no edit changes, by which
a confinement proved at the evaluation still holds at the execution.

### Proposals: `EditLifecycleProofs`

The theorems have no hypothesis: a command may be run twice at once on any
proposal. Where two commands of a kind do disturb each other (see above), the
property itself speaks of the proposals outside `contested`, and so do the
invariants: a proposal outside it has at most one command of a kind (`Distinct`),
`contested` never shrinks, and what happens on a contested proposal cannot move
the record of another one.

`TypeCorrect` and `StateIsLockHolds`: `StateIsLock` speaks of the sections of the
commands only; to be inductive it needs what a command relies on
outside them. `Allowed` adds it: an apply that waits for its approval stands on
`approval_pending` or on a state nothing leaves, a rollback past its checks and
an apply that reports success stand in `Post`, the states after an applied
proposal, which the state graph does not lead out of (`PostClosed`). `Applied`
says the same of a recorded success, so that a later rollback may count on it.
`Distinct` says that the commands on a proposal outside `contested` are of different kinds. That no
command disturbs another is then a fact about `can_transition_to` alone, one
lemma per kind (`EndUndisturbing`, `VerifyUndisturbing`, `ApplyUndisturbing`,
`RollbackUndisturbing`), and each action has a lemma that cites it.

`ReportsTrueHolds`, `AppliedWasVerifiedHolds` and `VerifiedIsRestoredHolds` follow
from a second invariant, `Told`, inductive relative to the first: what a command
knows of its transaction, its proposal and the files at each point (`Knows`), what
a record may claim (`Recorded`), and that no two applies have a transaction in
common (`OwnTxns`). Most steps are `Mild`, that is, they touch neither files nor
transactions and carry the reports of a record over; what a `Mild` step preserves
is proved once, and only the engine's steps, edits and repairs need a proof of
their own.

`NoDeadEndHolds` is about any number of commands, edits,
cancellations and repairs, without crashes, I/O errors and bounds reached
(`Calm`). A dead end is the absence of somebody, so the invariant says who is
there (`Attended`): each record in a state that only a command leaves has a
command of the kind `Minder` names, at a place from which it moves the record on
(`Minding`), and each record that offers a rollback has its successful apply
report, or the command that is about to write it (`Reporting`). `Tended` adds what
an apply has counted and whether it is silent (`Ready`). That a minder does not
leave without doing its part uses `StateIsLock` (nobody else moves the record under it) and
`Told` (which way the engine's outcome sends it); that its updates are taken uses
`Roomy`. The single exception, `Overtaken`, is a place where the code leaves.

### Processes and worktrees: `ProcessRunnerProofs`, `WorktreeProofs`

`ProcessRunnerProofs`: `TypeCorrect`, `TailIsExactHolds`, `SuccessIsCompleteHolds`,
`ReportIsHonestHolds` and `JobIsEmptyHolds`, for any limit, chunk size, pipe
capacity and amount of output. `PushLast` is the arithmetic of
`BoundedTail::push`: the last m bytes of n, pushed k more, are the last m of
n + k, in each of its three cases. The inductive invariant adds to the properties
what the control points imply (`Control`: which pipes are read, whether the child
is reaped, why a termination was requested) and what a finished capture knows
(`Captured`: an `ok` stream is drained to the last byte and has no writer, and a
stream without a writer never gets one again).

`WorktreeProofs`: `WorktreeAccountedHolds`, for any number of runs and cleanups,
provided a cleanup names only runs whose process is gone (`~CleanActive`; the code
leaves this to the operator, see below). `Inv` says for each point of a run
what is on disk (`PreparedAt`, `CoveredAt`), for each cleanup what it has
established before it removes the lease (`CleaningAt`), and where a verdict may
stand (`VerdictAt`). Two cleanups of one run may overlap at any two points: what
the proof uses is that cleaning only ever removes (`Shrinks`).
`RemovesOnlyRegisteredHolds` and `DriftRefusedHolds` need no such hypothesis. The
latter is a leads-to without liveness: from the moment the source stays different
the run is `Doomed`, a difference is either still to be read or noted, and no step
leads out of that.

### Streams: `AssistantStreamProofs`, `ChatTransportProofs`

`AssistantStreamProofs`: `StreamIsSoundHolds` and `CompletedIsWholeHolds`, for any
capacities, limits, servers and consumers. Along the way of an event there is a part of the
invariant for each place: `Counted` (the provider's number is its amount of text),
`Contract` (what is between provider and engine is numbered without a gap, and
the terminal event is the last), `Passing` and `Delivery` (what is in the
assistant's channel or with the consumer), `Terminal` and `Gapless`. `Delivery` is
the heart of `CompletedIsWhole`: as long as nothing was lost, each event in the
channel follows its predecessor there or in what the consumer has (`Chain`), the
last one is the last the engine has counted (`ChainEnd`), so a run that is whole
for the engine arrives whole (`Arrives`).

`ChatTransportProofs`: `GroundedInScopeHolds`, `AnswerNotStaleHolds`,
`CancelHonouredHolds` and `SettledAsDecidedHolds`, for any requests, references,
files, answers and clients. The runtime's invariant `RuntimeInv` says of each
point what was read (`Reading`), answered (`Answering`), routed (`Routed`) and
admitted (`Scoped`), and `Current` what a second look has established:
`since[p]` are the contents file p has had since the answer, and the snapshots
looked at again are among them. The transport's, `StreamInv`, says that what is
in the pipe is what the client has not seen (`Numbers`, `Terminal`), until it has
found an error or killed the process. The two meet in `Goes`: a step of the
runtime keeps `RuntimeInv` and is either silent or sends the next event; that is
all the transport needs to know of it. `SettledAsDecided` also says that the
client never takes the stream for a broken one. That is so only if a
request sends fewer events than the client accepts, which is the hypothesis
`StreamFits`: an event per reference and per piece of text and at most eight
more. The code has a limit of 16 384 events (`client.ts:23`) against 64
references and an output of 4 096 tokens. `Counted` is the counting,
`Expectations` the invariant.

### Review, index, Java edits, sessions, plans: `ComponentProofs`

* `UserDecidesHolds`. `ReviewInv`: a confirmation in hand was given (`Consented`),
  whatever an event of any command or the shared artifact says of a transaction is
  of the committed one (`Told`, `Held`), and an apply and a rollback each ran once
  at most, each confirmed (`Carried`).
* `IndexIsSoundHolds`. `RagInv`: fingerprints never come back, so a text
  that was read in parts under one fingerprint is the file's (`ReadFits`); a
  build's identifier is its own; a build nobody ran across finds what it left
  (`Solo`), so it fails only for a cause.
* `EditsAreVerifiedHolds`. `JavaInv`: the report in hand is the analysis of the
  texts it was made from, at each of the two times it is made (`Analysed`).
* `StoreIsSavedHolds` and `ClearedIsNotSentHolds`. `SessionInv`: a session is used in
  one epoch only (`OfKnownTurns`), and one that an epoch may still use holds nothing
  of a clear that this epoch is not before, on disk, in the memento, in memory
  (`ClearedLists`) or in what a handler read before it awaited (`ClearedHandlers`).
  The two epochs, of the memento and of the disk, are what makes it inductive
  under a failed update and a reload.
* `PlanIsFaithfulHolds`, for any texts, files and operations. `PlanInv`: each file
  validated so far is `Faithful`, and what is stored is within the authority of the
  intent. The heart is a fact about the algorithm (`ProposedIsAssembled`): valid
  ranges that do not overlap, replaced from the last to the first, make the text
  put together from the first to the last. A fold is unrolled into the values at
  each prefix (`ReplacedInTurn`, `PutTogetherInTurn`, `PickedInTurn`; the prover
  cannot instantiate an operator, hence one lemma per fold). After k
  replacements the text is `UntouchedTo` the start of the last one; what is
  assembled after j pieces, what lies between, and what the other n - j
  replacements have made of the end, is the proposed text (`Meeting`). Instead of an
  induction theorem there is `CountingUp`, which takes a set: the numbers up to n
  for which a fact fails have no least one, since < is well-founded.

### Only model-checked

* `RecoveryConverges`, `Settles` of the edit lifecycle and of the transport, `Returns`, `CleansUp` and `Answered`: liveness
  under fairness is beyond the prover.
* `FactIsExact`: that the line scanners agree with the structure of a text is a
  statement about two recursive readings of every text, by an induction over its
  nesting.

## Not modelled

The evaluation harness (sequential benchmark runs and their reports) and the
parsing and printing of the command line. Text and syntax: tree-sitter parsing
and symbol resolution, construction of prompts, ranking of context, unified
diffs, report formatting; where a decision depends on a text, the model keeps the
cases the code tells apart. Health checks and model lists of the provider, single
requests without state. Views and settings of the extension. Path validation and
symbolic links in the file engine. `append_apply_log_index`, a secondary index
that is written after the commit and whose failure is only a warning. The Windows
rename calls, which the code uses as the rename of the other systems. The strict
build report of `git_state.rs`. Durability below the file system: what was
written and synced is there after a crash. `child.wait()` after a kill has no
deadline (`process_runner.rs:310`); `Returns` excludes a child that cannot be
ended. A cleanup that names a run still at work (`worktree.rs:836`): nothing
compares the lease's `process_id` with the living, and the documentation leaves
the choice of the run to the operator.

## Plan

1. `RecoveryIsSound` in Git, with a hypothesis on the other paths of the worktree.
2. Comparison of Git states and the strict report, as pure operators against a
   reference definition.
