---------------------------- MODULE PolicyEngine ----------------------------
(***************************************************************************)
(* The policy engine at work (crates/opticcode-policy/src/engine.rs and    *)
(* audit.rs): processes that share the approval store, the audit log and   *)
(* the workspace.  `check` evaluates the rules, consumes the grant the     *)
(* request carries, and records the decision before it reports it; the     *)
(* caller (PolicySession::authorize of the edit runtime) then revalidates  *)
(* and executes.  Between any two of these steps the user may edit the     *)
(* workspace and another process may run.                                  *)
(***************************************************************************)
EXTENDS PolicyRules, FiniteSets

CONSTANTS
  MaxEvents,   \* MAX_AUDIT_EVENTS
  Asks,        \* <<what a caller asks for before it observes the repository, its grant or None>>
  World0,      \* the file system and repository at the start
  Contents,    \* contents of the workspace's file
  MaxChanges,  \* bound on changes of the workspace
  MaxChecks,   \* bound on audited calls of check
  MaxFailures  \* bound on crashes and I/O errors together

ASSUME EngineAssumption ==
  MaxEvents \in Nat \ {0} /\ {MaxChanges, MaxChecks, MaxFailures} \subseteq Nat

(* A request has all the fields of PolicyRequest; its action is one of the  *)
(* table, its worktree, if it names one, one the leases know of.            *)
RequestFields ==
  {"id", "workspace", "root", "wellFormed", "origin", "mode", "boundary", "active", "clean",
   "digest", "approval", "action"}

WellShaped(r) ==
  /\ r.action.kind \in Kinds \union DOMAIN ClosedRules
  /\ r.action.kind = "apply_patch" => {r.action.paths, r.action.created} \subseteq Seq(PathNames)
  /\ r.active # None => r.active.run \in DOMAIN World0.leases

ASSUME AsksAssumption ==
  \A ask \in Asks :
    /\ RequestFields \subseteq DOMAIN ask[1] /\ WellShaped(ask[1])
    /\ ask[2] \in Grants \union {None}

(* A worktree is created in a new directory (WorktreeManager), so the       *)
(* source of its lease is neither that directory nor inside it.             *)
WorldFields ==
  {"root", "head", "digest", "clean", "dirs", "links", "inside", "state", "dotGit", "files",
   "runs", "leases", "gitFiles", "system"}

ASSUME WorldAssumption ==
  /\ WorldFields \subseteq DOMAIN World0 /\ None \notin World0.dirs
  /\ \A run \in DOMAIN World0.leases :
       LET lease == World0.leases[run] IN
       lease # None => ~Under(World0, lease.source, lease.path)

VARIABLES
  world,     \* the file system and the repository, as PolicyRules sees them
  changes,   \* how often the user changed them
  eng,       \* each caller's stage and local variables
  log,       \* the audit event files, by identifier
  events,    \* history: every event ever recorded, in the order of identifiers
  executed,  \* history: the calls that went on to execute
  status, bound,   \* the grants, as OneShotGrant describes them
  failures   \* crashes and I/O errors so far

grantVars == <<status, bound>>
engineVars == <<world, changes, eng, log, events, executed, grantVars, failures>>

(* The approval store, by what it promises: MCApprovalStore shows that the  *)
(* files of approval.rs implement it.                                       *)
Grant == INSTANCE OneShotGrant WITH NoBinding <- None

Resting == [stage |-> "idle", req |-> None, paths |-> <<>>, rule |-> None, decision |-> None,
            approval |-> "none", event |-> 0, listed |-> {}]

EngineInit ==
  /\ Grant!Init
  /\ failures = 0
  /\ world = World0
  /\ changes = 0
  /\ eng = [c \in Callers |-> Resting]
  /\ log = {}
  /\ events = <<>>
  /\ executed = {}

Become(c, e) == eng' = [eng EXCEPT ![c] = e]
At(c, stage) == eng[c].stage = stage
Move(c, stage) == Become(c, [eng[c] EXCEPT !.stage = stage])
Stop(c) == Become(c, Resting)
Failure == failures < MaxFailures /\ failures' = failures + 1

-----------------------------------------------------------------------------
(* observe_repository and PolicySession::request: HEAD, cleanliness and     *)
(* digest are read once, and the request carries them from then on.         *)
Observed(t, g) ==
  [t EXCEPT !.boundary.head = world.head, !.clean = world.clean, !.digest = world.digest,
            !.approval = g]

Observe(c, ask) ==
  /\ At(c, "idle")
  /\ Len(events) < MaxChecks
  /\ Become(c, [Resting EXCEPT !.stage = "observed", !.req = Observed(ask[1], ask[2])])
  /\ UNCHANGED <<grantVars, failures, world, changes, log, events, executed>>

(* approval_binding: the observed state and the content of every path.      *)
Binding(req, paths) ==
  [request |-> <<req.id>>, workspace |-> <<req.workspace>>, mode |-> <<req.mode>>,
   head |-> <<IF req.boundary = None THEN "no-head" ELSE req.boundary.head>>,
   tree |-> <<req.digest>>,
   diff |-> <<req.action.diff>>,
   files |-> [i \in DOMAIN paths |-> paths[i].found.content],
   transaction |-> <<req.action.transaction>>,
   actions |-> <<req.action.hash>>]

NeedsApproval(e) == e.decision.kind = "require_approval"

(* issue_approval, after the user confirmed: only for a request that        *)
(* carries no grant, and only for a decision that asks for one.             *)
IssueApproval(c, g) ==
  LET req == eng[c].req
  IN /\ At(c, "observed")
     /\ req.approval = None
     /\ RequestError(req, world) = "none"
     /\ \E evaluation \in {Evaluate(req, world)} :
          /\ NeedsApproval(evaluation)
          /\ Grant!Issue(g)
          /\ bound'[g] = Binding(req, evaluation.paths)
     /\ Stop(c)
     /\ UNCHANGED <<failures, world, changes, log, events, executed>>

(* The decided call becomes an audit event.  Its identifier is minted at    *)
(* once: it orders the files, and a process may be slow to create its own.  *)
IsAllowed(e) == e.decision.kind = "allow"

EventOf(e) ==
  [rule |-> e.decision.rule, approval |-> e.approval, grant |-> e.req.approval,
   result |-> IF IsAllowed(e) THEN "authorized" ELSE "blocked"]

Decided(c, e) ==
  /\ Len(events) < MaxChecks
  /\ events' = Append(events, EventOf(e))
  /\ Become(c, [e EXCEPT !.stage = "create", !.event = Len(events) + 1])

Evaluated(e, evaluation) ==
  [e EXCEPT !.paths = evaluation.paths, !.decision = evaluation.decision,
            !.rule = evaluation.decision.rule]

(* check, up to the consumption of the grant.                               *)
Check(c) ==
  LET req == eng[c].req
      granted == req.approval # None
  IN /\ At(c, "observed")
     /\ IF RequestError(req, world) # "none"
        THEN Stop(c) /\ UNCHANGED events
        ELSE \E evaluated \in {Evaluated(eng[c], Evaluate(req, world))} :
               \/ /\ ~(NeedsApproval(evaluated) /\ granted)
                  /\ Decided(c, [evaluated EXCEPT !.approval = IF granted THEN "present" ELSE "none"])
               \/ /\ NeedsApproval(evaluated) /\ granted
                  /\ Become(c, [evaluated EXCEPT !.stage = "consuming"])
                  /\ UNCHANGED events
     /\ UNCHANGED <<grantVars, failures, world, changes, log, executed>>

(* The outcome of ApprovalStore::consume becomes the decision               *)
(* (apply_approval_failure).                                                *)
Approved(c) ==
  Decided(c, [eng[c] EXCEPT !.decision = Allowed("approval.one_shot"), !.approval = "consumed"])
Refused(c, rule) == Decided(c, [eng[c] EXCEPT !.decision = Denied(rule), !.approval = "invalid"])

(* ApprovalStore::consume: spent whatever the answer.  A grant may have     *)
(* expired even when its binding matches; an I/O error loses it.            *)
ConsumeGrant(c) ==
  LET g == eng[c].req.approval
      observed == Binding(eng[c].req, eng[c].paths)
  IN /\ At(c, "consuming")
     /\ \/ /\ bound[g] = observed
           /\ Grant!Spend(g, "granted")
           /\ Approved(c)
           /\ UNCHANGED failures
        \/ /\ Grant!Spend(g, "refused")                \* drift or expiry
           /\ Refused(c, "approval.drift")
           /\ UNCHANGED failures
        \/ /\ Failure
           /\ Grant!Spend(g, "lost")
           /\ Refused(c, "approval.invalid")
        \/ /\ status[g] # "available"
           /\ Refused(c, IF status[g] = "unissued" THEN "approval.missing" ELSE "approval.reused")
           /\ UNCHANGED <<grantVars, failures>>
     /\ UNCHANGED <<world, changes, log, executed>>

-----------------------------------------------------------------------------
(* Mutant: a record that cannot be written does not stop the action.        *)
AuditBestEffort(c) ==
  /\ At(c, "create")
  /\ \/ /\ log' = log \union {eng[c].event}
        /\ Move(c, "list")
        /\ UNCHANGED failures
     \/ /\ Failure
        /\ Move(c, "decided")
        /\ UNCHANGED log
  /\ UNCHANGED <<grantVars, world, changes, events, executed>>

(* AuditStore::record; a failed create makes check return a storage error.  *)
CreateEvent(c) ==
  /\ At(c, "create")
  /\ \/ /\ log' = log \union {eng[c].event}
        /\ Move(c, "list")
        /\ UNCHANGED failures
     \/ /\ Failure
        /\ Stop(c)
        /\ UNCHANGED log
  /\ UNCHANGED <<grantVars, world, changes, events, executed>>

(* rotate_to_limits: the oldest records beyond the limit, of those listed.  *)
Excess(listed) == {e \in listed : Cardinality({f \in listed : f > e}) >= MaxEvents}

ListEvents(c) ==
  /\ At(c, "list")
  /\ Become(c, [eng[c] EXCEPT !.stage = "rotate", !.listed = Excess(log)])
  /\ UNCHANGED <<grantVars, failures, world, changes, log, events, executed>>

(* One file is removed at a time, oldest first; one that another process    *)
(* removed is not an error.                                                 *)
Rotate(c) ==
  LET oldest == CHOOSE e \in eng[c].listed : \A f \in eng[c].listed : e <= f
  IN /\ At(c, "rotate")
     /\ \/ /\ eng[c].listed = {}
           /\ Move(c, "decided")
           /\ UNCHANGED <<log, failures>>
        \/ /\ eng[c].listed # {}
           /\ log' = log \ {oldest}
           /\ Become(c, [eng[c] EXCEPT !.listed = @ \ {oldest}])
           /\ UNCHANGED failures
        \/ /\ eng[c].listed # {} /\ Failure
           /\ Stop(c)
           /\ UNCHANGED log
     /\ UNCHANGED <<grantVars, world, changes, events, executed>>

-----------------------------------------------------------------------------
(* Mutant: the paths are looked at again, their fingerprints are not.       *)
PathsStillAllowed(e) ==
  RequestError(e.req, world) = "none" /\ Evaluate(e.req, world).decision.rule = e.rule

(* PolicyPreflight::revalidate: the same request, evaluated again, must     *)
(* meet the same rule and find the same paths.                              *)
Unchanged(e) ==
  /\ RequestError(e.req, world) = "none"
  /\ \E fresh \in {Evaluate(e.req, world)} :
       fresh.decision.rule = e.rule /\ fresh.paths = e.paths
  /\ \A i \in DOMAIN e.paths : StillSafe(world, e.paths[i])

(* PolicySession::authorize: a blocked action ends here, and so does one    *)
(* whose inputs drifted.                                                    *)
Revalidate(c) ==
  /\ At(c, "decided")
  /\ IF IsAllowed(eng[c]) /\ Unchanged(eng[c]) THEN Move(c, "authorized") ELSE Stop(c)
  /\ UNCHANGED <<grantVars, failures, world, changes, log, events, executed>>

Execute(c) ==
  /\ At(c, "authorized")
  /\ executed' = executed \union {eng[c].event}
  /\ Stop(c)
  /\ UNCHANGED <<grantVars, failures, world, changes, log, events>>

-----------------------------------------------------------------------------
(* The user edits the file of the workspace, or commits or checks out.      *)
EditFile(content) ==
  /\ changes < MaxChanges
  /\ changes' = changes + 1
  /\ world' = [world EXCEPT !.files[world.root][1].content = content,
                            !.files[world.root][1].stamp = changes + 1,
                            !.digest = content,
                            !.clean = content = World0.digest]
  /\ content # world.digest
  /\ UNCHANGED <<grantVars, failures, eng, log, events, executed>>

MoveHead ==
  /\ changes < MaxChanges
  /\ changes' = changes + 1
  /\ world' = [world EXCEPT !.head = "moved"]
  /\ world.head # "moved"
  /\ UNCHANGED <<grantVars, failures, eng, log, events, executed>>

(* A caller dies at any point; inside consume, the grant it claimed is lost. *)
EngineCrash(c) ==
  /\ ~At(c, "idle")
  /\ Failure
  /\ Stop(c)
  /\ \/ UNCHANGED grantVars
     \/ At(c, "consuming") /\ Grant!Spend(eng[c].req.approval, "lost")
  /\ UNCHANGED <<world, changes, log, events, executed>>

EngineStep(c) ==
  \/ Check(c) \/ ConsumeGrant(c) \/ CreateEvent(c) \/ ListEvents(c) \/ Rotate(c)
  \/ Revalidate(c) \/ Execute(c)

EngineNext ==
  \/ \E c \in Callers :
       \/ \E ask \in Asks : Observe(c, ask)
       \/ \E g \in Grants : IssueApproval(c, g)
       \/ EngineStep(c)
       \/ EngineCrash(c)
  \/ \E content \in Contents : EditFile(content)
  \/ MoveHead

EngineSpec == EngineInit /\ [][EngineNext]_engineVars

-----------------------------------------------------------------------------
(* Properties.                                                              *)

Stages == {"idle", "observed", "consuming", "create", "list", "rotate", "decided", "authorized"}

(* The engine's own state.                                                  *)
EngineTypeOK ==
  /\ \A c \in Callers :
       /\ eng[c].stage \in Stages
       /\ eng[c].event \in 0..Len(events)
       /\ eng[c].listed \subseteq 1..Len(events)
  /\ log \subseteq 1..Len(events)
  /\ executed \subseteq 1..Len(events)
  /\ changes \in 0..MaxChanges /\ failures \in 0..MaxFailures
  /\ status \in [Grants -> {"unissued", "available", "granted", "refused", "lost"}]
  /\ bound \in [Grants -> Bindings \union {None}]

(* An action the rules reserve for a native confirmation executes only on a *)
(* grant of its own: the call consumed it, and however callers race, crash  *)
(* and retry, no other execution rests on the same grant.                   *)
OneExecutionPerGrant ==
  /\ \A e \in executed :
       events[e].rule = "approval.one_shot" =>
         events[e].approval = "consumed" /\ status[events[e].grant] = "granted"
  /\ \A e, f \in executed :
       e # f /\ events[e].approval = "consumed" => events[f].grant # events[e].grant
                                                   \/ events[f].approval # "consumed"

ChangesOriginal(req) ==
  /\ req.action.kind \in {"write_file", "create_file", "delete_file", "apply_patch", "git_commit",
                          "recover_transaction", "rollback_transaction"}
  /\ req.action.root = req.root

(* What changes the original workspace is never allowed by a rule alone: an *)
(* authorized call consumed a grant bound to what it saw and will do.       *)
OriginalNeedsGrant ==
  \A c \in Callers :
    At(c, "authorized") /\ ChangesOriginal(eng[c].req) =>
      /\ eng[c].approval = "consumed"
      /\ status[eng[c].req.approval] = "granted"
      /\ bound[eng[c].req.approval] = Binding(eng[c].req, eng[c].paths)

(* What runs or writes without a confirmation does so in the disposable     *)
(* worktree that was leased to that very request, for its source and at the *)
(* commit it observed: no descriptor, mode or path leads into the worktree  *)
(* of another request, into the original or out of the run's directory.     *)
ConfinedToLease ==
  \A c \in Callers :
    LET r == eng[c].req IN
    /\ At(c, "authorized") /\ eng[c].approval # "consumed"
    /\ r.action.kind \in {"write_file", "create_file", "delete_file", "apply_patch", "run_process"}
    => \E run \in DOMAIN world.leases :
         LET lease == world.leases[run] IN
         /\ lease # None
         /\ lease.request = r.id /\ lease.source = r.root /\ lease.head = r.boundary.head
         /\ world.runs[run] = lease.path /\ lease.path \in world.dirs
         /\ Under(world, r.action.root, lease.path) /\ r.action.root # r.root
         /\ \A i \in DOMAIN eng[c].paths :
              /\ eng[c].paths[i].found.type \in {"file", "directory", "missing"}
              /\ ~eng[c].paths[i].path.sensitive

(* No action runs unrecorded: the event of an authorized call is in the     *)
(* log, or rotation dropped it for MaxEvents newer ones.                    *)
ExecutedIsAudited ==
  \A e \in executed \union {eng[c].event : c \in {d \in Callers : At(d, "authorized")}} :
    /\ events[e].result = "authorized"
    /\ e \in log \/ Cardinality({f \in 1..Len(events) : f > e}) >= MaxEvents

(* When a caller is told to go ahead, every file its decision looked at is, *)
(* to the modification time, the one the rules saw, and the one the user    *)
(* confirmed where a confirmation was needed.                               *)
AuthorizedIsCurrent ==
  [][\A c \in Callers :
       At(c, "decided") /\ eng'[c].stage = "authorized" =>
         /\ \A i \in DOMAIN eng[c].paths :
              LET p == eng[c].paths[i] IN Entry(world, p.root, p.path) = p.found
         /\ eng[c].approval = "consumed" =>
              bound[eng[c].req.approval] = Binding(eng[c].req, eng[c].paths)]_engineVars

(* What executes was authorized: on a grant of its own or within its own    *)
(* lease, and never unrecorded.                                             *)
ExecutedIsAuthorized ==
  EngineTypeOK /\ OneExecutionPerGrant /\ OriginalNeedsGrant /\ ConfinedToLease /\ ExecutedIsAudited

=============================================================================
