----------------------------- MODULE PolicyRules -----------------------------
(***************************************************************************)
(* The deny-by-default rules of the policy engine (evaluate of             *)
(* crates/opticcode-policy/src/engine.rs, with the path inspection of      *)
(* paths.rs).  A request r says what its caller observed of the            *)
(* repository; w is the file system the engine itself looks at.  Checks    *)
(* are listed in order: the first one that fails gives the denial.         *)
(*   r.boundary, r.active, r.digest   None when the caller sent nothing    *)
(*   r.clean                          TRUE, FALSE or None (unobserved)     *)
(*   w.dirs, w.links   real directories, links and junctions               *)
(*   w.inside          <<child, ancestor>> pairs of directories            *)
(*   w.files           root -> path number -> entry (absent: no entry)     *)
(*   w.runs, w.leases  the run directories and their lease files           *)
(*   w.gitFiles        the .git indirection of a root                      *)
(*   w.system          where build tools are installed (/usr/bin, ...)     *)
(* The build is not the Windows one: a wrapper is launched directly.       *)
(***************************************************************************)
EXTENDS PolicyParameters, Integers, Sequences

CONSTANT MaxPaths    \* MAX_POLICY_PATHS

(* A check gives "none" or the rule that denies; of several, the first.     *)
Rule(guard, rule) == IF guard THEN rule ELSE "none"

FirstError(errors) ==
  LET hits == {i \in DOMAIN errors : errors[i] # "none"}
  IN IF hits = {} THEN "none" ELSE errors[CHOOSE i \in hits : \A j \in hits : i <= j]

Decision(kind, rule) == [kind |-> kind, rule |-> rule]
Allowed(rule) == Decision("allow", rule)
Denied(rule) == Decision("deny", rule)
ApprovalRequired(rule) == Decision("require_approval", rule)
ReadOnlyWriteDenied == "mode.read_only_write_denied"
OutsideScopeDenied == "path.outside_authorized_root"

Decide(errors, decision) ==
  LET first == FirstError(errors)
  IN IF first = "none" THEN decision ELSE Denied(first)

Elements(seq) == {seq[i] : i \in DOMAIN seq}

-----------------------------------------------------------------------------
(* Paths.  A path has a number, the form it is written in ("normal",        *)
(* "outside", "root" or "dots"), and whether its name is sensitive or it    *)
(* crosses a nested repository.  An entry has a type, a content and a       *)
(* modification stamp.                                                      *)
PathNames ==
  [number : Nat, form : {"normal", "outside", "root", "dots"}, sensitive : BOOLEAN, nested : BOOLEAN]

RootError(w, root) ==
  FirstError(<<
    Rule(root \in w.links, "path.root_reparse"),
    Rule(root \notin w.dirs, "path.root_unavailable")>>)

Entry(w, root, p) ==
  IF root \in DOMAIN w.files /\ p.number \in DOMAIN w.files[root]
  THEN w.files[root][p.number]
  ELSE [type |-> "missing", content |-> None, stamp |-> 0]

(* relative_target, reject_sensitive_path and reject_nested_repository: the *)
(* way the path is written decides.                                         *)
TargetError(p) ==
  FirstError(<<
    Rule(p.form = "outside", "path.outside_root"),
    Rule(p.form = "root", "path.root_target"),
    Rule(p.form = "dots", "path.invalid_relative")>>)

SensitivePath(p) == p.sensitive
NestedRepository(p) == p.nested

(* inspect_path, with the content the caller expects, if any.               *)
PathError(w, root, p, expectation, expected) ==
  LET e == Entry(w, root, p)
  IN FirstError(<<
       RootError(w, root),
       TargetError(p),
       Rule(SensitivePath(p), "path.sensitive"),
       Rule(NestedRepository(p), "git.nested_repository"),
       Rule(e.type = "link", "path.symlink_or_reparse"),
       Rule(e.type = "under_file", "path.invalid_component"),
       Rule(e.type = "missing" /\ expectation # "new_file", "path.not_found"),
       Rule(expectation = "file" /\ e.type # "file", "path.not_file"),
       Rule(expectation = "directory" /\ e.type # "directory", "path.not_directory"),
       Rule(expectation = "new_file" /\ e.type # "missing", "path.already_exists"),
       Rule(expected # None /\ e.type = "file" /\ e.content # expected, "path.hash_mismatch")>>)

(* PathSafetyReport: what was found, with its fingerprint.                  *)
Report(w, root, p) == [root |-> root, path |-> p, found |-> Entry(w, root, p)]

(* revalidate.                                                              *)
StillSafe(w, report) ==
  /\ PathError(w, report.root, report.path,
               IF report.found.type = "missing" THEN "new_file" ELSE "existing",
               report.found.content) = "none"
  /\ Report(w, report.root, report.path) = report

(* validate_sorted_paths, then every path of the list.                      *)
ListError(w, root, list, expectation) ==
  FirstError(<<
    Rule(\E p \in Elements(list) : p.form # "normal", "path.invalid_relative"),
    Rule(\E i \in 1..(Len(list) - 1) : list[i].number >= list[i + 1].number, "action.path_order"),
    FirstError([i \in DOMAIN list |-> PathError(w, root, list[i], expectation, None)])>>)

Reports(w, root, list) == [i \in DOMAIN list |-> Report(w, root, list[i])]

-----------------------------------------------------------------------------
(* The workspace and its disposable worktree.                               *)
Under(w, child, ancestor) == child = ancestor \/ <<child, ancestor>> \in w.inside

(* validate_repository_boundary.                                            *)
BoundaryError(r, w) ==
  LET b == r.boundary
      linked == b.gitDir # b.commonDir /\ Under(w, b.gitDir, b.commonDir)
  IN IF b = None THEN "none"
     ELSE FirstError(<<
       Rule(b.root # r.root, "git.workspace_mismatch"),
       Rule(b.main /\ (b.gitDir # b.commonDir \/ w.dotGit # b.gitDir), "git.boundary_mismatch"),
       Rule(~b.main /\ ~linked, "git.boundary_mismatch"),
       Rule(~b.objectsInCommon, "git.object_boundary_mismatch"),
       Rule(~b.indexInGitDir, "git.index_missing")>>)

(* validate_request and ensure_state_outside_workspace: these refuse the    *)
(* request itself, and nothing is audited.                                  *)
RequestError(r, w) ==
  FirstError(<<
    RootError(w, r.root),
    Rule(Under(w, w.state, r.root) \/ Under(w, r.root, w.state), "policy.state_overlap"),
    Rule(~r.wellFormed, "request.malformed"),
    Rule(r.origin = "unknown", "request.origin"),
    BoundaryError(r, w)>>)

(* validate_worktree_lease.                                                 *)
LeaseError(r, w) ==
  LET d == r.active
      lease == w.leases[d.run]
  IN FirstError(<<
       Rule(lease = None, "worktree.lease_missing"),
       Rule(lease # None /\ ~lease.readable, "worktree.lease_invalid"),
       Rule(lease # None /\ [lease EXCEPT !.readable = TRUE] #
            [readable |-> TRUE, run |-> d.run, source |-> r.root, path |-> d.root,
             head |-> d.head, workspace |-> r.workspace, request |-> r.id],
            "worktree.lease_mismatch")>>)

(* validate_git_file.                                                       *)
GitFileError(r, w) ==
  LET d == r.active
      f == w.gitFiles[d.root]
  IN FirstError(<<
       Rule(f = None, "git.worktree_file_missing"),
       Rule(f # None /\ (f.gitDir # d.gitDir \/ d.gitDir = d.commonDir
                          \/ ~Under(w, d.gitDir, d.commonDir)), "git.boundary_mismatch"),
       Rule(f # None /\ f.commonDir # d.commonDir, "git.commondir_invalid")>>)

(* validated_active_worktree, the part about the source repository.         *)
SourceError(r) ==
  FirstError(<<
    Rule(r.boundary = None, "worktree.source_state_missing"),
    Rule(r.boundary # None /\ r.boundary.head # r.active.head, "worktree.source_head_drift"),
    Rule(r.clean # TRUE, "worktree.source_dirty"),
    Rule(r.digest = None, "git.working_tree_unobserved")>>)

(* validate_active_descriptor.                                              *)
ActiveError(r, w) ==
  LET d == r.active
  IN IF d = None THEN "none"
     ELSE FirstError(<<
       Rule(d.ownerWorkspace # r.workspace \/ d.ownerRequest # r.id, "worktree.owner_mismatch"),
       Rule(d.source # r.root, "worktree.source_mismatch"),
       RootError(w, d.root),
       Rule(w.runs[d.run] # d.root, "worktree.storage_mismatch"),
       LeaseError(r, w),
       GitFileError(r, w),
       SourceError(r)>>)

ActiveRoot(r) == IF r.active = None THEN None ELSE r.active.root

(* require_read_scope: the workspace, or its validated active worktree.     *)
ScopeError(r, w, root) ==
  IF root = r.root THEN "none"
  ELSE FirstError(<<ActiveError(r, w), Rule(ActiveRoot(r) # root, "path.outside_workspace")>>)

-----------------------------------------------------------------------------
(* One operator per kind of action.                                         *)
Read(r, w, expectation, rule) ==
  LET a == r.action
      path == PathError(w, a.root, a.target, expectation, a.expected)
      scope == ScopeError(r, w, a.root)
  IN Decide(<<
       path,
       scope>>,
       Allowed(rule))

(* Search, BuildContext and GitRead, on a list of paths.                    *)
ReadList(r, w, rule) ==
  LET a == r.action
      scope == ScopeError(r, w, a.root)
      list == ListError(w, a.root, a.paths, "existing")
  IN Decide(<<
       RootError(w, a.root),
       scope,
       Rule(~a.wellFormed, "action.hash_invalid"),
       Rule(Len(a.paths) > MaxPaths, "action.path_limit"),
       list>>,
       Allowed(rule))

UseRag(r, w) ==
  LET a == r.action
  IN Decide(<<
       Rule(~a.wellFormed, "action.hash_invalid"),
       RootError(w, a.root),
       Rule(~Under(w, a.root, r.root), "rag.index_outside_workspace")>>,
       Allowed("rag.safe_index_read"))

EvaluateWrite(r, w, expectation, rule) ==
  LET a == r.action
      path == PathError(w, a.root, a.target, expectation, a.expected)
  IN Decide(<<
       path,
       ActiveError(r, w),
       Rule(r.mode = "read_only", ReadOnlyWriteDenied),
       Rule(ActiveRoot(r) # a.root, "write.original_requires_apply")>>,
       Allowed(rule))

DeleteFile(r, w) ==
  LET a == r.action
      path == PathError(w, a.root, a.target, "file", a.expected)
      scope == ScopeError(r, w, a.root)
  IN Decide(<<
       Rule(a.recursive, "delete.recursive_denied"),
       path,
       scope,
       Rule(r.mode = "read_only", ReadOnlyWriteDenied),
       Rule(a.root = r.root, "delete.original_requires_apply")>>,
       ApprovalRequired("delete.worktree_file_requires_approval"))

EvaluateApplyPatch(r, w) ==
  LET a == r.action
      existing == ListError(w, a.root, a.paths, "file")
      created == ListError(w, a.root, a.created, "new_file")
      original == a.root = r.root
  IN Decide(<<
       Rule(~a.wellFormed, "action.hash_invalid"),
       Rule(Len(a.paths) + Len(a.created) > MaxPaths, "action.path_limit"),
       RootError(w, a.root),
       ActiveError(r, w),
       existing,
       created,
       Rule(original /\ r.mode # "approved_apply", "apply.mode_required"),
       Rule(original /\ r.boundary = None, "apply.git_boundary_required"),
       Rule(original /\ r.boundary # None /\ r.boundary.head # a.head, "apply.head_mismatch"),
       Rule(original /\ r.clean # TRUE, "apply.repository_dirty"),
       Rule(original /\ r.digest = None, "git.working_tree_unobserved")>>,
       CASE original -> ApprovalRequired("apply.original_requires_approval")
         [] ~original /\ ActiveRoot(r) = a.root /\ r.mode = "worktree_edit" ->
              Allowed("apply.active_worktree")
         [] OTHER -> Denied(OutsideScopeDenied))

(* evaluate_process.  a.root is the directory it runs in, a.cwd the path of *)
(* that directory from the active worktree.  a.arguments is the set of the  *)
(* kinds of its arguments: "goal", "other_goal", "offline", "install",      *)
(* "override", "operator".                                                  *)
Wrapper(a) == a.executable \in {"mvnw", "gradlew"}
UnsafeArgument(a) == "operator" \in a.arguments
ShellExecutable(a) == a.executable = "shell"
PackageInstallGoal(a) == "install" \in a.arguments
DangerousBuildOption(a) == "override" \in a.arguments
AllowedBuildGoals(a) == "goal" \in a.arguments /\ "other_goal" \notin a.arguments

(* validate_environment_allowlist.                                          *)
EnvironmentError(a) ==
  CASE a.environment = "allowed" -> "none"
    [] a.environment = "unsorted" -> "process.environment_order"
    [] a.environment = "other" -> "process.environment_denied"

(* A wrapper must be the reviewed one: as in the source repository.         *)
WrapperError(r, w) ==
  LET a == r.action
      inWorktree == PathError(w, ActiveRoot(r), a.target, "file", None)
      inSource == PathError(w, r.root, a.target, "file", None)
  IN FirstError(<<
       inWorktree,
       inSource,
       Rule(Entry(w, ActiveRoot(r), a.target).content # Entry(w, r.root, a.target).content,
            "process.wrapper_drift"),
       Rule(a.launch # "direct", "process.wrapper_launch_invalid")>>)

(* The directory, when it is not the worktree itself.                       *)
InWorktree(r) == r.action.root = ActiveRoot(r)

CwdError(r, w) ==
  IF InWorktree(r) THEN "none" ELSE PathError(w, ActiveRoot(r), r.action.cwd, "directory", None)

(* inspect_installed_executable: a file under a system directory, named by  *)
(* an absolute path.                                                        *)
InstalledError(a, w) ==
  LET tool == PathError(w, w.system, a.target, "file", None)
  IN FirstError(<<
    Rule(~a.installed, "process.executable_untrusted"),
    tool,
    Rule(a.launch # "direct", "process.installed_launch_invalid")>>)

(* The build tool and what it is asked to do.                               *)
EvaluateBuild(a) ==
  Decide(<<
    Rule(PackageInstallGoal(a), "process.package_install_denied"),
    Rule(DangerousBuildOption(a), "process.option_denied"),
    Rule(~AllowedBuildGoals(a), "process.goal_unknown"),
    Rule(a.network = "denied" /\ "offline" \notin a.arguments, "process.offline_required")>>,
    IF a.network = "denied" THEN Allowed("process.build_offline")
    ELSE ApprovalRequired("process.build_network_requires_approval"))

EvaluateProcess(r, w) ==
  LET a == r.action
      launcher == IF Wrapper(a) THEN WrapperError(r, w) ELSE InstalledError(a, w)
  IN Decide(<<
       Rule(r.mode # "worktree_edit", ReadOnlyWriteDenied),
       ActiveError(r, w),
       Rule(r.active = None, OutsideScopeDenied),
       RootError(w, a.root),
       Rule(~Under(w, a.root, ActiveRoot(r)), OutsideScopeDenied),
       CwdError(r, w),
       Rule(~a.bounded, "process.timeout_invalid"),
       EnvironmentError(a),
       Rule(UnsafeArgument(a), "process.metacharacter_denied"),
       Rule(a.network = "undeclared", "network.undeclared"),
       Rule(ShellExecutable(a) \/ a.launch = "shell", "process.shell_denied"),
       Rule(a.executable = "java", "process.java_runtime_denied"),
       Rule(~Wrapper(a) /\ a.executable \notin {"mvn", "gradle"}, "process.executable_unknown"),
       launcher>>,
       EvaluateBuild(a))

(* validate_worktree_destination.                                           *)
DestinationError(a, w) ==
  FirstError(<<
    Rule(~a.controlled, "worktree.destination_denied"),
    Rule(w.runs[a.run] # None, "worktree.destination_exists")>>)

CreateWorktree(r, w) ==
  LET a == r.action
  IN Decide(<<
       Rule(a.root # r.root, OutsideScopeDenied),
       DestinationError(a, w),
       Rule(~a.detached, "worktree.detached_required"),
       Rule(r.mode # "worktree_edit", ReadOnlyWriteDenied),
       Rule(r.boundary = None, "worktree.git_boundary_required"),
       Rule(r.boundary # None /\ r.boundary.head # a.head, "worktree.head_mismatch"),
       Rule(r.clean # TRUE, "worktree.source_dirty"),
       Rule(r.digest = None, "git.working_tree_unobserved")>>,
       Allowed("worktree.create_disposable"))

EvaluateCleanup(r, w) ==
  LET a == r.action
      own == ActiveRoot(r) = a.worktree /\ r.mode = "worktree_edit" /\ r.active.run = a.run
  IN Decide(<<
       Rule(r.mode = "read_only", ReadOnlyWriteDenied),
       Rule(a.root # r.root, OutsideScopeDenied),
       ActiveError(r, w),
       RootError(w, a.worktree)>>,
       IF own THEN Allowed("worktree.cleanup_active")
       ELSE ApprovalRequired("worktree.recovery_requires_approval"))

GitCommit(r, w) ==
  LET a == r.action
      scope == ScopeError(r, w, a.root)
  IN Decide(<<
       Rule(~a.wellFormed, "action.hash_invalid"),
       RootError(w, a.root),
       scope,
       Rule(r.mode = "read_only", ReadOnlyWriteDenied)>>,
       ApprovalRequired("git.local_commit_requires_approval"))

(* RecoverTransaction and RollbackTransaction.                              *)
Transaction(r, rule) ==
  LET a == r.action
  IN Decide(<<
       Rule(a.root # r.root, "transaction.workspace_mismatch"),
       Rule(~a.wellFormed, "action.identifier_invalid"),
       Rule(r.mode = "read_only", ReadOnlyWriteDenied)>>,
       ApprovalRequired(rule))

(* PolicyAction: the kinds with a rule of their own, and those that are     *)
(* always denied.                                                           *)
Kinds ==
  {"read_file", "read_directory", "search", "build_context", "git_read", "use_rag", "write_file",
   "create_file", "delete_file", "apply_patch", "run_process", "create_worktree",
   "cleanup_worktree", "git_commit", "recover_transaction", "rollback_transaction"}

(* evaluate_action.  A kind the table does not know is "unknown".           *)
ClosedRules ==
  [unknown |-> "action.unknown", modify_policy |-> "policy.modification_denied",
   elevate_privileges |-> "process.elevation_denied", git_write |-> "git.generic_write_denied",
   git_push |-> "git.push_denied", network_access |-> "network.standalone_denied",
   package_install |-> "package.install_denied", publish |-> "publish.denied"]

EvaluateAction(r, w) ==
  LET kind == r.action.kind
  IN CASE kind = "read_file" -> Read(r, w, "file", "read.safe_workspace_file")
       [] kind = "read_directory" -> Read(r, w, "directory", "read.safe_workspace_directory")
       [] kind = "search" -> ReadList(r, w, "analysis.search_read_only")
       [] kind = "build_context" -> ReadList(r, w, "analysis.context_read_only")
       [] kind = "git_read" /\ r.action.operation = "unknown" -> Denied("git.read_operation_unknown")
       [] kind = "git_read" /\ r.action.operation # "unknown" -> ReadList(r, w, "git.read_allowlist")
       [] kind = "use_rag" -> UseRag(r, w)
       [] kind = "write_file" -> EvaluateWrite(r, w, "file", "write.active_worktree")
       [] kind = "create_file" -> EvaluateWrite(r, w, "new_file", "write.active_worktree_create")
       [] kind = "delete_file" -> DeleteFile(r, w)
       [] kind = "apply_patch" -> EvaluateApplyPatch(r, w)
       [] kind = "run_process" -> EvaluateProcess(r, w)
       [] kind = "create_worktree" -> CreateWorktree(r, w)
       [] kind = "cleanup_worktree" -> EvaluateCleanup(r, w)
       [] kind = "git_commit" -> GitCommit(r, w)
       [] kind = "recover_transaction" -> Transaction(r, "transaction.recovery_requires_approval")
       [] kind = "rollback_transaction" -> Transaction(r, "transaction.rollback_requires_approval")
       [] kind \in DOMAIN ClosedRules -> Denied(ClosedRules[kind])

(* What a process rests on: its directory, and its wrapper or installed     *)
(* tool.                                                                    *)
ProcessReports(r, w) ==
  LET a == r.action
      cwd == Report(w, ActiveRoot(r), a.cwd)
      tool == Report(w, w.system, a.target)
      wrapper == <<Report(w, ActiveRoot(r), a.target), Report(w, r.root, a.target)>>
  IN (IF InWorktree(r) THEN <<>> ELSE <<cwd>>) \o (IF Wrapper(a) THEN wrapper ELSE <<tool>>)

(* The paths an evaluation that does not deny leaves in its report.         *)
ReportedPaths(r, w) ==
  LET a == r.action
  IN CASE a.kind \in {"read_file", "read_directory", "write_file", "create_file", "delete_file"} ->
            <<Report(w, a.root, a.target)>>
       [] a.kind \in {"search", "build_context", "git_read"} -> Reports(w, a.root, a.paths)
       [] a.kind = "apply_patch" -> Reports(w, a.root, a.paths) \o Reports(w, a.root, a.created)
       [] a.kind = "run_process" -> ProcessReports(r, w)
       [] OTHER -> <<>>

(* evaluate.                                                                *)
Evaluate(r, w) ==
  LET decision == EvaluateAction(r, w)
  IN [decision |-> decision,
      paths |-> IF decision.kind = "deny" THEN <<>> ELSE ReportedPaths(r, w)]
=============================================================================
