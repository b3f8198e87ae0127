--------------------------- MODULE MCPolicyEngine ---------------------------
(* MCAsks is for two callers and one grant: they ask to apply a patch to    *)
(* the original workspace, under two request identifiers, and to write into *)
(* the worktree of one of the requests.  RuleAsks is for the rules.         *)
EXTENDS PolicyEngine

CONSTANTS c1, c2, g1

File1 == [number |-> 1, form |-> "normal", sensitive |-> FALSE, nested |-> FALSE]

FileEntry == [type |-> "file", content |-> "base", stamp |-> 0]
LinkEntry == [type |-> "link", content |-> None, stamp |-> 0]
DirectoryEntry == [type |-> "directory", content |-> None, stamp |-> 0]

MCWorld ==
  [root |-> "source", head |-> "base", digest |-> "base", clean |-> TRUE,
   dirs |-> {"source", "run", "module", "state", "git", "git_run", "system"}, links |-> {},
   inside |-> {<<"git_run", "git">>, <<"module", "run">>}, system |-> "system", state |-> "state", dotGit |-> "git",
   files |-> [root \in {"source", "run", "system"} |-> <<FileEntry, LinkEntry, DirectoryEntry>>],
   runs |-> [run \in {"run1", "run2"} |-> IF run = "run1" THEN "run" ELSE None],
   leases |-> [run \in {"run1"} |->
     [readable |-> TRUE, run |-> "run1", source |-> "source", path |-> "run", head |-> "base",
      workspace |-> "w", request |-> "q1"]],
   gitFiles |-> [root \in {"source", "run", "state"} |->
                   IF root = "run" THEN [gitDir |-> "git_run", commonDir |-> "git"] ELSE None]]

Boundary ==
  [root |-> "source", gitDir |-> "git", commonDir |-> "git", main |-> TRUE,
   objectsInCommon |-> TRUE, indexInGitDir |-> TRUE, head |-> "base"]

Descriptor ==
  [run |-> "run1", ownerWorkspace |-> "w", ownerRequest |-> "q1", root |-> "run",
   source |-> "source", head |-> "base", gitDir |-> "git_run", commonDir |-> "git"]

Template(id, mode, worktree, action) ==
  [id |-> id, workspace |-> "w", root |-> "source", wellFormed |-> TRUE, origin |-> "chat",
   mode |-> mode, boundary |-> Boundary, active |-> worktree, clean |-> None, digest |-> None,
   approval |-> None, action |-> action]

ApplyAction ==
  [kind |-> "apply_patch", root |-> "source", paths |-> <<File1>>, created |-> <<>>,
   wellFormed |-> TRUE, head |-> "base", diff |-> "diff", transaction |-> "tx", hash |-> "apply"]

WriteAction(root) ==
  [kind |-> "write_file", root |-> root, target |-> File1, expected |-> None,
   diff |-> "write", transaction |-> "write", hash |-> "write"]

Apply(id) == Template(id, "approved_apply", None, ApplyAction)
WorktreeWrite == Template("q1", "worktree_edit", Descriptor, WriteAction("run"))

MCAsks ==
  {<<Apply("q1"), None>>, <<Apply("q1"), g1>>, <<Apply("q2"), g1>>, <<WorktreeWrite, None>>,
   <<[WorktreeWrite EXCEPT !.origin = "unknown"], None>>}

(* Every kind of action, each as it should be and with what its rule is     *)
(* about, in every mode and under descriptors that do not belong to the     *)
(* request or do not agree with the lease, the storage or Git.              *)
Act(kind, root) ==
  [kind |-> kind, root |-> root, target |-> File1, expected |-> None, paths |-> <<File1>>,
   cwd |-> [File1 EXCEPT !.number = 3], created |-> <<>>, wellFormed |-> TRUE, recursive |-> FALSE, operation |-> "status",
   head |-> "base", run |-> "run2", controlled |-> TRUE, detached |-> TRUE, worktree |-> "run",
   executable |-> "mvn", arguments |-> {"goal", "offline"}, environment |-> "allowed",
   launch |-> "direct", installed |-> TRUE, bounded |-> TRUE, network |-> "denied",
   diff |-> "other", transaction |-> "other", hash |-> "other"]

Targets ==
  {[File1 EXCEPT !.form = f] : f \in {"outside", "root", "dots"}}
    \union {[File1 EXCEPT !.sensitive = TRUE], [File1 EXCEPT !.nested = TRUE]}
    \union {[File1 EXCEPT !.number = n] : n \in 2..4}

PlainActions == {Act(k, root) : k \in Kinds \union DOMAIN ClosedRules, root \in {"source", "run", "state"}}

OddActions ==
  {[Act(k, "run") EXCEPT !.target = t, !.paths = <<t>>, !.created = c] :
     k \in {"write_file", "create_file", "delete_file", "apply_patch", "search"},
     t \in Targets, c \in {<<>>, <<File1>>}}
  \union {[Act(k, root) EXCEPT !.wellFormed = FALSE, !.recursive = TRUE, !.operation = "unknown",
                              !.detached = FALSE, !.bounded = FALSE] :
             k \in Kinds, root \in {"source", "run"}}
  \union {[Act("run_process", "run") EXCEPT !.executable = e, !.arguments = a, !.network = n,
                                           !.environment = v, !.launch = l] :
             e \in {"mvn", "mvnw", "java", "shell", "other"},
             a \in {{"goal", "offline"}, {"goal"}, {"other_goal"}, {"install"}, {"override"},
                    {"operator"}},
             n \in {"denied", "declared", "undeclared"},
             v \in {"allowed", "unsorted", "other"}, l \in {"direct", "shell"}}
  \union {[Act("run_process", root) EXCEPT !.executable = e, !.target = t, !.cwd.number = n,
                                         !.installed = i] :
             root \in {"run", "module"}, e \in {"mvn", "mvnw"}, t \in {File1} \union Targets,
             n \in 3..4, i \in BOOLEAN}

Descriptors ==
  {None, Descriptor, [Descriptor EXCEPT !.ownerRequest = "q2"], [Descriptor EXCEPT !.head = "old"],
   [Descriptor EXCEPT !.root = "state"], [Descriptor EXCEPT !.root = "source"],
   [Descriptor EXCEPT !.gitDir = "git"], [Descriptor EXCEPT !.source = "state"]}

Cli(id, mode, d, a) == <<[Template(id, mode, d, a) EXCEPT !.origin = "cli"], None>>

RuleAsks ==
  {Cli(id, mode, d, a) :
     id \in {"q1", "q2"}, mode \in {"read_only", "worktree_edit", "approved_apply"},
     d \in Descriptors, a \in PlainActions}
  \union {Cli("q1", "worktree_edit", Descriptor, a) : a \in OddActions}

MCContents == {"base", "edited"}

(* Every binding a request of MCAsks can  have.                         *)
MCBindings ==
  {[request |-> <<q>>, workspace |-> <<"w">>, mode |-> <<"approved_apply">>, head |-> <<h>>,
    tree |-> <<d>>, diff |-> <<"diff">>, files |-> <<f>>, transaction |-> <<"tx">>,
    actions |-> <<"apply">>] :
      q \in {"q1", "q2"}, h \in {"base", "moved"}, d \in MCContents, f \in MCContents}

=============================================================================
