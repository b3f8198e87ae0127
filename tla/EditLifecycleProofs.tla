------------------------ MODULE EditLifecycleProofs ------------------------
(* EditLifecycle: type correctness, the recorded state as the lock of a     *)
(* proposal, that reports are true, that what is applied was verified, that *)
(* a proposal back at verified has nothing left in the workspace, and that  *)
(* no proposal is left where no command takes it up, for any number of      *)
(* proposals, processes, crashes, errors, edits and cancellations.  A       *)
(* command may be run twice at once on a proposal; what that breaks is said *)
(* of the other proposals only.                                             *)
EXTENDS EditLifecycle, TLAPS

-----------------------------------------------------------------------------
(* The inductive invariant.                                                 *)

Verification == {"load", "expire", "observe", "prepare", "write", "build_start", "build",
                 "conclude", "policy", "report"}
Engine == {"consume", "refuse", "execute", "executing", "recheck", "postcheck",
           "undo", "undoing", "undone", "conclude"}

(* The places of each command.                                              *)
OpPcs(op) ==
  CASE op = "none" -> {"idle"}
    [] op = "fix" -> {"observe_fix", "create", "context_policy"} \union Verification
    [] op = "verify" -> Verification
    [] op = "diff" -> {"load", "expire"}
    [] op = "discard" -> {"discard"}
    [] op = "apply" -> {"load", "expire", "observe", "pending", "issue", "retreat", "applying",
                        "available", "policy", "report"} \union Engine
    [] OTHER -> {"load", "observe", "rolling", "consume", "refuse", "undo", "undoing",
                 "undone", "conclude", "policy", "report"}

(* What a proposal may be once a successful apply is on record.             *)
Post == {"rollback_available", "rolling_back", "rolled_back", "failed", "expired"}

(* The states a record may have while a command is at a place: Section, and *)
(* what the command relies on before its section and after it.              *)
Relied(k) ==
  CASE k.pc = "write" -> {"worktree_prepared"}
    [] k.pc = "build_start" -> {"worktree_applied"}
    [] k.pc = "build" -> {"build_running"}
    [] k.pc = "available" -> {"applied"}
    [] k.op = "apply" /\ k.pc \in Engine -> {"applying"}
    [] k.op = "rollback" /\ k.pc \in Engine -> {"rolling_back"}
    [] k.op = "apply" /\ k.pc \in {"issue", "retreat", "applying"} ->
         {"approval_pending", "expired", "discarded"}
    [] k.op \in {"fix", "verify"} /\ k.pc = "conclude" /\ k.next = "verified" -> {"build_running"}
    [] k.op = "apply" /\ k.pc \in {"policy", "report"} /\ k.ok -> Post
    [] k.op = "rollback" /\ k.pc \notin Engine \union {"load"} -> Post
    [] OTHER -> States

Allowed(k) == IF k.prop \in contested THEN States ELSE Relied(k)

(* What a command is about to record.                                       *)
Outcome(k) ==
  /\ k.pc = "conclude" =>
       CASE k.op = "apply" -> k.next \in {"verified", "failed", "applied"}
         [] k.op = "rollback" -> k.next \in {"rollback_available", "rolled_back", "failed"}
         [] OTHER -> k.next \in {"verified", "verification_failed"}
  /\ k.op = "apply" /\ k.ok =>
       k.pc \in {"conclude", "available", "policy", "report"} /\ (k.pc = "conclude" => k.next = "applied")
  /\ k.op = "apply" /\ k.pc = "conclude" /\ k.next = "applied" => k.ok

(* The command k over the store R.                                          *)
Good(k, R) ==
  /\ k.pc \in OpPcs(k.op)
  /\ k.op = "none" => k = Idle
  /\ k.op # "none" =>
       /\ k.prop \in Props /\ k.txn \in Txns
       /\ Outcome(k)
       /\ R[k.prop] = None <=> k.pc \in {"observe_fix", "create"}
       /\ R[k.prop] # None => R[k.prop].state \in Allowed(k)

Applied(p, R) ==
  R[p] # None /\ R[p].apply # None =>
    (p \notin contested /\ R[p].apply.success => R[p].state \in Post)

(* Two of a kind are on contested proposals only, and not before there is a *)
(* record.                                                                  *)
Distinct(command, R) ==
  \A c, d \in Cmds :
    /\ c # d /\ command[c].op \notin {"none", "diff", "discard"}
    /\ command[c].prop = command[d].prop
    /\ command[c].prop \notin contested \/ R[command[c].prop] = None
    => Kind(command[c].op) # Kind(command[d].op)

Inv ==
  /\ TypeOK
  /\ \A c \in Cmds : Good(cmd[c], rec)
  /\ \A p \in Props : Applied(p, rec)
  /\ Distinct(cmd, rec)

-----------------------------------------------------------------------------
(* The state graph.  None of these lemmas is about a reachable state.       *)

(* What follows an applied proposal does not lead back.                     *)
LEMMA PostClosed ==
  ASSUME NEW s \in Post, NEW n, CanTransition(s, n) PROVE n \in Post
BY DEF CanTransition, Successors, Post

(* Discarding and expiry move no record under another command.              *)
LEMMA EndUndisturbing ==
  ASSUME NEW k \in Commands, NEW s \in Allowed(k), NEW n \in {"discarded", "expired"},
         CanTransition(s, n)
  PROVE  n \in Allowed(k)
BY DEF CanTransition, Successors, Post, Allowed, Relied, States, Engine

(* Nor does a verification, but under another one.                          *)
LEMMA VerifyUndisturbing ==
  ASSUME NEW k \in Commands, Kind(k.op) # "verify", k.pc \in OpPcs(k.op),
         NEW s \in Allowed(k), NEW n, CanTransition(s, n),
         \/ n \in {"worktree_prepared", "worktree_applied", "build_running", "verification_failed"}
         \/ n = "verified" /\ s = "build_running"
  PROVE  n \in Allowed(k)
BY DEF CanTransition, Successors, Post, Allowed, Relied, States, Engine, Kind, OpPcs, Verification

LEMMA ApplyUndisturbing ==
  ASSUME NEW k \in Commands, k.op # "apply", k.pc \in OpPcs(k.op),
         NEW s \in Allowed(k), NEW n, CanTransition(s, n),
         \/ n = "approval_pending"
         \/ n \in {"applying", "verified"} /\ s \in {"approval_pending", "expired", "discarded"}
         \/ n \in {"applied", "verified", "failed"} /\ s = "applying"
         \/ n = "rollback_available" /\ s = "applied"
  PROVE  n \in Allowed(k)
BY DEF CanTransition, Successors, Post, Allowed, Relied, States, Engine, Kind, OpPcs, Verification

LEMMA RollbackUndisturbing ==
  ASSUME NEW k \in Commands, k.op # "rollback", k.pc \in OpPcs(k.op),
         NEW s \in Allowed(k), NEW n, CanTransition(s, n), s \in Post
  PROVE  n \in Allowed(k)
BY DEF CanTransition, Successors, Post, Allowed, Relied, States, Engine, Kind, OpPcs, Verification

-----------------------------------------------------------------------------
(* Steps of one command.                                                    *)

(* The rest of the invariant, that is, all but TypeOK, of the commands and  *)
(* the store after a step and the proposals contested before it.            *)
Held ==
  /\ \A c \in Cmds : Good(cmd'[c], rec')
  /\ \A p \in Props : Applied(p, rec')
  /\ Distinct(cmd', rec')

(* None is outside every set it stands for the absence of.                  *)
LEMMA RecordNotNone == ASSUME NEW r \in Records PROVE r # None
BY RecordAssumption

LEMMA IdleGood == ASSUME NEW R PROVE Idle \in Commands /\ Good(Idle, R)
BY DEF Idle, Commands, Pcs, Ops, Contents, States, Good, OpPcs

(* The command goes on as k, or returns, and leaves the store alone.        *)
LEMMA LocalStep ==
  ASSUME Inv, NEW c \in Cmds, NEW k \in Commands,
         cmd' = [cmd EXCEPT ![c] = k],
         k = Idle \/ (k.op = cmd[c].op /\ k.prop = cmd[c].prop),
         Good(k, rec), rec' = rec
  PROVE  Held /\ cmd' \in [Cmds -> Commands]
<1>1. cmd \in [Cmds -> Commands] BY DEF Inv, TypeOK
<1>2. cmd' \in [Cmds -> Commands] /\ cmd'[c] = k /\ \A d \in Cmds \ {c} : cmd'[d] = cmd[d]
  BY <1>1
<1>3. \A d \in Cmds : Good(cmd'[d], rec')
  <2>. SUFFICES ASSUME NEW d \in Cmds PROVE Good(cmd'[d], rec')
    OBVIOUS
  <2>1. CASE d = c BY <2>1, <1>2
  <2>2. CASE d # c
    <3>1. cmd'[d] = cmd[d] /\ Good(cmd[d], rec) BY <2>2, <1>2 DEF Inv
    <3>. QED BY <3>1
  <2>. QED BY <2>1, <2>2
<1>4. \A p \in Props : Applied(p, rec')
  BY DEF Inv, Applied
<1>5. Idle.op = "none" BY DEF Idle
<1>6. Distinct(cmd', rec')
  BY <1>2, <1>5 DEF Inv, Distinct, Kind
<1>. QED BY <1>2, <1>3, <1>4, <1>6 DEF Held

LEMMA Returns ==
  ASSUME Inv, NEW c \in Cmds, Return(c), rec' = rec
  PROVE  Held /\ cmd' \in [Cmds -> Commands]
BY LocalStep, IdleGood DEF Return

(* The command publishes a generation of its proposal, goes on as k or      *)
(* returns, and disturbs no other command.                                  *)
LEMMA StoreStep ==
  ASSUME Inv, NEW c \in Cmds, NEW k \in Commands, NEW r \in Records,
         cmd' = [cmd EXCEPT ![c] = k],
         k = Idle \/ (k.op = cmd[c].op /\ k.prop = cmd[c].prop),
         cmd[c].op # "none",
         rec' = [rec EXCEPT ![cmd[c].prop] = r],
         Good(k, rec'), Applied(cmd[c].prop, rec'),
         \A d \in Cmds \ {c} :
           cmd[d].op # "none" /\ cmd[d].prop = cmd[c].prop =>
             rec[cmd[c].prop] # None /\ r.state \in Allowed(cmd[d])
  PROVE  Held /\ cmd' \in [Cmds -> Commands] /\ rec' \in [Props -> Records \union {None}]
<1>1. cmd \in [Cmds -> Commands] /\ rec \in [Props -> Records \union {None}] BY DEF Inv, TypeOK
<1>2. cmd' \in [Cmds -> Commands] /\ cmd'[c] = k /\ \A d \in Cmds \ {c} : cmd'[d] = cmd[d]
  BY <1>1
<1>3. cmd[c].prop \in Props BY DEF Inv, Good
<1>4. /\ rec' \in [Props -> Records \union {None}]
      /\ rec'[cmd[c].prop] = r
      /\ \A p \in Props : p # cmd[c].prop => rec'[p] = rec[p]
  BY <1>1, <1>3
<1>5. r # None BY RecordNotNone
<1>6. ASSUME NEW d \in Cmds \ {c} PROVE Good(cmd[d], rec')
  <2>1. Good(cmd[d], rec) BY DEF Inv
  <2>2. CASE cmd[d].op = "none" BY <2>1, <2>2 DEF Good
  <2>3. CASE cmd[d].op # "none" /\ cmd[d].prop # cmd[c].prop
    BY <2>1, <2>3, <1>4 DEF Good
  <2>4. CASE cmd[d].op # "none" /\ cmd[d].prop = cmd[c].prop
    BY <2>1, <2>4, <1>4, <1>5 DEF Good
  <2>. QED BY <2>2, <2>3, <2>4
<1>7. \A d \in Cmds : Good(cmd'[d], rec')
  <2>. SUFFICES ASSUME NEW d \in Cmds PROVE Good(cmd'[d], rec')
    OBVIOUS
  <2>1. CASE d = c BY <2>1, <1>2
  <2>2. CASE d # c
    <3>1. cmd'[d] = cmd[d] /\ Good(cmd[d], rec') BY <2>2, <1>2, <1>6
    <3>. QED BY <3>1
  <2>. QED BY <2>1, <2>2
<1>8. \A p \in Props : Applied(p, rec')
  BY <1>4 DEF Inv, Applied
<1>9. Idle.op = "none" BY DEF Idle
<1>10. Distinct(cmd', rec')
  BY <1>2, <1>4, <1>5, <1>9 DEF Inv, Distinct, Kind
<1>. QED BY <1>2, <1>4, <1>7, <1>8, <1>10 DEF Held

(* The command k over a record in state n.                                  *)
Continues(k, n) ==
  /\ k.pc \in OpPcs(k.op) /\ k.pc \notin {"observe_fix", "create"}
  /\ k.txn \in Txns
  /\ Outcome(k)
  /\ n \in Allowed(k)

LEMMA StateChanged ==
  ASSUME NEW r \in Records, NEW n \in States
  PROVE  [r EXCEPT !.state = n] \in Records /\ [r EXCEPT !.state = n].state = n
         /\ [r EXCEPT !.state = n].apply = r.apply
BY DEF Records

LEMMA Numbered ==
  ASSUME NEW r \in Records
  PROVE  /\ [r EXCEPT !.generations = @ + 1] \in Records
         /\ [r EXCEPT !.generations = @ + 1].state = r.state
         /\ [r EXCEPT !.generations = @ + 1].apply = r.apply
BY DEF Records

(* A transition: what is left to show is where the command stands then, and *)
(* that the new state is one the others allow.                              *)
LEMMA TransitionStep ==
  ASSUME Inv, NEW c \in Cmds, NEW k \in Commands, NEW n \in States,
         cmd' = [cmd EXCEPT ![c] = k],
         k = Idle \/ (k.op = cmd[c].op /\ k.prop = cmd[c].prop),
         cmd[c].op # "none",
         Transition(cmd[c].prop, n),
         k = Idle \/ Continues(k, n),
         \A d \in Cmds \ {c} :
           cmd[d].op # "none" /\ cmd[d].prop = cmd[c].prop /\ CanTransition(rec[cmd[c].prop].state, n)
             => n \in Allowed(cmd[d])
  PROVE  Held /\ cmd' \in [Cmds -> Commands] /\ rec' \in [Props -> Records \union {None}]
<1>. DEFINE p == cmd[c].prop
            changed == [rec[p] EXCEPT !.state = n]
            r == [changed EXCEPT !.generations = @ + 1]
<1>1. p \in Props BY DEF Inv, Good
<1>2. rec[p] # None /\ rec[p] \in Records /\ rec \in [Props -> Records \union {None}] /\ CanTransition(rec[p].state, n)
  BY <1>1 DEF Inv, TypeOK, Transition, Readable
<1>3. r \in Records /\ r.state = n /\ r.apply = rec[p].apply
  <2>1. changed \in Records /\ changed.state = n /\ changed.apply = rec[p].apply
    BY <1>2, StateChanged
  <2>. HIDE DEF changed
  <2>. QED BY <2>1, Numbered
<1>4. rec' = [rec EXCEPT ![p] = r]
  BY DEF Transition, Publish
<1>. HIDE DEF r
<1>5. rec'[p] = r /\ r # None
  BY <1>1, <1>2, <1>3, <1>4, RecordNotNone
<1>6. Good(k, rec')
  <2>1. CASE k = Idle BY <2>1, IdleGood
  <2>2. CASE k # Idle
    BY <2>2, <1>1, <1>3, <1>5 DEF Good, Continues
  <2>. QED BY <2>1, <2>2
<1>7. Applied(p, rec')
  <2>1. Applied(p, rec) BY <1>1 DEF Inv
  <2>2. rec[p].state \in Post => n \in Post BY <1>2, PostClosed
  <2>. QED BY <2>1, <2>2, <1>2, <1>3, <1>5, RecordNotNone DEF Applied
<1>. QED BY <1>2, <1>3, <1>4, <1>6, <1>7, StoreStep

(* A running command and its record, once there is one.                     *)
LEMMA Running ==
  ASSUME Inv, NEW c \in Cmds, cmd[c].pc # "idle"
  PROVE  /\ cmd[c] \in Commands /\ cmd[c].op # "none" /\ cmd[c].op \in Ops
         /\ cmd[c].prop \in Props /\ cmd[c].txn \in Txns
         /\ cmd[c].pc \in OpPcs(cmd[c].op) /\ Outcome(cmd[c])
         /\ cmd[c].pc \notin {"observe_fix", "create"} =>
              /\ rec[cmd[c].prop] \in Records /\ rec[cmd[c].prop] # None
              /\ rec[cmd[c].prop].state \in Allowed(cmd[c])
              /\ rec[cmd[c].prop].state \in States
<1>1. cmd[c] \in Commands /\ Good(cmd[c], rec) BY DEF Inv, TypeOK
<1>2. cmd[c].op # "none" /\ cmd[c].op \in Ops BY <1>1 DEF Good, OpPcs, Commands
<1>3. cmd[c].prop \in Props BY <1>1, <1>2 DEF Good
<1>4. rec[cmd[c].prop] \in Records \union {None} BY <1>3 DEF Inv, TypeOK
<1>5. rec[cmd[c].prop] \in Records => rec[cmd[c].prop].state \in States BY DEF Records
<1>. QED BY <1>1, <1>2, <1>3, <1>4, <1>5 DEF Good

(* Moving on without touching the store.                                    *)
LEMMA Proceeds ==
  ASSUME Inv, NEW c \in Cmds, cmd[c].pc \notin {"idle", "observe_fix", "create"},
         NEW k \in Commands, cmd' = [cmd EXCEPT ![c] = k],
         k.op = cmd[c].op, k.prop = cmd[c].prop, rec' = rec,
         Continues(k, rec[cmd[c].prop].state)
  PROVE  Held /\ cmd' \in [Cmds -> Commands]
<1>1. Good(k, rec) BY Running DEF Good, Continues
<1>. QED BY <1>1, LocalStep

LEMMA PcChanged ==
  ASSUME NEW k \in Commands, NEW l \in Pcs
  PROVE  LET m == [k EXCEPT !.pc = l] IN
         /\ m \in Commands /\ m.pc = l
         /\ m.op = k.op /\ m.prop = k.prop /\ m.txn = k.txn /\ m.next = k.next /\ m.ok = k.ok
BY DEF Commands

(* Goto without touching the store.                                         *)
LEMMA Jumps ==
  ASSUME Inv, NEW c \in Cmds, cmd[c].pc \notin {"idle", "observe_fix", "create"},
         NEW l \in Pcs, Goto(c, l), rec' = rec,
         \A k \in Commands :
           k.op = cmd[c].op /\ k.prop = cmd[c].prop /\ k.txn = cmd[c].txn /\ k.next = cmd[c].next
           /\ k.ok = cmd[c].ok /\ k.pc = l => Continues(k, rec[cmd[c].prop].state)
  PROVE  Held /\ cmd' \in [Cmds -> Commands]
<1>. DEFINE k == [cmd[c] EXCEPT !.pc = l]
<1>1. cmd \in [Cmds -> Commands] BY DEF Inv, TypeOK
<1>2. cmd' = [cmd EXCEPT ![c] = k] BY <1>1 DEF Goto
<1>3. /\ k \in Commands /\ k.pc = l /\ k.op = cmd[c].op /\ k.prop = cmd[c].prop
      /\ k.txn = cmd[c].txn /\ k.next = cmd[c].next /\ k.ok = cmd[c].ok
  BY <1>1, PcChanged
<1>. HIDE DEF k
<1>. QED BY <1>2, <1>3, Proceeds

(* No other command on the proposal minds the state n.                      *)
Undisturbed(c, n) ==
  \A d \in Cmds \ {c} :
    cmd[d].op # "none" /\ cmd[d].prop = cmd[c].prop /\ CanTransition(rec[cmd[c].prop].state, n)
      => n \in Allowed(cmd[d])

(* Who else may be at work on the proposal.                                 *)
LEMMA Others ==
  ASSUME Inv, NEW c \in Cmds, cmd[c].pc \notin {"idle", "observe_fix", "create"},
         NEW d \in Cmds \ {c}, cmd[d].op # "none", cmd[d].prop = cmd[c].prop
  PROVE  /\ cmd[d] \in Commands /\ cmd[d].pc \in OpPcs(cmd[d].op)
         /\ cmd[c].prop \notin contested /\ cmd[c].op \notin {"diff", "discard"} =>
              Kind(cmd[d].op) # Kind(cmd[c].op)
         /\ rec[cmd[c].prop].state \in Allowed(cmd[d])
<1>1. cmd[d] \in Commands /\ Good(cmd[d], rec) BY DEF Inv, TypeOK
<1>2. cmd[c].op # "none" /\ rec[cmd[c].prop] # None BY Running
<1>3. cmd[c].prop \notin contested /\ cmd[c].op \notin {"diff", "discard"} =>
        Kind(cmd[d].op) # Kind(cmd[c].op)
  BY <1>2 DEF Inv, Distinct
<1>. QED BY <1>1, <1>2, <1>3 DEF Good

(* On a contested proposal there is nothing to disturb.                     *)
LEMMA ByContest ==
  ASSUME Inv, NEW c \in Cmds, cmd[c].pc \notin {"idle", "observe_fix", "create"},
         cmd[c].prop \in contested, NEW n
  PROVE  Undisturbed(c, n)
<1>1. rec[cmd[c].prop].state \in States BY Running
<1>2. CanTransition(rec[cmd[c].prop].state, n) => n \in States
  BY <1>1 DEF CanTransition, Successors, States
<1>. QED BY <1>2 DEF Undisturbed, Allowed

LEMMA ByEnd ==
  ASSUME Inv, NEW c \in Cmds, cmd[c].pc \notin {"idle", "observe_fix", "create"},
         NEW n \in {"discarded", "expired"}
  PROVE  Undisturbed(c, n)
BY Others, EndUndisturbing DEF Undisturbed

LEMMA ByVerify ==
  ASSUME Inv, NEW c \in Cmds, cmd[c].pc \notin {"idle", "observe_fix", "create"},
         cmd[c].op \in {"fix", "verify"}, NEW n,
         \/ cmd[c].prop \in contested
         \/ n \in {"worktree_prepared", "worktree_applied", "build_running", "verification_failed"}
         \/ n = "verified" /\ rec[cmd[c].prop].state = "build_running"
  PROVE  Undisturbed(c, n)
<1>1. Kind(cmd[c].op) = "verify" /\ cmd[c].op \notin {"diff", "discard"} BY DEF Kind
<1>. QED BY <1>1, ByContest, Others, VerifyUndisturbing DEF Undisturbed

LEMMA ByApply ==
  ASSUME Inv, NEW c \in Cmds, cmd[c].pc \notin {"idle", "observe_fix", "create"},
         cmd[c].op = "apply", NEW n,
         \/ cmd[c].prop \in contested
         \/ n = "approval_pending"
         \/ /\ n \in {"applying", "verified"}
            /\ rec[cmd[c].prop].state \in {"approval_pending", "expired", "discarded"}
         \/ n \in {"applied", "verified", "failed"} /\ rec[cmd[c].prop].state = "applying"
         \/ n = "rollback_available" /\ rec[cmd[c].prop].state = "applied"
  PROVE  Undisturbed(c, n)
<1>1. \A d \in Cmds : Kind(cmd[d].op) # Kind(cmd[c].op) => cmd[d].op # "apply" BY DEF Kind
<1>. QED BY <1>1, ByContest, Others, ApplyUndisturbing DEF Undisturbed

LEMMA ByRollback ==
  ASSUME Inv, NEW c \in Cmds, cmd[c].pc \notin {"idle", "observe_fix", "create"},
         cmd[c].op = "rollback", NEW n,
         cmd[c].prop \in contested \/ rec[cmd[c].prop].state \in Post
  PROVE  Undisturbed(c, n)
<1>1. \A d \in Cmds : Kind(cmd[d].op) # Kind(cmd[c].op) => cmd[d].op # "rollback" BY DEF Kind
<1>. QED BY <1>1, ByContest, Others, RollbackUndisturbing DEF Undisturbed

-----------------------------------------------------------------------------
(* The commands, action by action.                                          *)

Preserved == Held /\ cmd' \in [Cmds -> Commands] /\ rec' \in [Props -> Records \union {None}]

LEMMA RecTyped == Inv /\ rec' = rec => rec' \in [Props -> Records \union {None}]
BY DEF Inv, TypeOK

(* A transition, or its refusal, that ends the command.                     *)
LEMMA Ends ==
  ASSUME Inv, NEW c \in Cmds, cmd[c].pc \notin {"idle", "observe_fix", "create"},
         NEW n \in States, Return(c), Undisturbed(c, n),
         Transition(cmd[c].prop, n) \/ TransitionRefused(cmd[c].prop, n)
  PROVE  Preserved
<1>1. CASE Transition(cmd[c].prop, n)
  <2>1. cmd[c].op # "none" BY Running
  <2>. QED BY <1>1, <2>1, IdleGood, TransitionStep DEF Return, Undisturbed, Preserved
<1>2. CASE TransitionRefused(cmd[c].prop, n)
  BY <1>2, Returns, RecTyped DEF TransitionRefused, Preserved
<1>. QED BY <1>1, <1>2

(* A transition after which the command goes on at l.                       *)
LEMMA Moves ==
  ASSUME Inv, NEW c \in Cmds, cmd[c].pc \notin {"idle", "observe_fix", "create"},
         NEW n \in States, NEW l \in Pcs, MoveOrReturn(c, n, l), Undisturbed(c, n),
         \A k \in Commands :
           k.op = cmd[c].op /\ k.prop = cmd[c].prop /\ k.txn = cmd[c].txn /\ k.next = cmd[c].next
           /\ k.ok = cmd[c].ok /\ k.pc = l /\ CanTransition(rec[cmd[c].prop].state, n) => Continues(k, n)
  PROVE  Preserved
<1>1. CASE TransitionRefused(cmd[c].prop, n) /\ Return(c)
  BY <1>1, Returns, RecTyped DEF TransitionRefused, Preserved
<1>2. CASE Transition(cmd[c].prop, n) /\ Goto(c, l)
  <2>. DEFINE k == [cmd[c] EXCEPT !.pc = l]
  <2>1. cmd \in [Cmds -> Commands] BY DEF Inv, TypeOK
  <2>2. cmd' = [cmd EXCEPT ![c] = k] BY <1>2, <2>1 DEF Goto
  <2>3. /\ k \in Commands /\ k.pc = l /\ k.op = cmd[c].op /\ k.prop = cmd[c].prop
        /\ k.txn = cmd[c].txn /\ k.next = cmd[c].next /\ k.ok = cmd[c].ok
    BY <2>1, PcChanged
  <2>. HIDE DEF k
  <2>4. Continues(k, n) BY <1>2, <2>3 DEF Transition
  <2>5. cmd[c].op # "none" BY Running
  <2>. QED BY <1>2, <2>2, <2>3, <2>4, <2>5, TransitionStep DEF Undisturbed, Preserved
<1>. QED BY <1>1, <1>2 DEF MoveOrReturn

(* A generation that leaves the state alone.                                *)
LEMMA Rewrites ==
  ASSUME Inv, NEW c \in Cmds, cmd[c].pc \notin {"idle", "observe_fix", "create"},
         NEW r \in Records, r.state = rec[cmd[c].prop].state, Publish(cmd[c].prop, r),
         r.apply # None => (cmd[c].prop \notin contested /\ r.apply.success => r.state \in Post),
         NEW k \in Commands, cmd' = [cmd EXCEPT ![c] = k],
         k = Idle \/ (k.op = cmd[c].op /\ k.prop = cmd[c].prop /\ Continues(k, r.state))
  PROVE  Preserved
<1>. DEFINE next == [r EXCEPT !.generations = @ + 1]
<1>1. next \in Records /\ next.state = r.state /\ next.apply = r.apply BY Numbered
<1>2. rec' = [rec EXCEPT ![cmd[c].prop] = next] BY DEF Publish
<1>. HIDE DEF next
<1>3. cmd[c].prop \in Props /\ cmd[c].op # "none" /\ rec[cmd[c].prop] # None BY Running
<1>4. rec'[cmd[c].prop] = next /\ next # None
  <2>1. rec \in [Props -> Records \union {None}] BY DEF Inv, TypeOK
  <2>. QED BY <2>1, <1>1, <1>2, <1>3, RecordNotNone
<1>5. Good(k, rec')
  <2>1. CASE k = Idle BY <2>1, IdleGood
  <2>2. CASE k # Idle BY <2>2, <1>1, <1>3, <1>4 DEF Good, Continues
  <2>. QED BY <2>1, <2>2
<1>6. Applied(cmd[c].prop, rec') BY <1>1, <1>4 DEF Applied
<1>7. \A d \in Cmds \ {c} : cmd[d].op # "none" /\ cmd[d].prop = cmd[c].prop =>
        rec[cmd[c].prop] # None /\ next.state \in Allowed(cmd[d])
  BY <1>1, <1>3, Others
<1>. QED BY <1>1, <1>2, <1>3, <1>5, <1>6, <1>7, StoreStep DEF Preserved

(* The command k, gone on as m at l.                                        *)
Moved(k, m, l) ==
  /\ m \in Commands /\ m.pc = l
  /\ m.op = k.op /\ m.prop = k.prop /\ m.txn = k.txn

LEMMA CountSet ==
  ASSUME NEW k \in Commands, NEW l \in Pcs, NEW n \in Nat
  PROVE  LET m == [k EXCEPT !.pc = l, !.decisions = n] IN
         Moved(k, m, l) /\ m.next = k.next /\ m.ok = k.ok
BY DEF Commands, Moved

(* Going on at l after n more policy decisions.                             *)
LEMMA Counted ==
  ASSUME cmd \in [Cmds -> Commands], NEW c \in Cmds, NEW l \in Pcs, NEW n \in Nat,
         cmd' = [cmd EXCEPT ![c].pc = l, ![c].decisions = @ + n]
  PROVE  \E m \in Commands : cmd' = [cmd EXCEPT ![c] = m] /\ Moved(cmd[c], m, l)
                             /\ m.next = cmd[c].next /\ m.ok = cmd[c].ok
<1>. DEFINE d == cmd[c].decisions + n
            m == [cmd[c] EXCEPT !.pc = l, !.decisions = d]
<1>1. d \in Nat
  <2>1. cmd[c].decisions \in Nat BY DEF Commands
  <2>. QED BY <2>1
<1>2. cmd' = [cmd EXCEPT ![c] = m] OBVIOUS
<1>. HIDE DEF d
<1>3. Moved(cmd[c], m, l) /\ m.next = cmd[c].next /\ m.ok = cmd[c].ok
  BY <1>1, CountSet, ZenonT(60)
<1>. QED BY <1>2, <1>3 DEF Moved

(* finish_verification is next.                                             *)
Concluded(k, ok, n, next) ==
  [k EXCEPT !.pc = "conclude", !.ok = ok, !.decisions = n, !.next = next]

LEMMA FinishSet ==
  ASSUME NEW k \in Commands, NEW ok \in BOOLEAN, NEW n \in Nat, NEW next \in States
  PROVE  /\ Moved(k, Concluded(k, ok, n, next), "conclude")
         /\ Concluded(k, ok, n, next).next = next /\ Concluded(k, ok, n, next).ok = ok
<1>. DEFINE m == Concluded(k, ok, n, next)
            a == [k EXCEPT !.pc = "conclude", !.ok = ok]
<1>1. "conclude" \in Pcs BY DEF Pcs
<1>2. a \in Commands /\ Moved(k, a, "conclude") /\ a.ok = ok
  BY <1>1 DEF Commands, Moved
<1>3. m = [a EXCEPT !.decisions = n, !.next = next] BY DEF Concluded
<1>. HIDE DEF a, m
<1>4. Moved(a, m, "conclude") /\ m.next = next /\ m.ok = a.ok
  BY <1>2, <1>3 DEF Commands, Moved
<1>. QED BY <1>2, <1>4 DEF Moved, m

LEMMA Finished ==
  ASSUME cmd \in [Cmds -> Commands], NEW c \in Cmds, NEW ok \in BOOLEAN, NEW n \in Nat,
         Finish(c, ok, n)
  PROVE  \E m \in Commands :
           /\ cmd' = [cmd EXCEPT ![c] = m] /\ Moved(cmd[c], m, "conclude")
           /\ m.next = (IF ok THEN "verified" ELSE "verification_failed") /\ m.ok = ok
<1>. DEFINE d == cmd[c].decisions + n
            next == IF ok THEN "verified" ELSE "verification_failed"
<1>1. d \in Nat
  <2>1. cmd[c].decisions \in Nat BY DEF Commands
  <2>. QED BY <2>1
<1>2. next \in States BY DEF States
<1>3. cmd' = [cmd EXCEPT ![c] = Concluded(cmd[c], ok, d, next)] BY DEF Finish, Concluded
<1>. HIDE DEF d, next
<1>5. /\ Moved(cmd[c], Concluded(cmd[c], ok, d, next), "conclude")
      /\ Concluded(cmd[c], ok, d, next).next = next /\ Concluded(cmd[c], ok, d, next).ok = ok
  BY <1>1, <1>2, FinishSet
<1>. QED BY <1>3, <1>5 DEF Moved, next

LEMMA ObserveFixHeld ==
  ASSUME Inv, NEW c \in Cmds, ObserveFix(c) PROVE Preserved
<1>. DEFINE k == [cmd[c] EXCEPT !.pc = "create"]
<1>0. rec' = rec BY DEF ObserveFix, storeVars
<1>1. CASE Return(c) BY <1>0, <1>1, Returns, RecTyped DEF Preserved
<1>2. CASE Goto(c, "create")
  <2>0. cmd[c].pc = "observe_fix" BY DEF ObserveFix
  <2>1. cmd \in [Cmds -> Commands] BY DEF Inv, TypeOK
  <2>2. cmd' = [cmd EXCEPT ![c] = k] BY <1>2, <2>1 DEF Goto
  <2>3. /\ k \in Commands /\ k.pc = "create" /\ k.op = cmd[c].op /\ k.prop = cmd[c].prop
        /\ k.txn = cmd[c].txn /\ k.next = cmd[c].next /\ k.ok = cmd[c].ok
    <3>1. "create" \in Pcs BY DEF Pcs
    <3>. QED BY <2>1, <3>1, PcChanged
  <2>. HIDE DEF k
  <2>4. Good(cmd[c], rec) /\ cmd[c].op = "fix"
    BY <2>0 DEF Inv, Good, OpPcs, Verification, Engine
  <2>5. Good(k, rec)
    BY <2>0, <2>3, <2>4 DEF Good, OpPcs, Outcome
  <2>. QED BY <1>0, <2>2, <2>3, <2>5, LocalStep, RecTyped DEF Preserved
<1>. QED BY <1>1, <1>2 DEF ObserveFix

LEMMA DiscardHeld == ASSUME Inv, NEW c \in Cmds, Discard(c) PROVE Preserved
<1>1. Undisturbed(c, "discarded") BY ByEnd DEF Discard
<1>. QED BY <1>1, Ends DEF Discard, States

LEMMA ExpireHeld == ASSUME Inv, NEW c \in Cmds, Expire(c) PROVE Preserved
<1>1. Undisturbed(c, "expired") BY ByEnd DEF Expire
<1>. QED BY <1>1, Ends DEF Expire, States

LEMMA RetreatHeld == ASSUME Inv, NEW c \in Cmds, Retreat(c) PROVE Preserved
<1>1. cmd[c].pc = "retreat" BY DEF Retreat
<1>2. /\ cmd[c].op = "apply"
      /\ \/ cmd[c].prop \in contested
         \/ rec[cmd[c].prop].state \in {"approval_pending", "expired", "discarded"}
  <2>1. cmd[c].op = "apply" BY <1>1, Running DEF OpPcs, Verification, Engine
  <2>. QED BY <1>1, <2>1, Running DEF Engine, Allowed, Relied
<1>3. Undisturbed(c, "verified") BY <1>1, <1>2, ByApply
<1>. QED BY <1>1, <1>3, Ends DEF Retreat, States

LEMMA PendingHeld == ASSUME Inv, NEW c \in Cmds, Pending(c) PROVE Preserved
<1>1. cmd[c].pc = "pending" /\ "issue" \in Pcs /\ "approval_pending" \in States BY DEF Pending, Pcs, States
<1>2. cmd[c].op = "apply" BY <1>1, Running DEF OpPcs, Verification, Engine
<1>3. Undisturbed(c, "approval_pending") BY <1>1, <1>2, ByApply
<1>4. \A k \in Commands : k.op = "apply" /\ k.txn = cmd[c].txn /\ k.ok = cmd[c].ok /\ k.pc = "issue"
        => Continues(k, "approval_pending")
  BY <1>1, <1>2, Running DEF Continues, OpPcs, Outcome, Allowed, Relied, Engine
<1>. QED BY <1>1, <1>2, <1>3, <1>4, Moves DEF Pending

LEMMA ApplyingHeld == ASSUME Inv, NEW c \in Cmds, Applying(c) PROVE Preserved
<1>1. cmd[c].pc = "applying" /\ "consume" \in Pcs /\ "applying" \in States BY DEF Applying, Pcs, States
<1>2. /\ cmd[c].op = "apply"
      /\ \/ cmd[c].prop \in contested
         \/ rec[cmd[c].prop].state \in {"approval_pending", "expired", "discarded"}
  <2>1. cmd[c].op = "apply" BY <1>1, Running DEF OpPcs, Verification, Engine
  <2>. QED BY <1>1, <2>1, Running DEF Engine, Allowed, Relied
<1>3. Undisturbed(c, "applying") BY <1>1, <1>2, ByApply
<1>4. \A k \in Commands : k.op = "apply" /\ k.txn = cmd[c].txn /\ k.ok = cmd[c].ok /\ k.pc = "consume"
        => Continues(k, "applying")
  BY <1>1, <1>2, Running DEF Continues, OpPcs, Outcome, Allowed, Relied, Engine
<1>. QED BY <1>1, <1>2, <1>3, <1>4, Moves DEF Applying

LEMMA RollingHeld == ASSUME Inv, NEW c \in Cmds, Rolling(c) PROVE Preserved
<1>1. cmd[c].pc = "rolling" /\ "consume" \in Pcs /\ "rolling_back" \in States BY DEF Rolling, Pcs, States
<1>2. cmd[c].op = "rollback" /\ (cmd[c].prop \in contested \/ rec[cmd[c].prop].state \in Post)
  <2>1. cmd[c].op = "rollback" BY <1>1, Running DEF Ops, OpPcs, Verification, Engine
  <2>. QED BY <1>1, <2>1, Running DEF Allowed, Relied, Engine
<1>3. Undisturbed(c, "rolling_back") BY <1>1, <1>2, ByRollback
<1>4. \A k \in Commands : k.op = "rollback" /\ k.txn = cmd[c].txn /\ k.pc = "consume"
        => Continues(k, "rolling_back")
  BY <1>1, <1>2, Running DEF Continues, OpPcs, Outcome, Allowed, Relied, Engine
<1>. QED BY <1>1, <1>2, <1>3, <1>4, Moves DEF Rolling

LEMMA AvailableHeld == ASSUME Inv, NEW c \in Cmds, Available(c) PROVE Preserved
<1>1. cmd[c].pc = "available" /\ "policy" \in Pcs /\ "rollback_available" \in States
  BY DEF Available, Pcs, States
<1>2. cmd[c].op = "apply" /\ (cmd[c].prop \in contested \/ rec[cmd[c].prop].state = "applied")
  <2>1. cmd[c].op = "apply" BY <1>1, Running DEF OpPcs, Verification, Engine
  <2>. QED BY <1>1, <2>1, Running DEF Engine, Allowed, Relied
<1>3. Undisturbed(c, "rollback_available") BY <1>1, <1>2, ByApply
<1>4. \A k \in Commands : k.op = "apply" /\ k.txn = cmd[c].txn /\ k.pc = "policy"
        => Continues(k, "rollback_available")
  BY <1>1, <1>2, Running DEF Continues, OpPcs, Outcome, Allowed, Relied, Engine, Post, States
<1>. QED BY <1>1, <1>2, <1>3, <1>4, Moves DEF Available

LEMMA ConcludeHeld == ASSUME Inv, NEW c \in Cmds, Conclude(c) PROVE Preserved
<1>. DEFINE n == cmd[c].next
            l == IF n = "applied" THEN "available" ELSE "policy"
            s == rec[cmd[c].prop].state
<1>1. cmd[c].pc = "conclude" /\ l \in Pcs /\ MoveOrReturn(c, n, l) BY DEF Conclude, Pcs
<1>2. n \in States BY <1>1, Running DEF Outcome, States
<1>3. CASE cmd[c].op = "apply"
  <2>1. n \in {"verified", "failed", "applied"} /\ (cmd[c].prop \in contested \/ s = "applying")
    BY <1>1, <1>3, Running DEF Outcome, Allowed, Relied, Engine
  <2>2. Undisturbed(c, n) BY <1>1, <1>3, <2>1, ByApply
  <2>3. \A k \in Commands : k.op = "apply" /\ k.txn = cmd[c].txn /\ k.ok = cmd[c].ok
          /\ k.pc = l => Continues(k, n)
    BY <1>1, <1>3, <2>1, Running DEF Continues, OpPcs, Outcome, Allowed, Relied, Engine, States
  <2>. HIDE DEF n, l
  <2>. QED BY <1>1, <1>2, <1>3, <2>2, <2>3, Moves
<1>4. CASE cmd[c].op = "rollback"
  <2>1. /\ n \in {"rollback_available", "rolled_back", "failed"}
        /\ cmd[c].prop \in contested \/ s = "rolling_back"
    BY <1>1, <1>4, Running DEF Outcome, Allowed, Relied, Engine
  <2>2. Undisturbed(c, n) BY <1>1, <1>4, <2>1, ByRollback DEF Post
  <2>3. \A k \in Commands : k.op = "rollback" /\ k.txn = cmd[c].txn /\ k.pc = l => Continues(k, n)
    BY <1>1, <1>4, <2>1, Running DEF Continues, OpPcs, Outcome, Allowed, Relied, Engine, States, Post
  <2>. HIDE DEF n, l
  <2>. QED BY <1>1, <1>2, <1>4, <2>2, <2>3, Moves
<1>5. CASE cmd[c].op \in {"fix", "verify"}
  <2>1. /\ n \in {"verified", "verification_failed"}
        /\ n = "verified" => cmd[c].prop \in contested \/ s = "build_running"
    BY <1>1, <1>5, Running DEF Outcome, Allowed, Relied, Engine
  <2>2. Undisturbed(c, n) BY <1>1, <1>5, <2>1, ByVerify
  <2>3. \A k \in Commands : k.op = cmd[c].op /\ k.txn = cmd[c].txn /\ k.pc = l => Continues(k, n)
    BY <1>1, <1>2, <1>5, <2>1, Running DEF Continues, OpPcs, Outcome, Allowed, Relied, Engine, Verification
  <2>. HIDE DEF n, l
  <2>. QED BY <1>1, <1>2, <1>5, <2>2, <2>3, Moves
<1>6. cmd[c].op \in {"apply", "rollback", "fix", "verify"}
  BY <1>1, Running DEF OpPcs, Ops
<1>. QED BY <1>3, <1>4, <1>5, <1>6

(* Within the section of an apply or a rollback.                            *)
LEMMA EngineStep ==
  ASSUME Inv, NEW c \in Cmds, cmd[c].pc \in Engine \ {"conclude"}, cmd[c].op \in {"apply", "rollback"},
         NEW k \in Commands, cmd' = [cmd EXCEPT ![c] = k], rec' = rec,
         k.op = cmd[c].op, k.prop = cmd[c].prop, k.txn = cmd[c].txn, k.ok = cmd[c].ok,
         k.pc \in Engine \ {"conclude"}, k.pc \in OpPcs(k.op)
  PROVE  Preserved
<1>1. cmd[c].pc \notin {"idle", "observe_fix", "create"} BY DEF Engine
<1>2. Continues(k, rec[cmd[c].prop].state)
  BY <1>1, Running DEF Continues, Outcome, Allowed, Relied, Engine
<1>. QED BY <1>1, <1>2, Proceeds, RecTyped DEF Preserved

LEMMA EngineGoto ==
  ASSUME Inv, NEW c \in Cmds, cmd[c].pc \in Engine \ {"conclude"}, cmd[c].op \in {"apply", "rollback"},
         NEW l \in Engine \ {"conclude"}, l \in OpPcs(cmd[c].op), Goto(c, l), rec' = rec
  PROVE  Preserved
<1>. DEFINE k == [cmd[c] EXCEPT !.pc = l]
<1>1. cmd \in [Cmds -> Commands] /\ l \in Pcs BY DEF Inv, TypeOK, Engine, Pcs
<1>2. cmd' = [cmd EXCEPT ![c] = k] BY <1>1 DEF Goto
<1>3. /\ k \in Commands /\ k.pc = l /\ k.op = cmd[c].op /\ k.prop = cmd[c].prop
      /\ k.txn = cmd[c].txn /\ k.ok = cmd[c].ok
  BY <1>1, PcChanged
<1>. HIDE DEF k
<1>. QED BY <1>2, <1>3, EngineStep

LEMMA EngineConcluding ==
  ASSUME Inv, NEW c \in Cmds, cmd[c].pc \in Engine \ {"conclude"}, cmd[c].op \in {"apply", "rollback"},
         NEW next, NEW ok \in BOOLEAN, Concluding(c, next, ok), rec' = rec,
         cmd[c].op = "apply" => next \in {"verified", "failed", "applied"} /\ (ok <=> next = "applied"),
         cmd[c].op = "rollback" => next \in {"rollback_available", "rolled_back", "failed"}
  PROVE  Preserved
<1>. DEFINE k == [cmd[c] EXCEPT !.pc = "conclude", !.next = next, !.ok = ok]
<1>1. cmd \in [Cmds -> Commands] BY DEF Inv, TypeOK
<1>2. cmd' = [cmd EXCEPT ![c] = k] BY <1>1 DEF Concluding
<1>3. next \in States /\ "conclude" \in Pcs BY DEF States, Pcs
<1>4. /\ k \in Commands /\ k.pc = "conclude" /\ k.op = cmd[c].op /\ k.prop = cmd[c].prop
      /\ k.txn = cmd[c].txn /\ k.ok = ok /\ k.next = next
  BY <1>1, <1>3, ZenonT(60) DEF Commands
<1>. HIDE DEF k
<1>5. cmd[c].pc \notin {"idle", "observe_fix", "create"} BY DEF Engine
<1>6. Continues(k, rec[cmd[c].prop].state)
  BY <1>4, <1>5, Running DEF Continues, OpPcs, Outcome, Allowed, Relied, Engine
<1>. QED BY <1>2, <1>4, <1>5, <1>6, Proceeds, RecTyped DEF Preserved

LEMMA ConsumeHeld == ASSUME Inv, NEW c \in Cmds, Consume(c) PROVE Preserved
<1>1. cmd[c].pc = "consume" /\ rec' = rec BY DEF Consume, storeVars
<1>2. cmd[c].op \in {"apply", "rollback"} BY <1>1, Running DEF Ops, OpPcs, Verification
<1>3. cmd \in [Cmds -> Commands] BY DEF Inv, TypeOK
<1>4. ASSUME NEW l \in {"execute", "undo", "refuse"}, l = "execute" => cmd[c].op = "apply",
             cmd' = [cmd EXCEPT ![c].pc = l, ![c].decisions = @ + 1]
      PROVE  Preserved
  <2>1. l \in Pcs /\ l \in Engine \ {"conclude"} /\ l \in OpPcs(cmd[c].op)
    BY <1>2, <1>4 DEF Pcs, Engine, OpPcs
  <2>2. PICK k \in Commands : cmd' = [cmd EXCEPT ![c] = k] /\ Moved(cmd[c], k, l) /\ k.ok = cmd[c].ok
    BY <1>3, <1>4, <2>1, Counted, ZenonT(60)
  <2>. QED BY <1>1, <1>2, <2>1, <2>2, EngineStep DEF Engine, Moved
<1>5. CASE Goto(c, "refuse") BY <1>1, <1>2, <1>5, EngineGoto DEF Engine, OpPcs
<1>. QED BY <1>4, <1>2, <1>5 DEF Consume

LEMMA ExecuteHeld == ASSUME Inv, NEW c \in Cmds, Execute(c) PROVE Preserved
<1>1. cmd[c].pc = "execute" /\ rec' = rec /\ (Goto(c, "executing") \/ Goto(c, "recheck"))
  BY DEF Execute, storeVars
<1>2. cmd[c].op = "apply" BY <1>1, Running DEF Ops, OpPcs, Verification
<1>. QED BY <1>1, <1>2, EngineGoto DEF Engine, OpPcs

LEMMA ExecutingHeld == ASSUME Inv, NEW c \in Cmds, Executing(c) PROVE Preserved
<1>1. cmd[c].pc = "executing" /\ rec' = rec /\ (Goto(c, "postcheck") \/ Goto(c, "recheck"))
  BY DEF Executing, storeVars
<1>2. cmd[c].op = "apply" BY <1>1, Running DEF Ops, OpPcs, Verification
<1>. QED BY <1>1, <1>2, EngineGoto DEF Engine, OpPcs

LEMMA RecheckHeld == ASSUME Inv, NEW c \in Cmds, Recheck(c) PROVE Preserved
<1>1. cmd[c].pc = "recheck" /\ rec' = rec BY DEF Recheck, storeVars
<1>2. cmd[c].op = "apply" BY <1>1, Running DEF Ops, OpPcs, Verification
<1>. QED BY <1>1, <1>2, EngineConcluding DEF Engine, Recheck

LEMMA PostcheckHeld == ASSUME Inv, NEW c \in Cmds, Postcheck(c) PROVE Preserved
<1>1. cmd[c].pc = "postcheck" /\ rec' = rec /\ (Goto(c, "undo") \/ Concluding(c, "applied", TRUE))
  BY DEF Postcheck, storeVars
<1>2. cmd[c].op = "apply" BY <1>1, Running DEF Ops, OpPcs, Verification
<1>. QED BY <1>1, <1>2, EngineGoto, EngineConcluding DEF Engine, OpPcs

(* The end of the engine's rollback.                                        *)
LEMMA BackHeld ==
  ASSUME Inv, NEW c \in Cmds, cmd[c].pc \in {"undo", "undoing"}, rec' = rec,
         NEW result \in {"rolled_back", "error"},
         cmd' = [cmd EXCEPT ![c].pc = "undone", ![c].result = result]
  PROVE  Preserved
<1>. DEFINE k == [cmd[c] EXCEPT !.pc = "undone", !.result = result]
<1>1. cmd \in [Cmds -> Commands] /\ "undone" \in Pcs BY DEF Inv, TypeOK, Pcs
<1>2. cmd' = [cmd EXCEPT ![c] = k] BY <1>1
<1>3. /\ k \in Commands /\ k.pc = "undone" /\ k.op = cmd[c].op /\ k.prop = cmd[c].prop
      /\ k.txn = cmd[c].txn /\ k.ok = cmd[c].ok
  BY <1>1, ZenonT(60) DEF Commands
<1>. HIDE DEF k
<1>4. cmd[c].op \in {"apply", "rollback"} BY Running DEF Ops, OpPcs, Verification
<1>. QED BY <1>2, <1>3, <1>4, EngineStep DEF Engine, OpPcs

LEMMA UndoHeld == ASSUME Inv, NEW c \in Cmds, Undo(c) PROVE Preserved
<1>1. cmd[c].pc = "undo" /\ rec' = rec BY DEF Undo, storeVars
<1>2. cmd[c].op \in {"apply", "rollback"} BY <1>1, Running DEF Ops, OpPcs, Verification
<1>3. CASE Goto(c, "undoing") BY <1>1, <1>2, <1>3, EngineGoto DEF Engine, OpPcs
<1>4. CASE \E result \in {"rolled_back", "error"} :
             cmd' = [cmd EXCEPT ![c].pc = "undone", ![c].result = result]
  BY <1>1, <1>4, BackHeld
<1>. QED BY <1>3, <1>4 DEF Undo

LEMMA UndoingHeld == ASSUME Inv, NEW c \in Cmds, Undoing(c) PROVE Preserved
<1>1. cmd[c].pc = "undoing" /\ rec' = rec BY DEF Undoing, storeVars
<1>2. \E result \in {"rolled_back", "error"} :
        cmd' = [cmd EXCEPT ![c].pc = "undone", ![c].result = result]
  BY DEF Undoing
<1>. QED BY <1>1, <1>2, BackHeld

LEMMA UndoneHeld == ASSUME Inv, NEW c \in Cmds, Undone(c) PROVE Preserved
<1>1. cmd[c].pc = "undone" /\ rec' = rec BY DEF Undone, storeVars
<1>2. cmd[c].op \in {"apply", "rollback"} BY <1>1, Running DEF Ops, OpPcs, Verification
<1>3. CASE Return(c) BY <1>1, <1>3, Returns, RecTyped DEF Preserved
<1>4. CASE cmd[c].op = "apply" /\ \E next \in {"verified", "failed"} : Concluding(c, next, FALSE)
  BY <1>1, <1>4, EngineConcluding DEF Engine
<1>5. CASE cmd[c].op = "rollback" /\ \E next \in {"rollback_available", "rolled_back", "failed"},
                                       ok \in BOOLEAN : Concluding(c, next, ok)
  BY <1>1, <1>5, EngineConcluding DEF Engine
<1>6. AtBase \in BOOLEAN BY DEF AtBase, Clean
<1>. QED BY <1>2, <1>3, <1>4, <1>5, <1>6 DEF Undone

LEMMA RefuseHeld == ASSUME Inv, NEW c \in Cmds, Refuse(c) PROVE Preserved
<1>. DEFINE back == IF cmd[c].op = "apply" THEN "verified" ELSE "rollback_available"
            k == [cmd[c] EXCEPT !.pc = "policy", !.silent = TRUE]
<1>1. cmd[c].pc = "refuse" /\ "policy" \in Pcs BY DEF Refuse, Pcs
<1>2. cmd[c].op \in {"apply", "rollback"} BY <1>1, Running DEF Ops, OpPcs, Verification
<1>3. cmd \in [Cmds -> Commands] BY DEF Inv, TypeOK
<1>4. back \in States BY DEF States
<1>5. CASE TransitionRefused(cmd[c].prop, back) /\ Return(c)
  BY <1>5, Returns, RecTyped DEF TransitionRefused, Preserved
<1>6. CASE Transition(cmd[c].prop, back) /\ cmd' = [cmd EXCEPT ![c].pc = "policy", ![c].silent = TRUE]
  <2>1. cmd' = [cmd EXCEPT ![c] = k] BY <1>3, <1>6
  <2>2. k \in Commands /\ Moved(cmd[c], k, "policy") /\ k.ok = cmd[c].ok
    BY <1>1, <1>3, ZenonT(60) DEF Commands, Moved
  <2>. HIDE DEF k
  <2>3. Undisturbed(c, back) /\ Continues(k, back)
    <3>1. CASE cmd[c].op = "apply"
      <4>1. back = "verified" /\ (cmd[c].prop \in contested \/ rec[cmd[c].prop].state = "applying")
            /\ ~cmd[c].ok
        BY <1>1, <3>1, Running DEF Allowed, Relied, Engine, Outcome
      <4>2. Undisturbed(c, back) BY <1>1, <3>1, <4>1, ByApply
      <4>. QED BY <1>1, <3>1, <4>1, <4>2, <2>2, Running
             DEF Moved, Continues, OpPcs, Outcome, Allowed, Relied, Engine, States
    <3>2. CASE cmd[c].op = "rollback"
      <4>1. back = "rollback_available" /\ (cmd[c].prop \in contested \/ rec[cmd[c].prop].state \in Post)
        BY <1>1, <3>2, Running DEF Allowed, Relied, Engine, Post
      <4>2. Undisturbed(c, back) BY <1>1, <3>2, <4>1, ByRollback
      <4>. QED BY <1>1, <3>2, <4>1, <4>2, <2>2, Running
             DEF Moved, Continues, OpPcs, Outcome, Allowed, Relied, Engine, Post, States
    <3>. QED BY <1>2, <3>1, <3>2
  <2>4. cmd[c].op # "none" BY <1>2
  <2>. HIDE DEF back
  <2>. QED BY <1>4, <1>6, <2>1, <2>2, <2>3, <2>4, TransitionStep DEF Undisturbed, Preserved, Moved
<1>. QED BY <1>5, <1>6 DEF Refuse

(* record_policy changes neither the state nor the reports.                 *)
LEMMA PolicyRewrites ==
  ASSUME Inv, NEW c \in Cmds, cmd[c].pc \notin {"idle", "observe_fix", "create"},
         NEW n \in Nat, RecordPolicy(cmd[c].prop, n),
         NEW k \in Commands, cmd' = [cmd EXCEPT ![c] = k],
         k = Idle \/ (k.op = cmd[c].op /\ k.prop = cmd[c].prop /\ Continues(k, rec[cmd[c].prop].state))
  PROVE  Preserved
<1>. DEFINE p == cmd[c].prop
            r == [rec[p] EXCEPT !.policy = @ + n]
<1>1. p \in Props /\ rec[p] \in Records BY Running
<1>2. r \in Records /\ r.state = rec[p].state /\ r.apply = rec[p].apply
  BY <1>1 DEF Records
<1>3. Publish(p, r) BY DEF RecordPolicy
<1>4. r.apply # None => (p \notin contested /\ r.apply.success => r.state \in Post)
  <2>1. Applied(p, rec) /\ rec[p] # None BY <1>1, RecordNotNone DEF Inv
  <2>. HIDE DEF r
  <2>. QED BY <1>2, <2>1 DEF Applied
<1>. HIDE DEF r
<1>. QED BY <1>2, <1>3, <1>4, Rewrites

LEMMA ContextPolicyHeld == ASSUME Inv, NEW c \in Cmds, ContextPolicy(c) PROVE Preserved
<1>. DEFINE k == [cmd[c] EXCEPT !.pc = "load"]
<1>1. cmd[c].pc = "context_policy" /\ "load" \in Pcs BY DEF ContextPolicy, Pcs
<1>2. CASE RecordPolicyRefused(cmd[c].prop, 1) /\ Return(c)
  BY <1>2, Returns, RecTyped DEF RecordPolicyRefused, Preserved
<1>3. CASE RecordPolicy(cmd[c].prop, 1) /\ Goto(c, "load")
  <2>1. cmd \in [Cmds -> Commands] BY DEF Inv, TypeOK
  <2>2. cmd' = [cmd EXCEPT ![c] = k] BY <1>3, <2>1 DEF Goto
  <2>3. /\ k \in Commands /\ k.pc = "load" /\ k.op = cmd[c].op /\ k.prop = cmd[c].prop
        /\ k.txn = cmd[c].txn
    BY <1>1, <2>1, PcChanged
  <2>. HIDE DEF k
  <2>4. cmd[c].op = "fix" BY <1>1, Running DEF Ops, OpPcs, Verification, Engine
  <2>5. Continues(k, rec[cmd[c].prop].state)
    BY <1>1, <2>3, <2>4, Running DEF Continues, OpPcs, Verification, Outcome, Allowed, Relied, Engine
  <2>. QED BY <1>1, <1>3, <2>2, <2>3, <2>5, PolicyRewrites
<1>. QED BY <1>2, <1>3 DEF ContextPolicy

LEMMA PolicyHeld == ASSUME Inv, NEW c \in Cmds, Policy(c) PROVE Preserved
<1>. DEFINE k == [cmd[c] EXCEPT !.pc = "report"]
            n == cmd[c].decisions
<1>1. cmd[c].pc = "policy" /\ "report" \in Pcs BY DEF Policy, Pcs
<1>2. cmd \in [Cmds -> Commands] BY DEF Inv, TypeOK
<1>3. n \in Nat BY <1>2 DEF Commands
<1>4. CASE RecordPolicyRefused(cmd[c].prop, n) /\ Return(c)
  BY <1>4, Returns, RecTyped DEF RecordPolicyRefused, Preserved
<1>5. CASE RecordPolicy(cmd[c].prop, n) /\ Return(c)
  <2>. HIDE DEF n
  <2>. QED BY <1>1, <1>3, <1>5, IdleGood, PolicyRewrites DEF Return
<1>6. CASE RecordPolicy(cmd[c].prop, n) /\ Goto(c, "report")
  <2>2. cmd' = [cmd EXCEPT ![c] = k] BY <1>2, <1>6 DEF Goto
  <2>3. /\ k \in Commands /\ k.pc = "report" /\ k.op = cmd[c].op /\ k.prop = cmd[c].prop
        /\ k.txn = cmd[c].txn /\ k.ok = cmd[c].ok
    BY <1>1, <1>2, PcChanged
  <2>. HIDE DEF k, n
  <2>4. cmd[c].op \in {"fix", "verify", "apply", "rollback"}
    BY <1>1, Running DEF Ops, OpPcs
  <2>5. Continues(k, rec[cmd[c].prop].state)
    BY <1>1, <2>3, <2>4, Running DEF Continues, OpPcs, Verification, Outcome, Allowed, Relied, Engine
  <2>. QED BY <1>1, <1>3, <1>6, <2>2, <2>3, <2>5, PolicyRewrites
<1>. QED BY <1>4, <1>5, <1>6 DEF Policy

LEMMA ReportHeld == ASSUME Inv, NEW c \in Cmds, Report(c) PROVE Preserved
<1>. DEFINE p == cmd[c].prop
            r == Reported(rec[p], cmd[c])
<1>1. cmd[c].pc = "report" /\ Return(c) BY DEF Report
<1>2. CASE rec' = rec BY <1>1, <1>2, Returns, RecTyped DEF Preserved
<1>3. CASE Publish(p, r)
  <2>1. p \in Props /\ rec[p] \in Records /\ rec[p] # None /\ cmd[c] \in Commands
        /\ cmd[c].txn \in Txns /\ cmd[c].ok \in BOOLEAN
    BY <1>1, Running DEF Commands
  <2>2. Applied(p, rec) BY <2>1 DEF Inv
  <2>3. /\ r \in Records /\ r.state = rec[p].state
        /\ r.apply # None => (p \notin contested /\ r.apply.success => r.state \in Post)
    <3>1. CASE cmd[c].op = "apply"
      <4>. DEFINE report == [txn |-> cmd[c].txn, success |-> cmd[c].ok]
      <4>1. r = [rec[p] EXCEPT !.apply = report] BY <3>1 DEF Reported
      <4>2. report \in ApplyReports /\ report.success = cmd[c].ok BY <2>1 DEF ApplyReports
      <4>3. cmd[c].ok /\ p \notin contested => rec[p].state \in Post
        BY <1>1, <3>1, Running DEF Allowed, Relied, Engine
      <4>. HIDE DEF report, r
      <4>4. r \in Records /\ r.state = rec[p].state /\ r.apply = report
        BY <2>1, <4>1, <4>2 DEF Records
      <4>. QED BY <4>2, <4>3, <4>4
    <3>2. CASE cmd[c].op = "rollback"
      <4>1. \E v \in {"failed", "done"} : r = [rec[p] EXCEPT !.rollback = v]
        BY <3>2 DEF Reported
      <4>. HIDE DEF r
      <4>2. r \in Records /\ r.state = rec[p].state /\ r.apply = rec[p].apply
        BY <2>1, <4>1 DEF Records
      <4>. QED BY <2>1, <2>2, <4>2 DEF Applied
    <3>3. CASE cmd[c].op \notin {"apply", "rollback"}
      <4>1. \E v \in {"failed", "passed"} : r = [rec[p] EXCEPT !.verification = v]
        BY <3>3 DEF Reported
      <4>. HIDE DEF r
      <4>2. r \in Records /\ r.state = rec[p].state /\ r.apply = rec[p].apply
        BY <2>1, <4>1 DEF Records
      <4>. QED BY <2>1, <2>2, <4>2 DEF Applied
    <3>. QED BY <3>1, <3>2, <3>3
  <2>. HIDE DEF r
  <2>. QED BY <1>1, <1>3, <2>3, IdleGood, Rewrites DEF Return
<1>. QED BY <1>2, <1>3 DEF Report

(* A new record disturbs nobody: no other command is on the proposal.       *)
LEMMA CreateHeld == ASSUME Inv, NEW c \in Cmds, Create(c) PROVE Preserved
<1>. DEFINE p == cmd[c].prop
            r == [state |-> "validated", generations |-> 1, policy |-> 0,
                  verification |-> "none", apply |-> None, rollback |-> "none"]
            k == [cmd[c] EXCEPT !.pc = "context_policy"]
<1>1. cmd[c].pc = "create" /\ "context_policy" \in Pcs BY DEF Create, Pcs
<1>2. CASE Return(c) /\ rec' = rec BY <1>2, Returns, RecTyped DEF Preserved
<1>3. CASE rec' = [rec EXCEPT ![p] = r] /\ Goto(c, "context_policy")
  <2>1. cmd \in [Cmds -> Commands] /\ rec \in [Props -> Records \union {None}] BY DEF Inv, TypeOK
  <2>2. cmd' = [cmd EXCEPT ![c] = k] BY <1>3, <2>1 DEF Goto
  <2>3. /\ k \in Commands /\ k.pc = "context_policy" /\ k.op = cmd[c].op /\ k.prop = cmd[c].prop
        /\ k.txn = cmd[c].txn
    BY <1>1, <2>1, PcChanged
  <2>. HIDE DEF k
  <2>4. cmd[c].op = "fix" /\ p \in Props /\ cmd[c].txn \in Txns /\ rec[p] = None
    BY <1>1 DEF Inv, Good, OpPcs, Verification, Engine
  <2>5. r \in Records /\ r.state = "validated" /\ r.apply = None BY DEF Records, States
  <2>. HIDE DEF r
  <2>6. rec'[p] = r /\ r # None BY <1>3, <2>1, <2>4, <2>5, RecordNotNone
  <2>7. Good(k, rec')
    BY <2>3, <2>4, <2>5, <2>6 DEF Good, OpPcs, Outcome, Allowed, Relied, Engine, States
  <2>8. Applied(p, rec') BY <2>5, <2>6 DEF Applied
  <2>9. ASSUME NEW d \in Cmds \ {c}, cmd[d].op # "none", cmd[d].prop = p PROVE FALSE
    <3>1. Good(cmd[d], rec) /\ Kind(cmd[d].op) # "verify"
      BY <2>4, <2>9 DEF Inv, Distinct, Kind
    <3>2. cmd[d].pc \in {"observe_fix", "create"} /\ cmd[d].pc \in OpPcs(cmd[d].op)
      BY <2>4, <2>9, <3>1 DEF Good
    <3>. QED BY <2>9, <3>1, <3>2 DEF OpPcs, Verification, Engine, Kind
  <2>. QED BY <1>3, <2>2, <2>3, <2>4, <2>5, <2>7, <2>8, <2>9, StoreStep DEF Preserved
<1>. QED BY <1>2, <1>3 DEF Create

LEMMA LoadHeld == ASSUME Inv, NEW c \in Cmds, Load(c) PROVE Preserved
<1>. DEFINE p == cmd[c].prop
            r == rec[p]
            s == r.state
            txn == IF cmd[c].op = "rollback" THEN r.apply.txn ELSE cmd[c].txn
            k == [cmd[c] EXCEPT !.pc = "observe", !.txn = txn]
<1>1. cmd[c].pc = "load" /\ rec' = rec /\ {"expire", "observe"} \subseteq Pcs BY DEF Load, Pcs, storeVars
<1>2. cmd \in [Cmds -> Commands] BY DEF Inv, TypeOK
<1>3. cmd[c].op \in {"fix", "verify", "diff", "apply", "rollback"} BY <1>1, Running DEF Ops, OpPcs
<1>4. p \in Props /\ r \in Records /\ r # None /\ s \in States BY <1>1, Running
<1>5. CASE Return(c) BY <1>1, <1>5, Returns, RecTyped DEF Preserved
<1>6. CASE cmd[c].op # "rollback" /\ Goto(c, "expire")
  <2>1. \A m \in Commands : m.op = cmd[c].op /\ m.txn = cmd[c].txn /\ m.ok = cmd[c].ok /\ m.pc = "expire"
          => Continues(m, s)
    BY <1>1, <1>3, <1>6, Running DEF Continues, OpPcs, Verification, Outcome, Allowed, Relied, Engine
  <2>. QED BY <1>1, <1>6, <2>1, Jumps, RecTyped DEF Preserved
<1>7. CASE Preconditions(cmd[c].op, r) /\ cmd' = [cmd EXCEPT ![c].pc = "observe", ![c].txn = txn]
  <2>1. txn \in Txns /\ (cmd[c].op = "rollback" /\ p \notin contested => s \in Post)
    <3>1. CASE cmd[c].op # "rollback" BY <1>1, <3>1, Running
    <3>2. CASE cmd[c].op = "rollback"
      <4>1. r.apply # None /\ r.apply.success BY <1>7, <3>2 DEF Preconditions
      <4>2. r.apply \in ApplyReports BY <1>4, <4>1 DEF Records
      <4>3. r.apply.txn \in Txns BY <4>2 DEF ApplyReports
      <4>4. Applied(p, rec) BY <1>4 DEF Inv
      <4>. QED BY <1>4, <3>2, <4>1, <4>3, <4>4 DEF Applied
    <3>. QED BY <3>1, <3>2
  <2>2. cmd[c].op # "diff" BY <1>7 DEF Preconditions
  <2>3. cmd' = [cmd EXCEPT ![c] = k] BY <1>2, <1>7
  <2>. HIDE DEF txn
  <2>4. /\ k \in Commands /\ k.pc = "observe" /\ k.op = cmd[c].op /\ k.prop = cmd[c].prop
        /\ k.txn = txn /\ k.ok = cmd[c].ok
    BY <1>1, <1>2, <2>1, ZenonT(60) DEF Commands
  <2>. HIDE DEF k
  <2>5. Continues(k, s)
    BY <1>1, <1>3, <2>1, <2>2, <2>4, Running DEF Continues, OpPcs, Verification, Outcome, Allowed, Relied, Engine
  <2>. QED BY <1>1, <2>3, <2>4, <2>5, Proceeds, RecTyped DEF Preserved
<1>8. \/ Return(c)
      \/ cmd[c].op # "rollback" /\ Goto(c, "expire")
      \/ Preconditions(cmd[c].op, r) /\ cmd' = [cmd EXCEPT ![c].pc = "observe", ![c].txn = txn]
  BY <1>2 DEF Load
<1>. QED BY <1>5, <1>6, <1>7, <1>8

LEMMA ObserveHeld == ASSUME Inv, NEW c \in Cmds, Observe(c) PROVE Preserved
<1>. DEFINE op == cmd[c].op
            l == CASE op = "apply" -> "pending" [] op = "rollback" -> "rolling" [] OTHER -> "prepare"
            n == IF op \in {"apply", "rollback"} THEN 1 ELSE 0
            k == [cmd[c] EXCEPT !.pc = l, !.decisions = n]
<1>1. cmd[c].pc = "observe" /\ rec' = rec BY DEF Observe, storeVars
<1>2. cmd \in [Cmds -> Commands] BY DEF Inv, TypeOK
<1>3. op \in {"fix", "verify", "apply", "rollback"} BY <1>1, Running DEF Ops, OpPcs
<1>4. CASE Return(c) BY <1>1, <1>4, Returns, RecTyped DEF Preserved
<1>5. CASE cmd' = [cmd EXCEPT ![c].pc = l, ![c].decisions = n]
  <2>1. cmd' = [cmd EXCEPT ![c] = k] BY <1>2, <1>5
  <2>2. l \in Pcs /\ n \in Nat /\ l \in {"pending", "rolling", "prepare"} BY DEF Pcs
  <2>3. /\ op = "apply" => l = "pending"
        /\ op = "rollback" => l = "rolling"
        /\ op \in {"fix", "verify"} => l = "prepare"
    OBVIOUS
  <2>. HIDE DEF l, n
  <2>4. Moved(cmd[c], k, l) /\ k.ok = cmd[c].ok BY <1>2, <2>2, CountSet, ZenonT(60)
  <2>. HIDE DEF k
  <2>5. Continues(k, rec[cmd[c].prop].state)
    BY <1>1, <1>3, <2>2, <2>3, <2>4, Running
    DEF Moved, Continues, OpPcs, Verification, Outcome, Allowed, Relied, Engine
  <2>. QED BY <1>1, <2>1, <2>4, <2>5, Proceeds, RecTyped DEF Preserved, Moved
<1>. QED BY <1>4, <1>5 DEF Observe

LEMMA IssueHeld == ASSUME Inv, NEW c \in Cmds, Issue(c) PROVE Preserved
<1>. DEFINE now == content[cmd[c].prop]
            k == [cmd[c] EXCEPT !.pc = "applying", !.bound = now]
<1>1. cmd[c].pc = "issue" /\ rec' = rec /\ {"applying", "retreat"} \subseteq Pcs
  BY DEF Issue, storeVars, Pcs
<1>2. cmd \in [Cmds -> Commands] BY DEF Inv, TypeOK
<1>3. cmd[c].op = "apply" BY <1>1, Running DEF Ops, OpPcs, Verification, Engine
<1>4. \A m \in Commands :
        m.op = "apply" /\ m.prop = cmd[c].prop /\ m.txn = cmd[c].txn /\ m.ok = cmd[c].ok
        /\ m.pc \in {"applying", "retreat"}
          => Continues(m, rec[cmd[c].prop].state)
  BY <1>1, <1>3, Running DEF Continues, OpPcs, Outcome, Allowed, Relied, Engine
<1>5. CASE Goto(c, "retreat") BY <1>1, <1>3, <1>4, <1>5, Jumps, RecTyped DEF Preserved
<1>6. CASE cmd' = [cmd EXCEPT ![c].pc = "applying", ![c].bound = now]
  <2>1. now \in Contents BY <1>1, Running DEF Inv, TypeOK
  <2>2. cmd' = [cmd EXCEPT ![c] = k] BY <1>2, <1>6
  <2>. HIDE DEF now
  <2>3. /\ k \in Commands /\ k.pc = "applying" /\ k.op = cmd[c].op /\ k.prop = cmd[c].prop
        /\ k.txn = cmd[c].txn /\ k.ok = cmd[c].ok
    BY <1>1, <1>2, <2>1, ZenonT(60) DEF Commands
  <2>. HIDE DEF k
  <2>. QED BY <1>1, <1>3, <1>4, <2>2, <2>3, Proceeds, RecTyped DEF Preserved
<1>. QED BY <1>5, <1>6 DEF Issue

(* Ending a verification without touching the record.                       *)
LEMMA FinishHeld ==
  ASSUME Inv, NEW c \in Cmds, cmd[c].op \in {"fix", "verify"},
         cmd[c].pc \in {"prepare", "write", "build_start", "build"},
         NEW ok \in BOOLEAN, ok => cmd[c].pc = "build",
         NEW n \in Nat, Finish(c, ok, n), rec' = rec
  PROVE  Preserved
<1>1. cmd \in [Cmds -> Commands] BY DEF Inv, TypeOK
<1>2. PICK k \in Commands :
        /\ cmd' = [cmd EXCEPT ![c] = k] /\ Moved(cmd[c], k, "conclude")
        /\ k.next = (IF ok THEN "verified" ELSE "verification_failed") /\ k.ok = ok
  BY <1>1, Finished
<1>3. Continues(k, rec[cmd[c].prop].state)
  <2>1. rec[cmd[c].prop].state \in States /\ cmd[c].txn \in Txns
        /\ (ok /\ cmd[c].prop \notin contested => rec[cmd[c].prop].state = "build_running")
    BY Running DEF Allowed, Relied
  <2>. QED BY <1>2, <2>1 DEF Moved, Continues, OpPcs, Verification, Outcome, Allowed, Relied, Engine
<1>. QED BY <1>2, <1>3, Proceeds, RecTyped DEF Preserved, Moved

LEMMA BuildHeld == ASSUME Inv, NEW c \in Cmds, Build(c) PROVE Preserved
<1>1. cmd[c].pc = "build" /\ rec' = rec BY DEF Build, storeVars
<1>2. cmd[c].op \in {"fix", "verify"} BY <1>1, Running DEF Ops, OpPcs, Engine
<1>3. PICK passed, cleaned \in BOOLEAN : Finish(c, Success(passed, cleaned, AtBase), 2)
  BY DEF Build
<1>4. Success(passed, cleaned, AtBase) \in BOOLEAN BY DEF Success
<1>. QED BY <1>1, <1>2, <1>3, <1>4, FinishHeld

LEMMA StageHeld == ASSUME Inv, NEW c \in Cmds, Stage(c) PROVE Preserved
<1>. DEFINE stage == Stages[cmd[c].pc]
<1>1. cmd[c].pc \in {"prepare", "write", "build_start"} BY DEF Stage, Stages
<1>2. cmd[c].op \in {"fix", "verify"} BY <1>1, Running DEF Ops, OpPcs, Engine
<1>3. /\ stage.decisions \in Nat /\ stage.decisions + 1 \in Nat
      /\ \/ stage.next = "worktree_prepared" /\ stage.then = "write"
         \/ stage.next = "worktree_applied" /\ stage.then = "build_start"
         \/ stage.next = "build_running" /\ stage.then = "build"
  BY <1>1 DEF Stages
<1>4. CASE rec' = rec /\ \E n \in Nat : Finish(c, FALSE, n)
  BY <1>1, <1>2, <1>4, FinishHeld
<1>5. CASE /\ Transition(cmd[c].prop, stage.next)
           /\ cmd' = [cmd EXCEPT ![c].pc = stage.then, ![c].decisions = @ + stage.decisions]
  <2>. DEFINE next == stage.next
              then == stage.then
              n == stage.decisions
  <2>0. /\ Transition(cmd[c].prop, next)
        /\ cmd' = [cmd EXCEPT ![c].pc = then, ![c].decisions = @ + n]
    BY <1>5
  <2>. HIDE DEF next, then, n
  <2>1. /\ n \in Nat
        /\ \/ next = "worktree_prepared" /\ then = "write"
           \/ next = "worktree_applied" /\ then = "build_start"
           \/ next = "build_running" /\ then = "build"
    BY <1>3 DEF next, then, n
  <2>2. next \in States /\ then \in Pcs BY <2>1 DEF States, Pcs
  <2>3. cmd \in [Cmds -> Commands] BY DEF Inv, TypeOK
  <2>4. PICK k \in Commands : cmd' = [cmd EXCEPT ![c] = k] /\ Moved(cmd[c], k, then)
    BY <2>0, <2>1, <2>2, <2>3, Counted, ZenonT(60)
  <2>5. Undisturbed(c, next) BY <1>1, <1>2, <2>1, ByVerify
  <2>6. Continues(k, next)
    <3>1. cmd[c].txn \in Txns BY <1>1, Running
    <3>. QED BY <1>2, <2>1, <2>2, <2>4, <3>1 DEF Moved, Continues, OpPcs, Verification, Outcome, Allowed, Relied, Engine
  <2>. QED BY <1>2, <2>0, <2>2, <2>4, <2>5, <2>6, TransitionStep DEF Undisturbed, Preserved, Moved
<1>. HIDE DEF stage
<1>6. \/ /\ Transition(cmd[c].prop, stage.next)
         /\ cmd' = [cmd EXCEPT ![c].pc = stage.then, ![c].decisions = @ + stage.decisions]
      \/ rec' = rec /\ (Finish(c, FALSE, stage.decisions + 1) \/ Finish(c, FALSE, 1))
  BY DEF Stage, TransitionRefused, stage
<1>. QED BY <1>3, <1>4, <1>5, <1>6

(* A command starts: when another one of its kind is on the proposal, the   *)
(* proposal is contested from now on.                                       *)
LEMMA StartHeld ==
  ASSUME Inv, NEW c \in Cmds, NEW p \in Props, NEW op \in Ops, Start(c, p, op)
  PROVE  Inv'
<1>. DEFINE k == [Idle EXCEPT !.op = op, !.pc = FirstPc(op), !.prop = p, !.txn = issued']
<1>1. /\ cmd \in [Cmds -> Commands] /\ rec \in [Props -> Records \union {None}]
      /\ issued \in 0..MaxCommands /\ MaxCommands \in Nat
  BY LifecycleAssumption DEF Inv, TypeOK
<1>2. /\ rec' = rec /\ cmd' = [cmd EXCEPT ![c] = k]
      /\ IF op = "fix" THEN rec[p] = None /\ \A d \in Cmds : cmd[d].prop # p ELSE rec[p] # None
      /\ issued < MaxCommands /\ issued' = issued + 1
  BY DEF Start, storeVars
<1>3. /\ contested \subseteq contested' /\ contested' \subseteq contested \union {p}
      /\ Contends(p, op) => p \in contested'
  BY DEF Start
<1>4. issued' \in Txns /\ issued' \in 0..MaxCommands BY <1>1, <1>2 DEF Txns
<1>5. k.op = op /\ k.pc = FirstPc(op) /\ k.prop = p /\ k.txn = issued' /\ k.ok = FALSE
  BY DEF Idle
<1>6. k \in Commands
  <2>1. Idle \in Commands BY IdleGood
  <2>2. FirstPc(op) \in Pcs BY DEF FirstPc, Pcs
  <2>. QED BY <2>1, <2>2, <1>4 DEF Commands
<1>. HIDE DEF k
<1>7. k.pc \in OpPcs(k.op) /\ k.op # "none" /\ Outcome(k)
      /\ (rec[p] = None <=> k.pc \in {"observe_fix", "create"})
      /\ (rec[p] # None => rec[p].state \in States \intersect Relied(k))
  <2>1. rec[p] # None => rec[p].state \in States BY <1>1 DEF Records
  <2>2. FirstPc(op) \in OpPcs(op) /\ FirstPc(op) \in {"observe_fix", "discard", "load"}
        /\ (FirstPc(op) = "observe_fix" <=> op = "fix")
    BY DEF FirstPc, OpPcs, Verification, Ops
  <2>3. Outcome(k) BY <1>5, <2>2 DEF Outcome
  <2>4. ASSUME NEW s \in States PROVE s \in Relied(k)
    <3>1. k.pc \in {"observe_fix", "discard", "load"} /\ (k.pc # "load" => k.op # "rollback")
      BY <1>5, <2>2 DEF FirstPc
    <3>. QED BY <2>4, <3>1 DEF Relied, Engine
  <2>5. op # "none" BY DEF Ops
  <2>. QED BY <1>2, <1>5, <2>1, <2>2, <2>3, <2>4, <2>5
<1>8. cmd' \in [Cmds -> Commands] /\ cmd'[c] = k /\ \A d \in Cmds \ {c} : cmd'[d] = cmd[d]
  BY <1>1, <1>2, <1>6
<1>9. \A d \in Cmds : Good(cmd[d], rec)'
  <2>. SUFFICES ASSUME NEW d \in Cmds PROVE Good(cmd[d], rec)'
    OBVIOUS
  <2>1. CASE d = c
    <3>1. cmd'[d] = k BY <2>1, <1>8
    <3>. QED BY <1>2, <1>4, <1>5, <1>7, <3>1 DEF Good, Allowed
  <2>2. CASE d # c
    <3>1. cmd'[d] = cmd[d] /\ Good(cmd[d], rec) /\ cmd[d] \in Commands
      BY <2>2, <1>1, <1>8 DEF Inv
    <3>2. cmd[d].op # "none" /\ rec[cmd[d].prop] # None => rec[cmd[d].prop].state \in States
      BY <1>1, <3>1 DEF Good, Records
    <3>. QED BY <1>2, <1>3, <3>1, <3>2 DEF Good, Allowed
  <2>. QED BY <2>1, <2>2
<1>10. \A q \in Props : Applied(q, rec)' BY <1>2, <1>3 DEF Inv, Applied
<1>11. Distinct(cmd, rec)'
  <2>. DEFINE Pair(d, e) ==
         /\ d # e /\ cmd'[d].op \notin {"none", "diff", "discard"}
         /\ cmd'[d].prop = cmd'[e].prop
         /\ cmd'[d].prop \notin contested' \/ rec[cmd'[d].prop] = None
         => Kind(cmd'[d].op) # Kind(cmd'[e].op)
  <2>1. ASSUME NEW e \in Cmds \ {c} PROVE Pair(c, e) /\ Pair(e, c)
    <3>1. cmd'[c].op = op /\ cmd'[c].prop = p /\ cmd'[e] = cmd[e] BY <1>5, <1>8
    <3>2. CASE cmd[e].prop # p BY <3>1, <3>2
    <3>3. CASE cmd[e].prop = p
      <4>1. rec[p] # None BY <1>2, <3>3
      <4>2. op \notin {"diff", "discard"} /\ p \notin contested' => Kind(cmd[e].op) # Kind(op)
        BY <1>3, <3>3 DEF Contends
      <4>3. cmd[e].op \notin {"diff", "discard"} /\ op \in {"diff", "discard"}
              => Kind(cmd[e].op) # Kind(op)
        BY DEF Kind
      <4>. QED BY <3>1, <3>3, <4>1, <4>2, <4>3
    <3>. QED BY <3>2, <3>3
  <2>2. ASSUME NEW d \in Cmds \ {c}, NEW e \in Cmds \ {c} PROVE Pair(d, e)
    BY <1>3, <1>8 DEF Inv, Distinct
  <2>3. ASSUME NEW d \in Cmds, NEW e \in Cmds PROVE Pair(d, e)
    BY <2>1, <2>2
  <2>. QED BY <1>2, <2>3 DEF Distinct
<1>12. TypeOK'
  <2>1. contested' \subseteq Props BY <1>3 DEF Inv, TypeOK
  <2>2. UNCHANGED <<rec, late, content, elsewhere, lock, txns, proven, budget>>
    BY DEF Start, storeVars, workspaceVars, engineVars
  <2>. QED BY <1>4, <1>8, <2>1, <2>2 DEF Inv, TypeOK
<1>. QED BY <1>9, <1>10, <1>11, <1>12 DEF Inv

LEMMA CancelHeld == ASSUME Inv, NEW c \in Cmds, Cancel(c) PROVE Preserved
<1>. DEFINE k == [cmd[c] EXCEPT !.cancelled = TRUE]
<1>1. cmd[c].pc # "idle" /\ rec' = rec BY DEF Cancel, storeVars
<1>2. cmd \in [Cmds -> Commands] BY DEF Inv, TypeOK
<1>3. cmd' = [cmd EXCEPT ![c] = k] BY <1>2 DEF Cancel
<1>4. /\ k \in Commands /\ k.pc = cmd[c].pc /\ k.op = cmd[c].op /\ k.prop = cmd[c].prop
      /\ k.txn = cmd[c].txn /\ k.next = cmd[c].next /\ k.ok = cmd[c].ok
  BY <1>2, ZenonT(60) DEF Commands
<1>. HIDE DEF k
<1>5. Good(cmd[c], rec) /\ cmd[c].op # "none" BY <1>1, Running DEF Inv
<1>6. Good(k, rec) BY <1>4, <1>5 DEF Good, Outcome, Allowed, Relied
<1>. QED BY <1>1, <1>3, <1>4, <1>6, LocalStep, RecTyped DEF Preserved

LEMMA CrashHeld == ASSUME Inv, NEW c \in Cmds, Crash(c) PROVE Preserved
<1>1. Return(c) /\ rec' = rec BY DEF Crash, storeVars
<1>. QED BY <1>1, Returns, RecTyped DEF Preserved

(* Steps of the environment that touch neither commands nor records.        *)
LEMMA UntouchedHeld == ASSUME Inv, cmd' = cmd, rec' = rec PROVE Preserved
<1>1. \A c \in Cmds : Good(cmd'[c], rec') BY DEF Inv
<1>2. \A p \in Props : Applied(p, rec') BY DEF Inv, Applied
<1>3. Distinct(cmd', rec') BY DEF Inv
<1>. QED BY <1>1, <1>2, <1>3 DEF Preserved, Held, Inv, TypeOK

LEMMA StepHeld == ASSUME Inv, NEW c \in Cmds, Step(c) PROVE Preserved
<1>1. CASE ObserveFix(c) \/ Create(c) \/ ContextPolicy(c) \/ Discard(c)
  BY <1>1, ObserveFixHeld, CreateHeld, ContextPolicyHeld, DiscardHeld
<1>2. CASE Load(c) \/ Expire(c) \/ Observe(c) \/ Stage(c) \/ Build(c)
  BY <1>2, LoadHeld, ExpireHeld, ObserveHeld, StageHeld, BuildHeld
<1>3. CASE Pending(c) \/ Issue(c) \/ Retreat(c) \/ Applying(c) \/ Rolling(c) \/ Consume(c)
  BY <1>3, PendingHeld, IssueHeld, RetreatHeld, ApplyingHeld, RollingHeld, ConsumeHeld
<1>4. CASE Refuse(c) \/ Execute(c) \/ Executing(c) \/ Recheck(c) \/ Postcheck(c)
  BY <1>4, RefuseHeld, ExecuteHeld, ExecutingHeld, RecheckHeld, PostcheckHeld
<1>5. CASE Undo(c) \/ Undoing(c) \/ Undone(c)
  BY <1>5, UndoHeld, UndoingHeld, UndoneHeld
<1>6. CASE Conclude(c) \/ Available(c) \/ Policy(c) \/ Report(c)
  BY <1>6, ConcludeHeld, AvailableHeld, PolicyHeld, ReportHeld
<1>. QED BY <1>1, <1>2, <1>3, <1>4, <1>5, <1>6 DEF Step

-----------------------------------------------------------------------------
(* The types of the other variables.                                        *)

Typed ==
  /\ late \subseteq Props
  /\ content \in [Props -> Contents]
  /\ elsewhere \in {"same", "dirty", "committed"}
  /\ lock \in Cmds \union {None}
  /\ txns \in [Txns -> [prop : Props \union {None}, state : JournalStates]]
  /\ proven \subseteq Props
  /\ issued \in 0..MaxCommands
  /\ budget \in Budgets

LEMMA SpendTyped ==
  ASSUME Typed, NEW kind \in {"edits", "repairs", "crashes", "faults", "cancels"}, NEW bound,
         Spend(kind, bound)
  PROVE  budget' \in Budgets
BY DEF Typed, Budgets, Spend

(* A step of a command that touches only the record and the command.        *)
Quiet ==
  /\ UNCHANGED <<late, content, elsewhere, lock, txns, proven, issued>>
  /\ budget' = budget \/ IoError

LEMMA QuietTyped == ASSUME Typed, Quiet PROVE Typed'
<1>1. budget' \in Budgets BY SpendTyped DEF Quiet, IoError, Typed
<1>. QED BY <1>1 DEF Quiet, Typed

LEMMA QuietSteps ==
  ASSUME NEW c,
         \/ ObserveFix(c) \/ Create(c) \/ ContextPolicy(c) \/ Discard(c)
         \/ Load(c) \/ Expire(c) \/ Observe(c) \/ Stage(c)
         \/ Pending(c) \/ Issue(c) \/ Retreat(c) \/ Applying(c) \/ Rolling(c) \/ Consume(c)
         \/ Refuse(c) \/ Recheck(c) \/ Postcheck(c) \/ Undone(c)
         \/ Conclude(c) \/ Available(c) \/ Policy(c) \/ Report(c)
  PROVE  Quiet
<1>. USE DEF Quiet, storeVars, workspaceVars, engineVars, NoIoError
<1>1. CASE ObserveFix(c) \/ Create(c) \/ ContextPolicy(c) \/ Discard(c)
  BY <1>1 DEF ObserveFix, Create, ContextPolicy, Discard, RecordPolicy, RecordPolicyRefused,
              Transition, TransitionRefused
<1>2. CASE Load(c) \/ Expire(c) \/ Observe(c)
  BY <1>2 DEF Load, Expire, Observe, Transition, TransitionRefused
<1>3. CASE Stage(c)
  BY <1>3 DEF Stage, Transition, TransitionRefused
<1>4. CASE Pending(c) \/ Applying(c) \/ Rolling(c) \/ Conclude(c) \/ Available(c)
  BY <1>4 DEF Pending, Applying, Rolling, Conclude, Available, MoveOrReturn, Transition, TransitionRefused
<1>5. CASE Issue(c) \/ Retreat(c) \/ Consume(c) \/ Refuse(c)
  BY <1>5 DEF Issue, Retreat, Consume, Refuse, Transition, TransitionRefused
<1>6. CASE Recheck(c) \/ Postcheck(c) \/ Undone(c)
  BY <1>6 DEF Recheck, Postcheck, Undone
<1>7. CASE Policy(c) \/ Report(c)
  BY <1>7 DEF Policy, Report, RecordPolicy, RecordPolicyRefused
<1>. QED BY <1>1, <1>2, <1>3, <1>4, <1>5, <1>6, <1>7

LEMMA WrittenTyped ==
  ASSUME Typed, NEW p, NEW v \in Contents PROVE Written(p, v) \in [Props -> Contents]
BY DEF Typed, Written, Contents

LEMMA TxnState ==
  ASSUME Typed, NEW t \in Txns, NEW s \in JournalStates
  PROVE  [txns EXCEPT ![t].state = s] \in [Txns -> [prop : Props \union {None}, state : JournalStates]]
BY DEF Typed

LEMMA SettleTyped ==
  ASSUME Typed, NEW c, cmd[c].txn \in Txns, NEW s \in JournalStates, Settle(c, s)
  PROVE  /\ lock' \in Cmds \union {None}
         /\ txns' \in [Txns -> [prop : Props \union {None}, state : JournalStates]]
BY TxnState DEF Settle

(* The steps that run the engine.                                           *)
LEMMA EngineTyped ==
  ASSUME Inv, Typed, NEW c \in Cmds, Execute(c) \/ Executing(c) \/ Undo(c) \/ Undoing(c)
  PROVE  Typed'
<1>1. cmd[c].pc # "idle" BY DEF Execute, Executing, Undo, Undoing
<1>2. cmd[c].txn \in Txns /\ cmd[c].prop \in Props BY <1>1, Running
<1>3. UNCHANGED <<late, elsewhere, proven, issued>>
  BY DEF Execute, Executing, Undo, Undoing, storeVars
<1>4. budget' \in Budgets
  <2>1. budget' = budget \/ IoError BY DEF Execute, Executing, Undo, Undoing, NoIoError
  <2>. QED BY <2>1, SpendTyped DEF IoError, Typed
<1>5. {"partial", "proposed", "base"} \subseteq Contents
      /\ {"open", "committed", "undoing", "rolled_back", "stuck"} \subseteq JournalStates
  BY DEF Contents, JournalStates
<1>6. content' \in [Props -> Contents]
  BY <1>5, WrittenTyped DEF Typed, Execute, Executing, Undo, Undoing
<1>7. /\ lock' \in Cmds \union {None}
      /\ txns' \in [Txns -> [prop : Props \union {None}, state : JournalStates]]
  <2>1. CASE Execute(c) BY <1>2, <1>5, <2>1 DEF Execute, Typed
  <2>2. CASE Executing(c)
    <3>1. \E s \in JournalStates : Settle(c, s) BY <1>5, <2>2 DEF Executing
    <3>. QED BY <1>2, <3>1, SettleTyped
  <2>3. CASE Undo(c) BY <1>2, <1>5, <2>3, TxnState DEF Undo, Typed
  <2>4. CASE Undoing(c)
    <3>1. \E s \in JournalStates : Settle(c, s) BY <1>5, <2>4 DEF Undoing
    <3>. QED BY <1>2, <3>1, SettleTyped
  <2>. QED BY <2>1, <2>2, <2>3, <2>4
<1>. QED BY <1>3, <1>4, <1>6, <1>7 DEF Typed

LEMMA StepTyped == ASSUME Inv, Typed, NEW c \in Cmds, Step(c) PROVE Typed'
<1>1. CASE Build(c)
  <2>1. cmd[c].prop \in Props BY <1>1, Running DEF Build
  <2>2. proven' \subseteq Props BY <1>1, <2>1 DEF Build, Typed
  <2>. QED BY <1>1, <2>2 DEF Build, Typed, storeVars, workspaceVars, engineVars
<1>2. CASE Execute(c) \/ Executing(c) \/ Undo(c) \/ Undoing(c) BY <1>2, EngineTyped
<1>3. CASE ~(Build(c) \/ Execute(c) \/ Executing(c) \/ Undo(c) \/ Undoing(c))
  <2>1. Quiet BY <1>3, QuietSteps DEF Step
  <2>. QED BY <2>1, QuietTyped
<1>. QED BY <1>1, <1>2, <1>3

-----------------------------------------------------------------------------
(* The theorems.                                                            *)

LEMMA InvInit == Init => Inv
<1>. SUFFICES ASSUME Init PROVE Inv OBVIOUS
<1>1. Idle \in Commands /\ Good(Idle, rec) BY IdleGood
<1>2. TypeOK
  <2>1. MaxCommands \in Nat BY LifecycleAssumption
  <2>. QED BY <1>1, <2>1 DEF Init, TypeOK, Contents, JournalStates, Budgets
<1>3. \A c \in Cmds : cmd[c] = Idle BY DEF Init
<1>4. \A p \in Props : Applied(p, rec) BY DEF Init, Applied
<1>5. Distinct(cmd, rec) BY <1>3 DEF Distinct, Idle
<1>. QED BY <1>1, <1>2, <1>3, <1>4, <1>5 DEF Inv

(* What is left to show of a step that makes no proposal contested.         *)
LEMMA InvKept == ASSUME Inv, Preserved, Typed', contested' = contested PROVE Inv'
<1>1. \A c \in Cmds : Good(cmd[c], rec)' BY DEF Preserved, Held, Good, Allowed
<1>2. \A p \in Props : Applied(p, rec)' BY DEF Preserved, Held, Applied
<1>3. Distinct(cmd, rec)' BY DEF Preserved, Held, Distinct
<1>4. TypeOK' BY DEF Preserved, Typed, Inv, TypeOK
<1>. QED BY <1>1, <1>2, <1>3, <1>4 DEF Inv

LEMMA InvNext == ASSUME Inv, [Next]_vars PROVE Inv'
<1>0. Typed BY DEF Inv, TypeOK, Typed
<1>2. ASSUME UNCHANGED vars PROVE Preserved /\ Typed'
  <2>1. rec' = rec /\ cmd' = cmd
        /\ UNCHANGED <<late, content, elsewhere, lock, txns, proven, issued, budget>>
    BY <1>2 DEF vars, storeVars, workspaceVars, engineVars
  <2>. QED BY <1>0, <2>1, UntouchedHeld DEF Typed
<1>3. ASSUME NEW c \in Cmds, NEW p \in Props, NEW op \in Ops, Start(c, p, op) PROVE Inv'
  BY <1>3, StartHeld
<1>4. ASSUME NEW c \in Cmds, Step(c) PROVE Preserved /\ Typed'
  BY <1>0, <1>4, StepHeld, StepTyped
<1>5. ASSUME NEW c \in Cmds, Cancel(c) PROVE Preserved /\ Typed'
  <2>1. budget' \in Budgets BY <1>0, <1>5, SpendTyped DEF Cancel
  <2>. QED BY <1>0, <1>5, <2>1, CancelHeld DEF Cancel, Typed, storeVars, workspaceVars, engineVars
<1>6. ASSUME NEW c \in Cmds, Crash(c) PROVE Preserved /\ Typed'
  <2>1. budget' \in Budgets BY <1>0, <1>6, SpendTyped DEF Crash
  <2>. QED BY <1>0, <1>6, <2>1, CrashHeld DEF Crash, Typed, storeVars, workspaceVars
<1>7. ASSUME NEW p \in Props, TtlElapses(p) PROVE Preserved /\ Typed'
  BY <1>0, <1>7, UntouchedHeld DEF TtlElapses, Typed, workspaceVars, engineVars
<1>8. ASSUME UserActs PROVE Preserved /\ Typed'
  <2>1. budget' \in Budgets BY <1>0, <1>8, SpendTyped DEF UserActs
  <2>2. content' \in [Props -> Contents] /\ elsewhere' \in {"same", "dirty", "committed"}
    <3>1. {"foreign", "base"} \subseteq Contents BY DEF Contents
    <3>. QED BY <1>0, <1>8, <3>1, WrittenTyped DEF UserActs, Typed
  <2>. QED BY <1>0, <1>8, <2>1, <2>2, UntouchedHeld DEF UserActs, Typed, storeVars, engineVars
<1>9. ASSUME NEW t \in Txns, Repair(t) PROVE Preserved /\ Typed'
  <2>1. budget' \in Budgets BY <1>0, <1>9, SpendTyped DEF Repair
  <2>2. txns' \in [Txns -> [prop : Props \union {None}, state : JournalStates]]
    <3>1. {"rolled_back", "stuck"} \subseteq JournalStates BY DEF JournalStates
    <3>. QED BY <1>0, <1>9, <3>1, TxnState DEF Repair
  <2>3. content' \in [Props -> Contents]
    <3>1. "base" \in Contents BY DEF Contents
    <3>. QED BY <1>0, <1>9, <3>1, WrittenTyped DEF Repair, Typed
  <2>. QED BY <1>0, <1>9, <2>1, <2>2, <2>3, UntouchedHeld DEF Repair, Typed, storeVars
<1>10. CASE UNCHANGED vars BY <1>2, <1>10, InvKept DEF vars
<1>11. CASE \E c \in Cmds : Works(c) BY <1>4, <1>11, InvKept DEF Works
<1>12. CASE Environment /\ UNCHANGED contested
  BY <1>5, <1>6, <1>7, <1>8, <1>9, <1>12, InvKept DEF Environment
<1>. QED BY <1>3, <1>10, <1>11, <1>12 DEF Next

(* Every variable keeps its type: records, commands, journals and budgets,  *)
(* for any number of proposals, processes and disturbances.                 *)
THEOREM TypeCorrect == Spec => []TypeOK
<1>1. Inv /\ [Next]_vars => Inv' BY InvNext
<1>2. Inv => TypeOK BY DEF Inv
<1>. QED BY <1>1, <1>2, InvInit, PTL DEF Spec

LEMMA InvSection == Inv => StateIsLock
<1>. SUFFICES ASSUME Inv, NEW c \in Cmds, cmd[c].prop # None, cmd[c].prop \notin contested,
                     rec[cmd[c].prop] # None
              PROVE  rec[cmd[c].prop].state \in Section(c)
  BY DEF StateIsLock
<1>1. cmd[c].op # "none" /\ Good(cmd[c], rec) BY DEF Inv, Good, Idle
<1>2. rec[cmd[c].prop].state \in Allowed(cmd[c]) /\ cmd[c].prop \in Props BY <1>1 DEF Good
<1>3. rec[cmd[c].prop].state \in States
  BY <1>2 DEF Inv, TypeOK, Records
<1>4. CASE cmd[c].pc \in {"write", "build_start", "build", "available"}
  <2>0. cmd[c].op # "rollback"
    BY <1>1, <1>4 DEF Good, OpPcs, Verification, Engine
  <2>1. CASE cmd[c].pc = "write"
    <3>1. rec[cmd[c].prop].state = "worktree_prepared" BY <1>2, <2>0, <2>1 DEF Allowed, Relied, Engine
    <3>2. "worktree_prepared" \in Section(c) BY <2>1 DEF Section
    <3>. QED BY <3>1, <3>2
  <2>2. CASE cmd[c].pc = "build_start"
    <3>1. rec[cmd[c].prop].state = "worktree_applied" BY <1>2, <2>0, <2>2 DEF Allowed, Relied, Engine
    <3>2. "worktree_applied" \in Section(c) BY <2>2 DEF Section
    <3>. QED BY <3>1, <3>2
  <2>3. CASE cmd[c].pc = "build"
    <3>1. rec[cmd[c].prop].state = "build_running" BY <1>2, <2>0, <2>3 DEF Allowed, Relied, Engine
    <3>2. "build_running" \in Section(c) BY <2>3 DEF Section
    <3>. QED BY <3>1, <3>2
  <2>4. CASE cmd[c].pc = "available"
    <3>1. rec[cmd[c].prop].state = "applied" BY <1>2, <2>0, <2>4 DEF Allowed, Relied, Engine
    <3>2. "applied" \in Section(c) BY <2>4 DEF Section
    <3>. QED BY <3>1, <3>2
  <2>. QED BY <1>4, <2>1, <2>2, <2>3, <2>4
<1>5. CASE cmd[c].op \in {"apply", "rollback"} /\ cmd[c].pc \in Engine
  BY <1>2, <1>5 DEF Allowed, Relied, Section, Engine
<1>6. CASE ~(\/ cmd[c].pc \in {"write", "build_start", "build", "available"}
             \/ cmd[c].op \in {"apply", "rollback"} /\ cmd[c].pc \in Engine)
  BY <1>3, <1>6 DEF Section, Engine
<1>. QED BY <1>4, <1>5, <1>6

(* The recorded state is the proposal's lock (can_transition_to): between   *)
(* two transitions of a verification, an apply or a rollback, no other      *)
(* command, expiry, crash, error, cancellation or edit moves the record.    *)
(* A proposal on which a command was run twice at once is excepted: two     *)
(* applies of one proposal do disturb each other.                           *)
THEOREM StateIsLockHolds == Spec => []StateIsLock
<1>1. Inv /\ [Next]_vars => Inv' BY InvNext
<1>. QED BY <1>1, InvInit, InvSection, PTL DEF Spec

-----------------------------------------------------------------------------
(* What the reports say, and what a proposal leaves in the workspace.       *)

(* An apply before its transaction is opened, and after its record says     *)
(* that it is being applied.                                                *)
BeforeOpen == {"load", "expire", "observe", "pending", "issue", "retreat", "applying",
               "consume", "refuse", "execute"}
PastApplying == Engine \union {"available", "policy", "report"}

Committed(p, t) == txns[t].prop = p /\ txns[t].state \notin {"none", "open"}

Succeeded(p) == rec[p] # None /\ rec[p].apply # None /\ rec[p].apply.success

(* What a command knows of its transaction, of its proposal and of the      *)
(* files.  An apply that has not failed yet finds none of its changes; a    *)
(* rollback works on the transaction of the successful apply on record.     *)
Knows(k) ==
  /\ k.op # "none" => k.txn <= issued
  /\ k.op \in {"fix", "verify"} /\ k.ok => k.prop \in proven
  /\ k.op = "apply" =>
       /\ k.pc \notin {"load", "expire"} => k.prop \in proven
       /\ k.pc \in BeforeOpen => txns[k.txn].state = "none"
       /\ k.pc = "executing" => txns[k.txn].prop = k.prop
       /\ k.pc \in {"postcheck", "undo", "undoing", "undone"} \/ k.ok => Committed(k.prop, k.txn)
       /\ k.pc \in PastApplying /\ k.prop \notin contested => ~Succeeded(k.prop)
       /\ /\ \/ k.pc \in BeforeOpen \ {"load", "expire", "observe"}
             \/ k.pc = "conclude" /\ k.next = "verified"
          /\ k.prop \notin contested
          => content[k.prop] \notin {"proposed", "partial"}
  /\ k.op = "rollback" /\ k.pc # "load" => Committed(k.prop, k.txn)
  /\ k.op = "rollback" /\ k.pc # "load" /\ k.prop \notin contested =>
       /\ Succeeded(k.prop) /\ rec[k.prop].apply.txn = k.txn
       /\ k.result = "rolled_back" \/ k.next = "rolled_back" => txns[k.txn].state = "rolled_back"
  /\ k.op = "rollback" /\ k.pc \notin {"undone", "conclude", "policy", "report"} =>
       k.result # "rolled_back" /\ k.next # "rolled_back"

Recorded(p) ==
  rec[p] # None =>
    /\ rec[p].verification = "passed" => p \in proven
    /\ Succeeded(p) => Committed(p, rec[p].apply.txn)
    /\ rec[p].state = "rolled_back" /\ p \notin contested =>
         Succeeded(p) /\ txns[rec[p].apply.txn].state = "rolled_back"

OwnTxns ==
  \A c, d \in Cmds :
    c # d /\ cmd[c].op \notin {"none", "rollback"} /\ cmd[d].op \notin {"none", "rollback"} =>
      cmd[c].txn # cmd[d].txn

Told ==
  /\ \A c \in Cmds : \E k \in {cmd[c]} : Knows(k)
  /\ \A p \in Props : Recorded(p)
  /\ \A t \in Txns : txns[t].state # "none" => t <= issued
  /\ OwnTxns

(* The step only adds to what was started, proved and committed.            *)
Grows ==
  /\ issued <= issued' /\ proven \subseteq proven' /\ contested \subseteq contested'
  /\ \A t \in Txns : txns[t].state # "none" =>
       /\ txns'[t].prop = txns[t].prop /\ txns'[t].state # "none"
       /\ txns[t].state # "open" => txns'[t].state # "open"

Wrote(p) == content[p] \in {"proposed", "partial"}

(* The step takes nothing away from what the command k knows.               *)
Leaves(k) ==
  /\ k.op = "apply" =>
       /\ txns[k.txn].state = "none" /\ k.pc \in BeforeOpen => txns'[k.txn].state = "none"
       /\ k.pc = "executing" => txns'[k.txn].prop = txns[k.txn].prop
       /\ k.prop \notin contested /\ k.pc \in PastApplying /\ ~Succeeded(k.prop) => ~Succeeded(k.prop)'
       /\ k.prop \notin contested /\ ~Wrote(k.prop) => ~Wrote(k.prop)'
  /\ k.op = "rollback" /\ k.pc # "load" /\ k.prop \notin contested /\ Succeeded(k.prop) /\ rec[k.prop].apply.txn = k.txn =>
       /\ Succeeded(k.prop)' /\ rec'[k.prop].apply.txn = k.txn
       /\ txns[k.txn].state = "rolled_back" => txns'[k.txn].state = "rolled_back"

LEMMA KnowsKept ==
  ASSUME NEW k, k.op # "none" => k.prop \in Props /\ k.txn \in Txns,
         Inv, issued' \in 0..MaxCommands, k.txn \in Int, Grows, Leaves(k), Knows(k)
  PROVE  Knows(k)'
<1>1. issued \in Int /\ issued' \in Int BY LifecycleAssumption DEF Inv, TypeOK
<1>2. (k.op # "none" => k.txn <= issued)' BY <1>1 DEF Grows, Knows
<1>3. (k.op \in {"fix", "verify"} /\ k.ok => k.prop \in proven)' BY DEF Grows, Knows
<1>4. CASE k.op = "apply"
  <2>1. Committed(k.prop, k.txn) => Committed(k.prop, k.txn)' BY <1>4 DEF Grows, Committed
  <2>. QED BY <1>2, <1>4, <2>1 DEF Grows, Leaves, Knows, Wrote
<1>5. CASE k.op = "rollback"
  <2>1. Committed(k.prop, k.txn) => Committed(k.prop, k.txn)' BY <1>5 DEF Grows, Committed
  <2>. QED BY <1>2, <1>5, <2>1 DEF Grows, Leaves, Knows
<1>6. CASE k.op \notin {"apply", "rollback"}
  BY <1>2, <1>3, <1>6 DEF Knows
<1>. QED BY <1>4, <1>5, <1>6

(* What a command is, whether it runs or not.                               *)
LEMMA CommandShape ==
  ASSUME Inv, NEW d \in Cmds
  PROVE  /\ cmd[d] \in Commands /\ cmd[d].txn \in Int
         /\ cmd[d].op # "none" => cmd[d].prop \in Props /\ cmd[d].txn \in Txns
<1>1. cmd[d] \in Commands /\ Good(cmd[d], rec) BY DEF Inv, TypeOK
<1>2. MaxCommands \in Nat BY LifecycleAssumption
<1>. QED BY <1>1, <1>2 DEF Good, Commands, Txns

(* A step of c, which goes on as m: the other commands know what they knew. *)
LEMMA ToldStep ==
  ASSUME Inv, Told, NEW c \in Cmds, NEW m, cmd' = [cmd EXCEPT ![c] = m],
         \/ m.op = "none"
         \/ m.op = cmd[c].op /\ (m.txn = cmd[c].txn \/ m.op = "rollback")
         \/ \A d \in Cmds \ {c} : cmd[d].op # "none" => cmd[d].txn # m.txn,
         issued' \in 0..MaxCommands, Grows,
         \A d \in Cmds \ {c} : \E k \in {cmd[d]} : Leaves(k),
         Knows(m)', \A p \in Props : Recorded(p)',
         \A t \in Txns : txns'[t].state # "none" => t <= issued'
  PROVE  Told'
<1>1. cmd'[c] = m /\ \A d \in Cmds \ {c} : cmd'[d] = cmd[d] BY DEF Inv, TypeOK
<1>2. ASSUME NEW d \in Cmds PROVE \E k \in {cmd'[d]} : Knows(k)'
  <2>1. CASE d = c BY <1>1, <2>1
  <2>2. CASE d # c
    <3>1. PICK k \in {cmd[d]} : Leaves(k) BY <2>2
    <3>2. Knows(k) BY <3>1 DEF Told
    <3>3. (k.op # "none" => k.prop \in Props /\ k.txn \in Txns) /\ k.txn \in Int BY CommandShape
    <3>4. Knows(k)' BY <3>1, <3>2, <3>3, KnowsKept
    <3>5. k = cmd'[d] BY <1>1, <2>2
    <3>. QED BY <3>4, <3>5
  <2>. QED BY <2>1, <2>2
<1>3. OwnTxns' BY <1>1 DEF Told, OwnTxns
<1>. QED BY <1>2, <1>3 DEF Told

(* A step that runs no transaction and writes nothing but the store: it     *)
(* leaves the reports alone, and makes a proposal rolled back only if its   *)
(* transaction is.                                                          *)
RolledBack(p) == Succeeded(p) /\ txns[rec[p].apply.txn].state = "rolled_back"

MildRecord(p) ==
  \/ rec'[p] = rec[p]
  \/ rec[p] = None /\ rec'[p] # None /\ rec'[p].apply = None /\ rec'[p].verification = "none"
     /\ rec'[p].state = "validated"
  \/ /\ rec[p] # None /\ rec'[p] # None
     /\ rec'[p].apply = rec[p].apply /\ rec'[p].verification = rec[p].verification
     /\ rec'[p].state = "rolled_back" =>
          rec[p].state = "rolled_back" \/ RolledBack(p) \/ p \in contested

Mild ==
  /\ UNCHANGED <<txns, content, proven, issued>>
  /\ \A p \in Props : MildRecord(p)

LEMMA MildSucceeded ==
  ASSUME NEW p, MildRecord(p)
  PROVE  /\ Succeeded(p)' <=> Succeeded(p)
         /\ Succeeded(p) => rec'[p].apply = rec[p].apply
BY DEF MildRecord, Succeeded

LEMMA MildRecorded ==
  ASSUME NEW p \in Props, Mild, Recorded(p), UNCHANGED contested
  PROVE  Recorded(p)'
<1>1. MildRecord(p) /\ txns' = txns /\ proven' = proven BY DEF Mild
<1>2. (Succeeded(p)' <=> Succeeded(p)) /\ (Succeeded(p) => rec'[p].apply = rec[p].apply)
  BY <1>1, MildSucceeded
<1>3. ASSUME Succeeded(p)' PROVE Committed(p, rec[p].apply.txn)'
  BY <1>1, <1>2, <1>3 DEF Recorded, Succeeded, Committed
<1>4. ASSUME rec'[p] # None, rec'[p].verification = "passed" PROVE p \in proven'
  BY <1>1, <1>4 DEF MildRecord, Recorded
<1>5. ASSUME rec'[p] # None, rec'[p].state = "rolled_back", p \notin contested
      PROVE  Succeeded(p)' /\ txns'[rec'[p].apply.txn].state = "rolled_back"
  <2>1. Succeeded(p) /\ txns[rec[p].apply.txn].state = "rolled_back"
    BY <1>1, <1>5 DEF MildRecord, Recorded, RolledBack
  <2>. QED BY <1>1, <1>2, <2>1
<1>. QED BY <1>3, <1>4, <1>5 DEF Recorded

LEMMA MildLeaves ==
  ASSUME Mild, NEW k, k.op # "none" => k.prop \in Props PROVE Leaves(k)
<1>1. txns' = txns /\ content' = content BY DEF Mild
<1>2. CASE k.op = "apply"
  <2>1. Succeeded(k.prop)' <=> Succeeded(k.prop) BY <1>2, MildSucceeded DEF Mild
  <2>. QED BY <1>1, <1>2, <2>1 DEF Leaves, Wrote
<1>3. CASE k.op = "rollback"
  <2>1. /\ Succeeded(k.prop)' <=> Succeeded(k.prop)
        /\ Succeeded(k.prop) => rec'[k.prop].apply = rec[k.prop].apply
    BY <1>3, MildSucceeded DEF Mild
  <2>. QED BY <1>1, <1>3, <2>1 DEF Leaves
<1>4. CASE k.op \notin {"apply", "rollback"} BY <1>4 DEF Leaves
<1>. QED BY <1>2, <1>3, <1>4

LEMMA MildGrows == ASSUME Inv, Mild, UNCHANGED contested PROVE Grows /\ issued' \in 0..MaxCommands
<1>1. issued \in 0..MaxCommands /\ MaxCommands \in Nat BY LifecycleAssumption DEF Inv, TypeOK
<1>. QED BY <1>1 DEF Mild, Grows

(* What is left to show of such a step: what the command that takes it      *)
(* knows afterwards.                                                        *)
LEMMA MildTold ==
  ASSUME Inv, Told, UNCHANGED contested, NEW c \in Cmds, NEW m, cmd' = [cmd EXCEPT ![c] = m], Mild,
         m.op = "none" \/ (m.op = cmd[c].op /\ (m.txn = cmd[c].txn \/ m.op = "rollback")),
         m.op # "none" => m.prop \in Props /\ m.txn \in Txns, m.txn \in Int, Knows(m)
  PROVE  Told'
<1>1. Grows /\ issued' \in 0..MaxCommands BY MildGrows
<1>2. Knows(m)'
  <2>1. Leaves(m) BY MildLeaves
  <2>. QED BY <1>1, <2>1, KnowsKept
<1>3. ASSUME NEW d \in Cmds \ {c} PROVE \E k \in {cmd[d]} : Leaves(k)
  <2>1. PICK k \in {cmd[d]} : TRUE OBVIOUS
  <2>2. k.op # "none" => k.prop \in Props BY CommandShape
  <2>. QED BY <2>2, MildLeaves
<1>4. \A p \in Props : Recorded(p)' BY MildRecorded DEF Told
<1>5. \A t \in Txns : txns'[t].state # "none" => t <= issued' BY DEF Told, Mild
<1>. QED BY <1>1, <1>2, <1>3, <1>4, <1>5, ToldStep

-----------------------------------------------------------------------------
(* The steps that run no transaction.                                       *)

(* The reports survive the changes of state and of the policy count.        *)
LEMMA StateChangedKeeps ==
  ASSUME NEW r \in Records, NEW n \in States PROVE [r EXCEPT !.state = n].verification = r.verification
BY DEF Records

LEMMA PolicyChanged ==
  ASSUME NEW r \in Records, NEW n \in Nat
  PROVE  LET new == [r EXCEPT !.policy = @ + n] IN
         /\ new \in Records /\ new.state = r.state /\ new.apply = r.apply
         /\ new.verification = r.verification
BY DEF Records

LEMMA NumberedKeeps ==
  ASSUME NEW r \in Records PROVE [r EXCEPT !.generations = @ + 1].verification = r.verification
BY DEF Records

LEMMA TransitionMild ==
  ASSUME Inv, NEW p \in Props, NEW n \in States, Transition(p, n),
         n = "rolled_back" => RolledBack(p) \/ p \in contested
  PROVE  \A q \in Props : MildRecord(q)
<1>. DEFINE changed == [rec[p] EXCEPT !.state = n]
            r == [changed EXCEPT !.generations = @ + 1]
<1>1. rec \in [Props -> Records \union {None}] /\ rec[p] # None /\ rec[p] \in Records
  BY DEF Inv, TypeOK, Transition, Readable
<1>2. rec' = [rec EXCEPT ![p] = r] BY DEF Transition, Publish
<1>3. r \in Records /\ r.state = n /\ r.apply = rec[p].apply /\ r.verification = rec[p].verification
  <2>1. /\ changed \in Records /\ changed.state = n /\ changed.apply = rec[p].apply
        /\ changed.verification = rec[p].verification
    BY <1>1, StateChanged, StateChangedKeeps
  <2>. HIDE DEF changed
  <2>. QED BY <2>1, Numbered, NumberedKeeps
<1>. HIDE DEF r
<1>4. r # None BY <1>3, RecordNotNone
<1>. QED BY <1>1, <1>2, <1>3, <1>4 DEF MildRecord

LEMMA PolicyMild ==
  ASSUME Inv, NEW p \in Props, NEW n \in Nat, RecordPolicy(p, n)
  PROVE  \A q \in Props : MildRecord(q)
<1>. DEFINE changed == [rec[p] EXCEPT !.policy = @ + n]
            r == [changed EXCEPT !.generations = @ + 1]
<1>1. rec \in [Props -> Records \union {None}] /\ rec[p] # None /\ rec[p] \in Records
  BY DEF Inv, TypeOK, RecordPolicy, Readable
<1>2. rec' = [rec EXCEPT ![p] = r] BY DEF RecordPolicy, Publish
<1>3. /\ r \in Records /\ r.state = rec[p].state /\ r.apply = rec[p].apply
      /\ r.verification = rec[p].verification
  <2>1. /\ changed \in Records /\ changed.state = rec[p].state /\ changed.apply = rec[p].apply
        /\ changed.verification = rec[p].verification
    BY <1>1, PolicyChanged
  <2>. HIDE DEF changed
  <2>. QED BY <2>1, Numbered, NumberedKeeps
<1>. HIDE DEF r
<1>4. r # None BY <1>3, RecordNotNone
<1>. QED BY <1>1, <1>2, <1>3, <1>4 DEF MildRecord

LEMMA SameMild == ASSUME rec' = rec PROVE \A q \in Props : MildRecord(q)
BY DEF MildRecord

LEMMA QuietMild == ASSUME Quiet, \A q \in Props : MildRecord(q) PROVE Mild
BY DEF Quiet, Mild

LEMMA IdleKnows == Knows(Idle) /\ Idle.op = "none" /\ Idle.txn \in Int
BY DEF Idle, Knows

LEMMA MildReturns ==
  ASSUME Inv, Told, UNCHANGED contested, NEW c \in Cmds, Mild, Return(c) PROVE Told'
BY IdleKnows, MildTold DEF Return

(* The command goes on with what it had.                                    *)
Alike(k, m) ==
  /\ m.op = k.op /\ m.prop = k.prop /\ m.txn = k.txn
  /\ m.next = k.next /\ m.ok = k.ok /\ m.result = k.result

LEMMA MildGoes ==
  ASSUME Inv, Told, UNCHANGED contested, NEW c \in Cmds, cmd[c].pc # "idle", Mild, NEW m, cmd' = [cmd EXCEPT ![c] = m],
         m.op = cmd[c].op, m.prop = cmd[c].prop, m.txn = cmd[c].txn, Knows(m)
  PROVE  Told'
<1>1. cmd[c].prop \in Props /\ cmd[c].txn \in Txns /\ cmd[c].txn \in Int
  BY Running, CommandShape
<1>. QED BY <1>1, MildTold

LEMMA Redirected ==
  ASSUME Inv, NEW c \in Cmds, NEW l,
         \/ Goto(c, l)
         \/ \E n : cmd' = [cmd EXCEPT ![c].pc = l, ![c].decisions = n]
         \/ \E b : cmd' = [cmd EXCEPT ![c].pc = l, ![c].bound = b]
         \/ \E b : cmd' = [cmd EXCEPT ![c].pc = l, ![c].silent = b]
  PROVE  \E m : cmd' = [cmd EXCEPT ![c] = m] /\ Alike(cmd[c], m) /\ m.pc = l
<1>1. cmd \in [Cmds -> Commands] /\ cmd[c] \in Commands BY DEF Inv, TypeOK
<1>2. CASE Goto(c, l)
  <2>. DEFINE m == [cmd[c] EXCEPT !.pc = l]
  <2>1. cmd' = [cmd EXCEPT ![c] = m] BY <1>1, <1>2 DEF Goto
  <2>2. Alike(cmd[c], m) /\ m.pc = l BY <1>1 DEF Commands, Alike
  <2>. QED BY <2>1, <2>2
<1>3. ASSUME NEW n, cmd' = [cmd EXCEPT ![c].pc = l, ![c].decisions = n]
      PROVE  \E m : cmd' = [cmd EXCEPT ![c] = m] /\ Alike(cmd[c], m) /\ m.pc = l
  <2>. DEFINE m == [cmd[c] EXCEPT !.pc = l, !.decisions = n]
  <2>1. cmd' = [cmd EXCEPT ![c] = m] BY <1>1, <1>3, ZenonT(60)
  <2>2. Alike(cmd[c], m) /\ m.pc = l BY <1>1 DEF Commands, Alike
  <2>. QED BY <2>1, <2>2
<1>4. ASSUME NEW b, cmd' = [cmd EXCEPT ![c].pc = l, ![c].bound = b]
      PROVE  \E m : cmd' = [cmd EXCEPT ![c] = m] /\ Alike(cmd[c], m) /\ m.pc = l
  <2>. DEFINE m == [cmd[c] EXCEPT !.pc = l, !.bound = b]
  <2>1. cmd' = [cmd EXCEPT ![c] = m] BY <1>1, <1>4, ZenonT(60)
  <2>2. Alike(cmd[c], m) /\ m.pc = l BY <1>1 DEF Commands, Alike
  <2>. QED BY <2>1, <2>2
<1>5. ASSUME NEW b, cmd' = [cmd EXCEPT ![c].pc = l, ![c].silent = b]
      PROVE  \E m : cmd' = [cmd EXCEPT ![c] = m] /\ Alike(cmd[c], m) /\ m.pc = l
  <2>. DEFINE m == [cmd[c] EXCEPT !.pc = l, !.silent = b]
  <2>1. cmd' = [cmd EXCEPT ![c] = m] BY <1>1, <1>5, ZenonT(60)
  <2>2. Alike(cmd[c], m) /\ m.pc = l BY <1>1 DEF Commands, Alike
  <2>. QED BY <2>1, <2>2
<1>. QED BY <1>2, <1>3, <1>4, <1>5

(* A verification, /diff and /discard keep only their result and number.    *)
LEMMA VerifyKnows ==
  ASSUME NEW k, NEW m, Knows(k), k.op \in {"fix", "verify", "diff", "discard"},
         m.op = k.op, m.prop = k.prop, m.txn = k.txn, m.ok => k.ok
  PROVE  Knows(m)
BY DEF Knows

(* An apply that goes on, where it learns nothing it must know.             *)
LEMMA ApplyKnows ==
  ASSUME NEW k, NEW m, Knows(k), k.op = "apply", Alike(k, m),
         \/ k.pc = "load" /\ m.pc = "expire"
         \/ k.pc = "pending" /\ m.pc = "issue"
         \/ k.pc = "issue" /\ m.pc \in {"applying", "retreat"}
         \/ k.pc = "consume" /\ m.pc \in {"execute", "refuse"}
         \/ k.pc \in {"refuse", "conclude", "available"} /\ m.pc = "policy"
         \/ k.pc = "conclude" /\ m.pc = "available"
         \/ k.pc = "execute" /\ m.pc = "recheck"
         \/ k.pc = "postcheck" /\ m.pc = "undo"
         \/ k.pc = "policy" /\ m.pc = "report"
  PROVE  Knows(m)
BY DEF Knows, Alike, BeforeOpen, PastApplying, Engine

(* A rollback that goes on.                                                 *)
LEMMA RollbackKnows ==
  ASSUME NEW k, NEW m, Knows(k), k.op = "rollback", Alike(k, m), k.pc # "load", m.pc # "load",
         m.pc \notin {"undone", "conclude", "policy", "report"}
           => k.pc \notin {"undone", "conclude", "policy", "report"}
  PROVE  Knows(m)
BY DEF Knows, Alike

(* The steps that change no more than the place of a command.               *)
LEMMA PlainTold ==
  ASSUME Inv, Told, UNCHANGED contested, NEW c \in Cmds,
         \/ ObserveFix(c) \/ Create(c) \/ ContextPolicy(c) \/ Discard(c) \/ Expire(c)
         \/ Retreat(c) \/ Issue(c) \/ Consume(c)
  PROVE  Told'
<1>1. Quiet BY QuietSteps
<1>2. cmd[c].pc # "idle"
  BY DEF ObserveFix, Create, ContextPolicy, Discard, Expire, Retreat, Issue, Consume
<1>3. PICK k \in {cmd[c]} : Knows(k) BY DEF Told
<1>4. cmd[c].prop \in Props /\ cmd[c].pc \in OpPcs(cmd[c].op) /\ cmd[c].op \in Ops BY <1>2, Running
<1>5. CASE ObserveFix(c)
  <2>1. Mild BY <1>1, <1>5, SameMild, QuietMild DEF ObserveFix, storeVars
  <2>2. CASE Return(c) BY <2>1, <2>2, MildReturns
  <2>3. CASE Goto(c, "create")
    <3>1. PICK m : cmd' = [cmd EXCEPT ![c] = m] /\ Alike(cmd[c], m) BY <2>3, Redirected
    <3>2. k.op = "fix" BY <1>3, <1>4, <1>5 DEF ObserveFix, OpPcs, Ops, Verification, Engine
    <3>3. Knows(m) BY <1>3, <3>1, <3>2, VerifyKnows DEF Alike
    <3>. QED BY <1>2, <2>1, <3>1, <3>3, MildGoes DEF Alike
  <2>. QED BY <1>5, <2>2, <2>3 DEF ObserveFix
<1>6. CASE Create(c)
  <2>1. k.op = "fix" BY <1>3, <1>4, <1>6 DEF Create, OpPcs, Ops, Verification, Engine
  <2>2. rec[cmd[c].prop] = None BY <1>2, <1>6, Running DEF Create, Inv, Good
  <2>3. \A q \in Props : MildRecord(q)
    <3>. DEFINE r == [state |-> "validated", generations |-> 1, policy |-> 0,
                      verification |-> "none", apply |-> None, rollback |-> "none"]
    <3>1. r \in Records BY DEF Records, States
    <3>2. r # None BY <3>1, RecordNotNone
    <3>3. r.apply = None /\ r.verification = "none" /\ r.state = "validated" OBVIOUS
    <3>. HIDE DEF r
    <3>4. rec' = rec \/ rec' = [rec EXCEPT ![cmd[c].prop] = r] BY <1>6 DEF Create, r
    <3>5. rec \in [Props -> Records \union {None}] BY DEF Inv, TypeOK
    <3>. QED BY <1>4, <2>2, <3>2, <3>3, <3>4, <3>5 DEF MildRecord
  <2>4. Mild BY <1>1, <2>3, QuietMild
  <2>5. CASE Return(c) BY <2>4, <2>5, MildReturns
  <2>6. CASE Goto(c, "context_policy")
    <3>1. PICK m : cmd' = [cmd EXCEPT ![c] = m] /\ Alike(cmd[c], m) BY <2>6, Redirected
    <3>3. Knows(m) BY <1>3, <3>1, <2>1, VerifyKnows DEF Alike
    <3>. QED BY <1>2, <2>4, <3>1, <3>3, MildGoes DEF Alike
  <2>. QED BY <1>6, <2>5, <2>6 DEF Create
<1>7. CASE ContextPolicy(c)
  <2>1. k.op = "fix" BY <1>3, <1>4, <1>7 DEF ContextPolicy, OpPcs, Ops, Verification, Engine
  <2>2. Mild BY <1>1, <1>4, <1>7, PolicyMild, SameMild, QuietMild DEF ContextPolicy, RecordPolicyRefused
  <2>5. CASE Return(c) BY <2>2, <2>5, MildReturns
  <2>6. CASE Goto(c, "load")
    <3>1. PICK m : cmd' = [cmd EXCEPT ![c] = m] /\ Alike(cmd[c], m) BY <2>6, Redirected
    <3>3. Knows(m) BY <1>3, <3>1, <2>1, VerifyKnows DEF Alike
    <3>. QED BY <1>2, <2>2, <3>1, <3>3, MildGoes DEF Alike
  <2>. QED BY <1>7, <2>5, <2>6 DEF ContextPolicy
<1>8. CASE Discard(c) \/ Expire(c) \/ Retreat(c)
  <2>1. PICK n \in {"discarded", "expired", "verified"} :
          Transition(cmd[c].prop, n) \/ TransitionRefused(cmd[c].prop, n)
    BY <1>8 DEF Discard, Expire, Retreat
  <2>2. n \in States /\ n # "rolled_back" BY DEF States
  <2>3. Mild BY <1>1, <1>4, <2>1, <2>2, TransitionMild, SameMild, QuietMild DEF TransitionRefused
  <2>4. Return(c) BY <1>8 DEF Discard, Expire, Retreat
  <2>. QED BY <2>3, <2>4, MildReturns
<1>9. CASE Issue(c)
  <2>1. k.op = "apply" /\ k.pc = "issue"
    BY <1>3, <1>4, <1>9 DEF Issue, OpPcs, Ops, Verification, Engine
  <2>2. Mild BY <1>1, <1>9, SameMild, QuietMild DEF Issue, storeVars
  <2>3. PICK l \in {"applying", "retreat"} :
          Goto(c, l) \/ \E b : cmd' = [cmd EXCEPT ![c].pc = l, ![c].bound = b]
    BY <1>9 DEF Issue
  <2>4. PICK m : cmd' = [cmd EXCEPT ![c] = m] /\ Alike(cmd[c], m) /\ m.pc = l BY <2>3, Redirected
  <2>5. Knows(m) BY <1>3, <2>1, <2>4, ApplyKnows
  <2>. QED BY <1>2, <2>2, <2>4, <2>5, MildGoes DEF Alike
<1>10. CASE Consume(c)
  <2>1. k.op \in {"apply", "rollback"} /\ k.pc = "consume"
    BY <1>3, <1>4, <1>10 DEF Consume, OpPcs, Ops, Verification, Engine
  <2>2. Mild BY <1>1, <1>10, SameMild, QuietMild DEF Consume, storeVars
  <2>3. PICK l \in {"execute", "undo", "refuse"} :
          /\ l = "execute" => k.op = "apply"
          /\ l = "undo" => k.op = "rollback"
          /\ Goto(c, l) \/ \E n : cmd' = [cmd EXCEPT ![c].pc = l, ![c].decisions = n]
    BY <1>3, <1>10, <2>1 DEF Consume
  <2>4. PICK m : cmd' = [cmd EXCEPT ![c] = m] /\ Alike(cmd[c], m) /\ m.pc = l BY <2>3, Redirected
  <2>5. Knows(m) BY <1>3, <2>1, <2>3, <2>4, ApplyKnows, RollbackKnows
  <2>. QED BY <1>2, <2>2, <2>4, <2>5, MildGoes DEF Alike
<1>. QED BY <1>5, <1>6, <1>7, <1>8, <1>9, <1>10

(* The record is read: an apply learns that its proposal was verified, a    *)
(* rollback which transaction committed it.                                 *)
LEMMA LoadTold == ASSUME Inv, Told, UNCHANGED contested, NEW c \in Cmds, Load(c) PROVE Told'
<1>1. Quiet BY QuietSteps
<1>2. cmd[c].pc = "load" BY DEF Load
<1>3. PICK k \in {cmd[c]} : Knows(k) BY DEF Told
<1>4. cmd[c].prop \in Props /\ cmd[c].pc \in OpPcs(cmd[c].op) /\ cmd[c].op \in Ops
      /\ rec[cmd[c].prop] \in Records /\ cmd[c] \in Commands /\ rec[cmd[c].prop] # None
  BY <1>2, Running
<1>5. Mild BY <1>1, SameMild, QuietMild DEF Load, storeVars
<1>6. CASE Return(c) BY <1>5, <1>6, MildReturns
<1>7. CASE Goto(c, "expire") /\ cmd[c].op # "rollback"
  <2>1. PICK m : cmd' = [cmd EXCEPT ![c] = m] /\ Alike(cmd[c], m) /\ m.pc = "expire"
    BY <1>7, Redirected
  <2>2. Knows(m)
    BY <1>2, <1>3, <1>4, <1>7, <2>1, ApplyKnows, VerifyKnows DEF Ops, Alike
  <2>. QED BY <1>2, <1>5, <2>1, <2>2, MildGoes DEF Alike
<1>8. CASE /\ Preconditions(cmd[c].op, rec[cmd[c].prop])
           /\ cmd' = [cmd EXCEPT ![c].pc = "observe",
                        ![c].txn = IF cmd[c].op = "rollback" THEN rec[cmd[c].prop].apply.txn ELSE @]
  <2>. DEFINE t == IF cmd[c].op = "rollback" THEN rec[cmd[c].prop].apply.txn ELSE cmd[c].txn
              n == [cmd[c] EXCEPT !.pc = "observe", !.txn = t]
  <2>1. cmd' = [cmd EXCEPT ![c] = n] BY <1>8
  <2>2. /\ n.pc = "observe" /\ n.txn = t /\ n.op = cmd[c].op /\ n.prop = cmd[c].prop
        /\ n.next = cmd[c].next /\ n.ok = cmd[c].ok /\ n.result = cmd[c].result
    BY <1>4 DEF Commands
  <2>. HIDE DEF n, t
  <2>3. PICK m \in {n} : TRUE OBVIOUS
  <2>4. cmd[c].txn \in Txns BY <1>2, Running
  <2>5. CASE cmd[c].op = "rollback"
    <3>1. /\ Succeeded(cmd[c].prop) /\ t = rec[cmd[c].prop].apply.txn
      BY <1>4, <1>8, <2>5 DEF Preconditions, Succeeded, t
    <3>2. t \in Txns
      BY <1>4, <3>1 DEF Succeeded, Records, ApplyReports
    <3>3. Committed(cmd[c].prop, t) BY <1>4, <3>1 DEF Told, Recorded
    <3>4. t <= issued BY <3>2, <3>3 DEF Told, Committed
    <3>5. k.result # "rolled_back" /\ k.next # "rolled_back" BY <1>2, <1>3, <2>5 DEF Knows
    <3>6. Knows(m) BY <1>3, <2>2, <2>3, <2>5, <3>1, <3>3, <3>4, <3>5 DEF Knows
    <3>7. t \in Int BY <3>2, LifecycleAssumption DEF Txns
    <3>. QED BY <1>4, <1>5, <2>1, <2>2, <2>3, <2>5, <3>2, <3>6, <3>7, MildTold
  <2>6. CASE cmd[c].op = "apply"
    <3>1. cmd[c].prop \in proven
      BY <1>4, <1>8, <2>6 DEF Preconditions, Told, Recorded
    <3>2. Knows(m)
      BY <1>2, <1>3, <2>2, <2>3, <2>6, <3>1 DEF Knows, t, BeforeOpen, PastApplying, Engine
    <3>. QED BY <1>2, <1>5, <2>1, <2>2, <2>3, <2>6, <3>2, MildGoes DEF t
  <2>7. CASE cmd[c].op \notin {"apply", "rollback"}
    <3>1. Knows(m) BY <1>3, <1>4, <2>2, <2>3, <2>7, VerifyKnows DEF Ops, t
    <3>. QED BY <1>2, <1>5, <2>1, <2>2, <2>3, <2>7, <3>1, MildGoes DEF t
  <2>. QED BY <2>5, <2>6, <2>7
<1>. QED BY <1>6, <1>7, <1>8 DEF Load

LEMMA ObserveTold == ASSUME Inv, Told, UNCHANGED contested, NEW c \in Cmds, Observe(c) PROVE Told'
<1>1. Quiet BY QuietSteps
<1>2. cmd[c].pc = "observe" BY DEF Observe
<1>3. PICK k \in {cmd[c]} : Knows(k) BY DEF Told
<1>4. cmd[c].prop \in Props /\ cmd[c].pc \in OpPcs(cmd[c].op) /\ cmd[c].op \in Ops BY <1>2, Running
<1>5. Mild BY <1>1, SameMild, QuietMild DEF Observe, storeVars
<1>6. CASE Return(c) BY <1>5, <1>6, MildReturns
<1>7. CASE ~Return(c)
  <2>. DEFINE l == CASE cmd[c].op = "apply" -> "pending" [] cmd[c].op = "rollback" -> "rolling"
                     [] OTHER -> "prepare"
              n == IF cmd[c].op \in {"apply", "rollback"} THEN 1 ELSE 0
  <2>1. /\ cmd' = [cmd EXCEPT ![c].pc = l, ![c].decisions = n]
        /\ cmd[c].op # "rollback" => AtBase
    BY <1>7 DEF Observe
  <2>2. cmd[c].op = "apply" => l = "pending" OBVIOUS
  <2>3. cmd[c].op = "rollback" => l = "rolling" OBVIOUS
  <2>. HIDE DEF l, n
  <2>4. PICK m : cmd' = [cmd EXCEPT ![c] = m] /\ Alike(cmd[c], m) /\ m.pc = l
    BY <2>1, Redirected
  <2>5. CASE cmd[c].op = "apply"
    <3>1. content[cmd[c].prop] = "base" BY <1>4, <2>1, <2>5 DEF AtBase, Clean
    <3>2. Knows(m)
      BY <1>2, <1>3, <2>2, <2>4, <2>5, <3>1 DEF Knows, Alike, BeforeOpen, PastApplying, Engine
    <3>. QED BY <1>2, <1>5, <2>4, <3>2, MildGoes DEF Alike
  <2>6. CASE cmd[c].op = "rollback"
    <3>1. Knows(m) BY <1>2, <1>3, <2>3, <2>4, <2>6, RollbackKnows
    <3>. QED BY <1>2, <1>5, <2>4, <3>1, MildGoes DEF Alike
  <2>7. CASE cmd[c].op \notin {"apply", "rollback"}
    <3>1. Knows(m) BY <1>3, <1>4, <2>4, <2>7, VerifyKnows DEF Ops, Alike
    <3>. QED BY <1>2, <1>5, <2>4, <3>1, MildGoes DEF Alike
  <2>. QED BY <2>5, <2>6, <2>7
<1>. QED BY <1>6, <1>7

(* finish_verification with a failure.                                      *)
LEMMA FailTold ==
  ASSUME Inv, Told, UNCHANGED contested, NEW c \in Cmds, cmd[c].op \in {"fix", "verify"}, cmd[c].pc # "idle", Mild,
         NEW n, Finish(c, FALSE, n)
  PROVE  Told'
<1>. DEFINE m == [cmd[c] EXCEPT !.pc = "conclude", !.ok = FALSE, !.decisions = @ + n,
                                !.next = "verification_failed"]
<1>1. cmd \in [Cmds -> Commands] /\ cmd[c] \in Commands BY DEF Inv, TypeOK
<1>2. cmd' = [cmd EXCEPT ![c] = m] BY <1>1 DEF Finish
<1>3. m.op = cmd[c].op /\ m.prop = cmd[c].prop /\ m.txn = cmd[c].txn /\ ~m.ok
  BY <1>1 DEF Commands
<1>. HIDE DEF m
<1>4. PICK j \in {m} : TRUE OBVIOUS
<1>5. Knows(cmd[c]) BY DEF Told
<1>6. Knows(j) BY <1>3, <1>4, <1>5, VerifyKnows
<1>. QED BY <1>2, <1>3, <1>4, <1>6, MildGoes

LEMMA StageTold == ASSUME Inv, Told, UNCHANGED contested, NEW c \in Cmds, Stage(c) PROVE Told'
<1>. DEFINE stage == Stages[cmd[c].pc]
<1>1. Quiet BY QuietSteps
<1>2. cmd[c].pc \in {"prepare", "write", "build_start"} BY DEF Stage, Stages
<1>3. cmd[c].op \in {"fix", "verify"} /\ cmd[c].prop \in Props BY <1>2, Running DEF Ops, OpPcs, Engine
<1>4. stage.next \in {"worktree_prepared", "worktree_applied", "build_running"} BY <1>2 DEF Stages
<1>5. \/ /\ Transition(cmd[c].prop, stage.next)
         /\ cmd' = [cmd EXCEPT ![c].pc = stage.then, ![c].decisions = @ + stage.decisions]
      \/ rec' = rec /\ (Finish(c, FALSE, stage.decisions + 1) \/ Finish(c, FALSE, 1))
  BY DEF Stage, TransitionRefused
<1>. HIDE DEF stage
<1>6. CASE rec' = rec /\ (Finish(c, FALSE, stage.decisions + 1) \/ Finish(c, FALSE, 1))
  <2>1. Mild BY <1>1, <1>6, SameMild, QuietMild
  <2>. QED BY <1>2, <1>3, <1>6, <2>1, FailTold
<1>7. CASE /\ Transition(cmd[c].prop, stage.next)
           /\ cmd' = [cmd EXCEPT ![c].pc = stage.then, ![c].decisions = @ + stage.decisions]
  <2>1. stage.next \in States /\ stage.next # "rolled_back" BY <1>4 DEF States
  <2>2. Mild BY <1>1, <1>3, <1>7, <2>1, TransitionMild, QuietMild
  <2>3. cmd' = [cmd EXCEPT ![c].pc = stage.then, ![c].decisions = cmd[c].decisions + stage.decisions]
    BY <1>7
  <2>4. PICK m : cmd' = [cmd EXCEPT ![c] = m] /\ Alike(cmd[c], m) BY <2>3, Redirected
  <2>5. Knows(cmd[c]) BY DEF Told
  <2>6. Knows(m) BY <1>3, <2>4, <2>5, VerifyKnows DEF Alike
  <2>. QED BY <1>2, <2>2, <2>4, <2>6, MildGoes DEF Alike
<1>. QED BY <1>5, <1>6, <1>7

(* A transition after which the command goes on at l.                       *)
LEMMA MoveTold ==
  ASSUME Inv, Told, UNCHANGED contested, NEW c \in Cmds, cmd[c].pc # "idle", Quiet, NEW n \in States, NEW l,
         MoveOrReturn(c, n, l),
         n = "rolled_back" => RolledBack(cmd[c].prop) \/ cmd[c].prop \in contested,
         \A m : Alike(cmd[c], m) /\ m.pc = l /\ CanTransition(rec[cmd[c].prop].state, n) => Knows(m)
  PROVE  Told'
<1>1. cmd[c].prop \in Props BY Running
<1>2. CASE TransitionRefused(cmd[c].prop, n) /\ Return(c)
  BY <1>2, SameMild, QuietMild, MildReturns DEF TransitionRefused
<1>3. CASE Transition(cmd[c].prop, n) /\ Goto(c, l)
  <2>1. Mild BY <1>1, <1>3, TransitionMild, QuietMild
  <2>2. PICK m : cmd' = [cmd EXCEPT ![c] = m] /\ Alike(cmd[c], m) /\ m.pc = l BY <1>3, Redirected
  <2>3. Knows(m) BY <1>3, <2>2 DEF Transition
  <2>. QED BY <2>1, <2>2, <2>3, MildGoes DEF Alike
<1>. QED BY <1>2, <1>3 DEF MoveOrReturn

(* No apply that succeeded is on record while a proposal is being applied.  *)
LEMMA NotYetSucceeded ==
  ASSUME Inv, NEW p \in Props \ contested, rec[p] # None, rec[p].state \notin Post
  PROVE  ~Succeeded(p)
BY DEF Inv, Applied, Succeeded

LEMMA ApplyMovesTold ==
  ASSUME Inv, Told, UNCHANGED contested, NEW c \in Cmds, Pending(c) \/ Applying(c) \/ Available(c)
  PROVE  Told'
<1>1. Quiet BY QuietSteps
<1>2. cmd[c].pc \in {"pending", "applying", "available"} BY DEF Pending, Applying, Available
<1>3. cmd[c].prop \in Props /\ cmd[c].pc \in OpPcs(cmd[c].op) /\ cmd[c].op \in Ops
      /\ rec[cmd[c].prop] # None /\ rec[cmd[c].prop].state \in Allowed(cmd[c])
  BY <1>2, Running
<1>4. PICK k \in {cmd[c]} : Knows(k) BY DEF Told
<1>5. k.op = "apply" BY <1>2, <1>3, <1>4 DEF OpPcs, Ops, Verification, Engine
<1>6. CASE Pending(c)
  <2>1. k.pc = "pending" /\ MoveOrReturn(c, "approval_pending", "issue") BY <1>4, <1>6 DEF Pending
  <2>2. "approval_pending" \in States BY DEF States
  <2>3. \A m : Alike(k, m) /\ m.pc = "issue" => Knows(m) BY <1>4, <1>5, <2>1, ApplyKnows
  <2>. QED BY <1>1, <1>2, <1>4, <2>1, <2>2, <2>3, MoveTold
<1>7. CASE Available(c)
  <2>1. k.pc = "available" /\ MoveOrReturn(c, "rollback_available", "policy") BY <1>4, <1>7 DEF Available
  <2>2. "rollback_available" \in States BY DEF States
  <2>3. \A m : Alike(k, m) /\ m.pc = "policy" => Knows(m) BY <1>4, <1>5, <2>1, ApplyKnows
  <2>. QED BY <1>1, <1>2, <1>4, <2>1, <2>2, <2>3, MoveTold
<1>8. CASE Applying(c)
  <2>1. k.pc = "applying" /\ MoveOrReturn(c, "applying", "consume") BY <1>4, <1>8 DEF Applying
  <2>2. "applying" \in States BY DEF States
  <2>3. k.prop \notin contested =>
          rec[cmd[c].prop].state \in {"approval_pending", "expired", "discarded"}
    BY <1>3, <1>4, <1>5, <2>1 DEF Allowed, Relied, Engine
  <2>4. CanTransition(rec[cmd[c].prop].state, "applying") /\ k.prop \notin contested
          => ~Succeeded(k.prop)
    <3>. SUFFICES ASSUME CanTransition(rec[cmd[c].prop].state, "applying"), k.prop \notin contested
                  PROVE  ~Succeeded(k.prop)
      OBVIOUS
    <3>1. rec[cmd[c].prop].state \notin Post BY <2>3 DEF CanTransition, Successors, Post
    <3>. QED BY <1>3, <1>4, <3>1, NotYetSucceeded
  <2>5. ASSUME NEW m, Alike(k, m), m.pc = "consume",
               k.prop \notin contested => ~Succeeded(k.prop)
        PROVE  Knows(m)
    BY <1>4, <1>5, <2>1, <2>5 DEF Knows, Alike, BeforeOpen, PastApplying, Engine
  <2>. QED BY <1>1, <1>2, <1>4, <2>1, <2>2, <2>4, <2>5, MoveTold
<1>. QED BY <1>6, <1>7, <1>8

LEMMA RollingTold == ASSUME Inv, Told, UNCHANGED contested, NEW c \in Cmds, Rolling(c) PROVE Told'
<1>1. Quiet BY QuietSteps
<1>2. PICK k \in {cmd[c]} : Knows(k) BY DEF Told
<1>3. k.pc = "rolling" /\ MoveOrReturn(c, "rolling_back", "consume") BY <1>2 DEF Rolling
<1>4. cmd[c].pc # "idle" BY <1>2, <1>3
<1>5. k.op = "rollback" BY <1>2, <1>3, <1>4, Running DEF OpPcs, Ops, Verification, Engine
<1>6. "rolling_back" \in States BY DEF States
<1>7. \A m : Alike(k, m) /\ m.pc = "consume" => Knows(m) BY <1>2, <1>3, <1>5, RollbackKnows
<1>. QED BY <1>1, <1>2, <1>3, <1>4, <1>6, <1>7, MoveTold

(* The last transition: a proposal becomes rolled back when the engine      *)
(* rolled its transaction back.                                             *)
LEMMA ConcludeTold == ASSUME Inv, Told, UNCHANGED contested, NEW c \in Cmds, Conclude(c) PROVE Told'
<1>. DEFINE l == IF cmd[c].next = "applied" THEN "available" ELSE "policy"
<1>1. Quiet BY QuietSteps
<1>2. cmd[c].pc = "conclude" /\ MoveOrReturn(c, cmd[c].next, l) BY DEF Conclude
<1>3. cmd[c].prop \in Props /\ cmd[c].pc \in OpPcs(cmd[c].op) /\ cmd[c].op \in Ops /\ Outcome(cmd[c])
  BY <1>2, Running
<1>4. PICK k \in {cmd[c]} : Knows(k) BY DEF Told
<1>5. cmd[c].op \in {"fix", "verify", "apply", "rollback"}
  BY <1>2, <1>3 DEF OpPcs, Ops, Verification, Engine
<1>6. cmd[c].next \in States BY <1>2, <1>3, <1>5 DEF Outcome, States
<1>7. cmd[c].next = "rolled_back" => cmd[c].op = "rollback"
  BY <1>2, <1>3, <1>5 DEF Outcome
<1>8. cmd[c].next = "rolled_back" => RolledBack(cmd[c].prop) \/ cmd[c].prop \in contested
  BY <1>2, <1>4, <1>7 DEF Knows, RolledBack
<1>9. l \in {"available", "policy"} /\ (cmd[c].op = "rollback" => l = "policy")
  BY <1>2, <1>3 DEF Outcome
<1>. HIDE DEF l
<1>10. ASSUME NEW m, Alike(k, m), m.pc = l PROVE Knows(m)
  <2>1. CASE k.op = "apply" BY <1>2, <1>4, <1>9, <1>10, <2>1, ApplyKnows
  <2>2. CASE k.op = "rollback" BY <1>2, <1>4, <1>9, <1>10, <2>2, RollbackKnows
  <2>3. CASE k.op \in {"fix", "verify"} BY <1>4, <1>10, <2>3, VerifyKnows DEF Alike
  <2>. QED BY <1>4, <1>5, <2>1, <2>2, <2>3
<1>. QED BY <1>1, <1>2, <1>4, <1>6, <1>8, <1>10, MoveTold

LEMMA RefuseTold == ASSUME Inv, Told, UNCHANGED contested, NEW c \in Cmds, Refuse(c) PROVE Told'
<1>. DEFINE back == IF cmd[c].op = "apply" THEN "verified" ELSE "rollback_available"
<1>1. Quiet BY QuietSteps
<1>2. cmd[c].pc = "refuse" BY DEF Refuse
<1>3. cmd[c].prop \in Props /\ cmd[c].pc \in OpPcs(cmd[c].op) /\ cmd[c].op \in Ops
  BY <1>2, Running
<1>4. PICK k \in {cmd[c]} : Knows(k) BY DEF Told
<1>5. k.op \in {"apply", "rollback"}
  BY <1>2, <1>3, <1>4 DEF OpPcs, Ops, Verification, Engine
<1>6. back \in States /\ back # "rolled_back" BY DEF States
<1>7. \/ Transition(cmd[c].prop, back) /\ cmd' = [cmd EXCEPT ![c].pc = "policy", ![c].silent = TRUE]
      \/ TransitionRefused(cmd[c].prop, back) /\ Return(c)
  BY DEF Refuse
<1>. HIDE DEF back
<1>8. Mild
  BY <1>1, <1>3, <1>6, <1>7, TransitionMild, SameMild, QuietMild DEF TransitionRefused
<1>9. CASE Return(c) BY <1>8, <1>9, MildReturns
<1>10. CASE cmd' = [cmd EXCEPT ![c].pc = "policy", ![c].silent = TRUE]
  <2>1. PICK m : cmd' = [cmd EXCEPT ![c] = m] /\ Alike(cmd[c], m) /\ m.pc = "policy"
    BY <1>10, Redirected
  <2>2. Knows(m) BY <1>2, <1>4, <1>5, <2>1, ApplyKnows, RollbackKnows
  <2>. QED BY <1>2, <1>8, <2>1, <2>2, MildGoes DEF Alike
<1>. QED BY <1>7, <1>9, <1>10

LEMMA PolicyTold == ASSUME Inv, Told, UNCHANGED contested, NEW c \in Cmds, Policy(c) PROVE Told'
<1>1. Quiet BY QuietSteps
<1>2. cmd[c].pc = "policy" BY DEF Policy
<1>3. cmd[c].prop \in Props /\ cmd[c].pc \in OpPcs(cmd[c].op) /\ cmd[c].op \in Ops /\ cmd[c] \in Commands
  BY <1>2, Running
<1>4. PICK k \in {cmd[c]} : Knows(k) BY DEF Told
<1>5. cmd[c].op \in {"fix", "verify", "apply", "rollback"}
  BY <1>2, <1>3 DEF OpPcs, Ops, Verification, Engine
<1>6. cmd[c].decisions \in Nat BY <1>3 DEF Commands
<1>7. Mild
  BY <1>1, <1>3, <1>6, PolicyMild, SameMild, QuietMild DEF Policy, RecordPolicyRefused
<1>8. CASE Return(c) BY <1>7, <1>8, MildReturns
<1>9. CASE Goto(c, "report")
  <2>1. PICK m : cmd' = [cmd EXCEPT ![c] = m] /\ Alike(cmd[c], m) /\ m.pc = "report"
    BY <1>9, Redirected
  <2>2. Knows(m)
    BY <1>2, <1>4, <1>5, <2>1, ApplyKnows, RollbackKnows, VerifyKnows DEF Alike
  <2>. QED BY <1>2, <1>7, <2>1, <2>2, MildGoes DEF Alike
<1>. QED BY <1>8, <1>9 DEF Policy

(* The outcome is decided, and not recorded yet.                            *)
LEMMA ConcludingMakes ==
  ASSUME Inv, NEW c \in Cmds, NEW next, NEW ok, Concluding(c, next, ok)
  PROVE  \E m : /\ cmd' = [cmd EXCEPT ![c] = m] /\ m.pc = "conclude" /\ m.next = next /\ m.ok = ok
                /\ m.op = cmd[c].op /\ m.prop = cmd[c].prop /\ m.txn = cmd[c].txn
                /\ m.result = cmd[c].result
<1>. DEFINE m == [cmd[c] EXCEPT !.pc = "conclude", !.next = next, !.ok = ok]
<1>1. cmd \in [Cmds -> Commands] /\ cmd[c] \in Commands BY DEF Inv, TypeOK
<1>2. cmd' = [cmd EXCEPT ![c] = m] BY <1>1 DEF Concluding
<1>3. /\ m.pc = "conclude" /\ m.next = next /\ m.ok = ok /\ m.result = cmd[c].result
      /\ m.op = cmd[c].op /\ m.prop = cmd[c].prop /\ m.txn = cmd[c].txn
  BY <1>1 DEF Commands
<1>. QED BY <1>2, <1>3

(* An apply concludes: as verified only over files that hold nothing of it. *)
LEMMA ApplyConcludes ==
  ASSUME Inv, Told, UNCHANGED contested, NEW c \in Cmds, cmd[c].op = "apply",
         cmd[c].pc \in {"recheck", "postcheck", "undone"}, Mild, NEW next, NEW ok,
         Concluding(c, next, ok), next = "verified" => ~Wrote(cmd[c].prop),
         ok => cmd[c].pc = "postcheck"
  PROVE  Told'
<1>1. PICK m : /\ cmd' = [cmd EXCEPT ![c] = m] /\ m.pc = "conclude" /\ m.next = next /\ m.ok = ok
               /\ m.op = cmd[c].op /\ m.prop = cmd[c].prop /\ m.txn = cmd[c].txn
  BY ConcludingMakes
<1>2. Knows(cmd[c]) BY DEF Told
<1>3. Knows(m) BY <1>1, <1>2 DEF Knows, Wrote, BeforeOpen, PastApplying, Engine
<1>. QED BY <1>1, <1>3, MildGoes

(* A rollback concludes: as rolled back only if the engine said so.         *)
LEMMA RollbackConcludes ==
  ASSUME Inv, Told, UNCHANGED contested, NEW c \in Cmds, cmd[c].op = "rollback", cmd[c].pc = "undone", Mild,
         NEW next, NEW ok, Concluding(c, next, ok), next = "rolled_back" => cmd[c].result = "rolled_back"
  PROVE  Told'
<1>1. PICK m : /\ cmd' = [cmd EXCEPT ![c] = m] /\ m.pc = "conclude" /\ m.next = next
               /\ m.op = cmd[c].op /\ m.prop = cmd[c].prop /\ m.txn = cmd[c].txn
               /\ m.result = cmd[c].result
  BY ConcludingMakes
<1>2. Knows(cmd[c]) BY DEF Told
<1>3. Knows(m) BY <1>1, <1>2 DEF Knows
<1>. QED BY <1>1, <1>3, MildGoes

LEMMA OutcomeTold ==
  ASSUME Inv, Told, UNCHANGED contested, NEW c \in Cmds, Recheck(c) \/ Postcheck(c) \/ Undone(c)
  PROVE  Told'
<1>1. Quiet BY QuietSteps
<1>2. cmd[c].pc \in {"recheck", "postcheck", "undone"} BY DEF Recheck, Postcheck, Undone
<1>3. cmd[c].prop \in Props /\ cmd[c].pc \in OpPcs(cmd[c].op) /\ cmd[c].op \in Ops
  BY <1>2, Running
<1>4. PICK k \in {cmd[c]} : Knows(k) BY DEF Told
<1>5. Mild BY <1>1, SameMild, QuietMild DEF Recheck, Postcheck, Undone, storeVars
<1>6. SnapshotsAtBase(c) => ~Wrote(cmd[c].prop) BY DEF SnapshotsAtBase, Wrote
<1>7. CASE Recheck(c)
  <2>1. cmd[c].op = "apply" BY <1>3, <1>7 DEF Recheck, OpPcs, Ops, Verification, Engine
  <2>2. PICK next \in {"verified", "failed"} :
          Concluding(c, next, FALSE) /\ (next = "verified" => SnapshotsAtBase(c))
    BY <1>7 DEF Recheck
  <2>. QED BY <1>2, <1>5, <1>6, <2>1, <2>2, ApplyConcludes
<1>8. CASE Postcheck(c)
  <2>1. cmd[c].op = "apply" BY <1>3, <1>8 DEF Postcheck, OpPcs, Ops, Verification, Engine
  <2>2. cmd[c].pc = "postcheck" BY <1>8 DEF Postcheck
  <2>3. CASE Concluding(c, "applied", TRUE)
    BY <1>2, <1>5, <2>1, <2>2, <2>3, ApplyConcludes
  <2>4. CASE Goto(c, "undo")
    <3>1. PICK m : cmd' = [cmd EXCEPT ![c] = m] /\ Alike(cmd[c], m) /\ m.pc = "undo"
      BY <2>4, Redirected
    <3>2. Knows(m) BY <1>4, <2>1, <2>2, <3>1, ApplyKnows
    <3>. QED BY <1>2, <1>5, <3>1, <3>2, MildGoes DEF Alike
  <2>. QED BY <1>8, <2>3, <2>4 DEF Postcheck
<1>9. CASE Undone(c)
  <2>0. cmd[c].pc = "undone" BY <1>9 DEF Undone
  <2>1. CASE cmd[c].op = "apply"
    <3>1. PICK next \in {"verified", "failed"} :
            Concluding(c, next, FALSE) /\ (next = "verified" => SnapshotsAtBase(c))
      BY <1>9, <2>1 DEF Undone
    <3>. QED BY <1>2, <1>5, <1>6, <2>1, <3>1, ApplyConcludes
  <2>2. CASE Return(c) BY <1>5, <2>2, MildReturns
  <2>3. CASE cmd[c].op = "rollback" /\ ~Return(c)
    <3>1. PICK next \in {"rollback_available", "rolled_back", "failed"}, ok \in {FALSE, AtBase} :
            Concluding(c, next, ok) /\ (next = "rolled_back" => cmd[c].result = "rolled_back")
      BY <1>9, <2>3 DEF Undone
    <3>. QED BY <1>5, <2>0, <2>3, <3>1, RollbackConcludes
  <2>. QED BY <1>9, <2>1, <2>2, <2>3 DEF Undone
<1>. QED BY <1>7, <1>8, <1>9

(* The build: a success is a proposal that all the stages passed.           *)
LEMMA BuildTold == ASSUME Inv, Told, UNCHANGED contested, NEW c \in Cmds, Build(c) PROVE Told'
<1>1. cmd[c].pc = "build" /\ rec' = rec /\ UNCHANGED <<content, txns, issued>>
  BY DEF Build, storeVars, workspaceVars, engineVars
<1>2. cmd[c].op \in {"fix", "verify"} BY <1>1, Running DEF Ops, OpPcs, Engine
<1>3. PICK passed, cleaned \in BOOLEAN :
        /\ Finish(c, Success(passed, cleaned, AtBase), 2)
        /\ proven' = IF passed /\ cleaned /\ AtBase THEN proven \union {cmd[c].prop} ELSE proven
  BY DEF Build
<1>. DEFINE ok == Success(passed, cleaned, AtBase)
            n == [cmd[c] EXCEPT !.pc = "conclude", !.ok = ok, !.decisions = @ + 2,
                                !.next = IF ok THEN "verified" ELSE "verification_failed"]
<1>4. cmd \in [Cmds -> Commands] /\ cmd[c] \in Commands BY DEF Inv, TypeOK
<1>5. cmd' = [cmd EXCEPT ![c] = n] BY <1>3, <1>4 DEF Finish
<1>6. ok => cmd[c].prop \in proven' BY <1>3 DEF Success
<1>. HIDE DEF ok
<1>7. n.op = cmd[c].op /\ n.prop = cmd[c].prop /\ n.txn = cmd[c].txn /\ n.ok = ok
  BY <1>4 DEF Commands
<1>. HIDE DEF n
<1>8. PICK m \in {n} : TRUE OBVIOUS
<1>9. Grows /\ issued' \in 0..MaxCommands
  <2>1. issued \in 0..MaxCommands /\ MaxCommands \in Nat BY LifecycleAssumption DEF Inv, TypeOK
  <2>. QED BY <1>1, <1>3, <2>1 DEF Grows
<1>10. \A d \in Cmds \ {c} : \E k \in {cmd[d]} : Leaves(k)
  BY <1>1 DEF Leaves, Succeeded, Wrote
<1>11. Knows(m)'
  <2>1. cmd[c].txn <= issued BY <1>2 DEF Told, Knows
  <2>. QED BY <1>1, <1>2, <1>6, <1>7, <1>8, <2>1 DEF Knows
<1>12. ASSUME NEW p \in Props PROVE Recorded(p)'
  <2>1. Recorded(p) BY DEF Told
  <2>2. proven \subseteq proven' BY <1>9 DEF Grows
  <2>. QED BY <1>1, <2>1, <2>2 DEF Recorded, Succeeded, Committed
<1>13. \A t \in Txns : txns'[t].state # "none" => t <= issued' BY <1>1 DEF Told
<1>14. m.op = cmd[c].op /\ m.txn = cmd[c].txn /\ cmd' = [cmd EXCEPT ![c] = m]
  BY <1>5, <1>7, <1>8
<1>. QED BY <1>9, <1>10, <1>11, <1>12, <1>13, <1>14, ToldStep

(* The report: what an apply records of its transaction is what happened to *)
(* it, and no rollback has begun that relies on an earlier report.          *)
LEMMA ReportTold == ASSUME Inv, Told, UNCHANGED contested, NEW c \in Cmds, Report(c) PROVE Told'
<1>0. PICK p \in {cmd[c].prop} : TRUE OBVIOUS
<1>. DEFINE new == Reported(rec[p], cmd[c])
            r == [new EXCEPT !.generations = @ + 1]
<1>1. Quiet /\ cmd[c].pc = "report" /\ Return(c) BY QuietSteps DEF Report
<1>2. /\ cmd[c] \in Commands /\ p \in Props /\ cmd[c].op \in Ops /\ cmd[c].pc \in OpPcs(cmd[c].op)
      /\ rec[p] \in Records /\ rec[p] # None /\ cmd[c].txn \in Txns
  BY <1>0, <1>1, Running
<1>3. PICK k \in {cmd[c]} : Knows(k) BY DEF Told
<1>4. CASE rec' = rec BY <1>1, <1>4, SameMild, QuietMild, MildReturns
<1>5. CASE rec' = [rec EXCEPT ![p] = r]
  <2>0. cmd[c].ok \in BOOLEAN BY <1>2 DEF Commands
  <2>1. /\ new \in Records /\ new.state = rec[p].state
        /\ cmd[c].op # "apply" => new.apply = rec[p].apply
        /\ cmd[c].op = "apply" => new.apply = [txn |-> cmd[c].txn, success |-> cmd[c].ok]
        /\ cmd[c].op \in {"apply", "rollback"} => new.verification = rec[p].verification
        /\ cmd[c].op \notin {"apply", "rollback"} /\ new.verification = "passed" => cmd[c].ok
    <3>1. CASE cmd[c].op = "apply"
      <4>1. [txn |-> cmd[c].txn, success |-> cmd[c].ok] \in ApplyReports BY <1>2, <2>0 DEF ApplyReports
      <4>2. new = [rec[p] EXCEPT !.apply = [txn |-> cmd[c].txn, success |-> cmd[c].ok]]
        BY <3>1 DEF Reported
      <4>. QED BY <1>2, <3>1, <4>1, <4>2 DEF Records
    <3>2. CASE cmd[c].op = "rollback"
      <4>2. new = [rec[p] EXCEPT !.rollback = IF cmd[c].ok THEN "done" ELSE "failed"]
        BY <3>2 DEF Reported
      <4>. QED BY <1>2, <3>2, <4>2 DEF Records
    <3>3. CASE cmd[c].op \notin {"apply", "rollback"}
      <4>2. new = [rec[p] EXCEPT !.verification = IF cmd[c].ok THEN "passed" ELSE "failed"]
        BY <3>3 DEF Reported
      <4>. QED BY <1>2, <3>3, <4>2 DEF Records
    <3>. QED BY <3>1, <3>2, <3>3
  <2>. HIDE DEF new
  <2>2. /\ r \in Records /\ r # None /\ r.state = rec[p].state /\ r.apply = new.apply
        /\ r.verification = new.verification
    BY <2>1, Numbered, NumberedKeeps, RecordNotNone
  <2>. HIDE DEF r
  <2>3. rec'[p] = r /\ \A q \in Props \ {p} : rec'[q] = rec[q]
    <3>1. rec \in [Props -> Records \union {None}] BY DEF Inv, TypeOK
    <3>. QED BY <1>2, <1>5, <3>1
  <2>4. UNCHANGED <<txns, content, proven, issued>> BY <1>1 DEF Quiet
  <2>5. CASE cmd[c].op = "rollback"
    <3>1. \A q \in Props : MildRecord(q) BY <1>2, <2>1, <2>2, <2>3, <2>5 DEF MildRecord
    <3>. QED BY <1>1, <3>1, QuietMild, MildReturns
  <2>6. CASE cmd[c].op # "rollback"
    <3>1. \A q \in Props \ {p} : (Succeeded(q)' <=> Succeeded(q)) /\ (Recorded(q) => Recorded(q)')
      BY <2>3, <2>4 DEF Succeeded, Recorded, Committed
    <3>2. cmd[c].op = "apply" /\ p \notin contested => ~Succeeded(p) BY <1>0, <1>1, <1>3 DEF Knows, PastApplying
    <3>3. Recorded(p)'
      <4>0. Recorded(p) BY <1>2 DEF Told
      <4>1. CASE cmd[c].op = "apply"
        <5>1. p \notin contested => rec[p].state # "rolled_back" BY <1>2, <3>2, <4>0, <4>1 DEF Recorded
        <5>2. ASSUME Succeeded(p)' PROVE Committed(p, rec[p].apply.txn)'
          <6>1. cmd[c].ok BY <2>1, <2>2, <2>3, <4>1, <5>2 DEF Succeeded
          <6>2. Committed(p, cmd[c].txn) BY <1>0, <1>3, <4>1, <6>1 DEF Knows
          <6>3. rec'[p].apply.txn = cmd[c].txn BY <2>1, <2>2, <2>3, <4>1
          <6>. QED BY <2>4, <6>2, <6>3 DEF Committed
        <5>. QED BY <1>2, <2>1, <2>2, <2>3, <2>4, <4>0, <4>1, <5>1, <5>2 DEF Recorded
      <4>2. CASE cmd[c].op # "apply"
        <5>1. Succeeded(p)' <=> Succeeded(p) BY <1>2, <2>1, <2>2, <2>3, <4>2 DEF Succeeded
        <5>2. cmd[c].op \in {"fix", "verify"}
          BY <1>1, <1>2, <2>6, <4>2 DEF OpPcs, Ops, Verification, Engine
        <5>3. rec'[p].verification = "passed" => p \in proven
          BY <1>0, <1>3, <2>1, <2>2, <2>3, <5>2 DEF Knows
        <5>. QED BY <1>2, <2>1, <2>2, <2>3, <2>4, <4>0, <4>2, <5>1, <5>3 DEF Recorded, Committed
      <4>. QED BY <4>1, <4>2
    <3>4. \A q \in Props : Recorded(q)' BY <3>1, <3>3 DEF Told
    <3>5. ASSUME NEW d \in Cmds \ {c} PROVE \E j \in {cmd[d]} : Leaves(j)
      <4>1. PICK j \in {cmd[d]} : Knows(j) BY DEF Told
      <4>2. CASE j.op \notin {"apply", "rollback"} BY <4>2 DEF Leaves
      <4>3. CASE j.op \in {"apply", "rollback"} /\ j.prop # p
        <5>1. j.prop \in Props BY <4>1, <4>3, CommandShape
        <5>2. (Succeeded(j.prop)' <=> Succeeded(j.prop)) /\ rec'[j.prop] = rec[j.prop]
          BY <2>3, <3>1, <4>3, <5>1
        <5>. QED BY <2>4, <5>2 DEF Leaves, Wrote
      <4>6. CASE j.prop = p /\ p \in contested
        BY <2>4, <4>6 DEF Leaves
      <4>4. CASE j.op = "apply" /\ j.prop = p /\ p \notin contested
        <5>1. cmd[c].op # "apply" BY <1>0, <1>2, <4>1, <4>4 DEF Inv, Distinct, Kind, Ops
        <5>2. Succeeded(p)' <=> Succeeded(p) BY <1>2, <2>1, <2>2, <2>3, <5>1 DEF Succeeded
        <5>. QED BY <2>4, <4>4, <5>2 DEF Leaves, Wrote
      <4>5. CASE j.op = "rollback" /\ j.prop = p /\ p \notin contested
        <5>1. CASE cmd[c].op = "apply" BY <3>2, <4>5, <5>1 DEF Leaves
        <5>2. CASE cmd[c].op # "apply"
          <6>1. (Succeeded(p)' <=> Succeeded(p)) /\ rec'[p].apply = rec[p].apply
            BY <1>2, <2>1, <2>2, <2>3, <5>2 DEF Succeeded
          <6>. QED BY <2>4, <4>5, <6>1 DEF Leaves
        <5>. QED BY <5>1, <5>2
      <4>. QED BY <4>2, <4>3, <4>4, <4>5, <4>6
    <3>6. Grows /\ issued' \in 0..MaxCommands
      <4>1. issued \in 0..MaxCommands /\ MaxCommands \in Nat BY LifecycleAssumption DEF Inv, TypeOK
      <4>. QED BY <2>4, <4>1 DEF Grows
    <3>7. Knows(Idle)' BY DEF Idle, Knows
    <3>8. \A t \in Txns : txns'[t].state # "none" => t <= issued' BY <2>4 DEF Told
    <3>. QED BY <1>1, <3>4, <3>5, <3>6, <3>7, <3>8, IdleKnows, ToldStep DEF Return
  <2>. QED BY <2>5, <2>6
<1>. QED BY <1>0, <1>4, <1>5 DEF Report, Publish

-----------------------------------------------------------------------------
(* The steps of the engine.                                                 *)

LEMMA WroteKept ==
  ASSUME NEW p, NEW v, NEW q \in Props, ~Wrote(q), content' = Written(p, v),
         q # p \/ v \in {"base", "foreign"}
  PROVE  ~Wrote(q)'
BY DEF Wrote, Written

(* The reports are about committed transactions, which are not this one.    *)
LEMMA NotOnRecord ==
  ASSUME Inv, Told, NEW p \in Props, NEW t \in Txns, txns[t].state = "none" \/ txns[t].prop = p,
         NEW q \in Props \ {p}, Succeeded(q)
  PROVE  rec[q].apply.txn # t /\ rec[q].apply.txn \in Txns
<1>1. rec[q] # None /\ rec[q] \in Records /\ rec[q].apply # None BY DEF Inv, TypeOK, Succeeded
<1>2. Committed(q, rec[q].apply.txn) BY <1>1 DEF Told, Recorded
<1>3. rec[q].apply.txn \in Txns BY <1>1 DEF Records, ApplyReports
<1>. QED BY <1>2, <1>3 DEF Committed

(* A step of c on its transaction t, after which c is m: it leaves the      *)
(* store alone, and what it changes is not on record and not another's.     *)
OwnStep(c, m, t) ==
  /\ cmd[c].pc # "idle" /\ cmd' = [cmd EXCEPT ![c] = m]
  /\ m.op = cmd[c].op /\ m.txn = cmd[c].txn
  /\ rec' = rec /\ UNCHANGED <<proven, issued>>
  /\ t = cmd[c].txn /\ t <= issued
  /\ \A u \in Txns \ {t} : txns'[u] = txns[u]
  /\ txns[t].state # "none" =>
       /\ txns'[t].prop = txns[t].prop /\ txns'[t].state # "none"
       /\ txns[t].state # "open" => txns'[t].state # "open"
  /\ \A q \in Props \ contested :
       rec[q] # None /\ rec[q].state = "rolled_back" /\ rec[q].apply.txn = t
       /\ txns[t].state = "rolled_back" => txns'[t].state = "rolled_back"
  /\ \A d \in Cmds \ {c} : cmd[d].prop \notin contested =>
       /\ cmd[d].op = "apply" /\ ~Wrote(cmd[d].prop) => content'[cmd[d].prop] \notin {"proposed", "partial"}
       /\ /\ cmd[d].op = "rollback" /\ cmd[d].pc # "load" /\ cmd[d].txn = t
          /\ Succeeded(cmd[d].prop) /\ txns[t].state = "rolled_back"
          => txns'[t].state = "rolled_back"
  /\ cmd[c].op = "rollback" => txns[t].state # "none"

LEMMA OwnTold ==
  ASSUME Inv, Told, UNCHANGED contested, NEW c \in Cmds, NEW m, NEW t \in Txns, OwnStep(c, m, t), Knows(m)'
  PROVE  Told'
<1>. USE DEF OwnStep
<1>1. issued \in 0..MaxCommands /\ MaxCommands \in Nat /\ Txns \subseteq Int
  BY LifecycleAssumption DEF Inv, TypeOK, Txns
<1>2. Grows BY <1>1 DEF Grows
<1>3. ASSUME NEW d \in Cmds \ {c} PROVE \E k \in {cmd[d]} : Leaves(k)
  <2>1. PICK k \in {cmd[d]} : Knows(k) BY DEF Told
  <2>2. k.op # "none" => k.prop \in Props /\ k.txn \in Txns BY <2>1, CommandShape
  <2>3. cmd[c].op # "none" BY Running
  <2>4. CASE k.op = "apply"
    <3>1. k.txn = t => txns[t].state # "none"
      BY <2>1, <2>3, <2>4 DEF Told, OwnTxns
    <3>2. /\ txns[k.txn].state = "none" => txns'[k.txn].state = "none"
          /\ txns[k.txn].state # "none" => txns'[k.txn].prop = txns[k.txn].prop
      BY <2>2, <2>4, <3>1
    <3>3. k.txn # t => txns'[k.txn] = txns[k.txn] BY <2>2, <2>4
    <3>4. k.txn = t => txns'[k.txn].prop = txns[k.txn].prop BY <2>2, <2>4, <3>1
    <3>5. Succeeded(k.prop)' <=> Succeeded(k.prop) BY DEF Succeeded
    <3>6. k.prop \notin contested /\ ~Wrote(k.prop) => ~Wrote(k.prop)' BY <2>1, <2>4 DEF Wrote
    <3>. QED BY <2>1, <2>4, <3>2, <3>3, <3>4, <3>5, <3>6 DEF Leaves
  <2>5. CASE k.op = "rollback"
    <3>1. Succeeded(k.prop)' <=> Succeeded(k.prop) BY DEF Succeeded
    <3>2. k.txn # t => txns'[k.txn] = txns[k.txn] BY <2>2, <2>5
    <3>. QED BY <2>1, <2>5, <3>1, <3>2 DEF Leaves
  <2>6. CASE k.op \notin {"apply", "rollback"} BY <2>6 DEF Leaves
  <2>. QED BY <2>4, <2>5, <2>6
<1>4. ASSUME NEW q \in Props PROVE Recorded(q)'
  <2>1. Recorded(q) BY DEF Told
  <2>2. Succeeded(q)' <=> Succeeded(q) BY DEF Succeeded
  <2>3. ASSUME Succeeded(q) PROVE rec[q].apply.txn \in Txns
    <3>1. rec[q] # None /\ rec[q] \in Records /\ rec[q].apply # None BY <2>3 DEF Inv, TypeOK, Succeeded
    <3>. QED BY <3>1 DEF Records, ApplyReports
  <2>4. PICK r \in {rec[q]} : TRUE OBVIOUS
  <2>5. ASSUME Succeeded(q) PROVE Committed(q, r.apply.txn)'
    <3>1. Committed(q, r.apply.txn) /\ r.apply.txn \in Txns
      BY <2>1, <2>3, <2>4, <2>5 DEF Recorded, Succeeded
    <3>. QED BY <1>2, <3>1 DEF Committed, Grows
  <2>6. ASSUME rec[q] # None, rec[q].state = "rolled_back", q \notin contested
        PROVE  Succeeded(q) /\ txns'[rec[q].apply.txn].state = "rolled_back"
    BY <2>1, <2>3, <2>6 DEF Recorded
  <2>7. rec[q] = r /\ rec'[q] = r BY <2>4
  <2>8. r # None => (r.verification = "passed" => q \in proven') BY <2>1, <2>7 DEF Recorded
  <2>9. Succeeded(q)' => Committed(q, r.apply.txn)' BY <2>2, <2>5
  <2>10. r # None /\ r.state = "rolled_back" /\ q \notin contested => Succeeded(q)' /\ txns'[r.apply.txn].state = "rolled_back"
    BY <2>2, <2>6, <2>7
  <2>. QED BY <2>7, <2>8, <2>9, <2>10 DEF Recorded
<1>5. \A u \in Txns : txns'[u].state # "none" => u <= issued' BY DEF Told
<1>6. issued' \in 0..MaxCommands BY <1>1
<1>. QED BY <1>2, <1>3, <1>4, <1>5, <1>6, ToldStep

LEMMA TxnUpdated ==
  ASSUME Inv, NEW t \in Txns, NEW s, txns' = [txns EXCEPT ![t].state = s]
  PROVE  /\ txns'[t].state = s /\ txns'[t].prop = txns[t].prop
         /\ \A u \in Txns \ {t} : txns'[u] = txns[u]
<1>1. txns \in [Txns -> [prop : Props \union {None}, state : JournalStates]] BY DEF Inv, TypeOK
<1>. QED BY <1>1

(* No two commands of a kind are on a proposal that is not contested.       *)
LEMMA OneApply ==
  ASSUME Inv, NEW c \in Cmds, NEW d \in Cmds \ {c}, NEW op \in {"apply", "rollback"},
         cmd[c].op = op, cmd[d].op = op, cmd[d].prop \notin contested
  PROVE  cmd[d].prop # cmd[c].prop
BY DEF Inv, Distinct, Kind

(* A transaction is opened.                                                 *)
LEMMA ExecuteTold == ASSUME Inv, Told, UNCHANGED contested, NEW c \in Cmds, Execute(c) PROVE Told'
<1>1. cmd[c].pc = "execute" BY DEF Execute
<1>2. PICK k \in {cmd[c]} : Knows(k) BY DEF Told
<1>3. /\ k.prop \in Props /\ k.txn \in Txns /\ k.op = "apply" /\ k \in Commands
  BY <1>1, <1>2, Running DEF OpPcs, Ops, Verification, Engine
<1>4. /\ k.prop \in proven /\ txns[k.txn].state = "none" /\ k.txn <= issued /\ ~k.ok
      /\ (k.prop \notin contested => ~Succeeded(k.prop))
  <2>1. ~k.ok BY <1>1, <1>2, <1>3, Running DEF Outcome
  <2>. QED BY <1>1, <1>2, <1>3, <2>1 DEF Knows, BeforeOpen, PastApplying, Engine
<1>5. CASE Goto(c, "recheck") /\ UNCHANGED <<txns, content>>
  <2>1. Mild BY <1>5, SameMild DEF Execute, Mild, storeVars
  <2>2. PICK m : cmd' = [cmd EXCEPT ![c] = m] /\ Alike(cmd[c], m) /\ m.pc = "recheck"
    BY <1>5, Redirected
  <2>3. Knows(m) BY <1>1, <1>2, <1>3, <2>2, ApplyKnows
  <2>. QED BY <1>1, <2>1, <2>2, <2>3, MildGoes DEF Alike
<1>6. CASE /\ txns' = [txns EXCEPT ![cmd[c].txn] = [prop |-> cmd[c].prop, state |-> "open"]]
           /\ content' = Written(cmd[c].prop, "partial")
           /\ Goto(c, "executing")
  <2>1. rec' = rec /\ UNCHANGED <<proven, issued>> BY DEF Execute, storeVars
  <2>0. PICK m : cmd' = [cmd EXCEPT ![c] = m] /\ Alike(cmd[c], m) /\ m.pc = "executing"
    BY <1>6, Redirected
  <2>2. Alike(k, m) /\ m.pc = "executing" BY <1>2, <2>0
  <2>3. /\ txns'[k.txn].prop = k.prop /\ txns'[k.txn].state = "open"
        /\ \A u \in Txns \ {k.txn} : txns'[u] = txns[u]
    <3>1. txns \in [Txns -> [prop : Props \union {None}, state : JournalStates]] BY DEF Inv, TypeOK
    <3>. QED BY <1>2, <1>3, <1>6, <3>1
  <2>4. Succeeded(k.prop)' <=> Succeeded(k.prop) BY <2>1 DEF Succeeded
  <2>5. Knows(m)'
    BY <1>3, <1>4, <2>1, <2>2, <2>3, <2>4 DEF Knows, Alike, BeforeOpen, PastApplying, Engine
  <2>6. ASSUME NEW d \in Cmds \ {c}, cmd[d].op = "apply", ~Wrote(cmd[d].prop),
              cmd[d].prop \notin contested
        PROVE  content'[cmd[d].prop] \notin {"proposed", "partial"}
    <3>1. cmd[d].prop # k.prop /\ cmd[d].prop \in Props
      BY <1>2, <1>3, <2>6, OneApply, CommandShape
    <3>2. PICK q \in {cmd[d].prop} : TRUE OBVIOUS
    <3>3. ~Wrote(q)' BY <1>2, <1>6, <2>6, <3>1, <3>2, WroteKept
    <3>. QED BY <3>2, <3>3 DEF Wrote
  <2>7. PICK t \in Txns : t = cmd[c].txn BY <1>2, <1>3
  <2>8. /\ t <= issued /\ txns[t].state = "none" /\ \A u \in Txns \ {t} : txns'[u] = txns[u]
    BY <1>2, <1>4, <2>3, <2>7
  <2>9. cmd[c].pc # "idle" /\ cmd[c].op = "apply" /\ m.op = cmd[c].op /\ m.txn = cmd[c].txn
    BY <1>1, <1>2, <1>3, <2>0 DEF Alike
  <2>10. OwnStep(c, m, t) BY <2>0, <2>1, <2>6, <2>7, <2>8, <2>9 DEF OwnStep
  <2>. QED BY <2>5, <2>10, OwnTold
<1>. QED BY <1>5, <1>6 DEF Execute

(* It commits, is rolled back or gets stuck.                                *)
LEMMA ExecutingTold == ASSUME Inv, Told, UNCHANGED contested, NEW c \in Cmds, Executing(c) PROVE Told'
<1>1. cmd[c].pc = "executing" BY DEF Executing
<1>2. PICK k \in {cmd[c]} : Knows(k) BY DEF Told
<1>3. /\ k.prop \in Props /\ k.txn \in Txns /\ k.op = "apply" /\ k \in Commands
  BY <1>1, <1>2, Running DEF OpPcs, Ops, Verification, Engine
<1>4. /\ k.prop \in proven /\ txns[k.txn].prop = k.prop /\ k.txn <= issued /\ ~k.ok
      /\ (k.prop \notin contested => ~Succeeded(k.prop))
  <2>1. ~k.ok BY <1>1, <1>2, <1>3, Running DEF Outcome
  <2>. QED BY <1>1, <1>2, <1>3, <2>1 DEF Knows, BeforeOpen, PastApplying, Engine
<1>5. PICK l \in {"postcheck", "recheck"}, s \in {"committed", "rolled_back", "stuck"} :
        Goto(c, l) /\ Settle(c, s)
  BY DEF Executing
<1>6. content' = content \/ \E v : content' = Written(k.prop, v) BY <1>2 DEF Executing
<1>7. rec' = rec /\ UNCHANGED <<proven, issued>> BY DEF Executing, storeVars
<1>0. PICK m : cmd' = [cmd EXCEPT ![c] = m] /\ Alike(cmd[c], m) /\ m.pc = l
  BY <1>5, Redirected
<1>8. Alike(k, m) /\ m.pc = l BY <1>0, <1>2
<1>9. /\ txns'[k.txn].state = s /\ txns'[k.txn].prop = k.prop
      /\ \A u \in Txns \ {k.txn} : txns'[u] = txns[u]
  BY <1>2, <1>3, <1>4, <1>5, TxnUpdated DEF Settle
<1>10. Succeeded(k.prop)' <=> Succeeded(k.prop) BY <1>7 DEF Succeeded
<1>11. Committed(k.prop, k.txn)' BY <1>9 DEF Committed
<1>12. Knows(m)'
  BY <1>3, <1>4, <1>7, <1>8, <1>10, <1>11 DEF Knows, Alike, BeforeOpen, PastApplying, Engine
<1>13. ASSUME NEW q \in Props \ contested PROVE ~(Succeeded(q) /\ rec[q].apply.txn = k.txn)
  BY <1>3, <1>4, NotOnRecord
<1>14. ASSUME NEW q \in Props \ contested, rec[q] # None, rec[q].state = "rolled_back"
       PROVE  rec[q].apply.txn # k.txn
  BY <1>13, <1>14 DEF Told, Recorded
<1>15. ASSUME NEW d \in Cmds \ {c}, cmd[d].op = "apply", ~Wrote(cmd[d].prop),
              cmd[d].prop \notin contested
       PROVE  content'[cmd[d].prop] \notin {"proposed", "partial"}
  <2>1. cmd[d].prop # k.prop /\ cmd[d].prop \in Props
    BY <1>2, <1>3, <1>15, OneApply, CommandShape
  <2>2. PICK q \in {cmd[d].prop} : TRUE OBVIOUS
  <2>3. ~Wrote(q)' BY <1>6, <1>15, <2>1, <2>2, WroteKept DEF Wrote
  <2>. QED BY <2>2, <2>3 DEF Wrote
<1>16. ASSUME NEW d \in Cmds \ {c}, cmd[d].op = "rollback", cmd[d].pc # "load",
              Succeeded(cmd[d].prop), cmd[d].prop \notin contested
       PROVE  cmd[d].txn # k.txn
  <2>1. cmd[d].prop \in Props BY <1>16, CommandShape
  <2>2. rec[cmd[d].prop].apply.txn = cmd[d].txn BY <1>16 DEF Told, Knows
  <2>. QED BY <1>13, <1>16, <2>1, <2>2
<1>17. PICK t \in Txns : t = cmd[c].txn /\ t = k.txn BY <1>2, <1>3
<1>18. /\ t <= issued /\ \A u \in Txns \ {t} : txns'[u] = txns[u]
       /\ txns'[t].prop = txns[t].prop /\ txns'[t].state \notin {"none", "open"}
  BY <1>4, <1>9, <1>17
<1>19. cmd[c].pc # "idle" /\ cmd[c].op = "apply" /\ m.op = cmd[c].op /\ m.txn = cmd[c].txn
  BY <1>0, <1>1, <1>2, <1>3 DEF Alike
<1>20. OwnStep(c, m, t)
  BY <1>0, <1>7, <1>14, <1>15, <1>16, <1>17, <1>18, <1>19 DEF OwnStep
<1>. QED BY <1>12, <1>20, OwnTold

(* The engine's rollback answers.                                           *)
LEMMA BackMakes ==
  ASSUME Inv, NEW c \in Cmds, NEW res, cmd' = [cmd EXCEPT ![c].pc = "undone", ![c].result = res]
  PROVE  \E m : /\ cmd' = [cmd EXCEPT ![c] = m] /\ m.pc = "undone" /\ m.result = res
                /\ m.op = cmd[c].op /\ m.prop = cmd[c].prop /\ m.txn = cmd[c].txn
                /\ m.next = cmd[c].next /\ m.ok = cmd[c].ok
<1>. DEFINE m == [cmd[c] EXCEPT !.pc = "undone", !.result = res]
<1>1. cmd \in [Cmds -> Commands] /\ cmd[c] \in Commands BY DEF Inv, TypeOK
<1>2. cmd' = [cmd EXCEPT ![c] = m] BY <1>1
<1>3. /\ m.pc = "undone" /\ m.result = res /\ m.next = cmd[c].next /\ m.ok = cmd[c].ok
      /\ m.op = cmd[c].op /\ m.prop = cmd[c].prop /\ m.txn = cmd[c].txn
  BY <1>1 DEF Commands
<1>. QED BY <1>2, <1>3

(* Both an apply and a rollback undo a transaction of theirs that committed.*)
LEMMA Undoes ==
  ASSUME Inv, Told, NEW c \in Cmds, cmd[c].pc \in {"undo", "undoing"}
  PROVE  \E k \in {cmd[c]} :
           /\ Knows(k) /\ k.op \in {"apply", "rollback"} /\ k.prop \in Props /\ k.txn \in Txns
           /\ k.txn <= issued /\ Committed(k.prop, k.txn)
           /\ k.op = "apply" => ~k.ok /\ k.prop \in proven /\ (k.prop \notin contested => ~Succeeded(k.prop))
           /\ k.op = "rollback" => k.result # "rolled_back" /\ k.next # "rolled_back"
           /\ k.op = "rollback" /\ k.prop \notin contested =>
                /\ Succeeded(k.prop) /\ rec[k.prop].apply.txn = k.txn
                /\ rec[k.prop].state # "rolled_back"
<1>1. PICK k \in {cmd[c]} : Knows(k) BY DEF Told
<1>2. cmd[c].pc # "idle" OBVIOUS
<1>3. /\ k.prop \in Props /\ k.txn \in Txns /\ k.op \in {"apply", "rollback"} /\ Outcome(k)
      /\ rec[k.prop] # None /\ rec[k.prop].state \in Allowed(k)
  BY <1>1, <1>2, Running DEF OpPcs, Ops, Verification, Engine
<1>4. k.txn <= issued BY <1>1, <1>3 DEF Knows
<1>5. CASE k.op = "apply"
  <2>1. ~k.ok BY <1>1, <1>3, <1>5 DEF Outcome
  <2>2. /\ Committed(k.prop, k.txn) /\ k.prop \in proven
        /\ k.prop \notin contested => ~Succeeded(k.prop)
    BY <1>1, <1>5 DEF Knows, PastApplying, Engine
  <2>. QED BY <1>1, <1>3, <1>4, <1>5, <2>1, <2>2
<1>6. CASE k.op = "rollback"
  <2>1. /\ k.prop \notin contested => Succeeded(k.prop) /\ rec[k.prop].apply.txn = k.txn
        /\ k.result # "rolled_back" /\ k.next # "rolled_back"
    BY <1>1, <1>6 DEF Knows
  <2>2. Committed(k.prop, k.txn) BY <1>1, <1>6 DEF Knows
  <2>3. k.prop \notin contested => rec[k.prop].state # "rolled_back" BY <1>1, <1>3, <1>6 DEF Allowed, Relied, Engine
  <2>. QED BY <1>1, <1>3, <1>4, <1>6, <2>1, <2>2, <2>3
<1>. QED BY <1>3, <1>5, <1>6

LEMMA UndoTold == ASSUME Inv, Told, UNCHANGED contested, NEW c \in Cmds, Undo(c) PROVE Told'
<1>1. cmd[c].pc = "undo" BY DEF Undo
<1>2. PICK k \in {cmd[c]} :
        /\ Knows(k) /\ k.op \in {"apply", "rollback"} /\ k.prop \in Props /\ k.txn \in Txns
        /\ k.txn <= issued /\ Committed(k.prop, k.txn)
        /\ k.op = "apply" => ~k.ok /\ k.prop \in proven /\ (k.prop \notin contested => ~Succeeded(k.prop))
        /\ k.op = "rollback" => k.result # "rolled_back" /\ k.next # "rolled_back"
        /\ k.op = "rollback" /\ k.prop \notin contested =>
             /\ Succeeded(k.prop) /\ rec[k.prop].apply.txn = k.txn
             /\ rec[k.prop].state # "rolled_back"
  BY <1>1, Undoes
<1>3. rec' = rec /\ UNCHANGED <<proven, issued>> BY DEF Undo, storeVars
<1>4. CASE UNCHANGED <<txns, content>>
           /\ \E res \in {"rolled_back", "error"} :
                /\ cmd' = [cmd EXCEPT ![c].pc = "undone", ![c].result = res]
                /\ res = "rolled_back" => txns[cmd[c].txn].state = "rolled_back"
  <2>1. Mild BY <1>3, <1>4, SameMild DEF Mild
  <2>2. PICK res \in {"rolled_back", "error"} :
          /\ cmd' = [cmd EXCEPT ![c].pc = "undone", ![c].result = res]
          /\ res = "rolled_back" => txns[cmd[c].txn].state = "rolled_back"
    BY <1>4
  <2>3. PICK m : /\ cmd' = [cmd EXCEPT ![c] = m] /\ m.pc = "undone" /\ m.result = res
                 /\ m.op = cmd[c].op /\ m.prop = cmd[c].prop /\ m.txn = cmd[c].txn
                 /\ m.next = cmd[c].next /\ m.ok = cmd[c].ok
    BY <2>2, BackMakes
  <2>4. Knows(m)
    BY <1>2, <2>2, <2>3 DEF Knows, BeforeOpen, PastApplying, Engine
  <2>. QED BY <1>1, <2>1, <2>3, <2>4, MildGoes
<1>5. CASE /\ txns[cmd[c].txn].state # "rolled_back"
           /\ txns' = [txns EXCEPT ![cmd[c].txn].state = "undoing"]
           /\ content' = IF content[cmd[c].prop] = "proposed"
                         THEN Written(cmd[c].prop, "partial") ELSE content
           /\ Goto(c, "undoing")
  <2>1. PICK m : cmd' = [cmd EXCEPT ![c] = m] /\ Alike(cmd[c], m) /\ m.pc = "undoing"
    BY <1>5, Redirected
  <2>2. Alike(k, m) BY <1>2, <2>1
  <2>3. PICK t \in Txns : t = cmd[c].txn /\ t = k.txn BY <1>2
  <2>4. /\ txns'[t].state = "undoing" /\ txns'[t].prop = txns[t].prop
        /\ \A u \in Txns \ {t} : txns'[u] = txns[u]
    BY <1>5, <2>3, TxnUpdated
  <2>5. Succeeded(k.prop)' <=> Succeeded(k.prop) BY <1>3 DEF Succeeded
  <2>6. Committed(k.prop, k.txn)' /\ txns[t].state # "none" BY <1>2, <2>3, <2>4 DEF Committed
  <2>7. Knows(m)'
    BY <1>2, <1>3, <2>1, <2>2, <2>5, <2>6 DEF Knows, Alike, BeforeOpen, PastApplying, Engine
  <2>8. ASSUME NEW d \in Cmds \ {c}, cmd[d].op = "apply", ~Wrote(cmd[d].prop),
              cmd[d].prop \notin contested
        PROVE  content'[cmd[d].prop] \notin {"proposed", "partial"}
    <3>1. PICK q \in {cmd[d].prop} : q \in Props BY <2>8, CommandShape
    <3>2. CASE content' = content BY <2>8, <3>2 DEF Wrote
    <3>3. CASE content' = Written(cmd[c].prop, "partial") /\ content[cmd[c].prop] = "proposed"
      <4>1. q # cmd[c].prop BY <2>8, <3>1, <3>3 DEF Wrote
      <4>2. ~Wrote(q)' BY <2>8, <3>1, <3>3, <4>1, WroteKept
      <4>. QED BY <3>1, <4>2 DEF Wrote
    <3>. QED BY <1>5, <3>2, <3>3
  <2>9. cmd[c].pc # "idle" /\ m.op = cmd[c].op /\ m.txn = cmd[c].txn /\ t <= issued
    BY <1>1, <1>2, <2>1, <2>3 DEF Alike
  <2>10. txns[t].state # "rolled_back" BY <1>5, <2>3
  <2>11. OwnStep(c, m, t)
    BY <1>3, <2>1, <2>3, <2>4, <2>6, <2>8, <2>9, <2>10 DEF OwnStep
  <2>. QED BY <2>7, <2>11, OwnTold
<1>. QED BY <1>4, <1>5 DEF Undo

LEMMA UndoingTold == ASSUME Inv, Told, UNCHANGED contested, NEW c \in Cmds, Undoing(c) PROVE Told'
<1>1. cmd[c].pc = "undoing" BY DEF Undoing
<1>2. PICK k \in {cmd[c]} :
        /\ Knows(k) /\ k.op \in {"apply", "rollback"} /\ k.prop \in Props /\ k.txn \in Txns
        /\ k.txn <= issued /\ Committed(k.prop, k.txn)
        /\ k.op = "apply" => ~k.ok /\ k.prop \in proven /\ (k.prop \notin contested => ~Succeeded(k.prop))
        /\ k.op = "rollback" => k.result # "rolled_back" /\ k.next # "rolled_back"
        /\ k.op = "rollback" /\ k.prop \notin contested =>
             /\ Succeeded(k.prop) /\ rec[k.prop].apply.txn = k.txn
             /\ rec[k.prop].state # "rolled_back"
  BY <1>1, Undoes
<1>3. rec' = rec /\ UNCHANGED <<proven, issued>> BY DEF Undoing, storeVars
<1>4. PICK s \in {"rolled_back", "stuck"}, res \in {"rolled_back", "error"} :
        /\ Settle(c, s) /\ cmd' = [cmd EXCEPT ![c].pc = "undone", ![c].result = res]
        /\ res = "rolled_back" => s = "rolled_back"
  BY DEF Undoing
<1>5. content' = content \/ content' = Written(cmd[c].prop, "base") BY DEF Undoing
<1>6. PICK m : /\ cmd' = [cmd EXCEPT ![c] = m] /\ m.pc = "undone" /\ m.result = res
               /\ m.op = cmd[c].op /\ m.prop = cmd[c].prop /\ m.txn = cmd[c].txn
               /\ m.next = cmd[c].next /\ m.ok = cmd[c].ok
  BY <1>4, BackMakes, ZenonT(60)
<1>7. PICK t \in Txns : t = cmd[c].txn /\ t = k.txn BY <1>2
<1>8. /\ txns'[t].state = s /\ txns'[t].prop = txns[t].prop
      /\ \A u \in Txns \ {t} : txns'[u] = txns[u]
  BY <1>4, <1>7, TxnUpdated DEF Settle
<1>9. Succeeded(k.prop)' <=> Succeeded(k.prop) BY <1>3 DEF Succeeded
<1>10. Committed(k.prop, k.txn)' /\ txns[t].state # "none" BY <1>2, <1>7, <1>8 DEF Committed
<1>11. Knows(m)'
  BY <1>2, <1>3, <1>4, <1>6, <1>7, <1>8, <1>9, <1>10 DEF Knows, BeforeOpen, PastApplying, Engine
<1>12. ASSUME NEW d \in Cmds \ {c}, cmd[d].op = "apply", ~Wrote(cmd[d].prop),
              cmd[d].prop \notin contested
       PROVE  content'[cmd[d].prop] \notin {"proposed", "partial"}
  <2>1. PICK q \in {cmd[d].prop} : q \in Props BY <1>12, CommandShape
  <2>2. ~Wrote(q)' BY <1>5, <1>12, <2>1, WroteKept DEF Wrote
  <2>. QED BY <2>1, <2>2 DEF Wrote
<1>13. ASSUME NEW q \in Props \ contested, Succeeded(q), rec[q].apply.txn = t PROVE q = k.prop /\ k.op = "rollback"
  <2>1. Committed(q, t) BY <1>13 DEF Told, Recorded, Succeeded
  <2>2. q = k.prop BY <1>2, <1>7, <2>1 DEF Committed
  <2>. QED BY <1>2, <1>13, <2>2
<1>14. \A q \in Props \ contested : rec[q] # None /\ rec[q].state = "rolled_back" => rec[q].apply.txn # t
  BY <1>2, <1>13 DEF Told, Recorded
<1>15. ASSUME NEW d \in Cmds \ {c}, cmd[d].op = "rollback", cmd[d].pc # "load",
              Succeeded(cmd[d].prop), cmd[d].prop \notin contested
       PROVE  cmd[d].txn # t
  <2>1. cmd[d].prop \in Props BY <1>15, CommandShape
  <2>2. rec[cmd[d].prop].apply.txn = cmd[d].txn BY <1>15 DEF Told, Knows
  <2>3. cmd[d].txn = t => cmd[d].prop = cmd[c].prop /\ cmd[c].op = "rollback"
    BY <1>2, <1>13, <1>15, <2>1, <2>2
  <2>. QED BY <1>15, <2>3, OneApply
<1>16. cmd[c].pc # "idle" /\ t <= issued BY <1>1, <1>2, <1>7
<1>17. OwnStep(c, m, t)
  BY <1>3, <1>6, <1>7, <1>8, <1>10, <1>12, <1>14, <1>15, <1>16 DEF OwnStep
<1>. QED BY <1>11, <1>17, OwnTold

-----------------------------------------------------------------------------
(* The other steps.                                                         *)

LEMMA StepTold == ASSUME Inv, Told, UNCHANGED contested, NEW c \in Cmds, Step(c) PROVE Told'
<1>1. CASE \/ ObserveFix(c) \/ Create(c) \/ ContextPolicy(c) \/ Discard(c) \/ Expire(c)
           \/ Retreat(c) \/ Issue(c) \/ Consume(c)
  BY <1>1, PlainTold
<1>2. CASE Load(c) \/ Observe(c) \/ Stage(c) \/ Build(c)
  BY <1>2, LoadTold, ObserveTold, StageTold, BuildTold
<1>3. CASE \/ Pending(c) \/ Applying(c) \/ Available(c) \/ Rolling(c) \/ Conclude(c)
           \/ Refuse(c) \/ Policy(c)
  BY <1>3, ApplyMovesTold, RollingTold, ConcludeTold, RefuseTold, PolicyTold
<1>4. CASE Recheck(c) \/ Postcheck(c) \/ Undone(c) \/ Report(c) BY <1>4, OutcomeTold, ReportTold
<1>5. CASE Execute(c) \/ Executing(c) \/ Undo(c) \/ Undoing(c)
  BY <1>5, ExecuteTold, ExecutingTold, UndoTold, UndoingTold
<1>. QED BY <1>1, <1>2, <1>3, <1>4, <1>5 DEF Step

(* A new command has a number of its own.                                   *)
LEMMA StartTold ==
  ASSUME Inv, Told, NEW c \in Cmds, NEW p \in Props, NEW op \in Ops, Start(c, p, op)
  PROVE  Told'
<1>1. /\ issued < MaxCommands /\ issued' = issued + 1
      /\ UNCHANGED <<rec, content, txns, proven>>
      /\ cmd' = [cmd EXCEPT ![c] =
                   [Idle EXCEPT !.op = op, !.pc = FirstPc(op), !.prop = p, !.txn = issued']]
  BY DEF Start, storeVars, workspaceVars, engineVars
<1>2. issued \in 0..MaxCommands /\ MaxCommands \in Nat BY LifecycleAssumption DEF Inv, TypeOK
<1>3. issued' \in 0..MaxCommands /\ issued' \in Txns /\ issued <= issued' /\ ~(issued' <= issued)
  BY <1>1, <1>2 DEF Txns
<1>4. PICK m \in {[Idle EXCEPT !.op = op, !.pc = FirstPc(op), !.prop = p, !.txn = issued']} : TRUE
  OBVIOUS
<1>5. /\ m.op = op /\ m.pc = FirstPc(op) /\ m.prop = p /\ m.txn = issued' /\ ~m.ok
      /\ m.result = "none" /\ m.next = "none"
  BY <1>4 DEF Idle
<1>6. Grows
  <2>1. contested \subseteq contested' BY DEF Start
  <2>. QED BY <1>1, <1>3, <2>1 DEF Grows
<1>7. \A d \in Cmds \ {c} : \E k \in {cmd[d]} : Leaves(k) BY <1>1 DEF Leaves, Succeeded, Wrote
<1>8. txns'[m.txn].state = "none" BY <1>1, <1>3, <1>5 DEF Told
<1>9. m.pc \in {"observe_fix", "discard", "load"} /\ (m.op \in {"apply", "rollback"} => m.pc = "load")
  BY <1>5 DEF FirstPc
<1>10. m.txn <= issued' BY <1>2, <1>3, <1>5
<1>11. Knows(m)' BY <1>5, <1>8, <1>9, <1>10 DEF Knows, BeforeOpen, PastApplying, Engine
<1>12. \A q \in Props : Recorded(q)' BY <1>1, <1>6 DEF Grows, Told, Recorded, Succeeded, Committed
<1>13. \A t \in Txns : txns'[t].state # "none" => t <= issued'
  <2>1. Txns \subseteq Int BY <1>2 DEF Txns
  <2>. QED BY <1>1, <1>2, <1>3, <2>1 DEF Told
<1>14. \A d \in Cmds \ {c} : cmd[d].op # "none" => cmd[d].txn # m.txn
  BY <1>3, <1>5 DEF Told, Knows
<1>15. cmd' = [cmd EXCEPT ![c] = m] BY <1>1, <1>4
<1>. QED BY <1>3, <1>6, <1>7, <1>11, <1>12, <1>13, <1>14, <1>15, ToldStep

LEMMA CancelTold == ASSUME Inv, Told, UNCHANGED contested, NEW c \in Cmds, Cancel(c) PROVE Told'
<1>. DEFINE n == [cmd[c] EXCEPT !.cancelled = TRUE]
<1>1. cmd \in [Cmds -> Commands] /\ cmd[c] \in Commands BY DEF Inv, TypeOK
<1>2. cmd' = [cmd EXCEPT ![c] = n] /\ cmd[c].pc # "idle" BY <1>1 DEF Cancel
<1>3. Alike(cmd[c], n) /\ n.pc = cmd[c].pc BY <1>1 DEF Commands, Alike
<1>. HIDE DEF n
<1>4. PICK m \in {n} : TRUE OBVIOUS
<1>5. Mild BY SameMild DEF Cancel, Mild, storeVars, workspaceVars, engineVars
<1>6. Knows(cmd[c]) BY DEF Told
<1>7. Knows(m) BY <1>3, <1>4, <1>6 DEF Knows, Alike
<1>. QED BY <1>2, <1>3, <1>4, <1>5, <1>7, MildGoes DEF Alike

LEMMA CrashTold == ASSUME Inv, Told, UNCHANGED contested, NEW c \in Cmds, Crash(c) PROVE Told'
<1>1. Mild BY SameMild DEF Crash, Mild, storeVars, workspaceVars
<1>. QED BY <1>1, MildReturns DEF Crash

(* Steps of the environment, which move no command and no record: they      *)
(* write nothing of a proposal, and settle no transaction twice.            *)
LEMMA AroundTold ==
  ASSUME Inv, Told, UNCHANGED contested, UNCHANGED <<cmd, rec, proven, issued>>,
         \A q \in Props : ~Wrote(q) => content'[q] \notin {"proposed", "partial"},
         \A t \in Txns :
           \/ txns'[t] = txns[t]
           \/ /\ txns[t].state \notin {"none", "rolled_back"} /\ txns'[t].prop = txns[t].prop
              /\ txns'[t].state \notin {"none", "open"}
  PROVE  Told'
<1>1. issued' \in 0..MaxCommands /\ issued <= issued'
  BY LifecycleAssumption DEF Inv, TypeOK
<1>2. Grows BY <1>1 DEF Grows
<1>3. ASSUME NEW d \in Cmds PROVE \E k \in {cmd'[d]} : Knows(k)'
  <2>1. PICK k \in {cmd[d]} : Knows(k) BY DEF Told
  <2>2. (k.op # "none" => k.prop \in Props /\ k.txn \in Txns) /\ k.txn \in Int
    BY <2>1, CommandShape
  <2>3. Succeeded(k.prop)' <=> Succeeded(k.prop) BY DEF Succeeded
  <2>4. Leaves(k)
    <3>1. CASE k.op = "apply"
      <4>1. ~Wrote(k.prop) => ~Wrote(k.prop)' BY <2>2, <3>1 DEF Wrote
      <4>2. /\ txns[k.txn].state = "none" => txns'[k.txn].state = "none"
            /\ txns'[k.txn].prop = txns[k.txn].prop
        BY <2>2, <3>1
      <4>. QED BY <2>3, <3>1, <4>1, <4>2 DEF Leaves
    <3>2. CASE k.op = "rollback"
      <4>1. txns[k.txn].state = "rolled_back" => txns'[k.txn].state = "rolled_back" BY <2>2, <3>2
      <4>. QED BY <2>3, <3>2, <4>1 DEF Leaves
    <3>3. CASE k.op \notin {"apply", "rollback"} BY <3>3 DEF Leaves
    <3>. QED BY <3>1, <3>2, <3>3
  <2>5. Knows(k)' BY <1>1, <1>2, <2>1, <2>2, <2>4, KnowsKept
  <2>6. k = cmd'[d] BY <2>1
  <2>. QED BY <2>5, <2>6
<1>4. ASSUME NEW q \in Props PROVE Recorded(q)'
  <2>1. PICK r \in {rec[q]} : TRUE OBVIOUS
  <2>2. Recorded(q) /\ rec[q] = r /\ rec'[q] = r BY <2>1 DEF Told
  <2>3. Succeeded(q)' <=> Succeeded(q) BY DEF Succeeded
  <2>4. ASSUME Succeeded(q)
        PROVE  /\ Committed(q, r.apply.txn)'
               /\ txns[r.apply.txn].state = "rolled_back" => txns'[r.apply.txn].state = "rolled_back"
    <3>1. r # None /\ r \in Records /\ r.apply # None BY <2>1, <2>4 DEF Inv, TypeOK, Succeeded
    <3>2. r.apply.txn \in Txns BY <3>1 DEF Records, ApplyReports
    <3>3. Committed(q, r.apply.txn) BY <2>2, <2>4, <3>1 DEF Recorded
    <3>. QED BY <3>2, <3>3 DEF Committed
  <2>. QED BY <2>2, <2>3, <2>4 DEF Recorded
<1>5. \A t \in Txns : txns'[t].state # "none" => t <= issued' BY DEF Told
<1>6. OwnTxns' BY DEF Told, OwnTxns
<1>. QED BY <1>3, <1>4, <1>5, <1>6 DEF Told

LEMMA UserTold == ASSUME Inv, Told, UNCHANGED contested, UserActs PROVE Told'
<1>1. UNCHANGED <<cmd, rec, proven, issued, txns>> BY DEF UserActs, storeVars, engineVars
<1>2. \A q \in Props : ~Wrote(q) => content'[q] \notin {"proposed", "partial"}
  BY DEF UserActs, Wrote, Written
<1>. QED BY <1>1, <1>2, AroundTold

LEMMA RepairTold == ASSUME Inv, Told, UNCHANGED contested, NEW t \in Txns, Repair(t) PROVE Told'
<1>1. UNCHANGED <<cmd, rec, proven, issued>> BY DEF Repair, storeVars
<1>2. PICK s \in {"rolled_back", "stuck"} : txns' = [txns EXCEPT ![t].state = s] BY DEF Repair
<1>3. txns[t].state \in {"open", "committed", "undoing", "stuck"} BY DEF Repair
<1>4. /\ txns'[t].state = s /\ txns'[t].prop = txns[t].prop
      /\ \A u \in Txns \ {t} : txns'[u] = txns[u]
  BY <1>2, TxnUpdated
<1>5. \A q \in Props : ~Wrote(q) => content'[q] \notin {"proposed", "partial"}
  BY DEF Repair, Wrote, Written
<1>. QED BY <1>1, <1>3, <1>4, <1>5, AroundTold

LEMMA ToldInit == Init => Told
<1>. SUFFICES ASSUME Init PROVE Told OBVIOUS
<1>1. \A c \in Cmds : cmd[c] = Idle BY DEF Init
<1>2. Idle.op = "none" BY IdleKnows
<1>3. OwnTxns BY <1>1, <1>2 DEF OwnTxns
<1>4. \A p \in Props : Recorded(p) BY DEF Init, Recorded
<1>5. \A t \in Txns : txns[t].state = "none" BY DEF Init
<1>. QED BY <1>1, <1>3, <1>4, <1>5, IdleKnows DEF Told

LEMMA ToldNext == ASSUME Inv, Told, [Next]_vars PROVE Told'
<1>1. CASE UNCHANGED vars
  BY <1>1, AroundTold DEF vars, storeVars, workspaceVars, engineVars, Wrote
<1>2. CASE \E c \in Cmds : Works(c) BY <1>2, StepTold DEF Works
<1>3. ASSUME UNCHANGED contested, NEW p \in Props, TtlElapses(p) PROVE Told'
  BY <1>3, AroundTold DEF TtlElapses, workspaceVars, engineVars, Wrote
<1>4. CASE Environment /\ UNCHANGED contested
  BY <1>3, <1>4, CancelTold, CrashTold, UserTold, RepairTold DEF Environment
<1>. QED BY <1>1, <1>2, <1>4, StartTold DEF Next

LEMMA ToldReports == Told => ReportsTrue
BY DEF Told, Recorded, Succeeded, Committed, ReportsTrue

(* What the reports say happened, for any number of proposals, processes,   *)
(* crashes, errors, edits and repairs: a successful apply report names a    *)
(* transaction of this proposal that did commit, and a proposal is rolled   *)
(* back only when the engine rolled that transaction back (record_apply,    *)
(* record_rollback, rollback_edit_proposal), unless a command was run twice *)
(* at once on it: of two applies the later report replaces the earlier one. *)
THEOREM ReportsTrueHolds == Spec => []ReportsTrue
<1>1. Inv /\ Told /\ [Next]_vars => Inv' /\ Told' BY InvNext, ToldNext
<1>. QED BY <1>1, InvInit, ToldInit, ToldReports, PTL DEF Spec

-----------------------------------------------------------------------------
(* What a step may not do.                                                  *)

(* The steps, one by one.                                                   *)
LEMMA Steps ==
  ASSUME [Next]_vars
  PROVE  \/ \E c \in Cmds, p \in Props, op \in Ops : Start(c, p, op)
         \/ \E c \in Cmds : Step(c) /\ UNCHANGED contested
         \/ /\ \/ \E c \in Cmds : Cancel(c) \/ Crash(c)
               \/ \E p \in Props : TtlElapses(p)
               \/ UserActs
               \/ \E t \in Txns : Repair(t)
            /\ UNCHANGED contested
         \/ UNCHANGED vars
BY DEF Next, Works, Environment

(* Only a running command writes the store.                                 *)
LEMMA StoreOwner == ASSUME [Next]_vars, rec' # rec PROVE \E c \in Cmds : Step(c)
<1>1. ASSUME NEW c, NEW p, NEW op, Start(c, p, op) PROVE FALSE BY <1>1 DEF Start, storeVars
<1>2. ASSUME NEW c, Cancel(c) \/ Crash(c) PROVE FALSE BY <1>2 DEF Cancel, Crash, storeVars
<1>3. ASSUME NEW p, TtlElapses(p) PROVE FALSE BY <1>3 DEF TtlElapses
<1>4. ~UserActs /\ ~UNCHANGED vars BY DEF UserActs, vars, storeVars
<1>5. ASSUME NEW u, Repair(u) PROVE FALSE BY <1>5 DEF Repair, storeVars
<1>. QED BY <1>1, <1>2, <1>3, <1>4, <1>5, Steps

(* Only an apply that is past its preconditions opens a transaction.        *)
LEMMA OnlyExecuteOpens ==
  ASSUME Inv, [Next]_vars, NEW t \in Txns, txns[t].state = "none", txns'[t].state = "open"
  PROVE  \E c \in Cmds : /\ cmd[c].pc = "execute" /\ cmd[c].op = "apply" /\ cmd[c].prop \in Props
                         /\ txns'[t].prop = cmd[c].prop
<1>0. txns \in [Txns -> [prop : Props \union {None}, state : JournalStates]] BY DEF Inv, TypeOK
<1>1. txns' # txns OBVIOUS
<1>2. CASE \E c \in Cmds : Step(c)
  <2>1. PICK c \in Cmds : Step(c) BY <1>2
  <2>2. ~Quiet /\ ~Build(c) BY <1>1 DEF Quiet, Build, engineVars
  <2>3. Execute(c) \/ Executing(c) \/ Undo(c) \/ Undoing(c) BY <2>1, <2>2, QuietSteps DEF Step
  <2>4. cmd[c].pc # "idle" BY <2>3 DEF Execute, Executing, Undo, Undoing
  <2>5. cmd[c].txn \in Txns /\ cmd[c].prop \in Props /\ cmd[c].op \in Ops /\ cmd[c].pc \in OpPcs(cmd[c].op)
    BY <2>4, Running
  <2>6. CASE Execute(c)
    <3>1. cmd[c].pc = "execute" /\ cmd[c].op = "apply"
      BY <2>5, <2>6 DEF Execute, OpPcs, Ops, Verification, Engine
    <3>2. txns' = [txns EXCEPT ![cmd[c].txn] = [prop |-> cmd[c].prop, state |-> "open"]]
      BY <1>1, <2>6 DEF Execute
    <3>3. txns'[t].prop = cmd[c].prop BY <1>0, <2>5, <3>2
    <3>. QED BY <2>5, <3>1, <3>3
  <2>7. CASE Executing(c) \/ Undo(c) \/ Undoing(c)
    <3>1. \E s \in {"committed", "rolled_back", "stuck", "undoing"} : txns' = [txns EXCEPT ![cmd[c].txn].state = s]
      BY <1>1, <2>7 DEF Executing, Undo, Undoing, Settle
    <3>. QED BY <1>0, <2>5, <3>1
  <2>. QED BY <2>3, <2>6, <2>7
<1>3. CASE \E u \in Txns : Repair(u)
  <2>1. PICK u \in Txns : Repair(u) BY <1>3
  <2>2. \E s \in {"rolled_back", "stuck"} : txns' = [txns EXCEPT ![u].state = s] BY <2>1 DEF Repair
  <2>. QED BY <1>0, <2>2
<1>4. CASE ~(\E c \in Cmds : Step(c)) /\ ~(\E u \in Txns : Repair(u))
  <2>1. ASSUME NEW c, NEW p, NEW op, Start(c, p, op) PROVE FALSE BY <1>1, <2>1 DEF Start, engineVars
  <2>2. ASSUME NEW c, Cancel(c) \/ Crash(c) PROVE FALSE BY <1>1, <2>2 DEF Cancel, Crash, engineVars
  <2>3. ASSUME NEW p, TtlElapses(p) PROVE FALSE BY <1>1, <2>3 DEF TtlElapses, engineVars
  <2>4. ~UserActs /\ ~UNCHANGED vars BY <1>1 DEF UserActs, vars, engineVars
  <2>. QED BY <1>4, <2>1, <2>2, <2>3, <2>4, Steps
<1>. QED BY <1>2, <1>3, <1>4

LEMMA OpenedWasVerified ==
  ASSUME Inv, Told, [Next]_vars, NEW t \in Txns, txns[t].state = "none", txns'[t].state = "open"
  PROVE  LET p == txns'[t].prop IN
         p \in proven /\ (p \in contested \/ rec[p].state = "applying")
<1>1. PICK c \in Cmds : /\ cmd[c].pc = "execute" /\ cmd[c].op = "apply" /\ cmd[c].prop \in Props
                        /\ txns'[t].prop = cmd[c].prop
  BY OnlyExecuteOpens
<1>2. Knows(cmd[c]) BY DEF Told
<1>3. cmd[c].prop \in proven BY <1>1, <1>2 DEF Knows
<1>4. rec[cmd[c].prop].state \in Allowed(cmd[c]) BY <1>1, Running
<1>5. cmd[c].prop \in contested \/ rec[cmd[c].prop].state = "applying" BY <1>1, <1>4 DEF Allowed, Relied, Engine
<1>. QED BY <1>1, <1>3, <1>5

(* Nothing is ever written to the original workspace but a proposal whose   *)
(* worktree build, cleanup and source guard passed; and only while its      *)
(* record says it is being applied (validate_apply_preconditions,           *)
(* apply_verified_proposal), whatever is discarded, expires, crashes or is  *)
(* verified again meanwhile.  The second half excepts a proposal on which a *)
(* command was run twice at once: the failure of one apply takes the record *)
(* out of `applying` under the other (apply.rs:129-141).                    *)
THEOREM AppliedWasVerifiedHolds == Spec => AppliedWasVerified
<1>1. Inv /\ Told /\ [Next]_vars => Inv' /\ Told' BY InvNext, ToldNext
<1>2. Inv /\ Told /\ [Next]_vars =>
        \A t \in Txns : txns[t].state = "none" /\ txns'[t].state = "open" =>
          LET p == txns'[t].prop IN
          p \in proven /\ (p \in contested \/ rec[p].state = "applying")
  BY OpenedWasVerified
<1>. QED BY <1>1, <1>2, InvInit, ToldInit, PTL DEF Spec, AppliedWasVerified

LEMMA TransitionState ==
  ASSUME Inv, NEW q \in Props, NEW n \in States, Transition(q, n), NEW p \in Props, rec[p] # None
  PROVE  rec'[p].state = IF p = q THEN n ELSE rec[p].state
<1>. DEFINE changed == [rec[q] EXCEPT !.state = n]
            r == [changed EXCEPT !.generations = @ + 1]
<1>1. rec \in [Props -> Records \union {None}] /\ rec[q] # None /\ rec[q] \in Records
  BY DEF Inv, TypeOK, Transition, Readable
<1>2. rec' = [rec EXCEPT ![q] = r] BY DEF Transition, Publish
<1>3. r.state = n
  <2>1. changed \in Records /\ changed.state = n BY <1>1, StateChanged
  <2>. HIDE DEF changed
  <2>. QED BY <2>1, Numbered
<1>. HIDE DEF r
<1>. QED BY <1>1, <1>2, <1>3

LEMMA PolicyState ==
  ASSUME Inv, NEW q \in Props, NEW n \in Nat, RecordPolicy(q, n), NEW p \in Props, rec[p] # None
  PROVE  rec'[p].state = rec[p].state
<1>. DEFINE changed == [rec[q] EXCEPT !.policy = @ + n]
            r == [changed EXCEPT !.generations = @ + 1]
<1>1. rec \in [Props -> Records \union {None}] /\ rec[q] # None /\ rec[q] \in Records
  BY DEF Inv, TypeOK, RecordPolicy, Readable
<1>2. rec' = [rec EXCEPT ![q] = r] BY DEF RecordPolicy, Publish
<1>3. r.state = rec[q].state
  <2>1. changed \in Records /\ changed.state = rec[q].state BY <1>1, PolicyChanged
  <2>. HIDE DEF changed
  <2>. QED BY <2>1, Numbered
<1>. HIDE DEF r
<1>. QED BY <1>1, <1>2, <1>3

LEMMA ReportState ==
  ASSUME Inv, NEW c \in Cmds, Report(c), NEW p \in Props, rec[p] # None
  PROVE  rec'[p].state = rec[p].state
<1>1. cmd[c].pc = "report" BY DEF Report
<1>2. cmd[c].prop \in Props /\ rec[cmd[c].prop] \in Records /\ cmd[c] \in Commands
      /\ cmd[c].txn \in Txns /\ rec \in [Props -> Records \union {None}]
  BY <1>1, Running DEF Inv, TypeOK
<1>. DEFINE q == cmd[c].prop
            new == Reported(rec[q], cmd[c])
            r == [new EXCEPT !.generations = @ + 1]
<1>3. new \in Records /\ new.state = rec[q].state
  <2>1. cmd[c].ok \in BOOLEAN BY <1>2 DEF Commands
  <2>2. CASE cmd[c].op = "apply"
    <3>1. [txn |-> cmd[c].txn, success |-> cmd[c].ok] \in ApplyReports BY <1>2, <2>1 DEF ApplyReports
    <3>2. new = [rec[q] EXCEPT !.apply = [txn |-> cmd[c].txn, success |-> cmd[c].ok]]
      BY <2>2 DEF Reported
    <3>. QED BY <1>2, <3>1, <3>2 DEF Records
  <2>3. CASE cmd[c].op = "rollback"
    <3>1. new = [rec[q] EXCEPT !.rollback = IF cmd[c].ok THEN "done" ELSE "failed"]
      BY <2>3 DEF Reported
    <3>. QED BY <1>2, <3>1 DEF Records
  <2>4. CASE cmd[c].op \notin {"apply", "rollback"}
    <3>1. new = [rec[q] EXCEPT !.verification = IF cmd[c].ok THEN "passed" ELSE "failed"]
      BY <2>4 DEF Reported
    <3>. QED BY <1>2, <3>1 DEF Records
  <2>. QED BY <2>2, <2>3, <2>4
<1>. HIDE DEF new
<1>4. r.state = rec[q].state BY <1>3, Numbered
<1>5. rec' = rec \/ rec' = [rec EXCEPT ![q] = r] BY DEF Report, Publish, new
<1>. HIDE DEF r
<1>. QED BY <1>2, <1>4, <1>5

(* Only an apply takes a proposal from applying back to verified, and it    *)
(* found the snapshots as they were.                                        *)
LEMMA BackToVerified ==
  ASSUME Inv, Told, [Next]_vars, NEW p \in Props \ contested, rec[p] # None,
         rec[p].state = "applying", rec'[p].state = "verified"
  PROVE  ~Wrote(p)
<1>1. rec' # rec OBVIOUS
<1>2. PICK c \in Cmds : Step(c)
  BY <1>1, StoreOwner
<1>3. PICK k \in {cmd[c]} : Knows(k) BY DEF Told
<1>4. cmd[c].pc # "idle" => /\ cmd[c].prop \in Props /\ cmd[c] \in Commands /\ Outcome(cmd[c])
                            /\ cmd[c].op \in Ops /\ cmd[c].pc \in OpPcs(cmd[c].op)
  BY Running
<1>5. "verified" \in States BY DEF States
(* It is a transition of the proposal to verified.                          *)
<1>6. ASSUME NEW n \in States, cmd[c].pc # "idle", Transition(cmd[c].prop, n) PROVE n = "verified" /\ cmd[c].prop = p
  BY <1>4, <1>6, TransitionState
<1>7. CASE Refuse(c)
  <2>1. cmd[c].pc = "refuse" BY <1>7 DEF Refuse
  <2>2. {"verified", "rollback_available"} \subseteq States BY DEF States
  <2>3. Transition(cmd[c].prop, IF cmd[c].op = "apply" THEN "verified" ELSE "rollback_available")
    BY <1>1, <1>7 DEF Refuse, TransitionRefused
  <2>4. cmd[c].op = "apply" /\ cmd[c].prop = p BY <1>6, <2>1, <2>2, <2>3
  <2>. QED BY <1>3, <2>1, <2>4 DEF Knows, BeforeOpen, Wrote
<1>8. CASE Conclude(c)
  <2>1. cmd[c].pc = "conclude" BY <1>8 DEF Conclude
  <2>2. Transition(cmd[c].prop, cmd[c].next)
    BY <1>1, <1>8 DEF Conclude, MoveOrReturn, TransitionRefused
  <2>3. cmd[c].next \in States
    <3>1. cmd[c].op \in {"fix", "verify", "apply", "rollback"}
      BY <1>4, <2>1 DEF OpPcs, Ops, Verification, Engine
    <3>. QED BY <1>4, <2>1, <3>1 DEF Outcome, States
  <2>4. cmd[c].next = "verified" /\ cmd[c].prop = p BY <1>6, <2>1, <2>2, <2>3
  <2>5. rec[p].state \in Allowed(cmd[c]) BY <2>1, <2>4, Running
  <2>6. cmd[c].op \in {"fix", "verify", "apply", "rollback"}
    BY <1>4, <2>1 DEF OpPcs, Ops, Verification, Engine
  <2>7. cmd[c].op = "apply"
    BY <2>1, <2>4, <2>5, <2>6 DEF Allowed, Relied, Engine
  <2>. QED BY <1>3, <2>1, <2>4, <2>7 DEF Knows, Wrote
<1>9. CASE Retreat(c)
  <2>1. cmd[c].pc = "retreat" BY <1>9 DEF Retreat
  <2>2. cmd[c].op = "apply" BY <1>4, <2>1 DEF OpPcs, Ops, Verification, Engine
  <2>3. cmd[c].prop = p BY <1>1, <1>5, <1>6, <1>9, <2>1 DEF Retreat, TransitionRefused
  <2>4. rec[p].state \in {"approval_pending", "expired", "discarded"}
    <3>1. rec[p].state \in Allowed(cmd[c]) BY <2>1, <2>3, Running
    <3>. QED BY <2>1, <2>2, <2>3, <3>1 DEF Allowed, Relied, Engine
  <2>. QED BY <2>4
<1>10. CASE Policy(c) \/ ContextPolicy(c)
  <2>1. cmd[c].pc # "idle" BY <1>10 DEF Policy, ContextPolicy
  <2>2. \E n \in Nat : RecordPolicy(cmd[c].prop, n)
    <3>1. cmd[c].decisions \in Nat BY <1>4, <2>1 DEF Commands
    <3>. QED BY <1>1, <1>10, <3>1 DEF Policy, ContextPolicy, RecordPolicyRefused
  <2>3. rec'[p].state = rec[p].state BY <1>4, <2>1, <2>2, PolicyState
  <2>. QED BY <2>3
<1>11. CASE Report(c) BY <1>11, ReportState
<1>12. CASE Create(c)
  <2>1. cmd[c].pc = "create" BY <1>12 DEF Create
  <2>2. rec[cmd[c].prop] = None /\ cmd[c].prop \in Props BY <1>4, <2>1 DEF Inv, Good, OpPcs
  <2>3. rec'[p] = rec[p]
    <3>1. rec \in [Props -> Records \union {None}] BY DEF Inv, TypeOK
    <3>. QED BY <1>1, <1>12, <2>2, <3>1 DEF Create
  <2>. QED BY <2>3
<1>13. CASE \/ Discard(c) \/ Expire(c) \/ Pending(c) \/ Applying(c) \/ Rolling(c) \/ Available(c)
  <2>1. cmd[c].pc # "idle" BY <1>13 DEF Discard, Expire, Pending, Applying, Rolling, Available
  <2>2. PICK n \in {"discarded", "expired", "approval_pending", "applying", "rolling_back",
                    "rollback_available"} : Transition(cmd[c].prop, n)
    BY <1>1, <1>13 DEF Discard, Expire, Pending, Applying, Rolling, Available, MoveOrReturn,
                       TransitionRefused
  <2>3. n \in States /\ n # "verified" BY DEF States
  <2>. QED BY <1>6, <2>1, <2>2, <2>3
<1>14. CASE Stage(c)
  <2>1. cmd[c].pc \in {"prepare", "write", "build_start"} BY <1>14 DEF Stage, Stages
  <2>. DEFINE n == Stages[cmd[c].pc].next
  <2>2. Transition(cmd[c].prop, n) BY <1>1, <1>14 DEF Stage, TransitionRefused
  <2>3. n \in {"worktree_prepared", "worktree_applied", "build_running"} BY <2>1 DEF Stages
  <2>. HIDE DEF n
  <2>4. n \in States /\ n # "verified" BY <2>3 DEF States
  <2>. QED BY <1>6, <2>1, <2>2, <2>4
<1>15. CASE \/ ObserveFix(c) \/ Load(c) \/ Observe(c) \/ Build(c) \/ Issue(c) \/ Consume(c)
            \/ Execute(c) \/ Executing(c) \/ Recheck(c) \/ Postcheck(c) \/ Undo(c) \/ Undoing(c)
            \/ Undone(c)
  <2>1. rec' = rec
    BY <1>15 DEF ObserveFix, Load, Observe, Build, Issue, Consume, Execute, Executing, Recheck,
                 Postcheck, Undo, Undoing, Undone, storeVars
  <2>. QED BY <1>1, <2>1
<1>. QED BY <1>2, <1>7, <1>8, <1>9, <1>10, <1>11, <1>12, <1>13, <1>14, <1>15 DEF Step

(* An apply that fails returns to `verified` only when none of the          *)
(* proposal's changes is left in its files (finish_failed_apply), whatever  *)
(* the user, another command or a repair does to them between the snapshots *)
(* and the transition.  A proposal on which a command was run twice at once *)
(* is excepted: the failure of one apply's approval returns to `verified`   *)
(* without a look at the files the other writes (apply.rs:104-141).         *)
THEOREM VerifiedIsRestoredHolds == Spec => VerifiedIsRestored
<1>1. Inv /\ Told /\ [Next]_vars => Inv' /\ Told' BY InvNext, ToldNext
<1>2. Inv /\ Told /\ [Next]_vars =>
        \A p \in Props \ contested :
          rec[p] # None /\ rec[p].state = "applying" /\ rec'[p].state = "verified" =>
            content[p] \notin {"proposed", "partial"}
  BY BackToVerified DEF Wrote
<1>. QED BY <1>1, <1>2, InvInit, ToldInit, PTL DEF Spec, VerifiedIsRestored

-----------------------------------------------------------------------------
(* No command ends in a dead end.                                           *)

(* The command is between the transitions of its section, and the command   *)
(* that a record in the state s waits for.                                  *)
Minding(k) ==
  \/ Kind(k.op) = "verify" /\ k.pc \in {"write", "build_start", "build", "conclude"}
  \/ k.op = "apply" /\ k.pc \in {"issue", "retreat", "applying", "available"} \union Engine
  \/ k.op = "rollback" /\ k.pc \in Engine

Minder(s) ==
  CASE s \in {"worktree_prepared", "worktree_applied", "build_running"} -> "verify"
    [] s \in {"approval_pending", "applying", "applied"} -> "apply"
    [] OTHER -> "rollback"

(* An apply that is done and has yet to record its report.                  *)
Reporting(k) == k.op = "apply" /\ k.ok /\ k.pc \in {"policy", "report"}

(* It will: an apply that succeeded is not silent, and has counted no more  *)
(* than its two decisions.                                                  *)
Ready(k) ==
  k.op = "apply" =>
    /\ k.silent => k.pc = "policy" /\ ~k.ok
    /\ k.pc = "available" => k.ok
    /\ k.pc \notin {"load", "expire", "observe"} => k.decisions <= 2
    /\ k.pc \in {"pending", "issue", "retreat", "applying", "consume"} => k.decisions <= 1

(* A record in a transient state has its command, or is that of a rollback  *)
(* that could not check what it had done; one that offers a rollback says   *)
(* which transaction to roll back, or is about to.                          *)
Waits(s, p) == \E c \in Cmds : cmd[c].prop = p /\ Kind(cmd[c].op) = Minder(s) /\ Minding(cmd[c])

Attended(p) ==
  rec[p] # None =>
    /\ rec[p].state \in Transient =>
         (rec[p].state = "rolling_back" /\ RolledBack(p)) \/ Waits(rec[p].state, p)
    /\ rec[p].state \in {"rollback_available", "rolling_back"} =>
         Succeeded(p) \/ \E c \in Cmds : cmd[c].prop = p /\ Reporting(cmd[c])

Tended ==
  /\ \A c \in Cmds : Ready(cmd[c])
  /\ Calm => \A p \in Props \ contested : Attended(p)

LEMMA TendedInit == Init => Tended
BY DEF Init, Tended, Ready, Attended, Idle

LEMMA TendedNoDeadEnd == Inv /\ Tended => NoDeadEnd
<1>. SUFFICES ASSUME Inv, Tended, Calm, AtRest, NEW p \in Props \ contested, rec[p] # None
              PROVE  /\ rec[p].state \in Transient => Overtaken(p)
                     /\ rec[p].state = "rollback_available" => rec[p].apply # None /\ rec[p].apply.success
  BY DEF NoDeadEnd, NotStranded, RollbackUsable
<1>1. \A c \in Cmds : ~Minding(cmd[c]) /\ ~Reporting(cmd[c])
  BY DEF AtRest, Minding, Reporting, Engine
<1>2. Attended(p) BY DEF Tended
<1>. QED BY <1>1, <1>2 DEF Attended, Waits, Overtaken, RolledBack, Succeeded

-----------------------------------------------------------------------------
(* The store only grows, and what was not calm does not become so.          *)

Grown(p) ==
  rec[p] # None => /\ rec'[p] # None
                   /\ rec[p].generations <= rec'[p].generations
                   /\ rec[p].policy <= rec'[p].policy

(* A generation that keeps or adds policy references.                       *)
LEMMA PublishGrows ==
  ASSUME Inv, NEW q \in Props, rec[q] # None, NEW r \in Records, Publish(q, r),
         r.generations = rec[q].generations, rec[q].policy <= r.policy
  PROVE  \A p \in Props : Grown(p)
<1>. DEFINE next == [r EXCEPT !.generations = @ + 1]
<1>1. rec \in [Props -> Records \union {None}] /\ rec[q] \in Records BY DEF Inv, TypeOK
<1>2. next \in Records /\ next.generations = r.generations + 1 /\ next.policy = r.policy
  BY DEF Records
<1>3. rec' = [rec EXCEPT ![q] = next] BY DEF Publish
<1>. HIDE DEF next
<1>4. next # None BY <1>2, RecordNotNone
<1>5. rec'[q] = next /\ \A p \in Props \ {q} : rec'[p] = rec[p] BY <1>1, <1>3
<1>6. \A s \in Records : s.generations \in Nat /\ s.policy \in Nat BY DEF Records
<1>7. Grown(q) BY <1>1, <1>2, <1>4, <1>5, <1>6 DEF Grown
<1>8. ASSUME NEW p \in Props \ {q} PROVE Grown(p)
  <2>1. rec[p] \in Records \union {None} BY <1>1
  <2>. QED BY <1>5, <1>6, <2>1 DEF Grown
<1>. QED BY <1>7, <1>8

LEMMA TransitionGrows ==
  ASSUME Inv, NEW q \in Props, NEW n \in States, Transition(q, n) PROVE \A p \in Props : Grown(p)
<1>1. rec[q] # None /\ rec[q] \in Records BY DEF Inv, TypeOK, Transition, Readable
<1>. DEFINE new == [rec[q] EXCEPT !.state = n]
<1>2. /\ new \in Records /\ new.generations = rec[q].generations
      /\ new.policy = rec[q].policy /\ rec[q].policy \in Nat
  BY <1>1 DEF Records
<1>3. Publish(q, new) BY DEF Transition
<1>. HIDE DEF new
<1>. QED BY <1>1, <1>2, <1>3, PublishGrows

LEMMA PolicyGrows ==
  ASSUME Inv, NEW q \in Props, NEW n \in Nat, RecordPolicy(q, n) PROVE \A p \in Props : Grown(p)
<1>1. rec[q] # None /\ rec[q] \in Records BY DEF Inv, TypeOK, RecordPolicy, Readable
<1>2. rec[q].policy \in Nat BY <1>1 DEF Records
<1>. DEFINE new == [rec[q] EXCEPT !.policy = @ + n]
<1>3. /\ new \in Records /\ new.generations = rec[q].generations
      /\ rec[q].policy <= new.policy
  BY <1>1, <1>2 DEF Records
<1>4. Publish(q, new) BY DEF RecordPolicy
<1>. HIDE DEF new
<1>. QED BY <1>1, <1>3, <1>4, PublishGrows

(* What a report leaves as it was.                                          *)
LEMMA ReportedKeeps ==
  ASSUME NEW k \in Commands, k.txn \in Txns, NEW r \in Records
  PROVE  LET new == Reported(r, k) IN
         /\ new \in Records /\ new.state = r.state
         /\ new.generations = r.generations /\ new.policy = r.policy
         /\ k.op # "apply" => new.apply = r.apply
         /\ k.op = "apply" => new.apply = [txn |-> k.txn, success |-> k.ok]
<1>. DEFINE new == Reported(r, k)
<1>0. k.ok \in BOOLEAN BY DEF Commands
<1>1. CASE k.op = "apply"
  <2>1. [txn |-> k.txn, success |-> k.ok] \in ApplyReports BY <1>0 DEF ApplyReports
  <2>2. new = [r EXCEPT !.apply = [txn |-> k.txn, success |-> k.ok]] BY <1>1 DEF Reported
  <2>. QED BY <1>1, <2>1, <2>2 DEF Records
<1>2. CASE k.op = "rollback"
  <2>1. new = [r EXCEPT !.rollback = IF k.ok THEN "done" ELSE "failed"] BY <1>2 DEF Reported
  <2>. QED BY <1>2, <2>1 DEF Records
<1>3. CASE k.op \notin {"apply", "rollback"}
  <2>1. new = [r EXCEPT !.verification = IF k.ok THEN "passed" ELSE "failed"] BY <1>3 DEF Reported
  <2>. QED BY <1>3, <2>1 DEF Records
<1>. QED BY <1>1, <1>2, <1>3

LEMMA ReportGrows ==
  ASSUME Inv, NEW c \in Cmds, Report(c) PROVE \A p \in Props : Grown(p)
<1>. DEFINE q == cmd[c].prop
            new == Reported(rec[q], cmd[c])
<1>1. cmd[c].pc = "report" BY DEF Report
<1>2. /\ q \in Props /\ rec[q] \in Records /\ rec[q] # None /\ cmd[c] \in Commands
      /\ cmd[c].txn \in Txns
  BY <1>1, Running
<1>3. /\ new \in Records /\ new.generations = rec[q].generations /\ new.policy = rec[q].policy
      /\ rec[q].policy \in Nat
  BY <1>2, ReportedKeeps DEF Records
<1>4. rec' = rec \/ Publish(q, new) BY DEF Report
<1>. HIDE DEF new
<1>5. CASE rec' = rec
  <2>1. \A p \in Props : rec[p] # None => rec[p] \in Records BY DEF Inv, TypeOK
  <2>2. \A s \in Records : s.generations \in Nat /\ s.policy \in Nat BY DEF Records
  <2>. QED BY <1>5, <2>1, <2>2 DEF Grown
<1>. QED BY <1>2, <1>3, <1>4, <1>5, PublishGrows

(* The steps that write the store.                                          *)
LEMMA StoreSteps ==
  ASSUME Inv, NEW c \in Cmds, Step(c), rec' # rec
  PROVE  \/ Create(c) \/ Report(c)
         \/ \E n \in States : Transition(cmd[c].prop, n) /\ cmd[c].prop \in Props
         \/ \E n \in Nat : RecordPolicy(cmd[c].prop, n) /\ cmd[c].prop \in Props
<1>2. cmd[c].pc # "idle" => /\ cmd[c].prop \in Props /\ cmd[c] \in Commands /\ Outcome(cmd[c])
                            /\ cmd[c].op \in Ops /\ cmd[c].pc \in OpPcs(cmd[c].op)
  BY Running
<1>3. CASE Conclude(c)
  <2>1. cmd[c].pc = "conclude" /\ Transition(cmd[c].prop, cmd[c].next)
    BY <1>3 DEF Conclude, MoveOrReturn, TransitionRefused
  <2>2. cmd[c].op \in {"fix", "verify", "apply", "rollback"}
    BY <1>2, <2>1 DEF OpPcs, Ops, Verification, Engine
  <2>3. cmd[c].next \in States BY <1>2, <2>1, <2>2 DEF Outcome, States
  <2>. QED BY <1>2, <2>1, <2>3
<1>4. CASE Policy(c) \/ ContextPolicy(c)
  <2>1. cmd[c].pc # "idle" BY <1>4 DEF Policy, ContextPolicy
  <2>2. \E n \in Nat : RecordPolicy(cmd[c].prop, n)
    <3>1. cmd[c].decisions \in Nat BY <1>2, <2>1 DEF Commands
    <3>. QED BY <1>4, <3>1 DEF Policy, ContextPolicy, RecordPolicyRefused
  <2>. QED BY <1>2, <2>1, <2>2
<1>5. CASE \/ Discard(c) \/ Expire(c) \/ Pending(c) \/ Applying(c) \/ Rolling(c) \/ Available(c)
           \/ Refuse(c) \/ Retreat(c)
  <2>1. cmd[c].pc # "idle"
    BY <1>5 DEF Discard, Expire, Pending, Applying, Rolling, Available, Refuse, Retreat
  <2>2. PICK n \in {"discarded", "expired", "approval_pending", "applying", "rolling_back",
                    "rollback_available", "verified"} : Transition(cmd[c].prop, n)
    BY <1>5 DEF Discard, Expire, Pending, Applying, Rolling, Available, Refuse, Retreat,
                MoveOrReturn, TransitionRefused
  <2>3. n \in States BY DEF States
  <2>. QED BY <1>2, <2>1, <2>2, <2>3
<1>6. CASE Stage(c)
  <2>1. cmd[c].pc \in {"prepare", "write", "build_start"} BY <1>6 DEF Stage, Stages
  <2>. DEFINE n == Stages[cmd[c].pc].next
  <2>2. Transition(cmd[c].prop, n) BY <1>6 DEF Stage, TransitionRefused
  <2>3. n \in {"worktree_prepared", "worktree_applied", "build_running"} BY <2>1 DEF Stages
  <2>. HIDE DEF n
  <2>4. n \in States BY <2>3 DEF States
  <2>. QED BY <1>2, <2>1, <2>2, <2>4
<1>7. rec' = rec \/ ~(\/ ObserveFix(c) \/ Load(c) \/ Observe(c) \/ Build(c) \/ Issue(c) \/ Consume(c)
                      \/ Execute(c) \/ Executing(c) \/ Recheck(c) \/ Postcheck(c) \/ Undo(c)
                      \/ Undoing(c) \/ Undone(c))
  BY DEF ObserveFix, Load, Observe, Build, Issue, Consume, Execute, Executing, Recheck,
         Postcheck, Undo, Undoing, Undone, storeVars
<1>. QED BY <1>3, <1>4, <1>5, <1>6, <1>7 DEF Step

LEMMA StoreGrows == ASSUME Inv, [Next]_vars PROVE \A p \in Props : Grown(p)
<1>1. CASE rec' = rec
  <2>1. \A p \in Props : rec[p] # None => rec[p] \in Records BY DEF Inv, TypeOK
  <2>2. \A s \in Records : s.generations \in Nat /\ s.policy \in Nat BY DEF Records
  <2>. QED BY <1>1, <2>1, <2>2 DEF Grown
<1>2. CASE rec' # rec
  <2>1. PICK c \in Cmds : \/ Create(c) \/ Report(c)
                          \/ \E n \in States : Transition(cmd[c].prop, n) /\ cmd[c].prop \in Props
                          \/ \E n \in Nat : RecordPolicy(cmd[c].prop, n) /\ cmd[c].prop \in Props
    BY <1>2, StoreOwner, StoreSteps
  <2>2. CASE Create(c)
    <3>1. cmd[c].pc = "create" BY <2>2 DEF Create
    <3>2. rec[cmd[c].prop] = None /\ cmd[c].prop \in Props BY <3>1, Running DEF Inv, Good
    <3>3. \A p \in Props \ {cmd[c].prop} : rec'[p] = rec[p]
      <4>1. rec \in [Props -> Records \union {None}] BY DEF Inv, TypeOK
      <4>. QED BY <1>2, <2>2, <3>2, <4>1 DEF Create
    <3>4. \A p \in Props : rec[p] # None => rec[p] \in Records BY DEF Inv, TypeOK
    <3>5. \A s \in Records : s.generations \in Nat /\ s.policy \in Nat BY DEF Records
    <3>. QED BY <3>2, <3>3, <3>4, <3>5 DEF Grown
  <2>. QED BY <2>1, <2>2, TransitionGrows, PolicyGrows, ReportGrows
<1>. QED BY <1>1, <1>2

(* What is spent stays spent.                                               *)
LEMMA SpendMore ==
  ASSUME budget \in Budgets, NEW kind \in {"edits", "repairs", "crashes", "faults", "cancels"},
         NEW bound, Spend(kind, bound)
  PROVE  /\ budget'[kind] # 0
         /\ budget'.crashes = 0 => budget.crashes = 0
         /\ budget'.faults = 0 => budget.faults = 0
<1>1. \A k \in {"edits", "repairs", "crashes", "faults", "cancels"} : budget[k] \in Nat BY DEF Budgets
<1>2. budget' = [budget EXCEPT ![kind] = @ + 1] BY DEF Spend
<1>3. /\ budget'[kind] = budget[kind] + 1
      /\ \A k \in {"edits", "repairs", "crashes", "faults", "cancels"} : k # kind => budget'[k] = budget[k]
  BY <1>2 DEF Budgets
<1>. QED BY <1>1, <1>3

LEMMA NoFault == ASSUME budget \in Budgets, budget'.faults = 0 PROVE ~IoError
BY SpendMore DEF IoError

LEMMA BudgetKept ==
  ASSUME Inv, [Next]_vars
  PROVE  (budget'.crashes = 0 => budget.crashes = 0) /\ (budget'.faults = 0 => budget.faults = 0)
<1>1. budget \in Budgets BY DEF Inv, TypeOK
<1>2. \/ budget' = budget
      \/ \E kind \in {"edits", "repairs", "crashes", "faults", "cancels"}, bound \in Nat : Spend(kind, bound)
  <2>1. {MaxEdits, MaxRepairs, MaxCrashes, MaxFaults, MaxCancels} \subseteq Nat BY LifecycleAssumption
  <2>2. ASSUME NEW c \in Cmds, Step(c) PROVE budget' = budget \/ IoError
    <3>1. CASE Execute(c) \/ Executing(c) \/ Undo(c) \/ Undoing(c)
      BY <3>1 DEF Execute, Executing, Undo, Undoing, NoIoError
    <3>2. CASE Build(c) BY <3>2 DEF Build
    <3>. QED BY <2>2, <3>1, <3>2, QuietSteps DEF Step, Quiet
  <2>3. CASE UNCHANGED vars BY <2>3 DEF vars
  <2>4. ASSUME NEW c, NEW p, NEW op, Start(c, p, op) PROVE budget' = budget BY <2>4 DEF Start
  <2>5. ASSUME NEW p, TtlElapses(p) PROVE budget' = budget BY <2>5 DEF TtlElapses
  <2>6. IoError => Spend("faults", MaxFaults) BY DEF IoError
  <2>7. ASSUME NEW c, Cancel(c) \/ Crash(c)
        PROVE  Spend("cancels", MaxCancels) \/ Spend("crashes", MaxCrashes)
    BY <2>7 DEF Cancel, Crash
  <2>8. UserActs => Spend("edits", MaxEdits) BY DEF UserActs
  <2>9. ASSUME NEW u, Repair(u) PROVE Spend("repairs", MaxRepairs) BY <2>9 DEF Repair
  <2>. QED BY <2>1, <2>2, <2>3, <2>4, <2>5, <2>6, <2>7, <2>8, <2>9, Steps
<1>. QED BY <1>1, <1>2, SpendMore

LEMMA CalmBefore == ASSUME Inv, Inv', [Next]_vars, Calm' PROVE Calm
<1>1. \A p \in Props : Grown(p) BY StoreGrows
<1>2. budget.crashes = 0 /\ budget.faults = 0 BY BudgetKept DEF Calm
<1>3. \A p \in Props : rec[p] # None => rec[p].generations \in Nat /\ rec[p].policy \in Nat
  <2>1. \A p \in Props : rec[p] # None => rec[p] \in Records BY DEF Inv, TypeOK
  <2>. QED BY <2>1 DEF Records
<1>4. MaxGenerations \in Nat /\ MaxPolicy \in Nat BY LifecycleAssumption
<1>5. \A p \in Props : rec'[p] # None => rec'[p].generations \in Nat /\ rec'[p].policy \in Nat
  <2>1. \A p \in Props : rec'[p] # None => rec'[p] \in Records BY DEF Inv, TypeOK
  <2>. QED BY <2>1 DEF Records
<1>. QED BY <1>1, <1>2, <1>3, <1>4, <1>5 DEF Calm, Roomy, Readable, Grown

-----------------------------------------------------------------------------
(* How a step keeps a proposal attended.                                    *)

(* What the rest of the step leaves alone: the other commands, and the      *)
(* transaction a proposal was rolled back with.                             *)
OneMoves(c) == \A d \in Cmds \ {c} : cmd'[d] = cmd[d]

LEMMA OthersWait ==
  ASSUME NEW c \in Cmds, OneMoves(c), NEW p, NEW s, Waits(s, p),
         ~(cmd[c].prop = p /\ Kind(cmd[c].op) = Minder(s) /\ Minding(cmd[c]))
         \/ (cmd'[c].prop = p /\ Kind(cmd'[c].op) = Minder(s) /\ Minding(cmd'[c]))
  PROVE  Waits(s, p)'
BY DEF Waits, OneMoves

(* The state stays as it was.                                               *)
LEMMA Stays ==
  ASSUME NEW c \in Cmds, OneMoves(c), NEW p, Attended(p), rec[p] # None,
         rec'[p].state = rec[p].state, Succeeded(p) => Succeeded(p)',
         \/ RolledBack(p) => RolledBack(p)'
         \/ cmd'[c].op = "rollback" /\ cmd'[c].prop = p /\ Minding(cmd'[c]),
         cmd[c].prop = p /\ Minding(cmd[c]) /\ Kind(cmd[c].op) = Minder(rec[p].state)
           /\ rec[p].state \in Transient =>
             \/ cmd'[c].op = cmd[c].op /\ cmd'[c].prop = p /\ Minding(cmd'[c])
             \/ rec[p].state = "rolling_back" /\ RolledBack(p)',
         cmd[c].prop = p /\ Reporting(cmd[c]) =>
             (cmd'[c].prop = p /\ Reporting(cmd'[c])) \/ Succeeded(p)'
  PROVE  Attended(p)'
<1>0. PICK s \in {rec[p].state} : TRUE OBVIOUS
<1>1. ASSUME s \in Transient
      PROVE  (s = "rolling_back" /\ RolledBack(p)') \/ Waits(s, p)'
  <2>1. CASE s = "rolling_back" /\ RolledBack(p)
    <3>1. CASE RolledBack(p)' BY <2>1, <3>1
    <3>2. CASE cmd'[c].op = "rollback" /\ cmd'[c].prop = p /\ Minding(cmd'[c])
      <4>1. Kind(cmd'[c].op) = Minder(s) BY <2>1, <3>2 DEF Kind, Minder
      <4>. QED BY <3>2, <4>1 DEF Waits
    <3>. QED BY <2>1, <3>1, <3>2
  <2>2. CASE Waits(s, p)
    <3>1. CASE cmd[c].prop = p /\ Kind(cmd[c].op) = Minder(s) /\ Minding(cmd[c])
      <4>1. CASE cmd'[c].op = cmd[c].op /\ cmd'[c].prop = p /\ Minding(cmd'[c])
        BY <3>1, <4>1 DEF Waits
      <4>2. CASE s = "rolling_back" /\ RolledBack(p)' BY <4>2
      <4>. QED BY <1>0, <1>1, <3>1, <4>1, <4>2
    <3>2. CASE ~(cmd[c].prop = p /\ Kind(cmd[c].op) = Minder(s) /\ Minding(cmd[c]))
      BY <2>2, <3>2, OthersWait
    <3>. QED BY <3>1, <3>2
  <2>. QED BY <1>0, <1>1, <2>1, <2>2 DEF Attended
<1>2. ASSUME s \in {"rollback_available", "rolling_back"}
      PROVE  Succeeded(p)' \/ \E d \in Cmds : cmd'[d].prop = p /\ Reporting(cmd'[d])
  BY <1>0, <1>2 DEF Attended, OneMoves
<1>3. rec'[p].state = s BY <1>0
<1>. QED BY <1>1, <1>2, <1>3 DEF Attended

(* The command moves the record to the state n, and minds it there.         *)
LEMMA Enters ==
  ASSUME NEW c \in Cmds, NEW p, NEW n, rec'[p].state = n,
         n \in Transient => Kind(cmd'[c].op) = Minder(n) /\ cmd'[c].prop = p /\ Minding(cmd'[c]),
         n \in {"rollback_available", "rolling_back"} =>
           Succeeded(p)' \/ (cmd'[c].prop = p /\ Reporting(cmd'[c]))
  PROVE  Attended(p)'
<1>1. n \in Transient => Waits(n, p)' BY DEF Waits
<1>. QED BY <1>1 DEF Attended, Reporting

(* A rolled-back transaction stays so, but for a rollback of the proposal   *)
(* that is under way.                                                       *)
LEMMA StaysRolledBack ==
  ASSUME Inv, Told, [Next]_vars, NEW p \in Props \ contested, RolledBack(p),
         rec'[p].apply = rec[p].apply,
         rec'[p] # None,
         ~ \E c \in Cmds : Undoing(c) /\ cmd[c].op = "rollback" /\ cmd[c].prop = p
  PROVE  RolledBack(p)'
<1>. DEFINE t == rec[p].apply.txn
<1>1. t \in Txns /\ txns[t].prop = p /\ txns[t].state = "rolled_back" /\ Succeeded(p)
  <2>1. rec[p] \in Records /\ rec[p] # None /\ rec[p].apply # None
    BY DEF RolledBack, Succeeded, Inv, TypeOK
  <2>2. t \in Txns BY <2>1 DEF Records, ApplyReports
  <2>. QED BY <2>1, <2>2 DEF RolledBack, Told, Recorded, Committed
<1>2. txns \in [Txns -> [prop : Props \union {None}, state : JournalStates]] BY DEF Inv, TypeOK
<1>3. txns'[t].state = "rolled_back"
  <2>1. CASE \E u \in Txns : Repair(u)
    <3>1. PICK u \in Txns : Repair(u) BY <2>1
    <3>2. u # t BY <1>1, <3>1 DEF Repair
    <3>3. \E s : txns' = [txns EXCEPT ![u].state = s] BY <3>1 DEF Repair
    <3>. HIDE DEF t
    <3>. QED BY <1>1, <1>2, <3>2, <3>3
  <2>2. CASE \E c \in Cmds : Execute(c) \/ Executing(c) \/ Undo(c) \/ Undoing(c)
    <3>1. PICK c \in Cmds : Execute(c) \/ Executing(c) \/ Undo(c) \/ Undoing(c) BY <2>2
    <3>2. cmd[c].pc # "idle" BY <3>1 DEF Execute, Executing, Undo, Undoing
    <3>3. /\ cmd[c].txn \in Txns /\ cmd[c].prop \in Props /\ cmd[c].op \in Ops
          /\ cmd[c].pc \in OpPcs(cmd[c].op)
      BY <3>2, Running
    <3>4. PICK k \in {cmd[c]} : Knows(k) BY DEF Told
    <3>5. cmd[c].txn # t \/ Undo(c)
      <4>1. CASE Execute(c)
        <5>1. cmd[c].op = "apply" /\ cmd[c].pc = "execute"
          BY <3>3, <4>1 DEF Execute, OpPcs, Ops, Verification, Engine
        <5>. QED BY <1>1, <3>4, <5>1 DEF Knows, BeforeOpen
      <4>2. CASE Executing(c)
        <5>1. cmd[c].op = "apply" /\ cmd[c].pc = "executing"
          BY <3>3, <4>2 DEF Executing, OpPcs, Ops, Verification, Engine
        <5>. QED BY <1>1, <3>4, <5>1 DEF Knows, PastApplying, Engine
      <4>3. CASE Undoing(c)
        <5>1. cmd[c].op \in {"apply", "rollback"} /\ cmd[c].pc = "undoing"
          BY <3>3, <4>3 DEF Undoing, OpPcs, Ops, Verification, Engine
        <5>2. CASE cmd[c].op = "apply"
          BY <1>1, <3>4, <5>1, <5>2 DEF Knows, PastApplying, Engine, Committed
        <5>3. CASE cmd[c].op = "rollback"
          <6>1. txns[cmd[c].txn].prop = cmd[c].prop BY <3>4, <5>1, <5>3 DEF Knows, Committed
          <6>. QED BY <1>1, <4>3, <5>3, <6>1
        <5>. QED BY <5>1, <5>2, <5>3
      <4>. QED BY <3>1, <4>1, <4>2, <4>3
    <3>6. txns' = txns \/ \E s : txns' = [txns EXCEPT ![cmd[c].txn] = s]
      BY <3>1 DEF Execute, Executing, Undo, Undoing, Settle
    <3>7. txns' = txns \/ cmd[c].txn # t
      BY <1>1, <3>5 DEF Undo
    <3>. HIDE DEF t
    <3>. QED BY <1>1, <1>2, <3>6, <3>7
  <2>3. CASE /\ ~ \E u \in Txns : Repair(u)
             /\ ~ \E c \in Cmds : Execute(c) \/ Executing(c) \/ Undo(c) \/ Undoing(c)
    <3>1. txns' = txns
      <4>1. ASSUME NEW c \in Cmds, Step(c) PROVE txns' = txns
        BY <2>3, <4>1, QuietSteps DEF Step, Quiet, Build, engineVars
      <4>2. ASSUME NEW c, NEW q, NEW op, Start(c, q, op) PROVE txns' = txns BY <4>2 DEF Start, engineVars
      <4>3. ASSUME NEW c, Cancel(c) \/ Crash(c) PROVE txns' = txns BY <4>3 DEF Cancel, Crash, engineVars
      <4>4. ASSUME NEW q, TtlElapses(q) PROVE txns' = txns BY <4>4 DEF TtlElapses, engineVars
      <4>5. UserActs \/ UNCHANGED vars => txns' = txns BY DEF UserActs, vars, engineVars
      <4>. QED BY <2>3, <4>1, <4>2, <4>3, <4>4, <4>5, Steps
    <3>. QED BY <1>1, <3>1
  <2>. QED BY <2>1, <2>2, <2>3
<1>. QED BY <1>3 DEF RolledBack, Succeeded

-----------------------------------------------------------------------------
(* What the steps of a command do to it.                                    *)

LEMMA Returned ==
  ASSUME Inv, NEW c \in Cmds, Return(c)
  PROVE  /\ OneMoves(c) /\ cmd'[c] = Idle
         /\ Ready(cmd'[c]) /\ ~Minding(cmd'[c]) /\ ~Reporting(cmd'[c])
BY DEF Inv, TypeOK, Return, OneMoves, Idle, Ready, Minding, Reporting, Kind

(* The command goes on at l.                                                *)
Went(c, l) ==
  /\ OneMoves(c)
  /\ cmd'[c].pc = l /\ cmd'[c].op = cmd[c].op /\ cmd'[c].prop = cmd[c].prop

(* So it does, with what it had.                                            *)
Unchanged(c) ==
  /\ cmd'[c].ok = cmd[c].ok /\ cmd'[c].silent = cmd[c].silent
  /\ cmd'[c].decisions = cmd[c].decisions

LEMMA GotoGoes == ASSUME Inv, NEW c \in Cmds, NEW l, Goto(c, l) PROVE Went(c, l) /\ Unchanged(c)
<1>1. cmd \in [Cmds -> Commands] /\ cmd[c] \in Commands BY DEF Inv, TypeOK
<1>. QED BY <1>1 DEF Goto, Went, Unchanged, OneMoves, Commands

LEMMA CountGoes ==
  ASSUME Inv, NEW c \in Cmds, NEW l, NEW n, cmd' = [cmd EXCEPT ![c].pc = l, ![c].decisions = n]
  PROVE  /\ Went(c, l) /\ cmd'[c].decisions = n
         /\ cmd'[c].ok = cmd[c].ok /\ cmd'[c].silent = cmd[c].silent
<1>1. cmd \in [Cmds -> Commands] /\ cmd[c] \in Commands BY DEF Inv, TypeOK
<1>. QED BY <1>1 DEF Went, OneMoves, Commands

LEMMA BoundGoes ==
  ASSUME Inv, NEW c \in Cmds, NEW l, NEW b, cmd' = [cmd EXCEPT ![c].pc = l, ![c].bound = b]
  PROVE  Went(c, l) /\ Unchanged(c)
<1>1. cmd \in [Cmds -> Commands] /\ cmd[c] \in Commands BY DEF Inv, TypeOK
<1>. QED BY <1>1 DEF Went, Unchanged, OneMoves, Commands

LEMMA ResultGoes ==
  ASSUME Inv, NEW c \in Cmds, NEW l, NEW b, cmd' = [cmd EXCEPT ![c].pc = l, ![c].result = b]
  PROVE  Went(c, l) /\ Unchanged(c)
<1>1. cmd \in [Cmds -> Commands] /\ cmd[c] \in Commands BY DEF Inv, TypeOK
<1>. QED BY <1>1 DEF Went, Unchanged, OneMoves, Commands

LEMMA TxnGoes ==
  ASSUME Inv, NEW c \in Cmds, NEW l, NEW b, cmd' = [cmd EXCEPT ![c].pc = l, ![c].txn = b]
  PROVE  Went(c, l) /\ Unchanged(c)
<1>1. cmd \in [Cmds -> Commands] /\ cmd[c] \in Commands BY DEF Inv, TypeOK
<1>. QED BY <1>1 DEF Went, Unchanged, OneMoves, Commands

LEMMA SilentGoes ==
  ASSUME Inv, NEW c \in Cmds, NEW l, NEW b, cmd' = [cmd EXCEPT ![c].pc = l, ![c].silent = b]
  PROVE  Went(c, l) /\ cmd'[c].ok = cmd[c].ok /\ cmd'[c].decisions = cmd[c].decisions
<1>1. cmd \in [Cmds -> Commands] /\ cmd[c] \in Commands BY DEF Inv, TypeOK
<1>. QED BY <1>1 DEF Went, OneMoves, Commands

LEMMA ConcludingGoes ==
  ASSUME Inv, NEW c \in Cmds, NEW next, NEW ok, Concluding(c, next, ok)
  PROVE  /\ Went(c, "conclude") /\ cmd'[c].ok = ok
         /\ cmd'[c].decisions = cmd[c].decisions /\ cmd'[c].silent = cmd[c].silent
<1>1. cmd \in [Cmds -> Commands] /\ cmd[c] \in Commands BY DEF Inv, TypeOK
<1>. QED BY <1>1 DEF Concluding, Went, OneMoves, Commands

LEMMA FinishGoes ==
  ASSUME Inv, NEW c \in Cmds, NEW ok, NEW n, Finish(c, ok, n) PROVE Went(c, "conclude")
<1>1. cmd \in [Cmds -> Commands] /\ cmd[c] \in Commands BY DEF Inv, TypeOK
<1>. QED BY <1>1 DEF Finish, Went, OneMoves, Commands

(* An apply at work is ready for its report.                                *)
LEMMA ReadyMove ==
  ASSUME NEW k, NEW m, m.op = k.op, k.op = "apply", Ready(k),
         m.ok = k.ok, m.silent = k.silent, m.decisions = k.decisions,
         k.pc # "policy", m.pc # "available",
         k.pc \notin {"load", "expire", "observe"} \/ m.pc \in {"load", "expire", "observe"},
         m.pc \in {"pending", "issue", "retreat", "applying", "consume"} =>
           k.pc \in {"pending", "issue", "retreat", "applying", "consume"}
  PROVE  Ready(m)
BY DEF Ready

LEMMA OtherReady == ASSUME NEW c, NEW l, Went(c, l), cmd[c].op # "apply" PROVE Ready(cmd'[c])
BY DEF Went, Ready

(* Load, Observe, Issue, Consume and the steps of the engine.               *)
LEMMA LocalReady ==
  ASSUME Inv, NEW c \in Cmds, Ready(cmd[c]), cmd[c].op = "apply",
         \/ Load(c) \/ Observe(c) \/ Issue(c) \/ Consume(c) \/ Execute(c) \/ Executing(c)
         \/ Recheck(c) \/ Postcheck(c) \/ Undo(c) \/ Undoing(c) \/ Undone(c)
  PROVE  OneMoves(c) /\ Ready(cmd'[c])
<1>0. cmd[c].decisions \in Nat BY DEF Inv, TypeOK, Commands
<1>1. CASE Load(c)
  <2>1. CASE Return(c) BY <2>1, Returned
  <2>2. CASE \E l \in {"expire", "observe"} :
               Goto(c, l) \/ \E b : cmd' = [cmd EXCEPT ![c].pc = l, ![c].txn = b]
    <3>1. PICK l \in {"expire", "observe"} : Went(c, l) /\ Unchanged(c) BY <2>2, GotoGoes, TxnGoes
    <3>. QED BY <1>1, <3>1 DEF Load, Went, Unchanged, Ready
  <2>. QED BY <1>1, <2>1, <2>2 DEF Load
<1>2. CASE Observe(c)
  <2>1. CASE Return(c) BY <2>1, Returned
  <2>2. CASE cmd' = [cmd EXCEPT ![c].pc = "pending", ![c].decisions = 1]
    <3>1. Went(c, "pending") /\ cmd'[c].decisions = 1 /\ cmd'[c].silent = cmd[c].silent
      BY <2>2, CountGoes, ZenonT(60)
    <3>. QED BY <1>2, <3>1 DEF Observe, Went, Ready
  <2>. QED BY <1>2, <2>1, <2>2 DEF Observe
<1>3. CASE Issue(c)
  <2>1. PICK l \in {"applying", "retreat"} : Went(c, l) /\ Unchanged(c)
    BY <1>3, GotoGoes, BoundGoes DEF Issue
  <2>. QED BY <1>3, <2>1 DEF Issue, Went, Unchanged, Ready
<1>4. CASE Consume(c)
  <2>1. PICK l \in {"execute", "refuse"} :
          Goto(c, l) \/ cmd' = [cmd EXCEPT ![c].pc = l, ![c].decisions = @ + 1]
    BY <1>4 DEF Consume
  <2>2. /\ Went(c, l) /\ cmd'[c].silent = cmd[c].silent
        /\ cmd'[c].decisions \in {cmd[c].decisions, cmd[c].decisions + 1}
    BY <2>1, GotoGoes, CountGoes DEF Unchanged
  <2>. QED BY <1>0, <1>4, <2>2 DEF Consume, Went, Ready
<1>5. CASE Execute(c) \/ Executing(c)
  <2>1. PICK l \in {"executing", "recheck", "postcheck"} : Went(c, l) /\ Unchanged(c)
    BY <1>5, GotoGoes DEF Execute, Executing
  <2>. QED BY <1>5, <2>1, ReadyMove DEF Execute, Executing, Went, Unchanged
<1>6. CASE Undo(c) \/ Undoing(c)
  <2>1. PICK l \in {"undoing", "undone"} : Went(c, l) /\ Unchanged(c)
    BY <1>6, GotoGoes, ResultGoes DEF Undo, Undoing
  <2>. QED BY <1>6, <2>1, ReadyMove DEF Undo, Undoing, Went, Unchanged
<1>7. CASE Postcheck(c) /\ Goto(c, "undo")
  <2>1. Went(c, "undo") /\ Unchanged(c) BY <1>7, GotoGoes
  <2>. QED BY <1>7, <2>1, ReadyMove DEF Postcheck, Went, Unchanged
<1>8. CASE Recheck(c) \/ Postcheck(c) \/ Undone(c)
  <2>1. CASE \E next, ok : Concluding(c, next, ok)
    <3>1. /\ Went(c, "conclude") /\ cmd'[c].silent = cmd[c].silent
          /\ cmd'[c].decisions = cmd[c].decisions
      BY <2>1, ConcludingGoes
    <3>. QED BY <1>8, <3>1 DEF Recheck, Postcheck, Undone, Went, Ready
  <2>. QED BY <1>7, <1>8, <2>1 DEF Recheck, Postcheck, Undone
<1>. QED BY <1>1, <1>2, <1>3, <1>4, <1>5, <1>6, <1>7, <1>8

(* Its transitions and its two last steps.                                  *)
LEMMA MovingReady ==
  ASSUME Inv, NEW c \in Cmds, Ready(cmd[c]), cmd[c].op = "apply",
         \/ Expire(c) \/ Pending(c) \/ Retreat(c) \/ Applying(c) \/ Refuse(c)
         \/ Conclude(c) \/ Available(c) \/ Policy(c) \/ Report(c)
  PROVE  OneMoves(c) /\ Ready(cmd'[c])
<1>0. Outcome(cmd[c])
  <2>1. cmd[c].pc # "idle"
    BY DEF Expire, Pending, Retreat, Applying, Refuse, Conclude, Available, Policy, Report
  <2>. QED BY <2>1, Running
<1>1. CASE Return(c) BY <1>1, Returned
<1>2. CASE Refuse(c) /\ ~Return(c)
  <2>1. cmd' = [cmd EXCEPT ![c].pc = "policy", ![c].silent = TRUE] BY <1>2 DEF Refuse
  <2>2. Went(c, "policy") /\ cmd'[c].ok = cmd[c].ok /\ cmd'[c].decisions = cmd[c].decisions
    BY <2>1, SilentGoes
  <2>. QED BY <1>0, <1>2, <2>2 DEF Refuse, Outcome, Went, Ready
<1>3. CASE ~Return(c) /\ ~Refuse(c)
  <2>1. PICK l \in {"issue", "consume", "available", "policy", "report"} :
          /\ Went(c, l) /\ Unchanged(c)
          /\ l = "issue" => cmd[c].pc = "pending"
          /\ l = "consume" => cmd[c].pc = "applying"
          /\ l = "available" => cmd[c].pc = "conclude" /\ cmd[c].next = "applied"
          /\ l = "policy" => cmd[c].pc \in {"conclude", "available"}
          /\ l = "report" => cmd[c].pc = "policy" /\ ~cmd[c].silent
    <3>1. CASE Policy(c)
      <4>1. cmd[c].pc = "policy" /\ ~cmd[c].silent /\ Goto(c, "report") BY <1>3, <3>1 DEF Policy
      <4>. QED BY <4>1, GotoGoes
    <3>2. CASE Conclude(c)
      <4>1. /\ cmd[c].pc = "conclude"
            /\ Goto(c, IF cmd[c].next = "applied" THEN "available" ELSE "policy")
        BY <1>3, <3>2 DEF Conclude, MoveOrReturn
      <4>2. CASE cmd[c].next = "applied" BY <4>1, <4>2, GotoGoes
      <4>3. CASE cmd[c].next # "applied" BY <4>1, <4>3, GotoGoes
      <4>. QED BY <4>2, <4>3
    <3>3. CASE Pending(c) \/ Applying(c) \/ Available(c)
      BY <1>3, <3>3, GotoGoes DEF Pending, Applying, Available, MoveOrReturn
    <3>. QED BY <1>3, <3>1, <3>2, <3>3 DEF Expire, Retreat, Report
  <2>. QED BY <1>0, <2>1 DEF Outcome, Went, Unchanged, Ready
<1>. QED BY <1>1, <1>2, <1>3

(* A command that steps returns or goes on as the same command.             *)
LEMMA StepGoes == ASSUME Inv, NEW c \in Cmds, Step(c) PROVE Return(c) \/ \E l : Went(c, l)
<1>1. CASE ObserveFix(c) \/ Create(c) \/ ContextPolicy(c) \/ Discard(c) \/ Expire(c) \/ Retreat(c)
  BY <1>1, GotoGoes DEF ObserveFix, Create, ContextPolicy, Discard, Expire, Retreat
<1>2. CASE Load(c) BY <1>2, GotoGoes, TxnGoes DEF Load
<1>3. CASE Observe(c)
  <2>1. Return(c) \/ \E l, n : cmd' = [cmd EXCEPT ![c].pc = l, ![c].decisions = n]
    BY <1>3 DEF Observe
  <2>. QED BY <2>1, CountGoes
<1>4. CASE Stage(c)
  <2>1. (\E l, n : cmd' = [cmd EXCEPT ![c].pc = l, ![c].decisions = n]) \/ \E n : Finish(c, FALSE, n)
    BY <1>4 DEF Stage
  <2>. QED BY <2>1, CountGoes, FinishGoes
<1>5. CASE Build(c) BY <1>5, FinishGoes DEF Build
<1>6. CASE Issue(c) BY <1>6, GotoGoes, BoundGoes DEF Issue
<1>7. CASE Pending(c) \/ Applying(c) \/ Rolling(c) \/ Conclude(c) \/ Available(c)
  BY <1>7, GotoGoes DEF Pending, Applying, Rolling, Conclude, Available, MoveOrReturn
<1>8. CASE Consume(c)
  <2>1. \E l : Goto(c, l) \/ \E n : cmd' = [cmd EXCEPT ![c].pc = l, ![c].decisions = n]
    BY <1>8 DEF Consume
  <2>. QED BY <2>1, GotoGoes, CountGoes
<1>9. CASE Refuse(c) BY <1>9, SilentGoes DEF Refuse
<1>10. CASE Execute(c) \/ Executing(c) \/ Undo(c) \/ Undoing(c)
  BY <1>10, GotoGoes, ResultGoes DEF Execute, Executing, Undo, Undoing
<1>11. CASE Recheck(c) \/ Postcheck(c) \/ Undone(c)
  BY <1>11, GotoGoes, ConcludingGoes DEF Recheck, Postcheck, Undone
<1>12. CASE Policy(c) \/ Report(c) BY <1>12, GotoGoes DEF Policy, Report
<1>. QED BY <1>1, <1>2, <1>3, <1>4, <1>5, <1>6, <1>7, <1>8, <1>9, <1>10, <1>11, <1>12 DEF Step

LEMMA StepReady ==
  ASSUME Inv, NEW c \in Cmds, Ready(cmd[c]), Step(c)
  PROVE  OneMoves(c) /\ Ready(cmd'[c])
<1>1. CASE Return(c) BY <1>1, Returned
<1>2. CASE ~Return(c) /\ cmd[c].op # "apply"
  BY <1>2, StepGoes, OtherReady DEF Went
<1>3. CASE cmd[c].op = "apply"
  <2>1. cmd[c].pc \in OpPcs("apply")
    BY <1>3 DEF Inv, Good
  <2>2. ~(\/ ObserveFix(c) \/ Create(c) \/ ContextPolicy(c) \/ Discard(c) \/ Stage(c) \/ Build(c)
          \/ Rolling(c))
    BY <2>1 DEF OpPcs, Engine, ObserveFix, Create, ContextPolicy, Discard, Stage, Stages, Build, Rolling
  <2>. QED BY <1>3, <2>2, LocalReady, MovingReady DEF Step
<1>. QED BY <1>1, <1>2, <1>3

-----------------------------------------------------------------------------
(* Attended, step by step.                                                  *)

(* The proposals a step of the command is not about.                        *)
LEMMA ElsewhereAttended ==
  ASSUME Inv, Told, [Next]_vars, NEW c \in Cmds, OneMoves(c), NEW p \in Props \ contested, Attended(p),
         rec'[p] = rec[p], cmd[c].prop # p,
         ~ \E d \in Cmds : Undoing(d) /\ d # c
  PROVE  Attended(p)'
<1>1. CASE rec[p] = None BY <1>1 DEF Attended
<1>2. CASE rec[p] # None
  <2>1. Succeeded(p) => Succeeded(p)' BY DEF Succeeded
  <2>2. RolledBack(p) => RolledBack(p)' BY <1>2, StaysRolledBack
  <2>. QED BY <1>2, <2>1, <2>2, Stays
<1>. QED BY <1>1, <1>2

(* A step that leaves the store alone, by a command that minds the proposal *)
(* afterwards if it did before.                                             *)
LEMMA LocalAttended ==
  ASSUME Inv, Told, [Next]_vars, NEW c \in Cmds, OneMoves(c), NEW p \in Props \ contested, Attended(p),
         rec' = rec, ~Reporting(cmd[c]) \/ (Reporting(cmd'[c]) /\ cmd'[c].prop = cmd[c].prop),
         cmd[c].prop = p /\ Minding(cmd[c]) =>
           cmd'[c].op = cmd[c].op /\ cmd'[c].prop = p /\ Minding(cmd'[c]),
         \A d \in Cmds : Undoing(d) => d = c /\ Minding(cmd[c])
  PROVE  Attended(p)'
<1>1. CASE rec[p] = None BY <1>1 DEF Attended
<1>2. CASE rec[p] # None
  <2>1. Succeeded(p) => Succeeded(p)' BY DEF Succeeded
  <2>2. \/ RolledBack(p) => RolledBack(p)'
        \/ cmd'[c].op = "rollback" /\ cmd'[c].prop = p /\ Minding(cmd'[c])
    BY <1>2, StaysRolledBack
  <2>. QED BY <1>2, <2>1, <2>2, Stays
<1>. QED BY <1>1, <1>2

(* Who minds: the section of each command, and what the record says then.   *)
LEMMA MindingState ==
  ASSUME Inv, NEW c \in Cmds, cmd[c].prop \notin contested,
         Minding(cmd[c]), cmd[c].pc # "idle",
         Kind(cmd[c].op) = Minder(rec[cmd[c].prop].state), rec[cmd[c].prop].state \in Transient
  PROVE  /\ cmd[c].op \in {"fix", "verify"} =>
              rec[cmd[c].prop].state \in {"worktree_prepared", "worktree_applied", "build_running"}
         /\ cmd[c].op = "apply" /\ cmd[c].pc \in {"issue", "retreat", "applying"} =>
              rec[cmd[c].prop].state = "approval_pending"
         /\ cmd[c].op = "apply" /\ cmd[c].pc \in Engine => rec[cmd[c].prop].state = "applying"
         /\ cmd[c].pc = "available" => rec[cmd[c].prop].state = "applied"
         /\ cmd[c].op = "rollback" => rec[cmd[c].prop].state = "rolling_back"
<1>1. /\ cmd[c].op \in Ops /\ cmd[c].pc \in OpPcs(cmd[c].op)
      /\ rec[cmd[c].prop].state \in Allowed(cmd[c])
  <2>1. cmd[c].pc \notin {"observe_fix", "create"} BY DEF Minding, Engine
  <2>. QED BY <2>1, Running
<1>. QED BY <1>1 DEF Minding, Minder, Kind, Allowed, Relied, Transient, Ops, Engine, OpPcs, Verification

(* A transition refused without an error: the state graph has no such edge. *)
LEMMA RefusedState ==
  ASSUME Roomy, NEW p \in Props, rec[p] # None, ~IoError, NEW n, TransitionRefused(p, n)
  PROVE  rec' = rec /\ ~CanTransition(rec[p].state, n)
BY DEF TransitionRefused, Roomy

(* A transition of a proposal: what it does to the others, and to its       *)
(* report.                                                                  *)
LEMMA TransitionKeeps ==
  ASSUME Inv, NEW q \in Props, NEW n \in States, Transition(q, n)
  PROVE  /\ rec'[q].state = n /\ rec'[q] # None
         /\ Succeeded(q)' <=> Succeeded(q)
         /\ \A p \in Props \ {q} : rec'[p] = rec[p]
<1>1. rec[q] # None /\ rec[q] \in Records BY DEF Inv, TypeOK, Transition, Readable
<1>2. rec'[q].state = n BY <1>1, TransitionState
<1>3. rec'[q] # None BY <1>1, TransitionGrows DEF Grown
<1>. DEFINE new == [rec[q] EXCEPT !.state = n]
            r == [new EXCEPT !.generations = @ + 1]
<1>4. r.apply = rec[q].apply
  <2>1. new \in Records /\ new.apply = rec[q].apply BY <1>1, StateChanged
  <2>. HIDE DEF new
  <2>. QED BY <2>1, Numbered
<1>5. rec' = [rec EXCEPT ![q] = r] BY DEF Transition, Publish
<1>6. rec \in [Props -> Records \union {None}] BY DEF Inv, TypeOK
<1>. HIDE DEF r
<1>7. rec'[q] = r /\ \A p \in Props \ {q} : rec'[p] = rec[p] BY <1>5, <1>6
<1>. QED BY <1>1, <1>2, <1>3, <1>4, <1>7 DEF Succeeded

(* A transition whose command minds the new state.                          *)
LEMMA TransitionAttended ==
  ASSUME Inv, Told, [Next]_vars, NEW c \in Cmds, cmd[c].prop \notin contested,
         OneMoves(c), Step(c), ~Undoing(c),
         NEW n \in States, cmd[c].prop \in Props, Transition(cmd[c].prop, n),
         n \in Transient =>
           Kind(cmd'[c].op) = Minder(n) /\ cmd'[c].prop = cmd[c].prop /\ Minding(cmd'[c]),
         n \in {"rollback_available", "rolling_back"} =>
           Succeeded(cmd[c].prop) \/ (cmd'[c].prop = cmd[c].prop /\ Reporting(cmd'[c])),
         \A p \in Props \ contested : Attended(p), \A d \in Cmds \ {c} : ~Undoing(d)
  PROVE  \A p \in Props \ contested : Attended(p)'
<1>. SUFFICES ASSUME NEW p \in Props \ contested PROVE Attended(p)' OBVIOUS
<1>1. PICK q \in {cmd[c].prop} : q \in Props /\ Transition(q, n) OBVIOUS
<1>2. /\ rec'[q].state = n /\ (Succeeded(q)' <=> Succeeded(q))
      /\ \A s \in Props \ {q} : rec'[s] = rec[s]
  BY <1>1, TransitionKeeps
<1>3. CASE p = q BY <1>1, <1>2, <1>3, Enters
<1>4. CASE p # q BY <1>1, <1>2, <1>4, ElsewhereAttended
<1>. QED BY <1>3, <1>4

LEMMA NoneUndoing ==
  ASSUME Inv, NEW d \in Cmds, cmd'[d] = cmd[d] PROVE ~Undoing(d)
<1>. SUFFICES ASSUME Undoing(d) PROVE FALSE OBVIOUS
<1>1. cmd[d].pc = "undoing" BY DEF Undoing
<1>2. Went(d, "undone") BY ResultGoes DEF Undoing
<1>. QED BY <1>1, <1>2 DEF Went

LEMMA OnlyUndoing == ASSUME Inv, NEW c \in Cmds, OneMoves(c) PROVE \A d \in Cmds \ {c} : ~Undoing(d)
BY NoneUndoing DEF OneMoves

(* The steps before a command's section, and those of the engine but for    *)
(* the end of a rollback: the store is left alone.                          *)
LEMMA BeforeAttended ==
  ASSUME Inv, Told, [Next]_vars, NEW c \in Cmds, OneMoves(c),
         ObserveFix(c) \/ Load(c) \/ Observe(c),
         NEW p \in Props \ contested, Attended(p)
  PROVE  Attended(p)'
<1>1. rec' = rec BY DEF ObserveFix, Load, Observe, storeVars
<1>2. ~Minding(cmd[c]) /\ ~Reporting(cmd[c]) /\ ~Undoing(c)
  BY DEF ObserveFix, Load, Observe, Minding, Reporting, Undoing, Engine
<1>3. \A d \in Cmds : Undoing(d) => d = c /\ Minding(cmd[c]) BY <1>2, OnlyUndoing
<1>4. cmd[c].prop = p /\ Minding(cmd[c]) =>
        cmd'[c].op = cmd[c].op /\ cmd'[c].prop = p /\ Minding(cmd'[c])
  BY <1>2
<1>5. ~Reporting(cmd[c]) \/ (Reporting(cmd'[c]) /\ cmd'[c].prop = cmd[c].prop) BY <1>2
<1>. QED BY <1>1, <1>3, <1>4, <1>5, LocalAttended

LEMMA EngineAttended ==
  ASSUME Inv, Told, [Next]_vars, NEW c \in Cmds, OneMoves(c),
         \/ Issue(c) \/ Consume(c) \/ Execute(c) \/ Executing(c) \/ Recheck(c) \/ Postcheck(c)
         \/ Undo(c) \/ Undoing(c) \/ Build(c),
         NEW p \in Props \ contested, Attended(p)
  PROVE  Attended(p)'
<1>1. rec' = rec
  BY DEF Issue, Consume, Execute, Executing, Recheck, Postcheck, Undo, Undoing, Build, storeVars
<1>2. /\ ~Reporting(cmd[c]) /\ cmd[c].pc # "idle"
      /\ Undoing(c) => cmd[c].pc = "undoing"
  BY DEF Issue, Consume, Execute, Executing, Recheck, Postcheck, Undo, Undoing, Build, Reporting
<1>3. cmd[c].op \in Ops /\ cmd[c].pc \in OpPcs(cmd[c].op) BY <1>2, Running
<1>4. \/ Went(c, "conclude") /\ (cmd[c].op = "apply" \/ Build(c))
      \/ \E l \in {"applying", "retreat"} : Went(c, l) /\ cmd[c].op = "apply"
      \/ \E l \in Engine : Went(c, l) /\ cmd[c].op \in {"apply", "rollback"}
  <2>1. CASE Issue(c)
    <3>1. cmd[c].op = "apply" BY <1>3, <2>1 DEF Issue, OpPcs, Ops, Verification, Engine
    <3>. QED BY <2>1, <3>1, GotoGoes, BoundGoes DEF Issue
  <2>2. CASE Consume(c)
    <3>1. cmd[c].op \in {"apply", "rollback"} BY <1>3, <2>2 DEF Consume, OpPcs, Ops, Verification, Engine
    <3>2. PICK l \in {"execute", "undo", "refuse"} :
            Goto(c, l) \/ \E n : cmd' = [cmd EXCEPT ![c].pc = l, ![c].decisions = n]
      BY <2>2 DEF Consume
    <3>3. Went(c, l) BY <3>2, GotoGoes, CountGoes
    <3>4. l \in Engine BY DEF Engine
    <3>. QED BY <3>1, <3>3, <3>4
  <2>3. CASE Execute(c) \/ Executing(c) \/ Undo(c) \/ Undoing(c)
    <3>1. cmd[c].op \in {"apply", "rollback"}
      BY <1>3, <2>3 DEF Execute, Executing, Undo, Undoing, OpPcs, Ops, Verification, Engine
    <3>2. \E l \in {"executing", "recheck", "postcheck", "undoing", "undone"} : Went(c, l)
      BY <2>3, GotoGoes, ResultGoes DEF Execute, Executing, Undo, Undoing
    <3>. QED BY <3>1, <3>2 DEF Engine
  <2>4. CASE Recheck(c) \/ Postcheck(c)
    <3>1. cmd[c].op = "apply"
      BY <1>3, <2>4 DEF Recheck, Postcheck, OpPcs, Ops, Verification, Engine
    <3>2. \E l \in {"undo", "conclude"} : Went(c, l)
      BY <2>4, GotoGoes, ConcludingGoes DEF Recheck, Postcheck
    <3>. QED BY <3>1, <3>2 DEF Engine
  <2>5. CASE Build(c) BY <2>5, FinishGoes DEF Build
  <2>. QED BY <2>1, <2>2, <2>3, <2>4, <2>5
<1>5. Build(c) => Kind(cmd[c].op) = "verify"
  BY <1>3 DEF Build, OpPcs, Ops, Verification, Engine, Kind
<1>6. /\ cmd'[c].op = cmd[c].op /\ cmd'[c].prop = cmd[c].prop /\ Minding(cmd'[c])
  BY <1>4, <1>5 DEF Went, Minding, Engine
<1>7. \A d \in Cmds : Undoing(d) => d = c /\ Minding(cmd[c])
  <2>1. Undoing(c) => Minding(cmd[c])
    BY <1>2, <1>3 DEF Minding, OpPcs, Ops, Verification, Engine
  <2>. QED BY <2>1, OnlyUndoing
<1>. QED BY <1>1, <1>2, <1>6, <1>7, LocalAttended

(* The end of a rollback: it concludes, or leaves the record of what it has *)
(* rolled back.                                                             *)
LEMMA UndoneAttended ==
  ASSUME Inv, Told, [Next]_vars, NEW c \in Cmds, cmd[c].prop \notin contested,
         OneMoves(c), Undone(c), ~IoError,
         NEW p \in Props \ contested, Attended(p)
  PROVE  Attended(p)'
<1>1. rec' = rec /\ txns' = txns BY DEF Undone, storeVars, engineVars
<1>2. ~Reporting(cmd[c]) /\ cmd[c].pc = "undone" BY DEF Undone, Reporting
<1>3. cmd[c].op \in Ops /\ cmd[c].pc \in OpPcs(cmd[c].op) /\ cmd[c].prop \in Props BY <1>2, Running
<1>4. \A d \in Cmds : ~Undoing(d) BY <1>2, OnlyUndoing DEF Undoing
<1>5. CASE ~Return(c)
  <2>1. Went(c, "conclude") BY <1>5, ConcludingGoes DEF Undone
  <2>2. cmd[c].op \in {"apply", "rollback"} BY DEF Undone
  <2>3. cmd'[c].op = cmd[c].op /\ cmd'[c].prop = cmd[c].prop /\ Minding(cmd'[c])
    BY <2>1, <2>2 DEF Went, Minding, Engine
  <2>. QED BY <1>1, <1>2, <1>4, <2>3, LocalAttended
<1>6. CASE Return(c)
  <2>1. cmd[c].op = "rollback" /\ cmd[c].result = "rolled_back"
    <3>1. cmd'[c].op = "none" BY <1>6, Returned, IdleKnows
    <3>2. ~ \E next, ok : Concluding(c, next, ok)
      <4>1. cmd[c].op # "none" BY <1>3 DEF Ops
      <4>. QED BY <3>1, <4>1, ConcludingGoes DEF Went
    <3>. QED BY <3>2 DEF Undone
  <2>2. PICK k \in {cmd[c]} : Knows(k) BY DEF Told
  <2>3. RolledBack(cmd[c].prop) BY <1>2, <2>1, <2>2 DEF Knows, RolledBack
  <2>4. rec[cmd[c].prop].state = "rolling_back"
    <3>1. rec[cmd[c].prop].state \in Allowed(cmd[c]) BY <1>2, Running
    <3>. QED BY <1>2, <2>1, <3>1 DEF Allowed, Relied, Engine
  <2>5. RolledBack(p) => RolledBack(p)' BY <1>1 DEF RolledBack, Succeeded
  <2>6. Succeeded(p) => Succeeded(p)' BY <1>1 DEF Succeeded
  <2>7. CASE rec[p] = None BY <1>1, <2>7 DEF Attended
  <2>. QED BY <1>1, <1>2, <2>3, <2>4, <2>5, <2>6, <2>7, Stays
<1>. QED BY <1>5, <1>6

(* A refused transition: the record was not in a state that waits for it.   *)
LEMMA RefusedAttended ==
  ASSUME Inv, Told, [Next]_vars, NEW c \in Cmds, cmd[c].prop \notin contested,
         Return(c), ~Undoing(c), rec' = rec,
         NEW n, ~CanTransition(rec[cmd[c].prop].state, n), ~Reporting(cmd[c]),
         Minding(cmd[c]) /\ rec[cmd[c].prop].state \in Transient
           /\ Kind(cmd[c].op) = Minder(rec[cmd[c].prop].state) =>
             CanTransition(rec[cmd[c].prop].state, n),
         NEW p \in Props \ contested, Attended(p)
  PROVE  Attended(p)'
<1>1. OneMoves(c) BY Returned
<1>2. \A d \in Cmds : ~Undoing(d) BY <1>1, OnlyUndoing
<1>3. CASE rec[p] = None BY <1>3 DEF Attended
<1>4. CASE rec[p] # None
  <2>1. Succeeded(p) => Succeeded(p)' BY DEF Succeeded
  <2>2. RolledBack(p) => RolledBack(p)' BY <1>2, <1>4, StaysRolledBack
  <2>. QED BY <1>1, <1>4, <2>1, <2>2, Stays
<1>. QED BY <1>3, <1>4

(* The transition of an action, or its refusal.                             *)
LEMMA MoveAttended ==
  ASSUME Inv, Told, [Next]_vars, Roomy, ~IoError, NEW c \in Cmds, cmd[c].prop \notin contested,
         OneMoves(c), Step(c),
         cmd[c].pc \notin {"idle", "observe_fix", "create", "undoing"}, ~Reporting(cmd[c]),
         NEW n \in States,
         Transition(cmd[c].prop, n) \/ (TransitionRefused(cmd[c].prop, n) /\ Return(c)),
         Minding(cmd[c]) /\ rec[cmd[c].prop].state \in Transient
           /\ Kind(cmd[c].op) = Minder(rec[cmd[c].prop].state) =>
             CanTransition(rec[cmd[c].prop].state, n),
         n \in Transient /\ Transition(cmd[c].prop, n) =>
           Kind(cmd'[c].op) = Minder(n) /\ cmd'[c].prop = cmd[c].prop /\ Minding(cmd'[c]),
         n \in {"rollback_available", "rolling_back"} /\ Transition(cmd[c].prop, n) =>
           Succeeded(cmd[c].prop) \/ (cmd'[c].prop = cmd[c].prop /\ Reporting(cmd'[c])),
         \A p \in Props \ contested : Attended(p)
  PROVE  \A p \in Props \ contested : Attended(p)'
<1>1. cmd[c].prop \in Props /\ rec[cmd[c].prop] # None BY Running
<1>2. ~Undoing(c) BY DEF Undoing
<1>3. CASE Transition(cmd[c].prop, n)
  BY <1>1, <1>2, <1>3, TransitionAttended, OnlyUndoing
<1>4. CASE TransitionRefused(cmd[c].prop, n) /\ Return(c)
  <2>1. rec' = rec /\ ~CanTransition(rec[cmd[c].prop].state, n) BY <1>1, <1>4, RefusedState
  <2>. QED BY <1>2, <1>4, <2>1, RefusedAttended
<1>. QED BY <1>3, <1>4

LEMMA EndAttended ==
  ASSUME Inv, Told, [Next]_vars, Roomy, ~IoError, NEW c \in Cmds, cmd[c].prop \notin contested,
         OneMoves(c), Step(c),
         Discard(c) \/ Expire(c) \/ Retreat(c) \/ Pending(c) \/ Applying(c) \/ Rolling(c),
         \A p \in Props \ contested : Attended(p)
  PROVE  \A p \in Props \ contested : Attended(p)'
<1>1. /\ cmd[c].pc \in {"discard", "expire", "retreat", "pending", "applying", "rolling"}
      /\ ~Reporting(cmd[c])
  BY DEF Discard, Expire, Retreat, Pending, Applying, Rolling, Reporting
<1>2. cmd[c].op \in Ops /\ cmd[c].pc \in OpPcs(cmd[c].op) BY <1>1, Running
<1>3. CASE Discard(c) \/ Expire(c)
  <2>1. PICK n \in {"discarded", "expired"} :
          Transition(cmd[c].prop, n) \/ (TransitionRefused(cmd[c].prop, n) /\ Return(c))
    BY <1>3 DEF Discard, Expire
  <2>2. n \in States /\ n \notin Transient /\ n \notin {"rollback_available", "rolling_back"}
    BY DEF States, Transient
  <2>3. ~Minding(cmd[c]) BY <1>1, <1>3 DEF Minding, Discard, Expire, Engine
  <2>. QED BY <1>1, <2>1, <2>2, <2>3, MoveAttended
<1>4. CASE Retreat(c)
  <2>1. Transition(cmd[c].prop, "verified") \/ (TransitionRefused(cmd[c].prop, "verified") /\ Return(c))
    BY <1>4 DEF Retreat
  <2>2. "verified" \in States /\ "verified" \notin Transient BY DEF States, Transient
  <2>3. cmd[c].op = "apply" /\ cmd[c].pc = "retreat"
    BY <1>2, <1>4 DEF Retreat, OpPcs, Ops, Verification, Engine
  <2>4. Minding(cmd[c]) /\ rec[cmd[c].prop].state \in Transient
          /\ Kind(cmd[c].op) = Minder(rec[cmd[c].prop].state) =>
            CanTransition(rec[cmd[c].prop].state, "verified")
    BY <2>3, MindingState DEF CanTransition, Successors
  <2>. QED BY <1>1, <2>1, <2>2, <2>4, MoveAttended
<1>5. CASE Pending(c) \/ Applying(c) \/ Rolling(c)
  <2>1. PICK n \in {"approval_pending", "applying", "rolling_back"}, l \in {"issue", "consume"} :
          /\ MoveOrReturn(c, n, l)
          /\ n = "approval_pending" => cmd[c].pc = "pending" /\ l = "issue"
          /\ n = "applying" => cmd[c].pc = "applying" /\ l = "consume"
          /\ n = "rolling_back" => cmd[c].pc = "rolling" /\ l = "consume"
    BY <1>5 DEF Pending, Applying, Rolling
  <2>2. n \in States BY DEF States
  <2>3. cmd[c].op = IF n = "rolling_back" THEN "rollback" ELSE "apply"
    BY <1>2, <2>1 DEF OpPcs, Ops, Verification, Engine
  <2>4. Transition(cmd[c].prop, n) \/ (TransitionRefused(cmd[c].prop, n) /\ Return(c))
    BY <2>1 DEF MoveOrReturn
  <2>5. Minding(cmd[c]) /\ rec[cmd[c].prop].state \in Transient
          /\ Kind(cmd[c].op) = Minder(rec[cmd[c].prop].state) =>
            CanTransition(rec[cmd[c].prop].state, n)
    <3>1. Minding(cmd[c]) => cmd[c].pc = "applying" /\ cmd[c].op = "apply"
      BY <1>1, <2>1, <2>3 DEF Minding, Engine
    <3>2. CanTransition("approval_pending", "applying") BY DEF CanTransition, Successors
    <3>. QED BY <2>1, <3>1, <3>2, MindingState
  <2>6. Went(c, l) => Kind(cmd'[c].op) = Minder(n) /\ cmd'[c].prop = cmd[c].prop /\ Minding(cmd'[c])
    BY <2>1, <2>3 DEF Went, Kind, Minder, Minding, Engine
  <2>7. CASE Went(c, l)
    <3>1. n = "rolling_back" => Succeeded(cmd[c].prop)
      <4>1. PICK k \in {cmd[c]} : Knows(k) BY DEF Told
      <4>. QED BY <2>1, <2>3, <4>1 DEF Knows
    <3>2. n # "rollback_available" BY <2>1
    <3>. QED BY <1>1, <2>2, <2>4, <2>5, <2>6, <2>7, <3>1, <3>2, MoveAttended
  <2>8. CASE TransitionRefused(cmd[c].prop, n) /\ Return(c)
    <3>1. cmd[c].prop \in Props /\ rec[cmd[c].prop] # None BY <1>1, Running
    <3>2. rec' = rec /\ ~CanTransition(rec[cmd[c].prop].state, n) BY <2>8, <3>1, RefusedState
    <3>3. ~Undoing(c) BY <1>1 DEF Undoing
    <3>. QED BY <1>1, <2>5, <2>8, <3>2, <3>3, RefusedAttended
  <2>. QED BY <2>1, <2>7, <2>8, GotoGoes DEF MoveOrReturn
<1>. QED BY <1>3, <1>4, <1>5

(* What the transitions at the end of a command are about.                  *)
LEMMA ConcludeAttended ==
  ASSUME Inv, Told, [Next]_vars, Roomy, ~IoError, NEW c \in Cmds, cmd[c].prop \notin contested,
         OneMoves(c), Step(c),
         Ready(cmd[c]), Conclude(c) \/ Available(c) \/ Refuse(c),
         \A p \in Props \ contested : Attended(p)
  PROVE  \A p \in Props \ contested : Attended(p)'
<1>1. cmd[c].pc \in {"conclude", "available", "refuse"} /\ ~Reporting(cmd[c])
  BY DEF Conclude, Available, Refuse, Reporting
<1>2. /\ cmd[c].op \in Ops /\ cmd[c].pc \in OpPcs(cmd[c].op) /\ Outcome(cmd[c])
      /\ rec[cmd[c].prop].state \in Allowed(cmd[c])
  BY <1>1, Running
<1>3. cmd[c].op = "rollback" => Succeeded(cmd[c].prop)
  <2>1. PICK k \in {cmd[c]} : Knows(k) BY DEF Told
  <2>. QED BY <1>1, <2>1 DEF Knows
<1>4. CASE Conclude(c)
  <2>1. PICK n \in {cmd[c].next} : MoveOrReturn(c, n, IF n = "applied" THEN "available" ELSE "policy")
    BY <1>4 DEF Conclude
  <2>2. cmd[c].op \in {"fix", "verify", "apply", "rollback"} /\ cmd[c].pc = "conclude"
    BY <1>2, <1>4 DEF Conclude, OpPcs, Ops, Verification, Engine
  <2>3. /\ cmd[c].op = "apply" => n \in {"verified", "failed", "applied"}
        /\ cmd[c].op = "rollback" => n \in {"rollback_available", "rolled_back", "failed"}
        /\ cmd[c].op \in {"fix", "verify"} => n \in {"verified", "verification_failed"}
    BY <1>2, <2>1, <2>2 DEF Outcome
  <2>4. n \in States BY <2>2, <2>3 DEF States
  <2>5. Transition(cmd[c].prop, n) \/ (TransitionRefused(cmd[c].prop, n) /\ Return(c))
    BY <2>1 DEF MoveOrReturn
  <2>6. Minding(cmd[c]) /\ rec[cmd[c].prop].state \in Transient
          /\ Kind(cmd[c].op) = Minder(rec[cmd[c].prop].state) =>
            CanTransition(rec[cmd[c].prop].state, n)
    <3>1. CASE cmd[c].op \in {"fix", "verify"} /\ n = "verified"
      <4>1. rec[cmd[c].prop].state = "build_running"
        BY <1>2, <2>1, <2>2, <3>1 DEF Allowed, Relied, Engine
      <4>. QED BY <3>1, <4>1 DEF CanTransition, Successors
    <3>2. CASE cmd[c].op \in {"fix", "verify"} /\ n = "verification_failed"
      BY <2>2, <3>2, MindingState DEF CanTransition, Successors
    <3>3. CASE cmd[c].op = "apply"
      <4>1. rec[cmd[c].prop].state = "applying" BY <1>2, <2>2, <3>3 DEF Allowed, Relied, Engine
      <4>. QED BY <2>3, <3>3, <4>1 DEF CanTransition, Successors
    <3>4. CASE cmd[c].op = "rollback"
      <4>1. rec[cmd[c].prop].state = "rolling_back" BY <1>2, <2>2, <3>4 DEF Allowed, Relied, Engine
      <4>. QED BY <2>3, <3>4, <4>1 DEF CanTransition, Successors
    <3>. QED BY <2>2, <2>3, <3>1, <3>2, <3>3, <3>4
  <2>7. n \in Transient => cmd[c].op = "apply" /\ n = "applied"
    BY <2>2, <2>3 DEF Transient
  <2>8. n \in {"rollback_available", "rolling_back"} => Succeeded(cmd[c].prop)
    BY <1>3, <2>2, <2>3
  <2>9. n = "applied" /\ Transition(cmd[c].prop, n) => Went(c, "available")
    <3>1. CASE n = "applied" /\ Return(c)
      <4>1. TransitionRefused(cmd[c].prop, n) \/ Goto(c, "available") BY <2>1, <3>1 DEF MoveOrReturn
      <4>2. TransitionRefused(cmd[c].prop, n) => ~Transition(cmd[c].prop, n)
        <5>1. cmd[c].prop \in Props /\ rec[cmd[c].prop] # None BY <1>1, Running
        <5>2. TransitionRefused(cmd[c].prop, n) => ~CanTransition(rec[cmd[c].prop].state, n)
          BY <5>1, RefusedState
        <5>. QED BY <5>2 DEF Transition
      <4>. QED BY <4>1, <4>2, GotoGoes
    <3>. QED BY <2>1, <3>1, GotoGoes DEF MoveOrReturn
  <2>10. n \in Transient /\ Transition(cmd[c].prop, n) =>
           Kind(cmd'[c].op) = Minder(n) /\ cmd'[c].prop = cmd[c].prop /\ Minding(cmd'[c])
    BY <2>7, <2>9 DEF Went, Kind, Minder, Minding
  <2>. QED BY <1>1, <2>4, <2>5, <2>6, <2>8, <2>10, MoveAttended
<1>5. CASE Available(c)
  <2>1. cmd[c].op = "apply" /\ cmd[c].pc = "available"
    BY <1>2, <1>5 DEF Available, OpPcs, Ops, Verification, Engine
  <2>2. rec[cmd[c].prop].state = "applied" BY <1>2, <2>1 DEF Allowed, Relied, Engine
  <2>3. CanTransition("applied", "rollback_available") /\ "rollback_available" \in States
        /\ "rollback_available" \notin Transient
    BY DEF CanTransition, Successors, States, Transient
  <2>4. PICK n \in {"rollback_available"} : MoveOrReturn(c, n, "policy") BY <1>5 DEF Available
  <2>5. Transition(cmd[c].prop, n) /\ Goto(c, "policy")
    <3>1. cmd[c].prop \in Props /\ rec[cmd[c].prop] # None BY <1>1, Running
    <3>. QED BY <2>2, <2>3, <2>4, <3>1, RefusedState DEF MoveOrReturn
  <2>6. cmd'[c].prop = cmd[c].prop /\ Reporting(cmd'[c])
    <3>1. Went(c, "policy") /\ Unchanged(c) BY <2>5, GotoGoes
    <3>. QED BY <2>1, <3>1 DEF Went, Unchanged, Reporting, Ready
  <2>. QED BY <1>1, <2>2, <2>3, <2>5, <2>6, MoveAttended
<1>6. CASE Refuse(c)
  <2>1. cmd[c].op \in {"apply", "rollback"} /\ cmd[c].pc = "refuse"
    BY <1>2, <1>6 DEF Refuse, OpPcs, Ops, Verification, Engine
  <2>2. rec[cmd[c].prop].state = IF cmd[c].op = "apply" THEN "applying" ELSE "rolling_back"
    BY <1>2, <2>1 DEF Allowed, Relied, Engine
  <2>3. PICK n \in {"verified", "rollback_available"} :
          /\ n = IF cmd[c].op = "apply" THEN "verified" ELSE "rollback_available"
          /\ Transition(cmd[c].prop, n) \/ (TransitionRefused(cmd[c].prop, n) /\ Return(c))
    BY <1>6 DEF Refuse
  <2>4. CanTransition(rec[cmd[c].prop].state, n) BY <2>1, <2>2, <2>3 DEF CanTransition, Successors
  <2>5. n \in States /\ n \notin Transient BY DEF States, Transient
  <2>6. n \in {"rollback_available", "rolling_back"} => Succeeded(cmd[c].prop) BY <1>3, <2>1, <2>3
  <2>. QED BY <1>1, <2>3, <2>4, <2>5, <2>6, MoveAttended
<1>. QED BY <1>4, <1>5, <1>6

(* A stage of a verification: it moves the record or concludes.             *)
LEMMA StageAttended ==
  ASSUME Inv, Told, [Next]_vars, Roomy, ~IoError, NEW c \in Cmds, cmd[c].prop \notin contested,
         OneMoves(c), Step(c), Stage(c),
         \A p \in Props \ contested : Attended(p)
  PROVE  \A p \in Props \ contested : Attended(p)'
<1>1. cmd[c].pc \in {"prepare", "write", "build_start"} BY DEF Stage, Stages
<1>2. /\ cmd[c].op \in Ops /\ cmd[c].pc \in OpPcs(cmd[c].op) /\ cmd[c].prop \in Props
      /\ ~Reporting(cmd[c]) /\ ~Undoing(c)
  BY <1>1, Running DEF Reporting, Undoing
<1>3. cmd[c].op \in {"fix", "verify"} BY <1>1, <1>2 DEF OpPcs, Ops, Verification, Engine
<1>4. Kind(cmd[c].op) = "verify" BY <1>3 DEF Kind
<1>5. CASE rec' = rec
  <2>1. (\E n : Finish(c, FALSE, n)) \/ \E n : Transition(cmd[c].prop, n)
    BY DEF Stage
  <2>2. ~ \E n : Transition(cmd[c].prop, n)
    <3>. SUFFICES ASSUME NEW n, Transition(cmd[c].prop, n) PROVE FALSE OBVIOUS
    <3>1. rec[cmd[c].prop] \in Records BY <1>2 DEF Transition, Readable, Inv, TypeOK
    <3>2. rec'[cmd[c].prop].generations = rec[cmd[c].prop].generations + 1
      <4>1. rec \in [Props -> Records \union {None}] BY DEF Inv, TypeOK
      <4>. QED BY <1>2, <3>1, <4>1 DEF Transition, Publish, Records
    <3>3. rec[cmd[c].prop].generations \in Nat BY <3>1 DEF Records
    <3>. QED BY <1>5, <3>2, <3>3
  <2>3. Went(c, "conclude") BY <2>1, <2>2, FinishGoes
  <2>4. cmd'[c].op = cmd[c].op /\ cmd'[c].prop = cmd[c].prop /\ Minding(cmd'[c])
    BY <1>4, <2>3 DEF Went, Minding
  <2>. QED BY <1>2, <1>5, <2>4, LocalAttended, OnlyUndoing
<1>6. CASE rec' # rec
  <2>. DEFINE n == Stages[cmd[c].pc].next
              l == Stages[cmd[c].pc].then
  <2>1. Transition(cmd[c].prop, n) /\ \E d : cmd' = [cmd EXCEPT ![c].pc = l, ![c].decisions = d]
    BY <1>6 DEF Stage, TransitionRefused
  <2>2. n \in {"worktree_prepared", "worktree_applied", "build_running"}
        /\ l \in {"write", "build_start", "build"}
    BY <1>1 DEF Stages
  <2>. HIDE DEF n, l
  <2>3. n \in States /\ Minder(n) = "verify" /\ n \notin {"rollback_available", "rolling_back"}
    BY <2>2 DEF States, Minder
  <2>4. Went(c, l) BY <2>1, CountGoes
  <2>5. Kind(cmd'[c].op) = Minder(n) /\ cmd'[c].prop = cmd[c].prop /\ Minding(cmd'[c])
    BY <1>4, <2>2, <2>3, <2>4 DEF Went, Minding
  <2>. QED BY <1>2, <2>1, <2>3, <2>5, TransitionAttended, OnlyUndoing
<1>. QED BY <1>5, <1>6

(* There is room for the policy references of an apply.                     *)
LEMMA RoomForPolicy ==
  ASSUME Inv, Roomy, ~IoError, NEW q \in Props, rec[q] # None, NEW n \in Nat, n <= 2
  PROVE  ~RecordPolicyRefused(q, n)
<1>1. rec[q] \in Records BY DEF Inv, TypeOK
<1>2. rec[q].policy \in Nat /\ MaxPolicy \in Nat BY <1>1, LifecycleAssumption DEF Records
<1>3. Readable(q) /\ rec[q].policy + n <= MaxPolicy BY <1>2 DEF Roomy
<1>. QED BY <1>3 DEF RecordPolicyRefused

(* Policy references, the report and a new record leave the states alone.   *)
LEMMA PublishKeeps ==
  ASSUME Inv, NEW q \in Props, rec[q] # None, NEW r \in Records, Publish(q, r)
  PROVE  /\ rec'[q].state = r.state /\ rec'[q].apply = r.apply /\ rec'[q] # None
         /\ \A p \in Props \ {q} : rec'[p] = rec[p]
<1>. DEFINE next == [r EXCEPT !.generations = @ + 1]
<1>1. next \in Records /\ next.state = r.state /\ next.apply = r.apply BY Numbered
<1>2. rec' = [rec EXCEPT ![q] = next] BY DEF Publish
<1>. HIDE DEF next
<1>3. rec \in [Props -> Records \union {None}] BY DEF Inv, TypeOK
<1>4. rec'[q] = next /\ \A p \in Props \ {q} : rec'[p] = rec[p] BY <1>2, <1>3
<1>. QED BY <1>1, <1>4, RecordNotNone

(* A step that writes no state, and takes no successful report away.        *)
LEMMA RewriteAttended ==
  ASSUME Inv, Told, [Next]_vars, NEW c \in Cmds, cmd[c].prop \notin contested,
         OneMoves(c), ~Undoing(c), ~Minding(cmd[c]),
         NEW q \in Props, q = cmd[c].prop, rec[q] # None, rec'[q] # None,
         rec'[q].state = rec[q].state, \A p \in Props \ {q} : rec'[p] = rec[p],
         Succeeded(q) => Succeeded(q)' /\ rec'[q].apply = rec[q].apply,
         Reporting(cmd[c]) => (cmd'[c].prop = q /\ Reporting(cmd'[c])) \/ Succeeded(q)',
         NEW p \in Props \ contested, Attended(p)
  PROVE  Attended(p)'
<1>1. \A d \in Cmds : ~Undoing(d) BY OnlyUndoing
<1>2. CASE p # q BY <1>1, <1>2, ElsewhereAttended
<1>3. CASE p = q
  <2>1. RolledBack(p) => RolledBack(p)'
    <3>1. RolledBack(p) => Succeeded(p) BY DEF RolledBack
    <3>. QED BY <1>1, <1>3, <3>1, StaysRolledBack
  <2>. QED BY <1>3, <2>1, Stays
<1>. QED BY <1>2, <1>3

LEMMA PolicyAttended ==
  ASSUME Inv, Told, [Next]_vars, Roomy, ~IoError, NEW c \in Cmds, cmd[c].prop \notin contested,
         OneMoves(c), Ready(cmd[c]),
         Policy(c) \/ ContextPolicy(c), NEW p \in Props \ contested, Attended(p)
  PROVE  Attended(p)'
<1>1. cmd[c].pc \in {"policy", "context_policy"} BY DEF Policy, ContextPolicy
<1>2. /\ cmd[c].prop \in Props /\ rec[cmd[c].prop] \in Records /\ rec[cmd[c].prop] # None
      /\ cmd[c].op \in Ops /\ cmd[c].pc \in OpPcs(cmd[c].op)
      /\ ~Minding(cmd[c]) /\ ~Undoing(c) /\ cmd[c].decisions \in Nat
  BY <1>1, Running DEF Minding, Engine, Undoing, Commands
<1>3. PICK q \in {cmd[c].prop} : TRUE OBVIOUS
<1>4. CASE \E n \in Nat : RecordPolicy(q, n)
  <2>1. PICK n \in Nat : RecordPolicy(q, n) BY <1>4
  <2>. DEFINE new == [rec[q] EXCEPT !.policy = @ + n]
  <2>2. new \in Records /\ new.state = rec[q].state /\ new.apply = rec[q].apply
    BY <1>2, <1>3, PolicyChanged
  <2>3. Publish(q, new) BY <2>1 DEF RecordPolicy
  <2>. HIDE DEF new
  <2>4. /\ rec'[q].state = rec[q].state /\ rec'[q].apply = rec[q].apply /\ rec'[q] # None
        /\ \A s \in Props \ {q} : rec'[s] = rec[s]
    BY <1>2, <1>3, <2>2, <2>3, PublishKeeps
  <2>5. Succeeded(q) => Succeeded(q)' /\ rec'[q].apply = rec[q].apply BY <2>4 DEF Succeeded
  <2>6. Reporting(cmd[c]) => (cmd'[c].prop = q /\ Reporting(cmd'[c]))
    <3>. SUFFICES ASSUME Reporting(cmd[c]) PROVE cmd'[c].prop = q /\ Reporting(cmd'[c]) OBVIOUS
    <3>1. cmd[c].pc = "policy" /\ ~cmd[c].silent /\ cmd[c].decisions <= 2
      BY <1>1, <1>2 DEF Reporting, Ready
    <3>2. Goto(c, "report")
      <4>1. ~RecordPolicyRefused(q, cmd[c].decisions)
        BY <1>2, <1>3, <2>4, <3>1, RoomForPolicy
      <4>. QED BY <1>3, <3>1, <4>1 DEF Policy, ContextPolicy
    <3>3. Went(c, "report") /\ Unchanged(c) BY <3>2, GotoGoes
    <3>. QED BY <1>3, <3>3 DEF Went, Unchanged, Reporting
  <2>. QED BY <1>2, <1>3, <2>4, <2>5, <2>6, RewriteAttended
<1>5. CASE ~ \E n \in Nat : RecordPolicy(q, n)
  <2>1. PICK n \in {1, cmd[c].decisions} : RecordPolicyRefused(q, n) /\ (Policy(c) => n = cmd[c].decisions)
    BY <1>1, <1>2, <1>3, <1>5 DEF Policy, ContextPolicy
  <2>2. rec' = rec BY <2>1 DEF RecordPolicyRefused
  <2>3. ~Reporting(cmd[c])
    <3>. SUFFICES ASSUME Reporting(cmd[c]) PROVE FALSE OBVIOUS
    <3>1. cmd[c].pc = "policy" /\ cmd[c].decisions <= 2 BY <1>1, <1>2 DEF Reporting, Ready
    <3>2. n = cmd[c].decisions BY <2>1, <3>1 DEF ContextPolicy
    <3>. QED BY <1>2, <1>3, <2>1, <3>1, <3>2, RoomForPolicy
  <2>4. Succeeded(q) => Succeeded(q)' /\ rec'[q].apply = rec[q].apply BY <2>2 DEF Succeeded
  <2>. QED BY <1>2, <1>3, <2>2, <2>3, <2>4, RewriteAttended
<1>. QED BY <1>4, <1>5

LEMMA ReportAttended ==
  ASSUME Inv, Told, [Next]_vars, Roomy, ~IoError, NEW c \in Cmds, cmd[c].prop \notin contested,
         OneMoves(c), Report(c),
         NEW p \in Props \ contested, Attended(p)
  PROVE  Attended(p)'
<1>1. cmd[c].pc = "report" BY DEF Report
<1>2. PICK q \in {cmd[c].prop} : TRUE OBVIOUS
<1>3. /\ q \in Props /\ rec[q] \in Records /\ rec[q] # None /\ cmd[c] \in Commands
      /\ cmd[c].txn \in Txns /\ ~Minding(cmd[c]) /\ ~Undoing(c)
  BY <1>1, <1>2, Running DEF Minding, Engine, Undoing
<1>. DEFINE new == Reported(rec[q], cmd[c])
<1>4. /\ new \in Records /\ new.state = rec[q].state
      /\ cmd[c].op # "apply" => new.apply = rec[q].apply
      /\ cmd[c].op = "apply" => new.apply = [txn |-> cmd[c].txn, success |-> cmd[c].ok]
  BY <1>3, ReportedKeeps
<1>5. Publish(q, new)
  <2>1. Readable(q) BY <1>3 DEF Roomy
  <2>. QED BY <1>2, <2>1 DEF Report
<1>. HIDE DEF new
<1>6. /\ rec'[q].state = rec[q].state /\ rec'[q].apply = new.apply /\ rec'[q] # None
      /\ \A s \in Props \ {q} : rec'[s] = rec[s]
  BY <1>3, <1>4, <1>5, PublishKeeps
<1>7. PICK k \in {cmd[c]} : Knows(k) BY DEF Told
<1>8. Succeeded(q) => Succeeded(q)' /\ rec'[q].apply = rec[q].apply
  <2>1. CASE cmd[c].op = "apply" BY <1>1, <1>2, <1>7, <2>1 DEF Knows, PastApplying
  <2>2. CASE cmd[c].op # "apply" BY <1>4, <1>6, <2>2 DEF Succeeded
  <2>. QED BY <2>1, <2>2
<1>9. Reporting(cmd[c]) => Succeeded(q)'
  <2>. SUFFICES ASSUME Reporting(cmd[c]) PROVE Succeeded(q)' OBVIOUS
  <2>1. rec'[q].apply = [txn |-> cmd[c].txn, success |-> cmd[c].ok] /\ cmd[c].ok
    BY <1>4, <1>6 DEF Reporting
  <2>2. rec'[q].apply # None
    <3>1. rec'[q].apply \in ApplyReports
      <4>1. cmd[c].ok \in BOOLEAN BY <1>3 DEF Commands
      <4>. QED BY <1>3, <2>1, <4>1 DEF ApplyReports
    <3>. QED BY <3>1, RecordAssumption
  <2>. QED BY <1>6, <2>1, <2>2 DEF Succeeded
<1>. QED BY <1>2, <1>3, <1>6, <1>8, <1>9, RewriteAttended

LEMMA CreateAttended ==
  ASSUME Inv, Told, [Next]_vars, ~IoError, NEW c \in Cmds, OneMoves(c), Create(c),
         NEW p \in Props \ contested, Attended(p)
  PROVE  Attended(p)'
<1>1. cmd[c].pc = "create" /\ ~Undoing(c) BY DEF Create, Undoing
<1>2. rec[cmd[c].prop] = None /\ cmd[c].prop \in Props BY <1>1, Running DEF Inv, Good
<1>3. PICK r \in {[state |-> "validated", generations |-> 1, policy |-> 0,
                   verification |-> "none", apply |-> None, rollback |-> "none"]} :
        rec' = [rec EXCEPT ![cmd[c].prop] = r]
  BY DEF Create
<1>4. r.state = "validated" BY <1>3
<1>5. rec \in [Props -> Records \union {None}] BY DEF Inv, TypeOK
<1>6. rec'[cmd[c].prop] = r /\ \A s \in Props \ {cmd[c].prop} : rec'[s] = rec[s]
  BY <1>2, <1>3, <1>5
<1>7. CASE p = cmd[c].prop
  <2>1. rec'[p].state = "validated" BY <1>4, <1>6, <1>7
  <2>. QED BY <2>1, Enters DEF Transient
<1>8. CASE p # cmd[c].prop BY <1>1, <1>6, <1>8, ElsewhereAttended, OnlyUndoing
<1>. QED BY <1>7, <1>8

(* A command writes the record of its own proposal only.                    *)
LEMMA OwnRecord ==
  ASSUME Inv, NEW c \in Cmds, Step(c)
  PROVE  \A p \in Props \ {cmd[c].prop} : rec'[p] = rec[p]
<1>1. rec' = rec \/ \E r : rec' = [rec EXCEPT ![cmd[c].prop] = r]
  <2>1. CASE Create(c) BY <2>1 DEF Create
  <2>2. CASE Report(c) BY <2>2 DEF Report, Publish
  <2>3. ASSUME NEW n, Transition(cmd[c].prop, n) \/ RecordPolicy(cmd[c].prop, n)
        PROVE  \E r : rec' = [rec EXCEPT ![cmd[c].prop] = r]
    BY <2>3 DEF Transition, RecordPolicy, Publish
  <2>. QED BY <2>1, <2>2, <2>3, StoreSteps
<1>2. rec \in [Props -> Records \union {None}] BY DEF Inv, TypeOK
<1>. QED BY <1>1, <1>2

(* A command on a contested proposal disturbs none of the others.           *)
LEMMA ContestedAttended ==
  ASSUME Inv, Told, [Next]_vars, NEW c \in Cmds, OneMoves(c), Step(c), cmd[c].prop \in contested,
         NEW p \in Props \ contested, Attended(p)
  PROVE  Attended(p)'
<1>1. cmd[c].prop # p OBVIOUS
<1>2. rec'[p] = rec[p] BY <1>1, OwnRecord
<1>3. ~ \E d \in Cmds : Undoing(d) /\ d # c BY OnlyUndoing
<1>. QED BY <1>1, <1>2, <1>3, ElsewhereAttended

LEMMA StepTended ==
  ASSUME Inv, Told, [Next]_vars, Roomy, ~IoError, NEW c \in Cmds, Step(c),
         \A d \in Cmds : Ready(cmd[d]), \A p \in Props \ contested : Attended(p)
  PROVE  (\A d \in Cmds : Ready(cmd[d])') /\ \A p \in Props \ contested : Attended(p)'
<1>1. OneMoves(c) /\ Ready(cmd'[c]) BY StepReady
<1>2. \A d \in Cmds : Ready(cmd[d])' BY <1>1 DEF OneMoves, Ready
<1>. SUFFICES \A p \in Props \ contested : Attended(p)' BY <1>2
<1>3. CASE cmd[c].prop \in contested BY <1>1, <1>3, ContestedAttended
<1>. SUFFICES ASSUME cmd[c].prop \notin contested PROVE \A p \in Props \ contested : Attended(p)'
  BY <1>3
<1>4. CASE \/ ObserveFix(c) \/ Load(c) \/ Observe(c) \/ Undone(c) \/ Issue(c) \/ Consume(c)
           \/ Execute(c) \/ Executing(c) \/ Recheck(c) \/ Postcheck(c) \/ Undo(c) \/ Undoing(c)
           \/ Build(c)
  BY <1>1, <1>4, BeforeAttended, EngineAttended, UndoneAttended
<1>5. CASE \/ Discard(c) \/ Expire(c) \/ Retreat(c) \/ Pending(c) \/ Applying(c) \/ Rolling(c)
           \/ Conclude(c) \/ Available(c) \/ Refuse(c) \/ Stage(c)
  BY <1>1, <1>5, EndAttended, ConcludeAttended, StageAttended
<1>6. CASE Policy(c) \/ ContextPolicy(c) \/ Report(c) \/ Create(c)
  BY <1>1, <1>6, PolicyAttended, ReportAttended, CreateAttended
<1>. QED BY <1>4, <1>5, <1>6 DEF Step

(* The steps around the commands.                                           *)
LEMMA StartTended ==
  ASSUME Inv, Told, [Next]_vars, NEW c \in Cmds, NEW q \in Props, NEW op \in Ops, Start(c, q, op),
         \A d \in Cmds : Ready(cmd[d])
  PROVE  /\ \A d \in Cmds : Ready(cmd[d])'
         /\ \A p \in Props \ contested : Attended(p) => Attended(p)'
<1>1. PICK m \in {[Idle EXCEPT !.op = op, !.pc = FirstPc(op), !.prop = q, !.txn = issued']} :
        cmd' = [cmd EXCEPT ![c] = m]
  BY DEF Start
<1>2. m.silent = FALSE /\ m.decisions = 0 /\ m.pc \in {"observe_fix", "discard", "load"} BY <1>1 DEF Idle, FirstPc
<1>3. cmd \in [Cmds -> Commands] BY DEF Inv, TypeOK
<1>4. cmd'[c] = m /\ OneMoves(c) BY <1>1, <1>3 DEF OneMoves
<1>5. Ready(cmd'[c])
  <2>1. cmd'[c].silent = FALSE /\ cmd'[c].decisions = 0 /\ cmd'[c].pc \in {"observe_fix", "discard", "load"}
    BY <1>2, <1>4
  <2>. QED BY <2>1 DEF Ready
<1>6. \A d \in Cmds : Ready(cmd[d])' BY <1>4, <1>5, ZenonT(60) DEF OneMoves, Ready
<1>7. cmd[c].pc = "idle" /\ rec' = rec BY DEF Start, storeVars
<1>8. ~Minding(cmd[c]) /\ ~Reporting(cmd[c]) /\ ~Undoing(c)
  BY <1>7 DEF Minding, Reporting, Engine, Undoing
<1>9. \A d \in Cmds : Undoing(d) => d = c /\ Minding(cmd[c]) BY <1>4, <1>8, OnlyUndoing
<1>. QED BY <1>4, <1>6, <1>7, <1>8, <1>9, LocalAttended

LEMMA CancelTended ==
  ASSUME Inv, Told, [Next]_vars, NEW c \in Cmds, Cancel(c), \A d \in Cmds : Ready(cmd[d])
  PROVE  /\ \A d \in Cmds : Ready(cmd[d])'
         /\ \A p \in Props \ contested : Attended(p) => Attended(p)'
<1>1. cmd \in [Cmds -> Commands] /\ cmd[c] \in Commands BY DEF Inv, TypeOK
<1>2. Went(c, cmd[c].pc) /\ Unchanged(c)
  BY <1>1 DEF Cancel, Went, Unchanged, OneMoves, Commands
<1>3. \A d \in Cmds : Ready(cmd[d])' BY <1>2 DEF Went, Unchanged, OneMoves, Ready
<1>4. rec' = rec /\ txns' = txns BY DEF Cancel, storeVars, engineVars
<1>5. /\ Minding(cmd[c]) <=> Minding(cmd'[c])
      /\ Reporting(cmd[c]) <=> Reporting(cmd'[c])
  BY <1>2 DEF Went, Unchanged, Minding, Reporting
<1>6. ~Undoing(c)
  <2>1. Undoing(c) => cmd[c].pc = "undoing" /\ Went(c, "undone") BY ResultGoes DEF Undoing
  <2>. QED BY <1>2, <2>1 DEF Went
<1>7. \A d \in Cmds : Undoing(d) => d = c /\ Minding(cmd[c]) BY <1>2, <1>6, OnlyUndoing DEF Went
<1>. QED BY <1>2, <1>3, <1>4, <1>5, <1>7, LocalAttended DEF Went

LEMMA AroundTended ==
  ASSUME Inv, Told, [Next]_vars, UNCHANGED <<cmd, rec>>, \A d \in Cmds : Ready(cmd[d])
  PROVE  /\ \A d \in Cmds : Ready(cmd[d])'
         /\ \A p \in Props \ contested : Attended(p) => Attended(p)'
<1>1. \A d \in Cmds : Ready(cmd[d])' BY DEF Ready
<1>2. \A d \in Cmds : ~Undoing(d) BY NoneUndoing
<1>3. ASSUME NEW p \in Props \ contested, Attended(p) PROVE Attended(p)'
  <2>1. CASE rec[p] = None BY <2>1 DEF Attended
  <2>2. CASE rec[p] # None
    <3>1. RolledBack(p) => RolledBack(p)' BY <1>2, <2>2, StaysRolledBack
    <3>2. Succeeded(p) => Succeeded(p)' BY DEF Succeeded
    <3>3. \A s : Waits(s, p) => Waits(s, p)' BY DEF Waits
    <3>. QED BY <1>3, <2>2, <3>1, <3>2, <3>3 DEF Attended
  <2>. QED BY <2>1, <2>2
<1>. QED BY <1>1, <1>3

LEMMA ReadyNext ==
  ASSUME Inv, Told, [Next]_vars, \A d \in Cmds : Ready(cmd[d]) PROVE \A d \in Cmds : Ready(cmd[d])'
<1>1. ASSUME NEW c \in Cmds, Step(c) \/ Crash(c) PROVE \A d \in Cmds : Ready(cmd[d])'
  <2>1. OneMoves(c) /\ Ready(cmd'[c]) BY <1>1, StepReady, Returned DEF Crash
  <2>. QED BY <2>1 DEF OneMoves, Ready
<1>2. CASE UNCHANGED vars \/ UserActs \/ (\E p \in Props : TtlElapses(p)) \/ (\E t \in Txns : Repair(t))
  <2>1. UNCHANGED <<cmd, rec>> BY <1>2 DEF vars, UserActs, TtlElapses, Repair, storeVars
  <2>. QED BY <2>1, AroundTended
<1>. QED BY <1>1, <1>2, StartTended, CancelTended, Steps

(* A proposal stays contested.                                              *)
LEMMA MoreContested == ASSUME [Next]_vars PROVE contested \subseteq contested'
<1>1. ASSUME NEW c, NEW p, NEW op, Start(c, p, op) PROVE contested \subseteq contested'
  BY <1>1 DEF Start
<1>. QED BY <1>1, Steps DEF vars

LEMMA TendedNext == ASSUME Inv, Inv', Told, Tended, [Next]_vars PROVE Tended'
<1>1. \A d \in Cmds : Ready(cmd[d]) BY DEF Tended
<1>2. \A d \in Cmds : Ready(cmd[d])' BY <1>1, ReadyNext
<1>3. ASSUME Calm' PROVE \A p \in Props \ contested : Attended(p)'
  <2>1. Calm BY <1>3, CalmBefore
  <2>2. \A p \in Props \ contested : Attended(p) BY <2>1 DEF Tended
  <2>3. budget \in Budgets BY DEF Inv, TypeOK
  <2>4. ~IoError BY <1>3, <2>3, NoFault DEF Calm
  <2>5. ASSUME NEW c \in Cmds PROVE ~Crash(c)
    BY <1>3, <2>3, SpendMore DEF Calm, Crash
  <2>6. CASE UNCHANGED vars \/ UserActs \/ (\E p \in Props : TtlElapses(p)) \/ (\E t \in Txns : Repair(t))
    <3>1. UNCHANGED <<cmd, rec>> BY <2>6 DEF vars, UserActs, TtlElapses, Repair, storeVars
    <3>. QED BY <1>1, <2>2, <3>1, AroundTended
  <2>7. ASSUME NEW c \in Cmds, Step(c) PROVE \A p \in Props \ contested : Attended(p)'
    BY <1>1, <2>1, <2>2, <2>4, <2>7, StepTended DEF Calm
  <2>. QED BY <1>1, <2>2, <2>5, <2>6, <2>7, StartTended, CancelTended, Steps
<1>4. contested \subseteq contested' BY MoreContested
<1>. QED BY <1>2, <1>3, <1>4 DEF Tended

(* No command ends in a dead end, for any number of proposals, commands,    *)
(* edits, cancellations and repairs, while nothing crashes, no I/O fails    *)
(* and no bound of the store is reached: a state that only a command leaves *)
(* is left by the one that entered it, a rollback whose last checks fail    *)
(* excepted, and a rollback that is offered names its transaction           *)
(* (verify_edit_proposal, apply_verified_proposal, rollback_edit_proposal,  *)
(* record_apply).  Of a proposal on which a command was run twice at once   *)
(* nothing is claimed.                                                      *)
THEOREM NoDeadEndHolds == Spec => []NoDeadEnd
<1>1. Inv /\ Told /\ Tended /\ [Next]_vars => Inv' /\ Told' /\ Tended'
  BY InvNext, ToldNext, TendedNext
<1>2. Inv /\ Tended => NoDeadEnd BY TendedNoDeadEnd
<1>. QED BY <1>1, <1>2, InvInit, ToldInit, TendedInit, PTL DEF Spec

=============================================================================
