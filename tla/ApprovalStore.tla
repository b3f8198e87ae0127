---------------------------- MODULE ApprovalStore ----------------------------
(***************************************************************************)
(* The one-shot approval store (crates/opticcode-policy/src/approval.rs).  *)
(* A grant is a JSON file in active/; `consume` claims it with an exclusive *)
(* `.claim` file, renames it to `-consuming`, compares it with the state    *)
(* the caller observes, and renames it to used/, whatever the comparison    *)
(* said.  Callers are separate processes that share nothing but the files.  *)
(***************************************************************************)
EXTENDS PolicyParameters, Integers, Sequences

CONSTANTS
  Hashes,      \* values of a binding field
  Confirmed,   \* those a user confirms
  MaxTtl,      \* MAX_APPROVAL_TTL_SECONDS, in ticks
  MaxTime,     \* bound on the clock
  MaxCrashes,  \* bound on process crashes
  MaxFaults    \* bound on I/O errors

(* The comparisons of compare_binding, in their order, with the error each  *)
(* one returns.  A field stands for the hashes it compares.                 *)
Checks ==
  << <<"request", "wrong_request">>, <<"workspace", "wrong_workspace">>,
     <<"mode", "wrong_mode">>, <<"head", "head_changed">>,
     <<"tree", "working_tree_changed">>, <<"diff", "diff_changed">>,
     <<"files", "files_changed">>, <<"transaction", "transaction_changed">>,
     <<"actions", "actions_changed">> >>

Fields == {Checks[i][1] : i \in DOMAIN Checks}

Record == [binding : Bindings, issued : Nat, expires : Nat]

ASSUME ApprovalAssumption ==
  /\ Bindings \subseteq [Fields -> Hashes]
  /\ Confirmed \subseteq Bindings
  /\ None \notin Grants /\ None \notin Bindings /\ None \notin Record
  /\ {MaxTtl, MaxTime, MaxCrashes, MaxFaults} \subseteq Nat

VARIABLES
  active,     \* grant -> record in active/, or None
  consuming,  \* grant -> record in used/<id>-consuming.json, or None
  used,       \* grant -> record in used/<id>.json, or None
  claims,     \* grants with a used/<id>.claim file
  now,        \* unix_millis
  pc, loc,    \* each caller's control point and local variables
  answers,    \* history: the comparisons each grant has answered
  crashes, faults

storeVars == <<active, consuming, used, claims>>
vars == <<storeVars, now, pc, loc, answers, crashes, faults>>

Idle == [grant |-> None, observed |-> None, now |-> 0, outcome |-> "none"]

Errors == {"missing", "expired", "reused", "invalid_record"} \union
          {Checks[i][2] : i \in DOMAIN Checks}

Locals == [grant : Grants \union {None}, observed : Bindings \union {None},
           now : Nat, outcome : Errors \union {"none", "consumed"}]

Pcs == {"idle", "check", "present", "claim", "take", "compare", "retire", "return"}

TypeOK ==
  /\ active \in [Grants -> Record \union {None}]
  /\ consuming \in [Grants -> Record \union {None}]
  /\ used \in [Grants -> Record \union {None}]
  /\ claims \subseteq Grants
  /\ now \in Nat
  /\ pc \in [Callers -> Pcs]
  /\ loc \in [Callers -> Locals]
  /\ answers \in [Grants -> Seq(Errors \union {"consumed"})]
  /\ crashes \in Nat /\ faults \in Nat

Init ==
  /\ active = [g \in Grants |-> None]
  /\ consuming = [g \in Grants |-> None]
  /\ used = [g \in Grants |-> None]
  /\ claims = {}
  /\ now = 0
  /\ pc = [c \in Callers |-> "idle"]
  /\ loc = [c \in Callers |-> Idle]
  /\ answers = [g \in Grants |-> <<>>]
  /\ crashes = 0 /\ faults = 0

Unissued(g) ==
  active[g] = None /\ consuming[g] = None /\ used[g] = None /\ g \notin claims

Goto(c, l) == pc' = [pc EXCEPT ![c] = l]

Answer(c, outcome) ==
  /\ Goto(c, "return")
  /\ loc' = [loc EXCEPT ![c].outcome = outcome]

IoError == faults < MaxFaults /\ faults' = faults + 1

-----------------------------------------------------------------------------
Expiry(ttl) == now + ttl

(* issue_at: a bounded TTL; atomic_create publishes the record at once.     *)
Issue(g, b, ttl) ==
  /\ Unissued(g)
  /\ ttl \in 1..MaxTtl
  /\ active' = [active EXCEPT ![g] = [binding |-> b, issued |-> now, expires |-> Expiry(ttl)]]
  /\ UNCHANGED <<consuming, used, claims, now, pc, loc, answers, crashes, faults>>

(* consume: the clock is read once, on entry.                               *)
Consume(c, g, observed) ==
  /\ pc[c] = "idle"
  /\ loc' = [loc EXCEPT ![c] = [Idle EXCEPT !.grant = g, !.observed = observed, !.now = now]]
  /\ Goto(c, "check")
  /\ UNCHANGED <<storeVars, now, answers, crashes, faults>>

(* Is there a claim, a used or a consuming file?                            *)
CheckReused(c) ==
  LET g == loc[c].grant
      reused == g \in claims \/ used[g] # None \/ consuming[g] # None
  IN /\ pc[c] = "check"
     /\ \/ reused /\ Answer(c, "reused")
        \/ ~reused /\ Goto(c, "present") /\ UNCHANGED loc
     /\ UNCHANGED <<storeVars, now, answers, crashes, faults>>

CheckPresent(c) ==
  /\ pc[c] = "present"
  /\ \/ active[loc[c].grant] = None /\ Answer(c, "missing")
     \/ active[loc[c].grant] # None /\ Goto(c, "claim") /\ UNCHANGED loc
  /\ UNCHANGED <<storeVars, now, answers, crashes, faults>>

ClaimOverwritten(g) == FALSE           \* mutant of ClaimExists
ClaimExists(g) == g \in claims

(* create_new on the claim file: exactly one caller creates it.  A failed   *)
(* sync returns an error and leaves the claim behind.                       *)
Claim(c) ==
  LET g == loc[c].grant IN
  /\ pc[c] = "claim"
  /\ \/ /\ ClaimExists(g)
        /\ Answer(c, "reused")
        /\ UNCHANGED <<claims, faults>>
     \/ /\ ~ClaimExists(g)
        /\ claims' = claims \union {g}
        /\ \/ Goto(c, "take") /\ UNCHANGED <<loc, faults>>
           \/ IoError /\ Answer(c, "invalid_record")
     \/ /\ IoError                                      \* open fails
        /\ Answer(c, "invalid_record")
        /\ UNCHANGED claims
  /\ UNCHANGED <<active, consuming, used, now, answers, crashes>>

(* rename(active, consuming).                                               *)
Take(c) ==
  LET g == loc[c].grant IN
  /\ pc[c] = "take"
  /\ \/ /\ active[g] # None
        /\ consuming' = [consuming EXCEPT ![g] = active[g]]
        /\ active' = [active EXCEPT ![g] = None]
        /\ Goto(c, "compare")
        /\ UNCHANGED <<loc, faults>>
     \/ /\ active[g] = None
        /\ Answer(c, "reused")
        /\ UNCHANGED <<active, consuming, faults>>
     \/ /\ IoError
        /\ Answer(c, "invalid_record")
        /\ UNCHANGED <<active, consuming>>
  /\ UNCHANGED <<used, claims, now, answers, crashes>>

(* compare_binding: the error of the first field that differs.              *)
ActionsNotCompared(expected, observed) ==    \* mutant of Mismatches
  {i \in DOMAIN Checks \ {9} : expected[Checks[i][1]] # observed[Checks[i][1]]}

Mismatches(expected, observed) ==
  {i \in DOMAIN Checks : expected[Checks[i][1]] # observed[Checks[i][1]]}

CompareBinding(expected, observed) ==
  LET bad == Mismatches(expected, observed)
  IN IF bad = {} THEN "consumed"
     ELSE Checks[CHOOSE i \in bad : \A j \in bad : i <= j][2]

(* The outcome of a readable record: its own consistency, its age, then the *)
(* binding.                                                                 *)
Judge(record, l) ==
  IF record.expires < record.issued THEN "invalid_record"
  ELSE IF l.now > record.expires THEN "expired"
  ELSE CompareBinding(record.binding, l.observed)

Compare(c) ==
  LET g == loc[c].grant
      outcome == Judge(consuming[g], loc[c])
  IN /\ pc[c] = "compare"
     /\ \/ /\ loc' = [loc EXCEPT ![c].outcome = outcome]
           /\ answers' = [answers EXCEPT ![g] = Append(@, outcome)]
           /\ UNCHANGED faults
        \/ /\ IoError                                   \* read_record or normalized fails
           /\ loc' = [loc EXCEPT ![c].outcome = "invalid_record"]
           /\ answers' = [answers EXCEPT ![g] = Append(@, "invalid_record")]
     /\ Goto(c, "retire")
     /\ UNCHANGED <<storeVars, now, crashes>>

(* rename(consuming, used), whatever the outcome: "drift must never turn    *)
(* into a retry oracle".                                                    *)
Retire(c) ==
  LET g == loc[c].grant IN
  /\ pc[c] = "retire"
  /\ \/ /\ used' = [used EXCEPT ![g] = consuming[g]]
        /\ consuming' = [consuming EXCEPT ![g] = None]
        /\ Goto(c, "return")
        /\ UNCHANGED <<loc, faults>>
     \/ /\ IoError
        /\ Answer(c, "invalid_record")
        /\ UNCHANGED <<used, consuming>>
  /\ UNCHANGED <<active, claims, now, answers, crashes>>

Return(c) ==
  /\ pc[c] = "return"
  /\ Goto(c, "idle")
  /\ loc' = [loc EXCEPT ![c] = Idle]
  /\ UNCHANGED <<storeVars, now, answers, crashes, faults>>

-----------------------------------------------------------------------------
Crash(c) ==
  /\ pc[c] # "idle"
  /\ crashes < MaxCrashes
  /\ crashes' = crashes + 1
  /\ Goto(c, "idle")
  /\ loc' = [loc EXCEPT ![c] = Idle]
  /\ UNCHANGED <<storeVars, now, answers, faults>>

Tick ==
  /\ now < MaxTime
  /\ now' = now + 1
  /\ UNCHANGED <<storeVars, pc, loc, answers, crashes, faults>>

Step(c) == CheckReused(c) \/ CheckPresent(c) \/ Claim(c) \/ Take(c) \/ Compare(c)
           \/ Retire(c) \/ Return(c)

Next ==
  \/ \E g \in Grants, b \in Confirmed, ttl \in 1..MaxTtl : Issue(g, b, ttl)
  \/ \E c \in Callers :
       \/ \E g \in Grants, b \in Bindings : Consume(c, g, b)
       \/ Step(c) \/ Crash(c)
  \/ Tick

Spec == Init /\ [][Next]_vars

-----------------------------------------------------------------------------
(* Properties.                                                              *)

(* However many callers race for a grant, crash and retry, its binding is   *)
(* compared with an observed state at most once: a wrong guess is not a     *)
(* second chance (consume_at, the comment before the last rename).          *)
SingleAnswer == \A g \in Grants : Len(answers[g]) <= 1

(* A caller is told `consumed` only if the user confirmed exactly the state *)
(* it observes, in every field, and had confirmed it recently enough when   *)
(* the call was made; and no other caller was ever told so.                 *)
ConsumedIsBound ==
  \A c \in Callers :
    pc[c] = "return" /\ loc[c].outcome = "consumed" =>
      LET g == loc[c].grant IN
      /\ used[g] # None
      /\ used[g].binding = loc[c].observed
      /\ loc[c].now <= used[g].expires
      /\ \A d \in Callers \ {c} : loc[d].grant = g => loc[d].outcome # "consumed"

(* The abstract grant.  It is spent once compared, or once claimed with     *)
(* nobody left to compare it.                                               *)
InFlight(g) == \E c \in Callers : loc[c].grant = g /\ pc[c] \in {"take", "compare"}

AbstractStatus ==
  [g \in Grants |->
     IF Unissued(g) THEN "unissued"
     ELSE IF answers[g] # <<>>
       THEN IF answers[g][1] = "consumed" THEN "granted" ELSE "refused"
     ELSE IF g \in claims /\ ~InFlight(g) THEN "lost" ELSE "available"]

RecordOf(g) ==
  IF active[g] # None THEN active[g]
  ELSE IF consuming[g] # None THEN consuming[g] ELSE used[g]

AbstractBound ==
  [g \in Grants |-> IF RecordOf(g) = None THEN None ELSE RecordOf(g).binding]

Abstract == INSTANCE OneShotGrant
              WITH NoBinding <- None, status <- AbstractStatus, bound <- AbstractBound

(* The store implements the one-shot grant.                                 *)
ImplementsOneShot == Abstract!Spec
=============================================================================
