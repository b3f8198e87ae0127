---------------------------- MODULE PolicyProofs ----------------------------
(* The crate opticcode-policy.                                              *)
(*                                                                          *)
(* ApprovalStore: the one-shot properties, and that the store keeps what    *)
(* OneShotGrant promises, for any number of callers, grants, bindings,      *)
(* crashes and I/O errors.                                                  *)
(*                                                                          *)
(* PolicyRules and PolicyEngine: what executes was authorized, for any      *)
(* number of callers, grants, requests, crashes and changes of the          *)
(* workspace, and any tree of directories, runs and leases.  The rules of   *)
(* evaluate are read backwards from a decision that allows; a call keeps    *)
(* what the evaluation found until it is answered, and no caller's step     *)
(* touches the call of another.                                             *)
EXTENDS ApprovalStore, PolicyEngine, TLAPS, FiniteSetTheorems, NaturalsInduction,
        WellFoundedInduction

-----------------------------------------------------------------------------
(* The approval store.                                                      *)

(* The caller that created the claim file and has not given up.             *)
Holds(c, g) == loc[c].grant = g /\ pc[c] \in {"take", "compare", "retire"}

(* A caller that holds the claim, or was told that it consumed the grant.   *)
Owns(c, g) == Holds(c, g) \/ (loc[c].grant = g /\ loc[c].outcome = "consumed")

(* Why the grant is compared once: a claim has at most one owner, the owner *)
(* compares once, and nothing is answered before the claim.                 *)
CallsTyped ==
  \A c \in Callers : pc[c] # "idle" => loc[c].grant \in Grants /\ loc[c].observed \in Bindings
ConsumedLate ==
  \A c \in Callers : loc[c].outcome = "consumed" => pc[c] \in {"retire", "return"}
OwnersClaim == \A c \in Callers, g \in Grants : Owns(c, g) => g \in claims
OneOwner == \A c, d \in Callers, g \in Grants : Owns(c, g) /\ Owns(d, g) => c = d
AnswersClaimed == \A g \in Grants : g \notin claims => answers[g] = <<>>
Unanswered ==
  \A c \in Callers : pc[c] \in {"take", "compare"} => answers[loc[c].grant] = <<>>
Taken == \A c \in Callers : pc[c] \in {"compare", "retire"} => consuming[loc[c].grant] # None

Ownership ==
  /\ CallsTyped /\ ConsumedLate /\ OwnersClaim /\ OneOwner
  /\ AnswersClaimed /\ Unanswered /\ Taken

(* What a caller told `consumed` has compared.                              *)
Matches(record, l) ==
  record # None /\ record.binding = l.observed /\ l.now <= record.expires

Bound ==
  \A c \in Callers : loc[c].outcome = "consumed" =>
    /\ pc[c] = "retire" => Matches(consuming[loc[c].grant], loc[c])
    /\ pc[c] = "return" => Matches(used[loc[c].grant], loc[c])

Inv == TypeOK /\ Ownership /\ Bound /\ SingleAnswer

(* The nine comparisons of compare_binding cover every field, and none of   *)
(* their errors reads as success.                                           *)
LEMMA ChecksFacts ==
  /\ DOMAIN Checks = 1..9
  /\ \A i \in 1..9 : Checks[i][2] \in Errors /\ Checks[i][2] # "consumed"
  /\ "consumed" \notin Errors
BY DEF Checks, Errors

(* A nonempty set of comparisons has a first one.                           *)
LEMMA FirstCheck ==
  ASSUME NEW S, S \subseteq 1..9, S # {}
  PROVE  LET i == CHOOSE i \in S : \A j \in S : i <= j IN i \in S
<1>1. \A i \in S : i \in {1, 2, 3, 4, 5, 6, 7, 8, 9}
  OBVIOUS
<1>2. \E i \in S : \A j \in S : i <= j
  <2>. SUFFICES ASSUME \A i \in S : \E j \in S : j < i
                PROVE  FALSE
    BY <1>1
  <2>1. 1 \notin S BY <1>1
  <2>2. 2 \notin S BY <1>1, <2>1
  <2>3. 3 \notin S BY <1>1, <2>1, <2>2
  <2>4. 4 \notin S BY <1>1, <2>1, <2>2, <2>3
  <2>5. 5 \notin S BY <1>1, <2>1, <2>2, <2>3, <2>4
  <2>6. 6 \notin S BY <1>1, <2>1, <2>2, <2>3, <2>4, <2>5
  <2>7. 7 \notin S BY <1>1, <2>1, <2>2, <2>3, <2>4, <2>5, <2>6
  <2>8. 8 \notin S BY <1>1, <2>1, <2>2, <2>3, <2>4, <2>5, <2>6, <2>7
  <2>9. 9 \notin S BY <1>1, <2>1, <2>2, <2>3, <2>4, <2>5, <2>6, <2>7, <2>8
  <2>. QED BY <1>1, <2>1, <2>2, <2>3, <2>4, <2>5, <2>6, <2>7, <2>8, <2>9
<1>. QED BY <1>2

LEMMA CompareBindingType ==
  ASSUME NEW e \in Bindings, NEW o \in Bindings
  PROVE  /\ CompareBinding(e, o) \in Errors \union {"consumed"}
         /\ CompareBinding(e, o) = "consumed" => Mismatches(e, o) = {}
<1>1. Mismatches(e, o) \subseteq 1..9
  BY ChecksFacts DEF Mismatches
<1>2. CASE Mismatches(e, o) = {}
  BY <1>2 DEF CompareBinding
<1>3. CASE Mismatches(e, o) # {}
  <2>. DEFINE bad == Mismatches(e, o)
              i == CHOOSE i \in bad : \A j \in bad : i <= j
  <2>1. i \in bad
    BY <1>1, <1>3, FirstCheck
  <2>2. CompareBinding(e, o) = Checks[i][2]
    BY <1>3 DEF CompareBinding
  <2>. HIDE DEF i
  <2>. QED BY <1>1, <2>1, <2>2, ChecksFacts
<1>. QED BY <1>2, <1>3

LEMMA JudgeType ==
  ASSUME NEW r \in Record, NEW l \in Locals, l.observed \in Bindings
  PROVE  Judge(r, l) \in Errors \union {"consumed"}
BY CompareBindingType DEF Judge, Record, Errors

(* compare_binding accepts a binding only if it is the recorded one.        *)
LEMMA CompareBindingExact ==
  ASSUME NEW e \in Bindings, NEW o \in Bindings, CompareBinding(e, o) = "consumed"
  PROVE  e = o
<1>1. Mismatches(e, o) = {}
  BY CompareBindingType
<1>2. \A f \in Fields : e[f] = o[f]
  BY <1>1, ChecksFacts DEF Mismatches, Fields
<1>. QED BY <1>2, ApprovalAssumption

-----------------------------------------------------------------------------
LEMMA TypeInit == Init => TypeOK
BY DEF Init, TypeOK, Idle, Locals, Pcs

LEMMA InvInit == Init => Inv
BY TypeInit DEF Init, Inv, Ownership, CallsTyped, ConsumedLate, OwnersClaim, OneOwner,
                    AnswersClaimed, Unanswered, Taken, Bound, SingleAnswer, Owns, Holds, Idle

(* Every step preserves the types; Compare needs the record it reads and    *)
(* the observed binding to be there.                                        *)
LEMMA TypeNext == TypeOK /\ Ownership /\ [Next]_vars => TypeOK'
<1>. SUFFICES ASSUME TypeOK, Ownership, [Next]_vars PROVE TypeOK'
  OBVIOUS
<1>. USE DEF TypeOK
<1>1. ASSUME NEW g \in Grants, NEW b \in Confirmed, NEW ttl \in 1..MaxTtl, Issue(g, b, ttl)
      PROVE  TypeOK'
  <2>1. [binding |-> b, issued |-> now, expires |-> now + ttl] \in Record
    BY ApprovalAssumption DEF Record, Expiry
  <2>. QED BY <1>1, <2>1 DEF Issue, Expiry
<1>2. ASSUME NEW c \in Callers, NEW g \in Grants, NEW b \in Bindings, Consume(c, g, b)
      PROVE  TypeOK'
  BY <1>2 DEF Consume, Goto, storeVars, Locals, Idle, Pcs
<1>3. ASSUME NEW c \in Callers, Step(c)
      PROVE  TypeOK'
  <2>. USE DEF storeVars
  <2>0. {"missing", "reused", "invalid_record"} \subseteq Errors
    BY DEF Errors
  <2>l. \A o \in Errors \union {"consumed"} :
          loc' = [loc EXCEPT ![c].outcome = o] => loc' \in [Callers -> Locals]
    <3>. TAKE o \in Errors \union {"consumed"}
    <3>1. [loc[c] EXCEPT !.outcome = o] \in Locals BY DEF Locals
    <3>. QED BY <3>1
  <2>p. \A l \in Pcs : Goto(c, l) => pc' \in [Callers -> Pcs]
    BY DEF Goto
  <2>q. {"idle", "present", "claim", "take", "compare", "retire", "return"} \subseteq Pcs
    BY DEF Pcs
  <2>a. \A o \in Errors : Answer(c, o) => pc' \in [Callers -> Pcs] /\ loc' \in [Callers -> Locals]
    BY <2>l, <2>p, <2>q DEF Answer
  <2>f. IoError => faults' \in Nat
    BY DEF IoError
  <2>1. CASE CheckReused(c)
    <3>1. pc' \in [Callers -> Pcs] /\ loc' \in [Callers -> Locals]
      BY <2>1, <2>0, <2>a, <2>p, <2>q DEF CheckReused
    <3>. QED BY <2>1, <3>1 DEF CheckReused
  <2>2. CASE CheckPresent(c)
    <3>1. pc' \in [Callers -> Pcs] /\ loc' \in [Callers -> Locals]
      BY <2>2, <2>0, <2>a, <2>p, <2>q DEF CheckPresent
    <3>. QED BY <2>2, <3>1 DEF CheckPresent
  <2>3. CASE Claim(c)
    <3>1. loc[c].grant \in Grants BY <2>3 DEF Claim, ClaimExists, Ownership, CallsTyped
    <3>2. pc' \in [Callers -> Pcs] /\ loc' \in [Callers -> Locals]
      BY <2>3, <2>0, <2>a, <2>p, <2>q DEF Claim, ClaimExists
    <3>3. claims' \subseteq Grants /\ faults' \in Nat
      BY <2>3, <2>f, <3>1 DEF Claim, ClaimExists
    <3>. QED BY <2>3, <3>2, <3>3 DEF Claim, ClaimExists
  <2>4. CASE Take(c)
    <3>1. loc[c].grant \in Grants BY <2>4 DEF Take, Ownership, CallsTyped
    <3>2. active' \in [Grants -> Record \union {None}]
      BY <2>4, <3>1 DEF Take
    <3>3. consuming' \in [Grants -> Record \union {None}]
      BY <2>4, <3>1 DEF Take
    <3>4. pc' \in [Callers -> Pcs] /\ loc' \in [Callers -> Locals]
      BY <2>4, <2>0, <2>a, <2>p, <2>q DEF Take
    <3>5. faults' \in Nat BY <2>4, <2>f DEF Take
    <3>. QED BY <2>4, <3>2, <3>3, <3>4, <3>5 DEF Take
  <2>5. CASE Compare(c)
    <3>1. loc[c].grant \in Grants /\ loc[c].observed \in Bindings
          /\ consuming[loc[c].grant] \in Record
      BY <2>5 DEF Compare, Ownership, CallsTyped, Taken
    <3>2. Judge(consuming[loc[c].grant], loc[c]) \in Errors \union {"consumed"}
      BY <3>1, JudgeType
    <3>3. PICK o \in Errors \union {"consumed"} :
            /\ loc' = [loc EXCEPT ![c].outcome = o]
            /\ answers' = [answers EXCEPT ![loc[c].grant] = Append(@, o)]
      BY <2>5, <2>0, <3>2 DEF Compare
    <3>4. answers' \in [Grants -> Seq(Errors \union {"consumed"})]
      BY <3>1, <3>3
    <3>5. pc' \in [Callers -> Pcs] BY <2>5, <2>p, <2>q DEF Compare
    <3>6. loc' \in [Callers -> Locals] BY <3>3, <2>l
    <3>7. faults' \in Nat BY <2>5, <2>f DEF Compare
    <3>. QED BY <2>5, <3>4, <3>5, <3>6, <3>7 DEF Compare
  <2>6. CASE Retire(c)
    <3>1. loc[c].grant \in Grants BY <2>6 DEF Retire, Ownership, CallsTyped
    <3>2. used' \in [Grants -> Record \union {None}]
      BY <2>6, <3>1 DEF Retire
    <3>3. consuming' \in [Grants -> Record \union {None}]
      BY <2>6, <3>1 DEF Retire
    <3>4. pc' \in [Callers -> Pcs] /\ loc' \in [Callers -> Locals]
      BY <2>6, <2>0, <2>a, <2>p, <2>q DEF Retire
    <3>5. faults' \in Nat BY <2>6, <2>f DEF Retire
    <3>. QED BY <2>6, <3>2, <3>3, <3>4, <3>5 DEF Retire
  <2>7. CASE Return(c) BY <2>7 DEF Return, Goto, Idle, Locals, Pcs
  <2>. QED BY <1>3, <2>1, <2>2, <2>3, <2>4, <2>5, <2>6, <2>7 DEF Step
<1>4. ASSUME NEW c \in Callers, Crash(c)
      PROVE  TypeOK'
  BY <1>4 DEF Crash, Goto, storeVars, Locals, Idle, Pcs
<1>5. CASE Tick BY <1>5 DEF Tick, storeVars
<1>6. CASE UNCHANGED vars BY <1>6 DEF vars, storeVars
<1>. QED BY <1>1, <1>2, <1>3, <1>4, <1>5, <1>6 DEF Next

(* A call's own steps leave the other callers alone and never change what   *)
(* the call is about.                                                       *)
LEMMA StepLocal ==
  ASSUME TypeOK, NEW c \in Callers, Step(c), pc[c] # "return"
  PROVE  /\ \A d \in Callers : d # c => pc'[d] = pc[d] /\ loc'[d] = loc[d]
         /\ loc'[c].grant = loc[c].grant
         /\ loc'[c].observed = loc[c].observed
         /\ loc'[c].now = loc[c].now
BY DEF Step, CheckReused, CheckPresent, Claim, ClaimExists, Take, Compare, Retire, Return, Answer, Goto,
       TypeOK, Locals, Pcs

(* Every step keeps claims exclusive.                                       *)
LEMMA OwnershipNext == TypeOK /\ Ownership /\ [Next]_vars => Ownership'
<1>. SUFFICES ASSUME TypeOK, Ownership, [Next]_vars PROVE Ownership'
  OBVIOUS
<1>. USE DEF Ownership
<1>1. ASSUME NEW g \in Grants, NEW b \in Confirmed, NEW ttl \in 1..MaxTtl, Issue(g, b, ttl)
      PROVE  Ownership'
  BY <1>1 DEF Issue, CallsTyped, ConsumedLate, OwnersClaim, OneOwner, AnswersClaimed,
              Unanswered, Taken, Owns, Holds
<1>2. ASSUME NEW c \in Callers, NEW g \in Grants, NEW b \in Bindings, Consume(c, g, b)
      PROVE  Ownership'
  BY <1>2 DEF Consume, Goto, storeVars, TypeOK, Locals, Idle, CallsTyped, ConsumedLate,
              OwnersClaim, OneOwner, AnswersClaimed, Unanswered, Taken, Owns, Holds
<1>3. ASSUME NEW c \in Callers, Step(c), pc[c] # "return"
      PROVE  Ownership'
  <2>. DEFINE g == loc[c].grant
  <2>. USE DEF Step, CheckReused, CheckPresent, Claim, ClaimExists, Take, Compare, Retire, Return
  <2>1. /\ \A d \in Callers : d # c => pc'[d] = pc[d] /\ loc'[d] = loc[d]
        /\ loc'[c].grant = g
        /\ loc'[c].observed = loc[c].observed
    BY <1>3, StepLocal
  <2>2. pc[c] # "idle" /\ g \in Grants /\ g # None
    BY <1>3, ApprovalAssumption DEF CallsTyped
  <2>3. CallsTyped'
    BY <2>1, <2>2 DEF CallsTyped
  <2>4. ConsumedLate'
    BY <1>3, <2>1 DEF ConsumedLate, Goto, Answer, TypeOK, Locals
  <2>5. /\ claims \subseteq claims'
        /\ pc'[c] = "take" => g \in claims' /\ g \notin claims
    BY <1>3, <2>1 DEF Goto, Answer, TypeOK, storeVars
  <2>6. /\ pc'[c] \in {"compare", "retire"} => pc[c] \in {"take", "compare", "retire"}
        /\ loc'[c].outcome = "consumed" =>
             pc[c] \in {"compare", "retire"} \/ loc[c].outcome = "consumed"
    BY <1>3, <2>1 DEF Goto, Answer, TypeOK, Locals
  <2>7. \A d \in Callers, h \in Grants : Owns(d, h)' =>
           Owns(d, h) \/ (d = c /\ h = g /\ g \notin claims /\ g \in claims')
    BY <2>1, <2>2, <2>5, <2>6 DEF Owns, Holds
  <2>8. OwnersClaim' BY <2>5, <2>7 DEF OwnersClaim
  <2>9. OneOwner' BY <2>7 DEF OneOwner, OwnersClaim
  <2>10. \A h \in Grants : answers'[h] # answers[h] =>
           /\ h = g /\ pc[c] = "compare" /\ pc'[c] = "retire"
    BY <1>3, <2>1 DEF Goto, Answer, TypeOK, storeVars
  <2>11. pc[c] = "compare" => Owns(c, g)
    BY DEF Owns, Holds
  <2>12. AnswersClaimed'
    BY <2>2, <2>5, <2>10, <2>11 DEF AnswersClaimed, OwnersClaim
  <2>13. Unanswered'
    <3>. SUFFICES ASSUME NEW d \in Callers, pc'[d] \in {"take", "compare"}
                  PROVE  answers'[loc'[d].grant] = <<>>
      BY DEF Unanswered
    <3>1. CASE d = c
      <4>1. pc[c] = "claim" \/ pc[c] = "take"
        BY <1>3, <3>1, <2>1 DEF Goto, Answer, TypeOK
      <4>2. answers[g] = <<>>
        BY <2>2, <2>5, <4>1, <3>1, <1>3 DEF Unanswered, AnswersClaimed, Goto, Answer, TypeOK
      <4>. QED BY <2>1, <2>2, <2>10, <4>1, <4>2, <3>1
    <3>2. CASE d # c
      <4>1. loc[d].grant \in Grants /\ Owns(d, loc[d].grant)
        BY <3>2, <2>1 DEF CallsTyped, Owns, Holds
      <4>2. answers[loc[d].grant] = <<>>
        BY <3>2, <2>1 DEF Unanswered
      <4>. QED BY <3>2, <2>1, <2>2, <2>10, <2>11, <4>1, <4>2 DEF OneOwner
    <3>. QED BY <3>1, <3>2
  <2>14. Taken'
    <3>. SUFFICES ASSUME NEW d \in Callers, pc'[d] \in {"compare", "retire"}
                  PROVE  consuming'[loc'[d].grant] # None
      BY DEF Taken
    <3>1. \A h \in Grants : consuming'[h] # consuming[h] =>
            h = g /\ pc[c] \in {"take", "retire"}
      BY <1>3, <2>1 DEF Goto, Answer, TypeOK, storeVars
    <3>2. CASE d = c
      <4>1. CASE pc[c] = "take"
        <5>1. pc'[c] = "compare" /\ consuming' = [consuming EXCEPT ![g] = active[g]]
              /\ active[g] # None
          BY <4>1, <1>3, <3>2, <2>1 DEF Goto, Answer, TypeOK
        <5>. QED BY <5>1, <3>2, <2>1, <2>2 DEF TypeOK
      <4>2. CASE pc[c] # "take"
        <5>1. pc[c] = "compare" /\ pc'[c] = "retire"
          BY <4>2, <1>3, <3>2, <2>1 DEF Goto, Answer, TypeOK
        <5>. QED BY <5>1, <3>1, <3>2, <2>1, <2>2 DEF Taken
      <4>. QED BY <4>1, <4>2
    <3>3. CASE d # c
      <4>1. loc[d].grant \in Grants /\ Owns(d, loc[d].grant) /\ consuming[loc[d].grant] # None
        BY <3>3, <2>1 DEF CallsTyped, Owns, Holds, Taken
      <4>2. pc[c] \in {"take", "retire"} => Owns(c, g)
        BY DEF Owns, Holds
      <4>. QED BY <3>3, <2>1, <2>2, <3>1, <4>1, <4>2 DEF OneOwner
    <3>. QED BY <3>2, <3>3
  <2>. QED BY <2>3, <2>4, <2>8, <2>9, <2>12, <2>13, <2>14
<1>4. ASSUME NEW c \in Callers, Return(c) \/ Crash(c)
      PROVE  Ownership'
  <2>1. /\ \A d \in Callers : d # c => pc'[d] = pc[d] /\ loc'[d] = loc[d]
        /\ pc'[c] = "idle" /\ loc'[c].grant = None /\ loc'[c].outcome = "none"
        /\ UNCHANGED <<storeVars, answers>>
    BY <1>4 DEF Return, Crash, Goto, TypeOK, Idle
  <2>2. \A d \in Callers, h \in Grants : Owns(d, h)' => Owns(d, h)
    BY <2>1 DEF Owns, Holds
  <2>3. CallsTyped' /\ ConsumedLate' /\ Unanswered' /\ Taken'
    BY <2>1 DEF CallsTyped, ConsumedLate, Unanswered, Taken, storeVars
  <2>. QED BY <2>1, <2>2, <2>3 DEF OwnersClaim, OneOwner, AnswersClaimed, storeVars
<1>5. CASE Tick \/ UNCHANGED vars
  BY <1>5 DEF Tick, vars, storeVars, CallsTyped, ConsumedLate, OwnersClaim, OneOwner,
              AnswersClaimed, Unanswered, Taken, Owns, Holds
<1>6. ASSUME NEW c \in Callers, Step(c), pc[c] = "return"
      PROVE  Return(c)
  BY <1>6 DEF Step, CheckReused, CheckPresent, Claim, ClaimExists, Take, Compare, Retire
<1>. QED BY <1>1, <1>2, <1>3, <1>4, <1>5, <1>6 DEF Next

(* Every step keeps what a `consumed` answer rests on.                      *)
LEMMA BoundNext == TypeOK /\ Ownership /\ Bound /\ [Next]_vars => Bound'
<1>. SUFFICES ASSUME TypeOK, Ownership, Bound, [Next]_vars,
                     NEW c \in Callers, loc'[c].outcome = "consumed"
              PROVE  /\ pc'[c] = "retire" => Matches(consuming'[loc'[c].grant], loc'[c])
                     /\ pc'[c] = "return" => Matches(used'[loc'[c].grant], loc'[c])
  BY DEF Bound, Matches
<1>1. CASE UNCHANGED <<pc[c], loc[c]>>
  <2>. DEFINE g == loc[c].grant
  <2>1. pc[c] \in {"retire", "return"} /\ g \in Grants /\ Owns(c, g)
    BY <1>1 DEF Ownership, ConsumedLate, CallsTyped, Owns
  <2>2. consuming'[g] = consuming[g] /\ used'[g] = used[g]
    <3>1. ASSUME NEW d \in Callers, Take(d) \/ Retire(d)
          PROVE  loc[d].grant \in Grants /\ loc[d].grant # g
      <4>1. d # c /\ loc[d].grant \in Grants /\ Owns(d, loc[d].grant)
        BY <3>1, <2>1, <1>1 DEF Take, Retire, Goto, Answer, TypeOK, Ownership, CallsTyped, Owns, Holds
      <4>. QED BY <4>1, <2>1 DEF Ownership, OneOwner
    <3>2. CASE \E d \in Callers : Take(d) \/ Retire(d)
      BY <3>1, <3>2, <2>1 DEF Take, Retire, TypeOK
    <3>3. CASE ~ \E d \in Callers : Take(d) \/ Retire(d)
      BY <3>3 DEF Next, Step, Issue, Consume, CheckReused, CheckPresent, Claim, ClaimExists, Compare, Return,
                  Crash, Tick, vars, storeVars
    <3>. QED BY <3>2, <3>3
  <2>. QED BY <1>1, <2>2 DEF Bound
<1>2. CASE Compare(c)
  <2>1. /\ pc'[c] = "retire" /\ UNCHANGED <<storeVars, loc[c].grant, loc[c].observed, loc[c].now>>
        /\ loc'[c].outcome = Judge(consuming[loc[c].grant], loc[c])
    BY <1>2 DEF Compare, Goto, TypeOK, Locals
  <2>. DEFINE r == consuming[loc[c].grant]
  <2>2. r \in Record /\ r # None /\ loc[c].observed \in Bindings /\ loc[c].now \in Nat
    BY <1>2 DEF Compare, TypeOK, Locals, Ownership, CallsTyped, Taken
  <2>3. loc[c].now <= r.expires /\ CompareBinding(r.binding, loc[c].observed) = "consumed"
    BY <2>1, <2>2 DEF Judge, Record
  <2>4. r.binding = loc[c].observed
    BY <2>2, <2>3, CompareBindingExact DEF Record
  <2>. QED BY <2>1, <2>2, <2>3, <2>4 DEF Matches, storeVars
<1>3. CASE Retire(c)
  <2>1. /\ UNCHANGED loc /\ pc'[c] = "return" /\ pc[c] = "retire"
        /\ used' = [used EXCEPT ![loc[c].grant] = consuming[loc[c].grant]]
    BY <1>3 DEF Retire, Goto, Answer, TypeOK, Locals
  <2>2. loc[c].grant \in Grants
    BY <2>1 DEF Ownership, CallsTyped
  <2>. QED BY <2>1, <2>2 DEF Bound, TypeOK
<1>4. CASE ~ (UNCHANGED <<pc[c], loc[c]>> \/ Compare(c) \/ Retire(c))
  <2>1. ASSUME NEW d \in Callers, Step(d) \/ Crash(d) \/ \E g \in Grants, b \in Bindings : Consume(d, g, b)
        PROVE  d = c
    BY <2>1, <1>4 DEF Step, CheckReused, CheckPresent, Claim, ClaimExists, Take, Compare, Retire, Return, Crash,
                      Consume, Goto, Answer, TypeOK
  <2>2. ASSUME CheckReused(c) \/ CheckPresent(c) \/ Claim(c) \/ Take(c)
        PROVE  loc'[c].outcome # "consumed"
    <3>1. loc[c].outcome # "consumed"
      BY <2>2 DEF Ownership, ConsumedLate, CheckReused, CheckPresent, Claim, ClaimExists, Take
    <3>. QED BY <2>2, <3>1 DEF CheckReused, CheckPresent, Claim, ClaimExists, Take, Answer, TypeOK, Locals
  <2>3. ASSUME Return(c) \/ Crash(c) \/ \E g \in Grants, b \in Bindings : Consume(c, g, b)
        PROVE  loc'[c].outcome # "consumed"
    <3>1. Return(c) \/ Crash(c) => loc'[c] = Idle
      BY DEF Return, Crash, TypeOK
    <3>2. ASSUME NEW g \in Grants, NEW b \in Bindings, Consume(c, g, b)
          PROVE  loc'[c].outcome = "none"
      BY <3>2 DEF Consume, TypeOK, Idle
    <3>. QED BY <2>3, <3>1, <3>2 DEF Idle
  <2>4. \/ Step(c) \/ Crash(c) \/ \E g \in Grants, b \in Bindings : Consume(c, g, b)
    <3>1. ~ UNCHANGED <<pc, loc>> BY <1>4
    <3>2. \E d \in Callers : \/ Step(d) \/ Crash(d)
                             \/ \E g \in Grants, b \in Bindings : Consume(d, g, b)
      BY <3>1 DEF Next, Issue, Tick, vars
    <3>. QED BY <3>2, <2>1
  <2>. QED BY <1>4, <2>2, <2>3, <2>4 DEF Step
<1>. QED BY <1>1, <1>2, <1>3, <1>4

(* A grant is answered by the holder of its claim, which has not answered   *)
(* it yet.                                                                  *)
LEMMA SingleAnswerNext == TypeOK /\ Ownership /\ SingleAnswer /\ [Next]_vars => SingleAnswer'
<1>. SUFFICES ASSUME TypeOK, Ownership, SingleAnswer, [Next]_vars, NEW g \in Grants
              PROVE  Len(answers'[g]) <= 1
  BY DEF SingleAnswer
<1>1. CASE UNCHANGED answers
  BY <1>1 DEF SingleAnswer
<1>2. ASSUME NEW c \in Callers, Compare(c) PROVE Len(answers'[g]) <= 1
  <2>1. loc[c].grant \in Grants /\ answers[loc[c].grant] = <<>>
    BY <1>2 DEF Compare, Ownership, CallsTyped, Unanswered
  <2>2. \E o : answers' = [answers EXCEPT ![loc[c].grant] = Append(<<>>, o)]
    BY <1>2, <2>1 DEF Compare
  <2>. QED BY <2>1, <2>2 DEF SingleAnswer, TypeOK
<1>. QED
  BY <1>1, <1>2 DEF Next, Step, Issue, Consume, CheckReused, CheckPresent, Claim, ClaimExists, Take, Retire,
                    Return, Crash, Tick, vars

LEMMA InvNext == Inv /\ [Next]_vars => Inv'
BY TypeNext, OwnershipNext, BoundNext, SingleAnswerNext DEF Inv

LEMMA InvAlways == Spec => []Inv
BY InvInit, InvNext, PTL DEF Spec

-----------------------------------------------------------------------------
(* The approval store never leaves its types: in particular a caller always *)
(* works on an issued record.                                               *)
THEOREM TypeCorrect == Spec => []TypeOK
<1>1. Inv => TypeOK BY DEF Inv
<1>. QED BY <1>1, InvAlways, PTL

(* A grant's binding is compared at most once, whoever races for it, fails  *)
(* or dies (consume_at).                                                    *)
THEOREM SingleAnswerHolds == Spec => []SingleAnswer
<1>1. Inv => SingleAnswer BY DEF Inv
<1>. QED BY <1>1, InvAlways, PTL

(* A caller told `consumed` holds a grant confirmed for exactly the state it *)
(* observes, unexpired when it called, and is the only one (consume_at).    *)
THEOREM ConsumedIsBoundHolds == Spec => []ConsumedIsBound
<1>1. Inv => ConsumedIsBound
  <2>. SUFFICES ASSUME Inv, NEW c \in Callers, pc[c] = "return", loc[c].outcome = "consumed"
                PROVE  LET g == loc[c].grant IN
                       /\ used[g] # None
                       /\ used[g].binding = loc[c].observed
                       /\ loc[c].now <= used[g].expires
                       /\ \A d \in Callers \ {c} : loc[d].grant = g => loc[d].outcome # "consumed"
    BY DEF ConsumedIsBound
  <2>1. loc[c].grant \in Grants
    BY DEF Inv, Ownership, CallsTyped
  <2>2. \A d \in Callers \ {c} : loc[d].grant = loc[c].grant => loc[d].outcome # "consumed"
    BY <2>1 DEF Inv, Ownership, OneOwner, Owns
  <2>. QED BY <2>2 DEF Inv, Bound, Matches
<1>. QED BY <1>1, InvAlways, PTL

-----------------------------------------------------------------------------
(* The refinement.  A caller about to claim a grant has seen it issued, and *)
(* an issued grant stays so.                                                *)
Present == \A c \in Callers : pc[c] = "claim" => ~Unissued(loc[c].grant)

LEMMA PresentInit == Init => Present
BY DEF Init, Present

LEMMA PresentNext == Inv /\ Present /\ [Next]_vars => Present'
<1>. SUFFICES ASSUME Inv, Present, [Next]_vars, NEW c \in Callers, pc'[c] = "claim"
              PROVE  ~Unissued(loc[c].grant)'
  BY DEF Present
<1>. USE DEF Inv, Ownership
<1>1. ASSUME NEW g \in Grants, ~Unissued(g) PROVE ~Unissued(g)'
  <2>1. ASSUME NEW d \in Callers, Take(d) \/ Retire(d) PROVE ~Unissued(g)'
    <3>1. loc[d].grant \in claims /\ claims' = claims
      BY <2>1 DEF Take, Retire, CallsTyped, OwnersClaim, Owns, Holds
    <3>2. g # loc[d].grant => active'[g] = active[g] /\ consuming'[g] = consuming[g]
                              /\ used'[g] = used[g]
      BY <2>1, <1>1 DEF Take, Retire, TypeOK
    <3>. QED BY <3>1, <3>2, <1>1 DEF Unissued
  <2>2. ASSUME NEW h \in Grants, NEW b \in Confirmed, NEW ttl \in 1..MaxTtl, Issue(h, b, ttl)
        PROVE  ~Unissued(g)'
    BY <2>2, <1>1 DEF Issue, Unissued, TypeOK
  <2>3. ASSUME NEW d \in Callers, Claim(d) PROVE ~Unissued(g)'
    BY <2>3, <1>1 DEF Claim, ClaimExists, Unissued
  <2>4. CASE UNCHANGED storeVars
    BY <2>4, <1>1 DEF storeVars, Unissued
  <2>. QED
    BY <2>1, <2>2, <2>3, <2>4 DEF Next, Step, Consume, CheckReused, CheckPresent, Compare, Return,
                                  Crash, Tick, vars
<1>2. CASE pc[c] = "claim" /\ loc'[c].grant = loc[c].grant
  <2>1. loc[c].grant \in Grants BY <1>2 DEF CallsTyped
  <2>. QED BY <1>1, <1>2, <2>1 DEF Present
<1>3. CASE CheckPresent(c)
  <2>1. loc'[c] = loc[c] /\ active[loc[c].grant] # None /\ UNCHANGED storeVars
    BY <1>3 DEF CheckPresent, Goto, Answer, TypeOK
  <2>. QED BY <2>1 DEF storeVars, Unissued
<1>4. ASSUME NEW d \in Callers,
             d # c, \/ Step(d) \/ Crash(d) \/ \E g \in Grants, b \in Bindings : Consume(d, g, b)
      PROVE  pc'[c] = pc[c] /\ loc'[c] = loc[c]
  BY <1>4 DEF Step, CheckReused, CheckPresent, Claim, ClaimExists, Take, Compare, Retire, Return,
              Crash, Consume, Goto, Answer, TypeOK
<1>5. ASSUME \/ Step(c) \/ Crash(c) \/ \E g \in Grants, b \in Bindings : Consume(c, g, b)
      PROVE  CheckPresent(c)
  BY <1>5 DEF Step, CheckReused, CheckPresent, Claim, ClaimExists, Take, Compare, Retire, Return,
              Crash, Consume, Goto, Answer, TypeOK
<1>6. CASE UNCHANGED <<pc, loc>> BY <1>2, <1>6
<1>. QED BY <1>2, <1>3, <1>4, <1>5, <1>6 DEF Next, Issue, Tick, vars

(* A grant's abstract state is a function of four facts about it.           *)
LEMMA SameStatus ==
  ASSUME NEW g \in Grants, Unissued(g)' <=> Unissued(g), answers'[g] = answers[g],
         g \in claims' <=> g \in claims, InFlight(g)' <=> InFlight(g)
  PROVE  AbstractStatus'[g] = AbstractStatus[g]
BY DEF AbstractStatus

(* A step that changes no grant's abstract state is a stutter, one that     *)
(* changes one grant's status and no binding spends that grant.             *)
LEMMA AbstractStutter ==
  ASSUME \A g \in Grants : AbstractStatus'[g] = AbstractStatus[g], AbstractBound' = AbstractBound
  PROVE  UNCHANGED Abstract!vars
<1>1. AbstractStatus' = AbstractStatus
  BY DEF AbstractStatus
<1>. QED BY <1>1 DEF Abstract!vars

LEMMA AbstractSpend ==
  ASSUME NEW g \in Grants, NEW end \in {"granted", "refused", "lost"},
         AbstractStatus[g] = "available", AbstractStatus'[g] = end,
         \A h \in Grants \ {g} : AbstractStatus'[h] = AbstractStatus[h],
         AbstractBound' = AbstractBound
  PROVE  Abstract!Next
<1>1. AbstractStatus' = [AbstractStatus EXCEPT ![g] = end]
  BY DEF AbstractStatus
<1>2. Abstract!Spend(g, end)
  BY <1>1 DEF Abstract!Spend
<1>. QED BY <1>2 DEF Abstract!Next

(* The callers between claim and comparison change only by their own steps. *)
LEMMA InFlightFrame ==
  ASSUME NEW c \in Callers, NEW g \in Grants,
         \A d \in Callers \ {c} : pc'[d] = pc[d] /\ loc'[d] = loc[d],
         (loc[c].grant = g /\ pc[c] \in {"take", "compare"})
           <=> (loc'[c].grant = g /\ pc'[c] \in {"take", "compare"})
  PROVE  InFlight(g)' <=> InFlight(g)
BY DEF InFlight

(* A claim that ends unanswered takes its grant with it: the claimant was   *)
(* the only one in flight.                                                  *)
LEMMA AbstractLost ==
  ASSUME Inv, NEW c \in Callers, NEW g \in Grants, Holds(c, g), pc[c] # "retire",
         pc'[c] \notin {"take", "compare"},
         \A d \in Callers \ {c} : pc'[d] = pc[d] /\ loc'[d] = loc[d],
         \A h \in Grants : InFlight(h)' => InFlight(h),
         UNCHANGED <<storeVars, answers>>
  PROVE  Abstract!Next
<1>. USE DEF Inv, Ownership
<1>1. g \in claims /\ answers[g] = <<>> /\ InFlight(g)
  BY DEF Holds, CallsTyped, OwnersClaim, Owns, Unanswered, InFlight
<1>2. \A d \in Callers : d # c => ~Holds(d, g)
  BY <1>1 DEF OneOwner, Owns
<1>3. ~InFlight(g)'
  BY <1>2 DEF InFlight, Holds
<1>4. \A h \in Grants \ {g} : InFlight(h) => InFlight(h)'
  BY DEF InFlight, Holds
<1>5. \A h \in Grants : Unissued(h)' <=> Unissued(h)
  BY DEF Unissued, storeVars
<1>6. \A h \in Grants \ {g} : AbstractStatus'[h] = AbstractStatus[h]
  BY <1>4, <1>5, SameStatus DEF storeVars
<1>7. AbstractStatus[g] = "available"
  BY <1>1 DEF AbstractStatus, Unissued
<1>8. AbstractStatus'[g] = "lost"
  BY <1>1, <1>3 DEF AbstractStatus, Unissued, storeVars
<1>9. AbstractBound' = AbstractBound
  BY DEF AbstractBound, RecordOf, storeVars
<1>. QED BY <1>1, <1>6, <1>7, <1>8, <1>9, AbstractSpend

(* A step of the store maps to a step of the one-shot grant: Issue issues,  *)
(* Compare grants or refuses, a claim that fails or whose process dies      *)
(* before the comparison loses the grant, and nothing else shows.           *)
LEMMA AbstractStep ==
  Inv /\ Inv' /\ Present /\ [Next]_vars => [Abstract!Next]_(Abstract!vars)
<1>. SUFFICES ASSUME Inv, Inv', Present, [Next]_vars
              PROVE  Abstract!Next \/ UNCHANGED Abstract!vars
  OBVIOUS
<1>. USE DEF Inv, Ownership
<1>s. ASSUME UNCHANGED <<storeVars, answers>>,
             \A h \in Grants : InFlight(h)' <=> InFlight(h)
      PROVE  UNCHANGED Abstract!vars
  <2>1. \A h \in Grants : Unissued(h)' <=> Unissued(h)
    BY <1>s DEF Unissued, storeVars
  <2>2. AbstractBound' = AbstractBound
    BY <1>s DEF AbstractBound, RecordOf, storeVars
  <2>3. \A h \in Grants : AbstractStatus'[h] = AbstractStatus[h]
    BY <1>s, <2>1, SameStatus DEF storeVars
  <2>. QED BY <2>2, <2>3, AbstractStutter
<1>1. ASSUME NEW g \in Grants, NEW b \in Confirmed, NEW ttl \in 1..MaxTtl, Issue(g, b, ttl)
      PROVE  Abstract!Next
  <2>0. \A h \in Grants : InFlight(h)' <=> InFlight(h)
    BY <1>1 DEF Issue, InFlight
  <2>r. active'[g] = [binding |-> b, issued |-> now, expires |-> now + ttl]
    BY <1>1 DEF Issue, Expiry, TypeOK
  <2>1. active'[g] \in Record /\ active'[g].binding = b /\ active'[g] # None
    BY <2>r, ApprovalAssumption DEF TypeOK, Record
  <2>2. \A h \in Grants \ {g} : active'[h] = active[h]
    BY <1>1 DEF Issue, TypeOK
  <2>3. \A h \in Grants \ {g} : Unissued(h)' <=> Unissued(h)
    BY <1>1, <2>2 DEF Issue, Unissued
  <2>4. \A h \in Grants \ {g} : AbstractStatus'[h] = AbstractStatus[h]
    BY <1>1, <2>0, <2>3, SameStatus DEF Issue
  <2>5. AbstractStatus[g] = "unissued"
    BY <1>1 DEF Issue, AbstractStatus
  <2>6. AbstractStatus'[g] = "available"
    BY <1>1, <2>1 DEF Issue, AbstractStatus, Unissued, AnswersClaimed
  <2>7. AbstractStatus' = [AbstractStatus EXCEPT ![g] = "available"]
    BY <2>4, <2>6 DEF AbstractStatus
  <2>8. \A h \in Grants : RecordOf(h)' = IF h = g THEN active'[g] ELSE RecordOf(h)
    BY <1>1, <2>1, <2>2 DEF Issue, RecordOf
  <2>9. AbstractBound' = [AbstractBound EXCEPT ![g] = b]
    BY <2>1, <2>8 DEF AbstractBound
  <2>10. b \in Bindings
    BY ApprovalAssumption
  <2>11. Abstract!Issue(g)
    BY <2>5, <2>7, <2>9, <2>10 DEF Abstract!Issue
  <2>. QED BY <2>11 DEF Abstract!Next
<1>2. ASSUME NEW c \in Callers, NEW g \in Grants, NEW b \in Bindings, Consume(c, g, b)
      PROVE  UNCHANGED Abstract!vars
  <2>1. \A d \in Callers \ {c} : pc'[d] = pc[d] /\ loc'[d] = loc[d]
    BY <1>2 DEF Consume, Goto, TypeOK
  <2>2. pc[c] = "idle" /\ pc'[c] = "check"
    BY <1>2 DEF Consume, Goto, TypeOK
  <2>3. \A h \in Grants : InFlight(h)' <=> InFlight(h)
    BY <2>1, <2>2, InFlightFrame
  <2>. QED BY <1>2, <1>s, <2>3 DEF Consume
<1>3. ASSUME NEW c \in Callers, CheckReused(c) \/ CheckPresent(c) \/ Return(c)
      PROVE  UNCHANGED Abstract!vars
  <2>1. \A d \in Callers \ {c} : pc'[d] = pc[d] /\ loc'[d] = loc[d]
    BY <1>3 DEF CheckReused, CheckPresent, Return, Goto, Answer, TypeOK
  <2>2. pc[c] \notin {"take", "compare"} /\ pc'[c] \notin {"take", "compare"}
    BY <1>3 DEF CheckReused, CheckPresent, Return, Goto, Answer, TypeOK
  <2>3. \A h \in Grants : InFlight(h)' <=> InFlight(h)
    BY <2>1, <2>2, InFlightFrame
  <2>. QED BY <1>3, <1>s, <2>3 DEF CheckReused, CheckPresent, Return
<1>4. ASSUME NEW c \in Callers, Claim(c)
      PROVE  Abstract!Next \/ UNCHANGED Abstract!vars
  <2>1. PICK g \in Grants : loc[c].grant = g
    BY <1>4 DEF Claim, CallsTyped
  <2>2. \A d \in Callers \ {c} : pc'[d] = pc[d] /\ loc'[d] = loc[d]
    BY <1>4 DEF Claim, Goto, Answer, TypeOK
  <2>3. loc'[c].grant = g /\ pc[c] = "claim"
    BY <1>4, <2>1 DEF Claim, Goto, Answer, TypeOK, Locals
  <2>4. CASE claims' = claims
    <3>1. pc'[c] = "return"
      BY <1>4, <2>1, <2>4 DEF Claim, ClaimExists, Goto, Answer, TypeOK
    <3>2. \A h \in Grants : InFlight(h)' <=> InFlight(h)
      BY <2>2, <2>3, <3>1, InFlightFrame
    <3>. QED BY <1>4, <1>s, <2>4, <3>2 DEF Claim, storeVars
  <2>5. CASE claims' # claims
    <3>1. g \notin claims /\ claims' = claims \union {g}
      BY <1>4, <2>1, <2>5 DEF Claim, ClaimExists
    <3>2. answers[g] = <<>> /\ ~Unissued(g) /\ ~InFlight(g)
      BY <2>1, <2>3, <3>1 DEF AnswersClaimed, Present, OwnersClaim, Owns, Holds, InFlight
    <3>3. \A h \in Grants : ~Unissued(h)' <=> ~Unissued(h)
      BY <1>4, <3>1, <3>2 DEF Claim, Unissued
    <3>4. \A h \in Grants \ {g} : InFlight(h)' <=> InFlight(h)
      BY <2>1, <2>2, <2>3, InFlightFrame
    <3>5. \A h \in Grants \ {g} : AbstractStatus'[h] = AbstractStatus[h]
      BY <1>4, <3>1, <3>3, <3>4, SameStatus DEF Claim
    <3>6. AbstractBound' = AbstractBound
      BY <1>4 DEF Claim, AbstractBound, RecordOf
    <3>7. AbstractStatus[g] = "available"
      BY <3>1, <3>2 DEF AbstractStatus
    <3>8. CASE pc'[c] = "take"
      <4>1. InFlight(g)' BY <2>3, <3>8 DEF InFlight
      <4>2. AbstractStatus'[g] = "available"
        BY <1>4, <3>2, <3>3, <4>1 DEF Claim, AbstractStatus
      <4>. QED BY <3>5, <3>6, <3>7, <4>2, AbstractStutter
    <3>9. CASE pc'[c] # "take"
      <4>1. pc'[c] = "return"
        BY <1>4, <3>9 DEF Claim, Goto, Answer, TypeOK
      <4>2. ~InFlight(g)'
        BY <2>2, <2>3, <3>2, <4>1, InFlightFrame
      <4>3. AbstractStatus'[g] = "lost"
        BY <1>4, <3>1, <3>2, <3>3, <4>2 DEF Claim, AbstractStatus
      <4>. QED BY <3>5, <3>6, <3>7, <4>3, AbstractSpend
    <3>. QED BY <3>8, <3>9
  <2>. QED BY <2>4, <2>5
<1>5. ASSUME NEW c \in Callers, Take(c)
      PROVE  Abstract!Next \/ UNCHANGED Abstract!vars
  <2>1. PICK g \in Grants : loc[c].grant = g
    BY <1>5 DEF Take, CallsTyped
  <2>2. \A d \in Callers \ {c} : pc'[d] = pc[d] /\ loc'[d] = loc[d]
    BY <1>5 DEF Take, Goto, Answer, TypeOK
  <2>3. loc'[c].grant = g /\ pc[c] = "take" /\ g \in claims /\ claims' = claims
    BY <1>5, <2>1 DEF Take, Goto, Answer, TypeOK, Locals, OwnersClaim, Owns, Holds
  <2>4. CASE pc'[c] = "compare"
    <3>1. /\ active[g] # None
          /\ consuming' = [consuming EXCEPT ![g] = active[g]]
          /\ active' = [active EXCEPT ![g] = None]
      BY <1>5, <2>1, <2>4 DEF Take, Goto, Answer, TypeOK
    <3>2. \A h \in Grants : InFlight(h)' <=> InFlight(h)
      BY <2>1, <2>2, <2>3, <2>4, InFlightFrame
    <3>3. \A h \in Grants : RecordOf(h)' = RecordOf(h)
      BY <1>5, <3>1 DEF Take, RecordOf, TypeOK
    <3>4. AbstractBound' = AbstractBound
      BY <3>3 DEF AbstractBound
    <3>5. \A h \in Grants : Unissued(h)' <=> Unissued(h)
      BY <1>5, <2>3, <3>1 DEF Take, Unissued, TypeOK
    <3>6. \A h \in Grants : AbstractStatus'[h] = AbstractStatus[h]
      BY <1>5, <2>3, <3>2, <3>5, SameStatus DEF Take
    <3>. QED BY <3>4, <3>6, AbstractStutter
  <2>5. CASE pc'[c] # "compare"
    <3>1. pc'[c] = "return" /\ UNCHANGED <<storeVars, answers>>
      BY <1>5, <2>5 DEF Take, Goto, Answer, TypeOK, storeVars
    <3>2. Holds(c, g)
      BY <2>1, <2>3 DEF Holds
    <3>3. \A h \in Grants : InFlight(h)' => InFlight(h)
      BY <2>2, <3>1 DEF InFlight
    <3>. QED BY <2>2, <2>3, <3>1, <3>2, <3>3, AbstractLost DEF Inv
  <2>. QED BY <2>4, <2>5
<1>6. ASSUME NEW c \in Callers, Compare(c)
      PROVE  Abstract!Next
  <2>1. PICK g \in Grants : loc[c].grant = g
    BY <1>6 DEF Compare, CallsTyped
  <2>2. \A d \in Callers \ {c} : pc'[d] = pc[d] /\ loc'[d] = loc[d]
    BY <1>6 DEF Compare, Goto, TypeOK
  <2>3. loc'[c].grant = g /\ pc[c] = "compare" /\ pc'[c] = "retire"
    BY <1>6, <2>1 DEF Compare, Goto, TypeOK, Locals
  <2>4. g \in claims /\ answers[g] = <<>> /\ InFlight(g)
    BY <2>1, <2>3 DEF OwnersClaim, Owns, Holds, Unanswered, InFlight
  <2>5. PICK o : answers' = [answers EXCEPT ![g] = Append(<<>>, o)]
    BY <1>6, <2>1, <2>4 DEF Compare
  <2>6. answers'[g] # <<>>
    BY <2>5 DEF TypeOK
  <2>7. \A h \in Grants : Unissued(h)' <=> Unissued(h)
    BY <1>6 DEF Compare, Unissued, storeVars
  <2>8. \A h \in Grants \ {g} : InFlight(h)' <=> InFlight(h)
    BY <2>1, <2>2, <2>3, InFlightFrame
  <2>9. \A h \in Grants \ {g} : AbstractStatus'[h] = AbstractStatus[h]
    BY <1>6, <2>5, <2>7, <2>8, SameStatus DEF Compare, storeVars, TypeOK
  <2>10. AbstractBound' = AbstractBound
    BY <1>6 DEF Compare, AbstractBound, RecordOf, storeVars
  <2>11. AbstractStatus[g] = "available"
    BY <2>4 DEF AbstractStatus, Unissued
  <2>12. AbstractStatus'[g] \in {"granted", "refused"}
    BY <2>4, <2>6, <2>7 DEF AbstractStatus, Unissued
  <2>. QED BY <2>9, <2>10, <2>11, <2>12, AbstractSpend
<1>7. ASSUME NEW c \in Callers, Retire(c)
      PROVE  UNCHANGED Abstract!vars
  <2>1. PICK g \in Grants : loc[c].grant = g
    BY <1>7 DEF Retire, CallsTyped
  <2>2. \A d \in Callers \ {c} : pc'[d] = pc[d] /\ loc'[d] = loc[d]
    BY <1>7 DEF Retire, Goto, Answer, TypeOK
  <2>3. pc[c] = "retire" /\ pc'[c] = "return" /\ g \in claims
    BY <1>7, <2>1 DEF Retire, Goto, Answer, TypeOK, OwnersClaim, Owns, Holds
  <2>4. \A h \in Grants : InFlight(h)' <=> InFlight(h)
    BY <2>2, <2>3, InFlightFrame
  <2>5. \A h \in Grants : RecordOf(h)' = RecordOf(h)
    BY <1>7, <2>1, <2>3 DEF Retire, RecordOf, TypeOK, Taken
  <2>6. AbstractBound' = AbstractBound
    BY <2>5 DEF AbstractBound
  <2>7. \A h \in Grants : Unissued(h)' <=> Unissued(h)
    BY <1>7, <2>1, <2>3 DEF Retire, Unissued, TypeOK
  <2>8. \A h \in Grants : AbstractStatus'[h] = AbstractStatus[h]
    BY <1>7, <2>4, <2>7, SameStatus DEF Retire
  <2>. QED BY <2>6, <2>8, AbstractStutter
<1>8. ASSUME NEW c \in Callers, Crash(c)
      PROVE  Abstract!Next \/ UNCHANGED Abstract!vars
  <2>1. PICK g \in Grants : loc[c].grant = g
    BY <1>8 DEF Crash, CallsTyped
  <2>2. \A d \in Callers \ {c} : pc'[d] = pc[d] /\ loc'[d] = loc[d]
    BY <1>8 DEF Crash, Goto, TypeOK
  <2>3. pc'[c] = "idle" /\ UNCHANGED <<storeVars, answers>>
    BY <1>8 DEF Crash, Goto, TypeOK
  <2>4. CASE pc[c] \in {"take", "compare"}
    <3>1. Holds(c, g)
      BY <2>1, <2>4 DEF Holds
    <3>2. \A h \in Grants : InFlight(h)' => InFlight(h)
      BY <2>2, <2>3 DEF InFlight
    <3>. QED BY <2>2, <2>3, <2>4, <3>1, <3>2, AbstractLost DEF Inv
  <2>5. CASE pc[c] \notin {"take", "compare"}
    <3>1. \A h \in Grants : InFlight(h)' <=> InFlight(h)
      BY <2>2, <2>3, <2>5, InFlightFrame
    <3>. QED BY <1>s, <2>3, <3>1
  <2>. QED BY <2>4, <2>5
<1>9. CASE Tick \/ UNCHANGED vars
  <2>1. \A h \in Grants : InFlight(h)' <=> InFlight(h)
    BY <1>9 DEF Tick, vars, InFlight
  <2>. QED BY <1>9, <1>s, <2>1 DEF Tick, vars
<1>. QED BY <1>1, <1>2, <1>3, <1>4, <1>5, <1>6, <1>7, <1>8, <1>9 DEF Next, Step

LEMMA AbstractInit == Init => Abstract!Init
<1>. SUFFICES ASSUME Init PROVE Abstract!Init
  OBVIOUS
<1>1. \A g \in Grants : Unissued(g) /\ RecordOf(g) = None
  BY DEF Init, Unissued, RecordOf
<1>2. AbstractStatus = [g \in Grants |-> "unissued"]
  BY <1>1 DEF AbstractStatus
<1>3. AbstractBound = [g \in Grants |-> None]
  BY <1>1 DEF AbstractBound
<1>. QED BY <1>2, <1>3 DEF Abstract!Init

(* The files, the claims and the racing, failing and dying callers together *)
(* implement the one-shot grant: from outside, a grant keeps the binding it *)
(* was issued for, and consume_at answers for it once or loses it for good. *)
THEOREM StoreImplementsOneShot == Spec => ImplementsOneShot
<1>1. Spec => []Present
  BY PresentInit, PresentNext, InvAlways, PTL DEF Spec
<1>. QED
  BY <1>1, InvAlways, AbstractInit, AbstractStep, PTL
  DEF Spec, ImplementsOneShot, Abstract!Spec

-----------------------------------------------------------------------------
(* The rules.                                                               *)

(* A nonempty set of numbers has a least element, which CHOOSE finds.       *)
LEMMA LeastElement ==
  ASSUME NEW S, S \subseteq Nat, S # {}
  PROVE  (CHOOSE i \in S : \A j \in S : i <= j) \in S
<1>. DEFINE R == OpToRel(<, Nat)
<1>1. \E i \in S : \A j \in S : ~(<<j, i>> \in R)
  BY NatLessThanWellFounded, WFMin
<1>2. \A i, j \in S : j < i => <<j, i>> \in R
  BY DEF OpToRel
<1>. HIDE DEF R
<1>3. \E i \in S : \A j \in S : i <= j
  <2>1. PICK i \in S : \A j \in S : ~(<<j, i>> \in R)
    BY <1>1
  <2>2. \A j \in S : ~(j < i)
    BY <1>2, <2>1
  <2>. QED BY <2>2
<1>. QED BY <1>3

(* The first error of a list is "none" only if every check passes.          *)
LEMMA FirstErrorNone ==
  ASSUME NEW errors, DOMAIN errors \subseteq Nat, FirstError(errors) = "none"
  PROVE  \A i \in DOMAIN errors : errors[i] = "none"
<1>. DEFINE hits == {i \in DOMAIN errors : errors[i] # "none"}
            first == CHOOSE i \in hits : \A j \in hits : i <= j
<1>1. CASE hits = {}
  BY <1>1
<1>2. CASE hits # {}
  <2>1. first \in hits
    BY <1>2, LeastElement
  <2>2. errors[first] = "none"
    BY <1>2 DEF FirstError
  <2>. QED BY <2>1, <2>2
<1>. QED BY <1>1, <1>2

(* Decide gives anything but a denial only if every check passes.           *)
LEMMA DecideNotDenied ==
  ASSUME NEW errors, DOMAIN errors \subseteq Nat, NEW decision,
         Decide(errors, decision).kind # "deny"
  PROVE  /\ \A i \in DOMAIN errors : errors[i] = "none"
         /\ Decide(errors, decision) = decision
BY FirstErrorNone DEF Decide, Denied, Decision

(* A rule that did not fire.                                                *)
LEMMA RulePasses ==
  ASSUME NEW guard, NEW rule, rule # "none", Rule(guard, rule) = "none"
  PROVE  ~guard
BY DEF Rule

LEMMA RootErrorNone ==
  ASSUME NEW w, NEW root, RootError(w, root) = "none"
  PROVE  root \in w.dirs
<1>. DEFINE es == <<Rule(root \in w.links, "path.root_reparse"),
                    Rule(root \notin w.dirs, "path.root_unavailable")>>
<1>1. es[2] = "none"
  BY FirstErrorNone DEF RootError
<1>. QED BY <1>1 DEF Rule

(* A path that passes is not sensitive and is a file or a directory, or     *)
(* missing where a new one is wanted.                                       *)
LEMMA PathErrorNone ==
  ASSUME NEW w, NEW root, NEW p, NEW expected,
         NEW expectation \in {"file", "directory", "new_file"},
         PathError(w, root, p, expectation, expected) = "none"
  PROVE  /\ root \in w.dirs /\ ~p.sensitive
         /\ Entry(w, root, p).type \in {"file", "directory", "missing"}
<1>. DEFINE e == Entry(w, root, p)
            es == <<
       RootError(w, root),
       TargetError(p),
       Rule(SensitivePath(p), "path.sensitive"),
       Rule(NestedRepository(p), "git.nested_repository"),
       Rule(e.type = "link", "path.symlink_or_reparse"),
       Rule(e.type = "under_file", "path.invalid_component"),
       Rule(e.type = "missing" /\ expectation # "new_file", "path.not_found"),
       Rule(expectation = "file" /\ e.type # "file", "path.not_file"),
       Rule(expectation = "directory" /\ e.type # "directory", "path.not_directory"),
       Rule(expectation = "new_file" /\ e.type # "missing", "path.already_exists"),
       Rule(expected # None /\ e.type = "file" /\ e.content # expected, "path.hash_mismatch")>>
<1>1. FirstError(es) = "none"
  BY DEF PathError
<1>2. es[1] = "none" /\ es[3] = "none" /\ es[8] = "none"
      /\ es[9] = "none" /\ es[10] = "none"
  <2>. HIDE DEF e
  <2>1. DOMAIN es = 1..11
    OBVIOUS
  <2>. HIDE DEF es
  <2>. QED BY <1>1, <2>1, FirstErrorNone
<1>3. root \in w.dirs
  BY <1>2, RootErrorNone
<1>. QED BY <1>2, <1>3 DEF Rule, SensitivePath

LEMMA LeaseErrorNone ==
  ASSUME NEW r, NEW w, LeaseError(r, w) = "none"
  PROVE  LET lease == w.leases[r.active.run] IN
         /\ lease # None
         /\ lease.source = r.root /\ lease.path = r.active.root
         /\ lease.head = r.active.head /\ lease.request = r.id
<1>. DEFINE d == r.active
            lease == w.leases[d.run]
            known == [readable |-> TRUE, run |-> d.run, source |-> r.root, path |-> d.root,
                      head |-> d.head, workspace |-> r.workspace, request |-> r.id]
            es == <<
       Rule(lease = None, "worktree.lease_missing"),
       Rule(lease # None /\ ~lease.readable, "worktree.lease_invalid"),
       Rule(lease # None /\ [lease EXCEPT !.readable = TRUE] # known, "worktree.lease_mismatch")>>
<1>1. FirstError(es) = "none"
  BY DEF LeaseError
<1>2. es[1] = "none" /\ es[3] = "none"
  <2>. HIDE DEF lease, known
  <2>1. DOMAIN es = 1..3
    OBVIOUS
  <2>. HIDE DEF es
  <2>. QED BY <1>1, <2>1, FirstErrorNone
<1>3. lease # None /\ [lease EXCEPT !.readable = TRUE] = known
  <2>. HIDE DEF lease, known
  <2>. QED BY <1>2 DEF Rule
<1>4. \A f \in {"source", "path", "head", "request"} : lease[f] = known[f]
  <2>. HIDE DEF lease
  <2>1. DOMAIN known = {"readable", "run", "source", "path", "head", "workspace", "request"}
    OBVIOUS
  <2>. HIDE DEF known
  <2>2. DOMAIN lease = DOMAIN known
    BY <1>3
  <2>. QED BY <1>3, <2>1, <2>2
<1>. QED BY <1>3, <1>4

LEMMA SourceErrorNone ==
  ASSUME NEW r, SourceError(r) = "none"
  PROVE  r.boundary.head = r.active.head
<1>. DEFINE es == <<
    Rule(r.boundary = None, "worktree.source_state_missing"),
    Rule(r.boundary # None /\ r.boundary.head # r.active.head, "worktree.source_head_drift"),
    Rule(r.clean # TRUE, "worktree.source_dirty"),
    Rule(r.digest = None, "git.working_tree_unobserved")>>
<1>1. FirstError(es) = "none"
  BY DEF SourceError
<1>2. DOMAIN es = 1..4
  OBVIOUS
<1>3. es[1] = "none" /\ es[2] = "none"
  <2>. HIDE DEF es
  <2>. QED BY <1>1, <1>2, FirstErrorNone
<1>. QED BY <1>3 DEF Rule

(* A descriptor that passes names the worktree leased to the request.       *)
LeasedTo(r, w, run) ==
  LET lease == w.leases[run] IN
  /\ lease # None
  /\ lease.request = r.id /\ lease.source = r.root /\ lease.head = r.boundary.head
  /\ w.runs[run] = lease.path /\ lease.path \in w.dirs

LEMMA ActiveErrorNone ==
  ASSUME NEW r, NEW w, ActiveError(r, w) = "none", r.active # None
  PROVE  LeasedTo(r, w, r.active.run) /\ w.leases[r.active.run].path = r.active.root
<1>. DEFINE d == r.active
            es == <<
       Rule(d.ownerWorkspace # r.workspace \/ d.ownerRequest # r.id, "worktree.owner_mismatch"),
       Rule(d.source # r.root, "worktree.source_mismatch"),
       RootError(w, d.root),
       Rule(w.runs[d.run] # d.root, "worktree.storage_mismatch"),
       LeaseError(r, w),
       GitFileError(r, w),
       SourceError(r)>>
<1>1. FirstError(es) = "none"
  BY DEF ActiveError
<1>2. DOMAIN es = 1..7
  OBVIOUS
<1>3. es[3] = "none" /\ es[4] = "none" /\ es[5] = "none" /\ es[7] = "none"
  <2>. HIDE DEF es
  <2>. QED BY <1>1, <1>2, FirstErrorNone
<1>4. d.root \in w.dirs
  BY <1>3, RootErrorNone
<1>5. w.runs[d.run] = d.root
  BY <1>3 DEF Rule
<1>6. r.boundary.head = d.head
  BY <1>3, SourceErrorNone
<1>. QED BY <1>3, <1>4, <1>5, <1>6, LeaseErrorNone DEF LeasedTo

(* What a report must say of a path an unconfirmed action touches.          *)
PlainPath(report) ==
  report.found.type \in {"file", "directory", "missing"} /\ ~report.path.sensitive

(* An unconfirmed write lands in the active worktree.                       *)
LEMMA WriteAllowed ==
  ASSUME NEW r, NEW w, None \notin w.dirs,
         NEW rule, NEW expectation, expectation = "file" \/ expectation = "new_file",
         EvaluateWrite(r, w, expectation, rule).kind = "allow"
  PROVE  /\ r.active # None /\ ActiveError(r, w) = "none"
         /\ r.active.root = r.action.root
         /\ PlainPath(Report(w, r.action.root, r.action.target))
         /\ EvaluateWrite(r, w, expectation, rule) = Allowed(rule)
<1>. DEFINE a == r.action
            path == PathError(w, a.root, a.target, expectation, a.expected)
            es == <<
       path,
       ActiveError(r, w),
       Rule(r.mode = "read_only", ReadOnlyWriteDenied),
       Rule(ActiveRoot(r) # a.root, "write.original_requires_apply")>>
<1>1. EvaluateWrite(r, w, expectation, rule) = Decide(es, Allowed(rule))
  BY DEF EvaluateWrite
<1>2. DOMAIN es = 1..4
  OBVIOUS
<1>3. /\ es[1] = "none" /\ es[2] = "none" /\ es[4] = "none"
      /\ EvaluateWrite(r, w, expectation, rule) = Allowed(rule)
  <2>. HIDE DEF es
  <2>. QED BY <1>1, <1>2, DecideNotDenied
<1>4. /\ a.root \in w.dirs /\ ~a.target.sensitive
      /\ Entry(w, a.root, a.target).type \in {"file", "directory", "missing"}
  BY <1>3, PathErrorNone
<1>5. ActiveRoot(r) = a.root
  BY <1>3 DEF Rule
<1>6. PlainPath(Report(w, a.root, a.target))
  BY <1>4 DEF PlainPath, Report
<1>. QED BY <1>3, <1>4, <1>5, <1>6 DEF ActiveRoot

(* Every path of a list that passes is as PathErrorNone says.               *)
LEMMA ListErrorNone ==
  ASSUME NEW w, NEW root, NEW list \in Seq(PathNames), NEW expectation \in {"file", "new_file"},
         ListError(w, root, list, expectation) = "none"
  PROVE  \A i \in DOMAIN list : PlainPath(Report(w, root, list[i]))
<1>. DEFINE each == [i \in DOMAIN list |-> PathError(w, root, list[i], expectation, None)]
            es == <<
    Rule(\E p \in Elements(list) : p.form # "normal", "path.invalid_relative"),
    Rule(\E i \in 1..(Len(list) - 1) : list[i].number >= list[i + 1].number, "action.path_order"),
    FirstError(each)>>
<1>1. FirstError(es) = "none"
  BY DEF ListError
<1>2. DOMAIN es = 1..3
  OBVIOUS
<1>3. es[3] = "none"
  <2>. HIDE DEF es
  <2>. QED BY <1>1, <1>2, FirstErrorNone
<1>4. DOMAIN each = 1..Len(list) /\ DOMAIN list = 1..Len(list) /\ Len(list) \in Nat
  OBVIOUS
<1>5. \A i \in DOMAIN each : each[i] = "none"
  <2>1. FirstError(each) = "none"
    BY <1>3
  <2>. HIDE DEF each
  <2>. QED BY <1>4, <2>1, FirstErrorNone
<1>. SUFFICES ASSUME NEW i \in DOMAIN list
              PROVE  PlainPath(Report(w, root, list[i]))
  OBVIOUS
<1>6. PathError(w, root, list[i], expectation, None) = "none"
  BY <1>4, <1>5
<1>7. ~list[i].sensitive /\ Entry(w, root, list[i]).type \in {"file", "directory", "missing"}
  BY <1>6, PathErrorNone
<1>. QED BY <1>7 DEF PlainPath, Report

(* A patch that needs no grant goes into the active worktree.               *)
LEMMA ApplyAllowed ==
  ASSUME NEW r, NEW w, None \notin w.dirs,
         r.action.paths \in Seq(PathNames), r.action.created \in Seq(PathNames),
         EvaluateApplyPatch(r, w).kind = "allow"
  PROVE  /\ r.active # None /\ ActiveError(r, w) = "none"
         /\ r.active.root = r.action.root /\ r.action.root # r.root
         /\ \A i \in DOMAIN r.action.paths : PlainPath(Report(w, r.action.root, r.action.paths[i]))
         /\ \A i \in DOMAIN r.action.created : PlainPath(Report(w, r.action.root, r.action.created[i]))
         /\ EvaluateApplyPatch(r, w).rule = "apply.active_worktree"
<1>. DEFINE a == r.action
            existing == ListError(w, a.root, a.paths, "file")
            created == ListError(w, a.root, a.created, "new_file")
            original == a.root = r.root
            es == <<
       Rule(~a.wellFormed, "action.hash_invalid"),
       Rule(Len(a.paths) + Len(a.created) > MaxPaths, "action.path_limit"),
       RootError(w, a.root),
       ActiveError(r, w),
       existing,
       created,
       Rule(original /\ r.mode # "approved_apply", "apply.mode_required"),
       Rule(original /\ r.boundary = None, "apply.git_boundary_required"),
       Rule(original /\ r.boundary # None /\ r.boundary.head # a.head, "apply.head_mismatch"),
       Rule(original /\ r.clean # TRUE, "apply.repository_dirty"),
       Rule(original /\ r.digest = None, "git.working_tree_unobserved")>>
            d == CASE original -> ApprovalRequired("apply.original_requires_approval")
                   [] ~original /\ ActiveRoot(r) = a.root /\ r.mode = "worktree_edit" ->
                        Allowed("apply.active_worktree")
                   [] OTHER -> Denied(OutsideScopeDenied)
<1>1. EvaluateApplyPatch(r, w) = Decide(es, d)
  BY DEF EvaluateApplyPatch
<1>2. DOMAIN es = 1..11
  <2>. HIDE DEF existing, created, original
  <2>. QED OBVIOUS
<1>3. /\ es[3] = "none" /\ es[4] = "none" /\ es[5] = "none" /\ es[6] = "none"
      /\ EvaluateApplyPatch(r, w) = d /\ d.kind = "allow"
  <2>. HIDE DEF es, d
  <2>. QED BY <1>1, <1>2, DecideNotDenied
<1>4. /\ RootError(w, a.root) = "none" /\ ActiveError(r, w) = "none"
      /\ existing = "none" /\ created = "none"
  <2>. HIDE DEF existing, created, original, d
  <2>. QED BY <1>3
<1>5. ~original /\ ActiveRoot(r) = a.root /\ d.rule = "apply.active_worktree"
  <2>. HIDE DEF es
  <2>. QED BY <1>3 DEF Denied, Allowed, ApprovalRequired, Decision
<1>. HIDE DEF es, d
<1>6. a.root \in w.dirs
  BY <1>4, RootErrorNone
<1>7. r.active # None /\ r.active.root = a.root
  BY <1>5, <1>6 DEF ActiveRoot
<1>8. \A i \in DOMAIN a.paths : PlainPath(Report(w, a.root, a.paths[i]))
  BY <1>4, ListErrorNone
<1>9. \A i \in DOMAIN a.created : PlainPath(Report(w, a.root, a.created[i]))
  BY <1>4, ListErrorNone
<1>. QED BY <1>3, <1>4, <1>5, <1>7, <1>8, <1>9

(* Whatever the checks, what Decide allows is what it was given.            *)
LEMMA DecideAllows ==
  ASSUME NEW errors, NEW decision, Decide(errors, decision).kind = "allow"
  PROVE  Decide(errors, decision) = decision /\ decision.kind = "allow"
BY DEF Decide, Denied, Decision

LEMMA BuildAllowed ==
  ASSUME NEW a, EvaluateBuild(a).kind = "allow"
  PROVE  EvaluateBuild(a).rule = "process.build_offline"
BY DecideAllows DEF EvaluateBuild, Allowed, ApprovalRequired, Decision

LEMMA WrapperErrorNone ==
  ASSUME NEW r, NEW w, WrapperError(r, w) = "none"
  PROVE  /\ PlainPath(Report(w, ActiveRoot(r), r.action.target))
         /\ PlainPath(Report(w, r.root, r.action.target))
<1>. DEFINE a == r.action
            inWorktree == PathError(w, ActiveRoot(r), a.target, "file", None)
            inSource == PathError(w, r.root, a.target, "file", None)
            es == <<
       inWorktree,
       inSource,
       Rule(Entry(w, ActiveRoot(r), a.target).content # Entry(w, r.root, a.target).content,
            "process.wrapper_drift"),
       Rule(a.launch # "direct", "process.wrapper_launch_invalid")>>
<1>1. FirstError(es) = "none"
  BY DEF WrapperError
<1>2. DOMAIN es = 1..4
  OBVIOUS
<1>3. es[1] = "none" /\ es[2] = "none"
  <2>. HIDE DEF es
  <2>. QED BY <1>1, <1>2, FirstErrorNone
<1>4. inWorktree = "none" /\ inSource = "none"
  BY <1>3
<1>. HIDE DEF es
<1>5. ~a.target.sensitive /\ Entry(w, ActiveRoot(r), a.target).type \in {"file", "directory", "missing"}
  BY <1>4, PathErrorNone
<1>6. ~a.target.sensitive /\ Entry(w, r.root, a.target).type \in {"file", "directory", "missing"}
  BY <1>4, PathErrorNone
<1>. QED BY <1>5, <1>6 DEF PlainPath, Report

(* An installed tool that passes is an ordinary file.                       *)
LEMMA InstalledErrorNone ==
  ASSUME NEW a, NEW w, InstalledError(a, w) = "none"
  PROVE  PlainPath(Report(w, w.system, a.target))
<1>. DEFINE tool == PathError(w, w.system, a.target, "file", None)
            es == <<
    Rule(~a.installed, "process.executable_untrusted"),
    tool,
    Rule(a.launch # "direct", "process.installed_launch_invalid")>>
<1>1. FirstError(es) = "none"
  BY DEF InstalledError
<1>2. DOMAIN es = 1..3
  <2>. HIDE DEF tool
  <2>. QED OBVIOUS
<1>3. es[2] = "none"
  <2>. HIDE DEF es
  <2>. QED BY <1>1, <1>2, FirstErrorNone
<1>4. ~a.target.sensitive /\ Entry(w, w.system, a.target).type \in {"file", "directory", "missing"}
  BY <1>3, PathErrorNone
<1>. QED BY <1>4 DEF PlainPath, Report

(* The paths a process rests on are ordinary files and directories.         *)
LEMMA ProcessReportsPlain ==
  ASSUME NEW r, NEW w, CwdError(r, w) = "none",
         Wrapper(r.action) => WrapperError(r, w) = "none",
         ~Wrapper(r.action) => InstalledError(r.action, w) = "none"
  PROVE  \A i \in DOMAIN ProcessReports(r, w) : PlainPath(ProcessReports(r, w)[i])
<1>. DEFINE a == r.action
            cwd == Report(w, ActiveRoot(r), a.cwd)
            tool == Report(w, w.system, a.target)
            own == Report(w, ActiveRoot(r), a.target)
            reviewed == Report(w, r.root, a.target)
            S == {x \in {cwd, tool, own, reviewed} : PlainPath(x)}
            first == IF InWorktree(r) THEN <<>> ELSE <<cwd>>
            rest == IF Wrapper(a) THEN <<own, reviewed>> ELSE <<tool>>
<1>1. ASSUME ~InWorktree(r)
      PROVE  PlainPath(cwd)
  <2>1. PathError(w, ActiveRoot(r), a.cwd, "directory", None) = "none"
    BY <1>1 DEF CwdError
  <2>2. ~a.cwd.sensitive /\ Entry(w, ActiveRoot(r), a.cwd).type \in {"file", "directory", "missing"}
    BY <2>1, PathErrorNone
  <2>. QED BY <2>2 DEF PlainPath, Report
<1>2. first \in Seq(S)
  <2>1. InWorktree(r) \/ cwd \in S
    BY <1>1
  <2>. HIDE DEF cwd, S
  <2>. QED BY <2>1
<1>3. rest \in Seq(S)
  <2>1. IF Wrapper(a) THEN own \in S /\ reviewed \in S ELSE tool \in S
    BY WrapperErrorNone, InstalledErrorNone
  <2>. HIDE DEF own, reviewed, tool, S
  <2>. QED BY <2>1
<1>4. ProcessReports(r, w) = first \o rest
  BY DEF ProcessReports
<1>5. \A x \in S : PlainPath(x)
  OBVIOUS
<1>. HIDE DEF first, rest, S
<1>6. first \o rest \in Seq(S)
  BY <1>2, <1>3
<1>7. \A i \in DOMAIN (first \o rest) : (first \o rest)[i] \in S
  BY <1>6
<1>. QED BY <1>4, <1>5, <1>7

(* A process that needs no grant runs inside the active worktree, and what  *)
(* it rests on are ordinary files and directories.                          *)
LEMMA ProcessAllowed ==
  ASSUME NEW r, NEW w, EvaluateProcess(r, w).kind = "allow"
  PROVE  /\ r.active # None /\ ActiveError(r, w) = "none"
         /\ Under(w, r.action.root, r.active.root)
         /\ \A i \in DOMAIN ProcessReports(r, w) : PlainPath(ProcessReports(r, w)[i])
         /\ EvaluateProcess(r, w).rule = "process.build_offline"
<1>. DEFINE a == r.action
            launcher == IF Wrapper(a) THEN WrapperError(r, w) ELSE InstalledError(a, w)
            es == <<
       Rule(r.mode # "worktree_edit", ReadOnlyWriteDenied),
       ActiveError(r, w),
       Rule(r.active = None, OutsideScopeDenied),
       RootError(w, a.root),
       Rule(~Under(w, a.root, ActiveRoot(r)), OutsideScopeDenied),
       CwdError(r, w),
       Rule(~a.bounded, "process.timeout_invalid"),
       EnvironmentError(a),
       Rule(UnsafeArgument(a), "process.metacharacter_denied"),
       Rule(a.network = "undeclared", "network.undeclared"),
       Rule(ShellExecutable(a) \/ a.launch = "shell", "process.shell_denied"),
       Rule(a.executable = "java", "process.java_runtime_denied"),
       Rule(~Wrapper(a) /\ a.executable \notin {"mvn", "gradle"}, "process.executable_unknown"),
       launcher>>
<1>1. EvaluateProcess(r, w) = Decide(es, EvaluateBuild(a))
  BY DEF EvaluateProcess
<1>2. DOMAIN es = 1..14
  <2>. HIDE DEF launcher
  <2>. QED OBVIOUS
<1>3. /\ es[2] = "none" /\ es[3] = "none" /\ es[5] = "none"
      /\ es[6] = "none" /\ es[14] = "none"
      /\ EvaluateProcess(r, w) = EvaluateBuild(a)
  <2>. HIDE DEF es
  <2>. QED BY <1>1, <1>2, DecideNotDenied
<1>4. /\ ActiveError(r, w) = "none"
      /\ Rule(r.active = None, OutsideScopeDenied) = "none"
      /\ Rule(~Under(w, a.root, ActiveRoot(r)), OutsideScopeDenied) = "none"
      /\ CwdError(r, w) = "none" /\ launcher = "none"
  <2>. HIDE DEF launcher
  <2>. QED BY <1>3
<1>5. r.active # None /\ Under(w, a.root, ActiveRoot(r))
  BY <1>4 DEF Rule, OutsideScopeDenied
<1>6. IF Wrapper(a) THEN WrapperError(r, w) = "none" ELSE InstalledError(a, w) = "none"
  BY <1>4
<1>. HIDE DEF es, launcher
<1>7. \A i \in DOMAIN ProcessReports(r, w) : PlainPath(ProcessReports(r, w)[i])
  BY <1>4, <1>6, ProcessReportsPlain
<1>. QED BY <1>3, <1>4, <1>5, <1>7, BuildAllowed DEF ActiveRoot

(* The table, by kind.                                                      *)
LEMMA ActionTable ==
  ASSUME NEW r, NEW w
  PROVE  LET kind == r.action.kind
             answer == EvaluateAction(r, w)
         IN /\ kind = "read_file" => answer = Read(r, w, "file", "read.safe_workspace_file")
            /\ kind = "read_directory" => answer = Read(r, w, "directory", "read.safe_workspace_directory")
            /\ kind = "search" => answer = ReadList(r, w, "analysis.search_read_only")
            /\ kind = "build_context" => answer = ReadList(r, w, "analysis.context_read_only")
            /\ kind = "use_rag" => answer = UseRag(r, w)
            /\ kind = "write_file" => answer = EvaluateWrite(r, w, "file", "write.active_worktree")
            /\ kind = "create_file" => answer =
                   EvaluateWrite(r, w, "new_file", "write.active_worktree_create")
            /\ kind = "delete_file" => answer = DeleteFile(r, w)
            /\ kind = "apply_patch" => answer = EvaluateApplyPatch(r, w)
            /\ kind = "run_process" => answer = EvaluateProcess(r, w)
            /\ kind = "create_worktree" => answer = CreateWorktree(r, w)
            /\ kind = "cleanup_worktree" => answer = EvaluateCleanup(r, w)
            /\ kind = "git_commit" => answer = GitCommit(r, w)
            /\ kind = "git_read" => \/ answer = Denied("git.read_operation_unknown")
                                    \/ answer = ReadList(r, w, "git.read_allowlist")
            /\ kind \in {"recover_transaction", "rollback_transaction"} =>
                 \E rule : answer = Transaction(r, rule)
            /\ kind \in DOMAIN ClosedRules => answer = Denied(ClosedRules[kind])
<1>1. DOMAIN ClosedRules = {"unknown", "modify_policy", "elevate_privileges", "git_write",
                            "git_push", "network_access", "package_install", "publish"}
  BY DEF ClosedRules
<1>. QED BY <1>1 DEF EvaluateAction

(* No rule by itself reads as the consumption of a grant.                   *)
LEMMA AllowedRule ==
  ASSUME NEW r, NEW w, None \notin w.dirs, WellShaped(r),
         EvaluateAction(r, w).kind = "allow"
  PROVE  EvaluateAction(r, w).rule # "approval.one_shot"
<1>. DEFINE kind == r.action.kind
            answer == EvaluateAction(r, w)
<1>1. CASE \E expectation, rule : /\ rule # "approval.one_shot"
                                  /\ answer = Read(r, w, expectation, rule)
  BY <1>1, DecideAllows DEF Read, Allowed, Decision
<1>2. CASE \E rule : rule # "approval.one_shot" /\ answer = ReadList(r, w, rule)
  BY <1>2, DecideAllows DEF ReadList, Allowed, Decision
<1>3. CASE answer = UseRag(r, w)
  BY <1>3, DecideAllows DEF UseRag, Allowed, Decision
<1>4. CASE answer = EvaluateWrite(r, w, "file", "write.active_worktree")
  <2>1. EvaluateWrite(r, w, "file", "write.active_worktree").kind = "allow"
    BY <1>4
  <2>2. EvaluateWrite(r, w, "file", "write.active_worktree") = Allowed("write.active_worktree")
    BY <2>1, WriteAllowed
  <2>. QED BY <1>4, <2>2 DEF Allowed, Decision
<1>5. CASE answer = EvaluateWrite(r, w, "new_file", "write.active_worktree_create")
  <2>1. EvaluateWrite(r, w, "new_file", "write.active_worktree_create").kind = "allow"
    BY <1>5
  <2>2. EvaluateWrite(r, w, "new_file", "write.active_worktree_create") = Allowed("write.active_worktree_create")
    BY <2>1, WriteAllowed
  <2>. QED BY <1>5, <2>2 DEF Allowed, Decision
<1>6. CASE kind = "apply_patch"
  <2>1. answer = EvaluateApplyPatch(r, w)
    BY <1>6, ActionTable
  <2>2. r.action.paths \in Seq(PathNames) /\ r.action.created \in Seq(PathNames)
    BY <1>6 DEF WellShaped
  <2>. QED BY <2>1, <2>2, ApplyAllowed
<1>7. CASE answer = EvaluateProcess(r, w)
  BY <1>7, ProcessAllowed
<1>8. CASE answer = CreateWorktree(r, w)
  BY <1>8, DecideAllows DEF CreateWorktree, Allowed, Decision
<1>9. CASE answer = EvaluateCleanup(r, w)
  BY <1>9, DecideAllows DEF EvaluateCleanup, Allowed, ApprovalRequired, Decision
<1>10. CASE answer = DeleteFile(r, w)
  BY <1>10, DecideAllows DEF DeleteFile, ApprovalRequired, Decision
<1>11. CASE answer = GitCommit(r, w)
  BY <1>11, DecideAllows DEF GitCommit, ApprovalRequired, Decision
<1>12. CASE \E rule : answer = Transaction(r, rule)
  BY <1>12, DecideAllows DEF Transaction, ApprovalRequired, Decision
<1>13. CASE \E rule : answer = Denied(rule)
  BY <1>13 DEF Denied, Decision
<1>. HIDE DEF answer
<1>14. kind \in DOMAIN ClosedRules => \E rule : answer = Denied(rule)
  BY ActionTable DEF answer
<1>. QED BY <1>1, <1>2, <1>3, <1>4, <1>5, <1>6, <1>7, <1>8, <1>9, <1>10, <1>11, <1>12,
         <1>13, <1>14, ActionTable DEF WellShaped, Kinds, answer

-----------------------------------------------------------------------------
(* Confinement.                                                             *)

(* Nothing the engine or the user does here creates, removes or moves a     *)
(* directory, a run or a lease.                                             *)
SameLayout(w) ==
  /\ w.dirs = World0.dirs /\ w.inside = World0.inside
  /\ w.runs = World0.runs /\ w.leases = World0.leases

Effects == {"write_file", "create_file", "delete_file", "apply_patch", "run_process"}

(* ConfinedToLease for a request and the paths of its decision.             *)
Confined(r, w, paths) ==
  /\ \E run \in DOMAIN w.leases :
       /\ LeasedTo(r, w, run)
       /\ Under(w, r.action.root, w.leases[run].path)
       /\ r.action.root # r.root
  /\ \A i \in DOMAIN paths : PlainPath(paths[i])

(* The active worktree is where the action is, and not the original.        *)
LEMMA InActiveWorktree ==
  ASSUME NEW r, NEW w, SameLayout(w), WellShaped(r),
         r.active # None, ActiveError(r, w) = "none", Under(w, r.action.root, r.active.root)
  PROVE  \E run \in DOMAIN w.leases :
           /\ LeasedTo(r, w, run)
           /\ Under(w, r.action.root, w.leases[run].path)
           /\ r.action.root # r.root
<1>. DEFINE run == r.active.run
            lease == w.leases[run]
<1>1. LeasedTo(r, w, run) /\ lease.path = r.active.root
  BY ActiveErrorNone
<1>2. run \in DOMAIN World0.leases /\ run \in DOMAIN w.leases /\ lease = World0.leases[run]
  BY DEF WellShaped, SameLayout
<1>3. ~Under(World0, lease.source, lease.path)
  BY <1>1, <1>2, WorldAssumption DEF LeasedTo
<1>4. lease.source = r.root
  BY <1>1 DEF LeasedTo
<1>5. Under(w, r.action.root, lease.path) /\ ~Under(w, r.root, lease.path)
  BY <1>1, <1>3, <1>4 DEF Under, SameLayout
<1>. QED BY <1>1, <1>2, <1>5

(* The reports of two lists, one after the other.                           *)
LEMMA JoinedReports ==
  ASSUME NEW w, NEW root, NEW s \in Seq(PathNames), NEW t \in Seq(PathNames),
         \A i \in DOMAIN s : PlainPath(Report(w, root, s[i])),
         \A i \in DOMAIN t : PlainPath(Report(w, root, t[i]))
  PROVE  LET all == Reports(w, root, s) \o Reports(w, root, t)
         IN \A i \in DOMAIN all : PlainPath(all[i])
<1>. DEFINE S == {Report(w, root, s[i]) : i \in DOMAIN s} \union {Report(w, root, t[i]) : i \in DOMAIN t}
            a == Reports(w, root, s)
            b == Reports(w, root, t)
<1>1. \A x \in S : PlainPath(x)
  OBVIOUS
<1>2. a \in Seq(S) /\ b \in Seq(S)
  BY DEF Reports
<1>. HIDE DEF S, a, b
<1>3. a \o b \in Seq(S)
  BY <1>2
<1>4. \A i \in DOMAIN (a \o b) : (a \o b)[i] \in S
  BY <1>3
<1>5. \A i \in DOMAIN (a \o b) : PlainPath((a \o b)[i])
  BY <1>1, <1>4
<1>. QED BY <1>5 DEF a, b

(* What the rules allow without a grant stays in its lease.                 *)
LEMMA AllowedIsConfined ==
  ASSUME NEW r, NEW w, SameLayout(w), WellShaped(r),
         EvaluateAction(r, w).kind = "allow", r.action.kind \in Effects
  PROVE  Confined(r, w, ReportedPaths(r, w))
<1>. DEFINE a == r.action
            answer == EvaluateAction(r, w)
            paths == ReportedPaths(r, w)
<1>0. None \notin w.dirs
  BY WorldAssumption DEF SameLayout
<1>1. CASE a.kind \in {"write_file", "create_file"}
  <2>1. \/ answer = EvaluateWrite(r, w, "file", "write.active_worktree")
        \/ answer = EvaluateWrite(r, w, "new_file", "write.active_worktree_create")
    BY <1>1, ActionTable
  <2>2. /\ r.active # None /\ ActiveError(r, w) = "none"
        /\ r.active.root = a.root
        /\ PlainPath(Report(w, a.root, a.target))
    BY <1>0, <2>1, WriteAllowed
  <2>3. paths = <<Report(w, a.root, a.target)>>
    BY <1>1 DEF ReportedPaths
  <2>4. \A i \in DOMAIN paths : PlainPath(paths[i])
    BY <2>2, <2>3
  <2>5. Under(w, a.root, r.active.root)
    BY <2>2 DEF Under
  <2>. QED BY <2>2, <2>4, <2>5, InActiveWorktree DEF Confined
<1>2. CASE a.kind = "delete_file"
  <2>1. answer = DeleteFile(r, w)
    BY <1>2, ActionTable
  <2>. QED BY <2>1, DecideAllows DEF DeleteFile, ApprovalRequired, Decision
<1>3. CASE a.kind = "apply_patch"
  <2>1. answer = EvaluateApplyPatch(r, w)
    BY <1>3, ActionTable
  <2>2. a.paths \in Seq(PathNames) /\ a.created \in Seq(PathNames)
    BY <1>3 DEF WellShaped
  <2>3. /\ r.active # None /\ ActiveError(r, w) = "none"
        /\ r.active.root = a.root
        /\ \A i \in DOMAIN a.paths : PlainPath(Report(w, a.root, a.paths[i]))
        /\ \A i \in DOMAIN a.created : PlainPath(Report(w, a.root, a.created[i]))
    BY <1>0, <2>1, <2>2, ApplyAllowed
  <2>4. paths = Reports(w, a.root, a.paths) \o Reports(w, a.root, a.created)
    BY <1>3 DEF ReportedPaths
  <2>5. \A i \in DOMAIN paths : PlainPath(paths[i])
    BY <2>2, <2>3, <2>4, JoinedReports
  <2>6. Under(w, a.root, r.active.root)
    BY <2>3 DEF Under
  <2>. QED BY <2>3, <2>5, <2>6, InActiveWorktree DEF Confined
<1>4. CASE a.kind = "run_process"
  <2>1. answer = EvaluateProcess(r, w)
    BY <1>4, ActionTable
  <2>2. /\ r.active # None /\ ActiveError(r, w) = "none"
        /\ Under(w, a.root, r.active.root)
        /\ \A i \in DOMAIN ProcessReports(r, w) : PlainPath(ProcessReports(r, w)[i])
    BY <2>1, ProcessAllowed
  <2>3. paths = ProcessReports(r, w)
    BY <1>4 DEF ReportedPaths
  <2>. QED BY <2>2, <2>3, InActiveWorktree DEF Confined
<1>. QED BY <1>1, <1>2, <1>3, <1>4 DEF Effects

(* What the rules allow without a grant leaves the original alone.          *)
LEMMA AllowedNotOriginal ==
  ASSUME NEW r, NEW w, SameLayout(w), WellShaped(r), EvaluateAction(r, w).kind = "allow"
  PROVE  ~ChangesOriginal(r)
<1>1. CASE r.action.kind \in Effects
  BY <1>1, AllowedIsConfined DEF Confined, ChangesOriginal
<1>2. CASE r.action.kind = "git_commit"
  <2>1. EvaluateAction(r, w) = GitCommit(r, w)
    BY <1>2, ActionTable
  <2>. QED BY <2>1, DecideAllows DEF GitCommit, ApprovalRequired, Decision
<1>3. CASE r.action.kind \in {"recover_transaction", "rollback_transaction"}
  <2>1. PICK rule : EvaluateAction(r, w) = Transaction(r, rule)
    BY <1>3, ActionTable
  <2>. QED BY <2>1, DecideAllows DEF Transaction, ApprovalRequired, Decision
<1>. QED BY <1>1, <1>2, <1>3 DEF ChangesOriginal, Effects

-----------------------------------------------------------------------------
(* The state machine.                                                       *)

(* A call whose decision is recorded, and one whose event file was written. *)
Answered == {"create", "list", "rotate", "decided", "authorized"}
Written == {"list", "rotate", "decided", "authorized"}

(* Rotation may remove an event only for MaxEvents newer ones.              *)
Dropped(e) == Len(events) - e >= MaxEvents

Typed(e) ==
  /\ e = [stage |-> e.stage, req |-> e.req, paths |-> e.paths, rule |-> e.rule,
          decision |-> e.decision, approval |-> e.approval, event |-> e.event,
          listed |-> e.listed]
  /\ e.stage \in Stages

(* A request as Observe makes it.                                           *)
Asked(r) == WellShaped(r) /\ r.approval \in Grants \union {None}

(* On what the decision of a call rests: a grant of its own, or a rule that *)
(* confines it.                                                             *)
OnGrant(e) ==
  e.approval = "consumed" =>
    /\ e.req.approval \in Grants
    /\ status[e.req.approval] = "granted"
    /\ bound[e.req.approval] = Binding(e.req, e.paths)

ByRule(e) ==
  e.decision.kind = "allow" /\ e.approval # "consumed" =>
    /\ e.req.action.kind \in Effects => Confined(e.req, World0, e.paths)
    /\ ~ChangesOriginal(e.req)

CallInv(e) ==
  /\ Typed(e)
  /\ e.stage # "idle" => Asked(e.req)
  /\ e.stage = "consuming" => e.req.approval \in Grants
  /\ e.stage \notin Answered => e.event = 0
  /\ e.stage \in Answered => /\ e.event \in 1..Len(events) /\ events[e.event] = EventOf(e)
                             /\ OnGrant(e) /\ ByRule(e)
  /\ e.listed \subseteq {x \in 1..Len(events) : Dropped(x)}
  /\ e.stage \in Written => e.event \in log \/ Dropped(e.event)
  /\ e.stage = "authorized" => IsAllowed(e)

Calls ==
  /\ eng = [c \in Callers |-> eng[c]]
  /\ \A c \in Callers : \E e \in {eng[c]} : CallInv(e)

(* The recorded events: no two consumed the same grant.                     *)
History ==
  /\ \E S : events \in Seq(S)
  /\ \A i \in 1..Len(events) :
       /\ events[i].approval = "consumed" =>
            events[i].grant \in Grants /\ status[events[i].grant] = "granted"
       /\ events[i].result = "authorized" /\ events[i].rule = "approval.one_shot" =>
            events[i].approval = "consumed"
  /\ \A i, j \in 1..Len(events) :
       i # j /\ events[i].approval = "consumed" /\ events[j].approval = "consumed" =>
         events[i].grant # events[j].grant

Audited ==
  /\ log \subseteq 1..Len(events) /\ executed \subseteq 1..Len(events)
  /\ \A e \in executed : events[e].result = "authorized" /\ (e \in log \/ Dropped(e))

GrantsTyped ==
  /\ status \in [Grants -> {"unissued", "available", "granted", "refused", "lost"}]
  /\ bound \in [Grants -> Bindings \union {None}]

WorldKept == SameLayout(world) /\ WorldFields \subseteq DOMAIN world

Counted == changes \in 0..MaxChanges /\ failures \in 0..MaxFailures

EngineInv == Calls /\ History /\ Audited /\ GrantsTyped /\ WorldKept /\ Counted

(* What no step undoes: events are appended, a granted grant stays so with  *)
(* its binding, and a file leaves the log only when it may.                 *)
Grows ==
  /\ events' = events \/ \E x : events' = Append(events, x)
  /\ \A g \in Grants : status[g] = "granted" => status'[g] = "granted" /\ bound'[g] = bound[g]
  /\ \A x \in log : x \in log' \/ Dropped(x)

LEMMA AppendFacts ==
  ASSUME NEW S, NEW s \in Seq(S), NEW x
  PROVE  /\ Append(s, x) \in Seq(S \union {x})
         /\ Len(s) \in Nat /\ Len(Append(s, x)) = Len(s) + 1
         /\ \A i \in 1..Len(s) : Append(s, x)[i] = s[i]
         /\ Append(s, x)[Len(s) + 1] = x
<1>1. s \in Seq(S \union {x})
  OBVIOUS
<1>. QED BY <1>1

LEMMA EventsGrow ==
  ASSUME \E S : events \in Seq(S), events' = events \/ \E x : events' = Append(events, x)
  PROVE  /\ \E S : events' \in Seq(S)
         /\ Len(events) \in Nat /\ Len(events') \in Nat /\ Len(events) <= Len(events')
         /\ \A i \in 1..Len(events) : i \in 1..Len(events') /\ events'[i] = events[i]
<1>1. PICK S : events \in Seq(S)
  OBVIOUS
<1>2. CASE events' = events
  BY <1>1, <1>2
<1>3. CASE \E x : events' = Append(events, x)
  <2>1. PICK x : events' = Append(events, x)
    BY <1>3
  <2>2. Len(events) \in Nat /\ Len(events') = Len(events) + 1
    BY <1>1, <2>1, AppendFacts
  <2>3. \A i \in 1..Len(events) : events'[i] = events[i]
    BY <1>1, <2>1, AppendFacts
  <2>4. events' \in Seq(S \union {x})
    BY <1>1, <2>1, AppendFacts
  <2>. QED BY <2>2, <2>3, <2>4
<1>. QED BY <1>2, <1>3

(* A call that does not move keeps its invariant.                           *)
LEMMA CallFrame ==
  ASSUME History, Grows, NEW e, CallInv(e)
  PROVE  CallInv(e)'
<1>1. /\ Len(events) \in Nat /\ Len(events') \in Nat /\ Len(events) <= Len(events')
      /\ \A i \in 1..Len(events) : i \in 1..Len(events') /\ events'[i] = events[i]
  BY EventsGrow DEF History, Grows
<1>2. \A x \in 1..Len(events) : Dropped(x) => Dropped(x)'
  BY <1>1, EngineAssumption DEF Dropped
<1>3. e.stage \in Answered => OnGrant(e)'
  BY DEF CallInv, OnGrant, Grows
<1>4. e.stage \in Answered => e.event \in 1..Len(events') /\ events'[e.event] = EventOf(e)
  BY <1>1 DEF CallInv
<1>5. e.listed \subseteq {x \in 1..Len(events') : Dropped(x)'}
  BY <1>1, <1>2 DEF CallInv
<1>6. e.stage \in Written => e.event \in log' \/ Dropped(e.event)'
  BY <1>2 DEF CallInv, Grows, Written, Answered
<1>. QED BY <1>3, <1>4, <1>5, <1>6 DEF CallInv

(* A step of one call, given what it becomes.                               *)
LEMMA CallsStep ==
  ASSUME Calls, History, Grows, NEW c \in Callers, NEW n, Become(c, n), CallInv(n)'
  PROVE  Calls'
<1>1. eng' = [d \in Callers |-> IF d = c THEN n ELSE eng[d]]
  BY DEF Calls, Become
<1>2. ASSUME NEW d \in Callers
      PROVE  \E e \in {eng'[d]} : CallInv(e)'
  <2>1. CASE d = c
    BY <1>1, <2>1
  <2>2. CASE d # c
    <3>1. PICK e \in {eng[d]} : CallInv(e)
      BY DEF Calls
    <3>2. CallInv(e)'
      BY <3>1, CallFrame
    <3>. QED BY <1>1, <2>2, <3>1, <3>2
  <2>. QED BY <2>1, <2>2
<1>3. eng' = [d \in Callers |-> eng'[d]]
  BY <1>1
<1>. QED BY <1>2, <1>3 DEF Calls

(* A step of no call.                                                       *)
LEMMA CallsFrame ==
  ASSUME Calls, History, Grows, eng' = eng
  PROVE  Calls'
<1>1. ASSUME NEW d \in Callers
      PROVE  \E e \in {eng'[d]} : CallInv(e)'
  <2>1. PICK e \in {eng[d]} : CallInv(e)
    BY DEF Calls
  <2>2. CallInv(e)'
    BY <2>1, CallFrame
  <2>. QED BY <2>1, <2>2
<1>. QED BY <1>1 DEF Calls

LEMMA RestingInv == CallInv(Resting)'
<1>1. Typed(Resting)
  BY DEF Typed, Resting, Stages
<1>. QED BY <1>1 DEF CallInv, Resting, Answered, Written

LEMMA HistoryFrame ==
  ASSUME History, Grows, events' = events
  PROVE  History'
BY DEF History, Grows

LEMMA AuditedFrame ==
  ASSUME History, Audited, Grows, executed' = executed, log' \subseteq log \union 1..Len(events)
  PROVE  Audited'
<1>1. /\ Len(events) \in Nat /\ Len(events') \in Nat /\ Len(events) <= Len(events')
      /\ \A i \in 1..Len(events) : i \in 1..Len(events') /\ events'[i] = events[i]
  BY EventsGrow DEF History, Grows
<1>2. \A x \in 1..Len(events) : Dropped(x) => Dropped(x)'
  BY <1>1, EngineAssumption DEF Dropped
<1>3. log' \subseteq 1..Len(events') /\ executed' \subseteq 1..Len(events')
  BY <1>1 DEF Audited
<1>4. \A e \in executed : events'[e].result = "authorized" /\ (e \in log' \/ Dropped(e)')
  BY <1>1, <1>2 DEF Audited, Grows
<1>. QED BY <1>3, <1>4 DEF Audited

(* A decision is recorded: what the new event needs for the invariant.      *)
LEMMA DecidedStep ==
  ASSUME Calls, History, Audited, NEW c \in Callers, NEW old \in {eng[c]}, CallInv(old),
         old.stage # "idle",
         NEW e, Typed(e), e.req = old.req, e.listed = old.listed, Decided(c, e),
         OnGrant(e)', ByRule(e),
         IsAllowed(e) /\ e.decision.rule = "approval.one_shot" => e.approval = "consumed",
         e.approval = "consumed" =>
           \A i \in 1..Len(events) :
             events[i].approval = "consumed" => events[i].grant # e.req.approval,
         \A g \in Grants : status[g] = "granted" => status'[g] = "granted" /\ bound'[g] = bound[g],
         log' = log, executed' = executed
  PROVE  Calls' /\ History' /\ Audited'
<1>1. Grows
  BY DEF Grows, Decided
<1>2. PICK S : events \in Seq(S)
  BY DEF History
<1>3. events' = Append(events, EventOf(e))
  BY DEF Decided
<1>4. PICK k : k = Len(events) + 1
  OBVIOUS
<1>5. /\ Len(events) \in Nat /\ k \in Nat /\ Len(events') = k /\ events'[k] = EventOf(e)
      /\ \A i \in 1..Len(events) : i \in 1..Len(events') /\ events'[i] = events[i]
  BY <1>2, <1>3, <1>4, AppendFacts
<1>6. PICK n : n = [e EXCEPT !.stage = "create", !.event = k]
  OBVIOUS
<1>7. /\ n.stage = "create" /\ n.event = k /\ n.req = e.req /\ n.paths = e.paths
      /\ n.rule = e.rule /\ n.decision = e.decision /\ n.approval = e.approval
      /\ n.listed = e.listed
      /\ Typed(n)
  BY <1>6 DEF Typed, Stages
<1>8. CallInv(n)'
  <2>1. EventOf(n) = EventOf(e)
    BY <1>7 DEF EventOf, IsAllowed
  <2>2. OnGrant(n)' /\ ByRule(n)
    BY <1>7 DEF OnGrant, ByRule
  <2>3. Asked(n.req)
    BY <1>7 DEF CallInv
  <2>4. n.listed \subseteq {x \in 1..Len(events') : Dropped(x)'}
    <3>1. n.listed \subseteq {x \in 1..Len(events) : Dropped(x)}
      BY <1>7 DEF CallInv
    <3>. QED BY <1>4, <1>5, <3>1, EngineAssumption DEF Dropped
  <2>5. n.event \in 1..Len(events') /\ events'[n.event] = EventOf(n)
    BY <1>4, <1>5, <1>7, <2>1
  <2>. QED BY <1>7, <2>2, <2>3, <2>4, <2>5 DEF CallInv, Answered, Written
<1>9. Calls'
  <2>1. Become(c, n)
    BY <1>4, <1>6 DEF Decided
  <2>. QED BY <1>1, <1>8, <2>1, CallsStep
<1>10. History'
  <2>. DEFINE x == EventOf(e)
  <2>1. \A i \in 1..Len(events') : i \in 1..Len(events) \/ i = k
    BY <1>4, <1>5
  <2>2. /\ x.approval = e.approval /\ x.grant = e.req.approval /\ x.rule = e.decision.rule
        /\ x.result = "authorized" => IsAllowed(e)
    BY DEF EventOf
  <2>. HIDE DEF x
  <2>3. \A i \in 1..Len(events') :
         /\ events'[i].approval = "consumed" =>
              events'[i].grant \in Grants /\ status'[events'[i].grant] = "granted"
         /\ events'[i].result = "authorized" /\ events'[i].rule = "approval.one_shot" =>
              events'[i].approval = "consumed"
    <3>1. x.approval = "consumed" => x.grant \in Grants /\ status'[x.grant] = "granted"
      BY <2>2 DEF OnGrant
    <3>2. x.result = "authorized" /\ x.rule = "approval.one_shot" => x.approval = "consumed"
      BY <2>2
    <3>3. events'[k] = x
      BY <1>5 DEF x
    <3>4. \A i \in 1..Len(events) :
         /\ events[i].approval = "consumed" =>
              events[i].grant \in Grants /\ status'[events[i].grant] = "granted"
         /\ events[i].result = "authorized" /\ events[i].rule = "approval.one_shot" =>
              events[i].approval = "consumed"
      BY DEF History
    <3>. QED BY <1>5, <2>1, <3>1, <3>2, <3>3, <3>4
  <2>4. \A i, j \in 1..Len(events') :
         i # j /\ events'[i].approval = "consumed" /\ events'[j].approval = "consumed" =>
           events'[i].grant # events'[j].grant
    <3>1. events'[k] = x
      BY <1>5 DEF x
    <3>2. \A i \in 1..Len(events) :
            x.approval = "consumed" /\ events[i].approval = "consumed" => events[i].grant # x.grant
      BY <2>2
    <3>3. \A i, j \in 1..Len(events) :
         i # j /\ events[i].approval = "consumed" /\ events[j].approval = "consumed" =>
           events[i].grant # events[j].grant
      BY DEF History
    <3>. QED BY <1>5, <2>1, <3>1, <3>2, <3>3
  <2>5. \E T : events' \in Seq(T)
    BY <1>1, EventsGrow DEF History, Grows
  <2>. QED BY <2>3, <2>4, <2>5 DEF History
<1>11. Audited'
  BY <1>1, AuditedFrame
<1>. QED BY <1>9, <1>10, <1>11

(* What rotation lists may be dropped.                                      *)
LEMMA ExcessDropped ==
  ASSUME Len(events) \in Nat, log \subseteq 1..Len(events), NEW x \in Excess(log)
  PROVE  x \in 1..Len(events) /\ Dropped(x)
<1>. DEFINE newer == {f \in log : f > x}
            after == (x + 1)..Len(events)
<1>1. x \in 1..Len(events) /\ Cardinality(newer) >= MaxEvents
  BY DEF Excess
<1>2. newer \in SUBSET after
  <2>1. \A f \in newer : f \in 1..Len(events) /\ f > x
    OBVIOUS
  <2>2. \A f \in newer : f \in after
    BY <1>1, <2>1
  <2>. QED BY <2>2
<1>3. IsFiniteSet(after) /\ Cardinality(after) = IF x + 1 > Len(events) THEN 0 ELSE Len(events) - (x + 1) + 1
  <2>1. x + 1 \in Int /\ Len(events) \in Int
    BY <1>1
  <2>. QED BY <2>1, FS_Interval
<1>4. IsFiniteSet(newer) /\ Cardinality(newer) <= Cardinality(after)
  <2>. HIDE DEF newer, after
  <2>. QED BY <1>2, <1>3, FS_Subset
<1>5. Cardinality(newer) \in Nat
  BY <1>4, FS_CardinalityType
<1>. HIDE DEF newer, after
<1>. QED BY <1>1, <1>3, <1>4, <1>5, EngineAssumption DEF Dropped

(* One lemma per action.                                                    *)
LEMMA ObservedIsAsked ==
  ASSUME NEW ask \in Asks
  PROVE  Asked(Observed(ask[1], ask[2]))
<1>. DEFINE t == ask[1]
            r == Observed(ask[1], ask[2])
<1>1. /\ RequestFields \subseteq DOMAIN t /\ WellShaped(t) /\ ask[2] \in Grants \union {None}
  BY AsksAssumption
<1>2. /\ "action" \in DOMAIN t /\ "active" \in DOMAIN t /\ "approval" \in DOMAIN t
      /\ "boundary" \in DOMAIN t /\ "clean" \in DOMAIN t /\ "digest" \in DOMAIN t
  BY <1>1 DEF RequestFields
<1>3. r.action = t.action /\ r.active = t.active /\ r.approval = ask[2]
  BY <1>2 DEF Observed
<1>. HIDE DEF r, t
<1>4. WellShaped(r)
  BY <1>1, <1>3 DEF WellShaped
<1>. QED BY <1>1, <1>3, <1>4 DEF Asked, r, t

LEMMA ObserveStep ==
  ASSUME EngineInv, NEW c \in Callers, NEW ask \in Asks, Observe(c, ask)
  PROVE  EngineInv'
<1>1. Grows
  BY DEF Grows, Observe, grantVars
<1>2. PICK r : r = Observed(ask[1], ask[2])
  OBVIOUS
<1>3. Asked(r)
  BY <1>2, ObservedIsAsked
<1>4. PICK n : n = [Resting EXCEPT !.stage = "observed", !.req = r]
  OBVIOUS
<1>5. /\ n.stage = "observed" /\ n.req = r /\ n.event = 0 /\ n.listed = {}
      /\ Typed(n)
  BY <1>4 DEF Resting, Typed, Stages
<1>6. CallInv(n)'
  BY <1>3, <1>5 DEF CallInv, Answered, Written
<1>7. Become(c, n)
  BY <1>2, <1>4 DEF Observe
<1>8. Calls'
  BY <1>1, <1>6, <1>7, CallsStep DEF EngineInv
<1>9. History' /\ Audited'
  BY <1>1, HistoryFrame, AuditedFrame DEF EngineInv, Observe
<1>. QED BY <1>8, <1>9 DEF EngineInv, Observe, grantVars, GrantsTyped, WorldKept, SameLayout, Counted

LEMMA IssueStep ==
  ASSUME EngineInv, NEW c \in Callers, NEW g \in Grants, IssueApproval(c, g)
  PROVE  EngineInv'
<1>1. PICK b \in Bindings : bound' = [bound EXCEPT ![g] = b]
  BY DEF IssueApproval, Grant!Issue
<1>2. status[g] = "unissued" /\ status' = [status EXCEPT ![g] = "available"]
  BY DEF IssueApproval, Grant!Issue
<1>3. Grows
  BY <1>1, <1>2 DEF Grows, IssueApproval, EngineInv, GrantsTyped
<1>4. Calls'
  BY <1>3, RestingInv, CallsStep DEF EngineInv, IssueApproval, Stop
<1>5. History' /\ Audited'
  BY <1>3, HistoryFrame, AuditedFrame DEF EngineInv, IssueApproval
<1>6. GrantsTyped'
  BY <1>1, <1>2 DEF EngineInv, GrantsTyped
<1>. QED BY <1>4, <1>5, <1>6 DEF EngineInv, IssueApproval, WorldKept, SameLayout, Counted

(* What the rules said of a request holds of the layout it started with.    *)
LEMMA EvaluatedByRule ==
  ASSUME NEW w, SameLayout(w), NEW r, Asked(r), NEW e,
         e.req = r, e.decision = Evaluate(r, w).decision, e.paths = Evaluate(r, w).paths
  PROVE  /\ ByRule(e)
         /\ IsAllowed(e) => e.decision.rule # "approval.one_shot"
<1>. SUFFICES ASSUME e.decision.kind = "allow"
              PROVE  /\ r.action.kind \in Effects => Confined(r, World0, e.paths)
                     /\ ~ChangesOriginal(r)
                     /\ e.decision.rule # "approval.one_shot"
  BY DEF ByRule, IsAllowed
<1>1. /\ EvaluateAction(r, w).kind = "allow" /\ e.paths = ReportedPaths(r, w)
      /\ e.decision = EvaluateAction(r, w)
  BY DEF Evaluate
<1>2. WellShaped(r) /\ None \notin w.dirs
  BY WorldAssumption DEF Asked, SameLayout
<1>3. r.action.kind \in Effects => Confined(r, w, e.paths)
  BY <1>1, <1>2, AllowedIsConfined
<1>4. Confined(r, w, e.paths) => Confined(r, World0, e.paths)
  BY DEF Confined, LeasedTo, Under, SameLayout
<1>5. e.decision.rule # "approval.one_shot"
  BY <1>1, <1>2, AllowedRule
<1>6. ~ChangesOriginal(r)
  BY <1>1, <1>2, AllowedNotOriginal
<1>. QED BY <1>3, <1>4, <1>5, <1>6

LEMMA CheckStep ==
  ASSUME EngineInv, NEW c \in Callers, Check(c)
  PROVE  EngineInv'
<1>1. PICK old \in {eng[c]} : CallInv(old)
  BY DEF EngineInv, Calls
<1>2. PICK r : r = old.req
  OBVIOUS
<1>3. old.stage = "observed" /\ Asked(r) /\ Typed(old) /\ old.event = 0
  BY <1>1, <1>2 DEF Check, At, CallInv, Answered
<1>4. SameLayout(world)
  BY DEF EngineInv, WorldKept
<1>5. GrantsTyped' /\ WorldKept' /\ Counted'
  BY DEF EngineInv, Check, grantVars, GrantsTyped, WorldKept, SameLayout, Counted
<1>6. /\ log' = log /\ executed' = executed
      /\ \A g \in Grants : status[g] = "granted" => status'[g] = "granted" /\ bound'[g] = bound[g]
  BY DEF Check, grantVars
<1>7. CASE Stop(c) /\ UNCHANGED events
  <2>1. Grows
    BY <1>6, <1>7 DEF Grows
  <2>2. Calls'
    BY <1>7, <2>1, RestingInv, CallsStep DEF EngineInv, Stop
  <2>. QED BY <1>5, <1>6, <1>7, <2>1, <2>2, HistoryFrame, AuditedFrame DEF EngineInv
<1>8. ASSUME RequestError(r, world) = "none"
      PROVE  EngineInv'
  <2>1. PICK evaluated \in {Evaluated(old, Evaluate(r, world))} :
          \/ /\ ~(NeedsApproval(evaluated) /\ r.approval # None)
             /\ Decided(c, [evaluated EXCEPT !.approval = IF r.approval # None THEN "present" ELSE "none"])
          \/ /\ NeedsApproval(evaluated) /\ r.approval # None
             /\ Become(c, [evaluated EXCEPT !.stage = "consuming"])
             /\ UNCHANGED events
    BY <1>1, <1>2, <1>8 DEF Check
  <2>2. /\ evaluated.stage = "observed" /\ evaluated.req = r
        /\ evaluated.decision = Evaluate(r, world).decision
        /\ evaluated.paths = Evaluate(r, world).paths
        /\ evaluated.event = 0 /\ evaluated.listed = old.listed
        /\ Typed(evaluated)
    BY <1>2, <1>3 DEF Evaluated, Typed
  <2>3. CASE Decided(c, [evaluated EXCEPT !.approval = IF r.approval # None THEN "present" ELSE "none"])
    <3>1. PICK e : e = [evaluated EXCEPT !.approval = IF r.approval # None THEN "present" ELSE "none"]
      OBVIOUS
    <3>2. /\ e.req = r /\ e.listed = old.listed /\ e.approval # "consumed"
          /\ e.decision = Evaluate(r, world).decision /\ e.paths = Evaluate(r, world).paths
          /\ Typed(e)
      BY <2>2, <3>1 DEF Typed
    <3>3. /\ ByRule(e)
          /\ IsAllowed(e) => e.decision.rule # "approval.one_shot"
      BY <1>3, <1>4, <3>2, EvaluatedByRule
    <3>4. OnGrant(e)'
      BY <3>2 DEF OnGrant
    <3>5. Calls' /\ History' /\ Audited'
      BY <1>1, <1>2, <1>3, <1>6, <2>3, <3>1, <3>2, <3>3, <3>4, DecidedStep DEF EngineInv
    <3>. QED BY <1>5, <3>5 DEF EngineInv
  <2>4. CASE /\ r.approval # None
             /\ Become(c, [evaluated EXCEPT !.stage = "consuming"])
             /\ UNCHANGED events
    <3>1. PICK n : n = [evaluated EXCEPT !.stage = "consuming"]
      OBVIOUS
    <3>2. /\ n.stage = "consuming" /\ n.req = r /\ n.event = 0 /\ n.listed = old.listed
          /\ Typed(n)
      BY <2>2, <3>1 DEF Typed, Stages
    <3>3. Grows
      BY <1>6, <2>4 DEF Grows
    <3>4. n.listed \subseteq {x \in 1..Len(events') : Dropped(x)'}
      BY <1>1, <2>4, <3>2 DEF CallInv, Dropped
    <3>5. CallInv(n)'
      BY <1>3, <2>4, <3>2, <3>4 DEF CallInv, Asked, Answered, Written
    <3>6. Calls'
      BY <2>4, <3>1, <3>3, <3>5, CallsStep DEF EngineInv
    <3>. QED BY <1>5, <1>6, <2>4, <3>3, <3>6, HistoryFrame, AuditedFrame DEF EngineInv
  <2>. QED BY <2>1, <2>3, <2>4
<1>. QED BY <1>1, <1>2, <1>7, <1>8 DEF Check

(* Spending a grant leaves the granted ones alone.                          *)
LEMMA SpendFacts ==
  ASSUME GrantsTyped, NEW g \in Grants, NEW end \in {"granted", "refused", "lost"},
         Grant!Spend(g, end)
  PROVE  /\ GrantsTyped' /\ status[g] = "available" /\ status'[g] = end /\ bound' = bound
         /\ \A h \in Grants : status[h] = "granted" => status'[h] = "granted" /\ bound'[h] = bound[h]
BY DEF GrantsTyped, Grant!Spend

(* A refused call rests on nothing and is denied.                           *)
LEMMA RefusedStep ==
  ASSUME Calls, History, Audited, NEW c \in Callers, NEW old \in {eng[c]}, CallInv(old),
         old.stage # "idle", NEW rule, Refused(c, rule),
         \A g \in Grants : status[g] = "granted" => status'[g] = "granted" /\ bound'[g] = bound[g],
         log' = log, executed' = executed
  PROVE  Calls' /\ History' /\ Audited'
<1>1. PICK e : e = [old EXCEPT !.decision = Denied(rule), !.approval = "invalid"]
  OBVIOUS
<1>2. Typed(old)
  BY DEF CallInv
<1>3. /\ e.req = old.req /\ e.listed = old.listed /\ e.approval = "invalid"
      /\ e.decision = Denied(rule) /\ Typed(e)
  BY <1>1, <1>2 DEF Typed
<1>4. e.decision.kind = "deny"
  BY <1>3 DEF Denied, Decision
<1>5. OnGrant(e)' /\ ByRule(e) /\ ~IsAllowed(e)
  BY <1>3, <1>4 DEF OnGrant, ByRule, IsAllowed
<1>6. Decided(c, e)
  BY <1>1 DEF Refused
<1>. QED BY <1>3, <1>5, <1>6, DecidedStep

LEMMA ConsumeStep ==
  ASSUME EngineInv, NEW c \in Callers, ConsumeGrant(c)
  PROVE  EngineInv'
<1>1. PICK old \in {eng[c]} : CallInv(old)
  BY DEF EngineInv, Calls
<1>2. PICK g : g = old.req.approval
  OBVIOUS
<1>3. old.stage = "consuming" /\ Typed(old) /\ g \in Grants
  BY <1>1, <1>2 DEF ConsumeGrant, At, CallInv
<1>4. WorldKept' /\ log' = log /\ executed' = executed
  BY DEF ConsumeGrant, EngineInv, WorldKept, SameLayout
<1>5. CASE /\ bound[g] = Binding(old.req, old.paths)
           /\ Grant!Spend(g, "granted")
           /\ Approved(c)
           /\ UNCHANGED failures
  <2>1. /\ GrantsTyped' /\ status[g] = "available" /\ status'[g] = "granted" /\ bound' = bound
        /\ \A h \in Grants : status[h] = "granted" => status'[h] = "granted" /\ bound'[h] = bound[h]
    BY <1>3, <1>5, SpendFacts DEF EngineInv
  <2>2. PICK e : e = [old EXCEPT !.decision = Allowed("approval.one_shot"), !.approval = "consumed"]
    OBVIOUS
  <2>3. /\ e.req = old.req /\ e.paths = old.paths /\ e.listed = old.listed
        /\ e.approval = "consumed" /\ Typed(e)
    BY <1>3, <2>2 DEF Typed
  <2>4. OnGrant(e)' /\ ByRule(e)
    BY <1>2, <1>3, <1>5, <2>1, <2>3 DEF OnGrant, ByRule, Binding
  <2>5. \A i \in 1..Len(events) :
          events[i].approval = "consumed" => events[i].grant # e.req.approval
    BY <1>2, <2>1, <2>3 DEF EngineInv, History
  <2>6. Decided(c, e)
    BY <1>1, <1>5, <2>2 DEF Approved
  <2>7. Calls' /\ History' /\ Audited'
    BY <1>1, <1>3, <1>4, <2>1, <2>3, <2>4, <2>5, <2>6, DecidedStep DEF EngineInv
  <2>8. Counted'
    BY <1>5 DEF ConsumeGrant, EngineInv, Counted
  <2>. QED BY <1>4, <2>1, <2>7, <2>8 DEF EngineInv
<1>6. ASSUME NEW rule, Refused(c, rule), GrantsTyped', Counted',
             \A h \in Grants : status[h] = "granted" => status'[h] = "granted" /\ bound'[h] = bound[h]
      PROVE  EngineInv'
  <2>1. Calls' /\ History' /\ Audited'
    BY <1>1, <1>3, <1>4, <1>6, RefusedStep DEF EngineInv
  <2>. QED BY <1>4, <1>6, <2>1 DEF EngineInv
<1>7. CASE /\ Grant!Spend(g, "refused")
           /\ Refused(c, "approval.drift")
           /\ UNCHANGED failures
  <2>1. Counted'
    BY <1>7 DEF ConsumeGrant, EngineInv, Counted
  <2>. QED BY <1>3, <1>6, <1>7, <2>1, SpendFacts DEF EngineInv
<1>8. CASE Failure /\ Grant!Spend(g, "lost") /\ Refused(c, "approval.invalid")
  <2>1. Counted'
    BY <1>8, EngineAssumption DEF ConsumeGrant, EngineInv, Counted, Failure
  <2>. QED BY <1>3, <1>6, <1>8, <2>1, SpendFacts DEF EngineInv
<1>9. CASE /\ status[g] # "available"
           /\ Refused(c, IF status[g] = "unissued" THEN "approval.missing" ELSE "approval.reused")
           /\ UNCHANGED <<grantVars, failures>>
  <2>1. GrantsTyped' /\ Counted'
    BY <1>9 DEF ConsumeGrant, EngineInv, GrantsTyped, Counted, grantVars
  <2>2. status' = status /\ bound' = bound
    BY <1>9 DEF grantVars
  <2>. QED BY <1>6, <1>9, <2>1, <2>2
<1>. QED BY <1>1, <1>2, <1>5, <1>7, <1>8, <1>9 DEF ConsumeGrant

(* A step that ends the call, and one that only moves it on.                *)
LEMMA StopStep ==
  ASSUME EngineInv, NEW c \in Callers, Stop(c), events' = events, log' = log, executed' = executed,
         \A g \in Grants : status[g] = "granted" => status'[g] = "granted" /\ bound'[g] = bound[g]
  PROVE  Calls' /\ History' /\ Audited'
<1>1. Grows
  BY DEF Grows
<1>2. Calls'
  BY <1>1, RestingInv, CallsStep DEF EngineInv, Stop
<1>. QED BY <1>1, <1>2, HistoryFrame, AuditedFrame DEF EngineInv

LEMMA MoveStep ==
  ASSUME EngineInv, NEW c \in Callers, NEW old \in {eng[c]}, CallInv(old), old.stage \in Answered,
         NEW n, Become(c, n), n.stage \in Written,
         n = [old EXCEPT !.stage = n.stage, !.listed = n.listed],
         n.listed \subseteq {x \in 1..Len(events) : Dropped(x)},
         n.stage = "authorized" => IsAllowed(old),
         old.event \in log' \/ Dropped(old.event),
         \A x \in log : x \in log' \/ Dropped(x),
         log' \subseteq log \union 1..Len(events),
         events' = events, executed' = executed, status' = status, bound' = bound
  PROVE  Calls' /\ History' /\ Audited'
<1>1. Grows
  BY DEF Grows
<1>2. Typed(old)
  BY DEF CallInv
<1>3. /\ n.req = old.req /\ n.paths = old.paths /\ n.rule = old.rule
      /\ n.decision = old.decision /\ n.approval = old.approval /\ n.event = old.event
      /\ Typed(n)
  BY <1>2 DEF Typed, Written, Stages
<1>4. n.stage \in Answered /\ n.stage # "idle" /\ n.stage # "consuming" /\ old.stage # "idle"
  BY DEF Written, Answered
<1>5. EventOf(n) = EventOf(old) /\ (IsAllowed(n) <=> IsAllowed(old))
  BY <1>3 DEF EventOf, IsAllowed
<1>6. OnGrant(n)' /\ ByRule(n)
  BY <1>3 DEF CallInv, OnGrant, ByRule
<1>7. n.listed \subseteq {x \in 1..Len(events') : Dropped(x)'}
  BY DEF Dropped
<1>8. n.event \in log' \/ Dropped(n.event)'
  BY <1>3 DEF Dropped
<1>9. n.event \in 1..Len(events') /\ events'[n.event] = EventOf(n) /\ Asked(n.req)
  BY <1>3, <1>4, <1>5 DEF CallInv
<1>10. CallInv(n)'
  BY <1>3, <1>4, <1>5, <1>6, <1>7, <1>8, <1>9 DEF CallInv
<1>11. Calls'
  BY <1>1, <1>10, CallsStep DEF EngineInv
<1>. QED BY <1>1, <1>11, HistoryFrame, AuditedFrame DEF EngineInv

LEMMA CreateStep ==
  ASSUME EngineInv, NEW c \in Callers, CreateEvent(c)
  PROVE  EngineInv'
<1>1. PICK old \in {eng[c]} : CallInv(old)
  BY DEF EngineInv, Calls
<1>2. old.stage = "create" /\ old.stage \in Answered /\ Typed(old) /\ old.event \in 1..Len(events)
  BY <1>1 DEF CreateEvent, At, CallInv, Answered
<1>3. /\ GrantsTyped' /\ WorldKept' /\ status' = status /\ bound' = bound
      /\ events' = events /\ executed' = executed
  BY DEF CreateEvent, EngineInv, GrantsTyped, WorldKept, SameLayout, grantVars
<1>4. Counted'
  BY EngineAssumption DEF CreateEvent, EngineInv, Counted, Failure
<1>5. CASE log' = log \union {eng[c].event} /\ Move(c, "list")
  <2>1. PICK n : n = [old EXCEPT !.stage = "list"]
    OBVIOUS
  <2>2. /\ n.stage = "list" /\ n.listed = old.listed
        /\ n = [old EXCEPT !.stage = n.stage, !.listed = n.listed]
    BY <1>2, <2>1 DEF Typed
  <2>3. Become(c, n)
    BY <1>1, <1>5, <2>1 DEF Move
  <2>4. n.listed \subseteq {x \in 1..Len(events) : Dropped(x)}
    BY <1>1, <2>2 DEF CallInv
  <2>5. old.event \in log' /\ log' \subseteq log \union 1..Len(events)
    BY <1>1, <1>2, <1>5
  <2>6. Calls' /\ History' /\ Audited'
    BY <1>1, <1>2, <1>3, <1>5, <2>2, <2>3, <2>4, <2>5, MoveStep DEF Written
  <2>. QED BY <1>3, <1>4, <2>6 DEF EngineInv
<1>6. CASE Stop(c) /\ UNCHANGED log
  BY <1>3, <1>4, <1>6, StopStep DEF EngineInv
<1>. QED BY <1>5, <1>6 DEF CreateEvent

LEMMA ListStep ==
  ASSUME EngineInv, NEW c \in Callers, ListEvents(c)
  PROVE  EngineInv'
<1>1. PICK old \in {eng[c]} : CallInv(old)
  BY DEF EngineInv, Calls
<1>2. old.stage = "list" /\ old.stage \in Answered /\ Typed(old)
  BY <1>1 DEF ListEvents, At, CallInv, Answered
<1>3. /\ GrantsTyped' /\ WorldKept' /\ Counted' /\ status' = status /\ bound' = bound
      /\ events' = events /\ executed' = executed /\ log' = log
  BY DEF ListEvents, EngineInv, GrantsTyped, WorldKept, SameLayout, Counted, grantVars
<1>4. PICK l : l = Excess(log)
  OBVIOUS
<1>5. PICK n : n = [old EXCEPT !.stage = "rotate", !.listed = l]
  OBVIOUS
<1>6. /\ n.stage = "rotate" /\ n.listed = l
      /\ n = [old EXCEPT !.stage = n.stage, !.listed = n.listed]
  BY <1>2, <1>5 DEF Typed
<1>7. Become(c, n)
  BY <1>1, <1>4, <1>5 DEF ListEvents
<1>8. l \subseteq {x \in 1..Len(events) : Dropped(x)}
  <2>1. Len(events) \in Nat /\ log \subseteq 1..Len(events)
    BY EventsGrow, <1>3 DEF EngineInv, History, Audited
  <2>. QED BY <1>4, <2>1, ExcessDropped
<1>9. old.event \in log' \/ Dropped(old.event)
  BY <1>1, <1>2, <1>3 DEF CallInv, Written
<1>10. Calls' /\ History' /\ Audited'
  BY <1>1, <1>2, <1>3, <1>6, <1>7, <1>8, <1>9, MoveStep DEF Written
<1>. QED BY <1>3, <1>10 DEF EngineInv

LEMMA RotateStep ==
  ASSUME EngineInv, NEW c \in Callers, Rotate(c)
  PROVE  EngineInv'
<1>1. PICK old \in {eng[c]} : CallInv(old)
  BY DEF EngineInv, Calls
<1>2. old.stage = "rotate" /\ old.stage \in Answered /\ Typed(old)
  BY <1>1 DEF Rotate, At, CallInv, Answered
<1>3. /\ GrantsTyped' /\ WorldKept' /\ status' = status /\ bound' = bound
      /\ events' = events /\ executed' = executed
  BY DEF Rotate, EngineInv, GrantsTyped, WorldKept, SameLayout, grantVars
<1>4. Counted'
  BY EngineAssumption DEF Rotate, EngineInv, Counted, Failure
<1>5. old.listed \subseteq {x \in 1..Len(events) : Dropped(x)}
  BY <1>1 DEF CallInv
<1>6. old.event \in log \/ Dropped(old.event)
  BY <1>1, <1>2 DEF CallInv, Written
<1>7. CASE Move(c, "decided") /\ log' = log
  <2>1. PICK n : n = [old EXCEPT !.stage = "decided"]
    OBVIOUS
  <2>2. /\ n.stage = "decided" /\ n.listed = old.listed
        /\ n = [old EXCEPT !.stage = n.stage, !.listed = n.listed]
    BY <1>2, <2>1 DEF Typed
  <2>3. Become(c, n)
    BY <1>1, <1>7, <2>1 DEF Move
  <2>4. Calls' /\ History' /\ Audited'
    BY <1>1, <1>2, <1>3, <1>5, <1>6, <1>7, <2>2, <2>3, MoveStep DEF Written
  <2>. QED BY <1>3, <1>4, <2>4 DEF EngineInv
<1>8. ASSUME NEW oldest, oldest = (CHOOSE e \in old.listed : \A f \in old.listed : e <= f),
             old.listed # {}, log' = log \ {oldest},
             Become(c, [old EXCEPT !.listed = @ \ {oldest}])
      PROVE  EngineInv'
  <2>1. oldest \in old.listed
    <3>1. old.listed \subseteq Nat
      BY <1>5
    <3>. QED BY <1>8, <3>1, LeastElement
  <2>2. Dropped(oldest)
    BY <1>5, <2>1
  <2>3. PICK n : n = [old EXCEPT !.listed = @ \ {oldest}]
    OBVIOUS
  <2>4. /\ n.stage = "rotate" /\ n.listed = old.listed \ {oldest}
        /\ n = [old EXCEPT !.stage = n.stage, !.listed = n.listed]
    BY <1>2, <2>3 DEF Typed
  <2>5. /\ \A x \in log : x \in log' \/ Dropped(x)
        /\ old.event \in log' \/ Dropped(old.event)
        /\ log' \subseteq log
    BY <1>6, <1>8, <2>2
  <2>6. Calls' /\ History' /\ Audited'
    BY <1>1, <1>2, <1>3, <1>5, <1>8, <2>3, <2>4, <2>5, MoveStep DEF Written
  <2>. QED BY <1>3, <1>4, <2>6 DEF EngineInv
<1>9. CASE Stop(c) /\ UNCHANGED log
  BY <1>3, <1>4, <1>9, StopStep DEF EngineInv
<1>. QED BY <1>1, <1>7, <1>8, <1>9 DEF Rotate

LEMMA RevalidateStep ==
  ASSUME EngineInv, NEW c \in Callers, Revalidate(c)
  PROVE  EngineInv'
<1>1. PICK old \in {eng[c]} : CallInv(old)
  BY DEF EngineInv, Calls
<1>2. old.stage = "decided" /\ old.stage \in Answered /\ Typed(old)
  BY <1>1 DEF Revalidate, At, CallInv, Answered
<1>3. /\ GrantsTyped' /\ WorldKept' /\ Counted' /\ status' = status /\ bound' = bound
      /\ events' = events /\ executed' = executed /\ log' = log
  BY DEF Revalidate, EngineInv, GrantsTyped, WorldKept, SameLayout, Counted, grantVars
<1>4. CASE IsAllowed(old) /\ Move(c, "authorized")
  <2>1. PICK n : n = [old EXCEPT !.stage = "authorized"]
    OBVIOUS
  <2>2. /\ n.stage = "authorized" /\ n.listed = old.listed
        /\ n = [old EXCEPT !.stage = n.stage, !.listed = n.listed]
    BY <1>2, <2>1 DEF Typed
  <2>3. Become(c, n)
    BY <1>1, <1>4, <2>1 DEF Move
  <2>4. /\ old.event \in log' \/ Dropped(old.event)
        /\ n.listed \subseteq {x \in 1..Len(events) : Dropped(x)}
    BY <1>1, <1>2, <1>3, <2>2 DEF CallInv, Written
  <2>5. Calls' /\ History' /\ Audited'
    BY <1>1, <1>2, <1>3, <1>4, <2>2, <2>3, <2>4, MoveStep DEF Written
  <2>. QED BY <1>3, <2>5 DEF EngineInv
<1>5. CASE Stop(c)
  BY <1>3, <1>5, StopStep DEF EngineInv
<1>. QED BY <1>1, <1>4, <1>5 DEF Revalidate

LEMMA ExecuteStep ==
  ASSUME EngineInv, NEW c \in Callers, Execute(c)
  PROVE  EngineInv'
<1>1. PICK old \in {eng[c]} : CallInv(old)
  BY DEF EngineInv, Calls
<1>2. old.stage = "authorized"
  BY <1>1 DEF Execute, At
<1>3. /\ GrantsTyped' /\ WorldKept' /\ Counted' /\ status' = status /\ bound' = bound
      /\ events' = events /\ log' = log
  BY DEF Execute, EngineInv, GrantsTyped, WorldKept, SameLayout, Counted, grantVars
<1>4. Grows
  BY <1>3 DEF Grows
<1>5. Calls'
  BY <1>4, RestingInv, CallsStep DEF EngineInv, Execute, Stop
<1>6. History'
  BY <1>3, <1>4, HistoryFrame DEF EngineInv
<1>7. /\ old.event \in 1..Len(events) /\ events[old.event].result = "authorized"
      /\ old.event \in log \/ Dropped(old.event)
  BY <1>1, <1>2 DEF CallInv, Answered, Written, EventOf
<1>8. executed' = executed \union {old.event}
  BY <1>1 DEF Execute
<1>9. Audited'
  BY <1>3, <1>7, <1>8 DEF EngineInv, Audited, Dropped
<1>. QED BY <1>3, <1>5, <1>6, <1>9 DEF EngineInv

LEMMA ChangeStep ==
  ASSUME EngineInv, (\E content \in Contents : EditFile(content)) \/ MoveHead
  PROVE  EngineInv'
<1>1. /\ status' = status /\ bound' = bound /\ failures' = failures /\ eng' = eng
      /\ log' = log /\ events' = events /\ executed' = executed
      /\ changes < MaxChanges /\ changes' = changes + 1
  BY DEF EditFile, MoveHead, grantVars
<1>2. Grows
  BY <1>1 DEF Grows
<1>3. Calls' /\ History' /\ Audited'
  BY <1>1, <1>2, CallsFrame, HistoryFrame, AuditedFrame DEF EngineInv
<1>4. WorldFields \subseteq DOMAIN world /\ SameLayout(world)
  BY DEF EngineInv, WorldKept
<1>5. "dirs" \in DOMAIN world /\ "inside" \in DOMAIN world /\ "runs" \in DOMAIN world
      /\ "leases" \in DOMAIN world
  BY <1>4 DEF WorldFields
<1>6. /\ DOMAIN world' = DOMAIN world
      /\ world'.dirs = world.dirs /\ world'.inside = world.inside
      /\ world'.runs = world.runs /\ world'.leases = world.leases
  <2>1. CASE MoveHead
    BY <1>5, <2>1 DEF MoveHead
  <2>2. ASSUME NEW content \in Contents, EditFile(content)
        PROVE  /\ DOMAIN world' = DOMAIN world
               /\ world'.dirs = world.dirs /\ world'.inside = world.inside
               /\ world'.runs = world.runs /\ world'.leases = world.leases
    BY <1>5, <2>2 DEF EditFile
  <2>. QED BY <2>1, <2>2
<1>7. WorldKept'
  BY <1>4, <1>6 DEF WorldKept, SameLayout
<1>8. GrantsTyped' /\ Counted'
  BY <1>1, EngineAssumption DEF EngineInv, GrantsTyped, Counted
<1>. QED BY <1>3, <1>7, <1>8 DEF EngineInv

LEMMA CrashStep ==
  ASSUME EngineInv, NEW c \in Callers, EngineCrash(c)
  PROVE  EngineInv'
<1>1. PICK old \in {eng[c]} : CallInv(old)
  BY DEF EngineInv, Calls
<1>2. /\ Stop(c) /\ WorldKept' /\ events' = events /\ log' = log /\ executed' = executed
  BY DEF EngineCrash, EngineInv, WorldKept, SameLayout
<1>3. Counted'
  BY EngineAssumption DEF EngineCrash, EngineInv, Counted, Failure
<1>4. CASE UNCHANGED grantVars
  <2>1. GrantsTyped' /\ status' = status /\ bound' = bound
    BY <1>4 DEF EngineInv, GrantsTyped, grantVars
  <2>. QED BY <1>2, <1>3, <2>1, StopStep DEF EngineInv
<1>5. CASE At(c, "consuming") /\ Grant!Spend(eng[c].req.approval, "lost")
  <2>1. old.req.approval \in Grants /\ Grant!Spend(old.req.approval, "lost")
    BY <1>1, <1>5 DEF At, CallInv
  <2>2. /\ GrantsTyped'
        /\ \A h \in Grants : status[h] = "granted" => status'[h] = "granted" /\ bound'[h] = bound[h]
    BY <2>1, SpendFacts DEF EngineInv
  <2>. QED BY <1>2, <1>3, <2>2, StopStep DEF EngineInv
<1>. QED BY <1>4, <1>5 DEF EngineCrash

LEMMA EngineInvInit == EngineInit => EngineInv
<1>. SUFFICES ASSUME EngineInit
              PROVE  EngineInv
  OBVIOUS
<1>1. Typed(Resting) /\ Resting.stage = "idle" /\ Resting.event = 0 /\ Resting.listed = {}
  BY DEF Typed, Resting, Stages
<1>2. CallInv(Resting)
  BY <1>1 DEF CallInv, Answered, Written
<1>3. Calls
  BY <1>2 DEF EngineInit, Calls
<1>4. events \in Seq({}) /\ Len(events) = 0
  BY DEF EngineInit
<1>5. History
  BY <1>4 DEF History
<1>6. Audited
  BY DEF EngineInit, Audited
<1>7. GrantsTyped
  BY DEF EngineInit, GrantsTyped, Grant!Init
<1>8. WorldKept
  BY WorldAssumption DEF EngineInit, WorldKept, SameLayout
<1>9. Counted
  BY EngineAssumption DEF EngineInit, Counted
<1>. QED BY <1>3, <1>5, <1>6, <1>7, <1>8, <1>9 DEF EngineInv

LEMMA EngineInvNext == EngineInv /\ [EngineNext]_engineVars => EngineInv'
<1>. SUFFICES ASSUME EngineInv, [EngineNext]_engineVars
              PROVE  EngineInv'
  OBVIOUS
<1>1. ASSUME NEW c \in Callers, NEW ask \in Asks, Observe(c, ask)
      PROVE  EngineInv'
  BY <1>1, ObserveStep
<1>2. ASSUME NEW c \in Callers, NEW g \in Grants, IssueApproval(c, g)
      PROVE  EngineInv'
  BY <1>2, IssueStep
<1>3. ASSUME NEW c \in Callers, EngineStep(c)
      PROVE  EngineInv'
  BY <1>3, CheckStep, ConsumeStep, CreateStep, ListStep, RotateStep, RevalidateStep, ExecuteStep
     DEF EngineStep
<1>4. ASSUME NEW c \in Callers, EngineCrash(c)
      PROVE  EngineInv'
  BY <1>4, CrashStep
<1>5. CASE (\E content \in Contents : EditFile(content)) \/ MoveHead
  BY <1>5, ChangeStep
<1>6. CASE UNCHANGED engineVars
  <2>1. /\ status' = status /\ bound' = bound /\ failures' = failures /\ eng' = eng
        /\ log' = log /\ events' = events /\ executed' = executed
        /\ changes' = changes /\ world' = world
    BY <1>6 DEF engineVars, grantVars
  <2>2. Grows
    BY <2>1 DEF Grows
  <2>3. Calls' /\ History' /\ Audited'
    BY <2>1, <2>2, CallsFrame, HistoryFrame, AuditedFrame DEF EngineInv
  <2>. QED BY <2>1, <2>3 DEF EngineInv, GrantsTyped, WorldKept, SameLayout, Counted
<1>. QED BY <1>1, <1>2, <1>3, <1>4, <1>5, <1>6 DEF EngineNext

(* The inductive invariant says what the run checks.                        *)
LEMMA EventsNewer ==
  ASSUME NEW n \in Nat, NEW e \in 1..n
  PROVE  Cardinality({f \in 1..n : f > e}) = n - e
<1>1. {f \in 1..n : f > e} = (e + 1)..n
  OBVIOUS
<1>2. e + 1 \in Int /\ n \in Int
  OBVIOUS
<1>3. Cardinality((e + 1)..n) = IF e + 1 > n THEN 0 ELSE n - (e + 1) + 1
  BY <1>2, FS_Interval
<1>4. (IF e + 1 > n THEN 0 ELSE n - (e + 1) + 1) = n - e
  OBVIOUS
<1>. QED BY <1>1, <1>3, <1>4, Zenon

LEMMA EngineInvImplies == EngineInv => ExecutedIsAuthorized
<1>. SUFFICES ASSUME EngineInv
              PROVE  ExecutedIsAuthorized
  OBVIOUS
<1>0. Len(events) \in Nat
  BY EventsGrow DEF EngineInv, History
<1>1. EngineTypeOK
  <2>1. ASSUME NEW c \in Callers
        PROVE  /\ eng[c].stage \in Stages
               /\ eng[c].event \in 0..Len(events)
               /\ eng[c].listed \subseteq 1..Len(events)
    <3>1. PICK e \in {eng[c]} : CallInv(e)
      BY DEF EngineInv, Calls
    <3>. QED BY <1>0, <3>1 DEF CallInv, Typed
  <2>. QED BY <2>1 DEF EngineInv, Audited, Counted, GrantsTyped, EngineTypeOK
<1>2. OneExecutionPerGrant
  <2>1. \A e \in executed : e \in 1..Len(events) /\ events[e].result = "authorized"
    BY DEF EngineInv, Audited
  <2>. QED BY <2>1 DEF OneExecutionPerGrant, EngineInv, History
<1>3. ASSUME NEW c \in Callers, At(c, "authorized")
      PROVE  \E e \in {eng[c]} :
               /\ e.event \in 1..Len(events) /\ events[e.event].result = "authorized"
               /\ e.event \in log \/ Dropped(e.event)
               /\ OnGrant(e) /\ ByRule(e) /\ e.decision.kind = "allow"
  <2>1. PICK e \in {eng[c]} : CallInv(e)
    BY DEF EngineInv, Calls
  <2>2. e.stage = "authorized"
    BY <1>3 DEF At
  <2>. QED BY <2>1, <2>2 DEF CallInv, Answered, Written, EventOf, IsAllowed
<1>4. OriginalNeedsGrant
  BY <1>3 DEF OriginalNeedsGrant, OnGrant, ByRule
<1>5. ConfinedToLease
  <2>. SUFFICES ASSUME NEW c \in Callers, At(c, "authorized"), eng[c].approval # "consumed",
                       eng[c].req.action.kind \in Effects
                PROVE  LET r == eng[c].req IN
                       \E run \in DOMAIN world.leases :
                         LET lease == world.leases[run] IN
                         /\ lease # None
                         /\ lease.request = r.id /\ lease.source = r.root
                         /\ lease.head = r.boundary.head
                         /\ world.runs[run] = lease.path /\ lease.path \in world.dirs
                         /\ Under(world, r.action.root, lease.path) /\ r.action.root # r.root
                         /\ \A i \in DOMAIN eng[c].paths :
                              /\ eng[c].paths[i].found.type \in {"file", "directory", "missing"}
                              /\ ~eng[c].paths[i].path.sensitive
    BY DEF ConfinedToLease, Effects
  <2>1. PICK r, paths : r = eng[c].req /\ paths = eng[c].paths
    OBVIOUS
  <2>2. Confined(r, World0, paths)
    BY <1>3, <2>1 DEF ByRule
  <2>3. PICK run \in DOMAIN World0.leases :
          /\ LeasedTo(r, World0, run)
          /\ Under(World0, r.action.root, World0.leases[run].path)
          /\ r.action.root # r.root
    BY <2>2 DEF Confined
  <2>4. SameLayout(world)
    BY DEF EngineInv, WorldKept
  <2>5. \A i \in DOMAIN paths : paths[i].found.type \in {"file", "directory", "missing"} /\ ~paths[i].path.sensitive
    BY <2>2 DEF Confined, PlainPath
  <2>6. /\ run \in DOMAIN world.leases
        /\ LeasedTo(r, world, run) /\ Under(world, r.action.root, world.leases[run].path)
    BY <2>3, <2>4 DEF LeasedTo, Under, SameLayout
  <2>. QED BY <2>1, <2>3, <2>5, <2>6 DEF LeasedTo
<1>6. ExecutedIsAudited
  <2>. SUFFICES ASSUME NEW e \in executed \union {eng[c].event : c \in {d \in Callers : At(d, "authorized")}}
                PROVE  /\ events[e].result = "authorized"
                       /\ e \in log \/ Cardinality({f \in 1..Len(events) : f > e}) >= MaxEvents
    BY DEF ExecutedIsAudited
  <2>1. /\ e \in 1..Len(events) /\ events[e].result = "authorized"
        /\ e \in log \/ Dropped(e)
    <3>1. CASE e \in executed
      BY <3>1 DEF EngineInv, Audited
    <3>2. ASSUME NEW c \in Callers, At(c, "authorized"), e = eng[c].event
          PROVE  /\ e \in 1..Len(events) /\ events[e].result = "authorized"
                 /\ e \in log \/ Dropped(e)
      BY <1>3, <3>2
    <3>. QED BY <3>1, <3>2
  <2>2. Cardinality({f \in 1..Len(events) : f > e}) = Len(events) - e
    BY <1>0, <2>1, EventsNewer
  <2>. QED BY <2>1, <2>2 DEF Dropped
<1>. QED BY <1>1, <1>2, <1>4, <1>5, <1>6 DEF ExecutedIsAuthorized

LEMMA EngineInvAlways == EngineSpec => []EngineInv
BY EngineInvInit, EngineInvNext, PTL DEF EngineSpec

(* PolicyEngine::check, revalidate and AuditStore, with PolicySession's     *)
(* authorize: however callers race, crash and retry, what executes was      *)
(* authorized on a grant of its own or inside its own lease, and its event  *)
(* is in the log or was rotated out for MAX_AUDIT_EVENTS newer ones.        *)
THEOREM ExecutedIsAuthorizedHolds == EngineSpec => []ExecutedIsAuthorized
BY EngineInvAlways, EngineInvImplies, PTL

(* A step of a caller moves that caller alone.                              *)
OwnStep(c) ==
  \/ \E ask \in Asks : Observe(c, ask)
  \/ \E g \in Grants : IssueApproval(c, g)
  \/ EngineStep(c)
  \/ EngineCrash(c)

LEMMA OwnStepMoves ==
  ASSUME NEW c \in Callers, OwnStep(c)
  PROVE  \E n : Become(c, n)
<1>1. CASE \E ask \in Asks : Observe(c, ask)
  BY <1>1 DEF Observe
<1>2. CASE (\E g \in Grants : IssueApproval(c, g)) \/ EngineCrash(c)
  BY <1>2 DEF IssueApproval, EngineCrash, Stop
<1>3. CASE Check(c)
  BY <1>3 DEF Check, Decided, Stop
<1>4. CASE ConsumeGrant(c)
  BY <1>4 DEF ConsumeGrant, Approved, Refused, Decided
<1>5. CASE CreateEvent(c) \/ ListEvents(c) \/ Rotate(c)
  BY <1>5 DEF CreateEvent, ListEvents, Rotate, Move, Stop
<1>6. CASE Revalidate(c) \/ Execute(c)
  BY <1>6 DEF Revalidate, Execute, Move, Stop
<1>. QED BY <1>1, <1>2, <1>3, <1>4, <1>5, <1>6 DEF OwnStep, EngineStep

(* PolicyPreflight::revalidate: when a caller is told to go ahead, every    *)
(* file of its decision is as the rules saw it, and a consumed grant was    *)
(* bound to just those files.                                               *)
THEOREM AuthorizedIsCurrentHolds == EngineSpec => AuthorizedIsCurrent
<1>. DEFINE Current ==
       \A c \in Callers :
         At(c, "decided") /\ eng'[c].stage = "authorized" =>
           /\ \A i \in DOMAIN eng[c].paths :
                LET p == eng[c].paths[i] IN Entry(world, p.root, p.path) = p.found
           /\ eng[c].approval = "consumed" =>
                bound[eng[c].req.approval] = Binding(eng[c].req, eng[c].paths)
<1>1. EngineInv /\ [EngineNext]_engineVars => Current
  <2>. SUFFICES ASSUME EngineInv, [EngineNext]_engineVars, NEW c \in Callers,
                       At(c, "decided"), eng'[c].stage = "authorized"
                PROVE  /\ \A i \in DOMAIN eng[c].paths :
                            LET p == eng[c].paths[i] IN Entry(world, p.root, p.path) = p.found
                       /\ eng[c].approval = "consumed" =>
                            bound[eng[c].req.approval] = Binding(eng[c].req, eng[c].paths)
    OBVIOUS
  <2>1. PICK old \in {eng[c]} : CallInv(old)
    BY DEF EngineInv, Calls
  <2>2. old.stage = "decided" /\ OnGrant(old)
    BY <2>1 DEF At, CallInv, Answered
  <2>3. Revalidate(c) /\ Unchanged(old)
    <3>1. eng'[c] # old /\ ~Stop(c)
      BY <2>2 DEF Stop, Become, Resting, EngineInv, Calls
    <3>2. ASSUME NEW d \in Callers, NEW n, Become(d, n)
          PROVE  d = c
      BY <2>1, <3>1, <3>2 DEF EngineInv, Calls, Become
    <3>3. \A d \in Callers : OwnStep(d) => d = c
      BY <3>2, OwnStepMoves
    <3>4. OwnStep(c)
      BY <2>1, <3>1, <3>3 DEF EngineNext, OwnStep, EditFile, MoveHead, engineVars
    <3>5. Revalidate(c)
      BY <2>1, <2>2, <3>1, <3>4 DEF OwnStep, EngineStep, At, Observe, IssueApproval, Check,
         ConsumeGrant, CreateEvent, ListEvents, Rotate, Execute, EngineCrash
    <3>. QED BY <2>1, <3>1, <3>5 DEF Revalidate
  <2>4. \A i \in DOMAIN old.paths : StillSafe(world, old.paths[i])
    BY <2>1, <2>3 DEF Revalidate, Unchanged, Stop, Become
  <2>5. \A i \in DOMAIN old.paths : Entry(world, old.paths[i].root, old.paths[i].path) = old.paths[i].found
    <3>1. ASSUME NEW report, StillSafe(world, report)
          PROVE  Entry(world, report.root, report.path) = report.found
      <4>1. [root |-> report.root, path |-> report.path,
             found |-> Entry(world, report.root, report.path)] = report
        BY <3>1 DEF StillSafe, Report
      <4>. QED BY <4>1
    <3>. QED BY <2>4, <3>1
  <2>. QED BY <2>1, <2>2, <2>5 DEF OnGrant
<1>. QED BY <1>1, EngineInvAlways, PTL DEF EngineSpec, AuthorizedIsCurrent
=============================================================================
