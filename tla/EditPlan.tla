------------------------------ MODULE EditPlan ------------------------------
(***************************************************************************)
(* From a chat request to a stored edit proposal: run_fix of               *)
(* core/chat_edit_runtime.rs, with the trusted intent (edit/intent.rs),    *)
(* the checks of what the language model answers (edit/validation.rs) and  *)
(* the single correction of its format.  The model may answer anything,    *)
(* and the user may change the files between any two steps.                *)
(*                                                                         *)
(* A text is a sequence of bytes: "r" and "n" are CR and LF, "s" is what   *)
(* inspect_sensitive_text finds.  A hash stands for the text it is of.     *)
(***************************************************************************)
EXTENDS Integers, FiniteSets, Sequences, SequencesExt

CONSTANTS
  PlanFiles,      \* paths: portable (validate_relative_path of the intent),
                  \* extension (allowlisted), sensitive (sensitive_path)
  HeadTexts,      \* the text each path has in HEAD, or NoText
  NoText,         \* the text of a path with no file
  Referenced,     \* the paths the request refers to
  Operations,     \* the operations the model may write
  UserTexts,      \* the texts the user may put in place
  MaxOperations,  \* bound on the operations of an answer, and max_hunks
  MaxEditFiles,   \* max_files, MAX_EDIT_FILES
  MaxFileBytes,   \* max_file_bytes
  MaxLines,       \* max_changed_lines
  MaxUserEdits    \* bound on changes by the user

Text == Seq(STRING)
PlanPaths == {f.path : f \in PlanFiles}

ASSUME PlanAssumption ==
  /\ {MaxOperations, MaxEditFiles, MaxFileBytes, MaxLines, MaxUserEdits} \subseteq Nat
  /\ NoText \notin UserTexts

(* Texts are sequences of bytes; the operations are what the model may have *)
(* written for files that are known by their paths, with unsigned offsets.  *)
ASSUME TextsAssumption ==
  /\ HeadTexts \in [PlanPaths -> {NoText} \union Text]
  /\ UserTexts \subseteq Text
  /\ Referenced \subseteq PlanPaths
  /\ \A o \in Operations :
       /\ o.path \in PlanPaths /\ {o.start, o.end} \subseteq Nat
       /\ {o.old, o.new} \subseteq Text

VARIABLES
  tree,       \* the text of each path in the working tree
  fix,        \* the request: stage, intent, answer and what is validated of it
  userEdits   \* how often the user changed a file

planVars == <<tree, fix, userEdits>>

FileOf(path) == CHOOSE f \in PlanFiles : f.path = path

NoAnswer == [form |-> "none", bound |-> FALSE, creates |-> 0, operations |-> <<>>]

PlanInit ==
  /\ tree = HeadTexts
  /\ fix = [stage |-> "idle", intent |-> <<>>, answer |-> NoAnswer, todo |-> {}, files |-> {}]
  /\ userEdits = 0

Fail == fix' = [fix EXCEPT !.stage = "failed", !.files = {}]

-----------------------------------------------------------------------------
(* Texts.                                                                   *)

(* detect_line_ending.                                                      *)
DetectLineEnding(text) ==
  LET lf == {i \in DOMAIN text : text[i] = "n"}
      crlf == {i \in lf : i > 1 /\ text[i - 1] = "r"}
  IN CASE lf = {} -> "none"
       [] crlf = {} -> "lf"
       [] crlf = lf -> "crlf"
       [] OTHER -> "mixed"

(* line_count.                                                              *)
LineCount(text) ==
  IF text = <<>> THEN 0 ELSE 1 + Cardinality({i \in DOMAIN text : text[i] = "n"})

InspectSensitiveText(text) == "s" \in {text[i] : i \in DOMAIN text}

(* The bytes start..end of a text, which offsets count from 0.              *)
Bytes(text, start, end) == SubSeq(text, start + 1, end)

-----------------------------------------------------------------------------
(* The trusted side.  The request needs a clean working tree; every file it *)
(* refers to is read and becomes a target of the intent, with its hash.     *)
RequestFix ==
  /\ fix.stage = "idle"
  /\ IF tree = HeadTexts /\ Cardinality(Referenced) \in 1..MaxEditFiles
     THEN fix' = [fix EXCEPT !.stage = "trusting", !.todo = Referenced]
     ELSE Fail
  /\ UNCHANGED <<tree, userEdits>>

(* validate_relative_path of the intent, and validate_extension.            *)
PortablePath(path) == FileOf(path).portable
AllowedExtension(path) == FileOf(path).extension

(* validate_targets.                                                        *)
ValidTarget(path) == PortablePath(path) /\ AllowedExtension(path)

TrustFile(path) ==
  /\ fix.stage = "trusting" /\ path \in fix.todo
  /\ IF tree[path] # NoText /\ Len(tree[path]) <= MaxFileBytes
        /\ ~InspectSensitiveText(tree[path]) /\ DetectLineEnding(tree[path]) # "mixed"
     THEN fix' = [fix EXCEPT !.todo = @ \ {path},
                             !.intent = [p \in DOMAIN @ \union {path} |-> IF p = path THEN tree[p] ELSE @[p]]]
     ELSE Fail
  /\ UNCHANGED <<tree, userEdits>>

(* build_runtime_edit_intent and validate_edit_intent.                      *)
BuildIntent ==
  /\ fix.stage = "trusting" /\ fix.todo = {}
  /\ IF \A p \in Referenced : ValidTarget(p)
     THEN fix' = [fix EXCEPT !.stage = "intended"]
     ELSE Fail
  /\ UNCHANGED <<tree, userEdits>>

-----------------------------------------------------------------------------
(* What the model answers: prose, JSON of another shape, or a plan, whose   *)
(* identities may be wrong and which may claim the right to create a file.  *)
Answers ==
  [form : {"prose", "other_json"}, bound : {FALSE}, creates : {0}, operations : {<<>>}]
    \union
  [form : {"plan"}, bound : BOOLEAN, creates : 0..1,
   operations : UNION {[1..n -> Operations] : n \in 0..MaxOperations}]

(* The primary generation, and the one correction.                          *)
Generate ==
  /\ fix.stage \in {"intended", "correctable"}
  /\ \E answer \in Answers :
       fix' = [fix EXCEPT !.answer = answer,
                          !.stage = IF fix.stage = "intended" THEN "primary" ELSE "corrected"]
  /\ UNCHANGED <<tree, userEdits>>

GenerationFails ==
  /\ fix.stage \in {"intended", "correctable"}
  /\ Fail
  /\ UNCHANGED <<tree, userEdits>>

(* parse_edit_plan_json, and format_correctable.                            *)
ParseEditPlan ==
  /\ fix.stage \in {"primary", "corrected"}
  /\ CASE fix.answer.form = "plan" -> fix' = [fix EXCEPT !.stage = "parsed"]
       [] fix.answer.form # "plan" /\ fix.stage = "primary" -> fix' = [fix EXCEPT !.stage = "correctable"]
       [] OTHER -> Fail
  /\ UNCHANGED <<tree, userEdits>>

(* sensitive_path, and with validate_relative_path what a plan may name.    *)
SensitiveTarget(path) == FileOf(path).sensitive
PathAllowed(path) == AllowedExtension(path) /\ ~SensitiveTarget(path)

(* validate_envelope: every identity is the one of the request.             *)
EnvelopeMatches(answer) == answer.bound

TouchedPaths(answer) == {answer.operations[i].path : i \in DOMAIN answer.operations}
Creations(answer) == {i \in DOMAIN answer.operations : answer.operations[i].kind = "create"}

(* The head of validate_edit_plan: identities, limits, paths and counts.    *)
PlanAdmissible(answer) ==
  /\ EnvelopeMatches(answer)
  /\ Len(answer.operations) \in 1..MaxOperations
  /\ \A p \in TouchedPaths(answer) : PathAllowed(p)
  /\ Cardinality(TouchedPaths(answer)) <= MaxEditFiles
  /\ Cardinality(Creations(answer)) <= answer.creates

BeginValidation ==
  /\ fix.stage = "parsed"
  /\ IF PlanAdmissible(fix.answer)
     THEN fix' = [fix EXCEPT !.stage = "validating", !.todo = TouchedPaths(fix.answer)]
     ELSE Fail
  /\ UNCHANGED <<tree, userEdits>>

(* The operations on one path, in the order of the plan.                    *)
OperationsOn(answer, path) ==
  FoldLeft(LAMBDA on, o : IF o.path = path THEN Append(on, o) ELSE on, <<>>, answer.operations)

(* validate_range.                                                          *)
RangeValid(text, o) ==
  /\ o.start <= o.end /\ o.end <= Len(text)
  /\ Bytes(text, o.start, o.end) = o.old

(* Sorted by start, then by end, then as in the plan.                       *)
Before(ops, i, j) ==
  \/ ops[i].start < ops[j].start
  \/ ops[i].start = ops[j].start /\ ops[i].end < ops[j].end
  \/ ops[i].start = ops[j].start /\ ops[i].end = ops[j].end /\ i < j

Overlap(ops) ==
  \E i, j \in DOMAIN ops : i # j /\ Before(ops, i, j) /\ ops[i].end > ops[j].start

(* The sort by Reverse((start, end)), which keeps the order of equal ranges.*)
LastFirst(ops, i, j) ==
  \/ ops[i].start > ops[j].start
  \/ ops[i].start = ops[j].start /\ ops[i].end > ops[j].end
  \/ ops[i].start = ops[j].start /\ ops[i].end = ops[j].end /\ i < j

(* replace_range.                                                           *)
Replaced(text, o) == Bytes(text, 0, o.start) \o o.new \o Bytes(text, o.end, Len(text))

(* Applied from the last range to the first, one after the other.           *)
Proposed(text, ops) ==
  LET sorted == CHOOSE q \in [DOMAIN ops -> DOMAIN ops] :
                  \A i, j \in DOMAIN ops : i < j => LastFirst(ops, q[i], q[j])
  IN FoldLeft(LAMBDA t, i : Replaced(t, ops[i]), text, sorted)

(* validate_modification_group.                                             *)
ModificationValid(text, ops) ==
  /\ text # NoText /\ Len(text) <= MaxFileBytes /\ ~InspectSensitiveText(text)
  /\ DetectLineEnding(text) # "mixed"
  /\ \A i \in DOMAIN ops :
       /\ ops[i].kind = "modify" /\ ops[i].hash = text
       /\ RangeValid(text, ops[i]) /\ ~InspectSensitiveText(ops[i].new)
  /\ ~Overlap(ops)
  /\ LET proposed == Proposed(text, ops)
     IN /\ Len(proposed) <= MaxFileBytes
        /\ IF DetectLineEnding(text) = "none" THEN DetectLineEnding(proposed) # "mixed"
           ELSE DetectLineEnding(proposed) = DetectLineEnding(text)

(* validate_creation_group.                                                 *)
CreationValid(text, ops) ==
  /\ Len(ops) = 1 /\ ops[1].kind = "create"
  /\ Len(ops[1].new) <= MaxFileBytes /\ ~InspectSensitiveText(ops[1].new)
  /\ DetectLineEnding(ops[1].new) # "mixed"
  /\ text = NoText

(* One file is read, checked and changed in memory.                         *)
ValidateGroup(path) ==
  LET ops == OperationsOn(fix.answer, path)
      creates == \E i \in DOMAIN ops : ops[i].kind = "create"
      valid == IF creates THEN CreationValid(tree[path], ops) ELSE ModificationValid(tree[path], ops)
      snapshot == [path |-> path, base |-> tree[path],
                   proposed |-> IF creates THEN ops[1].new ELSE Proposed(tree[path], ops)]
  IN /\ fix.stage = "validating" /\ path \in fix.todo
     /\ IF valid THEN fix' = [fix EXCEPT !.todo = @ \ {path}, !.files = @ \union {snapshot}] ELSE Fail
     /\ UNCHANGED <<tree, userEdits>>

(* estimate_group_lines.                                                    *)
EstimatedLines(answer) ==
  FoldLeft(LAMBDA n, o : n + LineCount(o.new) + LineCount(o.old), 0, answer.operations)

(* Mutant: a file of the intent may be changed whatever text it was read    *)
(* with.                                                                    *)
TargetOfAnyText(path, base) == path \in DOMAIN fix.intent

(* A target of the intent, with the hash it has there.                      *)
TargetAllowed(path, base) == path \in DOMAIN fix.intent /\ fix.intent[path] = base

(* validate_edit_plan_against_authority: the intent of a chat only lets     *)
(* existing files be modified, so max_created_files is 0.                   *)
AuthorityAllows ==
  /\ fix.answer.creates = 0
  /\ \A s \in fix.files : s.base # NoText /\ TargetAllowed(s.path, s.base)

(* The tail of validate_edit_plan, the intent, and the store.               *)
StorePlan ==
  /\ fix.stage = "validating" /\ fix.todo = {}
  /\ IF EstimatedLines(fix.answer) <= MaxLines /\ AuthorityAllows
     THEN fix' = [fix EXCEPT !.stage = "stored"]
     ELSE Fail
  /\ UNCHANGED <<tree, userEdits>>

-----------------------------------------------------------------------------
UserEdits(path, text) ==
  /\ userEdits < MaxUserEdits
  /\ userEdits' = userEdits + 1
  /\ tree' = [tree EXCEPT ![path] = text]
  /\ UNCHANGED fix

PlanNext ==
  \/ RequestFix \/ BuildIntent \/ Generate \/ GenerationFails \/ ParseEditPlan
  \/ BeginValidation \/ StorePlan
  \/ \E p \in PlanPaths :
       TrustFile(p) \/ ValidateGroup(p) \/ \E t \in UserTexts : UserEdits(p, t)

PlanSpec == PlanInit /\ [][PlanNext]_planVars

-----------------------------------------------------------------------------
(* Properties.                                                              *)

PlanTypeOK ==
  /\ DOMAIN tree = PlanPaths
  /\ userEdits \in 0..MaxUserEdits
  /\ fix.stage \in {"idle", "trusting", "intended", "primary", "correctable", "corrected",
                    "parsed", "validating", "stored", "failed"}
  /\ DOMAIN fix.intent \subseteq Referenced
  /\ fix.todo \subseteq PlanPaths

(* A text put together from left to right: what lies between the ranges of  *)
(* the operations is kept, and each range gives way to its replacement.     *)
Piece(text, made, o) ==
  [text |-> made.text \o Bytes(text, made.at, o.start) \o o.new, at |-> o.end]

Assembled(text, ops, order) ==
  LET made == FoldLeft(LAMBDA m, i : Piece(text, m, ops[i]), [text |-> <<>>, at |-> 0], order)
  IN made.text \o Bytes(text, made.at, Len(text))

(* What a stored proposal would write is its plan applied to the text read: *)
(* no operation falls on bytes another one moved, none is lost, and the     *)
(* file keeps its kind of line ending.                                      *)
ProposedAsPlanned ==
  fix.stage = "stored" =>
    \A s \in fix.files :
      LET ops == OperationsOn(fix.answer, s.path)
          orders == {o \in [DOMAIN ops -> DOMAIN ops] :
                       \A i, j \in DOMAIN ops : i < j =>
                         o[i] # o[j] /\ ops[o[i]].end <= ops[o[j]].start}
      IN /\ \E order \in orders : s.proposed = Assembled(s.base, ops, order)
         /\ DetectLineEnding(s.base) # "none" => DetectLineEnding(s.proposed) = DetectLineEnding(s.base)

(* Whatever the model answers, however its answer was corrected and         *)
(* whatever the user did meanwhile, a stored proposal changes files that    *)
(* the user referred to and nothing else, each from the text that was       *)
(* shown to the model.                                                      *)
ConfinedToIntent ==
  fix.stage = "stored" =>
    /\ fix.files # {}
    /\ \A s \in fix.files : s.path \in Referenced /\ s.base = fix.intent[s.path]

(* A stored proposal is the plan the model made, applied as written, to     *)
(* the files and texts the user referred to and to no other.                *)
PlanIsFaithful == PlanTypeOK /\ ProposedAsPlanned /\ ConfinedToIntent

=============================================================================
