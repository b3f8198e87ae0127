------------------------------ MODULE JavaEdits ------------------------------
(***************************************************************************)
(* The legacy Java edits (crates/opticcode-tools/src/java_edits/) and their *)
(* verification (crates/opticcode-tools/src/java_edit_worktree.rs).  A run  *)
(* indexes the source, reads again the files it would edit, proposes edits, *)
(* and proves them in a disposable worktree: the edits are proposed once    *)
(* more there and must be the same, they are materialized, applied by the   *)
(* transaction engine, read back, built, and compared with what Git sees at *)
(* the end.  The user edits and commits in the source, and a process of the *)
(* build may write into the worktree, between any two of these steps.       *)
(* A text is the sequence of its member references, each one a kind: what   *)
(* the index and the catalogue of rules make of it.                         *)
(***************************************************************************)
EXTENDS Integers, Sequences, FiniteSets

CONSTANTS
  NJavaFiles,     \* the Java files of the project are 1..NJavaFiles
  JavaTexts,      \* texts a file may have
  MaxProposals,   \* options.max_proposals
  MaxTouches      \* bound on writes by other programs, and on faults

JavaFiles == 1 .. NJavaFiles

(* "edit": exact, proven, not shadowed; "legacy": no rule for it; "broken": *)
(* no reference, a syntax error.                                            *)
References == {"edit", "inexact", "wrong", "unproven", "shadowed", "legacy", "broken"}

ASSUME JavaAssumption ==
  /\ NJavaFiles \in Nat \ {0} /\ {MaxProposals, MaxTouches} \subseteq Nat
  /\ JavaTexts \subseteq Seq(References)

VARIABLES
  javaHead,   \* the commit HEAD names: the text of each file
  javaTree,   \* the working tree of the source
  javaWork,   \* the worktree, <<>> while there is none
  verify,     \* verify_java_edits_in_worktree: its local variables
  touches     \* writes by others and faults so far

javaVars == <<javaHead, javaTree, javaWork, verify, touches>>

NoReport == [complete |-> FALSE, truncated |-> FALSE, proposals |-> {}, rejections |-> {},
             validations |-> <<>>, counts |-> 0]

ProjectTexts == [JavaFiles -> JavaTexts]

JavaInit ==
  /\ javaHead \in ProjectTexts /\ javaTree = javaHead
  /\ javaWork = <<>>
  /\ verify = [at |-> "index", index |-> <<>>, snapshot |-> <<>>, source |-> NoReport,
               base |-> <<>>, again |-> NoReport, after |-> <<>>, failed |-> "none",
               postWrite |-> FALSE, worktree |-> "SetupFailed", unchanged |-> FALSE,
               status |-> "none"]
  /\ touches = 0

-----------------------------------------------------------------------------
(* propose_java_edits.                                                      *)

SyntaxValid(text) == \A i \in DOMAIN text : text[i] # "broken"

(* validate_file_edits: the members that have a rule get their old name.    *)
EditedText(text) == [i \in DOMAIN text |-> IF text[i] = "edit" THEN "legacy" ELSE text[i]]

(* The file is read again when a reference has come as far as that.         *)
NeedsSnapshot(text) == \E i \in DOMAIN text : text[i] \in {"edit", "shadowed"}

(* The reason a reference is not edited, in the order of the checks; "no"   *)
(* when there is none, "none" when no rule names its member.                *)
Rejection(ref, changed) ==
  CASE ref \in {"legacy", "broken"} -> "none"
    [] ref = "inexact" -> "NonExactResolution"
    [] ref = "wrong" -> "WrongTarget"
    [] ref = "unproven" -> "UnprovenQualifier"
    [] ref \in {"shadowed", "edit"} /\ changed -> "SourceChanged"
    [] ref = "shadowed" /\ ~changed -> "ShadowedQualifier"
    [] OTHER -> "no"

BlocksApplication(kind) == kind = "SourceChanged"

(* index: the texts the index was made from; read: the texts read again.    *)
ProposeJavaEdits(index, read) ==
  LET places == UNION {{f} \X DOMAIN index[f] : f \in JavaFiles}
      verdict(p) == Rejection(index[p[1]][p[2]], p[1] \in DOMAIN read /\ read[p[1]] # index[p[1]])
      found == {p \in places : verdict(p) = "no"}
      files == {p[1] : p \in found}
      over == Cardinality(found) > MaxProposals
  IN [complete |-> /\ \A f \in JavaFiles : SyntaxValid(index[f])
                   /\ \A p \in places : ~BlocksApplication(verdict(p))
                   /\ ~over,
      truncated |-> over,
      proposals |-> found,
      rejections |-> {<<p, verdict(p)>> : p \in {q \in places : verdict(q) \notin {"no", "none"}}},
      validations |-> [f \in files |-> [before |-> read[f], after |-> EditedText(read[f])]],
      counts |-> Cardinality(places)]

(* The index reads one file after the other.                                *)
IndexFile ==
  /\ verify.at = "index"
  /\ LET index == Append(verify.index, javaTree[Len(verify.index) + 1]) IN
     verify' = [verify EXCEPT !.index = index,
                              !.at = IF Len(index) = NJavaFiles THEN "snapshot" ELSE "index"]
  /\ UNCHANGED <<javaHead, javaTree, javaWork, touches>>

Unread == {f \in JavaFiles : NeedsSnapshot(verify.index[f])} \ DOMAIN verify.snapshot

(* read_source_snapshot.                                                    *)
SnapshotFile ==
  /\ verify.at = "snapshot"
  /\ \E f \in Unread :
       verify' = [verify EXCEPT !.snapshot =
                    [g \in DOMAIN @ \union {f} |-> IF g = f THEN javaTree[f] ELSE @[g]]]
  /\ UNCHANGED <<javaHead, javaTree, javaWork, touches>>

Usable(report) == report.complete /\ ~report.truncated

(* The report of the source, and the two early returns.                     *)
Propose ==
  /\ verify.at = "snapshot" /\ Unread = {}
  /\ LET report == ProposeJavaEdits(verify.index, verify.snapshot) IN
     verify' = [verify EXCEPT !.source = report,
       !.at = IF ~Usable(report) THEN "ended" ELSE IF report.proposals = {} THEN "noop" ELSE "tree",
       !.status = IF Usable(report) THEN "none" ELSE "SourceAnalysisFailed"]
  /\ UNCHANGED <<javaHead, javaTree, javaWork, touches>>

SourceClean == javaTree = javaHead

NothingToEdit ==
  /\ verify.at = "noop"
  /\ verify' = [verify EXCEPT !.at = "ended",
                              !.status = IF SourceClean THEN "NoChanges" ELSE "Precondition"]
  /\ UNCHANGED <<javaHead, javaTree, javaWork, touches>>

-----------------------------------------------------------------------------
(* verify_in_disposable_worktree_with_apply, as far as it decides about     *)
(* these edits; module Worktree has its leases, cleanup and cancellation.   *)

FailRun(status) == verify' = [verify EXCEPT !.worktree = status, !.at = "capture"]
FailEdits(failed) ==
  verify' = [verify EXCEPT !.worktree = "ApplyFailed", !.failed = failed, !.at = "capture"]

ReadClean ==
  /\ verify.at = "tree"
  /\ verify' = [verify EXCEPT !.at = IF SourceClean THEN "head" ELSE "ended",
                              !.status = IF SourceClean THEN "none" ELSE "Precondition"]
  /\ UNCHANGED <<javaHead, javaTree, javaWork, touches>>

ReadHead ==
  /\ verify.at = "head"
  /\ verify' = [verify EXCEPT !.base = javaHead, !.at = "add"]
  /\ UNCHANGED <<javaHead, javaTree, javaWork, touches>>

Fault == touches < MaxTouches /\ touches' = touches + 1

(* git worktree add --detach <commit>; it fails, or the run is cancelled.   *)
AddWorktree ==
  /\ verify.at = "add"
  /\ \/ /\ javaWork' = verify.base /\ UNCHANGED touches
        /\ verify' = [verify EXCEPT !.at = "revalidate"]
     \/ Fault /\ UNCHANGED javaWork /\ \E s \in {"SetupFailed", "Cancelled"} : FailRun(s)
  /\ UNCHANGED <<javaHead, javaTree>>

(* Mutant: the two reports are compared by their number of proposals.       *)
SameCount(again) ==
  Usable(again) /\ Cardinality(again.proposals) = Cardinality(verify.source.proposals)

(* contract_matches: proposal_contract_fingerprint is over every field that *)
(* is not a path of the root, a time or a warning.                          *)
ContractMatches(again) == Usable(again) /\ again = verify.source

RevalidateEdits ==
  /\ verify.at = "revalidate"
  /\ LET read == [f \in {g \in JavaFiles : NeedsSnapshot(javaWork[g])} |-> javaWork[f]]
         again == ProposeJavaEdits(javaWork, read)
     IN IF ContractMatches(again)
        THEN verify' = [verify EXCEPT !.again = again, !.at = "materialize"]
        ELSE FailEdits("RevalidationFailed")
  /\ UNCHANGED <<javaHead, javaTree, javaWork, touches>>

EditedFiles == DOMAIN verify.again.validations

(* materialize_java_edits: each file is read once more, by its hash.        *)
Materialize ==
  /\ verify.at = "materialize"
  /\ IF \A f \in EditedFiles : javaWork[f] = verify.again.validations[f].before
     THEN verify' = [verify EXCEPT !.at = "apply"]
     ELSE FailEdits("MaterializationFailed")
  /\ UNCHANGED <<javaHead, javaTree, javaWork, touches>>

(* execute_apply_transaction under RequireClean: all of the files or none   *)
(* (module ApplyTransaction).                                               *)
ApplyEdits ==
  /\ verify.at = "apply"
  /\ \/ /\ javaWork = verify.base
        /\ javaWork' = [f \in JavaFiles |-> IF f \in EditedFiles THEN verify.again.validations[f].after
                                            ELSE javaWork[f]]
        /\ verify' = [verify EXCEPT !.at = "postwrite"] /\ UNCHANGED touches
     \/ javaWork # verify.base /\ FailRun("ApplyFailed") /\ UNCHANGED <<javaWork, touches>>
     \/ Fault /\ FailRun("ApplyFailed") /\ UNCHANGED javaWork
  /\ UNCHANGED <<javaHead, javaTree>>

(* validate_post_write.                                                     *)
PostWrite ==
  /\ verify.at = "postwrite"
  /\ IF \A f \in EditedFiles : javaWork[f] = verify.again.validations[f].after
     THEN verify' = [verify EXCEPT !.postWrite = TRUE, !.at = "build"]
     ELSE FailEdits("PostWriteValidationFailed")
  /\ UNCHANGED <<javaHead, javaTree, javaWork, touches>>

(* The build, under its strict Git guard; or the run is cancelled.          *)
BuildProject ==
  /\ verify.at = "build"
  /\ \/ verify' = [verify EXCEPT !.worktree = "Passed", !.at = "capture"] /\ UNCHANGED touches
     \/ Fault /\ \E s \in {"BuildFailed", "Cancelled"} : FailRun(s)
  /\ UNCHANGED <<javaHead, javaTree, javaWork>>

(* worktree_after, when there is a worktree; then it is removed.            *)
CaptureWork ==
  /\ verify.at = "capture"
  /\ \/ verify' = [verify EXCEPT !.after = javaWork, !.at = "reread"] /\ UNCHANGED touches
     \/ /\ Fault
        /\ verify' = [verify EXCEPT !.at = "reread",
                        !.worktree = IF @ = "Passed" THEN "VerificationFailed" ELSE @]
  /\ javaWork' = <<>>
  /\ UNCHANGED <<javaHead, javaTree>>

RereadTree ==
  /\ verify.at = "reread"
  /\ verify' = [verify EXCEPT !.unchanged = SourceClean, !.at = "rehead"]
  /\ UNCHANGED <<javaHead, javaTree, javaWork, touches>>

-----------------------------------------------------------------------------
(* validate_final_git_state: every edited file is a change with its         *)
(* content, and there is no other one.                                      *)
FinalGitState ==
  /\ verify.after # <<>>
  /\ {f \in JavaFiles : verify.after[f] # verify.base[f]} = EditedFiles
  /\ \A f \in EditedFiles : verify.after[f] = verify.again.validations[f].after

(* derive_status.                                                           *)
DeriveStatus(worktree) ==
  CASE verify.failed # "none" -> verify.failed
    [] verify.failed = "none" /\ verify.postWrite /\ ~FinalGitState -> "FinalGitValidationFailed"
    [] OTHER -> worktree

RereadHead ==
  /\ verify.at = "rehead"
  /\ LET worktree == IF verify.unchanged /\ javaHead = verify.base THEN verify.worktree
                     ELSE "SourceChanged"
     IN verify' = [verify EXCEPT !.worktree = worktree, !.status = DeriveStatus(worktree),
                                 !.at = "ended"]
  /\ UNCHANGED <<javaHead, javaTree, javaWork, touches>>

(* semantic_success && worktree.verification_success.                       *)
VerificationSuccess ==
  \/ verify.status = "NoChanges"
  \/ /\ verify.at = "ended" /\ verify.failed = "none"
     /\ verify.postWrite /\ FinalGitState /\ verify.worktree = "Passed"

-----------------------------------------------------------------------------
(* The user edits a file or commits; a build process writes in the worktree.*)
UserWrites ==
  /\ Fault /\ verify.at # "ended"
  /\ \/ \E f \in JavaFiles, t \in JavaTexts :
          javaTree' = [javaTree EXCEPT ![f] = t] /\ UNCHANGED <<javaHead, javaWork>>
     \/ javaHead' = javaTree /\ UNCHANGED <<javaTree, javaWork>>
     \/ javaTree' = javaHead /\ UNCHANGED <<javaHead, javaWork>>
     \/ /\ javaWork # <<>>
        /\ \E f \in JavaFiles, t \in JavaTexts : javaWork' = [javaWork EXCEPT ![f] = t]
        /\ UNCHANGED <<javaHead, javaTree>>
  /\ UNCHANGED verify

JavaNext ==
  \/ IndexFile \/ SnapshotFile \/ Propose \/ NothingToEdit
  \/ ReadClean \/ ReadHead \/ AddWorktree \/ RevalidateEdits \/ Materialize \/ ApplyEdits
  \/ PostWrite \/ BuildProject \/ CaptureWork \/ RereadTree \/ RereadHead
  \/ UserWrites

JavaSpec == JavaInit /\ [][JavaNext]_javaVars

-----------------------------------------------------------------------------
(* Type invariant of the variables.                                         *)
JavaTypeOK ==
  /\ {javaHead, javaTree} \subseteq ProjectTexts
  /\ javaWork = <<>> \/ DOMAIN javaWork = JavaFiles
  /\ verify.at \in {"index", "snapshot", "noop", "tree", "head", "add", "revalidate",
                    "materialize", "apply", "postwrite", "build", "capture", "reread",
                    "rehead", "ended"}
  /\ Cardinality(verify.again.proposals) <= MaxProposals
  /\ touches \in 0 .. MaxTouches

(* A verification that succeeds with edits has proved the edits of the text *)
(* it analysed: the worktree Git saw at the end holds, in each file with a  *)
(* proposal, the text the index read with every provable modern member      *)
(* renamed, and the committed text in every other file, whatever the user   *)
(* edited or committed and the build wrote between the steps.               *)
VerifiedAsAnalysed ==
  VerificationSuccess /\ verify.status # "NoChanges" =>
    /\ verify.status = "Passed"
    /\ \A f \in JavaFiles :
         IF \E i \in DOMAIN verify.index[f] : verify.index[f][i] = "edit"
         THEN verify.after[f] = EditedText(verify.index[f])
         ELSE verify.after[f] = verify.base[f]

(* A Java edit that reports success left in its worktree what was analysed, *)
(* on the commit it was analysed on.                                        *)
EditsAreVerified == JavaTypeOK /\ VerifiedAsAnalysed

=============================================================================
