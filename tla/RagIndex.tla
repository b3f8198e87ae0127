------------------------------ MODULE RagIndex ------------------------------
(***************************************************************************)
(* The local RAG index (crates/opticcode-tools/src/rag/index.rs and        *)
(* policy.rs) and the reader of files that a chat refers to                *)
(* (rag/reference.rs).  Builds of one index directory may overlap, a build *)
(* that fails or is killed leaves its files behind, the next one clears    *)
(* them away, and the user edits the sources all along.  Searches read the *)
(* published generation meanwhile.                                         *)
(*                                                                         *)
(* A text is told apart by what the policy tells apart: "plain", "secret"  *)
(* (detect_secret finds something), "split" (only in one of its chunks it  *)
(* does), "outside" (reached through a link).  It is read in two halves.   *)
(***************************************************************************)
EXTENDS Integers, FiniteSets, Sequences

CONSTANTS
  Builders,     \* processes that run rag-index
  Searchers,    \* processes that search
  Referrers,    \* chat requests that resolve a file reference
  Entries,      \* the source files: path, place, name, extension, large, utf8
  Edited,       \* the paths the user changes
  NoGeneration, \* no published generation; undefined
  MaxBuilds,    \* bound on builds
  MaxSearches,  \* bound on searches
  MaxRequests,  \* bound on file references resolved
  MaxEdits,     \* bound on changes of the sources
  MaxFaults     \* bound on killed builds, I/O errors and damaged files

ASSUME RagAssumption ==
  /\ {MaxBuilds, MaxSearches, MaxRequests, MaxEdits, MaxFaults} \subseteq Nat
  /\ Builders \intersect Referrers = {}

VARIABLES
  source,       \* each source file: is it a link, its text, its fingerprint
  staging,      \* the .staging- directories
  temps,        \* the .CURRENT- temporaries
  generations,  \* the generations, by identifier: documents, and the chunk file
  current,      \* the CURRENT pointer
  build,        \* each builder: stage and local variables
  reading,      \* the stable read each process is in
  search,       \* each searcher: stage, generation and hits
  given,        \* history: the texts handed to chat requests
  used          \* how much of each bound is used

ragVars == <<source, staging, temps, generations, current, build, reading, search, given, used>>

Paths == {e.path : e \in Entries}
EntryOf(path) == CHOOSE e \in Entries : e.path = path
Processes == Builders \union Referrers

NotReading == [path |-> NoGeneration, before |-> 0, text |-> <<>>, at |-> "done"]
NotBuilding == [stage |-> "idle", id |-> 0, todo |-> {}, documents |-> {}, alone |-> TRUE, cause |-> "none"]
NotSearching == [stage |-> "idle", id |-> NoGeneration, hits |-> {}]

RagInit ==
  /\ source = [p \in Paths |-> [link |-> FALSE, text |-> "plain", stamp |-> 0]]
  /\ staging = {} /\ temps = {}
  /\ generations = <<>>
  /\ current = NoGeneration
  /\ build = [b \in Builders |-> NotBuilding]
  /\ reading = [p \in Processes |-> NotReading]
  /\ search = [s \in Searchers |-> NotSearching]
  /\ given = {}
  /\ used = [builds |-> 0, searches |-> 0, requests |-> 0, edits |-> 0, faults |-> 0]

indexVars == <<staging, temps, generations, current>>

-----------------------------------------------------------------------------
(* What may be read.  The rule that excludes an entry, or "allow".          *)

(* sensitive_file_name, denied_directory and denied_relative_directory, by  *)
(* the class of the name.                                                   *)
SensitiveFileName(e) == e.name = "credential"
DeniedDirectory(e) == e.place \in {"build_output", "benchmark_runs"}

(* collect_inventory, on one file.                                          *)
InventoryRule(e) ==
  CASE DeniedDirectory(e) -> "path.directory"
    [] source[e.path].link -> "path.symlink_or_reparse"
    [] SensitiveFileName(e) -> "path.file"
    [] e.extension # "allowlisted" -> "type.not_allowlisted"
    [] e.large -> "size.too_large"
    [] ~e.utf8 -> "path.non_utf8"
    [] OTHER -> "allow"

CollectInventory == {e.path : e \in {f \in Entries : InventoryRule(f) = "allow"}}

(* relative_request_path, reject_sensitive_path and the limits of           *)
(* read_safe_workspace_file: any type of file, but no excluded directory    *)
(* above it and no sensitive name.                                          *)
ReferenceRule(e) ==
  CASE e.place = "build_output" -> "path.directory"
    [] SensitiveFileName(e) -> "path.file"
    [] e.large -> "size.too_large"
    [] OTHER -> "allow"

(* detect_secret, on a text as it was read.                                 *)
DetectSecret(text) == "secret" \in {text[1], text[2]}

-----------------------------------------------------------------------------
(* read_stable_candidate and read_safe_workspace_file.  The path and the    *)
(* handle are compared before, and both with the first look afterwards.     *)
(* A fingerprint is length, modification time and attributes; a change that *)
(* keeps all three cannot be seen by the code and is not modelled.          *)
Fingerprint(path) == source[path].stamp

Look(p) ==
  LET r == reading[p]
  IN /\ r.at = "look"
     /\ reading' = [reading EXCEPT ![p] =
          IF source[r.path].link THEN [r EXCEPT !.at = "refused"]
          ELSE [r EXCEPT !.at = "open", !.before = Fingerprint(r.path)]]
     /\ UNCHANGED <<source, indexVars, build, search, given, used>>

OpenFile(p) ==
  LET r == reading[p]
  IN /\ r.at = "open"
     /\ reading' = [reading EXCEPT ![p] =
          IF Fingerprint(r.path) # r.before THEN [r EXCEPT !.at = "refused"]
          ELSE [r EXCEPT !.at = "rest", !.text = <<source[r.path].text>>]]
     /\ UNCHANGED <<source, indexVars, build, search, given, used>>

ReadRest(p) ==
  /\ reading[p].at = "rest"
  /\ reading' = [reading EXCEPT ![p].text = Append(@, source[reading[p].path].text), ![p].at = "verify"]
  /\ UNCHANGED <<source, indexVars, build, search, given, used>>

(* The second look, and the fingerprints.                                   *)
Unmoved(r) == ~source[r.path].link /\ Fingerprint(r.path) = r.before

VerifyRead(p) ==
  LET r == reading[p]
  IN /\ r.at = "verify"
     /\ reading' = [reading EXCEPT ![p].at = IF Unmoved(r) /\ ~DetectSecret(r.text) THEN "stable" ELSE "refused"]
     /\ UNCHANGED <<source, indexVars, build, search, given, used>>

-----------------------------------------------------------------------------
(* build_rag_index_internal.                                                *)
Building(b) == build[b].stage \notin {"idle", "failed", "published"}
Others(b) == {c \in Builders \ {b} : Building(c)}
Step(b, r) == build' = [build EXCEPT ![b] = r]
Fails(b, cause) ==
  /\ Step(b, [build[b] EXCEPT !.stage = "failed", !.cause = cause])
  /\ reading' = [reading EXCEPT ![b] = NotReading]
  /\ UNCHANGED indexVars

Published(g) == g \in DOMAIN generations
Sound(g) == Published(g) /\ generations[g].chunks = generations[g].documents

(* Mutant: generations that CURRENT does not name are cleared away too.     *)
RecoverEverything ==
  /\ staging' = {} /\ temps' = {}
  /\ generations' = [g \in DOMAIN generations \intersect {current} |-> generations[g]]

(* recover_incomplete_publications.                                         *)
RecoverIncompletePublications ==
  staging' = {} /\ temps' = {} /\ UNCHANGED generations

(* new_generation_id: of no other build, whatever became of it.             *)
NewGenerationId == used.builds + 1

Begin(b) ==
  /\ ~Building(b)
  /\ used.builds < MaxBuilds
  /\ used' = [used EXCEPT !.builds = @ + 1]
  /\ RecoverIncompletePublications
  /\ build' = [c \in Builders |->
       IF c = b THEN [NotBuilding EXCEPT !.stage = "recovered", !.id = NewGenerationId,
                                         !.alone = Others(b) = {}]
       ELSE [build[c] EXCEPT !.alone = @ /\ ~Building(c)]]
  /\ UNCHANGED <<source, current, reading, search, given>>

(* The published generation is validated first; then a staging directory    *)
(* is created, and the sources are listed.                                  *)
Prepare(b) ==
  LET id == build[b].id
  IN /\ build[b].stage = "recovered"
     /\ \/ /\ current # NoGeneration /\ ~Sound(current)
           /\ Fails(b, "damaged")
        \/ /\ current = NoGeneration \/ Sound(current)
           /\ staging' = staging \union {id}
           /\ Step(b, [build[b] EXCEPT !.stage = "scanning", !.todo = CollectInventory])
           /\ UNCHANGED <<temps, generations, current, reading>>
     /\ UNCHANGED <<source, search, given, used>>

TakeCandidate(b) ==
  /\ build[b].stage = "scanning" /\ build[b].todo # {} /\ reading[b].at = "done"
  /\ \E p \in build[b].todo :
       /\ reading' = [reading EXCEPT ![b] = [NotReading EXCEPT !.path = p, !.at = "look"]]
       /\ Step(b, [build[b] EXCEPT !.todo = @ \ {p}])
  /\ UNCHANGED <<source, indexVars, search, given, used>>

(* A document and its chunks are written, or an exclusion is recorded.      *)
WriteDocument(b) ==
  LET r == reading[b]
  IN /\ r.at \in {"stable", "refused"}
     /\ Step(b, [build[b] EXCEPT !.documents =
          @ \union (IF r.at = "stable" THEN {[path |-> r.path, text |-> r.text]} ELSE {})])
     /\ reading' = [reading EXCEPT ![b] = NotReading]
     /\ UNCHANGED <<source, indexVars, search, given, used>>

(* record_matches_allow_policy, from the path alone.                        *)
RecordMatchesAllowPolicy(e) ==
  ~SensitiveFileName(e) /\ e.place # "build_output" /\ e.extension = "allowlisted"

(* validate_document_record and validate_chunk_record: the path policy, and *)
(* the secret policy on every chunk by itself.                              *)
RecordAccepted(d) ==
  RecordMatchesAllowPolicy(EntryOf(d.path)) /\ "split" \notin {d.text[1], d.text[2]}

(* validate_data_files: the files must be where they were created, and      *)
(* every record acceptable.                                                 *)
ValidateData(b) ==
  LET r == build[b]
      split == \E d \in r.documents : ~RecordAccepted(d)
  IN /\ r.stage = "scanning" /\ r.todo = {} /\ reading[b].at = "done"
     /\ \/ /\ r.id \in staging /\ ~split
           /\ Step(b, [r EXCEPT !.stage = "validated"])
           /\ UNCHANGED <<indexVars, reading>>
        \/ /\ r.id \notin staging \/ split
           /\ Fails(b, IF r.id \in staging THEN "split" ELSE "missing")
     /\ UNCHANGED <<source, search, given, used>>

(* The manifest is written and the generation validated as a whole; the     *)
(* staging directory becomes a generation.                                  *)
Finalize(b) ==
  LET r == build[b]
      next == IF r.stage = "validated" THEN "manifest" ELSE "finalized"
  IN /\ r.stage \in {"validated", "manifest"}
     /\ \/ /\ r.id \in staging /\ ~Published(r.id)
           /\ Step(b, [r EXCEPT !.stage = next])
           /\ IF next = "manifest" THEN UNCHANGED <<staging, generations>>
              ELSE /\ staging' = staging \ {r.id}
                   /\ generations' = [g \in DOMAIN generations \union {r.id} |->
                        IF g = r.id THEN [documents |-> r.documents, chunks |-> r.documents]
                        ELSE generations[g]]
           /\ UNCHANGED <<temps, current, reading>>
        \/ /\ r.id \notin staging \/ Published(r.id)
           /\ Fails(b, "missing")
     /\ UNCHANGED <<source, search, given, used>>

WriteCurrentTemp(b) ==
  /\ build[b].stage = "finalized"
  /\ temps' = temps \union {build[b].id}
  /\ Step(b, [build[b] EXCEPT !.stage = "pointer"])
  /\ UNCHANGED <<source, staging, generations, current, reading, search, given, used>>

(* atomic_replace_file.                                                     *)
Publish(b) ==
  LET r == build[b]
  IN /\ r.stage = "pointer"
     /\ \/ /\ r.id \in temps
           /\ temps' = temps \ {r.id}
           /\ current' = r.id
           /\ Step(b, [r EXCEPT !.stage = "confirming"])
           /\ UNCHANGED <<staging, generations, reading>>
        \/ /\ r.id \notin temps
           /\ Fails(b, "missing")
     /\ UNCHANGED <<source, search, given, used>>

(* The pointer is resolved again, and the generation validated.             *)
Confirm(b) ==
  LET r == build[b]
  IN /\ r.stage = "confirming"
     /\ \/ /\ current = r.id /\ Sound(current)
           /\ Step(b, [r EXCEPT !.stage = "published"])
           /\ UNCHANGED <<indexVars, reading>>
        \/ /\ current # r.id \/ ~Sound(current)
           /\ Fails(b, IF current # r.id THEN "superseded" ELSE "damaged")
     /\ UNCHANGED <<source, search, given, used>>

(* The process is killed, or an operation on a file fails: nothing of what  *)
(* the build left is removed.                                               *)
Interrupt(b) ==
  /\ Building(b)
  /\ used.faults < MaxFaults
  /\ used' = [used EXCEPT !.faults = @ + 1]
  /\ Fails(b, "fault")
  /\ UNCHANGED <<source, search, given>>

-----------------------------------------------------------------------------
(* search_rag_index_queries: the pointer and its manifest, then the chunks, *)
(* whose length, number and hash must be the manifest's.                    *)
ResolveActive(s) ==
  /\ search[s].stage \in {"idle", "answered", "refused"}
  /\ used.searches < MaxSearches
  /\ used' = [used EXCEPT !.searches = @ + 1]
  /\ search' = [search EXCEPT ![s] =
       IF current = NoGeneration \/ ~Published(current) THEN [NotSearching EXCEPT !.stage = "refused"]
       ELSE [stage |-> "resolved", id |-> current, hits |-> {}]]
  /\ UNCHANGED <<source, indexVars, build, reading, given>>

ChunksMatch(g) == Published(g) /\ generations[g].chunks = generations[g].documents

SearchChunks(s) ==
  LET g == search[s].id
  IN /\ search[s].stage = "resolved"
     /\ search' = [search EXCEPT ![s] =
          IF ChunksMatch(g) THEN [@ EXCEPT !.stage = "answered", !.hits = generations[g].chunks]
          ELSE [@ EXCEPT !.stage = "refused"]]
     /\ UNCHANGED <<source, indexVars, build, reading, given, used>>

(* A chat request resolves a file.                                          *)
Refer(r, path) ==
  /\ reading[r].at = "done"
  /\ used.requests < MaxRequests
  /\ used' = [used EXCEPT !.requests = @ + 1]
  /\ ReferenceRule(EntryOf(path)) = "allow"
  /\ reading' = [reading EXCEPT ![r] = [NotReading EXCEPT !.path = path, !.at = "look"]]
  /\ UNCHANGED <<source, indexVars, build, search, given>>

Resolve(r) ==
  /\ reading[r].at \in {"stable", "refused"}
  /\ given' = given \union (IF reading[r].at = "stable"
                            THEN {[path |-> reading[r].path, text |-> reading[r].text]} ELSE {})
  /\ reading' = [reading EXCEPT ![r] = NotReading]
  /\ UNCHANGED <<source, indexVars, build, search, used>>

-----------------------------------------------------------------------------
(* The user changes a file, or puts a link in its place or back: the        *)
(* fingerprint of what the path names is then another one.                  *)
Touch(path) ==
  /\ used.edits < MaxEdits
  /\ used' = [used EXCEPT !.edits = @ + 1]
  /\ \E text \in {"plain", "secret", "split", "outside"} :
       source' = [source EXCEPT ![path] = [link |-> text = "outside", text |-> text, stamp |-> @.stamp + 1]]
  /\ UNCHANGED <<indexVars, build, reading, search, given>>

(* The chunk file of a generation loses its content.                        *)
Damage(g) ==
  /\ generations[g].chunks # {}
  /\ used.faults < MaxFaults
  /\ used' = [used EXCEPT !.faults = @ + 1]
  /\ generations' = [generations EXCEPT ![g].chunks = {}]
  /\ UNCHANGED <<source, staging, temps, current, build, reading, search, given>>

RagNext ==
  \/ \E p \in Processes : Look(p) \/ OpenFile(p) \/ ReadRest(p) \/ VerifyRead(p)
  \/ \E b \in Builders :
       \/ Begin(b) \/ Prepare(b) \/ TakeCandidate(b) \/ WriteDocument(b) \/ ValidateData(b)
       \/ Finalize(b) \/ WriteCurrentTemp(b) \/ Publish(b) \/ Confirm(b) \/ Interrupt(b)
  \/ \E s \in Searchers : ResolveActive(s) \/ SearchChunks(s)
  \/ \E r \in Referrers : Resolve(r) \/ \E p \in Paths : Refer(r, p)
  \/ \E p \in Edited : Touch(p)
  \/ \E g \in DOMAIN generations : Damage(g)

RagSpec == RagInit /\ [][RagNext]_ragVars

-----------------------------------------------------------------------------
(* Properties.                                                              *)

Texts == {"plain", "secret", "split", "outside"}

RagTypeOK ==
  /\ \A p \in Paths : source[p].text \in Texts /\ source[p].stamp \in 0..MaxEdits
  /\ staging \union temps \union DOMAIN generations \subseteq 1..MaxBuilds
  /\ \A b \in Builders :
       /\ build[b].stage \in {"idle", "recovered", "scanning", "validated", "manifest", "finalized",
                             "pointer", "confirming", "published", "failed"}
       /\ build[b].todo \subseteq Paths
  /\ \A p \in Processes :
       reading[p].at \in {"look", "open", "rest", "verify", "stable", "refused", "done"}

(* CURRENT never names a generation that is not there: not while builds     *)
(* overlap and clear away each other's files, and not after any of them     *)
(* stopped half-way.                                                        *)
CurrentIsPublished ==
  current # NoGeneration => Published(current)

(* What reaches an index, or a chat, was at one moment the whole text of an *)
(* admitted regular file, with no secret in it, however its file was        *)
(* changed or replaced while it was read.                                   *)
OnlyStableText ==
  LET kept == UNION {generations[g].documents : g \in DOMAIN generations}
  IN /\ \A d \in kept \union given :
          d.text[1] = d.text[2] /\ d.text[1] \notin {"secret", "outside"}
     /\ \A d \in kept : d.path \in {e.path : e \in {f \in Entries :
          ~DeniedDirectory(f) /\ ~SensitiveFileName(f) /\ f.extension = "allowlisted"}}

(* A search that answers answers from all the documents of one generation   *)
(* that was CURRENT, though builds publish others meanwhile.                *)
SearchIsWhole ==
  \A s \in Searchers :
    search[s].stage = "answered" => search[s].hits = generations[search[s].id].documents

(* A build fails for an error, for a generation that was damaged or for a   *)
(* text that only looks secret once it is cut, or because another build ran *)
(* across it.  In particular what an interrupted build left behind never    *)
(* stands in the way of the next.                                           *)
BuildFailsOnlyForCause ==
  \A b \in Builders :
    build[b].stage = "failed" /\ build[b].alone => build[b].cause \in {"fault", "damaged", "split"}

(* The index stays usable and clean: CURRENT names a whole generation of    *)
(* stable texts without secrets, searches answer from all of it, and no     *)
(* leftover stops the next build.                                           *)
IndexIsSound ==
  RagTypeOK /\ CurrentIsPublished /\ OnlyStableText /\ SearchIsWhole /\ BuildFailsOnlyForCause

=============================================================================
