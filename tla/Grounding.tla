------------------------------ MODULE Grounding ------------------------------
(* The grounding rules of a chat answer (crates/opticcode-core/grounding.rs): *)
(* the manifest of what was injected into the prompt, and the two validators *)
(* every structured answer passes before a character of it is shown.         *)
(* A hash is the content it names: a snapshot's injected hash stands for the *)
(* injected lines of one version of one file.  The words of an answer are    *)
(* reduced to what the validators look for in them.                          *)
EXTENDS Naturals, Sequences, FiniteSets, FiniteSetsExt

Scopes == {"automatic", "references_preferred", "references_only"}
EvidenceModes == {"optional", "required"}
Classes == {"observed", "inferred", "general_knowledge", "insufficient_evidence"}
NeedsEvidence == {"observed", "inferred"}

(* What the words of an answer may contain: a marker of OpticCode's internal *)
(* context, a cargo command, the name of a file, a piece of advice; "omits"  *)
(* says that a requested document fact is missing or wrong.                  *)
Features == {"marker", "cargo", "file_name", "advice", "omits"}

(* The content hash of lines lo..hi of a version of a file.                  *)
InjectedHash(path, ver, lo, hi) == <<path, ver, lo, hi>>

-----------------------------------------------------------------------------
(* effective_context_scope: a restriction in the prompt narrows the scope    *)
(* the client asked for, and nothing widens it.                              *)
EffectiveScope(requested, restricted) ==
  IF restricted THEN "references_only" ELSE requested

(* build_context_manifest: one entry per snapshot, in order.                 *)
ManifestEntry(s) ==
  [path |-> s.path, hash |-> InjectedHash(s.path, s.ver, s.lo, s.hi),
   lo |-> s.lo, hi |-> s.hi]

ContextManifest(scope, snaps) ==
  [scope |-> scope, entries |-> [i \in 1..Len(snaps) |-> ManifestEntry(snaps[i])]]

(* validate_evidence looks the cited path up in a map from paths to entries: *)
(* of two entries of one file the later one stands.                          *)
InjectedPaths(m) == {m.entries[i].path : i \in 1..Len(m.entries)}
EntryOf(m, path) ==
  m.entries[Max({i \in 1..Len(m.entries) : m.entries[i].path = path})]

(* Mutant: the end of a cited range is not compared.                         *)
StartInRange(c, m) ==
  /\ c.path \in InjectedPaths(m)
  /\ c.hash = EntryOf(m, c.path).hash
  /\ c.lo >= EntryOf(m, c.path).lo /\ c.lo <= c.hi

CitationHolds(c, m) ==
  /\ c.path \in InjectedPaths(m)
  /\ c.hash = EntryOf(m, c.path).hash
  /\ c.lo >= EntryOf(m, c.path).lo
  /\ c.hi <= EntryOf(m, c.path).hi
  /\ c.lo <= c.hi

EvidenceRequired(claim, mode) ==
  \/ claim.class \in NeedsEvidence
  \/ mode = "required" /\ claim.class # "insufficient_evidence"

(* The errors one claim adds.                                                *)
ClaimHolds(claim, r, m, mode) ==
  /\ EvidenceRequired(claim, mode) => claim.evidence # {}
  /\ claim.class = "general_knowledge" =>
       m.scope # "references_only" /\ r.general
  /\ \A c \in claim.evidence : CitationHolds(c, m)

(* validate_evidence.                                                        *)
ValidateEvidence(r, m, mode) ==
  /\ ~(m.scope = "references_only" /\ r.general)
  /\ ~(mode = "required" /\ ~r.empty /\ r.claims = <<>>)
  /\ \A i, j \in 1..Len(r.claims) : r.claims[i].id = r.claims[j].id => i = j
  /\ \A i \in 1..Len(r.claims) : ClaimHolds(r.claims[i], r, m, mode)

-----------------------------------------------------------------------------
(* The two checks of validate_compliance that look for internal context; a   *)
(* marker that the injected sources contain may be repeated.                 *)
InternalContextLeak(r, task, sources) ==
  \/ "marker" \in r.says \ sources
  \/ "cargo" \in r.says \ sources /\ ~task.rust

CrossFileLeak(r, m, sources) ==
  m.scope = "references_only" /\ "file_name" \in r.says \ sources

(* validate_requested_outputs: a document question about a single snapshot   *)
(* must be answered, from a document that parses.                            *)
RequestedOutputs(r, task, snaps) ==
  Len(snaps) = 1 /\ task.query # "none" =>
    task.query # "unparsable" /\ "omits" \notin r.says

(* validate_claim_tokens: the code words of an observed or inferred claim    *)
(* occur in the sources; in an absence claim, or for a document question,    *)
(* the words of the task may be used as well.                                *)
ClaimTokens(r, task) ==
  \A i \in 1..Len(r.claims) :
    r.claims[i].class \in NeedsEvidence =>
      \/ r.claims[i].words = "source"
      \/ r.claims[i].words = "task" /\ (r.claims[i].absence \/ task.query # "none")

(* validate_compliance.                                                      *)
ValidateCompliance(r, task, m, snaps, sources) ==
  /\ ~InternalContextLeak(r, task, sources)
  /\ ~CrossFileLeak(r, m, sources)
  /\ ~(task.noAdvice /\ "advice" \in r.says)
  /\ ~r.empty
  /\ RequestedOutputs(r, task, snaps)
  /\ ClaimTokens(r, task)
-----------------------------------------------------------------------------
(* What an accepted answer means, said of the injected snapshots themselves  *)
(* and not of the map the validator searches: every claim of fact has a      *)
(* citation, and every citation names lines that were injected, as they were *)
(* injected.                                                                 *)
CitesSnapshot(c, snaps) ==
  \E i \in 1..Len(snaps) :
    /\ c.path = snaps[i].path
    /\ c.hash = InjectedHash(c.path, snaps[i].ver, snaps[i].lo, snaps[i].hi)
    /\ c.lo \in snaps[i].lo..snaps[i].hi
    /\ c.hi \in c.lo..snaps[i].hi

GroundedIn(r, snaps) ==
  \A i \in 1..Len(r.claims) :
    /\ r.claims[i].class \in NeedsEvidence => r.claims[i].evidence # {}
    /\ \A c \in r.claims[i].evidence : CitesSnapshot(c, snaps)
=============================================================================
