----------------------------- MODULE MCRagIndex -----------------------------
(* Two builders, one searcher and one chat request that refers to files.    *)
(* Of the entries, one may be indexed; the others each fall under a rule.   *)
EXTENDS RagIndex

CONSTANTS b1, b2, s1, r1

Regular(path) ==
  [path |-> path, place |-> "normal", name |-> "normal", extension |-> "allowlisted",
   large |-> FALSE, utf8 |-> TRUE]

MCEntries == {Regular("notes"), [Regular("keys") EXCEPT !.name = "credential"]}

MCEdited == {"notes"}
=============================================================================
