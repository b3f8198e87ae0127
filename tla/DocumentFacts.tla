--------------------------- MODULE DocumentFacts ---------------------------
(***************************************************************************)
(* Questions about a structured file that are answered without the model   *)
(* (core/grounding.rs, inspect_document_facts): is a key there, and on     *)
(* which line.  The code validates the whole file with a parser of its     *)
(* format, and finds the lines with scanners of its own; the scanners are  *)
(* modelled here and compared with what the file says.                     *)
(*                                                                         *)
(* A JSON text is a sequence of tokens, one a line: "{", "}", "[", "]",    *)
(* "scalar", or a key.  A YAML or TOML text is a sequence of lines.        *)
(***************************************************************************)
EXTENDS Integers, FiniteSets, Sequences

LOCAL INSTANCE SequencesExt

CONSTANTS
  Keys,           \* the names of keys
  JsonTexts,      \* the JSON objects considered
  YamlTexts,      \* the YAML mappings: lines with indent, kind and key
  TomlTexts,      \* the TOML files: lines that name a table or assign a key
  FirstLines      \* where in its file the text that was read begins

VARIABLE facts    \* the file: format, text, first line; and what is answered

QueryPaths == {<<k>> : k \in Keys} \union {<<k, l>> : k, l \in Keys}

FactsInit ==
  \E input \in {<<"json", t>> : t \in JsonTexts} \union {<<"yaml", t>> : t \in YamlTexts}
                 \union {<<"toml", t>> : t \in TomlTexts} :
    \E first \in FirstLines :
      facts = [format |-> input[1], text |-> input[2], first |-> first,
               answered |-> FALSE, refused |-> FALSE, lines |-> <<>>]

(* What a scan knows: the lines of the paths found, and whether it gave up. *)
NoFact == [found |-> {}, failed |-> FALSE, path |-> <<>>, depth |-> 0]
Located(scan, path) == path \in {f.path : f \in scan.found}
Locate(scan, path, line) ==
  IF Located(scan, path) THEN [scan EXCEPT !.failed = TRUE]
  ELSE [scan EXCEPT !.found = @ \union {[path |-> path, line |-> line]}]

Truncated(path, n) == SubSeq(path, 1, IF n < Len(path) THEN n ELSE Len(path))
Less1(n) == IF n = 0 THEN 0 ELSE n - 1

-----------------------------------------------------------------------------
(* One token of scan_json_object.  The path grows at a key whose value is   *)
(* an object; depth counts the objects.                                     *)
JsonToken(text, scan, i) ==
  CASE scan.failed -> scan
    [] text[i] = "{" -> [scan EXCEPT !.depth = @ + 1]
    [] text[i] = "}" ->
         LET depth == Less1(scan.depth)
         IN [scan EXCEPT !.depth = depth,
                         !.path = IF Len(@) >= depth THEN Truncated(@, Less1(depth)) ELSE @]
    [] text[i] \in Keys ->
         LET after == Locate(scan, Append(scan.path, text[i]), i)
         IN IF text[i + 1] = "{"
            THEN [after EXCEPT !.path = Append(Truncated(@, Less1(scan.depth)), text[i])]
            ELSE after
    [] OTHER -> scan

ScanJson(text) == FoldLeft(LAMBDA scan, i : JsonToken(text, scan, i), NoFact, [i \in DOMAIN text |-> i])

(* Mutant: a line on the level of the one before it becomes its child.      *)
DeeperOnly(stack, indent) == SelectSeq(stack, LAMBDA s : s.indent <= indent)

(* The keys a line is under: the levels of the stack only grow, so what is  *)
(* popped is what is indented as much or more.                              *)
Enclosing(stack, indent) == SelectSeq(stack, LAMBDA s : s.indent < indent)

(* One line of scan_indented_assignments: comments, blank lines and items   *)
(* of lists are passed over.  The stack is kept in path.                    *)
YamlLine(text, scan, i) ==
  IF scan.failed \/ text[i].kind # "key" THEN scan
  ELSE LET stack == Enclosing(scan.path, text[i].indent)
           names == [n \in DOMAIN stack |-> stack[n].key]
       IN [Locate(scan, Append(names, text[i].key), i) EXCEPT
             !.path = Append(stack, [indent |-> text[i].indent, key |-> text[i].key])]

(* reject_duplicate_root_keys, too: the roots the parser saw must all have  *)
(* been located.                                                            *)
ScanIndentedAssignments(text) ==
  FoldLeft(LAMBDA scan, i : YamlLine(text, scan, i), NoFact, [i \in DOMAIN text |-> i])

(* parse_toml: a table is located by its first component only.              *)
TomlLine(text, scan, i) ==
  CASE scan.failed -> scan
    [] text[i].kind = "table" ->
         LET root == <<Head(text[i].path)>>
             scanIn == [scan EXCEPT !.path = text[i].path]
         IN IF Located(scan, root) THEN scanIn ELSE Locate(scanIn, root, i)
    [] text[i].kind = "key" -> Locate(scan, Append(scan.path, text[i].key), i)
    [] OTHER -> scan

ParseToml(text) == FoldLeft(LAMBDA scan, i : TomlLine(text, scan, i), NoFact, [i \in DOMAIN text |-> i])

ParseDocument ==
  CASE facts.format = "json" -> ScanJson(facts.text)
    [] facts.format = "yaml" -> ScanIndentedAssignments(facts.text)
    [] facts.format = "toml" -> ParseToml(facts.text)

(* inspect_document_facts: the line of a key in the file, counted from      *)
(* where the text that was read begins.  A key with no line is absent.      *)
InspectDocumentFacts ==
  LET scan == ParseDocument
      LineOf(path) == (CHOOSE f \in scan.found : f.path = path).line + (facts.first - 1)
  IN /\ ~facts.answered
     /\ facts' = [facts EXCEPT
          !.answered = TRUE,
          !.refused = scan.failed,
          !.lines = IF scan.failed THEN <<>>
                    ELSE [path \in {q \in QueryPaths : Located(scan, q)} |-> LineOf(path)]]

FactsNext == InspectDocumentFacts

FactsSpec == FactsInit /\ [][FactsNext]_facts

-----------------------------------------------------------------------------
(* What the texts say, by their structure.                                  *)

Count(text, token, i, j) == Cardinality({k \in i..j : text[k] = token})

(* The brackets that are open at token i.                                   *)
Opening(text, i) ==
  {j \in 1..(i - 1) :
     \E pair \in {<<"{", "}">>, <<"[", "]">>} :
       /\ text[j] = pair[1]
       /\ \A k \in j..i : Count(text, pair[1], j, k) > Count(text, pair[2], j, k)}

InList(i) ==
  \/ facts.format = "json" /\ \E j \in Opening(facts.text, i) : facts.text[j] = "["
  \/ facts.format = "yaml" /\ \E j \in 1..(i - 1) :
       /\ facts.text[j].kind = "item"
       /\ \A k \in (j + 1)..i : facts.text[k].indent > facts.text[j].indent

JsonPath(text, i) ==
  LET above == {j - 1 : j \in {k \in Opening(text, i) : k > 1}} \union {i}
  IN [n \in 1..Cardinality(above) |-> text[CHOOSE j \in above : Cardinality({k \in above : k <= j}) = n]]

(* A line is under the nearest line above it that is indented less.         *)
Above(text, i) ==
  {j \in 1..(i - 1) : text[j].kind = "key" /\ \A k \in (j + 1)..i : text[k].kind = "key" => text[k].indent > text[j].indent}

YamlPath(text, i) ==
  LET lines == Above(text, i) \union {i}
  IN [n \in 1..Cardinality(lines) |-> text[CHOOSE j \in lines : Cardinality({k \in lines : k <= j}) = n].key]

TomlPath(text, i) ==
  LET tables == {j \in 1..(i - 1) : text[j].kind = "table"}
  IN IF tables = {} THEN <<text[i].key>>
     ELSE Append(text[CHOOSE j \in tables : \A k \in tables : k <= j].path, text[i].key)

KeyLines ==
  {i \in DOMAIN facts.text :
     IF facts.format = "json" THEN facts.text[i] \in Keys ELSE facts.text[i].kind = "key"}

PathAt(i) ==
  CASE facts.format = "json" -> JsonPath(facts.text, i)
    [] facts.format = "yaml" -> YamlPath(facts.text, i)
    [] facts.format = "toml" -> TomlPath(facts.text, i)

Tables ==
  {i \in DOMAIN facts.text : facts.format = "toml" /\ facts.text[i].kind = "table"}

(* A key the answer calls absent is nowhere in the file outside a list, and *)
(* a line the answer cites is a line of the file that defines the key it    *)
(* was asked about, or the table of that name; or it lies within a list,    *)
(* whose levels the scanner does not tell apart.  An answer is refused only *)
(* where a key is defined twice, or in a list.                              *)
FactIsExact ==
  facts.answered =>
    IF facts.refused
    THEN (\E i, j \in KeyLines : i # j /\ PathAt(i) = PathAt(j))
           \/ (\E i \in KeyLines : InList(i))
           \/ (\E i \in KeyLines, j \in Tables : PathAt(i) = <<Head(facts.text[j].path)>>)
    ELSE \A path \in QueryPaths :
           IF path \notin DOMAIN facts.lines
           THEN ~ \E i \in KeyLines : ~InList(i) /\ PathAt(i) = path
           ELSE LET cited == facts.lines[path] - (facts.first - 1)
                IN \/ cited \in KeyLines /\ PathAt(cited) = path
                   \/ cited \in KeyLines /\ InList(cited)
                   \/ cited \in Tables /\ path = <<Head(facts.text[cited].path)>>
=============================================================================
