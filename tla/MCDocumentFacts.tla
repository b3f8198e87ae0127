-------------------------- MODULE MCDocumentFacts --------------------------
(* JSON objects of up to two members, with nested objects and lists; YAML   *)
(* of up to three lines that is well indented; TOML of up to three lines.   *)
EXTENDS DocumentFacts

TwoKeys == {"a", "b"}

JsonValues ==
  {<<"scalar">>, <<"[", "scalar", "]">>, <<"{", "a", "scalar", "}">>,
   <<"{", "a", "scalar", "b", "scalar", "}">>, <<"{", "a", "{", "b", "scalar", "}", "}">>,
   <<"[", "{", "a", "scalar", "}", "{", "b", "scalar", "}", "]">>,
   <<"[", "{", "a", "{", "b", "scalar", "}", "b", "scalar", "}", "]">>}

MCJsonTexts ==
  {<<"{", "}">>}
    \union {<<"{", k>> \o v \o <<"}">> : k \in TwoKeys, v \in JsonValues}
    \union {<<"{", k>> \o v \o <<l>> \o w \o <<"}">> : k, l \in TwoKeys, v, w \in JsonValues}

YamlLines ==
  [indent : 0..2, kind : {"key"}, key : TwoKeys] \union {[indent |-> 1, kind |-> "item", key |-> "a"]}

(* A key is deeper than the line above it, or on the level of an earlier    *)
(* key with nothing less indented between them.                             *)
WellIndented(text) ==
  /\ text[1].indent = 0
  /\ \A i \in 2..Len(text) : text[i].kind = "key" =>
       \/ text[i].indent > text[i-1].indent
       \/ \E j \in 1..(i-1) :
            /\ text[j].kind = "key" /\ text[j].indent = text[i].indent
            /\ \A k \in j..i : text[k].indent >= text[i].indent

MCYamlTexts == {t \in UNION {[1..n -> YamlLines] : n \in 1..3} : WellIndented(t)}

TomlLines ==
  [kind : {"table"}, path : {<<"a">>, <<"b">>, <<"a", "b">>}, key : {"a"}]
    \union [kind : {"key", "comment"}, path : {<<>>}, key : TwoKeys]

MCTomlTexts == UNION {[1..n -> TomlLines] : n \in 1..3}
=============================================================================
