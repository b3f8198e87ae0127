----------------------------- MODULE MCEditPlan -----------------------------
(* Two files the request refers to, one it does not, one that is not there  *)
(* and one whose name is sensitive.  The model may replace any range of the *)
(* first file, as it was or as the user leaves it.                          *)
EXTENDS EditPlan

File(path, sensitive) ==
  [path |-> path, portable |-> TRUE, extension |-> TRUE, sensitive |-> sensitive]

MCPlanFiles ==
  {File(p, FALSE) : p \in {"Main.java", "Other.java", "Third.java", "New.java"}}
    \union {File("tokens.txt", TRUE)}

First == <<"a", "n">>
Second == <<"b", "n">>

MCHeadTexts == [p \in {f.path : f \in MCPlanFiles} |-> IF p = "New.java" THEN NoText ELSE First]

Op(kind, path, hash, start, end, old, new) ==
  [kind |-> kind, path |-> path, hash |-> hash, start |-> start, end |-> end, old |-> old, new |-> new]

MCOperations ==
  {Op("modify", "Main.java", h, r[1], r[2], SubSeq(h, r[1] + 1, r[2]), n) :
     h \in {First, Second}, r \in {<<0, 0>>, <<0, 1>>, <<1, 1>>, <<0, 2>>, <<1, 2>>},
     n \in {<<>>, <<"r">>, <<"b", "n">>}}
  \union {Op("modify", "Main.java", First, 2, 1, <<>>, <<>>),
          Op("modify", "Main.java", First, 0, 1, <<"b">>, <<"a">>),
          Op("modify", "Main.java", First, 0, 1, <<"a">>, <<"s">>),
          Op("create", "New.java", NoText, 0, 0, <<>>, <<"a">>),
          Op("create", "Main.java", NoText, 0, 0, <<>>, <<"a">>)}
  \union {Op("modify", p, First, 0, 1, <<"a">>, <<"b">>) :
            p \in {"Other.java", "Third.java", "tokens.txt"}}

MCReferenced == {"Main.java", "Other.java"}
MCUserTexts == {Second, <<"s">>}
=============================================================================
