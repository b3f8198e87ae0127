---------------------------- MODULE MCJavaEdits ----------------------------
(* Texts with one, with two and with no member to rename, with references   *)
(* that are refused, and with a syntax error.                               *)
EXTENDS JavaEdits

MCJavaTexts ==
  {<<"edit">>, <<"edit", "edit">>, <<"edit", "shadowed">>, <<"inexact", "wrong", "edit">>,
   <<"unproven", "legacy">>, <<"broken">>}
=============================================================================
