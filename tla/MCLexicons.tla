----------------------------- MODULE MCLexicons -----------------------------
(***************************************************************************)
(* Words and terms to check Lexicons with.  Letters are characters of      *)
(* ASCII; "h1" to "h4" stand for the ideographs of the term and the alias  *)
(* in the guide's example (docs/industry-terminology-and-blocklist.md, 48).*)
(***************************************************************************)
EXTENDS Lexicons

Lower(c) == IF c = "S" THEN "s" ELSE c
Letters == {"a", "f", "k", "u", "8", "s", "S", "e"}
Ideographs == {"h1", "h2", "h3", "h4"}
InWords == Letters \cup Ideographs
AllCharacters == InWords \cup {"*", " "}

Heart == [source |-> <<"h1", "h2", "h3", "h4">>, aliases |-> <<<<"h2", "h3">>>>,
          target |-> <<"a", "f">>, priority |-> 2]
Kube == [source |-> <<"k", "u">>, aliases |-> <<<<"k", "8">>>>,
         target |-> <<"s", "e">>, priority |-> 3]
TwoTerms == {Heart, Kube}

Secret == [word |-> <<"s", "e">>, replacement |-> <<"*">>, whole |-> FALSE, exact |-> FALSE]
Letter == [word |-> <<"f">>, replacement |-> <<"*">>, whole |-> TRUE, exact |-> TRUE]
TwoBlocks == {Secret, Letter}

Said == {<<"h2", "h3", " ", "S", "e">>, <<"k", "8", "f", " ", "f">>}
Answered == {<<"k", "u", " ", "h2", "h3">>, <<"s", "k", "8", " ", "k", "u", "f">>}
=============================================================================
