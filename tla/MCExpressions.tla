--------------------------- MODULE MCExpressions ---------------------------
(***************************************************************************)
(* Sources for the scanners and the expression parser.                     *)
(***************************************************************************)
EXTENDS ExpressionsSafety

Keywords == {or_, and_}

(* Characters of which the meaning depends on those around them.           *)
Lexical ==
  BoundedSeq({"/", "*", "\n"}, 4)
    \cup BoundedSeq({"\"", "\\", "a"}, 4)
    \cup BoundedSeq({"1", ".", "a", "_"}, 4)
    \cup BoundedSeq({"=", "!", "-", " ", "@"}, 3)
    \cup BoundedSeq({"o", "r", " ", "\n"}, 3)
    \cup {<<"\"", "\\">> \o x \o <<"\"", "-", ";">> : x \in BoundedSeq({"\\", "\"", "a"}, 3)}
    \cup {<<"/", "*">> \o x \o <<"*", "/", ";">> : x \in BoundedSeq({"*", "/", "\n"}, 2)}

(* Words one after the other, in any order.                                *)
Words(words, n)     == {FlattenSeq(w) : w \in BoundedSeq(words, n)}
Sentences(words, n) == {Append(s, ";") : s \in Words(words, n)}

Syntactic ==
  Sentences({<<"a">>, <<"-">>, <<"*">>, <<"(">>, <<")">>}, 4)
    \cup Sentences({<<"a">>, <<"(">>, <<")">>, <<",">>, <<".">>, <<"=">>}, 3)
    \cup Words({<<"a">>, <<"!">>, <<"(">>, <<";">>}, 3)

(* Operands with an operator between each two of them.                     *)
Operators ==
  {<<"-">>, <<"*">>, <<"!", "=">>, <<"=">>, <<".">>,
   <<" ", "o", "r", " ">>, <<" ", "a", "n", "d", " ">>}
Operands == {<<"a">>, <<"-", "a">>, <<"a", "(", ")">>}

Chains ==
  {<<"a">> \o x \o <<"a">> \o y \o <<"a">> \o z \o <<"a", ";">> :
     x, y \in Operators, z \in {<<"-">>, <<"*">>, <<"=">>}}
    \cup {a \o x \o b \o y \o c \o <<";">> :
            a, b, c \in Operands, x \in {<<"-">>, <<"=">>}, y \in {<<"<">>, <<"=">>}}
    \cup {<<"a", "(">> \o x \o <<",">> \o y \o <<")">> \o z \o <<";">> :
            x, y \in Operands, z \in {<<>>, <<"=", "a">>, <<".", "a", "=", "a">>}}

(* What ends in a semicolon, and what only looks like it.                  *)
Endings ==
  Words({<<"-">>, <<"a">>, <<";">>, <<"/", "/">>, <<"/", "*">>}, 3)

AllSources == Lexical \cup Syntactic \cup Chains \cup Endings

(* Texts of which the tests say something else than the scanner.           *)
Names     == BoundedSeq({"_", "1", "a"}, 4)
Minuses   == {x \o <<"(", "a", ")", ";">> : x \in BoundedSeq({"-", " "}, 4)}
Multiline == {<<"\"">> \o x \o <<"\"", ";", "\n", "a", ";">> : x \in BoundedSeq({"a", "\n"}, 4)}

TestedSources == Names \cup Minuses \cup Multiline

=============================================================================
