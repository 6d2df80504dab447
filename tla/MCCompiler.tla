----------------------------- MODULE MCCompiler -----------------------------
(***************************************************************************)
(* Instances of the compiler for TLC, by the parts of the language.        *)
(***************************************************************************)
EXTENDS CompilerSafety

CONSTANTS a, b, c    \* identifiers

Grammar(productions, names, operators, fuel_, depth, arity) ==
  [productions |-> productions, names |-> names, operators |-> operators,
   fuel |-> fuel_, depth |-> depth, arity |-> arity]

Statements_ ==
  Grammar({"var", "block", "if", "while", "for", "return", "print"},
          {c}, {}, 4, 2, 0)

Locals_ ==
  Grammar({"var", "block", "variable", "assign"}, {a, b}, {}, 4, 1, 0)

Jumps_ ==
  Grammar({"for", "if", "number"}, {c}, {}, 3, 1, 0)

Expressions_ ==
  Grammar({"variable", "assign", "and", "or", "unary", "grouping",
           "call", "dot"}, {c}, {"ADD"}, 4, 0, 1)

Classes ==
  Grammar({"class", "super", "this", "fun", "block"},
          {a, b}, {}, 4, 1, 1)

Closures ==
  Grammar({"fun", "block", "variable"}, {a, b}, {}, 5, 1, 0)

Arguments_ ==
  Grammar({"fun", "block", "variable"}, {a, b}, {}, 4, 1, 1)

(* Every part of the language, and three grammars that lead to a place     *)
(* where the compiler goes wrong.                                          *)
WholeLanguage ==
  {Statements_, Locals_, Jumps_, Expressions_, Classes, Closures, Arguments_}
Shadowing     == {Grammar({"block", "fun"}, {a, b}, {}, 4, 2, 1)}
BlockClosures == {Grammar({"block", "fun", "variable"}, {a, b}, {}, 5, 2, 0)}
Superclasses  == {Grammar({"class", "super"}, {a, b}, {}, 4, 2, 0)}

(* No name is treated differently from another.  ("super" and "init" are   *)
(* in no set of names, and a grammar has both of a and b or neither.)      *)
AnyNames == Permutations({a, b})

=============================================================================
