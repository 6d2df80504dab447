------------------------------ MODULE Grammar ------------------------------
(***************************************************************************)
(* What the scanner and the expression parser are for, said without them:  *)
(* which texts are lexemes, which token sequences are expressions, and the *)
(* code of an expression, from its syntax tree.                            *)
(*                                                                         *)
(* The lexical grammar has three parameters: what the repository's tests   *)
(* say of them is not what the scanner makes of them.                      *)
(***************************************************************************)
EXTENDS Scanner, SequencesExt

CONSTANTS
  NameStart,     \* the characters a name may begin with
  Pairs,         \* the symbols of two characters
  LinesInside    \* do newlines in strings and comments count?

(* The characters that make up a text.                                     *)
Of(text, characters) == \A i \in 1 .. Len(text) : text[i] \in characters

(* A quote is part of a string if an odd number of backslashes precede it. *)
Escaped(text, i) ==
  LET backslashes == Max({0} \cup {n \in 1 .. i - 1 :
                            \A k \in i - n .. i - 1 : text[k] = Backslash})
  IN  backslashes % 2 = 1

IsString(text) ==
  /\ Len(text) >= 2
  /\ \A i \in 1 .. Len(text) :
       text[i] = Quote /\ ~ Escaped(text, i) <=> i \in {1, Len(text)}

(* Digits, with at most one dot among them and none at either end.         *)
IsNumber(text) ==
  \E dot \in (0 .. Len(text) - 1) \ {1} :
    \A i \in 1 .. Len(text) :
      IF i = dot THEN text[i] = "." ELSE text[i] \in Digit

IsName(text) ==
  text[1] \in NameStart /\ Of(text, Letter \cup Digit \cup {Underscore})

IsSymbol(text) ==
  text \in Pairs \/ (Len(text) = 1 /\ text[1] \in Singles)

IsBlank(text) == Of(text, Blank \cup {Newline})

IsLineComment(text) ==
  /\ Len(text) >= 2 /\ text[1] = "/" /\ text[2] = "/"
  /\ \A i \in 1 .. Len(text) : text[i] # Newline

IsBlockComment(text) ==
  /\ Len(text) >= 4 /\ text[1] = "/" /\ text[2] = "*"
  /\ \A i \in 3 .. Len(text) - 1 :
       text[i] = "*" /\ text[i + 1] = "/" <=> i = Len(text) - 1

IsSpace(text) == IsBlank(text) \/ IsLineComment(text) \/ IsBlockComment(text)

KindOf(text) ==
  IF text \in Keyword THEN "keyword"
  ELSE IF IsName(text) THEN "identifier"
  ELSE IF IsNumber(text) THEN "number"
  ELSE IF IsString(text) THEN "string"
  ELSE IF IsSymbol(text) THEN "symbol"
  ELSE IF IsSpace(text) THEN "none"
  ELSE "error"

(* Where the longest lexeme at p ends; 0 if there is none.                 *)
LexemeEnd(s, p) ==
  Max({0} \cup {q \in p .. Len(s) : KindOf(SubSeq(s, p, q)) # "error"})

(* What is at p is no lexeme, or the beginning of a comment without end.   *)
IsError(s, p) ==
  LET text == SubSeq(s, p, LexemeEnd(s, p))
  IN  \/ LexemeEnd(s, p) = 0
      \/ Char(s, p) = "/" /\ Char(s, p + 1) = "*" /\ ~ IsBlockComment(text)

(* The tokens of a text, at each place the longest lexeme there is.  What  *)
(* comes last is the end, or an error where there is no lexeme.            *)
Lexemes(s) ==
  LET from[at \in (1 .. Len(s) + 1) \X Nat] ==
        LET p    == at[1]
            line == at[2]
            end  == LexemeEnd(s, p)
            text == SubSeq(s, p, end)
            kind == KindOf(text)
            newlines == IF LinesInside \/ IsBlank(text)
                          THEN Cardinality({i \in p .. end : s[i] = Newline}) ELSE 0
            rest == from[<<end + 1, line + newlines>>]
        IN  IF p > Len(s) THEN <<EndToken>>
            ELSE IF IsError(s, p) THEN <<Token("error", <<>>, line)>>
            ELSE IF kind = "none" THEN rest
            ELSE <<Token(kind, IF kind = "string" THEN Tail(Front(text)) ELSE text,
                         line)>> \o rest
  IN  from[<<1, 1>>]

-----------------------------------------------------------------------------
(* Expressions                                                             *)

(* The left-associative binary operators, the loosest first.               *)
Ladder == << {<<"!", "=">>, <<"=", "=">>},
             {<<"<">>, <<">">>, <<"<", "=">>, <<">", "=">>},
             {<<"+">>, <<"-">>},
             {<<"*">>, <<"/">>} >>

(* The levels of the grammar.  The Ladder has those from 4 to 7.           *)
List       == 0
Assignment == 1
Or         == 2
And        == 3
Unary      == 8
Call       == 9
Primary    == 10

(* The codes of the token sequence t as an expression, by the grammar      *)
(*   list:       list "," assignment | assignment                          *)
(*   assignment: name "=" assignment | call "." name "=" assignment | or   *)
(*   or:         and "or" or | and                                         *)
(*   and:        rung "and" and | rung                                     *)
(*   rung:       rung operator tighter | tighter                           *)
(*   unary:      "-" unary | "!" unary | call                              *)
(*   call:       call arguments | call "." name                            *)
(*               | call "." name arguments | primary                       *)
(*   arguments:  "(" ")" | "(" list ")"                                    *)
(*   primary:    name | number | string | "(" assignment ")"               *)
(* There is none, or one.  Of a tree it keeps the level of the root, the   *)
(* code, and of how many expressions it is a list.                         *)
Codes(t) ==
  LET Symbol(i, x) == i \in DOMAIN t /\ Is(t[i], "symbol", <<x>>)
      Name(i)      == i \in DOMAIN t /\ t[i].kind = "identifier"
      Field(i)     == Symbol(i - 1, ".") /\ Name(i)
      Tree(level, code) == [level |-> level, code |-> code, number |-> 1]
      When(condition, set) == IF condition THEN set ELSE {}
      trees[i \in 1 .. Len(t) + 2, j \in -1 .. Len(t)] ==
        LET Tight(level, from, to) == {x \in trees[from, to] : x.level >= level}
            Lists(k) ==
              {[level |-> List, code |-> x.code \o y.code, number |-> x.number + 1] :
                 x \in Tight(List, i, k - 1), y \in Tight(Assignment, k + 1, j)}
            Lazy(level, k) ==
              {Tree(level, x.code \o << <<"unless", t[k].lexeme>> >>
                             \o y.code \o << <<"end", t[k].lexeme>> >>) :
                 x \in Tight(level + 1, i, k - 1), y \in Tight(level, k + 1, j)}
            Binary(level, k) ==
              {Tree(level, x.code \o y.code \o << <<"binary", t[k].lexeme>> >>) :
                 x \in Tight(level, i, k - 1), y \in Tight(level + 1, k + 1, j)}
            Assigns ==
              {Tree(Assignment, x.code \o << <<"SET", t[i].lexeme>> >>) :
                 x \in Tight(Assignment, i + 2, j)}
            Sets(k) ==
              {Tree(Assignment, x.code \o y.code \o << <<"SET_PROPERTY", t[k].lexeme>> >>) :
                 x \in Tight(Call, i, k - 2), y \in Tight(Assignment, k + 2, j)}
            Arguments(k) ==
              IF k = j - 1 THEN {[code |-> <<>>, number |-> 0]}
                           ELSE Tight(List, k + 1, j - 1)
            Calls(k) ==
              {Tree(Call, x.code \o a.code \o << <<"CALL", a.number>> >>) :
                 x \in Tight(Call, i, k - 1), a \in Arguments(k)}
            Invokes(k) ==
              {Tree(Call, x.code \o a.code
                            \o << <<"INVOKE", t[k - 1].lexeme, a.number>> >>) :
                 x \in Tight(Call, i, k - 3), a \in Arguments(k)}
            Gets ==
              {Tree(Call, x.code \o << <<"GET_PROPERTY", t[j].lexeme>> >>) :
                 x \in Tight(Call, i, j - 2)}
            Unaries(operation) ==
              {Tree(Unary, x.code \o << <<operation>> >>) : x \in Tight(Unary, i + 1, j)}
            Leaf ==
              CASE t[i].kind = "identifier" -> {Tree(Primary, << <<"GET", t[i].lexeme>> >>)}
                [] t[i].kind \in {"number", "string"} ->
                     {Tree(Primary, << <<"CONSTANT", t[i].lexeme>> >>)}
                [] OTHER -> {}
            Group == {Tree(Primary, x.code) : x \in Tight(Assignment, i + 1, j - 1)}
            RootAt(k) ==
              CASE Symbol(k, ",") -> Lists(k)
                [] Is(t[k], "keyword", <<"o", "r">>)       -> Lazy(Or, k)
                [] Is(t[k], "keyword", <<"a", "n", "d">>)  -> Lazy(And, k)
                [] Field(k) /\ Symbol(k + 1, "=")          -> Sets(k)
                [] Symbol(k, "(") /\ Symbol(j, ")")        ->
                     IF Field(k - 1) THEN Invokes(k) ELSE Calls(k)
                [] OTHER -> UNION {Binary(level, k) : level \in
                     {level \in 4 .. 7 : /\ t[k].kind = "symbol"
                                         /\ t[k].lexeme \in Ladder[level - 3]}}
        IN  IF i > j THEN {}
            ELSE UNION {RootAt(k) : k \in i + 1 .. j - 1}
              \cup When(i = j, Leaf)
              \cup When(Symbol(i, "(") /\ Symbol(j, ")"), Group)
              \cup When(Name(i) /\ Symbol(i + 1, "="), Assigns)
              \cup When(Symbol(i, "-"), Unaries("NEGATE"))
              \cup When(Symbol(i, "!"), Unaries("NOT"))
              \cup When(Field(j), Gets)
  IN  {x.code : x \in {x \in trees[1, Len(t)] : x.level >= Assignment}}

(* A script here is expressions that each end in a semicolon, which is no  *)
(* part of an expression.                                                  *)
Scripts(t) ==
  LET IsSemicolon(token) == Is(token, "symbol", <<";">>)
      script[i \in 1 .. Len(t) + 1] ==
        LET ends == {k \in i .. Len(t) : IsSemicolon(t[k])}
        IN  IF i > Len(t) THEN {<<>>}
            ELSE IF ends = {} THEN {}
            ELSE {a \o << <<"POP">> >> \o b :
                    a \in Codes(SubSeq(t, i, Min(ends) - 1)),
                    b \in script[Min(ends) + 1]}
  IN  script[1]

=============================================================================
