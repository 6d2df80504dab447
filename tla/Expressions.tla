---------------------------- MODULE Expressions ----------------------------
(***************************************************************************)
(* The parser and the scanner together, on scripts of expressions: from    *)
(* the characters of a source to the code, for either scanner, with all    *)
(* that happens at the end of the source and after an error.               *)
(*                                                                         *)
(* As in Compiler, todo is the stack of the C++ calls in progress.  Unlike *)
(* there the source is given, the parser sees its tokens only through the  *)
(* scanner, and code is what matters of it here, the order of operations.  *)
(* A source has no statement keyword, brace, `this' or `super'.            *)
(***************************************************************************)
EXTENDS Scanner, SequencesExt

CONSTANT Sources    \* the texts to compile

VARIABLES
  scanner,   \* Parser::scanner_
  todo,      \* what the parser has still to do
  code,      \* the operations emitted
  status     \* "scanning", "parsing", "synchronizing", or how it ended:
             \* "compiled", "error", "undefined" or "crashed"

vars == <<scanner, todo, code, status>>

(* enum class Precedence                                                   *)
NONE       == 0
ASSIGNMENT == 1
OR         == 2
AND        == 3
EQUALITY   == 4
COMPARISON == 5
TERM       == 6
FACTOR     == 7
UNARY      == 8
CALL       == 9

or_  == <<"o", "r">>
and_ == <<"a", "n", "d">>

ASSUME SourcesAssumption ==
  /\ Keyword \subseteq {or_, and_}
  /\ Sources \subseteq Seq(STRING \ {Nul})

(* The rules with an infix function, by their precedence.                  *)
Infixes ==
  [p \in NONE .. CALL |->
     CASE p = OR         -> {or_}
       [] p = AND        -> {and_}
       [] p = EQUALITY   -> {<<"!", "=">>, <<"=", "=">>}
       [] p = COMPARISON -> {<<">">>, <<"<">>, <<">", "=">>, <<"<", "=">>}
       [] p = TERM       -> {<<"-">>, <<"+">>}
       [] p = FACTOR     -> {<<"/">>, <<"*">>}
       [] p = CALL       -> {<<"(">>, <<".">>}
       [] OTHER          -> {}]

PrecedenceOf(token) ==
  IF token.kind \notin {"symbol", "keyword"} THEN NONE
  ELSE Max({NONE} \cup {p \in NONE .. CALL : token.lexeme \in Infixes[p]})

(* What is left to do, as entries of todo.                                 *)
Precedence(p)      == <<"precedence", p>>
Expression         == Precedence(ASSIGNMENT)
Consume(lexeme)    == <<"consume", lexeme>>
ThenEmit(operation) == <<"emit", operation>>

Doing(what) == status = "parsing" /\ Head(todo)[1] = what
Arg(i)      == Head(todo)[i + 1]

(* The head of todo is done when `items' are, with the scanner at s.       *)
Continue(s, emitted, items) ==
  /\ scanner' = s
  /\ code' = code \o emitted
  /\ todo' = items \o Tail(todo)
  /\ UNCHANGED status

(* A ParseError, which Parser::run catches.                                *)
Fail(s) ==
  /\ scanner' = s
  /\ code' = <<>>
  /\ todo' = <<>>
  /\ status' = "synchronizing"

(* advance(), and then either of the two.                                  *)
AdvanceThen(emitted, items) ==
  LET s == Advance(scanner)
  IN  IF Throws(scanner) THEN Fail(s) ELSE Continue(s, emitted, items)

End(how) ==
  /\ status' = how
  /\ UNCHANGED <<scanner, todo, code>>

Init ==
  /\ \E source \in Sources : scanner \in {ReadAll(source), ByOne(source)}
  /\ todo = << <<"program">> >>
  /\ code = <<>>
  /\ status = "scanning"

-----------------------------------------------------------------------------
(* The constructors of the scanners                                        *)

(* ReadAllScanner::scan.  An error is reported at current(), which is the  *)
(* first token; if there is none yet, tokens_ is read out of bounds.       *)
Scan ==
  /\ status = "scanning" /\ scanner.kind = "readall" /\ ~ EndOfSource(scanner)
  /\ LET read == Read(scanner)
     IN CASE read.token.kind = "error" ->
               End(IF scanner.tokens = <<>> THEN "undefined" ELSE "error")
          [] read.token.kind = "none" ->
               /\ scanner' = MovedTo(scanner, read)
               /\ UNCHANGED <<todo, code, status>>
          [] OTHER ->
               /\ scanner' = [MovedTo(scanner, read) EXCEPT
                                !.tokens = Append(@, read.token)]
               /\ UNCHANGED <<todo, code, status>>

EndScan ==
  /\ status = "scanning" /\ scanner.kind = "readall" /\ EndOfSource(scanner)
  /\ scanner' = [scanner EXCEPT !.tokens = Append(@, EndToken)]
  /\ status' = "parsing"
  /\ UNCHANGED <<todo, code>>

(* ReadByOneScanner advances once.                                         *)
ScanFirst ==
  /\ status = "scanning" /\ scanner.kind = "byone"
  /\ scanner' = Advance(scanner)
  /\ status' = IF Throws(scanner) THEN "error" ELSE "parsing"
  /\ UNCHANGED <<todo, code>>

-----------------------------------------------------------------------------
(* Statements                                                              *)

(* Parser::run.  At the end emitReturnNil asks for the line of previous(), *)
(* and there may be no such token.                                         *)
Program ==
  /\ Doing("program")
  /\ IF AtEnd(scanner)
       THEN End(IF HasPrevious(scanner) THEN "compiled" ELSE "undefined")
       ELSE Continue(scanner, <<>>,
                     <<Expression, ThenEmit(<<"POP">>), Consume(<<";">>),
                       Head(todo)>>)

Emission ==
  /\ Doing("emit")
  /\ Continue(scanner, <<Arg(1)>>, <<>>)

Consumption ==
  /\ Doing("consume")
  /\ IF Check(scanner, Arg(1)) THEN AdvanceThen(<<>>, <<>>) ELSE Fail(scanner)

(* Variant of Synchronize: the loop does not advance.                      *)
SynchronizeStanding ==
  /\ status = "synchronizing"
  /\ status' = IF AtEnd(scanner) \/ Is(Previous(scanner), "symbol", <<";">>)
                 THEN "error" ELSE "synchronizing"
  /\ UNCHANGED <<scanner, todo, code>>

(* Scanner::synchronize, after an error: up to the token behind the next   *)
(* semicolon.                                                              *)
Synchronize ==
  /\ status = "synchronizing"
  /\ scanner' = Advance(scanner)
  /\ status' = IF \/ Throws(scanner)
                  \/ AtEnd(scanner')
                  \/ Is(Previous(scanner'), "symbol", <<";">>)
                 THEN "error" ELSE "synchronizing"
  /\ UNCHANGED <<todo, code>>

-----------------------------------------------------------------------------
(* Expressions                                                             *)

(* Variant of CanAssign: a target of an assignment is any variable.        *)
CanAlwaysAssign(p) == TRUE

CanAssign(p) == p <= ASSIGNMENT

(* The prefix function of a token's rule, as what there is to do.          *)
PrefixOf(token, p) ==
  CASE token.kind = "identifier" ->
         << <<"variable", token.lexeme, CanAssign(p)>> >>
    [] token.kind \in {"number", "string"} ->
         <<ThenEmit(<<"CONSTANT", token.lexeme>>)>>
    [] Is(token, "symbol", <<"(">>) ->
         <<Expression, Consume(<<")">>)>>
    [] Is(token, "symbol", <<"-">>) \/ Is(token, "symbol", <<"!">>) ->
         <<Precedence(UNARY), <<"unary", token>> >>
    [] OTHER -> <<>>

(* The infix function.  The right operand of `and' and of `or' is parsed   *)
(* at their own precedence, that of the others one above.                  *)
InfixOf(token, p) ==
  LET precedence == PrecedenceOf(token)
  IN  CASE precedence \in {OR, AND} ->
             <<ThenEmit(<<"unless", token.lexeme>>), Precedence(precedence),
               ThenEmit(<<"end", token.lexeme>>)>>
        [] token.lexeme = <<"(">> -> << <<"arguments", <<"CALL">> >> >>
        [] token.lexeme = <<".">> -> << <<"dot", CanAssign(p)>> >>
        [] OTHER -> <<Precedence(precedence + 1), <<"binary", token>> >>

(* parsePrecedence: a prefix function ...                                  *)
ParsePrecedence ==
  /\ Doing("precedence")
  /\ LET s      == Advance(scanner)
         prefix == PrefixOf(Previous(s), Arg(1))
     IN IF Throws(scanner) \/ prefix = <<>> THEN Fail(s)
        ELSE Continue(s, <<>>, Append(prefix, <<"infix", Arg(1)>>))

(* ... and infix functions, while the next token binds tightly enough.     *)
Infix ==
  /\ Doing("infix")
  /\ IF Arg(1) > PrecedenceOf(Current(scanner))
       THEN Continue(scanner, <<>>, <<>>)
       ELSE AdvanceThen(<<>>,
              Append(InfixOf(Current(scanner), Arg(1)), Head(todo)))

(* namedVariable                                                           *)
Variable ==
  /\ Doing("variable")
  /\ IF Arg(2) /\ Check(scanner, <<"=">>)
       THEN AdvanceThen(<<>>, <<Expression, ThenEmit(<<"SET", Arg(1)>>)>>)
       ELSE Continue(scanner, << <<"GET", Arg(1)>> >>, <<>>)

(* The token `op' of unary() and binary() is a reference to what           *)
(* previous() was: of the byone scanner, to what it is.                    *)
Operator ==
  IF scanner.kind = "byone" THEN Previous(scanner) ELSE Arg(1)

UnaryOperator ==
  /\ Doing("unary")
  /\ Continue(scanner,
       CASE Is(Operator, "symbol", <<"-">>) -> << <<"NEGATE">> >>
         [] Is(Operator, "symbol", <<"!">>) -> << <<"NOT">> >>
         [] OTHER -> <<>>, <<>>)

BinaryOperator ==
  /\ Doing("binary")
  /\ Continue(scanner,
       IF PrecedenceOf(Operator) \in EQUALITY .. FACTOR
         THEN << <<"binary", Operator.lexeme>> >> ELSE <<>>, <<>>)

(* argumentList, for an instruction that has their number as its operand.  *)
Arguments ==
  /\ Doing("arguments")
  /\ IF Check(scanner, <<")">>)
       THEN AdvanceThen(<<Append(Arg(1), 0)>>, <<>>)
       ELSE Continue(scanner, <<>>, <<Expression, <<"comma", Arg(1), 1>> >>)

Comma ==
  /\ Doing("comma")
  /\ IF Check(scanner, <<",">>)
       THEN AdvanceThen(<<>>,
              <<Expression, <<"comma", Arg(1), Arg(2) + 1>> >>)
       ELSE Continue(scanner, <<>>,
              <<Consume(<<")">>), ThenEmit(Append(Arg(1), Arg(2)))>>)

Dot ==
  /\ Doing("dot")
  /\ IF Current(scanner).kind = "identifier"
       THEN AdvanceThen(<<>>,
              << <<"property", Current(scanner).lexeme, Arg(1)>> >>)
       ELSE Fail(scanner)

Property ==
  /\ Doing("property")
  /\ IF Arg(2) /\ Check(scanner, <<"=">>)
       THEN AdvanceThen(<<>>,
              <<Expression, ThenEmit(<<"SET_PROPERTY", Arg(1)>>)>>)
     ELSE IF Check(scanner, <<"(">>)
       THEN AdvanceThen(<<>>, << <<"arguments", <<"INVOKE", Arg(1)>> >> >>)
     ELSE Continue(scanner, << <<"GET_PROPERTY", Arg(1)>> >>, <<>>)

-----------------------------------------------------------------------------

(* Every call in progress has read a token, and none has more than four    *)
(* entries: beyond that the parser calls itself without end.               *)
TooDeep == Len(todo) > 4 * (Len(scanner.source) + 1)

StackOverflow == TooDeep /\ status = "parsing" /\ End("crashed")

Parse ==
  \/ Program \/ Emission \/ Consumption
  \/ ParsePrecedence \/ Infix \/ Variable \/ UnaryOperator \/ BinaryOperator
  \/ Arguments \/ Comma \/ Dot \/ Property

Next ==
  \/ Scan \/ EndScan \/ ScanFirst \/ Synchronize
  \/ ~ TooDeep /\ Parse
  \/ StackOverflow

Spec == Init /\ [][Next]_vars /\ WF_vars(Next)

=============================================================================
