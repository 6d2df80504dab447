------------------------- MODULE ExpressionsSafety -------------------------
(***************************************************************************)
(* What Grammar says of a source, held against what the scanners and the   *)
(* parser make of it.                                                      *)
(***************************************************************************)
EXTENDS Expressions

(* The lexical grammar of the repository's tests: names may begin with an  *)
(* underscore (test/scanning/identifiers.lox), two minuses are two symbols *)
(* (test/operator/negate.lox), and every newline begins a line             *)
(* (test/string/error_after_multiline.lox).                                *)
Tested == INSTANCE Grammar WITH NameStart   <- Letter \cup {Underscore},
                                Pairs       <- Doubles \ {<<"-", "-">>},
                                LinesInside <- TRUE

(* The dialect of the scanner differs in these three, and it is the        *)
(* dialect that the rest of the front end is held against.                 *)
Dialect == INSTANCE Grammar WITH NameStart   <- Letter,
                                 Pairs       <- Doubles,
                                 LinesInside <- FALSE

Source  == scanner.source
Lexemes == Dialect!Lexemes(Source)
Tokens  == Front(Lexemes)               \* up to the end, or to an error
Scripts == IF Last(Lexemes) = EndToken THEN Dialect!Scripts(Tokens) ELSE {}

IsReadAll == scanner.kind = "readall"
Ended     == status \in {"compiled", "error", "undefined", "crashed"}

(* Two escapes with nothing between them.                                  *)
AdjacentEscapes ==
  \E i \in 1 .. Len(Source) - 2 : Source[i] = Backslash /\ Source[i + 2] = Backslash

(* The last lexeme is followed by a blank, a newline or a comment.         *)
EndsInSpace ==
  LET spaces == {q \in 1 .. Len(Source) :
                   Dialect!Lexemes(SubSeq(Source, q, Len(Source)))
                     = <<EndToken>>}
  IN  spaces # {}

HasOperators ==
  \E i \in 1 .. Len(Tokens) :
    PrecedenceOf(Tokens[i]) \in EQUALITY .. FACTOR \/ Is(Tokens[i], "symbol", <<"!">>)

TypeOK ==
  /\ scanner.at \in 1 .. Len(Source) + 1
  /\ scanner.line \in 1 .. Len(Source) + 1
  /\ scanner.index \in 0 .. Len(scanner.tokens)
  /\ status \in {"parsing", "synchronizing"} =>
       scanner.index < Len(scanner.tokens)
  /\ status = "parsing" => todo # <<>>

(* What the readall scanner has read are these lexemes, to the end or up   *)
(* to the error that is the last of them.                                  *)
AreScanned(lexemes) ==
  IF scanner.tokens # <<>> /\ Last(scanner.tokens) = EndToken
    THEN scanner.tokens = lexemes
    ELSE scanner.tokens = Front(lexemes) /\ Last(lexemes).kind = "error"

(* getToken's chain of conditions and loops finds at each place the        *)
(* longest lexeme of the dialect, loses no character, and counts the lines *)
(* the dialect counts; it reports an error only where the dialect has no   *)
(* lexeme, and always there.                                               *)
ScannedAsSpecified ==
  Ended /\ IsReadAll /\ ~ AdjacentEscapes => AreScanned(Lexemes)

(* The two tokens the byone scanner has are the two last it has read: it   *)
(* shows the parser what the readall scanner would.                        *)
ByOneFollows ==
  ~ IsReadAll /\ ~ EndOfSource(scanner) /\ ~ AdjacentEscapes =>
    LET read == <<EndToken, EndToken>> \o
                Front(Dialect!Lexemes(SubSeq(Source, 1, scanner.at - 1)))
    IN  scanner.tokens = SubSeq(read, Len(read) - 1, Len(read))

(* parsePrecedence, with its precedences and its order of calls, accepts   *)
(* what the grammar derives and nothing else, and emits what the syntax    *)
(* tree says.  The byone scanner keeps to that as long as there are no     *)
(* operators, and nothing behind the last token.                           *)
TranslatedAsSpecified ==
  ~ AdjacentEscapes =>
    /\ status = "compiled" /\ (IsReadAll \/ ~ HasOperators) => Scripts = {code}
    /\ status = "compiled" => Scripts # {}
    /\ status \in {"error", "crashed"} /\ (IsReadAll \/ ~ EndsInSpace) =>
         Scripts = {}

(* The parser calls itself without end only with the readall scanner, and  *)
(* only when the source ends in a token that asks for another expression.  *)
CrashesOnlyAtTheEnd ==
  ~ AdjacentEscapes /\ status = "crashed" =>
    /\ IsReadAll
    /\ \E c \in {"-", "!", "("} : Is(Last(Tokens), "symbol", <<c>>)

(* Every source comes to an end in the parser, with either scanner and     *)
(* whatever errors are in it; and one whose last token is a semicolon not  *)
(* by the parser calling itself without end.                               *)
Terminates ==
  LET tokens      == Tokens
      InSemicolon == tokens # <<>> /\ Last(tokens).lexeme = <<";">>
  IN  <>(Ended /\ (status = "crashed" => ~ InSemicolon))

-----------------------------------------------------------------------------
(* What the repository says and the code does not keep.                    *)

(* Whichever scanner is chosen, the code is what the grammar says.         *)
ScannersAgree == status = "compiled" => Scripts = {code}

(* The tokens of a text are those that the tests expect.                   *)
ScannedAsTested ==
  Ended /\ IsReadAll /\ ~ AdjacentEscapes => AreScanned(Tested!Lexemes(Source))

=============================================================================
