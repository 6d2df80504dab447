------------------------------ MODULE Scanner ------------------------------
(***************************************************************************)
(* The scanner (compiler/Scanner.h, Token.h): which characters make which  *)
(* token, and the two ways of keeping tokens for the parser, all at once   *)
(* (ReadAllScanner) or two at a time (ReadByOneScanner).                   *)
(*                                                                         *)
(* A text is a sequence of one-character strings.  Positions count from 1; *)
(* behind the last character is Nul, for which the code has 0.             *)
(***************************************************************************)
EXTENDS Integers, Sequences, FiniteSetsExt

CONSTANTS
  Letter,    \* the characters isalpha() holds of
  Digit,     \* and those isdigit() holds of
  Keyword    \* the texts in kLanguageKeywords

Nul        == ""
Newline    == "\n"
Quote      == "\""
Backslash  == "\\"
Underscore == "_"
Blank      == {" ", "\t", "\r"}

(* The token types that stand for one text each, but for the keywords.     *)
Singles == {"(", ")", "{", "}", ",", ".", "?", ":", ";",
            "-", "+", "/", "*", "!", "=", ">", "<"}
Doubles == {<<"-", "-">>, <<"-", "=">>, <<"+", "+">>, <<"+", "=">>,
            <<"/", "=">>, <<"*", "=">>, <<"!", "=">>, <<"=", "=">>,
            <<">", "=">>, <<"<", "=">>}

ASSUME ScannerAssumption ==
  LET special == Blank \cup Singles
                   \cup {Nul, Newline, Quote, Backslash, Underscore}
  IN  /\ Letter \cap (Digit \cup special) = {}
      /\ Digit \cap special = {}
      /\ Keyword \subseteq Seq(Letter) \ {<<>>}

(* kind and lexeme are the type and the lexeme of the code: a "symbol" or  *)
(* a "keyword" is a type for each lexeme.                                  *)
Token(kind, lexeme, line) == [kind |-> kind, lexeme |-> lexeme, line |-> line]
NoToken  == Token("none", <<>>, 0)
EndToken == Token("end", <<>>, -1)

Is(token, kind, lexeme) == token.kind = kind /\ token.lexeme = lexeme

-----------------------------------------------------------------------------
(* From characters to tokens                                               *)

Char(s, p) == IF p <= Len(s) THEN s[p] ELSE Nul

(* The first position from p on that has none of these characters.         *)
Past(s, p, characters) ==
  Min({q \in p .. Len(s) + 1 : Char(s, q) \notin characters})

(* Variant of NumberEnd: a dot belongs to the number before it.            *)
NumberEndAnyDot(s, p) ==
  LET q == Past(s, p, Digit)
  IN  IF Char(s, q) = "." THEN Past(s, q + 1, Digit) ELSE q

(* number(): digits, and a dot only if a digit follows.                    *)
NumberEnd(s, p) ==
  LET q == Past(s, p, Digit)
  IN  IF Char(s, q) = "." /\ Char(s, q + 1) \in Digit
        THEN Past(s, q + 1, Digit) ELSE q

NameEnd(s, p) == Past(s, p, Letter \cup Digit \cup {Underscore})

(* string() from p, behind the quote: behind the closing quote, or 0.  The *)
(* character after an escape is skipped if it is not a quote, also when it *)
(* begins the next escape.                                                 *)
StringEnd(s, p) ==
  LET end[q \in p .. Len(s) + 3] ==
        IF q > Len(s) THEN 0
        ELSE LET r == IF s[q] = Backslash THEN q + 2 ELSE q
             IN  IF Char(s, r) = Quote THEN r + 1 ELSE end[r + 1]
  IN  end[p]

(* Comments, behind their last character; 0 if there is no end.            *)
LineEnd(s, p) == Min({q \in p .. Len(s) + 1 : Char(s, q) \in {Newline, Nul}})
CommentEnd(s, p) ==
  LET ends == {q \in p .. Len(s) : s[q] = "*" /\ Char(s, q + 1) = "/"}
  IN  IF ends = {} THEN 0 ELSE Min(ends) + 2

(* getToken() at p: a token, NoToken for what is between tokens, or an     *)
(* error, and the position and the line it leaves.  Only a newline that is *)
(* not part of a comment or a string counts as a line.                     *)
GetToken(s, p, line) ==
  LET c   == Char(s, p)
      two == <<c, Char(s, p + 1)>>
      Found(kind, lexeme, q) ==
        [token |-> Token(kind, lexeme, line), at |-> q, line |-> line]
      Text(kind, q) == Found(kind, SubSeq(s, p, q - 1), q)
      Between(q)    == Found("none", <<>>, q)
      Error(q)      == Found("error", <<>>, q)
  IN  CASE c = Newline          -> [Between(p + 1) EXCEPT !.line = line + 1]
        [] c \in Blank          -> Between(p + 1)
        [] two = <<"/", "/">>   -> Between(LineEnd(s, p))
        [] two = <<"/", "*">>   -> LET q == CommentEnd(s, p + 2)
                                   IN  IF q = 0 THEN Error(Len(s) + 1)
                                                ELSE Between(q)
        [] two \in Doubles      -> Text("symbol", p + 2)
        [] /\ c \in Singles
           /\ two \notin Doubles \cup {<<"/", "/">>, <<"/", "*">>}
                                -> Text("symbol", p + 1)
        [] c = Quote            -> LET q == StringEnd(s, p + 1)
                                   IN  IF q = 0 THEN Error(Len(s) + 1)
                                       ELSE Found("string",
                                                  SubSeq(s, p + 1, q - 2), q)
        [] c \in Digit          -> Text("number", NumberEnd(s, p))
        [] c \in Letter         -> LET q == NameEnd(s, p)
                                   IN  Text(IF SubSeq(s, p, q - 1) \in Keyword
                                              THEN "keyword"
                                              ELSE "identifier", q)
        [] OTHER                -> Error(p)

-----------------------------------------------------------------------------
(* From tokens to the parser.  A scanner is a record; of `tokens' it shows *)
(* the parser the one at `index' and the next.                             *)

ReadAll(source) ==
  [kind |-> "readall", source |-> source, at |-> 1, line |-> 1,
   tokens |-> <<>>, index |-> 0]

ByOne(source) ==
  [kind |-> "byone", source |-> source, at |-> 1, line |-> 1,
   tokens |-> <<EndToken, EndToken>>, index |-> 1]

Previous(scanner)    == scanner.tokens[scanner.index]
Current(scanner)     == scanner.tokens[scanner.index + 1]
HasPrevious(scanner) == scanner.index > 0
AtEnd(scanner)       == Current(scanner).kind = "end"

EndOfSource(scanner) == scanner.at > Len(scanner.source)

Read(scanner) == GetToken(scanner.source, scanner.at, scanner.line)
MovedTo(scanner, read) ==
  [scanner EXCEPT !.at = read.at, !.line = read.line]

(* ReadByOneScanner::advance asks for tokens until it gets one.            *)
NextToken(scanner) ==
  LET s == scanner.source
      next[at \in (1 .. Len(s) + 1) \X Nat] ==
        LET read == GetToken(s, at[1], at[2])
        IN  IF read.token.kind = "none" THEN next[<<read.at, read.line>>] ELSE read
  IN  next[<<scanner.at, scanner.line>>]

(* advance() throws when it comes upon something that is no token; behind  *)
(* blanks, so is the end of the source.                                    *)
Throws(scanner) ==
  /\ scanner.kind = "byone"
  /\ ~ EndOfSource(scanner)
  /\ NextToken(scanner).token.kind = "error"

(* Variant of Shifted: the tokens in the wrong order.                      *)
ShiftedBack(scanner, token) == [scanner EXCEPT !.tokens = <<token, @[1]>>]

Shifted(scanner, token) == [scanner EXCEPT !.tokens = <<@[2], token>>]

(* Variants of Advance: the readall scanner moves past the end; at the     *)
(* end of the source the byone scanner keeps its two tokens.               *)
AdvancePastEnd(scanner) ==
  IF scanner.kind = "readall" THEN [scanner EXCEPT !.index = @ + 1]
  ELSE IF EndOfSource(scanner) THEN Shifted(scanner, EndToken)
  ELSE LET read == NextToken(scanner)
           rest == MovedTo(scanner, read)
       IN  IF Throws(scanner) THEN rest ELSE Shifted(rest, read.token)

AdvanceKeeping(scanner) ==
  IF scanner.kind = "readall"
    THEN IF AtEnd(scanner) THEN scanner ELSE [scanner EXCEPT !.index = @ + 1]
  ELSE IF EndOfSource(scanner) THEN scanner
  ELSE LET read == NextToken(scanner)
           rest == MovedTo(scanner, read)
       IN  IF Throws(scanner) THEN rest ELSE Shifted(rest, read.token)

Advance(scanner) ==
  IF scanner.kind = "readall"
    THEN IF AtEnd(scanner) THEN scanner ELSE [scanner EXCEPT !.index = @ + 1]
  ELSE IF EndOfSource(scanner) THEN Shifted(scanner, EndToken)
  ELSE LET read == NextToken(scanner)
           rest == MovedTo(scanner, read)
       IN  IF Throws(scanner) THEN rest ELSE Shifted(rest, read.token)

Check(scanner, lexeme) == Is(Current(scanner), "symbol", lexeme)

=============================================================================
