-------------------------- MODULE ExpressionsProofs --------------------------
(***************************************************************************)
(* The front end, for every text: the scanners stay within their source,   *)
(* what either makes of it is what the lexical grammar of the dialect      *)
(* says, and the parser runs out of stack only where it asks at the end of *)
(* the source for an expression.                                           *)
(***************************************************************************)
EXTENDS ExpressionsSafety, SequenceTheorems, FiniteSetTheorems,
        WellFoundedInduction, TLAPS

-----------------------------------------------------------------------------
(* Least and greatest elements, and functions defined by recursion.        *)

LEMMA LeastNat ==
  ASSUME NEW T, T \subseteq Nat, T # {}
  PROVE  \E x \in T : \A y \in T : x <= y
<1> DEFINE R == OpToRel(<, Nat)
<1>1. PICK x \in T : \A y \in T : ~ (<<y, x>> \in R)
  <2> HIDE DEF R
  <2>1. IsWellFoundedOn(R, Nat)
    BY NatLessThanWellFounded DEF R
  <2>2. QED
    BY <2>1, WFMin
<1>2. \A y \in T : x <= y
  <2>1. TAKE y \in T
  <2>2. x \in Nat /\ y \in Nat
    OBVIOUS
  <2>3. y < x => <<y, x>> \in R
    BY <2>2 DEF OpToRel
  <2>4. ~ (y < x)
    BY <1>1, <2>3, Zenon
  <2>5. QED
    BY <2>2, <2>4
<1>3. QED
  BY <1>2

LEMMA MinIsLeast ==
  ASSUME NEW T, T \subseteq Nat, T # {}
  PROVE  Min(T) \in T /\ \A y \in T : Min(T) <= y
BY LeastNat DEF Min

LEMMA MaxIsGreatest ==
  ASSUME NEW n \in Nat, NEW T, T \subseteq 0 .. n, T # {}
  PROVE  Max(T) \in T /\ \A y \in T : y <= Max(T)
<1> DEFINE U == {n - x : x \in T}
<1>1. U \subseteq Nat /\ U # {}
  <2>1. \A x \in T : x \in 0 .. n /\ n - x \in Nat
    OBVIOUS
  <2>2. QED
    BY <2>1
<1>2. PICK u \in U : \A y \in U : u <= y
  BY <1>1, LeastNat
<1>3. PICK x \in T : u = n - x
  BY <1>2
<1>4. \A y \in T : x >= y
  <2>1. TAKE y \in T
  <2>2. u <= n - y
    BY <1>2
  <2>3. x \in 0 .. n /\ y \in 0 .. n
    OBVIOUS
  <2>4. QED
    BY <2>2, <2>3, <1>3
<1>5. Max(T) \in T /\ \A y \in T : Max(T) >= y
  BY <1>4 DEF Max
<1>6. QED
  BY <1>5

(* The maximum of a set is the one element that bounds it.                 *)
LEMMA MaxIs ==
  ASSUME NEW n \in Nat, NEW T, T \subseteq 0 .. n, NEW m \in T, \A y \in T : y <= m
  PROVE  Max(T) = m
<1>1. Max(T) \in T /\ \A y \in T : y <= Max(T)
  BY MaxIsGreatest
<1>2. m \in 0 .. n /\ Max(T) \in 0 .. n /\ m <= Max(T) /\ Max(T) <= m
  BY <1>1
<1>3. QED
  BY <1>2

(* Induction in a form the provers can use: the property is a set.         *)
LEMMA SetInduction ==
  ASSUME NEW S, 0 \in S, \A n \in Nat : n \in S => n + 1 \in S
  PROVE  \A n \in Nat : n \in S
<1>1. SUFFICES ASSUME Nat \ S # {}
               PROVE  FALSE
  OBVIOUS
<1>2. PICK x \in Nat \ S : \A y \in Nat \ S : x <= y
  BY <1>1, LeastNat
<1>3. x - 1 \in Nat
  BY <1>2
<1>4. x - 1 \in S
  BY <1>2, <1>3
<1>5. QED
  BY <1>2, <1>3, <1>4

(* What holds at x if it holds at everything of a lower rank holds         *)
(* everywhere.                                                             *)
LEMMA RankInduction ==
  ASSUME NEW D, NEW rank \in [D -> Nat], NEW S,
         \A x \in D : (\A y \in D : rank[y] < rank[x] => y \in S) => x \in S
  PROVE  \A x \in D : x \in S
<1> DEFINE K == {n \in Nat : \A x \in D : rank[x] < n => x \in S}
<1>1. 0 \in K
  OBVIOUS
<1>2. \A n \in Nat : n \in K => n + 1 \in K
  <2>1. SUFFICES ASSUME NEW n \in Nat, n \in K, NEW x \in D, rank[x] < n + 1
                 PROVE  x \in S
    OBVIOUS
  <2>2. \A y \in D : rank[y] < rank[x] => rank[y] < n
    <3>1. TAKE y \in D
    <3>2. rank[x] \in Nat /\ rank[y] \in Nat
      OBVIOUS
    <3>3. QED
      BY <3>2, <2>1
  <2>3. QED
    BY <2>1, <2>2
<1> HIDE DEF K
<1>3. \A n \in Nat : n \in K
  BY <1>1, <1>2, SetInduction
<1>4. SUFFICES ASSUME NEW x \in D PROVE x \in S
  OBVIOUS
<1>5. rank[x] + 1 \in K /\ rank[x] \in Nat
  BY <1>3
<1>6. QED
  BY <1>5 DEF K

(* f is base where the recursion stops, and elsewhere what C makes of f at *)
(* the place J goes on to.                                                 *)
Recurs(f, D, stops, base, J, C) ==
  \A x \in D : f[x] = IF x \in stops THEN base[x] ELSE C[<<x, f[J[x]]>>]

LEMMA Recursion ==
  ASSUME NEW D, NEW T, NEW stops, NEW base \in [D -> T],
         NEW J \in [D \ stops -> D], NEW C \in [D \X T -> T],
         NEW rank \in [D -> Nat], NEW bound \in Nat, \A x \in D : rank[x] < bound,
         \A x \in D \ stops : rank[J[x]] < rank[x]
  PROVE  \E f \in [D -> T] : Recurs(f, D, stops, base, J, C)
<1> DEFINE Upto(f, n) ==
             \A x \in D : rank[x] < n =>
               f[x] = IF x \in stops THEN base[x] ELSE C[<<x, f[J[x]]>>]
           K == {n \in Nat : \E f \in [D -> T] : Upto(f, n)}
<1>1. 0 \in K
  BY DEF K
<1>2. \A n \in Nat : n \in K => n + 1 \in K
  <2>1. SUFFICES ASSUME NEW n \in Nat, n \in K
                 PROVE  n + 1 \in K
    OBVIOUS
  <2>2. PICK f \in [D -> T] : Upto(f, n)
    BY <2>1
  <2> DEFINE h == [x \in D |-> IF rank[x] < n THEN f[x]
                               ELSE IF x \in stops THEN base[x] ELSE C[<<x, f[J[x]]>>]]
  <2>3. h \in [D -> T]
    OBVIOUS
  <2>4. ASSUME NEW x \in D, rank[x] < n + 1
        PROVE  h[x] = IF x \in stops THEN base[x] ELSE C[<<x, h[J[x]]>>]
    <3>1. rank[x] \in Nat
      OBVIOUS
    <3>2. h[x] = IF x \in stops THEN base[x] ELSE C[<<x, f[J[x]]>>]
      BY <2>2
    <3>3. x \notin stops => h[J[x]] = f[J[x]]
      <4>1. SUFFICES ASSUME x \notin stops PROVE h[J[x]] = f[J[x]]
        OBVIOUS
      <4>2. J[x] \in D /\ rank[J[x]] < rank[x] /\ rank[J[x]] \in Nat
        BY <4>1
      <4>3. rank[J[x]] < n
        BY <4>2, <3>1, <2>4
      <4>4. QED
        BY <4>2, <4>3
    <3> HIDE DEF h
    <3>4. QED
      BY <3>2, <3>3
  <2> HIDE DEF h
  <2>5. Upto(h, n + 1)
    BY <2>4
  <2>6. n + 1 \in Nat /\ \E g \in [D -> T] : Upto(g, n + 1)
    BY <2>3, <2>5
  <2>7. QED
    BY <2>6
<1> HIDE DEF K
<1>3. bound \in K
  BY <1>1, <1>2, SetInduction
<1>4. PICK f \in [D -> T] : Upto(f, bound)
  BY <1>3 DEF K
<1>5. QED
  BY <1>4 DEF Recurs

-----------------------------------------------------------------------------
(* Texts.                                                                  *)

Text == Seq(STRING \ {Nul})

LEMMA Characters ==
  ASSUME NEW s \in Text
  PROVE  /\ Len(s) \in Nat
         /\ \A p \in 1 .. Len(s) : s[p] \in STRING /\ s[p] # Nul /\ Char(s, p) = s[p]
         /\ \A p \in Nat : p > Len(s) => Char(s, p) = Nul
<1>1. Len(s) \in Nat /\ \A p \in 1 .. Len(s) : s[p] \in STRING \ {Nul}
  BY DEF Text
<1>2. \A p \in Nat : p > Len(s) => Char(s, p) = Nul
  BY <1>1 DEF Char
<1>3. \A p \in 1 .. Len(s) : Char(s, p) = s[p]
  BY <1>1 DEF Char
<1>4. QED
  BY <1>1, <1>2, <1>3

(* The sets of characters have nothing in common, and no end of the text.  *)
LEMMA Disjoint ==
  /\ \A c \in Letter : /\ c \notin Digit /\ c \notin Blank /\ c \notin Singles
                        /\ c # Nul /\ c # Newline /\ c # Quote /\ c # Backslash
                        /\ c # Underscore
  /\ \A c \in Digit : /\ c \notin Letter /\ c \notin Blank /\ c \notin Singles
                       /\ c # Nul /\ c # Newline /\ c # Quote /\ c # Backslash
                       /\ c # Underscore
<1> DEFINE special == Blank \cup Singles \cup {Nul, Newline, Quote, Backslash, Underscore}
<1>1. Letter \cap (Digit \cup special) = {} /\ Digit \cap special = {}
  BY ScannerAssumption
<1>2. QED
  BY <1>1

LEMMA Specials ==
  /\ \A c \in Blank : c \notin Singles /\ c # Nul /\ c # Newline /\ c # Quote /\ c # Backslash
  /\ \A c \in Singles : c # Nul /\ c # Newline /\ c # Quote /\ c # Backslash
  /\ Quote # Nul /\ Quote # Newline /\ Quote # Backslash
  /\ Newline # Nul /\ Newline # Backslash /\ Backslash # Nul
<1>1. \A c \in Blank : c \notin Singles
  BY Zenon DEF Blank, Singles
<1>2. \A c \in Blank : c # Nul /\ c # Newline /\ c # Quote /\ c # Backslash
  BY Zenon DEF Blank, Nul, Newline, Quote, Backslash
<1>3. \A c \in Singles : c # Nul /\ c # Newline /\ c # Quote /\ c # Backslash
  BY Zenon DEF Singles, Nul, Newline, Quote, Backslash
<1>4. /\ Quote # Nul /\ Quote # Newline /\ Quote # Backslash
      /\ Newline # Nul /\ Newline # Backslash /\ Backslash # Nul
  BY Zenon DEF Nul, Newline, Quote, Backslash
<1>5. QED
  BY <1>1, <1>2, <1>3, <1>4, Zenon

LEMMA Symbols ==
  /\ \A c, d : <<c, d>> \in Doubles => c \in Singles
  /\ "/" \in Singles
  /\ <<"/", "/">> \notin Doubles /\ <<"/", "*">> \notin Doubles
<1>1. \A c, d : <<c, d>> \in Doubles => c \in Singles
  BY Zenon DEF Doubles, Singles
<1>2. "/" \in Singles
  BY Zenon DEF Singles
<1>3. <<"/", "/">> \notin Doubles /\ <<"/", "*">> \notin Doubles
  BY DEF Doubles
<1>4. QED
  BY <1>1, <1>2, <1>3

LEMMA PastFacts ==
  ASSUME NEW s \in Text, NEW p \in 1 .. Len(s) + 1, NEW C, Nul \notin C,
         NEW q, q = Past(s, p, C)
  PROVE  /\ q \in p .. Len(s) + 1
         /\ \A i \in p .. q - 1 : i \in 1 .. Len(s) /\ s[i] \in C
         /\ q <= Len(s) => s[q] \notin C
<1> DEFINE T == {x \in p .. Len(s) + 1 : Char(s, x) \notin C}
<1>1. Len(s) \in Nat /\ Char(s, Len(s) + 1) = Nul
  BY Characters
<1>2. T \subseteq Nat /\ T # {}
  BY <1>1
<1>3. q \in T /\ \A x \in T : q <= x
  BY <1>2, MinIsLeast DEF Past
<1>4. \A i \in p .. q - 1 : i \in 1 .. Len(s) /\ s[i] \in C
  <2>1. TAKE i \in p .. q - 1
  <2>2. q \in 1 .. Len(s) + 1 /\ i \in 1 .. Len(s) /\ ~ (q <= i)
    BY <1>1, <1>3
  <2>3. i \notin T
    BY <1>3, <2>2
  <2>4. Char(s, i) = s[i]
    BY <2>2, Characters
  <2>5. QED
    BY <2>2, <2>3, <2>4, <1>1
<1>5. q <= Len(s) => s[q] \notin C
  BY <1>1, <1>3, Characters
<1>6. QED
  BY <1>3, <1>4, <1>5

-----------------------------------------------------------------------------
(* GetToken, case by case.                                                 *)

Reading(kind, lexeme, q, line) ==
  [token |-> Token(kind, lexeme, line), at |-> q, line |-> line]

LEMMA GetTokenBlank ==
  ASSUME NEW s, NEW p \in Nat, NEW line, NEW c, c = Char(s, p)
  PROVE  /\ c = Newline => GetToken(s, p, line)
                          = [Reading("none", <<>>, p + 1, line) EXCEPT !.line = line + 1]
         /\ c \in Blank => GetToken(s, p, line) = Reading("none", <<>>, p + 1, line)
BY Disjoint, Specials, Symbols DEF GetToken, Reading

LEMMA GetTokenSlash ==
  ASSUME NEW s, NEW p \in Nat, NEW line, Char(s, p) = "/"
  PROVE  /\ Char(s, p + 1) = "/" =>
              GetToken(s, p, line) = Reading("none", <<>>, LineEnd(s, p), line)
         /\ Char(s, p + 1) = "*" =>
              GetToken(s, p, line)
                = IF CommentEnd(s, p + 2) = 0 THEN Reading("error", <<>>, Len(s) + 1, line)
                  ELSE Reading("none", <<>>, CommentEnd(s, p + 2), line)
BY Disjoint, Specials, Symbols DEF GetToken, Reading

LEMMA GetTokenSymbol ==
  ASSUME NEW s, NEW p \in Nat, NEW line, NEW c, c = Char(s, p), NEW d, d = Char(s, p + 1)
  PROVE  /\ <<c, d>> \in Doubles =>
              GetToken(s, p, line) = Reading("symbol", SubSeq(s, p, p + 1), p + 2, line)
         /\ c \in Singles /\ <<c, d>> \notin Doubles \cup {<<"/", "/">>, <<"/", "*">>} =>
              GetToken(s, p, line) = Reading("symbol", SubSeq(s, p, p), p + 1, line)
BY Disjoint, Specials, Symbols DEF GetToken, Reading

LEMMA GetTokenQuote ==
  ASSUME NEW s, NEW p \in Nat, NEW line, Char(s, p) = Quote, NEW q, q = StringEnd(s, p + 1)
  PROVE  GetToken(s, p, line)
           = IF q = 0 THEN Reading("error", <<>>, Len(s) + 1, line)
             ELSE Reading("string", SubSeq(s, p + 1, q - 2), q, line)
BY Disjoint, Specials, Symbols DEF GetToken, Reading

LEMMA GetTokenWord ==
  ASSUME NEW s, NEW p \in Nat, NEW line, NEW c, c = Char(s, p)
  PROVE  /\ c \in Digit =>
              GetToken(s, p, line)
                = Reading("number", SubSeq(s, p, NumberEnd(s, p) - 1), NumberEnd(s, p), line)
         /\ c \in Letter =>
              LET text == SubSeq(s, p, NameEnd(s, p) - 1)
              IN  GetToken(s, p, line)
                    = Reading(IF text \in Keyword THEN "keyword" ELSE "identifier",
                              text, NameEnd(s, p), line)
BY Disjoint, Specials, Symbols DEF GetToken, Reading

LEMMA GetTokenOther ==
  ASSUME NEW s, NEW p \in Nat, NEW line, NEW c, c = Char(s, p),
         c \notin Blank \cup Singles \cup Letter \cup Digit \cup {Newline, Quote}
  PROVE  GetToken(s, p, line) = Reading("error", <<>>, p, line)
BY Disjoint, Specials, Symbols DEF GetToken, Reading

-----------------------------------------------------------------------------
(* Where comments, numbers and strings end.                                *)

LEMMA LineEndFacts ==
  ASSUME NEW s \in Text, NEW p \in 1 .. Len(s) + 1, NEW q, q = LineEnd(s, p)
  PROVE  /\ q \in p .. Len(s) + 1
         /\ \A i \in p .. q - 1 : s[i] # Newline
         /\ q <= Len(s) => s[q] = Newline
<1> DEFINE T == {x \in p .. Len(s) + 1 : Char(s, x) \in {Newline, Nul}}
<1>1. Len(s) \in Nat /\ Char(s, Len(s) + 1) = Nul
  BY Characters
<1>2. T \subseteq Nat /\ T # {}
  BY <1>1
<1>3. q \in T /\ \A x \in T : q <= x
  BY <1>2, MinIsLeast DEF LineEnd
<1>4. \A i \in p .. q - 1 : s[i] # Newline
  <2>1. TAKE i \in p .. q - 1
  <2>2. q \in 1 .. Len(s) + 1 /\ i \in 1 .. Len(s) /\ i \in p .. Len(s) + 1 /\ ~ (q <= i)
    BY <1>1, <1>3
  <2>3. i \notin T /\ Char(s, i) = s[i]
    BY <1>3, <2>2, Characters
  <2>4. QED
    BY <2>2, <2>3
<1>5. q <= Len(s) => s[q] = Newline
  <2>1. SUFFICES ASSUME q <= Len(s) PROVE s[q] = Newline
    OBVIOUS
  <2>2. q \in 1 .. Len(s)
    BY <1>1, <1>3, <2>1
  <2>3. Char(s, q) = s[q] /\ s[q] # Nul
    BY <2>2, Characters
  <2>4. QED
    BY <1>3, <2>3
<1>6. QED
  BY <1>3, <1>4, <1>5

Closes(s, q) == s[q] = "*" /\ s[q + 1] = "/"

LEMMA CommentEndFacts ==
  ASSUME NEW s \in Text, NEW p \in 1 .. Len(s) + 1, NEW e, e = CommentEnd(s, p)
  PROVE  \/ /\ e = 0
            /\ \A i \in p .. Len(s) - 1 : ~ Closes(s, i)
         \/ /\ e \in p + 2 .. Len(s) + 1 /\ Closes(s, e - 2)
            /\ \A i \in p .. e - 3 : ~ Closes(s, i)
<1> DEFINE T == {q \in p .. Len(s) : s[q] = "*" /\ Char(s, q + 1) = "/"}
<1>1. Len(s) \in Nat /\ Char(s, Len(s) + 1) = Nul /\ Nul # "/"
  BY Characters, Specials, Symbols
<1>2. \A q : q \in T <=> q \in p .. Len(s) - 1 /\ Closes(s, q)
  <2>1. \A q \in p .. Len(s) : q = Len(s) \/ Char(s, q + 1) = s[q + 1]
    <3>1. TAKE q \in p .. Len(s)
    <3>2. q = Len(s) \/ q + 1 \in 1 .. Len(s)
      BY <1>1
    <3>3. QED
      BY <3>2, Characters
  <2>2. QED
    BY <1>1, <2>1 DEF Closes
<1>3. T \subseteq Nat
  OBVIOUS
<1>4. e = IF T = {} THEN 0 ELSE Min(T) + 2
  BY DEF CommentEnd
<1> HIDE DEF T
<1>5. CASE T = {}
  BY <1>2, <1>4, <1>5
<1>6. CASE T # {}
  <2>1. Min(T) \in T /\ \A x \in T : Min(T) <= x
    BY <1>3, <1>6, MinIsLeast
  <2> DEFINE m == Min(T)
  <2>2. m \in p .. Len(s) - 1 /\ Closes(s, m) /\ e = m + 2
    BY <2>1, <1>2, <1>4, <1>6
  <2>3. \A i \in p .. m - 1 : ~ Closes(s, i)
    <3>1. TAKE i \in p .. m - 1
    <3>2. i \in p .. Len(s) - 1 /\ ~ (m <= i)
      BY <1>1, <2>2
    <3>3. QED
      BY <3>2, <2>1, <1>2
  <2> HIDE DEF m
  <2>4. e - 2 = m /\ e - 3 = m - 1
    BY <2>2
  <2>5. QED
    BY <1>1, <2>2, <2>3, <2>4
<1>7. QED
  BY <1>5, <1>6

(* Digits from p up to q, and one dot among them unless it is 0.           *)
DigitsWithDot(s, p, q, dot) ==
  /\ dot = 0 \/ dot \in p + 1 .. q - 2
  /\ \A i \in p .. q - 1 : IF i = dot THEN s[i] = "." ELSE s[i] \in Digit

LEMMA DotIsNoDigit == "." \in Singles /\ "." \notin Digit
<1>1. "." \in Singles
  BY Zenon DEF Singles
<1>2. QED
  BY <1>1, Disjoint

LEMMA NumberEndFacts ==
  ASSUME NEW s \in Text, NEW p \in 1 .. Len(s), s[p] \in Digit, NEW q, q = NumberEnd(s, p)
  PROVE  /\ q \in p + 1 .. Len(s) + 1
         /\ \E dot : /\ DigitsWithDot(s, p, q, dot)
                     /\ q <= Len(s) => s[q] \notin Digit
                     /\ dot = 0 /\ q + 1 <= Len(s) /\ s[q] = "." => s[q + 1] \notin Digit
<1> DEFINE a == Past(s, p, Digit)
<1>1. Nul \notin Digit /\ Len(s) \in Nat
  BY Disjoint, Characters
<1>2. p \in 1 .. Len(s) + 1
  BY <1>1
<1>3. /\ a \in p .. Len(s) + 1
      /\ \A i \in p .. a - 1 : i \in 1 .. Len(s) /\ s[i] \in Digit
      /\ a <= Len(s) => s[a] \notin Digit
  BY <1>1, <1>2, PastFacts
<1> HIDE DEF a
<1>4. a \in p + 1 .. Len(s) + 1
  BY <1>1, <1>3
<1>5. a \in Nat /\ a + 1 \in Nat /\ Nul # "."
  BY <1>4, DotIsNoDigit, Specials
<1>6. CASE Char(s, a) = "." /\ Char(s, a + 1) \in Digit
  <2>1. a + 1 <= Len(s)
    BY <1>1, <1>5, <1>6, Characters
  <2>2. a \in 1 .. Len(s) /\ a + 1 \in 1 .. Len(s) /\ a + 1 \in 1 .. Len(s) + 1
    BY <2>1, <1>4, <1>1
  <2>3. s[a] = "." /\ s[a + 1] \in Digit
    BY <2>2, <1>6, Characters
  <2> DEFINE b == Past(s, a + 1, Digit)
  <2>4. /\ b \in a + 1 .. Len(s) + 1
        /\ \A i \in a + 1 .. b - 1 : i \in 1 .. Len(s) /\ s[i] \in Digit
        /\ b <= Len(s) => s[b] \notin Digit
    BY <1>1, <2>2, PastFacts
  <2>5. q = b
    BY <1>6 DEF NumberEnd, a
  <2> HIDE DEF b
  <2>6. b \in a + 2 .. Len(s) + 1
    BY <2>2, <2>3, <2>4
  <2>7. DigitsWithDot(s, p, b, a)
    <3>1. a \in p + 1 .. b - 2
      BY <2>6, <1>4
    <3>2. \A i \in p .. b - 1 : IF i = a THEN s[i] = "." ELSE s[i] \in Digit
      BY <2>3, <2>4, <1>3, <3>1
    <3>3. QED
      BY <3>1, <3>2 DEF DigitsWithDot
  <2>8. a # 0
    BY <1>4
  <2>9. QED
    BY <2>4, <2>5, <2>6, <2>7, <2>8, <1>4
<1>7. CASE ~ (Char(s, a) = "." /\ Char(s, a + 1) \in Digit)
  <2>1. q = a
    BY <1>7 DEF NumberEnd, a
  <2>2. DigitsWithDot(s, p, a, 0)
    BY <1>3, <1>4 DEF DigitsWithDot
  <2>3. a + 1 <= Len(s) /\ s[a] = "." => s[a + 1] \notin Digit
    <3>1. SUFFICES ASSUME a + 1 <= Len(s), s[a] = "." PROVE s[a + 1] \notin Digit
      OBVIOUS
    <3>2. a \in 1 .. Len(s) /\ a + 1 \in 1 .. Len(s)
      BY <3>1, <1>1, <1>4
    <3>3. Char(s, a) = s[a] /\ Char(s, a + 1) = s[a + 1]
      BY <3>2, Characters
    <3>4. QED
      BY <3>1, <3>3, <1>7
  <2>4. QED
    BY <2>1, <2>2, <2>3, <1>3, <1>4
<1>8. QED
  BY <1>6, <1>7

-----------------------------------------------------------------------------
(* Strings.                                                                *)

(* The place of the character that StringEnd looks at from q.              *)
Skip(s, q) == IF s[q] = Backslash THEN q + 2 ELSE q

(* The definition of StringEnd is an equation with a solution.             *)
LEMMA StringEndStep ==
  ASSUME NEW s \in Text, NEW p \in Nat
  PROVE  \E end :
           /\ StringEnd(s, p) = end[p]
           /\ \A q \in p .. Len(s) + 3 :
                end[q] = IF q > Len(s) THEN 0
                         ELSE IF Char(s, Skip(s, q)) = Quote THEN Skip(s, q) + 1
                              ELSE end[Skip(s, q) + 1]
<1> DEFINE D == p .. Len(s) + 3
           stops == {q \in D : q > Len(s) \/ Char(s, Skip(s, q)) = Quote}
           base == [q \in D |-> IF q > Len(s) THEN 0 ELSE Skip(s, q) + 1]
           J == [q \in D \ stops |-> Skip(s, q) + 1]
           C == [x \in D \X Nat |-> x[2]]
           rank == [q \in D |-> Len(s) + 3 - q]
           Fits(f) == f = [q \in D |->
                           IF q > Len(s) THEN 0
                           ELSE LET r == IF s[q] = Backslash THEN q + 2 ELSE q
                                IN  IF Char(s, r) = Quote THEN r + 1 ELSE f[r + 1]]
           end == CHOOSE f : Fits(f)
<1>1. Len(s) \in Nat
  BY Characters
<1>2. \A q \in D : Skip(s, q) \in Nat /\ (Skip(s, q) = q \/ Skip(s, q) = q + 2)
  BY <1>1 DEF Skip
<1>3. base \in [D -> Nat]
  BY <1>2
<1>4. J \in [D \ stops -> D]
  <2>1. ASSUME NEW q \in D \ stops
        PROVE  Skip(s, q) + 1 \in D
    <3>1. q \in D /\ q <= Len(s)
      BY <1>1, <2>1
    <3>2. Skip(s, q) = q \/ Skip(s, q) = q + 2
      BY <1>2
    <3>3. QED
      BY <1>1, <3>1, <3>2
  <2>2. QED
    BY <2>1
<1>5. C \in [D \X Nat -> Nat]
  OBVIOUS
<1>6. rank \in [D -> Nat] /\ \A q \in D : rank[q] < Len(s) + 4
  BY <1>1
<1>7. \A q \in D \ stops : rank[J[q]] < rank[q]
  <2>1. TAKE q \in D \ stops
  <2>2. J[q] \in D /\ (J[q] = q + 1 \/ J[q] = q + 3)
    BY <1>2, <1>4
  <2>3. QED
    BY <1>1, <2>2
<1>8. PICK f \in [D -> Nat] : Recurs(f, D, stops, base, J, C)
  <2>1. Len(s) + 4 \in Nat
    BY <1>1
  <2> HIDE DEF D, stops, base, J, C, rank
  <2>2. QED
    BY <1>3, <1>4, <1>5, <1>6, <1>7, <2>1, Recursion
<1>9. ASSUME NEW q \in D
      PROVE  f[q] = IF q > Len(s) THEN 0
                    ELSE IF Char(s, Skip(s, q)) = Quote THEN Skip(s, q) + 1
                         ELSE f[Skip(s, q) + 1]
  <2>1. CASE q \in stops
    <3>1. f[q] = base[q]
      BY <2>1, <1>8, <1>9 DEF Recurs
    <3>2. QED
      BY <2>1, <3>1
  <2>2. CASE q \notin stops
    <3>1. f[q] = C[<<q, f[J[q]]>>]
      BY <2>2, <1>8, <1>9 DEF Recurs
    <3>2. J[q] = Skip(s, q) + 1 /\ J[q] \in D
      BY <2>2, <1>4, <1>9
    <3>3. f[J[q]] \in Nat
      BY <3>2, <1>8
    <3>4. f[q] = f[J[q]]
      BY <3>1, <3>3, <1>9
    <3>5. QED
      BY <2>2, <3>2, <3>4, <1>9
  <2>3. QED
    BY <2>1, <2>2
<1>10. Fits(f)
  BY <1>8, <1>9 DEF Skip
<1>11. Fits(end)
  BY <1>10
<1> HIDE DEF end
<1>12. StringEnd(s, p) = end[p]
  BY DEF StringEnd, end
<1>13. QED
  BY <1>11, <1>12 DEF Skip

(* A quote that no backslash protects.  No backslash is two places behind  *)
(* another.                                                                *)
Closing(s, i) == s[i] = Quote /\ (s[i - 1] = Backslash => s[i - 2] = Backslash)

NoAdjacentEscapes(s) ==
  \A i \in 1 .. Len(s) - 2 : ~ (s[i] = Backslash /\ s[i + 2] = Backslash)

(* e is behind the first quote from q on that closes, or 0.                *)
ClosesFirst(s, q, e) ==
  \/ e = 0 /\ \A i \in q .. Len(s) : ~ Closing(s, i)
  \/ /\ e \in q + 1 .. Len(s) + 1 /\ Closing(s, e - 1)
     /\ \A i \in q .. e - 2 : ~ Closing(s, i)

LEMMA ClosesFirstAt ==
  ASSUME NEW s \in Text, NEW q \in Nat \ {0}, NEW r \in q .. Len(s), Closing(s, r),
         \A i \in q .. r - 1 : ~ Closing(s, i)
  PROVE  ClosesFirst(s, q, r + 1)
<1>1. Len(s) \in Nat /\ (r + 1) - 1 = r /\ (r + 1) - 2 = r - 1
  BY Characters
<1>2. QED
  BY <1>1 DEF ClosesFirst

LEMMA ClosesFirstLater ==
  ASSUME NEW s \in Text, NEW q \in Nat \ {0}, NEW r \in Nat, q <= r, NEW e,
         ClosesFirst(s, r, e), \A i \in q .. r - 1 : i <= Len(s) => ~ Closing(s, i)
  PROVE  ClosesFirst(s, q, e)
<1>1. Len(s) \in Nat
  BY Characters
<1>2. CASE e = 0 /\ \A i \in r .. Len(s) : ~ Closing(s, i)
  <2>1. \A i \in q .. Len(s) : ~ Closing(s, i)
    <3>1. TAKE i \in q .. Len(s)
    <3>2. i \in q .. r - 1 \/ i \in r .. Len(s)
      BY <1>1
    <3>3. i <= Len(s)
      BY <1>1
    <3>4. QED
      BY <3>2, <3>3, <1>2
  <2>2. QED
    BY <1>2, <2>1 DEF ClosesFirst
<1>3. CASE /\ e \in r + 1 .. Len(s) + 1 /\ Closing(s, e - 1)
           /\ \A i \in r .. e - 2 : ~ Closing(s, i)
  <2>1. \A i \in q .. e - 2 : ~ Closing(s, i)
    <3>1. TAKE i \in q .. e - 2
    <3>2. (i \in q .. r - 1 /\ i <= Len(s)) \/ i \in r .. e - 2
      BY <1>1, <1>3
    <3>3. QED
      BY <3>2, <1>3
  <2>2. e \in q + 1 .. Len(s) + 1
    BY <1>1, <1>3
  <2>3. QED
    BY <1>3, <2>1, <2>2 DEF ClosesFirst
<1>4. QED
  BY <1>2, <1>3 DEF ClosesFirst


(* With or without escapes, a string ends within the text.                 *)
LEMMA StringEndWithin ==
  ASSUME NEW s \in Text, NEW p \in Nat \ {0}, p <= Len(s) + 1, NEW e, e = StringEnd(s, p)
  PROVE  e = 0 \/ e \in p + 1 .. Len(s) + 1
<1>1. Len(s) \in Nat
  BY Characters
<1>2. PICK end :
        /\ StringEnd(s, p) = end[p]
        /\ \A q \in p .. Len(s) + 3 :
             end[q] = IF q > Len(s) THEN 0
                      ELSE IF Char(s, Skip(s, q)) = Quote THEN Skip(s, q) + 1
                           ELSE end[Skip(s, q) + 1]
  BY StringEndStep
<1> DEFINE D == p .. Len(s) + 3
           rank == [q \in D |-> Len(s) + 3 - q]
           S == {q \in D : end[q] = 0 \/ end[q] \in p + 1 .. Len(s) + 1}
<1>3. rank \in [D -> Nat]
  BY <1>1
<1>4. ASSUME NEW q \in D, \A y \in D : rank[y] < rank[q] => y \in S
      PROVE  q \in S
  <2>1. CASE q > Len(s)
    BY <2>1, <1>2
  <2>2. CASE q <= Len(s)
    <3>1. ~ (q > Len(s)) /\ (Skip(s, q) = q \/ Skip(s, q) = q + 2)
      BY <1>1, <2>2 DEF Skip
    <3>2. CASE Char(s, Skip(s, q)) = Quote
      <4>1. Skip(s, q) \in Nat
        BY <3>1
      <4>2. ~ (Skip(s, q) > Len(s))
        BY <4>1, <3>2, Characters, Specials
      <4>3. end[q] = Skip(s, q) + 1
        BY <1>2, <3>1, <3>2
      <4>4. QED
        BY <4>2, <4>3, <3>1, <1>1
    <3>3. CASE Char(s, Skip(s, q)) # Quote
      <4>1. end[q] = end[Skip(s, q) + 1]
        BY <1>2, <3>1, <3>3
      <4>2. Skip(s, q) + 1 \in D /\ Skip(s, q) + 1 > q
        BY <1>1, <2>2, <3>1
      <4>3. rank[Skip(s, q) + 1] < rank[q]
        BY <4>2, <1>1
      <4>4. Skip(s, q) + 1 \in S
        BY <4>2, <4>3, <1>4
      <4>5. QED
        BY <4>1, <4>4
    <3>4. QED
      BY <3>2, <3>3
  <2>3. QED
    BY <2>1, <2>2, <1>1
<1>5. p \in D
  BY <1>1
<1> HIDE DEF D, rank, S
<1>6. \A q \in D : q \in S
  BY <1>3, <1>4, RankInduction
<1>7. QED
  BY <1>2, <1>5, <1>6 DEF S

LEMMA StringEndFacts ==
  ASSUME NEW s \in Text, NoAdjacentEscapes(s), NEW p \in 2 .. Len(s) + 1,
         s[p - 1] # Backslash
  PROVE  ClosesFirst(s, p, StringEnd(s, p))
<1>1. Len(s) \in Nat /\ p \in Nat
  BY Characters
<1>2. PICK end :
        /\ StringEnd(s, p) = end[p]
        /\ \A q \in p .. Len(s) + 3 :
             end[q] = IF q > Len(s) THEN 0
                      ELSE IF Char(s, Skip(s, q)) = Quote THEN Skip(s, q) + 1
                           ELSE end[Skip(s, q) + 1]
  BY <1>1, StringEndStep
<1> DEFINE D == p .. Len(s) + 3
           rank == [q \in D |-> Len(s) + 3 - q]
           S == {q \in D : q <= Len(s) + 1 /\ s[q - 1] # Backslash => ClosesFirst(s, q, end[q])}
<1>3. rank \in [D -> Nat]
  BY <1>1
<1>4. ASSUME NEW q \in D, \A y \in D : rank[y] < rank[q] => y \in S
      PROVE  q \in S
  <2>1. SUFFICES ASSUME q <= Len(s) + 1, s[q - 1] # Backslash
                 PROVE  ClosesFirst(s, q, end[q])
    OBVIOUS
  <2>2. q \in Nat \ {0, 1}
    BY <1>1
  <2>3. CASE q > Len(s)
    <3>1. end[q] = 0
      BY <1>2, <2>3
    <3>2. QED
      BY <3>1, <1>1, <2>2, <2>3 DEF ClosesFirst
  <2>4. CASE q <= Len(s)
    <3>1. q \in 1 .. Len(s) /\ ~ (q > Len(s)) /\ Char(s, q) = s[q]
      BY <1>1, <2>2, <2>4, Characters
    <3>2. ASSUME NEW r \in D, r > q, end[q] = end[r],
                 r <= Len(s) + 1 => s[r - 1] # Backslash,
                 \A i \in q .. r - 1 : i <= Len(s) => ~ Closing(s, i)
          PROVE  ClosesFirst(s, q, end[q])
      <4>1. r \in Nat /\ q <= r /\ q \in Nat \ {0}
        BY <1>1, <2>2, <3>2
      <4>2. ClosesFirst(s, r, end[r])
        <5>1. CASE r <= Len(s) + 1
          <6>1. rank[r] < rank[q]
            BY <1>1, <4>1, <3>2
          <6>2. QED
            BY <6>1, <5>1, <3>2, <1>4
        <5>2. CASE r > Len(s) + 1
          <6>1. end[r] = 0
            BY <5>2, <4>1, <3>2, <1>1, <1>2
          <6>2. \A i \in r .. Len(s) : FALSE
            BY <5>2, <4>1, <1>1
          <6>3. QED
            BY <6>1, <6>2 DEF ClosesFirst
        <5>3. QED
          BY <5>1, <5>2, <4>1, <1>1
      <4>3. QED
        BY <4>1, <4>2, <3>2, ClosesFirstLater
    <3>3. CASE s[q] # Backslash
      <4>1. Skip(s, q) = q
        BY <3>3 DEF Skip
      <4>2. CASE s[q] = Quote
        <5>1. Closing(s, q)
          BY <4>2, <2>1 DEF Closing
        <5>2. end[q] = q + 1
          BY <4>1, <4>2, <3>1, <1>2
        <5>3. q \in q .. Len(s) /\ \A i \in q .. q - 1 : FALSE
          BY <3>1, <1>1
        <5>4. ClosesFirst(s, q, q + 1)
          BY <2>2, <5>1, <5>3, ClosesFirstAt
        <5>5. QED
          BY <5>2, <5>4
      <4>3. CASE s[q] # Quote
        <5>1. end[q] = end[q + 1]
          BY <4>1, <4>3, <3>1, <1>2
        <5>2. q + 1 \in D /\ q + 1 > q /\ (q + 1) - 1 = q
          BY <3>1, <1>1, <2>2
        <5>3. \A i \in q .. q : ~ Closing(s, i)
          BY <4>3, <2>2 DEF Closing
        <5>4. QED
          BY <5>1, <5>2, <5>3, <3>2, <3>3
      <4>4. QED
        BY <4>2, <4>3
    <3>4. CASE s[q] = Backslash
      <4>1. Skip(s, q) = q + 2
        BY <3>4 DEF Skip
      <4>2. ~ Closing(s, q) /\ ~ Closing(s, q + 1)
        <5>1. (q + 1) - 1 = q /\ (q + 1) - 2 = q - 1
          BY <2>2
        <5>2. QED
          BY <5>1, <3>4, <2>1, Specials DEF Closing
      <4>3. q + 2 <= Len(s) => Char(s, q + 2) = s[q + 2] /\ s[q + 2] # Backslash
        <5>1. SUFFICES ASSUME q + 2 <= Len(s)
                       PROVE  Char(s, q + 2) = s[q + 2] /\ s[q + 2] # Backslash
          OBVIOUS
        <5>2. q + 2 \in 1 .. Len(s) /\ q \in 1 .. Len(s) - 2
          BY <5>1, <3>1, <1>1
        <5>3. QED
          BY <5>2, <3>4, Characters DEF NoAdjacentEscapes
      <4>4. CASE q + 2 <= Len(s) /\ s[q + 2] = Quote
        <5>1. Closing(s, q + 2)
          <6>1. (q + 2) - 2 = q
            BY <2>2
          <6>2. QED
            BY <6>1, <4>4, <3>4 DEF Closing
        <5>2. end[q] = (q + 2) + 1
          BY <4>1, <4>3, <4>4, <3>1, <1>2
        <5>3. q + 2 \in q .. Len(s) /\ \A i \in q .. (q + 2) - 1 : i = q \/ i = q + 1
          BY <4>4, <3>1, <1>1
        <5>4. \A i \in q .. (q + 2) - 1 : ~ Closing(s, i)
          BY <5>3, <4>2
        <5> DEFINE r == q + 2
        <5>5. r \in q .. Len(s) /\ Closing(s, r) /\ \A i \in q .. r - 1 : ~ Closing(s, i)
          BY <5>1, <5>3, <5>4
        <5>6. end[q] = r + 1
          BY <5>2
        <5> HIDE DEF r
        <5>7. q \in Nat \ {0}
          BY <2>2
        <5>8. ClosesFirst(s, q, r + 1)
          BY <5>5, <5>7, ClosesFirstAt
        <5>9. QED
          BY <5>6, <5>8
      <4>5. CASE ~ (q + 2 <= Len(s) /\ s[q + 2] = Quote)
        <5>1. Char(s, q + 2) # Quote
          <6>1. CASE q + 2 <= Len(s)
            BY <6>1, <4>3, <4>5
          <6>2. CASE q + 2 > Len(s)
            BY <6>2, <2>2, Characters, Specials
          <6>3. QED
            BY <6>1, <6>2, <1>1, <2>2
        <5>2. end[q] = end[(q + 2) + 1]
          BY <4>1, <5>1, <3>1, <1>2
        <5>3. (q + 2) + 1 = q + 3 /\ q + 3 \in D /\ q + 3 > q /\ (q + 3) - 1 = q + 2
          BY <3>1, <1>1, <2>2
        <5>4. q + 3 <= Len(s) + 1 => q + 2 <= Len(s)
          BY <1>1, <2>2
        <5>5. \A i \in q .. q + 2 : i <= Len(s) => ~ Closing(s, i)
          <6>1. TAKE i \in q .. q + 2
          <6>2. i = q \/ i = q + 1 \/ i = q + 2
            BY <2>2
          <6>3. QED
            BY <6>2, <4>2, <4>5 DEF Closing
        <5> DEFINE r == q + 3
        <5>6. /\ r \in D /\ r > q /\ end[q] = end[r]
              /\ r <= Len(s) + 1 => s[r - 1] # Backslash
              /\ \A i \in q .. r - 1 : i <= Len(s) => ~ Closing(s, i)
          BY <5>2, <5>3, <5>4, <5>5, <4>3
        <5> HIDE DEF r
        <5>7. QED
          BY <5>6, <3>2
      <4>6. QED
        BY <4>4, <4>5
    <3>5. QED
      BY <3>3, <3>4
  <2>5. QED
    BY <2>3, <2>4, <1>1
<1>5. p \in D /\ p <= Len(s) + 1
  BY <1>1
<1> HIDE DEF D, rank, S
<1>6. \A q \in D : q \in S
  BY <1>3, <1>4, RankInduction
<1>7. QED
  BY <1>2, <1>5, <1>6 DEF S
-----------------------------------------------------------------------------
(* What a part of a text is, by its characters.                            *)

(* The grammar's alphabet is the scanner's.                                *)
LEMMA SameAlphabet ==
  /\ Dialect!Singles = Singles /\ Dialect!Doubles = Doubles /\ Dialect!Blank = Blank
  /\ Dialect!Newline = Newline /\ Dialect!Quote = Quote
  /\ Dialect!Backslash = Backslash /\ Dialect!Underscore = Underscore
  /\ Dialect!EndToken = EndToken
  /\ \A kind, lexeme, line :
       Dialect!Token(kind, lexeme, line) = Token(kind, lexeme, line)
  /\ \A s, p : Dialect!Char(s, p) = Char(s, p)
  /\ \A S : Dialect!Max(S) = Max(S)
<1>1. Dialect!Singles = Singles /\ Dialect!Doubles = Doubles
  BY DEF Dialect!Singles, Singles, Dialect!Doubles, Doubles
<1>2. Dialect!Blank = Blank
  BY Zenon DEF Dialect!Blank, Blank
<1>3. Dialect!Newline = Newline
  BY Zenon DEF Dialect!Newline, Newline
<1>4. Dialect!Quote = Quote
  BY Zenon DEF Dialect!Quote, Quote
<1>5. Dialect!Backslash = Backslash
  BY Zenon DEF Dialect!Backslash, Backslash
<1>6. Dialect!Underscore = Underscore
  BY Zenon DEF Dialect!Underscore, Underscore
<1>7. \A kind, lexeme, line :
        Dialect!Token(kind, lexeme, line) = Token(kind, lexeme, line)
  BY DEF Dialect!Token, Token
<1>8. Dialect!EndToken = EndToken
  BY <1>7 DEF Dialect!EndToken, EndToken
<1>9. Dialect!Nul = Nul
  BY Zenon DEF Dialect!Nul, Nul
<1>10. \A s, p : Dialect!Char(s, p) = Char(s, p)
  BY <1>9 DEF Dialect!Char, Char
<1>11. \A S : Dialect!Max(S) = Max(S)
  BY Zenon DEF Dialect!Max, Max
<1>12. QED
  BY <1>1, <1>2, <1>3, <1>4, <1>5, <1>6, <1>7, <1>8, <1>10, <1>11

LEMMA PartOfText ==
  ASSUME NEW s \in Text, NEW p \in 1 .. Len(s), NEW q \in p .. Len(s),
         NEW t, t = SubSeq(s, p, q)
  PROVE  /\ Len(t) = q - p + 1 /\ Len(t) \in Nat \ {0} /\ t \in Text
         /\ \A i \in 1 .. Len(t) : t[i] = s[p + i - 1]
         /\ \A i \in p .. q : s[i] = t[i - p + 1] /\ i - p + 1 \in 1 .. Len(t)
         /\ t[1] = s[p] /\ t[Len(t)] = s[q]
<1>1. Len(s) \in Nat /\ p \in 1 .. Len(s) + 1 /\ q \in p - 1 .. Len(s)
  BY Characters
<1>2. t \in Text /\ Len(t) = q - p + 1 /\ \A i \in 1 .. q - p + 1 : t[i] = s[p + i - 1]
  BY <1>1, SubSeqProperties DEF Text
<1>3. Len(t) \in Nat \ {0} /\ 1 \in 1 .. Len(t) /\ Len(t) \in 1 .. Len(t)
  BY <1>1, <1>2
<1>4. \A i \in p .. q : i - p + 1 \in 1 .. Len(t) /\ p + (i - p + 1) - 1 = i
  BY <1>1, <1>2
<1>5. p + 1 - 1 = p /\ p + Len(t) - 1 = q
  BY <1>1, <1>2
<1>6. QED
  BY <1>2, <1>3, <1>4, <1>5

LEMMA PairOf ==
  ASSUME NEW S, NEW t \in Seq(S), Len(t) = 2
  PROVE  t = <<t[1], t[2]>>
<1> DEFINE pair == <<t[1], t[2]>>
<1>1. t[1] \in S /\ t[2] \in S
  <2>1. 1 \in 1 .. Len(t) /\ 2 \in 1 .. Len(t)
    OBVIOUS
  <2>2. QED
    BY <2>1, LenProperties
<1>2. pair \in Seq(S)
  BY <1>1
<1>3. Len(pair) = 2 /\ \A i \in 1 .. 2 : pair[i] = t[i]
  OBVIOUS
<1> HIDE DEF pair
<1>4. t = pair
  BY <1>2, <1>3, SeqEqual
<1>5. QED
  BY <1>4 DEF pair

LEMMA NameAt ==
  ASSUME NEW s \in Text, NEW p \in 1 .. Len(s), NEW q \in p .. Len(s),
         NEW t, t = SubSeq(s, p, q)
  PROVE  Dialect!IsName(t)
           <=> s[p] \in Letter /\ \A i \in p .. q : s[i] \in Letter \cup Digit \cup {Underscore}
<1>1. /\ \A i \in 1 .. Len(t) : t[i] = s[p + i - 1]
      /\ \A i \in p .. q : s[i] = t[i - p + 1] /\ i - p + 1 \in 1 .. Len(t)
      /\ t[1] = s[p] /\ Len(t) = q - p + 1 /\ Len(s) \in Nat
  BY PartOfText, Characters
<1>2. \A i \in 1 .. Len(t) : p + i - 1 \in p .. q
  BY <1>1
<1>3. QED
  BY <1>1, <1>2, SameAlphabet DEF Dialect!IsName, Dialect!Of

LEMMA BlankAt ==
  ASSUME NEW s \in Text, NEW p \in 1 .. Len(s), NEW q \in p .. Len(s),
         NEW t, t = SubSeq(s, p, q)
  PROVE  Dialect!IsBlank(t) <=> \A i \in p .. q : s[i] \in Blank \cup {Newline}
<1>1. /\ \A i \in 1 .. Len(t) : t[i] = s[p + i - 1]
      /\ \A i \in p .. q : s[i] = t[i - p + 1] /\ i - p + 1 \in 1 .. Len(t)
      /\ Len(t) = q - p + 1 /\ Len(s) \in Nat
  BY PartOfText, Characters
<1>2. \A i \in 1 .. Len(t) : p + i - 1 \in p .. q
  BY <1>1
<1>3. QED
  BY <1>1, <1>2, SameAlphabet DEF Dialect!IsBlank, Dialect!Of

LEMMA SymbolAt ==
  ASSUME NEW s \in Text, NEW p \in 1 .. Len(s), NEW q \in p .. Len(s),
         NEW t, t = SubSeq(s, p, q)
  PROVE  Dialect!IsSymbol(t)
           <=> \/ q = p + 1 /\ <<s[p], s[q]>> \in Doubles
               \/ q = p /\ s[p] \in Singles
<1>1. /\ Len(t) = q - p + 1 /\ Len(s) \in Nat /\ t \in Text
      /\ t[1] = s[p] /\ t[Len(t)] = s[q]
  <2>1. Len(s) \in Nat
    BY Characters
  <2>2. /\ t \in Text
        /\ Len(t) = q - p + 1 /\ t[1] = s[p]
    <3>1. t \in Text
      BY PartOfText
    <3>2. Len(t) = q - p + 1 /\ t[1] = s[p]
      BY PartOfText
    <3>3. QED
      BY <3>1, <3>2
  <2>3. t[Len(t)] = s[q]
    BY PartOfText
  <2>4. QED
    BY <2>1, <2>2, <2>3
<1>2. \A d \in Doubles : d = <<d[1], d[2]>> /\ Len(d) = 2
  BY DEF Doubles
<1>3. CASE q = p + 1
  <2>1. Len(t) = 2
    BY <1>1, <1>3
  <2>2. t = <<s[p], s[q]>>
    <3>1. t[1] = s[p] /\ t[2] = s[q]
      BY <1>1, <2>1
    <3>2. t = <<t[1], t[2]>>
      <4> HIDE DEF Text
      <4>1. t \in Seq(STRING \ {Nul})
        BY <1>1 DEF Text
      <4>2. QED
        BY <4>1, <2>1, PairOf
    <3>3. QED
      BY <3>1, <3>2
  <2>3. q # p /\ Len(t) # 1
    BY <1>3, <2>1
  <2>4. Dialect!IsSymbol(t) <=> t \in Doubles
    BY <2>3, SameAlphabet DEF Dialect!IsSymbol
  <2>5. QED
    BY <1>3, <2>2, <2>3, <2>4
<1>4. CASE q # p + 1
  <2>1. Len(t) # 2
    BY <1>1, <1>4
  <2>2. t \notin Doubles
    BY <1>2, <2>1
  <2>3. Len(t) = 1 <=> q = p
    BY <1>1
  <2>4. QED
    BY <1>1, <1>4, <2>2, <2>3, SameAlphabet DEF Dialect!IsSymbol
<1>5. QED
  BY <1>3, <1>4

LEMMA LineCommentAt ==
  ASSUME NEW s \in Text, NEW p \in 1 .. Len(s), NEW q \in p .. Len(s),
         NEW t, t = SubSeq(s, p, q)
  PROVE  Dialect!IsLineComment(t)
           <=> /\ q >= p + 1 /\ s[p] = "/" /\ s[p + 1] = "/"
               /\ \A i \in p .. q : s[i] # Newline
<1>1. /\ \A i \in 1 .. Len(t) : t[i] = s[p + i - 1]
      /\ \A i \in p .. q : s[i] = t[i - p + 1] /\ i - p + 1 \in 1 .. Len(t)
      /\ Len(t) = q - p + 1 /\ Len(s) \in Nat /\ t[1] = s[p]
  BY PartOfText, Characters
<1>2. \A i \in 1 .. Len(t) : p + i - 1 \in p .. q
  BY <1>1
<1>3. Len(t) >= 2 => t[2] = s[p + 1]
  <2>1. SUFFICES ASSUME Len(t) >= 2 PROVE t[2] = s[p + 1]
    OBVIOUS
  <2>2. 2 \in 1 .. Len(t) /\ p + 2 - 1 = p + 1
    BY <2>1, <1>1
  <2>3. QED
    BY <2>2, <1>1
<1>4. Len(t) >= 2 <=> q >= p + 1
  <2>1. Len(t) = q - p + 1 /\ p \in Nat /\ q \in Nat
    BY <1>1
  <2>2. QED
    BY <2>1
<1> DEFINE A == \A i \in 1 .. Len(t) : t[i] # Newline
           B == \A i \in p .. q : s[i] # Newline
<1>5. A <=> B
  BY <1>1, <1>2
<1> HIDE DEF A, B
<1>6. Dialect!IsLineComment(t) <=> Len(t) >= 2 /\ t[1] = "/" /\ t[2] = "/" /\ A
  BY SameAlphabet DEF Dialect!IsLineComment, A
<1>7. QED
  BY <1>1, <1>3, <1>4, <1>5, <1>6 DEF B

LEMMA BlockCommentAt ==
  ASSUME NEW s \in Text, NEW p \in 1 .. Len(s), NEW q \in p .. Len(s),
         NEW t, t = SubSeq(s, p, q)
  PROVE  Dialect!IsBlockComment(t)
           <=> /\ q >= p + 3 /\ s[p] = "/" /\ s[p + 1] = "*"
               /\ \A i \in p + 2 .. q - 1 : Closes(s, i) <=> i = q - 1
<1>1. /\ \A i \in 1 .. Len(t) : t[i] = s[p + i - 1]
      /\ Len(t) = q - p + 1 /\ Len(s) \in Nat /\ t[1] = s[p]
  BY PartOfText, Characters
<1>2. Len(t) >= 4 <=> q >= p + 3
  BY <1>1
<1>3. Len(t) >= 4 => t[2] = s[p + 1]
  <2>1. SUFFICES ASSUME Len(t) >= 4 PROVE t[2] = s[p + 1]
    OBVIOUS
  <2>2. 2 \in 1 .. Len(t) /\ p + 2 - 1 = p + 1
    BY <2>1, <1>1
  <2>3. QED
    BY <2>2, <1>1
<1>4. \A i \in 3 .. Len(t) - 1 :
        /\ p + i - 1 \in p + 2 .. q - 1
        /\ (t[i] = "*" /\ t[i + 1] = "/") <=> Closes(s, p + i - 1)
        /\ (i = Len(t) - 1) <=> (p + i - 1 = q - 1)
  <2>1. TAKE i \in 3 .. Len(t) - 1
  <2>2. i \in 1 .. Len(t) /\ i + 1 \in 1 .. Len(t) /\ p + (i + 1) - 1 = (p + i - 1) + 1
    BY <1>1
  <2>3. t[i] = s[p + i - 1] /\ t[i + 1] = s[(p + i - 1) + 1]
    BY <1>1, <2>2
  <2>4. QED
    BY <2>3, <1>1 DEF Closes
<1>5. \A j \in p + 2 .. q - 1 : \E i \in 3 .. Len(t) - 1 : j = p + i - 1
  <2>1. TAKE j \in p + 2 .. q - 1
  <2>2. j - p + 1 \in 3 .. Len(t) - 1 /\ j = p + (j - p + 1) - 1
    BY <1>1
  <2>3. QED
    BY <2>2
<1> DEFINE A == \A i \in 3 .. Len(t) - 1 : t[i] = "*" /\ t[i + 1] = "/" <=> i = Len(t) - 1
           B == \A j \in p + 2 .. q - 1 : Closes(s, j) <=> j = q - 1
<1>6. A <=> B
  <2>1. ASSUME A PROVE B
    <3>1. TAKE j \in p + 2 .. q - 1
    <3>2. PICK i \in 3 .. Len(t) - 1 : j = p + i - 1
      BY <1>5
    <3>3. QED
      BY <2>1, <3>2, <1>4
  <2>2. ASSUME B PROVE A
    BY <2>2, <1>4
  <2>3. QED
    BY <2>1, <2>2
<1> HIDE DEF A, B
<1>7. Dialect!IsBlockComment(t) <=> Len(t) >= 4 /\ t[1] = "/" /\ t[2] = "*" /\ A
  BY DEF Dialect!IsBlockComment, A
<1>8. QED
  BY <1>1, <1>2, <1>3, <1>6, <1>7 DEF B


LEMMA NumberAt ==
  ASSUME NEW s \in Text, NEW p \in 1 .. Len(s), NEW q \in p .. Len(s),
         NEW t, t = SubSeq(s, p, q)
  PROVE  Dialect!IsNumber(t) <=> \E dot : DigitsWithDot(s, p, q + 1, dot)
<1>1. /\ \A i \in 1 .. Len(t) : t[i] = s[p + i - 1]
      /\ \A i \in p .. q : s[i] = t[i - p + 1] /\ i - p + 1 \in 1 .. Len(t)
  BY PartOfText
<1>2. Len(t) = q - p + 1 /\ Len(s) \in Nat
  BY PartOfText, Characters
<1>3. ASSUME NEW dot \in (0 .. Len(t) - 1) \ {1},
             \A i \in 1 .. Len(t) : IF i = dot THEN t[i] = "." ELSE t[i] \in Digit
      PROVE  \E d : DigitsWithDot(s, p, q + 1, d)
  <2> DEFINE d == IF dot = 0 THEN 0 ELSE p + dot - 1
  <2>1. d = 0 \/ d \in p + 1 .. (q + 1) - 2
    BY <1>2, <1>3
  <2>2. \A i \in p .. (q + 1) - 1 : IF i = d THEN s[i] = "." ELSE s[i] \in Digit
    <3>1. TAKE i \in p .. (q + 1) - 1
    <3>2. i \in p .. q /\ (i = d <=> i - p + 1 = dot)
      BY <1>2, <1>3
    <3>3. s[i] = t[i - p + 1] /\ i - p + 1 \in 1 .. Len(t)
      BY <3>2, <1>1
    <3> DEFINE k == i - p + 1
    <3>4. k \in 1 .. Len(t) /\ s[i] = t[k] /\ (i = d <=> k = dot)
      BY <3>2, <3>3
    <3> HIDE DEF k, d
    <3>5. QED
      BY <3>4, <1>3
  <2> HIDE DEF d
  <2>3. DigitsWithDot(s, p, q + 1, d)
    BY <2>1, <2>2 DEF DigitsWithDot
  <2>4. QED
    BY <2>3
<1>4. ASSUME NEW d, DigitsWithDot(s, p, q + 1, d)
      PROVE  \E dot \in (0 .. Len(t) - 1) \ {1} :
               \A i \in 1 .. Len(t) : IF i = dot THEN t[i] = "." ELSE t[i] \in Digit
  <2> DEFINE dot == IF d = 0 THEN 0 ELSE d - p + 1
  <2>1. /\ d = 0 \/ d \in p + 1 .. (q + 1) - 2
        /\ \A i \in p .. (q + 1) - 1 : IF i = d THEN s[i] = "." ELSE s[i] \in Digit
    BY <1>4 DEF DigitsWithDot
  <2>2. dot \in (0 .. Len(t) - 1) \ {1}
    BY <1>2, <2>1
  <2>3. \A i \in 1 .. Len(t) : IF i = dot THEN t[i] = "." ELSE t[i] \in Digit
    <3>1. TAKE i \in 1 .. Len(t)
    <3> DEFINE k == p + i - 1
    <3>2. k \in p .. (q + 1) - 1 /\ (k = d <=> i = dot)
      BY <1>2, <2>1
    <3>3. t[i] = s[k]
      BY <1>1
    <3> HIDE DEF k, dot
    <3>4. QED
      BY <3>2, <3>3, <2>1
  <2> HIDE DEF dot
  <2>4. QED
    BY <2>2, <2>3
<1>5. QED
  BY <1>3, <1>4 DEF Dialect!IsNumber

(* An odd number of backslashes: one, and none before it.                  *)
LEMMA EscapedAt ==
  ASSUME NEW t \in Text, NoAdjacentEscapes(t), Len(t) >= 1, t[1] = Quote,
         NEW i \in 2 .. Len(t)
  PROVE  Dialect!Escaped(t, i) <=> t[i - 1] = Backslash /\ t[i - 2] # Backslash
<1> DEFINE N == {0} \cup {n \in 1 .. i - 1 : \A k \in i - n .. i - 1 : t[k] = Backslash}
<1>1. Len(t) \in Nat /\ i \in Nat /\ t[1] # Backslash
  BY Characters, Specials
<1>2. Dialect!Escaped(t, i) <=> Max(N) % 2 = 1
  BY SameAlphabet DEF Dialect!Escaped
<1>3. N \subseteq 0 .. i - 1 /\ i - 1 \in Nat
  BY <1>1
<1>4. \A n \in 1 .. i - 1 : n \in N <=> \A k \in i - n .. i - 1 : t[k] = Backslash
  BY <1>1
<1>5. 0 \in N
  OBVIOUS
<1> HIDE DEF N
<1>6. CASE t[i - 1] # Backslash
  <2>1. \A y \in N : y <= 0
    <3>1. TAKE y \in N
    <3>2. y \in 1 .. i - 1 => i - 1 \in i - y .. i - 1
      BY <1>1
    <3>3. QED
      BY <3>2, <1>3, <1>4, <1>6
  <2>2. Max(N) = 0
    BY <1>3, <1>5, <2>1, MaxIs
  <2>3. QED
    BY <1>2, <1>6, <2>2
<1>7. CASE t[i - 1] = Backslash /\ t[i - 2] # Backslash
  <2>1. 1 \in N
    <3>1. 1 \in 1 .. i - 1 /\ \A k \in i - 1 .. i - 1 : k = i - 1
      BY <1>1
    <3>2. QED
      BY <3>1, <1>4, <1>7
  <2>2. \A y \in N : y <= 1
    <3>1. TAKE y \in N
    <3>2. y \in 2 .. i - 1 => i - 2 \in i - y .. i - 1
      BY <1>1
    <3>3. QED
      BY <3>2, <1>3, <1>4, <1>7
  <2>3. Max(N) = 1
    BY <1>3, <2>1, <2>2, MaxIs
  <2>4. QED
    BY <1>2, <1>7, <2>3
<1>8. CASE t[i - 1] = Backslash /\ t[i - 2] = Backslash
  <2>1. i >= 4
    <3>1. i # 2 /\ i # 3
      BY <1>1, <1>8
    <3>2. QED
      BY <3>1, <1>1
  <2>2. t[i - 3] # Backslash
    <3>1. i - 3 \in 1 .. Len(t) - 2 /\ (i - 3) + 2 = i - 1
      BY <2>1, <1>1
    <3>2. QED
      BY <3>1, <1>8 DEF NoAdjacentEscapes
  <2>3. 2 \in N
    <3>1. 2 \in 1 .. i - 1 /\ \A k \in i - 2 .. i - 1 : k = i - 1 \/ k = i - 2
      BY <2>1, <1>1
    <3>2. QED
      BY <3>1, <1>4, <1>8
  <2>4. \A y \in N : y <= 2
    <3>1. TAKE y \in N
    <3>2. y \in 3 .. i - 1 => i - 3 \in i - y .. i - 1
      BY <1>1
    <3>3. QED
      BY <3>2, <1>3, <1>4, <2>2
  <2>5. Max(N) = 2
    BY <1>3, <2>3, <2>4, MaxIs
  <2>6. QED
    BY <1>2, <1>8, <2>5
<1>9. QED
  BY <1>6, <1>7, <1>8

LEMMA StringAt ==
  ASSUME NEW s \in Text, NoAdjacentEscapes(s),
         NEW p \in 1 .. Len(s), NEW q \in p .. Len(s),
         NEW t, t = SubSeq(s, p, q)
  PROVE  Dialect!IsString(t)
           <=> /\ q >= p + 1 /\ s[p] = Quote
               /\ \A i \in p + 1 .. q : Closing(s, i) <=> i = q
<1>1. /\ \A i \in 1 .. Len(t) : t[i] = s[p + i - 1]
      /\ \A i \in p .. q : s[i] = t[i - p + 1] /\ i - p + 1 \in 1 .. Len(t)
  BY PartOfText
<1>2. Len(t) = q - p + 1 /\ Len(s) \in Nat /\ t[1] = s[p]
  BY PartOfText, Characters
<1>3. t \in Text
  BY PartOfText
<1>4. NoAdjacentEscapes(t)
  <2>1. SUFFICES ASSUME NEW i \in 1 .. Len(t) - 2
                 PROVE  ~ (t[i] = Backslash /\ t[i + 2] = Backslash)
    BY DEF NoAdjacentEscapes
  <2>2. i \in 1 .. Len(t) /\ i + 2 \in 1 .. Len(t) /\ p + (i + 2) - 1 = (p + i - 1) + 2
    BY <1>2
  <2>3. t[i] = s[p + i - 1] /\ t[i + 2] = s[(p + i - 1) + 2]
    BY <2>2, <1>1
  <2>4. p + i - 1 \in 1 .. Len(s) - 2
    BY <1>2
  <2>5. QED
    BY <2>3, <2>4 DEF NoAdjacentEscapes
<1>5. ~ Dialect!Escaped(t, 1)
  <2> DEFINE N == {0} \cup {n \in 1 .. 1 - 1 : \A k \in 1 - n .. 1 - 1 : t[k] = Backslash}
  <2>1. Dialect!Escaped(t, 1) <=> Max(N) % 2 = 1
    BY SameAlphabet DEF Dialect!Escaped
  <2>2. N \subseteq 0 .. 0 /\ 0 \in N /\ \A y \in N : y <= 0
    OBVIOUS
  <2> HIDE DEF N
  <2>3. Max(N) = 0
    BY <2>2, MaxIs
  <2>4. QED
    BY <2>1, <2>3
<1> DEFINE Here(i) == t[i] = Quote /\ ~ Dialect!Escaped(t, i)
<1>6. Dialect!IsString(t)
        <=> Len(t) >= 2 /\ \A i \in 1 .. Len(t) : Here(i) <=> i \in {1, Len(t)}
  BY SameAlphabet DEF Dialect!IsString
<1>7. Here(1) <=> s[p] = Quote
  BY <1>2, <1>5
<1>8. s[p] = Quote => \A i \in 2 .. Len(t) : Here(i) <=> Closing(s, p + i - 1)
  <2>1. SUFFICES ASSUME s[p] = Quote, NEW i \in 2 .. Len(t)
                 PROVE  Here(i) <=> Closing(s, p + i - 1)
    OBVIOUS
  <2>2. Dialect!Escaped(t, i) <=> t[i - 1] = Backslash /\ t[i - 2] # Backslash
    <3>1. Len(t) >= 1 /\ t[1] = Quote
      BY <1>2, <2>1
    <3>2. QED
      BY <1>3, <1>4, <3>1, EscapedAt
  <2>3. t[i] = s[p + i - 1] /\ t[i - 1] = s[(p + i - 1) - 1]
    <3>1. i \in 1 .. Len(t) /\ i - 1 \in 1 .. Len(t) /\ p + (i - 1) - 1 = (p + i - 1) - 1
      BY <1>2
    <3>2. QED
      BY <3>1, <1>1
  <2>4. t[i - 1] = Backslash => t[i - 2] = s[(p + i - 1) - 2]
    <3>1. SUFFICES ASSUME t[i - 1] = Backslash PROVE t[i - 2] = s[(p + i - 1) - 2]
      OBVIOUS
    <3>2. t[1] # Backslash
      BY <1>2, <2>1, Specials
    <3>3. i # 2
      BY <3>1, <3>2
    <3>4. i - 2 \in 1 .. Len(t) /\ p + (i - 2) - 1 = (p + i - 1) - 2
      BY <3>3, <1>2
    <3>5. QED
      BY <3>4, <1>1
  <2>5. QED
    BY <2>2, <2>3, <2>4 DEF Closing
<1> HIDE DEF Here
<1>9. Len(t) >= 2 <=> q >= p + 1
  BY <1>2
<1>10. ASSUME Len(t) >= 2, \A i \in 1 .. Len(t) : Here(i) <=> i \in {1, Len(t)}
       PROVE  s[p] = Quote /\ \A i \in p + 1 .. q : Closing(s, i) <=> i = q
  <2>1. s[p] = Quote
    BY <1>7, <1>10, <1>2
  <2>2. \A i \in p + 1 .. q : Closing(s, i) <=> i = q
    <3>1. TAKE i \in p + 1 .. q
    <3> DEFINE k == i - p + 1
    <3>2. k \in 2 .. Len(t) /\ k \in 1 .. Len(t) /\ k # 1 /\ i = p + k - 1 /\ (k = Len(t) <=> i = q)
      BY <1>2
    <3> HIDE DEF k
    <3>3. QED
      BY <3>2, <1>8, <1>10, <2>1
  <2>3. QED
    BY <2>1, <2>2
<1>11. ASSUME Len(t) >= 2, s[p] = Quote, \A i \in p + 1 .. q : Closing(s, i) <=> i = q
       PROVE  \A i \in 1 .. Len(t) : Here(i) <=> i \in {1, Len(t)}
  <2>1. TAKE i \in 1 .. Len(t)
  <2>2. CASE i = 1
    BY <2>2, <1>7, <1>11
  <2>3. CASE i # 1
    <3> DEFINE k == p + i - 1
    <3>1. i \in 2 .. Len(t) /\ k \in p + 1 .. q /\ (k = q <=> i = Len(t))
      <4>1. Len(t) = q - p + 1 /\ i \in 1 .. Len(t) /\ i # 1
        BY <2>1, <2>3, <1>2
      <4>2. QED
        BY <4>1
    <3>2. Here(i) <=> Closing(s, k)
      BY <3>1, <1>8, <1>11
    <3> HIDE DEF k
    <3>3. QED
      BY <3>1, <3>2, <2>3, <1>11
  <2>4. QED
    BY <2>2, <2>3
<1>12. QED
  BY <1>6, <1>9, <1>10, <1>11

-----------------------------------------------------------------------------
(* The kind of a part of a text, by its first character.                   *)

Kind(s, p, q) == Dialect!KindOf(SubSeq(s, p, q))

(* The characters that begin no lexeme.                                    *)
IsOther(c) ==
  c \notin Blank \cup Singles \cup Letter \cup Digit \cup {Newline, Quote}

LEMMA KeywordIsName ==
  ASSUME NEW s \in Text, NEW p \in 1 .. Len(s), NEW q \in p .. Len(s),
         NEW t, t = SubSeq(s, p, q), t \in Keyword
  PROVE  Dialect!IsName(t)
<1>1. t \in Seq(Letter) /\ Len(t) \in Nat \ {0}
  <2>1. t \in Seq(Letter)
    BY ScannerAssumption
  <2>2. Len(t) \in Nat \ {0}
    BY PartOfText
  <2>3. QED
    BY <2>1, <2>2
<1>2. \A i \in 1 .. Len(t) : t[i] \in Letter
  BY <1>1
<1>3. 1 \in 1 .. Len(t)
  BY <1>1
<1>4. QED
  BY <1>2, <1>3 DEF Dialect!IsName, Dialect!Of

(* Each way of being a lexeme has a first character of its own.            *)
LEMMA FirstCharacter ==
  ASSUME NEW s \in Text, NEW p \in 1 .. Len(s), NEW q \in p .. Len(s),
         NoAdjacentEscapes(s), NEW t, t = SubSeq(s, p, q)
  PROVE  /\ Dialect!IsName(t) => s[p] \in Letter
         /\ Dialect!IsNumber(t) => s[p] \in Digit
         /\ Dialect!IsString(t) => s[p] = Quote
         /\ Dialect!IsSymbol(t) => s[p] \in Singles
         /\ Dialect!IsBlank(t) => s[p] \in Blank \cup {Newline}
         /\ Dialect!IsLineComment(t) => s[p] = "/" /\ q >= p + 1 /\ s[p + 1] = "/"
         /\ Dialect!IsBlockComment(t) => s[p] = "/" /\ q >= p + 1 /\ s[p + 1] = "*"
<1>1. Len(s) \in Nat /\ p \in p .. q
  BY Characters
<1>2. Dialect!IsName(t) => s[p] \in Letter
  BY NameAt
<1>3. Dialect!IsNumber(t) => s[p] \in Digit
  <2>1. SUFFICES ASSUME Dialect!IsNumber(t) PROVE s[p] \in Digit
    OBVIOUS
  <2>2. PICK dot : DigitsWithDot(s, p, q + 1, dot)
    BY <2>1, NumberAt
  <2>3. p \in p .. (q + 1) - 1 /\ dot # p
    BY <2>2, <1>1 DEF DigitsWithDot
  <2>4. QED
    BY <2>2, <2>3 DEF DigitsWithDot
<1>4. Dialect!IsString(t) => s[p] = Quote
  BY StringAt
<1>5. Dialect!IsSymbol(t) => s[p] \in Singles
  BY SymbolAt, Symbols
<1>6. Dialect!IsBlank(t) => s[p] \in Blank \cup {Newline}
  BY BlankAt, <1>1
<1>7. Dialect!IsLineComment(t) => s[p] = "/" /\ q >= p + 1 /\ s[p + 1] = "/"
  BY LineCommentAt
<1>8. Dialect!IsBlockComment(t) => s[p] = "/" /\ q >= p + 1 /\ s[p + 1] = "*"
  <2>1. SUFFICES ASSUME Dialect!IsBlockComment(t)
                 PROVE  s[p] = "/" /\ q >= p + 1 /\ s[p + 1] = "*"
    OBVIOUS
  <2>2. s[p] = "/" /\ q >= p + 3 /\ s[p + 1] = "*"
    BY <2>1, BlockCommentAt
  <2>3. QED
    BY <2>2, <1>1
<1>9. QED
  BY <1>2, <1>3, <1>4, <1>5, <1>6, <1>7, <1>8

LEMMA KindByFirst ==
  ASSUME NEW s \in Text, NEW p \in 1 .. Len(s), NEW q \in p .. Len(s),
         NoAdjacentEscapes(s), NEW t, t = SubSeq(s, p, q)
  PROVE  /\ s[p] \in Letter =>
              Kind(s, p, q) = IF ~ Dialect!IsName(t) THEN "error"
                              ELSE IF t \in Keyword THEN "keyword" ELSE "identifier"
         /\ s[p] \in Digit =>
              Kind(s, p, q) = IF Dialect!IsNumber(t) THEN "number" ELSE "error"
         /\ s[p] = Quote =>
              Kind(s, p, q) = IF Dialect!IsString(t) THEN "string" ELSE "error"
         /\ s[p] \in Blank \cup {Newline} =>
              Kind(s, p, q) = IF Dialect!IsBlank(t) THEN "none" ELSE "error"
         /\ s[p] \in Singles =>
              Kind(s, p, q) = IF Dialect!IsSymbol(t) THEN "symbol"
                              ELSE IF Dialect!IsLineComment(t) \/ Dialect!IsBlockComment(t)
                                THEN "none" ELSE "error"
         /\ IsOther(s[p]) => Kind(s, p, q) = "error"
<1>1. /\ t \in Keyword => Dialect!IsName(t)
      /\ Dialect!IsName(t) => s[p] \in Letter
      /\ Dialect!IsNumber(t) => s[p] \in Digit
      /\ Dialect!IsString(t) => s[p] = Quote
      /\ Dialect!IsSymbol(t) => s[p] \in Singles
      /\ Dialect!IsBlank(t) => s[p] \in Blank \cup {Newline}
      /\ Dialect!IsLineComment(t) => s[p] = "/"
      /\ Dialect!IsBlockComment(t) => s[p] = "/"
  BY KeywordIsName, FirstCharacter
<1>2. Kind(s, p, q)
        = IF t \in Keyword THEN "keyword"
          ELSE IF Dialect!IsName(t) THEN "identifier"
          ELSE IF Dialect!IsNumber(t) THEN "number"
          ELSE IF Dialect!IsString(t) THEN "string"
          ELSE IF Dialect!IsSymbol(t) THEN "symbol"
          ELSE IF \/ Dialect!IsBlank(t) \/ Dialect!IsLineComment(t)
                  \/ Dialect!IsBlockComment(t) THEN "none"
          ELSE "error"
  BY DEF Kind, Dialect!KindOf, Dialect!IsSpace
<1>3. "/" \in Singles
  BY Symbols
<1> DEFINE c == s[p]
           name == Dialect!IsName(t)
           number == Dialect!IsNumber(t)
           string == Dialect!IsString(t)
           symbol == Dialect!IsSymbol(t)
           blank == Dialect!IsBlank(t)
           comment == Dialect!IsLineComment(t) \/ Dialect!IsBlockComment(t)
<1>4. /\ t \in Keyword => name
      /\ name => c \in Letter
      /\ number => c \in Digit
      /\ string => c = Quote
      /\ symbol => c \in Singles
      /\ blank => c \in Blank \cup {Newline}
      /\ comment => c \in Singles
      /\ Kind(s, p, q)
           = IF t \in Keyword THEN "keyword"
             ELSE IF name THEN "identifier"
             ELSE IF number THEN "number"
             ELSE IF string THEN "string"
             ELSE IF symbol THEN "symbol"
             ELSE IF blank \/ comment THEN "none"
             ELSE "error"
  BY <1>1, <1>2, <1>3
<1> DEFINE isKeyword == t \in Keyword
<1> HIDE DEF c, name, number, string, symbol, blank, comment, isKeyword
<1>5. c \in Letter =>
        Kind(s, p, q) = IF ~ name THEN "error"
                        ELSE IF t \in Keyword THEN "keyword" ELSE "identifier"
  BY <1>4, Disjoint
<1>6. c \in Digit => Kind(s, p, q) = IF number THEN "number" ELSE "error"
  BY <1>4, Disjoint
<1>7. c = Quote => Kind(s, p, q) = IF string THEN "string" ELSE "error"
  BY <1>4, Disjoint, Specials
<1>8. c \in Blank \cup {Newline} => Kind(s, p, q) = IF blank THEN "none" ELSE "error"
  BY <1>4, Disjoint, Specials
<1>9. c \in Singles =>
        Kind(s, p, q) = IF symbol THEN "symbol" ELSE IF comment THEN "none" ELSE "error"
  BY <1>4, Disjoint, Specials
<1>10. IsOther(c) => Kind(s, p, q) = "error"
  BY <1>4 DEF IsOther
<1>11. QED
  BY <1>5, <1>6, <1>7, <1>8, <1>9, <1>10
     DEF c, name, number, string, symbol, blank, comment

(* The longest lexeme.                                                     *)
LEMMA LexemeEndIs ==
  ASSUME NEW s \in Text, NEW p \in 1 .. Len(s), NEW e \in p .. Len(s),
         Kind(s, p, e) # "error", \A q \in e + 1 .. Len(s) : Kind(s, p, q) = "error"
  PROVE  Dialect!LexemeEnd(s, p) = e
<1> DEFINE T == {0} \cup {q \in p .. Len(s) : Kind(s, p, q) # "error"}
<1>1. Dialect!LexemeEnd(s, p) = Max(T)
  BY SameAlphabet, Zenon DEF Dialect!LexemeEnd, Kind
<1>2. Len(s) \in Nat
  BY Characters
<1>3. T \subseteq 0 .. Len(s) /\ e \in T
  BY <1>2
<1>4. \A y \in T : y <= e
  <2>1. TAKE y \in T
  <2>2. y = 0 \/ (y \in p .. Len(s) /\ y \notin e + 1 .. Len(s))
    OBVIOUS
  <2>3. QED
    BY <2>2, <1>2
<1> HIDE DEF T
<1>5. QED
  BY <1>1, <1>2, <1>3, <1>4, MaxIs

LEMMA NoLexeme ==
  ASSUME NEW s \in Text, NEW p \in 1 .. Len(s),
         \A q \in p .. Len(s) : Kind(s, p, q) = "error"
  PROVE  Dialect!LexemeEnd(s, p) = 0
<1> DEFINE T == {0} \cup {q \in p .. Len(s) : Kind(s, p, q) # "error"}
<1>1. Dialect!LexemeEnd(s, p) = Max(T)
  BY SameAlphabet, Zenon DEF Dialect!LexemeEnd, Kind
<1>2. T \subseteq 0 .. 0 /\ 0 \in T /\ \A y \in T : y <= 0
  OBVIOUS
<1> HIDE DEF T
<1>3. QED
  BY <1>1, <1>2, MaxIs
-----------------------------------------------------------------------------
(* What getToken reads is the longest lexeme.                              *)

(* What a read at p is by the grammar, but for blanks.                     *)
Agrees(s, p, read, line) ==
  LET end  == Dialect!LexemeEnd(s, p)
      text == SubSeq(s, p, end)
      kind == Kind(s, p, end)
  IN  IF read.token.kind = "error" THEN Dialect!IsError(s, p)
      ELSE /\ ~ Dialect!IsError(s, p)
           /\ end \in p .. Len(s) /\ read.at = end + 1 /\ read.line = line
           /\ ~ Dialect!IsBlank(text)
           /\ read.token.kind = kind
           /\ kind # "none" =>
                read.token = Token(kind, IF kind = "string" THEN Tail(Dialect!Front(text))
                                                            ELSE text, line)

LEMMA AgreesOnText ==
  ASSUME NEW s \in Text, NoAdjacentEscapes(s), NEW p \in 1 .. Len(s), NEW line,
         NEW e \in p .. Len(s), s[p] \notin Blank \cup {Newline}, s[p] # "/" \/ Char(s, p + 1) # "*",
         NEW kind, kind \notin {"error", "none", "string"}, Kind(s, p, e) = kind,
         \A q \in e + 1 .. Len(s) : Kind(s, p, q) = "error"
  PROVE  Agrees(s, p, Reading(kind, SubSeq(s, p, e), e + 1, line), line)
<1>1. Dialect!LexemeEnd(s, p) = e
  BY LexemeEndIs
<1>2. e # 0
  OBVIOUS
<1>3. ~ Dialect!IsError(s, p)
  <2>1. Char(s, p) = s[p] /\ p \in Nat
    BY Characters
  <2>2. ~ (Dialect!Char(s, p) = "/" /\ Dialect!Char(s, p + 1) = "*")
    BY <2>1, SameAlphabet
  <2>3. QED
    BY <1>1, <1>2, <2>2 DEF Dialect!IsError
<1>4. ~ Dialect!IsBlank(SubSeq(s, p, e))
  BY FirstCharacter
<1>5. QED
  BY <1>1, <1>3, <1>4 DEF Agrees, Reading, Token

LEMMA AgreesOnError ==
  ASSUME NEW s \in Text, NEW p \in 1 .. Len(s), NEW line, NEW at,
         \A q \in p .. Len(s) : Kind(s, p, q) = "error"
  PROVE  Agrees(s, p, Reading("error", <<>>, at, line), line)
<1>1. Dialect!LexemeEnd(s, p) = 0
  BY NoLexeme
<1>2. Dialect!IsError(s, p)
  BY <1>1 DEF Dialect!IsError
<1>3. QED
  BY <1>2 DEF Agrees, Reading, Token

LEMMA AgreesOnOther ==
  ASSUME NEW s \in Text, NoAdjacentEscapes(s), NEW p \in 1 .. Len(s), NEW line, IsOther(s[p])
  PROVE  Agrees(s, p, GetToken(s, p, line), line)
<1>1. p \in Nat /\ Char(s, p) = s[p]
  BY Characters
<1>2. GetToken(s, p, line) = Reading("error", <<>>, p, line)
  BY <1>1, GetTokenOther DEF IsOther
<1>3. \A q \in p .. Len(s) : Kind(s, p, q) = "error"
  BY KindByFirst
<1>4. QED
  BY <1>2, <1>3, AgreesOnError

LEMMA AgreesOnLetter ==
  ASSUME NEW s \in Text, NoAdjacentEscapes(s), NEW p \in 1 .. Len(s), NEW line, s[p] \in Letter
  PROVE  Agrees(s, p, GetToken(s, p, line), line)
<1> DEFINE C == Letter \cup Digit \cup {Underscore}
           a == NameEnd(s, p)
           e == a - 1
<1>1. p \in Nat /\ Char(s, p) = s[p] /\ Len(s) \in Nat /\ p \in 1 .. Len(s) + 1
  BY Characters
<1>2. /\ Nul \notin C
      /\ s[p] \in C /\ s[p] \notin Blank \cup {Newline} /\ s[p] # "/"
  <2>1. Nul \notin Letter \cup Digit
    BY Disjoint
  <2>2. Nul # Underscore
    BY Zenon DEF Nul, Underscore
  <2>3. QED
    BY <2>1, <2>2, Disjoint, Symbols
<1>3. /\ a \in p .. Len(s) + 1
      /\ \A i \in p .. a - 1 : i \in 1 .. Len(s) /\ s[i] \in C
      /\ a <= Len(s) => s[a] \notin C
  <2> DEFINE b == Past(s, p, C)
  <2>1. a = b
    BY DEF NameEnd
  <2> HIDE DEF a, C, b
  <2>2. b = Past(s, p, C)
    BY DEF b
  <2>3. /\ b \in p .. Len(s) + 1
        /\ \A i \in p .. b - 1 : i \in 1 .. Len(s) /\ s[i] \in C
        /\ b <= Len(s) => s[b] \notin C
    BY <1>1, <1>2, <2>2, PastFacts
  <2>4. QED
    BY <2>1, <2>3
<1>4. e \in p .. Len(s) /\ a = e + 1
  <2>1. a # p
    BY <1>1, <1>2, <1>3
  <2>2. QED
    BY <2>1, <1>1, <1>3
<1> DEFINE kind == IF SubSeq(s, p, e) \in Keyword THEN "keyword" ELSE "identifier"
<1>5. GetToken(s, p, line) = Reading(kind, SubSeq(s, p, e), e + 1, line)
  <2>1. GetToken(s, p, line)
          = Reading(IF SubSeq(s, p, NameEnd(s, p) - 1) \in Keyword THEN "keyword" ELSE "identifier",
                    SubSeq(s, p, NameEnd(s, p) - 1), NameEnd(s, p), line)
    BY <1>1, GetTokenWord
  <2>2. QED
    BY <2>1, <1>4
<1>6. Kind(s, p, e) = kind
  <2>1. Dialect!IsName(SubSeq(s, p, e))
    BY <1>3, <1>4, NameAt
  <2>2. QED
    BY <2>1, <1>4, KindByFirst
<1>7. \A q \in e + 1 .. Len(s) : Kind(s, p, q) = "error"
  <2>1. TAKE q \in e + 1 .. Len(s)
  <2>2. q \in p .. Len(s) /\ a \in p .. q /\ a <= Len(s)
    BY <1>1, <1>4
  <2>3. ~ Dialect!IsName(SubSeq(s, p, q))
    BY <1>3, <2>2, NameAt
  <2>4. QED
    BY <2>2, <2>3, KindByFirst
<1>8. kind \notin {"error", "none", "string"}
  OBVIOUS
<1> HIDE DEF a, e, kind, C
<1>9. QED
  BY <1>2, <1>4, <1>5, <1>6, <1>7, <1>8, AgreesOnText

LEMMA AgreesOnDigit ==
  ASSUME NEW s \in Text, NoAdjacentEscapes(s), NEW p \in 1 .. Len(s), NEW line, s[p] \in Digit
  PROVE  Agrees(s, p, GetToken(s, p, line), line)
<1> DEFINE a == NumberEnd(s, p)
           e == a - 1
<1>1. p \in Nat /\ Char(s, p) = s[p] /\ Len(s) \in Nat
  BY Characters
<1>2. a \in p + 1 .. Len(s) + 1
  BY NumberEndFacts
<1>3. PICK dot : /\ DigitsWithDot(s, p, a, dot)
                 /\ a <= Len(s) => s[a] \notin Digit
                 /\ dot = 0 /\ a + 1 <= Len(s) /\ s[a] = "." => s[a + 1] \notin Digit
  BY NumberEndFacts
<1>4. e \in p .. Len(s) /\ a = e + 1
  BY <1>1, <1>2
<1>5. GetToken(s, p, line) = Reading("number", SubSeq(s, p, e), e + 1, line)
  <2>1. GetToken(s, p, line)
          = Reading("number", SubSeq(s, p, NumberEnd(s, p) - 1), NumberEnd(s, p), line)
    BY <1>1, GetTokenWord
  <2>2. QED
    BY <2>1, <1>4
<1> HIDE DEF a, e
<1>6. Kind(s, p, e) = "number"
  <2>1. Dialect!IsNumber(SubSeq(s, p, e))
    BY <1>3, <1>4, NumberAt
  <2>2. QED
    BY <2>1, <1>4, KindByFirst
<1>7. \A q \in e + 1 .. Len(s) : Kind(s, p, q) = "error"
  <2>1. TAKE q \in e + 1 .. Len(s)
  <2>2. q \in p .. Len(s) /\ a \in p .. (q + 1) - 1 /\ a <= Len(s) /\ a <= q
    BY <1>1, <1>4
  <2>3. ASSUME Dialect!IsNumber(SubSeq(s, p, q)) PROVE FALSE
    <3>1. PICK d : DigitsWithDot(s, p, q + 1, d)
      BY <2>2, <2>3, NumberAt
    <3>2. /\ d = 0 \/ d \in p + 1 .. (q + 1) - 2
          /\ \A i \in p .. (q + 1) - 1 : IF i = d THEN s[i] = "." ELSE s[i] \in Digit
      BY <3>1 DEF DigitsWithDot
    <3>3. a = d /\ s[a] = "."
      BY <3>2, <2>2, <1>3
    <3>4. a + 1 \in p .. (q + 1) - 1 /\ a + 1 <= Len(s) /\ a + 1 # d
      BY <3>2, <3>3, <2>2, <1>1, <1>2
    <3>5. s[a + 1] \in Digit
      BY <3>2, <3>4
    <3>6. /\ dot = 0 \/ dot \in p + 1 .. a - 2
          /\ \A i \in p .. a - 1 : IF i = dot THEN s[i] = "." ELSE s[i] \in Digit
      BY <1>3 DEF DigitsWithDot
    <3>7. dot # 0
      BY <3>3, <3>4, <3>5, <1>3
    <3>8. dot \in p .. a - 1 /\ dot \in p .. (q + 1) - 1 /\ dot # d /\ s[dot] = "."
      BY <3>3, <3>6, <3>7, <2>2, <1>1, <1>2
    <3>9. s[dot] \in Digit
      BY <3>2, <3>8
    <3>10. QED
      BY <3>8, <3>9, DotIsNoDigit
  <2>4. QED
    BY <2>2, <2>3, KindByFirst
<1>8. s[p] \notin Blank \cup {Newline} /\ s[p] # "/"
  BY Disjoint, Symbols
<1> DEFINE kind == "number"
<1>9. kind \notin {"error", "none", "string"} /\ Kind(s, p, e) = kind
  BY <1>6
<1> HIDE DEF kind
<1>10. Agrees(s, p, Reading(kind, SubSeq(s, p, e), e + 1, line), line)
  BY <1>4, <1>7, <1>8, <1>9, AgreesOnText
<1>11. QED
  BY <1>5, <1>10 DEF kind
(* The second character of a doubled symbol is there.                      *)
LEMMA SecondOfDouble ==
  ASSUME NEW c, NEW d, <<c, d>> \in Doubles
  PROVE  d # Nul /\ c \in Singles
<1>1. d \in {"-", "=", "+"}
  BY Zenon DEF Doubles
<1>2. d # Nul
  BY <1>1, Zenon DEF Nul
<1>3. QED
  BY <1>2, Symbols

LEMMA AgreesOnDouble ==
  ASSUME NEW s \in Text, NoAdjacentEscapes(s), NEW p \in 1 .. Len(s), NEW line,
         <<s[p], Char(s, p + 1)>> \in Doubles
  PROVE  Agrees(s, p, GetToken(s, p, line), line)
<1> DEFINE e == p + 1
           d == Char(s, e)
<1>1. p \in Nat /\ e \in Nat /\ Char(s, p) = s[p] /\ Len(s) \in Nat
  BY Characters
<1>2. d # Nul /\ s[p] \in Singles /\ <<s[p], d>> \in Doubles
  BY SecondOfDouble
<1>3. e \in 1 .. Len(s) /\ e \in p .. Len(s)
  <2>1. ~ (e > Len(s))
    BY <1>1, <1>2, Characters
  <2>2. QED
    BY <2>1, <1>1
<1>4. d = s[e]
  BY <1>3, Characters
<1>5. <<s[p], d>> # <<"/", "/">> /\ <<s[p], d>> # <<"/", "*">>
  BY <1>2, Symbols
<1>6. s[p] # "/" \/ (d # "/" /\ d # "*")
  BY <1>5
<1> DEFINE kind == "symbol"
<1>7. GetToken(s, p, line) = Reading(kind, SubSeq(s, p, e), e + 1, line)
  <2>1. GetToken(s, p, line) = Reading("symbol", SubSeq(s, p, p + 1), p + 2, line)
    BY <1>1, <1>2, GetTokenSymbol
  <2>2. p + 2 = e + 1
    BY <1>1
  <2>3. QED
    BY <2>1, <2>2
<1>8. e = p + 1
  OBVIOUS
<1> HIDE DEF e, d
<1>9. Kind(s, p, e) = kind
  <2>1. Dialect!IsSymbol(SubSeq(s, p, e))
    BY <1>2, <1>3, <1>4, <1>8, SymbolAt
  <2>2. QED
    BY <2>1, <1>2, <1>3, KindByFirst
<1>10. \A q \in e + 1 .. Len(s) : Kind(s, p, q) = "error"
  <2>1. TAKE q \in e + 1 .. Len(s)
  <2>2. q \in p .. Len(s) /\ q # p + 1 /\ q # p
    BY <1>1, <1>8
  <2> DEFINE t == SubSeq(s, p, q)
  <2>3. ~ Dialect!IsSymbol(t)
    BY <2>2, SymbolAt
  <2>4. ~ Dialect!IsLineComment(t) /\ ~ Dialect!IsBlockComment(t)
    BY <2>2, <1>4, <1>6, <1>8, FirstCharacter
  <2>5. QED
    BY <2>2, <2>3, <2>4, <1>2, KindByFirst
<1>11. kind \notin {"error", "none", "string"} /\ s[p] \notin Blank \cup {Newline}
  BY <1>2, Specials
<1>12. s[p] # "/" \/ Char(s, p + 1) # "*"
  BY <1>6, <1>8 DEF d
<1> HIDE DEF kind
<1>13. Agrees(s, p, Reading(kind, SubSeq(s, p, e), e + 1, line), line)
  BY <1>3, <1>9, <1>10, <1>11, <1>12, AgreesOnText
<1>14. QED
  BY <1>7, <1>13

LEMMA AgreesOnSingle ==
  ASSUME NEW s \in Text, NoAdjacentEscapes(s), NEW p \in 1 .. Len(s), NEW line,
         s[p] \in Singles,
         <<s[p], Char(s, p + 1)>> \notin Doubles \cup {<<"/", "/">>, <<"/", "*">>}
  PROVE  Agrees(s, p, GetToken(s, p, line), line)
<1> DEFINE d == Char(s, p + 1)
           kind == "symbol"
<1>1. p \in Nat /\ Char(s, p) = s[p] /\ Len(s) \in Nat /\ p \in p .. Len(s)
  BY Characters
<1>2. \A q \in p + 1 .. Len(s) : d = s[p + 1]
  <2>1. TAKE q \in p + 1 .. Len(s)
  <2>2. p + 1 \in 1 .. Len(s)
    BY <1>1
  <2>3. QED
    BY <2>2, Characters
<1>3. s[p] # "/" \/ (d # "/" /\ d # "*")
  OBVIOUS
<1>4. <<s[p], d>> \notin Doubles
  OBVIOUS
<1>5. GetToken(s, p, line) = Reading(kind, SubSeq(s, p, p), p + 1, line)
  BY <1>1, GetTokenSymbol
<1>6. Kind(s, p, p) = kind
  <2>1. Dialect!IsSymbol(SubSeq(s, p, p))
    BY <1>1, SymbolAt
  <2>2. QED
    BY <2>1, <1>1, KindByFirst
<1>7. \A q \in p + 1 .. Len(s) : Kind(s, p, q) = "error"
  <2>1. TAKE q \in p + 1 .. Len(s)
  <2>2. q \in p .. Len(s) /\ q # p
    BY <1>1
  <2>3. d = s[p + 1]
    BY <1>2
  <2> DEFINE t == SubSeq(s, p, q)
  <2> HIDE DEF d
  <2>4. ~ Dialect!IsSymbol(t)
    BY <2>2, <2>3, <1>4, SymbolAt
  <2>5. ~ Dialect!IsLineComment(t) /\ ~ Dialect!IsBlockComment(t)
    BY <2>2, <2>3, <1>3, FirstCharacter
  <2>6. QED
    BY <2>2, <2>4, <2>5, KindByFirst
<1>8. kind \notin {"error", "none", "string"} /\ s[p] \notin Blank \cup {Newline}
  BY Specials
<1>9. s[p] # "/" \/ Char(s, p + 1) # "*"
  BY <1>3
<1> HIDE DEF kind, d
<1>10. QED
  BY <1>1, <1>5, <1>6, <1>7, <1>8, <1>9, AgreesOnText

(* Space that is no blank: a comment.                                      *)
LEMMA AgreesOnSpace ==
  ASSUME NEW s \in Text, NoAdjacentEscapes(s), NEW p \in 1 .. Len(s), NEW line,
         NEW e \in p .. Len(s), s[p] = "/", Kind(s, p, e) = "none",
         Char(s, p + 1) = "*" => Dialect!IsBlockComment(SubSeq(s, p, e)),
         \A q \in e + 1 .. Len(s) : Kind(s, p, q) = "error"
  PROVE  Agrees(s, p, Reading("none", <<>>, e + 1, line), line)
<1>1. Dialect!LexemeEnd(s, p) = e
  BY LexemeEndIs
<1>2. e # 0
  OBVIOUS
<1>3. ~ Dialect!IsError(s, p)
  BY <1>1, <1>2, SameAlphabet DEF Dialect!IsError
<1>4. ~ Dialect!IsBlank(SubSeq(s, p, e))
  <2>1. s[p] \notin Blank \cup {Newline}
    BY Symbols, Specials
  <2>2. QED
    BY <2>1, FirstCharacter
<1>5. QED
  BY <1>1, <1>3, <1>4 DEF Agrees, Reading, Token

LEMMA AgreesOnLineComment ==
  ASSUME NEW s \in Text, NoAdjacentEscapes(s), NEW p \in 1 .. Len(s), NEW line,
         s[p] = "/", Char(s, p + 1) = "/"
  PROVE  Agrees(s, p, GetToken(s, p, line), line)
<1> DEFINE a == LineEnd(s, p)
           e == a - 1
<1>1. p \in Nat /\ p + 1 \in Nat /\ Char(s, p) = s[p] /\ Len(s) \in Nat /\ p \in 1 .. Len(s) + 1
  BY Characters
<1>2. s[p] \in Singles /\ "/" # Nul /\ "/" # Newline
  BY Symbols, Specials
<1>3. p + 1 \in 1 .. Len(s)
  <2>1. ~ (p + 1 > Len(s))
    BY <1>1, <1>2, Characters
  <2>2. QED
    BY <2>1, <1>1
<1>4. s[p + 1] = "/"
  BY <1>3, Characters
<1>5. /\ a \in p .. Len(s) + 1
      /\ \A i \in p .. a - 1 : s[i] # Newline
      /\ a <= Len(s) => s[a] = Newline
  BY <1>1, LineEndFacts
<1>6. a # p /\ a # p + 1
  BY <1>1, <1>2, <1>3, <1>4, <1>5
<1>7. e \in p .. Len(s) /\ e >= p + 1 /\ a = e + 1
  BY <1>1, <1>5, <1>6
<1>8. GetToken(s, p, line) = Reading("none", <<>>, e + 1, line)
  BY <1>1, <1>7, GetTokenSlash
<1>9. \A q \in p + 1 .. Len(s) : ~ Dialect!IsSymbol(SubSeq(s, p, q))
  <2>1. TAKE q \in p + 1 .. Len(s)
  <2>2. q \in p .. Len(s) /\ q # p
    BY <1>1
  <2>3. <<s[p], s[p + 1]>> \notin Doubles
    BY <1>4, Symbols
  <2>4. QED
    BY <2>2, <2>3, SymbolAt
<1> HIDE DEF a, e
<1>10. Kind(s, p, e) = "none"
  <2>1. Dialect!IsLineComment(SubSeq(s, p, e))
    <3>1. \A i \in p .. e : s[i] # Newline
      BY <1>1, <1>5, <1>7
    <3>2. QED
      BY <1>4, <1>7, <3>1, LineCommentAt
  <2>2. ~ Dialect!IsSymbol(SubSeq(s, p, e))
    BY <1>7, <1>9
  <2>3. QED
    BY <2>1, <2>2, <1>2, <1>7, KindByFirst
<1>11. \A q \in e + 1 .. Len(s) : Kind(s, p, q) = "error"
  <2>1. TAKE q \in e + 1 .. Len(s)
  <2>2. q \in p .. Len(s) /\ q \in p + 1 .. Len(s) /\ a \in p .. q /\ a <= Len(s)
    BY <1>1, <1>7
  <2> DEFINE t == SubSeq(s, p, q)
  <2>3. ~ Dialect!IsSymbol(t)
    BY <2>2, <1>9
  <2>4. ~ Dialect!IsLineComment(t)
    BY <2>2, <1>5, LineCommentAt
  <2>5. ~ Dialect!IsBlockComment(t)
    <3>1. s[p + 1] # "*"
      BY <1>4
    <3>2. QED
      BY <2>2, <3>1, FirstCharacter
  <2>6. QED
    BY <2>2, <2>3, <2>4, <2>5, <1>2, KindByFirst
<1>12. Agrees(s, p, Reading("none", <<>>, e + 1, line), line)
  BY <1>7, <1>10, <1>11, AgreesOnSpace
<1>13. QED
  BY <1>8, <1>12
LEMMA AgreesOnBlockComment ==
  ASSUME NEW s \in Text, NoAdjacentEscapes(s), NEW p \in 1 .. Len(s), NEW line,
         s[p] = "/", Char(s, p + 1) = "*"
  PROVE  Agrees(s, p, GetToken(s, p, line), line)
<1> DEFINE a == CommentEnd(s, p + 2)
           e == a - 1
<1>1. p \in Nat /\ Char(s, p) = s[p] /\ Len(s) \in Nat /\ p + 1 \in Nat /\ p \in p .. Len(s)
  BY Characters
<1>2. s[p] \in Singles /\ "*" # Nul
  <2>1. "*" \in Singles
    BY Zenon DEF Singles
  <2>2. QED
    BY <2>1, Symbols, Specials
<1>3. p + 1 \in 1 .. Len(s)
  <2>1. ~ (p + 1 > Len(s))
    BY <1>1, <1>2, Characters
  <2>2. QED
    BY <2>1, <1>1
<1>4. s[p + 1] = "*" /\ "*" # "/"
  BY <1>3, Characters
<1>5. \/ /\ a = 0
         /\ \A i \in p + 2 .. Len(s) - 1 : ~ Closes(s, i)
      \/ /\ a \in p + 4 .. Len(s) + 1 /\ Closes(s, a - 2)
         /\ \A i \in p + 2 .. a - 3 : ~ Closes(s, i)
  <2> DEFINE r == p + 2
  <2>1. r \in 1 .. Len(s) + 1 /\ r = p + 2 /\ r + 2 = p + 4
    BY <1>1, <1>3
  <2> HIDE DEF r
  <2>2. a = CommentEnd(s, r)
    BY <2>1
  <2> HIDE DEF a
  <2>3. \/ /\ a = 0
           /\ \A i \in r .. Len(s) - 1 : ~ Closes(s, i)
        \/ /\ a \in r + 2 .. Len(s) + 1 /\ Closes(s, a - 2)
           /\ \A i \in r .. a - 3 : ~ Closes(s, i)
    BY <2>1, <2>2, CommentEndFacts
  <2>4. QED
    BY <2>1, <2>3
<1>6. GetToken(s, p, line)
        = IF a = 0 THEN Reading("error", <<>>, Len(s) + 1, line)
          ELSE Reading("none", <<>>, a, line)
  BY <1>1, GetTokenSlash
<1> HIDE DEF a
<1>7. \A q \in p + 1 .. Len(s) :
        /\ q \in p .. Len(s)
        /\ ~ Dialect!IsSymbol(SubSeq(s, p, q))
        /\ ~ Dialect!IsLineComment(SubSeq(s, p, q))
  <2>1. TAKE q \in p + 1 .. Len(s)
  <2>2. q \in p .. Len(s) /\ q # p
    BY <1>1
  <2>3. <<s[p], s[p + 1]>> \notin Doubles
    BY <1>4, Symbols
  <2>4. ~ Dialect!IsSymbol(SubSeq(s, p, q))
    BY <2>2, <2>3, SymbolAt
  <2>5. ~ Dialect!IsLineComment(SubSeq(s, p, q))
    BY <2>2, <1>4, FirstCharacter
  <2>6. QED
    BY <2>2, <2>4, <2>5
<1>8. \A q \in p + 1 .. Len(s) :
        Kind(s, p, q) = IF Dialect!IsBlockComment(SubSeq(s, p, q)) THEN "none" ELSE "error"
  <2>1. TAKE q \in p + 1 .. Len(s)
  <2>2. QED
    BY <1>2, <1>7, KindByFirst
<1>9. \A q \in p + 1 .. Len(s) :
        Dialect!IsBlockComment(SubSeq(s, p, q))
          <=> q >= p + 3 /\ \A i \in p + 2 .. q - 1 : Closes(s, i) <=> i = q - 1
  <2>1. TAKE q \in p + 1 .. Len(s)
  <2>2. QED
    BY <1>4, <1>7, BlockCommentAt
<1>10. CASE a = 0
  <2>1. \A q \in p + 1 .. Len(s) : ~ Dialect!IsBlockComment(SubSeq(s, p, q))
    <3>1. TAKE q \in p + 1 .. Len(s)
    <3>2. q >= p + 3 =>
            q - 1 \in p + 2 .. q - 1 /\ q - 1 \in p + 2 .. Len(s) - 1 /\ ~ Closes(s, q - 1)
      BY <1>1, <1>5, <1>10
    <3>3. QED
      BY <3>2, <1>9
  <2>2. \A q \in p + 1 .. Len(s) : Kind(s, p, q) = "error"
    BY <2>1, <1>8
  <2>3. Kind(s, p, p) # "error"
    <3>1. Dialect!IsSymbol(SubSeq(s, p, p))
      BY <1>1, <1>2, SymbolAt
    <3>2. QED
      BY <3>1, <1>1, <1>2, KindByFirst
  <2>4. Dialect!LexemeEnd(s, p) = p
    BY <2>2, <2>3, <1>1, LexemeEndIs
  <2>5. ~ Dialect!IsBlockComment(SubSeq(s, p, p))
    <3>1. ~ (p >= p + 3)
      BY <1>1
    <3>2. QED
      BY <3>1, <1>1, BlockCommentAt
  <2>6. Dialect!IsError(s, p)
    BY <2>4, <2>5, <1>1, SameAlphabet DEF Dialect!IsError
  <2>7. QED
    BY <2>6, <1>6, <1>10 DEF Agrees, Reading, Token
<1>11. CASE a # 0
  <2>1. e \in p + 1 .. Len(s) /\ e \in p .. Len(s) /\ e >= p + 3 /\ a = e + 1
    BY <1>1, <1>5, <1>11
  <2>2. Closes(s, e - 1) /\ \A i \in p + 2 .. e - 2 : ~ Closes(s, i)
    <3>1. a - 2 = e - 1 /\ a - 3 = e - 2
      BY <2>1, <1>1
    <3>2. QED
      BY <3>1, <1>5, <1>11
  <2> HIDE DEF e
  <2>3. Dialect!IsBlockComment(SubSeq(s, p, e))
    <3>1. \A i \in p + 2 .. e - 1 : i = e - 1 \/ i \in p + 2 .. e - 2
      BY <1>1, <2>1
    <3>2. \A i \in p + 2 .. e - 2 : i # e - 1
      BY <1>1, <2>1
    <3>3. QED
      BY <3>1, <3>2, <2>1, <2>2, <1>9
  <2>4. Kind(s, p, e) = "none"
    BY <2>1, <2>3, <1>8
  <2>5. \A q \in e + 1 .. Len(s) : Kind(s, p, q) = "error"
    <3>1. TAKE q \in e + 1 .. Len(s)
    <3>2. q \in p + 1 .. Len(s) /\ e - 1 \in p + 2 .. q - 1 /\ e - 1 # q - 1
      BY <1>1, <2>1
    <3>3. QED
      BY <3>2, <2>2, <1>8, <1>9
  <2>6. Agrees(s, p, Reading("none", <<>>, e + 1, line), line)
    BY <2>1, <2>3, <2>4, <2>5, AgreesOnSpace
  <2>7. QED
    BY <2>1, <2>6, <1>6, <1>11
<1>12. QED
  BY <1>10, <1>11

LEMMA WithoutEnds ==
  ASSUME NEW s \in Text, NEW p \in 1 .. Len(s), NEW e \in p + 1 .. Len(s)
  PROVE  Tail(Dialect!Front(SubSeq(s, p, e))) = SubSeq(s, p + 1, e - 1)
<1> DEFINE t == SubSeq(s, p, e)
           f == SubSeq(t, 1, Len(t) - 1)
           g == SubSeq(s, p + 1, e - 1)
<1>1. Len(s) \in Nat /\ e \in p .. Len(s) /\ p + 1 \in 1 .. Len(s) /\ e \in Nat /\ p \in Nat
  BY Characters
<1>2. t \in Text /\ Len(t) = e - p + 1
  <2>1. t \in Text
    BY <1>1, PartOfText
  <2>2. Len(t) = e - p + 1
    BY <1>1, PartOfText
  <2>3. QED
    BY <2>1, <2>2
<1>3. \A i \in 1 .. Len(t) : t[i] = s[p + i - 1]
  BY <1>1, PartOfText
<1>4. Dialect!Front(t) = f
  BY DEF Dialect!Front
<1> HIDE DEF t
<1>5. Len(t) - 1 \in 1 .. Len(t) /\ Len(t) - 1 = e - p
  BY <1>1, <1>2
<1>6. f \in Text /\ Len(f) = e - p /\ \A i \in 1 .. e - p : f[i] = t[i]
  <2> DEFINE m == Len(t) - 1
  <2>1. m \in 1 - 1 .. Len(t) /\ m = e - p
    BY <1>5
  <2> HIDE DEF m
  <2>2. /\ SubSeq(t, 1, m) \in Seq(STRING \ {Nul})
        /\ Len(SubSeq(t, 1, m)) = m - 1 + 1
        /\ \A i \in 1 .. m - 1 + 1 : SubSeq(t, 1, m)[i] = t[1 + i - 1]
    <3>1. t \in Seq(STRING \ {Nul}) /\ 1 \in 1 .. Len(t) + 1
      BY <1>2, <1>1 DEF Text
    <3>2. QED
      BY <3>1, <2>1, SubSeqProperties
  <2>3. f = SubSeq(t, 1, m)
    BY DEF m
  <2> HIDE DEF f
  <2>4. m \in Nat /\ m - 1 + 1 = m /\ \A i \in 1 .. m : 1 + i - 1 = i
    BY <1>5, <1>1 DEF m
  <2>5. QED
    BY <2>1, <2>2, <2>3, <2>4 DEF Text
<1> HIDE DEF f
<1>7. /\ Tail(f) \in Seq(STRING \ {Nul}) /\ Len(Tail(f)) = Len(f) - 1
      /\ \A i \in 1 .. Len(f) - 1 : Tail(f)[i] = f[i + 1]
  <2>1. f \in Seq(STRING \ {Nul}) /\ f # <<>>
    <3>1. Len(f) # 0
      BY <1>1, <1>6
    <3>2. QED
      BY <3>1, <1>6, EmptySeq DEF Text
  <2>2. QED
    BY <2>1, HeadTailProperties
<1>8. /\ g \in Seq(STRING \ {Nul}) /\ Len(g) = e - p - 1
      /\ \A i \in 1 .. e - p - 1 : g[i] = s[p + i]
  <2> DEFINE a == p + 1
             b == e - 1
  <2>1. a \in 1 .. Len(s) + 1 /\ b \in a - 1 .. Len(s) /\ b - a + 1 = e - p - 1
    BY <1>1
  <2>2. \A i \in 1 .. e - p - 1 : a + i - 1 = p + i
    BY <1>1
  <2>3. g = SubSeq(s, a, b)
    OBVIOUS
  <2> HIDE DEF a, b, g
  <2>4. /\ SubSeq(s, a, b) \in Seq(STRING \ {Nul})
        /\ Len(SubSeq(s, a, b)) = b - a + 1
        /\ \A i \in 1 .. b - a + 1 : SubSeq(s, a, b)[i] = s[a + i - 1]
    <3>1. s \in Seq(STRING \ {Nul})
      BY DEF Text
    <3>2. QED
      BY <3>1, <2>1, SubSeqProperties
  <2>5. QED
    BY <2>1, <2>2, <2>3, <2>4
<1> HIDE DEF g
<1>9. Len(Tail(f)) = Len(g) /\ Len(g) = e - p - 1
  BY <1>1, <1>6, <1>7, <1>8
<1>10. \A i \in 1 .. Len(g) : Tail(f)[i] = g[i]
  <2>1. TAKE i \in 1 .. Len(g)
  <2>2. /\ i \in 1 .. Len(f) - 1 /\ i + 1 \in 1 .. e - p /\ i + 1 \in 1 .. Len(t)
        /\ p + (i + 1) - 1 = p + i /\ i \in 1 .. e - p - 1
    BY <1>1, <1>2, <1>6, <1>9
  <2>3. Tail(f)[i] = f[i + 1] /\ f[i + 1] = t[i + 1] /\ t[i + 1] = s[p + (i + 1) - 1]
    BY <2>2, <1>3, <1>6, <1>7
  <2>4. QED
    BY <2>2, <2>3, <1>8
<1>11. Tail(f) = g
  BY <1>7, <1>8, <1>9, <1>10, SeqEqual
<1>12. QED
  BY <1>4, <1>11 DEF t, g
LEMMA AgreesOnQuote ==
  ASSUME NEW s \in Text, NoAdjacentEscapes(s), NEW p \in 1 .. Len(s), NEW line, s[p] = Quote
  PROVE  Agrees(s, p, GetToken(s, p, line), line)
<1> DEFINE a == StringEnd(s, p + 1)
           e == a - 1
<1>1. p \in Nat /\ Char(s, p) = s[p] /\ Len(s) \in Nat /\ p + 1 \in 2 .. Len(s) + 1
  BY Characters
<1>2. s[p] # Backslash /\ s[p] # "/" /\ s[p] \notin Blank \cup {Newline}
  BY Specials, Symbols
<1>3. \/ a = 0 /\ \A i \in p + 1 .. Len(s) : ~ Closing(s, i)
      \/ /\ a \in p + 2 .. Len(s) + 1 /\ Closing(s, a - 1)
         /\ \A i \in p + 1 .. a - 2 : ~ Closing(s, i)
  <2> DEFINE r == p + 1
  <2>1. r \in 2 .. Len(s) + 1 /\ r + 1 = p + 2 /\ r - 1 = p
    BY <1>1
  <2> HIDE DEF r
  <2>2. ClosesFirst(s, r, StringEnd(s, r))
    BY <2>1, <1>2, StringEndFacts
  <2>3. a = StringEnd(s, r)
    BY DEF r
  <2> HIDE DEF a
  <2>4. \/ a = 0 /\ \A i \in r .. Len(s) : ~ Closing(s, i)
        \/ /\ a \in r + 1 .. Len(s) + 1 /\ Closing(s, a - 1)
           /\ \A i \in r .. a - 2 : ~ Closing(s, i)
    BY <2>2, <2>3 DEF ClosesFirst
  <2>5. QED
    BY <2>1, <2>4 DEF r
<1>4. GetToken(s, p, line)
        = IF a = 0 THEN Reading("error", <<>>, Len(s) + 1, line)
          ELSE Reading("string", SubSeq(s, p + 1, a - 2), a, line)
  BY <1>1, GetTokenQuote
<1> HIDE DEF a
<1>5. \A q \in p .. Len(s) :
        /\ Kind(s, p, q) = IF Dialect!IsString(SubSeq(s, p, q)) THEN "string" ELSE "error"
        /\ Dialect!IsString(SubSeq(s, p, q))
             <=> q >= p + 1 /\ \A i \in p + 1 .. q : Closing(s, i) <=> i = q
  <2>1. TAKE q \in p .. Len(s)
  <2>2. Kind(s, p, q) = IF Dialect!IsString(SubSeq(s, p, q)) THEN "string" ELSE "error"
    BY KindByFirst
  <2>3. Dialect!IsString(SubSeq(s, p, q))
          <=> q >= p + 1 /\ \A i \in p + 1 .. q : Closing(s, i) <=> i = q
    <3> DEFINE only == \A i \in p + 1 .. q : Closing(s, i) <=> i = q
    <3>1. Dialect!IsString(SubSeq(s, p, q)) <=> q >= p + 1 /\ s[p] = Quote /\ only
      BY StringAt
    <3> HIDE DEF only
    <3>2. Dialect!IsString(SubSeq(s, p, q)) <=> q >= p + 1 /\ only
      BY <3>1
    <3>3. QED
      BY <3>2 DEF only
  <2>4. QED
    BY <2>2, <2>3
<1>6. CASE a = 0
  <2>1. \A q \in p .. Len(s) : Kind(s, p, q) = "error"
    <3>1. TAKE q \in p .. Len(s)
    <3>2. q >= p + 1 => q \in p + 1 .. q /\ q \in p + 1 .. Len(s) /\ ~ Closing(s, q)
      BY <1>1, <1>3, <1>6
    <3>3. QED
      BY <3>2, <1>5
  <2>2. QED
    BY <2>1, <1>4, <1>6, AgreesOnError
<1>7. CASE a # 0
  <2>1. /\ e \in p + 1 .. Len(s) /\ e \in p .. Len(s) /\ a = e + 1 /\ e - 1 = a - 2
        /\ e >= p + 1 /\ e # 0
    BY <1>1, <1>3, <1>7
  <2>2. Closing(s, e) /\ \A i \in p + 1 .. e - 1 : ~ Closing(s, i)
    BY <2>1, <1>3, <1>7
  <2> HIDE DEF e
  <2>3. Kind(s, p, e) = "string"
    <3>1. \A i \in p + 1 .. e : i = e \/ i \in p + 1 .. e - 1
      BY <1>1, <2>1
    <3>2. \A i \in p + 1 .. e - 1 : i # e
      BY <1>1, <2>1
    <3>3. Dialect!IsString(SubSeq(s, p, e))
      BY <3>1, <3>2, <2>1, <2>2, <1>5
    <3>4. QED
      BY <3>3, <2>1, <1>5
  <2>4. \A q \in e + 1 .. Len(s) : Kind(s, p, q) = "error"
    <3>1. TAKE q \in e + 1 .. Len(s)
    <3>2. q \in p .. Len(s) /\ e \in p + 1 .. q /\ e # q
      BY <1>1, <2>1
    <3>3. QED
      BY <3>2, <2>2, <1>5
  <2>5. Dialect!LexemeEnd(s, p) = e
    BY <2>1, <2>3, <2>4, LexemeEndIs
  <2>6. ~ Dialect!IsError(s, p)
    BY <2>1, <2>5, <1>1, <1>2, SameAlphabet DEF Dialect!IsError
  <2>7. ~ Dialect!IsBlank(SubSeq(s, p, e))
    BY <2>1, <1>2, FirstCharacter
  <2>8. Tail(Dialect!Front(SubSeq(s, p, e))) = SubSeq(s, p + 1, a - 2)
    <3>1. Tail(Dialect!Front(SubSeq(s, p, e))) = SubSeq(s, p + 1, e - 1)
      BY <2>1, WithoutEnds
    <3>2. QED
      BY <3>1, <2>1
  <2> DEFINE text == SubSeq(s, p, e)
             lexeme == SubSeq(s, p + 1, a - 2)
             inner == Tail(Dialect!Front(text))
  <2>9. GetToken(s, p, line) = Reading("string", lexeme, e + 1, line)
    BY <2>1, <1>4, <1>7
  <2>10. inner = lexeme /\ ~ Dialect!IsBlank(text)
    BY <2>7, <2>8
  <2>11. Agrees(s, p, Reading("string", lexeme, e + 1, line), line)
           <=> Reading("string", lexeme, e + 1, line).token = Token("string", inner, line)
    <3> HIDE DEF lexeme
    <3>1. QED
      BY <2>1, <2>3, <2>5, <2>6, <2>7 DEF Agrees, Reading, Token
  <2> HIDE DEF lexeme, inner, text
  <2>12. Reading("string", lexeme, e + 1, line).token = Token("string", inner, line)
    BY <2>10 DEF Reading
  <2>13. QED
    BY <2>9, <2>11, <2>12
<1>8. QED
  BY <1>6, <1>7

(* Blanks, one at a time.                                                  *)
LEMMA BlankRun ==
  ASSUME NEW s \in Text, NoAdjacentEscapes(s), NEW p \in 1 .. Len(s),
         s[p] \in Blank \cup {Newline}, NEW end, end = Dialect!LexemeEnd(s, p)
  PROVE  /\ end \in p .. Len(s)
         /\ \A i \in p .. end : s[i] \in Blank \cup {Newline}
         /\ end < Len(s) => s[end + 1] \notin Blank \cup {Newline}
         /\ Kind(s, p, end) = "none"
         /\ Dialect!IsBlank(SubSeq(s, p, end))
         /\ ~ Dialect!IsError(s, p)
<1> DEFINE C == Blank \cup {Newline}
           a == Past(s, p, C)
           e == a - 1
<1>1. p \in Nat /\ Char(s, p) = s[p] /\ Len(s) \in Nat /\ p \in 1 .. Len(s) + 1
  BY Characters
<1>2. Nul \notin C /\ s[p] # "/"
  BY Specials, Symbols
<1>3. /\ a \in p .. Len(s) + 1
      /\ \A i \in p .. a - 1 : i \in 1 .. Len(s) /\ s[i] \in C
      /\ a <= Len(s) => s[a] \notin C
  <2> HIDE DEF C
  <2>1. QED
    BY <1>1, <1>2, PastFacts
<1> HIDE DEF a
<1>4. e \in p .. Len(s) /\ a = e + 1 /\ e # 0
  <2>1. a # p
    BY <1>1, <1>3
  <2>2. QED
    BY <2>1, <1>1, <1>3
<1>5. Dialect!IsBlank(SubSeq(s, p, e)) /\ Kind(s, p, e) = "none"
  <2>1. Dialect!IsBlank(SubSeq(s, p, e))
    BY <1>3, <1>4, BlankAt
  <2>2. QED
    BY <2>1, <1>4, KindByFirst
<1>6. \A q \in e + 1 .. Len(s) : Kind(s, p, q) = "error"
  <2>1. TAKE q \in e + 1 .. Len(s)
  <2>2. q \in p .. Len(s) /\ a \in p .. q /\ a <= Len(s)
    BY <1>1, <1>4
  <2>3. ~ Dialect!IsBlank(SubSeq(s, p, q))
    BY <2>2, <1>3, BlankAt
  <2>4. QED
    BY <2>2, <2>3, KindByFirst
<1> HIDE DEF e
<1>7. end = e
  BY <1>4, <1>5, <1>6, LexemeEndIs
<1>8. ~ Dialect!IsError(s, p)
  BY <1>1, <1>2, <1>4, <1>7, SameAlphabet DEF Dialect!IsError
<1>9. \A i \in p .. e : s[i] \in C
  BY <1>1, <1>3, <1>4
<1>10. e < Len(s) => s[e + 1] \notin C
  BY <1>1, <1>3, <1>4
<1>11. QED
  BY <1>4, <1>5, <1>7, <1>8, <1>9, <1>10

(* Every other first character.                                            *)
LEMMA ReadsLongest ==
  ASSUME NEW s \in Text, NoAdjacentEscapes(s), NEW p \in 1 .. Len(s), NEW line,
         s[p] \notin Blank \cup {Newline}
  PROVE  Agrees(s, p, GetToken(s, p, line), line)
<1> DEFINE two == <<s[p], Char(s, p + 1)>>
<1>1. two = <<"/", "/">> <=> s[p] = "/" /\ Char(s, p + 1) = "/"
  OBVIOUS
<1>2. two = <<"/", "*">> <=> s[p] = "/" /\ Char(s, p + 1) = "*"
  OBVIOUS
<1>3. CASE two = <<"/", "/">>
  BY <1>1, <1>3, AgreesOnLineComment
<1>4. CASE two = <<"/", "*">>
  BY <1>2, <1>4, AgreesOnBlockComment
<1>5. CASE two \in Doubles
  BY <1>5, AgreesOnDouble
<1>6. CASE two \notin Doubles \cup {<<"/", "/">>, <<"/", "*">>} /\ s[p] \in Singles
  BY <1>6, AgreesOnSingle
<1>7. CASE s[p] \in Letter
  BY <1>7, AgreesOnLetter
<1>8. CASE s[p] \in Digit
  BY <1>8, AgreesOnDigit
<1>9. CASE s[p] = Quote
  BY <1>9, AgreesOnQuote
<1>10. CASE s[p] \notin Singles \cup Letter \cup Digit \cup {Quote}
  BY <1>10, AgreesOnOther DEF IsOther
<1>11. QED
  BY <1>3, <1>4, <1>5, <1>6, <1>7, <1>8, <1>9, <1>10
-----------------------------------------------------------------------------
(* The tokens of a text, one read after the other.                         *)

Kinds ==
  {"keyword", "identifier", "number", "string", "symbol", "none", "error", "end"}
TokenSet == [kind : Kinds, lexeme : Seq(STRING), line : Int]

LexemeKind(s, p) == Kind(s, p, Dialect!LexemeEnd(s, p))

LexemeToken(s, p, line) ==
  LET text == SubSeq(s, p, Dialect!LexemeEnd(s, p))
      kind == LexemeKind(s, p)
  IN  Token(kind, IF kind = "string" THEN Tail(Dialect!Front(text)) ELSE text, line)

Newlines(s, p) ==
  LET end == Dialect!LexemeEnd(s, p)
  IN  IF Dialect!IsBlank(SubSeq(s, p, end))
        THEN Cardinality({i \in p .. end : s[i] = Newline}) ELSE 0

(* What Dialect!Lexemes says of the tokens from p on.                    *)
Unfold(from, s, p, line) ==
  LET rest == from[<<Dialect!LexemeEnd(s, p) + 1, line + Newlines(s, p)>>]
  IN  IF p > Len(s) THEN <<EndToken>>
      ELSE IF Dialect!IsError(s, p) THEN <<Token("error", <<>>, line)>>
      ELSE IF LexemeKind(s, p) = "none" THEN rest
      ELSE <<LexemeToken(s, p, line)>> \o rest

LEMMA LexemeEndRange ==
  ASSUME NEW s \in Text, NEW p \in 1 .. Len(s)
  PROVE  \/ Dialect!LexemeEnd(s, p) = 0 /\ Dialect!IsError(s, p)
         \/ /\ Dialect!LexemeEnd(s, p) \in p .. Len(s)
            /\ LexemeKind(s, p) # "error"
<1> DEFINE T == {0} \cup {q \in p .. Len(s) : Kind(s, p, q) # "error"}
<1>1. Dialect!LexemeEnd(s, p) = Max(T)
  BY SameAlphabet, Zenon DEF Dialect!LexemeEnd, Kind
<1>2. Len(s) \in Nat
  BY Characters
<1>3. T \subseteq 0 .. Len(s) /\ T # {}
  BY <1>2
<1>4. \A q \in T : q = 0 \/ (q \in p .. Len(s) /\ Kind(s, p, q) # "error")
  OBVIOUS
<1> HIDE DEF T
<1>5. Max(T) \in T
  BY <1>2, <1>3, MaxIsGreatest
<1>6. CASE Max(T) = 0
  BY <1>1, <1>6 DEF Dialect!IsError
<1>7. CASE Max(T) # 0
  BY <1>1, <1>4, <1>5, <1>7 DEF LexemeKind
<1>8. QED
  BY <1>6, <1>7

LEMMA SameCardinality == \A S : Dialect!Cardinality(S) = Cardinality(S)
  BY DEF Dialect!Cardinality, Cardinality

LEMMA NewlinesNat ==
  ASSUME NEW s \in Text, NEW p \in 1 .. Len(s), Dialect!LexemeEnd(s, p) \in p .. Len(s)
  PROVE  Newlines(s, p) \in Nat
<1> DEFINE end == Dialect!LexemeEnd(s, p)
           T == {i \in p .. end : s[i] = Newline}
<1>1. IsFiniteSet(p .. end)
  <2>1. p \in Int /\ end \in Int
    BY Characters
  <2> HIDE DEF end
  <2>2. QED
    BY <2>1, FS_Interval
<1>2. IsFiniteSet(T)
  <2>1. T \subseteq p .. end
    OBVIOUS
  <2> HIDE DEF T, end
  <2>2. QED
    BY <1>1, <2>1, FS_Subset
<1>3. Cardinality(T) \in Nat
  <2> HIDE DEF T
  <2>1. QED
    BY <1>2, FS_CardinalityType
<1>4. QED
  BY <1>3 DEF Newlines

LEMMA LexemeTokenIs ==
  ASSUME NEW s \in Text, NEW p \in 1 .. Len(s), Dialect!LexemeEnd(s, p) \in p .. Len(s),
         NEW line \in Int
  PROVE  LexemeToken(s, p, line) \in TokenSet
<1> DEFINE end  == Dialect!LexemeEnd(s, p)
           text == SubSeq(s, p, end)
           kind == LexemeKind(s, p)
           lexeme == IF kind = "string" THEN Tail(Dialect!Front(text)) ELSE text
<1>1. \A t \in Text : t \in Seq(STRING)
  BY DEF Text
<1>2. text \in Seq(STRING)
  BY PartOfText, <1>1
<1>3. kind \in Kinds
  BY DEF LexemeKind, Kind, Dialect!KindOf, Kinds
<1>4. lexeme \in Seq(STRING)
  <2>1. CASE kind # "string"
    BY <2>1, <1>2
  <2>2. CASE kind = "string"
    <3>1. Dialect!IsString(text)
      BY <2>2 DEF LexemeKind, Kind, Dialect!KindOf
    <3>2. Len(text) >= 2
      BY <3>1 DEF Dialect!IsString
    <3>3. Len(text) = end - p + 1
      BY PartOfText
    <3>4. end \in p + 1 .. Len(s)
      BY <3>2, <3>3, Characters
    <3>5. Tail(Dialect!Front(text)) = SubSeq(s, p + 1, end - 1)
      BY <3>4, WithoutEnds
    <3>6. SubSeq(s, p + 1, end - 1) \in Seq(STRING)
      <4> DEFINE a == p + 1
                 b == end - 1
      <4>1. a \in 1 .. Len(s) + 1 /\ b \in a - 1 .. Len(s)
        BY <3>4, Characters
      <4> HIDE DEF a, b
      <4>2. SubSeq(s, a, b) \in Seq(STRING)
        BY <4>1, <1>1, SubSeqProperties
      <4>3. QED
        BY <4>2 DEF a, b
    <3>7. QED
      BY <2>2, <3>5, <3>6
  <2>3. QED
    BY <2>1, <2>2
<1>5. LexemeToken(s, p, line) = [kind |-> kind, lexeme |-> lexeme, line |-> line]
  BY DEF LexemeToken, Token
<1> HIDE DEF kind, lexeme
<1>6. QED
  BY <1>3, <1>4, <1>5 DEF TokenSet
(* The definition of Lexemes is an equation with a solution.               *)
LEMMA LexemesStep ==
  ASSUME NEW s \in Text
  PROVE  \E from :
           /\ Dialect!Lexemes(s) = from[<<1, 1>>]
           /\ \A p \in 1 .. Len(s) + 1, line \in Nat : from[<<p, line>>] = Unfold(from, s, p, line)
<1> DEFINE D == (1 .. Len(s) + 1) \X Nat
           T == Seq(TokenSet)
           EndAt(p) == Dialect!LexemeEnd(s, p)
           stops == {x \in D : x[1] > Len(s) \/ Dialect!IsError(s, x[1])}
           base == [x \in D |-> IF x[1] > Len(s) THEN <<EndToken>>
                                ELSE <<Token("error", <<>>, x[2])>>]
           J == [x \in D \ stops |-> <<EndAt(x[1]) + 1, x[2] + Newlines(s, x[1])>>]
           C == [z \in D \X T |->
                   IF LexemeKind(s, z[1][1]) = "none" \/ z[1] \in stops THEN z[2]
                   ELSE <<LexemeToken(s, z[1][1], z[1][2])>> \o z[2]]
           rank == [x \in D |-> Len(s) + 1 - x[1]]
<1>1. Len(s) \in Nat /\ Len(s) + 2 \in Nat
  BY Characters
<1>2. \A x \in D : x[1] \in 1 .. Len(s) + 1 /\ x[2] \in Nat /\ x = <<x[1], x[2]>>
  OBVIOUS
<1>3. base \in [D -> T]
  <2>1. \A line \in Nat : Token("error", <<>>, line) \in TokenSet
    BY DEF Token, TokenSet, Kinds
  <2>2. EndToken \in TokenSet
    BY DEF Token, EndToken, TokenSet, Kinds
  <2>3. \A t \in TokenSet : <<t>> \in T
    OBVIOUS
  <2> HIDE DEF T, D
  <2>4. QED
    BY <2>1, <2>2, <2>3, <1>2
<1>4. \A x \in D \ stops :
        /\ x[1] \in 1 .. Len(s) /\ EndAt(x[1]) \in x[1] .. Len(s)
        /\ Newlines(s, x[1]) \in Nat
  <2>1. SUFFICES ASSUME NEW x \in D \ stops
                 PROVE  /\ x[1] \in 1 .. Len(s) /\ EndAt(x[1]) \in x[1] .. Len(s)
                        /\ Newlines(s, x[1]) \in Nat
    OBVIOUS
  <2> DEFINE p == x[1]
  <2>2. p \in 1 .. Len(s) /\ ~ Dialect!IsError(s, p)
    BY <1>1, <1>2
  <2> HIDE DEF p
  <2>3. EndAt(p) \in p .. Len(s)
    BY <2>2, LexemeEndRange
  <2>4. Newlines(s, p) \in Nat
    BY <2>2, <2>3, NewlinesNat
  <2>5. QED
    BY <2>2, <2>3, <2>4 DEF p
<1>5. \A x \in D \ stops : J[x] \in D /\ J[x][1] > x[1]
  <2>1. SUFFICES ASSUME NEW x \in D \ stops
                 PROVE  J[x] \in D /\ J[x][1] > x[1]
    OBVIOUS
  <2> DEFINE e == EndAt(x[1])
             n == Newlines(s, x[1])
  <2>2. J[x] = <<e + 1, x[2] + n>>
    OBVIOUS
  <2>3. e \in x[1] .. Len(s) /\ n \in Nat /\ x[1] \in 1 .. Len(s) + 1 /\ x[2] \in Nat
    BY <1>4, <1>2
  <2> HIDE DEF e, n, J, stops
  <2>4. e + 1 \in 1 .. Len(s) + 1 /\ x[2] + n \in Nat /\ e + 1 > x[1]
    BY <2>3, <1>1
  <2>5. QED
    BY <2>2, <2>4
<1>6. J \in [D \ stops -> D]
  <2> DEFINE E == D \ stops
             F(x) == <<EndAt(x[1]) + 1, x[2] + Newlines(s, x[1])>>
  <2>1. \A x \in E : F(x) \in D
    BY <1>5
  <2>2. J = [x \in E |-> F(x)]
    OBVIOUS
  <2> HIDE DEF E, F, D, J
  <2>3. J \in [E -> D]
    BY <2>1, <2>2
  <2>4. QED
    BY <2>3 DEF E
<1>7. C \in [D \X T -> T]
  <2> DEFINE G(z) == IF LexemeKind(s, z[1][1]) = "none" \/ z[1] \in stops THEN z[2]
                     ELSE <<LexemeToken(s, z[1][1], z[1][2])>> \o z[2]
  <2>1. ASSUME NEW z \in D \X T
        PROVE  G(z) \in T
    <3> DEFINE x == z[1]
               y == z[2]
    <3>1. x \in D /\ y \in T
      OBVIOUS
    <3>2. G(z) = IF LexemeKind(s, x[1]) = "none" \/ x \in stops THEN y
                 ELSE <<LexemeToken(s, x[1], x[2])>> \o y
      OBVIOUS
    <3> HIDE DEF G, x, y
    <3>3. CASE LexemeKind(s, x[1]) = "none" \/ x \in stops
      BY <3>1, <3>2, <3>3
    <3>4. CASE ~ (LexemeKind(s, x[1]) = "none" \/ x \in stops)
      <4>1. x[1] \in 1 .. Len(s) /\ EndAt(x[1]) \in x[1] .. Len(s) /\ x[2] \in Int
        <5>1. x \in D \ stops
          BY <3>1, <3>4
        <5> HIDE DEF stops, End
        <5>2. x[2] \in Nat
          BY <3>1, <1>2
        <5>3. QED
          BY <5>1, <5>2, <1>4
      <4>2. LexemeToken(s, x[1], x[2]) \in TokenSet
        <5> DEFINE p == x[1]
                   line == x[2]
        <5>1. p \in 1 .. Len(s) /\ Dialect!LexemeEnd(s, p) \in p .. Len(s) /\ line \in Int
          BY <4>1
        <5> HIDE DEF p, line
        <5>2. LexemeToken(s, p, line) \in TokenSet
          BY <5>1, LexemeTokenIs
        <5>3. QED
          BY <5>2 DEF p, line
      <4> DEFINE u == LexemeToken(s, x[1], x[2])
      <4>3. <<u>> \in T
        BY <4>2
      <4> HIDE DEF u
      <4>4. <<u>> \o y \in T
        BY <4>3, <3>1, ConcatProperties
      <4>5. QED
        BY <4>4, <3>2, <3>4 DEF u
    <3>5. QED
      BY <3>3, <3>4
  <2>2. C = [z \in D \X T |-> G(z)]
    OBVIOUS
  <2> HIDE DEF C, G, D, T
  <2>3. QED
    BY <2>1, <2>2
<1>8. rank \in [D -> Nat] /\ \A x \in D : rank[x] < Len(s) + 2
  <2>1. \A x \in D : Len(s) + 1 - x[1] \in Nat /\ Len(s) + 1 - x[1] < Len(s) + 2
    BY <1>1, <1>2
  <2> HIDE DEF D
  <2>2. QED
    BY <2>1
<1>9. \A x \in D \ stops : rank[J[x]] < rank[x]
  <2>1. TAKE x \in D \ stops
  <2>2. J[x] \in D /\ J[x][1] > x[1]
    BY <1>5
  <2>3. rank[J[x]] = Len(s) + 1 - J[x][1] /\ rank[x] = Len(s) + 1 - x[1]
    BY <2>2
  <2>4. J[x][1] \in Nat /\ x[1] \in Nat
    BY <1>2, <2>2
  <2> HIDE DEF J, rank, D, stops
  <2>5. QED
    BY <2>2, <2>3, <2>4, <1>1
<1>10. PICK f \in [D -> T] : Recurs(f, D, stops, base, J, C)
  <2> HIDE DEF D, T, stops, base, J, C, rank
  <2>1. QED
    BY <1>1, <1>3, <1>6, <1>7, <1>8, <1>9, Recursion
<1>11. ASSUME NEW x \in D
       PROVE  f[x] = Unfold(f, s, x[1], x[2])
  <2>1. x[1] \in 1 .. Len(s) + 1 /\ x[2] \in Nat /\ x = <<x[1], x[2]>>
    BY <1>2, <1>11
  <2>2. CASE x \in stops
    <3>1. f[x] = base[x]
      BY <2>2, <1>10, <1>11 DEF Recurs
    <3>2. base[x] = IF x[1] > Len(s) THEN <<EndToken>> ELSE <<Token("error", <<>>, x[2])>>
      BY <1>11
    <3>3. x[1] > Len(s) \/ Dialect!IsError(s, x[1])
      BY <2>2
    <3> HIDE DEF base, stops, D, T
    <3>4. QED
      BY <3>1, <3>2, <3>3 DEF Unfold
  <2>3. CASE x \notin stops
    <3>1. f[x] = C[<<x, f[J[x]]>>]
      BY <2>3, <1>10, <1>11 DEF Recurs
    <3>2. J[x] = <<EndAt(x[1]) + 1, x[2] + Newlines(s, x[1])>> /\ J[x] \in D
      <4>1. x \in D \ stops
        BY <2>3, <1>11
      <4>2. QED
        BY <4>1, <1>5
    <3>3. ~ (x[1] > Len(s)) /\ ~ Dialect!IsError(s, x[1])
      BY <2>3, <1>11
    <3> DEFINE y == f[J[x]]
    <3>4. y \in T
      <4> HIDE DEF J, D, T
      <4>1. QED
        BY <3>2, <1>10
    <3>5. C[<<x, y>>] = IF LexemeKind(s, x[1]) = "none" THEN y
                        ELSE <<LexemeToken(s, x[1], x[2])>> \o y
      <4> HIDE DEF T, y, stops, D
      <4>1. <<x, y>> \in D \X T /\ <<x, y>>[1] = x /\ <<x, y>>[2] = y
        BY <3>4, <1>11
      <4>2. QED
        BY <4>1, <2>3
    <3>6. y = f[<<EndAt(x[1]) + 1, x[2] + Newlines(s, x[1])>>]
      BY <3>2
    <3>7. f[x] = IF LexemeKind(s, x[1]) = "none" THEN y
                 ELSE <<LexemeToken(s, x[1], x[2])>> \o y
      BY <3>1, <3>5
    <3> HIDE DEF y, C, J, D, stops, T
    <3>8. QED
      BY <3>3, <3>6, <3>7 DEF Unfold
  <2>4. QED
    BY <2>2, <2>3
<1> DEFINE Body(g, at) ==
             LET p    == at[1]
                 line == at[2]
                 end  == Dialect!LexemeEnd(s, p)
                 text == SubSeq(s, p, end)
                 kind == Dialect!KindOf(text)
                 newlines == IF FALSE \/ Dialect!IsBlank(text)
                               THEN Dialect!Cardinality(
                                      {i \in p .. end : s[i] = Dialect!Newline})
                               ELSE 0
                 rest == g[<<end + 1, line + newlines>>]
             IN  IF p > Len(s) THEN <<Dialect!EndToken>>
                 ELSE IF Dialect!IsError(s, p)
                   THEN <<Dialect!Token("error", <<>>, line)>>
                 ELSE IF kind = "none" THEN rest
                 ELSE <<Dialect!Token(kind,
                          IF kind = "string" THEN Tail(Dialect!Front(text))
                                             ELSE text, line)>> \o rest
           Fits(g) == g = [at \in D |-> Body(g, at)]
           from == CHOOSE g : Fits(g)
<1>12. \A g, at : Body(g, at) = Unfold(g, s, at[1], at[2])
  <2>1. TAKE g, at
  <2> DEFINE p    == at[1]
             line == at[2]
             end  == Dialect!LexemeEnd(s, p)
             text == SubSeq(s, p, end)
             kind == Dialect!KindOf(text)
             number == IF FALSE \/ Dialect!IsBlank(text)
                         THEN Dialect!Cardinality(
                                {i \in p .. end : s[i] = Dialect!Newline})
                         ELSE 0
             rest == g[<<end + 1, line + number>>]
  <2>2. number = Newlines(s, p)
    <3>1. Dialect!Newline = Newline
      BY SameAlphabet
    <3>2. {i \in p .. end : s[i] = Dialect!Newline} = {i \in p .. end : s[i] = Newline}
      BY <3>1
    <3> HIDE DEF p
    <3>3. QED
      BY <3>2, SameCardinality DEF Newlines
  <2>3. /\ Dialect!EndToken = EndToken
        /\ Dialect!Token("error", <<>>, line) = Token("error", <<>>, line)
    BY SameAlphabet
  <2>4. Dialect!Token(kind, IF kind = "string" THEN Tail(Dialect!Front(text))
                                             ELSE text, line)
          = LexemeToken(s, p, line)
    <3> DEFINE lexeme == IF kind = "string" THEN Tail(Dialect!Front(text)) ELSE text
    <3>1. LexemeToken(s, p, line) = Token(kind, lexeme, line)
      BY DEF LexemeToken, LexemeKind, Kind
    <3> HIDE DEF lexeme, kind, text, line, p
    <3>2. Dialect!Token(kind, lexeme, line) = Token(kind, lexeme, line)
      BY SameAlphabet
    <3>3. QED
      BY <3>1, <3>2 DEF lexeme
  <2>5. kind = LexemeKind(s, p)
    BY DEF LexemeKind, Kind
  <2>6. Body(g, at)
          = IF p > Len(s) THEN <<Dialect!EndToken>>
            ELSE IF Dialect!IsError(s, p) THEN <<Dialect!Token("error", <<>>, line)>>
            ELSE IF kind = "none" THEN rest
            ELSE <<Dialect!Token(kind,
                     IF kind = "string" THEN Tail(Dialect!Front(text))
                                        ELSE text, line)>> \o rest
    OBVIOUS
  <2>7. rest = g[<<Dialect!LexemeEnd(s, p) + 1, line + Newlines(s, p)>>]
    BY <2>2
  <2>8. Unfold(g, s, at[1], at[2]) = Unfold(g, s, p, line)
    OBVIOUS
  <2> HIDE DEF Body, rest, kind, number, text, end, p, line
  <2>9. QED
    BY <2>3, <2>4, <2>5, <2>6, <2>7, <2>8 DEF Unfold
<1> HIDE DEF Body
<1>13. Fits(f)
  <2>1. f = [x \in D |-> f[x]]
    <3> HIDE DEF D, T
    <3>1. QED
      BY <1>10
  <2>2. f = [x \in D |-> Unfold(f, s, x[1], x[2])]
    <3> HIDE DEF D
    <3>1. QED
      BY <2>1, <1>11
  <2>3. QED
    BY <2>2, <1>12
<1> HIDE DEF Fits
<1>14. Fits(from)
  BY <1>13
<1>15. Dialect!Lexemes(s) = from[<<1, 1>>]
  BY Zenon DEF Dialect!Lexemes, from, Fits, Body
<1>16. \A p \in 1 .. Len(s) + 1, line \in Nat : from[<<p, line>>] = Unfold(from, s, p, line)
  <2> HIDE DEF from
  <2>0. from = [at \in D |-> Body(from, at)]
    BY <1>14 DEF Fits
  <2>1. from = [x \in D |-> Unfold(from, s, x[1], x[2])]
    BY <2>0, <1>12
  <2>2. TAKE p \in 1 .. Len(s) + 1, line \in Nat
  <2>3. <<p, line>> \in D /\ <<p, line>>[1] = p /\ <<p, line>>[2] = line
    OBVIOUS
  <2> HIDE DEF D
  <2>4. QED
    BY <2>1, <2>3
<1>17. QED
  BY <1>15, <1>16
(* The newlines of a run of blanks, one character at a time.               *)
LEMMA NewlinesStep ==
  ASSUME NEW s \in Text, NoAdjacentEscapes(s), NEW p \in 1 .. Len(s),
         s[p] \in Blank \cup {Newline}, NEW e, e = Dialect!LexemeEnd(s, p),
         NEW n, n = IF s[p] = Newline THEN 1 ELSE 0
  PROVE  IF e = p THEN Newlines(s, p) = n
         ELSE /\ p + 1 \in 1 .. Len(s) /\ s[p + 1] \in Blank \cup {Newline}
              /\ Dialect!LexemeEnd(s, p + 1) = e
              /\ Newlines(s, p + 1) \in Nat
              /\ Newlines(s, p) = n + Newlines(s, p + 1)
<1> DEFINE C == Blank \cup {Newline}
           T(a) == {i \in a .. e : s[i] = Newline}
<1>1. /\ e \in p .. Len(s)
      /\ \A i \in p .. e : s[i] \in C
      /\ e < Len(s) => s[e + 1] \notin C
      /\ Dialect!IsBlank(SubSeq(s, p, e))
  BY BlankRun
<1>2. Len(s) \in Nat /\ p \in Nat /\ e \in Nat
  BY Characters, <1>1
<1>3. Newlines(s, p) = Cardinality(T(p))
  BY <1>1 DEF Newlines
<1>4. CASE e = p
  <2>1. p .. e = {p}
    BY <1>2, <1>4
  <2>2. T(p) = IF s[p] = Newline THEN {p} ELSE {}
    BY <2>1
  <2> HIDE DEF T
  <2>3. Cardinality({p}) = 1 /\ Cardinality({}) = 0
    BY FS_Singleton, FS_EmptySet
  <2>4. QED
    BY <1>3, <1>4, <2>2, <2>3
<1>5. CASE e # p
  <2> DEFINE r == p + 1
  <2>1. r \in 1 .. Len(s) /\ r \in p .. e /\ e \in r .. Len(s)
    BY <1>1, <1>2, <1>5
  <2>2. \A i \in p .. e : i = p \/ i \in r .. e
    BY <1>2
  <2>3. \A i \in r .. e : i \in p .. e /\ i # p
    BY <1>2
  <2> HIDE DEF r, C
  <2>4. s[r] \in Blank \cup {Newline}
    BY <1>1, <2>1 DEF C
  <2> DEFINE end == Dialect!LexemeEnd(s, r)
  <2>5. /\ end \in r .. Len(s)
        /\ \A i \in r .. end : s[i] \in C
        /\ end < Len(s) => s[end + 1] \notin C
        /\ Dialect!IsBlank(SubSeq(s, r, end))
    BY <2>1, <2>4, BlankRun DEF C
  <2> HIDE DEF end
  <2>6. end = e
    <3>1. ~ (end < e)
      <4>1. end < e => end + 1 \in p .. e /\ end < Len(s)
        BY <1>1, <1>2, <2>1, <2>5
      <4>2. QED
        BY <4>1, <1>1, <2>5
    <3>2. ~ (e < end)
      <4>1. e < end => e + 1 \in r .. end /\ e < Len(s)
        BY <1>1, <1>2, <2>1, <2>5
      <4>2. QED
        BY <4>1, <1>1, <2>5
    <3>3. QED
      BY <3>1, <3>2, <2>5, <1>2, <2>1
  <2>7. Newlines(s, r) = Cardinality(T(r))
    BY <2>5, <2>6 DEF Newlines, end
  <2>8. T(p) = IF s[p] = Newline THEN T(r) \cup {p} ELSE T(r)
    <3>1. p \in p .. e
      BY <1>1, <1>2
    <3>2. QED
      BY <3>1, <2>2, <2>3
  <2>9. p \notin T(r) /\ IsFiniteSet(T(r))
    <3>1. IsFiniteSet(r .. e)
      <4>1. r \in Int /\ e \in Int
        BY <2>1, <1>2
      <4>2. QED
        BY <4>1, FS_Interval
    <3>2. T(r) \subseteq r .. e
      OBVIOUS
    <3>3. IsFiniteSet(T(r))
      <4> HIDE DEF T
      <4>1. QED
        BY <3>1, <3>2, FS_Subset
    <3>4. QED
      BY <3>3, <2>3
  <2> HIDE DEF T
  <2>10. Cardinality(T(r)) \in Nat /\ Cardinality(T(r) \cup {p}) = Cardinality(T(r)) + 1
    BY <2>9, FS_AddElement, FS_CardinalityType
  <2>11. Newlines(s, p) = n + Newlines(s, r) /\ Newlines(s, r) \in Nat
    BY <1>3, <2>7, <2>8, <2>10
  <2>12. Dialect!LexemeEnd(s, r) = e
    BY <2>6 DEF end
  <2>13. QED
    BY <1>5, <2>1, <2>4, <2>11, <2>12 DEF r
<1>6. QED
  BY <1>4, <1>5

Solves(from, s) ==
  \A p \in 1 .. Len(s) + 1, line \in Nat : from[<<p, line>>] = Unfold(from, s, p, line)

(* One call of getToken takes one token off the lexemes that are left, or  *)
(* none, or comes upon the error they end with.                            *)
LEMMA GetTokenStep ==
  ASSUME NEW s \in Text, NoAdjacentEscapes(s), NEW p \in 1 .. Len(s), NEW line \in Nat,
         NEW from, Solves(from, s), NEW read, read = GetToken(s, p, line)
  PROVE  IF read.token.kind = "error"
           THEN from[<<p, line>>] = <<Token("error", <<>>, line)>>
           ELSE /\ read.at \in p + 1 .. Len(s) + 1 /\ read.line \in line .. line + 1
                /\ from[<<p, line>>]
                     = IF read.token.kind = "none" THEN from[<<read.at, read.line>>]
                       ELSE <<read.token>> \o from[<<read.at, read.line>>]
                /\ read.token.kind # "none" =>
                     read.token \in TokenSet /\ read.token.kind # "end"
<1> DEFINE e == Dialect!LexemeEnd(s, p)
<1>1. Len(s) \in Nat /\ p \in Nat /\ p \in 1 .. Len(s) + 1 /\ ~ (p > Len(s)) /\ Char(s, p) = s[p]
  BY Characters
<1>2. from[<<p, line>>] = Unfold(from, s, p, line)
  BY <1>1 DEF Solves
<1>3. CASE s[p] \in Blank \cup {Newline}
  <2> DEFINE n == IF s[p] = Newline THEN 1 ELSE 0
  <2>1. read.token.kind = "none" /\ read.at = p + 1 /\ read.line = line + n
    <3>1. CASE s[p] = Newline
      <4>1. read = [Reading("none", <<>>, p + 1, line) EXCEPT !.line = line + 1]
        BY <1>1, <3>1, GetTokenBlank
      <4>2. QED
        BY <4>1, <3>1 DEF Reading, Token
    <3>2. CASE s[p] # Newline
      <4>1. s[p] \in Blank
        BY <1>3, <3>2
      <4>2. read = Reading("none", <<>>, p + 1, line)
        BY <1>1, <4>1, GetTokenBlank
      <4>3. QED
        BY <4>2, <3>2 DEF Reading, Token
    <3>3. QED
      BY <3>1, <3>2
  <2>2. n \in 0 .. 1 /\ n = IF s[p] = Newline THEN 1 ELSE 0
    OBVIOUS
  <2>3. e \in p .. Len(s) /\ LexemeKind(s, p) = "none" /\ ~ Dialect!IsError(s, p)
    BY <1>3, BlankRun DEF LexemeKind
  <2>4. from[<<p, line>>] = from[<<e + 1, line + Newlines(s, p)>>]
    BY <1>1, <1>2, <2>3 DEF Unfold
  <2> HIDE DEF n, e
  <2>5. IF e = p THEN Newlines(s, p) = n
        ELSE /\ p + 1 \in 1 .. Len(s) /\ s[p + 1] \in Blank \cup {Newline}
             /\ Dialect!LexemeEnd(s, p + 1) = e
             /\ Newlines(s, p + 1) \in Nat
             /\ Newlines(s, p) = n + Newlines(s, p + 1)
    <3>1. e = Dialect!LexemeEnd(s, p)
      BY DEF e
    <3>2. QED
      BY <1>3, <2>2, <3>1, NewlinesStep
  <2>6. from[<<p, line>>] = from[<<p + 1, line + n>>]
    <3>1. CASE e = p
      BY <2>4, <2>5, <3>1
    <3>2. CASE e # p
      <4> DEFINE r == p + 1
                 below == line + n
      <4>1. /\ r \in 1 .. Len(s) /\ s[r] \in Blank \cup {Newline}
            /\ Dialect!LexemeEnd(s, r) = e
            /\ Newlines(s, r) \in Nat
            /\ Newlines(s, p) = n + Newlines(s, r)
        BY <2>5, <3>2
      <4>2. below \in Nat /\ below + Newlines(s, r) = line + Newlines(s, p)
        BY <2>2, <4>1
      <4> HIDE DEF r, below
      <4>3. r \in 1 .. Len(s) + 1 /\ ~ (r > Len(s))
        BY <1>1, <4>1
      <4>4. from[<<r, below>>] = Unfold(from, s, r, below)
        BY <4>2, <4>3 DEF Solves
      <4>5. Kind(s, r, e) = "none" /\ ~ Dialect!IsError(s, r)
        BY <4>1, BlankRun
      <4>6. from[<<r, below>>] = from[<<e + 1, below + Newlines(s, r)>>]
        BY <4>1, <4>3, <4>4, <4>5 DEF Unfold, LexemeKind
      <4>7. QED
        BY <2>4, <4>2, <4>6 DEF r, below
    <3>3. QED
      BY <3>1, <3>2
  <2>7. p + 1 \in p + 1 .. Len(s) + 1 /\ line + n \in line .. line + 1
    BY <1>1, <2>2
  <2>8. QED
    BY <2>1, <2>6, <2>7
<1>4. CASE s[p] \notin Blank \cup {Newline}
  <2>1. Agrees(s, p, read, line)
    BY <1>4, ReadsLongest
  <2>2. CASE read.token.kind = "error"
    <3>1. Dialect!IsError(s, p)
      BY <2>1, <2>2 DEF Agrees
    <3>2. QED
      BY <1>1, <1>2, <2>2, <3>1 DEF Unfold
  <2>3. CASE read.token.kind # "error"
    <3>1. /\ ~ Dialect!IsError(s, p)
          /\ e \in p .. Len(s) /\ read.at = e + 1 /\ read.line = line
          /\ ~ Dialect!IsBlank(SubSeq(s, p, e))
          /\ read.token.kind = LexemeKind(s, p)
          /\ LexemeKind(s, p) # "none" => read.token = LexemeToken(s, p, line)
      BY <2>1, <2>3 DEF Agrees, LexemeKind, LexemeToken
    <3>2. Newlines(s, p) = 0
      BY <3>1 DEF Newlines
    <3>3. line + 0 = line /\ line \in Int /\ line \in line .. line + 1
      OBVIOUS
    <3> DEFINE rest == from[<<e + 1, line>>]
    <3>4. from[<<p, line>>] = IF LexemeKind(s, p) = "none" THEN rest
                              ELSE <<LexemeToken(s, p, line)>> \o rest
      BY <1>1, <1>2, <3>1, <3>2, <3>3 DEF Unfold
    <3>5. LexemeToken(s, p, line) \in TokenSet
      BY <3>1, <3>3, LexemeTokenIs
    <3>6. LexemeKind(s, p) # "end"
      BY DEF LexemeKind, Kind, Dialect!KindOf
    <3>7. e + 1 \in p + 1 .. Len(s) + 1
      BY <1>1, <3>1
    <3> HIDE DEF e
    <3>8. rest = from[<<read.at, read.line>>]
      BY <3>1
    <3> HIDE DEF rest
    <3>9. QED
      BY <2>3, <3>1, <3>3, <3>4, <3>5, <3>6, <3>7, <3>8
  <2>4. QED
    BY <2>2, <2>3
<1>5. QED
  BY <1>3, <1>4
-----------------------------------------------------------------------------
(* What getToken leaves behind, whatever the text.                         *)

(* A token that was read, or what stands for none or for an error.         *)
Within(s, p, line, read) ==
  /\ read.token \in TokenSet /\ read.token.kind # "end"
  /\ read.at \in p .. Len(s) + 1 /\ read.line \in Nat
  /\ read.line \in line .. line + (read.at - p)
  /\ read.token.kind # "error" => read.at # p

LEMMA WithinReading ==
  ASSUME NEW s \in Text, NEW p \in 1 .. Len(s) + 1, NEW line \in Nat,
         NEW kind \in Kinds \ {"end"}, NEW lexeme \in Seq(STRING),
         NEW at \in p .. Len(s) + 1, kind = "error" \/ at # p
  PROVE  Within(s, p, line, Reading(kind, lexeme, at, line))
<1>1. Len(s) \in Nat
  BY Characters
<1>2. Token(kind, lexeme, line) \in TokenSet
  BY DEF Token, TokenSet
<1>3. line \in line .. line + (at - p)
  BY <1>1
<1>4. Token(kind, lexeme, line).kind = kind
  BY DEF Token
<1>5. kind # "end"
  OBVIOUS
<1>6. QED
  BY <1>2, <1>3, <1>4, <1>5 DEF Within, Reading

LEMMA PartIsText ==
  ASSUME NEW s \in Text, NEW p \in 1 .. Len(s) + 1, NEW q \in p - 1 .. Len(s)
  PROVE  SubSeq(s, p, q) \in Seq(STRING)
<1>1. s \in Seq(STRING)
  BY DEF Text
<1>2. QED
  BY <1>1, SubSeqProperties

LEMMA GetTokenWithin ==
  ASSUME NEW s \in Text, NEW p \in 1 .. Len(s) + 1, NEW line \in Nat
  PROVE  Within(s, p, line, GetToken(s, p, line))
<1> DEFINE c == Char(s, p)
           d == Char(s, p + 1)
           read == GetToken(s, p, line)
           Ok(kind, lexeme, at) ==
             /\ kind \in Kinds \ {"end"} /\ lexeme \in Seq(STRING)
             /\ at \in p .. Len(s) + 1 /\ (kind = "error" \/ at # p)
             /\ read = Reading(kind, lexeme, at, line)
<1>1. Len(s) \in Nat /\ p \in Nat
  BY Characters
<1>2. c # Nul => p \in 1 .. Len(s) /\ c = s[p]
  <2>1. CASE p \in 1 .. Len(s)
    BY <2>1, Characters
  <2>2. CASE p = Len(s) + 1
    BY <1>1, <2>2, Characters
  <2>3. QED
    BY <1>1, <2>1, <2>2
<1>3. /\ {"none", "error", "symbol", "string", "number", "keyword", "identifier"}
           \subseteq Kinds \ {"end"}
      /\ <<>> \in Seq(STRING)
  BY DEF Kinds
<1>4. ASSUME NEW kind, NEW lexeme, NEW at, Ok(kind, lexeme, at)
      PROVE  Within(s, p, line, read)
  BY <1>4, WithinReading
<1> HIDE DEF c, d, read
<1>5. c = Char(s, p) /\ d = Char(s, p + 1) /\ read = GetToken(s, p, line)
  BY DEF c, d, read
<1>6. ASSUME c = Newline
      PROVE  Within(s, p, line, read)
  <2>1. p \in 1 .. Len(s)
    BY <1>2, <1>6, Specials
  <2>2. read = [Reading("none", <<>>, p + 1, line) EXCEPT !.line = line + 1]
    <3>1. Char(s, p) = Newline
      BY <1>5, <1>6
    <3>2. GetToken(s, p, line) = [Reading("none", <<>>, p + 1, line) EXCEPT !.line = line + 1]
      BY <1>1, <3>1, GetTokenBlank
    <3>3. QED
      BY <3>2, <1>5
  <2>3. /\ read.token = Token("none", <<>>, line) /\ read.at = p + 1 /\ read.line = line + 1
    BY <2>2 DEF Reading
  <2>4. Token("none", <<>>, line) \in TokenSet /\ Token("none", <<>>, line).kind = "none"
    BY DEF TokenSet, Token, Kinds
  <2>5. p + 1 \in p .. Len(s) + 1 /\ line + 1 \in line .. line + (p + 1 - p) /\ p + 1 # p
        /\ line + 1 \in Nat
    BY <1>1, <2>1
  <2> HIDE DEF c
  <2>6. QED
    BY <2>3, <2>4, <2>5 DEF Within
<1>7. ASSUME c \in Blank
      PROVE  Within(s, p, line, read)
  <2>1. p + 1 \in p .. Len(s) + 1 /\ p + 1 # p
    BY <1>1, <1>2, <1>7, Specials
  <2>2. read = Reading("none", <<>>, p + 1, line)
    BY <1>1, <1>5, <1>7, GetTokenBlank
  <2>3. Ok("none", <<>>, p + 1)
    BY <2>1, <2>2, <1>3
  <2>4. QED
    BY <2>3, <1>4
<1>8. ASSUME c = "/", d = "/"
      PROVE  Within(s, p, line, read)
  <2> DEFINE a == LineEnd(s, p)
  <2>1. p \in 1 .. Len(s) /\ s[p] = "/" /\ "/" # Newline
    BY <1>2, <1>8, Symbols, Specials
  <2>2. /\ a \in p .. Len(s) + 1
        /\ a <= Len(s) => s[a] = Newline
    BY LineEndFacts
  <2>3. a # p
    BY <1>1, <2>1, <2>2
  <2>4. read = Reading("none", <<>>, a, line)
    <3>1. Char(s, p) = "/" /\ Char(s, p + 1) = "/"
      BY <1>5, <1>8
    <3>2. GetToken(s, p, line) = Reading("none", <<>>, LineEnd(s, p), line)
      BY <1>1, <3>1, GetTokenSlash
    <3>3. QED
      BY <3>2, <1>5
  <2> HIDE DEF a
  <2>5. Ok("none", <<>>, a)
    BY <2>2, <2>3, <2>4, <1>3
  <2>6. QED
    BY <2>5, <1>4
<1>9. ASSUME c = "/", d = "*"
      PROVE  Within(s, p, line, read)
  <2> DEFINE a == CommentEnd(s, p + 2)
             end == Len(s) + 1
  <2>1. p \in 1 .. Len(s) /\ "*" # Nul
    <3>1. "*" \in Singles
      BY Zenon DEF Singles
    <3>2. QED
      BY <3>1, <1>2, <1>8, <1>9, Symbols, Specials
  <2>2. p + 1 \in 1 .. Len(s)
    <3>1. ~ (p + 1 > Len(s))
      BY <1>1, <1>5, <1>9, <2>1, Characters
    <3>2. QED
      BY <3>1, <1>1
  <2>3. a = 0 \/ a \in p + 4 .. Len(s) + 1
    <3> DEFINE r == p + 2
    <3>1. r \in 1 .. Len(s) + 1 /\ r + 2 = p + 4
      BY <1>1, <2>2
    <3>2. a = CommentEnd(s, r)
      OBVIOUS
    <3> HIDE DEF r, a
    <3>3. a = 0 \/ a \in r + 2 .. Len(s) + 1
      BY <3>1, <3>2, CommentEndFacts
    <3>4. QED
      BY <3>1, <3>3
  <2>4. read = IF a = 0 THEN Reading("error", <<>>, end, line)
               ELSE Reading("none", <<>>, a, line)
    <3>1. Char(s, p) = "/" /\ Char(s, p + 1) = "*"
      BY <1>5, <1>9
    <3> HIDE DEF c, d
    <3>2. GetToken(s, p, line)
            = IF CommentEnd(s, p + 2) = 0 THEN Reading("error", <<>>, Len(s) + 1, line)
              ELSE Reading("none", <<>>, CommentEnd(s, p + 2), line)
      BY <1>1, <3>1, GetTokenSlash
    <3>3. QED
      BY <3>2, <1>5
  <2>5. end \in p .. Len(s) + 1
    BY <1>1
  <2> HIDE DEF a, end
  <2>6. CASE a = 0
    <3>1. Ok("error", <<>>, end)
      BY <2>4, <2>5, <2>6, <1>3
    <3>2. QED
      BY <3>1, <1>4
  <2>7. CASE a # 0
    <3>1. a \in p .. Len(s) + 1 /\ a # p
      BY <1>1, <2>3, <2>7
    <3>2. Ok("none", <<>>, a)
      BY <2>4, <2>7, <3>1, <1>3
    <3>3. QED
      BY <3>2, <1>4
  <2>8. QED
    BY <2>6, <2>7
<1>10. ASSUME <<c, d>> \in Doubles
       PROVE  Within(s, p, line, read)
  <2>1. p \in 1 .. Len(s) /\ d # Nul
    BY <1>2, <1>10, SecondOfDouble, Specials
  <2>2. p + 1 \in 1 .. Len(s)
    <3>1. ~ (p + 1 > Len(s))
      BY <1>1, <1>5, <2>1, Characters
    <3>2. QED
      BY <3>1, <1>1
  <2> DEFINE text == SubSeq(s, p, p + 1)
             a == p + 2
  <2>3. read = Reading("symbol", text, a, line)
    BY <1>1, <1>5, <1>10, GetTokenSymbol
  <2>4. text \in Seq(STRING)
    <3> DEFINE q == p + 1
    <3>1. q \in p - 1 .. Len(s)
      BY <1>1, <2>2
    <3> HIDE DEF q
    <3>2. SubSeq(s, p, q) \in Seq(STRING)
      BY <3>1, PartIsText
    <3>3. QED
      BY <3>2 DEF q
  <2>5. a \in p .. Len(s) + 1 /\ a # p
    BY <1>1, <2>2
  <2> HIDE DEF text, a
  <2>6. Ok("symbol", text, a)
    BY <2>3, <2>4, <2>5, <1>3
  <2>7. QED
    BY <2>6, <1>4
<1>11. ASSUME c \in Singles, <<c, d>> \notin Doubles \cup {<<"/", "/">>, <<"/", "*">>}
       PROVE  Within(s, p, line, read)
  <2>1. p \in 1 .. Len(s)
    BY <1>2, <1>11, Specials
  <2> DEFINE text == SubSeq(s, p, p)
             a == p + 1
  <2>2. read = Reading("symbol", text, a, line)
    BY <1>1, <1>5, <1>11, GetTokenSymbol
  <2>3. p \in p - 1 .. Len(s) /\ a \in p .. Len(s) + 1 /\ a # p
    BY <1>1, <2>1
  <2>4. text \in Seq(STRING)
    BY <2>3, PartIsText
  <2> HIDE DEF text, a
  <2>5. Ok("symbol", text, a)
    BY <2>2, <2>3, <2>4, <1>3
  <2>6. QED
    BY <2>5, <1>4
<1>12. ASSUME c = Quote
       PROVE  Within(s, p, line, read)
  <2> DEFINE a == StringEnd(s, p + 1)
             text == SubSeq(s, p + 1, a - 2)
             end == Len(s) + 1
  <2>1. p \in 1 .. Len(s)
    BY <1>2, <1>12, Specials
  <2>2. read = IF a = 0 THEN Reading("error", <<>>, end, line)
               ELSE Reading("string", text, a, line)
    <3>1. Char(s, p) = Quote
      BY <1>5, <1>12
    <3>2. a = StringEnd(s, p + 1)
      OBVIOUS
    <3> HIDE DEF a
    <3>3. GetToken(s, p, line)
            = IF a = 0 THEN Reading("error", <<>>, Len(s) + 1, line)
              ELSE Reading("string", SubSeq(s, p + 1, a - 2), a, line)
      BY <1>1, <3>1, <3>2, GetTokenQuote
    <3>4. QED
      BY <3>3, <1>5
  <2>3. end \in p .. Len(s) + 1
    BY <1>1
  <2>4. a = 0 \/ (a \in p + 2 .. Len(s) + 1 /\ text \in Seq(STRING))
    <3> DEFINE r == p + 1
               q == a - 2
    <3>1. r \in Nat \ {0} /\ r <= Len(s) + 1 /\ r + 1 = p + 2 /\ r - 1 = p
          /\ r \in 1 .. Len(s) + 1
      BY <1>1, <2>1
    <3>2. a = StringEnd(s, r) /\ text = SubSeq(s, r, q)
      OBVIOUS
    <3> HIDE DEF r, a, text
    <3>3. a = 0 \/ a \in r + 1 .. Len(s) + 1
      BY <3>1, <3>2, StringEndWithin
    <3>4. a = 0 \/ q \in r - 1 .. Len(s)
      BY <3>1, <3>3, <1>1
    <3> HIDE DEF q
    <3>5. a = 0 \/ SubSeq(s, r, q) \in Seq(STRING)
      BY <3>1, <3>4, PartIsText
    <3>6. QED
      BY <3>1, <3>2, <3>3, <3>5
  <2> HIDE DEF a, text, end
  <2>5. CASE a = 0
    <3>1. Ok("error", <<>>, end)
      BY <2>2, <2>3, <2>5, <1>3
    <3>2. QED
      BY <3>1, <1>4
  <2>6. CASE a # 0
    <3>1. a \in p .. Len(s) + 1 /\ a # p /\ text \in Seq(STRING)
      BY <1>1, <2>4, <2>6
    <3>2. Ok("string", text, a)
      BY <2>2, <2>6, <3>1, <1>3
    <3>3. QED
      BY <3>2, <1>4
  <2>7. QED
    BY <2>5, <2>6
<1>13. ASSUME NEW kind \in Kinds \ {"end"}, NEW a \in p + 1 .. Len(s) + 1,
              read = Reading(kind, SubSeq(s, p, a - 1), a, line)
       PROVE  Within(s, p, line, read)
  <2> DEFINE q == a - 1
             text == SubSeq(s, p, q)
  <2>1. q \in p - 1 .. Len(s) /\ a \in p .. Len(s) + 1 /\ a # p
    BY <1>1
  <2> HIDE DEF q
  <2>2. text \in Seq(STRING)
    BY <2>1, PartIsText
  <2>3. read = Reading(kind, text, a, line)
    BY <1>13 DEF q
  <2> HIDE DEF text
  <2>4. Ok(kind, text, a)
    BY <2>1, <2>2, <2>3
  <2>5. QED
    BY <2>4, <1>4
<1>14. ASSUME c \in Digit
       PROVE  Within(s, p, line, read)
  <2> DEFINE a == NumberEnd(s, p)
  <2>1. p \in 1 .. Len(s) /\ s[p] \in Digit
    BY <1>2, <1>14, Disjoint
  <2>2. a \in p + 1 .. Len(s) + 1
    BY <2>1, NumberEndFacts
  <2>3. read = Reading("number", SubSeq(s, p, a - 1), a, line)
    BY <1>1, <1>5, <1>14, GetTokenWord
  <2> HIDE DEF a
  <2>4. "number" \in Kinds \ {"end"}
    BY <1>3
  <2>5. QED
    BY <2>2, <2>3, <2>4, <1>13
<1>15. ASSUME c \in Letter
       PROVE  Within(s, p, line, read)
  <2> DEFINE C == Letter \cup Digit \cup {Underscore}
             a == NameEnd(s, p)
             kind == IF SubSeq(s, p, a - 1) \in Keyword THEN "keyword" ELSE "identifier"
  <2>1. p \in 1 .. Len(s) /\ s[p] \in C
    BY <1>2, <1>15, Disjoint
  <2>2. Nul \notin C
    <3>1. Nul \notin Letter \cup Digit
      BY Disjoint
    <3>2. Nul # Underscore
      BY Zenon DEF Nul, Underscore
    <3>3. QED
      BY <3>1, <3>2
  <2>3. a \in p .. Len(s) + 1 /\ (a <= Len(s) => s[a] \notin C)
    <3>1. a = Past(s, p, C)
      BY DEF NameEnd
    <3> HIDE DEF a, C
    <3>2. QED
      BY <3>1, <2>2, PastFacts
  <2>4. a \in p + 1 .. Len(s) + 1
    BY <1>1, <2>1, <2>3
  <2>5. read = Reading(kind, SubSeq(s, p, a - 1), a, line)
    BY <1>1, <1>5, <1>15, GetTokenWord
  <2>6. kind \in Kinds \ {"end"}
    BY <1>3
  <2> HIDE DEF a, kind
  <2>7. QED
    BY <2>4, <2>5, <2>6, <1>13
<1>16. ASSUME c \notin Blank \cup Singles \cup Letter \cup Digit \cup {Newline, Quote}
       PROVE  Within(s, p, line, read)
  <2>1. read = Reading("error", <<>>, p, line)
    BY <1>1, <1>5, <1>16, GetTokenOther
  <2>2. p \in p .. Len(s) + 1
    BY <1>1
  <2>3. Ok("error", <<>>, p)
    BY <2>1, <2>2, <1>3
  <2>4. QED
    BY <2>3, <1>4
<1>17. <<c, d>> \in {<<"/", "/">>, <<"/", "*">>} => c = "/" /\ (d = "/" \/ d = "*")
  OBVIOUS
<1>18. Within(s, p, line, read)
  BY <1>6, <1>7, <1>8, <1>9, <1>10, <1>11, <1>12, <1>14, <1>15, <1>16, <1>17
<1>19. QED
  BY <1>18 DEF read
-----------------------------------------------------------------------------
(* What advance() of the byone scanner asks for.                           *)

LEMMA WithinLater ==
  ASSUME NEW s \in Text, NEW p \in 1 .. Len(s) + 1, NEW line \in Nat,
         NEW first, Within(s, p, line, first), first.token.kind = "none",
         NEW later, Within(s, first.at, first.line, later)
  PROVE  Within(s, p, line, later)
<1>1. Len(s) \in Nat
  BY Characters
<1>2. /\ first.at \in p .. Len(s) + 1 /\ first.at # p
      /\ first.line \in Nat /\ first.line \in line .. line + (first.at - p)
  BY DEF Within
<1> DEFINE a == first.at
           b == first.line
           m == later.at
           n == later.line
<1>3. /\ later.token \in TokenSet /\ later.token.kind # "end"
      /\ m \in a .. Len(s) + 1 /\ n \in Nat /\ n \in b .. b + (m - a)
  BY DEF Within
<1>4. a \in p + 1 .. Len(s) + 1 /\ b \in Nat /\ b \in line .. line + (a - p)
  BY <1>1, <1>2
<1> HIDE DEF a, b, m, n
<1>5. m \in p .. Len(s) + 1 /\ m # p /\ n \in line .. line + (m - p)
  BY <1>1, <1>3, <1>4
<1>6. QED
  BY <1>3, <1>5 DEF Within, m, n

Readings(s) == {GetToken(s, x[1], x[2]) : x \in (1 .. Len(s) + 1) \X Nat}

(* What holds of each token that is read, and of each that follows one     *)
(* that is none, holds of what NextToken finds.                            *)
LEMMA NextTokenInduction ==
  ASSUME NEW reader, NEW s \in Text, s = reader.source,
         NEW p \in 1 .. Len(s) + 1, p = reader.at, NEW line \in Nat, line = reader.line,
         NEW S,
         \A a \in 1 .. Len(s) + 1, b \in Nat : \A first, later :
           /\ first = GetToken(s, a, b)
           /\ IF first.token.kind = "none" THEN <<first.at, first.line, later>> \in S
                                           ELSE later = first
           => <<a, b, later>> \in S
  PROVE  <<p, line, NextToken(reader)>> \in S
<1> DEFINE D == (1 .. Len(s) + 1) \X Nat
           R(x) == GetToken(s, x[1], x[2])
           T == {R(x) : x \in D}
           stops == {x \in D : R(x).token.kind # "none"}
           base == [x \in D |-> R(x)]
           J == [x \in D \ stops |-> <<R(x).at, R(x).line>>]
           C == [z \in D \X T |-> z[2]]
           rank == [x \in D |-> Len(s) + 1 - x[1]]
<1>1. Len(s) \in Nat /\ Len(s) + 2 \in Nat
  BY Characters
<1>2. \A x \in D : x[1] \in 1 .. Len(s) + 1 /\ x[2] \in Nat /\ x = <<x[1], x[2]>>
  OBVIOUS
<1>3. \A x \in D : Within(s, x[1], x[2], R(x))
  <2>1. TAKE x \in D
  <2> DEFINE a == x[1]
             b == x[2]
  <2>2. a \in 1 .. Len(s) + 1 /\ b \in Nat
    BY <1>2
  <2>3. R(x) = GetToken(s, a, b)
    OBVIOUS
  <2> HIDE DEF R, a, b
  <2>4. Within(s, a, b, R(x))
    BY <2>2, <2>3, GetTokenWithin
  <2>5. QED
    BY <2>4 DEF a, b
<1> HIDE DEF R
<1>4. base \in [D -> T] /\ C \in [D \X T -> T]
  <2> HIDE DEF D
  <2>1. QED
    OBVIOUS
<1>5. \A x \in D \ stops :
        /\ R(x).token.kind = "none"
        /\ J[x] = <<R(x).at, R(x).line>> /\ J[x] \in D /\ R(x).at > x[1]
  <2>1. TAKE x \in D \ stops
  <2>2. R(x).token.kind = "none"
    OBVIOUS
  <2>3. /\ R(x).at \in x[1] .. Len(s) + 1 /\ R(x).line \in Nat /\ R(x).at # x[1]
    BY <2>2, <1>3 DEF Within
  <2>4. J[x] = <<R(x).at, R(x).line>>
    OBVIOUS
  <2>5. x[1] \in 1 .. Len(s) + 1
    BY <1>2
  <2> HIDE DEF J, stops
  <2>6. R(x).at \in 1 .. Len(s) + 1 /\ R(x).at > x[1]
    BY <2>3, <2>5, <1>1
  <2>7. QED
    BY <2>2, <2>3, <2>4, <2>6
<1>6. J \in [D \ stops -> D]
  <2> DEFINE E == D \ stops
             F(x) == <<R(x).at, R(x).line>>
  <2>1. \A x \in E : F(x) \in D
    BY <1>5
  <2>2. J = [x \in E |-> F(x)]
    OBVIOUS
  <2> HIDE DEF E, F, D, J
  <2>3. J \in [E -> D]
    BY <2>1, <2>2
  <2>4. QED
    BY <2>3 DEF E
<1>7. rank \in [D -> Nat] /\ \A x \in D : rank[x] < Len(s) + 2
  <2>1. \A x \in D : Len(s) + 1 - x[1] \in Nat /\ Len(s) + 1 - x[1] < Len(s) + 2
    BY <1>1, <1>2
  <2> HIDE DEF D
  <2>2. QED
    BY <2>1
<1>8. \A x \in D \ stops : rank[J[x]] < rank[x]
  <2>1. TAKE x \in D \ stops
  <2>2. J[x] \in D /\ J[x][1] > x[1]
    BY <1>5
  <2>3. rank[J[x]] = Len(s) + 1 - J[x][1] /\ rank[x] = Len(s) + 1 - x[1]
    BY <2>2
  <2>4. J[x][1] \in Nat /\ x[1] \in Nat
    BY <1>2, <2>2
  <2> HIDE DEF J, rank, D, stops
  <2>5. QED
    BY <2>2, <2>3, <2>4, <1>1
<1>9. PICK f \in [D -> T] : Recurs(f, D, stops, base, J, C)
  <2> HIDE DEF D, T, stops, base, J, C, rank
  <2>1. QED
    BY <1>1, <1>4, <1>6, <1>7, <1>8, Recursion
<1> DEFINE Step(g, x) == IF R(x).token.kind = "none" THEN g[<<R(x).at, R(x).line>>] ELSE R(x)
           Fits(g) == g = [x \in D |-> Step(g, x)]
           next == CHOOSE g : Fits(g)
<1>10. ASSUME NEW x \in D
       PROVE  f[x] = Step(f, x)
  <2>1. CASE x \in stops
    <3>1. f[x] = base[x]
      BY <2>1, <1>9, <1>10 DEF Recurs
    <3>2. QED
      BY <2>1, <3>1, <1>10
  <2>2. CASE x \notin stops
    <3>1. f[x] = C[<<x, f[J[x]]>>]
      BY <2>2, <1>9, <1>10 DEF Recurs
    <3>2. R(x).token.kind = "none" /\ J[x] = <<R(x).at, R(x).line>> /\ J[x] \in D
      <4>1. x \in D \ stops
        BY <2>2, <1>10
      <4>2. QED
        BY <4>1, <1>5
    <3>3. f[J[x]] \in T
      <4> HIDE DEF J, D, T
      <4>1. QED
        BY <3>2, <1>9
    <3>4. f[x] = f[J[x]]
      <4> HIDE DEF T, J, stops, D
      <4>1. QED
        BY <3>1, <3>3, <1>10
    <3> HIDE DEF J, C, D, T, stops
    <3>5. QED
      BY <3>2, <3>4
  <2>3. QED
    BY <2>1, <2>2
<1>11. Fits(f)
  <2>1. f = [x \in D |-> f[x]]
    <3> HIDE DEF D, T
    <3>1. QED
      BY <1>9
  <2> HIDE DEF D, Step
  <2>2. QED
    BY <2>1, <1>10
<1>12. Fits(next)
  <2> HIDE DEF Fits
  <2>1. QED
    BY <1>11
<1>13. NextToken(reader) = next[<<p, line>>]
  BY Zenon DEF NextToken, next, Fits, Step, R
<1> HIDE DEF next
<1>14. \A x \in D : next[x] = Step(next, x)
  <2> HIDE DEF D, Step
  <2>1. QED
    BY <1>12
<1> DEFINE Good == {x \in D : <<x[1], x[2], next[x]>> \in S}
<1>15. \A x \in D : (\A y \in D : rank[y] < rank[x] => y \in Good) => x \in Good
  <2>1. SUFFICES ASSUME NEW x \in D, \A y \in D : rank[y] < rank[x] => y \in Good
                 PROVE  x \in Good
    OBVIOUS
  <2> DEFINE a == x[1]
             b == x[2]
             first == R(x)
             later == next[x]
             y == <<first.at, first.line>>
  <2>2. a \in 1 .. Len(s) + 1 /\ b \in Nat /\ first = GetToken(s, a, b)
    BY <1>2 DEF R
  <2>3. later = IF first.token.kind = "none" THEN next[y] ELSE first
    BY <1>14
  <2>4. CASE first.token.kind # "none"
    <3>1. later = first
      BY <2>3, <2>4
    <3> HIDE DEF a, b, first, later, y
    <3>2. <<a, b, later>> \in S
      BY <2>2, <2>4, <3>1
    <3>3. QED
      BY <3>2 DEF a, b, later
  <2>5. CASE first.token.kind = "none"
    <3>1. x \in D \ stops /\ later = next[y]
      BY <2>3, <2>5
    <3>2. y \in D /\ rank[y] < rank[x]
      <4>1. J[x] = y /\ J[x] \in D
        BY <3>1, <1>5
      <4>2. rank[J[x]] < rank[x]
        BY <3>1, <1>8
      <4> HIDE DEF J, y, D, rank
      <4>3. QED
        BY <4>1, <4>2
    <3>3. y \in Good
      BY <3>2, <2>1
    <3>4. <<first.at, first.line, later>> \in S
      <4>1. y[1] = first.at /\ y[2] = first.line
        OBVIOUS
      <4>2. <<y[1], y[2], next[y]>> \in S
        BY <3>3
      <4> HIDE DEF y, first, later, D
      <4>3. QED
        BY <3>1, <4>1, <4>2
    <3> HIDE DEF a, b, first, later, y, D
    <3>5. <<a, b, later>> \in S
      BY <2>2, <2>5, <3>4
    <3>6. QED
      BY <3>5 DEF a, b, later
  <2>6. QED
    BY <2>4, <2>5
<1>16. \A x \in D : x \in Good
  <2>1. rank \in [D -> Nat]
    BY <1>8, <1>7
  <2> HIDE DEF D, rank, Good
  <2>2. QED
    BY <2>1, <1>15, RankInduction
<1>17. <<p, line>> \in D /\ <<p, line>>[1] = p /\ <<p, line>>[2] = line
  OBVIOUS
<1> HIDE DEF D
<1>18. <<p, line, next[<<p, line>>]>> \in S
  BY <1>16, <1>17
<1>19. QED
  BY <1>13, <1>18

LEMMA NextTokenWithin ==
  ASSUME NEW reader, NEW s \in Text, s = reader.source,
         NEW p \in 1 .. Len(s) + 1, p = reader.at, NEW line \in Nat, line = reader.line
  PROVE  /\ Within(s, p, line, NextToken(reader))
         /\ NextToken(reader).token.kind # "none"
<1> DEFINE S == {z \in (1 .. Len(s) + 1) \X Nat \X Readings(s) :
                   Within(s, z[1], z[2], z[3]) /\ z[3].token.kind # "none"}
<1>1. \A a, b, c : <<a, b, c>> \in S <=>
        /\ a \in 1 .. Len(s) + 1 /\ b \in Nat /\ c \in Readings(s)
        /\ Within(s, a, b, c) /\ c.token.kind # "none"
  OBVIOUS
<1> HIDE DEF S
<1>2. ASSUME NEW a \in 1 .. Len(s) + 1, NEW b \in Nat, NEW first, NEW later,
             first = GetToken(s, a, b),
             IF first.token.kind = "none" THEN <<first.at, first.line, later>> \in S
                                          ELSE later = first
      PROVE  <<a, b, later>> \in S
  <2>1. Within(s, a, b, first)
    BY <1>2, GetTokenWithin
  <2>2. first \in Readings(s)
    <3>1. <<a, b>> \in (1 .. Len(s) + 1) \X Nat /\ <<a, b>>[1] = a /\ <<a, b>>[2] = b
      OBVIOUS
    <3>2. QED
      BY <3>1, <1>2 DEF Readings
  <2>3. CASE first.token.kind = "none"
    <3>1. /\ later \in Readings(s) /\ later.token.kind # "none"
          /\ Within(s, first.at, first.line, later)
      BY <1>1, <1>2, <2>3
    <3>2. Within(s, a, b, later)
      BY <2>1, <2>3, <3>1, WithinLater
    <3>3. QED
      BY <1>1, <3>1, <3>2
  <2>4. CASE first.token.kind # "none"
    BY <1>1, <1>2, <2>1, <2>2, <2>4
  <2>5. QED
    BY <2>3, <2>4
<1>3. <<p, line, NextToken(reader)>> \in S
  BY <1>2, NextTokenInduction
<1>4. QED
  BY <1>1, <1>3
-----------------------------------------------------------------------------
(* The tokens that are still to come.                                      *)

FromOf(s) == CHOOSE from : Solves(from, s) /\ Dialect!Lexemes(s) = from[<<1, 1>>]

ToCome(s, p, line) == FromOf(s)[<<p, line>>]

LEMMA FromOfSolves ==
  ASSUME NEW s \in Text
  PROVE  Solves(FromOf(s), s) /\ Dialect!Lexemes(s) = ToCome(s, 1, 1)
<1>1. \E from : Solves(from, s) /\ Dialect!Lexemes(s) = from[<<1, 1>>]
  BY LexemesStep DEF Solves
<1>2. QED
  BY <1>1 DEF FromOf, ToCome

LEMMA ToComeIsSequence ==
  ASSUME NEW s \in Text, NEW p \in 1 .. Len(s) + 1, NEW line \in Nat
  PROVE  ToCome(s, p, line) \in Seq(TokenSet)
<1> DEFINE D == (1 .. Len(s) + 1) \X Nat
           rank == [x \in D |-> Len(s) + 1 - x[1]]
           from == FromOf(s)
           S == {x \in D : from[x] \in Seq(TokenSet)}
<1>1. Len(s) \in Nat
  BY Characters
<1>2. \A x \in D : x[1] \in 1 .. Len(s) + 1 /\ x[2] \in Nat /\ x = <<x[1], x[2]>>
  OBVIOUS
<1>3. Solves(from, s)
  BY FromOfSolves
<1> HIDE DEF from
<1>4. \A t \in TokenSet : <<t>> \in Seq(TokenSet)
  OBVIOUS
<1>5. /\ EndToken \in TokenSet
      /\ \A n \in Nat : Token("error", <<>>, n) \in TokenSet
  BY DEF EndToken, Token, TokenSet, Kinds
<1>6. \A x \in D : (\A y \in D : rank[y] < rank[x] => y \in S) => x \in S
  <2>1. SUFFICES ASSUME NEW x \in D, \A y \in D : rank[y] < rank[x] => y \in S
                 PROVE  x \in S
    OBVIOUS
  <2> DEFINE a == x[1]
             b == x[2]
             e == Dialect!LexemeEnd(s, a)
             c == b + Newlines(s, a)
             y == <<e + 1, c>>
  <2>2. a \in 1 .. Len(s) + 1 /\ b \in Nat /\ x = <<a, b>>
    BY <1>2
  <2> HIDE DEF a, b
  <2>3. from[x] = Unfold(from, s, a, b)
    BY <2>2, <1>3 DEF Solves
  <2>4. CASE a > Len(s)
    BY <2>1, <2>3, <2>4, <1>4, <1>5 DEF Unfold
  <2>5. CASE a <= Len(s) /\ Dialect!IsError(s, a)
    <3>1. ~ (a > Len(s))
      BY <2>2, <2>5, <1>1
    <3>2. QED
      BY <2>1, <2>2, <2>3, <2>5, <3>1, <1>4, <1>5 DEF Unfold
  <2>6. CASE a <= Len(s) /\ ~ Dialect!IsError(s, a)
    <3>1. ~ (a > Len(s)) /\ a \in 1 .. Len(s) /\ b \in Int
      BY <2>2, <2>6, <1>1
    <3>2. e \in a .. Len(s)
      BY <3>1, <2>6, LexemeEndRange
    <3>3. Newlines(s, a) \in Nat
      BY <3>1, <3>2, NewlinesNat
    <3>4. LexemeToken(s, a, b) \in TokenSet
      BY <3>1, <3>2, LexemeTokenIs
    <3>5. c \in Nat
      BY <3>3, <2>2
    <3>6. from[x] = IF LexemeKind(s, a) = "none" THEN from[y]
                    ELSE <<LexemeToken(s, a, b)>> \o from[y]
      BY <3>1, <2>3, <2>6 DEF Unfold
    <3> HIDE DEF e, c
    <3>7. y \in D /\ y[1] = e + 1 /\ e + 1 > a
      BY <3>1, <3>2, <3>5, <1>1
    <3>8. rank[y] < rank[x]
      <4>1. rank[y] = Len(s) + 1 - y[1] /\ rank[x] = Len(s) + 1 - x[1] /\ x[1] = a
        BY <3>7, <2>1 DEF a
      <4> HIDE DEF rank, y, D
      <4>2. QED
        BY <4>1, <3>1, <3>2, <3>7, <1>1
    <3>9. from[y] \in Seq(TokenSet)
      BY <3>7, <3>8, <2>1
    <3> HIDE DEF y
    <3>10. from[x] \in Seq(TokenSet)
      <4> DEFINE u == LexemeToken(s, a, b)
                 v == from[y]
      <4>1. <<u>> \in Seq(TokenSet)
        BY <3>4, <1>4
      <4> HIDE DEF u, v
      <4>2. <<u>> \o v \in Seq(TokenSet)
        BY <4>1, <3>9, ConcatProperties DEF v
      <4>3. QED
        BY <4>2, <3>6, <3>9 DEF u, v
    <3>11. QED
      BY <3>10, <2>1
  <2>7. QED
    BY <2>4, <2>5, <2>6, <2>2, <1>1
<1>7. \A x \in D : x \in S
  <2>1. rank \in [D -> Nat]
    <3>1. \A x \in D : Len(s) + 1 - x[1] \in Nat
      BY <1>1, <1>2
    <3> HIDE DEF D
    <3>2. QED
      BY <3>1
  <2> HIDE DEF D, rank, S
  <2>2. QED
    BY <2>1, <1>6, RankInduction
<1>8. <<p, line>> \in D
  OBVIOUS
<1>9. QED
  BY <1>7, <1>8 DEF ToCome, from
-----------------------------------------------------------------------------
(* The scanners as the parser sees them.                                   *)

ScannerSet ==
  [kind : {"readall", "byone"}, source : Text, at : Nat, line : Nat,
   tokens : Seq(TokenSet), index : Nat]

NoEnds(tokens) == \A i \in 1 .. Len(tokens) : tokens[i].kind # "end"

Complete(tokens) ==
  /\ Len(tokens) >= 1 /\ tokens[Len(tokens)] = EndToken
  /\ \A i \in 1 .. Len(tokens) - 1 : tokens[i].kind # "end"

(* A scanner is within its source, and no more lines down than characters. *)
Placed(reader) ==
  /\ reader \in ScannerSet
  /\ reader.at \in 1 .. Len(reader.source) + 1 /\ reader.line \in 1 .. reader.at
  /\ reader.kind = "byone" => Len(reader.tokens) = 2 /\ reader.index = 1

(* It has a token to show.                                                 *)
Readable(reader) ==
  /\ Placed(reader)
  /\ reader.kind = "readall" =>
       Complete(reader.tokens) /\ reader.index \in 0 .. Len(reader.tokens) - 1

LEMMA ByOneAdvances ==
  ASSUME NEW reader, Placed(reader), reader.kind = "byone", NEW next, next = Advance(reader)
  PROVE  /\ Placed(next) /\ next.source = reader.source /\ next.kind = "byone"
         /\ reader.at <= next.at
         /\ IF EndOfSource(reader)
              THEN next = Shifted(reader, EndToken)
              ELSE /\ reader.at < next.at \/ Throws(reader)
                   /\ Throws(reader) \/ \E token \in TokenSet :
                        next.tokens = <<reader.tokens[2], token>> /\ token.kind # "end"
<1> DEFINE s == reader.source
           p == reader.at
           line == reader.line
           read == NextToken(reader)
<1>1. /\ reader \in ScannerSet /\ s \in Text /\ p \in 1 .. Len(s) + 1 /\ line \in 1 .. p
      /\ Len(reader.tokens) = 2 /\ reader.index = 1 /\ reader.tokens \in Seq(TokenSet)
  BY DEF Placed, ScannerSet
<1>2. Len(s) \in Nat /\ p \in Nat /\ line \in Nat
  BY <1>1, Characters
<1>3. reader.tokens[2] \in TokenSet
  BY <1>1
<1>4. EndToken \in TokenSet
  BY DEF EndToken, Token, TokenSet, Kinds
<1>5. Within(s, p, line, read) /\ read.token.kind # "none"
  BY <1>1, <1>2, NextTokenWithin
<1>6. \A token \in TokenSet : <<reader.tokens[2], token>> \in Seq(TokenSet)
  BY <1>3
<1>7. CASE EndOfSource(reader)
  <2>1. next = Shifted(reader, EndToken)
    BY <1>7 DEF Advance
  <2> DEFINE pair == <<reader.tokens[2], EndToken>>
  <2>2. next = [reader EXCEPT !.tokens = pair] /\ pair \in Seq(TokenSet) /\ Len(pair) = 2
    BY <2>1, <1>4, <1>6 DEF Shifted
  <2> HIDE DEF pair
  <2>3. /\ next \in ScannerSet /\ next.at = p /\ next.source = s /\ next.line = line
        /\ next.kind = "byone" /\ next.tokens = pair /\ next.index = 1
    BY <2>2, <1>1 DEF ScannerSet
  <2>4. Placed(next) /\ p <= next.at
    BY <2>2, <2>3, <1>1, <1>2 DEF Placed
  <2>5. QED
    BY <2>1, <2>3, <2>4, <1>7
<1>8. CASE ~ EndOfSource(reader)
  <2> DEFINE rest == MovedTo(reader, read)
             a == read.at
             b == read.line
  <2>1. next = IF Throws(reader) THEN rest ELSE Shifted(rest, read.token)
    BY <1>8 DEF Advance
  <2>2. rest = [reader EXCEPT !.at = a, !.line = b]
    BY DEF MovedTo
  <2>3. /\ a \in p .. Len(s) + 1 /\ b \in line .. line + (a - p) /\ b \in Nat
        /\ read.token \in TokenSet /\ read.token.kind # "end"
        /\ read.token.kind # "error" => a # p
    BY <1>5 DEF Within
  <2>4. Throws(reader) <=> read.token.kind = "error"
    BY <1>8 DEF Throws
  <2> HIDE DEF a, b, read, rest
  <2>5. a \in Nat /\ b \in 1 .. a /\ a \in 1 .. Len(s) + 1 /\ p <= a
        /\ (read.token.kind # "error" => p < a)
    BY <2>3, <1>1, <1>2
  <2>6. /\ rest \in ScannerSet /\ rest.at = a /\ rest.line = b /\ rest.source = s
        /\ rest.kind = "byone" /\ rest.tokens = reader.tokens /\ rest.index = 1
    BY <2>2, <2>3, <2>5, <1>1 DEF ScannerSet
  <2>7. CASE Throws(reader)
    <3>1. next = rest
      BY <2>1, <2>7
    <3>2. Placed(next)
      BY <3>1, <2>5, <2>6, <1>1 DEF Placed
    <3>3. QED
      BY <3>1, <3>2, <2>5, <2>6, <2>7, <1>8
  <2>8. CASE ~ Throws(reader)
    <3> DEFINE pair == <<reader.tokens[2], read.token>>
    <3>1. next = [rest EXCEPT !.tokens = pair]
      BY <2>1, <2>6, <2>8 DEF Shifted
    <3>2. pair \in Seq(TokenSet) /\ Len(pair) = 2
      BY <2>3, <1>6
    <3>3. pair = <<reader.tokens[2], read.token>>
      OBVIOUS
    <3> HIDE DEF pair
    <3>4. /\ next \in ScannerSet /\ next.at = a /\ next.line = b /\ next.source = s
          /\ next.kind = "byone" /\ next.tokens = pair /\ next.index = 1
      BY <3>1, <3>2, <2>6 DEF ScannerSet
    <3>5. Placed(next)
      BY <3>2, <3>4, <2>5 DEF Placed
    <3>6. \E token \in TokenSet : next.tokens = <<reader.tokens[2], token>> /\ token.kind # "end"
      BY <3>3, <3>4, <2>3
    <3>7. QED
      BY <3>4, <3>5, <3>6, <2>4, <2>5, <2>8, <1>8
  <2>9. QED
    BY <2>7, <2>8
<1>9. QED
  BY <1>7, <1>8

LEMMA ReadAllAdvances ==
  ASSUME NEW reader, Readable(reader), reader.kind = "readall", NEW next, next = Advance(reader)
  PROVE  /\ next = IF AtEnd(reader) THEN reader ELSE [reader EXCEPT !.index = @ + 1]
         /\ AtEnd(reader) <=> reader.index = Len(reader.tokens) - 1
         /\ Readable(next)
         /\ next.kind = "readall" /\ next.source = reader.source /\ next.tokens = reader.tokens
         /\ next.at = reader.at /\ next.line = reader.line
<1> DEFINE n == Len(reader.tokens)
           i == reader.index
<1>1. /\ reader \in ScannerSet /\ reader.tokens \in Seq(TokenSet) /\ n \in Nat
      /\ i \in 0 .. n - 1 /\ n >= 1 /\ reader.tokens[n] = EndToken
      /\ \A k \in 1 .. n - 1 : reader.tokens[k].kind # "end"
  BY DEF Readable, Placed, Complete, ScannerSet
<1>2. EndToken.kind = "end"
  BY DEF EndToken, Token
<1> HIDE DEF n, i
<1>3. AtEnd(reader) <=> reader.tokens[i + 1].kind = "end"
  BY DEF AtEnd, Current, i
<1>4. AtEnd(reader) <=> i = n - 1
  <2>1. i = n - 1 => i + 1 = n
    BY <1>1
  <2>2. i # n - 1 => i + 1 \in 1 .. n - 1
    BY <1>1
  <2>3. QED
    BY <2>1, <2>2, <1>1, <1>2, <1>3
<1>5. next = IF AtEnd(reader) THEN reader ELSE [reader EXCEPT !.index = i + 1]
  BY DEF Advance, i
<1>6. CASE AtEnd(reader)
  BY <1>4, <1>5, <1>6 DEF n, i
<1>7. CASE ~ AtEnd(reader)
  <2>1. i + 1 \in Nat /\ i + 1 \in 0 .. n - 1
    BY <1>1, <1>4, <1>7
  <2>2. /\ next \in ScannerSet /\ next.index = i + 1
        /\ next.kind = "readall" /\ next.source = reader.source /\ next.tokens = reader.tokens
        /\ next.at = reader.at /\ next.line = reader.line
    BY <2>1, <1>1, <1>5, <1>7 DEF ScannerSet
  <2>3. Readable(next)
    BY <2>1, <2>2 DEF Readable, Placed, n
  <2>4. QED
    BY <2>2, <2>3, <1>4, <1>5, <1>7 DEF n, i
<1>8. QED
  BY <1>6, <1>7

LEMMA AdvanceReadable ==
  ASSUME NEW reader, Readable(reader), NEW next, next = Advance(reader)
  PROVE  /\ Readable(next) /\ next.source = reader.source /\ next.kind = reader.kind
         /\ reader.kind = "readall" => next.tokens = reader.tokens
<1>1. reader.kind \in {"readall", "byone"} /\ Placed(reader)
  BY DEF Readable, Placed, ScannerSet
<1>2. CASE reader.kind = "readall"
  BY <1>2, ReadAllAdvances
<1>3. CASE reader.kind = "byone"
  BY <1>1, <1>3, ByOneAdvances DEF Readable
<1>4. QED
  BY <1>1, <1>2, <1>3
-----------------------------------------------------------------------------
(* What is true of the scanner at every step.                              *)

(* While the readall scanner reads: what it has and what is to come are    *)
(* the lexemes of the source.                                              *)
Unfinished ==
  /\ status = "scanning" /\ scanner.index = 0 /\ NoEnds(scanner.tokens)
  /\ Len(scanner.tokens) < scanner.at
  /\ ~ AdjacentEscapes =>
       Lexemes = scanner.tokens \o ToCome(Source, scanner.at, scanner.line)

(* After an error: they end in an error behind what it has.                *)
Rejected ==
  /\ status \in {"error", "undefined"} /\ scanner.index = 0 /\ NoEnds(scanner.tokens)
  /\ status = "undefined" => scanner.tokens = <<>>
  /\ ~ AdjacentEscapes =>
       \E line \in Nat : Lexemes = Append(scanner.tokens, Token("error", <<>>, line))

(* Otherwise it has them all.                                              *)
Finished ==
  /\ status # "scanning" /\ Complete(scanner.tokens)
  /\ scanner.index \in 0 .. Len(scanner.tokens) - 1
  /\ Len(scanner.tokens) <= Len(Source) + 1
  /\ ~ AdjacentEscapes => scanner.tokens = Lexemes
  /\ status = "undefined" => Len(scanner.tokens) = 1

Statuses ==
  {"scanning", "parsing", "synchronizing", "compiled", "error", "undefined", "crashed"}

ScannerInv ==
  /\ Placed(scanner)
  /\ status \in Statuses
  /\ status = "undefined" => IsReadAll
  /\ IsReadAll => Unfinished \/ Rejected \/ Finished

LEMMA ScannerInvInit == Init => ScannerInv
<1> SUFFICES ASSUME Init PROVE ScannerInv
  OBVIOUS
<1>1. PICK source \in Sources : scanner \in {ReadAll(source), ByOne(source)}
  BY DEF Init
<1>2. source \in Text /\ Len(source) \in Nat
  <2>1. source \in Text
    BY SourcesAssumption DEF Text
  <2>2. QED
    BY <2>1, Characters
<1>3. <<>> \in Seq(TokenSet) /\ <<EndToken, EndToken>> \in Seq(TokenSet)
  BY DEF EndToken, Token, TokenSet, Kinds
<1>4. Placed(scanner) /\ Source = source /\ scanner.at = 1 /\ scanner.line = 1
  <2>1. CASE scanner = ReadAll(source)
    BY <2>1, <1>2, <1>3 DEF ReadAll, Placed, ScannerSet, Source
  <2>2. CASE scanner = ByOne(source)
    BY <2>2, <1>2, <1>3 DEF ByOne, Placed, ScannerSet, Source
  <2>3. QED
    BY <1>1, <2>1, <2>2
<1>5. status = "scanning"
  BY DEF Init
<1>6. ASSUME IsReadAll
      PROVE  Unfinished
  <2>1. scanner = ReadAll(source)
    BY <1>1, <1>6 DEF IsReadAll, ByOne
  <2>2. scanner.index = 0 /\ scanner.tokens = <<>>
    BY <2>1 DEF ReadAll
  <2>3. Lexemes = ToCome(Source, 1, 1)
    BY <1>2, <1>4, FromOfSolves DEF Lexemes
  <2>4. ToCome(Source, 1, 1) \in Seq(TokenSet)
    <3>1. 1 \in 1 .. Len(source) + 1 /\ 1 \in Nat
      BY <1>2
    <3>2. QED
      BY <3>1, <1>2, <1>4, ToComeIsSequence
  <2>5. <<>> \o ToCome(Source, 1, 1) = ToCome(Source, 1, 1)
    BY <2>4, ConcatEmptySeq
  <2>6. QED
    BY <2>2, <2>3, <2>5, <1>4, <1>5 DEF Unfinished, NoEnds
<1>7. QED
  BY <1>4, <1>5, <1>6 DEF ScannerInv, Statuses

(* The steps of the parser leave the scanner alone or advance it.          *)
LEMMA ParseMoves ==
  ASSUME Parse
  PROVE  /\ status = "parsing"
         /\ scanner' = scanner \/ scanner' = Advance(scanner)
         /\ \/ status' \in {"parsing", "synchronizing"}
            \/ /\ scanner' = scanner /\ AtEnd(scanner)
               /\ status' = IF HasPrevious(scanner) THEN "compiled" ELSE "undefined"
<1>1. CASE Program
  BY <1>1 DEF Program, Doing, Continue, End
<1>2. CASE Emission
  BY <1>2 DEF Emission, Doing, Continue
<1>3. CASE Consumption
  BY <1>3 DEF Consumption, Doing, AdvanceThen, Continue, Fail
<1>4. CASE ParsePrecedence
  BY <1>4 DEF ParsePrecedence, Doing, Continue, Fail
<1>5. CASE Infix
  BY <1>5 DEF Infix, Doing, AdvanceThen, Continue, Fail
<1>6. CASE Variable
  BY <1>6 DEF Variable, Doing, AdvanceThen, Continue, Fail
<1>7. CASE UnaryOperator
  BY <1>7 DEF UnaryOperator, Doing, Continue
<1>8. CASE BinaryOperator
  BY <1>8 DEF BinaryOperator, Doing, Continue
<1>9. CASE Arguments
  BY <1>9 DEF Arguments, Doing, AdvanceThen, Continue, Fail
<1>10. CASE Comma
  BY <1>10 DEF Comma, Doing, AdvanceThen, Continue, Fail
<1>11. CASE Dot
  BY <1>11 DEF Dot, Doing, AdvanceThen, Continue, Fail
<1>12. CASE Property
  BY <1>12 DEF Property, Doing, AdvanceThen, Continue, Fail
<1>13. QED
  BY <1>1, <1>2, <1>3, <1>4, <1>5, <1>6, <1>7, <1>8, <1>9, <1>10, <1>11, <1>12 DEF Parse

(* In the parser the scanner has something to show.                        *)
LEMMA ParserReads ==
  ASSUME ScannerInv, status \in {"parsing", "synchronizing"}
  PROVE  Readable(scanner) /\ (IsReadAll => Finished)
<1>1. IsReadAll => Finished
  BY DEF ScannerInv, Unfinished, Rejected
<1>2. QED
  BY <1>1 DEF ScannerInv, Readable, Finished, IsReadAll

(* The scanner moves on as the parser asks it to.                          *)
LEMMA MovesOn ==
  ASSUME ScannerInv, status \in {"parsing", "synchronizing"},
         scanner' = scanner \/ scanner' = Advance(scanner),
         status' \in Statuses \ {"scanning"},
         status' = "undefined" => IsReadAll /\ Len(scanner.tokens) = 1
  PROVE  ScannerInv'
<1>1. Readable(scanner) /\ (IsReadAll => Finished)
  BY ParserReads
<1>2. /\ Readable(scanner') /\ scanner'.source = scanner.source
      /\ scanner'.kind = scanner.kind
      /\ scanner.kind = "readall" => scanner'.tokens = scanner.tokens
  BY <1>1, AdvanceReadable
<1>3. /\ (AdjacentEscapes' <=> AdjacentEscapes) /\ Lexemes' = Lexemes
      /\ (IsReadAll' <=> IsReadAll) /\ Source' = Source
  BY <1>2 DEF AdjacentEscapes, Lexemes, Source, IsReadAll
<1>4. ASSUME IsReadAll PROVE Finished'
  BY <1>1, <1>2, <1>3, <1>4 DEF Finished, Readable, IsReadAll
<1>5. QED
  BY <1>2, <1>3, <1>4 DEF ScannerInv, Readable
LEMMA SameText ==
  ASSUME ~ AdjacentEscapes
  PROVE  NoAdjacentEscapes(Source)
BY DEF AdjacentEscapes, NoAdjacentEscapes

LEMMA ScanKeeps ==
  ASSUME ScannerInv, Scan
  PROVE  ScannerInv'
<1> DEFINE s == scanner.source
           p == scanner.at
           line == scanner.line
           read == GetToken(s, p, line)
           tokens == scanner.tokens
<1>1. /\ scanner \in ScannerSet /\ s \in Text /\ p \in 1 .. Len(s) + 1 /\ line \in 1 .. p
      /\ tokens \in Seq(TokenSet) /\ scanner.index \in Nat
  BY DEF ScannerInv, Placed, ScannerSet
<1>2. /\ IsReadAll /\ status = "scanning" /\ ~ (p > Len(s)) /\ scanner.kind = "readall"
      /\ Source = s /\ Read(scanner) = read
  BY DEF Scan, IsReadAll, EndOfSource, Source, Read
<1>3. Len(s) \in Nat /\ p \in 1 .. Len(s) /\ line \in Nat
  BY <1>1, <1>2, Characters
<1>4. Unfinished
  BY <1>2 DEF ScannerInv, Rejected, Finished
<1>5. Within(s, p, line, read)
  BY <1>1, <1>3, GetTokenWithin
<1> DEFINE a == read.at
           b == read.line
           token == read.token
<1>6. /\ a \in p .. Len(s) + 1 /\ b \in line .. line + (a - p) /\ b \in Nat
      /\ token \in TokenSet /\ token.kind # "end" /\ (token.kind # "error" => a # p)
  BY <1>5 DEF Within
<1>7. ASSUME ~ AdjacentEscapes
      PROVE  /\ Lexemes = tokens \o ToCome(s, p, line)
             /\ IF token.kind = "error"
                  THEN ToCome(s, p, line) = <<Token("error", <<>>, line)>>
                  ELSE ToCome(s, p, line)
                         = IF token.kind = "none" THEN ToCome(s, a, b)
                           ELSE <<token>> \o ToCome(s, a, b)
  <2>1. NoAdjacentEscapes(s)
    BY <1>2, <1>7, SameText
  <2>2. Solves(FromOf(s), s)
    BY <1>1, FromOfSolves
  <2> DEFINE from == FromOf(s)
  <2>3. IF token.kind = "error"
          THEN from[<<p, line>>] = <<Token("error", <<>>, line)>>
          ELSE from[<<p, line>>] = IF token.kind = "none" THEN from[<<a, b>>]
                                   ELSE <<token>> \o from[<<a, b>>]
    <3> HIDE DEF from
    <3>1. Solves(from, s)
      BY <2>2 DEF from
    <3>2. QED
      BY <1>1, <1>3, <2>1, <3>1, GetTokenStep
  <2>4. Lexemes = tokens \o ToCome(s, p, line)
    BY <1>2, <1>4, <1>7 DEF Unfinished
  <2> HIDE DEF a, b, token
  <2>5. QED
    BY <2>3, <2>4 DEF ToCome
<1> HIDE DEF read, a, b, token
<1>8. a \in 1 .. Len(s) + 1 /\ b \in 1 .. a /\ a \in Nat
  BY <1>1, <1>3, <1>6
<1>9. CASE token.kind = "error"
  <2>1. /\ status' = IF tokens = <<>> THEN "undefined" ELSE "error"
        /\ scanner' = scanner
    BY <1>2, <1>9 DEF Scan, End, token
  <2>2. /\ (AdjacentEscapes' <=> AdjacentEscapes) /\ Lexemes' = Lexemes
        /\ IsReadAll'
    BY <2>1, <1>2 DEF AdjacentEscapes, Lexemes, Source, IsReadAll
  <2>3. ~ AdjacentEscapes => \E n \in Nat : Lexemes = Append(tokens, Token("error", <<>>, n))
    <3>1. SUFFICES ASSUME ~ AdjacentEscapes
                   PROVE  Lexemes = Append(tokens, Token("error", <<>>, line))
      BY <1>3
    <3>2. Token("error", <<>>, line) \in TokenSet
      BY <1>3 DEF Token, TokenSet, Kinds
    <3> DEFINE t == Token("error", <<>>, line)
    <3>3. Lexemes = tokens \o <<t>>
      BY <1>7, <1>9, <3>1
    <3> HIDE DEF t
    <3>4. tokens \o <<t>> = Append(tokens, t)
      BY <1>1, <3>2, AppendIsConcat DEF t
    <3>5. QED
      BY <3>3, <3>4 DEF t
  <2>4. Rejected'
    BY <2>1, <2>2, <2>3, <1>4 DEF Rejected, Unfinished
  <2>5. Placed(scanner')
    BY <2>1 DEF ScannerInv
  <2>6. status' \in Statuses
    BY <2>1 DEF Statuses
  <2>7. QED
    BY <2>2, <2>4, <2>5, <2>6 DEF ScannerInv
<1>10. CASE token.kind = "none"
  <2>1. scanner' = MovedTo(scanner, read) /\ status' = status
    BY <1>2, <1>10 DEF Scan, token
  <2>2. scanner' = [scanner EXCEPT !.at = a, !.line = b]
    BY <2>1 DEF MovedTo, a, b
  <2>3. /\ scanner' \in ScannerSet /\ scanner'.at = a /\ scanner'.line = b
        /\ scanner'.source = s /\ scanner'.kind = "readall" /\ scanner'.tokens = tokens
        /\ scanner'.index = scanner.index
    BY <2>2, <1>1, <1>2, <1>6, <1>8 DEF ScannerSet
  <2>4. Placed(scanner')
    BY <2>3, <1>8 DEF Placed
  <2>5. /\ (AdjacentEscapes' <=> AdjacentEscapes) /\ Lexemes' = Lexemes
        /\ IsReadAll' /\ Source' = s
    BY <2>3, <1>2 DEF AdjacentEscapes, Lexemes, Source, IsReadAll
  <2>6. ~ AdjacentEscapes => Lexemes = tokens \o ToCome(s, a, b)
    BY <1>7, <1>10
  <2>7. Unfinished'
    <3>1. Len(tokens) < a
      BY <1>1, <1>3, <1>4, <1>6 DEF Unfinished
    <3>2. QED
      BY <2>1, <2>3, <2>5, <2>6, <3>1, <1>4 DEF Unfinished
  <2>8. status' \in Statuses /\ status' # "undefined"
    BY <2>1, <1>2 DEF ScannerInv
  <2>9. QED
    BY <2>4, <2>7, <2>8 DEF ScannerInv
<1>11. CASE token.kind \notin {"error", "none"}
  <2> DEFINE longer == Append(tokens, token)
  <2>1. scanner' = [MovedTo(scanner, read) EXCEPT !.tokens = Append(@, token)]
        /\ status' = status
    BY <1>2, <1>11 DEF Scan, token
  <2>2. scanner' = [scanner EXCEPT !.at = a, !.line = b, !.tokens = longer]
    BY <2>1, <1>1 DEF MovedTo, a, b, ScannerSet
  <2>3. /\ longer \in Seq(TokenSet)
        /\ Len(longer) = Len(tokens) + 1 /\ longer[Len(tokens) + 1] = token
        /\ \A i \in 1 .. Len(tokens) : longer[i] = tokens[i]
    BY <1>1, <1>6, AppendProperties
  <2>4. NoEnds(longer)
    <3>1. NoEnds(tokens) /\ Len(tokens) \in Nat
      BY <1>1, <1>4 DEF Unfinished
    <3> HIDE DEF longer
    <3>2. \A i \in 1 .. Len(tokens) + 1 : i \in 1 .. Len(tokens) \/ i = Len(tokens) + 1
      BY <3>1
    <3>3. QED
      BY <2>3, <3>1, <3>2, <1>6 DEF NoEnds
  <2>5. ~ AdjacentEscapes => Lexemes = longer \o ToCome(s, a, b)
    <3>1. SUFFICES ASSUME ~ AdjacentEscapes PROVE Lexemes = longer \o ToCome(s, a, b)
      OBVIOUS
    <3> DEFINE later == ToCome(s, a, b)
    <3>2. later \in Seq(TokenSet)
      BY <1>1, <1>6, <1>8, ToComeIsSequence
    <3>3. Lexemes = tokens \o (<<token>> \o later)
      BY <1>7, <1>11, <3>1
    <3> HIDE DEF later
    <3>4. <<token>> \in Seq(TokenSet)
      BY <1>6
    <3>5. tokens \o (<<token>> \o later) = (tokens \o <<token>>) \o later
      <4> DEFINE one == <<token>>
      <4>1. tokens \in Seq(TokenSet) /\ one \in Seq(TokenSet) /\ later \in Seq(TokenSet)
        BY <1>1, <3>2, <3>4
      <4> HIDE DEF one, tokens
      <4>2. (tokens \o one) \o later = tokens \o (one \o later)
        BY <4>1, ConcatAssociative
      <4>3. QED
        BY <4>2 DEF one
    <3>6. tokens \o <<token>> = longer
      BY <1>1, <1>6, AppendIsConcat
    <3> HIDE DEF longer
    <3>7. QED
      BY <3>3, <3>5, <3>6 DEF later
  <2> HIDE DEF longer
  <2>6. /\ scanner' \in ScannerSet /\ scanner'.at = a /\ scanner'.line = b
        /\ scanner'.source = s /\ scanner'.kind = "readall" /\ scanner'.tokens = longer
        /\ scanner'.index = scanner.index
    BY <2>2, <2>3, <1>1, <1>2, <1>6, <1>8 DEF ScannerSet
  <2>7. Placed(scanner')
    BY <2>6, <1>8 DEF Placed
  <2>8. /\ (AdjacentEscapes' <=> AdjacentEscapes) /\ Lexemes' = Lexemes
        /\ IsReadAll' /\ Source' = s
    BY <2>6, <1>2 DEF AdjacentEscapes, Lexemes, Source, IsReadAll
  <2>9. Unfinished'
    <3>1. Len(longer) < a
      <4>1. Len(tokens) < p /\ Len(tokens) \in Nat /\ p < a
        BY <1>1, <1>3, <1>4, <1>6, <1>11 DEF Unfinished
      <4>2. QED
        BY <4>1, <2>3, <1>3, <1>8
    <3>2. QED
      BY <2>1, <2>4, <2>5, <2>6, <2>8, <3>1, <1>4 DEF Unfinished
  <2>10. status' \in Statuses /\ status' # "undefined"
    BY <2>1, <1>2 DEF ScannerInv
  <2>11. QED
    BY <2>7, <2>9, <2>10 DEF ScannerInv
<1>12. QED
  BY <1>9, <1>10, <1>11

LEMMA EndScanKeeps ==
  ASSUME ScannerInv, EndScan
  PROVE  ScannerInv'
<1> DEFINE s == scanner.source
           p == scanner.at
           line == scanner.line
           tokens == scanner.tokens
           longer == Append(tokens, EndToken)
<1>1. /\ scanner \in ScannerSet /\ s \in Text /\ p \in 1 .. Len(s) + 1 /\ line \in 1 .. p
      /\ tokens \in Seq(TokenSet) /\ scanner.index \in Nat
  BY DEF ScannerInv, Placed, ScannerSet
<1>2. /\ IsReadAll /\ status = "scanning" /\ p > Len(s) /\ scanner.kind = "readall"
      /\ Source = s /\ status' = "parsing"
      /\ scanner' = [scanner EXCEPT !.tokens = longer]
  BY DEF EndScan, IsReadAll, EndOfSource, Source
<1>3. Len(s) \in Nat /\ p \in Nat /\ line \in Nat /\ Len(tokens) \in Nat
  BY <1>1, Characters
<1>4. Unfinished
  BY <1>2 DEF ScannerInv, Rejected, Finished
<1>5. EndToken \in TokenSet
  BY DEF EndToken, Token, TokenSet, Kinds
<1>6. /\ longer \in Seq(TokenSet)
      /\ Len(longer) = Len(tokens) + 1 /\ longer[Len(tokens) + 1] = EndToken
      /\ \A i \in 1 .. Len(tokens) : longer[i] = tokens[i]
  BY <1>1, <1>5, AppendProperties
<1>7. ~ AdjacentEscapes => Lexemes = longer
  <2>1. SUFFICES ASSUME ~ AdjacentEscapes PROVE Lexemes = longer
    OBVIOUS
  <2>2. Lexemes = tokens \o ToCome(s, p, line)
    BY <1>2, <1>4, <2>1 DEF Unfinished
  <2>3. ToCome(s, p, line) = <<EndToken>>
    <3>1. Solves(FromOf(s), s)
      BY <1>1, FromOfSolves
    <3>2. FromOf(s)[<<p, line>>] = Unfold(FromOf(s), s, p, line)
      BY <1>1, <1>3, <3>1 DEF Solves
    <3>3. QED
      BY <3>2, <1>2 DEF Unfold, ToCome
  <2>4. tokens \o <<EndToken>> = longer
    BY <1>1, <1>5, AppendIsConcat
  <2>5. QED
    BY <2>2, <2>3, <2>4
<1> HIDE DEF longer
<1>8. /\ scanner' \in ScannerSet /\ scanner'.at = p /\ scanner'.line = line
      /\ scanner'.source = s /\ scanner'.kind = "readall" /\ scanner'.tokens = longer
      /\ scanner'.index = 0
  BY <1>1, <1>2, <1>4, <1>6 DEF ScannerSet, Unfinished
<1>9. Placed(scanner')
  BY <1>1, <1>8 DEF Placed
<1>10. /\ (AdjacentEscapes' <=> AdjacentEscapes) /\ Lexemes' = Lexemes
       /\ IsReadAll' /\ Source' = s
  BY <1>8, <1>2 DEF AdjacentEscapes, Lexemes, Source, IsReadAll
<1>11. Complete(longer)
  <2>1. Len(longer) >= 1 /\ longer[Len(longer)] = EndToken
    BY <1>3, <1>6
  <2>2. \A i \in 1 .. Len(longer) - 1 : i \in 1 .. Len(tokens)
    BY <1>3, <1>6
  <2>3. QED
    BY <2>1, <2>2, <1>4, <1>6 DEF Complete, Unfinished, NoEnds
<1>12. Finished'
  <2>1. 0 \in 0 .. Len(longer) - 1
    BY <1>3, <1>6
  <2>2. QED
    <3>1. Len(longer) <= Len(s) + 1
      BY <1>1, <1>3, <1>4, <1>6 DEF Unfinished
    <3>2. QED
      BY <2>1, <3>1, <1>2, <1>7, <1>8, <1>10, <1>11 DEF Finished
<1>13. QED
  BY <1>2, <1>9, <1>12 DEF ScannerInv, Statuses

LEMMA ScanFirstKeeps ==
  ASSUME ScannerInv, ScanFirst
  PROVE  ScannerInv'
<1>1. /\ scanner.kind = "byone" /\ scanner' = Advance(scanner)
      /\ status' \in {"error", "parsing"}
  BY DEF ScanFirst
<1>2. Placed(scanner') /\ scanner'.kind = "byone"
  BY <1>1, ByOneAdvances DEF ScannerInv
<1>3. ~ IsReadAll'
  BY <1>2 DEF IsReadAll
<1>4. QED
  BY <1>1, <1>2, <1>3 DEF ScannerInv, Statuses

LEMMA ScannerInvStep == ScannerInv /\ [Next]_vars => ScannerInv'
<1> SUFFICES ASSUME ScannerInv, [Next]_vars PROVE ScannerInv'
  OBVIOUS
<1>1. CASE Scan
  BY <1>1, ScanKeeps
<1>2. CASE EndScan
  BY <1>2, EndScanKeeps
<1>3. CASE ScanFirst
  BY <1>3, ScanFirstKeeps
<1>4. CASE Synchronize
  <2>1. /\ status = "synchronizing" /\ scanner' = Advance(scanner)
        /\ status' \in {"error", "synchronizing"}
    BY <1>4 DEF Synchronize
  <2>2. QED
    BY <2>1, MovesOn DEF Statuses
<1>5. CASE Parse
  <2>1. /\ status = "parsing"
        /\ scanner' = scanner \/ scanner' = Advance(scanner)
        /\ \/ status' \in {"parsing", "synchronizing"}
           \/ /\ scanner' = scanner /\ AtEnd(scanner)
              /\ status' = IF HasPrevious(scanner) THEN "compiled" ELSE "undefined"
    BY <1>5, ParseMoves
  <2>2. status' = "undefined" => IsReadAll /\ Len(scanner.tokens) = 1
    <3>1. SUFFICES ASSUME status' = "undefined"
                   PROVE  IsReadAll /\ Len(scanner.tokens) = 1
      OBVIOUS
    <3>2. AtEnd(scanner) /\ ~ HasPrevious(scanner)
      BY <2>1, <3>1
    <3>3. Readable(scanner)
      BY <2>1, ParserReads
    <3>4. scanner.index \in Nat /\ scanner.index = 0
      BY <3>2, <3>3 DEF HasPrevious, Readable, Placed, ScannerSet
    <3>5. scanner.kind = "readall"
      BY <3>3, <3>4 DEF Readable, Placed, ScannerSet
    <3>6. scanner.index = Len(scanner.tokens) - 1
      BY <3>2, <3>3, <3>5, ReadAllAdvances
    <3>7. Len(scanner.tokens) \in Nat
      BY <3>3 DEF Readable, Placed, ScannerSet
    <3> DEFINE n == Len(scanner.tokens)
    <3>8. n \in Nat /\ 0 = n - 1
      BY <3>4, <3>6, <3>7
    <3> HIDE DEF n
    <3>9. n = 1
      BY <3>8
    <3>10. QED
      BY <3>5, <3>9 DEF IsReadAll, n
  <2>3. status' \in Statuses \ {"scanning"}
    BY <2>1 DEF Statuses
  <2>4. QED
    BY <2>1, <2>2, <2>3, MovesOn
<1>6. CASE StackOverflow
  <2>1. status = "parsing" /\ scanner' = scanner /\ status' = "crashed"
    BY <1>6 DEF StackOverflow, End
  <2>2. QED
    BY <2>1, MovesOn DEF Statuses
<1>7. CASE UNCHANGED vars
  BY <1>7 DEF vars, ScannerInv, Placed, Unfinished, Rejected, Finished, AdjacentEscapes,
              Lexemes, Source, IsReadAll
<1>8. QED
  BY <1>1, <1>2, <1>3, <1>4, <1>5, <1>6, <1>7 DEF Next

(* At every step the scanner is within its source, and what it has of it   *)
(* is what the lexical grammar says.                                       *)
THEOREM ScannerInvariant == Spec => []ScannerInv
<1>1. Init => ScannerInv
  BY ScannerInvInit
<1>2. ScannerInv /\ [Next]_vars => ScannerInv'
  BY ScannerInvStep
<1>3. QED
  BY <1>1, <1>2, PTL DEF Spec
LEMMA FrontOfAppend ==
  ASSUME NEW S, NEW seq \in Seq(S), NEW x \in S
  PROVE  Front(Append(seq, x)) = seq /\ Last(Append(seq, x)) = x
<1> DEFINE longer == Append(seq, x)
           n == Len(seq)
<1>1. /\ longer \in Seq(S) /\ Len(longer) = n + 1 /\ n \in Nat
      /\ \A i \in 1 .. n : longer[i] = seq[i]
      /\ longer[n + 1] = x
  BY AppendProperties
<1>2. Front(longer) = SubSeq(longer, 1, Len(longer) - 1)
  BY DEF Front
<1> HIDE DEF longer, n
<1>3. Len(longer) - 1 = n /\ 1 \in 1 .. Len(longer) + 1 /\ n \in 1 - 1 .. Len(longer)
      /\ n - 1 + 1 = n
  BY <1>1
<1>4. /\ SubSeq(longer, 1, n) \in Seq(S) /\ Len(SubSeq(longer, 1, n)) = n - 1 + 1
      /\ \A i \in 1 .. n - 1 + 1 : SubSeq(longer, 1, n)[i] = longer[1 + i - 1]
  BY <1>1, <1>3, SubSeqProperties
<1> DEFINE front == SubSeq(longer, 1, n)
<1> HIDE DEF front
<1>5. Len(front) = Len(seq) /\ front \in Seq(S) /\ \A i \in 1 .. Len(seq) : front[i] = seq[i]
  <2>1. Len(front) = n /\ front \in Seq(S)
    BY <1>3, <1>4 DEF front
  <2>2. \A i \in 1 .. n : front[i] = seq[i]
    <3>1. TAKE i \in 1 .. n
    <3>2. 1 + i - 1 = i /\ i \in 1 .. n - 1 + 1
      BY <1>1, <1>3
    <3>3. front[i] = longer[1 + i - 1]
      BY <3>2, <1>4 DEF front
    <3>4. QED
      BY <3>2, <3>3, <1>1
  <2>3. QED
    BY <2>1, <2>2 DEF n
<1>6. front = seq
  BY <1>5, SeqEqual
<1>7. Front(longer) = seq
  BY <1>2, <1>3, <1>6 DEF front
<1>8. Last(longer) = x
  BY <1>1 DEF Last
<1>9. QED
  BY <1>7, <1>8 DEF longer

LEMMA RejectedTokens ==
  ASSUME ScannerInv, IsReadAll, Rejected, ~ AdjacentEscapes
  PROVE  scanner.tokens = Tokens /\ Last(Lexemes).kind = "error"
<1>1. PICK line \in Nat : Lexemes = Append(scanner.tokens, Token("error", <<>>, line))
  BY DEF Rejected
<1> DEFINE t == Token("error", <<>>, line)
<1>2. t \in TokenSet /\ t.kind = "error"
  BY DEF Token, TokenSet, Kinds
<1>3. scanner.tokens \in Seq(TokenSet) /\ Lexemes = Append(scanner.tokens, t)
  BY <1>1 DEF ScannerInv, Placed, ScannerSet
<1> HIDE DEF t
<1>4. Front(Lexemes) = scanner.tokens /\ Last(Lexemes) = t
  BY <1>2, <1>3, FrontOfAppend
<1>5. QED
  BY <1>2, <1>4 DEF Tokens

(* ReadAllScanner turns every text without two adjacent escapes into the   *)
(* tokens the grammar of the dialect says it is made of; where that has no *)
(* lexeme it stops, and nowhere else.                                      *)
THEOREM ScansAsSpecified == Spec => []ScannedAsSpecified
<1>1. ScannerInv => ScannedAsSpecified
  <2>1. SUFFICES ASSUME ScannerInv, Ended, IsReadAll, ~ AdjacentEscapes
                 PROVE  IF scanner.tokens # <<>> /\ Last(scanner.tokens) = EndToken
                          THEN scanner.tokens = Lexemes
                          ELSE scanner.tokens = Tokens /\ Last(Lexemes).kind = "error"
    BY DEF ScannedAsSpecified, AreScanned, Tokens
  <2>2. scanner.tokens \in Seq(TokenSet) /\ Len(scanner.tokens) \in Nat
    <3>1. scanner.tokens \in Seq(TokenSet)
      BY <2>1 DEF ScannerInv, Placed, ScannerSet
    <3>2. QED
      BY <3>1, LenProperties
  <2>3. CASE Rejected
    <3>1. scanner.tokens # <<>> => Last(scanner.tokens) # EndToken
      <4>1. SUFFICES ASSUME scanner.tokens # <<>> PROVE Last(scanner.tokens) # EndToken
        OBVIOUS
      <4>2. Len(scanner.tokens) \in 1 .. Len(scanner.tokens)
        BY <2>2, <4>1, EmptySeq
      <4>3. Last(scanner.tokens).kind # "end"
        BY <4>2, <2>3 DEF Rejected, NoEnds, Last
      <4>4. EndToken.kind = "end"
        BY DEF EndToken, Token
      <4>5. QED
        BY <4>3, <4>4
    <3>2. scanner.tokens = Tokens /\ Last(Lexemes).kind = "error"
      BY <2>1, <2>3, RejectedTokens
    <3>3. QED
      BY <3>1, <3>2
  <2>4. CASE Finished
    <3>1. Len(scanner.tokens) >= 1 /\ scanner.tokens[Len(scanner.tokens)] = EndToken
      BY <2>4 DEF Finished, Complete
    <3>2. scanner.tokens # <<>>
      BY <3>1
    <3>3. QED
      BY <2>1, <2>4, <3>1, <3>2 DEF Finished, Last
  <2>5. ~ Unfinished
    BY <2>1 DEF Ended, Unfinished
  <2>6. QED
    BY <2>1, <2>3, <2>4, <2>5 DEF ScannerInv
<1>2. QED
  BY <1>1, ScannerInvariant, PTL

-----------------------------------------------------------------------------
(* The beginning of a text, up to where a token ends, has the same tokens. *)

Beginning(s, n) == SubSeq(s, 1, n)

LEMMA BeginningOf ==
  ASSUME NEW s \in Text, NEW n \in 0 .. Len(s), NEW t, t = Beginning(s, n)
  PROVE  /\ t \in Text /\ Len(t) = n
         /\ \A i \in 1 .. n : t[i] = s[i]
         /\ \A i \in Nat \ {0} : Char(t, i) = IF i <= n THEN Char(s, i) ELSE Nul
         /\ NoAdjacentEscapes(s) => NoAdjacentEscapes(t)
         /\ \A p \in 1 .. n : \A q \in p - 1 .. n : SubSeq(t, p, q) = SubSeq(s, p, q)
<1>1. Len(s) \in Nat /\ 1 \in 1 .. Len(s) + 1 /\ n \in 1 - 1 .. Len(s) /\ n - 1 + 1 = n
  BY Characters
<1>2. t \in Text /\ Len(t) = n /\ \A i \in 1 .. n : t[i] = s[1 + i - 1]
  BY <1>1, SubSeqProperties DEF Text, Beginning
<1>3. \A i \in 1 .. n : t[i] = s[i]
  <2>1. TAKE i \in 1 .. n
  <2>2. 1 + i - 1 = i
    BY <1>1
  <2>3. QED
    BY <1>2, <2>2
<1>4. \A i \in Nat \ {0} : Char(t, i) = IF i <= n THEN Char(s, i) ELSE Nul
  <2>1. TAKE i \in Nat \ {0}
  <2>2. CASE i <= n
    <3>1. i \in 1 .. n /\ i <= Len(s)
      BY <1>1, <2>2
    <3>2. QED
      BY <3>1, <2>2, <1>2, <1>3 DEF Char
  <2>3. CASE ~ (i <= n)
    BY <2>3, <1>2 DEF Char
  <2>4. QED
    BY <2>2, <2>3
<1>5. NoAdjacentEscapes(s) => NoAdjacentEscapes(t)
  <2>1. \A i \in 1 .. n - 2 : i \in 1 .. Len(s) - 2 /\ i \in 1 .. n /\ i + 2 \in 1 .. n
    BY <1>1
  <2>2. QED
    BY <2>1, <1>2, <1>3 DEF NoAdjacentEscapes
<1>6. \A p \in 1 .. n : \A q \in p - 1 .. n : SubSeq(t, p, q) = SubSeq(s, p, q)
  <2>1. TAKE p \in 1 .. n
  <2>2. TAKE q \in p - 1 .. n
  <2>3. /\ p \in 1 .. Len(s) + 1 /\ q \in p - 1 .. Len(s)
        /\ p \in 1 .. Len(t) + 1 /\ q \in p - 1 .. Len(t)
    BY <1>1, <1>2
  <2> DEFINE a == SubSeq(t, p, q)
             b == SubSeq(s, p, q)
             m == q - p + 1
  <2>4. /\ a \in Text /\ Len(a) = m /\ \A i \in 1 .. m : a[i] = t[p + i - 1]
        /\ b \in Text /\ Len(b) = m /\ \A i \in 1 .. m : b[i] = s[p + i - 1]
    BY <1>2, <2>3, SubSeqProperties DEF Text
  <2>5. \A i \in 1 .. m : p + i - 1 \in 1 .. n
    BY <1>1
  <2> HIDE DEF a, b, m
  <2>6. \A i \in 1 .. Len(b) : a[i] = b[i]
    BY <2>4, <2>5, <1>3
  <2>7. a = b
    BY <2>4, <2>6, SeqEqual DEF Text
  <2>8. QED
    BY <2>7 DEF a, b
<1>7. QED
  BY <1>2, <1>3, <1>4, <1>5, <1>6

LEMMA PastOfBeginning ==
  ASSUME NEW s \in Text, NEW p \in 1 .. Len(s), NEW C, Nul \notin C,
         NEW q, q = Past(s, p, C), NEW n \in p .. Len(s), q <= n + 1,
         NEW t, t = Beginning(s, n)
  PROVE  Past(t, p, C) = q
<1>1. Len(s) \in Nat /\ n \in 0 .. Len(s) /\ p \in 1 .. Len(s) + 1
  BY Characters
<1>2. t \in Text /\ Len(t) = n /\ \A i \in 1 .. n : t[i] = s[i]
  BY <1>1, BeginningOf
<1>3. /\ q \in p .. Len(s) + 1
      /\ \A i \in p .. q - 1 : i \in 1 .. Len(s) /\ s[i] \in C
      /\ q <= Len(s) => s[q] \notin C
  BY <1>1, PastFacts
<1> DEFINE r == Past(t, p, C)
<1>4. p \in 1 .. Len(t) + 1
  BY <1>1, <1>2
<1>5. /\ r \in p .. n + 1
      /\ \A i \in p .. r - 1 : i \in 1 .. n /\ t[i] \in C
      /\ r <= n => t[r] \notin C
  <2>1. /\ r \in p .. Len(t) + 1
        /\ \A i \in p .. r - 1 : i \in 1 .. Len(t) /\ t[i] \in C
        /\ r <= Len(t) => t[r] \notin C
    BY <1>2, <1>4, PastFacts, Zenon
  <2>2. QED
    BY <2>1, <1>2
<1> HIDE DEF r
<1>6. ~ (r < q)
  <2>1. SUFFICES ASSUME r < q PROVE FALSE
    OBVIOUS
  <2>2. r \in p .. q - 1 /\ r <= n /\ r \in 1 .. n
    BY <2>1, <1>1, <1>3, <1>5
  <2>3. QED
    BY <2>2, <1>2, <1>3, <1>5
<1>7. ~ (q < r)
  <2>1. SUFFICES ASSUME q < r PROVE FALSE
    OBVIOUS
  <2>2. q \in p .. r - 1 /\ q <= Len(s) /\ q \in 1 .. n
    BY <2>1, <1>1, <1>3, <1>5
  <2>3. QED
    BY <2>2, <1>2, <1>3, <1>5
<1>8. r = q
  BY <1>1, <1>3, <1>5, <1>6, <1>7
<1>9. QED
  BY <1>8 DEF r

LEMMA LineEndOfBeginning ==
  ASSUME NEW s \in Text, NEW p \in 1 .. Len(s), NEW q, q = LineEnd(s, p),
         NEW n \in p .. Len(s), q <= n + 1, NEW t, t = Beginning(s, n)
  PROVE  LineEnd(t, p) = q
<1>1. Len(s) \in Nat /\ n \in 0 .. Len(s) /\ p \in 1 .. Len(s) + 1
  BY Characters
<1>2. t \in Text /\ Len(t) = n /\ \A i \in 1 .. n : t[i] = s[i]
  BY <1>1, BeginningOf
<1>3. /\ q \in p .. Len(s) + 1
      /\ \A i \in p .. q - 1 : s[i] # Newline
      /\ q <= Len(s) => s[q] = Newline
  BY <1>1, LineEndFacts
<1> DEFINE r == LineEnd(t, p)
<1>4. p \in 1 .. Len(t) + 1
  BY <1>1, <1>2
<1>5. /\ r \in p .. n + 1
      /\ \A i \in p .. r - 1 : t[i] # Newline
      /\ r <= n => t[r] = Newline
  BY <1>2, <1>4, LineEndFacts
<1> HIDE DEF r
<1>6. ~ (r < q)
  <2>1. SUFFICES ASSUME r < q PROVE FALSE
    OBVIOUS
  <2>2. r \in p .. q - 1 /\ r <= n /\ r \in 1 .. n
    BY <2>1, <1>1, <1>3, <1>5
  <2>3. QED
    BY <2>2, <1>2, <1>3, <1>5
<1>7. ~ (q < r)
  <2>1. SUFFICES ASSUME q < r PROVE FALSE
    OBVIOUS
  <2>2. q \in p .. r - 1 /\ q <= Len(s) /\ q \in 1 .. n
    BY <2>1, <1>1, <1>3, <1>5
  <2>3. QED
    BY <2>2, <1>2, <1>3, <1>5
<1>8. r = q
  BY <1>1, <1>3, <1>5, <1>6, <1>7
<1>9. QED
  BY <1>8 DEF r

LEMMA CommentEndOfBeginning ==
  ASSUME NEW s \in Text, NEW p \in 1 .. Len(s) + 1, NEW e, e = CommentEnd(s, p), e # 0,
         NEW n \in 0 .. Len(s), e <= n + 1, NEW t, t = Beginning(s, n)
  PROVE  CommentEnd(t, p) = e
<1>1. Len(s) \in Nat
  BY Characters
<1>2. t \in Text /\ Len(t) = n /\ \A i \in 1 .. n : t[i] = s[i]
  BY <1>1, BeginningOf
<1>3. /\ e \in p + 2 .. Len(s) + 1 /\ Closes(s, e - 2)
      /\ \A i \in p .. e - 3 : ~ Closes(s, i)
  BY CommentEndFacts
<1> DEFINE r == CommentEnd(t, p)
<1>4. p \in 1 .. Len(t) + 1
  BY <1>1, <1>2, <1>3
<1>5. \/ /\ r = 0
         /\ \A i \in p .. n - 1 : ~ Closes(t, i)
      \/ /\ r \in p + 2 .. n + 1 /\ Closes(t, r - 2)
         /\ \A i \in p .. r - 3 : ~ Closes(t, i)
  BY <1>2, <1>4, CommentEndFacts
<1> HIDE DEF r
<1>6. \A i \in p .. n - 1 : Closes(t, i) <=> Closes(s, i)
  <2>1. TAKE i \in p .. n - 1
  <2>2. i \in 1 .. n /\ i + 1 \in 1 .. n
    BY <1>1
  <2>3. QED
    BY <2>2, <1>2 DEF Closes
<1>7. e - 2 \in p .. n - 1
  BY <1>1, <1>3
<1>8. r # 0
  BY <1>3, <1>5, <1>6, <1>7
<1>9. r \in p + 2 .. n + 1 /\ r - 2 \in p .. n - 1
  BY <1>1, <1>5, <1>8
<1>10. ~ (r < e)
  <2>1. SUFFICES ASSUME r < e PROVE FALSE
    OBVIOUS
  <2>2. r - 2 \in p .. e - 3
    BY <2>1, <1>1, <1>3, <1>9
  <2>3. QED
    BY <2>2, <1>3, <1>5, <1>6, <1>8, <1>9
<1>11. ~ (e < r)
  <2>1. SUFFICES ASSUME e < r PROVE FALSE
    OBVIOUS
  <2>2. e - 2 \in p .. r - 3
    BY <2>1, <1>1, <1>3, <1>9
  <2>3. QED
    BY <2>2, <1>3, <1>5, <1>6, <1>7, <1>8
<1>12. r = e
  BY <1>1, <1>3, <1>9, <1>10, <1>11
<1>13. QED
  BY <1>12 DEF r

LEMMA StringEndOfBeginning ==
  ASSUME NEW s \in Text, NoAdjacentEscapes(s), NEW p \in 2 .. Len(s), s[p - 1] = Quote,
         NEW e, e = StringEnd(s, p), e # 0, NEW n \in p .. Len(s), e <= n + 1,
         NEW t, t = Beginning(s, n)
  PROVE  e - 1 \in p .. n /\ StringEnd(t, p) = e
<1>1. Len(s) \in Nat /\ n \in 0 .. Len(s) /\ p \in 2 .. Len(s) + 1 /\ p - 1 \in 1 .. n
  BY Characters
<1>2. /\ t \in Text /\ Len(t) = n /\ NoAdjacentEscapes(t)
      /\ \A i \in 1 .. n : t[i] = s[i]
  BY <1>1, BeginningOf
<1>3. s[p - 1] # Backslash /\ t[p - 1] # Backslash
  BY <1>1, <1>2, Specials
<1>4. /\ e \in p + 1 .. Len(s) + 1 /\ Closing(s, e - 1)
      /\ \A i \in p .. e - 2 : ~ Closing(s, i)
  BY <1>1, <1>3, StringEndFacts DEF ClosesFirst
<1> DEFINE r == StringEnd(t, p)
<1>5. p \in 2 .. Len(t) + 1
  BY <1>1, <1>2
<1>6. ClosesFirst(t, p, r)
  BY <1>2, <1>3, <1>5, StringEndFacts
<1> HIDE DEF r
<1>7. \A i \in p .. n : Closing(t, i) <=> Closing(s, i)
  <2>1. TAKE i \in p .. n
  <2>2. i \in 1 .. n /\ i - 1 \in 1 .. n /\ (i = p \/ i - 2 \in 1 .. n)
    BY <1>1
  <2>3. QED
    BY <2>2, <1>2, <1>3 DEF Closing
<1>8. e - 1 \in p .. n
  BY <1>1, <1>4
<1>9. r # 0
  BY <1>2, <1>4, <1>6, <1>7, <1>8 DEF ClosesFirst
<1>10. /\ r \in p + 1 .. n + 1 /\ Closing(t, r - 1)
       /\ \A i \in p .. r - 2 : ~ Closing(t, i)
  BY <1>2, <1>6, <1>9 DEF ClosesFirst
<1>11. ~ (r < e)
  <2>1. SUFFICES ASSUME r < e PROVE FALSE
    OBVIOUS
  <2>2. r - 1 \in p .. e - 2 /\ r - 1 \in p .. n
    BY <2>1, <1>1, <1>4, <1>10
  <2>3. QED
    BY <2>2, <1>4, <1>7, <1>10
<1>12. ~ (e < r)
  <2>1. SUFFICES ASSUME e < r PROVE FALSE
    OBVIOUS
  <2>2. e - 1 \in p .. r - 2
    BY <2>1, <1>1, <1>4, <1>10
  <2>3. QED
    BY <2>2, <1>4, <1>7, <1>8, <1>10
<1>13. r = e
  BY <1>1, <1>4, <1>10, <1>11, <1>12
<1>14. QED
  BY <1>8, <1>13 DEF r

LEMMA NumberEndOfBeginning ==
  ASSUME NEW s \in Text, NEW p \in 1 .. Len(s), s[p] \in Digit, NEW q, q = NumberEnd(s, p),
         NEW n \in p .. Len(s), q <= n + 1, NEW t, t = Beginning(s, n)
  PROVE  NumberEnd(t, p) = q
<1>1. /\ Len(s) \in Nat /\ n \in 0 .. Len(s) /\ p \in 1 .. Len(s) + 1 /\ Nul \notin Digit
      /\ p \in Nat /\ n \in Nat
  BY Characters, Disjoint
<1>2. /\ t \in Text /\ Len(t) = n
      /\ \A i \in Nat \ {0} : Char(t, i) = IF i <= n THEN Char(s, i) ELSE Nul
  BY <1>1, BeginningOf
<1> DEFINE r == Past(s, p, Digit)
           Dotted(x, i) == Char(x, i) = "." /\ Char(x, i + 1) \in Digit
<1>3. r \in p .. Len(s) + 1 /\ r \in Nat \ {0} /\ r + 1 \in Nat \ {0}
  <2>1. r \in p .. Len(s) + 1
    BY <1>1, PastFacts
  <2> HIDE DEF r
  <2>2. QED
    BY <2>1, <1>1
<1>4. r = Past(s, p, Digit)
  OBVIOUS
<1>5. q = IF Dotted(s, r) THEN Past(s, r + 1, Digit) ELSE r
  BY DEF NumberEnd
<1>6. NumberEnd(t, p) = IF Dotted(t, Past(t, p, Digit))
                          THEN Past(t, Past(t, p, Digit) + 1, Digit) ELSE Past(t, p, Digit)
  BY DEF NumberEnd
<1> HIDE DEF r
<1>7. CASE Dotted(s, r)
  <2> DEFINE k == r + 1
  <2>1. k \in 1 .. Len(s) /\ Char(s, k) \in Digit /\ s[k] \in Digit
    <3>1. ~ (k > Len(s))
      BY <1>1, <1>3, <1>7, Characters
    <3>2. k \in 1 .. Len(s)
      BY <3>1, <1>1, <1>3
    <3> HIDE DEF k
    <3>3. Char(s, k) \in Digit
      BY <1>7 DEF k
    <3>4. QED
      BY <3>2, <3>3, Characters
  <2>2. q = Past(s, k, Digit) /\ k = r + 1
    BY <1>5, <1>7
  <2> HIDE DEF k
  <2>3. k \in 1 .. Len(s) + 1
    BY <2>1, <1>1
  <2>4. q \in k .. Len(s) + 1 /\ (q <= Len(s) => s[q] \notin Digit)
    BY <2>2, <2>3, <1>1, PastFacts
  <2>5. q > k
    BY <2>1, <2>4, <1>1
  <2>6. n \in k .. Len(s) /\ r <= n /\ k <= n /\ r <= n + 1
    BY <2>2, <2>4, <2>5, <1>1, <1>3
  <2>7. Past(t, p, Digit) = r
    BY <2>6, <1>1, <1>4, PastOfBeginning
  <2>8. Past(t, k, Digit) = q
    BY <2>1, <2>2, <2>6, <1>1, PastOfBeginning
  <2>9. Dotted(t, r)
    BY <2>2, <2>6, <1>2, <1>3, <1>7
  <2> HIDE DEF Dotted
  <2>10. QED
    BY <2>2, <2>7, <2>8, <2>9, <1>6
<1>8. CASE ~ Dotted(s, r)
  <2>1. q = r
    BY <1>5, <1>8
  <2>2. Past(t, p, Digit) = r
    BY <2>1, <1>1, <1>4, PastOfBeginning
  <2>3. ~ Dotted(t, r)
    <3>1. "." # Nul
      <4>1. "." \in Singles
        BY Zenon DEF Singles
      <4>2. QED
        BY <4>1, Specials
    <3>2. QED
      BY <3>1, <1>1, <1>2, <1>3, <1>8
  <2> HIDE DEF Dotted
  <2>4. QED
    BY <2>1, <2>2, <2>3, <1>6
<1>9. QED
  BY <1>7, <1>8

(* Whether getToken reads the same of every beginning of the text that has *)
(* all of what it reads.  An error is at the end of the text, or where     *)
(* nothing can begin.                                                      *)
Stable(s, p, line, read) ==
  IF read.token.kind = "error"
    THEN read.at > Len(s) \/ (read.at = p /\ read.line = line)
    ELSE \A n \in read.at - 1 .. Len(s) : GetToken(Beginning(s, n), p, line) = read

LEMMA GetTokenStable ==
  ASSUME NEW s \in Text, NoAdjacentEscapes(s), NEW p \in 1 .. Len(s), NEW line \in Nat,
         NEW read, read = GetToken(s, p, line)
  PROVE  Stable(s, p, line, read)
<1> DEFINE c == Char(s, p)
           d == Char(s, p + 1)
           Same(n, t) == GetToken(t, p, line) = read
<1>1. Len(s) \in Nat /\ p \in Nat /\ p \in 1 .. Len(s) + 1 /\ c = s[p] /\ c # Nul
  BY Characters
<1>2. ASSUME NEW n \in p .. Len(s), NEW t, t = Beginning(s, n)
      PROVE  /\ t \in Text /\ Len(t) = n /\ n \in 0 .. Len(s) /\ p \in 1 .. n
             /\ Char(t, p) = c
             /\ Char(t, p + 1) = IF p + 1 <= n THEN d ELSE Nul
             /\ \A i \in 1 .. n : \A j \in i - 1 .. n : SubSeq(t, i, j) = SubSeq(s, i, j)
  <2>1. n \in 0 .. Len(s) /\ p \in Nat \ {0} /\ p + 1 \in Nat \ {0} /\ p <= n /\ p \in 1 .. n
    BY <1>1
  <2>2. /\ t \in Text /\ Len(t) = n
        /\ \A i \in Nat \ {0} : Char(t, i) = IF i <= n THEN Char(s, i) ELSE Nul
        /\ \A i \in 1 .. n : \A j \in i - 1 .. n : SubSeq(t, i, j) = SubSeq(s, i, j)
    BY <2>1, <1>2, BeginningOf
  <2>3. Char(t, p) = Char(s, p) /\ Char(t, p + 1) = IF p + 1 <= n THEN Char(s, p + 1) ELSE Nul
    BY <2>1, <2>2
  <2>4. QED
    BY <2>1, <2>2, <2>3
<1> HIDE DEF c, d
<1>3. ASSUME NEW a \in p + 1 .. Len(s) + 1, read.token.kind # "error", read.at = a,
             \A n \in a - 1 .. Len(s) : \A t : t = Beginning(s, n) => Same(n, t)
      PROVE  Stable(s, p, line, read)
  BY <1>3 DEF Stable
<1>4. ASSUME NEW a \in p + 1 .. Len(s) + 1, NEW n \in a - 1 .. Len(s)
      PROVE  n \in p .. Len(s) /\ a <= n + 1 /\ a \in p + 1 .. n + 1
  BY <1>1
<1>5. ASSUME NEW kind, NEW lexeme, NEW a, read = Reading(kind, lexeme, a, line)
      PROVE  read.token.kind = kind /\ read.at = a /\ read.line = line
  BY <1>5 DEF Reading, Token
<1>6. CASE c = Newline
  <2> DEFINE a == p + 1
  <2>1. read = [Reading("none", <<>>, a, line) EXCEPT !.line = line + 1]
    BY <1>1, <1>6, GetTokenBlank DEF c
  <2>2. a \in p + 1 .. Len(s) + 1
    BY <1>1
  <2>3. read.token.kind = "none" /\ read.at = a
    BY <2>1 DEF Reading, Token
  <2>4. ASSUME NEW n \in a - 1 .. Len(s), NEW t, t = Beginning(s, n)
        PROVE  Same(n, t)
    <3>1. Char(t, p) = Newline
      BY <2>2, <2>4, <1>2, <1>4, <1>6
    <3>2. GetToken(t, p, line) = [Reading("none", <<>>, p + 1, line) EXCEPT !.line = line + 1]
      BY <3>1, <1>1, GetTokenBlank
    <3>3. QED
      BY <3>2, <2>1
  <2> HIDE DEF a, Same
  <2>5. QED
    BY <2>2, <2>3, <2>4, <1>3
<1>7. CASE c \in Blank
  <2> DEFINE a == p + 1
  <2>1. read = Reading("none", <<>>, a, line)
    BY <1>1, <1>7, GetTokenBlank DEF c
  <2>2. a \in p + 1 .. Len(s) + 1
    BY <1>1
  <2>3. ASSUME NEW n \in a - 1 .. Len(s), NEW t, t = Beginning(s, n)
        PROVE  Same(n, t)
    <3> DEFINE b == Char(t, p)
    <3>1. b \in Blank
      BY <2>2, <2>3, <1>2, <1>4, <1>7
    <3>2. b = Char(t, p)
      OBVIOUS
    <3> HIDE DEF b
    <3>3. GetToken(t, p, line) = Reading("none", <<>>, p + 1, line)
      BY <3>1, <3>2, <1>1, GetTokenBlank
    <3>4. QED
      BY <3>3, <2>1
  <2> HIDE DEF a, Same
  <2>4. read.token.kind = "none" /\ read.at = a
    BY <2>1, <1>5
  <2>5. QED
    BY <2>2, <2>3, <2>4, <1>3
<1>8. CASE c = "/" /\ d = "/"
  <2> DEFINE a == LineEnd(s, p)
  <2>1. "/" # Newline /\ "/" # Nul
    BY Symbols, Specials
  <2>2. read = Reading("none", <<>>, a, line)
    <3>1. Char(s, p) = "/" /\ Char(s, p + 1) = "/"
      BY <1>8 DEF c, d
    <3>2. QED
      BY <3>1, <1>1, GetTokenSlash
  <2>3. p + 1 \in 1 .. Len(s) /\ s[p + 1] = d
    <3>1. ~ (p + 1 > Len(s))
      BY <2>1, <1>1, <1>8, Characters DEF d
    <3>2. p + 1 \in 1 .. Len(s)
      BY <3>1, <1>1
    <3>3. QED
      BY <3>2, Characters DEF d
  <2>4. a \in p .. Len(s) + 1 /\ (a <= Len(s) => s[a] = Newline)
    BY <1>1, LineEndFacts
  <2>5. a = LineEnd(s, p)
    OBVIOUS
  <2> HIDE DEF a
  <2>6. a # p /\ a # p + 1
    <3>1. p <= Len(s) /\ p + 1 <= Len(s)
      BY <2>3, <1>1
    <3>2. s[p] = "/" /\ s[p + 1] = "/"
      BY ONLY <2>3, <1>1, <1>8
    <3>3. QED
      BY <3>1, <3>2, <2>1, <2>4
  <2>7. a \in p + 1 .. Len(s) + 1 /\ a >= p + 2
    BY <2>4, <2>6, <1>1
  <2>8. ASSUME NEW n \in a - 1 .. Len(s), NEW t, t = Beginning(s, n)
        PROVE  Same(n, t)
    <3>1. n \in p .. Len(s) /\ a <= n + 1 /\ p + 1 <= n
      BY <2>7, <1>1
    <3>2. Char(t, p) = "/" /\ Char(t, p + 1) = "/"
      BY <2>8, <3>1, <1>2, <1>8
    <3>3. LineEnd(t, p) = a
      BY <2>5, <2>8, <3>1, LineEndOfBeginning
    <3>4. GetToken(t, p, line) = Reading("none", <<>>, LineEnd(t, p), line)
      BY <3>2, <1>1, GetTokenSlash
    <3>5. QED
      BY <3>3, <3>4, <2>2
  <2> HIDE DEF Same
  <2>9. read.token.kind = "none" /\ read.at = a
    BY <2>2, <1>5
  <2>10. QED
    BY <2>7, <2>8, <2>9, <1>3
<1>9. CASE c = "/" /\ d = "*"
  <2> DEFINE r == p + 2
             a == CommentEnd(s, r)
  <2>1. "*" # Nul
    <3>1. "*" \in Singles
      BY Zenon DEF Singles
    <3>2. QED
      BY <3>1, Specials
  <2>2. read = IF a = 0 THEN Reading("error", <<>>, Len(s) + 1, line)
               ELSE Reading("none", <<>>, a, line)
    <3>1. Char(s, p) = "/" /\ Char(s, p + 1) = "*"
      BY <1>9 DEF c, d
    <3>2. QED
      BY <3>1, <1>1, GetTokenSlash
  <2>3. p + 1 <= Len(s)
    <3>1. ~ (p + 1 > Len(s))
      BY <2>1, <1>1, <1>9, Characters DEF d
    <3>2. QED
      BY <3>1, <1>1
  <2>4. r \in 1 .. Len(s) + 1
    BY <2>3, <1>1
  <2>5. a = CommentEnd(s, r) /\ r = p + 2
    OBVIOUS
  <2> HIDE DEF a, r
  <2>6. a = 0 \/ a \in r + 2 .. Len(s) + 1
    BY <2>4, <2>5, CommentEndFacts
  <2>7. CASE a = 0
    <3>1. read.token.kind = "error" /\ read.at = Len(s) + 1
      BY <2>2, <2>7, <1>5
    <3>2. Len(s) + 1 > Len(s)
      BY <1>1
    <3>3. QED
      BY <3>1, <3>2 DEF Stable
  <2>8. CASE a # 0
    <3>1. a \in p + 1 .. Len(s) + 1 /\ a >= p + 4
      BY <2>5, <2>6, <2>8, <1>1
    <3>2. ASSUME NEW n \in a - 1 .. Len(s), NEW t, t = Beginning(s, n)
          PROVE  Same(n, t)
      <4>1. n \in p .. Len(s) /\ a <= n + 1 /\ p + 1 <= n /\ n \in 0 .. Len(s)
        BY <3>1, <1>1
      <4>2. Char(t, p) = "/" /\ Char(t, p + 1) = "*"
        BY <3>2, <4>1, <1>2, <1>9
      <4>3. CommentEnd(t, r) = a
        BY <2>4, <2>5, <2>8, <3>2, <4>1, CommentEndOfBeginning
      <4>4. GetToken(t, p, line)
              = IF CommentEnd(t, p + 2) = 0 THEN Reading("error", <<>>, Len(t) + 1, line)
                ELSE Reading("none", <<>>, CommentEnd(t, p + 2), line)
        BY <4>2, <1>1, GetTokenSlash
      <4>5. QED
        BY <4>3, <4>4, <2>2, <2>5, <2>8
    <3> HIDE DEF Same
    <3>3. read.token.kind = "none" /\ read.at = a
      BY <2>2, <2>8, <1>5
    <3>4. QED
      BY <3>1, <3>2, <3>3, <1>3
  <2>9. QED
    BY <2>7, <2>8
<1>10. CASE <<c, d>> \in Doubles
  <2> DEFINE a == p + 2
             q == p + 1
  <2>1. d # Nul
    BY <1>10, SecondOfDouble
  <2>2. read = Reading("symbol", SubSeq(s, p, q), a, line)
    BY <1>1, <1>10, GetTokenSymbol DEF c, d
  <2>3. p + 1 <= Len(s)
    <3>1. ~ (p + 1 > Len(s))
      BY <2>1, <1>1, Characters DEF d
    <3>2. QED
      BY <3>1, <1>1
  <2>4. a \in p + 1 .. Len(s) + 1
    BY <2>3, <1>1
  <2>5. ASSUME NEW n \in a - 1 .. Len(s), NEW t, t = Beginning(s, n)
        PROVE  Same(n, t)
    <3>1. n \in p .. Len(s) /\ p + 1 <= n /\ p \in 1 .. n /\ q \in p - 1 .. n
      BY <2>3, <1>1
    <3>2. Char(t, p) = c /\ Char(t, p + 1) = d /\ SubSeq(t, p, q) = SubSeq(s, p, q)
      <4> HIDE DEF q
      <4>1. QED
        BY <2>5, <3>1, <1>2
    <3>3. GetToken(t, p, line) = Reading("symbol", SubSeq(t, p, p + 1), p + 2, line)
      BY <3>2, <1>1, <1>10, GetTokenSymbol
    <3>4. QED
      BY <3>2, <3>3, <2>2
  <2> HIDE DEF a, Same
  <2>6. read.token.kind = "symbol" /\ read.at = a
    <3> DEFINE lexeme == SubSeq(s, p, q)
    <3>1. read = Reading("symbol", lexeme, a, line)
      BY <2>2
    <3> HIDE DEF lexeme
    <3>2. QED
      BY <3>1, <1>5
  <2>7. QED
    BY <2>4, <2>5, <2>6, <1>3
<1>11. CASE c \in Singles /\ <<c, d>> \notin Doubles \cup {<<"/", "/">>, <<"/", "*">>}
  <2> DEFINE a == p + 1
  <2>1. read = Reading("symbol", SubSeq(s, p, p), a, line)
    BY <1>1, <1>11, GetTokenSymbol DEF c, d
  <2>2. a \in p + 1 .. Len(s) + 1
    BY <1>1
  <2>3. <<c, Nul>> \notin Doubles \cup {<<"/", "/">>, <<"/", "*">>}
    <3>1. <<c, Nul>> \notin Doubles
      BY SecondOfDouble
    <3>2. "/" # Nul /\ "*" # Nul
      <4>1. "*" \in Singles
        BY Zenon DEF Singles
      <4>2. QED
        BY <4>1, Symbols, Specials
    <3>3. QED
      BY <3>1, <3>2
  <2>4. ASSUME NEW n \in a - 1 .. Len(s), NEW t, t = Beginning(s, n)
        PROVE  Same(n, t)
    <3>1. n \in p .. Len(s) /\ p \in 1 .. n /\ p \in p - 1 .. n
      BY <1>1
    <3> DEFINE e == Char(t, p + 1)
    <3>2. Char(t, p) = c /\ e \in {d, Nul} /\ SubSeq(t, p, p) = SubSeq(s, p, p)
      BY <2>4, <3>1, <1>2
    <3>3. e = Char(t, p + 1)
      OBVIOUS
    <3> HIDE DEF e
    <3>4. <<c, e>> \notin Doubles \cup {<<"/", "/">>, <<"/", "*">>}
      BY <3>2, <2>3, <1>11
    <3>5. GetToken(t, p, line) = Reading("symbol", SubSeq(t, p, p), p + 1, line)
      BY <3>2, <3>3, <3>4, <1>1, <1>11, GetTokenSymbol
    <3>6. QED
      BY <3>2, <3>5, <2>1
  <2> HIDE DEF a, Same
  <2>5. read.token.kind = "symbol" /\ read.at = a
    <3> DEFINE lexeme == SubSeq(s, p, p)
    <3>1. read = Reading("symbol", lexeme, a, line)
      BY <2>1
    <3> HIDE DEF lexeme
    <3>2. QED
      BY <3>1, <1>5
  <2>6. QED
    BY <2>2, <2>4, <2>5, <1>3
<1>12. CASE c = Quote
  <2> DEFINE r == p + 1
             a == StringEnd(s, r)
             q == a - 2
  <2>1. read = IF a = 0 THEN Reading("error", <<>>, Len(s) + 1, line)
               ELSE Reading("string", SubSeq(s, r, q), a, line)
    <3>1. Char(s, p) = Quote /\ a = StringEnd(s, p + 1)
      BY <1>12 DEF c
    <3> HIDE DEF a
    <3>2. GetToken(s, p, line)
            = IF a = 0 THEN Reading("error", <<>>, Len(s) + 1, line)
              ELSE Reading("string", SubSeq(s, p + 1, a - 2), a, line)
      BY <3>1, <1>1, GetTokenQuote
    <3>3. QED
      BY <3>2
  <2>2. r \in Nat \ {0} /\ r <= Len(s) + 1 /\ r = p + 1 /\ r - 1 = p
    BY <1>1
  <2>3. a = StringEnd(s, r) /\ q = a - 2
    OBVIOUS
  <2> HIDE DEF a, q, r
  <2>4. a = 0 \/ a \in r + 1 .. Len(s) + 1
    BY <2>2, <2>3, StringEndWithin
  <2>5. CASE a = 0
    <3>1. read.token.kind = "error" /\ read.at = Len(s) + 1
      BY <2>1, <2>5, <1>5
    <3>2. Len(s) + 1 > Len(s)
      BY <1>1
    <3>3. QED
      BY <3>1, <3>2 DEF Stable
  <2>6. CASE a # 0
    <3>1. a \in p + 1 .. Len(s) + 1 /\ a >= r + 1 /\ r \in 2 .. Len(s)
      BY <2>2, <2>4, <2>6, <1>1
    <3>2. s[r - 1] = Quote
      BY <2>2, <1>1, <1>12
    <3>3. ASSUME NEW n \in a - 1 .. Len(s), NEW t, t = Beginning(s, n)
          PROVE  Same(n, t)
      <4>1. n \in p .. Len(s) /\ a <= n + 1 /\ n \in r .. Len(s)
            /\ r \in 1 .. n /\ q \in r - 1 .. n
        BY <2>2, <2>3, <3>1, <1>1
      <4>2. Char(t, p) = Quote /\ SubSeq(t, r, q) = SubSeq(s, r, q)
        BY <3>3, <4>1, <1>2, <1>12
      <4>3. StringEnd(t, r) = a
        BY <2>3, <2>6, <3>1, <3>2, <3>3, <4>1, StringEndOfBeginning
      <4>4. a = StringEnd(t, p + 1)
        BY <4>3, <2>2
      <4>5. GetToken(t, p, line)
              = IF a = 0 THEN Reading("error", <<>>, Len(t) + 1, line)
                ELSE Reading("string", SubSeq(t, p + 1, a - 2), a, line)
        BY <4>2, <4>4, <1>1, GetTokenQuote
      <4>6. GetToken(t, p, line) = Reading("string", SubSeq(t, r, q), a, line)
        BY <4>5, <2>2, <2>3, <2>6
      <4>7. QED
        BY <4>2, <4>6, <2>1, <2>6
    <3> HIDE DEF Same
    <3>4. read.token.kind = "string" /\ read.at = a
      <4> DEFINE lexeme == SubSeq(s, r, q)
      <4>1. read = Reading("string", lexeme, a, line)
        BY <2>1, <2>6
      <4> HIDE DEF lexeme
      <4>2. QED
        BY <4>1, <1>5
    <3>5. QED
      BY <3>1, <3>3, <3>4, <1>3
  <2>7. QED
    BY <2>5, <2>6
<1>13. CASE c \in Digit
  <2> DEFINE a == NumberEnd(s, p)
             q == a - 1
  <2>1. read = Reading("number", SubSeq(s, p, q), a, line)
    BY <1>1, <1>13, GetTokenWord DEF c
  <2>2. a = NumberEnd(s, p) /\ q = a - 1
    OBVIOUS
  <2>3. s[p] \in Digit
    BY <1>1, <1>13
  <2>4. a \in p + 1 .. Len(s) + 1
    BY <2>3, NumberEndFacts
  <2> HIDE DEF a, q
  <2>5. ASSUME NEW n \in a - 1 .. Len(s), NEW t, t = Beginning(s, n)
        PROVE  Same(n, t)
    <3>1. n \in p .. Len(s) /\ a <= n + 1 /\ p \in 1 .. n /\ q \in p - 1 .. n
      BY <2>2, <2>4, <1>1
    <3>2. Char(t, p) = c /\ SubSeq(t, p, q) = SubSeq(s, p, q)
      BY <2>5, <3>1, <1>2
    <3>3. NumberEnd(t, p) = a
      BY <2>2, <2>3, <2>5, <3>1, NumberEndOfBeginning
    <3>4. GetToken(t, p, line)
            = Reading("number", SubSeq(t, p, NumberEnd(t, p) - 1), NumberEnd(t, p), line)
      BY <3>2, <1>1, <1>13, GetTokenWord
    <3>5. QED
      BY <3>2, <3>3, <3>4, <2>1, <2>2
  <2> HIDE DEF Same
  <2>6. read.token.kind = "number" /\ read.at = a
    <3> DEFINE lexeme == SubSeq(s, p, q)
    <3>1. read = Reading("number", lexeme, a, line)
      BY <2>1
    <3> HIDE DEF lexeme
    <3>2. QED
      BY <3>1, <1>5
  <2>7. QED
    BY <2>4, <2>5, <2>6, <1>3
<1>14. CASE c \in Letter
  <2> DEFINE C == Letter \cup Digit \cup {Underscore}
             a == NameEnd(s, p)
             q == a - 1
             kind == IF SubSeq(s, p, q) \in Keyword THEN "keyword" ELSE "identifier"
             lexeme == SubSeq(s, p, q)
  <2>1. read = Reading(kind, lexeme, a, line)
    BY <1>1, <1>14, GetTokenWord DEF c
  <2>2. Nul \notin C
    <3>1. Nul \notin Letter \cup Digit
      BY Disjoint
    <3>2. Nul # Underscore
      BY Zenon DEF Nul, Underscore
    <3>3. QED
      BY <3>1, <3>2
  <2>3. c \in C /\ a = Past(s, p, C) /\ q = a - 1 /\ lexeme = SubSeq(s, p, q)
    BY <1>14 DEF NameEnd
  <2>4. \A t : NameEnd(t, p) = Past(t, p, C)
    BY DEF NameEnd
  <2>5. kind = IF SubSeq(s, p, q) \in Keyword THEN "keyword" ELSE "identifier"
    OBVIOUS
  <2>6. kind # "error"
    OBVIOUS
  <2> HIDE DEF a, q, C, kind, lexeme
  <2>7. a \in p .. Len(s) + 1 /\ (a <= Len(s) => s[a] \notin C)
    BY <2>2, <2>3, <1>1, PastFacts
  <2>8. a \in p + 1 .. Len(s) + 1
    BY <2>3, <2>7, <1>1
  <2>9. ASSUME NEW n \in a - 1 .. Len(s), NEW t, t = Beginning(s, n)
        PROVE  Same(n, t)
    <3>1. n \in p .. Len(s) /\ a <= n + 1 /\ p \in 1 .. n /\ q \in p - 1 .. n
      BY <2>3, <2>8, <1>1
    <3>2. Char(t, p) = c /\ SubSeq(t, p, q) = SubSeq(s, p, q)
      BY <2>9, <3>1, <1>2
    <3>3. Past(t, p, C) = a
      BY <2>2, <2>3, <2>9, <3>1, PastOfBeginning
    <3>4. NameEnd(t, p) = a
      BY <3>3, <2>4
    <3>5. GetToken(t, p, line)
            = Reading(IF SubSeq(t, p, NameEnd(t, p) - 1) \in Keyword
                        THEN "keyword" ELSE "identifier",
                      SubSeq(t, p, NameEnd(t, p) - 1), NameEnd(t, p), line)
      BY <3>2, <1>1, <1>14, GetTokenWord
    <3>6. SubSeq(t, p, NameEnd(t, p) - 1) = lexeme
      BY <3>2, <3>4, <2>3
    <3>7. QED
      BY <3>4, <3>5, <3>6, <2>1, <2>3, <2>5
  <2> HIDE DEF Same
  <2>10. read.token.kind # "error" /\ read.at = a
    BY <2>1, <2>6, <1>5
  <2>11. QED
    BY <2>8, <2>9, <2>10, <1>3
<1>15. CASE c \notin Blank \cup Singles \cup Letter \cup Digit \cup {Newline, Quote}
  <2>1. read = Reading("error", <<>>, p, line)
    BY <1>1, <1>15, GetTokenOther DEF c
  <2>2. read.token.kind = "error" /\ read.at = p /\ read.line = line
    BY <2>1, <1>5
  <2>3. QED
    BY <2>2 DEF Stable
<1>16. <<c, d>> \in {<<"/", "/">>, <<"/", "*">>} => c = "/" /\ (d = "/" \/ d = "*")
  OBVIOUS
<1>17. QED
  BY <1>6, <1>7, <1>8, <1>9, <1>10, <1>11, <1>12, <1>13, <1>14, <1>15, <1>16

(* So what is still to come of such a beginning differs by that token.     *)
Takes(t, p, line, read) ==
  ToCome(t, p, line)
    = IF read.token.kind = "none" THEN ToCome(t, read.at, read.line)
      ELSE <<read.token>> \o ToCome(t, read.at, read.line)

LEMMA TokenOfBeginning ==
  ASSUME NEW s \in Text, NoAdjacentEscapes(s), NEW p \in 1 .. Len(s), NEW line \in Nat,
         NEW read, read = GetToken(s, p, line), read.token.kind # "error",
         NEW n \in read.at - 1 .. Len(s), NEW t, t = Beginning(s, n)
  PROVE  Takes(t, p, line, read)
<1> DEFINE a == read.at
           from == FromOf(t)
<1>1. Len(s) \in Nat /\ p \in 1 .. Len(s) + 1
  BY Characters
<1>2. a \in p .. Len(s) + 1 /\ a # p
  BY <1>1, GetTokenWithin DEF Within
<1>3. n \in a - 1 .. Len(s)
  OBVIOUS
<1> HIDE DEF a
<1>4. n \in 0 .. Len(s) /\ p \in 1 .. n
  BY <1>1, <1>2, <1>3
<1>5. t \in Text /\ Len(t) = n /\ NoAdjacentEscapes(t) /\ p \in 1 .. Len(t)
  BY <1>4, BeginningOf
<1>6. read = GetToken(t, p, line)
  BY GetTokenStable DEF Stable
<1>7. Solves(from, t)
  BY <1>5, FromOfSolves
<1> HIDE DEF from
<1>8. from[<<p, line>>] = IF read.token.kind = "none" THEN from[<<read.at, read.line>>]
                          ELSE <<read.token>> \o from[<<read.at, read.line>>]
  <2>1. /\ t \in Text /\ NoAdjacentEscapes(t) /\ p \in 1 .. Len(t) /\ line \in Nat
        /\ Solves(from, t) /\ read = GetToken(t, p, line)
    BY <1>5, <1>6, <1>7
  <2>2. read.token.kind # "error" =>
          from[<<p, line>>] = IF read.token.kind = "none" THEN from[<<read.at, read.line>>]
                              ELSE <<read.token>> \o from[<<read.at, read.line>>]
    BY ONLY <2>1, GetTokenStep, Z3T(30)
  <2>3. QED
    BY <2>2
<1>9. QED
  BY <1>8 DEF from, ToCome, Takes

(* The same of what NextToken finds, unless it comes to the end.           *)
Follows(s, p, line, read) ==
  \/ read.token.kind = "error" /\ read.at > Len(s)
  \/ \A n \in read.at - 1 .. Len(s) :
       ToCome(Beginning(s, n), p, line)
         = IF read.token.kind = "error" THEN ToCome(Beginning(s, n), read.at, read.line)
           ELSE <<read.token>> \o ToCome(Beginning(s, n), read.at, read.line)

LEMMA FirstFollows ==
  ASSUME NEW s \in Text, NoAdjacentEscapes(s), NEW p \in 1 .. Len(s) + 1, NEW line \in Nat,
         NEW read, read = GetToken(s, p, line), read.token.kind # "none"
  PROVE  Follows(s, p, line, read)
<1>1. Len(s) \in Nat /\ p \in Nat
  BY Characters
<1>2. CASE p > Len(s)
  <2> DEFINE c == Char(s, p)
  <2>1. c = Nul
    BY <1>1, <1>2, Characters
  <2>2. Nul \notin Blank \cup Singles \cup Letter \cup Digit \cup {Newline, Quote}
    BY Specials, Disjoint
  <2>3. c = Char(s, p) /\ c \notin Blank \cup Singles \cup Letter \cup Digit \cup {Newline, Quote}
    BY <2>1, <2>2
  <2> HIDE DEF c
  <2>4. read = Reading("error", <<>>, p, line)
    BY <2>3, <1>1, GetTokenOther
  <2>5. read.token.kind = "error" /\ read.at = p
    BY <2>4 DEF Reading, Token
  <2>6. QED
    BY <2>5, <1>2 DEF Follows
<1>3. CASE ~ (p > Len(s))
  <2>1. p \in 1 .. Len(s)
    BY <1>1, <1>3
  <2>2. CASE read.token.kind = "error"
    <3>1. read.at > Len(s) \/ (read.at = p /\ read.line = line)
      BY <2>1, <2>2, GetTokenStable DEF Stable
    <3>2. QED
      BY <2>2, <3>1 DEF Follows
  <2>3. CASE read.token.kind # "error"
    <3>1. ASSUME NEW n \in read.at - 1 .. Len(s)
          PROVE  ToCome(Beginning(s, n), p, line)
                   = <<read.token>> \o ToCome(Beginning(s, n), read.at, read.line)
      <4> DEFINE t == Beginning(s, n)
      <4>1. t = Beginning(s, n)
        OBVIOUS
      <4> HIDE DEF t
      <4>2. Takes(t, p, line, read)
        BY <2>1, <2>3, <3>1, <4>1, TokenOfBeginning
      <4>3. QED
        BY <4>1, <4>2 DEF Takes
    <3>2. QED
      BY <2>3, <3>1 DEF Follows
  <2>4. QED
    BY <2>2, <2>3
<1>4. QED
  BY <1>2, <1>3

LEMMA LaterFollows ==
  ASSUME NEW s \in Text, NoAdjacentEscapes(s), NEW p \in 1 .. Len(s) + 1, NEW line \in Nat,
         NEW first, first = GetToken(s, p, line), first.token.kind = "none",
         NEW later, Within(s, first.at, first.line, later),
         Follows(s, first.at, first.line, later)
  PROVE  Follows(s, p, line, later)
<1>1. Len(s) \in Nat /\ p \in Nat
  BY Characters
<1>2. first.at \in p .. Len(s) + 1 /\ first.at # p
  BY GetTokenWithin DEF Within
<1>3. p \in 1 .. Len(s)
  BY <1>1, <1>2
<1>4. later.at \in first.at .. Len(s) + 1
  BY DEF Within
<1>5. ASSUME ~ (later.token.kind = "error" /\ later.at > Len(s)),
             NEW n \in later.at - 1 .. Len(s)
      PROVE  ToCome(Beginning(s, n), p, line)
               = IF later.token.kind = "error"
                   THEN ToCome(Beginning(s, n), later.at, later.line)
                   ELSE <<later.token>> \o ToCome(Beginning(s, n), later.at, later.line)
  <2>1. n \in first.at - 1 .. Len(s)
    <3> DEFINE a == first.at
               b == later.at
    <3>1. a \in p .. Len(s) + 1 /\ b \in a .. Len(s) + 1 /\ n \in b - 1 .. Len(s)
      BY <1>2, <1>4, <1>5
    <3> HIDE DEF a, b
    <3>2. n \in a - 1 .. Len(s)
      BY <3>1, <1>1
    <3>3. QED
      BY <3>2 DEF a
  <2> DEFINE t == Beginning(s, n)
  <2>2. t = Beginning(s, n)
    OBVIOUS
  <2> HIDE DEF t
  <2>3. ToCome(t, p, line) = ToCome(t, first.at, first.line)
    <3>1. first.token.kind # "error"
      OBVIOUS
    <3>2. /\ s \in Text /\ NoAdjacentEscapes(s) /\ p \in 1 .. Len(s) /\ line \in Nat
          /\ first = GetToken(s, p, line) /\ first.token.kind # "error"
          /\ n \in first.at - 1 .. Len(s) /\ t = Beginning(s, n)
      BY <1>3, <2>1, <2>2, <3>1
    <3>3. Takes(t, p, line, first)
      BY ONLY <3>2, TokenOfBeginning
    <3>4. QED
      BY <3>3 DEF Takes
  <2>4. ToCome(t, first.at, first.line)
          = IF later.token.kind = "error" THEN ToCome(t, later.at, later.line)
            ELSE <<later.token>> \o ToCome(t, later.at, later.line)
    BY <2>2, <1>5 DEF Follows
  <2>5. QED
    BY <2>2, <2>3, <2>4
<1>6. QED
  BY <1>5 DEF Follows

LEMMA NextTokenFollows ==
  ASSUME NEW reader, NEW s \in Text, s = reader.source, NoAdjacentEscapes(s),
         NEW p \in 1 .. Len(s) + 1, p = reader.at, NEW line \in Nat, line = reader.line
  PROVE  Follows(s, p, line, NextToken(reader))
<1> DEFINE S == {z \in (1 .. Len(s) + 1) \X Nat \X Readings(s) :
                   Within(s, z[1], z[2], z[3]) /\ Follows(s, z[1], z[2], z[3])}
<1>1. \A a, b, c : <<a, b, c>> \in S <=>
        /\ a \in 1 .. Len(s) + 1 /\ b \in Nat /\ c \in Readings(s)
        /\ Within(s, a, b, c) /\ Follows(s, a, b, c)
  OBVIOUS
<1> HIDE DEF S
<1>2. ASSUME NEW a \in 1 .. Len(s) + 1, NEW b \in Nat, NEW first, NEW later,
             first = GetToken(s, a, b),
             IF first.token.kind = "none" THEN <<first.at, first.line, later>> \in S
                                          ELSE later = first
      PROVE  <<a, b, later>> \in S
  <2>1. Within(s, a, b, first)
    BY <1>2, GetTokenWithin
  <2>2. first \in Readings(s)
    <3>1. <<a, b>> \in (1 .. Len(s) + 1) \X Nat /\ <<a, b>>[1] = a /\ <<a, b>>[2] = b
      OBVIOUS
    <3>2. QED
      BY <3>1, <1>2 DEF Readings
  <2>3. CASE first.token.kind = "none"
    <3>1. /\ later \in Readings(s)
          /\ Within(s, first.at, first.line, later) /\ Follows(s, first.at, first.line, later)
      BY <1>1, <1>2, <2>3
    <3>2. Within(s, a, b, later)
      BY <2>1, <2>3, <3>1, WithinLater
    <3>3. Follows(s, a, b, later)
      BY <1>2, <2>3, <3>1, LaterFollows
    <3>4. QED
      BY <1>1, <3>1, <3>2, <3>3
  <2>4. CASE first.token.kind # "none"
    <3>1. Follows(s, a, b, first)
      BY <1>2, <2>4, FirstFollows
    <3>2. QED
      BY <1>1, <1>2, <2>1, <2>2, <2>4, <3>1
  <2>5. QED
    BY <2>3, <2>4
<1>3. <<p, line, NextToken(reader)>> \in S
  BY <1>2, NextTokenInduction
<1>4. QED
  BY <1>1, <1>3

(* The last two of two end tokens and what has been read.                  *)
LastTwo(tokens) ==
  LET all == <<EndToken, EndToken>> \o tokens
  IN  SubSeq(all, Len(all) - 1, Len(all))

LEMMA LastTwoOf ==
  ASSUME NEW tokens \in Seq(TokenSet), NEW all, all = <<EndToken, EndToken>> \o tokens
  PROVE  /\ all \in Seq(TokenSet) /\ Len(all) = Len(tokens) + 2 /\ Len(tokens) \in Nat
         /\ LastTwo(tokens) = <<all[Len(tokens) + 1], all[Len(tokens) + 2]>>
<1> DEFINE ends == <<EndToken, EndToken>>
           n == Len(tokens)
           i == n + 1
           j == n + 2
<1>1. n \in Nat /\ ends \in Seq(TokenSet) /\ Len(ends) = 2
  BY LenProperties DEF EndToken, Token, TokenSet, Kinds
<1>2. all = ends \o tokens
  OBVIOUS
<1> HIDE DEF ends
<1>3. all \in Seq(TokenSet) /\ Len(all) = Len(ends) + Len(tokens)
  BY <1>1, <1>2, ConcatProperties
<1>4. Len(all) = j /\ Len(all) - 1 = i /\ Len(all) = n + 2
  BY <1>1, <1>3
<1>5. LastTwo(tokens) = SubSeq(all, i, j)
  BY <1>2, <1>4 DEF LastTwo, ends
<1>6. i \in Nat \ {0} /\ j \in Nat \ {0} /\ j = i + 1 /\ i \in 1 .. j /\ j \in 1 .. j
      /\ i \in Int /\ j \in Int
  BY <1>1
<1> HIDE DEF i, j
<1>7. \A k \in i .. j : all[k] \in TokenSet
  <2>1. \A k \in i .. j : k \in 1 .. Len(all)
    BY <1>4, <1>6
  <2>2. QED
    BY <2>1, <1>3
<1> DEFINE two == SubSeq(all, i, j)
<1>8. /\ two \in Seq(TokenSet) /\ Len(two) = IF i <= j THEN j - i + 1 ELSE 0
      /\ \A k \in 1 .. j - i + 1 : two[k] = all[i + k - 1]
  BY ONLY <1>6, <1>7, SubSeqProperties, SMTT(30)
<1> HIDE DEF two
<1>9. Len(two) = 2 /\ two[1] = all[i] /\ two[2] = all[j]
  <2>1. /\ j - i + 1 = 2 /\ i <= j /\ 1 \in 1 .. j - i + 1 /\ 2 \in 1 .. j - i + 1
        /\ i + 1 - 1 = i /\ i + 2 - 1 = j
    BY <1>6
  <2>2. two[1] = all[i + 1 - 1] /\ two[2] = all[i + 2 - 1]
    BY <2>1, <1>8
  <2>3. QED
    BY <2>1, <2>2, <1>8
<1> DEFINE pair == <<all[i], all[j]>>
<1>10. pair \in Seq(TokenSet) /\ Len(pair) = 2 /\ pair[1] = all[i] /\ pair[2] = all[j]
  <2>1. i \in i .. j /\ j \in i .. j
    BY <1>6
  <2>2. all[i] \in TokenSet /\ all[j] \in TokenSet
    BY <2>1, <1>7
  <2> DEFINE x == all[i]
             y == all[j]
  <2>3. pair = <<x, y>> /\ x \in TokenSet /\ y \in TokenSet
    BY <2>2
  <2> HIDE DEF x, y, pair
  <2>4. pair \in Seq(TokenSet) /\ Len(pair) = 2 /\ pair[1] = x /\ pair[2] = y
    BY <2>3
  <2>5. QED
    BY <2>4 DEF x, y
<1> HIDE DEF pair
<1>11. \A k \in 1 .. 2 : k = 1 \/ k = 2
  OBVIOUS
<1>12. \A k \in 1 .. Len(pair) : two[k] = pair[k]
  BY <1>9, <1>10, <1>11
<1>13. two = pair
  BY <1>8, <1>9, <1>10, <1>12, SeqEqual
<1>14. QED
  BY <1>1, <1>3, <1>4, <1>5, <1>13 DEF two, pair, i, j, n

LEMMA LastTwoOfAppend ==
  ASSUME NEW tokens \in Seq(TokenSet), NEW token \in TokenSet
  PROVE  LastTwo(Append(tokens, token)) = <<LastTwo(tokens)[2], token>>
<1> DEFINE all == <<EndToken, EndToken>> \o tokens
           longer == Append(tokens, token)
           more == <<EndToken, EndToken>> \o longer
           n == Len(tokens)
<1>1. /\ longer \in Seq(TokenSet) /\ Len(longer) = n + 1
      /\ \A i \in 1 .. n : longer[i] = tokens[i]
      /\ longer[n + 1] = token
  BY AppendProperties
<1>2. /\ Len(all) = n + 2 /\ n \in Nat
      /\ LastTwo(tokens) = <<all[n + 1], all[n + 2]>>
  BY LastTwoOf
<1>3. more = <<EndToken, EndToken>> \o longer
  OBVIOUS
<1> HIDE DEF longer
<1>4. LastTwo(longer) = <<more[Len(longer) + 1], more[Len(longer) + 2]>>
  BY <1>1, LastTwoOf
<1>5. more[n + 2] = all[n + 2] /\ more[n + 3] = token
  <2> DEFINE ends == <<EndToken, EndToken>>
             i == n + 2
             j == n + 3
  <2>1. ends \in Seq(TokenSet) /\ Len(ends) = 2 /\ ends[1] = EndToken /\ ends[2] = EndToken
    BY DEF EndToken, Token, TokenSet, Kinds
  <2>2. all = ends \o tokens /\ more = ends \o longer
    OBVIOUS
  <2> HIDE DEF ends, all, more
  <2>3. /\ \A k \in 1 .. Len(ends) + Len(tokens) :
             all[k] = IF k <= Len(ends) THEN ends[k] ELSE tokens[k - Len(ends)]
        /\ \A k \in 1 .. Len(ends) + Len(longer) :
             more[k] = IF k <= Len(ends) THEN ends[k] ELSE longer[k - Len(ends)]
    BY <2>1, <2>2, <1>1, ConcatProperties
  <2>4. /\ \A k \in 1 .. n + 2 : all[k] = IF k <= 2 THEN ends[k] ELSE tokens[k - 2]
        /\ \A k \in 1 .. n + 3 : more[k] = IF k <= 2 THEN ends[k] ELSE longer[k - 2]
    <3>1. 2 + (n + 1) = n + 3 /\ 2 + n = n + 2
      BY <1>2
    <3>2. QED
      BY <2>1, <2>3, <3>1, <1>1
  <2>5. /\ i \in 1 .. n + 2 /\ i \in 1 .. n + 3 /\ j \in 1 .. n + 3
        /\ ~ (j <= 2) /\ j - 2 = n + 1
        /\ i <= 2 \/ i - 2 \in 1 .. n
    BY <1>2
  <2> HIDE DEF i, j, n
  <2>6. more[i] = all[i]
    BY <2>4, <2>5, <1>1
  <2>7. more[j] = token
    BY <2>4, <2>5, <1>1
  <2>8. QED
    BY <2>6, <2>7 DEF i, j
<1>6. Len(longer) + 1 = n + 2 /\ Len(longer) + 2 = n + 3
  BY <1>1, <1>2
<1> HIDE DEF more, all, n
<1>7. LastTwo(tokens)[2] = all[n + 2]
  BY <1>2
<1>8. QED
  BY <1>4, <1>5, <1>6, <1>7 DEF longer

(* A byone scanner that has read these: they come first in every beginning *)
(* of the source that has all of them.                                     *)
HasRead(reader, tokens) ==
  /\ tokens \in Seq(TokenSet)
  /\ reader.tokens = LastTwo(tokens)
  /\ \A n \in reader.at - 1 .. Len(reader.source) :
       Dialect!Lexemes(Beginning(reader.source, n))
         = tokens \o ToCome(Beginning(reader.source, n), reader.at, reader.line)

LEMMA ByOneReads ==
  ASSUME NEW source \in Text, NEW reader, reader = ByOne(source)
  PROVE  HasRead(reader, <<>>)
<1>1. /\ reader.source = source /\ reader.at = 1 /\ reader.line = 1
      /\ reader.tokens = <<EndToken, EndToken>>
  BY DEF ByOne
<1>2. Len(source) \in Nat
  BY Characters
<1>3. <<>> \in Seq(TokenSet)
  OBVIOUS
<1>4. LastTwo(<<>>) = <<EndToken, EndToken>>
  <2> DEFINE none == <<>>
             ends == <<EndToken, EndToken>>
             all == ends \o none
  <2>1. ends \in Seq(TokenSet) /\ none \in Seq(TokenSet) /\ Len(none) = 0
    BY DEF EndToken, Token, TokenSet, Kinds
  <2>2. all = ends
    <3> HIDE DEF ends
    <3>1. QED
      BY <2>1, ConcatEmptySeq
  <2>3. all = <<EndToken, EndToken>> \o none
    OBVIOUS
  <2> HIDE DEF none, all
  <2>4. LastTwo(none) = <<all[Len(none) + 1], all[Len(none) + 2]>>
    BY <2>1, <2>3, LastTwoOf
  <2>5. all[1] = EndToken /\ all[2] = EndToken
    BY <2>2
  <2>6. QED
    BY <2>1, <2>4, <2>5 DEF none
<1>5. ASSUME NEW n \in 0 .. Len(source)
      PROVE  Dialect!Lexemes(Beginning(source, n)) = <<>> \o ToCome(Beginning(source, n), 1, 1)
  <2> DEFINE t == Beginning(source, n)
             later == ToCome(t, 1, 1)
  <2>1. t = Beginning(source, n)
    OBVIOUS
  <2> HIDE DEF t
  <2>2. t \in Text /\ Len(t) = n
    BY <2>1, BeginningOf
  <2>3. Dialect!Lexemes(t) = later
    BY <2>2, FromOfSolves
  <2>4. later \in Seq(TokenSet)
    <3>1. 1 \in 1 .. Len(t) + 1 /\ 1 \in Nat
      BY <2>2
    <3>2. QED
      BY <2>2, <3>1, ToComeIsSequence
  <2> HIDE DEF later
  <2>5. <<>> \o later = later
    BY <2>4, ConcatEmptySeq
  <2>6. QED
    BY <2>1, <2>3, <2>5 DEF later
<1>6. 1 - 1 = 0
  OBVIOUS
<1>7. QED
  BY <1>1, <1>3, <1>4, <1>5, <1>6 DEF HasRead

(* advance() adds to what has been read the token it finds, or nothing if  *)
(* it throws.                                                              *)
LEMMA ByOneReadsOn ==
  ASSUME NEW reader, Placed(reader), reader.kind = "byone", ~ EndOfSource(reader),
         NoAdjacentEscapes(reader.source), NEW tokens, HasRead(reader, tokens),
         NEW next, next = Advance(reader), ~ EndOfSource(next)
  PROVE  \E more : HasRead(next, more)
<1> DEFINE s == reader.source
           p == reader.at
           line == reader.line
           read == NextToken(reader)
           a == read.at
           b == read.line
           token == read.token
           rest == MovedTo(reader, read)
<1>1. /\ reader \in ScannerSet /\ s \in Text /\ p \in 1 .. Len(s) + 1 /\ line \in 1 .. p
      /\ Len(s) \in Nat /\ NoAdjacentEscapes(s)
  BY Characters DEF Placed, ScannerSet
<1>2. line \in Nat
  BY <1>1
<1>3. Within(s, p, line, read) /\ Follows(s, p, line, read)
  BY <1>1, <1>2, NextTokenWithin, NextTokenFollows
<1>4. next = IF Throws(reader) THEN rest ELSE Shifted(rest, token)
  BY DEF Advance
<1>5. Throws(reader) <=> token.kind = "error"
  BY DEF Throws
<1>6. /\ rest.at = a /\ rest.line = b /\ rest.source = s /\ rest.tokens = reader.tokens
      /\ rest \in [DOMAIN rest -> {rest[x] : x \in DOMAIN rest}]
      /\ {"at", "line", "source", "tokens"} \subseteq DOMAIN rest
  BY <1>1 DEF MovedTo, ScannerSet
<1>7. /\ token \in TokenSet /\ a \in p .. Len(s) + 1 /\ a \in 1 .. Len(s) + 1 /\ b \in Nat
  BY <1>1, <1>3 DEF Within
<1>8. /\ tokens \in Seq(TokenSet) /\ reader.tokens = LastTwo(tokens)
      /\ \A n \in p - 1 .. Len(s) :
           Dialect!Lexemes(Beginning(s, n)) = tokens \o ToCome(Beginning(s, n), p, line)
  BY DEF HasRead
<1> HIDE DEF s, p, line, read, a, b, token, rest
<1>9. next.at = a /\ next.line = b /\ next.source = s
  BY <1>4, <1>6 DEF Shifted
<1>10. ~ (a > Len(s))
  BY <1>9 DEF EndOfSource
<1>11. \A n \in a - 1 .. Len(s) :
         ToCome(Beginning(s, n), p, line)
           = IF token.kind = "error" THEN ToCome(Beginning(s, n), a, b)
             ELSE <<token>> \o ToCome(Beginning(s, n), a, b)
  BY <1>3, <1>10 DEF Follows, a, b, token
<1>12. \A n \in a - 1 .. Len(s) : n \in p - 1 .. Len(s) /\ n \in 0 .. Len(s) /\ a <= n + 1
  BY <1>1, <1>7
<1>13. CASE token.kind = "error"
  <2>1. next.tokens = LastTwo(tokens)
    BY <1>4, <1>5, <1>6, <1>8, <1>13
  <2>2. \A n \in a - 1 .. Len(s) :
          Dialect!Lexemes(Beginning(s, n)) = tokens \o ToCome(Beginning(s, n), a, b)
    BY <1>8, <1>11, <1>12, <1>13
  <2>3. HasRead(next, tokens)
    BY <2>1, <2>2, <1>8, <1>9 DEF HasRead
  <2>4. QED
    BY <2>3
<1>14. CASE token.kind # "error"
  <2> DEFINE more == Append(tokens, token)
             one == <<token>>
  <2>1. next.tokens = <<rest.tokens[2], token>>
    BY <1>4, <1>5, <1>6, <1>14 DEF Shifted
  <2>2. next.tokens = LastTwo(more)
    BY <2>1, <1>6, <1>7, <1>8, LastTwoOfAppend
  <2>3. more \in Seq(TokenSet) /\ more = tokens \o one /\ one \in Seq(TokenSet)
    BY <1>7, <1>8, AppendProperties, AppendIsConcat
  <2>4. ASSUME NEW n \in a - 1 .. Len(s)
        PROVE  Dialect!Lexemes(Beginning(s, n)) = more \o ToCome(Beginning(s, n), a, b)
    <3> DEFINE t == Beginning(s, n)
               later == ToCome(t, a, b)
    <3>1. n \in p - 1 .. Len(s) /\ n \in 0 .. Len(s) /\ a <= n + 1
      BY <1>12
    <3>2. t = Beginning(s, n)
      OBVIOUS
    <3> HIDE DEF t
    <3>3. t \in Text /\ Len(t) = n
      BY <3>1, <3>2, <1>1, BeginningOf
    <3>4. a \in 1 .. Len(t) + 1
      BY <3>1, <3>3, <1>7
    <3>5. later \in Seq(TokenSet)
      BY <3>3, <3>4, <1>7, ToComeIsSequence
    <3>6. Dialect!Lexemes(t) = tokens \o (one \o later)
      BY <3>1, <3>2, <1>8, <1>11, <1>14
    <3> HIDE DEF later, one, more
    <3>7. (tokens \o one) \o later = tokens \o (one \o later)
      BY <3>5, <2>3, <1>8, ConcatAssociative
    <3>8. QED
      BY <3>2, <3>6, <3>7, <2>3 DEF later
  <2> HIDE DEF more
  <2>5. HasRead(next, more)
    BY <2>2, <2>3, <2>4, <1>9 DEF HasRead
  <2>6. QED
    BY <2>5
<1>15. QED
  BY <1>13, <1>14

(* The byone scanner has read the lexemes of what it has passed.           *)
ByOneInv ==
  ~ IsReadAll /\ ~ EndOfSource(scanner) /\ ~ AdjacentEscapes =>
    \E tokens : HasRead(scanner, tokens)

LEMMA ByOneInvInit == Init => ByOneInv
<1> SUFFICES ASSUME Init, ~ IsReadAll PROVE \E tokens : HasRead(scanner, tokens)
  BY DEF ByOneInv
<1>1. PICK source \in Sources : scanner \in {ReadAll(source), ByOne(source)}
  BY DEF Init
<1>2. scanner = ByOne(source)
  BY <1>1 DEF IsReadAll, ReadAll
<1>3. source \in Text
  BY SourcesAssumption DEF Text
<1>4. QED
  BY <1>2, <1>3, ByOneReads

LEMMA ByOneInvMoves ==
  ASSUME ScannerInv, ByOneInv,
         scanner' = scanner \/ scanner' = Advance(scanner) \/ (IsReadAll /\ IsReadAll')
  PROVE  ByOneInv'
<1>1. CASE scanner' = scanner
  BY <1>1 DEF ByOneInv, IsReadAll, AdjacentEscapes, Source
<1>2. CASE IsReadAll'
  BY <1>2 DEF ByOneInv
<1>3. CASE scanner' = Advance(scanner) /\ ~ IsReadAll'
  <2>1. Placed(scanner) /\ scanner.kind \in {"readall", "byone"}
    BY DEF ScannerInv, Placed, ScannerSet
  <2>2. scanner.kind = "byone"
    <3>1. SUFFICES ASSUME scanner.kind = "readall" PROVE FALSE
      BY <2>1
    <3>2. scanner'.kind = scanner.kind
      BY <2>1, <3>1, <1>3 DEF Advance, Placed, ScannerSet
    <3>3. QED
      BY <3>1, <3>2, <1>3 DEF IsReadAll
  <2>3. /\ Placed(scanner') /\ scanner'.source = scanner.source
        /\ scanner.at <= scanner'.at
    BY <2>1, <2>2, <1>3, ByOneAdvances
  <2>4. AdjacentEscapes' <=> AdjacentEscapes
    BY <2>3 DEF AdjacentEscapes, Source
  <2>5. SUFFICES ASSUME ~ EndOfSource(scanner'), ~ AdjacentEscapes
                 PROVE  \E tokens : HasRead(scanner', tokens)
    BY <2>4 DEF ByOneInv
  <2>6. ~ EndOfSource(scanner)
    <3>1. scanner.at \in Nat /\ scanner'.at \in Nat /\ Len(scanner.source) \in Nat
      BY <2>1, <2>3, Characters DEF Placed, ScannerSet
    <3>2. QED
      BY <2>3, <2>5, <3>1 DEF EndOfSource
  <2>7. PICK tokens : HasRead(scanner, tokens)
    BY <2>2, <2>5, <2>6 DEF ByOneInv, IsReadAll
  <2>8. NoAdjacentEscapes(scanner.source)
    BY <2>5, SameText DEF Source
  <2> DEFINE next == scanner'
  <2>9. next = Advance(scanner) /\ ~ EndOfSource(next)
    BY <2>5, <1>3
  <2> HIDE DEF next
  <2>10. \E more : HasRead(next, more)
    BY <2>1, <2>2, <2>6, <2>7, <2>8, <2>9, ByOneReadsOn
  <2>11. QED
    BY <2>10, Zenon DEF next
<1>4. QED
  BY <1>1, <1>2, <1>3

LEMMA ByOneInvStep == ScannerInv /\ ByOneInv /\ [Next]_vars => ByOneInv'
<1> SUFFICES ASSUME ScannerInv, ByOneInv, [Next]_vars PROVE ByOneInv'
  OBVIOUS
<1>1. scanner \in ScannerSet
  BY DEF ScannerInv, Placed
<1>2. CASE Scan
  <2>1. scanner.kind = "readall" /\ scanner'.kind = scanner.kind
    BY <1>1, <1>2 DEF Scan, End, MovedTo, ScannerSet
  <2>2. QED
    BY <2>1, ByOneInvMoves DEF IsReadAll
<1>3. CASE EndScan
  <2>1. scanner.kind = "readall" /\ scanner'.kind = scanner.kind
    BY <1>1, <1>3 DEF EndScan, ScannerSet
  <2>2. QED
    BY <2>1, ByOneInvMoves DEF IsReadAll
<1>4. CASE ScanFirst
  BY <1>4, ByOneInvMoves DEF ScanFirst
<1>5. CASE Synchronize
  BY <1>5, ByOneInvMoves, Zenon DEF Synchronize
<1>6. CASE Parse
  BY <1>6, ParseMoves, ByOneInvMoves
<1>7. CASE StackOverflow
  BY <1>7, ByOneInvMoves DEF StackOverflow, End
<1>8. CASE UNCHANGED vars
  BY <1>8, ByOneInvMoves DEF vars
<1>9. QED
  BY <1>2, <1>3, <1>4, <1>5, <1>6, <1>7, <1>8 DEF Next

(* Whatever text without two adjacent escapes it reads, and wherever it is *)
(* in it, the two tokens ReadByOneScanner shows the parser are the last    *)
(* two of those the lexical grammar finds in what it has passed.           *)
THEOREM ByOneKeepsUp == Spec => []ByOneFollows
<1>1. ScannerInv /\ ByOneInv => ByOneFollows
  <2> DEFINE t == SubSeq(Source, 1, scanner.at - 1)
  <2>1. SUFFICES ASSUME ScannerInv, ByOneInv, ~ IsReadAll, ~ EndOfSource(scanner),
                        ~ AdjacentEscapes
                 PROVE  scanner.tokens = LastTwo(Front(Dialect!Lexemes(t)))
    BY DEF ByOneFollows, LastTwo
  <2> DEFINE p == scanner.at
             line == scanner.line
             n == p - 1
             end == ToCome(t, p, line)
  <2>2. PICK tokens : HasRead(scanner, tokens)
    BY <2>1 DEF ByOneInv
  <2>3. /\ Source \in Text /\ p \in 1 .. Len(Source) + 1 /\ line \in 1 .. p
        /\ Len(Source) \in Nat
    BY <2>1, Characters DEF ScannerInv, Placed, ScannerSet, Source
  <2>4. t = Beginning(Source, n)
    BY DEF Beginning
  <2> HIDE DEF t
  <2>5. n \in n .. Len(Source) /\ n \in 0 .. Len(Source) /\ p = n + 1 /\ line \in Nat
    BY <2>3
  <2>6. /\ tokens \in Seq(TokenSet) /\ scanner.tokens = LastTwo(tokens)
        /\ Dialect!Lexemes(t) = tokens \o end
    BY <2>2, <2>4, <2>5 DEF HasRead, Source
  <2> HIDE DEF n, p, line
  <2>7. t \in Text /\ Len(t) = n
    BY <2>3, <2>4, <2>5, BeginningOf
  <2>8. end = <<EndToken>>
    <3>1. p \in 1 .. Len(t) + 1 /\ p > Len(t)
      BY <2>5, <2>7
    <3>2. Solves(FromOf(t), t)
      BY <2>7, FromOfSolves
    <3>3. FromOf(t)[<<p, line>>] = Unfold(FromOf(t), t, p, line)
      BY <2>5, <3>1, <3>2 DEF Solves
    <3>4. QED
      BY <3>1, <3>3 DEF Unfold, ToCome
  <2> HIDE DEF end
  <2>9. EndToken \in TokenSet
    BY DEF EndToken, Token, TokenSet, Kinds
  <2>10. Dialect!Lexemes(t) = Append(tokens, EndToken)
    BY <2>6, <2>8, <2>9, AppendIsConcat
  <2>11. Front(Dialect!Lexemes(t)) = tokens
    <3>1. Front(Append(tokens, EndToken)) = tokens
      BY <2>6, <2>9, FrontOfAppend
    <3>2. QED
      BY <2>10, <3>1
  <2>12. QED
    BY <2>6, <2>11
<1>2. Init => ByOneInv
  BY ByOneInvInit
<1>3. ScannerInv /\ ByOneInv /\ [Next]_vars => ByOneInv'
  BY ByOneInvStep
<1>4. QED
  BY <1>1, <1>2, <1>3, ScannerInvariant, ScannerInvStep, PTL DEF Spec
-----------------------------------------------------------------------------
(* The stack of what the parser has still to do.                           *)

On(x, t) == <<x>> \o t

(* How much of the four entries for each token an entry takes: it may have *)
(* to make room for others before another token is read.                   *)
Weight(x) ==
  IF x[1] = "comma" THEN 2 ELSE IF x[1] = "arguments" THEN 3 ELSE 1

(* An entry that waits for others.                                         *)
Plain(x) ==
  /\ x[1] \notin {"precedence", "arguments", "program"}
  /\ x[1] = "infix" => x[2] \in 1 .. 10

(* A stack with the program at its bottom, which takes no more than b;     *)
(* sum[k] is no less than what the lowest k entries take.                  *)
SumsOf(t, b, S, sum) ==
  /\ t \in Seq(S) /\ Len(t) >= 1 /\ t[Len(t)] = <<"program">>
  /\ \A i \in 1 .. Len(t) - 1 : Plain(t[i])
  /\ sum \in [0 .. Len(t) -> Nat] /\ sum[Len(t)] <= b
  /\ \A k \in 1 .. Len(t) :
       k <= sum[k] /\ sum[k - 1] + Weight(t[Len(t) - k + 1]) <= sum[k]

Rest(t, b) == \E S, sum : SumsOf(t, b, S, sum)

LEMMA WeightType == ASSUME NEW x PROVE Weight(x) \in {1, 2, 3}
BY DEF Weight

LEMMA SeqGrows ==
  ASSUME NEW S, NEW T, S \subseteq T, NEW t \in Seq(S)
  PROVE  t \in Seq(T)
OBVIOUS

LEMMA OnProperties ==
  ASSUME NEW S, NEW t \in Seq(S), NEW x
  PROVE  /\ On(x, t) \in Seq(S \cup {x}) /\ Len(On(x, t)) = Len(t) + 1
         /\ On(x, t)[1] = x /\ \A i \in 1 .. Len(t) : On(x, t)[i + 1] = t[i]
         /\ Head(On(x, t)) = x /\ Tail(On(x, t)) = t /\ On(x, t) # <<>>
<1> DEFINE T == S \cup {x}
           one == <<x>>
           on == one \o t
           n == Len(t)
<1>1. one \in Seq(T) /\ Len(one) = 1 /\ one[1] = x
  OBVIOUS
<1>2. t \in Seq(T)
  BY SeqGrows
<1>3. on = On(x, t)
  BY DEF On
<1> HIDE DEF one
<1>4. n \in Nat
  BY <1>2, LenProperties
<1> HIDE DEF T
<1>5. /\ on \in Seq(T) /\ Len(on) = 1 + n
      /\ \A i \in 1 .. 1 + n : on[i] = IF i <= 1 THEN one[i] ELSE t[i - 1]
  <2>1. /\ on \in Seq(T) /\ Len(on) = Len(one) + Len(t)
        /\ \A i \in 1 .. Len(one) + Len(t) :
             on[i] = IF i <= Len(one) THEN one[i] ELSE t[i - Len(one)]
    BY <1>1, <1>2, ConcatProperties, Zenon
  <2>2. QED
    BY <2>1, <1>1 DEF n
<1> HIDE DEF on, n
<1>6. on[1] = x /\ \A i \in 1 .. n : on[i + 1] = t[i]
  <2>1. on[1] = x
    BY <1>1, <1>4, <1>5
  <2>2. ASSUME NEW i \in 1 .. n PROVE on[i + 1] = t[i]
    <3>1. i + 1 \in 1 .. 1 + n /\ ~ (i + 1 <= 1) /\ i + 1 - 1 = i
      BY <1>4
    <3>2. QED
      BY <1>5, <3>1
  <2>3. QED
    BY <2>1, <2>2
<1>7. on # <<>>
  BY <1>4, <1>5
<1>8. /\ Head(on) = on[1] /\ Tail(on) \in Seq(T) /\ Len(Tail(on)) = Len(on) - 1
      /\ \A i \in 1 .. Len(Tail(on)) : Tail(on)[i] = on[i + 1]
  BY <1>5, <1>7, HeadTailProperties
<1> DEFINE tail == Tail(on)
<1> HIDE DEF tail
<1>9. Len(tail) = Len(t) /\ \A i \in 1 .. Len(tail) : tail[i] = t[i]
  <2>1. Len(tail) = n
    BY <1>4, <1>5, <1>8 DEF tail
  <2>2. QED
    BY <2>1, <1>6, <1>8 DEF tail, n
<1>10. tail = t
  <2>1. tail \in Seq(T)
    BY <1>8 DEF tail
  <2>2. QED
    BY <2>1, <1>2, <1>9, SeqEqual
<1>11. QED
  BY <1>3, <1>4, <1>5, <1>6, <1>7, <1>8, <1>10 DEF n, tail, T

LEMMA OnHeadTail ==
  ASSUME NEW S, NEW t \in Seq(S), t # <<>>
  PROVE  t = On(Head(t), Tail(t)) /\ Tail(t) \in Seq(S)
<1> DEFINE x == Head(t)
           tail == Tail(t)
<1>1. /\ x = t[1] /\ x \in S /\ tail \in Seq(S) /\ Len(tail) = Len(t) - 1
      /\ \A i \in 1 .. Len(tail) : tail[i] = t[i + 1]
  BY HeadTailProperties
<1> HIDE DEF x, tail
<1> DEFINE on == On(x, tail)
<1>2. /\ on \in Seq(S \cup {x}) /\ Len(on) = Len(tail) + 1
      /\ on[1] = x /\ \A i \in 1 .. Len(tail) : on[i + 1] = tail[i]
  BY <1>1, OnProperties
<1>3. S \cup {x} = S
  BY <1>1
<1> DEFINE n == Len(t)
<1> HIDE DEF on
<1>4. n \in Nat
  BY LenProperties
<1> HIDE DEF n
<1>5. \A i \in 1 .. n : on[i] = t[i]
  <2>1. TAKE i \in 1 .. n
  <2>2. CASE i = 1
    BY <2>2, <1>1, <1>2
  <2>3. CASE i # 1
    <3>1. i - 1 \in 1 .. n - 1 /\ i - 1 + 1 = i
      BY <2>3, <1>4
    <3>2. i - 1 \in 1 .. Len(tail)
      BY <3>1, <1>1 DEF n
    <3>3. on[i - 1 + 1] = tail[i - 1] /\ tail[i - 1] = t[i - 1 + 1]
      BY <3>2, <1>1, <1>2
    <3>4. QED
      BY <3>1, <3>3
  <2>4. QED
    BY <2>2, <2>3
<1>6. Len(on) = n
  BY <1>1, <1>2, <1>4 DEF n
<1>7. on = t
  BY <1>2, <1>3, <1>5, <1>6, SeqEqual DEF n
<1>8. QED
  BY <1>7, <1>1 DEF on, x, tail
LEMMA RestLen ==
  ASSUME NEW t, NEW b \in Int, Rest(t, b)
  PROVE  /\ t # <<>> /\ Len(t) \in Nat /\ Len(t) >= 1 /\ Len(t) <= b
         /\ \E S : t \in Seq(S)
<1>1. PICK S, sum : SumsOf(t, b, S, sum)
  BY DEF Rest
<1> DEFINE n == Len(t)
<1>2. t \in Seq(S) /\ n \in Nat /\ n >= 1
  BY <1>1 DEF SumsOf
<1>3. sum \in [0 .. n -> Nat] /\ sum[n] <= b /\ \A k \in 1 .. n : k <= sum[k]
  BY <1>1 DEF SumsOf
<1> HIDE DEF n
<1>4. n \in 1 .. n /\ n \in 0 .. n
  BY <1>2
<1>5. n <= sum[n] /\ sum[n] \in Nat
  BY <1>3, <1>4
<1>6. n <= b
  BY <1>2, <1>3, <1>5
<1>7. t # <<>>
  BY <1>2 DEF n
<1>8. QED
  BY <1>2, <1>6, <1>7 DEF n

LEMMA RestMore ==
  ASSUME NEW t, NEW b \in Int, NEW c \in Int, b <= c, Rest(t, b)
  PROVE  Rest(t, c)
<1>1. PICK S, sum : SumsOf(t, b, S, sum)
  BY DEF Rest
<1> DEFINE n == Len(t)
<1>2. t \in Seq(S) /\ n \in Nat /\ sum \in [0 .. n -> Nat] /\ sum[n] <= b
  BY <1>1 DEF SumsOf
<1> HIDE DEF n
<1>3. sum[n] \in Nat
  BY <1>2
<1>4. sum[n] <= c
  BY <1>2, <1>3
<1>5. SumsOf(t, c, S, sum)
  BY <1>1, <1>4 DEF SumsOf, n
<1>6. QED
  BY <1>5 DEF Rest

LEMMA RestProgram ==
  ASSUME NEW b \in Int, b >= 1
  PROVE  Rest(<< <<"program">> >>, b)
<1> DEFINE x == <<"program">>
           t == <<x>>
           sum == [k \in 0 .. 1 |-> k]
<1>1. t \in Seq({x}) /\ Len(t) = 1 /\ t[1] = x /\ x[1] = "program"
  OBVIOUS
<1>2. sum \in [0 .. 1 -> Nat] /\ sum[0] = 0 /\ sum[1] = 1
  OBVIOUS
<1>3. Weight(x) = 1
  BY DEF Weight
<1>4. x = <<"program">>
  OBVIOUS
<1> HIDE DEF x, t, sum
<1>5. \A k \in 1 .. 1 : k = 1 /\ 1 - k + 1 = 1 /\ k - 1 = 0
  OBVIOUS
<1>6. \A k \in 1 .. Len(t) : k <= sum[k] /\ sum[k - 1] + Weight(t[Len(t) - k + 1]) <= sum[k]
  <2>1. TAKE k \in 1 .. Len(t)
  <2>2. k = 1 /\ Len(t) - k + 1 = 1 /\ k - 1 = 0
    BY <1>1, <1>5
  <2>3. QED
    BY <2>2, <1>1, <1>2, <1>3
<1>7. \A i \in 1 .. Len(t) - 1 : Plain(t[i])
  BY <1>1
<1>8. SumsOf(t, b, {x}, sum)
  BY <1>1, <1>2, <1>4, <1>6, <1>7 DEF SumsOf
<1>9. Rest(t, b)
  BY <1>8 DEF Rest
<1>10. QED
  BY <1>9 DEF t, x

LEMMA RestPush ==
  ASSUME NEW t, NEW b \in Int, NEW c \in Int, Rest(t, b), NEW x, Plain(x),
         b + Weight(x) <= c
  PROVE  Rest(On(x, t), c)
<1>1. PICK S, sum : SumsOf(t, b, S, sum)
  BY DEF Rest
<1> DEFINE n == Len(t)
           on == On(x, t)
           w == Weight(x)
<1>2. t \in Seq(S) /\ n \in Nat /\ n >= 1 /\ t[n] = <<"program">>
  BY <1>1 DEF SumsOf
<1>3. sum \in [0 .. n -> Nat] /\ sum[n] <= b
  BY <1>1 DEF SumsOf
<1>4. \A k \in 1 .. n : k <= sum[k] /\ sum[k - 1] + Weight(t[n - k + 1]) <= sum[k]
  BY <1>1 DEF SumsOf
<1>5. \A i \in 1 .. n - 1 : Plain(t[i])
  BY <1>1 DEF SumsOf
<1>6. /\ on \in Seq(S \cup {x}) /\ Len(on) = n + 1
      /\ on[1] = x /\ \A i \in 1 .. n : on[i + 1] = t[i]
  <2>1. t \in Seq(S)
    BY <1>2
  <2>2. /\ On(x, t) \in Seq(S \cup {x}) /\ Len(On(x, t)) = Len(t) + 1
        /\ On(x, t)[1] = x /\ \A i \in 1 .. Len(t) : On(x, t)[i + 1] = t[i]
        /\ Head(On(x, t)) = x /\ Tail(On(x, t)) = t /\ On(x, t) # <<>>
    BY ONLY <2>1, OnProperties, Zenon
  <2>3. QED
    BY <2>2
<1>7. w \in {1, 2, 3} /\ b + w <= c /\ w = Weight(x)
  BY WeightType
<1> DEFINE more == [k \in 0 .. n + 1 |-> IF k = n + 1 THEN sum[n] + w ELSE sum[k]]
<1> HIDE DEF n, on, w
<1>8. /\ sum[n] \in Nat /\ n \in 0 .. n /\ n \in 1 .. n /\ n <= sum[n]
      /\ \A k \in 0 .. n : sum[k] \in Nat
  <2>1. n \in 0 .. n /\ n \in 1 .. n
    BY ONLY <1>2, SMTT(30)
  <2>2. \A k \in 0 .. n : sum[k] \in Nat
    BY ONLY <1>3, SMTT(30)
  <2>3. n <= sum[n]
    BY <1>4, <2>1, Zenon
  <2>4. QED
    BY ONLY <2>1, <2>2, <2>3, Zenon
<1>9. more \in [0 .. n + 1 -> Nat] /\ more[n + 1] = sum[n] + w
      /\ \A k \in 0 .. n : more[k] = sum[k]
  <2>1. ASSUME NEW k \in 0 .. n + 1 PROVE (IF k = n + 1 THEN sum[n] + w ELSE sum[k]) \in Nat
    <3>1. k # n + 1 => k \in 0 .. n
      BY <1>2
    <3>2. QED
      BY <3>1, <1>7, <1>8
  <2>2. n + 1 \in 0 .. n + 1 /\ \A k \in 0 .. n : k \in 0 .. n + 1 /\ k # n + 1
    BY <1>2
  <2>3. QED
    BY <2>1, <2>2
<1> HIDE DEF more
<1>10. ASSUME NEW k \in 1 .. n + 1
       PROVE  k <= more[k] /\ more[k - 1] + Weight(on[n + 1 - k + 1]) <= more[k]
  <2>1. CASE k = n + 1
    <3>1. n + 1 - k + 1 = 1 /\ k - 1 = n
      BY <2>1, <1>2
    <3>2. more[k] = sum[n] + w /\ more[k - 1] = sum[n] /\ Weight(on[n + 1 - k + 1]) = w
      BY <2>1, <3>1, <1>6, <1>7, <1>8, <1>9
    <3>3. QED
      BY <2>1, <3>2, <1>2, <1>7, <1>8
  <2>2. CASE k # n + 1
    <3>1. k \in 1 .. n /\ k \in 0 .. n /\ k - 1 \in 0 .. n /\ n - k + 1 \in 1 .. n
          /\ n + 1 - k + 1 = n - k + 1 + 1
      BY <2>2, <1>2
    <3>2. more[k] = sum[k] /\ more[k - 1] = sum[k - 1]
      BY <3>1, <1>9
    <3>3. on[n + 1 - k + 1] = t[n - k + 1]
      BY <3>1, <1>6
    <3>4. QED
      BY <3>1, <3>2, <3>3, <1>4
  <2>3. QED
    BY <2>1, <2>2
<1>11. ASSUME NEW i \in 1 .. n PROVE Plain(on[i])
  <2>1. CASE i = 1
    BY <2>1, <1>6
  <2>2. CASE i # 1
    <3>1. i - 1 \in 1 .. n - 1 /\ i - 1 \in 1 .. n /\ i - 1 + 1 = i
      BY <2>2, <1>2
    <3>2. QED
      BY <3>1, <1>5, <1>6
  <2>3. QED
    BY <2>1, <2>2
<1>12. on[n + 1] = <<"program">>
  BY <1>2, <1>6, <1>8
<1>13. Len(on) - 1 = n /\ Len(on) = n + 1 /\ Len(on) >= 1 /\ more[n + 1] <= c
  BY <1>2, <1>3, <1>6, <1>7, <1>8, <1>9
<1>14. SumsOf(on, c, S \cup {x}, more)
  <2>1. on[Len(on)] = <<"program">> /\ \A i \in 1 .. Len(on) - 1 : Plain(on[i])
    BY <1>11, <1>12, <1>13
  <2>2. more \in [0 .. Len(on) -> Nat] /\ more[Len(on)] <= c
    BY <1>9, <1>13
  <2>3. \A k \in 1 .. Len(on) :
          k <= more[k] /\ more[k - 1] + Weight(on[Len(on) - k + 1]) <= more[k]
    <3>1. TAKE k \in 1 .. Len(on)
    <3>2. k \in 1 .. n + 1 /\ Len(on) - k + 1 = n + 1 - k + 1
      BY <1>13
    <3>3. QED
      BY <3>2, <1>10
  <2>4. QED
    BY <1>6, <1>13, <2>1, <2>2, <2>3 DEF SumsOf
<1>15. Rest(on, c)
  BY <1>14 DEF Rest
<1>16. QED
  BY <1>15 DEF on

(* What the head of a stack leaves; the lowest entry is the program, and   *)
(* no other.                                                               *)
LEMMA RestPop ==
  ASSUME NEW t, NEW b \in Int, Rest(t, b)
  PROVE  \/ t = << <<"program">> >>
         \/ /\ t = On(Head(t), Tail(t)) /\ Plain(Head(t))
            /\ Rest(Tail(t), b - Weight(Head(t)))
<1>1. PICK S, sum : SumsOf(t, b, S, sum)
  BY DEF Rest
<1> DEFINE n == Len(t)
           x == Head(t)
           tail == Tail(t)
           w == Weight(x)
<1>2. t \in Seq(S) /\ n \in Nat /\ n >= 1 /\ t[n] = <<"program">>
  BY <1>1 DEF SumsOf
<1>3. sum \in [0 .. n -> Nat] /\ sum[n] <= b
  BY <1>1 DEF SumsOf
<1>4. \A k \in 1 .. n : k <= sum[k] /\ sum[k - 1] + Weight(t[n - k + 1]) <= sum[k]
  BY <1>1 DEF SumsOf
<1>5. \A i \in 1 .. n - 1 : Plain(t[i])
  BY <1>1 DEF SumsOf
<1>6. t # <<>>
  BY <1>2
<1>7. /\ t = On(x, tail) /\ tail \in Seq(S) /\ x = t[1] /\ Len(tail) = n - 1
      /\ \A i \in 1 .. Len(tail) : tail[i] = t[i + 1]
  BY <1>2, <1>6, OnHeadTail, HeadTailProperties
<1>8. w \in {1, 2, 3} /\ w = Weight(x)
  BY WeightType
<1> HIDE DEF n, x, tail, w
<1>9. CASE n = 1
  <2> DEFINE y == <<"program">>
             one == <<y>>
  <2>1. one \in Seq({y}) /\ Len(one) = 1 /\ one[1] = y
    OBVIOUS
  <2>2. t[1] = y /\ Len(t) = 1
    BY <1>2, <1>9 DEF n
  <2> HIDE DEF y, one
  <2>3. one \in Seq({y} \cup S) /\ t \in Seq({y} \cup S)
    BY <2>1, <1>2, SeqGrows
  <2>4. \A i \in 1 .. Len(t) : t[i] = one[i]
    BY <2>1, <2>2
  <2>5. t = one
    BY <2>1, <2>2, <2>3, <2>4, SeqEqual
  <2>6. QED
    BY <2>5 DEF one, y
<1>10. CASE n # 1
  <2> DEFINE less == [k \in 0 .. n - 1 |-> sum[k]]
  <2>1. less \in [0 .. n - 1 -> Nat] /\ \A k \in 0 .. n - 1 : less[k] = sum[k]
    <3>1. \A k \in 0 .. n - 1 : k \in 0 .. n
      BY <1>2
    <3>2. QED
      BY <3>1, <1>3
  <2> HIDE DEF less
  <2>2. n - 1 \in 1 .. n - 1 /\ n - 1 \in 0 .. n - 1 /\ n \in 1 .. n /\ n - n + 1 = 1
        /\ n - 1 \in 0 .. n /\ n \in 0 .. n
    BY <1>2, <1>10
  <2>3. sum[n - 1] + w <= sum[n] /\ sum[n - 1] \in Nat /\ sum[n] \in Nat
    <3>1. t[n - n + 1] = x
      BY <2>2, <1>7
    <3>2. QED
      BY <3>1, <2>2, <1>3, <1>4, <1>8
  <2>4. less[n - 1] <= b - w
    BY <2>1, <2>2, <2>3, <1>3, <1>8
  <2>5. ASSUME NEW k \in 1 .. n - 1
        PROVE  k <= less[k] /\ less[k - 1] + Weight(tail[n - 1 - k + 1]) <= less[k]
    <3>1. k \in 1 .. n /\ k \in 0 .. n - 1 /\ k - 1 \in 0 .. n - 1
          /\ n - 1 - k + 1 \in 1 .. n - 1 /\ n - 1 - k + 1 + 1 = n - k + 1
      BY <1>2
    <3>2. tail[n - 1 - k + 1] = t[n - k + 1]
      BY <3>1, <1>7
    <3>3. QED
      BY <3>1, <3>2, <2>1, <1>4
  <2>6. ASSUME NEW i \in 1 .. n - 1 - 1 PROVE Plain(tail[i])
    <3>1. i \in 1 .. n - 1 /\ i + 1 \in 1 .. n - 1
      BY <1>2
    <3>2. QED
      BY <3>1, <1>5, <1>7
  <2>7. tail[n - 1] = <<"program">>
    <3>1. n - 1 + 1 = n
      BY <1>2
    <3>2. QED
      BY <3>1, <2>2, <1>2, <1>7
  <2>8. n - 1 >= 1
    BY <1>2, <1>10
  <2>9. SumsOf(tail, b - w, S, less)
    BY <2>1, <2>4, <2>5, <2>6, <2>7, <2>8, <1>7 DEF SumsOf
  <2>10. Rest(tail, b - w)
    BY <2>9 DEF Rest
  <2>11. Plain(x)
    BY <2>2, <2>8, <1>2, <1>5, <1>7
  <2>12. QED
    BY <2>10, <2>11, <1>7 DEF x, tail, w
<1>11. QED
  BY <1>9, <1>10
(* A stack whose next entry asks for another expression.                   *)
Prompts(x) == x[1] = "arguments" \/ (x[1] = "precedence" /\ x[2] \in 1 .. 10)

Asks(t, b) ==
  \E x, rest :
    /\ Prompts(x) /\ Rest(rest, b - Weight(x))
    /\ \/ t = On(x, rest)
       \/ \E y : y[1] = "emit" /\ t = On(y, On(x, rest)) /\ Rest(rest, b - Weight(x) - 1)

LEMMA OneOn == ASSUME NEW x, NEW t PROVE <<x>> \o t = On(x, t)
BY DEF On

LEMMA OnOn ==
  ASSUME NEW S, NEW u \in Seq(S), NEW x, NEW v \in Seq(S)
  PROVE  (<<x>> \o u) \o v = On(x, u \o v)
<1> DEFINE one == <<x>>
           T == S \cup {x}
<1>1. one \in Seq(T)
  OBVIOUS
<1>2. u \in Seq(T) /\ v \in Seq(T)
  BY SeqGrows
<1> HIDE DEF T
<1>3. one \o (u \o v) = (one \o u) \o v
  <2> HIDE DEF one
  <2>1. QED
    BY <1>1, <1>2, ConcatAssociative
<1>4. QED
  BY <1>3 DEF On

LEMMA NoneOn == ASSUME NEW S, NEW t \in Seq(S) PROVE <<>> \o t = t
BY ConcatEmptySeq

LEMMA AppendIs ==
  ASSUME NEW S, NEW seq \in Seq(S), NEW x \in S, NEW longer \in Seq(S),
         Len(longer) = Len(seq) + 1, longer[Len(seq) + 1] = x,
         \A i \in 1 .. Len(seq) : longer[i] = seq[i]
  PROVE  Append(seq, x) = longer
<1> DEFINE append == Append(seq, x)
           n == Len(seq)
<1>1. /\ append \in Seq(S) /\ Len(append) = n + 1 /\ n \in Nat
      /\ \A i \in 1 .. n : append[i] = seq[i]
      /\ append[n + 1] = x
  BY AppendProperties
<1>2. Len(longer) = n + 1 /\ longer[n + 1] = x /\ \A i \in 1 .. n : longer[i] = seq[i]
  OBVIOUS
<1> HIDE DEF append, n
<1>3. \A i \in 1 .. n + 1 : append[i] = longer[i]
  <2>1. TAKE i \in 1 .. n + 1
  <2>2. i = n + 1 \/ i \in 1 .. n
    BY <1>1
  <2>3. QED
    BY <2>2, <1>1, <1>2
<1>4. append = longer
  BY <1>1, <1>2, <1>3, SeqEqual
<1>5. QED
  BY <1>4 DEF append

LEMMA Appended ==
  ASSUME NEW x, NEW y, NEW z, NEW w
  PROVE  /\ Append(<<x>>, y) = <<x, y>> /\ Append(<<x, y>>, z) = <<x, y, z>>
         /\ Append(<<x, y, z>>, w) = <<x, y, z, w>>
<1> DEFINE S == {x, y, z, w}
           one == <<x>>
           two == <<x, y>>
           three == <<x, y, z>>
           four == <<x, y, z, w>>
<1>1. one \in Seq(S) /\ two \in Seq(S) /\ three \in Seq(S) /\ four \in Seq(S)
  OBVIOUS
<1>2. x \in S /\ y \in S /\ z \in S /\ w \in S
  OBVIOUS
<1>3. /\ Len(one) = 1 /\ one[1] = x
      /\ Len(two) = 2 /\ two[1] = x /\ two[2] = y
      /\ Len(three) = 3 /\ three[1] = x /\ three[2] = y /\ three[3] = z
      /\ Len(four) = 4 /\ four[1] = x /\ four[2] = y /\ four[3] = z /\ four[4] = w
  OBVIOUS
<1> HIDE DEF S, one, two, three, four
<1>4. \A i \in 1 .. 1 : i = 1
  OBVIOUS
<1>5. \A i \in 1 .. 2 : i = 1 \/ i = 2
  OBVIOUS
<1>6. \A i \in 1 .. 3 : i = 1 \/ i = 2 \/ i = 3
  OBVIOUS
<1>7. Append(one, y) = two
  <2>1. \A i \in 1 .. Len(one) : two[i] = one[i]
    BY <1>3, <1>4
  <2>2. Len(two) = Len(one) + 1 /\ two[Len(one) + 1] = y
    BY <1>3
  <2>3. QED
    BY <2>1, <2>2, <1>1, <1>2, AppendIs
<1>8. Append(two, z) = three
  <2>1. \A i \in 1 .. Len(two) : three[i] = two[i]
    BY <1>3, <1>5
  <2>2. Len(three) = Len(two) + 1 /\ three[Len(two) + 1] = z
    BY <1>3
  <2>3. QED
    BY <2>1, <2>2, <1>1, <1>2, AppendIs
<1>9. Append(three, w) = four
  <2>1. \A i \in 1 .. Len(three) : four[i] = three[i]
    BY <1>3, <1>6
  <2>2. Len(four) = Len(three) + 1 /\ four[Len(three) + 1] = w
    BY <1>3
  <2>3. QED
    BY <2>1, <2>2, <1>1, <1>2, AppendIs
<1>10. QED
  BY <1>7, <1>8, <1>9 DEF one, two, three, four

LEMMA TwoOn ==
  ASSUME NEW S, NEW t \in Seq(S), NEW x, NEW y
  PROVE  <<x, y>> \o t = On(x, On(y, t))
<1> DEFINE one == <<y>>
           T == S \cup {y}
<1>1. one \in Seq(T) /\ <<x, y>> = <<x>> \o one
  <2>1. one \in Seq(T)
    OBVIOUS
  <2>2. <<x, y>> = <<x>> \o <<y>>
    <3> DEFINE U == {x, y}
               s == <<x>>
    <3>1. s \in Seq(U) /\ y \in U
      OBVIOUS
    <3>2. Append(s, y) = <<x, y>>
      BY Appended
    <3> HIDE DEF U, s
    <3>3. Append(s, y) = s \o <<y>>
      BY <3>1, AppendIsConcat
    <3>4. QED
      BY <3>2, <3>3 DEF s
  <2>3. QED
    BY <2>1, <2>2
<1>2. t \in Seq(T)
  BY SeqGrows
<1>3. one \o t = On(y, t)
  BY OneOn
<1> HIDE DEF one, T
<1>4. (<<x>> \o one) \o t = On(x, one \o t)
  BY <1>1, <1>2, OnOn
<1>5. QED
  BY <1>1, <1>3, <1>4

LEMMA ThreeOn ==
  ASSUME NEW S, NEW t \in Seq(S), NEW x, NEW y, NEW z
  PROVE  <<x, y, z>> \o t = On(x, On(y, On(z, t)))
<1> DEFINE two == <<y, z>>
           T == S \cup {y, z}
<1>1. two \in Seq(T) /\ <<x, y, z>> = <<x>> \o two
  OBVIOUS
<1>2. t \in Seq(T)
  BY SeqGrows
<1>3. two \o t = On(y, On(z, t))
  BY TwoOn
<1> HIDE DEF two, T
<1>4. (<<x>> \o two) \o t = On(x, two \o t)
  BY <1>1, <1>2, OnOn
<1>5. QED
  BY <1>1, <1>3, <1>4

LEMMA FourOn ==
  ASSUME NEW S, NEW t \in Seq(S), NEW w, NEW x, NEW y, NEW z
  PROVE  <<w, x, y, z>> \o t = On(w, On(x, On(y, On(z, t))))
<1> DEFINE three == <<x, y, z>>
           T == S \cup {x, y, z}
<1>1. three \in Seq(T) /\ <<w, x, y, z>> = <<w>> \o three
  OBVIOUS
<1>2. t \in Seq(T)
  BY SeqGrows
<1>3. three \o t = On(x, On(y, On(z, t)))
  BY ThreeOn
<1> HIDE DEF three, T
<1>4. (<<w>> \o three) \o t = On(w, three \o t)
  BY <1>1, <1>2, OnOn
<1>5. QED
  BY <1>1, <1>3, <1>4

LEMMA PrecedenceOfType ==
  ASSUME NEW token
  PROVE  /\ PrecedenceOf(token) \in 0 .. 9
         /\ PrecedenceOf(token) # 0 => token.kind \in {"symbol", "keyword"}
<1> DEFINE T == {NONE} \cup {p \in NONE .. CALL : token.lexeme \in Infixes[p]}
<1>1. T \subseteq 0 .. 9 /\ T # {}
  BY DEF NONE, CALL
<1> DEFINE m == Max(T)
<1> HIDE DEF T
<1>2. 9 \in Nat
  OBVIOUS
<1>3. m \in T
  BY <1>1, <1>2, MaxIsGreatest
<1>4. PrecedenceOf(token) = IF token.kind \notin {"symbol", "keyword"} THEN 0 ELSE m
  BY DEF PrecedenceOf, NONE, T
<1>5. m \in 0 .. 9
  BY <1>1, <1>3
<1> HIDE DEF m
<1>6. CASE token.kind \in {"symbol", "keyword"}
  BY <1>4, <1>5, <1>6
<1>7. CASE token.kind \notin {"symbol", "keyword"}
  BY <1>4, <1>7
<1>8. QED
  BY <1>6, <1>7
-----------------------------------------------------------------------------
(* Where the scanner is when the parser asks.                              *)

(* The tokens read, the one shown next not counted.                        *)
Consumed(reader) ==
  IF reader.kind = "readall" THEN reader.index
  ELSE reader.at - 1 - (IF AtEnd(reader) THEN 0 ELSE 1)

(* The end that the byone scanner shows is that of its source.             *)
Settled(reader) ==
  reader.kind = "byone" =>
    IF AtEnd(reader) THEN EndOfSource(reader) ELSE reader.at >= 2

(* Before the end is a token that asks for another expression: advance()   *)
(* of the readall scanner stands, and previous() is that token for ever.   *)
Doomed(reader) ==
  /\ reader.kind = "readall" /\ AtEnd(reader) /\ HasPrevious(reader)
  /\ \E c \in {"-", "!", "("} : Is(Previous(reader), "symbol", <<c>>)

(* An expression that is asked for is not one that has been read.          *)
Prompted(reader) ==
  reader.kind = "readall" /\ AtEnd(reader) =>
    HasPrevious(reader) /\ Previous(reader).kind \notin {"identifier", "number", "string"}

Room(reader, b) == Doomed(reader) \/ b <= 4 * Consumed(reader) + 4

(* What a stack of calls may take, from the tokens read.                   *)
Affordable(reader, t, b) ==
  /\ b \in Int /\ Room(reader, b)
  /\ Rest(t, b) \/ (Asks(t, b) /\ Prompted(reader))

ParserInv ==
  /\ status = "scanning" => todo = << <<"program">> >>
  /\ status = "parsing" => Settled(scanner) /\ \E b : Affordable(scanner, todo, b)
  /\ status = "crashed" => Doomed(scanner)

(* Where current() is something, advance() makes it previous(), and there  *)
(* is room for four more entries.                                          *)
LEMMA AdvanceReads ==
  ASSUME NEW reader, Readable(reader), ~ AtEnd(reader), ~ Throws(reader),
         NEW next, next = Advance(reader)
  PROVE  /\ HasPrevious(next) /\ Previous(next) = Current(reader)
         /\ Consumed(reader) + 1 <= Consumed(next)
         /\ Consumed(reader) \in Int /\ Consumed(next) \in Int
         /\ Settled(next)
<1>1. reader \in ScannerSet /\ reader.at \in Nat /\ reader.index \in Nat
  BY DEF Readable, Placed, ScannerSet
<1>2. CASE reader.kind = "readall"
  <2> DEFINE i == reader.index
  <2>1. /\ next = [reader EXCEPT !.index = @ + 1] /\ next.kind = "readall"
        /\ next.tokens = reader.tokens
    BY <1>2, ReadAllAdvances
  <2>2. next.index = i + 1 /\ i \in Nat
    BY <2>1, <1>1 DEF ScannerSet
  <2> HIDE DEF i
  <2>3. Previous(next) = reader.tokens[i + 1]
    BY <2>1, <2>2 DEF Previous
  <2>4. QED
    BY <1>2, <2>1, <2>2, <2>3 DEF HasPrevious, Current, Consumed, Settled, i
<1>3. CASE reader.kind = "byone"
  <2>1. Placed(reader)
    BY DEF Readable
  <2>2. /\ next.kind = "byone" /\ Placed(next) /\ next.source = reader.source
        /\ reader.at <= next.at
        /\ IF EndOfSource(reader) THEN next = Shifted(reader, EndToken)
           ELSE /\ reader.at < next.at
                /\ \E token \in TokenSet :
                     next.tokens = <<reader.tokens[2], token>> /\ token.kind # "end"
    BY <2>1, <1>3, ByOneAdvances
  <2>3. next.index = 1 /\ reader.index = 1 /\ next.at \in Nat /\ reader.at >= 1
    BY <2>1, <2>2, <1>3 DEF Placed, ScannerSet
  <2>4. EndToken.kind = "end"
    BY DEF EndToken, Token
  <2>5. CASE EndOfSource(reader)
    <3>1. next.tokens = <<reader.tokens[2], EndToken>> /\ next.at = reader.at
      BY <2>2, <2>5, <1>1 DEF Shifted, ScannerSet
    <3>2. EndOfSource(next)
      BY <2>2, <2>5, <3>1 DEF EndOfSource
    <3>3. AtEnd(next) /\ Previous(next) = Current(reader) /\ HasPrevious(next)
      BY <3>1, <2>3, <2>4 DEF AtEnd, Current, Previous, HasPrevious
    <3>4. Consumed(next) = reader.at - 1 /\ Consumed(reader) = reader.at - 2
      BY <1>1, <1>3, <2>2, <3>1, <3>3 DEF Consumed
    <3>5. QED
      BY <1>1, <2>2, <3>2, <3>3, <3>4 DEF Settled
  <2>6. CASE ~ EndOfSource(reader)
    <3>1. PICK token \in TokenSet :
            next.tokens = <<reader.tokens[2], token>> /\ token.kind # "end"
      BY <2>2, <2>6
    <3>2. ~ AtEnd(next) /\ Previous(next) = Current(reader) /\ HasPrevious(next)
      BY <3>1, <2>3 DEF AtEnd, Current, Previous, HasPrevious
    <3>3. Consumed(next) = next.at - 2 /\ Consumed(reader) = reader.at - 2
      BY <1>1, <1>3, <2>2, <2>3, <3>2 DEF Consumed
    <3>4. QED
      BY <1>1, <2>2, <2>3, <2>6, <3>2, <3>3 DEF Settled
  <2>7. QED
    BY <2>5, <2>6
<1>4. QED
  BY <1>1, <1>2, <1>3 DEF ScannerSet

(* The bound on what a scanner makes room for.                             *)
LEMMA ConsumedBounds ==
  ASSUME ScannerInv, status = "parsing", Settled(scanner)
  PROVE  Consumed(scanner) \in Int /\ 0 <= Consumed(scanner)
         /\ Consumed(scanner) <= Len(Source) /\ Len(Source) \in Nat
<1>1. Readable(scanner) /\ (IsReadAll => Finished) /\ scanner.source \in Text
  BY ParserReads DEF Readable, Placed, ScannerSet
<1>2. Len(Source) \in Nat
  BY <1>1, Characters DEF Source
<1>3. CASE scanner.kind = "readall"
  <2> DEFINE n == Len(scanner.tokens)
             i == scanner.index
             m == Len(Source)
  <2>1. i \in 0 .. n - 1 /\ n <= m + 1 /\ m \in Nat
    BY <1>1, <1>2, <1>3 DEF Finished, IsReadAll
  <2>2. scanner.tokens \in Seq(TokenSet)
    BY <1>1 DEF Readable, Placed, ScannerSet
  <2>3. n \in Nat
    BY <2>2, LenProperties
  <2> HIDE DEF n, i, m
  <2>4. i \in Int /\ 0 <= i /\ i <= m
    BY <2>1, <2>3
  <2>5. QED
    BY <2>1, <2>4, <1>3 DEF Consumed, i, m
<1>4. CASE scanner.kind = "byone"
  <2> DEFINE p == scanner.at
             m == Len(Source)
  <2>1. p \in 1 .. m + 1 /\ m \in Nat
    BY <1>1, <1>2 DEF Readable, Placed, Source
  <2>2. ~ AtEnd(scanner) => p >= 2
    BY <1>4 DEF Settled
  <2>3. Consumed(scanner) = p - 1 - (IF AtEnd(scanner) THEN 0 ELSE 1)
    BY <1>4 DEF Consumed
  <2> HIDE DEF p, m
  <2>4. QED
    BY <2>1, <2>2, <2>3 DEF m
<1>5. QED
  BY <1>1, <1>3, <1>4 DEF Readable, Placed, ScannerSet
(* What the entry on top says of those below.                              *)
LEMMA Pops ==
  ASSUME NEW t, NEW b \in Int, Rest(t, b) \/ Asks(t, b)
  PROVE  /\ t # <<>> /\ \E S : t \in Seq(S)
         /\ Len(t) \in Nat /\ Len(t) <= b
         /\ \/ t = << <<"program">> >>
            \/ Plain(Head(t)) /\ Rest(Tail(t), b - Weight(Head(t)))
            \/ Prompts(Head(t)) /\ Asks(t, b) /\ Rest(Tail(t), b - Weight(Head(t)))
            \/ /\ Head(t)[1] = "emit" /\ Asks(t, b)
               /\ \E x, rest : /\ Prompts(x) /\ Tail(t) = On(x, rest)
                               /\ Rest(rest, b - 1 - Weight(x))
<1>1. CASE Rest(t, b)
  BY <1>1, RestLen, RestPop
<1>2. ASSUME NEW x, NEW rest, Prompts(x), Rest(rest, b - Weight(x)), t = On(x, rest), Asks(t, b)
      PROVE  /\ t # <<>> /\ \E S : t \in Seq(S)
             /\ Len(t) \in Nat /\ Len(t) <= b
             /\ Prompts(Head(t)) /\ Asks(t, b) /\ Rest(Tail(t), b - Weight(Head(t)))
  <2> DEFINE w == Weight(x)
             n == Len(rest)
  <2>1. w \in {1, 2, 3}
    BY WeightType
  <2>2. b - w \in Int
    <3> HIDE DEF w
    <3>1. QED
      BY <2>1
  <2>3. n \in Nat /\ n <= b - w /\ \E S : rest \in Seq(S)
    BY <2>2, <1>2, RestLen
  <2>4. PICK S : rest \in Seq(S)
    BY <2>3
  <2>5. /\ On(x, rest) \in Seq(S \cup {x}) /\ Len(On(x, rest)) = Len(rest) + 1
        /\ On(x, rest)[1] = x /\ \A i \in 1 .. Len(rest) : On(x, rest)[i + 1] = rest[i]
        /\ Head(On(x, rest)) = x /\ Tail(On(x, rest)) = rest /\ On(x, rest) # <<>>
    BY ONLY <2>4, OnProperties, Zenon
  <2>6. Len(t) = n + 1 /\ Head(t) = x /\ Tail(t) = rest /\ t # <<>> /\ t \in Seq(S \cup {x})
    BY <2>5, <1>2
  <2> HIDE DEF n, w
  <2>7. n + 1 \in Nat /\ n + 1 <= b
    BY <2>1, <2>3
  <2>8. QED
    BY <2>6, <2>7, <1>2
<1>3. ASSUME NEW x, NEW rest, NEW y, Prompts(x), y[1] = "emit", t = On(y, On(x, rest)),
             Rest(rest, b - Weight(x) - 1), Asks(t, b)
      PROVE  /\ t # <<>> /\ \E S : t \in Seq(S)
             /\ Len(t) \in Nat /\ Len(t) <= b
             /\ Head(t)[1] = "emit" /\ Asks(t, b)
             /\ Tail(t) = On(x, rest) /\ Rest(rest, b - 1 - Weight(x))
  <2> DEFINE w == Weight(x)
             n == Len(rest)
             u == On(x, rest)
  <2>1. w \in {1, 2, 3}
    BY WeightType
  <2>2. b - w - 1 \in Int /\ b - w - 1 = b - 1 - w
    <3> HIDE DEF w
    <3>1. QED
      BY <2>1
  <2>3. n \in Nat /\ n <= b - w - 1 /\ \E S : rest \in Seq(S)
    BY <2>2, <1>3, RestLen
  <2>4. PICK S : rest \in Seq(S)
    BY <2>3
  <2>5. u \in Seq(S \cup {x}) /\ Len(u) = n + 1
    BY <2>4, OnProperties
  <2> HIDE DEF u
  <2>6. /\ On(y, u) \in Seq((S \cup {x}) \cup {y}) /\ Len(On(y, u)) = Len(u) + 1
        /\ On(y, u)[1] = y /\ \A i \in 1 .. Len(u) : On(y, u)[i + 1] = u[i]
        /\ Head(On(y, u)) = y /\ Tail(On(y, u)) = u /\ On(y, u) # <<>>
    BY ONLY <2>5, OnProperties, Zenon
  <2>7. t = On(y, u)
    BY <1>3 DEF u
  <2>8. Len(t) = n + 1 + 1 /\ Head(t) = y /\ Tail(t) = On(x, rest) /\ t # <<>>
        /\ \E T : t \in Seq(T)
    BY <2>5, <2>6, <2>7 DEF u
  <2> HIDE DEF n, w
  <2>9. n + 1 + 1 \in Nat /\ n + 1 + 1 <= b
    BY <2>1, <2>3
  <2>10. Rest(rest, b - 1 - Weight(x))
    BY <2>2, <1>3 DEF w
  <2>11. QED
    BY <2>8, <2>9, <2>10, <1>3
<1>4. CASE Asks(t, b)
  <2>1. PICK x, rest :
          /\ Prompts(x) /\ Rest(rest, b - Weight(x))
          /\ \/ t = On(x, rest)
             \/ \E y : y[1] = "emit" /\ t = On(y, On(x, rest)) /\ Rest(rest, b - Weight(x) - 1)
    BY <1>4 DEF Asks
  <2>2. CASE t = On(x, rest)
    BY <2>1, <2>2, <1>2, <1>4
  <2>3. CASE \E y : y[1] = "emit" /\ t = On(y, On(x, rest)) /\ Rest(rest, b - Weight(x) - 1)
    BY <2>1, <2>3, <1>3, <1>4
  <2>4. QED
    BY <2>1, <2>2, <2>3
<1>5. QED
  BY <1>1, <1>4

(* The two ways on: where the scanner is, ...                              *)
LEMMA StandsBy ==
  ASSUME ScannerInv, status = "parsing", Settled(scanner), NEW b \in Int, Room(scanner, b),
         scanner' = scanner, status' = status, NEW c \in Int, c <= b,
         Rest(todo', c) \/ (Asks(todo', c) /\ Prompted(scanner))
  PROVE  ParserInv'
<1> DEFINE k == Consumed(scanner)
<1>1. k \in Int
  BY ConsumedBounds
<1> HIDE DEF k
<1>2. b <= 4 * k + 4 => c <= 4 * k + 4
  BY <1>1
<1>3. Room(scanner, c)
  BY <1>2 DEF Room, k
<1>4. Affordable(scanner', todo', c) /\ Settled(scanner')
  BY <1>3 DEF Affordable
<1>5. QED
  BY <1>4 DEF ParserInv

(* ... and one token on.                                                   *)
LEMMA GoesOn ==
  ASSUME ScannerInv, status = "parsing", NEW b \in Int, Room(scanner, b),
         ~ AtEnd(scanner), ~ Throws(scanner),
         scanner' = Advance(scanner), status' = status, NEW c \in Int, c <= b + 4,
         \/ Rest(todo', c)
         \/ Asks(todo', c) /\ Current(scanner).kind \in {"symbol", "keyword"}
  PROVE  ParserInv'
<1> DEFINE k == Consumed(scanner)
           l == Consumed(scanner')
<1>1. Readable(scanner)
  BY ParserReads
<1>2. /\ HasPrevious(scanner') /\ Previous(scanner') = Current(scanner)
      /\ k + 1 <= l /\ k \in Int /\ l \in Int /\ Settled(scanner')
  BY <1>1, AdvanceReads
<1>3. b <= 4 * k + 4
  BY DEF Room, Doomed
<1> HIDE DEF k, l
<1>4. c <= 4 * l + 4
  BY <1>2, <1>3
<1>5. Room(scanner', c)
  BY <1>4 DEF Room, l
<1>6. Current(scanner).kind \in {"symbol", "keyword"} => Prompted(scanner')
  BY <1>2 DEF Prompted
<1>7. Rest(todo', c) \/ (Asks(todo', c) /\ Prompted(scanner'))
  BY <1>6
<1>8. Affordable(scanner', todo', c)
  BY <1>5, <1>7 DEF Affordable
<1>9. QED
  BY <1>2, <1>8 DEF ParserInv
LEMMA Waits ==
  ASSUME NEW t, NEW c \in Int, Rest(t, c), NEW x, Plain(x), Weight(x) = 1
  PROVE  Rest(On(x, t), c + 1)
<1>1. c + 1 \in Int /\ c + Weight(x) <= c + 1
  OBVIOUS
<1>2. QED
  BY <1>1, RestPush

LEMMA AsksFor ==
  ASSUME NEW t, NEW c \in Int, Rest(t, c), NEW x, Prompts(x), NEW b \in Int, b = c + Weight(x)
  PROVE  Asks(On(x, t), b)
<1> DEFINE w == Weight(x)
<1>1. w \in {1, 2, 3} /\ b = c + w
  BY WeightType
<1> HIDE DEF w
<1>2. b - w = c
  BY <1>1
<1>3. Rest(t, b - Weight(x))
  BY <1>2 DEF w
<1>4. QED
  BY <1>3 DEF Asks

LEMMA Entries ==
  ASSUME NEW x, NEW y, NEW p \in 1 .. 10
  PROVE  /\ Plain(ThenEmit(x)) /\ Weight(ThenEmit(x)) = 1 /\ ThenEmit(x)[1] = "emit"
         /\ Plain(Consume(x)) /\ Weight(Consume(x)) = 1
         /\ Prompts(Precedence(p)) /\ Weight(Precedence(p)) = 1
         /\ Plain(<<"infix", p>>) /\ Weight(<<"infix", p>>) = 1
         /\ Plain(<<"unary", x>>) /\ Weight(<<"unary", x>>) = 1
         /\ Plain(<<"binary", x>>) /\ Weight(<<"binary", x>>) = 1
         /\ Plain(<<"dot", x>>) /\ Weight(<<"dot", x>>) = 1
         /\ Plain(<<"variable", x, y>>) /\ Weight(<<"variable", x, y>>) = 1
         /\ Plain(<<"property", x, y>>) /\ Weight(<<"property", x, y>>) = 1
         /\ Plain(<<"comma", x, y>>) /\ Weight(<<"comma", x, y>>) = 2
         /\ Prompts(<<"arguments", x>>) /\ Weight(<<"arguments", x>>) = 3
<1>1. Plain(ThenEmit(x)) /\ Weight(ThenEmit(x)) = 1 /\ ThenEmit(x)[1] = "emit"
  BY DEF Plain, Weight, ThenEmit
<1>2. Plain(Consume(x)) /\ Weight(Consume(x)) = 1
  BY DEF Plain, Weight, Consume
<1>3. Prompts(Precedence(p)) /\ Weight(Precedence(p)) = 1
  BY DEF Prompts, Weight, Precedence
<1>4. Plain(<<"infix", p>>) /\ Weight(<<"infix", p>>) = 1
  BY DEF Plain, Weight
<1>5. Plain(<<"unary", x>>) /\ Weight(<<"unary", x>>) = 1
  BY DEF Plain, Weight
<1>6. Plain(<<"binary", x>>) /\ Weight(<<"binary", x>>) = 1
  BY DEF Plain, Weight
<1>7. Plain(<<"dot", x>>) /\ Weight(<<"dot", x>>) = 1
  BY DEF Plain, Weight
<1>8. Plain(<<"variable", x, y>>) /\ Weight(<<"variable", x, y>>) = 1
  BY DEF Plain, Weight
<1>9. Plain(<<"property", x, y>>) /\ Weight(<<"property", x, y>>) = 1
  BY DEF Plain, Weight
<1>10. Plain(<<"comma", x, y>>) /\ Weight(<<"comma", x, y>>) = 2
  BY DEF Plain, Weight
<1>11. Prompts(<<"arguments", x>>) /\ Weight(<<"arguments", x>>) = 3
  BY DEF Prompts, Weight
<1>12. QED
  BY <1>1, <1>2, <1>3, <1>4, <1>5, <1>6, <1>7, <1>8, <1>9, <1>10, <1>11

(* What an action of the parser finds on the stack.                        *)
LEMMA OnTop ==
  ASSUME ScannerInv, ParserInv, NEW what, Doing(what)
  PROVE  /\ status = "parsing" /\ Settled(scanner) /\ Head(todo)[1] = what
         /\ \E b \in Int :
              /\ Affordable(scanner, todo, b) /\ Room(scanner, b)
              /\ what = "program" => todo = << <<"program">> >>
              /\ what \in {"arguments", "precedence"} =>
                   /\ Prompts(Head(todo)) /\ Prompted(scanner)
                   /\ Rest(Tail(todo), b - Weight(Head(todo)))
              /\ what \notin {"program", "arguments", "precedence", "emit"} =>
                   Plain(Head(todo)) /\ Rest(Tail(todo), b - Weight(Head(todo)))
<1>1. status = "parsing" /\ Head(todo)[1] = what
  BY DEF Doing
<1>2. Settled(scanner) /\ \E b : Affordable(scanner, todo, b)
  BY <1>1 DEF ParserInv
<1>3. PICK b : Affordable(scanner, todo, b)
  BY <1>2
<1>4. /\ b \in Int /\ Room(scanner, b)
      /\ Rest(todo, b) \/ (Asks(todo, b) /\ Prompted(scanner))
  BY <1>3 DEF Affordable
<1> DEFINE x == Head(todo)
           rest == Rest(Tail(todo), b - Weight(x))
<1>5. \/ todo = << <<"program">> >>
      \/ Plain(x) /\ rest
      \/ Prompts(x) /\ Asks(todo, b) /\ rest
      \/ x[1] = "emit"
  BY <1>4, Pops
<1>6. todo = << <<"program">> >> => what = "program"
  <2>1. Head(<< <<"program">> >>)[1] = "program"
    OBVIOUS
  <2>2. QED
    BY <2>1, <1>1
<1>7. Plain(x) => what \notin {"program", "arguments", "precedence"}
  BY <1>1 DEF Plain
<1>8. Prompts(x) => what \in {"arguments", "precedence"}
  BY <1>1 DEF Prompts
<1>9. x[1] = what
  BY <1>1
<1> HIDE DEF x, rest
<1>10. Rest(todo, b) => todo = << <<"program">> >> \/ Plain(x)
  BY <1>4, RestPop DEF x
<1>11. Prompts(x) => Prompted(scanner)
  BY <1>4, <1>6, <1>7, <1>8, <1>10
<1>12. QED
  BY <1>1, <1>2, <1>3, <1>4, <1>5, <1>6, <1>7, <1>8, <1>9, <1>11 DEF x, rest

(* A token that is checked for, and found, is not the end.                 *)
LEMMA CheckedFor ==
  ASSUME NEW reader, NEW lexeme, Check(reader, lexeme)
  PROVE  ~ AtEnd(reader) /\ Current(reader).kind \in {"symbol", "keyword"}
BY DEF Check, Is, AtEnd

LEMMA Synchronizes ==
  ASSUME status' = "synchronizing"
  PROVE  ParserInv'
BY DEF ParserInv
(* The steps of the parser.                                                *)

LEMMA PopKeeps ==
  ASSUME ScannerInv, status = "parsing", Settled(scanner), NEW b \in Int, Room(scanner, b),
         NEW c \in Int, c <= b, Rest(Tail(todo), c),
         NEW emitted, Continue(scanner, emitted, <<>>)
  PROVE  ParserInv'
<1>1. \E S : Tail(todo) \in Seq(S)
  BY RestLen
<1>2. scanner' = scanner /\ status' = status /\ todo' = <<>> \o Tail(todo)
  BY DEF Continue
<1>3. todo' = Tail(todo)
  BY <1>1, <1>2, NoneOn
<1>4. Rest(todo', c)
  BY <1>3
<1>5. QED
  BY <1>2, <1>4, StandsBy

LEMMA ProgramKeeps ==
  ASSUME ScannerInv, ParserInv, Program
  PROVE  ParserInv'
<1>1. Doing("program")
  BY DEF Program
<1>2. status = "parsing" /\ Settled(scanner) /\ todo = << <<"program">> >>
  BY <1>1, OnTop
<1>3. CASE AtEnd(scanner)
  <2>1. status' \in {"compiled", "undefined"}
    BY <1>3 DEF Program, End
  <2>2. QED
    BY <2>1 DEF ParserInv
<1>4. CASE ~ AtEnd(scanner)
  <2> DEFINE x == <<"program">>
             one == <<x>>
             emit == ThenEmit(<<"POP">>)
             semicolon == Consume(<<";">>)
             t == On(emit, On(semicolon, one))
  <2>1. Head(one) = x /\ Tail(one) = <<>>
    OBVIOUS
  <2>2. /\ scanner' = scanner /\ status' = status
        /\ todo' = <<Expression, emit, semicolon, x>> \o Tail(todo)
    BY <1>2, <1>4, <2>1 DEF Program, Continue
  <2>3. /\ Plain(emit) /\ Weight(emit) = 1 /\ Plain(semicolon) /\ Weight(semicolon) = 1
        /\ Prompts(Expression) /\ Weight(Expression) = 1
    <3>1. ASSIGNMENT \in 1 .. 10
      BY DEF ASSIGNMENT
    <3>2. QED
      BY <3>1, Entries DEF Expression
  <2> DEFINE none == <<>>
  <2>4. none \in Seq({})
    OBVIOUS
  <2>5. <<x>> \o none = one
    <3>1. one \in Seq({x})
      OBVIOUS
    <3> HIDE DEF one, x
    <3>2. one \o <<>> = one
      BY <3>1, ConcatEmptySeq
    <3>3. QED
      BY <3>2 DEF one
  <2> HIDE DEF x, emit, semicolon, none
  <2>6. todo' = On(Expression, On(emit, On(semicolon, On(x, none))))
    <3>1. todo' = <<Expression, emit, semicolon, x>> \o none
      BY <1>2, <2>1, <2>2 DEF none, x
    <3> DEFINE e == Expression
    <3> HIDE DEF e
    <3>2. <<e, emit, semicolon, x>> \o none = On(e, On(emit, On(semicolon, On(x, none))))
      BY <2>4, FourOn
    <3>3. QED
      BY <3>1, <3>2 DEF e
  <2>7. On(x, none) = one
    BY <2>5 DEF On
  <2>8. Rest(one, 1)
    BY RestProgram DEF x
  <2> HIDE DEF one
  <2>9. Rest(t, 3)
    <3>1. Rest(On(semicolon, one), 1 + 1)
      BY <2>3, <2>8, Waits
    <3>2. Rest(On(semicolon, one), 2)
      BY <3>1
    <3>3. Rest(t, 2 + 1)
      BY <2>3, <3>2, Waits
    <3>4. QED
      BY <3>3
  <2> HIDE DEF t
  <2>10. Asks(On(Expression, t), 4)
    <3>1. 4 = 3 + Weight(Expression)
      BY <2>3
    <3>2. QED
      BY <2>3, <2>9, <3>1, AsksFor
  <2>11. Asks(todo', 4)
    BY <2>6, <2>7, <2>10 DEF t
  <2>12. Room(scanner, 4)
    <3>1. Consumed(scanner) \in Int /\ 0 <= Consumed(scanner)
      BY <1>2, ConsumedBounds
    <3> DEFINE k == Consumed(scanner)
    <3> HIDE DEF k
    <3>2. 4 <= 4 * k + 4
      BY <3>1 DEF k
    <3>3. QED
      BY <3>2 DEF Room, k
  <2>13. Prompted(scanner)
    BY <1>4 DEF Prompted
  <2>14. QED
    BY <1>2, <2>2, <2>11, <2>12, <2>13, StandsBy
<1>5. QED
  BY <1>3, <1>4

LEMMA EmissionKeeps ==
  ASSUME ScannerInv, ParserInv, Emission
  PROVE  ParserInv'
<1>1. Doing("emit") /\ Continue(scanner, <<Arg(1)>>, <<>>)
  BY DEF Emission
<1>2. status = "parsing" /\ Settled(scanner) /\ Head(todo)[1] = "emit"
  BY <1>1, OnTop
<1>3. PICK b \in Int : Affordable(scanner, todo, b) /\ Room(scanner, b)
  BY <1>1, OnTop
<1> DEFINE x == Head(todo)
<1>4. Weight(x) = 1 /\ ~ Prompts(x) /\ todo # << <<"program">> >>
  <2>1. Weight(x) = 1 /\ ~ Prompts(x)
    BY <1>2 DEF Weight, Prompts
  <2>2. Head(<< <<"program">> >>)[1] = "program"
    OBVIOUS
  <2>3. QED
    BY <1>2, <2>1, <2>2
<1>5. Rest(todo, b) \/ (Asks(todo, b) /\ Prompted(scanner))
  BY <1>3 DEF Affordable
<1>6. CASE Rest(Tail(todo), b - Weight(x))
  <2>1. Rest(Tail(todo), b - 1) /\ b - 1 \in Int /\ b - 1 <= b
    BY <1>4, <1>6
  <2> DEFINE emitted == <<Arg(1)>>
  <2>2. Continue(scanner, emitted, <<>>)
    BY <1>1
  <2> HIDE DEF emitted
  <2>3. QED
    BY <1>2, <1>3, <2>1, <2>2, PopKeeps
<1>7. CASE ~ Rest(Tail(todo), b - Weight(x))
  <2>1. ~ Rest(todo, b)
    BY <1>4, <1>7, RestPop
  <2>2. Prompted(scanner)
    BY <1>5, <2>1
  <2>3. PICK y, rest : /\ Prompts(y) /\ Tail(todo) = On(y, rest)
                       /\ Rest(rest, b - 1 - Weight(y))
    BY <1>4, <1>5, <1>7, Pops
  <2> DEFINE w == Weight(y)
  <2>4. w \in {1, 2, 3}
    BY WeightType
  <2>5. b - 1 - w \in Int /\ b - 1 = b - 1 - w + w /\ b - 1 \in Int /\ b - 1 <= b
    <3> HIDE DEF w
    <3>1. QED
      BY <2>4
  <2>6. Asks(On(y, rest), b - 1)
    BY <2>3, <2>5, AsksFor
  <2>7. \E S : Tail(todo) \in Seq(S)
    BY <2>3, <2>5, <2>6, Pops
  <2>8. todo' = Tail(todo) /\ scanner' = scanner /\ status' = status
    BY <1>1, <2>7, NoneOn DEF Continue
  <2>9. Asks(todo', b - 1)
    BY <2>3, <2>6, <2>8
  <2>10. QED
    BY <1>2, <1>3, <2>2, <2>5, <2>8, <2>9, StandsBy
<1>8. QED
  BY <1>6, <1>7
LEMMA AdvancesThen ==
  ASSUME NEW emitted, NEW items, AdvanceThen(emitted, items)
  PROVE  \/ status' = "synchronizing"
         \/ /\ ~ Throws(scanner) /\ scanner' = Advance(scanner) /\ status' = status
            /\ todo' = items \o Tail(todo)
BY DEF AdvanceThen, Continue, Fail

(* The entry on top, done with.                                            *)
LEMMA TopWaits ==
  ASSUME ScannerInv, ParserInv, NEW what, Doing(what),
         what \notin {"program", "arguments", "precedence", "emit"}
  PROVE  /\ status = "parsing" /\ Settled(scanner) /\ Plain(Head(todo))
         /\ \E S : Tail(todo) \in Seq(S)
         /\ \E b \in Int : \E c \in Int :
              /\ Room(scanner, b) /\ Rest(Tail(todo), c)
              /\ c = b - (IF what = "comma" THEN 2 ELSE 1)
<1>1. status = "parsing" /\ Settled(scanner) /\ Head(todo)[1] = what
  BY OnTop
<1>2. PICK b \in Int :
        /\ Room(scanner, b) /\ Plain(Head(todo))
        /\ Rest(Tail(todo), b - Weight(Head(todo)))
  BY OnTop
<1>3. Weight(Head(todo)) = IF what = "comma" THEN 2 ELSE 1
  BY <1>1 DEF Weight
<1> DEFINE w == IF what = "comma" THEN 2 ELSE 1
           c == b - w
<1>4. c \in Int /\ Rest(Tail(todo), c)
  BY <1>2, <1>3
<1>5. \E S : Tail(todo) \in Seq(S)
  <2> HIDE DEF c
  <2>1. QED
    BY <1>4, RestLen
<1>6. QED
  BY <1>1, <1>2, <1>4, <1>5

LEMMA ConsumptionKeeps ==
  ASSUME ScannerInv, ParserInv, Consumption
  PROVE  ParserInv'
<1>1. Doing("consume")
  BY DEF Consumption
<1>2. PICK b \in Int, c \in Int :
        Room(scanner, b) /\ Rest(Tail(todo), c) /\ c = b - 1
  BY <1>1, TopWaits
<1>3. status = "parsing" /\ \E S : Tail(todo) \in Seq(S)
  BY <1>1, TopWaits
<1> DEFINE lexeme == Arg(1)
<1>4. CASE Check(scanner, lexeme)
  <2>1. ~ AtEnd(scanner)
    BY <1>4, CheckedFor
  <2>2. AdvanceThen(<<>>, <<>>)
    BY <1>4 DEF Consumption
  <2>3. CASE status' = "synchronizing"
    BY <2>3, Synchronizes
  <2>4. CASE /\ ~ Throws(scanner) /\ scanner' = Advance(scanner) /\ status' = status
             /\ todo' = <<>> \o Tail(todo)
    <3>1. todo' = Tail(todo)
      BY <2>4, <1>3, NoneOn
    <3>2. c <= b + 4
      BY <1>2
    <3>3. Rest(todo', c)
      BY <1>2, <3>1
    <3>4. QED
      BY <1>2, <1>3, <2>1, <2>4, <3>2, <3>3, GoesOn
  <2>5. QED
    BY <2>2, <2>3, <2>4, AdvancesThen
<1>5. CASE ~ Check(scanner, lexeme)
  <2>1. status' = "synchronizing"
    BY <1>5 DEF Consumption, Fail
  <2>2. QED
    BY <2>1, Synchronizes
<1>6. QED
  BY <1>4, <1>5

LEMMA UnaryOperatorKeeps ==
  ASSUME ScannerInv, ParserInv, UnaryOperator
  PROVE  ParserInv'
<1>1. Doing("unary") /\ \E emitted : Continue(scanner, emitted, <<>>)
  BY DEF UnaryOperator
<1>2. PICK b \in Int, c \in Int :
        Room(scanner, b) /\ Rest(Tail(todo), c) /\ c = b - 1
  BY <1>1, TopWaits
<1>3. status = "parsing" /\ Settled(scanner)
  BY <1>1, TopWaits
<1>4. c <= b
  BY <1>2
<1>5. QED
  BY <1>1, <1>2, <1>3, <1>4, PopKeeps

LEMMA BinaryOperatorKeeps ==
  ASSUME ScannerInv, ParserInv, BinaryOperator
  PROVE  ParserInv'
<1>1. Doing("binary") /\ \E emitted : Continue(scanner, emitted, <<>>)
  BY DEF BinaryOperator
<1>2. PICK b \in Int, c \in Int :
        Room(scanner, b) /\ Rest(Tail(todo), c) /\ c = b - 1
  BY <1>1, TopWaits
<1>3. status = "parsing" /\ Settled(scanner)
  BY <1>1, TopWaits
<1>4. c <= b
  BY <1>2
<1>5. QED
  BY <1>1, <1>2, <1>3, <1>4, PopKeeps
(* A prefix function leaves on a stack what its token asks for.            *)
LEMMA PrefixStack ==
  ASSUME NEW token, NEW p \in 1 .. 10, PrefixOf(token, p) # <<>>,
         NEW t, NEW c \in Int, Rest(t, c),
         NEW u, u = Append(PrefixOf(token, p), <<"infix", p>>) \o t
  PROVE  \E d \in Int :
           /\ d <= c + 3
           /\ \/ Rest(u, d)
              \/ /\ Asks(u, d) /\ token.kind = "symbol"
                 /\ \E sign \in {"-", "!", "("} : Is(token, "symbol", <<sign>>)
           /\ token.kind \notin {"identifier", "number", "string"} => Asks(u, d)
<1> DEFINE x == <<"infix", p>>
           v == <<"variable", token.lexeme, CanAssign(p)>>
           e == ThenEmit(<<"CONSTANT", token.lexeme>>)
           r == Consume(<<")">>)
           n == <<"unary", token>>
           q == Precedence(UNARY)
           g == Expression
<1>1. Plain(x) /\ Weight(x) = 1
  BY Entries
<1>2. /\ Plain(v) /\ Weight(v) = 1 /\ Plain(e) /\ Weight(e) = 1 /\ Plain(r) /\ Weight(r) = 1
      /\ Plain(n) /\ Weight(n) = 1
  BY Entries
<1>3. Prompts(q) /\ Weight(q) = 1 /\ Prompts(g) /\ Weight(g) = 1
  <2>1. UNARY \in 1 .. 10 /\ ASSIGNMENT \in 1 .. 10
    BY DEF UNARY, ASSIGNMENT
  <2>2. QED
    BY <2>1, Entries DEF Expression
<1> DEFINE sign(z) == Is(token, "symbol", <<z>>)
           prefix == PrefixOf(token, p)
<1>4. /\ \/ token.kind = "identifier" /\ prefix = <<v>>
         \/ token.kind \in {"number", "string"} /\ prefix = <<e>>
         \/ sign("(") /\ prefix = <<g, r>>
         \/ (sign("-") \/ sign("!")) /\ prefix = <<q, n>>
      /\ \A z : sign(z) => token.kind = "symbol"
  <2>1. \A z : sign(z) => token.kind = "symbol"
    BY DEF Is
  <2> HIDE DEF v, e, r, n, q, g
  <2>2. prefix = CASE token.kind = "identifier" -> <<v>>
                   [] token.kind \in {"number", "string"} -> <<e>>
                   [] sign("(") -> <<g, r>>
                   [] sign("-") \/ sign("!") -> <<q, n>>
                   [] OTHER -> <<>>
    BY DEF PrefixOf, v, e, r, n, q, g
  <2> HIDE DEF sign
  <2>3. prefix # <<>>
    OBVIOUS
  <2> HIDE DEF prefix
  <2>4. QED
    BY <2>1, <2>2, <2>3
<1>5. u = Append(prefix, x) \o t
  OBVIOUS
<1>6. PICK S : t \in Seq(S)
  BY RestLen
<1>7. \A z \in {"-", "!", "("} :
        sign(z) => token.kind = "symbol" /\ \E y \in {"-", "!", "("} : Is(token, "symbol", <<y>>)
  BY <1>4
<1> HIDE DEF x, v, e, r, n, q, g, prefix
<1>8. c + 1 \in Int /\ c + 2 \in Int /\ c + 3 \in Int /\ c + 2 <= c + 3
      /\ c + 1 + 1 = c + 2 /\ c + 2 + 1 = c + 3
  OBVIOUS
<1>9. Rest(On(x, t), c + 1)
  BY <1>1, Waits
<1>10. ASSUME NEW y, Plain(y), Weight(y) = 1
       PROVE  Rest(On(y, On(x, t)), c + 2)
  BY <1>8, <1>9, <1>10, Waits
<1>11. CASE token.kind = "identifier" /\ prefix = <<v>>
  <2>1. u = <<v, x>> \o t
    BY <1>5, <1>11, Appended
  <2>2. u = On(v, On(x, t))
    BY <2>1, <1>6, TwoOn
  <2>3. Rest(u, c + 2)
    BY <2>2, <1>2, <1>10
  <2>4. QED
    BY <2>3, <1>8, <1>11
<1>12. CASE token.kind \in {"number", "string"} /\ prefix = <<e>>
  <2>1. u = <<e, x>> \o t
    BY <1>5, <1>12, Appended
  <2>2. u = On(e, On(x, t))
    BY <2>1, <1>6, TwoOn
  <2>3. Rest(u, c + 2)
    BY <2>2, <1>2, <1>10
  <2>4. QED
    BY <2>3, <1>8, <1>12
<1>13. CASE sign("(") /\ prefix = <<g, r>>
  <2>1. u = <<g, r, x>> \o t
    BY <1>5, <1>13, Appended
  <2>2. u = On(g, On(r, On(x, t)))
    BY <2>1, <1>6, ThreeOn
  <2>3. Rest(On(r, On(x, t)), c + 2)
    BY <1>2, <1>10
  <2>4. c + 3 = c + 2 + Weight(g)
    BY <1>3
  <2>5. Asks(u, c + 3)
    BY <2>2, <2>3, <2>4, <1>3, <1>8, AsksFor
  <2>6. QED
    BY <2>5, <1>7, <1>8, <1>13
<1>14. CASE (sign("-") \/ sign("!")) /\ prefix = <<q, n>>
  <2>1. u = <<q, n, x>> \o t
    BY <1>5, <1>14, Appended
  <2>2. u = On(q, On(n, On(x, t)))
    BY <2>1, <1>6, ThreeOn
  <2>3. Rest(On(n, On(x, t)), c + 2)
    BY <1>2, <1>10
  <2>4. c + 3 = c + 2 + Weight(q)
    BY <1>3
  <2>5. Asks(u, c + 3)
    BY <2>2, <2>3, <2>4, <1>3, <1>8, AsksFor
  <2>6. QED
    BY <2>5, <1>7, <1>8, <1>14
<1>15. QED
  BY <1>4, <1>11, <1>12, <1>13, <1>14

LEMMA ParsePrecedenceKeeps ==
  ASSUME ScannerInv, ParserInv, ParsePrecedence
  PROVE  ParserInv'
<1> DEFINE p == Arg(1)
           s == Advance(scanner)
           token == Previous(s)
           prefix == PrefixOf(token, p)
           t == Tail(todo)
<1>1. Doing("precedence")
  BY DEF ParsePrecedence
<1>2. status = "parsing" /\ Settled(scanner) /\ Head(todo)[1] = "precedence"
  BY <1>1, OnTop
<1>3. PICK b \in Int :
        /\ Room(scanner, b) /\ Prompts(Head(todo)) /\ Prompted(scanner)
        /\ Rest(t, b - Weight(Head(todo)))
  BY <1>1, OnTop
<1>4. p \in 1 .. 10 /\ Weight(Head(todo)) = 1
  <2>1. p = Head(todo)[2]
    BY DEF Arg
  <2>2. QED
    BY <1>2, <1>3, <2>1 DEF Prompts, Weight
<1>5. Rest(t, b - 1) /\ b - 1 \in Int
  BY <1>3, <1>4
<1>6. \/ status' = "synchronizing"
      \/ /\ ~ Throws(scanner) /\ prefix # <<>> /\ scanner' = s /\ status' = status
         /\ todo' = Append(prefix, <<"infix", p>>) \o t
  BY DEF ParsePrecedence, Continue, Fail
<1>7. Readable(scanner)
  BY <1>2, ParserReads
<1>8. CASE status' = "synchronizing"
  BY <1>8, Synchronizes
<1>9. ASSUME ~ Throws(scanner), prefix # <<>>, scanner' = s, status' = status,
             todo' = Append(prefix, <<"infix", p>>) \o t
      PROVE  ParserInv'
  <2> DEFINE c == b - 1
             u == Append(prefix, <<"infix", p>>) \o t
             signed == \E sign \in {"-", "!", "("} : Is(token, "symbol", <<sign>>)
  <2>1. c \in Int /\ Rest(t, c)
    BY <1>5
  <2>2. PICK d \in Int :
          /\ d <= c + 3
          /\ Rest(u, d) \/ (Asks(u, d) /\ token.kind = "symbol" /\ signed)
          /\ token.kind \notin {"identifier", "number", "string"} => Asks(u, d)
    <3> HIDE DEF c, p, token, t, signed
    <3>1. \E d \in Int :
            /\ d <= c + 3
            /\ \/ Rest(u, d)
               \/ /\ Asks(u, d) /\ token.kind = "symbol"
                  /\ \E sign \in {"-", "!", "("} : Is(token, "symbol", <<sign>>)
            /\ token.kind \notin {"identifier", "number", "string"} => Asks(u, d)
      BY <2>1, <1>4, <1>9, PrefixStack
    <3>2. QED
      BY <3>1 DEF signed
  <2>3. d <= b + 2
    BY <2>1, <2>2
  <2>4. todo' = u
    BY <1>9
  <2> HIDE DEF u, c, t
  <2>5. CASE ~ AtEnd(scanner)
    <3>1. token = Current(scanner)
      BY <1>7, <1>9, <2>5, AdvanceReads
    <3>2. d <= b + 4
      BY <2>3
    <3>3. \/ Rest(todo', d)
          \/ Asks(todo', d) /\ Current(scanner).kind \in {"symbol", "keyword"}
      <4> HIDE DEF token, signed
      <4>1. QED
        BY <2>2, <2>4, <3>1
    <3>4. QED
      BY <1>2, <1>3, <1>9, <2>5, <3>2, <3>3, GoesOn
  <2>6. CASE AtEnd(scanner) /\ scanner.kind = "readall"
    <3>1. s = scanner
      BY <1>7, <2>6, ReadAllAdvances
    <3>2. HasPrevious(scanner) /\ token.kind \notin {"identifier", "number", "string"}
      BY <3>1, <2>6, <1>3 DEF Prompted
    <3>3. signed
      <4>1. prefix # <<>>
        BY <1>9
      <4>2. token.kind # "identifier" /\ token.kind \notin {"number", "string"}
        BY <3>2
      <4> DEFINE i(z) == Is(token, "symbol", <<z>>)
      <4>3. i("(") \/ i("-") \/ i("!")
        <5> HIDE DEF token, p
        <5>1. prefix = <<>> \/ i("(") \/ i("-") \/ i("!")
          BY <4>2 DEF PrefixOf
        <5>2. QED
          BY <5>1, <4>1
      <4>4. QED
        BY <4>3
    <3>4. Doomed(scanner)
      BY <2>6, <3>1, <3>2, <3>3 DEF Doomed
    <3>5. Room(scanner, d)
      BY <3>4 DEF Room
    <3>6. Asks(todo', d)
      BY <2>2, <2>4, <3>2
    <3>7. scanner' = scanner /\ d <= d
      BY <1>9, <3>1
    <3>8. QED
      BY <1>2, <1>3, <1>9, <3>5, <3>6, <3>7, StandsBy
  <2>7. CASE AtEnd(scanner) /\ scanner.kind = "byone"
    <3>1. EndOfSource(scanner) /\ Placed(scanner)
      BY <1>2, <1>7, <2>7 DEF Settled, Readable
    <3>2. s = Shifted(scanner, EndToken)
      BY <2>7, <3>1, ByOneAdvances
    <3>3. scanner \in ScannerSet /\ scanner.index = 1
      BY <2>7, <3>1 DEF Placed
    <3>4. token = Current(scanner)
      <4>1. s.tokens[s.index] = scanner.tokens[1 + 1]
        BY <3>2, <3>3 DEF Shifted, ScannerSet
      <4>2. QED
        BY <4>1, <3>3 DEF Previous, Current
    <3>5. token.kind = "end"
      BY <3>4, <2>7 DEF AtEnd
    <3>6. prefix = <<>>
      <4> HIDE DEF token, p
      <4>1. QED
        BY <3>5 DEF PrefixOf, Is
    <3>7. QED
      BY <1>9, <3>6
  <2>8. QED
    BY <2>5, <2>6, <2>7, <1>7 DEF Readable, Placed, ScannerSet
<1>10. QED
  BY <1>6, <1>8, <1>9
LEMMA EmitsAndAsks ==
  ASSUME NEW x, NEW y, NEW rest, NEW b \in Int, Prompts(x), y[1] = "emit",
         Rest(rest, b - Weight(x)), Rest(rest, b - Weight(x) - 1),
         NEW t, t = On(y, On(x, rest))
  PROVE  Asks(t, b)
BY DEF Asks

(* And so does an infix function, on the stack of those to come.           *)
LEMMA InfixStack ==
  ASSUME NEW token, NEW p, NEW t, NEW c \in Int, Rest(t, c),
         NEW x, Plain(x), Weight(x) = 1,
         NEW u, u = Append(InfixOf(token, p), x) \o t
  PROVE  \E d \in Int : d <= c + 4 /\ (Rest(u, d) \/ Asks(u, d))
<1> DEFINE k == PrecedenceOf(token)
           e == ThenEmit(<<"unless", token.lexeme>>)
           f == ThenEmit(<<"end", token.lexeme>>)
           q == Precedence(k)
           a == <<"arguments", <<"CALL">> >>
           dot == <<"dot", CanAssign(p)>>
           g == Precedence(k + 1)
           op == <<"binary", token>>
           infix == InfixOf(token, p)
<1>1. /\ Plain(f) /\ Weight(f) = 1 /\ e[1] = "emit"
      /\ Prompts(a) /\ Weight(a) = 3
      /\ Plain(dot) /\ Weight(dot) = 1 /\ Plain(op) /\ Weight(op) = 1
  <2>1. 1 \in 1 .. 10
    OBVIOUS
  <2>2. QED
    BY <2>1, Entries
<1>2. k \in 0 .. 9
  BY PrecedenceOfType
<1>3. Prompts(g) /\ Weight(g) = 1
  <2> HIDE DEF k
  <2>1. k + 1 \in 1 .. 10
    BY <1>2
  <2>2. QED
    BY <2>1, Entries
<1>4. k \in {OR, AND} => Prompts(q) /\ Weight(q) = 1
  <2> HIDE DEF k
  <2>1. k \in {OR, AND} => k \in 1 .. 10
    BY DEF OR, AND
  <2>2. QED
    BY <2>1, Entries
<1>5. \/ k \in {OR, AND} /\ infix = <<e, q, f>>
      \/ infix = <<a>> \/ infix = <<dot>> \/ infix = <<g, op>>
  BY DEF InfixOf
<1>6. u = Append(infix, x) \o t
  OBVIOUS
<1>7. PICK S : t \in Seq(S)
  BY RestLen
<1> HIDE DEF k, e, f, q, a, dot, g, op, infix
<1>8. /\ c + 1 \in Int /\ c + 2 \in Int /\ c + 3 \in Int /\ c + 4 \in Int
      /\ c + 1 + 1 = c + 2 /\ c + 2 + 1 = c + 3 /\ c + 3 <= c + 4 /\ c + 2 <= c + 4
      /\ c + 4 <= c + 4 /\ c + 4 - 1 = c + 3 /\ c + 3 - 1 = c + 2
  OBVIOUS
<1>9. Rest(On(x, t), c + 1)
  BY Waits
<1>10. ASSUME NEW y, Plain(y), Weight(y) = 1
       PROVE  Rest(On(y, On(x, t)), c + 2)
  BY <1>8, <1>9, <1>10, Waits
<1>11. CASE k \in {OR, AND} /\ infix = <<e, q, f>>
  <2> DEFINE rest == On(f, On(x, t))
  <2>1. u = <<e, q, f, x>> \o t
    BY <1>6, <1>11, Appended
  <2>2. u = On(e, On(q, rest))
    BY <2>1, <1>7, FourOn
  <2>3. Rest(rest, c + 2)
    BY <1>1, <1>10
  <2> HIDE DEF rest
  <2>4. Rest(rest, c + 3)
    <3>1. c + 2 <= c + 3
      OBVIOUS
    <3>2. QED
      BY <2>3, <3>1, <1>8, RestMore
  <2> DEFINE d == c + 4
  <2>5. d - Weight(q) = c + 3 /\ d - Weight(q) - 1 = c + 2 /\ d \in Int
    BY <1>4, <1>8, <1>11
  <2>6. d <= c + 4
    BY <1>8
  <2> HIDE DEF d
  <2>7. Rest(rest, d - Weight(q)) /\ Rest(rest, d - Weight(q) - 1)
    BY <2>3, <2>4, <2>5
  <2>8. Prompts(q)
    BY <1>4, <1>11
  <2>9. Asks(u, d)
    BY <2>2, <2>5, <2>7, <2>8, <1>1, EmitsAndAsks
  <2>10. QED
    BY <2>5, <2>6, <2>9
<1>12. CASE infix = <<a>>
  <2>1. u = <<a, x>> \o t
    BY <1>6, <1>12, Appended
  <2>2. u = On(a, On(x, t))
    BY <2>1, <1>7, TwoOn
  <2>3. c + 4 = c + 1 + Weight(a)
    BY <1>1
  <2>4. Asks(u, c + 4)
    BY <2>2, <2>3, <1>1, <1>8, <1>9, AsksFor
  <2>5. QED
    BY <2>4, <1>8
<1>13. CASE infix = <<dot>>
  <2>1. u = <<dot, x>> \o t
    BY <1>6, <1>13, Appended
  <2>2. u = On(dot, On(x, t))
    BY <2>1, <1>7, TwoOn
  <2>3. Rest(u, c + 2)
    BY <2>2, <1>1, <1>10
  <2>4. QED
    BY <2>3, <1>8
<1>14. CASE infix = <<g, op>>
  <2>1. u = <<g, op, x>> \o t
    BY <1>6, <1>14, Appended
  <2>2. u = On(g, On(op, On(x, t)))
    BY <2>1, <1>7, ThreeOn
  <2>3. Rest(On(op, On(x, t)), c + 2)
    BY <1>1, <1>10
  <2>4. c + 3 = c + 2 + Weight(g)
    BY <1>3
  <2>5. Asks(u, c + 3)
    BY <2>2, <2>3, <2>4, <1>3, <1>8, AsksFor
  <2>6. QED
    BY <2>5, <1>8
<1>15. QED
  BY <1>5, <1>11, <1>12, <1>13, <1>14

LEMMA InfixKeeps ==
  ASSUME ScannerInv, ParserInv, Infix
  PROVE  ParserInv'
<1> DEFINE p == Arg(1)
           x == Head(todo)
           token == Current(scanner)
<1>1. Doing("infix")
  BY DEF Infix
<1>2. status = "parsing" /\ Settled(scanner) /\ Plain(x) /\ x[1] = "infix"
  BY <1>1, TopWaits DEF Doing
<1>3. Weight(x) = 1 /\ p \in 1 .. 10
  <2>1. p = x[2]
    BY DEF Arg
  <2>2. QED
    BY <1>2, <2>1 DEF Weight, Plain
<1>4. PICK b \in Int, c \in Int :
        Room(scanner, b) /\ Rest(Tail(todo), c) /\ c = b - 1
  BY <1>1, TopWaits
<1>5. CASE p > PrecedenceOf(token)
  <2>1. Continue(scanner, <<>>, <<>>)
    BY <1>5 DEF Infix
  <2>2. c <= b
    BY <1>4
  <2> DEFINE emitted == <<>>
  <2>3. Continue(scanner, emitted, <<>>)
    BY <2>1
  <2> HIDE DEF emitted
  <2>4. QED
    BY <1>2, <1>4, <2>2, <2>3, PopKeeps
<1>6. CASE ~ (p > PrecedenceOf(token))
  <2> DEFINE items == Append(InfixOf(token, p), x)
             u == items \o Tail(todo)
  <2>1. AdvanceThen(<<>>, items)
    BY <1>6 DEF Infix
  <2> DEFINE k == PrecedenceOf(token)
  <2>2. k \in 0 .. 9 /\ (k # 0 => token.kind \in {"symbol", "keyword"})
    BY PrecedenceOfType
  <2>3. token.kind \in {"symbol", "keyword"}
    <3> HIDE DEF k, p
    <3>1. k # 0
      BY <1>3, <1>6, <2>2 DEF k
    <3>2. QED
      BY <2>2, <3>1
  <2>4. ~ AtEnd(scanner)
    BY <2>3 DEF AtEnd
  <2>5. PICK d \in Int : d <= c + 4 /\ (Rest(u, d) \/ Asks(u, d))
    <3> DEFINE t == Tail(todo)
    <3>1. Rest(t, c)
      BY <1>4
    <3>2. u = Append(InfixOf(token, p), x) \o t
      OBVIOUS
    <3> HIDE DEF u, items, t, token, p, x
    <3>3. QED
      BY <3>1, <3>2, <1>2, <1>3, InfixStack
  <2>6. d <= b + 4
    BY <1>4, <2>5
  <2> HIDE DEF items
  <2>7. CASE status' = "synchronizing"
    BY <2>7, Synchronizes
  <2>8. CASE /\ ~ Throws(scanner) /\ scanner' = Advance(scanner) /\ status' = status
             /\ todo' = items \o Tail(todo)
    <3>1. todo' = u
      BY <2>8
    <3> HIDE DEF u
    <3>2. \/ Rest(todo', d)
          \/ Asks(todo', d) /\ Current(scanner).kind \in {"symbol", "keyword"}
      BY <2>3, <2>5, <3>1
    <3>3. QED
      BY <1>2, <1>4, <2>4, <2>6, <2>8, <3>2, GoesOn
  <2>9. QED
    BY <2>1, <2>7, <2>8, AdvancesThen
<1>7. QED
  BY <1>5, <1>6
LEMMA ExpressionOver ==
  ASSUME NEW t, NEW c \in Int, Rest(t, c), NEW x, Plain(x),
         NEW d \in Int, d = c + Weight(x) + 1
  PROVE  Asks(<<Expression, x>> \o t, d)
<1> DEFINE g == Expression
           w == Weight(x)
<1>1. Prompts(g) /\ Weight(g) = 1
  <2>1. ASSIGNMENT \in 1 .. 10
    BY DEF ASSIGNMENT
  <2>2. QED
    BY <2>1, Entries DEF Expression
<1>2. w \in {1, 2, 3} /\ d = c + w + 1
  BY WeightType
<1>3. PICK S : t \in Seq(S)
  BY RestLen
<1> HIDE DEF g
<1>4. <<g, x>> \o t = On(g, On(x, t))
  BY <1>3, TwoOn
<1> DEFINE f == c + w
<1>5. f \in Int /\ d = f + Weight(g) /\ f = c + w
  <2> HIDE DEF w
  <2>1. QED
    BY <1>1, <1>2
<1>6. c + Weight(x) <= f
  BY <1>2
<1> HIDE DEF f
<1>7. Rest(On(x, t), f)
  BY <1>5, <1>6, RestPush
<1>8. Asks(On(g, On(x, t)), d)
  BY <1>1, <1>5, <1>7, AsksFor
<1>9. QED
  BY <1>4, <1>8 DEF g

LEMMA AdvancesInto ==
  ASSUME ScannerInv, status = "parsing", NEW b \in Int, Room(scanner, b), ~ AtEnd(scanner),
         NEW emitted, NEW items, AdvanceThen(emitted, items),
         NEW d \in Int, d <= b + 4, NEW u, u = items \o Tail(todo),
         \/ Rest(u, d)
         \/ Asks(u, d) /\ Current(scanner).kind \in {"symbol", "keyword"}
  PROVE  ParserInv'
<1>1. CASE status' = "synchronizing"
  BY <1>1, Synchronizes
<1>2. CASE /\ ~ Throws(scanner) /\ scanner' = Advance(scanner) /\ status' = status
           /\ todo' = items \o Tail(todo)
  <2>1. todo' = u
    BY <1>2
  <2>2. \/ Rest(todo', d)
        \/ Asks(todo', d) /\ Current(scanner).kind \in {"symbol", "keyword"}
    BY <2>1
  <2>3. QED
    BY <1>2, <2>2, GoesOn
<1>3. QED
  BY <1>1, <1>2, AdvancesThen

LEMMA VariableKeeps ==
  ASSUME ScannerInv, ParserInv, Variable
  PROVE  ParserInv'
<1>1. Doing("variable")
  BY DEF Variable
<1>2. PICK b \in Int, c \in Int :
        Room(scanner, b) /\ Rest(Tail(todo), c) /\ c = b - 1
  BY <1>1, TopWaits
<1>3. status = "parsing" /\ Settled(scanner) /\ \E S : Tail(todo) \in Seq(S)
  BY <1>1, TopWaits
<1> DEFINE assigns == Arg(2) /\ Check(scanner, <<"=">>)
<1>4. CASE assigns
  <2> DEFINE x == ThenEmit(<<"SET", Arg(1)>>)
             items == <<Expression, x>>
             u == items \o Tail(todo)
             none == <<>>
  <2>1. ~ AtEnd(scanner) /\ Current(scanner).kind \in {"symbol", "keyword"}
    BY <1>4, CheckedFor
  <2>2. AdvanceThen(none, items)
    BY <1>4 DEF Variable
  <2>3. Plain(x) /\ Weight(x) = 1
    <3>1. 1 \in 1 .. 10
      OBVIOUS
    <3>2. QED
      BY <3>1, Entries
  <2>4. c + 2 \in Int /\ c + 2 = c + Weight(x) + 1 /\ c + 2 <= b + 4
    BY <1>2, <2>3
  <2> HIDE DEF x
  <2>5. Asks(u, c + 2)
    BY <1>2, <2>3, <2>4, ExpressionOver
  <2>6. u = items \o Tail(todo)
    OBVIOUS
  <2> HIDE DEF u, items, none
  <2>7. QED
    BY <1>2, <1>3, <2>1, <2>2, <2>4, <2>5, <2>6, AdvancesInto
<1>5. CASE ~ assigns
  <2> DEFINE emitted == << <<"GET", Arg(1)>> >>
  <2>1. Continue(scanner, emitted, <<>>)
    BY <1>5 DEF Variable
  <2>2. c <= b
    BY <1>2
  <2> HIDE DEF emitted
  <2>3. QED
    BY <1>2, <1>3, <2>1, <2>2, PopKeeps
<1>6. QED
  BY <1>4, <1>5

LEMMA DotKeeps ==
  ASSUME ScannerInv, ParserInv, Dot
  PROVE  ParserInv'
<1>1. Doing("dot")
  BY DEF Dot
<1>2. PICK b \in Int, c \in Int :
        Room(scanner, b) /\ Rest(Tail(todo), c) /\ c = b - 1
  BY <1>1, TopWaits
<1>3. status = "parsing"
  BY <1>1, TopWaits
<1>4. CASE Current(scanner).kind = "identifier"
  <2> DEFINE x == <<"property", Current(scanner).lexeme, Arg(1)>>
             items == <<x>>
             u == items \o Tail(todo)
             none == <<>>
  <2>1. ~ AtEnd(scanner)
    BY <1>4 DEF AtEnd
  <2>2. AdvanceThen(none, items)
    BY <1>4 DEF Dot
  <2>3. Plain(x) /\ Weight(x) = 1
    <3>1. 1 \in 1 .. 10
      OBVIOUS
    <3>2. QED
      BY <3>1, Entries
  <2>4. c + 1 \in Int /\ c + 1 <= b + 4
    BY <1>2
  <2> HIDE DEF x
  <2>5. Rest(u, c + 1)
    BY <1>2, <2>3, Waits DEF On
  <2>6. u = items \o Tail(todo)
    OBVIOUS
  <2> HIDE DEF u, items, none
  <2>7. QED
    BY <1>2, <1>3, <2>1, <2>2, <2>4, <2>5, <2>6, AdvancesInto
<1>5. CASE Current(scanner).kind # "identifier"
  <2>1. status' = "synchronizing"
    BY <1>5 DEF Dot, Fail
  <2>2. QED
    BY <2>1, Synchronizes
<1>6. QED
  BY <1>4, <1>5

LEMMA PropertyKeeps ==
  ASSUME ScannerInv, ParserInv, Property
  PROVE  ParserInv'
<1>1. Doing("property")
  BY DEF Property
<1>2. PICK b \in Int, c \in Int :
        Room(scanner, b) /\ Rest(Tail(todo), c) /\ c = b - 1
  BY <1>1, TopWaits
<1>3. status = "parsing" /\ Settled(scanner) /\ \E S : Tail(todo) \in Seq(S)
  BY <1>1, TopWaits
<1> DEFINE assigns == Arg(2) /\ Check(scanner, <<"=">>)
           invokes == Check(scanner, <<"(">>)
<1>4. CASE assigns
  <2> DEFINE x == ThenEmit(<<"SET_PROPERTY", Arg(1)>>)
             items == <<Expression, x>>
             u == items \o Tail(todo)
             none == <<>>
  <2>1. ~ AtEnd(scanner) /\ Current(scanner).kind \in {"symbol", "keyword"}
    BY <1>4, CheckedFor
  <2>2. AdvanceThen(none, items)
    BY <1>4 DEF Property
  <2>3. Plain(x) /\ Weight(x) = 1
    <3>1. 1 \in 1 .. 10
      OBVIOUS
    <3>2. QED
      BY <3>1, Entries
  <2>4. c + 2 \in Int /\ c + 2 = c + Weight(x) + 1 /\ c + 2 <= b + 4
    BY <1>2, <2>3
  <2> HIDE DEF x
  <2>5. Asks(u, c + 2)
    BY <1>2, <2>3, <2>4, ExpressionOver
  <2>6. u = items \o Tail(todo)
    OBVIOUS
  <2> HIDE DEF u, items, none
  <2>7. QED
    BY <1>2, <1>3, <2>1, <2>2, <2>4, <2>5, <2>6, AdvancesInto
<1>5. CASE ~ assigns /\ invokes
  <2> DEFINE x == <<"arguments", <<"INVOKE", Arg(1)>> >>
             items == <<x>>
             u == items \o Tail(todo)
             none == <<>>
  <2>1. ~ AtEnd(scanner) /\ Current(scanner).kind \in {"symbol", "keyword"}
    BY <1>5, CheckedFor
  <2>2. AdvanceThen(none, items)
    BY <1>5 DEF Property
  <2>3. Prompts(x) /\ Weight(x) = 3
    <3>1. 1 \in 1 .. 10
      OBVIOUS
    <3>2. QED
      BY <3>1, Entries
  <2>4. c + 3 \in Int /\ c + 3 = c + Weight(x) /\ c + 3 <= b + 4
    BY <1>2, <2>3
  <2> HIDE DEF x
  <2>5. Asks(u, c + 3)
    <3>1. Asks(On(x, Tail(todo)), c + 3)
      BY <1>2, <2>3, <2>4, AsksFor
    <3>2. QED
      BY <3>1 DEF On
  <2>6. u = items \o Tail(todo)
    OBVIOUS
  <2> HIDE DEF u, items, none
  <2>7. QED
    BY <1>2, <1>3, <2>1, <2>2, <2>4, <2>5, <2>6, AdvancesInto
<1>6. CASE ~ assigns /\ ~ invokes
  <2> DEFINE emitted == << <<"GET_PROPERTY", Arg(1)>> >>
  <2>1. Continue(scanner, emitted, <<>>)
    BY <1>6 DEF Property
  <2>2. c <= b
    BY <1>2
  <2> HIDE DEF emitted
  <2>3. QED
    BY <1>2, <1>3, <2>1, <2>2, PopKeeps
<1>7. QED
  BY <1>4, <1>5, <1>6
LEMMA ArgumentsKeep ==
  ASSUME ScannerInv, ParserInv, Arguments
  PROVE  ParserInv'
<1>1. Doing("arguments")
  BY DEF Arguments
<1>2. status = "parsing" /\ Settled(scanner) /\ Head(todo)[1] = "arguments"
  BY <1>1, OnTop
<1>3. PICK b \in Int :
        /\ Room(scanner, b) /\ Prompted(scanner) /\ Rest(Tail(todo), b - Weight(Head(todo)))
  BY <1>1, OnTop
<1>4. Weight(Head(todo)) = 3
  BY <1>2 DEF Weight
<1>5. b - 3 \in Int /\ b - 3 <= b + 4 /\ b = b - 3 + 2 + 1
  OBVIOUS
<1>6. Rest(Tail(todo), b - 3)
  BY <1>3, <1>4
<1>7. PICK S : Tail(todo) \in Seq(S)
  BY <1>5, <1>6, RestLen
<1>8. CASE Check(scanner, <<")">>)
  <2> DEFINE emitted == <<Append(Arg(1), 0)>>
             none == <<>>
             u == none \o Tail(todo)
  <2>1. ~ AtEnd(scanner)
    BY <1>8, CheckedFor
  <2>2. AdvanceThen(emitted, none)
    BY <1>8 DEF Arguments
  <2>3. u = Tail(todo)
    BY <1>7, NoneOn
  <2>4. u = none \o Tail(todo)
    OBVIOUS
  <2> HIDE DEF u, none, emitted
  <2>5. Rest(u, b - 3)
    BY <1>6, <2>3
  <2>6. QED
    BY <1>2, <1>3, <1>5, <2>1, <2>2, <2>4, <2>5, AdvancesInto
<1>9. CASE ~ Check(scanner, <<")">>)
  <2> DEFINE x == <<"comma", Arg(1), 1>>
  <2>1. Plain(x) /\ Weight(x) = 2
    <3>1. 1 \in 1 .. 10
      OBVIOUS
    <3>2. QED
      BY <3>1, Entries
  <2>2. /\ scanner' = scanner /\ status' = status
        /\ todo' = <<Expression, x>> \o Tail(todo)
    BY <1>9 DEF Arguments, Continue
  <2> HIDE DEF x
  <2>3. b = b - 3 + Weight(x) + 1
    BY <1>5, <2>1
  <2>4. Asks(<<Expression, x>> \o Tail(todo), b)
    BY <1>5, <1>6, <2>1, <2>3, ExpressionOver
  <2>5. Asks(todo', b) /\ b <= b
    BY <2>2, <2>4
  <2>6. QED
    BY <1>2, <1>3, <2>2, <2>5, StandsBy
<1>10. QED
  BY <1>8, <1>9

LEMMA CommaKeeps ==
  ASSUME ScannerInv, ParserInv, Comma
  PROVE  ParserInv'
<1>1. Doing("comma")
  BY DEF Comma
<1>2. PICK b \in Int, c \in Int :
        Room(scanner, b) /\ Rest(Tail(todo), c) /\ c = b - 2
  BY <1>1, TopWaits
<1>3. status = "parsing" /\ Settled(scanner)
  BY <1>1, TopWaits
<1>4. PICK S : Tail(todo) \in Seq(S)
  BY <1>1, TopWaits
<1>5. 1 \in 1 .. 10
  OBVIOUS
<1>6. CASE Check(scanner, <<",">>)
  <2> DEFINE x == <<"comma", Arg(1), Arg(2) + 1>>
             items == <<Expression, x>>
             u == items \o Tail(todo)
             none == <<>>
  <2>1. ~ AtEnd(scanner) /\ Current(scanner).kind \in {"symbol", "keyword"}
    BY <1>6, CheckedFor
  <2>2. AdvanceThen(none, items)
    BY <1>6 DEF Comma
  <2>3. Plain(x) /\ Weight(x) = 2
    BY <1>5, Entries
  <2>4. c + 3 \in Int /\ c + 3 = c + Weight(x) + 1 /\ c + 3 <= b + 4
    BY <1>2, <2>3
  <2> HIDE DEF x
  <2>5. Asks(u, c + 3)
    BY <1>2, <2>3, <2>4, ExpressionOver
  <2>6. u = items \o Tail(todo)
    OBVIOUS
  <2> HIDE DEF u, items, none
  <2>7. QED
    BY <1>2, <1>3, <2>1, <2>2, <2>4, <2>5, <2>6, AdvancesInto
<1>7. CASE ~ Check(scanner, <<",">>)
  <2> DEFINE x == Consume(<<")">>)
             y == ThenEmit(Append(Arg(1), Arg(2)))
  <2>1. Plain(x) /\ Weight(x) = 1
    BY <1>5, Entries
  <2>2. Plain(y) /\ Weight(y) = 1
    BY <1>5, Entries
  <2>3. /\ scanner' = scanner /\ status' = status /\ todo' = <<x, y>> \o Tail(todo)
    BY <1>7 DEF Comma, Continue
  <2> HIDE DEF x, y
  <2>4. todo' = On(x, On(y, Tail(todo)))
    BY <1>4, <2>3, TwoOn
  <2>5. Rest(On(y, Tail(todo)), c + 1) /\ c + 1 \in Int
    BY <1>2, <2>2, Waits
  <2>6. Rest(todo', c + 1 + 1)
    BY <2>1, <2>4, <2>5, Waits
  <2>7. c + 1 + 1 \in Int /\ c + 1 + 1 <= b
    BY <1>2
  <2>8. QED
    BY <1>2, <1>3, <2>3, <2>6, <2>7, StandsBy
<1>8. QED
  BY <1>6, <1>7

LEMMA ParseKeeps ==
  ASSUME ScannerInv, ParserInv, Parse
  PROVE  ParserInv'
<1>1. CASE Program
  BY <1>1, ProgramKeeps
<1>2. CASE Emission
  BY <1>2, EmissionKeeps
<1>3. CASE Consumption
  BY <1>3, ConsumptionKeeps
<1>4. CASE ParsePrecedence
  BY <1>4, ParsePrecedenceKeeps
<1>5. CASE Infix
  BY <1>5, InfixKeeps
<1>6. CASE Variable
  BY <1>6, VariableKeeps
<1>7. CASE UnaryOperator
  BY <1>7, UnaryOperatorKeeps
<1>8. CASE BinaryOperator
  BY <1>8, BinaryOperatorKeeps
<1>9. CASE Arguments
  BY <1>9, ArgumentsKeep
<1>10. CASE Comma
  BY <1>10, CommaKeeps
<1>11. CASE Dot
  BY <1>11, DotKeeps
<1>12. CASE Property
  BY <1>12, PropertyKeeps
<1>13. QED
  BY <1>1, <1>2, <1>3, <1>4, <1>5, <1>6, <1>7, <1>8, <1>9, <1>10, <1>11, <1>12 DEF Parse
LEMMA ParserInvInit == Init => ParserInv
BY DEF Init, ParserInv

(* The parser starts with a token for the program to look at.              *)
LEMMA StartsToParse ==
  ASSUME todo' = << <<"program">> >>, status' = "parsing", Settled(scanner'),
         Consumed(scanner') \in Int, 0 <= Consumed(scanner')
  PROVE  ParserInv'
<1>1. Rest(todo', 1)
  BY RestProgram
<1> DEFINE k == Consumed(scanner')
<1>2. k \in Int /\ 0 <= k
  OBVIOUS
<1> HIDE DEF k
<1>3. 1 <= 4 * k + 4
  BY <1>2
<1>4. Room(scanner', 1)
  BY <1>3 DEF Room, k
<1>5. Affordable(scanner', todo', 1)
  BY <1>1, <1>4 DEF Affordable
<1>6. QED
  BY <1>5 DEF ParserInv

LEMMA ParserInvStep ==
  ASSUME ScannerInv, ParserInv, [Next]_vars
  PROVE  ParserInv'
<1>1. CASE Scan
  <2>1. status' \in {"scanning", "error", "undefined"} /\ todo' = todo /\ status = "scanning"
    BY <1>1 DEF Scan, End
  <2>2. QED
    BY <2>1 DEF ParserInv
<1>2. CASE EndScan
  <2>1. /\ status = "scanning" /\ status' = "parsing" /\ todo' = todo
        /\ scanner.kind = "readall"
        /\ scanner' = [scanner EXCEPT !.tokens = Append(@, EndToken)]
    BY <1>2 DEF EndScan
  <2>2. scanner \in ScannerSet /\ scanner.index = 0
    BY <2>1 DEF ScannerInv, Placed, Unfinished, Rejected, Finished, IsReadAll
  <2>3. scanner'.kind = "readall" /\ scanner'.index = 0
    BY <2>1, <2>2 DEF ScannerSet
  <2>4. Settled(scanner') /\ Consumed(scanner') = 0
    BY <2>3 DEF Settled, Consumed
  <2>5. todo' = << <<"program">> >>
    BY <2>1 DEF ParserInv
  <2>6. QED
    BY <2>1, <2>4, <2>5, StartsToParse
<1>3. CASE ScanFirst
  <2>1. /\ status = "scanning" /\ todo' = todo /\ scanner.kind = "byone"
        /\ scanner' = Advance(scanner)
        /\ status' = IF Throws(scanner) THEN "error" ELSE "parsing"
    BY <1>3 DEF ScanFirst
  <2>2. CASE Throws(scanner)
    BY <2>1, <2>2 DEF ParserInv
  <2>3. CASE ~ Throws(scanner)
    <3>1. Placed(scanner) /\ scanner.at \in Nat /\ scanner.at >= 1
      BY DEF ScannerInv, Placed, ScannerSet
    <3>2. /\ scanner'.kind = "byone" /\ Placed(scanner') /\ scanner'.source = scanner.source
          /\ IF EndOfSource(scanner) THEN scanner' = Shifted(scanner, EndToken)
             ELSE /\ scanner.at < scanner'.at
                  /\ \E token \in TokenSet :
                       scanner'.tokens = <<scanner.tokens[2], token>> /\ token.kind # "end"
      BY <2>1, <2>3, <3>1, ByOneAdvances
    <3>3. scanner'.index = 1 /\ scanner'.at \in Nat
      BY <3>2 DEF Placed, ScannerSet
    <3>4. EndToken.kind = "end"
      BY DEF EndToken, Token
    <3>5. CASE EndOfSource(scanner)
      <4>1. scanner'.tokens = <<scanner.tokens[2], EndToken>> /\ scanner'.at = scanner.at
        BY <3>1, <3>2, <3>5 DEF Shifted, Placed, ScannerSet
      <4>2. AtEnd(scanner') /\ EndOfSource(scanner')
        BY <3>2, <3>3, <3>4, <3>5, <4>1 DEF AtEnd, Current, EndOfSource
      <4>3. Settled(scanner') /\ Consumed(scanner') = scanner.at - 1
        BY <3>1, <3>2, <4>1, <4>2 DEF Settled, Consumed
      <4>4. Consumed(scanner') \in Int /\ 0 <= Consumed(scanner')
        BY <3>1, <4>3
      <4>5. QED
        BY <2>1, <2>3, <4>3, <4>4, StartsToParse DEF ParserInv
    <3>6. CASE ~ EndOfSource(scanner)
      <4>1. PICK token \in TokenSet :
              scanner'.tokens = <<scanner.tokens[2], token>> /\ token.kind # "end"
        BY <3>2, <3>6
      <4>2. ~ AtEnd(scanner')
        BY <3>3, <4>1 DEF AtEnd, Current
      <4>3. scanner'.at >= 2
        BY <3>1, <3>2, <3>3, <3>6
      <4>4. Settled(scanner') /\ Consumed(scanner') = scanner'.at - 1 - 1
        BY <3>2, <4>2, <4>3 DEF Settled, Consumed
      <4>5. Consumed(scanner') \in Int /\ 0 <= Consumed(scanner')
        BY <3>3, <4>3, <4>4
      <4>6. QED
        BY <2>1, <2>3, <4>4, <4>5, StartsToParse DEF ParserInv
    <3>7. QED
      BY <3>5, <3>6
  <2>4. QED
    BY <2>2, <2>3
<1>4. CASE Synchronize
  <2>1. status' \in {"error", "synchronizing"}
    BY <1>4 DEF Synchronize
  <2>2. QED
    BY <2>1 DEF ParserInv
<1>5. CASE ~ TooDeep /\ Parse
  BY <1>5, ParseKeeps
<1>6. CASE StackOverflow
  <2>1. status = "parsing" /\ status' = "crashed" /\ scanner' = scanner /\ TooDeep
    BY <1>6 DEF StackOverflow, End
  <2>2. PICK b : Affordable(scanner, todo, b)
    BY <2>1 DEF ParserInv
  <2>3. b \in Int /\ Room(scanner, b) /\ (Rest(todo, b) \/ Asks(todo, b)) /\ Settled(scanner)
    BY <2>1, <2>2 DEF Affordable, ParserInv
  <2>4. Len(todo) \in Nat /\ Len(todo) <= b
    BY <2>3, Pops
  <2>5. /\ Consumed(scanner) \in Int /\ Consumed(scanner) <= Len(Source)
        /\ Len(Source) \in Nat
    BY <2>1, <2>3, ConsumedBounds
  <2> DEFINE k == Consumed(scanner)
             m == Len(Source)
             n == Len(todo)
  <2>6. n > 4 * (m + 1)
    BY <2>1 DEF TooDeep, Source
  <2>7. k \in Int /\ k <= m /\ m \in Nat /\ n \in Nat /\ n <= b
    BY <2>4, <2>5
  <2> HIDE DEF k, m, n
  <2>8. ~ (b <= 4 * k + 4)
    BY <2>3, <2>6, <2>7
  <2>9. Doomed(scanner)
    BY <2>3, <2>8 DEF Room, k
  <2>10. QED
    BY <2>1, <2>9 DEF ParserInv
<1>7. CASE UNCHANGED vars
  BY <1>7 DEF vars, ParserInv
<1>8. QED
  BY <1>1, <1>2, <1>3, <1>4, <1>5, <1>6, <1>7 DEF Next

(* What the parser has to do is never more than the tokens it has read     *)
(* pay for, four calls each, unless it will ask for an expression for      *)
(* ever.                                                                   *)
THEOREM ParserInvariant == Spec => []ParserInv
<1>1. Init => ParserInv
  BY ParserInvInit
<1>2. ScannerInv /\ ParserInv /\ [Next]_vars => ParserInv'
  BY ParserInvStep
<1>3. QED
  BY <1>1, <1>2, ScannerInvariant, PTL DEF Spec

(* Neither scanner leaves its source or its tokens: there are always a     *)
(* previous and a current token where the parser looks for them, and there *)
(* is always a call to return to.                                          *)
THEOREM FrontEndTypes == Spec => []TypeOK
<1>1. ScannerInv /\ ParserInv => TypeOK
  <2> SUFFICES ASSUME ScannerInv, ParserInv PROVE TypeOK
    OBVIOUS
  <2> DEFINE m == Len(scanner.source)
             n == Len(scanner.tokens)
             i == scanner.index
  <2>1. /\ scanner \in ScannerSet /\ scanner.source \in Text
        /\ scanner.tokens \in Seq(TokenSet) /\ i \in Nat
        /\ scanner.at \in 1 .. m + 1 /\ scanner.line \in 1 .. scanner.at
        /\ scanner.kind = "byone" => n = 2 /\ i = 1
    BY DEF ScannerInv, Placed, ScannerSet
  <2>2. m \in Nat /\ n \in Nat
    BY <2>1, Characters, LenProperties
  <2>3. scanner.kind = "readall" =>
          i \in 0 .. n /\ (status \in {"parsing", "synchronizing"} => i < n)
    <3>1. ASSUME scanner.kind = "readall"
          PROVE  i = 0 \/ i \in 0 .. n - 1
      BY <3>1 DEF ScannerInv, Unfinished, Rejected, Finished, IsReadAll
    <3>2. ASSUME scanner.kind = "readall", status \in {"parsing", "synchronizing"}
          PROVE  i \in 0 .. n - 1
      BY <3>2 DEF ScannerInv, Unfinished, Rejected, Finished, IsReadAll
    <3> HIDE DEF i, n
    <3>3. QED
      BY <2>2, <3>1, <3>2
  <2>4. status = "parsing" => todo # <<>>
    BY Pops DEF ParserInv, Affordable
  <2>5. scanner.kind \in {"readall", "byone"}
    BY <2>1 DEF ScannerSet
  <2> DEFINE p == scanner.at
             l == scanner.line
  <2>6. p \in 1 .. m + 1 /\ l \in 1 .. p /\ (scanner.kind = "byone" => n = 2 /\ i = 1)
    BY <2>1
  <2> HIDE DEF m, n, i, p, l
  <2>7. l \in 1 .. m + 1 /\ i \in 0 .. n
        /\ (status \in {"parsing", "synchronizing"} => i < n)
    BY <2>2, <2>3, <2>5, <2>6
  <2>8. QED
    BY <2>4, <2>6, <2>7 DEF TypeOK, Source, m, n, i, p, l
<1>2. QED
  BY <1>1, ScannerInvariant, ParserInvariant, PTL

(* The parser calls itself without end only with the readall scanner, and  *)
(* only when the last token before the end of the source is one that asks  *)
(* for an expression.                                                      *)
THEOREM CrashesAtTheEnd == Spec => []CrashesOnlyAtTheEnd
<1>1. ScannerInv /\ ParserInv => CrashesOnlyAtTheEnd
  <2> SUFFICES ASSUME ScannerInv, ParserInv, ~ AdjacentEscapes, status = "crashed"
               PROVE  /\ IsReadAll
                      /\ \E c \in {"-", "!", "("} : Is(Last(Tokens), "symbol", <<c>>)
    BY DEF CrashesOnlyAtTheEnd
  <2>1. Doomed(scanner)
    BY DEF ParserInv
  <2>2. /\ IsReadAll /\ AtEnd(scanner) /\ HasPrevious(scanner) /\ scanner.kind = "readall"
        /\ \E c \in {"-", "!", "("} : Is(Previous(scanner), "symbol", <<c>>)
    BY <2>1 DEF Doomed, IsReadAll
  <2>3. Finished
    BY <2>2 DEF ScannerInv, Unfinished, Rejected
  <2>4. Readable(scanner)
    BY <2>3 DEF ScannerInv, Readable, Finished
  <2> DEFINE l == scanner.tokens
             n == Len(l)
             i == scanner.index
  <2>5. i = n - 1
    BY <2>2, <2>4, ReadAllAdvances
  <2>6. l \in Seq(TokenSet) /\ i \in Nat /\ i > 0 /\ Lexemes = l
    BY <2>2, <2>3, <2>4 DEF Readable, Placed, ScannerSet, HasPrevious, Finished
  <2>7. n \in Nat
    BY <2>6, LenProperties
  <2> DEFINE front == SubSeq(l, 1, n - 1)
  <2>8. Tokens = front
    BY <2>6 DEF Tokens, Front
  <2>9. Previous(scanner) = l[i]
    BY DEF Previous
  <2> HIDE DEF l, n, i, front
  <2>10. 1 \in 1 .. n + 1 /\ n - 1 \in 1 - 1 .. n /\ n - 1 - 1 + 1 = n - 1 /\ i \in 1 .. n - 1
         /\ 1 + i - 1 = i
    BY <2>5, <2>6, <2>7
  <2>11. Len(front) = n - 1 /\ \A j \in 1 .. n - 1 : front[j] = l[1 + j - 1]
    <3>1. /\ Len(SubSeq(l, 1, n - 1)) = n - 1 - 1 + 1
          /\ \A j \in 1 .. n - 1 - 1 + 1 : SubSeq(l, 1, n - 1)[j] = l[1 + j - 1]
      BY <2>6, <2>7, <2>10, SubSeqProperties DEF n
    <3>2. QED
      BY <3>1, <2>10 DEF front
  <2>12. front[i] = l[i]
    BY <2>10, <2>11
  <2>13. Last(front) = front[i]
    BY <2>5, <2>11 DEF Last
  <2>14. Last(Tokens) = Previous(scanner)
    BY <2>8, <2>9, <2>12, <2>13
  <2>15. QED
    BY <2>2, <2>14
<1>2. QED
  BY <1>1, ScannerInvariant, ParserInvariant, PTL
=============================================================================
