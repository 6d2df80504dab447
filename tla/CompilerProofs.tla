--------------------------- MODULE CompilerProofs ---------------------------
(***************************************************************************)
(* Theorems about Compiler, for every grammar, every program and every     *)
(* bound.  Each action takes the head of the plan away and may put entries *)
(* before the rest: there is a lemma ...Compiles for each of them.         *)
(***************************************************************************)
EXTENDS PlanProofs

-----------------------------------------------------------------------------
(* Expressions: one value more when they have been read.                   *)

LEMMA AtPrecedence ==
  ASSUME NEW w, NEW s, NEW t, Standing(w, s, t), Head(todo)[1] = "precedence"
  PROVE  /\ s \in State /\ t \in State /\ Full(s) /\ s.extra \in Nat
         /\ Becomes(s, t, s.extra + 1, s.open)
         /\ Fitted(Current.code, Current.arity, w[Len(chunks)], s)
         /\ Current \in ChunkSet /\ Recoded(Current, Current)
         /\ \A b : Recoded(Current, b) => Succeeds(With(b), b)
         /\ Level \in Strength
<1>1. Rule(Head(todo), s, t, w[Len(chunks)]) /\ s \in State /\ t \in State /\ Full(s)
  BY StandingFacts
<1>2. Pushes(s, t) /\ Level \in Strength
  BY <1>1, RuleOf DEF Level, Arg
<1>3. s.extra \in Nat
  BY <1>1 DEF State
<1>4. QED
  BY <1>1, <1>2, <1>3, StandingFacts, RecodingFacts DEF Pushes

LEMMA AppendOne ==
  ASSUME NEW items, NEW s, NEW t, NEW v, Leading(items, s, t, v), NEW x
  PROVE  Append(items, x) = items \o <<x>>
<1>1. PICK S : items \in Seq(S)
  BY Zenon DEF Leading
<1>2. items \in Seq(S \cup {x}) /\ x \in S \cup {x}
  BY <1>1, SeqMonotonic
<1>3. QED
  BY <1>2, AppendIsConcat

(* The plan of a prefix rule: the value, then what binds as tightly.       *)
LEMMA PrefixLeads ==
  ASSUME NEW s \in State, NEW t, Becomes(s, t, s.extra + 1, s.open), NEW v, NEW items, NEW u,
         Leading(items, u, Above(s, s.extra + 1), v), NEW p \in Strength, NEW d
  PROVE  Leading(Append(items, <<"infix", p, d>>), u, t, v)
<1> DEFINE x == <<"infix", p, d>>
<1>1. s.extra + 1 \in Nat /\ s.extra + 1 >= 1
  BY DEF State
<1>2. Leading(<<x>>, Above(s, s.extra + 1), t, v)
  BY <1>1, LeadInfix
<1> HIDE DEF x
<1>3. Leading(items \o <<x>>, u, t, v)
  BY <1>2, LeadJoin
<1>4. QED
  BY <1>3, AppendOne DEF x

LEMMA PrefixOnly ==
  ASSUME NEW s \in State, NEW t, Becomes(s, t, s.extra + 1, s.open), NEW v,
         NEW p \in Strength, NEW d
  PROVE  Leading(Append(<<>>, <<"infix", p, d>>), Above(s, s.extra + 1), t, v)
<1>1. s.extra + 1 \in Nat
  BY DEF State
<1>2. Above(s, s.extra + 1) \in State
  BY <1>1, AboveFacts
<1>3. Leading(<<>>, Above(s, s.extra + 1), Above(s, s.extra + 1), v)
  BY <1>2, LeadNone
<1>4. QED
  BY <1>3, PrefixLeads

(* A prefix rule that writes one instruction.                              *)
LEMMA PrefixEmits ==
  ASSUME NEW w, NEW s, NEW t, Standing(w, s, t), Head(todo)[1] = "precedence",
         NEW cs, NEW c, Succeeds(cs, c), Rewritten(Current, c),
         NEW v, Fitted(c.code, c.arity, v, Above(s, s.extra + 1)), Extends(w[Len(chunks)], v),
         NEW p \in Strength, NEW d, Continue(cs, Append(<<>>, <<"infix", p, d>>))
  PROVE  Compiles'
<1>1. /\ s \in State /\ s.extra + 1 \in Nat /\ Becomes(s, t, s.extra + 1, s.open)
  BY AtPrecedence
<1>2. Above(s, s.extra + 1) \in State /\ Stays(s, Above(s, s.extra + 1))
  BY <1>1, AboveFacts
<1>3. Leading(Append(<<>>, <<"infix", p, d>>), Above(s, s.extra + 1), t, v)
  BY <1>1, PrefixOnly
<1>4. QED
  BY <1>2, <1>3, WroteMore

LEMMA LiteralCompiles ==
  ASSUME Compiles, Literal
  PROVE  Compiles'
<1>1. Head(todo)[1] = "precedence"
  BY DEF Literal, Doing
<1>2. PICK w, s, t : Standing(w, s, t)
  BY <1>1, HeadStands
<1> DEFINE v == w[Len(chunks)]
           x == <<"infix", Level, Depth>>
           c == Emit(Current, << <<"NIL">> >>)
           n == EmitConstant(Current, "CONSTANT", Number, <<>>)
<1>3. /\ s \in State /\ Full(s) /\ s.extra \in Nat
      /\ Fitted(Current.code, Current.arity, v, s)
      /\ Current \in ChunkSet /\ Recoded(Current, Current)
      /\ \A b : Recoded(Current, b) => Succeeds(With(b), b)
      /\ Level \in Strength
  BY <1>1, <1>2, AtPrecedence
<1>4. \/ Continue(With(c), Append(<<>>, x))
      \/ Continue(With(n), Append(<<>>, x))
  BY DEF Literal, Prefix
<1> HIDE DEF v
<1>5. CASE Continue(With(c), Append(<<>>, x))
  <2>1. PICK v2 : Fitted(Current.code \o << <<"NIL">> >>, Current.arity, v2, Above(s, s.extra + 1)) /\ Extends(v, v2)
    <3>1. Shape(<<"NIL">>, 0, 1) /\ 0 <= s.extra /\ s.extra + 1 \in Nat
      BY <1>3, Shapes
    <3>2. QED
      BY <3>1, <1>3, WriteShape
  <2>2. Succeeds(With(c), c) /\ Recoded(Current, c) /\ Fitted(c.code, c.arity, v2, Above(s, s.extra + 1))
    <3>1. Mild(<< <<"NIL">> >>, Len(Current.upvalues))
      BY Shapes, MildOne DEF Shape
    <3>2. QED
      BY <3>1, <1>2, <2>1, Emitted
  <2> HIDE DEF c
  <2>3. QED
    BY <1>1, <1>2, <1>3, <1>5, <2>1, <2>2, RecodedRewrites, PrefixEmits DEF v
<1>6. CASE Continue(With(n), Append(<<>>, x))
  <2> DEFINE op == "CONSTANT"
             operands == <<>>
             e == s.extra + 1
  <2>1. /\ ConstantShape(op, operands, 0, 1) /\ Number \in Constant
        /\ e \in Nat /\ e = s.extra + 1 /\ 0 <= s.extra /\ 0 \in Nat /\ 1 \in Int
        /\ n = EmitConstant(Current, op, Number, operands)
    BY <1>3, ConstantShapes DEF Number, Constant
  <2> HIDE DEF n, op, operands, e
  <2>2. /\ n \in ChunkSet /\ Recoded(Current, n)
        /\ Written(n, v, Above(s, e))
    BY <2>1, <1>3, ConstantWritten
  <2>3. PICK v2 : Fitted(n.code, n.arity, v2, Above(s, s.extra + 1)) /\ Extends(v, v2)
    BY <2>2 DEF Written, e
  <2>4. Succeeds(With(n), n)
    BY <1>3, <2>2
  <2>5. QED
    BY <1>1, <1>2, <1>3, <1>6, <2>2, <2>3, <2>4, RecodedRewrites, PrefixEmits DEF v
<1>7. QED
  BY <1>4, <1>5, <1>6

LEMMA GroupingCompiles ==
  ASSUME Compiles, Grouping
  PROVE  Compiles'
<1>1. Head(todo)[1] = "precedence"
  BY DEF Grouping, Doing
<1>2. PICK w, s, t : Standing(w, s, t)
  BY <1>1, HeadStands
<1> DEFINE v == w[Len(chunks)]
           e == s.extra + 1
           items == <<Expression(Depth), RightParen>>
<1>3. Level \in Strength /\ s \in State /\ e \in Nat /\ s.extra \in Nat /\ Becomes(s, t, e, s.open) /\ Above(s, s.extra) = s
  BY <1>1, <1>2, AtPrecedence, AboveSelf
<1>4. Continue(chunks, Append(items, <<"infix", Level, Depth>>))
  BY DEF Grouping, Prefix
<1>5. Becomes(s, Above(s, e), e, s.open)
  BY <1>3, AboveFacts
<1>6. Leading(<<Expression(Depth)>>, s, Above(s, e), v)
  BY <1>3, <1>5, LeadExpression
<1> HIDE DEF v
<1>7. Leading(<<RightParen>>, Above(s, e), Above(s, e), v)
  BY <1>3, <1>5, LeadParen
<1>8. Leading(items, s, Above(s, e), v)
  BY <1>6, <1>7, LeadTwo
<1> HIDE DEF items
<1>9. Leading(Append(items, <<"infix", Level, Depth>>), s, t, v)
  BY <1>3, <1>8, PrefixLeads
<1>10. QED
  BY <1>2, <1>4, <1>9, Planned DEF v

LEMMA UnaryCompiles ==
  ASSUME Compiles, Unary
  PROVE  Compiles'
<1>1. Head(todo)[1] = "precedence"
  BY DEF Unary, Doing
<1>2. PICK w, s, t : Standing(w, s, t)
  BY <1>1, HeadStands
<1> DEFINE v == w[Len(chunks)]
           e == s.extra + 1
           i == <<"NEGATE">>
           items == <<Precedence(UNARY, Depth), ThenEmit(<<i>>)>>
<1>3. s \in State /\ Full(s) /\ e \in Nat /\ s.extra \in Nat /\ Becomes(s, t, e, s.open)
      /\ Above(s, s.extra) = s /\ 1 <= e /\ Level \in Strength
  BY <1>1, <1>2, AtPrecedence, AboveSelf
<1>4. Continue(chunks, Append(items, <<"infix", Level, Depth>>))
  BY DEF Unary, Prefix
<1>5. Becomes(s, Above(s, e), e, s.open)
  BY <1>3, AboveFacts
<1>6. Leading(<<Precedence(UNARY, Depth)>>, s, Above(s, e), v)
  <2>1. UNARY \in Strength
    BY DEF UNARY, Strength, Anything
  <2> HIDE DEF e, v
  <2>2. Leading(<<Precedence(UNARY, Depth)>>, Above(s, s.extra), Above(s, e), v)
    BY <2>1, <1>3, <1>5, LeadPrecedence DEF e
  <2>3. QED
    BY <2>2, <1>3
<1>7. Leading(<<ThenEmit(<<i>>)>>, Above(s, e), Above(s, e), v)
  <2>1. Shape(i, 1, 0) /\ e + 0 = e
    BY <1>3, Shapes
  <2> HIDE DEF i, v, e
  <2>2. QED
    BY <2>1, <1>3, <1>5, LeadShape
<1> HIDE DEF v
<1>8. Leading(items, s, Above(s, e), v)
  BY <1>6, <1>7, LeadTwo
<1> HIDE DEF items
<1>9. Leading(Append(items, <<"infix", Level, Depth>>), s, t, v)
  BY <1>3, <1>8, PrefixLeads
<1>10. QED
  BY <1>2, <1>4, <1>9, Planned DEF v

(* `this' is slot zero, which every function has.                          *)
LEMMA EmitThis ==
  ASSUME NEW w, NEW s, NEW t, Standing(w, s, t), Head(todo)[1] = "precedence"
  PROVE  LET c == Emit(Current, << <<"GET_LOCAL", 0>> >>)
         IN  /\ Succeeds(With(c), c) /\ Recoded(Current, c) /\ c \in ChunkSet
             /\ \E v : /\ Fitted(c.code, c.arity, v, Above(s, s.extra + 1))
                       /\ Extends(w[Len(chunks)], v)
<1> DEFINE i == <<"GET_LOCAL", 0>>
           c == Emit(Current, <<i>>)
           v == w[Len(chunks)]
<1>1. /\ s \in State /\ Full(s) /\ s.extra \in Nat /\ s.extra + 1 \in Nat
      /\ Fitted(Current.code, Current.arity, v, s)
  BY AtPrecedence
<1>2. /\ i \in Instruction /\ ~ Jumps(i) /\ Takes(i) = 0 /\ Net(i) = 1 /\ i[2] = 0
  BY DEF Instruction, WithOperand, Jumps, Takes, Leaves, Net
<1> HIDE DEF i, v
<1>3. Takes(i) < HeightOf(s) /\ i[2] < HeightOf(s) /\ s.extra + 1 = s.extra + Net(i)
  BY <1>1, <1>2, FullFacts
<1>4. PICK v2 : Fitted(Current.code \o <<i>>, Current.arity, v2, Above(s, s.extra + 1)) /\ Extends(v, v2)
  BY <1>1, <1>2, <1>3, WriteOne DEF Above
<1>5. Succeeds(With(c), c) /\ Recoded(Current, c) /\ Fitted(c.code, c.arity, v2, Above(s, s.extra + 1))
      /\ c \in ChunkSet
  <2>1. i[1] \notin Special
    BY DEF i, Special, Reads
  <2>2. Mild(<<i>>, Len(Current.upvalues))
    BY <2>1, <1>2, MildOne
  <2>3. QED
    BY <2>2, <1>4, Emitted
<1> HIDE DEF c
<1>6. QED
  BY <1>4, <1>5 DEF c, i, v

LEMMA ThisCompiles ==
  ASSUME Compiles, This, status' = "compiling"
  PROVE  Compiles'
<1>1. Head(todo)[1] = "precedence"
  BY DEF This, Doing
<1>2. PICK w, s, t : Standing(w, s, t)
  BY <1>1, HeadStands
<1> DEFINE c == Emit(Current, << <<"GET_LOCAL", 0>> >>)
<1>3. Continue(With(c), Append(<<>>, <<"infix", Level, Depth>>))
  BY DEF This, Prefix, Fail
<1>4. /\ Succeeds(With(c), c) /\ Recoded(Current, c)
      /\ \E v : /\ Fitted(c.code, c.arity, v, Above(s, s.extra + 1))
                /\ Extends(w[Len(chunks)], v)
  BY <1>1, <1>2, EmitThis
<1>6. Level \in Strength
  BY <1>1, <1>2, AtPrecedence
<1> HIDE DEF c
<1>5. QED
  BY <1>1, <1>2, <1>3, <1>4, <1>6, RecodedRewrites, PrefixEmits

-----------------------------------------------------------------------------
(* Infix rules: the first operand is on the stack, the result replaces it. *)

LEMMA GrammarFacts ==
  ASSUME grammar \in Grammars
  PROVE  /\ Name \subseteq Names /\ "super" \notin Name
         /\ grammar.operators \subseteq {"ADD", "MULTIPLY", "LESS", "EQUAL"}
         /\ grammar.arity \in Nat /\ 0 .. grammar.arity \subseteq Nat
         /\ \A name \in Names : Text(name) \in Constant
<1>1. DOMAIN PrecedenceOf = {"EQUAL", "LESS", "ADD", "MULTIPLY"}
  BY DEF PrecedenceOf
<1>2. /\ "super" \notin grammar.names /\ grammar.operators \subseteq DOMAIN PrecedenceOf
      /\ grammar.arity \in Nat
  BY CompilerAssumption
<1>3. Name \subseteq Names
  BY DEF Name, Names
<1>4. \A name \in Names : Text(name) \in Constant
  BY DEF Text, Constant
<1>5. QED
  BY <1>1, <1>2, <1>3, <1>4 DEF Name

LEMMA AtInfix ==
  ASSUME NEW w, NEW s, NEW t, Standing(w, s, t), Head(todo)[1] = "infix"
  PROVE  /\ s \in State /\ t \in State /\ Full(s) /\ s.extra \in Nat /\ s.extra >= 1
         /\ Above(s, s.extra) = s /\ Becomes(s, s, s.extra, s.open)
         /\ \A v : Extends(w[Len(chunks)], v) => Leading(<<Head(todo)>>, s, t, v)
         /\ Leading(<<Head(todo)>>, s, t, w[Len(chunks)])
<1>1. Rule(Head(todo), s, t, w[Len(chunks)]) /\ s \in State /\ t \in State /\ Full(s)
  BY StandingFacts
<1>2. s.extra >= 1 /\ s.extra \in Nat
  BY <1>1, RuleOf DEF State
<1>3. Extends(w[Len(chunks)], w[Len(chunks)])
  BY DEF Extends
<1>4. QED
  BY <1>1, <1>2, <1>3, AboveSelf, BecomesItself, LeadAgain

LEMMA BinaryCompiles ==
  ASSUME Compiles, Binary, grammar \in Grammars
  PROVE  Compiles'
<1>1. Head(todo)[1] = "infix"
  BY DEF Binary, Infix, Doing
<1>2. PICK w, s, t : Standing(w, s, t)
  BY <1>1, HeadStands
<1>3. PICK op \in grammar.operators :
        Continue(chunks, <<Precedence(PrecedenceOf[op] + 1, Depth),
                           ThenEmit(<< <<op>> >>), Head(todo)>>)
  BY DEF Binary
<1> DEFINE v == w[Len(chunks)]
           e == s.extra
           f == s.extra + 1
           i == <<op>>
           x == Precedence(PrecedenceOf[op] + 1, Depth)
           y == ThenEmit(<<i>>)
           z == Head(todo)
<1>4. /\ s \in State /\ Full(s) /\ e \in Nat /\ f \in Nat /\ f = e + 1 /\ 2 <= f /\ f + (-1) = e
      /\ Above(s, e) = s /\ Becomes(s, s, e, s.open) /\ Leading(<<z>>, s, t, v)
  <2>1. /\ s \in State /\ Full(s) /\ s.extra \in Nat /\ s.extra >= 1
        /\ Above(s, s.extra) = s /\ Becomes(s, s, s.extra, s.open)
        /\ Leading(<<z>>, s, t, v)
    BY <1>1, <1>2, AtInfix
  <2>2. QED
    BY <2>1
<1>5. Shape(i, 2, -1)
  BY <1>3, GrammarFacts, Shapes
<1>12. PrecedenceOf[op] + 1 \in Strength
  <2>1. op \in {"ADD", "MULTIPLY", "LESS", "EQUAL"}
    BY <1>3, GrammarFacts
  <2>2. QED
    BY <2>1 DEF PrecedenceOf, Strength, Anything
<1>6. Becomes(s, Above(s, f), f, s.open)
  BY <1>4, AboveFacts
<1>7. Continue(chunks, <<x, y, z>>)
  BY <1>3
<1> HIDE DEF v, e, f, i, z
<1>8. Leading(<<x>>, s, Above(s, f), v)
  <2>1. Leading(<<x>>, Above(s, e), Above(s, f), v)
    BY <1>4, <1>6, <1>12, LeadPrecedence
  <2>2. QED
    BY <2>1, <1>4
<1>9. Leading(<<y>>, Above(s, f), s, v)
  BY <1>4, <1>5, LeadShape
<1> HIDE DEF x, y
<1>10. Leading(<<x, y, z>>, s, t, v)
  BY <1>4, <1>8, <1>9, LeadThree
<1>11. QED
  BY <1>2, <1>7, <1>10, Planned DEF v

LEMMA NoInfixCompiles ==
  ASSUME Compiles, NoInfix
  PROVE  Compiles'
<1>1. Head(todo)[1] = "infix"
  BY DEF NoInfix, Doing
<1>2. PICK w, s, t : Standing(w, s, t)
  BY <1>1, HeadStands
<1>3. Rule(Head(todo), s, t, w[Len(chunks)]) /\ s \in State /\ Succeeds(chunks, Current)
      /\ Fitted(Current.code, Current.arity, w[Len(chunks)], s) /\ Current \in ChunkSet
  BY <1>2, StandingFacts
<1>4. Weaker(s, t)
  BY <1>1, <1>3, RuleOf DEF Remains, Weaker
<1>5. Continue(chunks, <<>>) /\ Recoded(Current, Current) /\ Stays(s, s)
      /\ Extends(w[Len(chunks)], w[Len(chunks)])
  BY <1>2, <1>3, Stay, RecodingFacts DEF NoInfix, Extends
<1>6. QED
  BY <1>2, <1>3, <1>4, <1>5, WroteAll

LEMMA AtRightParenCompiles ==
  ASSUME Compiles, AtRightParen
  PROVE  Compiles'
<1>1. Head(todo)[1] = "paren"
  BY DEF AtRightParen, Doing
<1>2. PICK w, s, t : Standing(w, s, t)
  BY <1>1, HeadStands
<1>3. Rule(Head(todo), s, t, w[Len(chunks)]) /\ s \in State /\ Succeeds(chunks, Current)
      /\ Fitted(Current.code, Current.arity, w[Len(chunks)], s) /\ Current \in ChunkSet
  BY <1>2, StandingFacts
<1>4. Weaker(s, t)
  BY <1>1, <1>3, RuleOf DEF Remains, Weaker
<1>5. Continue(chunks, <<>>) /\ Recoded(Current, Current) /\ Stays(s, s)
      /\ Extends(w[Len(chunks)], w[Len(chunks)])
  BY <1>2, <1>3, Stay, RecodingFacts DEF AtRightParen, Extends
<1>6. QED
  BY <1>2, <1>3, <1>4, <1>5, WroteAll

(* The arguments of a call, then the instruction x that takes them.        *)
LEMMA LeadCall ==
  ASSUME NEW s \in State, Full(s), NEW e \in Nat, NEW n \in Nat, NEW d, NEW v, NEW x, NEW y,
         NEW m, Leading(<<x>>, Above(s, e + n), m, v), NEW t, Leading(<<y>>, m, t, v)
  PROVE  Leading(Arguments(n, d) \o <<RightParen, x, y>>, Above(s, e), t, v)
<1> DEFINE a == Arguments(n, d)
           f == e + n
           u == Above(s, f)
<1>1. Leading(a, Above(s, e), u, v)
  BY LeadArguments
<1>2. f \in Nat /\ Leading(<<x>>, u, m, v)
  OBVIOUS
<1> HIDE DEF f, a
<1>3. Becomes(s, u, f, s.open)
  BY <1>2, AboveFacts
<1>4. Leading(<<RightParen>>, u, u, v)
  BY <1>2, <1>3, LeadParen
<1> HIDE DEF u
<1>5. Leading(<<RightParen, x, y>>, u, t, v)
  BY <1>2, <1>4, LeadThree
<1>6. QED
  BY <1>1, <1>5, LeadJoin DEF a

LEMMA CallCompiles ==
  ASSUME Compiles, Call, grammar \in Grammars
  PROVE  Compiles'
<1>1. Head(todo)[1] = "infix"
  BY DEF Call, Infix, Doing
<1>2. PICK w, s, t : Standing(w, s, t)
  BY <1>1, HeadStands
<1>3. PICK n \in 0 .. grammar.arity :
        Continue(chunks, Arguments(n, Depth) \o
                           <<RightParen, ThenEmit(<< <<"CALL", n>> >>), Head(todo)>>)
  BY DEF Call
<1> DEFINE v == w[Len(chunks)]
           e == s.extra
           f == s.extra + n
           i == <<"CALL", n>>
           x == ThenEmit(<<i>>)
           z == Head(todo)
           net == -n
           takes == n + 1
<1>4. /\ s \in State /\ Full(s) /\ s.extra \in Nat /\ s.extra >= 1
      /\ Above(s, s.extra) = s /\ Becomes(s, s, s.extra, s.open)
      /\ Leading(<<z>>, s, t, v) /\ n \in Nat
  BY <1>1, <1>2, <1>3, AtInfix, GrammarFacts
<1>5. /\ e \in Nat /\ f \in Nat /\ takes \in Nat /\ net \in Int /\ takes <= f /\ f + net = e
  BY <1>4
<1>6. Shape(i, takes, net)
  BY <1>4, Shapes
<1>7. Continue(chunks, Arguments(n, Depth) \o <<RightParen, x, z>>) /\ f = e + n
  BY <1>3
<1>8. Above(s, e) = s /\ Becomes(s, s, e, s.open)
  BY <1>4
<1> HIDE DEF v, e, f, i, z, net, takes
<1>9. Leading(<<x>>, Above(s, f), s, v)
  BY <1>4, <1>5, <1>6, <1>8, LeadShape
<1> HIDE DEF x
<1>10. Leading(Arguments(n, Depth) \o <<RightParen, x, z>>, Above(s, e), t, v)
  BY <1>4, <1>5, <1>7, <1>9, LeadCall
<1>11. QED
  BY <1>2, <1>7, <1>8, <1>10, Planned DEF v

LEMMA DotCompiles ==
  ASSUME Compiles, Dot, grammar \in Grammars
  PROVE  Compiles'
<1>1. Head(todo)[1] = "infix"
  BY DEF Dot, Infix, Doing
<1>2. PICK w, s, t : Standing(w, s, t)
  BY <1>1, HeadStands
<1> DEFINE v == w[Len(chunks)]
           e == s.extra
           f == s.extra + 1
           z == Head(todo)
<1>3. PICK name \in Name :
        \/ Continue(chunks, <<Expression(Depth),
                ThenConstant("SET_PROPERTY", Text(name), <<>>), z>>)
        \/ \E n \in 0 .. grammar.arity :
             Continue(chunks, Arguments(n, Depth) \o
               <<RightParen, ThenConstant("INVOKE", Text(name), <<n>>), z>>)
        \/ Continue(chunks, <<ThenConstant("GET_PROPERTY", Text(name), <<>>), z>>)
  BY DEF Dot
<1> DEFINE value == Text(name)
<1>4. /\ s \in State /\ Full(s) /\ s.extra \in Nat /\ s.extra >= 1
      /\ Above(s, s.extra) = s /\ Becomes(s, s, s.extra, s.open)
      /\ Leading(<<z>>, s, t, v) /\ value \in Constant
  BY <1>1, <1>2, <1>3, AtInfix, GrammarFacts
<1>5. e \in Nat /\ f \in Nat /\ f = e + 1 /\ 2 <= f /\ f + (-1) = e /\ 1 <= e /\ e + 0 = e
  BY <1>4
<1>6. Above(s, e) = s /\ Becomes(s, s, e, s.open)
  BY <1>4
<1> HIDE DEF v, e, f, z, value
<1>7. CASE Continue(chunks, <<Expression(Depth), ThenConstant("SET_PROPERTY", value, <<>>), z>>)
  <2> DEFINE x == Expression(Depth)
             op == "SET_PROPERTY"
             operands == <<>>
             y == ThenConstant(op, value, operands)
  <2>1. ConstantShape(op, operands, 2, -1)
    BY ConstantShapes
  <2>2. Becomes(s, Above(s, f), f, s.open)
    BY <1>4, <1>5, AboveFacts
  <2>3. Leading(<<x>>, Above(s, e), Above(s, f), v)
    BY <1>4, <1>5, <2>2, LeadExpression
  <2>4. 2 \in Nat /\ -1 \in Int
    OBVIOUS
  <2> HIDE DEF op, operands
  <2>5. Leading(<<y>>, Above(s, f), s, v)
    BY <1>4, <1>5, <1>6, <2>1, <2>4, LeadConstantShape
  <2>6. Continue(chunks, <<x, y, z>>)
    BY <1>7 DEF op, operands
  <2> HIDE DEF x, y
  <2>7. Leading(<<x, y, z>>, s, t, v)
    BY <1>4, <1>6, <2>3, <2>5, LeadThree
  <2>8. QED
    BY <1>2, <2>6, <2>7, Planned DEF v
<1>8. CASE \E n \in 0 .. grammar.arity :
             Continue(chunks, Arguments(n, Depth) \o
               <<RightParen, ThenConstant("INVOKE", value, <<n>>), z>>)
  <2>1. PICK n \in 0 .. grammar.arity :
             Continue(chunks, Arguments(n, Depth) \o
               <<RightParen, ThenConstant("INVOKE", value, <<n>>), z>>)
    BY <1>8
  <2> DEFINE op == "INVOKE"
             operands == <<n>>
             y == ThenConstant(op, value, operands)
             g == e + n
             takes == n + 1
             net == -n
  <2>2. n \in Nat
    BY <2>1, GrammarFacts
  <2>3. ConstantShape(op, operands, takes, net)
    BY <2>2, ConstantShapes
  <2>4. g \in Nat /\ takes \in Nat /\ net \in Int /\ takes <= g /\ g + net = e
    BY <1>5, <2>2
  <2>5. Continue(chunks, Arguments(n, Depth) \o <<RightParen, y, z>>) /\ g = e + n
    BY <2>1
  <2> HIDE DEF op, operands, g, takes, net
  <2>6. Leading(<<y>>, Above(s, g), s, v)
    BY <1>4, <1>6, <2>3, <2>4, LeadConstantShape
  <2> HIDE DEF y
  <2>7. Leading(Arguments(n, Depth) \o <<RightParen, y, z>>, Above(s, e), t, v)
    BY <1>4, <1>5, <2>2, <2>5, <2>6, LeadCall
  <2>8. QED
    BY <1>2, <1>6, <2>5, <2>7, Planned DEF v
<1>9. CASE Continue(chunks, <<ThenConstant("GET_PROPERTY", value, <<>>), z>>)
  <2> DEFINE op == "GET_PROPERTY"
             operands == <<>>
             y == ThenConstant(op, value, operands)
  <2>1. ConstantShape(op, operands, 1, 0) /\ 1 \in Nat /\ 0 \in Int
    BY ConstantShapes
  <2>2. Continue(chunks, <<y, z>>)
    BY <1>9
  <2> HIDE DEF op, operands
  <2>3. Leading(<<y>>, Above(s, e), s, v)
    BY <1>4, <1>5, <1>6, <2>1, LeadConstantShape
  <2> HIDE DEF y
  <2>4. Leading(<<y, z>>, s, t, v)
    BY <1>4, <1>6, <2>3, LeadTwo
  <2>5. QED
    BY <1>2, <2>2, <2>4, Planned DEF v
<1>10. QED
  BY <1>3, <1>7, <1>8, <1>9 DEF value

(* The second operand of `and' and `or', and the jump that skips it.       *)
LEMMA LeadSecond ==
  ASSUME NEW s \in State, Full(s), NEW e \in Nat, s.extra = e + 1,
         NEW at \in Nat \ {0}, at \notin s.open,
         NEW O, O = s.open \cup {at},
         NEW u, u = Now(s, e, s.guard, O), NEW v, JumpsFrom(at, HeightOf(s), s.guard, u, v),
         NEW z, NEW t, Leading(<<z>>, s, t, v), NEW p \in Strength, NEW d
  PROVE  Leading(<<Precedence(p, d), ThenPatch(at), z>>, u, t, v)
<1> DEFINE f == s.extra
           m == Above(u, f)
<1>1. f \in Nat /\ f = e + 1 /\ O \in SUBSET (Nat \ {0}) /\ s.guard \in Nat /\ O \ {at} = s.open
  BY FullFacts
<1>2. /\ u \in State /\ Stays(s, u) /\ Full(u) /\ u.extra = e /\ u.guard = s.guard /\ u.open = O
      /\ Base(u) = Base(s)
  BY <1>1, NowIs
<1>3. m = Above(u, f)
  OBVIOUS
<1>4. /\ m \in State /\ Stays(u, m) /\ Full(m) /\ m.extra = f /\ m.guard = s.guard /\ m.open = O
      /\ HeightOf(m) = Base(s) - u.missing + f /\ Becomes(u, m, f, u.open)
  <2>1. u \in State /\ Full(u) /\ f \in Nat /\ m = Above(u, f)
    BY <1>1, <1>2, <1>3
  <2> HIDE DEF m, f
  <2>2. /\ m \in State /\ Stays(u, m) /\ Full(m) /\ m.extra = f /\ m.guard = u.guard
        /\ m.open = u.open /\ HeightOf(m) = Base(u) - u.missing + f /\ Becomes(u, m, f, u.open)
    BY ONLY <2>1, AboveShape, SMTT(30)
  <2>3. QED
    BY <2>2, <1>2
<1> HIDE DEF m
<1>5. HeightOf(m) = HeightOf(s)
  BY <1>2, <1>4, FullFacts DEF Stays
<1>6. Leading(<<Precedence(p, d)>>, u, m, v)
  <2>1. Becomes(u, m, e + 1, u.open) /\ Above(u, e) = u
    BY <1>1, <1>2, <1>4, AboveSelf
  <2>2. Leading(<<Precedence(p, d)>>, Above(u, e), m, v)
    BY <1>2, <2>1, LeadPrecedence
  <2>3. QED
    BY <2>1, <2>2
<1>7. JumpsFrom(at, HeightOf(m), m.guard, m, v)
  <2>1. at \in m.open /\ m.loops = u.loops /\ Extends(v, v)
    BY <1>4 DEF Stays, Extends
  <2>2. JumpsFrom(at, HeightOf(s), s.guard, m, v)
    BY <2>1, JumpsExtend
  <2>3. QED
    BY <2>2, <1>4, <1>5
<1>8. Becomes(m, s, m.extra, m.open \ {at})
  <2>1. Becomes(s, s, s.extra, s.open)
    BY BecomesItself
  <2>2. QED
    BY <2>1, <1>1, <1>2, <1>4 DEF Becomes, Keeps, Context, Stays
<1>9. Leading(<<ThenPatch(at)>>, m, s, v)
  BY <1>4, <1>7, <1>8, LeadPatch
<1>10. QED
  BY <1>6, <1>9, LeadThree

LEMMA AndCompiles ==
  ASSUME Compiles, And
  PROVE  Compiles'
<1>1. Head(todo)[1] = "infix"
  BY DEF And, Infix, Doing
<1>2. PICK w, s, t : Standing(w, s, t)
  BY <1>1, HeadStands
<1> DEFINE v == w[Len(chunks)]
           code == Current.code
           at == Len(code) + 1
           e == s.extra - 1
           O == s.open \cup {at}
           u == Now(s, e, s.guard, O)
           c == Emit(Current, Branch)
           z == Head(todo)
           items == <<Precedence(AND, Depth), ThenPatch(at), z>>
<1>3. /\ s \in State /\ Full(s) /\ s.extra \in Nat /\ s.extra >= 1
      /\ Fitted(code, Current.arity, v, s)
      /\ \A v2 : Extends(v, v2) => Leading(<<z>>, s, t, v2)
  BY <1>1, <1>2, AtInfix, StandingFacts
<1>4. Continue(With(c), items)
  BY DEF And, Here, Branch
<1>5. /\ e \in Nat /\ s.extra = e + 1 /\ at \in Nat \ {0} /\ at \notin s.open
      /\ O \in SUBSET (Nat \ {0}) /\ s.guard \in Nat
  BY <1>3, FittedFacts, FullFacts
<1>6. PICK v2 : /\ Fitted(code \o Branch, Current.arity, v2, u)
                /\ Extends(v, v2) /\ JumpsFrom(at, HeightOf(s), s.guard, u, v2)
  <2> HIDE DEF v
  <2>1. QED
    BY <1>3, WriteBranch DEF Branch
<1>7. O = s.open \cup {at} /\ u = Now(s, e, s.guard, O)
  OBVIOUS
<1> HIDE DEF u, O, e, z, v
<1>8. u \in State /\ Stays(s, u)
  BY <1>3, <1>5, <1>7, NowIs
<1>9. Succeeds(With(c), c) /\ Recoded(Current, c) /\ Fitted(c.code, c.arity, v2, u)
  <2>1. Mild(Branch, Len(Current.upvalues))
    BY MildCode DEF Branch
  <2>2. QED
    BY <2>1, <1>2, <1>6, Emitted
<1> HIDE DEF at
<1>10. Leading(items, u, t, v2)
  <2>1. AND \in Strength
    BY DEF AND, Strength, Anything
  <2>2. QED
    BY <2>1, <1>3, <1>5, <1>6, <1>7, LeadSecond
<1> HIDE DEF items, c
<1>11. QED
  BY <1>2, <1>4, <1>6, <1>8, <1>9, <1>10, Wrote DEF v

(* What `or' writes: its first jump lands behind the second one.           *)
TwoJumps == << <<"JUMP_IF_FALSE", 0>>, <<"JUMP", 0>> >>
OrCode(code, at) == PatchedAt(code \o TwoJumps, at) \o << <<"POP">> >>

LEMMA WriteOr ==
  ASSUME NEW code, NEW arity, NEW v, NEW s \in State, Full(s), Fitted(code, arity, v, s),
         NEW e \in Nat, s.extra = e + 1, NEW at, at = Len(code) + 1,
         NEW O, O = s.open \cup {at + 1}, NEW u, u = Now(s, e, s.guard, O)
  PROVE  /\ at \in Nat \ {0} /\ at + 1 \notin s.open
         /\ \E v2 : /\ Fitted(OrCode(code, at), arity, v2, u)
                    /\ Extends(v, v2) /\ JumpsFrom(at + 1, HeightOf(s), s.guard, u, v2)
<1> DEFINE i == <<"JUMP_IF_FALSE", 0>>
           j == <<"JUMP", 0>>
           x == <<"POP">>
           f == s.extra
           g == s.guard
           O1 == s.open \cup {at}
           O2 == O1 \cup {at + 1}
           u1 == Now(s, f, g, O1)
           u2 == Now(u1, f, g, O2)
           u3 == Now(u2, f, g, O)
           patched == PatchedAt(code \o <<i, j>>, at)
<1>1. /\ Len(code) \in Nat /\ at \in Nat \ {0} /\ at \notin s.open /\ s.open \subseteq 1 .. Len(code)
      /\ at + 1 \notin s.open /\ code \in Seq(Instruction)
  BY FittedFacts
<1>2. /\ O \in SUBSET (Nat \ {0}) /\ O1 \in SUBSET (Nat \ {0}) /\ O2 \in SUBSET (Nat \ {0})
      /\ O2 \ {at} = O /\ f \in Nat /\ f = e + 1 /\ g \in Nat
  BY <1>1, FullFacts
<1>3. /\ i \in Instruction /\ j \in Instruction /\ i[1] = "JUMP_IF_FALSE" /\ j[1] = "JUMP"
      /\ i \in { <<"JUMP_IF_FALSE", 0>>, <<"JUMP", 0>> }
      /\ j \in { <<"JUMP_IF_FALSE", 0>>, <<"JUMP", 0>> } /\ j[1] # "JUMP_IF_FALSE"
      /\ Shape(x, 1, -1)
  BY Shapes DEF Instruction, WithOperand
<1>4. u1 = Now(s, f, g, O1) /\ u2 = Now(u1, f, g, O2) /\ u3 = Now(u2, f, g, O)
  OBVIOUS
<1>5. /\ at \in O1 /\ at \in O2 /\ at + 1 \in O2 /\ at + 1 \in O
      /\ O1 = s.open \cup {at} /\ O2 = O1 \cup {at + 1}
  BY <1>1
<1> HIDE DEF i, j, x, u1, u2, u3, O1, O2
<1>6. /\ u1 \in State /\ Stays(s, u1) /\ Full(u1) /\ u1.extra = f /\ u1.guard = g /\ u1.open = O1
      /\ Base(u1) = Base(s) /\ HeightOf(u1) = HeightOf(s)
  <2>1. /\ u1 \in State /\ Stays(s, u1) /\ Full(u1) /\ u1.extra = f /\ u1.guard = g /\ u1.open = O1
        /\ Base(u1) = Base(s) /\ HeightOf(u1) = Base(s) - s.missing + f
    BY <1>2, <1>4, NowIs
  <2>2. QED
    BY <2>1, FullFacts
<1>7. /\ u2 \in State /\ Stays(u1, u2) /\ Full(u2) /\ u2.extra = f /\ u2.guard = g /\ u2.open = O2
      /\ Base(u2) = Base(s) /\ HeightOf(u2) = HeightOf(s)
  <2>1. /\ u2 \in State /\ Stays(u1, u2) /\ Full(u2) /\ u2.extra = f /\ u2.guard = g /\ u2.open = O2
        /\ Base(u2) = Base(s) /\ HeightOf(u2) = Base(s) - u1.missing + f
    BY <1>2, <1>4, <1>6, NowIs
  <2>2. u1.missing = s.missing
    BY <1>6 DEF Stays
  <2>3. QED
    BY <2>1, <2>2, FullFacts
<1>8. /\ u3 \in State /\ Stays(u2, u3) /\ Full(u3) /\ u3.extra = f /\ u3.guard = g /\ u3.open = O
  BY <1>2, <1>4, <1>7, NowIs
<1>9. PICK v1 : /\ Fitted(code \o <<i>>, arity, v1, u1) /\ Extends(v, v1)
                /\ JumpsFrom(at, HeightOf(s), g, u1, v1)
  <2>1. HeightOf(s) > 1
    <3>1. HeightOf(s) = Base(s) - s.missing + s.extra /\ Base(s) - s.missing \in Nat \ {0}
      BY FullFacts
    <3>2. QED
      BY <3>1
  <2>2. i[1] = "JUMP_IF_FALSE" => f = s.extra /\ g = s.guard
    OBVIOUS
  <2>3. \E v1 : /\ Fitted(code \o <<i>>, arity, v1, Now(s, f, g, s.open \cup {Len(code) + 1}))
                /\ Extends(v, v1)
                /\ JumpsFrom(Len(code) + 1, HeightOf(s), s.guard,
                             Now(s, f, g, s.open \cup {Len(code) + 1}), v1)
    BY <1>2, <1>3, <2>1, <2>2, WriteSkip
  <2>4. QED
    BY <2>3, <1>4, <1>5
<1>10. Len(code \o <<i>>) + 1 = at + 1 /\ (code \o <<i>>) \o <<j>> = code \o <<i, j>>
  <2>1. Len(code \o <<i>>) = Len(code) + 1
    <3>1. <<i>> \in Seq(Instruction) /\ Len(<<i>>) = 1
      BY <1>3
    <3>2. QED
      BY <3>1, <1>1, ConcatProperties
  <2>2. QED
    BY <2>1, <1>1, <1>3, JoinTwo
<1>11. PICK v2 : /\ Fitted(code \o <<i, j>>, arity, v2, u2) /\ Extends(v1, v2)
                 /\ JumpsFrom(at + 1, HeightOf(s), g, u2, v2)
  <2> DEFINE code1 == code \o <<i>>
             n == Len(code1) + 1
  <2>1. n = at + 1 /\ code1 \o <<j>> = code \o <<i, j>> /\ Fitted(code1, arity, v1, u1)
    BY <1>9, <1>10
  <2> HIDE DEF code1
  <2>2. \E v2 : /\ Fitted(code1 \o <<j>>, arity, v2, Now(u1, f, g, u1.open \cup {n}))
                /\ Extends(v1, v2)
                /\ JumpsFrom(n, HeightOf(u1), u1.guard, Now(u1, f, g, u1.open \cup {n}), v2)
    BY <1>2, <1>3, <1>6, <2>1, WriteSkip
  <2> HIDE DEF n
  <2>3. QED
    BY <2>1, <2>2, <1>4, <1>5, <1>6
<1>12. PICK v3 : Fitted(patched, arity, v3, u3) /\ Extends(v2, v3)
  <2>1. JumpsFrom(at, HeightOf(u2), u2.guard, u2, v2)
    <3>1. at \in u2.open /\ u2.loops = u1.loops
      BY <1>5, <1>7 DEF Stays
    <3>2. JumpsFrom(at, HeightOf(s), g, u2, v2)
      BY <3>1, <1>9, <1>11, JumpsExtend
    <3>3. QED
      BY <3>2, <1>7
  <2> DEFINE code2 == code \o <<i, j>>
  <2> HIDE DEF code2
  <2>2. Fitted(code2, arity, v2, u2)
    BY <1>11 DEF code2
  <2>3. \E v3 : Fitted(PatchedAt(code2, at), arity, v3, Now(u2, u2.extra, u2.guard, u2.open \ {at}))
                  /\ Extends(v2, v3)
    BY <2>1, <2>2, <1>7, WritePatch
  <2>4. Now(u2, u2.extra, u2.guard, u2.open \ {at}) = u3
    BY <1>2, <1>4, <1>7
  <2>5. QED
    BY <2>3, <2>4 DEF code2
<1>13. Above(u3, e) = u
  <2>1. Above(u3, e) = Now(u3, e, g, O)
    BY <1>8 DEF Above
  <2>2. Now(u3, e, g, O) = Now(u2, e, g, O)
    BY <1>4, <1>7, NowNow
  <2>3. Now(u2, e, g, O) = Now(u1, e, g, O)
    BY <1>4, <1>6, NowNow
  <2>4. Now(u1, e, g, O) = Now(s, e, g, O)
    BY <1>4, NowNow
  <2>5. QED
    BY <2>1, <2>2, <2>3, <2>4
<1> HIDE DEF patched
<1>14. PICK v4 : Fitted(patched \o <<x>>, arity, v4, u) /\ Extends(v3, v4)
  <2>1. 1 <= u3.extra /\ e = u3.extra + (-1) /\ 1 \in Nat /\ -1 \in Int
    BY <1>2, <1>8
  <2>2. \E v4 : Fitted(patched \o <<x>>, arity, v4, Above(u3, e)) /\ Extends(v3, v4)
    BY <2>1, <1>3, <1>8, <1>12, WriteShape
  <2>3. QED
    BY <2>2, <1>13
<1>15. Extends(v, v4) /\ Extends(v2, v4)
  BY <1>9, <1>11, <1>12, <1>14, ExtendsTrans
<1>16. u.open = O /\ u.loops = s.loops
  BY <1>2, NowIs DEF Stays
<1>17. JumpsFrom(at + 1, HeightOf(s), s.guard, u, v4)
  <2>1. at + 1 \in u.open /\ u.loops = u2.loops
    BY <1>5, <1>6, <1>7, <1>16 DEF Stays
  <2>2. QED
    BY <2>1, <1>11, <1>15, JumpsExtend
<1>18. QED
  BY <1>1, <1>14, <1>15, <1>17 DEF patched, i, j, x, OrCode, TwoJumps

LEMMA OrCompiles ==
  ASSUME Compiles, Or
  PROVE  Compiles'
<1>1. Head(todo)[1] = "infix"
  BY DEF Or, Infix, Doing
<1>2. PICK w, s, t : Standing(w, s, t)
  BY <1>1, HeadStands
<1> DEFINE v == w[Len(chunks)]
           code == Current.code
           arity == Current.arity
           at == Len(code) + 1
           next == at + 1
           e == s.extra - 1
           O == s.open \cup {next}
           u == Now(s, e, s.guard, O)
           more == << <<"JUMP_IF_FALSE", 0>>, <<"JUMP", 0>> >>
           jumps == Emit(Current, more)
           pop == << <<"POP">> >>
           c == Emit(PatchJump(jumps, at), pop)
           z == Head(todo)
           items == <<Precedence(OR, Depth), ThenPatch(next), z>>
<1>3. /\ s \in State /\ Full(s) /\ s.extra \in Nat /\ s.extra >= 1
      /\ Fitted(code, arity, v, s) /\ Current \in ChunkSet /\ Recoded(Current, Current)
      /\ \A v2 : Extends(v, v2) => Leading(<<z>>, s, t, v2)
      /\ \A b : Recoded(Current, b) => Succeeds(With(b), b)
  BY <1>1, <1>2, AtInfix, StandingFacts, RecodingFacts
<1>4. Continue(With(c), items)
  BY DEF Or, Here
<1>5. /\ e \in Nat /\ s.extra = e + 1 /\ O \in SUBSET (Nat \ {0}) /\ s.guard \in Nat
      /\ O = s.open \cup {at + 1} /\ O = s.open \cup {next}
      /\ u = Now(s, e, s.guard, O) /\ code \in Seq(Instruction)
  <2>1. code \in Seq(Instruction) /\ at \in Nat /\ next = at + 1
    BY <1>3, FittedFacts
  <2>2. e \in Nat /\ s.extra = e + 1
    BY <1>3
  <2>3. s.open \in SUBSET (Nat \ {0}) /\ s.guard \in Nat
    BY <1>3, FullFacts
  <2>4. QED
    BY <2>1, <2>2, <2>3
<1>6. /\ at \in Nat \ {0} /\ next \notin s.open
      /\ \E v2 : /\ Fitted(PatchedAt(code \o more, at) \o pop, arity, v2, u)
                 /\ Extends(v, v2) /\ JumpsFrom(next, HeightOf(s), s.guard, u, v2)
  <2>1. /\ s \in State /\ Full(s) /\ Fitted(code, arity, v, s) /\ e \in Nat /\ s.extra = e + 1
        /\ at = Len(code) + 1 /\ O = s.open \cup {at + 1} /\ u = Now(s, e, s.guard, O)
    BY <1>3, <1>5
  <2> HIDE DEF u, e, O, v, code, arity, at
  <2>2. /\ at \in Nat \ {0} /\ at + 1 \notin s.open
        /\ \E v2 : /\ Fitted(OrCode(code, at), arity, v2, u)
                   /\ Extends(v, v2) /\ JumpsFrom(at + 1, HeightOf(s), s.guard, u, v2)
    BY <2>1, WriteOr
  <2>3. QED
    BY <2>2 DEF OrCode, TwoJumps
<1>7. PICK v2 : /\ Fitted(PatchedAt(code \o more, at) \o pop, arity, v2, u)
                /\ Extends(v, v2) /\ JumpsFrom(next, HeightOf(s), s.guard, u, v2)
  BY <1>6
<1>8. next \in Nat \ {0}
  BY <1>6
<1> HIDE DEF u, O, e, z, v, next
<1>9. u \in State /\ Stays(s, u)
  <2>1. e \in Nat /\ O \in SUBSET (Nat \ {0}) /\ s.guard \in Nat /\ u = Now(s, e, s.guard, O)
    BY <1>5
  <2>2. QED
    BY <2>1, <1>3, NowIs
<1>10. c \in ChunkSet /\ Recoded(Current, c) /\ Fitted(c.code, c.arity, v2, u)
  <2>1. /\ code \o more \in Seq(Instruction) /\ PatchedAt(code \o more, at) \in Seq(Instruction)
        /\ at \in Unpatched(code \o more)
    <3>1. <<"JUMP_IF_FALSE", 0>> \in Instruction /\ <<"JUMP", 0>> \in Instruction
      BY DEF Instruction, WithOperand
    <3>2. more \in Seq(Instruction) /\ Len(more) = 2
      BY <3>1
    <3> HIDE DEF more
    <3>3. code \o more \in Seq(Instruction) /\ Len(code \o more) = Len(code) + 2
          /\ (code \o more)[at] = more[1]
      <4>1. at \in 1 .. Len(code) + 2 /\ ~ (at <= Len(code)) /\ at - Len(code) = 1
        BY <1>5
      <4>2. /\ code \o more \in Seq(Instruction) /\ Len(code \o more) = Len(code) + 2
            /\ \A i \in 1 .. Len(code) + 2 :
                 (code \o more)[i] = IF i <= Len(code) THEN code[i] ELSE more[i - Len(code)]
        <5>0. code \in Seq(Instruction)
          BY <1>5
        <5> HIDE DEF code
        <5>1. /\ code \o more \in Seq(Instruction) /\ Len(code \o more) = Len(code) + Len(more)
              /\ \A i \in 1 .. Len(code) + Len(more) :
                   (code \o more)[i] = IF i <= Len(code) THEN code[i] ELSE more[i - Len(code)]
          BY <3>2, <5>0, ConcatProperties
        <5>2. QED
          BY <5>1, <3>2
      <4>3. QED
        BY <4>1, <4>2
    <3> DEFINE all == code \o more
    <3>4. [all[at] EXCEPT ![2] = Len(all) + 1] \in Instruction
      <4>1. all[at] = <<"JUMP_IF_FALSE", 0>> /\ Len(all) + 1 \in Nat
        BY <3>3 DEF more
      <4> HIDE DEF all
      <4>2. [all[at] EXCEPT ![2] = Len(all) + 1] = <<"JUMP_IF_FALSE", Len(all) + 1>>
        BY <4>1
      <4>3. QED
        BY <4>1, <4>2 DEF Instruction, WithOperand
    <3>5. at \in 1 .. Len(all) /\ all \in Seq(Instruction)
      BY <3>3, <1>5
    <3>8. at \in Unpatched(all)
      <4>1. all[at] = <<"JUMP_IF_FALSE", 0>>
        BY <3>3 DEF more
      <4> HIDE DEF all
      <4>2. QED
        BY <4>1, <3>5 DEF Unpatched, Skips
    <3> HIDE DEF all
    <3>6. PatchedAt(all, at) \in Seq(Instruction)
      BY <3>4, <3>5, ExceptSeq DEF PatchedAt
    <3>7. QED
      BY <3>3, <3>6, <3>8 DEF all
  <2>7. Mild(more, Len(Current.upvalues)) /\ Mild(pop, Len(Current.upvalues))
    <3> DEFINE i == <<"JUMP_IF_FALSE", 0>>
               j == <<"JUMP", 0>>
    <3>1. i \in Instruction /\ j \in Instruction /\ i[1] \notin Special /\ j[1] \notin Special
      BY DEF Instruction, WithOperand, Special, Reads
    <3> HIDE DEF i, j
    <3>2. Mild(<<i, j>>, Len(Current.upvalues))
      BY <3>1, MildTwo
    <3>3. QED
      BY <3>2, MildCode DEF i, j
  <2> HIDE DEF more, at, pop
  <2>2. /\ jumps \in ChunkSet /\ Recoded(Current, jumps) /\ jumps.code = code \o more
        /\ jumps.arity = arity
    BY <2>7, <1>3, EmitFacts
  <2> HIDE DEF jumps
  <2> DEFINE patched == PatchJump(jumps, at)
  <2>3. /\ patched \in ChunkSet /\ Recoded(jumps, patched)
        /\ patched.code = PatchedAt(code \o more, at) /\ patched.arity = arity
    BY <2>1, <2>2, PatchFacts
  <2> HIDE DEF patched
  <2>4. Recoded(Current, patched) /\ Fitted(patched.code \o pop, patched.arity, v2, u)
    <3>1. Recoded(Current, patched)
      BY <2>2, <2>3, <1>3, RecodedTrans
    <3>2. QED
      BY <3>1, <2>3, <1>7
  <2>5. LET n == Emit(patched, pop)
        IN  n \in ChunkSet /\ Recoded(Current, n) /\ Fitted(n.code, n.arity, v2, u)
    BY <1>3, <2>3, <2>4, <2>7, EmittedMore, Zenon
  <2>6. QED
    BY <2>5 DEF patched
<1>11. Succeeds(With(c), c)
  BY <1>3, <1>10
<1> HIDE DEF c, at
<1>12. Leading(items, u, t, v2)
  <2>1. OR \in Strength
    BY DEF OR, Strength, Anything
  <2>2. QED
    BY <2>1, <1>3, <1>5, <1>6, <1>7, <1>8, LeadSecond
<1> HIDE DEF items
<1>13. QED
  BY <1>2, <1>4, <1>7, <1>9, <1>10, <1>11, <1>12, Wrote DEF v

-----------------------------------------------------------------------------
(* Variables.                                                              *)

LEMMA UpvaluesCount ==
  ASSUME NEW c \in ChunkSet
  PROVE  Len(c.upvalues) \in Nat /\ Len(c.constants) \in Nat /\ Len(c.code) \in Nat
BY DEF ChunkSet

(* A function that is replaced by one with more upvalues, which the        *)
(* enclosing one offers.                                                   *)
LEMMA LinkedExcept ==
  ASSUME NEW cs \in Seq(ChunkSet), Linked(cs), NEW k \in 1 .. Len(cs), NEW n \in ChunkSet,
         Len(cs[k].upvalues) <= Len(n.upvalues),
         k = Len(cs) \/ Top(n.scope) = Top(cs[k].scope),
         \A u \in ToSet(n.upvalues) :
           u \in ToSet(cs[k].upvalues) \/ (k > 1 /\ Offers(cs[k - 1], u)),
         NEW ds, ds = [cs EXCEPT ![k] = n]
  PROVE  Linked(ds)
<1>1. /\ Len(ds) = Len(cs) /\ Len(cs) \in Nat
      /\ \A j \in 1 .. Len(cs) : ds[j] = IF j = k THEN n ELSE cs[j]
  BY ExceptSeq
<1>2. ASSUME NEW j \in 1 .. Len(cs) - 1, NEW u \in ToSet(ds[j + 1].upvalues)
      PROVE  Offers(ds[j], u)
  <2>1. j \in 1 .. Len(cs) /\ j + 1 \in 1 .. Len(cs) /\ (j + 1 = k => k > 1 /\ k - 1 = j)
    BY <1>1
  <2>2. Offers(cs[j], u)
    <3>1. CASE u \in ToSet(cs[j + 1].upvalues)
      BY <3>1 DEF Linked
    <3>2. CASE u \notin ToSet(cs[j + 1].upvalues)
      BY <3>2, <2>1, <1>1, <1>2
    <3>3. QED
      BY <3>1, <3>2
  <2>3. CASE j = k
    <3>1. ds[j] = n /\ k # Len(cs)
      BY <2>1, <2>3, <1>1
    <3>2. /\ Len(cs[j].upvalues) \in Nat /\ Len(n.upvalues) \in Nat
          /\ Len(cs[j].upvalues) <= Len(n.upvalues)
      BY <2>1, <2>3, UpvaluesCount
    <3>3. 0 .. Len(cs[j].upvalues) - 1 \subseteq 0 .. Len(n.upvalues) - 1
      <4> DEFINE a == Len(cs[j].upvalues)
                 b == Len(n.upvalues)
      <4>1. a \in Nat /\ b \in Nat /\ a <= b
        BY <3>2
      <4> HIDE DEF a, b
      <4>2. 0 .. a - 1 \subseteq 0 .. b - 1
        BY <4>1
      <4>3. QED
        BY <4>2 DEF a, b
    <3>4. Top(n.scope) = Top(cs[j].scope)
      BY <3>1, <2>3
    <3>5. QED
      BY <3>1, <3>3, <3>4, <2>2 DEF Offers
  <2>4. CASE j # k
    BY <2>1, <2>2, <2>4, <1>1
  <2>5. QED
    BY <2>3, <2>4
<1>3. Len(ds) = Len(cs)
  BY <1>1
<1> HIDE <1>1
<1>4. QED
  BY ONLY <1>2, <1>3 DEF Linked

LEMMA TopAlike ==
  ASSUME NEW a, GoodScope(a), NEW b \in Levels, AlikeScopes(a, b)
  PROVE  Top(b) = Top(a)
<1>1. /\ GoodScope(b) /\ \A l \in 0 .. Len(a) : Size(b, l) = Size(a, l)
      /\ LastIsMissing(a) => LastIsMissing(b)
  BY AlikeIsGood
<1>2. a \in Levels /\ Len(b) = Len(a) /\ Len(a) \in Nat
  BY LevelFacts DEF GoodScope, AlikeScopes
<1>3. AlikeScopes(b, a)
  BY DEF AlikeScopes
<1>4. LastIsMissing(b) => LastIsMissing(a)
  BY <1>1, <1>2, <1>3, AlikeIsGood
<1>5. Size(b, Len(b)) = Size(a, Len(a))
  BY <1>1, <1>2
<1>6. QED
  BY <1>1, <1>4, <1>5 DEF Top

(* The functions ds are cs, with other upvalues and captured locals.       *)
Threaded(cs, ds) ==
  /\ ds \in Seq(ChunkSet) /\ Len(ds) = Len(cs)
  /\ \A k \in 1 .. Len(cs) : AlikeChunk(cs[k], ds[k])
  /\ ds[Len(cs)].scope = cs[Len(cs)].scope

LinkSet(cs) == {l \in [chunks : Seq(ChunkSet), index : Nat] : Threaded(cs, l.chunks)}

(* What the link has found is there, in the k-th function.                 *)
LinkOffers(l, k, isLocal) ==
  /\ Linked(l.chunks)
  /\ Offers(l.chunks[k], [index |-> l.index, isLocal |-> isLocal])

LEMMA AddUpvalueFacts ==
  ASSUME NEW c \in ChunkSet, NEW u \in Upvalue
  PROVE  LET n == AddUpvalue(c, u)
         IN  /\ n \in ChunkSet
             /\ n.code = c.code /\ n.arity = c.arity /\ n.hasSuperclass = c.hasSuperclass
             /\ n.scope = c.scope /\ n.constants = c.constants
             /\ Len(c.upvalues) <= Len(n.upvalues)
             /\ \A x \in ToSet(n.upvalues) : x \in ToSet(c.upvalues) \/ x = u
             /\ UpvalueIndex(n, u) \in 1 .. Len(n.upvalues)
<1> DEFINE more == Append(c.upvalues, u)
           n == AddUpvalue(c, u)
<1>1. c.upvalues \in Seq(Upvalue)
  BY DEF ChunkSet
<1>2. /\ more \in Seq(Upvalue) /\ Len(c.upvalues) \in Nat
      /\ Len(more) = Len(c.upvalues) + 1
      /\ \A l \in 1 .. Len(more) :
           more[l] = IF l <= Len(c.upvalues) THEN c.upvalues[l] ELSE u
  BY <1>1, AppendProperties
<1> HIDE DEF more
<1>3. \/ n = c /\ UpvalueIndex(c, u) # 0
      \/ n = [c EXCEPT !.upvalues = more]
  BY DEF AddUpvalue, more, ChunkSet
<1> HIDE DEF n
<1>4. /\ n \in ChunkSet
      /\ n.code = c.code /\ n.arity = c.arity /\ n.hasSuperclass = c.hasSuperclass
      /\ n.scope = c.scope /\ n.constants = c.constants
      /\ \/ n.upvalues = c.upvalues /\ UpvalueIndex(c, u) # 0
         \/ n.upvalues = more
  BY <1>2, <1>3 DEF ChunkSet
<1>5. UpvalueIndex(n, u) \in 1 .. Len(n.upvalues)
  <2>1. n.upvalues \in Seq(Upvalue)
    BY <1>4 DEF ChunkSet
  <2>2. IndexIn(n.upvalues, u) \in 0 .. Len(n.upvalues)
    BY <2>1, IndexInFacts
  <2>3. IndexIn(n.upvalues, u) # 0
    <3>1. CASE n.upvalues = c.upvalues /\ UpvalueIndex(c, u) # 0
      BY <3>1 DEF UpvalueIndex
    <3>2. CASE n.upvalues = more
      <4>1. Len(more) \in 1 .. Len(more) /\ more[Len(more)] = u
        BY <1>2
      <4>2. QED
        BY <4>1, <3>2, <1>2, IndexInFinds
    <3>3. QED
      BY <3>1, <3>2, <1>4
  <2>4. QED
    BY <2>1, <2>2, <2>3 DEF UpvalueIndex
<1>6. Len(c.upvalues) <= Len(n.upvalues)
  BY <1>2, <1>4
<1>7. \A x \in ToSet(n.upvalues) : x \in ToSet(c.upvalues) \/ x = u
  BY <1>1, <1>2, <1>4 DEF ToSet
<1>8. QED
  BY <1>4, <1>5, <1>6, <1>7 DEF n

(* One function more has an upvalue for what the link above it has found.  *)
LEMMA LinkKeeps ==
  ASSUME NEW cs \in Seq(ChunkSet), NEW l \in LinkSet(cs), NEW k \in 1 .. Len(cs),
         NEW isLocal \in BOOLEAN
  PROVE  Link(l, k, isLocal) \in LinkSet(cs)
<1> DEFINE u == [index |-> l.index, isLocal |-> isLocal]
           n == AddUpvalue(l.chunks[k], u)
           ds == [l.chunks EXCEPT ![k] = n]
           index == Byte(UpvalueIndex(n, u) - 1)
<1>1. /\ l.chunks \in Seq(ChunkSet) /\ l.index \in Nat /\ Threaded(cs, l.chunks)
      /\ Len(l.chunks) = Len(cs) /\ k \in 1 .. Len(l.chunks) /\ l.chunks[k] \in ChunkSet
  BY DEF LinkSet, Threaded
<1>2. u \in Upvalue
  BY <1>1 DEF Upvalue
<1>3. Link(l, k, isLocal) = [chunks |-> ds, index |-> index]
  BY DEF Link
<1> HIDE DEF u
<1>4. /\ n \in ChunkSet /\ UpvalueIndex(n, u) \in Nat
      /\ n.code = l.chunks[k].code /\ n.arity = l.chunks[k].arity
      /\ n.hasSuperclass = l.chunks[k].hasSuperclass
      /\ n.scope = l.chunks[k].scope /\ n.constants = l.chunks[k].constants
      /\ Len(l.chunks[k].upvalues) <= Len(n.upvalues)
  <2>1. /\ n \in ChunkSet /\ UpvalueIndex(n, u) \in 1 .. Len(n.upvalues)
        /\ n.code = l.chunks[k].code /\ n.arity = l.chunks[k].arity
        /\ n.hasSuperclass = l.chunks[k].hasSuperclass
        /\ n.scope = l.chunks[k].scope /\ n.constants = l.chunks[k].constants
        /\ Len(l.chunks[k].upvalues) <= Len(n.upvalues)
    BY <1>1, <1>2, AddUpvalueFacts
  <2> HIDE DEF n
  <2>2. UpvalueIndex(n, u) \in Nat
    BY <2>1
  <2>3. QED
    BY <2>1, <2>2
<1>5. index \in Nat
  <2>1. UpvalueIndex(n, u) - 1 \in Int
    BY <1>4
  <2> HIDE DEF n
  <2>2. QED
    BY <2>1, ByteFacts
<1> HIDE DEF n, index
<1>6. /\ ds \in Seq(ChunkSet) /\ Len(ds) = Len(cs)
      /\ \A j \in 1 .. Len(cs) : ds[j] = IF j = k THEN n ELSE l.chunks[j]
  BY <1>1, <1>4, ExceptSeq
<1> HIDE DEF ds
<1>7. \A j \in 1 .. Len(cs) : AlikeChunk(cs[j], ds[j]) /\ ds[j].scope = l.chunks[j].scope
  <2>1. TAKE j \in 1 .. Len(cs)
  <2>2. AlikeChunk(cs[j], l.chunks[j])
    BY <1>1 DEF Threaded
  <2>3. CASE j # k
    BY <2>2, <2>3, <1>6
  <2>4. CASE j = k
    <3>1. /\ Len(cs[j].upvalues) \in Nat /\ Len(l.chunks[j].upvalues) \in Nat
          /\ Len(n.upvalues) \in Nat /\ Len(cs[j].upvalues) <= Len(l.chunks[j].upvalues)
      <4>1. cs[j] \in ChunkSet /\ l.chunks[j] \in ChunkSet /\ n \in ChunkSet
        BY <2>4, <1>1, <1>4
      <4>2. Len(cs[j].upvalues) <= Len(l.chunks[j].upvalues)
        BY <2>2 DEF AlikeChunk
      <4>3. QED
        BY <4>1, <4>2, UpvaluesCount
    <3>4. Len(l.chunks[j].upvalues) <= Len(n.upvalues) /\ ds[j] = n
      BY <2>4, <1>4, <1>6
    <3>2. Len(cs[j].upvalues) <= Len(n.upvalues) /\ ds[j] = n
      <4> DEFINE x == Len(cs[j].upvalues)
                 y == Len(l.chunks[j].upvalues)
                 z == Len(n.upvalues)
      <4>1. x \in Nat /\ y \in Nat /\ z \in Nat /\ x <= y /\ y <= z
        BY <3>1, <3>4
      <4> HIDE DEF x, y, z
      <4>2. x <= z
        BY <4>1
      <4>3. QED
        BY <4>2, <3>4 DEF x, z
    <3>3. QED
      BY <3>2, <2>2, <2>4, <1>4 DEF AlikeChunk
  <2>5. QED
    BY <2>3, <2>4
<1>8. Len(cs) \in 1 .. Len(cs)
  OBVIOUS
<1>9. Threaded(cs, ds)
  BY <1>1, <1>6, <1>7, <1>8 DEF Threaded
<1>10. QED
  BY <1>3, <1>5, <1>6, <1>9 DEF LinkSet

LEMMA LinkIsOffered ==
  ASSUME NEW cs \in Seq(ChunkSet), NEW l \in LinkSet(cs), NEW k \in 2 .. Len(cs),
         NEW isLocal \in BOOLEAN, LinkOffers(l, k - 1, isLocal)
  PROVE  LinkOffers(Link(l, k, isLocal), k, FALSE)
<1> DEFINE u == [index |-> l.index, isLocal |-> isLocal]
           n == AddUpvalue(l.chunks[k], u)
           ds == [l.chunks EXCEPT ![k] = n]
           index == Byte(UpvalueIndex(n, u) - 1)
<1>1. /\ l.chunks \in Seq(ChunkSet) /\ l.index \in Nat /\ Len(l.chunks) = Len(cs)
      /\ k \in 1 .. Len(l.chunks) /\ k > 1 /\ l.chunks[k] \in ChunkSet
  BY DEF LinkSet, Threaded
<1>2. u \in Upvalue /\ Linked(l.chunks) /\ Offers(l.chunks[k - 1], u)
  BY <1>1 DEF Upvalue, LinkOffers
<1>3. Link(l, k, isLocal) = [chunks |-> ds, index |-> index]
  BY DEF Link
<1> HIDE DEF u
<1>4. /\ n \in ChunkSet /\ n.scope = l.chunks[k].scope
      /\ Len(l.chunks[k].upvalues) <= Len(n.upvalues)
      /\ \A x \in ToSet(n.upvalues) : x \in ToSet(l.chunks[k].upvalues) \/ x = u
      /\ UpvalueIndex(n, u) \in 1 .. Len(n.upvalues)
  BY <1>1, <1>2, AddUpvalueFacts
<1>5. index \in 0 .. Len(n.upvalues) - 1
  <2>1. Len(n.upvalues) \in Nat
    BY <1>4 DEF ChunkSet
  <2> DEFINE m == UpvalueIndex(n, u)
  <2>2. m \in 1 .. Len(n.upvalues)
    BY <1>4
  <2> HIDE DEF m, n
  <2>3. m - 1 \in Nat /\ m - 1 \in 0 .. Len(n.upvalues) - 1
    BY <2>1, <2>2
  <2>4. Byte(m - 1) \in Nat /\ Byte(m - 1) <= m - 1
    BY <2>3, ByteFacts
  <2>5. QED
    BY <2>1, <2>3, <2>4 DEF m
<1> HIDE DEF n, index
<1>6. Linked(ds)
  BY <1>1, <1>2, <1>4, LinkedExcept
<1>7. ds[k] = n
  BY <1>1
<1>8. QED
  BY <1>3, <1>5, <1>6, <1>7 DEF LinkOffers, Offers

LEMMA FirstLinkFits ==
  ASSUME NEW cs \in Seq(ChunkSet), NEW name, NEW owner \in 1 .. Len(cs) - 1,
         GoodScope(cs[owner].scope), Find(cs[owner].scope, name) # Absent
  PROVE  FirstLink(cs, name, owner) \in LinkSet(cs)
<1> DEFINE scope == Capture(cs[owner].scope, name)
           n == Rescoped(cs[owner], scope)
           ds == [cs EXCEPT ![owner] = n]
           index == Byte(Find(cs[owner].scope, name))
<1>1. owner \in 1 .. Len(cs) /\ cs[owner] \in ChunkSet /\ Len(cs) \in Nat /\ owner # Len(cs)
      /\ Len(cs) \in 1 .. Len(cs)
  OBVIOUS
<1>2. scope \in Levels /\ AlikeScopes(cs[owner].scope, scope)
  BY CaptureFacts DEF GoodScope
<1>3. index \in Nat
  BY FindIsNumber, ByteFacts DEF GoodScope
<1>4. FirstLink(cs, name, owner) = [chunks |-> ds, index |-> index]
  BY <1>1 DEF FirstLink, Captured, Rescoped
<1> HIDE DEF index, scope
<1>5. AlikeChunk(cs[owner], n) /\ n \in ChunkSet
  <2>1. /\ n \in ChunkSet /\ n.scope = scope /\ n.code = cs[owner].code
        /\ n.arity = cs[owner].arity /\ n.hasSuperclass = cs[owner].hasSuperclass
        /\ n.upvalues = cs[owner].upvalues
    BY <1>1, <1>2, RescopedFacts
  <2>2. n.constants = cs[owner].constants /\ Len(cs[owner].upvalues) \in Nat
    <3>1. n.constants = cs[owner].constants
      BY <1>1 DEF Rescoped, ChunkSet
    <3>2. QED
      BY <3>1, <1>1, UpvaluesCount
  <2> HIDE DEF n
  <2>3. QED
    BY <2>1, <2>2, <1>2 DEF AlikeChunk
<1> HIDE DEF n
<1>6. /\ ds \in Seq(ChunkSet) /\ Len(ds) = Len(cs)
      /\ \A j \in 1 .. Len(cs) : ds[j] = IF j = owner THEN n ELSE cs[j]
  BY <1>1, <1>5, ExceptSeq
<1> HIDE DEF ds
<1>7. Threaded(cs, ds)
  <2>1. \A j \in 1 .. Len(cs) : AlikeChunk(cs[j], ds[j])
    <3>1. TAKE j \in 1 .. Len(cs)
    <3>2. AlikeChunk(cs[j], cs[j])
      BY AlikeSelf
    <3>3. QED
      BY <3>2, <1>5, <1>6
  <2>2. QED
    BY <2>1, <1>1, <1>6 DEF Threaded
<1>8. QED
  BY <1>3, <1>4, <1>6, <1>7 DEF LinkSet

LEMMA FirstLinkIsOffered ==
  ASSUME NEW cs \in Seq(ChunkSet), Linked(cs), NEW name, NEW owner \in 1 .. Len(cs) - 1,
         GoodScope(cs[owner].scope), Find(cs[owner].scope, name) \notin {Absent, Uninitialized}
  PROVE  LinkOffers(FirstLink(cs, name, owner), owner, TRUE)
<1> DEFINE found == Find(cs[owner].scope, name)
           scope == Capture(cs[owner].scope, name)
           n == Rescoped(cs[owner], scope)
           ds == [cs EXCEPT ![owner] = n]
           index == Byte(found)
<1>1. owner \in 1 .. Len(cs) /\ cs[owner] \in ChunkSet
  OBVIOUS
<1>2. scope \in Levels /\ AlikeScopes(cs[owner].scope, scope)
  BY CaptureFacts DEF GoodScope
<1>3. Top(scope) = Top(cs[owner].scope)
  BY <1>2, TopAlike
<1>4. index \in 0 .. Top(cs[owner].scope) - 1
  <2> DEFINE top == cs[owner].scope
             missing == IF LastIsMissing(top) THEN 1 ELSE 0
  <2>1. GoodScope(top) /\ missing \in {0, 1} /\ (missing = 1 => LastIsMissing(top))
    OBVIOUS
  <2>2. Top(top) = 1 + Size(top, Len(top)) - missing
    BY DEF Top
  <2>3. Size(top, Len(top)) \in Nat
    <3>1. top \in Levels /\ Len(top) \in 0 .. Len(top)
      BY LevelFacts DEF GoodScope
    <3>2. QED
      BY <3>1, SizeFacts
  <2> HIDE DEF missing, top
  <2>4. found \in Nat /\ found <= Size(top, Len(top)) - missing
    BY <2>1, FoundIsBelowTop DEF top
  <2>5. Byte(found) \in Nat /\ Byte(found) <= found
    BY <2>4, ByteFacts
  <2>6. Byte(found) \in 0 .. Top(top) - 1
    <3> HIDE DEF found
    <3>1. QED
      BY <2>1, <2>2, <2>3, <2>4, <2>5
  <2>7. QED
    BY <2>6 DEF top
<1>5. FirstLink(cs, name, owner) = [chunks |-> ds, index |-> index]
  BY <1>1 DEF FirstLink, Captured, Rescoped
<1> HIDE DEF index, scope
<1>6. n \in ChunkSet /\ n.scope = scope /\ n.upvalues = cs[owner].upvalues
  BY <1>1, <1>2, RescopedFacts
<1> HIDE DEF n
<1>7. Linked(ds)
  <2>1. /\ Len(cs[owner].upvalues) <= Len(n.upvalues)
        /\ \A u \in ToSet(n.upvalues) : u \in ToSet(cs[owner].upvalues)
    BY <1>1, <1>6 DEF ChunkSet
  <2>2. Top(n.scope) = Top(cs[owner].scope)
    BY <1>3, <1>6
  <2>3. QED
    BY <2>1, <2>2, <1>1, <1>6, LinkedExcept
<1>8. ds[owner] = n
  BY <1>1
<1>9. index \in 0 .. Top(n.scope) - 1
  BY <1>3, <1>4, <1>6
<1>10. QED
  BY <1>5, <1>7, <1>8, <1>9 DEF LinkOffers, Offers

(* The links of a thread, from the owner of the local down.                *)
Links(cs, name, owner, link) ==
  /\ link[0] = FirstLink(cs, name, owner)
  /\ \A n \in 1 .. Len(cs) - owner : link[n] = Link(link[n - 1], owner + n, n = 1)
  /\ \A n \in 0 .. Len(cs) - owner : link[n] \in LinkSet(cs)
  /\ Thread(cs, name, owner) = link[Len(cs) - owner]

LEMMA ThreadLinks ==
  ASSUME NEW cs \in Seq(ChunkSet), NEW name, NEW owner \in 1 .. Len(cs) - 1,
         GoodScope(cs[owner].scope), Find(cs[owner].scope, name) # Absent
  PROVE  \E link : Links(cs, name, owner, link)
<1> DEFINE k == Len(cs) - owner
           T == LinkSet(cs)
           x == FirstLink(cs, name, owner)
           G == [p \in T \X (1 .. k) |-> Link(p[1], owner + p[2], p[2] = 1)]
           Is(f) == f = [n \in 0 .. k |-> IF n = 0 THEN x ELSE Link(f[n - 1], owner + n, n = 1)]
           link == CHOOSE f : Is(f)
<1>1. k \in Nat /\ \A n \in 1 .. k : owner + n \in 1 .. Len(cs)
  OBVIOUS
<1>2. x \in T
  BY FirstLinkFits
<1>3. \A l \in T, n \in 1 .. k : Link(l, owner + n, n = 1) \in T
  <2>1. TAKE l \in T, n \in 1 .. k
  <2>2. owner + n \in 1 .. Len(cs) /\ (n = 1) \in BOOLEAN
    BY <1>1
  <2> HIDE DEF k
  <2>3. QED
    BY <2>2, LinkKeeps
<1>4. Thread(cs, name, owner) = link[k]
  BY DEF Thread
<1> HIDE DEF x, T, k
<1>5. G \in [T \X (1 .. k) -> T]
  BY <1>3
<1>6. PICK f : Follows(f, T, x, k, G)
  <2> HIDE DEF G
  <2>1. QED
    BY <1>1, <1>2, <1>5, Recursion, Zenon
<1>7. \A n \in 1 .. k : f[n] = Link(f[n - 1], owner + n, n = 1)
  <2>1. TAKE n \in 1 .. k
  <2>2. n - 1 \in 0 .. k
    BY <1>1
  <2>3. f[n - 1] \in T /\ f[n] = G[<<f[n - 1], n>>]
    BY <2>2, <1>6 DEF Follows
  <2>4. QED
    BY <2>3
<1>8. Is(f)
  <2> DEFINE h == [n \in 0 .. k |-> IF n = 0 THEN x ELSE Link(f[n - 1], owner + n, n = 1)]
  <2>1. \A n \in 0 .. k : f[n] = h[n]
    BY <1>1, <1>6, <1>7 DEF Follows
  <2>2. QED
    BY <2>1, <1>6 DEF Follows
<1>9. Is(link)
  BY <1>8
<1> HIDE DEF link
<1>10. link[0] = x /\ \A n \in 1 .. k : link[n] = Link(link[n - 1], owner + n, n = 1)
  BY <1>1, <1>9
<1>11. \A n \in 0 .. k : link[n] \in T
  <2>1. \A n \in 1 .. k : link[n - 1] \in T => link[n] \in T
    BY <1>3, <1>10
  <2>2. QED
    BY <2>1, <1>1, <1>2, <1>10, RecursionKeeps, Zenon
<1>12. Links(cs, name, owner, link)
  BY <1>4, <1>10, <1>11 DEF Links, T, x, k
<1>13. QED
  BY <1>12

LEMMA ThreadFits ==
  ASSUME NEW cs \in Seq(ChunkSet), NEW name, NEW owner \in 1 .. Len(cs) - 1,
         GoodScope(cs[owner].scope), Find(cs[owner].scope, name) # Absent
  PROVE  Thread(cs, name, owner) \in LinkSet(cs)
<1>1. PICK link : Links(cs, name, owner, link)
  BY ThreadLinks
<1>2. Len(cs) - owner \in 0 .. Len(cs) - owner
  OBVIOUS
<1>3. QED
  BY <1>1, <1>2 DEF Links

(* So the last function has the upvalue the thread ends at.                *)
LEMMA ThreadIsOffered ==
  ASSUME NEW cs \in Seq(ChunkSet), Linked(cs), NEW name, NEW owner \in 1 .. Len(cs) - 1,
         GoodScope(cs[owner].scope), Find(cs[owner].scope, name) \notin {Absent, Uninitialized}
  PROVE  LinkOffers(Thread(cs, name, owner), Len(cs), FALSE)
<1> DEFINE k == Len(cs) - owner
<1>1. PICK link : Links(cs, name, owner, link)
  BY ThreadLinks
<1>2. k \in Nat /\ k # 0 /\ owner + k = Len(cs) /\ (k = 0) = FALSE
  OBVIOUS
<1>3. /\ link[0] = FirstLink(cs, name, owner)
      /\ \A n \in 1 .. k : link[n] = Link(link[n - 1], owner + n, n = 1)
      /\ \A n \in 0 .. k : link[n] \in LinkSet(cs)
      /\ Thread(cs, name, owner) = link[k]
  BY <1>1 DEF Links
<1> HIDE DEF k
<1> DEFINE First(n) == IF n = 0 THEN TRUE ELSE FALSE
           Is(n) == LinkOffers(link[n], owner + n, First(n))
           S == {n \in Nat : n <= k => Is(n)}
<1> HIDE DEF First, Is
<1>4. 0 \in S
  <2>1. LinkOffers(FirstLink(cs, name, owner), owner, TRUE)
    BY FirstLinkIsOffered
  <2>2. owner + 0 = owner /\ First(0) = TRUE
    BY DEF First
  <2>3. Is(0)
    BY <2>1, <2>2, <1>3 DEF Is
  <2>4. QED
    BY <2>3
<1>5. \A n \in Nat : n \in S => n + 1 \in S
  <2>1. SUFFICES ASSUME NEW n \in Nat, n \in S, n + 1 <= k
                 PROVE  Is(n + 1)
    OBVIOUS
  <2>2. /\ n + 1 \in 1 .. k /\ n \in 0 .. k /\ (n + 1) - 1 = n
        /\ owner + (n + 1) \in 2 .. Len(cs) /\ (owner + (n + 1)) - 1 = owner + n
    BY <1>2, <2>1
  <2>8. Is(n)
    BY <1>2, <2>1
  <2>3. LinkOffers(link[n], owner + n, First(n)) /\ link[n] \in LinkSet(cs)
    BY <2>8, <1>3, <2>2 DEF Is
  <2>4. link[n + 1] = Link(link[n], owner + (n + 1), First(n))
    <3>1. link[n + 1] = Link(link[n], owner + (n + 1), n + 1 = 1)
      BY <1>3, <2>2
    <3>2. (n + 1 = 1) = First(n)
      <4>1. CASE n = 0
        <5>1. n + 1 = 1
          BY <4>1
        <5>2. QED
          BY <5>1, <4>1 DEF First
      <4>2. CASE n # 0
        <5>1. ~ (n + 1 = 1)
          BY <4>2, <2>1
        <5>2. QED
          BY <5>1, <4>2 DEF First
      <4>3. QED
        BY <4>1, <4>2
    <3>3. QED
      BY <3>1, <3>2
  <2>5. LinkOffers(Link(link[n], owner + (n + 1), First(n)), owner + (n + 1), FALSE)
    <3> DEFINE j == owner + (n + 1)
               first == First(n)
    <3>1. j \in 2 .. Len(cs) /\ first \in BOOLEAN /\ LinkOffers(link[n], j - 1, first)
      BY <2>2, <2>3 DEF First
    <3> HIDE DEF j, first
    <3>2. LinkOffers(Link(link[n], j, first), j, FALSE)
      BY <3>1, <2>3, LinkIsOffered
    <3>3. QED
      BY <3>2 DEF j, first
  <2>6. First(n + 1) = FALSE
    BY <2>1 DEF First
  <2>7. QED
    BY <2>4, <2>5, <2>6 DEF Is
<1> HIDE DEF S
<1>6. k \in S
  BY <1>2, <1>4, <1>5, SetInduction
<1>7. QED
  <2>1. LinkOffers(link[k], owner + k, First(k))
    BY <1>2, <1>6 DEF S, Is
  <2>2. First(k) = FALSE
    BY <1>2 DEF First
  <2>3. QED
    BY <2>1, <2>2, <1>2, <1>3

LEMMA OwnerFacts ==
  ASSUME NEW cs \in Seq(ChunkSet), cs # <<>>, NEW name
  PROVE  /\ Owner(cs, name) \in 0 .. Len(cs) - 1
         /\ Owner(cs, name) # 0 => /\ Owner(cs, name) \in 1 .. Len(cs) - 1
                                   /\ Find(cs[Owner(cs, name)].scope, name) # Absent
<1> DEFINE T == {0} \cup {k \in 1 .. Len(cs) - 1 : Find(cs[k].scope, name) # Absent}
           n == Len(cs) - 1
<1>1. n \in Nat /\ T \subseteq 0 .. n /\ T # {}
  BY EmptySeq
<1> HIDE DEF n
<1>2. Max(T) \in T
  BY <1>1, MaxIsGreatest
<1>3. Owner(cs, name) = Max(T)
  BY DEF Owner
<1>4. QED
  BY <1>1, <1>2, <1>3 DEF n

(* An instruction that reads or writes a variable: a local is on the stack *)
(* below the height.                                                       *)
Accesses(i, takes, height) ==
  /\ i \in Instruction /\ ~ Jumps(i)
  /\ Takes(i) = takes /\ Net(i) = 1 - takes
  /\ Slotted(i) => i[2] < height

LEMMA AccessShapes ==
  ASSUME NEW n \in Nat, NEW height \in Nat
  PROVE  /\ \A op \in {"GET_UPVALUE", "GET_GLOBAL"} : Accesses(<<op, n>>, 0, height)
         /\ \A op \in {"SET_UPVALUE", "SET_GLOBAL"} : Accesses(<<op, n>>, 1, height)
         /\ n < height => Accesses(<<"GET_LOCAL", n>>, 0, height)
         /\ n < height => Accesses(<<"SET_LOCAL", n>>, 1, height)
<1>1. ASSUME NEW op \in {"GET_UPVALUE", "GET_GLOBAL", "SET_UPVALUE", "SET_GLOBAL",
                         "GET_LOCAL", "SET_LOCAL"},
             NEW takes, takes = (IF op \in {"GET_UPVALUE", "GET_GLOBAL", "GET_LOCAL"} THEN 0 ELSE 1),
             op \in {"GET_LOCAL", "SET_LOCAL"} => n < height
      PROVE  Accesses(<<op, n>>, takes, height)
  <2> DEFINE i == <<op, n>>
  <2>1. i[1] = op /\ i[2] = n /\ i \in WithOperand \X Nat
    BY DEF WithOperand
  <2> HIDE DEF i
  <2>2. i \in Instruction /\ ~ Jumps(i)
    BY <2>1 DEF Instruction, Jumps
  <2>3. Takes(i) = takes /\ Leaves(i) = 1
    BY <1>1, <2>1 DEF Takes, Leaves
  <2>4. Slotted(i) => i[2] < height
    BY <1>1, <2>1 DEF Slotted
  <2>5. QED
    BY <2>2, <2>3, <2>4 DEF Accesses, Net, i
<1>2. QED
  BY <1>1

Missing(c, missing, height) ==
  /\ missing \in {0, 1} /\ (missing = 1 => LastIsMissing(c.scope))
  /\ height \in Nat /\ height = 1 + Size(c.scope, Len(c.scope)) - missing

ResolvedWell(cs, c, r, height) ==
  /\ r.chunks \in Seq(ChunkSet) /\ Len(r.chunks) = Len(cs)
  /\ \A k \in 1 .. Len(cs) - 1 : AlikeChunk(cs[k], r.chunks[k])
  /\ Rewritten(c, r.chunks[Len(cs)]) /\ r.chunks[Len(cs)].code = c.code
  /\ Linked(r.chunks)
  /\ Accesses(<<r.get, r.operand>>, 0, height)
  /\ Accesses(<<r.set, r.operand>>, 1, height)
  /\ Harmless(<<r.get, r.operand>>, Len(r.chunks[Len(cs)].upvalues))
  /\ Harmless(<<r.set, r.operand>>, Len(r.chunks[Len(cs)].upvalues))

LEMMA HarmlessAccesses ==
  ASSUME NEW x, NEW n
  PROVE  /\ \A op \in {"GET_LOCAL", "SET_LOCAL", "GET_GLOBAL", "SET_GLOBAL"} :
              Harmless(<<op, x>>, n)
         /\ x \in 0 .. n - 1 => \A op \in Reads : Harmless(<<op, x>>, n)
BY DEF Harmless, Reads

LEMMA ResolveFacts ==
  ASSUME NEW cs \in Seq(ChunkSet), cs # <<>>, Linked(cs),
         \A k \in 1 .. Len(cs) : GoodScope(cs[k].scope),
         NEW name \in Names, ~ Unresolvable(cs, name),
         NEW c, c = cs[Len(cs)], NEW missing, NEW height, Missing(c, missing, height),
         NEW r, r = Resolve(cs, name)
  PROVE  ResolvedWell(cs, c, r, height)
<1> DEFINE K == Len(cs)
           offset == Find(c.scope, name)
           owner == Owner(cs, name)
           thread == Thread(cs, name, owner)
           after == IF owner = 0 THEN cs ELSE thread.chunks
           global == AddConstant(c, Text(name))
           index == ConstantIndex(c.constants, Text(name))
<1>1. /\ K \in Nat \ {0} /\ K \in 1 .. K /\ \A k \in 1 .. K - 1 : k \in 1 .. K
      /\ c \in ChunkSet /\ GoodScope(c.scope) /\ Last(cs) = c
      /\ missing \in {0, 1} /\ (missing = 1 => LastIsMissing(c.scope))
      /\ height \in Nat /\ height = 1 + Size(c.scope, Len(c.scope)) - missing
  BY EmptySeq DEF Last, Missing
<1>2. /\ owner \in 0 .. K - 1
      /\ owner # 0 => owner \in 1 .. K - 1 /\ Find(cs[owner].scope, name) # Absent
  BY OwnerFacts
<1>3. /\ Threaded(cs, after) /\ Linked(after)
      /\ owner # 0 => /\ thread.index \in Nat
                      /\ thread.index \in 0 .. Len(after[K].upvalues) - 1
  <2>1. CASE owner = 0
    <3>1. Threaded(cs, cs)
      BY AlikeSelf, <1>1 DEF Threaded
    <3>2. QED
      BY <2>1, <3>1
  <2>2. CASE owner # 0
    <3>1. /\ owner \in 1 .. Len(cs) - 1 /\ GoodScope(cs[owner].scope)
          /\ Find(cs[owner].scope, name) # Absent
      BY <2>2, <1>1, <1>2
    <3>4. Find(cs[owner].scope, name) # Uninitialized
      BY <2>2 DEF Unresolvable
    <3> HIDE DEF owner
    <3>2. thread \in LinkSet(cs)
      BY <3>1, ThreadFits
    <3>5. LinkOffers(thread, Len(cs), FALSE)
      BY <3>1, <3>4, ThreadIsOffered
    <3> HIDE DEF thread
    <3>6. Linked(thread.chunks) /\ thread.index \in 0 .. Len(thread.chunks[K].upvalues) - 1
      BY <3>5 DEF LinkOffers, Offers
    <3>3. QED
      BY <2>2, <3>2, <3>6 DEF LinkSet
  <2>3. QED
    BY <2>1, <2>2
<1>4. /\ after \in Seq(ChunkSet) /\ Len(after) = K
      /\ \A k \in 1 .. K - 1 : AlikeChunk(cs[k], after[k])
      /\ Rewritten(c, after[K]) /\ after[K].code = c.code
  <2>1. /\ after \in Seq(ChunkSet) /\ Len(after) = K
        /\ \A k \in 1 .. K : AlikeChunk(cs[k], after[k])
        /\ after[K].scope = c.scope
    BY <1>1, <1>3 DEF Threaded
  <2> HIDE DEF after
  <2>2. AlikeChunk(c, after[K])
    BY <1>1, <2>1
  <2>3. Adds(c, after[K])
    <3>1. Adds(c, c)
      BY <1>1, AddsSelf
    <3>2. QED
      BY <2>2, <3>1 DEF AlikeChunk, Adds
  <2>4. QED
    BY <1>1, <2>1, <2>2, <2>3 DEF AlikeChunk, Rewritten
<1>5. offset # Uninitialized
  BY <1>1 DEF Unresolvable
<1>6. r = (IF offset # Absent
             THEN [chunks |-> after, get |-> "GET_LOCAL", set |-> "SET_LOCAL",
                   operand |-> Byte(offset)]
           ELSE IF owner # 0
             THEN [chunks |-> after, get |-> "GET_UPVALUE", set |-> "SET_UPVALUE",
                   operand |-> thread.index]
           ELSE [chunks |-> [cs EXCEPT ![K] = AddConstant(@, Text(name))],
                 get |-> "GET_GLOBAL", set |-> "SET_GLOBAL", operand |-> index])
  BY DEF Resolve
<1>7. [cs EXCEPT ![K] = AddConstant(@, Text(name))] = [cs EXCEPT ![K] = global]
  BY <1>1
<1>8. /\ global \in ChunkSet /\ Recoded(c, global) /\ global.code = c.code /\ index \in Nat
      /\ global.upvalues = c.upvalues
  <2>1. Text(name) \in Constant
    BY DEF Text, Constant
  <2>2. QED
    BY <2>1, <1>1, ConstantFacts
<1> HIDE DEF offset, owner, thread, after, global, index
<1>9. CASE offset # Absent
  <2>1. Byte(offset) \in Nat /\ Byte(offset) < height
    <3>1. Find(c.scope, name) \notin {Absent, Uninitialized}
      BY <1>5, <1>9 DEF offset
    <3>2. /\ offset \in Nat /\ offset <= Size(c.scope, Len(c.scope)) - missing
      BY <3>1, <1>1, FoundIsBelowTop DEF offset
    <3>3. Size(c.scope, Len(c.scope)) \in Nat
      <4>1. c.scope \in Levels /\ Len(c.scope) \in 0 .. Len(c.scope)
        BY <1>1, LevelFacts DEF GoodScope
      <4>2. QED
        BY <4>1, SizeFacts
    <3>4. Byte(offset) \in Nat /\ Byte(offset) <= offset
      BY <3>2, ByteFacts
    <3>5. QED
      BY <3>2, <3>3, <3>4, <1>1
  <2>2. /\ r.chunks = after /\ r.get = "GET_LOCAL" /\ r.set = "SET_LOCAL"
        /\ r.operand = Byte(offset)
    BY <1>6, <1>9
  <2>3. /\ Harmless(<<r.get, r.operand>>, Len(r.chunks[K].upvalues))
        /\ Harmless(<<r.set, r.operand>>, Len(r.chunks[K].upvalues))
    BY <2>2, HarmlessAccesses
  <2>4. QED
    BY <2>1, <2>2, <2>3, <1>1, <1>3, <1>4, AccessShapes DEF ResolvedWell
<1>10. CASE offset = Absent /\ owner # 0
  <2>1. /\ r.chunks = after /\ r.get = "GET_UPVALUE" /\ r.set = "SET_UPVALUE"
        /\ r.operand = thread.index
    BY <1>6, <1>10
  <2>2. /\ Harmless(<<r.get, r.operand>>, Len(r.chunks[K].upvalues))
        /\ Harmless(<<r.set, r.operand>>, Len(r.chunks[K].upvalues))
    BY <2>1, <1>3, <1>10, HarmlessAccesses DEF Reads
  <2>3. QED
    BY <2>1, <2>2, <1>1, <1>3, <1>4, <1>10, AccessShapes DEF ResolvedWell
<1>11. CASE offset = Absent /\ owner = 0
  <2> DEFINE ds == [cs EXCEPT ![K] = global]
  <2>1. /\ r.chunks = ds /\ r.get = "GET_GLOBAL" /\ r.set = "SET_GLOBAL"
        /\ r.operand = index
    BY <1>6, <1>7, <1>11
  <2>2. /\ ds \in Seq(ChunkSet) /\ Len(ds) = K
        /\ \A j \in 1 .. K : ds[j] = IF j = K THEN global ELSE cs[j]
    BY <1>1, <1>8, ExceptSeq
  <2> HIDE DEF ds
  <2>3. \A k \in 1 .. K - 1 : AlikeChunk(cs[k], ds[k])
    <3>1. TAKE k \in 1 .. K - 1
    <3>2. k \in 1 .. K /\ k # K /\ AlikeChunk(cs[k], cs[k])
      BY <1>1, AlikeSelf
    <3>3. QED
      BY <3>2, <2>2
  <2>4. ds[K] = global
    BY <1>1, <2>2
  <2>5. Linked([cs EXCEPT ![K] = global])
    <3>1. /\ Len(cs[K].upvalues) <= Len(global.upvalues)
          /\ \A u \in ToSet(global.upvalues) : u \in ToSet(cs[K].upvalues)
      BY <1>1, <1>8, UpvaluesCount
    <3>2. QED
      BY <3>1, <1>1, <1>8, LinkedExcept
  <2>6. /\ Harmless(<<r.get, r.operand>>, Len(r.chunks[K].upvalues))
        /\ Harmless(<<r.set, r.operand>>, Len(r.chunks[K].upvalues))
    BY <2>1, HarmlessAccesses
  <2>7. Linked(ds) /\ Rewritten(c, global)
    BY <2>5, <1>8, RecodedRewrites DEF ds
  <2>8. QED
    BY <2>1, <2>2, <2>3, <2>4, <2>6, <2>7, <1>1, <1>8, AccessShapes DEF ResolvedWell
<1>12. QED
  BY <1>9, <1>10, <1>11

SucceedsTo(cs, ds) ==
  /\ ds \in Seq(ChunkSet) /\ Len(ds) = Len(cs)
  /\ \A k \in 1 .. Len(cs) - 1 : AlikeChunk(cs[k], ds[k])
  /\ Linked(ds)

(* Named: a variable is read.                                              *)
LEMMA NamedFacts ==
  ASSUME NEW cs \in Seq(ChunkSet), cs # <<>>, Linked(cs),
         \A k \in 1 .. Len(cs) : GoodScope(cs[k].scope),
         NEW name \in Names, ~ Unresolvable(cs, name),
         NEW c, c = cs[Len(cs)],
         NEW v, NEW s \in State, Full(s), Meets(c, v, s), NEW e \in Nat, e = s.extra + 1,
         NEW ds, ds = Named(cs, name)
  PROVE  /\ SucceedsTo(cs, ds)
         /\ Rewritten(c, ds[Len(cs)]) /\ Written(ds[Len(cs)], v, Above(s, e))
<1> DEFINE K == Len(cs)
           r == Resolve(cs, name)
           m == r.chunks[K]
           i == <<r.get, r.operand>>
           n == Emit(m, <<i>>)
           height == Base(s) - s.missing
<1>1. /\ K \in Nat \ {0} /\ K \in 1 .. K /\ c \in ChunkSet
      /\ Len(c.scope) = s.levels /\ s.locals[s.levels] = Size(c.scope, s.levels)
      /\ s.locals[s.levels] \in Nat
      /\ height \in Nat /\ s.missing \in {0, 1}
      /\ s.missing = 1 => LastIsMissing(c.scope)
      /\ HeightOf(s) = height + s.extra /\ s.extra \in Nat
      /\ Fitted(c.code, c.arity, v, s)
  <2>1. K \in Nat \ {0}
    BY EmptySeq
  <2>2. /\ Base(s) - s.missing \in Nat \ {0} /\ HeightOf(s) = Base(s) - s.missing + s.extra
        /\ s.extra \in Nat /\ s.missing \in {0, 1} /\ s.levels \in 1 .. Len(s.locals)
        /\ s.locals[s.levels] \in Nat
    BY FullFacts
  <2>3. /\ Len(c.scope) = s.levels /\ s.locals[s.levels] = Size(c.scope, s.levels)
        /\ s.missing = 1 => LastIsMissing(c.scope)
        /\ Placed(c.code, c.arity, v, 1 + Size(c.scope, s.levels) - s.missing + s.extra,
                  s.guard, s.open, s.loops)
    BY <2>2 DEF Meets
  <2>4. Fitted(c.code, c.arity, v, s)
    <3>1. HeightOf(s) = 1 + Size(c.scope, s.levels) - s.missing + s.extra
      BY <2>2, <2>3 DEF HeightOf, Base
    <3>2. QED
      BY <2>3, <3>1 DEF Fitted
  <2>5. QED
    BY <2>1, <2>2, <2>3, <2>4
<1>2. height = 1 + Size(c.scope, Len(c.scope)) - s.missing
  BY <1>1 DEF Base
<1>3. /\ r.chunks \in Seq(ChunkSet) /\ Len(r.chunks) = K
      /\ \A k \in 1 .. K - 1 : AlikeChunk(cs[k], r.chunks[k])
      /\ Rewritten(c, m) /\ m.code = c.code /\ Linked(r.chunks)
      /\ Accesses(i, 0, height) /\ Harmless(i, Len(m.upvalues))
  <2>1. Missing(c, s.missing, height)
    BY <1>1, <1>2 DEF Missing
  <2>2. ResolvedWell(cs, c, r, height)
    <3> HIDE DEF height
    <3>1. QED
      BY <2>1, ResolveFacts
  <2>3. QED
    BY <2>2 DEF ResolvedWell
<1>4. ds = [r.chunks EXCEPT ![K] = n]
  BY <1>1, <1>3 DEF Named
<1> HIDE DEF r
<1>5. /\ i \in Instruction /\ ~ Jumps(i) /\ Takes(i) = 0 /\ Net(i) = 1
      /\ Slotted(i) => i[2] < height
  BY <1>3 DEF Accesses
<1> HIDE DEF i
<1>6. /\ Takes(i) < HeightOf(s) /\ (Slotted(i) => i[2] < HeightOf(s)) /\ e = s.extra + Net(i)
  <2>1. Slotted(i) => i[2] \in Nat
    BY <1>5, InstructionFacts
  <2>2. HeightOf(s) > 0
    BY FullFacts
  <2> HIDE DEF height
  <2>3. QED
    BY <2>1, <2>2, <1>1, <1>5
<1>7. PICK v2 : Fitted(c.code \o <<i>>, c.arity, v2, Above(s, e)) /\ Extends(v, v2)
  BY <1>1, <1>5, <1>6, WriteOne DEF Above
<1>14. m = r.chunks[K]
  OBVIOUS
<1> HIDE DEF m
<1>8. m.arity = c.arity /\ m \in ChunkSet
  BY <1>3 DEF Rewritten
<1>9. /\ n \in ChunkSet /\ Rewritten(c, n) /\ Fitted(n.code, n.arity, v2, Above(s, e))
      /\ n.upvalues = m.upvalues
  <2> DEFINE more == <<i>>
             u == Above(s, e)
  <2>1. Fitted(m.code \o more, m.arity, v2, u)
    BY <1>3, <1>7, <1>8
  <2>4. Mild(more, Len(m.upvalues))
    BY <1>3, <1>5 DEF Mild
  <2> HIDE DEF more, u
  <2>2. /\ Emit(m, more) \in ChunkSet /\ Recoded(m, Emit(m, more))
        /\ Emit(m, more).code = m.code \o more /\ Emit(m, more).arity = m.arity
        /\ Emit(m, more).upvalues = m.upvalues
    BY <2>4, <1>8, EmitFacts
  <2>3. Rewritten(c, Emit(m, more))
    BY <2>2, <1>1, <1>3, RecodedRewrites, RewrittenTrans
  <2>5. QED
    BY <2>1, <2>2, <2>3 DEF more, u
<1> HIDE DEF n
<1>10. /\ ds \in Seq(ChunkSet) /\ Len(ds) = K /\ ds[K] = n
       /\ \A k \in 1 .. K : ds[k] = IF k = K THEN n ELSE r.chunks[k]
  BY <1>1, <1>3, <1>4, <1>9, ExceptSeq
<1>11. \A k \in 1 .. K - 1 : AlikeChunk(cs[k], ds[k])
  <2>1. TAKE k \in 1 .. K - 1
  <2>2. k \in 1 .. K /\ k # K
    BY <1>1
  <2>3. QED
    BY <2>2, <1>3, <1>10
<1>12. Written(n, v, Above(s, e))
  BY <1>7, <1>9 DEF Written
<1>15. Linked(ds)
  <2>1. /\ Len(r.chunks[K].upvalues) <= Len(n.upvalues)
        /\ \A u \in ToSet(n.upvalues) : u \in ToSet(r.chunks[K].upvalues)
    BY <1>8, <1>9, <1>14, UpvaluesCount
  <2>2. K = Len(r.chunks) /\ K \in 1 .. Len(r.chunks) /\ r.chunks \in Seq(ChunkSet)
        /\ Linked(r.chunks)
    BY <1>1, <1>3
  <2>3. QED
    BY <2>1, <2>2, <1>4, <1>9, LinkedExcept
<1>13. QED
  BY <1>9, <1>10, <1>11, <1>12, <1>15 DEF SucceedsTo

(* Reading a variable in the current function, which is c by now.          *)
LEMMA ReadFacts ==
  ASSUME NEW w, NEW s, NEW t, Standing(w, s, t),
         NEW c \in ChunkSet, Recoded(Current, c), NEW cs, cs = With(c), Succeeds(cs, c),
         NEW v, NEW u \in State, Full(u), Meets(c, v, u), NEW e \in Nat, e = u.extra + 1,
         NEW name \in Names, ~ Unresolvable(cs, name), NEW ds, ds = Named(cs, name)
  PROVE  \E n : Succeeds(ds, n) /\ Rewritten(Current, n) /\ Written(n, v, Above(u, e))
<1> DEFINE K == Len(chunks)
<1>1. /\ chunks \in Seq(ChunkSet) /\ K \in Nat \ {0} /\ K \in 1 .. K
      /\ \A k \in 1 .. K : GoodScope(chunks[k].scope)
      /\ Current = chunks[K] /\ Current \in ChunkSet
  BY StandingFacts DEF Standing
<1>2. /\ cs \in Seq(ChunkSet) /\ Len(cs) = K
      /\ \A k \in 1 .. K : cs[k] = IF k = K THEN c ELSE chunks[k]
  BY <1>1, ExceptSeq DEF With
<1>3. /\ cs # <<>> /\ c = cs[Len(cs)] /\ \A k \in 1 .. Len(cs) : GoodScope(cs[k].scope)
      /\ Linked(cs)
  BY <1>1, <1>2 DEF Recoded, Rewritten, Succeeds
<1>4. /\ SucceedsTo(cs, ds) /\ Rewritten(c, ds[Len(cs)]) /\ Written(ds[Len(cs)], v, Above(u, e))
  BY <1>2, <1>3, NamedFacts
<1>5. Succeeds(ds, ds[K])
  <2>1. \A k \in 1 .. K - 1 : k \in 1 .. K /\ cs[k] = chunks[k]
    BY <1>1, <1>2
  <2>2. QED
    BY <2>1, <1>2, <1>4 DEF Succeeds, SucceedsTo
<1>6. Rewritten(Current, ds[K])
  BY <1>1, <1>2, <1>4, RecodedRewrites, RewrittenTrans
<1>7. QED
  BY <1>2, <1>4, <1>5, <1>6

LEMMA ReadHere ==
  ASSUME NEW w, NEW s, NEW t, Standing(w, s, t), NEW e \in Nat, e = s.extra + 1,
         NEW name \in Names, ~ Unresolvable(chunks, name), NEW ds, ds = Named(chunks, name)
  PROVE  \E n : /\ Succeeds(ds, n) /\ Rewritten(Current, n)
                /\ Written(n, w[Len(chunks)], Above(s, e))
<1>1. /\ Current \in ChunkSet /\ Recoded(Current, Current) /\ s \in State /\ Full(s)
      /\ Meets(Current, w[Len(chunks)], s) /\ Succeeds(chunks, Current)
  BY StandingFacts, RecodingFacts
<1>2. chunks = With(Current)
  <2>1. Current = chunks[Len(chunks)] /\ chunks \in Seq(ChunkSet)
    BY StandingFacts DEF Standing
  <2>2. QED
    BY <2>1 DEF With
<1> DEFINE v == w[Len(chunks)]
<1>3. Meets(Current, v, s)
  BY <1>1
<1> HIDE DEF v
<1>4. \E n : Succeeds(ds, n) /\ Rewritten(Current, n) /\ Written(n, v, Above(s, e))
  BY <1>1, <1>2, <1>3, ReadFacts
<1>5. QED
  BY <1>4 DEF v

LEMMA ResolveHere ==
  ASSUME NEW w, NEW s, NEW t, Standing(w, s, t),
         NEW name \in Names, ~ Unresolvable(chunks, name), NEW r, r = Resolve(chunks, name)
  PROVE  LET n == r.chunks[Len(chunks)]
         IN  /\ Succeeds(r.chunks, n) /\ Rewritten(Current, n) /\ n.code = Current.code
             /\ Accesses(<<r.set, r.operand>>, 1, Base(s) - s.missing)
             /\ Harmless(<<r.set, r.operand>>, Len(n.upvalues))
<1> DEFINE height == Base(s) - s.missing
<1>1. /\ chunks \in Seq(ChunkSet) /\ chunks # <<>>
      /\ \A k \in 1 .. Len(chunks) : GoodScope(chunks[k].scope)
      /\ Linked(chunks)
  BY DEF Standing
<1>2. Current = chunks[Len(chunks)] /\ Missing(Current, s.missing, height)
  <2>1. /\ Full(s) /\ s \in State /\ Meets(Current, w[Len(chunks)], s)
        /\ Len(Current.scope) = s.levels /\ Current = chunks[Len(chunks)]
        /\ Base(s) = 1 + Size(Current.scope, s.levels)
    BY StandingFacts
  <2>2. /\ Base(s) - s.missing \in Nat \ {0} /\ s.missing \in {0, 1} /\ Base(s) \in Nat
        /\ s.locals[s.levels] \in Nat /\ Base(s) = 1 + s.locals[s.levels]
    BY <2>1, FullFacts DEF Base
  <2>3. s.missing = 1 => LastIsMissing(Current.scope)
    BY <2>1 DEF Meets
  <2>4. height \in Nat
    BY <2>2
  <2>5. s.locals[s.levels] = Size(Current.scope, s.levels)
    <3>1. s.levels \in 1 .. s.levels
      BY <2>1, FullFacts
    <3>2. QED
      BY <3>1, StandingFacts
  <2>6. height = 1 + Size(Current.scope, Len(Current.scope)) - s.missing
    BY <2>1, <2>2, <2>5
  <2> HIDE DEF height
  <2>7. QED
    BY <2>1, <2>2, <2>3, <2>4, <2>6 DEF Missing
<1> HIDE DEF height
<1>3. ResolvedWell(chunks, Current, r, height)
  BY <1>1, <1>2, ResolveFacts
<1>4. QED
  BY <1>3 DEF ResolvedWell, Succeeds, height

(* The state of a function that has n upvalues.                            *)
Reading(s, n) == [s EXCEPT !.reads = 0 .. n - 1]

LEMMA ReadingFacts ==
  ASSUME NEW s \in State, Full(s), NEW n \in Nat, NEW u, u = Reading(s, n)
  PROVE  /\ u \in State /\ Full(u) /\ u.reads = 0 .. n - 1
         /\ u.chunk = s.chunk /\ u.extra = s.extra /\ u.open = s.open
         /\ Base(u) = Base(s) /\ u.missing = s.missing /\ HeightOf(u) = HeightOf(s)
         /\ \A t, e : Becomes(s, t, e, s.open) /\ s.reads \subseteq 0 .. n - 1
                       => Becomes(u, t, e, u.open)
         /\ \A code, arity, v : Fitted(code, arity, v, s) => Fitted(code, arity, v, u)
<1>1. 0 .. n - 1 \in SUBSET Nat
  OBVIOUS
<1>2. /\ u \in State /\ u.reads = 0 .. n - 1
      /\ u.chunk = s.chunk /\ u.levels = s.levels /\ u.locals = s.locals
      /\ u.missing = s.missing /\ u.extra = s.extra /\ u.guard = s.guard
      /\ u.open = s.open /\ u.loops = s.loops /\ u.super = s.super
  BY <1>1 DEF Reading, State
<1>3. Full(u) /\ Base(u) = Base(s) /\ HeightOf(u) = HeightOf(s)
  BY <1>2 DEF Full, Base, HeightOf
<1>4. \A t, e : Becomes(s, t, e, s.open) /\ s.reads \subseteq 0 .. n - 1
                => Becomes(u, t, e, u.open)
  BY <1>2 DEF Becomes, Keeps, Context
<1>5. \A code, arity, v : Fitted(code, arity, v, s) => Fitted(code, arity, v, u)
  BY <1>2, <1>3 DEF Fitted
<1>6. QED
  BY <1>2, <1>3, <1>4, <1>5

(* The function has been rewritten, and its upvalues may now be asked for. *)
LEMMA MeetsReading ==
  ASSUME NEW a, NEW b, NEW v, NEW s \in State, Full(s), Meets(a, v, s), Rewritten(a, b),
         b.code = a.code, NEW n, n = Len(b.upvalues)
  PROVE  /\ n \in Nat /\ s.reads \subseteq 0 .. n - 1
         /\ Meets(b, v, Reading(s, n)) /\ Fitted(a.code, a.arity, v, s)
<1>1. /\ a \in ChunkSet /\ b \in ChunkSet /\ Len(a.upvalues) <= Len(b.upvalues)
      /\ b.scope = a.scope /\ b.arity = a.arity /\ b.hasSuperclass = a.hasSuperclass
      /\ s.reads \subseteq 0 .. Len(a.upvalues) - 1
  BY DEF Meets, GoodChunk, Rewritten, Adds
<1>2. Len(a.upvalues) \in Nat /\ n \in Nat
  BY <1>1, UpvaluesCount
<1>3. s.reads \subseteq 0 .. n - 1
  <2> DEFINE m == Len(a.upvalues)
  <2>1. m \in Nat /\ n \in Nat /\ m <= n /\ s.reads \subseteq 0 .. m - 1
    BY <1>1, <1>2
  <2> HIDE DEF m
  <2>2. 0 .. m - 1 \subseteq 0 .. n - 1
    BY <2>1
  <2>3. QED
    BY <2>1, <2>2
<1> DEFINE u == Reading(s, n)
<1>4. /\ u.reads = 0 .. n - 1
      /\ u.levels = s.levels /\ u.locals = s.locals
      /\ u.missing = s.missing /\ u.extra = s.extra /\ u.guard = s.guard
      /\ u.open = s.open /\ u.loops = s.loops /\ u.super = s.super
  BY DEF Reading, State
<1> HIDE DEF u
<1>5. Meets(b, v, u)
  BY <1>1, <1>4 DEF Meets, GoodChunk
<1>6. Fitted(a.code, a.arity, v, s)
  <2>1. HeightOf(s) = 1 + Size(a.scope, s.levels) - s.missing + s.extra
    <3>1. s.levels \in 1 .. Len(s.locals)
      BY FullFacts
    <3>2. s.locals[s.levels] = Size(a.scope, s.levels)
      BY <3>1 DEF Meets
    <3>3. /\ s.locals[s.levels] \in Nat /\ s.missing \in {0, 1} /\ s.extra \in Nat
          /\ HeightOf(s) = Base(s) - s.missing + s.extra
      BY FullFacts
    <3>4. QED
      BY <3>2, <3>3 DEF Base
  <2>2. QED
    BY <2>1 DEF Meets, Fitted
<1>7. QED
  BY <1>2, <1>3, <1>5, <1>6 DEF u

LEMMA VariableCompiles ==
  ASSUME Compiles, Variable, grammar \in Grammars, status' = "compiling"
  PROVE  Compiles'
<1>1. Head(todo)[1] = "precedence"
  BY DEF Variable, Doing
<1>2. PICK w, s, t : Standing(w, s, t)
  BY <1>1, HeadStands
<1> DEFINE v == w[Len(chunks)]
           e == s.extra + 1
           x == <<"infix", Level, Depth>>
<1>3. PICK name \in Name :
        /\ ~ Unresolvable(chunks, name)
        /\ \/ Prefix(Named(chunks, name), <<>>)
           \/ LET r == Resolve(chunks, name)
              IN  Prefix(r.chunks, <<Expression(Depth), ThenEmit(<< <<r.set, r.operand>> >>)>>)
  BY DEF Variable, Fail
<1>4. /\ s \in State /\ t \in State /\ Full(s) /\ s.extra \in Nat /\ e \in Nat
      /\ Becomes(s, t, e, s.open) /\ Fitted(Current.code, Current.arity, v, s)
      /\ name \in Names /\ Level \in Strength
  BY <1>1, <1>2, <1>3, AtPrecedence, GrammarFacts
<1>5. CASE Prefix(Named(chunks, name), <<>>)
  <2> DEFINE ds == Named(chunks, name)
  <2>1. PICK n : /\ Succeeds(ds, n) /\ Rewritten(Current, n)
                 /\ Written(n, v, Above(s, e))
    <3>1. ds = Named(chunks, name) /\ e = s.extra + 1
      OBVIOUS
    <3> HIDE DEF ds, e
    <3>2. QED
      BY <3>1, <1>2, <1>3, <1>4, ReadHere
  <2>2. PICK v2 : Fitted(n.code, n.arity, v2, Above(s, e)) /\ Extends(v, v2)
    BY <2>1 DEF Written
  <2>3. Continue(ds, Append(<<>>, x))
    BY <1>5 DEF Prefix
  <2> HIDE DEF ds
  <2>4. QED
    BY <1>1, <1>2, <1>4, <2>1, <2>2, <2>3, PrefixEmits
<1>6. CASE LET r == Resolve(chunks, name)
           IN  Prefix(r.chunks, <<Expression(Depth), ThenEmit(<< <<r.set, r.operand>> >>)>>)
  <2> DEFINE r == Resolve(chunks, name)
             i == <<r.set, r.operand>>
             y == Expression(Depth)
             z == ThenEmit(<<i>>)
             n == r.chunks[Len(chunks)]
             cs == r.chunks
             k == Len(n.upvalues)
             m == Reading(s, k)
             u == Above(m, e)
  <2>1. Continue(cs, Append(<<y, z>>, x))
    BY <1>6 DEF Prefix
  <2>2. /\ Succeeds(cs, n) /\ Rewritten(Current, n) /\ n.code = Current.code
        /\ Accesses(i, 1, Base(s) - s.missing) /\ Harmless(i, k)
    <3>1. r = Resolve(chunks, name)
      OBVIOUS
    <3> HIDE DEF r
    <3>2. QED
      BY <3>1, <1>2, <1>3, <1>4, ResolveHere
  <2>3. k = Len(n.upvalues) /\ m = Reading(s, k) /\ u = Above(m, e) /\ e = s.extra + 1
    OBVIOUS
  <2> HIDE DEF r, y, u, m, k, n, e
  <2>4. /\ k \in Nat /\ s.reads \subseteq 0 .. k - 1 /\ Meets(n, v, m)
    <3>1. Meets(Current, v, s)
      BY <1>2, StandingFacts
    <3> HIDE DEF v
    <3>2. QED
      BY <3>1, <2>2, <2>3, <1>4, MeetsReading
  <2>5. /\ m \in State /\ Full(m) /\ m.reads = 0 .. k - 1 /\ m.chunk = s.chunk
        /\ m.extra = s.extra /\ m.open = s.open
        /\ Base(m) - m.missing = Base(s) - s.missing
        /\ Becomes(m, t, e, m.open)
    <3>1. s \in State /\ Full(s) /\ k \in Nat /\ m = Reading(s, k)
      BY <2>3, <2>4, <1>4
    <3>2. /\ m \in State /\ Full(m) /\ m.reads = 0 .. k - 1
          /\ m.chunk = s.chunk /\ m.extra = s.extra /\ m.open = s.open
          /\ Base(m) = Base(s) /\ m.missing = s.missing /\ HeightOf(m) = HeightOf(s)
          /\ \A y2, x2 : Becomes(s, y2, x2, s.open) /\ s.reads \subseteq 0 .. k - 1
                       => Becomes(m, y2, x2, m.open)
      BY <3>1, ReadingFacts
    <3>3. Becomes(s, t, e, s.open) /\ s.reads \subseteq 0 .. k - 1
      BY <2>4, <1>4
    <3>4. QED
      BY <3>2, <3>3
  <2>6. Becomes(m, u, e, m.open) /\ m.extra \in Nat /\ e = m.extra + 1
    BY <2>3, <2>5, <1>4, AboveFacts
  <2>7. Leading(<<y>>, m, u, v)
    <3>1. Leading(<<y>>, Above(m, m.extra), u, v)
      BY <2>5, <2>6, LeadExpression DEF y
    <3>2. QED
      BY <3>1, <2>5, AboveSelf
  <2>8. Leading(<<z>>, u, u, v)
    <3>1. /\ i \in Instruction /\ ~ Jumps(i) /\ Takes(i) = 1 /\ Net(i) = 0
          /\ Slotted(i) => i[2] < Base(m) - m.missing
      BY <2>2, <2>5 DEF Accesses
    <3>5. i[1] # "CLOSURE" /\ (i[1] \in Reads => i[2] \in m.reads)
      BY <2>2, <2>5 DEF Harmless
    <3> HIDE DEF i
    <3>2. Takes(i) < Base(m) - m.missing + e /\ e + Net(i) = e
          /\ (Slotted(i) => i[2] < Base(m) - m.missing + e)
      <4>1. Base(m) - m.missing \in Nat \ {0}
        BY <2>5, FullFacts
      <4>2. (Slotted(i) => i[2] \in Nat) /\ e >= 1 /\ e \in Nat
        BY <1>4, <2>3, <3>1, InstructionFacts
      <4>3. QED
        BY <4>1, <4>2, <3>1
    <3>3. Becomes(m, u, e + Net(i), m.open)
      BY <2>6, <3>2
    <3>4. Leading(<<z>>, Above(m, e), u, v)
      BY <1>4, <2>5, <3>1, <3>2, <3>3, <3>5, LeadEmit
    <3>6. QED
      BY <3>4, <2>3
  <2> HIDE DEF z, i
  <2>9. Leading(<<y, z>>, m, u, v)
    BY <2>7, <2>8, LeadTwo
  <2> DEFINE items == <<y, z>>
  <2> HIDE DEF items
  <2>10. Leading(Append(items, x), m, t, v)
    <3>1. Leading(items, m, Above(m, m.extra + 1), v) /\ Becomes(m, t, m.extra + 1, m.open)
      BY <2>3, <2>5, <2>6, <2>9 DEF items
    <3>2. QED
      BY <3>1, <2>5, <1>4, PrefixLeads
  <2>11. Extends(v, v) /\ Adds(Current, n) /\ Continue(cs, Append(items, x))
    BY <2>1, <2>2 DEF Extends, Rewritten, items
  <2> HIDE DEF cs, x, v
  <2>12. QED
    BY <1>2, <2>2, <2>4, <2>5, <2>10, <2>11, Continued DEF v
<1>7. QED
  BY <1>3, <1>5, <1>6

-----------------------------------------------------------------------------
(* super: the receiver, and the superclass from the local `super'.         *)

LEMMA SuperIsResolvable ==
  ASSUME NEW cs \in Seq(ChunkSet), cs # <<>>,
         \A k \in 1 .. Len(cs) : GoodScope(cs[k].scope)
  PROVE  ~ Unresolvable(cs, "super")
<1>1. \A k \in 1 .. Len(cs) : Find(cs[k].scope, "super") # Uninitialized
  BY SuperIsInitialized DEF GoodScope
<1>2. Last(cs) = cs[Len(cs)] /\ Len(cs) \in 1 .. Len(cs)
  BY EmptySeq DEF Last
<1>3. /\ Owner(cs, "super") \in 0 .. Len(cs) - 1
      /\ Owner(cs, "super") # 0 => Owner(cs, "super") \in 1 .. Len(cs)
  <2>1. Owner(cs, "super") \in 0 .. Len(cs) - 1
    BY OwnerFacts
  <2>2. QED
    BY <2>1
<1>4. QED
  BY <1>1, <1>2, <1>3 DEF Unresolvable

LEMMA ReadSuper ==
  ASSUME NEW w, NEW s, NEW t, Standing(w, s, t), Head(todo)[1] = "precedence",
         NEW c, c = Emit(Current, << <<"GET_LOCAL", 0>> >>),
         NEW ds, ds = Named(With(c), "super"), NEW e \in Nat, e = s.extra + 2
  PROVE  \E n : /\ Succeeds(ds, n) /\ Rewritten(Current, n)
                /\ Written(n, w[Len(chunks)], Above(s, e))
<1> DEFINE v == w[Len(chunks)]
           e1 == s.extra + 1
           u == Above(s, e1)
           cs == With(c)
<1>1. /\ s \in State /\ Full(s) /\ s.extra \in Nat /\ e1 \in Nat /\ e = e1 + 1
  BY AtPrecedence
<1>2. Succeeds(cs, c) /\ Recoded(Current, c) /\ c \in ChunkSet
  BY EmitThis
<1>3. PICK v1 : Fitted(c.code, c.arity, v1, u) /\ Extends(v, v1)
  BY EmitThis
<1>4. u = Above(s, e1) /\ cs = With(c) /\ ds = Named(cs, "super")
  OBVIOUS
<1>5. v = w[Len(chunks)]
  OBVIOUS
<1> HIDE DEF u, cs, v, e1
<1>6. u \in State /\ Full(u) /\ Stays(s, u) /\ u.extra = e1
  BY <1>1, <1>4, AboveShape
<1>7. Meets(c, v1, u)
  <2>1. Meets(Current, v, s)
    BY <1>5, StandingFacts
  <2>2. QED
    BY <2>1, <1>1, <1>2, <1>3, <1>6, MeetsRecoded
<1>8. ~ Unresolvable(cs, "super")
  <2>1. /\ chunks \in Seq(ChunkSet) /\ Len(chunks) \in Nat \ {0}
        /\ \A k \in 1 .. Len(chunks) : GoodScope(chunks[k].scope)
        /\ Current = chunks[Len(chunks)]
    BY StandingFacts DEF Standing
  <2>2. /\ cs \in Seq(ChunkSet) /\ Len(cs) = Len(chunks)
        /\ \A k \in 1 .. Len(chunks) : cs[k] = IF k = Len(chunks) THEN c ELSE chunks[k]
    BY <2>1, <1>2, <1>4, ExceptSeq DEF With
  <2>3. cs # <<>> /\ \A k \in 1 .. Len(cs) : GoodScope(cs[k].scope)
    BY <2>1, <2>2, <1>2 DEF Recoded, Rewritten
  <2>4. QED
    BY <2>2, <2>3, SuperIsResolvable
<1>9. e = u.extra + 1
  BY <1>1, <1>6
<1> DEFINE name == "super"
<1>15. name \in Names
  <2>1. "super" \in {"init", "super"}
    OBVIOUS
  <2>2. QED
    BY <2>1 DEF Names
<1>10. PICK n : Succeeds(ds, n) /\ Rewritten(Current, n) /\ Written(n, v1, Above(u, e))
  <2>1. name \in Names /\ ~ Unresolvable(cs, name) /\ ds = Named(cs, name)
    BY <1>4, <1>8, <1>15
  <2> HIDE DEF name
  <2>2. QED
    BY <2>1, <1>2, <1>4, <1>6, <1>7, <1>9, ReadFacts
<1>11. Above(u, e) = Above(s, e)
  BY <1>1, <1>4, AboveAbove
<1>12. PICK v2 : Fitted(n.code, n.arity, v2, Above(s, e)) /\ Extends(v1, v2)
  BY <1>10, <1>11 DEF Written
<1>13. Extends(v, v2)
  BY <1>3, <1>12, ExtendsTrans
<1>14. QED
  BY <1>5, <1>10, <1>12, <1>13 DEF Written

LEMMA LeadSuper ==
  ASSUME NEW s \in State, Full(s), NEW e \in Nat, e = s.extra + 2,
         NEW t \in State, t = Above(s, s.extra + 1), NEW value \in Constant, NEW v
  PROVE  /\ Leading(<<ThenConstant("GET_SUPER", value, <<>>)>>, Above(s, e), t, v)
         /\ \A n \in Nat : \A d :
              Leading(Arguments(n, d) \o
                        <<RightParen, ThenConstant("SUPER_INVOKE", value, <<n>>)>>,
                      Above(s, e), t, v)
<1>1. s.extra \in Nat /\ s.extra + 1 \in Nat
  BY DEF State
<1>2. Becomes(s, t, s.extra + 1, s.open)
  BY <1>1, AboveFacts
<1>3. Leading(<<ThenConstant("GET_SUPER", value, <<>>)>>, Above(s, e), t, v)
  <2> DEFINE op == "GET_SUPER"
             operands == <<>>
  <2>1. /\ ConstantShape(op, operands, 2, -1) /\ 2 \in Nat /\ -1 \in Int /\ 2 <= e
        /\ e + -1 = s.extra + 1
    BY <1>1, ConstantShapes
  <2> HIDE DEF op, operands
  <2>2. Leading(<<ThenConstant(op, value, operands)>>, Above(s, e), t, v)
    BY <2>1, <1>2, LeadConstantShape
  <2>3. QED
    BY <2>2 DEF op, operands
<1>4. ASSUME NEW n \in Nat, NEW d
      PROVE  Leading(Arguments(n, d) \o
                       <<RightParen, ThenConstant("SUPER_INVOKE", value, <<n>>)>>,
                     Above(s, e), t, v)
  <2> DEFINE op == "SUPER_INVOKE"
             operands == <<n>>
             f == e + n
             x == ThenConstant(op, value, operands)
             takes == n + 2
             net == -(n + 1)
  <2>1. /\ ConstantShape(op, operands, takes, net) /\ takes \in Nat /\ net \in Int /\ takes <= f
        /\ f \in Nat /\ f + net = s.extra + 1 /\ f = e + n
    BY <1>1, ConstantShapes
  <2>2. x = ThenConstant(op, value, operands)
    OBVIOUS
  <2> HIDE DEF op, operands, x, f, takes, net
  <2>3. Leading(<<x>>, Above(s, f), t, v)
    BY <2>1, <2>2, <1>2, LeadConstantShape
  <2>4. Leading(<<RightParen>>, Above(s, f), Above(s, f), v)
    <3>1. Becomes(s, Above(s, f), f, s.open)
      BY <2>1, AboveFacts
    <3>2. QED
      BY <3>1, <2>1, LeadParen
  <2>5. Leading(<<RightParen, x>>, Above(s, f), t, v)
    BY <2>3, <2>4, LeadTwo
  <2>6. Leading(Arguments(n, d), Above(s, e), Above(s, f), v)
    BY <2>1, LeadArguments
  <2>7. QED
    BY <2>5, <2>6, LeadJoin DEF x, op, operands
<1>5. QED
  BY <1>3, <1>4

LEMMA SuperCompiles ==
  ASSUME Compiles, Super, grammar \in Grammars, status' = "compiling"
  PROVE  Compiles'
<1>1. Head(todo)[1] = "precedence"
  BY DEF Super, Doing
<1>2. PICK w, s, t : Standing(w, s, t)
  BY <1>1, HeadStands
<1> DEFINE v == w[Len(chunks)]
           e == s.extra + 2
           c == Emit(Current, << <<"GET_LOCAL", 0>> >>)
           ds == Named(With(c), "super")
           m == Above(s, s.extra + 1)
<1>3. PICK name \in Name :
        \/ Prefix(ds, <<ThenConstant("GET_SUPER", Text(name), <<>>)>>)
        \/ \E n \in 0 .. grammar.arity :
             Prefix(ds, Arguments(n, Depth) \o
                          <<RightParen, ThenConstant("SUPER_INVOKE", Text(name), <<n>>)>>)
  BY DEF Super, Fail
<1>4. /\ s \in State /\ t \in State /\ Full(s) /\ s.extra \in Nat /\ e \in Nat
      /\ s.extra + 1 \in Nat /\ Becomes(s, t, s.extra + 1, s.open)
      /\ Text(name) \in Constant /\ 0 .. grammar.arity \subseteq Nat
      /\ e = s.extra + 2 /\ m = Above(s, s.extra + 1) /\ Level \in Strength
  BY <1>1, <1>2, <1>3, AtPrecedence, GrammarFacts
<1>5. PICK n : Succeeds(ds, n) /\ Rewritten(Current, n) /\ Written(n, v, Above(s, e))
  <2>1. c = Emit(Current, << <<"GET_LOCAL", 0>> >>) /\ ds = Named(With(c), "super")
    OBVIOUS
  <2> HIDE DEF c, ds, e
  <2>2. QED
    BY <2>1, <1>1, <1>2, <1>4, ReadSuper
<1>6. PICK v2 : Fitted(n.code, n.arity, v2, Above(s, e)) /\ Extends(v, v2)
  BY <1>5 DEF Written
<1> HIDE DEF c, ds, e, m
<1>7. m \in State /\ Above(s, e) \in State /\ Stays(s, Above(s, e))
  BY <1>4, AboveFacts
<1>8. PICK items, x : /\ Leading(items, Above(s, e), m, v2)
                      /\ x = <<"infix", Level, Depth>> /\ Continue(ds, Append(items, x))
  <2>1. /\ Leading(<<ThenConstant("GET_SUPER", Text(name), <<>>)>>, Above(s, e), m, v2)
        /\ \A k \in Nat : \A d :
              Leading(Arguments(k, d) \o
                        <<RightParen, ThenConstant("SUPER_INVOKE", Text(name), <<k>>)>>,
                      Above(s, e), m, v2)
    BY <1>4, <1>7, LeadSuper
  <2>2. CASE Prefix(ds, <<ThenConstant("GET_SUPER", Text(name), <<>>)>>)
    BY <2>1, <2>2 DEF Prefix
  <2>3. CASE \E k \in 0 .. grammar.arity :
             Prefix(ds, Arguments(k, Depth) \o
                          <<RightParen, ThenConstant("SUPER_INVOKE", Text(name), <<k>>)>>)
    <3>1. PICK k \in 0 .. grammar.arity :
             Prefix(ds, Arguments(k, Depth) \o
                          <<RightParen, ThenConstant("SUPER_INVOKE", Text(name), <<k>>)>>)
      BY <2>3
    <3>2. k \in Nat
      BY <1>4
    <3> DEFINE its == Arguments(k, Depth) \o
                        <<RightParen, ThenConstant("SUPER_INVOKE", Text(name), <<k>>)>>
    <3>3. Leading(its, Above(s, e), m, v2)
      BY <3>2, <2>1
    <3>4. Continue(ds, Append(its, <<"infix", Level, Depth>>))
      BY <3>1 DEF Prefix
    <3> HIDE DEF its
    <3>5. QED
      BY <3>3, <3>4
  <2>4. QED
    BY <1>3, <2>2, <2>3
<1>9. Leading(Append(items, x), Above(s, e), t, v2)
  <2>1. Leading(items, Above(s, e), Above(s, s.extra + 1), v2)
    BY <1>4, <1>8
  <2>2. QED
    BY <2>1, <1>4, <1>8, PrefixLeads
<1>10. QED
  BY <1>2, <1>5, <1>6, <1>7, <1>8, <1>9, WroteMore

-----------------------------------------------------------------------------
(* What is emitted once a part has been read.                              *)

LEMMA WroteAbove ==
  ASSUME NEW w, NEW s, NEW t, Standing(w, s, t),
         NEW cs, NEW c, Succeeds(cs, c), Rewritten(Current, c), Continue(cs, <<>>),
         NEW e \in Nat, Written(c, w[Len(chunks)], Above(s, e)), Becomes(s, t, e, s.open)
  PROVE  Compiles'
<1>1. s \in State /\ Full(s)
  BY StandingFacts
<1>2. PICK v : Fitted(c.code, c.arity, v, Above(s, e)) /\ Extends(w[Len(chunks)], v)
  BY DEF Written
<1> DEFINE u == Above(s, e)
<1>3. u = Above(s, e)
  OBVIOUS
<1> HIDE DEF u
<1>4. u \in State /\ Stays(s, u) /\ Weaker(u, t)
  BY <1>1, <1>3, AboveIs DEF Weaker
<1>5. QED
  BY <1>2, <1>3, <1>4, WroteAllMore

LEMMA EmittableWritten ==
  ASSUME NEW c \in ChunkSet, NEW v, NEW s \in State, Full(s), Fitted(c.code, c.arity, v, s),
         NEW b \in ChunkSet, Recoded(b, c), s.reads \subseteq 0 .. Len(b.upvalues) - 1,
         NEW i, Emittable(i, s), NEW e \in Nat, e = s.extra + Net(i),
         NEW n, n = Emit(c, <<i>>)
  PROVE  n \in ChunkSet /\ Recoded(b, n) /\ Written(n, v, Above(s, e))
<1>1. PICK v2 : Fitted(c.code \o <<i>>, c.arity, v2, Above(s, e)) /\ Extends(v, v2)
  <2>1. /\ i \in Instruction /\ ~ Jumps(i) /\ Takes(i) < HeightOf(s)
        /\ Slotted(i) => i[2] < HeightOf(s)
    BY DEF Emittable
  <2>2. QED
    BY <2>1, WriteOne DEF Above
<1> DEFINE more == <<i>>
           u == Above(s, e)
<1>2. n = Emit(c, more) /\ Fitted(c.code \o more, c.arity, v2, u)
  BY <1>1
<1>5. Mild(more, Len(b.upvalues))
  <2>1. i \in Instruction /\ Harmless(i, Len(b.upvalues))
    BY DEF Emittable, Harmless
  <2>2. QED
    BY <2>1 DEF Mild
<1> HIDE DEF more, u
<1>3. LET m == Emit(c, more)
      IN  /\ m \in ChunkSet /\ Recoded(b, m) /\ m.arity = c.arity
          /\ m.code = c.code \o more
          /\ Fitted(m.code, m.arity, v2, u)
  BY <1>2, <1>5, EmittedMore, Zenon
<1>4. QED
  BY <1>1, <1>2, <1>3 DEF Written, u

LEMMA EmitCompiles ==
  ASSUME Compiles, Doing("emit"), Continue(With(Emit(Current, Arg(1))), <<>>)
  PROVE  Compiles'
<1>1. Head(todo)[1] = "emit"
  BY DEF Doing
<1>2. PICK w, s, t : Standing(w, s, t)
  BY <1>1, HeadStands
<1> DEFINE v == w[Len(chunks)]
           code == Arg(1)
           c == Emit(Current, code)
<1>3. /\ s \in State /\ t \in State /\ Full(s) /\ Current \in ChunkSet
      /\ Fitted(Current.code, Current.arity, v, s)
      /\ \A b : Recoded(Current, b) => Succeeds(With(b), b) /\ Rewritten(Current, b)
      /\ Rule(Head(todo), s, t, v)
      /\ s.reads \subseteq 0 .. Len(Current.upvalues) - 1
  BY <1>2, StandingFacts, RecodingFacts, RecodedRewrites DEF Meets
<1>4. Emits(code, s, t)
  BY <1>1, <1>3, RuleOf DEF Arg
<1>5. c = Emit(Current, code) /\ Continue(With(c), <<>>) /\ Recoded(Current, Current)
  BY <1>2, RecodingFacts
<1>9. v = w[Len(chunks)]
  OBVIOUS
<1> HIDE DEF code, c, v
<1>6. CASE \E i : code = <<i>> /\ Emittable(i, s) /\ Becomes(s, t, s.extra + Net(i), s.open)
  <2>1. PICK i : code = <<i>> /\ Emittable(i, s) /\ Becomes(s, t, s.extra + Net(i), s.open)
    BY <1>6
  <2> DEFINE e == s.extra + Net(i)
  <2>2. e \in Nat /\ e = s.extra + Net(i)
    BY <1>3, <2>1 DEF Becomes, State
  <2> HIDE DEF e
  <2>3. c = Emit(Current, <<i>>)
    BY <1>5, <2>1
  <2>4. c \in ChunkSet /\ Recoded(Current, c) /\ Written(c, v, Above(s, e))
    BY <1>3, <1>5, <2>1, <2>2, <2>3, EmittableWritten
  <2>5. Succeeds(With(c), c) /\ Rewritten(Current, c) /\ Becomes(s, t, e, s.open)
    BY <1>3, <2>1, <2>2, <2>4
  <2>6. QED
    BY <1>2, <1>5, <1>9, <2>2, <2>4, <2>5, WroteAbove
<1>7. CASE code = PrintPop /\ s.extra >= 1 /\ Becomes(s, t, s.extra - 1, s.open)
  <2> DEFINE i == <<"PRINT">>
             j == <<"POP">>
             m == s.extra
             e == s.extra - 1
  <2>1. /\ Shape(i, 1, 0) /\ Shape(j, 1, -1)
    <3>1. i[1] = "PRINT" /\ Len(i) = 1
      OBVIOUS
    <3>2. i \in Instruction
      BY <3>1 DEF Instruction, Bare
    <3> HIDE DEF i
    <3>3. Shape(i, 1, 0)
      BY <3>1, <3>2 DEF Shape, Special, Reads, Jumps, Slotted, Takes, Net, Leaves
    <3>4. QED
      BY <3>3, Shapes
  <2>2. /\ m \in Nat /\ m = s.extra + 0 /\ e \in Nat /\ e = m + -1 /\ 1 <= s.extra /\ 1 <= m
        /\ 1 \in Nat /\ 0 \in Int /\ -1 \in Int
    BY <1>3, <1>7 DEF State
  <2>3. Becomes(s, t, e, s.open)
    BY <1>7
  <2>4. code = <<i, j>>
    BY <1>7 DEF PrintPop
  <2> HIDE DEF i, j, m, e
  <2>5. PICK v2 : Fitted(Current.code \o <<i, j>>, Current.arity, v2, Above(s, e)) /\ Extends(v, v2)
    BY <1>3, <2>1, <2>2, WriteTwo
  <2>6. Succeeds(With(c), c) /\ Rewritten(Current, c) /\ Fitted(c.code, c.arity, v2, Above(s, e))
    <3>1. Fitted(Current.code \o code, Current.arity, v2, Above(s, e))
      BY <2>4, <2>5
    <3>2. Mild(code, Len(Current.upvalues))
      <4>1. /\ i \in Instruction /\ i[1] \notin Special
            /\ j \in Instruction /\ j[1] \notin Special
        BY <2>1 DEF Shape
      <4>2. Mild(<<i, j>>, Len(Current.upvalues))
        BY <4>1, MildTwo
      <4>3. QED
        BY <4>2, <2>4
    <3>3. QED
      BY <3>1, <3>2, <1>2, <1>5, Emitted, RecodedRewrites
  <2>7. Written(c, v, Above(s, e))
    BY <2>5, <2>6 DEF Written
  <2>8. QED
    BY <1>2, <1>5, <1>9, <2>2, <2>3, <2>6, <2>7, WroteAbove
<1>8. QED
  BY <1>4, <1>6, <1>7 DEF Emits

LEMMA ConstantCompiles ==
  ASSUME Compiles, Doing("constant"),
         Continue(With(EmitConstant(Current, Arg(1), Arg(2), Arg(3))), <<>>)
  PROVE  Compiles'
<1>1. Head(todo)[1] = "constant"
  BY DEF Doing
<1>2. PICK w, s, t : Standing(w, s, t)
  BY <1>1, HeadStands
<1> DEFINE v == w[Len(chunks)]
           op == Arg(1)
           value == Arg(2)
           operands == Arg(3)
           a == AddConstant(Current, value)
           k == ConstantIndex(Current.constants, value)
           i == <<op, k>> \o operands
           c == Emit(a, <<i>>)
           e == s.extra + Net(i)
<1>3. /\ s \in State /\ t \in State /\ Full(s) /\ Current \in ChunkSet
      /\ Fitted(Current.code, Current.arity, v, s)
      /\ \A b : Recoded(Current, b) => Succeeds(With(b), b) /\ Rewritten(Current, b)
      /\ Rule(Head(todo), s, t, v)
      /\ s.reads \subseteq 0 .. Len(Current.upvalues) - 1
  BY <1>2, StandingFacts, RecodingFacts, RecodedRewrites DEF Meets
<1>4. EmitsConstant(op, value, operands, s, t)
  BY <1>1, <1>3, RuleOf DEF Arg
<1>5. Continue(With(c), <<>>) /\ v = w[Len(chunks)]
  BY DEF EmitConstant
<1> HIDE DEF op, value, operands, v
<1>6. /\ a \in ChunkSet /\ Recoded(Current, a) /\ a.code = Current.code /\ k \in Nat
  BY <1>3, <1>4, ConstantFacts DEF EmitsConstant
<1>7. Emittable(i, s) /\ Becomes(s, t, s.extra + Net(i), s.open)
  BY <1>4, <1>6 DEF EmitsConstant
<1>8. c = Emit(a, <<i>>) /\ e = s.extra + Net(i)
  OBVIOUS
<1> HIDE DEF a, i, c, e, k
<1>9. e \in Nat /\ Becomes(s, t, e, s.open)
  BY <1>3, <1>7, <1>8 DEF Becomes, State
<1>10. Fitted(a.code, a.arity, v, s)
  BY <1>3, <1>6 DEF Recoded, Rewritten
<1>11. c \in ChunkSet /\ Recoded(Current, c) /\ Written(c, v, Above(s, e))
  BY <1>3, <1>6, <1>7, <1>8, <1>9, <1>10, EmittableWritten
<1>12. QED
  BY <1>2, <1>3, <1>5, <1>9, <1>11, WroteAbove

LEMMA ReadCompiles ==
  ASSUME Compiles, Doing("read"), ~ Unresolvable(chunks, Arg(1)),
         Continue(Named(chunks, Arg(1)), <<>>)
  PROVE  Compiles'
<1>1. Head(todo)[1] = "read"
  BY DEF Doing
<1>2. PICK w, s, t : Standing(w, s, t)
  BY <1>1, HeadStands
<1> DEFINE v == w[Len(chunks)]
           name == Arg(1)
           ds == Named(chunks, name)
           e == s.extra + 1
<1>3. Rule(Head(todo), s, t, v) /\ s \in State
  BY <1>2, StandingFacts
<1>4. name \in Names /\ Pushes(s, t)
  BY <1>1, <1>3, RuleOf DEF Arg
<1>5. Continue(ds, <<>>) /\ ~ Unresolvable(chunks, name)
  OBVIOUS
<1>6. ds = Named(chunks, name) /\ e \in Nat /\ e = s.extra + 1 /\ v = w[Len(chunks)]
  BY <1>3 DEF State
<1>7. Becomes(s, t, e, s.open)
  BY <1>4 DEF Pushes
<1> HIDE DEF ds, name, e, v
<1>8. PICK n : Succeeds(ds, n) /\ Rewritten(Current, n) /\ Written(n, v, Above(s, e))
  BY <1>2, <1>4, <1>5, <1>6, ReadHere
<1>9. QED
  BY <1>2, <1>5, <1>6, <1>7, <1>8, WroteAbove

LEMMA PatchCompiles ==
  ASSUME Compiles, Doing("patch"), Continue(With(PatchJump(Current, Arg(1))), <<>>)
  PROVE  Compiles'
<1>1. Head(todo)[1] = "patch"
  BY DEF Doing
<1>2. PICK w, s, t : Standing(w, s, t)
  BY <1>1, HeadStands
<1> DEFINE v == w[Len(chunks)]
           at == Arg(1)
           c == PatchJump(Current, at)
           u == Now(s, s.extra, s.guard, s.open \ {at})
<1>3. /\ s \in State /\ t \in State /\ Full(s) /\ Current \in ChunkSet
      /\ Fitted(Current.code, Current.arity, v, s)
      /\ \A b : Recoded(Current, b) => Succeeds(With(b), b)
      /\ Rule(Head(todo), s, t, v) /\ Recoded(Current, Current)
      /\ s.extra \in Nat /\ s.guard \in Nat /\ s.open \in SUBSET (Nat \ {0})
  BY <1>2, StandingFacts, RecodingFacts DEF State
<1>4. Patches(at, s, t, v)
  BY <1>1, <1>3, RuleOf DEF Arg
<1>5. Continue(With(c), <<>>) /\ c = PatchJump(Current, at) /\ v = w[Len(chunks)]
      /\ u = Now(s, s.extra, s.guard, s.open \ {at})
  OBVIOUS
<1> HIDE DEF v, at, c, u
<1>6. PICK v2 : Fitted(PatchedAt(Current.code, at), Current.arity, v2, u) /\ Extends(v, v2)
  <2>1. JumpsFrom(at, HeightOf(s), s.guard, s, v)
    BY <1>4 DEF Patches
  <2>2. QED
    BY <2>1, <1>3, <1>5, WritePatch
<1>7. c \in ChunkSet /\ Recoded(Current, c) /\ Fitted(c.code, c.arity, v2, u)
  <2>3. at \in Unpatched(Current.code)
    BY <1>3, <1>4, WaitsToBePatched DEF Patches
  <2>1. LET n == PatchJump(Current, at)
        IN  /\ n \in ChunkSet /\ Recoded(Current, n) /\ n.arity = Current.arity
            /\ n.code = PatchedAt(Current.code, at)
            /\ Fitted(n.code, n.arity, v2, u)
    BY <1>3, <1>6, <2>3, PatchedMore, Zenon
  <2>2. QED
    BY <2>1, <1>5
<1>8. u \in State /\ Stays(s, u) /\ u.extra = s.extra /\ u.open = s.open \ {at}
      /\ u.guard = s.guard
  <2> DEFINE open == s.open \ {at}
             extra == s.extra
             guard == s.guard
  <2>1. open \in SUBSET (Nat \ {0}) /\ u = Now(s, extra, guard, open)
        /\ extra \in Nat /\ guard \in Nat
    BY <1>3, <1>5
  <2> HIDE DEF open, extra, guard
  <2>2. u \in State /\ Stays(s, u) /\ u.extra = extra /\ u.open = open /\ u.guard = guard
    BY <2>1, <1>3, NowIs
  <2>3. QED
    BY <2>2 DEF open, extra, guard
<1>9. Weaker(u, t)
  BY <1>4, <1>8 DEF Patches, Weaker, Becomes, Keeps, Context, Stays
<1>10. Succeeds(With(c), c)
  BY <1>3, <1>7
<1>11. QED
  BY <1>2, <1>5, <1>6, <1>7, <1>8, <1>9, <1>10, WroteAll

(* The value of a variable is on top: of a global it goes, of a local it   *)
(* stays.                                                                  *)
LEMMA DefineFacts ==
  ASSUME NEW c, NEW v, NEW s \in State, Full(s), Meets(c, v, s),
         NEW d, AtDepth(d, s), NEW name \in Names, s.guard = 0, s.extra = 1,
         s.missing = (IF d = 0 THEN 0 ELSE 1),
         NEW t \in State, Context(s, t), t.levels = s.levels, Initial(t.locals, s.locals),
         Calm(t, 0), t.open = s.open, NEW n, n = Define(c, name, d)
  PROVE  /\ \E v2 : Meets(n, v2, t) /\ Extends(v, v2)
         /\ n.upvalues = c.upvalues /\ Adds(c, n)
<1>1. /\ c \in ChunkSet /\ GoodScope(c.scope) /\ Len(c.scope) = s.levels
      /\ Recoded(c, c)
  BY RecodedSelf DEF Meets, GoodChunk
<1>2. /\ d \in Nat /\ s.levels = d + 1 /\ t.missing = 0 /\ t.extra = 0 /\ t.guard = 0
  BY DEF AtDepth, Calm
<1>3. CASE d = 0
  <2> DEFINE op == "DEFINE_GLOBAL"
             operands == <<>>
             e == 0
             u == Above(s, e)
             value == Text(name)
  <2>1. Fitted(c.code, c.arity, v, s)
    <3>1. /\ s.levels \in 1 .. s.levels /\ Len(s.locals) = s.levels /\ s.levels \in Nat \ {0}
      BY FullFacts
    <3>2. s.locals[s.levels] = Size(c.scope, s.levels)
      BY <3>1 DEF Meets
    <3>3. HeightOf(s) = 1 + Size(c.scope, s.levels) - s.missing + s.extra
      <4>1. s.locals[s.levels] \in Nat /\ s.missing \in {0, 1} /\ s.extra \in Nat
        BY FullFacts
      <4>2. QED
        BY <3>2, <4>1 DEF HeightOf, Base
    <3>4. QED
      BY <3>3 DEF Meets, Fitted
  <2>2. /\ ConstantShape(op, operands, 1, -1) /\ 1 \in Nat /\ -1 \in Int /\ 1 <= s.extra
        /\ e \in Nat /\ e = s.extra + -1 /\ value \in Constant
    BY ConstantShapes DEF Constant, Text
  <2>3. n = EmitConstant(c, op, value, operands) /\ u = Above(s, e) /\ e = 0
    BY <1>3 DEF Define
  <2> HIDE DEF op, operands, e, u, value
  <2>4. /\ n \in ChunkSet /\ Recoded(c, n) /\ Written(n, v, u)
    BY <1>1, <2>1, <2>2, <2>3, ConstantWritten
  <2>5. PICK v2 : Fitted(n.code, n.arity, v2, u) /\ Extends(v, v2)
    BY <2>4 DEF Written
  <2>6. u \in State /\ Stays(s, u) /\ u.extra = 0 /\ u.guard = s.guard /\ u.open = s.open
    BY <2>2, <2>3, AboveShape
  <2>7. Meets(n, v2, u)
    BY <2>4, <2>5, <2>6, MeetsRecoded
  <2>8. Weaker(u, t)
    BY <1>2, <1>3, <2>6 DEF Weaker, Becomes, Keeps, Context, Stays
  <2>10. n.upvalues = c.upvalues /\ Adds(c, n)
    BY <2>4 DEF Recoded, Rewritten
  <2>9. QED
    BY <2>5, <2>6, <2>7, <2>8, <2>10, MeetsWeaker
<1>4. CASE d # 0
  <2> DEFINE new == Initialize(c.scope, name, d)
  <2>1. /\ GoodScope(new) /\ Len(new) = Len(c.scope)
        /\ \A l \in 0 .. Len(c.scope) : Size(new, l) = Size(c.scope, l)
    BY <1>1, <1>2, InitializedScope
  <2>2. n = Rescoped(c, new)
    BY <1>1, <1>4 DEF Define, Rescoped, ChunkSet
  <2> HIDE DEF new
  <2>3. /\ n \in ChunkSet /\ n.scope = new /\ n.code = c.code /\ n.arity = c.arity
        /\ n.hasSuperclass = c.hasSuperclass /\ n.upvalues = c.upvalues /\ Adds(c, n)
    BY <1>1, <2>1, <2>2, RescopedFacts DEF GoodScope
  <2>4. /\ t.locals \in Seq(Nat) /\ s.locals \in Seq(Nat) /\ Len(t.locals) <= Len(s.locals)
        /\ Len(s.locals) <= s.levels /\ Len(t.locals) \in Nat /\ Len(s.locals) \in Nat
        /\ \A l \in 1 .. Len(t.locals) : t.locals[l] = s.locals[l]
        /\ \A l \in 1 .. Len(s.locals) : s.locals[l] = Size(c.scope, l)
    BY DEF State, Initial, Meets
  <2>5. \A l \in 1 .. Len(t.locals) : t.locals[l] = Size(n.scope, l)
    <3>1. TAKE l \in 1 .. Len(t.locals)
    <3>2. l \in 1 .. Len(s.locals) /\ l \in 0 .. Len(c.scope)
      BY <1>1, <1>2, <2>4
    <3>3. QED
      BY <3>2, <2>1, <2>3, <2>4
  <2>6. Size(n.scope, t.levels) = Size(c.scope, s.levels) /\ Size(c.scope, s.levels) \in Nat
    <3>1. s.levels \in 0 .. Len(c.scope) /\ c.scope \in Levels
      BY <1>1, <1>2 DEF GoodScope
    <3>2. QED
      BY <3>1, <2>1, <2>3, SizeFacts
  <2>7. Placed(n.code, n.arity, v, 1 + Size(n.scope, t.levels) - t.missing + t.extra,
               t.guard, t.open, t.loops)
    <3>1. Placed(c.code, c.arity, v, 1 + Size(c.scope, s.levels) - s.missing + s.extra,
                 s.guard, s.open, s.loops)
      BY DEF Meets
    <3> DEFINE height == 1 + Size(n.scope, t.levels) - t.missing + t.extra
    <3>2. height = 1 + Size(c.scope, s.levels) - s.missing + s.extra
      BY <1>2, <1>4, <2>6
    <3> HIDE DEF height
    <3>3. Placed(c.code, c.arity, v, height, s.guard, s.open, s.loops)
      BY <3>1, <3>2
    <3>4. Placed(n.code, n.arity, v, height, t.guard, t.open, t.loops)
      BY <3>3, <1>2, <2>3 DEF Placed, Context
    <3>5. QED
      BY <3>4 DEF height
  <2>8. Meets(n, v, t)
    <3>1. GoodChunk(n) /\ Len(n.scope) = t.levels /\ Len(t.locals) <= t.levels
      BY <1>1, <2>1, <2>3, <2>4 DEF GoodChunk
    <3>2. (t.super => n.hasSuperclass) /\ t.reads \subseteq 0 .. Len(n.upvalues) - 1
      BY <2>3 DEF Meets, Context
    <3>3. QED
      BY <3>1, <3>2, <1>2, <2>5, <2>7 DEF Meets
  <2>9. QED
    BY <2>3, <2>8 DEF Extends
<1>5. QED
  BY <1>3, <1>4

LEMMA DefineCompiles ==
  ASSUME Compiles, Doing("define"), Continue(With(Define(Current, Arg(1), Arg(2))), <<>>)
  PROVE  Compiles'
<1>1. Head(todo)[1] = "define"
  BY DEF Doing
<1>2. PICK w, s, t : Standing(w, s, t)
  BY <1>1, HeadStands
<1> DEFINE v == w[Len(chunks)]
           name == Arg(1)
           d == Arg(2)
           c == Define(Current, name, d)
<1>3. /\ s \in State /\ t \in State /\ Full(s) /\ Meets(Current, v, s)
      /\ \A b \in ChunkSet : b.upvalues = Current.upvalues => Succeeds(With(b), b)
      /\ Rule(Head(todo), s, t, v)
  BY <1>2, StandingFacts
<1>4. Defines(name, d, s, t)
  BY <1>1, <1>3, RuleOf DEF Arg
<1>5. Continue(With(c), <<>>) /\ c = Define(Current, name, d) /\ v = w[Len(chunks)]
  OBVIOUS
<1> HIDE DEF v, name, d, c
<1>6. /\ \E v2 : Meets(c, v2, t) /\ Extends(v, v2)
      /\ c.upvalues = Current.upvalues /\ Adds(Current, c)
  <2>1. /\ AtDepth(d, s) /\ name \in Names /\ s.guard = 0 /\ s.extra = 1
        /\ s.missing = (IF d = 0 THEN 0 ELSE 1)
        /\ Context(s, t) /\ t.levels = s.levels /\ Initial(t.locals, s.locals) /\ Calm(t, 0)
        /\ t.open = s.open
    BY <1>4 DEF Defines
  <2>2. QED
    BY <2>1, <1>3, <1>5, DefineFacts
<1>10. PICK v2 : Meets(c, v2, t) /\ Extends(v, v2)
  BY <1>6
<1>7. Succeeds(With(c), c)
  BY <1>3, <1>6, <1>10 DEF Meets, GoodChunk
<1>8. Leading(<<>>, t, t, v2) /\ t.chunk = s.chunk
  BY <1>3, <1>4, LeadNone DEF Defines, Context
<1>9. QED
  BY <1>2, <1>5, <1>6, <1>10, <1>7, <1>8, Continued DEF v

LEMMA EmissionCompiles ==
  ASSUME Compiles, Emission, status' = "compiling"
  PROVE  Compiles'
<1>1. \/ Doing("emit") /\ Continue(With(Emit(Current, Arg(1))), <<>>)
      \/ Doing("constant") /\ Continue(With(EmitConstant(Current, Arg(1), Arg(2), Arg(3))), <<>>)
      \/ Doing("define") /\ Continue(With(Define(Current, Arg(1), Arg(2))), <<>>)
      \/ /\ Doing("read") /\ ~ Unresolvable(chunks, Arg(1))
         /\ Continue(Named(chunks, Arg(1)), <<>>)
      \/ Doing("patch") /\ Continue(With(PatchJump(Current, Arg(1))), <<>>)
  BY DEF Emission, Fail
<1>2. QED
  BY <1>1, EmitCompiles, ConstantCompiles, DefineCompiles, ReadCompiles, PatchCompiles

-----------------------------------------------------------------------------
(* Declarations.  From the declaration of a name to its definition the     *)
(* function awaits its value.                                              *)
Awaits(d, s, u) ==
  /\ u \in State /\ Full(u) /\ u.levels = s.levels /\ u.chunk = s.chunk
  /\ u.open = s.open /\ u.loops = s.loops /\ u.super = s.super /\ u.reads = s.reads
  /\ u.guard = 0 /\ u.extra = 0 /\ u.missing = (IF d = 0 THEN 0 ELSE 1)
  /\ \A l \in 1 .. d : u.locals[l] = s.locals[l]

LEMMA DeclaredFacts ==
  ASSUME NEW c, NEW v, NEW s \in State, Full(s), Meets(c, v, s),
         NEW d, AtDepth(d, s), Calm(s, 0), NEW name \in Names, name # "super",
         NEW n, n = Declared(c, name, d)
  PROVE  /\ \E u : Awaits(d, s, u) /\ Meets(n, v, u)
         /\ n.upvalues = c.upvalues /\ Adds(c, n)
<1>1. /\ c \in ChunkSet /\ GoodScope(c.scope) /\ Len(c.scope) = d + 1
      /\ d \in Nat /\ s.levels = d + 1 /\ s.missing = 0 /\ s.extra = 0 /\ s.guard = 0
      /\ s.locals \in Seq(Nat) /\ Len(s.locals) = d + 1 /\ s.locals[d + 1] \in Nat
      /\ \A l \in 1 .. d + 1 : s.locals[l] = Size(c.scope, l)
  BY FullFacts DEF Meets, GoodChunk, AtDepth, Calm
<1>2. CASE d = 0
  <2>1. n = c
    BY <1>2 DEF Declared
  <2>2. Awaits(d, s, s)
    BY <1>1, <1>2 DEF Awaits
  <2>3. QED
    BY <2>1, <2>2, <1>1, AddsSelf
<1>3. CASE d # 0
  <2> DEFINE new == Declare(c.scope, name, d)
             m == Len(s.locals)
             L == [s.locals EXCEPT ![d + 1] = s.locals[d + 1] + 1]
             u == [s EXCEPT !.missing = 1, !.locals = L]
  <2>1. /\ GoodScope(new) /\ Len(new) = d + 1 /\ LastIsMissing(new)
        /\ \A l \in 0 .. d : Size(new, l) = Size(c.scope, l)
        /\ Size(new, d + 1) = Size(c.scope, d + 1) + 1
    BY <1>1, DeclaredScope
  <2>2. n = Rescoped(c, new)
    BY <1>1, <1>3 DEF Declared, Rescoped, ChunkSet
  <2> HIDE DEF new
  <2>3. /\ n \in ChunkSet /\ n.scope = new /\ n.code = c.code /\ n.arity = c.arity
        /\ n.hasSuperclass = c.hasSuperclass /\ n.upvalues = c.upvalues /\ Adds(c, n)
    BY <1>1, <2>1, <2>2, RescopedFacts DEF GoodScope
  <2>4. /\ L \in Seq(Nat) /\ Len(L) = d + 1 /\ L[d + 1] = s.locals[d + 1] + 1
        /\ \A l \in 1 .. d : L[l] = s.locals[l]
    <3>1. d + 1 \in 1 .. Len(s.locals) /\ s.locals[d + 1] + 1 \in Nat
      BY <1>1
    <3>2. /\ L \in Seq(Nat) /\ Len(L) = Len(s.locals)
          /\ \A l \in 1 .. Len(s.locals) :
               L[l] = IF l = d + 1 THEN s.locals[d + 1] + 1 ELSE s.locals[l]
      BY <1>1, <3>1, ExceptSeq
    <3>3. /\ d \in Nat /\ Len(s.locals) = d + 1
          /\ \A l \in 1 .. d : l \in 1 .. d + 1 /\ l # d + 1
      BY <1>1
    <3> HIDE DEF L
    <3>4. QED
      BY <3>1, <3>2, <3>3
  <2> HIDE DEF L
  <2>5. /\ u \in State /\ u.levels = s.levels /\ u.locals = L /\ u.missing = 1
        /\ u.chunk = s.chunk /\ u.extra = s.extra /\ u.guard = s.guard /\ u.open = s.open
        /\ u.loops = s.loops /\ u.super = s.super /\ u.reads = s.reads
    BY <2>4 DEF State
  <2> HIDE DEF u
  <2>6. Full(u)
    BY <1>1, <2>4, <2>5 DEF Full
  <2>7. Awaits(d, s, u)
    BY <1>1, <1>3, <2>4, <2>5, <2>6 DEF Awaits
  <2>8. Meets(n, v, u)
    <3>1. \A l \in 1 .. Len(u.locals) : u.locals[l] = Size(n.scope, l)
      <4>1. TAKE l \in 1 .. Len(u.locals)
      <4>2. l \in 1 .. d + 1
        BY <2>4, <2>5
      <4>3. CASE l = d + 1
        BY <4>2, <4>3, <1>1, <2>1, <2>3, <2>4, <2>5
      <4>4. CASE l # d + 1
        <5>1. l \in 1 .. d /\ l \in 0 .. d
          BY <4>2, <4>4, <1>1
        <5>2. QED
          BY <5>1, <4>2, <1>1, <2>1, <2>3, <2>4, <2>5
      <4>5. QED
        BY <4>3, <4>4
    <3>2. Size(c.scope, d + 1) \in Nat
      <4>1. d + 1 \in 0 .. Len(c.scope) /\ c.scope \in Levels
        BY <1>1 DEF GoodScope
      <4>2. QED
        BY <4>1, SizeFacts
    <3>3. Placed(n.code, n.arity, v, 1 + Size(n.scope, u.levels) - u.missing + u.extra,
                 u.guard, u.open, u.loops)
      <4>1. Placed(c.code, c.arity, v, 1 + Size(c.scope, s.levels) - s.missing + s.extra,
                   s.guard, s.open, s.loops)
        BY DEF Meets
      <4>2. 1 + Size(n.scope, u.levels) - u.missing + u.extra
              = 1 + Size(c.scope, s.levels) - s.missing + s.extra
        BY <1>1, <2>1, <2>3, <2>5, <3>2
      <4>3. QED
        BY <4>1, <4>2, <2>3, <2>5
    <3>4. GoodChunk(n) /\ Len(n.scope) = u.levels /\ Len(u.locals) <= u.levels
      BY <1>1, <2>1, <2>3, <2>4, <2>5 DEF GoodChunk
    <3>5. /\ (u.super => n.hasSuperclass) /\ LastIsMissing(n.scope)
          /\ u.reads \subseteq 0 .. Len(n.upvalues) - 1
      BY <2>1, <2>3, <2>5 DEF Meets
    <3>6. QED
      BY <3>1, <3>3, <3>4, <3>5 DEF Meets
  <2>9. QED
    BY <2>3, <2>7, <2>8
<1>4. QED
  BY <1>2, <1>3

LEMMA LeadDefine ==
  ASSUME NEW s \in State, NEW d, AtDepth(d, s), Calm(s, 0), NEW u, Awaits(d, s, u),
         NEW t \in State, Becomes(s, t, 0, s.open), Len(t.locals) < s.levels,
         NEW name \in Names, NEW v
  PROVE  Leading(<<ThenDefine(name, d)>>, Above(u, 1), t, v)
<1> DEFINE m == Above(u, 1)
           x == ThenDefine(name, d)
           one == 1
<1>1. u \in State /\ Full(u) /\ one \in Nat /\ m = Above(u, one)
  BY DEF Awaits
<1> HIDE DEF m, one
<1>2. /\ m \in State /\ Stays(u, m) /\ m.extra = one /\ m.guard = u.guard /\ m.open = u.open
  BY <1>1, AboveShape, SMTT(30)
<1>3. /\ d \in Nat /\ s.levels = d + 1 /\ s.missing = 0 /\ s.guard = 0 /\ Len(t.locals) <= d
      /\ s.locals \in Seq(Nat) /\ t.locals \in Seq(Nat) /\ u.locals \in Seq(Nat)
      /\ Len(t.locals) \in Nat
  <2>1. d \in Nat /\ s.levels = d + 1 /\ s.missing = 0 /\ s.guard = 0
    BY DEF AtDepth, Calm
  <2>2. s.locals \in Seq(Nat) /\ t.locals \in Seq(Nat) /\ u.locals \in Seq(Nat)
    BY <1>1 DEF State
  <2>3. Len(t.locals) \in Nat
    BY <2>2
  <2>4. QED
    BY <2>1, <2>2, <2>3
<1>4. Initial(t.locals, u.locals)
  <2>1. Initial(t.locals, s.locals)
    BY DEF Becomes, Keeps
  <2>2. Len(u.locals) = d + 1
    BY <1>3 DEF Awaits, Full
  <2>3. \A l \in 1 .. Len(t.locals) : l \in 1 .. d
    BY <1>3
  <2>4. ASSUME NEW l \in 1 .. Len(t.locals)
        PROVE  t.locals[l] = u.locals[l]
    BY <2>1, <2>3 DEF Awaits, Initial
  <2>5. Len(t.locals) <= Len(u.locals)
    BY <2>2, <1>3
  <2>6. QED
    BY <2>4, <2>5 DEF Initial
<1>5. AtDepth(d, m) /\ m.guard = 0 /\ m.extra = 1 /\ m.missing = (IF d = 0 THEN 0 ELSE 1)
  BY <1>2, <1>3 DEF AtDepth, Awaits, Stays, one
<1>6. Context(m, t) /\ t.levels = m.levels /\ Calm(t, 0) /\ t.open = m.open
  BY <1>2, <1>3 DEF Context, Becomes, Keeps, Awaits, Stays, Calm
<1>7. Defines(name, d, m, t)
  BY <1>2, <1>4, <1>5, <1>6 DEF Defines, Stays
<1>8. x[1] = "define" /\ x[2] = name /\ x[3] = d
  BY DEF ThenDefine
<1> HIDE DEF x
<1>9. Rule(x, m, t, v)
  BY <1>7, <1>8, RuleOf
<1>10. QED
  BY <1>2, <1>8, <1>9, Entries DEF x, m, one

LEMMA VariableDeclarationCompiles ==
  ASSUME Compiles, VariableDeclaration, grammar \in Grammars, status' = "compiling"
  PROVE  Compiles'
<1>1. Head(todo)[1] \in {"declaration", "variable"}
  BY DEF VariableDeclaration, Doing
<1>2. PICK w, s, t : Standing(w, s, t)
  BY <1>1, HeadStands
<1> DEFINE v == w[Len(chunks)]
           d == Arg(1)
<1>3. PICK name \in Name :
        \/ Continue(With(Declared(Current, name, d)), <<Expression(d), ThenDefine(name, d)>>)
        \/ Continue(With(Emit(Declared(Current, name, d), << <<"NIL">> >>)),
                    <<ThenDefine(name, d)>>)
  BY DEF VariableDeclaration, Fail
<1> DEFINE c == Declared(Current, name, d)
           x == ThenDefine(name, d)
           y == Expression(d)
           more == << <<"NIL">> >>
           n == Emit(c, more)
<1>4. /\ s \in State /\ t \in State /\ Full(s) /\ AtDepth(d, s) /\ Calm(s, 0)
      /\ Becomes(s, t, 0, s.open) /\ Len(t.locals) < s.levels
      /\ Meets(Current, v, s) /\ name \in Names /\ name # "super" /\ Current \in ChunkSet
      /\ \A b \in ChunkSet : b.upvalues = Current.upvalues => Succeeds(With(b), b)
  <2>1. Rule(Head(todo), s, t, v)
    BY <1>2, StandingFacts
  <2>2. Declares(d, s, t)
    BY <1>1, <2>1, RuleOf DEF Arg
  <2>3. QED
    BY <1>2, <1>3, <2>2, StandingFacts, GrammarFacts DEF Declares
<1>5. c = Declared(Current, name, d) /\ v = w[Len(chunks)] /\ x = ThenDefine(name, d)
      /\ y = Expression(d) /\ n = Emit(c, more)
  OBVIOUS
<1>6. \/ Continue(With(c), <<y, x>>)
      \/ Continue(With(n), <<x>>)
  BY <1>3
<1> HIDE DEF c, v, x, y, n, d
<1>15. c.upvalues = Current.upvalues /\ Adds(Current, c)
  BY <1>4, <1>5, DeclaredFacts
<1>7. PICK u : Awaits(d, s, u) /\ Meets(c, v, u)
  BY <1>4, <1>5, DeclaredFacts
<1>8. u \in State /\ Full(u) /\ u.extra = 0 /\ u.chunk = s.chunk /\ c \in ChunkSet
  BY <1>7 DEF Awaits, Meets, GoodChunk
<1> DEFINE one == 1
           m == Above(u, one)
<1>9. ASSUME NEW z PROVE Leading(<<x>>, m, t, z)
  BY <1>4, <1>5, <1>7, LeadDefine
<1>10. one \in Nat /\ one = 0 + 1 /\ m = Above(u, one)
  OBVIOUS
<1> HIDE DEF m, one
<1>11. /\ m \in State /\ Stays(u, m) /\ m.chunk = s.chunk /\ Becomes(u, m, one, u.open)
  BY <1>8, <1>10, AboveShape DEF Stays
<1>12. CASE Continue(With(c), <<y, x>>)
  <2>1. Leading(<<y>>, Above(u, 0), m, v)
    <3>1. 0 \in Nat /\ Becomes(u, m, 0 + 1, u.open)
      BY <1>10, <1>11
    <3>2. QED
      BY <3>1, <1>5, <1>8, LeadExpression
  <2>2. Leading(<<y>>, u, m, v)
    BY <2>1, <1>8, AboveSelf
  <2>3. Leading(<<y, x>>, u, t, v)
    BY <2>2, <1>9, LeadTwo
  <2>4. Succeeds(With(c), c) /\ Extends(v, v)
    BY <1>4, <1>8, <1>15 DEF Extends
  <2>5. QED
    BY <2>3, <2>4, <1>2, <1>7, <1>8, <1>12, <1>15, Continued DEF v
<1>13. CASE Continue(With(n), <<x>>)
  <2>1. Fitted(c.code, c.arity, v, u)
    <3>1. /\ u.levels \in 1 .. u.levels /\ Len(u.locals) = u.levels /\ u.locals[u.levels] \in Nat
          /\ u.missing \in {0, 1} /\ u.extra \in Nat /\ u.levels \in Nat \ {0}
      BY <1>8, FullFacts
    <3>2. u.locals[u.levels] = Size(c.scope, u.levels)
      BY <3>1, <1>7 DEF Meets
    <3>3. HeightOf(u) = 1 + Size(c.scope, u.levels) - u.missing + u.extra
      BY <3>1, <3>2 DEF HeightOf, Base
    <3>4. QED
      BY <3>3, <1>7 DEF Meets, Fitted
  <2>2. PICK v2 : Fitted(c.code \o more, c.arity, v2, m) /\ Extends(v, v2)
    <3>1. Shape(<<"NIL">>, 0, 1) /\ 0 <= u.extra /\ one = u.extra + 1 /\ 0 \in Nat /\ 1 \in Int
      BY <1>8, <1>10, Shapes
    <3>2. QED
      BY <3>1, <2>1, <1>8, <1>10, WriteShape
  <2>7. Mild(more, Len(c.upvalues))
    <3>1. <<"NIL">> \in Instruction /\ <<"NIL">>[1] \notin Special
      BY Shapes DEF Shape
    <3>2. QED
      BY <3>1, MildOne
  <2> HIDE DEF more
  <2>3. n \in ChunkSet /\ Recoded(c, n) /\ Fitted(n.code, n.arity, v2, m)
    <3>1. Recoded(c, c)
      BY <1>8, RecodedSelf
    <3>2. LET k == Emit(c, more)
          IN  /\ k \in ChunkSet /\ Recoded(c, k) /\ k.arity = c.arity
              /\ k.code = c.code \o more
              /\ Fitted(k.code, k.arity, v2, m)
      BY <3>1, <2>2, <2>7, <1>8, EmittedMore, Zenon
    <3>3. QED
      BY <3>2, <1>5
  <2>4. Meets(n, v2, m)
    BY <2>3, <1>7, <1>8, <1>11, MeetsRecoded
  <2>5. Succeeds(With(n), n) /\ Leading(<<x>>, m, t, v2)
    BY <1>4, <1>9, <1>15, <2>3 DEF Recoded
  <2>8. Adds(Current, n)
    BY <2>3, <1>4, <1>8, <1>15, AddsTrans DEF Recoded, Rewritten
  <2>6. QED
    BY <2>2, <2>4, <2>5, <2>8, <1>2, <1>11, <1>13, Continued DEF v
<1>14. QED
  BY <1>6, <1>12, <1>13

-----------------------------------------------------------------------------
(* A new function.                                                         *)

Fresh(k, levels) ==
  [chunk |-> k, levels |-> levels, locals |-> <<>>, missing |-> 0, extra |-> 0,
   guard |-> 0, open |-> {}, loops |-> {}, super |-> FALSE, reads |-> {}]

LEMMA FreshFacts ==
  ASSUME NEW k \in Nat \ {0}, NEW levels \in Nat \ {0}
  PROVE  Fresh(k, levels) \in State
BY DEF Fresh, State

LEMMA FreshMeets ==
  ASSUME NEW c \in ChunkSet, GoodScope(c.scope), c.code = <<>>,
         NEW levels, levels = Len(c.scope), Size(c.scope, levels) = c.arity, NEW k
  PROVE  \E v : Meets(c, v, Fresh(k, levels))
<1> DEFINE a == c.arity + 1
           v == [h |-> <<a>>, r |-> {1}, g |-> <<0>>]
           s == Fresh(k, levels)
<1>1. c.arity \in Nat /\ a \in Nat \ {0} /\ <<>> \in Seq(Instruction) /\ Len(<<>>) = 0
  BY DEF ChunkSet
<1>2. /\ v.h = <<a>> /\ v.r = {1} /\ v.g = <<0>>
      /\ v.h \in Seq(Nat \ {0}) /\ v.g \in Seq(Nat) /\ Len(v.h) = 1 /\ Len(v.g) = 1
      /\ v.h[1] = a /\ v.g[1] = 0
  BY <1>1
<1> HIDE DEF v
<1>3. Layout(<<>>, c.arity, v.h, v.r, v.g)
  <2>1. Sized(<<>>, v.h, v.r, v.g) /\ Starts(c.arity, v.h, v.r, v.g)
    BY <1>1, <1>2 DEF Sized, Starts
  <2>2. HasOperands(<<>>, v.h) /\ SameHeights(<<>>, v.h) /\ Directed(<<>>)
        /\ GuardsKept(<<>>, v.g) /\ LoopsEntered(<<>>, v.r, v.g)
    BY <1>1 DEF HasOperands, SameHeights, Directed, GuardsKept, LoopsEntered
  <2>3. ReachedForward(<<>>, v.r)
    BY <1>1, <1>2 DEF ReachedForward
  <2>4. QED
    BY <1>1, <2>1, <2>2, <2>3 DEF Layout
<1>4. /\ s.levels = levels /\ s.locals = <<>> /\ s.missing = 0 /\ s.extra = 0
      /\ s.guard = 0 /\ s.open = {} /\ s.loops = {} /\ s.super = FALSE /\ s.reads = {}
  BY DEF Fresh
<1> HIDE DEF s
<1>5. Placed(<<>>, c.arity, v, a, 0, {}, {})
  BY <1>1, <1>2, <1>3 DEF Placed, Unpatched
<1>6. 1 + Size(c.scope, s.levels) - s.missing + s.extra = a
  BY <1>1, <1>4
<1>7. Len(c.scope) \in Nat
  BY LevelFacts DEF GoodScope
<1>8. QED
  BY <1>1, <1>4, <1>5, <1>6, <1>7 DEF Meets, GoodChunk, s

LEMMA EmptyScope ==
  /\ GoodScope(NewScope) /\ Len(NewScope) = 1 /\ Size(NewScope, 0) = 0 /\ Size(NewScope, 1) = 0
<1>1. NewScope \in Levels /\ Len(NewScope) = 1 /\ NewScope[1] = <<>> /\ Len(NewScope[1]) = 0
  BY DEF NewScope, Levels
<1>2. GoodScope(NewScope)
  BY <1>1 DEF GoodScope, Numbered, SuperReady
<1> DEFINE one == 1
<1>3. /\ Size(NewScope, 0) = 0
      /\ Size(NewScope, one) = Size(NewScope, one - 1) + Len(NewScope[one])
  <2>1. one \in 1 .. Len(NewScope)
    BY <1>1
  <2> HIDE DEF one
  <2>2. QED
    BY <1>1, <2>1, SizeFacts
<1>4. QED
  BY <1>1, <1>2, <1>3

(* The parameters are locals of a scope of their own.                      *)
Opening(d, arity) ==
  {c \in ChunkSet : /\ GoodScope(c.scope) /\ Len(c.scope) = d + 2
                    /\ c.code = <<>> /\ c.upvalues = <<>> /\ c.arity = arity}

LEMMA OpenedScope ==
  ASSUME NEW d \in Nat
  PROVE  LET scope == PushScope(NewScope, d + 1)
         IN  GoodScope(scope) /\ Len(scope) = d + 2 /\ Size(scope, d + 2) = 0
<1> DEFINE scope == PushScope(NewScope, d + 1)
           m == d + 1
           k == d + 2
           Z == {0}
<1>1. m \in Nat /\ Len(NewScope) <= m + 1 /\ m + 1 = d + 2
  BY EmptyScope
<1>2. /\ GoodScope(scope) /\ Len(scope) = m + 1
      /\ \A l \in 0 .. Len(NewScope) : Size(scope, l) = Size(NewScope, l)
      /\ \A l \in Len(NewScope) + 1 .. m + 1 : Len(scope[l]) = 0
  <2>1. scope = PushScope(NewScope, m)
    OBVIOUS
  <2>2. GoodScope(NewScope)
    BY EmptyScope
  <2> HIDE DEF m, scope
  <2>3. QED
    BY <1>1, <2>1, <2>2, PushedScope
<1> HIDE DEF scope
<1> DEFINE f == [l \in 0 .. k |-> Size(scope, l)]
<1>3. Size(scope, 0) = 0 /\ Size(scope, 1) = 0
  BY <1>2, EmptyScope
<1>4. \A l \in 1 .. d + 2 : Size(scope, l - 1) = 0 => Size(scope, l) = 0
  <2>1. TAKE l \in 1 .. d + 2
  <2>2. CASE l = 1
    BY <2>2, <1>3
  <2>3. CASE l # 1
    <3>1. l \in 2 .. m + 1 /\ l \in 1 .. Len(scope)
      BY <2>3, <1>1, <1>2
    <3>2. Len(scope[l]) = 0
      BY <3>1, <1>2, EmptyScope
    <3>3. Size(scope, l) = Size(scope, l - 1) + Len(scope[l])
      BY <3>1, <1>2, SizeFacts DEF GoodScope
    <3>4. QED
      BY <3>2, <3>3
  <2>4. QED
    BY <2>2, <2>3
<1>5. \A l \in 1 .. k : f[l - 1] \in Z => f[l] \in Z
  <2>1. TAKE l \in 1 .. k
  <2>2. l \in 0 .. d + 2 /\ l - 1 \in 0 .. d + 2
    OBVIOUS
  <2>3. QED
    BY <2>2, <1>4
<1>6. f[0] \in Z /\ k \in Nat /\ k \in 0 .. k
  BY <1>3
<1>7. \A l \in 0 .. k : f[l] \in Z
  <2> HIDE DEF f, k, Z
  <2>1. QED
    BY <1>5, <1>6, RecursionKeeps, Zenon
<1>8. Size(scope, k) = 0
  BY <1>6, <1>7
<1>9. QED
  BY <1>1, <1>2, <1>8 DEF scope

LEMMA ParameterFacts ==
  ASSUME NEW d \in Nat, NEW arity, NEW c \in Opening(d, arity), NEW name \in Names,
         NEW n, n = DeclareAndDefine(c, name, d + 1)
  PROVE  n \in Opening(d, arity) /\ Size(n.scope, d + 2) = Size(c.scope, d + 2) + 1
<1> DEFINE m == d + 1
           new == Initialize(Declare(c.scope, name, m), name, m)
<1>1. /\ m \in Nat /\ m # 0 /\ m + 1 = d + 2 /\ c \in ChunkSet /\ GoodScope(c.scope)
      /\ Len(c.scope) = m + 1 /\ c.code = <<>> /\ c.upvalues = <<>> /\ c.arity = arity
  BY DEF Opening
<1>2. n = Rescoped(c, new)
  <2>1. m > 0
    BY <1>1
  <2> HIDE DEF m
  <2>2. Define(Declared(c, name, m), name, m) = Rescoped(c, new)
    BY <1>1, <2>1 DEF Define, Declared, Rescoped, ChunkSet
  <2>3. QED
    BY <2>2 DEF DeclareAndDefine, m
<1> HIDE DEF m
<1>3. /\ GoodScope(new) /\ Len(new) = m + 1 /\ Size(new, m + 1) = Size(c.scope, m + 1) + 1
  BY <1>1, DefinedScope
<1> HIDE DEF new
<1>4. /\ n \in ChunkSet /\ n.scope = new /\ n.code = c.code /\ n.arity = c.arity
      /\ n.upvalues = c.upvalues
  BY <1>1, <1>2, <1>3, RescopedFacts DEF GoodScope
<1>5. QED
  BY <1>1, <1>3, <1>4 DEF Opening

LEMMA NewFunctionFacts ==
  ASSUME NEW d \in Nat, NEW kind \in Kinds, NEW params \in Seq(Names), Current \in ChunkSet,
         NEW n, n = NewFunction(params, kind, d)
  PROVE  n \in Opening(d, Len(params)) /\ Size(n.scope, d + 2) = n.arity
<1> DEFINE k == Len(params)
           T == Opening(d, k)
           x == [NewChunk(kind) EXCEPT
                   !.scope = PushScope(@, d + 1),
                   !.arity = Len(params),
                   !.type = Current.type,
                   !.enclosingType = Current.enclosingType,
                   !.hasSuperclass = Current.hasSuperclass]
           WithParameter(c, i) == DeclareAndDefine(c, params[i], d + 1)
           G == [p \in T \X (1 .. k) |-> WithParameter(p[1], p[2])]
           Is(f) == f = [i \in 0 .. k |-> IF i = 0 THEN x
                                         ELSE DeclareAndDefine(f[i - 1], params[i], d + 1)]
           with == CHOOSE f : Is(f)
<1>1. k \in Nat /\ \A i \in 1 .. k : params[i] \in Names
  OBVIOUS
<1>2. x \in T /\ Size(x.scope, d + 2) = 0
  <2> DEFINE scope == PushScope(NewScope, d + 1)
  <2>1. GoodScope(scope) /\ Len(scope) = d + 2 /\ Size(scope, d + 2) = 0
    BY OpenedScope
  <2> HIDE DEF scope
  <2>2. /\ Current.type \in Types /\ Current.enclosingType \in Types
        /\ Current.hasSuperclass \in BOOLEAN /\ scope \in Levels
    BY <2>1 DEF ChunkSet, GoodScope
  <2> DEFINE b == NewChunk(kind)
  <2>3. /\ b \in ChunkSet /\ b.scope = NewScope /\ b.code = <<>> /\ b.upvalues = <<>>
    <3>1. NewScope \in Levels /\ <<>> \in Seq(Instruction) /\ <<>> \in Seq(Constant)
          /\ <<>> \in Seq(Upvalue) /\ 0 \in Nat /\ "NONE" \in Types /\ FALSE \in BOOLEAN
      BY EmptyScope DEF GoodScope, Types
    <3>2. QED
      BY <3>1 DEF ChunkSet, NewChunk
  <2> HIDE DEF b
  <2>4. x = [b EXCEPT !.scope = scope, !.arity = k, !.type = Current.type,
                      !.enclosingType = Current.enclosingType,
                      !.hasSuperclass = Current.hasSuperclass]
    <3>1. x = [b EXCEPT !.scope = PushScope(b.scope, d + 1), !.arity = k, !.type = Current.type,
                        !.enclosingType = Current.enclosingType,
                        !.hasSuperclass = Current.hasSuperclass]
      BY DEF b
    <3>2. PushScope(b.scope, d + 1) = scope
      BY <2>3 DEF scope
    <3> HIDE DEF x, k
    <3>3. QED
      BY <3>1, <3>2
  <2> HIDE DEF x, k
  <2>5. /\ x \in ChunkSet /\ x.scope = scope /\ x.code = <<>> /\ x.upvalues = <<>>
        /\ x.arity = k
    BY <1>1, <2>2, <2>3, <2>4 DEF ChunkSet
  <2>6. QED
    BY <2>1, <2>5 DEF Opening
<1>3. ASSUME NEW c \in T, NEW i \in 1 .. k
      PROVE  /\ WithParameter(c, i) \in T
             /\ Size(WithParameter(c, i).scope, d + 2) = Size(c.scope, d + 2) + 1
  BY <1>1, ParameterFacts
<1>4. n = with[k]
  BY DEF NewFunction
<1> HIDE DEF x, T, k
<1>5. G \in [T \X (1 .. k) -> T]
  BY <1>3
<1>6. PICK f : Follows(f, T, x, k, G)
  <2> HIDE DEF G
  <2>1. QED
    BY <1>1, <1>2, <1>5, Recursion, Zenon
<1>7. \A i \in 1 .. k : f[i] = WithParameter(f[i - 1], i)
  <2>1. TAKE i \in 1 .. k
  <2>2. i - 1 \in 0 .. k
    BY <1>1
  <2>3. f[i - 1] \in T /\ f[i] = G[<<f[i - 1], i>>]
    BY <2>2, <1>6 DEF Follows
  <2> HIDE DEF WithParameter
  <2>4. QED
    BY <2>3
<1>8. Is(f)
  <2> DEFINE h == [i \in 0 .. k |-> IF i = 0 THEN x ELSE WithParameter(f[i - 1], i)]
  <2> HIDE DEF WithParameter
  <2>1. \A i \in 0 .. k : f[i] = h[i]
    BY <1>1, <1>6, <1>7 DEF Follows
  <2>2. f = h
    BY <2>1, <1>6 DEF Follows
  <2>3. QED
    BY <2>2 DEF WithParameter
<1>9. Is(with)
  BY <1>8
<1> HIDE DEF with
<1>10. with[0] = x /\ \A i \in 1 .. k : with[i] = WithParameter(with[i - 1], i)
  BY <1>1, <1>9
<1> HIDE DEF WithParameter
<1>11. \A i \in 0 .. k : with[i] \in T
  <2>1. \A i \in 1 .. k : with[i - 1] \in T => with[i] \in T
    BY <1>3, <1>10
  <2>2. QED
    BY <2>1, <1>1, <1>2, <1>10, RecursionKeeps, Zenon
<1> DEFINE g == [i \in 0 .. k |-> Size(with[i].scope, d + 2) - i]
           Z == {0}
<1>12. \A i \in 0 .. k : g[i] \in Z
  <2>1. g[0] \in Z
    BY <1>1, <1>2, <1>10
  <2>2. \A i \in 1 .. k : g[i - 1] \in Z => g[i] \in Z
    <3>1. TAKE i \in 1 .. k
    <3>2. i - 1 \in 0 .. k /\ i \in 0 .. k /\ with[i - 1] \in T
      BY <1>1, <1>11
    <3>3. Size(with[i].scope, d + 2) = Size(with[i - 1].scope, d + 2) + 1
      BY <3>2, <1>3, <1>10
    <3>4. Size(with[i - 1].scope, d + 2) \in Nat
      <4>1. with[i - 1].scope \in Levels /\ Len(with[i - 1].scope) = d + 2
        BY <3>2 DEF T, Opening, GoodScope
      <4>2. d + 2 \in 0 .. d + 2
        OBVIOUS
      <4>3. QED
        BY <4>1, <4>2, SizeFacts
    <3>5. QED
      BY <3>2, <3>3, <3>4
  <2> HIDE DEF g, Z
  <2>3. QED
    BY <2>1, <2>2, <1>1, RecursionKeeps, Zenon
<1>13. k \in 0 .. k
  BY <1>1
<1>14. n \in T /\ Size(n.scope, d + 2) - k = 0
  BY <1>4, <1>11, <1>12, <1>13
<1>15. Size(n.scope, d + 2) \in Nat /\ n.arity = k
  <2>1. n.scope \in Levels /\ Len(n.scope) = d + 2 /\ n.arity = k
    BY <1>14 DEF T, Opening, GoodScope
  <2>2. d + 2 \in 0 .. d + 2
    OBVIOUS
  <2>3. QED
    BY <2>1, <2>2, SizeFacts
<1>16. QED
  BY <1>1, <1>14, <1>15 DEF T, k

-----------------------------------------------------------------------------
(* A function within the current one: its body, its end, and what comes    *)
(* in the current function once the closure is on the stack.               *)

IsSequence(a) == \E S : a \in Seq(S)

Regroups(a, b, c, r) == a \o (b \o (c \o r)) = ((a \o b) \o c) \o r

LEMMA RegroupsAlways ==
  ASSUME NEW S, NEW a \in Seq(S), NEW b \in Seq(S), NEW c \in Seq(S), NEW r \in Seq(S)
  PROVE  Regroups(a, b, c, r)
<1> DEFINE ab == a \o b
           cr == c \o r
<1>1. ab \in Seq(S) /\ cr \in Seq(S)
  BY ConcatProperties
<1>2. (a \o b) \o cr = a \o (b \o cr)
  <2> HIDE DEF cr
  <2>1. QED
    BY <1>1, ConcatAssociative, SMTT(30)
<1>3. (ab \o c) \o r = ab \o (c \o r)
  <2> HIDE DEF ab
  <2>1. QED
    BY <1>1, ConcatAssociative, SMTT(30)
<1>4. QED
  BY <1>2, <1>3 DEF Regroups

Precede(x, y, items, q) ==
  <<x>> \o (<<y>> \o (items \o q)) = (<<x, y>> \o items) \o q

LEMMA TwoBefore ==
  ASSUME NEW x, NEW y, NEW items, NEW q, IsSequence(items), IsSequence(q)
  PROVE  Precede(x, y, items, q)
<1>1. PICK S : items \in Seq(S)
  BY DEF IsSequence
<1>2. PICK T : q \in Seq(T)
  BY DEF IsSequence
<1> DEFINE V == {x, y} \cup S \cup T
           a == <<x>>
           b == <<y>>
           ab == <<x, y>>
<1>3. S \subseteq V /\ T \subseteq V /\ x \in V /\ y \in V
  OBVIOUS
<1> HIDE DEF V
<1>4. items \in Seq(V) /\ q \in Seq(V)
  BY <1>1, <1>2, <1>3, SeqMonotonic
<1>5. a \in Seq(V) /\ b \in Seq(V) /\ a \o b = ab
  BY <1>3, Pair
<1> HIDE DEF a, b, ab
<1>6. Regroups(a, b, items, q)
  BY <1>4, <1>5, RegroupsAlways
<1>7. QED
  BY <1>5, <1>6 DEF a, b, ab, Precede, Regroups

LEMMA Called ==
  ASSUME NEW w, NEW s, NEW t, Standing(w, s, t),
         NEW c, NEW v, NEW u \in State, Meets(c, v, u), u.chunk = s.chunk, Full(u),
         Extends(w[Len(chunks)], v), c.upvalues = Current.upvalues, Adds(Current, c),
         NEW d \in Nat, NEW k, k = Len(chunks) + 1, NEW levels, levels = d + 1,
         NEW sf, sf = Fresh(k, levels), NEW f, NEW vf, Meets(f, vf, sf),
         f.code = <<>>, f.upvalues = <<>>,
         NEW e \in Nat, e = u.extra + 1, NEW m, m = Above(u, e),
         NEW items, Leading(items, m, t, v),
         NEW cs, cs = Append(With(c), f),
         Continue(cs, <<Block(d), EndOfFunction>> \o items)
  PROVE  Compiles'
<1> DEFINE K == Len(chunks)
           w2 == [i \in 1 .. K + 1 |-> IF i = K + 1 THEN vf ELSE IF i = K THEN v ELSE w[i]]
           q == Tail(todo)
           block == Block(d)
<1>1. /\ chunks \in Seq(ChunkSet) /\ K \in Nat \ {0} /\ s.chunk = K /\ t.chunk = K
      /\ \A i \in 1 .. K : GoodScope(chunks[i].scope)
      /\ Future(chunks, w, q, t) /\ t \in State
  BY StandingFacts DEF Standing
<1>2. c \in ChunkSet /\ GoodScope(c.scope) /\ f \in ChunkSet /\ GoodScope(f.scope)
  BY DEF Meets, GoodChunk
<1>3. /\ cs \in Seq(ChunkSet) /\ Len(cs) = K + 1 /\ cs[K + 1] = f /\ cs[K] = c
      /\ \A i \in 1 .. K - 1 : cs[i] = chunks[i]
  <2>1. /\ With(c) \in Seq(ChunkSet) /\ Len(With(c)) = K
        /\ \A i \in 1 .. K : With(c)[i] = IF i = K THEN c ELSE chunks[i]
    BY <1>1, <1>2, ExceptSeq DEF With
  <2>2. /\ cs \in Seq(ChunkSet) /\ Len(cs) = K + 1 /\ cs[K + 1] = f
        /\ \A i \in 1 .. K : cs[i] = With(c)[i]
    BY <2>1, <1>2, AppendProperties
  <2>3. K \in 1 .. K /\ \A i \in 1 .. K - 1 : i \in 1 .. K /\ i # K
    BY <1>1
  <2> HIDE DEF K
  <2>4. QED
    BY <2>1, <2>2, <2>3
<1>4. /\ w2[K + 1] = vf /\ w2[K] = v /\ \A i \in 1 .. K - 1 : w2[i] = w[i]
  BY <1>1
<1> HIDE DEF w2
<1>5. \A i \in 1 .. K - 1 :
        w2[i] = w[i] /\ \A r \in State : Meets(chunks[i], w[i], r) => Meets(cs[i], w2[i], r)
  BY <1>3, <1>4
<1>6. Future(cs, w2, q, t)
  BY <1>1, <1>4, <1>5, Transfer
<1>7. /\ m \in State /\ m.chunk = K /\ m.extra = u.extra + 1
  <2>1. /\ m \in State /\ Stays(u, m) /\ m.extra = e
    BY AboveShape
  <2>2. QED
    BY <2>1, <1>1 DEF Stays
<1>8. Future(cs, w2, items \o q, m)
  BY <1>4, <1>6, <1>7, Zenon DEF Leading
<1>9. /\ sf \in State /\ sf.chunk = K + 1 /\ sf.open = {} /\ sf.levels = d + 1
      /\ sf.missing = 0 /\ sf.extra = 0 /\ sf.guard = 0 /\ Len(sf.locals) = 0
  <2>1. k \in Nat \ {0} /\ levels \in Nat \ {0} /\ k = K + 1
    BY <1>1
  <2>2. sf \in State
    BY <2>1, FreshFacts
  <2>3. /\ sf.chunk = k /\ sf.open = {} /\ sf.levels = levels /\ sf.missing = 0
        /\ sf.extra = 0 /\ sf.guard = 0 /\ Len(sf.locals) = 0
    BY DEF Fresh
  <2>4. QED
    BY <2>1, <2>2, <2>3
<1>10. EndsFunction(sf, m, cs, w2)
  <2>1. Suspended(m) = u
    <3>1. u.extra \in Nat /\ m.extra - 1 = u.extra
      <4>1. u.extra \in Nat
        BY DEF State
      <4>2. QED
        BY <4>1, <1>7
    <3>2. Suspended(m) = [m EXCEPT !.extra = u.extra]
      BY <3>1 DEF Suspended
    <3>3. [m EXCEPT !.extra = u.extra] = Above(m, u.extra)
      BY <1>7 DEF Above, Now, State
    <3>4. Above(m, u.extra) = Above(u, u.extra)
      BY AboveAbove
    <3>5. QED
      BY <3>2, <3>3, <3>4, AboveSelf
  <2>2. m.chunk = sf.chunk - 1 /\ m.extra >= 1 /\ sf.open = {}
    <3>1. u.extra \in Nat
      BY DEF State
    <3>2. K \in Nat /\ m.chunk = K /\ m.extra = u.extra + 1 /\ sf.chunk = K + 1 /\ sf.open = {}
      BY <1>1, <1>7, <1>9
    <3> HIDE DEF K
    <3>3. m.chunk = sf.chunk - 1
      BY ONLY <3>2
    <3>4. m.extra >= 1
      BY <3>1, <3>2
    <3>5. QED
      BY <3>2, <3>3, <3>4
  <2>3. Meets(cs[m.chunk], w2[m.chunk], Suspended(m))
    BY <2>1, <1>3, <1>4, <1>7
  <2>4. QED
    BY <2>2, <2>3 DEF EndsFunction
<1>11. Future(cs, w2, <<EndOfFunction>> \o (items \o q), sf)
  <2>1. Leads(EndOfFunction, sf, m, cs, w2)
    BY <1>10 DEF Leads
  <2>2. QED
    BY <2>1, <1>8, <1>9, FuturePush
<1>12. Future(cs, w2, <<block>> \o (<<EndOfFunction>> \o (items \o q)), sf)
  <2>1. block[1] = "block" /\ block[2] = d /\ EndOfFunction[1] = "endFunction"
    BY DEF Block, EndOfFunction
  <2> HIDE DEF block
  <2>2. Becomes(sf, sf, 0, sf.open)
    BY <1>9, BecomesItself
  <2>3. Declares(d, sf, sf)
    BY <2>2, <1>9 DEF Declares, AtDepth, Calm
  <2>4. Rule(block, sf, sf, w2[sf.chunk])
    BY <2>1, <2>3, RuleOf
  <2>5. block # EndOfFunction
    BY <2>1
  <2>6. Leads(block, sf, sf, cs, w2)
    BY <2>4, <2>5, Zenon DEF Leads
  <2>7. QED
    BY <2>6, <1>9, <1>11, FuturePush
<1>13. <<block>> \o (<<EndOfFunction>> \o (items \o q))
         = (<<block, EndOfFunction>> \o items) \o q
  <2>1. IsSequence(items)
    BY Zenon DEF Leading, IsSequence
  <2>2. IsSequence(q)
    BY <1>6, FutureHead, Zenon DEF IsSequence
  <2> HIDE DEF block, q
  <2>3. Precede(block, EndOfFunction, items, q)
    BY <2>1, <2>2, TwoBefore
  <2>4. QED
    BY <2>3 DEF Precede
<1>14. chunks' = cs /\ todo' = (<<block, EndOfFunction>> \o items) \o q
  BY DEF Continue
<1> HIDE DEF block, q
<1>15. cs # <<>> /\ Last(cs) = f
  BY <1>1, <1>3 DEF Last
<1>16. \A i \in 1 .. Len(cs) : GoodScope(cs[i].scope)
  <2>1. TAKE i \in 1 .. Len(cs)
  <2>2. i = K + 1 \/ i = K \/ i \in 1 .. K - 1
    BY <1>1, <1>3
  <2>3. QED
    BY <2>2, <1>1, <1>2, <1>3
<1>19. Linked(cs)
  <2>1. Linked(With(c)) /\ Len(With(c)) = K /\ With(c) \in Seq(ChunkSet)
    BY <1>2, StandingFacts DEF Succeeds
  <2>2. \A i \in 1 .. K : cs[i] = With(c)[i]
    BY <2>1, <1>2, AppendProperties
  <2>3. ASSUME NEW i \in 1 .. Len(cs) - 1, NEW x \in ToSet(cs[i + 1].upvalues)
        PROVE  Offers(cs[i], x)
    <3>1. CASE i = K
      <4>1. cs[i + 1].upvalues = <<>>
        BY <3>1, <1>3
      <4>2. ToSet(<<>>) = {}
        BY DEF ToSet
      <4>3. QED
        BY <4>1, <4>2, <2>3
    <3>2. CASE i # K
      <4>1. i \in 1 .. K - 1 /\ i \in 1 .. K /\ i + 1 \in 1 .. K
        BY <3>2, <1>1, <1>3
      <4>2. cs[i] = With(c)[i] /\ cs[i + 1] = With(c)[i + 1]
        BY <4>1, <2>2
      <4>3. QED
        BY <4>1, <4>2, <2>1, <2>3 DEF Linked
    <3>3. QED
      BY <3>1, <3>2
  <2>4. QED
    BY <2>3 DEF Linked
<1>20. AllSound(cs, w2, functions)
  <2>1. /\ AllSound(chunks, w, functions) /\ Current = chunks[K] /\ Current \in ChunkSet
        /\ Meets(Current, w[K], s)
    BY StandingFacts DEF Standing
  <2>2. Sound(c, v, functions)
    <3>1. Len(Current.code) <= Len(w[K].h)
      <4>1. Len(w[K].h) = Len(Current.code) + 1 /\ Current.code \in Seq(Instruction)
        BY <2>1 DEF Meets, Placed, Layout, Sized
      <4>2. QED
        BY <4>1
    <3>2. Sound(Current, w[K], functions)
      BY <1>1, <2>1 DEF AllSound
    <3>3. QED
      BY <3>1, <3>2, <2>1, <1>2, SoundAdds
  <2>3. Sound(f, vf, functions)
    BY DEF Sound
  <2>4. ASSUME NEW i \in 1 .. Len(cs)
        PROVE  Sound(cs[i], w2[i], functions)
    <3>1. i = K + 1 \/ i = K \/ i \in 1 .. K - 1
      BY <1>1, <1>3
    <3>2. CASE i \in 1 .. K - 1
      <4>1. i \in 1 .. K
        BY ONLY <3>2, <1>1
      <4>2. Sound(chunks[i], w[i], functions)
        BY <4>1, <2>1 DEF AllSound
      <4>3. cs[i] = chunks[i] /\ w2[i] = w[i]
        BY <3>2, <1>3, <1>4
      <4>4. QED
        BY <4>2, <4>3
    <3>3. QED
      BY <3>1, <3>2, <2>2, <2>3, <1>3, <1>4
  <2>5. QED
    BY <2>4 DEF AllSound
<1>17. \E x, r : /\ r.chunk = Len(cs)
                 /\ Meets(Last(cs), x[Len(cs)], r)
                 /\ Future(cs, x, (<<block, EndOfFunction>> \o items) \o q, r)
                 /\ AllSound(cs, x, functions)
  <2>1. /\ sf.chunk = Len(cs) /\ Meets(Last(cs), w2[Len(cs)], sf)
    BY <1>3, <1>4, <1>9, <1>15
  <2>2. Future(cs, w2, (<<block, EndOfFunction>> \o items) \o q, sf)
    BY <1>12, <1>13
  <2>3. QED
    BY <2>1, <2>2, <1>20
<1>21. functions' = functions
  BY DEF Continue
<1>18. QED
  BY <1>3, <1>14, <1>15, <1>16, <1>17, <1>19, <1>21 DEF Compiles, Current

LEMMA ParametersFit ==
  ASSUME grammar \in Grammars, NEW params \in Parameters
  PROVE  params \in Seq(Names)
<1>1. Name \subseteq Names /\ grammar.arity \in Nat
  BY GrammarFacts
<1>2. PICK n \in 0 .. grammar.arity : params \in [1 .. n -> Name]
  BY DEF Parameters, BoundedSeq, SeqOf
<1>3. n \in Nat /\ params \in [1 .. n -> Names]
  BY <1>1, <1>2
<1>4. QED
  BY <1>3, SeqDef

LEMMA Quadruple ==
  ASSUME NEW x, NEW y, NEW z, NEW u
  PROVE  <<x, y>> \o <<z, u>> = <<x, y, z, u>>
<1> DEFINE S == {x, y, z, u}
           a == <<x, y>> \o <<z, u>>
           b == <<x, y, z, u>>
<1>1. <<x, y>> \in Seq(S) /\ <<z, u>> \in Seq(S) /\ Len(<<x, y>>) = 2 /\ Len(<<z, u>>) = 2
  OBVIOUS
<1>2. /\ a \in Seq(S) /\ Len(a) = 2 + 2
      /\ \A i \in 1 .. 2 + 2 : a[i] = IF i <= 2 THEN <<x, y>>[i] ELSE <<z, u>>[i - 2]
  BY <1>1, ConcatProperties
<1>3. b \in Seq(S) /\ Len(b) = 4
  OBVIOUS
<1> HIDE DEF a, S
<1>4. a[1] = x /\ a[2] = y /\ a[3] = z /\ a[4] = u
  BY <1>2
<1>5. \A i \in 1 .. 4 : a[i] = b[i]
  <2>1. b[1] = x /\ b[2] = y /\ b[3] = z /\ b[4] = u
    OBVIOUS
  <2> HIDE DEF b
  <2>2. \A i \in 1 .. 4 : i = 1 \/ i = 2 \/ i = 3 \/ i = 4
    OBVIOUS
  <2>3. QED
    BY <1>4, <2>1, <2>2
<1> HIDE DEF b
<1>6. a = b
  BY <1>2, <1>3, <1>5, SeqEqual
<1>7. QED
  BY <1>6 DEF a, b

(* The current function calls the compiler for a new one.                  *)
LEMMA Calls ==
  ASSUME NEW w, NEW s, NEW t, Standing(w, s, t),
         NEW c, NEW v, NEW u \in State, Meets(c, v, u), u.chunk = s.chunk, Full(u),
         Extends(w[Len(chunks)], v), c.upvalues = Current.upvalues, Adds(Current, c),
         NEW e \in Nat, e = u.extra + 1,
         NEW d \in Nat, NEW params \in Seq(Names), NEW kind \in Kinds,
         NEW items, Leading(items, Above(u, e), t, v),
         NEW m, m = d + 1,
         Continue(Append(With(c), NewFunction(params, kind, d)),
                  <<Block(m), EndOfFunction>> \o items)
  PROVE  Compiles'
<1> DEFINE f == NewFunction(params, kind, d)
           levels == m + 1
           k == Len(chunks) + 1
           sf == Fresh(k, levels)
           cs == Append(With(c), f)
<1>1. Current \in ChunkSet /\ Len(chunks) \in Nat
  BY StandingFacts
<1>2. f \in Opening(d, Len(params)) /\ Size(f.scope, d + 2) = f.arity
  BY <1>1, NewFunctionFacts
<1>3. m \in Nat /\ levels = d + 2
  OBVIOUS
<1> HIDE DEF f, levels, k
<1>4. /\ f \in ChunkSet /\ GoodScope(f.scope) /\ f.code = <<>> /\ f.upvalues = <<>>
      /\ levels = Len(f.scope) /\ Size(f.scope, levels) = f.arity
  BY <1>2, <1>3 DEF Opening
<1>5. PICK vf : Meets(f, vf, sf)
  BY <1>4, FreshMeets
<1>6. sf = Fresh(k, levels) /\ cs = Append(With(c), f)
  OBVIOUS
<1>7. Continue(cs, <<Block(m), EndOfFunction>> \o items)
  BY DEF f
<1>8. levels = m + 1 /\ k = Len(chunks) + 1
  BY DEF levels, k
<1> DEFINE r == Above(u, e)
<1>9. r = Above(u, e) /\ Leading(items, r, t, v)
  OBVIOUS
<1> HIDE DEF sf, cs, r
<1>10. QED
  BY <1>3, <1>4, <1>5, <1>6, <1>7, <1>8, <1>9, Called

LEMMA FunctionDeclarationCompiles ==
  ASSUME Compiles, FunctionDeclaration, grammar \in Grammars, status' = "compiling"
  PROVE  Compiles'
<1>1. Head(todo)[1] = "declaration"
  BY DEF FunctionDeclaration, Doing
<1>2. PICK w, s, t : Standing(w, s, t)
  BY <1>1, HeadStands
<1> DEFINE v == w[Len(chunks)]
           d == Arg(1)
<1>3. PICK name \in Name, params \in Parameters :
        Continue(Append(With(Declared(Current, name, d)), NewFunction(params, "FUNCTION", d)),
                 <<Block(d + 1), EndOfFunction, ThenDefine(name, d)>>)
  BY DEF FunctionDeclaration, Fail
<1> DEFINE c == Declared(Current, name, d)
           kind == "FUNCTION"
           x == ThenDefine(name, d)
           m == d + 1
           items == <<x>>
           e == 1
<1>4. /\ s \in State /\ t \in State /\ Full(s) /\ AtDepth(d, s) /\ Calm(s, 0)
      /\ Becomes(s, t, 0, s.open) /\ Len(t.locals) < s.levels
      /\ Meets(Current, v, s) /\ name \in Names /\ name # "super"
  <2>1. Rule(Head(todo), s, t, v)
    BY <1>2, StandingFacts
  <2>2. Declares(d, s, t)
    BY <1>1, <2>1, RuleOf DEF Arg
  <2>3. QED
    BY <1>2, <1>3, <2>2, StandingFacts, GrammarFacts DEF Declares
<1>5. c = Declared(Current, name, d) /\ v = w[Len(chunks)] /\ x = ThenDefine(name, d)
  OBVIOUS
<1>6. Continue(Append(With(c), NewFunction(params, kind, d)),
               <<Block(m), EndOfFunction>> \o items)
  BY <1>3, Triple
<1>7. d \in Nat /\ params \in Seq(Names) /\ kind \in Kinds /\ m = d + 1
  BY <1>3, <1>4, ParametersFit DEF AtDepth, Kinds
<1> HIDE DEF c, kind, x, m, d
<1>8. PICK u : Awaits(d, s, u) /\ Meets(c, v, u)
  <2> HIDE DEF v
  <2>1. QED
    BY <1>4, <1>5, DeclaredFacts
<1>13. c.upvalues = Current.upvalues /\ Adds(Current, c)
  <2> HIDE DEF v
  <2>1. QED
    BY <1>4, <1>5, DeclaredFacts
<1>9. Leading(items, Above(u, e), t, v)
  <2> HIDE DEF v
  <2>1. QED
    BY <1>4, <1>5, <1>8, LeadDefine
<1>10. u \in State /\ Full(u) /\ u.chunk = s.chunk /\ e \in Nat /\ e = u.extra + 1
  BY <1>8 DEF Awaits
<1>11. Extends(w[Len(chunks)], v)
  BY DEF Extends
<1> HIDE DEF v, items, e
<1>12. QED
  BY <1>2, <1>6, <1>7, <1>8, <1>9, <1>10, <1>11, <1>13, Calls

LEMMA MethodDeclarationCompiles ==
  ASSUME Compiles, MethodDeclaration, grammar \in Grammars, status' = "compiling"
  PROVE  Compiles'
<1>1. Head(todo)[1] = "methods"
  BY DEF MethodDeclaration, Doing
<1>2. PICK w, s, t : Standing(w, s, t)
  BY <1>1, HeadStands
<1> DEFINE v == w[Len(chunks)]
           d == Arg(1)
           KindOf(name) == IF name = "init" THEN "CONSTRUCTOR" ELSE "METHOD"
<1>3. PICK name \in Name \cup {"init"}, params \in Parameters :
        Continue(Append(chunks, NewFunction(params, KindOf(name), d)),
                 <<Block(d + 1), EndOfFunction,
                   ThenConstant("METHOD", Text(name), <<>>), Head(todo)>>)
  BY DEF MethodDeclaration, Fail
<1> DEFINE kind == KindOf(name)
           op == "METHOD"
           value == Text(name)
           operands == <<>>
           x == ThenConstant(op, value, operands)
           y == Head(todo)
           m == d + 1
           items == <<x, y>>
           e == s.extra + 1
<1>4. /\ s \in State /\ t \in State /\ Full(s) /\ Meets(Current, v, s)
      /\ Rule(y, s, t, v) /\ Current = chunks[Len(chunks)] /\ chunks \in Seq(ChunkSet)
  BY <1>2, StandingFacts DEF Standing
<1>5. Encloses(d, s, t)
  BY <1>1, <1>4, RuleOf DEF Arg
<1>6. d \in Nat /\ s.missing = 0 /\ s.guard = 0 /\ s.extra = 1 /\ e = 2
  BY <1>5 DEF Encloses, Calm
<1>7. name \in Names
  <2>1. "init" \in {"init", "super"}
    OBVIOUS
  <2>2. QED
    BY <1>3, <2>1, GrammarFacts DEF Names
<1>8. value \in Constant /\ params \in Seq(Names) /\ kind \in Kinds /\ m = d + 1
  BY <1>3, <1>7, GrammarFacts, ParametersFit DEF Kinds
<1>9. Continue(Append(With(Current), NewFunction(params, kind, d)),
               <<Block(m), EndOfFunction>> \o items)
  <2>1. With(Current) = chunks
    BY <1>4 DEF With
  <2>2. QED
    BY <1>3, <2>1, Quadruple
<1>10. x = ThenConstant(op, value, operands)
  OBVIOUS
<1> HIDE DEF kind, value, x, y, m, d
<1>11. Leading(<<x>>, Above(s, e), s, v)
  <2>1. ConstantShape(op, operands, 2, -1) /\ 2 \in Nat /\ -1 \in Int /\ e \in Nat /\ 2 <= e
    BY <1>6, ConstantShapes
  <2>2. Becomes(s, s, e + -1, s.open)
    BY <1>4, <1>6, BecomesItself
  <2> HIDE DEF op, operands, e, v
  <2>3. QED
    BY <2>1, <2>2, <1>4, <1>8, <1>10, LeadConstantShape
<1>12. Leading(<<y>>, s, t, v)
  <2>1. Extends(v, v) /\ y[1] # "endFunction"
    BY <1>1 DEF Extends, y
  <2>2. QED
    BY <2>1, <1>2, LeadAgain DEF y
<1>13. Leading(items, Above(s, e), t, v)
  <2> HIDE DEF e, v
  <2>1. QED
    BY <1>11, <1>12, LeadTwo
<1>14. /\ Extends(w[Len(chunks)], v) /\ e \in Nat /\ e = s.extra + 1
       /\ Adds(Current, Current) /\ Current.upvalues = Current.upvalues
  BY <1>2, <1>6, StandingFacts, AddsSelf DEF Extends
<1> HIDE DEF v, items, e
<1>15. QED
  BY <1>2, <1>4, <1>6, <1>8, <1>9, <1>13, <1>14, Calls

-----------------------------------------------------------------------------
(* The end of a function.                                                  *)

LEMMA MeetsFits ==
  ASSUME NEW c, NEW v, NEW s \in State, Full(s), Meets(c, v, s)
  PROVE  c \in ChunkSet /\ Fitted(c.code, c.arity, v, s)
<1>1. /\ c \in ChunkSet /\ c.scope \in Levels /\ Len(c.scope) = s.levels
      /\ \A l \in 1 .. Len(s.locals) : s.locals[l] = Size(c.scope, l)
      /\ Placed(c.code, c.arity, v, 1 + Size(c.scope, s.levels) - s.missing + s.extra,
                s.guard, s.open, s.loops)
  BY DEF Meets, GoodChunk, GoodScope
<1>2. /\ s.levels \in 1 .. Len(s.locals) /\ s.levels \in 0 .. Len(c.scope)
      /\ s.missing \in Nat /\ s.extra \in Nat
      /\ HeightOf(s) = Base(s) - s.missing + s.extra
  BY <1>1, FullFacts
<1>3. Size(c.scope, s.levels) \in Nat /\ Base(s) = 1 + Size(c.scope, s.levels)
  BY <1>1, <1>2, SizeFacts DEF Base
<1>4. HeightOf(s) = 1 + Size(c.scope, s.levels) - s.missing + s.extra
  BY <1>2, <1>3
<1>5. QED
  BY <1>1, <1>4 DEF Fitted

(* What a function asks of those before it does not depend on later ones.  *)
LEMMA SoundMore ==
  ASSUME NEW c, NEW v, NEW fs \in Seq(FunctionSet), NEW f \in FunctionSet, Sound(c, v, fs)
  PROVE  Sound(c, v, Append(fs, f))
<1> DEFINE new == Append(fs, f)
<1>1. /\ Len(fs) \in Nat /\ Len(new) = Len(fs) + 1
      /\ \A i \in 1 .. Len(fs) : new[i] = fs[i]
  BY AppendProperties
<1> HIDE DEF new
<1>2. \A i \in 1 .. Len(fs) : i \in 1 .. Len(new) /\ new[i].upvalues = fs[i].upvalues
  BY <1>1
<1>3. \A p : ClosureAt(c, p, v, fs) => ClosureAt(c, p, v, new)
  BY <1>2, Zenon DEF ClosureAt
<1>4. QED
  BY <1>3, Zenon DEF Sound, new

LEMMA FinishedFacts ==
  ASSUME NEW n \in ChunkSet, NEW v, NEW u, Fitted(n.code, n.arity, v, u), u.open = {},
         NEW fs, Sound(n, v, fs)
  PROVE  Finished(n) \in FunctionSet /\ LaidOut(Finished(n), fs)
<1> DEFINE f == Finished(n)
<1>1. /\ f \in FunctionSet /\ f.code = n.code /\ f.arity = n.arity
      /\ f.upvalues = n.upvalues /\ f.constants = n.constants
  BY DEF Finished, FunctionSet, ChunkSet
<1>2. Layout(n.code, n.arity, v.h, v.r, v.g) /\ Unpatched(n.code) = {}
  BY DEF Fitted, Placed
<1>3. Patched(n.code)
  BY <1>2 DEF Patched, Unpatched
<1> HIDE DEF f
<1>4. Sound(f, v, fs)
  BY <1>1 DEF Sound, ClosureAt
<1>5. LaidOut(f, fs)
  BY <1>1, <1>2, <1>3, <1>4 DEF LaidOut
<1>6. QED
  BY <1>1, <1>5 DEF f

LEMMA CompletedFacts ==
  ASSUME NEW c, NEW v, NEW s \in State, Full(s), Meets(c, v, s), s.open = {},
         NEW n, n \in {Completed(c), EmitReturnNil(c)}, NEW fs, Sound(c, v, fs)
  PROVE  /\ Finished(n) \in FunctionSet /\ LaidOut(Finished(n), fs)
         /\ Finished(n).upvalues = c.upvalues
<1> DEFINE nil == <<"NIL">>
           this == <<"GET_LOCAL", 0>>
           ret == <<"RETURN">>
           e == s.extra + 1
<1>1. c \in ChunkSet /\ Fitted(c.code, c.arity, v, s)
  BY MeetsFits
<1>2. Shape(nil, 0, 1) /\ Shape(ret, 1, -1)
  BY Shapes
<1>3. this \in Instruction /\ ~ Jumps(this) /\ Takes(this) = 0 /\ Net(this) = 1 /\ this[2] = 0
  BY DEF Instruction, WithOperand, Jumps, Takes, Leaves, Net
<1>4. /\ s.extra \in Nat /\ e \in Nat /\ HeightOf(s) \in Nat \ {0}
      /\ c.code \in Seq(Instruction) /\ Above(s, s.extra) = s
  BY <1>1, FullFacts, AboveSelf, SequenceOf
<1> DEFINE withThis == c.code \o <<this, ret>>
           withNil == c.code \o <<nil, ret>>
           thisToo == Emit(c, <<this, ret>>)
           nilToo == Emit(c, <<nil, ret>>)
<1>10. /\ Mild(<<this, ret>>, Len(c.upvalues)) /\ Mild(<<nil, ret>>, Len(c.upvalues))
       /\ Len(c.code) <= Len(v.h)
  <2>1. Len(v.h) = Len(c.code) + 1 /\ Len(c.code) \in Nat
    BY <1>1, FittedFacts
  <2>2. QED
    BY <2>1, MildCode
<1>11. ASSUME NEW more, Mild(more, Len(c.upvalues)), NEW u, NEW v2, n = Emit(c, more),
              Fitted(c.code \o more, c.arity, v2, u), u.open = {}, Extends(v, v2)
       PROVE  /\ Finished(n) \in FunctionSet /\ LaidOut(Finished(n), fs)
              /\ Finished(n).upvalues = c.upvalues
  <2>1. /\ n \in ChunkSet /\ Recoded(c, n) /\ n.code = c.code \o more /\ n.arity = c.arity
        /\ n.upvalues = c.upvalues
    BY <1>1, <1>11, EmitFacts
  <2>2. Fitted(n.code, n.arity, v2, u)
    BY <1>11, <2>1
  <2>3. Adds(c, n)
    BY <2>1 DEF Recoded, Rewritten
  <2>4. Sound(n, v2, fs)
    BY <1>1, <1>10, <1>11, <2>1, <2>3, SoundAdds
  <2>5. Finished(n).upvalues = n.upvalues
    BY DEF Finished
  <2>6. QED
    BY <1>11, <2>1, <2>2, <2>4, <2>5, FinishedFacts
<1>5. n = c \/ n = thisToo \/ n = nilToo
  BY DEF Completed, EmitReturnNil
<1> HIDE DEF nil, this, ret, e
<1>6. CASE n = c
  BY <1>1, <1>6, FinishedFacts DEF Finished
<1>7. CASE n = thisToo
  <2>1. PICK v1 : Fitted(c.code \o <<this>>, c.arity, v1, Above(s, e)) /\ Extends(v, v1)
    <3>1. Takes(this) < HeightOf(s) /\ this[2] < HeightOf(s) /\ e = s.extra + Net(this)
      BY <1>3, <1>4 DEF e
    <3>2. QED
      BY <3>1, <1>1, <1>3, <1>4, WriteOne DEF Above
  <2>2. PICK v2 : /\ Fitted((c.code \o <<this>>) \o <<ret>>, c.arity, v2,
                            Above(Above(s, e), s.extra))
                  /\ Extends(v1, v2)
    <3>1. Above(s, e) \in State /\ Full(Above(s, e)) /\ Above(s, e).extra = e
      BY <1>4, AboveFacts
    <3>2. 1 <= e /\ s.extra = e + (-1) /\ 1 \in Nat /\ -1 \in Int
      BY <1>4 DEF e
    <3>3. QED
      BY <3>1, <3>2, <2>1, <1>2, <1>4, WriteShape
  <2>3. (c.code \o <<this>>) \o <<ret>> = withThis
    BY <1>2, <1>3, <1>4, JoinTwo DEF Shape
  <2>4. Fitted(withThis, c.arity, v2, s)
    BY <2>2, <2>3, <1>4, AboveAbove
  <2>5. Extends(v, v2)
    BY <2>1, <2>2, ExtendsTrans
  <2> DEFINE more == <<this, ret>>
  <2>6. Fitted(c.code \o more, c.arity, v2, s) /\ n = Emit(c, more) /\ Mild(more, Len(c.upvalues))
    BY <2>4, <1>7, <1>10
  <2> HIDE DEF more
  <2>7. QED
    BY <2>5, <2>6, <1>11
<1>8. CASE n = nilToo
  <2>1. PICK v2 : Fitted(withNil, c.arity, v2, Above(s, s.extra)) /\ Extends(v, v2)
    <3> DEFINE zero == 0
               one == 1
               less == -1
               code == c.code
               top == s.extra
    <3>1. /\ zero <= s.extra /\ one <= e /\ e = s.extra + one /\ top = e + less
          /\ zero \in Nat /\ one \in Nat /\ less \in Int /\ top \in Nat
      BY <1>4 DEF e
    <3>2. Shape(nil, zero, one) /\ Shape(ret, one, less) /\ Fitted(code, c.arity, v, s)
      BY <1>1, <1>2
    <3>3. withNil = code \o <<nil, ret>>
      OBVIOUS
    <3> HIDE DEF zero, one, less, code, top, withNil
    <3>4. \E v2 : Fitted(code \o <<nil, ret>>, c.arity, v2, Above(s, top)) /\ Extends(v, v2)
      BY <3>1, <3>2, <1>4, WriteTwo
    <3>5. QED
      BY <3>3, <3>4 DEF top
  <2>2. Fitted(withNil, c.arity, v2, s)
    BY <2>1, <1>4
  <2> DEFINE more == <<nil, ret>>
  <2>3. Fitted(c.code \o more, c.arity, v2, s) /\ n = Emit(c, more) /\ Mild(more, Len(c.upvalues))
    BY <2>2, <1>8, <1>10
  <2> HIDE DEF more
  <2>4. QED
    BY <2>1, <2>3, <1>11
<1>9. QED
  BY <1>5, <1>6, <1>7, <1>8

LEMMA FunctionsGrow ==
  ASSUME NEW fs, Functions(fs), NEW f \in FunctionSet, LaidOut(f, fs)
  PROVE  Functions(Append(fs, f))
<1> DEFINE new == Append(fs, f)
<1>1. /\ fs \in Seq(FunctionSet) /\ new \in Seq(FunctionSet)
      /\ Len(fs) \in Nat /\ Len(new) = Len(fs) + 1 /\ new[Len(fs) + 1] = f
      /\ \A i \in 1 .. Len(fs) : new[i] = fs[i]
  BY AppendProperties DEF Functions
<1>5. \A g, v : Sound(g, v, fs) => Sound(g, v, new)
  BY <1>1, SoundMore
<1>6. \A g : LaidOut(g, fs) => LaidOut(g, new)
  BY <1>5 DEF LaidOut
<1> HIDE DEF new
<1>2. \A i \in 1 .. Len(new) : i = Len(fs) + 1 \/ i \in 1 .. Len(fs)
  BY <1>1
<1>3. \A i \in 1 .. Len(new) : LaidOut(new[i], new)
  BY <1>1, <1>2, <1>6 DEF Functions
<1>4. QED
  BY <1>1, <1>3 DEF new, Functions

LEMMA AppendIs ==
  ASSUME NEW S, NEW seq \in Seq(S), NEW x \in S
  PROVE  LET more == seq \o <<x>>
         IN  /\ more \in Seq(S) /\ Len(more) = Len(seq) + 1 /\ more[Len(seq) + 1] = x
             /\ \A p \in 1 .. Len(seq) : more[p] = seq[p]
<1>1. <<x>> \in Seq(S) /\ Len(<<x>>) = 1 /\ <<x>>[1] = x /\ Len(seq) \in Nat
  OBVIOUS
<1>2. QED
  BY <1>1, ConcatProperties

LEMMA SmallByte ==
  ASSUME NEW n \in Nat, n < ByteSize
  PROVE  Byte(n) = n
BY ByteAssumption DEF Byte

LEMMA IndexInIs ==
  ASSUME NEW S, NEW seq \in Seq(S), NEW x, IndexIn(seq, x) # 0
  PROVE  IndexIn(seq, x) \in 1 .. Len(seq) /\ seq[IndexIn(seq, x)] = x
<1> DEFINE T == {0} \cup {i \in DOMAIN seq : seq[i] = x}
           m == Max(T)
<1>1. Len(seq) \in Nat /\ T \subseteq 0 .. Len(seq) /\ T # {}
  OBVIOUS
<1>2. m \in T /\ IndexIn(seq, x) = m
  BY <1>1, MaxIsGreatest DEF IndexIn
<1> HIDE DEF m
<1>3. QED
  BY <1>1, <1>2

(* As long as a byte suffices, the index of a constant finds it.           *)
LEMMA NamesConstant ==
  ASSUME NEW c \in ChunkSet, NEW value \in Constant, NEW a, a = AddConstant(c, value),
         Len(a.constants) <= ByteSize, NEW k, k = ConstantIndex(c.constants, value)
  PROVE  k + 1 \in 1 .. Len(a.constants) /\ a.constants[k + 1] = value
<1> DEFINE old == c.constants
           more == Append(old, value)
           i == IndexIn(old, value)
           n == IF i = 0 THEN Len(old) ELSE i - 1
<1>1. /\ old \in Seq(Constant) /\ Len(old) \in Nat
      /\ a.constants = IF Contains(old, value) THEN old ELSE more
  BY DEF ChunkSet, AddConstant
<1>2. Len(more) = Len(old) + 1 /\ more[Len(old) + 1] = value
  BY <1>1, AppendProperties
<1>3. k = Byte(n) /\ ByteSize \in Nat
  BY ByteAssumption DEF ConstantIndex
<1>4. CASE i = 0
  <2>1. ~ Contains(old, value)
    BY <1>1, <1>4, IndexInFinds DEF Contains
  <2>2. a.constants = more /\ n = Len(old)
    BY <2>1, <1>1, <1>4
  <2> HIDE DEF n, more, old
  <2>3. n \in Nat /\ n < ByteSize /\ Len(a.constants) = n + 1 /\ a.constants[n + 1] = value
    BY <2>2, <1>1, <1>2, <1>3
  <2>4. k = n
    BY <2>3, <1>3, SmallByte
  <2>5. QED
    BY <2>3, <2>4
<1>5. CASE i # 0
  <2>1. i \in 1 .. Len(old) /\ old[i] = value
    BY <1>1, <1>5, IndexInIs
  <2>2. Contains(old, value)
    BY <2>1 DEF Contains
  <2>3. a.constants = old /\ n = i - 1
    BY <2>2, <1>1, <1>5
  <2> HIDE DEF n, old, i
  <2>4. /\ n \in Nat /\ n < ByteSize /\ n + 1 \in 1 .. Len(a.constants)
        /\ a.constants[n + 1] = value
    <3>1. n + 1 = i
      BY <2>1, <2>3
    <3>2. QED
      BY <3>1, <2>1, <2>3, <1>1, <1>3
  <2>5. k = n
    BY <2>4, <1>3, SmallByte
  <2>6. QED
    BY <2>4, <2>5
<1>6. QED
  BY <1>4, <1>5

(* A function that is met is at least as high as its scope says.           *)
LEMMA TopFits ==
  ASSUME NEW c, NEW v, NEW u \in State, Full(u), Meets(c, v, u)
  PROVE  Top(c.scope) \in Int /\ HeightOf(u) \in Int /\ Top(c.scope) <= HeightOf(u)
<1>1. /\ c.scope \in Levels /\ Len(c.scope) = u.levels
      /\ \A l \in 1 .. Len(u.locals) : u.locals[l] = Size(c.scope, l)
      /\ u.missing = 1 => LastIsMissing(c.scope)
  BY DEF Meets, GoodChunk, GoodScope
<1>2. /\ u.levels \in 1 .. Len(u.locals) /\ u.levels \in 0 .. Len(c.scope)
      /\ u.missing \in {0, 1} /\ u.extra \in Nat
      /\ HeightOf(u) = Base(u) - u.missing + u.extra
  BY <1>1, FullFacts
<1>3. Size(c.scope, u.levels) \in Nat /\ Base(u) = 1 + Size(c.scope, u.levels)
  BY <1>1, <1>2, SizeFacts DEF Base
<1> DEFINE size == Size(c.scope, u.levels)
           less == IF LastIsMissing(c.scope) THEN 1 ELSE 0
<1>4. Top(c.scope) = 1 + size - less /\ less \in {0, 1} /\ (u.missing = 1 => less = 1)
  BY <1>1 DEF Top
<1> HIDE DEF less, size
<1>5. size \in Nat /\ Base(u) = 1 + size
  BY <1>3 DEF size
<1>6. QED
  BY <1>2, <1>4, <1>5

(* The CLOSURE of the i-th function is written, and finds what it asks for.*)
LEMMA ClosureWritten ==
  ASSUME NEW c, NEW v, NEW u \in State, Full(u), Meets(c, v, u),
         NEW fs, Sound(c, v, fs), NEW i \in Nat \ {0}, i \in 1 .. Len(fs),
         \A x \in ToSet(fs[i].upvalues) : Offers(c, x),
         NEW n, n = EmitConstant(c, "CLOSURE", Function(i), <<>>),
         NEW e \in Nat, e = u.extra + 1
  PROVE  /\ n \in ChunkSet /\ n.scope = c.scope /\ n.hasSuperclass = c.hasSuperclass
         /\ n.upvalues = c.upvalues
         /\ \E v2 : /\ Fitted(n.code, n.arity, v2, Above(u, e))
                    /\ Extends(v, v2) /\ Sound(n, v2, fs)
<1> DEFINE value == Function(i)
           a == AddConstant(c, value)
           k == ConstantIndex(c.constants, value)
           ins == <<"CLOSURE", k>>
           code == c.code \o <<ins>>
           m == Len(c.code)
<1>1. c \in ChunkSet /\ Fitted(c.code, c.arity, v, u) /\ value \in Constant
  BY MeetsFits DEF Function, Constant
<1>2. /\ a \in ChunkSet /\ Recoded(c, a) /\ a.code = c.code /\ a.upvalues = c.upvalues
      /\ k \in Nat /\ Adds(c, a)
  <2> HIDE DEF value
  <2>1. QED
    BY <1>1, ConstantFacts DEF Recoded, Rewritten
<1>3. n = [a EXCEPT !.code = code]
  <2>1. <<"CLOSURE", k>> \o <<>> = ins
    <3>1. <<"CLOSURE", k>> \in Seq({"CLOSURE", k})
      OBVIOUS
    <3>2. QED
      BY <3>1, ConcatEmptySeq
  <2>2. n = Emit(a, <<ins>>)
    BY <2>1 DEF EmitConstant
  <2> HIDE DEF ins, a
  <2>3. QED
    BY <2>2, <1>2 DEF Emit, ChunkSet
<1>4. /\ ins[1] = "CLOSURE" /\ ins[2] = k /\ ins \in Instruction
      /\ ~ Jumps(ins) /\ ~ Slotted(ins) /\ Takes(ins) = 0 /\ Net(ins) = 1
  <2>1. ins[1] = "CLOSURE" /\ ins[2] = k /\ ins \in WithOperand \X Nat
    BY <1>2 DEF WithOperand
  <2> HIDE DEF ins
  <2>2. QED
    BY <2>1 DEF Instruction, Jumps, Slotted, Takes, Leaves, Net
<1> HIDE DEF ins, a, k, value, code
<1>5. PICK v2 : Fitted(code, c.arity, v2, Above(u, e)) /\ Extends(v, v2)
  <2>1. Takes(ins) < HeightOf(u) /\ e = u.extra + Net(ins)
    BY <1>4, FullFacts
  <2>2. QED
    BY <2>1, <1>1, <1>4, WriteOne DEF Above, code
<1>6. /\ c.code \in Seq(Instruction) /\ m \in Nat /\ Len(v.h) = m + 1
      /\ v.h[m + 1] = HeightOf(u) /\ m + 1 \in 1 .. Len(v.h)
  BY <1>1, FittedFacts
<1>7. /\ code \in Seq(Instruction) /\ Len(code) = m + 1 /\ code[m + 1] = ins
      /\ \A p \in 1 .. m : code[p] = c.code[p]
  BY <1>4, <1>6, AppendIs DEF code
<1>8. /\ n \in ChunkSet /\ n.code = code /\ n.constants = a.constants
      /\ n.upvalues = c.upvalues /\ n.arity = c.arity /\ n.scope = c.scope
      /\ n.hasSuperclass = c.hasSuperclass
  <2>1. /\ n \in ChunkSet /\ n.code = code /\ n.constants = a.constants
        /\ n.upvalues = a.upvalues /\ n.arity = a.arity /\ n.scope = a.scope
        /\ n.hasSuperclass = a.hasSuperclass
    BY <1>2, <1>3, <1>7 DEF ChunkSet
  <2>2. QED
    BY <2>1, <1>2 DEF Recoded, Rewritten
<1>9. Sound(a, v2, fs)
  <2>1. m <= Len(v.h)
    BY <1>6
  <2>2. QED
    BY <2>1, <1>1, <1>2, <1>5, SoundAdds
<1>10. ASSUME NEW p \in 1 .. m
       PROVE  \/ Harmless(n.code[p], Len(n.upvalues))
              \/ /\ n.code[p][1] = "CLOSURE"
                 /\ Len(n.constants) <= ByteSize => ClosureAt(n, p, v2, fs)
  <2>1. n.code[p] = a.code[p] /\ n.upvalues = a.upvalues /\ n.constants = a.constants
    BY <1>2, <1>7, <1>8
  <2>2. ClosureAt(a, p, v2, fs) => ClosureAt(n, p, v2, fs)
    BY <2>1, Zenon DEF ClosureAt
  <2>3. \/ Harmless(a.code[p], Len(a.upvalues))
        \/ a.code[p][1] = "CLOSURE" /\ (Len(a.constants) <= ByteSize => ClosureAt(a, p, v2, fs))
    BY <1>2, <1>9 DEF Sound
  <2>4. QED
    BY <2>1, <2>2, <2>3
<1>11. ASSUME Len(n.constants) <= ByteSize
       PROVE  ClosureAt(n, m + 1, v2, fs)
  <2>1. k + 1 \in 1 .. Len(a.constants) /\ a.constants[k + 1] = value
    BY <1>1, <1>8, <1>11, NamesConstant DEF a, k
  <2>2. n.code[m + 1][2] = k
    BY <1>4, <1>7, <1>8
  <2>3. value[1] = "function" /\ value[2] = i
    BY DEF value, Function
  <2>4. v2.h[m + 1] = HeightOf(u)
    BY <1>5, <1>6 DEF Extends
  <2>5. ASSUME NEW x \in ToSet(fs[i].upvalues)
        PROVE  x.index \in 0 .. (IF x.isLocal THEN v2.h[m + 1] ELSE Len(n.upvalues)) - 1
    <3>1. x.index \in 0 .. (IF x.isLocal THEN Top(c.scope) ELSE Len(c.upvalues)) - 1
      BY DEF Offers
    <3>2. Top(c.scope) \in Int /\ HeightOf(u) \in Int /\ Top(c.scope) <= HeightOf(u)
      BY TopFits
    <3>3. CASE x.isLocal
      <4>1. x.index \in 0 .. Top(c.scope) - 1
        BY <3>1, <3>3
      <4>2. \A l, h \in Int : l <= h => \A y \in 0 .. l - 1 : y \in 0 .. h - 1
        OBVIOUS
      <4>3. x.index \in 0 .. HeightOf(u) - 1
        BY <4>1, <4>2, <3>2
      <4>4. QED
        BY <4>3, <3>3, <2>4
    <3>4. CASE ~ x.isLocal
      BY <3>1, <3>4, <1>8
    <3>5. QED
      BY <3>3, <3>4
  <2>6. n.constants[n.code[m + 1][2] + 1] = value
    BY <2>1, <2>2, <1>8
  <2>7. n.code[m + 1][2] + 1 \in 1 .. Len(n.constants)
    BY <2>1, <2>2, <1>8
  <2>8. QED
    BY <2>3, <2>5, <2>6, <2>7, Zenon DEF ClosureAt
<1>12. Sound(n, v2, fs)
  <2>1. ASSUME NEW p \in 1 .. Len(n.code)
        PROVE  \/ Harmless(n.code[p], Len(n.upvalues))
               \/ /\ n.code[p][1] = "CLOSURE"
                  /\ Len(n.constants) <= ByteSize => ClosureAt(n, p, v2, fs)
    <3>1. p \in 1 .. m \/ p = m + 1
      BY <1>6, <1>7, <1>8
    <3>2. CASE p = m + 1
      BY <3>2, <1>4, <1>7, <1>8, <1>11
    <3>3. QED
      BY <3>1, <3>2, <1>10
  <2>2. QED
    BY <2>1 DEF Sound
<1>13. Fitted(n.code, n.arity, v2, Above(u, e))
  BY <1>5, <1>8
<1>14. QED
  BY <1>5, <1>8, <1>12, <1>13

(* The closure is pushed in the enclosing function.                        *)
LEMMA ClosurePushed ==
  ASSUME NEW c, NEW v, NEW t \in State, t.extra >= 1, Meets(c, v, Suspended(t)),
         NEW fs, Sound(c, v, fs), NEW i \in Nat \ {0}, i \in 1 .. Len(fs),
         \A x \in ToSet(fs[i].upvalues) : Offers(c, x),
         NEW n, n = EmitConstant(c, "CLOSURE", Function(i), <<>>)
  PROVE  /\ \E v2 : Meets(n, v2, t) /\ Extends(v, v2) /\ Sound(n, v2, fs)
         /\ n.upvalues = c.upvalues
<1> DEFINE r == Suspended(t)
<1>1. /\ r \in State /\ r.extra = t.extra - 1 /\ r.extra \in Nat /\ t.extra \in Nat
      /\ r.chunk = t.chunk /\ r.levels = t.levels /\ r.locals = t.locals
      /\ r.missing = t.missing /\ r.guard = t.guard /\ r.open = t.open
      /\ r.loops = t.loops /\ r.super = t.super /\ r.reads = t.reads
  <2> DEFINE less == t.extra - 1
  <2>1. less \in Nat /\ t.extra \in Nat
    BY DEF State
  <2>2. r = [t EXCEPT !.extra = less]
    BY DEF Suspended
  <2> HIDE DEF r, less
  <2>3. /\ r \in State /\ r.extra = less
        /\ r.chunk = t.chunk /\ r.levels = t.levels /\ r.locals = t.locals
        /\ r.missing = t.missing /\ r.guard = t.guard /\ r.open = t.open
        /\ r.loops = t.loops /\ r.super = t.super /\ r.reads = t.reads
    BY <2>1, <2>2 DEF State
  <2>4. QED
    BY <2>1, <2>3 DEF less
<1> HIDE DEF r
<1>2. Meets(c, v, r)
  BY DEF r
<1>3. PICK L \in Seq(Nat) :
        LET u == [r EXCEPT !.locals = L]
        IN  /\ Len(L) = r.levels /\ Initial(r.locals, L)
            /\ u \in State /\ Full(u) /\ Meets(c, v, u)
  BY <1>1, <1>2, KnowingAll
<1> DEFINE u == [r EXCEPT !.locals = L]
           e == t.extra
<1>4. u \in State /\ Full(u) /\ Meets(c, v, u)
  BY <1>3
<1>5. /\ u.extra = r.extra /\ u.chunk = r.chunk /\ u.levels = r.levels /\ u.locals = L
      /\ u.missing = r.missing /\ u.guard = r.guard /\ u.open = r.open
      /\ u.loops = r.loops /\ u.super = r.super /\ u.reads = r.reads
  BY <1>1 DEF State
<1> HIDE DEF u
<1>6. e \in Nat /\ e = u.extra + 1
  BY <1>1, <1>5
<1>7. /\ n \in ChunkSet /\ n.scope = c.scope /\ n.hasSuperclass = c.hasSuperclass
      /\ n.upvalues = c.upvalues
      /\ \E v2 : /\ Fitted(n.code, n.arity, v2, Above(u, e))
                 /\ Extends(v, v2) /\ Sound(n, v2, fs)
  <2> HIDE DEF e
  <2>1. QED
    BY <1>4, <1>6, ClosureWritten
<1>8. PICK v2 : /\ Fitted(n.code, n.arity, v2, Above(u, e))
                /\ Extends(v, v2) /\ Sound(n, v2, fs)
  BY <1>7
<1> DEFINE m == Above(u, e)
<1>9. m \in State /\ Stays(u, m) /\ m.extra = e /\ m.guard = u.guard /\ m.open = u.open
  <2>1. e \in Nat
    BY <1>1
  <2> HIDE DEF e
  <2>2. QED
    BY <2>1, <1>4, AboveFacts
<1> HIDE DEF m
<1>10. Meets(n, v2, m)
  <2>1. c \in ChunkSet
    BY <1>4 DEF Meets, GoodChunk
  <2>2. Len(c.upvalues) <= Len(n.upvalues)
    BY <2>1, <1>7, UpvaluesCount
  <2>3. Fitted(n.code, n.arity, v2, m)
    BY <1>8 DEF m
  <2> HIDE DEF e
  <2>4. QED
    BY <2>2, <2>3, <1>4, <1>7, <1>9, MeetsAgain
<1>11. Weaker(m, t)
  BY <1>1, <1>3, <1>5, <1>9 DEF Weaker, Becomes, Keeps, Context, Stays
<1>12. Meets(n, v2, t)
  BY <1>9, <1>10, <1>11, MeetsWeaker
<1>13. QED
  BY <1>7, <1>8, <1>12

LEMMA EndFunctionCompiles ==
  ASSUME Compiles, EndFunction, Functions(functions), status' = "compiling"
  PROVE  Compiles' /\ Functions(functions)'
<1> DEFINE K == Len(chunks)
           J == K - 1
           f == Finished(Completed(Current))
           i == Len(functions')
           n == EmitConstant(chunks[J], "CLOSURE", Function(i), <<>>)
           q == Tail(todo)
<1>1. Head(todo)[1] = "endFunction"
  BY DEF EndFunction, Doing
<1>2. PICK w, s : /\ s.chunk = K /\ Meets(Current, w[K], s) /\ Future(chunks, w, todo, s)
                 /\ AllSound(chunks, w, functions)
  BY DEF Compiles
<1>3. s \in State /\ todo # << <<"program">> >>
  <2>1. Head(<< <<"program">> >>)[1] = "program"
    OBVIOUS
  <2>2. QED
    BY <1>1, <1>2, <2>1, FutureHead
<1>4. PICK t : Leads(Head(todo), s, t, chunks, w) /\ Future(chunks, w, q, t)
  BY <1>2, <1>3, FutureHead
<1>5. t \in State
  BY <1>4, FutureHead
<1>6. /\ s.open = {} /\ t.chunk = s.chunk - 1 /\ t.extra >= 1
      /\ Meets(chunks[t.chunk], w[t.chunk], Suspended(t))
  <2>1. ~ Rule(Head(todo), s, t, w[s.chunk])
    BY <1>1 DEF Rule
  <2>2. EndsFunction(s, t, chunks, w)
    BY <2>1, <1>4 DEF Leads
  <2>3. QED
    BY <2>2 DEF EndsFunction
<1>7. /\ chunks \in Seq(ChunkSet) /\ K \in Nat /\ J \in Nat \ {0} /\ t.chunk = J /\ K = J + 1
      /\ \A k \in 1 .. K : GoodScope(chunks[k].scope)
  BY <1>2, <1>3, <1>5, <1>6 DEF Compiles, State
<1>24. Current = chunks[K] /\ \A k \in 1 .. K : Sound(chunks[k], w[k], functions)
  BY <1>2 DEF AllSound, Current, Last
<1>25. Linked(chunks)
  BY DEF Compiles
<1>8. f \in FunctionSet /\ LaidOut(f, functions) /\ f.upvalues = Current.upvalues
  <2>1. PICK L \in Seq(Nat) :
          LET u == [s EXCEPT !.locals = L]
          IN  u \in State /\ Full(u) /\ Meets(Current, w[K], u)
    BY <1>2, <1>3, KnowingAll
  <2> DEFINE u == [s EXCEPT !.locals = L]
             c == Completed(Current)
  <2>2. u.open = {} /\ u \in State /\ Full(u) /\ Meets(Current, w[K], u)
    BY <2>1, <1>3, <1>6 DEF State
  <2>3. c \in {Completed(Current), EmitReturnNil(Current)}
    OBVIOUS
  <2>6. Sound(Current, w[K], functions)
    BY <1>7, <1>24
  <2> HIDE DEF u, c, K
  <2>4. /\ Finished(c) \in FunctionSet /\ LaidOut(Finished(c), functions)
        /\ Finished(c).upvalues = Current.upvalues
    BY <2>2, <2>3, <2>6, CompletedFacts
  <2>5. QED
    BY <2>4 DEF c
<1>9. /\ functions' = Append(functions, f) /\ todo' = q
      /\ chunks' = [Front(chunks) EXCEPT ![Len(Front(chunks))] =
                      EmitConstant(Front(chunks)[Len(Front(chunks))], "CLOSURE", Function(i), <<>>)]
  <2>1. status' # "init returns"
    OBVIOUS
  <2>2. QED
    BY <2>1 DEF EndFunction, Fail
<1>10. /\ Front(chunks) \in Seq(ChunkSet) /\ Len(Front(chunks)) = J
       /\ \A k \in 1 .. J : Front(chunks)[k] = chunks[k]
  BY <1>7, SubSeqProperties DEF Front
<1> HIDE DEF f, q
<1>11. Functions(functions)'
  <2>1. Functions(Append(functions, f))
    BY <1>8, FunctionsGrow
  <2>2. QED
    BY <2>1, <1>9 DEF Functions
<1>12. i \in Nat \ {0} /\ i \in 1 .. Len(functions') /\ functions'[i].upvalues = Current.upvalues
  <2>1. functions \in Seq(FunctionSet)
    BY DEF Functions
  <2>2. Len(functions') = Len(functions) + 1 /\ functions'[Len(functions) + 1] = f
    BY <2>1, <1>8, <1>9, AppendProperties
  <2>3. QED
    BY <2>1, <2>2, <1>8
<1>26. ASSUME NEW k \in 1 .. K
       PROVE  Sound(chunks[k], w[k], functions')
  <2>1. functions \in Seq(FunctionSet) /\ Sound(chunks[k], w[k], functions)
    BY <1>24, <1>26 DEF Functions
  <2>2. QED
    BY <2>1, <1>8, <1>9, SoundMore
<1> HIDE DEF i
<1>13. chunks' = [Front(chunks) EXCEPT ![J] = n]
  <2>1. J \in 1 .. J
    BY <1>7
  <2>2. QED
    BY <2>1, <1>9, <1>10
<1> DEFINE fs == functions'
<1>27. /\ \E v : Meets(n, v, t) /\ Extends(w[J], v) /\ Sound(n, v, fs)
       /\ n.upvalues = chunks[J].upvalues
  <2>1. Meets(chunks[J], w[J], Suspended(t))
    BY <1>6, <1>7
  <2>3. J \in 1 .. K - 1 /\ J \in 1 .. K /\ J + 1 = K
    BY <1>7
  <2>4. \A x \in ToSet(fs[i].upvalues) : Offers(chunks[J], x)
    <3>1. \A x \in ToSet(chunks[J + 1].upvalues) : Offers(chunks[J], x)
      BY <2>3, <1>25 DEF Linked
    <3>2. QED
      BY <3>1, <2>3, <1>12, <1>24
  <2>5. Sound(chunks[J], w[J], fs)
    BY <2>3, <1>26
  <2>6. i \in 1 .. Len(fs)
    BY <1>12
  <2> HIDE DEF J, fs
  <2>2. QED
    BY <2>1, <2>4, <2>5, <2>6, <1>5, <1>6, <1>12, ClosurePushed
<1>14. PICK v : Meets(n, v, t) /\ Extends(w[J], v) /\ Sound(n, v, fs)
  BY <1>27
<1> HIDE DEF n, J, K
<1>15. n \in ChunkSet /\ GoodScope(n.scope)
  BY <1>14 DEF Meets, GoodChunk
<1>16. /\ chunks' \in Seq(ChunkSet) /\ Len(chunks') = J /\ chunks'[J] = n
       /\ \A k \in 1 .. J - 1 : chunks'[k] = chunks[k]
  <2>1. /\ chunks' \in Seq(ChunkSet) /\ Len(chunks') = J
        /\ \A k \in 1 .. J : chunks'[k] = IF k = J THEN n ELSE Front(chunks)[k]
    BY <1>7, <1>10, <1>13, <1>15, ExceptSeq
  <2>2. J \in 1 .. J /\ \A k \in 1 .. J - 1 : k \in 1 .. J /\ k # J
    BY <1>7
  <2>3. QED
    BY <2>1, <2>2, <1>10
<1> DEFINE w2 == [k \in 1 .. J |-> IF k = J THEN v ELSE w[k]]
           cs == chunks'
<1>17. w2[J] = v /\ \A k \in 1 .. J - 1 : w2[k] = w[k]
  BY <1>7
<1> HIDE DEF w2, cs, fs
<1>18. \A k \in 1 .. J - 1 :
         w2[k] = w[k] /\ \A r \in State : Meets(chunks[k], w[k], r) => Meets(cs[k], w2[k], r)
  BY <1>16, <1>17 DEF cs
<1>19. Future(cs, w2, q, t)
  <2>1. J \in Nat /\ t.chunk = J /\ Extends(w[J], w2[J])
    BY <1>7, <1>14, <1>17
  <2>2. QED
    BY <2>1, <1>4, <1>18, Transfer
<1>20. cs # <<>> /\ Last(cs) = n /\ cs \in Seq(ChunkSet) /\ Len(cs) = J
  BY <1>7, <1>16 DEF Last, cs
<1>21. \A k \in 1 .. J : GoodScope(cs[k].scope)
  <2>1. TAKE k \in 1 .. J
  <2>2. k = J \/ k \in 1 .. J - 1
    BY <1>7
  <2>3. k \in 1 .. K
    BY <1>7
  <2>4. QED
    BY <2>2, <2>3, <1>7, <1>15, <1>16 DEF cs
<1>28. Linked(cs)
  <2>1. ASSUME NEW k \in 1 .. Len(cs) - 1, NEW x \in ToSet(cs[k + 1].upvalues)
        PROVE  Offers(cs[k], x)
    <3>1. k \in 1 .. J - 1 /\ k \in 1 .. K - 1 /\ k + 1 \in 1 .. J
      BY <1>7, <1>20
    <3>2. cs[k] = chunks[k]
      BY <3>1, <1>16 DEF cs
    <3>3. cs[k + 1].upvalues = chunks[k + 1].upvalues
      <4>1. CASE k + 1 = J
        BY <4>1, <1>16, <1>27 DEF cs
      <4>2. CASE k + 1 # J
        <5>1. k + 1 \in 1 .. J - 1
          BY <4>2, <3>1, <1>7
        <5>2. QED
          BY <5>1, <1>16 DEF cs
      <4>3. QED
        BY <4>1, <4>2
    <3>4. k \in 1 .. Len(chunks) - 1
      BY <3>1 DEF K
    <3>5. x \in ToSet(chunks[k + 1].upvalues)
      BY <2>1, <3>3
    <3>6. QED
      BY <3>2, <3>4, <3>5, <1>25 DEF Linked
  <2>2. QED
    BY <2>1 DEF Linked
<1>29. AllSound(cs, w2, fs)
  <2>1. ASSUME NEW k \in 1 .. Len(cs)
        PROVE  Sound(cs[k], w2[k], fs)
    <3>1. k = J \/ (k \in 1 .. J - 1 /\ k \in 1 .. K)
      BY <1>7, <1>20
    <3>2. CASE k = J
      BY <3>2, <1>14, <1>16, <1>17 DEF cs
    <3>3. CASE k \in 1 .. J - 1 /\ k \in 1 .. K
      <4>1. cs[k] = chunks[k] /\ w2[k] = w[k]
        BY <3>3, <1>16, <1>17 DEF cs
      <4>2. Sound(chunks[k], w[k], fs)
        BY <3>3, <1>26 DEF fs
      <4>3. QED
        BY <4>1, <4>2
    <3>4. QED
      BY <3>1, <3>2, <3>3
  <2>2. QED
    BY <2>1 DEF AllSound
<1>22. \E x, r : /\ r.chunk = Len(cs) /\ Meets(Last(cs), x[Len(cs)], r) /\ Future(cs, x, q, r)
                 /\ AllSound(cs, x, fs)
  <2>1. t.chunk = Len(cs) /\ Meets(Last(cs), w2[Len(cs)], t)
    BY <1>7, <1>14, <1>17, <1>20
  <2>2. QED
    BY <2>1, <1>19, <1>29
<1>23. QED
  BY <1>9, <1>11, <1>20, <1>21, <1>22, <1>28 DEF Compiles, Current, cs, fs

LEMMA AtTheProgram ==
  ASSUME Compiles, Head(todo)[1] = "program"
  PROVE  /\ todo = << <<"program">> >>
         /\ \E w : \E s \in State : /\ s.chunk = Len(chunks) /\ AtProgram(s)
                                    /\ Meets(Current, w[Len(chunks)], s)
                                    /\ AllSound(chunks, w, functions)
<1>1. PICK w, s : /\ s.chunk = Len(chunks)
                  /\ Meets(Current, w[Len(chunks)], s)
                  /\ Future(chunks, w, todo, s)
                 /\ AllSound(chunks, w, functions)
  BY DEF Compiles
<1>2. \A t : ~ Leads(Head(todo), s, t, chunks, w)
  <2>1. TAKE t
  <2>2. ~ Rule(Head(todo), s, t, w[s.chunk])
    BY DEF Rule
  <2>3. Head(todo) # EndOfFunction
    BY DEF EndOfFunction
  <2>4. QED
    BY <2>2, <2>3 DEF Leads
<1>3. s \in State /\ todo = << <<"program">> >> /\ AtProgram(s)
  BY <1>1, <1>2, FutureHead
<1>4. QED
  BY <1>1, <1>3

LEMMA ProgramCompiles ==
  ASSUME Compiles, Program, Functions(functions)
  PROVE  (status' = "compiling" => Compiles') /\ Functions(functions)'
<1>1. Head(todo)[1] = "program"
  BY DEF Program, Doing
<1>2. PICK w : \E s \in State : /\ s.chunk = Len(chunks) /\ AtProgram(s)
                                /\ Meets(Current, w[Len(chunks)], s)
                                /\ AllSound(chunks, w, functions)
  BY <1>1, AtTheProgram
<1>3. PICK s \in State : /\ s.chunk = Len(chunks) /\ AtProgram(s)
                         /\ Meets(Current, w[Len(chunks)], s)
                         /\ AllSound(chunks, w, functions)
  BY <1>2
<1>4. todo = << <<"program">> >>
  BY <1>1, AtTheProgram
<1>5. CASE Continue(chunks, <<Declaration(0), Head(todo)>>)
  <2> DEFINE x == Declaration(0)
             y == <<"program">>
             m == [s EXCEPT !.locals = <<>>]
  <2>1. /\ m \in State /\ m.locals = <<>> /\ m.chunk = s.chunk /\ m.levels = s.levels
        /\ m.missing = s.missing /\ m.extra = s.extra /\ m.guard = s.guard
        /\ m.open = s.open /\ m.loops = s.loops /\ m.super = s.super
        /\ m.reads = s.reads
    <3>1. <<>> \in Seq(Nat)
      OBVIOUS
    <3>2. QED
      BY <3>1 DEF State
  <2>2. x[1] = "declaration" /\ x[2] = 0
    BY DEF Declaration
  <2> HIDE DEF m, x, y
  <2>3. s.levels = 1 /\ s.missing = 0 /\ s.guard = 0 /\ s.extra = 0 /\ s.open = {}
    BY <1>3 DEF AtProgram, Calm
  <2>4. AtProgram(m)
    BY <2>1, <2>3 DEF AtProgram, Calm
  <2>5. Future(chunks, w, <<y>>, m)
    BY <2>1, <2>4, FutureProgram DEF y
  <2>6. Declares(0, s, m)
    <3>1. Len(m.locals) = 0 /\ \A l \in 1 .. 0 : FALSE
      BY <2>1
    <3>2. Initial(m.locals, s.locals)
      BY <3>1, <1>3 DEF Initial, State
    <3>3. s.loops \subseteq s.loops /\ s.reads \subseteq s.reads
      OBVIOUS
    <3>4. Becomes(s, m, 0, s.open)
      BY <2>1, <2>3, <3>2, <3>3 DEF Becomes, Keeps, Context
    <3>5. QED
      BY <2>3, <3>1, <3>4 DEF Declares, AtDepth, Calm
  <2>7. Leads(x, s, m, chunks, w)
    <3>1. x # EndOfFunction
      BY <2>2 DEF EndOfFunction
    <3>2. Rule(x, s, m, w[s.chunk])
      BY <2>2, <2>6, RuleOf
    <3>3. QED
      BY <3>1, <3>2, Zenon DEF Leads
  <2>8. Future(chunks, w, <<x>> \o <<y>>, s)
    BY <2>5, <2>7, FuturePush
  <2>9. todo' = <<x, y>> /\ chunks' = chunks
    <3>1. Head(todo) = y /\ Tail(todo) = <<>>
      BY <1>4 DEF y
    <3>2. todo' = <<x, y>> \o <<>>
      BY <1>5, <3>1 DEF Continue, x
    <3>3. <<x, y>> \in Seq({x, y})
      OBVIOUS
    <3>4. QED
      BY <1>5, <3>2, <3>3, ConcatEmptySeq DEF Continue
  <2>10. Future(chunks, w, <<x, y>>, s)
    BY <2>8, Pair
  <2>12. functions' = functions
    BY <1>5 DEF Continue
  <2>11. Compiles'
    BY <1>3, <2>9, <2>10, <2>12 DEF Compiles, Current
  <2>13. QED
    BY <2>11, <2>12 DEF Functions
<1>6. CASE /\ functions' = Append(functions, Finished(EmitReturnNil(Current)))
           /\ status' = "compiled"
  <2> DEFINE n == EmitReturnNil(Current)
             v == w[Len(chunks)]
  <2>1. PICK L \in Seq(Nat) :
          LET u == [s EXCEPT !.locals = L]
          IN  u \in State /\ Full(u) /\ Meets(Current, v, u)
    BY <1>3, KnowingAll
  <2> DEFINE u == [s EXCEPT !.locals = L]
  <2>2. u.open = {} /\ u \in State /\ Full(u) /\ Meets(Current, v, u)
    BY <2>1, <1>3 DEF State, AtProgram
  <2>3. n \in {Completed(Current), EmitReturnNil(Current)}
    OBVIOUS
  <2>7. Sound(Current, v, functions)
    <3>1. chunks \in Seq(ChunkSet) /\ chunks # <<>>
      BY DEF Compiles
    <3>2. Len(chunks) \in 1 .. Len(chunks)
      BY <3>1, EmptySeq
    <3>3. QED
      BY <3>2, <1>3 DEF AllSound, Current, Last
  <2> HIDE DEF u, n, v
  <2>4. Finished(n) \in FunctionSet /\ LaidOut(Finished(n), functions)
    BY <2>2, <2>3, <2>7, CompletedFacts
  <2>5. Functions(Append(functions, Finished(n)))
    BY <2>4, FunctionsGrow
  <2>6. QED
    BY <1>6, <2>5 DEF Functions, n
<1>7. QED
  BY <1>5, <1>6 DEF Program

-----------------------------------------------------------------------------
(* Classes.                                                                *)

(* The class is on the stack, and its methods may be read.                 *)
LEMMA LeadClass ==
  ASSUME NEW m \in State, Full(m), Calm(m, 0), NEW d \in Nat,
         m.levels = d + 1 \/ (m.levels = d + 2 /\ m.super),
         NEW t \in State, Context(m, t), t.levels = d + 1, Calm(t, 0), t.open = m.open,
         Initial(t.locals, m.locals), Len(t.locals) <= d,
         NEW klass \in Names, NEW v
  PROVE  Leading(<<ThenRead(klass), <<"class", d>> >>, m, t, v)
<1> DEFINE x == ThenRead(klass)
           y == <<"class", d>>
           n == Above(m, 1)
<1>1. m.extra = 0 /\ m.missing = 0 /\ m.guard = 0 /\ Above(m, 0) = m
  BY AboveSelf DEF Calm
<1>2. /\ n \in State /\ Stays(m, n) /\ n.extra = 1 /\ n.guard = m.guard /\ n.open = m.open
      /\ Becomes(m, n, 0 + 1, m.open)
  BY AboveFacts
<1>3. Leading(<<x>>, m, n, v)
  BY <1>1, <1>2, LeadRead
<1>4. y[1] = "class" /\ y[2] = d /\ y[1] # "endFunction"
  OBVIOUS
<1> HIDE DEF x, y, n
<1>5. Encloses(d, n, t)
  BY <1>1, <1>2 DEF Encloses, Stays, Context, Calm
<1>6. Leading(<<y>>, n, t, v)
  BY <1>2, <1>4, <1>5, Entries, RuleOf
<1>7. Leading(<<x, y>>, m, t, v)
  BY <1>3, <1>6, LeadTwo
<1>8. QED
  BY <1>7 DEF x, y

(* With the superclass a scope begins that holds it.                       *)
WithSuper(m) ==
  [m EXCEPT !.levels = m.levels + 1, !.super = TRUE,
            !.locals = Append(m.locals, m.locals[m.levels] + 1)]

LEMMA WithSuperFacts ==
  ASSUME NEW m \in State, Full(m), Calm(m, 0), NEW n, n = WithSuper(m)
  PROVE  /\ n \in State /\ Full(n) /\ Calm(n, 0) /\ n.levels = m.levels + 1 /\ n.super
         /\ n.chunk = m.chunk /\ n.open = m.open /\ n.loops = m.loops /\ n.reads = m.reads
         /\ n.locals = Append(m.locals, m.locals[m.levels] + 1)
         /\ Initial(m.locals, n.locals) /\ Len(n.locals) = m.levels + 1
         /\ Base(n) = Base(m) + 1 /\ Base(m) \in Nat \ {0}
<1> DEFINE size == m.locals[m.levels] + 1
           levels == m.levels + 1
           L == Append(m.locals, size)
<1>1. /\ m.levels \in Nat \ {0} /\ m.locals \in Seq(Nat) /\ Len(m.locals) = m.levels
      /\ m.locals[m.levels] \in Nat /\ Base(m) \in Nat \ {0}
  BY FullFacts
<1>2. size \in Nat /\ levels \in Nat \ {0}
  BY <1>1
<1>3. L \in Seq(Nat) /\ Len(L) = levels /\ L[levels] = size /\ Initial(m.locals, L)
  <2> HIDE DEF size
  <2>1. QED
    BY <1>1, <1>2, AppendNat
<1>4. n = [m EXCEPT !.levels = levels, !.super = TRUE, !.locals = L]
  BY DEF WithSuper
<1> HIDE DEF L, levels
<1>5. /\ n \in State /\ n.levels = levels /\ n.super = TRUE /\ n.locals = L
      /\ n.chunk = m.chunk /\ n.missing = m.missing /\ n.extra = m.extra
      /\ n.guard = m.guard /\ n.open = m.open /\ n.loops = m.loops /\ n.reads = m.reads
  BY <1>2, <1>3, <1>4 DEF State
<1>6. Full(n) /\ Calm(n, 0)
  BY <1>2, <1>3, <1>5 DEF Full, Calm
<1>7. Base(n) = Base(m) + 1
  BY <1>1, <1>3, <1>5 DEF Base
<1>8. QED
  BY <1>1, <1>3, <1>5, <1>6, <1>7 DEF L, levels

LEMMA FourSteps ==
  ASSUME NEW x, NEW y, NEW z, NEW u, NEW a, NEW b, NEW c, NEW d, NEW e, NEW v,
         Leading(<<x>>, a, b, v), Leading(<<y>>, b, c, v),
         Leading(<<z>>, c, d, v), Leading(<<u>>, d, e, v)
  PROVE  Leading(<<x, y, z, u>>, a, e, v)
<1>1. Leading(<<x, y>>, a, c, v) /\ Leading(<<z, u>>, c, e, v)
  BY LeadTwo
<1>2. Leading(<<x, y>> \o <<z, u>>, a, e, v)
  BY <1>1, LeadJoin
<1>3. QED
  BY <1>2, Quadruple

LEMMA LeadInherits ==
  ASSUME NEW m \in State, Full(m), Calm(m, 0), NEW d, AtDepth(d, m),
         NEW klass \in Names, NEW parent \in Names, NEW n, n = WithSuper(m), NEW v
  PROVE  Leading(Inherits(klass, parent, d), m, n, v)
<1> DEFINE x == ThenRead(parent)
           y == <<"superclass", klass, parent, d>>
           z == ThenRead(klass)
           i == <<"INHERIT">>
           u == ThenEmit(<<i>>)
           a == Above(m, 1)
           b == Above(n, 1)
<1>1. m.extra = 0 /\ m.missing = 0 /\ m.guard = 0 /\ Above(m, 0) = m
  BY AboveSelf DEF Calm
<1>2. /\ a \in State /\ Stays(m, a) /\ a.extra = 1 /\ a.guard = m.guard /\ a.open = m.open
      /\ Becomes(m, a, 0 + 1, m.open) /\ Full(a)
  BY AboveFacts
<1>3. Leading(<<x>>, m, a, v)
  BY <1>1, <1>2, LeadRead
<1>4. y[1] = "superclass" /\ y[4] = d /\ y[1] # "endFunction"
  OBVIOUS
<1> HIDE DEF x, y, z, u, a
<1>5. /\ n \in State /\ Full(n) /\ Calm(n, 0) /\ n.levels = m.levels + 1 /\ n.super
      /\ n.chunk = m.chunk /\ n.open = m.open /\ n.loops = m.loops /\ n.reads = m.reads
      /\ n.locals = Append(m.locals, m.locals[m.levels] + 1)
      /\ Len(n.locals) = m.levels + 1
      /\ Base(n) = Base(m) + 1 /\ Base(m) \in Nat \ {0}
  BY WithSuperFacts
<1>6. Subclasses(d, a, n)
  <2>1. Initial(n.locals, n.locals)
    BY <1>5 DEF Initial, State
  <2>2. a.locals = m.locals /\ a.levels = m.levels
    BY <1>2 DEF Stays
  <2>3. QED
    BY <2>1, <2>2, <1>1, <1>2, <1>5 DEF Subclasses, Stays, AtDepth, Calm
<1>7. Leading(<<y>>, a, n, v)
  BY <1>2, <1>4, <1>6, Entries, RuleOf
<1>8. n.extra = 0 /\ n.missing = 0 /\ n.guard = 0 /\ Above(n, 0) = n
  BY <1>5, AboveSelf DEF Calm
<1>9. b \in State /\ Becomes(n, b, 0 + 1, n.open)
  <2> DEFINE one == 0 + 1
  <2>1. b = Above(n, one) /\ one \in Nat
    OBVIOUS
  <2> HIDE DEF b, one
  <2>2. b \in State /\ Becomes(n, b, one, n.open)
    BY <2>1, <1>5, AboveShape
  <2>3. QED
    BY <2>2 DEF one
<1> HIDE DEF b
<1>10. Leading(<<z>>, n, b, v)
  BY <1>5, <1>8, <1>9, LeadRead DEF z
<1>11. Leading(<<u>>, b, n, v)
  <2> DEFINE one == 1
  <2>1. Shape(i, 2, -1)
    BY Shapes
  <2> HIDE DEF i
  <2>2. i \in Instruction /\ ~ Jumps(i) /\ ~ Slotted(i) /\ Takes(i) = 2 /\ Net(i) = -1
    BY <2>1 DEF Shape
  <2>7. i[1] # "CLOSURE" /\ i[1] \notin Reads
    BY <2>1 DEF Shape, Special
  <2>3. Takes(i) < Base(n) - n.missing + one /\ one \in Nat
    BY <2>2, <1>5, <1>8
  <2>4. Becomes(n, n, one + Net(i), n.open)
    BY <2>2, <1>5, <1>8, BecomesItself
  <2>5. b = Above(n, one)
    BY DEF b
  <2> HIDE DEF one
  <2>6. QED
    BY <2>2, <2>3, <2>4, <2>5, <2>7, <1>5, LeadEmit DEF u
<1>12. Leading(<<x, y, z, u>>, m, n, v)
  BY <1>3, <1>7, <1>10, <1>11, FourSteps
<1>13. QED
  BY <1>12 DEF x, y, z, u, i, Inherits

(* The class is made and given its name.                                   *)
LEMMA ClassDeclaredFacts ==
  ASSUME NEW c, NEW v, NEW s \in State, Full(s), Meets(c, v, s),
         NEW d, AtDepth(d, s), Calm(s, 0), NEW klass \in Names, klass # "super",
         Text(klass) \in Constant,
         NEW n, n = Define(EmitConstant(Declared(c, klass, d), "CLASS", Text(klass), <<>>),
                           klass, d)
  PROVE  /\ \E m \in State : \E v2 :
              /\ Meets(n, v2, m) /\ Extends(v, v2)
              /\ Full(m) /\ AtDepth(d, m) /\ Calm(m, 0)
              /\ m.chunk = s.chunk /\ m.open = s.open /\ m.loops = s.loops
              /\ m.super = s.super /\ m.reads = s.reads
              /\ \A l \in 1 .. d : m.locals[l] = s.locals[l]
         /\ n.upvalues = c.upvalues /\ Adds(c, n)
<1> DEFINE c1 == Declared(c, klass, d)
           op == "CLASS"
           value == Text(klass)
           operands == <<>>
           c2 == EmitConstant(c1, op, value, operands)
           e == 1
<1>1. c1 = Declared(c, klass, d) /\ c2 = EmitConstant(c1, op, value, operands)
  OBVIOUS
<1>2. n = Define(c2, klass, d)
  OBVIOUS
<1>3. e \in Nat /\ value \in Constant /\ e = 0 + 1
  OBVIOUS
<1>4. ConstantShape(op, operands, 0, 1)
  BY ConstantShapes
<1> HIDE DEF c1, op, value, operands, c2, e
<1>5. PICK u : Awaits(d, s, u) /\ Meets(c1, v, u)
  BY <1>1, DeclaredFacts
<1>6. /\ u \in State /\ Full(u) /\ u.levels = s.levels /\ u.chunk = s.chunk
      /\ u.open = s.open /\ u.loops = s.loops /\ u.super = s.super /\ u.reads = s.reads
      /\ u.guard = 0 /\ u.extra = 0 /\ u.missing = (IF d = 0 THEN 0 ELSE 1)
      /\ \A l \in 1 .. d : u.locals[l] = s.locals[l]
  BY <1>5 DEF Awaits
<1>7. c1 \in ChunkSet /\ Fitted(c1.code, c1.arity, v, u) /\ Recoded(c1, c1)
       /\ c1.upvalues = c.upvalues /\ Adds(c, c1) /\ c \in ChunkSet
  <2>1. c1 \in ChunkSet /\ Fitted(c1.code, c1.arity, v, u)
    BY <1>5, <1>6, MeetsFits
  <2>2. c1.upvalues = c.upvalues /\ Adds(c, c1)
    BY <1>1, DeclaredFacts
  <2>3. c \in ChunkSet
    BY DEF Meets, GoodChunk
  <2>4. QED
    BY <2>1, <2>2, <2>3, RecodedSelf
<1>8. c2 \in ChunkSet /\ Recoded(c1, c2) /\ Written(c2, v, Above(u, e))
  <2> DEFINE zero == 0
             one == 1
  <2>1. ConstantShape(op, operands, zero, one) /\ zero \in Nat /\ one \in Int
        /\ zero <= u.extra /\ e = u.extra + one
    BY <1>3, <1>4, <1>6
  <2> HIDE DEF zero, one
  <2>2. c1 \in ChunkSet /\ Fitted(c1.code, c1.arity, v, u) /\ Recoded(c1, c1)
    BY <1>7
  <2>3. u \in State /\ Full(u)
    BY <1>6
  <2>4. QED
    BY <2>1, <2>2, <2>3, <1>1, <1>3, ConstantWritten
<1> DEFINE a == Above(u, e)
<1>9. PICK v2 : Fitted(c2.code, c2.arity, v2, a) /\ Extends(v, v2)
  BY <1>8 DEF Written
<1>10. /\ a \in State /\ Stays(u, a) /\ Full(a) /\ a.extra = e /\ a.guard = u.guard
       /\ a.open = u.open
  BY <1>3, <1>6, AboveShape
<1> HIDE DEF a
<1>11. Meets(c2, v2, a)
  BY <1>5, <1>6, <1>8, <1>9, <1>10, MeetsRecoded
<1> DEFINE m == [a EXCEPT !.missing = 0, !.extra = 0]
<1>12. /\ m \in State /\ m.missing = 0 /\ m.extra = 0 /\ m.chunk = a.chunk
       /\ m.levels = a.levels /\ m.locals = a.locals /\ m.guard = a.guard
       /\ m.open = a.open /\ m.loops = a.loops /\ m.super = a.super
       /\ m.reads = a.reads
  BY <1>10 DEF State
<1> HIDE DEF m
<1>13. Full(m) /\ Calm(m, 0) /\ AtDepth(d, m)
  <2>1. a.locals[a.levels] \in Nat /\ Len(a.locals) = a.levels
    BY <1>10, FullFacts
  <2>2. QED
    BY <2>1, <1>6, <1>10, <1>12 DEF Full, Calm, AtDepth, Stays
<1>14. /\ \E v3 : Meets(n, v3, m) /\ Extends(v2, v3)
       /\ n.upvalues = c2.upvalues /\ Adds(c2, n)
  <2>1. AtDepth(d, a) /\ a.guard = 0 /\ a.extra = 1 /\ a.missing = (IF d = 0 THEN 0 ELSE 1)
    BY <1>3, <1>6, <1>10 DEF Stays, AtDepth
  <2>2. Context(a, m) /\ Initial(m.locals, a.locals)
    <3>1. Initial(a.locals, a.locals)
      BY <1>10 DEF Initial, State
    <3>2. QED
      BY <3>1, <1>12 DEF Context
  <2>3. QED
    BY <2>1, <2>2, <1>2, <1>10, <1>11, <1>12, <1>13, DefineFacts
<1>15. /\ m.chunk = s.chunk /\ m.open = s.open /\ m.loops = s.loops /\ m.super = s.super
       /\ m.reads = s.reads
       /\ \A l \in 1 .. d : m.locals[l] = s.locals[l]
  BY <1>6, <1>10, <1>12 DEF Stays
<1>16. n.upvalues = c.upvalues /\ Adds(c, n)
  <2>1. c2.upvalues = c1.upvalues /\ Adds(c1, c2)
    BY <1>8 DEF Recoded, Rewritten
  <2>2. n \in ChunkSet
    BY <1>14 DEF Meets, GoodChunk
  <2>3. Adds(c, c2)
    BY <2>1, <1>7, <1>8, AddsTrans
  <2>4. Adds(c, n)
    BY <2>2, <2>3, <1>7, <1>8, <1>14, AddsTrans
  <2>5. QED
    BY <2>1, <2>4, <1>7, <1>14
<1>17. QED
  BY <1>9, <1>12, <1>13, <1>14, <1>15, <1>16, ExtendsTrans

LEMMA ClassDeclarationCompiles ==
  ASSUME Compiles, ClassDeclaration, grammar \in Grammars, status' = "compiling"
  PROVE  Compiles'
<1>1. Head(todo)[1] = "declaration"
  BY DEF ClassDeclaration, Doing
<1>2. PICK w, s, t : Standing(w, s, t)
  BY <1>1, HeadStands
<1> DEFINE v == w[Len(chunks)]
           d == Arg(1)
<1>3. PICK klass \in Name : \E heading :
        /\ heading = <<>> \/ \E parent \in Name : heading = Inherits(klass, parent, d)
        /\ Continue(ClassDeclared(klass, d), heading \o <<ThenRead(klass), <<"class", d>> >>)
  BY DEF ClassDeclaration, Fail
<1>4. PICK heading :
        /\ heading = <<>> \/ \E parent \in Name : heading = Inherits(klass, parent, d)
        /\ Continue(ClassDeclared(klass, d), heading \o <<ThenRead(klass), <<"class", d>> >>)
  BY <1>3
<1>5. /\ s \in State /\ t \in State /\ Full(s) /\ AtDepth(d, s) /\ Calm(s, 0)
      /\ Becomes(s, t, 0, s.open) /\ Len(t.locals) < s.levels
      /\ Meets(Current, v, s) /\ klass \in Names /\ klass # "super"
      /\ Name \subseteq Names /\ Text(klass) \in Constant
      /\ \A c \in ChunkSet : c.upvalues = Current.upvalues => Succeeds(With(c), c)
  <2>1. Rule(Head(todo), s, t, v)
    BY <1>2, StandingFacts
  <2>2. Declares(d, s, t)
    BY <1>1, <2>1, RuleOf DEF Arg
  <2>3. QED
    BY <1>2, <1>3, <2>2, StandingFacts, GrammarFacts DEF Declares
<1> DEFINE n == Define(EmitConstant(Declared(Current, klass, d), "CLASS", Text(klass), <<>>),
                       klass, d)
           last == <<ThenRead(klass), <<"class", d>> >>
<1>6. Continue(With(n), heading \o last)
  BY <1>4 DEF ClassDeclared
<1>7. v = w[Len(chunks)] /\ n = Define(EmitConstant(Declared(Current, klass, d), "CLASS", Text(klass), <<>>), klass, d)
  OBVIOUS
<1> HIDE DEF v, d, n
<1>8. PICK v2, m :
           /\ m \in State
           /\ Meets(n, v2, m) /\ Extends(v, v2)
           /\ Full(m) /\ AtDepth(d, m) /\ Calm(m, 0)
           /\ m.chunk = s.chunk /\ m.open = s.open /\ m.loops = s.loops
           /\ m.super = s.super /\ m.reads = s.reads
           /\ \A l \in 1 .. d : m.locals[l] = s.locals[l]
  BY <1>5, <1>7, ClassDeclaredFacts
<1>13. Adds(Current, n) /\ Succeeds(With(n), n)
  <2>1. n.upvalues = Current.upvalues /\ Adds(Current, n)
    BY <1>5, <1>7, ClassDeclaredFacts
  <2>2. n \in ChunkSet
    BY <1>8 DEF Meets, GoodChunk
  <2>3. QED
    BY <2>1, <2>2, <1>5
<1>9. /\ d \in Nat /\ m.levels = d + 1 /\ t.levels = d + 1 /\ Calm(t, 0) /\ t.open = m.open
      /\ Context(m, t) /\ Len(t.locals) \in Nat /\ Len(t.locals) <= d
      /\ Initial(t.locals, m.locals)
  <2>1. /\ d \in Nat /\ s.levels = d + 1 /\ m.levels = d + 1 /\ Len(m.locals) = d + 1
        /\ Len(t.locals) \in Nat
    <3>1. d \in Nat /\ s.levels = d + 1 /\ m.levels = d + 1
      BY <1>5, <1>8 DEF AtDepth
    <3>2. Len(m.locals) = m.levels
      BY <1>8 DEF Full
    <3>3. t.locals \in Seq(Nat)
      BY <1>5 DEF State
    <3>4. QED
      BY <3>1, <3>2, <3>3
  <2>2. /\ t.levels = s.levels /\ t.open = s.open /\ Calm(t, 0) /\ Context(m, t)
        /\ Initial(t.locals, s.locals)
    BY <1>5, <1>8 DEF Becomes, Keeps, Context, Calm
  <2>3. Len(t.locals) <= d
    BY <2>1, <1>5
  <2>4. \A l \in 1 .. Len(t.locals) : t.locals[l] = m.locals[l]
    BY <2>1, <2>2, <2>3, <1>8 DEF Initial
  <2>5. QED
    BY <2>1, <2>2, <2>3, <2>4, <1>8 DEF Initial
<1>10. CASE heading = <<>>
  <2>1. Leading(last, m, t, v2)
    BY <1>5, <1>8, <1>9, LeadClass
  <2>2. heading \o last = last
    <3>1. IsSequence(last)
      BY <2>1 DEF Leading, IsSequence
    <3> HIDE DEF last
    <3>2. QED
      BY <3>1, <1>10, ConcatEmptySeq DEF IsSequence
  <2>3. Leading(heading \o last, m, t, v2)
    BY <2>1, <2>2
  <2> DEFINE items == heading \o last
  <2> HIDE DEF items
  <2>4. n \in ChunkSet /\ Leading(items, m, t, v2) /\ Continue(With(n), items)
    BY <2>3, <1>6, <1>8 DEF Meets, GoodChunk, items
  <2>5. QED
    BY <2>4, <1>2, <1>5, <1>7, <1>8, <1>13, Continued
<1>11. CASE \E parent \in Name : heading = Inherits(klass, parent, d)
  <2>1. PICK parent \in Name : heading = Inherits(klass, parent, d)
    BY <1>11
  <2> DEFINE r == WithSuper(m)
  <2>2. r = WithSuper(m)
    OBVIOUS
  <2> HIDE DEF r
  <2>3. Leading(heading, m, r, v2)
    BY <2>1, <2>2, <1>5, <1>8, LeadInherits
  <2>4. /\ r \in State /\ Full(r) /\ Calm(r, 0) /\ r.levels = m.levels + 1 /\ r.super
        /\ r.chunk = m.chunk /\ r.open = m.open /\ r.loops = m.loops /\ r.reads = m.reads
        /\ Initial(m.locals, r.locals)
    BY <2>2, <1>8, WithSuperFacts
  <2>5. Initial(t.locals, r.locals)
    BY <2>4, <1>5, <1>8, <1>9, InitialTrans DEF State
  <2>6. Context(r, t) /\ t.open = r.open /\ r.levels = d + 2
    BY <2>4, <1>9 DEF Context
  <2>7. Leading(last, r, t, v2)
    BY <2>4, <2>5, <2>6, <1>5, <1>9, LeadClass
  <2> HIDE DEF last
  <2>8. Leading(heading \o last, m, t, v2)
    BY <2>3, <2>7, LeadJoin
  <2> DEFINE items == heading \o last
  <2> HIDE DEF items
  <2>9. n \in ChunkSet /\ Leading(items, m, t, v2) /\ Continue(With(n), items)
    BY <2>8, <1>6, <1>8 DEF Meets, GoodChunk, items
  <2>10. QED
    BY <2>9, <1>2, <1>5, <1>7, <1>8, <1>13, Continued
<1>12. QED
  BY <1>4, <1>10, <1>11

LEMMA PlacedFewerLoops ==
  ASSUME NEW code, NEW arity, NEW v, NEW height, NEW guard, NEW open, NEW loops,
         Placed(code, arity, v, height, guard, open, loops), NEW fewer, fewer \subseteq loops
  PROVE  Placed(code, arity, v, height, guard, open, fewer)
  BY DEF Placed

(* The superclass becomes a local of a scope of its own.                   *)
Inheriting(c, name, d) ==
  [DeclareAndDefine([c EXCEPT !.scope = PushScope(@, d + 1)], name, d + 1)
     EXCEPT !.hasSuperclass = TRUE]

LEMMA SuperclassFacts ==
  ASSUME NEW c, NEW v, NEW s \in State, Full(s), Meets(c, v, s), NEW d,
         NEW t \in State, Subclasses(d, s, t), NEW name, name = "super",
         NEW n, n = Inheriting(c, name, d)
  PROVE  Meets(n, v, t) /\ n.upvalues = c.upvalues /\ Adds(c, n)
<1> DEFINE m == d + 1
           k == d + 2
           pushed == PushScope(c.scope, m)
           scope == Initialize(Declare(pushed, name, m), name, m)
           levels == s.levels
<1>1. /\ d \in Nat /\ levels = d + 1 /\ s.missing = 0 /\ s.guard = 0 /\ s.extra = 1
      /\ t.chunk = s.chunk /\ t.loops \subseteq s.loops /\ t.levels = levels + 1
      /\ t.missing = 0 /\ t.guard = 0 /\ t.extra = 0 /\ t.open = s.open
      /\ Initial(t.locals, Append(s.locals, s.locals[levels] + 1))
      /\ t.reads \subseteq s.reads
  BY DEF Subclasses, AtDepth, Calm
<1>2. /\ c \in ChunkSet /\ GoodScope(c.scope) /\ c.scope \in Levels /\ Len(c.scope) = levels
      /\ \A l \in 1 .. Len(s.locals) : s.locals[l] = Size(c.scope, l)
      /\ Fitted(c.code, c.arity, v, s)
      /\ s.reads \subseteq 0 .. Len(c.upvalues) - 1
  BY MeetsFits DEF Meets, GoodChunk, GoodScope
<1>3. /\ levels \in Nat \ {0} /\ s.locals \in Seq(Nat) /\ Len(s.locals) = levels
      /\ s.locals[levels] \in Nat /\ HeightOf(s) = Base(s) - s.missing + s.extra
      /\ Base(s) = 1 + s.locals[levels]
  BY FullFacts DEF Base
<1>4. m \in Nat /\ Len(c.scope) <= m + 1 /\ m + 1 = k /\ Len(c.scope) + 1 = k /\ m = levels
  BY <1>1, <1>2
<1> HIDE DEF m, k, levels
<1>5. /\ GoodScope(pushed) /\ Len(pushed) = k /\ k \in Nat
      /\ \A l \in 0 .. Len(c.scope) : Size(pushed, l) = Size(c.scope, l)
      /\ Len(pushed[k]) = 0
  <2>1. k \in Len(c.scope) + 1 .. m + 1
    BY <1>4
  <2>2. QED
    BY <2>1, <1>2, <1>4, PushedScope
<1>6. Size(pushed, k) = Size(c.scope, m)
  <2>1. Size(pushed, k) = Size(pushed, k - 1) + Len(pushed[k])
    <3>1. k \in 1 .. Len(pushed) /\ pushed \in Levels
      BY <1>4, <1>5 DEF GoodScope
    <3> HIDE DEF pushed
    <3>2. QED
      BY <3>1, SizeFacts
  <2>2. k - 1 = m /\ m \in 0 .. Len(c.scope)
    BY <1>2, <1>3, <1>4
  <2>3. Size(c.scope, m) \in Nat
    BY <2>2, <1>2, SizeFacts
  <2>4. QED
    BY <2>1, <2>2, <2>3, <1>5
<1> HIDE DEF pushed
<1>7. /\ GoodScope(scope) /\ Len(scope) = k
      /\ \A l \in 0 .. m : Size(scope, l) = Size(c.scope, l)
      /\ Size(scope, k) = Size(c.scope, m) + 1
  <2>1. name \in Names
    BY DEF Names
  <2>2. /\ GoodScope(scope) /\ Len(scope) = m + 1
        /\ \A l \in 0 .. m : Size(scope, l) = Size(pushed, l)
        /\ Size(scope, m + 1) = Size(pushed, m + 1) + 1
    BY <2>1, <1>4, <1>5, DefinedScope
  <2>3. \A l \in 0 .. m : l \in 0 .. Len(c.scope)
    BY <1>2, <1>3, <1>4
  <2>4. QED
    BY <2>2, <2>3, <1>4, <1>5, <1>6
<1>8. n = [Rescoped(c, scope) EXCEPT !.hasSuperclass = TRUE]
  <2>1. m # 0 /\ m > 0
    BY <1>3, <1>4
  <2> DEFINE a == [c EXCEPT !.scope = PushScope(@, m)]
  <2>2. a = Rescoped(c, pushed)
    BY DEF Rescoped, pushed
  <2>3. n = [DeclareAndDefine(a, name, m) EXCEPT !.hasSuperclass = TRUE]
    BY DEF m, Inheriting
  <2> HIDE DEF a
  <2>4. a.scope = pushed
    <3>1. pushed \in Levels
      BY <1>5 DEF GoodScope
    <3>2. QED
      BY <3>1, <2>2, <1>2, RescopedFacts
  <2>5. DeclareAndDefine(a, name, m) = [[a EXCEPT !.scope = Declare(@, name, m)] EXCEPT !.scope = Initialize(@, name, m)]
    BY <2>1 DEF DeclareAndDefine, Define, Declared
  <2>6. [[a EXCEPT !.scope = Declare(@, name, m)] EXCEPT !.scope = Initialize(@, name, m)]
          = Rescoped(c, scope)
    BY <2>2, <2>4, <1>2 DEF Rescoped, ChunkSet
  <2>7. QED
    BY <2>3, <2>5, <2>6
<1> HIDE DEF scope
<1>9. /\ n \in ChunkSet /\ n.scope = scope /\ n.code = c.code /\ n.arity = c.arity
      /\ n.hasSuperclass = TRUE /\ n.upvalues = c.upvalues /\ Adds(c, n)
  <2>1. scope \in Levels
    BY <1>7 DEF GoodScope
  <2>2. /\ Rescoped(c, scope) \in ChunkSet /\ Rescoped(c, scope).scope = scope
        /\ Rescoped(c, scope).code = c.code /\ Rescoped(c, scope).arity = c.arity
        /\ Rescoped(c, scope).upvalues = c.upvalues /\ Adds(c, Rescoped(c, scope))
    BY <2>1, <1>2, RescopedFacts
  <2> DEFINE a == Rescoped(c, scope)
  <2> HIDE DEF a
  <2>3. /\ n \in ChunkSet /\ n.scope = scope /\ n.code = c.code /\ n.arity = c.arity
        /\ n.hasSuperclass = TRUE /\ n.upvalues = a.upvalues /\ n.constants = a.constants
        /\ n.code = a.code
    <3>1. a \in ChunkSet /\ n = [a EXCEPT !.hasSuperclass = TRUE]
      BY <2>2, <1>8 DEF a
    <3>2. QED
      BY <3>1, <2>2 DEF a, ChunkSet
  <2>4. Adds(c, n)
    BY <2>2, <2>3 DEF a, Adds
  <2>5. QED
    BY <2>2, <2>3, <2>4 DEF a
<1>10. Placed(c.code, c.arity, v, 1 + Size(scope, k), 0, t.open, t.loops)
  <2>1. m \in 1 .. Len(s.locals) /\ s.locals[m] \in Nat
    BY <1>3, <1>4
  <2>2. Size(scope, k) = s.locals[m] + 1
    BY <2>1, <1>2, <1>7
  <2>3. HeightOf(s) = 1 + Size(scope, k)
    BY <2>1, <2>2, <1>1, <1>3, <1>4
  <2>4. Placed(c.code, c.arity, v, 1 + Size(scope, k), 0, t.open, s.loops)
    BY <2>3, <1>1, <1>2 DEF Fitted
  <2>5. QED
    BY <2>4, <1>1, PlacedFewerLoops
<1>11. /\ Len(t.locals) \in Nat /\ Len(t.locals) <= k
       /\ \A l \in 1 .. Len(t.locals) : t.locals[l] = Size(scope, l)
  <2> DEFINE size == s.locals[levels] + 1
             L == Append(s.locals, size)
  <2>1. L \in Seq(Nat) /\ Len(L) = k /\ L[k] = size /\ \A l \in 1 .. levels : L[l] = s.locals[l]
    <3>1. size \in Nat /\ Len(s.locals) + 1 = k
      BY <1>2, <1>3, <1>4
    <3> HIDE DEF size
    <3>2. QED
      BY <3>1, <1>3, AppendNat
  <2>2. Initial(t.locals, L) /\ t.locals \in Seq(Nat)
    BY <1>1 DEF State
  <2> HIDE DEF L
  <2>3. Len(t.locals) \in Nat /\ Len(t.locals) <= k /\ \A l \in 1 .. Len(t.locals) : t.locals[l] = L[l]
    BY <2>1, <2>2 DEF Initial
  <2>4. \A l \in 1 .. k : L[l] = Size(scope, l)
    <3>1. TAKE l \in 1 .. k
    <3>2. l = k \/ (l \in 1 .. levels /\ l \in 0 .. m /\ l \in 1 .. Len(s.locals))
      BY <1>2, <1>3, <1>4
    <3>3. m \in 1 .. Len(s.locals) /\ s.locals[m] = Size(c.scope, m)
      BY <1>2, <1>3, <1>4
    <3>4. QED
      BY <3>2, <3>3, <2>1, <1>2, <1>4, <1>7
  <2>5. \A l \in 1 .. Len(t.locals) : l \in 1 .. k
    BY <2>3, <1>5
  <2>6. QED
    BY <2>3, <2>4, <2>5
<1>12. t.levels = k /\ 1 + Size(n.scope, t.levels) - t.missing + t.extra = 1 + Size(scope, k)
  <2>1. t.levels = k
    BY <1>1, <1>2, <1>4
  <2>2. Size(scope, k) \in Nat
    <3>1. k \in 0 .. Len(scope) /\ scope \in Levels
      BY <1>5, <1>7 DEF GoodScope
    <3>2. QED
      BY <3>1, SizeFacts
  <2>3. QED
    BY <2>1, <2>2, <1>1, <1>9
<1>13. t.reads \subseteq 0 .. Len(n.upvalues) - 1 /\ t.missing # 1
  BY <1>1, <1>2, <1>9
<1>14. Meets(n, v, t)
  <2>1. GoodChunk(n) /\ Len(n.scope) = t.levels /\ Len(t.locals) <= t.levels
    BY <1>7, <1>9, <1>11, <1>12 DEF GoodChunk
  <2>2. \A l \in 1 .. Len(t.locals) : t.locals[l] = Size(n.scope, l)
    BY <1>9, <1>11
  <2>3. Placed(n.code, n.arity, v, 1 + Size(n.scope, t.levels) - t.missing + t.extra,
               t.guard, t.open, t.loops)
    BY <1>1, <1>9, <1>10, <1>12
  <2>4. QED
    BY <2>1, <2>2, <2>3, <1>9, <1>13 DEF Meets
<1>15. QED
  BY <1>9, <1>14

LEMMA SuperclassCompiles ==
  ASSUME Compiles, Superclass, status' = "compiling"
  PROVE  Compiles'
<1>1. Head(todo)[1] = "superclass"
  BY DEF Superclass, Doing
<1>2. PICK w, s, t : Standing(w, s, t)
  BY <1>1, HeadStands
<1> DEFINE v == w[Len(chunks)]
           d == Arg(3)
           name == "super"
           n == Inheriting(Current, name, d)
<1>3. Continue(With(n), <<>>)
  BY DEF Superclass, Fail, Inheriting
<1>4. /\ s \in State /\ t \in State /\ Full(s) /\ Meets(Current, v, s) /\ Subclasses(d, s, t)
      /\ \A b \in ChunkSet : b.upvalues = Current.upvalues => Succeeds(With(b), b)
  <2>1. Rule(Head(todo), s, t, v)
    BY <1>2, StandingFacts
  <2>2. Subclasses(d, s, t)
    BY <1>1, <2>1, RuleOf DEF Arg
  <2>3. QED
    BY <1>2, <2>2, StandingFacts
<1>5. /\ n = Inheriting(Current, name, d)
      /\ name = "super" /\ Extends(v, v) /\ v = w[Len(chunks)]
  BY DEF Extends
<1> HIDE DEF v, d, name, n
<1>6. Meets(n, v, t) /\ n.upvalues = Current.upvalues /\ Adds(Current, n)
  BY <1>4, <1>5, SuperclassFacts
<1>7. Leading(<<>>, t, t, v) /\ t.chunk = s.chunk /\ n \in ChunkSet
  BY <1>4, <1>6, LeadNone DEF Subclasses, Meets, GoodChunk
<1>8. Succeeds(With(n), n)
  BY <1>4, <1>6, <1>7
<1>9. QED
  BY <1>2, <1>3, <1>4, <1>5, <1>6, <1>7, <1>8, Continued

LEMMA BeginClassCompiles ==
  ASSUME Compiles, BeginClass
  PROVE  Compiles'
<1>1. Head(todo)[1] = "class"
  BY DEF BeginClass, Doing
<1>2. PICK w, s, t : Standing(w, s, t)
  BY <1>1, HeadStands
<1> DEFINE v == w[Len(chunks)]
           d == Arg(1)
           n == [Current EXCEPT !.enclosingType = Current.type, !.type = "CLASS"]
           x == <<"methods", d>>
<1>3. Continue(With(n), <<x>>)
  BY DEF BeginClass
<1>4. /\ s \in State /\ t \in State /\ Full(s) /\ Meets(Current, v, s) /\ Encloses(d, s, t)
      /\ \A b \in ChunkSet : b.upvalues = Current.upvalues => Succeeds(With(b), b)
      /\ Current \in ChunkSet /\ Fitted(Current.code, Current.arity, v, s)
  <2>1. Rule(Head(todo), s, t, v)
    BY <1>2, StandingFacts
  <2>2. Encloses(d, s, t)
    BY <1>1, <2>1, RuleOf DEF Arg
  <2>3. QED
    BY <1>2, <2>2, StandingFacts
<1>5. /\ n \in ChunkSet /\ Recoded(Current, n)
      /\ n.code = Current.code /\ n.arity = Current.arity
  <2>1. /\ n \in ChunkSet /\ n.code = Current.code /\ n.arity = Current.arity
        /\ n.constants = Current.constants /\ n.upvalues = Current.upvalues
        /\ n.scope = Current.scope /\ n.hasSuperclass = Current.hasSuperclass
    BY <1>4 DEF ChunkSet, Types
  <2>2. Adds(Current, Current)
    BY <1>4, AddsSelf
  <2> HIDE DEF n
  <2>3. Adds(Current, n)
    BY <2>1, <2>2 DEF Adds
  <2>4. QED
    BY <2>1, <2>3 DEF Recoded, Rewritten
<1>6. x[1] = "methods" /\ x[2] = d /\ x[1] # "endFunction" /\ Extends(v, v)
  BY DEF Extends
<1> HIDE DEF v, d, n, x
<1>7. Leading(<<x>>, s, t, v)
  BY <1>4, <1>6, Entries, RuleOf
<1>8. Fitted(n.code, n.arity, v, s) /\ Succeeds(With(n), n) /\ Stays(s, s)
  BY <1>2, <1>4, <1>5, Stay, RecodingFacts
<1>9. QED
  BY <1>2, <1>3, <1>4, <1>5, <1>6, <1>7, <1>8, Wrote DEF v

LEMMA EndClassCompiles ==
  ASSUME Compiles, EndClass, status' = "compiling"
  PROVE  Compiles'
<1>1. Head(todo)[1] = "methods"
  BY DEF EndClass, Doing
<1>2. PICK w, s, t : Standing(w, s, t)
  BY <1>1, HeadStands
<1> DEFINE v == w[Len(chunks)]
           d == Arg(1)
           pop == <<"POP">>
           popped == Emit(Current, <<pop>>)
           n == [popped EXCEPT !.type = Current.enclosingType]
           zero == 0
           u == Above(s, zero)
<1>3. \/ ~ n.hasSuperclass /\ Continue(With(n), <<>>)
      \/ d + 1 < Len(n.scope) /\ Continue(With(EndScope(n, d + 1)), <<>>)
  BY DEF EndClass, Fail
<1>4. /\ s \in State /\ t \in State /\ Full(s) /\ Meets(Current, v, s) /\ Encloses(d, s, t)
      /\ \A b \in ChunkSet : b.upvalues = Current.upvalues => Succeeds(With(b), b)
      /\ Current \in ChunkSet /\ Fitted(Current.code, Current.arity, v, s)
  <2>1. Rule(Head(todo), s, t, v)
    BY <1>2, StandingFacts
  <2>2. Encloses(d, s, t)
    BY <1>1, <2>1, RuleOf DEF Arg
  <2>3. QED
    BY <1>2, <2>2, StandingFacts
<1>5. /\ d \in Nat /\ (s.levels = d + 1 \/ (s.levels = d + 2 /\ s.super))
      /\ s.missing = 0 /\ s.guard = 0 /\ s.extra = 1
      /\ Context(s, t) /\ t.levels = d + 1 /\ Calm(t, 0) /\ t.open = s.open
      /\ Initial(t.locals, s.locals) /\ Len(t.locals) <= d
  BY <1>4 DEF Encloses, Calm
<1>6. Shape(pop, 1, -1)
  BY Shapes
<1>7. PICK v2 : Fitted(Current.code \o <<pop>>, Current.arity, v2, u) /\ Extends(v, v2)
  <2>1. 1 <= s.extra /\ zero \in Nat /\ zero = s.extra + (-1) /\ 1 \in Nat /\ -1 \in Int
    BY <1>5
  <2> HIDE DEF pop, zero, v
  <2>2. QED
    BY <2>1, <1>4, <1>6, WriteShape
<1>8. popped \in ChunkSet /\ Recoded(Current, popped) /\ popped.code = Current.code \o <<pop>>
  <2>1. Mild(<<pop>>, Len(Current.upvalues))
    BY <1>6, MildOne DEF Shape
  <2> HIDE DEF pop
  <2>2. QED
    BY <2>1, <1>4, EmitFacts
<1> HIDE DEF popped
<1>9. /\ n \in ChunkSet /\ Recoded(Current, n) /\ n.code = Current.code \o <<pop>>
      /\ n.arity = Current.arity /\ n.scope = Current.scope
      /\ n.hasSuperclass = Current.hasSuperclass
  <2>1. /\ popped.arity = Current.arity /\ popped.scope = Current.scope
        /\ popped.hasSuperclass = Current.hasSuperclass /\ popped.upvalues = Current.upvalues
        /\ Adds(Current, popped)
    BY <1>8 DEF Recoded, Rewritten
  <2>2. /\ n \in ChunkSet /\ n.code = popped.code /\ n.arity = popped.arity
        /\ n.constants = popped.constants /\ n.upvalues = popped.upvalues
        /\ n.scope = popped.scope /\ n.hasSuperclass = popped.hasSuperclass
    BY <1>4, <1>8 DEF ChunkSet
  <2> HIDE DEF n
  <2>3. Adds(Current, n)
    BY <2>1, <2>2 DEF Adds
  <2>4. QED
    BY <2>1, <2>2, <2>3, <1>8 DEF Recoded, Rewritten
<1> HIDE DEF n
<1>10. /\ u \in State /\ Stays(s, u) /\ Full(u) /\ u.extra = 0 /\ u.guard = s.guard
       /\ u.open = s.open
  <2>1. u = Above(s, zero) /\ zero \in Nat
    OBVIOUS
  <2> HIDE DEF u
  <2>2. QED
    BY <2>1, <1>4, AboveShape
<1> HIDE DEF u
<1>11. Meets(n, v2, u)
  BY <1>4, <1>7, <1>9, <1>10, MeetsRecoded
<1>12. Context(u, t) /\ Initial(t.locals, u.locals) /\ t.open = u.open /\ Calm(u, 0)
  BY <1>5, <1>10 DEF Context, Stays, Calm
<1>13. (s.super => Current.hasSuperclass) /\ Len(Current.scope) = s.levels
  BY <1>4 DEF Meets
<1>14. CASE ~ n.hasSuperclass /\ Continue(With(n), <<>>)
  <2>1. u.levels = d + 1
    BY <1>5, <1>9, <1>10, <1>13, <1>14 DEF Stays
  <2>2. Weaker(u, t)
    BY <2>1, <1>5, <1>10, <1>12 DEF Weaker, Becomes, Keeps, Calm
  <2>3. Fitted(n.code, n.arity, v2, u) /\ Succeeds(With(n), n)
    BY <1>2, <1>7, <1>9, RecodingFacts
  <2>4. QED
    BY <2>2, <2>3, <1>2, <1>7, <1>9, <1>10, <1>14, WroteAll
<1>15. CASE d + 1 < Len(n.scope) /\ Continue(With(EndScope(n, d + 1)), <<>>)
  <2> DEFINE m == d + 1
             c == EndScope(n, m)
  <2>1. u.levels = d + 2 /\ u.levels = m + 1 /\ m \in Nat
    BY <1>5, <1>9, <1>10, <1>13, <1>15 DEF Stays
  <2>2. m # 0 /\ AtDepth(m, u) /\ t.levels = m /\ Len(t.locals) <= m
    BY <2>1, <1>5 DEF AtDepth, State
  <2>3. Continue(With(c), <<>>)
    BY <1>15
  <2>4. c = EndScope(n, m)
    OBVIOUS
  <2> HIDE DEF m, c
  <2>5. PICK v3 : Meets(c, v3, t) /\ Extends(v2, v3)
    BY <2>1, <2>2, <2>4, <1>4, <1>5, <1>10, <1>11, <1>12, ScopeEnds
  <2>9. c.upvalues = n.upvalues /\ Adds(n, c)
    BY <2>1, <2>2, <2>4, <1>4, <1>5, <1>10, <1>11, <1>12, ScopeEnds
  <2>6. Leading(<<>>, t, t, v3) /\ t.chunk = s.chunk /\ c \in ChunkSet
    BY <2>5, <1>4, <1>5, LeadNone DEF Context, Meets, GoodChunk
  <2>7. Extends(v, v3)
    BY <2>5, <1>7, ExtendsTrans
  <2>10. Succeeds(With(c), c) /\ Adds(Current, c)
    <3>1. n.upvalues = Current.upvalues /\ Adds(Current, n)
      BY <1>9 DEF Recoded, Rewritten
    <3>2. Adds(Current, c)
      BY <3>1, <2>6, <2>9, <1>4, <1>9, AddsTrans
    <3>3. QED
      BY <3>1, <3>2, <2>6, <2>9, <1>4
  <2>8. QED
    BY <2>3, <2>5, <2>6, <2>7, <2>10, <1>2, Continued
<1>16. QED
  BY <1>3, <1>14, <1>15

-----------------------------------------------------------------------------
(* Every step keeps the invariant.                                         *)

Kept == grammar' = grammar /\ functions' = functions /\ status = "compiling"

LEMMA DeclarationsKeep ==
  ASSUME Declarations, ~ Program, ~ EndFunction
  PROVE  Kept
<1>1. CASE VariableDeclaration
  BY <1>1 DEF VariableDeclaration, Kept, Doing, Continue, Fail
<1>2. CASE FunctionDeclaration
  BY <1>2 DEF FunctionDeclaration, Kept, Doing, Continue, Fail
<1>3. CASE ClassDeclaration
  BY <1>3 DEF ClassDeclaration, Kept, Doing, Continue, Fail
<1>4. CASE Superclass
  BY <1>4 DEF Superclass, Kept, Doing, Continue, Fail
<1>5. CASE BeginClass
  BY <1>5 DEF BeginClass, Kept, Doing, Continue, Fail
<1>6. CASE MethodDeclaration
  BY <1>6 DEF MethodDeclaration, Kept, Doing, Continue, Fail
<1>7. CASE EndClass
  BY <1>7 DEF EndClass, Kept, Doing, Continue, Fail
<1>8. QED
  BY <1>1, <1>2, <1>3, <1>4, <1>5, <1>6, <1>7 DEF Declarations

LEMMA DeclarationsCompile ==
  ASSUME Compiles, grammar \in Grammars, status' = "compiling",
         Declarations, ~ Program, ~ EndFunction
  PROVE  Compiles'
<1>1. CASE VariableDeclaration
  BY <1>1, VariableDeclarationCompiles
<1>2. CASE FunctionDeclaration
  BY <1>2, FunctionDeclarationCompiles
<1>3. CASE ClassDeclaration
  BY <1>3, ClassDeclarationCompiles
<1>4. CASE Superclass
  BY <1>4, SuperclassCompiles
<1>5. CASE BeginClass
  BY <1>5, BeginClassCompiles
<1>6. CASE MethodDeclaration
  BY <1>6, MethodDeclarationCompiles
<1>7. CASE EndClass
  BY <1>7, EndClassCompiles
<1>8. QED
  BY <1>1, <1>2, <1>3, <1>4, <1>5, <1>6, <1>7 DEF Declarations

LEMMA StatementsKeep ==
  ASSUME Statements
  PROVE  Kept
<1>1. CASE InBlock
  BY <1>1 DEF InBlock, Kept, Doing, Continue, Fail, AtStatement
<1>2. CASE BlockStatement
  BY <1>2 DEF BlockStatement, Kept, Doing, Continue, Fail, AtStatement
<1>3. CASE EndOfScope
  BY <1>3 DEF EndOfScope, Kept, Doing, Continue, Fail, AtStatement
<1>4. CASE ExpressionStatement
  BY <1>4 DEF ExpressionStatement, Kept, Doing, Continue, Fail, AtStatement
<1>5. CASE PrintStatement
  BY <1>5 DEF PrintStatement, Kept, Doing, Continue, Fail, AtStatement
<1>6. CASE ReturnStatement
  BY <1>6 DEF ReturnStatement, Kept, Doing, Continue, Fail, AtStatement
<1>7. CASE IfStatement
  BY <1>7 DEF IfStatement, Kept, Doing, Continue, Fail, AtStatement
<1>8. CASE IfThen
  BY <1>8 DEF IfThen, Kept, Doing, Continue, Fail, AtStatement
<1>9. CASE IfElse
  BY <1>9 DEF IfElse, Kept, Doing, Continue, Fail, AtStatement
<1>10. CASE WhileStatement
  BY <1>10 DEF WhileStatement, Kept, Doing, Continue, Fail, AtStatement
<1>11. CASE WhileBody
  BY <1>11 DEF WhileBody, Kept, Doing, Continue, Fail, AtStatement
<1>12. CASE EndOfLoop
  BY <1>12 DEF EndOfLoop, Kept, Doing, Continue, Fail, AtStatement
<1>13. CASE ForStatement
  BY <1>13 DEF ForStatement, Kept, Doing, Continue, Fail, AtStatement
<1>14. CASE ForCondition
  BY <1>14 DEF ForCondition, Kept, Doing, Continue, Fail, AtStatement
<1>15. CASE ForExit
  BY <1>15 DEF ForExit, Kept, Doing, Continue, Fail, AtStatement
<1>16. CASE ForIncrement
  BY <1>16 DEF ForIncrement, Kept, Doing, Continue, Fail, AtStatement
<1>17. CASE ForBody
  BY <1>17 DEF ForBody, Kept, Doing, Continue, Fail, AtStatement
<1>18. QED
  BY <1>1, <1>2, <1>3, <1>4, <1>5, <1>6, <1>7, <1>8, <1>9, <1>10, <1>11, <1>12, <1>13, <1>14, <1>15, <1>16, <1>17 DEF Statements

LEMMA StatementsCompile ==
  ASSUME Compiles, grammar \in Grammars, status' = "compiling", Statements
  PROVE  Compiles'
<1>1. CASE InBlock
  BY <1>1, InBlockCompiles
<1>2. CASE BlockStatement
  BY <1>2, BlockStatementCompiles
<1>3. CASE EndOfScope
  BY <1>3, EndOfScopeCompiles
<1>4. CASE ExpressionStatement
  BY <1>4, ExpressionStatementCompiles
<1>5. CASE PrintStatement
  BY <1>5, PrintStatementCompiles
<1>6. CASE ReturnStatement
  BY <1>6, ReturnStatementCompiles
<1>7. CASE IfStatement
  BY <1>7, IfStatementCompiles
<1>8. CASE IfThen
  BY <1>8, IfThenCompiles
<1>9. CASE IfElse
  BY <1>9, IfElseCompiles
<1>10. CASE WhileStatement
  BY <1>10, WhileStatementCompiles
<1>11. CASE WhileBody
  BY <1>11, WhileBodyCompiles
<1>12. CASE EndOfLoop
  BY <1>12, EndOfLoopCompiles
<1>13. CASE ForStatement
  BY <1>13, ForStatementCompiles
<1>14. CASE ForCondition
  BY <1>14, ForConditionCompiles
<1>15. CASE ForExit
  BY <1>15, ForExitCompiles
<1>16. CASE ForIncrement
  BY <1>16, ForIncrementCompiles
<1>17. CASE ForBody
  BY <1>17, ForBodyCompiles
<1>18. QED
  BY <1>1, <1>2, <1>3, <1>4, <1>5, <1>6, <1>7, <1>8, <1>9, <1>10, <1>11, <1>12, <1>13, <1>14, <1>15, <1>16, <1>17 DEF Statements

LEMMA ExpressionsKeep ==
  ASSUME Expressions
  PROVE  Kept
<1>1. CASE Literal
  BY <1>1 DEF Literal, Kept, Doing, Continue, Fail, Infix, Prefix
<1>2. CASE Grouping
  BY <1>2 DEF Grouping, Kept, Doing, Continue, Fail, Infix, Prefix
<1>3. CASE Unary
  BY <1>3 DEF Unary, Kept, Doing, Continue, Fail, Infix, Prefix
<1>4. CASE Variable
  BY <1>4 DEF Variable, Kept, Doing, Continue, Fail, Infix, Prefix
<1>5. CASE This
  BY <1>5 DEF This, Kept, Doing, Continue, Fail, Infix, Prefix
<1>6. CASE Super
  BY <1>6 DEF Super, Kept, Doing, Continue, Fail, Infix, Prefix
<1>7. CASE Binary
  BY <1>7 DEF Binary, Kept, Doing, Continue, Fail, Infix, Prefix
<1>8. CASE And
  BY <1>8 DEF And, Kept, Doing, Continue, Fail, Infix, Prefix
<1>9. CASE Or
  BY <1>9 DEF Or, Kept, Doing, Continue, Fail, Infix, Prefix
<1>10. CASE Call
  BY <1>10 DEF Call, Kept, Doing, Continue, Fail, Infix, Prefix
<1>11. CASE Dot
  BY <1>11 DEF Dot, Kept, Doing, Continue, Fail, Infix, Prefix
<1>12. CASE NoInfix
  BY <1>12 DEF NoInfix, Kept, Doing, Continue, Fail, Infix, Prefix
<1>13. CASE AtRightParen
  BY <1>13 DEF AtRightParen, Kept, Doing, Continue, Fail, Infix, Prefix
<1>14. QED
  BY <1>1, <1>2, <1>3, <1>4, <1>5, <1>6, <1>7, <1>8, <1>9, <1>10, <1>11, <1>12, <1>13 DEF Expressions

LEMMA ExpressionsCompile ==
  ASSUME Compiles, grammar \in Grammars, status' = "compiling", Expressions
  PROVE  Compiles'
<1>1. CASE Literal
  BY <1>1, LiteralCompiles
<1>2. CASE Grouping
  BY <1>2, GroupingCompiles
<1>3. CASE Unary
  BY <1>3, UnaryCompiles
<1>4. CASE Variable
  BY <1>4, VariableCompiles
<1>5. CASE This
  BY <1>5, ThisCompiles
<1>6. CASE Super
  BY <1>6, SuperCompiles
<1>7. CASE Binary
  BY <1>7, BinaryCompiles
<1>8. CASE And
  BY <1>8, AndCompiles
<1>9. CASE Or
  BY <1>9, OrCompiles
<1>10. CASE Call
  BY <1>10, CallCompiles
<1>11. CASE Dot
  BY <1>11, DotCompiles
<1>12. CASE NoInfix
  BY <1>12, NoInfixCompiles
<1>13. CASE AtRightParen
  BY <1>13, AtRightParenCompiles
<1>14. QED
  BY <1>1, <1>2, <1>3, <1>4, <1>5, <1>6, <1>7, <1>8, <1>9, <1>10, <1>11, <1>12, <1>13 DEF Expressions

LEMMA EmissionKeeps ==
  ASSUME Emission
  PROVE  Kept
  BY DEF Emission, Kept, Doing, Continue, Fail

LEMMA ParseErrorKeeps ==
  ASSUME ParseError
  PROVE  Kept /\ status' # "compiling"
  BY DEF ParseError, Kept, Fail

LEMMA KeptFunctions ==
  ASSUME Functions(functions), Kept
  PROVE  Functions(functions)'
  BY DEF Functions, Kept

(* What one step does to the plan, and to the functions made so far.       *)
LEMMA NextKeepsIInv ==
  ASSUME IInv, Next
  PROVE  IInv'
<1>1. grammar \in Grammars /\ Functions(functions) /\ (status = "compiling" => Compiles)
  BY DEF IInv
<1> DEFINE Goal == /\ grammar' \in Grammars
                   /\ Functions(functions)'
                   /\ status' = "compiling" => Compiles'
<1>2. SUFFICES Goal
  BY DEF IInv
<1> HIDE DEF Goal
<1>3. CASE Program
  <2>1. status = "compiling" /\ grammar' = grammar
    BY <1>3 DEF Program, Doing, Continue
  <2>2. QED
    BY <2>1, <1>1, <1>3, ProgramCompiles DEF Goal
<1>4. CASE EndFunction
  <2>1. /\ status = "compiling" /\ grammar' = grammar
        /\ status' # "compiling" => functions' = functions
    BY <1>4 DEF EndFunction, Doing, Fail
  <2>2. CASE status' = "compiling"
    BY <2>1, <2>2, <1>1, <1>4, EndFunctionCompiles DEF Goal
  <2>3. CASE status' # "compiling"
    BY <2>1, <2>3, <1>1 DEF Goal, Functions
  <2>4. QED
    BY <2>2, <2>3
<1>5. ASSUME Kept, status' = "compiling" /\ Compiles /\ grammar \in Grammars => Compiles'
      PROVE  Goal
  <2>1. status = "compiling" /\ grammar' = grammar
    BY <1>5 DEF Kept
  <2>2. QED
    BY <2>1, <1>1, <1>5, KeptFunctions DEF Goal
<1>6. CASE Declarations /\ ~ Program /\ ~ EndFunction
  BY <1>5, <1>6, DeclarationsKeep, DeclarationsCompile
<1>7. CASE Statements
  BY <1>5, <1>7, StatementsKeep, StatementsCompile
<1>8. CASE Expressions
  BY <1>5, <1>8, ExpressionsKeep, ExpressionsCompile
<1>9. CASE Emission
  BY <1>5, <1>9, EmissionKeeps, EmissionCompiles
<1>10. CASE ParseError
  BY <1>5, <1>10, ParseErrorKeeps
<1>11. QED
  BY <1>3, <1>4, <1>6, <1>7, <1>8, <1>9, <1>10 DEF Next, Declarations

LEMMA StutteringKeepsIInv ==
  ASSUME IInv, UNCHANGED vars
  PROVE  IInv'
  BY DEF IInv, vars, Compiles, Current, Functions

LEMMA InitIsIInv ==
  ASSUME Init
  PROVE  IInv
<1> DEFINE c == NewChunk("SCRIPT")
           one == 1
           s == Fresh(one, one)
<1>1. /\ grammar \in Grammars /\ chunks = <<c>> /\ todo = << <<"program">> >>
      /\ functions = <<>> /\ status = "compiling"
  BY DEF Init
<1>2. /\ c.code = <<>> /\ c.arity = 0 /\ c.scope = NewScope
  BY DEF NewChunk
<1>3. GoodScope(c.scope) /\ Len(c.scope) = one /\ Size(c.scope, one) = c.arity
  BY <1>2, EmptyScope
<1>4. c \in ChunkSet
  <2>1. c.scope \in Levels
    BY <1>3 DEF GoodScope
  <2>2. /\ <<>> \in Seq(Instruction) /\ <<>> \in Seq(Constant) /\ <<>> \in Seq(Upvalue)
        /\ 0 \in Nat /\ "SCRIPT" \in Kinds /\ "NONE" \in Types /\ FALSE \in BOOLEAN
    BY DEF Kinds, Types
  <2>3. QED
    BY <2>1, <2>2 DEF NewChunk, ChunkSet
<1>5. s \in State /\ s.chunk = 1 /\ AtProgram(s)
  BY FreshFacts DEF Fresh, AtProgram, Calm
<1>14. c.code = <<>> /\ Len(<<>>) = 0
  BY <1>2
<1> HIDE DEF c, s
<1>6. \E v : Meets(c, v, s)
  <2> HIDE DEF one
  <2>1. s = Fresh(one, one)
    BY DEF s
  <2>2. QED
    BY <2>1, <1>2, <1>3, <1>4, FreshMeets
<1>7. PICK v : Meets(c, v, s)
  BY <1>6
<1> DEFINE w == <<v>>
<1>8. Len(chunks) = 1 /\ chunks \in Seq(ChunkSet) /\ chunks # <<>> /\ Current = c
  BY <1>1, <1>4 DEF Current, Last
<1>9. \A k \in 1 .. Len(chunks) : GoodScope(chunks[k].scope)
  BY <1>1, <1>3, <1>8
<1>10. Meets(Current, w[Len(chunks)], s) /\ s.chunk = Len(chunks)
  BY <1>5, <1>7, <1>8
<1>11. Future(chunks, w, todo, s)
  BY <1>1, <1>5, FutureProgram
<1>15. Linked(chunks) /\ AllSound(chunks, w, functions)
  <2>1. \A p \in 1 .. Len(chunks[1].code) : FALSE
    BY <1>1, <1>14
  <2>2. \A k \in 1 .. Len(chunks) : k = 1
    BY <1>8
  <2>3. 1 .. Len(chunks) - 1 = {}
    BY <1>8
  <2>4. QED
    BY <2>1, <2>2, <2>3 DEF Linked, AllSound, Sound
<1>12. Compiles
  BY <1>8, <1>9, <1>10, <1>11, <1>15 DEF Compiles
<1>13. QED
  BY <1>1, <1>12, EmptySeq DEF IInv, Functions

-----------------------------------------------------------------------------
(* The types: what a step does besides.                                    *)

Outcomes == {"compiled", "undefined", "error", "redefined", "uninitialized",
             "init returns", "class", "no class", "no superclass"}

(* Either the compiler goes on, or it is done with this program.           *)
Goes  == grammar' = grammar /\ status' = status
Stops == grammar' = grammar /\ status' \in Outcomes /\ chunks' = <<>>

Spends == fuel' \in 0 .. fuel

Lifts ==
  \/ ceiling' = ceiling
  \/ ceiling' = Anything
  \/ Doing("infix") /\ ceiling' = Min({ceiling, Level})

Moves == (Goes \/ Stops) /\ Spends /\ Lifts

LEMMA GoingOn ==
  \A cs, items : /\ Continue(cs, items) => Goes
                 /\ Prefix(cs, items) => Goes /\ Lifts
<1>1. ASSUME NEW cs, NEW items, Continue(cs, items)
      PROVE  Goes
  BY <1>1, Zenon DEF Continue, Goes
<1>2. ASSUME NEW cs, NEW items, Prefix(cs, items)
      PROVE  Goes /\ Lifts
  <2>1. PICK more : Continue(cs, more)
    BY <1>2, Zenon DEF Prefix
  <2>2. ceiling' = Anything
    BY <1>2, Zenon DEF Prefix
  <2>3. QED
    BY <1>1, <2>1, <2>2, Zenon DEF Lifts
<1>3. QED
  BY <1>1, <1>2, Zenon

LEMMA Stopping ==
  /\ Fail("undefined") => Stops
  /\ Fail("error") => Stops
  /\ Fail("redefined") => Stops
  /\ Fail("uninitialized") => Stops
  /\ Fail("init returns") => Stops
  /\ Fail("class") => Stops
  /\ Fail("no class") => Stops
  /\ Fail("no superclass") => Stops
<1>1. ASSUME NEW error \in Outcomes, Fail(error)
      PROVE  Stops
  BY <1>1, Zenon DEF Fail, Stops
<1>2. /\ "undefined" \in Outcomes /\ "error" \in Outcomes
      /\ "redefined" \in Outcomes /\ "uninitialized" \in Outcomes
      /\ "init returns" \in Outcomes /\ "class" \in Outcomes
      /\ "no class" \in Outcomes /\ "no superclass" \in Outcomes
  BY DEF Outcomes
<1>3. QED
  BY <1>1, <1>2, Zenon

LEMMA Spending ==
  ASSUME fuel \in Nat
  PROVE  /\ Spend(0) => Spends
         /\ Spend(1) => Spends
         /\ fuel' = fuel => Spends
  BY DEF Spend, Spends

LEMMA DeclarationsMove ==
  ASSUME Declarations, fuel \in Nat
  PROVE  Moves
<1>1. CASE Program
  <2>1. "compiled" \in Outcomes
    BY DEF Outcomes
  <2>2. QED
    BY <1>1, <2>1, GoingOn, Spending, Zenon DEF Program, Moves, Lifts, Stops
<1>2. CASE EndFunction
  <2>1. Goes \/ Stops
    BY <1>2, Stopping, Zenon DEF EndFunction, Goes
  <2>2. QED
    BY <1>2, <2>1, Spending, Zenon DEF EndFunction, Moves, Lifts
<1>3. CASE VariableDeclaration
  BY <1>3, GoingOn, Stopping, Spending, Zenon DEF VariableDeclaration, Moves, Lifts
<1>4. CASE FunctionDeclaration
  BY <1>4, GoingOn, Stopping, Spending, Zenon DEF FunctionDeclaration, Moves, Lifts
<1>5. CASE ClassDeclaration
  BY <1>5, GoingOn, Stopping, Spending, Zenon DEF ClassDeclaration, Moves, Lifts
<1>6. CASE Superclass
  BY <1>6, GoingOn, Stopping, Spending, Zenon DEF Superclass, Moves, Lifts
<1>7. CASE BeginClass
  BY <1>7, GoingOn, Stopping, Spending, Zenon DEF BeginClass, Moves, Lifts
<1>8. CASE MethodDeclaration
  BY <1>8, GoingOn, Stopping, Spending, Zenon DEF MethodDeclaration, Moves, Lifts
<1>9. CASE EndClass
  BY <1>9, GoingOn, Stopping, Spending, Zenon DEF EndClass, Moves, Lifts
<1>10. QED
  BY <1>1, <1>2, <1>3, <1>4, <1>5, <1>6, <1>7, <1>8, <1>9 DEF Declarations

LEMMA StatementsMove ==
  ASSUME Statements, fuel \in Nat
  PROVE  Moves
<1>1. CASE InBlock
  BY <1>1, GoingOn, Stopping, Spending, Zenon DEF InBlock, Moves, Lifts
<1>2. CASE BlockStatement
  BY <1>2, GoingOn, Stopping, Spending, Zenon DEF BlockStatement, Moves, Lifts
<1>3. CASE EndOfScope
  BY <1>3, GoingOn, Stopping, Spending, Zenon DEF EndOfScope, Moves, Lifts
<1>4. CASE ExpressionStatement
  BY <1>4, GoingOn, Stopping, Spending, Zenon DEF ExpressionStatement, Moves, Lifts
<1>5. CASE PrintStatement
  BY <1>5, GoingOn, Stopping, Spending, Zenon DEF PrintStatement, Moves, Lifts
<1>6. CASE ReturnStatement
  BY <1>6, GoingOn, Stopping, Spending, Zenon DEF ReturnStatement, Moves, Lifts
<1>7. CASE IfStatement
  BY <1>7, GoingOn, Stopping, Spending, Zenon DEF IfStatement, Moves, Lifts
<1>8. CASE IfThen
  BY <1>8, GoingOn, Stopping, Spending, Zenon DEF IfThen, Moves, Lifts
<1>9. CASE IfElse
  BY <1>9, GoingOn, Stopping, Spending, Zenon DEF IfElse, Moves, Lifts
<1>10. CASE WhileStatement
  BY <1>10, GoingOn, Stopping, Spending, Zenon DEF WhileStatement, Moves, Lifts
<1>11. CASE WhileBody
  BY <1>11, GoingOn, Stopping, Spending, Zenon DEF WhileBody, Moves, Lifts
<1>12. CASE EndOfLoop
  BY <1>12, GoingOn, Stopping, Spending, Zenon DEF EndOfLoop, Moves, Lifts
<1>13. CASE ForStatement
  BY <1>13, GoingOn, Stopping, Spending, Zenon DEF ForStatement, Moves, Lifts
<1>14. CASE ForCondition
  BY <1>14, GoingOn, Stopping, Spending, Zenon DEF ForCondition, Moves, Lifts
<1>15. CASE ForExit
  BY <1>15, GoingOn, Stopping, Spending, Zenon DEF ForExit, Moves, Lifts
<1>16. CASE ForIncrement
  BY <1>16, GoingOn, Stopping, Spending, Zenon DEF ForIncrement, Moves, Lifts
<1>17. CASE ForBody
  BY <1>17, GoingOn, Stopping, Spending, Zenon DEF ForBody, Moves, Lifts
<1>18. QED
  BY <1>1, <1>2, <1>3, <1>4, <1>5, <1>6, <1>7, <1>8, <1>9, <1>10, <1>11,
     <1>12, <1>13, <1>14, <1>15, <1>16, <1>17 DEF Statements

LEMMA ExpressionsMove ==
  ASSUME Expressions, fuel \in Nat
  PROVE  Moves
<1>1. CASE Literal
  BY <1>1, GoingOn, Stopping, Spending, Zenon DEF Literal, Moves, Lifts
<1>2. CASE Grouping
  BY <1>2, GoingOn, Stopping, Spending, Zenon DEF Grouping, Moves, Lifts
<1>3. CASE Unary
  BY <1>3, GoingOn, Stopping, Spending, Zenon DEF Unary, Moves, Lifts
<1>4. CASE Variable
  BY <1>4, GoingOn, Stopping, Spending, Zenon DEF Variable, Moves, Lifts
<1>5. CASE This
  BY <1>5, GoingOn, Stopping, Spending, Zenon DEF This, Moves, Lifts
<1>6. CASE Super
  BY <1>6, GoingOn, Stopping, Spending, Zenon DEF Super, Moves, Lifts
<1>7. CASE Binary
  BY <1>7, GoingOn, Stopping, Spending, Zenon DEF Binary, Moves, Lifts, Infix
<1>8. CASE And
  BY <1>8, GoingOn, Stopping, Spending, Zenon DEF And, Moves, Lifts, Infix
<1>9. CASE Or
  BY <1>9, GoingOn, Stopping, Spending, Zenon DEF Or, Moves, Lifts, Infix
<1>10. CASE Call
  BY <1>10, GoingOn, Stopping, Spending, Zenon DEF Call, Moves, Lifts, Infix
<1>11. CASE Dot
  BY <1>11, GoingOn, Stopping, Spending, Zenon DEF Dot, Moves, Lifts, Infix
<1>12. CASE NoInfix
  BY <1>12, GoingOn, Stopping, Spending, Zenon DEF NoInfix, Moves, Lifts
<1>13. CASE AtRightParen
  BY <1>13, GoingOn, Stopping, Spending, Zenon DEF AtRightParen, Moves, Lifts
<1>14. QED
  BY <1>1, <1>2, <1>3, <1>4, <1>5, <1>6, <1>7, <1>8, <1>9, <1>10, <1>11,
     <1>12, <1>13 DEF Expressions

LEMMA NextMoves ==
  ASSUME Next, fuel \in Nat
  PROVE  Moves
<1>1. CASE Emission
  BY <1>1, GoingOn, Stopping, Spending, Zenon DEF Emission, Moves, Lifts
<1>2. CASE ParseError
  BY <1>2, Stopping, Spending, Zenon DEF ParseError, Moves, Lifts
<1>3. QED
  BY <1>1, <1>2, DeclarationsMove, StatementsMove, ExpressionsMove DEF Next

(* The invariant of the types: that of the plan, which gives the levels of *)
(* precedence, and what happens to the bounds and to the outcome.          *)
TypeInv ==
  /\ IInv
  /\ status \in {"compiling"} \cup Outcomes
  /\ status # "compiling" => chunks = <<>>
  /\ fuel \in 0 .. grammar.fuel
  /\ ceiling \in Strength

LEMMA InfixLevel ==
  ASSUME Compiles, Head(todo)[1] = "infix"
  PROVE  Level \in Strength
<1>1. PICK w, s, t : Standing(w, s, t)
  BY HeadStands
<1>2. Rule(Head(todo), s, t, w[Len(chunks)])
  BY <1>1, StandingFacts
<1>3. QED
  BY <1>2, RuleOf DEF Level, Arg

LEMMA NextCompiles ==
  ASSUME Next
  PROVE  status = "compiling"
<1>1. ASSUME NEW what, Doing(what)
      PROVE  status = "compiling"
  BY <1>1 DEF Doing
<1>2. QED
  BY <1>1, DeclarationsKeep, StatementsKeep, ExpressionsKeep, EmissionKeeps,
     ParseErrorKeeps DEF Next, Declarations, Program, EndFunction, Kept

LEMMA NextKeepsTypeInv ==
  ASSUME TypeInv, Next
  PROVE  TypeInv'
<1>1. /\ IInv /\ fuel \in 0 .. grammar.fuel /\ ceiling \in Strength
      /\ status \in {"compiling"} \cup Outcomes
      /\ status # "compiling" => chunks = <<>>
  BY DEF TypeInv
<1>2. grammar.fuel \in Nat
  BY <1>1, CompilerAssumption DEF IInv
<1>3. fuel \in Nat
  BY <1>1, <1>2
<1>4. Moves
  BY <1>3, NextMoves
<1>5. status = "compiling"
  BY NextCompiles
<1>6. IInv'
  BY <1>1, NextKeepsIInv
<1>7. fuel' \in 0 .. grammar'.fuel
  <2>1. grammar' = grammar /\ fuel' \in 0 .. fuel
    BY <1>4, Zenon DEF Moves, Goes, Stops, Spends
  <2>2. QED
    BY <2>1, <1>1, <1>2, <1>3
<1>8. ceiling' \in Strength
  <2>1. CASE ceiling' = ceiling
    BY <2>1, <1>1
  <2>2. CASE ceiling' = Anything
    BY <2>2 DEF Strength, Anything
  <2>3. CASE Doing("infix") /\ ceiling' = Min({ceiling, Level})
    <3>1. Head(todo)[1] = "infix" /\ Compiles
      BY <2>3, <1>1, <1>5 DEF Doing, IInv
    <3>2. Level \in Strength
      BY <3>1, InfixLevel
    <3>3. {ceiling, Level} \subseteq Nat /\ {ceiling, Level} # {}
      BY <1>1, <3>2 DEF Strength, Anything
    <3>4. Min({ceiling, Level}) \in {ceiling, Level}
      BY <3>3, MinIsLeast
    <3>5. QED
      BY <2>3, <3>2, <3>4, <1>1
  <2>4. QED
    BY <1>4, <2>1, <2>2, <2>3, Zenon DEF Moves, Lifts
<1>9. CASE Goes
  BY <1>9, <1>5, <1>6, <1>7, <1>8 DEF Goes, TypeInv
<1>10. CASE Stops
  BY <1>10, <1>6, <1>7, <1>8, Zenon DEF Stops, TypeInv
<1>11. QED
  BY <1>4, <1>9, <1>10, Zenon DEF Moves

LEMMA InitIsTypeInv ==
  ASSUME Init
  PROVE  TypeInv
<1>1. /\ grammar \in Grammars /\ fuel = grammar.fuel
      /\ ceiling = Anything /\ status = "compiling"
  BY DEF Init
<1>2. grammar.fuel \in Nat
  BY <1>1, CompilerAssumption
<1>3. fuel \in 0 .. grammar.fuel /\ ceiling \in Strength
  BY <1>1, <1>2 DEF Strength, Anything
<1>4. QED
  BY <1>1, <1>3, InitIsIInv DEF TypeInv

LEMMA StutteringKeepsTypeInv ==
  ASSUME TypeInv, UNCHANGED vars
  PROVE  TypeInv'
<1>1. IInv'
  BY StutteringKeepsIInv DEF TypeInv
<1>2. QED
  BY <1>1 DEF TypeInv, vars

THEOREM TypeInvariant == Spec => []TypeInv
<1>1. Init => TypeInv
  BY InitIsTypeInv
<1>2. TypeInv /\ [Next]_vars => TypeInv'
  BY NextKeepsTypeInv, StutteringKeepsTypeInv
<1>3. QED
  BY <1>1, <1>2, PTL DEF Spec

-----------------------------------------------------------------------------
(* What the invariant says of the properties of CompilerSafety.            *)

(* What has been emitted so far and what the plan still holds fit together *)
(* whatever handler runs next: the code of the function being compiled has *)
(* a layout that the rest of todo will extend, each enclosing function     *)
(* waits with one of its own, and each finished function is laid out.      *)
THEOREM CompilerInvariant == Spec => []IInv
<1>1. Init => IInv
  BY InitIsIInv
<1>2. IInv /\ [Next]_vars => IInv'
  BY NextKeepsIInv, StutteringKeepsIInv
<1>3. QED
  BY <1>1, <1>2, PTL DEF Spec

LEMMA CompiledAreLaidOut ==
  ASSUME IInv, NEW f \in ToSet(functions)
  PROVE  LaidOut(f, functions)
<1>1. /\ functions \in Seq(FunctionSet)
      /\ \A i \in 1 .. Len(functions) : LaidOut(functions[i], functions)
  BY DEF IInv, Functions
<1>2. PICK i \in DOMAIN functions : f = functions[i]
  BY DEF ToSet
<1>3. QED
  BY <1>1, <1>2

(* The stack of a compiled function has one height at each instruction,    *)
(* whatever way leads there: two branches of a condition, the two entries  *)
(* of a loop, an `and' that is cut short.                                  *)
THEOREM CompiledStackIsBalanced == Spec => []StackBalanced
<1>1. IInv => StackBalanced
  <2>1. ASSUME IInv, NEW f \in ToSet(functions)
        PROVE  Balanced(f.code, f.arity)
    <3>1. LaidOut(f, functions)
      BY <2>1, CompiledAreLaidOut
    <3>2. PICK v : Layout(f.code, f.arity, v.h, v.r, v.g) /\ Patched(f.code)
      BY <3>1 DEF LaidOut
    <3>3. QED
      BY <3>2, LaidOutIsBalanced
  <2>2. QED
    BY <2>1 DEF StackBalanced
<1>2. QED
  BY <1>1, CompilerInvariant, PTL

(* No GET_LOCAL or SET_LOCAL of a compiled function addresses a slot above *)
(* the top of the stack.                                                   *)
THEOREM CompiledLocalsExist == Spec => []LocalsExist
<1>1. IInv => LocalsExist
  <2>1. ASSUME IInv, NEW f \in ToSet(functions)
        PROVE  SlotsExist(f.code, f.arity)
    <3>1. LaidOut(f, functions)
      BY <2>1, CompiledAreLaidOut
    <3>2. PICK v : Layout(f.code, f.arity, v.h, v.r, v.g)
      BY <3>1 DEF LaidOut
    <3>3. QED
      BY <3>2, LaidOutHasSlots
  <2>2. QED
    BY <2>1 DEF LocalsExist
<1>2. QED
  BY <1>1, CompilerInvariant, PTL

(* No index of a constant is cut to a byte.                                *)
ConstantsSuffice ==
  /\ \A k \in 1 .. Len(chunks) : Len(chunks[k].constants) <= ByteSize
  /\ \A f \in ToSet(functions) : Len(f.constants) <= ByteSize

(* As long as no index of a constant is cut to a byte, each CLOSURE of a   *)
(* compiled function names a function whose upvalues it can make: it looks *)
(* for each of them in a slot that has a value, or among the upvalues of   *)
(* the function it is in.  And no function reads an upvalue it has not.    *)
THEOREM CompiledUpvaluesExist == Spec => [](ConstantsSuffice => UpvaluesExist)
<1>1. ASSUME IInv, ConstantsSuffice, NEW f \in ToSet(functions),
             NEW p \in Reached(f.code, Heights(f.code, f.arity))
      PROVE  /\ f.code[p][1] = "CLOSURE" =>
                  \A u \in ToSet(FunctionAt(f, p).upvalues) :
                    u.index < IF u.isLocal THEN Heights(f.code, f.arity)[p]
                                           ELSE Len(f.upvalues)
             /\ f.code[p][1] \in {"GET_UPVALUE", "SET_UPVALUE"} =>
                  f.code[p][2] < Len(f.upvalues)
  <2> DEFINE A == Heights(f.code, f.arity)
             n == Len(f.upvalues)
  <2>1. LaidOut(f, functions)
    BY <1>1, CompiledAreLaidOut
  <2>2. PICK v : Layout(f.code, f.arity, v.h, v.r, v.g) /\ Sound(f, v, functions)
    BY <2>1 DEF LaidOut
  <2>3. Compatible(f.code, v.h, A)
    BY <2>2, HeightsAreCompatible
  <2> HIDE DEF A
  <2>4. p \in 1 .. Len(f.code) /\ A[p] # Unreachable
    BY <1>1 DEF Reached, A
  <2>5. A[p] = v.h[p]
    BY <2>2, <2>3, <2>4 DEF Compatible, Layout
  <2>6. n \in Nat /\ v.h[p] \in Nat
    <3>1. f \in FunctionSet
      BY <1>1 DEF IInv, Functions, ToSet
    <3>2. v.h[p] \in Nat
      BY <2>2, <2>4 DEF Layout, Sized
    <3>3. QED
      BY <3>1, <3>2 DEF FunctionSet
  <2>7. \/ Harmless(f.code[p], n)
        \/ f.code[p][1] = "CLOSURE" /\ (Len(f.constants) <= ByteSize => ClosureAt(f, p, v, functions))
    BY <2>2, <2>4 DEF Sound
  <2>8. Len(f.constants) <= ByteSize
    BY <1>1 DEF ConstantsSuffice
  <2>9. CASE Harmless(f.code[p], n)
    <3>1. f.code[p][1] # "CLOSURE"
      BY <2>9 DEF Harmless
    <3>2. f.code[p][1] \in {"GET_UPVALUE", "SET_UPVALUE"} => f.code[p][2] \in 0 .. n - 1
      BY <2>9 DEF Harmless, Reads
    <3> HIDE DEF n
    <3>3. f.code[p][1] \in {"GET_UPVALUE", "SET_UPVALUE"} => f.code[p][2] < n
      BY <3>2, <2>6
    <3>4. QED
      BY <3>1, <3>3 DEF n
  <2>10. CASE f.code[p][1] = "CLOSURE" /\ ClosureAt(f, p, v, functions)
    <3>1. f.code[p][1] \notin {"GET_UPVALUE", "SET_UPVALUE"}
      BY <2>10
    <3>2. ASSUME NEW u \in ToSet(FunctionAt(f, p).upvalues)
          PROVE  u.index < IF u.isLocal THEN A[p] ELSE n
      <4>1. u.index \in 0 .. (IF u.isLocal THEN v.h[p] ELSE n) - 1
        BY <3>2, <2>10 DEF ClosureAt, FunctionAt
      <4> HIDE DEF n
      <4>2. QED
        BY <4>1, <2>5, <2>6
    <3>3. QED
      BY <3>1, <3>2 DEF A
  <2>11. QED
    BY <2>7, <2>8, <2>9, <2>10
<1>2. IInv => (ConstantsSuffice => UpvaluesExist)
  BY <1>1 DEF UpvaluesExist
<1>3. QED
  BY <1>2, CompilerInvariant, PTL

(* While a program is compiled there is a function to compile and          *)
(* something left to do, and afterwards there is neither a function nor    *)
(* more than a known outcome; what a program may still grow by, and how    *)
(* tightly the current token binds, stay in their bounds.  As long as no   *)
(* index of a constant is cut to a byte, each CLOSURE names a function     *)
(* that has been made; and no local stands in slot zero.                   *)
THEOREM CompilerTypes == Spec => [](ConstantsSuffice => TypeOK)
<1>1. ASSUME TypeInv, ConstantsSuffice
      PROVE  TypeOK
  <2>1. /\ status \in {"compiling"} \cup Outcomes
        /\ grammar \in Grammars /\ fuel \in 0 .. grammar.fuel
        /\ ceiling \in Strength
        /\ status # "compiling" => chunks = <<>>
        /\ status = "compiling" => Compiles
    BY <1>1, Zenon DEF TypeInv, IInv
  <2>2. CASE status # "compiling"
    <3>1. chunks = <<>> /\ 1 .. Len(chunks) = {}
      BY <2>1, <2>2
    <3>2. QED
      BY <2>1, <2>2, <3>1 DEF TypeOK, Outcomes, Strength
  <2>3. CASE status = "compiling"
    <3>1. PICK w, s : /\ Future(chunks, w, todo, s)
                      /\ AllSound(chunks, w, functions)
      BY <2>1, <2>3, Zenon DEF Compiles
    <3>2. todo # <<>>
      BY <3>1, FutureHead, Zenon
    <3>3. /\ chunks \in Seq(ChunkSet) /\ chunks # <<>>
          /\ \A k \in 1 .. Len(chunks) : GoodScope(chunks[k].scope)
      BY <2>1, <2>3, Zenon DEF Compiles
    <3>4. ASSUME NEW k \in 1 .. Len(chunks),
                 NEW p \in 1 .. Len(chunks[k].code),
                 chunks[k].code[p][1] = "CLOSURE"
          PROVE  chunks[k].constants[chunks[k].code[p][2] + 1][2] \in 1 .. Len(functions)
      <4>1. Sound(chunks[k], w[k], functions)
        BY <3>1, Zenon DEF AllSound
      <4>2. ~ Harmless(chunks[k].code[p], Len(chunks[k].upvalues))
        BY <3>4, Zenon DEF Harmless
      <4>3. Len(chunks[k].constants) <= ByteSize
        BY <1>1, Zenon DEF ConstantsSuffice
      <4>4. ClosureAt(chunks[k], p, w[k], functions)
        BY <4>1, <4>2, <4>3, Zenon DEF Sound
      <4>5. QED
        BY <4>4, Zenon DEF ClosureAt
    <3>5. ASSUME NEW k \in 1 .. Len(chunks), NEW l \in ToSet(Locals(chunks[k].scope))
          PROVE  l.position \in Nat \ {0}
      <4>1. chunks[k].scope \in Levels
        BY <3>3, Zenon DEF GoodScope
      <4>2. Locals(chunks[k].scope) \in Seq(LocalVariable)
        BY <4>1, SizeOfLocals, Zenon
      <4> DEFINE locals == Locals(chunks[k].scope)
      <4>3. PICK i \in DOMAIN locals : l = locals[i]
        BY Zenon DEF ToSet
      <4> HIDE DEF locals
      <4>4. l \in LocalVariable
        BY <4>2, <4>3 DEF locals
      <4>5. QED
        BY <4>4 DEF LocalVariable
    <3>6. status \in {"compiling", "compiled", "undefined", "error", "redefined",
                      "uninitialized", "init returns", "class", "no class",
                      "no superclass"}
      BY <2>3
    <3>7. QED
      BY <2>1, <2>3, <3>2, <3>3, <3>4, <3>5, <3>6, Zenon DEF TypeOK, Strength
  <2>4. QED
    BY <2>2, <2>3
<1>2. TypeInv => (ConstantsSuffice => TypeOK)
  BY <1>1
<1>3. QED
  BY <1>2, TypeInvariant, PTL

BetweenStatements == {"program", "block", "declaration", "statement", "forCondition"}

(* Between two statements the stack of the function that is being compiled *)
(* holds slot zero and the locals in scope, whatever has been compiled     *)
(* before: the positions in the scope are slots of the frame.              *)
THEOREM ScopeIsTheStack == Spec => []ScopeMatchesStack
<1>1. ASSUME IInv, status = "compiling", Head(todo)[1] \in BetweenStatements
      PROVE  Last(Heights(Current.code, Current.arity)) \in
               {Unreachable, 1 + Len(Locals(Current.scope))}
  <2>1. PICK w, s : /\ s.chunk = Len(chunks)
                    /\ Meets(Current, w[Len(chunks)], s)
                    /\ Future(chunks, w, todo, s)
    BY <1>1 DEF IInv, Compiles
  <2> DEFINE v == w[Len(chunks)]
  <2>2. s \in State /\ s.missing = 0 /\ s.extra = 0
    <3>1. CASE AtProgram(s)
      BY <3>1, <2>1, FutureHead DEF AtProgram, Calm
    <3>2. CASE \E t : Leads(Head(todo), s, t, chunks, w)
      <4>1. PICK t : Leads(Head(todo), s, t, chunks, w)
        BY <3>2
      <4>2. Head(todo) # EndOfFunction
        BY <1>1 DEF EndOfFunction, BetweenStatements
      <4>3. Rule(Head(todo), s, t, w[s.chunk])
        BY <4>1, <4>2 DEF Leads
      <4>4. CASE Head(todo)[1] \in {"block", "declaration"}
        BY <4>3, <4>4, <2>1, RuleOf, FutureHead DEF Declares, Calm
      <4>5. CASE Head(todo)[1] \in {"statement", "forCondition"}
        BY <4>3, <4>5, <2>1, RuleOf, FutureHead DEF Executes, Calm
      <4>6. Head(todo)[1] # "program"
        BY <4>3 DEF Rule
      <4>7. QED
        BY <1>1, <4>4, <4>5, <4>6 DEF BetweenStatements
    <3>3. QED
      BY <3>1, <3>2, <2>1, FutureHead
  <2>3. /\ Current.scope \in Levels /\ Len(Current.scope) = s.levels
        /\ Placed(Current.code, Current.arity, v,
                  1 + Size(Current.scope, s.levels) - s.missing + s.extra,
                  s.guard, s.open, s.loops)
    BY <2>1 DEF Meets, GoodChunk, GoodScope
  <2> HIDE DEF v
  <2>4. Len(Locals(Current.scope)) = Size(Current.scope, s.levels)
    BY <2>3, SizeOfLocals
  <2>5. Size(Current.scope, s.levels) \in Nat
    <3>1. s.levels \in 0 .. Len(Current.scope)
      BY <2>2, <2>3 DEF State
    <3>2. QED
      BY <3>1, <2>3, SizeFacts
  <2>6. /\ Layout(Current.code, Current.arity, v.h, v.r, v.g)
        /\ v.h[Len(Current.code) + 1] = 1 + Len(Locals(Current.scope))
    BY <2>2, <2>3, <2>4, <2>5 DEF Placed
  <2>7. QED
    BY <2>6, EndOfLayout
<1>2. IInv => ScopeMatchesStack
  BY <1>1 DEF ScopeMatchesStack, BetweenStatements
<1>3. QED
  BY <1>2, CompilerInvariant, PTL

-----------------------------------------------------------------------------
(* The listing of the disassembler.                                        *)

LEMMA StepsMatch ==
  ASSUME NEW i \in Instruction
  PROVE  /\ Bytes(i) \in Nat /\ Step(i[1]) \in Nat
         /\ Step(i[1]) = IF i[1] = "JUMP" THEN Bytes(i) + 1 ELSE Bytes(i)
         /\ i[1] = "JUMP" => Bytes(i) # 1
<1>1. CASE i \in {<<op>> : op \in Bare}
  <2>1. PICK op \in Bare : i = <<op>>
    BY <1>1
  <2>2. i[1] \in Bare /\ Len(i) = 1
    BY <2>1
  <2>3. Bytes(i) = 1 /\ Step(i[1]) = 1 /\ i[1] # "JUMP"
    BY <2>2 DEF Bytes, Jumps, Step, Bare
  <2>4. QED
    BY <2>3
<1>2. CASE i \in WithOperand \X Nat
  <2>1. i[1] \in WithOperand /\ Len(i) = 2
    BY <1>2
  <2>2. CASE i[1] = "JUMP"
    BY <2>2 DEF Bytes, Jumps, Step
  <2>3. CASE i[1] \in {"JUMP_IF_FALSE", "LOOP"}
    BY <2>3 DEF Bytes, Jumps, Step
  <2>4. CASE i[1] \in WithOperand \ {"JUMP", "JUMP_IF_FALSE", "LOOP"}
    <3>1. Bytes(i) = 2
      BY <2>1, <2>4 DEF Bytes, Jumps
    <3>2. Step(i[1]) = 2 /\ i[1] # "JUMP"
      BY <2>4 DEF Step, WithOperand
    <3>3. QED
      BY <3>1, <3>2
  <2>5. QED
    BY <2>1, <2>2, <2>3, <2>4
<1>3. CASE i \in WithTwo \X Nat \X Nat
  <2>1. i[1] \in WithTwo /\ Len(i) = 3
    BY <1>3
  <2>2. Bytes(i) = 3 /\ Step(i[1]) = 3 /\ i[1] # "JUMP"
    BY <2>1 DEF Bytes, Jumps, Step, WithTwo
  <2>3. QED
    BY <2>2
<1>4. QED
  BY <1>1, <1>2, <1>3 DEF Instruction

(* The disassembler behind the n-th instruction, when it does not lose its *)
(* place: behind a JUMP it is one byte too far, and elsewhere right.       *)
Skipped(code) == {p \in 2 .. Len(code) : code[p - 1][1] = "JUMP"}
OnTrack(code, l, n) ==
  /\ l.listed \in Seq(BOOLEAN) /\ Len(l.listed) = n
  /\ \A p \in 1 .. n : l.listed[p] <=> p \notin Skipped(code)
  /\ l.begin \in Nat
  /\ l.next = IF n # 0 /\ code[n][1] = "JUMP" THEN l.begin + 1 ELSE l.begin
Moved(code, l, n) ==
  LET i    == code[n]
      here == l.begin = l.next
  IN  [listed |-> Append(l.listed, here),
       begin  |-> l.begin + Bytes(i),
       next   |-> IF here THEN l.next + Step(i[1]) ELSE l.next]

LEMMA MovedIsOnTrack ==
  ASSUME NEW code \in Seq(Instruction), \A p \in Skipped(code) : Bytes(code[p]) = 1,
         NEW n \in 1 .. Len(code), NEW l, OnTrack(code, l, n - 1)
  PROVE  OnTrack(code, Moved(code, l, n), n)
<1> DEFINE i == code[n]
           here == l.begin = l.next
           m == Moved(code, l, n)
<1>1. /\ i \in Instruction /\ n \in Nat /\ n - 1 \in Nat /\ l.begin \in Nat
      /\ l.listed \in Seq(BOOLEAN) /\ Len(l.listed) = n - 1
      /\ l.next = IF n - 1 # 0 /\ code[n - 1][1] = "JUMP" THEN l.begin + 1 ELSE l.begin
  BY DEF OnTrack
<1>2. here <=> n \notin Skipped(code)
  <2>1. n \in Skipped(code) <=> n - 1 # 0 /\ code[n - 1][1] = "JUMP"
    BY <1>1 DEF Skipped
  <2>2. l.begin + 1 # l.begin
    BY <1>1
  <2>3. QED
    BY <1>1, <2>1, <2>2
<1>3. /\ m.listed = Append(l.listed, here) /\ m.begin = l.begin + Bytes(i)
      /\ m.next = IF here THEN l.next + Step(i[1]) ELSE l.next
  BY DEF Moved
<1>4. here \in BOOLEAN
  OBVIOUS
<1> HIDE DEF i, m, here
<1>5. /\ m.listed \in Seq(BOOLEAN) /\ Len(m.listed) = n /\ m.listed[n] = here
      /\ \A p \in 1 .. n - 1 : m.listed[p] = l.listed[p]
  <2>1. /\ m.listed \in Seq(BOOLEAN) /\ Len(m.listed) = (n - 1) + 1
        /\ m.listed[(n - 1) + 1] = here
        /\ \A p \in 1 .. n - 1 : m.listed[p] = l.listed[p]
    BY <1>1, <1>3, <1>4, AppendProperties
  <2>2. (n - 1) + 1 = n
    BY <1>1
  <2>3. QED
    BY <2>1, <2>2
<1>6. \A p \in 1 .. n : m.listed[p] <=> p \notin Skipped(code)
  <2>1. TAKE p \in 1 .. n
  <2>2. CASE p = n
    BY <2>2, <1>2, <1>5
  <2>3. CASE p # n
    <3>1. p \in 1 .. n - 1
      BY <2>3, <1>1
    <3>2. l.listed[p] <=> p \notin Skipped(code)
      BY <3>1 DEF OnTrack
    <3>3. QED
      BY <3>1, <3>2, <1>5
  <2>4. QED
    BY <2>2, <2>3
<1>7. m.begin \in Nat /\ m.next = IF n # 0 /\ i[1] = "JUMP" THEN m.begin + 1 ELSE m.begin
  <2>1. /\ Bytes(i) \in Nat /\ Step(i[1]) \in Nat
        /\ Step(i[1]) = IF i[1] = "JUMP" THEN Bytes(i) + 1 ELSE Bytes(i)
        /\ i[1] = "JUMP" => Bytes(i) # 1
    BY <1>1, StepsMatch
  <2>2. CASE here
    <3>1. l.next = l.begin
      BY <2>2 DEF here
    <3>2. /\ m.begin = l.begin + Bytes(i) /\ m.begin \in Nat
          /\ m.next = l.begin + Step(i[1])
      BY <3>1, <2>1, <2>2, <1>1, <1>3
    <3>3. i[1] = "JUMP" => m.next = m.begin + 1
      BY <3>2, <2>1, <1>1, SMTT(30)
    <3>4. i[1] # "JUMP" => m.next = m.begin
      BY <3>2, <2>1, <1>1
    <3>5. n # 0
      BY <1>1
    <3>6. QED
      BY <3>2, <3>3, <3>4, <3>5
  <2>3. CASE ~ here
    <3>1. n \in Skipped(code)
      BY <2>3, <1>2
    <3>2. Bytes(i) = 1
      BY <3>1 DEF i
    <3>3. l.next = l.begin + 1
      BY <2>3, <1>1 DEF here
    <3>4. m.begin = l.begin + 1 /\ m.next = l.begin + 1 /\ m.begin \in Nat
      BY <3>2, <3>3, <2>3, <1>1, <1>3
    <3>5. i[1] # "JUMP"
      BY <3>2, <2>1
    <3>6. QED
      BY <3>4, <3>5
  <2>4. QED
    BY <2>2, <2>3
<1>8. n # 0 /\ (n # 0 /\ code[n][1] = "JUMP" <=> n # 0 /\ i[1] = "JUMP")
  BY DEF i
<1>9. OnTrack(code, m, n)
  BY <1>5, <1>6, <1>7, <1>8 DEF OnTrack
<1>10. QED
  BY <1>9 DEF m

LEMMA ListedFacts ==
  ASSUME NEW code \in Seq(Instruction), \A p \in Skipped(code) : Bytes(code[p]) = 1
  PROVE  \A p \in 1 .. Len(code) : Listed(code)[p] <=> p \notin Skipped(code)
<1> DEFINE k == Len(code)
           T == [listed : Seq(BOOLEAN), begin : Nat, next : Nat]
           x == [listed |-> <<>>, begin |-> 0, next |-> 0]
           G == [p \in T \X (1 .. k) |-> Moved(code, p[1], p[2])]
           Is(f) == f = [n \in 0 .. k |-> IF n = 0 THEN x ELSE Moved(code, f[n - 1], n)]
           upTo == CHOOSE f : Is(f)
<1>1. k \in Nat /\ x \in T
  OBVIOUS
<1>2. Listed(code) = upTo[k].listed
  BY DEF Listed, Moved
<1>3. ASSUME NEW l \in T, NEW n \in 1 .. k
      PROVE  Moved(code, l, n) \in T
  <2>1. Bytes(code[n]) \in Nat /\ Step(code[n][1]) \in Nat
    BY StepsMatch
  <2>2. QED
    BY <2>1, AppendProperties DEF Moved
<1> HIDE DEF k, T, x
<1>4. G \in [T \X (1 .. k) -> T]
  BY <1>3
<1>5. PICK f : Follows(f, T, x, k, G)
  <2> HIDE DEF G
  <2>1. QED
    BY <1>1, <1>4, Recursion, Zenon
<1>6. \A n \in 1 .. k : f[n] = Moved(code, f[n - 1], n)
  <2>1. TAKE n \in 1 .. k
  <2>2. n - 1 \in 0 .. k
    BY <1>1
  <2>3. f[n - 1] \in T /\ f[n] = G[<<f[n - 1], n>>]
    BY <2>2, <1>5 DEF Follows
  <2>4. QED
    BY <2>3
<1>7. Is(f)
  <2> DEFINE h == [n \in 0 .. k |-> IF n = 0 THEN x ELSE Moved(code, f[n - 1], n)]
  <2>1. \A n \in 0 .. k : f[n] = h[n]
    BY <1>1, <1>5, <1>6 DEF Follows
  <2>2. f = h
    BY <2>1, <1>5 DEF Follows
  <2>3. QED
    BY <2>2
<1>8. Is(upTo)
  BY <1>7
<1> HIDE DEF upTo
<1>9. upTo[0] = x /\ \A n \in 1 .. k : upTo[n] = Moved(code, upTo[n - 1], n)
  <2>1. upTo[0] = x
    BY <1>1, <1>8
  <2>2. ASSUME NEW n \in 1 .. k
        PROVE  upTo[n] = Moved(code, upTo[n - 1], n)
    <3>1. n \in 0 .. k /\ n # 0
      BY <1>1
    <3>2. QED
      BY <3>1, <1>8
  <2>3. QED
    BY <2>1, <2>2
<1> DEFINE OK == {n \in 0 .. k : OnTrack(code, upTo[n], n)}
           id == [n \in 0 .. k |-> n]
<1>10. \A n \in 0 .. k : id[n] \in OK
  <2>1. id[0] \in OK
    <3>1. x.listed = <<>> /\ x.begin = 0 /\ x.next = 0
      BY DEF x
    <3>2. OnTrack(code, x, 0)
      BY <3>1 DEF OnTrack
    <3>3. QED
      BY <3>2, <1>1, <1>9
  <2>2. \A n \in 1 .. k : id[n - 1] \in OK => id[n] \in OK
    <3>1. SUFFICES ASSUME NEW n \in 1 .. k, id[n - 1] \in OK
                   PROVE  id[n] \in OK
      OBVIOUS
    <3>2. n - 1 \in 0 .. k /\ n \in 0 .. k /\ n \in 1 .. Len(code)
      BY <1>1 DEF k
    <3>3. OnTrack(code, upTo[n - 1], n - 1)
      BY <3>1, <3>2
    <3>4. OnTrack(code, upTo[n], n)
      BY <3>2, <3>3, <1>9, MovedIsOnTrack
    <3>5. QED
      BY <3>2, <3>4
  <2> HIDE DEF OK, id
  <2>3. QED
    BY <2>1, <2>2, <1>1, RecursionKeeps, Zenon
<1>11. OnTrack(code, upTo[k], k)
  BY <1>1, <1>10
<1>12. QED
  BY <1>2, <1>11 DEF OnTrack, k

(* Every instruction of a compiled function is listed but for those behind *)
(* a JUMP, provided each of those is one byte long.                        *)
THEOREM ListingIsComplete == Spec => []ListsAllButOne
<1>1. IInv => ListsAllButOne
  <2>1. ASSUME IInv, NEW f \in ToSet(functions)
        PROVE  f.code \in Seq(Instruction)
    <3>1. LaidOut(f, functions)
      BY <2>1, CompiledAreLaidOut
    <3>2. QED
      BY <3>1 DEF LaidOut, Layout
  <2>2. QED
    BY <2>1, ListedFacts DEF ListsAllButOne, Skipped
<1>2. QED
  BY <1>1, CompilerInvariant, PTL

-----------------------------------------------------------------------------
(* Upvalues lead home.                                                     *)

(* No number that is cut to a byte is cut: no level of a scope and no list *)
(* of upvalues outgrows what a byte can count.                             *)
BytesSuffice ==
  \A k \in 1 .. Len(chunks) :
    /\ Len(chunks[k].upvalues) < ByteSize
    /\ \A l \in 1 .. Len(chunks[k].scope) : Len(chunks[k].scope[l]) < ByteSize

LEMMA AddUpvalueIndex ==
  ASSUME NEW c \in ChunkSet, NEW u \in Upvalue, NEW n, n = AddUpvalue(c, u)
  PROVE  /\ UpvalueIndex(n, u) \in 1 .. Len(c.upvalues) + 1
         /\ n.upvalues[UpvalueIndex(n, u)] = u
<1> DEFINE seq == c.upvalues
           more == Append(seq, u)
           T == {0} \cup {i \in DOMAIN n.upvalues : n.upvalues[i] = u}
<1>1. seq \in Seq(Upvalue) /\ Len(seq) \in Nat
  BY DEF ChunkSet
<1>2. /\ more \in Seq(Upvalue) /\ Len(more) = Len(seq) + 1 /\ more[Len(seq) + 1] = u
  BY <1>1, AppendProperties
<1>3. UpvalueIndex(n, u) = Max(T)
  BY DEF UpvalueIndex, IndexIn
<1>4. T \subseteq 0 .. Len(seq) + 1 /\ \E i \in T : i # 0
  <2>1. CASE UpvalueIndex(c, u) # 0
    <3> DEFINE S == {0} \cup {i \in DOMAIN seq : seq[i] = u}
    <3>1. n.upvalues = seq
      BY <2>1 DEF AddUpvalue
    <3>2. S \subseteq 0 .. Len(seq) /\ S # {}
      BY <1>1
    <3>3. Max(S) \in S /\ Max(S) # 0
      BY <2>1, <3>2, <1>1, MaxIsGreatest DEF UpvalueIndex, IndexIn
    <3>4. T = S
      BY <3>1
    <3>5. 0 .. Len(seq) \subseteq 0 .. Len(seq) + 1
      BY <1>1
    <3> HIDE DEF S, T
    <3>6. QED
      BY <3>2, <3>3, <3>4, <3>5
  <2>2. CASE UpvalueIndex(c, u) = 0
    <3>1. n.upvalues = more
      BY <2>2 DEF AddUpvalue, ChunkSet
    <3> HIDE DEF more
    <3>2. DOMAIN n.upvalues = 1 .. Len(seq) + 1 /\ n.upvalues[Len(seq) + 1] = u
      BY <3>1, <1>2
    <3>3. Len(seq) + 1 \in T /\ Len(seq) + 1 # 0
      BY <3>2, <1>1
    <3>4. T \subseteq 0 .. Len(seq) + 1
      BY <3>2, <1>1
    <3>5. QED
      BY <3>3, <3>4
  <2>3. QED
    BY <2>1, <2>2
<1>5. Max(T) \in T /\ \A i \in T : i <= Max(T)
  <2>1. Len(seq) + 1 \in Nat /\ T # {}
    BY <1>1
  <2> HIDE DEF T
  <2>2. QED
    BY <2>1, <1>4, MaxIsGreatest
<1>6. Max(T) # 0
  <2>1. PICK i \in T : i # 0
    BY <1>4
  <2>2. i \in 0 .. Len(seq) + 1 /\ i <= Max(T) /\ Max(T) \in 0 .. Len(seq) + 1
    BY <1>4, <1>5
  <2> HIDE DEF T
  <2>3. QED
    BY <2>1, <2>2, <1>1
<1>7. Max(T) \in 1 .. Len(seq) + 1 /\ n.upvalues[Max(T)] = u
  <2> DEFINE z == Max(T)
  <2>1. z \in T /\ z # 0 /\ z \in 0 .. Len(seq) + 1
    BY <1>4, <1>5, <1>6
  <2> HIDE DEF z
  <2>2. n.upvalues[z] = u
    BY <2>1
  <2>3. z \in 1 .. Len(seq) + 1
    BY <2>1, <1>1
  <2>4. QED
    BY <2>2, <2>3 DEF z
<1>8. QED
  BY <1>3, <1>7

(* The functions after the n-th link: each has got its upvalue, and those  *)
(* below have the upvalues they had.                                       *)
Chained(cs, owner, link, n) ==
  /\ \A i \in 1 .. n :
       /\ link[i].index \in Nat
       /\ link[n].chunks[owner + i].upvalues[link[i].index + 1]
            = [index |-> link[i - 1].index, isLocal |-> i = 1]
  /\ \A k \in owner + n + 1 .. Len(cs) :
       link[n].chunks[k].upvalues = cs[k].upvalues

LEMMA LinkChains ==
  ASSUME NEW cs \in Seq(ChunkSet), NEW owner \in 1 .. Len(cs) - 1, NEW link,
         NEW n \in 1 .. Len(cs) - owner,
         link[n - 1] \in LinkSet(cs), link[n] = Link(link[n - 1], owner + n, n = 1),
         Len(cs[owner + n].upvalues) < ByteSize,
         Chained(cs, owner, link, n - 1)
  PROVE  Chained(cs, owner, link, n)
<1> DEFINE l == link[n - 1]
           at == owner + n
           first == n = 1
           u == [index |-> l.index, isLocal |-> first]
           c == AddUpvalue(l.chunks[at], u)
           z == UpvalueIndex(c, u)
           ds == [l.chunks EXCEPT ![at] = c]
<1>1. /\ l.chunks \in Seq(ChunkSet) /\ l.index \in Nat /\ Len(l.chunks) = Len(cs)
      /\ at \in 1 .. Len(l.chunks) /\ l.chunks[at] \in ChunkSet
      /\ n \in Nat \ {0} /\ owner \in Nat /\ Len(cs) \in Nat
  BY DEF LinkSet, Threaded
<1>2. u \in Upvalue
  BY <1>1 DEF Upvalue
<1>3. link[n] = [chunks |-> ds, index |-> Byte(z - 1)]
  BY DEF Link
<1>4. l.chunks[at].upvalues = cs[at].upvalues
  <2>1. at \in owner + (n - 1) + 1 .. Len(cs)
    BY <1>1
  <2>2. QED
    BY <2>1 DEF Chained
<1> HIDE DEF u
<1>5. c \in ChunkSet
  BY <1>1, <1>2, AddUpvalueFacts
<1>6. z \in 1 .. Len(cs[at].upvalues) + 1 /\ c.upvalues[z] = u
  BY <1>1, <1>2, <1>4, AddUpvalueIndex
<1>7. Len(cs[at].upvalues) \in Nat /\ Len(cs[at].upvalues) < ByteSize
  <2>1. cs[at] \in ChunkSet
    BY <1>1
  <2>2. cs[at].upvalues \in Seq(Upvalue)
    BY <2>1 DEF ChunkSet
  <2>3. QED
    BY <2>2
<1> HIDE DEF c, z, l, at
<1>8. Byte(z - 1) = z - 1 /\ z - 1 \in Nat
  <2>1. z - 1 \in Nat /\ z - 1 < ByteSize
    BY <1>6, <1>7, ByteAssumption
  <2>2. QED
    BY <2>1, SmallByte
<1>9. /\ Len(ds) = Len(cs)
      /\ \A j \in 1 .. Len(cs) : ds[j] = IF j = at THEN c ELSE l.chunks[j]
  BY <1>1, <1>5, ExceptSeq
<1> HIDE DEF ds
<1>10. link[n].chunks = ds /\ link[n].index = z - 1
  BY <1>3, <1>8
<1>11. ASSUME NEW i \in 1 .. n
       PROVE  /\ link[i].index \in Nat
              /\ ds[owner + i].upvalues[link[i].index + 1]
                   = [index |-> link[i - 1].index, isLocal |-> i = 1]
  <2>1. CASE i = n
    <3>1. owner + i = at /\ at \in 1 .. Len(cs)
      BY <2>1, <1>1 DEF at
    <3>2. ds[owner + i] = c
      BY <3>1, <1>9
    <3>3. link[i].index \in Nat /\ link[i].index + 1 = z
      BY <2>1, <1>6, <1>7, <1>8, <1>10
    <3>4. link[i - 1] = l /\ (i = 1) = first
      BY <2>1 DEF l
    <3>5. QED
      BY <3>2, <3>3, <3>4, <1>6 DEF u
  <2>2. CASE i # n
    <3>1. i \in 1 .. n - 1 /\ owner + i \in 1 .. Len(cs) /\ owner + i # at
      BY <2>2, <1>1 DEF at
    <3>2. ds[owner + i] = l.chunks[owner + i]
      BY <3>1, <1>9
    <3>3. QED
      BY <3>1, <3>2 DEF Chained, l
  <2>3. QED
    BY <2>1, <2>2
<1>12. ASSUME NEW k \in owner + n + 1 .. Len(cs)
       PROVE  ds[k].upvalues = cs[k].upvalues
  <2>1. k \in 1 .. Len(cs) /\ k # at /\ k \in owner + (n - 1) + 1 .. Len(cs)
    BY <1>1 DEF at
  <2>2. ds[k] = l.chunks[k]
    BY <2>1, <1>9
  <2>3. QED
    BY <2>1, <2>2 DEF Chained, l
<1>13. QED
  BY <1>10, <1>11, <1>12 DEF Chained

(* Climbing the finished thread: each step undoes one link.                *)
LEMMA Ascends ==
  ASSUME NEW ds, NEW i, NEW j, NEW first, NEW k,
         ds[k].upvalues[i + 1] = [index |-> j, isLocal |-> first]
  PROVE  Ascend(ds, [found |-> FALSE, index |-> i, chunk |-> k], k)
           = [found |-> first, index |-> j, chunk |-> k - 1]
BY DEF Ascend

LEMMA ThreadOrigin ==
  ASSUME NEW cs \in Seq(ChunkSet), NEW owner \in 1 .. Len(cs) - 1, NEW link,
         NEW N, N = Len(cs) - owner, Chained(cs, owner, link, N), NEW ds, ds = link[N].chunks
  PROVE  Origin(ds, Len(cs), link[N].index) = <<owner, link[0].index>>
<1> DEFINE K == Len(cs)
           Below(n) == [found |-> FALSE, index |-> link[N - n].index, chunk |-> K - n]
           home == [found |-> TRUE, index |-> link[0].index, chunk |-> owner]
           h == [n \in 0 .. K - 1 |-> IF n < N THEN Below(n) ELSE home]
           x == [found |-> FALSE, index |-> link[N].index, chunk |-> K]
           Is(f) == f = [n \in 0 .. K - 1 |->
                           IF n = 0 THEN x ELSE Ascend(ds, f[n - 1], K + 1 - n)]
           at == CHOOSE f : Is(f)
<1>1. /\ K \in Nat /\ owner \in Nat /\ N \in Nat /\ 0 < N /\ N <= K - 1 /\ 0 < owner
      /\ K - N = owner /\ K = owner + N
  OBVIOUS
<1>2. Origin(ds, K, link[N].index) = <<at[K - 1].chunk, at[K - 1].index>>
  BY DEF Origin
<1>3. x = Below(0)
  BY <1>1
<1> HIDE DEF x, K, Below
<1>4. ASSUME NEW n \in 1 .. K - 1, n <= N
      PROVE  Ascend(ds, Below(n - 1), K + 1 - n) = IF n < N THEN Below(n) ELSE home
  <2> DEFINE i == N - n + 1
             k == owner + i
  <2>1. /\ i \in 1 .. N /\ i \in Nat \ {0} /\ k \in Nat /\ k = K + 1 - n /\ k = K - (n - 1)
        /\ i = N - (n - 1) /\ i - 1 = N - n /\ k - 1 = K - n
        /\ (n < N <=> i # 1) /\ (i = 1 => k - 1 = owner /\ i - 1 = 0)
    BY <1>1, <1>4
  <2>2. ds[k].upvalues[link[i].index + 1] = [index |-> link[i - 1].index, isLocal |-> i = 1]
    BY <2>1 DEF Chained
  <2>3. Below(n - 1) = [found |-> FALSE, index |-> link[i].index, chunk |-> k]
    BY <2>1 DEF Below
  <2> HIDE DEF i, k
  <2>4. Ascend(ds, Below(n - 1), k) = [found |-> i = 1, index |-> link[i - 1].index, chunk |-> k - 1]
    <3>1. Ascend(ds, [found |-> FALSE, index |-> link[i].index, chunk |-> k], k)
            = [found |-> i = 1, index |-> link[i - 1].index, chunk |-> k - 1]
      BY <2>2, Ascends
    <3>2. QED
      BY <3>1, <2>3
  <2>5. CASE i = 1
    BY <2>1, <2>4, <2>5
  <2>6. CASE i # 1
    <3>1. Below(n) = [found |-> i = 1, index |-> link[i - 1].index, chunk |-> k - 1]
      BY <2>1, <2>6 DEF Below
    <3>2. QED
      BY <3>1, <2>1, <2>4, <2>6
  <2>7. QED
    BY <2>5, <2>6
<1>5. \A n \in 1 .. K - 1 : h[n] = Ascend(ds, h[n - 1], K + 1 - n)
  <2>1. TAKE n \in 1 .. K - 1
  <2>2. n - 1 \in 0 .. K - 1 /\ n \in 0 .. K - 1
    BY <1>1
  <2>3. CASE n <= N
    <3>1. n - 1 < N
      BY <2>3, <1>1
    <3>2. h[n - 1] = Below(n - 1) /\ h[n] = IF n < N THEN Below(n) ELSE home
      BY <2>2, <3>1
    <3>3. QED
      BY <3>2, <2>3, <1>4
  <2>4. CASE ~ n <= N
    <3>1. ~ n - 1 < N /\ ~ n < N
      BY <2>4, <1>1
    <3>2. h[n - 1] = home /\ h[n] = home
      BY <2>2, <3>1
    <3>3. Ascend(ds, home, K + 1 - n) = home
      BY DEF Ascend
    <3>4. QED
      BY <3>2, <3>3
  <2>5. QED
    BY <2>3, <2>4
<1>6. h[0] = x
  BY <1>1, <1>3
<1>7. Is(h)
  <2> DEFINE f == [n \in 0 .. K - 1 |-> IF n = 0 THEN x ELSE Ascend(ds, h[n - 1], K + 1 - n)]
  <2>1. \A n \in 0 .. K - 1 : h[n] = f[n]
    <3>1. TAKE n \in 0 .. K - 1
    <3>2. CASE n = 0
      BY <3>2, <1>6
    <3>3. CASE n # 0
      <4>1. n \in 1 .. K - 1
        BY <3>3, <1>1
      <4>2. f[n] = Ascend(ds, h[n - 1], K + 1 - n)
        <5> HIDE DEF h
        <5>1. QED
          BY <3>3
      <4> HIDE DEF f, h
      <4>3. QED
        BY <4>1, <4>2, <1>5
    <3>4. QED
      BY <3>2, <3>3
  <2>2. h = [n \in 0 .. K - 1 |-> h[n]]
    OBVIOUS
  <2>3. f = [n \in 0 .. K - 1 |-> f[n]]
    OBVIOUS
  <2>4. QED
    BY <2>1, <2>2, <2>3
<1> HIDE DEF h
<1>8. Is(at)
  BY <1>7
<1> HIDE DEF at
<1>9. at[0] = h[0] /\ \A n \in 1 .. K - 1 : at[n] = Ascend(ds, at[n - 1], K + 1 - n)
  <2>1. \A n \in 0 .. K - 1 : at[n] = IF n = 0 THEN x ELSE Ascend(ds, at[n - 1], K + 1 - n)
    BY <1>8
  <2>2. 0 \in 0 .. K - 1 /\ \A n \in 1 .. K - 1 : n \in 0 .. K - 1 /\ n # 0
    BY <1>1
  <2>3. QED
    BY <2>1, <2>2, <1>6
<1> DEFINE Same == {n \in 0 .. K - 1 : at[n] = h[n]}
           id == [n \in 0 .. K - 1 |-> n]
<1>10. \A n \in 0 .. K - 1 : id[n] \in Same
  <2>1. 0 \in 0 .. K - 1 /\ id[0] = 0
    BY <1>1
  <2>2. id[0] \in Same
    BY <2>1, <1>9
  <2>3. \A n \in 1 .. K - 1 : id[n - 1] \in Same => id[n] \in Same
    <3>1. TAKE n \in 1 .. K - 1
    <3>2. n - 1 \in 0 .. K - 1 /\ n \in 0 .. K - 1
      BY <1>1
    <3>3. at[n - 1] = h[n - 1] => at[n] = h[n]
      BY <1>5, <1>9
    <3>4. QED
      BY <3>2, <3>3
  <2>4. K - 1 \in Nat
    BY <1>1
  <2> HIDE DEF Same, id
  <2>5. QED
    BY <2>2, <2>3, <2>4, RecursionKeeps, Zenon
<1>11. at[K - 1] = home
  <2>1. K - 1 \in 0 .. K - 1 /\ ~ K - 1 < N
    BY <1>1
  <2>2. at[K - 1] = h[K - 1]
    BY <2>1, <1>10
  <2>3. QED
    BY <2>1, <2>2 DEF h
<1>12. QED
  BY <1>2, <1>11 DEF K

LEMMA ThreadLeadsHome ==
  ASSUME NEW cs \in Seq(ChunkSet), NEW name, NEW owner \in 1 .. Len(cs) - 1,
         GoodScope(cs[owner].scope), NEW slot \in Nat, slot < ByteSize,
         Find(cs[owner].scope, name) = slot, slot # Absent,
         \A k \in 1 .. Len(cs) : Len(cs[k].upvalues) < ByteSize
  PROVE  Origin(Thread(cs, name, owner).chunks, Len(cs), Thread(cs, name, owner).index)
           = <<owner, slot>>
<1> DEFINE N == Len(cs) - owner
<1>1. PICK link : Links(cs, name, owner, link)
  BY ThreadLinks
<1>2. /\ link[0] = FirstLink(cs, name, owner)
      /\ \A n \in 1 .. N : link[n] = Link(link[n - 1], owner + n, n = 1)
      /\ \A n \in 0 .. N : link[n] \in LinkSet(cs)
      /\ Thread(cs, name, owner) = link[N]
  BY <1>1 DEF Links
<1>3. N \in Nat /\ owner \in Nat /\ Len(cs) \in Nat /\ N = Len(cs) - owner
  OBVIOUS
<1>4. link[0].index = slot
  <2>1. Byte(slot) = slot
    BY SmallByte
  <2>2. QED
    BY <2>1, <1>2 DEF FirstLink
<1>5. Chained(cs, owner, link, 0)
  <2>1. \A k \in owner + 0 + 1 .. Len(cs) : link[0].chunks[k].upvalues = cs[k].upvalues
    <3>1. TAKE k \in owner + 0 + 1 .. Len(cs)
    <3>2. k \in 1 .. Len(cs) /\ k # owner
      BY <1>3
    <3>3. link[0].chunks[k] = cs[k]
      BY <1>2, <3>2 DEF FirstLink, Captured
    <3>4. QED
      BY <3>3
  <2>2. QED
    BY <2>1 DEF Chained
<1> DEFINE OK == {n \in 0 .. N : Chained(cs, owner, link, n)}
           id == [n \in 0 .. N |-> n]
<1> HIDE DEF N
<1>6. \A n \in 0 .. N : id[n] \in OK
  <2>1. id[0] \in OK
    BY <1>3, <1>5
  <2>2. \A n \in 1 .. N : id[n - 1] \in OK => id[n] \in OK
    <3>1. SUFFICES ASSUME NEW n \in 1 .. N, id[n - 1] \in OK
                   PROVE  id[n] \in OK
      OBVIOUS
    <3>2. /\ n - 1 \in 0 .. N /\ n \in 0 .. N /\ n \in 1 .. Len(cs) - owner
          /\ owner + n \in 1 .. Len(cs)
      BY <1>3
    <3>3. Chained(cs, owner, link, n - 1)
      BY <3>1, <3>2
    <3>4. /\ link[n - 1] \in LinkSet(cs) /\ link[n] = Link(link[n - 1], owner + n, n = 1)
          /\ Len(cs[owner + n].upvalues) < ByteSize
      BY <1>2, <3>2
    <3>5. Chained(cs, owner, link, n)
      BY <3>2, <3>3, <3>4, LinkChains
    <3>6. QED
      BY <3>2, <3>5
  <2> HIDE DEF OK, id
  <2>3. QED
    BY <2>1, <2>2, <1>3, RecursionKeeps, Zenon
<1>7. Chained(cs, owner, link, N)
  BY <1>3, <1>6
<1> DEFINE ds == link[N].chunks
<1>8. Origin(ds, Len(cs), link[N].index) = <<owner, link[0].index>>
  BY <1>3, <1>7, ThreadOrigin
<1>9. QED
  BY <1>2, <1>4, <1>8

(* A name that is not a local resolves to an upvalue whose chain of        *)
(* descriptors ends at the slot of that name in the nearest function that  *)
(* declares it, as long as no slot and no index of an upvalue is cut to a  *)
(* byte.                                                                   *)
THEOREM DescriptorsLeadHome == Spec => [](BytesSuffice => UpvaluesLeadHome)
<1>1. IInv => (BytesSuffice => UpvaluesLeadHome)
  <2>1. SUFFICES ASSUME IInv, BytesSuffice, status = "compiling", NEW name \in Name,
                        ~ Unresolvable(chunks, name),
                        NEW r, r = Resolve(chunks, name),
                        NEW owner, owner = Owner(chunks, name), r.get = "GET_UPVALUE"
                 PROVE  Origin(r.chunks, Len(chunks), r.operand)
                          = <<owner, Find(chunks[owner].scope, name)>>
    BY DEF UpvaluesLeadHome
  <2> DEFINE here == Len(chunks)
             offset == Find(chunks[here].scope, name)
             thread == Thread(chunks, name, owner)
             scope == chunks[owner].scope
             slot == Find(scope, name)
  <2>2. /\ chunks \in Seq(ChunkSet) /\ chunks # <<>>
        /\ \A k \in 1 .. Len(chunks) : GoodScope(chunks[k].scope)
    BY <2>1 DEF IInv, Compiles
  <2>3. offset = Absent /\ owner # 0 /\ r.chunks = thread.chunks /\ r.operand = thread.index
    BY <2>1 DEF Resolve
  <2>4. owner \in 1 .. here - 1 /\ slot # Absent
    BY <2>1, <2>2, <2>3, OwnerFacts
  <2>5. slot # Uninitialized
    BY <2>1, <2>3 DEF Unresolvable
  <2>6. owner \in 1 .. here /\ GoodScope(scope)
    BY <2>2, <2>4
  <2>7. slot \in Nat /\ slot < ByteSize
    <3> HIDE DEF slot, scope
    <3>1. PICK l \in 1 .. Len(scope) : \E i \in 1 .. Len(scope[l]) : slot = i
      BY <2>4, <2>5, <2>6, FindFacts DEF slot, GoodScope
    <3>2. PICK i \in 1 .. Len(scope[l]) : slot = i
      BY <3>1
    <3>3. Len(scope[l]) < ByteSize
      BY <2>1, <2>6 DEF BytesSuffice, scope
    <3>4. Len(scope[l]) \in Nat
      BY <2>6, LevelFacts DEF GoodScope
    <3>5. QED
      BY <3>2, <3>3, <3>4, ByteAssumption
  <2>8. \A k \in 1 .. here : Len(chunks[k].upvalues) < ByteSize
    BY <2>1 DEF BytesSuffice
  <2> HIDE DEF here
  <2>9. Origin(thread.chunks, Len(chunks), thread.index) = <<owner, slot>>
    <3> HIDE DEF slot
    <3>1. Find(chunks[owner].scope, name) = slot
      BY DEF slot
    <3>2. QED
      BY <2>2, <2>4, <2>6, <2>7, <2>8, <3>1, ThreadLeadsHome DEF here
  <2>10. QED
    BY <2>3, <2>9
<1>2. QED
  BY <1>1, CompilerInvariant, PTL

=============================================================================
