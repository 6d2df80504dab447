------------------------------ MODULE Compiler ------------------------------
(***************************************************************************)
(* The single-pass compiler, class Parser of compiler/Parser.cpp: a        *)
(* recursive-descent parser that emits code while it reads.                *)
(*                                                                         *)
(* The calls in progress are kept in todo, the C++ stack made explicit:    *)
(* the head is what the parser does next, and a function that calls        *)
(* another puts what it does after that call behind it.  The source text   *)
(* is chosen as it is read: where the code asks for the next token, the    *)
(* model takes any branch.  Programs are bounded by fuel.                  *)
(***************************************************************************)
EXTENDS Chunk, Functions

(* A grammar is the part of the language that an instance reads:           *)
(*   productions   see On                                                  *)
(*   names         identifiers                                             *)
(*   operators     binary operators                                        *)
(*   fuel          bound: choices that make a program longer               *)
(*   depth         bound: blocks and loops open inside scopes up to this   *)
(*   arity         bound: parameters, and arguments                        *)
CONSTANT Grammars

VARIABLES
  grammar,     \* of the program that is being compiled
  chunks,      \* the functions being compiled, the innermost last
  todo,        \* what the parser has still to do
  functions,   \* the FunctionObjects made, the script last
  ceiling,     \* the current token binds less tightly than this
  fuel,
  status       \* "compiling", "compiled", "undefined", or the error thrown

vars == <<grammar, chunks, todo, functions, ceiling, fuel, status>>

(* enum class Precedence                                                   *)
ASSIGNMENT == 1
OR         == 2
AND        == 3
UNARY      == 8
CALL       == 9
Anything   == 11

(* One binary operator of each precedence.                                 *)
PrecedenceOf ==
  [EQUAL |-> 4, LESS |-> 5, ADD |-> 6, MULTIPLY |-> 7]

(* A keyword is no identifier.                                             *)
ASSUME CompilerAssumption ==
  \A g \in Grammars :
    /\ "super" \notin g.names
    /\ g.operators \subseteq DOMAIN PrecedenceOf
    /\ g.fuel \in Nat /\ g.depth \in Nat /\ g.arity \in Nat

On(production) == production \in grammar.productions
Name           == grammar.names

(* What is left to do, as entries of todo.                                 *)
Declaration(d)   == <<"declaration", d>>
Statement(d)     == <<"statement", d>>
Block(d)         == <<"block", d>>
Precedence(p, d) == <<"precedence", p, d>>
Expression(d)    == Precedence(ASSIGNMENT, d)
Arguments(n, d)  == [i \in 1 .. n |-> Expression(d)]
ThenEmit(code)   == <<"emit", code>>
ThenConstant(op, value, operands) == <<"constant", op, value, operands>>
ThenDefine(name, d) == <<"define", name, d>>
ThenPatch(at)    == <<"patch", at>>
ThenRead(name)   == <<"read", name>>
EndOfFunction    == <<"endFunction">>
RightParen       == <<"paren">>

Doing(what) == status = "compiling" /\ Head(todo)[1] = what
Arg(i)      == Head(todo)[i + 1]

Current    == Last(chunks)
With(chunk) == [chunks EXCEPT ![Len(chunks)] = chunk]

Spend(n) == fuel >= n /\ fuel' = fuel - n

(* The head of todo is done when `items' are, and chunks is now cs.        *)
Continue(cs, items) ==
  /\ chunks' = cs
  /\ todo' = items \o Tail(todo)
  /\ UNCHANGED <<grammar, functions, status>>

(* Parser::run catches the error; the chunks are gone.                     *)
Fail(error) ==
  /\ status' = error
  /\ chunks' = <<>>
  /\ todo' = <<>>
  /\ UNCHANGED <<grammar, functions>>

Init ==
  /\ grammar \in Grammars
  /\ chunks = <<NewChunk("SCRIPT")>>
  /\ todo = << <<"program">> >>
  /\ functions = <<>>
  /\ ceiling = Anything
  /\ fuel = grammar.fuel
  /\ status = "compiling"

-----------------------------------------------------------------------------
(* Variables                                                               *)

Redeclared(name, d) == d > 0 /\ Defined(Current.scope, name, d)

Declared(chunk, name, d) ==
  IF d = 0 THEN chunk
  ELSE [chunk EXCEPT !.scope = Declare(@, name, d)]

Define(chunk, name, d) ==
  IF d = 0 THEN EmitConstant(chunk, "DEFINE_GLOBAL", Text(name), <<>>)
  ELSE [chunk EXCEPT !.scope = Initialize(@, name, d)]

DeclareAndDefine(chunk, name, d) == Define(Declared(chunk, name, d), name, d)

(* namedVariable without an assignment.                                    *)
Named(cs, name) ==
  LET r == Resolve(cs, name)
  IN  [r.chunks EXCEPT ![Len(cs)] = Emit(@, << <<r.get, r.operand>> >>)]

(* Variant of EndScope: captured locals are popped like the others.        *)
EndScopePopping(chunk, d) ==
  LET locals == chunk.scope[d + 1]
      code   == [i \in 1 .. Len(locals) |-> <<"POP">>]
  IN  [Emit(chunk, code) EXCEPT !.scope = PopScope(@)]

(* endScope: the locals leave the stack, the newest first.                 *)
EndScope(chunk, d) ==
  LET locals == Reverse(chunk.scope[d + 1])
      code   == [i \in 1 .. Len(locals) |->
                   IF locals[i].isCaptured THEN <<"CLOSE_UPVALUE">>
                                           ELSE <<"POP">>]
  IN  [Emit(chunk, code) EXCEPT !.scope = PopScope(@)]

StartScope(d) == With([Current EXCEPT !.scope = PushScope(@, d)])

-----------------------------------------------------------------------------
(* Declarations                                                            *)

(* Parser::run: declarations up to the end of the source, then end().      *)
Program ==
  /\ Doing("program")
  /\ \/ /\ Spend(1)
        /\ Continue(chunks, <<Declaration(0), Head(todo)>>)
     \/ /\ Spend(0)
        /\ functions' = Append(functions, Finished(EmitReturnNil(Current)))
        /\ status' = "compiled"
        /\ chunks' = <<>>
        /\ todo' = <<>>
        /\ UNCHANGED grammar
  /\ UNCHANGED ceiling

VariableDeclaration ==
  /\ Doing("declaration") \/ Doing("variable")
  /\ On("var")
  /\ LET d == Arg(1)
     IN \E name \in Name :
          IF Redeclared(name, d) THEN Fail("redefined")
          ELSE LET declared == Declared(Current, name, d)
               IN \/ Continue(With(declared),
                              <<Expression(d), ThenDefine(name, d)>>)
                  \/ Continue(With(Emit(declared, << <<"NIL">> >>)),
                              <<ThenDefine(name, d)>>)
  /\ UNCHANGED <<ceiling, fuel>>

(* function() up to its body: the chunk of a function, with its parameters.*)
NewFunction(params, kind, d) ==
  LET bare == [NewChunk(kind) EXCEPT
                 !.scope = PushScope(@, d + 1),
                 !.arity = Len(params),
                 !.type = Current.type,
                 !.enclosingType = Current.enclosingType,
                 !.hasSuperclass = Current.hasSuperclass]
      with[n \in 0 .. Len(params)] ==
        IF n = 0 THEN bare
        ELSE DeclareAndDefine(with[n - 1], params[n], d + 1)
  IN  with[Len(params)]

Parameters == BoundedSeq(Name, grammar.arity)

FunctionDeclaration ==
  /\ Doing("declaration")
  /\ On("fun")
  /\ LET d == Arg(1)
     IN \E name \in Name, params \in Parameters :
          IF Redeclared(name, d) \/ ~ IsInjective(params) THEN Fail("redefined")
          ELSE Continue(Append(With(Declared(Current, name, d)),
                               NewFunction(params, "FUNCTION", d)),
                        <<Block(d + 1), EndOfFunction, ThenDefine(name, d)>>)
  /\ UNCHANGED <<ceiling, fuel>>

(* function() after the body: the return it adds, unless the body is empty *)
(* or looks as if it ended in one.                                         *)
Completed(chunk) ==
  IF chunk.code = <<>> THEN chunk
  ELSE IF chunk.kind = "CONSTRUCTOR"
    THEN Emit(chunk, << <<"GET_LOCAL", 0>>, <<"RETURN">> >>)
  ELSE IF EndsInReturnByte(chunk) THEN chunk
  ELSE EmitReturnNil(chunk)

EndFunction ==
  /\ Doing("endFunction")
  /\ IF /\ Current.kind = "CONSTRUCTOR"
        /\ Current.code # <<>>
        /\ EndsInReturnByte(Current)
       THEN Fail("init returns")
       ELSE /\ functions' = Append(functions, Finished(Completed(Current)))
            /\ LET outer == Front(chunks)
               IN chunks' = [outer EXCEPT ![Len(outer)] =
                    EmitConstant(@, "CLOSURE", Function(Len(functions')), <<>>)]
            /\ todo' = Tail(todo)
            /\ UNCHANGED <<grammar, status>>
  /\ UNCHANGED <<ceiling, fuel>>

(* class klass, or class klass < parent.                                   *)
ClassDeclared(klass, d) ==
  With(Define(EmitConstant(Declared(Current, klass, d),
                           "CLASS", Text(klass), <<>>), klass, d))

Inherits(klass, parent, d) ==
  <<ThenRead(parent), <<"superclass", klass, parent, d>>,
    ThenRead(klass), ThenEmit(<< <<"INHERIT">> >>)>>

ClassDeclaration ==
  /\ Doing("declaration")
  /\ On("class")
  /\ LET d == Arg(1)
     IN \E klass \in Name :
          IF Redeclared(klass, d) THEN Fail("redefined")
          ELSE \E heading \in {<<>>} \cup
                               {Inherits(klass, parent, d) :
                                  parent \in IF On("super") THEN Name ELSE {}} :
                 Continue(ClassDeclared(klass, d),
                          heading \o <<ThenRead(klass), <<"class", d>> >>)
  /\ UNCHANGED <<ceiling, fuel>>

(* The superclass, which is on the stack now, becomes the local `super'.   *)
Superclass ==
  /\ Doing("superclass")
  /\ LET d == Arg(3)
     IN IF Arg(1) = Arg(2) THEN Fail("class")
        ELSE Continue(With([DeclareAndDefine(
                              [Current EXCEPT !.scope = PushScope(@, d + 1)],
                              "super", d + 1) EXCEPT !.hasSuperclass = TRUE]),
                      <<>>)
  /\ UNCHANGED <<ceiling, fuel>>

BeginClass ==
  /\ Doing("class")
  /\ Continue(With([Current EXCEPT !.enclosingType = Current.type,
                                   !.type = "CLASS"]),
              << <<"methods", Arg(1)>> >>)
  /\ UNCHANGED <<ceiling, fuel>>

MethodDeclaration ==
  /\ Doing("methods")
  /\ Spend(1)
  /\ LET d == Arg(1)
     IN \E name \in Name \cup {"init"}, params \in Parameters :
          IF ~ IsInjective(params) THEN Fail("redefined")
          ELSE Continue(
                 Append(chunks,
                        NewFunction(params, IF name = "init" THEN "CONSTRUCTOR"
                                                             ELSE "METHOD", d)),
                 <<Block(d + 1), EndOfFunction,
                   ThenConstant("METHOD", Text(name), <<>>), Head(todo)>>)
  /\ UNCHANGED ceiling

(* Variant of EndClass: the class stays on the stack.                      *)
EndClassNoPop ==
  /\ Doing("methods")
  /\ LET d     == Arg(1)
         class == [Current EXCEPT !.type = Current.enclosingType]
     IN IF ~ class.hasSuperclass THEN Continue(With(class), <<>>)
        ELSE IF d + 1 < Len(class.scope)
          THEN Continue(With(EndScope(class, d + 1)), <<>>)
        ELSE Fail("undefined")
  /\ UNCHANGED <<ceiling, fuel>>

(* The flag hasSuperclass is the chunk's and not the class's: once it is   *)
(* set, the next class ends a scope it has not started.  Its level then    *)
(* does not exist, and locals_[depth] is read out of bounds.               *)
EndClass ==
  /\ Doing("methods")
  /\ LET d     == Arg(1)
         class == [Emit(Current, << <<"POP">> >>) EXCEPT
                     !.type = Current.enclosingType]
     IN IF ~ class.hasSuperclass THEN Continue(With(class), <<>>)
        ELSE IF d + 1 < Len(class.scope)
          THEN Continue(With(EndScope(class, d + 1)), <<>>)
        ELSE Fail("undefined")
  /\ UNCHANGED <<ceiling, fuel>>

-----------------------------------------------------------------------------
(* Statements                                                              *)

(* statement() is also what a declaration is when it is nothing else.      *)
AtStatement == Doing("declaration") \/ Doing("statement")

(* block(): declarations up to the brace.                                  *)
InBlock ==
  /\ Doing("block")
  /\ \/ /\ Spend(1)
        /\ Continue(chunks, <<Declaration(Arg(1)), Head(todo)>>)
     \/ /\ Spend(0)
        /\ Continue(chunks, <<>>)
  /\ UNCHANGED ceiling

BlockStatement ==
  /\ AtStatement
  /\ On("block") /\ Arg(1) < grammar.depth
  /\ LET scope == Arg(1) + 1
     IN Continue(StartScope(scope), <<Block(scope), <<"endScope", scope>> >>)
  /\ UNCHANGED <<ceiling, fuel>>

EndOfScope ==
  /\ Doing("endScope")
  /\ Continue(With(EndScope(Current, Arg(1))), <<>>)
  /\ UNCHANGED <<ceiling, fuel>>

ExpressionStatement ==
  /\ AtStatement \/ Doing("expressionStatement")
  /\ Continue(chunks, <<Expression(Arg(1)), ThenEmit(<< <<"POP">> >>)>>)
  /\ UNCHANGED <<ceiling, fuel>>

PrintStatement ==
  /\ AtStatement /\ On("print")
  /\ Continue(chunks, <<Expression(Arg(1)),
                        ThenEmit(<< <<"PRINT">>, <<"POP">> >>)>>)
  /\ UNCHANGED <<ceiling, fuel>>

ReturnStatement ==
  /\ AtStatement /\ On("return")
  /\ \/ Continue(With(EmitReturnNil(Current)), <<>>)
     \/ Continue(chunks, <<Expression(Arg(1)), ThenEmit(<< <<"RETURN">> >>)>>)
  /\ UNCHANGED <<ceiling, fuel>>

IfStatement ==
  /\ AtStatement /\ On("if") /\ Spend(1)
  /\ Continue(chunks, <<Expression(Arg(1)), <<"then", Arg(1)>> >>)
  /\ UNCHANGED ceiling

IfThen ==
  /\ Doing("then")
  /\ Continue(With(Emit(Current, << <<"JUMP_IF_FALSE", 0>>, <<"POP">> >>)),
              <<Statement(Arg(1)), <<"else", Arg(1), Here(Current)>> >>)
  /\ UNCHANGED <<ceiling, fuel>>

(* Variant of IfElse: the condition stays on the stack when it is false.   *)
IfElseNoPop ==
  /\ Doing("else")
  /\ LET jumped == Emit(Current, << <<"JUMP", 0>> >>)
         cs     == With(PatchJump(jumped, Arg(2)))
         end    == ThenPatch(Here(Current))
     IN \/ Continue(cs, <<end>>) /\ Spend(0)
        \/ Continue(cs, <<Statement(Arg(1)), end>>) /\ Spend(1)
  /\ UNCHANGED ceiling

IfElse ==
  /\ Doing("else")
  /\ LET jumped == Emit(Current, << <<"JUMP", 0>> >>)
         cs     == With(Emit(PatchJump(jumped, Arg(2)), << <<"POP">> >>))
         end    == ThenPatch(Here(Current))
     IN \/ Continue(cs, <<end>>) /\ Spend(0)
        \/ Continue(cs, <<Statement(Arg(1)), end>>) /\ Spend(1)
  /\ UNCHANGED ceiling

WhileStatement ==
  /\ AtStatement /\ On("while") /\ Spend(1)
  /\ Continue(chunks, <<Expression(Arg(1)),
                        <<"whileBody", Arg(1), Here(Current)>> >>)
  /\ UNCHANGED ceiling

WhileBody ==
  /\ Doing("whileBody")
  /\ Continue(With(Emit(Current, << <<"JUMP_IF_FALSE", 0>>, <<"POP">> >>)),
              <<Statement(Arg(1)),
                <<"endLoop", Arg(2), Here(Current)>> >>)
  /\ UNCHANGED <<ceiling, fuel>>

(* The end of while and for: back to `start', and, if there is a condition,*)
(* the exit it jumps to at `exit'.                                         *)
EndOfLoop ==
  /\ Doing("endLoop")
  /\ LET looped == Emit(Current, << <<"LOOP", Arg(1)>> >>)
     IN Continue(With(IF Arg(2) = 0 THEN looped
                      ELSE Emit(PatchJump(looped, Arg(2)), << <<"POP">> >>)),
                 <<>>)
  /\ UNCHANGED <<ceiling, fuel>>

(* for: the initializer in a scope of its own ...                          *)
ForStatement ==
  /\ AtStatement /\ On("for") /\ Arg(1) < grammar.depth /\ Spend(1)
  /\ LET scope == Arg(1) + 1
     IN \E first \in {<<>>, << <<"variable", scope>> >>,
                      << <<"expressionStatement", scope>> >>} :
          Continue(StartScope(scope),
                   first \o << <<"forCondition", scope>>,
                               <<"endScope", scope>> >>)
  /\ UNCHANGED ceiling

(* ... the condition, which may be missing ...                             *)
ForCondition ==
  /\ Doing("forCondition")
  /\ LET scope == Arg(1)
     IN \/ Continue(chunks, << <<"forIncrement", scope, Here(Current), 0>> >>)
        \/ Continue(chunks, <<Expression(scope),
                              <<"forExit", scope, Here(Current)>> >>)
  /\ UNCHANGED <<ceiling, fuel>>

(* Variant of ForExit: the condition stays on the stack when it is true.   *)
ForExitNoPop ==
  /\ Doing("forExit")
  /\ Continue(With(Emit(Current, << <<"JUMP_IF_FALSE", 0>> >>)),
              << <<"forIncrement", Arg(1), Arg(2), Here(Current)>> >>)
  /\ UNCHANGED <<ceiling, fuel>>

ForExit ==
  /\ Doing("forExit")
  /\ Continue(With(Emit(Current, << <<"JUMP_IF_FALSE", 0>>, <<"POP">> >>)),
              << <<"forIncrement", Arg(1), Arg(2), Here(Current)>> >>)
  /\ UNCHANGED <<ceiling, fuel>>

(* ... the increment, which the body comes before in time but not in code  *)
ForIncrement ==
  /\ Doing("forIncrement")
  /\ LET scope == Arg(1)
         start == Arg(2)
         exit  == Arg(3)
         body  == Here(Current)
     IN \/ Continue(chunks, <<Statement(scope), <<"endLoop", start, exit>> >>)
        \/ Continue(With(Emit(Current, << <<"JUMP", 0>> >>)),
                    <<Expression(scope),
                      <<"forBody", scope, start, exit, body>> >>)
  /\ UNCHANGED <<ceiling, fuel>>

ForBody ==
  /\ Doing("forBody")
  /\ LET body   == Arg(4)
         looped == Emit(Current, << <<"POP">>, <<"LOOP", Arg(2)>> >>)
     IN Continue(With(PatchJump(looped, body)),
                 <<Statement(Arg(1)), <<"endLoop", body + 1, Arg(3)>> >>)
  /\ UNCHANGED <<ceiling, fuel>>

-----------------------------------------------------------------------------
(* Expressions                                                             *)

(* parsePrecedence(p): a prefix rule, then infix rules while the current   *)
(* token binds at least as tightly as p.                                   *)
Level     == Arg(1)
Depth     == Arg(2)
CanAssign == Level <= ASSIGNMENT

Prefix(cs, items) ==
  /\ Continue(cs, Append(items, <<"infix", Level, Depth>>))
  /\ ceiling' = Anything

(* literal(), number(), string()                                           *)
Literal ==
  /\ Doing("precedence")
  /\ \/ /\ Spend(0)
        /\ Prefix(With(Emit(Current, << <<"NIL">> >>)), <<>>)
     \/ /\ On("number") /\ Spend(0)
        /\ Prefix(With(EmitConstant(Current, "CONSTANT", Number, <<>>)), <<>>)

Grouping ==
  /\ Doing("precedence") /\ On("grouping") /\ Spend(1)
  /\ Prefix(chunks, <<Expression(Depth), RightParen>>)

Unary ==
  /\ Doing("precedence") /\ On("unary") /\ Spend(1)
  /\ Prefix(chunks, <<Precedence(UNARY, Depth),
                      ThenEmit(<< <<"NEGATE">> >>)>>)

Variable ==
  /\ Doing("precedence") /\ On("variable")
  /\ \E name \in Name :
       IF Unresolvable(chunks, name)
         THEN Fail("uninitialized") /\ UNCHANGED <<ceiling, fuel>>
         ELSE LET r == Resolve(chunks, name)
              IN \/ /\ Spend(0)
                    /\ Prefix(Named(chunks, name), <<>>)
                 \/ /\ CanAssign /\ On("assign") /\ Spend(1)
                    /\ Prefix(r.chunks,
                              <<Expression(Depth),
                                ThenEmit(<< <<r.set, r.operand>> >>)>>)

This ==
  /\ Doing("precedence") /\ On("this") /\ Spend(0)
  /\ IF Current.type # "CLASS"
       THEN Fail("no class") /\ UNCHANGED ceiling
       ELSE Prefix(With(Emit(Current, << <<"GET_LOCAL", 0>> >>)), <<>>)

(* Variant of Super: the receiver is forgotten.                            *)
SuperWithoutThis ==
  /\ Doing("precedence") /\ On("super")
  /\ IF Current.type # "CLASS" \/ ~ Current.hasSuperclass
       THEN Fail("no superclass") /\ UNCHANGED <<ceiling, fuel>>
       ELSE LET super == Named(chunks, "super")
            IN \E name \in Name :
                 \/ /\ Spend(0)
                    /\ Prefix(super, <<ThenConstant("GET_SUPER", Text(name), <<>>)>>)
                 \/ /\ Spend(1)
                    /\ \E n \in 0 .. grammar.arity :
                         Prefix(super, Arguments(n, Depth) \o
                           <<RightParen,
                             ThenConstant("SUPER_INVOKE", Text(name), <<n>>)>>)

Super ==
  /\ Doing("precedence") /\ On("super")
  /\ IF Current.type # "CLASS" \/ ~ Current.hasSuperclass
       THEN Fail("no superclass") /\ UNCHANGED <<ceiling, fuel>>
       ELSE LET this  == With(Emit(Current, << <<"GET_LOCAL", 0>> >>))
                super == Named(this, "super")
            IN \E name \in Name :
                 \/ /\ Spend(0)
                    /\ Prefix(super, <<ThenConstant("GET_SUPER", Text(name), <<>>)>>)
                 \/ /\ Spend(1)
                    /\ \E n \in 0 .. grammar.arity :
                         Prefix(super, Arguments(n, Depth) \o
                           <<RightParen,
                             ThenConstant("SUPER_INVOKE", Text(name), <<n>>)>>)

(* The loop goes on with an operator of this precedence.                   *)
Infix(precedence) ==
  /\ Doing("infix")
  /\ Level <= precedence /\ precedence < ceiling
  /\ Spend(1)

Binary ==
  /\ \E op \in grammar.operators :
       /\ Infix(PrecedenceOf[op])
       /\ Continue(chunks, <<Precedence(PrecedenceOf[op] + 1, Depth),
                             ThenEmit(<< <<op>> >>), Head(todo)>>)
  /\ UNCHANGED ceiling

And ==
  /\ On("and") /\ Infix(AND)
  /\ Continue(With(Emit(Current, << <<"JUMP_IF_FALSE", 0>>, <<"POP">> >>)),
              <<Precedence(AND, Depth), ThenPatch(Here(Current)), Head(todo)>>)
  /\ UNCHANGED ceiling

(* Variant of Or: both jumps land behind the POP.                          *)
OrSkippingPop ==
  /\ On("or") /\ Infix(OR)
  /\ LET jumps == Emit(Current, << <<"JUMP_IF_FALSE", 0>>, <<"JUMP", 0>>,
                                   <<"POP">> >>)
     IN Continue(With(PatchJump(jumps, Here(Current))),
                 <<Precedence(OR, Depth), ThenPatch(Here(Current) + 1),
                   Head(todo)>>)
  /\ UNCHANGED ceiling

Or ==
  /\ On("or") /\ Infix(OR)
  /\ LET jumps == Emit(Current, << <<"JUMP_IF_FALSE", 0>>, <<"JUMP", 0>> >>)
     IN Continue(With(Emit(PatchJump(jumps, Here(Current)), << <<"POP">> >>)),
                 <<Precedence(OR, Depth), ThenPatch(Here(Current) + 1),
                   Head(todo)>>)
  /\ UNCHANGED ceiling

Call ==
  /\ On("call") /\ Infix(CALL)
  /\ \E n \in 0 .. grammar.arity :
       Continue(chunks, Arguments(n, Depth) \o
                          <<RightParen, ThenEmit(<< <<"CALL", n>> >>),
                            Head(todo)>>)
  /\ UNCHANGED ceiling

Dot ==
  /\ On("dot") /\ Infix(CALL)
  /\ \E name \in Name :
       \/ /\ CanAssign
          /\ Continue(chunks, <<Expression(Depth),
                ThenConstant("SET_PROPERTY", Text(name), <<>>), Head(todo)>>)
       \/ \E n \in 0 .. grammar.arity :
            Continue(chunks, Arguments(n, Depth) \o
              <<RightParen, ThenConstant("INVOKE", Text(name), <<n>>),
                Head(todo)>>)
       \/ Continue(chunks,
            <<ThenConstant("GET_PROPERTY", Text(name), <<>>), Head(todo)>>)
  /\ ceiling' = Anything

(* The current token binds less tightly than the level: the rule is done.  *)
NoInfix ==
  /\ Doing("infix")
  /\ ceiling' = Min({ceiling, Level})
  /\ Continue(chunks, <<>>)
  /\ UNCHANGED fuel

(* After a parenthesis the current token may be anything again.            *)
AtRightParen ==
  /\ Doing("paren")
  /\ ceiling' = Anything
  /\ Continue(chunks, <<>>)
  /\ UNCHANGED fuel

(* What is emitted once a part has been read.                              *)
Emission ==
  /\ \/ /\ Doing("emit")
        /\ Continue(With(Emit(Current, Arg(1))), <<>>)
     \/ /\ Doing("constant")
        /\ Continue(With(EmitConstant(Current, Arg(1), Arg(2), Arg(3))), <<>>)
     \/ /\ Doing("define")
        /\ Continue(With(Define(Current, Arg(1), Arg(2))), <<>>)
     \/ /\ Doing("read")
        /\ IF Unresolvable(chunks, Arg(1)) THEN Fail("uninitialized")
           ELSE Continue(Named(chunks, Arg(1)), <<>>)
     \/ /\ Doing("patch")
        /\ Continue(With(PatchJump(Current, Arg(1))), <<>>)
  /\ UNCHANGED <<ceiling, fuel>>

(* The next token is not one the grammar allows, or a limit is exceeded:   *)
(* 255 parameters, arguments or upvalues, jumps of 65535 bytes.            *)
ParseError ==
  /\ status = "compiling"
  /\ Fail("error")
  /\ UNCHANGED <<ceiling, fuel>>

-----------------------------------------------------------------------------

Declarations ==
  \/ Program \/ VariableDeclaration \/ FunctionDeclaration \/ EndFunction
  \/ ClassDeclaration \/ Superclass \/ BeginClass
  \/ MethodDeclaration \/ EndClass

Statements ==
  \/ InBlock \/ BlockStatement \/ EndOfScope
  \/ ExpressionStatement \/ PrintStatement \/ ReturnStatement
  \/ IfStatement \/ IfThen \/ IfElse
  \/ WhileStatement \/ WhileBody \/ EndOfLoop
  \/ ForStatement \/ ForCondition \/ ForExit \/ ForIncrement \/ ForBody

Expressions ==
  \/ Literal \/ Grouping \/ Unary \/ Variable \/ This \/ Super
  \/ Binary \/ And \/ Or \/ Call \/ Dot \/ NoInfix \/ AtRightParen

Next == Declarations \/ Statements \/ Expressions \/ Emission \/ ParseError

Spec == Init /\ [][Next]_vars

=============================================================================
