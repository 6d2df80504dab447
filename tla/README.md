# cloxpp in TLA+

cloxpp compiles Lox, the language of *Crafting Interpreters*, to bytecode and
runs it, in some 2,900 lines of C++ under `src/src`.  The modules here model
its scanners, its compiler, its virtual machine and the prompt; TLC checks them
on small instances, and TLAPS proves for all of them that the core of the
machine implements closures, that methods get their receivers, that a line at the
prompt leaves alone what is below it, that the compiler, whatever it is given, makes
code whose stack has one height at each instruction, that every text is cut into the
tokens of the scanner's dialect, and that the parser of expressions never looks
for a caller that is not there.

1. [The system](#1-the-system)
2. [Modules](#2-modules)
3. [What the runs check](#3-what-the-runs-check)
4. [What is proved](#4-what-is-proved)
5. [Divergences](#5-divergences)
6. [What is not modelled](#6-what-is-not-modelled)
7. [Plan](#7-plan)

## 1. The system

Everything runs in one thread.  A source text goes through four parts, and at
the prompt the last of them keeps its state from one line to the next.

| Part | Files | State | Operations |
|---|---|---|---|
| Scanner, in two versions | `compiler/Scanner.h`, `ReadAllScanner.*`, `ReadByOneScanner.*`, `ScannerFactory.h`, `Token.h` | position in the source; all tokens and an index, or two tokens | `advance`, `current`, `previous`, `match`, `check`, `consume`, `synchronize` |
| Parser, which generates code as it reads | `compiler/Parser.cpp`, `Parser.h`, `Compiler.h`, `ParseError.h` | the chain of chunks being compiled, the C++ call stack | one function per production, `resolveUpvalue`, the emitters |
| Scope, of one chunk | `compiler/Scope.h` | levels of locals: position, initialized, captured | `declare`, `initialize`, `capture`, `find`, `push_scope`, `pop_scope` |
| Chunk, of one function | `compiler/Chunk.h` | bytes, constants, upvalue descriptors, flags of the class it is in | `addCode`, `addOperand`, `addConstant` |
| Values | `compiler/Value.h` | function, closure, upvalue, class, instance and bound-method objects, all shared pointers | printing, falsiness |
| Virtual machine | `vm.h`, `Stack.h`, `RuntimeError.h` | `stack_`, `frames_`, `globals_`, `openUpvalues` | `interpret`, `call`, `callValue`, `invoke`, `bindMethod`, `captureUpvalue`, `closeUpvalue`, `runtimeError`, one case of `run` per opcode |
| Native functions | `NativeFunctions.h` | none | `clock`, `sleep` |
| Driver | `lox.h`, `cloxpp.cpp` | the machine | the prompt, `runFile` |
| Disassembler | `compiler/debug.h` | none | prints |

They meet in three places, and most of what is hard is there.

*The compiler and the machine meet in numbers.*  The machine reads slots,
constants and upvalues at the indices it finds in the code and takes operands
off the stack without looking at what is below.  It is the compiler that has to
know, at every instruction and on every path to it, how high the stack is,
which slot a local is in, and which locals closures have captured.

*Frames meet in slots.*  The slots of a call begin at the callee, so that the
arguments become parameters and the callee's slot the receiver.  Everything
that calls a method has to put the receiver there: `CALL` on a bound method
or a class, `INVOKE` and `SUPER_INVOKE`.

*Closures meet in upvalues.*  An upvalue points into the stack as long as its
variable is there, and holds the value afterwards.  Closures share a variable
because they share its upvalue, and find it by a walk through a list that is
sorted by slot and stops early.

What makes each part right, and what can go wrong, is the list of hazards in
`PROJECT.json`; in short:

- Scope and parser: a local's position is its slot; the stack has one height
  at each instruction; what is captured is closed before it is popped; upvalue
  descriptors end at the variable they are for; control stays inside the code.
- Machine: one upvalue per variable; no upvalue outlives its slot; a variable
  has one value wherever it is kept; a method has its receiver; fused
  instructions are what they stand for.
- Session: a line of the prompt changes nothing that earlier lines have left on
  the stack, and closures of earlier lines keep their variables.
- Scanners: each text has its tokens, and both scanners show the parser the
  same ones, at the end of the source too.
- Expressions: what is accepted is what the grammar derives, the code is what
  its syntax tree says, and the parser comes to an end.
- Disassembler: it finds the instructions that are there.

## 2. Modules

```
UpvalueList ── Closures ── ClosuresHistory ──(implements)── Cells
                   │              └ MCClosuresHistory
                   ├ Session ── MCSession
                   └ ClosuresProofs ─┬ SessionProofs (of Session)
                                     └ HistoryProofs (of ClosuresHistory, and that it implements Cells)

Scope ── Chunk ── Compiler ────────────┐
         Bytecode ── Disassembler ─────┴ CompilerSafety ─┬ MCCompiler
             └ BytecodeProofs ───────────────────────────┴ PlanProofs ── CompilerProofs

Scanner ── Expressions ── ExpressionsSafety ─┬ MCExpressions
                Grammar ───────┘             └ ExpressionsProofs

Objects ── MCObjects
   └ ObjectsProofs
```

**UpvalueList, Closures** (`vm.h`, `Stack.h`, `Value.h`).  The stack, its
capacity, the frames, the upvalues and the open list, and every instruction
that touches them.  A state variable is a member of the code (`stack` is
`stack_`, `open` is `openUpvalues` from its head, and so on); upvalues and
closures are numbered in the order they are made, which is what a shared
pointer is.  The loop of `CLOSURE` takes one step per upvalue: `BeginClosure`,
then `CaptureLocal` or `CaptureOuter` for each, then `EndClosure`.

The program is not modelled: at each step any instruction may run.  So what
holds of Closures holds of every program, as long as its code keeps the two
promises `Temporaries` states: it pops, or uses as an operand, only values of
its own frame, and never a captured local.  That the compiler keeps the first is
what StackBalanced says in CompilerSafety, and section 4 proves it; the second
is CapturedAreClosed, which a run checks for programs without a scope in a scope.
Values are
opaque; an instruction that computes leaves any value or raises an error.

A stack that outgrows its reserved capacity moves to another place, and the
pointers of open upvalues stay behind.  The model ends at the push that does
this, in status "undefined", if any upvalue is open.

**Cells, ClosuresHistory.**  Cells is what closures promise: an environment of
variables, each with a cell in a store, and lambdas that hold variables.  There
is no stack slot, no list, no closing.  ClosuresHistory adds two history
variables to Closures, the variable each slot holds (`names`) and the variable
each upvalue was made for (`bound`), and maps Closures to Cells with them
(`Env`, `Store`, `Lambdas`, `Calls`).

**Session** is the prompt (`lox.h`, `interpret`): Closures again and again on
one machine.  `NextLine` pushes a script and calls it on top of whatever is on
the stack and among the frames, `Run` is a step of Closures, `CompileError` a
line that never reaches the machine.  `start`, `left` and `made` remember how
much of the stack, of the frames and of the upvalues was there when the line
began; the code has no such variables, the properties need them.  A `return` at the top level
leaves the locals of its block on the stack, and a runtime error clears it, so a
line starts anywhere.  An error inside a call leaves frames, and an error while
something is captured leaves open upvalues, whose slots are gone (`Dangling`).
The lines after it run all the same.  When one reads or closes such an upvalue
before its slot is in use again, that ends in "undefined" (`Stray`); when the
slot is in use again, it reads and writes what is there now, which is wrong but
defined.  Two things of such lines are left out: where one returns into a frame
that was left, the model stops, since code of an earlier line would run on; and
Closures' promise about captured slots, which the compiler keeps for the
captures of one line, is kept here for those of earlier lines too, so no line
pops a slot that an upvalue of an earlier one points to.

**Scope, Chunk** are the data of the compiler as functions on records: a scope
is a sequence of levels of locals, a chunk a record.  Code is a sequence of
instructions, not bytes: `<<"GET_LOCAL", 2>>`; the operand of a jump is the
place it lands.  Operands are cut to `ByteSize` values where the code cuts them
to a byte.

**Compiler** is the parser.  `todo` is the C++ stack: the head is what the
parser does next, and a parsing function that calls another puts what it does
afterwards behind it.  The source text is chosen while it is read: where the
code asks `match(...)`, the model takes any branch.  `ceiling` keeps the one
thing that has to be known of the next token, how tightly it can bind, so that
an operator the inner loop of `parsePrecedence` has refused is offered to the
outer loop and not to the inner one again.  Any state may end in a parse error.
A grammar, one of the constant `Grammars`, chosen at the start and kept in
`grammar`, says which productions, names and operators an instance has, and
how much of them.

**Bytecode** is what the machine does to the stack, as a table, and what
follows for a whole function: the height of the stack at each instruction,
which instructions are reached, which slots may have an open upvalue.
**Disassembler** is where the debug listing looks for instructions, by
lengths of its own.  **CompilerSafety** states with both what the compiler
promises.

**Scanner, Expressions** are the front end from characters on.  `GetToken` is
`getToken`: what is at a place of the text, and where it ends.  A scanner is a
record, `readall` with all its tokens and an index, `byone` with the two it
keeps; `Advance` and `Throws` say what `advance` does to it.  Expressions is
the parser of scripts that consist of expressions, with `todo` as in Compiler,
but over a given source and through a scanner: every `match`, `check` and
`consume` is answered by the next token.  What Compiler chooses and leaves out
is here: `parsePrecedence` against real precedences, what happens at the end of
the source, `synchronize`, the reference that `unary` and `binary` keep to a
token, and the recursion that does not end (`TooDeep`: every call has read a
token, so a deeper one is one of infinitely many).

**Grammar** knows nothing of all that.  It says what the lexemes of a text are
(the longest prefix that is one), which token sequences are expressions, by
levels, and what the code of each syntax tree is.  Three things of the lexical
grammar are parameters: what a name may begin with, which pairs of characters
are one symbol, and which newlines count.  **ExpressionsSafety** has it twice.
`Tested` is the grammar of the repository's tests, which the scanner does not keep
to (section 5).  `Dialect` is the one it does keep to, with the three as the
code has them; everything else about the scanners and the parser is held against
that.

**Objects** is the rest of the machine: globals, classes, instances, bound
methods and calls.  The machine is one record and an instruction a function of
it, so that a property can say that one instruction does what two others do.
Here, too, any instruction may run that has its operands; only what the
compiler always emits together (`this` and the superclass before `super`,
`CLOSURE` before `METHOD`) is taken together.  A function is known by its
arity, and `std::bad_variant_access`, which nothing catches outside four
instructions, ends in status "aborted".  Of the natives, `sleep` reads its first
argument also when it has none, which ends in "undefined".

A definition called "Variant of" something is that definition with a plausible
mistake; `PROJECT.json` says which property the mistake breaks.

## 3. What the runs check

One run checks liveness, `expressions`: the parser comes to an end with every
source, and with one whose last token is a semicolon not by calling itself without
end.  (That the last character is a semicolon is not enough: with `readall` the
parser of `-//;` does not come back.  Endless recursion is an end of the model,
"crashed".)  Its fairness is WF of the whole next-state relation, which
says no more than that the program goes on running: it has one thread, which
takes the one step it can take.  Nothing else has liveness to state: the other
models take any instruction or any source text, so nothing obliges them to go
on, and a Lox program may loop for ever.  Every run has
`CHECK_DEADLOCK FALSE`, because every model stops: a script ends, fails or is
compiled, and the lines of a session are bounded.

| Run | Question | Bounds |
|---|---|---|
| `closures` | Is the open list sorted and complete, do upvalues keep to the stack, do frames nest? Is there one upvalue per variable, does it point to its variable, and is the whole an implementation of Cells? | 4 slots, of which 3 are reserved, 2 frames, 3 closures, 2 upvalues, 2 values |
| `session` | Does a line leave alone what earlier lines have left on the stack? | 3 lines, 4 slots, 2 frames of a line's own, 3 closures, 2 upvalues |
| `expressions` | Are the tokens, the accepted texts and the code what the grammar says, with either scanner, and does the parser come to an end with every source? | about 2,300 sources of up to a dozen characters |
| `compiler` | Does the scope know the stack, is the stack of one height at each instruction, do locals exist, does the listing find the instructions? Do upvalue descriptors lead to their variable, and is what is captured closed? Of statements, of locals, of a `for` beside an `if`, of expressions, of classes, of functions in functions | 3 to 5 choices, 2 levels of blocks, 2 names, a binary operator, up to 1 argument |
| `objects` | Has a method its receiver, and is a fused instruction what it stands for? | 4 slots, 2 frames, one class, method, instance, bound method, global and native, up to 1 argument |
| `shadowing`, `block_closures`, `superclass_flag`, `super_arguments`, `byone_operators`, `tested_lexemes`, `session_after_error` | Does the code do what the tests say? No: see section 5. | the smallest that show it |

Why these bounds are enough to be worth running:

- *Closures.*  Two upvalues on three closures are the least for each case of
  the list walk: insertion at the head, in the middle of nothing and at the
  end, reuse, and closing some of the list while some stays.  Two frames let a
  function's variables be captured in the function it calls.  A counter that reaches its bound only
  stops the instruction that would raise it.  What is bounded here is proved
  without bounds in section 4.
  The stack may grow one slot beyond what is reserved, so the refinement holds up
  to and through the point where the buffer moves.
- *Compiler.*  Fuel counts the choices that make a program longer, so the runs
  see every program of that size over the productions they turn on.  Four
  choices are enough for a loop in a condition in a block, for `and`, `or`, a unary and a
  binary operator inside each other's operands (what precedence makes of them is for
  `expressions`), for a class inside a method's block, and for a
  function that captures a variable from two functions up; with five
  there is something more beside it.  The grammar of locals is the one in which they
  are read and assigned side by side.  The grammars of closures, of locals and of
  classes have a depth of 1, which keeps blocks out of blocks, where the code is known to
  be wrong; that of statements has blocks in blocks and loops in blocks, since a
  local's position plays no part in the height of the stack.  The run `compiler`
  takes each of its grammars in turn: no state has productions of two.  Names are
  symmetric where there are two: no operator of the model compares them but for
  equality, and `this`, `super` and `init` are not among them.
- *Session.*  Two lines are what it takes for one to find what another has
  left; with three, what two have left adds up.  FRAMES_MAX is 3 and an error leaves
  one frame less than there were, so a line has at most two frames of its own, and
  one left over below them.
- *Expressions.*  Texts of up to four characters, over sets of three or four
  that are read together: comments, strings with escapes, numbers with dots,
  double operators, names and keywords.  Sentences of up to four words for
  what the parser refuses, and chains of three operators of most pairs of
  precedences, with unary operands, calls, properties and assignments, for what
  it accepts.  Precedence and association show with two operators; the third
  puts a lower one behind.  Strings with two adjacent escapes are among the
  texts; there the code is wrong (section 5), and the properties are about the
  others.  Up to three words of minuses, comments and semicolons for how a source may
  end.
- *Objects.*  A class that inherits needs a second class, which the properties
  of this run do not tell from the first; `super_arguments` has two.  The native
  function of the run is `sleep`, which reads an argument and does not ask
  whether there is one; `super_arguments` has `clock` beside it.  FRAMES_MAX
  is 3 so that the overflow error is reached from a call within a call.

The bound of an instance is a constant of its module: MaxStack, MaxClosures,
MaxUpvalues, MaxLines, MaxClasses, MaxMethods, MaxObjects, FunctionArities, Natives,
SuperArguments, Sources, and the fuel, depth and arity of a grammar.  kMaxStackSize, FRAMES_MAX, ByteSize and
RETURN are the code's own numbers, made small where a run is to reach them.

Every property of a passing run has a mutant: a definition with a plausible
mistake, under which TLC finds the property violated.

## 4. What is proved

ClosuresProofs proves, for every set of values, every FRAMES_MAX, every
capacity and every bound, what the run `closures` checks of Closures:

| Theorem | Says |
|---|---|
| `TypeCorrect` | what frames, closures and the open list refer to exists |
| `OpenListCorrect` | the list is sorted: the early exits of `captureUpvalue` and `closeUpvalue` miss nothing that is in it |
| `OpenListIsComplete` | every upvalue that is open is in the list, so that `captureUpvalue` finds it and `closeUpvalue` closes it |
| `UpvaluesStayWithinStack` | no access through an upvalue to a popped slot |
| `FramesAreNested` | frames lie above each other |
| `ScriptEndsClosed` | a script that ends leaves nothing open |

SessionProofs proves what the run `session` checks, for any number of lines, but
only of sessions in which no line begins with frames or open upvalues that a failed
one has left (TidyStep says so in the theorem); the others are model-checked:

| Theorem | Says |
|---|---|
| `LinesLeaveLeftovers` | a line changes and pops nothing below its script |

HistoryProofs proves what the same run checks of ClosuresHistory:

| Theorem | Says |
|---|---|
| `OneUpvalueEach` | a variable never has two upvalues |
| `UpvaluesPointToTheirVariables` | an open upvalue points to its variable, not to another one that uses the slot |
| `MachineImplementsCells` | ClosuresHistory implements Cells: a variable has one value, which only an assignment changes |
| `HistoryStopsNoStep` | there is always a name for a slot, so `names` and `bound` hold up no step of Closures |

ObjectsProofs proves what the run `objects` checks, for any number of names,
classes, methods, objects and arguments and every FRAMES_MAX:

| Theorem | Says |
|---|---|
| `ObjectsTypeCorrect` | what values, classes, instances, bound methods and frames refer to exists |
| `MethodsHaveReceivers` | slot zero of a method's frame is an instance |
| `InvokeFused` | `INVOKE` does what `GET_PROPERTY` and `CALL` do |
| `SuperInvokeFused` | without arguments `SUPER_INVOKE` does what `GET_SUPER` and `CALL` do |

BytecodeProofs, PlanProofs and CompilerProofs prove what the run `compiler`
checks of the stack, the locals, the listing, the upvalues and
the descriptors, for every grammar, so for programs of any length, depth and number
of names:

| Theorem | Says |
|---|---|
| `CompiledStackIsBalanced` | compiled code has one height of the stack at each instruction on all ways to it, and no instruction takes what is not there or slot zero |
| `CompiledLocalsExist` | `GET_LOCAL` and `SET_LOCAL` address no slot above the top of the stack |
| `ScopeIsTheStack` | between statements the stack holds slot zero and the locals in scope and nothing else |
| `ListingIsComplete` | the listing has every instruction but those behind a `JUMP`, as long as these are one byte long |
| `DescriptorsLeadHome` | as long as nothing outgrows a byte (BytesSuffice), the descriptors of a captured name end at its slot in the nearest function that declares it |
| `CompiledUpvaluesExist` | as long as no index of a constant is cut to a byte (ConstantsSuffice), a `CLOSURE` finds what its function's upvalues say, a slot with a value or an upvalue of the function around it, and no function reads an upvalue it has not |
| `CompilerTypes` | there is a function to compile, and something left to do, exactly while a program is compiled; bounds are kept, no local stands in slot zero; as long as ConstantsSuffice, a `CLOSURE` names a function that has been made |

ExpressionsProofs proves what the run `expressions` checks of the scanners and
of the parser's recursion, for texts of any length and both scanners:

| Theorem | Says |
|---|---|
| `FrontEndTypes` | a scanner stays within its source and its tokens: a current token is there whenever the parser asks for one, and a call to return to |
| `ScansAsSpecified` | `readall` finds the lexemes of the dialect, up to the end of the text or to where there is none |
| `ByOneKeepsUp` | the two tokens `byone` shows the parser are the last two that the dialect's grammar finds in the text it has passed, wherever it is |
| `CrashesAtTheEnd` | the recursion is without end only with `readall`, when a `-`, `!` or `(` is the last token |

The last three hold of the texts without two adjacent escapes.

*Assumptions.*  ValueAssumption and LimitsAssumption of Closures, which say
that Nil is a value and that the limits are natural numbers, FRAMES_MAX at
least two; for Objects the same of its limits (ObjectsAssumption), and that the
constructor's name is a name; for Compiler that RETURN is a byte
(ByteAssumption) and that a grammar's operators have precedences, its limits are
natural numbers and `super`, a keyword, is not one of its identifiers
(CompilerAssumption); for the front end that letters, digits and the characters
with a meaning of their own are different characters and keywords are words of
letters (ScannerAssumption), and that of the keywords only `or` and `and` are in
the sources, which are texts without NUL (SourcesAssumption).  TLC evaluates them in the runs.
DescriptorsLeadHome, CompiledUpvaluesExist and CompilerTypes have the one more that their
statements name.  For the first it is that no level of a scope and no list of upvalues has ByteSize entries: the
code does not see to that (`Chunk.h`, `Scope.h` cut the number without a word),
and the theorem is false without it, as the index would name another variable.

*Argument.*  None of the invariants is inductive alone.  IInv is their
conjunction with one part more, StackBounded:

- TypeOK gives the other parts something to speak of.
- OpenListDescends and OpenListComplete need each other: `captureUpvalue` finds
  the upvalue of a slot, if there is one, because the list is complete, and can
  stop early because it is sorted; a new upvalue goes where it keeps the order
  because the walk stopped there.  ClosuresProofs begins with these facts as
  lemmas about lists, apart from any machine.
- OpenWithinStack needs the order too: `closeUpvalue` closes a prefix of the
  list, and only in a sorted list is that all that lies above a slot.
- FramesNested tells that RETURN cuts the stack below what it closes.
- StackBounded says that the stack never has more than MaxStack slots, which gives
  the places of frames a bound.
- EndsClosed: what is open lies above the script's own slot, wherever that is
  (OpenWithinStack says so), so that its RETURN closes whatever is open.

The theorem Invariance has one step per instruction, under it one per part that
the instruction disturbs.

*The session.*  IInv never says where a script begins, so it holds of every line
that begins without frames and without open upvalues.  SInv adds what one line
needs of those before: its frame is the lowest, and its script lies above what is on
the stack.  A line that ends normally leaves no frame and nothing open (EndsClosed);
TidyStep says the same of one that fails.  That nothing below a line changes goes
instruction by instruction (NextKeeps): a local is at or above its frame's slot,
which is at or above the script's, and what SET_UPVALUE writes is above it too
(OpenWithinStack).  Where TidyStep does not hold, IInv is false, since what is open
may point above the stack, and NextKeeps has no ground to stand on.

*Variables.*  HIInv is IInv, NamesOfSlots (each slot has a name that belongs to
it) and the two invariants, which need each other: `captureUpvalue` makes an
upvalue only when the list has none for the slot; then no upvalue at all is of
the slot's variable, since one that were would be open and point to the slot
(PointsToItsVariable), so be in the list (OpenListComplete).  A slot that is
pushed gets a name no upvalue has, and a slot that is dropped has its upvalues
closed in the same step, by `closeUpvalue` or because Temporaries lets no
captured slot go.  Whether a step keeps the k lowest slots and closes what is
above them (NamesFrom, ClosedFrom) is all that is asked of an instruction.

*The refinement.*  A variable's value is in its slot while it has one, and in
its upvalue afterwards (ValueOf).  Each instruction is one step of Cells; the
lemmas above the instructions say why values survive: KeptValues, that with the
k lowest slots kept and the others' upvalues closed over what was there,
whatever stays reachable keeps its value; WriteSlot and WriteUpvalue, that an
assignment changes the one variable it is to, through whichever of the two it
goes.  Cells drops the cells nobody can reach and the machine keeps upvalues
that exist, so the invariant has one part more, EveryUpvalueHeld: some closure
holds each upvalue.  Where the buffer moves under an open upvalue (status
"undefined") the mapping still has a value for every variable; that the machine
could not read it any more is not the refinement's concern.

*Objects.*  An instruction of Objects is a function of the machine, so there is
one lemma per operation, for any machine m: if m is Fine, so is what the
operation makes of it (CallClosureFine, BindMethodFine, InheritFine, ...).  Fine
is Typed, which is TypeOK with the domains of all maps, and FramesFine: frames
lie strictly above each other, and slot zero of a method's is an instance.  The
two need each other: a bound method's receiver is an instance because
BoundMethodObject is only made of one, and it stays in slot zero because
assignments, pops and returns of the frames above reach only slots above the
topmost frame's slot zero, which lies above this one's (StackOnly).  `insert`
keeps the type of a map (InsertTyped), and what is made only adds to what may be
referred to (StillTyped).  For the fused calls, PutBack says that taking the
arguments off, replacing the receiver and putting them back is replacing the
receiver; BoundCall, that the call of a bound method then puts the receiver
back where INVOKE finds it.

*The bytecode.*  StackBalanced speaks of two passes over a finished function
(Heights), the compiler emits one instruction at a time and patches jumps it has
emitted long before, so no invariant of the compiler can be about the passes.
BytecodeProofs replaces them by a Layout: a height for every place of the code,
reached or not, which places are reached going forward, and for the increment of
a `for` the condition that is behind it (its guard), since it is only reached by
a jump back.  A layout is a matter of each instruction and its successors.
AppendKeepsLayout and PatchKeepsLayout say that it stays one as code is written;
LaidOutIsBalanced, that the passes find the heights of the layout wherever they
find one, so that code with a layout is Balanced.

*The compiler.*  What is on the stack while an expression is compiled is
known to nobody but the C++ stack, that is, `todo`.  IInv reads it as a plan.  A
State is what a point of the plan relies on: how many levels the scope has and
how many locals the lower ones, how many values there are above the locals, which
jumps wait to be patched and which places may be jumped back to, whether a local
is declared whose value is still to come.  Rule gives each entry of `todo` the
state it needs and the state it leaves (an operand: one value more; `endScope`:
one level less, and the values of its locals gone; `patch`: the jump is in the
set, and its target has this height); Future chains the rules, through each end
of a function to the function around it and to the end of the program; IInv says
that the function being compiled meets the first state with some layout of its
code, and that finished functions have one.  There is one lemma
`...Compiles` for each action, which exhibits the states of the entries the
action puts on `todo`; most are instances of one lemma on running an entry of the
plan (Above, Becomes and the lemmas on them in PlanProofs).  What code a
production emits, and that patching changes an instruction's operand and nothing
else, are lemmas on `Emit` and `PatchJump`; that `find`, `initialize` and
`capture` leave the number of locals alone, on scopes (AlikeScopes).

*Upvalues.*  What a `CLOSURE` needs is decided long before it is emitted: the
function inside asks for slots and upvalues of the one around it while that one
waits.  So IInv also says that each function asks only for what the one around it
offers (Linked): an upvalue it has, or a slot below the height that its values
have reached (Top), which is below the height at which the `CLOSURE` will be
emitted, since a function takes nothing off the stack while one inside it is
compiled.  A local whose value is still to come is not offered, and indeed
`find` passes over it.  When the function ends, Linked becomes what
ClosureAt says of the instruction, and emitting more keeps that, because constants and
upvalues are only added (Adds).  A State also holds the upvalues the plan will
read (reads): a `SET_UPVALUE` comes after the expression that is assigned.  All
this speaks of the function that a constant names, and is false where the index of
a constant is cut to a byte (`Chunk.h:103`) and names another; hence
ConstantsSuffice, which says only that no function has more than ByteSize
constants.  TypeInv adds to IInv what happens to the bounds, the outcome and the
current token's precedence, whose levels are in Rule (Strength).

*Descriptors.*  `resolveUpvalue` is a recursion over the enclosing functions, and
each level of it adds a descriptor to its chunk or finds one that is there.
LinkChains says that one level leads to the next, ThreadOrigin that a walk along
the descriptors goes back level by level, ThreadLeadsHome that it ends at the
slot `find` saw, because nothing that a later level does touches the lists above.

*The scanner.*  The grammar, which here is the dialect's, says that a lexeme is the longest prefix of the text
that is one; `getToken` is a chain of conditions and loops.  What brings them
together is that each kind of lexeme begins with characters of its own
(FirstCharacter, KindByFirst), except for comments and the operators of two
characters, where the second decides.  So there is one lemma for each first
character (AgreesOnLetter, AgreesOnQuote, ...), that the loop stops where the
longest lexeme of that kind ends, and reports an error where there is none, and
ReadsLongest has them all.  A string in which one escape directly follows
another is the one text where the two part, which is why the theorems exclude it.
A run of blanks is one lexeme and several calls of `getToken` (BlankRun).
ScannerInv says that the tokens so far, followed by what is to come from where
the scanner is, are the lexemes of the source; each step of `readall` takes the
first of what is to come.  It also says what the parser relies on: of `readall`,
that the tokens are complete and end in the one end token, and of `byone` that it
has two from the start.
For `byone` that is not enough: it keeps two tokens and forgets the rest, and the
claim is about the text it has passed, not about the whole.  There a lexeme might
be another, because the text ends where the longest one would go on.  It is not:
a beginning of the text that has all a token reads has the same token at its place
(GetTokenStable, again by the kind of its first character), and so it is behind
blanks and comments (NextTokenFollows, by the induction NextTokenInduction).
ByOneInv says that the tokens read come first in the lexemes of every beginning of
the source from where the scanner is on; of the beginning that ends there they
are all, and the scanner shows the last two.

*The parser's stack.*  The model calls a recursion endless (TooDeep) when the
stack is deeper than the tokens of the source can account for.  That it is then
endless needs that every other stack is accounted for, by what ParserInv keeps:
each entry of `todo` has a weight (the calls it may still add without reading:
two for `comma`, three for `arguments`, one for the others), and their sum is
not above four times the number of tokens read, plus what the parser has started
with.  Each call either reads a token, which pays for the entries it puts down,
or takes the place of an entry at least as heavy.  Only `advance` at the end of the
source, which gives the last token again, reads without a token being used up;
then the call goes on for ever if that token asks for an expression (Doomed: a
`-`, `!` or `(` at the end, with `readall`), and otherwise fails or returns.

*Recursion.*  Size, Heights, Thread, Origin, Past, NextToken, Lexemes and the sum of
the weights are recursive functions over intervals of numbers.  Recursion (such a function exists, and satisfies its
equation) and RecursionKeeps (what its first value has and every step keeps, all
its values have) are proved with sets in place of predicates: the set of the
numbers up to which the claim holds contains zero and each successor
(SetInduction, from the well-foundedness of the numbers).

Only model-checked, for the bounds of section 3:

- TranslatedAsSpecified of ExpressionsSafety.  It compares a parser with a grammar
  that derives trees, and needs induction over the trees on both sides;
- CapturedAreClosedUnnested, which excludes the programs with a scope in a scope:
  there CapturedAreClosed is false (section 5);
- LeftoversStay for lines that begin with what a failed line has left;
- that the parser comes to an end (Terminates), which is liveness.

## 5. Divergences

Where the code does something else than the repository's tests say, and a run
shows it:

| Run | What the code does |
|---|---|
| `shadowing` | A block inside a block numbers its locals from 1 again (`Scope.h:30`), although the number is the slot: `shadow_local.lox` prints the wrong variable. |
| `block_closures` | `capture` and `find` of `Scope.h` choose different locals while one of the name is being declared, so a captured variable is popped and not closed. |
| `superclass_flag` | `hasSuperclass` is never reset (`Parser.cpp:117`): the next class ends a scope that does not exist. |
| `super_arguments` | `SUPER_INVOKE` looks for the superclass above the arguments, the compiler has put it below (`Parser.cpp:405`). |
| `byone_operators` | With the `byone` scanner, `unary` and `binary` look for their operator in a token that has been overwritten (`Parser.cpp:464`, `478`): no operator is emitted, or another. |
| `tested_lexemes` | A name cannot begin with `_` (`Scanner.h:183`), as `scanning/identifiers.lox:7` has it.  With only `Minuses` or `Multiline` as Sources, the run shows the two others the tests contradict: `--` is one symbol (`Scanner.h:107`, `operator/negate.lox:2`), and newlines in strings and block comments are not counted (`Scanner.h:305`, `string/error_after_multiline.lox:1`). |
| `session_after_error` | `runtimeError` clears the stack and leaves the upvalues open (`vm.h:93`): a closure of the failed line then has a variable of the next one for its own, which `closure/reuse_closure_slot.lox:11` rules out. |

The first two break the promise about captured locals that Closures relies on:
what is proved of the machine holds for programs without a scope in a scope
(blocks in blocks, or the scope that a superclass opens within a block), for which `compiler` checks the promise.

Others are in the models as the code has them, but a property could only repeat
the line, so no run shows them:

| Line | What the code does | What the tests say |
|---|---|---|
| `Parser.cpp:163` | A function with an empty body has no `RETURN`, and `run` reads behind its code; so does one that ends in `else return`. (CompilerSafety has NeverFallsOff.) | `function/empty_body.lox:2` |
| `Parser.cpp:75` | A local function's name is initialized after its body, which so cannot name it. | `function/local_recursion.lox:7` |
| `Parser.cpp:390` | `this` is slot zero of the function it is written in, also in a function nested in a method. | `this/closure.lox:13` |
| `Parser.cpp:340` | `return;` in `init` returns nil and, as the last statement, is an error. | `constructor/early_return.lox:10` |
| `Parser.cpp:339` | `return` outside a function is compiled. | `return/at_top_level.lox:1` |
| `Chunk.h:103` | The index of the 257th constant is cut to a byte. | `limit/too_many_constants.lox:35` |
| `vm.h:261` | `METHOD` and `INHERIT` keep a method that is there; `INHERIT` comes first, so a class cannot override. | `inheritance/inherit_methods.lox:14` |
| `vm.h:405` | `SET_PROPERTY` keeps the first value of a field. | `inheritance/set_fields_from_base_class.lox:36` |
| `vm.h:382` | A global cannot be declared twice. | `variable/redefine_global.lox:2` |
| `Stack.h:28` | `push` has no limit: the push of the 256th slot moves the buffer, and open upvalues point into the old one. | `limit/stack_overflow.lox:18`, which goes past a thousand slots before the frames are too many |
| `Parser.h:103` | In a source without tokens the line of the script's `RETURN` is that of token -1; an error before the first token is reported at tokens_[0] of none (`ReadAllScanner.cpp:26`). | `empty_file.lox`, `comments/only_line_comment.lox`, `comments/only_line_comment_and_line.lox` |

More have no test that says otherwise:

- The loop of `vm.h:124` leaves a native's arguments on the stack, and `sleep`
  without an argument reads one (`NativeFunctions.h:19`).
- `runtimeError` (`vm.h:93`) leaves the frames below the one that failed, and the
  next line of the prompt returns into them.
- A source that ends in `-`, `!` or `(` makes the parser call itself for ever
  with the `readall` scanner: at the end, `advance` gives the last token again
  (CrashesOnlyAtTheEnd says that nothing else does).
- The `byone` scanner refuses a source with blanks, a newline or a comment
  behind the last token (`ReadByOneScanner.cpp:17`).
- `string` skips the character after an escape, also when it begins another
  (`Scanner.h:305`): a text with two adjacent escapes may lose the end of its
  string, and with it a token.  What is said of the scanners is said of the
  other texts.
- The disassembler loses the byte behind a `JUMP` (`debug.h:59`), and its place
  where that is the first of a longer instruction, as in a `for`; the names of
  the opcodes lack `GET_SUPER` (`Chunk.h:15`).
- `getRule` keeps functions that belong to the first parser (`Parser.h:198`):
  every further line of the prompt runs on a parser that is gone, and works
  because the new one happens to be where the old one was.

## 6. What is not modelled

- NUL characters in a source; statements behind the scanners: Expressions has
  expressions only, Compiler has the statements but chooses its tokens.
- What a line of the prompt does once it has returned into a frame of a failed
  one, and lines that pop a slot to which an upvalue of a failed one points
  (section 2, Session).
- In a scanner, that the loop of the `byone` scanner's `advance` ends: it is one step of
  the model.  Of the last byte of a function, which the parser compares to
  `RETURN`, the low byte of a `LOOP`.
- What the parser does on a line after the first, when its rules belong to a
  parser that is gone: the models have it work, as it does if the address is
  the same.
- Bytes: code is a sequence of instructions, so jumps of more than 65535 bytes
  are only a parse error that may always happen; `ByteSize` keeps the cut of
  constants and of upvalues.  Line numbers.
- Arithmetic, comparison, strings, printing, and what `clock` and `sleep` do.
- What the disassembler prints, flags and file handling.

## 7. Plan

In order of what it adds:

1. *Compile, then run*: the programs of Compiler as the instruction streams of
   Closures, so that the promise about temporaries is not two properties that
   fit but one.
2. *Limits*: constants, locals and upvalues at a ByteSize of 2 or 3.
3. *Proofs*: CapturedAreClosed for grammars without blocks in blocks.  The plan
   of CompilerProofs has to say besides, of each jump that waits to be patched,
   which locals there were and which of them had been captured.
4. *Arithmetic*: which operands an operator accepts and which make an error.
