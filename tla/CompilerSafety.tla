--------------------------- MODULE CompilerSafety ---------------------------
(***************************************************************************)
(* What the compiler promises of the code it makes: the virtual machine    *)
(* checks none of this, it reads slots, constants and upvalues by the      *)
(* numbers it finds in the code.                                           *)
(***************************************************************************)
EXTENDS Compiler, Disassembler

Compiled == status = "compiled"

FunctionAt(f, p) == functions[f.constants[f.code[p][2] + 1][2]]

LocalUpvalues(f) == {u \in ToSet(f.upvalues) : u.isLocal}

(* The slots of its own frame that each instruction of f captures.         *)
Captures(f) ==
  [p \in 1 .. Len(f.code) |->
     IF f.code[p][1] = "CLOSURE"
       THEN {u.index : u \in LocalUpvalues(FunctionAt(f, p))}
       ELSE {}]

TypeOK ==
  /\ status \in {"compiling", "compiled", "undefined", "error", "redefined",
                 "uninitialized", "init returns", "class", "no class",
                 "no superclass"}
  /\ grammar \in Grammars
  /\ fuel \in 0 .. grammar.fuel
  /\ ceiling \in 1 .. Anything
  /\ (status = "compiling") <=> (chunks # <<>> /\ todo # <<>>)
  /\ \A k \in 1 .. Len(chunks) :
       /\ \A p \in 1 .. Len(chunks[k].code) :
            chunks[k].code[p][1] = "CLOSURE" =>
              chunks[k].constants[chunks[k].code[p][2] + 1][2]
                \in 1 .. Len(functions)
       /\ \A l \in ToSet(Locals(chunks[k].scope)) : l.position \in Nat \ {0}

(* Whenever a declaration or a statement begins or ends, the stack of the  *)
(* function being compiled will hold its slot zero and the locals in scope *)
(* and nothing else, on whatever path the code has come there.  A local's  *)
(* value is where its position in the scope says only because of this.     *)
ScopeMatchesStack ==
  status = "compiling" /\ Head(todo)[1] \in
      {"program", "block", "declaration", "statement", "forCondition"} =>
    Last(Heights(Current.code, Current.arity)) \in
      {Unreachable, 1 + Len(Locals(Current.scope))}

(* In compiled code every instruction finds its operands above slot zero,  *)
(* and the stack has one height at each instruction on all ways to it:     *)
(* conditions, loops, `and', `or' and `return' leave nothing behind.       *)
StackBalanced ==
  Compiled => \A f \in ToSet(functions) : Balanced(f.code, f.arity)

(* GET_LOCAL and SET_LOCAL never address a slot above the stack's top.     *)
LocalsExist ==
  Compiled => \A f \in ToSet(functions) : SlotsExist(f.code, f.arity)

(* A CLOSURE instruction finds what the function's upvalues say: a slot    *)
(* that is on the stack at that point, or an upvalue the enclosing closure *)
(* has; and a function reads no upvalue it does not have.                  *)
UpvaluesExist ==
  Compiled =>
    \A f \in ToSet(functions) :
      LET heights == Heights(f.code, f.arity)
      IN  \A p \in Reached(f.code, heights) :
            /\ f.code[p][1] = "CLOSURE" =>
                 \A u \in ToSet(FunctionAt(f, p).upvalues) :
                   u.index < IF u.isLocal THEN heights[p] ELSE Len(f.upvalues)
            /\ f.code[p][1] \in {"GET_UPVALUE", "SET_UPVALUE"} =>
                 f.code[p][2] < Len(f.upvalues)

(* The discipline Closures asks of the compiler (Temporaries): a slot that *)
(* a closure has captured leaves the stack by CLOSE_UPVALUE or RETURN,     *)
(* never by POP or as an operand.                                          *)
CapturedAreClosed ==
  Compiled =>
    \A f \in ToSet(functions) :
      ClosesWhatItPops(f.code, f.arity, Captures(f))

(* The same of programs without a scope in a scope: no block is in a block *)
(* and no class has a superclass, whose scope for `super' is in another.   *)
(* (Positions begin at 1 again in an inner scope, and the wrong slot is    *)
(* captured.)                                                              *)
CapturedAreClosedUnnested ==
  grammar.depth <= 1 /\ "super" \notin grammar.productions => CapturedAreClosed

(* The disassembler agrees with the compiler on the length of everything   *)
(* but JUMP.  It leaves out what comes behind a JUMP, and does not lose    *)
(* its place as long as that is a single byte, as the POP of an `if' and   *)
(* of an `or' is; the increment of a `for' may be anything.                *)
ListsAllButOne ==
  Compiled =>
    \A f \in ToSet(functions) :
      LET skipped == {p \in 2 .. Len(f.code) : f.code[p - 1][1] = "JUMP"}
          listed  == Listed(f.code)
      IN  (\A p \in skipped : Bytes(f.code[p]) = 1) =>
            \A p \in 1 .. Len(f.code) : listed[p] <=> p \notin skipped

(* Where an upvalue of a chunk ends: <<chunk, slot>>.  Each descriptor      *)
(* leads to the chunk above, until one says that the local is there.       *)
Ascend(cs, at, k) ==
  LET u == cs[k].upvalues[at.index + 1]
  IN  IF at.found THEN at
      ELSE [found |-> u.isLocal, index |-> u.index, chunk |-> k - 1]

Origin(cs, chunk, upvalue) ==
  LET at[n \in 0 .. chunk - 1] ==
        IF n = 0 THEN [found |-> FALSE, index |-> upvalue, chunk |-> chunk]
        ELSE Ascend(cs, at[n - 1], chunk + 1 - n)
      end == at[chunk - 1]
  IN  <<end.chunk, end.index>>

(* Whatever has been captured before, and in whatever order: a name that   *)
(* is not a local resolves to an upvalue whose chain of descriptors ends   *)
(* at the slot of that name in the nearest function that declares it.      *)
UpvaluesLeadHome ==
  status = "compiling" =>
    \A name \in Name :
      ~ Unresolvable(chunks, name) =>
        LET r     == Resolve(chunks, name)
            owner == Owner(chunks, name)
        IN  r.get = "GET_UPVALUE" =>
              Origin(r.chunks, Len(chunks), r.operand)
                = <<owner, Find(chunks[owner].scope, name)>>

-----------------------------------------------------------------------------
(* What the repository's tests say of the language and the compiler does   *)
(* not keep.                                                               *)

(* The position of a local is the slot its value is in.                    *)
PositionsAreSlots ==
  status = "compiling" /\ Head(todo)[1] = "block" =>
    LET locals == Locals(Current.scope)
    IN  \A i \in 1 .. Len(locals) : locals[i].position = i

(* Control never runs off the end of a function.                           *)
NeverFallsOff ==
  Compiled => \A f \in ToSet(functions) : StaysInside(f.code, f.arity)

(* A class ends only the scope it has started.                             *)
ClassesEndTheirOwnScope == status # "undefined"

=============================================================================
