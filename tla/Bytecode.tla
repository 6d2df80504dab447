------------------------------ MODULE Bytecode ------------------------------
(***************************************************************************)
(* What VM::run (vm.h) does to the stack of values, instruction by         *)
(* instruction, as far as it can be told from the code alone: how many     *)
(* values an instruction takes and leaves, and where it goes next.  Code   *)
(* is written as in Chunk.  Slots count from 0, the callee or receiver.    *)
(***************************************************************************)
EXTENDS Integers, Sequences, SequencesExt, FiniteSetsExt

(* How many of the topmost values an instruction consumes ...              *)
Takes(i) ==
  LET op == i[1]
  IN  CASE op \in {"CONSTANT", "NIL", "GET_LOCAL", "GET_UPVALUE", "GET_GLOBAL",
                   "CLASS", "CLOSURE", "JUMP", "LOOP"}              -> 0
        [] op \in {"NEGATE", "NOT", "PRINT", "POP", "CLOSE_UPVALUE",
                   "DEFINE_GLOBAL", "SET_LOCAL", "SET_UPVALUE", "SET_GLOBAL",
                   "GET_PROPERTY", "JUMP_IF_FALSE", "RETURN"}       -> 1
        [] op \in {"ADD", "MULTIPLY", "LESS", "EQUAL",
                   "SET_PROPERTY", "METHOD", "INHERIT", "GET_SUPER"} -> 2
        [] op = "CALL"         -> i[2] + 1
        [] op = "INVOKE"       -> i[3] + 1
        [] op = "SUPER_INVOKE" -> i[3] + 2

(* ... and how many it leaves in their place.                              *)
Leaves(i) ==
  IF i[1] \in {"POP", "CLOSE_UPVALUE", "DEFINE_GLOBAL", "JUMP", "LOOP",
               "RETURN"}
    THEN 0 ELSE 1

Falls(i) == i[1] \notin {"JUMP", "LOOP", "RETURN"}
Jumps(i) == i[1] \in {"JUMP", "JUMP_IF_FALSE", "LOOP"}

(* Where run() may be after the instruction at p.  A jump that is not      *)
(* patched yet goes nowhere.                                               *)
Successors(code, p) ==
  (IF Falls(code[p]) THEN {p + 1} ELSE {}) \cup
  (IF Jumps(code[p]) THEN {code[p][2]} \ {0} ELSE {})

-----------------------------------------------------------------------------

Unreachable == -1

(* The height of the frame's stack at p, read off the first jump or        *)
(* fall-through that leads there from a place that has a height.           *)
HeightAt(code, arity, height, p) ==
  LET from == {q \in 1 .. Len(code) :
                 p \in Successors(code, q) /\ height[q] # Unreachable}
      q    == Min(from)
  IN  IF p = 1 THEN arity + 1
      ELSE IF from = {} THEN Unreachable
      ELSE height[q] - Takes(code[q]) + Leaves(code[q])

(* The heights before each instruction and after the last.  A place that   *)
(* comes before has a height by then, the others have one if they are      *)
(* `known'.                                                                *)
Pass(code, arity, known) ==
  LET upTo[n \in 0 .. Len(code) + 1] ==
        IF n = 0 THEN <<>>
        ELSE LET before == upTo[n - 1]
             IN  Append(before,
                   HeightAt(code, arity,
                            before \o SubSeq(known, n, Len(known)), n))
  IN  upTo[Len(code) + 1]

(* Code that is only jumped back to, the increment of a `for', cannot hold *)
(* a loop of its own: a second pass reaches it.                            *)
Heights(code, arity) ==
  Pass(code, arity,
       Pass(code, arity, [p \in 1 .. Len(code) + 1 |-> Unreachable]))

Reached(code, heights) ==
  {p \in 1 .. Len(code) : heights[p] # Unreachable}

(* No instruction takes slot zero, and every way to an instruction brings  *)
(* the stack there at the same height; every jump has been patched.        *)
Balanced(code, arity) ==
  LET heights == Heights(code, arity)
  IN  \A p \in Reached(code, heights) :
        /\ Takes(code[p]) < heights[p]
        /\ Jumps(code[p]) => code[p][2] # 0
        /\ \A q \in Successors(code, p) :
             heights[q] = heights[p] - Takes(code[p]) + Leaves(code[p])

(* Variables are read and written only where the stack has a value.        *)
SlotsExist(code, arity) ==
  LET heights == Heights(code, arity)
  IN  \A p \in Reached(code, heights) :
        code[p][1] \in {"GET_LOCAL", "SET_LOCAL"} => code[p][2] < heights[p]

(* run() never reads past the end of the code.                             *)
StaysInside(code, arity) ==
  Heights(code, arity)[Len(code) + 1] = Unreachable

-----------------------------------------------------------------------------
(* Captured slots.  captures[p] are the slots the instruction at p takes   *)
(* an upvalue for: only a CLOSURE does.                                    *)

(* The slots that may have an open upvalue before each instruction.        *)
OpenSlots(code, arity, captures) ==
  LET heights == Heights(code, arity)
      After(open, p) ==
        IF code[p][1] = "CLOSE_UPVALUE"
          THEN {s \in open : s < heights[p] - 1}
          ELSE open \cup captures[p]
  IN  FoldLeft(
        LAMBDA open, p :
          Append(open, UNION {After(open[q], q) :
                                q \in {r \in Reached(code, heights) :
                                        r < p /\ p \in Successors(code, r)}}),
        <<>>, [p \in 1 .. Len(code) |-> p])

(* Only CLOSE_UPVALUE and RETURN take a captured variable off the stack.   *)
ClosesWhatItPops(code, arity, captures) ==
  LET heights == Heights(code, arity)
      open    == OpenSlots(code, arity, captures)
  IN  \A p \in Reached(code, heights) :
        code[p][1] # "CLOSE_UPVALUE" =>
          \A s \in open[p] : s < heights[p] - Takes(code[p])

=============================================================================
