---------------------------- MODULE Disassembler ----------------------------
(***************************************************************************)
(* The listing that Disassembler::dis (compiler/debug.h) makes of a        *)
(* function's code when the debug flag is set.  It finds the instructions  *)
(* on its own, by adding up their lengths in bytes.                        *)
(***************************************************************************)
EXTENDS Bytecode

(* The bytes the compiler writes and run() reads of an instruction: opcode *)
(* and operands of one byte each, the two bytes of a jump.                 *)
Bytes(i) == IF Jumps(i) THEN 3 ELSE Len(i)

(* Variant of Step: the operand of a LOOP is taken for one byte.           *)
StepShortLoop(op) ==
  CASE op = "JUMP"                                                      -> 4
    [] op \in {"JUMP_IF_FALSE", "INVOKE", "SUPER_INVOKE"}               -> 3
    [] op \in {"CALL", "CLOSURE", "CLASS", "METHOD", "GET_SUPER", "CONSTANT", "LOOP",
               "DEFINE_GLOBAL", "GET_GLOBAL", "SET_GLOBAL", "GET_LOCAL", "SET_LOCAL",
               "GET_UPVALUE", "SET_UPVALUE", "GET_PROPERTY", "SET_PROPERTY"} -> 2
    [] OTHER                                                            -> 1

(* How far dis() moves on: one too far behind a JUMP.                      *)
Step(op) ==
  CASE op = "JUMP"                                                      -> 4
    [] op \in {"JUMP_IF_FALSE", "LOOP", "INVOKE", "SUPER_INVOKE"}       -> 3
    [] op \in {"CALL", "CLOSURE", "CLASS", "METHOD", "GET_SUPER", "CONSTANT",
               "DEFINE_GLOBAL", "GET_GLOBAL", "SET_GLOBAL", "GET_LOCAL", "SET_LOCAL",
               "GET_UPVALUE", "SET_UPVALUE", "GET_PROPERTY", "SET_PROPERTY"} -> 2
    [] OTHER                                                            -> 1

(* Which instructions are in the listing, up to where it loses its place:  *)
(* what is printed from there on depends on an operand.                    *)
Listed(code) ==
  LET upTo[n \in 0 .. Len(code)] ==
        IF n = 0 THEN [listed |-> <<>>, begin |-> 0, next |-> 0]
        ELSE LET l    == upTo[n - 1]
                 i    == code[n]
                 here == l.begin = l.next
             IN  [listed |-> Append(l.listed, here),
                  begin  |-> l.begin + Bytes(i),
                  next   |-> IF here THEN l.next + Step(i[1]) ELSE l.next]
  IN  upTo[Len(code)].listed

=============================================================================
