------------------------------- MODULE Chunk -------------------------------
(***************************************************************************)
(* The code of one function while the compiler writes it: struct Chunk     *)
(* (compiler/Chunk.h) and the emitters of compiler/Parser.h.               *)
(*                                                                         *)
(* Code is a sequence of instructions, not of bytes: an instruction is a   *)
(* tuple of its opcode and its operands, and the operand of a jump is the  *)
(* place in the sequence where it lands (0 until it is patched).           *)
(***************************************************************************)
EXTENDS Scope

CONSTANTS
  ByteSize,    \* operands are bytes: 256 in the code
  RETURN       \* the number of OpCode::RETURN: 4 in the code

ASSUME ByteAssumption ==
  /\ ByteSize \in Nat \ {0}
  /\ RETURN \in 0 .. ByteSize - 1

Byte(n) == n % ByteSize

(* Scope begins empty, and the flags false.  `kind' is the FunctionType    *)
(* the chunk is compiled for, a variable of Parser::function.              *)
NewChunk(kind) ==
  [code |-> <<>>, constants |-> <<>>, upvalues |-> <<>>, scope |-> NewScope,
   arity |-> 0, kind |-> kind,
   type |-> "NONE", enclosingType |-> "NONE", hasSuperclass |-> FALSE]

(* Constants: strings (names and literals alike), numbers, functions.      *)
Text(name)  == <<"string", name>>
Number      == <<"number">>
Function(i) == <<"function", i>>

(* What a FunctionObject keeps of its chunk.                               *)
Finished(chunk) ==
  [code |-> chunk.code, upvalues |-> chunk.upvalues, kind |-> chunk.kind,
   constants |-> chunk.constants, arity |-> chunk.arity]

Here(chunk) == Len(chunk.code) + 1

Emit(chunk, code) == [chunk EXCEPT !.code = @ \o code]

(* The place of an element that the sequence has at most once, or 0.       *)
IndexIn(seq, element) == Max({0} \cup {i \in DOMAIN seq : seq[i] = element})

(* addConstant looks for an equal constant before it adds one.             *)
ConstantIndex(constants, value) ==
  LET i == IndexIn(constants, value)
  IN  Byte(IF i = 0 THEN Len(constants) ELSE i - 1)

AddConstant(chunk, value) ==
  [chunk EXCEPT !.constants =
     IF Contains(@, value) THEN @ ELSE Append(@, value)]

EmitConstant(chunk, op, value, operands) ==
  Emit(AddConstant(chunk, value),
       << <<op, ConstantIndex(chunk.constants, value)>> \o operands >>)

PatchJump(chunk, at) == [chunk EXCEPT !.code[at][2] = Here(chunk)]

(* `code.back() == OpCode::RETURN' looks at the last byte, which may be an *)
(* operand.  (The low byte of a LOOP offset is left out.)                  *)
EndsInReturnByte(chunk) ==
  LET last == Last(chunk.code)
  IN  IF Len(last) = 1 THEN last[1] = "RETURN"
      ELSE last[1] # "LOOP" /\ Last(last) = RETURN

EmitReturnNil(chunk) == Emit(chunk, << <<"NIL">>, <<"RETURN">> >>)

-----------------------------------------------------------------------------
(* Variables.  `chunks' is the chain of the functions being compiled, the  *)
(* innermost last: the parent of a chunk is the one before it.             *)

UpvalueIndex(chunk, upvalue) == IndexIn(chunk.upvalues, upvalue)

AddUpvalue(chunk, upvalue) ==
  IF UpvalueIndex(chunk, upvalue) # 0 THEN chunk
  ELSE [chunk EXCEPT !.upvalues = Append(@, upvalue)]

(* The nearest enclosing function that has a local of that name, or 0.     *)
Owner(chunks, name) ==
  Max({0} \cup {k \in 1 .. Len(chunks) - 1 :
                  Find(chunks[k].scope, name) # Absent})

Captured(chunks, name, owner) ==
  [chunks EXCEPT ![owner].scope = Capture(@, name)]

(* addUpvalue in the k-th function, for what the link above it has found.  *)
Link(link, k, isLocal) ==
  LET upvalue == [index |-> link.index, isLocal |-> isLocal]
      chunk   == AddUpvalue(link.chunks[k], upvalue)
  IN  [chunks |-> [link.chunks EXCEPT ![k] = chunk],
       index  |-> Byte(UpvalueIndex(chunk, upvalue) - 1)]

(* The end of the recursion: the owner's local is captured.                *)
FirstLink(chunks, name, owner) ==
  [chunks |-> Captured(chunks, name, owner),
   index  |-> Byte(Find(chunks[owner].scope, name))]

(* Variant of Thread: every link claims to be a local of the parent's.     *)
ThreadAllLocal(chunks, name, owner) ==
  LET link[n \in 0 .. Len(chunks) - owner] ==
        IF n = 0 THEN FirstLink(chunks, name, owner)
        ELSE Link(link[n - 1], owner + n, TRUE)
  IN  link[Len(chunks) - owner]

(* Variant of Thread: no link claims to be a local of the parent's.       *)
ThreadNoneLocal(chunks, name, owner) ==
  LET link[n \in 0 .. Len(chunks) - owner] ==
        IF n = 0 THEN FirstLink(chunks, name, owner)
        ELSE Link(link[n - 1], owner + n, FALSE)
  IN  link[Len(chunks) - owner]

(* resolveUpvalue once the owner is found: on the way back down the        *)
(* owner's child gets an upvalue for the local, and each function below    *)
(* that one for its parent's upvalue.                                      *)
Thread(chunks, name, owner) ==
  LET link[n \in 0 .. Len(chunks) - owner] ==
        IF n = 0 THEN FirstLink(chunks, name, owner)
        ELSE Link(link[n - 1], owner + n, n = 1)
  IN  link[Len(chunks) - owner]

(* resolveLocal or resolveUpvalue throws.  The enclosing functions are     *)
(* asked even when the name is a local of the innermost one.               *)
Unresolvable(chunks, name) ==
  \/ Find(Last(chunks).scope, name) = Uninitialized
  \/ LET owner == Owner(chunks, name)
     IN  owner # 0 /\ Find(chunks[owner].scope, name) = Uninitialized

(* namedVariable up to the choice of its opcodes: the chunks after it, the *)
(* opcodes' suffix and their operand.                                      *)
Resolve(chunks, name) ==
  LET here   == Len(chunks)
      offset == Find(chunks[here].scope, name)
      owner  == Owner(chunks, name)
      thread == Thread(chunks, name, owner)
      after  == IF owner = 0 THEN chunks ELSE thread.chunks
  IN  IF offset # Absent
        THEN [chunks |-> after, get |-> "GET_LOCAL", set |-> "SET_LOCAL",
              operand |-> Byte(offset)]
      ELSE IF owner # 0
        THEN [chunks |-> after, get |-> "GET_UPVALUE", set |-> "SET_UPVALUE",
              operand |-> thread.index]
      ELSE [chunks |-> [chunks EXCEPT ![here] = AddConstant(@, Text(name))],
            get |-> "GET_GLOBAL", set |-> "SET_GLOBAL",
            operand |-> ConstantIndex(chunks[here].constants, Text(name))]

=============================================================================
