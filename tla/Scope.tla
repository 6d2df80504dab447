------------------------------- MODULE Scope -------------------------------
(***************************************************************************)
(* The local variables the compiler knows in one chunk: class Scope of     *)
(* compiler/Scope.h.  A scope is a sequence of levels, locals_, and a      *)
(* level a sequence of locals in the order of their declaration.  Depths   *)
(* count from 0, as in the code: depth d is the level scope[d+1].          *)
(***************************************************************************)
EXTENDS Integers, Sequences, SequencesExt, FiniteSetsExt

Absent == -1           \* find() returns -1
Uninitialized == -2    \* find() throws "Unintialized variable."

Local(name, position) ==
  [name |-> name, position |-> position,
   initialized |-> FALSE, isCaptured |-> FALSE]

NewScope == << <<>> >>

(* The private find(name, depth): the index of a local in its level, or 0. *)
(* A level has no two locals of one name.                                  *)
IndexAt(scope, name, depth) ==
  IF depth >= Len(scope) THEN 0
  ELSE Max({0} \cup {i \in DOMAIN scope[depth + 1] :
                        scope[depth + 1][i].name = name})

LocalAt(scope, name, depth) ==
  scope[depth + 1][IndexAt(scope, name, depth)]

Depths(scope, name) ==
  {d \in 0 .. Len(scope) - 1 : IndexAt(scope, name, d) # 0}

(* Variant of NextPosition: the receiver's slot is forgotten.              *)
NextPositionFromZero(scope) ==
  IF Last(scope) = <<>> THEN 0 ELSE Last(Last(scope)).position + 1

(* Variant of NextPosition: counts from two.                               *)
NextPositionFromTwo(scope) ==
  IF Last(scope) = <<>> THEN 2 ELSE Last(Last(scope)).position + 1

(* The position declare() gives: it goes on from the last local of the     *)
(* innermost level, and starts again from 1 when that level is empty.      *)
NextPosition(scope) ==
  IF Last(scope) = <<>> THEN 1 ELSE Last(Last(scope)).position + 1

(* declare() throws "Variable already defined" when this holds.            *)
Defined(scope, name, depth) == IndexAt(scope, name, depth) # 0

Declare(scope, name, depth) ==
  [scope EXCEPT ![depth + 1] = Append(@, Local(name, NextPosition(scope)))]

Initialize(scope, name, depth) ==
  LET i == IndexAt(scope, name, depth)
  IN  IF i = 0 THEN scope
      ELSE [scope EXCEPT ![depth + 1][i].initialized = TRUE]

(* capture() marks the innermost local of that name, initialized or not.   *)
Capture(scope, name) ==
  LET d == Max(Depths(scope, name))
  IN  [scope EXCEPT ![d + 1][IndexAt(scope, name, d)].isCaptured = TRUE]

(* The public find(): the innermost local of that name, or, if it is not   *)
(* initialized yet, the next one outwards, whatever its state.             *)
Find(scope, name) ==
  LET depths    == Depths(scope, name)
      innermost == Max(depths)
      outer     == depths \ {innermost}
  IN  IF depths = {} THEN Absent
      ELSE IF LocalAt(scope, name, innermost).initialized
        THEN LocalAt(scope, name, innermost).position
      ELSE IF outer = {} THEN Uninitialized
      ELSE LocalAt(scope, name, Max(outer)).position

PushScope(scope, depth) ==
  scope \o [i \in 1 .. depth + 1 - Len(scope) |-> <<>>]

PopScope(scope) == Front(scope)

(* All locals, in the order their values lie on the stack.                 *)
Locals(scope) == FlattenSeq(scope)

=============================================================================
