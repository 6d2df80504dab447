----------------------------- MODULE UpvalueList -----------------------------
(***************************************************************************)
(* The list of open upvalues, VM::openUpvalues (vm.h).                     *)
(*                                                                         *)
(* In the code it is a linked list of UpvalueObjects.  Every walk over it  *)
(* starts at the head and STOPS at the first object whose stack location   *)
(* is low enough: capturing and closing are right only as long as the list *)
(* is sorted by descending location, and nothing but these two functions   *)
(* keeps it sorted.                                                        *)
(*                                                                         *)
(* Here a list is the sequence of its upvalues, head first, and `location' *)
(* maps an upvalue to the stack slot it points to.                         *)
(***************************************************************************)
EXTENDS Integers, Sequences, SequencesExt

(* Variant of FirstNotAbove: `<' where the code has `<='.                  *)
FirstBelowSlot(list, location, slot) ==
  SelectInSeq(list, LAMBDA u : location[u] < slot)

(* Where captureUpvalue's walk stops: the first upvalue that is not above  *)
(* the slot, or 0 when the walk runs off the end of the list.              *)
FirstNotAbove(list, location, slot) ==
  SelectInSeq(list, LAMBDA u : location[u] <= slot)

(* Does the walk stop at an upvalue that already captures the slot?        *)
Captures(list, location, slot) ==
  LET k == FirstNotAbove(list, location, slot)
  IN  k # 0 /\ location[list[k]] = slot

(* The upvalue captureUpvalue returns when it creates no new one.          *)
Existing(list, location, slot) ==
  list[FirstNotAbove(list, location, slot)]

(* Variant of Link: the new upvalue always becomes the head.               *)
LinkAtHead(list, location, slot, u) == <<u>> \o list

(* Links a created upvalue u in where the walk stopped.                    *)
Link(list, location, slot, u) ==
  LET k == FirstNotAbove(list, location, slot)
  IN  IF k = 0 THEN Append(list, u) ELSE InsertAt(list, k, u)

(* Variant of Remaining: `if' where the code has `while'.                  *)
RemainingAfterOne(list, location, last) ==
  IF list # <<>> /\ location[Head(list)] >= last THEN Tail(list) ELSE list

(* What closeUpvalue(last) leaves in the list: it unlinks upvalues from    *)
(* the head as long as they are at or above `last'.                        *)
Remaining(list, location, last) ==
  LET k == SelectInSeq(list, LAMBDA u : location[u] < last)
  IN  IF k = 0 THEN <<>> ELSE SubSeq(list, k, Len(list))

(* Variant of Unlinked: only the first of them is closed.                  *)
UnlinkedFirst(list, location, last) ==
  IF list # <<>> /\ location[Head(list)] >= last THEN {Head(list)} ELSE {}

(* The upvalues closeUpvalue(last) unlinks, and closes.                    *)
Unlinked(list, location, last) ==
  LET k == SelectInSeq(list, LAMBDA u : location[u] < last)
  IN  IF k = 0 THEN ToSet(list) ELSE {list[i] : i \in 1 .. k-1}

-----------------------------------------------------------------------------

(* The representation invariant the two walks rely on.                     *)
Descending(list, location) ==
  \A i, j \in 1 .. Len(list) :
    i < j => location[list[i]] > location[list[j]]

=============================================================================
