------------------------------ MODULE Closures ------------------------------
(***************************************************************************)
(* The part of the virtual machine (vm.h) that makes closures work: the    *)
(* value stack, the call frames, and the upvalues through which a closure  *)
(* reaches variables of enclosing functions.                               *)
(*                                                                         *)
(* The instruction stream is arbitrary: at each step ANY instruction may   *)
(* run, under the discipline the compiler promises for the code it emits   *)
(* (Temporaries, below).  What is shown here holds of every program.       *)
(* Values are opaque.  Stack positions count from 1, so that the slot      *)
(* which vm.h addresses as stack_[i] is stack[i+1] here.                   *)
(***************************************************************************)
EXTENDS UpvalueList

CONSTANTS
  Value,          \* Lox values
  Nil,            \* std::monostate
  FRAMES_MAX,     \* vm.h, 64 in the code
  kMaxStackSize,  \* Stack.h: the capacity reserved for the stack, 255
  MaxStack,       \* bound: deepest stack of the instance
  MaxClosures,    \* bound: closures created, the script's included
  MaxUpvalues     \* bound: upvalues created, and upvalues of one closure

ASSUME ValueAssumption == Nil \in Value
ASSUME LimitsAssumption ==
  /\ FRAMES_MAX \in Nat \ {0, 1}
  /\ kMaxStackSize \in Nat \ {0}
  /\ MaxStack \in Nat \ {0}
  /\ MaxClosures \in Nat \ {0}
  /\ MaxUpvalues \in Nat

VARIABLES
  stack,     \* VM::stack_
  capacity,  \* slots allocated for stack_
  frames,    \* VM::frames_, of [offset, closure]
  closures,  \* the ClosureObjects created: closure -> its upvalues
  making,    \* is run() inside the loop of CLOSURE?
  location,  \* upvalue -> the slot its location points to, or Closed
  closed,    \* upvalue -> its closed value
  open,      \* VM::openUpvalues, head first
  status     \* "running", or how interpret() ended

vars == <<stack, capacity, frames, closures, making, location, closed, open,
          status>>

upvalueVars == <<location, closed, open>>

Closed == 0    \* location == &closed: no stack slot

Frame == [offset : Nat \ {0}, closure : Nat \ {0}]

(* Closures and upvalues are named by their order of creation; whatever    *)
(* holds one, a frame, a closure or the list, holds one that exists.       *)
TypeOK ==
  /\ stack \in Seq(Value)
  /\ capacity \in Nat
  /\ frames \in Seq(Frame)
  /\ \A i \in 1 .. Len(frames) : frames[i].closure \in 1 .. Len(closures)
  /\ closures \in Seq(Seq(1 .. Len(location)))
  /\ making \in BOOLEAN
  /\ location \in Seq(Nat)
  /\ closed \in Seq(Value)
  /\ Len(closed) = Len(location)
  /\ open \in Seq(1 .. Len(location))
  /\ status \in {"running", "ok", "error", "undefined"}

(* interpret() has pushed the script and call()ed its closure.             *)
Init ==
  /\ stack \in {<<v>> : v \in Value}
  /\ capacity = kMaxStackSize
  /\ frames = <<[offset |-> 1, closure |-> 1]>>
  /\ closures = << <<>> >>
  /\ making = FALSE
  /\ location = <<>>
  /\ closed = <<>>
  /\ open = <<>>
  /\ status = "running"

-----------------------------------------------------------------------------

Top     == Len(stack)
Base    == frames[Len(frames)].offset
Upvalue(i) == closures[frames[Len(frames)].closure][i]

Captured(slot) == \E i \in 1 .. Len(open) : location[open[i]] = slot

(* What the compiler promises about the n topmost slots an instruction     *)
(* consumes: they belong to the running function, above its slot zero,     *)
(* and hold no captured variable (those leave by CLOSE_UPVALUE).           *)
Temporaries(n) ==
  /\ Top - n >= Base
  /\ \A s \in Top - n + 1 .. Top : ~ Captured(s)

Running == status = "running" /\ ~ making

(* push_back on a full vector moves the elements to a larger buffer; raw   *)
(* pointers into the old one, which the open upvalues hold, then dangle.   *)
(* From there on the behaviour of the program is undefined.                *)
Push(v) ==
  /\ Top < MaxStack
  /\ stack' = Append(stack, v)
  /\ IF Top = capacity
       THEN /\ capacity' = 2 * capacity
            /\ status' = IF open = <<>> THEN "running" ELSE "undefined"
       ELSE UNCHANGED <<capacity, status>>

(* CONSTANT, NIL, TRUE, FALSE, CLASS, GET_GLOBAL                           *)
PushValue(v) ==
  /\ Running
  /\ Push(v)
  /\ UNCHANGED <<frames, closures, making, upvalueVars>>

(* The instructions that replace their operands by a result: popAndPush,   *)
(* popTwoAndPush, GET_PROPERTY, ...                                        *)
Operate(n, v) ==
  /\ Running
  /\ Temporaries(n)
  /\ stack' = Append(SubSeq(stack, 1, Top - n), v)
  /\ UNCHANGED <<capacity, status, frames, closures, making, upvalueVars>>

(* POP, DEFINE_GLOBAL, METHOD, INHERIT                                     *)
Pop ==
  /\ Running
  /\ Temporaries(1)
  /\ stack' = SubSeq(stack, 1, Top - 1)
  /\ UNCHANGED <<capacity, status, frames, closures, making, upvalueVars>>

GetLocal(s) ==
  /\ Running
  /\ s \in Base .. Top
  /\ Push(stack[s])
  /\ UNCHANGED <<frames, closures, making, upvalueVars>>

SetLocal(s) ==
  /\ Running
  /\ Top > Base
  /\ s \in Base .. Top
  /\ stack' = [stack EXCEPT ![s] = stack[Top]]
  /\ UNCHANGED <<capacity, status, frames, closures, making, upvalueVars>>

-----------------------------------------------------------------------------

UpvalueIndices == 1 .. Len(closures[frames[Len(frames)].closure])

(* Variant of GetUpvalue: the location itself is pushed.                   *)
GetUpvalueLocation(i) ==
  /\ Running
  /\ i \in UpvalueIndices
  /\ Push(location[Upvalue(i)])
  /\ UNCHANGED <<frames, closures, making, upvalueVars>>

GetUpvalue(i) ==
  /\ Running
  /\ i \in UpvalueIndices
  /\ LET u == Upvalue(i)
     IN  Push(IF location[u] = Closed THEN closed[u] ELSE stack[location[u]])
  /\ UNCHANGED <<frames, closures, making, upvalueVars>>

SetUpvalue(i) ==
  /\ Running
  /\ Top > Base
  /\ i \in UpvalueIndices
  /\ LET u == Upvalue(i)
     IN  IF location[u] = Closed
           THEN /\ closed' = [closed EXCEPT ![u] = stack[Top]]
                /\ UNCHANGED stack
           ELSE /\ stack' = [stack EXCEPT ![location[u]] = stack[Top]]
                /\ UNCHANGED closed
  /\ UNCHANGED <<capacity, status, frames, closures, making, location, open>>

(* Variant of CloseUpvalues: redirects without copying.                    *)
CloseUpvaluesNoCopy(last) ==
  LET gone == Unlinked(open, location, last)
  IN  /\ open' = Remaining(open, location, last)
      /\ location' = [u \in DOMAIN location |->
                        IF u \in gone THEN Closed ELSE location[u]]
      /\ UNCHANGED closed

(* closeUpvalue(&stack_[last]): *location is copied, then location is      *)
(* redirected to the copy.                                                 *)
CloseUpvalues(last) ==
  LET gone == Unlinked(open, location, last)
  IN  /\ open' = Remaining(open, location, last)
      /\ closed' = [u \in DOMAIN closed |->
                      IF u \in gone THEN stack[location[u]] ELSE closed[u]]
      /\ location' = [u \in DOMAIN location |->
                        IF u \in gone THEN Closed ELSE location[u]]

(* Variant of CloseUpvalue: pops without closing.                          *)
CloseUpvaluePopOnly ==
  /\ Running
  /\ Top > Base
  /\ stack' = SubSeq(stack, 1, Top - 1)
  /\ UNCHANGED <<capacity, status, frames, closures, making, upvalueVars>>

CloseUpvalue ==
  /\ Running
  /\ Top > Base
  /\ CloseUpvalues(Top)
  /\ stack' = SubSeq(stack, 1, Top - 1)
  /\ UNCHANGED <<capacity, status, frames, closures, making>>

(* CLOSURE: make_shared, then one iteration per upvalue of the function's  *)
(* chunk, then the push.                                                   *)
BeginClosure ==
  /\ Running
  /\ Top < MaxStack
  /\ Len(closures) < MaxClosures
  /\ closures' = Append(closures, <<>>)
  /\ making' = TRUE
  /\ UNCHANGED <<stack, capacity, frames, upvalueVars, status>>

AddUpvalue(u) ==
  closures' = [closures EXCEPT ![Len(closures)] = Append(@, u)]

MakingMore ==
  /\ status = "running" /\ making
  /\ Len(closures[Len(closures)]) < MaxUpvalues

(* upvalue.isLocal: captureUpvalue(&stack_[s]).                            *)
CaptureLocal(s) ==
  /\ MakingMore
  /\ s \in Base + 1 .. Top
  /\ IF Captures(open, location, s)
       THEN /\ AddUpvalue(Existing(open, location, s))
            /\ UNCHANGED upvalueVars
       ELSE LET u == Len(location) + 1
            IN  /\ Len(location) < MaxUpvalues
                /\ location' = Append(location, s)
                /\ closed' = Append(closed, Nil)
                /\ open' = Link(open, location, s, u)
                /\ AddUpvalue(u)
  /\ UNCHANGED <<stack, capacity, frames, making, status>>

(* Otherwise the upvalue is shared with the running closure.               *)
CaptureOuter(i) ==
  /\ MakingMore
  /\ i \in UpvalueIndices
  /\ AddUpvalue(Upvalue(i))
  /\ UNCHANGED <<stack, capacity, frames, making, upvalueVars, status>>

EndClosure(v) ==
  /\ status = "running" /\ making
  /\ Push(v)
  /\ making' = FALSE
  /\ UNCHANGED <<frames, closures, upvalueVars>>

-----------------------------------------------------------------------------

(* Variant of Call: the frame starts one slot too low.                     *)
CallOneLow(c, argCount, receiver) ==
  /\ Running
  /\ Temporaries(argCount + 1)
  /\ Top - argCount > Base
  /\ Len(frames) + 1 # FRAMES_MAX
  /\ frames' = Append(frames, [offset |-> Top - argCount - 1, closure |-> c])
  /\ stack' = [stack EXCEPT ![Top - argCount] = receiver]
  /\ UNCHANGED <<capacity, status, closures, making, upvalueVars>>

(* call() with argCount arguments on the stack.  The slot of the callee    *)
(* becomes slot zero of the frame; CallVisitor may have put the receiver   *)
(* or a new instance there.                                                *)
Call(c, argCount, receiver) ==
  /\ Running
  /\ Temporaries(argCount + 1)
  /\ Top - argCount > Base
  /\ Len(frames) + 1 # FRAMES_MAX
  /\ frames' = Append(frames, [offset |-> Top - argCount, closure |-> c])
  /\ stack' = [stack EXCEPT ![Top - argCount] = receiver]
  /\ UNCHANGED <<capacity, status, closures, making, upvalueVars>>

(* Variant of Return: the last frame ends without closing its upvalues.    *)
ReturnLeavingOpen ==
  /\ Running
  /\ Top > Base
  /\ ~ Captured(Top)
  /\ frames' = SubSeq(frames, 1, Len(frames) - 1)
  /\ IF Len(frames) = 1
       THEN /\ stack' = SubSeq(stack, 1, Top - 2)
            /\ status' = "ok"
            /\ UNCHANGED upvalueVars
       ELSE /\ CloseUpvalues(Base)
            /\ stack' = Append(SubSeq(stack, 1, Base - 1), stack[Top])
            /\ UNCHANGED status
  /\ UNCHANGED <<capacity, closures, making>>

(* RETURN                                                                  *)
Return ==
  /\ Running
  /\ Top > Base
  /\ ~ Captured(Top)
  /\ CloseUpvalues(Base)
  /\ frames' = SubSeq(frames, 1, Len(frames) - 1)
  /\ IF Len(frames) = 1
       THEN /\ stack' = SubSeq(stack, 1, Top - 2)
            /\ status' = "ok"
       ELSE /\ stack' = Append(SubSeq(stack, 1, Base - 1), stack[Top])
            /\ UNCHANGED status
  /\ UNCHANGED <<capacity, closures, making>>

(* runtimeError(): the open upvalues are left as they are.                 *)
RuntimeError ==
  /\ Running
  /\ frames' = SubSeq(frames, 1, Len(frames) - 1)
  /\ stack' = <<>>
  /\ status' = "error"
  /\ UNCHANGED <<capacity, closures, making, upvalueVars>>

-----------------------------------------------------------------------------

Slots == 1 .. MaxStack

Next ==
  \/ \E v \in Value : PushValue(v)
  \/ \E n \in 1 .. 2, v \in Value : Operate(n, v)
  \/ Pop
  \/ \E s \in Slots : GetLocal(s) \/ SetLocal(s) \/ CaptureLocal(s)
  \/ \E i \in 1 .. MaxUpvalues : GetUpvalue(i) \/ SetUpvalue(i) \/ CaptureOuter(i)
  \/ CloseUpvalue
  \/ BeginClosure
  \/ \E v \in Value : EndClosure(v)
  \/ \E c \in 1 .. Len(closures), argCount \in 0 .. MaxStack - 1, v \in Value :
       Call(c, argCount, v)
  \/ Return
  \/ RuntimeError

Spec == Init /\ [][Next]_vars

-----------------------------------------------------------------------------

(* captureUpvalue and closeUpvalue stop their walks at the first upvalue   *)
(* that is low enough, which misses nothing only if the list descends      *)
(* strictly; two open upvalues of one slot would split a shared variable.  *)
OpenListDescends == Descending(open, location)

(* An upvalue is open (its location points into the stack) exactly while   *)
(* it is in VM::openUpvalues: closing never forgets one, and never leaves  *)
(* one behind in the list.                                                 *)
OpenListComplete ==
  \A u \in 1 .. Len(location) :
    location[u] # Closed <=> \E i \in 1 .. Len(open) : open[i] = u

(* While the program runs, an open upvalue points to a live slot above     *)
(* slot zero of the script: reading through it never reads a popped slot.  *)
OpenWithinStack ==
  status = "running" =>
    \A i \in 1 .. Len(open) :
      location[open[i]] \in frames[1].offset + 1 .. Len(stack)

(* A frame's variables are its own: frames lie strictly above each other   *)
(* on the stack, so RETURN, which closes and drops everything from its     *)
(* frame's slot zero up, takes nothing of the caller's.                    *)
FramesNested ==
  status = "running" =>
    /\ frames # <<>>
    /\ \A i, j \in 1 .. Len(frames) :
         i < j => frames[i].offset < frames[j].offset
    /\ Base <= Len(stack)

(* A program that ends normally leaves no upvalue pointing into the stack  *)
(* that the next interpret() will reuse.                                   *)
EndsClosed == status = "ok" => open = <<>> /\ frames = <<>>

=============================================================================
