------------------------------ MODULE Session ------------------------------
(***************************************************************************)
(* A session at the prompt, Lox::repl (lox.h): one virtual machine that    *)
(* interprets line after line.  What a line leaves behind, on the stack,   *)
(* in the frames and in the list of open upvalues, is what the next begins *)
(* with; the closures it made live on in globals.                          *)
(*                                                                         *)
(* A line runs as a script does in Closures.  Closure 1, which has no      *)
(* upvalues, is the script of every line.                                  *)
(*                                                                         *)
(* A line that fails may leave frames, and open upvalues whose slots are   *)
(* gone.  The lines after it run all the same; where one of them reads     *)
(* through such an upvalue before its slot is in use again, the behaviour  *)
(* of the program is undefined, and where one returns into a frame that    *)
(* was left, code of an earlier line runs on, which is not modelled.       *)
(***************************************************************************)
EXTENDS Closures

CONSTANT MaxLines    \* bound: lines entered

ASSUME SessionAssumption == MaxLines \in Nat \ {0}

VARIABLES
  line,    \* the number of the line that runs, or ran last
  start,   \* the slot of its script
  left,    \* how many frames of earlier lines there are below its own
  made     \* how many upvalues there were when it began

lineVars    == <<line, start, left, made>>
sessionVars == <<vars, lineVars>>

SessionInit ==
  /\ Init
  /\ line = 1 /\ start = 1 /\ left = 0 /\ made = 0

-----------------------------------------------------------------------------

(* The upvalues that point to a slot the stack has no longer.              *)
Dangling == {u \in 1 .. Len(location) : location[u] > Top}

(* The instructions that follow no upvalue to its slot                     *)
Direct ==
  \/ \E v \in Value : PushValue(v) \/ EndClosure(v)
  \/ \E n \in 1 .. 2, v \in Value : Operate(n, v)
  \/ Pop
  \/ \E s \in Slots : GetLocal(s) \/ SetLocal(s) \/ CaptureLocal(s)
  \/ \E i \in 1 .. MaxUpvalues : CaptureOuter(i)
  \/ BeginClosure
  \/ \E c \in 1 .. Len(closures), argCount \in 0 .. MaxStack - 1, v \in Value :
       Call(c, argCount, v)
  \/ RuntimeError

(* ... that follow one, and those that close from the head of the list     *)
Access(i) ==
  /\ Running
  /\ i \in UpvalueIndices
  /\ Upvalue(i) \notin Dangling
  /\ GetUpvalue(i) \/ SetUpvalue(i)

Close == Running /\ Dangling = {} /\ (CloseUpvalue \/ Return)

(* ... and all these where the slot is gone                                *)
Stray ==
  /\ Running
  /\ \/ \E i \in UpvalueIndices : Upvalue(i) \in Dangling
     \/ Top > Base /\ Dangling # {}
  /\ status' = "undefined"
  /\ UNCHANGED <<stack, capacity, frames, closures, making, upvalueVars>>

(* run(), for the code of the line                                         *)
Run ==
  /\ Len(frames) > left
  /\ Direct \/ (\E i \in 1 .. MaxUpvalues : Access(i)) \/ Close \/ Stray
  /\ UNCHANGED lineVars

AtPrompt == status \in {"ok", "error"} /\ line < MaxLines

(* What every NextLine does beside the frame.                              *)
Begin(v) ==
  /\ AtPrompt
  /\ Top < MaxStack
  /\ stack' = Append(stack, v)
  /\ capacity' = IF Top = capacity THEN 2 * capacity ELSE capacity
  /\ status' = IF Top = capacity /\ open # <<>> THEN "undefined" ELSE "running"
  /\ line' = line + 1 /\ start' = Top + 1
  /\ left' = Len(frames) /\ made' = Len(location)
  /\ UNCHANGED <<closures, making, upvalueVars>>

(* Variant of NextLine: the frame begins one slot below the script.        *)
NextLineOneLow(v) ==
  /\ Begin(v)
  /\ frames' = Append(frames, [offset |-> IF Top = 0 THEN 1 ELSE Top, closure |-> 1])

(* interpret() pushes the script v and call()s its closure, on top of what *)
(* earlier lines have left on the stack and among the frames.  (A line     *)
(* fails with fewer than FRAMES_MAX frames and one of them is popped, so   *)
(* that call() finds room for the script's.)                               *)
NextLine(v) ==
  /\ Begin(v)
  /\ frames' = Append(frames, [offset |-> Top + 1, closure |-> 1])

(* A line with a compile error never reaches the machine.                  *)
CompileError ==
  /\ AtPrompt
  /\ line' = line + 1
  /\ UNCHANGED <<vars, start, left, made>>

SessionNext == Run \/ (\E v \in Value : NextLine(v)) \/ CompileError

SessionSpec == SessionInit /\ [][SessionNext]_sessionVars

-----------------------------------------------------------------------------

(* A line does not read or write, and does not end up popping, what        *)
(* earlier lines have left on the stack; only an error clears it.          *)
LeftoversStay ==
  [][status' # "error" =>
       \A s \in 1 .. start' - 1 : s <= Len(stack') /\ stack'[s] = stack[s]]_sessionVars

(* A slot is used again when the variable it was for is gone, and closures *)
(* that captured that variable still hold it (the words of                 *)
(* test/closure/reuse_closure_slot.lox): no slot in use by a line is one   *)
(* that an upvalue of an earlier line points to.  It does not hold after   *)
(* an error, which clears the stack and closes nothing.                    *)
SlotsUsedAgain ==
  status = "running" =>
    \A u \in 1 .. made : location[u] \notin start .. Len(stack)

=============================================================================
