---------------------------- MODULE SessionProofs ----------------------------
(***************************************************************************)
(* What the lines of a session leave on the stack is left alone by the     *)
(* lines after them, for every value of the constants and any number of    *)
(* lines.  The proof builds on the inductive invariant of one script,      *)
(* IInv, which must therefore hold of a script that starts anywhere on the *)
(* stack.                                                                  *)
(***************************************************************************)
EXTENDS Session, ClosuresProofs

(* The slots up to b keep their values.                                    *)
Keeps(b) == \A s \in 1 .. b : s <= Len(stack') /\ stack'[s] = stack[s]

LEMMA AppendKeeps ==
  ASSUME stack \in Seq(Value), NEW v \in Value, stack' = Append(stack, v),
         NEW b \in Nat, b <= Top
  PROVE  Keeps(b)
<1>1. Len(stack) \in Nat
  OBVIOUS
<1>2. Len(stack') = Len(stack) + 1 /\ \A s \in 1 .. Len(stack) : stack'[s] = stack[s]
  BY AppendProperties
<1>3. QED
  BY <1>1, <1>2 DEF Keeps, Top

LEMMA CutKeeps ==
  ASSUME stack \in Seq(Value), NEW k \in Nat, k <= Top, stack' = SubSeq(stack, 1, k),
         NEW b \in Nat, b <= k
  PROVE  Keeps(b)
<1>1. Len(stack') = k /\ \A s \in 1 .. k : stack'[s] = stack[s]
  BY DEF Top
<1>2. QED
  BY <1>1 DEF Keeps

LEMMA CutAndAppendKeeps ==
  ASSUME stack \in Seq(Value), NEW k \in Nat, k <= Top, NEW v \in Value,
         stack' = Append(SubSeq(stack, 1, k), v), NEW b \in Nat, b <= k
  PROVE  Keeps(b)
<1> DEFINE rest == SubSeq(stack, 1, k)
<1>1. /\ rest \in Seq(Value) /\ Len(rest) = k
      /\ \A s \in 1 .. k : rest[s] = stack[s]
  BY Prefix DEF Top
<1> HIDE DEF rest
<1>2. stack' = Append(rest, v)
  BY DEF rest
<1>3. Len(stack') = k + 1 /\ \A s \in 1 .. k : stack'[s] = rest[s]
  BY <1>1, <1>2, AppendProperties
<1>4. QED
  BY <1>1, <1>3 DEF Keeps

LEMMA WriteKeeps ==
  ASSUME stack \in Seq(Value), NEW b \in Nat, b <= Top,
         NEW t \in Nat, b < t, NEW v, stack' = [stack EXCEPT ![t] = v]
  PROVE  Keeps(b)
<1>1. Len(stack) \in Nat /\ DOMAIN stack = 1 .. Len(stack)
  OBVIOUS
<1>2. DOMAIN stack' = DOMAIN stack
  OBVIOUS
<1>3. Len(stack') = Len(stack)
  BY <1>1, <1>2
<1>4. \A s \in 1 .. b : s \in DOMAIN stack /\ s # t
  BY <1>1 DEF Top
<1>5. \A s \in 1 .. b : stack'[s] = stack[s]
  BY <1>4
<1>6. QED
  BY <1>1, <1>3, <1>5 DEF Keeps, Top

-----------------------------------------------------------------------------

(* Nothing that a script does reaches below its own frame.                 *)
LEMMA NextKeeps ==
  ASSUME IInv, Next, status' # "error"
  PROVE  Keeps(frames[1].offset - 1)
<1> DEFINE b == frames[1].offset - 1
<1>1. status = "running"
  BY DEF Next, PushValue, Operate, Pop, GetLocal, SetLocal, CaptureLocal, GetUpvalue,
     SetUpvalue, CaptureOuter, CloseUpvalue, BeginClosure, EndClosure, Call, Return,
     RuntimeError, Running, MakingMore
<1>2. /\ b \in Nat /\ b < Base /\ Base <= Top /\ Top \in Nat /\ Base \in Nat
      /\ stack \in Seq(Value)
  <2>1. /\ Top \in Nat /\ Base \in Nat \ {0} /\ Base <= Top
        /\ frames[1].offset \in Nat \ {0} /\ frames[1].offset <= Base
    BY <1>1, RunningFacts
  <2>2. stack \in Seq(Value)
    BY DEF IInv, TypeOK
  <2>3. QED
    BY <2>1, <2>2
<1> SUFFICES Keeps(b)
  OBVIOUS
<1> HIDE DEF b
<1>3. b <= Top
  BY <1>2
<1>4. ASSUME UNCHANGED stack PROVE Keeps(b)
  BY <1>2, <1>3, <1>4 DEF Keeps, Top
<1>5. ASSUME NEW v \in Value, Push(v) PROVE Keeps(b)
  BY <1>2, <1>3, <1>5, AppendKeeps DEF Push
<1>6. ASSUME NEW v \in Value, PushValue(v) \/ EndClosure(v) PROVE Keeps(b)
  BY <1>5, <1>6 DEF PushValue, EndClosure
<1>7. ASSUME NEW n \in 1 .. 2, NEW v \in Value, Operate(n, v) PROVE Keeps(b)
  <2>1. Temporaries(n) /\ stack' = Append(SubSeq(stack, 1, Top - n), v)
    BY <1>7 DEF Operate
  <2>2. Top - n \in Nat /\ b <= Top - n /\ Top - n <= Top
    BY <1>2, <2>1 DEF Temporaries
  <2>3. QED
    BY <1>2, <2>1, <2>2, CutAndAppendKeeps
<1>8. CASE Pop
  <2>1. Temporaries(1) /\ stack' = SubSeq(stack, 1, Top - 1)
    BY <1>8 DEF Pop
  <2>2. PICK k \in Nat : k = Top - 1
    BY <1>2, <2>1 DEF Temporaries
  <2>3. stack' = SubSeq(stack, 1, k) /\ b <= k /\ k <= Top
    BY <1>2, <2>1, <2>2 DEF Temporaries
  <2>4. QED
    BY <1>2, <2>3, CutKeeps
<1>9. ASSUME NEW s \in Slots, GetLocal(s) PROVE Keeps(b)
  <2>1. s \in Base .. Top /\ Push(stack[s])
    BY <1>9 DEF GetLocal
  <2>2. stack[s] \in Value
    BY <1>1, <1>2, <2>1, RunningFacts
  <2>3. QED
    BY <1>5, <2>1, <2>2
<1>10. ASSUME NEW s \in Slots, SetLocal(s) PROVE Keeps(b)
  <2>1. s \in Base .. Top /\ stack' = [stack EXCEPT ![s] = stack[Top]]
    BY <1>10 DEF SetLocal
  <2>2. s \in Nat /\ b < s
    BY <1>2, <2>1
  <2>3. QED
    BY <1>2, <1>3, <2>1, <2>2, WriteKeeps
<1>11. ASSUME NEW i \in 1 .. MaxUpvalues, GetUpvalue(i) PROVE Keeps(b)
  <2> DEFINE u == Upvalue(i)
             v == IF location[u] = Closed THEN closed[u] ELSE stack[location[u]]
  <2>1. i \in UpvalueIndices /\ Push(v)
    BY <1>11 DEF GetUpvalue
  <2>2. v \in Value
    BY <1>1, <2>1, UpvalueFacts, RunningFacts
  <2>3. QED
    BY <1>5, <2>1, <2>2
<1>12. ASSUME NEW i \in 1 .. MaxUpvalues, SetUpvalue(i) PROVE Keeps(b)
  <2> DEFINE u == Upvalue(i)
  <2>1. CASE location[u] = Closed
    BY <1>4, <1>12, <2>1 DEF SetUpvalue
  <2>2. CASE location[u] # Closed
    <3>1. i \in UpvalueIndices /\ stack' = [stack EXCEPT ![location[u]] = stack[Top]]
      BY <1>12, <2>2 DEF SetUpvalue
    <3>2. location[u] \in Nat /\ u \in 1 .. Len(location)
      BY <1>1, <3>1, UpvalueFacts
    <3>3. PICK j \in 1 .. Len(open) : open[j] = u
      BY <2>2, <3>2 DEF IInv, OpenListComplete
    <3>4. location[u] \in frames[1].offset + 1 .. Top
      BY <1>1, <3>3, RunningFacts
    <3>5. b < location[u]
      BY <1>1, <3>4, RunningFacts DEF b
    <3>6. QED
      BY <1>2, <1>3, <3>1, <3>2, <3>5, WriteKeeps
  <2>3. QED
    BY <2>1, <2>2
<1>13. CASE CloseUpvalue
  <2>1. Top > Base /\ stack' = SubSeq(stack, 1, Top - 1)
    BY <1>13 DEF CloseUpvalue
  <2>2. PICK k \in Nat : k = Top - 1
    BY <1>2, <2>1
  <2>3. stack' = SubSeq(stack, 1, k) /\ b <= k /\ k <= Top
    BY <1>2, <2>1, <2>2
  <2>4. QED
    BY <1>2, <2>3, CutKeeps
<1>14. ASSUME NEW c \in 1 .. Len(closures), NEW argCount \in 0 .. MaxStack - 1,
              NEW v \in Value, Call(c, argCount, v)
       PROVE  Keeps(b)
  <2>1. Top - argCount > Base /\ stack' = [stack EXCEPT ![Top - argCount] = v]
    BY <1>14 DEF Call
  <2>2. Top - argCount \in Nat /\ b < Top - argCount
    BY <1>2, <2>1, LimitsAssumption
  <2>3. QED
    BY <1>2, <1>3, <2>1, <2>2, WriteKeeps
<1>15. CASE Return
  <2>1. Top > Base
    BY <1>15 DEF Return
  <2>2. CASE Len(frames) = 1
    <3>1. stack' = SubSeq(stack, 1, Top - 2)
      BY <1>15, <2>2 DEF Return
    <3>2. Base = frames[1].offset
      BY <2>2 DEF Base
    <3>3. PICK k \in Nat : k = Top - 2
      BY <1>2, <2>1, <3>2
    <3>4. b <= k /\ k <= Top
      BY <1>1, <1>2, <2>1, <3>2, <3>3, RunningFacts DEF b
    <3>5. QED
      BY <1>2, <3>1, <3>3, <3>4, CutKeeps
  <2>3. CASE Len(frames) # 1
    <3>1. stack' = Append(SubSeq(stack, 1, Base - 1), stack[Top])
      BY <1>15, <2>3 DEF Return
    <3>2. PICK k \in Nat : k = Base - 1
      BY <1>2
    <3>3. b <= k /\ k <= Top /\ Top \in 1 .. Top
      BY <1>2, <2>1, <3>2
    <3>4. stack[Top] \in Value
      BY <1>1, <3>3, RunningFacts
    <3>5. stack' = Append(SubSeq(stack, 1, k), stack[Top])
      BY <3>1, <3>2
    <3>6. QED
      BY <1>2, <3>3, <3>4, <3>5, CutAndAppendKeeps
  <2>4. QED
    BY <2>2, <2>3
<1>16. CASE RuntimeError
  BY <1>16 DEF RuntimeError
<1>17. ASSUME NEW s \in Slots, CaptureLocal(s) PROVE Keeps(b)
  BY <1>4, <1>17 DEF CaptureLocal
<1>18. ASSUME NEW i \in 1 .. MaxUpvalues, CaptureOuter(i) PROVE Keeps(b)
  BY <1>4, <1>18 DEF CaptureOuter
<1>19. CASE BeginClosure
  <2>1. UNCHANGED stack
    BY <1>19 DEF BeginClosure
  <2>2. QED
    BY <1>4, <2>1
<1>20. QED
  BY <1>6, <1>7, <1>8, <1>9, <1>10, <1>11, <1>12, <1>13, <1>14, <1>15, <1>16, <1>17,
     <1>18, <1>19 DEF Next, b

-----------------------------------------------------------------------------

(* A line's own frame is there until the line ends.                        *)
LEMMA FirstFrameStays ==
  ASSUME IInv, Next, status' = "running"
  PROVE  frames'[1] = frames[1]
<1>1. CASE UNCHANGED frames
  BY <1>1
<1>2. ASSUME NEW c \in 1 .. Len(closures), NEW argCount \in 0 .. MaxStack - 1,
             NEW v \in Value, Call(c, argCount, v)
      PROVE  frames'[1] = frames[1]
  <2> DEFINE top == [offset |-> Top - argCount, closure |-> c]
  <2>1. status = "running" /\ frames' = Append(frames, top)
    BY <1>2 DEF Call, Running
  <2>2. frames \in Seq(Frame) /\ Len(frames) \in Nat \ {0}
    BY <2>1, RunningFacts DEF IInv, TypeOK
  <2>3. \A i \in 1 .. Len(frames) : frames'[i] = frames[i]
    BY <2>1, <2>2, AppendProperties
  <2>4. QED
    BY <2>2, <2>3
<1>3. CASE Return
  <2>1. status = "running" /\ frames' = SubSeq(frames, 1, Len(frames) - 1)
        /\ Len(frames) # 1
    BY <1>3 DEF Return, Running
  <2>2. frames \in Seq(Frame) /\ Len(frames) \in Nat \ {0}
    BY <2>1, RunningFacts DEF IInv, TypeOK
  <2>3. /\ Len(frames') = Len(frames) - 1
        /\ \A i \in 1 .. Len(frames') : frames'[i] = frames[i]
    BY <2>1, <2>2, DropLast, Zenon
  <2>4. 1 \in 1 .. Len(frames')
    BY <2>1, <2>2, <2>3
  <2>5. QED
    BY <2>3, <2>4
<1>4. CASE RuntimeError
  BY <1>4 DEF RuntimeError
<1>5. QED
  BY <1>1, <1>2, <1>3, <1>4 DEF Next, PushValue, Operate, Pop, GetLocal, SetLocal,
     CaptureLocal, GetUpvalue, SetUpvalue, CaptureOuter, CloseUpvalue, BeginClosure,
     EndClosure

-----------------------------------------------------------------------------

(* Nothing that an error left behind is there when a line begins.          *)
TidyStep == (\E v \in Value : NextLine(v)) => frames = <<>> /\ open = <<>>

(* The inductive invariant of a tidy session: that of a script, which then *)
(* holds of every line, and a line's script is its lowest frame and begins *)
(* above what was on the stack.                                            *)
SInv ==
  /\ IInv
  /\ closures # <<>>
  /\ start \in Nat \ {0}
  /\ status # "error" => start - 1 <= Len(stack)
  /\ status = "running" => frames[1].offset = start

LEMMA InitSInv == SessionInit => SInv
<1> SUFFICES ASSUME SessionInit PROVE SInv
  OBVIOUS
<1>1. IInv /\ closures # <<>> /\ frames[1].offset = 1
  BY InitIInv DEF SessionInit, Init
<1>2. Len(stack) \in Nat
  BY <1>1 DEF IInv, TypeOK
<1>3. QED
  BY <1>1, <1>2 DEF SInv, SessionInit

(* As long as the script's invariant holds, no upvalue dangles, and what a *)
(* line does is what a script does.                                        *)
LEMMA RunIsNext ==
  ASSUME IInv, Run
  PROVE  Next /\ status = "running" /\ UNCHANGED lineVars
<1>1. status = "running"
  BY DEF Run, Direct, Access, Close, Stray, PushValue, Operate, Pop, GetLocal, SetLocal,
     CaptureLocal, CaptureOuter, BeginClosure, EndClosure, Call, RuntimeError, Running,
     MakingMore
<1>2. ASSUME NEW u \in Dangling PROVE FALSE
  <2>1. u \in 1 .. Len(location) /\ location[u] > Top
    BY <1>2 DEF Dangling
  <2>2. Top \in Nat
    BY <1>1, RunningFacts
  <2>3. location[u] # Closed
    BY <2>1, <2>2 DEF Closed
  <2>4. PICK j \in 1 .. Len(open) : open[j] = u
    BY <2>1, <2>3 DEF IInv, OpenListComplete
  <2>5. location[u] \in 2 .. Top
    BY <1>1, <2>4, RunningFacts
  <2>6. QED
    BY <2>1, <2>2, <2>5
<1>3. ~ Stray
  BY <1>2 DEF Stray
<1>4. Direct => Next
  BY Zenon DEF Direct, Next
<1>5. (\E i \in 1 .. MaxUpvalues : Access(i)) => Next
  BY Zenon DEF Access, Next
<1>6. Close => Next
  BY Zenon DEF Close, Next
<1>7. QED
  BY <1>1, <1>3, <1>4, <1>5, <1>6, Zenon DEF Run

LEMMA RunSInv ==
  ASSUME SInv, Run
  PROVE  SInv' /\ (status' # "error" => Keeps(start' - 1))
<1>1. IInv /\ Next /\ status = "running" /\ UNCHANGED lineVars
  BY RunIsNext DEF SInv
<1>2. IInv'
  BY <1>1, NextIInv
<1>3. frames[1].offset = start /\ start' = start
  BY <1>1 DEF SInv, lineVars
<1>4. status' # "error" => Keeps(start' - 1)
  BY <1>1, <1>3, NextKeeps
<1>5. status' # "error" => start' - 1 <= Len(stack')
  <2>1. start \in Nat \ {0} /\ Len(stack') \in Nat
    BY <1>2 DEF SInv, IInv, TypeOK
  <2>2. QED
    BY <1>3, <1>4, <2>1 DEF Keeps
<1>6. status' = "running" => frames'[1].offset = start'
  BY <1>1, <1>3, FirstFrameStays
<1>7. closures' # <<>>
  <2>1. CASE status' = "running"
    <3>1. /\ frames' \in Seq(Frame) /\ frames' # <<>>
          /\ \A i \in 1 .. Len(frames') : frames'[i].closure \in 1 .. Len(closures')
      BY <1>2, <2>1 DEF IInv, TypeOK, FramesNested
    <3>2. 1 \in 1 .. Len(frames')
      BY <3>1
    <3>3. 1 .. Len(closures') # {}
      BY <3>1, <3>2
    <3>4. QED
      BY <3>3
  <2>2. CASE UNCHANGED closures
    BY <2>2 DEF SInv
  <2>3. QED
    BY <1>1, <2>1, <2>2 DEF Next, PushValue, Operate, Pop, GetLocal, SetLocal,
       CaptureLocal, GetUpvalue, SetUpvalue, CaptureOuter, CloseUpvalue, BeginClosure,
       EndClosure, Call, Return, RuntimeError, upvalueVars
<1>8. QED
  BY <1>2, <1>3, <1>4, <1>5, <1>6, <1>7 DEF SInv

LEMMA NextLineSInv ==
  ASSUME SInv, NEW v \in Value, NextLine(v), TidyStep
  PROVE  SInv' /\ Keeps(start' - 1)
<1>1. /\ status \in {"ok", "error"} /\ frames = <<>> /\ open = <<>> /\ Top < MaxStack
      /\ stack' = Append(stack, v)
      /\ capacity' = IF Top = capacity THEN 2 * capacity ELSE capacity
      /\ frames' = <<[offset |-> Top + 1, closure |-> 1]>>
      /\ status' = "running" /\ start' = Top + 1
      /\ UNCHANGED <<closures, making, location, closed, open>>
  <2>1. frames = <<>> /\ open = <<>>
    BY DEF TidyStep
  <2>2. frames' = <<[offset |-> Top + 1, closure |-> 1]>>
    BY <2>1 DEF NextLine
  <2>3. QED
    BY <2>1, <2>2 DEF NextLine, Begin, AtPrompt, upvalueVars
<1>2. /\ stack \in Seq(Value) /\ Top \in Nat /\ Len(stack') = Top + 1 /\ stack' \in Seq(Value)
      /\ Len(location) \in Nat /\ Len(closures) \in Nat \ {0}
  BY <1>1, AppendProperties DEF SInv, IInv, TypeOK, Top
<1>3. /\ frames' \in Seq(Frame) /\ Len(frames') = 1 /\ frames' # <<>>
      /\ frames'[1] = [offset |-> Top + 1, closure |-> 1]
  BY <1>1, <1>2 DEF Frame
<1>4. IInv'
  <2>1. TypeOK'
    BY <1>1, <1>2, <1>3 DEF SInv, IInv, TypeOK
  <2>2. OpenListDescends' /\ OpenListComplete' /\ OpenWithinStack'
    BY <1>1 DEF SInv, IInv, OpenListDescends, Descending, OpenListComplete, OpenWithinStack
  <2>3. FramesNested'
    BY <1>2, <1>3 DEF FramesNested, Base
  <2>4. EndsClosed'
    BY <1>1 DEF EndsClosed
  <2>5. StackBounded'
    BY <1>1, <1>2, LimitsAssumption DEF StackBounded
  <2>6. QED
    BY <2>1, <2>2, <2>3, <2>4, <2>5 DEF IInv
<1>5. frames'[1].offset = start' /\ closures' # <<>>
  BY <1>1, <1>3 DEF SInv
<1>6. Keeps(start' - 1)
  <2>1. start' - 1 = Top
    BY <1>1, <1>2
  <2>2. Keeps(Top)
    BY <1>1, <1>2, AppendKeeps
  <2>3. QED
    BY <2>1, <2>2
<1>7. QED
  BY <1>1, <1>2, <1>4, <1>5, <1>6 DEF SInv

(* A line that does not compile, and a step that changes nothing.          *)
LEMMA IdleSInv ==
  ASSUME SInv, UNCHANGED <<vars, start>>
  PROVE  SInv' /\ (status' # "error" => Keeps(start' - 1))
<1>1. SInv'
  BY DEF vars, SInv, IInv, TypeOK, OpenListDescends, Descending, OpenListComplete,
     OpenWithinStack, FramesNested, Base, EndsClosed, StackBounded
<1>2. status' # "error" => Keeps(start' - 1)
  <2>1. stack' = stack /\ status' = status /\ start' = start
    BY DEF vars
  <2>2. Len(stack) \in Nat /\ start \in Nat \ {0}
    BY DEF SInv, IInv, TypeOK
  <2>3. QED
    BY <2>1, <2>2 DEF SInv, Keeps
<1>3. QED
  BY <1>1, <1>2

LEMMA NextSInv ==
  SInv /\ [SessionNext]_sessionVars /\ [TidyStep]_sessionVars
    => SInv' /\ (status' # "error" => Keeps(start' - 1))
<1> DEFINE Goal == SInv' /\ (status' # "error" => Keeps(start' - 1))
<1> SUFFICES ASSUME SInv, [SessionNext]_sessionVars, [TidyStep]_sessionVars
             PROVE  Goal
  OBVIOUS
<1>1. CASE Run
  BY <1>1, RunSInv
<1>2. ASSUME NEW v \in Value, NextLine(v), TidyStep PROVE Goal
  BY <1>2, NextLineSInv
<1>3. CASE CompileError \/ UNCHANGED sessionVars
  <2>1. UNCHANGED <<vars, start>>
    BY <1>3 DEF CompileError, sessionVars, lineVars
  <2>2. QED
    BY <2>1, IdleSInv
<1> HIDE DEF Goal
<1>4. CASE \E v \in Value : NextLine(v)
  <2>1. CASE TidyStep
    BY <1>2, <1>4, <2>1
  <2>2. CASE UNCHANGED sessionVars
    BY <1>3, <2>2
  <2>3. QED
    BY ONLY [TidyStep]_sessionVars, <2>1, <2>2
<1>5. QED
  BY ONLY [SessionNext]_sessionVars, <1>1, <1>3, <1>4 DEF SessionNext

(* However many lines there are: what earlier lines have left on the stack *)
(* is never touched, in a session where no line begins with what an error  *)
(* left behind (frames of calls that were in progress, open upvalues).     *)
THEOREM LinesLeaveLeftovers ==
  SessionSpec /\ [][TidyStep]_sessionVars => LeftoversStay
<1> DEFINE Left == status' # "error" => Keeps(start' - 1)
<1>1. SessionInit => SInv
  BY InitSInv
<1>2. SInv /\ [SessionNext]_sessionVars /\ [TidyStep]_sessionVars
        => SInv' /\ [Left]_sessionVars
  BY NextSInv
<1>3. SessionSpec /\ [][TidyStep]_sessionVars => [][Left]_sessionVars
  BY <1>1, <1>2, PTL DEF SessionSpec
<1>4. QED
  BY <1>3 DEF LeftoversStay, Keeps

=============================================================================
