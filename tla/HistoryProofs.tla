---------------------------- MODULE HistoryProofs ----------------------------
(***************************************************************************)
(* Theorems about ClosuresHistory, for every value of the constants.       *)
(* Upvalues stand for variables: no variable ever has two, and an open one *)
(* points to the slot where its variable is.  And the virtual machine      *)
(* implements closures that capture variables: every step of               *)
(* ClosuresHistory is a step of Cells.                                     *)
(***************************************************************************)
EXTENDS ClosuresHistory, ClosuresProofs, FiniteSetTheorems

(* A slot holds a variable of its own, so that a variable that left scope  *)
(* is told from the one that lives in its slot now.                        *)
NamesOfSlots ==
  /\ names \in Seq(Var) /\ Len(names) = Len(stack)
  /\ \A s \in 1 .. Len(names) : names[s][1] = s
  /\ bound \in Seq(Var) /\ Len(bound) = Len(location)

(* Two upvalues of one variable are impossible because capturing finds the *)
(* one a slot has (IInv), and a slot never gets a variable that is closed  *)
(* (PointsToItsVariable).                                                  *)
HIInv ==
  /\ IInv
  /\ NamesOfSlots
  /\ OneUpvaluePerVariable
  /\ PointsToItsVariable

LEMMA InitHIInv == HInit => HIInv
<1> SUFFICES ASSUME HInit PROVE HIInv
  OBVIOUS
<1>1. IInv
  BY InitIInv DEF HInit
<1>2. /\ names = << <<1, 0>> >> /\ bound = <<>> /\ location = <<>>
      /\ \E v \in Value : stack = <<v>>
  BY DEF HInit, Init
<1>3. <<1, 0>> \in Var
  BY LimitsAssumption DEF Var, Slots
<1>4. NamesOfSlots
  BY <1>2, <1>3 DEF NamesOfSlots
<1>5. OneUpvaluePerVariable /\ PointsToItsVariable
  BY <1>2 DEF OneUpvaluePerVariable, PointsToItsVariable
<1>6. QED
  BY <1>1, <1>4, <1>5 DEF HIInv

-----------------------------------------------------------------------------

(* The names a step leaves: those of the k lowest slots are the same, and  *)
(* a slot above them has a variable that no upvalue was created for.       *)
NamesFrom(k) ==
  /\ names' \in Seq(Var) /\ k <= Len(names')
  /\ \A s \in 1 .. Len(names') :
       /\ names'[s][1] = s
       /\ s <= k => names'[s] = names[s]
       /\ s > k  => \A u \in 1 .. Len(bound) : bound[u] # names'[s]

LEMMA KeepNamesFrom ==
  ASSUME NamesOfSlots, NEW k \in Nat, k <= Top, KeepNames(k)
  PROVE  NamesFrom(k) /\ Len(names') = k
<1>1. names \in Seq(Var) /\ k <= Len(names) /\ \A s \in 1 .. Len(names) : names[s][1] = s
  BY DEF NamesOfSlots, Top
<1>2. names' = SubSeq(names, 1, k)
  BY DEF KeepNames
<1>3. /\ names' \in Seq(Var) /\ Len(names') = k
      /\ \A s \in 1 .. k : s \in 1 .. Len(names) /\ names'[s] = names[s]
  BY <1>1, <1>2
<1>4. QED
  BY <1>1, <1>3 DEF NamesFrom

LEMMA NewNameFrom ==
  ASSUME NamesOfSlots, NEW k \in Nat, k <= Top, NewName(k + 1)
  PROVE  NamesFrom(k) /\ Len(names') = k + 1
<1> DEFINE x == Fresh(k + 1)
<1>1. /\ names \in Seq(Var) /\ k <= Len(names) /\ \A s \in 1 .. Len(names) : names[s][1] = s
      /\ bound \in Seq(Var)
  BY DEF NamesOfSlots, Top
<1>2. /\ x \in Var /\ x \notin InUse(k + 1)
      /\ names' = Append(SubSeq(names, 1, k), x)
  BY DEF NewName, Below
<1>3. x[1] = k + 1
  BY DEF Fresh
<1>4. \A u \in 1 .. Len(bound) : bound[u] # x
  BY <1>1, <1>2 DEF InUse, ToSet
<1> HIDE DEF x
<1>5. /\ SubSeq(names, 1, k) \in Seq(Var) /\ Len(SubSeq(names, 1, k)) = k
      /\ \A s \in 1 .. k : s \in 1 .. Len(names) /\ SubSeq(names, 1, k)[s] = names[s]
  BY <1>1
<1>6. /\ names' \in Seq(Var) /\ Len(names') = k + 1 /\ names'[k + 1] = x
      /\ \A s \in 1 .. k : names'[s] = names[s]
  BY <1>2, <1>5, AppendProperties
<1>7. \A s \in 1 .. k + 1 : s \in 1 .. k \/ s = k + 1
  OBVIOUS
<1>8. ASSUME NEW s \in 1 .. k + 1
      PROVE  /\ names'[s][1] = s
             /\ s <= k => names'[s] = names[s]
             /\ s > k  => \A u \in 1 .. Len(bound) : bound[u] # names'[s]
  <2>1. CASE s \in 1 .. k
    BY <1>1, <1>5, <1>6, <2>1
  <2>2. CASE s = k + 1
    BY <1>3, <1>4, <1>6, <2>2
  <2>3. QED
    BY <1>7, <2>1, <2>2
<1>9. QED
  BY <1>6, <1>8 DEF NamesFrom

(* The upvalues of the slots that lose their variable are closed.          *)
ClosedFrom(k) ==
  /\ Len(location') = Len(location)
  /\ \A u \in 1 .. Len(location) :
       location'[u] = IF location[u] > k THEN Closed ELSE location[u]

LEMMA NamesStep ==
  ASSUME HIInv, status = "running", NEW k \in Nat, k <= Top,
         NamesFrom(k), Len(names') = Len(stack'), ClosedFrom(k), bound' = bound
  PROVE  NamesOfSlots' /\ OneUpvaluePerVariable' /\ PointsToItsVariable'
<1>1. /\ Len(names) = Top /\ \A s \in 1 .. Len(names) : names[s][1] = s
      /\ bound \in Seq(Var) /\ Len(bound) = Len(location)
      /\ location \in Seq(Nat) /\ Top \in Nat
  BY DEF HIInv, IInv, TypeOK, NamesOfSlots, Top
<1>2. NamesOfSlots'
  BY <1>1 DEF NamesOfSlots, NamesFrom, ClosedFrom
<1>3. OneUpvaluePerVariable'
  BY DEF HIInv, OneUpvaluePerVariable
<1>4. ASSUME NEW u \in 1 .. Len(bound)
      PROVE  IF location'[u] = Closed
               THEN \A s \in 1 .. Len(names') : names'[s] # bound[u]
               ELSE location'[u] \in DOMAIN names' /\ names'[location'[u]] = bound[u]
  <2>1. /\ location'[u] = IF location[u] > k THEN Closed ELSE location[u]
        /\ location[u] \in Nat
    BY <1>1 DEF ClosedFrom
  <2>2. IF location[u] = Closed
          THEN \A s \in 1 .. Len(names) : names[s] # bound[u]
          ELSE location[u] \in 1 .. Top /\ names[location[u]] = bound[u]
    BY <1>1 DEF HIInv, PointsToItsVariable, NamesOfSlots
  <2>3. /\ Len(names') \in Nat /\ k <= Len(names') /\ DOMAIN names' = 1 .. Len(names')
        /\ \A s \in 1 .. k : s \in 1 .. Len(names') /\ s \in 1 .. Top /\ names'[s] = names[s]
        /\ \A s \in 1 .. Len(names') : s \in 1 .. k \/ names'[s] # bound[u]
    BY <1>1 DEF NamesFrom
  <2>4. CASE location[u] = Closed
    BY <1>1, <2>1, <2>2, <2>3, <2>4 DEF Closed
  <2>5. CASE location[u] # Closed /\ location[u] > k
    <3>1. location'[u] = Closed /\ bound[u][1] = location[u]
      BY <1>1, <2>1, <2>2, <2>5
    <3>2. ASSUME NEW s \in 1 .. k PROVE names'[s] # bound[u]
      <4>1. names'[s] = names[s] /\ names[s][1] = s /\ s # location[u]
        BY <1>1, <2>1, <2>3, <2>5
      <4>2. QED
        BY <3>1, <4>1
    <3>3. QED
      BY <2>3, <3>1, <3>2
  <2>6. CASE location[u] # Closed /\ ~ (location[u] > k)
    <3>1. location'[u] = location[u] /\ location[u] \in 1 .. k
      BY <2>1, <2>2, <2>6
    <3>2. QED
      BY <2>2, <2>3, <2>6, <3>1
  <2>7. QED
    BY <2>4, <2>5, <2>6
<1>5. PointsToItsVariable'
  BY <1>4 DEF PointsToItsVariable
<1>6. QED
  BY <1>2, <1>3, <1>5

(* A step that closes nothing loses no variable an upvalue stands for.     *)
LEMMA NothingCloses ==
  ASSUME IInv, NEW k \in Nat, location' = location,
         \A i \in 1 .. Len(open) : location[open[i]] <= k
  PROVE  ClosedFrom(k)
<1>1. ASSUME NEW u \in 1 .. Len(location)
      PROVE  location[u] = IF location[u] > k THEN Closed ELSE location[u]
  <2>1. location[u] \in Nat
    BY DEF IInv, TypeOK
  <2>2. location[u] # Closed => location[u] <= k
    <3>1. location[u] # Closed => \E i \in 1 .. Len(open) : open[i] = u
      BY DEF IInv, OpenListComplete
    <3>2. QED
      BY <3>1
  <2>3. QED
    BY <2>1, <2>2 DEF Closed
<1>2. QED
  BY <1>1 DEF ClosedFrom

LEMMA CloseClosesFrom ==
  ASSUME IInv, status = "running", NEW k \in Nat, k + 1 \in 1 .. Top, CloseUpvalues(k + 1)
  PROVE  ClosedFrom(k)
<1> DEFINE gone == Unlinked(open, location, k + 1)
           n    == Len(location)
<1>1. /\ location \in Seq(Nat) /\ DOMAIN location = 1 .. n /\ n \in Nat
      /\ open \in Seq(1 .. n) /\ Descending(open, location)
  BY DEF IInv, TypeOK, OpenListDescends
<1>2. IsSplit(open, location, k + 1, Remaining(open, location, k + 1), gone)
  BY <1>1, CloseSplits
<1>3. location' = [u \in 1 .. n |-> IF u \in gone THEN Closed ELSE location[u]]
  BY <1>1 DEF CloseUpvalues
<1> HIDE DEF gone
<1>4. \A w \in 1 .. n : w \in gone <=> In(open, w) /\ location[w] >= k + 1
  BY <1>2 DEF IsSplit
<1> HIDE DEF n
<1>5. ASSUME NEW u \in 1 .. n
      PROVE  location'[u] = IF location[u] > k THEN Closed ELSE location[u]
  <2>1. location[u] \in Nat
    BY <1>1
  <2>2. location[u] # Closed <=> In(open, u)
    BY DEF IInv, OpenListComplete, In, n
  <2>3. location'[u] = IF u \in gone THEN Closed ELSE location[u]
    BY <1>3
  <2>4. u \in gone <=> location[u] > k
    BY <1>4, <2>1, <2>2 DEF Closed
  <2>5. QED
    BY <2>3, <2>4
<1>6. Len(location') = n
  <2>1. location' \in [1 .. n -> Nat]
    BY <1>1, <1>3 DEF Closed
  <2>2. QED
    BY <1>1, <2>1, FunctionIsSeq
<1>7. QED
  BY <1>5, <1>6 DEF ClosedFrom, n

-----------------------------------------------------------------------------

LEMMA HPushStep ==
  ASSUME HIInv, HPush
  PROVE  HIInv'
<1>0. IInv
  BY DEF HIInv
<1>1. PICK v : /\ status = "running" /\ stack' = Append(stack, v)
               /\ UNCHANGED <<frames, closures, location, closed, open>>
  BY DEF HPush, PushValue, EndClosure, GetLocal, GetUpvalue, Running, Push, upvalueVars
<1>2. IInv'
  <2>1. ASSUME NEW w \in Value, PushValue(w) \/ EndClosure(w) PROVE IInv'
    BY <1>0, <2>1, PushValueStep
  <2>2. ASSUME NEW s \in Slots, GetLocal(s) PROVE IInv'
    BY <1>0, <2>2, GetLocalStep
  <2>3. ASSUME NEW i \in 1 .. MaxUpvalues, GetUpvalue(i) PROVE IInv'
    BY <1>0, <2>3, GetUpvalueStep
  <2>4. QED
    BY <2>1, <2>2, <2>3 DEF HPush
<1>3. stack \in Seq(Value) /\ stack' \in Seq(Value) /\ Top \in Nat
  BY <1>0, <1>2 DEF IInv, TypeOK, Top
<1>4. Len(stack') = Top + 1
  BY <1>1, <1>3 DEF Top
<1>5. NewName(Top + 1) /\ bound' = bound
  BY DEF HPush
<1>6. NamesFrom(Top) /\ Len(names') = Top + 1
  BY <1>3, <1>5, NewNameFrom DEF HIInv
<1>7. ClosedFrom(Top)
  <2>1. IInv /\ status = "running" /\ location' = location
    BY <1>0, <1>1
  <2>2. \A i \in 1 .. Len(open) : location[open[i]] <= Top
    BY <2>1, RunningFacts
  <2>3. QED
    BY <1>3, <2>1, <2>2, NothingCloses
<1>8. NamesOfSlots' /\ OneUpvaluePerVariable' /\ PointsToItsVariable'
  BY <1>1, <1>3, <1>4, <1>5, <1>6, <1>7, NamesStep
<1>9. QED
  BY <1>2, <1>8 DEF HIInv

LEMMA HOperateStep ==
  ASSUME HIInv, HOperate
  PROVE  HIInv'
<1>0. IInv
  BY DEF HIInv
<1>1. PICK n \in 1 .. 2, v \in Value :
        Operate(n, v) /\ NewName(Top - n + 1) /\ bound' = bound
  BY DEF HOperate
<1>2. IInv'
  BY <1>0, <1>1, OperateStep
<1>3. /\ status = "running" /\ Temporaries(n) /\ location' = location
      /\ stack' = Append(SubSeq(stack, 1, Top - n), v)
  BY <1>1 DEF Operate, Running, upvalueVars
<1>4. PICK k \in Nat : /\ k = Top - n /\ k <= Top
                       /\ \A i \in 1 .. Len(open) : location[open[i]] <= k
  <2>1. n \in Nat
    OBVIOUS
  <2>2. /\ Top - n \in Nat /\ Top \in Nat
        /\ \A i \in 1 .. Len(open) : location[open[i]] <= Top - n
    BY <1>0, <1>3, <2>1, TemporariesNotOpen, RunningFacts
  <2>3. Top - n <= Top
    BY <2>1, <2>2
  <2>4. QED
    BY <2>2, <2>3
<1>5. Len(stack') = k + 1
  <2>1. stack \in Seq(Value)
    BY <1>0 DEF IInv, TypeOK
  <2>2. SubSeq(stack, 1, k) \in Seq(Value) /\ Len(SubSeq(stack, 1, k)) = k
    BY <1>4, <2>1, Prefix
  <2>3. stack' = Append(SubSeq(stack, 1, k), v)
    BY <1>3, <1>4
  <2>4. QED
    BY <2>2, <2>3, AppendProperties
<1>6. NamesFrom(k) /\ Len(names') = k + 1
  BY <1>1, <1>4, NewNameFrom DEF HIInv
<1>7. ClosedFrom(k)
  BY <1>0, <1>3, <1>4, NothingCloses
<1>8. NamesOfSlots' /\ OneUpvaluePerVariable' /\ PointsToItsVariable'
  BY <1>1, <1>3, <1>4, <1>5, <1>6, <1>7, NamesStep
<1>9. QED
  BY <1>2, <1>8 DEF HIInv

LEMMA HDropStep ==
  ASSUME HIInv, HDrop
  PROVE  HIInv'
<1>0. IInv
  BY DEF HIInv
<1>1. /\ status = "running" /\ KeepNames(Top - 1) /\ bound' = bound
      /\ stack' = SubSeq(stack, 1, Top - 1)
  BY DEF HDrop, Pop, CloseUpvalue, Running
<1>2. IInv'
  BY <1>0, PopStep, CloseUpvalueStep DEF HDrop
<1>3. PICK k \in Nat : k = Top - 1 /\ k <= Top /\ k + 1 = Top
  <2>1. Top \in Nat /\ Base \in Nat \ {0} /\ Base <= Top
    BY <1>0, <1>1, RunningFacts
  <2>2. QED
    BY <2>1
<1>4. Len(stack') = k
  <2>1. stack \in Seq(Value)
    BY <1>0 DEF IInv, TypeOK
  <2>2. QED
    BY <1>1, <1>3, <2>1, Prefix
<1>5. NamesFrom(k) /\ Len(names') = k
  BY <1>1, <1>3, KeepNamesFrom DEF HIInv
<1>6. ClosedFrom(k)
  <2>1. CASE Pop
    <3>1. Temporaries(1) /\ location' = location
      BY <2>1 DEF Pop, upvalueVars
    <3>2. \A i \in 1 .. Len(open) : location[open[i]] <= Top - 1
      BY <1>0, <1>1, <3>1, TemporariesNotOpen
    <3>3. QED
      BY <1>0, <1>3, <3>1, <3>2, NothingCloses
  <2>2. CASE CloseUpvalue
    <3>1. CloseUpvalues(k + 1)
      BY <1>3, <2>2 DEF CloseUpvalue
    <3>2. QED
      BY <1>0, <1>1, <1>3, <3>1, CloseClosesFrom
  <2>3. QED
    BY <2>1, <2>2 DEF HDrop
<1>7. NamesOfSlots' /\ OneUpvaluePerVariable' /\ PointsToItsVariable'
  BY <1>1, <1>3, <1>4, <1>5, <1>6, NamesStep
<1>8. QED
  BY <1>2, <1>7 DEF HIInv

(* Steps that leave variables where they are.                              *)
LEMMA NamesUnchanged ==
  ASSUME HIInv, status = "running", Len(stack') = Len(stack),
         UNCHANGED <<location, names, bound>>
  PROVE  NamesOfSlots' /\ OneUpvaluePerVariable' /\ PointsToItsVariable'
  BY DEF HIInv, NamesOfSlots, OneUpvaluePerVariable, PointsToItsVariable

LEMMA HSetStep ==
  ASSUME HIInv, HSet
  PROVE  HIInv'
<1>0. IInv
  BY DEF HIInv
<1>1. status = "running" /\ UNCHANGED <<location, names, bound>>
  BY DEF HSet, SetLocal, SetUpvalue, Running, upvalueVars
<1>2. IInv'
  BY <1>0, SetLocalStep, SetUpvalueStep DEF HSet
<1>3. Len(stack') = Len(stack)
  <2>1. \/ stack' = stack
        \/ \E t, v : stack' = [stack EXCEPT ![t] = v]
    BY DEF HSet, SetLocal, SetUpvalue
  <2>2. stack \in Seq(Value) /\ stack' \in Seq(Value)
    BY <1>0, <1>2 DEF IInv, TypeOK
  <2>3. DOMAIN stack' = DOMAIN stack
    BY <2>1
  <2>4. QED
    BY <2>2, <2>3
<1>4. QED
  BY <1>1, <1>2, <1>3, NamesUnchanged DEF HIInv

LEMMA HMakeStep ==
  ASSUME HIInv, HMake
  PROVE  HIInv'
<1>1. status = "running" /\ UNCHANGED <<stack, location, names, bound>>
  BY DEF HMake, BeginClosure, CaptureOuter, MakingMore, Running, upvalueVars
<1>2. IInv'
  BY BeginClosureStep, CaptureOuterStep DEF HIInv, HMake
<1>3. QED
  BY <1>1, <1>2, NamesUnchanged DEF HIInv

LEMMA HCallStep ==
  ASSUME HIInv, HCall
  PROVE  HIInv'
<1>0. IInv
  BY DEF HIInv
<1>1. PICK c \in 1 .. Len(closures), argCount \in 0 .. MaxStack - 1, v \in Value :
        Call(c, argCount, v)
  BY DEF HCall
<1>2. argCount \in Nat
  BY LimitsAssumption
<1>3. IInv'
  BY <1>0, <1>1, <1>2, CallStep
<1>4. /\ status = "running" /\ UNCHANGED <<location, names, bound>>
      /\ stack' = [stack EXCEPT ![Top - argCount] = v]
  BY <1>1 DEF HCall, Call, Running, upvalueVars
<1>5. Len(stack') = Len(stack)
  <2>1. stack \in Seq(Value) /\ stack' \in Seq(Value)
    BY <1>0, <1>3 DEF IInv, TypeOK
  <2>2. DOMAIN stack' = DOMAIN stack
    BY <1>4
  <2>3. QED
    BY <2>1, <2>2
<1>6. QED
  BY <1>3, <1>4, <1>5, NamesUnchanged DEF HIInv

(* A slot that has no upvalue holds a variable that has none: the closed   *)
(* upvalues' variables are out of scope, the open ones' in other slots.    *)
LEMMA NotBoundYet ==
  ASSUME HIInv, status = "running", NEW s \in 1 .. Top,
         ~ Captures(open, location, s), NEW u \in 1 .. Len(bound)
  PROVE  bound[u] # names[s]
<1>1. /\ Len(names) = Top /\ \A t \in 1 .. Len(names) : names[t][1] = t
      /\ Len(bound) = Len(location) /\ DOMAIN names = 1 .. Len(names)
  BY DEF HIInv, NamesOfSlots, Top
<1>2. IF location[u] = Closed
        THEN \A t \in 1 .. Len(names) : names[t] # bound[u]
        ELSE location[u] \in DOMAIN names /\ names[location[u]] = bound[u]
  BY DEF HIInv, PointsToItsVariable
<1>3. location[u] # s
  <2>1. SUFFICES ASSUME location[u] = s PROVE FALSE
    OBVIOUS
  <2>2. PICK i \in 1 .. Len(open) : open[i] = u
    BY <1>1, <2>1 DEF HIInv, IInv, OpenListComplete, Closed
  <2>3. /\ location \in Seq(Nat) /\ open \in Seq(1 .. Len(location))
        /\ Descending(open, location) /\ s \in Nat
    BY DEF HIInv, IInv, TypeOK, OpenListDescends
  <2>4. Captures(open, location, s)
    BY <2>1, <2>2, <2>3, CapturesFindsSlot
  <2>5. QED
    BY <2>4
<1>4. CASE location[u] = Closed
  BY <1>1, <1>2, <1>4
<1>5. CASE location[u] # Closed
  <2>1. bound[u] = names[location[u]] /\ names[location[u]][1] = location[u]
    BY <1>1, <1>2, <1>5
  <2>2. names[s][1] = s
    BY <1>1
  <2>3. QED
    BY <1>3, <2>1, <2>2
<1>6. QED
  BY <1>4, <1>5

LEMMA HCaptureStep ==
  ASSUME HIInv, HCapture
  PROVE  HIInv'
<1>0. IInv
  BY DEF HIInv
<1>1. PICK s \in Slots :
        /\ CaptureLocal(s)
        /\ bound' = IF location' = location THEN bound ELSE Append(bound, names[s])
  BY DEF HCapture
<1>2. IInv'
  BY <1>0, <1>1, CaptureLocalStep
<1>3. status = "running" /\ s \in Base + 1 .. Top /\ UNCHANGED <<stack, names, status>>
  BY <1>1 DEF HCapture, CaptureLocal, MakingMore
<1>4. CASE Captures(open, location, s)
  <2>1. location' = location
    BY <1>1, <1>4 DEF CaptureLocal, upvalueVars
  <2>2. QED
    BY <1>1, <1>2, <1>3, <2>1, NamesUnchanged DEF HIInv
<1>5. CASE ~ Captures(open, location, s)
  <2> DEFINE n == Len(location)
  <2>1. /\ location \in Seq(Nat) /\ n \in Nat /\ Top \in Nat /\ s \in 1 .. Top
        /\ names \in Seq(Var) /\ bound \in Seq(Var) /\ Len(bound) = n /\ Len(names) = Top
    BY <1>0, <1>3, RunningFacts DEF HIInv, IInv, TypeOK, NamesOfSlots, Top
  <2>2. location' = Append(location, s)
    BY <1>1, <1>5 DEF CaptureLocal
  <2> HIDE DEF n
  <2>3. /\ Len(location') = n + 1 /\ location'[n + 1] = s
        /\ \A w \in 1 .. n : location'[w] = location[w]
    BY <2>1, <2>2, AppendProperties DEF n
  <2>4. bound' = Append(bound, names[s]) /\ names[s] \in Var
    <3>1. location' # location
      BY <2>1, <2>3 DEF n
    <3>2. QED
      BY <1>1, <2>1, <3>1
  <2>5. /\ bound' \in Seq(Var) /\ Len(bound') = n + 1 /\ bound'[n + 1] = names[s]
        /\ \A w \in 1 .. n : bound'[w] = bound[w]
    BY <2>1, <2>4, AppendProperties
  <2>6. \A w \in 1 .. n + 1 : w = n + 1 \/ w \in 1 .. n
    BY <2>1
  <2>7. NamesOfSlots'
    BY <1>3, <2>3, <2>5 DEF HIInv, NamesOfSlots
  <2>8. OneUpvaluePerVariable'
    <3>1. \A w \in 1 .. n : bound'[w] # bound'[n + 1]
      BY <1>3, <1>5, <2>1, <2>5, NotBoundYet
    <3>2. \A u, w \in 1 .. n : bound'[u] = bound'[w] => u = w
      BY <2>1, <2>5 DEF HIInv, OneUpvaluePerVariable
    <3>3. QED
      BY <2>5, <2>6, <3>1, <3>2 DEF OneUpvaluePerVariable
  <2>9. PointsToItsVariable'
    <3>1. ASSUME NEW u \in 1 .. n
          PROVE  IF location'[u] = Closed
                   THEN \A t \in 1 .. Len(names) : names[t] # bound'[u]
                   ELSE location'[u] \in DOMAIN names /\ names[location'[u]] = bound'[u]
      <4>1. location'[u] = location[u] /\ bound'[u] = bound[u]
        BY <2>3, <2>5
      <4>2. u \in 1 .. Len(bound)
        BY <2>1
      <4>3. IF location[u] = Closed
              THEN \A t \in 1 .. Len(names) : names[t] # bound[u]
              ELSE location[u] \in DOMAIN names /\ names[location[u]] = bound[u]
        BY <1>3, <4>2 DEF HIInv, PointsToItsVariable
      <4>4. QED
        BY <4>1, <4>3
    <3>2. location'[n + 1] # Closed /\ location'[n + 1] \in DOMAIN names
      BY <2>1, <2>3 DEF Closed
    <3>3. ASSUME NEW u \in 1 .. n + 1
          PROVE  IF location'[u] = Closed
                   THEN \A t \in 1 .. Len(names) : names[t] # bound'[u]
                   ELSE location'[u] \in DOMAIN names /\ names[location'[u]] = bound'[u]
      <4>1. CASE u \in 1 .. n
        BY <3>1, <4>1
      <4>2. CASE u = n + 1
        BY <2>3, <2>5, <3>2, <4>2
      <4>3. QED
        BY <2>6, <4>1, <4>2
    <3>4. QED
      BY <1>3, <2>5, <3>3 DEF PointsToItsVariable
  <2>10. QED
    BY <1>2, <2>7, <2>8, <2>9 DEF HIInv
<1>6. QED
  BY <1>4, <1>5

LEMMA HReturnStep ==
  ASSUME HIInv, HReturn
  PROVE  HIInv'
<1>0. IInv
  BY DEF HIInv
<1>1. /\ status = "running" /\ Top > Base /\ CloseUpvalues(Base) /\ bound' = bound
      /\ IF Len(frames) = 1
           THEN stack' = SubSeq(stack, 1, Top - 2) /\ status' = "ok"
           ELSE stack' = Append(SubSeq(stack, 1, Base - 1), stack[Top]) /\ status' = status
      /\ IF status' = "ok" THEN KeepNames(Top - 2) ELSE NewName(Base)
  BY DEF HReturn, Return, Running
<1>2. IInv'
  BY <1>0, ReturnStep DEF HReturn
<1>3. /\ Top \in Nat /\ Base \in Nat \ {0} /\ Base <= Top /\ stack \in Seq(Value)
      /\ stack[Top] \in Value
  <2>1. IInv /\ status = "running"
    BY <1>0, <1>1
  <2>2. /\ Top \in Nat /\ Base \in Nat \ {0} /\ Base <= Top
        /\ \A s \in 1 .. Top : stack[s] \in Value
    BY <2>1, RunningFacts
  <2>3. Top \in 1 .. Top
    BY <2>2
  <2>4. stack \in Seq(Value)
    BY <1>0 DEF IInv, TypeOK
  <2>5. QED
    BY <2>2, <2>3, <2>4
<1>4. PICK k \in Nat : k = Base - 1 /\ k + 1 = Base /\ k <= Top /\ k + 1 \in 1 .. Top
  BY <1>3
<1>5. ClosedFrom(k)
  BY <1>0, <1>1, <1>4, CloseClosesFrom
<1>6. CASE Len(frames) = 1
  <2>1. PICK m \in Nat : m = Top - 2 /\ m <= Top
    BY <1>1, <1>3
  <2>2. status' = "ok" /\ KeepNames(m) /\ stack' = SubSeq(stack, 1, m)
    BY <1>1, <1>6, <2>1
  <2>3. NamesFrom(m) /\ Len(names') = m /\ Len(stack') = m
    BY <1>3, <2>1, <2>2, KeepNamesFrom, Prefix DEF HIInv
  <2>4. NamesOfSlots'
    BY <1>1, <1>5, <2>3 DEF HIInv, NamesOfSlots, NamesFrom, ClosedFrom
  <2>5. OneUpvaluePerVariable' /\ PointsToItsVariable'
    BY <1>1, <2>2 DEF HIInv, OneUpvaluePerVariable, PointsToItsVariable
  <2>6. QED
    BY <1>2, <2>4, <2>5 DEF HIInv
<1>7. CASE Len(frames) # 1
  <2>1. /\ stack' = Append(SubSeq(stack, 1, k), stack[Top])
        /\ NewName(k + 1)
    BY <1>1, <1>4, <1>7
  <2>2. NamesFrom(k) /\ Len(names') = k + 1
    BY <1>4, <2>1, NewNameFrom DEF HIInv
  <2>3. Len(stack') = k + 1
    <3>1. SubSeq(stack, 1, k) \in Seq(Value) /\ Len(SubSeq(stack, 1, k)) = k
      BY <1>3, <1>4, Prefix
    <3>2. QED
      BY <1>3, <2>1, <3>1, AppendProperties
  <2>4. QED
    BY <1>1, <1>2, <1>4, <1>5, <2>2, <2>3, NamesStep DEF HIInv
<1>8. QED
  BY <1>6, <1>7

LEMMA HErrorStep ==
  ASSUME HIInv, HError
  PROVE  HIInv'
<1>1. /\ status' = "error" /\ stack' = <<>> /\ location' = location
      /\ KeepNames(0) /\ bound' = bound
  BY DEF HError, RuntimeError, upvalueVars
<1>2. IInv'
  BY RuntimeErrorStep DEF HIInv, HError
<1>3. NamesFrom(0) /\ Len(names') = 0
  <2>1. 0 <= Top
    BY DEF HIInv, IInv, TypeOK, Top
  <2>2. QED
    BY <1>1, <2>1, KeepNamesFrom DEF HIInv
<1>4. NamesOfSlots'
  BY <1>1, <1>3 DEF HIInv, NamesOfSlots, NamesFrom
<1>5. OneUpvaluePerVariable' /\ PointsToItsVariable'
  BY <1>1 DEF HIInv, OneUpvaluePerVariable, PointsToItsVariable
<1>6. QED
  BY <1>2, <1>4, <1>5 DEF HIInv

LEMMA NextHIInv == HIInv /\ [HNext]_hvars => HIInv'
<1> SUFFICES ASSUME HIInv, [HNext]_hvars PROVE HIInv'
  OBVIOUS
<1>1. CASE UNCHANGED hvars
  <2>1. [Next]_vars /\ UNCHANGED <<stack, status, location, names, bound>>
    BY <1>1 DEF hvars, vars
  <2>2. IInv'
    BY <2>1, NextIInv DEF HIInv
  <2>3. QED
    BY <2>1, <2>2 DEF HIInv, NamesOfSlots, OneUpvaluePerVariable, PointsToItsVariable
<1>2. QED
  BY <1>1, HPushStep, HOperateStep, HDropStep, HSetStep, HCaptureStep, HMakeStep,
     HCallStep, HReturnStep, HErrorStep DEF HNext

(* Slots and upvalues stand for variables in every state of the machine.   *)
THEOREM HistoryInvariance == HSpec => []HIInv
<1>1. HInit => HIInv
  BY InitHIInv
<1>2. HIInv /\ [HNext]_hvars => HIInv'
  BY NextHIInv
<1>3. QED
  BY <1>1, <1>2, PTL DEF HSpec

(* Closures that share a variable share its upvalue, however many times    *)
(* captureUpvalue walks the list for it and whatever happens in between.   *)
THEOREM OneUpvalueEach == HSpec => []OneUpvaluePerVariable
<1>1. HIInv => OneUpvaluePerVariable
  BY DEF HIInv
<1>2. QED
  BY <1>1, HistoryInvariance, PTL

(* A slot that is used again is never reached through the upvalue of the   *)
(* variable that lived there before.                                       *)
THEOREM UpvaluesPointToTheirVariables == HSpec => []PointsToItsVariable
<1>1. HIInv => PointsToItsVariable
  BY DEF HIInv
<1>2. QED
  BY <1>1, HistoryInvariance, PTL

-----------------------------------------------------------------------------

(* The history variables stop no step: a slot can always get a variable    *)
(* that nobody uses.                                                       *)
NamesLeft ==
  /\ Len(location) <= MaxUpvalues
  /\ \A s \in Slots : s <= Top + 1 => Fresh(s) \in Var \ InUse(s)

LEMMA AlwaysFresh ==
  ASSUME NamesOfSlots, Len(location) <= MaxUpvalues, Top \in Nat,
         NEW s \in Slots, s <= Top + 1
  PROVE  Fresh(s) \in Var \ InUse(s)
<1>1. /\ names \in Seq(Var) /\ Len(names) = Top /\ s \in Nat \ {0}
      /\ \A t \in 1 .. Len(names) : names[t][1] = t
      /\ bound \in Seq(Var) /\ Len(bound) \in Nat /\ Len(bound) <= MaxUpvalues
  BY DEF NamesOfSlots, Top, Slots
<1>2. ASSUME NEW x \in ToSet(Below(s)) PROVE x[1] < s
  <2>1. PICK k \in Nat : k = s - 1 /\ k <= Len(names)
    BY <1>1
  <2>2. \A t \in 1 .. k : SubSeq(names, 1, k)[t] = names[t] /\ t \in 1 .. Len(names)
    BY <1>1, <2>1
  <2>3. DOMAIN SubSeq(names, 1, k) = 1 .. k
    BY <1>1, <2>1
  <2>4. PICK t \in 1 .. k : x = names[t] /\ t \in 1 .. Len(names)
    BY <1>2, <2>1, <2>2, <2>3 DEF Below, ToSet
  <2>5. QED
    BY <1>1, <2>1, <2>4
<1>3. \E n \in 0 .. MaxUpvalues : \A u \in 1 .. Len(bound) : bound[u] # <<s, n>>
  <2> DEFINE S == 0 .. MaxUpvalues
             T == 1 .. Len(bound)
             f == [n \in S |-> CHOOSE u \in T : bound[u] = <<s, n>>]
  <2>1. SUFFICES ASSUME \A n \in S : \E u \in T : bound[u] = <<s, n>>
                 PROVE  FALSE
    OBVIOUS
  <2>2. \A n \in S : f[n] \in T /\ bound[f[n]] = <<s, n>>
    BY <2>1
  <2>3. f \in [S -> T]
    BY <2>2
  <2>4. /\ IsFiniteSet(S) /\ Cardinality(S) = MaxUpvalues + 1
        /\ IsFiniteSet(T) /\ Cardinality(T) = Len(bound)
    <3>1. MaxUpvalues \in Nat
      BY LimitsAssumption
    <3>2. IsFiniteSet(S) /\ Cardinality(S) = MaxUpvalues + 1
      BY <3>1, FS_Interval
    <3>3. IsFiniteSet(T) /\ Cardinality(T) = Len(bound)
      <4>1. PICK k \in Nat : k = Len(bound)
        BY <1>1
      <4>2. IsFiniteSet(1 .. k) /\ Cardinality(1 .. k) = k
        BY FS_Interval
      <4>3. QED
        BY <4>1, <4>2
    <3>4. QED
      BY <3>2, <3>3
  <2>5. Cardinality(T) < Cardinality(S)
    BY <1>1, <2>4, LimitsAssumption
  <2> HIDE DEF S, T, f
  <2>6. \E m, n \in S : m # n /\ f[m] = f[n]
    BY <2>3, <2>4, <2>5, FS_PigeonHole
  <2>7. PICK m \in S, n \in S : m # n /\ f[m] = f[n]
    BY <2>6
  <2>8. <<s, m>> = <<s, n>>
    BY <2>2, <2>7
  <2>9. QED
    BY <2>7, <2>8
<1>4. \E n \in 0 .. MaxUpvalues : <<s, n>> \notin InUse(s)
  <2>1. PICK n \in 0 .. MaxUpvalues : \A u \in 1 .. Len(bound) : bound[u] # <<s, n>>
    BY <1>3
  <2>2. <<s, n>> \notin ToSet(bound)
    BY <1>1, <2>1 DEF ToSet
  <2>3. <<s, n>> \notin ToSet(Below(s))
    <3>1. ~ (<<s, n>>[1] < s)
      BY <1>1
    <3>2. QED
      BY <1>2, <3>1
  <2>4. QED
    BY <2>2, <2>3 DEF InUse
<1>5. PICK n : n = CHOOSE m \in 0 .. MaxUpvalues : <<s, m>> \notin InUse(s)
  OBVIOUS
<1>6. n \in 0 .. MaxUpvalues /\ <<s, n>> \notin InUse(s)
  <2> DEFINE P(m) == m \in 0 .. MaxUpvalues /\ <<s, m>> \notin InUse(s)
  <2>1. \E m : P(m)
    BY <1>4
  <2>2. P(CHOOSE m : P(m))
    BY <2>1, Zenon
  <2>3. QED
    BY <1>5, <2>2
<1>7. Fresh(s) = <<s, n>>
  BY <1>5 DEF Fresh
<1>8. QED
  BY <1>6, <1>7 DEF Var

LEMMA UpvaluesBounded ==
  ASSUME HIInv, Len(location) <= MaxUpvalues, [HNext]_hvars
  PROVE  Len(location') <= MaxUpvalues
<1>1. IInv /\ location \in Seq(Nat)
  BY DEF HIInv, IInv, TypeOK
<1>2. CASE UNCHANGED location
  BY <1>2
<1>3. ASSUME NEW s, CaptureLocal(s), location' # location
      PROVE  Len(location') <= MaxUpvalues
  <2>1. location' = Append(location, s) /\ Len(location) < MaxUpvalues
    BY <1>3 DEF CaptureLocal, upvalueVars
  <2>2. Len(location') = Len(location) + 1 /\ Len(location) \in Nat
    BY <1>1, <2>1
  <2>3. QED
    BY <2>1, <2>2, LimitsAssumption
<1>4. ASSUME NEW last \in 1 .. Top, status = "running", CloseUpvalues(last)
      PROVE  Len(location') <= MaxUpvalues
  BY <1>1, <1>4, CloseStep
<1>5. CASE CloseUpvalue
  <2>1. status = "running" /\ Top > Base /\ CloseUpvalues(Top)
    BY <1>5 DEF CloseUpvalue, Running
  <2>2. Top \in 1 .. Top
    BY <1>1, <2>1, RunningFacts
  <2>3. QED
    BY <1>4, <2>1, <2>2
<1>6. CASE Return
  <2>1. status = "running" /\ CloseUpvalues(Base)
    BY <1>6 DEF Return, Running
  <2>2. Base \in 1 .. Top
    BY <1>1, <2>1, RunningFacts
  <2>3. QED
    BY <1>4, <2>1, <2>2
<1>7. QED
  BY <1>2, <1>3, <1>5, <1>6 DEF HNext, HPush, HOperate, HDrop, HSet, HCapture, HMake, HCall,
     HReturn, HError, PushValue, Operate, Pop, GetLocal, SetLocal, GetUpvalue, SetUpvalue,
     EndClosure, BeginClosure, CaptureOuter, Call, RuntimeError, upvalueVars, hvars, vars

(* What is shown of ClosuresHistory is shown of Closures: no instruction   *)
(* is ever held up because there is no name for the slot it pushes.        *)
THEOREM HistoryStopsNoStep == HSpec => []NamesLeft
<1> DEFINE Bounded == Len(location) <= MaxUpvalues
<1>1. HInit => Bounded
  BY LimitsAssumption DEF HInit, Init
<1>2. HIInv /\ Bounded /\ [HNext]_hvars => Bounded'
  BY UpvaluesBounded
<1>3. HIInv /\ Bounded => NamesLeft
  <2>1. HIInv => NamesOfSlots /\ Top \in Nat
    BY DEF HIInv, IInv, TypeOK, Top
  <2>2. QED
    BY <2>1, AlwaysFresh DEF NamesLeft
<1> HIDE DEF Bounded
<1>4. QED
  BY <1>1, <1>2, <1>3, HistoryInvariance, PTL DEF HSpec

-----------------------------------------------------------------------------
(* Steps of the machine are steps of Cells.                                *)

(* Some closure holds every upvalue, so that what the upvalues keep alive  *)
(* is what the closures can still reach.                                   *)
Held(u) ==
  \E c \in 1 .. Len(closures) : \E i \in 1 .. Len(closures[c]) : closures[c][i] = u

EveryUpvalueHeld == \A u \in 1 .. Len(location) : Held(u)

RInv == HIInv /\ EveryUpvalueHeld

-----------------------------------------------------------------------------

(* The upvalues of a step that adds the upvalue u to the newest closure.   *)
LEMMA AddedUpvalue ==
  ASSUME IInv, status = "running", NEW u, AddUpvalue(u)
  PROVE  /\ Len(closures) \in Nat \ {0} /\ Len(closures') = Len(closures)
         /\ \A c \in 1 .. Len(closures) :
              closures'[c] = IF c = Len(closures) THEN Append(closures[c], u) ELSE closures[c]
<1>1. closures \in Seq(Seq(1 .. Len(location)))
  BY DEF IInv, TypeOK
<1>2. PICK n \in Nat : n = Len(closures) /\ DOMAIN closures = 1 .. n
  BY <1>1
<1>3. n # 0
  BY <1>2, RunningFacts
<1>4. closures' = [closures EXCEPT ![n] = Append(closures[n], u)]
  BY <1>2 DEF AddUpvalue
<1>5. DOMAIN closures' = 1 .. n
  BY <1>2, <1>4
<1>6. Len(closures') = n
  <2>1. closures' = [c \in 1 .. n |-> closures'[c]]
    BY <1>2, <1>4
  <2>2. \A c \in 1 .. n : closures'[c] \in {closures'[d] : d \in 1 .. n}
    OBVIOUS
  <2>3. PICK S : closures' \in [1 .. n -> S]
    BY <2>1, <2>2
  <2>4. QED
    BY <2>3, FunctionIsSeq
<1>7. QED
  BY <1>2, <1>3, <1>4, <1>6

(* The upvalue that capturing finds is the slot's.                         *)
LEMMA ExistingUpvalue ==
  ASSUME IInv, NEW s, CaptureLocal(s), Captures(open, location, s)
  PROVE  /\ Existing(open, location, s) \in 1 .. Len(location)
         /\ location[Existing(open, location, s)] = s
<1>1. /\ status = "running" /\ s \in Base + 1 .. Top
  BY DEF CaptureLocal, MakingMore
<1>2. /\ location \in Seq(Nat) /\ open \in Seq(1 .. Len(location))
      /\ Descending(open, location) /\ s \in Nat
  <2>1. location \in Seq(Nat) /\ open \in Seq(1 .. Len(location)) /\ Descending(open, location)
    BY DEF IInv, TypeOK, OpenListDescends
  <2>2. Base \in Nat /\ Top \in Nat
    BY <1>1, RunningFacts
  <2>3. QED
    BY <1>1, <2>1, <2>2
<1>3. FirstNotAbove(open, location, s) \in 1 .. Len(open)
  BY <1>2, CapturesFindsSlot
<1>4. QED
  BY <1>2, <1>3 DEF Existing, Captures

(* Closures keep the upvalues they have.                                   *)
LEMMA StillHeld ==
  ASSUME \A c \in 1 .. Len(closures) :
           /\ c \in 1 .. Len(closures')
           /\ \A i \in 1 .. Len(closures[c]) :
                i \in 1 .. Len(closures'[c]) /\ closures'[c][i] = closures[c][i],
         NEW u, Held(u)
  PROVE  Held(u)'
<1>1. PICK c \in 1 .. Len(closures) : \E i \in 1 .. Len(closures[c]) : closures[c][i] = u
  BY DEF Held
<1>2. PICK i \in 1 .. Len(closures[c]) : closures[c][i] = u
  BY <1>1
<1>3. /\ c \in 1 .. Len(closures') /\ i \in 1 .. Len(closures'[c])
      /\ closures'[c][i] = u
  BY <1>2
<1>4. QED
  BY <1>3 DEF Held

LEMMA NextHeld ==
  ASSUME RInv, HNext
  PROVE  EveryUpvalueHeld'
<1>1. IInv /\ closures \in Seq(Seq(1 .. Len(location))) /\ location \in Seq(Nat)
  BY DEF RInv, HIInv, IInv, TypeOK
<1>2. ASSUME UNCHANGED closures, Len(location') = Len(location)
      PROVE  EveryUpvalueHeld'
  BY <1>2 DEF RInv, EveryUpvalueHeld, Held
<1>3. CASE BeginClosure
  <2>1. closures' = Append(closures, <<>>) /\ location' = location
    BY <1>3 DEF BeginClosure, upvalueVars
  <2>2. \A c \in 1 .. Len(closures) : c \in 1 .. Len(closures') /\ closures'[c] = closures[c]
    BY <1>1, <2>1, AppendProperties
  <2>3. QED
    BY <2>1, <2>2, StillHeld DEF RInv, EveryUpvalueHeld
<1>4. ASSUME status = "running", NEW u \in Nat, AddUpvalue(u),
             \A w \in 1 .. Len(location') : w = u \/ w \in 1 .. Len(location)
      PROVE  EveryUpvalueHeld'
  <2>1. /\ Len(closures) \in Nat \ {0} /\ Len(closures') = Len(closures)
        /\ \A c \in 1 .. Len(closures) :
              closures'[c] = IF c = Len(closures) THEN Append(closures[c], u) ELSE closures[c]
    BY <1>1, <1>4, AddedUpvalue
  <2>2. ASSUME NEW c \in 1 .. Len(closures), NEW i \in 1 .. Len(closures[c])
        PROVE  i \in 1 .. Len(closures'[c]) /\ closures'[c][i] = closures[c][i]
    <3>1. closures[c] \in Seq(Nat)
      <4>1. closures[c] \in Seq(1 .. Len(location))
        BY <1>1
      <4>2. QED
        BY <4>1
    <3>2. CASE c # Len(closures)
      BY <2>1, <3>2
    <3>3. CASE c = Len(closures)
      <4>1. closures'[c] = Append(closures[c], u)
        BY <2>1, <3>3
      <4>2. QED
        BY <1>4, <3>1, <4>1, AppendProperties
    <3>4. QED
      BY <3>2, <3>3
  <2>3. Held(u)'
    <3>1. PICK c \in 1 .. Len(closures) : c = Len(closures)
      BY <2>1
    <3>2. closures[c] \in Seq(Nat)
      <4>1. closures[c] \in Seq(1 .. Len(location))
        BY <1>1
      <4>2. QED
        BY <4>1
    <3>3. closures'[c] = Append(closures[c], u)
      BY <2>1, <3>1
    <3>4. /\ Len(closures[c]) \in Nat /\ Len(closures'[c]) = Len(closures[c]) + 1
          /\ closures'[c][Len(closures[c]) + 1] = u
      BY <1>4, <3>2, <3>3, AppendProperties
    <3>5. Len(closures[c]) + 1 \in 1 .. Len(closures'[c])
      BY <3>4
    <3>6. QED
      BY <2>1, <3>4, <3>5 DEF Held
  <2>4. \A w \in 1 .. Len(location) : Held(w)'
    BY <2>1, <2>2, StillHeld DEF RInv, EveryUpvalueHeld
  <2>5. QED
    BY <1>4, <2>3, <2>4 DEF EveryUpvalueHeld
<1>5. ASSUME NEW i, CaptureOuter(i) PROVE EveryUpvalueHeld'
  <2>1. /\ status = "running" /\ i \in UpvalueIndices /\ AddUpvalue(Upvalue(i))
        /\ location' = location
    BY <1>5 DEF CaptureOuter, MakingMore, upvalueVars
  <2>2. Upvalue(i) \in Nat
    BY <1>1, <2>1, UpvalueFacts
  <2>3. QED
    BY <1>4, <2>1, <2>2
<1>6. ASSUME NEW s, CaptureLocal(s) PROVE EveryUpvalueHeld'
  <2>1. status = "running"
    BY <1>6 DEF CaptureLocal, MakingMore
  <2>2. CASE Captures(open, location, s)
    <3>1. AddUpvalue(Existing(open, location, s)) /\ location' = location
      BY <1>6, <2>2 DEF CaptureLocal, upvalueVars
    <3>2. Existing(open, location, s) \in Nat
      BY <1>1, <1>6, <2>2, ExistingUpvalue
    <3>3. QED
      BY <1>4, <2>1, <3>1, <3>2
  <2>3. CASE ~ Captures(open, location, s)
    <3>1. location' = Append(location, s) /\ AddUpvalue(Len(location) + 1)
      BY <1>6, <2>3 DEF CaptureLocal
    <3>2. Len(location') = Len(location) + 1 /\ Len(location) \in Nat
      BY <1>1, <3>1
    <3>3. \A w \in 1 .. Len(location') : w = Len(location) + 1 \/ w \in 1 .. Len(location)
      BY <3>2
    <3>4. QED
      BY <1>4, <2>1, <3>1, <3>3
  <2>4. QED
    BY <2>2, <2>3
<1>7. ASSUME NEW last \in 1 .. Top, status = "running", CloseUpvalues(last)
      PROVE  Len(location') = Len(location)
  BY <1>1, <1>7, CloseStep
<1>8. CASE CloseUpvalue
  <2>1. status = "running" /\ Top > Base /\ CloseUpvalues(Top) /\ closures' = closures
    BY <1>8 DEF CloseUpvalue, Running
  <2>2. Top \in 1 .. Top
    BY <1>1, <2>1, RunningFacts
  <2>3. QED
    BY <1>2, <1>7, <2>1, <2>2
<1>9. CASE Return
  <2>1. status = "running" /\ CloseUpvalues(Base) /\ closures' = closures
    BY <1>9 DEF Return, Running
  <2>2. Base \in 1 .. Top
    BY <1>1, <2>1, RunningFacts
  <2>3. QED
    BY <1>2, <1>7, <2>1, <2>2
<1>10. QED
  BY <1>2, <1>3, <1>5, <1>6, <1>8, <1>9 DEF HNext, HPush, HOperate, HDrop, HSet, HCapture,
     HMake, HCall, HReturn, HError, PushValue, Operate, Pop, GetLocal, SetLocal,
     GetUpvalue, SetUpvalue, EndClosure, Call, RuntimeError, upvalueVars

(* And no upvalue is without a closure that holds it: captureUpvalue makes *)
(* one only for the closure that CLOSURE is filling.                       *)
THEOREM RefinementInvariance == HSpec => []RInv
<1>1. HInit => RInv
  BY InitHIInv DEF RInv, HInit, Init, EveryUpvalueHeld
<1>2. RInv /\ [HNext]_hvars => RInv'
  <2> SUFFICES ASSUME RInv, [HNext]_hvars PROVE RInv'
    OBVIOUS
  <2>1. HIInv'
    BY NextHIInv DEF RInv
  <2>2. CASE UNCHANGED hvars
    BY <2>1, <2>2 DEF hvars, vars, RInv, EveryUpvalueHeld, Held
  <2>3. QED
    BY <2>1, <2>2, NextHeld DEF RInv
<1>3. QED
  BY <1>1, <1>2, PTL DEF HSpec

-----------------------------------------------------------------------------

(* The value of a variable is in its slot, or else in its upvalue.         *)

OnlyAt(seq, p, x) ==
  /\ p \in 1 .. Len(seq) /\ seq[p] = x
  /\ \A i \in 1 .. Len(seq) : seq[i] = x => i = p

LEMMA PositionOf ==
  ASSUME NEW S, NEW seq \in Seq(S), NEW p, NEW x, OnlyAt(seq, p, x)
  PROVE  LeastOrZero({i \in 1 .. Len(seq) : seq[i] = x}) = p
<1>1. {i \in 1 .. Len(seq) : seq[i] = x} = {p} /\ p \in Nat
  BY DEF OnlyAt
<1>2. LeastOrZero({p}) = p
  <2>1. {p} \in SUBSET Nat /\ {p} # {}
    BY <1>1
  <2>2. Min({p}) \in {p}
    BY <2>1, MinOfNats
  <2>3. QED
    BY <2>1, <2>2 DEF LeastOrZero
<1>3. QED
  BY <1>1, <1>2

LEMMA InToSet ==
  ASSUME NEW S, NEW seq \in Seq(S), NEW x
  PROVE  x \in ToSet(seq) <=> \E i \in 1 .. Len(seq) : seq[i] = x
  BY DEF ToSet

(* ValueOf, as an expression of the state only through its parameters, so  *)
(* that what is proved of it holds before a step and after it.             *)
ValueIn(nm, bd, st, cl, x) ==
  IF x \in ToSet(nm) THEN st[LeastOrZero({i \in 1 .. Len(nm) : nm[i] = x})]
                     ELSE cl[LeastOrZero({i \in 1 .. Len(bd) : bd[i] = x})]

LEMMA ValueInDefined ==
  ASSUME NEW x
  PROVE  /\ ValueOf(x)  = ValueIn(names, bound, stack, closed, x)
         /\ ValueOf(x)' = ValueIn(names', bound', stack', closed', x)
<1>1. ValueOf(x) = ValueIn(names, bound, stack, closed, x)
  BY DEF ValueOf, ValueIn, SelectInSeq, LeastOrZero
<1>2. ValueOf(x)' = ValueIn(names', bound', stack', closed', x)
  BY DEF ValueOf, ValueIn, SelectInSeq, LeastOrZero
<1>3. QED
  BY <1>1, <1>2

LEMMA ValueInFirst ==
  ASSUME NEW S, NEW nm \in Seq(S), NEW p, NEW x, OnlyAt(nm, p, x),
         NEW bd, NEW st, NEW cl
  PROVE  x \in ToSet(nm) /\ ValueIn(nm, bd, st, cl, x) = st[p]
<1>1. x \in ToSet(nm)
  BY InToSet DEF OnlyAt
<1>2. LeastOrZero({i \in 1 .. Len(nm) : nm[i] = x}) = p
  BY PositionOf
<1>3. QED
  BY <1>1, <1>2 DEF ValueIn

LEMMA ValueInSecond ==
  ASSUME NEW S, NEW bd \in Seq(S), NEW p, NEW x, OnlyAt(bd, p, x),
         NEW nm, NEW st, NEW cl
  PROVE  /\ x \in ToSet(bd)
         /\ x \notin ToSet(nm) => ValueIn(nm, bd, st, cl, x) = cl[p]
<1>1. x \in ToSet(bd)
  BY InToSet DEF OnlyAt
<1>2. LeastOrZero({i \in 1 .. Len(bd) : bd[i] = x}) = p
  BY PositionOf
<1>3. QED
  BY <1>1, <1>2 DEF ValueIn

LEMMA ValueInSlot ==
  ASSUME NamesOfSlots, NEW s \in 1 .. Len(names)
  PROVE  names[s] \in ToSet(names) /\ ValueOf(names[s]) = stack[s]
<1>1. /\ names \in Seq(Var) /\ \A i \in 1 .. Len(names) : names[i][1] = i
  BY DEF NamesOfSlots
<1>2. PICK x : x = names[s]
  OBVIOUS
<1>3. OnlyAt(names, s, x)
  BY <1>1, <1>2 DEF OnlyAt
<1>4. x \in ToSet(names) /\ ValueIn(names, bound, stack, closed, x) = stack[s]
  BY <1>1, <1>2, <1>3, ValueInFirst
<1>5. QED
  BY <1>2, <1>4, ValueInDefined

LEMMA ValueInSlotNext ==
  ASSUME NamesOfSlots', NEW s \in 1 .. Len(names'), NEW x, x = names'[s]
  PROVE  x \in ToSet(names') /\ ValueOf(x)' = stack'[s]
<1>1. /\ names' \in Seq(Var) /\ \A i \in 1 .. Len(names') : names'[i][1] = i
  BY DEF NamesOfSlots
<1>2. OnlyAt(names', s, x)
  BY <1>1 DEF OnlyAt
<1>3. x \in ToSet(names') /\ ValueIn(names', bound', stack', closed', x) = stack'[s]
  BY <1>1, <1>2, ValueInFirst
<1>4. QED
  BY <1>3, ValueInDefined

LEMMA ValueInUpvalue ==
  ASSUME NamesOfSlots, OneUpvaluePerVariable, NEW u \in 1 .. Len(bound)
  PROVE  /\ bound[u] \in ToSet(bound)
         /\ bound[u] \notin ToSet(names) => ValueOf(bound[u]) = closed[u]
<1>1. bound \in Seq(Var)
  BY DEF NamesOfSlots
<1>2. PICK x : x = bound[u]
  OBVIOUS
<1>3. OnlyAt(bound, u, x)
  BY <1>2 DEF OneUpvaluePerVariable, OnlyAt
<1>4. /\ x \in ToSet(bound)
      /\ x \notin ToSet(names) => ValueIn(names, bound, stack, closed, x) = closed[u]
  BY <1>1, <1>2, <1>3, ValueInSecond
<1>5. QED
  BY <1>2, <1>4, ValueInDefined

LEMMA ValueInUpvalueNext ==
  ASSUME NamesOfSlots', OneUpvaluePerVariable', NEW u \in 1 .. Len(bound'),
         NEW x, x = bound'[u], x \notin ToSet(names')
  PROVE  ValueOf(x)' = closed'[u]
<1>1. bound' \in Seq(Var)
  BY DEF NamesOfSlots
<1>2. OnlyAt(bound', u, x)
  BY DEF OneUpvaluePerVariable, OnlyAt
<1>3. ValueIn(names', bound', stack', closed', x) = closed'[u]
  BY <1>1, <1>2, ValueInSecond
<1>4. QED
  BY <1>3, ValueInDefined

(* What GET_UPVALUE reads is the value of the variable.                    *)
LEMMA ValueThroughUpvalue ==
  ASSUME HIInv, status = "running", NEW u \in 1 .. Len(bound)
  PROVE  /\ ValueOf(bound[u]) =
              IF location[u] = Closed THEN closed[u] ELSE stack[location[u]]
         /\ location[u] = Closed => bound[u] \notin ToSet(names)
         /\ location[u] # Closed => /\ location[u] \in 1 .. Top
                                    /\ names[location[u]] = bound[u]
<1>1. names \in Seq(Var) /\ Len(names) = Top
  BY DEF HIInv, NamesOfSlots, Top
<1>2. IF location[u] = Closed
        THEN \A s \in 1 .. Len(names) : names[s] # bound[u]
        ELSE location[u] \in 1 .. Len(names) /\ names[location[u]] = bound[u]
  BY <1>1 DEF HIInv, PointsToItsVariable
<1>3. CASE location[u] = Closed
  <2>1. bound[u] \notin ToSet(names)
    BY <1>1, <1>2, <1>3, InToSet
  <2>2. QED
    BY <1>3, <2>1, ValueInUpvalue DEF HIInv
<1>4. CASE location[u] # Closed
  <2>1. ValueOf(names[location[u]]) = stack[location[u]]
    BY <1>2, <1>4, ValueInSlot DEF HIInv
  <2>2. QED
    BY <1>1, <1>2, <1>4, <2>1
<1>5. QED
  BY <1>3, <1>4

(* Every variable that has a value is in a slot or has an upvalue.         *)
Live == ToSet(names) \cup ToSet(bound)

LEMMA LiveCases ==
  ASSUME NamesOfSlots, NEW x \in Live
  PROVE  \/ \E s \in 1 .. Len(names) : names[s] = x
         \/ /\ x \notin ToSet(names)
            /\ \E u \in 1 .. Len(bound) : bound[u] = x
  BY InToSet DEF Live, NamesOfSlots

-----------------------------------------------------------------------------

(* The abstract state while the program runs.                              *)
LEMMA Mapped ==
  ASSUME ~ Ended
  PROVE  /\ Env = names /\ Calls = frames /\ Store = [x \in Live |-> ValueOf(x)]
         /\ Ended = FALSE
  BY DEF Env, Calls, Store, Live, Ended

LEMMA MappedNext ==
  ASSUME ~ Ended'
  PROVE  /\ Env' = names' /\ Calls' = frames' /\ Store' = [x \in Live' |-> ValueOf(x)']
         /\ Ended' = FALSE
  BY DEF Env, Calls, Store, Live, Ended

LEMMA LambdasOf ==
  ASSUME IInv, NEW c \in 1 .. Len(closures)
  PROVE  /\ DOMAIN Lambdas = 1 .. Len(closures)
         /\ DOMAIN Lambdas[c] = 1 .. Len(closures[c])
         /\ \A i \in 1 .. Len(closures[c]) :
              Lambdas[c][i] = bound[closures[c][i]] /\ closures[c][i] \in 1 .. Len(location)
<1>1. closures[c] \in Seq(1 .. Len(location)) /\ DOMAIN closures = 1 .. Len(closures)
  BY DEF IInv, TypeOK
<1>2. QED
  BY <1>1 DEF Lambdas

(* The closures capture exactly the variables that have an upvalue.        *)
LEMMA CapturedIsBound ==
  ASSUME RInv
  PROVE  Abstract!Captured = ToSet(bound)
<1>1. /\ IInv /\ bound \in Seq(Var) /\ Len(bound) = Len(location)
      /\ closures \in Seq(Seq(1 .. Len(location)))
  BY DEF RInv, HIInv, IInv, TypeOK, NamesOfSlots
<1>2. DOMAIN Lambdas = 1 .. Len(closures)
  BY <1>1 DEF Lambdas
<1>3. ASSUME NEW x
      PROVE  x \in Abstract!Captured <=> \E c \in 1 .. Len(closures) :
                                           \E i \in 1 .. Len(closures[c]) : bound[closures[c][i]] = x
  <2>1. x \in Abstract!Captured <=> \E c \in 1 .. Len(closures) : x \in ToSet(Lambdas[c])
    BY <1>2 DEF Abstract!Captured, Abstract!ToSet, ToSet
  <2>2. ASSUME NEW c \in 1 .. Len(closures)
        PROVE  x \in ToSet(Lambdas[c])
                 <=> \E i \in 1 .. Len(closures[c]) : bound[closures[c][i]] = x
    <3>1. /\ DOMAIN Lambdas[c] = 1 .. Len(closures[c])
          /\ \A i \in 1 .. Len(closures[c]) : Lambdas[c][i] = bound[closures[c][i]]
      BY <1>1, LambdasOf
    <3>2. ToSet(Lambdas[c]) = {Lambdas[c][i] : i \in 1 .. Len(closures[c])}
      BY <3>1 DEF ToSet
    <3>3. QED
      BY <3>1, <3>2
  <2>3. QED
    BY <2>1, <2>2
<1>4. ASSUME NEW x
      PROVE  x \in ToSet(bound) <=> \E c \in 1 .. Len(closures) :
                                      \E i \in 1 .. Len(closures[c]) : bound[closures[c][i]] = x
  <2>1. x \in ToSet(bound) <=> \E u \in 1 .. Len(bound) : bound[u] = x
    BY <1>1, InToSet
  <2>2. \A u \in 1 .. Len(bound) : Held(u)
    BY <1>1 DEF RInv, EveryUpvalueHeld
  <2>3. \A c \in 1 .. Len(closures) : \A i \in 1 .. Len(closures[c]) :
          closures[c][i] \in 1 .. Len(bound)
    BY <1>1, LambdasOf
  <2>4. ASSUME NEW u \in 1 .. Len(bound), bound[u] = x
        PROVE  \E c \in 1 .. Len(closures) :
                 \E i \in 1 .. Len(closures[c]) : bound[closures[c][i]] = x
    BY <2>2, <2>4 DEF Held
  <2>5. QED
    BY <2>1, <2>3, <2>4
<1>5. QED
  BY <1>3, <1>4

-----------------------------------------------------------------------------

(* What a step does to values when it keeps the k lowest slots: the slots  *)
(* are the same, and upvalues of slots above them got what was there.      *)
ValuesFrom(k) ==
  /\ \A s \in 1 .. k : stack'[s] = stack[s]
  /\ \A u \in 1 .. Len(location) :
       closed'[u] = IF location[u] > k THEN stack[location[u]] ELSE closed[u]

LEMMA KeptValues ==
  ASSUME RInv, status = "running", NEW k \in Nat, k <= Top, NamesFrom(k),
         NamesOfSlots', OneUpvaluePerVariable', bound' = bound, ValuesFrom(k),
         NEW x, \/ \E s \in 1 .. k : names[s] = x
                \/ \E u \in 1 .. Len(bound) : bound[u] = x
  PROVE  ValueOf(x)' = ValueOf(x)
<1>1. /\ names \in Seq(Var) /\ Len(names) = Top /\ \A s \in 1 .. Len(names) : names[s][1] = s
      /\ Len(bound) = Len(location) /\ location \in Seq(Nat) /\ Top \in Nat
      /\ HIInv /\ NamesOfSlots
  BY DEF RInv, HIInv, IInv, TypeOK, NamesOfSlots, Top
<1>2. /\ Len(names') \in Nat /\ k <= Len(names') /\ names' \in Seq(Var)
      /\ \A s \in 1 .. k : s \in 1 .. Len(names') /\ s \in 1 .. Len(names) /\ names'[s] = names[s]
      /\ \A s \in 1 .. Len(names') :
           s \in 1 .. k \/ \A u \in 1 .. Len(bound) : bound[u] # names'[s]
  BY <1>1 DEF NamesFrom
<1>3. ASSUME NEW s \in 1 .. k, names[s] = x
      PROVE  ValueOf(x)' = ValueOf(x)
  <2>1. ValueOf(x)' = stack'[s]
    BY <1>2, <1>3, ValueInSlotNext
  <2>2. ValueOf(x) = stack[s]
    BY <1>1, <1>2, <1>3, ValueInSlot
  <2>3. QED
    BY <2>1, <2>2 DEF ValuesFrom
<1>4. ASSUME NEW u \in 1 .. Len(bound), bound[u] = x
      PROVE  ValueOf(x)' = ValueOf(x)
  <2>1. /\ ValueOf(x) = IF location[u] = Closed THEN closed[u] ELSE stack[location[u]]
        /\ location[u] = Closed => x \notin ToSet(names)
        /\ location[u] # Closed => location[u] \in 1 .. Top /\ names[location[u]] = x
    BY <1>1, <1>4, ValueThroughUpvalue
  <2>2. location[u] \in Nat /\ closed'[u] = IF location[u] > k THEN stack[location[u]] ELSE closed[u]
    BY <1>1 DEF ValuesFrom
  <2>3. CASE location[u] # Closed /\ ~ (location[u] > k)
    <3>1. location[u] \in 1 .. k /\ names[location[u]] = x
      BY <2>1, <2>2, <2>3
    <3>2. QED
      BY <1>3, <3>1
  <2>4. CASE location[u] = Closed \/ location[u] > k
    <3>1. \A s \in 1 .. k : names[s] # x
      <4>1. CASE location[u] = Closed
        BY <1>1, <1>2, <2>1, <4>1, InToSet
      <4>2. CASE location[u] # Closed /\ location[u] > k
        BY <1>1, <1>2, <2>1, <4>2
      <4>3. QED
        BY <2>4, <4>1, <4>2
    <3>2. x \notin ToSet(names')
      <4>1. \A s \in 1 .. Len(names') : names'[s] # x
        BY <1>2, <1>4, <3>1
      <4>2. QED
        BY <1>2, <4>1, InToSet
    <3>3. ValueOf(x)' = closed'[u]
      BY <1>4, <3>2, ValueInUpvalueNext
    <3>4. QED
      BY <2>1, <2>2, <2>4, <3>3 DEF Closed
  <2>5. QED
    BY <2>3, <2>4
<1>5. QED
  BY <1>3, <1>4

(* A step that puts v on top of the k lowest slots is Enter(k, v).         *)
LEMMA EnterStep ==
  ASSUME RInv, status = "running", ~ Ended', NEW k \in Nat, k <= Top,
         NewName(k + 1), NamesOfSlots', OneUpvaluePerVariable', bound' = bound,
         ValuesFrom(k), NEW v, stack'[k + 1] = v
  PROVE  Abstract!Enter(k, v)
<1>0. PICK kept, x : kept = SubSeq(names, 1, k) /\ x = Fresh(k + 1)
  OBVIOUS
<1>1. ~ Ended /\ HIInv /\ NamesOfSlots /\ names \in Seq(Var) /\ bound \in Seq(Var) /\ k <= Len(names)
  BY DEF Ended, RInv, HIInv, NamesOfSlots, Top
<1>2. /\ Env = names /\ Store = [y \in Live |-> ValueOf(y)]
      /\ Env' = names' /\ Store' = [y \in Live' |-> ValueOf(y)']
  BY <1>1, Mapped, MappedNext
<1>3. /\ x \in Var /\ x \notin InUse(k + 1) /\ names' = Append(kept, x)
      /\ InUse(k + 1) = ToSet(kept) \cup ToSet(bound)
  BY <1>0 DEF NewName, Below, InUse
<1>4. Abstract!Reachable(kept) = InUse(k + 1)
  BY <1>3, CapturedIsBound DEF Abstract!Reachable, Abstract!ToSet, ToSet
<1>5. /\ kept \in Seq(Var) /\ Len(kept) = k
      /\ \A s \in 1 .. k : s \in 1 .. Len(names) /\ kept[s] = names[s]
  BY <1>0, <1>1
<1>6. /\ names' \in Seq(Var) /\ Len(names') = k + 1 /\ names'[k + 1] = x
      /\ \A s \in 1 .. k : names'[s] = kept[s]
  BY <1>3, <1>5, AppendProperties
<1>7. NamesFrom(k)
  BY <1>1, NewNameFrom
<1>8. ASSUME NEW y \in InUse(k + 1)
      PROVE  y \in Live /\ ValueOf(y)' = ValueOf(y)
  <2>1. \/ \E s \in 1 .. k : names[s] = y
        \/ \E u \in 1 .. Len(bound) : bound[u] = y
    <3>1. y \in ToSet(kept) <=> \E s \in 1 .. k : kept[s] = y
      BY <1>5, InToSet
    <3>2. y \in ToSet(bound) <=> \E u \in 1 .. Len(bound) : bound[u] = y
      BY <1>1, InToSet
    <3>3. QED
      BY <1>3, <1>5, <1>8, <3>1, <3>2
  <2>2. y \in Live
    BY <1>1, <1>5, <2>1, InToSet DEF Live
  <2>3. QED
    BY <1>7, <2>1, <2>2, KeptValues
<1>9. ValueOf(x)' = v
  BY <1>6, ValueInSlotNext
<1>10. Live' = InUse(k + 1) \cup {x}
  <2>1. ToSet(names') = ToSet(kept) \cup {x}
    <3>1. \A y : y \in ToSet(names') <=> \E s \in 1 .. k + 1 : names'[s] = y
      BY <1>6, InToSet
    <3>2. \A y : y \in ToSet(kept) <=> \E s \in 1 .. k : kept[s] = y
      BY <1>5, InToSet
    <3>3. \A s : s \in 1 .. k + 1 <=> s \in 1 .. k \/ s = k + 1
      OBVIOUS
    <3>4. QED
      BY <1>6, <3>1, <3>2, <3>3
  <2>2. QED
    BY <1>3, <2>1 DEF Live
<1>11. Store' = [y \in InUse(k + 1) \cup {x} |-> IF y = x THEN v ELSE Store[y]]
  BY <1>2, <1>3, <1>8, <1>9, <1>10
<1>12. /\ Env' = Append(SubSeq(Env, 1, k), x)
       /\ x \in Var \ Abstract!Reachable(SubSeq(Env, 1, k))
       /\ Store' = [y \in Abstract!Reachable(SubSeq(Env, 1, k)) \cup {x} |->
                      IF y = x THEN v ELSE Store[y]]
  BY <1>0, <1>2, <1>3, <1>4, <1>11
<1>13. QED
  BY <1>12 DEF Abstract!Enter

(* A step that drops the highest slot leaves the values of the others.     *)
LEMMA LeaveStep ==
  ASSUME RInv, status = "running", ~ Ended', Top >= 1,
         KeepNames(Top - 1), NamesOfSlots', OneUpvaluePerVariable', bound' = bound,
         ValuesFrom(Top - 1), making = FALSE, UNCHANGED <<frames, closures, making>>
  PROVE  Abstract!Leave
<1>1. ~ Ended /\ HIInv /\ NamesOfSlots /\ names \in Seq(Var) /\ bound \in Seq(Var)
      /\ Len(names) = Top
  BY DEF Ended, RInv, HIInv, NamesOfSlots, Top
<1>2. PICK k \in Nat : k = Top - 1 /\ k <= Top /\ k <= Len(names)
  BY <1>1
<1>3. /\ Env = names /\ Store = [y \in Live |-> ValueOf(y)] /\ Calls = frames
      /\ Env' = names' /\ Store' = [y \in Live' |-> ValueOf(y)'] /\ Calls' = frames'
      /\ Ended = FALSE /\ Ended' = FALSE
  BY <1>1, Mapped, MappedNext
<1>4. /\ names' = SubSeq(names, 1, k) /\ names' \in Seq(Var) /\ Len(names') = k
      /\ \A s \in 1 .. k : s \in 1 .. Len(names) /\ names'[s] = names[s]
  BY <1>1, <1>2 DEF KeepNames
<1>5. NamesFrom(k)
  BY <1>1, <1>2, KeepNamesFrom
<1>6. Abstract!Reachable(names') = Live'
  BY CapturedIsBound DEF Abstract!Reachable, Abstract!ToSet, ToSet, Live
<1>7. ASSUME NEW y \in Live'
      PROVE  y \in Live /\ ValueOf(y)' = ValueOf(y)
  <2>1. y \in ToSet(names') \/ y \in ToSet(bound)
    BY <1>7 DEF Live
  <2>2. \/ \E s \in 1 .. k : names[s] = y
        \/ \E u \in 1 .. Len(bound) : bound[u] = y
    <3>1. y \in ToSet(names') <=> \E s \in 1 .. k : names'[s] = y
      <4>1. y \in ToSet(names') <=> \E s \in 1 .. Len(names') : names'[s] = y
        BY <1>4, InToSet, Zenon
      <4>2. QED
        BY <1>4, <4>1, Zenon
    <3>2. y \in ToSet(bound) <=> \E u \in 1 .. Len(bound) : bound[u] = y
      BY <1>1, InToSet
    <3>3. QED
      BY <1>4, <2>1, <3>1, <3>2
  <2>3. y \in Live
    BY <1>1, <1>4, <2>2, InToSet DEF Live
  <2>4. QED
    BY <1>2, <1>5, <2>2, <2>3, KeptValues
<1>8. Store' = [y \in Abstract!Reachable(Env') |-> Store[y]]
  BY <1>3, <1>6, <1>7
<1>9. Env' = SubSeq(Env, 1, Len(Env) - 1)
  BY <1>1, <1>2, <1>3, <1>4
<1>10. Lambdas' = Lambdas
  BY DEF Lambdas
<1>11. QED
  BY <1>1, <1>3, <1>8, <1>9, <1>10 DEF Abstract!Leave, Abstract!Running

-----------------------------------------------------------------------------

LEMMA ValuesKept ==
  ASSUME IInv, NEW k \in Nat, closed' = closed, \A s \in 1 .. k : stack'[s] = stack[s],
         \A i \in 1 .. Len(open) : location[open[i]] <= k
  PROVE  ValuesFrom(k)
<1>1. ASSUME NEW u \in 1 .. Len(location)
      PROVE  ~ (location[u] > k)
  <2>1. location[u] \in Nat
    BY DEF IInv, TypeOK
  <2>2. location[u] # Closed => \E i \in 1 .. Len(open) : open[i] = u
    BY DEF IInv, OpenListComplete
  <2>3. location[u] # Closed => location[u] <= k
    BY <2>2
  <2>4. QED
    BY <2>1, <2>3 DEF Closed
<1>2. QED
  BY <1>1 DEF ValuesFrom

LEMMA ValuesClosed ==
  ASSUME IInv, status = "running", NEW k \in Nat, k + 1 \in 1 .. Top,
         CloseUpvalues(k + 1), \A s \in 1 .. k : stack'[s] = stack[s]
  PROVE  ValuesFrom(k)
<1> DEFINE gone == Unlinked(open, location, k + 1)
           n    == Len(location)
<1>1. /\ location \in Seq(Nat) /\ DOMAIN closed = 1 .. n /\ n \in Nat
      /\ open \in Seq(1 .. n) /\ Descending(open, location)
  BY DEF IInv, TypeOK, OpenListDescends
<1>2. IsSplit(open, location, k + 1, Remaining(open, location, k + 1), gone)
  BY <1>1, CloseSplits
<1>3. closed' = [u \in 1 .. n |-> IF u \in gone THEN stack[location[u]] ELSE closed[u]]
  BY <1>1 DEF CloseUpvalues
<1> HIDE DEF gone
<1>4. \A w \in 1 .. n : w \in gone <=> In(open, w) /\ location[w] >= k + 1
  BY <1>2 DEF IsSplit
<1> HIDE DEF n
<1>5. ASSUME NEW u \in 1 .. n
      PROVE  closed'[u] = IF location[u] > k THEN stack[location[u]] ELSE closed[u]
  <2>1. location[u] \in Nat
    BY <1>1 DEF n
  <2>2. location[u] # Closed <=> In(open, u)
    BY DEF IInv, OpenListComplete, In, n
  <2>3. closed'[u] = IF u \in gone THEN stack[location[u]] ELSE closed[u]
    BY <1>3
  <2>4. u \in gone <=> location[u] > k
    BY <1>4, <2>1, <2>2 DEF Closed
  <2>5. QED
    BY <2>3, <2>4
<1>6. QED
  BY <1>5 DEF ValuesFrom, n

(* What the running function sees, and the values of it.                   *)
LEMMA SeesLocal ==
  ASSUME RInv, status = "running", NEW s \in Base .. Top
  PROVE  /\ s \in 1 .. Top /\ s \in Abstract!Own
         /\ names[s] \in Abstract!Visible /\ names[s] \in Live
         /\ Env[s] = names[s] /\ Store[names[s]] = stack[s]
<1>1. HIInv /\ IInv /\ NamesOfSlots /\ ~ Ended /\ Len(names) = Top
  BY DEF RInv, HIInv, NamesOfSlots, Ended, Top
<1>2. Base \in Nat \ {0} /\ Top \in Nat /\ s \in 1 .. Len(names)
  BY <1>1, RunningFacts
<1>3. Env = names /\ Calls = frames /\ Store = [x \in Live |-> ValueOf(x)]
  BY <1>1, Mapped
<1>4. s \in Abstract!Own
  BY <1>1, <1>3 DEF Abstract!Own, Base
<1>5. names[s] \in Abstract!Visible
  BY <1>3, <1>4 DEF Abstract!Visible
<1>6. names[s] \in ToSet(names) /\ ValueOf(names[s]) = stack[s]
  BY <1>1, <1>2, ValueInSlot
<1>7. names[s] \in Live
  BY <1>6 DEF Live
<1>8. QED
  BY <1>1, <1>2, <1>3, <1>4, <1>5, <1>6, <1>7

LEMMA SeesUpvalue ==
  ASSUME RInv, status = "running", NEW i \in UpvalueIndices
  PROVE  LET u == Upvalue(i)
         IN  /\ u \in 1 .. Len(bound)
             /\ bound[u] \in Abstract!Visible /\ bound[u] \in Live
             /\ Store[bound[u]] =
                  IF location[u] = Closed THEN closed[u] ELSE stack[location[u]]
<1>0. PICK u, c : u = Upvalue(i) /\ c = frames[Len(frames)].closure
  OBVIOUS
<1>1. /\ HIInv /\ IInv /\ NamesOfSlots /\ ~ Ended /\ Len(bound) = Len(location)
      /\ bound \in Seq(Var)
  BY DEF RInv, HIInv, NamesOfSlots, Ended
<1>2. u \in 1 .. Len(bound) /\ c \in 1 .. Len(closures)
  BY <1>0, <1>1, UpvalueFacts, RunningFacts
<1>3. Calls = frames /\ Store = [x \in Live |-> ValueOf(x)]
  BY <1>1, Mapped
<1>4. i \in 1 .. Len(closures[c]) /\ closures[c][i] = u
  BY <1>0 DEF UpvalueIndices, Upvalue
<1>5. i \in DOMAIN Lambdas[c] /\ Lambdas[c][i] = bound[u]
  <2>1. /\ DOMAIN Lambdas[c] = 1 .. Len(closures[c])
        /\ \A j \in 1 .. Len(closures[c]) : Lambdas[c][j] = bound[closures[c][j]]
    BY <1>1, <1>2, LambdasOf
  <2>2. QED
    BY <1>4, <2>1
<1>6. bound[u] \in Abstract!Visible
  <2>1. Abstract!Seen = Lambdas[c]
    BY <1>0, <1>3 DEF Abstract!Seen
  <2>2. bound[u] \in Abstract!ToSet(Abstract!Seen)
    BY <1>5, <2>1 DEF Abstract!ToSet
  <2>3. QED
    BY <2>2 DEF Abstract!Visible
<1>7. bound[u] \in Live
  BY <1>1, <1>2, InToSet DEF Live
<1>8. ValueOf(bound[u]) = IF location[u] = Closed THEN closed[u] ELSE stack[location[u]]
  BY <1>1, <1>2, ValueThroughUpvalue
<1>9. QED
  BY <1>0, <1>2, <1>3, <1>6, <1>7, <1>8

LEMMA LambdasSame ==
  ASSUME UNCHANGED <<closures, bound>>
  PROVE  Lambdas' = Lambdas
  BY DEF Lambdas

-----------------------------------------------------------------------------

(* The steps that push.                                                    *)

LEMMA PushEnters ==
  ASSUME RInv, RInv', status = "running", NEW v \in Value, Push(v), NewName(Top + 1),
         UNCHANGED <<location, closed, bound>>
  PROVE  /\ Abstract!Enter(Len(Env), v)
         /\ Ended = FALSE /\ Ended' = FALSE /\ Len(Env) = Top
<1>1. /\ HIInv /\ IInv /\ Len(names) = Top /\ stack \in Seq(Value)
      /\ NamesOfSlots' /\ OneUpvaluePerVariable'
  BY DEF RInv, HIInv, IInv, TypeOK, NamesOfSlots, Top
<1>2. Top \in Nat /\ \A i \in 1 .. Len(open) : location[open[i]] <= Top
  BY <1>1, RunningFacts
<1>3. stack' = Append(stack, v) /\ ~ Ended /\ ~ Ended'
  BY DEF Push, Ended
<1>4. stack'[Top + 1] = v /\ \A s \in 1 .. Top : stack'[s] = stack[s]
  BY <1>1, <1>3, AppendProperties DEF Top
<1>5. ValuesFrom(Top)
  BY <1>1, <1>2, <1>4, ValuesKept
<1>6. PICK k \in Nat : k = Top /\ k <= Top
  BY <1>2
<1>7. Abstract!Enter(k, v)
  <2>1. NewName(k + 1) /\ stack'[k + 1] = v /\ ValuesFrom(k)
    BY <1>4, <1>5, <1>6
  <2>2. QED
    BY <1>1, <1>3, <1>6, <2>1, EnterStep
<1>8. Env = names /\ Ended = FALSE /\ Ended' = FALSE
  BY <1>3, Mapped, MappedNext
<1>9. Len(Env) = k
  BY <1>1, <1>6, <1>8
<1>10. QED
  BY <1>6, <1>7, <1>8, <1>9

LEMMA HPushRefines ==
  ASSUME RInv, RInv', HPush
  PROVE  Abstract!Next
<1>1. /\ status = "running" /\ NewName(Top + 1)
      /\ UNCHANGED <<frames, closures, location, closed, bound>>
  BY DEF HPush, PushValue, EndClosure, GetLocal, GetUpvalue, Running, upvalueVars
<1>2. IInv
  BY DEF RInv, HIInv
<1>3. ~ Ended /\ ~ Ended' /\ Calls' = Calls /\ Lambdas' = Lambdas
  <2>1. ~ Ended /\ ~ Ended'
    BY DEF HPush, PushValue, EndClosure, GetLocal, GetUpvalue, Running, Push, Ended
  <2>2. QED
    BY <1>1, <2>1, Mapped, MappedNext, LambdasSame
<1>4. ASSUME NEW v \in Value, PushValue(v) PROVE Abstract!Compute
  <2>1. Push(v) /\ making = FALSE /\ making' = making
    BY <1>2, <1>4 DEF PushValue, Running, IInv, TypeOK
  <2>2. /\ Abstract!Enter(Len(Env), v) /\ Len(Env) = Top
        /\ Ended = FALSE /\ Ended' = FALSE
    BY <1>1, <2>1, PushEnters
  <2>3. Abstract!Enter(Len(Env) - 0, v)
    <3>1. Len(Env) - 0 = Len(Env)
      BY <1>1, <1>2, <2>2, RunningFacts
    <3>2. QED
      BY <2>2, <3>1
  <2>4. \E n \in 0 .. 2, w \in Value :
          /\ n = 0 \/ Len(Env) - n + 1 \in Abstract!Own
          /\ Abstract!Enter(Len(Env) - n, w)
    <3>1. 0 \in 0 .. 2
      OBVIOUS
    <3>2. QED
      BY <2>3, <3>1, Zenon
  <2>5. QED
    BY <1>3, <2>1, <2>2, <2>4 DEF Abstract!Compute, Abstract!Running
<1>5. ASSUME NEW v \in Value, EndClosure(v) PROVE Abstract!EndLambda
  <2>1. Push(v) /\ making = TRUE /\ making' = FALSE
    BY <1>2, <1>5 DEF EndClosure, IInv, TypeOK
  <2>2. Abstract!Enter(Len(Env), v) /\ Ended = FALSE /\ Ended' = FALSE
    BY <1>1, <2>1, PushEnters
  <2>3. QED
    BY <1>3, <2>1, <2>2 DEF Abstract!EndLambda
<1>6. ASSUME NEW s \in Slots, GetLocal(s) PROVE Abstract!Read
  <2>1. Push(stack[s]) /\ making = FALSE /\ making' = making /\ s \in Base .. Top
    BY <1>2, <1>6 DEF GetLocal, Running, IInv, TypeOK
  <2>2. names[s] \in Abstract!Visible /\ Store[names[s]] = stack[s] /\ s \in 1 .. Top
    BY <1>1, <2>1, SeesLocal
  <2>3. stack[s] \in Value
    BY <1>1, <1>2, <2>2, RunningFacts
  <2>4. Abstract!Enter(Len(Env), stack[s]) /\ Ended = FALSE /\ Ended' = FALSE
    BY <1>1, <2>1, <2>3, PushEnters
  <2>5. QED
    BY <1>3, <2>1, <2>2, <2>4 DEF Abstract!Read, Abstract!Running
<1>7. ASSUME NEW i \in 1 .. MaxUpvalues, GetUpvalue(i) PROVE Abstract!Read
  <2>0. PICK u, v : /\ u = Upvalue(i)
                    /\ v = IF location[u] = Closed THEN closed[u] ELSE stack[location[u]]
    OBVIOUS
  <2>1. Push(v) /\ making = FALSE /\ making' = making /\ i \in UpvalueIndices
    BY <1>2, <1>7, <2>0 DEF GetUpvalue, Running, IInv, TypeOK
  <2>2. bound[u] \in Abstract!Visible /\ Store[bound[u]] = v
    BY <1>1, <2>0, <2>1, SeesUpvalue
  <2>3. v \in Value
    <3>1. /\ closed[u] \in Value
          /\ location[u] # Closed => location[u] \in 2 .. Top
      BY <1>1, <1>2, <2>0, <2>1, UpvalueFacts
    <3>2. location[u] # Closed => location[u] \in 1 .. Top
      BY <3>1
    <3>3. QED
      BY <1>1, <1>2, <2>0, <3>1, <3>2, RunningFacts
  <2>4. Abstract!Enter(Len(Env), v) /\ Ended = FALSE /\ Ended' = FALSE
    BY <1>1, <2>1, <2>3, PushEnters
  <2>5. QED
    BY <1>3, <2>1, <2>2, <2>4 DEF Abstract!Read, Abstract!Running
<1>8. QED
  BY <1>4, <1>5, <1>6, <1>7 DEF HPush, Abstract!Next

-----------------------------------------------------------------------------

(* The steps that replace or drop what is on top of the stack.             *)

LEMMA CutAndPut ==
  ASSUME IInv, NEW k \in Nat, k <= Top, NEW v \in Value,
         stack' = Append(SubSeq(stack, 1, k), v)
  PROVE  stack'[k + 1] = v /\ \A s \in 1 .. k : stack'[s] = stack[s]
<1>1. stack \in Seq(Value)
  BY DEF IInv, TypeOK
<1>2. PICK rest : rest = SubSeq(stack, 1, k)
  OBVIOUS
<1>3. rest \in Seq(Value) /\ Len(rest) = k /\ \A s \in 1 .. k : rest[s] = stack[s]
  BY <1>1, <1>2, Prefix DEF Top
<1>4. stack' = Append(rest, v)
  BY <1>2
<1>5. QED
  BY <1>3, <1>4, AppendProperties

LEMMA HOperateRefines ==
  ASSUME RInv, RInv', HOperate
  PROVE  Abstract!Next
<1>0. /\ HIInv /\ IInv /\ Len(names) = Top
      /\ NamesOfSlots' /\ OneUpvaluePerVariable'
  BY DEF RInv, HIInv, NamesOfSlots, Top
<1>1. PICK n \in 1 .. 2, v \in Value :
        Operate(n, v) /\ NewName(Top - n + 1) /\ bound' = bound
  BY DEF HOperate
<1>2. /\ status = "running" /\ making = FALSE /\ Temporaries(n)
      /\ stack' = Append(SubSeq(stack, 1, Top - n), v)
      /\ UNCHANGED <<status, frames, closures, making, location, closed>>
  BY <1>0, <1>1 DEF Operate, Running, upvalueVars, IInv, TypeOK
<1>3. /\ Top - n \in Nat /\ Base <= Top - n /\ Top \in Nat /\ Base \in Nat
      /\ \A i \in 1 .. Len(open) : location[open[i]] <= Top - n
  <2>1. n \in Nat
    OBVIOUS
  <2>2. QED
    BY <1>0, <1>2, <2>1, TemporariesNotOpen, RunningFacts
<1>4. PICK k \in Nat : /\ k = Top - n /\ k <= Top
                       /\ \A i \in 1 .. Len(open) : location[open[i]] <= k
  BY <1>3
<1>5. stack'[k + 1] = v /\ \A s \in 1 .. k : stack'[s] = stack[s]
  BY <1>0, <1>2, <1>4, CutAndPut
<1>6. ValuesFrom(k)
  BY <1>0, <1>2, <1>4, <1>5, ValuesKept
<1>7. ~ Ended /\ ~ Ended'
  BY <1>2 DEF Ended
<1>8. /\ Ended = FALSE /\ Ended' = FALSE /\ Calls' = Calls /\ Lambdas' = Lambdas
      /\ Len(Env) = Top /\ Calls = frames
  BY <1>0, <1>1, <1>2, <1>7, Mapped, MappedNext, LambdasSame
<1>9. Abstract!Enter(k, v)
  <2>1. NewName(k + 1)
    BY <1>1, <1>4
  <2>2. QED
    BY <1>0, <1>1, <1>2, <1>4, <1>5, <1>6, <1>7, <2>1, EnterStep
<1>10. \E m \in 0 .. 2, w \in Value :
         /\ m = 0 \/ Len(Env) - m + 1 \in Abstract!Own
         /\ Abstract!Enter(Len(Env) - m, w)
  <2>1. n \in 0 .. 2 /\ Len(Env) - n = k /\ Len(Env) - n + 1 \in Base .. Top
    BY <1>3, <1>4, <1>8
  <2>2. Abstract!Own = Base .. Top
    BY <1>8 DEF Abstract!Own, Base
  <2>3. Len(Env) - n + 1 \in Abstract!Own /\ Abstract!Enter(Len(Env) - n, v)
    BY <1>9, <2>1, <2>2
  <2>4. QED
    BY <2>1, <2>3, Zenon
<1>11. Abstract!Compute
  BY <1>2, <1>8, <1>10 DEF Abstract!Compute, Abstract!Running
<1>12. QED
  BY <1>11 DEF Abstract!Next

LEMMA HDropRefines ==
  ASSUME RInv, RInv', HDrop
  PROVE  Abstract!Next
<1>0. IInv /\ HIInv /\ NamesOfSlots' /\ OneUpvaluePerVariable'
  BY DEF RInv, HIInv
<1>1. /\ status = "running" /\ making = FALSE /\ KeepNames(Top - 1)
      /\ stack' = SubSeq(stack, 1, Top - 1)
      /\ UNCHANGED <<status, frames, closures, making, bound>>
  BY <1>0 DEF HDrop, Pop, CloseUpvalue, Running, IInv, TypeOK
<1>2. PICK k \in Nat : k = Top - 1 /\ k <= Top /\ k + 1 = Top /\ k + 1 \in 1 .. Top
  <2>1. Top \in Nat /\ Base \in Nat \ {0} /\ Base <= Top
    BY <1>0, <1>1, RunningFacts
  <2>2. QED
    BY <2>1
<1>3. \A s \in 1 .. k : stack'[s] = stack[s]
  <2>1. stack \in Seq(Value) /\ stack' = SubSeq(stack, 1, k) /\ k <= Len(stack)
    BY <1>0, <1>1, <1>2 DEF IInv, TypeOK, Top
  <2>2. QED
    BY <2>1
<1>4. ValuesFrom(k)
  <2>1. CASE Pop
    <3>1. Temporaries(1) /\ closed' = closed
      BY <2>1 DEF Pop, upvalueVars
    <3>2. \A i \in 1 .. Len(open) : location[open[i]] <= k
      BY <1>0, <1>1, <1>2, <3>1, TemporariesNotOpen
    <3>3. QED
      BY <1>0, <1>3, <3>1, <3>2, ValuesKept
  <2>2. CASE CloseUpvalue
    <3>1. CloseUpvalues(k + 1)
      BY <1>2, <2>2 DEF CloseUpvalue
    <3>2. QED
      BY <1>0, <1>1, <1>2, <1>3, <3>1, ValuesClosed
  <2>3. QED
    BY <2>1, <2>2 DEF HDrop
<1>5. ~ Ended' /\ Top >= 1 /\ ValuesFrom(Top - 1)
  BY <1>1, <1>2, <1>4 DEF Ended
<1>6. Abstract!Leave
  BY <1>0, <1>1, <1>5, LeaveStep
<1>7. QED
  BY <1>6 DEF Abstract!Next

-----------------------------------------------------------------------------

(* The steps that write a slot or an upvalue.                              *)

LEMMA WriteSlot ==
  ASSUME RInv, RInv', ~ Ended, ~ Ended', UNCHANGED <<names, bound, closed>>,
         NEW s \in 1 .. Top, NEW v, stack' = [stack EXCEPT ![s] = v]
  PROVE  Env' = Env /\ Store' = [Store EXCEPT ![names[s]] = v]
<1>1. /\ NamesOfSlots /\ NamesOfSlots' /\ OneUpvaluePerVariable /\ OneUpvaluePerVariable'
      /\ names \in Seq(Var) /\ Len(names) = Top /\ stack \in Seq(Value)
      /\ \A t \in 1 .. Len(names) : names[t][1] = t
  BY DEF RInv, HIInv, IInv, TypeOK, NamesOfSlots, Top
<1>2. /\ Env = names /\ Store = [x \in Live |-> ValueOf(x)]
      /\ Env' = names' /\ Store' = [x \in Live' |-> ValueOf(x)'] /\ Live' = Live
  BY Mapped, MappedNext DEF Live
<1>3. \A t \in 1 .. Top : stack'[t] = IF t = s THEN v ELSE stack[t]
  BY <1>1 DEF Top
<1>4. ASSUME NEW x \in Live
      PROVE  ValueOf(x)' = IF x = names[s] THEN v ELSE ValueOf(x)
  <2>1. ASSUME NEW t \in 1 .. Len(names), names[t] = x
        PROVE  ValueOf(x)' = IF x = names[s] THEN v ELSE ValueOf(x)
    <3>1. ValueOf(x)' = stack'[t] /\ ValueOf(x) = stack[t]
      BY <1>1, <2>1, ValueInSlot, ValueInSlotNext
    <3>2. x = names[s] <=> t = s
      BY <1>1, <2>1
    <3>3. QED
      BY <1>1, <1>3, <3>1, <3>2
  <2>2. ASSUME x \notin ToSet(names), NEW u \in 1 .. Len(bound), bound[u] = x
        PROVE  ValueOf(x)' = IF x = names[s] THEN v ELSE ValueOf(x)
    <3>1. ValueOf(x)' = closed[u] /\ ValueOf(x) = closed[u]
      BY <1>1, <2>2, ValueInUpvalue, ValueInUpvalueNext
    <3>2. x # names[s]
      BY <1>1, <2>2, InToSet
    <3>3. QED
      BY <3>1, <3>2
  <2>3. QED
    BY <1>1, <2>1, <2>2, LiveCases
<1>5. names[s] \in Live
  BY <1>1, InToSet DEF Live
<1>6. QED
  BY <1>2, <1>4, <1>5

LEMMA WriteUpvalue ==
  ASSUME RInv, RInv', status = "running", ~ Ended', UNCHANGED <<names, bound, stack>>,
         NEW w \in 1 .. Len(bound), location[w] = Closed,
         NEW v, closed' = [closed EXCEPT ![w] = v]
  PROVE  Env' = Env /\ Store' = [Store EXCEPT ![bound[w]] = v]
<1>1. /\ NamesOfSlots /\ NamesOfSlots' /\ OneUpvaluePerVariable /\ OneUpvaluePerVariable'
      /\ names \in Seq(Var) /\ closed \in Seq(Value) /\ Len(closed) = Len(bound)
      /\ bound \in Seq(Var) /\ HIInv /\ ~ Ended
  BY DEF RInv, HIInv, IInv, TypeOK, NamesOfSlots, Ended
<1>2. /\ Env = names /\ Store = [x \in Live |-> ValueOf(x)]
      /\ Env' = names' /\ Store' = [x \in Live' |-> ValueOf(x)'] /\ Live' = Live
  BY <1>1, Mapped, MappedNext DEF Live
<1>3. \A u \in 1 .. Len(bound) : closed'[u] = IF u = w THEN v ELSE closed[u]
  BY <1>1
<1>4. bound[w] \notin ToSet(names)
  BY <1>1, ValueThroughUpvalue
<1>5. ASSUME NEW x \in Live
      PROVE  ValueOf(x)' = IF x = bound[w] THEN v ELSE ValueOf(x)
  <2>1. ASSUME NEW t \in 1 .. Len(names), names[t] = x
        PROVE  ValueOf(x)' = IF x = bound[w] THEN v ELSE ValueOf(x)
    <3>1. ValueOf(x)' = stack[t] /\ ValueOf(x) = stack[t]
      BY <1>1, <2>1, ValueInSlot, ValueInSlotNext
    <3>2. x # bound[w]
      BY <1>1, <1>4, <2>1, InToSet
    <3>3. QED
      BY <3>1, <3>2
  <2>2. ASSUME x \notin ToSet(names), NEW u \in 1 .. Len(bound), bound[u] = x
        PROVE  ValueOf(x)' = IF x = bound[w] THEN v ELSE ValueOf(x)
    <3>1. ValueOf(x)' = closed'[u] /\ ValueOf(x) = closed[u]
      BY <1>1, <2>2, ValueInUpvalue, ValueInUpvalueNext
    <3>2. x = bound[w] <=> u = w
      BY <1>1, <2>2 DEF OneUpvaluePerVariable
    <3>3. QED
      BY <1>3, <3>1, <3>2
  <2>3. QED
    BY <1>1, <2>1, <2>2, LiveCases
<1>6. bound[w] \in Live
  BY <1>1, InToSet DEF Live
<1>7. QED
  BY <1>2, <1>5, <1>6

LEMMA HSetRefines ==
  ASSUME RInv, RInv', HSet
  PROVE  Abstract!Next
<1>0. IInv
  BY DEF RInv, HIInv
<1>1. /\ status = "running" /\ making = FALSE /\ Top > Base
      /\ UNCHANGED <<status, frames, closures, making, location, names, bound>>
  BY <1>0 DEF HSet, SetLocal, SetUpvalue, Running, upvalueVars, IInv, TypeOK
<1>2. ~ Ended /\ ~ Ended'
  BY <1>1 DEF Ended
<1>3. /\ Ended = FALSE /\ Ended' = FALSE /\ Calls' = Calls /\ Lambdas' = Lambdas
      /\ Env = names
  BY <1>1, <1>2, Mapped, MappedNext, LambdasSame
<1>4. Top \in Base .. Top /\ Len(Env) = Top
  <2>1. Top \in Nat /\ Base \in Nat
    BY <1>0, <1>1, RunningFacts
  <2>2. Len(names) = Top
    BY DEF RInv, HIInv, NamesOfSlots, Top
  <2>3. QED
    BY <1>1, <1>3, <2>1, <2>2
<1>5. Store[Env[Len(Env)]] = stack[Top]
  BY <1>1, <1>4, SeesLocal
<1>6. ASSUME NEW y \in Abstract!Visible,
             Env' = Env /\ Store' = [Store EXCEPT ![y] = stack[Top]]
      PROVE  Abstract!Next
  <2>1. Store' = [Store EXCEPT ![y] = Store[Env[Len(Env)]]]
    BY <1>5, <1>6
  <2>2. Abstract!Assign
    BY <1>1, <1>3, <1>6, <2>1 DEF Abstract!Assign, Abstract!Running
  <2>3. QED
    BY <2>2 DEF Abstract!Next
<1>7. ASSUME NEW s \in Slots, SetLocal(s) PROVE Abstract!Next
  <2>1. s \in Base .. Top /\ stack' = [stack EXCEPT ![s] = stack[Top]] /\ closed' = closed
    BY <1>7 DEF SetLocal, upvalueVars
  <2>2. s \in 1 .. Top /\ names[s] \in Abstract!Visible
    BY <1>1, <2>1, SeesLocal
  <2>3. Env' = Env /\ Store' = [Store EXCEPT ![names[s]] = stack[Top]]
    BY <1>1, <1>2, <2>1, <2>2, WriteSlot
  <2>4. QED
    BY <1>6, <2>2, <2>3
<1>8. ASSUME NEW i \in 1 .. MaxUpvalues, SetUpvalue(i) PROVE Abstract!Next
  <2>1. PICK u : u = Upvalue(i)
    OBVIOUS
  <2>2. /\ i \in UpvalueIndices
        /\ IF location[u] = Closed
             THEN closed' = [closed EXCEPT ![u] = stack[Top]] /\ stack' = stack
             ELSE stack' = [stack EXCEPT ![location[u]] = stack[Top]] /\ closed' = closed
    BY <1>8, <2>1 DEF SetUpvalue
  <2>3. u \in 1 .. Len(bound) /\ bound[u] \in Abstract!Visible
    BY <1>1, <2>1, <2>2, SeesUpvalue
  <2>4. CASE location[u] = Closed
    <3>1. Env' = Env /\ Store' = [Store EXCEPT ![bound[u]] = stack[Top]]
      BY <1>1, <1>2, <2>2, <2>3, <2>4, WriteUpvalue
    <3>2. QED
      BY <1>6, <2>3, <3>1
  <2>5. CASE location[u] # Closed
    <3>1. location[u] \in 1 .. Top /\ names[location[u]] = bound[u]
      BY <1>1, <2>3, <2>5, ValueThroughUpvalue DEF RInv
    <3>2. Env' = Env /\ Store' = [Store EXCEPT ![names[location[u]]] = stack[Top]]
      BY <1>1, <1>2, <2>2, <2>5, <3>1, WriteSlot
    <3>3. QED
      BY <1>6, <2>3, <3>1, <3>2
  <2>6. QED
    BY <2>4, <2>5
<1>9. QED
  BY <1>7, <1>8 DEF HSet

-----------------------------------------------------------------------------

(* Calls, returns and the end.                                             *)

LEMMA HCallRefines ==
  ASSUME RInv, RInv', HCall
  PROVE  Abstract!Next
<1>0. /\ HIInv /\ IInv /\ bound \in Seq(Var) /\ DOMAIN closures = 1 .. Len(closures)
  BY DEF RInv, HIInv, IInv, TypeOK, NamesOfSlots
<1>1. PICK c \in 1 .. Len(closures), argCount \in 0 .. MaxStack - 1, v \in Value :
        Call(c, argCount, v)
  BY DEF HCall
<1>2. PICK s : s = Top - argCount
  OBVIOUS
<1>3. /\ status = "running" /\ making = FALSE /\ Temporaries(argCount + 1) /\ s > Base
      /\ frames' = Append(frames, [offset |-> s, closure |-> c])
      /\ stack' = [stack EXCEPT ![s] = v]
      /\ UNCHANGED <<status, closures, making, closed, names, bound>>
  BY <1>0, <1>1, <1>2 DEF Call, HCall, Running, upvalueVars, IInv, TypeOK
<1>4. s \in Base .. Top /\ Top \in Nat /\ argCount \in Nat
  <2>1. Top \in Nat /\ Base \in Nat /\ argCount \in Nat
    BY <1>0, <1>3, LimitsAssumption, RunningFacts
  <2>2. QED
    BY <1>2, <1>3, <2>1
<1>5. ~ Ended /\ ~ Ended'
  BY <1>3 DEF Ended
<1>6. /\ Ended = FALSE /\ Ended' = FALSE /\ Lambdas' = Lambdas
      /\ Calls = frames /\ Calls' = frames'
  BY <1>3, <1>5, Mapped, MappedNext, LambdasSame
<1>7. s \in 1 .. Top /\ s \in Abstract!Own /\ Env[s] = names[s]
  BY <1>3, <1>4, SeesLocal
<1>8. Env' = Env /\ Store' = [Store EXCEPT ![Env[s]] = v]
  BY <1>3, <1>5, <1>7, WriteSlot
<1>9. Env[s] \notin Abstract!Captured
  <2>1. s \in Top - (argCount + 1) + 1 .. Top
    BY <1>2, <1>4
  <2>2. ~ Captured(s)
    BY <1>3, <2>1 DEF Temporaries
  <2>3. ~ Captures(open, location, s)
    <3>1. /\ location \in Seq(Nat) /\ open \in Seq(1 .. Len(location))
          /\ Descending(open, location) /\ s \in Nat
      BY <1>0, <1>7 DEF IInv, TypeOK, OpenListDescends
    <3>2. QED
      BY <2>2, <3>1, CapturesFindsSlot DEF Captured
  <2>4. \A u \in 1 .. Len(bound) : bound[u] # names[s]
    BY <1>0, <1>3, <1>7, <2>3, NotBoundYet
  <2>5. names[s] \notin ToSet(bound)
    BY <1>0, <2>4, InToSet
  <2>6. QED
    BY <1>7, <2>5, CapturedIsBound
<1>10. c \in DOMAIN Lambdas
  BY <1>0 DEF Lambdas
<1>11. \E d \in DOMAIN Lambdas, t \in Abstract!Own, w \in Value :
         /\ Env[t] \notin Abstract!Captured
         /\ Store' = [Store EXCEPT ![Env[t]] = w]
         /\ Calls' = Append(Calls, [offset |-> t, closure |-> d])
  BY <1>3, <1>6, <1>7, <1>8, <1>9, <1>10
<1>12. Abstract!Call
  BY <1>3, <1>6, <1>8, <1>11 DEF Abstract!Call, Abstract!Running
<1>13. QED
  BY <1>12 DEF Abstract!Next

LEMMA EndRefines ==
  ASSUME IInv, status = "running", making = FALSE, Ended', UNCHANGED <<closures, bound, making>>
  PROVE  Abstract!Next
<1>1. ~ Ended
  BY DEF Ended
<1>2. Ended = FALSE /\ Lambdas' = Lambdas
  BY <1>1, Mapped, LambdasSame
<1>3. Env' = <<>> /\ Store' = <<>> /\ Calls' = <<>> /\ Ended' = TRUE
  BY DEF Env, Store, Calls, Ended
<1>4. Abstract!End
  BY <1>2, <1>3 DEF Abstract!End, Abstract!Running
<1>5. QED
  BY <1>4 DEF Abstract!Next

LEMMA HReturnRefines ==
  ASSUME RInv, RInv', HReturn
  PROVE  Abstract!Next
<1>0. /\ HIInv /\ IInv /\ NamesOfSlots' /\ OneUpvaluePerVariable' /\ Len(names) = Top
  BY DEF RInv, HIInv, NamesOfSlots, Top
<1>1. /\ status = "running" /\ making = FALSE /\ Top > Base /\ CloseUpvalues(Base)
      /\ frames' = SubSeq(frames, 1, Len(frames) - 1)
      /\ IF Len(frames) = 1
           THEN status' = "ok"
           ELSE /\ stack' = Append(SubSeq(stack, 1, Base - 1), stack[Top])
                /\ status' = status
      /\ IF status' = "ok" THEN KeepNames(Top - 2) ELSE NewName(Base)
      /\ UNCHANGED <<closures, making, bound>>
  BY <1>0 DEF HReturn, Return, Running, IInv, TypeOK
<1>2. CASE Len(frames) = 1
  <2>1. Ended'
    BY <1>1, <1>2 DEF Ended
  <2>2. QED
    BY <1>0, <1>1, <2>1, EndRefines
<1>3. CASE Len(frames) # 1
  <2>1. /\ Top \in Nat /\ Base \in Nat \ {0} /\ Base <= Top /\ Len(frames) \in Nat \ {0}
    BY <1>0, <1>1, RunningFacts
  <2>2. PICK k \in Nat : k = Base - 1 /\ k + 1 = Base /\ k <= Top /\ k + 1 \in 1 .. Top
    BY <2>1
  <2>3. /\ stack' = Append(SubSeq(stack, 1, k), stack[Top]) /\ NewName(k + 1)
        /\ CloseUpvalues(k + 1) /\ status' = "running"
    BY <1>1, <1>3, <2>2
  <2>4. Top \in Base .. Top /\ Top \in 1 .. Top
    BY <2>1
  <2>5. stack[Top] \in Value
    BY <1>0, <1>1, <2>4, RunningFacts
  <2>6. stack'[k + 1] = stack[Top] /\ \A s \in 1 .. k : stack'[s] = stack[s]
    BY <1>0, <2>2, <2>3, <2>5, CutAndPut
  <2>7. ValuesFrom(k)
    BY <1>0, <1>1, <2>2, <2>3, <2>6, ValuesClosed
  <2>8. ~ Ended /\ ~ Ended'
    BY <1>1, <2>3 DEF Ended
  <2>9. Abstract!Enter(k, stack[Top])
    BY <1>0, <1>1, <2>2, <2>3, <2>6, <2>7, <2>8, EnterStep
  <2>10. /\ Env = names /\ Calls = frames /\ Calls' = frames'
         /\ Ended = FALSE /\ Ended' = FALSE /\ Lambdas' = Lambdas
    BY <1>1, <2>8, Mapped, MappedNext, LambdasSame
  <2>11. Store[Env[Len(Env)]] = stack[Top]
    BY <1>0, <1>1, <2>4, <2>10, SeesLocal
  <2>12. Calls[Len(Calls)].offset - 1 = k /\ Len(Calls) > 1
    <3>1. Calls[Len(Calls)].offset = Base /\ Len(Calls) = Len(frames)
      BY <2>10 DEF Base
    <3>2. Base - 1 = k
      BY <2>2
    <3>3. Len(frames) > 1
      BY <1>3, <2>1
    <3>4. QED
      BY <3>1, <3>2, <3>3
  <2>13. Abstract!Return
    BY <1>1, <2>9, <2>10, <2>11, <2>12 DEF Abstract!Return, Abstract!Running
  <2>14. QED
    BY <2>13 DEF Abstract!Next
<1>4. QED
  BY <1>2, <1>3

LEMMA HErrorRefines ==
  ASSUME RInv, HError
  PROVE  Abstract!Next
<1>1. IInv /\ making \in BOOLEAN
  BY DEF RInv, HIInv, IInv, TypeOK
<1>2. /\ status = "running" /\ making = FALSE /\ UNCHANGED <<closures, bound, making>>
      /\ status' = "error"
  BY <1>1 DEF HError, RuntimeError, Running, upvalueVars
<1>3. Ended'
  BY <1>2 DEF Ended
<1>4. QED
  BY <1>1, <1>2, <1>3, EndRefines

-----------------------------------------------------------------------------

(* The steps that make a closure.                                          *)

LEMMA LambdasType ==
  ASSUME RInv
  PROVE  Lambdas \in Seq(Seq(Var)) /\ Len(Lambdas) = Len(closures)
<1>1. /\ bound \in Seq(Var) /\ Len(bound) = Len(location) /\ IInv
      /\ closures \in Seq(Seq(1 .. Len(location)))
  BY DEF RInv, HIInv, IInv, TypeOK, NamesOfSlots
<1>2. PICK n \in Nat : n = Len(closures) /\ DOMAIN closures = 1 .. n
  BY <1>1
<1>3. ASSUME NEW c \in 1 .. n
      PROVE  [i \in DOMAIN closures[c] |-> bound[closures[c][i]]] \in Seq(Var)
  <2>1. closures[c] \in Seq(1 .. Len(bound))
    BY <1>1, <1>2
  <2>2. PICK m \in Nat : /\ m = Len(closures[c]) /\ DOMAIN closures[c] = 1 .. m
                         /\ closures[c] \in [1 .. m -> 1 .. Len(bound)]
    BY <2>1
  <2>3. ASSUME NEW i \in 1 .. m PROVE bound[closures[c][i]] \in Var
    <3>1. closures[c][i] \in 1 .. Len(bound)
      BY <2>2
    <3>2. QED
      BY <1>1, <3>1
  <2>4. [i \in DOMAIN closures[c] |-> bound[closures[c][i]]] \in [1 .. m -> Var]
    BY <2>2, <2>3
  <2>5. QED
    BY <2>4, FunctionIsSeq
<1>4. Lambdas \in [1 .. n -> Seq(Var)]
  BY <1>2, <1>3 DEF Lambdas
<1>5. QED
  BY <1>2, <1>4, FunctionIsSeq

(* A step that leaves the slots, their names and the upvalues alone.       *)
LEMMA SameValues ==
  ASSUME UNCHANGED <<stack, frames, location, closed, status, names, bound>>
  PROVE  UNCHANGED <<Env, Store, Calls, Ended>>
<1>1. Ended' = Ended /\ Env' = Env /\ Calls' = Calls
  BY DEF Ended, Env, Calls
<1>2. ASSUME NEW x PROVE ValueOf(x)' = ValueOf(x)
  BY ValueInDefined
<1>3. Store' = Store
  <2>1. Live' = Live
    BY DEF Live
  <2>2. CASE Ended
    BY <1>1, <2>2 DEF Store
  <2>3. CASE ~ Ended
    BY <1>1, <1>2, <2>1, <2>3, Mapped, MappedNext
  <2>4. QED
    BY <2>2, <2>3
<1>4. QED
  BY <1>1, <1>3

LEMMA BeginClosureRefines ==
  ASSUME RInv, BeginClosure, UNCHANGED <<names, bound>>
  PROVE  Abstract!Next
<1>1. IInv /\ HIInv /\ closures \in Seq(Seq(1 .. Len(location)))
  BY DEF RInv, HIInv, IInv, TypeOK
<1>2. /\ status = "running" /\ making = FALSE /\ making' = TRUE
      /\ closures' = Append(closures, <<>>)
      /\ UNCHANGED <<stack, frames, location, closed, status>>
  BY <1>1 DEF BeginClosure, Running, upvalueVars, IInv, TypeOK
<1>3. Ended = FALSE
  BY <1>2 DEF Ended
<1>4. UNCHANGED <<Env, Store, Calls, Ended>>
  BY <1>2, SameValues
<1>5. Lambdas' = Append(Lambdas, <<>>)
  <2>1. PICK n \in Nat : /\ n = Len(closures) /\ DOMAIN closures = 1 .. n
    BY <1>1
  <2>2. /\ DOMAIN closures' = 1 .. n + 1 /\ closures'[n + 1] = <<>>
        /\ \A c \in 1 .. n : closures'[c] = closures[c]
    BY <1>1, <1>2, <2>1
  <2>3. /\ Lambdas \in Seq(Seq(Var)) /\ Len(Lambdas) = n
    BY <2>1, LambdasType
  <2>4. PICK more : more = Append(Lambdas, <<>>)
    OBVIOUS
  <2>5. /\ DOMAIN more = 1 .. n + 1 /\ more[n + 1] = <<>>
        /\ \A c \in 1 .. n : more[c] = Lambdas[c]
        /\ more = [c \in 1 .. n + 1 |-> more[c]]
    <3>1. <<>> \in Seq(Var)
      OBVIOUS
    <3>2. PICK S, l : S = Seq(Var) /\ l = Lambdas /\ l \in Seq(S)
      BY <2>3
    <3>3. /\ more \in Seq(S) /\ Len(more) = n + 1 /\ more[n + 1] = <<>>
          /\ \A c \in 1 .. n : more[c] = l[c]
      BY <2>3, <2>4, <3>1, <3>2, AppendProperties
    <3>4. DOMAIN more = 1 .. n + 1 /\ more = [c \in 1 .. n + 1 |-> more[c]]
      BY <3>3
    <3>5. QED
      BY <3>2, <3>3, <3>4
  <2>6. Lambdas' = [c \in 1 .. n + 1 |->
                      [i \in DOMAIN closures'[c] |-> bound[closures'[c][i]]]]
    BY <2>2 DEF Lambdas
  <2>7. ASSUME NEW c \in 1 .. n + 1
        PROVE  [i \in DOMAIN closures'[c] |-> bound[closures'[c][i]]] = more[c]
    <3>1. CASE c \in 1 .. n
      BY <2>1, <2>2, <2>5, <3>1 DEF Lambdas
    <3>2. CASE c = n + 1
      <4>1. closures'[c] = <<>>
        BY <2>2, <3>2
      <4>2. [i \in DOMAIN <<>> |-> bound[closures'[c][i]]] = <<>>
        OBVIOUS
      <4>3. QED
        BY <2>5, <3>2, <4>1, <4>2
    <3>3. QED
      BY <2>1, <3>1, <3>2
  <2>8. QED
    BY <2>4, <2>5, <2>6, <2>7
<1>6. Abstract!BeginLambda
  BY <1>2, <1>3, <1>4, <1>5 DEF Abstract!BeginLambda, Abstract!Running
<1>7. QED
  BY <1>6 DEF Abstract!Next

(* What a closure captures with the upvalue w is the variable of w.        *)
LEMMA AddedLambda ==
  ASSUME RInv, status = "running", NEW w \in Nat, AddUpvalue(w),
         NEW y \in Var, bound'[w] = y,
         \A u \in 1 .. Len(bound) : bound'[u] = bound[u]
  PROVE  Lambdas' = [Lambdas EXCEPT ![Len(Lambdas)] = Append(Lambdas[Len(Lambdas)], y)]
<1>1. /\ IInv /\ bound \in Seq(Var) /\ Len(bound) = Len(location)
      /\ closures \in Seq(Seq(1 .. Len(location)))
  BY DEF RInv, HIInv, IInv, TypeOK, NamesOfSlots
<1>2. PICK n \in Nat \ {0} : n = Len(closures)
  BY <1>1, AddedUpvalue
<1>3. DOMAIN closures = 1 .. n /\ DOMAIN closures' = 1 .. n
  BY <1>1, <1>2 DEF AddUpvalue
<1>4. \A c \in 1 .. n : closures'[c] = IF c = n THEN Append(closures[c], w) ELSE closures[c]
  BY <1>1, <1>2, AddedUpvalue
<1>5. /\ Lambdas \in Seq(Seq(Var)) /\ Len(Lambdas) = n
      /\ DOMAIN Lambdas = 1 .. n /\ Lambdas = [c \in 1 .. n |-> Lambdas[c]]
  <2>1. Lambdas \in Seq(Seq(Var)) /\ Len(Lambdas) = n
    BY <1>2, LambdasType
  <2>2. QED
    BY <2>1
<1>6. Lambdas' = [c \in 1 .. n |-> [i \in DOMAIN closures'[c] |-> bound'[closures'[c][i]]]]
  BY <1>3 DEF Lambdas
<1>7. ASSUME NEW c \in 1 .. n
      PROVE  [i \in DOMAIN closures'[c] |-> bound'[closures'[c][i]]]
               = IF c = n THEN Append(Lambdas[c], y) ELSE Lambdas[c]
  <2>0. PICK old : old = closures[c]
    OBVIOUS
  <2>1. PICK m \in Nat :
          /\ old = closures[c] /\ m = Len(old) /\ DOMAIN old = 1 .. m
          /\ old \in Seq(Nat)
          /\ \A i \in 1 .. m : old[i] \in 1 .. Len(bound)
    <3>1. old \in Seq(1 .. Len(bound))
      BY <1>1, <1>2, <2>0
    <3>2. QED
      BY <2>0, <3>1
  <2>2. Lambdas[c] = [i \in 1 .. m |-> bound[old[i]]]
    BY <1>3, <2>1 DEF Lambdas
  <2>3. CASE c # n
    <3>1. closures'[c] = old
      BY <1>4, <2>1, <2>3
    <3>2. \A i \in 1 .. m : bound'[old[i]] = bound[old[i]]
      BY <2>1
    <3>3. [i \in 1 .. m |-> bound'[old[i]]] = [i \in 1 .. m |-> bound[old[i]]]
      BY <3>2
    <3>4. [i \in DOMAIN closures'[c] |-> bound'[closures'[c][i]]]
             = [i \in 1 .. m |-> bound'[old[i]]]
      BY <2>1, <3>1
    <3>5. QED
      BY <2>2, <2>3, <3>3, <3>4
  <2>4. CASE c = n
    <3>1. PICK new : new = Append(old, w)
      OBVIOUS
    <3>2. closures'[c] = new
      BY <1>4, <2>1, <2>4, <3>1
    <3>3. new \in Seq(Nat) /\ Len(new) = m + 1 /\ new[m + 1] = w
          /\ \A i \in 1 .. m : new[i] = old[i]
      BY <2>1, <3>1, AppendProperties
    <3>4. DOMAIN new = 1 .. m + 1
      BY <3>3
    <3>5. PICK captured, more : captured = Lambdas[c] /\ more = Append(captured, y)
      OBVIOUS
    <3>6. captured \in Seq(Var) /\ Len(captured) = m
      <4>1. captured \in Seq(Var)
        BY <1>5, <3>5
      <4>2. captured = [i \in 1 .. m |-> bound[old[i]]]
        BY <2>2, <3>5
      <4>3. QED
        BY <2>1, <4>1, <4>2
    <3>7. more \in Seq(Var) /\ Len(more) = m + 1 /\ more[m + 1] = y
          /\ \A i \in 1 .. m : more[i] = captured[i]
      BY <3>5, <3>6, AppendProperties
    <3>8. more = [i \in 1 .. m + 1 |-> more[i]]
      BY <3>7
    <3>9. ASSUME NEW i \in 1 .. m + 1
          PROVE  bound'[new[i]] = more[i]
      <4>1. CASE i \in 1 .. m
        <5>1. new[i] = old[i] /\ old[i] \in 1 .. Len(bound) /\ more[i] = captured[i]
          BY <2>1, <3>3, <3>7, <4>1
        <5>2. captured[i] = bound[old[i]]
          BY <2>2, <3>5, <4>1
        <5>3. bound'[old[i]] = bound[old[i]]
          BY <5>1
        <5>4. QED
          BY <5>1, <5>2, <5>3
      <4>2. CASE i = m + 1
        BY <3>3, <3>7, <4>2
      <4>3. QED
        BY <2>1, <4>1, <4>2
    <3>10. [i \in 1 .. m + 1 |-> bound'[new[i]]] = [i \in 1 .. m + 1 |-> more[i]]
      BY <3>9
    <3>11. QED
      BY <2>4, <3>2, <3>4, <3>5, <3>8, <3>10
  <2>5. QED
    BY <2>3, <2>4
<1>8. Lambdas' = [c \in 1 .. n |-> IF c = n THEN Append(Lambdas[c], y) ELSE Lambdas[c]]
  BY <1>6, <1>7
<1>9. n \in 1 .. n
  BY <1>2
<1>10. QED
  BY <1>5, <1>8, <1>9

(* A step that lets the newest closure capture a variable in sight.        *)
LEMMA CaptureStep ==
  ASSUME RInv, status = "running", making = TRUE, NEW w \in Nat, AddUpvalue(w),
         NEW y \in Var, y \in Abstract!Visible, bound'[w] = y,
         \A u \in 1 .. Len(bound) : bound'[u] = bound[u],
         making' = making, UNCHANGED <<Env, Store, Calls, Ended>>
  PROVE  Abstract!Next
<1>1. Lambdas' = [Lambdas EXCEPT ![Len(Lambdas)] = Append(Lambdas[Len(Lambdas)], y)]
  BY AddedLambda
<1>2. Ended = FALSE
  BY DEF Ended
<1>3. Abstract!Capture
  BY <1>1, <1>2 DEF Abstract!Capture
<1>4. QED
  BY <1>3 DEF Abstract!Next

LEMMA CaptureOuterRefines ==
  ASSUME RInv, NEW i, CaptureOuter(i), UNCHANGED <<names, bound>>
  PROVE  Abstract!Next
<1>1. /\ IInv /\ making \in BOOLEAN /\ bound \in Seq(Var)
  BY DEF RInv, HIInv, IInv, TypeOK, NamesOfSlots
<1>2. /\ status = "running" /\ making = TRUE /\ i \in UpvalueIndices /\ AddUpvalue(Upvalue(i))
      /\ UNCHANGED <<stack, frames, location, closed, status, making>>
  BY <1>1 DEF CaptureOuter, MakingMore, upvalueVars
<1>3. PICK w, y : w = Upvalue(i) /\ y = bound[w]
  OBVIOUS
<1>4. w \in 1 .. Len(bound) /\ y \in Abstract!Visible
  BY <1>2, <1>3, SeesUpvalue
<1>5. w \in Nat /\ y \in Var
  BY <1>1, <1>3, <1>4
<1>6. UNCHANGED <<Env, Store, Calls, Ended>>
  BY <1>2, SameValues
<1>7. AddUpvalue(w) /\ bound'[w] = y /\ \A u \in 1 .. Len(bound) : bound'[u] = bound[u]
  BY <1>2, <1>3
<1>8. QED
  BY <1>2, <1>4, <1>5, <1>6, <1>7, CaptureStep

LEMMA HMakeRefines ==
  ASSUME RInv, HMake
  PROVE  Abstract!Next
  BY BeginClosureRefines, CaptureOuterRefines DEF HMake

(* A new upvalue changes no value: its variable is still in its slot.      *)
LEMMA CreateKeepsValues ==
  ASSUME RInv, RInv', status = "running", NEW s \in 1 .. Top,
         location' = Append(location, s), closed' = Append(closed, Nil),
         bound' = Append(bound, names[s]),
         UNCHANGED <<stack, frames, names, status>>
  PROVE  UNCHANGED <<Env, Store, Calls, Ended>>
<1>1. /\ NamesOfSlots /\ NamesOfSlots' /\ OneUpvaluePerVariable'
      /\ names \in Seq(Var) /\ bound \in Seq(Var) /\ closed \in Seq(Value)
      /\ Len(bound) = Len(location) /\ Len(closed) = Len(location) /\ Len(names) = Top
  BY DEF RInv, HIInv, IInv, TypeOK, NamesOfSlots, Top
<1>2. /\ ~ Ended /\ ~ Ended' /\ Env' = Env /\ Calls' = Calls /\ Ended' = Ended
  BY DEF Ended, Env, Calls
<1>3. names[s] \in Var /\ Nil \in Value /\ names[s] \in ToSet(names)
  BY <1>1, InToSet, ValueAssumption
<1>4. /\ Len(bound') = Len(bound) + 1 /\ bound'[Len(bound) + 1] = names[s]
      /\ bound' \in Seq(Var)
      /\ \A u \in 1 .. Len(bound) : bound'[u] = bound[u]
  BY <1>1, <1>3, AppendProperties
<1>5. \A u \in 1 .. Len(bound) : closed'[u] = closed[u]
  BY <1>1, <1>3, AppendProperties
<1>6. Live' = Live
  <2>1. ASSUME NEW x PROVE x \in ToSet(bound') <=> x \in ToSet(bound) \/ x = names[s]
    <3>1. x \in ToSet(bound') <=> \E u \in 1 .. Len(bound') : bound'[u] = x
      <4>1. PICK b : b = bound' /\ b \in Seq(Var)
        BY <1>4
      <4>2. x \in ToSet(b) <=> \E u \in 1 .. Len(b) : b[u] = x
        BY <4>1, InToSet
      <4>3. QED
        BY <4>1, <4>2
    <3>2. x \in ToSet(bound) <=> \E u \in 1 .. Len(bound) : bound[u] = x
      BY <1>1, InToSet
    <3>3. Len(bound) \in Nat
      BY <1>1
    <3>4. \A u \in 1 .. Len(bound') : u \in 1 .. Len(bound) \/ u = Len(bound) + 1
      BY <1>4, <3>3
    <3>5. /\ \A u \in 1 .. Len(bound) : u \in 1 .. Len(bound')
          /\ Len(bound) + 1 \in 1 .. Len(bound')
      BY <1>4, <3>3
    <3>6. QED
      BY <1>4, <3>1, <3>2, <3>4, <3>5
  <2>2. QED
    BY <1>3, <2>1 DEF Live
<1>7. ASSUME NEW x \in Live PROVE ValueOf(x)' = ValueOf(x)
  <2>1. CASE \E t \in 1 .. Len(names) : names[t] = x
    <3>1. PICK t \in 1 .. Len(names) : names[t] = x
      BY <2>1
    <3>2. ValueOf(x) = stack[t]
      BY <1>1, <3>1, ValueInSlot
    <3>3. ValueOf(x)' = stack'[t]
      BY <1>1, <3>1, ValueInSlotNext
    <3>4. QED
      BY <3>2, <3>3
  <2>2. CASE x \notin ToSet(names) /\ \E u \in 1 .. Len(bound) : bound[u] = x
    <3>1. PICK u \in 1 .. Len(bound) : bound[u] = x
      BY <2>2
    <3>2. ValueOf(x) = closed[u]
      BY <2>2, <3>1, ValueInUpvalue DEF RInv, HIInv
    <3>3. u \in 1 .. Len(bound') /\ bound'[u] = x /\ x \notin ToSet(names')
      <4>1. Len(bound) \in Nat
        BY <1>1
      <4>2. QED
        BY <1>4, <2>2, <3>1, <4>1
    <3>4. ValueOf(x)' = closed'[u]
      BY <1>1, <3>3, ValueInUpvalueNext
    <3>5. QED
      BY <1>5, <3>2, <3>4
  <2>3. QED
    BY <1>1, <2>1, <2>2, LiveCases
<1>8. Store' = Store
  BY <1>2, <1>6, <1>7, Mapped, MappedNext
<1>9. QED
  BY <1>2, <1>8

LEMMA HCaptureRefines ==
  ASSUME RInv, RInv', HCapture
  PROVE  Abstract!Next
<1>0. /\ IInv /\ HIInv /\ making \in BOOLEAN /\ bound \in Seq(Var) /\ location \in Seq(Nat)
      /\ names \in Seq(Var) /\ Len(names) = Top /\ Len(bound) = Len(location)
  BY DEF RInv, HIInv, IInv, TypeOK, NamesOfSlots, Top
<1>1. PICK s \in Slots :
        /\ CaptureLocal(s)
        /\ bound' = IF location' = location THEN bound ELSE Append(bound, names[s])
  BY DEF HCapture
<1>2. /\ status = "running" /\ making = TRUE /\ s \in Base + 1 .. Top
      /\ UNCHANGED <<stack, frames, names, status, making>>
  BY <1>0, <1>1 DEF HCapture, CaptureLocal, MakingMore
<1>3. s \in Base .. Top /\ s \in 1 .. Top /\ s \in Nat
  BY <1>0, <1>2, RunningFacts
<1>4. PICK y : y = names[s]
  OBVIOUS
<1>5. y \in Var /\ y \in Abstract!Visible
  BY <1>0, <1>2, <1>3, <1>4, SeesLocal
<1>6. CASE Captures(open, location, s)
  <2>1. PICK w : w = Existing(open, location, s)
    OBVIOUS
  <2>2. AddUpvalue(w) /\ location' = location /\ closed' = closed /\ bound' = bound
    BY <1>1, <1>6, <2>1 DEF CaptureLocal, upvalueVars
  <2>3. w \in 1 .. Len(bound) /\ location[w] = s
    BY <1>0, <1>1, <1>6, <2>1, ExistingUpvalue
  <2>4. w \in Nat /\ location[w] # Closed
    BY <1>3, <2>3 DEF Closed
  <2>5. bound'[w] = y
    BY <1>0, <1>2, <1>4, <2>2, <2>3, <2>4, ValueThroughUpvalue
  <2>6. UNCHANGED <<Env, Store, Calls, Ended>>
    BY <1>2, <2>2, SameValues
  <2>7. \A u \in 1 .. Len(bound) : bound'[u] = bound[u]
    BY <2>2
  <2>8. QED
    BY <1>2, <1>5, <2>2, <2>4, <2>5, <2>6, <2>7, CaptureStep
<1>7. CASE ~ Captures(open, location, s)
  <2>1. PICK w \in Nat : w = Len(location) + 1
    BY <1>0
  <2>2. AddUpvalue(w) /\ location' = Append(location, s) /\ closed' = Append(closed, Nil)
    BY <1>1, <1>7, <2>1 DEF CaptureLocal
  <2>3. location' # location
    <3>1. Len(location') = Len(location) + 1 /\ Len(location) \in Nat
      BY <1>0, <1>3, <2>2, AppendProperties
    <3>2. QED
      BY <3>1
  <2>4. bound' = Append(bound, y)
    BY <1>1, <1>4, <2>3
  <2>5. bound'[w] = y /\ \A u \in 1 .. Len(bound) : bound'[u] = bound[u]
    BY <1>0, <1>5, <2>1, <2>4, AppendProperties
  <2>6. UNCHANGED <<Env, Store, Calls, Ended>>
    BY <1>2, <1>3, <1>4, <2>2, <2>4, CreateKeepsValues
  <2>7. QED
    BY <1>2, <1>5, <2>2, <2>5, <2>6, CaptureStep
<1>8. QED
  BY <1>6, <1>7

-----------------------------------------------------------------------------

(* The first state, the stutters and every other step.                    *)

LEMMA InitRefines == HInit => Abstract!Init
<1> SUFFICES ASSUME HInit PROVE Abstract!Init
  OBVIOUS
<1>1. PICK v, x :
        /\ v \in Value /\ x = <<1, 0>> /\ stack = <<v>> /\ names = <<x>> /\ bound = <<>>
        /\ frames = <<[offset |-> 1, closure |-> 1]>> /\ closures = << <<>> >>
        /\ making = FALSE /\ status = "running"
  BY DEF HInit, Init
<1>2. RInv
  BY InitHIInv DEF RInv, HInit, Init, EveryUpvalueHeld
<1>3. Ended = FALSE
  BY <1>1 DEF Ended
<1>4. /\ Env = <<x>> /\ Calls = <<[offset |-> 1, closure |-> 1]>>
      /\ Store = [y \in Live |-> ValueOf(y)]
  BY <1>1, <1>3, Mapped
<1>5. Live = {x}
  BY <1>1 DEF Live, ToSet
<1>6. x \in Var /\ ValueOf(x) = v
  <2>1. 1 \in 1 .. Len(names) /\ names[1] = x /\ stack[1] = v /\ NamesOfSlots
    BY <1>1, <1>2 DEF RInv, HIInv
  <2>2. names \in Seq(Var)
    BY <2>1 DEF NamesOfSlots
  <2>3. QED
    BY <2>1, <2>2, ValueInSlot
<1>7. Store = [y \in {x} |-> v]
  BY <1>4, <1>5, <1>6
<1>8. Lambdas = << <<>> >>
  <2>1. DOMAIN closures = {1} /\ closures[1] = <<>>
    BY <1>1
  <2>2. Lambdas = [c \in {1} |-> [i \in DOMAIN <<>> |-> bound[closures[c][i]]]]
    BY <2>1 DEF Lambdas
  <2>3. QED
    BY <2>2
<1>9. QED
  BY <1>1, <1>3, <1>4, <1>6, <1>7, <1>8 DEF Abstract!Init

LEMMA StepRefines ==
  ASSUME RInv, RInv', [HNext]_hvars
  PROVE  [Abstract!Next]_(Abstract!vars)
<1>1. CASE UNCHANGED hvars
  <2>1. UNCHANGED <<stack, frames, location, closed, status, names, bound, closures, making>>
    BY <1>1 DEF hvars, vars
  <2>2. UNCHANGED <<Env, Store, Calls, Ended>> /\ Lambdas' = Lambdas
    BY <2>1, SameValues, LambdasSame
  <2>3. QED
    BY <2>1, <2>2 DEF Abstract!vars
<1>2. CASE HNext
  <2>1. Abstract!Next
    BY <1>2, HPushRefines, HOperateRefines, HDropRefines, HSetRefines, HCaptureRefines,
       HMakeRefines, HCallRefines, HReturnRefines, HErrorRefines DEF HNext
  <2>2. QED
    BY <2>1
<1>3. QED
  BY <1>1, <1>2

(* The virtual machine's open and closed upvalues implement closures that  *)
(* capture variables: whatever program runs, a variable has one value,     *)
(* shared by the function that declares it and by all the closures that    *)
(* capture it, and only an assignment to it changes that value.            *)
THEOREM MachineImplementsCells == HSpec => ImplementsCells
<1>1. HInit => Abstract!Init
  BY InitRefines
<1>2. RInv /\ RInv' /\ [HNext]_hvars => [Abstract!Next]_(Abstract!vars)
  BY StepRefines
<1>3. QED
  BY <1>1, <1>2, RefinementInvariance, PTL DEF HSpec, ImplementsCells, Abstract!Spec

=============================================================================
