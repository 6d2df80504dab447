-------------------------- MODULE ClosuresHistory --------------------------
(***************************************************************************)
(* Closures with two history variables that say which variable, of the     *)
(* program being run, a stack slot and an upvalue stand for.  With them    *)
(* the machine is shown to implement Cells.                                *)
(***************************************************************************)
EXTENDS Closures

VARIABLES
  names,   \* slot -> the variable it holds
  bound    \* upvalue -> the variable it was created for

hvars == <<vars, names, bound>>

(* A variable is told from the others that live in its slot by a number.   *)
Var == Slots \X (0 .. MaxUpvalues)

(* Some variable for a slot s that nobody uses when the slots below s keep *)
(* theirs.                                                                 *)
Below(s) == SubSeq(names, 1, s - 1)
InUse(s) == ToSet(Below(s)) \cup ToSet(bound)
Fresh(s) == <<s, CHOOSE n \in 0 .. MaxUpvalues : <<s, n>> \notin InUse(s)>>

-----------------------------------------------------------------------------

(* How the names follow the slots: a step keeps the variables of the k     *)
(* lowest slots, and a slot it pushes holds a new variable.                *)
KeepNames(k) ==
  names' = SubSeq(names, 1, k)

NewName(s) ==
  /\ Fresh(s) \in Var \ InUse(s)
  /\ names' = Append(Below(s), Fresh(s))

HInit ==
  /\ Init
  /\ names = << <<1, 0>> >>
  /\ bound = <<>>

HPush ==
  /\ \/ \E v \in Value : PushValue(v) \/ EndClosure(v)
     \/ \E s \in Slots : GetLocal(s)
     \/ \E i \in 1 .. MaxUpvalues : GetUpvalue(i)
  /\ NewName(Top + 1)
  /\ UNCHANGED bound

HOperate ==
  \E n \in 1 .. 2 :
    /\ \E v \in Value : Operate(n, v)
    /\ NewName(Top - n + 1)
    /\ UNCHANGED bound

HDrop ==
  /\ Pop \/ CloseUpvalue
  /\ KeepNames(Top - 1)
  /\ UNCHANGED bound

HSet ==
  /\ \/ \E s \in Slots : SetLocal(s)
     \/ \E i \in 1 .. MaxUpvalues : SetUpvalue(i)
  /\ UNCHANGED <<names, bound>>

HCapture ==
  /\ \E s \in Slots :
       /\ CaptureLocal(s)
       /\ bound' = IF location' = location THEN bound
                                           ELSE Append(bound, names[s])
  /\ UNCHANGED names

HMake ==
  /\ BeginClosure \/ \E i \in 1 .. MaxUpvalues : CaptureOuter(i)
  /\ UNCHANGED <<names, bound>>

HCall ==
  /\ \E c \in 1 .. Len(closures), argCount \in 0 .. MaxStack - 1, v \in Value :
       Call(c, argCount, v)
  /\ UNCHANGED <<names, bound>>

HReturn ==
  /\ Return
  /\ IF status' = "ok" THEN KeepNames(Top - 2) ELSE NewName(Base)
  /\ UNCHANGED bound

HError ==
  /\ RuntimeError
  /\ KeepNames(0)
  /\ UNCHANGED bound

HNext ==
  \/ HPush \/ HOperate \/ HDrop \/ HSet
  \/ HCapture \/ HMake
  \/ HCall \/ HReturn \/ HError

HSpec == HInit /\ [][HNext]_hvars

-----------------------------------------------------------------------------

Ended == status \in {"ok", "error"}

(* Where the value of a variable is: in its slot, or in its upvalue.       *)
ValueOf(x) ==
  IF x \in ToSet(names)
    THEN stack[SelectInSeq(names, LAMBDA y : y = x)]
    ELSE closed[SelectInSeq(bound, LAMBDA y : y = x)]

(* The mapping: slots become variables, upvalues the variables they stand  *)
(* for; nothing is left of the list, of the locations and of the capacity. *)
Env   == IF Ended THEN <<>> ELSE names
Calls == IF Ended THEN <<>> ELSE frames
Store == IF Ended THEN <<>>
         ELSE [x \in ToSet(names) \cup ToSet(bound) |-> ValueOf(x)]
Lambdas ==
  [c \in DOMAIN closures |-> [i \in DOMAIN closures[c] |-> bound[closures[c][i]]]]

Abstract ==
  INSTANCE Cells WITH
    Var <- Var, env <- Env, store <- Store, lambdas <- Lambdas,
    calls <- Calls, making <- making, ended <- Ended

(* The machine implements closures that capture variables: a variable      *)
(* keeps its value from one assignment to the next, whether it lives in    *)
(* its slot or in its upvalue, whatever else happens to the slot.          *)
ImplementsCells == Abstract!Spec

(* captureUpvalue never makes a second upvalue for a variable: with two,   *)
(* closures that should share the variable would each close a copy of it.  *)
OneUpvaluePerVariable ==
  \A u, w \in 1 .. Len(bound) : bound[u] = bound[w] => u = w

(* An open upvalue points to the slot that holds its variable, even when   *)
(* the slot was another variable's before; a closed one's is out of scope. *)
PointsToItsVariable ==
  status = "running" =>
    \A u \in 1 .. Len(bound) :
      IF location[u] = Closed
        THEN \A s \in 1 .. Len(names) : names[s] # bound[u]
        ELSE /\ location[u] \in DOMAIN names
             /\ names[location[u]] = bound[u]

=============================================================================
