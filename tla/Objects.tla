------------------------------ MODULE Objects ------------------------------
(***************************************************************************)
(* The part of the virtual machine (vm.h) that knows globals, functions,   *)
(* classes, instances and methods.  As in Closures any instruction may     *)
(* run at any time, as long as it finds operands of its own frame; upvalues *)
(* are left to Closures.                                                   *)
(*                                                                         *)
(* An instruction is a function of the machine, a record, so that what one *)
(* instruction does can be compared with what others do in sequence.       *)
(***************************************************************************)
EXTENDS Integers, Sequences, SequencesExt, Functions

CONSTANTS
  Name,          \* names of fields and methods
  Global,        \* names of global variables
  Constructor,   \* kKlassConstructorName
  FRAMES_MAX,    \* 64 in the code
  MaxStack,      \* bound: deepest stack
  MaxClasses,    \* bound: classes made
  MaxMethods,    \* bound: methods made
  MaxObjects,    \* bound: instances and bound methods made, each
  MaxArity,      \* bound: parameters of methods, and arguments
  FunctionArities, \* the arities of the functions at hand
  Natives,       \* the native functions at hand, by the arguments they read
  SuperArguments \* bound: arguments of SUPER_INVOKE

ASSUME ObjectsAssumption ==
  /\ Constructor \in Name
  /\ FRAMES_MAX \in Nat \ {0, 1}
  /\ MaxStack \in Nat \ {0}
  /\ MaxClasses \in Nat /\ MaxMethods \in Nat /\ MaxObjects \in Nat
  /\ MaxArity \in Nat /\ SuperArguments \in 0 .. MaxArity
  /\ FunctionArities \subseteq Nat
  /\ Natives \subseteq {0, 1}

VARIABLE vm

(* Values are tagged, as the variant Value is.  A function is known by its *)
(* arity, the other objects by their order of creation.                    *)
Nil         == <<"nil", 0>>
FunctionOf(arity) == <<"function", arity>>
Native(arguments) == <<"native", arguments>>
Clock       == Native(0)
Sleep       == Native(1)
Class(k)    == <<"class", k>>
Instance(i) == <<"instance", i>>
Bound(b)    == <<"bound", b>>
IsA(v, tag) == v[1] = tag

(* The values that need not be made.                                       *)
AtHand ==
  {Nil} \cup {Native(n) : n \in Natives}
    \cup {FunctionOf(n) : n \in FunctionArities}

Empty == [x \in {} |-> Nil]

(* interpret() has called the script.  The globals `clock' and `sleep' that *)
(* VM() defines are left out of globals: a native can be pushed instead.   *)
Start ==
  [stack     |-> <<Nil>>,
   frames    |-> <<[offset |-> 1, callee |-> <<"script", 0>>]>>,
   globals   |-> Empty,     \* VM::globals_
   classes   |-> <<>>,      \* ClassObject::methods: names to methods
   methods   |-> <<>>,      \* the closures made for methods: their arities
   instances |-> <<>>,      \* InstanceObject: class and fields
   bounds    |-> <<>>,      \* BoundMethodObject: self and method
   status    |-> "running"]

-----------------------------------------------------------------------------

Top(m)     == Len(m.stack)
Base(m)    == Last(m.frames).offset
Peek(m, n) == m.stack[Top(m) - n]

Has(m, n)  == Top(m) - n >= Base(m)    \* n operands above slot zero

Push(m, v)       == [m EXCEPT !.stack = Append(@, v)]
Drop(m, n)       == [m EXCEPT !.stack = SubSeq(@, 1, Len(@) - n)]
Replace(m, n, v) == Push(Drop(m, n), v)
SetSlot(m, s, v) == [m EXCEPT !.stack[s] = v]

(* insert() does nothing when the key is there; operator= would.           *)
Insert(map, key, value) ==
  IF key \in DOMAIN map THEN map
  ELSE [k \in DOMAIN map \cup {key} |-> IF k = key THEN value ELSE map[k]]

RuntimeError(m) ==
  [m EXCEPT !.frames = Front(@), !.stack = <<>>, !.status = "error"]

(* std::bad_variant_access, which nobody catches, ends the process.        *)
Abort(m) == [m EXCEPT !.status = "aborted"]

Undefined(m) == [m EXCEPT !.status = "undefined"]

-----------------------------------------------------------------------------
(* Calls                                                                   *)

(* Variant of CallClosure: the receiver is not among the callee's slots.   *)
CallClosureAbove(m, callee, arity, n) ==
  IF n # arity \/ Len(m.frames) + 1 = FRAMES_MAX THEN RuntimeError(m)
  ELSE [m EXCEPT !.frames = Append(@, [offset |-> Top(m) - n + 1,
                                       callee |-> callee])]

(* call(): slot zero of the new frame is the slot below the arguments.     *)
CallClosure(m, callee, arity, n) ==
  IF n # arity \/ Len(m.frames) + 1 = FRAMES_MAX THEN RuntimeError(m)
  ELSE [m EXCEPT !.frames = Append(@, [offset |-> Top(m) - n,
                                       callee |-> callee])]

CallMethod(m, method, n) ==
  CallClosure(m, <<"method", method>>, m.methods[method], n)

(* CallVisitor on a class: the new instance takes the slot of the class.   *)
Construct(m, k, n) ==
  LET made == [m EXCEPT !.instances =
                 Append(@, [klass |-> k, fields |-> Empty])]
      slot == Top(m) - n
      new  == SetSlot(made, slot, Instance(Len(made.instances)))
  IN  IF Constructor \in DOMAIN m.classes[k]
        THEN CallMethod(new, m.classes[k][Constructor], n)
      ELSE IF n # 0 THEN RuntimeError(m)
      ELSE new

(* On a native function: the loop that should pop the callee and the       *)
(* arguments, `for (i = 0; i == argCount; i++)', runs once or not at all.  *)
(* sleep reads its first argument; without one that is past the stack's    *)
(* end.                                                                    *)
CallNative(m, native, n) ==
  IF native = Sleep /\ n = 0 THEN Undefined(m)
  ELSE Push(IF n = 0 THEN Drop(m, 1) ELSE m, Nil)

(* Variant of CallBound: the bound method stays in slot zero.              *)
CallBoundInPlace(m, b, n) ==
  CallMethod(m, m.bounds[b].method, n)

CallBound(m, b, n) ==
  CallMethod(SetSlot(m, Top(m) - n, m.bounds[b].self), m.bounds[b].method, n)

CallValue(m, callee, n) ==
  CASE IsA(callee, "function") -> CallClosure(m, callee, callee[2], n)
    [] IsA(callee, "class")    -> Construct(m, callee[2], n)
    [] IsA(callee, "bound")    -> CallBound(m, callee[2], n)
    [] IsA(callee, "native")   -> CallNative(m, callee, n)
    [] OTHER                   -> RuntimeError(m)

Call(m, n) == CallValue(m, Peek(m, n), n)

InvokeFromClass(m, k, name, n) ==
  IF name \notin DOMAIN m.classes[k] THEN RuntimeError(m)
  ELSE CallMethod(m, m.classes[k][name], n)

(* Variant of Invoke: methods come before fields.                          *)
InvokeMethodFirst(m, name, n) ==
  LET receiver == Peek(m, n)
      object   == m.instances[receiver[2]]
  IN  IF ~ IsA(receiver, "instance") THEN RuntimeError(m)
      ELSE IF name \in DOMAIN m.classes[object.klass]
        THEN InvokeFromClass(m, object.klass, name, n)
      ELSE IF name \in DOMAIN object.fields
        THEN CallValue(SetSlot(m, Top(m) - n, object.fields[name]),
                       object.fields[name], n)
      ELSE RuntimeError(m)

(* INVOKE: a property that is a field is called like any value.            *)
Invoke(m, name, n) ==
  LET receiver == Peek(m, n)
      object   == m.instances[receiver[2]]
  IN  IF ~ IsA(receiver, "instance") THEN RuntimeError(m)
      ELSE IF name \in DOMAIN object.fields
        THEN CallValue(SetSlot(m, Top(m) - n, object.fields[name]),
                       object.fields[name], n)
      ELSE InvokeFromClass(m, object.klass, name, n)

Return(m) ==
  IF Len(m.frames) = 1
    THEN [Drop(m, 2) EXCEPT !.frames = <<>>, !.status = "ok"]
    ELSE [m EXCEPT !.frames = Front(@),
                   !.stack = Append(SubSeq(@, 1, Base(m) - 1), Last(@))]

-----------------------------------------------------------------------------
(* Properties and super                                                    *)

(* bindMethod with n operands above the receiver.                          *)
BindMethod(m, k, name) ==
  IF name \notin DOMAIN m.classes[k] THEN RuntimeError(m)
  ELSE IF ~ IsA(Peek(m, 0), "instance") THEN Abort(m)
  ELSE LET bound == [self |-> Peek(m, 0), method |-> m.classes[k][name]]
       IN  Replace([m EXCEPT !.bounds = Append(@, bound)], 1,
                   Bound(Len(m.bounds) + 1))

GetProperty(m, name) ==
  LET receiver == Peek(m, 0)
      object   == m.instances[receiver[2]]
  IN  IF ~ IsA(receiver, "instance") THEN RuntimeError(m)
      ELSE IF name \in DOMAIN object.fields
        THEN Replace(m, 1, object.fields[name])
      ELSE BindMethod(m, object.klass, name)

SetProperty(m, name) ==
  LET i == Peek(m, 1)[2]
  IN  IF ~ IsA(Peek(m, 1), "instance") THEN RuntimeError(m)
      ELSE Replace([m EXCEPT !.instances[i].fields =
                      Insert(@, name, Peek(m, 0))], 2, Peek(m, 0))

(* The stack holds `this' and the superclass.                              *)
GetSuper(m, name) ==
  IF ~ IsA(Peek(m, 0), "class") THEN Abort(m)
  ELSE BindMethod(Drop(m, 1), Peek(m, 0)[2], name)

(* Variant of SuperInvoke: the superclass stays on the stack.              *)
SuperInvokeInPlace(m, name, n) ==
  IF ~ IsA(Peek(m, 0), "class") THEN Abort(m)
  ELSE InvokeFromClass(m, Peek(m, 0)[2], name, n)

(* It holds `this', the superclass and the arguments, in this order: what  *)
(* is taken for the superclass is the last argument, if there is one.      *)
SuperInvoke(m, name, n) ==
  IF ~ IsA(Peek(m, 0), "class") THEN Abort(m)
  ELSE InvokeFromClass(Drop(m, 1), Peek(m, 0)[2], name, n)

-----------------------------------------------------------------------------
(* Classes and globals                                                     *)

NewClass(m) ==
  Push([m EXCEPT !.classes = Append(@, Empty)], Class(Len(m.classes) + 1))

(* CLOSURE and METHOD: the compiler emits one right after the other.       *)
Method(m, name, arity) ==
  LET k == Peek(m, 0)[2]
  IN  [m EXCEPT !.methods = Append(@, arity),
                !.classes[k] = Insert(@, name, Len(m.methods) + 1)]

(* The superclass stays on the stack.                                      *)
Inherit(m) ==
  LET k     == Peek(m, 0)[2]
      above == Peek(m, 1)
      both  == m.classes[k]
  IN  IF ~ IsA(above, "class") THEN RuntimeError(m)
      ELSE Drop([m EXCEPT !.classes[k] =
                   [x \in DOMAIN both \cup DOMAIN m.classes[above[2]] |->
                      IF x \in DOMAIN both THEN both[x]
                      ELSE m.classes[above[2]][x]]], 1)

DefineGlobal(m, name) ==
  IF name \in DOMAIN m.globals THEN RuntimeError(m)
  ELSE Drop([m EXCEPT !.globals = Insert(@, name, Peek(m, 0))], 1)

SetGlobal(m, name) ==
  IF name \notin DOMAIN m.globals THEN RuntimeError(m)
  ELSE [m EXCEPT !.globals[name] = Peek(m, 0)]

GetGlobal(m, name) ==
  IF name \notin DOMAIN m.globals THEN RuntimeError(m)
  ELSE Push(m, m.globals[name])

-----------------------------------------------------------------------------
(* The instructions, one at a time.                                        *)

Running == vm.status = "running"

WithinBounds ==
  /\ Top(vm) <= MaxStack
  /\ Len(vm.classes) <= MaxClasses /\ Len(vm.methods) <= MaxMethods
  /\ Len(vm.instances) <= MaxObjects /\ Len(vm.bounds) <= MaxObjects

RunPush ==
  \/ \E v \in AtHand : vm' = Push(vm, v)
  \/ \E s \in Base(vm) .. Top(vm) : vm' = Push(vm, vm.stack[s])
  \/ vm' = NewClass(vm)
  \/ \E name \in Global : vm' = GetGlobal(vm, name)

RunPop ==
  /\ Has(vm, 1)
  /\ vm' = Drop(vm, 1)

(* Assignments to a local reach any slot but slot zero, which has no name  *)
(* or the name `this'.                                                     *)
RunSetLocal ==
  \E s \in Base(vm) + 1 .. Top(vm) : vm' = SetSlot(vm, s, Peek(vm, 0))

RunGlobal ==
  /\ Has(vm, 1)
  /\ \E name \in Global :
       vm' = DefineGlobal(vm, name) \/ vm' = SetGlobal(vm, name)

RunProperty ==
  \E name \in Name :
    \/ Has(vm, 1) /\ vm' = GetProperty(vm, name)
    \/ Has(vm, 2) /\ vm' = SetProperty(vm, name)

RunClass ==
  \/ /\ Has(vm, 1) /\ IsA(Peek(vm, 0), "class")
     /\ \E name \in Name, n \in 0 .. MaxArity : vm' = Method(vm, name, n)
  \/ /\ Has(vm, 2) /\ IsA(Peek(vm, 0), "class")
     /\ vm' = Inherit(vm)

RunCall ==
  \E n \in 0 .. MaxArity :
    /\ Has(vm, n + 1)
    /\ \/ vm' = Call(vm, n)
       \/ \E name \in Name : vm' = Invoke(vm, name, n)

(* `super' in a method: the compiler has pushed `this' and the local that  *)
(* holds the superclass.                                                   *)
RunSuper ==
  \E name \in Name, n \in 0 .. SuperArguments :
    /\ Has(vm, n + 2)
    /\ IsA(Peek(vm, n), "class") /\ IsA(Peek(vm, n + 1), "instance")
    /\ \/ vm' = SuperInvoke(vm, name, n)
       \/ n = 0 /\ vm' = GetSuper(vm, name)

RunReturn ==
  /\ Has(vm, 1)
  /\ vm' = Return(vm)

Next ==
  /\ Running
  /\ \/ RunPush \/ RunPop \/ RunSetLocal \/ RunGlobal \/ RunProperty \/ RunClass
     \/ RunCall \/ RunSuper \/ RunReturn
  /\ WithinBounds'

Init == vm = Start

Spec == Init /\ [][Next]_vm

-----------------------------------------------------------------------------

Values ==
  AtHand
    \cup {Class(k) : k \in 1 .. Len(vm.classes)}
    \cup {Instance(i) : i \in 1 .. Len(vm.instances)}
    \cup {Bound(b) : b \in 1 .. Len(vm.bounds)}

(* Whatever a value, a class, an instance or a frame refers to exists.     *)
TypeOK ==
  /\ ToSet(vm.stack) \subseteq Values
  /\ Range(vm.globals) \subseteq Values
  /\ \A k \in 1 .. Len(vm.classes) :
       Range(vm.classes[k]) \subseteq 1 .. Len(vm.methods)
  /\ \A i \in 1 .. Len(vm.instances) :
       /\ vm.instances[i].klass \in 1 .. Len(vm.classes)
       /\ Range(vm.instances[i].fields) \subseteq Values
  /\ \A b \in 1 .. Len(vm.bounds) :
       /\ IsA(vm.bounds[b].self, "instance") /\ vm.bounds[b].self \in Values
       /\ vm.bounds[b].method \in 1 .. Len(vm.methods)
  /\ Running => \A f \in ToSet(vm.frames) : f.offset \in 1 .. Top(vm)
  /\ Len(vm.frames) < FRAMES_MAX

(* However a method is called (INVOKE, a bound method that was stored or   *)
(* passed around, a constructor, super), slot zero of its frame is an      *)
(* instance: GET_LOCAL 0 is `this'.                                        *)
ReceiverInSlotZero ==
  Running => \A f \in ToSet(vm.frames) :
               IsA(f.callee, "method") => IsA(vm.stack[f.offset], "instance")

(* What a program can see of two machines in which different numbers of    *)
(* bound methods have been made.                                           *)
SameOutcome(m1, m2) ==
  /\ m1.status = m2.status
  /\ m1.status = "running" =>
       /\ m1.stack = m2.stack /\ m1.frames = m2.frames
       /\ m1.instances = m2.instances

(* INVOKE is GET_PROPERTY followed by CALL, whatever the receiver is and   *)
(* whatever the property is: field, method, class, function or missing.    *)
(* The arguments lie above the receiver: they are pushed again in between. *)
InvokeIsGetThenCall ==
  Running =>
    \A name \in Name, n \in 0 .. MaxArity :
      Has(vm, n + 1) =>
        LET got    == GetProperty(Drop(vm, n), name)
            pushed == [got EXCEPT !.stack =
                         @ \o SubSeq(vm.stack, Top(vm) - n + 1, Top(vm))]
        IN  SameOutcome(Invoke(vm, name, n),
                        IF got.status # "running" THEN got ELSE Call(pushed, n))

(* A call without arguments of the superclass's method is the same whether *)
(* it is compiled to SUPER_INVOKE or to GET_SUPER and CALL.                *)
SuperInvokeIsGetThenCall ==
  Running /\ Has(vm, 2) /\ IsA(Peek(vm, 0), "class")
    /\ IsA(Peek(vm, 1), "instance") =>
      \A name \in Name :
        LET got == GetSuper(vm, name)
        IN  SameOutcome(SuperInvoke(vm, name, 0),
                        IF got.status # "running" THEN got ELSE Call(got, 0))

-----------------------------------------------------------------------------
(* What the repository's tests expect.                                     *)

(* A call of a superclass's method finds the superclass.                   *)
SuperFindsItsClass == vm.status # "aborted"

=============================================================================
