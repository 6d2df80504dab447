---------------------------- MODULE ObjectsProofs ----------------------------
(***************************************************************************)
(* A method always has its receiver, and every object refers to objects    *)
(* that exist, for every value of the constants.  An instruction is a      *)
(* function of the machine, so most lemmas are about a machine m and what  *)
(* an operator makes of it.                                                *)
(***************************************************************************)
EXTENDS Objects, SequenceTheorems, TLAPS

(* The values there are when k classes, i instances and b bound methods    *)
(* have been made.                                                         *)
ValuesFor(k, i, b) ==
  AtHand
    \cup {Class(x) : x \in 1 .. k}
    \cup {Instance(x) : x \in 1 .. i}
    \cup {Bound(x) : x \in 1 .. b}

ValuesOf(m) == ValuesFor(Len(m.classes), Len(m.instances), Len(m.bounds))

Callee == {"script", "function", "method"} \X Nat

(* Maps from some of the names in N to members of S.                       *)
Maps(N, S) == UNION {[D -> S] : D \in SUBSET N}

(* m has the components of a machine and no others.                        *)
Whole(m) ==
  m = [stack |-> m.stack, frames |-> m.frames, globals |-> m.globals,
       classes |-> m.classes, methods |-> m.methods, instances |-> m.instances,
       bounds |-> m.bounds, status |-> m.status]

Typed(m) ==
  /\ Whole(m)
  /\ m.stack \in Seq(ValuesOf(m))
  /\ m.frames \in Seq([offset : Nat, callee : Callee])
  /\ Len(m.frames) < FRAMES_MAX
  /\ m.globals \in Maps(Global, ValuesOf(m))
  /\ m.methods \in Seq(Nat)
  /\ m.classes \in Seq(Maps(Name, 1 .. Len(m.methods)))
  /\ m.instances \in Seq([klass : 1 .. Len(m.classes), fields : Maps(Name, ValuesOf(m))])
  /\ m.bounds \in Seq([self : {Instance(i) : i \in 1 .. Len(m.instances)},
                       method : 1 .. Len(m.methods)])

(* While the program runs, frames lie strictly above each other, and slot  *)
(* zero of a method's frame is an instance.                                *)
FramesFine(m) ==
  m.status = "running" =>
    /\ m.frames # <<>>
    /\ \A f \in 1 .. Len(m.frames) : m.frames[f].offset \in 1 .. Len(m.stack)
    /\ \A f, g \in 1 .. Len(m.frames) : f < g => m.frames[f].offset < m.frames[g].offset
    /\ \A f \in 1 .. Len(m.frames) :
         m.frames[f].callee[1] = "method" => m.stack[m.frames[f].offset][1] = "instance"

Fine(m) == Typed(m) /\ FramesFine(m)

-----------------------------------------------------------------------------

LEMMA LiveFrame ==
  ASSUME NEW m, Fine(m), m.status = "running"
  PROVE  /\ Len(m.frames) \in Nat \ {0} /\ Top(m) \in Nat
         /\ Base(m) = m.frames[Len(m.frames)].offset
         /\ Base(m) \in 1 .. Top(m)
         /\ \A f \in 1 .. Len(m.frames) : m.frames[f].offset \in 1 .. Base(m)
         /\ \A s \in 1 .. Top(m) : m.stack[s] \in ValuesOf(m)
<1>1. /\ m.frames \in Seq([offset : Nat, callee : Callee]) /\ m.frames # <<>>
      /\ m.stack \in Seq(ValuesOf(m))
  BY DEF Fine, Typed, FramesFine
<1>2. PICK k \in Nat \ {0} : k = Len(m.frames)
  BY <1>1
<1>3. Base(m) = m.frames[k].offset
  BY <1>2 DEF Base, Last
<1>4. /\ \A f \in 1 .. k : m.frames[f].offset \in 1 .. Len(m.stack)
      /\ \A f, g \in 1 .. k : f < g => m.frames[f].offset < m.frames[g].offset
  BY <1>2 DEF Fine, FramesFine
<1>5. Top(m) \in Nat /\ Top(m) = Len(m.stack)
  BY <1>1 DEF Top
<1>6. k \in 1 .. k
  BY <1>2
<1>7. \A f \in 1 .. k : m.frames[f].offset \in 1 .. Base(m)
  <2> TAKE f \in 1 .. k
  <2>1. f = k \/ f < k
    BY <1>2
  <2>2. m.frames[f].offset \in 1 .. Len(m.stack) /\ m.frames[k].offset \in 1 .. Len(m.stack)
    BY <1>4, <1>6
  <2>3. QED
    BY <1>3, <1>4, <1>5, <1>6, <2>1, <2>2
<1>8. QED
  BY <1>1, <1>2, <1>3, <1>4, <1>5, <1>6, <1>7

(* An instruction that changes only the stack, above slot zero.            *)
LEMMA StackOnly ==
  ASSUME NEW m, Fine(m), m.status = "running", NEW st \in Seq(ValuesOf(m)),
         Base(m) <= Len(st), \A s \in 1 .. Base(m) : st[s] = m.stack[s]
  PROVE  Fine([m EXCEPT !.stack = st])
<1>1. PICK r : r = [m EXCEPT !.stack = st]
  OBVIOUS
<1>2. /\ r.stack = st /\ r.frames = m.frames /\ r.globals = m.globals
      /\ r.classes = m.classes /\ r.methods = m.methods
      /\ r.instances = m.instances /\ r.bounds = m.bounds /\ r.status = m.status
      /\ Whole(r)
  BY <1>1 DEF Fine, Typed, Whole
<1>3. Typed(r)
  BY <1>2 DEF Fine, Typed, ValuesOf
<1>4. FramesFine(r)
  <2>1. Base(m) \in Nat /\ Len(st) \in Nat
    BY LiveFrame
  <2>2. \A f \in 1 .. Len(m.frames) : m.frames[f].offset \in 1 .. Base(m)
    BY LiveFrame
  <2>3. \A f \in 1 .. Len(m.frames) :
          /\ m.frames[f].offset \in 1 .. Len(st)
          /\ st[m.frames[f].offset] = m.stack[m.frames[f].offset]
    BY <2>1, <2>2
  <2>4. QED
    BY <1>2, <2>3 DEF Fine, FramesFine
<1>5. QED
  BY <1>1, <1>3, <1>4 DEF Fine

LEMMA PushFine ==
  ASSUME NEW m, Fine(m), m.status = "running", NEW v \in ValuesOf(m)
  PROVE  Fine(Push(m, v))
<1>1. m.stack \in Seq(ValuesOf(m)) /\ Top(m) = Len(m.stack)
  BY DEF Fine, Typed, Top
<1>2. Base(m) \in 1 .. Top(m) /\ Top(m) \in Nat
  BY LiveFrame
<1>3. PICK st : st = Append(m.stack, v)
  OBVIOUS
<1>4. /\ st \in Seq(ValuesOf(m)) /\ Len(st) = Len(m.stack) + 1
      /\ \A s \in 1 .. Len(m.stack) : st[s] = m.stack[s]
  BY <1>1, <1>3, AppendProperties
<1>5. Base(m) <= Len(st) /\ \A s \in 1 .. Base(m) : st[s] = m.stack[s]
  BY <1>1, <1>2, <1>4
<1>6. Fine([m EXCEPT !.stack = st])
  BY <1>4, <1>5, StackOnly
<1>7. QED
  BY <1>3, <1>6 DEF Push

LEMMA PrefixOf ==
  ASSUME NEW S, NEW seq \in Seq(S), NEW k \in Nat, k <= Len(seq)
  PROVE  /\ SubSeq(seq, 1, k) \in Seq(S) /\ Len(SubSeq(seq, 1, k)) = k
         /\ \A s \in 1 .. k : SubSeq(seq, 1, k)[s] = seq[s]
  OBVIOUS

LEMMA DropFine ==
  ASSUME NEW m, Fine(m), m.status = "running", NEW n \in Nat, Has(m, n)
  PROVE  /\ Fine(Drop(m, n)) /\ Top(Drop(m, n)) = Top(m) - n
         /\ \A s \in 1 .. Top(m) - n : Drop(m, n).stack[s] = m.stack[s]
<1>1. m.stack \in Seq(ValuesOf(m)) /\ Top(m) = Len(m.stack)
  BY DEF Fine, Typed, Top
<1>2. Base(m) \in 1 .. Top(m) /\ Top(m) \in Nat /\ Top(m) - n >= Base(m)
  BY LiveFrame DEF Has
<1>3. PICK k \in Nat : k = Top(m) - n /\ Base(m) <= k /\ k <= Len(m.stack)
  BY <1>1, <1>2
<1>4. PICK st : st = SubSeq(m.stack, 1, k)
  OBVIOUS
<1>5. /\ st \in Seq(ValuesOf(m)) /\ Len(st) = k
      /\ \A s \in 1 .. k : st[s] = m.stack[s]
  BY <1>1, <1>3, <1>4, PrefixOf
<1>6. Base(m) <= Len(st) /\ \A s \in 1 .. Base(m) : st[s] = m.stack[s]
  BY <1>2, <1>3, <1>5
<1>7. Fine([m EXCEPT !.stack = st])
  BY <1>5, <1>6, StackOnly
<1>8. Drop(m, n) = [m EXCEPT !.stack = st]
  BY <1>1, <1>3, <1>4 DEF Drop
<1>9. Drop(m, n).stack = st
  BY <1>8 DEF Fine, Typed, Whole
<1>10. QED
  BY <1>3, <1>5, <1>7, <1>8, <1>9 DEF Top

LEMMA SetSlotFine ==
  ASSUME NEW m, Fine(m), m.status = "running", NEW s \in Base(m) + 1 .. Top(m),
         NEW v \in ValuesOf(m)
  PROVE  Fine(SetSlot(m, s, v))
<1>1. m.stack \in Seq(ValuesOf(m)) /\ Top(m) = Len(m.stack)
  BY DEF Fine, Typed, Top
<1>2. Base(m) \in 1 .. Top(m) /\ Top(m) \in Nat
  BY LiveFrame
<1>3. PICK st : st = [m.stack EXCEPT ![s] = v]
  OBVIOUS
<1>4. /\ st \in Seq(ValuesOf(m)) /\ Len(st) = Len(m.stack)
      /\ \A t \in 1 .. Len(m.stack) : t # s => st[t] = m.stack[t]
  BY <1>1, <1>2, <1>3
<1>5. Base(m) <= Len(st) /\ \A t \in 1 .. Base(m) : st[t] = m.stack[t]
  BY <1>1, <1>2, <1>4
<1>6. Fine([m EXCEPT !.stack = st])
  BY <1>4, <1>5, StackOnly
<1>7. SetSlot(m, s, v) = [m EXCEPT !.stack = st]
  BY <1>3 DEF SetSlot
<1>8. QED
  BY <1>6, <1>7

-----------------------------------------------------------------------------

(* Instructions that make or change objects leave stack and frames alone.  *)

LEMMA Larger ==
  ASSUME NEW k \in Nat, NEW i \in Nat, NEW b \in Nat,
         NEW k2 \in Nat, NEW i2 \in Nat, NEW b2 \in Nat,
         k <= k2, i <= i2, b <= b2
  PROVE  ValuesFor(k, i, b) \subseteq ValuesFor(k2, i2, b2)
<1>1. 1 .. k \subseteq 1 .. k2 /\ 1 .. i \subseteq 1 .. i2 /\ 1 .. b \subseteq 1 .. b2
  OBVIOUS
<1>2. QED
  BY <1>1 DEF ValuesFor

LEMMA MapsGrow ==
  ASSUME NEW N, NEW S, NEW T, S \subseteq T
  PROVE  Maps(N, S) \subseteq Maps(N, T)
<1>1. ASSUME NEW f \in Maps(N, S) PROVE f \in Maps(N, T)
  <2>1. PICK D \in SUBSET N : f \in [D -> S]
    BY DEF Maps
  <2>2. f \in [D -> T]
    BY <2>1
  <2>3. QED
    BY <2>2 DEF Maps
<1>2. QED
  BY <1>1

LEMMA SeqGrows ==
  ASSUME NEW S, NEW T, S \subseteq T
  PROVE  Seq(S) \subseteq Seq(T)
  OBVIOUS

Sizes(m) ==
  /\ Len(m.classes) \in Nat /\ Len(m.methods) \in Nat
  /\ Len(m.instances) \in Nat /\ Len(m.bounds) \in Nat

NoSmaller(m, r) ==
  /\ Len(m.classes) <= Len(r.classes) /\ Len(m.methods) <= Len(r.methods)
  /\ Len(m.instances) <= Len(r.instances) /\ Len(m.bounds) <= Len(r.bounds)

LEMMA TypedSizes ==
  ASSUME NEW m, Typed(m)
  PROVE  Sizes(m)
  BY DEF Typed, Sizes

(* What m has is still of its type when there are more objects.            *)
LEMMA StillTyped ==
  ASSUME NEW m, NEW r, Typed(m), Sizes(r), NoSmaller(m, r)
  PROVE  /\ ValuesOf(m) \subseteq ValuesOf(r)
         /\ m.stack \in Seq(ValuesOf(r))
         /\ m.globals \in Maps(Global, ValuesOf(r))
         /\ m.classes \in Seq(Maps(Name, 1 .. Len(r.methods)))
         /\ m.instances \in Seq([klass : 1 .. Len(r.classes), fields : Maps(Name, ValuesOf(r))])
         /\ m.bounds \in Seq([self : {Instance(i) : i \in 1 .. Len(r.instances)},
                              method : 1 .. Len(r.methods)])
<1>1. Sizes(m)
  BY TypedSizes
<1>2. ValuesOf(m) \subseteq ValuesOf(r)
  <2>1. PICK k \in Nat, i \in Nat, b \in Nat, k2 \in Nat, i2 \in Nat, b2 \in Nat :
          /\ k = Len(m.classes) /\ i = Len(m.instances) /\ b = Len(m.bounds)
          /\ k2 = Len(r.classes) /\ i2 = Len(r.instances) /\ b2 = Len(r.bounds)
    BY <1>1 DEF Sizes
  <2>2. k <= k2 /\ i <= i2 /\ b <= b2
    BY <2>1 DEF NoSmaller
  <2>3. ValuesFor(k, i, b) \subseteq ValuesFor(k2, i2, b2)
    BY <2>2, Larger
  <2>4. QED
    BY <2>1, <2>3 DEF ValuesOf
<1>3. /\ 1 .. Len(m.classes) \subseteq 1 .. Len(r.classes)
      /\ 1 .. Len(m.methods) \subseteq 1 .. Len(r.methods)
      /\ 1 .. Len(m.instances) \subseteq 1 .. Len(r.instances)
  BY <1>1 DEF Sizes, NoSmaller
<1>4. Maps(Name, 1 .. Len(m.methods)) \subseteq Maps(Name, 1 .. Len(r.methods))
  BY <1>3, MapsGrow
<1>5. /\ Maps(Name, ValuesOf(m)) \subseteq Maps(Name, ValuesOf(r))
      /\ Maps(Global, ValuesOf(m)) \subseteq Maps(Global, ValuesOf(r))
  BY <1>2, MapsGrow
<1>6. [klass : 1 .. Len(m.classes), fields : Maps(Name, ValuesOf(m))]
        \subseteq [klass : 1 .. Len(r.classes), fields : Maps(Name, ValuesOf(r))]
  BY <1>3, <1>5
<1>7. [self : {Instance(i) : i \in 1 .. Len(m.instances)}, method : 1 .. Len(m.methods)]
        \subseteq [self : {Instance(i) : i \in 1 .. Len(r.instances)},
                   method : 1 .. Len(r.methods)]
  BY <1>3
<1>8. m.stack \in Seq(ValuesOf(r)) /\ m.globals \in Maps(Global, ValuesOf(r))
  BY <1>2, <1>5, SeqGrows DEF Typed
<1>9. m.classes \in Seq(Maps(Name, 1 .. Len(r.methods)))
  BY <1>4, SeqGrows DEF Typed
<1>10. m.instances \in Seq([klass : 1 .. Len(r.classes), fields : Maps(Name, ValuesOf(r))])
  <2>1. PICK S, T : /\ S = [klass : 1 .. Len(m.classes), fields : Maps(Name, ValuesOf(m))]
                    /\ T = [klass : 1 .. Len(r.classes), fields : Maps(Name, ValuesOf(r))]
    OBVIOUS
  <2>2. m.instances \in Seq(S) /\ S \subseteq T
    BY <1>6, <2>1 DEF Typed
  <2>3. m.instances \in Seq(T)
    BY <2>2, SeqGrows
  <2>4. QED
    BY <2>1, <2>3
<1>11. m.bounds \in Seq([self : {Instance(i) : i \in 1 .. Len(r.instances)},
                         method : 1 .. Len(r.methods)])
  <2>1. PICK S, T :
          /\ S = [self : {Instance(i) : i \in 1 .. Len(m.instances)}, method : 1 .. Len(m.methods)]
          /\ T = [self : {Instance(i) : i \in 1 .. Len(r.instances)}, method : 1 .. Len(r.methods)]
    OBVIOUS
  <2>2. m.bounds \in Seq(S) /\ S \subseteq T
    BY <1>7, <2>1 DEF Typed
  <2>3. m.bounds \in Seq(T)
    BY <2>2, SeqGrows
  <2>4. QED
    BY <2>1, <2>3
<1>12. QED
  BY <1>2, <1>8, <1>9, <1>10, <1>11

LEMMA SameFrames ==
  ASSUME NEW m, NEW r, Fine(m), Typed(r),
         r.stack = m.stack, r.frames = m.frames, r.status = m.status
  PROVE  Fine(r)
  BY DEF Fine, FramesFine

(* insert(), and what a key may be mapped to afterwards.                   *)
LEMMA InsertTyped ==
  ASSUME NEW N, NEW S, NEW map \in Maps(N, S), NEW key \in N, NEW value \in S
  PROVE  Insert(map, key, value) \in Maps(N, S)
<1>1. PICK D \in SUBSET N : map \in [D -> S]
  BY DEF Maps
<1>2. CASE key \in D
  BY <1>1, <1>2 DEF Insert
<1>3. CASE key \notin D
  <2>1. Insert(map, key, value) = [k \in D \cup {key} |-> IF k = key THEN value ELSE map[k]]
    BY <1>1, <1>3 DEF Insert
  <2>2. Insert(map, key, value) \in [D \cup {key} -> S]
    BY <1>1, <2>1
  <2>3. QED
    BY <2>2 DEF Maps
<1>4. QED
  BY <1>2, <1>3

LEMMA MapValue ==
  ASSUME NEW N, NEW S, NEW map \in Maps(N, S), NEW key \in DOMAIN map
  PROVE  map[key] \in S /\ key \in N
  BY DEF Maps

LEMMA EmptyTyped ==
  ASSUME NEW N, NEW S
  PROVE  Empty \in Maps(N, S)
<1>1. Empty \in [{} -> S]
  BY DEF Empty
<1>2. QED
  BY <1>1 DEF Maps

LEMMA NewInstanceFine ==
  ASSUME NEW m, Fine(m), NEW k \in 1 .. Len(m.classes)
  PROVE  LET made == [m EXCEPT !.instances = Append(@, [klass |-> k, fields |-> Empty])]
         IN  /\ Fine(made) /\ Len(made.instances) = Len(m.instances) + 1
             /\ Instance(Len(made.instances)) \in ValuesOf(made)
             /\ made.classes = m.classes /\ made.stack = m.stack /\ made.frames = m.frames
             /\ made.status = m.status /\ made.methods = m.methods
<1>1. PICK r, new : /\ new = [klass |-> k, fields |-> Empty]
                    /\ r = [m EXCEPT !.instances = Append(m.instances, new)]
  OBVIOUS
<1>2. /\ r.instances = Append(m.instances, new)
      /\ r.stack = m.stack /\ r.frames = m.frames /\ r.globals = m.globals
      /\ r.classes = m.classes /\ r.methods = m.methods
      /\ r.bounds = m.bounds /\ r.status = m.status
      /\ Whole(r)
  BY <1>1 DEF Fine, Typed, Whole
<1>3. Len(r.instances) = Len(m.instances) + 1 /\ Len(m.instances) \in Nat
  BY <1>2 DEF Fine, Typed
<1>4. Sizes(r) /\ NoSmaller(m, r)
  BY <1>2, <1>3, TypedSizes DEF Fine, Sizes, NoSmaller
<1>5. new \in [klass : 1 .. Len(r.classes), fields : Maps(Name, ValuesOf(r))]
  BY <1>1, <1>2, EmptyTyped
<1>6. m.instances \in Seq([klass : 1 .. Len(r.classes), fields : Maps(Name, ValuesOf(r))])
  BY <1>4, StillTyped DEF Fine
<1>7. r.instances \in Seq([klass : 1 .. Len(r.classes), fields : Maps(Name, ValuesOf(r))])
  BY <1>2, <1>5, <1>6, AppendProperties
<1>8. /\ r.stack \in Seq(ValuesOf(r)) /\ r.globals \in Maps(Global, ValuesOf(r))
      /\ r.classes \in Seq(Maps(Name, 1 .. Len(r.methods)))
      /\ r.bounds \in Seq([self : {Instance(i) : i \in 1 .. Len(r.instances)},
                           method : 1 .. Len(r.methods)])
  BY <1>2, <1>4, StillTyped DEF Fine
<1>9. Typed(r)
  BY <1>2, <1>7, <1>8 DEF Fine, Typed
<1>10. Fine(r)
  BY <1>2, <1>9, SameFrames
<1>11. Instance(Len(r.instances)) \in ValuesOf(r)
  <2>1. Len(r.instances) \in 1 .. Len(r.instances)
    BY <1>3
  <2>2. QED
    BY <2>1 DEF ValuesOf, ValuesFor
<1>12. QED
  BY <1>1, <1>2, <1>3, <1>10, <1>11

-----------------------------------------------------------------------------

(* Errors and calls.                                                       *)

LEMMA RuntimeErrorFine ==
  ASSUME NEW m, Fine(m), m.status = "running"
  PROVE  Fine(RuntimeError(m))
<1>1. PICK r : r = RuntimeError(m)
  OBVIOUS
<1>2. /\ r.stack = <<>> /\ r.frames = Front(m.frames) /\ r.globals = m.globals
      /\ r.classes = m.classes /\ r.methods = m.methods
      /\ r.instances = m.instances /\ r.bounds = m.bounds /\ r.status = "error"
      /\ Whole(r)
  BY <1>1 DEF Fine, Typed, RuntimeError, Whole
<1>3. /\ r.frames \in Seq([offset : Nat, callee : Callee]) /\ Len(r.frames) < FRAMES_MAX
  <2>1. PICK k \in Nat \ {0} : k = Len(m.frames)
    BY LiveFrame
  <2>2. /\ SubSeq(m.frames, 1, k - 1) \in Seq([offset : Nat, callee : Callee])
        /\ Len(SubSeq(m.frames, 1, k - 1)) = k - 1 /\ k < FRAMES_MAX
    <3>1. PICK S : S = [offset : Nat, callee : Callee]
      OBVIOUS
    <3>2. m.frames \in Seq(S) /\ k < FRAMES_MAX
      BY <2>1, <3>1 DEF Fine, Typed
    <3>3. k - 1 \in Nat /\ k - 1 <= Len(m.frames)
      BY <2>1
    <3>4. SubSeq(m.frames, 1, k - 1) \in Seq(S) /\ Len(SubSeq(m.frames, 1, k - 1)) = k - 1
      BY <3>2, <3>3, PrefixOf
    <3>5. QED
      BY <3>1, <3>2, <3>4
  <2>3. QED
    BY <1>2, <2>1, <2>2, ObjectsAssumption DEF Front
<1>4. Typed(r)
  BY <1>2, <1>3 DEF Fine, Typed, ValuesOf
<1>5. QED
  BY <1>1, <1>2, <1>4 DEF Fine, FramesFine

LEMMA AbortFine ==
  ASSUME NEW m, Fine(m)
  PROVE  Fine(Abort(m))
<1>1. PICK r : r = Abort(m)
  OBVIOUS
<1>2. /\ r.stack = m.stack /\ r.frames = m.frames /\ r.globals = m.globals
      /\ r.classes = m.classes /\ r.methods = m.methods
      /\ r.instances = m.instances /\ r.bounds = m.bounds /\ r.status = "aborted"
      /\ Whole(r)
  BY <1>1 DEF Fine, Typed, Abort, Whole
<1>3. Typed(r)
  BY <1>2 DEF Fine, Typed, ValuesOf
<1>4. QED
  BY <1>1, <1>2, <1>3 DEF Fine, FramesFine

LEMMA UndefinedFine ==
  ASSUME NEW m, Fine(m)
  PROVE  Fine(Undefined(m))
<1>1. PICK r : r = Undefined(m)
  OBVIOUS
<1>2. /\ r.stack = m.stack /\ r.frames = m.frames /\ r.globals = m.globals
      /\ r.classes = m.classes /\ r.methods = m.methods
      /\ r.instances = m.instances /\ r.bounds = m.bounds /\ r.status = "undefined"
      /\ Whole(r)
  BY <1>1 DEF Fine, Typed, Undefined, Whole
<1>3. Typed(r)
  BY <1>2 DEF Fine, Typed, ValuesOf
<1>4. QED
  BY <1>1, <1>2, <1>3 DEF Fine, FramesFine

LEMMA CallClosureFine ==
  ASSUME NEW m, Fine(m), m.status = "running", NEW n \in Nat, Has(m, n + 1),
         NEW callee \in Callee, NEW arity,
         callee[1] = "method" => Peek(m, n)[1] = "instance"
  PROVE  Fine(CallClosure(m, callee, arity, n))
<1>1. CASE n # arity \/ Len(m.frames) + 1 = FRAMES_MAX
  BY <1>1, RuntimeErrorFine DEF CallClosure
<1>2. CASE ~ (n # arity \/ Len(m.frames) + 1 = FRAMES_MAX)
  <2>1. PICK r, top : /\ r = CallClosure(m, callee, arity, n)
                      /\ top = [offset |-> Top(m) - n, callee |-> callee]
    OBVIOUS
  <2>2. /\ r.stack = m.stack /\ r.frames = Append(m.frames, top) /\ r.globals = m.globals
        /\ r.classes = m.classes /\ r.methods = m.methods
        /\ r.instances = m.instances /\ r.bounds = m.bounds /\ r.status = m.status
        /\ Whole(r)
    BY <1>2, <2>1 DEF Fine, Typed, CallClosure, Whole
  <2>3. PICK k \in Nat \ {0} : k = Len(m.frames)
    BY LiveFrame
  <2>4. /\ Top(m) \in Nat /\ Base(m) \in 1 .. Top(m) /\ Top(m) - (n + 1) >= Base(m)
    BY LiveFrame DEF Has
  <2>5. /\ Top(m) - n \in Base(m) + 1 .. Top(m)
    BY <2>4
  <2>6. top \in [offset : Nat, callee : Callee] /\ top.offset = Top(m) - n
    BY <2>1, <2>4, <2>5
  <2>7. /\ r.frames \in Seq([offset : Nat, callee : Callee]) /\ Len(r.frames) = k + 1
        /\ r.frames[k + 1] = top
        /\ \A f \in 1 .. k : r.frames[f] = m.frames[f]
    <3>1. PICK S : S = [offset : Nat, callee : Callee]
      OBVIOUS
    <3>2. m.frames \in Seq(S) /\ top \in S
      BY <2>6, <3>1 DEF Fine, Typed
    <3>3. /\ Append(m.frames, top) \in Seq(S)
          /\ Len(Append(m.frames, top)) = Len(m.frames) + 1
          /\ Append(m.frames, top)[Len(m.frames) + 1] = top
          /\ \A f \in 1 .. Len(m.frames) : Append(m.frames, top)[f] = m.frames[f]
      BY <3>2, AppendProperties
    <3>4. QED
      BY <2>2, <2>3, <3>1, <3>3
  <2>8. k + 1 < FRAMES_MAX
    BY <1>2, <2>3, ObjectsAssumption DEF Fine, Typed
  <2>9. Typed(r)
    BY <2>2, <2>7, <2>8 DEF Fine, Typed, ValuesOf
  <2>10. \A f \in 1 .. k : /\ m.frames[f].offset \in 1 .. Base(m)
                           /\ m.frames[f].offset < top.offset
                           /\ m.frames[f].offset \in 1 .. Top(m)
    <3>1. \A f \in 1 .. k : m.frames[f].offset \in 1 .. Base(m)
      BY <2>3, LiveFrame
    <3>2. QED
      BY <2>4, <2>5, <2>6, <3>1
  <2>11. \A f \in 1 .. k + 1 : f \in 1 .. k \/ f = k + 1
    BY <2>3
  <2>12. top.offset \in 1 .. Len(r.stack)
    BY <2>2, <2>4, <2>5, <2>6 DEF Top
  <2>13. \A f \in 1 .. k + 1 : r.frames[f].offset \in 1 .. Len(r.stack)
    BY <2>2, <2>7, <2>10, <2>11, <2>12 DEF Top
  <2>14. ASSUME NEW f \in 1 .. k + 1, NEW g \in 1 .. k + 1, f < g
         PROVE  r.frames[f].offset < r.frames[g].offset
    <3>1. CASE g \in 1 .. k
      <4>1. f \in 1 .. k
        BY <2>14, <3>1
      <4>2. m.frames[f].offset < m.frames[g].offset
        BY <2>3, <2>14, <3>1, <4>1 DEF Fine, FramesFine
      <4>3. QED
        BY <2>7, <3>1, <4>1, <4>2
    <3>2. CASE g = k + 1
      <4>1. f \in 1 .. k
        BY <2>14, <3>2
      <4>2. QED
        BY <2>7, <2>10, <3>2, <4>1
    <3>3. QED
      BY <2>11, <3>1, <3>2
  <2>15. ASSUME NEW f \in 1 .. k + 1, r.frames[f].callee[1] = "method"
         PROVE  r.stack[r.frames[f].offset][1] = "instance"
    <3>1. CASE f \in 1 .. k
      BY <2>2, <2>3, <2>7, <2>15, <3>1 DEF Fine, FramesFine
    <3>2. CASE f = k + 1
      BY <2>1, <2>2, <2>6, <2>7, <2>15, <3>2 DEF Peek
    <3>3. QED
      BY <2>11, <3>1, <3>2
  <2>16. r.frames # <<>>
    BY <2>3, <2>7
  <2>17. FramesFine(r)
    BY <2>7, <2>13, <2>14, <2>15, <2>16 DEF FramesFine
  <2>18. QED
    BY <2>1, <2>9, <2>17 DEF Fine
<1>3. QED
  BY <1>1, <1>2

(* The slot of the callee gets a value that the call is made with.         *)
LEMMA CalleeSlot ==
  ASSUME NEW m, Fine(m), m.status = "running", NEW n \in Nat, Has(m, n + 1),
         NEW v \in ValuesOf(m)
  PROVE  LET r == SetSlot(m, Top(m) - n, v)
         IN  /\ Fine(r) /\ r.status = "running" /\ Has(r, n + 1) /\ Peek(r, n) = v
             /\ Top(r) = Top(m) /\ ValuesOf(r) = ValuesOf(m)
             /\ r.classes = m.classes /\ r.methods = m.methods
             /\ r.instances = m.instances /\ r.bounds = m.bounds
<1>1. PICK r, s : r = SetSlot(m, s, v) /\ s = Top(m) - n
  OBVIOUS
<1>2. /\ Top(m) \in Nat /\ Base(m) \in 1 .. Top(m) /\ Top(m) - (n + 1) >= Base(m)
  BY LiveFrame DEF Has
<1>3. s \in Base(m) + 1 .. Top(m)
  BY <1>1, <1>2
<1>4. Fine(r)
  BY <1>1, <1>3, SetSlotFine
<1>5. /\ r.stack = [m.stack EXCEPT ![s] = v] /\ r.frames = m.frames /\ r.status = m.status
      /\ r.classes = m.classes /\ r.methods = m.methods
      /\ r.instances = m.instances /\ r.bounds = m.bounds
  BY <1>1 DEF SetSlot, Fine, Typed, Whole
<1>6. Len(r.stack) = Len(m.stack) /\ r.stack[s] = v
  <2>1. m.stack \in Seq(ValuesOf(m)) /\ s \in 1 .. Len(m.stack)
    BY <1>2, <1>3 DEF Fine, Typed, Top
  <2>2. QED
    BY <1>5, <2>1
<1>7. Top(r) = Top(m) /\ Base(r) = Base(m)
  BY <1>5, <1>6 DEF Top, Base
<1>8. Has(r, n + 1) /\ Peek(r, n) = v
  BY <1>1, <1>6, <1>7 DEF Has, Peek
<1>9. ValuesOf(r) = ValuesOf(m)
  BY <1>5 DEF ValuesOf
<1>10. QED
  BY <1>1, <1>4, <1>5, <1>7, <1>8, <1>9

LEMMA CallMethodFine ==
  ASSUME NEW m, Fine(m), m.status = "running", NEW n \in Nat, Has(m, n + 1),
         NEW method \in 1 .. Len(m.methods), Peek(m, n)[1] = "instance"
  PROVE  Fine(CallMethod(m, method, n))
<1>1. <<"method", method>> \in Callee
  BY DEF Callee
<1>2. QED
  BY <1>1, CallClosureFine DEF CallMethod

(* What the tag of a value says about it.                                  *)
LEMMA Tags ==
  ASSUME NEW m, NEW v \in ValuesOf(m)
  PROVE  /\ IsA(v, "class") => v[2] \in 1 .. Len(m.classes)
         /\ IsA(v, "instance") => v[2] \in 1 .. Len(m.instances)
         /\ IsA(v, "bound") => v[2] \in 1 .. Len(m.bounds)
         /\ IsA(v, "function") => v \in Callee
  BY ObjectsAssumption DEF ValuesOf, ValuesFor, IsA, AtHand, Nil, Native, FunctionOf, Class, Instance,
     Bound, Callee

LEMMA PeekTyped ==
  ASSUME NEW m, Fine(m), m.status = "running", NEW n \in Nat, Has(m, n + 1)
  PROVE  Peek(m, n) \in ValuesOf(m)
<1>1. /\ Top(m) \in Nat /\ Base(m) \in 1 .. Top(m) /\ Top(m) - (n + 1) >= Base(m)
  BY LiveFrame DEF Has
<1>2. Top(m) - n \in 1 .. Top(m)
  BY <1>1
<1>3. \A s \in 1 .. Top(m) : m.stack[s] \in ValuesOf(m)
  BY LiveFrame
<1>4. QED
  BY <1>2, <1>3 DEF Peek

(* What the parts of a class, an instance and a bound method refer to.     *)
LEMMA ClassMethod ==
  ASSUME NEW m, Fine(m), NEW k \in 1 .. Len(m.classes), NEW name \in DOMAIN m.classes[k]
  PROVE  m.classes[k][name] \in 1 .. Len(m.methods)
<1>1. m.classes[k] \in Maps(Name, 1 .. Len(m.methods))
  BY DEF Fine, Typed
<1>2. QED
  BY <1>1, MapValue

LEMMA InstanceParts ==
  ASSUME NEW m, Fine(m), NEW i \in 1 .. Len(m.instances)
  PROVE  /\ m.instances[i].klass \in 1 .. Len(m.classes)
         /\ m.instances[i].fields \in Maps(Name, ValuesOf(m))
         /\ \A name \in DOMAIN m.instances[i].fields :
              m.instances[i].fields[name] \in ValuesOf(m)
<1>1. m.instances[i] \in [klass : 1 .. Len(m.classes), fields : Maps(Name, ValuesOf(m))]
  <2>1. PICK S : S = [klass : 1 .. Len(m.classes), fields : Maps(Name, ValuesOf(m))]
    OBVIOUS
  <2>2. m.instances \in Seq(S)
    BY <2>1 DEF Fine, Typed
  <2>3. m.instances[i] \in S
    BY <2>2
  <2>4. QED
    BY <2>1, <2>3
<1>2. QED
  BY <1>1, MapValue

LEMMA BoundParts ==
  ASSUME NEW m, Fine(m), NEW b \in 1 .. Len(m.bounds)
  PROVE  /\ m.bounds[b].self \in ValuesOf(m) /\ m.bounds[b].self[1] = "instance"
         /\ m.bounds[b].method \in 1 .. Len(m.methods)
<1>1. m.bounds[b] \in [self : {Instance(i) : i \in 1 .. Len(m.instances)},
                       method : 1 .. Len(m.methods)]
  <2>1. PICK S : S = [self : {Instance(i) : i \in 1 .. Len(m.instances)},
                      method : 1 .. Len(m.methods)]
    OBVIOUS
  <2>2. m.bounds \in Seq(S)
    BY <2>1 DEF Fine, Typed
  <2>3. m.bounds[b] \in S
    BY <2>2
  <2>4. QED
    BY <2>1, <2>3
<1>2. PICK i \in 1 .. Len(m.instances) : m.bounds[b].self = Instance(i)
  BY <1>1
<1>3. QED
  BY <1>1, <1>2 DEF Instance, ValuesOf, ValuesFor

LEMMA ConstructFine ==
  ASSUME NEW m, Fine(m), m.status = "running", NEW n \in Nat, Has(m, n + 1),
         NEW k \in 1 .. Len(m.classes)
  PROVE  Fine(Construct(m, k, n))
<1>1. PICK made : made = [m EXCEPT !.instances = Append(@, [klass |-> k, fields |-> Empty])]
  OBVIOUS
<1>2. PICK v : v = Instance(Len(made.instances))
  OBVIOUS
<1>3. /\ Fine(made) /\ v \in ValuesOf(made) /\ made.classes = m.classes
      /\ made.stack = m.stack /\ made.frames = m.frames /\ made.status = "running"
      /\ made.methods = m.methods
  BY <1>1, <1>2, NewInstanceFine
<1>4. Top(made) = Top(m) /\ Has(made, n + 1)
  BY <1>3 DEF Top, Has, Base
<1>5. PICK new : new = SetSlot(made, Top(made) - n, v)
  OBVIOUS
<1>6. /\ Fine(new) /\ new.status = "running" /\ Has(new, n + 1) /\ Peek(new, n) = v
      /\ new.methods = m.methods
  BY <1>3, <1>4, <1>5, CalleeSlot
<1>7. Construct(m, k, n) =
        IF Constructor \in DOMAIN m.classes[k]
          THEN CallMethod(new, m.classes[k][Constructor], n)
        ELSE IF n # 0 THEN RuntimeError(m)
        ELSE new
  BY <1>1, <1>2, <1>4, <1>5 DEF Construct
<1>8. CASE Constructor \in DOMAIN m.classes[k]
  <2>1. m.classes[k][Constructor] \in 1 .. Len(new.methods)
    BY <1>6, <1>8, ClassMethod
  <2>2. Peek(new, n)[1] = "instance"
    BY <1>2, <1>6 DEF Instance
  <2>3. Fine(CallMethod(new, m.classes[k][Constructor], n))
    BY <1>6, <2>1, <2>2, CallMethodFine
  <2>4. QED
    BY <1>7, <1>8, <2>3
<1>9. QED
  BY <1>6, <1>7, <1>8, RuntimeErrorFine

LEMMA CallNativeFine ==
  ASSUME NEW m, Fine(m), m.status = "running", NEW n \in Nat, Has(m, n + 1), NEW v
  PROVE  Fine(CallNative(m, v, n))
<1>1. Nil \in ValuesOf(m)
  BY DEF ValuesOf, ValuesFor, AtHand
<1>2. CASE n = 0 /\ v # Sleep
  <2>1. PICK d : d = Drop(m, 1)
    OBVIOUS
  <2>2. Has(m, 1)
    BY <1>2
  <2>3. Fine(d)
    BY <2>1, <2>2, DropFine
  <2>4. d.status = "running" /\ ValuesOf(d) = ValuesOf(m)
    BY <2>1 DEF Drop, ValuesOf, Fine, Typed, Whole
  <2>5. Fine(Push(d, Nil))
    BY <1>1, <2>3, <2>4, PushFine
  <2>6. QED
    BY <1>2, <2>1, <2>5 DEF CallNative
<1>3. CASE n # 0
  BY <1>1, <1>3, PushFine DEF CallNative
<1>4. CASE n = 0 /\ v = Sleep
  BY <1>4, UndefinedFine DEF CallNative
<1>5. QED
  BY <1>2, <1>3, <1>4

LEMMA CallBoundFine ==
  ASSUME NEW m, Fine(m), m.status = "running", NEW n \in Nat, Has(m, n + 1),
         NEW b \in 1 .. Len(m.bounds)
  PROVE  Fine(CallBound(m, b, n))
<1>1. PICK r : r = SetSlot(m, Top(m) - n, m.bounds[b].self)
  OBVIOUS
<1>2. /\ m.bounds[b].self \in ValuesOf(m) /\ m.bounds[b].self[1] = "instance"
      /\ m.bounds[b].method \in 1 .. Len(m.methods)
  BY BoundParts
<1>3. /\ Fine(r) /\ r.status = "running" /\ Has(r, n + 1)
      /\ Peek(r, n) = m.bounds[b].self /\ r.methods = m.methods
  BY <1>1, <1>2, CalleeSlot
<1>4. QED
  BY <1>1, <1>2, <1>3, CallMethodFine DEF CallBound

LEMMA CallValueFine ==
  ASSUME NEW m, Fine(m), m.status = "running", NEW n \in Nat, Has(m, n + 1),
         NEW v \in ValuesOf(m)
  PROVE  Fine(CallValue(m, v, n))
<1>1. CASE IsA(v, "function")
  <2>1. v \in Callee /\ v[1] # "method"
    BY <1>1, Tags DEF IsA
  <2>2. CallValue(m, v, n) = CallClosure(m, v, v[2], n)
    BY <1>1 DEF CallValue, IsA
  <2>3. QED
    BY <2>1, <2>2, CallClosureFine
<1>2. CASE IsA(v, "class")
  <2>1. CallValue(m, v, n) = Construct(m, v[2], n)
    BY <1>2 DEF CallValue, IsA
  <2>2. QED
    BY <1>2, <2>1, Tags, ConstructFine
<1>3. CASE IsA(v, "bound")
  <2>1. CallValue(m, v, n) = CallBound(m, v[2], n)
    BY <1>3 DEF CallValue, IsA
  <2>2. QED
    BY <1>3, <2>1, Tags, CallBoundFine
<1>4. CASE IsA(v, "native")
  <2>1. CallValue(m, v, n) = CallNative(m, v, n)
    BY <1>4 DEF CallValue, IsA
  <2>2. QED
    BY <2>1, CallNativeFine
<1>5. CASE ~ (\/ IsA(v, "function") \/ IsA(v, "class")
              \/ IsA(v, "bound") \/ IsA(v, "native"))
  <2>1. CallValue(m, v, n) = RuntimeError(m)
    BY <1>5 DEF CallValue
  <2>2. QED
    BY <2>1, RuntimeErrorFine
<1>6. QED
  BY <1>1, <1>2, <1>3, <1>4, <1>5

LEMMA InvokeFromClassFine ==
  ASSUME NEW m, Fine(m), m.status = "running", NEW n \in Nat, Has(m, n + 1),
         NEW k \in 1 .. Len(m.classes), Peek(m, n)[1] = "instance", NEW name
  PROVE  Fine(InvokeFromClass(m, k, name, n))
<1>1. CASE name \in DOMAIN m.classes[k]
  BY <1>1, ClassMethod, CallMethodFine DEF InvokeFromClass
<1>2. CASE name \notin DOMAIN m.classes[k]
  BY <1>2, RuntimeErrorFine DEF InvokeFromClass
<1>3. QED
  BY <1>1, <1>2

LEMMA InvokeFine ==
  ASSUME NEW m, Fine(m), m.status = "running", NEW n \in Nat, Has(m, n + 1), NEW name
  PROVE  Fine(Invoke(m, name, n))
<1>1. PICK receiver, i : receiver = Peek(m, n) /\ i = receiver[2]
  OBVIOUS
<1>2. CASE ~ IsA(receiver, "instance")
  BY <1>1, <1>2, RuntimeErrorFine DEF Invoke
<1>3. CASE IsA(receiver, "instance")
  <2>1. i \in 1 .. Len(m.instances)
    BY <1>1, <1>3, PeekTyped, Tags
  <2>2. CASE name \in DOMAIN m.instances[i].fields
    <3>1. PICK v, r : v = m.instances[i].fields[name] /\ r = SetSlot(m, Top(m) - n, v)
      OBVIOUS
    <3>2. v \in ValuesOf(m)
      BY <2>1, <2>2, <3>1, InstanceParts
    <3>3. Fine(r) /\ r.status = "running" /\ Has(r, n + 1) /\ ValuesOf(r) = ValuesOf(m)
      BY <3>1, <3>2, CalleeSlot
    <3>4. Fine(CallValue(r, v, n))
      BY <3>2, <3>3, CallValueFine
    <3>5. QED
      BY <1>1, <1>3, <2>2, <3>1, <3>4 DEF Invoke
  <2>3. CASE name \notin DOMAIN m.instances[i].fields
    <3>1. m.instances[i].klass \in 1 .. Len(m.classes)
      BY <2>1, InstanceParts
    <3>2. Fine(InvokeFromClass(m, m.instances[i].klass, name, n))
      BY <1>1, <1>3, <3>1, InvokeFromClassFine DEF IsA
    <3>3. QED
      BY <1>1, <1>3, <2>3, <3>2 DEF Invoke
  <2>4. QED
    BY <2>2, <2>3
<1>4. QED
  BY <1>2, <1>3

-----------------------------------------------------------------------------

(* Properties and super.                                                   *)

LEMMA NewBoundFine ==
  ASSUME NEW m, Fine(m), NEW i \in 1 .. Len(m.instances), NEW method \in 1 .. Len(m.methods)
  PROVE  LET bound == [self |-> Instance(i), method |-> method]
             made  == [m EXCEPT !.bounds = Append(@, bound)]
         IN  /\ Fine(made) /\ Bound(Len(m.bounds) + 1) \in ValuesOf(made)
             /\ made.stack = m.stack /\ made.frames = m.frames /\ made.status = m.status
<1>1. PICK r, new : /\ new = [self |-> Instance(i), method |-> method]
                    /\ r = [m EXCEPT !.bounds = Append(m.bounds, new)]
  OBVIOUS
<1>2. /\ r.bounds = Append(m.bounds, new)
      /\ r.stack = m.stack /\ r.frames = m.frames /\ r.globals = m.globals
      /\ r.classes = m.classes /\ r.methods = m.methods
      /\ r.instances = m.instances /\ r.status = m.status
      /\ Whole(r)
  BY <1>1 DEF Fine, Typed, Whole
<1>3. PICK S : S = [self : {Instance(x) : x \in 1 .. Len(r.instances)},
                    method : 1 .. Len(r.methods)]
  OBVIOUS
<1>4. m.bounds \in Seq(S) /\ new \in S
  BY <1>1, <1>2, <1>3 DEF Fine, Typed
<1>5. r.bounds \in Seq(S) /\ Len(r.bounds) = Len(m.bounds) + 1 /\ Len(m.bounds) \in Nat
  BY <1>2, <1>4, AppendProperties
<1>6. Sizes(r) /\ NoSmaller(m, r)
  BY <1>2, <1>5, TypedSizes DEF Fine, Sizes, NoSmaller
<1>7. /\ r.stack \in Seq(ValuesOf(r)) /\ r.globals \in Maps(Global, ValuesOf(r))
      /\ r.classes \in Seq(Maps(Name, 1 .. Len(r.methods)))
      /\ r.instances \in Seq([klass : 1 .. Len(r.classes), fields : Maps(Name, ValuesOf(r))])
  BY <1>2, <1>6, StillTyped DEF Fine
<1>8. Typed(r)
  BY <1>2, <1>3, <1>5, <1>7 DEF Fine, Typed
<1>9. Fine(r)
  BY <1>2, <1>8, SameFrames
<1>10. Bound(Len(m.bounds) + 1) \in ValuesOf(r)
  <2>1. Len(m.bounds) + 1 \in 1 .. Len(r.bounds)
    BY <1>5
  <2>2. QED
    BY <2>1 DEF ValuesOf, ValuesFor
<1>11. QED
  BY <1>1, <1>2, <1>9, <1>10

(* popAndPush and popTwoAndPush.                                           *)
LEMMA ReplaceFine ==
  ASSUME NEW m, Fine(m), m.status = "running", NEW n \in Nat, Has(m, n), NEW v \in ValuesOf(m)
  PROVE  Fine(Replace(m, n, v))
<1>1. PICK d : d = Drop(m, n)
  OBVIOUS
<1>2. Fine(d)
  BY <1>1, DropFine
<1>3. d.status = "running" /\ ValuesOf(d) = ValuesOf(m)
  BY <1>1 DEF Drop, ValuesOf, Fine, Typed, Whole
<1>4. Fine(Push(d, v))
  BY <1>2, <1>3, PushFine
<1>5. QED
  BY <1>1, <1>4 DEF Replace

LEMMA BindMethodFine ==
  ASSUME NEW m, Fine(m), m.status = "running", Has(m, 1),
         NEW k \in 1 .. Len(m.classes), NEW name
  PROVE  Fine(BindMethod(m, k, name))
<1>1. CASE name \notin DOMAIN m.classes[k]
  BY <1>1, RuntimeErrorFine DEF BindMethod
<1>2. CASE name \in DOMAIN m.classes[k] /\ ~ IsA(Peek(m, 0), "instance")
  BY <1>2, AbortFine DEF BindMethod
<1>3. CASE name \in DOMAIN m.classes[k] /\ IsA(Peek(m, 0), "instance")
  <2>1. Peek(m, 0) \in ValuesOf(m)
    <3>1. 0 \in Nat /\ Has(m, 0 + 1)
      OBVIOUS
    <3>2. QED
      BY <3>1, PeekTyped
  <2>2. PICK i \in 1 .. Len(m.instances) : Peek(m, 0) = Instance(i)
    BY <1>3, <2>1 DEF ValuesOf, ValuesFor, IsA, AtHand, Nil, Native, FunctionOf, Class, Instance, Bound
  <2>3. PICK method \in 1 .. Len(m.methods) : method = m.classes[k][name]
    BY <1>3, ClassMethod
  <2>4. PICK bound, r : /\ bound = [self |-> Instance(i), method |-> method]
                        /\ r = [m EXCEPT !.bounds = Append(@, bound)]
    OBVIOUS
  <2>5. /\ Fine(r) /\ Bound(Len(m.bounds) + 1) \in ValuesOf(r)
        /\ r.stack = m.stack /\ r.frames = m.frames /\ r.status = m.status
    BY <2>4, NewBoundFine
  <2>6. Has(r, 1)
    BY <2>5 DEF Has, Top, Base
  <2>7. Fine(Replace(r, 1, Bound(Len(m.bounds) + 1)))
    BY <2>5, <2>6, ReplaceFine
  <2>8. BindMethod(m, k, name) = Replace(r, 1, Bound(Len(m.bounds) + 1))
    BY <1>3, <2>2, <2>3, <2>4 DEF BindMethod
  <2>9. QED
    BY <2>7, <2>8
<1>4. QED
  BY <1>1, <1>2, <1>3

LEMMA GetPropertyFine ==
  ASSUME NEW m, Fine(m), m.status = "running", Has(m, 1), NEW name
  PROVE  Fine(GetProperty(m, name))
<1>1. PICK receiver, i : receiver = Peek(m, 0) /\ i = receiver[2]
  OBVIOUS
<1>2. CASE ~ IsA(receiver, "instance")
  BY <1>1, <1>2, RuntimeErrorFine DEF GetProperty
<1>3. CASE IsA(receiver, "instance")
  <2>1. i \in 1 .. Len(m.instances)
    <3>1. 0 \in Nat /\ Has(m, 0 + 1)
      OBVIOUS
    <3>2. receiver \in ValuesOf(m)
      BY <1>1, <3>1, PeekTyped
    <3>3. QED
      BY <1>1, <1>3, <3>2, Tags
  <2>2. CASE name \in DOMAIN m.instances[i].fields
    <3>1. m.instances[i].fields[name] \in ValuesOf(m)
      BY <2>1, <2>2, InstanceParts
    <3>2. Fine(Replace(m, 1, m.instances[i].fields[name]))
      BY <3>1, ReplaceFine
    <3>3. QED
      BY <1>1, <1>3, <2>2, <3>2 DEF GetProperty
  <2>3. CASE name \notin DOMAIN m.instances[i].fields
    <3>1. Fine(BindMethod(m, m.instances[i].klass, name))
      BY <2>1, InstanceParts, BindMethodFine
    <3>2. QED
      BY <1>1, <1>3, <2>3, <3>1 DEF GetProperty
  <2>4. QED
    BY <2>2, <2>3
<1>4. QED
  BY <1>2, <1>3

LEMMA SetPropertyFine ==
  ASSUME NEW m, Fine(m), m.status = "running", Has(m, 2), NEW name \in Name
  PROVE  Fine(SetProperty(m, name))
<1>1. PICK i, v : i = Peek(m, 1)[2] /\ v = Peek(m, 0)
  OBVIOUS
<1>2. CASE ~ IsA(Peek(m, 1), "instance")
  BY <1>2, RuntimeErrorFine DEF SetProperty
<1>3. CASE IsA(Peek(m, 1), "instance")
  <2>1. Peek(m, 1) \in ValuesOf(m) /\ v \in ValuesOf(m)
    <3>1. Has(m, 1 + 1) /\ Has(m, 0 + 1)
      BY LiveFrame DEF Has
    <3>2. QED
      BY <1>1, <3>1, PeekTyped
  <2>2. i \in 1 .. Len(m.instances)
    BY <1>1, <1>3, <2>1, Tags
  <2>3. PICK old, new :
          /\ old = m.instances[i]
          /\ new = [old EXCEPT !.fields = Insert(old.fields, name, v)]
    OBVIOUS
  <2>4. PICK r : r = [m EXCEPT !.instances = [m.instances EXCEPT ![i] = new]]
    OBVIOUS
  <2>5. r = [m EXCEPT !.instances[i].fields = Insert(@, name, v)]
    BY <2>3, <2>4
  <2>6. /\ r.instances = [m.instances EXCEPT ![i] = new]
        /\ r.stack = m.stack /\ r.frames = m.frames /\ r.globals = m.globals
        /\ r.classes = m.classes /\ r.methods = m.methods
        /\ r.bounds = m.bounds /\ r.status = m.status
        /\ Whole(r)
    BY <2>4 DEF Fine, Typed, Whole
  <2>7. PICK S : S = [klass : 1 .. Len(m.classes), fields : Maps(Name, ValuesOf(m))]
    OBVIOUS
  <2>8. m.instances \in Seq(S) /\ old \in S
    <3>1. m.instances \in Seq(S)
      BY <2>7 DEF Fine, Typed
    <3>2. QED
      BY <2>2, <2>3, <3>1
  <2>9. new \in S
    <3>1. Insert(old.fields, name, v) \in Maps(Name, ValuesOf(m))
      BY <2>1, <2>7, <2>8, InsertTyped
    <3>2. QED
      BY <2>3, <2>7, <2>8, <3>1
  <2>10. r.instances \in Seq(S) /\ Len(r.instances) = Len(m.instances)
    BY <2>2, <2>6, <2>8, <2>9
  <2>11. ValuesOf(r) = ValuesOf(m)
    BY <2>6, <2>10 DEF ValuesOf
  <2>12. Typed(r)
    BY <2>6, <2>7, <2>10, <2>11 DEF Fine, Typed
  <2>13. Fine(r) /\ r.status = "running" /\ Has(r, 2)
    BY <2>6, <2>12, SameFrames DEF Has, Top, Base
  <2>14. Fine(Replace(r, 2, v))
    BY <2>1, <2>11, <2>13, ReplaceFine
  <2>15. QED
    BY <1>1, <1>3, <2>5, <2>14 DEF SetProperty
<1>4. QED
  BY <1>2, <1>3

(* What is left after the topmost operand is dropped.                      *)
LEMMA DropOne ==
  ASSUME NEW m, Fine(m), m.status = "running", NEW n \in Nat, Has(m, n + 2)
  PROVE  LET d == Drop(m, 1)
         IN  /\ Fine(d) /\ d.status = "running" /\ Has(d, n + 1)
             /\ Peek(d, n) = Peek(m, n + 1)
             /\ d.classes = m.classes /\ d.methods = m.methods
<1>1. PICK d : d = Drop(m, 1)
  OBVIOUS
<1>2. /\ Top(m) \in Nat /\ Base(m) \in 1 .. Top(m) /\ Top(m) - (n + 2) >= Base(m)
  BY LiveFrame DEF Has
<1>3. Has(m, 1)
  BY <1>2 DEF Has
<1>4. /\ Fine(d) /\ Top(d) = Top(m) - 1
      /\ \A s \in 1 .. Top(m) - 1 : d.stack[s] = m.stack[s]
  BY <1>1, <1>3, DropFine
<1>5. /\ d.frames = m.frames /\ d.status = "running"
      /\ d.classes = m.classes /\ d.methods = m.methods
  BY <1>1 DEF Drop, Fine, Typed, Whole
<1>6. Base(d) = Base(m)
  BY <1>5 DEF Base
<1>7. Has(d, n + 1)
  BY <1>2, <1>4, <1>6 DEF Has
<1>8. Peek(d, n) = Peek(m, n + 1)
  <2>1. Top(d) - n = Top(m) - (n + 1) /\ Top(d) - n \in 1 .. Top(m) - 1
    BY <1>2, <1>4
  <2>2. QED
    BY <1>4, <2>1 DEF Peek
<1>9. QED
  BY <1>1, <1>4, <1>5, <1>7, <1>8

LEMMA GetSuperFine ==
  ASSUME NEW m, Fine(m), m.status = "running", Has(m, 2), NEW name
  PROVE  Fine(GetSuper(m, name))
<1>1. CASE ~ IsA(Peek(m, 0), "class")
  BY <1>1, AbortFine DEF GetSuper
<1>2. CASE IsA(Peek(m, 0), "class")
  <2>1. PICK d : d = Drop(m, 1)
    OBVIOUS
  <2>2. 0 \in Nat /\ Has(m, 0 + 2) /\ Has(m, 0 + 1)
    BY LiveFrame DEF Has
  <2>3. Fine(d) /\ d.status = "running" /\ Has(d, 1) /\ d.classes = m.classes
    BY <2>1, <2>2, DropOne
  <2>4. Peek(m, 0)[2] \in 1 .. Len(d.classes)
    BY <1>2, <2>2, <2>3, PeekTyped, Tags
  <2>5. QED
    BY <1>2, <2>1, <2>3, <2>4, BindMethodFine DEF GetSuper
<1>3. QED
  BY <1>1, <1>2

LEMMA SuperInvokeFine ==
  ASSUME NEW m, Fine(m), m.status = "running", NEW n \in Nat, Has(m, n + 2),
         Peek(m, n + 1)[1] = "instance", NEW name
  PROVE  Fine(SuperInvoke(m, name, n))
<1>1. CASE ~ IsA(Peek(m, 0), "class")
  BY <1>1, AbortFine DEF SuperInvoke
<1>2. CASE IsA(Peek(m, 0), "class")
  <2>1. PICK d : d = Drop(m, 1)
    OBVIOUS
  <2>2. /\ Fine(d) /\ d.status = "running" /\ Has(d, n + 1) /\ d.classes = m.classes
        /\ Peek(d, n)[1] = "instance"
    BY <2>1, DropOne
  <2>3. 0 \in Nat /\ Has(m, 0 + 1)
    BY LiveFrame DEF Has
  <2>4. Peek(m, 0)[2] \in 1 .. Len(d.classes)
    BY <1>2, <2>2, <2>3, PeekTyped, Tags
  <2>5. Fine(InvokeFromClass(d, Peek(m, 0)[2], name, n))
    BY <2>2, <2>4, InvokeFromClassFine
  <2>6. QED
    BY <1>2, <2>1, <2>5 DEF SuperInvoke
<1>3. QED
  BY <1>1, <1>2

-----------------------------------------------------------------------------

(* Classes and globals.                                                    *)

LEMMA NewClassFine ==
  ASSUME NEW m, Fine(m), m.status = "running"
  PROVE  Fine(NewClass(m))
<1>1. PICK r : r = [m EXCEPT !.classes = Append(@, Empty)]
  OBVIOUS
<1>2. /\ r.classes = Append(m.classes, Empty)
      /\ r.stack = m.stack /\ r.frames = m.frames /\ r.globals = m.globals
      /\ r.methods = m.methods /\ r.instances = m.instances
      /\ r.bounds = m.bounds /\ r.status = m.status
      /\ Whole(r)
  BY <1>1 DEF Fine, Typed, Whole
<1>3. PICK S : S = Maps(Name, 1 .. Len(r.methods))
  OBVIOUS
<1>4. m.classes \in Seq(S) /\ Empty \in S
  BY <1>2, <1>3, EmptyTyped DEF Fine, Typed
<1>5. r.classes \in Seq(S) /\ Len(r.classes) = Len(m.classes) + 1 /\ Len(m.classes) \in Nat
  BY <1>2, <1>4, AppendProperties
<1>6. Sizes(r) /\ NoSmaller(m, r)
  BY <1>2, <1>5, TypedSizes DEF Fine, Sizes, NoSmaller
<1>7. /\ r.stack \in Seq(ValuesOf(r)) /\ r.globals \in Maps(Global, ValuesOf(r))
      /\ r.instances \in Seq([klass : 1 .. Len(r.classes), fields : Maps(Name, ValuesOf(r))])
      /\ r.bounds \in Seq([self : {Instance(i) : i \in 1 .. Len(r.instances)},
                           method : 1 .. Len(r.methods)])
  BY <1>2, <1>6, StillTyped DEF Fine
<1>8. Typed(r)
  BY <1>2, <1>3, <1>5, <1>7 DEF Fine, Typed
<1>9. Fine(r)
  BY <1>2, <1>8, SameFrames
<1>10. Class(Len(m.classes) + 1) \in ValuesOf(r)
  <2>1. Len(m.classes) + 1 \in 1 .. Len(r.classes)
    BY <1>5
  <2>2. QED
    BY <2>1 DEF ValuesOf, ValuesFor
<1>11. QED
  BY <1>1, <1>2, <1>9, <1>10, PushFine DEF NewClass

(* A class changes and keeps its place; there may be more methods.         *)
LEMMA ChangeClass ==
  ASSUME NEW m, Fine(m), NEW methods \in Seq(Nat), Len(m.methods) <= Len(methods),
         NEW classes \in Seq(Maps(Name, 1 .. Len(methods))), Len(classes) = Len(m.classes),
         NEW r, r = [m EXCEPT !.methods = methods, !.classes = classes]
  PROVE  Fine(r) /\ r.status = m.status /\ r.stack = m.stack /\ r.frames = m.frames
<1>1. /\ r.classes = classes /\ r.methods = methods
      /\ r.stack = m.stack /\ r.frames = m.frames /\ r.globals = m.globals
      /\ r.instances = m.instances /\ r.bounds = m.bounds /\ r.status = m.status
      /\ Whole(r)
  BY DEF Fine, Typed, Whole
<1>2. Len(classes) \in Nat /\ Len(methods) \in Nat
  OBVIOUS
<1>3. Sizes(r) /\ NoSmaller(m, r)
  BY <1>1, <1>2, TypedSizes DEF Fine, Sizes, NoSmaller
<1>4. /\ r.stack \in Seq(ValuesOf(r)) /\ r.globals \in Maps(Global, ValuesOf(r))
      /\ r.instances \in Seq([klass : 1 .. Len(r.classes), fields : Maps(Name, ValuesOf(r))])
      /\ r.bounds \in Seq([self : {Instance(i) : i \in 1 .. Len(r.instances)},
                           method : 1 .. Len(r.methods)])
  BY <1>1, <1>3, StillTyped DEF Fine
<1>5. Typed(r)
  BY <1>1, <1>4 DEF Fine, Typed
<1>6. Fine(r)
  BY <1>1, <1>5, SameFrames
<1>7. QED
  BY <1>1, <1>6

(* The classes after class k has got the methods klass.                    *)
LEMMA OtherClasses ==
  ASSUME NEW S, NEW T, S \subseteq T, NEW old \in Seq(Maps(Name, S)),
         NEW k \in 1 .. Len(old), NEW klass \in Maps(Name, T)
  PROVE  /\ [old EXCEPT ![k] = klass] \in Seq(Maps(Name, T))
         /\ Len([old EXCEPT ![k] = klass]) = Len(old)
<1>1. PICK U : U = Maps(Name, T)
  OBVIOUS
<1>2. old \in Seq(U)
  BY <1>1, MapsGrow, SeqGrows
<1>3. [old EXCEPT ![k] = klass] \in Seq(U) /\ Len([old EXCEPT ![k] = klass]) = Len(old)
  BY <1>1, <1>2
<1>4. QED
  BY <1>1, <1>3

(* The class on top of the stack.                                          *)
LEMMA ClassOnTop ==
  ASSUME NEW m, Fine(m), m.status = "running", Has(m, 1), IsA(Peek(m, 0), "class")
  PROVE  Peek(m, 0)[2] \in 1 .. Len(m.classes)
<1>1. 0 \in Nat /\ Has(m, 0 + 1)
  OBVIOUS
<1>2. Peek(m, 0) \in ValuesOf(m)
  BY <1>1, PeekTyped
<1>3. QED
  BY <1>2, Tags

LEMMA MethodFine ==
  ASSUME NEW m, Fine(m), m.status = "running", Has(m, 1), IsA(Peek(m, 0), "class"),
         NEW name \in Name, NEW arity \in Nat
  PROVE  Fine(Method(m, name, arity))
<1>1. PICK k \in 1 .. Len(m.classes) : k = Peek(m, 0)[2]
  BY ClassOnTop
<1>2. PICK methods, klass, classes :
        /\ methods = Append(m.methods, arity)
        /\ klass = Insert(m.classes[k], name, Len(m.methods) + 1)
        /\ classes = [m.classes EXCEPT ![k] = klass]
  OBVIOUS
<1>3. m.methods \in Seq(Nat) /\ m.classes \in Seq(Maps(Name, 1 .. Len(m.methods)))
  BY DEF Fine, Typed
<1>4. /\ methods \in Seq(Nat) /\ Len(methods) = Len(m.methods) + 1 /\ Len(m.methods) \in Nat
      /\ Len(m.methods) <= Len(methods)
  BY <1>2, <1>3, AppendProperties
<1>5. 1 .. Len(m.methods) \subseteq 1 .. Len(methods) /\ Len(m.methods) + 1 \in 1 .. Len(methods)
  BY <1>4
<1>6. klass \in Maps(Name, 1 .. Len(methods))
  <2>1. m.classes[k] \in Maps(Name, 1 .. Len(m.methods))
    BY <1>3
  <2>2. m.classes[k] \in Maps(Name, 1 .. Len(methods))
    BY <1>5, <2>1, MapsGrow
  <2>3. QED
    BY <1>2, <1>5, <2>2, InsertTyped
<1>7. classes \in Seq(Maps(Name, 1 .. Len(methods))) /\ Len(classes) = Len(m.classes)
  BY <1>2, <1>3, <1>5, <1>6, OtherClasses
<1>8. PICK r : r = [m EXCEPT !.methods = methods, !.classes = classes]
  OBVIOUS
<1>9. Fine(r)
  BY <1>4, <1>7, <1>8, ChangeClass
<1>10. Method(m, name, arity) = r
  BY <1>1, <1>2, <1>8 DEF Method
<1>11. QED
  BY <1>9, <1>10

LEMMA SameMethods ==
  ASSUME NEW m, Fine(m), NEW k \in 1 .. Len(m.classes),
         NEW klass \in Maps(Name, 1 .. Len(m.methods)),
         NEW r, r = [m EXCEPT !.classes[k] = klass]
  PROVE  Fine(r) /\ r.status = m.status /\ r.stack = m.stack /\ r.frames = m.frames
<1>1. PICK methods, classes : methods = m.methods /\ classes = [m.classes EXCEPT ![k] = klass]
  OBVIOUS
<1>2. methods \in Seq(Nat) /\ Len(m.methods) <= Len(methods)
  BY <1>1 DEF Fine, Typed
<1>3. r = [m EXCEPT !.methods = methods, !.classes = classes]
  BY <1>1 DEF Fine, Typed, Whole
<1>4. classes \in Seq(Maps(Name, 1 .. Len(methods))) /\ Len(classes) = Len(m.classes)
  <2>1. PICK S : S = 1 .. Len(m.methods)
    OBVIOUS
  <2>2. m.classes \in Seq(Maps(Name, S)) /\ klass \in Maps(Name, S) /\ S \subseteq S
    BY <2>1 DEF Fine, Typed
  <2>3. classes \in Seq(Maps(Name, S)) /\ Len(classes) = Len(m.classes)
    BY <1>1, <2>2, OtherClasses
  <2>4. QED
    BY <1>1, <2>1, <2>3
<1>5. Fine(r)
  BY <1>2, <1>3, <1>4, ChangeClass
<1>6. r.status = m.status /\ r.stack = m.stack /\ r.frames = m.frames
  BY DEF Fine, Typed, Whole
<1>7. QED
  BY <1>5, <1>6

LEMMA InheritFine ==
  ASSUME NEW m, Fine(m), m.status = "running", Has(m, 2), IsA(Peek(m, 0), "class")
  PROVE  Fine(Inherit(m))
<1>1. CASE ~ IsA(Peek(m, 1), "class")
  BY <1>1, RuntimeErrorFine DEF Inherit
<1>2. CASE IsA(Peek(m, 1), "class")
  <2>1. Has(m, 1) /\ Has(m, 1 + 1)
    BY LiveFrame DEF Has
  <2>2. PICK k \in 1 .. Len(m.classes) : k = Peek(m, 0)[2]
    BY <2>1, ClassOnTop
  <2>3. PICK a \in 1 .. Len(m.classes) : a = Peek(m, 1)[2]
    BY <1>2, <2>1, PeekTyped, Tags
  <2>4. PICK S : S = 1 .. Len(m.methods)
    OBVIOUS
  <2>5. m.classes[k] \in Maps(Name, S) /\ m.classes[a] \in Maps(Name, S)
    BY <2>4 DEF Fine, Typed
  <2>6. PICK D \in SUBSET Name : m.classes[k] \in [D -> S]
    BY <2>5 DEF Maps
  <2>7. PICK A \in SUBSET Name : m.classes[a] \in [A -> S]
    BY <2>5 DEF Maps
  <2>8. PICK both : both = [x \in D \cup A |-> IF x \in D THEN m.classes[k][x]
                                               ELSE m.classes[a][x]]
    OBVIOUS
  <2>9. both \in [D \cup A -> S]
    BY <2>6, <2>7, <2>8
  <2>10. both \in Maps(Name, 1 .. Len(m.methods))
    BY <2>4, <2>9 DEF Maps
  <2>11. PICK r : r = [m EXCEPT !.classes[k] = both]
    OBVIOUS
  <2>12. Fine(r) /\ r.status = "running" /\ r.stack = m.stack /\ r.frames = m.frames
    <3>1. Fine(r)
      BY <2>10, <2>11, SameMethods
    <3>2. r.status = "running" /\ r.stack = m.stack /\ r.frames = m.frames
      BY <2>11 DEF Fine, Typed, Whole
    <3>3. QED
      BY <3>1, <3>2
  <2>13. Inherit(m) = Drop(r, 1)
    BY <1>2, <2>2, <2>3, <2>6, <2>7, <2>8, <2>11 DEF Inherit
  <2>14. Has(r, 1) /\ 1 \in Nat
    BY <2>1, <2>12 DEF Has, Top, Base
  <2>15. QED
    BY <2>12, <2>13, <2>14, DropFine
<1>3. QED
  BY <1>1, <1>2

LEMMA ChangeGlobals ==
  ASSUME NEW m, Fine(m), NEW globals \in Maps(Global, ValuesOf(m))
  PROVE  LET r == [m EXCEPT !.globals = globals]
         IN  /\ Fine(r) /\ r.status = m.status
             /\ r.stack = m.stack /\ r.frames = m.frames
<1>1. PICK r : r = [m EXCEPT !.globals = globals]
  OBVIOUS
<1>2. /\ r.stack = m.stack /\ r.frames = m.frames /\ r.globals = globals
      /\ r.classes = m.classes /\ r.methods = m.methods
      /\ r.instances = m.instances /\ r.bounds = m.bounds /\ r.status = m.status
      /\ Whole(r)
  BY <1>1 DEF Fine, Typed, Whole
<1>3. Typed(r)
  BY <1>2 DEF Fine, Typed, ValuesOf
<1>4. QED
  BY <1>1, <1>2, <1>3, SameFrames

LEMMA GlobalsFine ==
  ASSUME NEW m, Fine(m), m.status = "running", Has(m, 1), NEW name \in Global
  PROVE  Fine(DefineGlobal(m, name)) /\ Fine(SetGlobal(m, name))
<1>1. 0 \in Nat /\ 1 \in Nat /\ Has(m, 0 + 1)
  OBVIOUS
<1>2. PICK v \in ValuesOf(m) : v = Peek(m, 0)
  BY <1>1, PeekTyped
<1>3. m.globals \in Maps(Global, ValuesOf(m))
  BY DEF Fine, Typed
<1>4. Fine(DefineGlobal(m, name))
  <2>1. CASE name \in DOMAIN m.globals
    BY <2>1, RuntimeErrorFine DEF DefineGlobal
  <2>2. CASE name \notin DOMAIN m.globals
    <3>1. Insert(m.globals, name, v) \in Maps(Global, ValuesOf(m))
      BY <1>3, InsertTyped
    <3>2. PICK r : r = [m EXCEPT !.globals = Insert(m.globals, name, v)]
      OBVIOUS
    <3>3. Fine(r) /\ r.status = "running" /\ r.stack = m.stack /\ r.frames = m.frames
      BY <3>1, <3>2, ChangeGlobals
    <3>4. Has(r, 1)
      BY <3>3 DEF Has, Top, Base
    <3>5. Fine(Drop(r, 1))
      BY <1>1, <3>3, <3>4, DropFine
    <3>6. QED
      BY <1>2, <2>2, <3>2, <3>5 DEF DefineGlobal
  <2>3. QED
    BY <2>1, <2>2
<1>5. Fine(SetGlobal(m, name))
  <2>1. CASE name \notin DOMAIN m.globals
    BY <2>1, RuntimeErrorFine DEF SetGlobal
  <2>2. CASE name \in DOMAIN m.globals
    <3>1. PICK D \in SUBSET Global : m.globals \in [D -> ValuesOf(m)]
      BY <1>3 DEF Maps
    <3>2. [m.globals EXCEPT ![name] = v] \in [D -> ValuesOf(m)]
      BY <3>1
    <3>3. [m.globals EXCEPT ![name] = v] \in Maps(Global, ValuesOf(m))
      BY <3>2 DEF Maps
    <3>4. Fine([m EXCEPT !.globals = [m.globals EXCEPT ![name] = v]])
      BY <3>3, ChangeGlobals
    <3>5. SetGlobal(m, name) = [m EXCEPT !.globals = [m.globals EXCEPT ![name] = v]]
      BY <1>2, <2>2 DEF SetGlobal
    <3>6. QED
      BY <3>4, <3>5
  <2>3. QED
    BY <2>1, <2>2
<1>6. QED
  BY <1>4, <1>5

LEMMA GetGlobalFine ==
  ASSUME NEW m, Fine(m), m.status = "running", NEW name \in Global
  PROVE  Fine(GetGlobal(m, name))
<1>1. CASE name \notin DOMAIN m.globals
  BY <1>1, RuntimeErrorFine DEF GetGlobal
<1>2. CASE name \in DOMAIN m.globals
  <2>1. m.globals \in Maps(Global, ValuesOf(m))
    BY DEF Fine, Typed
  <2>2. m.globals[name] \in ValuesOf(m)
    BY <1>2, <2>1, MapValue
  <2>3. QED
    BY <1>2, <2>2, PushFine DEF GetGlobal
<1>3. QED
  BY <1>1, <1>2

LEMMA ReturnFine ==
  ASSUME NEW m, Fine(m), m.status = "running", Has(m, 1)
  PROVE  Fine(Return(m))
<1>1. PICK k \in Nat \ {0} : k = Len(m.frames)
  BY LiveFrame
<1>2. /\ Top(m) \in Nat /\ Base(m) \in 1 .. Top(m) /\ Top(m) - 1 >= Base(m)
      /\ Top(m) = Len(m.stack) /\ m.stack \in Seq(ValuesOf(m))
  BY LiveFrame DEF Has, Fine, Typed, Top
<1>3. PICK F : F = [offset : Nat, callee : Callee]
  OBVIOUS
<1>4. m.frames \in Seq(F) /\ k < FRAMES_MAX
  BY <1>1, <1>3 DEF Fine, Typed
<1>5. CASE k = 1
  <2>1. PICK r, st : r = Return(m) /\ st = SubSeq(m.stack, 1, Len(m.stack) - 2)
    OBVIOUS
  <2>2. st \in Seq(ValuesOf(m))
    <3>1. Len(m.stack) - 2 \in Nat /\ Len(m.stack) - 2 <= Len(m.stack)
      BY <1>2
    <3>2. QED
      BY <1>2, <2>1, <3>1, PrefixOf
  <2>3. /\ r.stack = st /\ r.frames = <<>> /\ r.globals = m.globals
        /\ r.classes = m.classes /\ r.methods = m.methods
        /\ r.instances = m.instances /\ r.bounds = m.bounds /\ r.status = "ok"
        /\ Whole(r)
    BY <1>1, <1>5, <2>1 DEF Return, Drop, Fine, Typed, Whole
  <2>4. r.frames \in Seq([offset : Nat, callee : Callee]) /\ Len(r.frames) < FRAMES_MAX
    BY <1>4, <1>5, <2>3, ObjectsAssumption
  <2>5. Typed(r)
    BY <2>2, <2>3, <2>4 DEF Fine, Typed, ValuesOf
  <2>6. QED
    BY <2>1, <2>3, <2>5 DEF Fine, FramesFine
<1>6. CASE k # 1
  <2>1. PICK r, below, result, frames :
          /\ r = Return(m) /\ below = SubSeq(m.stack, 1, Base(m) - 1)
          /\ result = Last(m.stack) /\ frames = Front(m.frames)
    OBVIOUS
  <2>2. /\ below \in Seq(ValuesOf(m)) /\ Len(below) = Base(m) - 1
        /\ \A s \in 1 .. Base(m) - 1 : below[s] = m.stack[s]
    <3>1. Base(m) - 1 \in Nat /\ Base(m) - 1 <= Len(m.stack)
      BY <1>2
    <3>2. QED
      BY <1>2, <2>1, <3>1, PrefixOf
  <2>3. result \in ValuesOf(m)
    BY <1>2, <2>1 DEF Last
  <2>4. PICK st : st = Append(below, result)
    OBVIOUS
  <2>5. /\ st \in Seq(ValuesOf(m)) /\ Len(st) = Base(m)
        /\ \A s \in 1 .. Base(m) - 1 : st[s] = m.stack[s]
    <3>1. /\ st \in Seq(ValuesOf(m)) /\ Len(st) = Len(below) + 1
          /\ \A s \in 1 .. Len(below) : st[s] = below[s]
      BY <2>2, <2>3, <2>4, AppendProperties
    <3>2. QED
      BY <1>2, <2>2, <3>1
  <2>6. /\ frames \in Seq(F) /\ Len(frames) = k - 1
        /\ \A f \in 1 .. k - 1 : frames[f] = m.frames[f]
    <3>1. k - 1 \in Nat /\ k - 1 <= Len(m.frames) /\ frames = SubSeq(m.frames, 1, k - 1)
      BY <1>1, <2>1 DEF Front
    <3>2. QED
      BY <1>4, <3>1, PrefixOf
  <2>7. /\ r.stack = st /\ r.frames = frames /\ r.globals = m.globals
        /\ r.classes = m.classes /\ r.methods = m.methods
        /\ r.instances = m.instances /\ r.bounds = m.bounds /\ r.status = "running"
        /\ Whole(r)
    BY <1>1, <1>6, <2>1, <2>4 DEF Return, Fine, Typed, Whole
  <2>8. Typed(r)
    <3>1. Len(r.frames) < FRAMES_MAX
      BY <1>4, <2>6, <2>7, ObjectsAssumption
    <3>2. r.frames \in Seq([offset : Nat, callee : Callee])
      BY <1>3, <2>6, <2>7
    <3>3. QED
      BY <2>5, <2>7, <3>1, <3>2 DEF Fine, Typed, ValuesOf
  <2>9. FramesFine(r)
    <3>1. \A f \in 1 .. k - 1 : m.frames[f].offset \in 1 .. Base(m) - 1
      <4> TAKE f \in 1 .. k - 1
      <4>1. f \in 1 .. k /\ k \in 1 .. k /\ f < k
        BY <1>1
      <4>2. m.frames[f].offset < Base(m)
        <5>1. m.frames[f].offset < m.frames[k].offset
          BY <1>1, <4>1 DEF Fine, FramesFine
        <5>2. QED
          BY <1>1, <5>1, LiveFrame
      <4>3. m.frames[f].offset \in 1 .. Base(m)
        BY <1>1, <4>1, LiveFrame
      <4>4. QED
        BY <1>2, <4>2, <4>3
    <3>2. frames # <<>>
      <4>1. Len(frames) # 0
        BY <1>1, <1>6, <2>6
      <4>2. QED
        BY <4>1
    <3>3. \A f \in 1 .. k - 1 : frames[f].offset \in 1 .. Len(st)
      BY <1>2, <2>5, <2>6, <3>1
    <3>4. ASSUME NEW f \in 1 .. k - 1, NEW g \in 1 .. k - 1, f < g
          PROVE  frames[f].offset < frames[g].offset
      <4>1. f \in 1 .. k /\ g \in 1 .. k
        BY <1>1
      <4>2. m.frames[f].offset < m.frames[g].offset
        BY <1>1, <3>4, <4>1 DEF Fine, FramesFine
      <4>3. QED
        BY <2>6, <4>2
    <3>5. ASSUME NEW f \in 1 .. k - 1, frames[f].callee[1] = "method"
          PROVE  st[frames[f].offset][1] = "instance"
      <4>1. f \in 1 .. k
        BY <1>1
      <4>2. frames[f] = m.frames[f]
        BY <2>6
      <4>3. m.stack[m.frames[f].offset][1] = "instance"
        BY <1>1, <3>5, <4>1, <4>2 DEF Fine, FramesFine
      <4>4. st[m.frames[f].offset] = m.stack[m.frames[f].offset]
        BY <2>5, <3>1
      <4>5. QED
        BY <4>2, <4>3, <4>4
    <3>6. QED
      BY <2>6, <2>7, <3>2, <3>3, <3>4, <3>5 DEF FramesFine
  <2>10. QED
    BY <2>1, <2>8, <2>9 DEF Fine
<1>7. QED
  BY <1>5, <1>6

-----------------------------------------------------------------------------

LEMMA InitFine == Init => Fine(vm)
<1>1. SUFFICES ASSUME Init PROVE Fine(vm)
  OBVIOUS
<1>2. PICK m : m = vm
  OBVIOUS
<1>3. /\ m.stack = <<Nil>> /\ m.frames = <<[offset |-> 1, callee |-> <<"script", 0>>]>>
      /\ m.globals = Empty /\ m.classes = <<>> /\ m.methods = <<>> /\ m.instances = <<>>
      /\ m.bounds = <<>> /\ m.status = "running" /\ Whole(m)
  BY <1>1, <1>2 DEF Init, Start, Whole
<1>4. m.stack \in Seq(ValuesOf(m))
  BY <1>3 DEF ValuesOf, ValuesFor, AtHand
<1>5. m.frames \in Seq([offset : Nat, callee : Callee])
  <2>1. [offset |-> 1, callee |-> <<"script", 0>>] \in [offset : Nat, callee : Callee]
    BY DEF Callee
  <2>2. QED
    BY <1>3, <2>1
<1>6. Len(m.frames) < FRAMES_MAX
  BY <1>3, ObjectsAssumption
<1>7. m.globals \in Maps(Global, ValuesOf(m))
  BY <1>3, EmptyTyped
<1>8. Typed(m)
  BY <1>3, <1>4, <1>5, <1>6, <1>7 DEF Typed
<1>9. FramesFine(m)
  BY <1>3 DEF FramesFine
<1>10. QED
  BY <1>2, <1>8, <1>9 DEF Fine

(* One case for each instruction.                                          *)
LEMMA NextFine == Fine(vm) /\ [Next]_vm => Fine(vm')
<1>1. SUFFICES ASSUME Fine(vm), [Next]_vm PROVE Fine(vm')
  OBVIOUS
<1>2. CASE UNCHANGED vm
  BY <1>1, <1>2
<1>3. CASE Next
  <2>1. vm.status = "running"
    BY <1>3 DEF Next, Running
  <2>2. PICK r : r = vm'
    OBVIOUS
  <2>3. CASE RunPush
    <3>1. CASE \E v \in AtHand : r = Push(vm, v)
      <4>1. PICK v \in ValuesOf(vm) : r = Push(vm, v)
        BY <3>1 DEF ValuesOf, ValuesFor
      <4>2. QED
        BY <1>1, <2>1, <2>2, <4>1, PushFine
    <3>2. CASE \E s \in Base(vm) .. Top(vm) : r = Push(vm, vm.stack[s])
      <4>1. PICK s \in Base(vm) .. Top(vm) : r = Push(vm, vm.stack[s])
        BY <3>2
      <4>2. s \in 1 .. Top(vm)
        <5>1. Base(vm) \in 1 .. Top(vm) /\ Top(vm) \in Nat
          BY <1>1, <2>1, LiveFrame
        <5>2. QED
          BY <5>1
      <4>3. vm.stack[s] \in ValuesOf(vm)
        BY <1>1, <2>1, <4>2, LiveFrame
      <4>4. QED
        BY <1>1, <2>1, <2>2, <4>1, <4>3, PushFine
    <3>3. CASE r = NewClass(vm)
      BY <1>1, <2>1, <2>2, <3>3, NewClassFine
    <3>4. CASE \E name \in Global : r = GetGlobal(vm, name)
      BY <1>1, <2>1, <2>2, <3>4, GetGlobalFine
    <3>5. QED
      BY <2>2, <2>3, <3>1, <3>2, <3>3, <3>4 DEF RunPush
  <2>4. CASE RunPop
    <3>1. 1 \in Nat /\ Has(vm, 1) /\ r = Drop(vm, 1)
      BY <2>2, <2>4 DEF RunPop
    <3>2. QED
      BY <1>1, <2>1, <2>2, <3>1, DropFine
  <2>5. CASE RunSetLocal
    <3>1. PICK s \in Base(vm) + 1 .. Top(vm) : r = SetSlot(vm, s, Peek(vm, 0))
      BY <2>2, <2>5 DEF RunSetLocal
    <3>2. 0 \in Nat /\ Has(vm, 0 + 1)
      <4>1. Base(vm) \in 1 .. Top(vm) /\ Top(vm) \in Nat
        BY <1>1, <2>1, LiveFrame
      <4>2. QED
        BY <4>1 DEF Has
    <3>3. Peek(vm, 0) \in ValuesOf(vm)
      BY <1>1, <2>1, <3>2, PeekTyped
    <3>4. QED
      BY <1>1, <2>1, <2>2, <3>1, <3>3, SetSlotFine
  <2>6. CASE RunGlobal
    <3>1. PICK name \in Global : r = DefineGlobal(vm, name) \/ r = SetGlobal(vm, name)
      BY <2>2, <2>6 DEF RunGlobal
    <3>2. Has(vm, 1)
      BY <2>6 DEF RunGlobal
    <3>3. QED
      BY <1>1, <2>1, <2>2, <3>1, <3>2, GlobalsFine
  <2>7. CASE RunProperty
    <3>1. PICK name \in Name : \/ Has(vm, 1) /\ r = GetProperty(vm, name)
                               \/ Has(vm, 2) /\ r = SetProperty(vm, name)
      BY <2>2, <2>7 DEF RunProperty
    <3>2. QED
      BY <1>1, <2>1, <2>2, <3>1, GetPropertyFine, SetPropertyFine
  <2>8. CASE RunClass
    <3>1. CASE /\ Has(vm, 1) /\ IsA(Peek(vm, 0), "class")
               /\ \E name \in Name, n \in 0 .. MaxArity : r = Method(vm, name, n)
      <4>1. PICK name \in Name, n \in Nat : r = Method(vm, name, n)
        BY <3>1
      <4>2. QED
        BY <1>1, <2>1, <2>2, <3>1, <4>1, MethodFine
    <3>2. CASE Has(vm, 2) /\ IsA(Peek(vm, 0), "class") /\ r = Inherit(vm)
      BY <1>1, <2>1, <2>2, <3>2, InheritFine
    <3>3. QED
      BY <2>2, <2>8, <3>1, <3>2 DEF RunClass
  <2>9. CASE RunCall
    <3>1. PICK n \in Nat : /\ Has(vm, n + 1)
                           /\ \/ r = Call(vm, n)
                              \/ \E name \in Name : r = Invoke(vm, name, n)
      BY <2>2, <2>9 DEF RunCall
    <3>2. CASE r = Call(vm, n)
      <4>1. Peek(vm, n) \in ValuesOf(vm)
        BY <1>1, <2>1, <3>1, PeekTyped
      <4>2. QED
        BY <1>1, <2>1, <2>2, <3>1, <3>2, <4>1, CallValueFine DEF Call
    <3>3. CASE \E name \in Name : r = Invoke(vm, name, n)
      BY <1>1, <2>1, <2>2, <3>1, <3>3, InvokeFine
    <3>4. QED
      BY <3>1, <3>2, <3>3
  <2>10. CASE RunSuper
    <3>1. PICK name \in Name, n \in Nat :
            /\ Has(vm, n + 2) /\ Peek(vm, n + 1)[1] = "instance"
            /\ \/ r = SuperInvoke(vm, name, n)
               \/ n = 0 /\ r = GetSuper(vm, name)
      BY <2>2, <2>10, ObjectsAssumption DEF RunSuper, IsA
    <3>2. CASE r = SuperInvoke(vm, name, n)
      BY <1>1, <2>1, <2>2, <3>1, <3>2, SuperInvokeFine
    <3>3. CASE n = 0 /\ r = GetSuper(vm, name)
      <4>1. Has(vm, 2)
        BY <3>1, <3>3
      <4>2. QED
        BY <1>1, <2>1, <2>2, <3>3, <4>1, GetSuperFine
    <3>4. QED
      BY <3>1, <3>2, <3>3
  <2>11. CASE RunReturn
    <3>1. Has(vm, 1) /\ r = Return(vm)
      BY <2>2, <2>11 DEF RunReturn
    <3>2. QED
      BY <1>1, <2>1, <2>2, <3>1, ReturnFine
  <2>12. QED
    BY <1>3, <2>3, <2>4, <2>5, <2>6, <2>7, <2>8, <2>9, <2>10, <2>11 DEF Next
<1>4. QED
  BY <1>1, <1>2, <1>3

(* Frames lie above each other, methods have instances in slot zero, and   *)
(* whatever an object, a value or a frame refers to exists, in every state *)
(* the virtual machine reaches.                                            *)
THEOREM ObjectsInvariance == Spec => []Fine(vm)
<1>1. Init => Fine(vm)
  BY InitFine
<1>2. Fine(vm) /\ [Next]_vm => Fine(vm)'
  BY NextFine
<1>3. QED
  BY <1>1, <1>2, PTL DEF Spec

(* Whatever a value, a class, an instance, a bound method or a frame refers *)
(* to exists (the pointers of ClassObject, InstanceObject, BoundMethod and *)
(* CallFrame are never left dangling).                                     *)
THEOREM ObjectsTypeCorrect == Spec => []TypeOK
<1>1. Fine(vm) => TypeOK
  <2>1. SUFFICES ASSUME Fine(vm) PROVE TypeOK
    OBVIOUS
  <2>2. Values = ValuesOf(vm)
    BY DEF Values, ValuesOf, ValuesFor
  <2>3. ToSet(vm.stack) \subseteq Values
    <3>1. vm.stack \in Seq(ValuesOf(vm))
      BY <2>1 DEF Fine, Typed
    <3>2. QED
      BY <2>2, <3>1 DEF ToSet
  <2>4. Range(vm.globals) \subseteq Values
    <3>1. vm.globals \in Maps(Global, ValuesOf(vm))
      BY <2>1 DEF Fine, Typed
    <3>2. QED
      BY <2>2, <3>1, MapValue DEF Range
  <2>5. \A k \in 1 .. Len(vm.classes) : Range(vm.classes[k]) \subseteq 1 .. Len(vm.methods)
    BY <2>1, ClassMethod DEF Range
  <2>6. \A i \in 1 .. Len(vm.instances) :
          /\ vm.instances[i].klass \in 1 .. Len(vm.classes)
          /\ Range(vm.instances[i].fields) \subseteq Values
    BY <2>1, <2>2, InstanceParts DEF Range
  <2>7. \A b \in 1 .. Len(vm.bounds) :
          /\ IsA(vm.bounds[b].self, "instance") /\ vm.bounds[b].self \in Values
          /\ vm.bounds[b].method \in 1 .. Len(vm.methods)
    BY <2>1, <2>2, BoundParts DEF IsA
  <2>8. Running => \A f \in ToSet(vm.frames) : f.offset \in 1 .. Top(vm)
    <3>1. SUFFICES ASSUME Running, NEW f \in ToSet(vm.frames) PROVE f.offset \in 1 .. Top(vm)
      OBVIOUS
    <3>2. PICK F : F = [offset : Nat, callee : Callee]
      OBVIOUS
    <3>3. vm.frames \in Seq(F)
      BY <2>1, <3>2 DEF Fine, Typed
    <3>4. PICK x \in 1 .. Len(vm.frames) : f = vm.frames[x]
      BY <3>3 DEF ToSet
    <3>5. QED
      BY <2>1, <3>1, <3>4 DEF Running, Fine, FramesFine, Top
  <2>9. Len(vm.frames) < FRAMES_MAX
    BY <2>1 DEF Fine, Typed
  <2>10. QED
    BY <2>3, <2>4, <2>5, <2>6, <2>7, <2>8, <2>9 DEF TypeOK
<1>2. QED
  BY <1>1, ObjectsInvariance, PTL

(* However a method comes to be called (INVOKE, a bound method that was    *)
(* stored or passed around, a constructor, super), GET_LOCAL 0 finds an    *)
(* instance in it.                                                         *)
THEOREM MethodsHaveReceivers == Spec => []ReceiverInSlotZero
<1>1. Fine(vm) => ReceiverInSlotZero
  <2>1. SUFFICES ASSUME Fine(vm), Running, NEW f \in ToSet(vm.frames), IsA(f.callee, "method")
                 PROVE  IsA(vm.stack[f.offset], "instance")
    BY DEF ReceiverInSlotZero
  <2>2. PICK F : F = [offset : Nat, callee : Callee]
    OBVIOUS
  <2>3. vm.frames \in Seq(F)
    BY <2>1, <2>2 DEF Fine, Typed
  <2>4. PICK x \in 1 .. Len(vm.frames) : f = vm.frames[x]
    BY <2>3 DEF ToSet
  <2>5. QED
    BY <2>1, <2>4 DEF Running, Fine, FramesFine, IsA
<1>2. QED
  BY <1>1, ObjectsInvariance, PTL

-----------------------------------------------------------------------------

(* The fused calls are the calls they stand for.                           *)

(* The machine with the arguments back above what GET_PROPERTY left.       *)
Again(m, got, n) ==
  [got EXCEPT !.stack = @ \o SubSeq(m.stack, Top(m) - n + 1, Top(m))]

(* What GET_PROPERTY leaves of a machine with n arguments above the        *)
(* receiver, and that machine with v in the receiver's slot.               *)
Got(m, n, bounds, v) == Replace([Drop(m, n) EXCEPT !.bounds = bounds], 1, v)

Changed(m, n, bounds, v) ==
  [m EXCEPT !.bounds = bounds, !.stack = [m.stack EXCEPT ![Top(m) - n] = v]]

(* The arguments are taken off, the receiver is replaced, and the arguments *)
(* are put back.                                                           *)
LEMMA PutBack ==
  ASSUME NEW m, Fine(m), m.status = "running", NEW n \in Nat, Has(m, n + 1),
         NEW bounds, NEW v
  PROVE  /\ Got(m, n, bounds, v).status = "running"
         /\ Again(m, Got(m, n, bounds, v), n) = Changed(m, n, bounds, v)
<1>1. PICK S : S = ValuesOf(m) \cup {v}
  OBVIOUS
<1>2. PICK seq \in Seq(S) : seq = m.stack
  BY <1>1 DEF Fine, Typed
<1>3. PICK len \in Nat : len = Len(seq) /\ len = Top(m)
  BY <1>2 DEF Top
<1>4. PICK k \in Nat : k = len - n - 1
  <2>1. /\ Base(m) \in 1 .. Top(m) /\ Top(m) - (n + 1) >= Base(m)
    BY LiveFrame DEF Has
  <2>2. len - n - 1 \in Nat
    BY <1>3, <2>1
  <2>3. QED
    BY <2>2
<1>5. k + 1 = len - n /\ k + 1 \in 1 .. len /\ k + n + 1 = len
  BY <1>4
<1>6. PICK below, head, tail :
        /\ below = SubSeq(seq, 1, k + 1) /\ head = SubSeq(below, 1, k)
        /\ tail = SubSeq(seq, k + 2, len)
  OBVIOUS
<1>7. below \in Seq(S) /\ Len(below) = k + 1 /\ \A i \in 1 .. k + 1 : below[i] = seq[i]
  <2>1. k + 1 \in Nat /\ k + 1 <= Len(seq)
    BY <1>3, <1>5
  <2>2. QED
    BY <1>6, <2>1, PrefixOf
<1>8. head \in Seq(S) /\ Len(head) = k /\ \A i \in 1 .. k : head[i] = seq[i]
  <2>1. k \in Nat /\ k <= Len(below)
    BY <1>7
  <2>2. head \in Seq(S) /\ Len(head) = k /\ \A i \in 1 .. k : head[i] = below[i]
    BY <1>6, <1>7, <2>1, PrefixOf
  <2>3. QED
    BY <1>7, <2>2
<1>9. tail \in Seq(S) /\ Len(tail) = n /\ \A i \in 1 .. n : tail[i] = seq[k + 1 + i]
  <2> k + 2 \in Int /\ len \in Int /\ \A i \in k + 2 .. len : i \in 1 .. Len(seq)
    BY <1>3
  <2>1. \A i \in k + 2 .. len : seq[i] \in S
    OBVIOUS
  <2>2. /\ tail \in Seq(S) /\ Len(tail) = IF k + 2 <= len THEN len - (k + 2) + 1 ELSE 0
        /\ \A i \in 1 .. len - (k + 2) + 1 : tail[i] = seq[k + 2 + i - 1]
    BY <1>6, <2>1, SubSeqProperties
  <2>3. len - (k + 2) + 1 = n /\ (k + 2 <= len <=> n >= 1)
    BY <1>5
  <2>4. \A i \in 1 .. n : k + 2 + i - 1 = k + 1 + i
    OBVIOUS
  <2>5. QED
    BY <2>2, <2>3, <2>4
<1>10. PICK app, whole : app = Append(head, v) /\ whole = app \o tail
  OBVIOUS
<1>11. /\ app \in Seq(S) /\ Len(app) = k + 1 /\ app[k + 1] = v
       /\ \A i \in 1 .. k : app[i] = seq[i]
  <2>1. v \in S
    BY <1>1
  <2>2. QED
    BY <1>8, <1>10, <2>1, AppendProperties
<1>12. /\ whole \in Seq(S) /\ Len(whole) = k + 1 + n
       /\ \A i \in 1 .. k + 1 + n : whole[i] = IF i <= k + 1 THEN app[i] ELSE tail[i - (k + 1)]
  <2>1. /\ app \o tail \in Seq(S) /\ Len(app \o tail) = Len(app) + Len(tail)
        /\ \A i \in 1 .. Len(app) + Len(tail) :
             (app \o tail)[i] = IF i <= Len(app) THEN app[i] ELSE tail[i - Len(app)]
    BY <1>9, <1>11, ConcatProperties
  <2>2. QED
    BY <1>9, <1>10, <1>11, <2>1
<1> PICK changed : changed = [seq EXCEPT ![k + 1] = v]
  OBVIOUS
<1>13. /\ changed \in Seq(S) /\ Len(changed) = len
       /\ \A i \in 1 .. len : changed[i] = IF i = k + 1 THEN v ELSE seq[i]
  <2>1. v \in S /\ k + 1 \in 1 .. Len(seq)
    BY <1>1, <1>3, <1>5
  <2>2. /\ changed \in Seq(S) /\ Len(changed) = Len(seq)
        /\ \A i \in 1 .. Len(seq) : changed[i] = IF i = k + 1 THEN v ELSE seq[i]
    BY <2>1, ExceptSeq
  <2>3. QED
    BY <1>3, <2>2
<1>14. ASSUME NEW i \in 1 .. len PROVE whole[i] = changed[i]
  <2>1. CASE i \in 1 .. k
    <3>1. i <= k + 1 /\ i # k + 1 /\ i \in 1 .. k + 1 + n
      BY <1>5, <2>1
    <3>2. QED
      BY <1>11, <1>12, <1>13, <2>1, <3>1
  <2>2. CASE i = k + 1
    <3>1. i <= k + 1 /\ i \in 1 .. k + 1 + n
      BY <1>5, <2>2
    <3>2. QED
      BY <1>11, <1>12, <1>13, <2>2, <3>1
  <2>3. CASE i > k + 1
    <3>1. /\ i \in 1 .. k + 1 + n /\ ~ (i <= k + 1) /\ i # k + 1
          /\ i - (k + 1) \in 1 .. n /\ k + 1 + (i - (k + 1)) = i
      BY <1>5, <2>3
    <3>2. whole[i] = tail[i - (k + 1)]
      BY <1>12, <3>1
    <3>3. tail[i - (k + 1)] = seq[i]
      BY <1>9, <3>1
    <3>4. QED
      BY <1>13, <3>1, <3>2, <3>3
  <2>4. QED
    BY <2>1, <2>2, <2>3
<1>15. whole = changed
  <2>1. Len(whole) = Len(changed) /\ \A i \in 1 .. Len(whole) : whole[i] = changed[i]
    BY <1>5, <1>12, <1>13, <1>14
  <2>2. QED
    BY <1>12, <1>13, <2>1, SeqEqual
<1>. PICK got : got = Replace([Drop(m, n) EXCEPT !.bounds = bounds], 1, v)
  OBVIOUS
<1>16. got.status = "running" /\ got = [m EXCEPT !.bounds = bounds, !.stack = app]
  <2>1. k + 1 = Len(m.stack) - n /\ k = Len(below) - 1
    BY <1>2, <1>3, <1>5, <1>7
  <2> below = SubSeq(m.stack, 1, Len(m.stack) - n) /\ head = SubSeq(below, 1, Len(below) - 1)
    BY <1>2, <1>6, <2>1
  <2>2. QED
    BY <1>10, <2>1 DEF Replace, Push, Drop, Fine, Typed, Whole
<1>17. got.stack = app
  BY <1>16 DEF Fine, Typed, Whole
<1>18. /\ tail = SubSeq(m.stack, Top(m) - n + 1, Top(m))
       /\ changed = [m.stack EXCEPT ![Top(m) - n] = v]
  <2>1. k + 2 = Top(m) - n + 1 /\ k + 1 = Top(m) - n
    BY <1>3, <1>5
  <2>2. QED
    BY <1>2, <1>3, <1>6, <2>1
<1>19. [got EXCEPT !.stack = got.stack \o tail] = [m EXCEPT !.bounds = bounds, !.stack = changed]
  BY <1>10, <1>15, <1>16, <1>17 DEF Fine, Typed, Whole
<1>20. QED
  BY <1>16, <1>18, <1>19 DEF Got, Again, Changed

(* A call of a bound method, once the receiver is back in its slot, is the *)
(* call of the method.                                                     *)
LEMMA BoundCall ==
  ASSUME NEW m, Fine(m), m.status = "running", NEW n \in Nat, Has(m, n + 1),
         NEW bounds, NEW b \in Nat, NEW method,
         bounds[b] = [self |-> Peek(m, n), method |-> method],
         NEW p, p = [m EXCEPT !.bounds = bounds, !.stack = [m.stack EXCEPT ![Top(m) - n] = Bound(b)]]
  PROVE  SameOutcome(CallMethod(m, method, n), Call(p, n))
<1>1. PICK s : s = Top(m) - n
  OBVIOUS
<1>2. /\ m.stack \in Seq(ValuesOf(m)) /\ Top(m) = Len(m.stack)
      /\ s \in 1 .. Len(m.stack)
  <2>1. /\ Top(m) \in Nat /\ Base(m) \in 1 .. Top(m) /\ Top(m) - (n + 1) >= Base(m)
    BY LiveFrame DEF Has
  <2>2. QED
    BY <1>1, <2>1 DEF Fine, Typed, Top
<1>3. PICK st : st = [m.stack EXCEPT ![s] = Bound(b)]
  OBVIOUS
<1>4. st[s] = Bound(b) /\ Len(st) = Len(m.stack) /\ [st EXCEPT ![s] = m.stack[s]] = m.stack
  BY <1>2, <1>3
<1>5. /\ p.stack = st /\ p.frames = m.frames /\ p.globals = m.globals
      /\ p.classes = m.classes /\ p.methods = m.methods
      /\ p.instances = m.instances /\ p.bounds = bounds /\ p.status = m.status
      /\ Whole(p)
  BY <1>1, <1>3 DEF Fine, Typed, Whole
<1>6. Top(p) = Top(m) /\ Peek(p, n) = Bound(b)
  BY <1>1, <1>2, <1>4, <1>5 DEF Top, Peek
<1>7. PICK q : q = SetSlot(p, s, m.stack[s])
  OBVIOUS
<1>8. Call(p, n) = CallMethod(q, method, n)
  <2>1. Call(p, n) = CallBound(p, b, n)
    BY <1>6 DEF Call, CallValue, IsA, Bound
  <2>2. p.bounds[b].self = m.stack[s] /\ p.bounds[b].method = method
    BY <1>1, <1>5 DEF Peek
  <2>3. QED
    BY <1>1, <1>6, <1>7, <2>1, <2>2 DEF CallBound
<1>9. q = [m EXCEPT !.bounds = bounds]
  <2>1. q = [p EXCEPT !.stack = m.stack]
    BY <1>4, <1>5, <1>7 DEF SetSlot, Whole
  <2>2. QED
    BY <1>5, <2>1 DEF Whole, Fine, Typed
<1>10. /\ q.stack = m.stack /\ q.frames = m.frames /\ q.globals = m.globals
       /\ q.classes = m.classes /\ q.methods = m.methods
       /\ q.instances = m.instances /\ q.status = m.status /\ Whole(q)
  BY <1>9 DEF Fine, Typed, Whole
<1>11. SameOutcome(CallMethod(m, method, n), CallMethod(q, method, n))
  <2>1. PICK callee, arity : callee = <<"method", method>> /\ arity = m.methods[method]
    OBVIOUS
  <2>2. /\ CallMethod(m, method, n) = CallClosure(m, callee, arity, n)
        /\ CallMethod(q, method, n) = CallClosure(q, callee, arity, n)
    BY <1>10, <2>1 DEF CallMethod
  <2>3. Whole(m) /\ Top(q) = Top(m)
    BY <1>10 DEF Fine, Typed, Top
  <2>4. CASE n # arity \/ Len(m.frames) + 1 = FRAMES_MAX
    BY <1>10, <2>2, <2>3, <2>4 DEF CallClosure, RuntimeError, SameOutcome, Whole
  <2>5. CASE ~ (n # arity \/ Len(m.frames) + 1 = FRAMES_MAX)
    BY <1>10, <2>2, <2>3, <2>5 DEF CallClosure, SameOutcome, Whole
  <2>6. QED
    BY <2>4, <2>5
<1>12. QED
  BY <1>8, <1>11

LEMMA SameOutcomeReflexive ==
  ASSUME NEW m
  PROVE  SameOutcome(m, m)
  BY DEF SameOutcome

LEMMA BothFail ==
  ASSUME NEW m, NEW d, Fine(m), Fine(d)
  PROVE  /\ SameOutcome(RuntimeError(m), RuntimeError(d))
         /\ RuntimeError(d).status = "error"
<1>1. RuntimeError(m).status = "error" /\ RuntimeError(d).status = "error"
  BY DEF RuntimeError, Fine, Typed, Whole
<1>2. QED
  BY <1>1 DEF SameOutcome

(* What the machine without the n arguments shows of the receiver.         *)
LEMMA WithoutArguments ==
  ASSUME NEW m, Fine(m), m.status = "running", NEW n \in Nat, Has(m, n + 1)
  PROVE  LET d == Drop(m, n)
         IN  /\ Fine(d) /\ d.status = "running" /\ Peek(d, 0) = Peek(m, n)
             /\ d.classes = m.classes /\ d.instances = m.instances
             /\ d.bounds = m.bounds /\ d.methods = m.methods
<1>1. PICK d : d = Drop(m, n)
  OBVIOUS
<1>2. /\ Top(m) \in Nat /\ Base(m) \in 1 .. Top(m) /\ Top(m) - (n + 1) >= Base(m)
  BY LiveFrame DEF Has
<1>3. Has(m, n)
  BY <1>2 DEF Has
<1>4. /\ Fine(d) /\ Top(d) = Top(m) - n
      /\ \A s \in 1 .. Top(m) - n : d.stack[s] = m.stack[s]
  BY <1>1, <1>3, DropFine
<1>5. /\ d.status = "running" /\ d.classes = m.classes /\ d.instances = m.instances
      /\ d.bounds = m.bounds /\ d.methods = m.methods
  BY <1>1 DEF Drop, Fine, Typed, Whole
<1>6. Peek(d, 0) = Peek(m, n)
  <2>1. Top(d) - 0 = Top(m) - n /\ Top(m) - n \in 1 .. Top(m) - n
    BY <1>2, <1>4
  <2>2. QED
    BY <1>4, <2>1 DEF Peek
<1>7. QED
  BY <1>1, <1>4, <1>5, <1>6

(* A method that is found is called on the receiver either way.            *)
LEMMA MethodEitherWay ==
  ASSUME NEW m, Fine(m), m.status = "running", NEW n \in Nat, Has(m, n + 1),
         NEW k \in 1 .. Len(m.classes), NEW name \in DOMAIN m.classes[k],
         IsA(Peek(m, n), "instance")
  PROVE  LET got == BindMethod(Drop(m, n), k, name)
         IN  /\ got.status = "running"
             /\ SameOutcome(InvokeFromClass(m, k, name, n), Call(Again(m, got, n), n))
<1>1. PICK d, method, bound, bounds, b :
        /\ d = Drop(m, n) /\ method = m.classes[k][name]
        /\ bound = [self |-> Peek(m, n), method |-> method]
        /\ bounds = Append(m.bounds, bound) /\ b = Len(m.bounds) + 1
  OBVIOUS
<1>2. /\ Peek(d, 0) = Peek(m, n) /\ d.classes = m.classes /\ d.bounds = m.bounds
  BY <1>1, WithoutArguments
<1>3. PICK got : got = BindMethod(d, k, name)
  OBVIOUS
<1>4. got = Replace([d EXCEPT !.bounds = bounds], 1, Bound(b))
  <2>1. Whole(d)
    BY <1>1 DEF Drop, Fine, Typed, Whole
  <2>2. [d EXCEPT !.bounds = bounds] = [d EXCEPT !.bounds = Append(@, bound)]
    BY <1>1, <1>2, <2>1 DEF Whole
  <2>3. QED
    BY <1>1, <1>2, <1>3, <2>2 DEF BindMethod
<1>5. b \in Nat /\ bounds[b] = bound
  <2>1. PICK S : S = {bound} \cup [self : {Instance(i) : i \in 1 .. Len(m.instances)},
                                   method : 1 .. Len(m.methods)]
    OBVIOUS
  <2>2. m.bounds \in Seq(S) /\ bound \in S
    <3>1. PICK T : T = [self : {Instance(i) : i \in 1 .. Len(m.instances)},
                        method : 1 .. Len(m.methods)]
      OBVIOUS
    <3>2. m.bounds \in Seq(T) /\ T \subseteq S
      BY <2>1, <3>1 DEF Fine, Typed
    <3>3. m.bounds \in Seq(S)
      BY <3>2, SeqGrows
    <3>4. QED
      BY <2>1, <3>3
  <2>3. QED
    BY <1>1, <2>2, AppendProperties
<1>6. PICK p : p = Again(m, got, n)
  OBVIOUS
<1>7. /\ got.status = "running"
      /\ p = [m EXCEPT !.bounds = bounds, !.stack = [m.stack EXCEPT ![Top(m) - n] = Bound(b)]]
  <2>1. got = Got(m, n, bounds, Bound(b))
    BY <1>1, <1>4 DEF Got
  <2>2. got.status = "running" /\ Again(m, got, n) = Changed(m, n, bounds, Bound(b))
    BY <2>1, PutBack
  <2>3. QED
    BY <1>6, <2>2 DEF Changed
<1>8. SameOutcome(CallMethod(m, method, n), Call(p, n))
  BY <1>1, <1>5, <1>7, BoundCall
<1>9. InvokeFromClass(m, k, name, n) = CallMethod(m, method, n)
  BY <1>1 DEF InvokeFromClass
<1>10. QED
  BY <1>1, <1>3, <1>6, <1>7, <1>8, <1>9

LEMMA InvokeEitherWay ==
  ASSUME NEW m, Fine(m), m.status = "running", NEW n \in Nat, Has(m, n + 1), NEW name
  PROVE  LET got == GetProperty(Drop(m, n), name)
         IN  SameOutcome(Invoke(m, name, n),
                         IF got.status # "running" THEN got ELSE Call(Again(m, got, n), n))
<1>1. PICK d, receiver, got :
        d = Drop(m, n) /\ receiver = Peek(m, n) /\ got = GetProperty(d, name)
  OBVIOUS
<1>2. /\ Fine(d) /\ d.status = "running" /\ Peek(d, 0) = receiver
      /\ d.classes = m.classes /\ d.instances = m.instances /\ d.bounds = m.bounds
  BY <1>1, WithoutArguments
<1>3. PICK i : i = receiver[2]
  OBVIOUS
<1>4. SameOutcome(RuntimeError(m), RuntimeError(d)) /\ RuntimeError(d).status = "error"
  BY <1>2, BothFail
<1>5. CASE ~ IsA(receiver, "instance")
  <2>1. Invoke(m, name, n) = RuntimeError(m)
    BY <1>1, <1>5 DEF Invoke
  <2>2. got = RuntimeError(d)
    BY <1>1, <1>2, <1>5 DEF GetProperty
  <2>3. QED
    BY <1>1, <1>4, <2>1, <2>2
<1>6. CASE IsA(receiver, "instance") /\ name \in DOMAIN m.instances[i].fields
  <2>1. PICK v, p : v = m.instances[i].fields[name] /\ p = SetSlot(m, Top(m) - n, v)
    OBVIOUS
  <2>2. i \in 1 .. Len(m.instances)
    BY <1>1, <1>3, <1>6, PeekTyped, Tags
  <2>3. v \in ValuesOf(m)
    BY <1>6, <2>1, <2>2, InstanceParts
  <2>4. Peek(p, n) = v
    BY <2>1, <2>3, CalleeSlot
  <2>5. Invoke(m, name, n) = Call(p, n)
    BY <1>1, <1>3, <1>6, <2>1, <2>4 DEF Invoke, Call
  <2>6. got = Replace(d, 1, v)
    BY <1>1, <1>2, <1>3, <1>6, <2>1 DEF GetProperty
  <2>7. d = [Drop(m, n) EXCEPT !.bounds = m.bounds]
    BY <1>1 DEF Drop, Fine, Typed, Whole
  <2>8. got.status = "running" /\ Again(m, got, n) = p
    <3>1. PICK bounds : bounds = m.bounds
      OBVIOUS
    <3>2. got = Got(m, n, bounds, v)
      BY <2>6, <2>7, <3>1 DEF Got
    <3>3. got.status = "running" /\ Again(m, got, n) = Changed(m, n, bounds, v)
      BY <3>2, PutBack
    <3>4. p = Changed(m, n, bounds, v)
      BY <2>1, <3>1 DEF SetSlot, Fine, Typed, Whole, Changed
    <3>5. QED
      BY <3>3, <3>4
  <2>9. QED
    BY <1>1, <2>5, <2>8, SameOutcomeReflexive
<1>7. CASE IsA(receiver, "instance") /\ name \notin DOMAIN m.instances[i].fields
  <2>1. PICK k : k = m.instances[i].klass
    OBVIOUS
  <2>2. k \in 1 .. Len(m.classes)
    <3>1. i \in 1 .. Len(m.instances)
      BY <1>1, <1>3, <1>7, PeekTyped, Tags
    <3>2. QED
      BY <2>1, <3>1, InstanceParts
  <2>3. Invoke(m, name, n) = InvokeFromClass(m, k, name, n)
    BY <1>1, <1>3, <1>7, <2>1 DEF Invoke
  <2>4. got = BindMethod(d, k, name)
    BY <1>1, <1>2, <1>3, <1>7, <2>1 DEF GetProperty
  <2>5. CASE name \notin DOMAIN m.classes[k]
    <3>1. InvokeFromClass(m, k, name, n) = RuntimeError(m) /\ got = RuntimeError(d)
      BY <1>2, <2>4, <2>5 DEF InvokeFromClass, BindMethod
    <3>2. QED
      BY <1>1, <1>4, <2>3, <3>1
  <2>6. CASE name \in DOMAIN m.classes[k]
    <3>1. /\ got.status = "running"
          /\ SameOutcome(InvokeFromClass(m, k, name, n), Call(Again(m, got, n), n))
      BY <1>1, <1>7, <2>2, <2>4, <2>6, MethodEitherWay
    <3>2. QED
      BY <1>1, <2>3, <3>1
  <2>7. QED
    BY <2>5, <2>6
<1>8. QED
  BY <1>5, <1>6, <1>7

(* INVOKE does what GET_PROPERTY and CALL do one after the other, for every *)
(* receiver, property and number of arguments: methods, fields that hold   *)
(* functions, classes or bound methods, and errors.                        *)
THEOREM InvokeFused == Spec => []InvokeIsGetThenCall
<1>1. Fine(vm) => InvokeIsGetThenCall
  <2>1. SUFFICES ASSUME Fine(vm), Running, NEW name \in Name, NEW n \in 0 .. MaxArity,
                        Has(vm, n + 1)
                 PROVE  LET got == GetProperty(Drop(vm, n), name)
                        IN  SameOutcome(Invoke(vm, name, n),
                                        IF got.status # "running" THEN got
                                        ELSE Call(Again(vm, got, n), n))
    BY DEF InvokeIsGetThenCall, Again
  <2>2. n \in Nat /\ vm.status = "running"
    BY <2>1 DEF Running
  <2>3. QED
    BY <2>1, <2>2, InvokeEitherWay
<1>2. QED
  BY <1>1, ObjectsInvariance, PTL

(* With no arguments there is nothing to take off and put back.            *)
LEMMA NoArguments ==
  ASSUME NEW m, Fine(m), m.status = "running"
  PROVE  /\ Drop(m, 0) = m
         /\ \A got : Fine(got) => Again(m, got, 0) = got
<1>1. PICK st \in Seq(ValuesOf(m)) : st = m.stack
  BY DEF Fine, Typed
<1>2. Top(m) = Len(st) /\ Len(st) \in Nat
  BY <1>1 DEF Top
<1>3. SubSeq(st, 1, Len(st) - 0) = st
  <2>1. SubSeq(st, 1, Len(st)) = st
    BY SubSeqFull
  <2>2. Len(st) - 0 = Len(st)
    BY <1>2
  <2>3. QED
    BY <2>1, <2>2
<1>4. Drop(m, 0) = m
  BY <1>1, <1>3 DEF Drop, Fine, Typed, Whole
<1>5. SubSeq(st, Len(st) - 0 + 1, Len(st)) = <<>>
  <2>1. Len(st) - 0 + 1 \in Int /\ Len(st) \in Int /\ Len(st) < Len(st) - 0 + 1
    BY <1>2
  <2>2. QED
    BY <2>1, SubSeqEmpty
<1>6. ASSUME NEW got, Fine(got) PROVE Again(m, got, 0) = got
  <2>1. PICK rest \in Seq(ValuesOf(got)) : rest = got.stack
    BY <1>6 DEF Fine, Typed
  <2>2. rest \o <<>> = rest
    BY ConcatEmptySeq
  <2>3. Again(m, got, 0) = [got EXCEPT !.stack = rest \o <<>>]
    BY <1>1, <1>2, <1>5, <2>1 DEF Again
  <2>4. QED
    BY <1>6, <2>1, <2>2, <2>3 DEF Fine, Typed, Whole
<1>7. QED
  BY <1>4, <1>6

LEMMA SuperEitherWay ==
  ASSUME NEW m, Fine(m), m.status = "running", Has(m, 2), NEW name,
         IsA(Peek(m, 0), "class"), IsA(Peek(m, 1), "instance")
  PROVE  LET got == GetSuper(m, name)
         IN  SameOutcome(SuperInvoke(m, name, 0),
                         IF got.status # "running" THEN got ELSE Call(got, 0))
<1>1. PICK d, k, got : d = Drop(m, 1) /\ k = Peek(m, 0)[2] /\ got = GetSuper(m, name)
  OBVIOUS
<1>2. 0 \in Nat /\ Has(m, 0 + 1) /\ Has(m, 0 + 2)
  BY LiveFrame DEF Has
<1>3. /\ Fine(d) /\ d.status = "running" /\ Has(d, 0 + 1) /\ Peek(d, 0) = Peek(m, 1)
      /\ d.classes = m.classes
  <2>1. Peek(d, 0) = Peek(m, 0 + 1)
    BY <1>1, <1>2, DropOne
  <2>2. QED
    BY <1>1, <1>2, <2>1, DropOne
<1>4. k \in 1 .. Len(d.classes)
  <2>1. Peek(m, 0) \in ValuesOf(m)
    BY <1>2, PeekTyped
  <2>2. QED
    BY <1>1, <1>3, <2>1, Tags
<1>5. SuperInvoke(m, name, 0) = InvokeFromClass(d, k, name, 0) /\ got = BindMethod(d, k, name)
  BY <1>1 DEF SuperInvoke, GetSuper
<1>6. CASE name \notin DOMAIN d.classes[k]
  <2>1. InvokeFromClass(d, k, name, 0) = RuntimeError(d) /\ got = RuntimeError(d)
    BY <1>5, <1>6 DEF InvokeFromClass, BindMethod
  <2>2. got.status = "error"
    BY <1>3, <2>1, BothFail
  <2>3. QED
    BY <1>1, <1>5, <2>1, <2>2, SameOutcomeReflexive
<1>7. CASE name \in DOMAIN d.classes[k]
  <2>1. Drop(d, 0) = d
    BY <1>3, NoArguments
  <2>2. /\ got.status = "running"
        /\ SameOutcome(InvokeFromClass(d, k, name, 0), Call(Again(d, got, 0), 0))
    BY <1>2, <1>3, <1>4, <1>5, <1>7, <2>1, MethodEitherWay
  <2>3. Fine(got)
    BY <1>3, <1>4, <1>5, BindMethodFine
  <2>4. Again(d, got, 0) = got
    BY <1>3, <2>3, NoArguments
  <2>5. QED
    BY <1>1, <1>5, <2>2, <2>4
<1>8. QED
  BY <1>6, <1>7

(* A method of the superclass that is called without arguments does the    *)
(* same whether the compiler emitted SUPER_INVOKE or GET_SUPER and CALL.   *)
THEOREM SuperInvokeFused == Spec => []SuperInvokeIsGetThenCall
<1>1. Fine(vm) => SuperInvokeIsGetThenCall
  BY SuperEitherWay DEF SuperInvokeIsGetThenCall, Running
<1>2. QED
  BY <1>1, ObjectsInvariance, PTL

=============================================================================
