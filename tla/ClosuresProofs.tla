--------------------------- MODULE ClosuresProofs ---------------------------
(***************************************************************************)
(* The safety invariants of Closures hold for every value of its           *)
(* constants: any number of values, slots, frames, closures and upvalues.  *)
(***************************************************************************)
EXTENDS Closures, WellFoundedInduction, SequenceTheorems, TLAPS

-----------------------------------------------------------------------------
(* What the two walks over VM::openUpvalues do to a list that descends     *)
(* strictly, for lists of any length.                                      *)

(* A nonempty set of natural numbers has a least element.                  *)
LEMMA MinOfNats ==
  ASSUME NEW I \in SUBSET Nat, I # {}
  PROVE  Min(I) \in I /\ \A j \in I : Min(I) <= j
<1>1. PICK x \in I : \A y \in I : ~ (<<y, x>> \in OpToRel(<, Nat))
  BY NatLessThanWellFounded, WFMin
<1>2. ASSUME NEW y \in I
      PROVE  x <= y
  <2>1. y < x => <<y, x>> \in OpToRel(<, Nat)
    <3>1. <<y, x>> \in Nat \X Nat /\ <<y, x>>[1] = y /\ <<y, x>>[2] = x
      OBVIOUS
    <3>2. QED
      BY <3>1 DEF OpToRel
  <2>2. ~ (y < x)
    BY <2>1, <1>1, Zenon
  <2>3. x \in Nat /\ y \in Nat
    OBVIOUS
  <2>4. QED
    BY <2>2, <2>3
<1>3. QED
  BY <1>2 DEF Min

LeastOrZero(I) == IF I # {} THEN Min(I) ELSE 0

(* A walk stops at the first upvalue that passes its test, if there is     *)
(* one: every upvalue before it fails the test.                            *)
LEMMA WalkStopsAtFirst ==
  ASSUME NEW n \in Nat, NEW I \in SUBSET (1 .. n),
         NEW k, k = LeastOrZero(I)
  PROVE  \/ k = 0 /\ I = {}
         \/ k \in I /\ \A i \in 1 .. k-1 : i \in 1 .. n /\ i \notin I
<1>1. CASE I = {}
  BY <1>1 DEF LeastOrZero
<1>2. CASE I # {}
  <2>1. k \in I /\ \A j \in I : k <= j
    BY <1>2, MinOfNats DEF LeastOrZero
  <2>2. \A i \in 1 .. k-1 : i \in 1 .. n /\ ~ (k <= i)
    BY <2>1
  <2>3. QED
    BY <2>1, <2>2
<1>3. QED
  BY <1>1, <1>2

(* `at' gives the location of the upvalue at each of the n positions of a  *)
(* list: position k is the first at most `slot'.                           *)
StopsAt(k, n, at, slot) ==
  \/ k = 0 /\ \A i \in 1 .. n : at[i] > slot
  \/ /\ k \in 1 .. n /\ at[k] <= slot
     /\ \A i \in 1 .. k-1 : i \in 1 .. n /\ at[i] > slot

LEMMA FirstAtMost ==
  ASSUME NEW n \in Nat, NEW at \in [1 .. n -> Nat], NEW slot \in Int,
         NEW k, k = LeastOrZero({i \in 1 .. n : at[i] <= slot})
  PROVE  StopsAt(k, n, at, slot)
<1> DEFINE I == {i \in 1 .. n : at[i] <= slot}
<1>1. I \in SUBSET (1 .. n) /\ k = LeastOrZero(I)
  OBVIOUS
<1>2. \/ k = 0 /\ I = {}
      \/ k \in I /\ \A i \in 1 .. k-1 : i \in 1 .. n /\ i \notin I
  <2> HIDE DEF I
  <2> QED BY <1>1, WalkStopsAtFirst
<1>3. \A i \in 1 .. n : i \notin I <=> at[i] > slot
  OBVIOUS
<1>4. \A i \in I : i \in 1 .. n /\ at[i] <= slot
  OBVIOUS
<1> HIDE DEF I
<1>5. CASE k = 0 /\ I = {}
  BY <1>3, <1>5 DEF StopsAt
<1>6. CASE k \in I /\ \A i \in 1 .. k-1 : i \in 1 .. n /\ i \notin I
  BY <1>3, <1>4, <1>6 DEF StopsAt
<1>7. QED
  BY <1>2, <1>5, <1>6

Locations(list, loc) == [i \in 1 .. Len(list) |-> loc[list[i]]]

LEMMA LocationsType ==
  ASSUME NEW loc \in Seq(Nat), NEW list \in Seq(1 .. Len(loc))
  PROVE  /\ Len(list) \in Nat
         /\ Locations(list, loc) \in [1 .. Len(list) -> Nat]
         /\ \A i \in 1 .. Len(list) :
              /\ list[i] \in 1 .. Len(loc)
              /\ Locations(list, loc)[i] = loc[list[i]]
<1>1. Len(list) \in Nat
  OBVIOUS
<1>2. \A i \in 1 .. Len(list) : list[i] \in 1 .. Len(loc)
  OBVIOUS
<1>3. \A w \in 1 .. Len(loc) : loc[w] \in Nat
  OBVIOUS
<1>4. \A i \in 1 .. Len(list) : loc[list[i]] \in Nat
  BY <1>2, <1>3, Zenon
<1>5. QED
  BY <1>1, <1>2, <1>4 DEF Locations

LEMMA FirstNotAboveIsFirst ==
  ASSUME NEW loc \in Seq(Nat), NEW list \in Seq(1 .. Len(loc)),
         NEW slot \in Nat,
         NEW k, k = FirstNotAbove(list, loc, slot),
         NEW at, at = Locations(list, loc)
  PROVE  \/ k = 0 /\ \A i \in 1 .. Len(list) : at[i] > slot
         \/ /\ k \in 1 .. Len(list) /\ at[k] <= slot
            /\ \A i \in 1 .. k-1 : i \in 1 .. Len(list) /\ at[i] > slot
<1>1. {i \in 1 .. Len(list) : loc[list[i]] <= slot}
        = {i \in 1 .. Len(list) : at[i] <= slot}
  BY LocationsType
<1>2. k = LeastOrZero({i \in 1 .. Len(list) : at[i] <= slot})
  BY <1>1 DEF FirstNotAbove, SelectInSeq, LeastOrZero
<1>3. Len(list) \in Nat /\ at \in [1 .. Len(list) -> Nat]
  BY LocationsType, Zenon
<1>4. slot \in Int
  OBVIOUS
<1>5. StopsAt(k, Len(list), at, slot)
  BY <1>2, <1>3, <1>4, FirstAtMost, Zenon
<1>6. QED
  BY <1>5 DEF StopsAt

LEMMA FirstBelowIsFirst ==
  ASSUME NEW loc \in Seq(Nat), NEW list \in Seq(1 .. Len(loc)),
         NEW last \in Nat,
         NEW k, k = SelectInSeq(list, LAMBDA u : loc[u] < last),
         NEW at, at = Locations(list, loc)
  PROVE  \/ k = 0 /\ \A i \in 1 .. Len(list) : at[i] >= last
         \/ /\ k \in 1 .. Len(list) /\ at[k] < last
            /\ \A i \in 1 .. k-1 : i \in 1 .. Len(list) /\ at[i] >= last
<1>1. Len(list) \in Nat /\ at \in [1 .. Len(list) -> Nat]
  BY LocationsType
<1>2. {i \in 1 .. Len(list) : loc[list[i]] < last}
        = {i \in 1 .. Len(list) : at[i] < last}
  BY LocationsType
<1>3. {i \in 1 .. Len(list) : at[i] < last}
        = {i \in 1 .. Len(list) : at[i] <= last - 1}
  BY <1>1
<1>4. k = LeastOrZero({i \in 1 .. Len(list) : at[i] <= last - 1})
  BY <1>2, <1>3 DEF SelectInSeq, LeastOrZero
<1>5. \/ k = 0 /\ \A i \in 1 .. Len(list) : at[i] > last - 1
      \/ /\ k \in 1 .. Len(list) /\ at[k] <= last - 1
         /\ \A i \in 1 .. k-1 : i \in 1 .. Len(list) /\ at[i] > last - 1
  <2>1. last - 1 \in Int
    OBVIOUS
  <2>2. Len(list) \in Nat /\ at \in [1 .. Len(list) -> Nat]
    BY LocationsType, Zenon
  <2>3. StopsAt(k, Len(list), at, last - 1)
    BY <1>4, <2>1, <2>2, FirstAtMost, Zenon
  <2>4. QED
    BY <2>3 DEF StopsAt
<1>6. \A i \in 1 .. Len(list) : /\ at[i] > last - 1 <=> at[i] >= last
                                /\ at[i] <= last - 1 <=> at[i] < last
  BY <1>1
<1> QED
  BY <1>5, <1>6

-----------------------------------------------------------------------------

(* captureUpvalue finds the upvalue of a slot whenever the list has one:   *)
(* its walk over a descending list does not stop too early.                *)
LEMMA CapturesFindsSlot ==
  ASSUME NEW loc \in Seq(Nat), NEW list \in Seq(1 .. Len(loc)),
         NEW slot \in Nat,
         Descending(list, loc)
  PROVE  /\ Captures(list, loc, slot)
              <=> \E i \in 1 .. Len(list) : loc[list[i]] = slot
         /\ Captures(list, loc, slot)
              => FirstNotAbove(list, loc, slot) \in 1 .. Len(list)
<1> DEFINE k  == FirstNotAbove(list, loc, slot)
           at == Locations(list, loc)
<1>1. \/ k = 0 /\ \A i \in 1 .. Len(list) : at[i] > slot
      \/ /\ k \in 1 .. Len(list) /\ at[k] <= slot
         /\ \A i \in 1 .. k-1 : i \in 1 .. Len(list) /\ at[i] > slot
  BY FirstNotAboveIsFirst
<1>2. /\ Len(list) \in Nat /\ at \in [1 .. Len(list) -> Nat]
      /\ \A i \in 1 .. Len(list) : at[i] = loc[list[i]]
  BY LocationsType
<1>3. \A i, j \in 1 .. Len(list) : i < j => at[i] > at[j]
  BY <1>2 DEF Descending
<1>4. Captures(list, loc, slot) <=> k # 0 /\ loc[list[k]] = slot
  BY DEF Captures
<1> HIDE DEF k, at
<1>5. ASSUME NEW i \in 1 .. Len(list), at[i] = slot
      PROVE  k # 0 /\ at[k] = slot
  <2>1. k \in 1 .. Len(list) /\ at[k] <= slot
    <3>1. ~ (at[i] > slot)
      BY <1>5
    <3>2. QED
      BY <1>1, <1>5, <3>1
  <2>2. ~ (i < k)
    <3>1. SUFFICES ASSUME i < k PROVE FALSE
      OBVIOUS
    <3>2. k \in Nat /\ k # 0 /\ i \in Nat /\ i >= 1
      BY <1>2, <2>1
    <3>3. i \in 1 .. k-1
      BY <3>1, <3>2
    <3>4. at[i] > slot
      BY <1>1, <3>2, <3>3
    <3>5. QED
      BY <1>5, <3>4
  <2>3. ~ (k < i)
    <3>1. k < i => at[k] > at[i]
      BY <1>3, <1>5, <2>1
    <3>2. at[k] \in Nat /\ at[i] = slot
      BY <1>2, <1>5, <2>1
    <3>3. QED
      BY <2>1, <3>1, <3>2
  <2>4. k = i
    BY <1>2, <1>5, <2>1, <2>2, <2>3
  <2>5. QED
    BY <1>5, <2>1, <2>4
<1>6. k # 0 => k \in 1 .. Len(list)
  BY <1>1
<1>7. (\E i \in 1 .. Len(list) : at[i] = slot)
         <=> \E i \in 1 .. Len(list) : loc[list[i]] = slot
  BY <1>2
<1>8. Captures(list, loc, slot) <=> k # 0 /\ at[k] = slot
  BY <1>2, <1>4, <1>6
<1>9. QED
  BY <1>5, <1>6, <1>7, <1>8 DEF k

-----------------------------------------------------------------------------

LEMMA InsertAtProperties ==
  ASSUME NEW S, NEW list \in Seq(S), NEW m \in 1 .. Len(list), NEW u \in S,
         NEW linked, linked = InsertAt(list, m, u)
  PROVE  /\ linked \in Seq(S)
         /\ Len(linked) = Len(list) + 1
         /\ \A i \in 1 .. Len(list) + 1 :
              linked[i] = IF i < m THEN list[i]
                          ELSE IF i = m THEN u ELSE list[i-1]
<1> DEFINE n    == Len(list)
           pre  == SubSeq(list, 1, m - 1)
           post == SubSeq(list, m, n)
           left == pre \o <<u>>
<1>1. n \in Nat /\ m \in Int /\ 1 <= m /\ m <= n
  OBVIOUS
<1>2. /\ pre \in Seq(S) /\ Len(pre) = m - 1
      /\ \A i \in 1 .. m-1 : pre[i] = list[i]
  <2>1. \A i \in 1 .. m-1 : list[i] \in S
    BY <1>1
  <2>2. 1 \in Int /\ m-1 \in Int
    BY <1>1
  <2>3. /\ pre \in Seq(S) /\ Len(pre) = IF 1 <= m-1 THEN m-1-1+1 ELSE 0
        /\ \A i \in 1 .. m-1-1+1 : pre[i] = list[1+i-1]
    <3> HIDE DEF pre, n
    <3> QED BY <2>1, <2>2, SubSeqProperties DEF pre
  <2>4. QED
    BY <1>1, <2>3
<1>3. /\ post \in Seq(S) /\ Len(post) = n - m + 1
      /\ \A i \in 1 .. n-m+1 : post[i] = list[m+i-1]
  <2>1. \A i \in m .. n : list[i] \in S
    BY <1>1
  <2>2. m \in Int /\ n \in Int
    BY <1>1
  <2>3. /\ post \in Seq(S) /\ Len(post) = IF m <= n THEN n-m+1 ELSE 0
        /\ \A i \in 1 .. n-m+1 : post[i] = list[m+i-1]
    <3> HIDE DEF post, n
    <3> QED BY <2>1, <2>2, SubSeqProperties DEF post
  <2>4. QED
    BY <1>1, <2>3
<1>4. <<u>> \in Seq(S) /\ Len(<<u>>) = 1 /\ <<u>>[1] = u
  OBVIOUS
<1> HIDE DEF pre, post, n
<1>5. /\ left \in Seq(S) /\ Len(left) = m
      /\ \A i \in 1 .. m : left[i] = IF i <= m - 1 THEN pre[i] ELSE <<u>>[i - (m - 1)]
  <2>1. /\ left \in Seq(S) /\ Len(left) = Len(pre) + Len(<<u>>)
        /\ \A i \in 1 .. Len(pre) + Len(<<u>>) :
             left[i] = IF i <= Len(pre) THEN pre[i] ELSE <<u>>[i - Len(pre)]
    BY <1>2, <1>4, ConcatProperties
  <2>2. Len(pre) + Len(<<u>>) = m
    BY <1>1, <1>2, <1>4
  <2>3. QED
    BY <1>2, <2>1, <2>2
<1>6. linked = left \o post
  BY DEF InsertAt, pre, post, n
<1> HIDE DEF left
<1>7. /\ linked \in Seq(S) /\ Len(linked) = n + 1
      /\ \A i \in 1 .. n + 1 : linked[i] = IF i <= m THEN left[i] ELSE post[i - m]
  <2>1. /\ linked \in Seq(S) /\ Len(linked) = Len(left) + Len(post)
        /\ \A i \in 1 .. Len(left) + Len(post) :
             linked[i] = IF i <= Len(left) THEN left[i] ELSE post[i - Len(left)]
    <3>1. left \in Seq(S) /\ post \in Seq(S)
      BY <1>3, <1>5
    <3>2. QED
      BY <1>6, <3>1, ConcatProperties
  <2>2. Len(left) + Len(post) = n + 1
    BY <1>1, <1>3, <1>5
  <2>3. QED
    BY <1>5, <2>1, <2>2
<1>8. ASSUME NEW i \in 1 .. n + 1
      PROVE  linked[i] = IF i < m THEN list[i]
                         ELSE IF i = m THEN u ELSE list[i-1]
  <2>1. CASE i < m
    <3>1. linked[i] = left[i]
      BY <1>1, <1>7, <2>1
    <3>2. i \in 1 .. m - 1
      BY <1>1, <2>1
    <3>3. left[i] = list[i]
      BY <1>1, <1>2, <1>5, <2>1, <3>2
    <3>4. QED
      BY <2>1, <3>1, <3>3
  <2>2. CASE i = m
    <3>1. left[m] = <<u>>[1]
      BY <1>1, <1>5
    <3>2. QED
      BY <1>1, <1>4, <1>7, <2>2, <3>1
  <2>3. CASE i > m
    <3>1. i - m \in 1 .. n-m+1 /\ m + (i - m) - 1 = i - 1 /\ ~ (i <= m)
      BY <1>1, <2>3
    <3>2. post[i - m] = list[i-1]
      BY <1>3, <3>1
    <3>3. QED
      BY <1>1, <1>7, <2>3, <3>1, <3>2
  <2>4. QED
    BY <1>1, <2>1, <2>2, <2>3
<1>9. QED
  BY <1>7, <1>8 DEF n

(* An upvalue joins a list where the walk stopped, at the end if k is 0.   *)
Inserted(list, k, u) == IF k = 0 THEN Append(list, u) ELSE InsertAt(list, k, u)
Position(list, k)    == IF k = 0 THEN Len(list) + 1 ELSE k

IsInsertion(S, linked, list, m, u) ==
  /\ linked \in Seq(S)
  /\ Len(linked) = Len(list) + 1
  /\ \A i \in 1 .. Len(list) + 1 :
       linked[i] = IF i < m THEN list[i] ELSE IF i = m THEN u ELSE list[i-1]

LEMMA InsertedProperties ==
  ASSUME NEW S, NEW list \in Seq(S), NEW u \in S, NEW k \in 0 .. Len(list)
  PROVE  IsInsertion(S, Inserted(list, k, u), list, Position(list, k), u)
<1>1. Len(list) \in Nat
  OBVIOUS
<1>2. CASE k = 0
  <2>1. Inserted(list, k, u) = Append(list, u) /\ Position(list, k) = Len(list) + 1
    BY <1>2 DEF Inserted, Position
  <2>2. /\ Append(list, u) \in Seq(S) /\ Len(Append(list, u)) = Len(list) + 1
        /\ \A i \in 1 .. Len(list) : Append(list, u)[i] = list[i]
        /\ Append(list, u)[Len(list) + 1] = u
    BY AppendProperties
  <2>3. IsInsertion(S, Append(list, u), list, Len(list) + 1, u)
    BY <1>1, <2>2 DEF IsInsertion
  <2>4. QED
    BY <2>1, <2>3
<1>3. CASE k # 0
  <2>1. k \in 1 .. Len(list)
    BY <1>1, <1>3
  <2>2. Inserted(list, k, u) = InsertAt(list, k, u) /\ Position(list, k) = k
    BY <1>3 DEF Inserted, Position
  <2>3. IsInsertion(S, InsertAt(list, k, u), list, k, u)
    BY <2>1, InsertAtProperties DEF IsInsertion
  <2>4. QED
    BY <2>2, <2>3
<1>4. QED
  BY <1>2, <1>3

(* Is w in the list?                                                       *)
In(list, w) == \E i \in 1 .. Len(list) : list[i] = w

(* Linking a new upvalue in where the walk stopped keeps the list          *)
(* descending, and adds nothing but the new upvalue.                       *)
IsLinked(list, loc, slot, u, linked) ==
  /\ linked \in Seq(1 .. Len(loc) + 1)
  /\ Descending(linked, Append(loc, slot))
  /\ \A w \in 1 .. Len(loc) + 1 :
       In(linked, w) <=> w = u \/ In(list, w)

LEMMA LinkKeepsDescending ==
  ASSUME NEW loc \in Seq(Nat), NEW list \in Seq(1 .. Len(loc)),
         NEW slot \in Nat,
         Descending(list, loc),
         ~ Captures(list, loc, slot),
         NEW u, u = Len(loc) + 1
  PROVE  IsLinked(list, loc, slot, u, Link(list, loc, slot, u))
<1>0. PICK linked : linked = Link(list, loc, slot, u)
  OBVIOUS
<1> DEFINE n     == Len(list)
           at    == Locations(list, loc)
           moved == Append(loc, slot)
<1>1. /\ n \in Nat /\ at \in [1 .. n -> Nat] /\ Len(loc) \in Nat
      /\ \A i \in 1 .. n : list[i] \in 1 .. Len(loc)
                           /\ at[i] = loc[list[i]]
  BY LocationsType
<1>2. \A i, j \in 1 .. n : i < j => at[i] > at[j]
  BY <1>1 DEF Descending
<1>3. \A i \in 1 .. n : at[i] # slot
  <2>1. ~ \E i \in 1 .. Len(list) : loc[list[i]] = slot
    BY CapturesFindsSlot
  <2>2. QED
    BY <1>1, <2>1
<1>4. PICK k : k = FirstNotAbove(list, loc, slot)
  OBVIOUS
<1>5. \/ k = 0 /\ \A i \in 1 .. n : at[i] > slot
      \/ /\ k \in 1 .. n /\ at[k] <= slot
         /\ \A i \in 1 .. k-1 : i \in 1 .. n /\ at[i] > slot
  BY <1>4, FirstNotAboveIsFirst
<1>6. /\ Position(list, k) = IF k = 0 THEN n + 1 ELSE k
      /\ Position(list, k) \in 1 .. n + 1
  BY <1>1, <1>5 DEF Position
<1>7. PICK m \in 1 .. n + 1 :
        /\ m = Position(list, k)
        /\ \A i \in 1 .. m - 1 : i \in 1 .. n /\ at[i] > slot
        /\ m <= n => at[m] <= slot
  <2> HIDE DEF n, at
  <2>1. CASE k = 0
    BY <1>1, <1>5, <1>6, <2>1
  <2>2. CASE k # 0
    BY <1>1, <1>5, <1>6, <2>2
  <2>3. QED
    BY <2>1, <2>2
<1>8. /\ linked \in Seq(1 .. Len(loc) + 1) /\ Len(linked) = n + 1
      /\ \A i \in 1 .. n + 1 :
           linked[i] = IF i < m THEN list[i]
                       ELSE IF i = m THEN u ELSE list[i-1]
  <2>1. linked = Inserted(list, k, u)
    BY <1>0, <1>4 DEF Link, Inserted
  <2>2. PICK U : U = 1 .. Len(loc) + 1
    OBVIOUS
  <2>3. list \in Seq(U) /\ u \in U
    <3>1. 1 .. Len(loc) \subseteq U /\ u \in U
      BY <1>1, <2>2
    <3>2. QED
      BY <3>1, SeqMonotonic, Zenon
  <2>4. k \in 0 .. Len(list)
    BY <1>1, <1>5
  <2>5. IsInsertion(U, linked, list, m, u)
    BY <1>7, <2>1, <2>3, <2>4, InsertedProperties, Zenon
  <2>6. QED
    BY <2>2, <2>5 DEF IsInsertion
<1>at. \A i \in 1 .. n + 1 : linked[i] = IF i < m THEN list[i]
                                  ELSE IF i = m THEN u ELSE list[i-1]
  BY <1>8
<1>9. /\ \A w \in 1 .. Len(loc) : moved[w] = loc[w]
      /\ moved[u] = slot
  BY AppendProperties
<1> HIDE DEF n, at, moved
<1>10. \A i \in 1 .. n + 1 :
        /\ i < m => i \in 1 .. n /\ moved[linked[i]] = at[i]
        /\ i = m => moved[linked[i]] = slot
        /\ i > m => i - 1 \in 1 .. n /\ moved[linked[i]] = at[i-1]
  <2> TAKE i \in 1 .. n + 1
  <2>1. CASE i < m
    <3>1. i \in 1 .. n /\ linked[i] = list[i]
      BY <1>1, <1>at, <2>1
    <3>2. list[i] \in 1 .. Len(loc) /\ at[i] = loc[list[i]]
      BY <1>1, <3>1
    <3>3. moved[linked[i]] = at[i]
      BY <1>9, <3>1, <3>2
    <3>4. i # m /\ ~ (i > m)
      BY <1>1, <2>1
    <3>5. QED
      BY <3>1, <3>3, <3>4
  <2>2. CASE i = m
    BY <1>1, <1>at, <1>9, <2>2
  <2>3. CASE i > m
    <3>1. i - 1 \in 1 .. n /\ linked[i] = list[i-1]
      BY <1>1, <1>at, <2>3
    <3>2. moved[linked[i]] = at[i-1]
      BY <1>1, <1>9, <3>1
    <3>3. ~ (i < m) /\ i # m
      BY <1>1, <2>3
    <3>4. QED
      BY <3>1, <3>2, <3>3
  <2>4. i < m \/ i = m \/ i > m
    BY <1>1
  <2>5. QED
    BY <2>1, <2>2, <2>3, <2>4, Zenon
<1>11. \A i \in m .. n : at[i] < slot
  <2> TAKE i \in m .. n
  <2>1. m \in 1 .. n /\ i \in 1 .. n /\ at[m] <= slot /\ at[m] # slot
    BY <1>1, <1>3, <1>7
  <2>2. i = m \/ at[m] > at[i]
    BY <1>1, <1>2, <2>1
  <2>3. QED
    BY <1>1, <2>1, <2>2
<1>12. ASSUME NEW i \in 1 .. n + 1, NEW j \in 1 .. n + 1, i < j
      PROVE  moved[linked[i]] > moved[linked[j]]
  <2>1. CASE j < m
    <3>1. i < m /\ i \in 1 .. n /\ j \in 1 .. n
      BY <1>1, <1>12, <2>1
    <3>2. QED
      BY <1>2, <1>10, <1>12, <2>1, <3>1
  <2>2. CASE j = m
    <3>1. i < m /\ i \in 1 .. m - 1
      BY <1>1, <1>12, <2>2
    <3>2. QED
      BY <1>7, <1>10, <2>2, <3>1
  <2>3. CASE j > m /\ i < m
    <3>1. i \in 1 .. m - 1 /\ j - 1 \in m .. n /\ i \in 1 .. n /\ j - 1 \in 1 .. n
      BY <1>1, <2>3
    <3>2. at[i] > slot /\ slot > at[j-1]
      BY <1>1, <1>7, <1>11, <3>1
    <3>3. QED
      BY <1>1, <1>10, <2>3, <3>1, <3>2
  <2>4. CASE j > m /\ i = m
    <3>1. j - 1 \in m .. n
      BY <1>1, <2>4
    <3>2. QED
      BY <1>1, <1>10, <1>11, <2>4, <3>1
  <2>5. CASE j > m /\ i > m
    <3>1. i - 1 \in 1 .. n /\ j - 1 \in 1 .. n /\ i - 1 < j - 1
      BY <1>1, <1>12, <2>5
    <3>2. QED
      BY <1>2, <1>10, <2>5, <3>1
  <2>6. QED
    BY <1>1, <2>1, <2>2, <2>3, <2>4, <2>5
<1>13. Descending(linked, moved)
  BY <1>8, <1>12 DEF Descending
<1>14. ASSUME NEW w \in 1 .. Len(loc) + 1
       PROVE  (\E i \in 1 .. n + 1 : linked[i] = w)
                <=> w = u \/ \E i \in 1 .. n : list[i] = w
  <2>1. ASSUME NEW i \in 1 .. n + 1, linked[i] = w
        PROVE  w = u \/ \E j \in 1 .. n : list[j] = w
    <3>1. CASE i < m
      <4>1. i \in 1 .. n /\ linked[i] = list[i]
        BY <1>1, <1>at, <3>1
      <4>2. QED
        BY <2>1, <4>1
    <3>2. CASE i = m
      BY <1>at, <2>1, <3>2
    <3>3. CASE i > m
      <4>1. i - 1 \in 1 .. n /\ linked[i] = list[i-1]
        BY <1>1, <1>at, <3>3
      <4>2. QED
        BY <2>1, <4>1
    <3>4. QED
      BY <1>1, <3>1, <3>2, <3>3
  <2>2. linked[m] = u
    BY <1>1, <1>at
  <2>3. ASSUME NEW j \in 1 .. n, list[j] = w
        PROVE  \E i \in 1 .. n + 1 : linked[i] = w
    <3>1. CASE j < m
      <4>1. j \in 1 .. n + 1 /\ linked[j] = list[j]
        BY <1>1, <1>at, <3>1
      <4>2. QED
        BY <2>3, <4>1
    <3>2. CASE j >= m
      <4>1. j + 1 \in 1 .. n + 1 /\ linked[j+1] = list[j]
        BY <1>1, <1>at, <3>2
      <4>2. QED
        BY <2>3, <4>1
    <3>3. QED
      BY <1>1, <3>1, <3>2
  <2>4. QED
    BY <2>1, <2>2, <2>3
<1>15. QED
  BY <1>0, <1>8, <1>13, <1>14 DEF IsLinked, In, n, moved

-----------------------------------------------------------------------------

(* closeUpvalue(last) unlinks exactly the upvalues at or above `last' when *)
(* the list descends: those it leaves are all below, and still descend.    *)
IsSplit(list, loc, last, rest, gone) ==
  /\ rest \in Seq(1 .. Len(loc))
  /\ Descending(rest, loc)
  /\ \A w \in 1 .. Len(loc) :
       /\ In(rest, w) <=> In(list, w) /\ loc[w] < last
       /\ w \in gone  <=> In(list, w) /\ loc[w] >= last

LEMMA CloseSplits ==
  ASSUME NEW loc \in Seq(Nat), NEW list \in Seq(1 .. Len(loc)),
         NEW last \in Nat,
         Descending(list, loc)
  PROVE  IsSplit(list, loc, last, Remaining(list, loc, last),
                                       Unlinked(list, loc, last))
<1> DEFINE n    == Len(list)
           at   == Locations(list, loc)
           rest == Remaining(list, loc, last)
           gone == Unlinked(list, loc, last)
<1>1. /\ n \in Nat /\ at \in [1 .. n -> Nat] /\ Len(loc) \in Nat
      /\ \A i \in 1 .. n : list[i] \in 1 .. Len(loc)
                           /\ at[i] = loc[list[i]]
  BY LocationsType
<1>2. \A i, j \in 1 .. n : i < j => at[i] > at[j]
  BY <1>1 DEF Descending
<1>3. PICK k : k = SelectInSeq(list, LAMBDA u : loc[u] < last)
  OBVIOUS
<1>4. \/ k = 0 /\ \A i \in 1 .. n : at[i] >= last
      \/ /\ k \in 1 .. n /\ at[k] < last
         /\ \A i \in 1 .. k-1 : i \in 1 .. n /\ at[i] >= last
  BY <1>3, FirstBelowIsFirst
<1>5. /\ rest = IF k = 0 THEN <<>> ELSE SubSeq(list, k, n)
      /\ gone = IF k = 0 THEN ToSet(list) ELSE {list[i] : i \in 1 .. k-1}
  BY <1>3 DEF Remaining, Unlinked
<1>6. CASE k = 0
  <2>1. rest = <<>> /\ gone = {list[i] : i \in 1 .. n}
    BY <1>5, <1>6 DEF ToSet
  <2>2. ASSUME NEW w \in 1 .. Len(loc)
        PROVE  /\ In(rest, w) <=> In(list, w) /\ loc[w] < last
               /\ w \in gone  <=> In(list, w) /\ loc[w] >= last
    <3>1. In(list, w) => loc[w] >= last
      BY <1>1, <1>4, <1>6 DEF In
    <3>2. ~ In(rest, w)
      BY <2>1 DEF In
    <3>3. w \in gone <=> In(list, w)
      BY <2>1 DEF In
    <3>4. loc[w] \in Nat
      OBVIOUS
    <3>5. QED
      BY <3>1, <3>2, <3>3, <3>4
  <2>3. rest \in Seq(1 .. Len(loc)) /\ Descending(rest, loc)
    BY <2>1 DEF Descending
  <2>4. QED
    BY <2>2, <2>3 DEF IsSplit
<1>7. CASE k # 0
  <2>1. k \in 1 .. n /\ at[k] < last /\ \A i \in 1 .. k-1 : i \in 1 .. n /\ at[i] >= last
    BY <1>4, <1>7
  <2>2. \A i \in k .. n : i \in 1 .. n /\ at[i] < last
    <3> TAKE i \in k .. n
    <3>1. i \in 1 .. n
      BY <1>1, <2>1
    <3> HIDE DEF n, at
    <3>2. i = k \/ at[k] > at[i]
      BY <1>1, <1>2, <2>1, <3>1
    <3>3. at[k] \in Nat /\ at[i] \in Nat
      BY <1>1, <2>1, <3>1
    <3>4. QED
      BY <2>1, <3>1, <3>2, <3>3
  <2>3. /\ rest \in Seq(1 .. Len(loc))
        /\ Len(rest) = n - k + 1
        /\ \A i \in 1 .. n-k+1 : rest[i] = list[k+i-1]
    <3>1. k \in Int /\ n \in Int /\ k <= n
      BY <1>1, <2>1
    <3>2. \A i \in k .. n : list[i] \in 1 .. Len(loc)
      BY <1>1, <2>2
    <3>3. rest = SubSeq(list, k, n)
      BY <1>5, <1>7
    <3> HIDE DEF n, rest
    <3>4. QED
      BY <3>1, <3>2, <3>3, SubSeqProperties
  <2>4. gone = {list[i] : i \in 1 .. k-1}
    BY <1>5, <1>7
  <2> HIDE DEF n, at, rest, gone
  <2>5. \A i \in 1 .. n-k+1 : k+i-1 \in 1 .. n /\ loc[rest[i]] = at[k+i-1]
    <3> TAKE i \in 1 .. n-k+1
    <3>1. k+i-1 \in 1 .. n /\ rest[i] = list[k+i-1]
      BY <1>1, <2>1, <2>3
    <3>2. QED
      BY <1>1, <3>1
  <2>6. ASSUME NEW i \in 1 .. n-k+1, NEW j \in 1 .. n-k+1, i < j
        PROVE  loc[rest[i]] > loc[rest[j]]
    <3>1. k+i-1 \in 1 .. n /\ k+j-1 \in 1 .. n /\ k+i-1 < k+j-1
      BY <1>1, <2>1, <2>6
    <3>2. QED
      BY <1>2, <2>5, <3>1
  <2>7. Descending(rest, loc)
    BY <2>3, <2>6 DEF Descending
  <2>8. ASSUME NEW w \in 1 .. Len(loc)
        PROVE  In(rest, w) <=> In(list, w) /\ loc[w] < last
    <3>1. ASSUME NEW i \in 1 .. n-k+1, rest[i] = w
          PROVE  In(list, w) /\ loc[w] < last
      <4>1. k+i-1 \in k .. n
        BY <1>1, <2>1
      <4>2. list[k+i-1] = w /\ at[k+i-1] < last /\ k+i-1 \in 1 .. n
        BY <2>2, <2>3, <3>1, <4>1
      <4>3. QED
        BY <1>1, <4>2 DEF In, n
    <3>2. ASSUME NEW j \in 1 .. n, list[j] = w, loc[w] < last
          PROVE  \E i \in 1 .. n-k+1 : rest[i] = w
      <4>1. at[j] < last
        BY <1>1, <3>2
      <4>2. ~ (j \in 1 .. k-1)
        BY <1>1, <2>1, <4>1
      <4>3. j-k+1 \in 1 .. n-k+1 /\ k+(j-k+1)-1 = j
        BY <1>1, <2>1, <4>2
      <4>4. QED
        BY <2>3, <3>2, <4>3
    <3>3. QED
      BY <2>3, <3>1, <3>2 DEF In, n
  <2>9. ASSUME NEW w \in 1 .. Len(loc)
        PROVE  w \in gone <=> In(list, w) /\ loc[w] >= last
    <3>1. ASSUME NEW i \in 1 .. k-1, list[i] = w
          PROVE  In(list, w) /\ loc[w] >= last
      BY <1>1, <2>1, <3>1 DEF In, n
    <3>2. ASSUME NEW j \in 1 .. n, list[j] = w, loc[w] >= last
          PROVE  \E i \in 1 .. k-1 : list[i] = w
      <4>1. at[j] >= last
        BY <1>1, <3>2
      <4>2. ~ (j \in k .. n)
        BY <1>1, <2>2, <4>1
      <4>3. j \in 1 .. k-1
        BY <1>1, <2>1, <4>2
      <4>4. QED
        BY <3>2, <4>3
    <3>3. w \in gone <=> \E i \in 1 .. k-1 : list[i] = w
      BY <2>4
    <3>4. QED
      BY <3>1, <3>2, <3>3 DEF In, n
  <2>10. QED
    BY <2>3, <2>7, <2>8, <2>9 DEF IsSplit, rest, gone
<1>8. QED
  BY <1>6, <1>7

-----------------------------------------------------------------------------
(* The program.                                                            *)

(* The bound of the instance on the stack.                                 *)
StackBounded == Len(stack) <= MaxStack

(* The inductive invariant: the safety invariants of Closures need each    *)
(* other.  Closing leaves no upvalue above a popped slot (OpenWithinStack) *)
(* because the list descends; the list descends because capturing finds    *)
(* the upvalue a slot already has; and it finds it because every upvalue   *)
(* that points to a slot is in the list (OpenListComplete).                *)
IInv ==
  /\ TypeOK
  /\ OpenListDescends
  /\ OpenListComplete
  /\ OpenWithinStack
  /\ FramesNested
  /\ EndsClosed
  /\ StackBounded

LEMMA InitIInv == Init => IInv
<1> SUFFICES ASSUME Init PROVE IInv
  OBVIOUS
<1> USE DEF Init
<1>1. PICK v \in Value : stack = <<v>>
  OBVIOUS
<1>2. stack \in Seq(Value) /\ Len(stack) = 1
  BY <1>1
<1>3. frames \in Seq(Frame) /\ Len(frames) = 1 /\ frames[1] = [offset |-> 1, closure |-> 1]
  BY DEF Frame
<1>4. closures \in Seq(Seq(1 .. Len(location))) /\ Len(closures) = 1 /\ Len(location) = 0
  OBVIOUS
<1>5. TypeOK
  <2>1. \A i \in 1 .. Len(frames) : frames[i].closure \in 1 .. Len(closures)
    BY <1>3, <1>4
  <2>2. /\ location \in Seq(Nat) /\ closed \in Seq(Value)
        /\ Len(closed) = Len(location) /\ open \in Seq(1 .. Len(location))
    OBVIOUS
  <2>3. QED
    BY <1>2, <1>3, <1>4, <2>1, <2>2, LimitsAssumption DEF TypeOK
<1>6. OpenListDescends /\ OpenListComplete /\ OpenWithinStack
  BY <1>4 DEF OpenListDescends, Descending, OpenListComplete, OpenWithinStack
<1>7. FramesNested
  BY <1>2, <1>3 DEF FramesNested, Base
<1>8. EndsClosed /\ StackBounded
  BY <1>2, LimitsAssumption DEF EndsClosed, StackBounded
<1>9. QED
  BY <1>5, <1>6, <1>7, <1>8 DEF IInv

-----------------------------------------------------------------------------

(* Plain facts about a state where the program runs.                       *)
LEMMA RunningFacts ==
  ASSUME IInv, status = "running"
  PROVE  /\ Top \in Nat /\ Base \in Nat \ {0} /\ Base <= Top /\ Top <= MaxStack
         /\ Len(frames) \in Nat \ {0} /\ frames[Len(frames)] \in Frame
         /\ frames[Len(frames)].closure \in 1 .. Len(closures)
         /\ \A s \in 1 .. Top : stack[s] \in Value
         /\ frames[1].offset \in Nat \ {0} /\ frames[1].offset <= Base
         /\ \A i \in 1 .. Len(open) :
              /\ open[i] \in 1 .. Len(location)
              /\ location[open[i]] \in frames[1].offset + 1 .. Top
              /\ location[open[i]] \in 2 .. Top
<1>1. /\ stack \in Seq(Value) /\ frames \in Seq(Frame)
      /\ open \in Seq(1 .. Len(location)) /\ frames # <<>>
  BY DEF IInv, TypeOK, FramesNested
<1>2. Len(frames) \in Nat \ {0} /\ Len(stack) \in Nat
  BY <1>1
<1>3. frames[Len(frames)] \in Frame
  BY <1>1, <1>2
<1>4. frames[Len(frames)].closure \in 1 .. Len(closures)
  BY <1>2 DEF IInv, TypeOK
<1>5. Base \in Nat \ {0} /\ Base <= Top
  BY <1>3 DEF Base, Frame, IInv, FramesNested, Top
<1>6. Top <= MaxStack
  BY DEF IInv, StackBounded, Top
<1>7. \A i \in 1 .. Len(open) : location[open[i]] \in frames[1].offset + 1 .. Top
  BY DEF IInv, OpenWithinStack, Top
<1>8. \A i \in 1 .. Len(open) : open[i] \in 1 .. Len(location)
  BY <1>1
<1>9. \A s \in 1 .. Top : stack[s] \in Value
  BY <1>1 DEF Top
<1>10. frames[1].offset \in Nat \ {0} /\ frames[1].offset <= Base
  <2>1. frames[1] \in Frame
    BY <1>1, <1>2
  <2>2. ASSUME Len(frames) # 1
        PROVE  frames[1].offset < frames[Len(frames)].offset
    <3>1. /\ 1 \in 1 .. Len(frames) /\ Len(frames) \in 1 .. Len(frames)
          /\ 1 < Len(frames)
      <4>1. PICK L \in Nat \ {0} : L = Len(frames)
        BY <1>2
      <4>2. L # 1 => 1 \in 1 .. L /\ L \in 1 .. L /\ 1 < L
        OBVIOUS
      <4>3. QED
        BY <2>2, <4>1, <4>2, Zenon
    <3>2. QED
      BY <3>1 DEF IInv, FramesNested
  <2>3. CASE Len(frames) = 1
    BY <1>3, <2>1, <2>3 DEF Frame, Base
  <2>4. CASE Len(frames) # 1
    BY <1>3, <2>1, <2>2, <2>4 DEF Frame, Base
  <2>5. QED
    BY <2>3, <2>4
<1>11. \A i \in 1 .. Len(open) : location[open[i]] \in 2 .. Top
  BY <1>2, <1>7, <1>10 DEF Top
<1>12. QED
  BY <1>2, <1>3, <1>4, <1>5, <1>6, <1>7, <1>8, <1>9, <1>10, <1>11 DEF Top

(* A step that changes nothing but the stack keeps the invariant as long   *)
(* as the stack still covers the running frame and the open upvalues.      *)
LEMMA StackStep ==
  ASSUME IInv, status = "running",
         UNCHANGED <<frames, closures, upvalueVars>>, making' \in BOOLEAN,
         stack' \in Seq(Value), Base <= Len(stack'), Len(stack') <= MaxStack,
         \A i \in 1 .. Len(open) : location[open[i]] <= Len(stack'),
         capacity' \in Nat,
         status' \in {"running", "undefined"}
  PROVE  IInv'
<1> USE DEF upvalueVars
<1>1. TypeOK'
  BY DEF IInv, TypeOK
<1>2. OpenListDescends' /\ OpenListComplete'
  BY DEF IInv, OpenListDescends, Descending, OpenListComplete
<1>3. OpenWithinStack'
  <2>1. Len(stack') \in Nat
    OBVIOUS
  <2>2. \A i \in 1 .. Len(open) :
          location[open[i]] \in frames[1].offset + 1 .. Len(stack')
    BY RunningFacts, <2>1
  <2>3. QED
    BY <2>2 DEF OpenWithinStack
<1>4. FramesNested'
  BY DEF IInv, FramesNested, Base
<1>5. EndsClosed' /\ StackBounded'
  BY DEF IInv, EndsClosed, StackBounded
<1>6. QED
  BY <1>1, <1>2, <1>3, <1>4, <1>5 DEF IInv

LEMMA PushStep ==
  ASSUME IInv, status = "running", NEW v \in Value, Push(v),
         UNCHANGED <<frames, closures, upvalueVars>>, making' \in BOOLEAN
  PROVE  IInv'
<1>1. /\ Top < MaxStack /\ stack' = Append(stack, v)
      /\ IF Top = capacity
           THEN /\ capacity' = 2 * capacity
                /\ status' = IF open = <<>> THEN "running" ELSE "undefined"
           ELSE capacity' = capacity /\ status' = status
  BY DEF Push
<1>2. stack \in Seq(Value) /\ capacity \in Nat
  BY DEF IInv, TypeOK
<1>3. stack' \in Seq(Value) /\ Len(stack') = Top + 1
  BY <1>1, <1>2, AppendProperties DEF Top
<1>4. capacity' \in Nat
  BY <1>1, <1>2
<1>5. status' \in {"running", "undefined"}
  BY <1>1
<1>6. Base <= Len(stack') /\ Len(stack') <= MaxStack
  <2>1. Top \in Nat /\ Base \in Nat /\ Base <= Top /\ MaxStack \in Nat
    BY RunningFacts, LimitsAssumption
  <2>2. QED
    BY <1>1, <1>3, <2>1
<1>7. ASSUME NEW i \in 1 .. Len(open) PROVE location[open[i]] <= Len(stack')
  <2>1. location[open[i]] \in 2 .. Top /\ Top \in Nat
    BY RunningFacts
  <2>2. QED
    BY <1>3, <2>1
<1>8. QED
  BY <1>3, <1>4, <1>5, <1>6, <1>7, StackStep

(* What an instruction pops belongs to the running function and holds no   *)
(* captured variable, so the open upvalues stay within the stack.          *)
LEMMA TemporariesNotOpen ==
  ASSUME IInv, status = "running", NEW n \in Nat, Temporaries(n)
  PROVE  /\ Top - n \in Nat /\ Base <= Top - n
         /\ \A i \in 1 .. Len(open) : location[open[i]] <= Top - n
<1>1. Top - n >= Base /\ \A s \in Top - n + 1 .. Top : ~ Captured(s)
  BY DEF Temporaries
<1>2. Top \in Nat /\ Base \in Nat \ {0}
  BY RunningFacts
<1>3. ASSUME NEW i \in 1 .. Len(open)
      PROVE  location[open[i]] <= Top - n
  <2>1. location[open[i]] \in 2 .. Top
    BY RunningFacts
  <2>2. location[open[i]] \notin Top - n + 1 .. Top
    BY <1>1 DEF Captured
  <2>3. QED
    BY <1>2, <2>1, <2>2
<1>4. QED
  BY <1>1, <1>2, <1>3

LEMMA Prefix ==
  ASSUME NEW k \in Nat, k <= Top, stack \in Seq(Value)
  PROVE  SubSeq(stack, 1, k) \in Seq(Value) /\ Len(SubSeq(stack, 1, k)) = k
  BY DEF Top

-----------------------------------------------------------------------------

(* The instructions that change only the stack.                            *)

LEMMA OperateStep ==
  ASSUME IInv, NEW n \in 1 .. 2, NEW v \in Value, Operate(n, v)
  PROVE  IInv'
<1>1. status = "running" /\ making = FALSE /\ Temporaries(n)
  BY DEF Operate, Running, IInv, TypeOK
<1>2. /\ stack' = Append(SubSeq(stack, 1, Top - n), v)
      /\ UNCHANGED <<capacity, status, frames, closures, making, upvalueVars>>
  BY DEF Operate
<1>3. /\ Top - n \in Nat /\ Base <= Top - n /\ Top \in Nat /\ Top <= MaxStack
      /\ \A i \in 1 .. Len(open) : location[open[i]] <= Top - n
  BY <1>1, TemporariesNotOpen, RunningFacts
<1>4. stack' \in Seq(Value) /\ Len(stack') = Top - n + 1
  <2>1. /\ SubSeq(stack, 1, Top - n) \in Seq(Value)
        /\ Len(SubSeq(stack, 1, Top - n)) = Top - n
    <3>1. stack \in Seq(Value) /\ Top - n <= Top
      BY <1>3 DEF IInv, TypeOK
    <3>2. QED
      BY <1>3, <3>1, Prefix
  <2>2. QED
    BY <1>2, <2>1, AppendProperties
<1>5. /\ Base <= Len(stack') /\ Len(stack') <= MaxStack
      /\ \A i \in 1 .. Len(open) : location[open[i]] <= Len(stack')
  <2>1. Base \in Nat /\ MaxStack \in Nat
    BY <1>1, RunningFacts, LimitsAssumption
  <2>2. Base <= Len(stack') /\ Len(stack') <= MaxStack
    BY <1>3, <1>4, <2>1
  <2>3. ASSUME NEW i \in 1 .. Len(open) PROVE location[open[i]] <= Len(stack')
    <3>1. location[open[i]] \in 2 .. Top
      BY <1>1, RunningFacts
    <3>2. QED
      BY <1>3, <1>4, <3>1
  <2>4. QED
    BY <2>2, <2>3
<1>6. /\ capacity' \in Nat
      /\ status' = "running" /\ making' \in BOOLEAN
  BY <1>1, <1>2 DEF IInv, TypeOK, StackBounded
<1>7. QED
  BY <1>1, <1>2, <1>4, <1>5, <1>6, StackStep

LEMMA PopStep ==
  ASSUME IInv, Pop
  PROVE  IInv'
<1>1. status = "running" /\ making = FALSE /\ Temporaries(1)
  BY DEF Pop, Running, IInv, TypeOK
<1>2. /\ stack' = SubSeq(stack, 1, Top - 1)
      /\ UNCHANGED <<capacity, status, frames, closures, making, upvalueVars>>
  BY DEF Pop
<1>3. /\ Top - 1 \in Nat /\ Base <= Top - 1 /\ Top \in Nat /\ Top <= MaxStack
      /\ \A i \in 1 .. Len(open) : location[open[i]] <= Top - 1
  BY <1>1, TemporariesNotOpen, RunningFacts
<1>4. stack' \in Seq(Value) /\ Len(stack') = Top - 1
  <2>1. stack \in Seq(Value) /\ Top - 1 <= Top
    BY <1>3 DEF IInv, TypeOK
  <2>2. QED
    BY <1>2, <1>3, <2>1, Prefix
<1>5. /\ Base <= Len(stack') /\ Len(stack') <= MaxStack
      /\ \A i \in 1 .. Len(open) : location[open[i]] <= Len(stack')
  BY <1>3, <1>4, LimitsAssumption
<1>6. /\ capacity' \in Nat
      /\ status' = "running" /\ making' \in BOOLEAN
  BY <1>1, <1>2 DEF IInv, TypeOK, StackBounded
<1>7. QED
  BY <1>1, <1>2, <1>4, <1>5, <1>6, StackStep

LEMMA SetLocalStep ==
  ASSUME IInv, NEW s, SetLocal(s)
  PROVE  IInv'
<1>1. status = "running" /\ making = FALSE /\ Top > Base /\ s \in Base .. Top
  BY DEF SetLocal, Running, IInv, TypeOK
<1>2. /\ stack' = [stack EXCEPT ![s] = stack[Top]]
      /\ UNCHANGED <<capacity, status, frames, closures, making, upvalueVars>>
  BY DEF SetLocal
<1>3. stack' \in Seq(Value) /\ Len(stack') = Top
  <2>1. Top \in Nat /\ Base \in Nat \ {0}
    BY <1>1, RunningFacts
  <2>2. s \in 1 .. Top /\ Top \in 1 .. Top
    BY <1>1, <2>1
  <2>3. stack[Top] \in Value
    BY <1>1, <2>2, RunningFacts
  <2>4. stack \in Seq(Value) /\ s \in 1 .. Len(stack)
    BY <2>2 DEF IInv, TypeOK, Top
  <2>5. QED
    BY <1>2, <2>3, <2>4, ExceptSeq DEF Top
<1>4. /\ Base <= Len(stack') /\ Len(stack') <= MaxStack
      /\ \A i \in 1 .. Len(open) : location[open[i]] <= Len(stack')
  BY <1>1, <1>3, RunningFacts
<1>5. /\ capacity' \in Nat
      /\ status' = "running" /\ making' \in BOOLEAN
  BY <1>1, <1>2 DEF IInv, TypeOK, StackBounded
<1>6. QED
  BY <1>1, <1>2, <1>3, <1>4, <1>5, StackStep

LEMMA PushValueStep ==
  ASSUME IInv, NEW v \in Value, PushValue(v) \/ EndClosure(v)
  PROVE  IInv'
<1>1. /\ status = "running" /\ Push(v) /\ making' \in BOOLEAN
      /\ UNCHANGED <<frames, closures, upvalueVars>>
  BY DEF PushValue, EndClosure, Running, IInv, TypeOK
<1>2. QED
  BY <1>1, PushStep

LEMMA GetLocalStep ==
  ASSUME IInv, NEW s, GetLocal(s)
  PROVE  IInv'
<1>1. /\ status = "running" /\ s \in Base .. Top /\ Push(stack[s])
      /\ UNCHANGED <<frames, closures, making, upvalueVars>>
  BY DEF GetLocal, Running
<1>2. stack[s] \in Value /\ making' \in BOOLEAN
  BY <1>1, RunningFacts DEF IInv, TypeOK
<1>3. QED
  BY <1>1, <1>2, PushStep

(* An upvalue that is not closed is in the list, and so points into the    *)
(* stack: what GET_UPVALUE reads is a live slot.                           *)
LEMMA UpvalueFacts ==
  ASSUME IInv, status = "running", NEW i \in UpvalueIndices
  PROVE  /\ Upvalue(i) \in 1 .. Len(location)
         /\ closed[Upvalue(i)] \in Value
         /\ location[Upvalue(i)] \in Nat
         /\ location[Upvalue(i)] # Closed => location[Upvalue(i)] \in 2 .. Top
<1> DEFINE c == frames[Len(frames)].closure
<1>1. c \in 1 .. Len(closures)
  BY RunningFacts
<1>2. closures[c] \in Seq(1 .. Len(location))
  BY <1>1 DEF IInv, TypeOK
<1>3. Upvalue(i) \in 1 .. Len(location)
  BY <1>2 DEF Upvalue, UpvalueIndices
<1>4. closed[Upvalue(i)] \in Value /\ location[Upvalue(i)] \in Nat
  BY <1>3 DEF IInv, TypeOK
<1>5. ASSUME location[Upvalue(i)] # Closed
      PROVE  location[Upvalue(i)] \in 2 .. Top
  <2>1. PICK j \in 1 .. Len(open) : open[j] = Upvalue(i)
    BY <1>3, <1>5 DEF IInv, OpenListComplete
  <2>2. QED
    BY <2>1, RunningFacts
<1>6. QED
  BY <1>3, <1>4, <1>5

LEMMA GetUpvalueStep ==
  ASSUME IInv, NEW i, GetUpvalue(i)
  PROVE  IInv'
<1> DEFINE u == Upvalue(i)
           v == IF location[u] = Closed THEN closed[u] ELSE stack[location[u]]
<1>1. /\ status = "running" /\ i \in UpvalueIndices /\ Push(v)
      /\ UNCHANGED <<frames, closures, making, upvalueVars>>
  BY DEF GetUpvalue, Running
<1>2. v \in Value /\ making' \in BOOLEAN
  <2>1. making' \in BOOLEAN
    BY <1>1 DEF IInv, TypeOK
  <2>2. CASE location[u] = Closed
    BY <1>1, <2>1, <2>2, UpvalueFacts
  <2>3. CASE location[u] # Closed
    <3>1. location[u] \in 1 .. Top
      BY <1>1, <2>3, UpvalueFacts
    <3>2. QED
      BY <1>1, <2>1, <2>3, <3>1, RunningFacts
  <2>4. QED
    BY <2>2, <2>3
<1> HIDE DEF v
<1>3. QED
  BY <1>1, <1>2, PushStep

-----------------------------------------------------------------------------

(* The instructions that change upvalues.                                  *)

LEMMA FunctionIsSeq ==
  ASSUME NEW S, NEW n \in Nat, NEW f \in [1 .. n -> S]
  PROVE  f \in Seq(S) /\ Len(f) = n
  OBVIOUS

(* What closeUpvalue(last) establishes.                                    *)
LEMMA CloseStep ==
  ASSUME IInv, status = "running", NEW last \in 1 .. Top, CloseUpvalues(last)
  PROVE  /\ location' \in Seq(Nat) /\ Len(location') = Len(location)
         /\ closed' \in Seq(Value) /\ Len(closed') = Len(location)
         /\ open' \in Seq(1 .. Len(location))
         /\ OpenListDescends' /\ OpenListComplete'
         /\ \A i \in 1 .. Len(open') :
              /\ location'[open'[i]] \in frames[1].offset + 1 .. Top
              /\ location'[open'[i]] < last
<1> DEFINE gone == Unlinked(open, location, last)
           n    == Len(location)
<1>0. frames[1].offset \in Nat
  BY RunningFacts
<1>1. /\ location \in Seq(Nat) /\ closed \in Seq(Value) /\ Len(closed) = n
      /\ open \in Seq(1 .. n) /\ Descending(open, location) /\ n \in Nat
      /\ DOMAIN location = 1 .. n /\ DOMAIN closed = 1 .. n
  BY DEF IInv, TypeOK, OpenListDescends
<1>2. last \in Nat /\ Top \in Nat
  BY RunningFacts
<1>3. IsSplit(open, location, last, open', gone)
  BY <1>1, <1>2, CloseSplits DEF CloseUpvalues
<1>4. /\ closed' = [u \in 1 .. n |-> IF u \in gone THEN stack[location[u]] ELSE closed[u]]
      /\ location' = [u \in 1 .. n |-> IF u \in gone THEN Closed ELSE location[u]]
  BY <1>1 DEF CloseUpvalues
<1> HIDE DEF gone, n
<1>5. /\ open' \in Seq(1 .. n) /\ Descending(open', location)
      /\ \A w \in 1 .. n : /\ In(open', w) <=> In(open, w) /\ location[w] < last
                           /\ w \in gone <=> In(open, w) /\ location[w] >= last
  BY <1>3 DEF IsSplit, n
<1>6. \A w \in 1 .. n : location[w] \in Nat /\ closed[w] \in Value
  BY <1>1
<1>7. \A w \in 1 .. n : In(open, w) => location[w] \in frames[1].offset + 1 .. Top
  BY RunningFacts DEF In
<1>8. \A w \in 1 .. n : w \in gone => stack[location[w]] \in Value
  <2> TAKE w \in 1 .. n
  <2>1. w \in gone => location[w] \in 1 .. Top
    BY <1>0, <1>2, <1>5, <1>7
  <2>2. QED
    BY <2>1, RunningFacts
<1>9. location' \in Seq(Nat) /\ Len(location') = n
  <2>1. location' \in [1 .. n -> Nat]
    BY <1>4, <1>6 DEF Closed
  <2>2. QED
    BY <1>1, <2>1, FunctionIsSeq
<1>10. closed' \in Seq(Value) /\ Len(closed') = n
  <2>1. closed' \in [1 .. n -> Value]
    BY <1>4, <1>6, <1>8
  <2>2. QED
    BY <1>1, <2>1, FunctionIsSeq
<1>11. \A i \in 1 .. Len(open') :
         /\ open'[i] \in 1 .. n /\ In(open', open'[i])
         /\ location'[open'[i]] = location[open'[i]]
         /\ location'[open'[i]] \in frames[1].offset + 1 .. Top /\ location'[open'[i]] < last
  <2> TAKE i \in 1 .. Len(open')
  <2>1. open'[i] \in 1 .. n /\ In(open', open'[i])
    <3>0. open' \in Seq(1 .. n) /\ n \in Nat
      BY <1>1, <1>5 DEF n
    <3>1. open'[i] \in 1 .. n
      BY <3>0
    <3>2. In(open', open'[i])
      BY DEF In
    <3>3. QED
      BY <3>1, <3>2
  <2>w. PICK w \in 1 .. n : w = open'[i]
    BY <2>1
  <2>2. In(open, open'[i]) /\ location[open'[i]] < last
    <3>1. In(open', w) => In(open, w) /\ location[w] < last
      BY <1>5
    <3>2. QED
      BY <2>1, <2>w, <3>1
  <2>3. open'[i] \notin gone
    BY <1>2, <1>5, <1>6, <2>1, <2>2
  <2>4. location'[open'[i]] = location[open'[i]]
    BY <1>4, <2>1, <2>3
  <2>5. QED
    BY <1>7, <2>1, <2>2, <2>4
<1>12. OpenListDescends'
  <2>1. \A i, j \in 1 .. Len(open') : i < j => location[open'[i]] > location[open'[j]]
    BY <1>5 DEF Descending
  <2>2. \A i, j \in 1 .. Len(open') : i < j => location'[open'[i]] > location'[open'[j]]
    BY <1>11, <2>1
  <2>3. QED
    BY <2>2 DEF OpenListDescends, Descending
<1>13. OpenListComplete'
  <2>1. ASSUME NEW w \in 1 .. n
        PROVE  location'[w] # Closed <=> In(open', w)
    <3>1. location[w] # Closed <=> In(open, w)
      BY <2>1 DEF IInv, OpenListComplete, In, n
    <3>2. location'[w] # Closed <=> w \notin gone /\ location[w] # Closed
      BY <1>4, <2>1 DEF Closed
    <3>3. location[w] >= last <=> ~ (location[w] < last)
      BY <1>2, <1>6, <2>1
    <3>4. QED
      BY <1>5, <2>1, <3>1, <3>2, <3>3
  <2>2. QED
    BY <1>9, <2>1 DEF OpenListComplete, In
<1>14. QED
  BY <1>5, <1>9, <1>10, <1>11, <1>12, <1>13 DEF n

LEMMA CloseUpvalueStep ==
  ASSUME IInv, CloseUpvalue
  PROVE  IInv'
<1>1. /\ status = "running" /\ Top > Base /\ CloseUpvalues(Top)
      /\ stack' = SubSeq(stack, 1, Top - 1)
      /\ UNCHANGED <<capacity, status, frames, closures, making>>
  BY DEF CloseUpvalue, Running
<1>2. Top \in 1 .. Top /\ Top - 1 \in Nat /\ Top - 1 <= MaxStack /\ Base <= Top - 1
  <2>1. /\ Top \in Nat /\ Base \in Nat \ {0} /\ MaxStack \in Nat /\ Top <= MaxStack
    BY <1>1, RunningFacts, LimitsAssumption
  <2>2. QED
    BY <1>1, <2>1
<1>3. /\ location' \in Seq(Nat) /\ Len(location') = Len(location)
      /\ closed' \in Seq(Value) /\ Len(closed') = Len(location)
      /\ open' \in Seq(1 .. Len(location))
      /\ OpenListDescends' /\ OpenListComplete'
      /\ \A i \in 1 .. Len(open') :
           /\ location'[open'[i]] \in frames[1].offset + 1 .. Top
           /\ location'[open'[i]] < Top
  BY <1>1, <1>2, CloseStep
<1>4. stack' \in Seq(Value) /\ Len(stack') = Top - 1
  <2>1. Top \in Nat /\ stack \in Seq(Value) /\ Top - 1 <= Top
    BY <1>1, RunningFacts DEF IInv, TypeOK
  <2>2. QED
    BY <1>1, <1>2, <2>1, Prefix
<1>5. TypeOK'
  BY <1>1, <1>3, <1>4 DEF IInv, TypeOK
<1>6. OpenWithinStack'
  <2>1. \A i \in 1 .. Len(open') : location'[open'[i]] \in frames[1].offset + 1 .. Top - 1
    <3> TAKE i \in 1 .. Len(open')
    <3>1. location'[open'[i]] \in frames[1].offset + 1 .. Top /\ location'[open'[i]] < Top
      BY <1>3
    <3>2. Top \in Nat /\ frames[1].offset \in Nat
      BY <1>1, RunningFacts
    <3>3. QED
      BY <3>1, <3>2
  <2>2. QED
    BY <1>1, <1>4, <2>1 DEF OpenWithinStack
<1>7. FramesNested'
  BY <1>1, <1>2, <1>4 DEF IInv, FramesNested, Base
<1>8. EndsClosed' /\ StackBounded'
  BY <1>1, <1>2, <1>4 DEF IInv, EndsClosed, StackBounded
<1>9. QED
  BY <1>3, <1>5, <1>6, <1>7, <1>8 DEF IInv

LEMMA SetUpvalueStep ==
  ASSUME IInv, NEW i, SetUpvalue(i)
  PROVE  IInv'
<1> DEFINE u == Upvalue(i)
<1>1. /\ status = "running" /\ Top > Base /\ i \in UpvalueIndices
      /\ UNCHANGED <<capacity, status, frames, closures, making, location, open>>
  BY DEF SetUpvalue, Running
<1>2. stack[Top] \in Value /\ stack \in Seq(Value) /\ closed \in Seq(Value)
  BY <1>1, RunningFacts DEF IInv, TypeOK
<1>3. /\ stack' \in Seq(Value) /\ Len(stack') = Len(stack)
      /\ closed' \in Seq(Value) /\ Len(closed') = Len(closed)
  <2>1. CASE location[u] = Closed
    <3>1. closed' = [closed EXCEPT ![u] = stack[Top]] /\ stack' = stack
      BY <2>1 DEF SetUpvalue
    <3>2. u \in 1 .. Len(closed)
      BY <1>1, UpvalueFacts DEF IInv, TypeOK
    <3>3. QED
      BY <1>2, <3>1, <3>2, ExceptSeq
  <2>2. CASE location[u] # Closed
    <3>1. stack' = [stack EXCEPT ![location[u]] = stack[Top]] /\ closed' = closed
      BY <2>2 DEF SetUpvalue
    <3>2. location[u] \in 1 .. Len(stack)
      BY <1>1, <2>2, UpvalueFacts DEF Top
    <3> HIDE DEF u
    <3>3. QED
      BY <1>2, <3>1, <3>2, ExceptSeq
  <2>3. QED
    BY <2>1, <2>2
<1>4. TypeOK'
  BY <1>1, <1>3 DEF IInv, TypeOK
<1>5. OpenListDescends' /\ OpenListComplete'
  BY <1>1 DEF IInv, OpenListDescends, Descending, OpenListComplete
<1>6. OpenWithinStack' /\ FramesNested'
  BY <1>1, <1>3 DEF IInv, OpenWithinStack, FramesNested, Base
<1>7. EndsClosed' /\ StackBounded'
  BY <1>1, <1>3 DEF IInv, EndsClosed, StackBounded
<1>8. QED
  BY <1>4, <1>5, <1>6, <1>7 DEF IInv

LEMMA BeginClosureStep ==
  ASSUME IInv, BeginClosure
  PROVE  IInv'
<1>1. /\ status = "running" /\ closures' = Append(closures, <<>>) /\ making' = TRUE
      /\ UNCHANGED <<stack, capacity, frames, location, closed, open, status>>
  BY DEF BeginClosure, Running, upvalueVars
<1>2. closures \in Seq(Seq(1 .. Len(location)))
  BY DEF IInv, TypeOK
<1>3. closures' \in Seq(Seq(1 .. Len(location))) /\ Len(closures') = Len(closures) + 1
  <2>1. <<>> \in Seq(1 .. Len(location))
    OBVIOUS
  <2>2. QED
    BY <1>1, <1>2, <2>1, AppendProperties
<1>4. \A i \in 1 .. Len(frames') : frames'[i].closure \in 1 .. Len(closures')
  <2>1. Len(closures) \in Nat
    BY <1>2
  <2>2. QED
    BY <1>1, <1>3, <2>1 DEF IInv, TypeOK
<1>5. TypeOK'
  BY <1>1, <1>3, <1>4 DEF IInv, TypeOK
<1>6. QED
  BY <1>1, <1>5 DEF IInv, OpenListDescends, Descending, OpenListComplete,
       OpenWithinStack, FramesNested, Base, EndsClosed, StackBounded

(* The closure being created gets one more upvalue u.                      *)
LEMMA AddUpvalueType ==
  ASSUME NEW S, closures \in Seq(Seq(S)), closures # <<>>, NEW u \in S, AddUpvalue(u)
  PROVE  closures' \in Seq(Seq(S)) /\ Len(closures') = Len(closures)
<1>1. Len(closures) \in 1 .. Len(closures)
  OBVIOUS
<1>2. closures[Len(closures)] \in Seq(S)
  BY <1>1
<1>3. Append(closures[Len(closures)], u) \in Seq(S)
  BY <1>2
<1>4. closures' = [closures EXCEPT ![Len(closures)] = Append(closures[Len(closures)], u)]
  BY DEF AddUpvalue
<1>5. QED
  BY <1>1, <1>3, <1>4, ExceptSeq

(* CLOSURE takes an upvalue that exists already.                           *)
LEMMA ShareStep ==
  ASSUME IInv, status = "running", NEW u \in 1 .. Len(location), AddUpvalue(u),
         UNCHANGED <<stack, capacity, frames, making, location, closed, open, status>>
  PROVE  IInv'
<1>1. closures \in Seq(Seq(1 .. Len(location))) /\ closures # <<>>
  <2>1. frames[Len(frames)].closure \in 1 .. Len(closures)
    BY RunningFacts
  <2>2. closures \in Seq(Seq(1 .. Len(location)))
    BY DEF IInv, TypeOK
  <2>3. QED
    BY <2>1, <2>2
<1>2. closures' \in Seq(Seq(1 .. Len(location))) /\ Len(closures') = Len(closures)
  BY <1>1, AddUpvalueType
<1>3. TypeOK'
  BY <1>2 DEF IInv, TypeOK
<1>4. QED
  BY <1>3 DEF IInv, OpenListDescends, Descending, OpenListComplete,
       OpenWithinStack, FramesNested, Base, EndsClosed, StackBounded

LEMMA CaptureOuterStep ==
  ASSUME IInv, NEW i, CaptureOuter(i)
  PROVE  IInv'
<1>1. /\ status = "running" /\ i \in UpvalueIndices /\ AddUpvalue(Upvalue(i))
      /\ UNCHANGED <<stack, capacity, frames, making, location, closed, open, status>>
  BY DEF CaptureOuter, MakingMore, upvalueVars
<1>2. Upvalue(i) \in 1 .. Len(location)
  BY <1>1, UpvalueFacts
<1>3. QED
  BY <1>1, <1>2, ShareStep

(* CLOSURE makes an upvalue for a slot that has none yet.                  *)
LEMMA CreateStep ==
  ASSUME IInv, status = "running", NEW s \in frames[1].offset + 1 .. Top,
         ~ Captures(open, location, s), AddUpvalue(Len(location) + 1),
         location' = Append(location, s), closed' = Append(closed, Nil),
         open' = Link(open, location, s, Len(location) + 1),
         UNCHANGED <<stack, capacity, frames, making, status>>
  PROVE  IInv'
<1> DEFINE n == Len(location)
           S == 1 .. n + 1
<1>1. /\ location \in Seq(Nat) /\ closed \in Seq(Value) /\ Len(closed) = n
      /\ open \in Seq(1 .. n) /\ closures \in Seq(Seq(1 .. n))
      /\ Descending(open, location)
  BY DEF IInv, TypeOK, OpenListDescends
<1>2. n \in Nat /\ Top \in Nat /\ s \in Nat /\ frames[1].offset \in Nat
  BY <1>1, RunningFacts
<1>3. /\ location' \in Seq(Nat) /\ Len(location') = n + 1
      /\ location'[n + 1] = s /\ \A w \in 1 .. n : location'[w] = location[w]
  BY <1>1, <1>2, AppendProperties
<1>4. closed' \in Seq(Value) /\ Len(closed') = n + 1
  BY <1>1, ValueAssumption, AppendProperties
<1>5. IsLinked(open, location, s, n + 1, open')
  BY <1>1, <1>2, LinkKeepsDescending
<1>6. open' \in Seq(S) /\ Descending(open', location')
  BY <1>5 DEF IsLinked
<1>7. \A w \in S : In(open', w) <=> w = n + 1 \/ In(open, w)
  BY <1>5 DEF IsLinked
<1>8. closures' \in Seq(Seq(S)) /\ Len(closures') = Len(closures)
  <2>1. frames[Len(frames)].closure \in 1 .. Len(closures)
    BY RunningFacts, Zenon
  <2>2. closures # <<>>
    <3>1. Len(closures) # 0
      <4>1. SUFFICES ASSUME Len(closures) = 0 PROVE FALSE
        BY Zenon
      <4>2. frames[Len(frames)].closure \in 1 .. 0
        BY <2>1, <4>1, Zenon
      <4>3. QED
        BY <4>2
    <3>2. QED
      BY <3>1
  <2>3. 1 .. n \subseteq S /\ n + 1 \in S
    BY <1>2
  <2>4. closures \in Seq(Seq(S))
    <3> HIDE DEF S, n
    <3>1. Seq(1 .. n) \subseteq Seq(S)
      BY <2>3, SeqMonotonic
    <3>2. Seq(Seq(1 .. n)) \subseteq Seq(Seq(S))
      BY <3>1, SeqMonotonic
    <3>3. QED
      BY <1>1, <3>2
  <2> HIDE DEF S
  <2>5. AddUpvalue(n + 1)
    OBVIOUS
  <2> HIDE DEF n
  <2>6. QED
    BY <2>2, <2>3, <2>4, <2>5, AddUpvalueType
<1>9. TypeOK'
  <2>1. \A i \in 1 .. Len(frames') : frames'[i].closure \in 1 .. Len(closures')
    BY <1>8 DEF IInv, TypeOK
  <2>2. Len(location') = n + 1 /\ Len(closed') = Len(location')
    BY <1>3, <1>4
  <2>3. open' \in Seq(1 .. Len(location')) /\ closures' \in Seq(Seq(1 .. Len(location')))
    BY <1>6, <1>8, <2>2
  <2>4. QED
    BY <1>3, <1>4, <2>1, <2>2, <2>3 DEF IInv, TypeOK
<1>10. OpenListDescends'
  BY <1>6 DEF OpenListDescends
<1>11. OpenListComplete'
  <2>1. ASSUME NEW w \in S
        PROVE  location'[w] # Closed <=> In(open', w)
    <3>1. In(open', w) <=> w = n + 1 \/ In(open, w)
      BY <1>7
    <3>2. CASE w = n + 1
      BY <1>2, <1>3, <3>1, <3>2 DEF Closed
    <3>3. CASE w # n + 1
      <4>1. w \in 1 .. n
        BY <1>2, <3>3
      <4>2. location'[w] = location[w]
        BY <1>3, <4>1
      <4>3. location[w] # Closed <=> In(open, w)
        BY <4>1 DEF IInv, OpenListComplete, In
      <4>4. QED
        BY <3>1, <3>3, <4>2, <4>3
    <3>4. QED
      BY <3>2, <3>3
  <2>2. QED
    BY <1>3, <2>1 DEF OpenListComplete, In
<1>12. OpenWithinStack'
  <2>1. ASSUME NEW i \in 1 .. Len(open')
        PROVE  location'[open'[i]] \in frames[1].offset + 1 .. Top
    <3>1. open'[i] \in S
      BY <1>6, <1>2
    <3>2. PICK w \in S : w = open'[i]
      BY <3>1
    <3>3. In(open', w)
      BY <3>2 DEF In
    <3>4. CASE w = n + 1
      BY <1>3, <3>2, <3>4
    <3>5. CASE w # n + 1
      <4>1. w \in 1 .. n
        BY <1>2, <3>5
      <4>2. In(open, w)
        BY <1>7, <3>3, <3>5
      <4>3. PICK j \in 1 .. Len(open) : open[j] = w
        BY <4>2 DEF In
      <4>4. location[w] \in frames[1].offset + 1 .. Top
        BY <4>3, RunningFacts
      <4>5. QED
        BY <1>3, <3>2, <4>1, <4>4
    <3>6. QED
      BY <3>4, <3>5
  <2>2. QED
    BY <2>1 DEF OpenWithinStack, Top
<1>13. FramesNested' /\ EndsClosed' /\ StackBounded'
  BY DEF IInv, FramesNested, Base, EndsClosed, StackBounded
<1>14. QED
  BY <1>9, <1>10, <1>11, <1>12, <1>13 DEF IInv

LEMMA CaptureLocalStep ==
  ASSUME IInv, NEW s, CaptureLocal(s)
  PROVE  IInv'
<1>1. /\ status = "running" /\ s \in Base + 1 .. Top
      /\ UNCHANGED <<stack, capacity, frames, making, status>>
  BY DEF CaptureLocal, MakingMore
<1>2. s \in frames[1].offset + 1 .. Top /\ s \in Nat
  <2>1. /\ Base \in Nat \ {0} /\ Top \in Nat
        /\ frames[1].offset \in Nat /\ frames[1].offset <= Base
    BY <1>1, RunningFacts
  <2>2. QED
    BY <1>1, <2>1
<1>3. CASE Captures(open, location, s)
  <2>1. /\ AddUpvalue(Existing(open, location, s))
        /\ UNCHANGED <<location, closed, open>>
    BY <1>3 DEF CaptureLocal, upvalueVars
  <2>2. /\ location \in Seq(Nat) /\ open \in Seq(1 .. Len(location))
        /\ Descending(open, location) /\ s \in Nat
    BY <1>2 DEF IInv, TypeOK, OpenListDescends
  <2>3. FirstNotAbove(open, location, s) \in 1 .. Len(open)
    BY <1>3, <2>2, CapturesFindsSlot
  <2>4. Existing(open, location, s) \in 1 .. Len(location)
    BY <2>2, <2>3 DEF Existing
  <2>5. QED
    BY <1>1, <2>1, <2>4, ShareStep
<1>4. CASE ~ Captures(open, location, s)
  <2>1. /\ location' = Append(location, s) /\ closed' = Append(closed, Nil)
        /\ open' = Link(open, location, s, Len(location) + 1)
        /\ AddUpvalue(Len(location) + 1)
    BY <1>4 DEF CaptureLocal
  <2>2. QED
    BY <1>1, <1>2, <1>4, <2>1, CreateStep
<1>5. QED
  BY <1>3, <1>4

-----------------------------------------------------------------------------

(* The instructions that change the call frames.                           *)

LEMMA CallStep ==
  ASSUME IInv, NEW c \in 1 .. Len(closures), NEW argCount \in Nat,
         NEW v \in Value, Call(c, argCount, v)
  PROVE  IInv'
<1> DEFINE callee == Top - argCount
           top == [offset |-> callee, closure |-> c]
<1>1. /\ status = "running" /\ callee > Base
      /\ frames' = Append(frames, top)
      /\ stack' = [stack EXCEPT ![callee] = v]
      /\ UNCHANGED <<capacity, status, closures, making, location, closed, open>>
  BY DEF Call, Running, upvalueVars
<1>2. /\ Top \in Nat /\ Base \in Nat \ {0} /\ Len(frames) \in Nat \ {0}
      /\ stack \in Seq(Value) /\ frames \in Seq(Frame)
  BY <1>1, RunningFacts DEF IInv, TypeOK
<1>3. callee \in 1 .. Top
  BY <1>1, <1>2
<1>4. c \in Nat \ {0}
  BY DEF IInv, TypeOK
<1>5. top \in Frame
  BY <1>3, <1>4 DEF Frame
<1> HIDE DEF callee
<1>6. stack' \in Seq(Value) /\ Len(stack') = Top
  BY <1>1, <1>2, <1>3, ExceptSeq DEF Top
<1>7. /\ top.offset = callee /\ top.closure = c
  OBVIOUS
<1> HIDE DEF top
<1>8. /\ frames' \in Seq(Frame) /\ Len(frames') = Len(frames) + 1
      /\ frames'[Len(frames) + 1] = top
      /\ \A i \in 1 .. Len(frames) : frames'[i] = frames[i]
  BY <1>1, <1>2, <1>5, AppendProperties
<1>9. TypeOK'
  <2>1. ASSUME NEW i \in 1 .. Len(frames')
        PROVE  frames'[i].closure \in 1 .. Len(closures')
    <3>1. CASE i = Len(frames) + 1
      BY <1>1, <1>7, <1>8, <3>1
    <3>2. CASE i # Len(frames) + 1
      <4>1. i \in 1 .. Len(frames)
        BY <1>2, <1>8, <3>2
      <4>2. QED
        BY <1>1, <1>8, <4>1 DEF IInv, TypeOK
    <3>3. QED
      BY <3>1, <3>2
  <2>2. QED
    BY <1>1, <1>6, <1>8, <2>1 DEF IInv, TypeOK
<1>10. FramesNested'
  <2>1. frames' # <<>>
    BY <1>2, <1>8
  <2>2. \A i \in 1 .. Len(frames) : frames[i].offset <= Base
    <3> TAKE i \in 1 .. Len(frames)
    <3>1. i = Len(frames) \/ i < Len(frames)
      BY <1>2
    <3>2. i < Len(frames) => frames[i].offset < frames[Len(frames)].offset
      BY <1>1, <1>2 DEF IInv, FramesNested
    <3>3. frames[i] \in Frame
      BY <1>2
    <3>4. frames[i].offset \in Nat
      BY <3>3 DEF Frame
    <3>5. QED
      BY <1>2, <3>1, <3>2, <3>4 DEF Base
  <2>3. ASSUME NEW i \in 1 .. Len(frames'), NEW j \in 1 .. Len(frames'), i < j
        PROVE  frames'[i].offset < frames'[j].offset
    <3>1. i \in 1 .. Len(frames)
      BY <1>2, <1>8, <2>3
    <3>2. frames[i] \in Frame
      BY <1>2, <3>1
    <3>3. frames[i].offset \in Nat
      BY <3>2 DEF Frame
    <3>4. CASE j = Len(frames) + 1
      <4>1. frames'[j].offset = callee /\ frames'[i] = frames[i]
        BY <1>7, <1>8, <3>1, <3>4
      <4>2. QED
        BY <1>1, <1>2, <1>3, <2>2, <3>1, <3>3, <4>1
    <3>5. CASE j # Len(frames) + 1
      <4>1. j \in 1 .. Len(frames)
        BY <1>2, <1>8, <3>5
      <4>2. QED
        BY <1>1, <1>8, <2>3, <3>1, <4>1 DEF IInv, FramesNested
    <3>6. QED
      BY <3>4, <3>5
  <2>4. Base' = callee /\ callee <= Len(stack')
    BY <1>2, <1>3, <1>6, <1>7, <1>8 DEF Base
  <2>5. QED
    BY <2>1, <2>3, <2>4 DEF FramesNested
<1>11. OpenListDescends' /\ OpenListComplete' /\ OpenWithinStack'
  <2>1. frames'[1] = frames[1]
    BY <1>2, <1>8
  <2>2. QED
    BY <1>1, <1>6, <2>1 DEF IInv, OpenListDescends, Descending,
                            OpenListComplete, OpenWithinStack, Top
<1>12. EndsClosed' /\ StackBounded'
  BY <1>1, <1>6 DEF IInv, EndsClosed, StackBounded, Top
<1>13. QED
  BY <1>9, <1>10, <1>11, <1>12 DEF IInv

LEMMA DropLast ==
  ASSUME NEW S, NEW seq \in Seq(S), Len(seq) \in Nat \ {0}
  PROVE  LET rest == SubSeq(seq, 1, Len(seq) - 1)
         IN  /\ rest \in Seq(S) /\ Len(rest) = Len(seq) - 1
             /\ \A i \in 1 .. Len(rest) : i \in 1 .. Len(seq) /\ rest[i] = seq[i]
<1> DEFINE rest == SubSeq(seq, 1, Len(seq) - 1)
<1>1. Len(seq) - 1 \in Int /\ 1 \in Int /\ Len(seq) - 1 - 1 + 1 = Len(seq) - 1
  OBVIOUS
<1>2. \A i \in 1 .. Len(seq) - 1 : i \in 1 .. Len(seq) /\ seq[i] \in S /\ 1 + i - 1 = i
  OBVIOUS
<1>3. /\ rest \in Seq(S)
      /\ Len(rest) = IF 1 <= Len(seq) - 1 THEN Len(seq) - 1 - 1 + 1 ELSE 0
      /\ \A i \in 1 .. Len(seq) - 1 - 1 + 1 : rest[i] = seq[1 + i - 1]
  BY <1>1, <1>2, SubSeqProperties
<1> HIDE DEF rest
<1>4. Len(rest) = Len(seq) - 1
  <2>1. PICK L \in Nat \ {0} : L = Len(seq)
    OBVIOUS
  <2>2. Len(rest) = IF 1 <= L - 1 THEN L - 1 - 1 + 1 ELSE 0
    BY <1>3, <2>1
  <2>3. (IF 1 <= L - 1 THEN L - 1 - 1 + 1 ELSE 0) = L - 1
    BY <2>1
  <2>4. QED
    BY <2>1, <2>2, <2>3, Zenon
<1>5. \A i \in 1 .. Len(rest) : rest[i] = seq[i]
  BY <1>1, <1>2, <1>3, <1>4
<1>6. QED
  BY <1>2, <1>3, <1>4, <1>5 DEF rest

LEMMA RuntimeErrorStep ==
  ASSUME IInv, RuntimeError
  PROVE  IInv'
<1>1. /\ status = "running" /\ status' = "error"
      /\ frames' = SubSeq(frames, 1, Len(frames) - 1) /\ stack' = <<>>
      /\ UNCHANGED <<capacity, closures, making, location, closed, open>>
  BY DEF RuntimeError, Running, upvalueVars
<1>2. frames \in Seq(Frame) /\ Len(frames) \in Nat \ {0}
  BY <1>1, RunningFacts DEF IInv, TypeOK
<1>3. /\ frames' \in Seq(Frame) /\ Len(frames') = Len(frames) - 1
      /\ \A i \in 1 .. Len(frames') : i \in 1 .. Len(frames) /\ frames'[i] = frames[i]
  <2>1. frames' = SubSeq(frames, 1, Len(frames) - 1)
    BY <1>1
  <2>2. frames \in Seq(Frame) /\ Len(frames) \in Nat \ {0}
    BY <1>2
  <2>3. QED
    BY <2>1, <2>2, DropLast, Zenon
<1>4. TypeOK'
  <2>1. \A i \in 1 .. Len(frames') : frames'[i].closure \in 1 .. Len(closures')
    BY <1>1, <1>3 DEF IInv, TypeOK
  <2>2. stack' \in Seq(Value)
    BY <1>1
  <2>3. QED
    BY <1>1, <1>3, <2>1, <2>2 DEF IInv, TypeOK
<1>5. StackBounded'
  BY <1>1, LimitsAssumption DEF IInv, StackBounded
<1>6. QED
  BY <1>1, <1>4, <1>5 DEF IInv, OpenListDescends, Descending, OpenListComplete,
       OpenWithinStack, FramesNested, EndsClosed

(* RETURN closes every upvalue of the frame that ends, so that what is     *)
(* left in the list points below the frame; nothing points below the       *)
(* script's frame, so that nothing is left when it ends.                   *)
LEMMA ReturnStep ==
  ASSUME IInv, Return
  PROVE  IInv'
<1>1. /\ status = "running" /\ Top > Base /\ CloseUpvalues(Base)
      /\ frames' = SubSeq(frames, 1, Len(frames) - 1)
      /\ IF Len(frames) = 1
           THEN stack' = SubSeq(stack, 1, Top - 2) /\ status' = "ok"
           ELSE /\ stack' = Append(SubSeq(stack, 1, Base - 1), stack[Top])
                /\ status' = status
      /\ UNCHANGED <<capacity, closures, making>>
  BY DEF Return, Running
<1>2. /\ Top \in Nat /\ Base \in Nat \ {0} /\ Base <= Top /\ Top <= MaxStack
      /\ Len(frames) \in Nat \ {0} /\ frames \in Seq(Frame) /\ stack \in Seq(Value)
  BY <1>1, RunningFacts DEF IInv, TypeOK
<1>3. /\ location' \in Seq(Nat) /\ Len(location') = Len(location)
      /\ closed' \in Seq(Value) /\ Len(closed') = Len(location)
      /\ open' \in Seq(1 .. Len(location))
      /\ OpenListDescends' /\ OpenListComplete'
      /\ \A i \in 1 .. Len(open') :
           /\ location'[open'[i]] \in frames[1].offset + 1 .. Top
           /\ location'[open'[i]] < Base
  <2>1. Base \in 1 .. Top
    BY <1>2
  <2>2. QED
    BY <1>1, <2>1, CloseStep
<1>4. /\ frames' \in Seq(Frame) /\ Len(frames') = Len(frames) - 1
      /\ \A i \in 1 .. Len(frames') : i \in 1 .. Len(frames) /\ frames'[i] = frames[i]
  <2>1. frames' = SubSeq(frames, 1, Len(frames) - 1)
    BY <1>1
  <2>2. frames \in Seq(Frame) /\ Len(frames) \in Nat \ {0}
    BY <1>2
  <2>3. QED
    BY <2>1, <2>2, DropLast, Zenon
<1>5. \A i \in 1 .. Len(frames') : frames'[i].closure \in 1 .. Len(closures')
  BY <1>1, <1>4 DEF IInv, TypeOK
<1>6. CASE Len(frames) = 1
  <2>1. Base = frames[1].offset
    BY <1>6 DEF Base
  <2>2. stack' = SubSeq(stack, 1, Top - 2) /\ status' = "ok"
    BY <1>1, <1>6
  <2>3. stack' \in Seq(Value) /\ Len(stack') = Top - 2
    <3>1. Top - 2 \in Nat /\ Top - 2 <= Top
      BY <1>1, <1>2, <2>1
    <3>2. QED
      BY <1>2, <2>2, <3>1, Prefix
  <2>4. frames' = <<>> /\ open' = <<>>
    <3>1. Len(frames') = 0
      BY <1>4, <1>6
    <3>2. Len(open') \in Nat
      BY <1>3
    <3>3. \A i \in 1 .. Len(open') : FALSE
      <4> TAKE i \in 1 .. Len(open')
      <4>1. location'[open'[i]] \in Base + 1 .. Top /\ location'[open'[i]] < Base
        BY <1>3, <2>1
      <4>2. QED
        BY <1>2, <4>1
    <3>4. Len(open') = 0
      BY <3>2, <3>3
    <3>5. QED
      BY <1>3, <1>4, <3>1, <3>4
  <2>5. TypeOK'
    BY <1>1, <1>3, <1>4, <1>5, <2>2, <2>3 DEF IInv, TypeOK
  <2>6. /\ OpenWithinStack' /\ FramesNested' /\ EndsClosed'
    BY <2>2, <2>4 DEF OpenWithinStack, FramesNested, EndsClosed
  <2>7. StackBounded'
    BY <1>1, <1>2, <2>3, LimitsAssumption DEF IInv, StackBounded
  <2>8. QED
    BY <1>3, <2>5, <2>6, <2>7 DEF IInv
<1>7. CASE Len(frames) # 1
  <2>1. /\ stack' = Append(SubSeq(stack, 1, Base - 1), stack[Top])
        /\ status' = "running"
    BY <1>1, <1>7
  <2>2. stack' \in Seq(Value) /\ Len(stack') = Base
    <3>1. Base - 1 \in Nat /\ Base - 1 <= Top /\ Top \in 1 .. Top
      BY <1>2
    <3>2. /\ SubSeq(stack, 1, Base - 1) \in Seq(Value)
          /\ Len(SubSeq(stack, 1, Base - 1)) = Base - 1
      BY <1>2, <3>1, Prefix
    <3>3. stack[Top] \in Value
      BY <1>1, <3>1, RunningFacts
    <3>4. QED
      BY <1>2, <2>1, <3>2, <3>3, AppendProperties
  <2>3. TypeOK'
    BY <1>1, <1>3, <1>4, <1>5, <2>1, <2>2 DEF IInv, TypeOK
  <2>4. OpenWithinStack'
    <3>1. ASSUME NEW i \in 1 .. Len(open')
          PROVE  location'[open'[i]] \in frames[1].offset + 1 .. Len(stack')
      <4>1. /\ location'[open'[i]] \in frames[1].offset + 1 .. Top
            /\ location'[open'[i]] < Base
        BY <1>3
      <4>2. frames[1].offset \in Nat
        BY <1>1, RunningFacts
      <4>3. QED
        BY <1>2, <2>2, <4>1, <4>2
    <3>2. frames'[1] = frames[1]
      BY <1>2, <1>4, <1>7
    <3>3. QED
      BY <3>1, <3>2 DEF OpenWithinStack
  <2>5. FramesNested'
    <3>1. Len(frames') \in 1 .. Len(frames) - 1
      BY <1>2, <1>4, <1>7
    <3>2. frames' # <<>>
      BY <3>1
    <3>3. \A i, j \in 1 .. Len(frames') :
            i < j => frames'[i].offset < frames'[j].offset
      BY <1>1, <1>4 DEF IInv, FramesNested
    <3>4. Base' = frames[Len(frames) - 1].offset
      BY <1>4, <3>1 DEF Base
    <3>5. frames[Len(frames) - 1].offset < frames[Len(frames)].offset
      <4>1. /\ Len(frames) - 1 \in 1 .. Len(frames) /\ Len(frames) \in 1 .. Len(frames)
            /\ Len(frames) - 1 < Len(frames)
        BY <1>2, <1>4, <3>1
      <4>2. QED
        BY <1>1, <4>1 DEF IInv, FramesNested
    <3>6. frames[Len(frames) - 1].offset \in Nat
      <4>1. frames[Len(frames) - 1] \in Frame
        BY <1>2, <1>4, <3>1
      <4>2. QED
        BY <4>1 DEF Frame
    <3>7. Base' <= Len(stack')
      BY <1>2, <2>2, <3>4, <3>5, <3>6 DEF Base
    <3>8. QED
      BY <3>2, <3>3, <3>7 DEF FramesNested
  <2>6. EndsClosed'
    BY <2>1 DEF EndsClosed
  <2>7. StackBounded'
    <3>1. Base <= MaxStack
      BY <1>2, LimitsAssumption
    <3>2. QED
      BY <1>1, <2>2, <3>1 DEF IInv, StackBounded
  <2>8. QED
    BY <1>3, <2>3, <2>4, <2>5, <2>6, <2>7 DEF IInv
<1>8. QED
  BY <1>6, <1>7

-----------------------------------------------------------------------------

LEMMA NextIInv == IInv /\ [Next]_vars => IInv'
<1> SUFFICES ASSUME IInv, [Next]_vars PROVE IInv'
  OBVIOUS
<1>1. ASSUME NEW v \in Value, PushValue(v) \/ EndClosure(v) PROVE IInv'
  BY <1>1, PushValueStep
<1>2. ASSUME NEW n \in 1 .. 2, NEW v \in Value, Operate(n, v) PROVE IInv'
  BY <1>2, OperateStep
<1>3. CASE Pop
  BY <1>3, PopStep
<1>4. ASSUME NEW s \in Slots, GetLocal(s) PROVE IInv'
  BY <1>4, GetLocalStep
<1>5. ASSUME NEW s \in Slots, SetLocal(s) PROVE IInv'
  BY <1>5, SetLocalStep
<1>6. ASSUME NEW s \in Slots, CaptureLocal(s) PROVE IInv'
  BY <1>6, CaptureLocalStep
<1>7. ASSUME NEW i \in 1 .. MaxUpvalues, GetUpvalue(i) PROVE IInv'
  BY <1>7, GetUpvalueStep
<1>8. ASSUME NEW i \in 1 .. MaxUpvalues, SetUpvalue(i) PROVE IInv'
  BY <1>8, SetUpvalueStep
<1>9. ASSUME NEW i \in 1 .. MaxUpvalues, CaptureOuter(i) PROVE IInv'
  BY <1>9, CaptureOuterStep
<1>10. CASE CloseUpvalue
  BY <1>10, CloseUpvalueStep
<1>11. CASE BeginClosure
  BY <1>11, BeginClosureStep
<1>12. ASSUME NEW c \in 1 .. Len(closures), NEW argCount \in 0 .. MaxStack - 1,
              NEW v \in Value, Call(c, argCount, v)
       PROVE  IInv'
  <2>1. argCount \in Nat
    BY LimitsAssumption
  <2>2. QED
    BY <1>12, <2>1, CallStep
<1>13. CASE Return
  BY <1>13, ReturnStep
<1>14. CASE RuntimeError
  BY <1>14, RuntimeErrorStep
<1>15. CASE UNCHANGED vars
  BY <1>15 DEF vars, upvalueVars, IInv, TypeOK, OpenListDescends, Descending,
       OpenListComplete, OpenWithinStack, FramesNested, Base, EndsClosed,
       StackBounded
<1>16. QED
  BY <1>1, <1>2, <1>3, <1>4, <1>5, <1>6, <1>7, <1>8, <1>9, <1>10, <1>11,
     <1>12, <1>13, <1>14, <1>15 DEF Next

THEOREM Invariance == Spec => []IInv
<1>1. Init => IInv
  BY InitIInv
<1>2. IInv /\ [Next]_vars => IInv'
  BY NextIInv
<1>3. QED
  BY <1>1, <1>2, PTL DEF Spec

(* Every closure, upvalue and list entry that the machine follows exists.  *)
THEOREM TypeCorrect == Spec => []TypeOK
<1>1. IInv => TypeOK
  BY DEF IInv
<1>2. QED
  BY <1>1, Invariance, PTL

(* The early exits of captureUpvalue and closeUpvalue miss nothing: the    *)
(* list always descends strictly.                                          *)
THEOREM OpenListCorrect == Spec => []OpenListDescends
<1>1. IInv => OpenListDescends
  BY DEF IInv
<1>2. QED
  BY <1>1, Invariance, PTL

(* captureUpvalue finds the upvalue of a slot that has one, and            *)
(* closeUpvalue every one it has to close: the list holds exactly the      *)
(* upvalues that still point into the stack.                               *)
THEOREM OpenListIsComplete == Spec => []OpenListComplete
<1>1. IInv => OpenListComplete
  BY DEF IInv
<1>2. QED
  BY <1>1, Invariance, PTL

(* No instruction reads or writes a popped slot through an upvalue.        *)
THEOREM UpvaluesStayWithinStack == Spec => []OpenWithinStack
<1>1. IInv => OpenWithinStack
  BY DEF IInv
<1>2. QED
  BY <1>1, Invariance, PTL

(* The frames of the calls in progress never overlap downwards.            *)
THEOREM FramesAreNested == Spec => []FramesNested
<1>1. IInv => FramesNested
  BY DEF IInv
<1>2. QED
  BY <1>1, Invariance, PTL

(* A script that ends normally leaves no open upvalue to the next one.     *)
THEOREM ScriptEndsClosed == Spec => []EndsClosed
<1>1. IInv => EndsClosed
  BY DEF IInv
<1>2. QED
  BY <1>1, Invariance, PTL

=============================================================================
