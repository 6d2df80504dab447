----------------------------- MODULE PlanProofs -----------------------------
(***************************************************************************)
(* The invariant of Compiler, for every grammar, every program and every   *)
(* bound, and what its proof rests on.  It says that what the compiler has *)
(* emitted, with the code that todo says it will still emit, has a layout  *)
(* (BytecodeProofs).                                                       *)
(*                                                                         *)
(* The invariant reads todo as a plan.  A State is what the parser may     *)
(* rely on at a point of it: the levels of the scope, the values above the *)
(* locals, the jumps that wait to be patched.  Rule gives each entry of    *)
(* todo the state it needs and the one it leaves, Future chains the        *)
(* entries, through the ends of functions to the end of the program, and   *)
(* IInv says that the chunk being compiled meets the first state.          *)
(*                                                                         *)
(* The lemmas are about scopes, about code as it is written and patched,   *)
(* and about plans.  CompilerProofs uses them on the actions.              *)
(***************************************************************************)
EXTENDS CompilerSafety, BytecodeProofs

-----------------------------------------------------------------------------
(* Recursive functions, greatest elements.                                 *)

LEMMA MaxIsGreatest ==
  ASSUME NEW n \in Nat, NEW T, T \subseteq 0 .. n, T # {}
  PROVE  Max(T) \in T /\ \A y \in T : y <= Max(T)
<1> DEFINE U == {n - x : x \in T}
<1>1. U \subseteq Nat /\ U # {}
  <2>1. \A x \in T : x \in 0 .. n /\ n - x \in Nat
    OBVIOUS
  <2>2. QED
    BY <2>1
<1>2. PICK u \in U : \A y \in U : u <= y
  BY <1>1, LeastNat
<1>3. PICK x \in T : u = n - x
  BY <1>2
<1>4. \A y \in T : x >= y
  <2>1. TAKE y \in T
  <2>2. u <= n - y
    BY <1>2
  <2>3. x \in 0 .. n /\ y \in 0 .. n
    OBVIOUS
  <2>4. QED
    BY <2>2, <2>3, <1>3
<1>5. Max(T) \in T /\ \A y \in T : Max(T) >= y
  BY <1>4 DEF Max
<1>6. QED
  BY <1>5

(* f[0] is x, and each further value is what G makes of the one before.    *)
Follows(f, T, x, k, G) ==
  /\ f \in [0 .. k -> T]
  /\ f[0] = x
  /\ \A n \in 1 .. k : f[n] = G[<<f[n - 1], n>>]

(* A function defined by recursion over 0 .. k exists.                     *)
LEMMA Recursion ==
  ASSUME NEW T, NEW x \in T, NEW k \in Nat, NEW G \in [T \X (1 .. k) -> T]
  PROVE  \E f : Follows(f, T, x, k, G)
<1> DEFINE S == {m \in Nat : m <= k => \E f : Follows(f, T, x, m, G)}
<1>1. 0 \in S
  <2> DEFINE f == [i \in 0 .. 0 |-> x]
  <2>1. Follows(f, T, x, 0, G)
    BY DEF Follows
  <2>2. QED
    BY <2>1
<1>2. \A m \in Nat : m \in S => m + 1 \in S
  <2>1. SUFFICES ASSUME NEW m \in Nat, m \in S, m + 1 <= k
                 PROVE  \E f : Follows(f, T, x, m + 1, G)
    OBVIOUS
  <2>2. PICK f : Follows(f, T, x, m, G)
    BY <2>1
  <2> DEFINE h == [i \in 0 .. m + 1 |-> IF i = m + 1 THEN G[<<f[m], m + 1>>] ELSE f[i]]
  <2>3. <<f[m], m + 1>> \in T \X (1 .. k)
    BY <2>1, <2>2 DEF Follows
  <2>4. h \in [0 .. m + 1 -> T]
    BY <2>2, <2>3 DEF Follows
  <2>5. h[m + 1] = G[<<f[m], m + 1>>] /\ \A i \in 0 .. m : h[i] = f[i]
    BY <2>1
  <2> HIDE DEF h
  <2>6. \A n \in 1 .. m + 1 : h[n] = G[<<h[n - 1], n>>]
    <3>1. TAKE n \in 1 .. m + 1
    <3>2. CASE n = m + 1
      BY <3>2, <2>5
    <3>3. CASE n \in 1 .. m
      <4>1. f[n] = G[<<f[n - 1], n>>]
        BY <3>3, <2>2 DEF Follows
      <4>2. h[n] = f[n] /\ h[n - 1] = f[n - 1]
        BY <3>3, <2>5
      <4>3. QED
        BY <4>1, <4>2
    <3>4. QED
      BY <3>2, <3>3
  <2>7. h[0] = x
    BY <2>2, <2>5 DEF Follows
  <2>8. QED
    BY <2>4, <2>6, <2>7 DEF Follows
<1> HIDE DEF S
<1>3. k \in S
  BY <1>1, <1>2, SetInduction
<1>4. QED
  BY <1>3 DEF S

(* What holds of the first value and is kept by each step holds of all.    *)
LEMMA RecursionKeeps ==
  ASSUME NEW T, NEW k \in Nat, NEW f, f[0] \in T,
         \A n \in 1 .. k : f[n - 1] \in T => f[n] \in T
  PROVE  \A n \in 0 .. k : f[n] \in T
<1> DEFINE S == {n \in Nat : n <= k => f[n] \in T}
<1>1. 0 \in S
  OBVIOUS
<1>2. \A n \in Nat : n \in S => n + 1 \in S
  <2>1. SUFFICES ASSUME NEW n \in Nat, n \in S, n + 1 <= k
                 PROVE  f[n + 1] \in T
    OBVIOUS
  <2>2. f[(n + 1) - 1] \in T /\ n + 1 \in 1 .. k
    BY <2>1
  <2>3. QED
    BY <2>2
<1> HIDE DEF S
<1>3. \A n \in Nat : n \in S
  BY <1>1, <1>2, SetInduction
<1>4. QED
  BY <1>3 DEF S

LEMMA IndexInFacts ==
  ASSUME NEW S, NEW seq \in Seq(S), NEW x
  PROVE  IndexIn(seq, x) \in 0 .. Len(seq)
<1> DEFINE T == {0} \cup {i \in DOMAIN seq : seq[i] = x}
<1>1. Len(seq) \in Nat /\ T \subseteq 0 .. Len(seq) /\ T # {}
  OBVIOUS
<1>2. Max(T) \in T
  BY <1>1, MaxIsGreatest
<1>3. QED
  BY <1>1, <1>2 DEF IndexIn

LEMMA IndexInFinds ==
  ASSUME NEW S, NEW seq \in Seq(S), NEW i \in 1 .. Len(seq)
  PROVE  IndexIn(seq, seq[i]) # 0
<1> DEFINE T == {0} \cup {j \in DOMAIN seq : seq[j] = seq[i]}
<1>1. Len(seq) \in Nat /\ T \subseteq 0 .. Len(seq) /\ i \in T
  OBVIOUS
<1>2. T # {}
  BY <1>1
<1>3. \A j \in T : j <= Max(T)
  BY <1>1, <1>2, MaxIsGreatest
<1>4. Max(T) # 0
  BY <1>1, <1>3
<1>5. QED
  BY <1>4 DEF IndexIn

-----------------------------------------------------------------------------
(* Scopes.                                                                 *)

Names == (UNION {g.names : g \in Grammars}) \cup {"init", "super"}

LocalVariable ==
  [name : Names, position : Nat \ {0}, initialized : BOOLEAN, isCaptured : BOOLEAN]

Levels == Seq(Seq(LocalVariable))

(* The number of locals in the levels up to l.                             *)
Size(scope, l) ==
  LET size[i \in 0 .. Len(scope)] ==
        IF i = 0 THEN 0 ELSE size[i - 1] + Len(scope[i])
  IN  size[l]

LEMMA SizeFacts ==
  ASSUME NEW scope \in Levels
  PROVE  /\ Size(scope, 0) = 0
         /\ \A l \in 0 .. Len(scope) : Size(scope, l) \in Nat
         /\ \A l \in 1 .. Len(scope) : Size(scope, l) = Size(scope, l - 1) + Len(scope[l])
<1> DEFINE k == Len(scope)
           G == [p \in Nat \X (1 .. k) |-> p[1] + Len(scope[p[2]])]
           Is(f) == f = [i \in 0 .. k |-> IF i = 0 THEN 0 ELSE f[i - 1] + Len(scope[i])]
           size == CHOOSE f : Is(f)
<1>1. k \in Nat /\ \A i \in 1 .. k : Len(scope[i]) \in Nat
  BY DEF Levels
<1>2. G \in [Nat \X (1 .. k) -> Nat]
  BY <1>1
<1>3. PICK f : Follows(f, Nat, 0, k, G)
  <2>1. 0 \in Nat /\ k \in Nat
    BY <1>1
  <2> HIDE DEF G, k
  <2>2. QED
    BY <1>2, <2>1, Recursion, Zenon
<1>4. \A n \in 1 .. k : f[n] = f[n - 1] + Len(scope[n])
  <2>1. TAKE n \in 1 .. k
  <2>2. f[n - 1] \in Nat
    BY <1>1, <1>3 DEF Follows
  <2>3. QED
    BY <2>2, <1>3 DEF Follows
<1>5. Is(f)
  <2> DEFINE h == [i \in 0 .. k |-> IF i = 0 THEN 0 ELSE f[i - 1] + Len(scope[i])]
  <2>1. \A i \in 0 .. k : f[i] = h[i]
    BY <1>1, <1>3, <1>4 DEF Follows
  <2>2. QED
    BY <2>1, <1>3 DEF Follows
<1>6. Is(size)
  BY <1>5
<1> HIDE DEF size
<1>7. /\ size[0] = 0
      /\ \A i \in 1 .. k : size[i] = size[i - 1] + Len(scope[i])
  BY <1>1, <1>6
<1>8. \A n \in 0 .. k : size[n] \in Nat
  <2>1. \A n \in 1 .. k : size[n - 1] \in Nat => size[n] \in Nat
    BY <1>1, <1>7
  <2>2. size[0] \in Nat /\ k \in Nat
    BY <1>1, <1>7
  <2> HIDE DEF k
  <2>3. QED
    BY <2>1, <2>2, RecursionKeeps, Zenon
<1>9. \A l : Size(scope, l) = size[l]
  BY DEF Size, size
<1>10. QED
  BY <1>7, <1>8, <1>9, <1>1

(* Only the lengths of the levels count.                                   *)
LEMMA SizeSame ==
  ASSUME NEW a \in Levels, NEW b \in Levels, NEW k \in Nat,
         k <= Len(a), k <= Len(b),
         \A l \in 1 .. k : Len(a[l]) = Len(b[l])
  PROVE  \A l \in 0 .. k : Size(a, l) = Size(b, l)
<1> DEFINE S == {l \in Nat : l <= k => Size(a, l) = Size(b, l)}
<1>1. 0 \in S
  BY SizeFacts
<1>2. \A l \in Nat : l \in S => l + 1 \in S
  <2>1. SUFFICES ASSUME NEW l \in Nat, l \in S, l + 1 <= k
                 PROVE  Size(a, l + 1) = Size(b, l + 1)
    OBVIOUS
  <2>2. l + 1 \in 1 .. Len(a) /\ l + 1 \in 1 .. Len(b) /\ l + 1 \in 1 .. k /\ (l + 1) - 1 = l
    BY <2>1 DEF Levels
  <2>3. /\ Size(a, l + 1) = Size(a, l) + Len(a[l + 1])
        /\ Size(b, l + 1) = Size(b, l) + Len(b[l + 1])
    BY <2>2, SizeFacts
  <2>4. QED
    BY <2>1, <2>2, <2>3
<1> HIDE DEF S
<1>3. \A l \in Nat : l \in S
  BY <1>1, <1>2, SetInduction
<1>4. QED
  BY <1>3 DEF S

LEMMA SizeGrows ==
  ASSUME NEW scope \in Levels, NEW l \in 1 .. Len(scope)
  PROVE  \A j \in l .. Len(scope) : Size(scope, l) <= Size(scope, j)
<1> DEFINE k == Len(scope)
           S == {j \in Nat : l + j <= k => Size(scope, l) <= Size(scope, l + j)}
<1>0. k \in Nat /\ l \in 1 .. k /\ \A i \in 1 .. k : Len(scope[i]) \in Nat
  BY DEF Levels
<1>1. 0 \in S
  BY <1>0, SizeFacts
<1>2. \A j \in Nat : j \in S => j + 1 \in S
  <2>1. SUFFICES ASSUME NEW j \in Nat, j \in S, l + (j + 1) <= k
                 PROVE  Size(scope, l) <= Size(scope, l + (j + 1))
    OBVIOUS
  <2>2. l + (j + 1) \in 1 .. k /\ (l + (j + 1)) - 1 = l + j /\ l + j \in 0 .. k
    BY <2>1, <1>0
  <2>3. Size(scope, l + (j + 1)) = Size(scope, l + j) + Len(scope[l + (j + 1)])
    BY <2>2, SizeFacts
  <2>4. Size(scope, l) \in Nat /\ Size(scope, l + j) \in Nat
    BY <1>0, <2>2, SizeFacts
  <2>5. QED
    BY <1>0, <2>1, <2>2, <2>3, <2>4
<1> HIDE DEF S
<1>3. \A j \in Nat : j \in S
  BY <1>1, <1>2, SetInduction
<1>4. SUFFICES ASSUME NEW j \in l .. k
               PROVE  Size(scope, l) <= Size(scope, j)
  OBVIOUS
<1>5. j - l \in S /\ l + (j - l) = j /\ j <= k
  BY <1>0, <1>3
<1>6. QED
  BY <1>5 DEF S

LEMMA SizeOfLocals ==
  ASSUME NEW scope \in Levels
  PROVE  /\ Locals(scope) \in Seq(LocalVariable)
         /\ Len(Locals(scope)) = Size(scope, Len(scope))
<1> DEFINE k == Len(scope)
           V == Seq(LocalVariable)
           G == [p \in V \X (1 .. k) |-> p[1] \o scope[p[2]]]
           Is(f) == f = [i \in 1 .. k |-> IF i = 1 THEN scope[1] ELSE f[i - 1] \o scope[i]]
           flatten == CHOOSE f : Is(f)
<1>1. k \in Nat /\ \A i \in 1 .. k : scope[i] \in V
  BY DEF Levels
<1>2. CASE k = 0
  <2>1. scope = <<>>
    BY <1>2, EmptySeq DEF Levels
  <2>2. Locals(scope) = <<>>
    BY <2>1, <1>2 DEF Locals, FlattenSeq
  <2>3. QED
    BY <1>2, <2>2, SizeFacts
<1>3. CASE k # 0
  <2>1. <<>> \in V /\ G \in [V \X (1 .. k) -> V]
    BY <1>1, ConcatProperties
  <2>2. PICK f : Follows(f, V, <<>>, k, G)
    <3> HIDE DEF V, G, k
    <3>1. QED
      BY <1>1, <2>1, Recursion, Zenon
  <2> DEFINE h == [i \in 1 .. k |-> f[i]]
  <2>3. \A n \in 1 .. k : f[n] = f[n - 1] \o scope[n]
    <3>1. TAKE n \in 1 .. k
    <3>2. n - 1 \in 0 .. k
      BY <1>1
    <3>3. f[n - 1] \in V /\ f[n] = G[<<f[n - 1], n>>]
      <4> HIDE DEF V, G, k
      <4>1. QED
        BY <3>2, <2>2 DEF Follows
    <3>4. QED
      BY <3>3
  <2>4. f[1] = scope[1]
    <3>1. f[1] = f[0] \o scope[1] /\ f[0] = <<>>
      <4>1. 1 \in 1 .. k /\ 1 - 1 = 0
        BY <1>1, <1>3
      <4>2. QED
        BY <4>1, <2>2, <2>3 DEF Follows
    <3>2. QED
      BY <3>1, <1>1, <1>3, ConcatEmptySeq
  <2>5. Is(h)
    <3> DEFINE r == [i \in 1 .. k |-> IF i = 1 THEN scope[1] ELSE h[i - 1] \o scope[i]]
    <3>1. \A i \in 1 .. k : h[i] = r[i]
      <4>1. TAKE i \in 1 .. k
      <4>2. CASE i = 1
        BY <4>2, <2>4
      <4>3. CASE i # 1
        <5>1. i - 1 \in 1 .. k
          BY <4>3, <1>1
        <5>2. h[i - 1] = f[i - 1]
          BY <5>1
        <5>3. QED
          BY <5>2, <4>3, <2>3
      <4>4. QED
        BY <4>2, <4>3
    <3>2. QED
      BY <3>1
  <2>6. Is(flatten)
    <3> HIDE DEF h
    <3>1. QED
      BY <2>5, Zenon
  <2>7. Locals(scope) = flatten[k]
    BY <1>3 DEF Locals, FlattenSeq
  <2> HIDE DEF flatten
  <2>8. /\ flatten[1] = scope[1]
        /\ \A n \in 2 .. k : flatten[n] = flatten[n - 1] \o scope[n]
    <3>1. \A i \in 1 .. k :
            flatten[i] = IF i = 1 THEN scope[1] ELSE flatten[i - 1] \o scope[i]
      BY <2>6, Zenon
    <3>2. 1 \in 1 .. k /\ \A n \in 2 .. k : n \in 1 .. k /\ n # 1
      BY <1>1, <1>3
    <3>3. QED
      BY <3>1, <3>2
  <2> DEFINE S == {n \in Nat : n + 1 <= k =>
                     /\ flatten[n + 1] \in V
                     /\ Len(flatten[n + 1]) = Size(scope, n + 1)}
  <2>9. 0 \in S
    <3>1. Size(scope, 1) = Len(scope[1])
      <4>1. 1 \in 1 .. k /\ 1 - 1 = 0
        BY <1>1, <1>3
      <4>2. Size(scope, 1) = Size(scope, 0) + Len(scope[1]) /\ Size(scope, 0) = 0
        BY <4>1, SizeFacts
      <4>3. Len(scope[1]) \in Nat
        BY <4>1, <1>1
      <4>4. QED
        BY <4>2, <4>3
    <3>2. scope[1] \in V
      BY <1>1, <1>3
    <3>3. QED
      BY <3>1, <3>2, <2>8
  <2>10. \A n \in Nat : n \in S => n + 1 \in S
    <3>1. SUFFICES ASSUME NEW n \in Nat, n \in S, (n + 1) + 1 <= k
                   PROVE  /\ flatten[(n + 1) + 1] \in V
                          /\ Len(flatten[(n + 1) + 1]) = Size(scope, (n + 1) + 1)
      OBVIOUS
    <3>2. /\ (n + 1) + 1 \in 2 .. k /\ (n + 1) + 1 \in 1 .. k
          /\ ((n + 1) + 1) - 1 = n + 1
      BY <3>1, <1>1
    <3>3. flatten[(n + 1) + 1] = flatten[n + 1] \o scope[(n + 1) + 1]
      BY <3>2, <2>8
    <3>4. Size(scope, (n + 1) + 1) = Size(scope, n + 1) + Len(scope[(n + 1) + 1])
      BY <3>2, SizeFacts
    <3>5. flatten[n + 1] \in V /\ Len(flatten[n + 1]) = Size(scope, n + 1)
      BY <3>1, <1>1
    <3>6. scope[(n + 1) + 1] \in V
      BY <3>2, <1>1
    <3> HIDE DEF V, S
    <3>7. flatten[n + 1] \o scope[(n + 1) + 1] \in V
      BY <3>5, <3>6, ConcatProperties DEF V
    <3>8. Len(flatten[n + 1] \o scope[(n + 1) + 1]) =
            Len(flatten[n + 1]) + Len(scope[(n + 1) + 1])
      BY <3>5, <3>6, ConcatProperties DEF V
    <3>9. QED
      BY <3>3, <3>4, <3>5, <3>7, <3>8
  <2> HIDE DEF S
  <2>11. k - 1 \in S
    <3>1. k - 1 \in Nat
      BY <1>1, <1>3
    <3>2. QED
      BY <3>1, <2>9, <2>10, SetInduction
  <2>12. flatten[k] \in V /\ Len(flatten[k]) = Size(scope, k)
    BY <2>11, <1>1 DEF S
  <2>13. QED
    BY <2>7, <2>12
<1>4. QED
  BY <1>2, <1>3

(* A local's position is its place in its level: positions restart with    *)
(* every level.                                                            *)
Numbered(scope) ==
  \A l \in 1 .. Len(scope) : \A i \in 1 .. Len(scope[l]) : scope[l][i].position = i

(* The local `super' is never found uninitialized.                         *)
SuperReady(scope) ==
  \A l \in 1 .. Len(scope) : \A i \in 1 .. Len(scope[l]) :
    scope[l][i].name = "super" => scope[l][i].initialized

GoodScope(scope) ==
  scope \in Levels /\ Len(scope) >= 1 /\ Numbered(scope) /\ SuperReady(scope)

(* The value of the last local declared is not on the stack yet.           *)
LastIsMissing(scope) ==
  LET level == scope[Len(scope)]
  IN  Len(level) >= 1 /\ ~ level[Len(level)].initialized

LEMMA LevelFacts ==
  ASSUME NEW scope \in Levels
  PROVE  /\ Len(scope) \in Nat
         /\ \A l \in 1 .. Len(scope) :
              /\ scope[l] \in Seq(LocalVariable) /\ Len(scope[l]) \in Nat
              /\ \A i \in 1 .. Len(scope[l]) : scope[l][i] \in LocalVariable
BY DEF Levels

LEMMA IndexAtFacts ==
  ASSUME NEW scope \in Levels, NEW name, NEW d \in Nat
  PROVE  /\ IndexAt(scope, name, d) \in Nat
         /\ IndexAt(scope, name, d) # 0 =>
              /\ d + 1 \in 1 .. Len(scope)
              /\ IndexAt(scope, name, d) \in 1 .. Len(scope[d + 1])
              /\ scope[d + 1][IndexAt(scope, name, d)].name = name
         /\ d + 1 \in 1 .. Len(scope) =>
              \A i \in 1 .. Len(scope[d + 1]) :
                scope[d + 1][i].name = name => i <= IndexAt(scope, name, d)
<1>1. CASE d >= Len(scope)
  BY <1>1, LevelFacts DEF IndexAt
<1>2. CASE ~ (d >= Len(scope))
  <2> DEFINE T == {0} \cup {i \in DOMAIN scope[d + 1] : scope[d + 1][i].name = name}
             n == Len(scope[d + 1])
  <2>1. d + 1 \in 1 .. Len(scope) /\ n \in Nat /\ DOMAIN scope[d + 1] = 1 .. n
    BY <1>2, LevelFacts
  <2>2. T \subseteq 0 .. n /\ T # {}
    BY <2>1
  <2>3. Max(T) \in T /\ \A y \in T : y <= Max(T)
    <3> HIDE DEF T, n
    <3>1. QED
      BY <2>1, <2>2, MaxIsGreatest
  <2>4. IndexAt(scope, name, d) = Max(T)
    BY <1>2 DEF IndexAt
  <2>5. QED
    BY <2>1, <2>2, <2>3, <2>4
<1>3. QED
  BY <1>1, <1>2

(* find() returns -1, throws, or returns the place of a local in its       *)
(* level, which is initialized if the level is the innermost one.          *)
LEMMA FindFacts ==
  ASSUME NEW scope \in Levels, Numbered(scope), NEW name
  PROVE  \/ Find(scope, name) \in {Absent, Uninitialized}
         \/ \E l \in 1 .. Len(scope) : \E i \in 1 .. Len(scope[l]) :
              /\ Find(scope, name) = i
              /\ l = Len(scope) => scope[l][i].initialized
<1> DEFINE depths == Depths(scope, name)
           innermost == Max(depths)
           outer == depths \ {innermost}
           Place(d) == IndexAt(scope, name, d)
<1>1. Len(scope) \in Nat
  BY LevelFacts
<1>2. \A d \in depths : /\ d \in 0 .. Len(scope) - 1
                        /\ d + 1 \in 1 .. Len(scope)
                        /\ Place(d) \in 1 .. Len(scope[d + 1])
                        /\ LocalAt(scope, name, d).position = Place(d)
                        /\ LocalAt(scope, name, d) = scope[d + 1][Place(d)]
  <2>1. SUFFICES ASSUME NEW d \in depths
                 PROVE  /\ d \in 0 .. Len(scope) - 1
                        /\ d + 1 \in 1 .. Len(scope)
                        /\ Place(d) \in 1 .. Len(scope[d + 1])
                        /\ LocalAt(scope, name, d).position = Place(d)
                        /\ LocalAt(scope, name, d) = scope[d + 1][Place(d)]
    OBVIOUS
  <2>2. d \in 0 .. Len(scope) - 1 /\ Place(d) # 0 /\ d \in Nat
    BY <1>1 DEF Depths
  <2>3. d + 1 \in 1 .. Len(scope) /\ Place(d) \in 1 .. Len(scope[d + 1])
    BY <2>2, IndexAtFacts
  <2>4. LocalAt(scope, name, d) = scope[d + 1][Place(d)]
    BY DEF LocalAt
  <2>5. QED
    BY <2>2, <2>3, <2>4 DEF Numbered
<1>3. \A T : T \subseteq depths /\ T # {} => Max(T) \in T /\ \A y \in T : y <= Max(T)
  <2>1. SUFFICES ASSUME NEW T, T \subseteq depths, T # {}
                 PROVE  Max(T) \in T /\ \A y \in T : y <= Max(T)
    OBVIOUS
  <2>2. T \subseteq 0 .. Len(scope)
    BY <1>1, <1>2, <2>1
  <2>3. QED
    BY <1>1, <2>1, <2>2, MaxIsGreatest
<1> HIDE DEF depths, Place
<1>4. CASE depths = {}
  BY <1>4 DEF Find, depths
<1>5. CASE depths # {} /\ LocalAt(scope, name, innermost).initialized
  <2>1. innermost \in depths
    BY <1>3, <1>5
  <2>2. Find(scope, name) = LocalAt(scope, name, innermost).position
    BY <1>5 DEF Find, depths
  <2>3. /\ innermost + 1 \in 1 .. Len(scope)
        /\ Place(innermost) \in 1 .. Len(scope[innermost + 1])
        /\ Find(scope, name) = Place(innermost)
        /\ scope[innermost + 1][Place(innermost)].initialized
    BY <1>2, <1>5, <2>1, <2>2
  <2> HIDE DEF innermost
  <2>4. QED
    BY <2>3
<1>6. CASE depths # {} /\ ~ LocalAt(scope, name, innermost).initialized /\ outer = {}
  BY <1>6 DEF Find, depths
<1>7. CASE depths # {} /\ ~ LocalAt(scope, name, innermost).initialized /\ outer # {}
  <2>1. innermost \in depths /\ Max(outer) \in outer /\ Max(outer) <= innermost
    BY <1>3, <1>7
  <2>2. Find(scope, name) = LocalAt(scope, name, Max(outer)).position
    BY <1>7 DEF Find, depths
  <2> DEFINE d == Max(outer)
  <2>3. d \in depths /\ d # innermost /\ d <= innermost
    BY <2>1
  <2>4. d \in Nat /\ innermost \in Nat /\ innermost + 1 <= Len(scope)
    BY <1>1, <1>2, <2>1, <2>3
  <2>5. d + 1 # Len(scope)
    <3> HIDE DEF d, innermost
    <3>1. QED
      BY <2>3, <2>4, <1>1
  <2>6. /\ d + 1 \in 1 .. Len(scope)
        /\ Place(d) \in 1 .. Len(scope[d + 1])
        /\ Find(scope, name) = Place(d)
    BY <1>2, <2>2, <2>3
  <2> HIDE DEF d
  <2>7. QED
    BY <2>5, <2>6
<1>8. QED
  BY <1>4, <1>5, <1>6, <1>7

LEMMA FindIsNumber ==
  ASSUME NEW scope \in Levels, Numbered(scope), NEW name
  PROVE  Find(scope, name) \in Int
BY FindFacts, LevelFacts DEF Absent, Uninitialized

LEMMA SuperIsInitialized ==
  ASSUME NEW scope \in Levels, Numbered(scope), SuperReady(scope)
  PROVE  Find(scope, "super") # Uninitialized
<1> DEFINE depths == Depths(scope, "super")
           d == Max(depths)
<1>1. CASE depths = {}
  BY <1>1 DEF Find, Absent, Uninitialized
<1>2. CASE depths # {}
  <2>1. depths \subseteq 0 .. Len(scope) /\ Len(scope) \in Nat
    BY LevelFacts DEF Depths
  <2>2. d \in depths
    <3> HIDE DEF depths
    <3>1. QED
      BY <1>2, <2>1, MaxIsGreatest
  <2>3. d \in Nat /\ IndexAt(scope, "super", d) # 0
    BY <2>1, <2>2 DEF Depths
  <2> DEFINE i == IndexAt(scope, "super", d)
  <2>4. /\ d + 1 \in 1 .. Len(scope)
        /\ i \in 1 .. Len(scope[d + 1])
        /\ scope[d + 1][i].name = "super"
    BY <2>3, IndexAtFacts
  <2>5. LocalAt(scope, "super", d) = scope[d + 1][i]
    BY DEF LocalAt
  <2> HIDE DEF d, i
  <2>6. LocalAt(scope, "super", d).initialized /\ LocalAt(scope, "super", d).position = i
    BY <2>4, <2>5 DEF SuperReady, Numbered
  <2>7. Find(scope, "super") = i
    BY <1>2, <2>6 DEF Find, d
  <2>8. i \in Nat
    BY <2>4
  <2>9. QED
    BY <2>7, <2>8 DEF Uninitialized
<1>3. QED
  BY <1>1, <1>2

(* A local that find() returns is one whose value is on the stack.         *)
LEMMA FoundIsBelowTop ==
  ASSUME NEW scope, GoodScope(scope), NEW name,
         Find(scope, name) \notin {Absent, Uninitialized},
         NEW missing \in {0, 1}, missing = 1 => LastIsMissing(scope)
  PROVE  /\ Find(scope, name) \in Nat
         /\ Find(scope, name) <= Size(scope, Len(scope)) - missing
<1> DEFINE k == Len(scope)
<1>a. PICK l \in 1 .. k : \E i \in 1 .. Len(scope[l]) :
        /\ Find(scope, name) = i
        /\ l = k => scope[l][i].initialized
  BY FindFacts DEF GoodScope
<1>1. PICK i \in 1 .. Len(scope[l]) :
        /\ Find(scope, name) = i
        /\ l = k => scope[l][i].initialized
  BY <1>a
<1>2. /\ k \in Nat /\ k \in 1 .. k
      /\ Len(scope[l]) \in Nat /\ Len(scope[k]) \in Nat
      /\ Size(scope, k) = Size(scope, k - 1) + Len(scope[k])
      /\ Size(scope, l) = Size(scope, l - 1) + Len(scope[l])
      /\ \A j \in 0 .. k : Size(scope, j) \in Nat
  <2>1. scope \in Levels /\ k \in Nat /\ k >= 1
    BY LevelFacts DEF GoodScope
  <2>2. k \in 1 .. Len(scope) /\ l \in 1 .. Len(scope)
    BY <2>1
  <2>3. Len(scope[l]) \in Nat /\ Len(scope[k]) \in Nat
    BY <2>1, <2>2, LevelFacts
  <2>4. /\ Size(scope, k) = Size(scope, k - 1) + Len(scope[k])
        /\ Size(scope, l) = Size(scope, l - 1) + Len(scope[l])
        /\ \A j \in 0 .. Len(scope) : Size(scope, j) \in Nat
    BY <2>1, <2>2, SizeFacts
  <2>5. QED
    BY <2>1, <2>2, <2>3, <2>4
<1>3. Size(scope, k) \in Nat /\ Size(scope, k - 1) \in Nat
      /\ Size(scope, l) \in Nat /\ Size(scope, l - 1) \in Nat
  BY <1>2
<1>4. CASE l = k
  <2>1. missing = 1 => i # Len(scope[k])
    BY <1>1, <1>4 DEF LastIsMissing
  <2>2. QED
    BY <2>1, <1>1, <1>2, <1>3, <1>4
<1>5. CASE l # k
  <2>1. k - 1 \in l .. k
    BY <1>2, <1>5
  <2>2. Size(scope, l) <= Size(scope, k - 1)
    BY <2>1, SizeGrows DEF GoodScope
  <2>3. missing = 1 => Len(scope[k]) >= 1
    BY DEF LastIsMissing
  <2>4. i \in Nat /\ i <= Size(scope, l)
    BY <1>2, <1>3
  <2> HIDE DEF k
  <2>5. i <= Size(scope, k) - missing
    <3> DEFINE a == Size(scope, l)
               b == Size(scope, k - 1)
               c == Size(scope, k)
               n == Len(scope[k])
    <3>1. a \in Nat /\ b \in Nat /\ n \in Nat /\ c = b + n /\ a <= b /\ i <= a
      BY <2>2, <2>4, <1>2, <1>3
    <3>2. missing = 1 => n >= 1
      BY <2>3
    <3> HIDE DEF a, b, c, n
    <3>3. i <= c - missing
      BY <2>4, <3>1, <3>2
    <3>4. QED
      BY <3>3 DEF c
  <2>6. QED
    BY <2>4, <2>5, <1>1 DEF k
<1>6. QED
  BY <1>4, <1>5

(* Two scopes that differ at most in what has been captured.               *)
AlikeScopes(a, b) ==
  /\ Len(b) = Len(a)
  /\ \A l \in 1 .. Len(a) :
       /\ Len(b[l]) = Len(a[l])
       /\ \A i \in 1 .. Len(a[l]) : /\ b[l][i].name = a[l][i].name
                                    /\ b[l][i].position = a[l][i].position
                                    /\ b[l][i].initialized = a[l][i].initialized

LEMMA AlikeIsGood ==
  ASSUME NEW a, GoodScope(a), NEW b \in Levels, AlikeScopes(a, b)
  PROVE  /\ GoodScope(b)
         /\ \A l \in 0 .. Len(a) : Size(b, l) = Size(a, l)
         /\ LastIsMissing(a) => LastIsMissing(b)
<1>1. GoodScope(b)
  BY ZenonT(30) DEF GoodScope, AlikeScopes, Numbered, SuperReady
<1>2. \A l \in 0 .. Len(a) : Size(b, l) = Size(a, l)
  <2>1. Len(a) \in Nat /\ a \in Levels
    BY LevelFacts DEF GoodScope
  <2>2. QED
    BY <2>1, SizeSame, SMTT(30) DEF AlikeScopes
<1>3. LastIsMissing(a) => LastIsMissing(b)
  <2>1. Len(a) \in 1 .. Len(a)
    BY LevelFacts DEF GoodScope
  <2>2. Len(a[Len(a)]) \in Nat
    BY <2>1, LevelFacts DEF GoodScope
  <2>3. QED
    BY <2>1, <2>2 DEF LastIsMissing, AlikeScopes
<1>4. QED
  BY <1>1, <1>2, <1>3

(* A scope after one local has been changed in its flags.                  *)
LEMMA FlagFacts ==
  ASSUME NEW scope \in Levels,
         NEW l \in 1 .. Len(scope), NEW i \in 1 .. Len(scope[l]),
         NEW local \in LocalVariable,
         local.name = scope[l][i].name, local.position = scope[l][i].position
  PROVE  LET new == [scope EXCEPT ![l] = [scope[l] EXCEPT ![i] = local]]
         IN  /\ new \in Levels
             /\ Len(new) = Len(scope)
             /\ \A m \in 1 .. Len(scope) :
                  /\ Len(new[m]) = Len(scope[m])
                  /\ \A j \in 1 .. Len(scope[m]) :
                       new[m][j] = IF m = l /\ j = i THEN local ELSE scope[m][j]
<1> DEFINE level == [scope[l] EXCEPT ![i] = local]
           new   == [scope EXCEPT ![l] = level]
<1>1. scope[l] \in Seq(LocalVariable)
  BY LevelFacts
<1>2. /\ level \in Seq(LocalVariable) /\ Len(level) = Len(scope[l])
      /\ \A j \in 1 .. Len(scope[l]) : level[j] = IF j = i THEN local ELSE scope[l][j]
  BY <1>1, ExceptSeq
<1> HIDE DEF level
<1>3. /\ new \in Levels /\ Len(new) = Len(scope)
      /\ \A m \in 1 .. Len(scope) : new[m] = IF m = l THEN level ELSE scope[m]
  BY <1>2, ExceptSeq DEF Levels
<1> HIDE DEF new
<1>4. \A m \in 1 .. Len(scope) :
        /\ Len(new[m]) = Len(scope[m])
        /\ \A j \in 1 .. Len(scope[m]) :
             new[m][j] = IF m = l /\ j = i THEN local ELSE scope[m][j]
  BY <1>2, <1>3
<1>5. QED
  BY <1>3, <1>4 DEF new, level

LEMMA CaptureFacts ==
  ASSUME NEW scope \in Levels, NEW name, Find(scope, name) # Absent
  PROVE  Capture(scope, name) \in Levels /\ AlikeScopes(scope, Capture(scope, name))
<1> DEFINE depths == Depths(scope, name)
           d == Max(depths)
           i == IndexAt(scope, name, d)
           local == [scope[d + 1][i] EXCEPT !.isCaptured = TRUE]
           new == [scope EXCEPT ![d + 1] = [scope[d + 1] EXCEPT ![i] = local]]
<1>1. depths # {}
  BY DEF Find
<1>2. depths \subseteq 0 .. Len(scope) /\ Len(scope) \in Nat
  BY LevelFacts DEF Depths
<1>3. d \in depths
  <2> HIDE DEF depths
  <2>1. QED
    BY <1>1, <1>2, MaxIsGreatest
<1>4. d \in Nat /\ i # 0
  BY <1>2, <1>3 DEF Depths
<1>5. d + 1 \in 1 .. Len(scope) /\ i \in 1 .. Len(scope[d + 1])
  BY <1>4, IndexAtFacts
<1>6. scope[d + 1][i] \in LocalVariable
  BY <1>5, LevelFacts
<1>7. /\ local \in LocalVariable
      /\ local.name = scope[d + 1][i].name
      /\ local.position = scope[d + 1][i].position
      /\ local.initialized = scope[d + 1][i].initialized
  BY <1>6 DEF LocalVariable
<1>8. Capture(scope, name) = new
  BY DEF Capture
<1> HIDE DEF d, i, local, depths
<1>9. /\ new \in Levels
      /\ Len(new) = Len(scope)
      /\ \A m \in 1 .. Len(scope) :
           /\ Len(new[m]) = Len(scope[m])
           /\ \A j \in 1 .. Len(scope[m]) :
                new[m][j] = IF m = d + 1 /\ j = i THEN local ELSE scope[m][j]
  BY <1>5, <1>7, FlagFacts
<1> HIDE DEF new
<1>10. QED
  BY <1>7, <1>8, <1>9 DEF AlikeScopes

LEMMA InitializeFacts ==
  ASSUME NEW scope \in Levels, Numbered(scope), NEW name, NEW d \in Nat
  PROVE  LET new == Initialize(scope, name, d)
         IN  /\ new \in Levels /\ Numbered(new)
             /\ Len(new) = Len(scope)
             /\ \A m \in 1 .. Len(scope) :
                  /\ Len(new[m]) = Len(scope[m])
                  /\ \A j \in 1 .. Len(scope[m]) :
                       /\ new[m][j].name = scope[m][j].name
                       /\ scope[m][j].initialized => new[m][j].initialized
                       /\ m = d + 1 /\ j = IndexAt(scope, name, d) => new[m][j].initialized
<1> DEFINE i == IndexAt(scope, name, d)
           local == [scope[d + 1][i] EXCEPT !.initialized = TRUE]
           new == [scope EXCEPT ![d + 1] = [scope[d + 1] EXCEPT ![i] = local]]
<1>1. CASE i = 0
  <2>1. Initialize(scope, name, d) = scope
    BY <1>1 DEF Initialize
  <2>2. \A m \in 1 .. Len(scope) : \A j \in 1 .. Len(scope[m]) : j # i
    BY <1>1, LevelFacts
  <2>3. QED
    BY <2>1, <2>2
<1>2. CASE i # 0
  <2>1. d + 1 \in 1 .. Len(scope) /\ i \in 1 .. Len(scope[d + 1])
    BY <1>2, IndexAtFacts
  <2>2. scope[d + 1][i] \in LocalVariable
    BY <2>1, LevelFacts
  <2>3. /\ local \in LocalVariable
        /\ local.name = scope[d + 1][i].name
        /\ local.position = scope[d + 1][i].position
        /\ local.initialized
    BY <2>2 DEF LocalVariable
  <2>4. Initialize(scope, name, d) = new
    BY <1>2 DEF Initialize
  <2> HIDE DEF i, local
  <2>5. /\ new \in Levels
        /\ Len(new) = Len(scope)
        /\ \A m \in 1 .. Len(scope) :
             /\ Len(new[m]) = Len(scope[m])
             /\ \A j \in 1 .. Len(scope[m]) :
                  new[m][j] = IF m = d + 1 /\ j = i THEN local ELSE scope[m][j]
    BY <2>1, <2>3, FlagFacts
  <2> HIDE DEF new
  <2>6. Numbered(new)
    BY <2>3, <2>5 DEF Numbered
  <2>7. QED
    BY <2>3, <2>4, <2>5, <2>6 DEF i
<1>3. QED
  BY <1>1, <1>2

LEMMA DeclareFacts ==
  ASSUME NEW scope \in Levels, Numbered(scope), NEW d \in Nat, Len(scope) = d + 1,
         NEW name \in Names
  PROVE  LET new  == Declare(scope, name, d)
             last == Len(scope[d + 1]) + 1
         IN  /\ new \in Levels /\ Numbered(new)
             /\ Len(new) = Len(scope)
             /\ \A m \in 1 .. d : new[m] = scope[m]
             /\ Len(new[d + 1]) = last
             /\ \A j \in 1 .. Len(scope[d + 1]) : new[d + 1][j] = scope[d + 1][j]
             /\ new[d + 1][last].name = name
             /\ ~ new[d + 1][last].initialized
<1> DEFINE level == scope[d + 1]
           n     == Len(level)
           local == Local(name, n + 1)
           new   == [scope EXCEPT ![d + 1] = Append(level, local)]
<1>1. level \in Seq(LocalVariable) /\ n \in Nat /\ d + 1 \in 1 .. Len(scope)
  BY LevelFacts
<1>2. NextPosition(scope) = n + 1
  <2>1. Last(scope) = level
    BY DEF Last
  <2>2. CASE level = <<>>
    BY <2>1, <2>2 DEF NextPosition
  <2>3. CASE level # <<>>
    <3>1. n \in 1 .. n
      BY <1>1, <2>3, EmptySeq
    <3>2. level[n].position = n
      BY <1>1, <3>1 DEF Numbered
    <3>3. Last(level) = level[n]
      BY DEF Last
    <3>4. QED
      BY <2>1, <2>3, <3>2, <3>3 DEF NextPosition
  <2>4. QED
    BY <2>2, <2>3
<1>3. Declare(scope, name, d) = new
  BY <1>2 DEF Declare
<1>4. local \in LocalVariable /\ local.name = name /\ local.position = n + 1 /\ ~ local.initialized
  BY <1>1 DEF Local, LocalVariable
<1> DEFINE longer == Append(level, local)
<1> HIDE DEF local
<1>5. /\ longer \in Seq(LocalVariable) /\ Len(longer) = n + 1
      /\ \A j \in 1 .. n : longer[j] = level[j]
      /\ longer[n + 1] = local
  BY <1>1, <1>4, AppendProperties
<1> HIDE DEF longer
<1>6. /\ new \in Levels /\ Len(new) = Len(scope)
      /\ \A m \in 1 .. Len(scope) : new[m] = IF m = d + 1 THEN longer ELSE scope[m]
  BY <1>1, <1>5, ExceptSeq DEF Levels, longer
<1> HIDE DEF new
<1>7. Numbered(new)
  <2>1. \A j \in 1 .. n : longer[j].position = j
    BY <1>1, <1>5 DEF Numbered
  <2>2. \A j \in 1 .. n + 1 : longer[j].position = j
    BY <2>1, <1>1, <1>4, <1>5
  <2>3. QED
    BY <2>2, <1>5, <1>6 DEF Numbered
<1>8. \A m \in 1 .. d : new[m] = scope[m]
  BY <1>6
<1>9. new[d + 1] = longer
  BY <1>1, <1>6
<1>10. QED
  BY <1>3, <1>4, <1>5, <1>6, <1>7, <1>8, <1>9

(* declare: the scope has one more local, which waits for its value.       *)
LEMMA DeclaredScope ==
  ASSUME NEW scope, GoodScope(scope), NEW d \in Nat, Len(scope) = d + 1,
         NEW name \in Names, name # "super"
  PROVE  LET new == Declare(scope, name, d)
         IN  /\ GoodScope(new) /\ Len(new) = d + 1 /\ LastIsMissing(new)
             /\ \A l \in 0 .. d : Size(new, l) = Size(scope, l)
             /\ Size(new, d + 1) = Size(scope, d + 1) + 1
<1> DEFINE new == Declare(scope, name, d)
           last == Len(scope[d + 1]) + 1
<1>1. /\ new \in Levels /\ Numbered(new)
      /\ Len(new) = Len(scope)
      /\ \A m \in 1 .. d : new[m] = scope[m]
      /\ Len(new[d + 1]) = last
      /\ \A j \in 1 .. Len(scope[d + 1]) : new[d + 1][j] = scope[d + 1][j]
      /\ new[d + 1][last].name = name
      /\ ~ new[d + 1][last].initialized
  BY DeclareFacts DEF GoodScope
<1> HIDE DEF new
<1>2. d + 1 \in 1 .. Len(scope) /\ Len(scope[d + 1]) \in Nat /\ scope \in Levels
  BY LevelFacts DEF GoodScope
<1>3. SuperReady(new)
  <2>1. SUFFICES ASSUME NEW m \in 1 .. Len(new), NEW j \in 1 .. Len(new[m]),
                        new[m][j].name = "super"
                 PROVE  new[m][j].initialized
    BY DEF SuperReady
  <2>2. CASE m \in 1 .. d
    BY <2>1, <2>2, <1>1 DEF GoodScope, SuperReady
  <2>3. CASE m = d + 1
    <3>1. j # last
      BY <2>1, <2>3, <1>1
    <3>2. j \in 1 .. Len(scope[d + 1])
      BY <3>1, <2>3, <1>1, <1>2
    <3>3. QED
      BY <3>2, <2>1, <2>3, <1>1, <1>2 DEF GoodScope, SuperReady
  <2>4. QED
    BY <2>2, <2>3, <1>1
<1>4. LastIsMissing(new)
  BY <1>1, <1>2 DEF LastIsMissing
<1>5. \A l \in 0 .. d : Size(new, l) = Size(scope, l)
  <2>1. /\ d \in Nat /\ scope \in Levels /\ new \in Levels
        /\ d <= Len(new) /\ d <= Len(scope)
        /\ \A l \in 1 .. d : Len(new[l]) = Len(scope[l])
    BY <1>1, <1>2
  <2>2. QED
    BY <2>1, SizeSame
<1>6. Size(new, d + 1) = Size(scope, d + 1) + 1
  <2>1. /\ Size(new, d + 1) = Size(new, (d + 1) - 1) + Len(new[d + 1])
        /\ Size(scope, d + 1) = Size(scope, (d + 1) - 1) + Len(scope[d + 1])
    BY <1>1, <1>2, SizeFacts
  <2>2. Size(scope, d) \in Nat /\ (d + 1) - 1 = d /\ d \in 0 .. d
    BY <1>2, SizeFacts
  <2>3. QED
    BY <2>1, <2>2, <1>1, <1>2, <1>5
<1>7. QED
  BY <1>1, <1>3, <1>4, <1>5, <1>6 DEF GoodScope, new

(* declare and initialize at once: a parameter, or `super'.                *)
LEMMA DefinedScope ==
  ASSUME NEW scope, GoodScope(scope), NEW d \in Nat, Len(scope) = d + 1,
         NEW name \in Names
  PROVE  LET new == Initialize(Declare(scope, name, d), name, d)
         IN  /\ GoodScope(new) /\ Len(new) = d + 1
             /\ \A l \in 0 .. d : Size(new, l) = Size(scope, l)
             /\ Size(new, d + 1) = Size(scope, d + 1) + 1
<1> DEFINE mid  == Declare(scope, name, d)
           new  == Initialize(mid, name, d)
           last == Len(scope[d + 1]) + 1
<1>1. /\ mid \in Levels /\ Numbered(mid)
      /\ Len(mid) = Len(scope)
      /\ \A m \in 1 .. d : mid[m] = scope[m]
      /\ Len(mid[d + 1]) = last
      /\ \A j \in 1 .. Len(scope[d + 1]) : mid[d + 1][j] = scope[d + 1][j]
      /\ mid[d + 1][last].name = name
  BY DeclareFacts DEF GoodScope
<1> HIDE DEF mid
<1>2. /\ new \in Levels /\ Numbered(new)
      /\ Len(new) = Len(mid)
      /\ \A m \in 1 .. Len(mid) :
           /\ Len(new[m]) = Len(mid[m])
           /\ \A j \in 1 .. Len(mid[m]) :
                /\ new[m][j].name = mid[m][j].name
                /\ mid[m][j].initialized => new[m][j].initialized
                /\ m = d + 1 /\ j = IndexAt(mid, name, d) => new[m][j].initialized
  BY <1>1, InitializeFacts
<1> HIDE DEF new
<1>3. d + 1 \in 1 .. Len(scope) /\ Len(scope[d + 1]) \in Nat /\ scope \in Levels
  BY LevelFacts DEF GoodScope
<1>4. IndexAt(mid, name, d) = last
  <2>1. last \in 1 .. Len(mid[d + 1]) /\ d + 1 \in 1 .. Len(mid)
    BY <1>1, <1>3
  <2>2. last <= IndexAt(mid, name, d)
    BY <1>1, <2>1, IndexAtFacts
  <2>3. IndexAt(mid, name, d) # 0 => IndexAt(mid, name, d) \in 1 .. Len(mid[d + 1])
    BY <1>1, IndexAtFacts
  <2>4. IndexAt(mid, name, d) \in Nat
    BY <1>1, IndexAtFacts
  <2>5. QED
    BY <2>1, <2>2, <2>3, <2>4, <1>1, <1>3
<1>5. SuperReady(new)
  <2>1. SUFFICES ASSUME NEW m \in 1 .. Len(new), NEW j \in 1 .. Len(new[m]),
                        new[m][j].name = "super"
                 PROVE  new[m][j].initialized
    BY DEF SuperReady
  <2>2. m \in 1 .. Len(mid) /\ j \in 1 .. Len(mid[m]) /\ mid[m][j].name = "super"
    BY <2>1, <1>2
  <2>3. CASE m \in 1 .. d
    <3>1. mid[m][j].initialized
      BY <2>2, <2>3, <1>1 DEF GoodScope, SuperReady
    <3>2. QED
      BY <3>1, <2>2, <1>2
  <2>4. CASE m = d + 1 /\ j = last
    BY <2>2, <2>4, <1>2, <1>4
  <2>5. CASE m = d + 1 /\ j # last
    <3>1. j \in 1 .. Len(scope[d + 1])
      BY <2>2, <2>5, <1>1, <1>3
    <3>2. mid[m][j].initialized
      BY <3>1, <2>2, <2>5, <1>1, <1>3 DEF GoodScope, SuperReady
    <3>3. QED
      BY <3>2, <2>2, <1>2
  <2>6. QED
    BY <2>2, <2>3, <2>4, <2>5, <1>1
<1>6. \A m \in 1 .. d : Len(new[m]) = Len(scope[m])
  BY <1>1, <1>2
<1>7. \A l \in 0 .. d : Size(new, l) = Size(scope, l)
  <2>1. /\ d \in Nat /\ scope \in Levels /\ new \in Levels
        /\ d <= Len(new) /\ d <= Len(scope)
        /\ \A l \in 1 .. d : Len(new[l]) = Len(scope[l])
    BY <1>1, <1>2, <1>3, <1>6
  <2>2. QED
    BY <2>1, SizeSame
<1>8. Size(new, d + 1) = Size(scope, d + 1) + 1
  <2>0. d + 1 \in 1 .. Len(new) /\ new \in Levels
    BY <1>1, <1>2, <1>3
  <2>1. /\ Size(new, d + 1) = Size(new, (d + 1) - 1) + Len(new[d + 1])
        /\ Size(scope, d + 1) = Size(scope, (d + 1) - 1) + Len(scope[d + 1])
    BY <2>0, <1>3, SizeFacts
  <2>2. Size(scope, d) \in Nat /\ (d + 1) - 1 = d /\ d \in 0 .. d
    BY <1>3, SizeFacts
  <2>3. Len(new[d + 1]) = Len(scope[d + 1]) + 1
    BY <1>1, <1>2, <1>3
  <2>4. QED
    BY <2>1, <2>2, <2>3, <1>3, <1>7
<1>9. QED
  BY <1>1, <1>2, <1>5, <1>7, <1>8 DEF GoodScope, new, mid

(* initialize leaves every count as it is.                                 *)
LEMMA InitializedScope ==
  ASSUME NEW scope, GoodScope(scope), NEW name, NEW d \in Nat
  PROVE  LET new == Initialize(scope, name, d)
         IN  /\ GoodScope(new) /\ Len(new) = Len(scope)
             /\ \A l \in 0 .. Len(scope) : Size(new, l) = Size(scope, l)
<1> DEFINE new == Initialize(scope, name, d)
<1>1. /\ new \in Levels /\ Numbered(new)
      /\ Len(new) = Len(scope)
      /\ \A m \in 1 .. Len(scope) :
           /\ Len(new[m]) = Len(scope[m])
           /\ \A j \in 1 .. Len(scope[m]) :
                /\ new[m][j].name = scope[m][j].name
                /\ scope[m][j].initialized => new[m][j].initialized
  BY InitializeFacts DEF GoodScope
<1> HIDE DEF new
<1>2. SuperReady(new)
  BY <1>1 DEF GoodScope, SuperReady
<1>3. \A l \in 0 .. Len(scope) : Size(new, l) = Size(scope, l)
  <2>1. Len(scope) \in Nat /\ scope \in Levels
    BY LevelFacts DEF GoodScope
  <2>2. Len(scope) <= Len(new) /\ Len(scope) <= Len(scope)
    BY <1>1, <2>1
  <2>3. QED
    BY <1>1, <2>1, <2>2, SizeSame
<1>4. QED
  BY <1>1, <1>2, <1>3 DEF GoodScope, new

LEMMA PushedScope ==
  ASSUME NEW scope, GoodScope(scope), NEW d \in Nat, Len(scope) <= d + 1
  PROVE  LET new == PushScope(scope, d)
         IN  /\ GoodScope(new) /\ Len(new) = d + 1
             /\ \A l \in 0 .. Len(scope) : Size(new, l) = Size(scope, l)
             /\ \A l \in Len(scope) + 1 .. d + 1 : Len(new[l]) = 0
<1> DEFINE k == Len(scope)
           more == [i \in 1 .. d + 1 - k |-> <<>>]
           new == scope \o more
<1>1. k \in Nat /\ scope \in Levels
  BY LevelFacts DEF GoodScope
<1>2. more \in Levels /\ Len(more) = d + 1 - k /\ \A i \in 1 .. Len(more) : more[i] = <<>>
  <2>1. <<>> \in Seq(LocalVariable)
    OBVIOUS
  <2>2. d + 1 - k \in Nat
    BY <1>1
  <2>3. more \in Levels
    BY <2>1, <2>2, IsASeq DEF Levels
  <2>4. QED
    BY <2>2, <2>3, <1>1
<1> HIDE DEF more
<1>3. /\ new \in Levels /\ Len(new) = k + Len(more)
      /\ \A i \in 1 .. k + Len(more) : new[i] = IF i <= k THEN scope[i] ELSE more[i - k]
  BY <1>1, <1>2, ConcatProperties DEF Levels
<1>4. PushScope(scope, d) = new
  BY DEF PushScope, more
<1> HIDE DEF new
<1>5. Len(new) = d + 1
  BY <1>1, <1>2, <1>3
<1>6. \A l \in 1 .. k : new[l] = scope[l]
  BY <1>1, <1>2, <1>3
<1>7. \A l \in k + 1 .. d + 1 : Len(new[l]) = 0
  <2>1. TAKE l \in k + 1 .. d + 1
  <2>2. l \in 1 .. k + Len(more) /\ ~ (l <= k) /\ l - k \in 1 .. Len(more)
    BY <1>1, <1>2
  <2>3. new[l] = <<>>
    BY <2>2, <1>2, <1>3
  <2>4. QED
    BY <2>3
<1>8. Numbered(new) /\ SuperReady(new)
  <2>1. SUFFICES ASSUME NEW l \in 1 .. Len(new), NEW i \in 1 .. Len(new[l])
                 PROVE  /\ new[l][i].position = i
                        /\ new[l][i].name = "super" => new[l][i].initialized
    BY DEF Numbered, SuperReady
  <2>2. l \in 1 .. k
    BY <1>1, <1>5, <1>7
  <2>3. QED
    BY <2>2, <1>6 DEF GoodScope, Numbered, SuperReady
<1>9. \A l \in 0 .. k : Size(new, l) = Size(scope, l)
  <2>1. /\ k \in Nat /\ scope \in Levels /\ new \in Levels
        /\ k <= Len(new) /\ k <= Len(scope)
        /\ \A l \in 1 .. k : Len(new[l]) = Len(scope[l])
    BY <1>1, <1>3, <1>5, <1>6
  <2>2. QED
    BY <2>1, SizeSame
<1>10. QED
  BY <1>3, <1>4, <1>5, <1>7, <1>8, <1>9 DEF GoodScope

LEMMA PoppedScope ==
  ASSUME NEW scope, GoodScope(scope), Len(scope) > 1
  PROVE  LET new == PopScope(scope)
         IN  /\ GoodScope(new) /\ Len(new) = Len(scope) - 1
             /\ \A l \in 0 .. Len(scope) - 1 : Size(new, l) = Size(scope, l)
<1> DEFINE k == Len(scope)
           new == SubSeq(scope, 1, k - 1)
<1>1. k \in Nat /\ scope \in Levels /\ k - 1 \in Nat
  BY LevelFacts DEF GoodScope
<1>2. /\ new \in Levels /\ Len(new) = k - 1
      /\ \A i \in 1 .. k - 1 : new[i] = scope[i]
  BY <1>1, SubSeqProperties DEF Levels
<1>3. PopScope(scope) = new
  BY DEF PopScope, Front
<1> HIDE DEF new
<1>4. Numbered(new) /\ SuperReady(new)
  BY <1>1, <1>2 DEF GoodScope, Numbered, SuperReady
<1>5. \A l \in 0 .. k - 1 : Size(new, l) = Size(scope, l)
  <2>1. /\ (k - 1) \in Nat /\ scope \in Levels /\ new \in Levels
        /\ (k - 1) <= Len(new) /\ (k - 1) <= Len(scope)
        /\ \A l \in 1 .. (k - 1) : Len(new[l]) = Len(scope[l])
    BY <1>1, <1>2
  <2>2. QED
    BY <2>1, SizeSame
<1>6. QED
  BY <1>1, <1>2, <1>3, <1>4, <1>5 DEF GoodScope

-----------------------------------------------------------------------------
(* Code as it is written.  A record v of the fields h, r and g is the      *)
(* layout of the code so far.                                              *)

Unpatched(code) == {p \in 1 .. Len(code) : Skips(code[p]) /\ code[p][2] = 0}

(* Going forward, no place behind l is reached without l.                  *)
Dominates(l, r) == \A p \in r : p >= l => l \in r

(* The height and the guard behind the code, the jumps still to be patched *)
(* and the entries of the loops still to be closed.                        *)
Placed(code, arity, v, height, guard, open, loops) ==
  /\ Layout(code, arity, v.h, v.r, v.g)
  /\ v.h[Len(code) + 1] = height
  /\ v.g[Len(code) + 1] = guard
  /\ Unpatched(code) = open
  /\ \A l \in loops : l \in 1 .. Len(code) + 1 /\ Dominates(l, v.r)

(* What the layout says of earlier places stays as it is.                  *)
Longer(code, v, code2, v2) ==
  /\ Len(code) <= Len(code2)
  /\ \A p \in 1 .. Len(code) + 1 : v2.h[p] = v.h[p] /\ v2.g[p] = v.g[p]

LEMMA LongerTrans ==
  ASSUME NEW a \in Seq(Instruction), NEW b \in Seq(Instruction),
         NEW c \in Seq(Instruction), NEW va, NEW vb, NEW vc,
         Longer(a, va, b, vb), Longer(b, vb, c, vc)
  PROVE  Longer(a, va, c, vc)
<1>1. Len(a) \in Nat /\ Len(b) \in Nat /\ Len(c) \in Nat
  OBVIOUS
<1>2. Len(a) <= Len(b) /\ Len(b) <= Len(c)
  BY DEF Longer
<1>3. \A p \in 1 .. Len(a) + 1 : p \in 1 .. Len(b) + 1
  BY <1>1, <1>2
<1>4. QED
  BY <1>1, <1>2, <1>3 DEF Longer

LEMMA LongerSelf ==
  ASSUME NEW a \in Seq(Instruction), NEW v
  PROVE  Longer(a, v, a, v)
BY DEF Longer

(* Where a LOOP may go.                                                    *)
LoopsTo(at, code, v, height, guard, loops) ==
  /\ at \in 1 .. Len(code) + 1
  /\ v.h[at] = height
  /\ IF guard # 0 THEN at = guard ELSE Entry(v.g, at) \in loops

OpenedBy(i, at) == {p \in {at} : Skips(i)}

(* Emitting one instruction.                                               *)
LEMMA EmitOne ==
  ASSUME NEW code, NEW arity, NEW v, NEW height, NEW guard, NEW open, NEW loops,
         Placed(code, arity, v, height, guard, open, loops),
         NEW i \in Instruction,
         Takes(i) < height, Slotted(i) => i[2] < height,
         NEW e \in Nat \ {0}, NEW x \in Nat,
         Falls(i) => e = height + Net(i) /\ x = guard,
         Skips(i) => i[2] = 0,
         i[1] = "LOOP" => LoopsTo(i[2], code, v, height, guard, loops)
  PROVE  \E v2 : /\ Placed(code \o <<i>>, arity, v2, e, x,
                           open \cup OpenedBy(i, Len(code) + 1), loops)
                 /\ Longer(code, v, code \o <<i>>, v2)
<1> DEFINE n   == Len(code)
           top == n + 1
           new == Append(code, i)
           v2  == [h |-> Append(v.h, e), r |-> ReachedAfter(i, v.r, top),
                   g |-> Append(v.g, x)]
<1>1. /\ code \in Seq(Instruction) /\ n \in Nat
      /\ v.h \in Seq(Nat \ {0}) /\ Len(v.h) = top
      /\ v.g \in Seq(Nat) /\ Len(v.g) = top
      /\ v.r \subseteq 1 .. top
      /\ v.h[top] = height /\ v.g[top] = guard
  BY DEF Placed, Layout, Sized
<1>2. code \o <<i>> = new
  BY <1>1, AppendIsConcat
<1>3. Fits(i, v.h, v.r, v.g, top, e, x)
  <2>1. /\ Takes(i) < v.h[top]
        /\ Slotted(i) => i[2] < v.h[top]
        /\ Falls(i) => e = v.h[top] + Net(i) /\ x = v.g[top]
        /\ Skips(i) => i[2] = 0
    BY <1>1
  <2>2. ASSUME i[1] = "LOOP"
        PROVE  /\ i[2] \in 1 .. top
               /\ v.h[i[2]] = v.h[top]
               /\ IF v.g[top] # 0 THEN i[2] = v.g[top]
                  ELSE top \in v.r => Entry(v.g, i[2]) \in v.r
    <3>1. LoopsTo(i[2], code, v, height, guard, loops)
      BY <2>2
    <3>2. i[2] \in 1 .. top /\ v.h[i[2]] = v.h[top]
      BY <3>1, <1>1 DEF LoopsTo
    <3>3. CASE guard # 0
      BY <3>1, <3>2, <3>3, <1>1 DEF LoopsTo
    <3>4. CASE guard = 0
      <4> DEFINE l == Entry(v.g, i[2])
      <4>1. l \in loops
        BY <3>1, <3>4 DEF LoopsTo
      <4>2. l \in 1 .. top /\ Dominates(l, v.r)
        BY <4>1 DEF Placed
      <4>3. top >= l
        BY <4>2, <1>1
      <4>4. top \in v.r => l \in v.r
        BY <4>2, <4>3 DEF Dominates
      <4>5. QED
        BY <3>2, <3>4, <4>4, <1>1
    <3>5. QED
      BY <3>3, <3>4
  <2>3. QED
    BY <2>1, <2>2 DEF Fits
<1>4. Layout(new, arity, v2.h, v2.r, v2.g)
  <2>1. Layout(code, arity, v.h, v.r, v.g)
    BY DEF Placed
  <2>2. QED
    BY <1>3, <2>1, AppendKeepsLayout
<1>5. /\ new \in Seq(Instruction) /\ Len(new) = top
      /\ \A p \in 1 .. n : new[p] = code[p]
      /\ new[top] = i
  BY <1>1, AppendProperties
<1>6. /\ \A p \in 1 .. top : v2.h[p] = v.h[p] /\ v2.g[p] = v.g[p]
      /\ v2.h[top + 1] = e /\ v2.g[top + 1] = x
  <2>1. v2.h = Append(v.h, e) /\ v2.g = Append(v.g, x)
    OBVIOUS
  <2>2. /\ \A p \in 1 .. Len(v.h) : Append(v.h, e)[p] = v.h[p]
        /\ Append(v.h, e)[Len(v.h) + 1] = e
    BY <1>1, AppendProperties
  <2>3. /\ \A p \in 1 .. Len(v.g) : Append(v.g, x)[p] = v.g[p]
        /\ Append(v.g, x)[Len(v.g) + 1] = x
    BY <1>1, AppendProperties
  <2> HIDE DEF v2
  <2>4. QED
    BY <2>1, <2>2, <2>3, <1>1
<1>7. /\ v2.r \subseteq 1 .. top + 1
      /\ \A p \in 1 .. top : p \in v2.r <=> p \in v.r
      /\ top + 1 \in v2.r => top \in v.r
  <2>1. top + 1 = n + 2
    BY <1>1
  <2>2. QED
    BY <1>1, <2>1, ReachedAfterFacts
<1> HIDE DEF new, v2
<1>8. Unpatched(new) = open \cup OpenedBy(i, top)
  <2>1. \A p : p \in Unpatched(new) <=> p \in Unpatched(code) \/ (p = top /\ Skips(i))
    BY <1>1, <1>5, SMTT(30) DEF Unpatched
  <2>2. \A p : p \in OpenedBy(i, top) <=> p = top /\ Skips(i)
    BY DEF OpenedBy
  <2>3. Unpatched(code) = open
    BY DEF Placed
  <2>4. QED
    BY <2>1, <2>2, <2>3
<1>9. \A l \in loops : l \in 1 .. top + 1 /\ Dominates(l, v2.r)
  <2>1. SUFFICES ASSUME NEW l \in loops
                 PROVE  l \in 1 .. top + 1 /\ Dominates(l, v2.r)
    OBVIOUS
  <2>2. l \in 1 .. top /\ Dominates(l, v.r)
    BY DEF Placed
  <2>3. ASSUME NEW p \in v2.r, p >= l
        PROVE  l \in v2.r
    <3>1. CASE p \in 1 .. top
      BY <3>1, <2>2, <2>3, <1>7 DEF Dominates
    <3>2. CASE p = top + 1
      <4>1. top \in v.r /\ top >= l
        BY <3>2, <2>2, <2>3, <1>1, <1>7
      <4>2. QED
        BY <4>1, <2>2, <1>7 DEF Dominates
    <3>3. p \in 1 .. top + 1
      BY <2>3, <1>7
    <3>4. QED
      BY <3>1, <3>2, <3>3, <1>1
  <2>4. QED
    BY <2>2, <2>3, <1>1 DEF Dominates
<1>10. Placed(new, arity, v2, e, x, open \cup OpenedBy(i, top), loops)
  BY <1>4, <1>5, <1>6, <1>8, <1>9 DEF Placed
<1>11. Longer(code, v, new, v2)
  BY <1>1, <1>5, <1>6 DEF Longer
<1>12. QED
  BY <1>2, <1>10, <1>11

Plain(i) == Falls(i) /\ ~ Jumps(i)

(* An instruction that does not jump.                                      *)
LEMMA EmitPlain ==
  ASSUME NEW code, NEW arity, NEW v, NEW height, NEW guard, NEW open, NEW loops,
         Placed(code, arity, v, height, guard, open, loops),
         NEW i \in Instruction, Plain(i),
         Takes(i) < height, Slotted(i) => i[2] < height
  PROVE  /\ height + Net(i) \in Nat \ {0}
         /\ \E v2 : /\ Placed(code \o <<i>>, arity, v2, height + Net(i), guard, open, loops)
                    /\ Longer(code, v, code \o <<i>>, v2)
<1>1. height \in Nat /\ guard \in Nat
  <2>1. /\ v.h \in Seq(Nat \ {0}) /\ v.g \in Seq(Nat)
        /\ Len(code) + 1 \in 1 .. Len(v.h) /\ Len(code) + 1 \in 1 .. Len(v.g)
    BY DEF Placed, Layout, Sized
  <2>2. QED
    BY <2>1 DEF Placed
<1>2. Takes(i) \in Nat /\ Leaves(i) \in {0, 1}
  BY InstructionFacts
<1>3. height + Net(i) \in Nat \ {0}
  BY <1>1, <1>2 DEF Net
<1>4. ~ Skips(i) /\ i[1] # "LOOP" /\ Falls(i)
  BY DEF Plain, Skips, Jumps
<1>5. open \cup OpenedBy(i, Len(code) + 1) = open
  BY <1>4 DEF OpenedBy
<1>6. \E v2 : /\ Placed(code \o <<i>>, arity, v2, height + Net(i), guard,
                         open \cup OpenedBy(i, Len(code) + 1), loops)
              /\ Longer(code, v, code \o <<i>>, v2)
  BY <1>1, <1>3, <1>4, EmitOne
<1>7. QED
  BY <1>3, <1>5, <1>6

PatchedAt(code, at) == [code EXCEPT ![at][2] = Len(code) + 1]

(* Patching a jump: the height behind the code is that of the jump.        *)
LEMMA PatchOne ==
  ASSUME NEW code, NEW arity, NEW v, NEW height, NEW guard, NEW open, NEW loops,
         Placed(code, arity, v, height, guard, open, loops),
         NEW at \in open, v.h[at] = height, v.g[at] = guard,
         \A l \in loops : l <= at
  PROVE  \E v2 : /\ Placed(PatchedAt(code, at), arity, v2, height, guard, open \ {at}, loops)
                 /\ Longer(code, v, PatchedAt(code, at), v2)
                 /\ Len(PatchedAt(code, at)) = Len(code)
<1> DEFINE n   == Len(code)
           top == n + 1
           new == [code EXCEPT ![at][2] = top]
           v2  == [h |-> v.h, r |-> ReachedAlso(v.r, at, top), g |-> v.g]
<1>1. /\ code \in Seq(Instruction) /\ n \in Nat
      /\ v.r \subseteq 1 .. top
      /\ v.h \in Seq(Nat \ {0}) /\ Len(v.h) = top
      /\ v.h[top] = height /\ v.g[top] = guard
  BY DEF Placed, Layout, Sized
<1>2. at \in 1 .. n /\ Skips(code[at]) /\ code[at][2] = 0
  BY DEF Placed, Unpatched
<1>3. Net(code[at]) = 0
  BY <1>2 DEF Skips, Net, Takes, Leaves
<1>4. v.h[top] = v.h[at] + Net(code[at]) /\ v.g[top] = v.g[at]
  <2>1. v.h[at] \in Nat
    BY <1>1, <1>2
  <2>2. QED
    BY <1>1, <1>3, <2>1
<1>5. Layout(new, arity, v2.h, v2.r, v2.g)
  <2>1. Layout(code, arity, v.h, v.r, v.g)
    BY DEF Placed
  <2>2. QED
    BY <1>2, <1>4, <2>1, PatchKeepsLayout
<1>6. /\ Len(new) = n
      /\ \A p \in 1 .. n : p # at => new[p] = code[p]
      /\ new[at][2] = top
  <2>1. code[at] \in WithOperand \X Nat
    BY <1>1, <1>2, InstructionFacts
  <2>2. QED
    BY <2>1, <1>1, <1>2
<1>7. /\ v2.r \subseteq 1 .. top
      /\ \A p \in 1 .. n : p \in v2.r <=> p \in v.r
      /\ top \in v2.r <=> (top \in v.r \/ at \in v.r)
  BY <1>1, <1>2, ReachedAlsoFacts, ZenonT(30)
<1>8. v2.h = v.h /\ v2.g = v.g
  OBVIOUS
<1>14. new = PatchedAt(code, at)
  BY DEF PatchedAt
<1> HIDE DEF new, v2
<1>9. Unpatched(new) = open \ {at}
  <2>1. Unpatched(code) = open
    BY DEF Placed
  <2>2. \A p : p \in Unpatched(new) <=> p \in Unpatched(code) /\ p # at
    BY <1>1, <1>2, <1>6, SMTT(30) DEF Unpatched
  <2>3. QED
    BY <2>1, <2>2
<1>10. \A l \in loops : l \in 1 .. top /\ Dominates(l, v2.r)
  <2>1. SUFFICES ASSUME NEW l \in loops
                 PROVE  l \in 1 .. top /\ Dominates(l, v2.r)
    OBVIOUS
  <2>2. l \in 1 .. top /\ Dominates(l, v.r) /\ l <= at
    BY DEF Placed
  <2>3. l \in 1 .. n
    BY <2>2, <1>1, <1>2
  <2>4. ASSUME NEW p \in v2.r, p >= l
        PROVE  l \in v2.r
    <3>1. CASE p \in v.r
      BY <3>1, <2>2, <2>3, <2>4, <1>7 DEF Dominates
    <3>2. CASE at \in v.r
      BY <3>2, <2>2, <2>3, <1>2, <1>7 DEF Dominates
    <3>3. p \in v.r \/ at \in v.r
      <4>1. p \in 1 .. n \/ p = top
        BY <2>4, <1>1, <1>7
      <4>2. QED
        BY <4>1, <2>4, <1>7
    <3>4. QED
      BY <3>1, <3>2, <3>3
  <2>5. QED
    BY <2>2, <2>4 DEF Dominates
<1>11. Placed(new, arity, v2, height, guard, open \ {at}, loops)
  BY <1>1, <1>5, <1>6, <1>8, <1>9, <1>10 DEF Placed
<1>12. Longer(code, v, new, v2)
  BY <1>1, <1>6, <1>8 DEF Longer
<1>13. QED
  BY <1>6, <1>11, <1>12, <1>14

(* Taking values off the stack one by one, as endScope does.               *)
LEMMA EmitPops ==
  ASSUME NEW code, NEW arity, NEW v, NEW height, NEW guard, NEW open, NEW loops,
         Placed(code, arity, v, height, guard, open, loops),
         NEW more \in Seq({<<"POP">>, <<"CLOSE_UPVALUE">>}), Len(more) < height
  PROVE  \E v2 : /\ Placed(code \o more, arity, v2, height - Len(more), guard, open, loops)
                 /\ Longer(code, v, code \o more, v2)
<1> DEFINE n == Len(more)
           Part(j) == code \o SubSeq(more, 1, j)
           Is(j, v2) == /\ Placed(Part(j), arity, v2, height - j, guard, open, loops)
                        /\ Longer(code, v, Part(j), v2)
           S == {j \in Nat : j <= n => \E v2 : Is(j, v2)}
<1>1. code \in Seq(Instruction) /\ height \in Nat /\ n \in Nat
  <2>1. /\ v.h \in Seq(Nat \ {0}) /\ Len(code) + 1 \in 1 .. Len(v.h)
    BY DEF Placed, Layout, Sized
  <2>2. QED
    BY <2>1 DEF Placed, Layout
<1>2. 0 \in S
  <2>1. SubSeq(more, 1, 0) = <<>>
    BY SubSeqEmpty
  <2>2. Part(0) = code
    BY <1>1, <2>1, ConcatEmptySeq
  <2>3. Is(0, v)
    <3>1. height - 0 = height
      BY <1>1
    <3>2. Longer(code, v, code, v)
      BY <1>1, LongerSelf
    <3> HIDE DEF Part
    <3>3. QED
      BY <2>2, <3>1, <3>2
  <2>4. QED
    BY <2>3
<1>3. \A j \in Nat : j \in S => j + 1 \in S
  <2>1. SUFFICES ASSUME NEW j \in Nat, j \in S, j + 1 <= n
                 PROVE  \E v2 : Is(j + 1, v2)
    OBVIOUS
  <2>2. PICK v1 : Is(j, v1)
    BY <2>1, <1>1
  <2> DEFINE i == more[j + 1]
             s == SubSeq(more, 1, j)
             t == SubSeq(more, 1, j + 1)
  <2>3. i \in {<<"POP">>, <<"CLOSE_UPVALUE">>}
    BY <2>1, <1>1
  <2>4. /\ i \in Instruction /\ Plain(i) /\ Takes(i) = 1 /\ ~ Slotted(i) /\ Net(i) = -1
    BY <2>3 DEF Instruction, Bare, Plain, Falls, Jumps, Takes, Leaves, Net, Slotted
  <2>5. /\ s \in Seq({<<"POP">>, <<"CLOSE_UPVALUE">>})
        /\ t = Append(s, i)
    <3>1. j + 1 \in 1 .. Len(more)
      BY <2>1, <1>1
    <3>2. t = Append(SubSeq(more, 1, (j + 1) - 1), more[j + 1])
      BY <3>1, <1>1, SubSeqRecursiveSecond
    <3>3. (j + 1) - 1 = j
      OBVIOUS
    <3>4. s \in Seq({<<"POP">>, <<"CLOSE_UPVALUE">>})
      BY <2>1, <1>1, SubSeqProperties
    <3>5. QED
      BY <3>2, <3>3, <3>4
  <2>6. s \in Seq(Instruction)
    BY <2>5, SeqMonotonic DEF Instruction, Bare
  <2> HIDE DEF i, s, t
  <2>7. Part(j + 1) = Part(j) \o <<i>>
    <3>1. t = s \o <<i>>
      BY <2>4, <2>5, <2>6, AppendIsConcat
    <3>2. <<i>> \in Seq(Instruction)
      BY <2>4
    <3>3. code \o (s \o <<i>>) = (code \o s) \o <<i>>
      BY <1>1, <2>6, <3>2, ConcatAssociative
    <3>4. QED
      BY <3>1, <3>3 DEF s, t
  <2> HIDE DEF Part
  <2>8. Takes(i) < height - j /\ (height - j) + Net(i) = height - (j + 1)
    BY <2>1, <2>4, <1>1
  <2>9. PICK v2 : /\ Placed(Part(j) \o <<i>>, arity, v2, (height - j) + Net(i), guard, open, loops)
                  /\ Longer(Part(j), v1, Part(j) \o <<i>>, v2)
    BY <2>2, <2>4, <2>8, EmitPlain
  <2>10. Placed(Part(j + 1), arity, v2, height - (j + 1), guard, open, loops)
    BY <2>7, <2>8, <2>9
  <2>11. Part(j) \in Seq(Instruction) /\ Part(j + 1) \in Seq(Instruction)
    BY <2>2, <2>10 DEF Placed, Layout
  <2>12. Longer(code, v, Part(j + 1), v2)
    <3>1. Longer(code, v, Part(j), v1)
      BY <2>2
    <3>2. Longer(Part(j), v1, Part(j + 1), v2)
      BY <2>7, <2>9
    <3>3. QED
      BY <1>1, <2>11, <3>1, <3>2, LongerTrans
  <2>13. QED
    BY <2>10, <2>12
<1> HIDE DEF S
<1>4. n \in S
  BY <1>1, <1>2, <1>3, SetInduction
<1>5. Part(n) = code \o more
  BY SubSeqFull
<1>6. PICK v2 : Is(n, v2)
  BY <1>1, <1>4 DEF S
<1> HIDE DEF Part
<1>7. QED
  BY <1>5, <1>6

-----------------------------------------------------------------------------
(* Functions being compiled.                                               *)

Constant == ({"string"} \X Names) \cup {<<"number">>} \cup ({"function"} \X Nat)
Upvalue == [index : Nat, isLocal : BOOLEAN]
Kinds == {"SCRIPT", "FUNCTION", "METHOD", "CONSTRUCTOR"}
Types == {"NONE", "CLASS"}

ChunkSet ==
  [code : Seq(Instruction), constants : Seq(Constant), upvalues : Seq(Upvalue),
   scope : Levels, arity : Nat, kind : Kinds, type : Types, enclosingType : Types,
   hasSuperclass : BOOLEAN]

FunctionSet ==
  [code : Seq(Instruction), upvalues : Seq(Upvalue), kind : Kinds,
   constants : Seq(Constant), arity : Nat]

GoodChunk(c) == c \in ChunkSet /\ GoodScope(c.scope)

Initial(a, b) == Len(a) <= Len(b) /\ \A l \in 1 .. Len(a) : a[l] = b[l]

(* The instructions that ask for upvalues, and those that make them.       *)
Reads == {"GET_UPVALUE", "SET_UPVALUE"}
Special == {"CLOSURE"} \cup Reads

(* An instruction that no function's upvalues are made by, and that reads  *)
(* none but the first n.                                                   *)
Harmless(i, n) == i[1] # "CLOSURE" /\ (i[1] \in Reads => i[2] \in 0 .. n - 1)
Mild(code, n) ==
  code \in Seq(Instruction) /\ \A p \in 1 .. Len(code) : Harmless(code[p], n)

(* From a to b the constants and upvalues grow, and no code but harmless   *)
(* is added or changed.                                                    *)
Adds(a, b) ==
  /\ Initial(a.constants, b.constants)
  /\ Len(a.upvalues) <= Len(b.upvalues)
  /\ Len(a.code) <= Len(b.code)
  /\ \A p \in 1 .. Len(b.code) :
       \/ p \in 1 .. Len(a.code) /\ b.code[p] = a.code[p]
       \/ Harmless(b.code[p], Len(b.upvalues))

(* The CLOSURE at p names, by its constant, a function of fs all of whose  *)
(* upvalues are there: below the height, or among the upvalues of c.       *)
ClosureAt(c, p, v, fs) ==
  LET k == c.constants[c.code[p][2] + 1]
  IN  /\ c.code[p][2] + 1 \in 1 .. Len(c.constants)
      /\ k[1] = "function" /\ k[2] \in 1 .. Len(fs)
      /\ \A u \in ToSet(fs[k[2]].upvalues) :
           u.index \in 0 .. (IF u.isLocal THEN v.h[p] ELSE Len(c.upvalues)) - 1

Sound(c, v, fs) ==
  \A p \in 1 .. Len(c.code) :
    \/ Harmless(c.code[p], Len(c.upvalues))
    \/ c.code[p][1] = "CLOSURE" /\ (Len(c.constants) <= ByteSize => ClosureAt(c, p, v, fs))

AllSound(cs, w, fs) == \A k \in 1 .. Len(cs) : Sound(cs[k], w[k], fs)

(* The height up to which a function's slots are certainly filled while a  *)
(* function inside it is being compiled, and what that function may ask    *)
(* for.                                                                    *)
Top(scope) == 1 + Size(scope, Len(scope)) - (IF LastIsMissing(scope) THEN 1 ELSE 0)
Offers(a, u) == u.index \in 0 .. (IF u.isLocal THEN Top(a.scope) ELSE Len(a.upvalues)) - 1
Linked(cs) ==
  \A k \in 1 .. Len(cs) - 1 : \A u \in ToSet(cs[k + 1].upvalues) : Offers(cs[k], u)

-----------------------------------------------------------------------------
(* The invariant.  todo is the compiler's own plan: the invariant gives    *)
(* every entry of it the state in which it will find the function it is    *)
(* for.                                                                    *)
(*   chunk     the function: its place in chunks                           *)
(*   levels    of its scope                                                *)
(*   locals    how many there are up to each level, as far as it matters   *)
(*   missing   1 while the last local declared has no value yet            *)
(*   extra     values above the locals                                     *)
(*   guard     see Layout: the loop whose increment is being written, or 0 *)
(*   open      the jumps that still wait to be patched                     *)
(*   loops     entries of the loops that still wait for their LOOP         *)
(*   super     a superclass has been read in this function                 *)
(*   reads     upvalues that the function has                              *)
State ==
  [chunk : Nat \ {0}, levels : Nat \ {0}, locals : Seq(Nat), missing : {0, 1},
   extra : Nat, guard : Nat, open : SUBSET (Nat \ {0}), loops : SUBSET Nat,
   super : BOOLEAN, reads : SUBSET Nat]

(* The number of locals is known in full, and with it the height.          *)
Full(s) == Len(s.locals) = s.levels /\ s.missing <= s.locals[s.levels]
Base(s) == 1 + s.locals[s.levels]
HeightOf(s) == Base(s) - s.missing + s.extra

AtDepth(d, s) == d \in Nat /\ s.levels = d + 1
Calm(s, extra) == s.missing = 0 /\ s.guard = 0 /\ s.extra = extra

(* From s to t nothing changes but what is named besides; a fact may be    *)
(* forgotten.                                                              *)
Context(s, t) ==
  /\ t.chunk = s.chunk /\ t.loops \subseteq s.loops /\ t.reads \subseteq s.reads
  /\ (t.super => s.super)
Keeps(s, t) ==
  /\ Context(s, t)
  /\ t.levels = s.levels /\ t.missing = s.missing /\ t.guard = s.guard
  /\ Initial(t.locals, s.locals)
Becomes(s, t, extra, open) == Keeps(s, t) /\ t.extra = extra /\ t.open = open

(* A jump that waits at `at', and the place a loop begins.                 *)
JumpsFrom(at, height, guard, s, v) ==
  /\ at \in s.open /\ at \in 1 .. Len(v.h)
  /\ v.h[at] = height /\ v.g[at] = guard
  /\ \A l \in s.loops : l <= at
ExitsFrom(exit, s, v) == exit # 0 => JumpsFrom(exit, Base(s) + 1, 0, s, v)
StartsAt(start, s, v) ==
  /\ start \in 1 .. Len(v.h) /\ start \in s.loops
  /\ v.h[start] = Base(s) /\ v.g[start] = 0

Emittable(i, s) ==
  /\ i \in Instruction /\ ~ Jumps(i)
  /\ Takes(i) < HeightOf(s) /\ (Slotted(i) => i[2] < HeightOf(s))
  /\ i[1] # "CLOSURE" /\ (i[1] \in Reads => i[2] \in s.reads)

PrintPop == << <<"PRINT">>, <<"POP">> >>

Declares(d, s, t) ==
  /\ AtDepth(d, s) /\ Calm(s, 0)
  /\ Becomes(s, t, 0, s.open) /\ Len(t.locals) < s.levels
Executes(d, s, t) ==
  AtDepth(d, s) /\ Calm(s, 0) /\ Becomes(s, t, 0, s.open)
Branches(d, s, t) ==
  AtDepth(d, s) /\ Calm(s, 1) /\ Becomes(s, t, 0, s.open)
Elses(d, at, s, t, v) ==
  /\ AtDepth(d, s) /\ Calm(s, 0) /\ Full(s) /\ JumpsFrom(at, Base(s) + 1, 0, s, v)
  /\ Becomes(s, t, 0, s.open \ {at})
Patches(at, s, t, v) ==
  /\ Full(s) /\ JumpsFrom(at, HeightOf(s), s.guard, s, v)
  /\ Becomes(s, t, s.extra, s.open \ {at})
Loops(d, start, s, t, v) ==
  /\ AtDepth(d, s) /\ Calm(s, 1) /\ Full(s) /\ StartsAt(start, s, v)
  /\ Becomes(s, t, 0, s.open)
ClosesLoop(start, exit, s, t, v) ==
  /\ Calm(s, 0) /\ Full(s)
  /\ start \in 1 .. Len(v.h) /\ v.h[start] = Base(s) /\ Entry(v.g, start) \in s.loops
  /\ ExitsFrom(exit, s, v)
  /\ Becomes(s, t, 0, s.open \ {exit})
Increments(d, start, exit, s, t, v) ==
  /\ AtDepth(d, s) /\ Calm(s, 0) /\ Full(s)
  /\ StartsAt(start, s, v) /\ ExitsFrom(exit, s, v)
  /\ Becomes(s, t, 0, s.open \ {exit})
Bodies(d, start, exit, body, s, t, v) ==
  /\ AtDepth(d, s) /\ s.missing = 0 /\ s.extra = 1 /\ s.guard = start /\ Full(s)
  /\ StartsAt(start, s, v) /\ ExitsFrom(exit, s, v)
  /\ JumpsFrom(body, Base(s), 0, s, v) /\ body # exit
  /\ body + 1 \in 1 .. Len(v.h) /\ v.h[body + 1] = Base(s) /\ v.g[body + 1] = start
  /\ Context(s, t) /\ t.levels = s.levels /\ Initial(t.locals, s.locals) /\ Calm(t, 0)
  /\ t.open = s.open \ {exit, body}
Pushes(s, t) == Becomes(s, t, s.extra + 1, s.open)
Remains(s, t) == Becomes(s, t, s.extra, s.open)
Emits(code, s, t) ==
  /\ Full(s)
  /\ \/ \E i : code = <<i>> /\ Emittable(i, s) /\ Becomes(s, t, s.extra + Net(i), s.open)
     \/ code = PrintPop /\ s.extra >= 1 /\ Becomes(s, t, s.extra - 1, s.open)
EmitsConstant(op, value, operands, s, t) ==
  /\ Full(s) /\ value \in Constant
  /\ \A c \in Nat :
       LET i == <<op, c>> \o operands
       IN  Emittable(i, s) /\ Falls(i) /\ Becomes(s, t, s.extra + Net(i), s.open)
Defines(name, d, s, t) ==
  /\ AtDepth(d, s) /\ name \in Names /\ s.guard = 0 /\ s.extra = 1
  /\ s.missing = (IF d = 0 THEN 0 ELSE 1)
  /\ Context(s, t) /\ t.levels = s.levels /\ Initial(t.locals, s.locals) /\ Calm(t, 0)
  /\ t.open = s.open
Subclasses(d, s, t) ==
  /\ AtDepth(d, s) /\ Calm(s, 1) /\ Full(s)
  /\ t.chunk = s.chunk /\ t.loops \subseteq s.loops /\ t.reads \subseteq s.reads
  /\ t.levels = s.levels + 1 /\ Calm(t, 0) /\ t.open = s.open
  /\ Initial(t.locals, Append(s.locals, s.locals[s.levels] + 1))
Encloses(d, s, t) ==
  /\ d \in Nat /\ (s.levels = d + 1 \/ (s.levels = d + 2 /\ s.super)) /\ Calm(s, 1)
  /\ Context(s, t) /\ t.levels = d + 1 /\ Calm(t, 0) /\ t.open = s.open
  /\ Initial(t.locals, s.locals) /\ Len(t.locals) <= d
EndsScope(d, s, t) ==
  /\ d # 0 /\ AtDepth(d, s) /\ Calm(s, 0)
  /\ Context(s, t) /\ t.levels = d /\ Calm(t, 0) /\ t.open = s.open
  /\ Initial(t.locals, s.locals) /\ Len(t.locals) <= d

(* The levels of precedence.                                               *)
Strength == 1 .. Anything

(* What each entry of todo asks of the state it is done in, and what it    *)
(* leaves to the next one.                                                 *)
Rule(x, s, t, v) ==
  LET what == x[1]
  IN  /\ what \in {"declaration", "variable", "block", "statement", "expressionStatement",
                   "forCondition", "then", "else", "patch", "whileBody", "forExit",
                   "endLoop", "forIncrement", "forBody", "precedence", "infix", "paren",
                   "emit", "constant", "define", "read", "superclass", "class",
                   "methods", "endScope"}
      /\ what \in {"declaration", "variable", "block"} => Declares(x[2], s, t)
      /\ what \in {"statement", "expressionStatement", "forCondition"} => Executes(x[2], s, t)
      /\ what = "then" => Branches(x[2], s, t)
      /\ what = "else" => Elses(x[2], x[3], s, t, v)
      /\ what = "patch" => Patches(x[2], s, t, v)
      /\ what \in {"whileBody", "forExit"} => Loops(x[2], x[3], s, t, v)
      /\ what = "endLoop" => ClosesLoop(x[2], x[3], s, t, v)
      /\ what = "forIncrement" => Increments(x[2], x[3], x[4], s, t, v)
      /\ what = "forBody" => Bodies(x[2], x[3], x[4], x[5], s, t, v)
      /\ what = "precedence" => x[2] \in Strength /\ Pushes(s, t)
      /\ what = "infix" => x[2] \in Strength /\ s.extra >= 1 /\ Remains(s, t)
      /\ what = "paren" => Remains(s, t)
      /\ what = "emit" => Emits(x[2], s, t)
      /\ what = "constant" => EmitsConstant(x[2], x[3], x[4], s, t)
      /\ what = "define" => Defines(x[2], x[3], s, t)
      /\ what = "read" => x[2] \in Names /\ Pushes(s, t)
      /\ what = "superclass" => Subclasses(x[4], s, t)
      /\ what \in {"class", "methods"} => Encloses(x[2], s, t)
      /\ what = "endScope" => EndsScope(x[2], s, t)

-----------------------------------------------------------------------------

(* The function c, with the layout v, is in the state s.                   *)
Meets(c, v, s) ==
  /\ GoodChunk(c)
  /\ Len(c.scope) = s.levels
  /\ Len(s.locals) <= s.levels
  /\ \A l \in 1 .. Len(s.locals) : s.locals[l] = Size(c.scope, l)
  /\ Placed(c.code, c.arity, v, 1 + Size(c.scope, s.levels) - s.missing + s.extra,
            s.guard, s.open, s.loops)
  /\ s.super => c.hasSuperclass
  /\ s.missing = 1 => LastIsMissing(c.scope)
  /\ s.reads \subseteq 0 .. Len(c.upvalues) - 1

AtProgram(s) == s.levels = 1 /\ Calm(s, 0) /\ s.open = {}

(* The closure of the function that ends is pushed in the enclosing one.   *)
Suspended(t) == [t EXCEPT !.extra = @ - 1]
EndsFunction(s, t, cs, w) ==
  /\ s.open = {} /\ t.chunk = s.chunk - 1 /\ t.extra >= 1
  /\ Meets(cs[t.chunk], w[t.chunk], Suspended(t))

Leads(x, s, t, cs, w) ==
  \/ x = EndOfFunction /\ EndsFunction(s, t, cs, w)
  \/ x # EndOfFunction /\ Rule(x, s, t, w[s.chunk])

(* The entries q will find states that suit them, the first one s.  (W is  *)
(* the set of the tails of q, each with the state it begins in.)           *)
Closed(cs, w, W) ==
  \A q, s : <<q, s>> \in W =>
    /\ s \in State
    /\ q # <<>> /\ \E S : q \in Seq(S)
    /\ \/ q = << <<"program">> >> /\ AtProgram(s)
       \/ \E t : Leads(Head(q), s, t, cs, w) /\ <<Tail(q), t>> \in W

Future(cs, w, q, s) == \E W : Closed(cs, w, W) /\ <<q, s>> \in W

(* The current function is in a state from which all that is left to do    *)
(* can be done; w are the layouts of the functions.                        *)
Compiles ==
  /\ chunks \in Seq(ChunkSet) /\ chunks # <<>>
  /\ \A k \in 1 .. Len(chunks) : GoodScope(chunks[k].scope)
  /\ Linked(chunks)
  /\ \E w, s : /\ s.chunk = Len(chunks)
               /\ Meets(Current, w[Len(chunks)], s)
               /\ Future(chunks, w, todo, s)
               /\ AllSound(chunks, w, functions)

(* A function that has been compiled has a layout and no open jumps, and   *)
(* in this layout what it asks of the functions fs is there.               *)
LaidOut(f, fs) ==
  \E v : /\ Layout(f.code, f.arity, v.h, v.r, v.g) /\ Patched(f.code)
         /\ Sound(f, v, fs)

Functions(fs) == fs \in Seq(FunctionSet) /\ \A i \in 1 .. Len(fs) : LaidOut(fs[i], fs)

IInv ==
  /\ grammar \in Grammars
  /\ Functions(functions)
  /\ status = "compiling" => Compiles

-----------------------------------------------------------------------------
(* Plans: what todo has in store.                                          *)

LEMMA FutureHead ==
  ASSUME NEW cs, NEW w, NEW q, NEW s, Future(cs, w, q, s)
  PROVE  /\ s \in State /\ q # <<>> /\ \E S : q \in Seq(S)
         /\ \/ q = << <<"program">> >> /\ AtProgram(s)
            \/ \E t : Leads(Head(q), s, t, cs, w) /\ Future(cs, w, Tail(q), t)
<1>1. PICK W : Closed(cs, w, W) /\ <<q, s>> \in W
  BY DEF Future
<1>2. /\ s \in State /\ q # <<>> /\ \E S : q \in Seq(S)
      /\ \/ q = << <<"program">> >> /\ AtProgram(s)
         \/ \E t : Leads(Head(q), s, t, cs, w) /\ <<Tail(q), t>> \in W
  BY <1>1, Zenon DEF Closed
<1>3. \A t : <<Tail(q), t>> \in W => Future(cs, w, Tail(q), t)
  BY <1>1, Zenon DEF Future
<1>4. QED
  BY <1>2, <1>3, Zenon

LEMMA FuturePush ==
  ASSUME NEW cs, NEW w, NEW q, NEW s \in State, NEW t, NEW x,
         Leads(x, s, t, cs, w), Future(cs, w, q, t)
  PROVE  Future(cs, w, <<x>> \o q, s)
<1>1. PICK W : Closed(cs, w, W) /\ <<q, t>> \in W
  BY DEF Future
<1>2. PICK S : q \in Seq(S)
  BY FutureHead, Zenon
<1> DEFINE T == S \cup {x}
           new == <<x>> \o q
           V == W \cup {<<new, s>>}
<1>3. q \in Seq(T)
  BY <1>2, SeqMonotonic
<1>4. /\ new \in Seq(T) /\ Len(new) = 1 + Len(q)
      /\ Head(new) = x /\ Tail(new) = q
  <2>1. <<x>> \in Seq(T) /\ Len(<<x>>) = 1 /\ <<x>>[1] = x
    OBVIOUS
  <2>2. Len(q) \in Nat
    BY <1>3
  <2>3. /\ new \in Seq(T) /\ Len(new) = 1 + Len(q)
        /\ \A i \in 1 .. 1 + Len(q) : new[i] = IF i <= 1 THEN <<x>>[i] ELSE q[i - 1]
    BY <2>1, <1>3, ConcatProperties
  <2> HIDE DEF new, T
  <2>4. new # <<>>
    BY <2>2, <2>3
  <2>5. Head(new) = x
    BY <2>1, <2>2, <2>3
  <2>6. /\ Tail(new) \in Seq(T) /\ Len(Tail(new)) = Len(q)
        /\ \A i \in 1 .. Len(q) : Tail(new)[i] = new[i + 1]
    BY <2>2, <2>3, <2>4, HeadTailProperties
  <2>7. \A i \in 1 .. Len(q) : Tail(new)[i] = q[i]
    <3>1. TAKE i \in 1 .. Len(q)
    <3>2. i + 1 \in 1 .. 1 + Len(q) /\ ~ (i + 1 <= 1) /\ (i + 1) - 1 = i
      BY <2>2
    <3>3. QED
      BY <3>2, <2>3, <2>6
  <2>8. Tail(new) = q
    BY <2>6, <2>7, <1>3, SeqEqual
  <2>9. QED
    BY <2>3, <2>5, <2>8
<1>5. new # <<>>
  BY <1>3, <1>4, EmptySeq
<1> HIDE DEF new, T
<1>6. Closed(cs, w, V)
  <2>1. SUFFICES ASSUME NEW p, NEW u, <<p, u>> \in V
                 PROVE  /\ u \in State
                        /\ p # <<>> /\ \E R : p \in Seq(R)
                        /\ \/ p = << <<"program">> >> /\ AtProgram(u)
                           \/ \E r : Leads(Head(p), u, r, cs, w) /\ <<Tail(p), r>> \in V
    BY DEF Closed
  <2>2. CASE <<p, u>> \in W
    <3>1. /\ u \in State
          /\ p # <<>> /\ \E R : p \in Seq(R)
          /\ \/ p = << <<"program">> >> /\ AtProgram(u)
             \/ \E r : Leads(Head(p), u, r, cs, w) /\ <<Tail(p), r>> \in W
      BY <1>1, <2>2, Zenon DEF Closed
    <3>2. QED
      BY <3>1
  <2>3. CASE p = new /\ u = s
    <3>1. Leads(Head(p), u, t, cs, w) /\ <<Tail(p), t>> \in V
      BY <1>1, <1>4, <2>3
    <3>2. QED
      BY <3>1, <2>3, <1>4, <1>5
  <2>4. QED
    BY <2>1, <2>2, <2>3
<1>7. <<new, s>> \in V
  OBVIOUS
<1>8. QED
  BY <1>6, <1>7 DEF Future, new

LEMMA FutureProgram ==
  ASSUME NEW cs, NEW w, NEW s \in State, AtProgram(s)
  PROVE  Future(cs, w, << <<"program">> >>, s)
<1> DEFINE q == << <<"program">> >>
           W == {<<q, s>>}
<1>1. q # <<>> /\ q \in Seq({<<"program">>})
  OBVIOUS
<1>2. Closed(cs, w, W)
  BY <1>1 DEF Closed
<1>3. QED
  BY <1>2 DEF Future

(* A layout that says the same of the places the other knows.              *)
Extends(v, v2) ==
  \A p \in 1 .. Len(v.h) :
    p \in 1 .. Len(v2.h) /\ v2.h[p] = v.h[p] /\ v2.g[p] = v.g[p]

LEMMA RuleExtends ==
  ASSUME NEW x, NEW s, NEW t, NEW v, NEW v2, Rule(x, s, t, v), Extends(v, v2)
  PROVE  Rule(x, s, t, v2)
<1>1. \A at, height, guard : JumpsFrom(at, height, guard, s, v) => JumpsFrom(at, height, guard, s, v2)
  BY DEF JumpsFrom, Extends
<1>2. \A exit : ExitsFrom(exit, s, v) => ExitsFrom(exit, s, v2)
  BY <1>1 DEF ExitsFrom
<1>3. \A start : StartsAt(start, s, v) => StartsAt(start, s, v2)
  BY DEF StartsAt, Extends
<1>4. \A p : p \in 1 .. Len(v.h) => /\ p \in 1 .. Len(v2.h)
                                    /\ v2.h[p] = v.h[p] /\ v2.g[p] = v.g[p]
                                    /\ Entry(v2.g, p) = Entry(v.g, p)
  BY DEF Extends, Entry
<1>5. \A d, at : Elses(d, at, s, t, v) => Elses(d, at, s, t, v2)
  BY <1>1 DEF Elses
<1>6. \A at : Patches(at, s, t, v) => Patches(at, s, t, v2)
  BY <1>1 DEF Patches
<1>7. \A d, start : Loops(d, start, s, t, v) => Loops(d, start, s, t, v2)
  BY <1>3 DEF Loops
<1>8. \A start, exit : ClosesLoop(start, exit, s, t, v) => ClosesLoop(start, exit, s, t, v2)
  BY <1>2, <1>4 DEF ClosesLoop
<1>9. \A d, start, exit : Increments(d, start, exit, s, t, v) => Increments(d, start, exit, s, t, v2)
  BY <1>2, <1>3 DEF Increments
<1>10. \A d, start, exit, body : Bodies(d, start, exit, body, s, t, v) => Bodies(d, start, exit, body, s, t, v2)
  BY <1>1, <1>2, <1>3, <1>4 DEF Bodies
<1>11. QED
  BY <1>5, <1>6, <1>7, <1>8, <1>9, <1>10, Zenon DEF Rule

LEMMA RuleKeepsChunk ==
  ASSUME NEW x, NEW s, NEW t, NEW v, Rule(x, s, t, v)
  PROVE  t.chunk = s.chunk
BY DEF Rule, Declares, Executes, Branches, Elses, Patches, Loops, ClosesLoop, Increments,
       Bodies, Pushes, Remains, Emits, EmitsConstant, Defines, Subclasses, Encloses,
       EndsScope, Becomes, Keeps, Context

(* The plan of the K-th function and those around it survives what the     *)
(* K-th function adds to its layout, and what the ones around it may       *)
(* change without becoming unfit.                                          *)
LEMMA Transfer ==
  ASSUME NEW cs, NEW w, NEW cs2, NEW w2, NEW q, NEW s, NEW K \in Nat,
         s.chunk = K, Future(cs, w, q, s),
         Extends(w[K], w2[K]),
         \A k \in 1 .. K - 1 :
           w2[k] = w[k] /\ \A t \in State : Meets(cs[k], w[k], t) => Meets(cs2[k], w2[k], t)
  PROVE  Future(cs2, w2, q, s)
<1>1. PICK W : Closed(cs, w, W) /\ <<q, s>> \in W
  BY DEF Future
<1> DEFINE V == {e \in W : e[2].chunk <= K}
<1>2. \A p, u : <<p, u>> \in V <=> <<p, u>> \in W /\ u.chunk <= K
  OBVIOUS
<1> HIDE DEF V
<1>3. ASSUME NEW p, NEW u, <<p, u>> \in V
      PROVE  /\ u \in State
             /\ p # <<>> /\ \E R : p \in Seq(R)
             /\ \/ p = << <<"program">> >> /\ AtProgram(u)
                \/ \E r : Leads(Head(p), u, r, cs2, w2) /\ <<Tail(p), r>> \in V
  <2>1. <<p, u>> \in W /\ u.chunk <= K
    BY <1>2, <1>3
  <2>2. /\ u \in State
        /\ p # <<>> /\ \E R : p \in Seq(R)
        /\ \/ p = << <<"program">> >> /\ AtProgram(u)
           \/ \E r : Leads(Head(p), u, r, cs, w) /\ <<Tail(p), r>> \in W
    BY <1>1, <2>1, Zenon DEF Closed
  <2>3. ASSUME NEW r, Leads(Head(p), u, r, cs, w), <<Tail(p), r>> \in W
        PROVE  Leads(Head(p), u, r, cs2, w2) /\ <<Tail(p), r>> \in V
    <3>1. u.chunk \in 1 .. K
      BY <2>1, <2>2 DEF State
    <3>2. CASE Head(p) = EndOfFunction
      <4>1. EndsFunction(u, r, cs, w)
        BY <2>3, <3>2 DEF Leads
      <4>2. r \in State
        BY <1>1, <2>3, Zenon DEF Closed
      <4>3. r.chunk \in 1 .. K - 1
        BY <3>1, <4>1, <4>2 DEF EndsFunction, State
      <4>4. EndsFunction(u, r, cs2, w2)
        <5>1. Suspended(r) \in State
          <6>1. r.extra \in Nat /\ r.extra >= 1
            BY <4>1, <4>2 DEF EndsFunction, State
          <6>2. r.extra - 1 \in Nat
            BY <6>1
          <6>3. Suspended(r) = [r EXCEPT !.extra = r.extra - 1]
            BY <4>2 DEF Suspended, State
          <6>4. QED
            BY <4>2, <6>2, <6>3 DEF State
        <5>2. QED
          BY <4>1, <4>3, <5>1 DEF EndsFunction
      <4>5. r.chunk <= K
        BY <4>3
      <4>6. QED
        BY <1>2, <2>3, <3>2, <4>4, <4>5 DEF Leads
    <3>3. CASE Head(p) # EndOfFunction
      <4>1. Rule(Head(p), u, r, w[u.chunk])
        BY <2>3, <3>3 DEF Leads
      <4>2. Extends(w[u.chunk], w2[u.chunk])
        <5>1. CASE u.chunk = K
          BY <5>1
        <5>2. CASE u.chunk # K
          <6>1. w2[u.chunk] = w[u.chunk]
            BY <3>1, <5>2
          <6>2. QED
            BY <6>1 DEF Extends
        <5>3. QED
          BY <5>1, <5>2
      <4>3. Rule(Head(p), u, r, w2[u.chunk])
        BY <4>1, <4>2, RuleExtends
      <4>4. r.chunk <= K
        BY <2>1, <4>1, RuleKeepsChunk
      <4>5. QED
        BY <1>2, <2>3, <3>3, <4>3, <4>4 DEF Leads
    <3>4. QED
      BY <3>2, <3>3
  <2>4. QED
    BY <2>2, <2>3, Zenon
<1>4. Closed(cs2, w2, V)
  BY <1>3, Zenon DEF Closed
<1>5. <<q, s>> \in V
  BY <1>1, <1>2
<1>6. QED
  BY <1>4, <1>5, Zenon DEF Future

LEMMA Pair ==
  ASSUME NEW x, NEW y
  PROVE  <<x>> \o <<y>> = <<x, y>>
<1> DEFINE S == {x, y}
           a == <<x>> \o <<y>>
           b == <<x, y>>
<1>1. <<x>> \in Seq(S) /\ <<y>> \in Seq(S) /\ Len(<<x>>) = 1 /\ Len(<<y>>) = 1
  OBVIOUS
<1>2. /\ a \in Seq(S) /\ Len(a) = 1 + 1
      /\ \A i \in 1 .. 1 + 1 : a[i] = IF i <= 1 THEN <<x>>[i] ELSE <<y>>[i - 1]
  BY <1>1, ConcatProperties
<1>3. b \in Seq(S) /\ Len(b) = 2
  OBVIOUS
<1> HIDE DEF a, S
<1>4. a[1] = x /\ a[2] = y
  BY <1>2
<1>5. \A i \in 1 .. 2 : a[i] = b[i]
  <2>1. b[1] = x /\ b[2] = y
    OBVIOUS
  <2> HIDE DEF b
  <2>2. \A i \in 1 .. 2 : i = 1 \/ i = 2
    OBVIOUS
  <2>3. QED
    BY <1>4, <2>1, <2>2
<1> HIDE DEF b
<1>6. a = b
  BY <1>2, <1>3, <1>5, SeqEqual
<1>7. QED
  BY <1>6 DEF a, b

LEMMA Triple ==
  ASSUME NEW x, NEW y, NEW z
  PROVE  <<x, y>> \o <<z>> = <<x, y, z>>
<1> DEFINE S == {x, y, z}
           a == <<x, y>> \o <<z>>
           b == <<x, y, z>>
<1>1. <<x, y>> \in Seq(S) /\ <<z>> \in Seq(S) /\ Len(<<x, y>>) = 2 /\ Len(<<z>>) = 1
  OBVIOUS
<1>2. /\ a \in Seq(S) /\ Len(a) = 2 + 1
      /\ \A i \in 1 .. 2 + 1 : a[i] = IF i <= 2 THEN <<x, y>>[i] ELSE <<z>>[i - 2]
  BY <1>1, ConcatProperties
<1>3. b \in Seq(S) /\ Len(b) = 3
  OBVIOUS
<1> HIDE DEF a, S
<1>4. a[1] = x /\ a[2] = y /\ a[3] = z
  BY <1>2
<1>5. \A i \in 1 .. 3 : a[i] = b[i]
  <2>1. b[1] = x /\ b[2] = y /\ b[3] = z
    OBVIOUS
  <2> HIDE DEF b
  <2>2. \A i \in 1 .. 3 : i = 1 \/ i = 2 \/ i = 3
    OBVIOUS
  <2>3. QED
    BY <1>4, <2>1, <2>2
<1> HIDE DEF b
<1>6. a = b
  BY <1>2, <1>3, <1>5, SeqEqual
<1>7. QED
  BY <1>6 DEF a, b

(* Doing `items' takes the function from the state s to the state t.       *)
Leading(items, s, t, v) ==
  /\ s \in State /\ t.chunk = s.chunk
  /\ \E S : items \in Seq(S)
  /\ \A cs, w, q : w[s.chunk] = v /\ Future(cs, w, q, t) => Future(cs, w, items \o q, s)

LEMMA LeadNone ==
  ASSUME NEW s \in State, NEW v
  PROVE  Leading(<<>>, s, s, v)
<1>1. ASSUME NEW cs, NEW w, NEW q, Future(cs, w, q, s)
      PROVE  Future(cs, w, <<>> \o q, s)
  <2>1. PICK S : q \in Seq(S)
    BY <1>1, FutureHead, Zenon
  <2>2. <<>> \o q = q
    BY <2>1, ConcatEmptySeq
  <2>3. QED
    BY <1>1, <2>2
<1>2. <<>> \in Seq({})
  OBVIOUS
<1>3. QED
  BY <1>1, <1>2, Zenon DEF Leading

LEMMA LeadOne ==
  ASSUME NEW s \in State, NEW t, NEW v, NEW x, x # EndOfFunction, Rule(x, s, t, v)
  PROVE  Leading(<<x>>, s, t, v)
<1>1. ASSUME NEW cs, NEW w, NEW q, w[s.chunk] = v, Future(cs, w, q, t)
      PROVE  Future(cs, w, <<x>> \o q, s)
  <2>1. Leads(x, s, t, cs, w)
    BY <1>1 DEF Leads
  <2>2. QED
    BY <1>1, <2>1, FuturePush
<1>2. <<x>> \in Seq({x})
  OBVIOUS
<1>3. t.chunk = s.chunk
  BY RuleKeepsChunk
<1>4. QED
  BY <1>1, <1>2, <1>3, Zenon DEF Leading

LEMMA LeadJoin ==
  ASSUME NEW a, NEW b, NEW s, NEW m, NEW t, NEW v,
         Leading(a, s, m, v), Leading(b, m, t, v)
  PROVE  Leading(a \o b, s, t, v)
<1>1. PICK A : a \in Seq(A)
  BY Zenon DEF Leading
<1>2. PICK B : b \in Seq(B)
  BY Zenon DEF Leading
<1>3. a \in Seq(A \cup B) /\ b \in Seq(A \cup B)
  BY <1>1, <1>2, SeqMonotonic
<1>4. a \o b \in Seq(A \cup B)
  BY <1>3, ConcatProperties
<1>5. s \in State /\ m.chunk = s.chunk /\ t.chunk = s.chunk
  BY DEF Leading
<1>6. ASSUME NEW cs, NEW w, NEW q, w[s.chunk] = v, Future(cs, w, q, t)
      PROVE  Future(cs, w, (a \o b) \o q, s)
  <2>1. PICK Q : q \in Seq(Q)
    BY <1>6, FutureHead, Zenon
  <2> DEFINE T == (A \cup B) \cup Q
  <2>2. a \in Seq(T) /\ b \in Seq(T) /\ q \in Seq(T)
    BY <1>3, <2>1, SeqMonotonic
  <2> HIDE DEF T
  <2>3. (a \o b) \o q = a \o (b \o q)
    BY <2>2, ConcatAssociative
  <2>4. w[m.chunk] = v
    BY <1>5, <1>6
  <2>5. Future(cs, w, b \o q, m)
    BY <1>6, <2>4, Zenon DEF Leading
  <2>6. Future(cs, w, a \o (b \o q), s)
    BY <1>6, <2>5, Zenon DEF Leading
  <2>7. QED
    BY <2>3, <2>6
<1>7. QED
  BY <1>4, <1>5, <1>6, Zenon DEF Leading

LEMMA LeadTwo ==
  ASSUME NEW x, NEW y, NEW s, NEW m, NEW t, NEW v,
         Leading(<<x>>, s, m, v), Leading(<<y>>, m, t, v)
  PROVE  Leading(<<x, y>>, s, t, v)
<1>1. <<x>> \o <<y>> = <<x, y>>
  BY Pair
<1>2. QED
  BY <1>1, LeadJoin

LEMMA LeadThree ==
  ASSUME NEW x, NEW y, NEW z, NEW s, NEW m, NEW n, NEW t, NEW v,
         Leading(<<x>>, s, m, v), Leading(<<y>>, m, n, v), Leading(<<z>>, n, t, v)
  PROVE  Leading(<<x, y, z>>, s, t, v)
<1>1. <<x, y>> \o <<z>> = <<x, y, z>>
  BY Triple
<1>2. Leading(<<x, y>>, s, n, v)
  BY LeadTwo
<1>3. QED
  BY <1>1, <1>2, LeadJoin

LEMMA RuleOf ==
  ASSUME NEW x, NEW s, NEW t, NEW v
  PROVE  /\ x[1] \in {"declaration", "variable", "block"} => (Rule(x, s, t, v) <=> Declares(x[2], s, t))
         /\ x[1] \in {"statement", "expressionStatement", "forCondition"} =>
              (Rule(x, s, t, v) <=> Executes(x[2], s, t))
         /\ x[1] = "then" => (Rule(x, s, t, v) <=> Branches(x[2], s, t))
         /\ x[1] = "else" => (Rule(x, s, t, v) <=> Elses(x[2], x[3], s, t, v))
         /\ x[1] = "patch" => (Rule(x, s, t, v) <=> Patches(x[2], s, t, v))
         /\ x[1] \in {"whileBody", "forExit"} => (Rule(x, s, t, v) <=> Loops(x[2], x[3], s, t, v))
         /\ x[1] = "endLoop" => (Rule(x, s, t, v) <=> ClosesLoop(x[2], x[3], s, t, v))
         /\ x[1] = "forIncrement" => (Rule(x, s, t, v) <=> Increments(x[2], x[3], x[4], s, t, v))
         /\ x[1] = "forBody" => (Rule(x, s, t, v) <=> Bodies(x[2], x[3], x[4], x[5], s, t, v))
         /\ x[1] = "precedence" => (Rule(x, s, t, v) <=> (x[2] \in Strength /\ Pushes(s, t)))
         /\ x[1] = "infix" =>
              (Rule(x, s, t, v) <=> (x[2] \in Strength /\ s.extra >= 1 /\ Remains(s, t)))
         /\ x[1] = "paren" => (Rule(x, s, t, v) <=> Remains(s, t))
         /\ x[1] = "emit" => (Rule(x, s, t, v) <=> Emits(x[2], s, t))
         /\ x[1] = "constant" => (Rule(x, s, t, v) <=> EmitsConstant(x[2], x[3], x[4], s, t))
         /\ x[1] = "define" => (Rule(x, s, t, v) <=> Defines(x[2], x[3], s, t))
         /\ x[1] = "read" => (Rule(x, s, t, v) <=> (x[2] \in Names /\ Pushes(s, t)))
         /\ x[1] = "superclass" => (Rule(x, s, t, v) <=> Subclasses(x[4], s, t))
         /\ x[1] \in {"class", "methods"} => (Rule(x, s, t, v) <=> Encloses(x[2], s, t))
         /\ x[1] = "endScope" => (Rule(x, s, t, v) <=> EndsScope(x[2], s, t))
BY DEF Rule

(* An entry that is not the end of a function leads by its rule.           *)
LEMMA Entries ==
  ASSUME NEW s \in State, NEW t, NEW v, NEW x, x[1] # "endFunction", Rule(x, s, t, v)
  PROVE  Leading(<<x>>, s, t, v)
<1>1. x # EndOfFunction
  BY DEF EndOfFunction
<1>2. QED
  BY <1>1, LeadOne

-----------------------------------------------------------------------------
(* What the head of todo finds, and what it has to leave.                  *)

(* Another function's capturing leaves its code and its locals alone.      *)
AlikeChunk(a, b) ==
  /\ b \in ChunkSet
  /\ b.code = a.code /\ b.arity = a.arity /\ b.hasSuperclass = a.hasSuperclass
  /\ b.constants = a.constants /\ Len(a.upvalues) <= Len(b.upvalues)
  /\ AlikeScopes(a.scope, b.scope)

Standing(w, s, t) ==
  /\ chunks \in Seq(ChunkSet) /\ chunks # <<>>
  /\ \A k \in 1 .. Len(chunks) : GoodScope(chunks[k].scope)
  /\ Linked(chunks) /\ AllSound(chunks, w, functions)
  /\ s \in State /\ t \in State /\ Full(s) /\ s.chunk = Len(chunks)
  /\ Meets(Current, w[Len(chunks)], s)
  /\ Rule(Head(todo), s, t, w[Len(chunks)])
  /\ Future(chunks, w, Tail(todo), t)

LEMMA MeetsAlike ==
  ASSUME NEW a, NEW b, NEW v, NEW s, AlikeChunk(a, b), Meets(a, v, s), s \in State
  PROVE  Meets(b, v, s)
<1>1. /\ GoodScope(a.scope) /\ b.scope \in Levels /\ AlikeScopes(a.scope, b.scope)
      /\ Len(a.scope) = s.levels /\ Len(a.scope) \in Nat /\ s.levels \in Nat
  BY LevelFacts DEF Meets, GoodChunk, AlikeChunk, ChunkSet, State, GoodScope
<1>2. /\ GoodScope(b.scope)
      /\ \A l \in 0 .. s.levels : Size(b.scope, l) = Size(a.scope, l)
      /\ LastIsMissing(a.scope) => LastIsMissing(b.scope)
  BY <1>1, AlikeIsGood
<1>3. Len(b.scope) = s.levels
  BY <1>1 DEF AlikeScopes
<1>4. Size(b.scope, s.levels) = Size(a.scope, s.levels)
  BY <1>1, <1>2
<1>5. \A l \in 1 .. Len(s.locals) : l \in 0 .. s.levels
  BY <1>1 DEF Meets, State
<1>6. s.reads \subseteq 0 .. Len(b.upvalues) - 1
  <2>1. /\ s.reads \subseteq 0 .. Len(a.upvalues) - 1 /\ a \in ChunkSet /\ b \in ChunkSet
        /\ Len(a.upvalues) <= Len(b.upvalues)
    BY DEF Meets, GoodChunk, AlikeChunk
  <2>2. Len(a.upvalues) \in Nat /\ Len(b.upvalues) \in Nat
    BY <2>1 DEF ChunkSet
  <2>3. QED
    BY <2>1, <2>2
<1>7. QED
  BY <1>2, <1>3, <1>4, <1>5, <1>6 DEF Meets, GoodChunk, AlikeChunk

(* What is known of a state may be forgotten.                              *)
Weaker(s, t) == Becomes(s, t, s.extra, s.open)

LEMMA MeetsWeaker ==
  ASSUME NEW c, NEW v, NEW s \in State, NEW t \in State, Meets(c, v, s), Weaker(s, t)
  PROVE  Meets(c, v, t)
<1>1. /\ t.levels = s.levels /\ t.missing = s.missing /\ t.extra = s.extra
      /\ t.guard = s.guard /\ t.open = s.open /\ t.loops \subseteq s.loops
      /\ (t.super => s.super) /\ Initial(t.locals, s.locals) /\ t.reads \subseteq s.reads
  BY DEF Weaker, Becomes, Keeps, Context
<1>2. /\ Len(t.locals) <= s.levels
      /\ \A l \in 1 .. Len(t.locals) : t.locals[l] = Size(c.scope, l)
  <2>1. Len(t.locals) \in Nat /\ Len(s.locals) \in Nat /\ s.levels \in Nat
    BY DEF State
  <2>2. Len(t.locals) <= Len(s.locals) /\ Len(s.locals) <= s.levels
    BY <1>1 DEF Initial, Meets
  <2>3. \A l \in 1 .. Len(t.locals) : l \in 1 .. Len(s.locals) /\ t.locals[l] = s.locals[l]
    BY <1>1, <2>1, <2>2 DEF Initial
  <2>4. QED
    BY <2>1, <2>2, <2>3 DEF Meets
<1>3. Placed(c.code, c.arity, v, 1 + Size(c.scope, t.levels) - t.missing + t.extra,
             t.guard, t.open, t.loops)
  BY <1>1 DEF Meets, Placed
<1>4. QED
  BY <1>1, <1>2, <1>3 DEF Meets

LEMMA InitialTrans ==
  ASSUME NEW a \in Seq(Nat), NEW b \in Seq(Nat), NEW c \in Seq(Nat),
         Initial(a, b), Initial(b, c)
  PROVE  Initial(a, c)
<1>1. Len(a) \in Nat /\ Len(b) \in Nat /\ Len(c) \in Nat
  OBVIOUS
<1>2. Len(a) <= Len(b) /\ Len(b) <= Len(c)
  BY DEF Initial
<1>3. \A l \in 1 .. Len(a) : l \in 1 .. Len(b)
  BY <1>1, <1>2
<1>4. QED
  BY <1>1, <1>2, <1>3 DEF Initial

(* A rule that does not ask for the number of locals in full is not        *)
(* disturbed by knowing it.                                                *)
LEMMA RuleKnowsMore ==
  ASSUME NEW x, NEW s \in State, NEW t \in State, NEW v, Rule(x, s, t, v),
         NEW L \in Seq(Nat), Len(L) = s.levels, Initial(s.locals, L)
  PROVE  Rule(x, [s EXCEPT !.locals = L], t, v)
<1> DEFINE u == [s EXCEPT !.locals = L]
<1>1. CASE Len(s.locals) = s.levels
  <2>1. s.locals = L
    BY <1>1, SeqEqual DEF Initial, State
  <2>2. u = s
    BY <2>1 DEF State
  <2>3. QED
    BY <2>2
<1>2. CASE Len(s.locals) # s.levels
  <2>1. ~ Full(s)
    BY <1>2 DEF Full
  <2>2. /\ u.chunk = s.chunk /\ u.levels = s.levels /\ u.missing = s.missing
        /\ u.extra = s.extra /\ u.guard = s.guard /\ u.open = s.open
        /\ u.loops = s.loops /\ u.super = s.super /\ u.locals = L /\ u.reads = s.reads
    BY DEF State
  <2>3. \A a : a \in Seq(Nat) /\ Initial(a, s.locals) => Initial(a, L)
    <3>1. s.locals \in Seq(Nat)
      BY DEF State
    <3>2. QED
      BY <3>1, InitialTrans
  <2>4. t.locals \in Seq(Nat)
    BY DEF State
  <2> HIDE DEF u
  <2>5. Initial(t.locals, s.locals) => Initial(t.locals, u.locals)
    BY <2>2, <2>3, <2>4
  <2>6. Keeps(s, t) => Keeps(u, t)
    BY <2>2, <2>5 DEF Keeps, Context
  <2>14. \A e, o : Becomes(s, t, e, o) => Becomes(u, t, e, o)
    BY <2>6 DEF Becomes
  <2>7. Context(s, t) => Context(u, t)
    BY <2>2 DEF Context
  <2>8. /\ \A d : Declares(d, s, t) => Declares(d, u, t)
        /\ \A d : Executes(d, s, t) => Executes(d, u, t)
        /\ \A d : Branches(d, s, t) => Branches(d, u, t)
        /\ Pushes(s, t) => Pushes(u, t)
        /\ Remains(s, t) => Remains(u, t)
    BY <2>2, <2>14 DEF Declares, Executes, Branches, Pushes, Remains, AtDepth, Calm
  <2>9. /\ \A name, d : Defines(name, d, s, t) => Defines(name, d, u, t)
        /\ \A d : Encloses(d, s, t) => Encloses(d, u, t)
        /\ \A d : EndsScope(d, s, t) => EndsScope(d, u, t)
    BY <2>2, <2>5, <2>7 DEF Defines, Encloses, EndsScope, AtDepth, Calm
  <2>10. /\ \A d, at : ~ Elses(d, at, s, t, v)
         /\ \A at : ~ Patches(at, s, t, v)
         /\ \A d, start : ~ Loops(d, start, s, t, v)
         /\ \A start, exit : ~ ClosesLoop(start, exit, s, t, v)
         /\ \A d, start, exit : ~ Increments(d, start, exit, s, t, v)
         /\ \A d, start, exit, body : ~ Bodies(d, start, exit, body, s, t, v)
         /\ \A code : ~ Emits(code, s, t)
         /\ \A op, value, operands : ~ EmitsConstant(op, value, operands, s, t)
         /\ \A d : ~ Subclasses(d, s, t)
    BY <2>1 DEF Elses, Patches, Loops, ClosesLoop, Increments, Bodies, Emits,
                EmitsConstant, Subclasses
  <2>11. s.extra >= 1 => u.extra >= 1
    BY <2>2
  <2>12. Rule(x, u, t, v)
    BY <2>8, <2>9, <2>10, <2>11, ZenonT(30) DEF Rule
  <2>13. QED
    BY <2>12 DEF u
<1>3. QED
  BY <1>1, <1>2

(* All that can be known of the number of locals.                          *)
LEMMA KnowingAll ==
  ASSUME NEW c, NEW v, NEW s \in State, Meets(c, v, s)
  PROVE  \E L \in Seq(Nat) :
           LET u == [s EXCEPT !.locals = L]
           IN  /\ Len(L) = s.levels /\ Initial(s.locals, L)
               /\ u \in State /\ Full(u) /\ Meets(c, v, u)
<1> DEFINE L == [l \in 1 .. s.levels |-> Size(c.scope, l)]
           u == [s EXCEPT !.locals = L]
<1>1. /\ c.scope \in Levels /\ Len(c.scope) = s.levels /\ s.levels \in Nat \ {0}
      /\ s.missing \in {0, 1} /\ s.locals \in Seq(Nat)
  BY DEF Meets, GoodChunk, GoodScope, State
<1>2. \A l \in 0 .. s.levels : Size(c.scope, l) \in Nat
  BY <1>1, SizeFacts
<1>3. L \in Seq(Nat) /\ Len(L) = s.levels
  BY <1>1, <1>2
<1>4. Initial(s.locals, L)
  <2>1. Len(s.locals) <= s.levels /\ Len(s.locals) \in Nat
    BY <1>1 DEF Meets
  <2>2. \A l \in 1 .. Len(s.locals) : l \in 1 .. s.levels /\ s.locals[l] = Size(c.scope, l)
    BY <1>1, <2>1 DEF Meets
  <2>3. QED
    BY <1>3, <2>1, <2>2 DEF Initial
<1>5. /\ u.chunk = s.chunk /\ u.levels = s.levels /\ u.missing = s.missing
      /\ u.extra = s.extra /\ u.guard = s.guard /\ u.open = s.open
      /\ u.loops = s.loops /\ u.super = s.super /\ u.locals = L /\ u.reads = s.reads
      /\ u \in State
  BY <1>3 DEF State
<1>6. s.missing <= Size(c.scope, s.levels)
  <2>1. CASE s.missing = 0
    BY <2>1, <1>1, <1>2
  <2>2. CASE s.missing = 1
    <3>1. LastIsMissing(c.scope)
      BY <2>2 DEF Meets
    <3>2. /\ Size(c.scope, s.levels) = Size(c.scope, s.levels - 1) + Len(c.scope[s.levels])
          /\ Size(c.scope, s.levels - 1) \in Nat
      <4>1. s.levels - 1 \in 0 .. s.levels /\ s.levels \in 1 .. Len(c.scope)
        BY <1>1
      <4>2. QED
        BY <4>1, <1>1, <1>2, SizeFacts
    <3>3. Len(c.scope[s.levels]) \in Nat /\ Len(c.scope[s.levels]) >= 1
      BY <1>1, <3>1, LevelFacts DEF LastIsMissing
    <3>4. QED
      BY <2>2, <3>2, <3>3
  <2>3. QED
    BY <2>1, <2>2, <1>1
<1>7. \A l \in 1 .. s.levels : L[l] = Size(c.scope, l)
  OBVIOUS
<1>8. s.levels \in 1 .. s.levels
  BY <1>1
<1> HIDE DEF L
<1>9. Full(u)
  BY <1>3, <1>5, <1>6, <1>7, <1>8 DEF Full
<1>10. Meets(c, v, u)
  <2>1. s.levels <= s.levels
    BY <1>1
  <2> HIDE DEF u
  <2>2. QED
    BY <2>1, <1>3, <1>5, <1>7 DEF Meets
<1>11. QED
  BY <1>3, <1>4, <1>5, <1>9, <1>10

LEMMA HeadStands ==
  ASSUME Compiles, Head(todo)[1] \notin {"program", "endFunction"}
  PROVE  \E w, s, t : Standing(w, s, t)
<1>1. PICK w, s : /\ s.chunk = Len(chunks)
                  /\ Meets(Current, w[Len(chunks)], s)
                  /\ Future(chunks, w, todo, s)
                  /\ AllSound(chunks, w, functions)
  BY DEF Compiles
<1>2. s \in State /\ todo # << <<"program">> >>
  <2>1. Head(<< <<"program">> >>)[1] = "program"
    OBVIOUS
  <2>2. QED
    BY <1>1, <2>1, FutureHead
<1>3. PICK t : Leads(Head(todo), s, t, chunks, w) /\ Future(chunks, w, Tail(todo), t)
  BY <1>1, <1>2, FutureHead
<1>4. Rule(Head(todo), s, t, w[Len(chunks)]) /\ t \in State
  <2>1. Head(todo) # EndOfFunction
    BY DEF EndOfFunction
  <2>2. QED
    BY <1>1, <1>3, <2>1, FutureHead DEF Leads
<1>5. PICK L \in Seq(Nat) :
        LET u == [s EXCEPT !.locals = L]
        IN  /\ Len(L) = s.levels /\ Initial(s.locals, L)
            /\ u \in State /\ Full(u) /\ Meets(Current, w[Len(chunks)], u)
  BY <1>1, <1>2, KnowingAll
<1> DEFINE u == [s EXCEPT !.locals = L]
<1>6. Rule(Head(todo), u, t, w[Len(chunks)])
  BY <1>2, <1>4, <1>5, RuleKnowsMore
<1>7. u.chunk = Len(chunks)
  BY <1>1, <1>2 DEF State
<1>8. Standing(w, u, t)
  <2>1. /\ u \in State /\ Full(u) /\ Meets(Current, w[Len(chunks)], u)
        /\ AllSound(chunks, w, functions)
    BY <1>1, <1>5
  <2> HIDE DEF u
  <2>2. QED
    BY <2>1, <1>3, <1>4, <1>6, <1>7 DEF Standing, Compiles
<1>9. QED
  BY <1>8

(* The functions that are being compiled stay what they are, but for the   *)
(* innermost one, which is c now.                                          *)
Succeeds(cs, c) ==
  /\ cs \in Seq(ChunkSet) /\ Len(cs) = Len(chunks)
  /\ \A k \in 1 .. Len(chunks) - 1 : AlikeChunk(chunks[k], cs[k])
  /\ cs[Len(chunks)] = c
  /\ Linked(cs)

(* What is sound stays so when code is added, and when functions are.      *)
LEMMA SoundAdds ==
  ASSUME NEW a \in ChunkSet, NEW b \in ChunkSet, NEW v, NEW v2, NEW fs,
         Sound(a, v, fs), Adds(a, b), Extends(v, v2), Len(a.code) <= Len(v.h)
  PROVE  Sound(b, v2, fs)
<1>1. /\ Len(a.upvalues) \in Nat /\ Len(b.upvalues) \in Nat
      /\ Len(a.constants) \in Nat /\ Len(b.constants) \in Nat /\ Len(a.code) \in Nat
      /\ ByteSize \in Nat
  BY ByteAssumption DEF ChunkSet
<1>2. /\ Len(a.upvalues) <= Len(b.upvalues) /\ Len(a.constants) <= Len(b.constants)
      /\ \A l \in 1 .. Len(a.constants) : b.constants[l] = a.constants[l]
  BY DEF Adds, Initial
<1>3. ASSUME NEW p \in 1 .. Len(a.code), b.code[p] = a.code[p]
      PROVE  \/ Harmless(b.code[p], Len(b.upvalues))
             \/ b.code[p][1] = "CLOSURE" /\ (Len(b.constants) <= ByteSize => ClosureAt(b, p, v2, fs))
  <2>1. CASE Harmless(a.code[p], Len(a.upvalues))
    <3>1. \A i : i \in 0 .. Len(a.upvalues) - 1 => i \in 0 .. Len(b.upvalues) - 1
      BY <1>1, <1>2
    <3>2. QED
      BY <3>1, <2>1, <1>3 DEF Harmless
  <2>2. CASE /\ a.code[p][1] = "CLOSURE"
             /\ Len(a.constants) <= ByteSize => ClosureAt(a, p, v, fs)
    <3> SUFFICES ASSUME Len(b.constants) <= ByteSize
                 PROVE  ClosureAt(b, p, v2, fs)
      BY <2>2, <1>3
    <3> DEFINE k == a.constants[a.code[p][2] + 1]
    <3>1. Len(a.constants) <= ByteSize
      BY <1>1, <1>2
    <3>2. /\ a.code[p][2] + 1 \in 1 .. Len(a.constants)
          /\ k[1] = "function" /\ k[2] \in 1 .. Len(fs)
          /\ \A u \in ToSet(fs[k[2]].upvalues) :
               u.index \in 0 .. (IF u.isLocal THEN v.h[p] ELSE Len(a.upvalues)) - 1
      BY <3>1, <2>2, Zenon DEF ClosureAt
    <3>3. /\ b.code[p][2] + 1 \in 1 .. Len(b.constants)
          /\ b.constants[b.code[p][2] + 1] = k
      <4> DEFINE m == a.code[p][2] + 1
      <4>1. /\ m \in 1 .. Len(a.constants) /\ k = a.constants[m]
            /\ b.code[p][2] + 1 = m
        BY <3>2, <1>3
      <4> HIDE DEF m, k
      <4>2. m \in 1 .. Len(b.constants) /\ b.constants[m] = a.constants[m]
        BY <4>1, <1>1, <1>2
      <4>3. QED
        BY <4>1, <4>2
    <3>4. v2.h[p] = v.h[p]
      <4>1. \A n : n <= Len(v.h) => n <= Len(v.h)
        OBVIOUS
      <4>2. p \in 1 .. Len(v.h)
        BY <1>1
      <4>3. QED
        BY <4>2 DEF Extends
    <3> HIDE DEF k
    <3>5. ASSUME NEW u \in ToSet(fs[k[2]].upvalues)
          PROVE  u.index \in 0 .. (IF u.isLocal THEN v2.h[p] ELSE Len(b.upvalues)) - 1
      <4>1. CASE u.isLocal
        BY <4>1, <3>2, <3>4
      <4>2. CASE ~ u.isLocal
        <5>1. u.index \in 0 .. Len(a.upvalues) - 1
          BY <4>2, <3>2
        <5>2. \A i : i \in 0 .. Len(a.upvalues) - 1 => i \in 0 .. Len(b.upvalues) - 1
          BY <1>1, <1>2
        <5>3. QED
          BY <4>2, <5>1, <5>2
      <4>3. QED
        BY <4>1, <4>2
    <3>6. QED
      BY <3>2, <3>3, <3>5 DEF ClosureAt
  <2>3. QED
    BY <2>1, <2>2 DEF Sound
<1>4. QED
  BY <1>3 DEF Sound, Adds

LEMMA AddsSelf ==
  ASSUME NEW a \in ChunkSet
  PROVE  Adds(a, a)
<1>1. Len(a.constants) \in Nat /\ Len(a.upvalues) \in Nat /\ Len(a.code) \in Nat
  BY DEF ChunkSet
<1>2. QED
  BY <1>1 DEF Adds, Initial

LEMMA UpTo ==
  ASSUME NEW a \in Nat, NEW b \in Nat, NEW c \in Nat, a <= b, b <= c
  PROVE  a <= c
OBVIOUS

LEMMA AddsTrans ==
  ASSUME NEW a \in ChunkSet, NEW b \in ChunkSet, NEW c \in ChunkSet, Adds(a, b), Adds(b, c)
  PROVE  Adds(a, c)
<1>1. /\ Len(a.constants) \in Nat /\ Len(a.upvalues) \in Nat /\ Len(a.code) \in Nat
      /\ Len(b.constants) \in Nat /\ Len(b.upvalues) \in Nat /\ Len(b.code) \in Nat
      /\ Len(c.constants) \in Nat /\ Len(c.upvalues) \in Nat /\ Len(c.code) \in Nat
  BY DEF ChunkSet
<1>2. Initial(a.constants, c.constants)
  <2>1. /\ Len(a.constants) <= Len(b.constants) /\ Len(b.constants) <= Len(c.constants)
        /\ \A l \in 1 .. Len(a.constants) : a.constants[l] = b.constants[l]
        /\ \A l \in 1 .. Len(b.constants) : b.constants[l] = c.constants[l]
    BY DEF Adds, Initial
  <2>2. \A l \in 1 .. Len(a.constants) : l \in 1 .. Len(b.constants)
    BY <2>1, <1>1
  <2>3. \A l \in 1 .. Len(a.constants) : a.constants[l] = c.constants[l]
    BY <2>1, <2>2, Zenon
  <2>4. Len(a.constants) <= Len(c.constants)
    BY <2>1, <1>1, UpTo
  <2>5. QED
    BY <2>3, <2>4 DEF Initial
<1>3. /\ Len(a.upvalues) <= Len(b.upvalues) /\ Len(b.upvalues) <= Len(c.upvalues)
      /\ Len(a.code) <= Len(b.code) /\ Len(b.code) <= Len(c.code)
  BY DEF Adds
<1>4. ASSUME NEW p \in 1 .. Len(c.code)
      PROVE  \/ p \in 1 .. Len(a.code) /\ c.code[p] = a.code[p]
             \/ Harmless(c.code[p], Len(c.upvalues))
  <2>1. CASE p \in 1 .. Len(b.code) /\ c.code[p] = b.code[p]
    <3>1. CASE p \in 1 .. Len(a.code) /\ b.code[p] = a.code[p]
      BY <2>1, <3>1
    <3>2. CASE Harmless(b.code[p], Len(b.upvalues))
      <4>1. \A i : i \in 0 .. Len(b.upvalues) - 1 => i \in 0 .. Len(c.upvalues) - 1
        BY <1>1, <1>3
      <4>2. QED
        BY <4>1, <2>1, <3>2 DEF Harmless
    <3>3. QED
      BY <2>1, <3>1, <3>2 DEF Adds
  <2>2. QED
    BY <2>1 DEF Adds
<1>5. Len(a.upvalues) <= Len(c.upvalues) /\ Len(a.code) <= Len(c.code)
  BY <1>1, <1>3, UpTo
<1>6. QED
  BY <1>2, <1>4, <1>5 DEF Adds

(* Another function's capturing leaves a function's code sound, and what   *)
(* fits in it.                                                             *)
LEMMA AlikeIsSound ==
  ASSUME NEW a \in ChunkSet, NEW b, AlikeChunk(a, b), NEW v, NEW fs, Sound(a, v, fs)
  PROVE  Sound(b, v, fs)
<1>1. /\ Len(a.constants) \in Nat /\ Len(a.code) \in Nat
      /\ b \in ChunkSet /\ b.constants = a.constants /\ b.code = a.code
      /\ Len(a.upvalues) <= Len(b.upvalues)
      /\ Len(a.upvalues) \in Nat /\ Len(b.upvalues) \in Nat
  BY DEF ChunkSet, AlikeChunk
<1>2. \A i : i \in 0 .. Len(a.upvalues) - 1 => i \in 0 .. Len(b.upvalues) - 1
  BY <1>1
<1>3. ASSUME NEW p \in 1 .. Len(a.code)
      PROVE  /\ Harmless(a.code[p], Len(a.upvalues)) => Harmless(b.code[p], Len(b.upvalues))
             /\ ClosureAt(a, p, v, fs) => ClosureAt(b, p, v, fs)
  <2>1. Harmless(a.code[p], Len(a.upvalues)) => Harmless(b.code[p], Len(b.upvalues))
    BY <1>1, <1>2 DEF Harmless
  <2>2. ASSUME ClosureAt(a, p, v, fs)
        PROVE  ClosureAt(b, p, v, fs)
    <3> DEFINE k == a.constants[a.code[p][2] + 1]
    <3>1. /\ a.code[p][2] + 1 \in 1 .. Len(a.constants)
          /\ k[1] = "function" /\ k[2] \in 1 .. Len(fs)
          /\ \A u \in ToSet(fs[k[2]].upvalues) :
               u.index \in 0 .. (IF u.isLocal THEN v.h[p] ELSE Len(a.upvalues)) - 1
      BY <2>2, Zenon DEF ClosureAt
    <3>2. b.constants[b.code[p][2] + 1] = k
      BY <1>1
    <3> HIDE DEF k
    <3>3. ASSUME NEW u \in ToSet(fs[k[2]].upvalues)
          PROVE  u.index \in 0 .. (IF u.isLocal THEN v.h[p] ELSE Len(b.upvalues)) - 1
      <4>1. CASE u.isLocal
        BY <4>1, <3>1
      <4>2. CASE ~ u.isLocal
        BY <4>2, <3>1, <1>2
      <4>3. QED
        BY <4>1, <4>2
    <3>4. QED
      BY <3>1, <3>2, <3>3, <1>1 DEF ClosureAt
  <2>3. QED
    BY <2>1, <2>2
<1>4. QED
  BY <1>1, <1>3 DEF Sound

LEMMA Continued ==
  ASSUME NEW w, NEW s, NEW t, Standing(w, s, t),
         NEW cs, NEW c, Succeeds(cs, c),
         NEW items, Continue(cs, items),
         NEW v, NEW u, Meets(c, v, u), u.chunk = s.chunk, Adds(Current, c),
         Extends(w[Len(chunks)], v), Leading(items, u, t, v)
  PROVE  Compiles'
<1> DEFINE K == Len(chunks)
           w2 == [k \in 1 .. K |-> IF k = K THEN v ELSE w[k]]
<1>1. K \in Nat \ {0} /\ u.chunk = K /\ t.chunk = K /\ s.chunk = K
  <2>1. K \in Nat /\ s.chunk = K
    BY DEF Standing
  <2>2. K # 0
    BY EmptySeq DEF Standing
  <2>3. QED
    BY <2>1, <2>2 DEF Leading
<1>2. w2[K] = v /\ \A k \in 1 .. K - 1 : w2[k] = w[k]
  BY <1>1
<1> HIDE DEF w2
<1>3. \A k \in 1 .. K - 1 :
        w2[k] = w[k] /\ \A r \in State : Meets(chunks[k], w[k], r) => Meets(cs[k], w2[k], r)
  BY <1>2, MeetsAlike DEF Succeeds
<1>4. Future(chunks, w, Tail(todo), t) /\ t \in State
  BY DEF Standing
<1>5. Future(cs, w2, Tail(todo), t)
  BY <1>1, <1>2, <1>3, <1>4, Transfer
<1>6. Future(cs, w2, items \o Tail(todo), u)
  BY <1>1, <1>2, <1>5, Zenon DEF Leading
<1>7. chunks' = cs /\ todo' = items \o Tail(todo)
  BY DEF Continue
<1>8. cs # <<>> /\ Len(cs) = K /\ Last(cs) = c
  BY <1>1 DEF Succeeds, Last
<1>9. \A k \in 1 .. K : GoodScope(cs[k].scope)
  <2>1. TAKE k \in 1 .. K
  <2>2. CASE k = K
    BY <2>2 DEF Succeeds, Meets, GoodChunk
  <2>3. CASE k # K
    <3>1. k \in 1 .. K - 1
      BY <2>3, <1>1
    <3>2. GoodScope(chunks[k].scope) /\ AlikeChunk(chunks[k], cs[k])
      BY <3>1, <1>1 DEF Standing, Succeeds
    <3>3. QED
      BY <3>2, AlikeIsGood DEF AlikeChunk, ChunkSet
  <2>4. QED
    BY <2>2, <2>3
<1>10. Meets(Last(cs), w2[K], u)
  BY <1>2, <1>8
<1>11. AllSound(cs, w2, functions)
  <2>1. /\ chunks \in Seq(ChunkSet) /\ AllSound(chunks, w, functions)
        /\ Current = chunks[K] /\ Meets(Current, w[K], s) /\ c \in ChunkSet
    BY <1>1 DEF Standing, Meets, GoodChunk, Current, Last
  <2>2. Sound(c, v, functions)
    <3>1. Len(Current.code) <= Len(w[K].h)
      <4>1. Len(w[K].h) = Len(Current.code) + 1 /\ Current.code \in Seq(Instruction)
        BY <2>1 DEF Meets, Placed, Layout, Sized
      <4>2. QED
        BY <4>1
    <3>2. Sound(Current, w[K], functions) /\ Current \in ChunkSet
      BY <1>1, <2>1 DEF AllSound
    <3>3. QED
      BY <3>1, <3>2, <2>1, SoundAdds
  <2>3. ASSUME NEW k \in 1 .. K
        PROVE  Sound(cs[k], w2[k], functions)
    <3>1. CASE k = K
      BY <3>1, <2>2, <1>2 DEF Succeeds
    <3>2. CASE k # K
      <4>1. k \in 1 .. K - 1
        BY <3>2, <1>1
      <4>2. /\ chunks[k] \in ChunkSet /\ AlikeChunk(chunks[k], cs[k]) /\ w2[k] = w[k]
            /\ Sound(chunks[k], w[k], functions)
        BY <4>1, <1>1, <1>2, <2>1 DEF Succeeds, AllSound
      <4>3. QED
        BY <4>2, AlikeIsSound
    <3>3. QED
      BY <3>1, <3>2
  <2>4. QED
    BY <2>3, <1>8 DEF AllSound
<1>12. \E x, r : /\ r.chunk = Len(cs)
                 /\ Meets(Last(cs), x[Len(cs)], r)
                 /\ Future(cs, x, items \o Tail(todo), r)
                 /\ AllSound(cs, x, functions)
  BY <1>1, <1>6, <1>8, <1>10, <1>11
<1>13. functions' = functions
  BY DEF Continue
<1>14. QED
  BY <1>7, <1>8, <1>9, <1>12, <1>13 DEF Compiles, Succeeds, Current

-----------------------------------------------------------------------------
(* Writing code in a state whose number of locals is known.                *)

Now(s, extra, guard, open) ==
  [s EXCEPT !.extra = extra, !.guard = guard, !.open = open]

Stays(s, u) ==
  /\ u.chunk = s.chunk /\ u.levels = s.levels /\ u.locals = s.locals
  /\ u.missing = s.missing /\ u.loops = s.loops /\ u.super = s.super
  /\ u.reads = s.reads

LEMMA NowFacts ==
  ASSUME NEW s \in State, NEW extra \in Nat, NEW guard \in Nat,
         NEW open \in SUBSET (Nat \ {0})
  PROVE  LET u == Now(s, extra, guard, open)
         IN  /\ u \in State /\ Stays(s, u)
             /\ u.extra = extra /\ u.guard = guard /\ u.open = open
             /\ Base(u) = Base(s)
             /\ HeightOf(u) = Base(s) - s.missing + extra
             /\ Full(s) => Full(u)
BY DEF Now, State, Stays, Base, HeightOf, Full

LEMMA NowSame ==
  ASSUME NEW s \in State
  PROVE  Now(s, s.extra, s.guard, s.open) = s
BY DEF Now, State

LEMMA NowNow ==
  ASSUME NEW s \in State, NEW a, NEW b, NEW c, NEW d, NEW e, NEW f
  PROVE  Now(Now(s, a, b, c), d, e, f) = Now(s, d, e, f)
BY DEF Now, State

LEMMA FullFacts ==
  ASSUME NEW s \in State, Full(s)
  PROVE  /\ Base(s) \in Nat \ {0} /\ s.missing \in {0, 1} /\ s.extra \in Nat
         /\ Base(s) - s.missing \in Nat \ {0}
         /\ HeightOf(s) = Base(s) - s.missing + s.extra
         /\ HeightOf(s) \in Nat \ {0}
         /\ s.levels \in Nat \ {0} /\ s.locals[s.levels] \in Nat
         /\ s.guard \in Nat /\ s.open \in SUBSET (Nat \ {0}) /\ s.loops \in SUBSET Nat
         /\ s.chunk \in Nat \ {0} /\ s.locals \in Seq(Nat) /\ Len(s.locals) = s.levels
<1>1. s.levels \in Nat \ {0} /\ s.locals \in Seq(Nat) /\ s.missing \in {0, 1}
      /\ s.extra \in Nat
      /\ s.guard \in Nat /\ s.open \in SUBSET (Nat \ {0}) /\ s.loops \in SUBSET Nat
      /\ s.chunk \in Nat \ {0}
  BY DEF State
<1>2. Len(s.locals) = s.levels /\ s.missing <= s.locals[s.levels]
  BY DEF Full
<1>3. s.locals[s.levels] \in Nat
  BY <1>1, <1>2
<1> DEFINE n == s.locals[s.levels]
<1>4. n \in Nat /\ Base(s) = 1 + n /\ HeightOf(s) = Base(s) - s.missing + s.extra /\ s.missing <= n
  BY <1>2, <1>3 DEF Base, HeightOf
<1> HIDE DEF n
<1>5. /\ Base(s) \in Nat \ {0}
      /\ Base(s) - s.missing \in Nat \ {0}
      /\ HeightOf(s) \in Nat \ {0}
  BY <1>1, <1>4
<1>6. QED
  BY <1>1, <1>2, <1>3, <1>4, <1>5

Fitted(code, arity, v, s) ==
  Placed(code, arity, v, HeightOf(s), s.guard, s.open, s.loops)

LEMMA FittedFacts ==
  ASSUME NEW code, NEW arity, NEW v, NEW s, Fitted(code, arity, v, s)
  PROVE  /\ code \in Seq(Instruction) /\ Len(code) \in Nat /\ arity \in Nat
         /\ Len(v.h) = Len(code) + 1 /\ Len(code) + 1 \in 1 .. Len(v.h)
         /\ v.h[Len(code) + 1] = HeightOf(s) /\ v.g[Len(code) + 1] = s.guard
         /\ s.open \subseteq 1 .. Len(code)
         /\ Len(code) + 1 \notin s.open
         /\ \A l \in s.loops : l \in Nat /\ l <= Len(code) + 1
<1>1. /\ code \in Seq(Instruction) /\ Len(code) \in Nat /\ arity \in Nat
      /\ Len(v.h) = Len(code) + 1
      /\ v.h[Len(code) + 1] = HeightOf(s) /\ v.g[Len(code) + 1] = s.guard
      /\ s.open = Unpatched(code)
      /\ \A l \in s.loops : l \in 1 .. Len(code) + 1
  BY DEF Fitted, Placed, Layout, Sized
<1>2. s.open \subseteq 1 .. Len(code)
  BY <1>1 DEF Unpatched
<1>3. QED
  BY <1>1, <1>2

LEMMA LongerExtends ==
  ASSUME NEW code, NEW arity, NEW v, NEW s, Fitted(code, arity, v, s),
         NEW code2, NEW arity2, NEW v2, NEW s2, Fitted(code2, arity2, v2, s2),
         Longer(code, v, code2, v2)
  PROVE  Extends(v, v2)
<1>1. /\ Len(code) \in Nat /\ Len(v.h) = Len(code) + 1
      /\ Len(code2) \in Nat /\ Len(v2.h) = Len(code2) + 1
  BY FittedFacts
<1>2. QED
  BY <1>1 DEF Longer, Extends

LEMMA ExtendsTrans ==
  ASSUME NEW a, NEW b, NEW c, Extends(a, b), Extends(b, c)
  PROVE  Extends(a, c)
BY DEF Extends

LEMMA JumpsExtend ==
  ASSUME NEW at, NEW height, NEW guard, NEW s, NEW v, JumpsFrom(at, height, guard, s, v),
         NEW u, at \in u.open, u.loops = s.loops, NEW v2, Extends(v, v2)
  PROVE  JumpsFrom(at, height, guard, u, v2)
BY DEF JumpsFrom, Extends

(* An instruction that does not jump, RETURN among them.                   *)
LEMMA WriteOne ==
  ASSUME NEW code, NEW arity, NEW v, NEW s \in State, Full(s), Fitted(code, arity, v, s),
         NEW i \in Instruction, ~ Jumps(i),
         Takes(i) < HeightOf(s), Slotted(i) => i[2] < HeightOf(s),
         NEW e \in Nat, e = s.extra + Net(i)
  PROVE  \E v2 : /\ Fitted(code \o <<i>>, arity, v2, Now(s, e, s.guard, s.open))
                 /\ Extends(v, v2)
<1> DEFINE u == Now(s, e, s.guard, s.open)
<1>1. /\ u.guard = s.guard /\ u.open = s.open /\ u.loops = s.loops
      /\ HeightOf(u) = Base(s) - s.missing + e /\ HeightOf(u) \in Nat \ {0}
  <2>1. /\ u \in State /\ Stays(s, u) /\ Full(u)
        /\ u.guard = s.guard /\ u.open = s.open
        /\ HeightOf(u) = Base(s) - s.missing + e
    BY NowFacts, FullFacts
  <2> HIDE DEF u
  <2>2. QED
    BY <2>1, FullFacts DEF Stays
<1>2. HeightOf(u) = HeightOf(s) + Net(i)
  <2>1. /\ HeightOf(s) = Base(s) - s.missing + s.extra /\ s.extra \in Nat
        /\ Base(s) - s.missing \in Nat
    BY FullFacts
  <2>2. Net(i) \in Int
    BY InstructionFacts DEF Net
  <2> HIDE DEF u
  <2>3. QED
    BY <2>1, <2>2, <1>1
<1> HIDE DEF u
<1>3. ~ Skips(i) /\ i[1] # "LOOP"
  BY DEF Skips, Jumps
<1>4. OpenedBy(i, Len(code) + 1) = {}
  BY <1>3 DEF OpenedBy
<1>5. s.guard \in Nat
  BY FullFacts
<1>6. PICK v2 : /\ Placed(code \o <<i>>, arity, v2, HeightOf(u), s.guard,
                           s.open \cup OpenedBy(i, Len(code) + 1), s.loops)
                /\ Longer(code, v, code \o <<i>>, v2)
  BY <1>1, <1>2, <1>3, <1>5, EmitOne DEF Fitted
<1>7. Fitted(code \o <<i>>, arity, v2, u)
  <2>1. s.open \cup OpenedBy(i, Len(code) + 1) = u.open
    BY <1>1, <1>4
  <2>2. QED
    BY <2>1, <1>1, <1>6 DEF Fitted
<1>8. Extends(v, v2)
  BY <1>6, <1>7, LongerExtends
<1>9. QED
  BY <1>7, <1>8 DEF u

(* A jump that will be patched.  Nothing falls through a JUMP: the state   *)
(* behind it is what the code that is jumped to next needs.                *)
LEMMA WriteSkip ==
  ASSUME NEW code, NEW arity, NEW v, NEW s \in State, Full(s), Fitted(code, arity, v, s),
         NEW i \in { <<"JUMP_IF_FALSE", 0>>, <<"JUMP", 0>> },
         i[1] = "JUMP_IF_FALSE" => HeightOf(s) > 1,
         NEW e \in Nat, NEW x \in Nat,
         i[1] = "JUMP_IF_FALSE" => e = s.extra /\ x = s.guard
  PROVE  LET at == Len(code) + 1
             u  == Now(s, e, x, s.open \cup {at})
         IN  \E v2 : /\ Fitted(code \o <<i>>, arity, v2, u)
                     /\ Extends(v, v2)
                     /\ JumpsFrom(at, HeightOf(s), s.guard, u, v2)
<1> DEFINE at == Len(code) + 1
           u  == Now(s, e, x, s.open \cup {at})
<1>1. /\ Len(code) \in Nat /\ at \in 1 .. Len(v.h)
      /\ v.h[at] = HeightOf(s) /\ v.g[at] = s.guard
      /\ \A l \in s.loops : l \in Nat /\ l <= at
  BY FittedFacts
<1>2. /\ u \in State /\ u.guard = x /\ u.open = s.open \cup {at} /\ u.loops = s.loops
      /\ HeightOf(u) = Base(s) - s.missing + e /\ HeightOf(u) \in Nat \ {0}
  <2>1. s.open \cup {at} \in SUBSET (Nat \ {0})
    BY <1>1, FullFacts
  <2>2. /\ u \in State /\ Stays(s, u) /\ Full(u)
        /\ u.guard = x /\ u.open = s.open \cup {at}
        /\ HeightOf(u) = Base(s) - s.missing + e
    BY <2>1, NowFacts
  <2> HIDE DEF u
  <2>3. QED
    BY <2>2, FullFacts DEF Stays
<1>3. /\ i \in Instruction /\ Skips(i) /\ i[2] = 0 /\ ~ Slotted(i) /\ i[1] # "LOOP"
      /\ Net(i) = 0
      /\ Falls(i) => i[1] = "JUMP_IF_FALSE"
      /\ Takes(i) = IF i[1] = "JUMP_IF_FALSE" THEN 1 ELSE 0
  BY DEF Instruction, WithOperand, Skips, Slotted, Net, Leaves, Takes, Falls
<1>4. /\ HeightOf(s) \in Nat \ {0}
      /\ HeightOf(s) = Base(s) - s.missing + s.extra
  BY FullFacts
<1> HIDE DEF u
<1>5. Takes(i) < HeightOf(s)
  BY <1>3, <1>4
<1>6. Falls(i) => HeightOf(u) = HeightOf(s) + Net(i) /\ x = s.guard
  BY <1>2, <1>3, <1>4
<1>7. OpenedBy(i, at) = {at}
  BY <1>3 DEF OpenedBy
<1>8. PICK v2 : /\ Placed(code \o <<i>>, arity, v2, HeightOf(u), x,
                           s.open \cup OpenedBy(i, at), s.loops)
                /\ Longer(code, v, code \o <<i>>, v2)
  <2>1. /\ Placed(code, arity, v, HeightOf(s), s.guard, s.open, s.loops)
        /\ Slotted(i) => i[2] < HeightOf(s)
        /\ Skips(i) => i[2] = 0
        /\ i[1] = "LOOP" => LoopsTo(i[2], code, v, HeightOf(s), s.guard, s.loops)
        /\ HeightOf(u) \in Nat \ {0} /\ i \in Instruction
    BY <1>2, <1>3 DEF Fitted
  <2>2. QED
    BY <2>1, <1>5, <1>6, EmitOne
<1>9. Fitted(code \o <<i>>, arity, v2, u)
  BY <1>2, <1>7, <1>8 DEF Fitted
<1>10. Extends(v, v2)
  BY <1>8, <1>9, LongerExtends
<1>11. JumpsFrom(at, HeightOf(s), s.guard, u, v2)
  BY <1>1, <1>2, <1>10 DEF JumpsFrom, Extends
<1>12. QED
  BY <1>9, <1>10, <1>11 DEF u, at

(* The jump back.                                                          *)
LEMMA WriteLoop ==
  ASSUME NEW code, NEW arity, NEW v, NEW s \in State, Full(s), Fitted(code, arity, v, s),
         NEW start \in 1 .. Len(v.h), v.h[start] = HeightOf(s),
         IF s.guard # 0 THEN start = s.guard ELSE Entry(v.g, start) \in s.loops,
         NEW e \in Nat, NEW x \in Nat
  PROVE  \E v2 : /\ Fitted(code \o << <<"LOOP", start>> >>, arity, v2, Now(s, e, x, s.open))
                 /\ Extends(v, v2)
<1> DEFINE u  == Now(s, e, x, s.open)
           i  == <<"LOOP", start>>
<1>1. /\ Len(code) \in Nat /\ start \in 1 .. Len(code) + 1 /\ start \in Nat
  BY FittedFacts
<1>2. /\ u \in State /\ u.guard = x /\ u.open = s.open /\ u.loops = s.loops
      /\ HeightOf(u) \in Nat \ {0}
  <2>1. /\ u \in State /\ Stays(s, u) /\ Full(u)
        /\ u.guard = x /\ u.open = s.open
    BY NowFacts, FullFacts
  <2> HIDE DEF u
  <2>2. QED
    BY <2>1, FullFacts DEF Stays
<1>3. /\ i \in Instruction /\ ~ Skips(i) /\ i[2] = start /\ ~ Slotted(i) /\ ~ Falls(i)
      /\ Takes(i) = 0
  BY <1>1 DEF Instruction, WithOperand, Skips, Slotted, Takes, Falls
<1>4. OpenedBy(i, Len(code) + 1) = {}
  BY <1>3 DEF OpenedBy
<1>5. LoopsTo(i[2], code, v, HeightOf(s), s.guard, s.loops)
  BY <1>1, <1>3 DEF LoopsTo
<1>6. Takes(i) < HeightOf(s)
  BY <1>3, FullFacts
<1> HIDE DEF u, i
<1>7. PICK v2 : /\ Placed(code \o <<i>>, arity, v2, HeightOf(u), x,
                           s.open \cup OpenedBy(i, Len(code) + 1), s.loops)
                /\ Longer(code, v, code \o <<i>>, v2)
  BY <1>2, <1>3, <1>5, <1>6, EmitOne, ZenonT(30) DEF Fitted
<1>8. Fitted(code \o <<i>>, arity, v2, u)
  <2>1. s.open \cup OpenedBy(i, Len(code) + 1) = u.open
    BY <1>2, <1>4
  <2>2. QED
    BY <2>1, <1>2, <1>7 DEF Fitted
<1>9. Extends(v, v2)
  BY <1>7, <1>8, LongerExtends
<1>10. QED
  BY <1>8, <1>9 DEF u, i

LEMMA WritePatch ==
  ASSUME NEW code, NEW arity, NEW v, NEW s \in State, Full(s), Fitted(code, arity, v, s),
         NEW at, JumpsFrom(at, HeightOf(s), s.guard, s, v)
  PROVE  LET new == PatchedAt(code, at)
         IN  /\ Len(new) = Len(code)
             /\ \E v2 : /\ Fitted(new, arity, v2, Now(s, s.extra, s.guard, s.open \ {at}))
                        /\ Extends(v, v2)
<1> DEFINE u   == Now(s, s.extra, s.guard, s.open \ {at})
           new == PatchedAt(code, at)
<1>1. /\ u \in State /\ u.guard = s.guard /\ u.open = s.open \ {at} /\ u.loops = s.loops
      /\ HeightOf(u) = HeightOf(s)
  <2>1. /\ u \in State /\ Stays(s, u)
        /\ u.guard = s.guard /\ u.open = s.open \ {at}
        /\ HeightOf(u) = Base(s) - s.missing + s.extra
    BY NowFacts, FullFacts
  <2> HIDE DEF u
  <2>2. QED
    BY <2>1, FullFacts DEF Stays
<1>2. /\ at \in s.open /\ v.h[at] = HeightOf(s) /\ v.g[at] = s.guard
      /\ \A l \in s.loops : l <= at
  BY DEF JumpsFrom
<1> HIDE DEF u
<1>3. PICK v2 : /\ Placed(new, arity, v2, HeightOf(s), s.guard, s.open \ {at}, s.loops)
                /\ Longer(code, v, new, v2)
                /\ Len(new) = Len(code)
  <2>1. Placed(code, arity, v, HeightOf(s), s.guard, s.open, s.loops)
    BY DEF Fitted
  <2>2. QED
    <3>1. ASSUME NEW H, NEW G, NEW O, NEW L, at \in O, v.h[at] = H, v.g[at] = G,
                 \A l \in L : l <= at, Placed(code, arity, v, H, G, O, L)
          PROVE  \E v2 : /\ Placed(PatchedAt(code, at), arity, v2, H, G, O \ {at}, L)
                         /\ Longer(code, v, PatchedAt(code, at), v2)
                         /\ Len(PatchedAt(code, at)) = Len(code)
      BY <3>1, PatchOne
    <3>2. QED
      BY <1>2, <2>1, <3>1
<1> HIDE DEF new
<1>4. Fitted(new, arity, v2, u)
  BY <1>1, <1>3 DEF Fitted
<1>5. Extends(v, v2)
  BY <1>3, <1>4, LongerExtends
<1>6. QED
  BY <1>3, <1>4, <1>5 DEF u, new

(* The two instructions a condition ends in: the value is popped where     *)
(* control goes on, and left where the jump will land.                     *)
LEMMA WriteBranch ==
  ASSUME NEW code, NEW arity, NEW v, NEW s \in State, Full(s), Fitted(code, arity, v, s),
         s.extra >= 1
  PROVE  LET at == Len(code) + 1
             u  == Now(s, s.extra - 1, s.guard, s.open \cup {at})
         IN  \E v2 : /\ Fitted(code \o << <<"JUMP_IF_FALSE", 0>>, <<"POP">> >>, arity, v2, u)
                     /\ Extends(v, v2)
                     /\ JumpsFrom(at, HeightOf(s), s.guard, u, v2)
<1> DEFINE at == Len(code) + 1
           m  == Now(s, s.extra, s.guard, s.open \cup {at})
           u  == Now(s, s.extra - 1, s.guard, s.open \cup {at})
           i  == <<"JUMP_IF_FALSE", 0>>
           j  == <<"POP">>
<1>1. /\ s.extra \in Nat /\ s.guard \in Nat /\ s.extra - 1 \in Nat
      /\ Base(s) - s.missing \in Nat \ {0}
      /\ HeightOf(s) = Base(s) - s.missing + s.extra
      /\ Len(code) \in Nat /\ code \in Seq(Instruction)
  BY FullFacts, FittedFacts
<1>2. HeightOf(s) > 1
  BY <1>1
<1>3. s.open \cup {at} \in SUBSET (Nat \ {0})
  BY <1>1, FullFacts
<1>4. PICK v1 : /\ Fitted(code \o <<i>>, arity, v1, m)
                /\ Extends(v, v1)
                /\ JumpsFrom(at, HeightOf(s), s.guard, m, v1)
  BY <1>1, <1>2, WriteSkip
<1>5. /\ m \in State /\ Full(m) /\ m.extra = s.extra /\ m.guard = s.guard
      /\ m.open = s.open \cup {at} /\ m.loops = s.loops
      /\ HeightOf(m) = Base(s) - s.missing + s.extra
  BY <1>1, <1>3, NowFacts DEF Stays
<1>6. u = Now(m, s.extra - 1, m.guard, m.open)
  <2>1. Now(m, s.extra - 1, m.guard, m.open) = Now(s, s.extra - 1, m.guard, m.open)
    BY NowNow
  <2> HIDE DEF m
  <2>2. QED
    BY <2>1, <1>5
<1>7. /\ j \in Instruction /\ ~ Jumps(j) /\ ~ Slotted(j) /\ Takes(j) = 1 /\ Net(j) = -1
  BY DEF Instruction, Bare, Jumps, Slotted, Takes, Net, Leaves
<1> HIDE DEF j, m
<1>8. Takes(j) < HeightOf(m) /\ s.extra - 1 = m.extra + Net(j)
  BY <1>1, <1>5, <1>7
<1>9. PICK v2 : /\ Fitted((code \o <<i>>) \o <<j>>, arity, v2, Now(m, s.extra - 1, m.guard, m.open))
                /\ Extends(v1, v2)
  BY <1>1, <1>4, <1>5, <1>7, <1>8, WriteOne
<1>10. (code \o <<i>>) \o <<j>> = code \o <<i, j>>
  <2>1. i \in Instruction
    BY DEF Instruction, WithOperand
  <2> HIDE DEF i
  <2>2. <<i>> \in Seq(Instruction) /\ <<j>> \in Seq(Instruction)
    BY <1>7, <2>1
  <2>3. (code \o <<i>>) \o <<j>> = code \o (<<i>> \o <<j>>)
    BY <2>2, <1>1, ConcatAssociative
  <2>4. QED
    BY <2>3, Pair
<1>11. u.open = s.open \cup {at} /\ u.loops = s.loops
  BY <1>1, <1>3, NowFacts DEF Stays
<1> HIDE DEF u
<1>12. JumpsFrom(at, HeightOf(s), s.guard, u, v2)
  BY <1>4, <1>5, <1>9, <1>11, JumpsExtend
<1>13. Extends(v, v2)
  BY <1>4, <1>9, ExtendsTrans
<1>14. Fitted(code \o <<i, j>>, arity, v2, u)
  BY <1>6, <1>9, <1>10
<1>15. QED
  BY <1>12, <1>13, <1>14 DEF u, i, j

-----------------------------------------------------------------------------
(* A step of the compiler that writes code and changes no scope.           *)

LEMMA AlikeSelf ==
  ASSUME NEW a \in ChunkSet
  PROVE  AlikeChunk(a, a)
BY DEF AlikeChunk, AlikeScopes

LEMMA StandingFacts ==
  ASSUME NEW w, NEW s, NEW t, Standing(w, s, t)
  PROVE  /\ Len(chunks) \in Nat \ {0} /\ Current = chunks[Len(chunks)]
         /\ Current \in ChunkSet /\ GoodScope(Current.scope)
         /\ s \in State /\ t \in State /\ Full(s) /\ s.chunk = Len(chunks)
         /\ t.chunk = s.chunk
         /\ Meets(Current, w[Len(chunks)], s)
         /\ Fitted(Current.code, Current.arity, w[Len(chunks)], s)
         /\ Len(Current.scope) = s.levels
         /\ \A l \in 1 .. s.levels : s.locals[l] = Size(Current.scope, l)
         /\ Base(s) = 1 + Size(Current.scope, s.levels)
         /\ Rule(Head(todo), s, t, w[Len(chunks)])
         /\ \A c \in ChunkSet : c.upvalues = Current.upvalues => Succeeds(With(c), c)
         /\ Succeeds(chunks, Current) /\ Linked(chunks)
<1> DEFINE K == Len(chunks)
<1>1. /\ chunks \in Seq(ChunkSet) /\ K \in Nat /\ chunks # <<>>
      /\ s \in State /\ t \in State /\ Full(s) /\ s.chunk = K
      /\ Meets(Current, w[K], s) /\ Rule(Head(todo), s, t, w[K])
  BY DEF Standing
<1>2. K \in Nat \ {0}
  BY <1>1, EmptySeq
<1>3. Current = chunks[K] /\ Current \in ChunkSet /\ GoodScope(Current.scope)
  BY <1>1, <1>2 DEF Current, Last, Meets, GoodChunk
<1>4. t.chunk = s.chunk
  BY <1>1, RuleKeepsChunk
<1>5. /\ Len(Current.scope) = s.levels
      /\ \A l \in 1 .. s.levels : s.locals[l] = Size(Current.scope, l)
      /\ s.levels \in 1 .. s.levels
  BY <1>1, FullFacts DEF Meets, Full
<1>6. Base(s) = 1 + Size(Current.scope, s.levels)
  BY <1>5 DEF Base
<1>7. Fitted(Current.code, Current.arity, w[K], s)
  <2>1. HeightOf(s) = 1 + Size(Current.scope, s.levels) - s.missing + s.extra
    <3>1. /\ s.missing \in Nat /\ s.extra \in Nat
          /\ HeightOf(s) = Base(s) - s.missing + s.extra
      BY <1>1, FullFacts
    <3>2. s.levels \in 0 .. Len(Current.scope) /\ Current.scope \in Levels
      BY <1>3, <1>5 DEF GoodScope
    <3>3. Size(Current.scope, s.levels) \in Nat
      BY <3>2, SizeFacts
    <3>4. QED
      BY <3>1, <3>3, <1>6
  <2>2. QED
    BY <2>1, <1>1 DEF Fitted, Meets
<1>8. \A k \in 1 .. K : chunks[k] \in ChunkSet
  BY <1>1
<1>9. ASSUME NEW c \in ChunkSet, c.upvalues = Current.upvalues
      PROVE  Succeeds(With(c), c)
  <2>2. /\ With(c) \in Seq(ChunkSet) /\ Len(With(c)) = K
        /\ \A k \in 1 .. K : With(c)[k] = IF k = K THEN c ELSE chunks[k]
    BY <1>1, <1>2, ExceptSeq DEF With
  <2>3. \A k \in 1 .. K - 1 : AlikeChunk(chunks[k], With(c)[k])
    <3>1. TAKE k \in 1 .. K - 1
    <3>2. k \in 1 .. K /\ k # K
      BY <1>2
    <3>3. QED
      BY <3>2, <2>2, <1>8, AlikeSelf
  <2>4. With(c)[K] = c
    BY <1>2, <2>2
  <2>5. Linked(With(c))
    <3>1. ASSUME NEW k \in 1 .. K - 1, NEW u \in ToSet(With(c)[k + 1].upvalues)
          PROVE  Offers(With(c)[k], u)
      <4>1. With(c)[k] = chunks[k] /\ k + 1 \in 1 .. K
        BY <1>2, <2>2
      <4>2. With(c)[k + 1].upvalues = chunks[k + 1].upvalues
        BY <4>1, <2>2, <1>3, <1>9
      <4>3. QED
        BY <4>1, <4>2, <3>1 DEF Standing, Linked
    <3>2. QED
      BY <3>1, <2>2 DEF Linked
  <2>6. QED
    BY <2>2, <2>3, <2>4, <2>5 DEF Succeeds
<1>10. Succeeds(chunks, Current)
  <2>1. \A k \in 1 .. K - 1 : AlikeChunk(chunks[k], chunks[k])
    BY <1>2, <1>8, AlikeSelf
  <2>2. QED
    BY <2>1, <1>1, <1>3 DEF Succeeds, Standing
<1>11. QED
  BY <1>1, <1>2, <1>3, <1>4, <1>5, <1>6, <1>7, <1>9, <1>10 DEF Standing

(* The same function but for its code, constants and upvalues: Recoded if  *)
(* its upvalues are the same too.                                          *)
Rewritten(a, b) ==
  /\ b \in ChunkSet
  /\ b.scope = a.scope /\ b.arity = a.arity /\ b.hasSuperclass = a.hasSuperclass
  /\ Adds(a, b)
Recoded(a, b) == Rewritten(a, b) /\ b.upvalues = a.upvalues

LEMMA RecodedRewrites ==
  ASSUME NEW a, NEW b, Recoded(a, b)
  PROVE  Rewritten(a, b)
BY DEF Recoded

LEMMA RecodedSelf ==
  ASSUME NEW a \in ChunkSet
  PROVE  Recoded(a, a)
BY AddsSelf DEF Recoded, Rewritten

LEMMA RecodedSucceeds ==
  ASSUME NEW w, NEW s, NEW t, Standing(w, s, t), NEW c, Recoded(Current, c)
  PROVE  Succeeds(With(c), c)
BY StandingFacts DEF Recoded, Rewritten

LEMMA RecodingFacts ==
  ASSUME NEW w, NEW s, NEW t, Standing(w, s, t)
  PROVE  /\ Recoded(Current, Current)
         /\ \A c : Recoded(Current, c) => Succeeds(With(c), c)
BY StandingFacts, RecodedSelf, RecodedSucceeds

LEMMA MeetsAgain ==
  ASSUME NEW a, NEW b, NEW v, NEW s \in State, Full(s), Meets(a, v, s),
         b \in ChunkSet, b.scope = a.scope, b.hasSuperclass = a.hasSuperclass,
         Len(a.upvalues) <= Len(b.upvalues),
         NEW v2, NEW u \in State, Stays(s, u), Fitted(b.code, b.arity, v2, u)
  PROVE  Meets(b, v2, u)
<1>1. /\ u.levels = s.levels /\ u.locals = s.locals /\ u.missing = s.missing /\ u.super = s.super
      /\ u.reads = s.reads
  BY DEF Stays
<1>2. Base(u) = 1 + Size(a.scope, u.levels)
  <2>1. s.levels \in 1 .. Len(s.locals)
    BY FullFacts
  <2>2. QED
    BY <2>1, <1>1 DEF Meets, Base
<1>3. Placed(b.code, b.arity, v2, 1 + Size(b.scope, u.levels) - u.missing + u.extra,
             u.guard, u.open, u.loops)
  <2>1. HeightOf(u) = 1 + Size(a.scope, u.levels) - u.missing + u.extra
    <3>1. u.missing \in Nat /\ u.extra \in Nat
      BY DEF State
    <3>2. u.levels \in 0 .. Len(a.scope) /\ a.scope \in Levels
      BY <1>1, FullFacts DEF Meets, GoodChunk, GoodScope
    <3>3. Size(a.scope, u.levels) \in Nat
      BY <3>2, SizeFacts
    <3>4. QED
      BY <3>1, <3>3, <1>2 DEF HeightOf
  <2>2. QED
    BY <2>1 DEF Fitted
<1>4. u.reads \subseteq 0 .. Len(b.upvalues) - 1
  <2>1. Len(a.upvalues) \in Nat /\ Len(b.upvalues) \in Nat /\ Len(a.upvalues) <= Len(b.upvalues)
    BY DEF Meets, GoodChunk, ChunkSet
  <2>2. u.reads \subseteq 0 .. Len(a.upvalues) - 1
    BY <1>1 DEF Meets
  <2>3. QED
    BY <2>1, <2>2
<1>5. QED
  BY <1>1, <1>3, <1>4 DEF Meets, GoodChunk

LEMMA MeetsRewritten ==
  ASSUME NEW a, NEW b, NEW v, NEW s \in State, Full(s), Meets(a, v, s), Rewritten(a, b),
         NEW v2, NEW u \in State, Stays(s, u), Fitted(b.code, b.arity, v2, u)
  PROVE  Meets(b, v2, u)
BY MeetsAgain DEF Rewritten, Adds

LEMMA MeetsRecoded ==
  ASSUME NEW a, NEW b, NEW v, NEW s \in State, Full(s), Meets(a, v, s), Recoded(a, b),
         NEW v2, NEW u \in State, Stays(s, u), Fitted(b.code, b.arity, v2, u)
  PROVE  Meets(b, v2, u)
BY RecodedRewrites, MeetsRewritten

LEMMA WroteMore ==
  ASSUME NEW w, NEW s, NEW t, Standing(w, s, t),
         NEW cs, NEW c, Succeeds(cs, c), Rewritten(Current, c),
         NEW items, Continue(cs, items),
         NEW v, NEW u \in State, Stays(s, u), Fitted(c.code, c.arity, v, u),
         Extends(w[Len(chunks)], v), Leading(items, u, t, v)
  PROVE  Compiles'
<1>1. Meets(c, v, u)
  BY StandingFacts, MeetsRewritten
<1>2. u.chunk = s.chunk /\ Adds(Current, c)
  BY DEF Stays, Rewritten
<1>3. QED
  BY <1>1, <1>2, Continued

LEMMA Wrote ==
  ASSUME NEW w, NEW s, NEW t, Standing(w, s, t),
         NEW cs, NEW c, Succeeds(cs, c), Recoded(Current, c),
         NEW items, Continue(cs, items),
         NEW v, NEW u \in State, Stays(s, u), Fitted(c.code, c.arity, v, u),
         Extends(w[Len(chunks)], v), Leading(items, u, t, v)
  PROVE  Compiles'
BY RecodedRewrites, WroteMore

(* Nothing is left to do but what the head of todo came before.            *)
LEMMA WroteAllMore ==
  ASSUME NEW w, NEW s, NEW t, Standing(w, s, t),
         NEW cs, NEW c, Succeeds(cs, c), Rewritten(Current, c),
         Continue(cs, <<>>),
         NEW v, NEW u \in State, Stays(s, u), Fitted(c.code, c.arity, v, u),
         Extends(w[Len(chunks)], v), Weaker(u, t)
  PROVE  Compiles'
<1>1. Meets(c, v, u) /\ t \in State
  BY StandingFacts, MeetsRewritten
<1>2. Meets(c, v, t)
  BY <1>1, MeetsWeaker
<1>3. Leading(<<>>, t, t, v) /\ t.chunk = s.chunk
  BY <1>1, LeadNone, StandingFacts
<1>4. Adds(Current, c)
  BY DEF Rewritten
<1>5. QED
  BY <1>2, <1>3, <1>4, Continued

LEMMA WroteAll ==
  ASSUME NEW w, NEW s, NEW t, Standing(w, s, t),
         NEW cs, NEW c, Succeeds(cs, c), Recoded(Current, c),
         Continue(cs, <<>>),
         NEW v, NEW u \in State, Stays(s, u), Fitted(c.code, c.arity, v, u),
         Extends(w[Len(chunks)], v), Weaker(u, t)
  PROVE  Compiles'
BY RecodedRewrites, WroteAllMore

LEMMA MildOne ==
  ASSUME NEW i \in Instruction, i[1] \notin Special, NEW n
  PROVE  Mild(<<i>>, n)
<1>1. Harmless(i, n)
  BY DEF Harmless, Special
<1>2. QED
  BY <1>1 DEF Mild

LEMMA MildTwo ==
  ASSUME NEW i \in Instruction, i[1] \notin Special,
         NEW j \in Instruction, j[1] \notin Special, NEW n
  PROVE  Mild(<<i, j>>, n)
<1>1. Harmless(i, n) /\ Harmless(j, n)
  BY DEF Harmless, Special
<1>2. QED
  BY <1>1 DEF Mild

LEMMA MildCode ==
  ASSUME NEW n
  PROVE  /\ Mild(<< <<"JUMP", 0>> >>, n) /\ Mild(<< <<"JUMP_IF_FALSE", 0>> >>, n)
         /\ Mild(<< <<"JUMP_IF_FALSE", 0>>, <<"POP">> >>, n)
         /\ Mild(<< <<"POP">> >>, n) /\ Mild(<< <<"INHERIT">> >>, n)
         /\ Mild(<< <<"NIL">>, <<"RETURN">> >>, n)
         /\ Mild(<< <<"GET_LOCAL", 0>>, <<"RETURN">> >>, n)
         /\ \A x \in Nat : Mild(<< <<"LOOP", x>> >>, n)
<1>1. /\ <<"JUMP", 0>> \in Instruction /\ <<"JUMP_IF_FALSE", 0>> \in Instruction
      /\ <<"POP">> \in Instruction /\ <<"NIL">> \in Instruction /\ <<"RETURN">> \in Instruction
      /\ <<"INHERIT">> \in Instruction
      /\ <<"GET_LOCAL", 0>> \in Instruction /\ \A x \in Nat : <<"LOOP", x>> \in Instruction
  BY DEF Instruction, Bare, WithOperand
<1>2. \A op \in {"JUMP", "JUMP_IF_FALSE", "POP", "INHERIT", "NIL", "RETURN", "GET_LOCAL", "LOOP"} :
        op \notin Special
  BY DEF Special, Reads
<1>3. QED
  BY <1>1, <1>2, MildOne, MildTwo

LEMMA EmitFacts ==
  ASSUME NEW c \in ChunkSet, NEW more, Mild(more, Len(c.upvalues))
  PROVE  /\ Emit(c, more) \in ChunkSet
         /\ Recoded(c, Emit(c, more))
         /\ Emit(c, more).code = c.code \o more
         /\ Emit(c, more).arity = c.arity
         /\ Emit(c, more).kind = c.kind
         /\ Emit(c, more).constants = c.constants
         /\ Emit(c, more).upvalues = c.upvalues
<1> DEFINE code == c.code \o more
           n == Emit(c, more)
<1>1. /\ c.code \in Seq(Instruction) /\ more \in Seq(Instruction)
      /\ Len(c.code) \in Nat /\ Len(more) \in Nat
      /\ Len(c.constants) \in Nat /\ Len(c.upvalues) \in Nat
  BY DEF ChunkSet, Mild
<1>2. /\ code \in Seq(Instruction) /\ Len(code) = Len(c.code) + Len(more)
      /\ \A p \in 1 .. Len(c.code) + Len(more) :
           code[p] = IF p <= Len(c.code) THEN c.code[p] ELSE more[p - Len(c.code)]
  BY <1>1, ConcatProperties
<1>3. n = [c EXCEPT !.code = code]
  BY DEF Emit, ChunkSet
<1> HIDE DEF code
<1>4. /\ n \in ChunkSet /\ n.code = code /\ n.arity = c.arity /\ n.kind = c.kind
      /\ n.constants = c.constants /\ n.upvalues = c.upvalues
      /\ n.scope = c.scope /\ n.hasSuperclass = c.hasSuperclass
  BY <1>2, <1>3 DEF ChunkSet
<1> HIDE DEF n
<1>5. ASSUME NEW p \in 1 .. Len(code)
      PROVE  \/ p \in 1 .. Len(c.code) /\ code[p] = c.code[p]
             \/ Harmless(code[p], Len(c.upvalues))
  <2>1. CASE p <= Len(c.code)
    BY <2>1, <1>1, <1>2
  <2>2. CASE ~ (p <= Len(c.code))
    <3>1. p - Len(c.code) \in 1 .. Len(more) /\ code[p] = more[p - Len(c.code)]
      BY <2>2, <1>1, <1>2
    <3>2. QED
      BY <3>1 DEF Mild
  <2>3. QED
    BY <2>1, <2>2
<1>6. Adds(c, n)
  <2>1. Initial(c.constants, n.constants) /\ Len(c.upvalues) <= Len(n.upvalues)
    BY <1>1, <1>4 DEF Initial
  <2>2. Len(c.code) <= Len(code)
    BY <1>1, <1>2
  <2>3. QED
    BY <2>1, <2>2, <1>4, <1>5 DEF Adds
<1>7. Recoded(c, n)
  BY <1>4, <1>6 DEF Recoded, Rewritten
<1>8. QED
  BY <1>4, <1>7 DEF n, code

(* Patching changes a jump.                                                *)
LEMMA PatchFacts ==
  ASSUME NEW c \in ChunkSet, NEW at, PatchedAt(c.code, at) \in Seq(Instruction),
         at \in Unpatched(c.code)
  PROVE  /\ PatchJump(c, at) \in ChunkSet
         /\ Recoded(c, PatchJump(c, at))
         /\ PatchJump(c, at).code = PatchedAt(c.code, at)
         /\ PatchJump(c, at).arity = c.arity
<1> DEFINE code == PatchedAt(c.code, at)
           n == PatchJump(c, at)
<1>1. n = [c EXCEPT !.code = code]
  BY DEF PatchJump, PatchedAt, Here, ChunkSet
<1>2. /\ c.code \in Seq(Instruction) /\ Len(c.code) \in Nat
      /\ Len(c.constants) \in Nat /\ Len(c.upvalues) \in Nat
  BY DEF ChunkSet
<1>3. at \in 1 .. Len(c.code) /\ Skips(c.code[at])
  BY DEF Unpatched
<1>4. /\ Len(code) = Len(c.code)
      /\ \A p \in 1 .. Len(c.code) : p # at => code[p] = c.code[p]
      /\ code[at][1] = c.code[at][1]
  <2>1. code = [c.code EXCEPT ![at] = [c.code[at] EXCEPT ![2] = Len(c.code) + 1]]
    BY DEF PatchedAt
  <2>2. DOMAIN code = 1 .. Len(c.code)
    BY <2>1, <1>2
  <2>3. \A p \in 1 .. Len(c.code) : p # at => code[p] = c.code[p]
    BY <2>1, <1>2, <1>3
  <2>4. code[at] = [c.code[at] EXCEPT ![2] = Len(c.code) + 1]
    BY <2>1, <1>2, <1>3
  <2>5. Len(code) = Len(c.code)
    BY <2>2, <1>2
  <2>6. [c.code[at] EXCEPT ![2] = Len(c.code) + 1][1] = c.code[at][1]
    <3>1. c.code[at] \in Instruction
      BY <1>2, <1>3
    <3>2. QED
      BY <3>1, <1>3 DEF Instruction, Skips
  <2> HIDE DEF code
  <2>7. QED
    BY <2>3, <2>4, <2>5, <2>6
<1> HIDE DEF code
<1>5. /\ n \in ChunkSet /\ n.code = code /\ n.arity = c.arity
      /\ n.constants = c.constants /\ n.upvalues = c.upvalues
      /\ n.scope = c.scope /\ n.hasSuperclass = c.hasSuperclass
  BY <1>1 DEF ChunkSet, code
<1> HIDE DEF n
<1>6. Harmless(code[at], Len(c.upvalues))
  BY <1>3, <1>4 DEF Harmless, Skips, Reads
<1>7. Adds(c, n)
  <2>1. Initial(c.constants, n.constants) /\ Len(c.upvalues) <= Len(n.upvalues)
    BY <1>2, <1>5 DEF Initial
  <2>2. Len(c.code) <= Len(code)
    BY <1>2, <1>4
  <2>3. QED
    BY <2>1, <2>2, <1>4, <1>5, <1>6 DEF Adds
<1>8. QED
  BY <1>5, <1>7 DEF n, code, Recoded, Rewritten

LEMMA RewrittenTrans ==
  ASSUME NEW a \in ChunkSet, NEW b, NEW c, Rewritten(a, b), Rewritten(b, c)
  PROVE  Rewritten(a, c)
BY AddsTrans DEF Rewritten

LEMMA RecodedTrans ==
  ASSUME NEW a \in ChunkSet, NEW b, NEW c, Recoded(a, b), Recoded(b, c)
  PROVE  Recoded(a, c)
BY RewrittenTrans DEF Recoded

LEMMA ConstantFacts ==
  ASSUME NEW c \in ChunkSet, NEW value \in Constant
  PROVE  /\ AddConstant(c, value) \in ChunkSet
         /\ Recoded(c, AddConstant(c, value))
         /\ AddConstant(c, value).code = c.code
         /\ AddConstant(c, value).upvalues = c.upvalues
         /\ ConstantIndex(c.constants, value) \in Nat
<1>1. c.constants \in Seq(Constant)
  BY DEF ChunkSet
<1>2. AddConstant(c, value) \in ChunkSet
  <2>1. Append(c.constants, value) \in Seq(Constant)
    BY <1>1, AppendProperties
  <2> DEFINE new == IF Contains(c.constants, value) THEN c.constants
                    ELSE Append(c.constants, value)
  <2>2. new \in Seq(Constant)
    BY <1>1, <2>1
  <2>3. AddConstant(c, value) = [c EXCEPT !.constants = new]
    BY DEF AddConstant, ChunkSet
  <2> HIDE DEF new
  <2>4. QED
    BY <2>2, <2>3 DEF ChunkSet
<1>3. /\ Recoded(c, AddConstant(c, value)) /\ AddConstant(c, value).code = c.code
      /\ AddConstant(c, value).upvalues = c.upvalues
  <2> DEFINE n == AddConstant(c, value)
  <2>1. /\ n.code = c.code /\ n.upvalues = c.upvalues /\ n.arity = c.arity
        /\ n.scope = c.scope /\ n.hasSuperclass = c.hasSuperclass
        /\ (n.constants = c.constants \/ n.constants = Append(c.constants, value))
    BY DEF AddConstant, ChunkSet
  <2>2. Initial(c.constants, c.constants) /\ Initial(c.constants, Append(c.constants, value))
    <3>1. Len(c.constants) \in Nat
      BY <1>1
    <3>2. /\ Len(Append(c.constants, value)) = Len(c.constants) + 1
          /\ \A l \in 1 .. Len(c.constants) : Append(c.constants, value)[l] = c.constants[l]
      BY <1>1, AppendProperties
    <3>3. QED
      BY <3>1, <3>2 DEF Initial
  <2> HIDE DEF n
  <2>3. Len(c.code) \in Nat /\ Len(c.upvalues) \in Nat
    BY DEF ChunkSet
  <2>4. Adds(c, n)
    <3>1. Initial(c.constants, n.constants)
      BY <2>1, <2>2
    <3>2. /\ Len(c.upvalues) <= Len(n.upvalues) /\ Len(c.code) <= Len(n.code)
          /\ \A p \in 1 .. Len(n.code) : p \in 1 .. Len(c.code) /\ n.code[p] = c.code[p]
      BY <2>1, <2>3
    <3>3. QED
      BY <3>1, <3>2 DEF Adds
  <2>5. QED
    BY <2>1, <2>4, <1>2 DEF n, Recoded, Rewritten
<1>4. ConstantIndex(c.constants, value) \in Nat
  <2> DEFINE i == IndexIn(c.constants, value)
  <2>1. i \in Nat /\ Len(c.constants) \in Nat
    BY <1>1, IndexInFacts
  <2>2. ConstantIndex(c.constants, value) = (IF i = 0 THEN Len(c.constants) ELSE i - 1) % ByteSize
    BY DEF ConstantIndex, Byte
  <2> HIDE DEF i
  <2>3. (IF i = 0 THEN Len(c.constants) ELSE i - 1) \in Nat
    BY <2>1
  <2>4. \A n \in Nat : n % ByteSize \in Nat
    BY ByteAssumption
  <2>5. QED
    BY <2>2, <2>3, <2>4
<1>5. QED
  BY <1>2, <1>3, <1>4

LEMMA ByteFacts ==
  /\ \A n \in Int : Byte(n) \in Nat
  /\ \A n \in Nat : Byte(n) <= n
BY ByteAssumption DEF Byte

-----------------------------------------------------------------------------
(* What the entries of todo make of a state with values above its locals.  *)

Above(s, e) == Now(s, e, s.guard, s.open)

LEMMA BecomesItself ==
  ASSUME NEW s \in State
  PROVE  /\ Becomes(s, s, s.extra, s.open)
         /\ \A e \in Nat : \A o \in SUBSET (Nat \ {0}) :
              Becomes(s, Now(s, e, s.guard, o), e, o)
<1>1. \A a : Initial(a, a) <=> Len(a) <= Len(a)
  BY DEF Initial
<1>2. Initial(s.locals, s.locals)
  BY <1>1 DEF State
<1>3. Keeps(s, s)
  BY <1>2 DEF Keeps, Context
<1>4. ASSUME NEW e \in Nat, NEW o \in SUBSET (Nat \ {0})
      PROVE  Becomes(s, Now(s, e, s.guard, o), e, o)
  <2> DEFINE u == Now(s, e, s.guard, o)
  <2>1. /\ Stays(s, u) /\ u.extra = e /\ u.guard = s.guard /\ u.open = o
    <3>1. s.guard \in Nat
      BY DEF State
    <3>2. QED
      BY <3>1, NowFacts
  <2> HIDE DEF u
  <2>2. Becomes(s, u, e, o)
    BY <2>1, <1>2 DEF Becomes, Keeps, Context, Stays
  <2>3. QED
    BY <2>2 DEF u
<1>5. QED
  BY <1>3, <1>4 DEF Becomes

LEMMA AboveFacts ==
  ASSUME NEW s \in State, NEW e \in Nat
  PROVE  LET u == Above(s, e)
         IN  /\ u \in State /\ Stays(s, u)
             /\ u.extra = e /\ u.guard = s.guard /\ u.open = s.open
             /\ Base(u) = Base(s)
             /\ HeightOf(u) = Base(s) - s.missing + e
             /\ Full(s) => Full(u)
             /\ \A t, f, o : Becomes(s, t, f, o) <=> Becomes(u, t, f, o)
             /\ Becomes(s, u, e, s.open)
<1> DEFINE u == Above(s, e)
<1>1. s.guard \in Nat /\ s.open \in SUBSET (Nat \ {0})
  BY DEF State
<1>2. /\ u \in State /\ Stays(s, u)
      /\ u.extra = e /\ u.guard = s.guard /\ u.open = s.open
      /\ Base(u) = Base(s)
      /\ HeightOf(u) = Base(s) - s.missing + e
      /\ Full(s) => Full(u)
  BY <1>1, NowFacts DEF Above
<1>3. Becomes(s, u, e, s.open)
  BY <1>1, BecomesItself DEF Above
<1> HIDE DEF u
<1>4. \A t, f, o : Becomes(s, t, f, o) <=> Becomes(u, t, f, o)
  BY <1>2 DEF Becomes, Keeps, Context, Stays
<1>5. QED
  BY <1>2, <1>3, <1>4 DEF u

LEMMA AboveSelf ==
  ASSUME NEW s \in State
  PROVE  Above(s, s.extra) = s
BY NowSame DEF Above

LEMMA LeadPrecedence ==
  ASSUME NEW s \in State, NEW e \in Nat, NEW t, Becomes(s, t, e + 1, s.open),
         NEW p \in Strength, NEW d, NEW v
  PROVE  Leading(<<Precedence(p, d)>>, Above(s, e), t, v)
<1> DEFINE u == Above(s, e)
           x == Precedence(p, d)
<1>1. u \in State /\ u.extra = e /\ u.open = s.open /\ Becomes(u, t, e + 1, s.open)
  BY AboveFacts
<1>2. x[1] = "precedence" /\ x[2] \in Strength
  BY DEF Precedence
<1> HIDE DEF u, x
<1>3. Rule(x, u, t, v)
  BY <1>1, <1>2, RuleOf DEF Pushes
<1>4. Leading(<<x>>, u, t, v)
  BY <1>1, <1>2, <1>3, Entries
<1>5. QED
  BY <1>4 DEF u, x

LEMMA LeadExpression ==
  ASSUME NEW s \in State, NEW e \in Nat, NEW t, Becomes(s, t, e + 1, s.open),
         NEW d, NEW v
  PROVE  Leading(<<Expression(d)>>, Above(s, e), t, v)
<1>1. ASSIGNMENT \in Strength
  BY DEF ASSIGNMENT, Strength, Anything
<1>2. QED
  BY <1>1, LeadPrecedence DEF Expression

LEMMA LeadInfix ==
  ASSUME NEW s \in State, NEW e \in Nat, e >= 1, NEW t, Becomes(s, t, e, s.open),
         NEW p \in Strength, NEW d, NEW v
  PROVE  Leading(<< <<"infix", p, d>> >>, Above(s, e), t, v)
<1> DEFINE u == Above(s, e)
           x == <<"infix", p, d>>
<1>1. u \in State /\ u.extra = e /\ u.open = s.open /\ Becomes(u, t, e, s.open)
  BY AboveFacts
<1>2. x[1] = "infix" /\ x[2] \in Strength
  OBVIOUS
<1> HIDE DEF u, x
<1>3. Rule(x, u, t, v)
  BY <1>1, <1>2, RuleOf DEF Remains
<1>4. Leading(<<x>>, u, t, v)
  BY <1>1, <1>2, <1>3, Entries
<1>5. QED
  BY <1>4 DEF u, x

LEMMA LeadParen ==
  ASSUME NEW s \in State, NEW e \in Nat, NEW t, Becomes(s, t, e, s.open), NEW v
  PROVE  Leading(<<RightParen>>, Above(s, e), t, v)
<1> DEFINE u == Above(s, e)
           x == RightParen
<1>1. u \in State /\ u.extra = e /\ u.open = s.open /\ Becomes(u, t, e, s.open)
  BY AboveFacts
<1>2. x[1] = "paren"
  BY DEF RightParen
<1> HIDE DEF u, x
<1>3. Rule(x, u, t, v)
  BY <1>1, <1>2, RuleOf DEF Remains
<1>4. Leading(<<x>>, u, t, v)
  BY <1>1, <1>2, <1>3, Entries
<1>5. QED
  BY <1>4 DEF u, x

LEMMA LeadRead ==
  ASSUME NEW s \in State, NEW e \in Nat, NEW t, Becomes(s, t, e + 1, s.open),
         NEW name \in Names, NEW v
  PROVE  Leading(<<ThenRead(name)>>, Above(s, e), t, v)
<1> DEFINE u == Above(s, e)
           x == ThenRead(name)
<1>1. u \in State /\ u.extra = e /\ u.open = s.open /\ Becomes(u, t, e + 1, s.open)
  BY AboveFacts
<1>2. x[1] = "read" /\ x[2] = name
  BY DEF ThenRead
<1> HIDE DEF u, x
<1>3. Rule(x, u, t, v)
  BY <1>1, <1>2, RuleOf DEF Pushes
<1>4. Leading(<<x>>, u, t, v)
  BY <1>1, <1>2, <1>3, Entries
<1>5. QED
  BY <1>4 DEF u, x

LEMMA LeadEmit ==
  ASSUME NEW s \in State, Full(s), NEW e \in Nat,
         NEW i \in Instruction, ~ Jumps(i), Takes(i) < Base(s) - s.missing + e,
         Slotted(i) => i[2] < Base(s) - s.missing + e,
         i[1] # "CLOSURE", i[1] \in Reads => i[2] \in s.reads,
         NEW t, Becomes(s, t, e + Net(i), s.open), NEW v
  PROVE  Leading(<<ThenEmit(<<i>>)>>, Above(s, e), t, v)
<1> DEFINE u == Above(s, e)
           x == ThenEmit(<<i>>)
<1>1. /\ u \in State /\ u.extra = e /\ u.open = s.open /\ Becomes(u, t, e + Net(i), s.open)
      /\ HeightOf(u) = Base(s) - s.missing + e /\ Full(u) /\ u.reads = s.reads
  BY AboveFacts DEF Stays
<1>2. x[1] = "emit" /\ x[2] = <<i>>
  BY DEF ThenEmit
<1> HIDE DEF u, x
<1>3. Emittable(i, u)
  BY <1>1 DEF Emittable
<1>4. Emits(<<i>>, u, t)
  BY <1>1, <1>3 DEF Emits
<1>5. Rule(x, u, t, v)
  BY <1>2, <1>4, RuleOf
<1>6. Leading(<<x>>, u, t, v)
  BY <1>1, <1>2, <1>5, Entries
<1>7. QED
  BY <1>6 DEF u, x

LEMMA LeadConstant ==
  ASSUME NEW s \in State, Full(s), NEW e \in Nat,
         NEW op, NEW value \in Constant, NEW operands, NEW f, NEW takes,
         \A c \in Nat :
           LET i == <<op, c>> \o operands
           IN  /\ i \in Instruction /\ ~ Jumps(i) /\ Falls(i) /\ ~ Slotted(i)
               /\ i[1] \notin Special /\ Takes(i) = takes /\ e + Net(i) = f,
         takes < Base(s) - s.missing + e,
         NEW t, Becomes(s, t, f, s.open), NEW v
  PROVE  Leading(<<ThenConstant(op, value, operands)>>, Above(s, e), t, v)
<1> DEFINE u == Above(s, e)
           x == ThenConstant(op, value, operands)
<1>1. /\ u \in State /\ u.extra = e /\ u.open = s.open /\ Becomes(u, t, f, s.open)
      /\ HeightOf(u) = Base(s) - s.missing + e /\ Full(u)
  BY AboveFacts
<1>2. x[1] = "constant" /\ x[2] = op /\ x[3] = value /\ x[4] = operands
  BY DEF ThenConstant
<1> HIDE DEF u, x
<1>3. ASSUME NEW c \in Nat
      PROVE  LET i == <<op, c>> \o operands
             IN  Emittable(i, u) /\ Falls(i) /\ Becomes(u, t, u.extra + Net(i), u.open)
  <2> DEFINE i == <<op, c>> \o operands
  <2>1. /\ i \in Instruction /\ ~ Jumps(i) /\ Falls(i) /\ ~ Slotted(i)
        /\ i[1] \notin Special /\ Takes(i) = takes /\ e + Net(i) = f
    OBVIOUS
  <2> HIDE DEF i
  <2>2. Emittable(i, u) /\ Falls(i) /\ Becomes(u, t, u.extra + Net(i), u.open)
    BY <2>1, <1>1 DEF Emittable, Special
  <2>3. QED
    BY <2>2 DEF i
<1>4. EmitsConstant(op, value, operands, u, t)
  BY <1>1, <1>3 DEF EmitsConstant
<1>5. Rule(x, u, t, v)
  BY <1>2, <1>4, RuleOf
<1>6. Leading(<<x>>, u, t, v)
  BY <1>1, <1>2, <1>5, Entries
<1>7. QED
  BY <1>6 DEF u, x

LEMMA ArgumentsStep ==
  ASSUME NEW n \in Nat, NEW d
  PROVE  /\ Arguments(0, d) = <<>>
         /\ Arguments(n + 1, d) = Arguments(n, d) \o <<Expression(d)>>
         /\ Arguments(n, d) \in Seq({Expression(d)})
<1> DEFINE S == {Expression(d)}
<1>1. \A m \in Nat : Arguments(m, d) \in Seq(S) /\ Len(Arguments(m, d)) = m
  BY DEF Arguments
<1>2. Arguments(0, d) = <<>>
  BY <1>1, EmptySeq
<1>3. <<Expression(d)>> \in Seq(S) /\ Len(<<Expression(d)>>) = 1
  OBVIOUS
<1> DEFINE a == Arguments(n + 1, d)
           b == Arguments(n, d) \o <<Expression(d)>>
<1>4. /\ b \in Seq(S) /\ Len(b) = n + 1
      /\ \A i \in 1 .. n + 1 : b[i] = IF i <= n THEN Arguments(n, d)[i]
                                      ELSE <<Expression(d)>>[i - n]
  BY <1>1, <1>3, ConcatProperties
<1>5. a \in Seq(S) /\ Len(a) = n + 1
  BY <1>1
<1>6. \A i \in 1 .. n + 1 : a[i] = b[i]
  <2>1. TAKE i \in 1 .. n + 1
  <2>2. a[i] \in S /\ b[i] \in S
    BY <1>4, <1>5
  <2>3. QED
    BY <2>2
<1> HIDE DEF a, b
<1>7. a = b
  BY <1>4, <1>5, <1>6, SeqEqual
<1>8. QED
  BY <1>1, <1>2, <1>7 DEF a, b

LEMMA LeadArguments ==
  ASSUME NEW s \in State, NEW e \in Nat, NEW n \in Nat, NEW d, NEW v
  PROVE  Leading(Arguments(n, d), Above(s, e), Above(s, e + n), v)
<1> DEFINE S == {m \in Nat : Leading(Arguments(m, d), Above(s, e), Above(s, e + m), v)}
<1>1. 0 \in S
  <2>1. Above(s, e) \in State /\ e + 0 = e
    BY AboveFacts
  <2>2. Leading(<<>>, Above(s, e), Above(s, e), v)
    BY <2>1, LeadNone
  <2>3. Arguments(0, d) = <<>>
    BY ArgumentsStep
  <2>4. QED
    BY <2>1, <2>2, <2>3
<1>2. \A m \in Nat : m \in S => m + 1 \in S
  <2>1. SUFFICES ASSUME NEW m \in Nat, Leading(Arguments(m, d), Above(s, e), Above(s, e + m), v)
                 PROVE  Leading(Arguments(m + 1, d), Above(s, e), Above(s, e + (m + 1)), v)
    OBVIOUS
  <2>2. e + m \in Nat /\ (e + m) + 1 = e + (m + 1) /\ e + (m + 1) \in Nat
    OBVIOUS
  <2>3. Becomes(s, Above(s, e + (m + 1)), (e + m) + 1, s.open)
    BY <2>2, AboveFacts
  <2>4. Leading(<<Expression(d)>>, Above(s, e + m), Above(s, e + (m + 1)), v)
    BY <2>2, <2>3, LeadExpression
  <2>5. Leading(Arguments(m, d) \o <<Expression(d)>>, Above(s, e), Above(s, e + (m + 1)), v)
    BY <2>1, <2>4, LeadJoin
  <2>6. QED
    BY <2>5, ArgumentsStep
<1> HIDE DEF S
<1>3. n \in S
  BY <1>1, <1>2, SetInduction
<1>4. QED
  BY <1>3 DEF S

LEMMA LeadAgain ==
  ASSUME NEW w, NEW s, NEW t, Standing(w, s, t), Head(todo)[1] # "endFunction",
         NEW v, Extends(w[Len(chunks)], v)
  PROVE  Leading(<<Head(todo)>>, s, t, v)
<1>1. Rule(Head(todo), s, t, v) /\ s \in State
  BY StandingFacts, RuleExtends
<1>2. QED
  BY <1>1, Entries

-----------------------------------------------------------------------------
(* The actions, one by one: each leaves the current function in a state    *)
(* from which the rest of todo can be done.                                *)

Shape(i, takes, net) ==
  /\ i \in Instruction /\ ~ Jumps(i) /\ ~ Slotted(i) /\ i[1] \notin Special
  /\ Takes(i) = takes /\ Net(i) = net

LEMMA Shapes ==
  /\ Shape(<<"NIL">>, 0, 1) /\ Shape(<<"POP">>, 1, -1) /\ Shape(<<"RETURN">>, 1, -1)
  /\ Shape(<<"NEGATE">>, 1, 0) /\ Shape(<<"INHERIT">>, 2, -1)
  /\ \A op \in {"ADD", "MULTIPLY", "LESS", "EQUAL"} : Shape(<<op>>, 2, -1)
  /\ \A n \in Nat : Shape(<<"CALL", n>>, n + 1, -n)
<1>1. /\ Shape(<<"NIL">>, 0, 1) /\ Shape(<<"POP">>, 1, -1) /\ Shape(<<"RETURN">>, 1, -1)
      /\ Shape(<<"NEGATE">>, 1, 0) /\ Shape(<<"INHERIT">>, 2, -1)
  BY DEF Shape, Instruction, Bare, Jumps, Slotted, Special, Reads, Takes, Net, Leaves
<1>2. ASSUME NEW op \in {"ADD", "MULTIPLY", "LESS", "EQUAL"}
      PROVE  Shape(<<op>>, 2, -1)
  BY DEF Shape, Instruction, Bare, Jumps, Slotted, Special, Reads, Takes, Net, Leaves
<1>3. ASSUME NEW n \in Nat
      PROVE  Shape(<<"CALL", n>>, n + 1, -n)
  <2> DEFINE i == <<"CALL", n>>
  <2>1. i[1] = "CALL" /\ i[2] = n /\ i \in WithOperand \X Nat
    BY DEF WithOperand
  <2> HIDE DEF i
  <2>2. /\ Takes(i) = n + 1 /\ Leaves(i) = 1 /\ i \in Instruction
        /\ ~ Jumps(i) /\ ~ Slotted(i) /\ i[1] \notin Special
    BY <2>1 DEF Takes, Leaves, Jumps, Slotted, Special, Reads, Instruction
  <2>3. Net(i) = -n
    BY <2>2 DEF Net
  <2>4. QED
    BY <2>2, <2>3 DEF Shape, i
<1>4. QED
  BY <1>1, <1>2, <1>3

LEMMA LeadShape ==
  ASSUME NEW s \in State, Full(s), NEW e \in Nat,
         NEW i, NEW takes \in Nat, NEW net \in Int, Shape(i, takes, net), takes <= e,
         NEW t, Becomes(s, t, e + net, s.open), NEW v
  PROVE  Leading(<<ThenEmit(<<i>>)>>, Above(s, e), t, v)
<1>1. takes < Base(s) - s.missing + e
  BY FullFacts
<1>2. QED
  BY <1>1, LeadEmit DEF Shape, Special

LEMMA AtWork ==
  ASSUME NEW w, NEW s, NEW t, Standing(w, s, t),
         Head(todo)[1] \in {"declaration", "variable", "block", "statement",
                            "expressionStatement", "forCondition"}
  PROVE  /\ s \in State /\ Full(s)
         /\ Arg(1) \in Nat /\ s.levels = Arg(1) + 1
         /\ s.missing = 0 /\ s.guard = 0 /\ s.extra = 0
         /\ Becomes(s, t, 0, s.open)
         /\ Head(todo)[1] \in {"declaration", "variable", "block"} => Len(t.locals) < s.levels
<1>1. Arg(1) = Head(todo)[2]
  BY DEF Arg
<1>2. Rule(Head(todo), s, t, w[Len(chunks)]) /\ s \in State /\ Full(s)
  BY StandingFacts
<1>3. CASE Head(todo)[1] \in {"declaration", "variable", "block"}
  <2>1. Declares(Arg(1), s, t)
    BY <1>1, <1>2, <1>3, RuleOf
  <2>2. QED
    BY <2>1, <1>2 DEF Declares, AtDepth, Calm
<1>4. CASE Head(todo)[1] \in {"statement", "expressionStatement", "forCondition"}
  <2>1. Executes(Arg(1), s, t)
    BY <1>1, <1>2, <1>4, RuleOf
  <2>2. QED
    BY <2>1, <1>2, <1>4 DEF Executes, AtDepth, Calm
<1>5. QED
  BY <1>3, <1>4

LEMMA Stay ==
  ASSUME NEW s \in State
  PROVE  Stays(s, s)
BY DEF Stays

(* Nothing is written yet.                                                 *)
LEMMA Planned ==
  ASSUME NEW w, NEW s, NEW t, Standing(w, s, t),
         NEW items, Continue(chunks, items), Leading(items, s, t, w[Len(chunks)])
  PROVE  Compiles'
<1>1. Extends(w[Len(chunks)], w[Len(chunks)])
  BY DEF Extends
<1>2. Recoded(Current, Current)
  BY StandingFacts, RecodedSelf
<1>3. QED
  BY <1>1, <1>2, StandingFacts, Stay, Wrote

LEMMA ExpressionStatementCompiles ==
  ASSUME Compiles, ExpressionStatement
  PROVE  Compiles'
<1>1. Head(todo)[1] \in {"declaration", "statement", "expressionStatement"}
  BY DEF ExpressionStatement, AtStatement, Doing
<1>2. PICK w, s, t : Standing(w, s, t)
  BY <1>1, HeadStands
<1> DEFINE v == w[Len(chunks)]
           i == <<"POP">>
<1>3. s \in State /\ Full(s) /\ s.extra = 0 /\ Becomes(s, t, 0, s.open)
  BY <1>1, <1>2, AtWork
<1>4. Above(s, 0) = s
  BY <1>3, AboveSelf
<1> HIDE DEF v
<1>5. Leading(<<Expression(Arg(1))>>, s, Above(s, 1), v)
  <2>1. Becomes(s, Above(s, 1), 0 + 1, s.open)
    BY <1>3, AboveFacts
  <2>2. QED
    BY <2>1, <1>3, <1>4, LeadExpression
<1>6. Leading(<<ThenEmit(<<i>>)>>, Above(s, 1), t, v)
  <2>1. Shape(i, 1, -1) /\ Becomes(s, t, 1 + (-1), s.open)
    BY <1>3, Shapes
  <2> HIDE DEF i
  <2>2. QED
    BY <2>1, <1>3, LeadShape
<1>7. Leading(<<Expression(Arg(1)), ThenEmit(<<i>>)>>, s, t, v)
  BY <1>5, <1>6, LeadTwo
<1>8. Continue(chunks, <<Expression(Arg(1)), ThenEmit(<<i>>)>>)
  BY DEF ExpressionStatement
<1>9. QED
  BY <1>2, <1>7, <1>8, Planned DEF v

LEMMA PrintStatementCompiles ==
  ASSUME Compiles, PrintStatement
  PROVE  Compiles'
<1>1. Head(todo)[1] \in {"declaration", "statement"}
  BY DEF PrintStatement, AtStatement, Doing
<1>2. PICK w, s, t : Standing(w, s, t)
  BY <1>1, HeadStands
<1> DEFINE v == w[Len(chunks)]
           x == ThenEmit(PrintPop)
           u == Above(s, 1)
<1>3. s \in State /\ Full(s) /\ s.extra = 0 /\ Becomes(s, t, 0, s.open)
  BY <1>1, <1>2, AtWork
<1>4. Above(s, 0) = s
  BY <1>3, AboveSelf
<1>5. /\ u \in State /\ u.extra = 1 /\ Full(u) /\ u.open = s.open
      /\ Becomes(s, u, 1, s.open) /\ Becomes(u, t, 0, s.open)
  BY <1>3, AboveFacts
<1>6. x[1] = "emit" /\ x[2] = PrintPop
  BY DEF ThenEmit
<1> HIDE DEF v, x, u
<1>7. Leading(<<Expression(Arg(1))>>, s, u, v)
  <2>1. Becomes(s, u, 0 + 1, s.open)
    BY <1>5
  <2>2. QED
    BY <2>1, <1>3, <1>4, LeadExpression
<1>8. Leading(<<x>>, u, t, v)
  <2>1. Emits(x[2], u, t)
    BY <1>5, <1>6 DEF Emits
  <2>2. Rule(x, u, t, v)
    BY <2>1, <1>6, RuleOf
  <2>3. QED
    BY <2>2, <1>5, <1>6, Entries
<1>9. Leading(<<Expression(Arg(1)), x>>, s, t, v)
  BY <1>7, <1>8, LeadTwo
<1>10. Continue(chunks, <<Expression(Arg(1)), x>>)
  BY DEF PrintStatement, x, PrintPop
<1>11. QED
  BY <1>2, <1>9, <1>10, Planned DEF v

LEMMA InBlockCompiles ==
  ASSUME Compiles, InBlock
  PROVE  Compiles'
<1>1. Head(todo)[1] = "block"
  BY DEF InBlock, Doing
<1>2. PICK w, s, t : Standing(w, s, t)
  BY <1>1, HeadStands
<1> DEFINE v == w[Len(chunks)]
           K == Len(chunks)
<1>3. /\ s \in State /\ t \in State /\ Full(s) /\ s.extra = 0 /\ Becomes(s, t, 0, s.open)
      /\ Len(t.locals) < s.levels
      /\ Declares(Arg(1), s, t)
  <2>1. Rule(Head(todo), s, t, v) /\ t \in State
    BY <1>2, StandingFacts
  <2>2. Declares(Arg(1), s, t)
    BY <1>1, <2>1, RuleOf DEF Arg
  <2>3. QED
    BY <2>1, <2>2, <1>1, <1>2, AtWork
<1>4. CASE Continue(chunks, <<>>)
  <2>1. Extends(v, v)
    BY DEF Extends
  <2>2. Recoded(Current, Current) /\ Weaker(s, t)
    BY <1>2, <1>3, StandingFacts, RecodedSelf DEF Weaker
  <2>3. QED
    BY <1>2, <1>4, <2>1, <2>2, StandingFacts, Stay, WroteAll
<1>5. CASE Continue(chunks, <<Declaration(Arg(1)), Head(todo)>>)
  <2> DEFINE x == Declaration(Arg(1))
  <2>1. x[1] = "declaration" /\ x[2] = Arg(1)
    BY DEF Declaration
  <2> HIDE DEF x
  <2>2. Declares(Arg(1), t, t)
    <3>1. t.levels = s.levels /\ t.missing = s.missing /\ t.guard = s.guard /\ t.extra = 0
      BY <1>3 DEF Becomes, Keeps
    <3>2. Becomes(t, t, 0, t.open)
      BY <1>3, <3>1, BecomesItself
    <3>3. QED
      BY <3>1, <3>2, <1>3 DEF Declares, AtDepth, Calm
  <2>3. Leading(<<x>>, s, t, v)
    <3>1. Rule(x, s, t, v)
      BY <2>1, <1>3, RuleOf
    <3>2. QED
      BY <3>1, <2>1, <1>3, Entries
  <2>4. Leading(<<Head(todo)>>, t, t, v)
    <3>1. Rule(Head(todo), t, t, v)
      BY <2>2, <1>1, RuleOf DEF Arg
    <3>2. QED
      BY <3>1, <1>1, <1>3, Entries
  <2>5. Leading(<<x, Head(todo)>>, s, t, v)
    BY <2>3, <2>4, LeadTwo
  <2>6. QED
    BY <1>2, <1>5, <2>5, Planned DEF x
<1>6. QED
  BY <1>4, <1>5 DEF InBlock

LEMMA NowIs ==
  ASSUME NEW s \in State, Full(s), NEW extra \in Nat, NEW guard \in Nat,
         NEW open \in SUBSET (Nat \ {0}), NEW u, u = Now(s, extra, guard, open)
  PROVE  /\ u \in State /\ Stays(s, u) /\ Full(u)
         /\ u.extra = extra /\ u.guard = guard /\ u.open = open
         /\ Base(u) = Base(s)
         /\ HeightOf(u) = Base(s) - s.missing + extra
BY NowFacts

LEMMA AboveIs ==
  ASSUME NEW s \in State, Full(s), NEW e \in Nat, NEW u, u = Above(s, e)
  PROVE  /\ u \in State /\ Stays(s, u) /\ Full(u)
         /\ u.extra = e /\ u.guard = s.guard /\ u.open = s.open
         /\ Base(u) = Base(s) /\ HeightOf(u) = Base(s) - s.missing + e
         /\ Becomes(s, u, e, s.open)
         /\ \A t, f, o : Becomes(s, t, f, o) <=> Becomes(u, t, f, o)
BY AboveFacts

LEMMA AboveShape ==
  ASSUME NEW s \in State, Full(s), NEW e \in Nat, NEW u, u = Above(s, e)
  PROVE  /\ u \in State /\ Stays(s, u) /\ Full(u)
         /\ u.extra = e /\ u.guard = s.guard /\ u.open = s.open
         /\ Base(u) = Base(s) /\ HeightOf(u) = Base(s) - s.missing + e
         /\ Becomes(s, u, e, s.open)
BY AboveIs

(* Writing instructions of a known shape.                                  *)
LEMMA WriteShape ==
  ASSUME NEW code, NEW arity, NEW v, NEW s \in State, Full(s), Fitted(code, arity, v, s),
         NEW i, NEW takes \in Nat, NEW net \in Int, Shape(i, takes, net), takes <= s.extra,
         NEW e \in Nat, e = s.extra + net
  PROVE  \E v2 : Fitted(code \o <<i>>, arity, v2, Above(s, e)) /\ Extends(v, v2)
<1>1. takes < HeightOf(s)
  BY FullFacts
<1>2. i \in Instruction /\ ~ Jumps(i) /\ ~ Slotted(i) /\ Takes(i) < HeightOf(s)
      /\ e = s.extra + Net(i)
  BY <1>1 DEF Shape
<1>3. QED
  BY <1>2, WriteOne DEF Above

LEMMA AboveAbove ==
  ASSUME NEW s \in State, NEW e \in Nat, NEW f
  PROVE  Above(Above(s, e), f) = Above(s, f)
<1>1. Above(s, e).guard = s.guard /\ Above(s, e).open = s.open
  BY AboveFacts
<1>2. QED
  BY <1>1, NowNow DEF Above

LEMMA JoinTwo ==
  ASSUME NEW code \in Seq(Instruction), NEW i \in Instruction, NEW j \in Instruction
  PROVE  (code \o <<i>>) \o <<j>> = code \o <<i, j>>
<1>1. <<i>> \in Seq(Instruction) /\ <<j>> \in Seq(Instruction)
  OBVIOUS
<1>2. (code \o <<i>>) \o <<j>> = code \o (<<i>> \o <<j>>)
  BY <1>1, ConcatAssociative
<1>3. QED
  BY <1>2, Pair

LEMMA WriteTwo ==
  ASSUME NEW code, NEW arity, NEW v, NEW s \in State, Full(s), Fitted(code, arity, v, s),
         NEW i, NEW ti \in Nat, NEW ni \in Int, Shape(i, ti, ni), ti <= s.extra,
         NEW m \in Nat, m = s.extra + ni,
         NEW j, NEW tj \in Nat, NEW nj \in Int, Shape(j, tj, nj), tj <= m,
         NEW e \in Nat, e = m + nj
  PROVE  \E v2 : Fitted(code \o <<i, j>>, arity, v2, Above(s, e)) /\ Extends(v, v2)
<1>1. PICK v1 : Fitted(code \o <<i>>, arity, v1, Above(s, m)) /\ Extends(v, v1)
  BY WriteShape
<1>2. Above(s, m) \in State /\ Full(Above(s, m)) /\ Above(s, m).extra = m
  BY AboveFacts
<1>3. PICK v2 : /\ Fitted((code \o <<i>>) \o <<j>>, arity, v2, Above(Above(s, m), e))
                /\ Extends(v1, v2)
  BY <1>1, <1>2, WriteShape
<1>4. (code \o <<i>>) \o <<j>> = code \o <<i, j>>
  BY FittedFacts, JoinTwo DEF Shape
<1>5. Above(Above(s, m), e) = Above(s, e)
  BY AboveAbove
<1>6. Extends(v, v2)
  BY <1>1, <1>3, ExtendsTrans
<1>7. QED
  BY <1>3, <1>4, <1>5, <1>6

(* The current function with more code.                                    *)
LEMMA Emitted ==
  ASSUME NEW w, NEW s, NEW t, Standing(w, s, t),
         NEW more, Mild(more, Len(Current.upvalues)),
         NEW v, NEW u, Fitted(Current.code \o more, Current.arity, v, u)
  PROVE  LET c == Emit(Current, more)
         IN  /\ Succeeds(With(c), c) /\ Recoded(Current, c)
             /\ c \in ChunkSet
             /\ c.code = Current.code \o more
             /\ Fitted(c.code, c.arity, v, u)
<1>1. Current \in ChunkSet
  BY StandingFacts
<1>2. /\ Emit(Current, more) \in ChunkSet /\ Recoded(Current, Emit(Current, more))
      /\ Emit(Current, more).code = Current.code \o more
      /\ Emit(Current, more).arity = Current.arity
  BY <1>1, EmitFacts
<1>3. QED
  BY <1>2, RecodedSucceeds

LEMMA ReturnStatementCompiles ==
  ASSUME Compiles, ReturnStatement
  PROVE  Compiles'
<1>1. Head(todo)[1] \in {"declaration", "statement"}
  BY DEF ReturnStatement, AtStatement, Doing
<1>2. PICK w, s, t : Standing(w, s, t)
  BY <1>1, HeadStands
<1> DEFINE v == w[Len(chunks)]
           i == <<"NIL">>
           j == <<"RETURN">>
<1>3. s \in State /\ Full(s) /\ s.extra = 0 /\ Becomes(s, t, 0, s.open)
  BY <1>1, <1>2, AtWork
<1>4. Above(s, 0) = s
  BY <1>3, AboveSelf
<1>5. Shape(i, 0, 1) /\ Shape(j, 1, -1)
  BY Shapes
<1>6. CASE Continue(With(EmitReturnNil(Current)), <<>>)
  <2> DEFINE more == <<i, j>>
  <2>1. Emit(Current, more) = EmitReturnNil(Current) /\ Mild(more, Len(Current.upvalues))
    BY MildCode DEF EmitReturnNil
  <2> HIDE DEF i, j
  <2>2. PICK v2 : Fitted(Current.code \o more, Current.arity, v2, Above(s, 0)) /\ Extends(v, v2)
    <3>1. Fitted(Current.code, Current.arity, v, s)
      BY <1>2, StandingFacts
    <3>2. 1 = s.extra + 1 /\ 0 = 1 + (-1) /\ 0 <= s.extra
      BY <1>3
    <3> HIDE DEF v
    <3>3. QED
      BY <3>1, <3>2, <1>3, <1>5, WriteTwo
  <2> HIDE DEF more
  <2> DEFINE c == Emit(Current, more)
  <2>3. Succeeds(With(c), c) /\ Recoded(Current, c) /\ Fitted(c.code, c.arity, v2, s)
    BY <2>1, <2>2, <1>2, <1>4, Emitted
  <2>4. Weaker(s, t)
    BY <1>3 DEF Weaker
  <2>5. Continue(With(c), <<>>)
    BY <1>6, <2>1
  <2> HIDE DEF c
  <2>6. QED
    BY <1>2, <1>3, <2>2, <2>3, <2>4, <2>5, Stay, WroteAll DEF v
<1>7. CASE Continue(chunks, <<Expression(Arg(1)), ThenEmit(<<j>>)>>)
  <2> HIDE DEF v, j
  <2>1. Leading(<<Expression(Arg(1))>>, s, Above(s, 1), v)
    <3>1. Becomes(s, Above(s, 1), 0 + 1, s.open)
      BY <1>3, AboveFacts
    <3>2. QED
      BY <3>1, <1>3, <1>4, LeadExpression
  <2>2. Leading(<<ThenEmit(<<j>>)>>, Above(s, 1), t, v)
    <3>1. Becomes(s, t, 1 + (-1), s.open)
      BY <1>3
    <3>2. QED
      BY <3>1, <1>3, <1>5, LeadShape
  <2>3. Leading(<<Expression(Arg(1)), ThenEmit(<<j>>)>>, s, t, v)
    BY <2>1, <2>2, LeadTwo
  <2>4. QED
    BY <1>2, <1>7, <2>3, Planned DEF v
<1>8. QED
  BY <1>6, <1>7 DEF ReturnStatement

LEMMA IfStatementCompiles ==
  ASSUME Compiles, IfStatement
  PROVE  Compiles'
<1>1. Head(todo)[1] \in {"declaration", "statement"}
  BY DEF IfStatement, AtStatement, Doing
<1>2. PICK w, s, t : Standing(w, s, t)
  BY <1>1, HeadStands
<1> DEFINE v == w[Len(chunks)]
           d == Arg(1)
           x == <<"then", d>>
           u == Above(s, 1)
<1>3. /\ s \in State /\ Full(s) /\ s.extra = 0 /\ Becomes(s, t, 0, s.open)
      /\ s.missing = 0 /\ s.guard = 0 /\ d \in Nat /\ s.levels = d + 1
  BY <1>1, <1>2, AtWork
<1>4. Above(s, 0) = s
  BY <1>3, AboveSelf
<1>5. /\ u \in State /\ u.extra = 1 /\ u.open = s.open /\ u.guard = s.guard /\ Stays(s, u)
      /\ Becomes(s, u, 1, s.open) /\ Becomes(u, t, 0, s.open)
  BY <1>3, AboveFacts
<1>6. x[1] = "then" /\ x[2] = d
  OBVIOUS
<1>7. Continue(chunks, <<Expression(d), x>>)
  BY DEF IfStatement
<1> HIDE DEF v, u, x, d
<1>8. Leading(<<Expression(d)>>, s, u, v)
  <2>1. Becomes(s, u, 0 + 1, s.open)
    BY <1>5
  <2>2. QED
    BY <2>1, <1>3, <1>4, LeadExpression
<1>9. Leading(<<x>>, u, t, v)
  <2>1. Branches(d, u, t)
    BY <1>3, <1>5 DEF Branches, AtDepth, Calm, Stays
  <2>2. Rule(x, u, t, v)
    BY <2>1, <1>6, RuleOf
  <2>3. QED
    BY <2>2, <1>5, <1>6, Entries
<1>10. Leading(<<Expression(d), x>>, s, t, v)
  BY <1>8, <1>9, LeadTwo
<1>11. QED
  BY <1>2, <1>7, <1>10, Planned DEF v

(* A statement leaves the state as it finds it.                            *)
LEMMA LeadStatement ==
  ASSUME NEW s \in State, NEW d, AtDepth(d, s), Calm(s, 0), NEW v
  PROVE  Leading(<<Statement(d)>>, s, s, v)
<1> DEFINE x == Statement(d)
<1>1. x[1] = "statement" /\ x[2] = d
  BY DEF Statement
<1> HIDE DEF x
<1>2. Executes(d, s, s)
  BY BecomesItself DEF Executes, Calm
<1>3. Rule(x, s, s, v)
  BY <1>1, <1>2, RuleOf
<1>4. QED
  BY <1>1, <1>3, Entries DEF x

LEMMA IfThenCompiles ==
  ASSUME Compiles, IfThen
  PROVE  Compiles'
<1>1. Head(todo)[1] = "then"
  BY DEF IfThen, Doing
<1>2. PICK w, s, t : Standing(w, s, t)
  BY <1>1, HeadStands
<1> DEFINE v == w[Len(chunks)]
           d == Arg(1)
           code == Current.code
           at == Len(code) + 1
           more == << <<"JUMP_IF_FALSE", 0>>, <<"POP">> >>
           x == <<"else", d, at>>
           u == Now(s, 0, 0, s.open \cup {at})
           c == Emit(Current, more)
<1>3. /\ s \in State /\ t \in State /\ Full(s) /\ Fitted(code, Current.arity, v, s)
      /\ Branches(d, s, t)
  <2>1. Rule(Head(todo), s, t, v)
    BY <1>2, StandingFacts
  <2>2. Branches(d, s, t)
    BY <1>1, <2>1, RuleOf DEF Arg
  <2>3. QED
    BY <1>2, <2>2, StandingFacts
<1>4. AtDepth(d, s) /\ s.missing = 0 /\ s.guard = 0 /\ s.extra = 1 /\ Becomes(s, t, 0, s.open)
  BY <1>3 DEF Branches, Calm
<1>5. Continue(With(c), <<Statement(d), x>>)
  BY DEF IfThen, Here
<1>6. HeightOf(s) = Base(s) + 1 /\ s.open \cup {at} \in SUBSET (Nat \ {0}) /\ at \notin s.open
  <2>1. HeightOf(s) = Base(s) - s.missing + s.extra /\ Base(s) \in Nat
    BY <1>3, FullFacts
  <2>2. HeightOf(s) = Base(s) + 1
    BY <2>1, <1>4
  <2>3. Len(code) \in Nat /\ at \notin s.open /\ s.open \in SUBSET (Nat \ {0})
    BY <1>3, FittedFacts DEF State
  <2>4. QED
    BY <2>2, <2>3
<1>7. PICK v2 : /\ Fitted(code \o more, Current.arity, v2, u)
                /\ Extends(v, v2)
                /\ JumpsFrom(at, HeightOf(s), s.guard, u, v2)
  <2>1. s.extra - 1 = 0 /\ s.extra >= 1
    BY <1>4
  <2> HIDE DEF v
  <2>2. QED
    BY <2>1, <1>3, <1>4, WriteBranch
<1>8. /\ u \in State /\ Stays(s, u) /\ u.extra = 0 /\ u.guard = 0 /\ u.open = s.open \cup {at}
      /\ Base(u) = Base(s) /\ Full(u)
  <2> DEFINE O == s.open \cup {at}
  <2>1. u = Now(s, 0, 0, O) /\ O \in SUBSET (Nat \ {0}) /\ 0 \in Nat
    BY <1>6
  <2> HIDE DEF O, u
  <2>2. /\ u \in State /\ Stays(s, u) /\ u.extra = 0 /\ u.guard = 0 /\ u.open = O
        /\ Base(u) = Base(s) /\ Full(u)
    BY <1>3, <2>1, NowIs
  <2>3. QED
    BY <2>2 DEF O
<1>9. x[1] = "else" /\ x[2] = d /\ x[3] = at
  OBVIOUS
<1>10. Succeeds(With(c), c) /\ Recoded(Current, c) /\ Fitted(c.code, c.arity, v2, u)
  <2>1. Mild(more, Len(Current.upvalues))
    BY MildCode
  <2> HIDE DEF more, u
  <2>2. QED
    BY <2>1, <1>2, <1>7, Emitted
<1> HIDE DEF v, u, x, d, c, more, code
<1>11. AtDepth(d, u) /\ Calm(u, 0)
  BY <1>4, <1>8 DEF AtDepth, Calm, Stays
<1>12. Becomes(u, t, 0, u.open \ {at})
  <2>1. (s.open \cup {at}) \ {at} = s.open
    BY <1>6
  <2>2. QED
    BY <2>1, <1>4, <1>8 DEF Becomes, Keeps, Context, Stays
<1>13. Leading(<<x>>, u, t, v2)
  <2>1. Elses(d, at, u, t, v2)
    BY <1>4, <1>6, <1>7, <1>8, <1>11, <1>12 DEF Elses
  <2>2. Rule(x, u, t, v2)
    BY <2>1, <1>9, RuleOf
  <2>3. QED
    BY <2>2, <1>8, <1>9, Entries
<1>14. Leading(<<Statement(d), x>>, u, t, v2)
  BY <1>8, <1>11, <1>13, LeadStatement, LeadTwo
<1>15. QED
  BY <1>2, <1>5, <1>7, <1>8, <1>10, <1>14, Wrote DEF v

LEMMA SequenceOf ==
  ASSUME NEW code, NEW arity, NEW v, NEW s, Fitted(code, arity, v, s)
  PROVE  code \in Seq(Instruction)
BY FittedFacts

(* Emitting and patching, one after the other.                             *)
LEMMA EmittedMore ==
  ASSUME NEW b \in ChunkSet, NEW c \in ChunkSet, Recoded(b, c),
         NEW more, Mild(more, Len(b.upvalues)),
         NEW v, NEW u, Fitted(c.code \o more, c.arity, v, u)
  PROVE  LET n == Emit(c, more)
         IN  /\ n \in ChunkSet /\ Recoded(b, n) /\ n.arity = c.arity
             /\ n.code = c.code \o more
             /\ Fitted(n.code, n.arity, v, u)
<1>1. Mild(more, Len(c.upvalues))
  BY DEF Recoded
<1>2. /\ Emit(c, more) \in ChunkSet /\ Recoded(c, Emit(c, more))
      /\ Emit(c, more).code = c.code \o more /\ Emit(c, more).arity = c.arity
  BY <1>1, EmitFacts
<1>3. QED
  BY <1>2, RecodedTrans

LEMMA WaitsToBePatched ==
  ASSUME NEW code, NEW arity, NEW v, NEW s, Fitted(code, arity, v, s),
         NEW at, NEW h, NEW g, JumpsFrom(at, h, g, s, v)
  PROVE  at \in Unpatched(code)
BY DEF Fitted, Placed, JumpsFrom

LEMMA PatchedMore ==
  ASSUME NEW b \in ChunkSet, NEW c \in ChunkSet, Recoded(b, c),
         NEW at, at \in Unpatched(c.code),
         NEW v, NEW u, Fitted(PatchedAt(c.code, at), c.arity, v, u)
  PROVE  LET n == PatchJump(c, at)
         IN  /\ n \in ChunkSet /\ Recoded(b, n) /\ n.arity = c.arity
             /\ n.code = PatchedAt(c.code, at)
             /\ Fitted(n.code, n.arity, v, u)
<1>1. PatchedAt(c.code, at) \in Seq(Instruction)
  BY SequenceOf
<1>2. /\ PatchJump(c, at) \in ChunkSet /\ Recoded(c, PatchJump(c, at))
      /\ PatchJump(c, at).code = PatchedAt(c.code, at) /\ PatchJump(c, at).arity = c.arity
  BY <1>1, PatchFacts
<1>3. QED
  BY <1>2, RecodedTrans

(* A jump that is patched when the state is at, or back at, its height.    *)
LEMMA LeadPatch ==
  ASSUME NEW s \in State, Full(s), NEW at, NEW v, JumpsFrom(at, HeightOf(s), s.guard, s, v),
         NEW t, Becomes(s, t, s.extra, s.open \ {at})
  PROVE  Leading(<<ThenPatch(at)>>, s, t, v)
<1> DEFINE x == ThenPatch(at)
<1>1. x[1] = "patch" /\ x[2] = at
  BY DEF ThenPatch
<1> HIDE DEF x
<1>2. Patches(at, s, t, v)
  BY DEF Patches
<1>3. Rule(x, s, t, v)
  BY <1>1, <1>2, RuleOf
<1>4. QED
  BY <1>1, <1>3, Entries DEF x

LEMMA IfElseCompiles ==
  ASSUME Compiles, IfElse
  PROVE  Compiles'
<1>1. Head(todo)[1] = "else"
  BY DEF IfElse, Doing
<1>2. PICK w, s, t : Standing(w, s, t)
  BY <1>1, HeadStands
<1> DEFINE v == w[Len(chunks)]
           d == Arg(1)
           at == Arg(2)
           code == Current.code
           arity == Current.arity
           jump == Len(code) + 1
           i == <<"JUMP", 0>>
           j == <<"POP">>
           jumped == Emit(Current, <<i>>)
           patched == PatchJump(jumped, at)
           c == Emit(patched, <<j>>)
           end == ThenPatch(jump)
           u1 == Now(s, 1, 0, s.open \cup {jump})
           u2 == Now(s, 1, 0, (s.open \cup {jump}) \ {at})
           u == Now(s, 0, 0, (s.open \cup {jump}) \ {at})
<1>3. /\ s \in State /\ t \in State /\ Full(s) /\ Fitted(code, arity, v, s)
      /\ Elses(d, at, s, t, v)
  <2>1. Rule(Head(todo), s, t, v)
    BY <1>2, StandingFacts
  <2>2. Elses(d, at, s, t, v)
    BY <1>1, <2>1, RuleOf DEF Arg
  <2>3. QED
    BY <1>2, <2>2, StandingFacts
<1>4. /\ AtDepth(d, s) /\ s.missing = 0 /\ s.guard = 0 /\ s.extra = 0
      /\ JumpsFrom(at, Base(s) + 1, 0, s, v)
      /\ Becomes(s, t, 0, s.open \ {at})
  BY <1>3 DEF Elses, Calm
<1>5. \/ Continue(With(c), <<end>>)
      \/ Continue(With(c), <<Statement(d), end>>)
  BY DEF IfElse, Here
<1>7. Current \in ChunkSet /\ Recoded(Current, Current)
      /\ Mild(<<i>>, Len(Current.upvalues)) /\ Mild(<<j>>, Len(Current.upvalues))
  BY <1>2, StandingFacts, RecodedSelf, MildCode
<1>8. /\ HeightOf(s) = Base(s) /\ Base(s) \in Nat
      /\ s.open \cup {jump} \in SUBSET (Nat \ {0}) /\ jump \notin s.open
      /\ (s.open \cup {jump}) \ {at} \in SUBSET (Nat \ {0})
      /\ jump # at
  <2>1. HeightOf(s) = Base(s) - s.missing + s.extra /\ Base(s) \in Nat
    BY <1>3, FullFacts
  <2>2. HeightOf(s) = Base(s)
    BY <2>1, <1>4
  <2>3. Len(code) \in Nat /\ jump \notin s.open /\ s.open \in SUBSET (Nat \ {0})
    BY <1>3, FittedFacts DEF State
  <2>4. at \in s.open
    BY <1>4 DEF JumpsFrom
  <2>5. QED
    BY <2>1, <2>2, <2>3, <2>4
<1> HIDE DEF v, d, at, end
<1>9. PICK v1 : /\ Fitted(code \o <<i>>, arity, v1, u1)
                /\ Extends(v, v1)
                /\ JumpsFrom(jump, HeightOf(s), s.guard, u1, v1)
  <2>1. i \in { <<"JUMP_IF_FALSE", 0>>, <<"JUMP", 0>> } /\ i[1] # "JUMP_IF_FALSE"
    OBVIOUS
  <2>2. 1 \in Nat /\ 0 \in Nat
    OBVIOUS
  <2> HIDE DEF i
  <2>3. QED
    BY <1>3, <2>1, <2>2, WriteSkip
<1>10. /\ u1 \in State /\ Stays(s, u1) /\ u1.extra = 1 /\ u1.guard = 0
       /\ u1.open = s.open \cup {jump}
       /\ HeightOf(u1) = Base(s) + 1 /\ Full(u1)
  <2> DEFINE O == s.open \cup {jump}
  <2>1. O \in SUBSET (Nat \ {0}) /\ 1 \in Nat /\ 0 \in Nat
    BY <1>8
  <2> HIDE DEF O
  <2>2. u1 = Now(s, 1, 0, O)
    BY DEF O
  <2>3. u1.open = s.open \cup {jump} \/ u1.open # O
    BY DEF O
  <2> HIDE DEF u1
  <2>4. /\ u1 \in State /\ Stays(s, u1) /\ u1.extra = 1 /\ u1.guard = 0 /\ u1.open = O
        /\ HeightOf(u1) = Base(s) - s.missing + 1 /\ Full(u1)
    BY <1>3, <2>1, <2>2, NowIs
  <2>5. Base(s) - s.missing + 1 = Base(s) + 1
    BY <1>4, <1>8
  <2>6. QED
    BY <2>3, <2>4, <2>5
<1>11. /\ jumped \in ChunkSet /\ Recoded(Current, jumped) /\ jumped.arity = arity
       /\ jumped.code = code \o <<i>>
       /\ Fitted(jumped.code, arity, v1, u1)
  <2> HIDE DEF i, u1
  <2>1. QED
    BY <1>7, <1>9, EmittedMore
<1>12. JumpsFrom(at, HeightOf(u1), u1.guard, u1, v1)
  <2>1. at \in u1.open /\ u1.loops = s.loops
    BY <1>4, <1>10 DEF JumpsFrom, Stays
  <2> HIDE DEF u1
  <2>2. QED
    BY <2>1, <1>4, <1>9, <1>10, JumpsExtend
<1>13. u2 = Now(u1, 1, 0, u1.open \ {at}) /\ u = Now(u2, 0, 0, (s.open \cup {jump}) \ {at})
  <2>1. Now(u1, 1, 0, u1.open \ {at}) = Now(s, 1, 0, u1.open \ {at})
    BY <1>3, NowNow
  <2>2. Now(u2, 0, 0, (s.open \cup {jump}) \ {at}) = u
    BY <1>3, NowNow
  <2> HIDE DEF u1
  <2>3. QED
    BY <2>1, <2>2, <1>10
<1>14. PICK v2 : Fitted(PatchedAt(jumped.code, at), arity, v2, u2) /\ Extends(v1, v2)
  <2> HIDE DEF u1, u2, jumped
  <2>1. u1.extra = 1 /\ u1.guard = 0
    BY <1>10
  <2>2. \E x : Fitted(PatchedAt(jumped.code, at), arity, x, Now(u1, u1.extra, u1.guard, u1.open \ {at})) /\ Extends(v1, x)
    BY <1>10, <1>11, <1>12, WritePatch
  <2>3. QED
    BY <2>1, <2>2, <1>13
<1>15. /\ patched \in ChunkSet /\ Recoded(Current, patched) /\ patched.arity = arity
       /\ Fitted(patched.code, arity, v2, u2)
  <2> HIDE DEF u1, u2, jumped
  <2>1. at \in Unpatched(jumped.code)
    BY <1>11, <1>12, WaitsToBePatched
  <2>2. Fitted(PatchedAt(jumped.code, at), jumped.arity, v2, u2)
    BY <1>11, <1>14
  <2>3. /\ Current \in ChunkSet /\ jumped \in ChunkSet /\ Recoded(Current, jumped)
        /\ jumped.arity = arity
    BY <1>7, <1>11
  <2>4. QED
    BY <2>1, <2>2, <2>3, PatchedMore
<1>16. /\ u2 \in State /\ Stays(s, u2) /\ u2.extra = 1 /\ u2.guard = 0
       /\ u2.open = (s.open \cup {jump}) \ {at} /\ Full(u2)
       /\ u \in State /\ Stays(s, u) /\ u.extra = 0 /\ u.guard = 0
       /\ u.open = (s.open \cup {jump}) \ {at} /\ Full(u)
       /\ HeightOf(u) = Base(s)
  <2> DEFINE O == (s.open \cup {jump}) \ {at}
  <2>1. O \in SUBSET (Nat \ {0}) /\ 1 \in Nat /\ 0 \in Nat
    BY <1>8
  <2> HIDE DEF O
  <2>2. u2 = Now(s, 1, 0, O) /\ u = Now(s, 0, 0, O)
    BY DEF O
  <2> HIDE DEF u, u2
  <2>3. /\ u2 \in State /\ Stays(s, u2) /\ u2.extra = 1 /\ u2.guard = 0 /\ u2.open = O /\ Full(u2)
    BY <1>3, <2>1, <2>2, NowIs
  <2>4. /\ u \in State /\ Stays(s, u) /\ u.extra = 0 /\ u.guard = 0 /\ u.open = O /\ Full(u)
        /\ HeightOf(u) = Base(s) - s.missing + 0
    BY <1>3, <2>1, <2>2, NowIs
  <2>5. Base(s) - s.missing + 0 = Base(s)
    BY <1>4, <1>8
  <2>6. QED
    BY <2>3, <2>4, <2>5 DEF O
<1>17. PICK v3 : Fitted(patched.code \o <<j>>, arity, v3, u) /\ Extends(v2, v3)
  <2>1. Above(u2, 0) = u
    BY <1>13, <1>16 DEF Above
  <2> HIDE DEF u, u2, patched
  <2>2. Shape(j, 1, -1) /\ 1 <= u2.extra /\ 0 = u2.extra + (-1)
    BY <1>16, Shapes
  <2> HIDE DEF j
  <2>3. QED
    BY <2>1, <2>2, <1>15, <1>16, WriteShape
<1>18. /\ c \in ChunkSet /\ Recoded(Current, c) /\ Fitted(c.code, c.arity, v3, u)
  <2> HIDE DEF u, patched, j
  <2>1. QED
    BY <1>7, <1>15, <1>17, EmittedMore
<1> HIDE DEF u, u1, u2, jumped, patched, c, i, j, code
<1>19. Extends(v, v3) /\ Extends(v1, v3)
  BY <1>9, <1>14, <1>17, ExtendsTrans
<1>20. AtDepth(d, u) /\ Calm(u, 0)
  BY <1>4, <1>16 DEF AtDepth, Calm, Stays
<1>21. Becomes(u, t, 0, u.open \ {jump})
  <2>1. u.open \ {jump} = s.open \ {at}
    BY <1>8, <1>16
  <2>2. QED
    BY <2>1, <1>4, <1>16 DEF Becomes, Keeps, Context, Stays
<1>22. JumpsFrom(jump, HeightOf(u), u.guard, u, v3)
  <2>1. jump \in u.open /\ u.loops = u1.loops
    BY <1>8, <1>10, <1>16 DEF Stays
  <2>2. JumpsFrom(jump, Base(s), 0, u1, v1)
    BY <1>4, <1>8, <1>9
  <2>3. JumpsFrom(jump, Base(s), 0, u, v3)
    BY <2>1, <2>2, <1>19, JumpsExtend
  <2>4. QED
    BY <2>3, <1>16
<1>23. Leading(<<end>>, u, t, v3)
  BY <1>16, <1>21, <1>22, LeadPatch DEF end
<1>24. Leading(<<Statement(d), end>>, u, t, v3)
  BY <1>16, <1>20, <1>23, LeadStatement, LeadTwo
<1>25. Succeeds(With(c), c)
  BY <1>2, <1>18, RecodedSucceeds
<1>26. QED
  BY <1>2, <1>5, <1>16, <1>18, <1>19, <1>23, <1>24, <1>25, Wrote DEF v

(* Entering a loop: its entry is the place the code has come to.           *)
LEMMA EnterLoop ==
  ASSUME NEW s \in State, Full(s), NEW code, NEW arity, NEW v, Fitted(code, arity, v, s),
         Calm(s, 0), NEW start, start = Len(code) + 1,
         NEW u, u = [s EXCEPT !.loops = s.loops \cup {start}]
  PROVE  /\ u \in State /\ Full(u) /\ Calm(u, 0)
         /\ u.chunk = s.chunk /\ u.levels = s.levels /\ u.locals = s.locals
         /\ u.open = s.open /\ u.super = s.super /\ u.reads = s.reads /\ start \in u.loops
         /\ Base(u) = Base(s)
         /\ start \in 1 .. Len(v.h) /\ v.h[start] = Base(s) /\ v.g[start] = 0
         /\ \A t, e, o : Becomes(s, t, e, o) => Becomes(u, t, e, o)
         /\ \A c : Meets(c, v, s) /\ c.code = code => Meets(c, v, u)
<1>1. /\ Len(code) \in Nat /\ start \in 1 .. Len(v.h) /\ Len(v.h) = start
      /\ v.h[start] = HeightOf(s) /\ v.g[start] = s.guard
  BY FittedFacts
<1>2. s.loops \cup {start} \in SUBSET Nat
  BY <1>1 DEF State
<1>3. /\ u \in State /\ u.loops = s.loops \cup {start}
      /\ u.chunk = s.chunk /\ u.levels = s.levels /\ u.locals = s.locals
      /\ u.missing = s.missing /\ u.extra = s.extra /\ u.guard = s.guard
      /\ u.open = s.open /\ u.super = s.super /\ u.reads = s.reads
  BY <1>2 DEF State
<1>4. HeightOf(s) = Base(s)
  BY FullFacts DEF Calm
<1>5. Full(u) /\ Calm(u, 0) /\ Base(u) = Base(s)
  BY <1>3 DEF Full, Calm, Base
<1>6. \A t, e, o : Becomes(s, t, e, o) => Becomes(u, t, e, o)
  BY <1>3 DEF Becomes, Keeps, Context
<1>7. Dominates(start, v.r)
  <2>1. v.r \subseteq 1 .. start
    BY DEF Fitted, Placed, Layout, Sized
  <2>2. QED
    BY <2>1, <1>1 DEF Dominates
<1>8. ASSUME NEW c, Meets(c, v, s), c.code = code
      PROVE  Meets(c, v, u)
  <2>1. Placed(c.code, c.arity, v, 1 + Size(c.scope, s.levels) - s.missing + s.extra,
               s.guard, s.open, s.loops)
    BY <1>8 DEF Meets
  <2>2. Placed(c.code, c.arity, v, 1 + Size(c.scope, u.levels) - u.missing + u.extra,
               u.guard, u.open, u.loops)
    <3>1. \A l \in u.loops : l \in 1 .. Len(code) + 1 /\ Dominates(l, v.r)
      BY <2>1, <1>1, <1>3, <1>7, <1>8 DEF Placed
    <3>2. QED
      BY <2>1, <3>1, <1>3, <1>8 DEF Placed
  <2>3. QED
    BY <2>2, <1>3, <1>8 DEF Meets
<1>9. QED
  BY <1>1, <1>3, <1>4, <1>5, <1>6, <1>8 DEF Calm

(* The state that the head of todo finds once the code it has come to is   *)
(* the entry of a loop.                                                    *)
LEMMA Entering ==
  ASSUME NEW w, NEW s, NEW t, Standing(w, s, t), Calm(s, 0), Becomes(s, t, 0, s.open)
  PROVE  LET start == Len(Current.code) + 1
             v     == w[Len(chunks)]
         IN  \E u \in State :
               /\ Full(u) /\ Calm(u, 0) /\ u.levels = s.levels
               /\ StartsAt(start, u, v) /\ Becomes(u, t, 0, u.open)
               /\ \A items : Continue(chunks, items) /\ Leading(items, u, t, v) => Compiles'
<1> DEFINE v == w[Len(chunks)]
           start == Len(Current.code) + 1
           u == [s EXCEPT !.loops = s.loops \cup {start}]
<1>1. /\ s \in State /\ Full(s) /\ Fitted(Current.code, Current.arity, v, s)
      /\ Meets(Current, v, s) /\ Succeeds(chunks, Current)
  BY StandingFacts
<1>2. /\ u \in State /\ Full(u) /\ Calm(u, 0) /\ u.levels = s.levels
      /\ u.chunk = s.chunk /\ u.open = s.open
      /\ start \in 1 .. Len(v.h) /\ start \in u.loops
      /\ v.h[start] = Base(u) /\ v.g[start] = 0
      /\ Becomes(u, t, 0, s.open)
      /\ Meets(Current, v, u)
  <2>1. u = [s EXCEPT !.loops = s.loops \cup {start}]
    OBVIOUS
  <2> HIDE DEF v, u
  <2>2. /\ u \in State /\ Full(u) /\ Calm(u, 0)
        /\ u.chunk = s.chunk /\ u.levels = s.levels
        /\ u.open = s.open /\ start \in u.loops
        /\ Base(u) = Base(s)
        /\ start \in 1 .. Len(v.h) /\ v.h[start] = Base(s) /\ v.g[start] = 0
        /\ \A r, e, o : Becomes(s, r, e, o) => Becomes(u, r, e, o)
        /\ \A c : Meets(c, v, s) /\ c.code = Current.code => Meets(c, v, u)
    BY <1>1, <2>1, EnterLoop
  <2>3. QED
    BY <1>1, <2>2
<1> HIDE DEF u
<1>3. Extends(v, v)
  BY DEF Extends
<1>4. ASSUME NEW items, Continue(chunks, items), Leading(items, u, t, v)
      PROVE  Compiles'
  <2>1. Adds(Current, Current)
    BY StandingFacts, AddsSelf
  <2>2. QED
    BY <2>1, <1>1, <1>2, <1>3, <1>4, Continued
<1>5. StartsAt(start, u, v) /\ Becomes(u, t, 0, u.open)
  BY <1>2 DEF StartsAt
<1>6. QED
  BY <1>2, <1>4, <1>5

(* The condition of a loop, and what comes behind it.                      *)
LEMMA LeadCondition ==
  ASSUME NEW u \in State, Full(u), Calm(u, 0), NEW t, Becomes(u, t, 0, u.open),
         NEW d, AtDepth(d, u), NEW start, NEW v, StartsAt(start, u, v),
         NEW what \in {"whileBody", "forExit"}
  PROVE  Leading(<<Expression(d), <<what, d, start>> >>, u, t, v)
<1> DEFINE x == <<what, d, start>>
           m == Above(u, 1)
<1>1. x[1] = what /\ x[2] = d /\ x[3] = start
  OBVIOUS
<1>2. u.extra = 0 /\ u.missing = 0 /\ u.guard = 0
  BY DEF Calm
<1>3. Above(u, 0) = u
  BY <1>2, AboveSelf
<1>4. /\ m \in State /\ Stays(u, m) /\ m.extra = 1 /\ m.guard = u.guard /\ m.open = u.open
      /\ Base(m) = Base(u) /\ Full(m) /\ Becomes(u, m, 1, u.open)
      /\ Becomes(m, t, 0, u.open)
  BY AboveFacts
<1> HIDE DEF x, m
<1>5. Leading(<<Expression(d)>>, u, m, v)
  <2>1. Becomes(u, m, 0 + 1, u.open)
    BY <1>4
  <2>2. QED
    BY <2>1, <1>3, LeadExpression
<1>6. Leading(<<x>>, m, t, v)
  <2>1. Loops(d, start, m, t, v)
    BY <1>2, <1>4 DEF Loops, AtDepth, Calm, StartsAt, Stays
  <2>2. Rule(x, m, t, v)
    BY <2>1, <1>1, RuleOf
  <2>3. QED
    BY <2>2, <1>1, <1>4, Entries
<1>7. QED
  BY <1>5, <1>6, LeadTwo DEF x

LEMMA WhileStatementCompiles ==
  ASSUME Compiles, WhileStatement
  PROVE  Compiles'
<1>1. Head(todo)[1] \in {"declaration", "statement"}
  BY DEF WhileStatement, AtStatement, Doing
<1>2. PICK w, s, t : Standing(w, s, t)
  BY <1>1, HeadStands
<1> DEFINE v == w[Len(chunks)]
           d == Arg(1)
           start == Len(Current.code) + 1
           items == <<Expression(d), <<"whileBody", d, start>> >>
<1>3. Calm(s, 0) /\ AtDepth(d, s) /\ Becomes(s, t, 0, s.open)
  BY <1>1, <1>2, AtWork DEF Calm, AtDepth
<1>4. PICK u \in State :
        /\ Full(u) /\ Calm(u, 0) /\ u.levels = s.levels
        /\ StartsAt(start, u, v) /\ Becomes(u, t, 0, u.open)
        /\ Continue(chunks, items) /\ Leading(items, u, t, v) => Compiles'
  BY <1>2, <1>3, Entering
<1>5. Leading(items, u, t, v)
  <2>1. AtDepth(d, u)
    BY <1>3, <1>4 DEF AtDepth
  <2> HIDE DEF v, d, start
  <2>2. QED
    BY <2>1, <1>4, LeadCondition
<1>6. Continue(chunks, items)
  BY DEF WhileStatement, Here
<1>7. QED
  BY <1>4, <1>5, <1>6

LEMMA ForConditionCompiles ==
  ASSUME Compiles, ForCondition
  PROVE  Compiles'
<1>1. Head(todo)[1] = "forCondition"
  BY DEF ForCondition, Doing
<1>2. PICK w, s, t : Standing(w, s, t)
  BY <1>1, HeadStands
<1> DEFINE v == w[Len(chunks)]
           d == Arg(1)
           start == Len(Current.code) + 1
           x == <<"forIncrement", d, start, 0>>
           items == <<Expression(d), <<"forExit", d, start>> >>
<1>3. Calm(s, 0) /\ AtDepth(d, s) /\ Becomes(s, t, 0, s.open)
  BY <1>1, <1>2, AtWork DEF Calm, AtDepth
<1>4. PICK u \in State :
        /\ Full(u) /\ Calm(u, 0) /\ u.levels = s.levels
        /\ StartsAt(start, u, v) /\ Becomes(u, t, 0, u.open)
        /\ Continue(chunks, items) /\ Leading(items, u, t, v) => Compiles'
        /\ Continue(chunks, <<x>>) /\ Leading(<<x>>, u, t, v) => Compiles'
  BY <1>2, <1>3, Entering
<1>5. AtDepth(d, u)
  BY <1>3, <1>4 DEF AtDepth
<1>6. Leading(items, u, t, v)
  <2> HIDE DEF v, d, start
  <2>1. QED
    BY <1>4, <1>5, LeadCondition
<1>7. Leading(<<x>>, u, t, v)
  <2>1. x[1] = "forIncrement" /\ x[2] = d /\ x[3] = start /\ x[4] = 0
    OBVIOUS
  <2> HIDE DEF x
  <2>2. u.open \ {0} = u.open
    BY <1>4 DEF State
  <2>3. ExitsFrom(0, u, v)
    BY DEF ExitsFrom
  <2>4. Increments(d, start, 0, u, t, v)
    BY <1>4, <1>5, <2>2, <2>3 DEF Increments
  <2>5. Rule(x, u, t, v)
    BY <2>1, <2>4, RuleOf
  <2>6. QED
    BY <2>1, <2>5, <1>4, Entries
<1>8. Continue(chunks, items) \/ Continue(chunks, <<x>>)
  BY DEF ForCondition, Here
<1>9. QED
  BY <1>4, <1>6, <1>7, <1>8

(* The end of a condition.                                                 *)
Branch == << <<"JUMP_IF_FALSE", 0>>, <<"POP">> >>

LEMMA Branched ==
  ASSUME NEW w, NEW s, NEW t, Standing(w, s, t), Calm(s, 1)
  PROVE  LET at == Len(Current.code) + 1
             c  == Emit(Current, Branch)
         IN  /\ Succeeds(With(c), c) /\ Recoded(Current, c)
             /\ at \notin s.open /\ at # 0
             /\ \E u \in State : \E v :
                  /\ Stays(s, u) /\ Full(u) /\ Calm(u, 0) /\ u.open = s.open \cup {at}
                  /\ Base(u) = Base(s)
                  /\ Extends(w[Len(chunks)], v) /\ Fitted(c.code, c.arity, v, u)
                  /\ JumpsFrom(at, Base(u) + 1, 0, u, v)
<1> DEFINE v == w[Len(chunks)]
           code == Current.code
           at == Len(code) + 1
           u == Now(s, 0, 0, s.open \cup {at})
           c == Emit(Current, Branch)
<1>1. /\ s \in State /\ Full(s) /\ Fitted(code, Current.arity, v, s)
      /\ s.missing = 0 /\ s.guard = 0 /\ s.extra = 1
  BY StandingFacts DEF Calm
<1>2. HeightOf(s) = Base(s) + 1
  <2>1. HeightOf(s) = Base(s) - s.missing + s.extra /\ Base(s) \in Nat
    BY <1>1, FullFacts
  <2>2. QED
    BY <2>1, <1>1
<1>3. s.open \cup {at} \in SUBSET (Nat \ {0}) /\ at \notin s.open /\ at # 0
  BY <1>1, FittedFacts DEF State
<1>4. /\ u \in State /\ Stays(s, u) /\ u.extra = 0 /\ u.guard = 0 /\ u.open = s.open \cup {at}
      /\ Base(u) = Base(s) /\ Full(u)
  <2> DEFINE O == s.open \cup {at}
  <2>1. u = Now(s, 0, 0, O) /\ O \in SUBSET (Nat \ {0}) /\ 0 \in Nat
    BY <1>3
  <2> HIDE DEF O, u
  <2>2. /\ u \in State /\ Stays(s, u) /\ u.extra = 0 /\ u.guard = 0 /\ u.open = O
        /\ Base(u) = Base(s) /\ Full(u)
    BY <1>1, <2>1, NowIs
  <2>3. QED
    BY <2>2 DEF O
<1>5. \E v2 : /\ Fitted(code \o Branch, Current.arity, v2, u)
              /\ Extends(v, v2)
              /\ JumpsFrom(at, HeightOf(s), s.guard, u, v2)
  <2>1. s.extra - 1 = 0 /\ s.extra >= 1
    BY <1>1
  <2> HIDE DEF v
  <2>2. QED
    BY <2>1, <1>1, WriteBranch DEF Branch
<1> HIDE DEF u, v, at
<1>6. PICK v2 : /\ Fitted(code \o Branch, Current.arity, v2, u)
                /\ Extends(v, v2)
                /\ JumpsFrom(at, Base(u) + 1, 0, u, v2)
  BY <1>1, <1>2, <1>4, <1>5
<1>7. Succeeds(With(c), c) /\ Recoded(Current, c) /\ Fitted(c.code, c.arity, v2, u)
  <2>1. Mild(Branch, Len(Current.upvalues))
    BY MildCode DEF Branch
  <2>2. QED
    BY <2>1, <1>6, Emitted
<1>8. Calm(u, 0)
  BY <1>1, <1>4 DEF Calm, Stays
<1> HIDE DEF c
<1>9. QED
  BY <1>3, <1>4, <1>6, <1>7, <1>8 DEF v, at, c

LEMMA WhileBodyCompiles ==
  ASSUME Compiles, WhileBody
  PROVE  Compiles'
<1>1. Head(todo)[1] = "whileBody"
  BY DEF WhileBody, Doing
<1>2. PICK w, s, t : Standing(w, s, t)
  BY <1>1, HeadStands
<1> DEFINE v == w[Len(chunks)]
           d == Arg(1)
           start == Arg(2)
           at == Len(Current.code) + 1
           c == Emit(Current, Branch)
           x == <<"endLoop", start, at>>
<1>3. /\ s \in State /\ Full(s) /\ AtDepth(d, s) /\ Calm(s, 1)
      /\ StartsAt(start, s, v) /\ Becomes(s, t, 0, s.open)
  <2>1. Rule(Head(todo), s, t, v) /\ s \in State /\ Full(s)
    BY <1>2, StandingFacts
  <2>2. Loops(d, start, s, t, v)
    BY <1>1, <2>1, RuleOf DEF Arg
  <2>3. QED
    BY <2>1, <2>2 DEF Loops
<1>4. /\ Succeeds(With(c), c) /\ Recoded(Current, c)
      /\ at \notin s.open /\ at # 0
  BY <1>2, <1>3, Branched
<1>5. PICK v2, u :
        /\ u \in State
        /\ Stays(s, u) /\ Full(u) /\ Calm(u, 0) /\ u.open = s.open \cup {at}
        /\ Base(u) = Base(s)
        /\ Extends(v, v2) /\ Fitted(c.code, c.arity, v2, u)
        /\ JumpsFrom(at, Base(u) + 1, 0, u, v2)
  BY <1>2, <1>3, Branched
<1>6. Continue(With(c), <<Statement(d), x>>)
  BY DEF WhileBody, Here, Branch
<1>7. x[1] = "endLoop" /\ x[2] = start /\ x[3] = at
  OBVIOUS
<1> HIDE DEF v, d, start, at, c, x
<1>8. Becomes(u, t, 0, u.open \ {at})
  <2>1. u.open \ {at} = s.open
    BY <1>4, <1>5
  <2>2. QED
    BY <2>1, <1>3, <1>5 DEF Becomes, Keeps, Context, Stays, Calm
<1>9. /\ start \in 1 .. Len(v2.h) /\ v2.h[start] = Base(u) /\ Entry(v2.g, start) \in u.loops
  BY <1>3, <1>5 DEF StartsAt, Extends, Entry, Stays
<1>10. Leading(<<x>>, u, t, v2)
  <2>1. ExitsFrom(at, u, v2)
    BY <1>5 DEF ExitsFrom
  <2>2. ClosesLoop(start, at, u, t, v2)
    BY <2>1, <1>5, <1>8, <1>9 DEF ClosesLoop
  <2>3. Rule(x, u, t, v2)
    BY <2>2, <1>7, RuleOf
  <2>4. QED
    BY <2>3, <1>5, <1>7, Entries
<1>11. Leading(<<Statement(d), x>>, u, t, v2)
  <2>1. AtDepth(d, u)
    BY <1>3, <1>5 DEF AtDepth, Stays
  <2>2. QED
    BY <2>1, <1>5, <1>10, LeadStatement, LeadTwo
<1>12. QED
  BY <1>2, <1>4, <1>5, <1>6, <1>11, Wrote DEF v

LEMMA ForExitCompiles ==
  ASSUME Compiles, ForExit
  PROVE  Compiles'
<1>1. Head(todo)[1] = "forExit"
  BY DEF ForExit, Doing
<1>2. PICK w, s, t : Standing(w, s, t)
  BY <1>1, HeadStands
<1> DEFINE v == w[Len(chunks)]
           d == Arg(1)
           start == Arg(2)
           at == Len(Current.code) + 1
           c == Emit(Current, Branch)
           x == <<"forIncrement", d, start, at>>
<1>3. /\ s \in State /\ Full(s) /\ AtDepth(d, s) /\ Calm(s, 1)
      /\ StartsAt(start, s, v) /\ Becomes(s, t, 0, s.open)
  <2>1. Rule(Head(todo), s, t, v) /\ s \in State /\ Full(s)
    BY <1>2, StandingFacts
  <2>2. Loops(d, start, s, t, v)
    BY <1>1, <2>1, RuleOf DEF Arg
  <2>3. QED
    BY <2>1, <2>2 DEF Loops
<1>4. /\ Succeeds(With(c), c) /\ Recoded(Current, c)
      /\ at \notin s.open /\ at # 0
  BY <1>2, <1>3, Branched
<1>5. PICK v2, u :
        /\ u \in State
        /\ Stays(s, u) /\ Full(u) /\ Calm(u, 0) /\ u.open = s.open \cup {at}
        /\ Base(u) = Base(s)
        /\ Extends(v, v2) /\ Fitted(c.code, c.arity, v2, u)
        /\ JumpsFrom(at, Base(u) + 1, 0, u, v2)
  BY <1>2, <1>3, Branched
<1>6. Continue(With(c), <<x>>)
  BY DEF ForExit, Here, Branch
<1>7. x[1] = "forIncrement" /\ x[2] = d /\ x[3] = start /\ x[4] = at
  OBVIOUS
<1> HIDE DEF v, d, start, at, c, x
<1>8. Becomes(u, t, 0, u.open \ {at})
  <2>1. u.open \ {at} = s.open
    BY <1>4, <1>5
  <2>2. QED
    BY <2>1, <1>3, <1>5 DEF Becomes, Keeps, Context, Stays, Calm
<1>9. StartsAt(start, u, v2)
  BY <1>3, <1>5 DEF StartsAt, Extends, Stays
<1>10. Leading(<<x>>, u, t, v2)
  <2>1. ExitsFrom(at, u, v2) /\ AtDepth(d, u)
    BY <1>3, <1>5 DEF ExitsFrom, AtDepth, Stays
  <2>2. Increments(d, start, at, u, t, v2)
    BY <2>1, <1>5, <1>8, <1>9 DEF Increments
  <2>3. Rule(x, u, t, v2)
    BY <2>2, <1>7, RuleOf
  <2>4. QED
    BY <2>3, <1>5, <1>7, Entries
<1>11. QED
  BY <1>2, <1>4, <1>5, <1>6, <1>10, Wrote DEF v

LEMMA EndOfLoopCompiles ==
  ASSUME Compiles, EndOfLoop
  PROVE  Compiles'
<1>1. Head(todo)[1] = "endLoop"
  BY DEF EndOfLoop, Doing
<1>2. PICK w, s, t : Standing(w, s, t)
  BY <1>1, HeadStands
<1> DEFINE v == w[Len(chunks)]
           start == Arg(1)
           exit == Arg(2)
           code == Current.code
           arity == Current.arity
           i == <<"LOOP", start>>
           looped == Emit(Current, <<i>>)
           patched == PatchJump(looped, exit)
           c == Emit(patched, << <<"POP">> >>)
<1>3. /\ s \in State /\ Full(s) /\ Fitted(code, arity, v, s)
      /\ ClosesLoop(start, exit, s, t, v)
      /\ Current \in ChunkSet /\ Recoded(Current, Current)
  <2>1. Rule(Head(todo), s, t, v)
    BY <1>2, StandingFacts
  <2>2. ClosesLoop(start, exit, s, t, v)
    BY <1>1, <2>1, RuleOf DEF Arg
  <2>3. QED
    BY <1>2, <2>2, StandingFacts, RecodedSelf
<1>4. /\ s.missing = 0 /\ s.guard = 0 /\ s.extra = 0
      /\ start \in 1 .. Len(v.h) /\ v.h[start] = Base(s) /\ Entry(v.g, start) \in s.loops
      /\ ExitsFrom(exit, s, v)
      /\ Becomes(s, t, 0, s.open \ {exit})
  BY <1>3 DEF ClosesLoop, Calm
<1>5. HeightOf(s) = Base(s) /\ Base(s) \in Nat
  <2>1. HeightOf(s) = Base(s) - s.missing + s.extra /\ Base(s) \in Nat
    BY <1>3, FullFacts
  <2>2. QED
    BY <2>1, <1>4
<1>6. Continue(With(IF exit = 0 THEN looped ELSE c), <<>>)
  BY DEF EndOfLoop
<1>11. Mild(<<i>>, Len(Current.upvalues)) /\ Mild(<< <<"POP">> >>, Len(Current.upvalues))
  <2>1. start \in Nat
    BY <1>4
  <2> HIDE DEF start
  <2>2. QED
    BY <2>1, MildCode
<1>7. ASSUME NEW e \in Nat
      PROVE  \E v2 : Fitted(code \o <<i>>, arity, v2, Now(s, e, 0, s.open)) /\ Extends(v, v2)
  <2>1. v.h[start] = HeightOf(s) /\ 0 \in Nat
    BY <1>4, <1>5
  <2>2. IF s.guard # 0 THEN start = s.guard ELSE Entry(v.g, start) \in s.loops
    BY <1>4
  <2>3. start \in 1 .. Len(v.h)
    BY <1>4
  <2> HIDE DEF v, start
  <2>4. QED
    BY <2>1, <2>2, <2>3, <1>3, WriteLoop
<1>8. CASE exit = 0
  <2>1. Now(s, 0, 0, s.open) = s
    BY <1>3, <1>4, NowSame
  <2>2. PICK v2 : Fitted(code \o <<i>>, arity, v2, s) /\ Extends(v, v2)
    BY <1>7, <2>1
  <2>3. Succeeds(With(looped), looped) /\ Recoded(Current, looped)
        /\ Fitted(looped.code, looped.arity, v2, s)
    <3> HIDE DEF i
    <3>1. QED
      BY <1>2, <1>11, <2>2, Emitted
  <2>4. Weaker(s, t)
    <3>1. s.open \ {exit} = s.open
      BY <1>3, <1>8 DEF State
    <3>2. QED
      BY <3>1, <1>4 DEF Weaker
  <2>5. Continue(With(looped), <<>>)
    BY <1>6, <1>8
  <2> HIDE DEF looped
  <2>6. QED
    BY <1>2, <1>3, <2>2, <2>3, <2>4, <2>5, Stay, WroteAll DEF v
<1>9. CASE exit # 0
  <2> DEFINE O == s.open \ {exit}
             u1 == Now(s, 1, 0, s.open)
             u2 == Now(s, 1, 0, O)
             u == Now(s, 0, 0, O)
  <2>1. PICK v1 : Fitted(code \o <<i>>, arity, v1, u1) /\ Extends(v, v1)
    BY <1>7
  <2>2. /\ u1 = Now(s, 1, 0, s.open) /\ u2 = Now(s, 1, 0, O) /\ u = Now(s, 0, 0, O)
        /\ s.open \in SUBSET (Nat \ {0}) /\ O \in SUBSET (Nat \ {0}) /\ 0 \in Nat /\ 1 \in Nat
    BY <1>3 DEF State
  <2>3. u2 = Now(u1, 1, 0, O) /\ u = Now(u2, 0, 0, O)
    BY <1>3, NowNow
  <2> HIDE DEF u1, u2, u
  <2>4. /\ u1 \in State /\ Stays(s, u1) /\ u1.extra = 1 /\ u1.guard = 0 /\ u1.open = s.open
        /\ Full(u1) /\ HeightOf(u1) = Base(s) - s.missing + 1
    BY <1>3, <2>2, NowIs
  <2>5. /\ u2 \in State /\ Stays(s, u2) /\ u2.extra = 1 /\ u2.guard = 0 /\ u2.open = O
        /\ Full(u2)
    BY <1>3, <2>2, NowIs
  <2>6. /\ u \in State /\ Stays(s, u) /\ u.extra = 0 /\ u.guard = 0 /\ u.open = O
    BY <1>3, <2>2, NowIs
  <2>7. /\ looped \in ChunkSet /\ Recoded(Current, looped) /\ looped.arity = arity
        /\ Fitted(looped.code, arity, v1, u1)
    <3> HIDE DEF i
    <3>1. QED
      BY <1>3, <1>11, <2>1, EmittedMore
  <2> HIDE DEF looped, O, i
  <2>8. JumpsFrom(exit, HeightOf(u1), u1.guard, u1, v1)
    <3>1. JumpsFrom(exit, Base(s) + 1, 0, s, v)
      BY <1>4, <1>9 DEF ExitsFrom
    <3>2. exit \in u1.open /\ u1.loops = s.loops
      BY <3>1, <2>4 DEF JumpsFrom, Stays
    <3>3. JumpsFrom(exit, Base(s) + 1, 0, u1, v1)
      BY <3>1, <3>2, <2>1, JumpsExtend
    <3>4. HeightOf(u1) = Base(s) + 1
      BY <2>4, <1>4, <1>5
    <3>5. QED
      BY <3>3, <3>4, <2>4
  <2>9. PICK v2 : Fitted(PatchedAt(looped.code, exit), arity, v2, u2) /\ Extends(v1, v2)
    <3>1. \E x : /\ Fitted(PatchedAt(looped.code, exit), arity, x, Now(u1, u1.extra, u1.guard, u1.open \ {exit}))
                 /\ Extends(v1, x)
      BY <2>4, <2>7, <2>8, WritePatch
    <3>2. u1.open \ {exit} = O
      BY <2>4 DEF O
    <3>3. Now(u1, u1.extra, u1.guard, u1.open \ {exit}) = u2
      BY <3>2, <2>3, <2>4
    <3>4. QED
      BY <3>1, <3>3
  <2>10. /\ patched \in ChunkSet /\ Recoded(Current, patched) /\ patched.arity = arity
         /\ Fitted(patched.code, arity, v2, u2)
    <3>1. exit \in Unpatched(looped.code)
      BY <2>7, <2>8, WaitsToBePatched
    <3>2. Fitted(PatchedAt(looped.code, exit), looped.arity, v2, u2)
      BY <2>7, <2>9
    <3>3. QED
      BY <3>1, <3>2, <1>3, <2>7, PatchedMore
  <2> HIDE DEF patched
  <2>11. PICK v3 : Fitted(patched.code \o << <<"POP">> >>, arity, v3, u) /\ Extends(v2, v3)
    <3>1. Above(u2, 0) = u
      BY <2>3, <2>5 DEF Above
    <3>2. Shape(<<"POP">>, 1, -1) /\ 1 <= u2.extra /\ 0 = u2.extra + (-1)
      BY <2>5, Shapes
    <3>3. QED
      BY <3>1, <3>2, <2>5, <2>10, WriteShape
  <2>12. c \in ChunkSet /\ Recoded(Current, c) /\ Fitted(c.code, c.arity, v3, u)
    <3> DEFINE pop == << <<"POP">> >>
    <3>1. /\ Mild(pop, Len(Current.upvalues)) /\ Fitted(patched.code \o pop, patched.arity, v3, u)
          /\ c = Emit(patched, pop)
      BY <1>11, <2>10, <2>11
    <3> HIDE DEF pop, c
    <3>2. QED
      BY <3>1, <1>3, <2>10, EmittedMore
  <2>13. Continue(With(c), <<>>)
    BY <1>6, <1>9
  <2> HIDE DEF c
  <2>14. Weaker(u, t)
    BY <1>4, <2>6 DEF Weaker, O, Becomes, Keeps, Context, Stays
  <2>15. Extends(v, v3)
    BY <2>1, <2>9, <2>11, ExtendsTrans
  <2>16. Succeeds(With(c), c)
    BY <1>2, <2>12, RecodedSucceeds
  <2> HIDE DEF v
  <2>17. QED
    BY <1>2, <2>6, <2>12, <2>13, <2>14, <2>15, <2>16, WroteAll DEF v
<1>10. QED
  BY <1>8, <1>9

LEMMA ForIncrementCompiles ==
  ASSUME Compiles, ForIncrement
  PROVE  Compiles'
<1>1. Head(todo)[1] = "forIncrement"
  BY DEF ForIncrement, Doing
<1>2. PICK w, s, t : Standing(w, s, t)
  BY <1>1, HeadStands
<1> DEFINE v == w[Len(chunks)]
           d == Arg(1)
           start == Arg(2)
           exit == Arg(3)
           code == Current.code
           arity == Current.arity
           body == Len(code) + 1
           i == <<"JUMP", 0>>
           c == Emit(Current, <<i>>)
           x == <<"endLoop", start, exit>>
           y == <<"forBody", d, start, exit, body>>
<1>3. /\ s \in State /\ Full(s) /\ Fitted(code, arity, v, s)
      /\ Increments(d, start, exit, s, t, v)
  <2>1. Rule(Head(todo), s, t, v)
    BY <1>2, StandingFacts
  <2>2. Increments(d, start, exit, s, t, v)
    BY <1>1, <2>1, RuleOf DEF Arg
  <2>3. QED
    BY <1>2, <2>2, StandingFacts
<1>4. /\ AtDepth(d, s) /\ s.missing = 0 /\ s.guard = 0 /\ s.extra = 0 /\ Calm(s, 0)
      /\ StartsAt(start, s, v) /\ ExitsFrom(exit, s, v)
      /\ Becomes(s, t, 0, s.open \ {exit})
  BY <1>3 DEF Increments, Calm
<1>5. HeightOf(s) = Base(s) /\ Base(s) \in Nat
  <2>1. HeightOf(s) = Base(s) - s.missing + s.extra /\ Base(s) \in Nat
    BY <1>3, FullFacts
  <2>2. QED
    BY <2>1, <1>4
<1>6. x[1] = "endLoop" /\ x[2] = start /\ x[3] = exit
  OBVIOUS
<1>7. y[1] = "forBody" /\ y[2] = d /\ y[3] = start /\ y[4] = exit /\ y[5] = body
  OBVIOUS
<1>8. \/ Continue(chunks, <<Statement(d), x>>)
      \/ Continue(With(c), <<Expression(d), y>>)
  BY DEF ForIncrement, Here
<1> HIDE DEF x, y, v, d, start, exit
<1>9. CASE Continue(chunks, <<Statement(d), x>>)
  <2>1. start \in 1 .. Len(v.h) /\ v.h[start] = Base(s) /\ Entry(v.g, start) \in s.loops
    BY <1>4 DEF StartsAt, Entry
  <2>2. ClosesLoop(start, exit, s, t, v)
    BY <2>1, <1>3, <1>4 DEF ClosesLoop
  <2>3. Rule(x, s, t, v)
    BY <2>2, <1>6, RuleOf
  <2>4. Leading(<<x>>, s, t, v)
    BY <2>3, <1>3, <1>6, Entries
  <2>5. Leading(<<Statement(d), x>>, s, t, v)
    BY <2>4, <1>3, <1>4, LeadStatement, LeadTwo
  <2>6. QED
    BY <1>2, <1>9, <2>5, Planned DEF v
<1>10. CASE Continue(With(c), <<Expression(d), y>>)
  <2> DEFINE O == s.open \cup {body}
             u == Now(s, 0, start, O)
             m == Above(u, 1)
  <2>1. O \in SUBSET (Nat \ {0}) /\ body \notin s.open /\ body \in Nat \ {0} /\ start \in Nat
    BY <1>3, <1>4, FittedFacts DEF State, StartsAt
  <2>2. PICK v2 : /\ Fitted(code \o <<i>>, arity, v2, u)
                  /\ Extends(v, v2)
                  /\ JumpsFrom(body, HeightOf(s), s.guard, u, v2)
    <3>1. i \in { <<"JUMP_IF_FALSE", 0>>, <<"JUMP", 0>> } /\ i[1] # "JUMP_IF_FALSE" /\ 0 \in Nat
      OBVIOUS
    <3> HIDE DEF i
    <3>2. QED
      BY <1>3, <2>1, <3>1, WriteSkip
  <2>3. Succeeds(With(c), c) /\ Recoded(Current, c) /\ Fitted(c.code, c.arity, v2, u)
    <3>1. Mild(<<i>>, Len(Current.upvalues))
      BY MildCode
    <3> HIDE DEF i, u
    <3>2. QED
      BY <3>1, <1>2, <2>2, Emitted
  <2>4. u = Now(s, 0, start, O) /\ 0 \in Nat
    OBVIOUS
  <2>12. /\ Len(v2.h) = body + 1 /\ v2.h[body + 1] = HeightOf(u) /\ v2.g[body + 1] = u.guard
    <3>1. i \in Instruction
      BY DEF Instruction, WithOperand
    <3> HIDE DEF i
    <3>2. Len(code \o <<i>>) = body
      BY <3>1, <1>3, FittedFacts
    <3> HIDE DEF u, body
    <3>3. QED
      BY <2>2, <3>2, FittedFacts, ZenonT(30)
  <2> HIDE DEF u, O, c, i
  <2>5. /\ u \in State /\ Stays(s, u) /\ u.extra = 0 /\ u.guard = start /\ u.open = O
        /\ Full(u) /\ Base(u) = Base(s) /\ HeightOf(u) = Base(s) - s.missing + 0
    BY <1>3, <2>1, <2>4, NowIs
  <2>6. Above(u, 0) = u
    BY <2>5, AboveSelf
  <2>7. /\ m \in State /\ Stays(u, m) /\ m.extra = 1 /\ m.guard = start /\ m.open = O
        /\ Full(m) /\ Base(m) = Base(s) /\ Becomes(u, m, 1, u.open)
    BY <2>5, AboveFacts
  <2> HIDE DEF m
  <2>8. Leading(<<Expression(d)>>, u, m, v2)
    <3>1. Becomes(u, m, 0 + 1, u.open)
      BY <2>7
    <3>2. QED
      BY <3>1, <2>5, <2>6, LeadExpression
  <2>9. JumpsFrom(body, Base(m), 0, m, v2) /\ ExitsFrom(exit, m, v2) /\ StartsAt(start, m, v2)
        /\ body # exit
    <3>1. body \in O /\ m.loops = u.loops /\ u.loops = s.loops
      BY <2>5, <2>7 DEF O, Stays
    <3>2. JumpsFrom(body, Base(m), 0, m, v2)
      BY <3>1, <2>2, <2>7, <1>4, <1>5 DEF JumpsFrom
    <3>3. ExitsFrom(exit, m, v2)
      <4>1. SUFFICES ASSUME exit # 0
                     PROVE  JumpsFrom(exit, Base(m) + 1, 0, m, v2)
        BY DEF ExitsFrom
      <4>2. JumpsFrom(exit, Base(s) + 1, 0, s, v)
        BY <4>1, <1>4 DEF ExitsFrom
      <4>3. exit \in m.open
        BY <4>2, <2>7 DEF JumpsFrom, O
      <4>4. JumpsFrom(exit, Base(s) + 1, 0, m, v2)
        BY <4>2, <4>3, <3>1, <2>2, JumpsExtend
      <4>5. QED
        BY <4>4, <2>7
    <3>4. StartsAt(start, m, v2)
      BY <3>1, <2>2, <2>7, <1>4 DEF StartsAt, Extends
    <3>5. body # exit
      BY <2>1, <1>4 DEF ExitsFrom, JumpsFrom
    <3>6. QED
      BY <3>2, <3>3, <3>4, <3>5
  <2>10. /\ Context(m, t) /\ t.levels = m.levels /\ Initial(t.locals, m.locals) /\ Calm(t, 0)
         /\ t.open = m.open \ {exit, body}
    <3>1. O \ {exit, body} = s.open \ {exit}
      BY <2>1 DEF O
    <3>2. QED
      BY <3>1, <1>4, <2>5, <2>7 DEF Becomes, Keeps, Context, Stays, Calm
  <2>11. Leading(<<y>>, m, t, v2)
    <3>1. AtDepth(d, m) /\ m.missing = 0
      BY <1>4, <2>5, <2>7 DEF AtDepth, Stays
    <3>2. body + 1 \in 1 .. Len(v2.h) /\ v2.h[body + 1] = Base(m) /\ v2.g[body + 1] = start
      BY <2>1, <2>5, <2>7, <2>12, <1>4, <1>5
    <3>3. Bodies(d, start, exit, body, m, t, v2)
      BY <3>1, <3>2, <2>7, <2>9, <2>10 DEF Bodies
    <3>4. Rule(y, m, t, v2)
      BY <3>3, <1>7, RuleOf
    <3>5. QED
      BY <3>4, <2>7, <1>7, Entries
  <2>13. Leading(<<Expression(d), y>>, u, t, v2)
    BY <2>8, <2>11, LeadTwo
  <2>14. QED
    BY <1>2, <1>10, <2>2, <2>3, <2>5, <2>13, Wrote DEF v
<1>11. QED
  BY <1>8, <1>9, <1>10

LEMMA ForBodyCompiles ==
  ASSUME Compiles, ForBody
  PROVE  Compiles'
<1>1. Head(todo)[1] = "forBody"
  BY DEF ForBody, Doing
<1>2. PICK w, s, t : Standing(w, s, t)
  BY <1>1, HeadStands
<1> DEFINE v == w[Len(chunks)]
           d == Arg(1)
           start == Arg(2)
           exit == Arg(3)
           body == Arg(4)
           code == Current.code
           arity == Current.arity
           i == <<"POP">>
           j == <<"LOOP", start>>
           looped == Emit(Current, <<i, j>>)
           c == PatchJump(looped, body)
           x == <<"endLoop", body + 1, exit>>
           O == s.open \ {body}
           m == Above(s, 0)
           u1 == Now(s, 0, 0, s.open)
           u == Now(s, 0, 0, O)
<1>3. /\ s \in State /\ t \in State /\ Full(s) /\ Fitted(code, arity, v, s)
      /\ Bodies(d, start, exit, body, s, t, v)
      /\ Current \in ChunkSet /\ Recoded(Current, Current)
  <2>1. Rule(Head(todo), s, t, v)
    BY <1>2, StandingFacts
  <2>2. Bodies(d, start, exit, body, s, t, v)
    BY <1>1, <2>1, RuleOf DEF Arg
  <2>3. QED
    BY <1>2, <2>2, StandingFacts, RecodedSelf
<1>4. /\ AtDepth(d, s) /\ s.missing = 0 /\ s.extra = 1 /\ s.guard = start
      /\ StartsAt(start, s, v) /\ ExitsFrom(exit, s, v)
      /\ JumpsFrom(body, Base(s), 0, s, v) /\ body # exit
      /\ body + 1 \in 1 .. Len(v.h) /\ v.h[body + 1] = Base(s) /\ v.g[body + 1] = start
      /\ Context(s, t) /\ t.levels = s.levels /\ Initial(t.locals, s.locals) /\ Calm(t, 0)
      /\ t.open = s.open \ {exit, body}
  BY <1>3 DEF Bodies
<1>5. HeightOf(s) = Base(s) + 1 /\ Base(s) \in Nat
  <2>1. HeightOf(s) = Base(s) - s.missing + s.extra /\ Base(s) \in Nat
    BY <1>3, FullFacts
  <2>2. QED
    BY <2>1, <1>4
<1>6. x[1] = "endLoop" /\ x[2] = body + 1 /\ x[3] = exit
  OBVIOUS
<1>7. Continue(With(c), <<Statement(d), x>>)
  BY DEF ForBody
<1>8. /\ m = Above(s, 0) /\ u1 = Now(s, 0, 0, s.open) /\ u = Now(s, 0, 0, O)
      /\ s.open \in SUBSET (Nat \ {0}) /\ O \in SUBSET (Nat \ {0}) /\ 0 \in Nat
  BY <1>3 DEF State
<1>9. u = Now(u1, 0, 0, O) /\ u1 = Now(m, 0, 0, s.open)
  BY <1>3, NowNow DEF Above
<1>10. /\ j \in Instruction /\ i \in Instruction /\ Shape(i, 1, -1)
       /\ Mild(<<i, j>>, Len(Current.upvalues))
  <2>1. start \in Nat
    BY <1>4 DEF StartsAt
  <2>2. j \in Instruction /\ j[1] \notin Special
    BY <2>1 DEF Instruction, WithOperand, Special, Reads
  <2>3. Shape(i, 1, -1)
    BY Shapes
  <2> HIDE DEF i, j
  <2>4. QED
    BY <2>2, <2>3, MildTwo DEF Shape
<1>11. code \in Seq(Instruction)
  BY <1>3, FittedFacts
<1>12. (code \o <<i>>) \o <<j>> = code \o <<i, j>>
  BY <1>10, <1>11, JoinTwo
<1> HIDE DEF m, u1, u, O, x, v, d, exit, body
<1>13. /\ m \in State /\ Stays(s, m) /\ Full(m) /\ m.extra = 0 /\ m.guard = start
       /\ m.open = s.open
       /\ HeightOf(m) = Base(s)
  <2>1. /\ m \in State /\ Stays(s, m) /\ Full(m) /\ m.extra = 0 /\ m.guard = s.guard
        /\ m.open = s.open
        /\ HeightOf(m) = Base(s) - s.missing + 0
    BY <1>3, <1>8, AboveShape
  <2>2. QED
    BY <2>1, <1>4, <1>5
<1>14. /\ u1 \in State /\ Stays(s, u1) /\ u1.extra = 0 /\ u1.guard = 0 /\ u1.open = s.open
       /\ Full(u1) /\ HeightOf(u1) = Base(s) - s.missing + 0
  BY <1>3, <1>8, NowIs
<1>15. /\ u \in State /\ Stays(s, u) /\ u.extra = 0 /\ u.guard = 0 /\ u.open = O
       /\ Full(u) /\ Base(u) = Base(s)
  BY <1>3, <1>8, NowIs
<1>16. PICK v1 : Fitted(code \o <<i>>, arity, v1, m) /\ Extends(v, v1)
  <2>1. 1 <= s.extra /\ 0 = s.extra + (-1)
    BY <1>4
  <2> HIDE DEF i
  <2>2. QED
    BY <2>1, <1>3, <1>8, <1>10, WriteShape
<1>17. PICK v2 : Fitted((code \o <<i>>) \o <<j>>, arity, v2, u1) /\ Extends(v1, v2)
  <2>1. start \in 1 .. Len(v1.h) /\ v1.h[start] = HeightOf(m)
    BY <1>4, <1>13, <1>16 DEF StartsAt, Extends
  <2>2. IF m.guard # 0 THEN start = m.guard ELSE Entry(v1.g, start) \in m.loops
    BY <1>4, <1>13 DEF StartsAt
  <2> DEFINE more == code \o <<i>>
  <2> HIDE DEF more, start
  <2>3. \E v2 : Fitted(more \o << <<"LOOP", start>> >>, arity, v2, Now(m, 0, 0, m.open)) /\ Extends(v1, v2)
    <3>1. Fitted(more, arity, v1, m)
      BY <1>16 DEF more
    <3>2. QED
      BY <2>1, <2>2, <3>1, <1>8, <1>13, WriteLoop
  <2>4. Now(m, 0, 0, m.open) = u1
    BY <1>9, <1>13
  <2>5. QED
    BY <2>3, <2>4 DEF more
<1>18. /\ looped \in ChunkSet /\ Recoded(Current, looped) /\ looped.arity = arity
       /\ Fitted(looped.code, arity, v2, u1)
  <2>1. Fitted(code \o <<i, j>>, arity, v2, u1)
    BY <1>12, <1>17
  <2> HIDE DEF i, j, u1
  <2>2. QED
    BY <2>1, <1>3, <1>10, EmittedMore
<1> HIDE DEF looped, i, j, start
<1>19. JumpsFrom(body, HeightOf(u1), u1.guard, u1, v2) /\ Extends(v, v2)
  <2>1. Extends(v, v2)
    BY <1>16, <1>17, ExtendsTrans
  <2>2. body \in u1.open /\ u1.loops = s.loops
    BY <1>4, <1>14 DEF JumpsFrom, Stays
  <2>3. JumpsFrom(body, Base(s), 0, u1, v2)
    BY <2>1, <2>2, <1>4, JumpsExtend
  <2>4. HeightOf(u1) = Base(s)
    BY <1>4, <1>5, <1>14
  <2>5. QED
    BY <2>1, <2>3, <2>4, <1>14
<1>20. PICK v3 : Fitted(PatchedAt(looped.code, body), arity, v3, u) /\ Extends(v2, v3)
  <2>1. \E z : /\ Fitted(PatchedAt(looped.code, body), arity, z, Now(u1, u1.extra, u1.guard, u1.open \ {body}))
               /\ Extends(v2, z)
    BY <1>14, <1>18, <1>19, WritePatch
  <2>2. u1.open \ {body} = O
    BY <1>14 DEF O
  <2>3. Now(u1, u1.extra, u1.guard, u1.open \ {body}) = u
    BY <2>2, <1>9, <1>14
  <2>4. QED
    BY <2>1, <2>3
<1>21. c \in ChunkSet /\ Recoded(Current, c) /\ Fitted(c.code, c.arity, v3, u)
  <2>1. body \in Unpatched(looped.code)
    BY <1>18, <1>19, WaitsToBePatched
  <2>2. Fitted(PatchedAt(looped.code, body), looped.arity, v3, u)
    BY <1>18, <1>20
  <2>3. QED
    BY <2>1, <2>2, <1>3, <1>18, PatchedMore
<1> HIDE DEF c
<1>22. Extends(v, v3)
  BY <1>19, <1>20, ExtendsTrans
<1>23. AtDepth(d, u) /\ Calm(u, 0)
  BY <1>4, <1>15 DEF AtDepth, Calm, Stays
<1>24. Leading(<<x>>, u, t, v3)
  <2>1. ExitsFrom(exit, u, v3)
    <3>1. SUFFICES ASSUME exit # 0
                   PROVE  JumpsFrom(exit, Base(u) + 1, 0, u, v3)
      BY DEF ExitsFrom
    <3>2. JumpsFrom(exit, Base(s) + 1, 0, s, v)
      BY <3>1, <1>4 DEF ExitsFrom
    <3>3. exit \in u.open /\ u.loops = s.loops
      BY <3>2, <1>4, <1>15 DEF JumpsFrom, O, Stays
    <3>4. JumpsFrom(exit, Base(s) + 1, 0, u, v3)
      BY <3>2, <3>3, <1>22, JumpsExtend
    <3>5. QED
      BY <3>4, <1>15
  <2>2. /\ body + 1 \in 1 .. Len(v3.h) /\ v3.h[body + 1] = Base(u)
        /\ Entry(v3.g, body + 1) \in u.loops
    BY <1>4, <1>15, <1>22 DEF Extends, Entry, StartsAt, Stays
  <2>3. Becomes(u, t, 0, u.open \ {exit})
    <3>1. u.open \ {exit} = t.open
      BY <1>4, <1>15 DEF O
    <3>2. QED
      BY <3>1, <1>4, <1>15 DEF Becomes, Keeps, Context, Stays, Calm
  <2>4. ClosesLoop(body + 1, exit, u, t, v3)
    BY <2>1, <2>2, <2>3, <1>15, <1>23 DEF ClosesLoop
  <2>5. Rule(x, u, t, v3)
    BY <2>4, <1>6, RuleOf
  <2>6. QED
    BY <2>5, <1>6, <1>15, Entries
<1>25. Leading(<<Statement(d), x>>, u, t, v3)
  BY <1>15, <1>23, <1>24, LeadStatement, LeadTwo
<1>26. Succeeds(With(c), c)
  BY <1>2, <1>21, RecodedSucceeds
<1>27. QED
  BY <1>2, <1>7, <1>15, <1>21, <1>22, <1>25, <1>26, Wrote DEF v

-----------------------------------------------------------------------------
(* Scopes that begin and end.                                              *)

Rescoped(c, scope) == [c EXCEPT !.scope = scope]

LEMMA RescopedFacts ==
  ASSUME NEW c \in ChunkSet, NEW scope \in Levels
  PROVE  /\ Rescoped(c, scope) \in ChunkSet
         /\ Rescoped(c, scope).scope = scope
         /\ Rescoped(c, scope).code = c.code /\ Rescoped(c, scope).arity = c.arity
         /\ Rescoped(c, scope).hasSuperclass = c.hasSuperclass
         /\ Rescoped(c, scope).upvalues = c.upvalues
         /\ Adds(c, Rescoped(c, scope))
<1> DEFINE n == Rescoped(c, scope)
<1>1. /\ n \in ChunkSet /\ n.scope = scope /\ n.code = c.code /\ n.arity = c.arity
      /\ n.hasSuperclass = c.hasSuperclass
      /\ n.upvalues = c.upvalues /\ n.constants = c.constants
  BY DEF Rescoped, ChunkSet
<1> HIDE DEF n
<1>2. Adds(c, n)
  BY <1>1, AddsSelf DEF Adds
<1>3. QED
  BY <1>1, <1>2 DEF n

(* A level with n locals more or less than known is on top.                *)
Relevelled(s, locals, levels) == [s EXCEPT !.levels = levels, !.locals = locals]

LEMMA RelevelledFacts ==
  ASSUME NEW s \in State, NEW locals \in Seq(Nat), NEW levels \in Nat \ {0},
         NEW u, u = Relevelled(s, locals, levels)
  PROVE  /\ u \in State /\ u.levels = levels /\ u.locals = locals
         /\ u.chunk = s.chunk /\ u.missing = s.missing /\ u.extra = s.extra
         /\ u.guard = s.guard /\ u.open = s.open /\ u.loops = s.loops /\ u.super = s.super
         /\ u.reads = s.reads
BY DEF Relevelled, State

LEMMA AppendNat ==
  ASSUME NEW a \in Seq(Nat), NEW n \in Nat
  PROVE  LET b == Append(a, n)
         IN  /\ b \in Seq(Nat) /\ Len(b) = Len(a) + 1 /\ b[Len(a) + 1] = n
             /\ \A l \in 1 .. Len(a) : b[l] = a[l]
             /\ Initial(a, b)
<1>1. /\ Append(a, n) \in Seq(Nat) /\ Len(Append(a, n)) = Len(a) + 1
      /\ Append(a, n)[Len(a) + 1] = n
      /\ \A l \in 1 .. Len(a) : Append(a, n)[l] = a[l]
  BY AppendProperties
<1>2. Len(a) <= Len(a) + 1
  OBVIOUS
<1>3. QED
  BY <1>1, <1>2 DEF Initial

(* A new level begins, empty.                                              *)
LEMMA ScopeBegins ==
  ASSUME NEW c \in ChunkSet, NEW v, NEW s \in State, Full(s), Meets(c, v, s),
         s.missing = 0, NEW d, AtDepth(d, s)
  PROVE  LET n == Rescoped(c, PushScope(c.scope, d + 1))
             u == Relevelled(s, Append(s.locals, s.locals[s.levels]), s.levels + 1)
         IN  /\ n \in ChunkSet /\ Meets(n, v, u)
             /\ n.upvalues = c.upvalues /\ Adds(c, n)
             /\ u \in State /\ AtDepth(d + 1, u) /\ Full(u)
<1> DEFINE scope == PushScope(c.scope, d + 1)
           n == Rescoped(c, scope)
           L == Append(s.locals, s.locals[s.levels])
           u == Relevelled(s, L, s.levels + 1)
<1>1. /\ d \in Nat /\ s.levels = d + 1 /\ GoodScope(c.scope) /\ Len(c.scope) = d + 1
      /\ s.levels \in Nat \ {0} /\ s.locals \in Seq(Nat) /\ Len(s.locals) = d + 1
      /\ s.locals[s.levels] \in Nat /\ s.missing <= s.locals[s.levels]
      /\ \A l \in 1 .. d + 1 : s.locals[l] = Size(c.scope, l)
  BY FullFacts DEF AtDepth, Meets, GoodChunk, Full
<1>2. /\ GoodScope(scope) /\ Len(scope) = d + 2
      /\ \A l \in 0 .. d + 1 : Size(scope, l) = Size(c.scope, l)
      /\ Len(scope[d + 2]) = 0
  <2>1. d + 1 \in Nat /\ Len(c.scope) <= (d + 1) + 1 /\ (d + 1) + 1 = d + 2
        /\ d + 2 \in Len(c.scope) + 1 .. (d + 1) + 1
    BY <1>1
  <2>2. /\ GoodScope(scope) /\ Len(scope) = (d + 1) + 1
        /\ \A l \in 0 .. Len(c.scope) : Size(scope, l) = Size(c.scope, l)
        /\ \A l \in Len(c.scope) + 1 .. (d + 1) + 1 : Len(scope[l]) = 0
    BY <1>1, <2>1, PushedScope
  <2> HIDE DEF scope
  <2>3. QED
    BY <1>1, <2>1, <2>2
<1> HIDE DEF scope
<1>3. Size(scope, d + 2) = s.locals[s.levels]
  <2>1. scope \in Levels /\ d + 2 \in 1 .. Len(scope) /\ (d + 2) - 1 = d + 1
        /\ d + 1 \in 0 .. Len(scope)
    BY <1>1, <1>2 DEF GoodScope
  <2>2. Size(scope, d + 2) = Size(scope, d + 1) + Len(scope[d + 2]) /\ Size(scope, d + 1) \in Nat
    BY <2>1, SizeFacts
  <2>3. d + 1 \in 0 .. d + 1 /\ d + 1 \in 1 .. d + 1
    BY <1>1
  <2>4. Size(scope, d + 1) = s.locals[s.levels]
    BY <2>3, <1>1, <1>2
  <2>5. QED
    BY <2>2, <2>4, <1>2
<1>4. /\ L \in Seq(Nat) /\ Len(L) = d + 2 /\ L[d + 2] = s.locals[s.levels]
      /\ \A l \in 1 .. d + 1 : L[l] = s.locals[l]
  <2>1. /\ L \in Seq(Nat) /\ Len(L) = Len(s.locals) + 1 /\ L[Len(s.locals) + 1] = s.locals[s.levels]
        /\ \A l \in 1 .. Len(s.locals) : L[l] = s.locals[l]
    BY <1>1, AppendNat
  <2>2. Len(s.locals) + 1 = d + 2
    BY <1>1
  <2> HIDE DEF L
  <2>3. QED
    BY <1>1, <2>1, <2>2
<1>5. /\ u \in State /\ u.levels = d + 2 /\ u.locals = L
      /\ u.chunk = s.chunk /\ u.missing = s.missing /\ u.extra = s.extra
      /\ u.guard = s.guard /\ u.open = s.open /\ u.loops = s.loops /\ u.super = s.super
      /\ u.reads = s.reads
  <2>1. s.levels + 1 \in Nat \ {0} /\ s.levels + 1 = d + 2
    BY <1>1
  <2>2. u = Relevelled(s, L, s.levels + 1)
    OBVIOUS
  <2> HIDE DEF u, L
  <2>3. QED
    BY <2>1, <2>2, <1>4, RelevelledFacts
<1>6. /\ n \in ChunkSet /\ n.scope = scope /\ n.code = c.code /\ n.arity = c.arity
      /\ n.hasSuperclass = c.hasSuperclass /\ n.upvalues = c.upvalues /\ Adds(c, n)
  BY <1>2, RescopedFacts DEF GoodScope
<1> HIDE DEF u, n, L
<1>7. Full(u) /\ AtDepth(d + 1, u)
  BY <1>1, <1>4, <1>5 DEF Full, AtDepth
<1>8. Meets(n, v, u)
  <2>1. \A l \in 1 .. d + 2 : L[l] = Size(scope, l)
    <3>1. TAKE l \in 1 .. d + 2
    <3>2. CASE l = d + 2
      BY <3>2, <1>3, <1>4
    <3>3. CASE l # d + 2
      <4>1. l \in 1 .. d + 1 /\ l \in 0 .. d + 1
        BY <3>3, <1>1
      <4>2. QED
        BY <4>1, <1>1, <1>2, <1>4
    <3>4. QED
      BY <3>2, <3>3
  <2>2. Size(scope, u.levels) = Size(c.scope, s.levels)
    <3>1. s.levels \in 1 .. d + 1
      BY <1>1
    <3>2. QED
      BY <3>1, <1>1, <1>3, <1>5
  <2>3. Placed(c.code, c.arity, v, 1 + Size(c.scope, s.levels) - s.missing + s.extra,
               s.guard, s.open, s.loops)
    BY DEF Meets
  <2>4. u.missing = 1 => LastIsMissing(n.scope)
    BY <1>5
  <2>5. QED
    BY <2>1, <2>2, <2>3, <2>4, <1>1, <1>2, <1>4, <1>5, <1>6 DEF Meets, GoodChunk
<1>9. QED
  BY <1>5, <1>6, <1>7, <1>8 DEF u, n, L, scope

(* A block or the initializer of a `for' in a scope of its own: u is the   *)
(* state in which it begins, m the one in which it ends.                   *)
LEMMA ScopeStarts ==
  ASSUME NEW w, NEW s, NEW t, Standing(w, s, t), NEW d, AtDepth(d, s), Calm(s, 0),
         Becomes(s, t, 0, s.open)
  PROVE  \E u \in State, m \in State :
           /\ AtDepth(d + 1, u) /\ Calm(u, 0) /\ Becomes(u, m, 0, u.open)
           /\ AtDepth(d + 1, m) /\ Calm(m, 0) /\ Len(m.locals) < u.levels
           /\ \A v : Leading(<< <<"endScope", d + 1>> >>, m, t, v)
           /\ \A items : /\ Continue(StartScope(d + 1), items)
                         /\ Leading(items, u, t, w[Len(chunks)])
                         => Compiles'
<1> DEFINE v == w[Len(chunks)]
           c == Rescoped(Current, PushScope(Current.scope, d + 1))
           u == Relevelled(s, Append(s.locals, s.locals[s.levels]), s.levels + 1)
           m == Relevelled(s, s.locals, s.levels + 1)
           x == <<"endScope", d + 1>>
<1>1. /\ s \in State /\ t \in State /\ Full(s) /\ Meets(Current, v, s) /\ Current \in ChunkSet
      /\ d \in Nat /\ s.levels = d + 1 /\ s.missing = 0 /\ s.extra = 0 /\ s.guard = 0
      /\ \A b \in ChunkSet : b.upvalues = Current.upvalues => Succeeds(With(b), b)
  BY StandingFacts DEF AtDepth, Calm
<1>2. /\ c \in ChunkSet /\ Meets(c, v, u) /\ u \in State /\ AtDepth(d + 1, u) /\ Full(u)
      /\ c.upvalues = Current.upvalues /\ Adds(Current, c)
  <2> HIDE DEF v
  <2>1. QED
    BY <1>1, ScopeBegins
<1>3. /\ s.locals \in Seq(Nat) /\ Len(s.locals) = d + 1 /\ s.locals[s.levels] \in Nat
      /\ s.levels + 1 \in Nat \ {0} /\ s.levels + 1 = d + 2
  BY <1>1, FullFacts
<1>4. /\ Append(s.locals, s.locals[s.levels]) \in Seq(Nat)
      /\ Initial(s.locals, Append(s.locals, s.locals[s.levels]))
  BY <1>3, AppendNat
<1>5. /\ u = Relevelled(s, Append(s.locals, s.locals[s.levels]), s.levels + 1)
      /\ m = Relevelled(s, s.locals, s.levels + 1)
  OBVIOUS
<1>7. StartScope(d + 1) = With(c)
  BY <1>1 DEF StartScope, Rescoped, ChunkSet
<1>8. x[1] = "endScope" /\ x[2] = d + 1
  OBVIOUS
<1> HIDE DEF u, m, c, x, v
<1> DEFINE L == Append(s.locals, s.locals[s.levels])
<1> HIDE DEF L
<1>9. /\ u.levels = d + 2 /\ u.locals = L
      /\ u.chunk = s.chunk /\ u.missing = 0 /\ u.extra = 0
      /\ u.guard = 0 /\ u.open = s.open /\ u.loops = s.loops /\ u.super = s.super
      /\ u.reads = s.reads
  <2>1. L \in Seq(Nat) /\ u = Relevelled(s, L, s.levels + 1) /\ s \in State
        /\ s.levels + 1 \in Nat \ {0}
    BY <1>1, <1>3, <1>4, <1>5 DEF L
  <2>2. /\ u.levels = s.levels + 1 /\ u.locals = L
        /\ u.chunk = s.chunk /\ u.missing = s.missing /\ u.extra = s.extra
        /\ u.guard = s.guard /\ u.open = s.open /\ u.loops = s.loops /\ u.super = s.super
        /\ u.reads = s.reads
    BY <2>1, RelevelledFacts
  <2>3. QED
    BY <2>2, <1>1, <1>3
<1>10. /\ m \in State /\ m.levels = d + 2 /\ m.locals = s.locals
       /\ m.chunk = s.chunk /\ m.missing = 0 /\ m.extra = 0
       /\ m.guard = 0 /\ m.open = s.open /\ m.loops = s.loops /\ m.super = s.super
       /\ m.reads = s.reads
  BY <1>1, <1>3, <1>5, RelevelledFacts, SMTT(30)
<1>11. Becomes(u, m, 0, u.open)
  BY <1>4, <1>9, <1>10 DEF Becomes, Keeps, Context, L
<1>12. AtDepth(d + 1, m) /\ Calm(m, 0) /\ Calm(u, 0) /\ Len(m.locals) < u.levels
  BY <1>1, <1>3, <1>9, <1>10 DEF AtDepth, Calm
<1>13. ASSUME NEW z
       PROVE  Leading(<<x>>, m, t, z)
  <2>1. Len(t.locals) <= d + 1
    BY <1>3 DEF Becomes, Keeps, Initial
  <2>2. EndsScope(d + 1, m, t)
    BY <2>1, <1>1, <1>10, <1>12 DEF EndsScope, Becomes, Keeps, Context, Calm
  <2>3. Rule(x, m, t, z)
    BY <2>2, <1>8, RuleOf
  <2>4. QED
    BY <2>3, <1>8, <1>10, Entries
<1>14. ASSUME NEW items, Continue(StartScope(d + 1), items), Leading(items, u, t, v)
       PROVE  Compiles'
  <2>1. Extends(v, v)
    BY DEF Extends
  <2>2. Continue(With(c), items) /\ Succeeds(With(c), c)
    BY <1>1, <1>2, <1>7, <1>14
  <2>3. QED
    BY <2>1, <2>2, <1>2, <1>9, <1>14, Continued DEF v
<1>15. QED
  BY <1>2, <1>10, <1>11, <1>12, <1>13, <1>14 DEF x, v

LEMMA BlockStatementCompiles ==
  ASSUME Compiles, BlockStatement
  PROVE  Compiles'
<1>1. Head(todo)[1] \in {"declaration", "statement"}
  BY DEF BlockStatement, AtStatement, Doing
<1>2. PICK w, s, t : Standing(w, s, t)
  BY <1>1, HeadStands
<1> DEFINE v == w[Len(chunks)]
           d == Arg(1)
           x == <<"endScope", d + 1>>
           y == Block(d + 1)
<1>3. Calm(s, 0) /\ AtDepth(d, s) /\ Becomes(s, t, 0, s.open)
  BY <1>1, <1>2, AtWork DEF Calm, AtDepth
<1>4. PICK u \in State, m \in State :
        /\ AtDepth(d + 1, u) /\ Calm(u, 0) /\ Becomes(u, m, 0, u.open)
        /\ AtDepth(d + 1, m) /\ Calm(m, 0) /\ Len(m.locals) < u.levels
        /\ Leading(<<x>>, m, t, v)
        /\ Continue(StartScope(d + 1), <<y, x>>) /\ Leading(<<y, x>>, u, t, v) => Compiles'
  BY <1>2, <1>3, ScopeStarts
<1>5. Continue(StartScope(d + 1), <<y, x>>)
  BY DEF BlockStatement
<1>6. y[1] = "block" /\ y[2] = d + 1
  BY DEF Block
<1> HIDE DEF x, y, v, d
<1>7. Leading(<<y>>, u, m, v)
  <2>1. Rule(y, u, m, v)
    BY <1>4, <1>6, RuleOf DEF Declares
  <2>2. QED
    BY <2>1, <1>4, <1>6, Entries
<1>8. Leading(<<y, x>>, u, t, v)
  BY <1>4, <1>7, LeadTwo
<1>9. QED
  BY <1>4, <1>5, <1>8

LEMMA ForStatementCompiles ==
  ASSUME Compiles, ForStatement
  PROVE  Compiles'
<1>1. Head(todo)[1] \in {"declaration", "statement"}
  BY DEF ForStatement, AtStatement, Doing
<1>2. PICK w, s, t : Standing(w, s, t)
  BY <1>1, HeadStands
<1> DEFINE v == w[Len(chunks)]
           d == Arg(1)
           x == <<"endScope", d + 1>>
           y == <<"forCondition", d + 1>>
           a == <<"variable", d + 1>>
           b == <<"expressionStatement", d + 1>>
<1>3. Calm(s, 0) /\ AtDepth(d, s) /\ Becomes(s, t, 0, s.open)
  BY <1>1, <1>2, AtWork DEF Calm, AtDepth
<1>4. PICK u \in State, m \in State :
        /\ AtDepth(d + 1, u) /\ Calm(u, 0) /\ Becomes(u, m, 0, u.open)
        /\ AtDepth(d + 1, m) /\ Calm(m, 0) /\ Len(m.locals) < u.levels
        /\ Leading(<<x>>, m, t, v)
        /\ \A items : Continue(StartScope(d + 1), items) /\ Leading(items, u, t, v) => Compiles'
  BY <1>2, <1>3, ScopeStarts
<1>5. PICK first \in {<<>>, <<a>>, <<b>>} : Continue(StartScope(d + 1), first \o <<y, x>>)
  BY DEF ForStatement
<1>6. /\ y[1] = "forCondition" /\ y[2] = d + 1 /\ a[1] = "variable" /\ a[2] = d + 1
      /\ b[1] = "expressionStatement" /\ b[2] = d + 1
  OBVIOUS
<1> HIDE DEF x, y, a, b, v, d
<1>7. Becomes(m, m, 0, m.open)
  BY <1>4, BecomesItself DEF Calm
<1>8. Leading(<<y>>, u, m, v) /\ Leading(<<y>>, m, m, v)
  <2>1. Rule(y, u, m, v) /\ Rule(y, m, m, v)
    BY <1>4, <1>6, <1>7, RuleOf DEF Executes
  <2>2. QED
    BY <2>1, <1>4, <1>6, Entries
<1>9. Leading(<<y, x>>, u, t, v) /\ Leading(<<y, x>>, m, t, v)
  BY <1>4, <1>8, LeadTwo
<1>10. Leading(first \o <<y, x>>, u, t, v)
  <2>1. CASE first = <<>>
    <3>1. Leading(<<>>, u, u, v)
      BY <1>4, LeadNone
    <3>2. QED
      BY <2>1, <3>1, <1>9, LeadJoin
  <2>2. CASE first = <<a>>
    <3>1. Rule(a, u, m, v)
      BY <1>4, <1>6, RuleOf DEF Declares
    <3>2. Leading(<<a>>, u, m, v)
      BY <3>1, <1>4, <1>6, Entries
    <3>3. QED
      BY <2>2, <3>2, <1>9, LeadJoin
  <2>3. CASE first = <<b>>
    <3>1. Rule(b, u, m, v)
      BY <1>4, <1>6, RuleOf DEF Executes
    <3>2. Leading(<<b>>, u, m, v)
      BY <3>1, <1>4, <1>6, Entries
    <3>3. QED
      BY <2>3, <3>2, <1>9, LeadJoin
  <2>4. QED
    BY <1>5, <2>1, <2>2, <2>3
<1>11. QED
  BY <1>4, <1>5, <1>10

(* endScope takes the locals of the last level off the stack.              *)
LEMMA ScopeEnds ==
  ASSUME NEW c, NEW v, NEW s \in State, Full(s), Meets(c, v, s),
         NEW d, d # 0, AtDepth(d, s), Calm(s, 0),
         NEW t \in State, Context(s, t), t.levels = d, Calm(t, 0), t.open = s.open,
         Initial(t.locals, s.locals), Len(t.locals) <= d
  PROVE  /\ \E v2 : Meets(EndScope(c, d), v2, t) /\ Extends(v, v2)
         /\ EndScope(c, d).upvalues = c.upvalues /\ Adds(c, EndScope(c, d))
<1> DEFINE locals == Reverse(c.scope[d + 1])
           more == [i \in 1 .. Len(locals) |->
                      IF locals[i].isCaptured THEN <<"CLOSE_UPVALUE">> ELSE <<"POP">>]
           scope == PopScope(c.scope)
           n == Rescoped(Emit(c, more), scope)
           size == Len(c.scope[d + 1])
           below == Size(c.scope, d)
<1>1. /\ d \in Nat /\ s.levels = d + 1 /\ c \in ChunkSet /\ GoodScope(c.scope)
      /\ Len(c.scope) = d + 1 /\ c.scope \in Levels
      /\ s.missing = 0 /\ s.extra = 0 /\ s.guard = 0
      /\ t.missing = 0 /\ t.extra = 0 /\ t.guard = 0
  BY DEF AtDepth, Calm, Meets, GoodChunk, GoodScope
<1>2. /\ c.scope[d + 1] \in Seq(LocalVariable) /\ size \in Nat
  BY <1>1, LevelFacts
<1>3. /\ more \in Seq({<<"POP">>, <<"CLOSE_UPVALUE">>}) /\ Len(more) = size
      /\ Mild(more, Len(c.upvalues))
  <2>1. Len(locals) = size
    BY <1>2 DEF Reverse
  <2> HIDE DEF locals, size
  <2>2. more \in Seq({<<"POP">>, <<"CLOSE_UPVALUE">>}) /\ Len(more) = size
    BY <2>1, <1>2
  <2>3. \A i \in {<<"POP">>, <<"CLOSE_UPVALUE">>} :
          i \in Instruction /\ Harmless(i, Len(c.upvalues))
    BY DEF Instruction, Bare, Harmless, Reads
  <2> HIDE DEF more
  <2>4. Mild(more, Len(c.upvalues))
    <3>1. more \in Seq(Instruction)
      BY <2>2, <2>3, SeqMonotonic
    <3>2. QED
      BY <2>2, <2>3, <3>1 DEF Mild
  <2>5. QED
    BY <2>2, <2>4
<1>4. /\ below \in Nat /\ Size(c.scope, d + 1) = below + size
  <2>1. d + 1 \in 1 .. Len(c.scope) /\ (d + 1) - 1 = d /\ d \in 0 .. Len(c.scope)
    BY <1>1
  <2>2. QED
    BY <2>1, <1>1, SizeFacts
<1>5. /\ GoodScope(scope) /\ Len(scope) = d
      /\ \A l \in 0 .. d : Size(scope, l) = Size(c.scope, l)
  <2>1. Len(c.scope) > 1 /\ Len(c.scope) - 1 = d
    BY <1>1
  <2>2. /\ GoodScope(scope) /\ Len(scope) = Len(c.scope) - 1
        /\ \A l \in 0 .. Len(c.scope) - 1 : Size(scope, l) = Size(c.scope, l)
    BY <1>1, <2>1, PoppedScope
  <2> HIDE DEF scope
  <2>3. QED
    BY <2>1, <2>2
<1>6. EndScope(c, d) = n
  BY DEF EndScope, Rescoped, Emit
<1> HIDE DEF more, locals, scope, size, below
<1>7. Placed(c.code, c.arity, v, 1 + below + size, 0, s.open, s.loops)
  <2>1. Placed(c.code, c.arity, v, 1 + Size(c.scope, s.levels) - s.missing + s.extra,
               s.guard, s.open, s.loops)
    BY DEF Meets
  <2>2. 1 + Size(c.scope, s.levels) - s.missing + s.extra = 1 + below + size
    BY <1>1, <1>2, <1>4
  <2>3. QED
    BY <2>1, <2>2, <1>1
<1>8. PICK v2 : /\ Placed(c.code \o more, c.arity, v2, (1 + below + size) - Len(more), 0, s.open, s.loops)
                /\ Longer(c.code, v, c.code \o more, v2)
  <2>1. Len(more) < 1 + below + size
    BY <1>2, <1>3, <1>4
  <2>2. QED
    BY <2>1, <1>3, <1>7, EmitPops
<1>9. (1 + below + size) - Len(more) = 1 + below
  BY <1>2, <1>3, <1>4
<1>10. Extends(v, v2)
  <2>1. Len(v.h) = Len(c.code) + 1 /\ Len(c.code) \in Nat
    BY <1>7 DEF Placed, Layout, Sized
  <2>2. Len(v2.h) = Len(c.code \o more) + 1 /\ Len(c.code \o more) \in Nat
    BY <1>8 DEF Placed, Layout, Sized
  <2>3. QED
    BY <2>1, <2>2, <1>8 DEF Longer, Extends
<1>12. /\ n \in ChunkSet /\ n.scope = scope /\ n.code = c.code \o more /\ n.arity = c.arity
       /\ n.hasSuperclass = c.hasSuperclass /\ n.upvalues = c.upvalues /\ Adds(c, n)
  <2> DEFINE b == Emit(c, more)
  <2>1. /\ b \in ChunkSet /\ b.code = c.code \o more
        /\ b.arity = c.arity /\ Recoded(c, b)
    BY <1>1, <1>3, EmitFacts
  <2> HIDE DEF b
  <2>2. /\ Rescoped(b, scope) \in ChunkSet
        /\ Rescoped(b, scope).scope = scope
        /\ Rescoped(b, scope).code = b.code /\ Rescoped(b, scope).arity = b.arity
        /\ Rescoped(b, scope).hasSuperclass = b.hasSuperclass
        /\ Rescoped(b, scope).upvalues = b.upvalues
        /\ Adds(b, Rescoped(b, scope))
    BY <2>1, <1>5, RescopedFacts DEF GoodScope
  <2>3. n = Rescoped(b, scope)
    BY DEF b
  <2> HIDE DEF n
  <2>4. Adds(c, n)
    BY <2>1, <2>2, <2>3, <1>1, AddsTrans DEF Recoded, Rewritten
  <2>5. QED
    BY <2>1, <2>2, <2>3, <2>4 DEF Recoded, Rewritten
<1> HIDE DEF n
<1>13. Meets(n, v2, t)
  <2>1. \A l \in 1 .. Len(t.locals) : t.locals[l] = Size(scope, l)
    <3>1. TAKE l \in 1 .. Len(t.locals)
    <3>2. Len(t.locals) \in Nat /\ Len(s.locals) \in Nat /\ Len(t.locals) <= Len(s.locals)
      BY SMTT(30) DEF State, Initial
    <3>3. l \in 1 .. Len(s.locals) /\ l \in 0 .. d
      BY <3>2, <1>1
    <3>4. QED
      BY <3>3, <1>5 DEF Initial, Meets
  <2>2. 1 + Size(scope, t.levels) - t.missing + t.extra = 1 + below
    <3>1. d \in 0 .. d
      BY <1>1
    <3>2. Size(scope, t.levels) = below
      BY <3>1, <1>5 DEF below
    <3>3. QED
      BY <3>2, <1>1, <1>4
  <2>3. Placed(n.code, n.arity, v2, 1 + below, t.guard, t.open, t.loops)
    BY <1>1, <1>8, <1>9, <1>12 DEF Placed, Context
  <2>4. (t.super => n.hasSuperclass) /\ t.reads \subseteq 0 .. Len(n.upvalues) - 1
    BY <1>12 DEF Context, Meets
  <2>5. QED
    BY <2>1, <2>2, <2>3, <2>4, <1>1, <1>5, <1>12 DEF Meets, GoodChunk
<1>14. QED
  BY <1>6, <1>10, <1>12, <1>13

LEMMA EndOfScopeCompiles ==
  ASSUME Compiles, EndOfScope
  PROVE  Compiles'
<1>1. Head(todo)[1] = "endScope"
  BY DEF EndOfScope, Doing
<1>2. PICK w, s, t : Standing(w, s, t)
  BY <1>1, HeadStands
<1> DEFINE v == w[Len(chunks)]
           d == Arg(1)
           c == EndScope(Current, d)
<1>3. /\ s \in State /\ t \in State /\ Full(s) /\ Meets(Current, v, s)
      /\ EndsScope(d, s, t)
      /\ \A b \in ChunkSet : b.upvalues = Current.upvalues => Succeeds(With(b), b)
  <2>1. Rule(Head(todo), s, t, v)
    BY <1>2, StandingFacts
  <2>2. EndsScope(d, s, t)
    BY <1>1, <2>1, RuleOf DEF Arg
  <2>3. QED
    BY <1>2, <2>2, StandingFacts
<1>4. Continue(With(c), <<>>)
  BY DEF EndOfScope
<1> HIDE DEF v, d
<1>5. PICK v2 : Meets(c, v2, t) /\ Extends(v, v2)
  BY <1>3, ScopeEnds DEF EndsScope
<1>9. c.upvalues = Current.upvalues /\ Adds(Current, c)
  BY <1>3, ScopeEnds DEF EndsScope
<1> HIDE DEF c
<1>6. Succeeds(With(c), c)
  BY <1>3, <1>5, <1>9 DEF Meets, GoodChunk
<1>7. Leading(<<>>, t, t, v2) /\ t.chunk = s.chunk
  BY <1>3, LeadNone DEF EndsScope, Context
<1>8. QED
  BY <1>2, <1>4, <1>5, <1>6, <1>7, <1>9, Continued DEF v

-----------------------------------------------------------------------------
(* Instructions with a constant.                                           *)

ConstantShape(op, operands, takes, net) ==
  \A c \in Nat :
    LET i == <<op, c>> \o operands
    IN  Shape(i, takes, net) /\ Falls(i)

LEMMA ConstantShapes ==
  /\ ConstantShape("CONSTANT", <<>>, 0, 1) /\ ConstantShape("CLASS", <<>>, 0, 1)
  /\ ConstantShape("DEFINE_GLOBAL", <<>>, 1, -1)
  /\ ConstantShape("METHOD", <<>>, 2, -1) /\ ConstantShape("GET_SUPER", <<>>, 2, -1)
  /\ ConstantShape("SET_PROPERTY", <<>>, 2, -1) /\ ConstantShape("GET_PROPERTY", <<>>, 1, 0)
  /\ \A n \in Nat : /\ ConstantShape("INVOKE", <<n>>, n + 1, -n)
                    /\ ConstantShape("SUPER_INVOKE", <<n>>, n + 2, -(n + 1))
<1>1. ASSUME NEW op \in WithOperand, ~ Jumps(<<op>>), ~ Slotted(<<op>>), op # "CALL",
             op \notin Special,
             NEW takes, NEW net, takes = Takes(<<op>>), net = Leaves(<<op>>) - Takes(<<op>>)
      PROVE  ConstantShape(op, <<>>, takes, net)
  <2>1. ASSUME NEW c \in Nat
        PROVE  LET i == <<op, c>> \o <<>>
               IN  Shape(i, takes, net) /\ Falls(i)
    <3>1. <<op, c>> \o <<>> = <<op, c>>
      <4>1. <<op, c>> \in Seq({op, c})
        OBVIOUS
      <4>2. QED
        BY <4>1, ConcatEmptySeq
    <3> DEFINE i == <<op, c>>
               j == <<op>>
    <3>2. i[1] = op /\ i \in WithOperand \X Nat /\ j[1] = op
      OBVIOUS
    <3> HIDE DEF i, j
    <3>3. i \in Instruction /\ ~ Jumps(i) /\ ~ Slotted(i) /\ Falls(i) /\ i[1] \notin Special
      BY <3>2, <1>1 DEF Instruction, Jumps, Slotted, Falls, WithOperand, j
    <3>4. Takes(i) = Takes(j) /\ Leaves(i) = Leaves(j)
      BY <3>2, <1>1 DEF Takes, Leaves, WithOperand
    <3>5. Shape(i, takes, net)
      BY <3>3, <3>4, <1>1 DEF Shape, Net, j
    <3>6. QED
      BY <3>1, <3>3, <3>5 DEF i
  <2>2. QED
    BY <2>1 DEF ConstantShape
<1>2. \A op \in {"CONSTANT", "CLASS", "DEFINE_GLOBAL", "METHOD", "GET_SUPER",
                 "SET_PROPERTY", "GET_PROPERTY"} :
        /\ op \in WithOperand /\ ~ Jumps(<<op>>) /\ ~ Slotted(<<op>>) /\ op # "CALL"
        /\ op \notin Special
  BY DEF WithOperand, Jumps, Slotted, Special, Reads
<1>3. /\ Takes(<<"CONSTANT">>) = 0 /\ Leaves(<<"CONSTANT">>) = 1
      /\ Takes(<<"CLASS">>) = 0 /\ Leaves(<<"CLASS">>) = 1
      /\ Takes(<<"DEFINE_GLOBAL">>) = 1 /\ Leaves(<<"DEFINE_GLOBAL">>) = 0
      /\ Takes(<<"METHOD">>) = 2 /\ Leaves(<<"METHOD">>) = 1
      /\ Takes(<<"GET_SUPER">>) = 2 /\ Leaves(<<"GET_SUPER">>) = 1
      /\ Takes(<<"SET_PROPERTY">>) = 2 /\ Leaves(<<"SET_PROPERTY">>) = 1
      /\ Takes(<<"GET_PROPERTY">>) = 1 /\ Leaves(<<"GET_PROPERTY">>) = 1
  BY DEF Takes, Leaves
<1>4. ConstantShape("CONSTANT", <<>>, 0, 1) /\ ConstantShape("CLASS", <<>>, 0, 1)
  BY <1>1, <1>2, <1>3
<1>5. ConstantShape("DEFINE_GLOBAL", <<>>, 1, -1) /\ ConstantShape("GET_PROPERTY", <<>>, 1, 0)
  BY <1>1, <1>2, <1>3
<1>6. ConstantShape("METHOD", <<>>, 2, -1) /\ ConstantShape("GET_SUPER", <<>>, 2, -1)
      /\ ConstantShape("SET_PROPERTY", <<>>, 2, -1)
  BY <1>1, <1>2, <1>3
<1>7. ASSUME NEW n \in Nat
      PROVE  /\ ConstantShape("INVOKE", <<n>>, n + 1, -n)
             /\ ConstantShape("SUPER_INVOKE", <<n>>, n + 2, -(n + 1))
  <2>1. ASSUME NEW op \in WithTwo, NEW c \in Nat
        PROVE  LET i == <<op, c>> \o <<n>>
               IN  /\ i \in Instruction /\ ~ Jumps(i) /\ ~ Slotted(i) /\ Falls(i)
                   /\ i[1] \notin Special /\ Takes(i) = (IF op = "INVOKE" THEN n + 1 ELSE n + 2) /\ Leaves(i) = 1
    <3>1. <<op, c>> \o <<n>> = <<op, c, n>>
      BY Triple
    <3> DEFINE i == <<op, c, n>>
    <3>2. i[1] = op /\ i[3] = n /\ i \in WithTwo \X Nat \X Nat
      OBVIOUS
    <3> HIDE DEF i
    <3>3. /\ i \in Instruction /\ ~ Jumps(i) /\ ~ Slotted(i) /\ Falls(i) /\ Leaves(i) = 1
          /\ i[1] \notin Special
      BY <3>2 DEF Instruction, Jumps, Slotted, Special, Reads, Falls, Leaves, WithTwo
    <3>4. Takes(i) = (IF op = "INVOKE" THEN n + 1 ELSE n + 2)
      BY <3>2 DEF Takes, WithTwo
    <3>5. QED
      BY <3>1, <3>3, <3>4 DEF i
  <2>2. "INVOKE" \in WithTwo /\ "SUPER_INVOKE" \in WithTwo
    BY DEF WithTwo
  <2>3. 1 - (n + 1) = -n /\ 1 - (n + 2) = -(n + 1)
    OBVIOUS
  <2>4. QED
    BY <2>1, <2>2, <2>3 DEF ConstantShape, Shape, Net
<1>8. QED
  BY <1>4, <1>5, <1>6, <1>7

LEMMA LeadConstantShape ==
  ASSUME NEW s \in State, Full(s), NEW e \in Nat,
         NEW op, NEW value \in Constant, NEW operands, NEW takes \in Nat, NEW net \in Int,
         ConstantShape(op, operands, takes, net), takes <= e,
         NEW t, Becomes(s, t, e + net, s.open), NEW v
  PROVE  Leading(<<ThenConstant(op, value, operands)>>, Above(s, e), t, v)
<1>1. takes < Base(s) - s.missing + e
  BY FullFacts
<1> DEFINE f == e + net
<1>2. \A c \in Nat :
        LET i == <<op, c>> \o operands
        IN  /\ i \in Instruction /\ ~ Jumps(i) /\ Falls(i) /\ ~ Slotted(i)
            /\ i[1] \notin Special /\ Takes(i) = takes /\ e + Net(i) = f
  BY DEF ConstantShape, Shape
<1>3. Becomes(s, t, f, s.open)
  OBVIOUS
<1> HIDE DEF f
<1>4. QED
  BY <1>1, <1>2, <1>3, LeadConstant

(* A constant is added and an instruction written that names it.           *)
Written(n, v, u) == \E v2 : Fitted(n.code, n.arity, v2, u) /\ Extends(v, v2)

LEMMA ConstantWritten ==
  ASSUME NEW b \in ChunkSet, NEW c \in ChunkSet, Recoded(b, c),
         NEW v, NEW s \in State, Full(s), Fitted(c.code, c.arity, v, s),
         NEW op, NEW value \in Constant, NEW operands, NEW takes \in Nat, NEW net \in Int,
         ConstantShape(op, operands, takes, net), takes <= s.extra,
         NEW e \in Nat, e = s.extra + net,
         NEW n, n = EmitConstant(c, op, value, operands)
  PROVE  /\ n \in ChunkSet /\ Recoded(b, n) /\ n.arity = c.arity
         /\ Written(n, v, Above(s, e))
<1> DEFINE a == AddConstant(c, value)
           k == ConstantIndex(c.constants, value)
           i == <<op, k>> \o operands
<1>1. /\ a \in ChunkSet /\ Recoded(c, a) /\ a.code = c.code /\ k \in Nat
  BY ConstantFacts
<1>2. Recoded(b, a) /\ a.arity = c.arity
  BY <1>1, RecodedTrans DEF Recoded, Rewritten
<1>3. Shape(i, takes, net) /\ Mild(<<i>>, Len(b.upvalues))
  <2>1. Shape(i, takes, net)
    BY <1>1 DEF ConstantShape
  <2> HIDE DEF i
  <2>2. QED
    BY <2>1, MildOne DEF Shape
<1>4. n = Emit(a, <<i>>)
  BY DEF EmitConstant
<1> HIDE DEF i, a
<1>5. PICK v2 : Fitted(c.code \o <<i>>, c.arity, v2, Above(s, e)) /\ Extends(v, v2)
  BY <1>3, WriteShape
<1>6. Fitted(a.code \o <<i>>, a.arity, v2, Above(s, e))
  BY <1>1, <1>2, <1>5
<1> DEFINE more == <<i>>
           u == Above(s, e)
<1>7. /\ n = Emit(a, more) /\ Fitted(a.code \o more, a.arity, v2, u)
      /\ Mild(more, Len(b.upvalues))
  BY <1>3, <1>4, <1>6
<1> HIDE DEF more, u
<1>8. /\ n \in ChunkSet /\ Recoded(b, n) /\ n.arity = a.arity
      /\ Fitted(n.code, n.arity, v2, u)
  <2>1. LET m == Emit(a, more)
        IN  /\ m \in ChunkSet /\ Recoded(b, m) /\ m.arity = a.arity
            /\ m.code = a.code \o more
            /\ Fitted(m.code, m.arity, v2, u)
    BY <1>1, <1>2, <1>7, EmittedMore, Zenon
  <2>2. QED
    BY <1>7, <2>1
<1>9. QED
  BY <1>2, <1>5, <1>8 DEF Written, u

=============================================================================
