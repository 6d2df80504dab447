--------------------------- MODULE BytecodeProofs ---------------------------
(***************************************************************************)
(* What Heights computes, for code of any length.                          *)
(*                                                                         *)
(* The two passes of Heights follow the jumps through a whole function.    *)
(* The compiler emits one instruction at a time and patches jumps, so an   *)
(* invariant of the compiler cannot speak of the passes.  It speaks of a   *)
(* layout of the code instead: a height for every place, reachable or not, *)
(* the set of places that are reached without jumping back, and a guard    *)
(* for the increments of `for' loops, which are only jumped back to.  A    *)
(* layout is a matter of each instruction and its successors, and it is    *)
(* easily kept when an instruction is appended or a jump is patched.       *)
(*                                                                         *)
(* Here: a layout stays one under both, and code that has a layout is      *)
(* Balanced, and reads and writes slots that exist.                        *)
(***************************************************************************)
EXTENDS Bytecode, SequenceTheorems, WellFoundedInduction, TLAPS

-----------------------------------------------------------------------------
(* Induction over data.                                                    *)

(* A nonempty set of natural numbers has a least element.                  *)
LEMMA LeastNat ==
  ASSUME NEW T, T \subseteq Nat, T # {}
  PROVE  \E x \in T : \A y \in T : x <= y
<1> DEFINE R == OpToRel(<, Nat)
<1>1. PICK x \in T : \A y \in T : ~ (<<y, x>> \in R)
  <2> HIDE DEF R
  <2>1. IsWellFoundedOn(R, Nat)
    BY NatLessThanWellFounded DEF R
  <2>2. QED
    BY <2>1, WFMin
<1>2. \A y \in T : x <= y
  <2>1. TAKE y \in T
  <2>2. x \in Nat /\ y \in Nat
    OBVIOUS
  <2>3. y < x => <<y, x>> \in R
    BY <2>2 DEF OpToRel
  <2>4. ~ (y < x)
    BY <1>1, <2>3, Zenon
  <2>5. QED
    BY <2>2, <2>4
<1>3. QED
  BY <1>2

(* Min, a CHOOSE, finds it.                                                *)
LEMMA MinIsLeast ==
  ASSUME NEW T, T \subseteq Nat, T # {}
  PROVE  Min(T) \in T /\ \A y \in T : Min(T) <= y
BY LeastNat DEF Min

(* Induction in a form the provers can use: the property is a set.         *)
LEMMA SetInduction ==
  ASSUME NEW S, 0 \in S, \A n \in Nat : n \in S => n + 1 \in S
  PROVE  \A n \in Nat : n \in S
<1>1. SUFFICES ASSUME Nat \ S # {}
               PROVE  FALSE
  OBVIOUS
<1>2. PICK x \in Nat \ S : \A y \in Nat \ S : x <= y
  BY <1>1, LeastNat
<1>3. x - 1 \in Nat
  BY <1>2
<1>4. x - 1 \in S
  BY <1>2, <1>3
<1>5. QED
  BY <1>2, <1>3, <1>4

-----------------------------------------------------------------------------
(* Instructions.                                                           *)

Bare == {"NIL", "POP", "PRINT", "CLOSE_UPVALUE", "RETURN", "NEGATE", "INHERIT",
         "ADD", "MULTIPLY", "LESS", "EQUAL"}
WithOperand ==
  {"CONSTANT", "CLASS", "CLOSURE", "DEFINE_GLOBAL", "METHOD", "GET_SUPER",
   "GET_LOCAL", "SET_LOCAL", "GET_UPVALUE", "SET_UPVALUE", "GET_GLOBAL",
   "SET_GLOBAL", "GET_PROPERTY", "SET_PROPERTY", "CALL",
   "JUMP", "JUMP_IF_FALSE", "LOOP"}
WithTwo == {"INVOKE", "SUPER_INVOKE"}

Instruction == {<<op>> : op \in Bare} \cup (WithOperand \X Nat)
                 \cup (WithTwo \X Nat \X Nat)

Skips(i) == i[1] \in {"JUMP", "JUMP_IF_FALSE"}
Slotted(i) == i[1] \in {"GET_LOCAL", "SET_LOCAL"}

Net(i) == Leaves(i) - Takes(i)

LEMMA InstructionFacts ==
  ASSUME NEW i \in Instruction
  PROVE  /\ Takes(i) \in Nat
         /\ Leaves(i) \in {0, 1}
         /\ Jumps(i) => i \in WithOperand \X Nat /\ i[2] \in Nat
         /\ Slotted(i) => i[2] \in Nat
         /\ Skips(i) => Jumps(i) /\ i[1] # "LOOP"
         /\ i[1] = "LOOP" => Jumps(i) /\ ~ Falls(i)
         /\ Jumps(i) => Skips(i) \/ i[1] = "LOOP"
<1>1. CASE i \in {<<op>> : op \in Bare}
  <2>1. PICK op \in Bare : i = <<op>>
    BY <1>1
  <2>2. i[1] = op
    BY <2>1
  <2>3. QED
    BY <2>2 DEF Bare, Takes, Leaves, Jumps, Skips, Slotted, Falls
<1>2. CASE i \in WithOperand \X Nat
  <2>1. i[1] \in WithOperand /\ i[2] \in Nat
    BY <1>2
  <2>2. QED
    BY <2>1, <1>2 DEF WithOperand, Takes, Leaves, Jumps, Skips, Slotted, Falls
<1>3. CASE i \in WithTwo \X Nat \X Nat
  <2>1. i[1] \in WithTwo /\ i[3] \in Nat
    BY <1>3
  <2>2. QED
    BY <2>1 DEF WithTwo, Takes, Leaves, Jumps, Skips, Slotted, Falls
<1>4. QED
  BY <1>1, <1>2, <1>3 DEF Instruction

-----------------------------------------------------------------------------
(* Layouts: heights h, the places r reached going forward, guards g.       *)

Sized(code, h, r, g) ==
  /\ h \in Seq(Nat \ {0}) /\ Len(h) = Len(code) + 1
  /\ g \in Seq(Nat) /\ Len(g) = Len(code) + 1
  /\ r \subseteq 1 .. Len(code) + 1

Starts(arity, h, r, g) == h[1] = arity + 1 /\ 1 \in r /\ g[1] = 0

(* Operands are above slot zero, and variables below the top.              *)
HasOperands(code, h) ==
  \A p \in 1 .. Len(code) :
    /\ Takes(code[p]) < h[p]
    /\ Slotted(code[p]) => code[p][2] < h[p]

(* Every way to a place brings the stack there at the same height.         *)
SameHeights(code, h) ==
  \A p \in 1 .. Len(code) : \A q \in Successors(code, p) :
    q \in 1 .. Len(code) + 1 /\ h[q] = h[p] + Net(code[p])

(* Only a LOOP jumps back.                                                 *)
Directed(code) ==
  \A p \in 1 .. Len(code) :
    /\ Skips(code[p]) => code[p][2] = 0 \/ code[p][2] > p
    /\ code[p][1] = "LOOP" => code[p][2] \in 1 .. p

ReachedForward(code, r) ==
  \A p \in 1 .. Len(code) + 1 :
    p \in r <=> p = 1 \/ \E q \in 1 .. p - 1 : q \in r /\ p \in Successors(code, q)

(* Going forward, control neither enters nor leaves an increment.          *)
GuardsKept(code, g) ==
  \A p \in 1 .. Len(code) : \A q \in Successors(code, p) : q > p => g[q] = g[p]

(* What must be reached going forward for the place t to be reached.       *)
Entry(g, t) == IF g[t] # 0 THEN g[t] ELSE t

(* An increment loops to its guard.  Any other loop is only reached after  *)
(* the entry of the place it jumps to.                                     *)
LoopsEntered(code, r, g) ==
  \A p \in 1 .. Len(code) :
    code[p][1] = "LOOP" =>
      IF g[p] # 0 THEN code[p][2] = g[p]
      ELSE p \in r => Entry(g, code[p][2]) \in r

Layout(code, arity, h, r, g) ==
  /\ code \in Seq(Instruction) /\ arity \in Nat
  /\ Sized(code, h, r, g)
  /\ Starts(arity, h, r, g)
  /\ HasOperands(code, h)
  /\ SameHeights(code, h)
  /\ Directed(code)
  /\ ReachedForward(code, r)
  /\ GuardsKept(code, g)
  /\ LoopsEntered(code, r, g)

-----------------------------------------------------------------------------
(* Appending an instruction.  A place nothing falls through to may be      *)
(* given any height e and any guard x.                                     *)

Fits(i, h, r, g, top, e, x) ==
  /\ Takes(i) < h[top]
  /\ Slotted(i) => i[2] < h[top]
  /\ Falls(i) => e = h[top] + Net(i) /\ x = g[top]
  /\ Skips(i) => i[2] = 0
  /\ i[1] = "LOOP" =>
       /\ i[2] \in 1 .. top
       /\ h[i[2]] = h[top]
       /\ IF g[top] # 0 THEN i[2] = g[top]
          ELSE top \in r => Entry(g, i[2]) \in r

ReachedAfter(i, r, top) ==
  r \cup {p \in {top + 1} : Falls(i) /\ top \in r}

LEMMA ReachedAfterFacts ==
  ASSUME NEW i, NEW n \in Nat, NEW r, r \subseteq 1 .. n + 1
  PROVE  /\ ReachedAfter(i, r, n + 1) \subseteq 1 .. n + 2
         /\ \A p \in 1 .. n + 1 : p \in ReachedAfter(i, r, n + 1) <=> p \in r
         /\ n + 2 \in ReachedAfter(i, r, n + 1) <=> (Falls(i) /\ n + 1 \in r)
<1>1. ASSUME NEW p
      PROVE  p \in ReachedAfter(i, r, n + 1) <=>
               (p \in r \/ (p = n + 2 /\ Falls(i) /\ n + 1 \in r))
  BY DEF ReachedAfter
<1>2. ReachedAfter(i, r, n + 1) \subseteq 1 .. n + 2
  <2>1. SUFFICES ASSUME NEW p \in ReachedAfter(i, r, n + 1)
                 PROVE  p \in 1 .. n + 2
    OBVIOUS
  <2>2. p \in r \/ p = n + 2
    BY <1>1, <2>1
  <2>3. p \in r => p \in 1 .. n + 1
    OBVIOUS
  <2>4. QED
    BY <2>2, <2>3
<1>3. \A p \in 1 .. n + 1 : p \in ReachedAfter(i, r, n + 1) <=> p \in r
  <2>1. TAKE p \in 1 .. n + 1
  <2>2. p # n + 2
    OBVIOUS
  <2>3. QED
    BY <1>1, <2>2, Zenon
<1>4. n + 2 \in ReachedAfter(i, r, n + 1) <=> (Falls(i) /\ n + 1 \in r)
  <2>1. n + 2 \notin r
    OBVIOUS
  <2>2. QED
    BY <1>1, <2>1, Zenon
<1>5. QED
  BY <1>2, <1>3, <1>4

LEMMA AppendKeepsLayout ==
  ASSUME NEW code, NEW arity, NEW h, NEW r, NEW g,
         Layout(code, arity, h, r, g),
         NEW i \in Instruction, NEW e \in Nat \ {0}, NEW x \in Nat,
         Fits(i, h, r, g, Len(code) + 1, e, x)
  PROVE  Layout(Append(code, i), arity, Append(h, e),
                ReachedAfter(i, r, Len(code) + 1), Append(g, x))
<1> DEFINE n    == Len(code)
           top  == n + 1
           new  == Append(code, i)
           hh   == Append(h, e)
           gg   == Append(g, x)
           rr   == ReachedAfter(i, r, top)
<1>1. /\ n \in Nat
      /\ new \in Seq(Instruction) /\ Len(new) = top
      /\ \A p \in 1 .. n : new[p] = code[p]
      /\ new[top] = i
  BY AppendProperties DEF Layout
<1>2. /\ hh \in Seq(Nat \ {0}) /\ Len(hh) = top + 1
      /\ \A p \in 1 .. top : hh[p] = h[p]
      /\ hh[top + 1] = e
  BY <1>1, AppendProperties DEF Layout, Sized
<1>3. /\ gg \in Seq(Nat) /\ Len(gg) = top + 1
      /\ \A p \in 1 .. top : gg[p] = g[p]
      /\ gg[top + 1] = x
  BY <1>1, AppendProperties DEF Layout, Sized
<1>4. /\ r \subseteq 1 .. top
      /\ rr \subseteq 1 .. top + 1
      /\ \A p \in 1 .. top : p \in rr <=> p \in r
      /\ top + 1 \in rr <=> (Falls(i) /\ top \in r)
  <2>1. r \subseteq 1 .. top
    BY DEF Layout, Sized
  <2>2. top + 1 = n + 2
    BY <1>1
  <2>3. QED
    BY <1>1, <2>1, <2>2, ReachedAfterFacts
<1>5. /\ \A p \in 1 .. n : Successors(new, p) = Successors(code, p)
      /\ Successors(new, top) = (IF Falls(i) THEN {top + 1} ELSE {}) \cup
                                (IF Jumps(i) THEN {i[2]} \ {0} ELSE {})
  BY <1>1 DEF Successors
<1>6. \A p \in 1 .. top : h[p] \in Nat \ {0} /\ g[p] \in Nat
  BY <1>1 DEF Layout, Sized
<1>7. \A q \in Successors(new, top) :
        \/ Falls(i) /\ q = top + 1
        \/ i[1] = "LOOP" /\ ~ Falls(i) /\ q = i[2]
  BY <1>5, InstructionFacts DEF Fits
<1>8. \A p \in 1 .. n : \A q \in Successors(code, p) : q \in 1 .. top
  BY DEF Layout, SameHeights
<1> HIDE DEF new, hh, gg, rr
<1>10. Sized(new, hh, rr, gg)
  BY <1>1, <1>2, <1>3, <1>4 DEF Sized
<1>11. Starts(arity, hh, rr, gg)
  BY <1>1, <1>2, <1>3, <1>4 DEF Starts, Layout
<1>12. HasOperands(new, hh)
  <2>1. SUFFICES ASSUME NEW p \in 1 .. top
                 PROVE  /\ Takes(new[p]) < hh[p]
                        /\ Slotted(new[p]) => new[p][2] < hh[p]
    BY <1>1 DEF HasOperands
  <2>2. CASE p \in 1 .. n
    <3>1. new[p] = code[p] /\ hh[p] = h[p]
      BY <2>2, <1>1, <1>2
    <3>2. QED
      BY <3>1, <2>2 DEF HasOperands, Layout
  <2>3. CASE p = top
    <3>1. new[p] = i /\ hh[p] = h[p]
      BY <2>3, <1>1, <1>2
    <3>2. QED
      BY <3>1, <2>3 DEF Fits
  <2>4. QED
    BY <2>2, <2>3, <1>1
<1>13. SameHeights(new, hh)
  <2>1. SUFFICES ASSUME NEW p \in 1 .. top, NEW q \in Successors(new, p)
                 PROVE  q \in 1 .. top + 1 /\ hh[q] = hh[p] + Net(new[p])
    BY <1>1 DEF SameHeights
  <2>2. CASE p \in 1 .. n
    <3>1. q \in Successors(code, p) /\ q \in 1 .. top
      BY <2>2, <1>5, <1>8
    <3>2. h[q] = h[p] + Net(code[p])
      BY <3>1, <2>2 DEF Layout, SameHeights
    <3>3. new[p] = code[p] /\ hh[p] = h[p] /\ hh[q] = h[q]
      BY <3>1, <2>2, <1>1, <1>2
    <3>4. QED
      BY <3>1, <3>2, <3>3, <1>1
  <2>3. CASE p = top
    <3>1. CASE Falls(i) /\ q = top + 1
      BY <3>1, <2>3, <1>1, <1>2 DEF Fits
    <3>2. CASE i[1] = "LOOP" /\ q = i[2]
      <4>1. Net(i) = 0
        BY <3>2 DEF Net, Takes, Leaves
      <4>2. q \in 1 .. top /\ h[q] = h[top]
        BY <3>2 DEF Fits
      <4>3. QED
        BY <4>1, <4>2, <2>3, <1>1, <1>2, <1>6
    <3>3. QED
      BY <3>1, <3>2, <2>3, <1>7
  <2>4. QED
    BY <2>2, <2>3, <1>1
<1>14. Directed(new)
  BY <1>1 DEF Directed, Layout, Fits
<1>15. ReachedForward(new, rr)
  <2>1. SUFFICES ASSUME NEW p \in 1 .. top + 1
                 PROVE  p \in rr <=>
                          p = 1 \/ \E q \in 1 .. p - 1 : q \in rr /\ p \in Successors(new, q)
    BY <1>1 DEF ReachedForward
  <2>2. CASE p \in 1 .. top
    <3>1. p \in r <=> p = 1 \/ \E q \in 1 .. p - 1 : q \in r /\ p \in Successors(code, q)
      BY <2>2 DEF Layout, ReachedForward
    <3>2. \A q \in 1 .. p - 1 :
            (q \in rr /\ p \in Successors(new, q)) <=> (q \in r /\ p \in Successors(code, q))
      BY <2>2, <1>1, <1>4, <1>5
    <3>3. QED
      BY <3>1, <3>2, <2>2, <1>4
  <2>3. CASE p = top + 1
    <3>1. \A q \in 1 .. n : p \notin Successors(new, q)
      BY <2>3, <1>1, <1>5, <1>8
    <3>2. p \in Successors(new, top) <=> Falls(i)
      <4>1. i[1] = "LOOP" => i[2] # top + 1
        BY <1>1 DEF Fits
      <4>2. QED
        BY <2>3, <1>1, <1>5, <1>7, <4>1
    <3>3. QED
      BY <3>1, <3>2, <2>3, <1>1, <1>4
  <2>4. QED
    BY <2>2, <2>3, <1>1
<1>16. GuardsKept(new, gg)
  <2>1. SUFFICES ASSUME NEW p \in 1 .. top, NEW q \in Successors(new, p), q > p
                 PROVE  gg[q] = gg[p]
    BY <1>1 DEF GuardsKept
  <2>2. CASE p \in 1 .. n
    BY <2>1, <2>2, <1>1, <1>3, <1>5, <1>8 DEF Layout, GuardsKept
  <2>3. CASE p = top
    BY <2>1, <2>3, <1>1, <1>3, <1>7 DEF Fits
  <2>4. QED
    BY <2>2, <2>3, <1>1
<1>17. LoopsEntered(new, rr, gg)
  <2>1. SUFFICES ASSUME NEW p \in 1 .. top, new[p][1] = "LOOP"
                 PROVE  IF gg[p] # 0 THEN new[p][2] = gg[p]
                        ELSE p \in rr => Entry(gg, new[p][2]) \in rr
    BY <1>1 DEF LoopsEntered
  <2>2. new[p][2] \in 1 .. p
    BY <2>1, <1>14, <1>1 DEF Directed
  <2>3. Entry(gg, new[p][2]) = Entry(g, new[p][2])
    BY <2>2, <1>1, <1>3 DEF Entry
  <2>4. \A y : y \in r => y \in rr
    BY <1>4, <1>1
  <2>5. IF g[p] # 0 THEN new[p][2] = g[p]
        ELSE p \in r => Entry(g, new[p][2]) \in r
    <3>1. CASE p \in 1 .. n
      BY <3>1, <2>1, <1>1 DEF Layout, LoopsEntered
    <3>2. CASE p = top
      BY <3>2, <2>1, <1>1 DEF Fits
    <3>3. QED
      BY <3>1, <3>2, <1>1
  <2>6. QED
    BY <2>3, <2>4, <2>5, <1>1, <1>3, <1>4
<1>18. QED
  BY <1>1, <1>10, <1>11, <1>12, <1>13, <1>14, <1>15, <1>16, <1>17
  DEF Layout, new, hh, gg, rr

-----------------------------------------------------------------------------
(* Patching a jump: the place behind the code becomes its successor.       *)

ReachedAlso(r, at, top) == r \cup {p \in {top} : at \in r}

LEMMA ReachedAlsoFacts ==
  ASSUME NEW n \in Nat, NEW at \in 1 .. n, NEW r, r \subseteq 1 .. n + 1
  PROVE  /\ ReachedAlso(r, at, n + 1) \subseteq 1 .. n + 1
         /\ \A p \in 1 .. n : p \in ReachedAlso(r, at, n + 1) <=> p \in r
         /\ n + 1 \in ReachedAlso(r, at, n + 1) <=> (n + 1 \in r \/ at \in r)
<1>1. ASSUME NEW p
      PROVE  p \in ReachedAlso(r, at, n + 1) <=>
               (p \in r \/ (p = n + 1 /\ at \in r))
  BY DEF ReachedAlso
<1>2. ReachedAlso(r, at, n + 1) \subseteq 1 .. n + 1
  <2>1. SUFFICES ASSUME NEW p \in ReachedAlso(r, at, n + 1)
                 PROVE  p \in 1 .. n + 1
    OBVIOUS
  <2>2. p \in r \/ p = n + 1
    BY <1>1, <2>1
  <2>3. p \in r => p \in 1 .. n + 1
    OBVIOUS
  <2>4. QED
    BY <2>2, <2>3
<1>3. \A p \in 1 .. n : p # n + 1
  OBVIOUS
<1>4. QED
  BY <1>1, <1>2, <1>3

LEMMA PatchKeepsLayout ==
  ASSUME NEW code, NEW arity, NEW h, NEW r, NEW g,
         Layout(code, arity, h, r, g),
         NEW at \in 1 .. Len(code), Skips(code[at]), code[at][2] = 0,
         h[Len(code) + 1] = h[at] + Net(code[at]),
         g[Len(code) + 1] = g[at]
  PROVE  Layout([code EXCEPT ![at][2] = Len(code) + 1], arity, h,
                ReachedAlso(r, at, Len(code) + 1), g)
<1> DEFINE n   == Len(code)
           top == n + 1
           old == code[at]
           i   == [old EXCEPT ![2] = top]
           new == [code EXCEPT ![at] = i]
           rr  == ReachedAlso(r, at, top)
<1>1. n \in Nat /\ code \in Seq(Instruction) /\ old \in Instruction
  BY DEF Layout
<1>2. i \in Instruction /\ i[1] = old[1] /\ i[2] = top
  <2>1. old \in WithOperand \X Nat
    BY <1>1, InstructionFacts
  <2>2. i = <<old[1], top>>
    BY <2>1
  <2>3. QED
    BY <2>1, <2>2, <1>1 DEF Instruction
<1>3. /\ new \in Seq(Instruction) /\ Len(new) = n
      /\ \A p \in 1 .. n : new[p] = IF p = at THEN i ELSE code[p]
  BY <1>1, <1>2, ExceptSeq
<1>4. Skips(i) /\ Jumps(i) /\ ~ Slotted(i) /\ Takes(i) = Takes(old) /\ Net(i) = Net(old)
      /\ (Falls(i) <=> Falls(old)) /\ i[1] # "LOOP" /\ Jumps(old)
  BY <1>1, <1>2 DEF Skips, Jumps, Slotted, Takes, Leaves, Net, Falls
<1>5. /\ \A p \in 1 .. n : p # at => Successors(new, p) = Successors(code, p)
      /\ Successors(new, at) = Successors(code, at) \cup {top}
  <2>1. \A p \in 1 .. n : p # at => Successors(new, p) = Successors(code, p)
    BY <1>3 DEF Successors
  <2>2. Successors(new, at) = (IF Falls(old) THEN {at + 1} ELSE {}) \cup {top}
    BY <1>1, <1>2, <1>3, <1>4 DEF Successors
  <2>3. Successors(code, at) = IF Falls(old) THEN {at + 1} ELSE {}
    BY <1>4 DEF Successors
  <2>4. QED
    BY <2>1, <2>2, <2>3
<1>6. /\ r \subseteq 1 .. top
      /\ rr \subseteq 1 .. top
      /\ \A p \in 1 .. n : p \in rr <=> p \in r
      /\ top \in rr <=> (top \in r \/ at \in r)
  BY <1>1, ReachedAlsoFacts DEF Layout, Sized
<1> HIDE DEF new, rr, i
<1>7. \A p \in 1 .. n : Takes(new[p]) = Takes(code[p]) /\ Net(new[p]) = Net(code[p])
  BY <1>3, <1>4
<1>10. Sized(new, h, rr, g)
  BY <1>3, <1>6 DEF Sized, Layout
<1>11. Starts(arity, h, rr, g)
  BY <1>6, <1>1 DEF Starts, Layout
<1>12. HasOperands(new, h)
  <2>1. \A p \in 1 .. n : Slotted(new[p]) => p # at /\ new[p] = code[p]
    BY <1>3, <1>4
  <2>2. QED
    BY <2>1, <1>3, <1>7 DEF HasOperands, Layout
<1>13. SameHeights(new, h)
  <2>1. SUFFICES ASSUME NEW p \in 1 .. n, NEW q \in Successors(new, p)
                 PROVE  q \in 1 .. top /\ h[q] = h[p] + Net(new[p])
    BY <1>3 DEF SameHeights
  <2>2. CASE q \in Successors(code, p)
    BY <2>2, <1>7 DEF Layout, SameHeights
  <2>3. CASE p = at /\ q = top
    BY <2>3, <1>7, <1>1
  <2>4. QED
    BY <2>2, <2>3, <1>5
<1>14. Directed(new)
  <2>1. SUFFICES ASSUME NEW p \in 1 .. n
                 PROVE  /\ Skips(new[p]) => new[p][2] = 0 \/ new[p][2] > p
                        /\ new[p][1] = "LOOP" => new[p][2] \in 1 .. p
    BY <1>3 DEF Directed
  <2>2. CASE p = at
    BY <2>2, <1>1, <1>2, <1>3, <1>4
  <2>3. CASE p # at
    BY <2>3, <1>3 DEF Layout, Directed
  <2>4. QED
    BY <2>2, <2>3
<1>15. ReachedForward(new, rr)
  <2>1. SUFFICES ASSUME NEW p \in 1 .. top
                 PROVE  p \in rr <=>
                          p = 1 \/ \E q \in 1 .. p - 1 : q \in rr /\ p \in Successors(new, q)
    BY <1>3 DEF ReachedForward
  <2>2. p \in r <=> p = 1 \/ \E q \in 1 .. p - 1 : q \in r /\ p \in Successors(code, q)
    BY DEF Layout, ReachedForward
  <2>3. \A q \in 1 .. p - 1 : q \in 1 .. n /\ (q \in rr <=> q \in r)
    BY <1>1, <1>6
  <2>4. CASE p \in 1 .. n
    <3>1. \A q \in 1 .. p - 1 : p \in Successors(new, q) <=> p \in Successors(code, q)
      BY <2>3, <2>4, <1>5, <1>1
    <3>2. QED
      BY <2>2, <2>3, <2>4, <3>1, <1>6
  <2>5. CASE p = top
    <3>1. \A q \in 1 .. p - 1 : p \in Successors(new, q) <=>
                                  p \in Successors(code, q) \/ q = at
      BY <2>3, <2>5, <1>5
    <3>2. at \in 1 .. p - 1
      BY <2>5, <1>1
    <3>3. QED
      BY <2>2, <2>3, <2>5, <3>1, <3>2, <1>6
  <2>6. QED
    BY <2>4, <2>5, <1>1
<1>16. GuardsKept(new, g)
  BY <1>3, <1>5, <1>1 DEF Layout, GuardsKept
<1>17. LoopsEntered(new, rr, g)
  <2>1. SUFFICES ASSUME NEW p \in 1 .. n, new[p][1] = "LOOP"
                 PROVE  IF g[p] # 0 THEN new[p][2] = g[p]
                        ELSE p \in rr => Entry(g, new[p][2]) \in rr
    BY <1>3 DEF LoopsEntered
  <2>2. p # at /\ new[p] = code[p]
    BY <2>1, <1>3, <1>4
  <2>3. \A y : y \in r => y \in rr
    BY DEF rr, ReachedAlso
  <2>4. QED
    BY <2>1, <2>2, <2>3, <1>6 DEF Layout, LoopsEntered
<1>18. QED
  BY <1>1, <1>3, <1>10, <1>11, <1>12, <1>13, <1>14, <1>15, <1>16, <1>17
  DEF Layout, new, rr, i

-----------------------------------------------------------------------------
(* One pass.                                                               *)

(* The height that the pass uses for q when it comes to p.                 *)
Seen(heights, known, p, q) == IF q < p THEN heights[q] ELSE known[q]

From(code, heights, known, p) ==
  {q \in 1 .. Len(code) :
     p \in Successors(code, q) /\ Seen(heights, known, p, q) # Unreachable}

(* What the pass makes of the place p.                                     *)
Settled(code, arity, known, heights, p) ==
  IF p = 1 THEN heights[p] = arity + 1
  ELSE \/ From(code, heights, known, p) = {} /\ heights[p] = Unreachable
       \/ \E q \in From(code, heights, known, p) :
            heights[p] = Seen(heights, known, p, q) + Net(code[q])

SettledUpTo(code, arity, known, heights, n) ==
  /\ heights \in Seq(Int) /\ Len(heights) = n
  /\ \A p \in 1 .. n : Settled(code, arity, known, heights, p)

LEMMA HeightAtSettles ==
  ASSUME NEW code \in Seq(Instruction), NEW arity \in Nat,
         NEW known \in Seq(Int), Len(known) = Len(code) + 1,
         NEW n \in 0 .. Len(code), NEW before,
         SettledUpTo(code, arity, known, before, n)
  PROVE  SettledUpTo(code, arity, known,
           Append(before,
             HeightAt(code, arity,
                      before \o SubSeq(known, n + 1, Len(known)), n + 1)), n + 1)
<1> DEFINE top    == Len(code) + 1
           p      == n + 1
           height == before \o SubSeq(known, p, top)
           e      == HeightAt(code, arity, height, p)
           after  == Append(before, e)
           from   == {q \in 1 .. Len(code) :
                        p \in Successors(code, q) /\ height[q] # Unreachable}
<1>1. n \in Nat /\ Len(code) \in Nat /\ before \in Seq(Int) /\ Len(before) = n
  BY DEF SettledUpTo
<1>2. \A q \in 1 .. top : height[q] = Seen(before, known, p, q)
  <2> DEFINE rest == SubSeq(known, p, top)
  <2>1. /\ rest \in Seq(Int)
        /\ Len(rest) = top - n
        /\ \A i \in 1 .. top - n : rest[i] = known[n + i]
    BY <1>1, SubSeqProperties
  <2> HIDE DEF rest
  <2>2. /\ Len(before \o rest) = top
        /\ \A i \in 1 .. top : (before \o rest)[i] = IF i <= n THEN before[i]
                                                       ELSE rest[i - n]
    <3>1. n + (top - n) = top
      BY <1>1
    <3>2. /\ Len(before \o rest) = Len(before) + Len(rest)
          /\ \A i \in 1 .. Len(before) + Len(rest) :
               (before \o rest)[i] = IF i <= Len(before) THEN before[i]
                                     ELSE rest[i - Len(before)]
      BY <1>1, <2>1, ConcatProperties
    <3>3. Len(before) + Len(rest) = top
      BY <1>1, <2>1, <3>1
    <3>4. QED
      BY <1>1, <3>2, <3>3
  <2> USE DEF rest
  <2>3. TAKE q \in 1 .. top
  <2>4. CASE q <= n
    BY <2>2, <2>4, <1>1 DEF Seen
  <2>5. CASE ~ (q <= n)
    <3>1. q - n \in 1 .. top - n
      BY <2>5, <1>1
    <3>2. rest[q - n] = known[n + (q - n)]
      BY <3>1, <2>1
    <3>3. n + (q - n) = q /\ ~ (q < p)
      BY <2>5, <1>1
    <3>4. QED
      BY <2>2, <2>5, <3>2, <3>3 DEF Seen
  <2>6. QED
    BY <2>4, <2>5
<1> HIDE DEF height
<1>3. from = From(code, before, known, p)
  <2>1. \A q \in 1 .. Len(code) : q \in 1 .. top
    BY <1>1
  <2>2. QED
    BY <1>2, <2>1 DEF From
<1>4. \A q \in 1 .. Len(code) :
        /\ Seen(before, known, p, q) \in Int
        /\ Net(code[q]) \in Int
        /\ height[q] - Takes(code[q]) + Leaves(code[q]) = height[q] + Net(code[q])
  <2>1. TAKE q \in 1 .. Len(code)
  <2>2. Seen(before, known, p, q) \in Int
    BY <1>1 DEF Seen
  <2>3. Takes(code[q]) \in Nat /\ Leaves(code[q]) \in Nat
    BY InstructionFacts
  <2>4. height[q] = Seen(before, known, p, q)
    <3>1. q \in 1 .. top
      BY <1>1
    <3>2. QED
      BY <1>2, <3>1
  <2>5. QED
    <3>1. height[q] - Takes(code[q]) + Leaves(code[q]) = height[q] + (Leaves(code[q]) - Takes(code[q]))
      BY <2>2, <2>3, <2>4
    <3>2. QED
      BY <2>2, <2>3, <3>1 DEF Net
<1>5. e \in Int /\ IF p = 1 THEN e = arity + 1
                   ELSE \/ From(code, before, known, p) = {} /\ e = Unreachable
                        \/ \E q \in From(code, before, known, p) :
                             e = Seen(before, known, p, q) + Net(code[q])
  <2>1. CASE p = 1
    BY <2>1 DEF HeightAt
  <2>2. CASE p # 1 /\ from = {}
    BY <2>2, <1>3 DEF HeightAt, Unreachable
  <2>3. CASE p # 1 /\ from # {}
    <3>1. Min(from) \in from
      <4>1. from \subseteq Nat
        OBVIOUS
      <4>2. QED
        BY <4>1, <2>3, MinIsLeast
    <3>2. PICK q \in from : q = Min(from)
      BY <3>1
    <3>3. e = height[q] - Takes(code[q]) + Leaves(code[q])
      BY <2>3, <3>2 DEF HeightAt
    <3>4. q \in 1 .. Len(code) /\ q \in 1 .. top
      BY <3>2, <1>1
    <3>5. e = Seen(before, known, p, q) + Net(code[q])
      BY <3>3, <3>4, <1>2, <1>4
    <3>6. Seen(before, known, p, q) + Net(code[q]) \in Int
      BY <3>4, <1>4
    <3>7. q \in From(code, before, known, p)
      BY <3>2, <1>3
    <3>8. QED
      BY <3>5, <3>6, <3>7, <2>3
  <2>4. QED
    BY <2>1, <2>2, <2>3
<1> HIDE DEF e
<1>6. /\ after \in Seq(Int) /\ Len(after) = p
      /\ \A i \in 1 .. n : after[i] = before[i]
      /\ after[p] = e
  BY <1>1, <1>5, AppendProperties
<1> HIDE DEF after
<1>7. \A i \in 1 .. p : /\ \A q \in 1 .. Len(code) :
                            Seen(after, known, i, q) = Seen(before, known, i, q)
                       /\ From(code, after, known, i) = From(code, before, known, i)
  <2>1. TAKE i \in 1 .. p
  <2>2. \A q \in 1 .. Len(code) : Seen(after, known, i, q) = Seen(before, known, i, q)
    BY <1>1, <1>6 DEF Seen
  <2>3. QED
    BY <2>2 DEF From
<1>8. ASSUME NEW i \in 1 .. p
      PROVE  Settled(code, arity, known, after, i)
  <2>1. CASE i = p
    BY <2>1, <1>5, <1>6, <1>7 DEF Settled, From
  <2>2. CASE i \in 1 .. n
    <3>1. Settled(code, arity, known, before, i)
      BY <2>2 DEF SettledUpTo
    <3>2. QED
      BY <2>2, <3>1, <1>6, <1>7 DEF Settled, From
  <2>3. QED
    BY <2>1, <2>2, <1>1
<1>9. SettledUpTo(code, arity, known, after, p)
  BY <1>6, <1>8 DEF SettledUpTo
<1>10. QED
  BY <1>9 DEF after, e, height

(* Pass is a recursive function: a CHOOSE, of a function that exists.      *)
Unrolled(u, code, arity, known, k) ==
  u = [n \in 0 .. k |->
         IF n = 0 THEN <<>>
         ELSE Append(u[n - 1],
                HeightAt(code, arity,
                         u[n - 1] \o SubSeq(known, n, Len(known)), n))]

LEMMA PassUnrolls ==
  ASSUME NEW code, NEW arity, NEW known, NEW k \in Nat
  PROVE  \E u : Unrolled(u, code, arity, known, k)
<1> DEFINE S == {n \in Nat : \E u : Unrolled(u, code, arity, known, n)}
           Next(b, n) == Append(b, HeightAt(code, arity,
                                     b \o SubSeq(known, n, Len(known)), n))
<1>1. 0 \in S
  <2> DEFINE u == [n \in 0 .. 0 |-> <<>>]
  <2>1. Unrolled(u, code, arity, known, 0)
    BY DEF Unrolled
  <2>2. QED
    BY <2>1
<1>2. ASSUME NEW n \in Nat, n \in S
      PROVE  n + 1 \in S
  <2>1. PICK u : Unrolled(u, code, arity, known, n)
    BY <1>2
  <2> DEFINE v == [i \in 0 .. n + 1 |-> IF i = n + 1 THEN Next(u[n], n + 1)
                                       ELSE u[i]]
  <2>2. u = [i \in 0 .. n |-> IF i = 0 THEN <<>> ELSE Next(u[i - 1], i)]
    BY <2>1 DEF Unrolled
  <2> HIDE DEF Next
  <2>3. \A i \in 0 .. n + 1 : v[i] = IF i = 0 THEN <<>> ELSE Next(v[i - 1], i)
    <3>1. TAKE i \in 0 .. n + 1
    <3>2. CASE i = n + 1
      BY <3>2
    <3>3. CASE i # n + 1
      <4>1. i \in 0 .. n
        BY <3>3
      <4>2. v[i] = u[i] /\ (i # 0 => v[i - 1] = u[i - 1])
        BY <4>1
      <4>3. u[i] = IF i = 0 THEN <<>> ELSE Next(u[i - 1], i)
        BY <2>2, <4>1
      <4>4. QED
        BY <4>2, <4>3
    <3>4. QED
      BY <3>2, <3>3
  <2>4. v = [i \in 0 .. n + 1 |-> v[i]]
    OBVIOUS
  <2> HIDE DEF v
  <2>5. Unrolled(v, code, arity, known, n + 1)
    BY <2>3, <2>4 DEF Unrolled, Next
  <2>6. QED
    BY <2>5
<1>3. k \in S
  <2> HIDE DEF S
  <2>1. QED
    BY <1>1, <1>2, SetInduction
<1>4. QED
  BY <1>3

(* A pass settles every place.                                             *)
LEMMA PassSettles ==
  ASSUME NEW code \in Seq(Instruction), NEW arity \in Nat,
         NEW known \in Seq(Int), Len(known) = Len(code) + 1
  PROVE  SettledUpTo(code, arity, known, Pass(code, arity, known), Len(code) + 1)
<1> DEFINE top == Len(code) + 1
           u   == CHOOSE u : Unrolled(u, code, arity, known, top)
           S   == {n \in Nat : n <= top => SettledUpTo(code, arity, known, u[n], n)}
<1>1. top \in Nat
  OBVIOUS
<1>2. Unrolled(u, code, arity, known, top)
  BY <1>1, PassUnrolls
<1>3. Pass(code, arity, known) = u[top]
  BY DEF Pass, Unrolled
<1> HIDE DEF u
<1>4. u[0] = <<>> /\ \A n \in 0 .. Len(code) :
        u[n + 1] = Append(u[n], HeightAt(code, arity,
                            u[n] \o SubSeq(known, n + 1, Len(known)), n + 1))
  <2>1. \A n \in 0 .. top :
          u[n] = IF n = 0 THEN <<>>
                 ELSE Append(u[n - 1], HeightAt(code, arity,
                        u[n - 1] \o SubSeq(known, n, Len(known)), n))
    BY <1>2, Zenon DEF Unrolled
  <2>2. \A n \in 0 .. Len(code) : n + 1 \in 0 .. top /\ n + 1 # 0 /\ (n + 1) - 1 = n
    BY <1>1
  <2>3. u[0] = <<>>
    BY <2>1, <1>1
  <2>4. ASSUME NEW n \in 0 .. Len(code)
        PROVE  u[n + 1] = Append(u[n], HeightAt(code, arity,
                            u[n] \o SubSeq(known, n + 1, Len(known)), n + 1))
    <3>1. n + 1 \in 0 .. top /\ n + 1 # 0 /\ (n + 1) - 1 = n
      BY <2>2
    <3>2. u[n + 1] = Append(u[(n + 1) - 1], HeightAt(code, arity,
                            u[(n + 1) - 1] \o SubSeq(known, n + 1, Len(known)), n + 1))
      BY <2>1, <3>1
    <3>3. QED
      BY <3>1, <3>2
  <2>5. QED
    BY <2>3, <2>4
<1>5. 0 \in S
  <2>1. SettledUpTo(code, arity, known, <<>>, 0)
    BY EmptySeq DEF SettledUpTo
  <2>2. QED
    BY <1>4, <2>1
<1>6. ASSUME NEW n \in Nat, n \in S
      PROVE  n + 1 \in S
  <2>1. CASE n + 1 <= top
    <3>1. n \in 0 .. Len(code) /\ SettledUpTo(code, arity, known, u[n], n)
      BY <2>1, <1>6
    <3>2. SettledUpTo(code, arity, known, u[n + 1], n + 1)
      BY <3>1, <1>4, HeightAtSettles
    <3>3. QED
      BY <3>2
  <2>2. CASE ~ (n + 1 <= top)
    BY <2>2
  <2>3. QED
    BY <2>1, <2>2
<1>7. top \in S
  <2> HIDE DEF S
  <2>1. QED
    BY <1>1, <1>5, <1>6, SetInduction
<1>8. QED
  BY <1>3, <1>7, <1>1

-----------------------------------------------------------------------------
(* The two passes over code that has a layout.                             *)

LEMMA SuccessorsFacts ==
  ASSUME NEW code, NEW arity, NEW h, NEW r, NEW g,
         Layout(code, arity, h, r, g),
         NEW p \in 1 .. Len(code), NEW q \in Successors(code, p)
  PROVE  /\ q \in 1 .. Len(code) + 1
         /\ q <= p => code[p][1] = "LOOP" /\ q = code[p][2]
<1>1. q \in 1 .. Len(code) + 1
  BY DEF Layout, SameHeights
<1>2. code[p] \in Instruction
  BY DEF Layout
<1>3. CASE Falls(code[p]) /\ q = p + 1
  BY <1>1, <1>3
<1>4. CASE Jumps(code[p]) /\ q = code[p][2] /\ q # 0
  <2>1. Skips(code[p]) => q > p
    BY <1>4 DEF Layout, Directed
  <2>2. Skips(code[p]) \/ code[p][1] = "LOOP"
    BY <1>2, <1>4, InstructionFacts
  <2>3. QED
    BY <1>1, <1>4, <2>1, <2>2
<1>5. QED
  BY <1>1, <1>3, <1>4 DEF Successors

Compatible(code, h, heights) ==
  /\ heights \in Seq(Int) /\ Len(heights) = Len(code) + 1
  /\ \A p \in 1 .. Len(code) + 1 : heights[p] \in {Unreachable, h[p]}

(* A pass computes no height but that of the layout.                       *)
LEMMA PassIsCompatible ==
  ASSUME NEW code, NEW arity, NEW h, NEW r, NEW g, NEW known,
         Layout(code, arity, h, r, g),
         Compatible(code, h, known)
  PROVE  Compatible(code, h, Pass(code, arity, known))
<1> DEFINE top == Len(code) + 1
           A   == Pass(code, arity, known)
           S   == {m \in Nat : \A p \in 1 .. top : p <= m => A[p] \in {Unreachable, h[p]}}
<1>1. SettledUpTo(code, arity, known, A, top)
  BY PassSettles DEF Layout, Compatible
<1> HIDE DEF A
<1>2. top \in Nat
  BY DEF Layout
<1>3. 0 \in S
  OBVIOUS
<1>4. ASSUME NEW m \in Nat, m \in S
      PROVE  m + 1 \in S
  <2>1. SUFFICES ASSUME m + 1 \in 1 .. top
                 PROVE  A[m + 1] \in {Unreachable, h[m + 1]}
    <3>1. \A p \in 1 .. top : p <= m + 1 => p <= m \/ p = m + 1
      BY <1>2
    <3>2. QED
      BY <3>1, <1>4
  <2>2. Settled(code, arity, known, A, m + 1)
    BY <1>1, <2>1 DEF SettledUpTo
  <2>3. CASE m + 1 = 1
    BY <2>2, <2>3 DEF Settled, Layout, Starts
  <2>4. ASSUME m + 1 # 1, NEW q \in From(code, A, known, m + 1),
               A[m + 1] = Seen(A, known, m + 1, q) + Net(code[q])
        PROVE  A[m + 1] = h[m + 1]
    <3>1. /\ q \in 1 .. Len(code) /\ m + 1 \in Successors(code, q)
          /\ Seen(A, known, m + 1, q) # Unreachable
      BY <2>4 DEF From
    <3>2. q \in 1 .. top
      BY <3>1, <1>2
    <3>3. Seen(A, known, m + 1, q) = h[q]
      <4>1. CASE q < m + 1
        <5>1. q <= m
          BY <4>1, <3>2
        <5>2. A[q] \in {Unreachable, h[q]}
          BY <5>1, <3>2, <1>4
        <5>3. QED
          BY <4>1, <5>2, <3>1 DEF Seen
      <4>2. CASE ~ (q < m + 1)
        BY <4>2, <3>1, <3>2 DEF Seen, Compatible
      <4>3. QED
        BY <4>1, <4>2
    <3>4. h[m + 1] = h[q] + Net(code[q])
      BY <3>1 DEF Layout, SameHeights
    <3>5. QED
      BY <3>3, <3>4, <2>4
  <2>5. QED
    BY <2>2, <2>3, <2>4 DEF Settled
<1>5. top \in S
  <2> HIDE DEF S
  <2>1. QED
    BY <1>2, <1>3, <1>4, SetInduction
<1>6. \A p \in 1 .. top : A[p] \in {Unreachable, h[p]}
  BY <1>5, <1>2
<1>7. QED
  BY <1>1, <1>6 DEF Compatible, SettledUpTo, A

(* A place has a height iff the pass has come there.                       *)
LEMMA PassReaches ==
  ASSUME NEW code, NEW arity, NEW h, NEW r, NEW g, NEW known,
         Layout(code, arity, h, r, g),
         Compatible(code, h, known),
         NEW p \in 1 .. Len(code) + 1
  PROVE  Pass(code, arity, known)[p] # Unreachable <=>
           p = 1 \/ From(code, Pass(code, arity, known), known, p) # {}
<1> DEFINE A == Pass(code, arity, known)
           Goal == A[p] # Unreachable <=> p = 1 \/ From(code, A, known, p) # {}
<1>0. SUFFICES Goal
  OBVIOUS
<1>1. SettledUpTo(code, arity, known, A, Len(code) + 1)
  BY PassSettles DEF Layout, Compatible
<1>2. Compatible(code, h, A)
  BY PassIsCompatible
<1> HIDE DEF A
<1>3. Settled(code, arity, known, A, p)
  BY <1>1 DEF SettledUpTo
<1>4. \A q \in 1 .. Len(code) + 1 : h[q] \in Nat \ {0} /\ h[q] # Unreachable
  BY DEF Layout, Sized, Unreachable
<1>5. CASE p = 1
  <2>1. A[p] = arity + 1 /\ arity \in Nat
    BY <1>3, <1>5 DEF Settled, Layout
  <2>2. QED
    BY <2>1, <1>5 DEF Unreachable
<1>6. CASE p # 1 /\ From(code, A, known, p) = {}
  BY <1>3, <1>6 DEF Settled
<1>7. CASE p # 1 /\ From(code, A, known, p) # {}
  <2>1. PICK q \in From(code, A, known, p) :
          A[p] = Seen(A, known, p, q) + Net(code[q])
    BY <1>3, <1>7 DEF Settled
  <2>2. /\ q \in 1 .. Len(code) /\ p \in Successors(code, q)
        /\ Seen(A, known, p, q) # Unreachable
    BY DEF From
  <2>3. Seen(A, known, p, q) = h[q]
    BY <2>2, <1>2 DEF Seen, Compatible, Layout
  <2>4. h[p] = h[q] + Net(code[q])
    BY <2>2 DEF Layout, SameHeights
  <2>5. QED
    BY <2>1, <2>3, <2>4, <1>4, <1>7
<1>8. QED
  BY <1>5, <1>6, <1>7 DEF A

Nowhere(code) == [p \in 1 .. Len(code) + 1 |-> Unreachable]

LEMMA NowhereIsCompatible ==
  ASSUME NEW code, NEW arity, NEW h, NEW r, NEW g,
         Layout(code, arity, h, r, g)
  PROVE  Compatible(code, h, Nowhere(code))
<1>1. Len(code) + 1 \in Nat
  BY DEF Layout
<1>2. Nowhere(code) \in Seq(Int) /\ Len(Nowhere(code)) = Len(code) + 1
  BY <1>1 DEF Nowhere, Unreachable
<1>3. QED
  BY <1>2 DEF Compatible, Nowhere

(* The first pass comes to the places that are reached going forward.      *)
LEMMA FirstPassIsForward ==
  ASSUME NEW code, NEW arity, NEW h, NEW r, NEW g,
         Layout(code, arity, h, r, g)
  PROVE  \A p \in 1 .. Len(code) + 1 :
           Pass(code, arity, Nowhere(code))[p] # Unreachable <=> p \in r
<1> DEFINE top == Len(code) + 1
           K   == Pass(code, arity, Nowhere(code))
           S   == {m \in Nat : \A p \in 1 .. top : p <= m => (K[p] # Unreachable <=> p \in r)}
<1>1. \A p \in 1 .. top :
        K[p] # Unreachable <=> p = 1 \/ From(code, K, Nowhere(code), p) # {}
  BY NowhereIsCompatible, PassReaches
<1> HIDE DEF K
<1>2. top \in Nat
  BY DEF Layout
<1>3. 0 \in S
  OBVIOUS
<1>4. ASSUME NEW m \in Nat, m \in S
      PROVE  m + 1 \in S
  <2>1. SUFFICES ASSUME m + 1 \in 1 .. top
                 PROVE  K[m + 1] # Unreachable <=> m + 1 \in r
    <3>1. \A p \in 1 .. top : p <= m + 1 => p <= m \/ p = m + 1
      BY <1>2
    <3>2. QED
      BY <3>1, <1>4
  <2>2. ASSUME NEW q
        PROVE  q \in From(code, K, Nowhere(code), m + 1) <=>
                 (q \in 1 .. m /\ q \in r /\ m + 1 \in Successors(code, q))
    <3>1. CASE q \in 1 .. m
      <4>1. q \in 1 .. Len(code) /\ q \in 1 .. top /\ q < m + 1 /\ q <= m
        BY <3>1, <2>1, <1>2
      <4>2. K[q] # Unreachable <=> q \in r
        BY <4>1, <1>4
      <4>3. QED
        BY <4>1, <4>2, <3>1 DEF From, Seen
    <3>2. CASE q \in 1 .. Len(code) /\ q \notin 1 .. m
      <4>1. ~ (q < m + 1) /\ q \in 1 .. top
        BY <3>2, <1>2
      <4>2. Seen(K, Nowhere(code), m + 1, q) = Unreachable
        BY <4>1 DEF Seen, Nowhere
      <4>3. QED
        BY <4>2, <3>2 DEF From
    <3>3. CASE q \notin 1 .. Len(code) /\ q \notin 1 .. m
      BY <3>3 DEF From
    <3>4. QED
      BY <3>1, <3>2, <3>3
  <2>3. m + 1 \in r <=> m + 1 = 1 \/ \E q \in 1 .. m : q \in r /\ m + 1 \in Successors(code, q)
    <3>1. m + 1 \in r <=> m + 1 = 1 \/ \E q \in 1 .. (m + 1) - 1 :
                                        q \in r /\ m + 1 \in Successors(code, q)
      BY <2>1 DEF Layout, ReachedForward
    <3>2. (m + 1) - 1 = m
      OBVIOUS
    <3>3. QED
      BY <3>1, <3>2
  <2>4. QED
    BY <2>1, <2>2, <2>3, <1>1
<1>5. top \in S
  <2> HIDE DEF S
  <2>1. QED
    BY <1>2, <1>3, <1>4, SetInduction
<1>6. QED
  BY <1>5, <1>2 DEF K

(* What is reached going forward is not in an increment.                   *)
LEMMA ForwardIsUnguarded ==
  ASSUME NEW code, NEW arity, NEW h, NEW r, NEW g,
         Layout(code, arity, h, r, g)
  PROVE  \A p \in r : g[p] = 0
<1> DEFINE S == {m \in Nat : \A p \in r : p <= m => g[p] = 0}
           top == Len(code) + 1
<1>1. top \in Nat /\ r \subseteq 1 .. top
  BY DEF Layout, Sized
<1>2. 0 \in S
  BY <1>1
<1>3. ASSUME NEW m \in Nat, m \in S
      PROVE  m + 1 \in S
  <2>1. SUFFICES ASSUME m + 1 \in r
                 PROVE  g[m + 1] = 0
    <3>1. \A p \in r : p <= m + 1 => p <= m \/ p = m + 1
      BY <1>1
    <3>2. QED
      BY <3>1, <1>3
  <2>2. CASE m + 1 = 1
    BY <2>2 DEF Layout, Starts
  <2>3. CASE m + 1 # 1
    <3>1. m + 1 \in 1 .. top
      BY <2>1, <1>1
    <3>2. PICK q \in 1 .. (m + 1) - 1 : q \in r /\ m + 1 \in Successors(code, q)
      BY <2>1, <2>3, <3>1 DEF Layout, ReachedForward
    <3>3. q \in 1 .. Len(code) /\ m + 1 > q /\ q <= m
      BY <3>1, <3>2, <1>1
    <3>4. g[m + 1] = g[q]
      BY <3>2, <3>3 DEF Layout, GuardsKept
    <3>5. QED
      BY <3>2, <3>3, <3>4, <1>3
  <2>4. QED
    BY <2>2, <2>3
<1>4. top \in S
  <2> HIDE DEF S
  <2>1. QED
    BY <1>1, <1>2, <1>3, SetInduction
<1>5. QED
  BY <1>1, <1>4

(* The second pass comes to what the first has come to ...                 *)
LEMMA ForwardIsReached ==
  ASSUME NEW code, NEW arity, NEW h, NEW r, NEW g, NEW known,
         Layout(code, arity, h, r, g),
         Compatible(code, h, known)
  PROVE  \A p \in r : Pass(code, arity, known)[p] # Unreachable
<1> DEFINE A == Pass(code, arity, known)
           S == {m \in Nat : \A p \in r : p <= m => A[p] # Unreachable}
           top == Len(code) + 1
<1>1. top \in Nat /\ r \subseteq 1 .. top
  BY DEF Layout, Sized
<1>2. \A p \in 1 .. top : A[p] # Unreachable <=> p = 1 \/ From(code, A, known, p) # {}
  BY PassReaches
<1> HIDE DEF A
<1>3. 0 \in S
  BY <1>1
<1>4. ASSUME NEW m \in Nat, m \in S
      PROVE  m + 1 \in S
  <2>1. SUFFICES ASSUME m + 1 \in r
                 PROVE  A[m + 1] # Unreachable
    <3>1. \A p \in r : p <= m + 1 => p <= m \/ p = m + 1
      BY <1>1
    <3>2. QED
      BY <3>1, <1>4
  <2>2. m + 1 \in 1 .. top
    BY <2>1, <1>1
  <2>3. CASE m + 1 = 1
    BY <2>2, <2>3, <1>2
  <2>4. CASE m + 1 # 1
    <3>1. PICK q \in 1 .. (m + 1) - 1 : q \in r /\ m + 1 \in Successors(code, q)
      BY <2>1, <2>2, <2>4 DEF Layout, ReachedForward
    <3>2. q \in 1 .. Len(code) /\ q < m + 1 /\ q <= m
      BY <3>1, <2>2, <1>1
    <3>3. A[q] # Unreachable
      BY <3>1, <3>2, <1>4
    <3>4. q \in From(code, A, known, m + 1)
      BY <3>1, <3>2, <3>3 DEF From, Seen
    <3>5. QED
      BY <3>4, <2>2, <1>2
  <2>5. QED
    BY <2>3, <2>4
<1>5. top \in S
  <2> HIDE DEF S
  <2>1. QED
    BY <1>1, <1>3, <1>4, SetInduction
<1>6. QED
  BY <1>1, <1>5 DEF A

LEMMA HeightsArePasses ==
  ASSUME NEW code, NEW arity
  PROVE  Heights(code, arity) = Pass(code, arity, Pass(code, arity, Nowhere(code)))
BY DEF Heights, Nowhere

LEMMA HeightsAreCompatible ==
  ASSUME NEW code, NEW arity, NEW h, NEW r, NEW g,
         Layout(code, arity, h, r, g)
  PROVE  /\ Compatible(code, h, Pass(code, arity, Nowhere(code)))
         /\ Compatible(code, h, Heights(code, arity))
BY HeightsArePasses, NowhereIsCompatible, PassIsCompatible

(* ... and an entry of whatever else it comes to is reached going forward. *)
LEMMA ReachedIsEntered ==
  ASSUME NEW code, NEW arity, NEW h, NEW r, NEW g,
         Layout(code, arity, h, r, g)
  PROVE  \A p \in 1 .. Len(code) + 1 :
           Heights(code, arity)[p] # Unreachable => Entry(g, p) \in r
<1> DEFINE top == Len(code) + 1
           K   == Pass(code, arity, Nowhere(code))
           A   == Heights(code, arity)
           S   == {m \in Nat : \A p \in 1 .. top :
                                 p <= m /\ A[p] # Unreachable => Entry(g, p) \in r}
<1>1. top \in Nat /\ r \subseteq 1 .. top
  BY DEF Layout, Sized
<1>2. \A p \in 1 .. top : A[p] # Unreachable <=> p = 1 \/ From(code, A, K, p) # {}
  BY HeightsArePasses, HeightsAreCompatible, PassReaches
<1>3. \A p \in 1 .. top : K[p] # Unreachable <=> p \in r
  BY FirstPassIsForward
<1>4. \A p \in r : g[p] = 0
  BY ForwardIsUnguarded
<1> HIDE DEF A, K
<1>5. 0 \in S
  OBVIOUS
<1>6. ASSUME NEW m \in Nat, m \in S
      PROVE  m + 1 \in S
  <2>1. SUFFICES ASSUME m + 1 \in 1 .. top, A[m + 1] # Unreachable
                 PROVE  Entry(g, m + 1) \in r
    <3>1. \A p \in 1 .. top : p <= m + 1 => p <= m \/ p = m + 1
      BY <1>1
    <3>2. QED
      BY <3>1, <1>6
  <2>2. CASE m + 1 = 1
    BY <2>2 DEF Layout, Starts, Entry
  <2>3. CASE m + 1 # 1
    <3>1. PICK q \in From(code, A, K, m + 1) : TRUE
      BY <2>1, <2>3, <1>2
    <3>2. /\ q \in 1 .. Len(code) /\ m + 1 \in Successors(code, q)
          /\ Seen(A, K, m + 1, q) # Unreachable
      BY DEF From
    <3>3. q \in 1 .. top
      BY <3>2, <1>1
    <3>4. CASE q < m + 1
      <4>1. A[q] # Unreachable
        BY <3>2, <3>4 DEF Seen
      <4>2. Entry(g, q) \in r
        <5>1. q <= m
          BY <3>3, <3>4
        <5>2. QED
          BY <4>1, <5>1, <3>3, <1>6
      <4>3. g[m + 1] = g[q]
        BY <3>2, <3>4 DEF Layout, GuardsKept
      <4>4. CASE g[q] # 0
        BY <4>2, <4>3, <4>4 DEF Entry
      <4>5. CASE g[q] = 0
        <5>1. q \in r
          BY <4>2, <4>5 DEF Entry
        <5>2. q \in 1 .. (m + 1) - 1
          BY <3>3, <3>4
        <5>3. m + 1 \in r
          BY <5>1, <5>2, <3>2, <2>1 DEF Layout, ReachedForward
        <5>4. QED
          BY <5>3, <4>3, <4>5 DEF Entry
      <4>6. QED
        BY <4>4, <4>5
    <3>5. CASE ~ (q < m + 1)
      <4>1. q \in r
        BY <3>2, <3>3, <3>5, <1>3 DEF Seen
      <4>2. m + 1 <= q
        BY <3>3, <3>5
      <4>3. code[q][1] = "LOOP" /\ code[q][2] = m + 1
        BY <3>2, <4>2, SuccessorsFacts
      <4>4. QED
        BY <3>2, <4>1, <4>3, <1>4 DEF Layout, LoopsEntered
    <3>6. QED
      BY <3>4, <3>5
  <2>4. QED
    BY <2>2, <2>3
<1>7. top \in S
  <2> HIDE DEF S
  <2>1. QED
    BY <1>1, <1>5, <1>6, SetInduction
<1>8. QED
  BY <1>1, <1>7 DEF A

(* The heights are complete: where control may go from a place that has a  *)
(* height there is a height, also across a jump back.                      *)
LEMMA SuccessorsAreReached ==
  ASSUME NEW code, NEW arity, NEW h, NEW r, NEW g,
         Layout(code, arity, h, r, g),
         NEW p \in 1 .. Len(code), Heights(code, arity)[p] # Unreachable,
         NEW q \in Successors(code, p)
  PROVE  Heights(code, arity)[q] # Unreachable
<1> DEFINE top == Len(code) + 1
           K   == Pass(code, arity, Nowhere(code))
           A   == Heights(code, arity)
<1>1. top \in Nat /\ p \in 1 .. top /\ q \in 1 .. top
  BY SuccessorsFacts DEF Layout
<1>2. A[q] # Unreachable <=> q = 1 \/ From(code, A, K, q) # {}
  BY <1>1, HeightsArePasses, HeightsAreCompatible, PassReaches
<1>3. Entry(g, p) \in r
  BY <1>1, ReachedIsEntered
<1>4. \A x \in r : A[x] # Unreachable
  BY HeightsArePasses, HeightsAreCompatible, ForwardIsReached
<1>5. p \in r => K[p] # Unreachable
  BY <1>1, FirstPassIsForward
<1> HIDE DEF A, K
<1>6. CASE p < q
  <2>1. p \in From(code, A, K, q)
    BY <1>6 DEF From, Seen, A
  <2>2. QED
    BY <2>1, <1>2 DEF A
<1>7. CASE ~ (p < q)
  <2>1. code[p][1] = "LOOP" /\ q = code[p][2]
    <3>1. q <= p
      BY <1>1, <1>7
    <3>2. QED
      BY <3>1, SuccessorsFacts
  <2>2. CASE g[p] # 0
    <3>1. q = g[p]
      BY <2>1, <2>2 DEF Layout, LoopsEntered
    <3>2. q \in r
      BY <3>1, <2>2, <1>3 DEF Entry
    <3>3. QED
      BY <3>2, <1>4 DEF A
  <2>3. CASE g[p] = 0
    <3>1. K[p] # Unreachable
      BY <2>3, <1>3, <1>5 DEF Entry
    <3>2. p \in From(code, A, K, q)
      BY <3>1, <1>7 DEF From, Seen
    <3>3. QED
      BY <3>2, <1>2 DEF A
  <2>4. QED
    BY <2>2, <2>3
<1>8. QED
  BY <1>6, <1>7

-----------------------------------------------------------------------------
(* What a layout is good for.                                              *)

(* The height at the end of the code is that of the layout, if the end can *)
(* be reached at all.                                                      *)
LEMMA EndOfLayout ==
  ASSUME NEW code, NEW arity, NEW h, NEW r, NEW g,
         Layout(code, arity, h, r, g)
  PROVE  Last(Heights(code, arity)) \in {Unreachable, h[Len(code) + 1]}
<1>1. Compatible(code, h, Heights(code, arity))
  BY HeightsAreCompatible
<1>2. QED
  BY <1>1 DEF Compatible, Last, Layout

Patched(code) == \A p \in 1 .. Len(code) : Skips(code[p]) => code[p][2] # 0

(* Code that has a layout, and whose jumps are patched, is balanced: run() *)
(* finds the operands of every instruction above slot zero, and finds the  *)
(* stack as high by whichever way it comes to an instruction, if it goes   *)
(* on jumping back and forth for as long as it likes.                      *)
THEOREM LaidOutIsBalanced ==
  ASSUME NEW code, NEW arity, NEW h, NEW r, NEW g,
         Layout(code, arity, h, r, g), Patched(code)
  PROVE  Balanced(code, arity)
<1> DEFINE A == Heights(code, arity)
<1>1. Compatible(code, h, A)
  BY HeightsAreCompatible
<1>2. \A p \in 1 .. Len(code) : \A q \in Successors(code, p) :
        A[p] # Unreachable => A[q] # Unreachable
  BY SuccessorsAreReached
<1> HIDE DEF A
<1>3. SUFFICES ASSUME NEW p \in Reached(code, A)
               PROVE  /\ Takes(code[p]) < A[p]
                      /\ Jumps(code[p]) => code[p][2] # 0
                      /\ \A q \in Successors(code, p) :
                           A[q] = A[p] - Takes(code[p]) + Leaves(code[p])
  BY DEF Balanced, A
<1>4. p \in 1 .. Len(code) /\ A[p] # Unreachable
  BY DEF Reached
<1>5. code[p] \in Instruction /\ Len(code) \in Nat /\ p \in 1 .. Len(code) + 1
  BY <1>4 DEF Layout
<1>6. A[p] = h[p] /\ h[p] \in Nat
  BY <1>1, <1>4, <1>5 DEF Compatible, Layout, Sized
<1>7. Takes(code[p]) < A[p]
  BY <1>4, <1>6 DEF Layout, HasOperands
<1>8. Jumps(code[p]) => code[p][2] # 0
  <2>1. Skips(code[p]) => code[p][2] # 0
    BY <1>4 DEF Patched
  <2>2. code[p][1] = "LOOP" => code[p][2] # 0
    BY <1>4 DEF Layout, Directed
  <2>3. QED
    BY <2>1, <2>2, <1>5, InstructionFacts
<1>9. ASSUME NEW q \in Successors(code, p)
      PROVE  A[q] = A[p] - Takes(code[p]) + Leaves(code[p])
  <2>1. q \in 1 .. Len(code) + 1 /\ h[q] = h[p] + Net(code[p])
    BY <1>4 DEF Layout, SameHeights
  <2>2. A[q] = h[q]
    BY <2>1, <1>1, <1>2, <1>4 DEF Compatible
  <2>3. Takes(code[p]) \in Nat /\ Leaves(code[p]) \in Nat
    BY <1>5, InstructionFacts
  <2>4. QED
    BY <2>1, <2>2, <2>3, <1>6 DEF Net
<1>10. QED
  BY <1>7, <1>8, <1>9

(* Code that has a layout reads and writes only slots that have a value.   *)
THEOREM LaidOutHasSlots ==
  ASSUME NEW code, NEW arity, NEW h, NEW r, NEW g,
         Layout(code, arity, h, r, g)
  PROVE  SlotsExist(code, arity)
<1> DEFINE A == Heights(code, arity)
<1>1. Compatible(code, h, A)
  BY HeightsAreCompatible
<1> HIDE DEF A
<1>2. SUFFICES ASSUME NEW p \in Reached(code, A), Slotted(code[p])
               PROVE  code[p][2] < A[p]
  BY DEF SlotsExist, A, Slotted
<1>3. p \in 1 .. Len(code) /\ A[p] # Unreachable
  BY DEF Reached
<1>4. A[p] = h[p]
  BY <1>1, <1>3 DEF Compatible, Layout
<1>5. QED
  BY <1>2, <1>3, <1>4 DEF Layout, HasOperands

=============================================================================
