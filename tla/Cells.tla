------------------------------- MODULE Cells -------------------------------
(***************************************************************************)
(* What closures promise: a closure captures VARIABLES, not values and not *)
(* stack slots.  All closures that capture a variable, and the function    *)
(* that declares it, share it: each sees the others' assignments, and the  *)
(* variable outlives the block or the call that declared it.               *)
(*                                                                         *)
(* There are no upvalues here, no list of them and no slots that are used  *)
(* again: a variable has an identity, and its value changes only when it   *)
(* is assigned to.  The virtual machine implements this with open and      *)
(* closed upvalues (Closures, ClosuresHistory).                            *)
(***************************************************************************)
EXTENDS Integers, Sequences, SequencesExt

CONSTANTS Value, Var

VARIABLES
  env,      \* the variables (and temporaries) in scope, the newest last
  store,    \* the value of every live variable
  lambdas,  \* closure -> the variables it captures
  calls,    \* the calls in progress, of [offset, closure]
  making,   \* is a closure being created?
  ended     \* has the program ended?

vars == <<env, store, lambdas, calls, making, ended>>

Captured == UNION {ToSet(lambdas[c]) : c \in DOMAIN lambdas}

(* The variables somebody can still reach when e is in scope.              *)
Reachable(e) == ToSet(e) \cup Captured

Running == ~ ended /\ ~ making

Own == calls[Len(calls)].offset .. Len(env)   \* the running call's part of env
Seen == lambdas[calls[Len(calls)].closure]    \* what its closure captures
Visible == {env[s] : s \in Own} \cup ToSet(Seen)

Init ==
  /\ \E x \in Var, v \in Value : env = <<x>> /\ store = [y \in {x} |-> v]
  /\ lambdas = << <<>> >>
  /\ calls = <<[offset |-> 1, closure |-> 1]>>
  /\ making = FALSE
  /\ ended = FALSE

(* The k oldest entries of env stay in scope, and a new variable joins     *)
(* them with value v; every variable that stays reachable keeps its value. *)
Enter(k, v) ==
  LET kept == SubSeq(env, 1, k)
  IN  \E x \in Var \ Reachable(kept) :
        /\ env' = Append(kept, x)
        /\ store' = [y \in Reachable(kept) \cup {x} |->
                       IF y = x THEN v ELSE store[y]]

(* Temporaries and declarations; up to two operands are replaced.          *)
Compute ==
  /\ Running
  /\ \E n \in 0 .. 2, v \in Value :
       /\ n = 0 \/ Len(env) - n + 1 \in Own
       /\ Enter(Len(env) - n, v)
  /\ UNCHANGED <<lambdas, calls, making, ended>>

(* Reading a variable gives its one and only value.                        *)
Read ==
  /\ Running
  /\ \E y \in Visible : Enter(Len(env), store[y])
  /\ UNCHANGED <<lambdas, calls, making, ended>>

Assign ==
  /\ Running
  /\ \E y \in Visible :
       store' = [store EXCEPT ![y] = store[env[Len(env)]]]
  /\ UNCHANGED <<env, lambdas, calls, making, ended>>

(* A scope or a statement drops its newest variable.                       *)
Leave ==
  /\ Running
  /\ env' = SubSeq(env, 1, Len(env) - 1)
  /\ store' = [y \in Reachable(env') |-> store[y]]
  /\ UNCHANGED <<lambdas, calls, making, ended>>

BeginLambda ==
  /\ Running
  /\ lambdas' = Append(lambdas, <<>>)
  /\ making' = TRUE
  /\ UNCHANGED <<env, store, calls, ended>>

(* A closure captures a variable that the running function sees.           *)
Capture ==
  /\ making /\ ~ ended
  /\ \E y \in Visible :
       lambdas' = [lambdas EXCEPT ![Len(lambdas)] = Append(@, y)]
  /\ UNCHANGED <<env, store, calls, making, ended>>

EndLambda ==
  /\ making /\ ~ ended
  /\ \E v \in Value : Enter(Len(env), v)
  /\ making' = FALSE
  /\ UNCHANGED <<lambdas, calls, ended>>

(* The callee, which nothing captures, becomes a variable of the call:     *)
(* `this' in a method.                                                     *)
Call ==
  /\ Running
  /\ \E c \in DOMAIN lambdas, s \in Own, v \in Value :
       /\ env[s] \notin Captured
       /\ store' = [store EXCEPT ![env[s]] = v]
       /\ calls' = Append(calls, [offset |-> s, closure |-> c])
  /\ UNCHANGED <<env, lambdas, making, ended>>

(* A call gives its value to the caller and drops all of its variables.    *)
Return ==
  /\ Running
  /\ Len(calls) > 1
  /\ Enter(calls[Len(calls)].offset - 1, store[env[Len(env)]])
  /\ calls' = SubSeq(calls, 1, Len(calls) - 1)
  /\ UNCHANGED <<lambdas, making, ended>>

(* The script returns, or a runtime error ends the program.                *)
End ==
  /\ Running
  /\ env' = <<>> /\ store' = <<>> /\ calls' = <<>>
  /\ ended' = TRUE
  /\ UNCHANGED <<lambdas, making>>

Next ==
  \/ Compute \/ Read \/ Assign \/ Leave
  \/ BeginLambda \/ Capture \/ EndLambda
  \/ Call \/ Return \/ End

Spec == Init /\ [][Next]_vars

=============================================================================
