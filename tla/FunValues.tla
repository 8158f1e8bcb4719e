------------------------------ MODULE FunValues ------------------------------
(***************************************************************************)
(* What a Lua program may rely on about closures: a function value is code *)
(* together with the captured variables of the function call that made it. *)
(* They live as long as a function value or a call in progress refers to   *)
(* them, and are shared by nobody else.  Closures implements this with     *)
(* numbered functions and environment tables.                              *)
(***************************************************************************)
EXTENDS Integers, Sequences

CONSTANTS
  Vars,    \* the variables that hold functions
  Codes,   \* the functions of the program
  Envs,    \* sets of captured variables (one is enough: a counter)
  NoEnv,   \* the environment of a function that captures nothing
  Null     \* nil

VARIABLES
  fun,     \* the function value of each variable: [code, env], or nil
  frames,  \* the environments of the calls in progress
  counter  \* the captured variable of each environment

vars == <<fun, frames, counter>>

Reachable ==
  {fun[v].env : v \in {w \in Vars : fun[w] # Null}} \cup {frames[i] : i \in DOMAIN frames}

Init ==
  /\ fun = [v \in Vars |-> Null]
  /\ frames = <<>>
  /\ counter = [e \in Envs |-> 0]

\* What nothing refers to any more is gone.
Kept == counter' = [e \in Envs |-> IF e \in Reachable' THEN counter[e] ELSE 0]

\* A function that captures a variable is called.
Enter(e) ==
  /\ e \notin Reachable
  /\ frames' = Append(frames, e)
  /\ UNCHANGED <<fun, counter>>

\* A variable is assigned a new function, which captures the variable of the
\* call in progress or nothing.
Make(v, c, e) ==
  /\ e # NoEnv => frames # <<>> /\ e = frames[Len(frames)]
  /\ fun' = [fun EXCEPT ![v] = [code |-> c, env |-> e]]
  /\ UNCHANGED frames
  /\ Kept

Assign(v, x) ==
  /\ fun' = [fun EXCEPT ![v] = x]
  /\ UNCHANGED frames
  /\ Kept

\* The function in v is called, and counts in its own environment.
Call(v) ==
  /\ fun[v] # Null
  /\ IF fun[v].env = NoEnv THEN UNCHANGED vars
     ELSE /\ frames'  = Append(frames, fun[v].env)
          /\ counter' = [counter EXCEPT ![fun[v].env] = @ + 1]
          /\ UNCHANGED fun

Leave ==
  /\ frames # <<>>
  /\ frames' = SubSeq(frames, 1, Len(frames) - 1)
  /\ UNCHANGED fun
  /\ Kept

Next ==
  \/ Leave
  \/ \E e \in Envs : Enter(e)
  \/ \E v \in Vars :
       \/ Call(v) \/ Assign(v, Null)
       \/ \E w \in Vars : Assign(v, fun[w])
       \/ \E c \in Codes, e \in Envs \cup {NoEnv} : Make(v, c, e)

Spec == Init /\ [][Next]_vars
=============================================================================
