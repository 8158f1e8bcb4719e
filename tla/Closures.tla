------------------------------- MODULE Closures -------------------------------
(***************************************************************************)
(* Function values of lua.c: an index into the arena of functions, whose   *)
(* slots pair the code with the index of the environment table.  make_fun  *)
(* shares the slot of an equal pair; slots are never freed.                *)
(*                                                                         *)
(* The compiler puts the captured variables of a function in a table       *)
(* lambda_args, a counted local of every call: the one that creates it and *)
(* those of its closures, to which __call hands it over.  The index in the *)
(* arena of functions is not counted.                                      *)
(***************************************************************************)
EXTENDS Integers, Sequences, FiniteSets

CONSTANTS
  Vars,        \* global variables that hold functions
  Lambdas,     \* code that captures a variable
  Plain,       \* code that captures nothing
  Null,        \* nil
  NoEnv,       \* UINT16_MAX as an environment
  NoFun,       \* an empty slot of the arena of functions
  NumTables,   \* number of slots for environment tables
  FirstLen,    \* first length of the arena of functions (32)
  MaxLen,      \* bound on that length, for model checking
  RcLimit,     \* _incref asserts refcount < RcLimit (250)
  MaxDepth,    \* bound on the calls in progress, for model checking
  MaxCount     \* bound on the captured counters, for model checking

ASSUME ClosuresAssumption ==
  /\ Lambdas \cap Plain = {}
  /\ {Null, NoEnv, NoFun} \cap Int = {}
  /\ NumTables \in Nat /\ FirstLen \in Nat /\ FirstLen > 0 /\ MaxLen \in Nat
  /\ RcLimit \in Nat /\ RcLimit > 2 /\ MaxDepth \in Nat /\ MaxCount \in Nat

VARIABLES
  funcs,   \* the slots of the arena: [code, env] or NoFun
  var,     \* the index of the function in each variable, or nil
  rc,      \* refcount of the environment tables, 0 for a free slot
  count,   \* the captured variable in each table
  calls,   \* lambda_args of each call in progress
  gc,      \* the tables in _gc_to_visit
  status   \* "run", "limit" (assertion of _incref) or "freed" (use of a freed table)

vars == <<funcs, var, rc, count, calls, gc, status>>

Tables == 0 .. NumTables - 1
Fun    == [code : Lambdas \cup Plain, env : Tables \cup {NoEnv}]
Slots  == DOMAIN funcs

ASSUME FunAssumption == Null \notin Fun /\ NoFun \notin Fun

Lowest(S, i) == i \in S /\ \A j \in S : i <= j

Ready == status = "run"

\* A failed assertion, or the use of a freed table: nothing is said of what follows.
Fail(why) == status' = why /\ UNCHANGED <<funcs, var, rc, count, calls, gc>>

(***************************************************************************)
(* make_fun                                                                *)
(***************************************************************************)

\* Mutant: the environment is not compared.
Same_CodeOnly(x, y) == x # NoFun /\ x.code = y.code
Same(x, y) == x = y

NewLen == IF Slots = {} THEN FirstLen ELSE 2 * Cardinality(Slots)
Empty  == {i \in Slots : funcs[i] = NoFun}

\* Mutant: the last empty slot is taken.
Found_Last(i, f) ==
  /\ ~\E j \in Slots : Same(funcs[j], f)
  /\ i \in Empty /\ \A j \in Empty : i >= j
  /\ funcs' = [funcs EXCEPT ![i] = f]
\* The first slot that is empty, after all those in use ...
Found(i, f) ==
  /\ ~\E j \in Slots : Same(funcs[j], f)
  /\ Lowest(Empty, i)
  /\ funcs' = [funcs EXCEPT ![i] = f]

\* ... or slot 0 of an arena that is new or has just been doubled.
Overwritten(i, f) ==
  /\ ~\E j \in Slots : Same(funcs[j], f)
  /\ Empty = {} /\ i = 0 /\ NewLen <= MaxLen
  /\ funcs' = [j \in 0 .. NewLen - 1 |->
                 IF j = 0 THEN f ELSE IF j \in Slots THEN funcs[j] ELSE NoFun]

Stored(i, f) ==
  /\ Lowest({j \in Slots : Same(funcs[j], f)}, i)
  /\ UNCHANGED funcs

\* v = function ... end, in the call in progress
make_fun(v, c, e) ==
  /\ Ready
  /\ \E i \in 0 .. MaxLen - 1 :
       LET f == [code |-> c, env |-> e] IN
       /\ Stored(i, f) \/ Found(i, f) \/ Overwritten(i, f)
       /\ var' = [var EXCEPT ![v] = i]
  /\ UNCHANGED <<rc, count, calls, gc, status>>

(***************************************************************************)
(* Calls                                                                   *)
(***************************************************************************)

\* A function that captures a variable is called: make_table leaves one
\* reference with _gc_to_visit, lambda_args takes another one.
Enter ==
  /\ Ready /\ Len(calls) < MaxDepth
  /\ \E e \in Tables :
       /\ Lowest({t \in Tables : rc[t] = 0}, e)
       /\ rc'    = [rc EXCEPT ![e] = 2]
       /\ count' = [count EXCEPT ![e] = 0]
       /\ calls' = Append(calls, e)
       /\ gc'    = gc \cup {e}
  /\ UNCHANGED <<funcs, var, status>>

\* Mutant: the environment handed to a closure is not counted.
Handed_Uncounted(e) == rc
Handed(e) == [rc EXCEPT ![e] = @ + 1]

\* v(): code that captures a variable is handed its table, and counts.
__call(v) ==
  /\ Ready /\ var[v] # Null /\ Len(calls) < MaxDepth
  /\ LET e == funcs[var[v]].env IN
     IF e = NoEnv THEN UNCHANGED vars
     ELSE IF rc[e] = 0 THEN Fail("freed")
     ELSE IF rc[e] >= RcLimit THEN Fail("limit")
     ELSE /\ count[e] < MaxCount
          /\ rc'    = Handed(e)
          /\ count' = [count EXCEPT ![e] = @ + 1]
          /\ calls' = Append(calls, e)
          /\ UNCHANGED <<funcs, var, gc, status>>

\* A table whose count is zero is blank.
Blanked(n, r) == [t \in Tables |-> IF r[t] = 0 THEN 0 ELSE n[t]]

\* The end of a call: lambda_args goes out of scope.
Leave ==
  /\ Ready /\ calls # <<>>
  /\ rc'    = [rc EXCEPT ![calls[Len(calls)]] = @ - 1]
  /\ count' = Blanked(count, rc')
  /\ calls' = SubSeq(calls, 1, Len(calls) - 1)
  /\ UNCHANGED <<funcs, var, gc, status>>

run_gc ==
  /\ Ready /\ gc # {}
  /\ rc'    = [t \in Tables |-> IF t \in gc THEN rc[t] - 1 ELSE rc[t]]
  /\ count' = Blanked(count, rc')
  /\ gc'    = {}
  /\ UNCHANGED <<funcs, var, calls, status>>

\* v = w, or v = nil: functions are not counted.
set(v, x) ==
  /\ Ready
  /\ var' = [var EXCEPT ![v] = x]
  /\ UNCHANGED <<funcs, rc, count, calls, gc, status>>

(***************************************************************************)
(* Specification                                                           *)
(***************************************************************************)
Init ==
  /\ funcs = [i \in {} |-> NoFun]
  /\ var = [v \in Vars |-> Null]
  /\ rc = [t \in Tables |-> 0] /\ count = [t \in Tables |-> 0]
  /\ calls = <<>> /\ gc = {} /\ status = "run"

Stopped == ~Ready /\ UNCHANGED vars

\* Environments that the functions in variables need
Needed == {funcs[var[v]].env : v \in {w \in Vars : var[w] # Null}} \ {NoEnv}

Make ==
  \E v \in Vars :
    \/ \E c \in Plain : make_fun(v, c, NoEnv)
    \/ \E c \in Lambdas : calls # <<>> /\ make_fun(v, c, calls[Len(calls)])

Assign == \E v \in Vars : set(v, Null) \/ \E w \in Vars : set(v, var[w])

\* Programs do not hold function 0 when the arena grows: make_fun replaces it.
\* Careful programs also give up a closure before the last reference to its
\* environment goes; EnvAlive shows that others use a freed table.
KeepsFuns == \A v \in Vars : var[v] # Null => funcs'[var[v]] = funcs[var[v]]
KeepsEnvs == \A e \in Needed : rc'[e] > 0

Next ==
  \/ Make /\ KeepsFuns
  \/ Enter \/ Leave \/ run_gc \/ Assign \/ Stopped
  \/ \E v \in Vars : __call(v)

CarefulNext ==
  \/ Make /\ KeepsFuns
  \/ Enter \/ Assign \/ Stopped
  \/ \E v \in Vars : __call(v)
  \/ Leave /\ KeepsEnvs
  \/ run_gc /\ KeepsEnvs

Spec        == Init /\ [][Next]_vars
CarefulSpec == Init /\ [][CarefulNext]_vars

(***************************************************************************)
(* Properties                                                              *)
(***************************************************************************)
ClosTypeOK ==
  /\ \E n \in 0 .. MaxLen : funcs \in [0 .. n - 1 -> Fun \cup {NoFun}]
  /\ var \in [Vars -> Slots \cup {Null}]
  /\ rc \in [Tables -> 0 .. RcLimit] /\ count \in [Tables -> 0 .. MaxCount]
  /\ calls \in Seq(Tables) /\ gc \subseteq Tables /\ status \in {"run", "limit", "freed"}

\* The scan of make_fun stops at the first empty slot: it sees all functions,
\* and every variable with the same code and environment shares a slot.
FunsUnique ==
  \A i, j \in Slots : i < j =>
    /\ funcs[i] = NoFun => funcs[j] = NoFun
    /\ funcs[j] # NoFun => funcs[i] # funcs[j]

\* An environment is counted once for each call that has it as lambda_args, and
\* once for _gc_to_visit, whoever was handed it in whatever order.
EnvCountExact ==
  \A t \in Tables :
    rc[t] = Cardinality({i \in DOMAIN calls : calls[i] = t}) + (IF t \in gc THEN 1 ELSE 0)

\* What the variables hold, and what their environments contain
Reached == Needed \cup {calls[i] : i \in DOMAIN calls}
Values == INSTANCE FunValues WITH
  Codes <- Lambdas \cup Plain, Envs <- Tables,
  fun <- [v \in Vars |-> IF var[v] = Null THEN Null ELSE funcs[var[v]]],
  frames <- calls,
  counter <- [t \in Tables |-> IF t \in Reached THEN count[t] ELSE 0]

\* Closures are code with captured variables of their own: slots shared between
\* variables, environment slots used again and growth do not show.
ImplementsClosures == Values!Spec

\* Does not hold: test_cases/compound/closure/4.lua has c1() go on counting after
\* the call that made it has returned.  The environment of a closure that a
\* variable holds is not freed.
EnvAlive == \A e \in Needed : rc[e] > 0
=============================================================================
