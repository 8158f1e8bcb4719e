------------------------------ MODULE Objects ------------------------------
(***************************************************************************)
(* What a Lua program may rely on about the tables it makes: a new table   *)
(* is empty, a variable or field holds what was stored in it last, and a   *)
(* table that can still be used keeps its content.  Assignments, the shift *)
(* of del and the end of a function are single steps.  RefHeap implements  *)
(* this with reference counts, a recursive release and a deferred one.     *)
(***************************************************************************)
EXTENDS Integers

CONSTANTS
  Objs,     \* every table there can be
  NumKeys,  \* a table has the keys 1 .. NumKeys
  Meta,     \* the field for the metatable
  Vars,     \* the variables of the program
  Locals,   \* those of the function being called
  Num,      \* any value that is not a table
  Null      \* nil

Keys  == 1 .. NumKeys
Locs  == Vars \cup (Objs \X (Keys \cup {Meta}))

VARIABLES
  alive,  \* the tables that exist
  val,    \* content of every variable and field
  acc,    \* the value of the last expression
  inCall  \* TRUE while the function that owns Locals is running

vars == <<alive, val, acc, inCall>>

InScope(c) == c \in Locals => inCall

Init ==
  /\ alive = {}
  /\ val = [l \in Locs |-> Null]
  /\ acc = Null
  /\ inCall = FALSE

\* A table constructor: the table is new, and its fields are nil.
New(t) ==
  /\ acc = Null /\ t \in Objs \ alive
  /\ \A k \in Keys \cup {Meta} : val[<<t, k>>] = Null
  /\ alive' = alive \cup {t}
  /\ acc' = t
  /\ UNCHANGED <<val, inCall>>

\* A literal, a variable, a field or the metatable of the last value, or nothing
Evaluate(v) ==
  /\ \/ acc = Null /\ v = Num
     \/ acc = Null /\ \E c \in Vars : InScope(c) /\ v = val[c]
     \/ acc \in Objs /\ \E k \in Keys \cup {Meta} : v = val[<<acc, k>>]
     \/ v = Null
  /\ acc' = v
  /\ UNCHANGED <<alive, val, inCall>>

\* The last value is stored in a place.
Store(l) ==
  /\ val' = [val EXCEPT ![l] = acc]
  /\ acc' = Null
  /\ UNCHANGED <<alive, inCall>>

Set(c) == InScope(c) /\ Store(c)

\* c[k] = value; assigning nil has no effect.
SetField(c, k) ==
  /\ InScope(c) /\ val[c] \in Objs /\ acc # Null
  /\ Store(<<val[c], k>>)

SetMeta(c) ==
  /\ InScope(c) /\ val[c] \in Objs /\ acc \in Objs
  /\ Store(<<val[c], Meta>>)

\* add(c, value): the value comes behind the elements 1, 2, ... of the table.
Add(c) ==
  \E k \in Keys :
    /\ SetField(c, k)
    /\ val[<<val[c], k>>] = Null
    /\ \A j \in 1 .. k - 1 : val[<<val[c], j>>] # Null

\* del(c, value): the first element is removed, the others move down by one; the
\* result is the value if it was that element.
Elements(t) == {k \in Keys : \A j \in 1 .. k : val[<<t, j>>] # Null}
Del(c, keep) ==
  /\ InScope(c) /\ val[c] \in Objs /\ acc # Null
  /\ val' = [l \in Locs |->
               IF l \notin {val[c]} \X Elements(val[c]) THEN val[l]
               ELSE IF l[2] < NumKeys THEN val[<<l[1], l[2] + 1>>] ELSE Null]
  /\ acc' = IF keep /\ 1 \in Keys /\ val[<<val[c], 1>>] = acc THEN acc ELSE Null
  /\ UNCHANGED <<alive, inCall>>

Call ==
  /\ acc = Null /\ ~inCall
  /\ inCall' = TRUE
  /\ UNCHANGED <<alive, val, acc>>

\* The function returns a variable, a field or nil; its locals are gone.
Return(v) ==
  /\ acc = Null /\ inCall
  /\ \/ v = Null
     \/ \E c \in Vars : v = val[c]
     \/ \E c \in Vars, k \in Keys : val[c] \in Objs /\ v = val[<<val[c], k>>]
  /\ val' = [l \in Locs |-> IF l \in Locals THEN Null ELSE val[l]]
  /\ acc' = v /\ inCall' = FALSE
  /\ UNCHANGED alive

\* A table that nothing refers to disappears, sooner or later.
Collect(t) ==
  /\ t \in alive /\ acc # t /\ \A l \in Locs : val[l] # t
  /\ alive' = alive \ {t}
  /\ val' = [l \in Locs |-> IF l \in {t} \X (Keys \cup {Meta}) THEN Null ELSE val[l]]
  /\ UNCHANGED <<acc, inCall>>

Next ==
  \/ \E t \in Objs : New(t) \/ Collect(t)
  \/ \E v \in Objs \cup {Num, Null} : Evaluate(v) \/ Return(v)
  \/ \E c \in Vars :
       \/ Set(c) \/ SetMeta(c) \/ Add(c)
       \/ \E k \in Keys : SetField(c, k)
       \/ \E keep \in BOOLEAN : Del(c, keep)
  \/ Call

Spec == Init /\ [][Next]_vars
=============================================================================
