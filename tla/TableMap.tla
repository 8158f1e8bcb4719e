----------------------------- MODULE TableMap -----------------------------
(***************************************************************************)
(* What a Lua program may rely on about tables: each one is a map from     *)
(* keys to values, a new one is empty, and no operation on one table shows *)
(* in another.  TableStore implements this with an arena of reused slots   *)
(* and arrays of pairs that are searched, grown and recycled.              *)
(***************************************************************************)
CONSTANTS
  Tables,  \* every table there can be
  Keys,
  Values,
  None     \* nil: the value of a key that is not in the table

VARIABLES
  live,    \* the tables of the program
  map,     \* map[t][k] is the value of key k of table t
  result   \* what the last operation returned

vars == <<live, map, result>>

EmptyMap == [k \in Keys |-> None]

Init ==
  /\ live = {}
  /\ map = [t \in Tables |-> EmptyMap]
  /\ result = None

\* A table constructor: an index that no table of the program has.
New(t) ==
  /\ t \in Tables \ live
  /\ result' = t
  /\ live' = live \cup {t}
  /\ UNCHANGED map

\* t[k] = v; assigning nil has no effect.
Set(t, k, v) ==
  /\ t \in live
  /\ UNCHANGED <<live, result>>
  /\ map' = [map EXCEPT ![t] = [@ EXCEPT ![k] = v]]

\* t[k]
Get(t, k) ==
  /\ t \in live
  /\ result' = map[t][k]
  /\ UNCHANGED <<live, map>>

\* A lookup with nil, or with a key that equal() cannot compare
Miss ==
  /\ result' = None
  /\ UNCHANGED <<live, map>>

\* Removal of a key, with its value as the result
Delete(t, k) ==
  /\ t \in live
  /\ result' = map[t][k]
  /\ UNCHANGED live
  /\ map' = [map EXCEPT ![t] = [@ EXCEPT ![k] = None]]

\* The last reference to t is gone.
Drop(t) ==
  /\ t \in live
  /\ live' = live \ {t}
  /\ UNCHANGED result
  /\ map' = [map EXCEPT ![t] = EmptyMap]

Next ==
  \/ Miss
  \/ \E t \in Tables :
       \/ New(t) \/ Drop(t)
       \/ \E k \in Keys :
            \/ Get(t, k) \/ Delete(t, k)
            \/ \E v \in Values : Set(t, k, v)

Spec == Init /\ [][Next]_vars
=============================================================================
