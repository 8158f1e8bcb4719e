---------------------------- MODULE TableStore ----------------------------
(***************************************************************************)
(* Where lua.c keeps its tables: the arena _tables with a bitmap of free   *)
(* slots, and in each slot an array of key/value pairs (kvp) that is       *)
(* searched from its start, filled into the first hole, doubled when it is *)
(* full, blanked when the table is released, and reused by the next table  *)
(* that make_table puts into the slot.                                     *)
(*                                                                         *)
(* RefHeap decides when a table is released; here it may happen at any     *)
(* time.  The keys that name metamethods ("__index", ...) are not stored   *)
(* in the array and are no keys of this model.                             *)
(***************************************************************************)
EXTENDS Integers, Sequences, FiniteSets

CONSTANTS
  Keys,      \* keys other than nil; array indices are natural numbers
  Odd,       \* those that equal() does not compare: booleans and functions
  Values,    \* values other than nil
  Null,      \* T_NULL
  Sizes,     \* the sizes that table constructors ask make_table for
  InitLen,   \* initial length of the arena (128 in the code)
  LenMod,    \* lengths are uint16_t: 0 .. LenMod - 1 (65536 in the code)
  MaxCells   \* bound on the pairs of a table, for model checking

ASSUME StoreAssumption ==
  /\ Odd \subseteq Keys /\ Null \notin Keys /\ Null \notin Values
  /\ Sizes \subseteq Nat
  /\ InitLen \in Nat \ {0} /\ LenMod \in Nat /\ InitLen < LenMod
  /\ MaxCells \in Nat

VARIABLES
  len,     \* _tables.len
  used,    \* _tables.used
  free,    \* the bits that are set in _tables.free_tables
  tabs,    \* _tables.tables: kvs (all allocated pairs), len (kvp.len), count
  result,  \* what the last operation returned
  status   \* "run", or the assertion that failed

vars == <<len, used, free, tabs, result, status>>

(***************************************************************************)
(* Helpers                                                                 *)
(***************************************************************************)
Blank     == [key |-> Null, val |-> Null]
calloc(n) == [i \in 1 .. n |-> Blank]
ZeroSlot  == [kvs |-> <<>>, len |-> 0, count |-> 0]
Slots     == 0 .. len - 1
Live      == Slots \ free
MapKeys   == Keys \ Odd           \* the keys that a table finds again

\* equal(a, b): a boolean or a function is not even equal to itself.
equal(a, b) == a = b /\ a \notin Odd

\* Of the array of a slot: the indices with key k, those without a key, and the
\* keys it holds.
Match(slot, k) == {i \in 1 .. slot.len : equal(slot.kvs[i].key, k)}
Holes(slot)    == {i \in 1 .. slot.len : slot.kvs[i].key = Null}
Present(slot)  == {slot.kvs[i].key : i \in 1 .. slot.len} \ {Null}
First(S, i)    == i \in S /\ \A j \in S : i <= j

Ready == status = "run"

Abort(why) ==
  /\ status' = why
  /\ UNCHANGED <<len, used, free, tabs, result>>

(***************************************************************************)
(* Operations                                                              *)
(***************************************************************************)

\* make_table grows the arena when no slot is free ...
NewLen == IF len = 0 THEN InitLen ELSE (2 * len) % LenMod
Arena  ==
  IF len # used THEN [len |-> len, free |-> free, tabs |-> tabs]
  ELSE [len  |-> NewLen,
        free |-> free \cup len .. NewLen - 1,
        tabs |-> [t \in 0 .. NewLen - 1 |-> IF t \in Slots THEN tabs[t] ELSE ZeroSlot]]

\* Mutant: the test for a larger size is missing.
Recycle_NoResize(slot, size) ==
  LET fresh == slot.kvs = <<>> /\ size > 0 IN
  [kvs |-> IF fresh THEN calloc(size) ELSE slot.kvs, len |-> size, count |-> 0]
\* ... and reuses the array of the slot's previous table if that is long enough.
Recycle(slot, size) ==
  LET fresh == \/ slot.kvs = <<>> /\ size > 0
               \/ slot.kvs # <<>> /\ size > slot.len IN
  [kvs |-> IF fresh THEN calloc(size) ELSE slot.kvs, len |-> size, count |-> 0]

\* make_table(size)
make_table(size) ==
  /\ Ready
  /\ IF len = used /\ len # 0 /\ ~(NewLen > len) THEN Abort("overflow")
     ELSE IF Arena.free = {} THEN Abort("noslot")
     ELSE \E t \in Arena.free :
          /\ First(Arena.free, t)
          /\ len'    = Arena.len
          /\ used'   = used + 1
          /\ free'   = Arena.free \ {t}
          /\ tabs'   = [Arena.tabs EXCEPT ![t] = Recycle(@, size)]
          /\ result' = t
          /\ UNCHANGED status

\* grow_table: an array twice as long, with the old pairs at its start
GrownLen(slot)   == IF slot.len = 0 THEN 2 ELSE 2 * slot.len
\* Mutant: the old pairs are not copied.
grow_table_NoCopy(slot) ==
  [kvs |-> calloc(GrownLen(slot)), len |-> GrownLen(slot), count |-> slot.count]
grow_table(slot) ==
  [kvs   |-> [i \in 1 .. GrownLen(slot) |->
                IF i <= slot.len THEN slot.kvs[i] ELSE Blank],
   len   |-> GrownLen(slot),
   count |-> slot.count]

\* The pair at index i
SetPair(slot, i, pair, n) ==
  [kvs |-> [slot.kvs EXCEPT ![i] = pair], len |-> slot.len, count |-> n]

\* A pair is put into a hole.
Put(slot, i, k, v) == SetPair(slot, i, [key |-> k, val |-> v], slot.count + 1)

\* The three ways set_tabvalue stores a value: over the value of the same key,
Replace(t, k, v) ==
  \E i \in Match(tabs[t], k) :
    /\ First(Match(tabs[t], k), i)
    /\ tabs' = [tabs EXCEPT ![t] = SetPair(@, i, [key |-> @.kvs[i].key, val |-> v], @.count)]

\* Mutant: the first hole is taken without looking for the key behind it.
Insert_AtFirstHole(t, k, v) ==
  \E i \in Holes(tabs[t]) :
    /\ First(Holes(tabs[t]), i)
    /\ tabs' = [tabs EXCEPT ![t] = Put(@, i, k, v)]
\* into the first hole if the whole array does not have the key,
Insert(t, k, v) ==
  /\ Match(tabs[t], k) = {}
  /\ \E i \in Holes(tabs[t]) :
       /\ First(Holes(tabs[t]), i)
       /\ tabs' = [tabs EXCEPT ![t] = Put(@, i, k, v)]

\* or behind the old pairs of the array once it has been doubled.
Enlarge(t, k, v) ==
  /\ Match(tabs[t], k) = {} /\ Holes(tabs[t]) = {}
  /\ GrownLen(tabs[t]) <= MaxCells
  /\ tabs' = [tabs EXCEPT ![t] = Put(grow_table(@), @.len + 1, k, v)]

\* set_tabvalue(t, k, v); for v = nil it returns at once, without any effect.
set_tabvalue(t, k, v) ==
  /\ Ready /\ t \in Live /\ v # Null
  /\ Replace(t, k, v) \/ Insert(t, k, v) \/ Enlarge(t, k, v)
  /\ UNCHANGED <<len, used, free, result, status>>

\* How a search for k ends; nil is never searched for.
Found(t, k, i) == k # Null /\ First(Match(tabs[t], k), i)
Missing(t, k)  == k = Null \/ Match(tabs[t], k) = {}

\* get_tabvalue(t, k) of a table without a metatable
get_tabvalue(t, k) ==
  /\ Ready /\ t \in Live
  /\ \/ Missing(t, k) /\ result' = Null
     \/ \E i \in Match(tabs[t], k) : Found(t, k, i) /\ result' = tabs[t].kvs[i].val
  /\ UNCHANGED <<len, used, free, tabs, status>>

\* Mutant: the pair is blanked, but still counted.
Remove_KeepsCount(slot, i) == SetPair(slot, i, Blank, slot.count)
\* A pair is removed: its index becomes a hole.
Remove(slot, i) == SetPair(slot, i, Blank, slot.count - 1)

\* del_tabvalue(t, k)
del_tabvalue(t, k) ==
  /\ Ready /\ t \in Live
  /\ \/ Missing(t, k) /\ result' = Null /\ UNCHANGED tabs
     \/ \E i \in Match(tabs[t], k) :
          /\ Found(t, k, i)
          /\ result' = tabs[t].kvs[i].val
          /\ tabs' = [tabs EXCEPT ![t] = Remove(@, i)]
  /\ UNCHANGED <<len, used, free, status>>

\* Mutant: the array is left as it is.
Clear_KeepsPairs(slot) == [slot EXCEPT !.count = 0]
\* The pairs of a table that is released are blanked, up to kvp.len.
Clear(slot) ==
  [kvs   |-> [i \in DOMAIN slot.kvs |-> IF i <= slot.len THEN Blank ELSE slot.kvs[i]],
   len   |-> slot.len,
   count |-> 0]

\* Mutant: _tables.used is not decremented.
release_KeepsUsed(t) ==
  /\ Ready /\ t \in Live
  /\ tabs' = [tabs EXCEPT ![t] = Clear(@)]
  /\ free' = free \cup {t}
  /\ UNCHANGED <<len, used, result, status>>
\* _tab_decref(t) when the count of t reached zero: its slot is free again.
release(t) ==
  /\ Ready /\ t \in Live
  /\ tabs' = [tabs EXCEPT ![t] = Clear(@)]
  /\ free' = free \cup {t}
  /\ used' = used - 1
  /\ UNCHANGED <<len, result, status>>

(***************************************************************************)
(* Specification                                                           *)
(***************************************************************************)
Init ==
  /\ len = 0 /\ used = 0 /\ free = {}
  /\ tabs = [t \in {} |-> ZeroSlot]
  /\ result = Null /\ status = "run"

\* The process ended in a failed assertion.
Stopped == status # "run" /\ UNCHANGED vars

Next ==
  \/ \E size \in Sizes : make_table(size)
  \/ \E t \in Slots :
       \/ release(t)
       \/ \E k \in Keys : \E v \in Values : set_tabvalue(t, k, v)
       \/ \E k \in Keys \cup {Null} : get_tabvalue(t, k) \/ del_tabvalue(t, k)
  \/ Stopped

Spec == Init /\ [][Next]_vars

(***************************************************************************)
(* Properties                                                              *)
(***************************************************************************)
CellType == [key : Keys \cup {Null}, val : Values \cup {Null}]
SlotType == [kvs : Seq(CellType), len : Nat, count : Nat]

\* Types: in particular no length or count runs below zero or over its width.
StoreTypeOK ==
  /\ len \in 0 .. LenMod - 1 /\ used \in 0 .. len /\ free \subseteq Slots
  /\ tabs \in [Slots -> SlotType]
  /\ result \in Values \cup {Null} \cup Nat
  /\ status \in {"run", "overflow", "noslot"}

\* kvp.len never exceeds the pairs that are allocated, although make_table gives
\* a reused array a shorter length: no loop over the pairs leaves the array.
InBounds == \A t \in Slots : tabs[t].len <= Len(tabs[t].kvs)

\* A free slot holds no pair, up to the end of its array: the next table that
\* make_table puts there starts empty without clearing it (lua.c:761).
FreeIsEmpty == \A t \in free : \A i \in DOMAIN tabs[t].kvs : tabs[t].kvs[i] = Blank

\* A key occurs once in a table, wherever the holes were when it was stored;
\* searches may stop at the first match.
KeysUnique ==
  \A t \in Live : \A k \in MapKeys : \A i, j \in Match(tabs[t], k) : i = j

\* count is the number of pairs of a table: pairs() and all() allocate count + 1
\* entries and fill one for every pair (lua_table.c:16-25, 116-123).
CountExact == \A t \in Slots : tabs[t].count = tabs[t].len - Cardinality(Holes(tabs[t]))

\* ipairs() allocates count + 1 entries and then follows the keys 1, 2, ... as
\* long as they are present (lua_table.c:131-144): they always fit.
IpairsFits ==
  \A t \in Live : \A n \in 1 .. MaxCells + 1 :
    (\A j \in 1 .. n : j \in Present(tabs[t]) \ Odd) => n <= tabs[t].count

\* make_table finds a slot: used is the number of bits that are clear, so that
\* "if it was not possible to find a slot, we'd have resized" (lua.c:498).
SlotIsFound == used = len - Cardinality(free) /\ status # "noslot"

\* The value of key k in the map that the array of a slot stands for
Lookup(slot, k) ==
  IF Match(slot, k) = {} THEN Null
  ELSE slot.kvs[CHOOSE i \in Match(slot, k) : First(Match(slot, k), i)].val

StoredMap ==
  [t \in 0 .. LenMod - 1 |->
     [k \in MapKeys |-> IF t \in Live THEN Lookup(tabs[t], k) ELSE Null]]

Map == INSTANCE TableMap WITH
  Tables <- 0 .. LenMod - 1, Keys <- MapKeys, None <- Null,
  live <- Live, map <- StoredMap

\* The store implements the tables of TableMap.
ImplementsMap == Map!Spec
=============================================================================
