------------------------------ MODULE TableLib ------------------------------
(***************************************************************************)
(* What a program sees of its tables through lua.c and lua_table.c: the    *)
(* lookup of a key that a table does not have, along the __index of its    *)
(* metatables; the array functions add and del; and the loops foreach,     *)
(* all, pairs and ipairs, whose body may change the table they run over.   *)
(*                                                                         *)
(* TableStore has where tables are kept and how the array of pairs is      *)
(* reused, RefHeap when they are released; here all tables exist from the  *)
(* start and the array of pairs is the sequence of its allocated cells.    *)
(* An __index that is a function is not modelled.                          *)
(***************************************************************************)
EXTENDS Integers, Sequences, FiniteSets, FiniteSetsExt

CONSTANTS
  Objects,   \* tables that the functions of lua_table.c are called for
  Classes,   \* tables that may be a metatable or an __index
  ClassKeys, \* the keys that classes have
  Null,      \* T_NULL
  MaxIndex,  \* bound on keys; one behind a gap is as good as a name
  NumVals,   \* bound on values: numbers below it, counted modulo it
  MaxCells   \* bound on the pairs allocated for a table

ASSUME LibAssumption ==
  /\ Null \notin Objects \cup Classes \cup Nat /\ Objects \cap Classes = {}
  /\ ClassKeys \subseteq 1 .. MaxIndex
  /\ IsFiniteSet(Objects) /\ IsFiniteSet(Classes)
  /\ {MaxIndex, NumVals, MaxCells} \subseteq Nat \ {0}

VARIABLES
  kvs,    \* the allocated pairs of each table (kvp)
  meta,   \* metatable_idx, or Null for UINT16_MAX
  index,  \* mm->__index of each class, or Null when mm is NULL
  loop    \* the loop that is being executed

vars == <<kvs, meta, index, loop>>

Tables == Objects \cup Classes
Keys   == 1 .. MaxIndex
Values == 0 .. NumVals - 1
KeysOf(t) == IF t \in Objects THEN Keys ELSE ClassKeys

(***************************************************************************)
(* The pairs of one table                                                  *)
(***************************************************************************)
Blank       == [key |-> Null, val |-> Null]
Pair(k, v)  == [key |-> k, val |-> v]
Cells(s, k) == {i \in DOMAIN s : s[i].key = k}
Has(t, k)   == Cells(kvs[t], k) # {}
Own(t)      == {k \in Keys : Has(t, k)}

\* The cells after those of s when grow_table has doubled the array
Fresh(s) == [i \in 1 .. (IF s = <<>> THEN 2 ELSE Len(s)) |-> Blank]

\* Mutant: the array grows from its start.
Stored_InFront(s, k, v) ==
  IF Cells(s, k) # {} THEN [s EXCEPT ![Min(Cells(s, k))].val = v]
  ELSE IF Cells(s, Null) # {} THEN [s EXCEPT ![Min(Cells(s, Null))] = Pair(k, v)]
  ELSE [Fresh(s) EXCEPT ![1] = Pair(k, v)] \o s
\* set_tabvalue: over the old value, into the first hole, or into the first new cell
Stored(s, k, v) ==
  IF Cells(s, k) # {} THEN [s EXCEPT ![Min(Cells(s, k))].val = v]
  ELSE IF Cells(s, Null) # {} THEN [s EXCEPT ![Min(Cells(s, Null))] = Pair(k, v)]
  ELSE s \o [Fresh(s) EXCEPT ![1] = Pair(k, v)]

\* del_tabvalue
Removed(s, k) == [i \in DOMAIN s |-> IF s[i].key = k THEN Blank ELSE s[i]]

(***************************************************************************)
(* Lookup                                                                  *)
(***************************************************************************)

\* Where get_tabvalue looks next when t does not have the key.  It goes on to
\* the __index of the metatable, unless that is t itself.
Parent(t) ==
  IF meta[t] = Null \/ index[meta[t]] = t THEN Null ELSE index[meta[t]]

\* The table that get_tabvalue(t, ...) has reached after n calls of itself
Ancestor(t) ==
  LET up[n \in Nat] == IF n = 0 THEN t
                       ELSE LET u == up[n-1] IN IF u = Null THEN Null ELSE Parent(u)
  IN  up
Chain(t) == {n \in 0 .. Cardinality(Tables) : Ancestor(t)[n] # Null}

\* The recursion ends: Lua programs make no other cycle of classes.
Ends == \A t \in Tables : Cardinality(Tables) \notin Chain(t)

\* The calls after which the key is found
Hits(t, k) == {n \in Chain(t) : Has(Ancestor(t)[n], k)}

\* get_tabvalue(t, k)
get_tabvalue(t, k) ==
  LET hits == Hits(t, k) IN
  IF hits = {} THEN Null
  ELSE LET s == kvs[Ancestor(t)[Min(hits)]] IN s[Min(Cells(s, k))].val

\* _sequential_until(t): all of 1 .. n exist
_sequential_until(t) ==
  Min({n \in 0 .. MaxIndex : n = MaxIndex \/ get_tabvalue(t, n + 1) = Null})

\* What a program sees of t as an array
Items(t) == [i \in 1 .. _sequential_until(t) |-> get_tabvalue(t, i)]

(***************************************************************************)
(* Assignments                                                             *)
(***************************************************************************)

\* No loop is being executed, or its body is.
Ready == loop.on => loop.body

\* The pairs of t become s; keys that are gone no longer have to be visited.
Write(t, s) ==
  /\ Len(s) <= MaxCells
  /\ kvs' = [kvs EXCEPT ![t] = s]
  /\ loop' = IF loop.on /\ loop.tab = t
             THEN [loop EXCEPT !.due  = {k \in @ : Has(t, k) => Cells(s, k) # {}},
                               !.done = {k \in @ : Has(t, k) => Cells(s, k) # {}}]
             ELSE loop
  /\ UNCHANGED <<meta, index>>

set_tabvalue(t, k, v) == Ready /\ k \in KeysOf(t) /\ Write(t, Stored(kvs[t], k, v))
del_tabvalue(t, k)    == Ready /\ Has(t, k) /\ Write(t, Removed(kvs[t], k))

\* Mutant: the sum is stored where the old value was found.
iadd_tab_AtHolder(t, k) ==
  /\ Ready /\ k \in KeysOf(t) /\ get_tabvalue(t, k) # Null
  /\ LET h == Ancestor(t)[Min(Hits(t, k))] IN
     Write(h, Stored(kvs[h], k, (get_tabvalue(t, k) + 1) % NumVals))
\* t[k] += 1, and with the same steps -=, *=, /=; an operand that is nil
\* fails an assertion.
iadd_tab(t, k) ==
  /\ Ready /\ k \in KeysOf(t) /\ get_tabvalue(t, k) # Null
  /\ Write(t, Stored(kvs[t], k, (get_tabvalue(t, k) + 1) % NumVals))

\* add(t, v)
add(t, v) ==
  /\ Ready /\ t \in Objects
  /\ LET n == _sequential_until(t) IN
     n < MaxIndex /\ Write(t, Stored(kvs[t], n + 1, v))

\* Mutant: the last element is not removed after it was copied.
Shifted_KeepsLast(t, n) ==
  LET copied[m \in 0 .. n - 1] ==
        IF m = 0 THEN kvs[t] ELSE Stored(copied[m - 1], m, get_tabvalue(t, m + 1))
  IN copied[n - 1]
\* The loop of del: every element is copied to the key before it and the last key
\* is deleted.  Only the first element is compared with the value to delete, and
\* the copying starts at the second one whether it was equal or not: what del
\* removes is always the first element.
Shifted(t, n) ==
  LET copied[m \in 0 .. n - 1] ==
        IF m = 0 THEN kvs[t] ELSE Stored(copied[m - 1], m, get_tabvalue(t, m + 1))
  IN Removed(copied[n - 1], n)

\* del(t, v): what becomes of t is the same for every v.
del(t, v) ==
  /\ Ready /\ t \in Objects
  /\ LET n == _sequential_until(t) IN
     n > 0 /\ Write(t, Shifted(t, n))

\* setmetatable(t, m)
setmetatable(t, m) ==
  /\ Ready /\ meta' = [meta EXCEPT ![t] = m]
  /\ UNCHANGED <<kvs, index, loop>> /\ Ends'

\* set_tabvalue(c, "__index", d)
SetIndex(c, d) ==
  /\ Ready /\ index' = [index EXCEPT ![c] = d]
  /\ UNCHANGED <<kvs, meta, loop>> /\ Ends'

(***************************************************************************)
(* Loops.  due, done and twice are auxiliary: the keys that were there when *)
(* the loop began and are still to be visited, those that were visited, and *)
(* whether one of them was visited again.                                  *)
(***************************************************************************)
NoLoop == [on |-> FALSE]
Begin(kind, t, keys, rest) ==
  /\ ~loop.on
  /\ loop' = [on |-> TRUE, body |-> FALSE, kind |-> kind, tab |-> t, at |-> 1,
              rest |-> rest, due |-> keys, done |-> {}, twice |-> FALSE]
  /\ UNCHANGED <<kvs, meta, index>>

\* _foreach and _foreach_tvalue walk through the cells of the table itself.
foreach(t) == Begin("foreach", t, Own(t), <<>>)

\* pairs(t), and all(t), which has the values only: a copy of the pairs
pairs(t) ==
  LET ret[i \in 0 .. Len(kvs[t])] ==
        IF i = 0 THEN <<>>
        ELSE IF kvs[t][i].key = Null THEN ret[i - 1]
        ELSE Append(ret[i - 1], kvs[t][i].key)
  IN Begin("copy", t, Own(t), ret[Len(kvs[t])])

\* ipairs(t): the elements, which have to fit into count + 1 entries.  What
\* happens to a table that inherits more of them is undefined, and not modelled.
ipairs(t) ==
  LET n == _sequential_until(t) IN
  /\ n <= Cardinality(Own(t))
  /\ Begin("copy", t, 1 .. n, [i \in 1 .. n |-> i])

\* The body is executed for key k.
Visit(k) ==
  [loop EXCEPT !.body = TRUE, !.due = @ \ {k}, !.done = @ \cup ({k} \cap loop.due),
               !.twice = @ \/ k \in loop.done]

\* An iteration of foreach: the body is executed if there is a pair in the cell.
ForeachStep ==
  /\ loop.on /\ loop.kind = "foreach" /\ loop.at <= Len(kvs[loop.tab])
  /\ LET k == kvs[loop.tab][loop.at].key IN
     loop' = [(IF k = Null THEN [loop EXCEPT !.body = FALSE] ELSE Visit(k)) EXCEPT !.at = @ + 1]
  /\ UNCHANGED <<kvs, meta, index>>

\* An iteration over a copy
CopyStep ==
  /\ loop.on /\ loop.kind = "copy" /\ loop.rest # <<>>
  /\ loop' = [Visit(Head(loop.rest)) EXCEPT !.rest = Tail(@)]
  /\ UNCHANGED <<kvs, meta, index>>

AtEnd == loop.on /\ IF loop.kind = "foreach" THEN loop.at > Len(kvs[loop.tab]) ELSE loop.rest = <<>>

End == AtEnd /\ loop' = NoLoop /\ UNCHANGED <<kvs, meta, index>>

(***************************************************************************)
(* Specification                                                           *)
(***************************************************************************)
Init ==
  /\ kvs = [t \in Tables |-> <<>>] /\ meta = [t \in Tables |-> Null]
  /\ index = [c \in Classes |-> Null] /\ loop = NoLoop

Next ==
  \/ \E t \in Tables, k \in Keys :
       del_tabvalue(t, k) \/ iadd_tab(t, k) \/ \E v \in Values : set_tabvalue(t, k, v)
  \/ \E t \in Objects :
       foreach(t) \/ pairs(t) \/ ipairs(t) \/ \E v \in Values : add(t, v) \/ del(t, v)
  \/ \E c \in Classes : (\E t \in Tables : setmetatable(t, c)) \/ \E d \in Classes : SetIndex(c, d)
  \/ ForeachStep \/ CopyStep \/ End

Spec == Init /\ [][Next]_vars

(***************************************************************************)
(* Properties                                                              *)
(***************************************************************************)

\* A loop visits every key that stays in the table while it runs, and none of them
\* twice, whatever its body adds to the table, deletes from it or shifts in it, and
\* even if foreach sees the table grow (lua_table.c:93, 118, 133).
LoopsExact == loop.on => ~loop.twice /\ (AtEnd => loop.due = {})

\* The elements of s but the i-th
Without(s, i) == [j \in 1 .. Len(s) - 1 |-> s[IF j < i THEN j ELSE j + 1]]

\* add appends to the array that a program sees.  del(t, v) takes at most one element
\* out of it, exactly one if v is an element, that one if v is the first element,
\* and keeps the order of the others: through holes, fields between the elements and
\* inherited elements, none is lost, moved or seen twice (lua_table.c:49, 60-82).
\* Which element goes when v is not the first one is left open.
ArrayOrder ==
  [][~loop.on => \A t \in Objects, v \in Values :
       LET s == Items(t)
           n == Len(s)
       IN
       /\ add(t, v) => SubSeq(Items(t)', 1, n + 1) = Append(s, v)
       /\ del(t, v) =>
            \/ Items(t)' = s /\ \A i \in 1 .. n : s[i] # v
            \/ \E i \in 1 .. n :
                 /\ SubSeq(Items(t)', 1, n - 1) = Without(s, i)
                 /\ s[1] = v => i = 1
                 /\ Parent(t) = Null => Len(Items(t)') = n - 1]_kvs

\* The tables that get_tabvalue(u, k) looks into
Searched(u, k) ==
  {Ancestor(u)[n] : n \in {n \in Chain(u) : \A h \in Hits(u, k) : n <= h}}

\* t[k] += 1 changes what is read through another table only for that key, and
\* only if t is in its line of inheritance with nothing nearer: an object never
\* changes its class or its siblings, not even with a key that only the class has
\* (lua.c:551).
WritesStayBelow ==
  [][~loop.on => \A t \in Tables, k \in Keys :
       iadd_tab(t, k) =>
         \A u \in Tables, j \in Keys :
           get_tabvalue(u, j)' # get_tabvalue(u, j) => j = k /\ t \in Searched(u, k)]_kvs
=============================================================================
