----------------------------- MODULE StrArena -----------------------------
(***************************************************************************)
(* The string arena of lua.c: counted slots that all strings of a program  *)
(* share.  make_str and _concat look a new string up before they store it, *)
(* sub does not; a string whose count reaches zero leaves an empty slot    *)
(* behind, and the next new string takes the first slot with count zero.   *)
(*                                                                         *)
(* Literals are stored by __preinit before the program starts, one slot    *)
(* each, in an arena of exactly that size.  An operand of an expression    *)
(* ("temps") owns no reference: it relies on a variable, or on the entry   *)
(* of _gc_to_visit, that holds its string.                                 *)
(***************************************************************************)
EXTENDS Integers, Sequences, FiniteSets

CONSTANTS
  Vars,      \* variables of the program
  Texts,     \* strings (their characters do not matter)
  Empty,     \* the string "", with length 0
  Null,      \* nil
  NumLits,   \* number of literals of the program
  FirstLen,  \* first length of the arena of a program without literals (16)
  MaxLen,    \* bound on the length of the arena, for model checking
  RcLimit,   \* _incref asserts refcount < RcLimit (250)
  RcMod,     \* refcount is a uint8_t: 0 .. RcMod - 1 (256)
  GcBound,   \* bound on the entries of _gc_to_visit, for model checking
  TempBound  \* bound on the operands of an expression, for model checking

ASSUME StrAssumption ==
  /\ Empty \in Texts /\ Null \notin Texts /\ Null \notin Int
  /\ NumLits \in Nat /\ FirstLen \in Nat /\ FirstLen > 1 /\ MaxLen \in Nat
  /\ GcBound \in Nat /\ TempBound \in Nat /\ IsFiniteSet(Vars)
  /\ RcLimit \in Nat /\ RcMod \in Nat /\ 2 < RcLimit /\ RcLimit < RcMod

VARIABLES
  len,     \* _strings.len
  text,    \* the string of each slot; its length is 0 exactly if it is Empty
  rc,      \* Str_t.refcount
  var,     \* the slot that each variable refers to, or nil
  temps,   \* the slots of the operands evaluated so far
  gc,      \* the strings in _gc_to_visit
  status   \* "run", "limit" or "dead" (assertions of _incref and _decref), or
           \* "overrun" (a write behind the end of the arena)

vars == <<len, text, rc, var, temps, gc, status>>

(***************************************************************************)
(* Helpers                                                                 *)
(***************************************************************************)
Slots    == 0 .. len - 1
Literals == 0 .. NumLits - 1
Lowest(S, i) == i \in S /\ \A j \in S : i <= j

Ready == status = "run"

\* A failed assertion, or undefined behaviour: nothing is said of what follows.
Fail(why) ==
  /\ status' = why
  /\ UNCHANGED <<len, text, rc, var, temps, gc>>

\* temps without its last n operands, with i
Replaced(n, i) == Append(SubSeq(temps, 1, Len(temps) - n), i)

\* Mutant: a string without references keeps its characters.
Blanked_Keeps(t, r) == t
\* Mutant: the last but one reference already frees the characters.
Blanked_TooEarly(t, r) == [i \in DOMAIN t |-> IF r[i] <= 1 THEN Empty ELSE t[i]]
\* _str_decref empties the strings whose count r is zero.
Blanked(t, r) == [i \in DOMAIN t |-> IF r[i] = 0 THEN Empty ELSE t[i]]

\* uint8_t n, decremented k times
Dec8(n, k) == (n - k) % RcMod
Uses(q, i) == Cardinality({j \in DOMAIN q : q[j] = i})

(***************************************************************************)
(* New strings                                                             *)
(***************************************************************************)
FreeSlots == {i \in Slots : rc[i] = 0}

\* _store_str takes the first slot that is not counted ...
Stored(i, t) ==
  /\ Lowest(FreeSlots, i)
  /\ text' = [text EXCEPT ![i] = t] /\ rc' = [rc EXCEPT ![i] = 1]
  /\ UNCHANGED len

\* ... or doubles the arena, and takes the second one of the new slots.
GrownLen == IF len = 0 THEN FirstLen ELSE 2 * len
StoredGrown(i, t) ==
  /\ FreeSlots = {} /\ i = len + 1
  /\ GrownLen <= MaxLen
  /\ len'  = GrownLen
  /\ text' = [j \in 0 .. GrownLen - 1 |->
                IF j = i THEN t ELSE IF j \in Slots THEN text[j] ELSE Empty]
  /\ rc'   = [j \in 0 .. GrownLen - 1 |->
                IF j = i THEN 1 ELSE IF j \in Slots THEN rc[j] ELSE 0]

\* The index is outside the arena even after it has grown.
Overruns == FreeSlots = {} /\ len + 1 >= GrownLen

\* A new string, with the one reference that _gc_to_visit holds, replaces the
\* last n operands.
Store(n, t) ==
  /\ Len(gc) < GcBound
  /\ IF Overruns THEN Fail("overrun")
     ELSE
        /\ \E i \in 0 .. MaxLen - 1 :
             /\ Stored(i, t) \/ StoredGrown(i, t)
             /\ temps' = Replaced(n, i)
             /\ gc'    = Append(gc, i)
        /\ UNCHANGED <<var, status>>

\* _find_str_index finds the first slot with the same characters, in use or not;
\* the string found gets no reference.
_streq(i, t) == text[i] = t
Known(t)     == {i \in Slots : _streq(i, t)}
Intern(n, t) ==
  \/ /\ Known(t) # {}
     /\ \E i \in Slots : Lowest(Known(t), i) /\ temps' = Replaced(n, i)
     /\ UNCHANGED <<len, text, rc, var, gc, status>>
  \/ Known(t) = {} /\ Store(n, t)

\* make_str, called by tostring and type, which never return ""
make_str(t) ==
  /\ Ready /\ Len(temps) < TempBound /\ t # Empty
  /\ Intern(0, t)

\* _concat of two operands, or of one and a number: the result is "" exactly if
\* both operands are.
Operand(k) == text[temps[Len(temps) - k]]
_concat(t) ==
  /\ Ready
  /\ \/ /\ Len(temps) >= 2
        /\ t = Empty <=> Operand(0) = Empty /\ Operand(1) = Empty
        /\ Intern(2, t)
     \/ /\ Len(temps) >= 1
        /\ t # Empty
        /\ Intern(1, t)

\* sub(s, i, j) asserts j > i: its result is never "", and never looked up.
sub(t) ==
  /\ Ready /\ Len(temps) >= 1 /\ t # Empty
  /\ Store(1, t)

(***************************************************************************)
(* References                                                              *)
(***************************************************************************)

\* A literal or a variable as an operand
Load(i) ==
  /\ Ready /\ Len(temps) < TempBound /\ i # Null
  /\ temps' = Append(temps, i)
  /\ UNCHANGED <<len, text, rc, var, gc, status>>

\* The end of a statement
Discard ==
  /\ Ready /\ temps # <<>>
  /\ temps' = <<>>
  /\ UNCHANGED <<len, text, rc, var, gc, status>>

\* _incref asserts that the count is below the limit.
AtLimit(i) == rc[i] >= RcLimit

\* The counts after _incref(i) and after _decref(i)
Counted(r, i)  == IF i = Null THEN r ELSE [r EXCEPT ![i] = @ + 1]
Released(r, i) == IF i = Null THEN r ELSE [r EXCEPT ![i] = Dec8(@, 1)]

\* Mutant: the old string is not released.
set_KeepsOld(v, i) ==
  /\ Ready /\ ~AtLimit(i)
  /\ rc'   = Counted(rc, i)
  /\ var'  = [var EXCEPT ![v] = i]
  /\ UNCHANGED <<len, text, temps, gc, status>>
\* _set(&v, i), for an operand of an assignment or an argument of a call
set(v, i) ==
  /\ Ready
  /\ IF AtLimit(i) THEN Fail("limit")
     ELSE LET counted == Counted(rc, i)
              old     == var[v] IN
          IF old # Null /\ counted[old] = 0 THEN Fail("dead")
          ELSE /\ rc'   = Released(counted, old)
               /\ text' = Blanked(text, rc')
               /\ var'  = [var EXCEPT ![v] = i]
               /\ UNCHANGED <<len, temps, gc, status>>

\* A local goes out of scope (__decref), or is assigned a number.
Leave(v) ==
  /\ Ready /\ var[v] # Null
  /\ IF rc[var[v]] = 0 THEN Fail("dead")
     ELSE /\ rc'   = Released(rc, var[v])
          /\ text' = Blanked(text, rc')
          /\ var'  = [var EXCEPT ![v] = Null]
          /\ UNCHANGED <<len, temps, gc, status>>

\* return v: _mark_for_gc
Return(v) ==
  /\ Ready /\ var[v] # Null /\ Len(temps) < TempBound /\ Len(gc) < GcBound
  /\ IF AtLimit(var[v]) THEN Fail("limit")
     ELSE /\ rc'    = Counted(rc, var[v])
          /\ gc'    = Append(gc, var[v])
          /\ temps' = Append(temps, var[v])
          /\ UNCHANGED <<len, text, var, status>>

\* run_gc, between two statements
run_gc ==
  /\ Ready /\ temps = <<>> /\ gc # <<>>
  /\ rc'   = [i \in Slots |-> Dec8(rc[i], Uses(gc, i))]
  /\ text' = Blanked(text, rc')
  /\ gc'   = <<>>
  /\ UNCHANGED <<len, var, temps, status>>

(***************************************************************************)
(* Specification                                                           *)
(***************************************************************************)

\* __preinit: each literal has a reference of its own (CONSTSTR) and the one of
\* the C variable that holds it.
Init ==
  /\ len = NumLits
  /\ text \in {f \in [Literals -> Texts] : \A i, j \in Literals : f[i] = f[j] => i = j}
  /\ rc = [i \in Literals |-> 2]
  /\ var = [v \in Vars |-> Null]
  /\ temps = <<>> /\ gc = <<>> /\ status = "run"

Stopped == status # "run" /\ UNCHANGED vars

\* CarefulNext: programs are careful with operands.  One whose slot is not in
\* use ("", found in an empty slot) is consumed before another string is made,
\* and the last reference to the string of an operand is not given up before
\* the operand is consumed.
Anchored      == \A j \in DOMAIN temps : rc[temps[j]] > 0
KeepsTemps(v) ==
  var[v] # Null /\ rc[var[v]] = 1 => \A j \in DOMAIN temps : temps[j] # var[v]

Next ==
  \/ \E t \in Texts : make_str(t) \/ _concat(t) \/ sub(t)
  \/ \E i \in Literals : Load(i)
  \/ \E v \in Vars :
       \/ Load(var[v]) \/ Return(v) \/ Leave(v)
       \/ \E j \in DOMAIN temps : set(v, temps[j])
  \/ Discard \/ run_gc \/ Stopped

CarefulNext ==
  \/ Anchored /\ \E t \in Texts : make_str(t) \/ _concat(t) \/ sub(t)
  \/ \E i \in Literals : Load(i)
  \/ \E v \in Vars :
       \/ Load(var[v]) \/ Return(v)
       \/ KeepsTemps(v) /\ Leave(v)
       \/ \E j \in DOMAIN temps :
            (KeepsTemps(v) \/ temps[j] = var[v]) /\ set(v, temps[j])
  \/ Discard \/ run_gc \/ Stopped

Spec        == Init /\ [][Next]_vars
CarefulSpec == Init /\ [][CarefulNext]_vars

(***************************************************************************)
(* Properties                                                              *)
(***************************************************************************)
\* The count of a string is the number of variables and of entries of
\* _gc_to_visit that refer to it; literals have two references more, for ever.
StrRefcountExact ==
  \A i \in Slots :
    rc[i] = Cardinality({v \in Vars : var[v] = i}) + Uses(gc, i)
              + (IF i \in Literals THEN 2 ELSE 0)

\* A slot that is not counted has no characters: a lookup finds no dead string,
\* other than "".
FreedIsEmpty == \A i \in Slots : rc[i] = 0 => text[i] = Empty

\* The strings that variables and operands refer to
TextOf(i) == IF i = Null THEN Null ELSE text[i]
Values == INSTANCE StrValues WITH
  value <- [v \in Vars |-> TextOf(var[v])],
  operands <- [j \in DOMAIN temps |-> TextOf(temps[j])]

\* Strings are values: no string of a variable or an operand changes because
\* another one is made, released or collected.
ImplementsValues == Values!Spec

\* Does not hold: the other store of a string, at lua.c:586, asserts that the
\* index is not behind the end of the arena.
StoredInArena == status # "overrun"
=============================================================================
