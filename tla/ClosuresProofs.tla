--------------------------- MODULE ClosuresProofs ---------------------------
(***************************************************************************)
(* Proofs about Closures, for any number of variables, functions and       *)
(* environments, and any lengths of the arena.                             *)
(***************************************************************************)
EXTENDS Closures, FiniteSetTheorems, SequenceTheorems, TLAPS

(***************************************************************************)
(* Counting the calls in progress                                          *)
(***************************************************************************)
Of(t, s) == {i \in DOMAIN s : s[i] = t}

LEMMA OfFinite ==
  ASSUME NEW s \in Seq(Tables), NEW t
  PROVE  /\ IsFiniteSet(Of(t, s)) /\ Cardinality(Of(t, s)) \in Nat
         /\ \A i \in DOMAIN s : s[i] = t => Cardinality(Of(t, s)) > 0
  <1>1. IsFiniteSet(1 .. Len(s)) /\ Of(t, s) \subseteq 1 .. Len(s)
    BY FS_Interval DEF Of
  <1>2. IsFiniteSet(Of(t, s)) /\ Cardinality(Of(t, s)) \in Nat
    BY <1>1, FS_Subset, FS_CardinalityType
  <1>3. ASSUME NEW i \in DOMAIN s, s[i] = t PROVE Cardinality(Of(t, s)) > 0
    <2>1. Of(t, s) # {}
      BY <1>3 DEF Of
    <2> QED BY <1>2, <2>1, FS_EmptySet
  <1> QED BY <1>2, <1>3

LEMMA OfPushed ==
  ASSUME NEW s \in Seq(Tables), NEW e \in Tables, NEW t
  PROVE  Cardinality(Of(t, Append(s, e))) = Cardinality(Of(t, s)) + (IF t = e THEN 1 ELSE 0)
  <1>1. CASE t = e
    <2>1. Of(t, Append(s, e)) = Of(t, s) \cup {Len(s) + 1} /\ Len(s) + 1 \notin Of(t, s)
      BY <1>1 DEF Of
    <2> QED BY <1>1, <2>1, OfFinite, FS_AddElement
  <1>2. CASE t # e
    <2>1. Of(t, Append(s, e)) = Of(t, s)
      BY <1>2 DEF Of
    <2> QED BY <1>2, <2>1, OfFinite
  <1> QED BY <1>1, <1>2

Popped(s) == SubSeq(s, 1, Len(s) - 1)

LEMMA OfPopped ==
  ASSUME NEW s \in Seq(Tables), s # <<>>, NEW t
  PROVE  /\ Popped(s) \in Seq(Tables) /\ s[Len(s)] \in Tables
         /\ Cardinality(Of(t, s))
              = Cardinality(Of(t, Popped(s))) + (IF t = s[Len(s)] THEN 1 ELSE 0)
  <1>1. Popped(s) \in Seq(Tables) /\ s[Len(s)] \in Tables /\ s = Append(Popped(s), s[Len(s)])
    BY DEF Popped
  <1>2. DEFINE p == Popped(s)  e == s[Len(s)]
  <1>3. Cardinality(Of(t, Append(p, e))) = Cardinality(Of(t, p)) + (IF t = e THEN 1 ELSE 0)
    BY <1>1, OfPushed
  <1> QED BY <1>1, <1>3

\* The tables of the calls in progress
Held(s) == {s[i] : i \in DOMAIN s}

LEMMA HeldPushed ==
  ASSUME NEW s \in Seq(Tables), NEW e \in Tables
  PROVE  Held(Append(s, e)) = Held(s) \cup {e}
  <1> DEFINE a == Append(s, e)
  <1>1. /\ DOMAIN s = 1 .. Len(s) /\ DOMAIN a = 1 .. Len(s) + 1 /\ Len(s) \in Nat
        /\ \A i \in 1 .. Len(s) : a[i] = s[i]
        /\ a[Len(s) + 1] = e
    OBVIOUS
  <1>2. \A i \in DOMAIN a : i \in DOMAIN s \/ i = Len(s) + 1
    BY <1>1
  <1>3. Len(s) + 1 \in DOMAIN a /\ DOMAIN s \subseteq DOMAIN a
    BY <1>1
  <1> HIDE DEF a
  <1>4. Held(a) = Held(s) \cup {e}
    BY <1>1, <1>2, <1>3 DEF Held
  <1> QED BY <1>4 DEF a

LEMMA HeldPopped ==
  ASSUME NEW s \in Seq(Tables), s # <<>>
  PROVE  Held(Popped(s)) \subseteq Held(s)
  <1>1. Popped(s) \in Seq(Tables) /\ s[Len(s)] \in Tables /\ s = Append(Popped(s), s[Len(s)])
    BY DEF Popped
  <1>2. Held(Append(Popped(s), s[Len(s)])) = Held(Popped(s)) \cup {s[Len(s)]}
    BY <1>1, HeldPushed
  <1> QED BY <1>1, <1>2

(***************************************************************************)
(* The inductive invariant                                                 *)
(***************************************************************************)

\* A variable holds the index of a slot in use.
VarsHeld == \A v \in Vars : var[v] # Null => funcs[var[v]] \in Fun

ClosInv == ClosTypeOK /\ FunsUnique /\ EnvCountExact /\ VarsHeld

LEMMA CountExactDef ==
  EnvCountExact <=> \A t \in Tables : rc[t] = Cardinality(Of(t, calls)) + (IF t \in gc THEN 1 ELSE 0)
  BY DEF EnvCountExact, Of

LEMMA ClosInit == Init => ClosInv
  <1> SUFFICES ASSUME Init PROVE ClosInv
    OBVIOUS
  <1>1. ClosTypeOK
    <2>1. funcs \in [0 .. 0 - 1 -> Fun \cup {NoFun}] /\ 0 \in 0 .. MaxLen
      BY ClosuresAssumption DEF Init, ClosuresAssumption
    <2> QED BY <2>1, ClosuresAssumption DEF Init, ClosTypeOK, ClosuresAssumption, Slots
  <1>2. FunsUnique /\ VarsHeld
    BY DEF Init, FunsUnique, Slots, VarsHeld
  <1>3. EnvCountExact
    <2>1. \A t : Of(t, calls) = {}
      BY DEF Init, Of
    <2> QED BY <2>1, FS_EmptySet, CountExactDef DEF Init
  <1> QED BY <1>1, <1>2, <1>3 DEF ClosInv

(***************************************************************************)
(* The arena of functions                                                  *)
(***************************************************************************)

\* What make_fun does to the arena: f is in slot i.
Placed(i, f) == Stored(i, f) \/ Found(i, f) \/ Overwritten(i, f)

LEMMA ArenaLength ==
  ASSUME ClosTypeOK, NEW i, NEW f, Overwritten(i, f)
  PROVE  /\ NewLen \in 1 .. MaxLen /\ Slots \subseteq 0 .. NewLen - 1
         /\ Slots' = 0 .. NewLen - 1
  <1>1. PICK n \in 0 .. MaxLen : funcs \in [0 .. n - 1 -> Fun \cup {NoFun}]
    BY DEF ClosTypeOK
  <1>2. Slots = 0 .. n - 1 /\ Cardinality(Slots) = n
    <2>1. Slots = 0 .. n - 1 /\ n \in Nat
      BY <1>1, ClosuresAssumption DEF Slots, ClosuresAssumption
    <2>2. Cardinality(0 .. n - 1) = n
      BY <2>1, FS_Interval
    <2> QED BY <2>1, <2>2
  <1>3. NewLen <= MaxLen
    BY DEF Overwritten
  <1>4. NewLen \in Nat /\ NewLen > 0 /\ NewLen >= n
    <2>1. CASE n = 0
      BY <1>2, <2>1, ClosuresAssumption DEF NewLen, ClosuresAssumption
    <2>2. CASE n > 0
      <3>1. 0 \in Slots
        BY <1>2, <2>2
      <3> QED BY <1>2, <2>2, <3>1 DEF NewLen
    <2> QED BY <1>1, <2>1, <2>2, ClosuresAssumption DEF ClosuresAssumption
  <1>5. Slots' = 0 .. NewLen - 1
    BY DEF Overwritten, Slots
  <1> QED BY <1>1, <1>2, <1>3, <1>4, <1>5, ClosuresAssumption DEF ClosuresAssumption

LEMMA ArenaStep ==
  ASSUME ClosTypeOK, FunsUnique, NEW i, NEW f \in Fun, Placed(i, f)
  PROVE  /\ \E n \in 0 .. MaxLen : funcs' \in [0 .. n - 1 -> Fun \cup {NoFun}]
         /\ Slots \subseteq Slots' /\ i \in Slots' /\ funcs'[i] = f
         /\ FunsUnique'
  <1>1. PICK n \in 0 .. MaxLen : funcs \in [0 .. n - 1 -> Fun \cup {NoFun}]
    BY DEF ClosTypeOK
  <1>2. Slots = 0 .. n - 1 /\ n \in Int
    BY <1>1, ClosuresAssumption DEF Slots, ClosuresAssumption
  <1>3. CASE Stored(i, f)
    BY <1>1, <1>3 DEF Stored, Lowest, Same, Slots, FunsUnique
  <1>4. CASE Found(i, f)
    <2>1. i \in Slots /\ funcs[i] = NoFun /\ \A j \in Slots : funcs[j] = NoFun => i <= j
      BY <1>4 DEF Found, Lowest, Empty
    <2>2. funcs' = [funcs EXCEPT ![i] = f] /\ \A j \in Slots : funcs[j] # f
      BY <1>4 DEF Found, Same
    <2>3. funcs' \in [0 .. n - 1 -> Fun \cup {NoFun}] /\ Slots' = Slots
      BY <1>1, <2>2 DEF Slots
    <2>4. FunsUnique'
      <3> SUFFICES ASSUME NEW j \in Slots, NEW k \in Slots, j < k
                   PROVE  /\ funcs'[j] = NoFun => funcs'[k] = NoFun
                          /\ funcs'[k] # NoFun => funcs'[j] # funcs'[k]
        BY <2>3 DEF FunsUnique
      <3>1. /\ funcs[j] = NoFun => funcs[k] = NoFun
            /\ funcs[k] # NoFun => funcs[j] # funcs[k]
        BY DEF FunsUnique
      <3>2. \A l \in Slots : funcs'[l] = IF l = i THEN f ELSE funcs[l]
        BY <2>2 DEF Slots
      <3>3. funcs[j] = NoFun => i <= j
        BY <2>1
      <3>4. i \in Int /\ j \in Int /\ k \in Int
        BY <1>2, <2>1
      <3>5. CASE j = i
        <4>1. funcs[k] = NoFun /\ k # i
          BY <2>1, <3>1, <3>4, <3>5
        <4> QED BY <3>2, <3>5, <4>1, FunAssumption DEF FunAssumption
      <3>6. CASE k = i
        <4>1. funcs[j] # NoFun /\ j # i
          BY <3>3, <3>4, <3>6
        <4> QED BY <2>2, <3>2, <3>6, <4>1, FunAssumption DEF FunAssumption
      <3> QED BY <3>1, <3>2, <3>5, <3>6
    <2> QED BY <2>1, <2>2, <2>3, <2>4 DEF Slots
  <1>5. CASE Overwritten(i, f)
    <2>1. NewLen \in 1 .. MaxLen /\ Slots \subseteq 0 .. NewLen - 1 /\ Slots' = 0 .. NewLen - 1
      BY <1>5, ArenaLength
    <2>2. /\ i = 0 /\ \A j \in Slots : funcs[j] # NoFun /\ funcs[j] # f
          /\ funcs' = [j \in 0 .. NewLen - 1 |->
                         IF j = 0 THEN f ELSE IF j \in Slots THEN funcs[j] ELSE NoFun]
      BY <1>5 DEF Overwritten, Same, Empty
    <2>3. \A j \in 0 .. NewLen - 1 :
            funcs'[j] = IF j = 0 THEN f ELSE IF j \in Slots THEN funcs[j] ELSE NoFun
      BY <2>2
    <2>4. funcs' \in [0 .. NewLen - 1 -> Fun \cup {NoFun}]
      BY <1>1, <1>2, <2>2
    <2>5. FunsUnique'
      <3> SUFFICES ASSUME NEW j \in Slots', NEW k \in Slots', j < k
                   PROVE  /\ funcs'[j] = NoFun => funcs'[k] = NoFun
                          /\ funcs'[k] # NoFun => funcs'[j] # funcs'[k]
        BY DEF FunsUnique
      <3>1. j \in 0 .. NewLen - 1 /\ k \in 0 .. NewLen - 1 /\ k # 0 /\ NewLen \in Int
        BY <2>1
      <3>2. k \in Slots => j \in Slots
        BY <1>2, <3>1
      <3>3. funcs'[k] = IF k \in Slots THEN funcs[k] ELSE NoFun
        BY <2>3, <3>1
      <3>4. funcs'[j] = IF j = 0 THEN f ELSE IF j \in Slots THEN funcs[j] ELSE NoFun
        BY <2>3, <3>1
      <3>5. j \in Slots /\ k \in Slots /\ funcs[k] # NoFun => funcs[j] # funcs[k]
        BY DEF FunsUnique
      <3>6. f # NoFun
        BY FunAssumption DEF FunAssumption
      <3> QED BY <2>2, <3>2, <3>3, <3>4, <3>5, <3>6
    <2>6. i \in Slots' /\ funcs'[i] = f
      BY <2>1, <2>2, <2>3
    <2>7. NewLen \in 0 .. MaxLen
      BY <2>1
    <2> QED BY <2>1, <2>4, <2>5, <2>6, <2>7
  <1> QED BY <1>3, <1>4, <1>5 DEF Placed

(***************************************************************************)
(* Steps                                                                   *)
(***************************************************************************)
LEMMA MakeInv ==
  ASSUME ClosInv, NEW v \in Vars, NEW c \in Lambdas \cup Plain, NEW e \in Tables \cup {NoEnv},
         make_fun(v, c, e), KeepsFuns
  PROVE  ClosInv'
  <1> DEFINE f == [code |-> c, env |-> e]
  <1>1. PICK i : Placed(i, f) /\ var' = [var EXCEPT ![v] = i]
    BY DEF make_fun, Placed
  <1>2. UNCHANGED <<rc, count, calls, gc, status>>
    BY DEF make_fun
  <1>3. f \in Fun
    BY DEF Fun
  <1>4. /\ \E n \in 0 .. MaxLen : funcs' \in [0 .. n - 1 -> Fun \cup {NoFun}]
        /\ Slots \subseteq Slots' /\ i \in Slots' /\ funcs'[i] = f /\ FunsUnique'
    BY <1>1, <1>3, ArenaStep DEF ClosInv
  <1>5. ClosTypeOK'
    <2>1. var' \in [Vars -> Slots' \cup {Null}]
      BY <1>1, <1>4 DEF ClosInv, ClosTypeOK
    <2> QED BY <1>2, <1>4, <2>1 DEF ClosInv, ClosTypeOK, Fun, Tables
  <1>6. EnvCountExact'
    BY <1>2 DEF ClosInv, EnvCountExact
  <1>7. VarsHeld'
    BY <1>1, <1>3, <1>4 DEF ClosInv, ClosTypeOK, VarsHeld, KeepsFuns
  <1> QED BY <1>4, <1>5, <1>6, <1>7 DEF ClosInv

\* A step that leaves functions and variables alone
LEMMA CountsInv ==
  ASSUME ClosInv, UNCHANGED <<funcs, var>>,
         rc' \in [Tables -> 0 .. RcLimit], count' \in [Tables -> 0 .. MaxCount],
         calls' \in Seq(Tables), gc' \subseteq Tables, status' \in {"run", "limit", "freed"},
         \A t \in Tables : rc'[t] = Cardinality(Of(t, calls')) + (IF t \in gc' THEN 1 ELSE 0)
  PROVE  ClosInv'
  <1>1. EnvCountExact'
    BY DEF EnvCountExact, Of
  <1>2. ClosTypeOK'
    BY DEF ClosInv, ClosTypeOK, Slots, Fun, Tables
  <1>3. FunsUnique' /\ VarsHeld'
    BY DEF ClosInv, FunsUnique, VarsHeld, Slots, Fun, Tables
  <1> QED BY <1>1, <1>2, <1>3 DEF ClosInv

LEMMA CountedBy ==
  ASSUME ClosInv
  PROVE  /\ rc \in [Tables -> 0 .. RcLimit] /\ count \in [Tables -> 0 .. MaxCount]
         /\ calls \in Seq(Tables) /\ gc \subseteq Tables /\ status \in {"run", "limit", "freed"}
         /\ \A t \in Tables : /\ Cardinality(Of(t, calls)) \in Nat
                              /\ rc[t] = Cardinality(Of(t, calls)) + (IF t \in gc THEN 1 ELSE 0)
         /\ RcLimit \in Nat /\ RcLimit > 2 /\ MaxCount \in Nat
  BY CountExactDef, OfFinite, ClosuresAssumption DEF ClosInv, ClosTypeOK, ClosuresAssumption

\* A blank count is within its bound.
LEMMA BlankedType ==
  ASSUME count \in [Tables -> 0 .. MaxCount], MaxCount \in Nat, NEW r
  PROVE  Blanked(count, r) \in [Tables -> 0 .. MaxCount]
  BY DEF Blanked

LEMMA EnterInv ==
  ASSUME ClosInv, Enter
  PROVE  ClosInv'
  <1>1. PICK e \in Tables : /\ Lowest({t \in Tables : rc[t] = 0}, e)
                            /\ rc' = [rc EXCEPT ![e] = 2] /\ count' = [count EXCEPT ![e] = 0]
                            /\ calls' = Append(calls, e) /\ gc' = gc \cup {e}
                            /\ UNCHANGED <<funcs, var, status>>
    BY DEF Enter
  <1>2. rc[e] = 0
    BY <1>1 DEF Lowest
  <1>3. \A t \in Tables : Cardinality(Of(t, calls')) = Cardinality(Of(t, calls)) + (IF t = e THEN 1 ELSE 0)
    BY <1>1, OfPushed, CountedBy
  <1>4. \A t \in Tables : rc'[t] = Cardinality(Of(t, calls')) + (IF t \in gc' THEN 1 ELSE 0)
    <2> TAKE t \in Tables
    <2>1. rc[t] = Cardinality(Of(t, calls)) + (IF t \in gc THEN 1 ELSE 0)
      BY CountedBy
    <2>2. rc'[t] = IF t = e THEN 2 ELSE rc[t]
      BY <1>1, CountedBy
    <2>3. Cardinality(Of(t, calls)) \in Nat
      BY CountedBy
    <2>4. Cardinality(Of(t, calls')) = Cardinality(Of(t, calls)) + (IF t = e THEN 1 ELSE 0)
      BY <1>3
    <2> QED BY <1>1, <1>2, <2>1, <2>2, <2>3, <2>4
  <1>5. calls' \in Seq(Tables) /\ rc' \in [Tables -> 0 .. RcLimit] /\ count' \in [Tables -> 0 .. MaxCount]
    BY <1>1, CountedBy
  <1> QED BY <1>1, <1>4, <1>5, CountsInv, CountedBy

LEMMA CallInv ==
  ASSUME ClosInv, NEW v \in Vars, __call(v)
  PROVE  ClosInv'
  <1> DEFINE e == funcs[var[v]].env
  <1>1. var[v] # Null /\ funcs[var[v]] \in Fun
    BY DEF __call, ClosInv, VarsHeld
  <1>2. CASE UNCHANGED vars
    BY <1>2, CountedBy, CountsInv DEF vars
  <1>3. CASE Fail("freed") \/ Fail("limit")
    BY <1>3, CountedBy, CountsInv DEF Fail
  <1>4. CASE /\ e # NoEnv /\ rc[e] < RcLimit /\ count[e] < MaxCount
             /\ rc' = Handed(e) /\ count' = [count EXCEPT ![e] = @ + 1]
             /\ calls' = Append(calls, e) /\ UNCHANGED <<funcs, var, gc, status>>
    <2>1. e \in Tables
      BY <1>1, <1>4 DEF Fun
    <2>2. \A t \in Tables : Cardinality(Of(t, calls')) = Cardinality(Of(t, calls)) + (IF t = e THEN 1 ELSE 0)
      BY <1>4, <2>1, OfPushed, CountedBy
    <2>3. \A t \in Tables : rc'[t] = IF t = e THEN rc[t] + 1 ELSE rc[t]
      BY <1>4, <2>1, CountedBy DEF Handed
    <2>4. \A t \in Tables : rc'[t] = Cardinality(Of(t, calls')) + (IF t \in gc' THEN 1 ELSE 0)
      <3> TAKE t \in Tables
      <3>1. rc[t] = Cardinality(Of(t, calls)) + (IF t \in gc THEN 1 ELSE 0)
        BY CountedBy
      <3>2. Cardinality(Of(t, calls)) \in Nat
        BY CountedBy
      <3>3. Cardinality(Of(t, calls')) = Cardinality(Of(t, calls)) + (IF t = e THEN 1 ELSE 0)
        BY <2>2
      <3>4. gc' = gc /\ rc'[t] = IF t = e THEN rc[t] + 1 ELSE rc[t]
        BY <1>4, <2>3
      <3> HIDE DEF e
      <3> QED BY <3>1, <3>2, <3>3, <3>4
    <2>5. calls' \in Seq(Tables)
      BY <1>4, <2>1, CountedBy
    <2>6. rc' \in [Tables -> 0 .. RcLimit]
      <3>1. rc[e] \in 0 .. RcLimit /\ rc[e] < RcLimit /\ RcLimit \in Nat
        BY <1>4, <2>1, CountedBy
      <3>2. rc[e] + 1 \in 0 .. RcLimit
        <4> HIDE DEF e
        <4> QED BY <3>1
      <3> QED BY <1>4, <2>1, <3>2, CountedBy DEF Handed
    <2>7. count' \in [Tables -> 0 .. MaxCount]
      <3>1. count[e] \in 0 .. MaxCount /\ count[e] < MaxCount /\ MaxCount \in Nat
        BY <1>4, <2>1, CountedBy
      <3>2. count[e] + 1 \in 0 .. MaxCount
        <4> HIDE DEF e
        <4> QED BY <3>1
      <3> QED BY <1>4, <2>1, <3>2, CountedBy
    <2> QED BY <1>4, <2>4, <2>5, <2>6, <2>7, CountsInv, CountedBy
  <1>5. e # NoEnv /\ rc[e] # 0 /\ ~(rc[e] >= RcLimit) => rc[e] < RcLimit
    BY <1>1, CountedBy DEF Fun
  <1> QED BY <1>2, <1>3, <1>4, <1>5 DEF __call

LEMMA LeaveInv ==
  ASSUME ClosInv, Leave
  PROVE  ClosInv'
  <1> DEFINE e == calls[Len(calls)]
  <1>1. /\ calls # <<>> /\ rc' = [rc EXCEPT ![e] = @ - 1] /\ count' = Blanked(count, rc')
        /\ calls' = Popped(calls) /\ UNCHANGED <<funcs, var, gc, status>>
    BY DEF Leave, Popped
  <1>2. /\ calls' \in Seq(Tables) /\ e \in Tables
        /\ \A t : Cardinality(Of(t, calls)) = Cardinality(Of(t, calls')) + (IF t = e THEN 1 ELSE 0)
    BY <1>1, OfPopped, CountedBy
  <1>3. \A t \in Tables : Cardinality(Of(t, calls')) \in Nat
    BY <1>2, OfFinite
  <1>4. \A t \in Tables : rc'[t] = IF t = e THEN rc[t] - 1 ELSE rc[t]
    BY <1>1, <1>2, CountedBy
  <1>5. \A t \in Tables : rc'[t] = Cardinality(Of(t, calls')) + (IF t \in gc' THEN 1 ELSE 0)
    <2> TAKE t \in Tables
    <2>1. rc[t] = Cardinality(Of(t, calls)) + (IF t \in gc THEN 1 ELSE 0)
      BY CountedBy
    <2>2. Cardinality(Of(t, calls)) = Cardinality(Of(t, calls')) + (IF t = e THEN 1 ELSE 0)
      BY <1>2
    <2>3. Cardinality(Of(t, calls')) \in Nat /\ gc' = gc
      BY <1>1, <1>3
    <2>4. rc'[t] = IF t = e THEN rc[t] - 1 ELSE rc[t]
      BY <1>4
    <2> HIDE DEF e
    <2> QED BY <2>1, <2>2, <2>3, <2>4
  <1>6. rc' \in [Tables -> 0 .. RcLimit]
    <2>1. \A t \in Tables : rc'[t] \in 0 .. RcLimit
      <3> TAKE t \in Tables
      <3>1. rc[t] \in 0 .. RcLimit /\ RcLimit \in Nat
        BY CountedBy
      <3>2. rc'[t] >= 0 /\ rc'[t] \in Int
        BY <1>3, <1>5
      <3>3. rc'[t] = IF t = e THEN rc[t] - 1 ELSE rc[t]
        BY <1>4
      <3> HIDE DEF e
      <3> QED BY <3>1, <3>2, <3>3
    <2> QED BY <1>1, <2>1, CountedBy
  <1>7. count' \in [Tables -> 0 .. MaxCount]
    BY <1>1, BlankedType, CountedBy
  <1> QED BY <1>1, <1>2, <1>5, <1>6, <1>7, CountsInv, CountedBy

LEMMA GcInv ==
  ASSUME ClosInv, run_gc
  PROVE  ClosInv'
  <1>1. /\ rc' = [t \in Tables |-> IF t \in gc THEN rc[t] - 1 ELSE rc[t]]
        /\ count' = Blanked(count, rc') /\ gc' = {} /\ UNCHANGED <<funcs, var, calls, status>>
    BY DEF run_gc
  <1>2. \A t \in Tables : rc'[t] = Cardinality(Of(t, calls')) + (IF t \in gc' THEN 1 ELSE 0)
    BY <1>1, CountedBy
  <1>3. \A t \in Tables : rc'[t] \in 0 .. RcLimit
    BY <1>1, CountedBy
  <1>4. rc' \in [Tables -> 0 .. RcLimit] /\ count' \in [Tables -> 0 .. MaxCount]
    BY <1>1, <1>3, BlankedType, CountedBy
  <1> QED BY <1>1, <1>2, <1>4, CountsInv, CountedBy

LEMMA SetInv ==
  ASSUME ClosInv, NEW v \in Vars, NEW x \in {Null} \cup {var[w] : w \in Vars}, set(v, x)
  PROVE  ClosInv'
  <1>1. var' = [var EXCEPT ![v] = x] /\ UNCHANGED <<funcs, rc, count, calls, gc, status>>
    BY DEF set
  <1>2. ClosTypeOK'
    <2>1. var' \in [Vars -> Slots' \cup {Null}]
      BY <1>1 DEF ClosInv, ClosTypeOK, Slots
    <2> QED BY <1>1, <2>1 DEF ClosInv, ClosTypeOK, Slots, Fun, Tables
  <1>3. EnvCountExact' /\ FunsUnique'
    BY <1>1 DEF ClosInv, EnvCountExact, FunsUnique, Slots
  <1>4. VarsHeld'
    BY <1>1 DEF ClosInv, ClosTypeOK, VarsHeld, Fun, Tables
  <1> QED BY <1>2, <1>3, <1>4 DEF ClosInv

LEMMA LastCall ==
  ASSUME ClosInv, calls # <<>>
  PROVE  calls[Len(calls)] \in Tables /\ Len(calls) \in DOMAIN calls
  BY DEF ClosInv, ClosTypeOK

LEMMA ClosStep == ClosInv /\ [Next]_vars => ClosInv'
  <1> SUFFICES ASSUME ClosInv, [Next]_vars PROVE ClosInv'
    OBVIOUS
  <1>1. CASE Make /\ KeepsFuns
    <2>1. PICK v \in Vars, c \in Lambdas \cup Plain, e \in Tables \cup {NoEnv} : make_fun(v, c, e)
      BY <1>1, LastCall DEF Make
    <2> QED BY <1>1, <2>1, MakeInv
  <1>2. CASE Assign
    BY <1>2, SetInv DEF Assign
  <1>3. CASE Stopped \/ UNCHANGED vars
    BY <1>3, CountedBy, CountsInv DEF Stopped, vars
  <1> QED BY <1>1, <1>2, <1>3, EnterInv, LeaveInv, GcInv, CallInv DEF Next

\* The inductive invariant: the types, the order of the arena, the exact counts, and
\* that variables hold slots in use.
THEOREM ClosInvAlways == Spec => []ClosInv
  BY ClosInit, ClosStep, PTL DEF Spec

\* Every index stays in the arena, every count and length in its range.
THEOREM ClosuresTypeCorrect == Spec => []ClosTypeOK
  BY ClosInvAlways, PTL DEF ClosInv

\* The scan of make_fun sees all functions, and equal functions share a slot.
THEOREM FunsAlwaysUnique == Spec => []FunsUnique
  BY ClosInvAlways, PTL DEF ClosInv

\* The refcount of an environment is the number of calls that have it, and one for
\* _gc_to_visit.
THEOREM EnvCountAlwaysExact == Spec => []EnvCountExact
  BY ClosInvAlways, PTL DEF ClosInv

(***************************************************************************)
(* Refinement: each step of a careful program is a step of FunValues       *)
(***************************************************************************)

\* The refinement mapping
FunOf     == [v \in Vars |-> IF var[v] = Null THEN Null ELSE funcs[var[v]]]
CounterOf == [t \in Tables |-> IF t \in Reached THEN count[t] ELSE 0]

CarefulInv == ClosInv /\ EnvAlive

NeededIs ==
  Needed = {FunOf[v].env : v \in {w \in Vars : FunOf[w] # Null}} \ {NoEnv}

LEMMA FunOfType ==
  ASSUME ClosInv
  PROVE  /\ FunOf \in [Vars -> Fun \cup {Null}] /\ Null \notin Fun /\ NoEnv \notin Tables
         /\ \A v \in Vars : var[v] = Null <=> FunOf[v] = Null
         /\ NeededIs
         /\ Needed \subseteq Tables
  <1>1. Null \notin Fun /\ NoEnv \notin Tables
    BY FunAssumption, ClosuresAssumption DEF FunAssumption, ClosuresAssumption, Tables
  <1>2. \A v \in Vars : var[v] # Null => FunOf[v] = funcs[var[v]] /\ funcs[var[v]] \in Fun
    BY DEF ClosInv, VarsHeld, FunOf
  <1>3. \A v \in Vars : var[v] = Null <=> FunOf[v] = Null
    BY <1>1, <1>2 DEF FunOf
  <1>4. FunOf \in [Vars -> Fun \cup {Null}]
    BY <1>2 DEF FunOf
  <1>5. NeededIs
    BY <1>2, <1>3 DEF Needed, NeededIs
  <1>6. Needed \subseteq Tables
    BY <1>4, <1>5 DEF Fun, NeededIs
  <1> QED BY <1>1, <1>3, <1>4, <1>5, <1>6

LEMMA NeededAlways == ClosInv => NeededIs
  BY FunOfType

\* What is reached is what FunValues calls reachable.
LEMMA ReachedType ==
  ASSUME ClosInv
  PROVE  Reached \subseteq Tables
  BY FunOfType DEF Reached, ClosInv, ClosTypeOK

SameReach == \A t \in Tables : t \in Values!Reachable <=> t \in Reached

LEMMA ReachableIs == ClosInv => SameReach
  BY FunOfType DEF SameReach, NeededIs, Reached, Values!Reachable, FunOf

\* The environment of every call in progress, and with EnvAlive every environment
\* that can be reached, is in use.
LEMMA ReachedAlive ==
  ASSUME CarefulInv, NEW t \in Reached
  PROVE  rc[t] > 0
  <1>1. CASE t \in Needed
    BY <1>1 DEF CarefulInv, EnvAlive
  <1>2. CASE t \in {calls[i] : i \in DOMAIN calls}
    <2>1. PICK i \in DOMAIN calls : calls[i] = t
      BY <1>2
    <2>2. t \in Tables /\ calls \in Seq(Tables)
      BY <2>1 DEF CarefulInv, ClosInv, ClosTypeOK
    <2>3. Cardinality(Of(t, calls)) > 0 /\ Cardinality(Of(t, calls)) \in Nat
      BY <2>1, <2>2, OfFinite
    <2>4. rc[t] = Cardinality(Of(t, calls)) + (IF t \in gc THEN 1 ELSE 0)
      BY <2>2, CountedBy DEF CarefulInv
    <2> QED BY <2>3, <2>4
  <1> QED BY <1>1, <1>2 DEF Reached

ReachedCounted == \A t \in Reached : rc[t] > 0

LEMMA AllReachedAlive == CarefulInv => ReachedCounted
  BY ReachedAlive DEF ReachedCounted

\* An assignment: no environment becomes reachable that was not.
LEMMA AssignedReach ==
  ASSUME ClosInv, ClosInv', NEW v \in Vars, NEW x \in Fun \cup {Null},
         FunOf' = [FunOf EXCEPT ![v] = x], UNCHANGED <<rc, count, calls>>,
         x # Null => x.env \in Reached \cup {NoEnv}
  PROVE  /\ Reached' \subseteq Reached /\ (CarefulInv => EnvAlive')
         /\ Values!Kept
  <1>0. NeededIs' /\ SameReach'
    <2>1. ClosInv' => NeededIs'
      BY NeededAlways, PTL
    <2>2. ClosInv' => SameReach'
      BY ReachableIs, PTL
    <2> QED BY <2>1, <2>2
  <1>1. Needed' \subseteq Reached
    <2> SUFFICES ASSUME NEW e \in Needed' PROVE e \in Reached
      OBVIOUS
    <2>1. PICK w \in Vars : FunOf'[w] # Null /\ e = FunOf'[w].env /\ e # NoEnv
      BY <1>0 DEF NeededIs
    <2>2. CASE w = v
      BY <2>1, <2>2, FunOfType
    <2>3. CASE w # v
      <3>1. FunOf'[w] = FunOf[w]
        BY <2>3, FunOfType
      <3>2. e \in Needed
        BY <2>1, <3>1, FunOfType DEF NeededIs
      <3> QED BY <3>2 DEF Reached
    <2> QED BY <2>2, <2>3
  <1>2. Reached' \subseteq Reached
    BY <1>1 DEF Reached
  <1>3. ASSUME CarefulInv PROVE EnvAlive'
    BY <1>1, <1>3, ReachedAlive DEF EnvAlive
  <1>4. \A t \in Tables : t \in (Values!Reachable)' <=> t \in Reached'
    BY <1>0 DEF SameReach, Tables
  <1>5. Values!Kept
    BY <1>2, <1>4 DEF Values!Kept, Tables
  <1> QED BY <1>2, <1>3, <1>5

LEMMA MakeStep ==
  ASSUME CarefulInv, NEW v \in Vars, NEW c \in Lambdas \cup Plain, NEW e \in Tables \cup {NoEnv},
         e # NoEnv => calls # <<>> /\ e = calls[Len(calls)],
         make_fun(v, c, e), KeepsFuns
  PROVE  EnvAlive' /\ Values!Make(v, c, e)
  <1> DEFINE f == [code |-> c, env |-> e]
  <1>1. PICK i : Placed(i, f) /\ var' = [var EXCEPT ![v] = i]
    BY DEF make_fun, Placed
  <1>2. UNCHANGED <<rc, count, calls>> /\ ClosInv /\ ClosInv'
    BY MakeInv DEF make_fun, CarefulInv
  <1>3. f \in Fun
    BY DEF Fun
  <1>4. i \in Slots' /\ funcs'[i] = f
    BY <1>1, <1>2, <1>3, ArenaStep DEF ClosInv
  <1>5. i # Null
    <2>1. Slots' \subseteq Int
      BY <1>2, ClosuresAssumption DEF ClosInv, ClosTypeOK, Slots, ClosuresAssumption
    <2> QED BY <1>4, <2>1, ClosuresAssumption DEF ClosuresAssumption
  <1>6. FunOf' = [FunOf EXCEPT ![v] = f]
    <2>1. \A w \in Vars : FunOf'[w] = IF var'[w] = Null THEN Null ELSE funcs'[var'[w]]
      BY DEF FunOf
    <2>2. \A w \in Vars : var'[w] = IF w = v THEN i ELSE var[w]
      BY <1>1, <1>2 DEF ClosInv, ClosTypeOK
    <2>3. \A w \in Vars : FunOf'[w] = IF w = v THEN f ELSE FunOf[w]
      BY <1>4, <1>5, <2>1, <2>2 DEF FunOf, KeepsFuns
    <2>4. FunOf' = [w \in Vars |-> FunOf'[w]]
      BY DEF FunOf
    <2> HIDE DEF f
    <2> QED BY <2>3, <2>4 DEF FunOf
  <1>7. f.env \in Reached \cup {NoEnv}
    BY <1>2, LastCall DEF Reached
  <1>8. EnvAlive' /\ Values!Kept
    BY <1>2, <1>3, <1>6, <1>7, AssignedReach
  <1> QED BY <1>2, <1>6, <1>8 DEF Values!Make, FunOf

LEMMA AssignStep ==
  ASSUME CarefulInv, NEW v \in Vars, NEW x \in {Null} \cup {var[w] : w \in Vars}, set(v, x)
  PROVE  /\ EnvAlive'
         /\ Values!Assign(v, Null) \/ \E w \in Vars : Values!Assign(v, FunOf[w])
  <1> DEFINE f == IF x = Null THEN Null ELSE funcs[x]
  <1>1. var' = [var EXCEPT ![v] = x] /\ UNCHANGED <<funcs, rc, count, calls>> /\ ClosInv /\ ClosInv'
    BY SetInv DEF set, CarefulInv
  <1>2. f = Null \/ \E w \in Vars : f = FunOf[w]
    BY DEF FunOf
  <1>3. FunOf' = [FunOf EXCEPT ![v] = f]
    BY <1>1 DEF FunOf, ClosInv, ClosTypeOK
  <1>4. f \in Fun \cup {Null} /\ (f # Null => f.env \in Reached \cup {NoEnv})
    BY <1>1, <1>2, FunOfType DEF Reached, NeededIs
  <1> HIDE DEF f
  <1>5. EnvAlive' /\ Values!Kept
    BY <1>1, <1>3, <1>4, AssignedReach
  <1>6. CASE f = Null
    <2>1. Values!Assign(v, Null)
      BY <1>1, <1>3, <1>5, <1>6 DEF Values!Assign, FunOf
    <2> QED BY <1>5, <2>1
  <1>7. CASE f # Null
    <2>1. PICK w \in Vars : f = FunOf[w]
      BY <1>2, <1>7
    <2>2. Values!Assign(v, FunOf[w])
      BY <1>1, <1>3, <1>5, <2>1 DEF Values!Assign, FunOf
    <2> QED BY <1>5, <2>2
  <1> QED BY <1>6, <1>7

LEMMA SameFuns ==
  ASSUME UNCHANGED <<funcs, var>>
  PROVE  FunOf' = FunOf /\ Needed' = Needed
  BY DEF FunOf, Needed

LEMMA EnterStep ==
  ASSUME CarefulInv, Enter
  PROVE  EnvAlive' /\ \E e \in Tables : Values!Enter(e)
  <1>1. PICK e \in Tables : /\ Lowest({t \in Tables : rc[t] = 0}, e)
                            /\ rc' = [rc EXCEPT ![e] = 2] /\ count' = [count EXCEPT ![e] = 0]
                            /\ calls' = Append(calls, e)
                            /\ UNCHANGED <<funcs, var>>
    BY DEF Enter
  <1>2. e \notin Reached /\ ClosInv
    BY <1>1, ReachedAlive DEF Lowest, CarefulInv
  <1>3. FunOf' = FunOf /\ Needed' = Needed
    BY <1>1, SameFuns
  <1>4. Reached' = Reached \cup {e}
    <2>1. Held(calls') = Held(calls) \cup {e}
      BY <1>1, <1>2, CountedBy, HeldPushed
    <2> QED BY <1>3, <2>1 DEF Reached, Held
  <1>5. CounterOf' = CounterOf
    BY <1>1, <1>2, <1>4, CountedBy DEF CounterOf, Tables
  <1>6. e \notin Values!Reachable
    BY <1>1, <1>2, ReachableIs DEF SameReach
  <1>7. EnvAlive'
    BY <1>1, <1>2, <1>3, CountedBy, FunOfType DEF EnvAlive, CarefulInv
  <1>8. Values!Enter(e)
    BY <1>1, <1>3, <1>5, <1>6 DEF Values!Enter, FunOf, CounterOf
  <1> QED BY <1>1, <1>7, <1>8

\* Nothing changes but the bookkeeping: what can be reached and is counted stays.
LEMMA StutterStep ==
  ASSUME ClosInv, UNCHANGED <<funcs, var, calls>>, \A t \in Reached : count'[t] = count[t]
  PROVE  UNCHANGED Values!vars
  <1>1. FunOf' = FunOf /\ Needed' = Needed
    BY SameFuns
  <1>2. Reached' = Reached
    BY <1>1 DEF Reached
  <1>3. CounterOf' = CounterOf
    BY <1>2 DEF CounterOf, Tables
  <1> QED BY <1>1, <1>3 DEF Values!vars, FunOf, CounterOf

LEMMA CallStep ==
  ASSUME CarefulInv, NEW v \in Vars, __call(v)
  PROVE  EnvAlive' /\ (Values!Call(v) \/ UNCHANGED Values!vars)
  <1> DEFINE e == funcs[var[v]].env
  <1>1. var[v] # Null /\ funcs[var[v]] \in Fun /\ ClosInv
    BY DEF __call, CarefulInv, ClosInv, VarsHeld
  <1>2. CASE UNCHANGED <<funcs, var, calls, rc, count>>
    BY <1>1, <1>2, StutterStep, SameFuns DEF EnvAlive, CarefulInv
  <1>3. CASE /\ e # NoEnv /\ rc' = Handed(e) /\ count' = [count EXCEPT ![e] = @ + 1]
             /\ calls' = Append(calls, e) /\ UNCHANGED <<funcs, var>>
    <2>1. e \in Tables /\ e \in Reached /\ FunOf[v] = funcs[var[v]] /\ FunOf[v] # Null
      BY <1>1, <1>3, FunOfType DEF Fun, Reached, Needed, FunOf
    <2>2. FunOf' = FunOf /\ Needed' = Needed
      BY <1>3, SameFuns
    <2>3. Reached' = Reached
      <3>1. Held(calls') = Held(calls) \cup {e}
        BY <1>1, <1>3, <2>1, CountedBy, HeldPushed
      <3>2. Reached = Needed \cup Held(calls) /\ Reached' = Needed' \cup Held(calls')
        BY DEF Reached, Held
      <3> HIDE DEF e
      <3> QED BY <2>1, <2>2, <3>1, <3>2
    <2>4. CounterOf' = [CounterOf EXCEPT ![e] = @ + 1]
      BY <1>1, <1>3, <2>1, <2>3, CountedBy DEF CounterOf, Tables
    <2>5. EnvAlive'
      <3> SUFFICES ASSUME NEW t \in Needed PROVE rc'[t] > 0
        BY <2>2 DEF EnvAlive
      <3>1. t \in Tables /\ rc[t] \in Nat /\ rc[t] > 0
        BY <1>1, FunOfType, CountedBy DEF CarefulInv, EnvAlive
      <3>2. rc'[t] = IF t = e THEN rc[t] + 1 ELSE rc[t]
        BY <1>1, <1>3, <2>1, <3>1, CountedBy DEF Handed
      <3> HIDE DEF e
      <3> QED BY <3>1, <3>2
    <2>6. Values!Call(v)
      BY <1>3, <2>1, <2>2, <2>4 DEF Values!Call, FunOf, CounterOf
    <2> QED BY <2>5, <2>6
  <1> QED BY <1>2, <1>3 DEF __call, Fail, vars

LEMMA LeaveStep ==
  ASSUME CarefulInv, Leave, KeepsEnvs
  PROVE  EnvAlive' /\ Values!Leave
  <1>1. /\ calls # <<>> /\ count' = Blanked(count, rc') /\ calls' = Popped(calls)
        /\ UNCHANGED <<funcs, var>> /\ ClosInv /\ ClosInv'
    BY LeaveInv DEF Leave, Popped, CarefulInv
  <1>2. FunOf' = FunOf /\ Needed' = Needed
    BY <1>1, SameFuns
  <1>3. EnvAlive'
    BY <1>2 DEF EnvAlive, KeepsEnvs
  <1>4. \A t \in Reached' : rc'[t] > 0
    <2>1. CarefulInv' => ReachedCounted'
      BY AllReachedAlive, PTL
    <2> QED BY <1>1, <1>3, <2>1 DEF CarefulInv, ReachedCounted
  <1>5. Reached' \subseteq Reached
    <2>1. Held(calls') \subseteq Held(calls)
      BY <1>1, CountedBy, OfPopped, HeldPopped
    <2> QED BY <1>2, <2>1 DEF Reached, Held
  <1>6. SameReach'
    <2>1. ClosInv' => SameReach'
      BY ReachableIs, PTL
    <2> QED BY <1>1, <2>1
  <1>7. \A t \in Tables : t \in Reached' => count'[t] = count[t]
    BY <1>1, <1>4 DEF Blanked
  <1>8. Values!Kept
    BY <1>5, <1>6, <1>7 DEF Values!Kept, SameReach, Tables
  <1> QED BY <1>1, <1>2, <1>3, <1>8 DEF Values!Leave, FunOf, Popped

LEMMA GcStep ==
  ASSUME CarefulInv, run_gc, KeepsEnvs
  PROVE  EnvAlive' /\ UNCHANGED Values!vars
  <1>1. /\ count' = Blanked(count, rc') /\ UNCHANGED <<funcs, var, calls>> /\ ClosInv /\ ClosInv'
    BY GcInv DEF run_gc, CarefulInv
  <1>2. FunOf' = FunOf /\ Needed' = Needed
    BY <1>1, SameFuns
  <1>3. EnvAlive'
    BY <1>2 DEF EnvAlive, KeepsEnvs
  <1>4. \A t \in Reached' : rc'[t] > 0
    <2>1. CarefulInv' => ReachedCounted'
      BY AllReachedAlive, PTL
    <2> QED BY <1>1, <1>3, <2>1 DEF CarefulInv, ReachedCounted
  <1>5. Reached' = Reached
    BY <1>1, <1>2 DEF Reached
  <1>6. \A t \in Reached : count'[t] = count[t]
    BY <1>1, <1>4, <1>5, ReachedType DEF Blanked
  <1> QED BY <1>1, <1>3, <1>6, StutterStep

\* One step of a careful program
LEMMA CarefulStep ==
  ASSUME CarefulInv, [CarefulNext]_vars
  PROVE  CarefulInv' /\ [Values!Next]_(Values!vars)
  <1>1. ClosInv'
    <2>1. [Next]_vars
      BY DEF CarefulNext, Next
    <2> QED BY <2>1, ClosStep DEF CarefulInv
  <1>2. CASE Make /\ KeepsFuns
    <2>1. PICK v \in Vars, c \in Lambdas \cup Plain, e \in Tables \cup {NoEnv} :
            make_fun(v, c, e) /\ (e # NoEnv => calls # <<>> /\ e = calls[Len(calls)])
      BY <1>2, LastCall DEF Make, CarefulInv
    <2>2. EnvAlive' /\ Values!Make(v, c, e)
      BY <1>2, <2>1, MakeStep
    <2> QED BY <1>1, <2>2 DEF CarefulInv, Values!Next
  <1>3. CASE Enter
    BY <1>1, <1>3, EnterStep DEF CarefulInv, Values!Next
  <1>4. CASE Assign
    <2>1. PICK v \in Vars, x \in {Null} \cup {var[w] : w \in Vars} : set(v, x)
      BY <1>4 DEF Assign
    <2>2. /\ EnvAlive'
          /\ Values!Assign(v, Null) \/ \E w \in Vars : Values!Assign(v, FunOf[w])
      BY <2>1, AssignStep
    <2> QED BY <1>1, <2>2 DEF CarefulInv, Values!Next, FunOf
  <1>5. CASE \E v \in Vars : __call(v)
    BY <1>1, <1>5, CallStep DEF CarefulInv, Values!Next
  <1>6. CASE Leave /\ KeepsEnvs
    BY <1>1, <1>6, LeaveStep DEF CarefulInv, Values!Next
  <1>7. CASE run_gc /\ KeepsEnvs
    BY <1>1, <1>7, GcStep DEF CarefulInv
  <1>8. CASE Stopped \/ UNCHANGED vars
    <2>1. UNCHANGED vars
      BY <1>8 DEF Stopped
    <2>2. EnvAlive' /\ UNCHANGED Values!vars
      BY <2>1, StutterStep, SameFuns DEF vars, CarefulInv, EnvAlive
    <2> QED BY <1>1, <2>2 DEF CarefulInv
  <1> QED BY <1>2, <1>3, <1>4, <1>5, <1>6, <1>7, <1>8 DEF CarefulNext

LEMMA CarefulInit == Init => CarefulInv /\ Values!Init
  <1> SUFFICES ASSUME Init PROVE CarefulInv /\ Values!Init
    OBVIOUS
  <1>1. Needed = {} /\ Reached = {}
    BY DEF Init, Needed, Reached
  <1>2. CarefulInv
    BY <1>1, ClosInit DEF CarefulInv, EnvAlive
  <1> QED BY <1>1, <1>2 DEF Init, Values!Init, Tables

\* The environment of a closure that a variable of a careful program holds is in use:
\* a call that ends and a run_gc are all that such a program has to think of.
THEOREM EnvAlwaysAlive == CarefulSpec => []EnvAlive
  <1>1. CarefulInv /\ [CarefulNext]_vars => CarefulInv'
    BY CarefulStep
  <1>2. CarefulInv => EnvAlive
    BY DEF CarefulInv
  <1> QED BY <1>1, <1>2, CarefulInit, PTL DEF CarefulSpec

\* The closures of a careful program are those of FunValues: code with captured variables
\* of their own, however function slots are shared and environment slots used again.
THEOREM ClosuresImplementValues == CarefulSpec => ImplementsClosures
  <1>1. CarefulInv /\ [CarefulNext]_vars => CarefulInv' /\ [Values!Next]_(Values!vars)
    BY CarefulStep
  <1> QED BY <1>1, CarefulInit, PTL DEF CarefulSpec, ImplementsClosures, Values!Spec
=============================================================================
