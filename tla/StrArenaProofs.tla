--------------------------- MODULE StrArenaProofs ---------------------------
(***************************************************************************)
(* Proofs about StrArena, for any number of variables, strings, literals   *)
(* and slots, and any width and limit of a count.                          *)
(***************************************************************************)
EXTENDS StrArena, FiniteSetTheorems, SequenceTheorems, TLAPS

(***************************************************************************)
(* Counting references                                                     *)
(***************************************************************************)
At(f, i) == {v \in Vars : f[v] = i}
Is(a, b) == IF a = b THEN 1 ELSE 0

LEMMA AtFinite ==
  ASSUME NEW f, NEW i
  PROVE  /\ IsFiniteSet(At(f, i)) /\ Cardinality(At(f, i)) \in Nat
         /\ \A v \in Vars : f[v] = i => Cardinality(At(f, i)) > 0
  <1>1. IsFiniteSet(At(f, i)) /\ Cardinality(At(f, i)) \in Nat
    BY StrAssumption, FS_Subset, FS_CardinalityType DEF StrAssumption, At
  <1>2. ASSUME NEW v \in Vars, f[v] = i PROVE Cardinality(At(f, i)) > 0
    <2>1. At(f, i) # {}
      BY <1>2 DEF At
    <2> QED BY <1>1, <2>1, FS_EmptySet
  <1> QED BY <1>1, <1>2

\* A variable that refers to x instead of f[v]
LEMMA AtSet ==
  ASSUME NEW f, NEW g, NEW v \in Vars, NEW x, NEW i,
         g[v] = x, \A w \in Vars \ {v} : g[w] = f[w]
  PROVE  Cardinality(At(g, i)) + Is(f[v], i) = Cardinality(At(f, i)) + Is(x, i)
  <1> DEFINE rest == At(f, i) \ {v}
  <1>1. IsFiniteSet(rest) /\ v \notin rest /\ Cardinality(rest) \in Nat
    BY AtFinite, FS_Subset, FS_CardinalityType
  <1>2. Cardinality(At(f, i)) = Cardinality(rest) + Is(f[v], i)
    <2>1. CASE f[v] = i
      <3>1. At(f, i) = rest \cup {v}
        BY <2>1 DEF At
      <3> HIDE DEF rest
      <3> QED BY <1>1, <2>1, <3>1, FS_AddElement DEF Is
    <2>2. CASE f[v] # i
      <3>1. At(f, i) = rest
        BY <2>2 DEF At
      <3> HIDE DEF rest
      <3> QED BY <1>1, <2>2, <3>1 DEF Is
    <2> QED BY <2>1, <2>2
  <1>3. Cardinality(At(g, i)) = Cardinality(rest) + Is(x, i)
    <2>1. CASE x = i
      <3>1. At(g, i) = rest \cup {v}
        BY <2>1 DEF At
      <3> HIDE DEF rest
      <3> QED BY <1>1, <2>1, <3>1, FS_AddElement DEF Is
    <2>2. CASE x # i
      <3>1. At(g, i) = rest
        BY <2>2 DEF At
      <3> HIDE DEF rest
      <3> QED BY <1>1, <2>2, <3>1 DEF Is
    <2> QED BY <2>1, <2>2
  <1> HIDE DEF rest
  <1> QED BY <1>1, <1>2, <1>3 DEF Is

Places(q, i) == {j \in DOMAIN q : q[j] = i}

LEMMA UsesType ==
  ASSUME NEW S, NEW q \in Seq(S), NEW i
  PROVE  /\ Uses(q, i) \in Nat /\ IsFiniteSet(Places(q, i)) /\ Uses(q, i) = Cardinality(Places(q, i))
         /\ \A j \in DOMAIN q : q[j] = i => Uses(q, i) > 0
  <1>1. IsFiniteSet(1 .. Len(q)) /\ Places(q, i) \subseteq 1 .. Len(q)
    BY FS_Interval DEF Places
  <1>2. IsFiniteSet(Places(q, i)) /\ Cardinality(Places(q, i)) \in Nat
    BY <1>1, FS_Subset, FS_CardinalityType
  <1>3. ASSUME NEW j \in DOMAIN q, q[j] = i PROVE Cardinality(Places(q, i)) > 0
    <2>1. Places(q, i) # {}
      BY <1>3 DEF Places
    <2> QED BY <1>2, <2>1, FS_EmptySet
  <1>4. Uses(q, i) = Cardinality(Places(q, i))
    BY DEF Uses, Places
  <1> QED BY <1>2, <1>3, <1>4

LEMMA UsesPushed ==
  ASSUME NEW S, NEW q \in Seq(S), NEW e \in S, NEW i
  PROVE  Uses(Append(q, e), i) = Uses(q, i) + Is(e, i)
  <1>1. /\ IsFiniteSet(Places(q, i)) /\ Uses(q, i) = Cardinality(Places(q, i))
        /\ Uses(q, i) \in Nat /\ Uses(Append(q, e), i) = Cardinality(Places(Append(q, e), i))
    BY UsesType DEF Uses, Places
  <1>2. CASE e = i
    <2>1. Places(Append(q, e), i) = Places(q, i) \cup {Len(q) + 1} /\ Len(q) + 1 \notin Places(q, i)
      BY <1>2 DEF Places
    <2> QED BY <1>1, <1>2, <2>1, FS_AddElement DEF Is
  <1>3. CASE e # i
    <2>1. Places(Append(q, e), i) = Places(q, i)
      BY <1>3 DEF Places
    <2> QED BY <1>1, <1>3, <2>1 DEF Is
  <1> QED BY <1>2, <1>3

\* A count that is decremented no more often than it is high does not wrap.
LEMMA Dec8Is ==
  ASSUME NEW n \in 0 .. RcMod - 1, NEW k \in 0 .. n
  PROVE  Dec8(n, k) = n - k
  <1>1. n - k \in 0 .. RcMod - 1 /\ RcMod \in Nat /\ RcMod > 0
    BY StrAssumption DEF StrAssumption
  <1> QED BY <1>1 DEF Dec8

(***************************************************************************)
(* The inductive invariant                                                 *)
(***************************************************************************)

\* The references to slot i
Refs(i) == Cardinality(At(var, i)) + Uses(gc, i) + (IF i \in Literals THEN 2 ELSE 0)

\* Variables, operands and _gc_to_visit refer to slots of the arena.
StrTypeOK ==
  /\ len \in Nat /\ NumLits <= len
  /\ text \in [Slots -> Texts] /\ rc \in [Slots -> 0 .. RcMod - 1]
  /\ var \in [Vars -> Slots \cup {Null}]
  /\ temps \in Seq(Slots) /\ gc \in Seq(Slots)
  /\ status \in {"run", "limit", "dead", "overrun"}

StrInv == StrTypeOK /\ StrRefcountExact /\ FreedIsEmpty

LEMMA ExactIs == StrRefcountExact <=> \A i \in Slots : rc[i] = Refs(i)
  BY DEF StrRefcountExact, Refs, At

LEMMA RefsType ==
  ASSUME StrTypeOK, NEW i
  PROVE  /\ Cardinality(At(var, i)) \in Nat /\ Uses(gc, i) \in Nat /\ Refs(i) \in Nat
         /\ (\E v \in Vars : var[v] = i) => Cardinality(At(var, i)) > 0
  <1>1. Cardinality(At(var, i)) \in Nat /\ Uses(gc, i) \in Nat
    BY AtFinite, UsesType DEF StrTypeOK
  <1> QED BY <1>1, AtFinite DEF Refs

LEMMA StrInit == Init => StrInv
  <1> SUFFICES ASSUME Init PROVE StrInv
    OBVIOUS
  <1>1. StrTypeOK
    BY StrAssumption DEF Init, StrTypeOK, Slots, Literals, StrAssumption
  <1>2. \A i \in Slots : rc[i] = Refs(i)
    <2> TAKE i \in Slots
    <2>1. At(var, i) = {} /\ Places(gc, i) = {} /\ i \in Literals /\ rc[i] = 2
      BY StrAssumption DEF Init, At, Places, Slots, Literals, StrAssumption
    <2>2. Uses(gc, i) = 0
      BY <2>1, FS_EmptySet DEF Uses, Places
    <2> QED BY <2>1, <2>2, FS_EmptySet DEF Refs
  <1>3. FreedIsEmpty
    BY StrAssumption DEF Init, FreedIsEmpty, Slots, Literals, StrAssumption
  <1> QED BY <1>1, <1>2, <1>3, ExactIs DEF StrInv

(***************************************************************************)
(* Steps                                                                   *)
(***************************************************************************)

\* What a step changes: the counts by as much as the references.
LEMMA CountedInv ==
  ASSUME StrTypeOK', FreedIsEmpty', \A i \in Slots' : rc'[i] = Refs(i)'
  PROVE  StrInv'
  BY DEF StrInv, StrRefcountExact, Refs, At

LEMMA SameInv ==
  ASSUME StrInv, UNCHANGED <<len, text, rc, var, gc>>, temps' \in Seq(Slots),
         status' \in {"run", "limit", "dead", "overrun"}
  PROVE  StrInv'
  <1>1. StrTypeOK' /\ FreedIsEmpty'
    BY DEF StrInv, StrTypeOK, FreedIsEmpty, Slots
  <1>2. StrRefcountExact'
    BY DEF StrInv, StrRefcountExact, Slots
  <1> QED BY <1>1, <1>2 DEF StrInv

\* The operands after one of the arena has replaced the last n of them
LEMMA ReplacedType ==
  ASSUME NEW S, temps \in Seq(S), NEW i \in S, NEW n \in 0 .. Len(temps)
  PROVE  Replaced(n, i) \in Seq(S)
  BY DEF Replaced

\* The arena after a new string: slot i had no references, and has that of _gc_to_visit.
LEMMA ArenaStep ==
  ASSUME StrInv, NEW i, NEW t \in Texts, ~Overruns, Stored(i, t) \/ StoredGrown(i, t)
  PROVE  /\ len' \in Nat /\ len <= len' /\ i \in Slots' /\ Slots \subseteq Slots'
         /\ (i \in Slots => rc[i] = 0) /\ rc'[i] = 1 /\ text'[i] = t
         /\ text' \in [Slots' -> Texts] /\ rc' \in [Slots' -> 0 .. RcMod - 1]
         /\ \A j \in Slots \ {i} : rc'[j] = rc[j] /\ text'[j] = text[j]
         /\ \A j \in Slots' \ Slots : j # i => rc'[j] = 0 /\ text'[j] = Empty
  <1>1. /\ len \in Nat /\ text \in [Slots -> Texts] /\ rc \in [Slots -> 0 .. RcMod - 1]
        /\ Empty \in Texts /\ 1 \in 0 .. RcMod - 1 /\ 0 \in 0 .. RcMod - 1
    BY StrAssumption DEF StrInv, StrTypeOK, StrAssumption
  <1>2. CASE Stored(i, t)
    <2>1. i \in Slots /\ rc[i] = 0 /\ Slots' = Slots /\ len' = len
      BY <1>2 DEF Stored, Lowest, FreeSlots, Slots
    <2>2. text' = [text EXCEPT ![i] = t] /\ rc' = [rc EXCEPT ![i] = 1]
      BY <1>2 DEF Stored
    <2> QED BY <1>1, <2>1, <2>2
  <1>3. CASE StoredGrown(i, t)
    <2>1. /\ i = len + 1 /\ len' = GrownLen /\ GrownLen \in Nat /\ len <= GrownLen
          /\ len + 1 < GrownLen /\ i \notin Slots
      BY <1>1, <1>3, StrAssumption DEF StoredGrown, Overruns, GrownLen, Slots, StrAssumption
    <2>2. Slots' = 0 .. GrownLen - 1 /\ Slots \subseteq Slots' /\ i \in Slots'
      BY <1>1, <2>1 DEF Slots
    <2>3. /\ text' = [j \in Slots' |-> IF j = i THEN t ELSE IF j \in Slots THEN text[j] ELSE Empty]
          /\ rc' = [j \in Slots' |-> IF j = i THEN 1 ELSE IF j \in Slots THEN rc[j] ELSE 0]
      BY <1>3, <2>2 DEF StoredGrown
    <2> QED BY <1>1, <2>1, <2>2, <2>3
  <1> QED BY <1>2, <1>3

LEMMA StoreInv ==
  ASSUME StrInv, NEW n \in 0 .. Len(temps), NEW t \in Texts, Store(n, t)
  PROVE  StrInv'
  <1>1. CASE Overruns
    BY <1>1, SameInv DEF Store, Fail, StrInv, StrTypeOK
  <1>2. CASE ~Overruns
    <2>1. PICK i : /\ Stored(i, t) \/ StoredGrown(i, t)
                   /\ temps' = Replaced(n, i) /\ gc' = Append(gc, i) /\ UNCHANGED <<var, status>>
      BY <1>2 DEF Store
    <2>2. /\ len' \in Nat /\ len <= len' /\ i \in Slots' /\ Slots \subseteq Slots'
          /\ (i \in Slots => rc[i] = 0) /\ rc'[i] = 1
          /\ text' \in [Slots' -> Texts] /\ rc' \in [Slots' -> 0 .. RcMod - 1]
          /\ \A j \in Slots \ {i} : rc'[j] = rc[j] /\ text'[j] = text[j]
          /\ \A j \in Slots' \ Slots : j # i => rc'[j] = 0 /\ text'[j] = Empty
      BY <1>2, <2>1, ArenaStep
    <2>3. StrTypeOK
      BY DEF StrInv
    <2>4. temps' \in Seq(Slots') /\ gc \in Seq(Slots') /\ gc' \in Seq(Slots')
      <3>1. temps \in Seq(Slots') /\ gc \in Seq(Slots')
        BY <2>2, <2>3 DEF StrTypeOK
      <3>2. Replaced(n, i) \in Seq(Slots')
        BY <2>2, <3>1, ReplacedType
      <3>3. Append(gc, i) \in Seq(Slots')
        BY <2>2, <3>1
      <3> QED BY <2>1, <3>1, <3>2, <3>3
    <2>5. StrTypeOK'
      <3>1. var' \in [Vars -> Slots' \cup {Null}] /\ NumLits <= len'
        BY <2>1, <2>2, <2>3, StrAssumption DEF StrTypeOK, StrAssumption
      <3> QED BY <2>1, <2>2, <2>3, <2>4, <3>1 DEF StrTypeOK
    <2>6. FreedIsEmpty'
      BY <2>2 DEF StrInv, FreedIsEmpty
    <2>7. \A j : Refs(j)' = Refs(j) + Is(i, j)
      <3> TAKE j
      <3>1. Uses(gc', j) = Uses(gc, j) + Is(i, j) /\ Uses(gc, j) \in Nat
        BY <2>1, <2>2, <2>4, UsesPushed, UsesType
      <3>2. Cardinality(At(var', j)) = Cardinality(At(var, j)) /\ Cardinality(At(var, j)) \in Nat
        BY <2>1, AtFinite
      <3> QED BY <3>1, <3>2 DEF Refs, Is
    <2>8. \A j \in Slots : rc[j] = Refs(j)
      BY ExactIs DEF StrInv
    <2>9. \A j \in Slots' \ Slots : Refs(j) = 0
      <3> TAKE j \in Slots' \ Slots
      <3>1. At(var, j) = {}
        BY <2>2, <2>3, StrAssumption DEF StrTypeOK, At, Slots, StrAssumption
      <3>2. Places(gc, j) = {}
        BY <2>3 DEF StrTypeOK, Places
      <3>3. j \notin Literals
        BY <2>2, <2>3, StrAssumption DEF StrTypeOK, Literals, Slots, StrAssumption
      <3>4. Uses(gc, j) = 0
        BY <2>4, <3>2, UsesType, FS_EmptySet
      <3> QED BY <3>1, <3>3, <3>4, FS_EmptySet DEF Refs
    <2>10. \A j \in Slots' : rc'[j] = Refs(j)'
      <3> TAKE j \in Slots'
      <3>1. Refs(j)' = Refs(j) + Is(i, j) /\ Refs(j) \in Nat
        BY <2>3, <2>7, RefsType
      <3>2. CASE j = i
        BY <2>2, <2>8, <2>9, <3>1, <3>2 DEF Is
      <3>3. CASE j # i
        BY <2>2, <2>8, <2>9, <3>1, <3>3 DEF Is
      <3> QED BY <3>2, <3>3
    <2> QED BY <2>5, <2>6, <2>10, CountedInv
  <1> QED BY <1>1, <1>2

LEMMA InternInv ==
  ASSUME StrInv, NEW n \in 0 .. Len(temps), NEW t \in Texts, Intern(n, t)
  PROVE  StrInv'
  <1>1. CASE Store(n, t)
    BY <1>1, StoreInv
  <1>2. CASE ~Store(n, t)
    <2>1. PICK i \in Slots : temps' = Replaced(n, i) /\ UNCHANGED <<len, text, rc, var, gc, status>>
      BY <1>2 DEF Intern
    <2>2. temps' \in Seq(Slots)
      BY <2>1, ReplacedType DEF StrInv, StrTypeOK
    <2> QED BY <2>1, <2>2, SameInv DEF StrInv, StrTypeOK
  <1> QED BY <1>1, <1>2

LEMMA NewInv ==
  ASSUME StrInv, NEW t \in Texts, make_str(t) \/ _concat(t) \/ sub(t)
  PROVE  StrInv'
  <1>1. Len(temps) \in Nat
    BY DEF StrInv, StrTypeOK
  <1> QED BY <1>1, StoreInv, InternInv DEF make_str, _concat, sub

LEMMA LoadInv ==
  ASSUME StrInv, NEW i \in Slots \cup {Null}, Load(i)
  PROVE  StrInv'
  <1>1. temps' \in Seq(Slots) /\ UNCHANGED <<len, text, rc, var, gc, status>>
    BY DEF Load, StrInv, StrTypeOK
  <1> QED BY <1>1, SameInv DEF StrInv, StrTypeOK

\* One reference more, or one less
LEMMA CountedType ==
  ASSUME StrInv, NEW i \in Slots \cup {Null}, ~AtLimit(i)
  PROVE  /\ Counted(rc, i) \in [Slots -> 0 .. RcMod - 1]
         /\ \A j \in Slots : Counted(rc, i)[j] = rc[j] + Is(i, j)
  <1>1. rc \in [Slots -> 0 .. RcMod - 1] /\ RcLimit \in Nat /\ RcMod \in Nat /\ RcLimit < RcMod
        /\ Null \notin Slots
    BY StrAssumption DEF StrInv, StrTypeOK, StrAssumption, Slots
  <1>2. CASE i = Null
    BY <1>1, <1>2 DEF Counted, Is
  <1>3. CASE i # Null
    <2>1. i \in Slots /\ rc[i] \in 0 .. RcMod - 1 /\ rc[i] < RcLimit
      BY <1>1, <1>3 DEF AtLimit
    <2>2. rc[i] + 1 \in 0 .. RcMod - 1
      BY <1>1, <2>1
    <2>3. Counted(rc, i) = [rc EXCEPT ![i] = @ + 1]
      BY <1>3 DEF Counted
    <2> QED BY <1>1, <2>1, <2>2, <2>3 DEF Is
  <1> QED BY <1>2, <1>3

LEMMA ReleasedType ==
  ASSUME NEW r \in [Slots -> 0 .. RcMod - 1], NEW i \in Slots \cup {Null}, i # Null => r[i] > 0,
         len \in Nat
  PROVE  /\ Released(r, i) \in [Slots -> 0 .. RcMod - 1]
         /\ \A j \in Slots : Released(r, i)[j] = r[j] - Is(i, j)
  <1>1. Null \notin Slots
    BY StrAssumption DEF StrAssumption, Slots
  <1>2. CASE i = Null
    BY <1>1, <1>2 DEF Released, Is
  <1>3. CASE i # Null
    <2>1. i \in Slots /\ r[i] \in 0 .. RcMod - 1 /\ r[i] > 0
      BY <1>3
    <2>2. Dec8(r[i], 1) = r[i] - 1
      BY <2>1, Dec8Is
    <2>3. r[i] - 1 \in 0 .. RcMod - 1
      BY <2>1, StrAssumption DEF StrAssumption
    <2>4. Released(r, i) = [r EXCEPT ![i] = r[i] - 1]
      BY <1>3, <2>2 DEF Released
    <2> QED BY <2>1, <2>3, <2>4 DEF Is
  <1> QED BY <1>2, <1>3

\* The arena after counts have changed and strings without references have been emptied
LEMMA BlankedInv ==
  ASSUME StrInv, len' = len, text' = Blanked(text, rc'), rc' \in [Slots -> 0 .. RcMod - 1],
         var' \in [Vars -> Slots \cup {Null}], temps' \in Seq(Slots), gc' \in Seq(Slots),
         UNCHANGED status, \A j \in Slots : rc'[j] = Refs(j)'
  PROVE  StrInv'
  <1>1. Slots' = Slots /\ Empty \in Texts
    BY StrAssumption DEF Slots, StrAssumption
  <1>2. text' \in [Slots -> Texts] /\ \A j \in Slots : rc'[j] = 0 => text'[j] = Empty
    BY <1>1 DEF Blanked, StrInv, StrTypeOK
  <1>3. StrTypeOK' /\ FreedIsEmpty'
    BY <1>1, <1>2 DEF StrInv, StrTypeOK, FreedIsEmpty
  <1> QED BY <1>1, <1>3, CountedInv

\* The references after v has been assigned
LEMMA AssignedRefs ==
  ASSUME StrInv, NEW v \in Vars, NEW x \in Slots \cup {Null}, var' = [var EXCEPT ![v] = x],
         gc' = gc, NEW j
  PROVE  /\ Refs(j)' + Is(var[v], j) = Refs(j) + Is(x, j)
         /\ Refs(j)' \in Nat /\ Refs(j) \in Nat
         /\ var' \in [Vars -> Slots \cup {Null}] /\ var[v] \in Slots \cup {Null}
  <1>1. var \in [Vars -> Slots \cup {Null}] /\ gc \in Seq(Slots)
    BY DEF StrInv, StrTypeOK
  <1>2. Cardinality(At(var', j)) + Is(var[v], j) = Cardinality(At(var, j)) + Is(x, j)
    <2> DEFINE f == var
               g == var'
    <2>1. g[v] = x /\ \A w \in Vars \ {v} : g[w] = f[w]
      BY <1>1
    <2> HIDE DEF f, g
    <2>2. Cardinality(At(g, j)) + Is(f[v], j) = Cardinality(At(f, j)) + Is(x, j)
      BY <2>1, AtSet
    <2> QED BY <2>2 DEF f, g
  <1>3. /\ Cardinality(At(var', j)) \in Nat /\ Cardinality(At(var, j)) \in Nat
        /\ Uses(gc, j) \in Nat /\ Uses(gc', j) = Uses(gc, j)
    BY <1>1, AtFinite, UsesType
  <1>4. Refs(j) = Cardinality(At(var, j)) + Uses(gc, j) + (IF j \in Literals THEN 2 ELSE 0)
    BY DEF Refs
  <1>5. Refs(j)' = Cardinality(At(var', j)) + Uses(gc', j) + (IF j \in Literals THEN 2 ELSE 0)
    BY DEF Refs, Literals
  <1>6. Refs(j) \in Nat /\ Refs(j)' \in Nat
    BY <1>3, <1>4, <1>5
  <1>7. Is(var[v], j) \in Nat /\ Is(x, j) \in Nat
    BY DEF Is
  <1>8. Refs(j)' + Is(var[v], j) = Refs(j) + Is(x, j)
    BY <1>2, <1>3, <1>4, <1>5, <1>7
  <1> QED BY <1>1, <1>6, <1>8

\* A variable keeps its string in use.
LEMMA VarCounted ==
  ASSUME StrInv, NEW v \in Vars, var[v] # Null
  PROVE  var[v] \in Slots /\ rc[var[v]] > 0 /\ rc[var[v]] \in Nat
  <1>1. var[v] \in Slots /\ rc[var[v]] = Refs(var[v])
    BY ExactIs DEF StrInv, StrTypeOK
  <1>2. Cardinality(At(var, var[v])) > 0 /\ Cardinality(At(var, var[v])) \in Nat
        /\ Uses(gc, var[v]) \in Nat
    BY RefsType DEF StrInv
  <1> QED BY <1>1, <1>2 DEF Refs

LEMMA SetInv ==
  ASSUME StrInv, NEW v \in Vars, NEW i \in Slots, set(v, i)
  PROVE  StrInv'
  <1> DEFINE counted == Counted(rc, i)
             old     == var[v]
  <1>1. CASE status' # status
    BY <1>1, SameInv DEF set, Fail, StrInv, StrTypeOK
  <1>2. CASE status' = status
    <2>1. /\ ~AtLimit(i) /\ (old # Null => counted[old] # 0)
          /\ rc' = Released(counted, old) /\ text' = Blanked(text, rc')
          /\ var' = [var EXCEPT ![v] = i] /\ UNCHANGED <<len, temps, gc, status>>
      BY <1>2 DEF set, Fail, Ready
    <2>2. /\ counted \in [Slots -> 0 .. RcMod - 1]
          /\ \A j \in Slots : counted[j] = rc[j] + Is(i, j)
      BY <2>1, CountedType
    <2>3. old \in Slots \cup {Null} /\ len \in Nat /\ temps \in Seq(Slots) /\ gc \in Seq(Slots)
      BY DEF StrInv, StrTypeOK
    <2> HIDE DEF counted, old
    <2>4. old # Null => counted[old] > 0
      BY <2>1, <2>2, <2>3
    <2>5. /\ rc' \in [Slots -> 0 .. RcMod - 1]
          /\ \A j \in Slots : rc'[j] = counted[j] - Is(old, j)
      BY <2>1, <2>2, <2>3, <2>4, ReleasedType
    <2>6. \A j \in Slots : rc'[j] = Refs(j)'
      <3> TAKE j \in Slots
      <3>1. /\ Refs(j)' + Is(old, j) = Refs(j) + Is(i, j) /\ Refs(j)' \in Nat /\ Refs(j) \in Nat
        BY <2>1, AssignedRefs DEF old, Is
      <3>2. rc[j] = Refs(j) /\ counted[j] = rc[j] + Is(i, j) /\ rc'[j] = counted[j] - Is(old, j)
        BY <2>2, <2>5, ExactIs DEF StrInv
      <3> QED BY <3>1, <3>2 DEF Is
    <2>7. var' \in [Vars -> Slots \cup {Null}]
      BY <2>1 DEF StrInv, StrTypeOK
    <2> QED BY <2>1, <2>3, <2>5, <2>6, <2>7, BlankedInv
  <1> QED BY <1>1, <1>2

LEMMA LeaveInv ==
  ASSUME StrInv, NEW v \in Vars, Leave(v)
  PROVE  StrInv'
  <1>1. /\ var[v] # Null /\ rc' = Released(rc, var[v]) /\ text' = Blanked(text, rc')
        /\ var' = [var EXCEPT ![v] = Null] /\ UNCHANGED <<len, temps, gc, status>>
        /\ var[v] \in Slots /\ rc[var[v]] > 0
    BY VarCounted DEF Leave
  <1>2. /\ len \in Nat /\ temps \in Seq(Slots) /\ gc \in Seq(Slots)
        /\ rc \in [Slots -> 0 .. RcMod - 1] /\ Null \notin Slots
    BY StrAssumption DEF StrInv, StrTypeOK, StrAssumption, Slots
  <1>3. /\ rc' \in [Slots -> 0 .. RcMod - 1]
        /\ \A j \in Slots : rc'[j] = rc[j] - Is(var[v], j)
    BY <1>1, <1>2, ReleasedType
  <1>4. \A j \in Slots : rc'[j] = Refs(j)'
    <2> TAKE j \in Slots
    <2>1. /\ Refs(j)' + Is(var[v], j) = Refs(j) + Is(Null, j) /\ Refs(j)' \in Nat /\ Refs(j) \in Nat
      BY <1>1, AssignedRefs DEF Is
    <2>2. rc[j] = Refs(j) /\ rc'[j] = rc[j] - Is(var[v], j) /\ Null # j
      BY <1>2, <1>3, ExactIs DEF StrInv
    <2> QED BY <2>1, <2>2 DEF Is
  <1>5. var' \in [Vars -> Slots \cup {Null}]
    BY <1>1 DEF StrInv, StrTypeOK
  <1> QED BY <1>1, <1>2, <1>3, <1>4, <1>5, BlankedInv

LEMMA ReturnInv ==
  ASSUME StrInv, NEW v \in Vars, Return(v)
  PROVE  StrInv'
  <1> DEFINE i == var[v]
  <1>1. CASE AtLimit(i)
    BY <1>1, SameInv DEF Return, Fail, StrInv, StrTypeOK
  <1>2. CASE ~AtLimit(i)
    <2>1. /\ rc' = Counted(rc, i) /\ gc' = Append(gc, i) /\ temps' = Append(temps, i)
          /\ UNCHANGED <<len, text, var, status>> /\ i \in Slots
      BY <1>2, VarCounted DEF Return
    <2>2. /\ gc \in Seq(Slots) /\ gc' \in Seq(Slots) /\ temps' \in Seq(Slots)
      BY <2>1 DEF StrInv, StrTypeOK
    <2>3. /\ rc' \in [Slots -> 0 .. RcMod - 1] /\ \A j \in Slots : rc'[j] = rc[j] + Is(i, j)
      BY <1>2, <2>1, CountedType
    <2>4. StrTypeOK'
      BY <2>1, <2>2, <2>3 DEF StrInv, StrTypeOK, Slots
    <2>5. FreedIsEmpty'
      <3> SUFFICES ASSUME NEW j \in Slots, rc'[j] = 0 PROVE text[j] = Empty
        BY <2>1 DEF FreedIsEmpty, Slots
      <3>1. rc[j] = 0
        <4>1. rc[j] \in Nat /\ rc'[j] = rc[j] + Is(i, j)
          BY <2>3 DEF StrInv, StrTypeOK
        <4> QED BY <4>1 DEF Is
      <3> QED BY <3>1 DEF StrInv, FreedIsEmpty
    <2>6. \A j \in Slots' : rc'[j] = Refs(j)'
      <3> SUFFICES ASSUME NEW j \in Slots PROVE rc'[j] = Refs(j)'
        BY <2>1 DEF Slots
      <3>1. Uses(gc', j) = Uses(gc, j) + Is(i, j) /\ Uses(gc, j) \in Nat
        BY <2>1, <2>2, UsesPushed, UsesType
      <3>2. rc[j] = Refs(j) /\ rc'[j] = rc[j] + Is(i, j)
        BY <2>3, ExactIs DEF StrInv
      <3>3. Cardinality(At(var', j)) = Cardinality(At(var, j)) /\ Cardinality(At(var, j)) \in Nat
        BY <2>1, AtFinite
      <3> HIDE DEF i
      <3> QED BY <3>1, <3>2, <3>3 DEF Refs, Is
    <2> QED BY <2>4, <2>5, <2>6, CountedInv
  <1> QED BY <1>1, <1>2

LEMMA GcInv ==
  ASSUME StrInv, run_gc
  PROVE  StrInv'
  <1>1. /\ rc' = [i \in Slots |-> Dec8(rc[i], Uses(gc, i))] /\ text' = Blanked(text, rc')
        /\ gc' = <<>> /\ UNCHANGED <<len, var, temps, status>>
    BY DEF run_gc
  <1>2. \A j \in Slots : rc'[j] = Refs(j)' /\ rc'[j] \in 0 .. RcMod - 1
    <2> TAKE j \in Slots
    <2>1. rc[j] = Refs(j) /\ rc[j] \in 0 .. RcMod - 1 /\ RcMod \in Nat
      BY ExactIs, StrAssumption DEF StrInv, StrTypeOK, StrAssumption
    <2>2. Uses(gc, j) \in Nat /\ Cardinality(At(var, j)) \in Nat
      BY RefsType DEF StrInv
    <2>3. Uses(gc, j) \in 0 .. rc[j]
      BY <2>1, <2>2 DEF Refs
    <2>4. rc'[j] = rc[j] - Uses(gc, j)
      BY <1>1, <2>1, <2>3, Dec8Is
    <2>5. Uses(gc', j) = 0
      <3>1. Places(<<>>, j) = {} /\ <<>> \in Seq(Slots)
        BY DEF Places
      <3> QED BY <1>1, <3>1, UsesType, FS_EmptySet
    <2>6. Cardinality(At(var', j)) = Cardinality(At(var, j))
      BY <1>1
    <2> QED BY <2>1, <2>2, <2>3, <2>4, <2>5, <2>6 DEF Refs
  <1>3. rc' \in [Slots -> 0 .. RcMod - 1]
    BY <1>1, <1>2
  <1>4. var' \in [Vars -> Slots \cup {Null}] /\ temps' \in Seq(Slots) /\ gc' \in Seq(Slots)
    BY <1>1 DEF StrInv, StrTypeOK
  <1> QED BY <1>1, <1>2, <1>3, <1>4, BlankedInv

LEMMA OperandType ==
  ASSUME StrInv
  PROVE  /\ \A j \in DOMAIN temps : temps[j] \in Slots
         /\ \A v \in Vars : var[v] \in Slots \cup {Null}
         /\ Literals \subseteq Slots
  <1>1. Literals \subseteq Slots
    BY StrAssumption DEF StrInv, StrTypeOK, Literals, Slots, StrAssumption
  <1> QED BY <1>1 DEF StrInv, StrTypeOK

LEMMA StrStep == StrInv /\ [Next]_vars => StrInv'
  <1> SUFFICES ASSUME StrInv, [Next]_vars PROVE StrInv'
    OBVIOUS
  <1>1. CASE \E t \in Texts : make_str(t) \/ _concat(t) \/ sub(t)
    BY <1>1, NewInv
  <1>2. CASE \E i \in Literals : Load(i)
    BY <1>2, LoadInv, OperandType
  <1>3. CASE \E v \in Vars : Load(var[v]) \/ Return(v) \/ Leave(v)
    BY <1>3, LoadInv, ReturnInv, LeaveInv, OperandType
  <1>4. CASE \E v \in Vars : \E j \in DOMAIN temps : set(v, temps[j])
    BY <1>4, SetInv, OperandType
  <1>5. CASE Discard
    <2>1. temps' \in Seq(Slots)
      BY <1>5 DEF Discard
    <2> QED BY <1>5, <2>1, SameInv DEF Discard, StrInv, StrTypeOK
  <1>6. CASE Stopped \/ UNCHANGED vars
    BY <1>6, SameInv DEF Stopped, vars, StrInv, StrTypeOK
  <1> QED BY <1>1, <1>2, <1>3, <1>4, <1>5, <1>6, GcInv DEF Next

\* The inductive invariant: slots in range, exact counts, blank slots.
THEOREM StrInvAlways == Spec => []StrInv
  BY StrInit, StrStep, PTL DEF Spec

\* Every variable, operand and entry of _gc_to_visit is a slot of the arena, and no count
\* leaves its width.
THEOREM StringsTypeCorrect == Spec => []StrTypeOK
  BY StrInvAlways, PTL DEF StrInv

\* The count of a string is the number of references to it, whatever a program does.
THEOREM StrRefcountAlwaysExact == Spec => []StrRefcountExact
  BY StrInvAlways, PTL DEF StrInv

\* A slot without references has no characters that a lookup could find.
THEOREM FreedAlwaysEmpty == Spec => []FreedIsEmpty
  BY StrInvAlways, PTL DEF StrInv

(***************************************************************************)
(* Refinement: each step of a careful program is a step of StrValues       *)
(***************************************************************************)

\* The refinement mapping, and the strings of a sequence of slots
ValueOf     == [v \in Vars |-> TextOf(var[v])]
OperandsOf  == [j \in DOMAIN temps |-> TextOf(temps[j])]
Strs(q, f)  == [j \in DOMAIN q |-> f[q[j]]]

LEMMA StrsPushed ==
  ASSUME NEW S, NEW q \in Seq(S), NEW i \in S, NEW f
  PROVE  Strs(Append(q, i), f) = Append(Strs(q, f), f[i])
  <1> DEFINE T == {f[k] : k \in S}
  <1>1. Strs(q, f) \in Seq(T) /\ Len(Strs(q, f)) = Len(q) /\ f[i] \in T
    BY DEF Strs
  <1> HIDE DEF T
  <1> QED BY <1>1 DEF Strs

LEMMA StrsPrefix ==
  ASSUME NEW S, NEW q \in Seq(S), NEW n \in 0 .. Len(q), NEW f
  PROVE  /\ SubSeq(q, 1, n) \in Seq(S)
         /\ Strs(SubSeq(q, 1, n), f) = SubSeq(Strs(q, f), 1, n)
  <1> DEFINE T == {f[k] : k \in S}
  <1>1. Strs(q, f) \in Seq(T) /\ Len(Strs(q, f)) = Len(q)
    BY DEF Strs
  <1> HIDE DEF T
  <1> QED BY <1>1 DEF Strs

\* Every slot that the program refers to has its string.
LEMMA MappingIs ==
  ASSUME StrInv
  PROVE  /\ OperandsOf = Strs(temps, text) /\ Len(OperandsOf) = Len(temps) /\ Len(temps) \in Nat
         /\ \A v \in Vars : ValueOf[v] = IF var[v] = Null THEN Null ELSE text[var[v]]
         /\ \A i \in Slots : TextOf(i) = text[i] /\ text[i] \in Texts /\ text[i] # Null
         /\ DOMAIN OperandsOf = DOMAIN temps
  <1>1. Null \notin Slots /\ Null \notin Texts /\ text \in [Slots -> Texts] /\ temps \in Seq(Slots)
    BY StrAssumption DEF StrInv, StrTypeOK, StrAssumption, Slots
  <1>2. \A i \in Slots : TextOf(i) = text[i] /\ text[i] \in Texts /\ text[i] # Null
    BY <1>1 DEF TextOf
  <1>3. OperandsOf = Strs(temps, text)
    BY <1>1, <1>2 DEF OperandsOf, Strs
  <1>4. Len(OperandsOf) = Len(temps) /\ DOMAIN OperandsOf = DOMAIN temps /\ Len(temps) \in Nat
    BY <1>1 DEF OperandsOf
  <1> QED BY <1>1, <1>2, <1>3, <1>4 DEF ValueOf, TextOf

OperandsAre == OperandsOf = Strs(temps, text)
VarsCounted == \A v \in Vars : var[v] # Null => var[v] \in Slots /\ rc[var[v]] > 0

LEMMA InvFacts == StrInv => OperandsAre /\ VarsCounted
  BY MappingIs, VarCounted DEF OperandsAre, VarsCounted

\* The variables keep their strings if the slots they refer to do.
LEMMA SameValues ==
  ASSUME UNCHANGED var, StrInv, \A v \in Vars : var[v] # Null => text'[var[v]] = text[var[v]]
  PROVE  ValueOf' = ValueOf
  BY DEF ValueOf, TextOf

\* The operands after n of them have been replaced by one with string t
Applied(n, t) == Append(SubSeq(OperandsOf, 1, Len(OperandsOf) - n), t)

LEMMA AppliedIs ==
  ASSUME StrInv, StrInv', NEW n \in 0 .. Len(temps), NEW i, temps' = Replaced(n, i), i \in Slots',
         Slots \subseteq Slots', \A j \in DOMAIN temps : text'[temps[j]] = text[temps[j]]
  PROVE  OperandsOf' = Applied(n, text'[i])
  <1>1. /\ temps \in Seq(Slots) /\ text' \in [Slots' -> Texts] /\ Len(temps) \in Nat
        /\ temps \in Seq(Slots')
    BY DEF StrInv, StrTypeOK
  <1>2. OperandsOf' = Strs(temps', text')
    <2>1. StrInv' => OperandsAre'
      BY InvFacts, PTL
    <2> QED BY <2>1 DEF OperandsAre
  <1>3. Strs(temps, text') = OperandsOf /\ Len(OperandsOf) = Len(temps)
    BY MappingIs DEF Strs
  <1> DEFINE m == Len(temps) - n
             p == SubSeq(temps, 1, m)
             f == text'
             S == Slots'
  <1>4. m \in 0 .. Len(temps) /\ temps' = Append(p, i)
    BY <1>1 DEF Replaced
  <1>5. temps \in Seq(S) /\ f \in [S -> Texts] /\ i \in S
    BY <1>1
  <1> HIDE DEF m, f, S
  <1>6. p \in Seq(S) /\ Strs(p, f) = SubSeq(Strs(temps, f), 1, m)
    BY <1>4, <1>5, StrsPrefix
  <1> HIDE DEF p
  <1>7. Strs(Append(p, i), f) = Append(Strs(p, f), f[i])
    BY <1>5, <1>6, StrsPushed
  <1> QED BY <1>2, <1>3, <1>4, <1>6, <1>7 DEF Applied, m, f

\* A new string changes the last operands only, if all operands are anchored.
LEMMA StoreStep ==
  ASSUME StrInv, Anchored, NEW n \in 0 .. Len(temps), NEW t \in Texts, Store(n, t)
  PROVE  \/ UNCHANGED <<text, var, temps>>
         \/ ValueOf' = ValueOf /\ OperandsOf' = Applied(n, t)
  <1>1. CASE Overruns
    BY <1>1 DEF Store, Fail
  <1>2. CASE ~Overruns
    <2>1. PICK i : /\ Stored(i, t) \/ StoredGrown(i, t)
                   /\ temps' = Replaced(n, i) /\ UNCHANGED var
      BY <1>2 DEF Store
    <2>2. /\ i \in Slots' /\ Slots \subseteq Slots' /\ (i \in Slots => rc[i] = 0) /\ text'[i] = t
          /\ \A j \in Slots \ {i} : text'[j] = text[j]
      BY <1>2, <2>1, ArenaStep
    <2>3. StrInv'
      BY StoreInv
    <2>4. \A j \in DOMAIN temps : text'[temps[j]] = text[temps[j]]
      BY <2>2, OperandType DEF Anchored
    <2>5. \A v \in Vars : var[v] # Null => text'[var[v]] = text[var[v]]
      BY <2>2, VarCounted
    <2>6. OperandsOf' = Applied(n, text'[i])
      BY <2>1, <2>2, <2>3, <2>4, AppliedIs
    <2> QED BY <2>1, <2>2, <2>5, <2>6, SameValues
  <1> QED BY <1>1, <1>2

LEMMA InternStep ==
  ASSUME StrInv, Anchored, NEW n \in 0 .. Len(temps), NEW t \in Texts, Intern(n, t)
  PROVE  \/ UNCHANGED <<text, var, temps>>
         \/ ValueOf' = ValueOf /\ OperandsOf' = Applied(n, t)
  <1>1. CASE Store(n, t)
    BY <1>1, StoreStep
  <1>2. CASE ~Store(n, t)
    <2>1. PICK i \in Slots : /\ Lowest(Known(t), i) /\ temps' = Replaced(n, i)
                             /\ UNCHANGED <<len, text, rc, var, gc, status>>
      BY <1>2 DEF Intern
    <2>2. StrInv' /\ text'[i] = t /\ Slots' = Slots
      BY <2>1, InternInv DEF Lowest, Known, _streq, Slots
    <2>3. OperandsOf' = Applied(n, text'[i])
      BY <2>1, <2>2, AppliedIs
    <2> QED BY <2>1, <2>2, <2>3, SameValues
  <1> QED BY <1>1, <1>2

\* The same operands, or one more
LEMMA SameOperands ==
  ASSUME StrInv, StrInv', UNCHANGED <<len, temps>>,
         \A j \in DOMAIN temps : text'[temps[j]] = text[temps[j]]
  PROVE  OperandsOf' = OperandsOf
  <1>1. StrInv' => OperandsAre'
    BY InvFacts, PTL
  <1> QED BY <1>1, MappingIs DEF OperandsAre, Strs

LEMMA PushedOperand ==
  ASSUME StrInv, StrInv', NEW i \in Slots, temps' = Append(temps, i), UNCHANGED <<len, text>>
  PROVE  OperandsOf' = Append(OperandsOf, text[i])
  <1>1. OperandsOf' = Strs(temps', text')
    <2>1. StrInv' => OperandsAre'
      BY InvFacts, PTL
    <2> QED BY <2>1 DEF OperandsAre
  <1>2. temps \in Seq(Slots) /\ OperandsOf = Strs(temps, text)
    BY MappingIs DEF StrInv, StrTypeOK
  <1>3. Strs(Append(temps, i), text) = Append(Strs(temps, text), text[i])
    BY <1>2, StrsPushed
  <1> QED BY <1>1, <1>2, <1>3

\* What make_str, _concat and sub do is what the operators of StrValues do.
LEMMA NewStep ==
  ASSUME StrInv, Anchored, NEW t \in Texts, make_str(t) \/ _concat(t) \/ sub(t)
  PROVE  Values!Operand(t) \/ Values!Apply(1, t) \/ Values!Apply(2, t) \/ UNCHANGED Values!vars
  <1>1. Len(temps) \in Nat /\ Len(OperandsOf) = Len(temps)
    BY MappingIs
  <1>2. PICK n \in 0 .. Len(temps) : (Intern(n, t) \/ Store(n, t)) /\ n \in {0, 1, 2}
    BY <1>1 DEF make_str, _concat, sub
  <1>3. CASE UNCHANGED <<text, var, temps>>
    BY <1>3 DEF Values!vars, TextOf
  <1>4. CASE ValueOf' = ValueOf /\ OperandsOf' = Applied(n, t)
    <2>1. CASE n = 0
      <3>1. SubSeq(OperandsOf, 1, Len(OperandsOf) - n) = OperandsOf
        <4>1. temps \in Seq(Slots) /\ \A j \in DOMAIN temps : TextOf(temps[j]) \in Texts
          BY MappingIs, OperandType DEF StrInv, StrTypeOK
        <4>2. OperandsOf \in Seq(Texts)
          BY <4>1 DEF OperandsOf
        <4> QED BY <2>1, <4>2
      <3>2. OperandsOf' = Append(OperandsOf, t)
        BY <1>4, <3>1 DEF Applied
      <3> QED BY <1>4, <3>2 DEF Values!Operand, ValueOf, OperandsOf
    <2>2. CASE n \in {1, 2}
      <3>1. n <= Len(OperandsOf)
        BY <1>1
      <3>2. Values!Apply(n, t)
        BY <1>4, <3>1 DEF Values!Apply, Applied, ValueOf, OperandsOf
      <3> QED BY <2>2, <3>2
    <2> QED BY <1>2, <2>1, <2>2
  <1> QED BY <1>2, <1>3, <1>4, InternStep, StoreStep

LEMMA LoadStep ==
  ASSUME StrInv, NEW i \in Slots \cup {Null}, Load(i)
  PROVE  i \in Slots /\ Values!Operand(text[i])
  <1>1. i \in Slots /\ temps' = Append(temps, i) /\ UNCHANGED <<len, text, var>> /\ StrInv'
    BY LoadInv DEF Load
  <1>2. OperandsOf' = Append(OperandsOf, text[i])
    BY <1>1, PushedOperand
  <1> QED BY <1>1, <1>2 DEF Values!Operand, OperandsOf, TextOf

LEMMA ReturnStep ==
  ASSUME StrInv, NEW v \in Vars, Return(v)
  PROVE  \/ UNCHANGED Values!vars
         \/ var[v] # Null /\ var[v] \in Slots /\ Values!Operand(text[var[v]])
  <1>1. var[v] # Null /\ var[v] \in Slots /\ StrInv'
    BY VarCounted, ReturnInv DEF Return
  <1>2. CASE AtLimit(var[v])
    BY <1>2 DEF Return, Fail, Values!vars, TextOf
  <1>3. CASE ~AtLimit(var[v])
    <2>1. temps' = Append(temps, var[v]) /\ UNCHANGED <<len, text, var>>
      BY <1>3 DEF Return
    <2>2. OperandsOf' = Append(OperandsOf, text[var[v]])
      BY <1>1, <2>1, PushedOperand
    <2> QED BY <1>1, <2>1, <2>2 DEF Values!Operand, OperandsOf, TextOf
  <1> QED BY <1>2, <1>3

\* A string is emptied only when its last reference goes.
LEMMA BlankedKeeps ==
  ASSUME StrInv, text' = Blanked(text, rc'), NEW i \in Slots, rc'[i] = 0 => rc[i] = 0
  PROVE  text'[i] = text[i]
  BY DEF StrInv, StrTypeOK, Blanked, FreedIsEmpty

\* v is assigned x, and no operand loses its last reference.
LEMMA AssignStep ==
  ASSUME StrInv, StrInv', NEW v \in Vars, NEW x \in Slots \cup {Null},
         var' = [var EXCEPT ![v] = x], text' = Blanked(text, rc'), UNCHANGED <<len, temps>>,
         \A w \in Vars : w # v /\ var[w] # Null => rc'[var[w]] > 0,
         x # Null => rc'[x] > 0,
         \A j \in DOMAIN temps : rc'[temps[j]] = 0 => rc[temps[j]] = 0
  PROVE  /\ x = Null => Values!Assign(v, Null)
         /\ \A j \in DOMAIN temps : x = temps[j] => Values!Assign(v, OperandsOf[j])
  <1>1. \A j \in DOMAIN temps : text'[temps[j]] = text[temps[j]] /\ temps[j] \in Slots
    BY BlankedKeeps, OperandType
  <1>2. OperandsOf' = OperandsOf
    BY <1>1, SameOperands
  <1>3. Null \notin Slots /\ var \in [Vars -> Slots \cup {Null}] /\ rc' \in [Slots -> 0 .. RcMod - 1]
    BY StrAssumption DEF StrInv, StrTypeOK, StrAssumption, Slots
  <1>4. \A w \in Vars : w # v /\ var[w] # Null => text'[var[w]] = text[var[w]]
    BY <1>3, BlankedKeeps
  <1>5. x # Null => text'[x] = text[x]
    BY <1>3, BlankedKeeps
  <1>6. ValueOf' = [ValueOf EXCEPT ![v] = TextOf(x)]
    <2>1. \A w \in Vars : ValueOf'[w] = IF w = v THEN TextOf(x) ELSE ValueOf[w]
      BY <1>3, <1>4, <1>5 DEF ValueOf, TextOf
    <2>2. ValueOf' = [w \in Vars |-> ValueOf'[w]]
      BY DEF ValueOf
    <2> QED BY <2>1, <2>2 DEF ValueOf
  <1>7. ASSUME x = Null PROVE Values!Assign(v, Null)
    <2>1. TextOf(x) = Null
      BY <1>7 DEF TextOf
    <2> QED BY <1>2, <1>6, <2>1 DEF Values!Assign, ValueOf, OperandsOf
  <1>8. ASSUME NEW j \in DOMAIN temps, x = temps[j] PROVE Values!Assign(v, OperandsOf[j])
    <2>1. TextOf(x) = OperandsOf[j]
      BY <1>8 DEF OperandsOf
    <2> QED BY <1>2, <1>6, <2>1 DEF Values!Assign, ValueOf, OperandsOf
  <1> QED BY <1>7, <1>8

\* The variables of the next state keep their strings in use.
LEMMA NextCounted ==
  ASSUME StrInv', NEW w \in Vars, var'[w] # Null
  PROVE  rc'[var'[w]] > 0
  <1>1. StrInv' => VarsCounted'
    BY InvFacts, PTL
  <1> QED BY <1>1 DEF VarsCounted

LEMMA SetStep ==
  ASSUME StrInv, NEW v \in Vars, NEW j \in DOMAIN temps, set(v, temps[j]),
         KeepsTemps(v) \/ temps[j] = var[v]
  PROVE  Values!Assign(v, OperandsOf[j]) \/ UNCHANGED Values!vars
  <1> DEFINE i       == temps[j]
             old     == var[v]
             counted == Counted(rc, i)
  <1>1. CASE status' # status
    BY <1>1 DEF set, Fail, Values!vars, TextOf
  <1>2. CASE status' = status
    <2>1. /\ ~AtLimit(i) /\ (old # Null => counted[old] # 0)
          /\ rc' = Released(counted, old) /\ text' = Blanked(text, rc')
          /\ var' = [var EXCEPT ![v] = i] /\ UNCHANGED <<len, temps, gc, status>>
      BY <1>2 DEF set, Fail, Ready
    <2>2. i \in Slots /\ StrInv' /\ old \in Slots \cup {Null} /\ var \in [Vars -> Slots \cup {Null}]
          /\ rc \in [Slots -> 0 .. RcMod - 1] /\ len \in Nat /\ Null \notin Slots
      <3>1. i \in Slots /\ old \in Slots \cup {Null}
        BY OperandType
      <3>2. StrInv'
        BY <3>1, SetInv
      <3>3. /\ var \in [Vars -> Slots \cup {Null}] /\ rc \in [Slots -> 0 .. RcMod - 1]
            /\ len \in Nat /\ Null \notin Slots
        BY StrAssumption DEF StrInv, StrTypeOK, StrAssumption, Slots
      <3> QED BY <3>1, <3>2, <3>3
    <2>3. /\ counted \in [Slots -> 0 .. RcMod - 1]
          /\ \A k \in Slots : counted[k] = rc[k] + Is(i, k)
      BY <2>1, <2>2, CountedType
    <2>4. \A w \in Vars : var'[w] = IF w = v THEN i ELSE var[w]
      BY <2>1, <2>2
    <2>5. \A w \in Vars : w # v /\ var[w] # Null => rc'[var[w]] > 0
      BY <2>2, <2>4, NextCounted
    <2>6. rc'[i] > 0
      BY <2>2, <2>4, NextCounted
    <2> HIDE DEF counted, old
    <2>7. old # Null => counted[old] > 0
      BY <2>1, <2>2, <2>3
    <2>8. \A k \in Slots : rc'[k] = counted[k] - Is(old, k)
      BY <2>1, <2>2, <2>3, <2>7, ReleasedType
    <2>9. \A l \in DOMAIN temps : rc'[temps[l]] = 0 => rc[temps[l]] = 0
      <3> SUFFICES ASSUME NEW l \in DOMAIN temps, rc'[temps[l]] = 0, rc[temps[l]] # 0 PROVE FALSE
        OBVIOUS
      <3> DEFINE k == temps[l]
      <3>1. k \in Slots /\ rc[k] \in Nat /\ i # k
        BY <2>2, <2>6, OperandType
      <3>2. 0 = rc[k] + Is(i, k) - Is(old, k)
        <4>1. rc'[k] = counted[k] - Is(old, k) /\ rc'[k] = 0
          BY <2>8, <3>1
        <4>2. counted[k] = rc[k] + Is(i, k)
          BY <2>3, <3>1
        <4>3. Is(i, k) \in Nat /\ Is(old, k) \in Nat
          BY DEF Is
        <4> HIDE DEF i, k
        <4> QED BY <3>1, <4>1, <4>2, <4>3
      <3>3. rc[k] = 1 /\ old = k
        BY <3>1, <3>2 DEF Is
      <3>4. KeepsTemps(v)
        BY <3>1, <3>3 DEF old
      <3> QED BY <2>2, <3>1, <3>3, <3>4 DEF KeepsTemps, old
    <2>10. Values!Assign(v, OperandsOf[j])
      BY <2>1, <2>2, <2>5, <2>6, <2>9, AssignStep
    <2> QED BY <2>10
  <1> QED BY <1>1, <1>2

LEMMA LeaveStep ==
  ASSUME StrInv, NEW v \in Vars, Leave(v), KeepsTemps(v)
  PROVE  Values!Assign(v, Null)
  <1>1. /\ var[v] # Null /\ rc' = Released(rc, var[v]) /\ text' = Blanked(text, rc')
        /\ var' = [var EXCEPT ![v] = Null] /\ UNCHANGED <<len, temps>>
        /\ var[v] \in Slots /\ rc[var[v]] > 0 /\ StrInv'
    BY VarCounted, LeaveInv DEF Leave
  <1>2. /\ var \in [Vars -> Slots \cup {Null}] /\ rc \in [Slots -> 0 .. RcMod - 1] /\ len \in Nat
    BY DEF StrInv, StrTypeOK
  <1>3. \A w \in Vars : w # v /\ var[w] # Null => rc'[var[w]] > 0
    <2>1. \A w \in Vars : w # v => var'[w] = var[w]
      BY <1>1, <1>2
    <2> QED BY <1>1, <2>1, NextCounted
  <1>4. \A k \in Slots : rc'[k] = rc[k] - Is(var[v], k)
    BY <1>1, <1>2, ReleasedType
  <1>5. \A l \in DOMAIN temps : rc'[temps[l]] = 0 => rc[temps[l]] = 0
    <2> SUFFICES ASSUME NEW l \in DOMAIN temps, rc'[temps[l]] = 0, rc[temps[l]] # 0 PROVE FALSE
      OBVIOUS
    <2>1. temps[l] \in Slots /\ rc[temps[l]] \in Nat
      BY <1>2, OperandType
    <2>2. 0 = rc[temps[l]] - Is(var[v], temps[l])
      BY <1>4, <2>1
    <2>3. rc[temps[l]] = 1 /\ var[v] = temps[l]
      BY <2>1, <2>2 DEF Is
    <2> QED BY <1>1, <2>3 DEF KeepsTemps
  <1> QED BY <1>1, <1>3, <1>5, AssignStep

LEMMA GcStep ==
  ASSUME StrInv, run_gc
  PROVE  UNCHANGED Values!vars
  <1>1. /\ temps = <<>> /\ text' = Blanked(text, rc') /\ UNCHANGED <<len, var, temps>> /\ StrInv'
    BY GcInv DEF run_gc
  <1>2. \A v \in Vars : var[v] # Null => text'[var[v]] = text[var[v]]
    BY <1>1, NextCounted, VarCounted, BlankedKeeps
  <1>3. ValueOf' = ValueOf /\ OperandsOf' = OperandsOf
    BY <1>1, <1>2, SameValues, SameOperands
  <1> QED BY <1>3 DEF Values!vars, ValueOf, OperandsOf

\* One step of a careful program
LEMMA CarefulStep ==
  ASSUME StrInv, [CarefulNext]_vars
  PROVE  StrInv' /\ [Values!Next]_(Values!vars)
  <1>1. StrInv'
    <2>1. [Next]_vars
      BY DEF CarefulNext, Next
    <2> QED BY <2>1, StrStep
  <1>2. CASE Anchored /\ \E t \in Texts : make_str(t) \/ _concat(t) \/ sub(t)
    BY <1>1, <1>2, NewStep DEF Values!Next
  <1>3. CASE \E i \in Literals : Load(i)
    <2>1. PICK i \in Literals : Load(i)
      BY <1>3
    <2>2. Values!Operand(text[i]) /\ text[i] \in Texts
      BY <2>1, LoadStep, OperandType, MappingIs
    <2> QED BY <1>1, <2>2 DEF Values!Next
  <1>4. CASE \E v \in Vars : Load(var[v]) \/ Return(v)
    <2>1. PICK v \in Vars : Load(var[v]) \/ Return(v)
      BY <1>4
    <2>2. \/ UNCHANGED Values!vars
          \/ var[v] # Null /\ var[v] \in Slots /\ Values!Operand(text[var[v]])
      BY <2>1, LoadStep, ReturnStep, OperandType DEF Load
    <2>3. var[v] \in Slots => text[var[v]] \in Texts
      BY MappingIs
    <2> QED BY <1>1, <2>2, <2>3 DEF Values!Next
  <1>5. CASE \E v \in Vars : KeepsTemps(v) /\ Leave(v)
    BY <1>1, <1>5, LeaveStep DEF Values!Next
  <1>6. CASE \E v \in Vars : \E j \in DOMAIN temps :
               (KeepsTemps(v) \/ temps[j] = var[v]) /\ set(v, temps[j])
    <2>1. PICK v \in Vars, j \in DOMAIN temps :
            (KeepsTemps(v) \/ temps[j] = var[v]) /\ set(v, temps[j])
      BY <1>6
    <2>2. Values!Assign(v, OperandsOf[j]) \/ UNCHANGED Values!vars
      BY <2>1, SetStep
    <2>3. j \in DOMAIN OperandsOf
      BY MappingIs
    <2> QED BY <1>1, <2>2, <2>3 DEF Values!Next, OperandsOf
  <1>7. CASE Discard
    <2>1. OperandsOf' = <<>> /\ ValueOf' = ValueOf
      BY <1>7 DEF Discard, OperandsOf, ValueOf, TextOf
    <2> QED BY <1>1, <2>1 DEF Values!Next, Values!Done, OperandsOf, ValueOf
  <1>8. CASE Stopped \/ UNCHANGED vars
    BY <1>1, <1>8 DEF Stopped, vars, Values!vars, TextOf
  <1> QED BY <1>1, <1>2, <1>3, <1>4, <1>5, <1>6, <1>7, <1>8, GcStep DEF CarefulNext

\* Strings of a careful program are values: no string of a variable or an operand changes
\* because another one is made, dropped or collected and its slot used again.
THEOREM StringsImplementValues == CarefulSpec => ImplementsValues
  <1>1. Init => Values!Init
    BY DEF Init, Values!Init, TextOf
  <1>2. StrInv /\ [CarefulNext]_vars => StrInv' /\ [Values!Next]_(Values!vars)
    BY CarefulStep
  <1> QED BY <1>1, <1>2, StrInit, PTL DEF CarefulSpec, ImplementsValues, Values!Spec
=============================================================================
