-------------------------- MODULE TableStoreProofs --------------------------
(***************************************************************************)
(* Proofs about TableStore: the array of a slot stands for a map, whatever *)
(* the order in which pairs were stored, removed, moved by grow_table, and *)
(* left to the next table of the slot; and the store implements TableMap.  *)
(***************************************************************************)
EXTENDS TableStore, FiniteSetTheorems, TLAPS

(***************************************************************************)
(* One slot                                                                *)
(***************************************************************************)

\* What the array of a slot is between two operations: every index below len is
\* allocated, a hole is blank, what lies behind len is blank, a key that equal()
\* compares occurs once, and count is the number of pairs.
SlotOK(s) ==
  /\ s \in SlotType
  /\ s.len <= Len(s.kvs)
  /\ \A i \in DOMAIN s.kvs : i > s.len => s.kvs[i] = Blank
  /\ \A i \in DOMAIN s.kvs : s.kvs[i].key = Null => s.kvs[i] = Blank
  /\ \A i \in DOMAIN s.kvs : s.kvs[i].key # Null => s.kvs[i].val \in Values
  /\ \A i, j \in 1 .. s.len :
       s.kvs[i].key \in MapKeys /\ s.kvs[i].key = s.kvs[j].key => i = j
  /\ s.count = s.len - Cardinality(Holes(s))

\* A slot without a pair
SlotEmpty(s) == \A i \in DOMAIN s.kvs : s.kvs[i] = Blank

LEMMA BlankType == Blank \in CellType /\ Blank.key = Null /\ Blank.val = Null
  BY DEF Blank, CellType

LEMMA SeqShape ==
  ASSUME NEW S, NEW q \in Seq(S)
  PROVE  Len(q) \in Nat /\ DOMAIN q = 1 .. Len(q) /\ \A i \in DOMAIN q : q[i] \in S
  OBVIOUS

LEMMA IntervalCard ==
  ASSUME NEW a \in Nat, NEW b \in Nat, a <= b + 1
  PROVE  IsFiniteSet(a .. b) /\ Cardinality(a .. b) = b + 1 - a
  <1>1. IsFiniteSet(a .. b)
    BY FS_Interval
  <1>2. Cardinality(a .. b) = IF a > b THEN 0 ELSE b - a + 1
    BY FS_Interval
  <1> QED BY <1>1, <1>2

LEMMA PrefixCard ==
  ASSUME NEW n \in Nat
  PROVE  IsFiniteSet(1 .. n) /\ Cardinality(1 .. n) = n
  <1>1. IsFiniteSet(1 .. n) /\ Cardinality(1 .. n) = n + 1 - 1
    BY IntervalCard
  <1> QED BY <1>1

LEMMA HolesFinite ==
  ASSUME NEW s, s.len \in Nat
  PROVE  /\ IsFiniteSet(Holes(s)) /\ Cardinality(Holes(s)) \in Nat
         /\ Cardinality(Holes(s)) <= s.len
  <1>1. IsFiniteSet(1 .. s.len) /\ Cardinality(1 .. s.len) = s.len
    BY PrefixCard
  <1>2. Holes(s) \in SUBSET (1 .. s.len)
    BY DEF Holes
  <1>3. IsFiniteSet(Holes(s)) /\ Cardinality(Holes(s)) <= s.len
    BY <1>1, <1>2, FS_Subset
  <1> QED BY <1>3, FS_CardinalityType

LEMMA CallocType ==
  ASSUME NEW n \in Nat
  PROVE  /\ calloc(n) \in Seq(CellType) /\ Len(calloc(n)) = n
         /\ \A i \in DOMAIN calloc(n) : calloc(n)[i] = Blank
  BY BlankType DEF calloc

\* An array without pairs is as good as new, whatever its length was.
LEMMA EmptyOK ==
  ASSUME NEW s \in SlotType, s.len <= Len(s.kvs), SlotEmpty(s), s.count = 0
  PROVE  SlotOK(s)
  <1>1. s.len \in Nat /\ s.kvs \in Seq(CellType) /\ DOMAIN s.kvs = 1 .. Len(s.kvs) /\ Len(s.kvs) \in Nat
    BY SeqShape DEF SlotType
  <1>2. Holes(s) = 1 .. s.len
    BY <1>1, BlankType DEF Holes, SlotEmpty
  <1>3. Cardinality(Holes(s)) = s.len
    BY <1>1, <1>2, PrefixCard
  <1>4. s.count = s.len - Cardinality(Holes(s))
    BY <1>1, <1>3
  <1>5. Null \notin MapKeys
    BY StoreAssumption DEF StoreAssumption, MapKeys
  <1> QED BY <1>1, <1>4, <1>5, BlankType DEF SlotOK, SlotEmpty

LEMMA ZeroOK == SlotOK(ZeroSlot) /\ SlotEmpty(ZeroSlot)
  <1>1. ZeroSlot \in SlotType /\ ZeroSlot.len <= Len(ZeroSlot.kvs) /\ ZeroSlot.count = 0
    BY DEF ZeroSlot, SlotType
  <1>2. SlotEmpty(ZeroSlot)
    BY DEF ZeroSlot, SlotEmpty
  <1> QED BY <1>1, <1>2, EmptyOK

\* make_table: the array of the slot's last table, or a new one, is empty and
\* long enough.
LEMMA RecycleOK ==
  ASSUME NEW s, SlotOK(s), SlotEmpty(s), NEW size \in Nat
  PROVE  SlotOK(Recycle(s, size)) /\ SlotEmpty(Recycle(s, size))
  <1> DEFINE r == Recycle(s, size)
  <1>1. s.len \in Nat /\ s.kvs \in Seq(CellType) /\ Len(s.kvs) \in Nat /\ s.len <= Len(s.kvs)
    BY SeqShape DEF SlotOK, SlotType
  <1>2. r.len = size /\ r.count = 0
    BY DEF Recycle
  <1>3. r.kvs \in Seq(CellType) /\ size <= Len(r.kvs) /\ SlotEmpty(r)
    <2>1. CASE r.kvs = calloc(size)
      BY <2>1, CallocType DEF SlotEmpty
    <2>2. CASE r.kvs = s.kvs /\ s.kvs = <<>> /\ size = 0
      BY <1>1, <2>2 DEF SlotEmpty
    <2>3. CASE r.kvs = s.kvs /\ s.kvs # <<>> /\ size <= s.len
      BY <1>1, <2>3 DEF SlotEmpty
    <2> QED BY <1>1, <2>1, <2>2, <2>3 DEF Recycle
  <1>4. r \in SlotType
    BY <1>2, <1>3 DEF Recycle, SlotType
  <1> QED BY <1>2, <1>3, <1>4, EmptyOK

\* _tab_decref: the pairs up to len are blanked, the others are blank already.
LEMMA ClearOK ==
  ASSUME NEW s, SlotOK(s)
  PROVE  SlotOK(Clear(s)) /\ SlotEmpty(Clear(s))
  <1> DEFINE r == Clear(s)
  <1>1. s.len \in Nat /\ s.kvs \in Seq(CellType) /\ DOMAIN s.kvs = 1 .. Len(s.kvs) /\ Len(s.kvs) \in Nat
        /\ s.len <= Len(s.kvs)
    BY SeqShape DEF SlotOK, SlotType
  <1>2. r = [kvs |-> [i \in DOMAIN s.kvs |-> IF i <= s.len THEN Blank ELSE s.kvs[i]],
             len |-> s.len, count |-> 0]
    BY DEF Clear
  <1>3. r.kvs = [i \in 1 .. Len(s.kvs) |-> Blank]
    BY <1>1, <1>2 DEF SlotOK
  <1>4. r.kvs \in Seq(CellType) /\ Len(r.kvs) = Len(s.kvs) /\ SlotEmpty(r)
    BY <1>1, <1>3, BlankType DEF SlotEmpty
  <1>5. r \in SlotType /\ r.len <= Len(r.kvs) /\ r.count = 0
    BY <1>1, <1>2, <1>4 DEF SlotType
  <1> QED BY <1>4, <1>5, EmptyOK


\* A change of one cell
LEMMA CellType1 ==
  ASSUME NEW q \in Seq(CellType), NEW i \in DOMAIN q, NEW c \in CellType
  PROVE  /\ [q EXCEPT ![i] = c] \in Seq(CellType)
         /\ Len([q EXCEPT ![i] = c]) = Len(q)
         /\ DOMAIN [q EXCEPT ![i] = c] = DOMAIN q
  OBVIOUS

\* What SetPair does to a slot
LEMMA SetPairShape ==
  ASSUME NEW s, SlotOK(s), NEW i \in 1 .. s.len, NEW c \in CellType, NEW n \in Nat
  PROVE  LET r == SetPair(s, i, c, n) IN
         /\ r \in SlotType /\ r.len = s.len /\ r.count = n
         /\ Len(r.kvs) = Len(s.kvs) /\ DOMAIN r.kvs = DOMAIN s.kvs
         /\ i \in DOMAIN s.kvs /\ r.kvs[i] = c
         /\ \A j \in DOMAIN s.kvs : j # i => r.kvs[j] = s.kvs[j]
         /\ 1 .. s.len \subseteq DOMAIN s.kvs
  <1> DEFINE r == SetPair(s, i, c, n)
  <1>1. /\ s.len \in Nat /\ s.kvs \in Seq(CellType)
        /\ DOMAIN s.kvs = 1 .. Len(s.kvs) /\ Len(s.kvs) \in Nat
        /\ s.len <= Len(s.kvs) /\ i \in DOMAIN s.kvs
    BY SeqShape DEF SlotOK, SlotType
  <1>2. r.len = s.len /\ r.count = n /\ r.kvs = [s.kvs EXCEPT ![i] = c]
    BY DEF SetPair
  <1>3. r.kvs \in Seq(CellType) /\ Len(r.kvs) = Len(s.kvs) /\ DOMAIN r.kvs = DOMAIN s.kvs
    BY <1>1, <1>2, CellType1
  <1>4. r \in SlotType
    BY <1>1, <1>3 DEF SetPair, SlotType
  <1>5. r.kvs[i] = c /\ \A j \in DOMAIN s.kvs : j # i => r.kvs[j] = s.kvs[j]
    BY <1>1, <1>2
  <1>6. 1 .. s.len \subseteq DOMAIN s.kvs
    BY <1>1
  <1> QED BY <1>1, <1>2, <1>3, <1>4, <1>5, <1>6

LEMMA PutOK ==
  ASSUME NEW s, SlotOK(s), NEW k \in Keys, NEW v \in Values, NEW i \in Holes(s),
         Match(s, k) = {}
  PROVE  SlotOK(Put(s, i, k, v))
  <1> DEFINE c == [key |-> k, val |-> v]
  <1> DEFINE r == Put(s, i, k, v)
  <1>1. s.count \in Nat /\ s.len \in Nat /\ i \in 1 .. s.len
    BY DEF SlotOK, SlotType, Holes
  <1>2. c \in CellType /\ c.key = k /\ c.val = v /\ k # Null
    BY StoreAssumption DEF StoreAssumption, CellType
  <1>3. /\ r \in SlotType /\ r.len = s.len /\ r.count = s.count + 1
        /\ Len(r.kvs) = Len(s.kvs) /\ DOMAIN r.kvs = DOMAIN s.kvs
        /\ i \in DOMAIN s.kvs /\ r.kvs[i] = c
        /\ \A j \in DOMAIN s.kvs : j # i => r.kvs[j] = s.kvs[j]
        /\ 1 .. s.len \subseteq DOMAIN s.kvs
    BY <1>1, <1>2, SetPairShape DEF Put
  <1> HIDE DEF c, r
  <1>4. Holes(r) = Holes(s) \ {i}
    BY <1>2, <1>3 DEF Holes
  <1>5. r.count = r.len - Cardinality(Holes(r))
    <2>1. IsFiniteSet(Holes(s)) /\ Cardinality(Holes(s)) \in Nat
      BY <1>1, HolesFinite
    <2>2. Cardinality(Holes(r)) = Cardinality(Holes(s)) - 1
      BY <1>4, <2>1, FS_RemoveElement
    <2>3. s.count = s.len - Cardinality(Holes(s))
      BY DEF SlotOK
    <2> QED BY <1>1, <1>3, <2>1, <2>2, <2>3
  <1>6. \A a, b \in 1 .. r.len :
          r.kvs[a].key \in MapKeys /\ r.kvs[a].key = r.kvs[b].key => a = b
    <2> SUFFICES ASSUME NEW a \in 1 .. s.len, NEW b \in 1 .. s.len,
                        r.kvs[a].key \in MapKeys, r.kvs[a].key = r.kvs[b].key
                 PROVE  a = b
      BY <1>3
    <2>1. \A j \in 1 .. s.len : s.kvs[j].key = k => k \in Odd
      BY DEF Match, equal
    <2>2. a \in DOMAIN s.kvs /\ b \in DOMAIN s.kvs
      BY <1>3
    <2>3. CASE a = i /\ b # i
      BY <1>2, <1>3, <2>1, <2>2, <2>3 DEF MapKeys
    <2>4. CASE a # i /\ b = i
      BY <1>2, <1>3, <2>1, <2>2, <2>4 DEF MapKeys
    <2>5. CASE a # i /\ b # i
      <3>1. r.kvs[a] = s.kvs[a] /\ r.kvs[b] = s.kvs[b]
        BY <1>3, <2>2, <2>5
      <3> QED BY <3>1 DEF SlotOK
    <2> QED BY <2>3, <2>4, <2>5
  <1>7. \A j \in DOMAIN r.kvs : /\ j > s.len => r.kvs[j] = Blank
                                /\ r.kvs[j].key = Null => r.kvs[j] = Blank
                                /\ r.kvs[j].key # Null => r.kvs[j].val \in Values
    BY <1>1, <1>2, <1>3 DEF SlotOK
  <1>8. r.len <= Len(r.kvs)
    BY <1>3 DEF SlotOK
  <1> QED BY <1>3, <1>5, <1>6, <1>7, <1>8 DEF SlotOK, r

\* The pair with the key k of an array that holds it once
LEMMA RemoveOK ==
  ASSUME NEW s, SlotOK(s), NEW i \in 1 .. s.len, s.kvs[i].key # Null
  PROVE  SlotOK(Remove(s, i))
  <1> DEFINE r == Remove(s, i)
  <1>1. s.count \in Nat /\ s.len \in Nat /\ i \in 1 .. s.len
    BY DEF SlotOK, SlotType
  <1>2. IsFiniteSet(Holes(s)) /\ Cardinality(Holes(s)) \in Nat /\ i \notin Holes(s)
        /\ IsFiniteSet(Holes(s) \cup {i})
        /\ Cardinality(Holes(s) \cup {i}) = Cardinality(Holes(s)) + 1
    <2>1. IsFiniteSet(Holes(s)) /\ Cardinality(Holes(s)) \in Nat /\ i \notin Holes(s)
      BY <1>1, HolesFinite DEF Holes
    <2> QED BY <2>1, FS_AddElement
  <1>3. s.count = s.len - Cardinality(Holes(s))
    BY DEF SlotOK
  <1>4. s.count - 1 \in Nat
    <2>1. Holes(s) \cup {i} \in SUBSET (1 .. s.len)
      BY DEF Holes
    <2>2. IsFiniteSet(1 .. s.len) /\ Cardinality(1 .. s.len) = s.len
      BY <1>1, PrefixCard
    <2>3. Cardinality(Holes(s) \cup {i}) <= s.len
      BY <2>1, <2>2, FS_Subset
    <2> QED BY <1>1, <1>2, <1>3, <2>3
  <1>5. /\ r \in SlotType /\ r.len = s.len /\ r.count = s.count - 1
        /\ Len(r.kvs) = Len(s.kvs) /\ DOMAIN r.kvs = DOMAIN s.kvs
        /\ i \in DOMAIN s.kvs /\ r.kvs[i] = Blank
        /\ \A j \in DOMAIN s.kvs : j # i => r.kvs[j] = s.kvs[j]
        /\ 1 .. s.len \subseteq DOMAIN s.kvs
    BY <1>4, BlankType, SetPairShape DEF Remove
  <1> HIDE DEF r
  <1>6. Holes(r) = Holes(s) \cup {i}
    BY <1>1, <1>5, BlankType DEF Holes
  <1>7. r.count = r.len - Cardinality(Holes(r))
    BY <1>1, <1>2, <1>3, <1>5, <1>6
  <1>8. \A a, b \in 1 .. r.len :
          r.kvs[a].key \in MapKeys /\ r.kvs[a].key = r.kvs[b].key => a = b
    <2> SUFFICES ASSUME NEW a \in 1 .. s.len, NEW b \in 1 .. s.len,
                        r.kvs[a].key \in MapKeys, r.kvs[a].key = r.kvs[b].key
                 PROVE  a = b
      BY <1>5
    <2>1. a # i /\ b # i
      BY <1>5, BlankType, StoreAssumption DEF MapKeys, StoreAssumption
    <2>2. r.kvs[a] = s.kvs[a] /\ r.kvs[b] = s.kvs[b]
      BY <1>5, <2>1
    <2> QED BY <2>2 DEF SlotOK
  <1>9. \A j \in DOMAIN r.kvs : /\ j > s.len => r.kvs[j] = Blank
                                /\ r.kvs[j].key = Null => r.kvs[j] = Blank
                                /\ r.kvs[j].key # Null => r.kvs[j].val \in Values
    BY <1>1, <1>5, BlankType DEF SlotOK
  <1>10. r.len <= Len(r.kvs)
    BY <1>5 DEF SlotOK
  <1> QED BY <1>5, <1>7, <1>8, <1>9, <1>10 DEF SlotOK, r

\* A new value for a key that is there
LEMMA ReplaceOK ==
  ASSUME NEW s, SlotOK(s), NEW i \in 1 .. s.len, s.kvs[i].key # Null, NEW v \in Values
  PROVE  SlotOK(SetPair(s, i, [key |-> s.kvs[i].key, val |-> v], s.count))
  <1> DEFINE c == [key |-> s.kvs[i].key, val |-> v]
  <1> DEFINE r == SetPair(s, i, c, s.count)
  <1>1. s.count \in Nat /\ s.len \in Nat /\ s.kvs[i].key \in Keys
    <2>1. /\ s.count \in Nat /\ s.len \in Nat /\ s.kvs \in Seq(CellType)
          /\ s.len <= Len(s.kvs)
      BY DEF SlotOK, SlotType
    <2>2. s.kvs[i] \in CellType
      BY <2>1, SeqShape
    <2> QED BY <2>1, <2>2 DEF CellType
  <1>2. c \in CellType /\ c.key = s.kvs[i].key /\ c.val = v
    BY <1>1 DEF CellType
  <1>3. /\ r \in SlotType /\ r.len = s.len /\ r.count = s.count
        /\ Len(r.kvs) = Len(s.kvs) /\ DOMAIN r.kvs = DOMAIN s.kvs
        /\ i \in DOMAIN s.kvs /\ r.kvs[i] = c
        /\ \A j \in DOMAIN s.kvs : j # i => r.kvs[j] = s.kvs[j]
        /\ 1 .. s.len \subseteq DOMAIN s.kvs
    BY <1>1, <1>2, SetPairShape
  <1> HIDE DEF c, r
  <1>4. \A j \in DOMAIN s.kvs : r.kvs[j].key = s.kvs[j].key
    BY <1>2, <1>3
  <1>5. Holes(r) = Holes(s)
    BY <1>3, <1>4 DEF Holes
  <1>6. \A a, b \in 1 .. r.len :
          r.kvs[a].key \in MapKeys /\ r.kvs[a].key = r.kvs[b].key => a = b
    BY <1>3, <1>4 DEF SlotOK
  <1>7. \A j \in DOMAIN r.kvs : /\ j > s.len => r.kvs[j] = Blank
                                /\ r.kvs[j].key = Null => r.kvs[j] = Blank
                                /\ r.kvs[j].key # Null => r.kvs[j].val \in Values
    BY <1>1, <1>2, <1>3 DEF SlotOK
  <1> QED BY <1>3, <1>5, <1>6, <1>7 DEF SlotOK, r, c

\* grow_table keeps the pairs where they are, and makes room behind them.
LEMMA GrowOK ==
  ASSUME NEW s, SlotOK(s)
  PROVE  LET r == grow_table(s) IN
         /\ SlotOK(r) /\ r.len > s.len /\ s.len + 1 \in Holes(r)
         /\ \A i \in 1 .. s.len : r.kvs[i] = s.kvs[i]
         /\ \A i \in 1 .. r.len : i > s.len => r.kvs[i] = Blank
  <1> DEFINE r == grow_table(s)
  <1>1. /\ s.count \in Nat /\ s.len \in Nat /\ s.kvs \in Seq(CellType)
        /\ DOMAIN s.kvs = 1 .. Len(s.kvs) /\ Len(s.kvs) \in Nat
        /\ s.len <= Len(s.kvs) /\ \A i \in 1 .. s.len : s.kvs[i] \in CellType
    BY SeqShape DEF SlotOK, SlotType
  <1>2. GrownLen(s) \in Nat /\ GrownLen(s) > s.len
    BY <1>1 DEF GrownLen
  <1>3. /\ r.len = GrownLen(s) /\ r.count = s.count
        /\ r.kvs = [i \in 1 .. GrownLen(s) |-> IF i <= s.len THEN s.kvs[i] ELSE Blank]
    BY DEF grow_table
  <1>4. r.kvs \in [1 .. GrownLen(s) -> CellType]
    BY <1>1, <1>2, <1>3, BlankType
  <1>5. r.kvs \in Seq(CellType) /\ Len(r.kvs) = GrownLen(s) /\ DOMAIN r.kvs = 1 .. GrownLen(s)
    BY <1>2, <1>4
  <1>6. r \in SlotType
    BY <1>1, <1>2, <1>3, <1>5 DEF grow_table, SlotType
  <1>7. /\ \A i \in 1 .. s.len : r.kvs[i] = s.kvs[i]
        /\ \A i \in 1 .. r.len : i > s.len => r.kvs[i] = Blank
    BY <1>1, <1>2, <1>3
  <1> HIDE DEF r
  <1>8. Holes(r) = Holes(s) \cup (s.len + 1) .. r.len
    BY <1>1, <1>2, <1>3, <1>7, BlankType DEF Holes
  <1>9. r.count = r.len - Cardinality(Holes(r))
    <2>1. IsFiniteSet(Holes(s)) /\ Cardinality(Holes(s)) \in Nat
      BY <1>1, HolesFinite
    <2>2. /\ IsFiniteSet((s.len + 1) .. r.len)
          /\ Cardinality((s.len + 1) .. r.len) = r.len - s.len
      <3>1. s.len + 1 \in Nat /\ r.len \in Nat /\ s.len + 1 <= r.len + 1
        BY <1>1, <1>2, <1>3
      <3>2. /\ IsFiniteSet((s.len + 1) .. r.len)
            /\ Cardinality((s.len + 1) .. r.len) = r.len + 1 - (s.len + 1)
        BY <3>1, IntervalCard
      <3> QED BY <1>1, <3>1, <3>2
    <2>3. Holes(s) \cap (s.len + 1) .. r.len = {}
      BY <1>1 DEF Holes
    <2>4. Cardinality(Holes(r)) = Cardinality(Holes(s)) + (r.len - s.len)
      <3>1. Cardinality(Holes(r)) =
              Cardinality(Holes(s)) + Cardinality((s.len + 1) .. r.len) - Cardinality({})
        BY <1>8, <2>1, <2>2, <2>3, FS_Union
      <3>2. Cardinality({}) = 0
        BY FS_EmptySet
      <3> QED BY <1>1, <1>2, <1>3, <2>1, <2>2, <3>1, <3>2
    <2>5. s.count = s.len - Cardinality(Holes(s))
      BY DEF SlotOK
    <2> QED BY <1>1, <1>2, <1>3, <2>1, <2>4, <2>5
  <1>10. \A a, b \in 1 .. r.len :
           r.kvs[a].key \in MapKeys /\ r.kvs[a].key = r.kvs[b].key => a = b
    <2> SUFFICES ASSUME NEW a \in 1 .. r.len, NEW b \in 1 .. r.len,
                        r.kvs[a].key \in MapKeys, r.kvs[a].key = r.kvs[b].key
                 PROVE  a = b
      OBVIOUS
    <2>1. Null \notin MapKeys
      BY StoreAssumption DEF MapKeys, StoreAssumption
    <2>2. a \in 1 .. s.len /\ b \in 1 .. s.len
      BY <1>1, <1>2, <1>3, <1>7, <2>1, BlankType
    <2> QED BY <1>7, <2>2 DEF SlotOK
  <1>11. \A j \in DOMAIN r.kvs : /\ j > r.len => r.kvs[j] = Blank
                                 /\ r.kvs[j].key = Null => r.kvs[j] = Blank
                                 /\ r.kvs[j].key # Null => r.kvs[j].val \in Values
    BY <1>1, <1>2, <1>3, <1>5, <1>7, BlankType DEF SlotOK
  <1>12. SlotOK(r)
    BY <1>2, <1>3, <1>5, <1>6, <1>9, <1>10, <1>11 DEF SlotOK
  <1>13. s.len + 1 \in Holes(r) /\ r.len > s.len
    BY <1>1, <1>2, <1>3, <1>8
  <1> QED BY <1>7, <1>12, <1>13 DEF r

LEMMA GrowMatch ==
  ASSUME NEW s, SlotOK(s), NEW k \in Keys, Match(s, k) = {}
  PROVE  Match(grow_table(s), k) = {}
  <1> DEFINE r == grow_table(s)
  <1>1. /\ \A i \in 1 .. s.len : r.kvs[i] = s.kvs[i]
        /\ \A i \in 1 .. r.len : i > s.len => r.kvs[i] = Blank
    BY GrowOK
  <1>2. s.len \in Nat /\ k # Null
    BY StoreAssumption DEF SlotOK, SlotType, StoreAssumption
  <1> HIDE DEF r
  <1>3. \A i \in 1 .. r.len : ~equal(r.kvs[i].key, k)
    BY <1>1, <1>2, BlankType DEF Match, equal
  <1> QED BY <1>3 DEF Match, r

(***************************************************************************)
(* The map of a slot                                                       *)
(***************************************************************************)

\* A search ends at the pair with the key, ...
LEMMA LookupFound ==
  ASSUME NEW s, SlotOK(s), NEW k \in MapKeys, NEW i \in 1 .. s.len, s.kvs[i].key = k
  PROVE  Match(s, k) = {i} /\ Lookup(s, k) = s.kvs[i].val
  <1>1. Match(s, k) = {i}
    BY DEF SlotOK, Match, equal, MapKeys
  <1>2. \A j \in Match(s, k) : First(Match(s, k), j) <=> j = i
    <2>1. s.len \in Nat
      BY DEF SlotOK, SlotType
    <2> QED BY <1>1, <2>1 DEF First
  <1>3. (CHOOSE j \in Match(s, k) : First(Match(s, k), j)) = i
    BY <1>1, <1>2
  <1> QED BY <1>1, <1>3 DEF Lookup

\* ... or with nil.
LEMMA LookupMissing ==
  ASSUME NEW s, NEW k \in MapKeys, \A i \in 1 .. s.len : s.kvs[i].key # k
  PROVE  Match(s, k) = {} /\ Lookup(s, k) = Null
  BY DEF Match, equal, MapKeys, Lookup

\* Two arrays with the same pairs at the same indices, but for blank ones, stand
\* for the same map.
LEMMA LookupSame ==
  ASSUME NEW s, NEW r, SlotOK(s), SlotOK(r), NEW k \in MapKeys,
         \A i \in 1 .. s.len : s.kvs[i].key = k => i \in 1 .. r.len /\ r.kvs[i] = s.kvs[i],
         \A i \in 1 .. r.len : r.kvs[i].key = k => i \in 1 .. s.len /\ r.kvs[i] = s.kvs[i]
  PROVE  Lookup(r, k) = Lookup(s, k)
  <1>1. CASE \E i \in 1 .. s.len : s.kvs[i].key = k
    <2>1. PICK i \in 1 .. s.len : s.kvs[i].key = k
      BY <1>1
    <2>2. i \in 1 .. r.len /\ r.kvs[i] = s.kvs[i] /\ r.kvs[i].key = k
      BY <2>1
    <2>3. Lookup(s, k) = s.kvs[i].val
      BY <2>1, LookupFound
    <2>4. Lookup(r, k) = r.kvs[i].val
      BY <2>2, LookupFound
    <2> QED BY <2>2, <2>3, <2>4
  <1>2. CASE \A i \in 1 .. s.len : s.kvs[i].key # k
    <2>1. \A i \in 1 .. r.len : r.kvs[i].key # k
      BY <1>2
    <2>2. Lookup(s, k) = Null
      BY <1>2, LookupMissing
    <2>3. Lookup(r, k) = Null
      BY <2>1, LookupMissing
    <2> QED BY <2>2, <2>3
  <1> QED BY <1>1, <1>2

LEMMA EmptyMapOfSlot ==
  ASSUME NEW s, SlotOK(s), SlotEmpty(s), NEW k \in MapKeys
  PROVE  Lookup(s, k) = Null
  <1>1. \A i \in 1 .. s.len : s.kvs[i].key # k
    <2>1. 1 .. s.len \subseteq DOMAIN s.kvs
      BY SeqShape DEF SlotOK, SlotType
    <2>2. k # Null
      BY StoreAssumption DEF StoreAssumption, MapKeys
    <2> QED BY <2>1, <2>2, BlankType DEF SlotEmpty
  <1> QED BY <1>1, LookupMissing

\* The map after one pair changed: the key that was at the index is gone, the key
\* of the new pair has its value, all others are as they were.
LEMMA SetPairMap ==
  ASSUME NEW s, SlotOK(s), NEW i \in 1 .. s.len, NEW c \in CellType, NEW n \in Nat,
         SlotOK(SetPair(s, i, c, n)), NEW k \in MapKeys
  PROVE  Lookup(SetPair(s, i, c, n), k) =
           IF c.key = k THEN c.val
           ELSE IF s.kvs[i].key = k THEN Null ELSE Lookup(s, k)
  <1> DEFINE r == SetPair(s, i, c, n)
  <1>1. /\ r.len = s.len /\ r.kvs[i] = c
        /\ \A j \in 1 .. s.len : j # i => r.kvs[j] = s.kvs[j]
    BY SetPairShape
  <1> HIDE DEF r
  <1>2. CASE c.key = k
    <2>1. Lookup(r, k) = c.val
      BY <1>1, <1>2, LookupFound DEF r
    <2> QED BY <1>2, <2>1 DEF r
  <1>3. CASE c.key # k /\ s.kvs[i].key = k
    <2>1. \A j \in 1 .. s.len : s.kvs[j].key = k => j = i
      BY <1>3 DEF SlotOK
    <2>2. \A j \in 1 .. r.len : r.kvs[j].key # k
      BY <1>1, <1>3, <2>1
    <2>3. Lookup(r, k) = Null
      BY <2>2, LookupMissing
    <2> QED BY <1>3, <2>3 DEF r
  <1>4. CASE c.key # k /\ s.kvs[i].key # k
    <2>1. Lookup(r, k) = Lookup(s, k)
      BY <1>1, <1>4, LookupSame DEF r
    <2> QED BY <1>4, <2>1 DEF r
  <1> QED BY <1>2, <1>3, <1>4

\* The map after a pair was put into a hole, ...
LEMMA PutMap ==
  ASSUME NEW s, SlotOK(s), NEW k \in Keys, NEW v \in Values, NEW i \in Holes(s),
         SlotOK(Put(s, i, k, v)), NEW q \in MapKeys
  PROVE  Lookup(Put(s, i, k, v), q) = IF q = k THEN v ELSE Lookup(s, q)
  <1> DEFINE c == [key |-> k, val |-> v]
  <1>1. /\ s.count + 1 \in Nat /\ i \in 1 .. s.len /\ s.kvs[i].key = Null /\ q # Null
        /\ c \in CellType /\ c.key = k /\ c.val = v
    BY StoreAssumption DEF SlotOK, SlotType, Holes, CellType, StoreAssumption, MapKeys
  <1>2. Lookup(SetPair(s, i, c, s.count + 1), q) =
          IF c.key = q THEN c.val ELSE IF s.kvs[i].key = q THEN Null ELSE Lookup(s, q)
    BY <1>1, SetPairMap DEF Put
  <1> QED BY <1>1, <1>2 DEF Put

\* ... after a pair was removed ...
LEMMA RemoveMap ==
  ASSUME NEW s, SlotOK(s), NEW k \in MapKeys, NEW i \in 1 .. s.len, s.kvs[i].key = k,
         NEW q \in MapKeys
  PROVE  Lookup(Remove(s, i), q) = IF q = k THEN Null ELSE Lookup(s, q)
  <1> DEFINE r == Remove(s, i)
  <1>1. k # Null /\ q # Null
    BY StoreAssumption DEF StoreAssumption, MapKeys
  <1>2. SlotOK(r)
    BY <1>1, RemoveOK
  <1>3. s.count - 1 \in Nat
    <2>1. r.count = s.count - 1 /\ r.count \in Nat
      BY <1>2 DEF Remove, SetPair, SlotOK, SlotType
    <2> QED BY <2>1
  <1>4. Lookup(SetPair(s, i, Blank, s.count - 1), q) =
          IF Blank.key = q THEN Blank.val ELSE IF s.kvs[i].key = q THEN Null ELSE Lookup(s, q)
    BY <1>2, <1>3, BlankType, SetPairMap DEF Remove
  <1> QED BY <1>1, <1>4, BlankType DEF Remove

\* ... and after the array was doubled.
LEMMA GrowMap ==
  ASSUME NEW s, SlotOK(s), NEW q \in MapKeys
  PROVE  Lookup(grow_table(s), q) = Lookup(s, q)
  <1> DEFINE r == grow_table(s)
  <1>1. /\ SlotOK(r) /\ r.len > s.len
        /\ \A i \in 1 .. s.len : r.kvs[i] = s.kvs[i]
        /\ \A i \in 1 .. r.len : i > s.len => r.kvs[i] = Blank
    BY GrowOK
  <1>2. s.len \in Nat /\ r.len \in Nat /\ q # Null
    BY <1>1, StoreAssumption DEF SlotOK, SlotType, StoreAssumption, MapKeys
  <1> HIDE DEF r
  <1>3. \A i \in 1 .. s.len : i \in 1 .. r.len /\ r.kvs[i] = s.kvs[i]
    BY <1>1, <1>2
  <1>4. \A i \in 1 .. r.len : r.kvs[i].key = q => i \in 1 .. s.len /\ r.kvs[i] = s.kvs[i]
    BY <1>1, <1>2, BlankType
  <1>5. Lookup(r, q) = Lookup(s, q)
    BY <1>1, <1>3, <1>4, LookupSame
  <1> QED BY <1>5 DEF r

(***************************************************************************)
(* The inductive invariant                                                 *)
(***************************************************************************)
StoreInv ==
  /\ StoreTypeOK
  /\ \A t \in Slots : SlotOK(tabs[t])
  /\ \A t \in free : SlotEmpty(tabs[t])
  /\ SlotIsFound

LEMMA NewLenType ==
  ASSUME StoreTypeOK
  PROVE  NewLen \in 0 .. LenMod - 1
  <1>1. LenMod \in Nat \ {0} /\ InitLen \in 0 .. LenMod - 1
    BY StoreAssumption DEF StoreAssumption
  <1>2. 2 * len \in Nat
    BY <1>1 DEF StoreTypeOK
  <1>3. \A m \in Nat : m % LenMod \in 0 .. LenMod - 1
    BY <1>1
  <1> QED BY <1>1, <1>2, <1>3 DEF NewLen

\* The arena make_table takes a slot from: there is one, all are sound, the free
\* ones are empty, and the tables of the program have not changed.
LEMMA ArenaOK ==
  ASSUME StoreInv, ~(len = used /\ len # 0 /\ ~(NewLen > len))
  PROVE  LET A == Arena IN
         /\ A.len \in 0 .. LenMod - 1 /\ len <= A.len
         /\ A.free \subseteq 0 .. A.len - 1 /\ A.free # {}
         /\ IsFiniteSet(A.free) /\ used = A.len - Cardinality(A.free)
         /\ DOMAIN A.tabs = 0 .. A.len - 1
         /\ \A t \in 0 .. A.len - 1 : A.tabs[t] \in SlotType /\ SlotOK(A.tabs[t])
         /\ A.tabs = [t \in 0 .. A.len - 1 |-> A.tabs[t]]
         /\ \A t \in A.free : SlotEmpty(A.tabs[t])
         /\ (0 .. A.len - 1) \ A.free = Live
         /\ \A t \in Live : A.tabs[t] = tabs[t]
  <1> DEFINE A == Arena
  <1>1. /\ len \in 0 .. LenMod - 1 /\ used \in 0 .. len /\ free \subseteq Slots
        /\ tabs \in [Slots -> SlotType] /\ LenMod \in Nat /\ len \in Nat /\ used \in Nat
    BY StoreAssumption DEF StoreInv, StoreTypeOK, StoreAssumption
  <1>2. IsFiniteSet(Slots) /\ IsFiniteSet(free) /\ Cardinality(free) \in Nat
    <2>1. IsFiniteSet(Slots)
      BY <1>1, FS_Interval DEF Slots
    <2> QED BY <1>1, <2>1, FS_Subset, FS_CardinalityType
  <1>3. used = len - Cardinality(free)
    BY DEF StoreInv, SlotIsFound
  <1>4. CASE len # used
    <2>1. A.len = len /\ A.free = free /\ A.tabs = tabs
      BY <1>4 DEF Arena
    <2>2. free # {}
      BY <1>1, <1>2, <1>3, <1>4, FS_EmptySet
    <2>3. A.tabs = [t \in 0 .. A.len - 1 |-> A.tabs[t]]
      BY <1>1, <2>1 DEF Slots
    <2>4. \A t \in 0 .. A.len - 1 : A.tabs[t] \in SlotType /\ SlotOK(A.tabs[t])
      BY <1>1, <2>1 DEF StoreInv, Slots
    <2>5. /\ A.len \in 0 .. LenMod - 1 /\ len <= A.len
          /\ A.free \subseteq 0 .. A.len - 1 /\ A.free # {} /\ IsFiniteSet(A.free)
          /\ DOMAIN A.tabs = 0 .. A.len - 1
      BY <1>1, <1>2, <2>1, <2>2 DEF Slots
    <2>6. used = A.len - Cardinality(A.free)
      BY <1>3, <2>1
    <2>7. \A t \in A.free : SlotEmpty(A.tabs[t])
      BY <2>1 DEF StoreInv
    <2>8. (0 .. A.len - 1) \ A.free = Live /\ \A t \in Live : A.tabs[t] = tabs[t]
      BY <2>1 DEF Live, Slots
    <2> HIDE DEF A
    <2> QED BY <2>3, <2>4, <2>5, <2>6, <2>7, <2>8 DEF A
  <1>5. CASE len = used
    <2> DEFINE new == len .. NewLen - 1
    <2>1. NewLen \in 0 .. LenMod - 1 /\ NewLen > len
      <3>1. CASE len = 0
        BY <1>1, <3>1, NewLenType, StoreAssumption DEF NewLen, StoreAssumption, StoreInv
      <3>2. CASE len # 0
        BY <1>5, <3>2, NewLenType DEF StoreInv
      <3> QED BY <3>1, <3>2
    <2>2. /\ A.len = NewLen /\ A.free = free \cup new
          /\ A.tabs = [t \in 0 .. NewLen - 1 |-> IF t \in Slots THEN tabs[t] ELSE ZeroSlot]
      BY <1>5 DEF Arena
    <2>3. free = {}
      BY <1>1, <1>2, <1>3, <1>5, FS_EmptySet
    <2>4. IsFiniteSet(new) /\ Cardinality(new) = NewLen - len
      <3>1. NewLen - 1 \in Nat /\ len <= (NewLen - 1) + 1
        BY <1>1, <2>1
      <3>2. IsFiniteSet(new) /\ Cardinality(new) = (NewLen - 1) + 1 - len
        BY <1>1, <3>1, IntervalCard
      <3>3. NewLen \in Nat
        BY <1>1, <2>1
      <3> HIDE DEF new
      <3> QED BY <1>1, <3>2, <3>3
    <2>5. A.free = new
      BY <2>2, <2>3
    <2>6. used = A.len - Cardinality(A.free)
      <3>1. NewLen \in Nat
        BY <1>1, <2>1
      <3>2. A.len = NewLen
        BY <2>2
      <3>3. Cardinality(A.free) = NewLen - len
        BY <2>4, <2>5
      <3> HIDE DEF A
      <3> QED BY <1>1, <1>5, <3>1, <3>2, <3>3
    <2>7. A.free # {} /\ A.free \subseteq 0 .. A.len - 1 /\ IsFiniteSet(A.free)
      <3>1. new # {} /\ new \subseteq 0 .. NewLen - 1
        BY <1>1, <2>1
      <3>2. A.len = NewLen
        BY <2>2
      <3>3. IsFiniteSet(A.free)
        BY <2>4, <2>5
      <3> HIDE DEF A, new
      <3> QED BY <2>5, <3>1, <3>2, <3>3
    <2>8. \A t \in 0 .. NewLen - 1 :
            IF t \in Slots THEN A.tabs[t] = tabs[t] ELSE A.tabs[t] = ZeroSlot
      BY <2>2
    <2>9. \A t \in 0 .. NewLen - 1 : SlotOK(A.tabs[t])
      BY <2>8, ZeroOK DEF StoreInv
    <2>10. \A t \in 0 .. NewLen - 1 : A.tabs[t] \in SlotType
      BY <2>9 DEF SlotOK
    <2>11. \A t \in new : t \in 0 .. NewLen - 1 /\ t \notin Slots
      BY <1>1, <2>1 DEF Slots
    <2>12. \A t \in A.free : SlotEmpty(A.tabs[t])
      BY <2>5, <2>8, <2>11, ZeroOK
    <2>13. (0 .. NewLen - 1) \ A.free = Live /\ Live \subseteq Slots
      BY <1>1, <2>1, <2>3, <2>5 DEF Live, Slots
    <2>14. \A t \in Live : A.tabs[t] = tabs[t]
      BY <2>8, <2>13
    <2>15. DOMAIN A.tabs = 0 .. A.len - 1 /\ A.tabs = [t \in 0 .. A.len - 1 |-> A.tabs[t]]
      BY <2>2
    <2>16. len <= NewLen
      BY <1>1, <2>1
    <2> HIDE DEF A, new
    <2> QED BY <2>1, <2>2, <2>6, <2>7, <2>9, <2>10, <2>12, <2>13, <2>14, <2>15, <2>16 DEF A
  <1> QED BY <1>4, <1>5

\* A step that changes one slot of a live table
LEMMA OneSlotInv ==
  ASSUME StoreInv, NEW t \in Live, NEW r, SlotOK(r),
         tabs' = [tabs EXCEPT ![t] = r],
         UNCHANGED <<len, used, free, status>>,
         result' \in Values \cup {Null} \cup Nat
  PROVE  StoreInv'
  <1>1. tabs \in [Slots -> SlotType] /\ t \in Slots /\ t \notin free /\ r \in SlotType
    BY DEF StoreInv, StoreTypeOK, Live, SlotOK
  <1>2. Slots' = Slots /\ tabs' \in [Slots -> SlotType]
    BY <1>1 DEF Slots
  <1>3. StoreTypeOK'
    BY <1>2 DEF StoreInv, StoreTypeOK
  <1>4. \A u \in Slots : SlotOK(tabs'[u])
    BY <1>1 DEF StoreInv
  <1>5. \A u \in free : SlotEmpty(tabs'[u])
    BY <1>1 DEF StoreInv, StoreTypeOK
  <1>6. SlotIsFound'
    BY DEF StoreInv, SlotIsFound
  <1> QED BY <1>2, <1>3, <1>4, <1>5, <1>6 DEF StoreInv

LEMMA CellAt ==
  ASSUME NEW s, SlotOK(s), NEW i \in 1 .. s.len
  PROVE  s.kvs[i] \in CellType /\ s.kvs[i].val \in Values \cup {Null}
  <1>1. s.len \in Nat /\ s.kvs \in Seq(CellType) /\ s.len <= Len(s.kvs)
    BY DEF SlotOK, SlotType
  <1>2. s.kvs[i] \in CellType
    BY <1>1, SeqShape
  <1> QED BY <1>2 DEF CellType

\* What a search found
LEMMA MatchAt ==
  ASSUME NEW s, NEW k \in Keys, NEW i \in Match(s, k)
  PROVE  i \in 1 .. s.len /\ s.kvs[i].key = k /\ k \in MapKeys /\ s.kvs[i].key # Null
  BY StoreAssumption DEF Match, equal, MapKeys, StoreAssumption

LEMMA MakeInv ==
  ASSUME StoreInv, NEW size \in Sizes, make_table(size)
  PROVE  StoreInv'
  <1>1. CASE len = used /\ len # 0 /\ ~(NewLen > len)
    <2>1. UNCHANGED <<len, used, free, tabs, result>> /\ status' = "overflow"
      BY <1>1 DEF make_table, Abort
    <2>2. StoreTypeOK'
      BY <2>1 DEF StoreInv, StoreTypeOK, Slots
    <2>3. SlotIsFound'
      BY <2>1 DEF StoreInv, SlotIsFound
    <2> QED BY <2>1, <2>2, <2>3 DEF StoreInv, Slots
  <1>2. CASE ~(len = used /\ len # 0 /\ ~(NewLen > len))
    <2> DEFINE A == Arena
    <2>1. /\ A.len \in 0 .. LenMod - 1 /\ len <= A.len
          /\ A.free \subseteq 0 .. A.len - 1 /\ A.free # {}
          /\ IsFiniteSet(A.free) /\ used = A.len - Cardinality(A.free)
          /\ DOMAIN A.tabs = 0 .. A.len - 1
          /\ \A t \in 0 .. A.len - 1 : A.tabs[t] \in SlotType /\ SlotOK(A.tabs[t])
          /\ A.tabs = [t \in 0 .. A.len - 1 |-> A.tabs[t]]
          /\ \A t \in A.free : SlotEmpty(A.tabs[t])
      BY <1>2, ArenaOK
    <2>2. PICK t \in A.free :
            /\ len' = A.len /\ used' = used + 1 /\ free' = A.free \ {t}
            /\ tabs' = [A.tabs EXCEPT ![t] = Recycle(@, size)]
            /\ result' = t /\ UNCHANGED status
      BY <1>2, <2>1 DEF make_table
    <2> HIDE DEF A
    <2>3. t \in 0 .. A.len - 1 /\ t \in Nat /\ A.len \in Nat /\ used \in Nat /\ size \in Nat /\ LenMod \in Nat
      BY <2>1, StoreAssumption DEF StoreInv, StoreTypeOK, StoreAssumption
    <2>4. SlotOK(Recycle(A.tabs[t], size))
      BY <2>1, <2>3, RecycleOK
    <2>5. tabs' \in [0 .. A.len - 1 -> SlotType]
      BY <2>1, <2>2, <2>4 DEF SlotOK
    <2>6. \A u \in 0 .. A.len - 1 : SlotOK(tabs'[u])
      BY <2>1, <2>2, <2>4
    <2>7. \A u \in free' : SlotEmpty(tabs'[u])
      BY <2>1, <2>2
    <2>8. /\ IsFiniteSet(free') /\ Cardinality(free') = Cardinality(A.free) - 1
          /\ Cardinality(A.free) \in Nat
      BY <2>1, <2>2, FS_RemoveElement, FS_CardinalityType
    <2>9. used + 1 = A.len - Cardinality(free')
      BY <2>1, <2>3, <2>8
    <2>10. Cardinality(free') \in Nat
      BY <2>8, FS_CardinalityType
    <2>11. Slots' = 0 .. A.len - 1
      BY <2>2 DEF Slots
    <2>12. used' \in 0 .. A.len
      BY <2>2, <2>3, <2>9, <2>10
    <2>13. StoreTypeOK'
      <3>1. free' \subseteq Slots'
        BY <2>1, <2>2, <2>11
      <3>2. len' \in 0 .. LenMod - 1 /\ used' \in 0 .. len'
        BY <2>1, <2>2, <2>12
      <3>3. status' \in {"run", "overflow", "noslot"} /\ result' \in Nat
        BY <2>2, <2>3 DEF StoreInv, StoreTypeOK
      <3> QED BY <2>5, <2>11, <3>1, <3>2, <3>3 DEF StoreTypeOK
    <2>14. SlotIsFound'
      BY <2>2, <2>9 DEF StoreInv, SlotIsFound
    <2> QED BY <2>6, <2>7, <2>11, <2>13, <2>14 DEF StoreInv
  <1> QED BY <1>1, <1>2

\* The slot that set_tabvalue leaves behind
LEMMA SetSlot ==
  ASSUME StoreInv, NEW t \in Slots, NEW k \in Keys, NEW v \in Values, set_tabvalue(t, k, v)
  PROVE  \E r : SlotOK(r) /\ tabs' = [tabs EXCEPT ![t] = r]
  <1>1. t \in Live /\ SlotOK(tabs[t])
    BY DEF StoreInv, set_tabvalue
  <1>2. CASE Replace(t, k, v)
    <2>1. PICK i \in Match(tabs[t], k) :
            tabs' = [tabs EXCEPT ![t] = SetPair(@, i, [key |-> @.kvs[i].key, val |-> v], @.count)]
      BY <1>2 DEF Replace
    <2>2. i \in 1 .. tabs[t].len /\ tabs[t].kvs[i].key # Null
      BY MatchAt
    <2>3. SlotOK(SetPair(tabs[t], i, [key |-> tabs[t].kvs[i].key, val |-> v], tabs[t].count))
      BY <1>1, <2>2, ReplaceOK
    <2> QED BY <2>1, <2>3
  <1>3. CASE Insert(t, k, v)
    <2>1. PICK i \in Holes(tabs[t]) : tabs' = [tabs EXCEPT ![t] = Put(@, i, k, v)]
      BY <1>3 DEF Insert
    <2>2. SlotOK(Put(tabs[t], i, k, v))
      BY <1>1, <1>3, PutOK DEF Insert
    <2> QED BY <2>1, <2>2
  <1>4. CASE Enlarge(t, k, v)
    <2> DEFINE g == grow_table(tabs[t])
    <2>1. tabs' = [tabs EXCEPT ![t] = Put(grow_table(@), @.len + 1, k, v)] /\ Match(tabs[t], k) = {}
      BY <1>4 DEF Enlarge
    <2>2. Match(g, k) = {}
      BY <1>1, <2>1, GrowMatch
    <2>3. SlotOK(g) /\ tabs[t].len + 1 \in Holes(g)
      BY <1>1, GrowOK
    <2>4. SlotOK(Put(g, tabs[t].len + 1, k, v))
      BY <2>2, <2>3, PutOK
    <2> QED BY <2>1, <2>4
  <1> QED BY <1>2, <1>3, <1>4 DEF set_tabvalue

LEMMA DelInv ==
  ASSUME StoreInv, NEW t \in Slots, NEW k \in Keys \cup {Null}, del_tabvalue(t, k)
  PROVE  StoreInv'
  <1>1. t \in Live /\ SlotOK(tabs[t]) /\ UNCHANGED <<len, used, free, status>>
    BY DEF StoreInv, del_tabvalue
  <1>2. CASE Missing(t, k) /\ result' = Null /\ UNCHANGED tabs
    <2>1. tabs' = [tabs EXCEPT ![t] = tabs[t]]
      BY <1>2 DEF StoreInv, StoreTypeOK
    <2> QED BY <1>1, <1>2, <2>1, OneSlotInv
  <1>3. CASE \E i \in Match(tabs[t], k) :
               /\ Found(t, k, i)
               /\ result' = tabs[t].kvs[i].val
               /\ tabs' = [tabs EXCEPT ![t] = Remove(@, i)]
    <2>1. PICK i \in Match(tabs[t], k) :
               /\ Found(t, k, i)
               /\ result' = tabs[t].kvs[i].val
               /\ tabs' = [tabs EXCEPT ![t] = Remove(@, i)]
      BY <1>3
    <2>2. k \in Keys
      BY <2>1 DEF Found
    <2>3. i \in 1 .. tabs[t].len /\ tabs[t].kvs[i].key # Null
      BY <2>2, MatchAt
    <2>4. SlotOK(Remove(tabs[t], i))
      BY <1>1, <2>3, RemoveOK
    <2>5. result' \in Values \cup {Null} \cup Nat
      BY <1>1, <2>1, <2>3, CellAt
    <2>6. tabs' = [tabs EXCEPT ![t] = Remove(tabs[t], i)]
      BY <2>1
    <2> QED BY <1>1, <2>4, <2>5, <2>6, OneSlotInv
  <1> QED BY <1>2, <1>3 DEF del_tabvalue

LEMMA GetInv ==
  ASSUME StoreInv, NEW t \in Slots, NEW k \in Keys \cup {Null}, get_tabvalue(t, k)
  PROVE  StoreInv'
  <1>1. /\ t \in Live /\ SlotOK(tabs[t]) /\ UNCHANGED <<len, used, free, tabs, status>>
        /\ tabs' = [tabs EXCEPT ![t] = tabs[t]]
    BY DEF StoreInv, StoreTypeOK, get_tabvalue
  <1>2. result' \in Values \cup {Null} \cup Nat
    <2>1. CASE result' = Null
      BY <2>1
    <2>2. CASE \E i \in Match(tabs[t], k) : Found(t, k, i) /\ result' = tabs[t].kvs[i].val
      BY <1>1, <2>2, CellAt DEF Match
    <2> QED BY <2>1, <2>2 DEF get_tabvalue
  <1> QED BY <1>1, <1>2, OneSlotInv

LEMMA ReleaseInv ==
  ASSUME StoreInv, NEW t \in Slots, release(t)
  PROVE  StoreInv'
  <1>1. /\ t \in Slots /\ t \notin free /\ SlotOK(tabs[t]) /\ len \in Nat /\ used \in Nat
        /\ tabs' = [tabs EXCEPT ![t] = Clear(tabs[t])] /\ free' = free \cup {t}
        /\ used' = used - 1 /\ UNCHANGED <<len, result, status>>
        /\ tabs \in [Slots -> SlotType] /\ free \subseteq Slots
        /\ used = len - Cardinality(free)
    BY StoreAssumption DEF StoreInv, StoreTypeOK, SlotIsFound, release, Live, StoreAssumption
  <1>2. SlotOK(Clear(tabs[t])) /\ SlotEmpty(Clear(tabs[t])) /\ Clear(tabs[t]) \in SlotType
    BY <1>1, ClearOK DEF SlotOK
  <1>3. IsFiniteSet(Slots) /\ Cardinality(Slots) = len
    <2>1. 0 \in Nat /\ len - 1 \in Int
      BY <1>1
    <2>2. len # 0
      BY <1>1 DEF Slots
    <2>3. len - 1 \in Nat /\ 0 <= (len - 1) + 1
      BY <1>1, <2>2
    <2>4. IsFiniteSet(0 .. len - 1) /\ Cardinality(0 .. len - 1) = (len - 1) + 1 - 0
      BY <2>3, IntervalCard
    <2>5. (len - 1) + 1 - 0 = len
      BY <1>1
    <2> QED BY <2>4, <2>5 DEF Slots
  <1>4. /\ IsFiniteSet(free) /\ IsFiniteSet(free') /\ Cardinality(free') = Cardinality(free) + 1
        /\ Cardinality(free) \in Nat /\ Cardinality(free') <= len
    <2>1. IsFiniteSet(free) /\ Cardinality(free) \in Nat
      BY <1>1, <1>3, FS_Subset, FS_CardinalityType
    <2>2. IsFiniteSet(free') /\ Cardinality(free') = Cardinality(free) + 1
      BY <1>1, <2>1, FS_AddElement
    <2>3. free' \in SUBSET Slots
      BY <1>1
    <2>4. Cardinality(free') <= len
      BY <1>3, <2>3, FS_Subset
    <2> QED BY <2>1, <2>2, <2>4
  <1>5. used - 1 = len - Cardinality(free') /\ used - 1 \in 0 .. len
    BY <1>1, <1>4
  <1>6. Slots' = Slots
    BY <1>1 DEF Slots
  <1>7. StoreTypeOK'
    <2>1. tabs' \in [Slots -> SlotType] /\ free' \subseteq Slots
      BY <1>1, <1>2
    <2> QED BY <1>1, <1>5, <1>6, <2>1 DEF StoreInv, StoreTypeOK
  <1>8. SlotIsFound'
    BY <1>1, <1>5 DEF StoreInv, SlotIsFound
  <1>9. \A u \in Slots : SlotOK(tabs'[u])
    BY <1>1, <1>2 DEF StoreInv
  <1>10. \A u \in free' : SlotEmpty(tabs'[u])
    BY <1>1, <1>2 DEF StoreInv
  <1> QED BY <1>6, <1>7, <1>8, <1>9, <1>10 DEF StoreInv

\* The invariant holds at the start, and every operation keeps it.
THEOREM StoreInvAlways == Spec => []StoreInv
  <1>1. Init => StoreInv
    <2> SUFFICES ASSUME Init PROVE StoreInv
      OBVIOUS
    <2>1. Slots = {} /\ Cardinality({}) = 0
      BY FS_EmptySet DEF Init, Slots
    <2>2. StoreTypeOK
      BY <2>1, StoreAssumption DEF Init, StoreTypeOK, StoreAssumption
    <2>3. SlotIsFound
      BY <2>1 DEF Init, SlotIsFound
    <2> QED BY <2>1, <2>2, <2>3 DEF Init, StoreInv
  <1>2. StoreInv /\ [Next]_vars => StoreInv'
    <2> SUFFICES ASSUME StoreInv, [Next]_vars PROVE StoreInv'
      OBVIOUS
    <2>1. CASE UNCHANGED vars
      BY <2>1 DEF vars, StoreInv, StoreTypeOK, Slots, SlotIsFound
    <2>2. CASE \E size \in Sizes : make_table(size)
      BY <2>2, MakeInv
    <2>3. CASE \E t \in Slots : release(t)
      BY <2>3, ReleaseInv
    <2>4. CASE \E t \in Slots : \E k \in Keys : \E v \in Values : set_tabvalue(t, k, v)
      <3>1. PICK t \in Slots, k \in Keys, v \in Values : set_tabvalue(t, k, v)
        BY <2>4
      <3>2. PICK r : SlotOK(r) /\ tabs' = [tabs EXCEPT ![t] = r]
        BY <3>1, SetSlot
      <3>3. t \in Live /\ UNCHANGED <<len, used, free, result, status>>
        BY <3>1 DEF set_tabvalue
      <3>4. result' \in Values \cup {Null} \cup Nat
        BY <3>3 DEF StoreInv, StoreTypeOK
      <3> QED BY <3>2, <3>3, <3>4, OneSlotInv
    <2>5. CASE \E t \in Slots : \E k \in Keys \cup {Null} : get_tabvalue(t, k)
      BY <2>5, GetInv
    <2>6. CASE \E t \in Slots : \E k \in Keys \cup {Null} : del_tabvalue(t, k)
      BY <2>6, DelInv
    <2>7. CASE Stopped
      BY <2>1, <2>7 DEF Stopped
    <2> QED BY <2>1, <2>2, <2>3, <2>4, <2>5, <2>6, <2>7 DEF Next
  <1> QED BY <1>1, <1>2, PTL DEF Spec

(***************************************************************************)
(* The properties that the runs check on a small instance                  *)
(***************************************************************************)

\* Lengths and counts stay in their ranges, whatever the width of a length.
THEOREM StoreTypeCorrect == Spec => []StoreTypeOK
  BY StoreInvAlways, PTL DEF StoreInv

\* No search, insertion or removal leaves the array of a slot.
THEOREM InBoundsAlways == Spec => []InBounds
  <1>1. StoreInv => InBounds
    BY DEF StoreInv, InBounds, SlotOK
  <1> QED BY <1>1, StoreInvAlways, PTL

\* A free slot is blank over its whole array, so that make_table may reuse it.
THEOREM FreeIsEmptyAlways == Spec => []FreeIsEmpty
  <1>1. StoreInv => FreeIsEmpty
    BY DEF StoreInv, FreeIsEmpty, SlotEmpty
  <1> QED BY <1>1, StoreInvAlways, PTL

\* A key that equal() compares occurs once in a table.
THEOREM KeysUniqueAlways == Spec => []KeysUnique
  <1>1. StoreInv => KeysUnique
    <2> SUFFICES ASSUME StoreInv, NEW t \in Live, NEW k \in MapKeys,
                        NEW i \in Match(tabs[t], k), NEW j \in Match(tabs[t], k)
                 PROVE  i = j
      BY DEF KeysUnique
    <2>1. SlotOK(tabs[t]) /\ k \in Keys
      BY DEF StoreInv, Live, MapKeys
    <2>2. i \in 1 .. tabs[t].len /\ j \in 1 .. tabs[t].len
          /\ tabs[t].kvs[i].key = k /\ tabs[t].kvs[j].key = k
      BY <2>1, MatchAt
    <2> QED BY <2>1, <2>2 DEF SlotOK
  <1> QED BY <1>1, StoreInvAlways, PTL

\* count is the number of pairs: the arrays that pairs() and all() allocate from
\* it are filled exactly.
THEOREM CountExactAlways == Spec => []CountExact
  <1>1. StoreInv => CountExact
    BY DEF StoreInv, CountExact, SlotOK
  <1> QED BY <1>1, StoreInvAlways, PTL

\* make_table never fails to find a slot; it can only overflow.
THEOREM SlotIsFoundAlways == Spec => []SlotIsFound
  BY StoreInvAlways, PTL DEF StoreInv

\* If the keys 1 .. n are all in a slot, they are in n different pairs.
LEMMA KeysNeedPairs ==
  ASSUME NEW s, SlotOK(s), NEW n \in Nat, \A j \in 1 .. n : j \in Present(s) \ Odd
  PROVE  n <= s.count
  <1> DEFINE Pairs == (1 .. s.len) \ Holes(s)
  <1> DEFINE f == [j \in 1 .. n |-> CHOOSE i \in 1 .. s.len : s.kvs[i].key = j]
  <1>1. s.len \in Nat /\ s.count \in Nat /\ s.count = s.len - Cardinality(Holes(s))
    BY DEF SlotOK, SlotType
  <1>2. IsFiniteSet(Pairs) /\ Cardinality(Pairs) = s.count
    <2>1. IsFiniteSet(1 .. s.len) /\ Cardinality(1 .. s.len) = s.len
      BY <1>1, PrefixCard
    <2>2. (1 .. s.len) \cap Holes(s) = Holes(s)
      BY DEF Holes
    <2>3. /\ IsFiniteSet(Pairs)
          /\ Cardinality(Pairs) = Cardinality(1 .. s.len) - Cardinality((1 .. s.len) \cap Holes(s))
      BY <2>1, FS_Difference
    <2> QED BY <1>1, <2>1, <2>2, <2>3
  <1>3. \A j \in 1 .. n : /\ f[j] \in 1 .. s.len /\ s.kvs[f[j]].key = j
                          /\ j # Null
    <2> SUFFICES ASSUME NEW j \in 1 .. n
                 PROVE  f[j] \in 1 .. s.len /\ s.kvs[f[j]].key = j /\ j # Null
      OBVIOUS
    <2>1. j # Null /\ \E i \in 1 .. s.len : s.kvs[i].key = j
      BY DEF Present
    <2> QED BY <2>1
  <1>4. \A j \in 1 .. n : f[j] \in Pairs
    BY <1>3 DEF Holes
  <1>5. f \in Injection(1 .. n, Pairs)
    <2>1. f \in [1 .. n -> Pairs]
      BY <1>4
    <2>2. \A a, b \in 1 .. n : f[a] = f[b] => a = b
      BY <1>3
    <2> HIDE DEF f, Pairs
    <2> QED BY <2>1, <2>2 DEF Injection, IsInjective
  <1>6. IsFiniteSet(1 .. n) /\ Cardinality(1 .. n) = n
    BY PrefixCard
  <1> HIDE DEF f, Pairs
  <1>7. Cardinality(1 .. n) <= Cardinality(Pairs)
    BY <1>2, <1>5, FS_Injection
  <1> QED BY <1>2, <1>6, <1>7

\* ipairs() never writes behind the entries it allocated.
THEOREM IpairsFitsAlways == Spec => []IpairsFits
  <1>1. StoreInv => IpairsFits
    <2> SUFFICES ASSUME StoreInv, NEW t \in Live, NEW n \in 1 .. MaxCells + 1,
                        \A j \in 1 .. n : j \in Present(tabs[t]) \ Odd
                 PROVE  n <= tabs[t].count
      BY DEF IpairsFits
    <2>1. SlotOK(tabs[t]) /\ n \in Nat
      BY StoreAssumption DEF StoreInv, Live, StoreAssumption
    <2> QED BY <2>1, KeysNeedPairs
  <1> QED BY <1>1, StoreInvAlways, PTL

(***************************************************************************)
(* Refinement: each step of the store is a step of TableMap                *)
(***************************************************************************)

\* The value of key k of table t
ValueOf(t, k) == IF t \in Live THEN Lookup(tabs[t], k) ELSE Null

LEMMA LiveTables == StoreInv => Live \subseteq 0 .. LenMod - 1
  BY StoreAssumption DEF StoreInv, StoreTypeOK, Live, Slots, StoreAssumption

\* Tables with the same values are the same map.
LEMMA SameMap ==
  ASSUME \A t \in 0 .. LenMod - 1 : \A k \in MapKeys : ValueOf(t, k)' = ValueOf(t, k)
  PROVE  StoredMap' = StoredMap
  BY DEF StoredMap, ValueOf, MapKeys

\* The map of table t
MapOf(t) == [k \in MapKeys |-> ValueOf(t, k)]

\* A step that changes the values of one table
LEMMA OneMap ==
  ASSUME NEW t \in 0 .. LenMod - 1, NEW m, MapOf(t)' = m,
         \A u \in (0 .. LenMod - 1) \ {t} : MapOf(u)' = MapOf(u)
  PROVE  StoredMap' = [StoredMap EXCEPT ![t] = m]
  <1>1. StoredMap = [u \in 0 .. LenMod - 1 |-> MapOf(u)]
    BY DEF StoredMap, MapOf, ValueOf
  <1>2. StoredMap' = [u \in 0 .. LenMod - 1 |-> MapOf(u)']
    BY DEF StoredMap, MapOf, ValueOf, MapKeys
  <1> QED BY <1>1, <1>2

\* A step that changes the slot of one live table changes the map of that table only.
LEMMA OneSlotMap ==
  ASSUME StoreInv, NEW t \in Live, NEW r,
         tabs' = [tabs EXCEPT ![t] = r], UNCHANGED <<len, free>>
  PROVE  /\ Live' = Live
         /\ t \in 0 .. LenMod - 1
         /\ StoredMap' = [StoredMap EXCEPT ![t] = [k \in MapKeys |-> Lookup(r, k)]]
  <1>1. Live' = Live
    BY DEF Live, Slots
  <1>2. t \in 0 .. LenMod - 1 /\ Live \subseteq Slots /\ tabs \in [Slots -> SlotType]
    BY LiveTables DEF StoreInv, StoreTypeOK, Live
  <1>3. tabs'[t] = r /\ \A u \in Live : u # t => tabs'[u] = tabs[u]
    BY <1>2
  <1>4. MapOf(t)' = [k \in MapKeys |-> Lookup(r, k)]
    BY <1>1, <1>3 DEF MapOf, ValueOf, MapKeys
  <1>5. \A u \in (0 .. LenMod - 1) \ {t} : MapOf(u)' = MapOf(u)
    BY <1>1, <1>3 DEF MapOf, ValueOf, MapKeys
  <1>6. StoredMap' = [StoredMap EXCEPT ![t] = [k \in MapKeys |-> Lookup(r, k)]]
    BY <1>2, <1>4, <1>5, OneMap
  <1> QED BY <1>1, <1>2, <1>6

\* The map of a live table
LEMMA LiveMap ==
  ASSUME StoreInv, NEW t \in Live
  PROVE  StoredMap[t] = [k \in MapKeys |-> Lookup(tabs[t], k)]
  BY LiveTables DEF StoredMap

LEMMA MakeMap ==
  ASSUME StoreInv, NEW size \in Sizes, make_table(size)
  PROVE  (\E t \in 0 .. LenMod - 1 : Map!New(t)) \/ UNCHANGED Map!vars
  <1>1. CASE len = used /\ len # 0 /\ ~(NewLen > len)
    <2>1. UNCHANGED <<len, used, free, tabs, result>>
      BY <1>1 DEF make_table, Abort
    <2>2. Live' = Live
      BY <2>1 DEF Live, Slots
    <2>3. StoredMap' = StoredMap
      BY <2>1, <2>2, SameMap DEF ValueOf
    <2> QED BY <2>1, <2>2, <2>3 DEF Map!vars
  <1>2. CASE ~(len = used /\ len # 0 /\ ~(NewLen > len))
    <2> DEFINE A == Arena
    <2>1. /\ A.len \in 0 .. LenMod - 1 /\ len <= A.len
          /\ A.free \subseteq 0 .. A.len - 1 /\ A.free # {}
          /\ DOMAIN A.tabs = 0 .. A.len - 1
          /\ \A t \in 0 .. A.len - 1 : SlotOK(A.tabs[t])
          /\ \A t \in A.free : SlotEmpty(A.tabs[t])
          /\ (0 .. A.len - 1) \ A.free = Live
          /\ \A t \in Live : A.tabs[t] = tabs[t]
      BY <1>2, ArenaOK
    <2>2. PICK t \in A.free :
            /\ len' = A.len /\ free' = A.free \ {t}
            /\ tabs' = [A.tabs EXCEPT ![t] = Recycle(@, size)]
            /\ result' = t
      BY <1>2, <2>1 DEF make_table
    <2> HIDE DEF A
    <2>3. /\ t \in 0 .. A.len - 1 /\ t \in 0 .. LenMod - 1 /\ t \notin Live
          /\ Live \subseteq 0 .. A.len - 1 /\ size \in Nat
      BY <2>1, StoreAssumption DEF StoreAssumption
    <2>4. Live' = Live \cup {t}
      BY <2>1, <2>2, <2>3 DEF Live, Slots
    <2>5. tabs'[t] = Recycle(A.tabs[t], size) /\ \A u \in Live : tabs'[u] = tabs[u]
      BY <2>1, <2>2, <2>3
    <2>6. SlotOK(tabs'[t]) /\ SlotEmpty(tabs'[t])
      BY <2>1, <2>3, <2>5, RecycleOK
    <2>7. \A k \in MapKeys : Lookup(tabs'[t], k) = Null
      BY <2>6, EmptyMapOfSlot
    <2>8. \A u \in 0 .. LenMod - 1 : \A k \in MapKeys : ValueOf(u, k)' = ValueOf(u, k)
      BY <2>3, <2>4, <2>5, <2>7 DEF ValueOf
    <2>9. StoredMap' = StoredMap
      BY <2>8, SameMap
    <2> QED BY <2>2, <2>3, <2>4, <2>9 DEF Map!New
  <1> QED BY <1>1, <1>2

\* What the slot of t stands for after set_tabvalue
LEMMA SetLookup ==
  ASSUME StoreInv, NEW t \in Slots, NEW k \in Keys, NEW v \in Values, set_tabvalue(t, k, v)
  PROVE  \E r : /\ tabs' = [tabs EXCEPT ![t] = r]
                /\ \A q \in MapKeys : Lookup(r, q) = IF q = k THEN v ELSE Lookup(tabs[t], q)
  <1> DEFINE s == tabs[t]
  <1> DEFINE c == [key |-> k, val |-> v]
  <1>1. /\ t \in Live /\ SlotOK(s) /\ s.count \in Nat /\ s.len \in Nat
        /\ c \in CellType /\ c.key = k /\ c.val = v /\ Null \notin MapKeys
    BY StoreAssumption
    DEF StoreInv, set_tabvalue, CellType, SlotOK, SlotType, MapKeys, StoreAssumption
  <1>2. CASE Replace(t, k, v)
    <2>1. PICK i \in Match(s, k) :
            tabs' = [tabs EXCEPT ![t] = SetPair(@, i, [key |-> @.kvs[i].key, val |-> v], @.count)]
      BY <1>2 DEF Replace
    <2>2. i \in 1 .. s.len /\ s.kvs[i].key = k /\ s.kvs[i].key # Null
      BY MatchAt
    <2>3. SlotOK(SetPair(s, i, c, s.count))
      BY <1>1, <2>2, ReplaceOK
    <2>4. \A q \in MapKeys : Lookup(SetPair(s, i, c, s.count), q) =
                               IF q = k THEN v ELSE Lookup(s, q)
      BY <1>1, <2>2, <2>3, SetPairMap
    <2> QED BY <2>1, <2>2, <2>4
  <1>3. CASE Insert(t, k, v)
    <2>1. PICK i \in Holes(s) : tabs' = [tabs EXCEPT ![t] = Put(@, i, k, v)]
      BY <1>3 DEF Insert
    <2>2. SlotOK(Put(s, i, k, v))
      BY <1>1, <1>3, PutOK DEF Insert
    <2>3. \A q \in MapKeys : Lookup(Put(s, i, k, v), q) = IF q = k THEN v ELSE Lookup(s, q)
      BY <1>1, <2>2, PutMap
    <2> QED BY <2>1, <2>3
  <1>4. CASE Enlarge(t, k, v)
    <2> DEFINE g == grow_table(s)
    <2> DEFINE n == s.len + 1
    <2>1. tabs' = [tabs EXCEPT ![t] = Put(grow_table(@), @.len + 1, k, v)] /\ Match(s, k) = {}
      BY <1>4 DEF Enlarge
    <2>2. Match(g, k) = {} /\ SlotOK(g) /\ n \in Holes(g)
      BY <1>1, <2>1, GrowMatch, GrowOK
    <2>3. SlotOK(Put(g, n, k, v))
      BY <2>2, PutOK
    <2>4. \A q \in MapKeys : Lookup(Put(g, n, k, v), q) = IF q = k THEN v ELSE Lookup(g, q)
      BY <2>2, <2>3, PutMap
    <2>5. \A q \in MapKeys : Lookup(g, q) = Lookup(s, q)
      BY <1>1, GrowMap
    <2> QED BY <2>1, <2>4, <2>5
  <1> QED BY <1>2, <1>3, <1>4 DEF set_tabvalue

\* Setting a key that equal() cannot compare leaves every map as it is.
LEMMA SetMap ==
  ASSUME StoreInv, NEW t \in Slots, NEW k \in Keys, NEW v \in Values, set_tabvalue(t, k, v)
  PROVE  \/ t \in 0 .. LenMod - 1 /\ k \in MapKeys /\ Map!Set(t, k, v)
         \/ UNCHANGED Map!vars
  <1>1. t \in Live /\ UNCHANGED <<len, used, free, result, status>>
    BY DEF set_tabvalue
  <1>2. PICK r : /\ tabs' = [tabs EXCEPT ![t] = r]
                 /\ \A q \in MapKeys : Lookup(r, q) = IF q = k THEN v ELSE Lookup(tabs[t], q)
    BY SetLookup
  <1>3. /\ Live' = Live /\ t \in 0 .. LenMod - 1
        /\ StoredMap' = [StoredMap EXCEPT ![t] = [q \in MapKeys |-> Lookup(r, q)]]
    BY <1>1, <1>2, OneSlotMap
  <1>4. StoredMap[t] = [q \in MapKeys |-> Lookup(tabs[t], q)]
    BY <1>1, LiveMap
  <1>5. CASE k \in MapKeys
    <2>1. [q \in MapKeys |-> Lookup(r, q)] = [StoredMap[t] EXCEPT ![k] = v]
      BY <1>2, <1>4, <1>5
    <2>2. StoredMap' = [StoredMap EXCEPT ![t] = [@ EXCEPT ![k] = v]]
      BY <1>3, <2>1
    <2> QED BY <1>1, <1>3, <1>5, <2>2 DEF Map!Set
  <1>6. CASE k \notin MapKeys
    <2>1. [q \in MapKeys |-> Lookup(r, q)] = StoredMap[t]
      BY <1>2, <1>4, <1>6
    <2>2. StoredMap' = StoredMap
      BY <1>3, <2>1 DEF StoredMap
    <2> QED BY <1>1, <1>3, <2>2 DEF Map!vars
  <1> QED BY <1>5, <1>6

\* What a search returns: the value of the key, or nil for one that is not found.
LEMMA SearchMap ==
  ASSUME StoreInv, NEW t \in Live, NEW k \in Keys \cup {Null}
  PROVE  /\ Missing(t, k) => k \notin MapKeys \/ StoredMap[t][k] = Null
         /\ \A i \in Match(tabs[t], k) : Found(t, k, i) =>
              /\ k \in MapKeys /\ i \in 1 .. tabs[t].len /\ tabs[t].kvs[i].key = k
              /\ StoredMap[t][k] = tabs[t].kvs[i].val
  <1>1. SlotOK(tabs[t]) /\ StoredMap[t] = [q \in MapKeys |-> Lookup(tabs[t], q)]
    BY LiveMap DEF StoreInv, Live
  <1>2. ASSUME Missing(t, k), k \in MapKeys
        PROVE  StoredMap[t][k] = Null
    <2>1. Match(tabs[t], k) = {}
      BY <1>2, StoreAssumption DEF Missing, MapKeys, StoreAssumption
    <2> QED BY <1>1, <1>2, <2>1 DEF Lookup
  <1>3. ASSUME NEW i \in Match(tabs[t], k), Found(t, k, i)
        PROVE  /\ k \in MapKeys /\ i \in 1 .. tabs[t].len /\ tabs[t].kvs[i].key = k
               /\ StoredMap[t][k] = tabs[t].kvs[i].val
    <2>1. k \in Keys
      BY <1>3 DEF Found
    <2>2. k \in MapKeys /\ i \in 1 .. tabs[t].len /\ tabs[t].kvs[i].key = k
      BY <2>1, MatchAt
    <2>3. Lookup(tabs[t], k) = tabs[t].kvs[i].val
      BY <1>1, <2>2, LookupFound
    <2> QED BY <1>1, <2>2, <2>3
  <1> QED BY <1>2, <1>3

LEMMA GetMap ==
  ASSUME StoreInv, NEW t \in Slots, NEW k \in Keys \cup {Null}, get_tabvalue(t, k)
  PROVE  \/ t \in 0 .. LenMod - 1 /\ k \in MapKeys /\ Map!Get(t, k)
         \/ Map!Miss
  <1>1. t \in Live /\ UNCHANGED <<len, used, free, tabs, status>> /\ t \in 0 .. LenMod - 1
    BY LiveTables DEF get_tabvalue
  <1>2. Live' = Live /\ StoredMap' = StoredMap
    <2>1. Live' = Live
      BY <1>1 DEF Live, Slots
    <2> QED BY <1>1, <2>1, SameMap DEF ValueOf
  <1>3. CASE Missing(t, k) /\ result' = Null
    BY <1>2, <1>3 DEF Map!Miss
  <1>4. CASE \E i \in Match(tabs[t], k) : Found(t, k, i) /\ result' = tabs[t].kvs[i].val
    <2>1. k \in MapKeys /\ result' = StoredMap[t][k]
      BY <1>1, <1>4, SearchMap
    <2> QED BY <1>1, <1>2, <2>1 DEF Map!Get
  <1> QED BY <1>3, <1>4 DEF get_tabvalue

LEMMA DelMap ==
  ASSUME StoreInv, NEW t \in Slots, NEW k \in Keys \cup {Null}, del_tabvalue(t, k)
  PROVE  \/ t \in 0 .. LenMod - 1 /\ k \in MapKeys /\ Map!Delete(t, k)
         \/ Map!Miss
  <1>1. /\ t \in Live /\ UNCHANGED <<len, used, free, status>> /\ t \in 0 .. LenMod - 1
        /\ SlotOK(tabs[t])
    BY LiveTables DEF StoreInv, del_tabvalue
  <1>2. CASE Missing(t, k) /\ result' = Null /\ UNCHANGED tabs
    <2>1. Live' = Live
      BY <1>1 DEF Live, Slots
    <2>2. StoredMap' = StoredMap
      BY <1>2, <2>1, SameMap DEF ValueOf
    <2> QED BY <1>2, <2>1, <2>2 DEF Map!Miss
  <1>3. CASE \E i \in Match(tabs[t], k) :
               /\ Found(t, k, i)
               /\ result' = tabs[t].kvs[i].val
               /\ tabs' = [tabs EXCEPT ![t] = Remove(@, i)]
    <2>1. PICK i \in Match(tabs[t], k) :
               /\ Found(t, k, i)
               /\ result' = tabs[t].kvs[i].val
               /\ tabs' = [tabs EXCEPT ![t] = Remove(@, i)]
      BY <1>3
    <2> DEFINE r == Remove(tabs[t], i)
    <2>2. /\ k \in MapKeys /\ i \in 1 .. tabs[t].len /\ tabs[t].kvs[i].key = k
          /\ StoredMap[t][k] = tabs[t].kvs[i].val
      BY <1>1, <2>1, SearchMap
    <2>3. \A q \in MapKeys : Lookup(r, q) = IF q = k THEN Null ELSE Lookup(tabs[t], q)
      BY <1>1, <2>2, RemoveMap
    <2>4. tabs' = [tabs EXCEPT ![t] = r]
      BY <2>1
    <2> HIDE DEF r
    <2>5. /\ Live' = Live
          /\ StoredMap' = [StoredMap EXCEPT ![t] = [q \in MapKeys |-> Lookup(r, q)]]
      BY <1>1, <2>4, OneSlotMap
    <2>6. StoredMap[t] = [q \in MapKeys |-> Lookup(tabs[t], q)]
      BY <1>1, LiveMap
    <2>7. [q \in MapKeys |-> Lookup(r, q)] = [StoredMap[t] EXCEPT ![k] = Null]
      BY <2>2, <2>3, <2>6
    <2>8. StoredMap' = [StoredMap EXCEPT ![t] = [@ EXCEPT ![k] = Null]]
      BY <2>5, <2>7
    <2> QED BY <1>1, <2>1, <2>2, <2>5, <2>8 DEF Map!Delete
  <1> QED BY <1>2, <1>3 DEF del_tabvalue

LEMMA ReleaseMap ==
  ASSUME StoreInv, NEW t \in Slots, release(t)
  PROVE  t \in 0 .. LenMod - 1 /\ Map!Drop(t)
  <1>1. /\ t \in Live /\ t \in Slots /\ t \in 0 .. LenMod - 1 /\ tabs \in [Slots -> SlotType]
        /\ tabs' = [tabs EXCEPT ![t] = Clear(tabs[t])] /\ free' = free \cup {t}
        /\ UNCHANGED <<len, result>>
    BY LiveTables DEF StoreInv, StoreTypeOK, release
  <1>2. Live' = Live \ {t}
    BY <1>1 DEF Live, Slots
  <1>3. \A u \in Live' : u # t /\ tabs'[u] = tabs[u]
    BY <1>1, <1>2 DEF Live
  <1>4. MapOf(t)' = [k \in MapKeys |-> Null]
    BY <1>2 DEF MapOf, ValueOf, MapKeys
  <1>5. \A u \in (0 .. LenMod - 1) \ {t} : MapOf(u)' = MapOf(u)
    BY <1>2, <1>3 DEF MapOf, ValueOf, MapKeys
  <1>6. StoredMap' = [StoredMap EXCEPT ![t] = [k \in MapKeys |-> Null]]
    BY <1>1, <1>4, <1>5, OneMap
  <1> QED BY <1>1, <1>2, <1>6 DEF Map!Drop, Map!EmptyMap

\* However pairs are laid out, moved and recycled, a program sees maps: new tables
\* are empty, a key has the value last set, and no table shows in another.
THEOREM StoreImplementsMap == Spec => ImplementsMap
  <1>1. Init => Map!Init
    <2> SUFFICES ASSUME Init PROVE Map!Init
      OBVIOUS
    <2>1. Live = {} /\ result = Null
      BY DEF Init, Live, Slots
    <2>2. StoredMap = [t \in 0 .. LenMod - 1 |-> [k \in MapKeys |-> Null]]
      BY <2>1 DEF StoredMap
    <2> QED BY <2>1, <2>2 DEF Map!Init, Map!EmptyMap
  <1>2. StoreInv /\ [Next]_vars => [Map!Next]_(Map!vars)
    <2> SUFFICES ASSUME StoreInv, [Next]_vars PROVE Map!Next \/ UNCHANGED Map!vars
      OBVIOUS
    <2>1. CASE UNCHANGED vars
      <3>1. UNCHANGED <<len, used, free, tabs, result>>
        BY <2>1 DEF vars
      <3>2. Live' = Live
        BY <3>1 DEF Live, Slots
      <3>3. StoredMap' = StoredMap
        BY <3>1, <3>2, SameMap DEF ValueOf
      <3> QED BY <3>1, <3>2, <3>3 DEF Map!vars
    <2>2. CASE \E size \in Sizes : make_table(size)
      BY <2>2, MakeMap DEF Map!Next
    <2>3. CASE \E t \in Slots : release(t)
      BY <2>3, ReleaseMap DEF Map!Next
    <2>4. CASE \E t \in Slots : \E k \in Keys : \E v \in Values : set_tabvalue(t, k, v)
      BY <2>4, SetMap DEF Map!Next
    <2>5. CASE \E t \in Slots : \E k \in Keys \cup {Null} : get_tabvalue(t, k)
      BY <2>5, GetMap DEF Map!Next
    <2>6. CASE \E t \in Slots : \E k \in Keys \cup {Null} : del_tabvalue(t, k)
      BY <2>6, DelMap DEF Map!Next
    <2>7. CASE Stopped
      BY <2>1, <2>7 DEF Stopped
    <2> QED BY <2>1, <2>2, <2>3, <2>4, <2>5, <2>6, <2>7 DEF Next
  <1> QED BY <1>1, <1>2, StoreInvAlways, PTL DEF Spec, ImplementsMap, Map!Spec

=============================================================================
