--------------------------- MODULE TableLibProofs ---------------------------
(***************************************************************************)
(* Theorems about lookups, arrays and loops, for any number of tables,     *)
(* keys, values and pairs.                                                 *)
(***************************************************************************)
EXTENDS TableLib, InductionLemmas, FiniteSetTheorems, SequenceTheorems

(***************************************************************************)
(* Types                                                                   *)
(***************************************************************************)
KV_t == {Blank} \cup [key : Keys, val : Values]

Loops ==
  [on : {TRUE}, body : BOOLEAN, kind : {"foreach", "copy"}, tab : Objects,
   at : Nat \ {0}, rest : Seq(Keys), due : SUBSET Keys, done : SUBSET Keys,
   twice : BOOLEAN]

LibTypeOK ==
  /\ kvs \in [Tables -> Seq(KV_t)]
  /\ meta \in [Tables -> Classes \cup {Null}]
  /\ index \in [Classes -> Classes \cup {Null}]
  /\ loop = NoLoop \/ loop \in Loops

LEMMA NullIsNone ==
  /\ Keys \subseteq Nat /\ Values \subseteq Nat
  /\ Null \notin Keys /\ Null \notin Values /\ Null \notin Tables
  /\ ClassKeys \subseteq Keys
<1>1. MaxIndex \in Nat /\ NumVals \in Nat
  BY LibAssumption
<1> QED
  BY <1>1, LibAssumption DEF Keys, Values, Tables

LEMMA CellTypes ==
  ASSUME NEW s \in Seq(KV_t)
  PROVE  /\ DOMAIN s = 1 .. Len(s) /\ Len(s) \in Nat
         /\ \A i \in DOMAIN s : s[i] \in KV_t
         /\ \A k \in Keys : \A i \in Cells(s, k) :
              i \in DOMAIN s /\ s[i].key = k /\ s[i].val \in Values
         /\ \A k : Cells(s, k) \subseteq DOMAIN s /\ Cells(s, k) \subseteq Nat
<1>1. DOMAIN s = 1 .. Len(s) /\ Len(s) \in Nat /\ \A i \in DOMAIN s : s[i] \in KV_t
  OBVIOUS
<1>2. ASSUME NEW k \in Keys, NEW i \in Cells(s, k)
      PROVE  i \in DOMAIN s /\ s[i].key = k /\ s[i].val \in Values
  <2>1. i \in DOMAIN s /\ s[i].key = k
    BY DEF Cells
  <2>2. s[i] \in KV_t /\ s[i].key # Null
    BY <2>1, <1>1, NullIsNone
  <2>3. s[i] # Blank
    BY <2>2 DEF Blank
  <2> QED
    BY <2>1, <2>2, <2>3 DEF KV_t
<1> QED
  BY <1>1, <1>2 DEF Cells

LEMMA MinIs ==
  ASSUME NEW T \in SUBSET Nat, T # {}
  PROVE  Min(T) \in T /\ \A n \in T : Min(T) <= n
BY LeastElement DEF Min

(***************************************************************************)
(* The pairs of one table                                                  *)
(***************************************************************************)

\* The value that a lookup finds for k in the pairs s
Found(s, k) == s[Min(Cells(s, k))].val

\* r has the same pairs as s for the key k.
SameAt(s, r, k) == Cells(r, k) = Cells(s, k) /\ \A i \in Cells(s, k) : r[i] = s[i]

UniqueIn(s) == \A k \in Keys : \A i, j \in Cells(s, k) : i = j

LEMMA FoundStays ==
  ASSUME NEW s \in Seq(KV_t), NEW r, NEW k \in Keys, SameAt(s, r, k), Cells(s, k) # {}
  PROVE  Found(r, k) = Found(s, k)
<1>1. Min(Cells(s, k)) \in Cells(s, k)
  BY CellTypes, MinIs
<1> QED
  BY <1>1 DEF Found, SameAt

LEMMA FreshIs ==
  ASSUME NEW s \in Seq(KV_t)
  PROVE  /\ Fresh(s) \in Seq(KV_t) /\ Len(Fresh(s)) \in Nat \ {0}
         /\ DOMAIN Fresh(s) = 1 .. Len(Fresh(s))
         /\ \A i \in DOMAIN Fresh(s) : Fresh(s)[i] = Blank
<1> DEFINE n == IF s = <<>> THEN 2 ELSE Len(s)
<1>1. n \in Nat \ {0}
  OBVIOUS
<1> HIDE DEF n
<1>2. Fresh(s) = [i \in 1 .. n |-> Blank]
  BY DEF Fresh, n
<1>3. Blank \in KV_t
  BY DEF KV_t
<1> QED
  BY <1>1, <1>2, <1>3

LEMMA StoredIs ==
  ASSUME NEW s \in Seq(KV_t), NEW k \in Keys, NEW v \in Values
  PROVE  /\ Stored(s, k, v) \in Seq(KV_t)
         /\ Cells(Stored(s, k, v), k) # {} /\ Found(Stored(s, k, v), k) = v
         /\ \A j \in Keys \ {k} : SameAt(s, Stored(s, k, v), j)
         /\ Cells(s, k) # {} => Cells(Stored(s, k, v), k) = Cells(s, k)
         /\ Cells(s, k) = {} => \E i : Cells(Stored(s, k, v), k) = {i}
<1> DEFINE r == Stored(s, k, v)
<1>k. k # Null /\ Pair(k, v) \in KV_t /\ Pair(k, v).key = k /\ Pair(k, v).val = v /\ Blank.key = Null
  BY NullIsNone DEF Pair, KV_t, Blank
<1>1. CASE Cells(s, k) # {}
  <2> DEFINE c == Min(Cells(s, k))
  <2>1. c \in DOMAIN s /\ s[c].key = k /\ c \in Cells(s, k)
    BY <1>1, CellTypes, MinIs
  <2>2. s[c] \in [key : Keys, val : Values]
    BY <2>1, <1>k, CellTypes DEF KV_t
  <2> HIDE DEF c
  <2>3. r = [s EXCEPT ![c].val = v]
    BY <1>1 DEF Stored, c
  <2>4. DOMAIN r = DOMAIN s /\ r[c].key = k /\ r[c].val = v /\ r[c] \in KV_t
        /\ \A i \in DOMAIN s \ {c} : r[i] = s[i]
    BY <2>1, <2>2, <2>3 DEF KV_t
  <2>5. r \in Seq(KV_t)
    BY <2>1, <2>2, <2>3 DEF KV_t
  <2>6. Cells(r, k) = Cells(s, k)
    BY <2>1, <2>4 DEF Cells
  <2>7. Found(r, k) = v
    BY <2>6, <2>4 DEF Found, c
  <2>8. \A j \in Keys \ {k} : SameAt(s, r, j)
    BY <2>1, <2>4 DEF SameAt, Cells
  <2> QED
    BY <1>1, <2>5, <2>6, <2>7, <2>8
<1>2. CASE Cells(s, k) = {} /\ Cells(s, Null) # {}
  <2> DEFINE c == Min(Cells(s, Null))
  <2>1. c \in DOMAIN s /\ s[c].key = Null
    <3>1. c \in Cells(s, Null)
      BY <1>2, CellTypes, MinIs
    <3> QED
      BY <3>1 DEF Cells
  <2> HIDE DEF c
  <2>3. r = [s EXCEPT ![c] = Pair(k, v)]
    BY <1>2 DEF Stored, c
  <2>4. DOMAIN r = DOMAIN s /\ r[c] = Pair(k, v) /\ \A i \in DOMAIN s \ {c} : r[i] = s[i]
    BY <2>1, <2>3
  <2>5. r \in Seq(KV_t)
    BY <2>1, <2>3, <1>k
  <2>6. Cells(r, k) = {c}
    BY <2>1, <2>4, <1>k, <1>2 DEF Cells
  <2>7. Found(r, k) = v
    <3>1. c \in Nat
      BY <2>1, CellTypes
    <3>2. Min({c}) \in {c}
      BY <3>1, MinIs
    <3> QED
      BY <2>6, <2>4, <1>k, <3>2 DEF Found
  <2>8. ASSUME NEW j \in Keys \ {k} PROVE SameAt(s, r, j)
    <3>1. j # Null /\ j # k
      BY NullIsNone
    <3> QED
      BY <3>1, <2>1, <2>4, <1>k DEF SameAt, Cells
  <2> QED
    BY <1>2, <2>5, <2>6, <2>7, <2>8
<1>3. CASE Cells(s, k) = {} /\ Cells(s, Null) = {}
  <2> DEFINE f == [Fresh(s) EXCEPT ![1] = Pair(k, v)]
             c == Len(s) + 1
  <2>1. f \in Seq(KV_t) /\ Len(f) \in Nat \ {0} /\ f[1] = Pair(k, v)
        /\ \A i \in 2 .. Len(f) : f[i] = Blank
    BY FreshIs, <1>k
  <2> HIDE DEF f
  <2>2. r = s \o f
    BY <1>3 DEF Stored, f
  <2>3. r \in Seq(KV_t) /\ Len(s) \in Nat /\ DOMAIN s = 1 .. Len(s)
        /\ DOMAIN r = 1 .. Len(s) + Len(f)
        /\ (\A i \in 1 .. Len(s) : r[i] = s[i])
        /\ \A i \in Len(s) + 1 .. Len(s) + Len(f) : r[i] = f[i - Len(s)]
    BY <2>1, <2>2
  <2>4. c \in DOMAIN r /\ r[c] = Pair(k, v)
    <3>1. c \in Len(s) + 1 .. Len(s) + Len(f) /\ c - Len(s) = 1 /\ c \in DOMAIN r
      BY <2>1, <2>3
    <3> QED
      BY <3>1, <2>1, <2>3
  <2>5. ASSUME NEW i \in DOMAIN r, i \notin DOMAIN s, i # c PROVE r[i] = Blank
    <3>1. i - Len(s) \in 2 .. Len(f) /\ i \in Len(s) + 1 .. Len(s) + Len(f)
      BY <2>5, <2>3, <2>1
    <3> QED
      BY <3>1, <2>1, <2>3
  <2>d. DOMAIN s \subseteq DOMAIN r /\ c \notin DOMAIN s /\ c \in Nat
        /\ \A i \in DOMAIN s : r[i] = s[i]
    BY <2>1, <2>3
  <2> HIDE DEF c
  <2>6. Cells(r, k) = {c}
    BY <2>d, <2>4, <2>5, <1>k, <1>3 DEF Cells
  <2>7. Found(r, k) = v
    <3>2. Min({c}) \in {c}
      BY <2>d, MinIs
    <3> QED
      BY <2>6, <2>4, <1>k, <3>2 DEF Found
  <2>8. ASSUME NEW j \in Keys \ {k} PROVE SameAt(s, r, j)
    <3>1. j # Null /\ j # k
      BY NullIsNone
    <3> QED
      BY <3>1, <2>d, <2>4, <2>5, <1>k DEF SameAt, Cells
  <2> QED
    BY <1>3, <2>3, <2>6, <2>7, <2>8
<1> QED
  BY <1>1, <1>2, <1>3

LEMMA RemovedIs ==
  ASSUME NEW s \in Seq(KV_t), NEW k \in Keys
  PROVE  /\ Removed(s, k) \in Seq(KV_t) /\ Cells(Removed(s, k), k) = {}
         /\ \A j \in Keys \ {k} : SameAt(s, Removed(s, k), j)
<1> DEFINE r == Removed(s, k)
<1>1. Blank \in KV_t /\ Blank.key = Null /\ Null \notin Keys
  BY NullIsNone DEF KV_t, Blank
<1>2. r = [i \in 1 .. Len(s) |-> IF s[i].key = k THEN Blank ELSE s[i]]
  BY DEF Removed
<1>3. r \in Seq(KV_t) /\ DOMAIN r = DOMAIN s
  BY <1>1, <1>2, CellTypes
<1>4. \A i \in DOMAIN s : r[i] = IF s[i].key = k THEN Blank ELSE s[i]
  BY DEF Removed
<1> HIDE DEF r
<1>5. Cells(r, k) = {}
  BY <1>1, <1>3, <1>4 DEF Cells
<1>6. ASSUME NEW j \in Keys \ {k} PROVE SameAt(s, r, j)
  BY <1>1, <1>3, <1>4 DEF SameAt, Cells
<1> QED
  BY <1>3, <1>5, <1>6 DEF r

(***************************************************************************)
(* Lookup                                                                  *)
(***************************************************************************)
LEMMA ParentType ==
  ASSUME LibTypeOK, NEW t \in Tables
  PROVE  Parent(t) \in Tables \cup {Null}
BY NullIsNone DEF LibTypeOK, Parent, Tables

LEMMA AncestorIs ==
  ASSUME LibTypeOK, NEW t \in Tables
  PROVE  /\ Ancestor(t) \in [Nat -> Tables \cup {Null}]
         /\ Ancestor(t)[0] = t
         /\ \A n \in Nat : Ancestor(t)[n + 1] =
              IF Ancestor(t)[n] = Null THEN Null ELSE Parent(Ancestor(t)[n])
<1> DEFINE S == Tables \cup {Null}
           step == [u \in S |-> IF u = Null THEN Null ELSE Parent(u)]
           G == [n \in Nat |-> step]
           Up(f) == [n \in Nat |-> IF n = 0 THEN t
                       ELSE LET u == f[n-1] IN IF u = Null THEN Null ELSE Parent(u)]
<1>1. step \in [S -> S]
  BY ParentType
<1> HIDE DEF step
<1>2. G \in Recursions(S) /\ \A n \in Nat : G[n] = step
  BY <1>1 DEF Recursions
<1> HIDE DEF G
<1>3. PICK g \in [Nat -> S] : g[0] = t /\ \A i \in Nat : g[i + 1] = G[i + 1][g[i]]
  <2>1. t \in S
    OBVIOUS
  <2> HIDE DEF S
  <2>2. Solutions(S, t, G) # {}
    BY <1>2, <2>1, RecursionOnNat
  <2> QED
    BY <2>2 DEF Solutions
<1>4. ASSUME NEW i \in Nat
      PROVE  g[i + 1] = IF g[i] = Null THEN Null ELSE Parent(g[i])
  <2>1. g[i + 1] = step[g[i]] /\ g[i] \in S
    BY <1>2, <1>3
  <2> QED
    BY <2>1 DEF step
<1>5. g = Up(g)
  <2>1. ASSUME NEW n \in Nat PROVE g[n] = Up(g)[n]
    <3>1. CASE n = 0
      BY <3>1, <1>3
    <3>2. CASE n # 0
      <4>1. n - 1 \in Nat /\ (n - 1) + 1 = n
        BY <3>2
      <4> QED
        BY <4>1, <1>4, <3>2
    <3> QED
      BY <3>1, <3>2
  <2> QED
    BY <2>1, <1>3
<1>6. Ancestor(t) = CHOOSE f : f = Up(f)
  BY DEF Ancestor
<1>7. Ancestor(t) = Up(Ancestor(t))
  BY <1>5, <1>6
<1> QED
  <2>1. DOMAIN Ancestor(t) = Nat /\ Ancestor(t)[0] = t
    BY <1>7
  <2>2. ASSUME NEW n \in Nat PROVE Ancestor(t)[n + 1] =
              IF Ancestor(t)[n] = Null THEN Null ELSE Parent(Ancestor(t)[n])
    <3>1. (n + 1) - 1 = n /\ n + 1 # 0 /\ n + 1 \in Nat
      OBVIOUS
    <3> QED
      BY <3>1, <1>7
  <2> DEFINE T == {n \in Nat : Ancestor(t)[n] \in S}
  <2>3. 0 \in T
    BY <2>1
  <2>4. ASSUME NEW n \in Nat, n \in T PROVE n + 1 \in T
    BY <2>2, <2>4, ParentType
  <2> HIDE DEF T
  <2>5. Nat \subseteq T
    BY <2>3, <2>4, NatInd
  <2>6. \A n \in Nat : Ancestor(t)[n] \in S
    BY <2>5 DEF T
  <2>7. Ancestor(t) = [n \in Nat |-> Ancestor(t)[n]]
    BY <1>7
  <2> QED
    BY <2>1, <2>2, <2>6, <2>7

\* The same, so that it can be primed
AncestorRule ==
  \A t \in Tables :
    /\ Ancestor(t) \in [Nat -> Tables \cup {Null}]
    /\ Ancestor(t)[0] = t
    /\ \A n \in Nat : Ancestor(t)[n + 1] =
         IF Ancestor(t)[n] = Null THEN Null ELSE Parent(Ancestor(t)[n])
LEMMA AncestorFollows == LibTypeOK => AncestorRule
BY AncestorIs DEF AncestorRule

\* Tables that are reached do not change while metatables and classes stay.
LEMMA AncestorStays ==
  ASSUME LibTypeOK, LibTypeOK', UNCHANGED <<meta, index>>, NEW t \in Tables
  PROVE  Ancestor(t)' = Ancestor(t) /\ Chain(t)' = Chain(t)
<1>1. \A u \in Tables : Parent(u)' = Parent(u)
  BY DEF Parent
<1>2. LibTypeOK' => AncestorRule'
  BY AncestorFollows, PTL
<1> DEFINE f == Ancestor(t)
           g == Ancestor(t)'
<1>3. /\ f \in [Nat -> Tables \cup {Null}] /\ f[0] = t
      /\ \A n \in Nat : f[n + 1] = IF f[n] = Null THEN Null ELSE Parent(f[n])
  BY AncestorIs
<1>4. /\ g \in [Nat -> Tables \cup {Null}] /\ g[0] = t
      /\ \A n \in Nat : g[n + 1] = IF g[n] = Null THEN Null ELSE Parent(g[n])
  BY <1>1, <1>2 DEF AncestorRule
<1> HIDE DEF f, g
<1> DEFINE T == {n \in Nat : f[n] = g[n]}
<1>5. 0 \in T
  BY <1>3, <1>4
<1>6. ASSUME NEW n \in Nat, n \in T PROVE n + 1 \in T
  BY <1>3, <1>4, <1>6
<1> HIDE DEF T
<1>7. Nat \subseteq T
  BY <1>5, <1>6, NatInd
<1>8. f = g
  BY <1>3, <1>4, <1>7 DEF T
<1>9. Ancestor(t)' = Ancestor(t)
  BY <1>8 DEF f, g
<1> QED
  BY <1>9 DEF Chain

LEMMA ChainIs ==
  ASSUME LibTypeOK, NEW t \in Tables
  PROVE  /\ Chain(t) \subseteq Nat /\ 0 \in Chain(t)
         /\ \A n \in Chain(t) : Ancestor(t)[n] \in Tables
         /\ Cardinality(Tables) \in Nat
<1>1. Cardinality(Tables) \in Nat
  BY LibAssumption, FS_Union, FS_CardinalityType DEF Tables
<1>2. Chain(t) \subseteq Nat /\ 0 \in Chain(t)
  BY <1>1, AncestorIs, NullIsNone DEF Chain
<1>3. ASSUME NEW n \in Chain(t) PROVE Ancestor(t)[n] \in Tables
  BY <1>2, AncestorIs DEF Chain
<1> QED
  BY <1>1, <1>2, <1>3

LEMMA GetIs ==
  ASSUME LibTypeOK, NEW t \in Tables, NEW k \in Keys
  PROVE  /\ Hits(t, k) \subseteq Chain(t)
         /\ Hits(t, k) = {} => get_tabvalue(t, k) = Null
         /\ Hits(t, k) # {} =>
              \E h \in Hits(t, k) :
                /\ \A n \in Hits(t, k) : h <= n
                /\ get_tabvalue(t, k) = Found(kvs[Ancestor(t)[h]], k)
                /\ get_tabvalue(t, k) \in Values
<1>1. Hits(t, k) \subseteq Chain(t) /\ Hits(t, k) \subseteq Nat
  BY ChainIs DEF Hits
<1>2. CASE Hits(t, k) = {}
  BY <1>1, <1>2 DEF get_tabvalue
<1>3. CASE Hits(t, k) # {}
  <2> DEFINE h == Min(Hits(t, k))
             s == kvs[Ancestor(t)[h]]
  <2>1. h \in Hits(t, k) /\ \A n \in Hits(t, k) : h <= n
    BY <1>1, <1>3, MinIs
  <2>2. Ancestor(t)[h] \in Tables /\ Cells(s, k) # {}
    BY <2>1, ChainIs DEF Hits, Has
  <2>3. get_tabvalue(t, k) = Found(s, k)
    BY <1>3 DEF get_tabvalue, Found
  <2>4. s \in Seq(KV_t)
    BY <2>2 DEF LibTypeOK
  <2> HIDE DEF h, s
  <2>5. Found(s, k) \in Values
    BY <2>2, <2>4, CellTypes, MinIs DEF Found
  <2> QED
    BY <1>1, <1>3, <2>1, <2>3, <2>5 DEF s
<1> QED
  BY <1>2, <1>3

GetRule ==
  \A t \in Tables, k \in Keys :
    /\ Hits(t, k) \subseteq Chain(t)
    /\ Hits(t, k) = {} => get_tabvalue(t, k) = Null
    /\ Hits(t, k) # {} =>
         \E h \in Hits(t, k) :
           /\ \A n \in Hits(t, k) : h <= n
           /\ get_tabvalue(t, k) = Found(kvs[Ancestor(t)[h]], k)
           /\ get_tabvalue(t, k) \in Values
LEMMA GetFollows == LibTypeOK => GetRule
BY GetIs DEF GetRule

\* The lookups after the pairs of t have become s
Wrote(t, s) ==
  kvs' = [kvs EXCEPT ![t] = s] /\ UNCHANGED <<meta, index>>

LEMMA HitsAfter ==
  ASSUME LibTypeOK, LibTypeOK', NEW t \in Tables, NEW s, Wrote(t, s),
         NEW u \in Tables, NEW j \in Keys
  PROVE  /\ Hits(u, j)' = {n \in Chain(u) : Cells(kvs'[Ancestor(u)[n]], j) # {}}
         /\ Hits(u, j) = {n \in Chain(u) : Cells(kvs[Ancestor(u)[n]], j) # {}}
         /\ \A n \in Chain(u) :
              /\ Ancestor(u)[n] \in Tables /\ n \in Nat
              /\ Ancestor(u)[n] # t => kvs'[Ancestor(u)[n]] = kvs[Ancestor(u)[n]]
              /\ Ancestor(u)[n] = t => kvs'[Ancestor(u)[n]] = s
         /\ Hits(u, j)' = {} => get_tabvalue(u, j)' = Null
         /\ Hits(u, j)' # {} =>
              \E h \in Hits(u, j)' :
                /\ \A n \in Hits(u, j)' : h <= n
                /\ get_tabvalue(u, j)' = Found(kvs'[Ancestor(u)[h]], j)
                /\ get_tabvalue(u, j)' \in Values
<1>1. Ancestor(u)' = Ancestor(u) /\ Chain(u)' = Chain(u)
  BY AncestorStays DEF Wrote
<1>2. \A x \in Tables : x # t => kvs'[x] = kvs[x]
  BY DEF LibTypeOK, Wrote
<1>3. kvs'[t] = s
  BY DEF LibTypeOK, Wrote
<1>4. LibTypeOK' => GetRule'
  BY GetFollows, PTL
<1>5. Hits(u, j)' = {n \in Chain(u) : Cells(kvs'[Ancestor(u)[n]], j) # {}}
  BY <1>1 DEF Hits, Has
<1>6. Hits(u, j) = {n \in Chain(u) : Cells(kvs[Ancestor(u)[n]], j) # {}}
  BY DEF Hits, Has
<1>7. \A n \in Chain(u) :
        /\ Ancestor(u)[n] \in Tables /\ n \in Nat
        /\ Ancestor(u)[n] # t => kvs'[Ancestor(u)[n]] = kvs[Ancestor(u)[n]]
        /\ Ancestor(u)[n] = t => kvs'[Ancestor(u)[n]] = s
  BY <1>2, <1>3, ChainIs
<1>8. Hits(u, j)' = {} => get_tabvalue(u, j)' = Null
  BY <1>4 DEF GetRule
<1>9. Hits(u, j)' # {} =>
              \E h \in Hits(u, j)' :
                /\ \A n \in Hits(u, j)' : h <= n
                /\ get_tabvalue(u, j)' = Found(kvs[Ancestor(u)[h]], j)'
                /\ get_tabvalue(u, j)' \in Values
  BY <1>4 DEF GetRule
<1>10. \A h \in Hits(u, j)' : Found(kvs[Ancestor(u)[h]], j)' = Found(kvs'[Ancestor(u)[h]], j)
  BY <1>1 DEF Found
<1> QED
  BY <1>5, <1>6, <1>7, <1>8, <1>9, <1>10

\* A lookup does not change if t has the same pairs for its key, or is not
\* reached before the key is found.
LEMMA ReadsSame ==
  ASSUME LibTypeOK, LibTypeOK', NEW t \in Tables, NEW s, Wrote(t, s),
         NEW u \in Tables, NEW j \in Keys,
         SameAt(kvs[t], s, j) \/ t \notin Searched(u, j)
  PROVE  get_tabvalue(u, j)' = get_tabvalue(u, j)
<1> DEFINE A == Ancestor(u)
           H == Hits(u, j)
           I == Hits(u, j)'
<1>1. /\ I = {n \in Chain(u) : Cells(kvs'[A[n]], j) # {}}
      /\ H = {n \in Chain(u) : Cells(kvs[A[n]], j) # {}}
      /\ \A n \in Chain(u) : /\ A[n] \in Tables /\ n \in Nat
                             /\ A[n] # t => kvs'[A[n]] = kvs[A[n]]
                             /\ A[n] = t => kvs'[A[n]] = s
  <2>1. I = {n \in Chain(u) : Cells(kvs'[A[n]], j) # {}}
    BY HitsAfter
  <2>2. H = {n \in Chain(u) : Cells(kvs[A[n]], j) # {}}
    BY HitsAfter
  <2> HIDE DEF I, H
  <2> QED
    BY <2>1, <2>2, HitsAfter
<1>0. /\ I = {} => get_tabvalue(u, j)' = Null
      /\ I # {} => \E h \in I : /\ \A n \in I : h <= n
                                /\ get_tabvalue(u, j)' = Found(kvs'[A[h]], j)
  BY HitsAfter
<1>2. /\ H = {} => get_tabvalue(u, j) = Null
      /\ H # {} => \E h \in H : /\ \A n \in H : h <= n
                                /\ get_tabvalue(u, j) = Found(kvs[A[h]], j)
  BY GetIs
<1>3. ASSUME NEW n \in Chain(u), \A h \in H : n <= h
      PROVE  SameAt(kvs[A[n]], kvs'[A[n]], j)
  <2>1. CASE A[n] = t
    <3>1. t \in Searched(u, j)
      BY <1>3, <2>1 DEF Searched
    <3> QED
      BY <3>1, <2>1, <1>1
  <2>2. CASE A[n] # t
    BY <2>2, <1>1 DEF SameAt
  <2> QED
    BY <2>1, <2>2
<1>t. \A n \in Chain(u) : kvs[A[n]] \in Seq(KV_t)
  BY <1>1 DEF LibTypeOK
<1> HIDE DEF A, H, I
<1>4. CASE H = {}
  <2>1. I = {}
    BY <1>1, <1>3, <1>4 DEF SameAt
  <2> QED
    BY <2>1, <1>4, <1>0, <1>2
<1>5. CASE H # {}
  <2>1. PICK h \in H : (\A n \in H : h <= n) /\ get_tabvalue(u, j) = Found(kvs[A[h]], j)
    BY <1>2, <1>5
  <2>2. h \in Chain(u) /\ h \in Nat /\ Cells(kvs[A[h]], j) # {}
    BY <1>1
  <2>3. SameAt(kvs[A[h]], kvs'[A[h]], j)
    BY <1>3, <2>1, <2>2
  <2>4. h \in I
    BY <1>1, <2>2, <2>3 DEF SameAt
  <2>5. PICK g \in I : (\A n \in I : g <= n) /\ get_tabvalue(u, j)' = Found(kvs'[A[g]], j)
    BY <1>0, <2>4
  <2>6. g = h
    <3>1. g \in Chain(u) /\ g \in Nat /\ g <= h
      BY <1>1, <2>4, <2>5
    <3>2. \A n \in H : n \in Nat
      BY <1>1
    <3>3. SameAt(kvs[A[g]], kvs'[A[g]], j)
      BY <1>3, <2>1, <2>2, <3>1, <3>2
    <3>4. g \in H
      BY <1>1, <2>5, <3>1, <3>3 DEF SameAt
    <3> QED
      BY <3>4, <2>1, <3>1, <2>2
  <2>7. Found(kvs'[A[h]], j) = Found(kvs[A[h]], j)
    BY <1>t, <2>2, <2>3, FoundStays
  <2> QED
    BY <2>1, <2>5, <2>6, <2>7
<1> QED
  BY <1>4, <1>5

\* A table's own pair is found first.
LEMMA ReadsOwn ==
  ASSUME LibTypeOK, LibTypeOK', NEW t \in Tables, NEW s, Wrote(t, s),
         NEW j \in Keys, Cells(s, j) # {}
  PROVE  get_tabvalue(t, j)' = Found(s, j) /\ get_tabvalue(t, j)' \in Values
<1>1. 0 \in Chain(t) /\ Ancestor(t)[0] = t
  BY ChainIs, AncestorIs
<1>2. 0 \in Hits(t, j)'
  BY <1>1, HitsAfter
<1>3. PICK h \in Hits(t, j)' :
        /\ \A n \in Hits(t, j)' : h <= n
        /\ get_tabvalue(t, j)' = Found(kvs'[Ancestor(t)[h]], j)
        /\ get_tabvalue(t, j)' \in Values
  BY <1>2, HitsAfter
<1>4. h \in Nat
  BY HitsAfter
<1>5. h = 0
  BY <1>2, <1>3, <1>4
<1>6. kvs'[Ancestor(t)[0]] = s
  BY <1>1, HitsAfter
<1> QED
  BY <1>3, <1>5, <1>6

\* Without a parent there is nothing else to look into.
LEMMA ReadsNone ==
  ASSUME LibTypeOK, LibTypeOK', NEW t \in Tables, NEW s, Wrote(t, s),
         NEW j \in Keys, Cells(s, j) = {}, Parent(t) = Null
  PROVE  get_tabvalue(t, j)' = Null
<1> DEFINE f == Ancestor(t)
           T == {n \in Nat : f[n + 1] = Null}
<1>1. f[0] = t /\ t # Null
      /\ \A n \in Nat : f[n + 1] = IF f[n] = Null THEN Null ELSE Parent(f[n])
  BY AncestorIs, NullIsNone
<1>2. f[0 + 1] = Null
  BY <1>1
<1> HIDE DEF f
<1>3. 0 \in T
  BY <1>2
<1>4. ASSUME NEW n \in Nat, n \in T PROVE n + 1 \in T
  BY <1>1, <1>4
<1> HIDE DEF T
<1>5. Nat \subseteq T
  BY <1>3, <1>4, NatInd
<1>6. Chain(t) \subseteq {0}
  <2>1. ASSUME NEW n \in Chain(t), n # 0 PROVE FALSE
    <3>1. n \in Nat /\ f[n] # Null
      BY ChainIs DEF Chain, f
    <3>2. n - 1 \in T /\ (n - 1) + 1 = n
      BY <2>1, <3>1, <1>5
    <3> QED
      BY <3>1, <3>2 DEF T
  <2> QED
    BY <2>1
<1>7. ASSUME NEW n \in Hits(t, j)' PROVE FALSE
  <2>1. n \in Chain(t) /\ Cells(kvs'[Ancestor(t)[n]], j) # {}
    BY HitsAfter
  <2>2. n = 0 /\ Ancestor(t)[n] = t
    BY <2>1, <1>6, <1>1 DEF f
  <2> QED
    BY <2>1, <2>2, HitsAfter
<1> QED
  BY <1>7, HitsAfter

(***************************************************************************)
(* The loop of del                                                         *)
(***************************************************************************)

\* What happens to the pairs s when keys are stored or removed: a key that was
\* there and still is has kept its cell, and no key occurs twice.
Follows(s, r) ==
  /\ UniqueIn(s) => UniqueIn(r)
  /\ \A j \in Keys : Cells(s, j) # {} /\ Cells(r, j) # {} => Cells(r, j) = Cells(s, j)

LEMMA StoredFollows ==
  ASSUME NEW s \in Seq(KV_t), NEW k \in Keys, NEW v \in Values
  PROVE  Follows(s, Stored(s, k, v))
<1> DEFINE r == Stored(s, k, v)
<1>1. \A j \in Keys : j # k => Cells(r, j) = Cells(s, j)
  BY StoredIs DEF SameAt
<1>2. Cells(s, k) # {} => Cells(r, k) = Cells(s, k)
  BY StoredIs
<1>3. Cells(s, k) = {} => \E i : Cells(r, k) = {i}
  BY StoredIs
<1> HIDE DEF r
<1>4. UniqueIn(s) => UniqueIn(r)
  BY <1>1, <1>2, <1>3 DEF UniqueIn
<1> QED
  BY <1>1, <1>2, <1>4 DEF Follows, r

LEMMA RemovedFollows ==
  ASSUME NEW s \in Seq(KV_t), NEW k \in Keys
  PROVE  Follows(s, Removed(s, k))
<1>1. \A j \in Keys : j # k => Cells(Removed(s, k), j) = Cells(s, j)
  BY RemovedIs DEF SameAt
<1>2. Cells(Removed(s, k), k) = {}
  BY RemovedIs
<1> QED
  BY <1>1, <1>2 DEF Follows, UniqueIn

LEMMA ShiftedIs ==
  ASSUME LibTypeOK, NEW t \in Tables, NEW n \in Keys,
         \A i \in 1 .. n : get_tabvalue(t, i) \in Values
  PROVE  /\ Shifted(t, n) \in Seq(KV_t) /\ Follows(kvs[t], Shifted(t, n))
         /\ \A i \in 1 .. n - 1 :
              /\ Cells(Shifted(t, n), i) # {}
              /\ Found(Shifted(t, n), i) = get_tabvalue(t, i + 1)
         /\ Cells(Shifted(t, n), n) = {}
         /\ \A j \in Keys : j > n => SameAt(kvs[t], Shifted(t, n), j)
<1> DEFINE S == Seq(KV_t)
           s == kvs[t]
           val(m) == get_tabvalue(t, m + 1)
           step(m) == [r \in S |-> IF m \in 1 .. n - 1 THEN Stored(r, m, val(m)) ELSE r]
           G == [m \in Nat |-> step(m)]
           Copied(f) == [m \in 0 .. n - 1 |->
                           IF m = 0 THEN s ELSE Stored(f[m - 1], m, val(m))]
<1>n. n \in Nat /\ n - 1 \in Nat /\ \A m \in 1 .. n - 1 : m \in Keys /\ m \in Nat
  BY LibAssumption DEF Keys
<1>v. \A m \in 1 .. n - 1 : val(m) \in Values
  BY <1>n
<1>s. s \in S
  BY DEF LibTypeOK
<1>1. \A m \in Nat : step(m) \in [S -> S]
  BY <1>n, <1>v, StoredIs
<1>2. \A m \in 1 .. n - 1 : \A r \in S : step(m)[r] = Stored(r, m, val(m))
  OBVIOUS
<1> HIDE DEF step
<1>3. G \in Recursions(S) /\ \A m \in Nat : G[m] = step(m)
  BY <1>1 DEF Recursions
<1> HIDE DEF G, S, s, val
<1>4. PICK g \in [0 .. n - 1 -> S] :
        g[0] = s /\ \A i \in 1 .. n - 1 : g[i] = G[i][g[i - 1]]
  <2>1. Runs(n - 1, S, s, G) # {}
    BY <1>3, <1>n, <1>s, RunsExist
  <2> QED
    BY <2>1 DEF Runs
<1>5. ASSUME NEW i \in 1 .. n - 1 PROVE g[i] = Stored(g[i - 1], i, val(i))
  <2>1. i - 1 \in 0 .. n - 1 /\ i \in Nat
    BY <1>n
  <2>2. g[i - 1] \in S
    BY <2>1
  <2> QED
    BY <2>1, <2>2, <1>2, <1>3, <1>4
<1>6. g = Copied(g)
  <2>1. ASSUME NEW m \in 0 .. n - 1 PROVE g[m] = Copied(g)[m]
    <3>1. CASE m = 0
      BY <3>1, <1>4
    <3>2. CASE m # 0
      <4>1. m \in 1 .. n - 1
        BY <3>2, <1>n
      <4> QED
        BY <4>1, <3>2, <1>5
    <3> QED
      BY <3>1, <3>2
  <2> QED
    BY <2>1, <1>4
<1> DEFINE c == CHOOSE f : f = Copied(f)
<1>7. c = Copied(c)
  BY <1>6
<1>8. Shifted(t, n) = Removed(c[n - 1], n)
  BY DEF Shifted, s, val
<1>9. c[0] = s /\ \A m \in 1 .. n - 1 : c[m] = Stored(c[m - 1], m, val(m))
  <2>1. \A m \in 0 .. n - 1 : c[m] = IF m = 0 THEN s ELSE Stored(c[m - 1], m, val(m))
    BY <1>7
  <2> HIDE DEF c
  <2> QED
    BY <2>1, <1>n
<1> HIDE DEF c
<1> DEFINE Good(r, m) ==
             /\ r \in Seq(KV_t) /\ Follows(s, r)
             /\ \A i \in 1 .. m : Cells(r, i) # {} /\ Found(r, i) = val(i)
             /\ \A j \in Keys : j > m => SameAt(s, r, j)
             /\ \A j \in Keys : Cells(s, j) # {} => Cells(r, j) # {}
           T == {m \in Nat : m <= n - 1 => Good(c[m], m)}
<1>10. 0 \in T
  <2>1. Follows(s, s) /\ \A j \in Keys : SameAt(s, s, j)
    BY DEF Follows, SameAt
  <2> QED
    BY <2>1, <1>9, <1>s DEF S
<1>11. ASSUME NEW m \in Nat, m \in T PROVE m + 1 \in T
  <2> SUFFICES ASSUME m + 1 <= n - 1 PROVE Good(c[m + 1], m + 1)
    OBVIOUS
  <2> DEFINE r == c[m]
             k == m + 1
             q == c[m + 1]
  <2>1. k \in 1 .. n - 1 /\ k - 1 = m /\ k \in Keys /\ m <= n - 1 /\ val(k) \in Values
        /\ k \in Nat
    BY <1>n, <1>v
  <2>2. Good(r, m)
    BY <1>11, <2>1
  <2>3. q = Stored(r, k, val(k))
    BY <2>1, <1>9
  <2> HIDE DEF r, q, k
  <2>4. /\ q \in Seq(KV_t) /\ Cells(q, k) # {} /\ Found(q, k) = val(k)
        /\ \A j \in Keys : j # k => SameAt(r, q, j)
        /\ Cells(r, k) # {} => Cells(q, k) = Cells(r, k)
        /\ Follows(r, q)
    <3>1. r \in Seq(KV_t)
      BY <2>2
    <3> QED
      BY <2>1, <2>3, <3>1, StoredIs, StoredFollows
  <2>5. ASSUME NEW j \in Keys, Cells(r, j) # {} PROVE Cells(q, j) = Cells(r, j)
    BY <2>4, <2>5 DEF SameAt
  <2>6. Follows(s, q)
    BY <2>2, <2>4, <2>5 DEF Follows
  <2>7. ASSUME NEW i \in 1 .. k PROVE Cells(q, i) # {} /\ Found(q, i) = val(i)
    <3>1. CASE i = k
      BY <3>1, <2>4
    <3>2. CASE i # k
      <4>1. i \in 1 .. m /\ i \in Keys
        BY <3>2, <2>1, <1>n
      <4>2. Cells(r, i) # {} /\ Found(r, i) = val(i) /\ SameAt(r, q, i)
        BY <4>1, <3>2, <2>2, <2>4
      <4> QED
        BY <4>1, <4>2, <2>2, FoundStays DEF SameAt
    <3> QED
      BY <3>1, <3>2
  <2>8. ASSUME NEW j \in Keys, j > k PROVE SameAt(s, q, j)
    <3>1. j > m /\ j # k /\ j \in Nat
      BY <2>1, <2>8, NullIsNone
    <3>2. SameAt(s, r, j) /\ SameAt(r, q, j)
      BY <3>1, <2>2, <2>4
    <3> QED
      BY <3>2 DEF SameAt
  <2>9. \A j \in Keys : Cells(s, j) # {} => Cells(q, j) # {}
    BY <2>2, <2>5
  <2> QED
    BY <2>4, <2>6, <2>7, <2>8, <2>9 DEF q, k
<1> HIDE DEF T
<1>12. Nat \subseteq T
  BY <1>10, <1>11, NatInd
<1> DEFINE r == c[n - 1]
<1>13. Good(r, n - 1)
  <2>1. n - 1 \in T /\ n - 1 <= n - 1
    BY <1>12, <1>n
  <2> HIDE DEF Good
  <2> QED
    BY <2>1 DEF T
<1> HIDE DEF r
<1>14. /\ Removed(r, n) \in Seq(KV_t) /\ Cells(Removed(r, n), n) = {}
       /\ \A j \in Keys : j # n => SameAt(r, Removed(r, n), j)
  BY <1>13, RemovedIs
<1> DEFINE q == Removed(r, n)
<1> HIDE DEF q
<1>15. ASSUME NEW i \in 1 .. n - 1
       PROVE  Cells(q, i) # {} /\ Found(q, i) = val(i)
  <2>1. i \in Keys /\ i # n
    BY <1>n
  <2>2. Cells(r, i) # {} /\ Found(r, i) = val(i) /\ SameAt(r, q, i)
    BY <2>1, <1>13, <1>14 DEF q
  <2> QED
    BY <2>1, <2>2, <1>13, FoundStays DEF SameAt
<1>16. ASSUME NEW j \in Keys, j > n PROVE SameAt(s, q, j)
  <2>1. j > n - 1 /\ j # n /\ j \in Nat
    BY <1>n, <1>16, NullIsNone
  <2>2. SameAt(s, r, j) /\ SameAt(r, q, j)
    BY <2>1, <1>13, <1>14 DEF q
  <2> QED
    BY <2>2 DEF SameAt
<1>17. Follows(s, q)
  <2>1. Follows(r, q)
    BY <1>13, RemovedFollows DEF q
  <2>2. Follows(s, r) /\ \A j \in Keys : Cells(s, j) # {} => Cells(r, j) # {}
    BY <1>13
  <2> QED
    BY <2>1, <2>2 DEF Follows
<1>18. Shifted(t, n) = q
  BY <1>8 DEF q, r
<1> QED
  BY <1>14, <1>15, <1>16, <1>17, <1>18 DEF q, s, val

(***************************************************************************)
(* The array that a program sees                                           *)
(***************************************************************************)
LEMMA UntilIs ==
  ASSUME LibTypeOK, NEW t \in Tables
  PROVE  /\ _sequential_until(t) \in 0 .. MaxIndex
         /\ \A i \in 1 .. _sequential_until(t) : get_tabvalue(t, i) \in Values
         /\ _sequential_until(t) < MaxIndex =>
              get_tabvalue(t, _sequential_until(t) + 1) = Null
<1> DEFINE U == {n \in 0 .. MaxIndex : n = MaxIndex \/ get_tabvalue(t, n + 1) = Null}
           n == Min(U)
<1>1. MaxIndex \in Nat
  BY LibAssumption
<1>2. MaxIndex \in U
  BY <1>1
<1>3. n \in U /\ \A m \in U : n <= m
  <2>1. U \in SUBSET Nat /\ U # {}
    BY <1>1, <1>2
  <2> HIDE DEF U
  <2> QED
    BY <2>1, MinIs
<1>4. _sequential_until(t) = n
  BY DEF _sequential_until
<1> HIDE DEF n
<1>5. ASSUME NEW i \in 1 .. n PROVE get_tabvalue(t, i) \in Values
  <2>1. n \in 0 .. MaxIndex
    BY <1>3
  <2>2. i - 1 \in 0 .. MaxIndex /\ i - 1 < n /\ (i - 1) + 1 = i /\ i \in Keys
    BY <1>1, <2>1 DEF Keys
  <2>3. i - 1 \notin U
    <3> HIDE DEF U
    <3> QED
      BY <1>3, <2>1, <2>2
  <2>4. get_tabvalue(t, i) # Null
    BY <2>2, <2>3
  <2> QED
    BY <2>2, <2>4, GetIs
<1> QED
  BY <1>3, <1>4, <1>5

UntilRule ==
  \A t \in Tables :
    /\ _sequential_until(t) \in 0 .. MaxIndex
    /\ \A i \in 1 .. _sequential_until(t) : get_tabvalue(t, i) \in Values
    /\ _sequential_until(t) < MaxIndex => get_tabvalue(t, _sequential_until(t) + 1) = Null
LEMMA UntilFollows == LibTypeOK => UntilRule
BY UntilIs DEF UntilRule

LEMMA UntilAfter ==
  ASSUME LibTypeOK', NEW t \in Tables
  PROVE  /\ _sequential_until(t)' \in 0 .. MaxIndex
         /\ \A i \in 1 .. _sequential_until(t)' : get_tabvalue(t, i)' \in Values
         /\ _sequential_until(t)' < MaxIndex =>
              \E i \in Keys : i = _sequential_until(t)' + 1 /\ get_tabvalue(t, i)' = Null
<1>1. LibTypeOK' => UntilRule'
  BY UntilFollows, PTL
<1>2. MaxIndex \in Nat
  BY LibAssumption
<1> DEFINE n == _sequential_until(t)'
<1>3. /\ n \in 0 .. MaxIndex
      /\ \A i \in 1 .. n : get_tabvalue(t, i)' \in Values
      /\ n < MaxIndex => get_tabvalue(t, _sequential_until(t) + 1)' = Null
  BY <1>1 DEF UntilRule
<1>4. \A i : i = n + 1 => get_tabvalue(t, i)' = get_tabvalue(t, _sequential_until(t) + 1)'
  BY DEF get_tabvalue, Hits, Has
<1> HIDE DEF n
<1>5. n < MaxIndex => n + 1 \in Keys
  BY <1>2, <1>3 DEF Keys
<1> QED
  BY <1>3, <1>4, <1>5 DEF n

\* An array that has n elements, and reads as w does there
LEMMA ItemsUpTo ==
  ASSUME LibTypeOK', NEW t \in Tables, NEW n \in 0 .. MaxIndex,
         \A i \in 1 .. n : get_tabvalue(t, i)' \in Values
  PROVE  /\ n <= _sequential_until(t)' /\ _sequential_until(t)' \in Nat
         /\ Items(t)' = [i \in 1 .. _sequential_until(t)' |-> get_tabvalue(t, i)']
         /\ Items(t)' \in Seq(Values) /\ Len(Items(t)') = _sequential_until(t)'
         /\ SubSeq(Items(t)', 1, n) = [i \in 1 .. n |-> get_tabvalue(t, i)']
<1>1. MaxIndex \in Nat
  BY LibAssumption
<1> DEFINE m == _sequential_until(t)'
<1>2. m \in 0 .. MaxIndex /\ \A i \in 1 .. m : get_tabvalue(t, i)' \in Values
  BY UntilAfter
<1>3. m < MaxIndex => \E i \in Keys : i = m + 1 /\ get_tabvalue(t, i)' = Null
  BY UntilAfter
<1>4. Items(t)' = [i \in 1 .. m |-> get_tabvalue(t, i)']
  BY DEF Items
<1> HIDE DEF m
<1>5. n <= m
  <2> SUFFICES ASSUME m < n PROVE FALSE
    BY <1>2, <1>1
  <2>1. m + 1 \in 1 .. n /\ m < MaxIndex
    BY <1>1, <1>2
  <2> QED
    BY <2>1, <1>3, NullIsNone
<1>6. Items(t)' \in Seq(Values) /\ Len(Items(t)') = m
  BY <1>2, <1>4
<1>7. SubSeq(Items(t)', 1, n) = [i \in 1 .. n |-> get_tabvalue(t, i)']
  <2> DEFINE w == Items(t)'
  <2>1. \A i \in 1 .. n : w[i] = get_tabvalue(t, i)'
    BY <1>2, <1>4, <1>5
  <2>2. SubSeq(w, 1, n) = [i \in 1 .. n |-> w[i]]
    BY <1>2, <1>5, <1>6
  <2>3. [i \in 1 .. n |-> w[i]] = [i \in 1 .. n |-> get_tabvalue(t, i)']
    BY <2>1
  <2> QED
    BY <2>2, <2>3
<1> QED
  BY <1>2, <1>4, <1>5, <1>6, <1>7, <1>1 DEF m

\* What Write does to the pairs
LEMMA WriteIs ==
  ASSUME LibTypeOK, NEW t \in Tables, NEW s, Write(t, s)
  PROVE  Wrote(t, s)
BY DEF Write, Wrote

LEMMA SeqIsFcn ==
  ASSUME NEW S, NEW w \in Seq(S)
  PROVE  w = [i \in 1 .. Len(w) |-> w[i]]
<1>1. w \in [1 .. Len(w) -> S]
  BY LenProperties
<1> QED
  BY <1>1

LEMMA TailIs ==
  ASSUME NEW S, NEW w \in Seq(S), w # <<>>
  PROVE  Tail(w) = [i \in 1 .. Len(w) - 1 |-> w[i + 1]]
<1>1. Tail(w) \in Seq(S) /\ Len(Tail(w)) = Len(w) - 1
      /\ \A i \in 1 .. Len(w) - 1 : Tail(w)[i] = w[i + 1]
  OBVIOUS
<1>2. Tail(w) = [i \in 1 .. Len(Tail(w)) |-> Tail(w)[i]]
  BY <1>1, SeqIsFcn
<1> QED
  BY <1>1, <1>2

LEMMA AppendIs ==
  ASSUME NEW S, NEW w \in Seq(S), NEW v \in S
  PROVE  Append(w, v) = [i \in 1 .. Len(w) + 1 |-> IF i <= Len(w) THEN w[i] ELSE v]
<1>1. Append(w, v) \in Seq(S) /\ Len(Append(w, v)) = Len(w) + 1
      /\ \A i \in 1 .. Len(w) + 1 :
           Append(w, v)[i] = IF i <= Len(w) THEN w[i] ELSE v
  OBVIOUS
<1>2. Append(w, v) = [i \in 1 .. Len(Append(w, v)) |-> Append(w, v)[i]]
  BY <1>1, SeqIsFcn
<1> QED
  BY <1>1, <1>2

LEMMA AddAppends ==
  ASSUME LibTypeOK, LibTypeOK', NEW t \in Objects, NEW v \in Values, add(t, v)
  PROVE  SubSeq(Items(t)', 1, Len(Items(t)) + 1) = Append(Items(t), v)
<1>1. t \in Tables /\ MaxIndex \in Nat /\ kvs[t] \in Seq(KV_t)
  BY LibAssumption DEF Tables, LibTypeOK
<1>u. PICK n \in 0 .. MaxIndex : n = _sequential_until(t)
  BY <1>1, UntilIs
<1>2. \A i \in 1 .. n : get_tabvalue(t, i) \in Values
  BY <1>1, <1>u, UntilIs
<1> DEFINE s == Stored(kvs[t], n + 1, v)
<1>3. n < MaxIndex /\ Wrote(t, s)
  BY <1>1, <1>u, WriteIs DEF add
<1>4. Items(t) = [i \in 1 .. n |-> get_tabvalue(t, i)]
  BY <1>u DEF Items
<1>5. n + 1 \in Keys /\ n + 1 \in 0 .. MaxIndex
  BY <1>1, <1>2, <1>3 DEF Keys
<1>6. s \in Seq(KV_t) /\ Cells(s, n + 1) # {} /\ Found(s, n + 1) = v
      /\ \A j \in Keys \ {n + 1} : SameAt(kvs[t], s, j)
  BY <1>1, <1>5, StoredIs
<1> HIDE DEF s
<1>7. get_tabvalue(t, n + 1)' = v
  BY <1>1, <1>3, <1>5, <1>6, ReadsOwn
<1>8. ASSUME NEW i \in 1 .. n PROVE get_tabvalue(t, i)' = get_tabvalue(t, i)
  <2>1. i \in Keys \ {n + 1}
    BY <1>1, <1>2, <1>3 DEF Keys
  <2> QED
    BY <2>1, <1>1, <1>3, <1>6, ReadsSame
<1>9. \A i \in 1 .. n + 1 : get_tabvalue(t, i)' = IF i <= n THEN get_tabvalue(t, i) ELSE v
  <2>1. ASSUME NEW i \in 1 .. n + 1
        PROVE  get_tabvalue(t, i)' = IF i <= n THEN get_tabvalue(t, i) ELSE v
    <3>1. CASE i = n + 1
      BY <3>1, <1>7, <1>2
    <3>2. CASE i # n + 1
      <4>1. i \in 1 .. n
        BY <3>2, <1>2
      <4> QED
        BY <4>1, <1>8
    <3> QED
      BY <3>1, <3>2
  <2> QED
    BY <2>1
<1>10. \A i \in 1 .. n + 1 : get_tabvalue(t, i)' \in Values
  BY <1>2, <1>9
<1>11. SubSeq(Items(t)', 1, n + 1) = [i \in 1 .. n + 1 |-> get_tabvalue(t, i)']
  BY <1>1, <1>5, <1>10, ItemsUpTo
<1>12. Items(t) \in Seq(Values) /\ Len(Items(t)) = n
  BY <1>2, <1>4
<1>13. Append(Items(t), v) = [i \in 1 .. n + 1 |-> IF i <= n THEN get_tabvalue(t, i) ELSE v]
  <2> DEFINE w == Items(t)
  <2>1. Append(w, v) = [i \in 1 .. n + 1 |-> IF i <= n THEN w[i] ELSE v]
    BY <1>12, AppendIs
  <2>2. \A i \in 1 .. n : w[i] = get_tabvalue(t, i)
    BY <1>4
  <2>3. \A i \in 1 .. n + 1 : i <= n => i \in 1 .. n
    OBVIOUS
  <2>4. [i \in 1 .. n + 1 |-> IF i <= n THEN w[i] ELSE v]
          = [i \in 1 .. n + 1 |-> IF i <= n THEN get_tabvalue(t, i) ELSE v]
    BY <2>2, <2>3
  <2> QED
    BY <2>1, <2>4
<1>14. [i \in 1 .. n + 1 |-> get_tabvalue(t, i)'] =
         [i \in 1 .. n + 1 |-> IF i <= n THEN get_tabvalue(t, i) ELSE v]
  BY <1>9
<1> QED
  BY <1>11, <1>12, <1>13, <1>14

LEMMA DelShifts ==
  ASSUME LibTypeOK, LibTypeOK', NEW t \in Objects, NEW v \in Values, del(t, v)
  PROVE  /\ SubSeq(Items(t)', 1, Len(Items(t)) - 1) = Tail(Items(t))
         /\ Parent(t) = Null => Len(Items(t)') = Len(Items(t)) - 1
<1>1. t \in Tables /\ MaxIndex \in Nat /\ kvs[t] \in Seq(KV_t)
  BY LibAssumption DEF Tables, LibTypeOK
<1>u. PICK n \in 0 .. MaxIndex : n = _sequential_until(t)
  BY <1>1, UntilIs
<1>2. \A i \in 1 .. n : get_tabvalue(t, i) \in Values
  BY <1>1, <1>u, UntilIs
<1> DEFINE s == Shifted(t, n)
<1>3. n > 0 /\ Wrote(t, s)
  BY <1>1, <1>u, WriteIs DEF del
<1>4. Items(t) = [i \in 1 .. n |-> get_tabvalue(t, i)]
  BY <1>u DEF Items
<1>5. n \in Keys /\ n - 1 \in 0 .. MaxIndex
  BY <1>1, <1>2, <1>3 DEF Keys
<1>6. /\ s \in Seq(KV_t) /\ Cells(s, n) = {}
      /\ \A i \in 1 .. n - 1 : Cells(s, i) # {} /\ Found(s, i) = get_tabvalue(t, i + 1)
  BY <1>1, <1>2, <1>5, ShiftedIs
<1> HIDE DEF s
<1>7. ASSUME NEW i \in 1 .. n - 1
      PROVE  get_tabvalue(t, i)' = get_tabvalue(t, i + 1) /\ get_tabvalue(t, i)' \in Values
  <2>1. i \in Keys
    BY <1>1, <1>2 DEF Keys
  <2> QED
    BY <2>1, <1>1, <1>3, <1>6, ReadsOwn
<1>8. /\ n - 1 <= _sequential_until(t)' /\ _sequential_until(t)' \in Nat
      /\ Len(Items(t)') = _sequential_until(t)'
      /\ SubSeq(Items(t)', 1, n - 1) = [i \in 1 .. n - 1 |-> get_tabvalue(t, i)']
  BY <1>1, <1>5, <1>7, ItemsUpTo
<1>9. Items(t) \in Seq(Values) /\ Len(Items(t)) = n
  BY <1>2, <1>4
<1>10. Tail(Items(t)) = [i \in 1 .. n - 1 |-> get_tabvalue(t, i + 1)]
  <2> DEFINE w == Items(t)
  <2>1. Tail(w) = [i \in 1 .. n - 1 |-> w[i + 1]]
    BY <1>9, <1>3, TailIs
  <2>2. \A i \in 1 .. n - 1 : w[i + 1] = get_tabvalue(t, i + 1)
    BY <1>4, <1>2
  <2>3. [i \in 1 .. n - 1 |-> w[i + 1]] = [i \in 1 .. n - 1 |-> get_tabvalue(t, i + 1)]
    BY <2>2
  <2> QED
    BY <2>1, <2>3
<1>11. SubSeq(Items(t)', 1, n - 1) = Tail(Items(t))
  <2>1. [i \in 1 .. n - 1 |-> get_tabvalue(t, i)'] = [i \in 1 .. n - 1 |-> get_tabvalue(t, i + 1)]
    BY <1>7
  <2> QED
    BY <2>1, <1>8, <1>10
<1>12. ASSUME Parent(t) = Null PROVE Len(Items(t)') = n - 1
  <2>1. get_tabvalue(t, n)' = Null
    BY <1>12, <1>1, <1>3, <1>5, <1>6, ReadsNone
  <2>2. ASSUME n <= _sequential_until(t)' PROVE FALSE
    <3>1. n \in 1 .. _sequential_until(t)'
      BY <2>2, <1>2, <1>3, <1>8
    <3>2. get_tabvalue(t, n)' \in Values
      BY <3>1, <1>1, UntilAfter
    <3> QED
      BY <2>1, <3>2, NullIsNone
  <2> QED
    BY <2>2, <1>8, <1>2
<1> QED
  BY <1>9, <1>11, <1>12

LEMMA DelTakesOne ==
  ASSUME LibTypeOK, LibTypeOK', NEW t \in Objects, NEW v \in Values, del(t, v)
  PROVE  \E i \in 1 .. Len(Items(t)) :
           /\ SubSeq(Items(t)', 1, Len(Items(t)) - 1) = Without(Items(t), i)
           /\ Items(t)[1] = v => i = 1
           /\ Parent(t) = Null => Len(Items(t)') = Len(Items(t)) - 1
<1>1. t \in Tables /\ MaxIndex \in Nat
  BY LibAssumption DEF Tables
<1>2. PICK n \in 0 .. MaxIndex : n = _sequential_until(t)
  BY <1>1, UntilIs
<1>3. n > 0 /\ n \in Nat
  BY <1>1, <1>2 DEF del
<1>4. Items(t) = [i \in 1 .. n |-> get_tabvalue(t, i)]
  BY <1>2 DEF Items
<1> DEFINE s == Items(t)
<1>5. s \in Seq(Values) /\ Len(s) = n
  <2>1. \A i \in 1 .. n : get_tabvalue(t, i) \in Values
    BY <1>1, <1>2, UntilIs
  <2> QED
    BY <2>1, <1>3, <1>4
<1>6. Tail(s) = Without(s, 1)
  <2> HIDE DEF s
  <2>1. Tail(s) = [j \in 1 .. n - 1 |-> s[j + 1]]
    <3>1. s # <<>>
      BY <1>3, <1>5
    <3> QED
      BY <3>1, <1>5, TailIs
  <2>2. Without(s, 1) = [j \in 1 .. n - 1 |-> s[j + 1]]
    BY <1>3, <1>5 DEF Without
  <2> QED
    BY <2>1, <2>2
<1> QED
  BY <1>3, <1>5, <1>6, DelShifts

LEMMA SumIsLocal ==
  ASSUME LibTypeOK, LibTypeOK', NEW t \in Tables, NEW k \in Keys, iadd_tab(t, k),
         NEW u \in Tables, NEW j \in Keys, get_tabvalue(u, j)' # get_tabvalue(u, j)
  PROVE  j = k /\ t \in Searched(u, k)
<1> DEFINE v == (get_tabvalue(t, k) + 1) % NumVals
           s == Stored(kvs[t], k, v)
<1>1. v \in Values
  BY GetIs, LibAssumption, NullIsNone DEF iadd_tab, Values
<1>2. Wrote(t, s)
  BY WriteIs DEF iadd_tab
<1>3. \A i \in Keys \ {k} : SameAt(kvs[t], s, i)
  BY <1>1, StoredIs DEF LibTypeOK
<1> HIDE DEF s
<1>4. ~ SameAt(kvs[t], s, j) /\ t \in Searched(u, j)
  BY <1>2, ReadsSame
<1> QED
  BY <1>3, <1>4

(***************************************************************************)
(* The inductive invariant                                                 *)
(***************************************************************************)

\* foreach: what is due lies ahead, what is done lies behind.
Walking(s) ==
  /\ \A k \in loop.due : \E i \in Cells(s, k) : loop.at <= i
  /\ \A k \in loop.done : \E i \in Cells(s, k) : i < loop.at

\* The copy: what is due is in the rest, what is done is not, and nothing is twice.
Copying ==
  /\ \A k \in loop.due : \E i \in DOMAIN loop.rest : loop.rest[i] = k
  /\ \A i, j \in DOMAIN loop.rest : loop.rest[i] = loop.rest[j] => i = j
  /\ \A i \in DOMAIN loop.rest : loop.rest[i] \notin loop.done

LoopInv ==
  loop.on => /\ ~loop.twice
             /\ loop.kind = "foreach" => Walking(kvs[loop.tab])
             /\ loop.kind = "copy" => Copying

LibInv ==
  /\ LibTypeOK
  /\ \A t \in Tables : UniqueIn(kvs[t])
  /\ LoopInv

LEMMA InitInv == Init => LibInv
<1> SUFFICES ASSUME Init PROVE LibInv
  OBVIOUS
<1>1. \A t \in Tables : kvs[t] = <<>>
  BY DEF Init
<1>2. kvs \in [Tables -> Seq(KV_t)] /\ loop = NoLoop
  BY DEF Init
<1>3. meta \in [Tables -> Classes \cup {Null}] /\ index \in [Classes -> Classes \cup {Null}]
  BY DEF Init
<1>4. \A t \in Tables : UniqueIn(kvs[t])
  BY <1>1 DEF UniqueIn, Cells
<1>5. LoopInv
  BY <1>2 DEF LoopInv, NoLoop
<1> QED
  BY <1>2, <1>3, <1>4, <1>5 DEF LibInv, LibTypeOK

\* Every assignment writes to one table, and moves no key.
LEMMA AssignmentWrites ==
  ASSUME LibTypeOK,
         NEW t \in Tables, NEW k \in Keys, NEW v \in Values,
         set_tabvalue(t, k, v) \/ del_tabvalue(t, k) \/ iadd_tab(t, k)
         \/ add(t, v) \/ del(t, v)
  PROVE  \E s \in Seq(KV_t) : Write(t, s) /\ Follows(kvs[t], s)
<1>1. kvs[t] \in Seq(KV_t)
  BY DEF LibTypeOK
<1>2. CASE set_tabvalue(t, k, v)
  BY <1>1, <1>2, StoredIs, StoredFollows DEF set_tabvalue
<1>3. CASE del_tabvalue(t, k)
  BY <1>1, <1>3, RemovedIs, RemovedFollows DEF del_tabvalue
<1>4. CASE iadd_tab(t, k)
  <2> DEFINE w == (get_tabvalue(t, k) + 1) % NumVals
  <2>1. w \in Values
    BY <1>4, GetIs, LibAssumption, NullIsNone DEF iadd_tab, Values
  <2>2. Write(t, Stored(kvs[t], k, w))
    BY <1>4 DEF iadd_tab
  <2> HIDE DEF w
  <2> QED
    BY <1>1, <2>1, <2>2, StoredIs, StoredFollows
<1>5. CASE add(t, v)
  <2> DEFINE n == _sequential_until(t)
  <2>1. n < MaxIndex /\ Write(t, Stored(kvs[t], n + 1, v))
    BY <1>5 DEF add
  <2>2. n + 1 \in Keys
    BY <2>1, UntilIs, LibAssumption DEF Keys
  <2> HIDE DEF n
  <2> QED
    BY <1>1, <2>1, <2>2, StoredIs, StoredFollows
<1>6. CASE del(t, v)
  <2> DEFINE n == _sequential_until(t)
  <2>1. n > 0 /\ Write(t, Shifted(t, n))
    BY <1>6 DEF del
  <2>2. n \in Keys /\ \A i \in 1 .. n : get_tabvalue(t, i) \in Values
    BY <2>1, UntilIs, LibAssumption DEF Keys
  <2> HIDE DEF n
  <2> QED
    BY <2>1, <2>2, ShiftedIs
<1> QED
  BY <1>2, <1>3, <1>4, <1>5, <1>6

LEMMA WriteKeepsInv ==
  ASSUME LibInv, NEW t \in Tables, NEW s \in Seq(KV_t), Write(t, s), Follows(kvs[t], s)
  PROVE  LibInv'
<1>1. /\ LibTypeOK /\ LoopInv /\ \A u \in Tables : UniqueIn(kvs[u])
  BY DEF LibInv
<1>2. /\ kvs' = [kvs EXCEPT ![t] = s] /\ meta' = meta /\ index' = index
      /\ kvs'[t] = s /\ \A u \in Tables : u # t => kvs'[u] = kvs[u]
  BY <1>1 DEF Write, LibTypeOK
<1> DEFINE Kept(K) == {k \in K : Has(t, k) => Cells(s, k) # {}}
<1>3. \/ loop' = loop /\ ~ (loop.on /\ loop.tab = t)
      \/ /\ loop.on /\ loop.tab = t
         /\ loop' = [loop EXCEPT !.due = Kept(loop.due), !.done = Kept(loop.done)]
  BY DEF Write
<1> HIDE DEF Kept
<1>k. \A K : Kept(K) \subseteq K
  BY DEF Kept
<1>4. \A u \in Tables : UniqueIn(kvs'[u])
  BY <1>1, <1>2 DEF Follows
<1>5. CASE loop' = loop /\ ~ (loop.on /\ loop.tab = t)
  <2>1. LibTypeOK'
    BY <1>1, <1>2, <1>5 DEF LibTypeOK
  <2>2. LoopInv'
    <3> SUFFICES ASSUME loop.on PROVE LoopInv'
      BY <1>5 DEF LoopInv
    <3>1. loop \in Loops
      BY <1>1 DEF LibTypeOK, NoLoop
    <3>2. kvs'[loop.tab] = kvs[loop.tab]
      BY <3>1, <1>2, <1>5 DEF Loops, Tables
    <3> QED
      BY <3>2, <1>1, <1>5 DEF LoopInv, Walking, Copying
  <2> QED
    BY <2>1, <2>2, <1>4 DEF LibInv
<1>6. CASE /\ loop.on /\ loop.tab = t
           /\ loop' = [loop EXCEPT !.due = Kept(loop.due), !.done = Kept(loop.done)]
  <2>1. loop \in Loops
    BY <1>1, <1>6 DEF LibTypeOK, NoLoop
  <2>2. /\ loop' \in Loops /\ loop'.on /\ loop'.tab = t /\ loop'.kind = loop.kind
        /\ loop'.at = loop.at /\ loop'.rest = loop.rest /\ loop'.twice = loop.twice
        /\ loop'.due = Kept(loop.due) /\ loop'.done = Kept(loop.done)
    BY <2>1, <1>6, <1>k DEF Loops
  <2>3. LibTypeOK'
    BY <1>1, <1>2, <2>2 DEF LibTypeOK
  <2>4. ASSUME loop.kind = "foreach" PROVE Walking(kvs[loop.tab])'
    <3>1. Walking(kvs[t])
      BY <1>1, <1>6, <2>4 DEF LoopInv
    <3>2. ASSUME NEW k \in Keys, k \in Kept(loop.due) \cup Kept(loop.done)
          PROVE  Cells(s, k) = Cells(kvs[t], k)
      <4>1. Cells(kvs[t], k) # {}
        BY <3>1, <3>2, <1>k DEF Walking
      <4>2. Cells(s, k) # {}
        BY <4>1, <3>2 DEF Kept, Has
      <4> QED
        BY <4>1, <4>2 DEF Follows
    <3>3. loop.due \subseteq Keys /\ loop.done \subseteq Keys
      BY <2>1 DEF Loops
    <3>4. /\ \A k \in Kept(loop.due) : \E i \in Cells(s, k) : loop.at <= i
          /\ \A k \in Kept(loop.done) : \E i \in Cells(s, k) : i < loop.at
      BY <3>1, <3>2, <3>3, <1>k DEF Walking
    <3> QED
      BY <3>4, <2>2, <1>2 DEF Walking
  <2>5. ASSUME loop.kind = "copy" PROVE Copying'
    <3>1. Copying
      BY <1>1, <1>6, <2>5 DEF LoopInv
    <3> QED
      BY <3>1, <2>2, <1>k DEF Copying
  <2>6. LoopInv'
    BY <2>2, <2>4, <2>5, <1>1, <1>6 DEF LoopInv
  <2> QED
    BY <2>3, <2>6, <1>4 DEF LibInv
<1> QED
  BY <1>3, <1>5, <1>6

LEMMA VisitIs ==
  ASSUME LibTypeOK, loop.on, NEW k \in Keys
  PROVE  /\ loop \in Loops /\ Visit(k) \in Loops
         /\ Visit(k).due = loop.due \ {k}
         /\ Visit(k).done = loop.done \cup ({k} \cap loop.due)
         /\ Visit(k).twice = (loop.twice \/ k \in loop.done)
         /\ Visit(k).on /\ Visit(k).kind = loop.kind /\ Visit(k).tab = loop.tab
         /\ Visit(k).at = loop.at /\ Visit(k).rest = loop.rest
<1>1. loop \in Loops
  BY DEF LibTypeOK, NoLoop
<1> QED
  BY <1>1 DEF Visit, Loops

LEMMA AtMoves ==
  ASSUME NEW x \in Loops, NEW n \in Nat \ {0}, NEW y, y = [x EXCEPT !.at = n]
  PROVE  /\ y \in Loops /\ y.at = n /\ y.on = x.on /\ y.kind = x.kind /\ y.tab = x.tab
         /\ y.due = x.due /\ y.done = x.done /\ y.twice = x.twice
BY DEF Loops

LEMMA ForeachKeepsInv ==
  ASSUME LibInv, ForeachStep
  PROVE  LibInv'
<1>1. LibTypeOK /\ LoopInv /\ loop.on /\ loop.kind = "foreach" /\ loop \in Loops
  BY DEF LibInv, LibTypeOK, ForeachStep, NoLoop
<1> DEFINE t == loop.tab
           s == kvs[t]
           n == loop.at
           k == s[n].key
<1>2. t \in Tables /\ s \in Seq(KV_t) /\ n \in Nat \ {0} /\ n \in DOMAIN s
      /\ Walking(s) /\ ~loop.twice /\ UniqueIn(s)
  BY <1>1, CellTypes DEF LibInv, LibTypeOK, Loops, Tables, LoopInv, ForeachStep
<1>3. /\ loop' = [(IF k = Null THEN [loop EXCEPT !.body = FALSE] ELSE Visit(k)) EXCEPT !.at = @ + 1]
      /\ kvs' = kvs /\ meta' = meta /\ index' = index
  BY DEF ForeachStep
<1>d. loop.due \subseteq Keys /\ loop.done \subseteq Keys /\ Null \notin Keys
      /\ \A j : Cells(s, j) \subseteq Nat
  BY <1>1, <1>2, NullIsNone, CellTypes DEF Loops
<1>c. \A j : n \in Cells(s, j) <=> j = k
  BY <1>2 DEF Cells
<1>4. CASE k = Null
  <2>1. /\ loop' \in Loops /\ loop'.on /\ loop'.tab = t /\ loop'.kind = "foreach"
        /\ loop'.at = n + 1 /\ loop'.twice = loop.twice
        /\ loop'.due = loop.due /\ loop'.done = loop.done
    <3> DEFINE w == [loop EXCEPT !.body = FALSE]
    <3>1. /\ w \in Loops /\ w.on = loop.on /\ w.kind = loop.kind /\ w.tab = loop.tab
          /\ w.at = loop.at /\ w.due = loop.due /\ w.done = loop.done /\ w.twice = loop.twice
      BY <1>1 DEF Loops
    <3>2. loop' = [w EXCEPT !.at = n + 1]
      BY <1>3, <1>4, <3>1
    <3>3. n + 1 \in Nat \ {0}
      BY <1>2
    <3> HIDE DEF w
    <3>4. /\ loop' \in Loops /\ loop'.at = n + 1 /\ loop'.on = w.on /\ loop'.kind = w.kind
          /\ loop'.tab = w.tab /\ loop'.due = w.due /\ loop'.done = w.done
          /\ loop'.twice = w.twice
      <4>1. w \in Loops
        BY <3>1
      <4> QED
        BY <4>1, <3>2, <3>3, AtMoves
    <3> QED
      BY <3>1, <3>4, <1>1
  <2>2. ASSUME NEW j \in loop.due PROVE \E i \in Cells(s, j) : n + 1 <= i
    BY <1>2, <1>4, <1>c, <1>d DEF Walking
  <2>3. ASSUME NEW j \in loop.done PROVE \E i \in Cells(s, j) : i < n + 1
    BY <1>2, <1>d DEF Walking
  <2>4. Walking(kvs[loop.tab])'
    BY <2>1, <2>2, <2>3, <1>3 DEF Walking
  <2> QED
    BY <2>1, <2>4, <1>1, <1>2, <1>3 DEF LibInv, LoopInv, LibTypeOK
<1>5. CASE k # Null
  <2>1. k \in Keys
    BY <1>2, <1>5, CellTypes DEF KV_t, Blank
  <2>2. /\ loop' \in Loops /\ loop'.on /\ loop'.tab = t /\ loop'.kind = "foreach"
        /\ loop'.at = n + 1 /\ loop'.twice = (loop.twice \/ k \in loop.done)
        /\ loop'.due = loop.due \ {k} /\ loop'.done = loop.done \cup ({k} \cap loop.due)
    <3> DEFINE w == Visit(k)
    <3>1. /\ w \in Loops /\ w.on /\ w.kind = loop.kind /\ w.tab = loop.tab /\ w.at = loop.at
          /\ w.due = loop.due \ {k} /\ w.done = loop.done \cup ({k} \cap loop.due)
          /\ w.twice = (loop.twice \/ k \in loop.done)
      BY <1>1, <2>1, VisitIs
    <3>2. loop' = [w EXCEPT !.at = n + 1]
      BY <1>3, <1>5, <3>1
    <3>3. n + 1 \in Nat \ {0}
      BY <1>2
    <3> HIDE DEF w
    <3>4. /\ loop' \in Loops /\ loop'.at = n + 1 /\ loop'.on = w.on /\ loop'.kind = w.kind
          /\ loop'.tab = w.tab /\ loop'.due = w.due /\ loop'.done = w.done
          /\ loop'.twice = w.twice
      <4>1. w \in Loops
        BY <3>1
      <4> QED
        BY <4>1, <3>2, <3>3, AtMoves
    <3> QED
      BY <3>1, <3>4, <1>1
  <2>3. ASSUME NEW j \in loop.due \ {k} PROVE \E i \in Cells(s, j) : n + 1 <= i
    <3>1. PICK i \in Cells(s, j) : n <= i
      BY <1>2 DEF Walking
    <3>2. i \in Nat /\ i # n
      BY <3>1, <1>c, <1>d
    <3> QED
      BY <3>1, <3>2, <1>2
  <2>4. ASSUME NEW j \in loop.done \cup {k} PROVE \E i \in Cells(s, j) : i < n + 1
    <3>1. CASE j = k
      <4>1. n \in Cells(s, k) /\ n < n + 1
        BY <1>2, <1>c
      <4> QED
        BY <3>1, <4>1
    <3>2. CASE j \in loop.done
      <4>1. PICK i \in Cells(s, j) : i < n
        BY <1>2, <3>2 DEF Walking
      <4>2. i \in Nat
        BY <4>1, <1>d
      <4> QED
        BY <4>1, <4>2, <1>2
    <3> QED
      BY <3>1, <3>2
  <2>5. k \notin loop.done
    <3> SUFFICES ASSUME k \in loop.done PROVE FALSE
      OBVIOUS
    <3>1. PICK i \in Cells(s, k) : i < n
      BY <1>2 DEF Walking
    <3>2. i = n
      BY <1>2, <1>c, <2>1 DEF UniqueIn
    <3> QED
      BY <3>1, <3>2, <1>2
  <2>6. Walking(kvs[loop.tab])'
    <3>1. /\ \A j \in loop'.due : \E i \in Cells(s, j) : loop'.at <= i
          /\ \A j \in loop'.done : \E i \in Cells(s, j) : i < loop'.at
      BY <2>2, <2>3, <2>4
    <3>2. kvs'[loop'.tab] = s
      BY <2>2, <1>3
    <3> QED
      BY <3>1, <3>2 DEF Walking
  <2> QED
    BY <2>2, <2>5, <2>6, <1>1, <1>2, <1>3 DEF LibInv, LoopInv, LibTypeOK
<1> QED
  BY <1>4, <1>5

LEMMA CopyKeepsInv ==
  ASSUME LibInv, CopyStep
  PROVE  LibInv'
<1>1. LibTypeOK /\ LoopInv /\ loop.on /\ loop.kind = "copy" /\ loop \in Loops
  BY DEF LibInv, LibTypeOK, CopyStep, NoLoop
<1> DEFINE w == loop.rest
           k == Head(w)
<1>2. w \in Seq(Keys) /\ w # <<>> /\ Copying /\ ~loop.twice
  BY <1>1 DEF Loops, LoopInv, CopyStep
<1>3. /\ loop' = [Visit(k) EXCEPT !.rest = Tail(@)]
      /\ kvs' = kvs /\ meta' = meta /\ index' = index
  BY DEF CopyStep
<1>4. /\ k \in Keys /\ k = w[1] /\ Tail(w) \in Seq(Keys) /\ Len(Tail(w)) = Len(w) - 1
      /\ \A i \in 1 .. Len(w) - 1 : Tail(w)[i] = w[i + 1]
      /\ Len(w) \in Nat \ {0} /\ DOMAIN w = 1 .. Len(w) /\ DOMAIN Tail(w) = 1 .. Len(w) - 1
  BY <1>2
<1>5. /\ loop' \in Loops /\ loop'.on /\ loop'.kind = "copy" /\ loop'.rest = Tail(w)
      /\ loop'.twice = (loop.twice \/ k \in loop.done)
      /\ loop'.due = loop.due \ {k} /\ loop'.done = loop.done \cup ({k} \cap loop.due)
  <2> DEFINE x == Visit(k)
  <2>1. /\ x \in Loops /\ x.on /\ x.kind = loop.kind /\ x.rest = loop.rest
        /\ x.due = loop.due \ {k} /\ x.done = loop.done \cup ({k} \cap loop.due)
        /\ x.twice = (loop.twice \/ k \in loop.done)
    BY <1>1, <1>4, VisitIs
  <2>2. loop' = [x EXCEPT !.rest = Tail(w)]
    BY <1>3, <2>1
  <2> HIDE DEF x
  <2> QED
    BY <2>1, <2>2, <1>1, <1>4 DEF Loops
<1>6. \A i, j \in DOMAIN w : w[i] = w[j] => i = j
  BY <1>2 DEF Copying
<1>7. \A i \in DOMAIN w : w[i] \notin loop.done
  BY <1>2 DEF Copying
<1>8. k \notin loop.done
  BY <1>4, <1>7
<1>9. \A i \in DOMAIN Tail(w) : i + 1 \in DOMAIN w /\ i + 1 # 1 /\ Tail(w)[i] = w[i + 1]
  BY <1>4
<1>10. ASSUME NEW d \in loop.due \ {k} PROVE \E i \in DOMAIN Tail(w) : Tail(w)[i] = d
  <2>1. PICK i \in DOMAIN w : w[i] = d
    BY <1>2 DEF Copying
  <2>2. i # 1 /\ i - 1 \in DOMAIN Tail(w) /\ (i - 1) + 1 = i
    BY <2>1, <1>4
  <2> QED
    BY <2>1, <2>2, <1>9
<1>11. \A i, j \in DOMAIN Tail(w) : Tail(w)[i] = Tail(w)[j] => i = j
  BY <1>4, <1>6, <1>9
<1>12. \A i \in DOMAIN Tail(w) : Tail(w)[i] \notin loop.done \cup {k}
  BY <1>4, <1>6, <1>7, <1>9
<1> HIDE DEF w, k
<1>13. Copying'
  BY <1>5, <1>10, <1>11, <1>12 DEF Copying
<1> QED
  BY <1>1, <1>2, <1>3, <1>5, <1>8, <1>13 DEF LibInv, LoopInv, LibTypeOK

\* The copy that pairs makes: the keys of the table, each of them once
LEMMA PairsCopy ==
  ASSUME LibInv, NEW t \in Objects, pairs(t)
  PROVE  \E w \in Seq(Keys) :
           /\ Begin("copy", t, Own(t), w)
           /\ \A k \in Own(t) : \E i \in DOMAIN w : w[i] = k
           /\ \A i, j \in DOMAIN w : w[i] = w[j] => i = j
<1> DEFINE s == kvs[t]
           S == Seq(Keys)
           step(m) == [r \in S |-> IF m \in DOMAIN s /\ s[m].key # Null
                                   THEN Append(r, s[m].key) ELSE r]
           G == [m \in Nat |-> step(m)]
           Copied(f) == [i \in 0 .. Len(s) |->
                           IF i = 0 THEN <<>>
                           ELSE IF s[i].key = Null THEN f[i - 1]
                           ELSE Append(f[i - 1], s[i].key)]
<1>1. s \in Seq(KV_t) /\ UniqueIn(s)
  BY DEF LibInv, LibTypeOK, Tables
<1>2. Len(s) \in Nat /\ DOMAIN s = 1 .. Len(s)
  BY <1>1
<1>3. \A m \in DOMAIN s : s[m].key # Null => s[m].key \in Keys
  BY <1>1, CellTypes DEF KV_t, Blank
<1>4. Begin("copy", t, Own(t), (CHOOSE f : f = Copied(f))[Len(s)])
  BY DEF pairs
<1>o. Own(t) = {k \in Keys : Cells(s, k) # {}}
  BY DEF Own, Has
<1> HIDE DEF s
<1>5. \A m \in Nat : step(m) \in [S -> S]
  BY <1>3
<1>6. \A m \in DOMAIN s : \A r \in S :
        step(m)[r] = IF s[m].key # Null THEN Append(r, s[m].key) ELSE r
  OBVIOUS
<1> HIDE DEF step
<1>7. G \in Recursions(S) /\ \A m \in Nat : G[m] = step(m)
  BY <1>5 DEF Recursions
<1>e. <<>> \in S
  OBVIOUS
<1> HIDE DEF G, S
<1>8. PICK g \in [0 .. Len(s) -> S] :
        g[0] = <<>> /\ \A i \in 1 .. Len(s) : g[i] = G[i][g[i - 1]]
  <2>1. Runs(Len(s), S, <<>>, G) # {}
    BY <1>2, <1>7, <1>e, RunsExist
  <2> QED
    BY <2>1 DEF Runs
<1>9. ASSUME NEW i \in 1 .. Len(s)
      PROVE  g[i] = IF s[i].key = Null THEN g[i - 1] ELSE Append(g[i - 1], s[i].key)
  <2>1. i - 1 \in 0 .. Len(s) /\ i \in Nat /\ i \in DOMAIN s
    BY <1>2
  <2>2. g[i - 1] \in S
    BY <2>1
  <2> QED
    BY <2>1, <2>2, <1>6, <1>7, <1>8
<1>10. g = Copied(g)
  <2>1. ASSUME NEW m \in 0 .. Len(s) PROVE g[m] = Copied(g)[m]
    <3>1. CASE m = 0
      BY <3>1, <1>8
    <3>2. CASE m # 0
      <4>1. m \in 1 .. Len(s)
        BY <3>2, <1>2
      <4> QED
        BY <4>1, <3>2, <1>9
    <3> QED
      BY <3>1, <3>2
  <2> QED
    BY <2>1, <1>8
<1> DEFINE c == CHOOSE f : f = Copied(f)
<1>11. c = Copied(c)
  BY <1>10
<1>w. Begin("copy", t, Own(t), c[Len(s)])
  BY <1>4
<1> HIDE DEF c
<1>12. c[0] = <<>> /\ \A m \in 1 .. Len(s) :
         c[m] = IF s[m].key = Null THEN c[m - 1] ELSE Append(c[m - 1], s[m].key)
  <2>1. \A m \in 0 .. Len(s) : c[m] =
          IF m = 0 THEN <<>>
          ELSE IF s[m].key = Null THEN c[m - 1]
          ELSE Append(c[m - 1], s[m].key)
    BY <1>11
  <2>2. \A m \in 1 .. Len(s) : m \in 0 .. Len(s) /\ m # 0
    BY <1>2
  <2>3. 0 \in 0 .. Len(s)
    BY <1>2
  <2> QED
    BY <2>1, <2>2, <2>3
<1> DEFINE Good(r, m) ==
             /\ r \in Seq(Keys)
             /\ \A k \in Keys : (\E i \in DOMAIN r : r[i] = k) <=> (\E i \in Cells(s, k) : i <= m)
             /\ \A i, j \in DOMAIN r : r[i] = r[j] => i = j
           T == {m \in Nat : m <= Len(s) => Good(c[m], m)}
<1>c. \A k : Cells(s, k) \subseteq 1 .. Len(s) /\ Cells(s, k) \subseteq Nat
  BY <1>1, <1>2, CellTypes
<1>13. 0 \in T
  <2>1. Good(<<>>, 0)
    BY <1>c
  <2> HIDE DEF Good
  <2> QED
    BY <2>1, <1>12
<1>14. ASSUME NEW m \in Nat, m \in T PROVE m + 1 \in T
  <2> SUFFICES ASSUME m + 1 <= Len(s) PROVE Good(c[m + 1], m + 1)
    OBVIOUS
  <2> DEFINE r == c[m]
             q == c[m + 1]
             n == m + 1
             k == s[n].key
  <2>1. n \in 1 .. Len(s) /\ n - 1 = m /\ n \in DOMAIN s /\ m <= Len(s)
    BY <1>2
  <2>2. Good(r, m)
    BY <1>14, <2>1
  <2>3. q = IF k = Null THEN r ELSE Append(r, k)
    BY <1>12, <2>1
  <2>4. \A d \in Keys : n \in Cells(s, d) <=> d = k
    BY <2>1 DEF Cells
  <2>5. \A d \in Keys : (\E i \in Cells(s, d) : i <= n) <=> (\E i \in Cells(s, d) : i <= m) \/ d = k
    BY <2>4, <1>c
  <2> HIDE DEF r, q, k, n
  <2>6. CASE k = Null
    <3>1. k \notin Keys
      BY <2>6, NullIsNone
    <3> QED
      BY <2>2, <2>3, <2>5, <2>6, <3>1 DEF q, n
  <2>7. CASE k # Null
    <3>1. k \in Keys
      BY <2>1, <2>7, <1>3 DEF k
    <3>2. /\ q \in Seq(Keys) /\ DOMAIN r = 1 .. Len(r) /\ DOMAIN q = 1 .. Len(r) + 1
          /\ Len(r) \in Nat /\ q[Len(r) + 1] = k /\ \A i \in 1 .. Len(r) : q[i] = r[i]
      BY <2>2, <2>3, <2>7, <3>1
    <3>3. \A i \in DOMAIN q : i \in DOMAIN r \/ i = Len(r) + 1
      BY <3>2
    <3>4. Len(r) + 1 \in DOMAIN q /\ \A i \in DOMAIN r : i \in DOMAIN q /\ q[i] = r[i]
      BY <3>2
    <3>5. \A d \in Keys : (\E i \in DOMAIN q : q[i] = d) <=> (\E i \in DOMAIN r : r[i] = d) \/ d = k
      BY <3>2, <3>3, <3>4
    <3>6. \A i \in DOMAIN r : r[i] # k
      <4> SUFFICES ASSUME NEW i \in DOMAIN r, r[i] = k PROVE FALSE
        OBVIOUS
      <4>1. PICK d \in Cells(s, k) : d <= m
        BY <2>2, <3>1
      <4>2. n \in Cells(s, k)
        BY <2>4, <3>1
      <4>3. d = n
        BY <4>1, <4>2, <1>1, <3>1 DEF UniqueIn
      <4> QED
        BY <4>1, <4>3 DEF n
    <3>7. \A i, j \in DOMAIN q : q[i] = q[j] => i = j
      BY <2>2, <3>2, <3>3, <3>4, <3>6
    <3>8. \A d \in Keys : (\E i \in DOMAIN q : q[i] = d) <=> (\E i \in Cells(s, d) : i <= n)
      BY <2>2, <2>5, <3>5
    <3> QED
      BY <3>2, <3>7, <3>8 DEF q, n
  <2> QED
    BY <2>6, <2>7
<1> HIDE DEF T
<1>15. Nat \subseteq T
  BY <1>13, <1>14, NatInd
<1> DEFINE w == c[Len(s)]
<1>16. Good(w, Len(s))
  <2>1. Len(s) \in T /\ Len(s) <= Len(s)
    BY <1>15, <1>2
  <2> HIDE DEF Good
  <2> QED
    BY <2>1 DEF T
<1> HIDE DEF w
<1>17. ASSUME NEW k \in Own(t) PROVE \E i \in DOMAIN w : w[i] = k
  <2>1. k \in Keys /\ \E i \in Cells(s, k) : i <= Len(s)
    BY <1>o, <1>c, <1>2
  <2> QED
    BY <2>1, <1>16
<1> QED
  BY <1>w, <1>16, <1>17 DEF w

LEMMA BeginKeepsInv ==
  ASSUME LibInv, NEW t \in Objects, foreach(t) \/ pairs(t) \/ ipairs(t)
  PROVE  LibInv'
<1>1. t \in Tables /\ kvs[t] \in Seq(KV_t)
  BY DEF Tables, LibInv, LibTypeOK
<1>o. PICK own \in SUBSET Keys : own = Own(t)
  BY DEF Own
<1>2. ASSUME NEW kind \in {"foreach", "copy"}, NEW K \in SUBSET Keys, NEW w \in Seq(Keys),
             Begin(kind, t, K, w)
      PROVE  /\ loop' \in Loops /\ kvs' = kvs /\ meta' = meta /\ index' = index
             /\ loop'.on /\ loop'.kind = kind /\ loop'.tab = t /\ loop'.at = 1
             /\ loop'.rest = w /\ loop'.due = K /\ loop'.done = {} /\ ~loop'.twice
  BY <1>2 DEF Begin, Loops
<1>3. CASE foreach(t)
  <2>1. Begin("foreach", t, own, <<>>) /\ <<>> \in Seq(Keys)
    BY <1>3, <1>o DEF foreach
  <2>2. /\ loop' \in Loops /\ kvs' = kvs /\ meta' = meta /\ index' = index
        /\ loop'.on /\ loop'.kind = "foreach" /\ loop'.tab = t /\ loop'.at = 1
        /\ loop'.due = own /\ loop'.done = {} /\ ~loop'.twice
    BY <1>2, <2>1
  <2>3. \A k \in own : \E i \in Cells(kvs[t], k) : 1 <= i
    BY <1>1, <1>o, CellTypes DEF Own, Has
  <2>4. Walking(kvs[loop.tab])'
    BY <2>2, <2>3 DEF Walking
  <2> QED
    BY <2>2, <2>4 DEF LibInv, LoopInv, LibTypeOK
<1>4. ASSUME NEW K \in SUBSET Keys, NEW w \in Seq(Keys), Begin("copy", t, K, w),
             \A k \in K : \E i \in DOMAIN w : w[i] = k,
             \A i, j \in DOMAIN w : w[i] = w[j] => i = j
      PROVE  LibInv'
  <2>1. /\ loop' \in Loops /\ kvs' = kvs /\ meta' = meta /\ index' = index
        /\ loop'.on /\ loop'.kind = "copy" /\ loop'.rest = w
        /\ loop'.due = K /\ loop'.done = {} /\ ~loop'.twice
    BY <1>2, <1>4
  <2>2. Copying'
    BY <2>1, <1>4 DEF Copying
  <2> QED
    BY <2>1, <2>2 DEF LibInv, LoopInv, LibTypeOK
<1>5. CASE pairs(t)
  BY <1>o, <1>4, <1>5, PairsCopy
<1>6. CASE ipairs(t)
  <2> DEFINE n == _sequential_until(t)
             w == [i \in 1 .. n |-> i]
  <2>1. n \in 0 .. MaxIndex /\ MaxIndex \in Nat
    BY <1>1, UntilIs, LibAssumption DEF LibInv
  <2>2. Begin("copy", t, 1 .. n, w)
    BY <1>6 DEF ipairs
  <2> HIDE DEF n
  <2>3. 1 .. n \in SUBSET Keys /\ w \in Seq(Keys) /\ DOMAIN w = 1 .. n
    BY <2>1 DEF Keys
  <2>4. \A i \in 1 .. n : w[i] = i
    OBVIOUS
  <2> HIDE DEF w
  <2> QED
    BY <2>2, <2>3, <2>4, <1>4
<1> QED
  BY <1>3, <1>5, <1>6

LEMMA NextKeepsInv == LibInv /\ [Next]_vars => LibInv'
<1> SUFFICES ASSUME LibInv, [Next]_vars PROVE LibInv'
  OBVIOUS
<1>1. ASSUME NEW t \in Tables, NEW k \in Keys, NEW v \in Values,
             set_tabvalue(t, k, v) \/ del_tabvalue(t, k) \/ iadd_tab(t, k)
             \/ add(t, v) \/ del(t, v)
      PROVE  LibInv'
  <2>1. PICK s \in Seq(KV_t) : Write(t, s) /\ Follows(kvs[t], s)
    BY <1>1, AssignmentWrites DEF LibInv
  <2> QED
    BY <2>1, WriteKeepsInv
<1>2. Keys # {} /\ Values # {} /\ Objects \subseteq Tables
  BY LibAssumption DEF Keys, Values, Tables
<1>3. CASE \E t \in Tables, k \in Keys :
             del_tabvalue(t, k) \/ iadd_tab(t, k) \/ \E v \in Values : set_tabvalue(t, k, v)
  BY <1>1, <1>2, <1>3
<1>4. CASE \E t \in Objects :
             foreach(t) \/ pairs(t) \/ ipairs(t) \/ \E v \in Values : add(t, v) \/ del(t, v)
  BY <1>1, <1>2, <1>4, BeginKeepsInv
<1>5. CASE \E c \in Classes : \E t \in Tables : setmetatable(t, c)
  BY <1>5 DEF setmetatable, LibInv, LibTypeOK, LoopInv, Walking, Copying
<1>6. CASE \E c \in Classes : \E d \in Classes : SetIndex(c, d)
  BY <1>6 DEF SetIndex, LibInv, LibTypeOK, LoopInv, Walking, Copying
<1>7. CASE ForeachStep
  BY <1>7, ForeachKeepsInv
<1>8. CASE CopyStep
  BY <1>8, CopyKeepsInv
<1>9. CASE End
  <2>1. loop' = NoLoop /\ kvs' = kvs /\ meta' = meta /\ index' = index /\ ~loop'.on
    BY <1>9 DEF End, NoLoop
  <2> QED
    BY <2>1 DEF LibInv, LibTypeOK, LoopInv
<1>10. CASE UNCHANGED vars
  BY <1>10 DEF vars, LibInv, LibTypeOK, LoopInv, Walking, Copying
<1> QED
  BY <1>3, <1>4, <1>5, <1>6, <1>7, <1>8, <1>9, <1>10 DEF Next

(***************************************************************************)
(* Theorems                                                                *)
(***************************************************************************)

\* The inductive invariant of lookups, arrays and loops: what every variable holds,
\* that no key occurs twice in a table, and where the keys that a loop still has to
\* visit, and those that it has visited, are (lua_table.c:90-146).
THEOREM LibInvAlways == Spec => []LibInv
<1>1. Init => LibInv
  BY InitInv
<1>2. LibInv /\ [Next]_vars => LibInv'
  BY NextKeepsInv
<1> QED
  BY <1>1, <1>2, PTL DEF Spec

LEMMA LoopsExactHere == LibInv => LoopsExact
<1> SUFFICES ASSUME LibInv, loop.on PROVE ~loop.twice /\ (AtEnd => loop.due = {})
  BY DEF LoopsExact
<1>1. loop \in Loops /\ LoopInv
  BY DEF LibInv, LibTypeOK, NoLoop
<1>2. loop.tab \in Tables /\ kvs[loop.tab] \in Seq(KV_t)
  BY <1>1 DEF LibInv, LibTypeOK, Loops, Tables
<1>3. ASSUME AtEnd, loop.kind = "foreach" PROVE loop.due = {}
  <2> DEFINE s == kvs[loop.tab]
  <2>1. loop.at > Len(s) /\ loop.at \in Nat /\ Walking(s)
    BY <1>1, <1>3 DEF AtEnd, LoopInv, Loops
  <2>2. Len(s) \in Nat /\ \A k : Cells(s, k) \subseteq 1 .. Len(s)
    BY <1>2, CellTypes
  <2> HIDE DEF s
  <2> QED
    BY <2>1, <2>2 DEF Walking
<1>4. ASSUME AtEnd, loop.kind = "copy" PROVE loop.due = {}
  <2>1. loop.rest = <<>> /\ Copying
    BY <1>1, <1>4 DEF AtEnd, LoopInv
  <2> QED
    BY <2>1 DEF Copying
<1> QED
  BY <1>1, <1>3, <1>4 DEF LoopInv, Loops

\* A loop visits every key that stays in the table exactly once, whatever its body
\* does with the table, for any number of tables, keys and pairs (lua_table.c:93,
\* 118, 133).
THEOREM LoopsAlwaysExact == Spec => []LoopsExact
BY LibInvAlways, LoopsExactHere, PTL

\* add appends to the array that a program sees, and del takes at most one element
\* out of it and keeps the others in order, with any holes, fields and inherited
\* elements (lua_table.c:43-84).
THEOREM ArrayAlwaysOrdered == Spec => ArrayOrder
<1>1. ASSUME LibInv, LibInv', NEW t \in Objects, NEW v \in Values
      PROVE  LET s == Items(t)
                 n == Len(s)
             IN
             /\ add(t, v) => SubSeq(Items(t)', 1, n + 1) = Append(s, v)
             /\ del(t, v) =>
                  \/ Items(t)' = s /\ \A i \in 1 .. n : s[i] # v
                  \/ \E i \in 1 .. n :
                       /\ SubSeq(Items(t)', 1, n - 1) = Without(s, i)
                       /\ s[1] = v => i = 1
                       /\ Parent(t) = Null => Len(Items(t)') = n - 1
  BY <1>1, AddAppends, DelTakesOne DEF LibInv
<1>2. LibInv /\ LibInv' =>
      [~loop.on => \A t \in Objects, v \in Values :
       LET s == Items(t)
           n == Len(s)
       IN
       /\ add(t, v) => SubSeq(Items(t)', 1, n + 1) = Append(s, v)
       /\ del(t, v) =>
            \/ Items(t)' = s /\ \A i \in 1 .. n : s[i] # v
            \/ \E i \in 1 .. n :
                 /\ SubSeq(Items(t)', 1, n - 1) = Without(s, i)
                 /\ s[1] = v => i = 1
                 /\ Parent(t) = Null => Len(Items(t)') = n - 1]_kvs
  BY <1>1
<1> QED
  BY <1>2, LibInvAlways, PTL DEF ArrayOrder

\* A compound assignment is seen through no other table than those that inherit
\* from the one assigned to, and only with its key (lua.c:548-574).
THEOREM WritesAlwaysBelow == Spec => WritesStayBelow
<1>1. LibInv /\ LibInv' =>
      [~loop.on => \A t \in Tables, k \in Keys :
       iadd_tab(t, k) =>
         \A u \in Tables, j \in Keys :
           get_tabvalue(u, j)' # get_tabvalue(u, j) => j = k /\ t \in Searched(u, k)]_kvs
  BY SumIsLocal DEF LibInv
<1> QED
  BY <1>1, LibInvAlways, PTL DEF WritesStayBelow

(***************************************************************************)
(* The recursion of get_tabvalue                                           *)
(***************************************************************************)

LEMMA InitEnds == Init => LibInv /\ Ends
<1> SUFFICES ASSUME Init, NEW t \in Tables PROVE Cardinality(Tables) \notin Chain(t)
  BY InitInv DEF Ends
<1>1. LibTypeOK /\ meta[t] = Null
  BY InitInv DEF LibInv, Init
<1>2. Ancestor(t)[1] = Null
  <2>1. Ancestor(t)[0] = t /\ Ancestor(t)[0 + 1] =
          IF Ancestor(t)[0] = Null THEN Null ELSE Parent(Ancestor(t)[0])
    BY <1>1, AncestorIs
  <2> QED
    BY <2>1, <1>1, NullIsNone DEF Parent
<1> DEFINE T == {n \in Nat : Ancestor(t)[n + 1] = Null}
<1>3. 0 \in T
  BY <1>2
<1>4. ASSUME NEW n \in Nat, n \in T PROVE n + 1 \in T
  BY <1>1, <1>4, AncestorIs
<1> HIDE DEF T
<1>5. Nat \subseteq T
  BY <1>3, <1>4, NatInd
<1>6. Cardinality(Tables) \in Nat \ {0}
  BY LibAssumption, FS_Union, FS_CardinalityType, FS_EmptySet DEF Tables
<1>7. Cardinality(Tables) - 1 \in Nat /\ (Cardinality(Tables) - 1) + 1 = Cardinality(Tables)
  BY <1>6
<1>8. Ancestor(t)[Cardinality(Tables)] = Null
  BY <1>5, <1>7 DEF T
<1> QED
  BY <1>8 DEF Chain

LEMMA NextEnds == LibInv /\ Ends /\ [Next]_vars => LibInv' /\ Ends'
<1> SUFFICES ASSUME LibInv, Ends, [Next]_vars PROVE Ends'
  BY NextKeepsInv
<1>1. LibTypeOK /\ LibTypeOK'
  BY NextKeepsInv DEF LibInv
<1>2. CASE UNCHANGED <<meta, index>>
  <2>1. \A t \in Tables : Chain(t)' = Chain(t)
    BY <1>1, <1>2, AncestorStays
  <2> QED
    BY <2>1 DEF Ends
<1>3. CASE ~ UNCHANGED <<meta, index>>
  <2>1. ASSUME NEW t, NEW s, Write(t, s) PROVE FALSE
    BY <2>1, <1>3 DEF Write
  <2>2. ASSUME NEW kind, NEW t, NEW K, NEW w, Begin(kind, t, K, w) PROVE FALSE
    BY <2>2, <1>3 DEF Begin
  <2>3. \A t, k, v : ~ (set_tabvalue(t, k, v) \/ del_tabvalue(t, k) \/ iadd_tab(t, k)
                        \/ add(t, v) \/ del(t, v))
    BY <1>3 DEF set_tabvalue, del_tabvalue, iadd_tab, add, del, Write
  <2>4. \A t : ~ (foreach(t) \/ pairs(t) \/ ipairs(t))
    BY <1>3 DEF foreach, pairs, ipairs, Begin
  <2>5. ~ (ForeachStep \/ CopyStep \/ End \/ UNCHANGED vars)
    BY <1>3 DEF ForeachStep, CopyStep, End, vars
  <2>6. \/ \E c \in Classes : \E t \in Tables : setmetatable(t, c)
        \/ \E c \in Classes : \E d \in Classes : SetIndex(c, d)
    BY <2>3, <2>4, <2>5 DEF Next
  <2> QED
    BY <2>6 DEF setmetatable, SetIndex
<1> QED
  BY <1>2, <1>3

\* The lookup as the code has it: the table's own pair, or else the same lookup in
\* the parent
LookupRule ==
  \A t \in Tables, k \in Keys :
    get_tabvalue(t, k) =
      IF Has(t, k) THEN Found(kvs[t], k)
      ELSE IF Parent(t) = Null THEN Null
      ELSE get_tabvalue(Parent(t), k)

LEMMA LookupHere == LibInv /\ Ends => LookupRule
<1> SUFFICES ASSUME LibInv, Ends, NEW t \in Tables, NEW k \in Keys
             PROVE  get_tabvalue(t, k) =
                      IF Has(t, k) THEN Found(kvs[t], k)
                      ELSE IF Parent(t) = Null THEN Null
                      ELSE get_tabvalue(Parent(t), k)
  BY DEF LookupRule
<1> DEFINE p == Parent(t)
           f == Ancestor(t)
           g == Ancestor(p)
           N == Cardinality(Tables)
<1>0. LibTypeOK /\ p \in Tables \cup {Null} /\ Null \notin Tables
  BY ParentType, NullIsNone DEF LibInv
<1>1. /\ f[0] = t /\ f[0 + 1] = p
      /\ \A n \in Nat : f[n + 1] = IF f[n] = Null THEN Null ELSE Parent(f[n])
  BY <1>0, AncestorIs
<1>2. 0 \in Chain(t) /\ Chain(t) \subseteq Nat /\ N \in Nat
  BY <1>0, ChainIs
<1>c. Chain(t) = {n \in 0 .. N : f[n] # Null} /\ Chain(p) = {n \in 0 .. N : g[n] # Null}
  BY DEF Chain
<1>h. /\ Hits(t, k) = {n \in Chain(t) : Cells(kvs[f[n]], k) # {}}
      /\ Hits(p, k) = {n \in Chain(p) : Cells(kvs[g[n]], k) # {}}
  BY DEF Hits, Has
<1>3. CASE Has(t, k)
  <2>1. 0 \in Hits(t, k)
    BY <1>1, <1>2, <1>3, <1>h DEF Has
  <2>2. PICK h \in Hits(t, k) : (\A n \in Hits(t, k) : h <= n)
                                /\ get_tabvalue(t, k) = Found(kvs[f[h]], k)
    BY <2>1, <1>0, GetIs
  <2>3. h = 0
    BY <2>1, <2>2, <1>2, <1>h
  <2> QED
    BY <2>2, <2>3, <1>1, <1>3
<1>4. CASE ~Has(t, k) /\ p = Null
  <2> DEFINE T == {n \in Nat : f[n + 1] = Null}
  <2>1. 0 \in T
    BY <1>1, <1>4
  <2>2. ASSUME NEW n \in Nat, n \in T PROVE n + 1 \in T
    <3> HIDE DEF f
    <3> QED
      BY <2>2, <1>1
  <2> HIDE DEF T
  <2>3. Nat \subseteq T
    BY <2>1, <2>2, NatInd
  <2>4. ASSUME NEW n \in Hits(t, k) PROVE FALSE
    <3>1. n \in Nat /\ f[n] # Null /\ Cells(kvs[f[n]], k) # {}
      BY <1>c, <1>h, <1>2
    <3>2. n # 0
      BY <3>1, <1>1, <1>4 DEF Has
    <3>3. n - 1 \in T /\ (n - 1) + 1 = n
      BY <3>1, <3>2, <2>3
    <3> QED
      BY <3>1, <3>3 DEF T
  <2>5. get_tabvalue(t, k) = Null
    BY <2>4, <1>0, GetIs
  <2> QED
    BY <2>5, <1>4
<1>5. CASE ~Has(t, k) /\ p # Null
  <2>p. p \in Tables
    BY <1>0, <1>5
  <2>1. g[0] = p /\ \A n \in Nat : g[n + 1] = IF g[n] = Null THEN Null ELSE Parent(g[n])
    BY <1>0, <2>p, AncestorIs
  <2>e. N \notin Chain(p)
    BY <2>p DEF Ends
  <2> HIDE DEF f, g, p, N
  <2> DEFINE T == {n \in Nat : f[n + 1] = g[n]}
  <2>2. 0 \in T
    BY <1>1, <2>1
  <2>3. ASSUME NEW n \in Nat, n \in T PROVE n + 1 \in T
    BY <2>1, <2>3, <1>1
  <2> HIDE DEF T
  <2>4. \A n \in Nat : f[n + 1] = g[n]
    BY <2>2, <2>3, NatInd DEF T
  <2>5. ASSUME NEW n \in Hits(p, k) PROVE n \in Nat /\ n + 1 \in Hits(t, k)
    <3>1. n \in 0 .. N /\ n # N /\ g[n] # Null /\ Cells(kvs[g[n]], k) # {}
      BY <1>c, <1>h, <2>e
    <3>2. n + 1 \in 0 .. N /\ f[n + 1] = g[n]
      BY <3>1, <2>4, <1>2
    <3> QED
      BY <3>1, <3>2, <1>c, <1>h
  <2>6. ASSUME NEW n \in Hits(t, k) PROVE n - 1 \in Hits(p, k) /\ n - 1 \in Nat /\ n \in Nat
    <3>1. n \in 0 .. N /\ f[n] # Null /\ Cells(kvs[f[n]], k) # {}
      BY <1>c, <1>h
    <3>2. n # 0
      BY <3>1, <1>1, <1>5 DEF Has
    <3>3. n - 1 \in 0 .. N /\ n - 1 \in Nat /\ (n - 1) + 1 = n
      BY <3>1, <3>2, <1>2
    <3>4. f[n] = g[n - 1]
      BY <3>3, <2>4
    <3> QED
      BY <3>1, <3>3, <3>4, <1>c, <1>h
  <2>7. CASE Hits(p, k) = {}
    <3>1. Hits(t, k) = {}
      BY <2>6, <2>7
    <3>2. get_tabvalue(t, k) = Null /\ get_tabvalue(p, k) = Null
      BY <3>1, <2>7, <2>p, <1>0, GetIs
    <3> QED
      BY <3>2, <1>5 DEF p
  <2>8. CASE Hits(p, k) # {}
    <3>1. PICK h \in Hits(p, k) : (\A n \in Hits(p, k) : h <= n)
                                  /\ get_tabvalue(p, k) = Found(kvs[g[h]], k)
      BY <2>8, <2>p, <1>0, GetIs DEF g
    <3>2. h \in Nat /\ h + 1 \in Hits(t, k)
      BY <2>5
    <3>3. PICK m \in Hits(t, k) : (\A n \in Hits(t, k) : m <= n)
                                  /\ get_tabvalue(t, k) = Found(kvs[f[m]], k)
      BY <3>2, <1>0, GetIs DEF f
    <3>4. m - 1 \in Hits(p, k) /\ m \in Nat
      BY <2>6
    <3>5. m = h + 1
      <4>1. m <= h + 1 /\ h <= m - 1
        BY <3>1, <3>2, <3>3, <3>4
      <4> QED
        BY <4>1, <3>2, <3>4
    <3>6. f[m] = g[h]
      BY <3>5, <3>2, <2>4
    <3> QED
      BY <3>1, <3>3, <3>6, <1>5 DEF p
  <2> QED
    BY <2>7, <2>8
<1> QED
  BY <1>3, <1>4, <1>5

\* As long as programs make no cycle of classes but a class that is its own __index,
\* a lookup is what the recursion of get_tabvalue computes: the own pair, or the
\* same lookup in the parent, which ends within as many calls as there are tables
\* (lua.c:255-287).
THEOREM LookupAlwaysRecursive == Spec => [](Ends /\ LookupRule)
<1>1. Init => LibInv /\ Ends
  BY InitEnds
<1>2. LibInv /\ Ends /\ [Next]_vars => LibInv' /\ Ends'
  BY NextEnds
<1>3. LibInv /\ Ends => LookupRule
  BY LookupHere
<1> QED
  BY <1>1, <1>2, <1>3, PTL DEF Spec
=============
