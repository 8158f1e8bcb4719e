--------------------------- MODULE RefHeapProofs ---------------------------
(***************************************************************************)
(* Proofs about RefHeap, for every number of tables, keys and variables.   *)
(***************************************************************************)
EXTENDS RefHeap, InductionLemmas, FiniteSetTheorems, SequenceTheorems, TLAPS

USE DEF Idle, Meta

(***************************************************************************)
(* Type correctness                                                        *)
(***************************************************************************)
LEMMA PendingType ==
  ASSUME NEW w \in Seq(WorkItems), NEW v \in Values
  PROVE  Pending(w, v) \in Seq(WorkItems)
  BY AppendProperties DEF Pending, WorkItems

LEMMA PushType ==
  ASSUME NEW w \in Seq(WorkItems), NEW o \in {"dec", "gcdec", "sweep"},
         NEW t \in Tables
  PROVE  Append(w, [op |-> o, tab |-> t]) \in Seq(WorkItems)
  BY AppendProperties DEF WorkItems

LEMMA RestType ==
  ASSUME work \in Seq(WorkItems), work # <<>>
  PROVE  /\ Top \in WorkItems /\ Len(work) \in DOMAIN work
         /\ Rest \in Seq(WorkItems)
  BY DEF Top, Rest

(***************************************************************************)
(* What add_to_gc does to the array _gc_to_visit: one entry is written, one *)
(* that was NUL or one behind the array; the entries before it are not NUL, *)
(* and those that the array grew by are.                                   *)
(***************************************************************************)
EntryWritten(q, p, n, v) ==
  /\ n \in DOMAIN p /\ n <= Len(q) + 1 /\ p[n] = v
  /\ DOMAIN q \subseteq DOMAIN p
  /\ n \in DOMAIN q => q[n] = Null
  /\ \A i \in DOMAIN q : i < n => q[i] # Null
  /\ \A i \in DOMAIN p : i # n => p[i] = IF i \in DOMAIN q THEN q[i] ELSE Null

LEMMA FirstNulIsFirst ==
  ASSUME NEW q \in Seq(Tables \cup {Null}), Nuls(q) # {}
  PROVE  FirstNul(q) \in Nuls(q) /\ \A j \in Nuls(q) : FirstNul(q) <= j
  <1>1. Nuls(q) \in SUBSET Nat
    BY DEF Nuls
  <1>2. \E i \in Nuls(q) : \A j \in Nuls(q) : i <= j
    BY <1>1, LeastElement
  <1> QED BY <1>2 DEF FirstNul

LEMMA DeferEntry ==
  ASSUME SizeAssumption, NEW q \in Seq(Tables \cup {Null}), NEW v \in Tables
  PROVE  /\ add_to_gc(q, v) \in Seq(Tables \cup {Null})
         /\ \E n \in Nat \ {0} : EntryWritten(q, add_to_gc(q, v), n, v)
  <1>1. CASE Nuls(q) # {}
    <2> DEFINE n == FirstNul(q)
               p == [q EXCEPT ![n] = v]
    <2>1. n \in DOMAIN q /\ q[n] = Null /\ \A j \in Nuls(q) : n <= j
      BY <1>1, FirstNulIsFirst DEF Nuls
    <2>2. add_to_gc(q, v) = p
      BY <1>1 DEF add_to_gc
    <2>3. p \in Seq(Tables \cup {Null}) /\ DOMAIN p = DOMAIN q
      BY <2>1, ExceptSeq
    <2>4. \A i \in DOMAIN q : i < n => q[i] # Null
      BY <2>1 DEF Nuls
    <2>5. n \in Nat \ {0} /\ n <= Len(q) + 1
      BY <2>1
    <2>6. EntryWritten(q, p, n, v)
      <3> HIDE DEF n
      <3> QED BY <2>1, <2>3, <2>4, <2>5 DEF EntryWritten
    <2> QED BY <2>2, <2>3, <2>5, <2>6
  <1>2. CASE Nuls(q) = {}
    <2> DEFINE n == Len(q) + 1
               d == Doubled(q)
               p == [d EXCEPT ![n] = v]
    <2>1. DoubledLen(q) \in Nat /\ n \in 1 .. DoubledLen(q) /\ n \in Nat \ {0}
      BY DEF DoubledLen, SizeAssumption
    <2>2. /\ DOMAIN d = 1 .. DoubledLen(q)
          /\ \A i \in DOMAIN d : d[i] = IF i \in DOMAIN q THEN q[i] ELSE Null
      BY DEF Doubled
    <2>3. d \in [1 .. DoubledLen(q) -> Tables \cup {Null}]
      BY DEF Doubled
    <2>4. p \in [1 .. DoubledLen(q) -> Tables \cup {Null}]
      BY <2>3
    <2>5. p \in Seq(Tables \cup {Null})
      <3> HIDE DEF p
      <3>1. \E m \in Nat : p \in [1 .. m -> Tables \cup {Null}]
        BY <2>1, <2>4
      <3> QED BY <3>1, SeqDef
    <2>6. add_to_gc(q, v) = p
      BY <1>2 DEF add_to_gc
    <2>7. DOMAIN q \subseteq DOMAIN p /\ n \notin DOMAIN q
      BY <2>1, <2>4
    <2>8. \A i \in DOMAIN q : q[i] # Null
      BY <1>2 DEF Nuls
    <2>9. EntryWritten(q, p, n, v)
      <3>1. n \in DOMAIN p /\ p[n] = v /\ \A i \in DOMAIN p : i # n => p[i] = d[i]
        BY <2>1, <2>2
      <3> QED BY <2>1, <2>2, <2>4, <2>7, <2>8, <3>1 DEF EntryWritten
    <2> QED BY <2>1, <2>5, <2>6, <2>9
  <1> QED BY <1>1, <1>2

LEMMA DeferType ==
  ASSUME NEW q \in Seq(Tables \cup {Null}), NEW v
  PROVE  add_to_gc(q, v) \in Seq(Tables \cup {Null})
  BY DeferEntry, SizeAssumption DEF add_to_gc

LEMMA IncrefType ==
  ASSUME SizeAssumption, TypeOK, NEW v, ~AtLimit(v)
  PROVE  Incref(rc, v) \in [Tables -> 0 .. RcMod - 1]
  BY DEF Incref, SizeAssumption, AtLimit, TypeOK

LEMMA LocTypes ==
  /\ Vars \subseteq Locs
  /\ \A t \in Tables, k \in Keys : <<t, k>> \in Locs /\ <<t, k>> \notin Vars
  /\ \A t \in Tables : <<t, Meta>> \in Locs /\ <<t, Meta>> \notin Vars
  /\ 0 \notin Keys
  BY VarsAssumption, SizeAssumption DEF Locs, Keys, VarsAssumption, SizeAssumption

\* The actions whose step leaves every typed variable but acc and cont alone.
Quick == \/ Literal \/ Discard \/ getmetatable \/ Call \/ ReturnNil \/ run_gc
         \/ \E c \in Vars : Read(c)
         \/ \E k \in Keys : get_tabvalue(k)
         \/ \E c \in Vars : \E keep \in BOOLEAN : del(c, keep)
         \/ \E c \in Vars : \E k \in Keys : ReturnField(c, k)

LEMMA QuickType ==
  ASSUME TypeOK, Quick
  PROVE  TypeOK'
  <1>1. CASE Literal \/ Discard \/ Call
    BY <1>1 DEF Literal, Discard, Call, Values, TypeOK
  <1>2. CASE ReturnNil \/ run_gc
    <2>1. cont' \in Conts
      BY <1>2 DEF ReturnNil, run_gc, Conts
    <2> QED BY <1>2, <2>1 DEF ReturnNil, run_gc, TypeOK
  <1>3. CASE getmetatable \/ (\E c \in Vars : Read(c)) \/ (\E k \in Keys : get_tabvalue(k))
    BY <1>3, LocTypes DEF getmetatable, Read, get_tabvalue, TypeOK
  <1>4. ASSUME NEW c \in Vars, NEW keep \in BOOLEAN, del(c, keep) PROVE TypeOK'
    <2>1. cont' \in DelConts /\ acc' \in Values
      BY <1>4 DEF del, Values, DelConts, TypeOK
    <2>2. cont' \in Conts
      BY <2>1 DEF Conts
    <2> QED BY <1>4, <2>1, <2>2 DEF del, TypeOK
  <1>5. ASSUME NEW c \in Vars, NEW k \in Keys, ReturnField(c, k) PROVE TypeOK'
    <2>1. cont' \in Conts /\ acc' \in Values
      BY <1>5, LocTypes DEF ReturnField, Conts, TypeOK
    <2> QED BY <1>5, <2>1 DEF ReturnField, TypeOK
  <1> QED BY <1>1, <1>2, <1>3, <1>4, <1>5 DEF Quick

LEMMA AbortType ==
  ASSUME TypeOK, NEW why \in {"limit", "dead", "noslot"}, Abort(why)
  PROVE  TypeOK'
  BY DEF TypeOK, Abort, Conts, DelConts

\* Statements of the program that change the heap.
LEMMA ProgramType ==
  ASSUME TypeOK, SizeAssumption
  PROVE  /\ make_table => TypeOK'
         /\ \A c \in Vars : set(c) => TypeOK'
         /\ \A t \in Tables, k \in Keys, v \in Values :
              StoreNew(t, k, v) => TypeOK'
         /\ \A c \in Vars : setmetatable(c) => TypeOK'
         /\ \A c \in Vars : Return(c) => TypeOK'
  <1>1. ASSUME make_table PROVE TypeOK'
    <2>1. CASE Abort("noslot")
      BY <2>1, AbortType
    <2>2. ASSUME NEW t \in free, rc' = [rc EXCEPT ![t] = 1], used' = used + 1,
                 mem' = [mem EXCEPT ![<<t, Meta>>] = Null], free' = free \ {t},
                 gc' = add_to_gc(gc, t), acc' = t,
                 UNCHANGED <<work, cont, inCall, status, leaked>>
          PROVE  TypeOK'
      <3>1. t \in Tables /\ 1 \in 0 .. RcMod - 1
        BY <2>2, SizeAssumption DEF TypeOK, SizeAssumption
      <3>2. gc' \in Seq(Tables \cup {Null}) /\ acc' \in Values
        BY <2>2, <3>1, DeferType DEF TypeOK, Values
      <3>3. mem' \in [Locs -> Values] /\ \A u \in Tables : mem'[<<u, Meta>>] # Num
        BY <2>2, <3>1, LocTypes, ValuesAssumption DEF TypeOK, Values, ValuesAssumption
      <3> QED BY <2>2, <3>1, <3>2, <3>3 DEF TypeOK
    <2> QED BY <1>1, <2>1, <2>2 DEF make_table
  <1>2. ASSUME NEW c \in Vars, set(c) PROVE TypeOK'
    <2>1. CASE AtLimit(acc)
      BY <1>2, <2>1, AbortType DEF set
    <2>2. CASE ~AtLimit(acc)
      <3>1. rc' \in [Tables -> 0 .. RcMod - 1]
        BY <1>2, <2>2, IncrefType DEF set
      <3>2. work' \in Seq(WorkItems)
        BY <1>2, <2>2, PendingType, LocTypes DEF set, TypeOK
      <3>3. mem' \in [Locs -> Values] /\ \A u \in Tables : mem'[<<u, Meta>>] # Num
        BY <1>2, <2>2, LocTypes DEF set, TypeOK
      <3> QED BY <1>2, <2>2, <3>1, <3>2, <3>3 DEF set, TypeOK, Values
    <2> QED BY <2>1, <2>2
  <1>3. ASSUME NEW t \in Tables, NEW k \in Keys, NEW v \in Values, StoreNew(t, k, v)
        PROVE  TypeOK'
    <2>1. CASE AtLimit(v)
      BY <1>3, <2>1, AbortType DEF StoreNew
    <2>2. CASE ~AtLimit(v)
      <3>1. rc' \in [Tables -> 0 .. RcMod - 1]
        BY <1>3, <2>2, IncrefType DEF StoreNew
      <3>2. mem' \in [Locs -> Values] /\ \A u \in Tables : mem'[<<u, Meta>>] # Num
        BY <1>3, <2>2, LocTypes DEF StoreNew, TypeOK
      <3> QED BY <1>3, <2>2, <3>1, <3>2 DEF StoreNew, TypeOK, Values
    <2> QED BY <2>1, <2>2
  <1>4. ASSUME NEW c \in Vars, setmetatable(c) PROVE TypeOK'
    <2>1. CASE AtLimit(acc)
      BY <1>4, <2>1, AbortType DEF setmetatable
    <2>2. CASE ~AtLimit(acc)
      <3>1. rc' \in [Tables -> 0 .. RcMod - 1]
        BY <1>4, <2>2, IncrefType DEF setmetatable
      <3>2. mem' \in [Locs -> Values] /\ \A u \in Tables : mem'[<<u, Meta>>] # Num
        BY <1>4, <2>2, LocTypes, ValuesAssumption
        DEF setmetatable, TypeOK, Values, ValuesAssumption
      <3>3. leaked' \in [Tables -> Nat]
        <4>1. leaked' = Incref(leaked, mem[<<mem[c], Meta>>])
          BY <1>4, <2>2 DEF setmetatable
        <4> QED BY <4>1 DEF TypeOK, Incref
      <3> QED BY <1>4, <2>2, <3>1, <3>2, <3>3 DEF setmetatable, TypeOK, Values
    <2> QED BY <2>1, <2>2
  <1>5. ASSUME NEW c \in Vars, Return(c) PROVE TypeOK'
    <2>1. CASE AtLimit(mem[c])
      BY <1>5, <2>1, AbortType DEF Return
    <2>2. CASE ~AtLimit(mem[c])
      <3>1. rc' \in [Tables -> 0 .. RcMod - 1]
        BY <1>5, <2>2, IncrefType DEF Return
      <3>2. gc' \in Seq(Tables \cup {Null})
        BY <1>5, <2>2, DeferType DEF Return, TypeOK
      <3>3. cont' \in Conts /\ acc' \in Values
        BY <1>5, <2>2, LocTypes DEF Return, TypeOK, Conts
      <3> QED BY <1>5, <2>2, <3>1, <3>2, <3>3 DEF Return, TypeOK
    <2> QED BY <2>1, <2>2
  <1> QED BY <1>1, <1>2, <1>3, <1>4, <1>5

\* The continuation of each kind of interrupted function.
LEMMA ContTypes ==
  ASSUME TypeOK
  PROVE  /\ cont.op = "del" => cont \in DelConts
         /\ cont.op = "gc" => cont \in [op : {"gc"}, at : Nat \ {0}]
         /\ cont.op = "store" =>
              cont \in [op : {"store"}, loc : Tables \X Keys, val : Values,
                        next : {Idle} \cup DelConts]
  BY DEF TypeOK, Conts, DelConts

LEMMA OverwriteType ==
  ASSUME TypeOK, NEW t \in Tables, NEW k \in Keys, NEW v \in Values,
         NEW next \in {Idle} \cup DelConts, Overwrite(t, k, v, next)
  PROVE  TypeOK'
  <1>1. work' \in Seq(WorkItems)
    BY PendingType, LocTypes DEF Overwrite, TypeOK
  <1>2. mem' \in [Locs -> Values] /\ \A u \in Tables : mem'[<<u, Meta>>] # Num
    BY LocTypes DEF Overwrite, TypeOK, Values
  <1>3. cont' \in Conts
    BY DEF Overwrite, Conts
  <1> QED BY <1>1, <1>2, <1>3 DEF Overwrite, TypeOK, Values

\* DelScan, with the continuation field by field.
LEMMA DelScanCases ==
  ASSUME TypeOK, DelScan
  PROVE  /\ cont \in DelConts /\ cont.want \in Keys
         /\ \/ /\ cont.last = 0
               /\ UNCHANGED <<free, used, rc, mem, gc, work, acc, inCall, status, leaked>>
               /\ cont' \in DelConts
               /\ cont'.tab = cont.tab /\ cont'.keep = cont.keep
               /\ cont'.last = cont.want /\ cont'.want = cont.want + 1
               /\ cont'.found \in {Null, mem[<<cont.tab, cont.want>>]}
            \/ \E next \in DelConts :
               /\ cont.last \in Keys
               /\ Overwrite(cont.tab, cont.last, mem[<<cont.tab, cont.want>>], next)
               /\ next.tab = cont.tab /\ next.keep = cont.keep
               /\ next.last = cont.want /\ next.want = cont.want + 1
               /\ next.found = cont.found
  <1> DEFINE val  == mem[<<cont.tab, cont.want>>]
             next == [cont EXCEPT !.last = cont.want, !.want = @ + 1]
             hit  == IF val = cont.item THEN val ELSE Null
  <1>1. cont \in DelConts /\ cont.want \in Keys
    BY ContTypes DEF DelScan, Resumes
  <1>2. val \in Values /\ hit \in Values
    BY <1>1, LocTypes DEF DelConts, TypeOK, Values
  <1>3. /\ next \in DelConts
        /\ next.tab = cont.tab /\ next.keep = cont.keep /\ next.found = cont.found
        /\ next.last = cont.want /\ next.want = cont.want + 1
    <2>1. cont.want + 1 \in Nat \ {0}
      BY <1>1 DEF DelConts
    <2> QED BY <1>1, <2>1 DEF DelConts
  <1>4. CASE cont.last = 0
    <2>1. /\ cont' = [next EXCEPT !.found = hit]
          /\ UNCHANGED <<free, used, rc, mem, gc, work, acc, inCall, status, leaked>>
      BY <1>4 DEF DelScan
    <2> HIDE DEF next, hit
    <2>2. /\ cont' \in DelConts /\ cont'.found = hit
          /\ cont'.tab = next.tab /\ cont'.keep = next.keep
          /\ cont'.last = next.last /\ cont'.want = next.want
      BY <1>2, <1>3, <2>1 DEF DelConts
    <2>3. hit \in {Null, val}
      BY DEF hit
    <2> QED BY <1>1, <1>3, <1>4, <2>1, <2>2, <2>3
  <1>5. CASE cont.last # 0
    <2>1. cont.last \in Keys
      BY <1>1, <1>5 DEF DelConts
    <2>2. Overwrite(cont.tab, cont.last, val, next)
      BY <1>5 DEF DelScan
    <2> HIDE DEF next
    <2> QED BY <1>1, <1>3, <2>1, <2>2
  <1> QED BY <1>4, <1>5

\* Steps inside the runtime
LEMMA RuntimeType ==
  ASSUME TypeOK, SizeAssumption
  PROVE  Step => TypeOK'
  <1>1. ASSUME DecStep PROVE TypeOK'
    <2>1. CASE Abort("dead")
      BY <2>1, AbortType
    <2>2. CASE ~(Top.op = "dec" /\ rc[Top.tab] = 0)
      <3>1. work \in Seq(WorkItems) /\ work # <<>>
        BY <1>1 DEF DecStep, TypeOK
      <3>2. Top \in WorkItems /\ Rest \in Seq(WorkItems)
        BY <3>1, RestType
      <3>3. work' \in Seq(WorkItems)
        <4>1. CASE Dec8(rc[Top.tab]) = 0
          BY <1>1, <2>2, <3>2, <4>1, PushType DEF DecStep, WorkItems
        <4>2. CASE Dec8(rc[Top.tab]) # 0
          BY <1>1, <2>2, <3>2, <4>2 DEF DecStep
        <4> QED BY <4>1, <4>2
      <3>4. rc' \in [Tables -> 0 .. RcMod - 1]
        <4>1. Top.tab \in Tables /\ rc' = [rc EXCEPT ![Top.tab] = Dec8(rc[Top.tab])]
          BY <1>1, <2>2, <3>2 DEF DecStep, WorkItems
        <4>2. Dec8(rc[Top.tab]) \in 0 .. RcMod - 1
          BY <4>1, SizeAssumption DEF Dec8, TypeOK, SizeAssumption
        <4> QED BY <4>1, <4>2 DEF TypeOK
      <3> QED BY <1>1, <2>2, <3>3, <3>4 DEF DecStep, TypeOK
    <2> QED BY <1>1, <2>1, <2>2 DEF DecStep
  <1>2. ASSUME SweepField PROVE TypeOK'
    <2>1. Top.tab \in Tables
      BY <1>2, RestType DEF SweepField, WorkItems, TypeOK
    <2>2. PICK k \in Keys : /\ work' = Pending(work, mem[<<Top.tab, k>>])
                            /\ mem' = [mem EXCEPT ![<<Top.tab, k>>] = Null]
      BY <1>2 DEF SweepField
    <2>3. work' \in Seq(WorkItems)
      BY <2>1, <2>2, PendingType, LocTypes DEF TypeOK
    <2>4. mem' \in [Locs -> Values] /\ \A u \in Tables : mem'[<<u, Meta>>] # Num
      BY <2>1, <2>2, LocTypes DEF TypeOK, Values
    <2> QED BY <1>2, <2>3, <2>4 DEF SweepField, TypeOK
  <1>3. ASSUME SweepFree PROVE TypeOK'
    <2>1. Top.tab \in Tables /\ Rest \in Seq(WorkItems)
      BY <1>3, RestType DEF SweepFree, WorkItems, TypeOK
    <2>2. work' \in Seq(WorkItems)
      BY <1>3, <2>1, PendingType, LocTypes DEF SweepFree, TypeOK
    <2>3. mem' \in [Locs -> Values] /\ \A u \in Tables : mem'[<<u, Meta>>] # Num
      BY <1>3, <2>1, LocTypes, ValuesAssumption
      DEF SweepFree, TypeOK, Values, ValuesAssumption
    <2> QED BY <1>3, <2>1, <2>2, <2>3 DEF SweepFree, TypeOK
  <1>4. ASSUME StoreStep PROVE TypeOK'
    <2>1. CASE AtLimit(cont.val)
      BY <1>4, <2>1, AbortType DEF StoreStep
    <2>2. CASE ~AtLimit(cont.val)
      <3>1. /\ cont.loc \in Tables \X Keys /\ cont.val \in Values
            /\ cont.next \in {Idle} \cup DelConts
        BY <1>4, ContTypes DEF StoreStep, Resumes
      <3>2. mem' \in [Locs -> Values] /\ \A u \in Tables : mem'[<<u, Meta>>] # Num
        <4>1. PICK t \in Tables, k \in Keys : cont.loc = <<t, k>>
          BY <3>1
        <4>2. mem' = [mem EXCEPT ![<<t, k>>] = cont.val]
          BY <1>4, <2>2, <4>1 DEF StoreStep
        <4> QED BY <3>1, <4>2, LocTypes DEF TypeOK
      <3>3. rc' \in [Tables -> 0 .. RcMod - 1]
        BY <1>4, <2>2, IncrefType DEF StoreStep
      <3>4. cont' \in Conts
        BY <1>4, <2>2, <3>1 DEF StoreStep, Conts
      <3> QED BY <1>4, <2>2, <3>2, <3>3, <3>4 DEF StoreStep, TypeOK
    <2> QED BY <2>1, <2>2
  <1>5. ASSUME DelScan PROVE TypeOK'
    <2>1. cont.tab \in Tables /\ mem[<<cont.tab, cont.want>>] \in Values
      BY <1>5, DelScanCases, LocTypes DEF DelConts, TypeOK
    <2>2. CASE cont' \in DelConts
      BY <1>5, <2>2, DelScanCases DEF TypeOK, Conts, Overwrite, DelConts
    <2>3. ASSUME NEW next \in DelConts, cont.last \in Keys,
                 Overwrite(cont.tab, cont.last, mem[<<cont.tab, cont.want>>], next)
          PROVE  TypeOK'
      BY <2>1, <2>3, OverwriteType
    <2> QED BY <1>5, <2>2, <2>3, DelScanCases
  <1>6. ASSUME DelLast PROVE TypeOK'
    <2>1. cont \in DelConts
      BY <1>6, ContTypes DEF DelLast, Resumes
    <2>2. mem' \in [Locs -> Values] /\ \A u \in Tables : mem'[<<u, Meta>>] # Num
      BY <1>6, <2>1, LocTypes DEF DelLast, DelConts, TypeOK, Values
    <2>3. gc' \in Seq(Tables \cup {Null})
      <3>1. gc' = gc \/ gc' = add_to_gc(gc, mem[<<cont.tab, cont.last>>])
        BY <1>6 DEF DelLast
      <3> QED BY <3>1, DeferType DEF TypeOK
    <2>4. acc' \in Values /\ cont' \in Conts
      BY <1>6, <2>1 DEF DelLast, DelConts, Values, Conts
    <2> QED BY <1>6, <2>2, <2>3, <2>4 DEF DelLast, TypeOK
  <1>7. ASSUME GcStep PROVE TypeOK'
    <2>1. cont \in [op : {"gc"}, at : Nat \ {0}]
      BY <1>7, ContTypes DEF GcStep, Resumes
    <2>2. CASE cont.at \in DOMAIN gc /\ gc[cont.at] # Null
      <3>1. gc[cont.at] \in Tables
        BY <2>2 DEF TypeOK
      <3>2. work' \in Seq(WorkItems)
        BY <1>7, <2>2, <3>1, PushType DEF GcStep, TypeOK
      <3>3. gc' \in Seq(Tables \cup {Null})
        <4>1. gc \in Seq(Tables \cup {Null}) /\ cont.at \in 1 .. Len(gc)
          BY <2>2 DEF TypeOK
        <4>2. gc' = [gc EXCEPT ![cont.at] = Null]
          BY <1>7, <2>2 DEF GcStep
        <4>3. [gc EXCEPT ![cont.at] = Null] \in Seq(Tables \cup {Null})
          BY <4>1, ExceptSeq, Null \in Tables \cup {Null}
        <4> QED BY <4>2, <4>3
      <3>4. cont' \in Conts
        BY <1>7, <2>1, <2>2 DEF GcStep, Conts
      <3> QED BY <1>7, <2>2, <3>2, <3>3, <3>4 DEF GcStep, TypeOK
    <2>3. CASE ~(cont.at \in DOMAIN gc /\ gc[cont.at] # Null)
      BY <1>7, <2>3 DEF GcStep, TypeOK, Conts
    <2> QED BY <2>2, <2>3
  <1>8. ASSUME LeaveStep PROVE TypeOK'
    <2>1. ASSUME NEW x \in Locals, work' = Pending(work, mem[x]),
                 mem' = [mem EXCEPT ![x] = Null], UNCHANGED <<cont, inCall>>
          PROVE  TypeOK'
      <3>1. x \in Vars
        BY VarsAssumption DEF VarsAssumption
      <3>2. work' \in Seq(WorkItems)
        BY <2>1, <3>1, PendingType, LocTypes DEF TypeOK
      <3>3. mem' \in [Locs -> Values] /\ \A u \in Tables : mem'[<<u, Meta>>] # Num
        BY <2>1, <3>1, LocTypes DEF TypeOK, Values
      <3> QED BY <1>8, <2>1, <3>2, <3>3 DEF LeaveStep, TypeOK
    <2>2. ASSUME cont' = Idle, inCall' = FALSE, UNCHANGED <<work, mem>>
          PROVE  TypeOK'
      BY <1>8, <2>2 DEF LeaveStep, TypeOK, Conts
    <2> QED BY <1>8, <2>1, <2>2 DEF LeaveStep
  <1> QED BY <1>1, <1>2, <1>3, <1>4, <1>5, <1>6, <1>7, <1>8 DEF Step

(***************************************************************************)
(* The entries of _gc_to_visit.  GcDense says that run_gc stops behind the  *)
(* last entry; that it has emptied the entries before it is GcEmptied.      *)
(***************************************************************************)
GcEmptied == cont.op = "gc" => \A i \in DOMAIN gc : i < cont.at => gc[i] = Null

GcArray == GcDense /\ GcEmptied

\* No entry stands behind one that is NUL.
Packed(q) == \A i \in Nuls(q) : \A j \in DOMAIN q : i < j => q[j] = Null

\* add_to_gc writes over the first entry that is NUL: nothing is left behind a hole.
LEMMA DeferPacked ==
  ASSUME SizeAssumption, NEW q \in Seq(Tables \cup {Null}), NEW v, Packed(q)
  PROVE  Packed(add_to_gc(q, v))
  <1>1. CASE v \notin Tables
    BY <1>1 DEF add_to_gc
  <1>2. CASE v \in Tables
    <2> DEFINE p == add_to_gc(q, v)
    <2>1. p \in Seq(Tables \cup {Null})
      BY <1>2, DeferEntry
    <2>2. PICK n \in Nat \ {0} : EntryWritten(q, p, n, v)
      BY <1>2, DeferEntry
    <2>3. SUFFICES ASSUME NEW i \in Nuls(p), NEW j \in DOMAIN p, i < j
                   PROVE  p[j] = Null
      BY DEF Packed
    <2> HIDE DEF p
    <2>4. i \in DOMAIN p /\ p[i] = Null /\ i \in Nat \ {0} /\ j \in Nat
      BY <2>1 DEF Nuls
    <2>5. i # n /\ p[i] = IF i \in DOMAIN q THEN q[i] ELSE Null
      BY <1>2, <2>2, <2>4, ValuesAssumption DEF EntryWritten, ValuesAssumption
    <2>6. ~(i < n)
      BY <2>2, <2>4, <2>5 DEF EntryWritten
    <2>7. j # n /\ p[j] = IF j \in DOMAIN q THEN q[j] ELSE Null
      BY <2>2, <2>3, <2>4, <2>5, <2>6 DEF EntryWritten
    <2>8. CASE j \notin DOMAIN q
      BY <2>7, <2>8
    <2>9. CASE j \in DOMAIN q
      <3>1. i \in Nuls(q)
        BY <2>3, <2>4, <2>5, <2>9 DEF Nuls
      <3> QED BY <2>3, <2>7, <2>9, <3>1 DEF Packed
    <2> QED BY <2>8, <2>9
  <1> QED BY <1>1, <1>2

\* Where run_gc stops, the array is empty.
LEMMA EmptyBehind ==
  ASSUME TypeOK, GcArray, cont \in [op : {"gc"}, at : Nat \ {0}],
         ~(cont.at \in DOMAIN gc /\ gc[cont.at] # Null)
  PROVE  \A i \in DOMAIN gc : gc[i] = Null
  <1>1. DOMAIN gc = 1 .. Len(gc) /\ Len(gc) \in Nat
    BY DEF TypeOK
  <1>2. \A i \in DOMAIN gc : i < cont.at => gc[i] = Null
    BY DEF GcArray, GcEmptied
  <1>3. CASE cont.at \notin DOMAIN gc
    BY <1>1, <1>2, <1>3
  <1>4. CASE cont.at \in DOMAIN gc /\ gc[cont.at] = Null
    <2>1. \A j \in DOMAIN gc : cont.at < j => gc[j] = Null
      BY <1>1, <1>4 DEF GcArray, GcDense, Nuls
    <2> QED BY <1>1, <1>2, <1>4, <2>1
  <1> QED BY <1>3, <1>4

LEMMA GcArrayStep ==
  ASSUME TypeOK, GcArray, SizeAssumption, [CarefulNext]_vars
  PROVE  GcArray'
  <1> DEFINE Grows(v) == /\ cont.op # "gc" /\ cont'.op # "gc"
                         /\ gc' = gc \/ gc' = add_to_gc(gc, v)
  <1>1. ASSUME NEW v, Grows(v) PROVE GcArray'
    <2>1. Packed(gc) /\ gc \in Seq(Tables \cup {Null})
      BY <1>1 DEF GcArray, GcDense, Packed, TypeOK
    <2>2. Packed(gc')
      BY <1>1, <2>1, DeferPacked
    <2> QED BY <1>1, <2>2 DEF GcArray, GcDense, GcEmptied, Packed
  <1>2. ASSUME UNCHANGED <<gc, cont>> PROVE GcArray'
    BY <1>2 DEF GcArray, GcDense, GcEmptied, Nuls
  <1>3. ASSUME run_gc PROVE GcArray'
    <2>1. Packed(gc) /\ \A i \in DOMAIN gc : ~(i < 1)
      BY <1>3 DEF run_gc, Ready, Quiet, GcArray, GcDense, Packed, TypeOK
    <2> QED BY <1>3, <2>1 DEF run_gc, GcArray, GcDense, GcEmptied, Packed, Nuls
  <1>4. ASSUME GcStep PROVE GcArray'
    <2>1. cont \in [op : {"gc"}, at : Nat \ {0}]
      BY <1>4, ContTypes DEF GcStep, Resumes
    <2>2. CASE cont.at \in DOMAIN gc /\ gc[cont.at] # Null
      <3>1. /\ gc' = [gc EXCEPT ![cont.at] = Null]
            /\ cont' = [cont EXCEPT !.at = cont.at + 1]
        BY <1>4, <2>2 DEF GcStep
      <3>2. cont'.op = "gc" /\ cont'.at = cont.at + 1
        BY <2>1, <3>1
      <3>3. /\ DOMAIN gc' = DOMAIN gc /\ DOMAIN gc \subseteq Nat
            /\ \A i \in DOMAIN gc : gc'[i] = IF i = cont.at THEN Null ELSE gc[i]
        BY <3>1 DEF TypeOK
      <3>4. GcEmptied'
        BY <2>1, <3>2, <3>3 DEF GcArray, GcEmptied
      <3>5. GcDense'
        BY <2>1, <3>2, <3>3 DEF GcArray, GcDense, Nuls
      <3> QED BY <3>4, <3>5 DEF GcArray
    <2>3. CASE ~(cont.at \in DOMAIN gc /\ gc[cont.at] # Null)
      <3>1. gc' = gc /\ cont' = Idle
        BY <1>4, <2>3 DEF GcStep
      <3>2. \A i \in DOMAIN gc : gc[i] = Null
        BY <2>1, <2>3, EmptyBehind
      <3> QED BY <3>1, <3>2 DEF GcArray, GcDense, GcEmptied, Nuls
    <2> QED BY <2>2, <2>3
  <1>5. ASSUME make_table PROVE GcArray'
    <2>1. CASE UNCHANGED <<gc, cont>>
      BY <1>2, <2>1
    <2>2. ASSUME NEW t \in free, gc' = add_to_gc(gc, t), UNCHANGED cont PROVE GcArray'
      <3>1. Grows(t)
        BY <1>5, <2>2 DEF make_table, Ready, Quiet
      <3> QED BY <1>1, <3>1
    <2> QED BY <1>5, <2>1, <2>2 DEF make_table, Abort
  <1>6. ASSUME NEW c \in Vars, Return(c) PROVE GcArray'
    <2>1. CASE AtLimit(mem[c])
      BY <1>2, <1>6, <2>1 DEF Return, Abort
    <2>2. CASE ~AtLimit(mem[c])
      <3>1. gc' = add_to_gc(gc, mem[c]) /\ cont = Idle /\ cont' = [op |-> "leave"]
        BY <1>6, <2>2 DEF Return, Ready, Quiet
      <3>2. Grows(mem[c])
        BY <3>1
      <3> QED BY <1>1, <3>2
    <2> QED BY <2>1, <2>2
  <1>7. ASSUME DelLast PROVE GcArray'
    <2>1. Grows(mem[<<cont.tab, cont.last>>])
      BY <1>7 DEF DelLast, Resumes
    <2> QED BY <1>1, <2>1
  <1>8. ASSUME cont.op # "gc", cont'.op # "gc", UNCHANGED gc PROVE GcArray'
    BY <1>8 DEF GcArray, GcDense, GcEmptied, Nuls
  <1>9. CASE Operation
    <2>1. CASE Literal \/ Discard \/ getmetatable \/ Call \/ \E k \in Keys : get_tabvalue(k)
      BY <2>1, <1>2 DEF Literal, Discard, getmetatable, Call, get_tabvalue
    <2>2. ASSUME NEW c \in Vars, Read(c) \/ set(c) \/ add(c) \/ setmetatable(c)
          PROVE  GcArray'
      BY <2>2, <1>2 DEF Read, set, add, setmetatable, StoreNew, Abort
    <2>3. CASE ReturnNil \/ \E c \in Vars : del(c, FALSE)
      BY <2>3, <1>8 DEF ReturnNil, del, Ready, Quiet
    <2> QED BY <1>9, <1>3, <1>5, <1>6, <2>1, <2>2, <2>3 DEF Operation
  <1>10. CASE Step
    <2>1. CASE StoreStep
      BY <2>1, <1>2, <1>8, ContTypes DEF StoreStep, Resumes, Abort, DelConts
    <2>2. CASE DelScan
      <3>1. cont.op = "del" /\ cont'.op \in {"del", "store"} /\ gc' = gc
        BY <2>2, DelScanCases DEF Overwrite, DelConts
      <3> QED BY <1>8, <3>1
    <2>3. CASE LeaveStep
      BY <2>3, <1>8 DEF LeaveStep, Resumes
    <2> QED BY <1>10, <1>2, <1>4, <1>7, <2>1, <2>2, <2>3
            DEF Step, DecStep, SweepField, SweepFree, Abort
  <1>11. ASSUME NEW c \in Vars, CarefulDel(c) \/ \E k \in Keys : CarefulReturn(c, k)
         PROVE  GcArray'
    <2>1. CASE CarefulDel(c)
      BY <2>1, <1>8 DEF CarefulDel, del, Ready, Quiet
    <2>2. ASSUME NEW k \in Keys, CarefulReturn(c, k) PROVE GcArray'
      BY <2>2, <1>8 DEF CarefulReturn, ReturnField, Ready, Quiet
    <2> QED BY <1>11, <2>1, <2>2
  <1>12. ASSUME NEW c \in Vars, NEW k \in Keys, CarefulSet(c, k) PROVE GcArray'
    BY <1>12, <1>2, <1>8
    DEF CarefulSet, set_tabvalue, StoreNew, Overwrite, Abort, Ready, Quiet, vars
  <1> QED BY <1>2, <1>9, <1>10, <1>11, <1>12 DEF CarefulNext, Stopped, vars

(***************************************************************************)
(* Every variable has its type, and the array of run_gc its shape          *)
(***************************************************************************)
TypeInv == TypeOK /\ GcArray

LEMMA TypeInit == Init => TypeInv
  <1>1. ASSUME Init PROVE TypeOK
    <2>1. free \subseteq Tables /\ used \in Int /\ cont \in Conts /\ acc \in Values
      BY <1>1 DEF Init, Conts, Values
    <2>2. rc \in [Tables -> 0 .. RcMod - 1] /\ leaked \in [Tables -> Nat]
      BY <1>1, SizeAssumption DEF Init, SizeAssumption
    <2>3. mem \in [Locs -> Values] /\ \A t \in Tables : mem[<<t, Meta>>] # Num
      BY <1>1, LocTypes, ValuesAssumption DEF Init, Values, ValuesAssumption
    <2>4. gc \in Seq(Tables \cup {Null}) /\ work \in Seq(WorkItems)
      BY <1>1, EmptySeq DEF Init
    <2> QED BY <1>1, <2>1, <2>2, <2>3, <2>4 DEF Init, TypeOK
  <1>2. ASSUME Init PROVE GcArray
    BY <1>2 DEF Init, GcArray, GcDense, GcEmptied, Nuls
  <1> QED BY <1>1, <1>2 DEF TypeInv

LEMMA TypeStep ==
  ASSUME TypeInv, [CarefulNext]_vars
  PROVE  TypeInv'
  <1>0. TypeOK /\ GcArray /\ SizeAssumption
    BY SizeAssumption DEF TypeInv
  <1> SUFFICES TypeOK'
    BY <1>0, GcArrayStep DEF TypeInv
  <1>1. CASE UNCHANGED vars
    BY <1>0, <1>1 DEF TypeOK, vars
  <1>2. CASE Operation
    <2>1. CASE Quick
      BY <1>0, <2>1, QuickType
    <2>2. ASSUME NEW c \in Vars, add(c) PROVE TypeOK'
      BY <1>0, <2>2, ProgramType DEF add, TypeOK
    <2> QED BY <1>0, <1>2, <2>1, <2>2, ProgramType DEF Operation, Quick
  <1>3. CASE Step
    BY <1>0, <1>3, RuntimeType
  <1>4. ASSUME NEW c \in Vars, CarefulDel(c) PROVE TypeOK'
    BY <1>0, <1>4, QuickType DEF CarefulDel, Quick
  <1>6. ASSUME NEW c \in Vars, NEW k \in Keys, CarefulReturn(c, k) PROVE TypeOK'
    BY <1>0, <1>6, QuickType DEF CarefulReturn, Quick
  <1>5. ASSUME NEW c \in Vars, NEW k \in Keys, CarefulSet(c, k) PROVE TypeOK'
    <2>1. mem[c] \in Tables /\ acc \in Values
      BY <1>0, <1>5 DEF CarefulSet, set_tabvalue, TypeOK
    <2>2. CASE StoreNew(mem[c], k, acc)
      BY <1>0, <2>1, <2>2, ProgramType
    <2>3. CASE Overwrite(mem[c], k, acc, Idle)
      BY <1>0, <2>1, <2>3, OverwriteType
    <2> QED BY <1>1, <1>5, <2>2, <2>3 DEF CarefulSet, set_tabvalue
  <1> QED BY <1>1, <1>2, <1>3, <1>4, <1>5, <1>6 DEF CarefulNext, Stopped

\* Every variable of the model keeps its type: in particular a refcount stays in
\* the range of its C type.
THEOREM TypeCorrect == CarefulSpec => []TypeOK
  <1>1. TypeInv /\ [CarefulNext]_vars => TypeInv'
    BY TypeStep
  <1>2. TypeInv => TypeOK
    BY DEF TypeInv
  <1> QED BY TypeInit, <1>1, <1>2, PTL DEF CarefulSpec

\* add_to_gc takes the first entry of _gc_to_visit that is NUL, or the one behind
\* the array it doubles, and run_gc empties the array from its start: no entry
\* stands behind a hole, in an array of any length (lua.c:679-720).
THEOREM GcAlwaysDense == CarefulSpec => []GcDense
  <1>1. TypeInv /\ [CarefulNext]_vars => TypeInv'
    BY TypeStep
  <1>2. TypeInv => GcDense
    BY DEF TypeInv, GcArray
  <1> QED BY TypeInit, <1>1, <1>2, PTL DEF CarefulSpec

\* run_gc stops at the first entry that is NUL, and yet releases every entry: when it
\* ends there is none left, in an array of any length.
THEOREM GcAlwaysEmptied == CarefulSpec => GcLeavesNothing
  <1>1. TypeInv /\ [CarefulNext]_vars => TypeInv'
    BY TypeStep
  <1>2. TypeInv /\ [CarefulNext]_vars
          => [cont.op = "gc" /\ cont' = Idle => \A i \in DOMAIN gc' : gc'[i] = Null]_vars
    <2> SUFFICES ASSUME TypeInv, CarefulNext, cont.op = "gc", cont' = Idle
                 PROVE  \A i \in DOMAIN gc' : gc'[i] = Null
      BY DEF vars
    <2>1. cont # Idle /\ ~Ready
      BY DEF Ready, Quiet
    <2>2. GcStep
      <3>1. ~Operation
        BY <2>1 DEF Operation, make_table, Literal, Discard, getmetatable, Read, set, add,
                    setmetatable, Return, get_tabvalue, Call, ReturnNil, run_gc, del
      <3>2. ~\E c \in Vars : \/ CarefulDel(c)
                            \/ \E k \in Keys : CarefulSet(c, k) \/ CarefulReturn(c, k)
        BY <2>1 DEF CarefulDel, CarefulSet, CarefulReturn, del, set_tabvalue, ReturnField
      <3>3. Step
        BY <2>1, <3>1, <3>2 DEF CarefulNext, Stopped, vars
      <3> QED BY <2>1, <3>3 DEF Step, DecStep, SweepField, SweepFree, StoreStep, DelScan,
                                DelLast, LeaveStep, Resumes, Abort
    <2>3. cont \in [op : {"gc"}, at : Nat \ {0}]
      BY <2>2, ContTypes DEF TypeInv, GcStep, Resumes
    <2>4. ~(cont.at \in DOMAIN gc /\ gc[cont.at] # Null)
      <3> SUFFICES ASSUME cont.at \in DOMAIN gc /\ gc[cont.at] # Null PROVE FALSE
        OBVIOUS
      <3>1. cont' = [cont EXCEPT !.at = @ + 1]
        BY <2>2 DEF GcStep
      <3>2. cont'.op = "gc"
        BY <2>3, <3>1
      <3> QED BY <3>2
    <2>5. gc' = gc
      BY <2>2, <2>4 DEF GcStep
    <2> QED BY <2>3, <2>4, <2>5, EmptyBehind DEF TypeInv
  <1> QED BY TypeInit, <1>1, <1>2, PTL DEF CarefulSpec, GcLeavesNothing

(***************************************************************************)
(* Counting references                                                     *)
(***************************************************************************)
Is(x, t) == IF x = t THEN 1 ELSE 0

Where(S, f, t) == {x \in S : f[x] = t}

\* Writing one place of a finite set of places.
LEMMA CountWrite ==
  ASSUME NEW S, NEW f, NEW g, NEW a, NEW t, IsFiniteSet(S), a \in S,
         \A x \in S \ {a} : g[x] = f[x]
  PROVE  Cardinality(Where(S, g, t))
           = Cardinality(Where(S, f, t)) - Is(f[a], t) + Is(g[a], t)
  <1> DEFINE F == {x \in S : f[x] = t}
             G == {x \in S : g[x] = t}
             R == {x \in S \ {a} : f[x] = t}
  <1>1. IsFiniteSet(F) /\ IsFiniteSet(G) /\ IsFiniteSet(R)
    BY FS_Subset
  <1>2. F = IF f[a] = t THEN R \cup {a} ELSE R
    OBVIOUS
  <1>3. G = IF g[a] = t THEN R \cup {a} ELSE R
    OBVIOUS
  <1>4. a \notin R
    OBVIOUS
  <1>5. Cardinality(R \cup {a}) = Cardinality(R) + 1 /\ Cardinality(R) \in Nat
    BY <1>1, <1>4, FS_AddElement, FS_CardinalityType
  <1> HIDE DEF F, G, R
  <1>6. Cardinality(F) = Cardinality(R) + Is(f[a], t)
    BY <1>2, <1>5 DEF Is
  <1>7. Cardinality(G) = Cardinality(R) + Is(g[a], t)
    BY <1>3, <1>5 DEF Is
  <1>8. Is(f[a], t) \in Nat /\ Is(g[a], t) \in Nat
    BY DEF Is
  <1>9. Cardinality(F) \in Nat
    BY <1>5, <1>6, <1>8
  <1>10. Cardinality(G) = Cardinality(F) - Is(f[a], t) + Is(g[a], t)
    BY <1>5, <1>6, <1>7, <1>8
  <1> QED BY <1>10 DEF F, G, Where

LEMMA LocsFinite == IsFiniteSet(Locs)
  <1>1. IsFiniteSet(Tables) /\ IsFiniteSet(Keys \cup {Meta})
    <2>1. IsFiniteSet(Tables) /\ IsFiniteSet(Keys)
      BY SizeAssumption, FS_Interval DEF Tables, Keys, SizeAssumption
    <2>2. IsFiniteSet({Meta})
      BY FS_Singleton
    <2> QED BY <2>1, <2>2, FS_Union
  <1>2. IsFiniteSet(Tables \X (Keys \cup {Meta}))
    BY <1>1, FS_Product
  <1> QED BY <1>2, FS_Union, VarsAssumption DEF Locs, VarsAssumption

\* Places of values.
LEMMA LocCount ==
  ASSUME NEW t
  PROVE  IsFiniteSet(LocRefs(t)) /\ Cardinality(LocRefs(t)) \in Nat
  BY LocsFinite, FS_Subset, FS_CardinalityType DEF LocRefs

LEMMA LocRewritten ==
  ASSUME NEW l \in Locs, \A x \in Locs \ {l} : mem'[x] = mem[x], NEW t
  PROVE  Cardinality(LocRefs(t)')
           = Cardinality(LocRefs(t)) - Is(mem[l], t) + Is(mem'[l], t)
  <1>1. ASSUME NEW f, NEW g, NEW D, f = mem, g = mem', D = Locs
        PROVE  Cardinality(Where(Locs, mem', t))
                 = Cardinality(Where(Locs, mem, t)) - Is(mem[l], t) + Is(mem'[l], t)
    <2>1. IsFiniteSet(D) /\ l \in D /\ \A x \in D \ {l} : g[x] = f[x]
      BY <1>1, LocsFinite
    <2>2. Cardinality(Where(D, g, t))
            = Cardinality(Where(D, f, t)) - Is(f[l], t) + Is(g[l], t)
      BY <2>1, CountWrite
    <2> QED BY <1>1, <2>2
  <1>2. LocRefs(t) = Where(Locs, mem, t) /\ LocRefs(t)' = Where(Locs, mem', t)
    BY DEF LocRefs, Where
  <1> QED BY <1>1, <1>2

LEMMA LocWrite ==
  ASSUME TypeOK, NEW l \in Locs, NEW v, mem' = [mem EXCEPT ![l] = v], NEW t
  PROVE  Cardinality(LocRefs(t)')
           = Cardinality(LocRefs(t)) - Is(mem[l], t) + Is(v, t)
  <1>1. mem'[l] = v /\ \A x \in Locs \ {l} : mem'[x] = mem[x]
    BY DEF TypeOK
  <1>2. Cardinality(LocRefs(t)')
          = Cardinality(LocRefs(t)) - Is(mem[l], t) + Is(mem'[l], t)
    BY <1>1, LocRewritten
  <1> QED BY <1>1, <1>2

LEMMA LocErase ==
  ASSUME TypeOK, NEW l \in Locs, mem' = [mem EXCEPT ![l] = Null], NEW t \in Tables
  PROVE  Cardinality(LocRefs(t)') = Cardinality(LocRefs(t)) - Is(mem[l], t)
  <1>1. Cardinality(LocRefs(t)')
          = Cardinality(LocRefs(t)) - Is(mem[l], t) + Is(Null, t)
    BY LocWrite
  <1>2. Is(Null, t) = 0 /\ Is(mem[l], t) \in Nat
    BY ValuesAssumption DEF Is, ValuesAssumption
  <1> QED BY <1>1, <1>2, LocCount

\* Entries of _gc_to_visit.
LEMMA GcCount ==
  ASSUME TypeOK, NEW t
  PROVE  IsFiniteSet(GcRefs(t)) /\ Cardinality(GcRefs(t)) \in Nat
  <1>1. DOMAIN gc = 1 .. Len(gc) /\ Len(gc) \in Nat
    BY DEF TypeOK
  <1>2. IsFiniteSet(DOMAIN gc)
    BY <1>1, FS_Interval
  <1> QED BY <1>2, FS_Subset, FS_CardinalityType DEF GcRefs

LEMMA GcAppend ==
  ASSUME TypeOK, NEW v, gc' = add_to_gc(gc, v), NEW t \in Tables
  PROVE  Cardinality(GcRefs(t)') = Cardinality(GcRefs(t)) + Is(v, t)
  <1>1. CASE v \notin Tables
    <2>1. GcRefs(t)' = GcRefs(t)
      BY <1>1 DEF add_to_gc, GcRefs
    <2> QED BY <1>1, <2>1, GcCount DEF Is
  <1>2. CASE v \in Tables
    <2>1. PICK n \in Nat \ {0} : EntryWritten(gc, gc', n, v)
      BY <1>2, DeferEntry, SizeAssumption DEF TypeOK
    <2>2. GcRefs(t)' = IF v = t THEN GcRefs(t) \cup {n} ELSE GcRefs(t)
      BY <2>1, ValuesAssumption DEF GcRefs, EntryWritten, ValuesAssumption
    <2>3. n \notin GcRefs(t)
      BY <2>1, ValuesAssumption DEF GcRefs, EntryWritten, ValuesAssumption
    <2>4. Cardinality(GcRefs(t) \cup {n}) = Cardinality(GcRefs(t)) + 1
      BY <2>3, GcCount, FS_AddElement
    <2> QED BY <2>2, <2>4, GcCount DEF Is
  <1> QED BY <1>1, <1>2

LEMMA GcRewritten ==
  ASSUME TypeOK, NEW i \in DOMAIN gc, DOMAIN gc' = DOMAIN gc,
         \A x \in DOMAIN gc \ {i} : gc'[x] = gc[x], NEW t
  PROVE  Cardinality(GcRefs(t)')
           = Cardinality(GcRefs(t)) - Is(gc[i], t) + Is(gc'[i], t)
  <1>1. ASSUME NEW f, NEW g, NEW D, f = gc, g = gc', D = DOMAIN gc
        PROVE  Cardinality(Where(DOMAIN gc, gc', t))
                 = Cardinality(Where(DOMAIN gc, gc, t)) - Is(gc[i], t) + Is(gc'[i], t)
    <2>1. DOMAIN gc = 1 .. Len(gc) /\ Len(gc) \in Nat
      BY DEF TypeOK
    <2>2. IsFiniteSet(D)
      BY <1>1, <2>1, FS_Interval
    <2>3. Cardinality(Where(D, g, t))
            = Cardinality(Where(D, f, t)) - Is(f[i], t) + Is(g[i], t)
      BY <1>1, <2>2, CountWrite
    <2> QED BY <1>1, <2>3
  <1>2. GcRefs(t) = Where(DOMAIN gc, gc, t) /\ GcRefs(t)' = Where(DOMAIN gc, gc', t)
    BY DEF GcRefs, Where
  <1> QED BY <1>1, <1>2

LEMMA GcWrite ==
  ASSUME TypeOK, NEW i \in DOMAIN gc, gc' = [gc EXCEPT ![i] = Null], NEW t \in Tables
  PROVE  Cardinality(GcRefs(t)') = Cardinality(GcRefs(t)) - Is(gc[i], t)
  <1>1. /\ DOMAIN gc' = DOMAIN gc /\ gc'[i] = Null
        /\ \A j \in DOMAIN gc \ {i} : gc'[j] = gc[j]
    BY DEF TypeOK
  <1>2. Is(gc'[i], t) = 0 /\ Is(gc[i], t) \in Nat
    BY <1>1, ValuesAssumption DEF Is, ValuesAssumption
  <1>3. Cardinality(GcRefs(t)')
          = Cardinality(GcRefs(t)) - Is(gc[i], t) + Is(gc'[i], t)
    BY <1>1, GcRewritten
  <1> QED BY <1>2, <1>3, GcCount

\* Pending calls.
Callee(e) == IF e.op = "sweep" THEN Null ELSE e.tab
Calls(w, t) == {i \in DOMAIN w : w[i].op # "sweep" /\ w[i].tab = t}

LEMMA CallsCount ==
  ASSUME NEW w \in Seq(WorkItems), NEW t
  PROVE  IsFiniteSet(Calls(w, t)) /\ Cardinality(Calls(w, t)) \in Nat
  <1>1. IsFiniteSet(DOMAIN w)
    BY FS_Interval
  <1> QED BY <1>1, FS_Subset, FS_CardinalityType DEF Calls

LEMMA CallsPush ==
  ASSUME NEW w \in Seq(WorkItems), NEW e \in WorkItems, NEW t \in Tables
  PROVE  Cardinality(Calls(Append(w, e), t))
           = Cardinality(Calls(w, t)) + Is(Callee(e), t)
  <1> DEFINE n == Len(w) + 1
             a == Append(w, e)
  <1>1. /\ DOMAIN a = DOMAIN w \cup {n} /\ n \notin DOMAIN w
        /\ a[n] = e /\ \A i \in DOMAIN w : a[i] = w[i]
    BY AppendProperties
  <1> HIDE DEF a, n
  <1>2. Calls(a, t) = IF e.op # "sweep" /\ e.tab = t THEN Calls(w, t) \cup {n} ELSE Calls(w, t)
    BY <1>1 DEF Calls
  <1>5. e.op # "sweep" /\ e.tab = t <=> Callee(e) = t
    BY ValuesAssumption DEF Callee, ValuesAssumption
  <1>3. n \notin Calls(w, t)
    BY <1>1 DEF Calls
  <1>4. Cardinality(Calls(w, t) \cup {n}) = Cardinality(Calls(w, t)) + 1
    BY <1>3, CallsCount, FS_AddElement
  <1> QED BY <1>2, <1>4, <1>5, CallsCount DEF Is, a

LEMMA CallsPending ==
  ASSUME NEW w \in Seq(WorkItems), NEW v, NEW t \in Tables
  PROVE  Cardinality(Calls(Pending(w, v), t)) = Cardinality(Calls(w, t)) + Is(v, t)
  <1>1. CASE v \in Tables
    <2>1. [op |-> "dec", tab |-> v] \in WorkItems
      BY <1>1 DEF WorkItems
    <2>2. Cardinality(Calls(Append(w, [op |-> "dec", tab |-> v]), t))
            = Cardinality(Calls(w, t)) + Is(v, t)
      BY <2>1, CallsPush DEF Callee
    <2> QED BY <1>1, <2>2 DEF Pending
  <1>2. CASE v \notin Tables
    BY <1>2, CallsCount DEF Pending, Is
  <1> QED BY <1>1, <1>2

LEMMA WorkSplit ==
  ASSUME TypeOK, work # <<>>
  PROVE  /\ Top \in WorkItems /\ Rest \in Seq(WorkItems) /\ work = Append(Rest, Top)
         /\ \A t \in Tables : Cardinality(Calls(work, t))
                     = Cardinality(Calls(Rest, t)) + Is(Callee(Top), t)
  <1>1. Top \in WorkItems /\ Rest \in Seq(WorkItems)
    BY RestType DEF TypeOK
  <1>2. work = Append(Rest, Top)
    BY <1>1, AppendProperties DEF TypeOK, Top, Rest
  <1> QED BY <1>1, <1>2, CallsPush

(***************************************************************************)
(* What a step does to the heap.  Every action has one of the effects      *)
(* below; each moves a reference from one place to another, or adds one to *)
(* a place and to the count.                                               *)
(***************************************************************************)
Same == UNCHANGED <<free, used, rc, mem, gc, work, leaked>>

\* A new table, referenced by _gc_to_visit.
Alloc(t) ==
  /\ free' = free \ {t} /\ used' = used + 1
  /\ rc' = [rc EXCEPT ![t] = 1]
  /\ mem' = [mem EXCEPT ![<<t, Meta>>] = Null]
  /\ gc' = add_to_gc(gc, t)
  /\ UNCHANGED <<work, leaked>>

\* v is counted and stored in l, whose old value is to be released.
Write(l, v) ==
  /\ rc' = Incref(rc, v)
  /\ mem' = [mem EXCEPT ![l] = v]
  /\ work' = Pending(work, mem[l])
  /\ UNCHANGED <<free, used, gc, leaked>>

\* v is counted and stored in l, whose old value is forgotten.
Link(l, v) ==
  /\ rc' = Incref(rc, v)
  /\ mem' = [mem EXCEPT ![l] = v]
  /\ leaked' = Incref(leaked, mem[l])
  /\ UNCHANGED <<free, used, gc, work>>

\* The value of l is to be released, at once or by the next run_gc.
Release(l) ==
  /\ mem' = [mem EXCEPT ![l] = Null]
  /\ work' = Pending(work, mem[l])
  /\ UNCHANGED <<free, used, rc, gc, leaked>>

Defer(l) ==
  /\ mem' = [mem EXCEPT ![l] = Null]
  /\ gc' = add_to_gc(gc, mem[l])
  /\ UNCHANGED <<free, used, rc, work, leaked>>

\* v is counted, and is to be released by the next run_gc.
Mark(v) ==
  /\ rc' = Incref(rc, v)
  /\ gc' = add_to_gc(gc, v)
  /\ UNCHANGED <<free, used, mem, work, leaked>>

(***************************************************************************)
(* The inductive invariant                                                 *)
(***************************************************************************)

\* The slots being swept are different, have no references left, and are not
\* free yet.
SweepOk ==
  /\ \A i \in DOMAIN work :
       work[i].op = "sweep" => rc[work[i].tab] = 0 /\ work[i].tab \notin free
  /\ \A i, j \in DOMAIN work :
       work[i].op = "sweep" /\ work[j].op = "sweep" /\ work[i].tab = work[j].tab
         => i = j

\* The table del works on stays referenced by a variable, the element that it
\* moves comes after the one it overwrites, and what it returns is kept alive.
DelOk(d) ==
  /\ \E x \in Vars : mem[x] = d.tab
  /\ d.last < d.want
  /\ d.keep => Rooted(d.found)
  /\ d.keep /\ d.last = 0 => \A k \in Keys : Rooted(mem[<<d.tab, k>>])

\* While set_tabvalue releases the old value, the field is empty, the table is
\* referenced by a variable, and the new value by a variable, by _gc_to_visit or,
\* in del, by the field it is moved from.
StoreOk(s) ==
  /\ mem[s.loc] = Null
  /\ \E x \in Vars : mem[x] = s.loc[1]
  /\ s.next = Idle => Rooted(s.val)
  /\ s.next # Idle =>
       /\ DelOk(s.next)
       /\ s.next.tab = s.loc[1] /\ s.next.last \in Keys
       /\ mem[<<s.next.tab, s.next.last>>] = s.val

ContOk ==
  /\ cont.op = "del" => DelOk(cont)
  /\ cont.op = "store" => StoreOk(cont)

\* The value of the last expression is referenced by the place it was read from.
\* Across the end of a function that place is _gc_to_visit or a variable that is
\* not local to the function.
AccOk ==
  acc \in Tables =>
    \/ Quiet /\ \E l \in Locs : mem[l] = acc
    \/ (Quiet \/ cont.op = "leave") /\ \E i \in DOMAIN gc : gc[i] = acc
    \/ cont.op = "leave" /\ \E x \in Vars \ Locals : mem[x] = acc

HeapInv ==
  /\ TypeInv
  /\ RefcountExact /\ FreeIsBlank /\ UsedExact /\ NoLostTable
  /\ SweepOk /\ ContOk /\ AccOk /\ OnlyLimitAborts

\* A table that something refers to has a positive count: it is neither free nor
\* being swept.
LEMMA Referenced ==
  ASSUME TypeOK, RefcountExact, NEW t \in Tables,
         \/ \E l \in Locs : mem[l] = t
         \/ \E i \in DOMAIN gc : gc[i] = t
         \/ work # <<>> /\ Top.op # "sweep" /\ Top.tab = t
  PROVE  rc[t] \in Nat /\ rc[t] > 0
  <1>1. /\ Cardinality(LocRefs(t)) \in Nat /\ Cardinality(GcRefs(t)) \in Nat
        /\ Cardinality(WorkRefs(t)) \in Nat /\ leaked[t] \in Nat
    BY LocCount, GcCount, CallsCount DEF TypeOK, WorkRefs, Calls
  <1>2. rc[t] = Cardinality(LocRefs(t)) + Cardinality(GcRefs(t))
                  + Cardinality(WorkRefs(t)) + leaked[t]
    BY DEF RefcountExact
  <1>3. CASE \E l \in Locs : mem[l] = t
    <2>1. LocRefs(t) # {}
      BY <1>3 DEF LocRefs
    <2>2. Cardinality(LocRefs(t)) # 0
      BY <2>1, LocCount, FS_EmptySet
    <2> QED BY <1>1, <1>2, <2>2
  <1>4. CASE \E i \in DOMAIN gc : gc[i] = t
    <2>1. GcRefs(t) # {}
      BY <1>4 DEF GcRefs
    <2>2. Cardinality(GcRefs(t)) # 0
      BY <2>1, GcCount, FS_EmptySet
    <2> QED BY <1>1, <1>2, <2>2
  <1>5. CASE work # <<>> /\ Top.op # "sweep" /\ Top.tab = t
    <2>1. Len(work) \in WorkRefs(t) /\ IsFiniteSet(WorkRefs(t))
      BY <1>5, RestType, CallsCount DEF TypeOK, WorkRefs, Calls, Top
    <2>2. Cardinality(WorkRefs(t)) # 0
      BY <2>1, FS_EmptySet
    <2> QED BY <1>1, <1>2, <2>2
  <1> QED BY <1>3, <1>4, <1>5

Alive(v) == v \in Tables => rc[v] > 0
Lives(l) == l \in Vars \/ rc[l[1]] > 0       \* l is not a place of dead tables

LEMMA AccAlive ==
  ASSUME TypeOK, RefcountExact, AccOk
  PROVE  Alive(acc)
  BY Referenced, LocTypes DEF AccOk, Alive

LEMMA VarAlive ==
  ASSUME TypeOK, RefcountExact, NEW c \in Vars, NEW t \in Tables, mem[c] = t
  PROVE  rc[t] > 0
  BY Referenced, LocTypes

\* A value about to be stored is still referenced.
LEMMA StoreAlive ==
  ASSUME TypeOK, RefcountExact, ContOk, cont.op = "store"
  PROVE  Alive(cont.val)
  <1>1. StoreOk(cont)
    BY DEF ContOk
  <1>2. CASE cont.next = Idle
    BY <1>1, <1>2, Referenced, LocTypes DEF StoreOk, Rooted, Alive
  <1>3. CASE cont.next # Idle
    <2>1. cont.next \in DelConts
      BY <1>3, ContTypes
    <2>2. cont.next.tab \in Tables /\ cont.next.last \in Keys
      BY <1>1, <1>3, <2>1 DEF DelConts, StoreOk
    <2>3. mem[<<cont.next.tab, cont.next.last>>] = cont.val
      BY <1>1, <1>3 DEF StoreOk
    <2> QED BY <2>2, <2>3, Referenced, LocTypes DEF Alive
  <1> QED BY <1>2, <1>3

Effect ==
  \/ Same
  \/ \E t \in free : Alloc(t)
  \/ \E l \in Locs, v \in Values : Write(l, v) /\ Alive(v) /\ Lives(l)
  \/ \E t, v \in Tables : Link(<<t, Meta>>, v) /\ rc[t] > 0 /\ rc[v] > 0
  \/ \E l \in Locs : Release(l) \/ Defer(l)
  \/ \E v \in Values : Mark(v) /\ Alive(v)
  \/ DecStep \/ SweepFree \/ GcStep

\* The value mem[l] = Null of an empty field needs no release.
LEMMA PendingNull ==
  ASSUME NEW v, v \notin Tables
  PROVE  Pending(work, v) = work
  BY DEF Pending

LEMMA ProgramEffect ==
  ASSUME HeapInv, Operation
  PROVE  Effect
  <1>0. TypeOK /\ RefcountExact /\ AccOk /\ Alive(acc) /\ acc \in Values
    BY AccAlive DEF HeapInv, TypeInv, TypeOK
  <1>1. CASE Quick
    BY <1>1
    DEF Quick, Literal, Discard, getmetatable, Call, ReturnNil, run_gc, Read,
        get_tabvalue, del, ReturnField, Effect, Same
  <1>2. ASSUME make_table PROVE Effect
    <2>1. CASE Same
      BY <2>1 DEF Effect
    <2>2. CASE \E t \in free : Alloc(t)
      BY <2>2 DEF Effect
    <2> QED BY <1>2, <2>1, <2>2 DEF make_table, Abort, Same, Alloc
  <1>3. ASSUME NEW c \in Vars, set(c) PROVE Effect
    <2>1. CASE AtLimit(acc)
      BY <1>3, <2>1 DEF set, Abort, Effect, Same
    <2>2. CASE ~AtLimit(acc)
      <3>1. Write(c, acc)
        BY <1>3, <2>2 DEF set, Write
      <3> QED BY <1>0, <3>1, LocTypes DEF Effect, Lives
    <2> QED BY <2>1, <2>2
  <1>4. ASSUME NEW c \in Vars, add(c) PROVE Effect
    <2>1. PICK k \in Keys : StoreNew(mem[c], k, acc)
      BY <1>4 DEF add
    <2>2. mem[c] \in Tables /\ rc[mem[c]] > 0
      BY <1>0, <1>4, VarAlive DEF add
    <2>3. CASE AtLimit(acc)
      BY <2>1, <2>3 DEF StoreNew, Abort, Effect, Same
    <2>4. CASE ~AtLimit(acc)
      <3>1. Write(<<mem[c], k>>, acc)
        BY <2>1, <2>4, PendingNull, ValuesAssumption
        DEF StoreNew, Write, ValuesAssumption
      <3> QED BY <1>0, <2>2, <3>1, LocTypes DEF Effect, Lives
    <2> QED BY <2>3, <2>4
  <1>5. ASSUME NEW c \in Vars, setmetatable(c) PROVE Effect
    <2>1. mem[c] \in Tables /\ rc[mem[c]] > 0 /\ acc \in Tables /\ rc[acc] > 0
      BY <1>0, <1>5, VarAlive DEF setmetatable, Alive
    <2>2. CASE AtLimit(acc)
      BY <1>5, <2>2 DEF setmetatable, Abort, Effect, Same
    <2>3. CASE ~AtLimit(acc)
      <3>1. Link(<<mem[c], Meta>>, acc)
        BY <1>5, <2>3 DEF setmetatable, Link
      <3> QED BY <2>1, <3>1 DEF Effect
    <2> QED BY <2>2, <2>3
  <1>6. ASSUME NEW c \in Vars, Return(c) PROVE Effect
    <2>1. CASE AtLimit(mem[c])
      BY <1>6, <2>1 DEF Return, Abort, Effect, Same
    <2>2. CASE ~AtLimit(mem[c])
      <3>1. Mark(mem[c])
        BY <1>6, <2>2 DEF Return, Mark
      <3>2. mem[c] \in Values /\ Alive(mem[c])
        BY <1>0, VarAlive, LocTypes DEF Alive, TypeOK
      <3> QED BY <3>1, <3>2 DEF Effect
    <2> QED BY <2>1, <2>2
  <1> QED BY <1>1, <1>2, <1>3, <1>4, <1>5, <1>6 DEF Operation, Quick

LEMMA OverwriteEffect ==
  ASSUME NEW t \in Tables, NEW k \in Keys, NEW v, NEW next, Overwrite(t, k, v, next)
  PROVE  Release(<<t, k>>) /\ <<t, k>> \in Locs
  BY LocTypes DEF Overwrite, Release

LEMMA RuntimeEffect ==
  ASSUME HeapInv, Step
  PROVE  Effect
  <1>0. TypeOK /\ RefcountExact /\ ContOk
    BY DEF HeapInv, TypeInv
  <1>1. CASE DecStep \/ SweepFree \/ GcStep
    BY <1>1 DEF Effect
  <1>2. ASSUME SweepField PROVE Effect
    <2>1. Top.tab \in Tables
      BY <1>0, <1>2, RestType DEF SweepField, WorkItems, TypeOK
    <2>2. PICK k \in Keys : Release(<<Top.tab, k>>)
      BY <1>2 DEF SweepField, Release
    <2> QED BY <2>1, <2>2, LocTypes DEF Effect
  <1>3. ASSUME StoreStep PROVE Effect
    <2>1. CASE AtLimit(cont.val)
      BY <1>3, <2>1 DEF StoreStep, Abort, Effect, Same
    <2>2. CASE ~AtLimit(cont.val)
      <3>1. /\ cont.op = "store" /\ StoreOk(cont) /\ Alive(cont.val)
            /\ cont.loc \in Tables \X Keys /\ cont.val \in Values
        BY <1>0, <1>3, ContTypes, StoreAlive DEF StoreStep, Resumes, ContOk
      <3>2. Write(cont.loc, cont.val)
        BY <1>3, <2>2, <3>1, PendingNull, ValuesAssumption
        DEF StoreStep, Resumes, Write, StoreOk, ValuesAssumption
      <3>3. cont.loc \in Locs /\ cont.loc[1] \in Tables
        BY <3>1, LocTypes
      <3>4. rc[cont.loc[1]] > 0
        BY <1>0, <3>1, <3>3, VarAlive DEF StoreOk
      <3> QED BY <3>1, <3>2, <3>3, <3>4 DEF Effect, Lives
    <2> QED BY <2>1, <2>2
  <1>4. ASSUME DelScan PROVE Effect
    <2>1. cont.tab \in Tables
      BY <1>0, <1>4, DelScanCases DEF DelConts
    <2>2. CASE Same
      BY <2>2 DEF Effect
    <2>3. ASSUME NEW next, cont.last \in Keys,
                 Overwrite(cont.tab, cont.last, mem[<<cont.tab, cont.want>>], next)
          PROVE  Effect
      BY <2>1, <2>3, OverwriteEffect DEF Effect
    <2> QED BY <1>0, <1>4, <2>2, <2>3, DelScanCases DEF Same
  <1>5. ASSUME DelLast PROVE Effect
    <2>1. cont \in DelConts
      BY <1>0, <1>5, ContTypes DEF DelLast, Resumes
    <2>2. CASE cont.last = 0
      BY <1>5, <2>2 DEF DelLast, Effect, Same
    <2>3. CASE cont.last # 0
      <3>1. Defer(<<cont.tab, cont.last>>)
        BY <1>5, <2>3 DEF DelLast, Defer
      <3> QED BY <2>1, <2>3, <3>1, LocTypes DEF Effect, DelConts
    <2> QED BY <2>2, <2>3
  <1>6. ASSUME LeaveStep PROVE Effect
    <2>1. CASE Same
      BY <2>1 DEF Effect
    <2>2. ASSUME NEW x \in Locals, Release(x) PROVE Effect
      BY <2>2, VarsAssumption, LocTypes DEF Effect, VarsAssumption
    <2> QED BY <1>6, <2>1, <2>2 DEF LeaveStep, Same, Release
  <1> QED BY <1>1, <1>2, <1>3, <1>4, <1>5, <1>6 DEF Step

LEMMA NextEffect ==
  ASSUME HeapInv, [CarefulNext]_vars
  PROVE  Effect
  <1>0. TypeOK /\ RefcountExact /\ AccOk /\ Alive(acc) /\ acc \in Values
    BY AccAlive DEF HeapInv, TypeInv, TypeOK
  <1>1. CASE UNCHANGED vars \/ Stopped
    BY <1>1 DEF Stopped, vars, Effect, Same
  <1>2. ASSUME NEW c \in Vars, CarefulDel(c) \/ \E k \in Keys : CarefulReturn(c, k)
        PROVE  Effect
    BY <1>2 DEF CarefulDel, del, CarefulReturn, ReturnField, Effect, Same
  <1>3. ASSUME NEW c \in Vars, NEW k \in Keys, CarefulSet(c, k) PROVE Effect
    <2>1. mem[c] \in Tables /\ rc[mem[c]] > 0
      BY <1>0, <1>3, VarAlive DEF CarefulSet, set_tabvalue
    <2>2. CASE Same
      BY <2>2 DEF Effect
    <2>3. CASE Overwrite(mem[c], k, acc, Idle)
      BY <2>1, <2>3, OverwriteEffect DEF Effect
    <2>4. CASE StoreNew(mem[c], k, acc) /\ ~AtLimit(acc)
      <3>1. Write(<<mem[c], k>>, acc)
        BY <2>4, PendingNull, ValuesAssumption DEF StoreNew, Write, ValuesAssumption
      <3> QED BY <1>0, <2>1, <3>1, LocTypes DEF Effect, Lives
    <2> QED BY <1>3, <2>2, <2>3, <2>4
            DEF CarefulSet, set_tabvalue, StoreNew, Abort, Same, vars
  <1> QED BY <1>1, <1>2, <1>3, ProgramEffect, RuntimeEffect DEF CarefulNext

(***************************************************************************)
(* Every effect keeps the counts exact                                     *)
(***************************************************************************)
Total(t) == Cardinality(LocRefs(t)) + Cardinality(GcRefs(t))
              + Cardinality(Calls(work, t)) + leaked[t]

LEMMA ExactTotal == RefcountExact <=> \A t \in Tables : rc[t] = Total(t)
  BY DEF RefcountExact, Total, WorkRefs, Calls

LEMMA ExactTotalNext == RefcountExact' <=> \A t \in Tables : rc'[t] = Total(t)'
  BY DEF RefcountExact, Total, WorkRefs, Calls

LEMMA Summands ==
  ASSUME TypeOK, NEW t \in Tables
  PROVE  /\ Cardinality(LocRefs(t)) \in Nat /\ Cardinality(GcRefs(t)) \in Nat
         /\ Cardinality(Calls(work, t)) \in Nat /\ leaked[t] \in Nat /\ rc[t] \in Nat
  BY LocCount, GcCount, CallsCount, SizeAssumption DEF TypeOK, SizeAssumption

LEMMA IsType ==
  ASSUME NEW v, NEW t
  PROVE  Is(v, t) \in {0, 1} /\ (v # t => Is(v, t) = 0) /\ (v = t => Is(v, t) = 1)
  BY DEF Is

LEMMA IncrefCount ==
  ASSUME NEW f \in [Tables -> Nat], NEW v, NEW t \in Tables
  PROVE  Incref(f, v)[t] = f[t] + Is(v, t)
  BY DEF Incref, Is

LEMMA ExactStep ==
  ASSUME HeapInv, Effect, NEW t \in Tables
  PROVE  rc'[t] = Total(t)'
  <1>0. /\ TypeOK /\ rc \in [Tables -> Nat]
        /\ leaked \in [Tables -> Nat] /\ work \in Seq(WorkItems)
        /\ RefcountExact
    BY SizeAssumption DEF HeapInv, TypeInv, TypeOK, SizeAssumption
  <1>a. rc[t] = Cardinality(LocRefs(t)) + Cardinality(GcRefs(t))
                  + Cardinality(Calls(work, t)) + leaked[t]
    BY <1>0, ExactTotal DEF Total
  <1>b. /\ Cardinality(LocRefs(t)) \in Nat /\ Cardinality(GcRefs(t)) \in Nat
        /\ Cardinality(Calls(work, t)) \in Nat /\ leaked[t] \in Nat /\ rc[t] \in Nat
    BY <1>0, Summands
  <1> SUFFICES rc'[t] = Cardinality(LocRefs(t)') + Cardinality(GcRefs(t)')
                          + Cardinality(Calls(work', t)) + leaked'[t]
    BY DEF Total
  <1> DEFINE Goal == rc'[t] = Cardinality(LocRefs(t)') + Cardinality(GcRefs(t)')
                                + Cardinality(Calls(work', t)) + leaked'[t]
  <1>1. CASE Same
    <2>1. LocRefs(t)' = LocRefs(t) /\ GcRefs(t)' = GcRefs(t)
      BY <1>1 DEF Same, LocRefs, GcRefs
    <2> QED BY <1>0, <1>a, <1>b, <1>1, <2>1 DEF Same, Is
  <1>2. ASSUME NEW u \in free, Alloc(u) PROVE Goal
    <2>1. u \in Tables /\ rc[u] = 0 /\ mem[<<u, Meta>>] = Null
      BY <1>0 DEF TypeOK, HeapInv, FreeIsBlank
    <2>2. Cardinality(LocRefs(t)') = Cardinality(LocRefs(t))
      <3>1. <<u, Meta>> \in Locs /\ mem' = [mem EXCEPT ![<<u, Meta>>] = Null]
        BY <1>2, <2>1, LocTypes DEF Alloc
      <3>2. Cardinality(LocRefs(t)')
              = Cardinality(LocRefs(t)) - Is(mem[<<u, Meta>>], t)
        BY <1>0, <3>1, LocErase
      <3>3. Is(mem[<<u, Meta>>], t) = 0
        BY <2>1, ValuesAssumption DEF Is, ValuesAssumption
      <3> QED BY <1>b, <3>2, <3>3
    <2>3. Cardinality(GcRefs(t)') = Cardinality(GcRefs(t)) + Is(u, t)
      BY <1>0, <1>2, GcAppend DEF Alloc
    <2>4. rc'[t] = rc[t] + Is(u, t)
      BY <1>0, <1>2, <2>1 DEF Alloc, Is
    <2>5. work' = work /\ leaked' = leaked
      BY <1>2 DEF Alloc
    <2>6. Is(u, t) \in Nat
      BY DEF Is
    <2> QED BY <1>a, <1>b, <2>2, <2>3, <2>4, <2>5, <2>6
  <1>3. ASSUME NEW l \in Locs, NEW v \in Values, Write(l, v) PROVE Goal
    <2>1. Cardinality(LocRefs(t)') = Cardinality(LocRefs(t)) - Is(mem[l], t) + Is(v, t)
      BY <1>0, <1>3, LocWrite DEF Write
    <2>2. Cardinality(Calls(work', t)) = Cardinality(Calls(work, t)) + Is(mem[l], t)
      BY <1>0, <1>3, CallsPending DEF Write
    <2>3. rc'[t] = rc[t] + Is(v, t)
      BY <1>0, <1>3, IncrefCount DEF Write
    <2>4. GcRefs(t)' = GcRefs(t)
      BY <1>3 DEF Write, GcRefs
    <2> QED BY <1>0, <1>a, <1>b, <1>3, <2>1, <2>2, <2>3, <2>4 DEF Write, Is
  <1>4. ASSUME NEW l \in Locs, NEW v \in Tables, Link(l, v) PROVE Goal
    <2>1. Cardinality(LocRefs(t)') = Cardinality(LocRefs(t)) - Is(mem[l], t) + Is(v, t)
      BY <1>0, <1>4, LocWrite DEF Link
    <2>2. leaked'[t] = leaked[t] + Is(mem[l], t)
      BY <1>0, <1>4, IncrefCount DEF Link
    <2>3. rc'[t] = rc[t] + Is(v, t)
      BY <1>0, <1>4, IncrefCount DEF Link
    <2>4. GcRefs(t)' = GcRefs(t)
      BY <1>4 DEF Link, GcRefs
    <2> QED BY <1>0, <1>a, <1>b, <1>4, <2>1, <2>2, <2>3, <2>4 DEF Link, Is
  <1>5. ASSUME NEW l \in Locs, Release(l) \/ Defer(l) PROVE Goal
    <2>1. Cardinality(LocRefs(t)') = Cardinality(LocRefs(t)) - Is(mem[l], t)
      <3>1. mem' = [mem EXCEPT ![l] = Null]
        BY <1>5 DEF Release, Defer
      <3> QED BY <1>0, <3>1, LocErase
    <2>2. CASE Release(l)
      <3>1. Cardinality(Calls(work', t)) = Cardinality(Calls(work, t)) + Is(mem[l], t)
        BY <1>0, <2>2, CallsPending DEF Release
      <3>2. GcRefs(t)' = GcRefs(t)
        BY <2>2 DEF Release, GcRefs
      <3> QED BY <1>0, <1>a, <1>b, <2>1, <2>2, <3>1, <3>2 DEF Release, Is
    <2>3. CASE Defer(l)
      <3>1. Cardinality(GcRefs(t)') = Cardinality(GcRefs(t)) + Is(mem[l], t)
        BY <1>0, <2>3, GcAppend DEF Defer
      <3> QED BY <1>0, <1>a, <1>b, <2>1, <2>3, <3>1 DEF Defer, Is
    <2> QED BY <1>5, <2>2, <2>3
  <1>6. ASSUME NEW v \in Values, Mark(v) PROVE Goal
    <2>1. Cardinality(GcRefs(t)') = Cardinality(GcRefs(t)) + Is(v, t)
      BY <1>0, <1>6, GcAppend DEF Mark
    <2>2. rc'[t] = rc[t] + Is(v, t)
      BY <1>0, <1>6, IncrefCount DEF Mark
    <2>3. LocRefs(t)' = LocRefs(t)
      BY <1>6 DEF Mark, LocRefs
    <2> QED BY <1>0, <1>a, <1>b, <1>6, <2>1, <2>2, <2>3 DEF Mark, Is
  <1>7. ASSUME DecStep PROVE Goal
    <2>1. /\ work # <<>> /\ Top \in WorkItems /\ Rest \in Seq(WorkItems)
          /\ Top.op # "sweep" /\ Top.tab \in Tables
          /\ Cardinality(Calls(work, t)) = Cardinality(Calls(Rest, t)) + Is(Top.tab, t)
      BY <1>0, <1>7, WorkSplit DEF DecStep, WorkItems, Callee
    <2>2. rc[Top.tab] > 0 /\ rc[Top.tab] \in Nat
      BY <1>0, <2>1, Referenced DEF HeapInv
    <2>3. /\ rc' = [rc EXCEPT ![Top.tab] = rc[Top.tab] - 1]
          /\ work' = IF rc[Top.tab] - 1 = 0
                     THEN Append(Rest, [op |-> "sweep", tab |-> Top.tab]) ELSE Rest
          /\ UNCHANGED <<mem, gc, leaked>>
      BY <1>7, <2>2 DEF DecStep, Dec8
    <2>4. Cardinality(Calls(work', t)) = Cardinality(Calls(Rest, t))
      <3>1. [op |-> "sweep", tab |-> Top.tab] \in WorkItems
        BY <2>1 DEF WorkItems
      <3>2. Is(Callee([op |-> "sweep", tab |-> Top.tab]), t) = 0
        BY ValuesAssumption DEF Is, Callee, ValuesAssumption
      <3>3. Cardinality(Calls(Rest, t)) \in Nat
        BY <2>1, CallsCount
      <3>4. Cardinality(Calls(Append(Rest, [op |-> "sweep", tab |-> Top.tab]), t))
              = Cardinality(Calls(Rest, t)) + Is(Callee([op |-> "sweep", tab |-> Top.tab]), t)
        BY <2>1, <3>1, CallsPush
      <3> QED BY <2>3, <3>2, <3>3, <3>4
    <2>5. LocRefs(t)' = LocRefs(t) /\ GcRefs(t)' = GcRefs(t)
      BY <2>3 DEF LocRefs, GcRefs
    <2>6. rc'[t] = rc[t] - Is(Top.tab, t)
      BY <1>0, <1>b, <2>1, <2>2, <2>3 DEF Is
    <2>7. Cardinality(Calls(Rest, t)) \in Nat
      BY <2>1, CallsCount
    <2> QED BY <1>0, <1>a, <1>b, <2>1, <2>3, <2>4, <2>5, <2>6, <2>7 DEF Is
  <1>8. ASSUME SweepFree PROVE Goal
    <2> DEFINE l == <<Top.tab, Meta>>
    <2>1. /\ work # <<>> /\ Top \in WorkItems /\ Rest \in Seq(WorkItems)
          /\ Top.tab \in Tables
          /\ Cardinality(Calls(work, t)) = Cardinality(Calls(Rest, t))
      <3>1. Is(Callee(Top), t) = 0
        BY <1>8, ValuesAssumption DEF SweepFree, Is, Callee, ValuesAssumption
      <3>2. work # <<>> /\ Rest \in Seq(WorkItems) /\ Top \in WorkItems
        BY <1>0, <1>8, WorkSplit DEF SweepFree
      <3>3. Cardinality(Calls(Rest, t)) \in Nat
        BY <3>2, CallsCount
      <3> QED BY <1>0, <1>a, <1>b, <3>1, <3>2, <3>3, WorkSplit DEF WorkItems, Is
    <2>2. Cardinality(LocRefs(t)') = Cardinality(LocRefs(t)) - Is(mem[l], t)
      <3>1. l \in Locs /\ mem' = [mem EXCEPT ![l] = Null]
        BY <1>8, <2>1, LocTypes DEF SweepFree
      <3> HIDE DEF l
      <3> QED BY <1>0, <3>1, LocErase
    <2>3. Cardinality(Calls(work', t)) = Cardinality(Calls(Rest, t)) + Is(mem[l], t)
      BY <1>8, <2>1, CallsPending DEF SweepFree
    <2>4. GcRefs(t)' = GcRefs(t)
      BY <1>8 DEF SweepFree, GcRefs
    <2> HIDE DEF l
    <2> QED BY <1>0, <1>a, <1>b, <1>8, <2>1, <2>2, <2>3, <2>4 DEF SweepFree, Is
  <1>9. ASSUME GcStep PROVE Goal
    <2>2. LocRefs(t)' = LocRefs(t)
      BY <1>9 DEF GcStep, LocRefs
    <2>3. CASE cont.at \in DOMAIN gc /\ gc[cont.at] # Null
      <3>1. gc[cont.at] \in Tables
        BY <1>0, <2>3 DEF TypeOK
      <3>2. Cardinality(GcRefs(t)') = Cardinality(GcRefs(t)) - Is(gc[cont.at], t)
        BY <1>0, <1>9, <2>3, GcWrite DEF GcStep
      <3>3. Cardinality(Calls(work', t))
              = Cardinality(Calls(work, t)) + Is(gc[cont.at], t)
        <4>1. [op |-> "gcdec", tab |-> gc[cont.at]] \in WorkItems
          BY <3>1 DEF WorkItems
        <4>2. Callee([op |-> "gcdec", tab |-> gc[cont.at]]) = gc[cont.at]
          BY DEF Callee
        <4> QED BY <1>0, <1>9, <2>3, <4>1, <4>2, CallsPush DEF GcStep
      <3> QED BY <1>0, <1>a, <1>b, <1>9, <2>2, <3>2, <3>3 DEF GcStep, Is
    <2>4. CASE ~(cont.at \in DOMAIN gc /\ gc[cont.at] # Null)
      <3>1. gc' = gc /\ work' = work /\ rc' = rc /\ leaked' = leaked
        BY <1>9, <2>4 DEF GcStep
      <3>2. GcRefs(t)' = GcRefs(t)
        BY <3>1 DEF GcRefs
      <3> QED BY <1>0, <1>a, <1>b, <2>2, <3>1, <3>2
    <2> QED BY <2>3, <2>4
  <1> QED BY <1>1, <1>2, <1>3, <1>4, <1>5, <1>6, <1>7, <1>8, <1>9, LocTypes DEF Effect

(***************************************************************************)
(* Every effect keeps the slots in order                                   *)
(***************************************************************************)
SlotInv == FreeIsBlank /\ UsedExact /\ NoLostTable /\ SweepOk

\* Pushing a call that is no sweep leaves the sweeps as they are.
LEMMA SweepsKept ==
  ASSUME TypeOK, NEW e \in WorkItems, e.op # "sweep", work' = Append(work, e)
  PROVE  /\ \A i \in DOMAIN work' :
              work'[i].op = "sweep" => i \in DOMAIN work /\ work'[i] = work[i]
         /\ \A i \in DOMAIN work : i \in DOMAIN work' /\ work'[i] = work[i]
  BY AppendProperties DEF TypeOK

\* The steps that free no slot and start no sweep.
LEMMA SlotKept ==
  ASSUME TypeOK, SlotInv, UNCHANGED <<free, used>>,
         \/ work' = work
         \/ \E e \in WorkItems : e.op # "sweep" /\ work' = Append(work, e),
         \A t \in Tables : rc'[t] = rc[t] \/ (rc[t] > 0 /\ rc'[t] > 0),
         \A p \in free \X (Keys \cup {Meta}) : mem'[p] = mem[p] \/ mem'[p] = Null
  PROVE  SlotInv'
  <1>0. /\ free \subseteq Tables /\ work \in Seq(WorkItems)
        /\ FreeIsBlank /\ UsedExact /\ NoLostTable /\ SweepOk
    BY DEF TypeOK, SlotInv
  <1>1. /\ \A i \in DOMAIN work' :
             work'[i].op = "sweep" => i \in DOMAIN work /\ work'[i] = work[i]
        /\ \A i \in DOMAIN work : i \in DOMAIN work' /\ work'[i] = work[i]
    BY SweepsKept
  <1>2. \A i \in DOMAIN work : work[i].tab \in Tables
    <2> SUFFICES ASSUME NEW i \in DOMAIN work PROVE work[i].tab \in Tables
      OBVIOUS
    <2>1. work[i] \in WorkItems
      BY <1>0
    <2> QED BY <2>1 DEF WorkItems
  <1>3. FreeIsBlank'
    BY <1>0 DEF FreeIsBlank
  <1>4. UsedExact'
    BY <1>0 DEF UsedExact
  <1>5. NoLostTable'
    <2> SUFFICES ASSUME NEW t \in Tables \ free PROVE rc'[t] > 0 \/ t \in Swept'
      BY <1>0 DEF NoLostTable
    <2>1. CASE rc[t] > 0
      BY <2>1
    <2>2. CASE t \in Swept
      <3>1. PICK i \in DOMAIN work : work[i].op = "sweep" /\ work[i].tab = t
        BY <2>2 DEF Swept
      <3>2. i \in DOMAIN work' /\ work'[i].op = "sweep" /\ work'[i].tab = t
        BY <1>1, <3>1
      <3> QED BY <3>2 DEF Swept
    <2> QED BY <1>0, <2>1, <2>2 DEF NoLostTable
  <1>6. SweepOk'
    BY <1>0, <1>1, <1>2 DEF SweepOk
  <1> QED BY <1>3, <1>4, <1>5, <1>6 DEF SlotInv

\* The same, for the effects that count references.
LEMMA IncrefKeeps ==
  ASSUME TypeOK, NEW v, Alive(v), rc' = Incref(rc, v)
  PROVE  \A t \in Tables : rc'[t] = rc[t] \/ (rc[t] > 0 /\ rc'[t] > 0)
  BY SizeAssumption DEF TypeOK, Alive, Incref, SizeAssumption

LEMMA PendingKeeps ==
  ASSUME NEW v, work' = Pending(work, v)
  PROVE  \/ work' = work
         \/ \E e \in WorkItems : e.op # "sweep" /\ work' = Append(work, e)
  BY DEF Pending, WorkItems

\* A place of a table that is alive is not a place of a free slot.
LEMMA WriteKeeps ==
  ASSUME TypeOK, FreeIsBlank, NEW l \in Locs, NEW v, Lives(l) \/ v = Null,
         mem' = [mem EXCEPT ![l] = v]
  PROVE  \A p \in free \X (Keys \cup {Meta}) : mem'[p] = mem[p] \/ mem'[p] = Null
  <1>1. ASSUME NEW p \in free \X (Keys \cup {Meta})
        PROVE  mem'[p] = mem[p] \/ mem'[p] = Null
    <2>1. PICK t \in free, k \in Keys \cup {Meta} : p = <<t, k>>
      OBVIOUS
    <2>2. t \in Tables /\ rc[t] = 0 /\ p \in Locs /\ p \notin Vars /\ p[1] = t
      BY <2>1, LocTypes DEF TypeOK, FreeIsBlank
    <2>3. CASE l = p
      BY <2>2, <2>3 DEF Lives, TypeOK
    <2>4. CASE l # p
      BY <2>2, <2>4 DEF TypeOK
    <2> QED BY <2>3, <2>4
  <1> QED BY <1>1

LEMMA TablesFinite == IsFiniteSet(Tables) /\ Cardinality(Tables) = NumTables
  BY FS_Interval, SizeAssumption DEF Tables, SizeAssumption

LEMMA SlotAlloc ==
  ASSUME TypeOK, SlotInv, NEW t \in free, Alloc(t)
  PROVE  SlotInv'
  <1>0. /\ free \subseteq Tables /\ t \in Tables /\ IsFiniteSet(free)
        /\ FreeIsBlank /\ UsedExact /\ NoLostTable /\ SweepOk
    BY TablesFinite, FS_Subset DEF TypeOK, SlotInv
  <1>1. /\ free' = free \ {t} /\ used' = used + 1 /\ work' = work
        /\ rc' = [rc EXCEPT ![t] = 1] /\ mem' = [mem EXCEPT ![<<t, Meta>>] = Null]
    BY DEF Alloc
  <1>2. FreeIsBlank'
    <2>1. \A u \in free' : rc'[u] = 0
      BY <1>0, <1>1 DEF FreeIsBlank, TypeOK
    <2>2. ASSUME NEW u \in free', NEW k \in Keys \cup {Meta} PROVE mem'[<<u, k>>] = Null
      BY <1>0, <1>1, <2>2, LocTypes DEF FreeIsBlank, TypeOK
    <2> QED BY <2>1, <2>2 DEF FreeIsBlank
  <1>3. UsedExact'
    <2>1. Cardinality(free \ {t}) = Cardinality(free) - 1 /\ Cardinality(free) \in Nat
      BY <1>0, FS_RemoveElement, FS_CardinalityType
    <2> QED BY <1>0, <1>1, <2>1, SizeAssumption DEF UsedExact, TypeOK, SizeAssumption
  <1>4. NoLostTable'
    <2>1. rc'[t] = 1 /\ \A u \in Tables \ {t} : rc'[u] = rc[u]
      BY <1>0, <1>1 DEF TypeOK
    <2>2. Swept' = Swept
      BY <1>1 DEF Swept
    <2> QED BY <1>0, <1>1, <2>1, <2>2 DEF NoLostTable
  <1>5. SweepOk'
    <2>1. ASSUME NEW i \in DOMAIN work, work[i].op = "sweep"
          PROVE  rc'[work[i].tab] = 0 /\ work[i].tab \notin free'
      <3>1. work[i].tab # t /\ rc[work[i].tab] = 0 /\ work[i].tab \notin free
        BY <1>0, <2>1 DEF SweepOk
      <3> QED BY <1>1, <3>1 DEF TypeOK
    <2> QED BY <1>0, <1>1, <2>1 DEF SweepOk
  <1> QED BY <1>2, <1>3, <1>4, <1>5 DEF SlotInv

LEMMA SlotDec ==
  ASSUME TypeOK, SlotInv, RefcountExact, DecStep
  PROVE  SlotInv'
  <1> DEFINE t == Top.tab
             s == [op |-> "sweep", tab |-> t]
  <1>0. /\ free \subseteq Tables /\ FreeIsBlank /\ UsedExact /\ NoLostTable /\ SweepOk
    BY DEF TypeOK, SlotInv
  <1>1. /\ work # <<>> /\ Top \in WorkItems /\ Rest \in Seq(WorkItems)
        /\ Top.op # "sweep" /\ t \in Tables /\ s \in WorkItems /\ s.op = "sweep"
        /\ work = Append(Rest, Top)
    BY WorkSplit DEF DecStep, WorkItems
  <1>2. rc[t] > 0 /\ rc[t] \in Nat
    BY <1>1, Referenced
  <1>3. /\ rc' = [rc EXCEPT ![t] = rc[t] - 1]
        /\ work' = IF rc[t] - 1 = 0 THEN Append(Rest, s) ELSE Rest
        /\ UNCHANGED <<free, used, mem>>
    BY <1>2 DEF DecStep, Dec8
  <1>4. rc'[t] = rc[t] - 1 /\ \A u \in Tables \ {t} : rc'[u] = rc[u]
    BY <1>1, <1>3 DEF TypeOK
  <1>5. \A i \in DOMAIN Rest : i \in DOMAIN work /\ work[i] = Rest[i]
    BY <1>1, AppendProperties
  <1>6. \A i \in DOMAIN work : work[i].op = "sweep" => i \in DOMAIN Rest
    BY <1>1, AppendProperties
  <1>7. \A i \in DOMAIN Rest : Rest[i].op = "sweep" => Rest[i].tab # t
    BY <1>0, <1>2, <1>5 DEF SweepOk
  <1>a. \A i \in DOMAIN work' : \/ i \in DOMAIN Rest /\ work'[i] = Rest[i]
                                \/ i = Len(Rest) + 1 /\ work'[i] = s /\ rc'[t] = 0
    BY <1>1, <1>3, <1>4, AppendProperties
  <1>b. \A i \in DOMAIN Rest : i \in DOMAIN work' /\ work'[i] = Rest[i]
    BY <1>1, <1>3, AppendProperties
  <1>c. rc'[t] = 0 => \E i \in DOMAIN work' : work'[i] = s
    BY <1>1, <1>3, <1>4, AppendProperties
  <1>d. \A i \in DOMAIN Rest : Rest[i].tab \in Tables
    <2> TAKE i \in DOMAIN Rest
    <2>1. Rest[i] \in WorkItems
      BY <1>1
    <2> QED BY <2>1 DEF WorkItems
  <1> HIDE DEF s, t
  <1>8. FreeIsBlank'
    <2>1. t \notin free
      BY <1>0, <1>2 DEF FreeIsBlank
    <2> QED BY <1>0, <1>3, <1>4, <2>1 DEF FreeIsBlank
  <1>9. UsedExact'
    BY <1>0, <1>3 DEF UsedExact
  <1>10. NoLostTable'
    <2>1. ASSUME NEW u \in Tables \ free, u # t PROVE rc'[u] > 0 \/ u \in Swept'
      <3>1. CASE rc[u] > 0
        BY <1>4, <2>1, <3>1
      <3>2. CASE u \in Swept
        <4>1. PICK i \in DOMAIN work : work[i].op = "sweep" /\ work[i].tab = u
          BY <3>2 DEF Swept
        <4>2. i \in DOMAIN work' /\ work'[i].op = "sweep" /\ work'[i].tab = u
          BY <1>5, <1>6, <1>b, <4>1
        <4> QED BY <4>2 DEF Swept
      <3> QED BY <1>0, <2>1, <3>1, <3>2 DEF NoLostTable
    <2>2. rc'[t] > 0 \/ t \in Swept'
      <3>1. CASE rc'[t] = 0
        <4>1. PICK i \in DOMAIN work' : work'[i] = s
          BY <1>c, <3>1
        <4>2. work'[i].op = "sweep" /\ work'[i].tab = t
          BY <4>1 DEF s
        <4> QED BY <4>2 DEF Swept
      <3> QED BY <1>2, <1>4, <3>1
    <2> QED BY <1>3, <2>1, <2>2 DEF NoLostTable
  <1>11. SweepOk'
    <2>0. s.tab = t /\ t \notin free
      BY <1>0, <1>2 DEF FreeIsBlank, s
    <2>1. ASSUME NEW i \in DOMAIN work', work'[i].op = "sweep"
          PROVE  rc'[work'[i].tab] = 0 /\ work'[i].tab \notin free'
      <3>1. CASE i \in DOMAIN Rest /\ work'[i] = Rest[i]
        BY <1>0, <1>3, <1>4, <1>5, <1>7, <1>d, <2>1, <3>1 DEF SweepOk
      <3>2. CASE work'[i] = s /\ rc'[t] = 0
        BY <1>3, <2>0, <3>2
      <3> QED BY <1>a, <3>1, <3>2
    <2>2. ASSUME NEW i \in DOMAIN work', NEW j \in DOMAIN work',
                 work'[i].op = "sweep", work'[j].op = "sweep", work'[i].tab = work'[j].tab
          PROVE  i = j
      <3>1. CASE i \in DOMAIN Rest /\ j \in DOMAIN Rest
        BY <1>0, <1>5, <1>b, <2>2, <3>1 DEF SweepOk
      <3>2. CASE i \in DOMAIN Rest /\ j \notin DOMAIN Rest
        BY <1>7, <1>a, <1>b, <2>0, <2>2, <3>2
      <3>3. CASE i \notin DOMAIN Rest /\ j \in DOMAIN Rest
        BY <1>7, <1>a, <1>b, <2>0, <2>2, <3>3
      <3>4. CASE i \notin DOMAIN Rest /\ j \notin DOMAIN Rest
        BY <1>a, <3>4
      <3> QED BY <3>1, <3>2, <3>3, <3>4
    <2> QED BY <2>1, <2>2 DEF SweepOk
  <1> QED BY <1>8, <1>9, <1>10, <1>11 DEF SlotInv

LEMMA SlotSweep ==
  ASSUME TypeOK, SlotInv, SweepFree
  PROVE  SlotInv'
  <1> DEFINE t == Top.tab
             v == mem[<<Top.tab, Meta>>]
  <1>0. /\ free \subseteq Tables /\ FreeIsBlank /\ UsedExact /\ NoLostTable /\ SweepOk
    BY DEF TypeOK, SlotInv
  <1>1. /\ work # <<>> /\ Top \in WorkItems /\ Rest \in Seq(WorkItems)
        /\ Top.op = "sweep" /\ t \in Tables /\ work = Append(Rest, Top)
    BY WorkSplit DEF SweepFree, WorkItems
  <1>2. /\ \A k \in Keys : mem[<<t, k>>] = Null
        /\ free' = free \cup {t} /\ used' = used - 1 /\ rc' = rc
        /\ work' = Pending(Rest, v) /\ mem' = [mem EXCEPT ![<<t, Meta>>] = Null]
    BY DEF SweepFree
  <1>3. Len(work) \in DOMAIN work /\ work[Len(work)] = Top /\ Len(work) = Len(Rest) + 1
    BY <1>1, AppendProperties
  <1>4. rc[t] = 0 /\ t \notin free
    BY <1>0, <1>1, <1>3 DEF SweepOk
  <1>5. \A i \in DOMAIN Rest : i \in DOMAIN work /\ work[i] = Rest[i] /\ i # Len(work)
    BY <1>1, <1>3, AppendProperties
  <1>6. \A i \in DOMAIN work : i \in DOMAIN Rest \/ i = Len(work)
    BY <1>1, <1>3, AppendProperties
  <1>7. \A i \in DOMAIN work' :
          work'[i].op = "sweep" => i \in DOMAIN Rest /\ work'[i] = Rest[i]
    <2>1. [op |-> "dec", tab |-> v].op # "sweep"
      OBVIOUS
    <2> QED BY <1>1, <1>2, <2>1, AppendProperties DEF Pending
  <1>8. \A i \in DOMAIN Rest : i \in DOMAIN work' /\ work'[i] = Rest[i]
    BY <1>1, <1>2, AppendProperties DEF Pending
  <1> HIDE DEF t, v
  <1>9. FreeIsBlank'
    <2>1. \A u \in free' : rc'[u] = 0
      BY <1>0, <1>2, <1>4 DEF FreeIsBlank
    <2>2. ASSUME NEW u \in free', NEW k \in Keys \cup {Meta} PROVE mem'[<<u, k>>] = Null
      <3>1. u \in Tables /\ <<u, k>> \in Locs
        BY <1>0, <1>1, <1>2, <2>2, LocTypes
      <3>2. mem'[<<u, k>>] = IF <<u, k>> = <<t, Meta>> THEN Null ELSE mem[<<u, k>>]
        BY <1>2, <3>1 DEF TypeOK
      <3> QED BY <1>0, <1>2, <2>2, <3>2 DEF FreeIsBlank
    <2> QED BY <2>1, <2>2 DEF FreeIsBlank
  <1>10. UsedExact'
    <2>1. IsFiniteSet(free)
      BY <1>0, TablesFinite, FS_Subset
    <2>2. Cardinality(free \cup {t}) = Cardinality(free) + 1 /\ Cardinality(free) \in Nat
      BY <1>4, <2>1, FS_AddElement, FS_CardinalityType
    <2> QED BY <1>0, <1>2, <2>2, SizeAssumption DEF UsedExact, TypeOK, SizeAssumption
  <1>11. NoLostTable'
    <2> SUFFICES ASSUME NEW u \in Tables, u \notin free, u # t
                 PROVE  rc'[u] > 0 \/ u \in Swept'
      BY <1>2 DEF NoLostTable
    <2>1. CASE u \in Swept
      <3>1. PICK i \in DOMAIN work : work[i].op = "sweep" /\ work[i].tab = u
        BY <2>1 DEF Swept
      <3>2. i \in DOMAIN Rest
        BY <1>3, <1>6, <3>1 DEF t
      <3>3. i \in DOMAIN work' /\ work'[i].op = "sweep" /\ work'[i].tab = u
        BY <1>5, <1>8, <3>1, <3>2
      <3> QED BY <3>3 DEF Swept
    <2> QED BY <1>0, <1>2, <2>1 DEF NoLostTable
  <1>12. SweepOk'
    <2>1. ASSUME NEW i \in DOMAIN work', work'[i].op = "sweep"
          PROVE  rc'[work'[i].tab] = 0 /\ work'[i].tab \notin free'
      <3>1. /\ i \in DOMAIN Rest /\ i \in DOMAIN work /\ i # Len(work)
            /\ work'[i] = work[i]
        BY <1>5, <1>7, <2>1
      <3>2. work[i].tab # t
        BY <1>0, <1>1, <1>3, <2>1, <3>1 DEF SweepOk, t
      <3> QED BY <1>0, <1>2, <2>1, <3>1, <3>2 DEF SweepOk
    <2>2. ASSUME NEW i \in DOMAIN work', NEW j \in DOMAIN work',
                 work'[i].op = "sweep", work'[j].op = "sweep", work'[i].tab = work'[j].tab
          PROVE  i = j
      BY <1>0, <1>5, <1>7, <2>2 DEF SweepOk
    <2> QED BY <2>1, <2>2 DEF SweepOk
  <1> QED BY <1>9, <1>10, <1>11, <1>12 DEF SlotInv

LEMMA SlotStep ==
  ASSUME HeapInv, Effect
  PROVE  SlotInv'
  <1>0. TypeOK /\ SlotInv /\ RefcountExact /\ FreeIsBlank
    BY DEF HeapInv, TypeInv, SlotInv
  <1>1. CASE Same
    BY <1>0, <1>1, SlotKept DEF Same
  <1>2. ASSUME NEW t \in free, Alloc(t) PROVE SlotInv'
    BY <1>0, <1>2, SlotAlloc
  <1>3. ASSUME NEW l \in Locs, NEW v \in Values, Write(l, v), Alive(v), Lives(l)
        PROVE  SlotInv'
    <2>1. UNCHANGED <<free, used>>
      BY <1>3 DEF Write
    <2>2. \/ work' = work
          \/ \E e \in WorkItems : e.op # "sweep" /\ work' = Append(work, e)
      BY <1>3, PendingKeeps DEF Write
    <2>3. \A t \in Tables : rc'[t] = rc[t] \/ (rc[t] > 0 /\ rc'[t] > 0)
      BY <1>0, <1>3, IncrefKeeps DEF Write
    <2>4. \A p \in free \X (Keys \cup {Meta}) : mem'[p] = mem[p] \/ mem'[p] = Null
      BY <1>0, <1>3, WriteKeeps DEF Write
    <2> QED BY <1>0, <2>1, <2>2, <2>3, <2>4, SlotKept
  <1>4. ASSUME NEW t \in Tables, NEW v \in Tables, Link(<<t, Meta>>, v),
               rc[t] > 0, rc[v] > 0
        PROVE  SlotInv'
    <2>1. UNCHANGED <<free, used>> /\ work' = work
      BY <1>4 DEF Link
    <2>3. \A u \in Tables : rc'[u] = rc[u] \/ (rc[u] > 0 /\ rc'[u] > 0)
      BY <1>0, <1>4, IncrefKeeps DEF Link, Alive
    <2>4. \A p \in free \X (Keys \cup {Meta}) : mem'[p] = mem[p] \/ mem'[p] = Null
      BY <1>0, <1>4, LocTypes, WriteKeeps DEF Link, Lives
    <2> QED BY <1>0, <2>1, <2>3, <2>4, SlotKept
  <1>5. ASSUME NEW l \in Locs, Release(l) \/ Defer(l) PROVE SlotInv'
    <2>1. UNCHANGED <<free, used, rc>> /\ mem' = [mem EXCEPT ![l] = Null]
      BY <1>5 DEF Release, Defer
    <2>2. \/ work' = work
          \/ \E e \in WorkItems : e.op # "sweep" /\ work' = Append(work, e)
      BY <1>5, PendingKeeps DEF Release, Defer
    <2>4. \A p \in free \X (Keys \cup {Meta}) : mem'[p] = mem[p] \/ mem'[p] = Null
      BY <1>0, <2>1, WriteKeeps
    <2> QED BY <1>0, <2>1, <2>2, <2>4, SlotKept
  <1>6. ASSUME NEW v \in Values, Mark(v), Alive(v) PROVE SlotInv'
    <2>1. UNCHANGED <<free, used, mem>> /\ work' = work
      BY <1>6 DEF Mark
    <2>3. \A t \in Tables : rc'[t] = rc[t] \/ (rc[t] > 0 /\ rc'[t] > 0)
      BY <1>0, <1>6, IncrefKeeps DEF Mark
    <2> QED BY <1>0, <2>1, <2>3, SlotKept
  <1>7. CASE DecStep
    BY <1>0, <1>7, SlotDec
  <1>8. CASE SweepFree
    BY <1>0, <1>8, SlotSweep
  <1>9. ASSUME GcStep PROVE SlotInv'
    <2>1. UNCHANGED <<free, used, rc, mem>>
      BY <1>9 DEF GcStep
    <2>2. \/ work' = work
          \/ \E e \in WorkItems : e.op # "sweep" /\ work' = Append(work, e)
      <3>1. CASE cont.at \in DOMAIN gc /\ gc[cont.at] # Null
        <4>2. gc[cont.at] \in Tables
          BY <1>0, <3>1 DEF TypeOK
        <4>3. [op |-> "gcdec", tab |-> gc[cont.at]] \in WorkItems
          BY <4>2 DEF WorkItems
        <4> QED BY <1>9, <3>1, <4>3 DEF GcStep
      <3>2. CASE ~(cont.at \in DOMAIN gc /\ gc[cont.at] # Null)
        BY <1>9, <3>2 DEF GcStep
      <3> QED BY <3>1, <3>2
    <2> QED BY <1>0, <2>1, <2>2, SlotKept
  <1> QED BY <1>1, <1>2, <1>3, <1>4, <1>5, <1>6, <1>7, <1>8, <1>9 DEF Effect

(***************************************************************************)
(* What the interrupted function and the caller still hold                 *)
(***************************************************************************)
HeldInv == ContOk /\ AccOk /\ OnlyLimitAborts

LEMMA AbortHeld ==
  ASSUME HeldInv, Abort("limit")
  PROVE  HeldInv'
  <1>1. UNCHANGED <<mem, gc, cont>>
    BY DEF Abort
  <1>2. ContOk'
    BY <1>1 DEF HeldInv, ContOk, StoreOk, DelOk, Rooted
  <1>3. AccOk' /\ OnlyLimitAborts'
    BY DEF HeldInv, AccOk, OnlyLimitAborts, Abort, Quiet
  <1> QED BY <1>2, <1>3 DEF HeldInv

\* A step that leaves no function interrupted between two uses of a value, and
\* no intermediate value.
LEMMA NothingHeld ==
  ASSUME HeldInv, cont'.op \notin {"del", "store"}, acc' \notin Tables, status' = status
  PROVE  HeldInv'
  BY DEF HeldInv, ContOk, AccOk, OnlyLimitAborts

\* add_to_gc keeps the value that it is given alive.
LEMMA DeferredIsThere ==
  ASSUME TypeOK, NEW v \in Tables, gc' = add_to_gc(gc, v)
  PROVE  \E i \in DOMAIN gc' : gc'[i] = v
  <1>1. PICK n \in Nat \ {0} : EntryWritten(gc, gc', n, v)
    BY DeferEntry, SizeAssumption DEF TypeOK
  <1> QED BY <1>1 DEF EntryWritten

LEMMA ProgramHeld ==
  ASSUME HeapInv, Operation
  PROVE  HeldInv'
  <1>0. /\ TypeOK /\ HeldInv /\ RefcountExact /\ UsedExact
        /\ Num \notin Tables /\ Null \notin Tables
    BY ValuesAssumption DEF HeapInv, TypeInv, HeldInv, ValuesAssumption
  <1>1. ASSUME make_table PROVE HeldInv'
    <2>1. free # {}
      BY <1>0, <1>1, FS_EmptySet, SizeAssumption
      DEF make_table, UsedExact, SizeAssumption
    <2>2. PICK t \in free : /\ t \in Tables /\ acc' = t /\ cont' = Idle /\ work' = <<>>
                            /\ gc' = add_to_gc(gc, t) /\ status' = status
      BY <1>0, <1>1, <2>1 DEF make_table, Ready, Quiet, TypeOK
    <2>3. \E i \in DOMAIN gc' : gc'[i] = t
      BY <1>0, <2>2, DeferredIsThere
    <2>4. AccOk'
      BY <2>2, <2>3 DEF AccOk, Quiet
    <2> QED BY <1>0, <2>2, <2>4 DEF HeldInv, ContOk, OnlyLimitAborts
  <1>2. CASE Literal \/ Discard \/ Call \/ ReturnNil \/ run_gc
    BY <1>0, <1>2, NothingHeld
    DEF Literal, Discard, Call, ReturnNil, run_gc, Ready, Quiet
  <1>3. ASSUME getmetatable \/ (\E c \in Vars : Read(c)) \/ \E k \in Keys : get_tabvalue(k)
        PROVE  HeldInv'
    <2>1. /\ UNCHANGED <<mem, status>> /\ cont' = Idle /\ work' = <<>>
          /\ \E l \in Locs : acc' = mem[l]
      BY <1>3, LocTypes DEF getmetatable, Read, get_tabvalue, Ready, Quiet
    <2> QED BY <1>0, <2>1 DEF HeldInv, ContOk, AccOk, OnlyLimitAborts, Quiet
  <1>4. ASSUME NEW c \in Vars, set(c) \/ add(c) \/ setmetatable(c) PROVE HeldInv'
    <2>1. CASE Abort("limit")
      BY <1>0, <2>1, AbortHeld
    <2>2. CASE acc' = Null /\ cont' = Idle /\ status' = status
      BY <1>0, <2>2, NothingHeld
    <2> QED BY <1>4, <2>1, <2>2 DEF set, add, setmetatable, StoreNew, Ready, Quiet
  <1>5. ASSUME NEW c \in Vars, Return(c) PROVE HeldInv'
    <2>1. CASE Abort("limit")
      BY <1>0, <2>1, AbortHeld
    <2>2. ASSUME cont' = [op |-> "leave"], gc' = add_to_gc(gc, mem[c]), acc' = mem[c],
                 status' = status
          PROVE  HeldInv'
      <3>1. ASSUME mem[c] \in Tables PROVE \E i \in DOMAIN gc' : gc'[i] = mem[c]
        BY <1>0, <2>2, <3>1, DeferredIsThere
      <3> QED BY <1>0, <2>2, <3>1 DEF HeldInv, ContOk, AccOk, OnlyLimitAborts
    <2> QED BY <1>5, <2>1, <2>2 DEF Return
  <1>6. ASSUME NEW c \in Vars, del(c, FALSE) PROVE HeldInv'
    <2>1. /\ UNCHANGED <<mem, gc, status>> /\ acc' = Null /\ mem[c] \in Tables
          /\ cont' = [op |-> "del", tab |-> mem[c], want |-> 1, last |-> 0,
                      item |-> acc, found |-> Null, keep |-> FALSE]
      BY <1>6 DEF del
    <2>2. ContOk'
      BY <2>1 DEF ContOk, DelOk
    <2> QED BY <1>0, <2>1, <2>2 DEF HeldInv, AccOk, OnlyLimitAborts
  <1> QED BY <1>1, <1>2, <1>3, <1>4, <1>5, <1>6 DEF Operation

LEMMA CarefulDelHeld ==
  ASSUME HeapInv, NEW c \in Vars, CarefulDel(c)
  PROVE  HeldInv'
  <1>0. HeldInv /\ Null \notin Tables
    BY ValuesAssumption DEF HeapInv, HeldInv, ValuesAssumption
  <1>1. /\ UNCHANGED <<mem, gc, status>> /\ acc' = Null /\ mem[c] \in Tables
        /\ \A k \in Keys : Rooted(mem[<<mem[c], k>>])
        /\ cont' = [op |-> "del", tab |-> mem[c], want |-> 1, last |-> 0,
                    item |-> acc, found |-> Null, keep |-> TRUE]
    BY DEF CarefulDel, del
  <1>2. ContOk'
    <2>1. \E x \in Vars : mem'[x] = cont'.tab
      BY <1>1
    <2>2. cont'.last < cont'.want /\ Rooted(cont.found)'
      BY <1>0, <1>1 DEF Rooted
    <2>3. \A k \in Keys : Rooted(mem[<<cont.tab, k>>])'
      BY <1>1 DEF Rooted
    <2> QED BY <1>1, <2>1, <2>2, <2>3 DEF ContOk, DelOk
  <1> QED BY <1>0, <1>1, <1>2 DEF HeldInv, AccOk, OnlyLimitAborts

LEMMA CarefulSetHeld ==
  ASSUME HeapInv, NEW c \in Vars, NEW k \in Keys, CarefulSet(c, k)
  PROVE  HeldInv'
  <1>0. TypeOK /\ HeldInv /\ Null \notin Tables /\ mem[c] \in Tables /\ Rooted(acc)
    BY ValuesAssumption
    DEF HeapInv, TypeInv, HeldInv, ValuesAssumption, CarefulSet, set_tabvalue
  <1>1. CASE UNCHANGED vars /\ acc = Null
    BY <1>0, <1>1, NothingHeld DEF vars, CarefulSet, set_tabvalue, Ready, Quiet
  <1>2. CASE StoreNew(mem[c], k, acc)
    <2>1. CASE Abort("limit")
      BY <1>0, <2>1, AbortHeld
    <2>2. CASE acc' = Null /\ cont' = cont /\ status' = status
      BY <1>0, <2>2, NothingHeld DEF CarefulSet, set_tabvalue, Ready, Quiet
    <2> QED BY <1>2, <2>1, <2>2 DEF StoreNew
  <1>3. CASE Overwrite(mem[c], k, acc, Idle)
    <2> DEFINE l == <<mem[c], k>>
    <2>1. l \in Locs /\ l \notin Vars
      BY <1>0, LocTypes
    <2>2. /\ UNCHANGED <<gc, status>> /\ acc' = Null /\ mem' = [mem EXCEPT ![l] = Null]
          /\ cont' = [op |-> "store", loc |-> l, val |-> acc, next |-> Idle]
      BY <1>3 DEF Overwrite
    <2>3. mem'[l] = Null /\ \A x \in Vars : mem'[x] = mem[x]
      BY <1>0, <2>1, <2>2, LocTypes DEF TypeOK
    <2>4. Rooted(acc) => \/ acc \notin Tables \/ \E x \in Vars : mem'[x] = acc
                         \/ \E i \in DOMAIN gc' : gc'[i] = acc
      BY <2>2, <2>3 DEF Rooted
    <2>5. StoreOk(cont)'
      <3>1. cont'.loc = l /\ cont'.val = acc /\ cont'.next = Idle /\ l[1] = mem[c]
        BY <2>2
      <3> QED BY <1>0, <2>3, <2>4, <3>1 DEF StoreOk, Rooted
    <2>6. ContOk'
      BY <2>2, <2>5 DEF ContOk
    <2> QED BY <1>0, <2>2, <2>6 DEF HeldInv, AccOk, OnlyLimitAborts
  <1> QED BY <1>1, <1>2, <1>3 DEF CarefulSet, set_tabvalue

LEMMA CarefulReturnHeld ==
  ASSUME HeapInv, NEW c \in Vars, NEW k \in Keys, CarefulReturn(c, k)
  PROVE  HeldInv'
  <1>0. HeldInv /\ acc' = mem[<<mem[c], k>>] /\ Outlives(acc')
    BY DEF HeapInv, HeldInv, CarefulReturn, ReturnField
  <1>1. UNCHANGED <<mem, gc, status>> /\ cont'.op = "leave"
    BY DEF CarefulReturn, ReturnField
  <1>2. AccOk'
    BY <1>0, <1>1 DEF AccOk, Outlives
  <1>3. ContOk'
    BY <1>1 DEF ContOk
  <1> QED BY <1>0, <1>1, <1>2, <1>3 DEF HeldInv, OnlyLimitAborts

\* Variables and _gc_to_visit keep alive what they kept alive.
VarsKept == \A x \in Vars : mem'[x] = mem[x]

LEMMA RootedKept ==
  ASSUME NEW v, Rooted(v), VarsKept, gc' = gc
  PROVE  v \in Tables => \/ \E x \in Vars : mem'[x] = v
                         \/ \E i \in DOMAIN gc' : gc'[i] = v
  BY DEF Rooted, VarsKept

\* A step of the recursion empties places of tables without references.
LEMMA RecursionHeld ==
  ASSUME TypeOK, RefcountExact, HeldInv, work # <<>>, UNCHANGED <<gc, cont, acc, status>>,
         \A l \in Locs : \/ mem'[l] = mem[l]
                         \/ l \notin Vars /\ rc[l[1]] = 0 /\ mem'[l] = Null
  PROVE  HeldInv'
  <1>0. ContOk /\ AccOk /\ VarsKept /\ Null \notin Tables
    BY LocTypes, ValuesAssumption DEF HeldInv, VarsKept, ValuesAssumption
  <1>1. AccOk'
    BY <1>0 DEF AccOk, Quiet, VarsKept
  <1>2. ASSUME cont.op = "del" PROVE DelOk(cont)'
    <2>1. DelOk(cont) /\ cont \in DelConts
      BY <1>0, <1>2, ContTypes DEF ContOk
    <2>2. cont.keep => Rooted(cont.found)'
      BY <1>0, <2>1, RootedKept DEF DelOk, Rooted
    <2>3. ASSUME cont.keep, cont.last = 0, NEW k \in Keys
          PROVE  Rooted(mem[<<cont.tab, k>>])'
      <3>1. <<cont.tab, k>> \in Locs /\ Rooted(mem[<<cont.tab, k>>])
        BY <2>1, <2>3, LocTypes DEF DelOk, DelConts
      <3>2. CASE mem'[<<cont.tab, k>>] = mem[<<cont.tab, k>>]
        BY <1>0, <3>1, <3>2, RootedKept DEF Rooted
      <3>3. CASE mem'[<<cont.tab, k>>] = Null
        BY <1>0, <3>3 DEF Rooted
      <3> QED BY <3>1, <3>2, <3>3
    <2> QED BY <1>0, <2>1, <2>2, <2>3 DEF DelOk, VarsKept
  <1>3. ASSUME cont.op = "store" PROVE StoreOk(cont)'
    <2>1. /\ StoreOk(cont) /\ cont.loc \in Locs
          /\ cont.next \in {Idle} \cup DelConts
      BY <1>0, <1>3, ContTypes, LocTypes DEF ContOk
    <2>2. mem'[cont.loc] = Null /\ \E x \in Vars : mem'[x] = cont.loc[1]
      BY <1>0, <2>1 DEF StoreOk, VarsKept
    <2>3. cont.next = Idle => Rooted(cont.val)'
      BY <1>0, <2>1, RootedKept DEF StoreOk, Rooted
    <2>4. ASSUME cont.next # Idle
          PROVE  /\ DelOk(cont.next)'
                 /\ cont.next.tab = cont.loc[1] /\ cont.next.last \in Keys
                 /\ mem'[<<cont.next.tab, cont.next.last>>] = cont.val
      <3>1. /\ cont.next \in DelConts /\ DelOk(cont.next)
            /\ cont.next.tab = cont.loc[1] /\ cont.next.last \in Keys
            /\ mem[<<cont.next.tab, cont.next.last>>] = cont.val
        BY <2>1, <2>4 DEF StoreOk
      <3>2. cont.next.tab \in Tables /\ cont.next.last # 0
        BY <3>1, LocTypes DEF DelConts
      <3>3. rc[cont.next.tab] > 0
        BY <3>1, <3>2, VarAlive DEF DelOk
      <3>4. mem'[<<cont.next.tab, cont.next.last>>] = cont.val
        <4>1. /\ <<cont.next.tab, cont.next.last>> \in Locs
              /\ rc[<<cont.next.tab, cont.next.last>>[1]] # 0
          BY <3>1, <3>2, <3>3, LocTypes
        <4> QED BY <3>1, <4>1
      <3>5. cont.next.keep => Rooted(cont.next.found)'
        BY <1>0, <3>1, RootedKept DEF DelOk, Rooted
      <3> QED BY <1>0, <3>1, <3>2, <3>4, <3>5 DEF DelOk, VarsKept
    <2> QED BY <2>2, <2>3, <2>4 DEF StoreOk
  <1>4. ContOk'
    BY <1>2, <1>3 DEF ContOk
  <1> QED BY <1>1, <1>4 DEF HeldInv, OnlyLimitAborts

LEMMA StoreStepHeld ==
  ASSUME HeapInv, StoreStep
  PROVE  HeldInv'
  <1>0. /\ TypeOK /\ HeldInv /\ ContOk /\ AccOk
        /\ cont.op = "store" /\ work = <<>> /\ StoreOk(cont)
    BY DEF HeapInv, TypeInv, HeldInv, StoreStep, Resumes, ContOk
  <1>1. acc \notin Tables
    BY <1>0 DEF AccOk, Quiet
  <1>2. /\ cont.loc \in Tables \X Keys /\ cont.next \in {Idle} \cup DelConts
        /\ cont.loc \in Locs /\ cont.loc \notin Vars
    BY <1>0, ContTypes, LocTypes
  <1>3. CASE Abort("limit")
    BY <1>0, <1>3, AbortHeld
  <1>4. ASSUME mem' = [mem EXCEPT ![cont.loc] = cont.val], cont' = cont.next,
               UNCHANGED <<gc, acc, status>>
        PROVE  HeldInv'
    <2>1. CASE cont.next = Idle
      BY <1>0, <1>1, <1>4, <2>1, NothingHeld
    <2>2. CASE cont.next # Idle
      <3>1. /\ cont.next \in DelConts /\ DelOk(cont.next) /\ cont.next.op = "del"
            /\ cont.next.last # 0
        BY <1>0, <1>2, <2>2, LocTypes DEF StoreOk, DelConts
      <3>2. VarsKept
        BY <1>0, <1>2, <1>4, LocTypes DEF VarsKept, TypeOK
      <3>3. cont.next.keep => Rooted(cont.found)'
        BY <1>4, <3>1, <3>2, RootedKept DEF DelOk, Rooted
      <3>4. DelOk(cont)'
        BY <1>4, <3>1, <3>2, <3>3 DEF DelOk, VarsKept
      <3>5. ContOk'
        BY <1>4, <3>1, <3>4 DEF ContOk
      <3> QED BY <1>0, <1>1, <1>4, <3>5 DEF HeldInv, AccOk, OnlyLimitAborts
    <2> QED BY <2>1, <2>2
  <1> QED BY <1>3, <1>4 DEF StoreStep

LEMMA DelScanHeld ==
  ASSUME HeapInv, DelScan
  PROVE  HeldInv'
  <1>0. /\ TypeOK /\ HeldInv /\ ContOk /\ AccOk /\ Null \notin Tables
        /\ cont.op = "del" /\ work = <<>> /\ DelOk(cont)
    BY ValuesAssumption
    DEF HeapInv, TypeInv, HeldInv, DelScan, Resumes, ContOk, ValuesAssumption
  <1>1. acc \notin Tables
    BY <1>0 DEF AccOk, Quiet
  <1>2. /\ cont \in DelConts /\ cont.want \in Keys /\ cont.tab \in Tables
        /\ cont.want # 0 /\ cont.want < cont.want + 1 /\ status' = status
    BY <1>0, DelScanCases, LocTypes, SizeAssumption
    DEF DelConts, Keys, SizeAssumption, DelScan, Overwrite
  <1>3. ASSUME cont.last = 0, UNCHANGED <<mem, gc, acc>>, cont' \in DelConts,
               cont'.tab = cont.tab, cont'.keep = cont.keep,
               cont'.last = cont.want, cont'.want = cont.want + 1,
               cont'.found \in {Null, mem[<<cont.tab, cont.want>>]}
        PROVE  HeldInv'
    <2>1. cont.keep => Rooted(mem[<<cont.tab, cont.want>>])
      BY <1>0, <1>2, <1>3 DEF DelOk
    <2>2. cont'.keep => Rooted(cont.found)'
      BY <1>0, <1>3, <2>1 DEF Rooted
    <2>3. DelOk(cont)'
      BY <1>0, <1>2, <1>3, <2>2 DEF DelOk
    <2>4. ContOk'
      BY <1>3, <2>3 DEF ContOk, DelConts
    <2> QED BY <1>0, <1>1, <1>2, <1>3, <2>4 DEF HeldInv, AccOk, OnlyLimitAborts
  <1>4. ASSUME NEW next \in DelConts, cont.last \in Keys,
               Overwrite(cont.tab, cont.last, mem[<<cont.tab, cont.want>>], next),
               next.tab = cont.tab, next.keep = cont.keep,
               next.last = cont.want, next.want = cont.want + 1,
               next.found = cont.found
        PROVE  HeldInv'
    <2> DEFINE l   == <<cont.tab, cont.last>>
               src == <<cont.tab, cont.want>>
    <2>1. /\ l \in Locs /\ l \notin Vars /\ src \in Locs /\ l[1] = cont.tab
          /\ src # l /\ next # Idle /\ next.op = "del"
      BY <1>0, <1>2, <1>4, LocTypes DEF DelOk, DelConts, Keys
    <2>2. /\ mem' = [mem EXCEPT ![l] = Null] /\ UNCHANGED <<gc, status>> /\ acc' = Null
          /\ cont' = [op |-> "store", loc |-> l, val |-> mem[src], next |-> next]
      BY <1>4 DEF Overwrite
    <2>3. VarsKept /\ mem'[l] = Null /\ mem'[src] = mem[src]
      BY <1>0, <2>1, <2>2, LocTypes DEF VarsKept, TypeOK
    <2>4. cont'.loc = l /\ cont'.val = mem[src] /\ cont'.next = next /\ cont'.op = "store"
      BY <2>2
    <2>5. next.keep => Rooted(cont.next.found)'
      BY <1>0, <1>4, <2>2, <2>3, <2>4, RootedKept DEF DelOk, Rooted
    <2>6. DelOk(cont.next)'
      BY <1>0, <1>2, <1>4, <2>3, <2>4, <2>5 DEF DelOk, VarsKept
    <2>7. StoreOk(cont)'
      <3>1. \E x \in Vars : mem'[x] = cont.tab
        BY <1>0, <2>3 DEF DelOk, VarsKept
      <3> QED BY <1>2, <1>4, <2>1, <2>3, <2>4, <2>6, <3>1 DEF StoreOk
    <2>8. ContOk'
      BY <2>4, <2>7 DEF ContOk
    <2> QED BY <1>0, <2>2, <2>8 DEF HeldInv, AccOk, OnlyLimitAborts
  <1> QED BY <1>0, <1>3, <1>4, DelScanCases

LEMMA DelLastHeld ==
  ASSUME HeapInv, DelLast
  PROVE  HeldInv'
  <1>0. /\ TypeOK /\ HeldInv /\ ContOk /\ Null \notin Tables
        /\ cont.op = "del" /\ work = <<>> /\ DelOk(cont) /\ cont \in DelConts
    BY ContTypes, ValuesAssumption
    DEF HeapInv, TypeInv, HeldInv, DelLast, Resumes, ContOk, ValuesAssumption
  <1>1. /\ cont' = Idle /\ work' = <<>> /\ status' = status
        /\ acc' = IF cont.keep THEN cont.found ELSE Null
    BY <1>0 DEF DelLast
  <1>2. VarsKept
    <2>1. CASE cont.last = 0
      BY <2>1 DEF DelLast, VarsKept
    <2>2. CASE cont.last # 0
      <3>1. <<cont.tab, cont.last>> \in Locs /\ <<cont.tab, cont.last>> \notin Vars
        BY <1>0, <2>2, LocTypes DEF DelConts
      <3>2. mem' = [mem EXCEPT ![<<cont.tab, cont.last>>] = Null]
        BY <2>2 DEF DelLast
      <3> QED BY <1>0, <3>1, <3>2, LocTypes DEF VarsKept, TypeOK
    <2> QED BY <2>1, <2>2
  <1>3. \A i \in DOMAIN gc : gc[i] # Null => i \in DOMAIN gc' /\ gc'[i] = gc[i]
    <2>1. gc' = gc \/ \E v \in Tables : gc' = add_to_gc(gc, v)
      BY DEF DelLast, add_to_gc
    <2>2. ASSUME NEW v \in Tables, gc' = add_to_gc(gc, v),
                 NEW i \in DOMAIN gc, gc[i] # Null
          PROVE  i \in DOMAIN gc' /\ gc'[i] = gc[i]
      <3>1. PICK n \in Nat \ {0} : EntryWritten(gc, gc', n, v)
        BY <1>0, <2>2, DeferEntry, SizeAssumption DEF TypeOK
      <3> QED BY <2>2, <3>1 DEF EntryWritten
    <2> QED BY <2>1, <2>2
  <1>4. AccOk'
    <2>1. ASSUME acc' \in Tables
          PROVE  (\E x \in Vars : mem'[x] = acc') \/ \E i \in DOMAIN gc' : gc'[i] = acc'
      <3>1. cont.keep /\ acc' = cont.found /\ Rooted(cont.found)
        BY <1>0, <1>1, <2>1 DEF DelOk
      <3> QED BY <1>0, <1>2, <1>3, <2>1, <3>1 DEF Rooted, VarsKept
    <2> QED BY <1>1, <2>1, LocTypes DEF AccOk, Quiet
  <1> QED BY <1>0, <1>1, <1>4 DEF HeldInv, ContOk, OnlyLimitAborts

LEMMA RuntimeHeld ==
  ASSUME HeapInv, Step
  PROVE  HeldInv'
  <1>0. TypeOK /\ RefcountExact /\ HeldInv /\ SweepOk /\ AccOk
    BY DEF HeapInv, TypeInv, HeldInv
  <1>1. ASSUME DecStep PROVE HeldInv'
    <2>1. Top \in WorkItems /\ Top.tab \in Tables /\ work # <<>> /\ Top.op # "sweep"
      BY <1>0, <1>1, WorkSplit DEF DecStep, WorkItems
    <2>2. rc[Top.tab] # 0
      BY <1>0, <2>1, Referenced
    <2>3. UNCHANGED <<mem, gc, cont, acc, status>>
      BY <1>1, <2>2 DEF DecStep
    <2> QED BY <1>0, <2>1, <2>3, RecursionHeld
  <1>2. ASSUME SweepField \/ SweepFree PROVE HeldInv'
    <2>1. Top \in WorkItems /\ Top.tab \in Tables /\ work # <<>> /\ Top.op = "sweep"
      BY <1>0, <1>2, WorkSplit DEF SweepField, SweepFree, WorkItems
    <2>2. Len(work) \in DOMAIN work /\ work[Len(work)] = Top
      BY <1>0, <2>1, RestType DEF TypeOK, Top
    <2>3. rc[Top.tab] = 0
      BY <1>0, <2>1, <2>2 DEF SweepOk
    <2>4. PICK k \in Keys \cup {Meta} : mem' = [mem EXCEPT ![<<Top.tab, k>>] = Null]
      BY <1>2 DEF SweepField, SweepFree
    <2>5. \A l \in Locs : \/ mem'[l] = mem[l]
                          \/ l \notin Vars /\ rc[l[1]] = 0 /\ mem'[l] = Null
      BY <1>0, <2>1, <2>3, <2>4, LocTypes DEF TypeOK
    <2>6. UNCHANGED <<gc, cont, acc, status>>
      BY <1>2 DEF SweepField, SweepFree
    <2> QED BY <1>0, <2>1, <2>5, <2>6, RecursionHeld
  <1>3. CASE StoreStep
    BY <1>3, StoreStepHeld
  <1>4. CASE DelScan
    BY <1>4, DelScanHeld
  <1>5. CASE DelLast
    BY <1>5, DelLastHeld
  <1>6. ASSUME GcStep PROVE HeldInv'
    <2>1. cont.op = "gc" /\ acc \notin Tables
      BY <1>0, <1>6 DEF GcStep, Resumes, AccOk, Quiet
    <2>2. cont'.op \in {"gc", "idle"} /\ UNCHANGED <<acc, status>>
      <3>1. cont \in [op : {"gc"}, at : Nat \ {0}]
        BY <1>0, <2>1, ContTypes
      <3> QED BY <1>6, <3>1 DEF GcStep
    <2> QED BY <1>0, <2>1, <2>2, NothingHeld
  <1>7. ASSUME LeaveStep PROVE HeldInv'
    <2>1. /\ cont.op = "leave" /\ work = <<>> /\ UNCHANGED <<gc, acc, status>>
          /\ cont'.op = "leave" \/ (cont' = Idle /\ work' = <<>>)
      BY <1>7 DEF LeaveStep, Resumes
    <2>4. \A x \in Vars \ Locals : mem'[x] = mem[x]
      <3>1. mem' = mem \/ \E l \in Locals : l \in Vars /\ mem' = [mem EXCEPT ![l] = Null]
        BY <1>7, VarsAssumption DEF LeaveStep, VarsAssumption
      <3> QED BY <1>0, <3>1, LocTypes DEF TypeOK
    <2>2. AccOk'
      BY <1>0, <2>1, <2>4, LocTypes DEF AccOk, Quiet
    <2>3. ContOk'
      BY <2>1 DEF ContOk
    <2> QED BY <1>0, <2>1, <2>2, <2>3 DEF HeldInv, OnlyLimitAborts
  <1> QED BY <1>1, <1>2, <1>3, <1>4, <1>5, <1>6, <1>7 DEF Step

(***************************************************************************)
(* The theorems                                                            *)
(***************************************************************************)
LEMMA HeapInit == Init => HeapInv
  <1> SUFFICES ASSUME Init PROVE HeapInv
    OBVIOUS
  <1>0. Null \notin Tables /\ TypeInv /\ NumTables \in Nat
    BY TypeInit, ValuesAssumption, SizeAssumption DEF ValuesAssumption, SizeAssumption
  <1>1. /\ free = Tables /\ used = 0 /\ rc = [t \in Tables |-> 0]
        /\ mem = [l \in Locs |-> Null] /\ gc = <<>> /\ work = <<>> /\ cont = Idle
        /\ acc = Null /\ status = "run" /\ leaked = [t \in Tables |-> 0]
    BY DEF Init
  <1>2. RefcountExact
    <2> SUFFICES ASSUME NEW t \in Tables
                 PROVE  rc[t] = Cardinality(LocRefs(t)) + Cardinality(GcRefs(t))
                                  + Cardinality(WorkRefs(t)) + leaked[t]
      BY DEF RefcountExact
    <2>1. LocRefs(t) = {} /\ GcRefs(t) = {} /\ WorkRefs(t) = {}
      BY <1>0, <1>1 DEF LocRefs, GcRefs, WorkRefs
    <2> QED BY <1>1, <2>1, FS_EmptySet
  <1>3. FreeIsBlank
    BY <1>1, LocTypes DEF FreeIsBlank
  <1>4. UsedExact
    BY <1>0, <1>1, TablesFinite DEF UsedExact
  <1>5. NoLostTable /\ SweepOk /\ ContOk /\ AccOk /\ OnlyLimitAborts
    BY <1>0, <1>1 DEF NoLostTable, SweepOk, ContOk, AccOk, OnlyLimitAborts
  <1> QED BY <1>0, <1>2, <1>3, <1>4, <1>5 DEF HeapInv

LEMMA HeapStep ==
  ASSUME HeapInv, [CarefulNext]_vars
  PROVE  HeapInv'
  <1>1. TypeInv'
    BY TypeStep DEF HeapInv
  <1>2. Effect
    BY NextEffect
  <1>3. RefcountExact'
    BY <1>2, ExactStep, ExactTotalNext
  <1>4. SlotInv'
    BY <1>2, SlotStep
  <1>5. HeldInv'
    <2>1. CASE UNCHANGED vars \/ Stopped
      <3>1. UNCHANGED <<mem, gc, work, cont, acc, status>>
        BY <2>1 DEF Stopped, vars
      <3> QED BY <3>1
              DEF HeapInv, HeldInv, ContOk, StoreOk, DelOk, Rooted, AccOk, Quiet,
                  OnlyLimitAborts
    <2> QED BY <2>1, ProgramHeld, RuntimeHeld, CarefulDelHeld, CarefulSetHeld,
               CarefulReturnHeld
            DEF CarefulNext
  <1> QED BY <1>1, <1>3, <1>4, <1>5 DEF HeapInv, SlotInv, HeldInv

\* The inductive invariant holds of every program that uses set_tabvalue and del
\* with care, at every step of every operation of the runtime (lua.c:679-846).
THEOREM HeapCorrect == CarefulSpec => []HeapInv
  <1>1. Init => HeapInv
    BY HeapInit
  <1>2. HeapInv /\ [CarefulNext]_vars => HeapInv'
    BY HeapStep
  <1> QED BY <1>1, <1>2, PTL DEF CarefulSpec

\* The refcount that _incref and _decref maintain is the number of references to
\* the table, for every number of tables, keys, variables and pending calls.
THEOREM RefcountAlwaysExact == CarefulSpec => []RefcountExact
  <1>1. HeapInv => RefcountExact
    BY DEF HeapInv
  <1> QED BY <1>1, HeapCorrect, PTL

\* Neither the program nor the runtime holds a reference to a slot that
\* _tab_decref has freed.
THEOREM NeverDangling == CarefulSpec => []NoDangling
  <1>1. ASSUME HeapInv PROVE NoDangling
    <2>0. /\ TypeOK /\ RefcountExact /\ AccOk /\ ContOk
          /\ free \subseteq Tables /\ \A t \in free : rc[t] = 0
      BY <1>1 DEF HeapInv, TypeInv, TypeOK, FreeIsBlank
    <2>1. \A l \in Locs : mem[l] \notin free
      BY <2>0, Referenced
    <2>2. \A i \in DOMAIN gc : gc[i] \notin free
      BY <2>0, Referenced
    <2>3. acc \notin free
      BY <2>0, AccAlive DEF Alive
    <2>4. cont.op = "store" => cont.val \notin free
      BY <2>0, StoreAlive DEF Alive
    <2> QED BY <2>1, <2>2, <2>3, <2>4 DEF NoDangling
  <1> QED BY <1>1, HeapCorrect, PTL

\* The slot make_table takes from the bitmap is an empty table without
\* references (lua.c:761-763).
THEOREM FreeAlwaysBlank == CarefulSpec => []FreeIsBlank
  <1>1. HeapInv => FreeIsBlank
    BY DEF HeapInv
  <1> QED BY <1>1, HeapCorrect, PTL

\* _tables.used tells whether there is a free slot: make_table grows the arena
\* when, and only when, there is none (lua.c:476, 498).
THEOREM UsedAlwaysExact == CarefulSpec => []UsedExact
  <1>1. HeapInv => UsedExact
    BY DEF HeapInv
  <1> QED BY <1>1, HeapCorrect, PTL

\* A table that is not free is referenced, or is being taken apart.
THEOREM NeverLost == CarefulSpec => []NoLostTable
  <1>1. HeapInv => NoLostTable
    BY DEF HeapInv
  <1> QED BY <1>1, HeapCorrect, PTL

\* The assertions of _decref and of make_table never fail.
THEOREM AssertionsHold == CarefulSpec => []OnlyLimitAborts
  <1>1. HeapInv => OnlyLimitAborts
    BY DEF HeapInv
  <1> QED BY <1>1, HeapCorrect, PTL

\* While _tab_decref recurses, only fields of tables without references change.
THEOREM SweepsOnlyGarbage == CarefulSpec => SweepTouchesOnlyGarbage
  <1> DEFINE P == work # <<>> =>
                    \A t \in Tables, k \in Keys \cup {Meta} :
                      mem'[<<t, k>>] # mem[<<t, k>>] => LocRefs(t) \cup GcRefs(t) = {}
  <1>1. ASSUME HeapInv, [CarefulNext]_vars PROVE [P]_vars
    <2>0. TypeOK /\ RefcountExact /\ SweepOk
      BY <1>1 DEF HeapInv, TypeInv
    <2>1. CASE UNCHANGED mem
      BY <2>1
    <2>2. ASSUME SweepField \/ SweepFree PROVE P
      <3>1. Top \in WorkItems /\ Top.tab \in Tables /\ work # <<>> /\ Top.op = "sweep"
        BY <2>0, <2>2, WorkSplit DEF SweepField, SweepFree, WorkItems
      <3>2. Len(work) \in DOMAIN work /\ work[Len(work)] = Top
        BY <2>0, <3>1, RestType DEF TypeOK, Top
      <3>3. ~(rc[Top.tab] > 0)
        BY <2>0, <3>1, <3>2 DEF SweepOk
      <3>4. LocRefs(Top.tab) = {} /\ GcRefs(Top.tab) = {}
        BY <2>0, <3>1, <3>3, Referenced DEF LocRefs, GcRefs
      <3>5. PICK j \in Keys \cup {Meta} : mem' = [mem EXCEPT ![<<Top.tab, j>>] = Null]
        BY <2>2 DEF SweepField, SweepFree
      <3>6. ASSUME NEW t \in Tables, NEW k \in Keys \cup {Meta}, t # Top.tab
            PROVE  mem'[<<t, k>>] = mem[<<t, k>>]
        BY <2>0, <3>5, <3>6, LocTypes DEF TypeOK
      <3> QED BY <3>4, <3>6
    <2>3. CASE work = <<>>
      BY <2>3
    <2>4. work # <<>> => UNCHANGED mem \/ SweepField \/ SweepFree
      <3>1. CASE Operation
        BY <3>1
        DEF Operation, make_table, Literal, Discard, getmetatable, Read, set, add,
            setmetatable, Return, get_tabvalue, Call, ReturnNil, run_gc, del, Ready, Quiet
      <3>2. CASE Step
        BY <3>2
        DEF Step, DecStep, Abort, StoreStep, DelScan, DelLast, GcStep, LeaveStep, Resumes
      <3>3. CASE \E c \in Vars : \/ CarefulDel(c)
                                 \/ \E k \in Keys : CarefulSet(c, k) \/ CarefulReturn(c, k)
        BY <3>3
        DEF CarefulDel, CarefulSet, CarefulReturn, ReturnField, del, set_tabvalue, Ready, Quiet
      <3>4. CASE UNCHANGED vars \/ Stopped
        BY <3>4 DEF Stopped, vars
      <3> QED BY <1>1, <3>1, <3>2, <3>3, <3>4 DEF CarefulNext
    <2> QED BY <2>1, <2>2, <2>3, <2>4
  <1> QED BY <1>1, HeapCorrect, PTL DEF CarefulSpec, SweepTouchesOnlyGarbage

(***************************************************************************)
(* Every operation of the runtime ends.  Effort bounds the steps that are  *)
(* left: a value stored in a place can become a pending call, a pending    *)
(* call a sweep, and what the interrupted function has still to do is      *)
(* bounded by its loop.                                                    *)
(***************************************************************************)
Filled(m) == Cardinality({l \in Locs : m[l] # Null})
Load(w)   == Len(w) + Cardinality({i \in DOMAIN w : w[i].op # "sweep"})

\* What is left of the loops of del and run_gc (with n entries to visit), and of
\* the assignments in set_tabvalue
LeftOfDel(d)   == IF d.want <= NumKeys THEN 5 * (NumKeys + 1 - d.want) + 1 ELSE 1
LeftOfGc(c, n) == IF c.at <= n THEN 3 * (n + 1 - c.at) + 1 ELSE 1
Left(c, n) ==
  CASE c.op = "leave" -> 1
    [] c.op = "gc"    -> LeftOfGc(c, n)
    [] c.op = "del"   -> LeftOfDel(c)
    [] c.op = "store" -> 4 + (IF c.next.op = "del" THEN LeftOfDel(c.next) ELSE 0)
    [] c.op = "idle"  -> 0

Effort == 3 * Filled(mem) + Load(work) + Left(cont, Len(gc))

LEMMA FilledType ==
  ASSUME NEW m
  PROVE  Filled(m) \in Nat
  BY LocsFinite, FS_Subset, FS_CardinalityType DEF Filled

\* A place that is emptied, and one that is written.
LEMMA FilledErase ==
  ASSUME NEW m \in [Locs -> Values], NEW l \in Locs, m[l] # Null
  PROVE  Filled([m EXCEPT ![l] = Null]) = Filled(m) - 1
  <1> DEFINE F == {x \in Locs : m[x] # Null}
             G == {x \in Locs : [m EXCEPT ![l] = Null][x] # Null}
  <1>1. IsFiniteSet(F) /\ l \in F
    BY LocsFinite, FS_Subset
  <1>2. G = F \ {l}
    OBVIOUS
  <1> HIDE DEF F, G
  <1>3. Cardinality(G) = Cardinality(F) - 1
    BY <1>1, <1>2, FS_RemoveElement
  <1> QED BY <1>3 DEF Filled, F, G

LEMMA FilledStore ==
  ASSUME NEW m \in [Locs -> Values], NEW l \in Locs, NEW v
  PROVE  Filled([m EXCEPT ![l] = v]) <= Filled(m) + 1
  <1> DEFINE F == {x \in Locs : m[x] # Null}
             G == {x \in Locs : [m EXCEPT ![l] = v][x] # Null}
  <1>1. IsFiniteSet(F) /\ IsFiniteSet(F \cup {l})
    BY LocsFinite, FS_Subset
  <1>2. G \subseteq F \cup {l}
    OBVIOUS
  <1> HIDE DEF F, G
  <1>3. Cardinality(F \cup {l}) <= Cardinality(F) + 1 /\ Cardinality(F) \in Nat
    BY <1>1, FS_AddElement, FS_CardinalityType
  <1>4. Cardinality(G) <= Cardinality(F \cup {l}) /\ Cardinality(G) \in Nat
    BY <1>1, <1>2, FS_Subset, FS_CardinalityType
  <1>5. Cardinality(F \cup {l}) \in Nat
    BY <1>1, FS_CardinalityType
  <1> QED BY <1>3, <1>4, <1>5 DEF Filled, F, G

LEMMA LoadType ==
  ASSUME NEW w \in Seq(WorkItems)
  PROVE  Load(w) \in Nat
  <1>1. IsFiniteSet(DOMAIN w)
    BY FS_Interval
  <1>2. IsFiniteSet({i \in DOMAIN w : w[i].op # "sweep"})
    BY <1>1, FS_Subset
  <1> QED BY <1>2, FS_CardinalityType DEF Load

LEMMA LoadPush ==
  ASSUME NEW w \in Seq(WorkItems), NEW e \in WorkItems
  PROVE  Load(Append(w, e)) = Load(w) + (IF e.op = "sweep" THEN 1 ELSE 2)
  <1> DEFINE n == Len(w) + 1
             a == Append(w, e)
             C == {i \in DOMAIN w : w[i].op # "sweep"}
             D == {i \in DOMAIN a : a[i].op # "sweep"}
  <1>1. /\ DOMAIN a = DOMAIN w \cup {n} /\ n \notin DOMAIN w /\ Len(a) = n
        /\ a[n] = e /\ \A i \in DOMAIN w : a[i] = w[i]
    BY AppendProperties
  <1> HIDE DEF a
  <1>2. D = IF e.op = "sweep" THEN C ELSE C \cup {n}
    BY <1>1
  <1>3. IsFiniteSet(DOMAIN w)
    BY FS_Interval
  <1>4. IsFiniteSet(C) /\ n \notin C
    BY <1>1, <1>3, FS_Subset
  <1>5. Cardinality(C \cup {n}) = Cardinality(C) + 1 /\ Cardinality(C) \in Nat
    BY <1>4, FS_AddElement, FS_CardinalityType
  <1> HIDE DEF C, D
  <1>6. Cardinality(D) = Cardinality(C) + (IF e.op = "sweep" THEN 0 ELSE 1)
    BY <1>2, <1>5
  <1>7. Load(w) = Len(w) + Cardinality(C) /\ Load(a) = n + Cardinality(D)
    BY <1>1 DEF Load, C, D
  <1>8. Len(w) \in Nat
    OBVIOUS
  <1> QED BY <1>5, <1>6, <1>7, <1>8 DEF a

LEMMA LoadPending ==
  ASSUME NEW w \in Seq(WorkItems), NEW v
  PROVE  Load(Pending(w, v)) \in Load(w) .. Load(w) + (IF v \in Tables THEN 2 ELSE 0)
  <1>1. CASE v \in Tables
    <2>1. [op |-> "dec", tab |-> v] \in WorkItems
      BY <1>1 DEF WorkItems
    <2>2. Load(Append(w, [op |-> "dec", tab |-> v])) = Load(w) + 2
      BY <2>1, LoadPush
    <2> QED BY <1>1, <2>2, LoadType DEF Pending
  <1>2. CASE v \notin Tables
    BY <1>2, LoadType DEF Pending
  <1> QED BY <1>1, <1>2

LEMMA LoadRest ==
  ASSUME TypeOK, work # <<>>
  PROVE  Rest \in Seq(WorkItems)
         /\ Load(work) = Load(Rest) + (IF Top.op = "sweep" THEN 1 ELSE 2)
  BY WorkSplit, LoadPush

LEMMA LeftType ==
  ASSUME NEW c \in Conts, NEW n \in Nat
  PROVE  Left(c, n) \in Nat
  <1>1. NumKeys \in Nat
    BY SizeAssumption DEF SizeAssumption
  <1>2. ASSUME NEW d \in DelConts PROVE LeftOfDel(d) \in Nat
    BY <1>1 DEF DelConts, LeftOfDel
  <1>3. CASE c \in [op : {"gc"}, at : Nat \ {0}]
    BY <1>3 DEF Left, LeftOfGc
  <1>4. CASE c \in DelConts
    <2>1. c.op = "del"
      BY <1>4 DEF DelConts
    <2> QED BY <1>2, <1>4, <2>1 DEF Left
  <1>5. CASE c \in [op : {"store"}, loc : Tables \X Keys, val : Values,
                    next : {Idle} \cup DelConts]
    <2>1. c.op = "store" /\ (c.next = Idle \/ c.next \in DelConts)
      BY <1>5
    <2>2. Left(c, n) = 4 + (IF c.next.op = "del" THEN LeftOfDel(c.next) ELSE 0)
      BY <2>1 DEF Left
    <2>3. Idle.op # "del"
      OBVIOUS
    <2> QED BY <1>2, <2>1, <2>2, <2>3
  <1>6. CASE c = Idle \/ c \in [op : {"leave"}]
    BY <1>6 DEF Left
  <1> QED BY <1>3, <1>4, <1>5, <1>6 DEF Conts

\* At most this many steps are left.
LEMMA EffortType ==
  ASSUME TypeOK
  PROVE  Effort \in Nat
  <1>1. work \in Seq(WorkItems) /\ cont \in Conts /\ Len(gc) \in Nat
    BY DEF TypeOK
  <1>2. Filled(mem) \in Nat /\ Load(work) \in Nat /\ Left(cont, Len(gc)) \in Nat
    BY <1>1, FilledType, LoadType, LeftType
  <1>3. ASSUME NEW x \in Nat, NEW y \in Nat, NEW z \in Nat PROVE 3 * x + y + z \in Nat
    OBVIOUS
  <1> QED BY <1>2, <1>3 DEF Effort

\* What an action changes of the three summands.
LEMMA Less ==
  ASSUME TypeOK, TypeOK', NEW d \in Int, NEW e \in Int, NEW f \in Int,
         Filled(mem') <= Filled(mem) + d, Load(work') <= Load(work) + e,
         Left(cont', Len(gc')) <= Left(cont, Len(gc)) + f, 3 * d + e + f < 0
  PROVE  Effort' < Effort
  <1>1. /\ Len(gc) \in Nat /\ work \in Seq(WorkItems) /\ cont \in Conts
        /\ Len(gc') \in Nat /\ work' \in Seq(WorkItems) /\ cont' \in Conts
    BY DEF TypeOK
  <1>2. PICK x \in Nat, y \in Nat, z \in Nat :
          x = Filled(mem) /\ y = Load(work) /\ z = Left(cont, Len(gc))
    BY <1>1, FilledType, LoadType, LeftType
  <1>3. PICK u \in Nat, v \in Nat, w \in Nat :
          u = Filled(mem') /\ v = Load(work') /\ w = Left(cont', Len(gc'))
    BY <1>1, FilledType, LoadType, LeftType
  <1>4. Effort = 3 * x + y + z
    BY <1>2 DEF Effort
  <1>5. Effort' = 3 * u + v + w
    BY <1>3 DEF Effort
  <1>6. u <= x + d /\ v <= y + e /\ w <= z + f
    BY <1>2, <1>3
  <1>7. 3 * u + v + w < 3 * x + y + z
    BY <1>6
  <1> QED BY <1>4, <1>5, <1>7

\* The recursion of _tab_decref
LEMMA RecursionEnds ==
  ASSUME HeapInv, TypeOK', DecStep \/ SweepField \/ SweepFree
  PROVE  Effort' < Effort \/ status' = "dead"
  <1>0. TypeOK /\ mem \in [Locs -> Values] /\ work \in Seq(WorkItems) /\ work # <<>>
    BY DEF HeapInv, TypeInv, TypeOK, DecStep, SweepField, SweepFree
  <1>1. /\ Rest \in Seq(WorkItems) /\ Top \in WorkItems /\ Top.tab \in Tables
        /\ Load(work) = Load(Rest) + (IF Top.op = "sweep" THEN 1 ELSE 2)
        /\ Load(work) \in Nat /\ Load(Rest) \in Nat /\ Filled(mem) \in Nat
        /\ Left(cont, Len(gc)) \in Nat
    <2>1. Rest \in Seq(WorkItems) /\ Top \in WorkItems
          /\ Load(work) = Load(Rest) + (IF Top.op = "sweep" THEN 1 ELSE 2)
      BY <1>0, LoadRest, WorkSplit
    <2>2. Top.tab \in Tables
      BY <2>1 DEF WorkItems
    <2>3. cont \in Conts /\ Len(gc) \in Nat
      BY <1>0 DEF TypeOK
    <2> QED BY <1>0, <2>1, <2>2, <2>3, LoadType, FilledType, LeftType
  <1>2. ASSUME DecStep, status' # "dead" PROVE Effort' < Effort
    <2>1. /\ Top.op # "sweep" /\ UNCHANGED <<mem, cont, gc>>
          /\ (work' = Rest \/ work' = Append(Rest, [op |-> "sweep", tab |-> Top.tab]))
      BY <1>2 DEF DecStep, Abort
    <2>2. [op |-> "sweep", tab |-> Top.tab] \in WorkItems
      BY <1>1 DEF WorkItems
    <2>3. Load(Append(Rest, [op |-> "sweep", tab |-> Top.tab])) = Load(Rest) + 1
      BY <1>1, <2>2, LoadPush
    <2>4. Load(work') <= Load(work) + (-1)
      <3>1. Load(work) = Load(Rest) + 2
        BY <1>1, <2>1
      <3>2. Load(work') = Load(Rest) \/ Load(work') = Load(Rest) + 1
        BY <2>1, <2>3
      <3> QED BY <1>1, <3>1, <3>2
    <2>5. Filled(mem') <= Filled(mem) + 0 /\ Left(cont', Len(gc')) <= Left(cont, Len(gc)) + 0
      BY <1>1, <2>1
    <2> QED BY <1>0, <2>4, <2>5, Less
  <1>3. ASSUME SweepField PROVE Effort' < Effort
    <2>1. PICK k \in Keys :
            /\ mem[<<Top.tab, k>>] # Null
            /\ work' = Pending(work, mem[<<Top.tab, k>>])
            /\ mem'  = [mem EXCEPT ![<<Top.tab, k>>] = Null]
      BY <1>3 DEF SweepField
    <2>2. UNCHANGED <<cont, gc>>
      BY <1>3 DEF SweepField
    <2>3. Filled(mem') <= Filled(mem) + (-1)
      <3>1. <<Top.tab, k>> \in Locs
        BY <1>1, LocTypes
      <3>2. Filled(mem') = Filled(mem) - 1
        BY <1>0, <2>1, <3>1, FilledErase
      <3> QED BY <1>1, <3>2
    <2>4. Load(work') <= Load(work) + 2
      BY <1>0, <1>1, <2>1, LoadPending
    <2>5. Left(cont', Len(gc')) <= Left(cont, Len(gc)) + 0
      BY <1>1, <2>2
    <2> QED BY <1>0, <2>3, <2>4, <2>5, Less
  <1>4. ASSUME SweepFree PROVE Effort' < Effort
    <2> DEFINE v == mem[<<Top.tab, Meta>>]
    <2>1. /\ Top.op = "sweep" /\ UNCHANGED <<cont, gc>>
          /\ work' = Pending(Rest, v)
          /\ mem'  = [mem EXCEPT ![<<Top.tab, Meta>>] = Null]
      BY <1>4 DEF SweepFree
    <2>2. <<Top.tab, Meta>> \in Locs
      BY <1>1, LocTypes
    <2>3. Left(cont', Len(gc')) <= Left(cont, Len(gc)) + 0
      BY <1>1, <2>1
    <2>4. CASE v \in Tables
      <3>1. v # Null
        BY <2>4, ValuesAssumption DEF ValuesAssumption
      <3>2. Filled(mem') <= Filled(mem) + (-1)
        <4>1. Filled(mem') = Filled(mem) - 1
          BY <1>0, <2>1, <2>2, <3>1, FilledErase
        <4> QED BY <1>1, <4>1
      <3>3. Load(work') <= Load(work) + 1
        BY <1>1, <2>1, <2>4, LoadPending
      <3> QED BY <1>0, <2>3, <3>2, <3>3, Less
    <2>5. CASE v \notin Tables
      <3>1. v = Null
        BY <1>0, <1>1, <2>2, <2>5 DEF TypeOK, Values
      <3>2. mem' = mem
        BY <1>0, <2>1, <2>2, <3>1
      <3>3. Load(work') <= Load(work) + (-1)
        BY <1>1, <2>1, <2>5 DEF Pending
      <3>4. Filled(mem') <= Filled(mem) + 0
        BY <1>1, <3>2
      <3> QED BY <1>0, <2>3, <3>3, <3>4, Less
    <2> QED BY <2>4, <2>5
  <1> QED BY <1>2, <1>3, <1>4

\* What follows the recursion: the second half of set_tabvalue
LEMMA StoreEnds ==
  ASSUME TypeOK, TypeOK', StoreStep
  PROVE  Effort' < Effort \/ status' = "limit"
  <1>1. CASE Abort("limit")
    BY <1>1 DEF Abort
  <1>2. CASE ~Abort("limit")
    <2>1. /\ cont.op = "store" /\ mem' = [mem EXCEPT ![cont.loc] = cont.val]
          /\ cont' = cont.next /\ UNCHANGED <<gc, work>>
      BY <1>2 DEF StoreStep, Resumes
    <2>2. /\ cont.loc \in Tables \X Keys /\ cont.next \in {Idle} \cup DelConts
          /\ mem \in [Locs -> Values] /\ work \in Seq(WorkItems) /\ Len(gc) \in Nat
          /\ cont \in Conts
      BY <2>1, ContTypes DEF TypeOK
    <2>3. cont.loc \in Locs
      BY <2>2 DEF Locs
    <2>4. Filled(mem') <= Filled(mem) + 1
      BY <2>1, <2>2, <2>3, FilledStore
    <2>5. Load(work') <= Load(work) + 0
      BY <2>1, <2>2, LoadType
    <2>6. Left(cont, Len(gc)) = 4 + (IF cont.next.op = "del" THEN LeftOfDel(cont.next) ELSE 0)
      BY <2>1 DEF Left
    <2>7. Left(cont.next, Len(gc)) = IF cont.next.op = "del" THEN LeftOfDel(cont.next) ELSE 0
      <3>1. CASE cont.next = Idle
        BY <3>1 DEF Left
      <3>2. CASE cont.next \in DelConts
        <4>1. cont.next.op = "del"
          BY <3>2 DEF DelConts
        <4> QED BY <4>1 DEF Left
      <3> QED BY <2>2, <3>1, <3>2
    <2>8. Left(cont.next, Len(gc)) \in Nat
      <3>1. cont.next \in Conts
        BY <2>2 DEF Conts
      <3> QED BY <2>2, <3>1, LeftType
    <2>9. Left(cont', Len(gc')) <= Left(cont, Len(gc)) + (-4)
      <3>1. Left(cont, Len(gc)) = 4 + Left(cont.next, Len(gc))
        BY <2>6, <2>7
      <3>2. Left(cont', Len(gc')) = Left(cont.next, Len(gc))
        BY <2>1
      <3> QED BY <2>8, <3>1, <3>2
    <2> QED BY <2>4, <2>5, <2>9, Less
  <1> QED BY <1>1, <1>2

\* The loop of del comes nearer to its end with every index that exists.
LEMMA DelShorter ==
  ASSUME NEW c \in DelConts, NEW d \in DelConts, c.want \in Keys, d.want = c.want + 1
  PROVE  LeftOfDel(d) = LeftOfDel(c) - 5
  <1>1. NumKeys \in Nat /\ c.want \in Nat /\ c.want <= NumKeys
    BY SizeAssumption DEF SizeAssumption, Keys
  <1>2. LeftOfDel(c) = 5 * (NumKeys + 1 - c.want) + 1
    BY <1>1 DEF LeftOfDel
  <1>3. CASE c.want = NumKeys
    <2>1. ~(d.want <= NumKeys)
      BY <1>1, <1>3
    <2> QED BY <1>1, <1>2, <1>3, <2>1 DEF LeftOfDel
  <1>4. CASE c.want < NumKeys
    <2>1. d.want <= NumKeys
      BY <1>1, <1>4
    <2>2. LeftOfDel(d) = 5 * (NumKeys + 1 - (c.want + 1)) + 1
      BY <2>1 DEF LeftOfDel
    <2> QED BY <1>1, <1>2, <2>2
  <1> QED BY <1>1, <1>3, <1>4

LEMMA DelScanEnds ==
  ASSUME TypeOK, TypeOK', DelScan
  PROVE  Effort' < Effort
  <1>1. cont \in DelConts /\ cont.want \in Keys /\ cont.op = "del"
    BY DelScanCases DEF DelConts
  <1>2. /\ mem \in [Locs -> Values] /\ work \in Seq(WorkItems) /\ Len(gc) \in Nat
        /\ Load(work) \in Nat /\ Filled(mem) \in Nat /\ Left(cont, Len(gc)) \in Nat
    <2>1. mem \in [Locs -> Values] /\ work \in Seq(WorkItems) /\ Len(gc) \in Nat /\ cont \in Conts
      BY DEF TypeOK
    <2> QED BY <2>1, LoadType, FilledType, LeftType
  <1>3. Left(cont, Len(gc)) = LeftOfDel(cont)
    BY <1>1 DEF Left
  <1>4. ASSUME UNCHANGED <<mem, gc, work>>, cont' \in DelConts, cont'.want = cont.want + 1
        PROVE  Effort' < Effort
    <2>1. cont'.op = "del"
      BY <1>4 DEF DelConts
    <2>2. Left(cont', Len(gc')) = LeftOfDel(cont')
      BY <2>1 DEF Left
    <2>3. LeftOfDel(cont') = LeftOfDel(cont) - 5
      BY <1>1, <1>4, DelShorter
    <2>4. Left(cont', Len(gc')) <= Left(cont, Len(gc)) + (-5)
      BY <1>2, <1>3, <2>2, <2>3
    <2>5. Filled(mem') <= Filled(mem) + 0 /\ Load(work') <= Load(work) + 0
      BY <1>2, <1>4
    <2> QED BY <2>4, <2>5, Less
  <1>5. ASSUME NEW next \in DelConts, cont.last \in Keys, next.want = cont.want + 1,
               Overwrite(cont.tab, cont.last, mem[<<cont.tab, cont.want>>], next)
        PROVE  Effort' < Effort
    <2> DEFINE l == <<cont.tab, cont.last>>
    <2>1. /\ mem[l] # Null /\ work' = Pending(work, mem[l])
          /\ mem' = [mem EXCEPT ![l] = Null] /\ gc' = gc
          /\ cont'.op = "store" /\ cont'.next = next
      BY <1>5 DEF Overwrite
    <2>2. l \in Locs
      BY <1>1, <1>5, LocTypes DEF DelConts
    <2> HIDE DEF l
    <2>3. Filled(mem') <= Filled(mem) + (-1)
      <3>1. Filled(mem') = Filled(mem) - 1
        BY <1>2, <2>1, <2>2, FilledErase
      <3> QED BY <1>2, <3>1
    <2>4. Load(work') <= Load(work) + 2
      BY <1>2, <2>1, LoadPending
    <2>5. Left(cont', Len(gc')) = 4 + LeftOfDel(next)
      <3>1. next.op = "del"
        BY DEF DelConts
      <3> QED BY <2>1, <3>1 DEF Left
    <2>6. LeftOfDel(next) = LeftOfDel(cont) - 5
      BY <1>1, <1>5, DelShorter
    <2>7. Left(cont', Len(gc')) <= Left(cont, Len(gc)) + (-1)
      BY <1>2, <1>3, <2>5, <2>6
    <2> QED BY <2>3, <2>4, <2>7, Less
  <1> QED BY <1>4, <1>5, DelScanCases

\* The last steps of del, run_gc and the cleanup of locals, and one entry or one
\* local before
LEMMA DelLastEnds ==
  ASSUME TypeOK, TypeOK', DelLast
  PROVE  Effort' < Effort
  <1>1. /\ mem \in [Locs -> Values] /\ work \in Seq(WorkItems) /\ Len(gc) \in Nat
        /\ cont.op = "del" /\ cont' = Idle /\ work' = work
    BY DEF TypeOK, DelLast, Resumes
  <1>2. cont \in DelConts
    BY <1>1, ContTypes
  <1>3. Filled(mem') <= Filled(mem) + 0
    <2>1. CASE mem' = mem
      BY <2>1, FilledType
    <2>2. ASSUME cont.last # 0, mem' = [mem EXCEPT ![<<cont.tab, cont.last>>] = Null]
          PROVE  Filled(mem') <= Filled(mem) + 0
      <3> DEFINE l == <<cont.tab, cont.last>>
      <3>1. l \in Locs
        BY <1>2, <2>2, LocTypes DEF DelConts
      <3>2. CASE mem[l] = Null
        <4>1. mem' = mem
          BY <1>1, <2>2, <3>1, <3>2
        <4> QED BY <4>1, FilledType
      <3>3. CASE mem[l] # Null
        <4>1. Filled(mem') = Filled(mem) - 1
          BY <1>1, <2>2, <3>1, <3>3, FilledErase
        <4>2. Filled(mem) \in Nat
          BY FilledType
        <4> QED BY <4>1, <4>2
      <3> QED BY <3>2, <3>3
    <2> QED BY <2>1, <2>2 DEF DelLast
  <1>4. Load(work') <= Load(work) + 0
    BY <1>1, LoadType
  <1>5. Left(cont', Len(gc')) <= Left(cont, Len(gc)) + (-1)
    <2>1. Left(cont', Len(gc')) = 0
      BY <1>1 DEF Left
    <2>2. Left(cont, Len(gc)) = LeftOfDel(cont)
      BY <1>1 DEF Left
    <2>3. LeftOfDel(cont) \in Nat \ {0}
      <3>1. NumKeys \in Nat /\ cont.want \in Nat
        BY <1>2, SizeAssumption DEF DelConts, SizeAssumption
      <3> QED BY <3>1 DEF LeftOfDel
    <2> QED BY <2>1, <2>2, <2>3
  <1> QED BY <1>3, <1>4, <1>5, Less

LEMMA GcEnds ==
  ASSUME TypeOK, TypeOK', GcStep
  PROVE  Effort' < Effort
  <1>1. /\ mem' = mem /\ work \in Seq(WorkItems) /\ Len(gc) \in Nat /\ DOMAIN gc = 1 .. Len(gc)
        /\ cont.op = "gc" /\ gc \in Seq(Tables \cup {Null})
    BY DEF TypeOK, GcStep, Resumes
  <1>2. cont \in [op : {"gc"}, at : Nat \ {0}]
    BY <1>1, ContTypes
  <1>3. Filled(mem') <= Filled(mem) + 0
    BY <1>1, FilledType
  <1>4. Left(cont, Len(gc)) = LeftOfGc(cont, Len(gc))
    BY <1>1 DEF Left
  <1>5. CASE cont.at \in DOMAIN gc /\ gc[cont.at] # Null
    <2>1. /\ work' = Append(work, [op |-> "gcdec", tab |-> gc[cont.at]])
          /\ gc' = [gc EXCEPT ![cont.at] = Null] /\ cont' = [cont EXCEPT !.at = @ + 1]
      BY <1>5 DEF GcStep
    <2>2. gc[cont.at] \in Tables
      BY <1>1, <1>5
    <2>3. Load(work') <= Load(work) + 2
      <3>1. [op |-> "gcdec", tab |-> gc[cont.at]] \in WorkItems
        BY <2>2 DEF WorkItems
      <3>2. Load(work') = Load(work) + 2
        BY <1>1, <2>1, <3>1, LoadPush
      <3>3. Load(work) \in Nat
        BY <1>1, LoadType
      <3> QED BY <3>2, <3>3
    <2>4. Len(gc') = Len(gc) /\ cont'.op = "gc" /\ cont'.at = cont.at + 1
      BY <1>1, <1>2, <2>1
    <2>5. Left(cont', Len(gc')) = LeftOfGc(cont', Len(gc))
      BY <2>4 DEF Left
    <2>6. LeftOfGc(cont', Len(gc)) = LeftOfGc(cont, Len(gc)) - 3
      BY <1>1, <1>2, <1>5, <2>4 DEF LeftOfGc
    <2>7. LeftOfGc(cont, Len(gc)) \in Nat
      BY <1>1, <1>2 DEF LeftOfGc
    <2>8. Left(cont', Len(gc')) <= Left(cont, Len(gc)) + (-3)
      BY <1>4, <2>5, <2>6, <2>7
    <2> QED BY <1>3, <2>3, <2>8, Less
  <1>6. CASE ~(cont.at \in DOMAIN gc /\ gc[cont.at] # Null)
    <2>1. work' = work /\ cont' = Idle
      BY <1>6 DEF GcStep
    <2>2. Load(work') <= Load(work) + 0
      BY <1>1, <2>1, LoadType
    <2>3. Left(cont', Len(gc')) = 0
      BY <2>1 DEF Left
    <2>4. LeftOfGc(cont, Len(gc)) \in Nat \ {0}
      BY <1>1, <1>2 DEF LeftOfGc
    <2>5. Left(cont', Len(gc')) <= Left(cont, Len(gc)) + (-1)
      BY <1>4, <2>3, <2>4
    <2> QED BY <1>3, <2>2, <2>5, Less
  <1> QED BY <1>5, <1>6

LEMMA LeaveEnds ==
  ASSUME TypeOK, TypeOK', LeaveStep
  PROVE  Effort' < Effort
  <1>1. /\ mem \in [Locs -> Values] /\ work \in Seq(WorkItems) /\ cont \in Conts
        /\ Len(gc) \in Nat /\ gc' = gc /\ cont.op = "leave"
    BY DEF TypeOK, LeaveStep, Resumes
  <1>2. Filled(mem) \in Nat /\ Load(work) \in Nat /\ Left(cont, Len(gc)) \in Nat
    BY <1>1, FilledType, LoadType, LeftType
  <1>3. ASSUME NEW l \in Locals, mem[l] # Null, work' = Pending(work, mem[l]),
               mem' = [mem EXCEPT ![l] = Null], cont' = cont
        PROVE  Effort' < Effort
    <2>1. l \in Locs
      BY VarsAssumption DEF Locs, VarsAssumption
    <2>2. Filled(mem') = Filled(mem) - 1
      BY <1>1, <1>3, <2>1, FilledErase
    <2>3. Filled(mem') <= Filled(mem) + (-1)
      BY <1>2, <2>2
    <2>4. Load(work') <= Load(work) + 2
      BY <1>1, <1>2, <1>3, LoadPending
    <2>5. Left(cont', Len(gc')) <= Left(cont, Len(gc)) + 0
      BY <1>1, <1>2, <1>3
    <2> QED BY <2>3, <2>4, <2>5, Less
  <1>4. ASSUME cont' = Idle, UNCHANGED <<work, mem>>
        PROVE  Effort' < Effort
    <2>1. Left(cont', Len(gc')) = 0 /\ Left(cont, Len(gc)) = 1
      BY <1>1, <1>4 DEF Left
    <2>2. Left(cont', Len(gc')) <= Left(cont, Len(gc)) + (-1)
      BY <2>1
    <2>3. Filled(mem') <= Filled(mem) + 0 /\ Load(work') <= Load(work) + 0
      BY <1>2, <1>4
    <2> QED BY <2>2, <2>3, Less
  <1> QED BY <1>3, <1>4 DEF LeaveStep

\* While an operation of the runtime is being executed, every step of the program
\* is one of that operation, and leaves fewer to be done; but for the assertion on
\* the limit of refcounts, which ends the program.
EachStepIsProgress ==
  [][~Quiet => Effort' < Effort \/ status' = "limit"]_vars

LEMMA StepEnds ==
  ASSUME HeapInv, HeapInv', Step
  PROVE  Effort' < Effort \/ status' = "limit"
  <1>1. TypeOK /\ TypeOK' /\ status' # "dead"
    BY DEF HeapInv, TypeInv, OnlyLimitAborts
  <1>2. CASE DecStep \/ SweepField \/ SweepFree
    BY <1>1, <1>2, RecursionEnds
  <1>3. CASE StoreStep
    BY <1>1, <1>3, StoreEnds
  <1>4. CASE DelScan \/ DelLast
    BY <1>1, <1>4, DelScanEnds, DelLastEnds
  <1>5. CASE GcStep \/ LeaveStep
    BY <1>1, <1>5, GcEnds, LeaveEnds
  <1> QED BY <1>2, <1>3, <1>4, <1>5 DEF Step

\* The recursion of _tab_decref ends on every graph of tables, cycles and deep
\* chains included, and so do the loops of del and run_gc, the second half of
\* set_tabvalue and the cleanup of locals (lua.c:699-771, lua_table.c:60-84).
THEOREM OperationsProgress ==
  CarefulSpec => [](Effort \in Nat) /\ EachStepIsProgress
  <1>1. HeapInv => Effort \in Nat
    BY EffortType DEF HeapInv, TypeInv
  <1>2. HeapInv /\ HeapInv' /\ [CarefulNext]_vars =>
          [~Quiet => Effort' < Effort \/ status' = "limit"]_vars
    <2> SUFFICES ASSUME HeapInv, HeapInv', CarefulNext, ~Quiet
                 PROVE  Effort' < Effort \/ status' = "limit" \/ UNCHANGED vars
      OBVIOUS
    <2>1. ~Operation
      BY DEF Operation, make_table, Literal, Discard, getmetatable, Read, set, add,
             setmetatable, Return, get_tabvalue, Call, ReturnNil, run_gc, del, Ready
    <2>2. ~ \E c \in Vars : \/ CarefulDel(c)
                            \/ \E k \in Keys : CarefulSet(c, k) \/ CarefulReturn(c, k)
      BY DEF CarefulDel, CarefulSet, CarefulReturn, ReturnField, del, set_tabvalue, Ready
    <2>3. Step \/ UNCHANGED vars
      BY <2>1, <2>2 DEF CarefulNext, Stopped
    <2> QED BY <2>3, StepEnds
  <1> QED BY <1>1, <1>2, HeapCorrect, PTL DEF CarefulSpec, EachStepIsProgress

\* Between two operations all garbage but cycles, and but the tables whose reference
\* setmetatable overwrote, has been given back.
THEOREM GarbageIsGivenBack == CarefulSpec => []OwnedWhenQuiet
  <1>1. HeapInv => OwnedWhenQuiet
    <2> SUFFICES ASSUME HeapInv, Quiet, NEW t \in Tables, t \notin free PROVE Owned(t)
      BY DEF OwnedWhenQuiet
    <2>1. TypeOK /\ RefcountExact /\ FreeIsBlank /\ NoLostTable /\ work = <<>>
      BY DEF HeapInv, TypeInv, Quiet
    <2>2. rc[t] > 0
      BY <2>1 DEF NoLostTable, Swept
    <2>3. WorkRefs(t) = {}
      BY <2>1 DEF WorkRefs
    <2>4. Cardinality(WorkRefs(t)) = 0
      BY <2>3, FS_EmptySet
    <2>5. rc[t] = Cardinality(LocRefs(t)) + Cardinality(GcRefs(t)) + leaked[t]
      <3>1. Cardinality(LocRefs(t)) \in Nat /\ Cardinality(GcRefs(t)) \in Nat /\ leaked[t] \in Nat
        BY <2>1, LocCount, GcCount DEF TypeOK
      <3> QED BY <2>1, <2>4, <3>1 DEF RefcountExact
    <2>6. leaked[t] > 0 \/ LocRefs(t) # {} \/ GcRefs(t) # {}
      <3> SUFFICES ASSUME LocRefs(t) = {}, GcRefs(t) = {} PROVE leaked[t] > 0
        OBVIOUS
      <3>1. Cardinality(LocRefs(t)) = 0 /\ Cardinality(GcRefs(t)) = 0
        BY FS_EmptySet
      <3>2. leaked[t] \in Nat
        BY <2>1 DEF TypeOK
      <3> QED BY <2>2, <2>5, <3>1, <3>2
    <2>7. ASSUME NEW l \in Locs, mem[l] = t PROVE Owned(t)
      <3>1. CASE l \in Vars
        BY <2>7, <3>1 DEF Owned
      <3>2. ASSUME NEW u \in Tables, NEW k \in Keys \cup {Meta}, l = <<u, k>> PROVE Owned(t)
        <4>1. u \notin free
          <5> SUFFICES ASSUME u \in free PROVE FALSE
            OBVIOUS
          <5>1. mem[l] = Null
            BY <2>1, <3>2 DEF FreeIsBlank
          <5> QED BY <2>7, <5>1, ValuesAssumption DEF ValuesAssumption
        <4> QED BY <2>7, <3>2, <4>1 DEF Owned
      <3> QED BY <3>1, <3>2 DEF Locs
    <2> QED BY <2>6, <2>7 DEF Owned, LocRefs, GcRefs
  <1> QED BY <1>1, HeapCorrect, PTL

(***************************************************************************)
(* The heap implements Objects: tables as a program sees them, whose       *)
(* assignments are single steps and whose garbage disappears by itself.    *)
(***************************************************************************)

\* What del has found out while it moves the elements: the one it moves next is
\* behind the last one, which is not empty.
MoveOk(d) ==
  /\ d.item # Null /\ d.want = d.last + 1
  /\ d.last = 0 => d.found = Null
  /\ d.last # 0 => mem[<<d.tab, d.last>>] # Null
ShiftOk ==
  /\ DelLeft.op = "del" => MoveOk(DelLeft)
  /\ cont.op = "store" /\ cont.next # Idle =>
       cont.loc = <<cont.next.tab, cont.next.last - 1>>

\* A step of the recursion empties places of dead tables only.
Keeps(t) == \A k \in Keys \cup {Meta} : mem'[<<t, k>>] = mem[<<t, k>>]
GarbageOnly ==
  /\ work # <<>> /\ UNCHANGED <<cont, acc, inCall>>
  /\ \A x \in Vars : mem'[x] = mem[x]
  /\ \A t \in Tables : rc[t] > 0 => Keeps(t)
  /\ \A t \in Tables : rc[t] = 0 => rc'[t] = 0

LEMMA LeftTypes ==
  ASSUME TypeOK
  PROVE  /\ DelLeft.op = "del" => DelLeft \in DelConts /\ DelLeft.tab \in Tables
         /\ DelLeft.op = "del" => DelLeft.last \in Keys \cup {0}
         /\ cont.op = "del" => DelLeft = cont
         /\ cont.op = "store" => DelLeft = cont.next
         /\ cont.op = "store" => (cont.next # Idle <=> DelLeft.op = "del")
         /\ cont.op \notin {"del", "store"} => DelLeft.op # "del"
  <1>1. CASE cont.op = "store"
    BY <1>1, ContTypes DEF DelLeft, DelConts
  <1>2. CASE cont.op # "store"
    BY <1>2, ContTypes DEF DelLeft, DelConts
  <1> QED BY <1>1, <1>2

\* The table del works on is referenced by a variable.
LEMMA LeftAlive ==
  ASSUME HeapInv, DelLeft.op = "del"
  PROVE  rc[DelLeft.tab] > 0 /\ DelOk(DelLeft)
  <1>1. TypeOK /\ RefcountExact /\ ContOk
    BY DEF HeapInv, TypeInv
  <1>2. DelOk(DelLeft)
    BY <1>1, LeftTypes DEF ContOk, StoreOk
  <1> QED BY <1>1, <1>2, LeftTypes, VarAlive DEF DelOk

\* The content of a variable and of a field, in either state of a step
ContentAt ==
  /\ \A x \in Vars :
       Shown[x] = IF cont.op = "leave" /\ x \in Locals THEN Null ELSE mem[x]
  /\ \A t \in Tables, k \in Keys \cup {Meta} :
       Shown[<<t, k>>] =
         IF rc[t] = 0 THEN Null
         ELSE IF cont.op = "store" /\ <<t, k>> = cont.loc THEN cont.val
         ELSE IF <<t, k>> \notin Moving THEN mem[<<t, k>>]
         ELSE IF k < NumKeys THEN mem[<<t, k + 1>>] ELSE Null

LEMMA ShownAt == ContentAt /\ ContentAt'
  <1>1. ContentAt
    <2>1. ASSUME NEW x \in Vars
          PROVE  Shown[x] = IF cont.op = "leave" /\ x \in Locals THEN Null ELSE mem[x]
      BY LocTypes DEF Shown
    <2>2. ASSUME NEW t \in Tables, NEW k \in Keys \cup {Meta}
          PROVE  Shown[<<t, k>>] =
           IF rc[t] = 0 THEN Null
           ELSE IF cont.op = "store" /\ <<t, k>> = cont.loc THEN cont.val
           ELSE IF <<t, k>> \notin Moving THEN mem[<<t, k>>]
           ELSE IF k < NumKeys THEN mem[<<t, k + 1>>] ELSE Null
      <3>1. <<t, k>> \in Locs /\ <<t, k>> \notin Vars /\ <<t, k>>[1] = t /\ <<t, k>>[2] = k
        BY LocTypes
      <3> QED BY <3>1 DEF Shown
    <2> QED BY <2>1, <2>2 DEF ContentAt
  <1> QED BY <1>1, PTL

\* Two contents are the same if they agree on variables and on fields.
LEMMA SameContent ==
  ASSUME NEW f, NEW g, f = [l \in Locs |-> f[l]], g = [l \in Locs |-> g[l]],
         \A x \in Vars : f[x] = g[x],
         \A t \in Tables, k \in Keys \cup {Meta} : f[<<t, k>>] = g[<<t, k>>]
  PROVE  f = g
  <1>1. \A l \in Locs : f[l] = g[l]
    BY DEF Locs
  <1> QED BY <1>1

LEMMA ShownIs == Shown = [l \in Locs |-> Shown[l]] /\ Shown' = [l \in Locs |-> Shown'[l]]
  BY DEF Shown

LEMMA RecursionIs ==
  ASSUME HeapInv, DecStep \/ SweepField \/ SweepFree
  PROVE  GarbageOnly
  <1>0. TypeOK /\ RefcountExact /\ SweepOk
    BY DEF HeapInv, TypeInv
  <1>1. ASSUME DecStep PROVE GarbageOnly
    <2>1. CASE Abort("dead")
      BY <1>1, <2>1 DEF Abort, DecStep, GarbageOnly, Keeps
    <2>2. CASE ~Abort("dead")
      <3>1. Top.tab \in Tables /\ work # <<>> /\ Top.op # "sweep"
        BY <1>0, <1>1, RestType DEF DecStep, TypeOK, WorkItems
      <3>2. rc[Top.tab] > 0
        BY <1>0, <3>1, Referenced
      <3>3. rc' = [rc EXCEPT ![Top.tab] = Dec8(rc[Top.tab])]
            /\ UNCHANGED <<mem, cont, acc, inCall>>
        BY <1>1, <2>2 DEF DecStep
      <3>4. \A t \in Tables : rc[t] = 0 => rc'[t] = 0
        BY <1>0, <3>1, <3>2, <3>3 DEF TypeOK
      <3> QED BY <3>1, <3>3, <3>4 DEF GarbageOnly, Keeps
    <2> QED BY <2>1, <2>2
  <1>2. ASSUME SweepField \/ SweepFree PROVE GarbageOnly
    <2>1. /\ work # <<>> /\ Top.op = "sweep" /\ UNCHANGED <<rc, cont, acc, inCall>>
          /\ \E k \in Keys \cup {Meta} : mem' = [mem EXCEPT ![<<Top.tab, k>>] = Null]
      BY <1>2 DEF SweepField, SweepFree
    <2>2. /\ Top.tab \in Tables /\ Len(work) \in DOMAIN work
          /\ work[Len(work)] = Top
      BY <1>0, <2>1, RestType DEF TypeOK, WorkItems, Top
    <2>3. rc[Top.tab] = 0
      BY <1>0, <2>1, <2>2 DEF SweepOk
    <2>4. PICK k \in Keys \cup {Meta} : mem' = [mem EXCEPT ![<<Top.tab, k>>] = Null]
      BY <2>1
    <2>5. \A x \in Vars : mem'[x] = mem[x]
      BY <1>0, <2>2, <2>4, LocTypes DEF TypeOK
    <2>6. ASSUME NEW t \in Tables, rc[t] > 0 PROVE Keeps(t)
      BY <1>0, <2>2, <2>3, <2>4, <2>6, LocTypes DEF TypeOK, Keeps
    <2> QED BY <2>1, <2>5, <2>6 DEF GarbageOnly
  <1> QED BY <1>1, <1>2

\* MoveOk depends on the element that was moved last, only.
LEMMA MoveKept ==
  ASSUME NEW d, MoveOk(d), d.last # 0 => mem'[<<d.tab, d.last>>] # Null
  PROVE  /\ d.item # Null /\ d.want = d.last + 1
         /\ d.last = 0 => d.found = Null
         /\ d.last # 0 => mem'[<<d.tab, d.last>>] # Null
  BY DEF MoveOk

LEMMA NotShifting ==
  ASSUME cont'.op \notin {"del", "store"}
  PROVE  ShiftOk'
  BY DEF ShiftOk, DelLeft

LEMMA ShiftProgram ==
  ASSUME HeapInv, Ready, cont'.op \in {"del", "store"}, CarefulNext
  PROVE  ShiftOk'
  <1>0. cont = Idle /\ cont.op = "idle" /\ work = <<>>
    BY DEF Ready, Quiet
  <1>1. ASSUME NEW c \in Vars, NEW keep \in BOOLEAN, del(c, keep) PROVE ShiftOk'
    <2>1. cont' = [op |-> "del", tab |-> mem[c], want |-> 1, last |-> 0,
                   item |-> acc, found |-> Null, keep |-> keep] /\ acc # Null
      BY <1>1 DEF del
    <2>2. DelLeft' = cont' /\ cont'.op = "del"
      BY <2>1 DEF DelLeft
    <2>3. MoveOk(DelLeft)'
      BY <2>1, <2>2 DEF MoveOk
    <2> QED BY <2>2, <2>3 DEF ShiftOk
  <1>2. ASSUME NEW c \in Vars, NEW k \in Keys, CarefulSet(c, k) PROVE ShiftOk'
    <2>1. cont' = cont \/ Overwrite(mem[c], k, acc, Idle)
      BY <1>2 DEF CarefulSet, set_tabvalue, StoreNew, Abort, vars
    <2>2. cont'.next = Idle /\ cont'.op = "store"
      BY <1>0, <2>1 DEF Overwrite
    <2> QED BY <2>2 DEF ShiftOk, DelLeft
  <1>3. CASE ReturnNil \/ run_gc \/ \E c \in Vars, k \in Keys : ReturnField(c, k)
    <2>1. cont' = [op |-> "leave"] \/ cont' = [op |-> "gc", at |-> 1]
      BY <1>3 DEF ReturnNil, run_gc, ReturnField
    <2>2. cont'.op \in {"leave", "gc"}
      BY <2>1
    <2> QED BY <2>2
  <1>4. CASE \/ make_table \/ Literal \/ Discard \/ getmetatable \/ Call
             \/ \E c \in Vars : Read(c) \/ set(c) \/ setmetatable(c)
             \/ \E k \in Keys : get_tabvalue(k)
    <2>1. cont' = cont
      BY <1>4 DEF Literal, Discard, getmetatable, Call, Read, get_tabvalue,
                  make_table, set, setmetatable, Abort
    <2> QED BY <1>0, <2>1
  <1>7. ASSUME NEW c \in Vars, add(c) \/ Return(c) PROVE ShiftOk'
    <2>1. cont' = cont \/ cont' = [op |-> "leave"]
      BY <1>7 DEF add, StoreNew, Return, Abort
    <2> QED BY <1>0, <2>1
  <1>5. CASE Step
    BY <1>0, <1>5
    DEF Step, DecStep, SweepField, SweepFree, StoreStep, DelScan, DelLast, GcStep,
        LeaveStep, Resumes
  <1>6. CASE Stopped
    BY <1>0, <1>6 DEF Stopped, vars
  <1> QED BY <1>1, <1>2, <1>3, <1>4, <1>5, <1>6, <1>7
          DEF CarefulNext, Operation, CarefulDel, CarefulReturn

LEMMA ShiftRecursion ==
  ASSUME HeapInv, ShiftOk, GarbageOnly
  PROVE  ShiftOk'
  <1>1. DelLeft' = DelLeft /\ cont' = cont
    BY DEF GarbageOnly, DelLeft
  <1>2. ASSUME DelLeft.op = "del" PROVE MoveOk(DelLeft)'
    <2>1. rc[DelLeft.tab] > 0 /\ DelLeft.tab \in Tables /\ DelLeft.last \in Keys \cup {0}
      BY <1>2, LeftAlive, LeftTypes DEF HeapInv, TypeInv
    <2>2. MoveOk(DelLeft) /\ Keeps(DelLeft.tab)
      BY <1>2, <2>1 DEF ShiftOk, GarbageOnly
    <2>3. mem'[<<DelLeft.tab, DelLeft.last>>] = mem[<<DelLeft.tab, DelLeft.last>>]
      BY <2>1, <2>2 DEF Keeps
    <2> QED BY <1>1, <2>2, <2>3 DEF MoveOk
  <1> QED BY <1>1, <1>2 DEF ShiftOk

\* StoreStep, when an element has been moved and not aborted
LEMMA ShiftStore ==
  ASSUME HeapInv, ShiftOk, StoreStep
  PROVE  ShiftOk'
  <1>0. /\ TypeOK /\ cont.op = "store" /\ work = <<>> /\ StoreOk(cont)
        /\ cont.loc \in Tables \X Keys /\ cont.next \in {Idle} \cup DelConts
        /\ cont.loc \in Locs
    BY ContTypes, LocTypes DEF HeapInv, TypeInv, StoreStep, Resumes, ContOk
  <1>1. CASE Abort("limit")
    BY <1>1 DEF Abort, ShiftOk, DelLeft, MoveOk
  <1>2. ASSUME mem' = [mem EXCEPT ![cont.loc] = cont.val], cont' = cont.next PROVE ShiftOk'
    <2>1. CASE cont.next = Idle
      BY <1>2, <2>1 DEF ShiftOk, DelLeft
    <2>2. CASE cont.next # Idle
      <3>1. /\ cont.next \in DelConts /\ cont.next.op = "del"
            /\ DelLeft = cont.next /\ DelLeft' = cont.next
        BY <1>0, <1>2, <2>2 DEF DelConts, DelLeft
      <3>2. MoveOk(cont.next) /\ cont.loc = <<cont.next.tab, cont.next.last - 1>>
        BY <1>0, <2>2, <3>1 DEF ShiftOk
      <3>3. /\ cont.next.tab \in Tables /\ cont.next.last \in Keys
            /\ cont.next.last # cont.next.last - 1
        BY <1>0, <2>2, <3>1 DEF StoreOk, DelConts, Keys
      <3>4. mem'[<<cont.next.tab, cont.next.last>>] = mem[<<cont.next.tab, cont.next.last>>]
        BY <1>0, <1>2, <3>2, <3>3, LocTypes DEF TypeOK
      <3>5. MoveOk(DelLeft)'
        BY <3>1, <3>2, <3>4 DEF MoveOk
      <3> QED BY <1>2, <3>1, <3>5 DEF ShiftOk
    <2> QED BY <2>1, <2>2
  <1> QED BY <1>1, <1>2 DEF StoreStep

\* An iteration of del: what is left, and the move it starts.
LEMMA ScanIs ==
  ASSUME HeapInv, ShiftOk, DelScan
  PROVE  LET t == cont.tab  k == cont.want  d == cont  left == DelLeft' IN
         /\ cont \in DelConts /\ DelLeft = cont /\ cont.op = "del" /\ MoveOk(cont)
         /\ t \in Tables /\ k \in Keys /\ k = d.last + 1 /\ mem[<<t, k>>] # Null
         /\ left \in DelConts /\ left.op = "del" /\ left.tab = t /\ left.item = d.item
         /\ left.keep = d.keep /\ left.last = k /\ left.want = k + 1
         /\ UNCHANGED <<rc, inCall>>
         /\ d.last = 0 => /\ cont' = left /\ UNCHANGED <<mem, acc>>
                          /\ left.found = IF mem[<<t, k>>] = d.item THEN d.item ELSE Null
         /\ d.last # 0 => /\ d.last \in Keys /\ left.found = d.found
                          /\ mem' = [mem EXCEPT ![<<t, d.last>>] = Null]
                          /\ cont' = [op |-> "store", loc |-> <<t, d.last>>,
                                      val |-> mem[<<t, k>>], next |-> left]
                          /\ acc' = Null
  <1> DEFINE val  == mem[<<cont.tab, cont.want>>]
             next == [cont EXCEPT !.last = cont.want, !.want = @ + 1]
             hit  == IF val = cont.item THEN val ELSE Null
  <1>1. /\ TypeOK /\ cont \in DelConts /\ DelLeft = cont /\ cont.op = "del" /\ val # Null
        /\ cont.tab \in Tables /\ cont.want \in Keys
    BY ContTypes, LeftTypes DEF DelScan, Resumes, HeapInv, TypeInv, DelConts
  <1>2. MoveOk(cont)
    BY <1>1 DEF ShiftOk
  <1>3. cont.want = cont.last + 1
    BY <1>2 DEF MoveOk
  <1>4. val \in Values /\ hit \in Values
    BY <1>1, LocTypes DEF TypeOK, Values
  <1>5. /\ next \in DelConts /\ next.op = "del" /\ next.tab = cont.tab
        /\ next.item = cont.item /\ next.keep = cont.keep /\ next.found = cont.found
        /\ next.last = cont.want /\ next.want = cont.want + 1
    <2>1. cont.want + 1 \in Nat \ {0}
      BY <1>1 DEF DelConts
    <2> QED BY <1>1, <2>1 DEF DelConts
  <1>6. CASE cont.last = 0
    <2>1. /\ cont' = [next EXCEPT !.found = hit]
          /\ UNCHANGED <<free, used, rc, mem, gc, work, acc, inCall, status, leaked>>
      BY <1>6 DEF DelScan
    <2> HIDE DEF next, hit
    <2>2. /\ cont' \in DelConts /\ cont'.found = hit /\ cont'.op = "del"
          /\ cont'.tab = next.tab /\ cont'.keep = next.keep /\ cont'.item = next.item
          /\ cont'.last = next.last /\ cont'.want = next.want
      BY <1>4, <1>5, <2>1 DEF DelConts
    <2>3. DelLeft' = cont'
      BY <2>2 DEF DelLeft
    <2>4. hit = IF val = cont.item THEN cont.item ELSE Null
      BY DEF hit
    <2> HIDE DEF val
    <2> QED BY <1>1, <1>2, <1>3, <1>5, <1>6, <2>1, <2>2, <2>3, <2>4 DEF val
  <1>7. CASE cont.last # 0
    <2>1. cont.last \in Keys
      BY <1>1, <1>7 DEF DelConts
    <2>2. Overwrite(cont.tab, cont.last, val, next)
      BY <1>7 DEF DelScan
    <2> HIDE DEF next, hit, val
    <2>3. /\ mem' = [mem EXCEPT ![<<cont.tab, cont.last>>] = Null]
          /\ cont' = [op |-> "store", loc |-> <<cont.tab, cont.last>>,
                      val |-> val, next |-> next]
          /\ acc' = Null /\ UNCHANGED <<rc, inCall>>
      BY <2>2 DEF Overwrite
    <2>4. DelLeft' = next
      BY <2>3 DEF DelLeft
    <2> QED BY <1>1, <1>2, <1>3, <1>5, <1>7, <2>1, <2>3, <2>4 DEF val
  <1> QED BY <1>6, <1>7

LEMMA ShiftScan ==
  ASSUME HeapInv, ShiftOk, DelScan
  PROVE  ShiftOk'
  <1> DEFINE left == DelLeft'
  <1>1. /\ cont \in DelConts /\ MoveOk(cont)
        /\ cont.tab \in Tables /\ cont.want \in Keys /\ cont.want = cont.last + 1
        /\ mem[<<cont.tab, cont.want>>] # Null
        /\ left.op = "del" /\ left.tab = cont.tab /\ left.item = cont.item
        /\ left.last = cont.want /\ left.want = cont.want + 1
        /\ cont.last = 0 => cont' = left /\ mem' = mem
        /\ cont.last # 0 => /\ cont.last \in Keys
                            /\ mem' = [mem EXCEPT ![<<cont.tab, cont.last>>] = Null]
                            /\ cont'.loc = <<cont.tab, cont.last>> /\ cont'.next = left
    BY ScanIs
  <1>2. left.last # 0 /\ cont.last # cont.want
    BY <1>1, LocTypes DEF DelConts, Keys
  <1>3. mem'[<<cont.tab, cont.want>>] # Null
    <2>1. TypeOK
      BY DEF HeapInv, TypeInv
    <2> QED BY <1>1, <1>2, <2>1, LocTypes DEF TypeOK
  <1>4. MoveOk(DelLeft)'
    BY <1>1, <1>2, <1>3 DEF MoveOk
  <1>5. CASE cont.last = 0
    BY <1>1, <1>4, <1>5 DEF ShiftOk
  <1>6. CASE cont.last # 0
    <2>1. cont'.loc = <<left.tab, left.last - 1>> /\ cont'.next = left
      BY <1>1, <1>2, <1>6 DEF DelConts, Keys
    <2> QED BY <1>4, <2>1 DEF ShiftOk
  <1> QED BY <1>5, <1>6

LEMMA ShiftStep ==
  ASSUME HeapInv, ShiftOk, [CarefulNext]_vars
  PROVE  ShiftOk'
  <1>1. CASE UNCHANGED vars \/ Stopped
    BY <1>1 DEF Stopped, vars, ShiftOk, MoveOk, DelLeft
  <1>2. CASE Ready /\ CarefulNext
    BY <1>2, ShiftProgram, NotShifting
  <1>3. CASE DecStep \/ SweepField \/ SweepFree
    BY <1>3, RecursionIs, ShiftRecursion
  <1>4. CASE DelLast \/ GcStep \/ LeaveStep
    <2>1. cont' = Idle \/ (cont' = cont /\ cont.op = "leave")
            \/ (cont.op = "gc" /\ cont' = [cont EXCEPT !.at = @ + 1])
      BY <1>4 DEF DelLast, GcStep, LeaveStep, Resumes
    <2>2. cont'.op \in {"idle", "leave", "gc"}
      BY <2>1, ContTypes DEF HeapInv, TypeInv
    <2> QED BY <2>2, NotShifting
  <1>5. CASE StoreStep
    BY <1>5, ShiftStore
  <1>6. CASE DelScan
    BY <1>6, ShiftScan
  <1>7. CarefulNext => Ready \/ Step \/ Stopped
    <2>1. Operation => Ready
      BY DEF Operation, make_table, Literal, Discard, getmetatable, Read, set, add,
             setmetatable, Return, get_tabvalue, Call, ReturnNil, run_gc, del
    <2>2. (\E c \in Vars : \/ CarefulDel(c)
                           \/ \E k \in Keys : CarefulSet(c, k) \/ CarefulReturn(c, k))
            => Ready
      BY DEF CarefulDel, CarefulSet, CarefulReturn, ReturnField, del, set_tabvalue
    <2> QED BY <2>1, <2>2 DEF CarefulNext
  <1> QED BY <1>1, <1>2, <1>3, <1>4, <1>5, <1>6, <1>7 DEF Step

\* Between two operations, in run_gc and at the end of a function no element is
\* on the move.
Settled == cont.op \in {"idle", "gc"}

LEMMA NothingMoves ==
  ASSUME DelLeft.op # "del"
  PROVE  Moving = {} /\ Result = acc
  BY DEF Moving, Result

SettledContent ==
  Settled => /\ Result = acc /\ Moving = {}
             /\ \A x \in Vars : Shown[x] = mem[x]
             /\ \A t \in Tables, k \in Keys \cup {Meta} :
                  Shown[<<t, k>>] = IF rc[t] = 0 THEN Null ELSE mem[<<t, k>>]

LEMMA SettledShown == SettledContent /\ SettledContent'
  <1>1. SettledContent
    <2> SUFFICES ASSUME Settled
                 PROVE  /\ Result = acc /\ Moving = {}
                        /\ \A x \in Vars : Shown[x] = mem[x]
                        /\ \A t \in Tables, k \in Keys \cup {Meta} :
                             Shown[<<t, k>>] = IF rc[t] = 0 THEN Null ELSE mem[<<t, k>>]
      BY DEF SettledContent
    <2>1. DelLeft.op # "del" /\ cont.op # "store" /\ cont.op # "leave"
      BY DEF Settled, DelLeft
    <2>2. Moving = {} /\ Result = acc
      BY <2>1, NothingMoves
    <2> QED BY <2>1, <2>2, ShownAt DEF ContentAt
  <1> QED BY <1>1, PTL

\* The elements that del has still to move, or to remove.
First == IF DelLeft.last = 0 THEN 1 ELSE DelLeft.last
MovingContent ==
  TypeOK /\ DelLeft.op = "del" =>
    /\ First \in Nat /\ First >= 1
    /\ \A t \in Tables, k \in Keys \cup {Meta} :
         <<t, k>> \in Moving <=>
           /\ t = DelLeft.tab /\ k >= First /\ k \in Keys
           /\ \A j \in First .. k : mem[<<DelLeft.tab, j>>] # Null

LEMMA MovingAt == MovingContent /\ MovingContent'
  <1>1. MovingContent
    <2> SUFFICES ASSUME TypeOK, DelLeft.op = "del"
                 PROVE  /\ First \in Nat /\ First >= 1
                        /\ \A t \in Tables, k \in Keys \cup {Meta} :
                             <<t, k>> \in Moving <=>
                               /\ t = DelLeft.tab /\ k >= First /\ k \in Keys
                               /\ \A j \in First .. k : mem[<<DelLeft.tab, j>>] # Null
      BY DEF MovingContent
    <2>1. DelLeft.last \in Keys \cup {0}
      BY LeftTypes
    <2>2. First \in Nat /\ First >= 1
      BY <2>1 DEF First, Keys
    <2>3. Moving = {DelLeft.tab} \X
                     {i \in First .. NumKeys :
                        \A j \in First .. i : mem[<<DelLeft.tab, j>>] # Null}
      BY DEF Moving, First
    <2>4. NumKeys \in Nat
      BY SizeAssumption DEF SizeAssumption
    <2> QED BY <2>2, <2>3, <2>4 DEF Keys
  <1> QED BY <1>1, PTL

\* A step of the recursion changes nothing that the program can see, but that a
\* table without references disappears.
LEMMA GarbageMoving ==
  ASSUME HeapInv, GarbageOnly
  PROVE  Moving' = Moving
  <1>1. DelLeft' = DelLeft
    BY DEF GarbageOnly, DelLeft
  <1>2. CASE DelLeft.op # "del"
    BY <1>1, <1>2 DEF Moving
  <1>3. CASE DelLeft.op = "del"
    <2> DEFINE first == IF DelLeft.last = 0 THEN 1 ELSE DelLeft.last
               tab   == DelLeft.tab
    <2>1. rc[tab] > 0 /\ tab \in Tables /\ first \in Nat /\ first >= 1 /\ NumKeys \in Nat
      BY <1>3, LeftAlive, LeftTypes, SizeAssumption DEF HeapInv, TypeInv, SizeAssumption, Keys
    <2>2. \A j \in first .. NumKeys : mem'[<<tab, j>>] = mem[<<tab, j>>]
      BY <2>1 DEF GarbageOnly, Keeps, Keys
    <2>3. Moving = {tab} \X {i \in first .. NumKeys :
                               \A j \in first .. i : mem[<<tab, j>>] # Null}
      BY <1>3 DEF Moving
    <2>4. Moving' = {tab} \X {i \in first .. NumKeys :
                                \A j \in first .. i : mem'[<<tab, j>>] # Null}
      BY <1>1, <1>3 DEF Moving
    <2> HIDE DEF first, tab
    <2>5. \A i \in first .. NumKeys : \A j \in first .. i : j \in first .. NumKeys
      BY <2>1
    <2>6. {i \in first .. NumKeys : \A j \in first .. i : mem[<<tab, j>>] # Null}
            = {i \in first .. NumKeys : \A j \in first .. i : mem'[<<tab, j>>] # Null}
      BY <2>2, <2>5
    <2> QED BY <2>3, <2>4, <2>6
  <1> QED BY <1>2, <1>3

LEMMA GarbageResult ==
  ASSUME HeapInv, GarbageOnly
  PROVE  Result' = Result
  <1>1. DelLeft' = DelLeft /\ acc' = acc
    BY DEF GarbageOnly, DelLeft
  <1>2. CASE DelLeft.op # "del"
    BY <1>1, <1>2 DEF Result
  <1>3. CASE DelLeft.op = "del"
    <2>1. rc[DelLeft.tab] > 0 /\ DelLeft.tab \in Tables
      BY <1>3, LeftAlive, LeftTypes DEF HeapInv, TypeInv
    <2>2. 1 \in Keys => mem'[<<DelLeft.tab, 1>>] = mem[<<DelLeft.tab, 1>>]
      BY <2>1 DEF GarbageOnly, Keeps
    <2>3. CASE 1 \in Keys
      BY <1>1, <1>3, <2>2, <2>3 DEF Result
    <2>4. CASE 1 \notin Keys
      BY <1>1, <1>3, <2>4 DEF Result
    <2> QED BY <2>3, <2>4
  <1> QED BY <1>2, <1>3

LEMMA GarbageShown ==
  ASSUME HeapInv, HeapInv', GarbageOnly
  PROVE  /\ \A x \in Vars : Shown'[x] = Shown[x]
         /\ \A t \in Tables, k \in Keys \cup {Meta} :
              Shown'[<<t, k>>] = IF rc'[t] = 0 THEN Null ELSE Shown[<<t, k>>]
  <1>0. TypeOK /\ NumKeys \in Nat /\ cont' = cont /\ Moving' = Moving
    BY GarbageMoving, SizeAssumption DEF HeapInv, TypeInv, GarbageOnly, SizeAssumption
  <1>1. \A x \in Vars : Shown'[x] = Shown[x]
    <2>1. \A x \in Vars : Shown[x] = IF cont.op = "leave" /\ x \in Locals THEN Null ELSE mem[x]
      BY ShownAt DEF ContentAt
    <2>2. \A x \in Vars : Shown'[x] = IF cont'.op = "leave" /\ x \in Locals THEN Null ELSE mem'[x]
      BY ShownAt DEF ContentAt
    <2> QED BY <1>0, <2>1, <2>2 DEF GarbageOnly
  <1>2. ASSUME NEW t \in Tables, NEW k \in Keys \cup {Meta}
        PROVE  Shown'[<<t, k>>] = IF rc'[t] = 0 THEN Null ELSE Shown[<<t, k>>]
    <2>1. Shown[<<t, k>>] =
         IF rc[t] = 0 THEN Null
         ELSE IF cont.op = "store" /\ <<t, k>> = cont.loc THEN cont.val
         ELSE IF <<t, k>> \notin Moving THEN mem[<<t, k>>]
         ELSE IF k < NumKeys THEN mem[<<t, k + 1>>] ELSE Null
      BY ShownAt DEF ContentAt
    <2>2. Shown'[<<t, k>>] =
         IF rc'[t] = 0 THEN Null
         ELSE IF cont'.op = "store" /\ <<t, k>> = cont'.loc THEN cont'.val
         ELSE IF <<t, k>> \notin Moving' THEN mem'[<<t, k>>]
         ELSE IF k < NumKeys THEN mem'[<<t, k + 1>>] ELSE Null
      BY ShownAt DEF ContentAt
    <2>3. CASE rc'[t] = 0
      BY <2>2, <2>3
    <2>4. CASE rc'[t] # 0
      <3>1. rc[t] > 0 /\ rc[t] # 0
        BY <1>0, <2>4 DEF GarbageOnly, TypeOK
      <3>2. mem'[<<t, k>>] = mem[<<t, k>>]
        BY <3>1 DEF GarbageOnly, Keeps
      <3>3. k < NumKeys => mem'[<<t, k + 1>>] = mem[<<t, k + 1>>]
        BY <1>0, <3>1 DEF GarbageOnly, Keeps, Keys
      <3> QED BY <1>0, <2>1, <2>2, <2>4, <3>1, <3>2, <3>3
    <2> QED BY <2>3, <2>4
  <1> QED BY <1>1, <1>2

Existing == {t \in Tables : rc[t] > 0}
Running  == inCall /\ cont.op # "leave"
Stutter  == UNCHANGED <<Existing, Shown, Result, Running>>

LEMMA SameExisting ==
  ASSUME TypeOK, TypeOK', \A t \in Tables : rc'[t] = 0 <=> rc[t] = 0
  PROVE  Existing' = Existing
  BY DEF Existing, TypeOK

LEMMA SameShown ==
  ASSUME \A x \in Vars : Shown'[x] = Shown[x],
         \A t \in Tables, k \in Keys \cup {Meta} : Shown'[<<t, k>>] = Shown[<<t, k>>]
  PROVE  Shown' = Shown
  <1>1. \A l \in Locs : Shown'[l] = Shown[l]
    BY DEF Locs
  <1> HIDE DEF Shown
  <1> QED BY <1>1, ShownIs

\* Nothing that the program sees depends on anything but these.
LEMMA IdleStep ==
  ASSUME UNCHANGED <<rc, mem, cont, acc, inCall>>
  PROVE  Stutter
  <1>1. DelLeft' = DelLeft
    BY DEF DelLeft
  <1>2. Moving' = Moving
    BY <1>1 DEF Moving
  <1> QED BY <1>1, <1>2 DEF Stutter, Existing, Running, Shown, Result

LEMMA SettledStep ==
  ASSUME HeapInv, HeapInv', Settled, Settled', UNCHANGED <<rc, mem, acc, inCall>>
  PROVE  Stutter
  <1>1. Shown' = Shown /\ Result' = Result
    BY SettledShown, SameShown DEF SettledContent
  <1> QED BY <1>1 DEF Stutter, Existing, Running, Settled

LEMMA RecursionStep ==
  ASSUME HeapInv, HeapInv', DecStep \/ SweepField \/ SweepFree,
         \A t \in Tables : rc'[t] = 0 => rc[t] = 0
  PROVE  Stutter
  <1>1. GarbageOnly /\ TypeOK /\ TypeOK'
    BY RecursionIs DEF HeapInv, TypeInv
  <1>2. Existing' = Existing
    BY <1>1, SameExisting DEF GarbageOnly
  <1>3. \A t \in Tables, k \in Keys \cup {Meta} : rc[t] = 0 => Shown[<<t, k>>] = Null
    BY ShownAt DEF ContentAt
  <1>4. Shown' = Shown
    BY <1>1, <1>3, GarbageShown, SameShown DEF GarbageOnly
  <1> QED BY <1>1, <1>2, <1>4, GarbageResult DEF Stutter, Running, GarbageOnly

Unreferenced ==
  TypeOK /\ RefcountExact =>
    \A t \in Tables : rc[t] = 0 => LocRefs(t) = {} /\ GcRefs(t) = {}
LEMMA ZeroUnreferenced == Unreferenced /\ Unreferenced'
  <1>1. Unreferenced
    BY Referenced DEF Unreferenced, LocRefs, GcRefs
  <1> QED BY <1>1, PTL

\* A table that DecStep leaves without references was referred to by the pending
\* call only.
LEMMA LastReference ==
  ASSUME HeapInv, HeapInv', DecStep, NEW u \in Tables, rc[u] > 0, rc'[u] = 0
  PROVE  /\ rc' = [rc EXCEPT ![u] = 0]
         /\ \A l \in Locs : mem[l] # u
         /\ \A i \in DOMAIN gc : gc[i] # u
  <1>0. TypeOK /\ RefcountExact /\ TypeOK' /\ RefcountExact'
    BY DEF HeapInv, TypeInv
  <1>1. /\ rc' = [rc EXCEPT ![Top.tab] = Dec8(rc[Top.tab])] /\ UNCHANGED <<mem, gc>>
        /\ work # <<>>
    BY DEF DecStep, Abort
  <1>2. u = Top.tab
    BY <1>0, <1>1 DEF TypeOK
  <1>3. rc' = [rc EXCEPT ![u] = rc'[u]]
    BY <1>0, <1>1, <1>2 DEF TypeOK
  <1>4. \A l \in Locs : mem'[l] # u
    BY <1>0, ZeroUnreferenced DEF Unreferenced, LocRefs
  <1>5. \A i \in DOMAIN gc' : gc'[i] # u
    BY <1>0, ZeroUnreferenced DEF Unreferenced, GcRefs
  <1> QED BY <1>1, <1>3, <1>4, <1>5

LEMMA SamePlaces == Tabs!Locs = Locs /\ Tabs!Keys = Keys
  BY DEF Tabs!Locs, Tabs!Keys, Locs, Keys

LEMMA FieldPlaces ==
  \A k \in Keys \cup {Meta} : k \in Nat /\ (k < NumKeys => k + 1 \in Keys)
  BY SizeAssumption DEF Keys, SizeAssumption

LEMMA Unseen ==
  ASSUME HeapInv, work # <<>>, NEW u \in Tables,
         \A l \in Locs : mem[l] # u, \A i \in DOMAIN gc : gc[i] # u
  PROVE  Result # u /\ \A l \in Locs : Shown[l] # u
  <1>0. /\ TypeOK /\ ContOk /\ AccOk /\ u # Null /\ ~Rooted(u)
        /\ \A x \in Vars : mem[x] # u
    BY ValuesAssumption, LocTypes DEF HeapInv, TypeInv, ValuesAssumption, Rooted
  <1>1. Result # u
    <2>1. CASE DelLeft.op # "del"
      BY <1>0, <2>1, NothingMoves DEF AccOk, Quiet
    <2>2. CASE DelLeft.op = "del"
      <3>1. DelLeft.keep => DelLeft.found # u
        BY <1>0, <2>2, LeftAlive DEF DelOk
      <3>2. 1 \in Keys => mem[<<DelLeft.tab, 1>>] # u
        BY <1>0, <2>2, LeftTypes, LocTypes
      <3> QED BY <1>0, <2>2, <3>1, <3>2 DEF Result
    <2> QED BY <2>1, <2>2
  <1>2. \A x \in Vars : Shown[x] # u
    BY <1>0, ShownAt DEF ContentAt
  <1>3. cont.op = "store" => cont.val # u
    <2> SUFFICES ASSUME cont.op = "store" PROVE cont.val # u
      OBVIOUS
    <2>1. StoreOk(cont)
      BY <1>0 DEF ContOk
    <2>2. CASE cont.next = Idle
      BY <1>0, <2>1, <2>2 DEF StoreOk
    <2>3. CASE cont.next # Idle
      <3>1. /\ cont.next.tab \in Tables /\ cont.next.last \in Keys
            /\ mem[<<cont.next.tab, cont.next.last>>] = cont.val
        BY <1>0, <2>1, <2>3, LeftTypes DEF StoreOk
      <3> QED BY <3>1, LocTypes
    <2> QED BY <2>2, <2>3
  <1>4. ASSUME NEW t \in Tables, NEW k \in Keys \cup {Meta} PROVE Shown[<<t, k>>] # u
    <2>1. mem[<<t, k>>] # u /\ (k < NumKeys => mem[<<t, k + 1>>] # u)
      BY FieldPlaces, LocTypes
    <2>2. Shown[<<t, k>>] =
         IF rc[t] = 0 THEN Null
         ELSE IF cont.op = "store" /\ <<t, k>> = cont.loc THEN cont.val
         ELSE IF <<t, k>> \notin Moving THEN mem[<<t, k>>]
         ELSE IF k < NumKeys THEN mem[<<t, k + 1>>] ELSE Null
      BY ShownAt DEF ContentAt
    <2> QED BY <1>0, <1>3, <2>1, <2>2
  <1> QED BY <1>1, <1>2, <1>4 DEF Locs

LEMMA CollectStep ==
  ASSUME HeapInv, HeapInv', DecStep, NEW u \in Tables, rc[u] > 0, rc'[u] = 0
  PROVE  Tabs!Collect(u)
  <1>1. TypeOK /\ TypeOK' /\ GarbageOnly /\ work # <<>>
    BY RecursionIs DEF HeapInv, TypeInv, DecStep
  <1>2. /\ rc' = [rc EXCEPT ![u] = 0]
        /\ \A l \in Locs : mem[l] # u
        /\ \A i \in DOMAIN gc : gc[i] # u
    BY LastReference
  <1>3. Result # u /\ \A l \in Locs : Shown[l] # u
    BY <1>1, <1>2, Unseen
  <1>4. {t \in Tables : rc'[t] > 0} = {t \in Tables : rc[t] > 0} \ {u}
    BY <1>1, <1>2 DEF TypeOK
  <1>5. Shown' = [l \in Locs |-> IF l \in {u} \X (Keys \cup {Meta}) THEN Null ELSE Shown[l]]
    <2> DEFINE gone == [l \in Locs |-> IF l \in {u} \X (Keys \cup {Meta}) THEN Null ELSE Shown[l]]
    <2>1. \A x \in Vars : Shown'[x] = gone[x]
      <3>1. \A x \in Vars : x \in Locs /\ x \notin {u} \X (Keys \cup {Meta})
        BY LocTypes
      <3> QED BY <1>1, <3>1, GarbageShown
    <2>2. ASSUME NEW t \in Tables, NEW k \in Keys \cup {Meta}
          PROVE  Shown'[<<t, k>>] = gone[<<t, k>>]
      <3>1. Shown'[<<t, k>>] = IF rc'[t] = 0 THEN Null ELSE Shown[<<t, k>>]
        BY <1>1, GarbageShown
      <3>2. rc[t] = 0 => Shown[<<t, k>>] = Null
        BY ShownAt DEF ContentAt
      <3>3. <<t, k>> \in Locs /\ (<<t, k>> \in {u} \X (Keys \cup {Meta}) <=> t = u)
        BY LocTypes
      <3> QED BY <1>1, <1>2, <3>1, <3>2, <3>3 DEF TypeOK
    <2>3. \A l \in Locs : Shown'[l] = gone[l]
      <3> HIDE DEF gone
      <3> QED BY <2>1, <2>2 DEF Locs
    <2> HIDE DEF Shown
    <2> QED BY <2>3, ShownIs
  <1>6. Result' = Result /\ inCall' = inCall /\ cont' = cont
    BY <1>1, GarbageResult DEF GarbageOnly
  <1> QED BY <1>3, <1>4, <1>5, <1>6, SamePlaces DEF Tabs!Collect

\* The new value of a place that is not a field of a dead table
LEMMA ShownWrite ==
  ASSUME TypeOK, Settled, NEW l \in Locs, NEW v,
         \A x \in Vars : Shown'[x] = IF x = l THEN v ELSE mem[x],
         \A t \in Tables, k \in Keys \cup {Meta} :
           Shown'[<<t, k>>] = IF <<t, k>> = l THEN v
                              ELSE IF rc[t] = 0 THEN Null ELSE mem[<<t, k>>]
  PROVE  Shown' = [Shown EXCEPT ![l] = v]
  <1>1. \A p \in Locs : Shown'[p] = IF p = l THEN v ELSE Shown[p]
    <2>1. \A x \in Vars : Shown[x] = mem[x]
      BY SettledShown DEF SettledContent
    <2>2. \A t \in Tables, k \in Keys \cup {Meta} :
            Shown[<<t, k>>] = IF rc[t] = 0 THEN Null ELSE mem[<<t, k>>]
      BY SettledShown DEF SettledContent
    <2> HIDE DEF Shown
    <2> QED BY <2>1, <2>2 DEF Locs
  <1> HIDE DEF Shown
  <1> QED BY <1>1, ShownIs

LEMMA StoreNow ==
  ASSUME HeapInv, HeapInv', Settled, Settled', NEW l \in Locs, Lives(l),
         rc' = Incref(rc, acc), mem' = [mem EXCEPT ![l] = acc], acc' = Null,
         inCall' = inCall
  PROVE  Tabs!Store(l)
  <1>1. TypeOK /\ TypeOK' /\ RefcountExact /\ AccOk
    BY DEF HeapInv, TypeInv
  <1>2. \A t \in Tables : rc'[t] = 0 <=> rc[t] = 0
    BY <1>1, AccAlive, IncrefKeeps DEF TypeOK
  <1>3. \A x \in Vars : Shown'[x] = IF x = l THEN acc ELSE mem[x]
    BY <1>1, SettledShown, LocTypes DEF SettledContent, TypeOK
  <1>4. ASSUME NEW t \in Tables, NEW k \in Keys \cup {Meta}
        PROVE  Shown'[<<t, k>>] = IF <<t, k>> = l THEN acc
                                  ELSE IF rc[t] = 0 THEN Null ELSE mem[<<t, k>>]
    <2>1. Shown'[<<t, k>>] = IF rc'[t] = 0 THEN Null ELSE mem'[<<t, k>>]
      BY SettledShown DEF SettledContent
    <2>2. <<t, k>> \in Locs /\ <<t, k>> \notin Vars
      BY LocTypes
    <2>3. mem'[<<t, k>>] = IF <<t, k>> = l THEN acc ELSE mem[<<t, k>>]
      BY <1>1, <2>2 DEF TypeOK
    <2>4. <<t, k>> = l => rc[t] # 0
      BY <2>2 DEF Lives
    <2> QED BY <1>2, <2>1, <2>3, <2>4
  <1>5. Shown' = [Shown EXCEPT ![l] = acc]
    BY <1>1, <1>3, <1>4, ShownWrite
  <1>6. Existing' = Existing
    BY <1>1, <1>2, SameExisting
  <1>7. Result = acc /\ Result' = Null
    BY SettledShown DEF SettledContent
  <1>8. cont.op # "leave" /\ cont'.op # "leave"
    BY DEF Settled
  <1> QED BY <1>5, <1>6, <1>7, <1>8 DEF Tabs!Store, Existing

LEMMA StoreLater ==
  ASSUME HeapInv, HeapInv', Settled, NEW t \in Tables, NEW k \in Keys, rc[t] > 0,
         Overwrite(t, k, acc, Idle)
  PROVE  Tabs!Store(<<t, k>>)
  <1> DEFINE l == <<t, k>>
  <1>1. TypeOK /\ TypeOK' /\ l \in Locs /\ l \notin Vars
    BY LocTypes DEF HeapInv, TypeInv
  <1>2. /\ mem' = [mem EXCEPT ![l] = Null] /\ rc' = rc /\ acc' = Null /\ inCall' = inCall
        /\ cont' = [op |-> "store", loc |-> l, val |-> acc, next |-> Idle]
    BY DEF Overwrite
  <1>3. /\ cont'.op = "store" /\ cont'.loc = l /\ cont'.val = acc
        /\ cont.op # "leave" /\ cont'.op # "leave"
    BY <1>2 DEF Settled
  <1>4. DelLeft'.op # "del"
    BY <1>2 DEF DelLeft
  <1>5. Moving' = {} /\ Result' = acc'
    BY <1>4 DEF Moving, Result
  <1>6. \A x \in Vars : Shown'[x] = IF x = l THEN acc ELSE mem[x]
    BY <1>1, <1>2, <1>3, ShownAt, LocTypes DEF ContentAt, TypeOK
  <1>7. ASSUME NEW u \in Tables, NEW j \in Keys \cup {Meta}
        PROVE  Shown'[<<u, j>>] = IF <<u, j>> = l THEN acc
                                  ELSE IF rc[u] = 0 THEN Null ELSE mem[<<u, j>>]
    <2>1. Shown'[<<u, j>>] =
         IF rc'[u] = 0 THEN Null
         ELSE IF cont'.op = "store" /\ <<u, j>> = cont'.loc THEN cont'.val
         ELSE IF <<u, j>> \notin Moving' THEN mem'[<<u, j>>]
         ELSE IF j < NumKeys THEN mem'[<<u, j + 1>>] ELSE Null
      BY ShownAt DEF ContentAt
    <2>2. <<u, j>> # l => mem'[<<u, j>>] = mem[<<u, j>>]
      BY <1>1, <1>2, LocTypes DEF TypeOK
    <2>3. <<u, j>> = l => u = t
      OBVIOUS
    <2> HIDE DEF l
    <2> QED BY <1>2, <1>3, <1>5, <2>1, <2>2, <2>3
  <1>8. Shown' = [Shown EXCEPT ![l] = acc]
    BY <1>1, <1>6, <1>7, ShownWrite
  <1>9. Result = acc
    BY SettledShown DEF SettledContent
  <1> QED BY <1>2, <1>3, <1>5, <1>8, <1>9 DEF Tabs!Store

\* What holds when the program starts an operation
LEMMA ReadySettled ==
  ASSUME HeapInv, Ready
  PROVE  /\ Settled /\ cont.op # "leave" /\ Result = acc
         /\ \A c \in Vars : Shown[c] = mem[c] /\ (InScope(c) => Tabs!InScope(c))
         /\ \A c \in Vars : \A k \in Keys \cup {Meta} :
              mem[c] \in Tables => rc[mem[c]] > 0 /\ Shown[<<mem[c], k>>] = mem[<<mem[c], k>>]
         /\ acc \in Tables => rc[acc] > 0
         /\ \A k \in Keys \cup {Meta} :
              acc \in Tables => Shown[<<acc, k>>] = mem[<<acc, k>>]
  <1>1. cont = Idle /\ Settled /\ TypeOK /\ RefcountExact /\ AccOk
    BY DEF Ready, Quiet, Settled, HeapInv, TypeInv
  <1>2. \A x \in Vars : Shown[x] = mem[x]
    BY <1>1, SettledShown DEF SettledContent
  <1>3. \A t \in Tables, k \in Keys \cup {Meta} :
          Shown[<<t, k>>] = IF rc[t] = 0 THEN Null ELSE mem[<<t, k>>]
    BY <1>1, SettledShown DEF SettledContent
  <1>4. acc \in Tables => rc[acc] > 0
    BY <1>1, AccAlive DEF Alive
  <1>5. \A c \in Vars : mem[c] \in Tables => rc[mem[c]] > 0
    BY <1>1, VarAlive
  <1>6. \A c \in Vars : InScope(c) => Tabs!InScope(c)
    BY <1>1 DEF InScope, Tabs!InScope
  <1>7. Result = acc
    BY <1>1, SettledShown DEF SettledContent
  <1> HIDE DEF Shown
  <1> QED BY <1>1, <1>2, <1>3, <1>4, <1>5, <1>6, <1>7

LEMMA SetStep ==
  ASSUME HeapInv, HeapInv', NEW c \in Vars, set(c)
  PROVE  Tabs!Set(c) \/ Stutter
  <1>1. Ready /\ InScope(c)
    BY DEF set
  <1>2. CASE AtLimit(acc)
    BY <1>2, IdleStep DEF set, Abort
  <1>3. CASE ~AtLimit(acc)
    <2>1. /\ rc' = Incref(rc, acc) /\ mem' = [mem EXCEPT ![c] = acc] /\ acc' = Null
          /\ inCall' = inCall /\ cont' = cont
      BY <1>3 DEF set
    <2>2. Settled /\ Settled' /\ c \in Locs /\ Lives(c) /\ Tabs!InScope(c)
      BY <1>1, <2>1, ReadySettled, LocTypes DEF Settled, Lives
    <2> QED BY <2>1, <2>2, StoreNow DEF Tabs!Set
  <1> QED BY <1>2, <1>3

\* A field of a table that a variable refers to
LEMMA FieldStored ==
  ASSUME HeapInv, HeapInv', Ready, NEW c \in Vars, NEW k \in Keys, mem[c] \in Tables,
         StoreNew(mem[c], k, acc) \/ Overwrite(mem[c], k, acc, Idle)
  PROVE  Tabs!Store(<<Shown[c], k>>) \/ Stutter
  <1>1. /\ Settled /\ Shown[c] = mem[c] /\ rc[mem[c]] > 0
        /\ <<mem[c], k>> \in Locs /\ <<mem[c], k>>[1] = mem[c]
    BY ReadySettled, LocTypes
  <1>2. CASE Overwrite(mem[c], k, acc, Idle)
    BY <1>1, <1>2, StoreLater
  <1>3. CASE StoreNew(mem[c], k, acc) /\ AtLimit(acc)
    BY <1>3, IdleStep DEF StoreNew, Abort
  <1>4. CASE StoreNew(mem[c], k, acc) /\ ~AtLimit(acc)
    <2>1. /\ rc' = Incref(rc, acc) /\ mem' = [mem EXCEPT ![<<mem[c], k>>] = acc]
          /\ acc' = Null /\ inCall' = inCall /\ cont' = cont
      BY <1>4 DEF StoreNew
    <2>2. Settled' /\ Lives(<<mem[c], k>>)
      BY <1>1, <2>1 DEF Settled, Lives
    <2> QED BY <1>1, <2>1, <2>2, StoreNow
  <1> QED BY <1>2, <1>3, <1>4

LEMMA SetFieldStep ==
  ASSUME HeapInv, HeapInv', NEW c \in Vars, NEW k \in Keys, set_tabvalue(c, k)
  PROVE  Tabs!SetField(c, k) \/ Stutter
  <1>1. Ready /\ InScope(c) /\ mem[c] \in Tables
    BY DEF set_tabvalue
  <1>2. CASE UNCHANGED vars
    BY <1>2, IdleStep DEF vars
  <1>3. CASE acc # Null /\ (StoreNew(mem[c], k, acc) \/ Overwrite(mem[c], k, acc, Idle))
    BY <1>1, <1>3, ReadySettled, FieldStored DEF Tabs!SetField
  <1> QED BY <1>2, <1>3 DEF set_tabvalue

LEMMA AddStep ==
  ASSUME HeapInv, HeapInv', NEW c \in Vars, add(c)
  PROVE  Tabs!Add(c) \/ Stutter
  <1>1. Ready /\ InScope(c) /\ mem[c] \in Tables /\ acc # Null
    BY DEF add
  <1>2. PICK k \in Keys : /\ \A j \in 1 .. k - 1 : mem[<<mem[c], j>>] # Null
                          /\ StoreNew(mem[c], k, acc)
    BY DEF add
  <1>3. Tabs!SetField(c, k) \/ Stutter
    BY <1>1, <1>2, ReadySettled, FieldStored DEF Tabs!SetField
  <1>4. Shown[<<Shown[c], k>>] = Null
    BY <1>1, <1>2, ReadySettled DEF StoreNew
  <1>5. \A j \in 1 .. k - 1 : Shown[<<Shown[c], j>>] # Null
    <2>1. \A j \in 1 .. k - 1 : j \in Keys
      BY SizeAssumption DEF Keys, SizeAssumption
    <2> QED BY <1>1, <1>2, <2>1, ReadySettled
  <1> QED BY <1>3, <1>4, <1>5, SamePlaces DEF Tabs!Add

LEMMA SetMetaStep ==
  ASSUME HeapInv, HeapInv', NEW c \in Vars, setmetatable(c)
  PROVE  Tabs!SetMeta(c) \/ Stutter
  <1>1. Ready /\ InScope(c) /\ mem[c] \in Tables /\ acc \in Tables
    BY DEF setmetatable
  <1>2. CASE AtLimit(acc)
    BY <1>2, IdleStep DEF setmetatable, Abort
  <1>3. CASE ~AtLimit(acc)
    <2>1. /\ rc' = Incref(rc, acc) /\ mem' = [mem EXCEPT ![<<mem[c], Meta>>] = acc]
          /\ acc' = Null /\ inCall' = inCall /\ cont' = cont
      BY <1>3 DEF setmetatable
    <2>2. /\ Settled /\ Settled' /\ <<mem[c], Meta>> \in Locs /\ Lives(<<mem[c], Meta>>)
          /\ Tabs!InScope(c) /\ Shown[c] = mem[c] /\ Result = acc
      BY <1>1, <2>1, ReadySettled, LocTypes DEF Settled, Lives
    <2>3. Tabs!Store(<<mem[c], Meta>>)
      BY <2>1, <2>2, StoreNow
    <2> QED BY <1>1, <2>2, <2>3 DEF Tabs!SetMeta
  <1> QED BY <1>2, <1>3

LEMMA MakeStep ==
  ASSUME HeapInv, HeapInv', make_table
  PROVE  (\E t \in Tables : Tabs!New(t)) \/ Stutter
  <1>1. CASE Abort("noslot")
    BY <1>1, IdleStep DEF Abort
  <1>2. ASSUME NEW t \in free, rc' = [rc EXCEPT ![t] = 1],
               mem' = [mem EXCEPT ![<<t, Meta>>] = Null], acc' = t,
               UNCHANGED <<cont, inCall>>
        PROVE  \E u \in Tables : Tabs!New(u)
    <2>0. Ready /\ acc = Null
      BY DEF make_table
    <2>1. /\ TypeOK /\ TypeOK' /\ t \in Tables /\ rc[t] = 0
          /\ \A k \in Keys \cup {Meta} : mem[<<t, k>>] = Null
      BY <1>2 DEF HeapInv, TypeInv, TypeOK, FreeIsBlank
    <2>2. Settled /\ Settled' /\ Result = Null /\ cont.op # "leave"
      BY <1>2, <2>0, ReadySettled DEF Settled
    <2>3. Result' = t
      BY <1>2, <2>2, SettledShown DEF SettledContent
    <2>4. mem' = mem
      BY <2>1, <1>2, LocTypes DEF TypeOK
    <2>5. \A u \in Tables : rc'[u] = IF u = t THEN 1 ELSE rc[u]
      BY <1>2, <2>1 DEF TypeOK
    <2>6. Shown' = Shown
      <3>1. \A x \in Vars : Shown'[x] = Shown[x]
        BY <2>2, <2>4, SettledShown DEF SettledContent
      <3>2. ASSUME NEW u \in Tables, NEW k \in Keys \cup {Meta}
            PROVE  Shown'[<<u, k>>] = Shown[<<u, k>>]
        <4>1. /\ Shown[<<u, k>>] = IF rc[u] = 0 THEN Null ELSE mem[<<u, k>>]
              /\ Shown'[<<u, k>>] = IF rc'[u] = 0 THEN Null ELSE mem'[<<u, k>>]
          BY <2>2, SettledShown DEF SettledContent
        <4>2. CASE u = t
          BY <2>1, <2>4, <2>5, <4>1, <4>2
        <4>3. CASE u # t
          BY <2>4, <2>5, <4>1, <4>3
        <4> QED BY <4>2, <4>3
      <3> QED BY <3>1, <3>2, SameShown
    <2>7. \A k \in Keys \cup {Meta} : Shown[<<t, k>>] = Null
      BY <2>1, <2>2, SettledShown DEF SettledContent
    <2>8. {u \in Tables : rc'[u] > 0} = {u \in Tables : rc[u] > 0} \cup {t}
      BY <2>1, <2>5
    <2>9. t \in Tables \ {u \in Tables : rc[u] > 0}
      BY <2>1
    <2>10. Tabs!New(t)
      BY <1>2, <2>2, <2>3, <2>6, <2>7, <2>8, <2>9, SamePlaces DEF Tabs!New
    <2> QED BY <2>1, <2>10
  <1> QED BY <1>1, <1>2 DEF make_table

\* Expressions
LEMMA EvaluateStep ==
  ASSUME HeapInv, HeapInv', Ready, UNCHANGED <<rc, mem, cont, inCall>>,
         \/ acc = Null /\ acc' = Num
         \/ acc = Null /\ \E c \in Vars : InScope(c) /\ acc' = mem[c]
         \/ acc \in Tables /\ \E k \in Keys \cup {Meta} : acc' = mem[<<acc, k>>]
         \/ acc' = Null
  PROVE  \E v \in Tables \cup {Num, Null} : Tabs!Evaluate(v)
  <1>1. Settled /\ Settled' /\ Result = acc
    BY ReadySettled DEF Settled
  <1>2. Result' = acc'
    BY <1>1, SettledShown DEF SettledContent
  <1>3. Shown' = Shown
    BY <1>1, SettledShown, SameShown DEF SettledContent
  <1>4. acc' \in Tables \cup {Num, Null}
    BY DEF HeapInv, TypeInv, TypeOK, Values
  <1>5. \/ acc = Null /\ acc' = Num
        \/ acc = Null /\ \E c \in Vars : Tabs!InScope(c) /\ acc' = Shown[c]
        \/ acc \in Tables /\ \E k \in Keys \cup {Meta} : acc' = Shown[<<acc, k>>]
        \/ acc' = Null
    <2> HIDE DEF Shown
    <2> QED BY ReadySettled
  <1>6. Tabs!Evaluate(acc')
    BY <1>1, <1>2, <1>3, <1>5, SamePlaces DEF Tabs!Evaluate
  <1> QED BY <1>4, <1>6

LEMMA CallStep ==
  ASSUME HeapInv, HeapInv', Call
  PROVE  Tabs!Call
  <1>1. /\ Ready /\ acc = Null /\ ~inCall /\ inCall'
        /\ UNCHANGED <<rc, mem, cont, acc>>
    BY DEF Call
  <1>2. Settled /\ Settled' /\ Result = acc /\ cont.op # "leave"
    BY <1>1, ReadySettled DEF Settled
  <1>3. Shown' = Shown /\ Result' = Result
    BY <1>1, <1>2, SettledShown, SameShown DEF SettledContent
  <1> QED BY <1>1, <1>2, <1>3 DEF Tabs!Call

\* The end of a function, in its three forms
LEMMA LeaveStart ==
  ASSUME HeapInv, HeapInv', Ready, acc = Null, inCall, cont' = [op |-> "leave"],
         mem' = mem, inCall' = inCall,
         \/ acc' = Null
         \/ \E c \in Vars : acc' = mem[c]
         \/ \E c \in Vars, k \in Keys : mem[c] \in Tables /\ acc' = mem[<<mem[c], k>>],
         \A t \in Tables : rc'[t] = 0 <=> rc[t] = 0
  PROVE  \E v \in Tables \cup {Num, Null} : Tabs!Return(v)
  <1>1. Settled /\ Result = acc /\ cont.op # "leave" /\ cont'.op = "leave"
    BY ReadySettled
  <1>2. TypeOK /\ TypeOK' /\ acc' \in Tables \cup {Num, Null}
    BY DEF HeapInv, TypeInv, TypeOK, Values
  <1>3. DelLeft'.op # "del" /\ cont'.op # "store"
    BY <1>1 DEF DelLeft
  <1>4. Moving' = {} /\ Result' = acc'
    BY <1>3 DEF Moving, Result
  <1>5. Shown' = [l \in Locs |-> IF l \in Locals THEN Null ELSE Shown[l]]
    <2> DEFINE after == [l \in Locs |-> IF l \in Locals THEN Null ELSE Shown[l]]
    <2>1. \A x \in Vars : Shown'[x] = after[x]
      BY <1>1, LocTypes, ShownAt, SettledShown DEF ContentAt, SettledContent
    <2>2. \A t \in Tables, k \in Keys \cup {Meta} : Shown'[<<t, k>>] = after[<<t, k>>]
      <3>1. ASSUME NEW t \in Tables, NEW k \in Keys \cup {Meta}
            PROVE  <<t, k>> \in Locs /\ <<t, k>> \notin Locals
        BY LocTypes, VarsAssumption DEF VarsAssumption
      <3>2. \A t \in Tables, k \in Keys \cup {Meta} :
              /\ Shown'[<<t, k>>] = IF rc'[t] = 0 THEN Null ELSE mem'[<<t, k>>]
              /\ Shown[<<t, k>>] = IF rc[t] = 0 THEN Null ELSE mem[<<t, k>>]
        <4>1. \A t \in Tables, k \in Keys \cup {Meta} :
                Shown'[<<t, k>>] = IF rc'[t] = 0 THEN Null ELSE mem'[<<t, k>>]
          BY <1>3, <1>4, ShownAt DEF ContentAt
        <4>2. \A t \in Tables, k \in Keys \cup {Meta} :
                Shown[<<t, k>>] = IF rc[t] = 0 THEN Null ELSE mem[<<t, k>>]
          BY <1>1, SettledShown DEF SettledContent
        <4> HIDE DEF Shown
        <4> QED BY <4>1, <4>2
      <3> HIDE DEF Shown
      <3>3. ASSUME NEW t \in Tables, NEW k \in Keys \cup {Meta}
            PROVE  Shown'[<<t, k>>] = after[<<t, k>>]
        <4>1. after[<<t, k>>] = Shown[<<t, k>>]
          BY <3>1
        <4> QED BY <3>2, <4>1
      <3> QED BY <3>3
    <2>3. \A l \in Locs : Shown'[l] = after[l]
      <3> HIDE DEF after
      <3> QED BY <2>1, <2>2 DEF Locs
    <2> HIDE DEF Shown
    <2> QED BY <2>3, ShownIs
  <1>6. Existing' = Existing
    BY <1>2, SameExisting
  <1>7. \/ acc' = Null
        \/ \E c \in Vars : acc' = Shown[c]
        \/ \E c \in Vars, k \in Keys : Shown[c] \in Tables /\ acc' = Shown[<<Shown[c], k>>]
    <2> HIDE DEF Shown
    <2> QED BY ReadySettled
  <1>8. Tabs!Return(acc')
    BY <1>1, <1>4, <1>5, <1>6, <1>7, SamePlaces DEF Tabs!Return, Existing
  <1> QED BY <1>2, <1>8

LEMMA ReturnStep ==
  ASSUME HeapInv, HeapInv', NEW c \in Vars, Return(c)
  PROVE  (\E v \in Tables \cup {Num, Null} : Tabs!Return(v)) \/ Stutter
  <1>1. CASE AtLimit(mem[c])
    BY <1>1, IdleStep DEF Return, Abort
  <1>2. CASE ~AtLimit(mem[c])
    <2>1. /\ Ready /\ acc = Null /\ inCall /\ cont' = [op |-> "leave"]
          /\ mem' = mem /\ inCall' = inCall /\ acc' = mem[c] /\ rc' = Incref(rc, mem[c])
      BY <1>2 DEF Return
    <2>2. TypeOK /\ RefcountExact
      BY DEF HeapInv, TypeInv
    <2>3. \A t \in Tables : rc'[t] = 0 <=> rc[t] = 0
      BY <2>1, <2>2, VarAlive, IncrefKeeps DEF Alive
    <2> QED BY <2>1, <2>3, LeaveStart
  <1> QED BY <1>1, <1>2

LEMMA ReturnPlain ==
  ASSUME HeapInv, HeapInv', ReturnNil \/ \E c \in Vars, k \in Keys : ReturnField(c, k)
  PROVE  \E v \in Tables \cup {Num, Null} : Tabs!Return(v)
  BY LeaveStart DEF ReturnNil, ReturnField

\* run_gc, from its start to its end
LEMMA GcIdle ==
  ASSUME HeapInv, HeapInv', run_gc \/ GcStep
  PROVE  Stutter
  <1>1. UNCHANGED <<rc, mem, acc, inCall>>
    BY DEF run_gc, GcStep
  <1>2. Settled
    BY ReadySettled DEF run_gc, GcStep, Resumes, Settled
  <1>3. Settled'
    <2>1. CASE run_gc
      BY <2>1 DEF run_gc, Settled
    <2>2. CASE GcStep
      <3>1. cont.op = "gc" /\ (cont' = Idle \/ cont' = [cont EXCEPT !.at = @ + 1])
        BY <2>2 DEF GcStep, Resumes
      <3>2. cont \in [op : {"gc"}, at : Nat \ {0}]
        BY <3>1, ContTypes DEF HeapInv, TypeInv
      <3> QED BY <3>1, <3>2 DEF Settled
    <2> QED BY <2>1, <2>2
  <1> QED BY <1>1, <1>2, <1>3, SettledStep

\* The locals that the end of a function releases are out of scope already.
LEMMA LeaveIdle ==
  ASSUME HeapInv, HeapInv', LeaveStep
  PROVE  Stutter
  <1>1. /\ TypeOK /\ cont.op = "leave" /\ rc' = rc /\ acc' = acc
        /\ (cont' = cont /\ inCall' = inCall) \/ (cont' = Idle /\ ~inCall')
    BY DEF HeapInv, TypeInv, LeaveStep, Resumes
  <1>2. cont'.op \notin {"store", "del"} /\ DelLeft.op # "del" /\ DelLeft'.op # "del"
    BY <1>1 DEF DelLeft
  <1>3. Moving = {} /\ Moving' = {} /\ Result = acc /\ Result' = acc'
    BY <1>2 DEF Moving, Result
  <1>4. /\ \A x \in Vars \ Locals : mem'[x] = mem[x]
        /\ \A t \in Tables, k \in Keys \cup {Meta} : mem'[<<t, k>>] = mem[<<t, k>>]
    <2>1. mem' = mem \/ \E l \in Locals : mem' = [mem EXCEPT ![l] = Null]
      BY DEF LeaveStep
    <2> QED BY <1>1, <2>1, LocTypes, VarsAssumption DEF TypeOK, VarsAssumption
  <1>5. cont'.op # "leave" => \A x \in Locals : mem'[x] = Null
    BY <1>1 DEF LeaveStep
  <1>6. \A x \in Vars : Shown'[x] = Shown[x]
    BY <1>1, <1>4, <1>5, ShownAt, VarsAssumption DEF ContentAt, VarsAssumption
  <1>7. ASSUME NEW t \in Tables, NEW k \in Keys \cup {Meta}
        PROVE  Shown'[<<t, k>>] = Shown[<<t, k>>]
    <2>1. Shown[<<t, k>>] = IF rc[t] = 0 THEN Null ELSE mem[<<t, k>>]
      BY <1>1, <1>3, ShownAt DEF ContentAt
    <2>2. Shown'[<<t, k>>] = IF rc'[t] = 0 THEN Null ELSE mem'[<<t, k>>]
      BY <1>2, <1>3, ShownAt DEF ContentAt
    <2>3. mem'[<<t, k>>] = mem[<<t, k>>]
      BY <1>4
    <2>4. rc' = rc
      BY <1>1
    <2> QED BY <2>1, <2>2, <2>3, <2>4
  <1>8. Shown' = Shown
    BY <1>6, <1>7, SameShown
  <1>9. Running' = Running
    BY <1>1 DEF Running
  <1> QED BY <1>1, <1>3, <1>8, <1>9 DEF Stutter, Existing

\* del shows its whole effect when it starts.
LEMMA DelStart ==
  ASSUME HeapInv, HeapInv', NEW c \in Vars, NEW keep \in BOOLEAN, del(c, keep)
  PROVE  Tabs!Del(c, keep)
  <1> DEFINE t == mem[c]
  <1>1. /\ Ready /\ InScope(c) /\ t \in Tables /\ acc # Null
        /\ cont' = [op |-> "del", tab |-> t, want |-> 1, last |-> 0,
                    item |-> acc, found |-> Null, keep |-> keep]
        /\ UNCHANGED <<rc, mem, inCall>>
    BY DEF del
  <1>2. /\ Settled /\ cont.op # "leave" /\ Result = acc /\ Shown[c] = t /\ rc[t] > 0
        /\ Tabs!InScope(c)
        /\ \A k \in Keys \cup {Meta} : Shown[<<t, k>>] = mem[<<t, k>>]
    BY <1>1, ReadySettled
  <1>3. /\ DelLeft' = cont' /\ cont'.op = "del" /\ cont'.tab = t /\ cont'.last = 0
        /\ cont'.item = acc /\ cont'.keep = keep
    BY <1>1 DEF DelLeft
  <1>4. NumKeys \in Nat
    BY SizeAssumption DEF SizeAssumption
  <1>5. Moving' = {t} \X Tabs!Elements(t)
    <2>1. Moving' = {t} \X {k \in 1 .. NumKeys : \A j \in 1 .. k : mem[<<t, j>>] # Null}
      BY <1>1, <1>3 DEF Moving
    <2>2. \A k \in Keys : \A j \in 1 .. k : Shown[<<t, j>>] = mem[<<t, j>>]
      BY <1>2, <1>4 DEF Keys
    <2>3. Tabs!Elements(t) = {k \in Keys : \A j \in 1 .. k : Shown[<<t, j>>] # Null}
      BY SamePlaces DEF Tabs!Elements
    <2> HIDE DEF Shown
    <2> QED BY <2>1, <2>2, <2>3 DEF Keys
  <1>6. Shown' = [l \in Locs |->
               IF l \notin {t} \X Tabs!Elements(t) THEN Shown[l]
               ELSE IF l[2] < NumKeys THEN Shown[<<l[1], l[2] + 1>>] ELSE Null]
    <2> DEFINE after == [l \in Locs |->
               IF l \notin {t} \X Tabs!Elements(t) THEN Shown[l]
               ELSE IF l[2] < NumKeys THEN Shown[<<l[1], l[2] + 1>>] ELSE Null]
    <2>1. ASSUME NEW x \in Vars PROVE Shown'[x] = after[x]
      <3>1. x \in Locs /\ x \notin {t} \X Tabs!Elements(t)
        BY <1>1, LocTypes, SamePlaces DEF Tabs!Elements
      <3>2. after[x] = Shown[x]
        BY <3>1
      <3> HIDE DEF after
      <3> QED BY <1>1, <1>2, <1>3, <3>2, ShownAt DEF ContentAt
    <2>2. ASSUME NEW u \in Tables, NEW k \in Keys \cup {Meta}
          PROVE  Shown'[<<u, k>>] = after[<<u, k>>]
      <3>1. <<u, k>> \in Locs /\ <<u, k>>[1] = u /\ <<u, k>>[2] = k
        BY LocTypes
      <3>2. after[<<u, k>>] = IF <<u, k>> \notin {t} \X Tabs!Elements(t) THEN Shown[<<u, k>>]
                              ELSE IF k < NumKeys THEN Shown[<<u, k + 1>>] ELSE Null
        BY <3>1
      <3>3. Shown'[<<u, k>>] =
              IF rc'[u] = 0 THEN Null
              ELSE IF cont'.op = "store" /\ <<u, k>> = cont'.loc THEN cont'.val
              ELSE IF <<u, k>> \notin Moving' THEN mem'[<<u, k>>]
              ELSE IF k < NumKeys THEN mem'[<<u, k + 1>>] ELSE Null
        BY ShownAt DEF ContentAt
      <3>4. Shown[<<u, k>>] = IF rc[u] = 0 THEN Null ELSE mem[<<u, k>>]
        BY <1>2, SettledShown DEF SettledContent
      <3>5. u = t /\ k < NumKeys => Shown[<<u, k + 1>>] = mem[<<u, k + 1>>]
        BY <1>2, FieldPlaces
      <3>6. <<u, k>> \in {t} \X Tabs!Elements(t) => u = t
        OBVIOUS
      <3> HIDE DEF after, t
      <3> QED BY <1>1, <1>2, <1>3, <1>5, <3>2, <3>3, <3>4, <3>5, <3>6
    <2>3. \A l \in Locs : Shown'[l] = after[l]
      <3> HIDE DEF after
      <3> QED BY <2>1, <2>2 DEF Locs
    <2> HIDE DEF Shown
    <2> QED BY <2>3, ShownIs
  <1>7. Result' = IF keep /\ 1 \in Keys /\ Shown[<<t, 1>>] = acc THEN acc ELSE Null
    <2>1. Result' = IF ~keep THEN Null
                    ELSE IF 1 \in Keys /\ mem[<<t, 1>>] = acc THEN acc ELSE Null
      BY <1>1, <1>3 DEF Result
    <2>2. 1 \in Keys => Shown[<<t, 1>>] = mem[<<t, 1>>]
      BY <1>2
    <2> HIDE DEF Shown, t
    <2> QED BY <2>1, <2>2
  <1> HIDE DEF Shown, t
  <1>8. Tabs!Del(c, keep)
    BY <1>1, <1>2, <1>3, <1>6, <1>7, SamePlaces DEF Tabs!Del
  <1> QED BY <1>8

\* The store that set_tabvalue or del announced when it started
LEMMA StoreIdle ==
  ASSUME HeapInv, HeapInv', ShiftOk, StoreStep
  PROVE  Stutter
  <1>0. /\ TypeOK /\ TypeOK' /\ RefcountExact /\ ContOk /\ cont.op = "store"
        /\ StoreOk(cont) /\ cont.loc \in Tables \X Keys /\ cont.next \in {Idle} \cup DelConts
        /\ cont.loc \in Locs /\ cont.loc \notin Vars
    BY ContTypes, LocTypes DEF HeapInv, TypeInv, StoreStep, Resumes, ContOk
  <1>1. CASE Abort("limit")
    BY <1>1, IdleStep DEF Abort
  <1>2. ASSUME mem' = [mem EXCEPT ![cont.loc] = cont.val], cont' = cont.next,
               rc' = Incref(rc, cont.val), UNCHANGED <<acc, inCall>>
        PROVE  Stutter
    <2>1. \A t \in Tables : rc'[t] = 0 <=> rc[t] = 0
      <3>1. Alive(cont.val)
        BY <1>0, StoreAlive
      <3>2. \A t \in Tables : rc'[t] = rc[t] \/ (rc[t] > 0 /\ rc'[t] > 0)
        BY <1>0, <1>2, <3>1, IncrefKeeps
      <3> QED BY <3>2
    <2>2. Existing' = Existing
      BY <1>0, <2>1, SameExisting
    <2>3. cont.next.op \in {"idle", "del"} /\ DelLeft' = cont.next /\ DelLeft = cont.next
      BY <1>0, <1>2 DEF DelConts, DelLeft
    <2>4. Running' = Running /\ cont'.op # "leave" /\ cont'.op # "store"
      BY <1>0, <1>2, <2>3 DEF Running
    <2>5. \A x \in Vars : Shown'[x] = Shown[x]
      BY <1>0, <1>2, <2>4, LocTypes, ShownAt DEF ContentAt, TypeOK
    <2>6. \A l \in Locs : mem'[l] = IF l = cont.loc THEN cont.val ELSE mem[l]
      BY <1>0, <1>2 DEF TypeOK
    <2>7. ASSUME Moving' = Moving, cont.loc \notin Moving,
                 \A t \in Tables, k \in Keys \cup {Meta} :
                   <<t, k>> \in Moving => <<t, k + 1>> # cont.loc
          PROVE  Shown' = Shown
      <3>1. ASSUME NEW t \in Tables, NEW k \in Keys \cup {Meta}
            PROVE  Shown'[<<t, k>>] = Shown[<<t, k>>]
        <4>1. Shown[<<t, k>>] =
                IF rc[t] = 0 THEN Null
                ELSE IF <<t, k>> = cont.loc THEN cont.val
                ELSE IF <<t, k>> \notin Moving THEN mem[<<t, k>>]
                ELSE IF k < NumKeys THEN mem[<<t, k + 1>>] ELSE Null
          BY <1>0, ShownAt DEF ContentAt
        <4>2. Shown'[<<t, k>>] =
                IF rc'[t] = 0 THEN Null
                ELSE IF <<t, k>> \notin Moving THEN mem'[<<t, k>>]
                ELSE IF k < NumKeys THEN mem'[<<t, k + 1>>] ELSE Null
          BY <2>4, <2>7, ShownAt DEF ContentAt
        <4>3. mem'[<<t, k>>] = IF <<t, k>> = cont.loc THEN cont.val ELSE mem[<<t, k>>]
          BY <2>6, LocTypes
        <4>4. k < NumKeys /\ <<t, k>> \in Moving => mem'[<<t, k + 1>>] = mem[<<t, k + 1>>]
          BY <2>6, <2>7, FieldPlaces, LocTypes
        <4> QED BY <2>1, <2>7, <4>1, <4>2, <4>3, <4>4
      <3> QED BY <2>5, <3>1, SameShown
    <2>8. CASE cont.next = Idle
      <3>1. DelLeft.op # "del"
        BY <2>3, <2>8
      <3>2. Moving = {} /\ Moving' = {} /\ Result = acc /\ Result' = acc'
        BY <2>3, <3>1 DEF Moving, Result
      <3>3. Shown' = Shown
        BY <2>7, <3>2
      <3> QED BY <1>2, <2>2, <2>4, <3>2, <3>3 DEF Stutter
    <2>9. CASE cont.next # Idle
      <3>1. /\ DelLeft \in DelConts /\ DelLeft.op = "del" /\ DelLeft.last \in Keys
            /\ cont.loc = <<DelLeft.tab, DelLeft.last - 1>> /\ DelLeft.tab \in Tables
        BY <1>0, <2>3, <2>9 DEF DelConts, StoreOk, ShiftOk
      <3>2. First = DelLeft.last /\ First' = First /\ First \in Nat
        BY <2>3, <3>1, LocTypes DEF First, Keys
      <3>3. \A t \in Tables, k \in Keys \cup {Meta} :
              <<t, k>> \in Moving => k >= DelLeft.last
        BY <1>0, <3>1, <3>2, MovingAt DEF MovingContent
      <3>4. \A j \in Keys : j >= First => mem'[<<DelLeft.tab, j>>] = mem[<<DelLeft.tab, j>>]
        BY <2>6, <3>1, <3>2, LocTypes DEF Keys
      <3>5. Moving' = Moving
        <4>1. \A i \in First .. NumKeys : \A j \in First .. i :
                mem'[<<DelLeft.tab, j>>] = mem[<<DelLeft.tab, j>>]
          BY <3>1, <3>2, <3>4, SizeAssumption DEF Keys, SizeAssumption
        <4>2. Moving = {DelLeft.tab} \X
                 {i \in First .. NumKeys : \A j \in First .. i : mem[<<DelLeft.tab, j>>] # Null}
          BY <3>1 DEF Moving, First
        <4>3. Moving' = {DelLeft.tab} \X
                 {i \in First .. NumKeys : \A j \in First .. i : mem'[<<DelLeft.tab, j>>] # Null}
          BY <2>3, <3>1, <3>2 DEF Moving, First
        <4> QED BY <4>1, <4>2, <4>3
      <3>6. \A t \in Tables, k \in Keys \cup {Meta} :
              <<t, k>> \in Moving => <<t, k + 1>> # cont.loc /\ <<t, k>> # cont.loc
        BY <3>1, <3>3, FieldPlaces DEF Keys
      <3>7. cont.loc \notin Moving
        <4>1. PICK t \in Tables, k \in Keys : cont.loc = <<t, k>>
          BY <1>0
        <4> QED BY <3>6, <4>1
      <3>8. Shown' = Shown
        BY <2>7, <3>5, <3>6, <3>7
      <3>9. Result' = Result
        <4>1. DelLeft.last # 0
          BY <3>1, LocTypes
        <4> QED BY <2>3, <3>1, <4>1 DEF Result
      <3> QED BY <2>2, <2>4, <3>8, <3>9 DEF Stutter
    <2> QED BY <2>8, <2>9
  <1> QED BY <1>1, <1>2 DEF StoreStep

LEMMA ScanMoving ==
  ASSUME HeapInv, HeapInv', ShiftOk, DelScan, cont.last # 0
  PROVE  /\ <<cont.tab, cont.last>> \in Moving /\ cont.last < NumKeys
         /\ \A t \in Tables, k \in Keys \cup {Meta} :
              <<t, k>> \in Moving' <=> <<t, k>> \in Moving /\ <<t, k>> # <<cont.tab, cont.last>>
  <1> DEFINE tab == cont.tab  at == cont.last  left == DelLeft'
  <1>1. /\ TypeOK /\ TypeOK' /\ DelLeft = cont /\ cont.op = "del" /\ MoveOk(cont)
        /\ tab \in Tables /\ at \in Keys /\ at + 1 \in Keys
        /\ left.op = "del" /\ left.tab = tab /\ left.last = at + 1
        /\ mem' = [mem EXCEPT ![<<tab, at>>] = Null]
    BY ScanIs DEF HeapInv, TypeInv
  <1>2. /\ NumKeys \in Nat /\ at \in Nat /\ at >= 1 /\ at < NumKeys
        /\ First = at /\ First' = at + 1
    BY <1>1, SizeAssumption DEF First, Keys, SizeAssumption
  <1>3. mem[<<tab, at>>] # Null
    BY <1>1, <1>2 DEF MoveOk
  <1>4. \A j \in Keys : j # at => mem'[<<tab, j>>] = mem[<<tab, j>>]
    BY <1>1, LocTypes DEF TypeOK
  <1>5. \A t \in Tables, k \in Keys \cup {Meta} :
          <<t, k>> \in Moving <=>
            /\ t = tab /\ k >= at /\ k \in Keys
            /\ \A j \in at .. k : mem[<<tab, j>>] # Null
    BY <1>1, <1>2, MovingAt DEF MovingContent
  <1>6. \A t \in Tables, k \in Keys \cup {Meta} :
          <<t, k>> \in Moving' <=>
            /\ t = tab /\ k >= at + 1 /\ k \in Keys
            /\ \A j \in at + 1 .. k : mem'[<<tab, j>>] # Null
    <2>1. TypeOK' /\ DelLeft'.op = "del" =>
            \A t \in Tables, k \in Keys \cup {Meta} :
              <<t, k>> \in Moving' <=>
                /\ t = DelLeft'.tab /\ k >= First' /\ k \in Keys
                /\ \A j \in First' .. k : mem'[<<DelLeft'.tab, j>>] # Null
      BY MovingAt DEF MovingContent
    <2>2. TypeOK' /\ DelLeft'.op = "del" /\ DelLeft'.tab = tab /\ First' = at + 1
      BY <1>1, <1>2
    <2> QED BY <2>1, <2>2
  <1>7. <<tab, at>> \in Moving
    <2>1. \A j \in at .. at : mem[<<tab, j>>] # Null
      BY <1>2, <1>3
    <2> QED BY <1>1, <1>2, <1>5, <2>1
  <1>8. ASSUME NEW k \in Keys, k # at
        PROVE  (k >= at /\ \A j \in at .. k : mem[<<tab, j>>] # Null)
                 <=> (k >= at + 1 /\ \A j \in at + 1 .. k : mem'[<<tab, j>>] # Null)
    <2>1. \A j \in at + 1 .. k : j \in Keys /\ j # at
      BY <1>2 DEF Keys
    <2>2. k \in Nat /\ (k >= at <=> k >= at + 1)
      BY <1>2, <1>8 DEF Keys
    <2>3. \A j \in at .. k : j = at \/ j \in at + 1 .. k
      BY <1>2, <2>2
    <2>4. \A j \in at + 1 .. k : j \in at .. k
      BY <1>2, <2>2
    <2> QED BY <1>3, <1>4, <2>1, <2>2, <2>3, <2>4
  <1>9. ~(at >= at + 1)
    BY <1>2
  <1>10. \A t \in Tables, k \in Keys \cup {Meta} :
           <<t, k>> \in Moving' <=> <<t, k>> \in Moving /\ <<t, k>> # <<tab, at>>
    BY <1>5, <1>6, <1>8, <1>9
  <1> QED BY <1>2, <1>7, <1>10

LEMMA ScanIdle ==
  ASSUME HeapInv, HeapInv', ShiftOk, DelScan
  PROVE  Stutter
  <1> DEFINE left == DelLeft'  tab == cont.tab  at == cont.last
  <1>0. TypeOK /\ TypeOK' /\ RefcountExact
    BY DEF HeapInv, TypeInv
  <1>1. /\ cont \in DelConts /\ DelLeft = cont /\ cont.op = "del"
        /\ tab \in Tables /\ cont.want \in Keys /\ cont.want = at + 1
        /\ left.op = "del" /\ left.tab = tab /\ left.item = cont.item
        /\ left.keep = cont.keep /\ left.last = cont.want
        /\ UNCHANGED <<rc, inCall>>
    BY ScanIs
  <1>2. left.last # 0
    BY <1>1, LocTypes
  <1>3. Existing' = Existing
    BY <1>1 DEF Existing
  <1>4. CASE at = 0
    <2>1. /\ cont' = left /\ UNCHANGED <<mem, acc>>
          /\ left.found = IF mem[<<tab, cont.want>>] = cont.item THEN cont.item ELSE Null
      BY <1>4, ScanIs
    <2>2. cont.want = 1 /\ 1 \in Keys
      BY <1>1, <1>4
    <2>3. Moving' = Moving
      BY <1>1, <1>4, <2>1, <2>2 DEF Moving
    <2>4. \A x \in Vars : Shown'[x] = Shown[x]
      BY <1>1, <2>1, ShownAt DEF ContentAt
    <2>5. ASSUME NEW t \in Tables, NEW k \in Keys \cup {Meta}
          PROVE  Shown'[<<t, k>>] = Shown[<<t, k>>]
      <3>1. Shown[<<t, k>>] =
              IF rc[t] = 0 THEN Null
              ELSE IF <<t, k>> \notin Moving THEN mem[<<t, k>>]
              ELSE IF k < NumKeys THEN mem[<<t, k + 1>>] ELSE Null
        BY <1>1, ShownAt DEF ContentAt
      <3>2. cont'.op = "del"
        BY <1>1, <2>1
      <3>3. Shown'[<<t, k>>] =
              IF rc'[t] = 0 THEN Null
              ELSE IF <<t, k>> \notin Moving' THEN mem'[<<t, k>>]
              ELSE IF k < NumKeys THEN mem'[<<t, k + 1>>] ELSE Null
        BY <3>2, ShownAt DEF ContentAt
      <3> QED BY <1>1, <2>1, <2>3, <3>1, <3>3
    <2>6. Shown' = Shown
      BY <2>4, <2>5, SameShown
    <2>7. Result = IF ~cont.keep THEN Null
                   ELSE IF mem[<<tab, 1>>] = cont.item THEN cont.item ELSE Null
      BY <1>1, <1>4, <2>2 DEF Result
    <2>8. Result' = IF ~left.keep THEN Null ELSE left.found
      BY <1>1, <1>2 DEF Result
    <2>9. Result' = Result
      BY <1>1, <2>1, <2>2, <2>7, <2>8
    <2> QED BY <1>1, <1>3, <2>1, <2>6, <2>9 DEF Stutter, Running
  <1>5. CASE at # 0
    <2>1. /\ at \in Keys /\ left.found = cont.found
          /\ mem' = [mem EXCEPT ![<<tab, at>>] = Null]
          /\ cont' = [op |-> "store", loc |-> <<tab, at>>,
                      val |-> mem[<<tab, cont.want>>], next |-> left]
          /\ acc' = Null
      BY <1>5, ScanIs
    <2> HIDE DEF left
    <2>2. /\ cont'.op = "store" /\ cont'.loc = <<tab, at>>
          /\ cont'.val = mem[<<tab, at + 1>>]
      BY <1>1, <2>1
    <2>3. /\ <<tab, at>> \in Moving /\ at < NumKeys
          /\ \A t \in Tables, k \in Keys \cup {Meta} :
               <<t, k>> \in Moving' <=> <<t, k>> \in Moving /\ <<t, k>> # <<tab, at>>
      BY <1>5, ScanMoving
    <2>4. \A x \in Vars : Shown'[x] = Shown[x]
      BY <1>0, <1>1, <2>1, <2>2, LocTypes, ShownAt DEF ContentAt, TypeOK
    <2>5. \A l \in Locs : l # <<tab, at>> => mem'[l] = mem[l]
      BY <1>0, <2>1 DEF TypeOK
    <2>6. \A t \in Tables, k \in Keys \cup {Meta} : <<t, k>> \in Moving => k >= at
      <3>1. First = at
        BY <1>1, <1>5 DEF First
      <3> QED BY <1>0, <1>1, <3>1, MovingAt DEF MovingContent
    <2>7. ASSUME NEW t \in Tables, NEW k \in Keys \cup {Meta}
          PROVE  Shown'[<<t, k>>] = Shown[<<t, k>>]
      <3>1. Shown[<<t, k>>] =
              IF rc[t] = 0 THEN Null
              ELSE IF <<t, k>> \notin Moving THEN mem[<<t, k>>]
              ELSE IF k < NumKeys THEN mem[<<t, k + 1>>] ELSE Null
        BY <1>1, ShownAt DEF ContentAt
      <3>2. Shown'[<<t, k>>] =
              IF rc'[t] = 0 THEN Null
              ELSE IF <<t, k>> = <<tab, at>> THEN mem[<<tab, at + 1>>]
              ELSE IF <<t, k>> \notin Moving' THEN mem'[<<t, k>>]
              ELSE IF k < NumKeys THEN mem'[<<t, k + 1>>] ELSE Null
        BY <2>2, ShownAt DEF ContentAt
      <3>3. CASE <<t, k>> = <<tab, at>>
        <4>1. t = tab /\ k = at
          BY <3>3
        <4> QED BY <1>1, <2>3, <3>1, <3>2, <4>1
      <3>4. CASE <<t, k>> # <<tab, at>>
        <4>1. mem'[<<t, k>>] = mem[<<t, k>>]
          BY <2>5, <3>4, LocTypes
        <4>2. k < NumKeys /\ <<t, k>> \in Moving => mem'[<<t, k + 1>>] = mem[<<t, k + 1>>]
          <5> SUFFICES ASSUME k < NumKeys, <<t, k>> \in Moving
                       PROVE  mem'[<<t, k + 1>>] = mem[<<t, k + 1>>]
            OBVIOUS
          <5>1. k >= at /\ k \in Nat /\ at \in Nat /\ k + 1 \in Keys
            BY <2>1, <2>6, FieldPlaces
          <5>2. k + 1 # at
            BY <5>1
          <5>3. <<t, k + 1>> \in Locs /\ <<t, k + 1>> # <<tab, at>>
            BY <5>1, <5>2, LocTypes
          <5> QED BY <2>5, <5>3
        <4> QED BY <1>1, <2>3, <3>1, <3>2, <3>4, <4>1, <4>2
      <3> QED BY <3>3, <3>4
    <2>8. Shown' = Shown
      BY <2>4, <2>7, SameShown
    <2>9. Result = IF ~cont.keep THEN Null ELSE cont.found
      BY <1>1, <1>5 DEF Result
    <2>10. Result' = IF ~left.keep THEN Null ELSE left.found
      BY <1>1, <1>2 DEF Result, left
    <2>11. Running' = Running
      BY <1>1, <2>2 DEF Running
    <2> QED BY <1>1, <1>3, <2>1, <2>8, <2>9, <2>10, <2>11 DEF Stutter
  <1> QED BY <1>4, <1>5

LEMMA LastIdle ==
  ASSUME HeapInv, HeapInv', ShiftOk, DelLast
  PROVE  Stutter
  <1> DEFINE tab == cont.tab  at == cont.last
  <1>0. /\ TypeOK /\ TypeOK' /\ NumKeys \in Nat
        /\ cont \in DelConts /\ DelLeft = cont /\ cont.op = "del" /\ MoveOk(cont)
        /\ tab \in Tables /\ at \in Keys \cup {0} /\ at \in Nat /\ cont.want = at + 1
    BY ContTypes, LeftTypes, FieldPlaces, SizeAssumption
    DEF HeapInv, TypeInv, DelLast, Resumes, ShiftOk, MoveOk, SizeAssumption, DelConts
  <1>1. /\ cont' = Idle /\ UNCHANGED <<rc, inCall>>
        /\ acc' = IF cont.keep THEN cont.found ELSE Null
        /\ at + 1 \in Keys => mem[<<tab, at + 1>>] = Null
        /\ IF at = 0 THEN mem' = mem ELSE mem' = [mem EXCEPT ![<<tab, at>>] = Null]
    BY <1>0 DEF DelLast
  <1>2. cont'.op = "idle" /\ Settled'
    BY <1>1 DEF Settled
  <1>3. Existing' = Existing /\ Running' = Running
    BY <1>0, <1>1, <1>2 DEF Existing, Running
  <1>4. \A x \in Vars : mem'[x] = mem[x]
    BY <1>0, <1>1, LocTypes DEF TypeOK
  <1>5. \A x \in Vars : Shown'[x] = Shown[x]
    BY <1>0, <1>2, <1>4, ShownAt DEF ContentAt
  <1>6. \A t \in Tables, k \in Keys \cup {Meta} :
          <<t, k>> \in Moving => <<t, k>> = <<tab, at>> /\ at # 0
    <2> SUFFICES ASSUME NEW t \in Tables, NEW k \in Keys \cup {Meta}, <<t, k>> \in Moving
                 PROVE  <<t, k>> = <<tab, at>> /\ at # 0
      OBVIOUS
    <2>1. /\ First \in Nat /\ t = tab /\ k >= First /\ k \in Keys /\ k \in Nat
          /\ \A j \in First .. k : mem[<<tab, j>>] # Null
      BY <1>0, MovingAt, FieldPlaces DEF MovingContent
    <2>2. First = IF at = 0 THEN 1 ELSE at
      BY <1>0 DEF First
    <2>3. ~(at + 1 <= k)
      <3> SUFFICES ASSUME at + 1 <= k PROVE FALSE
        OBVIOUS
      <3>1. at + 1 \in First .. k /\ at + 1 \in Keys
        BY <1>0, <2>1, <2>2 DEF Keys
      <3> QED BY <1>1, <2>1, <3>1
    <2> QED BY <1>0, <2>1, <2>2, <2>3
  <1>7. at # 0 => <<tab, at>> \in Moving
    <2> SUFFICES ASSUME at # 0 PROVE <<tab, at>> \in Moving
      OBVIOUS
    <2>1. First = at /\ at \in Keys /\ mem[<<tab, at>>] # Null
      BY <1>0 DEF First, MoveOk
    <2>2. \A j \in at .. at : mem[<<tab, j>>] # Null
      BY <1>0, <2>1
    <2> QED BY <1>0, <2>1, <2>2, MovingAt DEF MovingContent
  <1>8. ASSUME NEW t \in Tables, NEW k \in Keys \cup {Meta}
        PROVE  Shown'[<<t, k>>] = Shown[<<t, k>>]
    <2>1. Shown[<<t, k>>] =
            IF rc[t] = 0 THEN Null
            ELSE IF <<t, k>> \notin Moving THEN mem[<<t, k>>]
            ELSE IF k < NumKeys THEN mem[<<t, k + 1>>] ELSE Null
      BY <1>0, ShownAt DEF ContentAt
    <2>2. Shown'[<<t, k>>] = IF rc'[t] = 0 THEN Null ELSE mem'[<<t, k>>]
      BY <1>2, SettledShown DEF SettledContent
    <2>3. CASE <<t, k>> \in Moving
      <3>1. t = tab /\ k = at /\ at # 0
        BY <1>6, <2>3
      <3>2. mem'[<<t, k>>] = Null
        BY <1>0, <1>1, <3>1, LocTypes DEF TypeOK
      <3>3. k < NumKeys => mem[<<t, k + 1>>] = Null
        BY <1>1, <3>1, FieldPlaces
      <3> QED BY <1>1, <2>1, <2>2, <2>3, <3>2, <3>3
    <2>4. CASE <<t, k>> \notin Moving
      <3>1. mem'[<<t, k>>] = mem[<<t, k>>]
        BY <1>0, <1>1, <1>7, <2>4, LocTypes DEF TypeOK
      <3> QED BY <1>1, <2>1, <2>2, <2>4, <3>1
    <2> QED BY <2>3, <2>4
  <1>9. Shown' = Shown
    BY <1>5, <1>8, SameShown
  <1>10. Result' = acc'
    BY <1>2, SettledShown DEF SettledContent
  <1>11. Result = IF cont.keep THEN cont.found ELSE Null
    <2>1. CASE at # 0
      BY <1>0, <2>1 DEF Result
    <2>2. CASE at = 0
      <3>1. cont.found = Null /\ cont.item # Null
        BY <1>0, <2>2 DEF MoveOk
      <3>2. 1 \in Keys => mem[<<tab, 1>>] = Null
        BY <1>1, <2>2
      <3> QED BY <1>0, <2>2, <3>1, <3>2 DEF Result
    <2> QED BY <2>1, <2>2
  <1> QED BY <1>1, <1>3, <1>9, <1>10, <1>11 DEF Stutter

LEMMA ShiftInit == Init => ShiftOk
  BY DEF Init, ShiftOk, DelLeft

\* Every step of a careful program is a step of Objects or changes nothing that
\* the program sees.
LEMMA ObjectStep ==
  ASSUME HeapInv, HeapInv', ShiftOk, [CarefulNext]_vars
  PROVE  Tabs!Next \/ Stutter
  <1>1. CASE UNCHANGED vars \/ Stopped
    BY <1>1, IdleStep DEF Stopped, vars
  <1>2. CASE make_table
    BY <1>2, MakeStep DEF Tabs!Next
  <1>3. CASE \/ Literal \/ Discard \/ getmetatable
             \/ \E c \in Vars : Read(c)
             \/ \E k \in Keys : get_tabvalue(k)
    <2>1. \E v \in Tables \cup {Num, Null} : Tabs!Evaluate(v)
      <3>1. Ready /\ UNCHANGED <<rc, mem, cont, inCall>>
        BY <1>3 DEF Literal, Discard, getmetatable, Read, get_tabvalue
      <3>2. \/ acc = Null /\ acc' = Num
            \/ acc = Null /\ \E c \in Vars : InScope(c) /\ acc' = mem[c]
            \/ acc \in Tables /\ \E k \in Keys \cup {Meta} : acc' = mem[<<acc, k>>]
            \/ acc' = Null
        BY <1>3 DEF Literal, Discard, getmetatable, Read, get_tabvalue
      <3> QED BY <3>1, <3>2, EvaluateStep
    <2> QED BY <2>1 DEF Tabs!Next
  <1>4. ASSUME NEW c \in Vars, set(c) \/ add(c) \/ setmetatable(c) PROVE Tabs!Next \/ Stutter
    BY <1>4, SetStep, AddStep, SetMetaStep DEF Tabs!Next
  <1>5. ASSUME NEW c \in Vars, NEW k \in Keys, CarefulSet(c, k) PROVE Tabs!Next \/ Stutter
    BY <1>5, SetFieldStep, SamePlaces DEF CarefulSet, Tabs!Next
  <1>6. ASSUME NEW c \in Vars, NEW keep \in BOOLEAN, del(c, keep) PROVE Tabs!Next
    BY <1>6, DelStart DEF Tabs!Next
  <1>7. CASE Call
    BY <1>7, CallStep DEF Tabs!Next
  <1>8. CASE ReturnNil \/ \E c \in Vars : Return(c) \/ \E k \in Keys : CarefulReturn(c, k)
    BY <1>8, ReturnPlain, ReturnStep DEF Tabs!Next, CarefulReturn
  <1>9. CASE run_gc \/ GcStep
    BY <1>9, GcIdle
  <1>10. CASE DecStep \/ SweepField \/ SweepFree
    <2>1. CASE \A t \in Tables : rc'[t] = 0 => rc[t] = 0
      BY <1>10, <2>1, RecursionStep
    <2>2. ASSUME NEW u \in Tables, rc'[u] = 0, rc[u] # 0 PROVE Tabs!Next
      <3>1. rc[u] > 0
        BY <2>2 DEF HeapInv, TypeInv, TypeOK
      <3>2. DecStep
        BY <1>10, <2>2 DEF SweepField, SweepFree
      <3>3. Tabs!Collect(u)
        BY <2>2, <3>1, <3>2, CollectStep
      <3> QED BY <3>3 DEF Tabs!Next
    <2> QED BY <2>1, <2>2
  <1>11. CASE StoreStep \/ DelScan \/ DelLast \/ LeaveStep
    BY <1>11, StoreIdle, ScanIdle, LastIdle, LeaveIdle
  <1>12. CASE Operation
    BY <1>2, <1>3, <1>4, <1>6, <1>7, <1>8, <1>9, <1>12 DEF Operation
  <1>13. CASE Step
    BY <1>9, <1>10, <1>11, <1>13 DEF Step
  <1>14. CASE \E c \in Vars : \/ CarefulDel(c)
                              \/ \E k \in Keys : CarefulSet(c, k) \/ CarefulReturn(c, k)
    BY <1>5, <1>6, <1>8, <1>14 DEF CarefulDel
  <1> QED BY <1>1, <1>12, <1>13, <1>14 DEF CarefulNext

LEMMA ObjectInit == Init => Tabs!Init
  <1> SUFFICES ASSUME Init PROVE Tabs!Init
    OBVIOUS
  <1>1. /\ rc = [t \in Tables |-> 0] /\ mem = [l \in Locs |-> Null] /\ cont = Idle
        /\ acc = Null /\ inCall = FALSE
    BY DEF Init
  <1>2. Settled /\ \A t \in Tables : ~(rc[t] > 0)
    BY <1>1 DEF Settled
  <1>3. \A x \in Vars : Shown[x] = Null
    BY <1>1, <1>2, SettledShown, LocTypes DEF SettledContent
  <1>4. \A t \in Tables, k \in Keys \cup {Meta} : Shown[<<t, k>>] = Null
    BY <1>1, <1>2, SettledShown DEF SettledContent
  <1>5. Shown = [l \in Locs |-> Null]
    <2> HIDE DEF Shown
    <2>1. \A l \in Locs : Shown[l] = Null
      BY <1>3, <1>4 DEF Locs
    <2> QED BY <2>1, ShownIs
  <1>6. Result = Null
    BY <1>1, <1>2, SettledShown DEF SettledContent
  <1> QED BY <1>1, <1>2, <1>5, <1>6, SamePlaces DEF Tabs!Init

\* A careful program sees the tables of Objects: every value it reads is the one
\* it stored last, whatever the runtime counts, sweeps and defers in between.
THEOREM HeapImplementsObjects == CarefulSpec => ImplementsObjects
  <1>1. Init => Tabs!Init
    BY ObjectInit
  <1>2. Init => HeapInv /\ ShiftOk
    BY HeapInit, ShiftInit
  <1>3. HeapInv /\ ShiftOk /\ [CarefulNext]_vars => HeapInv' /\ ShiftOk'
    BY HeapStep, ShiftStep
  <1>4. HeapInv /\ ShiftOk /\ [CarefulNext]_vars => [Tabs!Next]_(Tabs!vars)
    <2> SUFFICES ASSUME HeapInv, ShiftOk, [CarefulNext]_vars PROVE [Tabs!Next]_(Tabs!vars)
      OBVIOUS
    <2>1. HeapInv'
      BY HeapStep
    <2>2. Tabs!Next \/ Stutter
      BY <2>1, ObjectStep
    <2>3. Stutter => UNCHANGED Tabs!vars
      BY DEF Stutter, Existing, Running, Tabs!vars
    <2> QED BY <2>2, <2>3
  <1> QED BY <1>1, <1>2, <1>3, <1>4, PTL DEF CarefulSpec, ImplementsObjects, Tabs!Spec
=============================================================================
