------------------------------ MODULE RefHeap ------------------------------
(***************************************************************************)
(* The reference-counted table heap of lua.c, as a compiled Lua program    *)
(* drives it.                                                              *)
(*                                                                         *)
(* A table is a slot of the arena _tables.  References to it live in the   *)
(* variables of the program (C variables carrying the "gc" cleanup         *)
(* attribute), in the fields and the metatable link of other tables, and   *)
(* in the list _gc_to_visit of deferred decrements.  Every C statement     *)
(* that releases a reference may recurse through _tab_decref; the model    *)
(* keeps the pending calls of that recursion in "work" (top of the stack   *)
(* last) and what is left of the interrupted runtime function in "cont",   *)
(* so that each recursive call is a step of its own, in the order of the   *)
(* code.  "acc" is the value of the C expression evaluated last: an rvalue *)
(* that owns no reference.                                                 *)
(*                                                                         *)
(* When _decref is called on the content of a variable or a field, the     *)
(* model moves the reference from that place to "work" at once.  The code  *)
(* leaves the old bits there until it overwrites them, and never reads     *)
(* them in between.                                                        *)
(***************************************************************************)
EXTENDS Integers, Sequences, FiniteSets

CONSTANTS
  NumTables,  \* slots of the arena (its growth is modelled in TableStore)
  NumKeys,    \* a table has the keys 1 .. NumKeys
  Vars,       \* variables of the program that hold Lua values
  Locals,     \* those of them that belong to the function being called
  RcLimit,    \* _incref asserts refcount < RcLimit (250 in the code)
  RcMod,      \* refcount is a uint8_t: values 0 .. RcMod - 1 (256 in the code)
  GcFirst,    \* entries that add_to_gc allocates first (128 in the code)
  GcBound,    \* bound on the length of _gc_to_visit, for model checking
  Num,        \* any value that is not reference counted (number, boolean)
  Null        \* T_NULL, nil

Tables == 0 .. NumTables - 1
Keys   == 1 .. NumKeys
Meta   == 0                       \* the slot of a table for metatable_idx
Locs   == Vars \cup (Tables \X (Keys \cup {Meta}))
Values == Tables \cup {Num, Null}

ASSUME SizeAssumption ==
  /\ NumTables \in Nat /\ NumKeys \in Nat /\ GcBound \in Nat
  /\ RcLimit \in Nat /\ RcMod \in Nat /\ GcFirst \in Nat \ {0}
  /\ 1 <= RcLimit /\ RcLimit < RcMod

ASSUME VarsAssumption ==
  /\ IsFiniteSet(Vars) /\ Locals \subseteq Vars
  /\ Vars \cap (Tables \X (Keys \cup {Meta})) = {}

ASSUME ValuesAssumption ==
  /\ Num \notin Tables /\ Null \notin Tables /\ Num # Null

VARIABLES
  free,    \* indices whose bit is set in _tables.free_tables
  used,    \* _tables.used
  rc,      \* Table_t.refcount of every slot
  mem,     \* content of every place a value is stored in
  gc,      \* the array of _gc_to_visit; Null is an entry whose tag is NUL
  work,    \* pending calls of the _tab_decref recursion, innermost last
  cont,    \* what is left to do in the runtime function being executed
  acc,     \* the value of the last expression
  inCall,  \* TRUE while the function that owns Locals is running
  status,  \* "run", or the assertion that aborted the program: "limit" (a
           \* refcount at RcLimit), "dead" (a decref of a table without
           \* references) or "noslot" (make_table found no free slot)
  leaked   \* auxiliary: references setmetatable overwrote, per table

vars == <<free, used, rc, mem, gc, work, cont, acc, inCall, status, leaked>>

Idle == [op |-> "idle"]

(***************************************************************************)
(* Helpers                                                                 *)
(***************************************************************************)
Dec8(n) == IF n = 0 THEN RcMod - 1 ELSE n - 1     \* uint8_t n; n--

\* _decref(v), still to be executed: nothing for a value type
Pending(w, v) ==
  IF v \in Tables THEN Append(w, [op |-> "dec", tab |-> v]) ELSE w

\* The entries of _gc_to_visit that are NUL, and the first of them
Nuls(q)     == {i \in DOMAIN q : q[i] = Null}
FirstNul(q) == CHOOSE i \in Nuls(q) : \A j \in Nuls(q) : i <= j

\* Twice the array, its new entries NUL
DoubledLen(q) == IF q = <<>> THEN GcFirst ELSE 2 * Len(q)
Doubled(q)    == [i \in 1 .. DoubledLen(q) |-> IF i \in DOMAIN q THEN q[i] ELSE Null]

\* Mutant: the new entry is written one behind the old ones.
add_to_gc_SkipsOne(q, v) ==
  IF v \notin Tables THEN q
  ELSE IF Nuls(q) # {} THEN [q EXCEPT ![FirstNul(q)] = v]
  ELSE [Doubled(q) EXCEPT ![Len(q) + 2] = v]
\* add_to_gc(v), for a value that is reference counted: over the first entry that
\* is NUL, or behind all entries after doubling the array
add_to_gc(q, v) ==
  IF v \notin Tables THEN q
  ELSE IF Nuls(q) # {} THEN [q EXCEPT ![FirstNul(q)] = v]
  ELSE [Doubled(q) EXCEPT ![Len(q) + 1] = v]

\* The bound leaves room for one more entry.
GcRoom == Nuls(gc) # {} \/ DoubledLen(gc) <= GcBound

Top  == work[Len(work)]
Rest == SubSeq(work, 1, Len(work) - 1)

\* first_free_table_idx() = t, when a bit of the bitmap is set
first_free_table_idx(t) == t \in free /\ \A u \in free : t <= u

\* No call of the runtime is being executed.
Quiet == work = <<>> /\ cont = Idle

\* Mutant: the limit is tested with <= (uint8_t overflow).
AtLimit_OffByOne(v) == v \in Tables /\ rc[v] > RcLimit
\* _incref(v): asserts that the count is below the limit, then counts one more
\* reference.
AtLimit(v) == v \in Tables /\ rc[v] >= RcLimit
\* Mutant: a reference is stored without being counted.
Incref_Missing(r, v) == r
Incref(r, v) == IF v \in Tables THEN [r EXCEPT ![v] = @ + 1] ELSE r

\* A failed assert: the process ends, so what the function had already changed
\* does not matter.
Abort(why) ==
  /\ status' = why
  /\ UNCHANGED <<free, used, rc, mem, gc, work, cont, acc, inCall, leaked>>

\* The program is about to start a new operation of the runtime.
Ready == status = "run" /\ Quiet

\* The variable c is in scope.
InScope(c) == c \in Locals => inCall

\* Something other than a field keeps v alive.
Rooted(v) ==
  v \in Tables => \/ \E x \in Vars : mem[x] = v
                  \/ \E i \in DOMAIN gc : gc[i] = v

(***************************************************************************)
(* Expressions                                                             *)
(***************************************************************************)

\* TTAB(make_table(n)): lowest free slot, refcount 1 owned by _gc_to_visit.
make_table ==
  /\ Ready /\ acc = Null
  /\ used < NumTables /\ GcRoom
  /\ IF free = {} THEN Abort("noslot")
     ELSE \E t \in free :
          /\ first_free_table_idx(t)
          /\ free' = free \ {t}
          /\ used' = used + 1
          /\ rc'   = [rc EXCEPT ![t] = 1]
          /\ mem'  = [mem EXCEPT ![<<t, Meta>>] = Null]
          /\ gc'   = add_to_gc(gc, t)
          /\ acc'  = t
          /\ UNCHANGED <<work, cont, inCall, status, leaked>>

\* A literal of a value type, or the use of a variable.
Literal ==
  /\ Ready /\ acc = Null
  /\ acc' = Num
  /\ UNCHANGED <<free, used, rc, mem, gc, work, cont, inCall, status, leaked>>

Read(c) ==
  /\ Ready /\ acc = Null /\ InScope(c)
  /\ acc' = mem[c]
  /\ UNCHANGED <<free, used, rc, mem, gc, work, cont, inCall, status, leaked>>

\* get_tabvalue(acc, k), when the metatable of acc defines no __index
get_tabvalue(k) ==
  /\ Ready /\ acc \in Tables
  /\ acc' = mem[<<acc, k>>]
  /\ UNCHANGED <<free, used, rc, mem, gc, work, cont, inCall, status, leaked>>

\* getmetatable(acc)
getmetatable ==
  /\ Ready /\ acc \in Tables
  /\ acc' = mem[<<acc, Meta>>]
  /\ UNCHANGED <<free, used, rc, mem, gc, work, cont, inCall, status, leaked>>

\* An expression statement: its value is not used.
Discard ==
  /\ Ready /\ acc # Null
  /\ acc' = Null
  /\ UNCHANGED <<free, used, rc, mem, gc, work, cont, inCall, status, leaked>>

(***************************************************************************)
(* Statements                                                              *)
(***************************************************************************)

\* Mutant: the variable's old value is released first.
set_ReleaseFirst(c) ==
  /\ Ready /\ InScope(c)
  /\ work' = Pending(work, mem[c])
  /\ mem'  = [mem EXCEPT ![c] = Null]
  /\ cont' = [op |-> "store", loc |-> c, val |-> acc, next |-> Idle]
  /\ acc'  = Null
  /\ UNCHANGED <<free, used, rc, gc, inCall, status, leaked>>

\* _set(&c, acc): counts the new value first, then releases the old one.
set(c) ==
  /\ Ready /\ InScope(c)
  /\ IF AtLimit(acc) THEN Abort("limit")
     ELSE /\ rc'   = Incref(rc, acc)
          /\ work' = Pending(work, mem[c])
          /\ mem'  = [mem EXCEPT ![c] = acc]
          /\ acc'  = Null
          /\ UNCHANGED <<free, used, gc, cont, inCall, status, leaked>>

\* The two ways set_tabvalue(t, k, v) stores v # nil.  A key that t does not
\* hold: the value is stored and counted.
StoreNew(t, k, v) ==
  /\ mem[<<t, k>>] = Null
  /\ IF AtLimit(v) THEN Abort("limit")
     ELSE /\ mem' = [mem EXCEPT ![<<t, k>>] = v]
          /\ rc'  = Incref(rc, v)
          /\ acc' = Null
          /\ UNCHANGED <<free, used, gc, work, cont, inCall, status, leaked>>

\* A key that t holds: the old value is released, and only then is the new one
\* stored and counted (StoreStep), after which the function continues with next.
Overwrite(t, k, v, next) ==
  /\ mem[<<t, k>>] # Null
  /\ work' = Pending(work, mem[<<t, k>>])
  /\ mem'  = [mem EXCEPT ![<<t, k>>] = Null]
  /\ cont' = [op |-> "store", loc |-> <<t, k>>, val |-> v, next |-> next]
  /\ acc'  = Null
  /\ UNCHANGED <<free, used, rc, gc, inCall, status, leaked>>

\* set_tabvalue(c, k, acc).  Assigning nil returns without any effect.
set_tabvalue(c, k) ==
  /\ Ready /\ InScope(c) /\ mem[c] \in Tables
  /\ \/ acc = Null /\ UNCHANGED vars
     \/ acc # Null /\ StoreNew(mem[c], k, acc)
     \/ acc # Null /\ Overwrite(mem[c], k, acc, Idle)

\* add(c, acc): stores at the first missing index, its result is the value.
\* (The arrays of the model end at NumKeys, a bound.)
add(c) ==
  /\ Ready /\ InScope(c) /\ mem[c] \in Tables /\ acc # Null
  /\ \E k \in Keys :
       /\ \A j \in 1 .. k - 1 : mem[<<mem[c], j>>] # Null
       /\ StoreNew(mem[c], k, acc)

\* setmetatable(c, acc): the link is overwritten and the new metatable counted;
\* the metatable the link held before is not released.
setmetatable(c) ==
  /\ Ready /\ InScope(c) /\ mem[c] \in Tables /\ acc \in Tables
  /\ LET link == <<mem[c], Meta>>
         old  == mem[link] IN
     IF AtLimit(acc) THEN Abort("limit")
     ELSE /\ mem'    = [mem EXCEPT ![link] = acc]
          /\ rc'     = Incref(rc, acc)
          /\ leaked' = Incref(leaked, old)
          /\ acc'    = Null
          /\ UNCHANGED <<free, used, gc, work, cont, inCall, status>>

\* CALL: the locals of the function start out as T_NULL; its prologue copies the
\* arguments with _set, which is set(c) on a local.
Call ==
  /\ Ready /\ acc = Null /\ ~inCall
  /\ inCall' = TRUE
  /\ UNCHANGED <<free, used, rc, mem, gc, work, cont, acc, status, leaked>>

\* "return c": _mark_for_gc(c) counts the value once more and leaves that
\* reference to the next run_gc; then the locals go out of scope.
Return(c) ==
  /\ Ready /\ acc = Null /\ inCall
  /\ GcRoom
  /\ IF AtLimit(mem[c]) THEN Abort("limit")
     ELSE /\ rc'   = Incref(rc, mem[c])
          /\ gc'   = add_to_gc(gc, mem[c])
          /\ acc'  = mem[c]
          /\ cont' = [op |-> "leave"]
          /\ UNCHANGED <<free, used, mem, work, inCall, status, leaked>>

\* "return c[k]": the compiler marks a variable only.
ReturnField(c, k) ==
  /\ Ready /\ acc = Null /\ inCall /\ mem[c] \in Tables
  /\ acc'  = mem[<<mem[c], k>>]
  /\ cont' = [op |-> "leave"]
  /\ UNCHANGED <<free, used, rc, mem, gc, work, inCall, status, leaked>>

\* A function that returns nil, or without a return statement.
ReturnNil ==
  /\ Ready /\ acc = Null /\ inCall
  /\ cont' = [op |-> "leave"]
  /\ UNCHANGED <<free, used, rc, mem, gc, work, acc, inCall, status, leaked>>

\* del(c, acc), as an expression (keep) or as a statement.  The loop is DelScan.
del(c, keep) ==
  /\ Ready /\ InScope(c) /\ mem[c] \in Tables /\ acc # Null
  /\ GcRoom
  /\ cont' = [op |-> "del", tab |-> mem[c], want |-> 1, last |-> 0,
              item |-> acc, found |-> Null, keep |-> keep]
  /\ acc' = Null
  /\ UNCHANGED <<free, used, rc, mem, gc, work, inCall, status, leaked>>

\* run_gc(), called by the host between two frames or by the program.
run_gc ==
  /\ Ready /\ acc = Null
  /\ cont' = [op |-> "gc", at |-> 1]
  /\ UNCHANGED <<free, used, rc, mem, gc, work, acc, inCall, status, leaked>>

(***************************************************************************)
(* Steps inside the runtime                                                *)
(***************************************************************************)

\* Mutant: the sweep starts when one reference is left.
DecStep_OffByOne ==
  /\ status = "run" /\ work # <<>> /\ Top.op # "sweep"
  /\ rc'   = [rc EXCEPT ![Top.tab] = Dec8(@)]
  /\ work' = IF rc[Top.tab] <= 2
             THEN Append(Rest, [op |-> "sweep", tab |-> Top.tab]) ELSE Rest
  /\ UNCHANGED <<free, used, mem, gc, cont, acc, inCall, status, leaked>>

\* Mutant: a table whose last reference goes away is not freed.
DecStep_NoSweep ==
  /\ status = "run" /\ work # <<>> /\ Top.op # "sweep"
  /\ rc'   = [rc EXCEPT ![Top.tab] = Dec8(@)]
  /\ work' = Rest
  /\ UNCHANGED <<free, used, mem, gc, cont, acc, inCall, status, leaked>>

\* _decref(v) asserts that the table is referenced ("dec"); run_gc calls
\* _tab_decref directly ("gcdec").  The last reference starts the sweep.
DecStep ==
  /\ status = "run" /\ work # <<>> /\ Top.op # "sweep"
  /\ LET t == Top.tab
         n == Dec8(rc[t]) IN
     IF Top.op = "dec" /\ rc[t] = 0 THEN Abort("dead")
     ELSE /\ rc'   = [rc EXCEPT ![t] = n]
          /\ work' = IF n = 0 THEN Append(Rest, [op |-> "sweep", tab |-> t]) ELSE Rest
          /\ UNCHANGED <<free, used, mem, gc, cont, acc, inCall, status, leaked>>

\* _tab_decref at zero: the values in the fields are released one by one, in
\* the order in which the table stores them: any order, here.
SweepField ==
  /\ status = "run" /\ work # <<>> /\ Top.op = "sweep"
  /\ \E k \in Keys :
       /\ mem[<<Top.tab, k>>] # Null
       /\ work' = Pending(work, mem[<<Top.tab, k>>])
       /\ mem'  = [mem EXCEPT ![<<Top.tab, k>>] = Null]
  /\ UNCHANGED <<free, used, rc, gc, cont, acc, inCall, status, leaked>>

\* Mutant: _tables.used is not decremented.
SweepFree_KeepsUsed ==
  /\ status = "run" /\ work # <<>> /\ Top.op = "sweep"
  /\ \A k \in Keys : mem[<<Top.tab, k>>] = Null
  /\ free' = free \cup {Top.tab}
  /\ work' = Pending(Rest, mem[<<Top.tab, Meta>>])
  /\ mem'  = [mem EXCEPT ![<<Top.tab, Meta>>] = Null]
  /\ UNCHANGED <<used, rc, gc, cont, acc, inCall, status, leaked>>

\* Mutant: the fields are not cleared before the slot is freed.
SweepFree_KeepsFields ==
  /\ status = "run" /\ work # <<>> /\ Top.op = "sweep"
  /\ free' = free \cup {Top.tab}
  /\ used' = used - 1
  /\ work' = Rest
  /\ UNCHANGED <<mem, rc, gc, cont, acc, inCall, status, leaked>>

\* ... then the slot is freed, and the metatable released.
SweepFree ==
  /\ status = "run" /\ work # <<>> /\ Top.op = "sweep"
  /\ \A k \in Keys : mem[<<Top.tab, k>>] = Null
  /\ free' = free \cup {Top.tab}
  /\ used' = used - 1
  /\ work' = Pending(Rest, mem[<<Top.tab, Meta>>])
  /\ mem'  = [mem EXCEPT ![<<Top.tab, Meta>>] = Null]
  /\ UNCHANGED <<rc, gc, cont, acc, inCall, status, leaked>>

\* What follows the recursion in the function that started it.
Resumes(op) == status = "run" /\ work = <<>> /\ cont.op = op

\* set_tabvalue after _decref of the old value
StoreStep ==
  /\ Resumes("store")
  /\ IF AtLimit(cont.val) THEN Abort("limit")
     ELSE /\ mem'  = [mem EXCEPT ![cont.loc] = cont.val]
          /\ rc'   = Incref(rc, cont.val)
          /\ cont' = cont.next
          /\ UNCHANGED <<free, used, gc, work, acc, inCall, status, leaked>>

\* Mutant: the branch for a match continues without advancing.
DelScan_NoAdvance ==
  /\ Resumes("del")
  /\ cont.want \in Keys /\ mem[<<cont.tab, cont.want>>] # Null
  /\ cont' = [cont EXCEPT !.found = mem[<<cont.tab, cont.want>>]]
  /\ UNCHANGED <<free, used, rc, mem, gc, work, acc, inCall, status, leaked>>

\* One iteration of the loop of del on an index that exists: on the first one
\* the value is compared with item; on the others it is moved one index down.
DelScan ==
  /\ Resumes("del")
  /\ cont.want \in Keys /\ mem[<<cont.tab, cont.want>>] # Null
  /\ LET val  == mem[<<cont.tab, cont.want>>]
         next == [cont EXCEPT !.last = cont.want, !.want = @ + 1] IN
     \/ /\ cont.last = 0
        /\ cont' = [next EXCEPT !.found = IF val = cont.item THEN val ELSE Null]
        /\ UNCHANGED <<free, used, rc, mem, gc, work, acc, inCall, status, leaked>>
     \/ /\ cont.last # 0
        /\ Overwrite(cont.tab, cont.last, val, next)

\* The end of the loop: del_tabvalue of the last index leaves the reference of
\* that field to the next run_gc.
DelLast ==
  /\ Resumes("del")
  /\ cont.want \in Keys => mem[<<cont.tab, cont.want>>] = Null
  /\ IF cont.last = 0 THEN UNCHANGED <<mem, gc>>
     ELSE LET ret == mem[<<cont.tab, cont.last>>] IN
          /\ mem' = [mem EXCEPT ![<<cont.tab, cont.last>>] = Null]
          /\ gc'  = add_to_gc(gc, ret)
  /\ acc'  = IF cont.keep THEN cont.found ELSE Null
  /\ cont' = Idle
  /\ UNCHANGED <<free, used, rc, work, inCall, status, leaked>>

\* Mutant: the loop ends before the last entry of the array.
GcStep_Shorter ==
  /\ Resumes("gc")
  /\ IF cont.at \in 1 .. Len(gc) - 1 /\ gc[cont.at] # Null
     THEN /\ work' = Append(work, [op |-> "gcdec", tab |-> gc[cont.at]])
          /\ gc'   = [gc EXCEPT ![cont.at] = Null]
          /\ cont' = [cont EXCEPT !.at = @ + 1]
     ELSE /\ cont' = Idle
          /\ UNCHANGED <<work, gc>>
  /\ UNCHANGED <<free, used, rc, mem, acc, inCall, status, leaked>>

\* One entry of _gc_to_visit, which is NUL afterwards; the first one that is NUL
\* already ends the loop.
GcStep ==
  /\ Resumes("gc")
  /\ IF cont.at \in DOMAIN gc /\ gc[cont.at] # Null
     THEN /\ work' = Append(work, [op |-> "gcdec", tab |-> gc[cont.at]])
          /\ gc'   = [gc EXCEPT ![cont.at] = Null]
          /\ cont' = [cont EXCEPT !.at = @ + 1]
     ELSE /\ cont' = Idle
          /\ UNCHANGED <<work, gc>>
  /\ UNCHANGED <<free, used, rc, mem, acc, inCall, status, leaked>>

\* The cleanup attribute calls __decref on every local; the caller continues.
LeaveStep ==
  /\ Resumes("leave")
  /\ IF \E l \in Locals : mem[l] # Null
     THEN /\ \E l \in Locals :
               /\ mem[l] # Null
               /\ work' = Pending(work, mem[l])
               /\ mem'  = [mem EXCEPT ![l] = Null]
          /\ UNCHANGED <<cont, inCall>>
     ELSE /\ cont' = Idle /\ inCall' = FALSE
          /\ UNCHANGED <<work, mem>>
  /\ UNCHANGED <<free, used, rc, gc, acc, status, leaked>>

(***************************************************************************)
(* Specifications                                                          *)
(***************************************************************************)
Init ==
  /\ free = Tables /\ used = 0
  /\ rc = [t \in Tables |-> 0]
  /\ mem = [l \in Locs |-> Null]
  /\ gc = <<>> /\ work = <<>> /\ cont = Idle /\ acc = Null
  /\ inCall = FALSE /\ status = "run"
  /\ leaked = [t \in Tables |-> 0]

\* The rest of the operation that is being executed.
Step ==
  \/ DecStep \/ SweepField \/ SweepFree
  \/ StoreStep \/ DelScan \/ DelLast \/ GcStep \/ LeaveStep

\* A failed assertion ends the program.
Stopped == status # "run" /\ UNCHANGED vars

\* What every program may do next.
Operation ==
  \/ make_table \/ Literal \/ Discard \/ getmetatable
  \/ \E c \in Vars : Read(c) \/ set(c) \/ add(c) \/ setmetatable(c) \/ Return(c)
  \/ \E k \in Keys : get_tabvalue(k)
  \/ Call \/ ReturnNil \/ run_gc
  \/ \E c \in Vars : del(c, FALSE)

\* set_tabvalue, del and "return c[k]" are used with care when the value that
\* replaces an old one, the value that del returns, and the value the function
\* returns, are kept alive by a variable or by _gc_to_visit.
CarefulSet(c, k) == Rooted(acc) /\ set_tabvalue(c, k)
CarefulDel(c)    ==
  /\ mem[c] \in Tables => \A k \in Keys : Rooted(mem[<<mem[c], k>>])
  /\ del(c, TRUE)

\* The value that is returned outlives the function.
Outlives(v) ==
  v \in Tables => \/ \E x \in Vars \ Locals : mem[x] = v
                  \/ \E i \in DOMAIN gc : gc[i] = v
CarefulReturn(c, k) ==
  /\ mem[c] \in Tables => Outlives(mem[<<mem[c], k>>])
  /\ ReturnField(c, k)

CarefulNext ==
  \/ Operation \/ Step \/ Stopped
  \/ \E c \in Vars : \/ CarefulDel(c)
                     \/ \E k \in Keys : CarefulSet(c, k) \/ CarefulReturn(c, k)

\* Any set_tabvalue, any del that returns its value, or any return.
AnySetNext ==
  \/ Operation \/ Step \/ Stopped
  \/ \E c \in Vars : \/ CarefulDel(c)
                     \/ \E k \in Keys : set_tabvalue(c, k) \/ CarefulReturn(c, k)

CarefulSpec == Init /\ [][CarefulNext]_vars
AnySetSpec  == Init /\ [][AnySetNext]_vars

\* The runtime is sequential C code: an operation that started is executed.
FairSpec    == CarefulSpec /\ WF_vars(Step)

(***************************************************************************)
(* Properties                                                              *)
(***************************************************************************)
WorkItems == [op : {"dec", "gcdec", "sweep"}, tab : Tables]

DelConts ==
  [op : {"del"}, tab : Tables, want : Nat \ {0}, last : Keys \cup {0}, item : Values,
   found : Values, keep : BOOLEAN]

Conts ==
  {Idle} \cup DelConts
    \cup [op : {"leave"}] \cup [op : {"gc"}, at : Nat \ {0}]
    \cup [op : {"store"}, loc : Tables \X Keys, val : Values,
          next : {Idle} \cup DelConts]

\* Types: every variable holds a value of its C type.
TypeOK ==
  /\ free \subseteq Tables /\ used \in Int
  /\ rc \in [Tables -> 0 .. RcMod - 1]
  /\ mem \in [Locs -> Values]
  /\ \A t \in Tables : mem[<<t, Meta>>] # Num
  /\ gc \in Seq(Tables \cup {Null})
  /\ work \in Seq(WorkItems)
  /\ cont \in Conts /\ acc \in Values
  /\ inCall \in BOOLEAN
  /\ status \in {"run", "limit", "dead", "noslot"}
  /\ leaked \in [Tables -> Nat]

\* The places that hold a reference to t: variables and fields, entries of
\* _gc_to_visit, and pending calls of _decref.
LocRefs(t)  == {l \in Locs : mem[l] = t}
GcRefs(t)   == {i \in DOMAIN gc : gc[i] = t}
WorkRefs(t) == {i \in DOMAIN work : work[i].op # "sweep" /\ work[i].tab = t}
Swept       == {work[i].tab : i \in {j \in DOMAIN work : work[j].op = "sweep"}}

\* The refcount of a table is the number of references to it, at every step of
\* every operation; a metatable link that setmetatable overwrote counts for ever.
RefcountExact ==
  \A t \in Tables :
    rc[t] = Cardinality(LocRefs(t)) + Cardinality(GcRefs(t))
              + Cardinality(WorkRefs(t)) + leaked[t]

\* Nothing the program can still use refers to a slot of the arena that is free:
\* no variable, no field, no deferred decrement, no intermediate value, and not
\* the value that set_tabvalue is about to store.
NoDangling ==
  /\ \A l \in Locs : mem[l] \notin free
  /\ \A i \in DOMAIN gc : gc[i] \notin free
  /\ acc \notin free
  /\ cont.op = "store" => cont.val \notin free

\* A free slot has no references left, and refers to nothing: make_table can hand
\* it out, with its old backing array, as an empty table.
FreeIsBlank ==
  \A t \in free : rc[t] = 0 /\ \A k \in Keys \cup {Meta} : mem[<<t, k>>] = Null

\* _tables.used, which decides whether make_table grows the arena, is the number
\* of slots whose bit is clear: neither a double free nor a lost one.
UsedExact == used = NumTables - Cardinality(free)

\* The entries of _gc_to_visit are densely packed (lua.c:707): none stands behind a
\* NUL entry, except while run_gc is emptying the array from its start.
GcDense ==
  \A i \in Nuls(gc) :
    \/ cont.op = "gc" /\ i < cont.at
    \/ \A j \in DOMAIN gc : i < j => gc[j] = Null

\* run_gc leaves no entry behind, although it stops at the first one that is NUL:
\* every deferred release is executed by the next run_gc (lua.c:703-719).
GcLeavesNothing ==
  [][cont.op = "gc" /\ cont' = Idle => \A i \in DOMAIN gc' : gc'[i] = Null]_vars

\* No table is lost: one that is not free is referenced, or is being swept.
NoLostTable == \A t \in Tables \ free : rc[t] > 0 \/ t \in Swept

\* When no operation is in progress, every table that is not free has a reference
\* that is stored somewhere, in a variable, in a field of a table that is not free
\* or in _gc_to_visit, or one that setmetatable overwrote: all garbage but cycles
\* has been given back (lua.c:737-759).
Owned(t) ==
  \/ \E x \in Vars : mem[x] = t
  \/ \E u \in Tables \ free, k \in Keys \cup {Meta} : mem[<<u, k>>] = t
  \/ \E i \in DOMAIN gc : gc[i] = t
  \/ leaked[t] > 0
OwnedWhenQuiet == Quiet => \A t \in Tables \ free : Owned(t)

\* The assertions of _decref and make_table hold; only the limit on refcounts
\* can abort the program.
OnlyLimitAborts == status \in {"run", "limit"}

\* Releasing a reference never changes a table that something still refers to:
\* the recursion of _tab_decref takes apart garbage only.
SweepTouchesOnlyGarbage ==
  [][work # <<>> =>
       \A t \in Tables, k \in Keys \cup {Meta} :
         mem'[<<t, k>>] # mem[<<t, k>>] => LocRefs(t) \cup GcRefs(t) = {}]_vars

\* Every operation ends: the recursion of _tab_decref, on any graph of tables,
\* and the loops of del, run_gc and of the cleanup of locals terminate.
Settles == ~Quiet ~> (Quiet \/ status # "run")

\* A table without references is reclaimed.
ZeroIsReclaimed ==
  \A t \in Tables : (rc[t] = 0 /\ t \notin free) ~> (t \in free \/ status # "run")

(***************************************************************************)
(* The tables of the program, without the memory management: what a place  *)
(* holds when the operation that is being executed is done.                *)
(***************************************************************************)

\* What is left of del, while an element is moved too
DelLeft ==
  IF cont.op = "store" THEN cont.next ELSE cont

\* The elements of the table that del has still to move, or to remove
Moving ==
  IF DelLeft.op # "del" THEN {}
  ELSE LET first == IF DelLeft.last = 0 THEN 1 ELSE DelLeft.last IN
       {DelLeft.tab} \X {k \in first .. NumKeys :
                           \A j \in first .. k : mem[<<DelLeft.tab, j>>] # Null}

Shown ==
  LET moving == Moving IN
  [l \in Locs |->
     IF l \in Vars
     THEN IF cont.op = "leave" /\ l \in Locals THEN Null ELSE mem[l]
     ELSE IF rc[l[1]] = 0 THEN Null
     ELSE IF cont.op = "store" /\ l = cont.loc THEN cont.val
     ELSE IF l \notin moving THEN mem[l]
     ELSE IF l[2] < NumKeys THEN mem[<<l[1], l[2] + 1>>] ELSE Null]

\* The value that is left by the operation
Result ==
  IF DelLeft.op # "del" THEN acc
  ELSE IF ~DelLeft.keep THEN Null
  ELSE IF DelLeft.last # 0 THEN DelLeft.found
  ELSE IF 1 \in Keys /\ mem[<<DelLeft.tab, 1>>] = DelLeft.item THEN DelLeft.item
  ELSE Null

Tabs == INSTANCE Objects WITH
  Objs <- Tables, alive <- {t \in Tables : rc[t] > 0}, val <- Shown, acc <- Result,
  inCall <- inCall /\ cont.op # "leave"

\* Programs see tables whose assignments, deletions and scopes are single steps and
\* whose content never changes by itself, in spite of the recursion of _tab_decref
\* in the middle of set_tabvalue, del and returns (lua.c:191-253, 737-771).
ImplementsObjects == Tabs!Spec

(***************************************************************************)
(* What comments of lua.c say, which does not hold of every program        *)
(***************************************************************************)

\* lua.c:841: incrementing first avoids "freeing a value, which immediately gets
\* _incref'd".  set_tabvalue decrements first: the value it is about to store
\* must not have been freed.
StoredValueAlive == cont.op = "store" => cont.val \notin free
=============================================================================
