------------------------------- MODULE Runtime -------------------------------
(***************************************************************************)
(* The whole runtime as functions on one heap: values, tables with their   *)
(* references and metamethods, strings, functions and the PICO-8 library,  *)
(* as a running program uses them together.  RefHeap, TableStore, StrArena *)
(* and Closures look into each part, step by step.  A function that        *)
(* changes the heap takes it as first argument; one that also returns a    *)
(* value gives both, as a record [h, v].                                   *)
(***************************************************************************)
EXTENDS Integers, SequencesExt

CONSTANTS
  FirstTables,  \* tables in the arena when it is first filled (128)
  FirstStrs,    \* strings in the arena when it has none (16)
  FirstFuns,    \* functions in their arena when it is first filled (32)
  RcLimit       \* _incref asserts that a refcount stays below it (250)

ASSUME RuntimeAssumption == {FirstTables, FirstStrs, FirstFuns, RcLimit} \subseteq Nat \ {0}

(***************************************************************************)
(* Values: a tag, and a number (in units of 1/16, the precision that the   *)
(* programs need) or an index from 1.  BAD is what C leaves undefined.     *)
(***************************************************************************)
Value(tag, n) == [tag |-> tag, n |-> n]
Unit     == 16
TNUM(n)  == Value("NUM", n * Unit)
TBOOL(b) == Value("BOOL", IF b THEN 1 ELSE 0)
TSTRi(i) == Value("STR", i)
TTAB(i)  == Value("TAB", i)
FUNi(i)  == Value("FUN", i)
T_NULL   == Value("NUL", 0)
BAD      == Value("BAD", 0)

Returns(h, v) == [h |-> h, v |-> v]
\* A failed assertion, or a step that C does not define, ends the program.
Abort(h) == [h EXCEPT !.ok = FALSE]
Assert_(c, h, then) == IF c THEN then ELSE Abort(h)
First(s, Test(_)) == IF \E i \in DOMAIN s : Test(s[i]) THEN SelectInSeq(s, Test) ELSE 0

\* Mutant: nil counts as true.
__bool_Nil(a) == ~(a.tag = "BOOL" /\ a.n = 0)
__bool(a) == a.tag # "NUL" /\ ~(a.tag = "BOOL" /\ a.n = 0)
_or(a, b)  == IF __bool(a) THEN a ELSE b
_and(a, b) == IF __bool(a) THEN b ELSE a
_not(a)    == TBOOL(~__bool(a))

\* Booleans and functions are equal to nothing.
equal(h, a, b) ==
  /\ a.tag = b.tag
  /\ CASE a.tag = "NUL" -> TRUE
       [] a.tag \in {"NUM", "TAB"} -> a.n = b.n
       [] a.tag = "STR" -> h.strs[a.n].text = h.strs[b.n].text
       [] OTHER -> FALSE
_equal(h, a, b) == TBOOL(equal(h, a, b))

Text(n) ==
  LET digits == SubSeq(ToString(10000 + (n % Unit) * (10000 \div Unit)), 2, 5)
      last == CHOOSE k \in 1 .. 4 :
                /\ SubSeq(digits, k, k) # "0"
                /\ \A j \in k + 1 .. 4 : SubSeq(digits, j, j) = "0"
      fraction == IF n % Unit = 0 THEN "" ELSE "." \o SubSeq(digits, 1, last)
  IN ToString(n \div Unit) \o fraction
print_fix32(n) == IF n < 0 THEN "-" \o Text(-n) ELSE Text(n)

(***************************************************************************)
(* The heap                                                                *)
(***************************************************************************)
Blank(n) == [i \in 1 .. n |-> [key |-> T_NULL, value |-> T_NULL]]
NoMM == [none |-> TRUE]
\* malloc leaves the members of a record of metamethods undefined.
MallocMM == [__index |-> BAD, __add |-> BAD, __sub |-> BAD]
FreeTable == [kvs |-> <<>>, count |-> 0, meta |-> 0, mm |-> NoMM, rc |-> 0, free |-> TRUE]
EmptyStr  == [text |-> "", rc |-> 0]
NoFun     == [fun |-> "", env |-> 0]
\* What __preinit makes of the literals: an arena of exactly their size, each with
\* the reference of CONSTSTR and the one of its variable.
HeapWith(literals, grows) ==
  [tabs |-> <<>>, used |-> 0, funs |-> <<>>, gc |-> <<>>, out |-> <<>>, ok |-> TRUE,
   grows |-> grows, strs |-> [i \in DOMAIN literals |-> [text |-> literals[i], rc |-> 2]]]

_incref(h, v) ==
  CASE v.tag = "TAB" -> Assert_(h.tabs[v.n].rc < RcLimit, h, [h EXCEPT !.tabs[v.n].rc = @ + 1])
    [] v.tag = "STR" -> Assert_(h.strs[v.n].rc < RcLimit, h, [h EXCEPT !.strs[v.n].rc = @ + 1])
    [] v.tag = "BAD" -> Abort(h)
    [] OTHER -> h

_str_decref(h, s) ==
  IF h.strs[s].rc = 1 THEN [h EXCEPT !.strs[s] = EmptyStr] ELSE [h EXCEPT !.strs[s].rc = @ - 1]

RECURSIVE _tab_decref(_, _)
_decref(h, v) ==
  CASE v.tag = "TAB" -> Assert_(h.tabs[v.n].rc > 0, h, _tab_decref(h, v.n))
    [] v.tag = "STR" -> Assert_(h.strs[v.n].rc > 0, h, _str_decref(h, v.n))
    [] OTHER -> h
\* The slot is free before its metatable is released.
_tab_decref(h, t) ==
  LET counted == [h EXCEPT !.tabs[t].rc = @ - 1]
      swept == FoldLeft(LAMBDA g, kv : IF kv.key.tag = "NUL" THEN g ELSE _decref(g, kv.value),
                        counted, h.tabs[t].kvs)
      freed == [swept EXCEPT
                 !.tabs[t] = [@ EXCEPT !.kvs = Blank(Len(@)), !.count = 0, !.free = TRUE,
                              !.mm = IF @ = NoMM THEN @ ELSE [m \in DOMAIN @ |-> T_NULL]],
                 !.used = @ - 1]
      meta == h.tabs[t].meta
  IN IF counted.tabs[t].rc # 0 THEN counted
     ELSE IF meta = 0 THEN freed
     ELSE Assert_(freed.tabs[meta].rc > 0, freed, _tab_decref(freed, meta))

add_to_gc(h, v) == [h EXCEPT !.gc = Append(@, v)]
\* Mutant: the entries are dropped without releasing what they refer to.
run_gc_Drop(h) == [h EXCEPT !.gc = <<>>]
run_gc(h) ==
  [FoldLeft(LAMBDA g, v : IF v.tag = "TAB" THEN _tab_decref(g, v.n) ELSE _str_decref(g, v.n),
            h, h.gc) EXCEPT !.gc = <<>>]
_mark_for_gc(h, v) ==
  IF v.tag \in {"TAB", "STR"} THEN add_to_gc(_incref(h, v), v) ELSE h

\* Mutant: the old value keeps its reference.
_set_KeepOld(h, old, new) == _incref(h, new)
\* _set: the heap after a variable changed from old to new
_set(h, old, new) == _decref(_incref(h, new), old)

(***************************************************************************)
(* Tables                                                                  *)
(***************************************************************************)
make_table(h, size) ==
  LET full == Len(h.tabs) = h.used
      more == IF h.tabs = <<>> THEN FirstTables ELSE Len(h.tabs)
      tabs == IF full THEN h.tabs \o [i \in 1 .. more |-> FreeTable] ELSE h.tabs
      t == First(tabs, LAMBDA x : x.free)
      made == [FreeTable EXCEPT !.kvs = Blank(size), !.rc = 1, !.free = FALSE]
  IN Returns(add_to_gc([h EXCEPT !.tabs = [tabs EXCEPT ![t] = made], !.used = @ + 1], TTAB(t)),
             TTAB(t))

Metamethods == {"__index", "__add", "__sub"}
NamesMetamethod(h, k) ==
  k.tag = "STR" /\ Len(h.strs[k.n].text) >= 5 /\ SubSeq(h.strs[k.n].text, 1, 2) = "__"

set_tabvalue(h, t, k, v) ==
  LET tab == h.tabs[t.n]
      meta == NamesMetamethod(h, k)
      u == IF meta /\ tab.mm = NoMM THEN [h EXCEPT !.tabs[t.n].mm = MallocMM] ELSE h
      hit == First(tab.kvs, LAMBDA kv : equal(h, kv.key, k))
      hole == First(tab.kvs, LAMBDA kv : kv.key.tag = "NUL")
      more == IF tab.kvs = <<>> THEN 2 ELSE Len(tab.kvs)
      Put(g, i) == _incref([g EXCEPT !.tabs[t.n].kvs[i] = [key |-> k, value |-> v],
                                     !.tabs[t.n].count = @ + 1], v)
  IN IF t.tag # "TAB" THEN Abort(h)
     ELSE IF v.tag = "NUL" THEN h
     ELSE IF k.tag = "NUL" THEN Abort(h)
     ELSE IF meta /\ h.strs[k.n].text \in Metamethods
       THEN [u EXCEPT !.tabs[t.n].mm[h.strs[k.n].text] = v]
     ELSE IF hit # 0
       THEN _incref([_decref(u, tab.kvs[hit].value) EXCEPT !.tabs[t.n].kvs[hit].value = v], v)
     ELSE IF hole # 0 THEN Put(u, hole)
     ELSE Assert_(h.grows, h, Put([u EXCEPT !.tabs[t.n].kvs = @ \o Blank(more)], Len(tab.kvs) + 1))

RECURSIVE get_tabvalue(_, _, _)
get_tabvalue(h, t, k) ==
  LET tab == h.tabs[t.n]
      hit == First(tab.kvs, LAMBDA kv : equal(h, kv.key, k))
      meta == h.tabs[tab.meta].mm
  IN IF k.tag = "NUL" THEN T_NULL
     ELSE IF t.tag # "TAB" THEN BAD
     ELSE IF hit # 0 THEN tab.kvs[hit].value
     ELSE IF tab.meta = 0 THEN T_NULL
     ELSE IF meta = NoMM \/ meta.__index = t THEN T_NULL
     ELSE IF meta.__index.tag = "TAB" THEN get_tabvalue(h, meta.__index, k)
     ELSE BAD

\* The value returned is released by the next run_gc.
del_tabvalue(h, t, k) ==
  LET hit == First(h.tabs[t.n].kvs, LAMBDA kv : equal(h, kv.key, k))
      v == h.tabs[t.n].kvs[hit].value
      kept == IF v.tag \in {"TAB", "STR"} THEN add_to_gc(h, v) ELSE h
  IN IF k.tag = "NUL" \/ hit = 0 THEN h
     ELSE [kept EXCEPT !.tabs[t.n].kvs[hit] = Blank(1)[1], !.tabs[t.n].count = @ - 1]

getmetatable(h, t) ==
  IF t.tag # "TAB" \/ h.tabs[t.n].meta = 0 THEN T_NULL ELSE TTAB(h.tabs[t.n].meta)
setmetatable(h, t, meta) ==
  Assert_(t.tag = "TAB" /\ meta.tag = "TAB", h, _incref([h EXCEPT !.tabs[t.n].meta = meta.n], meta))

(***************************************************************************)
(* Strings and functions                                                   *)
(***************************************************************************)
\* A string that is stored has the reference of _gc_to_visit, one that is found has none.
_store_str(h, s) ==
  LET slot == First(h.strs, LAMBDA x : x.rc = 0)
      more == IF h.strs = <<>> THEN FirstStrs ELSE Len(h.strs)
      strs == IF slot = 0 THEN h.strs \o [i \in 1 .. more |-> EmptyStr] ELSE h.strs
      i == IF slot = 0 THEN Len(h.strs) + 2 ELSE slot
  IN IF i > Len(strs) THEN Returns(Abort(h), BAD)
     ELSE Returns(add_to_gc([h EXCEPT !.strs = [strs EXCEPT ![i] = [text |-> s, rc |-> 1]]], TSTRi(i)),
                  TSTRi(i))
make_str(h, s) ==
  LET i == First(h.strs, LAMBDA x : x.text = s) IN
  IF i # 0 THEN Returns(h, TSTRi(i)) ELSE _store_str(h, s)

tostring(h, v) ==
  CASE v.tag = "STR" -> Returns(h, v)
    [] v.tag = "NUM" -> make_str(h, print_fix32(v.n))
    [] v.tag = "TAB" -> Returns([h EXCEPT !.out = Append(@, "tab " \o ToString(v.n - 1))], T_NULL)
    [] OTHER -> Returns(Abort(h), BAD)
_concat(h, a, b) ==
  LET Chars(v) == IF v.tag = "NUM" THEN print_fix32(v.n) ELSE h.strs[v.n].text IN
  IF {a.tag, b.tag} \subseteq {"NUM", "STR"} THEN make_str(h, Chars(a) \o Chars(b))
  ELSE Returns(Abort(h), BAD)
_length(h, v) ==
  CASE v.tag = "STR" -> TNUM(Len(h.strs[v.n].text))
    [] v.tag = "TAB" -> TNUM(h.tabs[v.n].count)
    [] OTHER -> BAD

\* A function is stored once per environment; a full arena gives its first slot away.
make_fun(h, f, env) ==
  LET old == First(h.funs, LAMBDA x : x = [fun |-> f, env |-> env] \/ x = NoFun)
      more == IF h.funs = <<>> THEN FirstFuns ELSE Len(h.funs)
      funs == IF old = 0 THEN h.funs \o [i \in 1 .. more |-> NoFun] ELSE h.funs
      i == IF old = 0 THEN 1 ELSE old
  IN Returns([h EXCEPT !.funs = [funs EXCEPT ![i] = [fun |-> f, env |-> env]]], FUNi(i))

(***************************************************************************)
(* Slices of arguments, and the functions that take one                    *)
(***************************************************************************)
__get_array_index_capped(args, i) == IF i > Len(args) THEN T_NULL ELSE args[i]
\* __get_int and __opt_int drop the fraction.
HasInt(args, i) == i <= Len(args) /\ args[i].tag = "NUM"
__get_int(args, i) == args[i].n \div Unit
__opt_int(args, i, default) ==
  IF i > Len(args) THEN default ELSE IF args[i].tag = "NUL" THEN default ELSE __get_int(args, i)

sub(h, args) ==
  LET text == h.strs[args[1].n].text
      FromEnd(n) == IF n < 0 THEN Len(text) + n + 1 ELSE n
      start == FromEnd(__get_int(args, 2))
      end == FromEnd(__opt_int(args, 3, -1))
  IN IF /\ args # <<>> /\ args[1].tag = "STR" /\ HasInt(args, 2)
        /\ Len(args) < 3 \/ args[3].tag \in {"NUL", "NUM"}
        /\ end > start /\ start > 0 /\ end <= Len(text)
     THEN _store_str(h, SubSeq(text, start, end)) ELSE Returns(Abort(h), BAD)
print_tvalue(h, v) ==
  LET line == CASE v.tag = "NUM"  -> print_fix32(v.n)
                [] v.tag = "NUL"  -> "nil"
                [] v.tag = "STR"  -> h.strs[v.n].text
                [] v.tag = "BOOL" -> IF v.n = 0 THEN "false" ELSE "true"
                [] OTHER -> "idk how to print with tag"
  IN Returns([h EXCEPT !.out = Append(@, line)], v)
printh_lambda(h, args) ==
  IF Len(args) = 1 THEN print_tvalue(h, args[1]) ELSE Returns(Abort(h), BAD)

(***************************************************************************)
(* The table library                                                       *)
(***************************************************************************)
Missing(h, t, i) == get_tabvalue(h, t, TNUM(i)).tag = "NUL"
RECURSIVE SequentialFrom(_, _, _)
SequentialFrom(h, t, i) == IF Missing(h, t, i) THEN i - 1 ELSE SequentialFrom(h, t, i + 1)
_sequential_until(h, t) == SequentialFrom(h, t, 1)
add(h, t, v) ==
  IF t.tag # "TAB" THEN Returns(h, T_NULL)
  ELSE Returns(set_tabvalue(h, t, TNUM(_sequential_until(h, t) + 1), v), v)

\* The loop of del from the key i on: last is the key before i, or nil
RECURSIVE DelFrom(_, _, _, _, _, _)
DelFrom(h, t, v, i, last, found) ==
  LET val == get_tabvalue(h, t, TNUM(i)) IN
  IF val.tag = "NUL"
  THEN Returns(IF last.tag = "NUL" THEN h ELSE del_tabvalue(h, t, last), found)
  ELSE IF last.tag = "NUL" /\ equal(h, val, v) THEN DelFrom(h, t, v, i + 1, TNUM(i), val)
  ELSE DelFrom(IF last.tag = "NUL" THEN h ELSE set_tabvalue(h, t, last, val),
               t, v, i + 1, TNUM(i), found)
del(h, t, v) ==
  IF t.tag # "TAB" THEN Returns(Abort(h), BAD) ELSE DelFrom(h, t, v, 1, T_NULL, T_NULL)

\* The copies that loops walk through, as sequences of the loop's variables
Pairs(h, t)  == SelectSeq(h.tabs[t.n].kvs, LAMBDA kv : kv.key.tag # "NUL")
Filled(h, t) == SelectSeq(h.tabs[t.n].kvs, LAMBDA kv : kv.value.tag # "NUL")
all(h, t)    == [i \in DOMAIN Filled(h, t) |-> <<Filled(h, t)[i].value>>]
pairs(h, t)  == [i \in DOMAIN Pairs(h, t) |-> <<Pairs(h, t)[i].key, Pairs(h, t)[i].value>>]
ipairs(h, t) ==
  [i \in 1 .. _sequential_until(h, t) |-> <<TNUM(i), get_tabvalue(h, t, TNUM(i))>>]
=============================================================================
