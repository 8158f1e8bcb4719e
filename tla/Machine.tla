------------------------------- MODULE Machine -------------------------------
(***************************************************************************)
(* The C programs that the compiler emits, executed on the runtime.  A     *)
(* program is a set of functions over the statements below.  Its text is   *)
(* data: Programs holds programs of the repository.                        *)
(*                                                                         *)
(* One step calls the runtime, executes a statement, enters or leaves a    *)
(* function, or ends a block, where the cleanup attribute releases the     *)
(* variables that the block declared.                                      *)
(***************************************************************************)
EXTENDS Runtime

CONSTANT Corpus  \* the programs, by name or number

VARIABLES
  prog,     \* the program that is running
  heap,     \* the heap of Runtime
  globals,  \* the global variables
  stack     \* frames of the C stack, the running function first
vars == <<prog, heap, globals, stack>>

(***************************************************************************)
(* Expressions <<operator, arguments, ...>>.  The first four are simple.   *)
(***************************************************************************)
Lit(v)    == <<"lit", <<>>, v>>
Var(x)    == <<"var", <<>>, x>>
Str(s)    == <<"str", <<>>, s>>         \* the global __str_s
Arg(i)    == <<"arg", <<>>, i>>         \* __get_array_index_capped(function_arguments, i - 1)
Num(n)    == Lit(TNUM(n))
Sixteenths(n) == Lit(Value("NUM", n))
Nil       == Lit(T_NULL)
True      == Lit(TBOOL(TRUE))
False     == Lit(TBOOL(FALSE))
Code(f)   == Lit(Value("CODE", f))      \* the C function itself
Hole      == <<"hole", <<>>>>           \* the call that is being executed
Table(n)  == <<"table", <<>>, n>>       \* TTAB(make_table(n))
TFun(f)   == <<"fun", <<>>, f>>         \* TFUN(f)
Closure(f, e)    == <<"closure", <<e>>, f>>
Op(name, args)   == <<name, args>>
Call(f, args)    == Op("call", <<f>> \o args)
Get(t, k)        == Op("get_tabvalue", <<t, k>>)

(***************************************************************************)
(* Statements <<kind, expressions, ...>>.  A block declares variables with *)
(* the cleanup attribute.                                                  *)
(***************************************************************************)
Block(decls, stmts) == [decls |-> decls, stmts |-> stmts]
Do(e)            == <<"do", <<e>>>>
Printh(e)        == Do(Op("printh", <<e>>))
Set(x, e)        == <<"set", <<e>>, x>>
SetTab(t, k, e)  == <<"settab", <<t, k, e>>>>
Update(op, t, k, e) == SetTab(t, k, Op(op, <<Get(t, k), e>>))  \* iadd_tab and its kin
If(e, then, else)   == <<"if", <<e>>, then, else>>
While(e, body)      == <<"while", <<e>>, e, body>>
For(x, from, limit, body) == <<"for", <<from>>, x, limit, body>>
In(xs, how, t, body) == <<"in", <<t>>, how, xs, body>>          \* for xs in how(t)
Foreach(t, f)    == <<"foreach", <<t, f>>>>
Return(e)        == <<"return", <<e>>>>
ReturnVar(x)     == Return(Op("_mark_for_gc", <<Var(x)>>))
\* Steps of loops, which only the machine makes
Next_(x, e)      == <<"next", <<e>>, x>>
Items(list, xs, body) == <<"items", <<>>, list, xs, body>>
Cells(e, t, f, i) == <<"cells", <<e>>, t, f, i>>

\* A function declares its locals, then its parameters, last one first, and sets the
\* parameters from the slice of arguments.
Fun(params, locals, stmts) ==
  Block(Reverse(params \o locals), [i \in DOMAIN params |-> Set(params[i], Arg(i))] \o stmts)

(***************************************************************************)
(* Variables of the innermost block first, globals last                    *)
(***************************************************************************)
Frame(body, args) == [blocks |-> <<[vars |-> [x \in ToSet(body.decls) |-> T_NULL],
                                    gc |-> body.decls, todo |-> body.stmts]>>, args |-> args]
Holder(f, x) == First(f.blocks, LAMBDA b : x \in DOMAIN b.vars)
Read(f, x) == IF Holder(f, x) = 0 THEN globals[x] ELSE f.blocks[Holder(f, x)].vars[x]
Written(f, x, v) ==
  IF Holder(f, x) = 0 THEN f ELSE [f EXCEPT !.blocks[Holder(f, x)].vars[x] = v]
WrittenGlobal(f, x, v) ==
  IF Holder(f, x) = 0 THEN [globals EXCEPT ![x] = v] ELSE globals
Pushed(f, decls, plain, stmts) ==
  [f EXCEPT !.blocks =
     <<[vars |-> plain @@ [x \in ToSet(decls) |-> T_NULL], gc |-> decls, todo |-> stmts]>> \o @]

(***************************************************************************)
(* Evaluation: the leftmost, innermost operator whose arguments are simple *)
(* is replaced by its result.  A statement with simple expressions is      *)
(* executed.                                                               *)
(***************************************************************************)
RECURSIVE Redex(_), Plug(_, _), HoldsRef(_)
Simple(e) == e[1] \in {"lit", "var", "str", "arg"}
Inner(e)  == First(e[2], LAMBDA a : ~Simple(a))
Redex(e)  == IF Inner(e) = 0 THEN e ELSE Redex(e[2][Inner(e)])
Plug(e, x) == IF Inner(e) = 0 THEN x ELSE [e EXCEPT ![2][Inner(e)] = Plug(@, x)]
ValueOf(f, e) ==
  CASE e[1] = "lit" -> e[3]
    [] e[1] = "var" -> Read(f, e[3])
    [] e[1] = "str" -> TSTRi(First(prog.literals, LAMBDA s : s = e[3]))
    [] e[1] = "arg" -> __get_array_index_capped(f.args, e[3])
ValuesIn(f, e) == [i \in DOMAIN e[2] |-> ValueOf(f, e[2][i])]

\* The result of a call of the runtime: e is the expression, a its arguments
Apply(h, e, a) ==
  LET op == e[1]
      x == a[1]
      y == a[2]
      Pure(v) == Returns(h, v)
      OnNumbers(v) ==
        IF x.tag = "NUM" /\ a[Len(a)].tag = "NUM" THEN Pure(v) ELSE Returns(Abort(h), BAD)
      InUse(arena) == TNUM(Len(SelectSeq(arena, LAMBDA slot : slot.rc # 0)))
  IN CASE op = "table"   -> make_table(h, e[3])
       [] op = "fun"     -> make_fun(h, e[3], 0)
       [] op = "closure" -> make_fun(h, e[3], x.n)
       [] op = "get_tabvalue" -> Pure(get_tabvalue(h, x, y))
       [] op \in {"_add", "_pluseq"} -> OnNumbers(Value("NUM", x.n + y.n))
       [] op = "_sub"  -> OnNumbers(Value("NUM", x.n - y.n))
       [] op = "_mult" -> OnNumbers(Value("NUM", (x.n * y.n) \div Unit))
       [] op = "_floor_div" -> OnNumbers(TNUM(x.n \div y.n))
       [] op = "_leq"  -> OnNumbers(TBOOL(x.n <= y.n))
       [] op = "_lt"   -> OnNumbers(TBOOL(x.n < y.n))
       [] op = "_invert_sign" -> OnNumbers(Value("NUM", -x.n))
       [] op = "flr"   -> OnNumbers(TNUM(x.n \div Unit))
       [] op = "_equal" -> Pure(_equal(h, x, y))
       [] op = "_or"   -> Pure(_or(x, y))
       [] op = "_and"  -> Pure(_and(x, y))
       [] op = "_not"  -> Pure(_not(x))
       [] op = "_length"  -> Pure(_length(h, x))
       [] op = "_concat"  -> _concat(h, x, y)
       [] op = "tostring" -> tostring(h, x)
       [] op = "sub"      -> sub(h, a)
       [] op = "printh"   -> print_tvalue(h, x)
       [] op = "printh_lambda" -> printh_lambda(h, a)
       [] op = "add"      -> add(h, x, y)
       [] op = "del"      -> del(h, x, y)
       [] op = "getmetatable" -> Pure(getmetatable(h, x))
       [] op = "setmetatable" -> Returns(setmetatable(h, x, y), BAD)
       [] op = "_mark_for_gc" -> Returns(_mark_for_gc(h, x), x)
       [] op = "run_gc"       -> Returns(run_gc(h), BAD)
       [] op = "tables_used"  -> Pure(InUse(h.tabs))
       [] op = "str_used"     -> Pure(InUse(h.strs))
       [] op = "assert_eq"    ->
            Returns(IF equal(h, x, y) THEN h ELSE print_tvalue(print_tvalue(h, y).h, x).h, BAD)

\* The function and the slice of arguments of a call: __direct_call; __call, which
\* appends the environment; a metamethod of two tables
Metamethod == "_add" :> "__add" @@ "_sub" :> "__sub"
Enters(e, a) ==
  \/ e[1] = "call"
  \/ e[1] \in DOMAIN Metamethod /\ a[1].tag = "TAB" /\ a[2].tag = "TAB"
NoCallee == [fun |-> "", args |-> <<>>]
Callee(h, e, a) ==
  LET code == a[1]
      fun  == h.funs[code.n]
      meta == h.tabs[code.n].meta
      mm   == h.tabs[meta].mm
      member == mm[Metamethod[e[1]]]
  IN CASE e[1] = "call" /\ code.tag = "CODE" -> [fun |-> code.n, args |-> Tail(a)]
       [] e[1] = "call" /\ code.tag = "FUN" ->
            [fun |-> fun.fun, args |-> Tail(a) \o (IF fun.env = 0 THEN <<>> ELSE <<TTAB(fun.env)>>)]
       [] e[1] # "call" /\ meta # 0 /\ mm # NoMM /\ member.tag = "FUN" ->
            [fun |-> h.funs[member.n].fun, args |-> a]
       [] OTHER -> NoCallee

(***************************************************************************)
(* Steps                                                                   *)
(***************************************************************************)
Running == heap.ok /\ stack # <<>>
Top  == Head(stack)
Todo == Top.blocks[1].todo
S    == Head(Todo)
Busy == Running /\ Todo # <<>>
Ready(kind) == Busy /\ S[1] = kind /\ Inner(S) = 0

Values == ValuesIn(Top, S)
Result == Values[1]
Rest(f) == [f EXCEPT !.blocks[1].todo = Tail(@)]
Becomes(f, s) == [f EXCEPT !.blocks[1].todo[1] = s]
Goes(h, f) == heap' = h /\ stack' = [stack EXCEPT ![1] = f] /\ UNCHANGED prog

evaluate ==
  /\ Busy /\ Inner(S) # 0
  /\ LET e == Redex(S)
         a == ValuesIn(Top, e)
         r == Apply(heap, e, a)
     IN ~Enters(e, a) /\ Goes(r.h, Becomes(Top, Plug(S, Lit(r.v))))
  /\ UNCHANGED globals

do == Ready("do") /\ Goes(heap, Rest(Top)) /\ UNCHANGED globals

set ==
  /\ Ready("set")
  /\ Goes(_set(heap, Read(Top, S[3]), Result), Written(Rest(Top), S[3], Result))
  /\ globals' = WrittenGlobal(Top, S[3], Result)

settab ==
  /\ Ready("settab")
  /\ Goes(set_tabvalue(heap, Result, Values[2], Values[3]), Rest(Top))
  /\ UNCHANGED globals

if ==
  /\ Ready("if")
  /\ LET arm == IF __bool(Result) THEN S[3] ELSE S[4]
     IN Goes(heap, Pushed(Rest(Top), arm.decls, <<>>, arm.stmts))
  /\ UNCHANGED globals

while ==
  /\ Ready("while")
  /\ Goes(heap, IF __bool(Result)
                THEN Pushed(Becomes(Top, While(S[3], S[4])), S[4].decls, <<>>, S[4].stmts)
                ELSE Rest(Top))
  /\ UNCHANGED globals

\* The variable of a numeric loop is a plain one, in a block around the loop.
\* Mutant: the variable never changes.
Counting_Not(x, limit, body) == <<While(Op("_leq", <<Var(x), limit>>), body)>>
Counting(x, limit, body) ==
  <<While(Op("_leq", <<Var(x), limit>>),
          [body EXCEPT !.stmts = Append(@, Next_(x, Op("_add", <<Var(x), Num(1)>>)))])>>
for ==
  /\ Ready("for")
  /\ Goes(heap, Pushed(Rest(Top), <<>>, S[3] :> Result, Counting(S[3], S[4], S[5])))
  /\ UNCHANGED globals
next == Ready("next") /\ Goes(heap, Written(Rest(Top), S[3], Result)) /\ UNCHANGED globals

\* all, pairs and ipairs copy what the loop will visit.
in ==
  /\ Ready("in")
  /\ LET list == CASE S[3] = "all" -> all(heap, Result)
                   [] S[3] = "pairs" -> pairs(heap, Result)
                   [] S[3] = "ipairs" -> ipairs(heap, Result)
     IN IF Result.tag # "TAB" THEN Goes(Abort(heap), Top)
        ELSE Goes(heap, Becomes(Top, Items(list, S[4], S[5])))
  /\ UNCHANGED globals
items ==
  /\ Ready("items")
  /\ LET Item == [x \in ToSet(S[4]) |-> S[3][1][First(S[4], LAMBDA y : y = x)]]
     IN Goes(heap, IF S[3] = <<>> THEN Rest(Top)
                   ELSE Pushed(Becomes(Top, Items(Tail(S[3]), S[4], S[5])),
                               S[5].decls, Item, S[5].stmts))
  /\ UNCHANGED globals

\* foreach calls f with the value of each pair that the table has then.
foreach ==
  /\ Ready("foreach")
  /\ IF Result.tag = "TAB" THEN Goes(heap, Becomes(Top, Cells(Nil, Result, Lit(Values[2]), 1)))
     ELSE Goes(Abort(heap), Top)
  /\ UNCHANGED globals
cells ==
  /\ Ready("cells")
  /\ LET kvs == heap.tabs[S[3].n].kvs
         i == S[5]
         next_call == IF kvs[i].key.tag = "NUL" THEN Nil ELSE Call(S[4], <<Lit(kvs[i].value)>>)
     IN Goes(heap, IF i > Len(kvs) THEN Rest(Top)
                   ELSE Becomes(Top, Cells(next_call, S[3], S[4], i + 1)))
  /\ UNCHANGED globals

\* The cleanup of blocks: variables are released in the reverse order of declaration.
Released(h, blocks) ==
  FoldLeft(LAMBDA g, b : FoldLeft(LAMBDA k, x : _decref(k, b.vars[x]), g, Reverse(b.gc)), h, blocks)

end_of_block ==
  /\ Running /\ Todo = <<>> /\ Len(Top.blocks) > 1
  /\ Goes(Released(heap, <<Top.blocks[1]>>), [Top EXCEPT !.blocks = Tail(@)])
  /\ UNCHANGED globals

\* A call: the statement keeps a hole for the result.
call ==
  /\ Busy /\ Inner(S) # 0
  /\ LET e == Redex(S)
         a == ValuesIn(Top, e)
         callee == Callee(heap, e, a)
         waiting == Becomes(Top, Plug(S, Hole))
     IN /\ Enters(e, a)
        /\ heap' = IF callee = NoCallee THEN Abort(heap) ELSE heap
        /\ stack' = IF callee = NoCallee THEN stack
                    ELSE <<Frame(prog.funs[callee.fun], callee.args), waiting>> \o Tail(stack)
  /\ UNCHANGED <<prog, globals>>

\* The result goes to the hole of the caller.
LeavesWith(v) ==
  /\ heap' = Released(heap, Top.blocks)
  /\ stack' = IF Len(stack) = 1 THEN <<>>
              ELSE [Tail(stack) EXCEPT ![1].blocks[1].todo[1] = Plug(@, Lit(v))]
  /\ UNCHANGED <<prog, globals>>
return == Ready("return") /\ LeavesWith(Result)
\* A function that ends without return gives its caller an undefined value.
end_of_function == Running /\ Todo = <<>> /\ Len(Top.blocks) = 1 /\ LeavesWith(BAD)

(***************************************************************************)
(* run_gc may be called between two calls of the program while no frame    *)
(* holds a table or a string as a result in the middle of an expression,   *)
(* and no loop walks through a copy of values.                             *)
(***************************************************************************)
HoldsRef(e) ==
  \/ e[1] = "lit" /\ e[3].tag \in {"TAB", "STR"}
  \/ e[1] \in {"arg", "cells", "items"}
  \/ \E i \in DOMAIN e[2] : HoldsRef(e[2][i])
collect ==
  /\ Running /\ prog.collects /\ heap.gc # <<>>
  /\ \A i \in DOMAIN stack :
       \A j \in DOMAIN stack[i].blocks :
         LET todo == stack[i].blocks[j].todo IN ~(todo # <<>> /\ HoldsRef(Head(todo)))
  /\ heap' = run_gc(heap)
  /\ UNCHANGED <<prog, globals, stack>>

Stopped == ~Running /\ UNCHANGED vars

\* The host runs __preinit, the program, and the collector.
Host == Block(<<>>, <<Do(Call(Code("__preinit"), <<>>)), Do(Call(Code("__main"), <<>>)),
                      Do(Op("run_gc", <<>>))>>)
\* One pair for each program, so that the corpus is built once
NamedPrograms == LET programs == Corpus IN {<<name, programs[name]>> : name \in DOMAIN programs}
Init ==
  /\ \E named \in NamedPrograms : prog = named[2]
  /\ heap = HeapWith(prog.literals, prog.grows)
  /\ globals = [x \in prog.globals |-> T_NULL]
  /\ stack = <<Frame(Host, <<>>)>>
Step ==
  \/ evaluate \/ do \/ set \/ settab \/ if \/ while \/ for \/ next \/ in \/ items \/ foreach
  \/ cells \/ end_of_block \/ call \/ return \/ end_of_function
Next == Step \/ collect \/ Stopped

\* A step is enabled exactly while a program is running, and changes the stack: this
\* is the weak fairness of Step, without ENABLED.  collect is never obliged to happen.
Fairness == []<><<stack' # stack>>_vars \/ []<>(~Running)
Spec == Init /\ [][Next]_vars /\ Fairness

(***************************************************************************)
(* Properties                                                              *)
(***************************************************************************)

\* The program prints the lines that the Lua source would, in their order: at no step
\* one that differs, at the end all of them.  No assertion of the runtime fails, whenever
\* run_gc is called between two statements.
OutputIsExpected ==
  /\ heap.ok
  /\ IsPrefix(heap.out, prog.output)
  /\ stack = <<>> => heap.out = prog.output

\* What refers to a table or a string with a count: the literals of __preinit, the global
\* variables, the variables with a cleanup attribute in every frame, the values in the
\* cells and the metatables of the tables that are not free, and _gc_to_visit.
Live == {t \in DOMAIN heap.tabs : ~heap.tabs[t].free}
Owners(v) ==
  LET InTable(t) == Quantify(DOMAIN heap.tabs[t].kvs, LAMBDA i : heap.tabs[t].kvs[i].value = v)
                    + (IF v = TTAB(heap.tabs[t].meta) THEN 1 ELSE 0)
      InBlock(b) == Quantify(DOMAIN b.gc, LAMBDA i : b.vars[b.gc[i]] = v)
      InFrame(f) == FoldLeft(LAMBDA n, b : n + InBlock(b), 0, f.blocks)
  IN (IF v.tag = "STR" /\ v.n <= Len(prog.literals) THEN 2 ELSE 0)
     + Quantify(DOMAIN globals, LAMBDA x : globals[x] = v)
     + FoldLeft(LAMBDA n, f : n + InFrame(f), 0, stack)
     + FoldSet(LAMBDA t, n : n + InTable(t), 0, Live)
     + Len(SelectSeq(heap.gc, LAMBDA x : x = v))

\* The reference counts of tables and strings are exactly their references, in every
\* state of a running program: through calls, returned values, loops, closures,
\* metatables and collections.
CountsExact ==
  heap.ok =>
    /\ \A t \in DOMAIN heap.tabs : heap.tabs[t].rc = Owners(TTAB(t))
    /\ \A s \in DOMAIN heap.strs : heap.strs[s].rc = Owners(TSTRi(s))

\* When the program has ended and the host has called run_gc, the tables in use are
\* those that the global variables reach, and the strings in use the literals and what
\* these tables and variables hold: nothing that was made on the way is left.
TablesIn(vs) == {v.n : v \in {w \in vs : w.tag = "TAB"}}
ValuesOf(t) == {heap.tabs[t].kvs[i].value : i \in DOMAIN heap.tabs[t].kvs}
RECURSIVE ReachedFrom(_)
ReachedFrom(ts) ==
  LET more == ts \cup UNION {TablesIn(ValuesOf(t)) \cup ({heap.tabs[t].meta} \ {0}) : t \in ts}
  IN IF more = ts THEN ts ELSE ReachedFrom(more)
Kept == {globals[x] : x \in DOMAIN globals}
Reclaimed ==
  heap.ok /\ stack = <<>> =>
    LET reached == ReachedFrom(TablesIn(Kept))
        held == {v \in Kept \cup UNION {ValuesOf(t) : t \in reached} : v.tag = "STR"}
    IN /\ Live = reached
       /\ heap.used = Cardinality(reached)
       /\ {s \in DOMAIN heap.strs : heap.strs[s].rc > 0}
          = DOMAIN prog.literals \cup {v.n : v \in held}

\* Every program comes to its end.
Terminates == <>(stack = <<>>)
=============================================================================
