------------------------------ MODULE Sources ------------------------------
(***************************************************************************)
(* Lua sources for Compiler: those of test_cases that capture variables or *)
(* use logical operators, and families of small ones; and all programs     *)
(* together, those of Programs too.                                        *)
(***************************************************************************)
EXTENDS Compiler, Programs

Function(params, body) == [params |-> params, body |-> body]
Entry(body)       == "__main" :> Function(<<>>, body)
CallTo(g, args)   == Do(Call(V(g), args))       \* a nested function
Run(f, args)      == Do(Call(Code(f), args))    \* a function at the top
Plus(a, b)        == Op("_add", <<a, b>>)
Times(a, b)       == Op("_mult", <<a, b>>)
Showing(n)        == Op("printh", <<Num(n)>>)
Increment(x)      == Set(x, Plus(V(x), Num(1)))

(***************************************************************************)
(* test_cases                                                              *)
(***************************************************************************)
lua_basic_logical == Entry(
  << Set("a", And(And(Num(4), Num(5)), Num(6))), Printh(V("a")), Set("a", And(Nil, Num(13))),
     Printh(V("a")), Set("a", And(False, Num(13))), Printh(V("a")), Set("a", Or(Num(4), Num(5))),
     Printh(V("a")), Set("a", Or(False, Num(5))), Printh(V("a")),
     Set("a", And(Num(5), Showing(1))), Set("a", And(And(Num(5), Showing(2)), Showing(3))),
     Set("a", And(And(False, Showing(4)), Showing(5))), Set("a", And(False, Showing(6))),
     Set("a", Or(True, Showing(7))),
     If(And(And(Num(4), Num(5)), Num(6)), <<Printh(Num(8))>>, <<>>) >>)

lua_closure_in == Entry(
  << Local("captured", Num(7)),
     Set("a", Lambda("f_a", <<"x">>, <<Return(Times(V("x"), V("captured")))>>)),
     Printh(Call(V("a"), <<Num(5)>>)), Set("captured", Num(1)), Printh(Call(V("a"), <<Num(5)>>)),
     Def("b", <<>>, <<Set("captured", Num(2))>>), CallTo("b", <<>>),
     Printh(Call(V("a"), <<Num(5)>>)), Return(Num(0)) >>)

lua_closure_1 == Entry(
  << For("x", Num(1), Num(2), <<For("y", Num(1), Num(2),
       << Def("whatever", <<>>, <<Printh(Times(V("x"), V("y")))>>), CallTo("whatever", <<>>) >>)>>) >>)

lua_closure_2 == Entry(
  << For("i", Num(1), Num(2),
       << Def("func", <<>>, <<Printh(V("i"))>>), CallTo("func", <<>>) >>) >>)
lua_closure_3 == Entry(
  << Printh(Str("enclosing arg overlap")),
     Def("wrapper", <<"x", "y">>,
         << Local("obj", Literal(<<>>, <<>>)),
            SetTab(V("obj"), Str("x"), Str("not wrapped")), SetTab(V("obj"), Str("a"), Str("wrapped")),
            Def("wrapped", <<>>, <<Printh(Get(V("obj"), Str("x"))), Printh(Get(V("obj"), V("y")))>>),
            CallTo("wrapped", <<>>) >>),
     CallTo("wrapper", <<Num(5), Str("a")>>) >>)

\* literals and func_in_tab, without the other global
table_decl ==
  LET corner(x, y) == Plain(<<"x", "y">>, <<Num(x), Num(y)>>)
      field(t, k) == Get(t, Str(k))
  IN Entry(
  << Set("literals", Literal(<<"top", "bottom", "left", "right">>,
                             <<corner(0, -68), corner(0, 68), corner(-68, 0), corner(68, 0)>>)),
     Printh(field(field(V("literals"), "top"), "y")), Printh(field(field(V("literals"), "right"), "x")),
     Set("func_in_tab", Plain(<<"func">>, <<Lambda("func", <<"this">>,
           << SetTab(V("this"), Str("attr"), Plain(<<"key">>, <<Str("value_attr")>>)),
              Printh(Str("func in tab")) >>)>>)),
     Do(Call(field(V("func_in_tab"), "func"), <<V("func_in_tab")>>)), Return(Num(0)) >>)

\* The next two return closures.
lua_closure_4 ==
  Entry(<<Set("c1", Call(Code("newCounter"), <<>>)), Printh(Call(V("c1"), <<>>)),
         Printh(Call(V("c1"), <<>>)), Set("c2", Call(Code("newCounter"), <<>>)),
         Printh(Call(V("c2"), <<>>)), Printh(Call(V("c1"), <<>>)), Printh(Call(V("c2"), <<>>))>>)
  @@ "newCounter" :> Function(<<>>,
       <<Local("i", Num(0)), Return(Lambda("f", <<>>, <<Increment("i"), Return(V("i"))>>))>>)

lua_closure_5 == Entry(
  << Def("f", <<"arg">>, <<Def("f2", <<>>, <<Printh(V("arg"))>>), Return(V("f2"))>>),
     Set("five", Call(V("f"), <<Num(5)>>)), Set("six", Call(V("f"), <<Num(6)>>)),
     CallTo("five", <<>>), CallTo("six", <<>>), CallTo("five", <<>>) >>)
\* Their closures outlive the calls that made them, and depend on run_gc not being
\* called meanwhile (see ClosuresEnv.cfg).
Uncollected(p) == [p EXCEPT !.collects = FALSE]
TestCases ==
  <<"basic/logical">> :> Compiled(lua_basic_logical) @@
  <<"compound/closure/in">> :> Compiled(lua_closure_in) @@
  <<"compound/closure/1">> :> Compiled(lua_closure_1) @@
  <<"compound/closure/2">> :> Compiled(lua_closure_2) @@ <<"compound/closure/3">> :> Compiled(lua_closure_3) @@
  <<"compound/table_decl">> :> Compiled(table_decl) @@
  <<"compound/closure/4">> :> Uncollected(Compiled(lua_closure_4)) @@
  <<"compound/closure/5">> :> Uncollected(Compiled(lua_closure_5))

(***************************************************************************)
(* Logical operators: chains, as an argument and as a condition.  The      *)
(* operands are values, and calls that print a number and give one.        *)
(***************************************************************************)
Deciding(body) ==
  Entry(body) @@ "yes" :> Function(<<"n">>, <<Printh(V("n")), Return(True)>>)
             @@ "no" :> Function(<<"n">>, <<Printh(V("n")), Return(False)>>)
Operand(kind, i) ==
  CASE kind = "true" -> True [] kind = "false" -> False [] kind = "nil" -> Nil
    [] OTHER -> Call(Code(kind), <<Num(i)>>)

\* a op b op c, which Lua reads as (a op b) op c
Chain(ops, kinds) ==
  FoldLeft(LAMBDA e, i : Op(ops[i], <<e, Operand(kinds[i + 1], i + 1)>>), Operand(kinds[1], 1),
           [i \in DOMAIN ops |-> i])
Chains(use, n, kinds) == {use} \X [1 .. n - 1 -> {"_and", "_or"}] \X [1 .. n -> kinds]
Printed_chains ==
  [c \in Chains("print", 2, {"true", "false", "nil", "yes", "no"})
         \cup Chains("print", 3, {"false", "yes", "no"}) \cup Chains("print", 4, {"yes", "no"}) |->
     Deciding(<<Printh(Chain(c[2], c[3]))>>)]
Tested_chains ==
  [c \in Chains("if", 3, {"false", "yes", "no"}) |->
     Deciding(<<If(Not(Chain(c[2], c[3])), <<Printh(Num(8))>>, <<Printh(Num(9))>>)>>)]

(***************************************************************************)
(* Captured variables: a function test with a variable x that its nested   *)
(* functions g and h capture.  It is called twice, and prints x at its end.*)
(***************************************************************************)
BodyOf(kind) ==
  CASE kind = "show" -> <<Printh(V("x"))>> [] kind = "bump" -> <<Increment("x")>>
    [] kind = "hide" -> <<Local("x", Num(7)), Increment("x"), Printh(V("x"))>>
Stmt(kind) == IF kind \in {"g", "h"} THEN CallTo(kind, <<>>) ELSE BodyOf(kind)[1]
Twice(params, body) ==
  Entry(<<Run("test", SubSeq(<<Num(1)>>, 1, Len(params))), Run("test", SubSeq(<<Num(3)>>, 1, Len(params)))>>)
  @@ "test" :> Function(params, Append(body, Printh(V("x"))))

Captured_local ==
  [c \in {"local"} \X {"show", "bump", "hide"} \X {"show", "bump", "hide"}
         \X {"show", "bump", "g", "h"} \X {"g", "h"} |->
     Twice(<<>>, << Local("x", Num(1)), Def("g", <<>>, BodyOf(c[2])), Def("h", <<>>, BodyOf(c[3])),
                    Stmt(c[4]), Stmt(c[5]) >>)]
Captured_argument ==
  [c \in {"argument"} \X {"show", "hide"} \X {"show", "bump", "g"} \X {"show", "bump", "g"} |->
     Twice(<<"x">>, <<Def("g", <<>>, BodyOf(c[2])), Stmt(c[3]), Stmt(c[4])>>)]
\* h is inside g, which uses x as well.
Captured_twice ==
  [c \in {"nested"} \X {"show", "bump"} \X {"show", "bump", "hide"} \X {"show", "bump", "g"} |->
     Twice(<<>>, << Local("x", Num(1)),
                    Def("g", <<>>, BodyOf(c[2]) \o <<Def("h", <<>>, BodyOf(c[3])), Stmt("h")>>),
                    Stmt("g"), Stmt(c[4]) >>)]
\* g adds the variable of a loop to x.
Captured_in_loop ==
  [c \in {"loop"} \X {"show", "bump", "g"} |->
     Twice(<<>>, << Local("x", Num(1)),
                    For("i", Num(1), Num(2),
                        << Def("g", <<>>, <<Set("x", Plus(V("x"), V("i")))>>), Stmt(c[2]), Stmt("g") >>) >>)]

(***************************************************************************)
(* Literal tables: a function make gives the global t a table with fields  *)
(* a and b; it is called twice, and the first table is kept.               *)
(***************************************************************************)
FieldIn(e, k) == Get(e, Str(k))
PutIn(e, k, v) == SetTab(e, Str(k), v)
AB == Literal(<<"a", "b">>, <<V("n"), Plus(V("n"), Num(1))>>)
Making(kind) ==
  CASE kind = "set" -> <<Set("t", AB)>>
    [] kind = "local" -> <<Local("x", AB), Set("t", V("x"))>>
    [] kind = "captured" -> <<Local("x", AB), Set("t", V("x")),
                              Def("g", <<>>, <<PutIn(V("x"), "a", FieldIn(V("x"), "b"))>>), Stmt("g")>>
    [] kind = "argument" -> <<Run("keep", <<AB>>)>>
    [] kind = "returned" -> <<Set("t", Call(Code("ab"), <<V("n")>>))>>
    [] kind = "field" -> <<Set("t", Literal(<<>>, <<>>)), PutIn(V("t"), "c", AB), Set("t", FieldIn(V("t"), "c"))>>
    [] kind = "nested" -> <<Set("t", Literal(<<"c", "d">>, <<AB, Literal(<<"a">>, <<Num(6)>>)>>)),
                            Printh(FieldIn(FieldIn(V("t"), "d"), "a")), Set("t", FieldIn(V("t"), "c"))>>
    [] kind = "branch" -> <<If(True, <<Set("t", AB)>>, <<>>)>>
Made(kind, then) ==
  Entry(<< Run("make", <<Num(1)>>), Set("kept", V("t")), Run("make", <<Num(4)>>) >> \o then
       \o << Printh(FieldIn(V("kept"), "a")), Printh(FieldIn(V("kept"), "b")),
             Printh(FieldIn(V("t"), "a")), Printh(FieldIn(V("t"), "b")), Set("kept", Nil), Set("t", Nil) >>)
  @@ "make" :> Function(<<"n">>, Making(kind))
  @@ "keep" :> Function(<<"p">>, <<Set("t", V("p"))>>)
  @@ "ab" :> Function(<<"n">>, <<Return(AB)>>)
Literal_tables ==
  [c \in {"table"} \X {"set", "local", "captured", "argument", "returned", "field", "nested", "branch"}
         \X {"read", "write"} |->
     Made(c[2], IF c[3] = "read" THEN <<>> ELSE <<PutIn(V("kept"), "a", FieldIn(V("t"), "b"))>>)]

Families ==
  LET sources == Printed_chains @@ Tested_chains @@ Captured_local @@ Captured_argument
                 @@ Captured_twice @@ Captured_in_loop @@ Literal_tables
  IN TestCases @@ [c \in DOMAIN sources |-> Compiled(sources[c])]

\* All programs that are executed: the C code of test_cases too.  The compiled sources
\* have tuples for names; those of test_cases get tuples that none of them has.
AllPrograms ==
  LET tests == {<<"test_cases", name>> : name \in DOMAIN GoldenPrograms}
  IN Families @@ [t \in tests |-> GoldenPrograms[t[2]]]

(***************************************************************************)
(* An operation inside the right operand of another one                    *)
(***************************************************************************)
NestedOnTheRight ==
  LET Nested(c) == Op(c[1], <<Operand(c[3], 1), Op(c[2], <<Operand(c[4], 2), Operand(c[5], 3)>>)>>)
      sources == [c \in {"_and", "_or"} \X {"_and", "_or"} \X {"yes", "no"} \X {"yes", "no"} \X {"yes", "no"} |->
                    Deciding(<<Printh(Nested(c))>>)]
  IN [c \in DOMAIN sources |-> Compiled(sources[c])]
=============================================================================
