------------------------------ MODULE Programs ------------------------------
(***************************************************************************)
(* The programs of test_cases, as the C code that the compiler is expected *)
(* to emit for them, with the lines that they are expected to print.       *)
(***************************************************************************)
EXTENDS Machine

\* Abbreviations of the statements that occur often
V(x)          == Var(x)
Field(t, k)   == Get(Var(t), Str(k))
At(t, i)      == Get(Var(t), Num(i))
New(x, n)     == Set(x, Table(n))
Put(t, k, e)  == SetTab(Var(t), Str(k), e)
PutAt(t, i, e) == SetTab(Var(t), Num(i), e)
CallOf(f, as) == Call(Code(f), as)
Invoke(f)     == Do(CallOf(f, <<>>))
Minus(n)      == Op("_invert_sign", <<Num(n)>>)
Expect(what, n) == Do(Op("assert_eq", <<Op(what, <<>>), Num(n)>>))
Tables(n)     == Expect("tables_used", n)
Strs(n)       == Expect("str_used", n)
RunGc         == Do(Op("run_gc", <<>>))
PrintAll(es)     == [i \in DOMAIN es |-> Printh(es[i])]

\* The functions by name; every program has __preinit and __main.
Program(literals, vars_, preinit, main, funs, output) ==
  [literals |-> literals, globals |-> vars_, output |-> output, grows |-> TRUE, collects |-> TRUE,
   funs |-> ("__preinit" :> Fun(<<>>, <<>>, preinit)) @@ ("__main" :> main) @@ funs]
Main(locals, stmts) == Fun(<<>>, locals, stmts)
NoFuns == <<>>
\* Programs that count the slots in use say themselves when run_gc is called.
Exact(p) == [p EXCEPT !.collects = FALSE]

(***************************************************************************)
(* Statements and expressions                                              *)
(***************************************************************************)
basic_assign == Program(<<"a">>, {"a", "b", "c", "d", "e", "o", "u"}, <<>>,
  Main(<<"y", "x", "oof">>,
    << Set("x", Num(1)), Set("x", Op("_pluseq", <<V("x"), Num(2)>>)),
       Set("a", Num(1)), Set("b", Num(2)),
       Set("c", Op("flr", <<Sixteenths(24)>>)), Set("d", Op("flr", <<Sixteenths(40)>>)),
       Set("e", Num(1)), Set("e", Num(2)), New("o", 1), New("u", 2),
       Put("u", "a", Num(123)), Put("o", "a", Num(333)), Set("oof", Sixteenths(8)) >>
    \o PrintAll(<<Op("_mult", <<V("a"), V("c")>>), Op("_mult", <<V("b"), V("d")>>), V("e"),
               Field("u", "a"), Field("o", "a"), V("y")>>)
    \o <<Return(Num(0))>>),
  NoFuns, <<"1", "4", "2", "123", "333", "nil">>)

AndThen(x, a, b) ==  \* x = a and b, where b has effects
  << Set(x, a), If(V(x), Block(<<>>, <<Set(x, b)>>), Block(<<>>, <<>>)) >>
OrElse(x, a, b) ==
  << Set(x, a), If(Op("_not", <<V(x)>>), Block(<<>>, <<Set(x, b)>>), Block(<<>>, <<>>)) >>
And(a, b) == Op("_and", <<a, b>>)
Or(a, b)  == Op("_or", <<a, b>>)
Not(a)    == Op("_not", <<a>>)
When(c, stmts) == If(c, Block(<<>>, stmts), Block(<<>>, <<>>))
IfElse(c, then, else) == If(c, Block(<<>>, then), Block(<<>>, else))

basic_bool == Program(<<>>, {}, <<>>,
  Main(<<"and_0", "and_1", "and_2">>,
    PrintAll(<<And(Num(4), Num(5))>>)
    \o AndThen("and_0", Nil, Num(13)) \o PrintAll(<<V("and_0"), And(False, Num(13)),
         Or(Num(4), Num(5)), Or(False, Num(5))>>)
    \o AndThen("and_1", True, Not(True)) \o PrintAll(<<V("and_1")>>)
    \o AndThen("and_2", True, Not(False)) \o PrintAll(<<V("and_2")>>)),
  NoFuns, <<"5", "nil", "false", "4", "5", "false", "true">>)

Say(s) == Op("printh", <<Str(s)>>)
basic_logical == Program(
  <<"yep", "OR-NOT VISIBLE", "AND-NOT VISIBLE", "also NOT visible", "NOT visible",
    "also visible", "visible2", "visible", "----">>, {"a"}, <<>>,
  Main(<<"and_0", "and_1", "and_2", "and_3", "and_4", "and_5", "or_0", "and_6">>,
    AndThen("and_0", And(Num(4), Num(5)), Num(6)) \o <<Set("a", V("and_0")), Printh(V("a"))>>
    \o AndThen("and_1", Nil, Num(13)) \o <<Set("a", V("and_1")), Printh(V("a"))>>
    \o <<Set("a", And(False, Num(13))), Printh(V("a")), Set("a", Or(Num(4), Num(5))), Printh(V("a")),
         Set("a", Or(False, Num(5))), Printh(V("a")), Printh(Str("----"))>>
    \o AndThen("and_2", Num(5), Say("visible")) \o <<Set("a", V("and_2"))>>
    \o AndThen("and_3", Num(5), Say("visible2"))
    \o AndThen("and_0", V("and_3"), Say("also visible")) \o <<Set("a", V("and_0"))>>
    \o AndThen("and_4", False, Say("NOT visible"))
    \o AndThen("and_1", V("and_4"), Say("also NOT visible")) \o <<Set("a", V("and_1"))>>
    \o AndThen("and_5", False, Say("AND-NOT VISIBLE")) \o <<Set("a", V("and_5"))>>
    \o OrElse("or_0", True, Say("OR-NOT VISIBLE")) \o <<Set("a", V("or_0"))>>
    \o AndThen("and_6", And(Num(4), Num(5)), Num(6)) \o <<When(V("and_6"), <<Printh(Str("yep"))>>)>>),
  NoFuns, <<"6", "nil", "false", "4", "5", "----", "visible", "visible2", "also visible", "yep">>)

basic_call == Program(<<>>, {}, <<>>,
  Main(<<>>, <<Do(CallOf("something", <<Num(5)>>)), Printh(CallOf("something", <<Num(6)>>))>>),
  "something" :> Fun(<<"arg">>, <<>>, <<ReturnVar("arg")>>), <<"6">>)

basic_call_missing_arg == Program(<<"all missing", "2 missing", "all">>, {}, <<>>,
  Main(<<>>,
    << Printh(Str("all")), Do(CallOf("f", <<Num(1), Num(2), Num(3)>>)),
       Printh(Str("2 missing")), Do(CallOf("f", <<Num(1)>>)),
       Printh(Str("all missing")), Invoke("f") >>),
  "f" :> Fun(<<"a", "b", "c">>, <<>>, PrintAll(<<V("a"), V("b"), V("c")>>)),
  <<"all", "1", "2", "3", "2 missing", "1", "nil", "nil", "all missing", "nil", "nil", "nil">>)

basic_forin == Program(<<>>, {}, <<>>,
  Main(<<"a", "t">>,
    <<Set("a", Num(5)), New("t", 4)>> \o [i \in 1 .. 4 |-> PutAt("t", i, Num(i))]
    \o <<In(<<"item">>, "all", V("t"), Block(<<>>, <<Printh(V("item"))>>))>>),
  NoFuns, <<"1", "2", "3", "4">>)

basic_forloop == Program(<<>>, {}, <<>>,
  Main(<<>>, <<For("i", Num(1), Num(7), Block(<<>>, <<Printh(V("i"))>>)), Return(Num(0))>>),
  NoFuns, <<"1", "2", "3", "4", "5", "6", "7">>)

basic_globals_move_to_top == Program(<<>>, {"c"}, <<>>,
  Main(<<"a", "b">>,
    << Set("a", Num(5)), Set("b", Num(7)), Set("c", Op("_mult", <<V("a"), V("b")>>)),
       Printh(V("c")), Return(Num(0)) >>),
  NoFuns, <<"35">>)

basic_if == Program(<<"a", "b", "c">>, {}, <<>>,
  Main(<<>>,
    << Do(CallOf("cond", <<True, False, False>>)), Do(CallOf("cond", <<False, True, False>>)),
       Do(CallOf("cond", <<False, False, True>>)) >>),
  "cond" :> Fun(<<"a", "b", "c">>, <<>>,
    <<IfElse(V("a"), <<Printh(Str("a"))>>,
             <<IfElse(V("b"), <<Printh(Str("b"))>>, <<Printh(Str("c"))>>)>>)>>),
  <<"a", "b", "c">>)

basic_metatable == Program(<<>>, {"t", "t1"}, <<>>,
  Main(<<>>,
    << New("t", 0), Printh(Op("getmetatable", <<V("t")>>)), New("t1", 0),
       Do(Op("setmetatable", <<V("t"), V("t1")>>)),
       Printh(Op("_equal", <<Op("getmetatable", <<V("t")>>), V("t1")>>)) >>),
  NoFuns, <<"nil", "true">>)

basic_method == Program(<<"x", "method">>, {"a"}, <<>>,
  Main(<<>>,
    << New("a", 1), Put("a", "method", TFun("__a_method")), Printh(Field("a", "x")),
       Do(Call(Field("a", "method"), <<V("a"), Num(5)>>)), Printh(Field("a", "x")) >>),
  "__a_method" :> Fun(<<"self", "value">>, <<>>, <<Put("self", "x", V("value")), Return(Nil)>>),
  <<"nil", "5">>)

basic_nested_functions == Program(<<>>, {"b"}, <<>>,
  Main(<<>>, <<Set("b", TFun("__nested_func_b")), Do(Call(V("b"), <<>>))>>),
  "__nested_func_b" :> Fun(<<>>, <<>>, <<Printh(Num(5))>>), <<"5">>)

basic_pico8syntax == Program(<<>>, {"a", "b"}, <<>>,
  Main(<<>>, <<Set("a", Sixteenths(8)), Set("b", Sixteenths(1)), Printh(V("a")), Printh(V("b")),
               Return(Num(0))>>),
  NoFuns, <<"0.5", "0.0625">>)

basic_preinit == Program(<<>>, {"a"},
  << Set("a", Num(5)), Set("a", Op("_pluseq", <<V("a"), Num(1)>>)),
     When(Op("_lt", <<V("a"), Num(3)>>), <<Set("a", Num(7))>>) >>,
  Main(<<>>, <<Printh(V("a"))>>), NoFuns, <<"6">>)

returned_tables_1 == Fun(<<>>, <<"var">>,
  <<New("var", 2), Put("var", "field", Num(1)), ReturnVar("var")>>)
basic_return == Program(<<"field">>, {}, <<>>,
  Main(<<"t", "t2", "t3">>,
    << Set("t", CallOf("returned_tables_1", <<>>)), Printh(Field("t", "field")),
       Set("t2", CallOf("returned_tables_2", <<>>)), Printh(Field("t2", "field")),
       Set("t3", CallOf("returned_tables_3", <<>>)), Printh(Op("_length", <<V("t3")>>)) >>),
  ("returned_tables_1" :> returned_tables_1)
  @@ ("returned_tables_2" :> Fun(<<>>, <<"anon">>,
        <<New("anon", 2), Put("anon", "field", Num(1)), ReturnVar("anon")>>))
  @@ ("returned_tables_3" :> Fun(<<>>, <<"anon">>, <<New("anon", 0), ReturnVar("anon")>>)),
  <<"1", "1", "0">>)

basic_short_if == Program(<<>>, {"a", "b", "c", "d", "e", "test"}, <<>>,
  Main(<<>>,
    << Set("test", False), When(V("test"), <<Return(Num(5))>>),
       IfElse(V("test"), <<Return(Num(5))>>, <<Set("a", Num(1))>>),
       IfElse(V("test"), <<Return(Num(5))>>, <<Set("b", Num(2)), Set("c", Num(3))>>),
       IfElse(Not(V("test")), <<Set("d", Minus(4))>>, <<Set("e", Num(0))>>) >>
    \o PrintAll(<<V("a"), V("b"), V("c"), V("d")>>)
    \o <<When(V("test"), <<>>), Return(Num(0))>>),
  NoFuns, <<"1", "2", "3", "-4">>)

ones == "11111111111111111111"
twos == "22222222222222222222"
basic_string == Program(<<twos, ones, "b", "a", "test_sub", "something", "">>, {}, <<>>,
  Main(<<>>, <<Invoke("test_empty_thing"), Invoke("test_sub"), Invoke("test_concat")>>),
  ("test_empty_thing" :> Fun(<<>>, <<"an_empty_one", "another_empty_one", "n1", "n2", "a", "b">>,
    << Set("an_empty_one", Str("")), Set("another_empty_one", Str("")),
       Set("n1", Num(5)), Set("n2", Num(6)),
       Set("a", Op("_concat", <<V("an_empty_one"), V("n1")>>)),
       Set("b", Op("_concat", <<V("an_empty_one"), V("n2")>>)) >>))
  @@ ("test_sub" :> Fun(<<>>, <<"s">>,
    <<Set("s", Str("something")), Printh(Str("test_sub"))>>
    \o PrintAll(<<Op("sub", <<V("s"), Num(5)>>), Op("sub", <<V("s"), Minus(5)>>),
               Op("sub", <<V("s"), Minus(4), Minus(3)>>), Op("sub", <<V("s"), Minus(2), Nil>>),
               Op("sub", <<V("s"), Num(8), Nil>>)>>)))
  @@ ("test_concat" :> Fun(<<>>, <<"ones", "twos">>,
    <<Printh(Str("a")), Printh(Op("_concat", <<Str("a"), Str("b")>>)),
      Set("ones", Str(ones)), Set("twos", Str(twos))>>
    \o PrintAll(<<Op("_concat", <<V("ones"), V("twos")>>), Op("_concat", <<Str("a"), Num(5)>>),
               Op("_concat", <<Str(""), Num(5)>>)>>))),
  <<"test_sub", "thing", "thing", "hi", "ng", "ng", "a", "ab", ones \o twos, "a5", "5">>)

\* The constructor of several programs: an object with a class
vector_new == Fun(<<"x", "y">>, <<"o">>,
  << New("o", 4), Put("o", "x", V("x")), Put("o", "y", V("y")),
     Do(Op("setmetatable", <<V("o"), V("vector")>>)), ReturnVar("o") >>)
basic_table_func == Program(<<"y", "x", "new">>, {"vector"},
  <<New("vector", 1), Put("vector", "new", TFun("__table_func_vector_new"))>>,
  Main(<<"zero", "one">>,
    << Set("zero", Call(Field("vector", "new"), <<Num(0), Num(0)>>)),
       Set("one", Call(Field("vector", "new"), <<Num(1), Num(1)>>)),
       Printh(Field("zero", "x")), Printh(Field("one", "x")) >>),
  "__table_func_vector_new" :> vector_new, <<"0", "1">>)

basic_table_simple == Program(<<"d", "c", "b", "a", "y", "x">>,
  {"squares", "member", "empty", "adder"}, <<>>,
  Main(<<>>,
    <<New("squares", 5)>> \o [i \in 1 .. 5 |-> PutAt("squares", i, Num(i * i))]
    \o << New("member", 4), Put("member", "x", Op("_invert_sign", <<Sixteenths(24)>>)),
          Put("member", "y", Num(66)), New("empty", 0) >>
    \o PrintAll(<<At("squares", 2), Field("member", "x"), Field("member", "y")>>)
    \o <<New("adder", 4)>>
    \o <<Put("adder", "a", Num(1))>> \o PrintAll(<<Field("adder", "a")>>)
    \o <<Put("adder", "b", Num(2))>> \o PrintAll(<<Field("adder", "a"), Field("adder", "b")>>)
    \o <<Put("adder", "c", Num(3))>>
    \o PrintAll(<<Field("adder", "a"), Field("adder", "b"), Field("adder", "c")>>)
    \o <<Put("adder", "d", Num(4))>>
    \o PrintAll(<<Field("adder", "a"), Field("adder", "b"), Field("adder", "c"), Field("adder", "d")>>)),
  NoFuns, <<"4", "-1.5", "66", "1", "1", "2", "1", "2", "3", "1", "2", "3", "4">>)

(***************************************************************************)
(* Tables, functions and closures                                          *)
(***************************************************************************)
compound_assign == Program(<<"a">>, {"a", "b", "c", "d", "e", "o", "u", "t"}, <<>>,
  Main(<<"x", "anon">>,
    << Set("x", Num(1)), Set("x", Op("_pluseq", <<V("x"), Num(2)>>)), Set("a", Num(1)),
       Set("b", Num(2)), Set("c", Op("flr", <<Sixteenths(24)>>)),
       Set("d", Op("flr", <<Sixteenths(40)>>)), Set("e", Num(1)), Set("e", Num(2)),
       New("o", 1), New("u", 2), Put("u", "a", Num(1)), Put("o", "a", Field("u", "a")),
       Set("t", Num(7)), New("anon", 2), PutAt("anon", 7, Num(8)), PutAt("anon", 8, Num(7)),
       Set("t", Get(V("anon"), V("t"))) >>
    \o PrintAll(<<Op("_mult", <<V("a"), V("c")>>), Op("_mult", <<V("b"), V("d")>>), V("e"),
                  Field("o", "a"), V("t")>>) \o <<Return(Num(0))>>),
  NoFuns, <<"1", "4", "2", "1", "8">>)

fib == <<"a", "b", "c", "d", "e", "f">>
compound_forin == Program(
  <<"y", "x", "n", "ipairs over num table", "ipairs over fib table", "f", "e", "d", "c", "b", "a">>,
  {}, <<>>,
  Main(<<"tab", "numtab">>,
    <<New("tab", 12)>>
    \o [i \in 1 .. 6 |-> Put("tab", fib[i], Num(<<1, 1, 2, 3, 5, 8>>[i]))]
    \o << In(<<"k", "v">>, "pairs", V("tab"), Block(<<>>, PrintAll(<<V("k"), V("v")>>))),
          Printh(Str("ipairs over fib table")),
          In(<<"k", "v">>, "ipairs", V("tab"), Block(<<>>, PrintAll(<<V("k"), V("v")>>))),
          Printh(Str("ipairs over num table")), New("numtab", 9),
          PutAt("numtab", 1, Num(123)), PutAt("numtab", 2, Num(456)), Put("numtab", "n", Num(42)),
          Put("numtab", "x", Num(100)), Put("numtab", "y", Num(200)), PutAt("numtab", 3, Num(789)),
          In(<<"k", "v">>, "ipairs", V("numtab"), Block(<<>>, <<Printh(V("v"))>>)) >>),
  NoFuns, <<"a", "1", "b", "1", "c", "2", "d", "3", "e", "5", "f", "8", "ipairs over fib table",
            "ipairs over num table", "123", "456", "789">>)

hashmap == "works inside a table, via hashmap"
compound_functions == Program(<<hashmap, "works inside a table", "index", "f">>,
  {"g", "v", "c", "b", "a", "captured"}, <<Set("g", TFun("g"))>>,
  Main(<<>>,
    << Set("captured", Num(7)), Set("a", TFun("a")), Printh(Call(V("a"), <<Num(5)>>)),
       Set("b", TFun("b")), Printh(Call(V("b"), <<Num(5), Num(6)>>)),
       New("c", 2), Put("c", "f", TFun("f")), Printh(Call(Field("c", "f"), <<>>)),
       Set("v", Str("index")), SetTab(V("c"), V("v"), TFun("v")),
       Printh(Call(Get(V("c"), V("v")), <<>>)), Do(Call(V("g"), <<Num(55)>>)), Return(Num(0)) >>),
  ("g" :> Fun(<<"par">>, <<>>, <<Printh(V("par"))>>))
  @@ ("a" :> Fun(<<"x">>, <<>>, <<Return(Op("_mult", <<V("x"), V("captured")>>))>>))
  @@ ("b" :> Fun(<<"x", "y">>, <<>>, <<Return(Op("_mult", <<V("x"), V("y")>>))>>))
  @@ ("f" :> Fun(<<>>, <<>>, <<Return(Str("works inside a table"))>>))
  @@ ("v" :> Fun(<<>>, <<>>, <<Return(Str(hashmap))>>)),
  <<"35", "30", "works inside a table", hashmap, "55">>)

compound_metatable == Program(<<"y", "__index", "x">>, {"a", "b"}, <<>>,
  Main(<<>>,
    << New("a", 4), Put("a", "x", Num(5)), Put("a", "__index", V("a")), New("b", 0),
       Do(Op("setmetatable", <<V("b"), V("a")>>)), Printh(Field("b", "x")),
       Update("_pluseq", V("b"), Str("x"), Num(5)), Printh(Field("b", "x")),
       Printh(Field("b", "y")), Put("a", "y", Num(7)), Printh(Field("b", "y")), Return(Num(0)) >>),
  NoFuns, <<"5", "10", "nil", "7">>)

\* v with the sum or the difference of the fields of v0 and v1
vector_op(op) == Fun(<<"v0", "v1">>, <<"v">>,
  << Set("v", Call(Field("vector", "new"), <<Num(0), Num(0)>>)),
     Put("v", "x", Op(op, <<Field("v0", "x"), Field("v1", "x")>>)),
     Put("v", "y", Op(op, <<Field("v0", "y"), Field("v1", "y")>>)), ReturnVar("v") >>)
compound_metamethods == Program(<<"__sub", "__add", "__index", "y", "x", "new">>, {"vector"},
  << New("vector", 4), Put("vector", "__index", V("vector")), Put("vector", "new", TFun("new")),
     Put("vector", "__add", TFun("add")), Put("vector", "__sub", TFun("sub")) >>,
  Main(<<"v1", "v2", "delta", "added">>,
    << Set("v1", Call(Field("vector", "new"), <<Num(5), Num(3)>>)),
       Set("v2", Call(Field("vector", "new"), <<Num(1), Num(2)>>)),
       Set("delta", Op("_sub", <<V("v1"), V("v2")>>)), Printh(Field("delta", "x")),
       Printh(Field("delta", "y")), Set("added", Op("_add", <<V("v1"), V("v2")>>)),
       Printh(Field("added", "x")), Printh(Field("added", "y")) >>),
  ("new" :> vector_new) @@ ("add" :> vector_op("_add")) @@ ("sub" :> vector_op("_sub")),
  <<"4", "1", "6", "5">>)

a_method == Fun(<<"self">>, <<>>, <<Put("self", "x", Num(5)), Return(Nil)>>)
compound_metatable_method == Program(<<"x", "method", "__index">>, {"a", "b"}, <<>>,
  Main(<<>>,
    << New("a", 2), Put("a", "__index", V("a")), Put("a", "method", TFun("__a_method")),
       New("b", 0), Do(Op("setmetatable", <<V("b"), V("a")>>)),
       Do(Call(Field("b", "method"), <<V("b")>>)), Printh(Field("a", "x")), Printh(Field("b", "x")),
       Do(Call(Field("a", "method"), <<V("a")>>)), Printh(Field("a", "x")), Printh(Field("b", "x")) >>),
  "__a_method" :> a_method, <<"nil", "5", "5", "5">>)

compound_multi_assign == Program(<<"a", "b", "tables", "y", "x">>,
  {"a", "b", "c", "state", "next_state", "change_state"}, <<>>,
  Main(<<>>,
    << New("a", 2), Put("a", "x", Num(5)), Put("a", "y", Num(6)), Printh(Field("a", "x")),
       Printh(Field("a", "y")), Set("b", Num(1)), Set("c", Num(2)), Printh(V("b")), Printh(V("c")),
       Printh(Str("tables")), New("state", 2), New("next_state", 2), Set("change_state", False),
       Put("next_state", "b", Num(2)), Put("state", "a", Num(1)), Printh(Field("state", "a")),
       Printh(Field("next_state", "b")), Printh(V("change_state")) >>),
  NoFuns, <<"5", "6", "1", "2", "tables", "1", "2", "false">>)

compound_table_as_idx == Program(<<"x">>, {"member", "empty"}, <<>>,
  Main(<<>>,
    << New("member", 3), Put("member", "x", Num(1)), New("empty", 0),
       SetTab(V("member"), V("empty"), Num(5)), Printh(Get(V("member"), V("empty"))) >>),
  NoFuns, <<"5">>)

Corner(t, x, y) == <<New(t, 4), Put(t, "x", x), Put(t, "y", y)>>
sides == <<"top", "bottom", "left", "right">>
Sub(side) == "sub_" \o side
\* A field that is a new table with one field
PutNew(t, k, v) ==
  <<Put(t, "attr", Table(1)), SetTab(Field(t, "attr"), Str(k), Str(v))>>
compound_table_decl == Program(
  <<"value_top", "func in tab", "value_attr", "key", "attr", "func", "right", "left", "bottom", "top",
    "y", "x">>, {"func_in_tab", "this", "literals"},
  <<New("this", 1)>> \o PutNew("this", "key", "value_top")
    \o <<New("func_in_tab", 2), Put("func_in_tab", "func", TFun("in_tab"))>>,
  Main([i \in 1 .. 4 |-> Sub(sides[i])],
    Corner("sub_top", Num(0), Minus(68)) \o Corner("sub_bottom", Num(0), Num(68))
    \o Corner("sub_left", Minus(68), Num(0)) \o Corner("sub_right", Num(68), Num(0))
    \o <<New("literals", 4)>> \o [i \in 1 .. 4 |-> Put("literals", sides[i], V(Sub(sides[i])))]
    \o << Printh(Get(Field("literals", "top"), Str("y"))),
          Printh(Get(Field("literals", "right"), Str("x"))),
          Do(Call(Field("func_in_tab", "func"), <<V("func_in_tab")>>)), Return(Num(0)) >>),
  "in_tab" :> Fun(<<"this">>, <<>>, PutNew("this", "key", "value_attr") \o <<Printh(Str("func in tab"))>>),
  <<"-68", "68", "func in tab">>)

compound_literal_table_as_argument == Program(<<"y", "x">>, {"particles"}, <<New("particles", 0)>>,
  Main(<<>>, <<Do(CallOf("add_particle", <<Num(1), Num(5)>>)),
               Foreach(V("particles"), TFun("show"))>>),
  ("add_particle" :> Fun(<<"x", "y">>, <<"anon">>,
    << New("anon", 4), Put("anon", "x", V("x")), Put("anon", "y", V("y")),
       Do(Op("add", <<V("particles"), V("anon")>>)) >>))
  @@ ("show" :> Fun(<<"particle">>, <<>>, PrintAll(<<Field("particle", "x"), Field("particle", "y")>>))),
  <<"1", "5">>)

compound_local_tables_freed == Program(<<"a", "value", "key">>, {"t", "u"}, <<>>,
  Main(<<"o", "anon">>,
    << New("o", 1), Put("o", "key", Str("value")), New("u", 2), Put("u", "a", Num(1)),
       New("anon", 2), PutAt("anon", 7, Num(8)), PutAt("anon", 8, Num(7)), Set("t", At("anon", 7)),
       Printh(Field("o", "key")), Printh(Field("u", "a")), Printh(V("t")), Return(Num(0)) >>),
  NoFuns, <<"value", "1", "8">>)

\* Code that captures variables: its lambda_args is the last argument.
WithEnv(params, stmts) == Fun(params \o <<"lambda_args">>, <<>>, stmts)
Captured(k) == Field("lambda_args", k)
Capture(k, e) == Put("lambda_args", k, e)
SetClosure(x, f) == Set(x, Closure(f, V("lambda_args")))
closure_in == Program(<<"captured">>, {"a", "b"}, <<>>,
  Main(<<"lambda_args">>,
    << New("lambda_args", 1), Capture("captured", Num(7)), SetClosure("a", "a"),
       Printh(Call(V("a"), <<Num(5)>>)), Capture("captured", Num(1)),
       Printh(Call(V("a"), <<Num(5)>>)), SetClosure("b", "b"), Do(Call(V("b"), <<>>)),
       Printh(Call(V("a"), <<Num(5)>>)), Return(Num(0)) >>),
  ("a" :> WithEnv(<<"x">>, <<Return(Op("_mult", <<V("x"), Captured("captured")>>))>>))
  @@ ("b" :> WithEnv(<<>>, <<Capture("captured", Num(2))>>)),
  <<"35", "5", "10">>)

double_enclosing == "double_enclosing fornum iterator"
closure_1 == Program(<<"y", "x", double_enclosing>>, {"whatever_func"}, <<>>,
  Main(<<>>, <<Invoke("test")>>),
  ("test" :> Fun(<<>>, <<>>,
    << Printh(Str(double_enclosing)),
       For("x", Num(1), Num(2), Block(<<"lambda_args">>,
         << New("lambda_args", 1), Capture("x", V("x")),
            For("y", Num(1), Num(2), Block(<<>>,
              << Capture("y", V("y")), SetClosure("whatever_func", "whatever"),
                 Do(Call(V("whatever_func"), <<>>)) >>)) >>)) >>))
  @@ ("whatever" :> WithEnv(<<>>, <<Printh(Op("_mult", <<Captured("x"), Captured("y")>>))>>)),
  <<double_enclosing, "1", "2", "2", "4">>)

closure_2 == Program(<<"i", "enclosing fornum iterator">>, {"func"}, <<>>,
  Main(<<>>, <<Invoke("test")>>),
  ("test" :> Fun(<<>>, <<>>,
    << Printh(Str("enclosing fornum iterator")),
       For("i", Num(1), Num(2), Block(<<"lambda_args">>,
         << New("lambda_args", 1), Capture("i", V("i")), SetClosure("func", "func"),
            Do(Call(V("func"), <<>>)) >>)) >>))
  @@ ("func" :> WithEnv(<<>>, <<Printh(Captured("i"))>>)),
  <<"enclosing fornum iterator", "1", "2">>)

closure_3 == Program(<<"wrapped", "not wrapped", "x", "obj", "y", "a", "enclosing arg overlap">>,
  {"wrapped", "wrapper"}, <<>>, Main(<<>>, <<Invoke("test")>>),
  ("test" :> Fun(<<>>, <<>>,
    << Printh(Str("enclosing arg overlap")), Set("wrapper", TFun("wrapper")),
       Do(Call(V("wrapper"), <<Num(5), Str("a")>>)) >>))
  @@ ("wrapper" :> Fun(<<"x", "y">>, <<"lambda_args">>,
    << New("lambda_args", 2), Capture("y", V("y")), Capture("obj", Table(0)),
       SetTab(Captured("obj"), Str("x"), Str("not wrapped")),
       SetTab(Captured("obj"), Str("a"), Str("wrapped")),
       SetClosure("wrapped", "wrapped"), Do(Call(V("wrapped"), <<>>)) >>))
  @@ ("wrapped" :> WithEnv(<<>>, << Printh(Get(Captured("obj"), Str("x"))),
                                   Printh(Get(Captured("obj"), Captured("y"))) >>)),
  <<"enclosing arg overlap", "not wrapped", "wrapped">>)

\* These two use closures that outlive the call which made them, and depend on
\* run_gc not being called meanwhile (see ClosuresEnv.cfg).
closure_4 == Exact(Program(<<"i", "newCounter">>, {"c1", "c2"}, <<>>, Main(<<>>, <<Invoke("test")>>),
  ("test" :> Fun(<<>>, <<>>,
    <<Printh(Str("newCounter")), Set("c1", CallOf("newCounter", <<>>))>>
    \o PrintAll(<<Call(V("c1"), <<>>), Call(V("c1"), <<>>)>>)
    \o <<Set("c2", CallOf("newCounter", <<>>))>>
    \o PrintAll(<<Call(V("c2"), <<>>), Call(V("c1"), <<>>), Call(V("c2"), <<>>)>>)))
  @@ ("newCounter" :> Fun(<<>>, <<"lambda_args">>,
    << New("lambda_args", 1), Capture("i", Num(0)), Return(Closure("next", V("lambda_args"))) >>))
  @@ ("next" :> WithEnv(<<>>,
    << Capture("i", Op("_add", <<Captured("i"), Num(1)>>)), Return(Captured("i")) >>)),
  <<"newCounter", "1", "2", "1", "3", "2">>))

closure_5 == Exact(Program(<<"arg", "captured args">>, {"f", "f2", "captures_5", "captures_6"}, <<>>,
  Main(<<>>, <<Invoke("test")>>),
  ("test" :> Fun(<<>>, <<>>,
    << Printh(Str("captured args")), Set("f", TFun("f")),
       Set("captures_5", Call(V("f"), <<Num(5)>>)), Set("captures_6", Call(V("f"), <<Num(6)>>)),
       Do(Call(V("captures_5"), <<>>)), Do(Call(V("captures_6"), <<>>)),
       Do(Call(V("captures_5"), <<>>)) >>))
  @@ ("f" :> Fun(<<"arg">>, <<"lambda_args">>,
    << New("lambda_args", 1), Capture("arg", V("arg")), SetClosure("f2", "f2"), ReturnVar("f2") >>))
  @@ ("f2" :> WithEnv(<<>>, <<Printh(Captured("arg"))>>)),
  <<"captured args", "5", "6", "5">>))

regression_closure == Program(<<"x", "y", "move_y", "obj">>, {}, <<>>,
  Main(<<>>, <<Invoke("test")>>),
  "test" :> Fun(<<>>, <<"lambda_args">>,
    << New("lambda_args", 1), Capture("obj", Table(0)),
       SetTab(Captured("obj"), Str("move_y"), TFun("move_y")) >>),
  <<>>)

(***************************************************************************)
(* Scopes, and the slots that are in use                                   *)
(***************************************************************************)
internals_basic_scoping == Program(<<>>, {}, <<>>,
  Main(<<"b", "a", "and_0">>,
    << Set("b", Num(1)), Set("a", Num(1)) >>
    \o AndThen("and_0", Op("_add", <<V("a"), Num(1)>>), Op("_add", <<V("b"), Num(1)>>))
    \o << When(V("and_0"), <<Set("a", Num(2))>>) >>),
  NoFuns, <<>>)

Inner_a(n, show) ==
  Block(<<"a">>, <<Set("a", Num(n))>> \o (IF show THEN <<Printh(V("a"))>> ELSE <<>>))
internals_scoping == Program(<<"---", "nope2", "nope">>, {}, <<>>,
  Main(<<>>, << Invoke("local_var"), Printh(Str("---")), Invoke("else_arm"), Printh(Str("---")),
                Invoke("elseif_else_arm") >>),
  ("local_var" :> Fun(<<>>, <<"a">>,
    <<If(Num(5), Inner_a(100, FALSE), Block(<<>>, <<>>)), Printh(V("a"))>>))
  @@ ("else_arm" :> Fun(<<>>, <<"a">>,
    <<If(False, Block(<<>>, <<Printh(Str("nope"))>>), Inner_a(100, TRUE)), Printh(V("a"))>>))
  @@ ("elseif_else_arm" :> Fun(<<>>, <<"a">>,
    << If(False, Block(<<>>, <<Printh(Str("nope"))>>),
          Block(<<>>, <<If(False, Block(<<>>, <<Printh(Str("nope2"))>>), Inner_a(200, TRUE))>>)),
       Printh(V("a")) >>)),
  <<"nil", "---", "100", "nil", "---", "200", "nil">>)

internals_leaks_in_a_loop == Exact(Program(<<"#", "$">>, {}, <<>>,
  Main(<<>>, <<Strs(2), Invoke("_inner"), Strs(2)>>),
  "_inner" :> Fun(<<>>, <<"s", "intermediate">>,
    << Set("s", Str("$")),
       For("i", Num(1), Num(10), Block(<<>>,
         <<Set("s", Op("_concat", <<Str("#"), Op("tostring", <<V("i")>>)>>))>>)),
       RunGc, Strs(3) >>),
  <<>>))

\* Built without grow_table (NO_GROW_TABLE)
table_initialized_correct_size == [Program(<<"y", "x", "a">>, {}, <<>>,
  Main(<<"a", "b", "c">>,
    << New("a", 1), Put("a", "a", Num(1)), New("b", 4), Put("b", "x", Num(1)), Put("b", "y", Num(2)),
       New("c", 5), Put("c", "x", Num(1)), Put("c", "y", Num(2)), Put("c", "a", Num(1)) >>),
  NoFuns, <<>>) EXCEPT !.grows = FALSE]

returned_tables == Fun(<<>>, <<"t">>,
  <<Tables(0), Set("t", CallOf("returned_tables_1", <<>>)), Tables(1)>>)
gc_1 == Exact(Program(<<"field">>, {}, <<>>,
  Main(<<>>, <<Tables(0), Invoke("returned_tables"), Tables(1), RunGc, Tables(0)>>),
  "returned_tables" :> returned_tables @@ "returned_tables_1" :> returned_tables_1, <<>>))

_nested_returned_tables == Fun(<<>>, <<"t">>,
  <<Tables(0), Set("t", CallOf("returned_tables_1", <<>>)), RunGc, Tables(1)>>)
CallsBetween(f) == Fun(<<>>, <<>>, <<Tables(0), Invoke(f), Tables(0)>>)
gc_2 == Exact(Program(<<"field">>, {}, <<>>, Main(<<>>, <<Invoke("nested_returned_tables")>>),
  "nested_returned_tables" :> CallsBetween("_nested_returned_tables")
  @@ "_nested_returned_tables" :> _nested_returned_tables
  @@ "returned_tables_1" :> returned_tables_1, <<>>))

gc_3 == Exact(Program(<<>>, {}, <<>>, Main(<<>>, <<Invoke("test_references_in_table_destroyed")>>),
  "test_references_in_table_destroyed" :> CallsBetween("_references_in_table_destroyed")
  @@ "_references_in_table_destroyed" :> Fun(<<>>, <<"tab">>,
    <<Tables(0), New("tab", 1), Tables(1), PutAt("tab", 0, Table(0)), Tables(2), RunGc, Tables(2)>>),
  <<>>))

deleted_tables == Fun(<<>>, <<"tab">>,
  << Tables(0), New("tab", 0), Tables(1),
     For("i", Num(1), Num(5), Block(<<>>, <<SetTab(V("tab"), V("i"), Table(0))>>)), RunGc, Tables(6),
     For("i", Num(1), Num(5), Block(<<>>, <<Do(Op("del", <<V("tab"), Num(1)>>))>>)), RunGc, Tables(1) >>)
gc_4 == Exact(Program(<<>>, {}, <<>>, CallsBetween("deleted_tables"),
  "deleted_tables" :> deleted_tables, <<>>))

gc_all == Exact(Program(<<"field">>, {}, <<>>,
  Main(<<>>,
    << Tables(0), Invoke("returned_tables"), Tables(1), RunGc, Tables(0),
       Invoke("nested_returned_tables"), Invoke("references_in_table_destroyed"), Tables(0),
       Invoke("deleted_tables"), Tables(0) >>),
  "returned_tables" :> returned_tables @@ "returned_tables_1" :> returned_tables_1
  @@ "nested_returned_tables" :> CallsBetween("_nested_returned_tables")
  @@ "_nested_returned_tables" :> _nested_returned_tables
  @@ "references_in_table_destroyed" :> CallsBetween("deleted_tables")
  @@ "deleted_tables" :> deleted_tables, <<>>))

(***************************************************************************)
(* The PICO-8 library and syntax                                           *)
(***************************************************************************)
AddTo(t, e) == Do(Op("add", <<V(t), e>>))
DelFour == Do(Op("del", <<V("t"), Num(4)>>))
pico8_add_del == Program(<<"---", "another value", "a value">>, {}, <<>>,
  Main(<<>>, << Invoke("test_add"), Printh(Str("---")), Invoke("test_del"), Printh(Str("---")),
                Invoke("test_del2") >>),
  ("test_add" :> Fun(<<>>, <<"t">>,
    <<New("t", 0), AddTo("t", Str("a value"))>> \o PrintAll(<<At("t", 1), At("t", 2)>>)
    \o <<AddTo("t", Str("another value"))>> \o PrintAll(<<At("t", 1), At("t", 2), At("t", 3)>>)))
  @@ ("test_del" :> Fun(<<>>, <<"t">>,
    << New("t", 0), AddTo("t", Str("a value")), AddTo("t", Str("another value")),
       Printh(At("t", 1)), Do(Op("del", <<V("t"), Str("a value")>>)), Printh(At("t", 1)) >>))
  @@ ("test_del2" :> Fun(<<>>, <<"t">>,
    <<New("t", 6)>> \o [i \in 1 .. 6 |-> PutAt("t", i, Num(i))]
    \o << Printh(At("t", 4)), DelFour, Printh(At("t", 4)), Printh(At("t", 5)),
          DelFour, Printh(At("t", 4)), Printh(At("t", 5)) >>)),
  <<"a value", "nil", "a value", "another value", "nil", "---", "a value", "another value", "---",
    "4", "5", "6", "6", "nil">>)

\* A function of the runtime, where a program passes it as a value
native(f) == f :> Fun(<<>>, <<>>, <<Return(Op(f, <<Arg(1)>>))>>)
pico8_foreach == Program(<<"hello">>, {"t"}, <<>>,
  Main(<<>>,
    << New("t", 5), PutAt("t", 1, Num(1)), PutAt("t", 2, Num(3)), PutAt("t", 3, Str("hello")),
       PutAt("t", 4, Num(5)), PutAt("t", 5, Num(7)), Foreach(V("t"), Code("printh_lambda")) >>),
  native("printh_lambda"), <<"1", "3", "hello", "5", "7">>)

syntax_regression == Program(<<"rem", "fractional_binary_literal">>, {"axis", "obj", "a"}, <<>>,
  Main(<<>>, << Invoke("celeste"), Invoke("integer_div"), Invoke("bunny"),
                Invoke("fractional_binary_literal") >>),
  ("celeste" :> Fun(<<>>, <<>>, <<When(False, <<Return(Nil)>>)>>))
  @@ ("integer_div" :> Fun(<<>>, <<>>,
    PrintAll([i \in 1 .. 3 |-> Op("_floor_div", <<Num(<<7, 8, 11>>[i]), Num(5)>>)])))
  @@ ("bunny" :> Fun(<<>>, <<>>, <<>>))
  @@ ("fractional_binary_literal" :> Fun(<<>>, <<>>,
    <<Printh(Str("fractional_binary_literal")), Printh(Sixteenths(32125 * 16 + 8))>>)),
  <<"1", "1", "2", "fractional_binary_literal", "32125.5">>)

(***************************************************************************)
(* The corpus, by directory                                                *)
(***************************************************************************)
GoldenPrograms ==
  "basic/assign" :> basic_assign @@ "basic/bool" :> basic_bool @@
  "basic/logical" :> basic_logical @@ "basic/call" :> basic_call @@
  "basic/call_missing_arg" :> basic_call_missing_arg @@ "basic/forin" :> basic_forin @@
  "basic/forloop" :> basic_forloop @@ "basic/globals_move_to_top" :> basic_globals_move_to_top @@
  "basic/if" :> basic_if @@ "basic/metatable" :> basic_metatable @@
  "basic/method" :> basic_method @@ "basic/nested_functions" :> basic_nested_functions @@
  "basic/pico8syntax" :> basic_pico8syntax @@ "basic/preinit" :> basic_preinit @@
  "basic/return" :> basic_return @@ "basic/short_if" :> basic_short_if @@
  "basic/string" :> basic_string @@ "basic/table_func" :> basic_table_func @@
  "basic/table_simple" :> basic_table_simple @@ "compound/assign" :> compound_assign @@
  "compound/forin" :> compound_forin @@ "compound/functions" :> compound_functions @@
  "compound/metatable" :> compound_metatable @@ "compound/metamethods" :> compound_metamethods @@
  "compound/metatable_method" :> compound_metatable_method @@
  "compound/multi_assign" :> compound_multi_assign @@
  "compound/table_as_idx" :> compound_table_as_idx @@
  "compound/table_decl" :> compound_table_decl @@
  "compound/literal_table_as_argument" :> compound_literal_table_as_argument @@
  "compound/local_tables_freed" :> compound_local_tables_freed @@
  "compound/closure/in" :> closure_in @@ "compound/closure/1" :> closure_1 @@
  "compound/closure/2" :> closure_2 @@ "compound/closure/3" :> closure_3 @@
  "compound/closure/4" :> closure_4 @@ "compound/closure/5" :> closure_5 @@
  "regression/closure" :> regression_closure @@
  "internals/basic_scoping" :> internals_basic_scoping @@
  "internals/scoping" :> internals_scoping @@
  "internals/leaks_in_a_loop" :> internals_leaks_in_a_loop @@
  "internals/table_initialized_correct_size" :> table_initialized_correct_size @@
  "internals/gc/1" :> gc_1 @@ "internals/gc/2" :> gc_2 @@ "internals/gc/3" :> gc_3 @@
  "internals/gc/4" :> gc_4 @@ "internals/gc" :> gc_all @@ "pico8/add_del" :> pico8_add_del @@
  "pico8/foreach" :> pico8_foreach @@ "syntax/regression" :> syntax_regression

=============================================================================
