------------------------------ MODULE Compiler ------------------------------
(***************************************************************************)
(* The passes of a.py that change what a program does: captured variables  *)
(* become fields of a table that the closure carries, nested functions     *)
(* become global ones, literal tables become assignments, and logical      *)
(* operators with effects become branches.  Each is a function on          *)
(* programs.  A compiled program runs on Machine, and is expected to print *)
(* what its source means in Lua.                                           *)
(*                                                                         *)
(* A source is a function from the names of its functions to [params,      *)
(* body].  Expressions are those of Machine, nested functions and literal  *)
(* tables; a body is a sequence of statements.  The names of globals, of   *)
(* locals and of functions are different in a source, and a captured       *)
(* parameter occurs once in the functions that capture it.                 *)
(***************************************************************************)
EXTENDS Machine

Local(x, e) == <<"local", <<e>>, x>>
Lambda(g, params, body) == <<"lambda", <<>>, g, params, body>>
Def(g, params, body)    == Set(g, Lambda(g, params, body))   \* function g(params) body end

Literal(keys, values)   == <<"literal", values, keys, TRUE>>     \* {["k"] = v, ...}
Plain(keys, values)     == <<"literal", values, keys, FALSE>>    \* {k = v, ...}

IsTable(e)    == e[1] = "literal"
IsLogical(e)  == e[1] \in {"_and", "_or"}
IsFunction(e) == e[1] = "lambda"
\* The same sequence or function, which TLC evaluates here and not at every use
Now(s)    == <<>> \o s
NowFun(f) == f @@ <<>>
Joined(seqs) == FlattenSeq(Now(seqs))
InAnyOrder(names) == FoldSet(LAMBDA x, s : Append(s, x), <<>>, names)
Bodies(s) == CASE s[1] = "if" -> <<s[3], s[4]>> [] s[1] = "for" -> <<s[5]>> [] OTHER -> <<>>

(***************************************************************************)
(* Scopes: the functions and numeric loops around a statement, outermost   *)
(* first.  Their variables are the parameters or the loop variable, and    *)
(* the locals at the top of their body.                                    *)
(***************************************************************************)
Targets(stmts, kind) == {stmts[i][3] : i \in {j \in DOMAIN stmts : stmts[j][1] = kind}}
LocalsOf(stmts) == Targets(stmts, "local")
FunScope(g, params, body) ==
  [fun |-> TRUE, name |-> g, args |-> ToSet(params), locals |-> LocalsOf(body)]
ForScope(x, body) == [fun |-> FALSE, name |-> x, args |-> {x}, locals |-> LocalsOf(body)]
Inwards(chain, i) == SubSeq(chain, 1, i)
\* The nearest scope that defines x, and the nearest function: positions in a chain
DefinedIn(chain, x) == SelectLastInSeq(chain, LAMBDA s : x \in s.args \cup s.locals)
NearestFun(chain)   == SelectLastInSeq(chain, LAMBDA s : s.fun)
\* A local hides a loop variable, a parameter hides a local.
WasArgument(scope, x) == x \in scope.args /\ (scope.fun \/ x \notin scope.locals)

\* The names that a source mentions, with the scopes around them, in their order.  A
\* name that is itself the value of a local, or a bound of a loop, is passed over.
RECURSIVE NamesIn(_, _), NamesOf(_, _)
NamesIn(chain, e) ==
  CASE e[1] = "var" -> <<[chain |-> chain, x |-> e[3]]>>
    [] IsFunction(e) -> NamesOf(Append(chain, FunScope(e[3], e[4], e[5])), e[5])
    [] OTHER -> Joined([i \in DOMAIN e[2] |-> NamesIn(chain, e[2][i])])
NamesOf(chain, stmts) ==
  LET NamesOfExprs(s) ==
        Joined([i \in DOMAIN s[2] |->
          IF s[1] \in {"local", "for"} /\ s[2][i][1] = "var" THEN <<>> ELSE NamesIn(chain, s[2][i])])
      Target(s) == IF s[1] = "set" THEN <<[chain |-> chain, x |-> s[3]]>> ELSE <<>>
      Inside(s) == IF s[1] = "for" THEN Append(chain, ForScope(s[3], s[5])) ELSE chain
      Nested(s) == Joined([i \in DOMAIN Bodies(s) |-> NamesOf(Inside(s), Bodies(s)[i])])
  IN Joined([i \in DOMAIN stmts |-> Target(stmts[i]) \o NamesOfExprs(stmts[i]) \o Nested(stmts[i])])

TopChain(src, f) == <<FunScope(f, src[f].params, src[f].body)>>
Mentioned(src) ==
  LET fs == InAnyOrder(DOMAIN src)
  IN Joined([i \in DOMAIN fs |-> NamesOf(TopChain(src, fs[i]), src[fs[i]].body)])

(***************************************************************************)
(* transform_captured_variables                                            *)
(***************************************************************************)
IsCaptured(n) ==
  DefinedIn(n.chain, n.x) \in 1 .. NearestFun(n.chain) - 1
Captures(src) == SelectSeq(Mentioned(src), IsCaptured)
OwnerOf(n)  == Inwards(n.chain, DefinedIn(n.chain, n.x))
NeedingOf(n) == Inwards(n.chain, NearestFun(n.chain))

CopyArgument(x) == SetTab(Var("lambda_args"), Str(x), Var(x))
\* What the pass decides, name by name: the functions that get the parameter
\* lambda_args; the names that become fields, by function (a loop that owns a variable
\* keeps its name); the scopes that make a table lambda_args, which scopes inside them
\* share; and the statements that copy parameters into it.
\* Mutant: the function that needs the table gets no parameter for it.
Injected_Not(cap, n) == cap.needing
Injected(cap, n) == cap.needing \cup {NeedingOf(n)}
NoCaptures == [needing |-> {}, fields |-> {}, tables |-> {}, copies |-> <<>>]
Noted(cap, n) ==
  LET owner == OwnerOf(n)
      shared == /\ owner \notin cap.tables
                /\ \E i \in 1 .. Len(owner) - 1 : Inwards(owner, i) \in cap.tables
      copies == IF owner \in DOMAIN cap.copies THEN cap.copies[owner] ELSE <<>>
      copy == <<CopyArgument(n.x)>>
      known == Contains(copies, copy[1])
  IN [needing |-> Injected(cap, n),
      fields  |-> cap.fields \cup {<<NeedingOf(n), n.x>>}
                  \cup (IF Last(owner).fun THEN {<<owner, n.x>>} ELSE {}),
      tables  |-> IF shared THEN cap.tables ELSE cap.tables \cup {owner},
      copies  |-> IF known \/ ~WasArgument(Last(owner), n.x) THEN cap.copies
                  ELSE (owner :> (IF shared THEN copy \o copies ELSE copies \o copy)) @@ cap.copies]
CapturesOf(src) == FoldLeft(Noted, NoCaptures, Captures(src))

\* The start of the body of a scope
Prologue(cap, chain) ==
  (IF chain \in cap.tables THEN <<Local("lambda_args", Table(0))>> ELSE <<>>)
  \o (IF chain \in DOMAIN cap.copies THEN cap.copies[chain] ELSE <<>>)
IsField(cap, chain, x) == <<Inwards(chain, NearestFun(chain)), x>> \in cap.fields

(***************************************************************************)
(* transform_captured_variables on the text, and                           *)
(* transform_anonymous_functions: a nested function is a value             *)
(***************************************************************************)
RECURSIVE Rewritten(_, _, _), RewrittenBody(_, _, _)
Rewritten(cap, chain, e) ==
  CASE e[1] = "var" -> IF IsField(cap, chain, e[3]) THEN Get(Var("lambda_args"), Str(e[3])) ELSE e
    [] IsFunction(e) -> IF Append(chain, FunScope(e[3], e[4], e[5])) \in cap.needing
                        THEN Closure(e[3], Var("lambda_args")) ELSE TFun(e[3])
    [] OTHER -> [e EXCEPT ![2] = Now([i \in DOMAIN @ |-> Rewritten(cap, chain, @[i])])]
RewrittenBody(cap, chain, stmts) ==
  LET Statement(s) ==
        LET r == Rewritten(cap, chain, s) IN
        CASE s[1] \in {"local", "set"} /\ IsField(cap, chain, s[3]) ->
               SetTab(Var("lambda_args"), Str(s[3]), r[2][1])
          [] s[1] = "if" -> [r EXCEPT ![3] = RewrittenBody(cap, chain, @),
                                      ![4] = RewrittenBody(cap, chain, @)]
          [] s[1] = "for" ->
               LET inner == Append(chain, ForScope(s[3], s[5]))
               IN [r EXCEPT ![5] = Prologue(cap, inner) \o RewrittenBody(cap, inner, @)]
          [] OTHER -> r
  IN Now([i \in DOMAIN stmts |-> Statement(stmts[i])])

\* Every function of the source, nested ones included, as a function of its own
RECURSIVE LambdasIn(_, _), LambdasOf(_, _)
LambdasIn(chain, e) ==
  IF IsFunction(e)
  THEN LET inner == Append(chain, FunScope(e[3], e[4], e[5]))
       IN <<[chain |-> inner, params |-> e[4], body |-> e[5]]>> \o LambdasOf(inner, e[5])
  ELSE Joined([i \in DOMAIN e[2] |-> LambdasIn(chain, e[2][i])])
LambdasOf(chain, stmts) ==
  LET Inside(s) == IF s[1] = "for" THEN Append(chain, ForScope(s[3], s[5])) ELSE chain
      Nested(s) == Joined([i \in DOMAIN Bodies(s) |-> LambdasOf(Inside(s), Bodies(s)[i])])
  IN Joined([i \in DOMAIN stmts |-> LambdasIn(chain, stmts[i]) \o Nested(stmts[i])])
FunctionsOf(src) ==
  LET fs == InAnyOrder(DOMAIN src)
      Itself(f) == [chain |-> TopChain(src, f), params |-> src[f].params, body |-> src[f].body]
  IN Joined([i \in DOMAIN fs |->
       <<Itself(fs[i])>> \o LambdasOf(TopChain(src, fs[i]), src[fs[i]].body)])

transform_captured_variables(src) ==
  LET cap == CapturesOf(src)
      Env(f) == IF f.chain \in cap.needing THEN <<"lambda_args">> ELSE <<>>
      funs == FunctionsOf(src)
      Name(i) == Last(funs[i].chain).name
  IN NowFun([g \in {Name(i) : i \in DOMAIN funs} |->
        LET f == funs[CHOOSE i \in DOMAIN funs : Name(i) = g]
        IN [params |-> f.params \o Env(f),
            body |-> Prologue(cap, f.chain) \o RewrittenBody(cap, f.chain, f.body)]])

(***************************************************************************)
(* Two passes move a part of an expression to statements of their own,     *)
(* before the statement that it occurs in, and number the variables that   *)
(* these set.  What they make of an expression or a body is [left, before, *)
(* c]: what is left of it, the statements before it, the counters.         *)
(***************************************************************************)
Counters == [_and |-> 0, _or |-> 0, table |-> 0]
Unmoved(e, c) == [left |-> e, before |-> <<>>, c |-> c]
Operands(e) == [i \in DOMAIN e[2] |-> i]

\* transform_anonymous_tables: a literal table that is a field of another one, or an
\* argument, becomes a local variable.
SubtableName(e, i) ==
  IF e[4] THEN "__subtable_idk_good_name_prefix_" \o e[3][i] ELSE "idk_key"
RECURSIVE TablesMoved(_, _)
TablesMoved(e, c) ==
  FoldLeft(LAMBDA r, i :
             LET a == e[2][i]
                 is_arg == IsTable(a) /\ e[1] \in {"call", "printh"}
                 moves == is_arg \/ (IsTable(a) /\ IsTable(e))
                 name == IF is_arg THEN "_anonymous_table_" \o ToString(r.c.table) ELSE SubtableName(e, i)
                 inner == TablesMoved(a, IF is_arg THEN [r.c EXCEPT !.table = @ + 1] ELSE r.c)
             IN [left |-> [r.left EXCEPT ![2][i] = IF moves THEN Var(name) ELSE inner.left],
                 before |-> r.before \o inner.before \o (IF moves THEN <<Local(name, inner.left)>> ELSE <<>>),
                 c |-> inner.c],
           Unmoved(e, c), Operands(e))

\* transform_logical_operators: an operation with an operand that is not simple becomes
\* a temporary variable.  Operations around such an operation are left for another
\* round, which numbers its variables from 0 again.  a.py numbers those of all functions
\* together: a source has such operations in one function.
_is_simple_lo_op(e) ==
  \A i \in 1 .. 2 : e[2][i][1] = "var" \/ (e[2][i][1] = "lit" /\ e[2][i][3].tag \in {"NUM", "BOOL"})
IsMoved(e) == IsLogical(e) /\ ~_is_simple_lo_op(e)
Temp(op, i) == (IF op = "_and" THEN "__tmp_and_var_" ELSE "__tmp_or_var_") \o ToString(i)
\* Mutant: the second operand of or is evaluated when the first one is true.
Branches_Same(tmp, e) ==
  << Local(tmp, e[2][1]), If(Var(tmp), <<Set(tmp, e[2][2])>>, <<>>) >>
Branches(tmp, e) ==
  << Local(tmp, e[2][1]),
     If(IF e[1] = "_and" THEN Var(tmp) ELSE Op("_not", <<Var(tmp)>>), <<Set(tmp, e[2][2])>>, <<>>) >>
RECURSIVE HasNested(_), LogicMoved(_, _)
HasNested(e) == \E i \in DOMAIN e[2] : IsMoved(e[2][i]) \/ HasNested(e[2][i])
LogicMoved(e, c) ==
  LET tmp == Temp(e[1], c[e[1]])
  IN IF IsMoved(e) /\ ~HasNested(e)
     THEN [left |-> Var(tmp), before |-> Branches(tmp, e), c |-> [c EXCEPT ![e[1]] = @ + 1]]
     ELSE FoldLeft(LAMBDA r, i : LET inner == LogicMoved(e[2][i], r.c)
                                 IN [left |-> [r.left EXCEPT ![2][i] = inner.left],
                                     before |-> r.before \o inner.before, c |-> inner.c],
                   Unmoved(e, c), Operands(e))

\* A round of one of them through a body
RECURSIVE BodyMoved(_, _, _)
BodyMoved(pass, stmts, c) ==
  LET Inside(m, at) == LET b == BodyMoved(pass, m.left[at], m.c)
                       IN [m EXCEPT !.left[at] = b.left, !.c = b.c]
      Moved(s, n) == IF pass = "tables" THEN TablesMoved(s, n) ELSE LogicMoved(s, n)
      InBlocks(m) == CASE m.left[1] = "if"  -> Inside(Inside(m, 3), 4)
                       [] m.left[1] = "for" -> Inside(m, 5)
                       [] OTHER -> m
  IN FoldLeft(LAMBDA r, s : LET m == InBlocks(Moved(s, r.c))
                            IN [left |-> r.left \o Append(m.before, m.left), before |-> <<>>, c |-> m.c],
              Unmoved(<<>>, c), stmts)
transform_anonymous_tables(body) == BodyMoved("tables", body, Counters).left
RECURSIVE transform_logical_operators(_)
transform_logical_operators(body) ==
  LET round == BodyMoved("logic", body, Counters)
  IN IF round.c = Counters THEN body ELSE transform_logical_operators(round.left)

(***************************************************************************)
(* transform_literal_tables_to_assignments                                 *)
(***************************************************************************)
InBodies(Pass(_), s) ==
  CASE s[1] = "if"  -> [s EXCEPT ![3] = Pass(@), ![4] = Pass(@)]
    [] s[1] = "for" -> [s EXCEPT ![5] = Pass(@)]
    [] OTHER -> s
Fields(t, e) == Now([i \in DOMAIN e[2] |-> SetTab(t, Str(e[3][i]), e[2][i])])
RECURSIVE transform_literal_tables_to_assignments(_)
transform_literal_tables_to_assignments(stmts) ==
  LET Statement(s) ==
        LET e == Last(s[2])
            made == Table(IF e[4] /\ s[1] # "settab" THEN 0 ELSE Len(e[2]))
            anon == "_anon_return_table"
        IN CASE ~IsTable(e) -> <<InBodies(transform_literal_tables_to_assignments, s)>>
             [] IsTable(e) /\ s[1] \in {"local", "set"} ->
                  <<[s EXCEPT ![2][1] = made]>> \o Fields(Var(s[3]), e)
             [] IsTable(e) /\ s[1] = "settab" ->
                  <<[s EXCEPT ![2][3] = made]>> \o Fields(Get(s[2][1], s[2][2]), e)
             [] IsTable(e) /\ s[1] = "return" ->
                  <<Local(anon, made)>> \o Fields(Var(anon), e) \o <<Return(Var(anon))>>
  IN Joined([i \in DOMAIN stmts |-> Statement(stmts[i])])

\* ensure_table_fields: a table that a variable gets has room for the fields that the
\* statements of the same body store in that variable.  The fields of {k = v} are counted
\* twice: their keys are names there, and strings in the statements.
FieldsStored(stmts, x) ==
  LET Stores(s) == s[1] = "settab" /\ s[2][1][1] = "var" /\ s[2][1][3] = x /\ s[2][2][1] = "str"
  IN {stmts[i][2][2][3] : i \in {j \in DOMAIN stmts : Stores(stmts[j])}}
RECURSIVE ensure_table_fields(_)
ensure_table_fields(stmts) ==
  LET Sized(s) ==
        IF s[1] \in {"local", "set"} /\ s[2][1][1] = "table"
        THEN [s EXCEPT ![2] = <<Table(s[2][1][3] + Cardinality(FieldsStored(stmts, s[3])))>>]
        ELSE InBodies(ensure_table_fields, s)
  IN Now([i \in DOMAIN stmts |-> Sized(stmts[i])])

(***************************************************************************)
(* transform_functions_to_vec_args, add_decls, and the C code of a program *)
(***************************************************************************)
RECURSIVE Emitted(_), EmittedAll(_)
Emitted(stmts) == Block(InAnyOrder(LocalsOf(stmts)), EmittedAll(stmts))
EmittedAll(stmts) ==
  LET Statement(s) ==
        CASE s[1] = "local"  -> Set(s[3], s[2][1])
          [] s[1] = "if"     -> If(s[2][1], Emitted(s[3]), Emitted(s[4]))
          [] s[1] = "for"    -> For(s[3], s[2][1], s[4], Emitted(s[5]))
          [] s[1] = "return" -> IF s[2][1][1] = "var" THEN ReturnVar(s[2][1][3]) ELSE s
          [] OTHER -> s
  IN Now([i \in DOMAIN stmts |-> Statement(stmts[i])])

\* The names that are assigned without being a local or a parameter: global variables.
RECURSIVE AssignedIn(_), LocalsIn(_)
Within(stmts) == Joined([i \in DOMAIN stmts |-> Bodies(stmts[i])])
AssignedIn(stmts) ==
  Targets(stmts, "set") \cup UNION {AssignedIn(Within(stmts)[i]) : i \in DOMAIN Within(stmts)}
LocalsIn(stmts) == LocalsOf(stmts) \cup UNION {LocalsIn(Within(stmts)[i]) : i \in DOMAIN Within(stmts)}
\* add_string_decls: every string of the program is a literal.
RECURSIVE StrsOf(_), StrsIn(_)
StrsOf(e) == (IF e[1] = "str" THEN {e[3]} ELSE {}) \cup UNION {StrsOf(e[2][i]) : i \in DOMAIN e[2]}
StrsIn(stmts) ==
  UNION {StrsOf(stmts[i]) : i \in DOMAIN stmts}
  \cup UNION {StrsIn(Within(stmts)[i]) : i \in DOMAIN Within(stmts)}
add_decls(funs) ==
  UNION {AssignedIn(funs[f].body) \ (LocalsIn(funs[f].body) \cup ToSet(funs[f].params)) : f \in DOMAIN funs}

Transformed(src) ==
  LET captured == transform_captured_variables(src)
  IN NowFun([f \in DOMAIN captured |->
        [captured[f] EXCEPT !.body =
           ensure_table_fields(transform_logical_operators(
             transform_literal_tables_to_assignments(transform_anonymous_tables(@))))]])
transform(src, output) ==
  LET funs == Transformed(src)
      body(f) == Emitted(funs[f].body)
  IN [literals |-> InAnyOrder(UNION {StrsIn(funs[f].body) : f \in DOMAIN funs}), globals |-> add_decls(funs),
      output |-> output, grows |-> TRUE, collects |-> TRUE,
      funs |-> ("__preinit" :> Fun(<<>>, <<>>, <<>>))
               @@ [f \in DOMAIN funs |-> Fun(funs[f].params, body(f).decls, body(f).stmts)]]

(***************************************************************************)
(* What a source means in Lua: every local is a cell of its own, a         *)
(* function value keeps the cells that it sees, and the second operand of  *)
(* a logical operator is evaluated only when the first does not decide.    *)
(* m is [cells, globals, tabs, out]; a result is [v, m, done], done after  *)
(* return.                                                                 *)
(***************************************************************************)
Gives(v, m) == [v |-> v, m |-> m, done |-> FALSE]
NewCell(m, v) == [m EXCEPT !.cells = Append(@, v)]
Bound(env, x, m) == (x :> Len(m.cells)) @@ env
Lookup(env, m, x) ==
  CASE x \in DOMAIN env -> m.cells[env[x]]
    [] x \in DOMAIN m.globals \ DOMAIN env -> m.globals[x]
    [] OTHER -> T_NULL
Assigned(env, m, x, v) ==
  IF x \in DOMAIN env THEN [m EXCEPT !.cells[env[x]] = v] ELSE [m EXCEPT !.globals = (x :> v) @@ @]
Printed(m, v) ==
  [m EXCEPT !.out = IF v.tag = "STR" THEN Append(@, v.n) ELSE print_tvalue(m, v).h.out]

RECURSIVE Evaluated(_, _, _, _), Executed(_, _, _, _), Looped(_, _, _, _, _)
Entered(src, f, args, m) ==
  LET start == FoldLeft(LAMBDA r, i : LET n == NewCell(r.m, __get_array_index_capped(args, i))
                                      IN [m |-> n, env |-> Bound(r.env, f.params[i], n)],
                        [m |-> m, env |-> f.env], [i \in DOMAIN f.params |-> i])
      end == Executed(src, f.body, start.env, start.m)
  IN Gives(end.v, end.m)
Evaluated(src, e, env, m) ==
  LET left == Evaluated(src, e[2][1], env, m)
      both == FoldLeft(LAMBDA r, a : LET x == Evaluated(src, a, env, r.m)
                                     IN [vs |-> Append(r.vs, x.v), m |-> x.m],
                       [vs |-> <<>>, m |-> m], e[2])
      a == both.vs
      Function(f) == IF f.tag = "FUN" THEN f
                    ELSE [params |-> src[f.n].params, body |-> src[f.n].body, env |-> <<>>]
  IN CASE e[1] = "lit" -> Gives(e[3], m)
       [] e[1] = "var" -> Gives(Lookup(env, m, e[3]), m)
       [] IsFunction(e) -> Gives([tag |-> "FUN", params |-> e[4], body |-> e[5], env |-> env], m)
       [] e[1] = "_and" -> IF __bool(left.v) THEN Evaluated(src, e[2][2], env, left.m) ELSE left
       [] e[1] = "_or"  -> IF __bool(left.v) THEN left ELSE Evaluated(src, e[2][2], env, left.m)
       [] e[1] = "_not" -> Gives(_not(left.v), left.m)
       [] e[1] = "printh" -> Gives(left.v, Printed(left.m, left.v))
       [] e[1] = "str" -> Gives(Value("STR", e[3]), m)
       [] IsTable(e) ->
            Gives(TTAB(Len(both.m.tabs) + 1),
                  [both.m EXCEPT !.tabs =
                     Append(@, [k \in ToSet(e[3]) |-> a[First(e[3], LAMBDA x : x = k)]])])
       [] e[1] = "get_tabvalue" ->
            LET t == both.m.tabs[a[1].n]
            IN Gives(IF a[2].n \in DOMAIN t THEN t[a[2].n] ELSE T_NULL, both.m)
       [] e[1] = "settab" -> Gives(T_NULL, [both.m EXCEPT !.tabs[a[1].n] = (a[2].n :> a[3]) @@ @])
       [] e[1] = "_add"  -> Gives(Value("NUM", a[1].n + a[2].n), both.m)
       [] e[1] = "_mult" -> Gives(Value("NUM", (a[1].n * a[2].n) \div Unit), both.m)
       [] e[1] = "call"  -> Entered(src, Function(a[1]), Tail(a), both.m)
Executed(src, stmts, env, m) ==
  LET s == Head(stmts)
      r == Evaluated(src, IF s[1] = "settab" THEN s ELSE s[2][1], env, m)
      Then(next_env, next_m) == Executed(src, Tail(stmts), next_env, next_m)
      After(b) == IF b.done THEN b ELSE Then(env, b.m)
      made == NewCell(r.m, r.v)
  IN CASE stmts = <<>> -> Gives(T_NULL, m)
       [] stmts # <<>> /\ s[1] = "local" -> Then(Bound(env, s[3], made), made)
       [] stmts # <<>> /\ s[1] = "set" -> Then(env, Assigned(env, r.m, s[3], r.v))
       [] stmts # <<>> /\ s[1] \in {"do", "settab"} -> Then(env, r.m)
       [] stmts # <<>> /\ s[1] = "if"  -> After(Executed(src, IF __bool(r.v) THEN s[3] ELSE s[4], env, r.m))
       [] stmts # <<>> /\ s[1] = "for" -> After(Looped(src, s, r.v, env, r.m))
       [] stmts # <<>> /\ s[1] = "return" -> [r EXCEPT !.done = TRUE]
Looped(src, s, v, env, m) ==
  LET n == NewCell(m, v)
      b == Executed(src, s[5], Bound(env, s[3], n), n)
  IN CASE v.n > s[4][3].n -> Gives(T_NULL, m)
       [] v.n <= s[4][3].n /\ b.done -> b
       [] OTHER -> Looped(src, s, Value("NUM", v.n + Unit), env, b.m)

\* The lines that a source prints in Lua
LuaOutput(src) ==
  Executed(src, src["__main"].body, <<>>, [cells |-> <<>>, globals |-> <<>>, tabs |-> <<>>, out |-> <<>>]).m.out
Compiled(src) == transform(src, LuaOutput(src))

(***************************************************************************)
(* Properties                                                              *)
(***************************************************************************)

\* Every variable that an emitted function mentions is one of its parameters, is
\* declared by a block around the statement that mentions it, or is global: the C
\* compiler accepts the program.
RECURSIVE VarsOf(_), DeclaredIn(_, _)
VarsOf(e) == (IF e[1] = "var" THEN {e[3]} ELSE {}) \cup UNION {VarsOf(e[2][i]) : i \in DOMAIN e[2]}
DeclaredIn(scope, block) ==
  \A i \in DOMAIN block.stmts :
    LET s == block.stmts[i]
        known == scope \cup ToSet(block.decls)
        inner == IF s[1] = "for" THEN known \cup {s[3]} ELSE known
    IN /\ VarsOf(s) \subseteq known
       /\ s[1] = "set" => s[3] \in known
       /\ \A j \in DOMAIN Bodies(s) : DeclaredIn(inner, Bodies(s)[j])
Declared ==
  \A f \in DOMAIN prog.funs : DeclaredIn(prog.globals, prog.funs[f])
=============================================================================
