# TLA+ models of lua-but-worse

The repository compiles Lua (the dialect of PICO-8) to C and links it with a small
runtime: `lua.c` (values, tables, strings, functions, reference counts), `lua_table.c`
and `lua_math.c` (the PICO-8 library) and `fix32.c` (fixed-point numbers). The runtime
is hard to test: manual memory management with 8-bit reference counts and deferred
release, arenas whose slots are used again, indices that are kept while arenas grow, and
numbers split into two halves. The compiler `a.py` rewrites programs so that variables
that outlive a call, literal tables and operators that decide early become calls of that
runtime. This directory models both, checks the models with TLC and proves the main
results with TLAPS.

There are two views of the runtime. `RefHeap`, `TableStore`, `StrArena`, `Closures`,
`TableLib` and `Numbers` take one part each, with any program over a few slots, every
recursive call a step, and proofs. `Runtime` and `Machine` have all parts together, for
given programs: those of the repository's tests, and those that `Compiler` makes.

    tlc -workers 2 -config RefHeap.cfg RefHeapProofs     # a run: see the table below
    tlapm RefHeapProofs.tla                              # the proofs of a module

`PROJECT.json` lists components, runs, mutants, the source lines of every definition,
findings, hazards and theorems.

## The system

| Part | State | Operations | Hard behaviour | What makes it correct |
|---|---|---|---|---|
| Table heap (`lua.c` 475-846, 679-771) | `_tables` (refcount, metatable link, used, bitmap), `_gc_to_visit`, the program's variables | `make_table`, `_set`, `_incref`, `_decref`, `__decref` at the end of a scope, `_tab_decref`, `set_tabvalue`, `setmetatable`, `add`, `del`, `_mark_for_gc`, `run_gc` | recursion of the release through a graph of tables while the caller is half done; values without an owner during an expression; cycles | counts are exact, nothing that can be read is free, what is free is blank, nothing is lost, every release ends |
| Table storage (169-310, 466-522, 754-771) | arena with length, used, bitmap; per slot an array of pairs with `kvp.len` and `count` | growth of the arena, of an array; store, search, delete, blank, reuse | two records of what is free; an array that outlives its table and changes length; holes | loops stay inside arrays, a key occurs once, `count` is exact, tables are maps |
| Strings (576-629, 666-677, 848-901, 1048-1063) | `_strings`, counts | `make_str`, `_store_str`, `_concat`, `sub`, `_set`, `run_gc` | slots shared by equal strings and taken again; operands without a reference | strings are values |
| Functions (66-88, 631-664, `a.py` 936-963) | `_funcs`, `lambda_args` tables | `make_fun`, `__call` with an environment | environment referred to by an uncounted index; growth at index 0 | closures have their captured variables to themselves |
| Numbers (`fix32.c`, operators of `lua.c`, `lua_math.c`) | none (two halves per number) | arithmetic, comparison, root, power, cosine, text | carries between halves, wrap-around, order of rounding | results are those of the number the halves stand for |
| Lookup, library and loops (255-287, 534-574, `lua_table.c`) | metatable links, `__index`, a loop in progress | lookup along `__index`, `add`, `del`, `foreach`, `all`, `pairs`, `ipairs`, `t[k] += v` | bodies of loops that change the table; inherited elements | each pair that stays is visited once; `add`/`del` keep the order; writes stay in the object |
| Compiled programs (`test_cases/**`) | C variables of every frame and block, with or without cleanup; globals | statements, calls, loops with bodies, return, end of a block | values between two calls of the runtime; what leaves a function | a program prints what its source would; nothing is left behind |
| Compiler (`a.py`) | a syntax tree, counters of temporaries | passes that rewrite captured variables, nested functions, literal tables, logical operators, declarations | a variable shared by several functions; the order of effects; names made up by passes | compiled programs mean what their source means in Lua |
| Parser submodule, C++ runtime | | | | not modelled |

The parts meet in `TValue_t`: a tag and an index into one of the arenas. Generated code
holds such values in C variables with a cleanup attribute (`gc`), passes them in slices
of arguments, and calls the runtime; the runtime calls back for metamethods and
`foreach`. The host calls `run_gc` between two frames. Everything runs in one thread: the
interleavings that matter are those of recursion, of callbacks, and of the order in which
a program issues operations.

## Modules

| Module | Models | Kind |
|---|---|---|
| `Objects` | what a program may rely on about the tables it makes | abstract specification |
| `RefHeap` | reference counts of tables, scopes, deferred release | state machine, one action per operation or recursive call, that implements `Objects` |
| `RefHeapProofs` | theorems about `RefHeap` | proofs |
| `TableMap` | what a program may rely on: a map per table | abstract specification |
| `TableStore` | arena, bitmap, arrays of pairs | state machine that implements `TableMap` |
| `TableStoreProofs` | theorems about `TableStore` | proofs |
| `StrValues` | strings are values | abstract specification |
| `StrArena` | the string arena | state machine that implements `StrValues` |
| `StrArenaProofs` | theorems about `StrArena` | proofs |
| `FunValues` | closures are code with captured variables of their own | abstract specification |
| `Closures` | the arena of functions and the life of environments | state machine that implements `FunValues` |
| `ClosuresProofs` | theorems about `Closures` | proofs |
| `TableLib` | lookup through `__index`, the array functions, loops with bodies | state machine |
| `TableLibProofs` | theorems about `TableLib` | proofs |
| `Fix32` | the functions of `fix32.c`, for halves of any width | operators |
| `Numbers` | variables that are assigned results of those functions | state machine |
| `NumbersProofs` | types, order and signs of numbers | proofs |
| `NumberFunctionProofs` | power, remainder, text, root and cosine of numbers | proofs |
| `InductionLemmas` | induction and recursive functions, for the proofs about `TableLib` and `Fix32` | proofs |
| `Runtime` | the whole runtime on one heap: values, tables, metamethods, strings, functions, library | operators |
| `Machine` | a compiled program running on `Runtime`, and the host | state machine |
| `Programs` | 49 programs of `test_cases` as C code, with what they print | instance of `Machine` |
| `Compiler` | the passes of `a.py`, and the meaning of a source in Lua | operators, over `Machine` |
| `Sources` | 529 Lua sources: 8 of `test_cases`, and families of small ones; all programs together | instance of `Compiler`, with `Programs` |

### RefHeap and Objects

`mem` holds the content of every place with a reference: variables (`Vars`, of which
`Locals` belong to a function that can be called), fields and metatable links of tables.
`rc`, `free`, `used` and `gc` are the refcounts, the bitmap, `_tables.used` and
`_gc_to_visit`. The C stack is split in two: `work` holds the pending calls of
`_tab_decref`, and `cont` what is left of the function that caused them (`set_tabvalue`,
`del`, `run_gc`, the end of a scope), so that every recursive call is a step. `acc` is
the value of the expression evaluated last, which owns no reference. `gc` is the array as it
is allocated, with entries whose tag is `NUL` (`Null`): `add_to_gc` writes over the first of
them and doubles the array if there is none, from `GcFirst` entries on (128 in the code), and
the loop of `run_gc` (`GcStep`) goes on from `cont.at` until an entry is `NUL`, which is where
it would leave entries behind if there were a hole. A failed assertion
ends the program with a `status`. The order in which `_tab_decref` visits fields is left
open; `del` is its loop, step by step. Keys are value types (`lua.c:748` says that keys
are not counted).

`CarefulSpec` is the behaviour of programs that keep alive what they store over an old
value, what `del` returns, and what a function returns from a field. Everything is proved
and checked for those programs. `AnySetSpec` drops the first condition; its run shows that
the code then stores a freed table, against what a comment of the code says (see findings
below). The other two conditions are needed as well: the loop of `del` releases the value
it is going to return (`lua_table.c:74`), and compiled code marks variables that are
returned for the collector, not fields (`return t.x`).

`Objects` has no memory management: a table exists or does not, assignments, the shift of
`del` and the end of a scope are single steps, and a table to which nothing refers may
disappear (`Collect`). The refinement mapping shows each place as it will be when the
operation in progress is done (`Shown`): the field that `set_tabvalue` has emptied already
has its new value, the elements that the loop of `del` has still to move are moved, the
locals of a function that is being left are gone, and a table whose count is zero has no
content, however far its release has come. `Result` is the value the operation will
leave. Every recursive call, sweep and deferred release is then a stutter, except the
decrement that makes a count zero, which is `Collect`. `ImplementsObjects` is therefore
what reference counting is for: no sequence of operations, of whatever interleaving with
releases, changes a value that a program still can read. It fails for `AnySetSpec`.

### TableStore and TableMap

`tabs[t]` has the allocated cells (`kvs`), `kvp.len` and `count`; the allocated array may
be longer than `len`, because `make_table` keeps the array of the slot's previous table
and gives it the length it was asked for. `set_tabvalue` is split as in the code: replace,
insert into the first hole, enlarge. `release` is what `_tab_decref` does to a slot when
its count is zero; `RefHeap` says when that is, here it may happen at any time.
Lengths are modulo `LenMod` (65536). `Odd` are keys `equal` never finds equal, booleans
and functions: they are stored again with every assignment. The refinement mapping
`Map` leaves them out; the other properties show that they disturb no other key.

### StrArena and StrValues

Slots have a text, empty exactly if its length is zero, and a count. `temps` are the
operands of the expression being evaluated: they own no reference. `Init` is what
`__preinit` of the generated code leaves: an arena of exactly the literals' size, each
with two references that are never given up. `CarefulSpec` are programs that do not make
another string while an operand sits in a slot that is not counted, and do not give up
the last reference to an operand's string.

### Closures and FunValues

A call of a function that captures variables creates `lambda_args` (`Enter`), a counted
local; `__call` hands the table of a closure to the callee, which counts it for the time
of the call; `Leave` and `run_gc` release. The captured variable is a counter.
`CarefulSpec` are programs that give up a closure before the last counted reference to its
environment goes (the index in `_funcs` is not counted), and that do not hold function 0
when the arena of functions grows (`make_fun` stores the new function there).

### TableLib

Tables exist from the start and have a sequence of cells. `get_tabvalue` follows the chain
of `__index` tables and stops at a table that is its own `__index`; programs make no other
cycle of classes, on which the code never returns (`Ends`). `Stored`, `Removed` and
`Shifted` are what `set_tabvalue`, `del_tabvalue` and the loop of `del` do to the cells of
a table. `del` compares only the first element with the value and shifts from the second
one whether it was equal or not: what becomes of the table is the same for every value. `ArrayOrder`
says of `del` that it takes at most one element out, the first one if that has the value, and
keeps the others in order; which one goes otherwise it leaves open (see findings). `foreach` walks
through the cells themselves; `all`, `pairs` and `ipairs` make a copy first. Between two
iterations the body may do any operation, on the same table too. `due`, `done` and `twice`
are auxiliary.

### Fix32 and Numbers

`Fix32` translates `fix32.c` function by function, on two halves of `HalfBits` bits (16),
with the casts of C; signed overflow wraps (the build has no optimisation). `Numbers` has
two variables, one assigned any of the operators' results, so that the invariants are
evaluated on all numbers that programs can compute. The coefficients of the cosine are
scaled to the width.

### Runtime and Machine

`Runtime` has each function of `lua.c` and `lua_table.c` as a function on a heap `h`:
`tabs` (array of pairs, count, metatable, record of metamethods, refcount, free), `used`,
`strs`, `funs`, `gc` (`_gc_to_visit`) and `out`, the lines printed. A failed assertion sets
`h.ok` to FALSE, and so does a step that C leaves undefined: `BAD` is the value of memory
never written (a member of the record of metamethods after `malloc`, the result of a
function without `return`), and whatever counts, calls or compares it aborts.

`Machine` runs a program given by `Corpus`: functions of blocks of statements over nested
calls of the runtime. `prog` is that program, `heap` the heap, `globals` the global
variables, `stack` the C stack: frames of blocks, each with its variables, the list of
those with a cleanup attribute, and what is left to do. A step is one call of the runtime
(`evaluate`: the leftmost innermost call whose arguments are known), one statement (`set`,
`settab`, `if`, `while`, ...), one iteration of a loop over copied values (`items`) or over
the cells themselves (`cells`, `foreach`), a call, a return, or the end of a block with the
releases of its cleanup attributes in reverse order. A call of a closure appends the
environment behind the arguments it is given, as `__call` does. The host runs `__preinit`,
the program and `run_gc`; besides, `collect` calls `run_gc` between any two statements at
which no expression holds a table or a string, unless the program counts slots itself.

`Programs` translates the compiled programs one by one, with the lines the Lua source
prints. Numbers are in units of 1/16, the precision these programs need.

### Compiler and Sources

A source is a set of functions with parameters and statements, in the notation of
`Machine` with nested functions, literal tables and `local`. Each pass is a function:
`transform_captured_variables` (with `Noted` as its loop over the names of the source, one
decision after the other: who gets the parameter `lambda_args`, which names become fields,
which scope makes the table, which parameters are copied into it), the anonymous functions,
`transform_anonymous_tables`, `transform_literal_tables_to_assignments`,
`ensure_table_fields`, `transform_logical_operators` (rounds from the innermost operation
outwards, each of which numbers its temporaries from 0), and the declarations. `Transformed`
is their order in `a.py`. `LuaOutput` is the reference: an evaluator of sources in which
each local is a cell of its own and the operators decide as in Lua. `Init` chooses a
source, compiles it, and `Machine` runs the result.

The families of `Sources` are products: chains of two to four operands of `and` and `or`
with values and calls; a variable captured by two functions, by a function inside another
one, as a parameter, or in a loop, read and changed on either side in any order; literal
tables in every position a pass treats differently.

## Runs

| Run | Spec | What it asks | Bounds |
|---|---|---|---|
| `heap` | `FairSpec` of `RefHeap` | exact counts at every step, nothing dangling, `used`, dense `_gc_to_visit` that `run_gc` leaves empty, what is not free is referred to, assertions hold, a release changes garbage only, programs see the tables of `Objects`; every operation ends (`Settles`), a table without references is reclaimed (`ZeroIsReclaimed`) | 2 tables with 2 fields and a metatable, a global and a local, refcount limit 2, an array of 2 deferred entries |
| `heap_overwrite` | `AnySetSpec` | violated: see findings | the same, refcount limit 3 |
| `table_store` | `Spec` of `TableStore` | arrays stay in bounds, free slots blank, keys unique, `count` exact, a slot is found, tables are maps | keys 1, 2 and a boolean, 2 values, constructor sizes 0 to 2, arena 1, 2, then overflow at 4, tables of up to 2 pairs |
| `strings` | `CarefulSpec` of `StrArena` | exact counts, freed strings empty, strings are values | 2 literals, 2 variables, 3 texts with "", arena 2 then 4, 2 operands, 2 deferred entries |
| `strings_grow` | the same | violated: see findings | 1 literal |
| `closures` | `CarefulSpec` of `Closures` | functions unique, environments counted exactly, closures are values | 2 variables, 1 closure, 1 plain function, 2 environments, arena 1, 2, 4, calls 3 deep |
| `closures_env` | `Spec` of `Closures` | violated: see findings | the same |
| `table_lib` | `Spec` of `TableLib` | loops exact, order of the array through `add` and `del`, compound assignments stay in the object | 1 object, 1 class, 3 keys of which the first can be inherited, 2 values, arrays of 2 and 4 cells |
| `numbers` | `Spec` of `Numbers` | types, order, sign, remainder, root, power, text, waves | halves of 6 bits, 2 decimal digits; all 4096 numbers against 20 operands |
| `numbers_mod` | the same | violated: see findings | the same |
| `programs` | `Spec` of `Machine`, over `AllPrograms` of `Sources` | compiled programs print what their source means and no assertion fails, those of the tests with `run_gc` between any statements; every variable is declared where it is used; counts exact in every state; nothing left at the end but what globals hold; every program ends | 49 programs of `test_cases` and 529 compiled sources, an arena of tables that starts with 1, 8 functions, 16 strings beyond the literals, refcount limit 250 |
| `compiler_nested` | the same, over `NestedOnTheRight` | violated: see findings | 32 sources |

Why these are enough to be of interest:

* Two tables give every shape that a release tells apart: self-reference, a cycle, a
  shared child, a child only the metatable refers to, the slot freed and handed out again
  in the same operation. The proofs cover all sizes.
* Two deferred entries are enough for a hole in front of an entry, and for `run_gc` to stop at it.
  That an array with entries is doubled is beyond the run (with `GcFirst` 1 it takes too long);
  `GcAlwaysDense` and `GcAlwaysEmptied` prove it for arrays of every length.
* Arrays of two and four cells have room for holes before, between and behind keys, for
  growth during a loop, and for an array used again with a shorter and a longer length.
* An arena that doubles twice fills up, is compared with `used` and wraps to length 0.
* Halves of six bits are the least at which 16 and 5, constants of the cosine and of the
  powers that are checked, are numbers inside the range; the operands are the boundaries of
  both halves, both signs, and their neighbours.
* `FirstTables = 1` makes the arena of tables of every program grow several times, in the
  middle of expressions; `Programs` covers every statement and every function of the runtime that
  `test_cases` reaches, and `Sources` combines what the tests have one at a time.

The bounds that only keep the state space finite are `GcBound`, `TempBound`, `MaxDepth`,
`MaxCount`, `MaxIndex`, `NumVals`, and `MaxLen`, `MaxCells` of the arenas and arrays. They
are guards: the operation is not taken beyond them. `RcLimit`, `RcMod`, `LenMod`, `InitLen`,
`FirstLen`, `FirstTables`, `FirstStrs`, `FirstFuns` and the widths of numbers are the code's constants, made small.

Deadlock is checked in all runs. A program whose assertion failed stutters (`Stopped`).

Fairness is stated twice. `FairSpec` of `RefHeap` has `WF_vars(Step)`, where `Step` is the
rest of an operation that has started. `Spec` of `Machine` has `Fairness`, which says that a
running program goes on: steps of the program, and only those, change the stack, and one is
always possible while it runs, so that this is weak fairness of the step, written without
`ENABLED` (which would evaluate every action twice). The runtime and its programs are
sequential C code without waiting: what they started they execute. Nothing is assumed about
`collect`, or about when a program over `RefHeap` starts another operation.

Every property of a passing run has a mutant of the code, a changed definition that
stands beside the original, under which TLC finds the property violated.

## Findings

Each one is a run in which TLC violates what the repository says of itself.

1. `heap_overwrite` (`lua.c:231`): `set_tabvalue` releases the old value before it counts
   the new one. `_set` does it the other way round, and its comment says why. In
   `t.a = t.a.b` the value stored is a freed table.
2. `strings_grow` (`lua.c:623`): `_store_str` uses index `old_len + 1` after growing: with
   one literal it writes behind the arena, otherwise it skips a slot.
3. `closures_env` (`lua.c:632`): the environment of a closure that is returned is freed by
   the next `run_gc`, although `closure/4.lua` expects the closure to go on counting.
4. `compiler_nested` (`a.py:481`): an operation inside the right operand of another one is
   moved before the test of the left operand. In `false and (true and f())`, `f` is called,
   although the comment of the pass (`a.py:494-495`) and the test (`basic/logical/in.lua:13-15`)
   say that the right operand is evaluated only when the left one does not decide.
5. `numbers_mod` (`fix32.c:165`): the comment of `fix32_mod` (`fix32.c:162`) says that it is
   `a - math.floor(a/b)*b`. The code takes the floor of a quotient that is already truncated: where
   the truncation reaches an integer from below, the result is `b` too low. On halves of 6 bits
   (-32) % (32 - 1/64) is -1/64 instead of 32 - 1/32; in the code -32768 % 32767.99 is about -0.01,
   where the comment's remainder is close to `b`. What does hold
   of every remainder is `ModIsRemainder`.

What was met on the way and is described, without a run of its own: `del` always removes the first
element, whatever the value (`lua_table.c:66-75`). No run asserts which one it should be, since the
tests do not agree: `internals/gc/4.lua:10-14` expects five `del(tab, 1)` to remove five tables, none
of which equals 1, and the comments of `pico8/add_del/in.lua:14-19` fit the first element or the
element at the index, not the value; `in.lua:26` fits the first element or the value. A negative power is
stopped by the assertion even if it fits, as (-2)^3 is (`fix32.c:12`, `PowIsExact`); `setmetatable` leaks the metatable
it overwrites (`leaked` in `RefHeap`); `fix32_sqrt` is too low from 16384 on (its
remainder leaves 32 bits, precondition of `SqrtIsExact`); numbers below -10000 may need one character
more than `MAX_STR_LEN_FIX32`; `rnd()` without argument always returns 0; `shr` does not
keep the sign; `ipairs` on a table that inherits more elements than it has pairs writes
behind its array; a cycle of two classes makes the lookup endless; the loop of `del` releases
the value it returns (`lua_table.c:74`); `sub` refuses a substring of one character
(`end > start`); a test of `while` or `elseif` with a logical operation that has effects is
evaluated once, before the statement; `test_cases/internals/strings` does not pass with the
code as it is (`in.lua:24` expects 3 strings, there are 5).

## What is proved

All theorems hold for every value of the constants that the named assumptions allow.

**RefHeapProofs** (assumptions `SizeAssumption`, `VarsAssumption`, `ValuesAssumption`): for
`CarefulSpec`, with any number of tables, keys and variables, `TypeOK`, `GcDense`, `GcLeavesNothing`, `RefcountExact`, `NoDangling`,
`UsedExact`, `OwnedWhenQuiet`, `OnlyLimitAborts`, the parts `FreeIsBlank` and `NoLostTable` of the
inductive invariant, and the action property
`SweepTouchesOnlyGarbage`. `GcDense` lets `run_gc` leave holes behind it while it works; that
they are all holes, so that the array is empty up to where it stops and dense again, is `GcEmptied`,
which is inductive with it (`GcArray`). Exact counts are not inductive alone. `HeapInv` adds what an
interrupted operation relies on: the tables being swept are distinct, not free and have
count zero (`SweepOk`); what `cont` will use when the recursion is done is alive (`ContOk`,
which is where the care of programs comes in); an expression's value is alive (`AccOk`).
The proof describes every action by its effect on the multiset of references to one table:
a step that moves a reference (from a field to `work`, say) leaves the count, one that
adds or removes it changes `rc` by one; cardinalities of the three sets of references are
followed by lemmas on adding and removing one element. The other properties follow from
exact counts: a place that holds a free table would be a reference to a table whose count
is zero. `OperationsProgress` is the part of termination that is no matter of fairness: `Effort`, three for
each place that holds something, two for each pending call, one for each table being
swept, and what the interrupted function has still to do, is a natural number that every
step of an operation makes smaller (unless the assertion on the limit ends the program),
and nothing else can happen in between. With the fairness of `FairSpec` this is `Settles`; TLC
checks that a step is always possible (no deadlock) and the liveness itself. When an operation
has ended, `GarbageIsGivenBack`: what is not free is referred to from somewhere in use, so cycles
are the only garbage that stays, besides the references `setmetatable` loses.

`HeapImplementsObjects` proves the refinement of `Objects`, step by step. It needs one more
inductive invariant, `ShiftOk`, about a `del` in progress: it compares with a value that is
not nil, has found nothing before its first iteration, and the element it moved last is
not empty, so that the elements still to move are those behind it without a hole. The
steps of the recursion are taken together (`GarbageOnly`): they empty fields of tables
with count zero and change nothing else, so that what is shown can change only for a table
that reaches zero. That nothing shown refers to that table (`Unseen`) is where exact counts
and the care of programs are used. The steps of `del` are followed by the set of elements on
the move: one iteration takes away exactly the element that it stores (`ScanMoving`).

**TableStoreProofs** (`StoreAssumption`): `StoreInv` is typing, `SlotOK` of every slot (length within the allocated
cells, cells behind the length blank, keys other than `Odd` unique, `count` the number of pairs), blankness of free slots,
and `used` against the bitmap. From it `InBounds`,
`FreeIsEmpty`, `KeysUnique`, `CountExact`, `IpairsFits`, `SlotIsFound`, and the refinement
`ImplementsMap`: every step maps to a step of `TableMap` or a stutter, because a first match
is the only match. That a recycled array is blank behind the new length is what makes
`make_table` map to a new, empty table.

**NumbersProofs** (`Fix32Assumption`, `NumbersAssumption`): `NumTypeOK` is inductive, every
function cuts its result to the halves; `OrderIsExact`, because multiplication by `2^HalfBits` is monotone
and the fraction is smaller than it; `SignIsExact`, by cases on the fraction and on the
lowest number, which has no opposite. `Power` is a recursive function; that it is positive,
and what it is at a sum, is proved by induction.

**NumberFunctionProofs** (the same assumptions): the functions of `fix32.c` with a loop or a
division, for halves of every even width above 5 and every number of decimal digits that
tells fractions apart.
`PowIsExact`: after `n` rounds the result of `uint_pow` is the power of the base to the lowest
`n` bits of the exponent, modulo the width; `EveryPowAlwaysExact` is the same for every
exponent, which the run bounds to keep the powers in the integers of TLC. A power that fits in a
half is in its lower part exactly if it is not negative, which is what the assertion tests: negative
powers that fit are stopped, the others are exact.
`ModIsRemainder`: `CDiv` truncates, the floor of its quotient is the floor of the division
except where the truncation reached an integer from below (`Rounded`), and multiplication and
subtraction of words that wrap are those of their values modulo the width. What is left is
between 0 and `b`, or, where the quotient was rounded twice, `b` lower and then less than a digit
of the quotient from 0. `ModAlwaysFlooredOrLower` says exactly which numbers those are, and
so where `ModIsFloored` fails.
`PrintReadsBack`: the digits of the fraction are above the fraction minus one unit, and
dropping zeros and padding leaves the number that the digits stand for; the loop that
strips zeros ends because a fraction other than zero has a digit.
`SqrtIsExact`: the invariant of the loop (`RootSoFar`) is `q*q + K*r = Word*v` with
`r < 2*q + K`, where `K` is the bit to come next: the remainder stays below 32 bits as long as `v` is in the first
quarter of the words, which is what the property assumes.
`WaveIsSound`: a reduced angle (`Phase`) and its reflection, the range and the sign of the
parabola (`Swing`), and the same for its correction.

**TableLibProofs** (`LibAssumption`, for any tables, classes, keys, values and lengths): `LibInv`
is `LibTypeOK`, unique keys in every table, and `LoopInv`: of a `foreach` in progress, what is due
sits at the index it has reached or behind it and what is done sits before it (`Walking`);
of a loop over a copy, what is due is in the rest of the copy, what is done is not, and the
rest has nothing twice (`Copying`). `LoopsExact` follows from it. What makes it inductive
is that `Stored` and `Removed` leave the cells of every other key where they are, and that the
cells of an array keep their places when `del` shifts the values. `ArrayOrder` follows from what
`Shifted` leaves at each index (an induction over its loop), `WritesStayBelow` from the
chain of `__index` tables of the table that is read: it meets the object or it does not.
`LookupAlwaysRecursive` proves `Ends` for the steps programs may take, and that
`get_tabvalue`, which the model defines by the first hit along the chain, satisfies the
recursive equation that the code computes.

**InductionLemmas**: the library's induction theorems take an operator as a parameter, which the
provers here cannot instantiate. `NatInd` has a set in its place (a set of naturals
with 0 and with every successor of its elements contains all), proved from the least
element; `RecursionOnNat` shows that a recursive definition of a function on the natural numbers
satisfies its equation. With these two, recursive functions (not `RECURSIVE` operators)
can be reasoned about.

**ClosuresProofs** (`ClosuresAssumption`, `FunAssumption`): `ClosInv` is typing
(`ClosTypeOK`), `FunsUnique`, `EnvCountExact` and `VarsHeld` (a variable holds a slot in use).
It is inductive for all programs of `Spec`: slots of the arena fill from the start and are
never cleared, so the scan of `make_fun` meets an equal function before the first free slot;
the references to an environment are the calls that have it and one entry of
`_gc_to_visit`, counted as places in the sequence of calls. For `CarefulSpec`, `EnvAlive` is
inductive with it. The refinement `ImplementsClosures` maps a variable to the function in its
slot, and a counter to the environment's count while a call or a variable reaches it: the
proof shows for each action that careful steps change no function a variable holds and no
reached environment other than the callee's.

**StrArenaProofs** (`StrAssumption`): `StrInv` is `StrTypeOK`, `StrRefcountExact` and
`FreedIsEmpty`, inductive for all programs of `Spec` and any width and limit of a count.
References to a slot are counted by `At` (variables) and `Uses` (entries of a sequence). Growth
adds slots that nothing refers to; a decrement takes away one reference of at least as many
as the count says, so it does not wrap. For `CarefulSpec` the refinement
`ImplementsValues` is proved: each step leaves the text of every slot that a variable or an
operand refers to as it was, or maps to the step of `StrValues` with the same name.

**Only model-checked**: termination and reclamation (`Settles`, `ZeroIsReclaimed`,
`Terminates`), since liveness under fairness is outside what `tlapm` proves (for `Settles`, see
`OperationsProgress`); and everything
about `Machine` and `Compiler`, because these modules and `Runtime` declare `RECURSIVE` operators
(evaluation of nested expressions, the recursive release, the passes over syntax trees),
with which the provers lose arithmetic. All other properties of the passing runs are
theorems.

## What is not modelled, and why

* Characters of strings in `StrArena`, formatting and debugging aids: no property is about
  them. `Runtime` has strings as text and prints lines.
* Functions as `__index`: they call code that may do anything any program step may do; left
  for later. Metamethods other than `__index`, `__add` and `__sub` are declared by the code and
  never called. Values of metamethods are not counted in the code.
* Closures called with another number of arguments than declared: `__call` appends the
  environment behind the arguments given, so that they find the wrong one. `Machine` does what
  `__call` does; no program of the corpus makes such a call.
* `_foreach` across growth of the arena: the code keeps a pointer that moves; undefined.
* Tables with more than 32767 pairs, and table indices above 8191 in `_gc_to_visit`.
* `atan2` and conversions to float (the C library's floating point), `rnd`.
* Of the tests, `pico8/math` and `compound/method_iassign` (floating point),
  `internals/strings` (it does not pass) and `test_fix32.c` (its operations are in `Fix32`).
* Of the compiler: methods and functions declared by a dotted name, indexed assignments with
  several targets, `rename_stdlib_calls`, `move_to_preinit`, the names of string constants, the
  numbers of temporaries across functions, and the emitted text. Sources that the passes
  are known to turn into another program are not in the corpus, which asks whether the
  others are right: a captured parameter mentioned twice in the capturing function,
  `local y = x` in a closure over `x`, captured locals of the body of a loop or a branch, a local
  declared twice, a variable captured through an intermediate function that does not use it, a loop
  variable captured before a variable outside the loop, nested tables with plain keys (the
  temporaries share the name `idk_key`).
* The parser and C emitter are in a submodule that is not part of the tree; the C++ runtime
  is an earlier version that the tests do not use.

## Plan

Done, in this order: `RefHeap` with proofs; `TableStore` with refinement and proofs; `StrArena`;
`Fix32`/`Numbers` with proofs; `Closures`; `TableLib`; liveness of `RefHeap`; `Runtime`,
`Machine` and `Programs`; `Compiler` and `Sources`; `ClosuresProofs`; `StrArenaProofs`;
`TableLibProofs`; `NumberFunctionProofs`; `Objects` and the refinement of `RefHeap`.

Next, most important first:

1. A composition of `RefHeap` and `TableStore` over one arena: growth while a release is
   interrupted, pointers kept across growth (`_foreach`, `set_tabvalue`), 13-bit entries of
   `_gc_to_visit`. `Machine` has both for given programs; there a release is one step.
2. Exact counts of `Runtime`: `CountsExact` for every program, which needs the release of
   `Runtime` as a function, without `RECURSIVE`.
3. `__index` functions in `Runtime`.
4. The remaining passes of `a.py`: methods, dotted functions, indexed assignments.
