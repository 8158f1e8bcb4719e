----------------------------- MODULE StrValues -----------------------------
(***************************************************************************)
(* What a Lua program may rely on about strings: they are values.  A       *)
(* variable keeps its string until it is assigned, whatever other strings  *)
(* are made, dropped or collected; so does an operand that waits for the   *)
(* rest of its expression.  StrArena implements this with shared, counted  *)
(* and reused slots.                                                       *)
(***************************************************************************)
EXTENDS Integers, Sequences

CONSTANTS
  Vars,    \* the variables of the program
  Texts,   \* the strings there can be
  Null     \* nil

VARIABLES
  value,    \* the string of each variable, or nil
  operands  \* the strings evaluated so far of the expression being evaluated

vars == <<value, operands>>

Init ==
  /\ value = [v \in Vars |-> Null]
  /\ operands = <<>>

\* The next operand: a literal, a variable, or the result of a function
Operand(x) ==
  /\ operands' = Append(operands, x)
  /\ UNCHANGED value

\* An operator or function replaces its n operands by its result.
Apply(n, x) ==
  /\ n <= Len(operands)
  /\ operands' = Append(SubSeq(operands, 1, Len(operands) - n), x)
  /\ UNCHANGED value

\* The expression is complete and its value not used any more.
Done ==
  /\ operands' = <<>>
  /\ UNCHANGED value

\* A variable is assigned an operand, or goes out of scope.
Assign(v, x) ==
  /\ value' = [value EXCEPT ![v] = x]
  /\ UNCHANGED operands

Next ==
  \/ Done
  \/ \E x \in Texts : Operand(x) \/ Apply(1, x) \/ Apply(2, x)
  \/ \E v \in Vars :
       \/ Operand(value[v]) /\ value[v] # Null
       \/ Assign(v, Null)
       \/ \E i \in DOMAIN operands : Assign(v, operands[i])

Spec == Init /\ [][Next]_vars
=============================================================================
