------------------------------ MODULE SaxRules ------------------------------
(***************************************************************************)
(* The vocabulary of the rule tables that SaxMachine interprets: each rule *)
(* is one match arm of a parser's loop.  need and lack are the names that  *)
(* the arm's guard requires to be on and off: flags, builders, values that *)
(* wait, open elements (depth_contains), and "stack" for grp_stack.        *)
(***************************************************************************)


\* A start tag: when every name of need and none of lack is active, set the
\* names of set to the new depth and reset those of reset (names or temps).
Open(tag, need, lack, set, reset) ==
  [tag |-> tag, need |-> need, lack |-> lack, set |-> set, reset |-> reset]

\* An end tag: clear names, append builders (moves), store waiting values (takes).
Close(tag, need, lack, clear, moves, takes) ==
  [tag |-> tag, need |-> need, lack |-> lack, clear |-> clear,
   moves |-> moves, takes |-> takes]
Move(what, from, into) == [what |-> what, from |-> from, into |-> into]
Take(temp, slot, into) == [temp |-> temp, slot |-> slot, into |-> into]
Pass(temp, to) == Take(temp, to, "kept")

\* A value: wait in a temporary (Keep replaces, Add appends), be stored, or
\* change the value that waits there (Touch).
Route(tag, need, lack, act, slot, into) ==
  [tag |-> tag, need |-> need, lack |-> lack, act |-> act, slot |-> slot,
   into |-> into]
Keep(tag, need, lack, temp) == Route(tag, need, lack, "keep", temp, {})
Add(tag, need, lack, temp) == Route(tag, need, lack, "add", temp, {})
Touch(tag, need, lack, temp) == Route(tag, need, lack, "touch", temp, {})
Store(tag, need, lack, slot, into) == Route(tag, need, lack, "store", slot, into)
Ignore(tag, need, lack) == Route(tag, need, lack, "ignore", "", {})

=============================================================================
