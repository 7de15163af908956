------------------------------- MODULE MCBudgets -------------------------------
(***************************************************************************)
(* Small instances of Budgets for TLC. Amounts are kept to two decimals, so *)
(* that truncation, padding and the range check all happen.                 *)
(***************************************************************************)
EXTENDS Budgets

TwoGrants == {[ns |-> "w1", name |-> "a"], [ns |-> "w2", name |-> "b"]}
SameName == {[ns |-> "w1", name |-> "a"], [ns |-> "w2", name |-> "a"]}
OneGrant == {[ns |-> "w1", name |-> "a"]}

Inherits == [token |-> 0, cost |-> Blank, window |-> ""]
\* $1.059: one digit too many, and a zero to keep.
PinsBoth == [token |-> 4, cost |-> [whole |-> <<1>>, frac |-> <<0, 5, 9>>], window |-> "hour"]
\* $6.0: out of range once scaled.
PinsTooMuch == [token |-> 0, cost |-> [whole |-> <<6>>, frac |-> <<0>>], window |-> "day"]
\* $0.001: less than the smallest unit.
PinsTooLittle == [token |-> 0, cost |-> [whole |-> <<0>>, frac |-> <<0, 0, 1>>], window |-> "day"]

MCGrantSpecs == {Inherits, PinsBoth, PinsTooMuch}
TinyGrant == {PinsTooLittle}

Defaults == [defaultToken |-> 3, maxToken |-> 0, maxCost |-> Blank, failureMode |-> "",
             defaultCost |-> [whole |-> <<1>>, frac |-> <<5>>]]
Capped == [defaultToken |-> 0, maxToken |-> 2, maxCost |-> [whole |-> <<0>>, frac |-> <<7, 0>>],
           failureMode |-> "FailOpen", defaultCost |-> Blank]
\* $9.9 as the maximum: it cannot be read.
CappedToNothing == [Defaults EXCEPT !.maxCost = [whole |-> <<9>>, frac |-> <<9>>]]

MCCatalogSpecs == {Defaults, Capped, CappedToNothing}
================================================================================
