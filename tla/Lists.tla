------------------------------- MODULE Lists -------------------------------
(***************************************************************************)
(* Lists that a loop builds from another one: the elements that pass a     *)
(* test, or all of them in a new order, both by the positions they are     *)
(* taken from.                                                             *)
(***************************************************************************)
EXTENDS Integers, FiniteSets

\* The k-th of some positions, and what a list holds at them: a loop that appends what
\* passes its test.
Kth(positions, k) == CHOOSE i \in positions : Cardinality({j \in positions : j <= i}) = k

At(list, positions) == [k \in 1..Cardinality(positions) |-> list[Kth(positions, k)]]
=============================================================================
