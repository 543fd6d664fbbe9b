----------------------------- MODULE MCDividends -----------------------------
(***************************************************************************)
(* An instance of Dividends for TLC: months of four days, today is day 5   *)
(* of month 1, windows may reach from month 0 to month 2.                  *)
(***************************************************************************)
EXTENDS Dividends, TLC

CONSTANTS None

Row(symbol, ex, pay) == [symbol |-> symbol, ex |-> ex, pay |-> pay]

\* The second tile of month 1 is at the cap, and so is its first half.  The row of symbol 2
\* is paid in its month, and in the next one when it is revised; that of symbol 3 is paid
\* in the next one; symbol 4 is withdrawn.
TheCalendars == <<{Row(1, 5, None), Row(2, 6, 7), Row(3, 7, 8), Row(4, 4, None)},
                  {Row(1, 5, None), Row(2, 6, 9), Row(3, 7, 8)}>>

\* The defaults; the default end cut off at the latest day; too late;
\* too long.
TheWindows == {<<None, None>>, <<9, None>>, <<10, 12>>, <<0, 11>>}

Symmetry == Permutations(Requests)
=============================================================================
