------------------------------ MODULE MCLedger ------------------------------
(***************************************************************************)
(* Instances of Ledger for TLC.  The rows and patches requests carry are   *)
(* picked so that buys, sells, backdating, closing and reopening meet.     *)
(***************************************************************************)
EXTENDS Ledger, TLC

NewRow(s, side, q, d) ==
    [symbol |-> s, side |-> side, quantity |-> q, price |-> 1, fee |-> 0, day |-> d]

\* Backdated rows, sells that need an earlier buy or close a position, a second symbol
\* for the same limit, and patches that change different fields of the same row.
RaceRows == {NewRow("AAPL", "buy", 2, 1), NewRow("AAPL", "sell", 1, 2), NewRow("MSFT", "buy", 1, 1)}

RacePatches == {[day |-> 2], [side |-> "sell", quantity |-> 1]}

\* Several symbols under one limit: closing and reopening by every kind of write.
LimitRows == {NewRow(s, side, 1, 1) : s \in Symbols, side \in Sides}

LimitPatches == {[side |-> side] : side \in Sides}

Symmetry == Permutations(Requests)
=============================================================================
