------------------------------ MODULE Positions ------------------------------
(***************************************************************************)
(* What the ledger specifications share: the rows and patches requests     *)
(* carry, the position a symbol's transactions derive, and the rule on     *)
(* open positions.                                                         *)
(***************************************************************************)
EXTENDS Replay

CONSTANTS
    MaxAmount,    \* the largest amount a NUMERIC(20,8) column stores
    MaxPositions, \* open positions a portfolio may hold (maxPositions)
    NewRows,      \* rows CreateTransaction is asked to insert, after validation
    Patches,      \* TransactionPatch values: records over some of a row's fields
    NoPosition    \* "no row in portfolio_positions"

\* TransactionPatch.Apply: set fields replace the row's, the others are kept.
Apply(patch, row) ==
    [f \in DOMAIN row |-> IF f \in DOMAIN patch THEN patch[f] ELSE row[f]]

\* validateTransaction accepts each field on its own, so a patch it accepted on
\* one stored row yields a valid row on any other version of that row.  The
\* symbol is not part of a patch.
ASSUME InputsAreValidated ==
    /\ IsFiniteSet(Symbols)
    /\ MaxPositions \in Nat
    /\ MaxAmount \in Nat
    /\ NewRows \subseteq Row
    /\ \A p \in Patches : \A row \in Row :
          Apply(p, row) \in Row /\ Apply(p, row).symbol = row.symbol

\* A row of portfolio_positions.  The three figures are NUMERIC(20,8): amounts
\* that fit one transaction each can still add up to one that does not fit.
Position == [shares : 0..MaxAmount, avgCost : 0..MaxAmount, realised : -MaxAmount..MaxAmount]

ASSUME NoPositionIsNotAPosition == NoPosition \notin Position

IsOpen(p) == p # NoPosition /\ p.shares > 0

\* The row portfolio_positions must hold for a symbol whose transactions are rows.
DerivedPosition(rows) == IF Stored(rows) = {} THEN NoPosition ELSE Figures(rows)

\* The rows derive a position the table can store: the replay succeeds and fits.
Storable(rows) == Replays(rows) /\ (Stored(rows) = {} \/ Figures(rows) \in Position)

OpenSymbols(pos) == {s \in Symbols : IsOpen(pos[s])}
=============================================================================
