----------------------------- MODULE LedgerAtomic -----------------------------
(***************************************************************************)
(* What the transaction ledger of one portfolio promises its callers:      *)
(* every write is one indivisible step on the stored rows, it is accepted  *)
(* only if the symbol still replays and the open-position limit holds, and *)
(* the position row always is what the symbol's transactions derive.       *)
(* (Repository interface, internal/domain/portfolio/portfolio.go.)         *)
(***************************************************************************)
EXTENDS Positions

VARIABLES
    exists,       \* the portfolio is stored
    transactions, \* portfolio_transactions
    positions     \* portfolio_positions, by symbol

vars == <<exists, transactions, positions>>

Init ==
    /\ exists = TRUE
    /\ transactions = EmptyLedger
    /\ positions = [s \in Symbols |-> NoPosition]

\* The stored rows become `new`, which differs from them in rows of symbol s.
Rewrite(new, s) ==
    LET rows == SymbolRows(new, s)
        pos  == [positions EXCEPT ![s] = DerivedPosition(rows)]
    IN  /\ transactions' = new
        /\ positions' = pos
        /\ UNCHANGED exists
        /\ Storable(rows)
        /\ \/ IsOpen(positions[s])
           \/ ~IsOpen(pos[s])
           \/ Cardinality(OpenSymbols(pos)) <= MaxPositions

Create(i, row) ==
    /\ transactions[i] = NoRow
    /\ Rewrite([transactions EXCEPT ![i] = row], row.symbol)

Update(i, patch) ==
    /\ transactions[i] # NoRow
    /\ Rewrite([transactions EXCEPT ![i] = Apply(patch, @)], transactions[i].symbol)

Delete(i) ==
    /\ transactions[i] # NoRow
    /\ Rewrite([transactions EXCEPT ![i] = NoRow], transactions[i].symbol)

RemoveHolding(s) ==
    /\ positions[s] # NoPosition
    /\ transactions' = [i \in TxIds |-> IF transactions[i] # NoRow /\ transactions[i].symbol = s
                                        THEN NoRow ELSE transactions[i]]
    /\ positions' = [positions EXCEPT ![s] = NoPosition]
    /\ UNCHANGED exists

\* Deleting the portfolio cascades to its transactions and positions.
DeletePortfolio ==
    /\ exists' = FALSE
    /\ transactions' = EmptyLedger
    /\ positions' = [s \in Symbols |-> NoPosition]

Next ==
    /\ exists
    /\ \/ \E i \in TxIds, row \in NewRows : Create(i, row)
       \/ \E i \in TxIds, p \in Patches : Update(i, p)
       \/ \E i \in TxIds : Delete(i)
       \/ \E s \in Symbols : RemoveHolding(s)
       \/ DeletePortfolio

Spec == Init /\ [][Next]_vars
=============================================================================
