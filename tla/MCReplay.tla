------------------------------ MODULE MCReplay ------------------------------
(***************************************************************************)
(* Enumerates every ledger of one symbol over small rows, one stored row   *)
(* at a time, and checks Replay on each against definitions that do not    *)
(* walk the rows.                                                          *)
(***************************************************************************)
EXTENDS Replay, Functions

VARIABLE rows

ReplayInit == rows = EmptyLedger

Store(i, row) ==
    /\ rows[i] = NoRow
    /\ rows' = [rows EXCEPT ![i] = row]

ReplayNext == \E i \in TxIds, row \in Row : Store(i, row)

ReplaySpec == ReplayInit /\ [][ReplayNext]_rows

-----------------------------------------------------------------------------
\* The sum over some ids of a function of the stored ones.
Total(ids, amount) == SumFunctionOnSet(amount, ids)

QuantityOf == [i \in Stored(rows) |-> rows[i].quantity]

OfSide(side) == {i \in Stored(rows) : rows[i].side = side}

UpTo(ids, d) == {i \in ids : rows[i].day <= d}

\* The reference for an accepted ledger: at the end of every day no more shares
\* were sold than bought.  Buys count before the sells of their day, so nothing
\* inside a day can be worse than its end (internal/domain/portfolio/ledger.go).
NeverOversold ==
    \A d \in Days :
        Total(UpTo(OfSide("sell"), d), QuantityOf) <= Total(UpTo(OfSide("buy"), d), QuantityOf)

\* Replay refuses exactly the ledgers that oversell on some day, and holds what
\* was bought and not sold: Replay's ErrInsufficientShares and Shares.
ReplayAgreesWithDailyTotals ==
    /\ Replays(rows) <=> NeverOversold
    /\ Replays(rows) =>
         Figures(rows).shares =
             Total(OfSide("buy"), QuantityOf) - Total(OfSide("sell"), QuantityOf)

\* "so the input order does not matter" (ledger.go:42), and neither does
\* created_at, which is the start of the database transaction and so may
\* contradict the order of commits: two rows can swap their places in
\* created_at order and no figure of the holding changes.
FiguresIgnoreCreationOrder ==
    \A a, b \in Stored(rows) :
        LET swapped == [rows EXCEPT ![a] = rows[b], ![b] = rows[a]]
        IN  /\ Replays(swapped) = Replays(rows)
            /\ Replays(rows) => Figures(swapped) = Figures(rows)

Paid == [i \in Stored(rows) |-> rows[i].quantity * rows[i].price + rows[i].fee]

Received == [i \in Stored(rows) |-> rows[i].quantity * rows[i].price - rows[i].fee]

Apart(x, y) == IF x > y THEN x - y ELSE y - x

\* No money appears or disappears: what was paid for buys less what sells brought
\* in is the cost still held less the P&L realised, up to half a unit for each
\* sell and half a unit per share for the rounded average (ledger.go Replay).
CashIsConserved ==
    Replays(rows) =>
        LET f     == Figures(rows)
            sells == OfSide("sell")
        IN  2 * Apart(Total(OfSide("buy"), Paid) - Total(sells, Received),
                      f.shares * f.avgCost - f.realised)
              <= Cardinality(sells) + f.shares
=============================================================================
