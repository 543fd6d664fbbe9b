------------------------------- MODULE Replay -------------------------------
(***************************************************************************)
(* The pure part of the transaction ledger: Replay walks one symbol's      *)
(* transactions in ledger order and derives the holding.  Everything the   *)
(* portfolio_positions cache holds is a figure computed here.              *)
(*                                                                         *)
(* A ledger is a function from transaction ids to rows; an id that stores  *)
(* no row maps to NoRow.  Ids are numbered by created_at, the last key of  *)
(* the ledger order.  Quantities are whole shares and money is counted in  *)
(* units of the last stored decimal, so Round8 of a quantity changes       *)
(* nothing and Round8 of an amount rounds to an integer; the cost is an    *)
(* exact fraction, as the code leaves it unrounded between rows.           *)
(***************************************************************************)
EXTENDS Integers, FiniteSetsExt

CONSTANTS
    TxIds,      \* transaction ids, a set of naturals in created_at order
    Symbols,    \* the symbols a portfolio can hold
    Quantities, \* share quantities of a row
    Prices,     \* prices of a row
    Fees,       \* fees of a row
    Days,       \* trade dates, a set of naturals
    NoRow       \* "this id stores no row"

ASSUME RowDomains ==
    /\ TxIds \subseteq Nat
    /\ Days \subseteq Nat
    /\ Quantities \subseteq Nat \ {0}
    /\ Prices \subseteq Nat
    /\ Fees \subseteq Nat

Sides == {"buy", "sell"}

Row == [symbol : Symbols, side : Sides, quantity : Quantities,
        price : Prices, fee : Fees, day : Days]

ASSUME NoRowIsNotARow == NoRow \notin Row

Ledgers == [TxIds -> Row \union {NoRow}]

EmptyLedger == [i \in TxIds |-> NoRow]

\* The ids of the stored rows.
Stored(ledger) == {i \in TxIds : ledger[i] # NoRow}

\* The part of a ledger that belongs to one symbol.
SymbolRows(ledger, s) ==
    [i \in TxIds |-> IF ledger[i] # NoRow /\ ledger[i].symbol = s
                     THEN ledger[i] ELSE NoRow]

\* Mutant of TransactionBefore: a date's buys do not come before its sells.
DatedBefore(ledger, a, b) ==
    \/ ledger[a].day < ledger[b].day
    \/ ledger[a].day = ledger[b].day /\ a < b

(***************************************************************************)
(* The ledger order: trade date, then buys before sells, then created_at.  *)
(***************************************************************************)
TransactionBefore(ledger, a, b) ==
    LET ra == ledger[a]
        rb == ledger[b]
    IN  \/ ra.day < rb.day
        \/ /\ ra.day = rb.day
           /\ \/ ra.side = "buy" /\ rb.side = "sell"
              \/ ra.side = rb.side /\ a < b

\* The last of some rows in ledger order.
LastRow(ledger, ids) ==
    CHOOSE i \in ids : \A j \in ids \ {i} : TransactionBefore(ledger, j, i)

\* n/d to the nearest integer, halves away from zero (math.Round), for d > 0.
RoundedQuotient(n, d) ==
    IF n >= 0 THEN (2 * n + d) \div (2 * d) ELSE -((d - 2 * n) \div (2 * d))

(***************************************************************************)
(* One iteration of the loop.  cost / per is the cost of the shares held,  *)
(* so the average cost is cost / (per * shares).                           *)
(***************************************************************************)
NothingHeld == [ok |-> TRUE, shares |-> 0, cost |-> 0, per |-> 1, realised |-> 0]

BuyRow(h, t) ==
    [h EXCEPT !.shares = @ + t.quantity,
              !.cost = @ + (t.quantity * t.price + t.fee) * h.per]

\* Mutant of SellRow: all the shares held cannot be sold at once.
SellRowKeepingOne(h, t) ==
    IF t.quantity >= h.shares
    THEN [h EXCEPT !.ok = FALSE]
    ELSE [h EXCEPT !.shares = @ - t.quantity]

\* Mutant of SellRow: the cost of the shares sold stays in the cost held.
SellRowKeepingCost(h, t) ==
    IF t.quantity > h.shares
    THEN [h EXCEPT !.ok = FALSE]
    ELSE [h EXCEPT !.shares = @ - t.quantity,
                   !.realised = @ + t.quantity * t.price - t.fee]

SellRow(h, t) ==
    LET avgPer == h.per * h.shares
        pnl    == RoundedQuotient((t.price * avgPer - h.cost) * t.quantity - t.fee * avgPer,
                                  avgPer)
        left   == h.shares - t.quantity
    IN  IF t.quantity > h.shares
        THEN [h EXCEPT !.ok = FALSE]
        ELSE [h EXCEPT !.shares = left,
                       !.realised = @ + pnl,
                       !.cost = IF left = 0 THEN 0 ELSE @ * left,
                       !.per = IF left = 0 THEN 1 ELSE avgPer]

ReplayRow(h, t) ==
    CASE ~h.ok -> h
      [] h.ok /\ t.side = "buy" -> BuyRow(h, t)
      [] h.ok /\ t.side = "sell" -> SellRow(h, t)

\* The rows in ledger order: all but the last, then the last.
Walk(ledger) ==
    MapThenFoldSet(LAMBDA t, h : ReplayRow(h, t), NothingHeld,
                   LAMBDA i : ledger[i], LAMBDA ids : LastRow(ledger, ids), Stored(ledger))

(***************************************************************************)
(* Replay fails when some sell exceeds the shares held at that point.  Its *)
(* figures are what syncPosition stores in the position row.               *)
(***************************************************************************)
Replays(ledger) == Walk(ledger).ok

Figures(ledger) ==
    LET h == Walk(ledger)
    IN  [shares   |-> h.shares,
         avgCost  |-> IF h.shares > 0 THEN RoundedQuotient(h.cost, h.per * h.shares) ELSE 0,
         realised |-> h.realised]
=============================================================================
