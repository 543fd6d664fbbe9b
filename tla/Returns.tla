------------------------------- MODULE Returns -------------------------------
(***************************************************************************)
(* The daily series behind the return figures: the transactions replayed   *)
(* against forward-filled daily closes, one point of value and flow a day. *)
(*                                                                         *)
(* A ledger is Replay's, its rows extended by the portfolio they belong to *)
(* and by opening, the mark of a holding carried over from elsewhere.  A   *)
(* window is a record [ledger, closes, live, from, to]: closes[s][d] is    *)
(* the close of symbol s on day d, if it has one, and live[s] its quote of *)
(* today; a 0 counts as none, as a non-positive close or quote does.       *)
(***************************************************************************)
EXTENDS Replay, Functions

CONSTANTS
    Portfolios, \* the user's portfolios
    Lookback    \* benchmarkLookback, in days

ASSUME LookbackIsDays == Lookback \in Nat

Signed(t, amount) == IF t.side = "sell" THEN -amount ELSE amount

OfSymbol(ledger, s) == {i \in Stored(ledger) : ledger[i].symbol = s}

Traded(ledger) == {ledger[i].symbol : i \in Stored(ledger)}

NetQuantity(ledger, ids) == SumFunction([i \in ids |-> Signed(ledger[i], ledger[i].quantity)])

\* The symbols with a positive net quantity now.
HeldNow(ledger) == {s \in Traded(ledger) : NetQuantity(ledger, OfSymbol(ledger, s)) > 0}

\* Mutant of ActiveSymbols: what was sold inside the window is forgotten.
HeldToday(ledger, from) == HeldNow(ledger)

\* The symbols held at the end of day from or traded after it.
ActiveSymbols(ledger, from) ==
    {s \in Traded(ledger) :
        \/ \E i \in OfSymbol(ledger, s) : ledger[i].day > from
        \/ NetQuantity(ledger, {i \in OfSymbol(ledger, s) : ledger[i].day <= from}) > 0}

\* The closes that loadCloses has: of some symbols, from a week before the window on.
LoadedCloses(closes, symbols, from, to) ==
    [s \in DOMAIN closes |->
        [d \in DOMAIN closes[s] |->
            IF s \in symbols /\ d >= from - Lookback /\ d <= to THEN closes[s][d] ELSE 0]]

-----------------------------------------------------------------------------
\* Mutant of PriceOn: today is priced at its last close too.
LastClosePrice(w, s, d) ==
    LET closed == {e \in DOMAIN w.closes[s] : e <= d /\ w.closes[s][e] > 0}
    IN  IF closed = {} THEN 0 ELSE w.closes[s][Max(closed)]

\* A symbol's forward-filled price on a day, 0 while it has none.
PriceOn(w, s, d) ==
    LET closed == {e \in DOMAIN w.closes[s] : e <= d /\ w.closes[s][e] > 0}
    IN  CASE d = w.to /\ w.live[s] > 0 -> w.live[s]
          [] ~(d = w.to /\ w.live[s] > 0) /\ closed # {} -> w.closes[s][Max(closed)]
          [] OTHER -> 0

\* apply: "Defensive only", shares do not go below zero.
ApplyRow(t, shares) ==
    LET held == shares + Signed(t, t.quantity) IN IF held < 0 THEN 0 ELSE held

\* The shares of a symbol after the rows dated up to a day, in ledger order.
SharesOn(w, s, d) ==
    MapThenFoldSet(ApplyRow, 0, LAMBDA i : w.ledger[i], LAMBDA ids : LastRow(w.ledger, ids),
                   {i \in OfSymbol(w.ledger, s) : w.ledger[i].day <= d})

\* Mutant of RowFlow: a carried-over holding is a flow at its average cost.
FlowAtOwnPrice(w, t) == Signed(t, t.quantity * t.price) + t.fee

\* What one row moves into the portfolio, or out of it.
RowFlow(w, t) ==
    LET market == PriceOn(w, t.symbol, t.day)
    IN  CASE t.side = "sell" -> -(t.quantity * t.price - t.fee)
          [] t.side = "buy" /\ t.opening -> t.quantity * (IF market > 0 THEN market ELSE t.price)
          [] t.side = "buy" /\ ~t.opening -> t.quantity * t.price + t.fee

DayFlow(w, s, d) ==
    SumFunction([i \in {i \in OfSymbol(w.ledger, s) : w.ledger[i].day = d} |-> RowFlow(w, w.ledger[i])])

Priced(w, d) == {s \in Traded(w.ledger) : PriceOn(w, s, d) > 0}

WorthOn(w, s, d) == SharesOn(w, s, d) * PriceOn(w, s, d)

\* On the first day it can be priced a holding enters with its whole value.
FlowOn(w, d) ==
    SumFunction([s \in Priced(w, d) |-> IF d > w.from /\ s \in Priced(w, d - 1)
                                        THEN DayFlow(w, s, d) ELSE WorthOn(w, s, d)])

ValueOn(w, d) == SumFunction([s \in Priced(w, d) |-> WorthOn(w, s, d)])

Series(w) == [d \in w.from..w.to |-> [value |-> ValueOn(w, d), flow |-> FlowOn(w, d)]]

-----------------------------------------------------------------------------
LastDay(series) == Max(DOMAIN series)

LaterDays(series) == DOMAIN series \ {Min(DOMAIN series)}

\* The growth of a series up to a day, as a fraction: the product of its daily
\* returns, without the days that start from nothing.
Growth(series, d) ==
    LET counted == {e \in LaterDays(series) : e <= d /\ series[e - 1].value > 0}
    IN  [num |-> MapThenFoldSet(LAMBDA x, y : x * y, 1, LAMBDA e : series[e].value - series[e].flow,
                                LAMBDA S : Max(S), counted),
         den |-> MapThenFoldSet(LAMBDA x, y : x * y, 1, LAMBDA e : series[e - 1].value, LAMBDA S : Max(S), counted)]

Gain(series) ==
    SumFunction([d \in LaterDays(series) |->
                    series[d].value - series[d].flow - series[d - 1].value])

\* The figures of the headline window, 0 when there is nothing to walk.
NoSeries(w) == w.from > w.to \/ Stored(w.ledger) = {}

SeriesFor(w) ==
    Series([w EXCEPT !.closes = LoadedCloses(w.closes, ActiveSymbols(w.ledger, w.from), w.from, w.to)])

WindowReturn(w) ==
    IF NoSeries(w) \/ w.from = w.to
    THEN [growth |-> [num |-> 1, den |-> 1], gain |-> 0]
    ELSE LET series == SeriesFor(w)
         IN  [growth |-> Growth(series, LastDay(series)), gain |-> Gain(series)]

\* The return on each stored point of the chart; today's quotes only count for today.
AttachedReturns(w, points, today) ==
    LET window == IF w.to < today THEN [w EXCEPT !.live = [s \in DOMAIN w.live |-> 0]]
                  ELSE [w EXCEPT !.live = [s \in DOMAIN w.live |->
                                              IF s \in HeldNow(w.ledger) THEN w.live[s] ELSE 0]]
    IN  [d \in points |-> IF NoSeries(w) \/ Cardinality(points) < 2
                          THEN [num |-> 1, den |-> 1] ELSE Growth(SeriesFor(window), d)]

\* The overlay of an index on the points of the chart that have a close by then, be it zero;
\* with one point there is nothing to compare, and a failed fetch leaves it out.
BenchmarkOverlay(points, fetched, closes) ==
    LET known(d) == {e \in DOMAIN closes : Min(points) - Lookback <= e /\ e <= d}
        shown    == {d \in points : fetched /\ Cardinality(points) >= 2 /\ known(d) # {}}
    IN  [available |-> fetched \/ Cardinality(points) < 2,
         closes    |-> [d \in shown |-> closes[Max(known(d))]]]

\* Realised P&L: each portfolio's ledger of each symbol on its own; one that does not
\* replay is left out.
PortfolioRows(ledger, p) ==
    [i \in TxIds |-> IF ledger[i] # NoRow /\ ledger[i].portfolio = p THEN ledger[i] ELSE NoRow]

LedgerRealised(ledger) ==
    LET of(g) == SymbolRows(PortfolioRows(ledger, g[1]), g[2])
    IN  SumFunction([g \in {g \in Portfolios \X Symbols : Replays(of(g))} |->
                        Figures(of(g)).realised])
=============================================================================
