------------------------------ MODULE Valuation ------------------------------
(***************************************************************************)
(* What portfolios are worth, in the views that show it: the list of       *)
(* portfolios, the summary of one and of all, the holdings and the input   *)
(* of an analysis.  Each view prices the holdings by lookups of its own,   *)
(* and every lookup can fail by itself.                                    *)
(*                                                                         *)
(* A holding is a record [portfolio, symbol, shares, avgCost].  quotes[s]  *)
(* is a price or Unavailable; changes[s] a percent change or Unavailable.  *)
(***************************************************************************)
EXTENDS Returns

CONSTANTS
    Unavailable \* a lookup that failed

ASSUME UnavailableIsNoFigure == Unavailable \notin Int

\* The rows of portfolio_positions, which the ledger keeps in step.
Holdings(ledger) ==
    LET of(p, s) == SymbolRows(PortfolioRows(ledger, p), s)
        row(p, s) == LET f == Figures(of(p, s))
                     IN  [portfolio |-> p, symbol |-> s, shares |-> f.shares, avgCost |-> f.avgCost]
    IN  {row(g[1], g[2]) : g \in {g \in Portfolios \X Symbols : Stored(of(g[1], g[2])) # {}}}

Open(holdings) == {h \in holdings : h.shares > 0}

OfPortfolio(holdings, p) == {h \in holdings : h.portfolio = p}

DistinctSymbols(holdings) == {h.symbol : h \in holdings}

-----------------------------------------------------------------------------
\* Quotes that come back with a price above zero.
FetchQuotePrices(quotes, symbols) ==
    [s \in {s \in symbols : quotes[s] # Unavailable /\ quotes[s] > 0} |-> quotes[s]]

\* Mutant of FetchPrices: a failed quote is a price of zero.
FetchPricesAsZero(quotes, changes, symbols) ==
    [s \in {s \in symbols : changes[s] # Unavailable} |->
        [price |-> IF quotes[s] = Unavailable THEN 0 ELSE quotes[s], change |-> changes[s]]]

\* Quote and 30-day change together: a symbol that lacks one lacks both.
FetchPrices(quotes, changes, symbols) ==
    [s \in {s \in symbols : quotes[s] # Unavailable /\ changes[s] # Unavailable} |->
        [price |-> quotes[s], change |-> changes[s]]]

PositionsValue(holdings, prices) ==
    SumFunction([h \in {h \in holdings : h.symbol \in DOMAIN prices} |-> h.shares * prices[h.symbol]])

UnrealisedPnl(holdings, prices) ==
    SumFunction([h \in {h \in Open(holdings) : h.symbol \in DOMAIN prices} |->
                    h.shares * (prices[h.symbol] - h.avgCost)])

\* aggregateValue, today's part: a change of -100% leaves the holding out.
AggregateValue(holdings, prices) ==
    SumFunction([h \in {h \in holdings : h.symbol \in DOMAIN prices /\ prices[h.symbol].change # -100} |->
                    h.shares * prices[h.symbol].price])

AnyPriced(holdings, prices) == \E h \in holdings : h.symbol \in DOMAIN prices

\* Mutant of DiversificationScore: a symbol held twice counts as two holdings.
ScorePerHolding(holdings, prices) ==
    LET worth(h) == h.shares * prices[h.symbol]
        priced   == {h \in holdings : h.symbol \in DOMAIN prices}
        total    == SumFunction([h \in priced |-> worth(h)])
    IN  IF total <= 0 THEN 0
        ELSE RoundedQuotient((total * total - SumFunction([h \in priced |-> worth(h) * worth(h)])) * 100,
                             total * total)

\* (1 - sum of squared weights) in percent, per symbol and not per holding.
DiversificationScore(holdings, prices) ==
    LET worth(s) == PositionsValue({h \in holdings : h.symbol = s}, prices)
        symbols  == DistinctSymbols(holdings) \intersect DOMAIN prices
        total    == SumFunction([s \in symbols |-> worth(s)])
    IN  IF total <= 0 THEN 0
        ELSE RoundedQuotient((total * total - SumFunction([s \in symbols |-> worth(s) * worth(s)])) * 100,
                             total * total)

-----------------------------------------------------------------------------
\* One entry of the list of portfolios: value is Unavailable for null.
ListEntry(holdings, p, quotes, changes) ==
    LET group  == Open(OfPortfolio(holdings, p))
        prices == FetchPrices(quotes, changes, DistinctSymbols(holdings))
    IN  [count |-> Cardinality(group),
         value |-> IF group # {} /\ ~AnyPriced(group, prices)
                   THEN Unavailable ELSE AggregateValue(group, prices)]

\* The summary of one portfolio, and of all of them with the concentration.
Summary(ledger, w, p, quotes) ==
    LET rows     == PortfolioRows(ledger, p)
        holdings == Open(OfPortfolio(Holdings(ledger), p))
        prices   == FetchQuotePrices(quotes, DistinctSymbols(holdings))
        live     == [s \in Symbols |-> IF s \in DOMAIN prices THEN prices[s] ELSE 0]
    IN  [value      |-> PositionsValue(holdings, prices),
         gain       |-> WindowReturn([w EXCEPT !.ledger = rows, !.live = live]).gain,
         realised   |-> LedgerRealised(rows),
         unrealised |-> UnrealisedPnl(holdings, prices)]

SummaryOfAll(ledger, quotes) ==
    LET holdings == Open(Holdings(ledger))
        prices   == FetchQuotePrices(quotes, DistinctSymbols(holdings))
    IN  [value      |-> PositionsValue(holdings, prices),
         realised   |-> LedgerRealised(ledger),
         unrealised |-> UnrealisedPnl(holdings, prices),
         score      |-> DiversificationScore(holdings, prices)]

\* One holding with its live figures; without a quote they stay zero.
EnrichedHolding(h, quotes) ==
    LET quoted == h.shares > 0 /\ quotes[h.symbol] # Unavailable
    IN  [closed     |-> h.shares <= 0,
         value      |-> IF quoted THEN h.shares * quotes[h.symbol] ELSE 0,
         unrealised |-> IF quoted THEN h.shares * quotes[h.symbol] - h.shares * h.avgCost ELSE 0]

\* The holdings an analysis is asked about, each with its value as its weight, or the
\* refusal.
AnalysisData(holdings, p, quotes) ==
    LET open   == Open(OfPortfolio(holdings, p))
        worth(h) == EnrichedHolding(h, quotes).value
    IN  CASE open = {} -> [refused |-> "ErrPortfolioEmpty"]
          [] open # {} /\ (\A h \in open : worth(h) <= 0) -> [refused |-> "ErrPricingUnavailable"]
          [] OTHER -> [weights |-> [s \in {h.symbol : h \in {h \in open : worth(h) > 0}} |->
                                       SumFunction([h \in {h \in open : h.symbol = s} |-> worth(h)])]]

-----------------------------------------------------------------------------
\* sharesBefore: all portfolios together, at the end of the day before a date.
SharesBefore(ledger, s, day) ==
    NetQuantity(ledger, {i \in OfSymbol(ledger, s) : ledger[i].day < day})

\* The shares a dividend counts on, in the calendar: those of now while the ex-date is
\* ahead, or the ledger has no row; once it has come, those held the evening before.
EntitledShares(ledger, holdings, s, ex, today) ==
    IF ex <= today /\ OfSymbol(ledger, s) # {}
    THEN SharesBefore(ledger, s, ex)
    ELSE SumFunction([h \in {h \in Open(holdings) : h.symbol = s} |-> h.shares])

\* The entries of the calendar for some events [symbol, ex, dividend].
CalendarEntries(ledger, holdings, events, today) ==
    LET shares(e) == EntitledShares(ledger, holdings, e.symbol, e.ex, today)
    IN  {[event |-> e, shares |-> shares(e), amount |-> shares(e) * e.dividend] :
            e \in {e \in events : shares(e) > 0}}
=============================================================================
