------------------------------ MODULE MCFigures ------------------------------
(***************************************************************************)
(* Every small ledger, built one row at a time, under a few markets, and   *)
(* what the figures shown for it promise each other.                       *)
(***************************************************************************)
EXTENDS SuggestedReturn

CONSTANTS
    Trades, \* the rows a user records
    Markets \* [closes, quotes, changes, history, from]: from is the first day of the
            \* window, which ends on the last of Days

\* Only a buy carries a holding over.
TradeRow ==
    {t \in [portfolio : Portfolios, symbol : Symbols, side : Sides, quantity : Quantities,
            price : Prices, fee : Fees, day : Days, opening : BOOLEAN] :
        t.opening => t.side = "buy"}

ASSUME RecordedRows ==
    /\ IsFiniteSet(Portfolios)
    /\ IsFiniteSet(Symbols)
    /\ IsFiniteSet(Days) /\ Days # {}
    /\ Trades \subseteq TradeRow
    /\ NoRow \notin TradeRow

\* What the provider answers: a quote may be zero and a price may have fallen by all of it,
\* and a history is a finite set of closes, with a rate if it is long enough.
ASSUME ProvidedPrices ==
    \A m \in Markets :
        /\ m.from \in Days
        /\ DOMAIN m.closes = Symbols
        /\ \A s \in Symbols :
              /\ m.quotes[s] \in Nat \union {Unavailable}
              /\ m.changes[s] \in Int \union {Unavailable}
              /\ IsFiniteSet(DOMAIN m.closes[s]) /\ DOMAIN m.closes[s] \subseteq Nat
              /\ \A d \in DOMAIN m.closes[s] : m.closes[s][d] \in Nat
              /\ ~Failed(m.history[s]) =>
                    /\ IsFiniteSet(m.history[s])
                    /\ \A c \in m.history[s] : c.day \in Nat /\ c.close \in Nat
                    /\ Annualises(m.history[s]) => Cagr(m.history[s]) \in Int

VARIABLES ledger, market

Init == ledger = EmptyLedger /\ market \in Markets

\* Ids are given in order and the ledger always replays.
Record(i, row) ==
    /\ i = Cardinality(Stored(ledger)) + 1
    /\ ledger' = [ledger EXCEPT ![i] = row]
    /\ Replays(SymbolRows(PortfolioRows(ledger', row.portfolio), row.symbol))
    /\ UNCHANGED market

Next == \E i \in TxIds, row \in Trades : Record(i, row)

Spec == Init /\ [][Next]_<<ledger, market>>

Today == Max(Days)

From == market.from

LiveQuotes == [s \in Symbols |-> IF market.quotes[s] = Unavailable THEN 0 ELSE market.quotes[s]]

Window == [ledger |-> ledger, closes |-> market.closes, live |-> LiveQuotes,
           from |-> From, to |-> Today]

Loaded == [Window EXCEPT !.closes =
              LoadedCloses(market.closes, ActiveSymbols(ledger, From), From, Today)]

-----------------------------------------------------------------------------
Net(s, d) == NetQuantity(ledger, {i \in OfSymbol(ledger, s) : ledger[i].day <= d})

\* What a day's trade of a symbol gained by the day's end, at that day's price.
TradeGain(i, price) ==
    LET t == ledger[i]
    IN  CASE t.side = "sell" -> t.quantity * (t.price - price) - t.fee
          [] t.side = "buy" /\ t.opening -> 0
          [] t.side = "buy" /\ ~t.opening -> t.quantity * (price - t.price) - t.fee

\* The gain of each day is what the shares held overnight gained in price and what the
\* day's own trades gained against its close; a carried-over holding, and a holding priced
\* for the first time, gain nothing ("so it never reads as a gain either",
\* usecase/portfolio/returns.go:130).  So a portfolio that only carries one symbol over
\* returns what the price of that symbol returned, however much is carried over when, and
\* up to yesterday what the benchmark overlay shows of that symbol on the same chart, as far
\* as its closes are above zero (the overlay shows the others too).
DailyGainExplained ==
  /\ \A d \in (From + 1)..Today :
        LET w == Loaded
            known == Priced(w, d - 1)
            price(s) == PriceOn(w, s, d)
        IN  ValueOn(w, d) - FlowOn(w, d) - ValueOn(w, d - 1) =
              SumFunction([s \in known |-> Net(s, d - 1) * (price(s) - PriceOn(w, s, d - 1))])
              + SumFunction([i \in {i \in Stored(ledger) : ledger[i].day = d /\ ledger[i].symbol \in known} |->
                                TradeGain(i, price(ledger[i].symbol))])
  /\ \A d \in From..Today, s \in Symbols :
        LET growth == AttachedReturns(Window, From..Today, Today)[d]
            index  == BenchmarkOverlay(From..Today, TRUE, market.closes[s]).closes
            held   == {e \in From..d : ValueOn(Loaded, e) > 0}
            first  == Min(held)
        IN  /\ Traded(ledger) = {s}
            /\ \A i \in Stored(ledger) : ledger[i].opening
            /\ held # {}
            => /\ growth.num * PriceOn(Loaded, s, first) = growth.den * PriceOn(Loaded, s, d)
               /\ d < Today =>
                     /\ {first, d} \subseteq DOMAIN index
                     /\ index[first] > 0 /\ index[d] > 0
                        => growth.num * index[first] = growth.den * index[d]

\* Closes are loaded only for the symbols "that can affect a series" (returns.go:61): with
\* those of every symbol no point of the series would have another value or gain.
ActiveSymbolsSuffice ==
    LET whole == Series([Window EXCEPT !.closes =
                            LoadedCloses(market.closes, Symbols, From, Today)])
        light == Series(Loaded)
    IN  \A d \in DOMAIN light :
            light[d].value = whole[d].value /\ light[d].flow = whole[d].flow

Distance(x, y) == IF x > y THEN x - y ELSE y - x

\* A summary agrees with itself (GetSummary): for a portfolio that began inside the window,
\* carried nothing over and could be priced all along, the money gained is the P&L realised
\* and unrealised, up to the rounding of the stored figures.
GainMatchesProfit ==
    \A p \in Portfolios :
        LET rows   == PortfolioRows(ledger, p)
            mine   == Stored(rows)
            sells  == {i \in mine : rows[i].side = "sell"}
            figure == Summary(ledger, Window, p, market.quotes)
            held   == SumFunction([h \in OfPortfolio(Holdings(ledger), p) |-> h.shares])
        IN  (/\ \A i \in mine : rows[i].day > From /\ ~rows[i].opening
             /\ \A s \in Traded(rows) : PriceOn(Loaded, s, From) > 0 /\ LiveQuotes[s] > 0)
            => 2 * Distance(figure.gain, figure.realised + figure.unrealised)
                 <= Cardinality(sells) + held

Entry(p) == ListEntry(Holdings(ledger), p, market.quotes, market.changes)

Known(s) == market.quotes[s] # Unavailable /\ market.changes[s] # Unavailable

\* The list shows nothing of a holding that was quoted at zero, nor of one whose price fell
\* by all of it: fetchPrices takes any quote and aggregateValue skips a divisor of zero.
Worthless(s) == market.quotes[s] = 0 \/ market.changes[s] = -100

\* "an upstream quote outage surfaces as null rather than a misleading $0"
\* (usecase/portfolio/portfolio.go:481): the list shows no value exactly when holdings are
\* open and no lookup of any of them came back.  So a failed lookup alone never reads as $0:
\* zero is shown for an empty portfolio, and beside that exactly when some lookups came back
\* and each of these was an answer that makes its holding worthless.
OutagesShowAsUnknown ==
    \A p \in Portfolios :
        LET open     == Open(OfPortfolio(Holdings(ledger), p))
            answered == {h \in open : Known(h.symbol)}
        IN  /\ Entry(p).value = Unavailable <=> open # {} /\ answered = {}
            /\ Entry(p).value = 0 <=>
                  \/ open = {}
                  \/ answered # {} /\ \A h \in answered : Worthless(h.symbol)
            /\ Entry(p).count = Cardinality(open)

\* One portfolio, with its holdings, the value its summary shows and its entry in the list.
PortfolioViewsAgree(p, holdings, value, entry) ==
    LET open == Open(holdings)
        full == \A h \in open : LiveQuotes[h.symbol] > 0
        analysis == AnalysisData(holdings, p, market.quotes)
    IN  /\ value = SumFunction([h \in holdings |-> EnrichedHolding(h, market.quotes).value])
        /\ entry # Unavailable => entry <= value
        /\ full /\ (\A h \in open : market.changes[h.symbol] \notin {Unavailable, -100}) => entry = value
        /\ full => ValueOn([Loaded EXCEPT !.ledger = PortfolioRows(ledger, p)], Today) = value
        /\ CASE open = {} -> analysis = [refused |-> "ErrPortfolioEmpty"]
             [] open # {} /\ value = 0 -> analysis = [refused |-> "ErrPricingUnavailable"]
             [] value > 0 -> SumFunction(analysis.weights) = value

\* All portfolios: the sum of their values, the summary of all, and the same with every row
\* in one portfolio.
TotalsAgree(total, all, merged) ==
    /\ all.value = total
    /\ all.value = merged.value
    /\ all.score = merged.score

\* The entries for an event on each day of each symbol, and the shares held on the evenings
\* before.
DividendsFollowShares(entries, events, evening) ==
    entries = {[event |-> e, shares |-> evening[e], amount |-> e.dividend * evening[e]] :
                  e \in {e \in events : evening[e] > 0}}

\* The views of a portfolio's value never contradict each other: the list, the summary, the
\* holdings, the analysis input and the last point of the return series price the same
\* holdings by separate lookups, and differ only where a lookup failed, or, in the list, where
\* a price fell by all of it; splitting a holding over portfolios changes neither the total
\* nor the concentration (portfolio.go:259).  And the dividend calendar pays on the shares the
\* series shows for the evening before the ex-date, so that "a position opened after the
\* ex-date earns nothing and one sold since still counts" (usecase/dividend/calendar.go:159).
ViewsAgree ==
    LET value(p) == Summary(ledger, Window, p, market.quotes).value
        merged == [i \in TxIds |-> IF ledger[i] = NoRow THEN NoRow
                                   ELSE [ledger[i] EXCEPT !.portfolio = CHOOSE p \in Portfolios : TRUE]]
        events == [symbol : Symbols, ex : From..(Today + 1), dividend : {2}]
    IN  /\ \A p \in Portfolios :
              PortfolioViewsAgree(p, OfPortfolio(Holdings(ledger), p), value(p), Entry(p).value)
        /\ TotalsAgree(SumFunction([p \in Portfolios |-> value(p)]),
                       SummaryOfAll(ledger, market.quotes), SummaryOfAll(merged, market.quotes))
        /\ DividendsFollowShares(CalendarEntries(ledger, Holdings(ledger), events, Today), events,
                                 [e \in events |-> SharesOn(Window, e.symbol, e.ex - 1)])

\* Partial failure of a suggestion: every open holding is either used or skipped with a
\* reason, what is suggested lies between the rates of the holdings used, and a volatility
\* needs enough months of every one of them ("Holdings without a live price or without
\* usable history are listed in Skipped", suggested_return.go:46).
SuggestionIsAccountedFor ==
    \A p \in Portfolios :
        LET s    == SuggestedReturn(Holdings(ledger), p, market.quotes, market.history, Today)
            used == DOMAIN s.rates
        IN  /\ DOMAIN s.skipped \union used = DistinctSymbols(Open(OfPortfolio(Holdings(ledger), p)))
            /\ \A x \in DOMAIN s.skipped : s.skipped[x] \in Reasons
            /\ s.available <=> used # {}
            /\ s.available => \E lo, hi \in used : s.rates[lo] <= s.annual /\ s.annual <= s.rates[hi]
            /\ s.volatility => \A x \in used : HasVolatility(ReturnMonths(market.history[x]))

-----------------------------------------------------------------------------
\* The instance: two symbols, two portfolios, a window of two or three days.
NewTrade(p, s, side, q, price, d, opening) ==
    [portfolio |-> p, symbol |-> s, side |-> side, quantity |-> q, price |-> price,
     fee |-> IF opening THEN 0 ELSE 1, day |-> d, opening |-> opening]

SomeTrades ==
    {NewTrade(p, "AAPL", "buy", 2, 2, d, FALSE) : p \in {"main", "other"}, d \in {1, 2, 3}}
    \union {NewTrade("main", "AAPL", "sell", q, 5, d, FALSE) : q \in {1, 2}, d \in {1, 2, 3}}
    \union {NewTrade("main", "AAPL", "buy", 1, 1, d, TRUE) : d \in {1, 3}}
    \union {NewTrade("main", "MSFT", "buy", 1, 3, d, FALSE) : d \in {1, 2}}
    \union {NewTrade("main", "MSFT", "sell", 1, 4, d, FALSE) : d \in {2, 3}}
    \union {NewTrade("main", "MSFT", "buy", 3, 3, 2, TRUE)}

Close(d, c) == [day |-> d, close |-> c]

LongHistory == {Close(0, 2), Close(1, 3), Close(2, 4), Close(3, 5)}
Gappy       == {Close(0, 8), Close(2, 0), Close(3, 4)}
Recent      == {Close(3, 4)}

Market(from, aapl, msft, qa, qm, ca, cm, ha, hm) ==
    [from    |-> from,
     closes  |-> [s \in Symbols |-> IF s = "AAPL" THEN aapl ELSE msft],
     quotes  |-> [s \in Symbols |-> IF s = "AAPL" THEN qa ELSE qm],
     changes |-> [s \in Symbols |-> IF s = "AAPL" THEN ca ELSE cm],
     history |-> [s \in Symbols |-> IF s = "AAPL" THEN ha ELSE hm]]

\* Late first closes, days without one or with one of zero, failed fetches, answers that make
\* a holding worthless, and every kind of history.
SomeMarkets ==
    {Market(1, <<3, 4, 6>>, <<2, 0, 5>>, 12, 5, 25, -50, LongHistory, Gappy),
     Market(1, <<3, 4, 6>>, <<2, 3, 5>>, 7, 5, 25, Unavailable, LongHistory, Recent),
     Market(1, Restrict(<<0, 4>>, {2}), <<2, 3, 0>>, 7, Unavailable, -100, -50, Gappy, LongHistory),
     Market(1, <<0, 0, 6>>, <<>>, Unavailable, 4, 10, 10, LongHistory, NotFound),
     Market(2, <<3>>, Restrict(<<0, 5, 4>>, {2, 3}), Unavailable, Unavailable, 25, 25, LongHistory, LongHistory),
     Market(1, <<3, 0, 5>>, Restrict(<<0, 5, 4>>, {2, 3}), 6, 5, Unavailable, Unavailable, Gappy, Unavailable),
     Market(1, <<3, 4>>, <<3, 3>>, 6, 0, 25, 25, LongHistory, LongHistory),
     Market(2, <<>>, <<1, 5, 4>>, 6, 0, Unavailable, 25, Unavailable, LongHistory)}

SimpleRate(first, last, span) == ((last - first) * 100) \div (first * span)
=============================================================================
