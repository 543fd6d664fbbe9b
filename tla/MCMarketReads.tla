---------------------------- MODULE MCMarketReads ----------------------------
(***************************************************************************)
(* Two callers of one cache over a provider that comes and goes, and what  *)
(* the endpoints make of it.                                               *)
(***************************************************************************)
EXTENDS MarketReads

CONSTANTS
    Tradable, \* the symbols, in upper case, that are stocks or ETFs
    Parts,    \* the lists of symbols asked for
    Limits    \* the limits asked for, 0 for none

ASSUME RequestsAreParsed ==
    /\ Limits \subseteq Nat
    /\ \A parts \in Parts : parts \in Seq(Symbols \union {""})

\* Who sends both lists of symbols lists whatever is tradable.
ASSUME ListsAreComplete ==
    \A p \in Providers :
        LET stocks == ListSymbols(p.stocks)
            etfs   == ListSymbols(p.etfs)
        IN  {stocks, etfs} \intersect {Outage, <<>>} = {} => Tradable \subseteq UpperSet(stocks) \union UpperSet(etfs)

Answered(kind) == {c \in Callers : read = kind /\ pc[c] = "answered"}

-----------------------------------------------------------------------------
\* "better to over-return than to silently drop every result" (usecase/stock/search.go:121):
\* whichever lists the cache holds, however old and from however poor a provider, a search
\* that got an answer shows each tradable match of either endpoint once, the pages of any
\* size show all of it, and only a search that got none fails.
SearchesLoseNothing ==
    \A c \in Answered("universe") : \A p \in Providers :
        LET universe == answer[c].value
            shown    == DoSearch(p, universe)
            heard    == {p.bySymbol, p.byName} \ {r \in {p.bySymbol, p.byName} : Search(r) = Outage}
            symbols  == {m.symbol : m \in UNION {ToSet(Search(r)) : r \in heard}}
        IN  /\ (shown = Outage) <=> (heard = {})
            /\ heard # {} =>
                 /\ \A s \in symbols :
                        Upper[s] \in Tradable \/ universe = Unknown =>
                            Cardinality({i \in DOMAIN shown : shown[i].symbol = s}) = 1
                 /\ \A size \in 1..3 :
                        shown = FlattenSeq([page \in 1..3 |-> Page(shown, page, size)])
                            \/ Len(shown) > 3 * size

\* "FMP failures degrade and never return 500" and "type=all with limit splits 60/40"
\* (docs/features/popular.md): in every answer the curated assets come first and in order, the
\* limit holds, a list of all has its share of crypto even in an outage, and stocks are
\* missing only when the provider's were, or the limit was reached.
PopularKeepsItsShares ==
    \A c \in Answered("popular") : \A limit \in Limits : \A type \in {"crypto", "stock", "all"} :
        LET stocks == answer[c].value
            shown  == Popular(type, limit, stocks)
            crypto == {i \in DOMAIN shown : shown[i] \in ToSet(PopularAssets)}
            n      == Cardinality(crypto)
        IN  /\ limit > 0 => Len(shown) <= limit
            /\ crypto = 1..n /\ SubSeq(shown, 1, n) = SubSeq(PopularAssets, 1, n)
            /\ Cardinality(ToSet(shown)) = Len(shown)
            /\ type = "all" => n = Len(PopularAssets) \/ (5 * n >= 3 * limit /\ 5 * (n - 1) < 3 * limit)
            /\ type # "crypto" /\ stocks # Unknown =>
                  Len(shown) = n + Len(stocks.active) \/ Len(shown) = limit

NoWorse(label, other) ==
    \E i, j \in DOMAIN Labels : Labels[i] = label /\ Labels[j] = other /\ i >= j

\* No attempt of a call got any JSON.
Down(replies) ==
    \A i \in 1..MaxRetries : replies[i].status \in {"limited", "unreachable"} \/ replies[i].shape = "text"

\* The four signals of a score are the ones that this provider sent.
SentBy(p, score) ==
    /\ GetQuote(p.vix) = [price |-> score.vix]
    /\ GetQuote(p.index) = [change |-> score.change]
    /\ MarketMovers(p.gainers) # Outage /\ Len(MarketMovers(p.gainers)) = score.gainers
    /\ MarketMovers(p.losers) # Outage /\ Len(MarketMovers(p.losers)) = score.losers

\* "If any one of the four signals fails, the whole compute fails" and no score is made up
\* (docs/features/sentiment.md): a cached score is of one moment, at which the provider sent
\* every signal of it, and while one of them is down there is no score at all.  And a market
\* that is calmer, rises more and has more winners never scores lower, nor gets a label of
\* more fear, than the one in the cache.
ScoresFollowTheMarket ==
    \A c \in Answered("sentiment") :
        /\ IF answer[c].healthy THEN \E p \in Providers : SentBy(p, answer[c].value)
                                ELSE answer[c].value = Unknown
        /\ \A p \in Providers :
              Down(p.vix) \/ Down(p.index) \/ Down(p.gainers) \/ Down(p.losers) => Compute(p) = Degraded
        /\ \A p, q \in Providers :
              LET mixed == [p EXCEPT !.gainers = q.gainers, !.losers = q.losers]
              IN  answer[c].healthy /\ Compute(mixed).healthy =>
                  LET old == answer[c].value
                      new == Compute(mixed).value
                  IN  /\ /\ new.vix <= old.vix /\ new.change >= old.change
                         /\ new.gainers >= old.gainers /\ new.losers <= old.losers
                         /\ new.gainers + new.losers > 0 /\ old.gainers + old.losers > 0
                         => new.score >= old.score /\ NoWorse(new.status, old.status)
                      /\ old.score \in 0..100

\* A batch is its symbols one by one: in the order asked, each once, in any case; a request
\* without the parameter or for too many symbols is refused, and any other one fails exactly
\* when the lookup of one of its symbols would by itself, which it does whenever the provider
\* is down for that symbol.  A symbol that a single lookup does not find is an empty chart or
\* no change, never a reason to fail.  (A history refused in a JSON object is such a symbol to
\* both: infrastructure/fmp/client.go:362 reads the refusal as a history without rows.)
BatchesAgreeWithSingles ==
    \A parts \in Parts, range \in HistoryRanges \intersect BatchHistoryRanges :
        LET symbols == ParseSymbols(parts)
            history == BatchHistory(provider, parts)
            changes == BatchPriceChange(provider, parts)
            known   == At(symbols, {i \in DOMAIN symbols :
                                       GetPriceChange(provider.change[symbols[i]]) # NotFound})
            status(singles) == IF parts = <<"">> \/ Len(symbols) > MaxBatch THEN 400
                               ELSE IF 500 \in singles THEN 500 ELSE 200
            points  == [s \in ToSet(symbols) |-> GetHistoryClose(provider.history[s])]
            moves   == [s \in ToSet(symbols) |-> GetPriceChange(provider.change[s])]
        IN  /\ ToSet(symbols) = {Upper[s] : s \in ToSet(parts) \ {""}}
            /\ Len(symbols) = Cardinality(ToSet(symbols))
            /\ BatchStatus(parts, changes) = status({SymbolStatus(s, moves[s]) : s \in ToSet(symbols)})
            /\ BatchHistoryStatus(parts, range, history) =
                  status({HistoryStatus(s, range, points[s]) : s \in ToSet(symbols)})
            /\ changes # Outage => \A s \in ToSet(symbols) : ~Down(provider.change[s])
            /\ history # Outage => \A s \in ToSet(symbols) : ~Down(provider.history[s])
            /\ history # Outage => \A i \in DOMAIN symbols :
                  history[i].symbol = symbols[i] /\
                  history[i].points = (IF points[symbols[i]] = NotFound THEN <<>> ELSE points[symbols[i]])
            /\ changes # Outage => changes = [i \in DOMAIN known |-> moves[known[i]]]

-----------------------------------------------------------------------------
\* The instance.
Cased == "AAPL" :> "AAPL" @@ "aapl" :> "AAPL" @@ "MSFT" :> "MSFT" @@ "SPY" :> "SPY"
            @@ "spy" :> "SPY" @@ "EURUSD" :> "EURUSD"

Reply(status, shape, rows) == [status |-> status, shape |-> shape, rows |-> rows]

Steady(reply) == [i \in 1..MaxRetries |-> reply]

List(rows) == Steady(Reply("ok", "list", rows))

Limited == Reply("limited", "object", <<>>)

LateList(rows) == [List(rows) EXCEPT ![1] = Limited]

Unreachable == Steady(Reply("unreachable", "text", <<>>))

Refusal == Steady(Reply("failed", "object", <<>>))

Busy == Steady(Limited)

Found(symbols, by) == [i \in DOMAIN symbols |-> [symbol |-> symbols[i], name |-> by]]

Closes(days) == [i \in DOMAIN days |-> [day |-> days[i], close |-> days[i] % 3]]

Market(vix, change, gainers, losers) ==
    [stocks   |-> List(<<"AAPL", "", "MSFT">>),
     etfs     |-> LateList(<<"spy">>),
     bySymbol |-> List(Found(<<"aapl", "EURUSD">>, "symbol")),
     byName   |-> LateList(Found(<<"SPY", "aapl", "MSFT">>, "name")),
     active   |-> List(<<"AAPL", "MSFT", "SPY", "EURUSD">>),
     vix      |-> LateList(<<[price |-> vix]>>),
     index    |-> List(<<[change |-> change]>>),
     gainers  |-> List([i \in 1..gainers |-> i]),
     losers   |-> List([i \in 1..losers |-> i]),
     history  |-> "AAPL" :> List(Closes(<<3, 2, 1>>)) @@ "MSFT" :> List(<<>>)
                    @@ "SPY" :> LateList(Closes(<<2>>)) @@ "EURUSD" :> List(<<>>),
     change   |-> "AAPL" :> List(<<[of |-> "AAPL"]>>) @@ "MSFT" :> List(<<>>)
                    @@ "SPY" :> List(<<[of |-> "SPY"]>>) @@ "EURUSD" :> List(<<>>)]

\* Calm and panic, and markets of which one part or another is down.
SomeProviders ==
    LET calm == Market(13, 2, 3, 1)
    IN  {calm, Market(34, -2, 1, 3),
         [calm EXCEPT !.etfs = List(<<>>), !.index = Unreachable, !.active = Busy,
                      !.byName = Unreachable, !.history["SPY"] = Unreachable],
         [calm EXCEPT !.stocks = Refusal, !.vix = List(<<>>), !.active = List(<<"SPY">>),
                      !.bySymbol = Refusal, !.byName = Busy, !.change["SPY"] = Refusal,
                      !.history["AAPL"] = Refusal],
         [calm EXCEPT !.gainers = Busy, !.change["AAPL"] = Unreachable],
         [calm EXCEPT !.losers = Refusal, !.history["MSFT"] = Busy]}

Universes == {Universe(p) : p \in SomeProviders}

SomeOutcomes == Universes \union {Stocks(p) : p \in SomeProviders} \union {Compute(p) : p \in SomeProviders}

Curated == <<"BTC", "ETH", "BNB">>

Symmetry == Permutations(Callers)

SomeParts ==
    {<<"">>, <<"", "">>, <<"AAPL">>, <<"aapl", "", "MSFT", "AAPL">>, <<"SPY", "MSFT", "AAPL">>, <<"MSFT", "spy">>}
=============================================================================
