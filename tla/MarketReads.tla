----------------------------- MODULE MarketReads -----------------------------
(***************************************************************************)
(* What the market endpoints answer: the search behind its list of known   *)
(* symbols, the popular assets, the market sentiment, and the lookups of   *)
(* one or several symbols.  Replies of the provider change as time goes    *)
(* by; the symbol lists, the most active stocks and the sentiment are kept *)
(* in a TtlCache each, of which read says which one this is.               *)
(*                                                                         *)
(* A provider is a record with the replies (Fmp) of each of its endpoints. *)
(* Every search asks for the same keywords; the caches of search results,  *)
(* quotes and price changes are KeyedCaches and are left out.              *)
(***************************************************************************)
EXTENDS TtlCache, Fmp

CONSTANTS
    Providers,     \* what the provider may be like
    Upper,         \* strings.ToUpper, a function on the symbols in any case
    Unknown,       \* cached when a fill found nothing it can trust
    PopularAssets, \* the curated list
    MostActive,    \* the stocks getStocks asks for, 50
    MaxBatch       \* maxBatchSymbols, 10

Symbols == DOMAIN Upper

UpperCase == {Upper[s] : s \in Symbols}

\* What the provider may send.
Provider ==
    LET symbolList == Replies(Symbols \union {""})
        matches    == Replies([symbol : Symbols, name : STRING])
    IN  [stocks : symbolList, etfs : symbolList, bySymbol : matches, byName : matches,
         active : Replies(Symbols), vix : Replies([price : Int]), index : Replies([change : Int]),
         gainers : Replies(Nat), losers : Replies(Nat),
         history : [UpperCase -> Replies([day : Int, close : Int])],
         change : [UpperCase -> Replies([of : Symbols])]]

\* The provider lists each of the most active stocks once, and the curated assets are no stocks.
ASSUME MarketParameters ==
    /\ Upper \in [Symbols -> Symbols]
    /\ \A s \in Symbols : s # "" /\ Upper[Upper[s]] = Upper[s]
    /\ Providers \subseteq Provider
    /\ \A p \in Providers : \A i \in 1..MaxRetries : IsInjective(p.active[i].rows)
    /\ IsInjective(PopularAssets) /\ PopularAssets \in Seq(ToSet(PopularAssets) \ Symbols)
    /\ MostActive \in Nat
    /\ MaxBatch \in Nat

\* An error is no data.
ASSUME ErrorsAreNoData ==
    /\ NotFound # Outage
    /\ \A error \in {NotFound, Outage} :
          /\ error \notin [of : Symbols]
          /\ error \notin Seq([day : Int, close : Int])
          /\ error \notin Seq([of : Symbols])
          /\ error \notin Seq([symbol : Symbols, name : STRING])
          /\ error \notin Seq([symbol : Symbols, points : Seq([day : Int, close : Int])])

VARIABLES
    read,    \* the fill function of this cache
    provider

marketVars == <<vars, read, provider>>

Reads == {"universe", "popular", "sentiment"}

Degraded == [value |-> Unknown, healthy |-> FALSE]

-----------------------------------------------------------------------------
(* The search. *)

UpperSet(symbols) == {Upper[s] : s \in ToSet(symbols)}

\* Mutant of Universe: only an error makes a list unusable, not an empty one.
UniverseOfAnyLists(p) ==
    LET stocks == ListSymbols(p.stocks)
        etfs   == ListSymbols(p.etfs)
    IN  IF stocks = Outage \/ etfs = Outage THEN Degraded
        ELSE [value |-> [stocks |-> UpperSet(stocks), etfs |-> UpperSet(etfs)], healthy |-> TRUE]

\* The fill of loadUniverse: one list that failed or came empty spoils both.
Universe(p) ==
    LET stocks == ListSymbols(p.stocks)
        etfs   == ListSymbols(p.etfs)
    IN  IF \E list \in {stocks, etfs} : list = Outage \/ list = <<>> THEN Degraded
        ELSE [value |-> [stocks |-> UpperSet(stocks), etfs |-> UpperSet(etfs)], healthy |-> TRUE]

\* Symbol matches first; a symbol is listed once, as it was first found.
Merged(bySymbol, byName) ==
    LET all == bySymbol \o byName
    IN  At(all, {i \in DOMAIN all : \A j \in 1..(i - 1) : all[j].symbol # all[i].symbol})

FilterToStocksAndETFs(universe, matches) ==
    IF universe = Unknown THEN matches
    ELSE At(matches, {i \in DOMAIN matches :
                         Upper[matches[i].symbol] \in universe.stocks \union universe.etfs})

\* doSearch: the lists come last and from the cache.
DoSearch(p, universe) ==
    LET found(replies) == IF Search(replies) = Outage THEN <<>> ELSE Search(replies)
    IN  IF Search(p.bySymbol) = Outage /\ Search(p.byName) = Outage THEN Outage
        ELSE FilterToStocksAndETFs(universe, Merged(found(p.bySymbol), found(p.byName)))

\* The page of a list, never out of its range.
Page(all, page, size) ==
    LET offset == Min({(page - 1) * size, Len(all)})
    IN  SubSeq(all, offset + 1, Min({offset + size, Len(all)}))

-----------------------------------------------------------------------------
(* Popular assets. *)

\* The fill of getStocks.
Stocks(p) ==
    LET stocks == GetMostActiveStocks(p.active, MostActive)
    IN  IF stocks = Outage THEN Degraded ELSE [value |-> [active |-> stocks], healthy |-> TRUE]

\* Of a list of all assets with a limit, 60% rounded up, as far as there are any.
CryptoShare(limit) == Min({(limit * 6 + 9) \div 10, Len(PopularAssets)})

Upto(n, list) == SubSeq(list, 1, Min({n, Len(list)}))

\* Mutant of Popular: the stocks fill up to the limit without regard to the crypto.
PopularBothLimited(type, limit, stocks) ==
    LET limited(list) == IF limit = 0 THEN list ELSE Upto(limit, list)
        known == IF stocks = Unknown THEN <<>> ELSE stocks.active
    IN  CASE type = "crypto" -> limited(PopularAssets)
          [] type = "stock"  -> limited(known)
          [] type = "all"    -> limited(PopularAssets) \o limited(known)

\* list, with 0 for no limit: what is unavailable is left out.
Popular(type, limit, stocks) ==
    LET limited(list) == IF limit = 0 THEN list ELSE Upto(limit, list)
        known == IF stocks = Unknown THEN <<>> ELSE stocks.active
    IN  CASE type = "crypto" -> limited(PopularAssets)
          [] type = "stock"  -> limited(known)
          [] type = "all" /\ limit = 0 -> PopularAssets \o known
          [] type = "all" /\ limit > 0 ->
                Upto(CryptoShare(limit), PopularAssets) \o Upto(limit - CryptoShare(limit), known)

-----------------------------------------------------------------------------
(* The market sentiment, on whole numbers. *)

\* clampRound of the fraction n / d.
ClampRound(n, d) ==
    CASE n < 0 -> 0
      [] n > 100 * d -> 100
      [] OTHER -> (2 * n + d) \div (2 * d)

ScoreFromVIX(vix) == ClampRound((40 - vix) * 100, 30)

ScoreFromMomentum(change) == ClampRound((change + 3) * 100, 6)

ScoreFromBreadth(gainers, losers) ==
    IF gainers + losers = 0 THEN 50 ELSE ClampRound(gainers * 100, gainers + losers)

CompositeScore(vix, momentum, breadth) == ClampRound(5 * vix + 3 * momentum + 2 * breadth, 10)

Labels == <<"Extreme Fear", "Fear", "Neutral", "Greed", "Extreme Greed">>

StatusFromScore(score) == Labels[Min({score \div 20, 4}) + 1]

\* Mutant of Compute: movers that failed are none.
ComputeWithoutMovers(p) ==
    LET vix     == GetQuote(p.vix)
        index   == GetQuote(p.index)
        count(replies) == IF MarketMovers(replies) = Outage THEN 0 ELSE Len(MarketMovers(replies))
        gainers == count(p.gainers)
        losers  == count(p.losers)
    IN  IF vix \in {Outage, NotFound} \/ index \in {Outage, NotFound} THEN Degraded
        ELSE LET score == CompositeScore(ScoreFromVIX(vix.price), ScoreFromMomentum(index.change),
                                         ScoreFromBreadth(gainers, losers))
             IN  [healthy |-> TRUE,
                  value |-> [score |-> score, status |-> StatusFromScore(score),
                             vix |-> vix.price, change |-> index.change,
                             gainers |-> gainers, losers |-> losers]]

\* The fill of Execute: one signal that failed spoils the score.
Compute(p) ==
    LET vix     == GetQuote(p.vix)
        index   == GetQuote(p.index)
        gainers == MarketMovers(p.gainers)
        losers  == MarketMovers(p.losers)
    IN  IF vix \in {Outage, NotFound} \/ index \in {Outage, NotFound} \/ Outage \in {gainers, losers}
        THEN Degraded
        ELSE LET score == CompositeScore(ScoreFromVIX(vix.price), ScoreFromMomentum(index.change),
                                         ScoreFromBreadth(Len(gainers), Len(losers)))
             IN  [healthy |-> TRUE,
                  value |-> [score |-> score, status |-> StatusFromScore(score),
                             vix |-> vix.price, change |-> index.change,
                             gainers |-> Len(gainers), losers |-> Len(losers)]]

-----------------------------------------------------------------------------
(* One symbol and several. *)

\* parseSymbols, of what stands between the commas: <<"">> is a parameter that is empty or
\* missing.  Blanks read like a comma alone.
ParseSymbols(parts) ==
    LET upper == [i \in DOMAIN parts |-> IF parts[i] = "" THEN "" ELSE Upper[parts[i]]]
    IN  At(upper, {i \in DOMAIN upper : upper[i] # "" /\ \A j \in 1..(i - 1) : upper[j] # upper[i]})

\* Execute of the batches: an unknown symbol is nothing, any other error fails the batch.
BatchHistory(p, parts) ==
    LET symbols == ParseSymbols(parts)
        closes  == [i \in DOMAIN symbols |-> GetHistoryClose(p.history[symbols[i]])]
    IN  IF \E i \in DOMAIN symbols : closes[i] = Outage THEN Outage
        ELSE [i \in DOMAIN symbols |->
                 [symbol |-> symbols[i], points |-> IF closes[i] = NotFound THEN <<>> ELSE closes[i]]]

\* Mutant of BatchPriceChange: any error leaves its symbol out.
ChangesThatCame(p, parts) ==
    LET symbols == ParseSymbols(parts)
        changes == [i \in DOMAIN symbols |-> GetPriceChange(p.change[symbols[i]])]
    IN  At(changes, {i \in DOMAIN changes : changes[i] \notin {NotFound, Outage}})

BatchPriceChange(p, parts) ==
    LET symbols == ParseSymbols(parts)
        changes == [i \in DOMAIN symbols |-> GetPriceChange(p.change[symbols[i]])]
    IN  IF \E i \in DOMAIN symbols : changes[i] = Outage THEN Outage
        ELSE At(changes, {i \in DOMAIN changes : changes[i] # NotFound})

HistoryRanges == {"7d", "1M", "3M", "6M", "1Y", "5Y"}

BatchHistoryRanges == {"7D", "30D", "90D", "1Y", "All"}

\* GetQuote, GetPriceChange and GetProfile of the handler.
SymbolStatus(symbol, result) ==
    IF symbol = "" THEN 400
    ELSE CASE result = NotFound -> 404
           [] result = Outage -> 500
           [] OTHER -> 200

\* GetHistory.
HistoryStatus(symbol, range, result) ==
    IF range \in HistoryRanges THEN SymbolStatus(symbol, result) ELSE 400

\* GetBatchPriceChanges.
BatchStatus(parts, result) ==
    IF parts = <<"">> \/ Len(ParseSymbols(parts)) > MaxBatch THEN 400
    ELSE IF result = Outage THEN 500 ELSE 200

\* GetBatchHistory.
BatchHistoryStatus(parts, range, result) ==
    IF range \in BatchHistoryRanges THEN BatchStatus(parts, result) ELSE 400

-----------------------------------------------------------------------------
Outcome(p) == CASE read = "universe"  -> Universe(p)
                [] read = "popular"   -> Stocks(p)
                [] read = "sentiment" -> Compute(p)

\* Every fill is an outcome of the cache.
ASSUME FillsAreOutcomes ==
    \A p \in Providers : {Universe(p), Stocks(p), Compute(p)} \subseteq Outcomes

MarketInit ==
    /\ Init
    /\ read \in Reads
    /\ provider \in Providers

ProviderChanges ==
    /\ provider' \in Providers
    /\ UNCHANGED <<vars, read>>

MarketStep ==
    /\ Tick \/ \E c \in Callers : Begin(c) \/ Advance(c) \/ Run(c, Outcome(provider))
    /\ UNCHANGED <<read, provider>>

MarketNext == ProviderChanges \/ MarketStep

MarketSpec == MarketInit /\ [][MarketNext]_marketVars
=============================================================================
