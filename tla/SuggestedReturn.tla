--------------------------- MODULE SuggestedReturn ---------------------------
(***************************************************************************)
(* The expected annual return suggested for a portfolio: the growth rate   *)
(* of each open holding over its long history, weighted by current value.  *)
(* A holding that lacks a price or a history is skipped with a reason, and *)
(* what is suggested covers the others.                                    *)
(*                                                                         *)
(* A history is the set of closes [day, close] of a symbol, or the error   *)
(* that came instead.  Rates and weights are numbers in units of the last  *)
(* decimal shown; what math.Pow computes is the constant operator Rate.    *)
(***************************************************************************)
EXTENDS Valuation

CONSTANTS
    NotFound,            \* ErrSymbolNotFound instead of a history
    LongLookback,        \* SuggestedReturnLookbackYears, in days
    Slack,               \* fullHistorySlack, in days
    YearDays,            \* days of the shortest history that counts
    MonthDays,           \* days of a month
    MinVolatilityMonths, \* monthly returns a volatility needs
    Rate(_, _, _)        \* the growth rate for a first close, a last close and a span

ASSUME Thresholds ==
    /\ LongLookback \in Nat
    /\ Slack \in Nat
    /\ YearDays \in Nat
    /\ MonthDays \in Nat \ {0}
    /\ MinVolatilityMonths \in Nat

\* The closes cagr and monthlyLogReturns look at.
Usable(history) == {c \in history : c.close > 0}

FirstClose(history) == CHOOSE c \in Usable(history) : \A e \in Usable(history) : c.day <= e.day

LastClose(history) == CHOOSE c \in Usable(history) : \A e \in Usable(history) : c.day >= e.day

Span(history) == LastClose(history).day - FirstClose(history).day

Failed(history) == history \in {NotFound, Unavailable}

\* Less than a year between two closes is no history to annualise.
Annualises(history) == Usable(history) # {} /\ Span(history) > 0 /\ Span(history) >= YearDays

Cagr(history) == Rate(FirstClose(history).close, LastClose(history).close, Span(history))

MonthKey(day) == day \div MonthDays

\* The months that end a monthly return: they and the month before have a close.
ReturnMonths(history) ==
    LET closed == {MonthKey(c.day) : c \in Usable(history)}
    IN  {k \in closed : k - 1 \in closed}

Reasons == {"no_price", "no_history", "history_unavailable"}

\* Why a holding is skipped, or "used".
Verdict(symbol, prices, history) ==
    CASE symbol \notin DOMAIN prices -> "no_price"
      [] symbol \in DOMAIN prices /\ history[symbol] = Unavailable -> "history_unavailable"
      [] symbol \in DOMAIN prices /\ history[symbol] = NotFound -> "no_history"
      [] OTHER -> IF Annualises(history[symbol]) THEN "used" ELSE "no_history"

\* Mutant of Weighted: the skipped holdings keep their weight.
WeightedOverAll(figure, worth, used, all) ==
    RoundedQuotient(SumFunction([s \in used |-> worth[s] * figure[s]]),
                    SumFunction([s \in all |-> worth[s]]))

\* The mean by value of a figure of the holdings used.
Weighted(figure, worth, used, all) ==
    RoundedQuotient(SumFunction([s \in used |-> worth[s] * figure[s]]),
                    SumFunction([s \in used |-> worth[s]]))

\* The months every holding has a return for.
SharedMonths(used, history) ==
    {k \in UNION {ReturnMonths(history[s]) : s \in used} :
        \A s \in used : k \in ReturnMonths(history[s])}

HasVolatility(months) == Cardinality(months) >= MinVolatilityMonths

\* SuggestedReturn for the open holdings of one portfolio.
SuggestedReturn(holdings, p, quotes, history, today) ==
    LET open    == Open(OfPortfolio(holdings, p))
        symbols == DistinctSymbols(open)
        prices  == FetchQuotePrices(quotes, symbols)
        verdict == [s \in symbols |-> Verdict(s, prices, history)]
        used    == {s \in symbols : verdict[s] = "used"}
        priced  == symbols \intersect DOMAIN prices
        worth   == [s \in priced |-> PositionsValue({h \in open : h.symbol = s}, prices)]
        rate    == [s \in used |-> Cagr(history[s])]
    IN  [skipped    |-> [s \in symbols \ used |-> verdict[s]],
         rates      |-> rate,
         available  |-> used # {},
         annual     |-> IF used = {} THEN Unavailable ELSE Weighted(rate, worth, used, priced),
         volatility |-> used # {} /\ HasVolatility(SharedMonths(used, history)),
         start      |-> IF used = {} THEN today ELSE Min({FirstClose(history[s]).day : s \in used}),
         short      |-> \E s \in used : FirstClose(history[s]).day > today - LongLookback + Slack]
=============================================================================
