--------------------------------- MODULE Dca ---------------------------------
(***************************************************************************)
(* The dollar-cost-averaging simulator: the dates a plan buys on, one      *)
(* asset simulated, several compared, and a portfolio's holdings simulated *)
(* together at fixed weights.  Nothing is kept between requests.           *)
(*                                                                         *)
(* A day is a number, day 0 a Monday, and Months gives the first day of    *)
(* each calendar month.  A history is a function from trading days to      *)
(* closes, or the error that came instead.  Amounts are exact: the         *)
(* instance picks them divisible by every price and sum of weights.        *)
(***************************************************************************)
EXTENDS Integers, FiniteSetsExt, SequencesExt, Lists

CONSTANTS
    WeekDays, \* days of a week, and of the search for a trading day
    Months,   \* the first day of each calendar month, from day 0 on
    MaxRange, \* longest plan of each frequency, in days
    Unlisted, \* ErrSymbolNotFound instead of a history
    Outage    \* any other error instead of a history

Frequencies == {"daily", "weekly", "biweekly", "monthly"}

ASSUME Calendar ==
    /\ WeekDays \in Nat \ {0}
    /\ Months \in Seq(Nat)
    /\ Months[1] = 0
    /\ \A m \in 1..(Len(Months) - 1) : Months[m] < Months[m + 1]
    /\ MaxRange \in [Frequencies -> Nat]

\* parsePlan: the plans a request can carry.
Accepted(plan, today) ==
    /\ plan.frequency \in Frequencies
    /\ plan.start < plan.end
    /\ plan.end <= today
    /\ plan.end - plan.start <= MaxRange[plan.frequency]

-----------------------------------------------------------------------------
MondayOf(t) == t - (t % WeekDays)

MonthOf(t) == Max({m \in DOMAIN Months : Months[m] <= t})

DayOfMonth(t) == t - Months[MonthOf(t)]

\* Mutant of AddMonth: every month is as long as the first.
AddFirstMonth(t) == t + Months[2]

\* AddDate(0, 1, 0): a day the next month lacks runs over into the one after.
AddMonth(t) == Months[MonthOf(t) + 1] + DayOfMonth(t)

\* From the start on, a month at a time; each date is stepped from the one before.
MonthlyDates(start, end) ==
    LET date[n \in 0..(Len(Months) - 2)] ==
            IF n = 0 THEN start
            ELSE IF MonthOf(date[n - 1]) < Len(Months) THEN AddMonth(date[n - 1])
            ELSE end + 1
    IN  {date[n] : n \in DOMAIN date} \intersect start..end

\* The Mondays of the week of the start and of every week, or other week, after it.
WeeklyDates(start, end, step) ==
    {d \in MondayOf(start)..end : (d - MondayOf(start)) % step = 0}

TargetDates(plan) ==
    CASE plan.frequency = "weekly" -> WeeklyDates(plan.start, plan.end, WeekDays)
      [] plan.frequency = "biweekly" -> WeeklyDates(plan.start, plan.end, 2 * WeekDays)
      [] plan.frequency = "monthly" -> MonthlyDates(plan.start, plan.end)

WithinAWeek(t, prices) == {d \in DOMAIN prices : t <= d /\ d < t + WeekDays}

\* The purchase dates: every trading day, or the first one within a week of each target.
ResolveDates(plan, prices) ==
    IF plan.frequency = "daily"
    THEN (plan.start..plan.end) \intersect DOMAIN prices
    ELSE {Min(WithinAWeek(t, prices)) : t \in {t \in TargetDates(plan) : WithinAWeek(t, prices) # {}}}

-----------------------------------------------------------------------------
\* What the price fetcher answers for the range of a plan.
Fetched(closes, plan) ==
    IF closes \in {Unlisted, Outage} THEN closes
    ELSE [d \in DOMAIN closes \intersect plan.start..plan.end |-> closes[d]]

\* Execute: one asset.  An error is a string, or Outage; a result has a point for each
\* purchase and, if the market went on, one for the last trading day.
ErrorOf(plan, history) ==
    CASE history = Outage -> "upstream"
      [] history = Unlisted -> "ErrSymbolNotFound"
      [] OTHER -> IF DOMAIN history = {} THEN "ErrSymbolNotFound"
                  ELSE IF Cardinality(ResolveDates(plan, history)) < 2 THEN "ErrDateRangeTooShort"
                  ELSE "none"

\* The units that each purchase buys.
UnitsBought(prices, bought, amount) == [d \in bought |-> amount \div prices[d]]

Points(plan, prices, amount) ==
    LET bought == ResolveDates(plan, prices)
        last   == Max(DOMAIN prices)
        units(d) == SumFunctionOnSet(UnitsBought(prices, bought, amount), {e \in bought : e <= d})
    IN  [d \in bought \union {last} |->
            [bought   |-> IF d \in bought THEN amount \div prices[d] ELSE 0,
             units    |-> units(d),
             invested |-> amount * Cardinality({e \in bought : e <= d}),
             value    |-> units(d) * prices[d]]]

Execute(plan, prices, amount) ==
    LET bought == ResolveDates(plan, prices)
        units  == SumFunctionOnSet(UnitsBought(prices, bought, amount), bought)
    IN  [amount   |-> amount,
         invested |-> amount * Cardinality(bought),
         final    |-> units * prices[Max(DOMAIN prices)],
         periods  |-> Cardinality(bought),
         points   |-> Points(plan, prices, amount)]

SimulateStatus(plan, history) ==
    CASE ErrorOf(plan, history) = "none" -> 200
      [] ErrorOf(plan, history) = "ErrSymbolNotFound" -> 404
      [] ErrorOf(plan, history) = "ErrDateRangeTooShort" -> 400
      [] ErrorOf(plan, history) = "upstream" -> 500

\* What several assets give: results and skipped ones keep the order of the request, and
\* only an outage that leaves nothing is an error.
Survivors(symbols, plan, histories) ==
    At(symbols, {i \in DOMAIN symbols : ErrorOf(plan, histories[symbols[i]]) = "none"})

Skipped(symbols, plan, histories) ==
    At(symbols, {i \in DOMAIN symbols : ErrorOf(plan, histories[symbols[i]]) # "none"})

\* Mutant of Fails: only the error of the last symbol is kept.
FailsOnTheLastError(symbols, plan, histories) ==
    /\ Survivors(symbols, plan, histories) = <<>>
    /\ symbols # <<>> /\ ErrorOf(plan, histories[Last(symbols)]) = "upstream"

Fails(symbols, plan, histories) ==
    /\ Survivors(symbols, plan, histories) = <<>>
    /\ \E s \in ToSet(symbols) : ErrorOf(plan, histories[s]) = "upstream"

Distinct(symbols) ==
    At(symbols, {i \in DOMAIN symbols : \A j \in 1..(i - 1) : symbols[j] # symbols[i]})

CompareStatus(request, plan, histories) ==
    IF Fails(Distinct(request), plan, histories) THEN 500 ELSE 200

Compare(request, plan, histories) ==
    LET symbols == Distinct(request)
    IN  [results |-> [i \in DOMAIN Survivors(symbols, plan, histories) |->
                         LET s == Survivors(symbols, plan, histories)[i]
                         IN  [symbol |-> s, result |-> Execute(plan, histories[s], plan.amount)]],
         skipped |-> Skipped(symbols, plan, histories)]

-----------------------------------------------------------------------------
SymbolsOf(holdings) == [i \in DOMAIN holdings |-> holdings[i].symbol]

Weights(holdings) == [i \in DOMAIN holdings |-> holdings[i].weight]

\* The request's holdings [symbol, weight]: a symbol listed twice is one holding.
Merged(request) ==
    LET symbols == Distinct(SymbolsOf(request))
    IN  [i \in DOMAIN symbols |->
            [symbol |-> symbols[i],
             weight |-> SumFunctionOnSet(Weights(request),
                                         {j \in DOMAIN request : request[j].symbol = symbols[i]})]]

TotalWeight(holdings) == SumFunctionOnSet(Weights(holdings), DOMAIN holdings)

\* Mutant of Scaled: units keep the size they had before the rescale.
ScaledMoney(r, num, den) ==
    LET k(x) == (x * num) \div den
    IN  [r EXCEPT !.amount = k(@), !.invested = k(@), !.final = k(@),
                  !.points = [d \in DOMAIN @ |->
                                 [@[d] EXCEPT !.invested = k(@), !.value = k(@)]]]

\* scaleResult: every amount times num / den.
Scaled(r, num, den) ==
    LET k(x) == (x * num) \div den
    IN  [amount   |-> k(r.amount),
         invested |-> k(r.invested),
         final    |-> k(r.final),
         periods  |-> r.periods,
         points   |-> [d \in DOMAIN r.points |->
                          [bought   |-> k(r.points[d].bought),
                           units    |-> k(r.points[d].units),
                           invested |-> k(r.points[d].invested),
                           value    |-> k(r.points[d].value)]]]

\* Mutant of LatestPoint: an asset counts only on its own dates.
PointOfTheDay(points, d) ==
    IF d \in DOMAIN points THEN points[d] ELSE [invested |-> 0, value |-> 0]

\* An asset's latest point on or before a date.
LatestPoint(points, d) ==
    LET known == {e \in DOMAIN points : e <= d}
    IN  IF known = {} THEN [invested |-> 0, value |-> 0] ELSE points[Max(known)]

\* combineAssets: assets is a sequence of scaled results.
Combined(plan, assets) ==
    LET dates == UNION {DOMAIN assets[i].points : i \in DOMAIN assets}
        total(figure) == SumFunctionOnSet(figure, DOMAIN assets)
    IN  [amount   |-> plan.amount,
         invested |-> total([i \in DOMAIN assets |-> assets[i].invested]),
         final    |-> total([i \in DOMAIN assets |-> assets[i].final]),
         periods  |-> Cardinality({d \in dates : \E i \in DOMAIN assets :
                                      d \in DOMAIN assets[i].points /\ assets[i].points[d].bought > 0}),
         points   |-> [d \in dates |->
                          [invested |-> total([i \in DOMAIN assets |-> LatestPoint(assets[i].points, d).invested]),
                           value    |-> total([i \in DOMAIN assets |-> LatestPoint(assets[i].points, d).value])]]]

\* SimulateHoldings: each asset buys its share of the plan, and the survivors are scaled up
\* to the whole of it.
SimulateHoldings(request, plan, histories) ==
    LET holdings == Merged(request)
        whole    == TotalWeight(holdings)
        usable(h) == ErrorOf(plan, histories[h.symbol]) = "none"
        kept     == At(holdings, {i \in DOMAIN holdings : usable(holdings[i])})
        asset(h) == Scaled(Execute(plan, histories[h.symbol], (plan.amount * h.weight) \div whole),
                           whole, TotalWeight(kept))
        assets   == [i \in DOMAIN kept |-> asset(kept[i])]
    IN  [assets   |-> assets,
         symbols  |-> SymbolsOf(kept),
         skipped  |-> Skipped(SymbolsOf(holdings), plan, histories),
         combined |-> IF kept = <<>> THEN <<>> ELSE <<Combined(plan, assets)>>]

HoldingsStatus(request, plan, histories) ==
    IF Fails(SymbolsOf(Merged(request)), plan, histories) THEN 500 ELSE 200
=============================================================================
