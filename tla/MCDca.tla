-------------------------------- MODULE MCDca --------------------------------
(***************************************************************************)
(* Requests for simulations, built one holding at a time, over every mix   *)
(* of histories a few symbols can have.                                    *)
(***************************************************************************)
EXTENDS Dca

CONSTANTS
    Assets,     \* the symbols
    Plans,      \* the plans a request can carry
    Entries,    \* the holdings a request can list
    MaxWeight,
    MaxEntries,
    Providers,  \* functions from symbols to closes or an error
    LatestDay   \* today

\* The bindings of the handler, and closes above zero.
ASSUME RequestsAreBound ==
    /\ Plans \subseteq [frequency : STRING, start : Nat, end : Nat, amount : Nat \ {0}]
    /\ Entries \subseteq [symbol : Assets, weight : 1..MaxWeight]
    /\ {MaxWeight, MaxEntries, LatestDay} \subseteq Nat
    /\ \A p \in Providers, s \in Assets : p[s] \notin {Unlisted, Outage} =>
          DOMAIN p[s] \subseteq Nat /\ \A d \in DOMAIN p[s] : p[s][d] \in Nat \ {0}

\* The calendar has a month after today's.
ASSUME CalendarGoesOn == Months # <<>> /\ LatestDay < Months[Len(Months)]

\* The code divides in floating point; here the unit of money is so small that no amount
\* of a simulation is rounded.
ASSUME AmountsAreExact ==
    \A plan \in Plans, p \in Providers, s \in Assets, total \in 1..(MaxEntries * MaxWeight) :
        p[s] \notin {Unlisted, Outage} =>
            \A d \in DOMAIN p[s] : plan.amount % (total * p[s][d]) = 0

VARIABLES plan, provider, request

vars == <<plan, provider, request>>

DcaInit ==
    /\ plan \in {p \in Plans : Accepted(p, LatestDay)}
    /\ provider \in Providers
    /\ request = <<>>

AddHolding(h) ==
    /\ Len(request) < MaxEntries
    /\ request' = Append(request, h)
    /\ UNCHANGED <<plan, provider>>

DcaNext == \E h \in Entries : AddHolding(h)

DcaSpec == DcaInit /\ [][DcaNext]_vars

Histories == [s \in Assets |-> Fetched(provider[s], plan)]

-----------------------------------------------------------------------------
SameSimulation(one, other) ==
    /\ one.skipped = <<>>
    /\ one.symbols = other.symbols
    /\ one.assets = other.assets
    /\ one.combined = other.combined

Kept(skipped) == At(request, {i \in DOMAIN request : request[i].symbol \notin ToSet(skipped)})

\* "its weight is shared out among the rest, so the whole plan amount is still invested"
\* (usecase/dca/holdings.go:24): leaving the skipped assets out of the request gives the
\* same simulation, to the last unit, whatever they weighed and wherever they stood.
SkippedWeightIsSharedOut ==
    \E sim \in {SimulateHoldings(request, plan, Histories)} :
        Kept(sim.skipped) # <<>> =>
            SameSimulation(SimulateHoldings(Kept(sim.skipped), plan, Histories), sim)

\* The combined series c of assets that buy on the given dates.
AddsUp(c, dates) ==
    LET shared == CHOOSE D \in dates : TRUE
    IN  /\ c.points[Max(DOMAIN c.points)] = [invested |-> c.invested, value |-> c.final]
        /\ \A d, e \in DOMAIN c.points :
              d <= e => c.points[d].invested <= c.points[e].invested
        /\ dates = {shared} =>
              /\ c.periods = Cardinality(shared)
              /\ \A d \in DOMAIN c.points :
                    c.points[d].invested = plan.amount * Cardinality({e \in shared : e <= d})

\* The combined series agrees with its own totals and with the assets under it, on trading
\* calendars that differ: it ends on the final value, the money invested never goes down,
\* and assets that buy on the same dates have put in the whole amount on each
\* ("Per-asset results ... add up to combined", docs/features/dca.md).
CombinedAddsUp ==
    \E sim \in {SimulateHoldings(request, plan, Histories)} :
        sim.combined # <<>> =>
            AddsUp(sim.combined[1], {ResolveDates(plan, Histories[s]) : s \in ToSet(sim.symbols)})

Results(holdings) == Compare(SymbolsOf(holdings), plan, Histories).results

\* A simulation of the symbol alone would fail over its provider.
OneIsOut(symbols) == \E s \in ToSet(symbols) : SimulateStatus(plan, Histories[s]) = 500

\* One asset never spoils another: a symbol more in a request leaves the results of the
\* others and their order alone.  And "an outage is not reported as no history"
\* (usecase/dca/simulator.go:30), nor a lack of history as an outage: both requests fail
\* exactly when nothing could be simulated and one of the assets, wherever it stands in the
\* list, is out ("500 only when ...", docs/features/dca.md:20 and 26).
OneAssetNeverSpoilsAnother ==
    [][/\ IsPrefix(Results(request), Results(request'))
       /\ CompareStatus(SymbolsOf(request'), plan, Histories) = 500
            <=> Results(request') = <<>> /\ OneIsOut(SymbolsOf(request'))
       /\ HoldingsStatus(request', plan, Histories) = 500
            <=> /\ SimulateHoldings(request', plan, Histories).combined = <<>>
                /\ OneIsOut(SymbolsOf(request'))]_vars

ShortestMonth == Min({Months[m + 1] - Months[m] : m \in 1..(Len(Months) - 1)})

\* Every purchase is in the plan's range, no calendar week (or pair of weeks) has two, and a
\* monthly plan that starts on a day every month has buys on that day of each month, or on
\* the first trading day within a week after it ("then each subsequent calendar month",
\* usecase/dca/simulator.go:207).
PurchasesKeepTheirPeriods ==
    \A s \in Assets :
        Histories[s] \notin {Unlisted, Outage} =>
          LET dates == ResolveDates(plan, Histories[s])
              week(d) == (d - MondayOf(plan.start)) \div
                            (IF plan.frequency = "weekly" THEN WeekDays ELSE 2 * WeekDays)
              months == MonthOf(plan.start)..MonthOf(plan.end)
              day(m) == Months[m] + DayOfMonth(plan.start)
          IN  /\ dates \subseteq plan.start..plan.end
              /\ plan.frequency \in {"weekly", "biweekly"} =>
                    \A d, e \in dates : week(d) = week(e) => d = e
              /\ plan.frequency = "monthly" /\ DayOfMonth(plan.start) < ShortestMonth =>
                    dates = {Min(WithinAWeek(day(m), Histories[s])) :
                                m \in {m \in months : /\ day(m) <= plan.end
                                                      /\ WithinAWeek(day(m), Histories[s]) # {}}}

\* "Same day-of-month as startDate, then each subsequent calendar month"
\* (usecase/dca/simulator.go:207): in every month that has the day, the plan buys on it.
MonthlyDatesKeepTheirDay ==
    plan.frequency = "monthly" =>
        \A m \in MonthOf(plan.start)..MonthOf(plan.end) :
            LET day == Months[m] + DayOfMonth(plan.start)
            IN  m < Len(Months) /\ day < Months[m + 1] /\ day <= plan.end
                => day \in TargetDates(plan)

-----------------------------------------------------------------------------
\* The instance: weeks of three days of which two are trading days, a short second month.
SomeMonths == <<0, 5, 8, 13, 18, 23>>

AnyRange == [f \in Frequencies |-> IF f = "daily" THEN 10 ELSE 20]

SomePlans ==
    {[frequency |-> f, start |-> d, end |-> e, amount |-> 360] :
        f \in Frequencies, d \in {1, 2, 4}, e \in {9, 16}}

Every == {d \in 0..17 : d % WeekDays # 2}

SomePrices == [d \in Every |-> IF d % 4 = 0 THEN 1 ELSE IF d % 4 = 1 THEN 3 ELSE 2]

On(days) == [d \in days \intersect Every |-> SomePrices[d]]

\* The same calendar, a later listing, one that ends early, one with holidays, a single
\* close, none, and the two errors.
SomeHistories ==
    {On(0..17), On(8..17), On(0..9), On((0..17) \ {4, 6, 9, 12}), On({7}), On({}), Unlisted, Outage}

SomeProviders ==
    {m \in [Assets -> SomeHistories] : m["MSFT"] \in {On(0..17), On(0..9), Outage}}

SomeEntries ==
    {[symbol |-> "AAPL", weight |-> w] : w \in {1, 2}} \union {[symbol |-> "MSFT", weight |-> 2]}
=============================================================================
