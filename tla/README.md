# StackVest backend: TLA+ verification project

StackVest is a Go HTTP service over PostgreSQL, Redis and two outside providers (FMP for
market data, Groq for text). This directory models the parts of it whose correctness depends
on the order in which things happen, model-checks them with TLC and proves the central
results for all parameter values with TLAPS. Paths below are relative to the repository root;
`postgres.go` alone means `internal/repository/portfolio/postgres.go`.

## 1. The system

| Part | State it keeps | Operations | Talks to |
|---|---|---|---|
| Transaction ledger (`postgres.go`, `domain/portfolio`, `usecase/portfolio/transactions.go`) | `portfolios`, `portfolio_transactions`, and `portfolio_positions`, a cached fold of the transactions | create / patch / delete a transaction, add / remove a holding, delete a portfolio | PostgreSQL; called by concurrent HTTP handlers |
| Portfolios and quotas (`postgres.go:38-165`) | `portfolios`, count per user | create under a user-row lock, rename, delete | shares the user row with goals |
| Goals (`repository/goal`, `usecase/goal`) | `goals`, optional link to a portfolio | create under the user-row lock, replace, delete | link set to null when the portfolio goes |
| Valuation and returns (`usecase/portfolio/{portfolio,returns,benchmark,suggested_return}.go`) | none | fold positions, ledger and prices into figures, each view with lookups of its own | cached quotes and closes |
| Value snapshots (`usecase/portfolio/snapshot.go`, `pkg/worker/periodic.go`, `main.go`) | `user_value_snapshots`, one row per user and day | a periodic job prices every holding and upserts one batch; stopped at shutdown | quotes, PostgreSQL, the shutdown sequence |
| In-process caches (`pkg/cache/{keyed,ttl}.go`, `infrastructure/cached`) | a map (or one value) with expiries, calls in flight | Get, Set, Fill (coalesced) | wrap the FMP client for all handlers |
| Dividend calendar (`usecase/dividend`, `repository/dividend`, FMP tiles) | month buckets in Redis | read or fill each month of a window, multiply by the shares held before the ex-date | Redis, FMP, ledger |
| DCA simulator (`usecase/dca`) | none | dates of a plan, purchases, comparison, a portfolio's holdings together | cached histories |
| Market reads (`usecase/stock`, `usecase/sentiment`, `handler/popular.go`) | one `TTL` value each | search, batches, popular assets, the sentiment of the market | TTL caches, the FMP client |
| Analysis (`infrastructure/groq`, `usecase/analysis`) | none | walk a chain of models until one answers, then stream | Groq |
| Users, sign-in, watchlist | `users`, `watchlists` | single SQL statements | PostgreSQL, Google |
| Migrations, HTTP delivery, rate limiter, configuration | schema version; a map of token buckets | start-up; request plumbing | everything |

`PROJECT.json` lists every component with its sources and status, and every hazard with the
line where it bites.

What is hard here, and what has to hold:

* **Ledger.** A write is six to eight SQL statements of a READ COMMITTED transaction; nothing
  but the portfolio row lock keeps two of them apart. The position table must stay the fold
  of the transaction table, the stored ledger must never sell more than it holds, open
  positions must stay within the limit, an edit must not undo another one, a failure at any
  statement must leave no trace, and no request may wait for ever.
* **Replay.** The same rows in any entry order must give the same holding; rows can be
  backdated, and `created_at` is the start of the database transaction, so it can contradict
  the commit order. Rounding must not leak money.
* **Caches.** A fresh answer must never be older than its TTL, an error must not be
  remembered, and concurrent misses must cost one upstream call.
* **Snapshots.** A user's day is written with a complete total or not at all, and shutdown
  must not close the pool under a running job as long as its deadline has not passed.
* **Quotas.** Counts taken before an insert are only good under the lock of the user row.
* **Figures.** Rows, closes and quotes arrive on different days and fail one by one. A holding
  carried over, a late first close or a failed quote must never read as a gain or a loss, and
  the views that show the same money must not contradict each other.
* **DCA.** Calendars differ between assets, some have no history and some fail: the money of a
  skipped asset goes to the others, and an outage must not pass for an asset without history.
* **Degraded reads.** A poor list or an outage is cached too, for a shorter time; it must not
  hide results for a day, and what is shown must be whole whatever the cache holds.

## 2. Modules

| Module | Role |
|---|---|
| `Replay` | `domain/portfolio/ledger.go` as operators: ledger order, one loop iteration, the fold, the figures |
| `MCReplay` | grows ledgers row by row and checks `Replay` against definitions that do not walk rows |
| `Positions` | the vocabulary the ledger specifications share: patches, position rows, what a position must be |
| `LedgerAtomic` | abstract specification: what a caller of the repository interface is promised |
| `Ledger` | the repository: one action per SQL statement, any number of concurrent requests |
| `MCLedger` | instances of `Ledger` for TLC |
| `LedgerProofs` | theorems about `Ledger` |
| `KeyedCache` | `pkg/cache/keyed.go`: the map, its expiries and the coalesced fills of any number of callers |
| `MCKeyedCache` | instances of `KeyedCache` for TLC |
| `KeyedCacheProofs` | theorems about `KeyedCache` |
| `SnapshotJob` | the periodic job that records daily values, in every instance, and the shutdown sequence |
| `MCSnapshotJob` | instances of `SnapshotJob` for TLC |
| `SnapshotJobProofs` | theorems about `SnapshotJob` |
| `Dividends` | the dividend calendar: requests, month buckets in Redis, fills under singleflight, the tiles of a fill |
| `MCDividends` | an instance of `Dividends` for TLC |
| `DividendsProofs` | theorems about `Dividends` |
| `AccountsAtomic` | abstract specification of portfolios and goals: whole calls, quotas, links to one's own portfolios |
| `Accounts` | the same calls as the use cases and repositories run them, statement by statement |
| `MCAccounts` | an instance of `Accounts` for TLC |
| `AccountsProofs` | theorems about both |
| `Returns` | `usecase/portfolio/returns.go`, `benchmark.go`: the daily series, the flows, return and gain, on top of `Replay` |
| `Valuation` | list, summaries, holdings, analysis input, and the shares dividends count on |
| `SuggestedReturn` | `usecase/portfolio/suggested_return.go`: which holdings count, their weights, the months behind a volatility |
| `MCFigures` | grows ledgers row by row under a market and relates the three modules above to each other |
| `FiguresProofs` | theorems about `Replay`, for the ledgers `MCReplay` can grow, and about the three modules above, for the ledgers and markets of `MCFigures` |
| `Dca` | `usecase/dca` and the validation of its handler |
| `MCDca` | grows requests holding by holding, over plans and histories |
| `DcaProofs` | theorems about `Dca`, for the requests `MCDca` can grow |
| `CacheWindows` | abstract specification of the single-value cache: windows of one fill each |
| `TtlCache` | `pkg/cache/ttl.go`: the value, its two lives, the coalesced fills of any number of callers |
| `TtlCacheProofs` | theorems about `TtlCache`, among them that it implements `CacheWindows`, and about `MarketReads` behind it |
| `Lists` | the list of what passes a test, by position; used by `Fmp`, `MarketReads`, `Dividends`, `Dca` |
| `Fmp` | what the FMP client makes of the replies to one call |
| `MarketReads` | search, popular assets, sentiment and batches, over `Fmp` and behind a `TtlCache` |
| `MCMarketReads` | an instance of `MarketReads` for TLC |

### Replay

A ledger maps each transaction id to a row or to `NoRow`. Ids are natural numbers in
`created_at` order, the last key of `TransactionBefore`. Quantities are whole shares and money
counts units of the last stored decimal, so `Round8` of a quantity is the identity and
`Round8` of an amount rounds a fraction to an integer (`RoundedQuotient`, halves away from
zero as `math.Round`). The cost held is an exact fraction because the code rounds neither the
cost nor the average between rows. `Walk` is the loop as a fold of the community modules that
takes the last row in ledger order off and recurses.

### Ledger

State and code:

| Variable | Code |
|---|---|
| `exists`, `transactions`, `positions` | committed rows of the three tables, for one portfolio |
| `lock` | holder of `SELECT ... FROM portfolios ... FOR UPDATE` (`lockPortfolio`) |
| `rowWrites`, `positionWrites` | uncommitted writes of a request's database transaction |
| `pc`, `op`, `current`, `existing`, `before` | where a handler is, its call, and the Go locals `t`/`current`/`created`, `existing`/`all`/`remaining`, `before.Shares > 0` |
| `issued` | ids `gen_random_uuid()` has given out |

Actions and code:

| Action | Code |
|---|---|
| `Start` | handler enters the use case; `ownedPortfolio` finds the portfolio |
| `CheckNotOpen` | `AddPosition`'s check outside the transaction (`usecase/portfolio/portfolio.go:127`) |
| `FindTransaction` | `UpdateTransaction`'s read for validation, outside the transaction |
| `LockPortfolio` | `lockPortfolio`, waiting; the row may be gone when it wakes |
| `ReadCurrent`, `LoadExisting` | re-read of the row under the lock and the patch; `symbolTransactions` and the replay before the write |
| `InsertRow`, `RewriteRow`, `Reload` | INSERT, or UPDATE/DELETE followed by `symbolTransactions` again |
| `SyncPosition`, `CheckLimit` | `syncPosition`, `checkPositionLimit` |
| `RemovePosition`, `RemoveRows` | the two DELETEs of `Remove` |
| `DropPortfolio` | `DeletePortfolio`, one statement with its cascade |
| `Commit`, `Rollback` | commit; any error, disconnect or cancellation, at any stage |

A statement sees the committed rows overlaid with its own writes, so a stale read is possible
wherever the code does not hold the lock. Field validation (`validateTransaction`) is an
assumption on the inputs (`InputsAreValidated`). `MaxAmount` stands for the range of
NUMERIC(20,8): a figure beyond it makes the upsert fail.

Left out: names and notes of rows, the rename of a portfolio (`UpdatePortfolio` touches no
ledger row), pure reads, a second portfolio (no ledger write touches two), and the
`is_opening` rows that migration 12 creates (they replay as buys).

### KeyedCache

One action is what runs between two points where another goroutine can get in: the mutex of
the map, the mutex of the singleflight group, the call to the provider. A datum is the version
the provider had when it answered, so "older" can be said of two answers.

| Variable | Code |
|---|---|
| `items` | `Keyed.items`: key to value and expiry. Expired entries stay until overwritten |
| `flight` | the singleflight group: which caller runs the function for a key |
| `pc`, `asked`, `answer` | where each caller is in `Fill`, its key, and the `(value, err)` it will return |
| `now`, `provider` | the clock; the provider's current version of each key |
| `since`, `served`, `floor`, `failure` | history for the properties: when the answering call began, the newest version returned so far, that at the caller's start, and whether a fetch failed during the call |

| Action | Code |
|---|---|
| `Begin` | the first `Get` of `Fill` |
| `Join` | `singleflight.Do`: become the leader of a flight, or wait for one (library) |
| `Recheck` | the second `Get`, inside the flight |
| `Fetch`, `FetchFails` | `fn()`: the provider's answer, or an error, which is not stored |
| `Store` | `Set`, with the clearing of a full map |
| `Finish`, `Return` | the flight ends and all who waited get the leader's result (library); `Fill` returns |
| `Tick`, `ProviderChanges` | the environment |

`AnswersWereFresh` measures from the start of the *leader's* call for a caller who was
coalesced: the leader may have found an entry good that expires before a waiter joins, and the
waiter then gets a value that had expired when its own call began. The window is the time
between the leader's look and the end of its flight. Left out: a panic in `fn`, and what the
decorators in `infrastructure/cached` do to a key before and to a value after `Fill`.

### SnapshotJob

What a user holds is the set of symbols with shares and a total is the set of symbols that went
into it, so a partial total shows. Trades are counted, so of two totals one can say which is
older.

| Variable | Code |
|---|---|
| `rows` | `user_value_snapshots`; each row also remembers what its user held, when and on which day |
| `holdings`, `trades`, `today` | what `ListAllHoldings` would read, how many trades there were, the UTC date |
| `main`, `deadline` | where `runUntilShutdown` is, and whether its ten seconds are over |
| `job`, `run` | where the goroutine of `StartPeriodic` is, and the locals of `SnapshotValues` |

| Action | Code |
|---|---|
| `ListHoldings` | `ListAllHoldings`: one statement, which may fail |
| `StartQuote`, `EndQuote` | a goroutine of `fetchQuotePrices` looks at the context and asks; the answer, with or without a usable price. `GetQuote` takes no context |
| `PricingDone` | `g.Wait`, the look at the context, users with an unpriced holding removed |
| `SendBatch`, `CommitBatch`, `EndBatch` | the batch takes a connection, its implicit transaction commits, the client has an answer, an error, or gives up |
| `Select`, `Recheck` | the loop of `StartPeriodic`; a ticker may have fired at any time |
| `Start`, `Crash` | the process starts with a run that waits for no tick; it dies anywhere |
| `Signal`, `Drained`, `StopReturns`, `PoolCloses`, `Exit`, `DeadlinePasses` | `runUntilShutdown` and its cleanups under their one deadline |

Left out: amounts (a total that exceeds its column fails the whole batch, see the hazards),
requests in flight at shutdown (`Drained` may happen at any moment, as they may end or be given
up at any moment), and Redis.

### Dividends

A calendar is a set of rows with a symbol, an ex-date and a payment date or none; the provider
publishes a sequence of calendars and may move on between any two calls, so one bucket can mix
two of them. Days are integers and months have `MonthDays` days.

| Variable | Code |
|---|---|
| `cache` | the buckets in Redis; each also remembers the first and the last calendar its calls may have met |
| `flight` | the singleflight group of `CalendarUseCase`: which request fills a month |
| `pc`, `window`, `month`, `entries` | where each request is in `Execute`, its resolved window, the month at hand, what it has collected |
| `fill` | of a request that leads: rows per tile, and the ranges each tile has still to ask for |
| `abandoned` | its context is cancelled |
| `version`, `refused` | the provider's current calendar; history: a call of the month's fill failed |

| Action | Code |
|---|---|
| `Start` | `resolveWindow` with its defaults and bounds |
| `NextMonth` | the loop over `monthsIn`, its look at the context, the final sort |
| `Get` | `RedisCache.Get`; an error counts as a miss |
| `Join` | `singleflight.Do`: wait, or lead and cut the range into tiles |
| `Ask`, `AskFails` | one call of `fetchCalendarTile`: rows below the cap are kept, others are asked for again in halves; an error ends the fill |
| `Fetched`, `Store`, `Finish` | the filter by reference date, `RedisCache.Set` (which may fail), the result for all who share the flight |
| `Return`, `Abandon`, `Expire`, `Revise` | the answer is sent; the environment |

`Running` is the order in which the errgroup lets tiles start. The assumption `RowsAreWithinReach`
names the two limits the code documents: payments later than the look-back and days that alone
reach the row cap are missed. Today is fixed. The shares an event counts on are in `Valuation` (`CalendarEntries`). Left out:
the database reads that come first. The retries inside a call are in `Fmp`.

### Accounts

Portfolios and goals of all users. A portfolio's name and description are abstracted to whether
they were edited, a goal's inputs to its link.

| Variable | Code |
|---|---|
| `portfolios`, `goals` | committed rows of the two tables |
| `issued` | ids of rows that were ever committed; `gen_random_uuid()` never repeats one |
| `lock` | holder of `SELECT id FROM users ... FOR UPDATE`, per user |
| `pc`, `call` | where each handler is, and its call; after the insert `call.id` is the uncommitted row |

| Action | Code |
|---|---|
| `FindGoal` | `ownedGoal`, before the statement that writes |
| `CheckPortfolio` | `ownedPortfolio` for calls on portfolios, `checkPortfolio` for the link of a goal |
| `LockUser`, `Count`, `Insert`, `Commit` | the two creations; the foreign key refuses a link that is gone |
| `UpdatePortfolio`, `UpdateGoal`, `DeleteGoal` | one statement each, by id |
| `DeletePortfolio` | waits while an uncommitted goal refers to the portfolio, then clears the links to it |
| `Fail` | any error, disconnect or cancellation; the transaction is rolled back |

PostgreSQL's part is in three places: FOR UPDATE excludes, an uncommitted foreign key holds the
row it refers to, and a DELETE that waited sees what was committed meanwhile. Two creations of
one user wait for each other whatever they create, as both tables are counted under the same row.
Callers name ids that were issued, their own or not; other ids find no row. Left out: the
listings, the sign-in that creates users (nothing deletes one), and ledger rows, which
`Ledger` models for one portfolio.

### Returns, Valuation, SuggestedReturn

These parts of the code keep nothing; the modules are operators over a ledger, closes, quotes
and histories, on exact numbers, and `MCFigures` is the machine that grows a ledger row by row
under a market. `0` stands for a price that is missing or not positive, `Unavailable` for a
lookup that failed. The list of portfolios and the benchmark overlay are the two places that take
any price: a quote of zero is an answer to the first, and a close of zero a point of the second.

| Operator | Code |
|---|---|
| `ActiveSymbols`, `LoadedCloses` | which closes `seriesFor` loads, from a week before the window on |
| `PriceOn`, `SharesOn`, `FlowOn`, `ValueOn`, `Series` | `buildSeries`: forward-filled prices, today's quote, the defensive floor at zero shares, flows of a day, the first day a symbol can be priced |
| `Growth`, `Gain`, `WindowReturn`, `AttachedReturns` | `domain/portfolio/returns.go`, `windowReturn`, `attachReturns`; a growth is a fraction |
| `BenchmarkOverlay` | `attachBenchmark` with its fetch and alignment |
| `ListEntry`, `Summary`, `SummaryOfAll`, `EnrichedHolding`, `AnalysisData` | `enrichPortfolios`, `GetSummary`, `GetPortfoliosSummary`, `enrichPositions`, `BuildAnalysisData` |
| `CalendarEntries` | the shares of an event in `CalendarUseCase.Execute`: `sharesBefore` its ex-date from the ledger, or the current positions |
| `SuggestedReturn`, `Verdict` | `SuggestedReturn`, `holdingReturn`: used, or skipped with a reason |

`Rate` is what `math.Pow` computes, a constant operator; the standard deviation behind a
volatility is left out, the months it needs are not.

### Dca

Day 0 is a Monday, `Months` gives the first day of each calendar month, a history is a function
from trading days to closes or an error. `TargetDates` and `ResolveDates` are the loops of
`targetDates` and `resolveDates`, `Execute` one asset, `Compare` several, `SimulateHoldings` a
portfolio with its weights rescaled, and the `...Status` operators what the handler answers. A loop
that keeps what passes a test (survivors, skipped assets, symbols without repetitions) is the list
at the positions that pass (`At`). A share is `(amount * weight) \div total` and units are
`amount \div price`: whole numbers, with money counted in a unit that divides evenly
(`AmountsAreExact`), where the code divides floats.
Money-weighted and annualised rates are left out.

### TtlCache and CacheWindows

As in `KeyedCache`, one action lies between two points where another goroutine can get in.

| Variable | Code |
|---|---|
| `item` | `TTL.value`, `negative` (as `healthy`) and `expires` |
| `flight`, `pc`, `answer` | the singleflight group; where each caller is in `Fill`, and what it will return |
| `since`, `failed` | history: when the call began that answers a caller, when a run last failed |

`CacheWindows` is what callers may rely on: a window is opened by one run of the function when
the last one is over, and answers are those of the last window. The refinement mapping shows an
answer once its flight has ended; `failed` and `since` do not appear in it. Unlike `Keyed`, the
expiry itself is already too late (`Before`), and the life begins when the value is stored.

### Fmp and MarketReads

A reply has a status, the shape of its body and rows; a call is what up to three attempts would
get. `Get` retries on 429 only and passes any other status on, as `doGet` does; `Rows` and
`HistoricalRows` decode a list, or a list or an object. One consequence is worth knowing: a
refusal (401, 5xx) whose body is a JSON object is read as a history without rows, hence as
`ErrSymbolNotFound`. The endpoints that decode a list fail on the same reply.

`MarketReads` composes `TtlCache` with the endpoints: `read` says which fill function the cache
has (the universe of the search, the popular stocks, the sentiment), `provider` holds the replies
of all endpoints and changes at any time. `Universe`, `DoSearch`, `Popular`, `Compute`,
`BatchHistory` and `BatchPriceChange` are the use cases, `SymbolStatus`, `HistoryStatus`,
`BatchStatus` and `BatchHistoryStatus` what their handlers answer: 400 for a symbol, a list of
symbols or a range that is missing or not valid, and for too many symbols. The parameter
`symbols` is modelled as what stands between its commas, so `<<"">>` is one that is missing and
`<<"", "">>` one that holds a comma only, which names no symbol and is answered with an empty list.

## 3. Runs

| Run | Question | Bounds and why they are enough |
|---|---|---|
| `replay` | Does `Replay` accept exactly the ledgers that never oversell, ignore the order rows were recorded in, and conserve money? | three rows of one symbol, quantities 1-3, two prices, fees and days: two sells around a buy, partial and full sales, re-buys after a full sale, ties on a day, averages that do not divide |
| `ledger_races` | Do two concurrent requests leave a matching cache, a valid ledger, merged edits and at most the allowed open positions, and look atomic? | two symbols under a limit of one, three ids, two days, quantities 1-2: an oversell takes two rows and two sellers, a lost edit two patches of one row, a limit overrun a closed symbol that reopens while the other opens. `MaxAmount` 3 makes overflow reachable |
| `ledger_live` | Does every request that started return? | two requests and two ids: one holds the row while the other waits, and either may fail |
| `keyed_cache` | Are fetches coalesced and needed, answers fresh and never older than one already returned, and does every `Fill` return? | two callers (a leader and a waiter or late-comer), two keys in a map of one entry (each evicts the other), a life of one tick in two, one change of the provider's data per key |
| `snapshot_job` | Are totals complete, of their day and only replaced by later ones; does shutdown leave nothing running, and does it end? | one instance that is stopped, crashes and restarts; two users with any of two symbols, so that one user can be skipped while the other is written; two lookups at a time; one trade; one midnight |
| `snapshot_instances` | Does a day's row only move forward when two instances run? **No**, see below | two instances, one user, two symbols, one trade |
| `dividend_calendar` | Do answers hold every row of their window once; are buckets never replaced by older ones; do fills survive the request that began them? | two requests with overlapping windows of one and two months, months of four days; a fill of two tiles, one split twice at a cap of two rows; a revision that moves a payment into the next month and withdraws a row; windows refused for their length and their bounds |
| `accounts` | Do concurrent calls keep the quotas, leave every goal with a link of its user's own or none, and look atomic? | two requests of any kind, two users, quotas of one, three portfolio and two goal ids: two creations race for the last place, a link is checked, its portfolio deleted and another created |
| `figures` | Is each day's gain explained by prices and trades; do the views of the same money agree; are outages shown as such; does a suggestion account for every holding? | three rows of buys, sells and carried-over holdings of two symbols in two portfolios over three days; eight markets with late first closes, gaps, closes of zero, failed quotes and changes, a quote of zero, a fall by 100 %, and every kind of history |
| `dca` | Is a skipped asset as if never asked for; does the combined series add up; are no periods lost or bought twice; does an asset's failure stay its own, and is an outage alone an error? | up to three holdings of two symbols, every frequency, plans over three and four months of unequal length, weeks with a day without trading, histories that are late, early, gappy, empty or failed |
| `dca_drift` | Does a monthly plan buy on its day in every month that has it? **No**, see below | the same requests; the second month is shorter than the first |
| `market_reads` | Is the cache one fill per window; are outages forgotten; do searches, popular lists, scores and batches stay whole? | two callers, lives of two ticks and one in four, six states of the provider (calm, panic, and four in which each endpoint is once down, busy, empty or refused), every limit around the 60/40 split, batches with no, repeated, unknown, lower-case and too many symbols |

`snapshot_instances` is an expected violation. `docs/features/portfolio.md` says that running
more than one instance is safe because "the instances write the same value". Each instance lists
holdings and asks for quotes in its own run; if the user trades in between, the values differ,
and the instance whose quotes were slow commits its older total last. The row is wrong until
the next run, and stays wrong if there is none that day. A rolling deployment has two instances
for a while, and each runs the job when it starts.

`dca_drift` is an expected violation. `simulator.go:207` says "Same day-of-month as startDate, then
each subsequent calendar month". The loop adds a month to the date before, and `AddDate` runs a
missing day over into the next month: from January 31 on the plan buys on March 3, April 3 and so
on. February is skipped and no later month gets its 31st. The passing property
`PurchasesKeepTheirPeriods` says what holds for plans that start on a day every month has.

Requests are interchangeable, so the ledger, account and calendar runs use symmetry where they
check safety only, and `market_reads`, whose callers are, too. `CHECK_DEADLOCK FALSE`: once the
portfolio is deleted no call can start, and the enumerations of ledgers and requests end when
all ids or entries are used; these are legitimate ends. All other runs check for deadlock: whatever happened, some caller of
a cache can go on, a process can be killed or started, some request of the calendar can go on or
begin, and in the accounts a call can start or fail. `IdsExhausted` names the bound on ids; `MaxTime` and
`MaxVersion` are the bounds of the caches.

Fairness (`FairSpec`): weak fairness of a running request's next statement, because a
goroutine whose query is answered goes on; strong fairness of the statements that wait for
the portfolio row, because PostgreSQL queues waiters for a row and wakes them in turn.
Nothing is assumed to start and nothing is assumed to fail. For the cache: weak fairness of a
caller inside `Fill`, because goroutines are scheduled and the provider's HTTP client has a
timeout, so a fetch ends one way or the other. Nobody has to call `Fill`. For the job: weak
fairness of its goroutine, of the shutdown sequence and of the deadline's timer; none for a
quote, because the client may retry three times for twenty seconds each, far beyond the
deadline.

Every property is paired in `PROJECT.json` with a mutant: a plausible slip in the code
(no `FOR UPDATE`, no rollback on an early return, the created row not appended, the limit
checked on creation only, ...) under which the run's instance violates it.

## 4. Proofs

### Ledger

For every set of requests, symbols, rows, patches and every limit:

| Theorem | Says |
|---|---|
| `Typing` | `Spec => []TypeOK` |
| `CacheIsDerived` | `Spec => []PositionsMatchLedger` |
| `LedgerIsAlwaysValid` | `Spec => []StoredLedgerReplays` |
| `LimitHolds` | `Spec => []OpenPositionsWithinLimit` |
| `EditsAreMerged` | `Spec => EditsMerge` |
| `Refinement` | `Spec => ImplementsAtomicLedger` |

Assumptions: `RowDomains`, `NoRowIsNotARow`, `InputsAreValidated`, `NoPositionIsNotAPosition`,
`NoRequestIsNotARequest`, each declared where its constants are and evaluated by TLC in every
run.

The argument. None of the safety properties is inductive: at `commit` they depend on what the
request read many steps earlier. `IInv` says three things. (1) *A request inside its database
transaction holds the lock*, hence there is at most one (`LockHolderAlone`). (2) *The working
copies of the holder are functions of the committed rows*: at each stage `current`,
`existing`, `before`, `rowWrites` and `positionWrites` are what a reader of the committed
tables would compute at that moment. This is stable because only the holder's commit and
`DropPortfolio`, which needs the lock free, change committed rows. (3) *The committed rows are good*:
every symbol replays, fits its columns, is matched by its position, and the limit holds. A
commit then installs exactly the result of one `LedgerAtomic` action (`CommitOfWrite`,
`CommitOfRemoval`), which re-establishes (3) and gives the refinement; all other steps leave
`exists`, `transactions` and `positions` alone. The proofs treat `Replays` and `Figures` as
opaque, so they hold for any replay function; what replay computes is the subject of the next
theorems.

### Replay

For every set of ids, however large, and every set of whole quantities, prices, fees and days,
from `RowDomains` and `NoRowIsNotARow`:

| Theorem | Says |
|---|---|
| `ReplayTyping` | `ReplaySpec => []IInv`: what is stored is finitely many rows |
| `ReplaysByDailyTotals` | `ReplaySpec => []ReplayAgreesWithDailyTotals` |
| `CashIsAlwaysConserved` | `ReplaySpec => []CashIsConserved` |
| `CreationOrderNeverMatters` | `ReplaySpec => []FiguresIgnoreCreationOrder` |

`Walk` is a fold over data, and the library's induction theorems cannot be instantiated here. The
proofs go around both. `WalkTable` shows that the fold has a table: a function `g` from sets of
stored rows to holdings with `g[s] = ReplayRow(g[s \ {last}], last)`, of which `Walk` reads one
entry. What holds of every entry is proved by the least counterexample: of the finite sets for
which it fails, one of least cardinality is not empty, without its last row the statement holds, and
`ReplayRow` carries it over. So `ReplaysByDailyTotals` needs only that a buy adds, a sell takes
away, and buys come before the sells of their day. `CashIsAlwaysConserved` carries the bound, half
a unit for each sell, along the walk, multiplied by the denominator of the fraction
(`WalkKeepsCash`). For `CreationOrderNeverMatters`, holdings are compared up to a common factor of
that fraction (`SameHolding`): two rows that tie commute (`TiesCommute`), so any of the rows that
tie for the last place may come last (`AnyTopMayComeLast`), and a ledger with two rows swapped
walks like the original with renamed ids (`RenamedWalk`).

### Figures

For every finite set of portfolios, symbols and days, all rows and markets, every rate and every threshold, from `RowDomains`,
`NoRowIsNotARow`, `LookbackIsDays`, `UnavailableIsNoFigure`, `Thresholds`, `RecordedRows` and `ProvidedPrices`:

| Theorem | Says |
|---|---|
| `FiguresTyping` | `Spec => []FiguresIInv` |
| `GainsAlwaysExplained` | `Spec => []DailyGainExplained` |
| `ActiveSymbolsAlwaysDo` | `Spec => []ActiveSymbolsSuffice` |
| `GainsMatchProfits` | `Spec => []GainMatchesProfit` |
| `OutagesAlwaysShow` | `Spec => []OutagesShowAsUnknown` |
| `ViewsAlwaysAgree` | `Spec => []ViewsAgree` |
| `SuggestionsAddUp` | `Spec => []SuggestionIsAccountedFor` |

`ProvidedPrices` is only about types: a quote that comes is a natural number, a change an integer,
and a history finite. Zero is a quote, and a price may fall by 100 %. `portfolio.go:480` says that
an outage reads as `null` "rather than a misleading $0". `OutagesShowAsUnknown` says when the list
shows $0 all the same: for a portfolio without open holdings, and for one all of whose lookups that
came back are `Worthless`. `fetchPrices` takes a quote of zero, which the summary and the
snapshots leave out, and `aggregateValue` skips a holding whose price fell by 100 %, since it would
divide by zero. Such an answer is no outage, so this is not counted as a finding; if it comes for
one holding while the lookup of another fails, the list does show $0 for a portfolio that may be
worth more.

`DailyGainExplained` compares the chart of a single carried-over symbol with the overlay of the same
symbol on the days before today. `alignBenchmark` shows every close it got, zero included, where the
series waits for the last one above zero; the two are compared where the overlay is above zero.

`FiguresIInv` says that the rows are recorded trades with ids given in order and that the rows of
every holding replay. The rest is algebra of finite sums, built up from `SumFunctionOnSet` at the
start of `FiguresProofs`: sums of equal, added, scaled and negated functions,
over disjoint sets, grouped by a key (`SumGrouped`), and over days one after the other.

* `GainsAlwaysExplained` rewrites the value and the flow of a day as sums over symbols and rows.
* `ActiveSymbolsAlwaysDo` shows that a symbol without shares or rows in the window adds nothing.
* `ViewsAlwaysAgree` groups the same holdings by portfolio and by symbol.
* `GainsMatchProfits` relates two algorithms: the gain walks days and prices, the P&L replays rows.
  Both are brought to the value of today less the cash paid in (`GainIsValueLessCash`,
  `GainIsProfit`), the first by summing the days, the second by `HoldingKeepsCash` for each holding, whose
  roundings add up to the bound stated.

### KeyedCache

For every set of callers and keys, any life of an entry and any bound on the map, from
`CacheParameters` alone:

| Theorem | Says |
|---|---|
| `CacheTyping` | `Spec => []TypeOK` |
| `FetchesNeeded` | `Spec => []FetchesAreNeeded` |
| `FreshAnswers` | `Spec => []AnswersWereFresh` |
| `MonotonicReads` | `Spec => []ReadsAreMonotonic` |
| `ErrorsNotRemembered` | `Spec => []ErrorsAreNotRemembered` |
| `SizeBounded` | `Spec => []WithinMaxSize` |

The inductive invariant has four ideas. `Flights`: the group and the callers agree on who leads
and who waits, hence one leader per key. `Fetching`: a key that is being fetched or stored is
not fresh; only its own leader can store it, and time only expires entries. `Fresher`: an
answer in hand had not expired when the call behind it began. `Ordered`: versions only grow
from what was returned, to what is stored or in a leader's hand, to the provider's; this is
where the single leader per key matters, as two overlapping fetches could be stored in the
wrong order. The remaining two properties are inductive themselves once `IInv` is known.

### TtlCache

For every set of callers and outcomes and any two lives, from `TtlParameters` alone:

| Theorem | Says |
|---|---|
| `TtlTyping` | `Spec => []TypeOK` |
| `Forgetting` | `Spec => []OutagesAreForgotten` |
| `TtlImplementsWindows` | `Spec => ImplementsWindows` |

`IInv` says of each caller what its stage implies (`Known`): whoever leads is the flight, a
waiter began with its leader, while the function runs or its value is about to be set the old
value is over, and what a leader leaves with is the value stored. From this every `Set` maps to
the opening of a window after the last one is over, every first look that hits and every
`Finish` to answers of the window that is open, and all other steps to a stutter. `StoredSound`
adds that an unhealthy value is of a run that failed and does not outlive the negative life.

### Market reads

For every set of providers, every list of curated assets, every limit, batch and set of tradable
symbols, from `TtlParameters`, `ClientRetries`, `MarketParameters`, `ErrorsAreNoData`,
`FillsAreOutcomes`, `RequestsAreParsed` and `ListsAreComplete`:

| Theorem | Says |
|---|---|
| `MarketCachesKeep` | `MarketSpec => ImplementsWindows /\ []OutagesAreForgotten` |
| `ScoresAlwaysFollow` | `MarketSpec => []ScoresFollowTheMarket` |
| `PopularAlwaysKeepsItsShares` | `MarketSpec => []PopularKeepsItsShares` |
| `BatchesAlwaysAgree` | `MarketSpec => []BatchesAgreeWithSingles` |
| `SearchesNeverLose` | `MarketSpec => []SearchesLoseNothing` |

Two assumptions are about the provider and not checked by the code: it lists each of the most
active stocks once and none of them is a curated asset (`MarketParameters`; else one would be
shown twice), and a provider that sends both lists of symbols lists whatever is tradable
(`ListsAreComplete`). The others say that errors are no data and that requests are of their types.

`MarketSpec` with `read` fixed is a `Spec` of the cache (`MarketIsCache`), so the theorems about
`TtlCache` carry over. `Heard` is the one invariant added: whatever is stored, about to be set or
told is the outcome of the fill function on some provider, not the one of the moment. The rest is
about that outcome.

* `ScoresAlwaysFollow`: a stored score is `Compute` of some provider, which is `Degraded` if one of
  the four signals is missing; and every step from a signal to the label is monotone, the rounding of a
  quotient and the clamp included (`ClampGrows`, `BreadthGrows`, `CompositeGrows`, `LabelsGrow`).
* `PopularAlwaysKeepsItsShares`: an answer is two prefixes joined (`JoinedIs`), the lengths of
  which are compared with the rounded share.
* `BatchesAlwaysAgree` and `SearchesNeverLose`: a list of what passes a test is given by its
  positions in order (`KthIs`, `AtIs` about `Lists`), so that the first of each symbol is kept once
  (`ParsedIs`, `MergedIs`), and neighbouring pages meet without a gap (`PartsMeet`, `PagesAre`).
  A batch fails exactly when one of its lookups does (`OneFails`). "The provider is down" (`Down`)
  is that no attempt got any JSON. A refusal in a JSON object is not: a change refused so is an
  error, but a history refused so is an empty chart in a batch and a 404 alone, because
  `decodeHistorical` (`client.go:362`) reads it as one without rows. No property claims otherwise.

### Dca

For every set of symbols, plans, histories and calendars, requests of any length and weights of any
size, from `Calendar`, `RequestsAreBound`, `CalendarGoesOn` and `AmountsAreExact`:

| Theorem | Says |
|---|---|
| `DcaTyping` | `DcaSpec => []DcaIInv` |
| `SkippedWeightSharedOut` | `DcaSpec => []SkippedWeightIsSharedOut` |
| `CombinedSeriesAddsUp` | `DcaSpec => []CombinedAddsUp` |
| `PurchasesKeepPeriods` | `DcaSpec => []PurchasesKeepTheirPeriods` |
| `AssetsNeverSpoilOthers` | `DcaSpec => OneAssetNeverSpoilsAnother` |

`Calendar` says that weeks have days and months begin one after the other; `RequestsAreBound` is
what the handler's bindings leave of a request (an amount and weights above zero) and that closes
are above zero, which the code takes from its provider; `CalendarGoesOn` says that there is a month
after today's. `AmountsAreExact` is the abstraction of floating point: no share of the amount, and
no purchase from it, is rounded. Without it the theorems would hold up to rounding only, so they
say nothing of the last digits the code shows.

A request is data, so the invariant only bounds it; each property is a statement about a pure
function. The functions are loops over lists, dates and weights, and none of them is unrolled:

* A list that a loop filters is the list at some positions, and lists at positions that correspond
  in order are equal (`AtMoved`). Hence filtering commutes with dropping repetitions
  (`DistinctOfFiltered`, `DistinctIn`), and one symbol more extends what was there
  (`FirstInAppended`): that is one half of `AssetsNeverSpoilOthers`. The other is that an answer is a
  500 exactly when it has no result and one of its symbols alone would be a 500 (`OutageIs500`,
  `FailsIff`), so that an outage is never reported as a lack of history.
* `SkippedWeightSharedOut`: the share of a holding rescaled from the weight of all to the weight of
  those simulated is its share of these, in every field of its result (`ExactQuotient`, `AssetIs`).
  So the whole answer is a function of the simulated symbols and their weights (`SimulationIs`),
  and leaving out skipped entries changes neither (`WithoutKeepsSymbols`, `WithoutKeepsWeights`).
* `CombinedSeriesAddsUp`: an asset's latest point holds its share once for each of its purchases so
  far (`LatestPointIs`), which only grows; after its last day it is its total; and the shares of all
  make the amount of the plan (`SharesMakeTheWhole`).
* `PurchasesKeepPeriods`: a purchase determines the target it was made for (`TargetsAWeek`), so no
  two fall into one week. Monthly dates are a chain of steps (`IsChain`); while the day exists the
  n-th is that day of the n-th month, by the least n for which it is not (`NthPlanDay`).

### SnapshotJob

For every set of instances, users and symbols, from `JobParameters` and
`NoSnapshotIsNotASnapshot`:

| Theorem | Says |
|---|---|
| `JobTyping` | `Spec => []TypeOK` |
| `TotalsComplete` | `Spec => []TotalsAreComplete` |
| `RowsOfTheirDay` | `Spec => []RowsAreOfTheirDay` |
| `StoppedIsQuiet` | `Spec => []StoppedMeansQuiet` |
| `OneInstanceGoesForward` | with at most one instance, `Spec => DaysGoForward` |

The invariant says that what a run knows is older than the present (`Timely`), that lookups are
in flight only inside the fan-out and only for listed symbols (`Settled`), and that Stop returned
at the end of the job or at the deadline (`Stopped`). `OneInstanceGoesForward` adds that every
stored total is at least as old as the listing of the run at work (`Latest`), which is false as
soon as there are two.

### Dividends

For every set of requests, windows, calendars, bounds, tile sizes and row caps, from
`CalendarParameters` and, for `AnswersAlwaysWhole` only, `RowsAreWithinReach`:

| Theorem | Says |
|---|---|
| `AnswersAlwaysWhole` | `Spec => []AnswersAreWhole` |
| `BoundedFills` | `Spec => []FillsAreBounded` |
| `NewerBuckets` | `Spec => BucketsGoForward` |
| `ErrorsFromTheProvider` | `Spec => ErrorsComeFromTheProvider` |

The invariant `IInv`: a request stays in the months of its window (`Inside`, which needs the
arithmetic of months: `MonthsOfDays`), a month has at most one fill and the group agrees who leads
it (`Flights`), and the fill began after the last call of whatever the cache holds (`Filling`). The
last one holds because a bucket is stored before its flight ends. Several processes share
Redis but not the group, so `NewerBuckets` speaks of one process only.

`AnswersAlwaysWhole` rests on `RowsInv`, which follows the rows from the provider to the answer. A
list is *whole* for some rows and an interval of calendars (`Whole`) when it holds none of them
twice, none that no calendar published, and all that every calendar of the interval published.

1. *Tiles.* What a tile has brought is whole up to the first day it is still to ask for, and its
   remaining ranges follow each other up to its last day (`TileSound`, `Chain`). A reply below the
   cap moves that day on. A reply at the cap is dropped and its range halved (`TileSplits`); a range
   of one day cannot be at the cap, by `RowsAreWithinReach`.
2. *Buckets.* The tiles cover the days of the fill without overlap (`TilesAre`), so their joined
   rows are whole (`FlattenedOnce`, `WholeFlattened`), and every row of the month lies within reach
   of its fill (`TilesOfMonth`). Hence the filtered bucket is whole for its month, between the first
   and the last calendar its calls met (`BucketSound`).
3. *Answers.* What a request has collected is whole for the months before the one at hand. A row
   has one reference date, so no two buckets emit it (`MonthIsCollected`). Sorting keeps this
   (`SortedOnce`: the places the rows take are a permutation), and a revision only widens the
   interval (`CompleteWidens`).

The facts about joined and sorted lists of any length are proved by the least counterexample, as
those about `Walk` are.

### Accounts

For every set of users, ids and requests and any quotas, from `QuotaParameters`,
`NoRowIsNotARow` and `NoRequestIsNotARequest`:

| Theorem | Says |
|---|---|
| `AtomicPromises` | `AtomicSpec => [](WithinQuota /\ LinksAreOwn)` |
| `Implements` | `Spec => ImplementsAtomicAccounts` |
| `TypeCorrect` | `Spec => []TypeOK` |
| `Quotas` | `Spec => []WithinQuota` |
| `OwnLinks` | `Spec => []LinksAreOwn` |
| `OnlyOwners` | `Spec => RowsChangeByTheirOwner` |

The promises are proved where they are easy, of whole calls, and carried over by the refinement.
That needs to know what the checks of a request still are worth when it writes. `Holds`: from
the count to the commit the user stays below his quota, because he cannot create under
another's lock and deletions only make room. `Passed`: a row that passed an ownership check is
still the user's or is gone for good, because no statement changes a row's user and ids do not
come back. `Pending`: an uncommitted goal's portfolio cannot go away. Deleting a portfolio that
is gone already changes nothing only if no goal is linked to it, so the refinement and
`LinksAreOwn` are proved together (`Promised`).

Some theorems state properties no run lists: the `TypeOK` of each module, `WithinMaxSize`,
`ErrorsAreNotRemembered`, `FillsAreBounded` and `RowsChangeByTheirOwner`. They hold for all
parameters, so checking an instance would add nothing. `OneInstanceGoesForward` proves
`DaysGoForward` under the assumption of one instance, which `snapshot_instances` shows to be
needed.

Every invariant and every action property that a passing run checks is proved. Model-checked only,
in an instance and not for all parameters:

* all liveness, which rests on fairness and `ENABLED`, beyond the prover: `EveryCallReturns`,
  `EveryFillReturns` and `ShutdownCompletes`;
* the expected violations, which are counterexamples and need none.

## 5. Not modelled

* **Analysis (Groq).** One client walks a list of models until one answers and streams its text;
  nothing is kept between calls, and when it moves on depends on free text in the errors. What
  it is given is in `Valuation`.
* **Users, sign-in, watchlist.** Each write is one SQL statement under a unique constraint, so
  there is no intermediate state; identities come from a provider outside the repository.
* **Migrations.** What a file that failed half-way leaves behind is decided by the migration
  library and by the SQL files.
* **HTTP delivery, configuration, logging, request ids, rate limiter.** Decoding, encoding and
  start-up; the token bucket is a library's. Status codes are modelled where an outage could
  pass for an absence (`Dca`, `MarketReads`), and so is the validation a model relies on.
* **Retries by clients.** A commit whose answer is lost is sent again by its client; the API has
  no key to recognise it by, so to the ledger, and to the model, it is another purchase.
* **Of modelled parts:** floating-point error (the models use exact numbers and the code's
  rounding), amounts in `SnapshotJob` (a total beyond its column fails the whole batch), the
  statistics of the suggested return, the rates of a simulation, the days a range stands for and
  the downsampling of price histories, a panic in a fill function, and several processes that share Redis. The
  composition of the keyed caches with the market reads is left out: what they return is what
  the provider said, no older than their life (`AnswersWereFresh`).
