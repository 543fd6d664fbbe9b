------------------------------- MODULE Dividends -------------------------------
(***************************************************************************)
(* The dividend calendar.  Requests for a window of days read, one month   *)
(* after the other, the buckets of the months it overlaps from a shared    *)
(* cache (Redis), and fill what is missing through singleflight from the   *)
(* market-data client, which splits its range into tiles because the       *)
(* provider answers with at most RowCap rows.                              *)
(*                                                                         *)
(* Requests run at the same time and may be abandoned.  The cache drops    *)
(* buckets when they expire and may fail; the provider fails and revises   *)
(* its calendar, also between the calls of one fill.  A calendar is a set  *)
(* of rows; a row has an ex-date, a payment date or NoDate, and a symbol.  *)
(* Days are integers and months have MonthDays days.  The join with what   *)
(* the user holds is in Valuation.                                         *)
(***************************************************************************)
EXTENDS Integers, FiniteSets, SequencesExt, Lists

CONSTANTS
    Requests,
    NoRequest,      \* no fill in flight
    Today,
    MonthDays,
    DefaultForward, \* defaultForward, in days
    MaxSpanDays,    \* maxSpanDays
    BoundMonths,    \* boundMonths
    Lookback,       \* bucketLookback, in days
    RowCap,         \* calendarRowCap
    TileDays,       \* calendarTileDays
    Concurrency,    \* calendarConcurrency
    NoDate,
    Calendars,      \* what the provider publishes, one after the other
    Asked,          \* the windows asked for: <<from, to>>, either may be NoDate
    NoBucket        \* the key is not in the cache

ASSUME CalendarParameters ==
    /\ NoRequest \notin Requests
    /\ Today \in Int
    /\ MonthDays \in Nat \ {0}
    /\ {DefaultForward, MaxSpanDays, BoundMonths, Lookback} \subseteq Nat
    /\ {RowCap, TileDays, Concurrency} \subseteq Nat \ {0}
    /\ NoDate \notin Int
    /\ Calendars \in Seq(SUBSET [symbol : Int, ex : Int, pay : Int \union {NoDate}]) \ {<<>>}
    /\ \A c \in Range(Calendars) : IsFiniteSet(c)
    /\ Asked \subseteq (Int \union {NoDate}) \X (Int \union {NoDate})

VARIABLES
    version,   \* the calendar the provider has now
    cache,     \* Redis: month -> bucket
    flight,    \* singleflight.Group: month -> the request that fills it
    pc,        \* where each request is in Execute
    window,    \* its days
    month,     \* the month at hand
    fill,      \* the fill it runs
    entries,   \* what it has collected
    abandoned, \* its client is gone
    refused    \* history: month -> a call to the provider failed in its fill

vars == <<version, cache, flight, pc, window, month, fill, entries, abandoned, refused>>

-----------------------------------------------------------------------------
MonthOf(d)    == d \div MonthDays
MonthStart(m) == m * MonthDays
MonthEnd(m)   == MonthStart(m + 1) - 1

earliest == MonthStart(MonthOf(Today) - BoundMonths)
latest   == MonthEnd(MonthOf(Today) + BoundMonths)

\* One month more on either side than a window may reach.
Months == (MonthOf(Today) - BoundMonths - 1)..(MonthOf(Today) + BoundMonths + 1)

\* The defaults of resolveWindow.
Resolve(w) ==
    LET from   == IF w[1] = NoDate THEN Today ELSE w[1]
        ahead  == from + DefaultForward
        capped == IF ahead > latest /\ from <= latest THEN latest ELSE ahead
    IN  <<from, IF w[2] = NoDate THEN capped ELSE w[2]>>

\* What resolveWindow lets through.
Accepted(w) ==
    /\ w[1] <= w[2]
    /\ w[2] - w[1] <= MaxSpanDays
    /\ earliest <= w[1] /\ w[2] <= latest

referenceDate(e) == IF e.pay # NoDate THEN e.pay ELSE e.ex

Rows == UNION Range(Calendars)

\* Limits the code names: a payment more than the lookback after its ex-date's month is
\* missed (calendar.go:23), and so are rows of a day at the cap (client.go:615).
ASSUME RowsAreWithinReach ==
    /\ \A e \in Rows : LET m == MonthOf(referenceDate(e)) IN
           MonthStart(m) - Lookback <= e.ex /\ e.ex <= MonthEnd(m)
    /\ \A c \in Range(Calendars) : \A e \in c : Cardinality({f \in c : f.ex = e.ex}) < RowCap

\* rows: of each tile, what has come; todo: of each tile, the ranges still to be asked
\* for; since and until: the first and the last calendar a call may have met.
Fill == [rows : Seq(Seq(Rows)), todo : Seq(Seq(Int \X Int)), since : DOMAIN Calendars]
Bucket == [events : Seq(Rows), since : DOMAIN Calendars, until : DOMAIN Calendars]

NoFill == [rows |-> <<>>, todo |-> <<>>, since |-> 1]

TypeOK ==
    /\ version \in DOMAIN Calendars
    /\ cache \in [Months -> Bucket \union {NoBucket}]
    /\ flight \in [Months -> Requests \union {NoRequest}]
    /\ pc \in [Requests -> {"idle", "next", "get", "join", "wait", "fetch", "failed",
                            "store", "finish", "answer", "error"}]
    /\ window \in [Requests -> Int \X Int]
    /\ month \in [Requests -> Int]
    /\ fill \in [Requests -> Fill \union Bucket]
    /\ entries \in [Requests -> Seq(Rows)]
    /\ abandoned \in [Requests -> BOOLEAN]
    /\ refused \in [Months -> BOOLEAN]

Init ==
    /\ version = 1
    /\ cache = [m \in Months |-> NoBucket]
    /\ flight = [m \in Months |-> NoRequest]
    /\ pc = [r \in Requests |-> "idle"]
    /\ window = [r \in Requests |-> <<Today, Today>>]
    /\ month = [r \in Requests |-> 0]
    /\ fill = [r \in Requests |-> NoFill]
    /\ entries = [r \in Requests |-> <<>>]
    /\ abandoned = [r \in Requests |-> FALSE]
    /\ refused = [m \in Months |-> FALSE]

Goto(r, stage) == pc' = [pc EXCEPT ![r] = stage]

-----------------------------------------------------------------------------
\* GetDividendsCalendar cuts its range into tiles.
Tiles(from, to) ==
    LET start(i) == from + (i - 1) * TileDays
        end(i)   == start(i) + TileDays - 1
    IN  [i \in 1..((to - from) \div TileDays + 1) |->
            <<start(i), IF end(i) > to THEN to ELSE end(i)>>]

\* The provider: of too many rows it sends the latest ex-dates.
Reply(from, to) ==
    LET rows == {e \in Calendars[version] : from <= e.ex /\ e.ex <= to} IN
    IF Cardinality(rows) <= RowCap THEN SetToSeq(rows)
    ELSE SetToSeq(CHOOSE kept \in SUBSET rows :
                      /\ Cardinality(kept) = RowCap
                      /\ \A e \in kept, f \in rows \ kept : e.ex >= f.ex)

\* A window is asked for and accepted: no I/O is done for another.
Start(r) ==
    /\ pc[r] = "idle"
    /\ \E w \in Asked :
          /\ Accepted(Resolve(w))
          /\ window' = [window EXCEPT ![r] = Resolve(w)]
          /\ month' = [month EXCEPT ![r] = MonthOf(Resolve(w)[1])]
    /\ Goto(r, "next")
    /\ UNCHANGED <<version, cache, flight, fill, entries, abandoned, refused>>

\* sort.SliceStable; the rows of a symbol on a day keep their order.
Before(rows, i, j) ==
    LET d == referenceDate(rows[i])
        f == referenceDate(rows[j])
    IN  \/ d < f
        \/ d = f /\ rows[i].symbol < rows[j].symbol
        \/ d = f /\ rows[i].symbol = rows[j].symbol /\ i < j

Place(rows, i) == 1 + Cardinality({j \in DOMAIN rows : Before(rows, j, i)})

Sorted(rows) == [k \in DOMAIN rows |-> rows[CHOOSE i \in DOMAIN rows : Place(rows, i) = k]]

\* The loop over monthsIn: an abandoned request goes no further.
NextMonth(r) ==
    /\ pc[r] = "next"
    /\ IF month[r] > MonthOf(window[r][2])
       THEN /\ Goto(r, "answer")
            /\ entries' = [entries EXCEPT ![r] = Sorted(@)]
       ELSE /\ Goto(r, IF abandoned[r] THEN "error" ELSE "get")
            /\ UNCHANGED entries
    /\ UNCHANGED <<version, cache, flight, window, month, fill, abandoned, refused>>

\* The part of the month that lies in the window.
Clamped(r, rows) ==
    LET lo == MonthStart(month[r])
        hi == MonthEnd(month[r])
        from == IF window[r][1] > lo THEN window[r][1] ELSE lo
        to   == IF window[r][2] < hi THEN window[r][2] ELSE hi
    IN  At(rows, {i \in DOMAIN rows : from <= referenceDate(rows[i]) /\ referenceDate(rows[i]) <= to})

\* bucket has returned its rows to each of the requests rs.
Collect(rs, rows) ==
    /\ pc' = [r \in Requests |-> IF r \in rs THEN "next" ELSE pc[r]]
    /\ month' = [r \in Requests |-> IF r \in rs THEN month[r] + 1 ELSE month[r]]
    /\ entries' = [r \in Requests |->
                      IF r \in rs THEN entries[r] \o Clamped(r, rows) ELSE entries[r]]

\* RedisCache.Get: a read that fails is a miss.
Get(r) ==
    /\ pc[r] = "get"
    /\ \/ cache[month[r]] # NoBucket /\ Collect({r}, cache[month[r]].events)
       \/ Goto(r, "join") /\ UNCHANGED <<month, entries>>
    /\ UNCHANGED <<version, cache, flight, window, fill, abandoned, refused>>

\* Mutant of Join: every miss runs the function.
JoinAlone(r) ==
    /\ pc[r] = "join"
    /\ LET tiles == Tiles(MonthStart(month[r]) - Lookback, MonthEnd(month[r])) IN
           fill' = [fill EXCEPT ![r] = [rows  |-> [i \in DOMAIN tiles |-> <<>>],
                                        todo  |-> [i \in DOMAIN tiles |-> <<tiles[i]>>],
                                        since |-> version]]
    /\ flight' = [flight EXCEPT ![month[r]] = r]
    /\ Goto(r, "fetch")
    /\ UNCHANGED <<version, cache, window, month, entries, abandoned, refused>>

\* sf.Do: the first runs the function, which begins by asking for the tiles; others wait.
Join(r) ==
    /\ pc[r] = "join"
    /\ IF flight[month[r]] # NoRequest
       THEN Goto(r, "wait") /\ UNCHANGED <<flight, fill>>
       ELSE LET tiles == Tiles(MonthStart(month[r]) - Lookback, MonthEnd(month[r])) IN
            /\ flight' = [flight EXCEPT ![month[r]] = r]
            /\ fill' = [fill EXCEPT ![r] =
                           [rows  |-> [i \in DOMAIN tiles |-> <<>>],
                            todo  |-> [i \in DOMAIN tiles |-> <<tiles[i]>>],
                            since |-> version]]
            /\ Goto(r, "fetch")
    /\ UNCHANGED <<version, cache, window, month, entries, abandoned, refused>>

\* The goroutine of tile i runs: those before it have started, and hold its slot or not.
Running(r, i) ==
    /\ pc[r] = "fetch"
    /\ fill[r].todo[i] # <<>>
    /\ Cardinality({j \in 1..(i - 1) : fill[r].todo[j] # <<>>}) < Concurrency

\* Mutant of Ask: the halves share the middle day.
AskTwice(r, i) ==
    /\ Running(r, i)
    /\ LET range == Head(fill[r].todo[i])
           rest  == Tail(fill[r].todo[i])
           rows  == Reply(range[1], range[2])
           mid   == range[1] + (range[2] - range[1]) \div 2
       IN  IF Len(rows) < RowCap \/ range[2] - range[1] <= 1
           THEN fill' = [fill EXCEPT ![r].rows[i] = @ \o rows, ![r].todo[i] = rest]
           ELSE fill' = [fill EXCEPT ![r].todo[i] =
                            <<<<range[1], mid>>, <<mid, range[2]>>>> \o rest]
    /\ UNCHANGED <<version, cache, flight, pc, window, month, entries, abandoned, refused>>

\* fetchCalendarTile: one call.  An answer at the cap is thrown away and the range asked
\* for again in two halves, one after the other.
Ask(r, i) ==
    /\ Running(r, i)
    /\ LET range == Head(fill[r].todo[i])
           rest  == Tail(fill[r].todo[i])
           rows  == Reply(range[1], range[2])
           mid   == range[1] + (range[2] - range[1]) \div 2
       IN  IF Len(rows) < RowCap \/ range[1] = range[2]
           THEN fill' = [fill EXCEPT ![r].rows[i] = @ \o rows, ![r].todo[i] = rest]
           ELSE fill' = [fill EXCEPT ![r].todo[i] =
                            <<<<range[1], mid>>, <<mid + 1, range[2]>>>> \o rest]
    /\ UNCHANGED <<version, cache, flight, pc, window, month, entries, abandoned, refused>>

\* Mutant of AskFails: the call runs under the context of the request that leads.
AskFailsAbandoned(r, i) ==
    /\ Running(r, i)
    /\ fill' = [fill EXCEPT ![r] = NoFill]
    /\ Goto(r, "failed")
    /\ refused' = [refused EXCEPT ![month[r]] = ~abandoned[r]]
    /\ UNCHANGED <<version, cache, flight, window, month, entries, abandoned>>

\* A call fails, after its retries: so does the fill.  What the tiles that still run bring
\* is dropped.
AskFails(r, i) ==
    /\ Running(r, i)
    /\ fill' = [fill EXCEPT ![r] = NoFill]
    /\ Goto(r, "failed")
    /\ refused' = [refused EXCEPT ![month[r]] = TRUE]
    /\ UNCHANGED <<version, cache, flight, window, month, entries, abandoned>>

\* g.Wait has returned: the rows of the month are kept.
Fetched(r) ==
    /\ pc[r] = "fetch"
    /\ \A i \in DOMAIN fill[r].todo : fill[r].todo[i] = <<>>
    /\ LET rows == FlattenSeq(fill[r].rows) IN
           fill' = [fill EXCEPT ![r] =
                       [events |-> At(rows, {i \in DOMAIN rows : MonthOf(referenceDate(rows[i])) = month[r]}),
                        since |-> fill[r].since,
                        until |-> version]]
    /\ Goto(r, "store")
    /\ UNCHANGED <<version, cache, flight, window, month, entries, abandoned, refused>>

\* The bucket is stored, whether its request is abandoned or not; a write that fails is
\* logged.  What Redis stores after the client gave up is taken to come before.
Store(r) ==
    /\ pc[r] = "store"
    /\ \/ cache' = [cache EXCEPT ![month[r]] = fill[r]]
       \/ UNCHANGED cache
    /\ Goto(r, "finish")
    /\ UNCHANGED <<version, flight, window, month, fill, entries, abandoned, refused>>

\* The function returns: the flight ends for all that share it.
Finish(r) ==
    /\ pc[r] \in {"failed", "finish"}
    /\ LET m == month[r]
           sharing == {r} \union {q \in Requests : pc[q] = "wait" /\ month[q] = m}
       IN  /\ flight' = [flight EXCEPT ![m] = NoRequest]
           /\ IF pc[r] = "failed"
              THEN /\ pc' = [q \in Requests |-> IF q \in sharing THEN "error" ELSE pc[q]]
                   /\ UNCHANGED <<month, entries>>
              ELSE Collect(sharing, fill[r].events)
    /\ fill' = [fill EXCEPT ![r] = NoFill]
    /\ refused' = [refused EXCEPT ![month[r]] = FALSE]
    /\ UNCHANGED <<version, cache, window, abandoned>>

\* The answer or the error is sent; what the request worked on is garbage.
Return(r) ==
    /\ pc[r] \in {"answer", "error"}
    /\ Goto(r, "idle")
    /\ window' = [window EXCEPT ![r] = <<Today, Today>>]
    /\ month' = [month EXCEPT ![r] = 0]
    /\ entries' = [entries EXCEPT ![r] = <<>>]
    /\ abandoned' = [abandoned EXCEPT ![r] = FALSE]
    /\ UNCHANGED <<version, cache, flight, fill, refused>>

Work(r) ==
    \/ NextMonth(r) \/ Get(r) \/ Join(r)
    \/ pc[r] = "fetch" /\ \E i \in DOMAIN fill[r].todo : Ask(r, i) \/ AskFails(r, i)
    \/ Fetched(r) \/ Store(r) \/ Finish(r) \/ Return(r)

-----------------------------------------------------------------------------
Abandon(r) ==
    /\ pc[r] \notin {"idle", "answer", "error"}
    /\ ~abandoned[r]
    /\ abandoned' = [abandoned EXCEPT ![r] = TRUE]
    /\ UNCHANGED <<version, cache, flight, pc, window, month, fill, entries, refused>>

\* The bucket's time to live is over, or Redis has lost it.
Expire(m) ==
    /\ cache[m] # NoBucket
    /\ cache' = [cache EXCEPT ![m] = NoBucket]
    /\ UNCHANGED <<version, flight, pc, window, month, fill, entries, abandoned, refused>>

Revise ==
    /\ version < Len(Calendars)
    /\ version' = version + 1
    /\ UNCHANGED <<cache, flight, pc, window, month, fill, entries, abandoned, refused>>

Next ==
    \/ \E r \in Requests : Start(r) \/ Work(r) \/ Abandon(r)
    \/ \E m \in Months : Expire(m)
    \/ Revise

Spec == Init /\ [][Next]_vars

-----------------------------------------------------------------------------
\* What an answer holds (Execute's comment, calendar.go:94; "never emitted by two buckets",
\* calendar.go:144): in order of their dates, no row twice, only rows of the window that
\* the provider has published, and every row of the window that it had all along, whatever
\* was cached, filled, split or revised on the way.
AnswersAreWhole ==
    \A r \in Requests : pc[r] = "answer" =>
        LET rows == entries[r]
            inWindow == {e \in Rows : /\ window[r][1] <= referenceDate(e)
                                      /\ referenceDate(e) <= window[r][2]}
        IN  /\ IsInjective(rows)
            /\ ToSet(rows) \subseteq inWindow \intersect UNION {Calendars[k] : k \in 1..version}
            /\ {e \in inWindow : \A k \in 1..version : e \in Calendars[k]}
                   \subseteq ToSet(rows)
            /\ \A i, j \in DOMAIN rows :
                  i < j => referenceDate(rows[i]) <= referenceDate(rows[j])

\* boundMonths "bounds how many month buckets callers can make the cache fill"
\* (calendar.go:35), also through the defaults of a window.
FillsAreBounded ==
    \A m \in Months : cache[m] # NoBucket \/ flight[m] # NoRequest =>
        earliest <= MonthStart(m) /\ MonthEnd(m) <= latest

\* One flight per month and a bucket stored before the flight ends: a bucket is only
\* replaced by one that was fetched after it (bucket, calendar.go:310).
BucketsGoForward ==
    [][\A m \in Months : cache[m] # NoBucket /\ cache'[m] # NoBucket =>
          cache'[m] = cache[m] \/ cache[m].until <= cache'[m].since]_vars

\* A fill does not die with the request that began it (calendar.go:339): a request that is
\* still there gets an error only if the provider refused a call of the fill.
ErrorsComeFromTheProvider ==
    [][\A r \in Requests : pc[r] # "error" /\ pc'[r] = "error" =>
          abandoned[r] \/ refused[month[r]]]_vars
=============================================================================
