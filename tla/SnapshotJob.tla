------------------------------ MODULE SnapshotJob ------------------------------
(***************************************************************************)
(* The value snapshots: a periodic job of every running instance prices    *)
(* all holdings and upserts one row per user for the day, and the shutdown *)
(* sequence of the process stops it before the connection pool closes.     *)
(*                                                                         *)
(* What a user holds is the set of symbols with shares; a total is the set *)
(* of symbols that went into it.  Trades are counted, so that of two       *)
(* totals one can say which was taken later.                               *)
(***************************************************************************)
EXTENDS Integers, FiniteSets

CONSTANTS
    Instances,        \* processes of the service
    Users,
    Symbols,
    NoSnapshot,       \* no row for this user and day
    FetchConcurrency, \* quotes asked for at the same time
    MaxDay,           \* bound on the calendar
    MaxTrades         \* bound on what users do

ASSUME JobParameters ==
    /\ IsFiniteSet(Symbols)
    /\ FetchConcurrency \in Nat \ {0}
    /\ MaxDay \in Nat
    /\ MaxTrades \in Nat

Days == 0..MaxDay

\* counted: what the total sums; held, listed, on: history, what the user held when
\* the run listed the holdings, after how many trades, and on which day.
Snapshot == [counted : SUBSET Symbols, held : SUBSET Symbols, listed : 0..MaxTrades, on : Days]

ASSUME NoSnapshotIsNotASnapshot == NoSnapshot \notin Snapshot

VARIABLES
    today,
    holdings, \* symbols with shares, per user
    trades,   \* how many trades there have been
    rows,     \* user_value_snapshots, per user and day
    main,     \* where runUntilShutdown is
    deadline, \* its ten seconds are over
    job,      \* where the goroutine of the periodic job is
    run       \* what the current run knows

world == <<today, holdings, trades>>
vars  == <<world, rows, main, deadline, job, run>>

-----------------------------------------------------------------------------
Idle == [s \in Symbols |-> "idle"]

\* day: argument of SnapshotValues; holds: the holdings as listed; quotes: the lookups.
Run == [day : Days, holds : [Users -> SUBSET Symbols], listed : 0..MaxTrades, on : Days,
        quotes : [Symbols -> {"idle", "calling", "priced", "unpriced"}]]

NoRun == [day |-> 0, holds |-> [u \in Users |-> {}], listed |-> 0, on |-> 0, quotes |-> Idle]

TypeOK ==
    /\ today \in Days
    /\ holdings \in [Users -> SUBSET Symbols]
    /\ trades \in 0..MaxTrades
    /\ rows \in [Users -> [Days -> Snapshot \union {NoSnapshot}]]
    /\ main \in [Instances ->
                    {"off", "serving", "draining", "stopping", "closing", "closed"}]
    /\ deadline \in [Instances -> BOOLEAN]
    /\ job \in [Instances -> {"off", "list", "quote", "write", "sent", "answered",
                              "select", "recheck", "done"}]
    /\ run \in [Instances -> Run]

Init ==
    /\ today = 0
    /\ holdings \in [Users -> SUBSET Symbols]
    /\ trades = 0
    /\ rows = [u \in Users |-> [d \in Days |-> NoSnapshot]]
    /\ main = [i \in Instances |-> "off"]
    /\ deadline = [i \in Instances |-> FALSE]
    /\ job = [i \in Instances |-> "off"]
    /\ run = [i \in Instances |-> NoRun]

Goto(i, stage) == job' = [job EXCEPT ![i] = stage]

\* The context of the job ends when Stop is called.
Cancelled(i) == main[i] \in {"stopping", "closing", "closed"}

\* SnapshotValues returns; what it worked on is garbage.
Finish(i) == Goto(i, "select") /\ run' = [run EXCEPT ![i] = NoRun]

-----------------------------------------------------------------------------
\* ListAllHoldings.  The context may be cancelled and the query may fail.
ListHoldings(i) ==
    /\ job[i] = "list"
    /\ \/ Finish(i)
       \/ /\ ~Cancelled(i)
          /\ \E u \in Users : holdings[u] # {}
          /\ run' = [run EXCEPT ![i].holds = holdings, ![i].listed = trades, ![i].on = today]
          /\ Goto(i, "quote")
    /\ UNCHANGED <<world, rows, main, deadline>>

Held(i) == UNION {run[i].holds[u] : u \in Users}

Calling(i) == {s \in Symbols : run[i].quotes[s] = "calling"}

Quote(i, s, state) == run' = [run EXCEPT ![i].quotes[s] = state]

\* fetchQuotePrices: a goroutine of the bounded group starts, and looks at the context.
StartQuote(i, s) ==
    /\ job[i] = "quote"
    /\ s \in Held(i)
    /\ run[i].quotes[s] = "idle"
    /\ Cardinality(Calling(i)) < FetchConcurrency
    /\ Quote(i, s, IF Cancelled(i) THEN "unpriced" ELSE "calling")
    /\ UNCHANGED <<world, rows, main, deadline, job>>

\* GetQuote answers with a price, or fails, or its price is not positive.  It takes no
\* context and goes on after a cancellation.
EndQuote(i, s) ==
    /\ run[i].quotes[s] = "calling"
    /\ \E outcome \in {"priced", "unpriced"} : Quote(i, s, outcome)
    /\ UNCHANGED <<world, rows, main, deadline, job>>

\* Mutant of Complete: one priced symbol is enough.
SomePriced(i) == {u \in Users : \E s \in run[i].holds[u] : run[i].quotes[s] = "priced"}

\* Users whose every holding was priced.
Complete(i) == {u \in Users : run[i].holds[u] # {}
                              /\ \A s \in run[i].holds[u] : run[i].quotes[s] = "priced"}

\* Mutant of PricingDone: a cancelled run does not wait for its lookups.
PricingDoneWithoutWait(i) ==
    /\ job[i] = "quote"
    /\ \/ Cancelled(i) /\ Goto(i, "select")
       \/ /\ ~Cancelled(i)
          /\ \A s \in Held(i) : run[i].quotes[s] \in {"priced", "unpriced"}
          /\ Goto(i, IF Complete(i) = {} THEN "select" ELSE "write")
    /\ UNCHANGED <<world, rows, main, deadline, run>>

\* g.Wait has returned; the second look at the context; anyone to write?
PricingDone(i) ==
    /\ job[i] = "quote"
    /\ \A s \in Held(i) : run[i].quotes[s] \in {"priced", "unpriced"}
    /\ IF Cancelled(i) \/ Complete(i) = {}
       THEN Finish(i)
       ELSE Goto(i, "write") /\ UNCHANGED run
    /\ UNCHANGED <<world, rows, main, deadline>>

\* SendBatch takes a connection, unless the context has ended since.
SendBatch(i) ==
    /\ job[i] = "write"
    /\ IF Cancelled(i) THEN Finish(i) ELSE Goto(i, "sent") /\ UNCHANGED run
    /\ UNCHANGED <<world, rows, main, deadline>>

\* The batch: a total for each of them.
ValueByUser(i) ==
    [u \in Complete(i) |->
        [counted |-> {s \in run[i].holds[u] : run[i].quotes[s] = "priced"},
         held |-> run[i].holds[u], listed |-> run[i].listed, on |-> run[i].on]]

\* Mutant of CommitBatch: the day's rows are deleted and written again.
CommitBatchAnew(i) ==
    /\ job[i] = "sent"
    /\ LET values == ValueByUser(i) IN
           rows' = [u \in Users |-> [rows[u] EXCEPT ![run[i].day] =
                       IF u \in DOMAIN values THEN values[u] ELSE NoSnapshot]]
    /\ Goto(i, "answered")
    /\ UNCHANGED <<world, main, deadline, run>>

\* Mutant of CommitBatch: the row is that of the day on which the batch is written.
CommitBatchToday(i) ==
    /\ job[i] = "sent"
    /\ LET values == ValueByUser(i) IN
           rows' = [u \in Users |-> [rows[u] EXCEPT ![today] =
                       IF u \in DOMAIN values THEN values[u] ELSE @]]
    /\ Goto(i, "answered")
    /\ UNCHANGED <<world, main, deadline, run>>

\* The implicit transaction of the batch commits: one upsert per user of the batch.
CommitBatch(i) ==
    /\ job[i] = "sent"
    /\ LET values == ValueByUser(i) IN
           rows' = [u \in Users |-> [rows[u] EXCEPT ![run[i].day] =
                       IF u \in DOMAIN values THEN values[u] ELSE @]]
    /\ Goto(i, "answered")
    /\ UNCHANGED <<world, main, deadline, run>>

\* The client has the answer, or an error without a commit, or gives up because the
\* context ended, whether or not the server has committed.  What the server commits after
\* the client gave up is taken to come before.
EndBatch(i) ==
    /\ job[i] \in {"sent", "answered"}
    /\ Finish(i)
    /\ UNCHANGED <<world, rows, main, deadline>>

-----------------------------------------------------------------------------
\* StartPeriodic's select: the context ended, or the ticker fired, which it may have done
\* at any time.  When both are ready either is taken.
Select(i) ==
    /\ job[i] = "select"
    /\ \/ Cancelled(i) /\ Goto(i, "done")
       \/ Goto(i, "recheck")
    /\ UNCHANGED <<world, rows, main, deadline, run>>

\* After a tick the context is looked at again; a run starts with the current day.
Recheck(i) ==
    /\ job[i] = "recheck"
    /\ IF Cancelled(i)
       THEN Goto(i, "done") /\ UNCHANGED run
       ELSE Goto(i, "list") /\ run' = [run EXCEPT ![i].day = today]
    /\ UNCHANGED <<world, rows, main, deadline>>

Work(i) ==
    \/ ListHoldings(i)
    \/ \E s \in Symbols : StartQuote(i, s)
    \/ PricingDone(i)
    \/ SendBatch(i) \/ CommitBatch(i) \/ EndBatch(i)
    \/ Select(i) \/ Recheck(i)

-----------------------------------------------------------------------------
\* The process starts: the first run does not wait for a tick.
Start(i) ==
    /\ main[i] = "off"
    /\ main' = [main EXCEPT ![i] = "serving"]
    /\ Goto(i, "list")
    /\ run' = [run EXCEPT ![i].day = today]
    /\ UNCHANGED <<world, rows, deadline>>

Signal(i) ==
    /\ main[i] = "serving"
    /\ main' = [main EXCEPT ![i] = "draining"]
    /\ UNCHANGED <<world, rows, deadline, job, run>>

\* One deadline for the whole sequence.
DeadlinePasses(i) ==
    /\ main[i] \in {"draining", "stopping", "closing", "closed"} /\ ~deadline[i]
    /\ deadline' = [deadline EXCEPT ![i] = TRUE]
    /\ UNCHANGED <<world, rows, main, job, run>>

\* srv.Shutdown returns, the requests having ended or not, and Stop cancels the job.
Drained(i) ==
    /\ main[i] = "draining"
    /\ main' = [main EXCEPT ![i] = "stopping"]
    /\ UNCHANGED <<world, rows, deadline, job, run>>

\* Mutant of StopReturns: only the end of the job ends the wait.
StopWaitsForJob(i) ==
    /\ main[i] = "stopping"
    /\ job[i] = "done"
    /\ main' = [main EXCEPT ![i] = "closing"]
    /\ UNCHANGED <<world, rows, deadline, job, run>>

StopReturns(i) ==
    /\ main[i] = "stopping"
    /\ job[i] = "done" \/ deadline[i]
    /\ main' = [main EXCEPT ![i] = "closing"]
    /\ UNCHANGED <<world, rows, deadline, job, run>>

\* pool.Close waits until every connection is back, the job's among them.
PoolCloses(i) ==
    /\ main[i] = "closing"
    /\ job[i] \notin {"sent", "answered"}
    /\ main' = [main EXCEPT ![i] = "closed"]
    /\ UNCHANGED <<world, rows, deadline, job, run>>

\* The process is gone, with all its goroutines.
Gone(i) ==
    /\ main' = [main EXCEPT ![i] = "off"]
    /\ deadline' = [deadline EXCEPT ![i] = FALSE]
    /\ Goto(i, "off")
    /\ run' = [run EXCEPT ![i] = NoRun]
    /\ UNCHANGED <<world, rows>>

Exit(i) == main[i] = "closed" /\ Gone(i)

Crash(i) == main[i] # "off" /\ Gone(i)

Shutdown(i) == Drained(i) \/ StopReturns(i) \/ PoolCloses(i) \/ Exit(i)

-----------------------------------------------------------------------------
NextDay ==
    /\ today < MaxDay
    /\ today' = today + 1
    /\ UNCHANGED <<holdings, trades, rows, main, deadline, job, run>>

Trade(u) ==
    /\ trades < MaxTrades
    /\ \E held \in SUBSET Symbols \ {holdings[u]} : holdings' = [holdings EXCEPT ![u] = held]
    /\ trades' = trades + 1
    /\ UNCHANGED <<today, rows, main, deadline, job, run>>

Next ==
    \/ \E i \in Instances :
          \/ Start(i) \/ Signal(i) \/ DeadlinePasses(i) \/ Shutdown(i) \/ Crash(i)
          \/ Work(i)
          \/ \E s \in Symbols : EndQuote(i, s)
    \/ NextDay
    \/ \E u \in Users : Trade(u)

Spec == Init /\ [][Next]_vars

\* Goroutines run, the deadline is a timer, and statements are answered or given up.
\* A quote may hang: its client allows three attempts of twenty seconds, six times the
\* deadline.
FairSpec ==
    /\ Spec
    /\ \A i \in Instances :
          /\ WF_vars(Shutdown(i))
          /\ WF_vars(DeadlinePasses(i))
          /\ WF_vars(Work(i))

-----------------------------------------------------------------------------
\* "A partial total would chart as a dip that never happened" (snapshot.go:19): a stored
\* total counts everything its user held when the run listed the holdings.
TotalsAreComplete ==
    \A u \in Users, d \in Days :
        rows[u][d] # NoSnapshot => rows[u][d].counted = rows[u][d].held

\* "each run replaces that day's row, so a day settles on its last recorded value"
\* (snapshot.go:16): a row never disappears and is never replaced by an older total.
DaysGoForward ==
    [][\A u \in Users, d \in Days : rows[u][d] # NoSnapshot =>
          rows'[u][d] # NoSnapshot /\ rows'[u][d].listed >= rows[u][d].listed]_vars

\* The row of a day never holds what users had on an earlier day, though runs take time
\* and cross midnight (main.go:149 reads the clock before anything else).
RowsAreOfTheirDay ==
    \A u \in Users, d \in Days : rows[u][d] # NoSnapshot => rows[u][d].on >= d

\* "it must have stopped (or been abandoned at the deadline) before the pool goes away"
\* (main.go:188): within the deadline nothing of the job is left when the pool closes, no
\* goroutine that waits for a quote either.
StoppedMeansQuiet ==
    \A i \in Instances : main[i] \in {"closing", "closed"} =>
        \/ deadline[i]
        \/ job[i] = "done" /\ Calling(i) = {}

\* A signalled process goes away, even if a quote hangs.
ShutdownCompletes == \A i \in Instances : main[i] = "draining" ~> main[i] = "off"
=============================================================================
