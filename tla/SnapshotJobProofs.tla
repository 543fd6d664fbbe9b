--------------------------- MODULE SnapshotJobProofs ---------------------------
(***************************************************************************)
(* Theorems about SnapshotJob, for any instances, users and symbols.       *)
(*                                                                         *)
(* What a run knows is older than the present (Timely), its lookups are    *)
(* over before it writes or ends (Settled), and Stop returned either at    *)
(* the end of the job or at the deadline (Stopped).                        *)
(***************************************************************************)
EXTENDS SnapshotJob, TLAPS

Listed == {"quote", "write", "sent", "answered"}

\* A run starts on a day, lists the holdings not before, and goes on from there.
Timely ==
    \A i \in Instances :
        /\ job[i] = "list" => run[i].day <= today
        /\ job[i] \in Listed => /\ run[i].day <= run[i].on
                                /\ run[i].on <= today
                                /\ run[i].listed <= trades

\* Lookups are for held symbols, and outside the fan-out none is in flight.
Settled ==
    \A i \in Instances :
        /\ job[i] # "quote" => Calling(i) = {}
        /\ job[i] = "quote" => Calling(i) \subseteq Held(i)

\* The process and its job.
Stopped ==
    \A i \in Instances :
        /\ main[i] \in {"closing", "closed"} => deadline[i] \/ job[i] = "done"
        /\ main[i] = "off" => job[i] = "off"

IInv == TypeOK /\ Timely /\ Settled /\ Stopped /\ RowsAreOfTheirDay

-----------------------------------------------------------------------------
LEMMA Typed0 == NoRun \in Run
  BY JobParameters DEF NoRun, Run, Idle, Days

\* The batch holds a well-typed total of every user it writes.
LEMMA BatchTyped ==
    ASSUME TypeOK, NEW i \in Instances, NEW u \in Complete(i)
    PROVE  ValueByUser(i)[u] \in Snapshot
  BY DEF ValueByUser, Snapshot, TypeOK, Run, Complete

\* What a commit leaves in one row.
LEMMA CommittedRow ==
    ASSUME TypeOK, NEW i \in Instances, CommitBatch(i), NEW u \in Users, NEW d \in Days
    PROVE  rows'[u][d] = IF d = run[i].day /\ u \in Complete(i) THEN ValueByUser(i)[u] ELSE rows[u][d]
  BY DEF CommitBatch, TypeOK, ValueByUser

\* A run that lists the holdings, and one that starts, in terms of the old run.
LEMMA ListedRun ==
    ASSUME TypeOK, NEW i \in Instances,
           run' = [run EXCEPT ![i].holds = holdings, ![i].listed = trades, ![i].on = today]
    PROVE  /\ run' \in [Instances -> Run]
           /\ \A j \in Instances \ {i} : run'[j] = run[j]
           /\ run'[i].day = run[i].day /\ run'[i].listed = trades /\ run'[i].on = today
           /\ run'[i].quotes = run[i].quotes
  <1>. DEFINE r == [run[i] EXCEPT !.holds = holdings, !.listed = trades, !.on = today]
  <1>0. run \in [Instances -> Run] /\ run[i] \in Run
    BY DEF TypeOK
  <1>1. r.day = run[i].day /\ r.listed = trades /\ r.on = today /\ r.quotes = run[i].quotes
    BY <1>0 DEF Run
  <1>2. r \in Run
    BY <1>0 DEF TypeOK, Run
  <1>3. run' = [run EXCEPT ![i] = r]
    BY <1>0 DEF Run
  <1>. HIDE DEF r
  <1>4. run' \in [Instances -> Run] /\ run'[i] = r /\ \A j \in Instances \ {i} : run'[j] = run[j]
    BY <1>0, <1>2, <1>3
  <1>. QED
    BY <1>1, <1>4

LEMMA StartedRun ==
    ASSUME TypeOK, NEW i \in Instances, run' = [run EXCEPT ![i].day = today]
    PROVE  /\ run' \in [Instances -> Run]
           /\ \A j \in Instances \ {i} : run'[j] = run[j]
           /\ run'[i].day = today /\ run'[i].quotes = run[i].quotes
  <1>. DEFINE r == [run[i] EXCEPT !.day = today]
  <1>1. r \in Run /\ r.day = today /\ r.quotes = run[i].quotes
    BY DEF TypeOK, Run
  <1>2. run' = [run EXCEPT ![i] = r]
    BY DEF TypeOK, Run
  <1>. HIDE DEF r
  <1>. QED
    BY <1>1, <1>2 DEF TypeOK

LEMMA QuotedRun ==
    ASSUME TypeOK, NEW i \in Instances, NEW s \in Symbols,
           NEW state \in {"calling", "priced", "unpriced"},
           Quote(i, s, state)
    PROVE  /\ run' \in [Instances -> Run]
           /\ \A j \in Instances \ {i} : run'[j] = run[j]
           /\ run'[i].day = run[i].day /\ run'[i].listed = run[i].listed /\ run'[i].on = run[i].on
           /\ run'[i].holds = run[i].holds
           /\ \A t \in Symbols \ {s} : run'[i].quotes[t] = run[i].quotes[t]
  <1>. DEFINE q == [run[i].quotes EXCEPT ![s] = state]
              r == [run[i] EXCEPT !.quotes = q]
  <1>1. run[i] \in Run
    BY DEF TypeOK
  <1>2. q \in [Symbols -> {"idle", "calling", "priced", "unpriced"}]
    BY <1>1 DEF Run
  <1>3. r \in Run /\ r.day = run[i].day /\ r.listed = run[i].listed /\ r.on = run[i].on
        /\ r.holds = run[i].holds /\ r.quotes = q
    BY <1>1, <1>2 DEF Run
  <1>4. run' = [run EXCEPT ![i] = r]
    BY <1>1 DEF Run, Quote
  <1>5. \A t \in Symbols \ {s} : q[t] = run[i].quotes[t]
    BY <1>1 DEF Run
  <1>. HIDE DEF q, r
  <1>. QED
    BY <1>3, <1>4, <1>5 DEF TypeOK

\* When a run ends nothing of it is left.
LEMMA Finished ==
    ASSUME IInv, NEW i \in Instances, Finish(i)
    PROVE  Settled'
  <1>1. Calling(i)' = {}
    BY DEF Finish, IInv, TypeOK, Calling, NoRun, Idle
  <1>2. \A j \in Instances \ {i} : run'[j] = run[j] /\ job'[j] = job[j]
    BY DEF Finish, Goto, IInv, TypeOK
  <1>3. job'[i] = "select"
    BY DEF Finish, Goto, IInv, TypeOK
  <1>4. \A j \in Instances \ {i} : Calling(j)' = Calling(j) /\ Held(j)' = Held(j)
    BY <1>2 DEF Calling, Held
  <1>. QED
    BY <1>1, <1>2, <1>3, <1>4 DEF IInv, Settled

LEMMA InitInv == Init => IInv
  <1>. SUFFICES ASSUME Init PROVE IInv
    OBVIOUS
  <1>. USE JobParameters, NoSnapshotIsNotASnapshot
  <1>1. TypeOK
    BY Typed0 DEF Init, TypeOK, Days
  <1>2. Timely /\ Stopped /\ RowsAreOfTheirDay
    BY DEF Init, Timely, Listed, Stopped, RowsAreOfTheirDay
  <1>3. Settled
    BY DEF Init, Settled, Calling, NoRun, Idle
  <1>. QED
    BY <1>1, <1>2, <1>3 DEF IInv

-----------------------------------------------------------------------------
\* A run reads the holdings of the moment; or it ends.
LEMMA ListInv ==
    ASSUME IInv, NEW i \in Instances, ListHoldings(i)
    PROVE  IInv'
  <1>. USE Typed0
  <1>1. CASE Finish(i)
    <2>1. TypeOK'
      BY <1>1 DEF ListHoldings, Finish, Goto, world, IInv, TypeOK
    <2>2. Timely'
      BY <1>1 DEF ListHoldings, Finish, Goto, world, IInv, TypeOK, Timely, Listed
    <2>3. Settled'
      BY <1>1, Finished
    <2>. QED
      BY <1>1, <2>1, <2>2, <2>3 DEF ListHoldings, Finish, Goto, world, IInv, TypeOK, Stopped,
         RowsAreOfTheirDay
  <1>2. CASE ~Finish(i)
    <2>1. /\ run' = [run EXCEPT ![i].holds = holdings, ![i].listed = trades, ![i].on = today]
          /\ job' = [job EXCEPT ![i] = "quote"]
          /\ job[i] = "list"
          /\ UNCHANGED <<world, rows, main, deadline>>
      BY <1>2 DEF ListHoldings, Goto
    <2>2. /\ run' \in [Instances -> Run]
          /\ \A j \in Instances \ {i} : run'[j] = run[j]
          /\ run'[i].day = run[i].day /\ run'[i].listed = trades /\ run'[i].on = today
          /\ run'[i].quotes = run[i].quotes
      BY <2>1, ListedRun DEF IInv
    <2>3. TypeOK'
      BY <2>1, <2>2 DEF world, IInv, TypeOK
    <2>4. Timely'
      BY <2>1, <2>2, JobParameters DEF world, IInv, TypeOK, Timely, Listed, Days
    <2>5. Settled'
      BY <2>1, <2>2 DEF IInv, TypeOK, Settled, Calling, Held
    <2>. QED
      BY <2>1, <2>3, <2>4, <2>5 DEF world, IInv, TypeOK, Stopped, RowsAreOfTheirDay
  <1>. QED
    BY <1>1, <1>2

\* A lookup starts or ends, within the fan-out.
LEMMA QuoteInv ==
    ASSUME IInv, NEW i \in Instances, NEW s \in Symbols, StartQuote(i, s) \/ EndQuote(i, s)
    PROVE  IInv'
  <1>1. job[i] = "quote" /\ job' = job
    BY DEF StartQuote, EndQuote, IInv, Settled, Calling
  <1>2. PICK state \in {"calling", "priced", "unpriced"} : Quote(i, s, state)
    BY DEF StartQuote, EndQuote
  <1>3. UNCHANGED <<world, rows, main, deadline>>
    BY DEF StartQuote, EndQuote
  <1>4. /\ run' \in [Instances -> Run]
        /\ \A j \in Instances \ {i} : run'[j] = run[j]
        /\ run'[i].day = run[i].day /\ run'[i].listed = run[i].listed /\ run'[i].on = run[i].on
        /\ run'[i].holds = run[i].holds
        /\ \A t \in Symbols \ {s} : run'[i].quotes[t] = run[i].quotes[t]
    BY <1>2, QuotedRun DEF IInv
  <1>5. TypeOK'
    BY <1>1, <1>3, <1>4 DEF world, IInv, TypeOK
  <1>6. Timely'
    BY <1>1, <1>3, <1>4 DEF world, IInv, Timely
  <1>7. s \in Held(i)
    BY <1>1 DEF StartQuote, EndQuote, IInv, Settled, Calling
  <1>8. Held(i)' = Held(i) /\ Calling(i)' \subseteq Calling(i) \union {s}
    BY <1>4 DEF Held, Calling, IInv, TypeOK, Run
  <1>9. Settled'
    <2>. SUFFICES ASSUME NEW j \in Instances
                  PROVE  /\ job[j] # "quote" => Calling(j)' = {}
                         /\ job[j] = "quote" => Calling(j)' \subseteq Held(j)'
      BY <1>1 DEF Settled
    <2>1. CASE j = i
      BY <1>1, <1>7, <1>8, <2>1 DEF IInv, Settled
    <2>2. CASE j # i
      BY <1>4, <2>2 DEF IInv, Settled, Calling, Held
    <2>. QED
      BY <2>1, <2>2
  <1>10. Stopped' /\ RowsAreOfTheirDay'
    BY <1>1, <1>3 DEF world, IInv, Stopped, RowsAreOfTheirDay
  <1>. QED
    BY <1>5, <1>6, <1>9, <1>10 DEF IInv

\* The fan-out ends only when no lookup is left.
LEMMA PricingDoneInv ==
    ASSUME IInv, NEW i \in Instances, PricingDone(i)
    PROVE  IInv'
  <1>. USE Typed0
  <1>1. TypeOK'
    BY DEF PricingDone, Finish, Goto, world, IInv, TypeOK
  <1>2. Timely'
    BY DEF PricingDone, Finish, Goto, world, IInv, TypeOK, Timely, Listed
  <1>3. Settled'
    <2>1. Calling(i) = {}
      BY DEF PricingDone, IInv, Settled, Calling
    <2>2. CASE Finish(i)
      BY <2>2, Finished
    <2>3. CASE ~Finish(i)
      BY <2>1, <2>3 DEF PricingDone, Goto, IInv, TypeOK, Settled, Calling, Held
    <2>. QED
      BY <2>2, <2>3
  <1>4. Stopped' /\ RowsAreOfTheirDay'
    BY DEF PricingDone, Finish, Goto, world, IInv, TypeOK, Stopped, RowsAreOfTheirDay
  <1>. QED
    BY <1>1, <1>2, <1>3, <1>4 DEF IInv

LEMMA SendInv ==
    ASSUME IInv, NEW i \in Instances, SendBatch(i) \/ EndBatch(i)
    PROVE  IInv'
  <1>. USE Typed0
  <1>1. TypeOK'
    BY DEF SendBatch, EndBatch, Finish, Goto, world, IInv, TypeOK
  <1>2. Timely'
    BY DEF SendBatch, EndBatch, Finish, Goto, world, IInv, TypeOK, Timely, Listed
  <1>3. Settled'
    <2>1. CASE Finish(i)
      BY <2>1, Finished
    <2>2. CASE ~Finish(i)
      BY <2>2 DEF SendBatch, EndBatch, Goto, IInv, TypeOK, Settled, Calling, Held
    <2>. QED
      BY <2>1, <2>2
  <1>4. Stopped' /\ RowsAreOfTheirDay'
    BY DEF SendBatch, EndBatch, Finish, Goto, world, IInv, TypeOK, Stopped, RowsAreOfTheirDay
  <1>. QED
    BY <1>1, <1>2, <1>3, <1>4 DEF IInv

\* The only step that writes rows.
LEMMA CommitInv ==
    ASSUME IInv, NEW i \in Instances, CommitBatch(i)
    PROVE  IInv'
  <1>1. \A u \in Users, d \in Days : rows'[u][d] =
            IF d = run[i].day /\ u \in Complete(i) THEN ValueByUser(i)[u] ELSE rows[u][d]
    BY CommittedRow DEF IInv
  <1>2. \A u \in Complete(i) : u \in Users /\ ValueByUser(i)[u] \in Snapshot
    BY BatchTyped DEF IInv, Complete
  <1>3. rows' \in [Users -> [Days -> Snapshot \union {NoSnapshot}]]
    <2>1. DOMAIN rows' = Users /\ \A u \in Users : DOMAIN rows'[u] = Days
      BY DEF CommitBatch, IInv, TypeOK
    <2>2. \A u \in Users, d \in Days : rows'[u][d] \in Snapshot \union {NoSnapshot}
      BY <1>1, <1>2 DEF IInv, TypeOK
    <2>3. rows' = [u \in Users |-> rows'[u]] /\ \A u \in Users : rows'[u] = [d \in Days |-> rows'[u][d]]
      BY DEF CommitBatch, IInv, TypeOK
    <2>. QED
      BY <2>2, <2>3
  <1>4. TypeOK'
    BY <1>3 DEF CommitBatch, Goto, world, IInv, TypeOK
  <1>5. Timely' /\ Settled' /\ Stopped'
    BY DEF CommitBatch, Goto, world, IInv, TypeOK, Timely, Listed, Settled, Calling, Held, Stopped
  <1>6. RowsAreOfTheirDay'
    <2>1. \A u \in Complete(i) : ValueByUser(i)[u].on = run[i].on
      BY DEF ValueByUser
    <2>2. run[i].on >= run[i].day
      BY DEF CommitBatch, IInv, TypeOK, Run, Timely, Listed, Days
    <2>. QED
      BY <1>1, <2>1, <2>2 DEF IInv, RowsAreOfTheirDay
  <1>. QED
    BY <1>4, <1>5, <1>6 DEF IInv

\* Between two runs, and the start of the first.
LEMMA SelectInv ==
    ASSUME IInv, NEW i \in Instances, Select(i) \/ Recheck(i) \/ Start(i)
    PROVE  IInv'
  <1>1. Calling(i) = {}
    BY DEF Select, Recheck, Start, IInv, Settled, Stopped
  <1>2. /\ run' \in [Instances -> Run]
        /\ \A j \in Instances \ {i} : run'[j] = run[j]
        /\ run'[i].quotes = run[i].quotes
        /\ job'[i] = "list" => run'[i].day = today
    <2>1. CASE run' = run /\ job'[i] # "list"
      BY <2>1 DEF IInv, TypeOK
    <2>2. CASE run' = [run EXCEPT ![i].day = today]
      BY <2>2, StartedRun DEF IInv
    <2>3. (run' = run /\ job'[i] # "list") \/ run' = [run EXCEPT ![i].day = today]
      BY DEF Select, Recheck, Start, Goto, IInv, TypeOK
    <2>. QED
      BY <2>1, <2>2, <2>3
  <1>3. job' = [job EXCEPT ![i] = job'[i]] /\ job'[i] \in {"list", "recheck", "done"}
    BY DEF Select, Recheck, Start, Goto, IInv, TypeOK
  <1>4. UNCHANGED <<world, rows, deadline>>
    BY DEF Select, Recheck, Start
  <1>5. main' = main \/ main' = [main EXCEPT ![i] = "serving"]
    BY DEF Select, Recheck, Start
  <1>6. TypeOK'
    BY <1>2, <1>3, <1>4, <1>5 DEF world, IInv, TypeOK
  <1>7. Timely'
    BY <1>2, <1>3, <1>4, JobParameters DEF world, IInv, TypeOK, Timely, Listed, Days
  <1>8. Settled'
    <2>1. \A j \in Instances \ {i} : Calling(j)' = Calling(j) /\ Held(j)' = Held(j) /\ job'[j] = job[j]
      BY <1>2, <1>3 DEF Calling, Held, IInv, TypeOK
    <2>2. Calling(i)' = {} /\ job'[i] # "quote"
      BY <1>1, <1>2, <1>3 DEF Calling
    <2>. QED
      BY <2>1, <2>2 DEF IInv, Settled
  <1>9. Stopped'
    BY <1>3, <1>4, <1>5 DEF Select, Recheck, Start, IInv, TypeOK, Stopped
  <1>. QED
    BY <1>4, <1>6, <1>7, <1>8, <1>9 DEF IInv, RowsAreOfTheirDay

\* The shutdown sequence and the death of a process.
LEMMA ProcessInv ==
    ASSUME IInv, NEW i \in Instances,
           Signal(i) \/ DeadlinePasses(i) \/ Shutdown(i) \/ Crash(i)
    PROVE  IInv'
  <1>. USE Typed0
  <1>1. CASE Gone(i)
    <2>1. TypeOK'
      BY <1>1 DEF Gone, Goto, world, IInv, TypeOK
    <2>2. Timely' /\ Stopped' /\ RowsAreOfTheirDay'
      BY <1>1 DEF Gone, Goto, world, IInv, TypeOK, Timely, Listed, Stopped, RowsAreOfTheirDay
    <2>3. Settled'
      BY <1>1 DEF Gone, Goto, IInv, TypeOK, Settled, Calling, Held, NoRun, Idle
    <2>. QED
      BY <2>1, <2>2, <2>3 DEF IInv
  <1>2. CASE Signal(i) \/ DeadlinePasses(i) \/ Drained(i) \/ StopReturns(i) \/ PoolCloses(i)
    <2>1. UNCHANGED <<world, rows, job, run>>
      BY <1>2 DEF Signal, DeadlinePasses, Drained, StopReturns, PoolCloses
    <2>2. TypeOK'
      BY <1>2, <2>1 DEF Signal, DeadlinePasses, Drained, StopReturns, PoolCloses, world, IInv, TypeOK
    <2>3. Timely' /\ Settled' /\ RowsAreOfTheirDay'
      BY <2>1 DEF world, IInv, Timely, Settled, Calling, Held, RowsAreOfTheirDay
    <2>4. Stopped'
      BY <1>2, <2>1 DEF Signal, DeadlinePasses, Drained, StopReturns, PoolCloses, IInv, TypeOK, Stopped
    <2>. QED
      BY <2>2, <2>3, <2>4 DEF IInv
  <1>. QED
    BY <1>1, <1>2 DEF Shutdown, Exit, Crash

LEMMA WorldInv ==
    ASSUME IInv, NextDay \/ \E u \in Users : Trade(u)
    PROVE  IInv'
  <1>. USE JobParameters DEF NextDay, Trade
  <1>1. TypeOK'
    BY DEF IInv, TypeOK, Days
  <1>2. Timely'
    BY DEF IInv, TypeOK, Run, Timely, Listed, Days
  <1>3. Settled' /\ Stopped' /\ RowsAreOfTheirDay'
    BY DEF IInv, Settled, Calling, Held, Stopped, RowsAreOfTheirDay
  <1>. QED
    BY <1>1, <1>2, <1>3 DEF IInv

LEMMA NextInv == IInv /\ [Next]_vars => IInv'
  <1>. SUFFICES ASSUME IInv, [Next]_vars PROVE IInv'
    OBVIOUS
  <1>1. CASE UNCHANGED vars
    BY <1>1 DEF vars, world, IInv, TypeOK, Timely, Settled, Calling, Held, Stopped, RowsAreOfTheirDay
  <1>. QED
    BY <1>1, ListInv, QuoteInv, PricingDoneInv, SendInv, CommitInv, SelectInv, ProcessInv, WorldInv
    DEF Next, Work

\* Rows are written by commits alone.
LEMMA OnlyCommitsWrite ==
    ASSUME [Next]_vars, \A i \in Instances : ~CommitBatch(i)
    PROVE  rows' = rows
  BY DEF Next, vars, Start, Signal, DeadlinePasses, Shutdown, Drained, StopReturns, PoolCloses, Exit,
     Crash, Gone, Work, ListHoldings, StartQuote, PricingDone, SendBatch, EndBatch, Select, Recheck,
     EndQuote, NextDay, Trade

\* A run lists the holdings at its beginning and keeps that listing.
LEMMA RunGoesOn ==
    ASSUME IInv, [Next]_vars, \A i \in Instances : ~CommitBatch(i),
           NEW i \in Instances, job'[i] \in {"quote", "write", "sent"}
    PROVE  \/ run'[i].listed = trades
           \/ job[i] \in {"quote", "write", "sent"} /\ run'[i].listed = run[i].listed
  <1>1. CASE \E j \in Instances : ListHoldings(j)
    <2>. PICK j \in Instances : ListHoldings(j)
      BY <1>1
    <2>1. CASE Finish(j)
      BY <2>1 DEF Finish, Goto, IInv, TypeOK
    <2>2. CASE ~Finish(j)
      <3>1. /\ run' = [run EXCEPT ![j].holds = holdings, ![j].listed = trades, ![j].on = today]
            /\ job' = [job EXCEPT ![j] = "quote"]
        BY <2>2 DEF ListHoldings, Goto
      <3>. QED
        BY <3>1, ListedRun DEF IInv, TypeOK
    <2>. QED
      BY <2>1, <2>2
  <1>2. CASE \E j \in Instances, s \in Symbols : StartQuote(j, s) \/ EndQuote(j, s)
    <2>. PICK j \in Instances, s \in Symbols : StartQuote(j, s) \/ EndQuote(j, s)
      BY <1>2
    <2>1. PICK state \in {"calling", "priced", "unpriced"} : Quote(j, s, state)
      BY DEF StartQuote, EndQuote
    <2>2. job' = job
      BY DEF StartQuote, EndQuote
    <2>3. run'[i].listed = run[i].listed
      BY <2>1, QuotedRun DEF IInv
    <2>. QED
      BY <2>2, <2>3
  <1>3. CASE \E j \in Instances : PricingDone(j) \/ SendBatch(j) \/ EndBatch(j)
    BY <1>3 DEF PricingDone, SendBatch, EndBatch, Finish, Goto, IInv, TypeOK
  <1>4. CASE \E j \in Instances : Select(j) \/ Recheck(j) \/ Start(j)
    BY <1>4 DEF Select, Recheck, Start, Goto, IInv, TypeOK
  <1>5. CASE \E j \in Instances : Signal(j) \/ DeadlinePasses(j) \/ Shutdown(j) \/ Crash(j)
    BY <1>5 DEF Signal, DeadlinePasses, Shutdown, Drained, StopReturns, PoolCloses, Exit, Crash, Gone,
       Goto, IInv, TypeOK
  <1>6. CASE NextDay \/ (\E u \in Users : Trade(u)) \/ UNCHANGED vars
    BY <1>6 DEF NextDay, Trade, vars
  <1>. QED
    BY <1>1, <1>2, <1>3, <1>4, <1>5, <1>6 DEF Next, Work

\* The inductive invariant holds in every reachable state.
THEOREM JobInvariance == Spec => []IInv
  BY InitInv, NextInv, PTL DEF Spec

\* Runs, processes and rows are well typed.
THEOREM JobTyping == Spec => []TypeOK
  <1>1. IInv => TypeOK
    BY DEF IInv
  <1>. QED
    BY <1>1, JobInvariance, PTL

\* A row never holds what its user had before its day began, across midnights and crashes.
THEOREM RowsOfTheirDay == Spec => []RowsAreOfTheirDay
  <1>1. IInv => RowsAreOfTheirDay
    BY DEF IInv
  <1>. QED
    BY <1>1, JobInvariance, PTL

\* When the pool closes before the deadline the job and all its lookups have ended.
THEOREM StoppedIsQuiet == Spec => []StoppedMeansQuiet
  <1>1. IInv => StoppedMeansQuiet
    BY DEF IInv, Stopped, Settled, StoppedMeansQuiet
  <1>. QED
    BY <1>1, JobInvariance, PTL

\* No stored total leaves out a holding, whatever fails and whoever is skipped.
THEOREM TotalsComplete == Spec => []TotalsAreComplete
  <1>1. Init => TotalsAreComplete
    BY DEF Init, TotalsAreComplete
  <1>2. IInv /\ TotalsAreComplete /\ [Next]_vars => TotalsAreComplete'
    <2>. SUFFICES ASSUME IInv, TotalsAreComplete, [Next]_vars PROVE TotalsAreComplete'
      OBVIOUS
    <2>1. ASSUME NEW i \in Instances, CommitBatch(i)
          PROVE  TotalsAreComplete'
      <3>1. \A u \in Complete(i) : ValueByUser(i)[u].counted = ValueByUser(i)[u].held
        BY DEF ValueByUser, Complete, IInv, TypeOK, Run
      <3>. QED
        BY <2>1, <3>1, CommittedRow DEF IInv, TotalsAreComplete
    <2>2. CASE \A i \in Instances : ~CommitBatch(i)
      BY <2>2, OnlyCommitsWrite DEF TotalsAreComplete
    <2>. QED
      BY <2>1, <2>2
  <1>. QED
    BY <1>1, <1>2, JobInvariance, PTL DEF Spec

-----------------------------------------------------------------------------
\* What is stored was listed before what the run at work has listed.
Latest ==
    \A u \in Users, d \in Days : rows[u][d] # NoSnapshot =>
        /\ rows[u][d].listed <= trades
        /\ \A i \in Instances : job[i] \in {"quote", "write", "sent"} =>
              rows[u][d].listed <= run[i].listed

\* Runs of one instance do not overlap, so a row only moves forward.  Two instances are
\* enough to break this.
THEOREM OneInstanceGoesForward ==
    ASSUME \A i, j \in Instances : i = j
    PROVE  Spec => DaysGoForward
  <1>. DEFINE Forward(u, d) == rows[u][d] # NoSnapshot =>
                  rows'[u][d] # NoSnapshot /\ rows'[u][d].listed >= rows[u][d].listed
  <1>1. Init => Latest
    BY DEF Init, Latest
  <1>2. ASSUME IInv, Latest, [Next]_vars
        PROVE  Latest' /\ \A u \in Users, d \in Days : Forward(u, d)
    <2>1. ASSUME NEW i \in Instances, CommitBatch(i)
          PROVE  Latest' /\ \A u \in Users, d \in Days : Forward(u, d)
      <3>1. \A u \in Complete(i) : ValueByUser(i)[u].listed = run[i].listed /\ ValueByUser(i)[u] \in Snapshot
        BY <1>2, BatchTyped DEF ValueByUser, IInv
      <3>2. /\ job[i] = "sent" /\ job'[i] = "answered" /\ trades' = trades
            /\ run[i].listed \in Nat /\ run[i].listed <= trades
        BY <1>2, <2>1, JobParameters DEF CommitBatch, Goto, world, IInv, TypeOK, Run, Timely, Listed
      <3>3. \A u \in Users, d \in Days : rows'[u][d] =
                IF d = run[i].day /\ u \in Complete(i) THEN ValueByUser(i)[u] ELSE rows[u][d]
        BY <1>2, <2>1, CommittedRow DEF IInv
      <3>4. \A j \in Instances : job'[j] = "answered"
        BY <3>2
      <3>5. Latest'
        BY <1>2, <3>1, <3>2, <3>3, <3>4 DEF Latest
      <3>6. \A u \in Users, d \in Days : Forward(u, d)
        <4>. SUFFICES ASSUME NEW u \in Users, NEW d \in Days, rows[u][d] # NoSnapshot
                      PROVE  rows'[u][d] # NoSnapshot /\ rows'[u][d].listed >= rows[u][d].listed
          OBVIOUS
        <4>1. rows[u][d].listed \in Nat /\ rows[u][d].listed <= run[i].listed
          BY <1>2, <3>2, JobParameters DEF Latest, IInv, TypeOK, Snapshot
        <4>. QED
          BY <3>1, <3>2, <3>3, <4>1, NoSnapshotIsNotASnapshot
      <3>. QED
        BY <3>5, <3>6
    <2>2. CASE \A i \in Instances : ~CommitBatch(i)
      <3>1. rows' = rows
        BY <1>2, <2>2, OnlyCommitsWrite
      <3>2. \A u \in Users, d \in Days : rows[u][d] # NoSnapshot => rows[u][d].listed \in Nat
        BY <1>2, JobParameters DEF IInv, TypeOK, Snapshot
      <3>3. Latest'
        <4>1. trades \in Nat /\ trades' \in Nat /\ trades <= trades'
          <5>1. trades' = trades \/ trades' = trades + 1
            BY <1>2 DEF Next, vars, world, Start, Signal, DeadlinePasses, Shutdown, Drained, StopReturns,
               PoolCloses, Exit, Crash, Gone, Work, ListHoldings, StartQuote, PricingDone, SendBatch,
               EndBatch, CommitBatch, Select, Recheck, EndQuote, NextDay, Trade
          <5>2. trades \in Nat
            BY <1>2, JobParameters DEF IInv, TypeOK
          <5>. QED
            BY <5>1, <5>2
        <4>2. ASSUME NEW i \in Instances, job'[i] \in {"quote", "write", "sent"}
              PROVE  \/ run'[i].listed = trades
                     \/ job[i] \in {"quote", "write", "sent"} /\ run'[i].listed = run[i].listed
          BY <1>2, <2>2, <4>2, RunGoesOn
        <4>. QED
          BY <1>2, <3>1, <3>2, <4>1, <4>2 DEF Latest
      <3>4. \A u \in Users, d \in Days : Forward(u, d)
        BY <3>1, <3>2
      <3>. QED
        BY <3>3, <3>4
    <2>. QED
      BY <2>1, <2>2
  <1>3. IInv /\ Latest /\ [Next]_vars => Latest'
    BY <1>2
  <1>4. IInv /\ Latest /\ [Next]_vars =>
            [\A u \in Users, d \in Days : rows[u][d] # NoSnapshot =>
                rows'[u][d] # NoSnapshot /\ rows'[u][d].listed >= rows[u][d].listed]_vars
    BY <1>2
  <1>. QED
    BY <1>1, <1>3, <1>4, JobInvariance, PTL DEF Spec, DaysGoForward
=============================================================================
