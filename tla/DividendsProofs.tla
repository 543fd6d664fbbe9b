---------------------------- MODULE DividendsProofs ----------------------------
(***************************************************************************)
(* Theorems about Dividends, for any requests, windows and calendars.      *)
(*                                                                         *)
(* A request stays between the bounds of its window (Inside), a month has  *)
(* at most one fill (Flights), and what a fill brings was fetched after    *)
(* what the cache holds (Filling).                                         *)
(*                                                                         *)
(* The rows (RowsInv): every tile of a fill is whole up to the first day   *)
(* it is still to ask for, so a bucket is whole for its month and what a   *)
(* request has collected for the months before the one at hand.  Whole is  *)
(* of an interval of calendars: no row twice, none that was not published, *)
(* and all that were published throughout.                                 *)
(***************************************************************************)
EXTENDS Dividends, FiniteSetTheorems, WellFoundedInduction, TLAPS

Stages == {"idle", "next", "get", "join", "wait", "fetch", "failed", "store", "finish",
           "answer", "error"}

\* The month at hand is one of the window.
Reading == {"get", "join", "wait", "fetch", "failed", "store", "finish"}

\* The request runs the function of its flight.
Leading == {"fetch", "failed", "store", "finish"}

first == MonthOf(Today) - BoundMonths
last  == MonthOf(Today) + BoundMonths

Shape ==
    /\ version \in Nat
    /\ DOMAIN cache = Months /\ cache = [m \in Months |-> cache[m]]
    /\ flight \in [Months -> Requests \union {NoRequest}]
    /\ pc \in [Requests -> Stages]
    /\ window \in [Requests -> Int \X Int]
    /\ month \in [Requests -> Int]
    /\ DOMAIN fill = Requests /\ fill = [r \in Requests |-> fill[r]]
    /\ refused \in [Months -> BOOLEAN]

Inside ==
    \A r \in Requests :
        /\ pc[r] # "idle" => first <= month[r] /\ MonthOf(window[r][2]) <= last
        /\ pc[r] \in Reading => month[r] <= MonthOf(window[r][2])

\* The group and the requests agree on who leads.
Flights ==
    /\ \A r \in Requests : pc[r] \in Leading => flight[month[r]] = r
    /\ \A m \in Months : flight[m] # NoRequest =>
          pc[flight[m]] \in Leading /\ month[flight[m]] = m

Cached ==
    \A m \in Months : cache[m] # NoBucket =>
        /\ m \in first..last
        /\ cache[m].until \in Nat /\ cache[m].until <= version

\* A fill in progress is a record, and newer than what the cache holds.
Filling ==
    \A r \in Requests :
        /\ pc[r] = "fetch" =>
              fill[r] = [rows |-> fill[r].rows, todo |-> fill[r].todo, since |-> fill[r].since]
        /\ pc[r] = "store" => fill[r].until \in Nat /\ fill[r].until <= version
        /\ pc[r] \in {"fetch", "store"} =>
              /\ fill[r].since \in Nat /\ fill[r].since <= version
              /\ cache[month[r]] # NoBucket => cache[month[r]].until <= fill[r].since

Refusals == \A r \in Requests : pc[r] = "failed" => refused[month[r]]

IInv == Shape /\ Inside /\ Flights /\ Cached /\ Filling /\ Refusals

-----------------------------------------------------------------------------
LEMMA MonthsOfDays ==
    /\ \A d \in Int : MonthOf(d) \in Int
    /\ \A m, d \in Int : MonthStart(m) <= d => m <= MonthOf(d)
    /\ \A m, d \in Int : d <= MonthEnd(m) => MonthOf(d) <= m
    /\ \A m \in Int : MonthStart(m) \in Int /\ MonthEnd(m) \in Int
  BY CalendarParameters, SMTT(30) DEF MonthOf, MonthStart, MonthEnd

LEMMA StartsAreOrdered ==
    ASSUME NEW m \in Int, NEW n \in Int, m <= n
    PROVE  MonthStart(m) <= MonthStart(n) /\ MonthEnd(m) <= MonthEnd(n)
  BY CalendarParameters, SMTT(30) DEF MonthStart, MonthEnd

LEMMA Bounds ==
    /\ first \in Int /\ last \in Int /\ first <= last
    /\ Months = (first - 1)..(last + 1)
    /\ earliest = MonthStart(first) /\ latest = MonthEnd(last)
    /\ earliest \in Int /\ latest \in Int
  <1>1. MonthOf(Today) \in Int /\ BoundMonths \in Nat
    BY CalendarParameters, MonthsOfDays
  <1>2. first \in Int /\ last \in Int /\ first <= last
    BY <1>1 DEF first, last
  <1>3. Months = (first - 1)..(last + 1) /\ earliest = MonthStart(first) /\ latest = MonthEnd(last)
    BY DEF first, last, Months, earliest, latest
  <1>. QED
    BY <1>2, <1>3, MonthsOfDays

LEMMA WindowsAreDays == ASSUME NEW w \in Asked PROVE Resolve(w) \in Int \X Int
  <1>1. Asked \subseteq (Int \union {NoDate}) \X (Int \union {NoDate}) /\ Today \in Int
    BY CalendarParameters
  <1>2. DefaultForward \in Nat
    BY CalendarParameters
  <1>3. w[1] \in Int \union {NoDate} /\ w[2] \in Int \union {NoDate}
    BY <1>1
  <1>4. latest \in Int
    BY Bounds
  <1>. QED
    BY <1>1, <1>2, <1>3, <1>4 DEF Resolve

\* An accepted window lies in the months it may reach.
LEMMA AcceptedWindows ==
    ASSUME NEW w \in Int \X Int, Accepted(w)
    PROVE  first <= MonthOf(w[1]) /\ MonthOf(w[2]) <= last
  BY MonthsOfDays, Bounds DEF Accepted

\* The month at hand is one the cache and the group know of.
LEMMA MonthsAreKnown ==
    ASSUME IInv, NEW r \in Requests, pc[r] \in Reading
    PROVE  month[r] \in Months /\ month[r] \in first..last
  BY MonthsOfDays, Bounds DEF IInv, Shape, Inside, Reading

-----------------------------------------------------------------------------
LEMMA InitInv == Init => IInv
  <1>. SUFFICES ASSUME Init PROVE IInv
    OBVIOUS
  <1>1. Shape
    BY CalendarParameters DEF Init, Shape, Stages
  <1>2. Flights
    BY CalendarParameters DEF Init, Flights, Leading
  <1>. QED
    BY <1>1, <1>2 DEF Init, IInv, Inside, Cached, Filling, Refusals, Reading

\* A request outside the function of a flight moves on, outside it as well.
LEMMA QuietStep ==
    ASSUME IInv, NEW r \in Requests,
           pc[r] \notin Leading,
           pc' \in [Requests -> Stages], pc'[r] \notin Leading,
           window' \in [Requests -> Int \X Int], month' \in [Requests -> Int],
           \A q \in Requests \ {r} : pc'[q] = pc[q] /\ month'[q] = month[q],
           UNCHANGED <<version, cache, flight, fill, refused>>
    PROVE  Shape' /\ Flights' /\ Cached' /\ Filling' /\ Refusals'
  <1>1. Shape'
    BY DEF IInv, Shape
  <1>2. ASSUME NEW q \in Requests, pc'[q] \in Leading
        PROVE  pc[q] = pc'[q] /\ month'[q] = month[q]
    BY <1>2
  <1>3. Flights'
    <2>1. ASSUME NEW q \in Requests, pc'[q] \in Leading PROVE flight'[month'[q]] = q
      BY <1>2, <2>1 DEF IInv, Flights
    <2>2. ASSUME NEW m \in Months, flight'[m] # NoRequest
          PROVE  pc'[flight'[m]] \in Leading /\ month'[flight'[m]] = m
      <3>1. flight'[m] = flight[m] /\ flight[m] \in Requests
        BY <2>2 DEF IInv, Shape
      <3>2. pc[flight[m]] \in Leading /\ month[flight[m]] = m
        BY <2>2, <3>1 DEF IInv, Flights
      <3>. QED
        BY <3>1, <3>2
    <2>. QED
      BY <2>1, <2>2 DEF Flights
  <1>4. Cached'
    BY DEF IInv, Cached
  <1>5. ASSUME NEW q \in Requests, pc'[q] \in {"fetch", "store", "failed"}
        PROVE  pc[q] = pc'[q] /\ month'[q] = month[q]
    BY <1>2, <1>5 DEF Leading
  <1>6. Filling'
    BY <1>5 DEF IInv, Filling
  <1>7. Refusals'
    BY <1>5 DEF IInv, Refusals
  <1>. QED
    BY <1>1, <1>3, <1>4, <1>6, <1>7

LEMMA StartStep == ASSUME IInv, NEW r \in Requests, Start(r) PROVE IInv'
  <1>1. PICK w \in Asked : /\ Accepted(Resolve(w))
                           /\ window' = [window EXCEPT ![r] = Resolve(w)]
                           /\ month' = [month EXCEPT ![r] = MonthOf(Resolve(w)[1])]
    BY DEF Start
  <1>2. /\ Resolve(w) \in Int \X Int
        /\ MonthOf(Resolve(w)[1]) \in Int
        /\ first <= MonthOf(Resolve(w)[1]) /\ MonthOf(Resolve(w)[2]) <= last
    BY <1>1, WindowsAreDays, AcceptedWindows, MonthsOfDays
  <1>3. /\ pc[r] = "idle" /\ pc' = [pc EXCEPT ![r] = "next"]
        /\ UNCHANGED <<version, cache, flight, fill, refused>>
    BY DEF Start, Goto
  <1>4. /\ pc' \in [Requests -> Stages] /\ month' \in [Requests -> Int]
        /\ window' \in [Requests -> Int \X Int]
        /\ pc'[r] = "next"
        /\ \A q \in Requests \ {r} : pc'[q] = pc[q] /\ month'[q] = month[q]
    BY <1>1, <1>2, <1>3 DEF IInv, Shape, Stages
  <1>5. Inside'
    BY <1>1, <1>2, <1>4 DEF IInv, Shape, Inside, Reading
  <1>. QED
    BY <1>3, <1>4, <1>5, QuietStep DEF IInv, Leading

LEMMA NextMonthStep == ASSUME IInv, NEW r \in Requests, NextMonth(r) PROVE IInv'
  <1>1. /\ pc[r] = "next"
        /\ \E stage \in {"answer", "error", "get"} :
              /\ pc' = [pc EXCEPT ![r] = stage]
              /\ stage = "get" => ~(month[r] > MonthOf(window[r][2]))
        /\ UNCHANGED <<version, cache, flight, window, month, fill, refused>>
    BY DEF NextMonth, Goto
  <1>2. /\ pc' \in [Requests -> Stages]
        /\ pc'[r] \in {"answer", "error", "get"}
        /\ \A q \in Requests \ {r} : pc'[q] = pc[q]
    BY <1>1 DEF IInv, Shape, Stages
  <1>3. pc'[r] = "get" => month[r] <= MonthOf(window[r][2])
    BY <1>1, MonthsOfDays DEF IInv, Shape
  <1>4. Inside'
    BY <1>1, <1>2, <1>3 DEF IInv, Inside, Reading
  <1>5. /\ pc[r] \notin Leading /\ pc'[r] \notin Leading
        /\ window' \in [Requests -> Int \X Int] /\ month' \in [Requests -> Int]
        /\ \A q \in Requests \ {r} : pc'[q] = pc[q] /\ month'[q] = month[q]
        /\ UNCHANGED <<version, cache, flight, fill, refused>>
    BY <1>1, <1>2 DEF IInv, Shape, Leading
  <1>6. Shape' /\ Flights' /\ Cached' /\ Filling' /\ Refusals'
    BY <1>2, <1>5, QuietStep
  <1>. QED
    BY <1>4, <1>6 DEF IInv

\* The requests of rs go on to their next month.
LEMMA CollectStep ==
    ASSUME IInv, NEW rs \in SUBSET Requests, NEW rows, Collect(rs, rows),
           \A r \in rs : pc[r] \in Reading,
           UNCHANGED window
    PROVE  /\ pc' \in [Requests -> Stages] /\ month' \in [Requests -> Int]
           /\ Inside'
           /\ \A r \in rs : pc'[r] = "next"
           /\ \A r \in Requests \ rs : pc'[r] = pc[r] /\ month'[r] = month[r]
  <1>1. /\ \A r \in rs : pc'[r] = "next" /\ month'[r] = month[r] + 1
        /\ \A r \in Requests \ rs : pc'[r] = pc[r] /\ month'[r] = month[r]
        /\ pc' \in [Requests -> Stages] /\ month' \in [Requests -> Int]
    BY DEF Collect, IInv, Shape, Stages
  <1>2. ASSUME NEW r \in Requests
        PROVE  /\ pc'[r] # "idle" => first <= month'[r] /\ MonthOf(window[r][2]) <= last
               /\ pc'[r] \in Reading => month'[r] <= MonthOf(window[r][2])
    <2>1. CASE r \in rs
      <3>1. pc[r] # "idle"
        BY <2>1 DEF Reading
      <3>2. first <= month[r] /\ MonthOf(window[r][2]) <= last /\ month[r] \in Int
        BY <3>1 DEF IInv, Inside, Shape
      <3>. QED
        BY <1>1, <2>1, <3>2, Bounds DEF Reading
    <2>2. CASE r \notin rs
      BY <1>1, <2>2 DEF IInv, Inside
    <2>. QED
      BY <2>1, <2>2
  <1>. QED
    BY <1>1, <1>2 DEF Inside

LEMMA GetStep == ASSUME IInv, NEW r \in Requests, Get(r) PROVE IInv'
  <1>1. /\ pc[r] = "get"
        /\ UNCHANGED <<version, cache, flight, window, fill, refused>>
    BY DEF Get
  <1>2. CASE Collect({r}, cache[month[r]].events)
    <2>1. /\ pc' \in [Requests -> Stages] /\ month' \in [Requests -> Int]
          /\ Inside'
          /\ pc'[r] = "next"
          /\ \A q \in Requests \ {r} : pc'[q] = pc[q] /\ month'[q] = month[q]
      <3>1. {r} \in SUBSET Requests /\ \A q \in {r} : pc[q] \in Reading
        BY <1>1 DEF Reading
      <3>2. UNCHANGED window
        BY <1>1
      <3>3. /\ pc' \in [Requests -> Stages] /\ month' \in [Requests -> Int]
            /\ Inside'
            /\ \A q \in {r} : pc'[q] = "next"
            /\ \A q \in Requests \ {r} : pc'[q] = pc[q] /\ month'[q] = month[q]
        BY <1>2, <3>1, <3>2, CollectStep
      <3>. QED
        BY <3>3
    <2>. QED
      BY <1>1, <2>1, QuietStep DEF IInv, Shape, Leading
  <1>3. CASE Goto(r, "join") /\ UNCHANGED <<month, entries>>
    <2>1. /\ pc' \in [Requests -> Stages]
          /\ pc'[r] = "join"
          /\ \A q \in Requests \ {r} : pc'[q] = pc[q]
      BY <1>3 DEF Goto, IInv, Shape, Stages
    <2>2. Inside'
      BY <1>1, <1>3, <2>1 DEF IInv, Inside, Reading
    <2>. QED
      BY <1>1, <1>3, <2>1, <2>2, QuietStep DEF IInv, Shape, Leading
  <1>. QED
    BY <1>2, <1>3 DEF Get

LEMMA JoinStep == ASSUME IInv, NEW r \in Requests, Join(r) PROVE IInv'
  <1>1. month[r] \in Months /\ pc[r] = "join"
    BY MonthsAreKnown DEF Join, Reading
  <1>2. CASE flight[month[r]] # NoRequest
    <2>1. /\ pc' = [pc EXCEPT ![r] = "wait"]
          /\ UNCHANGED <<version, cache, flight, window, month, fill, refused>>
      BY <1>2 DEF Join, Goto
    <2>2. /\ pc' \in [Requests -> Stages]
          /\ pc'[r] = "wait"
          /\ \A q \in Requests \ {r} : pc'[q] = pc[q]
      BY <2>1 DEF IInv, Shape, Stages
    <2>3. Inside'
      BY <1>1, <2>1, <2>2 DEF IInv, Inside, Reading
    <2>. QED
      BY <1>1, <2>1, <2>2, <2>3, QuietStep DEF IInv, Shape, Leading
  <1>3. CASE flight[month[r]] = NoRequest
    <2>1. /\ flight' = [flight EXCEPT ![month[r]] = r]
          /\ pc' = [pc EXCEPT ![r] = "fetch"]
          /\ UNCHANGED <<version, cache, window, month, refused>>
      BY <1>3 DEF Join, Goto
    <2>2. PICK rows, todo :
              fill' = [fill EXCEPT ![r] = [rows |-> rows, todo |-> todo, since |-> version]]
      BY <1>3 DEF Join
    <2>3. /\ pc' \in [Requests -> Stages]
          /\ pc'[r] = "fetch"
          /\ \A q \in Requests \ {r} : pc'[q] = pc[q] /\ fill'[q] = fill[q]
          /\ fill'[r] = [rows |-> rows, todo |-> todo, since |-> version]
      BY <2>1, <2>2 DEF IInv, Shape, Stages
    <2>4. Shape'
      BY <1>1, <2>1, <2>2, <2>3 DEF IInv, Shape
    <2>5. Inside'
      BY <1>1, <2>1, <2>3 DEF IInv, Inside, Reading
    <2>6. Flights'
      <3>1. \A q \in Requests \ {r} : pc[q] \in Leading => month[q] # month[r]
        BY <1>1, <1>3, CalendarParameters DEF IInv, Flights
      <3>2. flight'[month[r]] = r /\ \A m \in Months \ {month[r]} : flight'[m] = flight[m]
        BY <1>1, <2>1 DEF IInv, Shape
      <3>3. ASSUME NEW q \in Requests, pc'[q] \in Leading PROVE flight'[month'[q]] = q
        <4>1. CASE q = r
          BY <2>1, <3>2, <4>1
        <4>2. CASE q # r
          <5>1. pc[q] \in Leading /\ month'[q] = month[q] /\ month[q] # month[r]
            BY <2>1, <2>3, <3>1, <3>3, <4>2
          <5>2. month[q] \in Months
            BY <5>1, MonthsAreKnown DEF Leading, Reading
          <5>. QED
            BY <3>2, <5>1, <5>2 DEF IInv, Flights
        <4>. QED
          BY <4>1, <4>2
      <3>4. ASSUME NEW m \in Months, flight'[m] # NoRequest
            PROVE  pc'[flight'[m]] \in Leading /\ month'[flight'[m]] = m
        <4>1. CASE m = month[r]
          BY <2>1, <2>3, <3>2, <4>1 DEF Leading
        <4>2. CASE m # month[r]
          <5>1. flight'[m] = flight[m] /\ flight[m] \in Requests
            BY <3>2, <3>4, <4>2 DEF IInv, Shape
          <5>2. pc[flight[m]] \in Leading /\ month[flight[m]] = m
            BY <3>4, <5>1 DEF IInv, Flights
          <5>. QED
            BY <1>1, <2>1, <2>3, <5>1, <5>2 DEF Leading
        <4>. QED
          BY <4>1, <4>2
      <3>. QED
        BY <3>3, <3>4 DEF Flights
    <2>7. Filling'
      <3>1. version \in Nat
        BY DEF IInv, Shape
      <3>2. cache[month[r]] # NoBucket => cache[month[r]].until <= version
        BY <1>1 DEF IInv, Cached
      <3>3. ASSUME NEW q \in Requests \ {r} PROVE pc'[q] = pc[q] /\ fill'[q] = fill[q]
        BY <2>3
      <3>. QED
        BY <2>1, <2>3, <3>1, <3>2, <3>3 DEF IInv, Filling
    <2>8. Cached' /\ Refusals'
      BY <2>1, <2>3 DEF IInv, Cached, Refusals
    <2>. QED
      BY <2>4, <2>5, <2>6, <2>7, <2>8 DEF IInv
  <1>. QED
    BY <1>2, <1>3

-----------------------------------------------------------------------------
\* Two fills are of different months.
LEMMA OneFillPerMonth ==
    ASSUME IInv, NEW r \in Requests, NEW q \in Requests \ {r},
           pc[r] \in Leading, pc[q] \in Leading
    PROVE  month[q] # month[r]
  BY DEF IInv, Flights

\* A request goes on inside the function of its flight.
LEMMA LeaderStep ==
    ASSUME IInv, NEW r \in Requests,
           pc[r] \in Leading,
           NEW stage \in Leading, pc' = [pc EXCEPT ![r] = stage],
           UNCHANGED <<flight, window, month>>
    PROVE  /\ pc' \in [Requests -> Stages]
           /\ pc'[r] = stage
           /\ \A q \in Requests \ {r} : pc'[q] = pc[q]
           /\ Inside' /\ Flights'
  <1>1. /\ pc' \in [Requests -> Stages]
        /\ pc'[r] = stage
        /\ \A q \in Requests \ {r} : pc'[q] = pc[q]
    BY DEF IInv, Shape, Stages, Leading
  <1>2. Inside'
    BY <1>1 DEF IInv, Inside, Leading, Reading
  <1>3. ASSUME NEW q \in Requests PROVE pc'[q] \in Leading <=> pc[q] \in Leading
    BY <1>1
  <1>4. \A m \in Months : flight[m] # NoRequest => flight[m] \in Requests
    BY DEF IInv, Shape
  <1>5. Flights'
    BY <1>3, <1>4 DEF IInv, Flights
  <1>. QED
    BY <1>1, <1>2, <1>5

LEMMA AskStep == ASSUME IInv, NEW r \in Requests, NEW i, Ask(r, i) PROVE IInv'
  <1>1. /\ pc[r] = "fetch"
        /\ UNCHANGED <<version, cache, flight, pc, window, month, refused>>
    BY DEF Ask, Running
  <1>2. /\ DOMAIN fill' = Requests /\ fill' = [q \in Requests |-> fill'[q]]
        /\ \A q \in Requests \ {r} : fill'[q] = fill[q]
        /\ \E rows, todo : fill'[r] = [rows |-> rows, todo |-> todo, since |-> fill[r].since]
    <2>1. PICK rows, todo, since : fill[r] = [rows |-> rows, todo |-> todo, since |-> since]
      BY <1>1 DEF IInv, Filling
    <2>2. PICK a, b : \/ fill' = [fill EXCEPT ![r].rows[i] = a, ![r].todo[i] = b]
                      \/ fill' = [fill EXCEPT ![r].todo[i] = b]
      <3>. DEFINE range == Head(fill[r].todo[i])
                  rest  == Tail(fill[r].todo[i])
                  mid   == range[1] + (range[2] - range[1]) \div 2
      <3>1. \/ fill' = [fill EXCEPT ![r].rows[i] = fill[r].rows[i] \o Reply(range[1], range[2]),
                                    ![r].todo[i] = rest]
            \/ fill' = [fill EXCEPT ![r].todo[i] =
                            <<<<range[1], mid>>, <<mid + 1, range[2]>>>> \o rest]
        BY <2>1 DEF Ask, IInv, Shape
      <3>. HIDE DEF range, rest, mid
      <3>. QED
        BY <3>1
    <2>3. CASE fill' = [fill EXCEPT ![r].rows[i] = a, ![r].todo[i] = b]
      BY <2>1, <2>3 DEF IInv, Shape
    <2>4. CASE fill' = [fill EXCEPT ![r].todo[i] = b]
      BY <2>1, <2>4 DEF IInv, Shape
    <2>. QED
      BY <2>2, <2>3, <2>4
  <1>3. Shape'
    BY <1>1, <1>2 DEF IInv, Shape
  <1>4. Inside' /\ Flights' /\ Cached' /\ Refusals'
    BY <1>1 DEF IInv, Inside, Flights, Cached, Refusals
  <1>5. /\ fill'[r] = [rows |-> fill'[r].rows, todo |-> fill'[r].todo, since |-> fill'[r].since]
        /\ fill'[r].since = fill[r].since
    <2>1. PICK rows, todo : fill'[r] = [rows |-> rows, todo |-> todo, since |-> fill[r].since]
      BY <1>2
    <2>. QED
      BY <2>1
  <1>6. Filling'
    <2>1. ASSUME NEW q \in Requests \ {r} PROVE fill'[q] = fill[q]
      BY <1>2
    <2>. QED
      BY <1>1, <1>5, <2>1 DEF IInv, Filling
  <1>. QED
    BY <1>3, <1>4, <1>6 DEF IInv

LEMMA AskFailsStep == ASSUME IInv, NEW r \in Requests, NEW i, AskFails(r, i) PROVE IInv'
  <1>1. /\ pc[r] = "fetch" /\ pc' = [pc EXCEPT ![r] = "failed"]
        /\ fill' = [fill EXCEPT ![r] = NoFill]
        /\ refused' = [refused EXCEPT ![month[r]] = TRUE]
        /\ UNCHANGED <<version, cache, flight, window, month>>
    BY DEF AskFails, Running, Goto
  <1>2. /\ pc' \in [Requests -> Stages]
        /\ pc'[r] = "failed"
        /\ \A q \in Requests \ {r} : pc'[q] = pc[q]
        /\ Inside' /\ Flights'
    BY <1>1, LeaderStep DEF Leading
  <1>3. month[r] \in Months
    BY <1>1, MonthsAreKnown DEF Reading
  <1>4. Shape'
    BY <1>1, <1>2 DEF IInv, Shape
  <1>5. Cached'
    BY <1>1 DEF IInv, Cached
  <1>6. \A q \in Requests \ {r} : fill'[q] = fill[q]
    BY <1>1 DEF IInv, Shape
  <1>7. Filling'
    BY <1>1, <1>2, <1>6 DEF IInv, Filling
  <1>8. Refusals'
    <2>1. refused'[month[r]] /\ \A m \in Months : refused[m] => refused'[m]
      BY <1>1, <1>3 DEF IInv, Shape
    <2>2. ASSUME NEW q \in Requests, pc'[q] = "failed" PROVE refused'[month'[q]]
      <3>1. CASE q = r
        BY <1>1, <2>1, <3>1
      <3>2. CASE q # r
        <4>1. pc[q] = "failed" /\ refused[month[q]]
          BY <1>2, <2>2, <3>2 DEF IInv, Refusals
        <4>2. month[q] \in Months
          BY <4>1, MonthsAreKnown DEF Reading
        <4>. QED
          BY <1>1, <2>1, <4>1, <4>2
      <3>. QED
        BY <3>1, <3>2
    <2>. QED
      BY <2>2 DEF Refusals
  <1>. QED
    BY <1>2, <1>4, <1>5, <1>7, <1>8 DEF IInv

LEMMA FetchedStep == ASSUME IInv, NEW r \in Requests, Fetched(r) PROVE IInv'
  <1>1. /\ pc[r] = "fetch" /\ pc' = [pc EXCEPT ![r] = "store"]
        /\ UNCHANGED <<version, cache, flight, window, month, refused>>
    BY DEF Fetched, Goto
  <1>2. PICK events : fill' = [fill EXCEPT ![r] =
            [events |-> events, since |-> fill[r].since, until |-> version]]
    BY DEF Fetched
  <1>3. /\ pc' \in [Requests -> Stages]
        /\ pc'[r] = "store"
        /\ \A q \in Requests \ {r} : pc'[q] = pc[q]
        /\ Inside' /\ Flights'
    BY <1>1, LeaderStep DEF Leading
  <1>4. /\ fill'[r] = [events |-> events, since |-> fill[r].since, until |-> version]
        /\ \A q \in Requests \ {r} : fill'[q] = fill[q]
    BY <1>2 DEF IInv, Shape
  <1>5. Shape'
    BY <1>1, <1>2, <1>3 DEF IInv, Shape
  <1>6. Filling'
    <2>1. fill'[r].since = fill[r].since /\ fill'[r].until = version /\ version \in Nat
      BY <1>4 DEF IInv, Shape
    <2>2. ASSUME NEW q \in Requests \ {r} PROVE fill'[q] = fill[q] /\ pc'[q] = pc[q]
      BY <1>3, <1>4
    <2>3. /\ fill[r].since \in Nat /\ fill[r].since <= version
          /\ cache[month[r]] # NoBucket => cache[month[r]].until <= fill[r].since
      BY <1>1 DEF IInv, Filling
    <2>4. ASSUME NEW q \in Requests \ {r}
          PROVE  /\ pc'[q] = "fetch" =>
                       fill'[q] = [rows |-> fill'[q].rows, todo |-> fill'[q].todo,
                                   since |-> fill'[q].since]
                 /\ pc'[q] = "store" => fill'[q].until \in Nat /\ fill'[q].until <= version
                 /\ pc'[q] \in {"fetch", "store"} =>
                       /\ fill'[q].since \in Nat /\ fill'[q].since <= version
                       /\ cache[month[q]] # NoBucket => cache[month[q]].until <= fill'[q].since
      BY <2>2 DEF IInv, Filling
    <2>5. /\ pc'[r] # "fetch"
          /\ fill'[r].until \in Nat /\ fill'[r].until <= version
          /\ fill'[r].since \in Nat /\ fill'[r].since <= version
          /\ cache[month[r]] # NoBucket => cache[month[r]].until <= fill'[r].since
      BY <1>3, <2>1, <2>3
    <2>6. ASSUME NEW q \in Requests
          PROVE  /\ pc'[q] = "fetch" =>
                       fill'[q] = [rows |-> fill'[q].rows, todo |-> fill'[q].todo,
                                   since |-> fill'[q].since]
                 /\ pc'[q] = "store" => fill'[q].until \in Nat /\ fill'[q].until <= version
                 /\ pc'[q] \in {"fetch", "store"} =>
                       /\ fill'[q].since \in Nat /\ fill'[q].since <= version
                       /\ cache[month[q]] # NoBucket => cache[month[q]].until <= fill'[q].since
      <3>1. CASE q = r
        BY <2>5, <3>1
      <3>2. CASE q # r
        BY <2>4, <3>2
      <3>. QED
        BY <3>1, <3>2
    <2>. QED
      BY <1>1, <2>6 DEF Filling
  <1>7. Cached' /\ Refusals'
    BY <1>1, <1>3 DEF IInv, Cached, Refusals
  <1>. QED
    BY <1>3, <1>5, <1>6, <1>7 DEF IInv

LEMMA StoreStep == ASSUME IInv, NEW r \in Requests, Store(r) PROVE IInv'
  <1>1. /\ pc[r] = "store" /\ pc' = [pc EXCEPT ![r] = "finish"]
        /\ cache' = [cache EXCEPT ![month[r]] = fill[r]] \/ UNCHANGED cache
        /\ UNCHANGED <<version, flight, window, month, fill, refused>>
    BY DEF Store, Goto
  <1>2. /\ pc' \in [Requests -> Stages]
        /\ pc'[r] = "finish"
        /\ \A q \in Requests \ {r} : pc'[q] = pc[q]
        /\ Inside' /\ Flights'
    BY <1>1, LeaderStep DEF Leading
  <1>3. month[r] \in Months /\ month[r] \in first..last
    BY <1>1, MonthsAreKnown DEF Reading
  <1>4. /\ DOMAIN cache' = Months /\ cache' = [m \in Months |-> cache'[m]]
        /\ cache'[month[r]] \in {cache[month[r]], fill[r]}
        /\ \A m \in Months \ {month[r]} : cache'[m] = cache[m]
    BY <1>1, <1>3 DEF IInv, Shape
  <1>5. Shape'
    BY <1>1, <1>2, <1>4 DEF IInv, Shape
  <1>6. Cached'
    <2>1. fill[r].until \in Nat /\ fill[r].until <= version
      BY <1>1 DEF IInv, Filling
    <2>2. ASSUME NEW m \in Months, cache'[m] # NoBucket
          PROVE  m \in first..last /\ cache'[m].until \in Nat /\ cache'[m].until <= version
      BY <1>3, <1>4, <2>1, <2>2 DEF IInv, Cached
    <2>. QED
      BY <1>1, <2>2 DEF Cached
  <1>7. Filling'
    <2>1. ASSUME NEW q \in Requests, pc'[q] \in {"fetch", "store"}
          PROVE  q # r /\ pc[q] = pc'[q] /\ cache'[month[q]] = cache[month[q]]
      <3>1. q # r /\ pc[q] = pc'[q]
        BY <1>2, <2>1
      <3>2. month[q] # month[r]
        BY <1>1, <2>1, <3>1, OneFillPerMonth DEF Leading
      <3>3. month[q] \in Months
        BY <2>1, <3>1, MonthsAreKnown DEF Reading
      <3>. QED
        BY <1>4, <3>1, <3>2, <3>3
    <2>. QED
      BY <1>1, <2>1 DEF IInv, Filling
  <1>8. Refusals'
    BY <1>1, <1>2 DEF IInv, Refusals
  <1>. QED
    BY <1>2, <1>5, <1>6, <1>7, <1>8 DEF IInv

LEMMA FinishStep == ASSUME IInv, NEW r \in Requests, Finish(r) PROVE IInv'
  <1>. DEFINE m == month[r]
              sharing == {r} \union {q \in Requests : pc[q] = "wait" /\ month[q] = m}
  <1>1. /\ pc[r] \in {"failed", "finish"}
        /\ flight' = [flight EXCEPT ![m] = NoRequest]
        /\ fill' = [fill EXCEPT ![r] = NoFill]
        /\ refused' = [refused EXCEPT ![m] = FALSE]
        /\ UNCHANGED <<version, cache, window>>
    BY DEF Finish
  <1>2. sharing \in SUBSET Requests /\ \A q \in sharing : pc[q] \in Reading
    BY <1>1 DEF Reading
  <1>3. /\ pc' \in [Requests -> Stages] /\ month' \in [Requests -> Int]
        /\ Inside'
        /\ \A q \in sharing : pc'[q] \in {"next", "error"}
        /\ \A q \in Requests \ sharing : pc'[q] = pc[q] /\ month'[q] = month[q]
    <2>1. CASE pc[r] = "failed"
      <3>1. /\ pc' = [q \in Requests |-> IF q \in sharing THEN "error" ELSE pc[q]]
            /\ month' = month
        BY <2>1 DEF Finish
      <3>2. /\ pc' \in [Requests -> Stages]
            /\ \A q \in sharing : pc'[q] = "error"
            /\ \A q \in Requests \ sharing : pc'[q] = pc[q]
        BY <1>2, <3>1 DEF IInv, Shape, Stages
      <3>3. \A q \in sharing : pc[q] # "idle"
        BY <1>2 DEF Reading
      <3>. HIDE DEF sharing
      <3>4. Inside'
        BY <1>1, <3>1, <3>2, <3>3 DEF IInv, Inside, Reading
      <3>. QED
        BY <3>1, <3>2, <3>4 DEF IInv, Shape
    <2>2. CASE pc[r] # "failed"
      <3>1. Collect(sharing, fill[r].events)
        BY <2>2 DEF Finish
      <3>. HIDE DEF sharing
      <3>2. UNCHANGED window
        BY <1>1
      <3>. QED
        BY <1>2, <3>1, <3>2, CollectStep
    <2>. QED
      BY <2>1, <2>2
  <1>4. m \in Months
    BY <1>1, MonthsAreKnown DEF Reading
  <1>5. ASSUME NEW q \in Requests, pc'[q] \in Leading
        PROVE  q \notin sharing /\ pc'[q] = pc[q] /\ month'[q] = month[q] /\ month[q] # m
    <2>1. q \notin sharing /\ pc'[q] = pc[q] /\ month'[q] = month[q]
      BY <1>3, <1>5 DEF Leading
    <2>2. q # r /\ pc[r] \in Leading
      BY <1>1, <2>1 DEF Leading
    <2>. QED
      BY <1>5, <2>1, <2>2, OneFillPerMonth
  <1>6. Shape'
    BY <1>1, <1>3 DEF IInv, Shape
  <1>7. Flights'
    <2>1. ASSUME NEW q \in Requests, pc'[q] \in Leading PROVE flight'[month'[q]] = q
      <3>1. month[q] \in Months
        BY <1>5, <2>1, MonthsAreKnown DEF Leading, Reading
      <3>2. flight[month[q]] = q
        BY <1>5, <2>1 DEF IInv, Flights
      <3>. QED
        BY <1>1, <1>5, <2>1, <3>1, <3>2 DEF IInv, Shape
    <2>2. ASSUME NEW n \in Months, flight'[n] # NoRequest
          PROVE  pc'[flight'[n]] \in Leading /\ month'[flight'[n]] = n
      <3>1. n # m /\ flight'[n] = flight[n] /\ flight[n] \in Requests
        BY <1>1, <1>4, <2>2 DEF IInv, Shape
      <3>2. pc[flight[n]] \in Leading /\ month[flight[n]] = n
        BY <2>2, <3>1 DEF IInv, Flights
      <3>3. flight[n] \notin sharing
        BY <3>1, <3>2 DEF Leading
      <3>. QED
        BY <1>3, <3>1, <3>2, <3>3
    <2>. QED
      BY <2>1, <2>2 DEF Flights
  <1>8. Cached'
    BY <1>1 DEF IInv, Cached
  <1>9. Filling'
    <2>1. ASSUME NEW q \in Requests, pc'[q] \in {"fetch", "store"}
          PROVE  pc'[q] = pc[q] /\ month'[q] = month[q] /\ fill'[q] = fill[q]
      BY <1>1, <1>5, <2>1 DEF IInv, Shape, Leading
    <2>. QED
      BY <1>1, <2>1 DEF IInv, Filling
  <1>10. Refusals'
    <2>1. ASSUME NEW q \in Requests, pc'[q] = "failed" PROVE refused'[month'[q]]
      <3>1. pc[q] = "failed" /\ month'[q] = month[q] /\ month[q] # m
        BY <1>5, <2>1 DEF Leading
      <3>2. month[q] \in Months /\ refused[month[q]]
        BY <3>1, MonthsAreKnown DEF Reading, IInv, Refusals
      <3>. QED
        BY <1>1, <3>1, <3>2 DEF IInv, Shape
    <2>. QED
      BY <2>1 DEF Refusals
  <1>. QED
    BY <1>3, <1>6, <1>7, <1>8, <1>9, <1>10 DEF IInv

LEMMA ReturnStep == ASSUME IInv, NEW r \in Requests, Return(r) PROVE IInv'
  <1>1. /\ pc[r] \in {"answer", "error"} /\ pc' = [pc EXCEPT ![r] = "idle"]
        /\ window' = [window EXCEPT ![r] = <<Today, Today>>]
        /\ month' = [month EXCEPT ![r] = 0]
        /\ UNCHANGED <<version, cache, flight, fill, refused>>
    BY DEF Return, Goto
  <1>2. /\ pc' \in [Requests -> Stages] /\ month' \in [Requests -> Int]
        /\ window' \in [Requests -> Int \X Int]
        /\ pc'[r] = "idle"
        /\ \A q \in Requests \ {r} :
              pc'[q] = pc[q] /\ month'[q] = month[q] /\ window'[q] = window[q]
    BY <1>1, CalendarParameters DEF IInv, Shape, Stages
  <1>3. Inside'
    BY <1>2 DEF IInv, Inside, Reading
  <1>4. pc[r] \notin Leading /\ pc'[r] \notin Leading
    BY <1>1, <1>2 DEF Leading
  <1>5. Shape' /\ Flights' /\ Cached' /\ Filling' /\ Refusals'
    BY <1>1, <1>2, <1>4, QuietStep
  <1>. QED
    BY <1>3, <1>5 DEF IInv

\* A step that touches nothing the invariant speaks of.
LEMMA IdleStep ==
    ASSUME IInv, UNCHANGED <<version, cache, flight, pc, window, month, fill, refused>>
    PROVE  IInv'
  <1>1. Shape'
    BY DEF IInv, Shape
  <1>2. Inside' /\ Flights'
    BY DEF IInv, Inside, Flights
  <1>3. Cached' /\ Refusals'
    BY DEF IInv, Cached, Refusals
  <1>4. Filling'
    BY DEF IInv, Filling
  <1>. QED
    BY <1>1, <1>2, <1>3, <1>4 DEF IInv

LEMMA ExpireStep == ASSUME IInv, NEW m \in Months, Expire(m) PROVE IInv'
  <1>1. /\ cache' = [cache EXCEPT ![m] = NoBucket]
        /\ UNCHANGED <<version, flight, pc, window, month, fill, refused>>
    BY DEF Expire
  <1>2. /\ DOMAIN cache' = Months /\ cache' = [n \in Months |-> cache'[n]]
        /\ \A n \in Months : cache'[n] # NoBucket => cache'[n] = cache[n]
    BY <1>1 DEF IInv, Shape
  <1>3. Shape' /\ Inside' /\ Flights' /\ Refusals'
    BY <1>1, <1>2 DEF IInv, Shape, Inside, Flights, Refusals
  <1>4. Cached'
    BY <1>1, <1>2 DEF IInv, Cached
  <1>5. Filling'
    <2>1. ASSUME NEW q \in Requests, pc[q] \in {"fetch", "store"} PROVE month[q] \in Months
      BY <2>1, MonthsAreKnown DEF Reading
    <2>. QED
      BY <1>1, <1>2, <2>1 DEF IInv, Filling
  <1>. QED
    BY <1>3, <1>4, <1>5 DEF IInv

LEMMA ReviseStep == ASSUME IInv, Revise PROVE IInv'
  <1>1. version' = version + 1 /\ UNCHANGED <<cache, flight, pc, window, month, fill, refused>>
    BY DEF Revise
  <1>2. Shape' /\ Inside' /\ Flights' /\ Refusals'
    BY <1>1 DEF IInv, Shape, Inside, Flights, Refusals
  <1>3. version \in Nat
    BY DEF IInv, Shape
  <1>4. Cached'
    BY <1>1, <1>3 DEF IInv, Cached
  <1>5. ASSUME NEW q \in Requests
        PROVE  /\ pc[q] = "store" => fill[q].until \in Nat /\ fill[q].until <= version + 1
               /\ pc[q] \in {"fetch", "store"} =>
                     fill[q].since \in Nat /\ fill[q].since <= version + 1
    <2>1. /\ pc[q] = "store" => fill[q].until \in Nat /\ fill[q].until <= version
          /\ pc[q] \in {"fetch", "store"} => fill[q].since \in Nat /\ fill[q].since <= version
      BY DEF IInv, Filling
    <2>2. \A n \in Nat : n <= version => n <= version + 1
      BY <1>3
    <2>. QED
      BY <2>1, <2>2
  <1>6. Filling'
    BY <1>1, <1>5 DEF IInv, Filling
  <1>. QED
    BY <1>2, <1>4, <1>6 DEF IInv

-----------------------------------------------------------------------------
LEMMA NextInv == IInv /\ [Next]_vars => IInv'
  <1>. SUFFICES ASSUME IInv, [Next]_vars PROVE IInv'
    OBVIOUS
  <1>1. ASSUME NEW r \in Requests, Start(r) \/ Work(r) \/ Abandon(r) PROVE IInv'
    BY <1>1, StartStep, NextMonthStep, GetStep, JoinStep, AskStep, AskFailsStep, FetchedStep,
       StoreStep, FinishStep, ReturnStep, IdleStep DEF Work, Abandon
  <1>2. ASSUME NEW m \in Months, Expire(m) PROVE IInv'
    BY <1>2, ExpireStep
  <1>3. CASE Revise
    BY <1>3, ReviseStep
  <1>4. CASE UNCHANGED vars
    BY <1>4, IdleStep DEF vars
  <1>. QED
    BY <1>1, <1>2, <1>3, <1>4 DEF Next

\* The invariant the theorems rest on.
THEOREM Invariance == Spec => []IInv
  BY InitInv, NextInv, PTL DEF Spec

\* Whatever windows are asked for, only months within the bounds are filled and stored
\* (resolveWindow, calendar.go:252).
THEOREM BoundedFills == Spec => []FillsAreBounded
  <1>1. IInv => FillsAreBounded
    <2>. SUFFICES ASSUME IInv, NEW m \in Months, cache[m] # NoBucket \/ flight[m] # NoRequest
                  PROVE  earliest <= MonthStart(m) /\ MonthEnd(m) <= latest
      BY DEF FillsAreBounded
    <2>1. m \in first..last
      <3>1. CASE cache[m] # NoBucket
        BY <3>1 DEF IInv, Cached
      <3>2. CASE flight[m] # NoRequest
        <4>1. flight[m] \in Requests /\ pc[flight[m]] \in Leading /\ month[flight[m]] = m
          BY <3>2 DEF IInv, Shape, Flights
        <4>. QED
          BY <4>1, MonthsAreKnown DEF Leading, Reading
      <3>. QED
        BY <3>1, <3>2
    <2>. QED
      BY <2>1, Bounds, StartsAreOrdered
  <1>. QED
    BY <1>1, Invariance, PTL

\* With one process, a bucket in Redis is only replaced by one that was fetched after it
\* (bucket, calendar.go:315).
THEOREM NewerBuckets == Spec => BucketsGoForward
  <1>1. IInv /\ [Next]_vars =>
            [\A m \in Months : cache[m] # NoBucket /\ cache'[m] # NoBucket =>
                cache'[m] = cache[m] \/ cache[m].until <= cache'[m].since]_vars
    <2>. SUFFICES ASSUME IInv, Next, NEW m \in Months, cache[m] # NoBucket, cache'[m] # NoBucket
                  PROVE  cache'[m] = cache[m] \/ cache[m].until <= cache'[m].since
      OBVIOUS
    <2>1. ASSUME NEW r \in Requests, Store(r)
          PROVE  cache'[m] = cache[m] \/ cache[m].until <= cache'[m].since
      <3>1. pc[r] = "store" /\ (cache' = [cache EXCEPT ![month[r]] = fill[r]] \/ cache' = cache)
        BY <2>1 DEF Store
      <3>2. cache'[m] = cache[m] \/ (m = month[r] /\ cache'[m] = fill[r])
        BY <3>1 DEF IInv, Shape
      <3>. QED
        BY <3>1, <3>2 DEF IInv, Filling
    <2>2. ASSUME NEW n \in Months, Expire(n) PROVE cache'[m] = cache[m]
      BY <2>2 DEF Expire, IInv, Shape
    <2>3. CASE UNCHANGED cache
      BY <2>3
    <2>4. ASSUME NEW r \in Requests, NEW i, Ask(r, i) \/ AskFails(r, i) PROVE UNCHANGED cache
      BY <2>4 DEF Ask, AskFails
    <2>5. ASSUME NEW r \in Requests,
                 Start(r) \/ NextMonth(r) \/ Get(r) \/ Join(r) \/ Fetched(r) \/ Finish(r)
                    \/ Return(r) \/ Abandon(r)
          PROVE UNCHANGED cache
      BY <2>5 DEF Start, NextMonth, Get, Join, Fetched, Finish, Return, Abandon
    <2>6. CASE Revise
      BY <2>6 DEF Revise
    <2>. QED
      BY <2>1, <2>2, <2>3, <2>4, <2>5, <2>6 DEF Next, Work
  <1>. QED
    BY <1>1, Invariance, PTL DEF Spec, BucketsGoForward

\* A request whose client is there gets an error only if the provider refused a call of the
\* fill it led or shared (calendar.go:339).
THEOREM ErrorsFromTheProvider == Spec => ErrorsComeFromTheProvider
  <1>1. IInv /\ [Next]_vars =>
            [\A r \in Requests : pc[r] # "error" /\ pc'[r] = "error" =>
                abandoned[r] \/ refused[month[r]]]_vars
    <2>. SUFFICES ASSUME IInv, Next, NEW r \in Requests, pc[r] # "error", pc'[r] = "error"
                  PROVE  abandoned[r] \/ refused[month[r]]
      OBVIOUS
    <2>0. pc \in [Requests -> Stages]
      BY DEF IInv, Shape
    <2>1. ASSUME NEW q \in Requests, NextMonth(q) PROVE abandoned[r]
      BY <2>0, <2>1 DEF NextMonth, Goto
    <2>2. ASSUME NEW q \in Requests, Finish(q) PROVE refused[month[r]]
      <3>1. CASE pc[q] = "failed"
        <4>1. r = q \/ month[r] = month[q]
          BY <2>0, <2>2, <3>1 DEF Finish
        <4>. QED
          BY <3>1, <4>1 DEF IInv, Refusals
      <3>2. CASE pc[q] # "failed"
        BY <2>0, <2>2, <3>2 DEF Finish, Collect
      <3>. QED
        BY <3>1, <3>2
    <2>3. ASSUME NEW q \in Requests, Get(q) PROVE FALSE
      BY <2>0, <2>3 DEF Get, Collect, Goto
    <2>4. ASSUME NEW q \in Requests, NEW stage \in Stages \ {"error"}, Goto(q, stage) PROVE FALSE
      BY <2>0, <2>4 DEF Goto
    <2>5. CASE UNCHANGED pc
      BY <2>5
    <2>6. ASSUME NEW q \in Requests,
                 Start(q) \/ Join(q) \/ Fetched(q) \/ Store(q) \/ Return(q)
                    \/ \E i : AskFails(q, i)
          PROVE FALSE
      BY <2>4, <2>6 DEF Start, Join, Fetched, Store, Return, AskFails, Stages
    <2>. QED
      BY <2>1, <2>2, <2>3, <2>5, <2>6 DEF Next, Work, Ask, Abandon, Expire, Revise
  <1>. QED
    BY <1>1, Invariance, PTL DEF Spec, ErrorsComeFromTheProvider

-----------------------------------------------------------------------------
\* Among some subsets of a finite set there is one that contains no other of them.
LEMMA SmallestSubset ==
  ASSUME NEW S, IsFiniteSet(S), NEW Bad, Bad \subseteq SUBSET S, Bad # {}
  PROVE  \E s \in Bad : \A r \in Bad : ~ (r \subseteq s /\ r # s)
  <1>1. FiniteSubsetsOf(S) = SUBSET S
    BY FS_FiniteSubsetsOfFinite
  <1>2. IsWellFoundedOn(StrictSubsetOrdering(S), SUBSET S)
    BY FS_StrictSubsetOrderingWellFounded, <1>1
  <1>3. PICK s \in Bad : \A r \in Bad : <<r, s>> \notin StrictSubsetOrdering(S)
    BY <1>2, WFMin
  <1>4. ASSUME NEW r \in Bad, r \subseteq s, r # s PROVE FALSE
    <2>1. <<r, s>> \in (SUBSET S) \X (SUBSET S)
      OBVIOUS
    <2>2. <<r, s>> \in StrictSubsetOrdering(S)
      BY <2>1, <1>4 DEF StrictSubsetOrdering
    <2> QED
      BY <2>2, <1>3
  <1> QED
    BY <1>4

-----------------------------------------------------------------------------
\* The bounds of an integer quotient.
LEMMA QuotientBounds ==
  ASSUME NEW n \in Int, NEW d \in Nat \ {0}
  PROVE  /\ n \div d \in Int
         /\ d * (n \div d) <= n
         /\ n < d * (n \div d) + d
  OBVIOUS

\* The k-th position: the ranks of positions are one to one with the numbers up to theirs.
LEMMA KthIs ==
  ASSUME NEW n \in Nat, NEW P, P \subseteq 1..n
  PROVE  /\ Cardinality(P) \in Nat
         /\ \A k \in 1..Cardinality(P) : Kth(P, k) \in P
         /\ \A k, l \in 1..Cardinality(P) : Kth(P, k) = Kth(P, l) => k = l
         /\ \A i \in P : \E k \in 1..Cardinality(P) : Kth(P, k) = i
  <1> DEFINE C == Cardinality(P)
             upTo(i) == {j \in P : j <= i}
             rank == [i \in P |-> Cardinality(upTo(i))]
             ranks == 1..C
  <1>1. IsFiniteSet(P) /\ C \in Nat
    <2>1. IsFiniteSet(1..n)
      BY FS_Interval
    <2>2. P \in SUBSET (1..n)
      OBVIOUS
    <2>3. IsFiniteSet(P)
      BY <2>1, <2>2, FS_Subset
    <2> QED
      BY <2>3, FS_CardinalityType
  <1>2. ASSUME NEW i \in P
        PROVE  /\ IsFiniteSet(upTo(i)) /\ Cardinality(upTo(i)) \in Nat
               /\ Cardinality(upTo(i)) \in ranks
    <2> DEFINE U == upTo(i)
    <2>1. U \in SUBSET P /\ i \in U
      OBVIOUS
    <2> HIDE DEF U
    <2>2. IsFiniteSet(U) /\ Cardinality(U) <= C
      BY <1>1, <2>1, FS_Subset
    <2>3. Cardinality(U) \in Nat
      BY <2>2, FS_CardinalityType
    <2>4. Cardinality(U) # 0
      BY <2>1, <2>2, FS_EmptySet
    <2> QED
      BY <1>1, <2>2, <2>3, <2>4 DEF U
  <1>3. ASSUME NEW i \in P, NEW j \in P, i < j PROVE rank[i] # rank[j]
    <2> DEFINE U == upTo(i)
               V == upTo(j)
    <2>1. U \in SUBSET V /\ j \in V /\ j \notin U
      <3>1. \A x \in P : x \in Int /\ (x <= i => x <= j)
        BY <1>3
      <3>2. j \in Int /\ i \in Int /\ j <= j /\ ~ (j <= i)
        BY <1>3
      <3> QED
        BY <3>1, <3>2
    <2>2. IsFiniteSet(V) /\ rank[i] = Cardinality(U) /\ rank[j] = Cardinality(V)
      BY <1>2
    <2> HIDE DEF U, V, rank
    <2> QED
      BY <2>1, <2>2, FS_Subset
  <1>4. rank \in Injection(P, ranks)
    <2>1. rank \in [P -> ranks]
      BY <1>2
    <2>2. \A i, j \in P : i = j \/ i < j \/ j < i
      OBVIOUS
    <2>3. \A i, j \in P : rank[i] = rank[j] => i = j
      <3> HIDE DEF rank
      <3> QED
        BY <1>3, <2>2
    <2> HIDE DEF rank, ranks
    <2> QED
      BY <2>1, <2>3 DEF Injection, IsInjective
  <1>5. \A k \in ranks : \E i \in P : rank[i] = k
    <2>1. IsFiniteSet(ranks) /\ Cardinality(ranks) = C
      BY <1>1, FS_Interval
    <2> HIDE DEF rank, ranks
    <2>2. rank \in Surjection(P, ranks)
      BY <1>4, <2>1, FS_Injection
    <2> QED
      BY <2>2 DEF Surjection
  <1>6. ASSUME NEW k \in ranks PROVE Kth(P, k) \in P /\ rank[Kth(P, k)] = k
    <2>1. \E i \in P : Cardinality({j \in P : j <= i}) = k
      BY <1>5
    <2>2. Kth(P, k) \in P /\ Cardinality({j \in P : j <= Kth(P, k)}) = k
      BY <2>1 DEF Kth
    <2> QED
      BY <2>2
  <1>7. ASSUME NEW i \in P PROVE \E k \in ranks : Kth(P, k) = i
    <2>1. rank[i] \in ranks
      BY <1>2
    <2> HIDE DEF rank, ranks
    <2>2. Kth(P, rank[i]) \in P /\ rank[Kth(P, rank[i])] = rank[i]
      BY <1>6, <2>1
    <2>3. Kth(P, rank[i]) = i
      BY <1>4, <2>2 DEF Injection, IsInjective
    <2> QED
      BY <2>1, <2>3
  <1>8. \A k, l \in ranks : Kth(P, k) = Kth(P, l) => k = l
    <2> HIDE DEF rank, ranks
    <2> QED
      BY <1>6
  <1> QED
    BY <1>1, <1>6, <1>7, <1>8

\* What a list holds at some positions is all of it, once each and nothing else.
LEMMA AtIs ==
  ASSUME NEW n \in Nat, NEW P, P \subseteq 1..n, NEW list, NEW T, \A i \in P : list[i] \in T
  PROVE  /\ At(list, P) \in Seq(T)
         /\ DOMAIN At(list, P) = 1..Cardinality(P)
         /\ Cardinality(P) \in Nat
         /\ \A k \in 1..Cardinality(P) : Kth(P, k) \in P /\ At(list, P)[k] = list[Kth(P, k)]
  <1> DEFINE C == Cardinality(P)
  <1>1. C \in Nat /\ \A k \in 1..C : Kth(P, k) \in P
    BY KthIs
  <1> HIDE DEF C
  <1>2. At(list, P) = [k \in 1..C |-> list[Kth(P, k)]]
    BY DEF At, C
  <1>3. \A k \in 1..C : list[Kth(P, k)] \in T
    BY <1>1
  <1>4. At(list, P) \in Seq(T)
    BY <1>1, <1>2, <1>3
  <1> QED
    BY <1>1, <1>2, <1>4 DEF C

\* Sequences, for steps that need no more of them.
LEMMA ListsHave ==
  ASSUME NEW T, NEW list \in Seq(T)
  PROVE  Len(list) \in Nat /\ DOMAIN list = 1..Len(list) /\ \A i \in 1..Len(list) : list[i] \in T
  OBVIOUS

LEMMA EmptyIsList == ASSUME NEW T PROVE <<>> \in Seq(T)
  OBVIOUS

LEMMA FunctionsAreLists ==
  ASSUME NEW n \in Nat, NEW T, NEW f \in [1..n -> T]
  PROVE  f \in Seq(T)
  OBVIOUS

-----------------------------------------------------------------------------
\* A list of rows, none of them twice.
Once(rows) == rows \in Seq(Rows) /\ IsInjective(rows)

\* The positions of a list are 1 up to its length.
LEMMA OnceIs ==
  ASSUME NEW rows
  PROVE  Once(rows) <=> /\ rows \in Seq(Rows)
                        /\ \A i, j \in 1..Len(rows) : rows[i] = rows[j] => i = j
  <1>1. rows \in Seq(Rows) => DOMAIN rows = 1..Len(rows)
    OBVIOUS
  <1> QED
    BY <1>1, Zenon DEF Once, IsInjective

\* What a list holds, by its positions.
LEMMA MembersAre ==
  ASSUME NEW T, NEW rows \in Seq(T)
  PROVE  /\ ToSet(rows) \subseteq T
         /\ \A i \in 1..Len(rows) : rows[i] \in ToSet(rows)
         /\ \A e \in ToSet(rows) : \E i \in 1..Len(rows) : rows[i] = e
  <1>1. DOMAIN rows = 1..Len(rows) /\ \A i \in 1..Len(rows) : rows[i] \in T
    BY ListsHave
  <1> QED
    BY <1>1, Zenon DEF ToSet

\* The dates and the symbol of a row are numbers.
LEMMA RowFields ==
  ASSUME NEW e \in Rows
  PROVE  e.ex \in Int /\ e.symbol \in Int /\ referenceDate(e) \in Int
  <1> DEFINE Row == [symbol : Int, ex : Int, pay : Int \union {NoDate}]
  <1>1. Calendars \in Seq(SUBSET Row)
    BY CalendarParameters
  <1>2. PICK c \in Range(Calendars) : e \in c
    BY DEF Rows
  <1>3. c \in SUBSET Row
    <2> HIDE DEF Row
    <2>1. PICK k \in DOMAIN Calendars : c = Calendars[k]
      BY <1>2 DEF Range
    <2> QED
      BY <1>1, <2>1
  <1>4. e \in Row
    BY <1>2, <1>3
  <1> QED
    BY <1>4 DEF referenceDate

\* What the provider publishes at a time.
LEMMA CalendarIs ==
  ASSUME NEW k \in DOMAIN Calendars
  PROVE  Calendars[k] \subseteq Rows /\ IsFiniteSet(Calendars[k])
  <1>1. Calendars[k] \in Range(Calendars)
    BY DEF Range
  <1> QED
    BY <1>1, CalendarParameters DEF Rows

\* Two lists without a common row.
LEMMA JoinedOnce ==
  ASSUME NEW a, Once(a), NEW b, Once(b), ToSet(a) \intersect ToSet(b) = {}
  PROVE  Once(a \o b) /\ ToSet(a \o b) = ToSet(a) \union ToSet(b)
  <1> DEFINE m == Len(a)
             n == Len(b)
             c == a \o b
  <1>1. /\ a \in Seq(Rows) /\ b \in Seq(Rows) /\ m \in Nat /\ n \in Nat
        /\ \A i, j \in 1..m : a[i] = a[j] => i = j
        /\ \A i, j \in 1..n : b[i] = b[j] => i = j
    BY OnceIs
  <1>2. /\ c \in Seq(Rows) /\ Len(c) = m + n
        /\ \A i \in 1..(m + n) : c[i] = IF i <= m THEN a[i] ELSE b[i - m]
    BY <1>1
  <1>3. /\ \A i \in 1..m : a[i] \in ToSet(a)
        /\ \A i \in 1..n : b[i] \in ToSet(b)
        /\ \A i \in 1..(m + n) : c[i] \in ToSet(c)
        /\ \A e \in ToSet(a) : \E i \in 1..m : a[i] = e
        /\ \A e \in ToSet(b) : \E i \in 1..n : b[i] = e
        /\ \A e \in ToSet(c) : \E i \in 1..(m + n) : c[i] = e
    BY <1>1, <1>2, MembersAre
  <1>4. \A i \in 1..(m + n) : IF i <= m THEN i \in 1..m ELSE i - m \in 1..n
    BY <1>1
  <1>5. \A i \in 1..m : i \in 1..(m + n) /\ i <= m
    BY <1>1
  <1>6. \A i \in 1..n : i + m \in 1..(m + n) /\ ~ (i + m <= m) /\ (i + m) - m = i
    BY <1>1
  <1>7. ASSUME NEW i \in 1..(m + n), NEW j \in 1..(m + n), c[i] = c[j] PROVE i = j
    <2> HIDE DEF m, n, c
    <2>1. CASE i <= m /\ j <= m
      BY <1>1, <1>2, <1>4, <1>7, <2>1
    <2>2. CASE ~ (i <= m) /\ ~ (j <= m)
      <3>1. i - m = j - m
        BY <1>1, <1>2, <1>4, <1>7, <2>2
      <3> QED
        BY <3>1, <1>1
    <2>3. CASE (i <= m) # (j <= m)
      BY <1>2, <1>3, <1>4, <1>7, <2>3
    <2> QED
      BY <2>1, <2>2, <2>3
  <1>8. ToSet(c) \subseteq ToSet(a) \union ToSet(b)
    <2> HIDE DEF m, n, c
    <2>1. ASSUME NEW e \in ToSet(c) PROVE e \in ToSet(a) \union ToSet(b)
      <3>1. PICK i \in 1..(m + n) : c[i] = e
        BY <1>3
      <3> QED
        BY <3>1, <1>2, <1>3, <1>4
    <2> QED
      BY <2>1
  <1>9. ToSet(a) \union ToSet(b) \subseteq ToSet(c)
    <2> HIDE DEF m, n, c
    <2>1. ASSUME NEW e \in ToSet(a) PROVE e \in ToSet(c)
      <3>1. PICK i \in 1..m : a[i] = e
        BY <1>3
      <3> QED
        BY <3>1, <1>2, <1>3, <1>5
    <2>2. ASSUME NEW e \in ToSet(b) PROVE e \in ToSet(c)
      <3>1. PICK i \in 1..n : b[i] = e
        BY <1>3
      <3>2. c[i + m] = e /\ i + m \in 1..(m + n)
        BY <3>1, <1>2, <1>6
      <3> QED
        BY <3>2, <1>3
    <2> QED
      BY <2>1, <2>2
  <1>10. Once(c)
    BY <1>2, <1>7, OnceIs
  <1> QED
    BY <1>8, <1>9, <1>10

\* Some positions of a list.
LEMMA SomeOnce ==
  ASSUME NEW rows, Once(rows), NEW P, P \subseteq DOMAIN rows
  PROVE  Once(At(rows, P)) /\ ToSet(At(rows, P)) = {rows[i] : i \in P}
  <1> DEFINE n == Len(rows)
             C == Cardinality(P)
             some == At(rows, P)
  <1>1. /\ n \in Nat /\ DOMAIN rows = 1..n /\ \A i \in 1..n : rows[i] \in Rows
        /\ \A i, j \in 1..n : rows[i] = rows[j] => i = j
    BY OnceIs, ListsHave
  <1>2. P \subseteq 1..n
    BY <1>1
  <1>3. /\ C \in Nat
        /\ \A k \in 1..C : Kth(P, k) \in P
        /\ \A k, l \in 1..C : Kth(P, k) = Kth(P, l) => k = l
        /\ \A i \in P : \E k \in 1..C : Kth(P, k) = i
    BY <1>1, <1>2, KthIs
  <1>4. \A i \in P : rows[i] \in Rows
    BY <1>1, <1>2
  <1>5. /\ some \in Seq(Rows) /\ DOMAIN some = 1..C
        /\ \A k \in 1..C : some[k] = rows[Kth(P, k)]
    <2>1. n \in Nat
      BY <1>1
    <2> HIDE DEF n
    <2> DEFINE T == Rows
    <2>2. \A i \in P : rows[i] \in T
      BY <1>4
    <2> HIDE DEF T
    <2>3. /\ At(rows, P) \in Seq(T)
          /\ DOMAIN At(rows, P) = 1..Cardinality(P)
          /\ Cardinality(P) \in Nat
          /\ \A k \in 1..Cardinality(P) : Kth(P, k) \in P /\ At(rows, P)[k] = rows[Kth(P, k)]
      BY ONLY <2>1, <1>2, <2>2, AtIs
    <2> QED
      BY <2>3 DEF T
  <1> HIDE DEF n, C, some
  <1>6. Once(some)
    <2>1. \A k, l \in 1..C : some[k] = some[l] => k = l
      BY <1>1, <1>2, <1>3, <1>5
    <2> QED
      BY <1>5, <2>1 DEF Once, IsInjective
  <1>7. ToSet(some) = {rows[i] : i \in P}
    <2>1. \A k \in 1..C : some[k] \in {rows[i] : i \in P}
      BY <1>3, <1>5
    <2>2. ASSUME NEW i \in P PROVE rows[i] \in ToSet(some)
      <3>1. PICK k \in 1..C : Kth(P, k) = i
        BY <1>3
      <3> QED
        BY <3>1, <1>5 DEF ToSet
    <2> QED
      BY <1>5, <2>1, <2>2 DEF ToSet
  <1> QED
    BY <1>6, <1>7 DEF some

\* The rows of a list that pass a test, by the set of all that do.
LEMMA KeptRows ==
  ASSUME NEW rows, Once(rows), NEW S, NEW P, P = {i \in DOMAIN rows : rows[i] \in S}
  PROVE  Once(At(rows, P)) /\ ToSet(At(rows, P)) = ToSet(rows) \intersect S
  <1>1. Once(At(rows, P)) /\ ToSet(At(rows, P)) = {rows[i] : i \in P}
    BY SomeOnce
  <1>2. {rows[i] : i \in P} = ToSet(rows) \intersect S
    BY DEF ToSet
  <1> QED
    BY <1>1, <1>2

-----------------------------------------------------------------------------
\* A finite set as a list.
LEMMA ListedOnce ==
  ASSUME NEW S, S \subseteq Rows, IsFiniteSet(S)
  PROVE  /\ Once(SetToSeq(S)) /\ ToSet(SetToSeq(S)) = S
         /\ Len(SetToSeq(S)) = Cardinality(S) /\ Cardinality(S) \in Nat
  <1> DEFINE n == Cardinality(S)
             list == SetToSeq(S)
  <1>1. n \in Nat /\ ExistsBijection(1..n, S)
    BY FS_CardinalityType, FS_CountingElements
  <1>2. PICK f \in [1..n -> S] : IsInjective(f)
    BY <1>1 DEF ExistsBijection, Bijection, Injection
  <1>3. list \in [1..n -> S] /\ IsInjective(list)
    BY <1>2, Zenon DEF SetToSeq
  <1> HIDE DEF list
  <1>4. list \in Injection(1..n, S)
    BY <1>3 DEF Injection
  <1>5. IsFiniteSet(1..n) /\ Cardinality(1..n) = n
    BY <1>1, FS_Interval
  <1>6. list \in Surjection(1..n, S)
    BY <1>4, <1>5, FS_Injection
  <1>7. list \in [1..n -> Rows]
    BY <1>3
  <1>8. list \in Seq(Rows) /\ Len(list) = n
    BY <1>1, <1>7
  <1>9. ToSet(list) = S
    BY <1>3, <1>6 DEF Surjection, ToSet
  <1> QED
    BY <1>1, <1>3, <1>8, <1>9 DEF Once, list

\* Of some rows there are earliest ones.
LEMMA EarliestRow ==
  ASSUME NEW S, S \subseteq Rows, IsFiniteSet(S), S # {}
  PROVE  \E e \in S : \A f \in S : e.ex <= f.ex
  <1> DEFINE upTo(e) == {f \in S : f.ex <= e.ex}
             Bad == {upTo(e) : e \in S}
  <1>1. Bad \subseteq SUBSET S /\ Bad # {}
    OBVIOUS
  <1>2. PICK s \in Bad : \A r \in Bad : ~ (r \subseteq s /\ r # s)
    <2> HIDE DEF Bad
    <2> QED
      BY <1>1, SmallestSubset
  <1>3. PICK e \in S : s = upTo(e)
    OBVIOUS
  <1>4. ASSUME NEW f \in S, ~ (e.ex <= f.ex) PROVE FALSE
    <2>1. e.ex \in Int /\ f.ex \in Int /\ \A g \in S : g.ex \in Int
      BY RowFields
    <2>2. upTo(f) \subseteq s /\ e \in s /\ e \notin upTo(f)
      BY <1>3, <1>4, <2>1
    <2>3. upTo(f) \in Bad
      OBVIOUS
    <2> HIDE DEF Bad
    <2> QED
      BY <1>2, <2>2, <2>3
  <1> QED
    BY <1>4

\* Rows at the provider's cap: as many of the latest as it sends.
Latest(kept, rows) == \A e \in kept, f \in rows \ kept : e.ex >= f.ex

LEMMA LatestRows ==
  ASSUME NEW S, S \subseteq Rows, IsFiniteSet(S), ~ (Cardinality(S) <= RowCap)
  PROVE  \E kept \in SUBSET S : Cardinality(kept) = RowCap /\ Latest(kept, S)
  <1> DEFINE Bad == {kept \in SUBSET S : Cardinality(kept) >= RowCap /\ Latest(kept, S)}
  <1>0. RowCap \in Nat \ {0}
    BY CalendarParameters
  <1>1. \A kept \in SUBSET S : IsFiniteSet(kept) /\ Cardinality(kept) \in Nat
    BY FS_Subset, FS_CardinalityType
  <1>2. S \in Bad
    BY <1>0, <1>1 DEF Latest
  <1>3. PICK s \in Bad : \A r \in Bad : ~ (r \subseteq s /\ r # s)
    <2>1. Bad \subseteq SUBSET S /\ Bad # {}
      BY <1>2
    <2> HIDE DEF Bad
    <2> QED
      BY <2>1, SmallestSubset
  <1>4. s \in SUBSET S /\ Cardinality(s) >= RowCap /\ Latest(s, S)
    OBVIOUS
  <1>5. ASSUME Cardinality(s) # RowCap PROVE FALSE
    <2>1. IsFiniteSet(s) /\ Cardinality(s) \in Nat /\ Cardinality(s) - 1 >= RowCap
      BY <1>0, <1>1, <1>4, <1>5
    <2>2. s # {}
      BY <1>0, <2>1, FS_EmptySet
    <2>3. PICK e \in s : \A f \in s : e.ex <= f.ex
      BY <1>4, <2>1, <2>2, EarliestRow
    <2> DEFINE r == s \ {e}
    <2>4. Cardinality(r) = Cardinality(s) - 1
      BY <2>1, FS_RemoveElement
    <2>5. Latest(r, S)
      <3>1. \A f, g \in s : f.ex \in Int /\ g.ex \in Int
        BY <1>4, RowFields
      <3> QED
        BY <1>4, <2>3, <3>1 DEF Latest
    <2>6. r \in Bad
      BY <1>4, <2>1, <2>4, <2>5
    <2>7. r \subseteq s /\ r # s
      OBVIOUS
    <2> HIDE DEF Bad, r
    <2> QED
      BY <1>3, <2>6, <2>7
  <1> QED
    BY <1>4, <1>5

\* A reply is complete unless it holds as many rows as the cap and spans several days.
LEMMA ReplyIs ==
  ASSUME version \in DOMAIN Calendars, NEW from \in Int, NEW to \in Int,
         Len(Reply(from, to)) < RowCap \/ from = to
  PROVE  /\ Once(Reply(from, to))
         /\ ToSet(Reply(from, to)) = {e \in Calendars[version] : from <= e.ex /\ e.ex <= to}
  <1> DEFINE c == Calendars[version]
             S == {e \in c : from <= e.ex /\ e.ex <= to}
             kept == CHOOSE kept \in SUBSET S :
                        /\ Cardinality(kept) = RowCap
                        /\ \A e \in kept, f \in S \ kept : e.ex >= f.ex
  <1>0. RowCap \in Nat \ {0}
    BY CalendarParameters
  <1>1. c \subseteq Rows /\ IsFiniteSet(c)
    BY CalendarIs
  <1>2. S \subseteq Rows /\ IsFiniteSet(S) /\ Cardinality(S) \in Nat
    BY <1>1, FS_Subset, FS_CardinalityType
  <1>3. Reply(from, to) = IF Cardinality(S) <= RowCap THEN SetToSeq(S) ELSE SetToSeq(kept)
    BY DEF Reply
  <1>4. ASSUME ~ (Cardinality(S) <= RowCap) PROVE FALSE
    <2> HIDE DEF S, c
    <2>1. \E k \in SUBSET S : /\ Cardinality(k) = RowCap
                              /\ \A e \in k, f \in S \ k : e.ex >= f.ex
      BY <1>2, <1>4, LatestRows DEF Latest
    <2>2. kept \in SUBSET S /\ Cardinality(kept) = RowCap
      BY <2>1, Zenon
    <2> HIDE DEF kept
    <2>3. IsFiniteSet(kept) /\ kept \subseteq Rows
      BY <1>2, <2>2, FS_Subset
    <2>4. Len(Reply(from, to)) = RowCap
      BY <1>3, <1>4, <2>2, <2>3, ListedOnce
    <2>5. from = to
      BY <1>0, <2>4
    <2>6. S # {}
      BY <1>0, <1>2, <1>4, FS_EmptySet
    <2>7. PICK e \in S : TRUE
      BY <2>6
    <2>8. e \in c /\ S = {f \in c : f.ex = e.ex}
      <3>1. \A f \in c : f.ex \in Int
        BY <1>1, RowFields
      <3> QED
        BY <2>5, <3>1 DEF S
    <2>9. c \in Range(Calendars)
      BY DEF c, Range
    <2>10. Cardinality(S) < RowCap
      BY <2>8, <2>9, RowsAreWithinReach
    <2> QED
      BY <1>0, <1>2, <1>4, <2>10
  <1> HIDE DEF kept
  <1> QED
    BY <1>2, <1>3, <1>4, ListedOnce

-----------------------------------------------------------------------------
\* Of some positions there is a first.
LEMMA LeastPosition ==
  ASSUME NEW n \in Nat, NEW S, S \subseteq 1..n, S # {}
  PROVE  \E i \in S : \A j \in S : i <= j
  <1> DEFINE Intervals == {1..i : i \in S}
  <1>1. IsFiniteSet(1..n)
    BY FS_Interval
  <1>2. Intervals \subseteq SUBSET (1..n) /\ Intervals # {}
    <2>1. \A i \in S : i \in Int /\ i <= n /\ 1..i \subseteq 1..n
      OBVIOUS
    <2> QED
      BY <2>1, Zenon
  <1>3. PICK s \in Intervals : \A r \in Intervals : ~ (r \subseteq s /\ r # s)
    <2> DEFINE T == 1..n
    <2>1. IsFiniteSet(T) /\ Intervals \subseteq SUBSET T /\ Intervals # {}
      BY <1>1, <1>2
    <2> HIDE DEF Intervals, T
    <2> QED
      BY ONLY <2>1, SmallestSubset
  <1>4. PICK m \in S : s = 1..m
    OBVIOUS
  <1>5. ASSUME NEW i \in S PROVE m <= i
    <2> SUFFICES ASSUME i < m PROVE FALSE
      OBVIOUS
    <2>1. i \in Nat /\ m \in Nat /\ m \in 1..m /\ m \notin 1..i
      OBVIOUS
    <2>2. 1..i \subseteq s /\ 1..i # s
      BY <1>4, <2>1
    <2>3. 1..i \in Intervals
      OBVIOUS
    <2> QED
      BY <1>3, <2>2, <2>3
  <1> QED
    BY <1>5

\* What the lists have come to, one after the other.
Joins(f, lists, n) == f = [i \in 1..n |-> IF i = 1 THEN lists[i] ELSE f[i - 1] \o lists[i]]

\* The recursion of FlattenSeq has a solution: the first position without one would follow
\* a position with one.
LEMMA JoinsExist ==
  ASSUME NEW lists, NEW n \in Nat
  PROVE  \E f : Joins(f, lists, n)
  <1> DEFINE Bad == {m \in 1..n : ~ \E f : Joins(f, lists, m)}
  <1>1. ASSUME Bad # {} PROVE FALSE
    <2>1. PICK m \in Bad : \A j \in Bad : m <= j
      <3>1. Bad \subseteq 1..n
        OBVIOUS
      <3> HIDE DEF Bad
      <3> QED
        BY <1>1, <3>1, LeastPosition
    <2>2. m \in 1..n /\ ~ \E f : Joins(f, lists, m)
      OBVIOUS
    <2>3. m # 1
      <3> DEFINE one == [i \in 1..1 |-> lists[1]]
      <3>1. one = [i \in 1..1 |-> IF i = 1 THEN lists[i] ELSE one[i - 1] \o lists[i]]
        OBVIOUS
      <3>2. Joins(one, lists, 1)
        BY <3>1 DEF Joins
      <3> QED
        BY <2>2, <3>2
    <2>4. m - 1 \in 1..n /\ m - 1 \notin Bad
      BY <2>1, <2>2, <2>3
    <2>5. PICK g : Joins(g, lists, m - 1)
      BY <2>4
    <2> DEFINE h == [i \in 1..m |-> IF i = m THEN g[m - 1] \o lists[m] ELSE g[i]]
    <2>6. \A i \in 1..(m - 1) : g[i] = IF i = 1 THEN lists[i] ELSE g[i - 1] \o lists[i]
      BY <2>5 DEF Joins
    <2>7. /\ h[m] = g[m - 1] \o lists[m]
          /\ \A i \in 1..(m - 1) : h[i] = g[i]
      <3>1. m \in 1..m /\ \A i \in 1..(m - 1) : i \in 1..m /\ i # m
        BY <2>2
      <3> QED
        BY <3>1, Zenon
    <2>8. ASSUME NEW i \in 1..m
          PROVE  h[i] = IF i = 1 THEN lists[i] ELSE h[i - 1] \o lists[i]
      <3>1. CASE i = m
        <4>1. m - 1 \in 1..(m - 1)
          BY <2>2, <2>3
        <4> HIDE DEF h
        <4> QED
          BY <2>3, <2>7, <3>1, <4>1
      <3>2. CASE i # m
        <4>1. i \in 1..(m - 1) /\ (i # 1 => i - 1 \in 1..(m - 1))
          BY <2>2, <3>2
        <4> HIDE DEF h
        <4> QED
          BY <2>6, <2>7, <4>1
      <3> QED
        BY <3>1, <3>2
    <2>9. h = [i \in 1..m |-> h[i]]
      OBVIOUS
    <2>10. Joins(h, lists, m)
      <3> HIDE DEF h
      <3> QED
        BY <2>8, <2>9 DEF Joins
    <2> QED
      BY <2>2, <2>10
  <1>2. CASE n = 0
    <2> DEFINE none == [i \in 1..0 |-> lists[i]]
    <2>1. Joins(none, lists, 0)
      BY DEF Joins
    <2> QED
      BY <1>2, <2>1
  <1>3. CASE n # 0
    <2>1. n \in 1..n /\ n \notin Bad
      BY <1>1, <1>3
    <2> QED
      BY <2>1
  <1> QED
    BY <1>2, <1>3

\* Lists without a common row, one after the other.
LEMMA FlattenedOnce ==
  ASSUME NEW lists, NEW n \in Nat, DOMAIN lists = 1..n, Len(lists) = n,
         \A i \in 1..n : Once(lists[i]),
         \A i, j \in 1..n : \A e \in ToSet(lists[i]) : e \in ToSet(lists[j]) => i = j
  PROVE  /\ n # 0 => Once(FlattenSeq(lists))
         /\ n # 0 => ToSet(FlattenSeq(lists)) = UNION {ToSet(lists[i]) : i \in 1..n}
  <1> SUFFICES ASSUME n # 0
               PROVE  Once(FlattenSeq(lists))
                      /\ ToSet(FlattenSeq(lists)) = UNION {ToSet(lists[i]) : i \in 1..n}
    OBVIOUS
  <1> DEFINE flatten == CHOOSE f : Joins(f, lists, n)
             upTo(m) == UNION {ToSet(lists[i]) : i \in 1..m}
             Good(m) == Once(flatten[m]) /\ ToSet(flatten[m]) = upTo(m)
             Bad == {m \in 1..n : ~ Good(m)}
  <1>1. Joins(flatten, lists, n)
    BY JoinsExist, Zenon
  <1>2. FlattenSeq(lists) = flatten[n]
    BY Zenon DEF FlattenSeq, Joins
  <1> HIDE DEF flatten
  <1>3. \A i \in 1..n : flatten[i] = IF i = 1 THEN lists[i] ELSE flatten[i - 1] \o lists[i]
    BY <1>1 DEF Joins
  <1>4. ASSUME Bad # {} PROVE FALSE
    <2>1. PICK m \in Bad : \A j \in Bad : m <= j
      <3>1. Bad \subseteq 1..n
        OBVIOUS
      <3> HIDE DEF Bad
      <3> QED
        BY <1>4, <3>1, LeastPosition
    <2>2. m \in 1..n /\ ~ Good(m)
      OBVIOUS
    <2>3. CASE m = 1
      <3>1. flatten[1] = lists[1]
        BY <1>3, <2>2, <2>3
      <3>2. upTo(1) = ToSet(lists[1])
        <4>1. 1..1 = {1}
          OBVIOUS
        <4> QED
          BY <4>1
      <3> QED
        BY <2>2, <2>3, <3>1, <3>2
    <2>4. CASE m # 1
      <3> DEFINE a == flatten[m - 1]
                 b == lists[m]
      <3>1. m - 1 \in 1..n /\ m - 1 \notin Bad
        BY <2>1, <2>2, <2>4
      <3>2. Good(m - 1)
        BY <3>1
      <3>3. flatten[m] = a \o b
        BY <1>3, <2>2, <2>4
      <3>4. Once(a) /\ Once(b) /\ ToSet(a) = upTo(m - 1)
        BY <2>2, <3>2
      <3>5. upTo(m) = upTo(m - 1) \union ToSet(b)
        <4>1. 1..m = (1..(m - 1)) \union {m}
          BY <2>2
        <4> QED
          BY <4>1
      <3>6. upTo(m - 1) \intersect ToSet(b) = {}
        <4>1. ASSUME NEW e \in upTo(m - 1), e \in ToSet(b) PROVE FALSE
          <5>1. PICK i \in 1..(m - 1) : e \in ToSet(lists[i])
            OBVIOUS
          <5>2. i \in 1..n /\ i # m
            BY <2>2
          <5> QED
            BY <2>2, <4>1, <5>1, <5>2
        <4> QED
          BY <4>1
      <3> HIDE DEF a, b, upTo
      <3>7. Once(a \o b) /\ ToSet(a \o b) = ToSet(a) \union ToSet(b)
        BY <3>4, <3>6, JoinedOnce
      <3> QED
        BY <2>2, <3>3, <3>4, <3>5, <3>7
    <2> QED
      BY <2>3, <2>4
  <1>5. n \in 1..n
    OBVIOUS
  <1>6. Good(n)
    BY <1>4, <1>5
  <1> QED
    BY <1>2, <1>6

-----------------------------------------------------------------------------
InOrder(rows) ==
  \A i, j \in DOMAIN rows : i < j => referenceDate(rows[i]) <= referenceDate(rows[j])

\* The places that sorting gives to the rows are one to one with the positions.
LEMMA PlacesAre ==
  ASSUME NEW n \in Nat, NEW rows, DOMAIN rows = 1..n, \A i \in 1..n : rows[i] \in Rows
  PROVE  /\ \A i \in 1..n : Place(rows, i) \in 1..n
         /\ \A i, j \in 1..n : Before(rows, i, j) => Place(rows, i) < Place(rows, j)
         /\ \A i, j \in 1..n : Place(rows, i) = Place(rows, j) => i = j
         /\ \A k \in 1..n : \E i \in 1..n : Place(rows, i) = k
  <1> DEFINE D == 1..n
             ahead(i) == {j \in D : Before(rows, j, i)}
             place == [i \in D |-> Place(rows, i)]
  <1>1. \A i \in D : Place(rows, i) = 1 + Cardinality(ahead(i))
    BY DEF Place
  <1>2. IsFiniteSet(D) /\ Cardinality(D) = n
    BY FS_Interval
  <1>3. \A i \in D : referenceDate(rows[i]) \in Int /\ rows[i].symbol \in Int /\ i \in Int
    BY RowFields
  <1> HIDE DEF D
  <1>4. /\ \A i \in D : ~ Before(rows, i, i)
        /\ \A i, j \in D : i # j => Before(rows, i, j) \/ Before(rows, j, i)
        /\ \A i, j, k \in D : Before(rows, i, j) /\ Before(rows, j, k) => Before(rows, i, k)
    BY <1>3 DEF Before
  <1>5. ASSUME NEW i \in D
        PROVE  /\ IsFiniteSet(ahead(i)) /\ Cardinality(ahead(i)) \in Nat
               /\ Cardinality(ahead(i)) < n
    <2> DEFINE A == ahead(i)
    <2>1. A \in SUBSET D /\ i \notin A /\ A # D
      BY <1>4
    <2> HIDE DEF A
    <2>2. IsFiniteSet(A)
      BY <1>2, <2>1, FS_Subset
    <2>3. Cardinality(A) \in Nat
      BY <2>2, FS_CardinalityType
    <2>4. Cardinality(A) <= Cardinality(D) /\ Cardinality(A) # Cardinality(D)
      BY <1>2, <2>1, FS_Subset
    <2> QED
      BY <1>2, <2>2, <2>3, <2>4 DEF A
  <1>6. ASSUME NEW i \in D, NEW j \in D, Before(rows, i, j)
        PROVE  Place(rows, i) < Place(rows, j)
    <2> DEFINE A == ahead(i)
               B == ahead(j)
    <2>1. A \in SUBSET B /\ i \in B /\ i \notin A
      BY <1>4, <1>6
    <2>2. IsFiniteSet(B) /\ Cardinality(A) \in Nat /\ Cardinality(B) \in Nat
      BY <1>5
    <2>3. Place(rows, i) = 1 + Cardinality(A) /\ Place(rows, j) = 1 + Cardinality(B)
      BY <1>1
    <2> HIDE DEF A, B
    <2>4. A \in SUBSET B /\ A # B
      BY <2>1
    <2>5. Cardinality(A) < Cardinality(B)
      BY <2>2, <2>4, FS_Subset
    <2> QED
      BY <2>2, <2>3, <2>5
  <1>7. ASSUME NEW i \in D PROVE Place(rows, i) \in 1..n
    <2> HIDE DEF ahead
    <2> QED
      BY <1>1, <1>5, <1>7
  <1>8. \A i, j \in D : Place(rows, i) = Place(rows, j) => i = j
    <2>1. \A i \in D : Place(rows, i) \in Int
      BY <1>7
    <2> QED
      BY <1>4, <1>6, <2>1
  <1>9. \A k \in D : \E i \in D : Place(rows, i) = k
    <2>1. place \in [D -> D]
      BY <1>7 DEF D
    <2>2. \A i, j \in D : place[i] = place[j] => i = j
      BY <1>8
    <2>3. \A i \in D : place[i] = Place(rows, i)
      OBVIOUS
    <2> HIDE DEF place
    <2>4. place \in Injection(D, D)
      BY <2>1, <2>2 DEF Injection, IsInjective
    <2>5. place \in Surjection(D, D)
      BY <1>2, <2>4, FS_Injection
    <2> QED
      BY <2>3, <2>5 DEF Surjection
  <1> QED
    BY <1>6, <1>7, <1>8, <1>9 DEF D

\* Sorting loses no row and puts them in the order of their dates.
LEMMA SortedOnce ==
  ASSUME NEW rows, Once(rows)
  PROVE  Once(Sorted(rows)) /\ ToSet(Sorted(rows)) = ToSet(rows) /\ InOrder(Sorted(rows))
  <1> DEFINE n == Len(rows)
             D == 1..n
             at(k) == CHOOSE i \in D : Place(rows, i) = k
             sorted == [k \in D |-> rows[at(k)]]
  <1>1. /\ n \in Nat /\ DOMAIN rows = D /\ \A i \in D : rows[i] \in Rows
        /\ \A i, j \in D : rows[i] = rows[j] => i = j
    BY OnceIs, ListsHave
  <1>2. Sorted(rows) = sorted
    BY <1>1 DEF Sorted
  <1>3. /\ \A i \in D : Place(rows, i) \in D
        /\ \A i, j \in D : Before(rows, i, j) => Place(rows, i) < Place(rows, j)
        /\ \A i, j \in D : Place(rows, i) = Place(rows, j) => i = j
        /\ \A k \in D : \E i \in D : Place(rows, i) = k
    <2> HIDE DEF n
    <2>1. /\ n \in Nat /\ DOMAIN rows = 1..n /\ \A i \in 1..n : rows[i] \in Rows
      BY <1>1
    <2>2. /\ \A i \in 1..n : Place(rows, i) \in 1..n
          /\ \A i, j \in 1..n : Before(rows, i, j) => Place(rows, i) < Place(rows, j)
          /\ \A i, j \in 1..n : Place(rows, i) = Place(rows, j) => i = j
          /\ \A k \in 1..n : \E i \in 1..n : Place(rows, i) = k
      BY ONLY <2>1, PlacesAre
    <2> QED
      BY <2>2
  <1>4. ASSUME NEW k \in D PROVE at(k) \in D /\ Place(rows, at(k)) = k
    <2>1. \E i \in D : Place(rows, i) = k
      BY <1>3
    <2> HIDE DEF D
    <2> QED
      BY <2>1, Zenon
  <1>5. sorted \in Seq(Rows)
    <2>1. \A k \in D : rows[at(k)] \in Rows
      <3> HIDE DEF at, D
      <3> QED
        BY <1>1, <1>4
    <2>2. sorted \in [1..n -> Rows]
      BY <2>1
    <2> QED
      BY <1>1, <2>2
  <1>6. DOMAIN sorted = D /\ \A k \in D : sorted[k] = rows[at(k)]
    OBVIOUS
  <1>7. \A k \in D : k \in Int
    OBVIOUS
  <1> HIDE DEF sorted, at, D
  <1>8. Once(sorted)
    <2>1. \A k, l \in D : sorted[k] = sorted[l] => k = l
      BY <1>1, <1>4, <1>6
    <2> QED
      BY <1>5, <1>6, <2>1 DEF Once, IsInjective
  <1>9. ToSet(sorted) = ToSet(rows)
    <2>1. ASSUME NEW i \in D PROVE \E k \in D : sorted[k] = rows[i]
      <3>1. at(Place(rows, i)) = i
        BY <1>3, <1>4
      <3> QED
        BY <1>3, <1>6, <3>1
    <2> QED
      BY <1>1, <1>4, <1>6, <2>1 DEF ToSet
  <1>10. ASSUME NEW k \in D, NEW l \in D, k < l
         PROVE  referenceDate(sorted[k]) <= referenceDate(sorted[l])
    <2> DEFINE i == at(k)
               j == at(l)
    <2>1. i \in D /\ j \in D /\ Place(rows, i) = k /\ Place(rows, j) = l
      BY <1>4
    <2>2. sorted[k] = rows[i] /\ sorted[l] = rows[j]
      BY <1>6
    <2> HIDE DEF i, j
    <2>3. ~ Before(rows, j, i)
      BY <1>3, <1>7, <1>10, <2>1
    <2>4. referenceDate(rows[i]) \in Int /\ referenceDate(rows[j]) \in Int
      BY <1>1, <2>1, RowFields
    <2> QED
      BY <2>2, <2>3, <2>4 DEF Before
  <1>11. InOrder(sorted)
    BY <1>6, <1>10 DEF InOrder
  <1> QED
    BY <1>2, <1>8, <1>9, <1>11

-----------------------------------------------------------------------------
\* Multiples are in the order of their factors.
LEMMA TimesGrows ==
  ASSUME NEW a \in Int, NEW b \in Int, a <= b, NEW t \in Nat
  PROVE  a * t <= b * t
  OBVIOUS

\* The day d is one of the tile.
OfTile(d, tile) == tile[1] <= d /\ d <= tile[2]

\* The tiles of a range: each of its days is in one of them.
LEMMA TilesAre ==
  ASSUME NEW from \in Int, NEW to \in Int, from <= to
  PROVE  \E n \in Nat \ {0} :
           /\ DOMAIN Tiles(from, to) = 1..n /\ Tiles(from, to) \in Seq(Int \X Int)
           /\ \A i \in 1..n : Tiles(from, to)[i][1] <= Tiles(from, to)[i][2]
           /\ \A i \in 1..n : from <= Tiles(from, to)[i][1] /\ Tiles(from, to)[i][2] <= to
           /\ \A i, j \in 1..n : \A d \in Int :
                 OfTile(d, Tiles(from, to)[i]) /\ OfTile(d, Tiles(from, to)[j]) => i = j
           /\ \A d \in Int : from <= d /\ d <= to => \E i \in 1..n : OfTile(d, Tiles(from, to)[i])
  <1> DEFINE q == (to - from) \div TileDays
             n == q + 1
             start(i) == from + (i - 1) * TileDays
             end(i) == start(i) + TileDays - 1
             tiles == Tiles(from, to)
  <1>1. TileDays \in Nat \ {0}
    BY CalendarParameters
  <1>2. /\ q \in Int
        /\ TileDays * q <= to - from
        /\ to - from < TileDays * q + TileDays
    <2>1. to - from \in Int
      OBVIOUS
    <2> QED
      BY <1>1, <2>1, QuotientBounds
  <1>3. tiles = [i \in 1..n |-> <<start(i), IF end(i) > to THEN to ELSE end(i)>>]
    BY DEF Tiles
  <1> HIDE DEF q, tiles
  <1>4. q \in Nat
    <2>1. ASSUME q <= -1 PROVE FALSE
      <3>1. q * TileDays <= (-1) * TileDays
        BY <1>1, <1>2, <2>1, TimesGrows
      <3> QED
        BY <1>1, <1>2, <3>1
    <2> QED
      BY <1>2, <2>1
  <1>5. n \in Nat \ {0}
    BY <1>4
  <1>6. ASSUME NEW i \in 1..n
        PROVE  /\ start(i) \in Int /\ end(i) \in Int
               /\ from <= start(i) /\ start(i) <= to /\ start(i) <= end(i)
    <2>1. i - 1 \in Int /\ 0 <= i - 1 /\ i - 1 <= q
      BY <1>4
    <2> DEFINE x == i - 1
    <2> HIDE DEF x
    <2>2. x \in Int /\ 0 <= x /\ x <= q
      BY <2>1 DEF x
    <2>3. x * TileDays \in Int /\ 0 * TileDays <= x * TileDays /\ x * TileDays <= q * TileDays
      BY <1>1, <1>2, <2>2, TimesGrows
    <2>4. start(i) = from + x * TileDays
      BY DEF x
    <2>5. q * TileDays = TileDays * q /\ 0 * TileDays = 0 /\ q * TileDays \in Int
      BY <1>1, <1>2
    <2> DEFINE y == x * TileDays
               z == q * TileDays
    <2> HIDE DEF y, z
    <2>6. y \in Int /\ z \in Int /\ 0 <= y /\ y <= z /\ z <= to - from /\ start(i) = from + y
      BY <1>2, <2>3, <2>4, <2>5 DEF y, z
    <2> HIDE DEF start
    <2> QED
      BY <1>1, <2>6
  <1>7. ASSUME NEW i \in 1..n, NEW j \in 1..n, i < j PROVE end(i) < start(j)
    <2>1. i \in Int /\ j - 1 \in Int /\ i <= j - 1
      BY <1>5, <1>7
    <2>2. i * TileDays <= (j - 1) * TileDays
      BY <1>1, <2>1, TimesGrows
    <2>3. end(i) = from + i * TileDays - 1
      BY <1>1, <2>1
    <2>4. i * TileDays \in Int /\ (j - 1) * TileDays \in Int
      BY <1>1, <2>1
    <2> QED
      BY <2>2, <2>3, <2>4
  <1>8. ASSUME NEW d \in Int, from <= d, d <= to
        PROVE  \E i \in 1..n : start(i) <= d /\ d <= end(i)
    <2> DEFINE p == (d - from) \div TileDays
    <2>1. /\ p \in Int
          /\ TileDays * p <= d - from
          /\ d - from < TileDays * p + TileDays
      <3>1. d - from \in Int
        OBVIOUS
      <3> QED
        BY <1>1, <3>1, QuotientBounds
    <2> HIDE DEF p
    <2>2. 0 <= p
      <3>1. ASSUME p <= -1 PROVE FALSE
        <4>1. p * TileDays <= (-1) * TileDays
          BY <1>1, <2>1, <3>1, TimesGrows
        <4> QED
          BY <1>1, <1>8, <2>1, <4>1
      <3> QED
        BY <2>1, <3>1
    <2>3. p <= q
      <3>1. ASSUME q + 1 <= p PROVE FALSE
        <4>1. (q + 1) * TileDays <= p * TileDays
          BY <1>1, <1>2, <2>1, <3>1, TimesGrows
        <4>2. (q + 1) * TileDays = TileDays * q + TileDays
          BY <1>1, <1>2
        <4>3. p * TileDays = TileDays * p /\ TileDays * p \in Int /\ TileDays * q \in Int
          BY <1>1, <1>2, <2>1
        <4> QED
          BY <1>1, <1>2, <1>8, <2>1, <4>1, <4>2, <4>3
      <3> QED
        BY <1>2, <2>1, <3>1
    <2>4. p + 1 \in 1..n
      BY <1>2, <2>1, <2>2, <2>3
    <2>5. start(p + 1) = from + TileDays * p
      BY <1>1, <2>1
    <2>6. TileDays * p \in Int
      BY <1>1, <2>1
    <2> DEFINE y == TileDays * p
    <2> HIDE DEF y
    <2>7. start(p + 1) = from + y /\ y \in Int /\ y <= d - from /\ d - from < y + TileDays
      BY <2>1, <2>5, <2>6 DEF y
    <2>8. start(p + 1) <= d /\ d <= end(p + 1)
      <3> HIDE DEF start
      <3> QED
        BY <1>1, <2>7
    <2> QED
      BY <2>4, <2>8
  <1> HIDE DEF start, end, n
  <1>9. DOMAIN tiles = 1..n
    BY <1>3
  <1>10. ASSUME NEW i \in 1..n
         PROVE  /\ tiles[i] \in Int \X Int
                /\ tiles[i][1] = start(i) /\ tiles[i][2] \in Int
                /\ tiles[i][1] <= tiles[i][2]
                /\ tiles[i][2] <= to /\ tiles[i][2] <= end(i)
                /\ end(i) <= to => tiles[i][2] = end(i)
                /\ ~ (end(i) <= to) => tiles[i][2] = to
    <2>1. tiles[i] = <<start(i), IF end(i) > to THEN to ELSE end(i)>>
      BY <1>3
    <2> QED
      BY <1>6, <2>1
  <1>11. tiles \in Seq(Int \X Int)
    <2>1. tiles \in [1..n -> Int \X Int]
      BY <1>3, <1>10
    <2> DEFINE T == Int \X Int
    <2> HIDE DEF T
    <2>2. tiles \in [1..n -> T]
      BY <2>1 DEF T
    <2>3. tiles \in Seq(T)
      BY <1>5, <2>2
    <2> QED
      BY <2>3 DEF T
  <1>12. ASSUME NEW i \in 1..n, NEW j \in 1..n, NEW d \in Int,
                OfTile(d, tiles[i]), OfTile(d, tiles[j])
         PROVE  i = j
    <2>1. /\ start(i) <= d /\ d <= end(i) /\ start(j) <= d /\ d <= end(j)
          /\ start(i) \in Int /\ end(i) \in Int /\ start(j) \in Int /\ end(j) \in Int
      BY <1>6, <1>10, <1>12 DEF OfTile
    <2>2. ~ (i < j) /\ ~ (j < i)
      BY <1>7, <2>1
    <2> QED
      BY <1>5, <2>2
  <1>13. ASSUME NEW d \in Int, from <= d, d <= to
         PROVE  \E i \in 1..n : OfTile(d, tiles[i])
    <2>1. PICK i \in 1..n : start(i) <= d /\ d <= end(i)
      BY <1>8, <1>13
    <2>2. OfTile(d, tiles[i])
      BY <1>6, <1>10, <1>13, <2>1 DEF OfTile
    <2> QED
      BY <2>2
  <1>14. \A i \in 1..n : tiles[i][1] <= tiles[i][2] /\ from <= tiles[i][1] /\ tiles[i][2] <= to
    BY <1>6, <1>10
  <1> QED
    BY <1>5, <1>9, <1>11, <1>12, <1>13, <1>14 DEF tiles

-----------------------------------------------------------------------------
\* Of the rows S those that the calendars since..until published all along, and none that
\* no calendar up to until did.
Complete(T, S, since, until) ==
  /\ T \subseteq S
  /\ \A e \in T : \E k \in 1..until : e \in Calendars[k]
  /\ \A e \in S : (\A k \in since..until : e \in Calendars[k]) => e \in T

Whole(rows, S, since, until) == Once(rows) /\ Complete(ToSet(rows), S, since, until)

\* Complete for some calendars is complete for more of them.
LEMMA CompleteWidens ==
  ASSUME NEW T, NEW S, NEW since \in Int, NEW until \in Int, Complete(T, S, since, until),
         NEW a \in Int, NEW b \in Int, a <= since, until <= b
  PROVE  Complete(T, S, a, b)
  <1>1. 1..until \subseteq 1..b /\ since..until \subseteq a..b
    OBVIOUS
  <1> QED
    BY <1>1, Zenon DEF Complete

\* Whole for some calendars is whole for more of them.
LEMMA WholeWidens ==
  ASSUME NEW rows, NEW S, NEW since \in Int, NEW until \in Int, Whole(rows, S, since, until),
         NEW a \in Int, NEW b \in Int, a <= since, until <= b
  PROVE  Whole(rows, S, a, b)
  BY CompleteWidens DEF Whole

\* Two lists that are whole for sets that do not meet, one after the other.
LEMMA WholeJoined ==
  ASSUME NEW a, NEW b, NEW S, NEW T, NEW since, NEW until,
         Whole(a, S, since, until), Whole(b, T, since, until), S \intersect T = {}
  PROVE  Whole(a \o b, S \union T, since, until)
  <1>1. ToSet(a) \subseteq S /\ ToSet(b) \subseteq T
    BY DEF Whole, Complete
  <1>2. Once(a \o b) /\ ToSet(a \o b) = ToSet(a) \union ToSet(b)
    <2>1. Once(a) /\ Once(b) /\ ToSet(a) \intersect ToSet(b) = {}
      BY <1>1 DEF Whole
    <2> QED
      BY <2>1, JoinedOnce
  <1>3. Complete(ToSet(a) \union ToSet(b), S \union T, since, until)
    <2>1. Complete(ToSet(a), S, since, until) /\ Complete(ToSet(b), T, since, until)
      BY DEF Whole
    <2> QED
      BY <2>1, Zenon DEF Complete
  <1> QED
    BY <1>2, <1>3 DEF Whole

\* Of a whole list the rows that pass a test.
LEMMA WholeKept ==
  ASSUME NEW rows, NEW S, NEW since, NEW until, Whole(rows, S, since, until),
         NEW T, NEW P, P = {i \in DOMAIN rows : rows[i] \in T}
  PROVE  Whole(At(rows, P), S \intersect T, since, until)
  <1>1. Once(At(rows, P)) /\ ToSet(At(rows, P)) = ToSet(rows) \intersect T
    BY KeptRows DEF Whole
  <1>2. Complete(ToSet(rows) \intersect T, S \intersect T, since, until)
    BY Zenon DEF Whole, Complete
  <1> QED
    BY <1>1, <1>2 DEF Whole

\* A whole list, sorted.
LEMMA WholeSorted ==
  ASSUME NEW rows, NEW S, NEW since, NEW until, Whole(rows, S, since, until)
  PROVE  Whole(Sorted(rows), S, since, until) /\ InOrder(Sorted(rows))
  BY SortedOnce DEF Whole

\* An empty list is whole for no rows.
LEMMA NothingIsWhole ==
  ASSUME NEW since, NEW until
  PROVE  Whole(<<>>, {}, since, until) /\ Once(<<>>)
  <1>1. <<>> \in Seq(Rows) /\ Len(<<>>) = 0 /\ DOMAIN <<>> = 1..0 /\ 1..0 = {}
    OBVIOUS
  <1>2. Once(<<>>) /\ ToSet(<<>>) = {}
    BY <1>1 DEF Once, IsInjective, ToSet
  <1> QED
    BY <1>2 DEF Whole, Complete

\* Lists of rows of sets that do not meet, one after the other.
LEMMA WholeFlattened ==
  ASSUME NEW lists, NEW n \in Nat \ {0}, DOMAIN lists = 1..n, Len(lists) = n,
         NEW S, NEW since, NEW until,
         \A i \in 1..n : Whole(lists[i], S[i], since, until),
         \A i, j \in 1..n : \A e \in S[i] : e \in S[j] => i = j
  PROVE  Whole(FlattenSeq(lists), UNION {S[i] : i \in 1..n}, since, until)
  <1>1. \A i \in 1..n : ToSet(lists[i]) \subseteq S[i] /\ Once(lists[i])
    BY DEF Whole, Complete
  <1>2. Once(FlattenSeq(lists)) /\ ToSet(FlattenSeq(lists)) = UNION {ToSet(lists[i]) : i \in 1..n}
    <2>1. \A i \in 1..n : Once(lists[i])
      BY <1>1
    <2>2. \A i, j \in 1..n : \A e \in ToSet(lists[i]) : e \in ToSet(lists[j]) => i = j
      BY <1>1, Zenon
    <2> QED
      BY <2>1, <2>2, FlattenedOnce
  <1>3. \A i \in 1..n : Complete(ToSet(lists[i]), S[i], since, until)
    BY DEF Whole
  <1>4. Complete(UNION {ToSet(lists[i]) : i \in 1..n}, UNION {S[i] : i \in 1..n}, since, until)
    <2>1. ASSUME NEW e \in UNION {ToSet(lists[i]) : i \in 1..n}
          PROVE  e \in UNION {S[i] : i \in 1..n}
      <3>1. PICK i \in 1..n : e \in ToSet(lists[i])
        OBVIOUS
      <3>2. e \in S[i]
        BY <1>1, <3>1
      <3> QED
        BY <3>2
    <2>2. ASSUME NEW e \in UNION {ToSet(lists[i]) : i \in 1..n}
          PROVE  \E k \in 1..until : e \in Calendars[k]
      <3>1. PICK i \in 1..n : e \in ToSet(lists[i])
        OBVIOUS
      <3>2. Complete(ToSet(lists[i]), S[i], since, until)
        BY <1>3
      <3> QED
        BY <3>1, <3>2, Zenon DEF Complete
    <2>3. ASSUME NEW e \in UNION {S[i] : i \in 1..n}, \A k \in since..until : e \in Calendars[k]
          PROVE  e \in UNION {ToSet(lists[i]) : i \in 1..n}
      <3>1. PICK i \in 1..n : e \in S[i]
        OBVIOUS
      <3>2. e \in ToSet(lists[i])
        BY <1>3, <2>3, <3>1, Zenon DEF Complete
      <3> QED
        BY <3>2
    <2> QED
      BY <2>1, <2>2, <2>3 DEF Complete
  <1> QED
    BY <1>2, <1>4 DEF Whole

-----------------------------------------------------------------------------
\* Sequences, for steps that need no more of them.
LEMMA EmptyListIs ==
  ASSUME NEW T, NEW list \in Seq(T)
  PROVE  list = <<>> <=> Len(list) = 0
  OBVIOUS

LEMMA TailIs ==
  ASSUME NEW T, NEW list \in Seq(T), list # <<>>
  PROVE  /\ Len(list) \in Nat \ {0} /\ Head(list) = list[1]
         /\ Tail(list) \in Seq(T) /\ Len(Tail(list)) = Len(list) - 1
         /\ \A k \in 1..(Len(list) - 1) : Tail(list)[k] = list[k + 1]
  OBVIOUS

LEMMA JoinIs ==
  ASSUME NEW T, NEW a \in Seq(T), NEW b \in Seq(T)
  PROVE  /\ Len(a) \in Nat /\ Len(b) \in Nat
         /\ a \o b \in Seq(T) /\ Len(a \o b) = Len(a) + Len(b)
         /\ \A k \in 1..(Len(a) + Len(b)) :
              (a \o b)[k] = IF k <= Len(a) THEN a[k] ELSE b[k - Len(a)]
  OBVIOUS

\* Ranges that follow each other up to the day end.
Chain(ranges, end) ==
  /\ ranges \in Seq(Int \X Int)
  /\ \A k \in 1..Len(ranges) : ranges[k][1] <= ranges[k][2]
  /\ \A k \in 1..(Len(ranges) - 1) : ranges[k + 1][1] = ranges[k][2] + 1
  /\ ranges # <<>> => ranges[Len(ranges)][2] = end

\* The first day that is still to be asked for.
Reached(ranges, end) == IF ranges = <<>> THEN end + 1 ELSE ranges[1][1]

\* The first of the ranges.
LEMMA ChainHas ==
  ASSUME NEW ranges, NEW end \in Int, Chain(ranges, end), ranges # <<>>
  PROVE  /\ Head(ranges) \in Int \X Int
         /\ Head(ranges)[1] \in Int /\ Head(ranges)[2] \in Int
         /\ Head(ranges)[1] <= Head(ranges)[2]
         /\ Reached(ranges, end) = Head(ranges)[1]
  <1> DEFINE T == Int \X Int
  <1>1. ranges \in Seq(T)
    BY DEF Chain
  <1>2. \A x \in T : x[1] \in Int /\ x[2] \in Int
    OBVIOUS
  <1> HIDE DEF T
  <1>3. Len(ranges) \in Nat \ {0} /\ Head(ranges) = ranges[1] /\ ranges[1] \in T
    BY <1>1
  <1>4. 1 \in 1..Len(ranges)
    BY <1>3
  <1> QED
    BY <1>2, <1>3, <1>4 DEF Chain, Reached, T

\* A range is done.
LEMMA ChainGoesOn ==
  ASSUME NEW ranges, NEW end \in Int, Chain(ranges, end), ranges # <<>>
  PROVE  /\ Chain(Tail(ranges), end)
         /\ Reached(Tail(ranges), end) = Head(ranges)[2] + 1
  <1> DEFINE T == Int \X Int
             n == Len(ranges)
             rest == Tail(ranges)
  <1>1. ranges \in Seq(T)
    BY DEF Chain
  <1> HIDE DEF T
  <1>2. /\ n \in Nat \ {0} /\ rest \in Seq(T) /\ Len(rest) = n - 1
        /\ \A k \in 1..(n - 1) : rest[k] = ranges[k + 1]
        /\ Head(ranges) = ranges[1]
        /\ rest = <<>> <=> n = 1
    <2>1. /\ n \in Nat \ {0} /\ Head(ranges) = ranges[1]
          /\ rest \in Seq(T) /\ Len(rest) = n - 1
          /\ \A k \in 1..(n - 1) : rest[k] = ranges[k + 1]
      BY <1>1, TailIs
    <2> HIDE DEF n, rest
    <2>2. rest = <<>> <=> Len(rest) = 0
      BY <2>1, EmptyListIs
    <2> QED
      BY <2>1, <2>2
  <1>3. /\ \A k \in 1..n : ranges[k][1] <= ranges[k][2]
        /\ \A k \in 1..(n - 1) : ranges[k + 1][1] = ranges[k][2] + 1
        /\ ranges[n][2] = end
    BY DEF Chain
  <1> HIDE DEF n, rest
  <1>4. \A k \in 1..(n - 1) : k + 1 \in 1..n
    BY <1>2
  <1>5. \A k \in 1..((n - 1) - 1) : k \in 1..(n - 1) /\ k + 1 \in 1..(n - 1)
    BY <1>2
  <1>6. rest # <<>> => n - 1 \in 1..(n - 1) /\ (n - 1) + 1 = n /\ 1 \in 1..(n - 1)
    BY <1>2
  <1>7. Chain(rest, end)
    <2>1. \A k \in 1..(n - 1) : rest[k][1] <= rest[k][2]
      BY <1>2, <1>3, <1>4
    <2>2. \A k \in 1..((n - 1) - 1) : rest[k + 1][1] = rest[k][2] + 1
      BY <1>2, <1>3, <1>4, <1>5
    <2>3. rest # <<>> => rest[n - 1][2] = end
      BY <1>2, <1>3, <1>6
    <2> QED
      BY <1>2, <2>1, <2>2, <2>3 DEF Chain, T
  <1>8. Reached(rest, end) = Head(ranges)[2] + 1
    <2>1. CASE rest = <<>>
      BY <1>2, <1>3, <2>1 DEF Reached
    <2>2. CASE rest # <<>>
      <3>1. rest[1] = ranges[1 + 1] /\ ranges[1 + 1][1] = ranges[1][2] + 1
        BY <1>2, <1>3, <1>6, <2>2
      <3> QED
        BY <1>2, <2>2, <3>1 DEF Reached
    <2> QED
      BY <2>1, <2>2
  <1> QED
    BY <1>7, <1>8 DEF rest

\* A range is cut in two.
LEMMA ChainSplits ==
  ASSUME NEW ranges, NEW end \in Int, Chain(ranges, end), ranges # <<>>,
         NEW mid \in Int, Head(ranges)[1] <= mid, mid < Head(ranges)[2]
  PROVE  LET halves == <<<<Head(ranges)[1], mid>>, <<mid + 1, Head(ranges)[2]>>>> \o Tail(ranges)
         IN  Chain(halves, end) /\ Reached(halves, end) = Reached(ranges, end)
  <1> DEFINE T == Int \X Int
             lo == Head(ranges)[1]
             hi == Head(ranges)[2]
             two == <<<<lo, mid>>, <<mid + 1, hi>>>>
             rest == Tail(ranges)
             n == Len(rest)
             halves == two \o rest
  <1>1. lo \in Int /\ hi \in Int /\ Reached(ranges, end) = lo
    BY ChainHas
  <1>2. Chain(rest, end) /\ Reached(rest, end) = hi + 1
    BY ChainGoesOn
  <1> HIDE DEF lo, hi, rest
  <1>3. two \in Seq(T) /\ Len(two) = 2 /\ two[1] = <<lo, mid>> /\ two[2] = <<mid + 1, hi>>
    BY <1>1
  <1>4. rest \in Seq(T)
    BY <1>2 DEF Chain
  <1> HIDE DEF T, two
  <1>5. /\ n \in Nat /\ halves \in Seq(T) /\ Len(halves) = n + 2 /\ halves # <<>>
        /\ halves[1] = two[1] /\ halves[2] = two[2]
        /\ \A k \in 3..(n + 2) : halves[k] = rest[k - 2]
    <2>1. /\ Len(two) \in Nat /\ n \in Nat
          /\ halves \in Seq(T) /\ Len(halves) = Len(two) + n
          /\ \A k \in 1..(Len(two) + n) :
               halves[k] = IF k <= Len(two) THEN two[k] ELSE rest[k - Len(two)]
      BY <1>3, <1>4, JoinIs
    <2> HIDE DEF n, halves
    <2>2. 1 \in 1..(2 + n) /\ 2 \in 1..(2 + n) /\ 2 + n = n + 2
      BY <2>1
    <2>3. \A k \in 3..(n + 2) : k \in 1..(2 + n) /\ ~ (k <= 2)
      BY <2>1
    <2>4. Len(halves) # 0
      BY <1>3, <2>1
    <2>5. halves # <<>>
      BY <2>1, <2>4, EmptyListIs
    <2> QED
      BY <1>3, <2>1, <2>2, <2>3, <2>5
  <1>6. /\ \A k \in 1..n : rest[k][1] <= rest[k][2]
        /\ \A k \in 1..(n - 1) : rest[k + 1][1] = rest[k][2] + 1
        /\ rest # <<>> => rest[n][2] = end
        /\ rest = <<>> <=> n = 0
    BY <1>2, <1>4, EmptyListIs DEF Chain
  <1> HIDE DEF n, halves
  <1>7. ASSUME NEW k \in 1..(n + 2) PROVE halves[k][1] <= halves[k][2]
    <2>1. k = 1 \/ k = 2 \/ (k \in 3..(n + 2) /\ k - 2 \in 1..n)
      BY <1>5
    <2>2. k \in 3..(n + 2) /\ k - 2 \in 1..n => halves[k][1] <= halves[k][2]
      BY <1>5, <1>6
    <2>3. lo <= mid /\ mid + 1 <= hi
      BY <1>1 DEF lo, hi
    <2>4. halves[1][1] <= halves[1][2] /\ halves[2][1] <= halves[2][2]
      BY <1>3, <1>5, <2>3
    <2> QED
      BY <2>1, <2>2, <2>4
  <1>8. ASSUME NEW k \in 1..((n + 2) - 1) PROVE halves[k + 1][1] = halves[k][2] + 1
    <2>1. CASE k = 1
      BY <1>3, <1>5, <2>1
    <2>2. CASE k = 2
      <3>1. n # 0 /\ 3 \in 3..(n + 2) /\ 3 - 2 = 1 /\ 2 + 1 = 3
        BY <1>5, <2>2
      <3>2. halves[3] = rest[1] /\ rest # <<>>
        BY <1>5, <1>6, <3>1
      <3>3. rest[1][1] = hi + 1
        BY <1>2, <3>2 DEF Reached
      <3> QED
        BY <1>3, <1>5, <2>2, <3>1, <3>2, <3>3
    <2>3. CASE k # 1 /\ k # 2
      <3>1. k \in 3..(n + 2) /\ k + 1 \in 3..(n + 2) /\ k - 2 \in 1..(n - 1)
            /\ (k + 1) - 2 = (k - 2) + 1
        BY <1>5, <2>3
      <3>2. halves[k] = rest[k - 2] /\ halves[k + 1] = rest[(k + 1) - 2]
        BY <1>5, <3>1
      <3>3. rest[(k - 2) + 1][1] = rest[k - 2][2] + 1
        BY <1>6, <3>1
      <3> QED
        BY <3>1, <3>2, <3>3
    <2> QED
      BY <2>1, <2>2, <2>3
  <1>9. halves[n + 2][2] = end
    <2>1. CASE n = 0
      <3>1. hi = end
        <4>1. hi + 1 = end + 1
          BY <1>2, <1>6, <2>1 DEF Reached
        <4> QED
          BY <1>1, <4>1
      <3> QED
        BY <1>3, <1>5, <2>1, <3>1
    <2>2. CASE n # 0
      <3>1. n + 2 \in 3..(n + 2) /\ (n + 2) - 2 = n
        BY <1>5, <2>2
      <3> QED
        BY <1>5, <1>6, <2>2, <3>1
    <2> QED
      BY <2>1, <2>2
  <1>10. Chain(halves, end)
    BY <1>5, <1>7, <1>8, <1>9 DEF Chain, T
  <1>11. Reached(halves, end) = lo
    BY <1>3, <1>5 DEF Reached
  <1> QED
    BY <1>1, <1>10, <1>11 DEF halves, two, lo, hi, rest

\* A range that has not been asked for.
LEMMA OneRange ==
  ASSUME NEW tile \in Int \X Int, tile[1] <= tile[2]
  PROVE  Chain(<<tile>>, tile[2]) /\ Reached(<<tile>>, tile[2]) = tile[1]
  <1> DEFINE T == Int \X Int
  <1> HIDE DEF T
  <1>1. tile \in T
    BY DEF T
  <1>2. <<tile>> \in Seq(T) /\ Len(<<tile>>) = 1 /\ <<tile>>[1] = tile /\ <<tile>> # <<>>
    BY <1>1
  <1>3. 1..1 = {1} /\ 1..(1 - 1) = {}
    OBVIOUS
  <1> QED
    BY <1>2, <1>3 DEF Chain, Reached, T

-----------------------------------------------------------------------------
ExBetween(from, to) == {e \in Rows : from <= e.ex /\ e.ex <= to}
MonthRows(m)     == {e \in Rows : MonthOf(referenceDate(e)) = m}
WindowRows(w)    == {e \in Rows : w[1] <= referenceDate(e) /\ referenceDate(e) <= w[2]}
RowsBefore(w, m) == {e \in WindowRows(w) : MonthOf(referenceDate(e)) < m}

TilesOf(m) == Tiles(MonthStart(m) - Lookback, MonthEnd(m))

\* What a tile has brought is whole up to the first day it is still to ask for.
TileSound(rows, todo, tile, since, until) ==
  /\ Chain(todo, tile[2])
  /\ tile[1] <= Reached(todo, tile[2])
  /\ Whole(rows, ExBetween(tile[1], Reached(todo, tile[2]) - 1), since, until)

FillSound(f, m, until) ==
  /\ f.since \in 1..until
  /\ f.rows \in Seq(Seq(Rows)) /\ DOMAIN f.rows = DOMAIN TilesOf(m)
  /\ DOMAIN f.todo = DOMAIN TilesOf(m)
  /\ \A i \in DOMAIN TilesOf(m) : TileSound(f.rows[i], f.todo[i], TilesOf(m)[i], f.since, until)

BucketSound(b, m, until) ==
  /\ b.until \in 1..until /\ b.since \in 1..b.until
  /\ Whole(b.events, MonthRows(m), b.since, b.until)

\* The rows of a month lie in the range its fill asks for.
LEMMA TilesOfMonth ==
  ASSUME NEW m \in Int
  PROVE  \E n \in Nat \ {0} :
           /\ DOMAIN TilesOf(m) = 1..n
           /\ \A i \in 1..n : TilesOf(m)[i] \in Int \X Int
           /\ \A i \in 1..n : TilesOf(m)[i][1] \in Int /\ TilesOf(m)[i][2] \in Int
           /\ \A i \in 1..n : TilesOf(m)[i][1] <= TilesOf(m)[i][2]
           /\ \A i, j \in 1..n : \A d \in Int :
                 OfTile(d, TilesOf(m)[i]) /\ OfTile(d, TilesOf(m)[j]) => i = j
           /\ \A e \in MonthRows(m) : \E i \in 1..n : OfTile(e.ex, TilesOf(m)[i])
  <1> DEFINE from == MonthStart(m) - Lookback
             to == MonthEnd(m)
             T == Int \X Int
  <1>1. from \in Int /\ to \in Int /\ from <= to
    <2>1. Lookback \in Nat /\ MonthDays \in Nat \ {0}
      BY CalendarParameters
    <2>2. MonthStart(m) \in Int /\ MonthEnd(m) = MonthStart(m) + MonthDays - 1
      BY <2>1 DEF MonthStart, MonthEnd
    <2> QED
      BY <2>1, <2>2
  <1>2. \A e \in MonthRows(m) : from <= e.ex /\ e.ex <= to /\ e.ex \in Int
    BY RowsAreWithinReach, RowFields DEF MonthRows
  <1>3. TilesOf(m) = Tiles(from, to)
    BY DEF TilesOf
  <1> HIDE DEF from, to
  <1>4. PICK n \in Nat \ {0} :
           /\ DOMAIN Tiles(from, to) = 1..n /\ Tiles(from, to) \in Seq(Int \X Int)
           /\ \A i \in 1..n : Tiles(from, to)[i][1] <= Tiles(from, to)[i][2]
           /\ \A i \in 1..n : from <= Tiles(from, to)[i][1] /\ Tiles(from, to)[i][2] <= to
           /\ \A i, j \in 1..n : \A d \in Int :
                 OfTile(d, Tiles(from, to)[i]) /\ OfTile(d, Tiles(from, to)[j]) => i = j
           /\ \A d \in Int : from <= d /\ d <= to => \E i \in 1..n : OfTile(d, Tiles(from, to)[i])
    BY <1>1, TilesAre
  <1>5. \A x \in T : x[1] \in Int /\ x[2] \in Int
    OBVIOUS
  <1>6. \A i \in 1..n : TilesOf(m)[i] \in T
    <2>1. Tiles(from, to) \in Seq(T)
      BY <1>4
    <2> HIDE DEF T
    <2>2. /\ DOMAIN Tiles(from, to) = 1..Len(Tiles(from, to))
          /\ \A i \in 1..Len(Tiles(from, to)) : Tiles(from, to)[i] \in T
      BY <2>1, ListsHave
    <2> QED
      BY <1>3, <1>4, <2>2
  <1> HIDE DEF T
  <1> QED
    BY <1>2, <1>3, <1>4, <1>5, <1>6 DEF T

\* The calendars are numbered from one.
LEMMA VersionsAre == Len(Calendars) \in Nat \ {0} /\ DOMAIN Calendars = 1..Len(Calendars)
  <1> DEFINE T == SUBSET [symbol : Int, ex : Int, pay : Int \union {NoDate}]
  <1>1. Calendars \in Seq(T) /\ Calendars # <<>>
    BY CalendarParameters
  <1> HIDE DEF T
  <1>2. Len(Calendars) \in Nat /\ DOMAIN Calendars = 1..Len(Calendars)
    BY <1>1, ListsHave
  <1> QED
    BY <1>1, <1>2, EmptyListIs

\* The fill of a month begins.
LEMMA FillBegins ==
  ASSUME NEW m \in Int, version \in Nat \ {0}, NEW f,
         f = [rows  |-> [i \in DOMAIN TilesOf(m) |-> <<>>],
              todo  |-> [i \in DOMAIN TilesOf(m) |-> <<TilesOf(m)[i]>>],
              since |-> version]
  PROVE  FillSound(f, m, version)
  <1> DEFINE tiles == TilesOf(m)
  <1>1. PICK n \in Nat \ {0} :
           /\ DOMAIN tiles = 1..n
           /\ \A i \in 1..n : tiles[i] \in Int \X Int
           /\ \A i \in 1..n : tiles[i][1] \in Int /\ tiles[i][2] \in Int
           /\ \A i \in 1..n : tiles[i][1] <= tiles[i][2]
    BY TilesOfMonth
  <1> HIDE DEF tiles
  <1>2. /\ f.since = version
        /\ f.rows = [i \in 1..n |-> <<>>]
        /\ f.todo = [i \in 1..n |-> <<tiles[i]>>]
    BY <1>1 DEF tiles
  <1>3. f.rows \in Seq(Seq(Rows))
    <2> DEFINE T == Seq(Rows)
    <2>1. <<>> \in T
      BY EmptyIsList
    <2> HIDE DEF T
    <2>2. f.rows \in [1..n -> T]
      BY <1>2, <2>1
    <2>3. f.rows \in Seq(T)
      BY <2>2, FunctionsAreLists
    <2> QED
      BY <2>3 DEF T
  <1>4. ASSUME NEW i \in 1..n
        PROVE  TileSound(<<>>, <<tiles[i]>>, tiles[i], version, version)
    <2> DEFINE t == tiles[i]
    <2>1. t \in Int \X Int /\ t[1] \in Int /\ t[1] <= t[2]
      BY <1>1
    <2> HIDE DEF t
    <2>2. Chain(<<t>>, t[2]) /\ Reached(<<t>>, t[2]) = t[1]
      BY <2>1, OneRange
    <2>3. ExBetween(t[1], t[1] - 1) = {}
      <3>1. \A e \in Rows : ~ (t[1] <= e.ex /\ e.ex <= t[1] - 1)
        BY <2>1, RowFields
      <3> QED
        BY <3>1 DEF ExBetween
    <2>4. Whole(<<>>, {}, version, version)
      BY NothingIsWhole
    <2> DEFINE todo == <<t>>
               none == <<>>
    <2> HIDE DEF todo, none
    <2>5. TileSound(none, todo, t, version, version)
      <3>1. Chain(todo, t[2]) /\ Reached(todo, t[2]) = t[1] /\ t[1] <= t[1]
        BY <2>1, <2>2 DEF todo
      <3>2. Whole(none, ExBetween(t[1], Reached(todo, t[2]) - 1), version, version)
        BY <2>3, <2>4, <3>1 DEF none
      <3> QED
        BY <3>1, <3>2 DEF TileSound
    <2> QED
      BY <2>5 DEF t, todo, none
  <1>5. ASSUME NEW i \in 1..n
        PROVE  TileSound(f.rows[i], f.todo[i], tiles[i], f.since, version)
    BY <1>2, <1>4
  <1>6. version \in 1..version
    OBVIOUS
  <1> QED
    BY <1>1, <1>2, <1>3, <1>5, <1>6 DEF FillSound, tiles

\* A complete reply is added to what the tile has brought.
LEMMA TileGetsRows ==
  ASSUME version \in DOMAIN Calendars, NEW tile \in Int \X Int, NEW todo, todo # <<>>, NEW rows,
         NEW since \in 1..version, TileSound(rows, todo, tile, since, version),
         Len(Reply(Head(todo)[1], Head(todo)[2])) < RowCap \/ Head(todo)[1] = Head(todo)[2]
  PROVE  TileSound(rows \o Reply(Head(todo)[1], Head(todo)[2]), Tail(todo), tile, since, version)
  <1> DEFINE lo == Head(todo)[1]
             hi == Head(todo)[2]
             a == tile[1]
             b == tile[2]
             c == Calendars[version]
             reply == Reply(lo, hi)
  <1>1. a \in Int /\ b \in Int
    OBVIOUS
  <1>2. /\ Chain(todo, b) /\ a <= Reached(todo, b)
        /\ Whole(rows, ExBetween(a, Reached(todo, b) - 1), since, version)
    BY DEF TileSound
  <1>3. lo \in Int /\ hi \in Int /\ lo <= hi /\ Reached(todo, b) = lo
    BY <1>1, <1>2, ChainHas
  <1>4. Chain(Tail(todo), b) /\ Reached(Tail(todo), b) = hi + 1
    BY <1>1, <1>2, ChainGoesOn
  <1>5. Once(reply) /\ ToSet(reply) = {e \in c : lo <= e.ex /\ e.ex <= hi}
    BY <1>3, ReplyIs
  <1> HIDE DEF lo, hi, reply
  <1>6. Whole(reply, ExBetween(lo, hi), since, version)
    <2>1. c \subseteq Rows
      BY CalendarIs
    <2>2. version \in 1..version /\ version \in since..version
      <3>1. version \in Nat
        BY VersionsAre
      <3> QED
        BY <3>1
    <2> HIDE DEF c
    <2>3. Complete(ToSet(reply), ExBetween(lo, hi), since, version)
      BY <1>5, <2>1, <2>2 DEF Complete, ExBetween, c
    <2> QED
      BY <1>5, <2>3 DEF Whole
  <1>7. /\ ExBetween(a, lo - 1) \intersect ExBetween(lo, hi) = {}
        /\ ExBetween(a, lo - 1) \union ExBetween(lo, hi) = ExBetween(a, hi)
    <2>1. \A e \in Rows : e.ex \in Int
      BY RowFields
    <2>2. \A x \in Int : /\ ~ (a <= x /\ x <= lo - 1 /\ lo <= x)
                         /\ (a <= x /\ x <= lo - 1) \/ (lo <= x /\ x <= hi) <=> a <= x /\ x <= hi
      BY <1>1, <1>2, <1>3
    <2> QED
      BY <2>1, <2>2 DEF ExBetween
  <1>8. Whole(rows \o reply, ExBetween(a, hi), since, version)
    <2>1. Whole(rows, ExBetween(a, lo - 1), since, version)
      BY <1>2, <1>3
    <2>2. Whole(rows \o reply, ExBetween(a, lo - 1) \union ExBetween(lo, hi), since, version)
      BY <1>6, <1>7, <2>1, WholeJoined
    <2> QED
      BY <1>7, <2>2
  <1>9. a <= hi + 1 /\ (hi + 1) - 1 = hi
    BY <1>1, <1>2, <1>3
  <1> QED
    BY <1>4, <1>8, <1>9 DEF TileSound, reply, lo, hi

\* A range is asked for again in two halves.
LEMMA TileSplits ==
  ASSUME NEW tile \in Int \X Int, NEW todo, todo # <<>>, NEW rows,
         NEW since, NEW until, TileSound(rows, todo, tile, since, until),
         Head(todo)[1] # Head(todo)[2], NEW mid,
         mid = Head(todo)[1] + (Head(todo)[2] - Head(todo)[1]) \div 2
  PROVE  TileSound(rows, <<<<Head(todo)[1], mid>>, <<mid + 1, Head(todo)[2]>>>> \o Tail(todo),
                   tile, since, until)
  <1> DEFINE lo == Head(todo)[1]
             hi == Head(todo)[2]
             halves == <<<<Head(todo)[1], mid>>, <<mid + 1, Head(todo)[2]>>>> \o Tail(todo)
  <1>1. tile[2] \in Int /\ Chain(todo, tile[2])
    BY DEF TileSound
  <1>2. lo \in Int /\ hi \in Int /\ lo <= hi
    BY <1>1, ChainHas
  <1>3. mid = lo + (hi - lo) \div 2 /\ lo # hi
    OBVIOUS
  <1> HIDE DEF lo, hi
  <1>4. mid \in Int /\ lo <= mid /\ mid < hi
    BY <1>2, <1>3
  <1>5. Chain(halves, tile[2]) /\ Reached(halves, tile[2]) = Reached(todo, tile[2])
    BY <1>1, <1>4, ChainSplits DEF lo, hi
  <1> HIDE DEF halves
  <1>6. TileSound(rows, halves, tile, since, until)
    BY <1>5 DEF TileSound
  <1> QED
    BY <1>6 DEF halves

-----------------------------------------------------------------------------
\* One tile of a fill goes on.
LEMMA FillGoesOn ==
  ASSUME NEW m \in Int, NEW until, NEW f, FillSound(f, m, until), NEW i \in DOMAIN f.todo,
         NEW g, g.since = f.since,
         g.rows = [j \in DOMAIN f.rows |-> g.rows[j]], DOMAIN g.todo = DOMAIN f.todo,
         \A j \in DOMAIN f.todo \ {i} : g.rows[j] = f.rows[j] /\ g.todo[j] = f.todo[j],
         TileSound(g.rows[i], g.todo[i], TilesOf(m)[i], f.since, until)
  PROVE  FillSound(g, m, until)
  <1>1. PICK n \in Nat \ {0} : DOMAIN TilesOf(m) = 1..n
    BY TilesOfMonth
  <1>2. DOMAIN f.rows = 1..n /\ DOMAIN f.todo = 1..n /\ f.since \in 1..until
    BY <1>1 DEF FillSound
  <1>3. \A j \in 1..n : TileSound(g.rows[j], g.todo[j], TilesOf(m)[j], f.since, until)
    BY <1>1, <1>2, Zenon DEF FillSound
  <1>4. g.rows \in Seq(Seq(Rows))
    <2> DEFINE T == Seq(Rows)
    <2>1. \A j \in 1..n : g.rows[j] \in T
      BY <1>3, Zenon DEF TileSound, Whole, Once
    <2> HIDE DEF T
    <2>2. g.rows \in [1..n -> T]
      BY <1>2, <2>1
    <2>3. g.rows \in Seq(T)
      BY <2>2, FunctionsAreLists
    <2> QED
      BY <2>3 DEF T
  <1>5. DOMAIN g.rows = 1..n /\ DOMAIN g.todo = 1..n
    BY <1>2
  <1> QED
    BY <1>1, <1>2, <1>3, <1>4, <1>5 DEF FillSound

\* A fill that has nothing left to ask for ends with the rows of its month.
LEMMA FillEnds ==
  ASSUME NEW m \in Int, version \in DOMAIN Calendars, NEW f, FillSound(f, m, version),
         \A i \in DOMAIN f.todo : f.todo[i] = <<>>, NEW P,
         P = {i \in DOMAIN FlattenSeq(f.rows) : MonthOf(referenceDate(FlattenSeq(f.rows)[i])) = m},
         NEW b, b.events = At(FlattenSeq(f.rows), P), b.since = f.since, b.until = version
  PROVE  BucketSound(b, m, version)
  <1> DEFINE tiles == TilesOf(m)
             lists == f.rows
             all == FlattenSeq(lists)
             v == version
             since == f.since
             S == [i \in DOMAIN tiles |-> ExBetween(tiles[i][1], tiles[i][2])]
             asked == UNION {S[i] : i \in DOMAIN tiles}
  <1>1. PICK n \in Nat \ {0} :
           /\ DOMAIN tiles = 1..n
           /\ \A i \in 1..n : tiles[i][1] \in Int /\ tiles[i][2] \in Int
           /\ \A i, j \in 1..n : \A d \in Int : OfTile(d, tiles[i]) /\ OfTile(d, tiles[j]) => i = j
           /\ \A e \in MonthRows(m) : \E i \in 1..n : OfTile(e.ex, tiles[i])
    BY TilesOfMonth
  <1>2. /\ since \in 1..v /\ lists \in Seq(Seq(Rows)) /\ DOMAIN lists = 1..n
        /\ \A i \in 1..n : TileSound(lists[i], <<>>, tiles[i], since, v)
    <2>1. /\ f.since \in 1..v /\ f.rows \in Seq(Seq(Rows)) /\ DOMAIN f.rows = 1..n
          /\ DOMAIN f.todo = 1..n
          /\ \A i \in 1..n : TileSound(f.rows[i], f.todo[i], tiles[i], f.since, v)
      BY <1>1, Zenon DEF FillSound
    <2>2. \A i \in 1..n : f.todo[i] = <<>>
      BY <2>1
    <2>3. ASSUME NEW i \in 1..n PROVE TileSound(lists[i], <<>>, tiles[i], since, v)
      <3>1. TileSound(f.rows[i], f.todo[i], tiles[i], f.since, v) /\ f.todo[i] = <<>>
        BY <2>1, <2>2
      <3> QED
        BY <3>1, Zenon
    <2> QED
      BY <2>1, <2>3
  <1>3. v \in Nat \ {0} /\ since \in 1..v
    BY <1>2, VersionsAre
  <1>4. Len(lists) = n
    <2> DEFINE T == Seq(Rows)
    <2>1. lists \in Seq(T)
      BY <1>2
    <2> HIDE DEF T, lists
    <2>2. Len(lists) \in Nat /\ DOMAIN lists = 1..Len(lists)
      BY <2>1, ListsHave
    <2>3. 1..Len(lists) = 1..n
      BY <1>2, <2>2
    <2> DEFINE l == Len(lists)
    <2> HIDE DEF l
    <2>4. l \in Nat /\ 1..l = 1..n
      BY <2>2, <2>3 DEF l
    <2>5. n \in 1..l /\ (l # 0 => l \in 1..n)
      BY <2>4
    <2>6. l = n
      BY <2>4, <2>5
    <2> QED
      BY <2>6 DEF l
  <1> HIDE DEF tiles, lists, since, v
  <1>5. \A i \in 1..n : S[i] = ExBetween(tiles[i][1], tiles[i][2])
    BY <1>1
  <1>6. ASSUME NEW i \in 1..n PROVE Whole(lists[i], S[i], since, v)
    <2>1. Whole(lists[i], ExBetween(tiles[i][1], Reached(<<>>, tiles[i][2]) - 1), since, v)
      BY <1>2 DEF TileSound
    <2>2. Reached(<<>>, tiles[i][2]) - 1 = tiles[i][2]
      BY <1>1 DEF Reached
    <2> QED
      BY <1>5, <2>1, <2>2
  <1>7. \A i, j \in 1..n : \A e \in S[i] : e \in S[j] => i = j
    <2>1. ASSUME NEW i \in 1..n, NEW j \in 1..n, NEW e \in S[i], e \in S[j] PROVE i = j
      <3>1. e \in Rows /\ OfTile(e.ex, tiles[i]) /\ OfTile(e.ex, tiles[j])
        BY <1>5, <2>1 DEF ExBetween, OfTile
      <3>2. e.ex \in Int
        BY <3>1, RowFields
      <3> QED
        BY <1>1, <3>1, <3>2
    <2> QED
      BY <2>1
  <1> HIDE DEF S
  <1>8. Whole(all, asked, since, v)
    <2>1. Whole(FlattenSeq(lists), UNION {S[i] : i \in 1..n}, since, v)
      <3>1. n \in Nat \ {0} /\ DOMAIN lists = 1..n /\ Len(lists) = n
        BY <1>2, <1>4
      <3>2. \A i \in 1..n : Whole(lists[i], S[i], since, v)
        BY <1>6
      <3> QED
        BY ONLY <3>1, <3>2, <1>7, WholeFlattened
    <2> QED
      BY <1>1, <2>1
  <1>9. P = {i \in DOMAIN all : all[i] \in MonthRows(m)}
    <2>1. all \in Seq(Rows)
      BY <1>8 DEF Whole, Once
    <2> HIDE DEF all
    <2>2. \A i \in DOMAIN all : all[i] \in Rows
      BY <2>1, ListsHave
    <2>3. P = {i \in DOMAIN all : MonthOf(referenceDate(all[i])) = m}
      BY DEF all, lists
    <2> QED
      BY <2>2, <2>3 DEF MonthRows
  <1> HIDE DEF all, asked
  <1>10. Whole(At(all, P), asked \intersect MonthRows(m), since, v)
    BY <1>8, <1>9, WholeKept
  <1>11. asked \intersect MonthRows(m) = MonthRows(m)
    <2>1. ASSUME NEW e \in MonthRows(m) PROVE e \in asked
      <3>1. PICK i \in 1..n : OfTile(e.ex, tiles[i])
        BY <1>1
      <3>2. e \in S[i]
        BY <1>5, <3>1 DEF OfTile, ExBetween, MonthRows
      <3> QED
        BY <1>1, <3>2 DEF asked
    <2> QED
      BY <2>1
  <1>12. Whole(b.events, MonthRows(m), since, v)
    BY <1>10, <1>11 DEF all, lists
  <1>13. v \in 1..v
    BY <1>3
  <1> QED
    BY <1>3, <1>12, <1>13 DEF BucketSound, since, v

-----------------------------------------------------------------------------
\* A day lies between the ends of its month.
LEMMA DaysOfMonth ==
  ASSUME NEW d \in Int, NEW m \in Int, MonthOf(d) = m
  PROVE  MonthStart(m) <= d /\ d <= MonthEnd(m)
  <1>1. MonthDays \in Nat \ {0}
    BY CalendarParameters
  <1>2. MonthDays * m <= d /\ d < MonthDays * m + MonthDays
    BY <1>1, QuotientBounds DEF MonthOf
  <1>3. m * MonthDays = MonthDays * m /\ (m + 1) * MonthDays = MonthDays * m + MonthDays
        /\ MonthDays * m \in Int
    BY <1>1
  <1> QED
    BY <1>1, <1>2, <1>3 DEF MonthStart, MonthEnd

\* Of a month that follows what has been collected, the part in the window is added.
LEMMA MonthIsCollected ==
  ASSUME NEW r \in Requests, NEW m \in Int, month[r] = m, NEW w \in Int \X Int, window[r] = w,
         NEW list, NEW rows, version \in Nat,
         Whole(list, RowsBefore(w, m), 1, version),
         NEW since \in Int, NEW until \in Int, 1 <= since, until <= version,
         Whole(rows, MonthRows(m), since, until)
  PROVE  Whole(list \o Clamped(r, rows), RowsBefore(w, m + 1), 1, version)
  <1> DEFINE lo == MonthStart(m)
             hi == MonthEnd(m)
             from == IF w[1] > lo THEN w[1] ELSE lo
             to   == IF w[2] < hi THEN w[2] ELSE hi
             P == {i \in DOMAIN rows :
                      from <= referenceDate(rows[i]) /\ referenceDate(rows[i]) <= to}
             S == MonthRows(m)
             W == WindowRows(w)
  <1>1. lo \in Int /\ hi \in Int /\ w[1] \in Int /\ w[2] \in Int
    BY MonthsOfDays
  <1>2. Clamped(r, rows) = At(rows, P)
    BY DEF Clamped
  <1>3. ASSUME NEW e \in S PROVE from <= referenceDate(e) /\ referenceDate(e) <= to <=> e \in W
    <2>1. e \in Rows /\ referenceDate(e) \in Int /\ MonthOf(referenceDate(e)) = m
      BY RowFields DEF MonthRows
    <2> DEFINE d == referenceDate(e)
    <2>2. lo <= d /\ d <= hi
      BY <2>1, DaysOfMonth
    <2> HIDE DEF d, lo, hi
    <2>3. from <= d /\ d <= to <=> w[1] <= d /\ d <= w[2]
      BY <1>1, <2>1, <2>2 DEF d
    <2> QED
      BY <2>1, <2>3 DEF WindowRows, d
  <1>4. rows \in Seq(Rows) /\ \A i \in DOMAIN rows : rows[i] \in S
    <2>1. rows \in Seq(Rows) /\ ToSet(rows) \subseteq S
      BY DEF Whole, Once, Complete
    <2> QED
      BY <2>1 DEF ToSet
  <1> HIDE DEF from, to, S, W
  <1>5. P = {i \in DOMAIN rows : rows[i] \in W}
    BY <1>3, <1>4
  <1> HIDE DEF P
  <1>6. Whole(rows, S, 1, version)
    BY WholeWidens DEF S
  <1>7. Whole(At(rows, P), S \intersect W, 1, version)
    BY <1>5, <1>6, WholeKept
  <1>8. /\ RowsBefore(w, m) \intersect (S \intersect W) = {}
        /\ RowsBefore(w, m) \union (S \intersect W) = RowsBefore(w, m + 1)
    <2>1. \A e \in W : e \in Rows /\ MonthOf(referenceDate(e)) \in Int
      BY RowFields, MonthsOfDays DEF W, WindowRows
    <2>2. RowsBefore(w, m) = {e \in W : MonthOf(referenceDate(e)) < m}
      BY DEF RowsBefore, W
    <2>3. RowsBefore(w, m + 1) = {e \in W : MonthOf(referenceDate(e)) < m + 1}
      BY DEF RowsBefore, W
    <2>4. S \intersect W = {e \in W : MonthOf(referenceDate(e)) = m}
      BY <2>1 DEF S, MonthRows
    <2> QED
      BY <2>1, <2>2, <2>3, <2>4
  <1> DEFINE part == At(rows, P)
  <1> HIDE DEF part
  <1>9. Whole(list \o part, RowsBefore(w, m) \union (S \intersect W), 1, version)
    BY <1>7, <1>8, WholeJoined DEF part
  <1> QED
    BY <1>2, <1>8, <1>9 DEF part

-----------------------------------------------------------------------------
\* The request has collected the months before the one at hand.
Collecting == Reading \union {"next"}

RequestSound(r) ==
  /\ pc[r] = "fetch" => FillSound(fill[r], month[r], version)
  /\ pc[r] \in {"store", "finish"} => BucketSound(fill[r], month[r], version)
  /\ pc[r] = "idle" => entries[r] = <<>>
  /\ pc[r] \in Collecting => Whole(entries[r], RowsBefore(window[r], month[r]), 1, version)
  /\ pc[r] = "answer" => Whole(entries[r], WindowRows(window[r]), 1, version) /\ InOrder(entries[r])

CacheSound == \A m \in Months : cache[m] # NoBucket => BucketSound(cache[m], m, version)

\* Fills, buckets and what has been collected are whole.
RowsInv ==
  /\ version \in DOMAIN Calendars
  /\ entries \in [Requests -> Seq(Rows)]
  /\ CacheSound
  /\ \A r \in Requests : RequestSound(r)

\* Nothing is cached or collected at first.
LEMMA InitRows == Init => RowsInv
  <1>. SUFFICES ASSUME Init PROVE RowsInv
    OBVIOUS
  <1>1. version \in DOMAIN Calendars
    BY VersionsAre DEF Init
  <1>2. entries \in [Requests -> Seq(Rows)]
    <2>. DEFINE T == Seq(Rows)
    <2>1. <<>> \in T
      BY EmptyIsList
    <2>. HIDE DEF T
    <2>2. entries \in [Requests -> T]
      BY <2>1 DEF Init
    <2>. QED
      BY <2>2 DEF T
  <1>3. CacheSound
    BY DEF Init, CacheSound
  <1>4. \A r \in Requests : RequestSound(r)
    BY DEF Init, RequestSound, Collecting, Reading
  <1>. QED
    BY <1>1, <1>2, <1>3, <1>4 DEF RowsInv

\* What a step does not touch stays sound.
LEMMA Untouched ==
  ASSUME NEW q \in Requests, RequestSound(q),
         pc'[q] = pc[q], month'[q] = month[q], window'[q] = window[q], entries'[q] = entries[q],
         pc[q] \in {"fetch", "store", "finish"} => fill'[q] = fill[q], version' = version
  PROVE  RequestSound(q)'
  BY DEF RequestSound, FillSound, BucketSound

\* Buckets stay sound while calendar and cache are the same.
LEMMA CacheUntouched ==
  ASSUME CacheSound, UNCHANGED <<version, cache>>
  PROVE  CacheSound'
  BY DEF CacheSound, BucketSound

\* A request moves on to a stage between two reads.
LEMMA Moves ==
  ASSUME IInv, RowsInv, NEW r \in Requests, NEW stage \in Stages, Goto(r, stage),
         UNCHANGED <<version, cache, window, month, entries>>,
         \A q \in Requests \ {r} : fill'[q] = fill[q],
         RequestSound(r)'
  PROVE  RowsInv'
  <1>1. \A q \in Requests \ {r} : pc'[q] = pc[q]
    BY DEF Goto, IInv, Shape
  <1>2. \A q \in Requests \ {r} : RequestSound(q)'
    BY <1>1, Untouched DEF RowsInv
  <1>3. CacheSound'
    BY CacheUntouched DEF RowsInv
  <1>. QED
    BY <1>2, <1>3 DEF RowsInv

\* The month at hand and the window are numbers.
LEMMA MonthIs == ASSUME IInv, NEW r \in Requests PROVE month[r] \in Int /\ window[r] \in Int \X Int
  BY DEF IInv, Shape

LEMMA RowsStart == ASSUME IInv, RowsInv, NEW r \in Requests, Start(r) PROVE RowsInv'
  <1>1. PICK w \in Asked : /\ window' = [window EXCEPT ![r] = Resolve(w)]
                           /\ month' = [month EXCEPT ![r] = MonthOf(Resolve(w)[1])]
    BY DEF Start
  <1>2. Resolve(w) \in Int \X Int
    BY WindowsAreDays
  <1>3. /\ pc[r] = "idle" /\ pc' = [pc EXCEPT ![r] = "next"]
        /\ UNCHANGED <<version, cache, fill, entries>>
    BY DEF Start, Goto
  <1>4. /\ pc'[r] = "next" /\ window'[r] = Resolve(w) /\ month'[r] = MonthOf(Resolve(w)[1])
        /\ \A q \in Requests \ {r} :
              pc'[q] = pc[q] /\ window'[q] = window[q] /\ month'[q] = month[q]
    BY <1>1, <1>3 DEF IInv, Shape
  <1>5. RowsBefore(Resolve(w), MonthOf(Resolve(w)[1])) = {}
    <2>. DEFINE d == Resolve(w)[1]
    <2>1. d \in Int
      BY <1>2
    <2>2. ASSUME NEW e \in Rows, d <= referenceDate(e)
          PROVE  ~ (MonthOf(referenceDate(e)) < MonthOf(d))
      <3>1. referenceDate(e) \in Int /\ MonthOf(d) \in Int /\ MonthOf(referenceDate(e)) \in Int
        BY <2>1, RowFields, MonthsOfDays
      <3>2. MonthStart(MonthOf(d)) <= d /\ MonthStart(MonthOf(d)) \in Int
        BY <2>1, <3>1, DaysOfMonth, MonthsOfDays
      <3>. HIDE DEF d
      <3>3. MonthStart(MonthOf(d)) <= referenceDate(e)
        BY <2>1, <2>2, <3>1, <3>2
      <3>. QED
        BY <3>1, <3>3, MonthsOfDays
    <2>. QED
      BY <2>2 DEF RowsBefore, WindowRows
  <1>6. entries[r] = <<>>
    BY <1>3 DEF RowsInv, RequestSound
  <1>7. RequestSound(r)'
    <2>1. Whole(<<>>, {}, 1, version)
      BY NothingIsWhole
    <2>2. Whole(entries'[r], RowsBefore(window'[r], month'[r]), 1, version')
      BY <1>3, <1>4, <1>5, <1>6, <2>1
    <2>. QED
      BY <1>4, <2>2 DEF RequestSound
  <1>8. \A q \in Requests \ {r} : RequestSound(q)'
    BY <1>3, <1>4, Untouched DEF RowsInv
  <1>9. CacheSound'
    BY <1>3, CacheUntouched DEF RowsInv
  <1>. QED
    BY <1>3, <1>7, <1>8, <1>9 DEF RowsInv

LEMMA RowsNextMonth == ASSUME IInv, RowsInv, NEW r \in Requests, NextMonth(r) PROVE RowsInv'
  <1>0. /\ pc[r] = "next" /\ UNCHANGED <<version, cache, window, month, fill>>
        /\ pc \in [Requests -> Stages]
    BY DEF NextMonth, IInv, Shape
  <1>1. Whole(entries[r], RowsBefore(window[r], month[r]), 1, version)
    BY <1>0 DEF RowsInv, RequestSound, Collecting
  <1>2. CASE month[r] > MonthOf(window[r][2])
    <2>1. /\ pc' = [pc EXCEPT ![r] = "answer"]
          /\ entries' = [entries EXCEPT ![r] = Sorted(entries[r])]
      BY <1>2 DEF NextMonth, Goto, RowsInv
    <2>2. RowsBefore(window[r], month[r]) = WindowRows(window[r])
      <3>. DEFINE d == window[r][2]
                  m == month[r]
      <3>1. d \in Int /\ m \in Int /\ MonthOf(d) \in Int /\ MonthOf(d) < m
        BY <1>2, MonthIs, MonthsOfDays
      <3>. HIDE DEF d, m
      <3>2. ASSUME NEW e \in Rows, referenceDate(e) <= d PROVE MonthOf(referenceDate(e)) < m
        <4>1. referenceDate(e) \in Int /\ MonthOf(referenceDate(e)) \in Int
          BY RowFields, MonthsOfDays
        <4>2. d <= MonthEnd(MonthOf(d)) /\ MonthEnd(MonthOf(d)) \in Int
          BY <3>1, DaysOfMonth, MonthsOfDays
        <4>3. referenceDate(e) <= MonthEnd(MonthOf(d))
          BY <3>1, <3>2, <4>1, <4>2
        <4>4. MonthOf(referenceDate(e)) <= MonthOf(d)
          BY <3>1, <4>1, <4>3, MonthsOfDays
        <4>. QED
          BY <3>1, <4>1, <4>4
      <3>. QED
        BY <3>2 DEF RowsBefore, WindowRows, d, m
    <2>3. /\ Whole(Sorted(entries[r]), WindowRows(window[r]), 1, version)
          /\ InOrder(Sorted(entries[r]))
      BY <1>1, <2>2, WholeSorted
    <2>4. Sorted(entries[r]) \in Seq(Rows)
      BY <2>3 DEF Whole, Once
    <2>5. /\ pc'[r] = "answer" /\ entries'[r] = Sorted(entries[r])
          /\ \A q \in Requests \ {r} : pc'[q] = pc[q] /\ entries'[q] = entries[q]
      BY <1>0, <2>1 DEF RowsInv
    <2>6. entries' \in [Requests -> Seq(Rows)]
      <3>. DEFINE T == Seq(Rows)
      <3>1. entries \in [Requests -> T] /\ Sorted(entries[r]) \in T
        BY <2>4 DEF RowsInv
      <3>. HIDE DEF T
      <3>2. entries' \in [Requests -> T]
        BY <2>1, <3>1
      <3>. QED
        BY <3>2 DEF T
    <2>7. RequestSound(r)'
      <3>1. /\ Whole(entries'[r], WindowRows(window'[r]), 1, version')
            /\ InOrder(entries'[r])
        BY <1>0, <2>3, <2>5
      <3>. QED
        BY <2>5, <3>1 DEF RequestSound, Collecting, Reading
    <2>8. \A q \in Requests \ {r} : RequestSound(q)'
      BY <1>0, <2>5, Untouched DEF RowsInv
    <2>9. CacheSound'
      BY <1>0, CacheUntouched DEF RowsInv
    <2>. QED
      BY <1>0, <2>6, <2>7, <2>8, <2>9 DEF RowsInv
  <1>3. CASE ~ (month[r] > MonthOf(window[r][2]))
    <2>1. /\ Goto(r, IF abandoned[r] THEN "error" ELSE "get") /\ UNCHANGED entries
      BY <1>3 DEF NextMonth
    <2>2. PICK stage \in {"error", "get"} : Goto(r, stage)
      BY <2>1
    <2>3. pc'[r] = stage
      BY <1>0, <2>2 DEF Goto
    <2>4. Whole(entries'[r], RowsBefore(window'[r], month'[r]), 1, version')
      BY <1>0, <1>1, <2>1
    <2>5. RequestSound(r)'
      BY <2>3, <2>4 DEF RequestSound, Collecting, Reading
    <2>6. stage \in Stages
      BY DEF Stages
    <2>. QED
      BY <1>0, <2>1, <2>2, <2>5, <2>6, Moves
  <1>. QED
    BY <1>2, <1>3

-----------------------------------------------------------------------------
\* Requests get the rows of a month.
LEMMA RowsCollect ==
  ASSUME IInv, RowsInv, NEW rs \in SUBSET Requests, NEW rows, Collect(rs, rows), NEW m \in Int,
         \A q \in rs : pc[q] \in Reading /\ month[q] = m,
         NEW since \in Int, NEW until \in Int, 1 <= since, until <= version,
         Whole(rows, MonthRows(m), since, until),
         UNCHANGED <<version, cache, window>>,
         \A q \in Requests \ rs : fill'[q] = fill[q]
  PROVE  RowsInv'
  <1>0. version \in Nat
    BY DEF IInv, Shape
  <1>1. /\ pc' = [q \in Requests |-> IF q \in rs THEN "next" ELSE pc[q]]
        /\ month' = [q \in Requests |-> IF q \in rs THEN month[q] + 1 ELSE month[q]]
        /\ entries' = [q \in Requests |->
                         IF q \in rs THEN entries[q] \o Clamped(q, rows) ELSE entries[q]]
    BY DEF Collect
  <1>2. /\ \A q \in rs : pc'[q] = "next" /\ month'[q] = m + 1
                         /\ entries'[q] = entries[q] \o Clamped(q, rows)
        /\ \A q \in Requests \ rs :
              pc'[q] = pc[q] /\ month'[q] = month[q] /\ entries'[q] = entries[q]
    BY <1>1
  <1>3. ASSUME NEW q \in rs
        PROVE  Whole(entries[q] \o Clamped(q, rows), RowsBefore(window[q], m + 1), 1, version)
    <2>1. q \in Requests /\ month[q] = m /\ window[q] \in Int \X Int
      BY MonthIs
    <2>2. Whole(entries[q], RowsBefore(window[q], m), 1, version)
      BY <2>1 DEF RowsInv, RequestSound, Collecting
    <2>. DEFINE w == window[q]
                list == entries[q]
    <2>3. /\ month[q] = m /\ window[q] = w /\ w \in Int \X Int
          /\ Whole(list, RowsBefore(w, m), 1, version)
      BY <2>1, <2>2
    <2>. HIDE DEF w, list
    <2>4. Whole(list \o Clamped(q, rows), RowsBefore(w, m + 1), 1, version)
      BY <1>0, <2>1, <2>3, MonthIsCollected
    <2>. QED
      BY <2>4 DEF w, list
  <1>4. ASSUME NEW q \in rs PROVE RequestSound(q)'
    <2>1. Whole(entries'[q], RowsBefore(window'[q], month'[q]), 1, version')
      BY <1>2, <1>3
    <2>. QED
      BY <1>2, <2>1 DEF RequestSound
  <1>5. \A q \in Requests \ rs : RequestSound(q)'
    BY <1>2, Untouched DEF RowsInv
  <1>6. entries' \in [Requests -> Seq(Rows)]
    <2>. DEFINE T == Seq(Rows)
    <2>1. ASSUME NEW q \in rs PROVE entries[q] \o Clamped(q, rows) \in T
      BY <1>3 DEF Whole, Once
    <2>2. \A q \in Requests : entries[q] \in T
      BY DEF RowsInv
    <2>. HIDE DEF T
    <2>3. entries' \in [Requests -> T]
      BY <1>1, <2>1, <2>2
    <2>. QED
      BY <2>3 DEF T
  <1>7. CacheSound'
    BY CacheUntouched DEF RowsInv
  <1>. QED
    BY <1>4, <1>5, <1>6, <1>7 DEF RowsInv

LEMMA RowsGet == ASSUME IInv, RowsInv, NEW r \in Requests, Get(r) PROVE RowsInv'
  <1>1. /\ pc[r] = "get" /\ UNCHANGED <<version, cache, fill, window>>
        /\ pc \in [Requests -> Stages] /\ version \in Nat
    BY DEF Get, IInv, Shape
  <1>2. CASE cache[month[r]] # NoBucket /\ Collect({r}, cache[month[r]].events)
    <2>. DEFINE m == month[r]
                b == cache[m]
    <2>1. m \in Months /\ m \in Int
      BY <1>1, MonthsAreKnown, MonthIs DEF Reading
    <2>2. BucketSound(b, m, version)
      BY <1>2, <2>1 DEF RowsInv, CacheSound
    <2>3. /\ b.since \in Int /\ b.until \in Int /\ 1 <= b.since /\ b.until <= version
          /\ Whole(b.events, MonthRows(m), b.since, b.until)
      BY <1>1, <2>2 DEF BucketSound
    <2>4. \A q \in {r} : pc[q] \in Reading /\ month[q] = m
      BY <1>1 DEF Reading
    <2>5. {r} \in SUBSET Requests /\ Collect({r}, b.events)
      BY <1>2
    <2>. HIDE DEF m, b
    <2>6. \A q \in Requests \ {r} : fill'[q] = fill[q]
      BY <1>1
    <2>. QED
      BY <1>1, <2>1, <2>3, <2>4, <2>5, <2>6, RowsCollect
  <1>3. CASE Goto(r, "join") /\ UNCHANGED <<month, entries>>
    <2>1. pc'[r] = "join" /\ "join" \in Stages
      BY <1>1, <1>3 DEF Goto, Stages
    <2>2. Whole(entries[r], RowsBefore(window[r], month[r]), 1, version)
      BY <1>1 DEF RowsInv, RequestSound, Collecting, Reading
    <2>3. Whole(entries'[r], RowsBefore(window'[r], month'[r]), 1, version')
      BY <1>1, <1>3, <2>2
    <2>4. RequestSound(r)'
      BY <2>1, <2>3 DEF RequestSound, Collecting, Reading
    <2>. QED
      BY <1>1, <1>3, <2>1, <2>4, Moves
  <1>. QED
    BY <1>2, <1>3 DEF Get

LEMMA RowsJoin == ASSUME IInv, RowsInv, NEW r \in Requests, Join(r) PROVE RowsInv'
  <1>1. /\ pc[r] = "join" /\ UNCHANGED <<version, cache, window, month, entries>>
        /\ pc \in [Requests -> Stages] /\ version \in Nat \ {0} /\ month[r] \in Int
    BY VersionsAre, MonthIs DEF Join, IInv, Shape, RowsInv
  <1>2. Whole(entries[r], RowsBefore(window[r], month[r]), 1, version)
    BY <1>1 DEF RowsInv, RequestSound, Collecting, Reading
  <1>3. Whole(entries'[r], RowsBefore(window'[r], month'[r]), 1, version')
    BY <1>1, <1>2
  <1>4. CASE flight[month[r]] # NoRequest
    <2>1. Goto(r, "wait") /\ UNCHANGED fill
      BY <1>4 DEF Join
    <2>2. pc'[r] = "wait" /\ "wait" \in Stages
      BY <1>1, <2>1 DEF Goto, Stages
    <2>3. RequestSound(r)'
      BY <1>3, <2>2 DEF RequestSound, Collecting, Reading
    <2>. QED
      BY <1>1, <2>1, <2>2, <2>3, Moves
  <1>5. CASE flight[month[r]] = NoRequest
    <2>. DEFINE f == [rows  |-> [i \in DOMAIN TilesOf(month[r]) |-> <<>>],
                      todo  |-> [i \in DOMAIN TilesOf(month[r]) |-> <<TilesOf(month[r])[i]>>],
                      since |-> version]
    <2>1. Goto(r, "fetch") /\ fill' = [fill EXCEPT ![r] = f]
      BY <1>5 DEF Join, TilesOf
    <2>2. FillSound(f, month[r], version)
      BY <1>1, FillBegins
    <2>. HIDE DEF f
    <2>3. pc'[r] = "fetch" /\ "fetch" \in Stages
      BY <1>1, <2>1 DEF Goto, Stages
    <2>4. fill'[r] = f /\ \A q \in Requests \ {r} : fill'[q] = fill[q]
      BY <2>1 DEF IInv, Shape
    <2>5. FillSound(fill'[r], month'[r], version')
      BY <1>1, <2>2, <2>4
    <2>6. RequestSound(r)'
      BY <1>3, <2>3, <2>4, <2>5 DEF RequestSound, Collecting, Reading
    <2>. QED
      BY <1>1, <2>1, <2>3, <2>4, <2>6, Moves
  <1>. QED
    BY <1>4, <1>5

LEMMA RowsAsk ==
  ASSUME IInv, RowsInv, NEW r \in Requests, NEW i \in DOMAIN fill[r].todo, Ask(r, i)
  PROVE  RowsInv'
  <1>. DEFINE m == month[r]
              f == fill[r]
              todo == f.todo[i]
              rows == f.rows[i]
              tile == TilesOf(m)[i]
              lo == Head(todo)[1]
              hi == Head(todo)[2]
              mid == lo + (hi - lo) \div 2
              halves == <<<<lo, mid>>, <<mid + 1, hi>>>> \o Tail(todo)
              reply == Reply(lo, hi)
              g == fill'[r]
  <1>1. /\ pc[r] = "fetch" /\ UNCHANGED <<version, cache, pc, window, month, entries>>
        /\ todo # <<>>
    BY DEF Ask, Running
  <1>2. m \in Int
    BY MonthIs
  <1>3. /\ \/ /\ Len(reply) < RowCap \/ lo = hi
              /\ fill' = [fill EXCEPT ![r].rows[i] = rows \o reply, ![r].todo[i] = Tail(todo)]
           \/ /\ ~ (Len(reply) < RowCap \/ lo = hi)
              /\ fill' = [fill EXCEPT ![r].todo[i] = halves]
    <2>1. PICK a, b, c : f = [rows |-> a, todo |-> b, since |-> c]
      BY <1>1 DEF IInv, Filling
    <2>. QED
      BY <2>1 DEF Ask, IInv, Shape
  <1>4. FillSound(f, m, version) /\ version \in DOMAIN Calendars
    BY <1>1 DEF RowsInv, RequestSound
  <1>5. /\ f.since \in 1..version
        /\ DOMAIN f.rows = DOMAIN f.todo /\ i \in DOMAIN TilesOf(m) /\ i \in DOMAIN f.todo
        /\ f.rows \in Seq(Seq(Rows))
        /\ TileSound(rows, todo, tile, f.since, version)
    BY <1>4 DEF FillSound
  <1>6. tile \in Int \X Int
    BY <1>2, <1>5, TilesOfMonth
  <1>7. /\ g.since = f.since
        /\ g.rows = [j \in DOMAIN f.rows |-> g.rows[j]] /\ DOMAIN g.todo = DOMAIN f.todo
        /\ \A j \in DOMAIN f.todo \ {i} : g.rows[j] = f.rows[j] /\ g.todo[j] = f.todo[j]
        /\ TileSound(g.rows[i], g.todo[i], TilesOf(m)[i], f.since, version)
    <2>1. PICK a, b, c : f = [rows |-> a, todo |-> b, since |-> c]
      BY <1>1 DEF IInv, Filling
    <2>2. CASE /\ Len(reply) < RowCap \/ lo = hi
               /\ fill' = [fill EXCEPT ![r].rows[i] = rows \o reply, ![r].todo[i] = Tail(todo)]
      <3>. DEFINE x == rows \o reply
                  y == Tail(todo)
      <3>1. TileSound(x, y, tile, f.since, version)
        BY <1>1, <1>4, <1>5, <1>6, <2>2, TileGetsRows
      <3>2. fill' = [fill EXCEPT ![r].rows[i] = x, ![r].todo[i] = y]
        BY <2>2
      <3>. HIDE DEF x, y
      <3>3. g = [f EXCEPT !.rows[i] = x, !.todo[i] = y]
        BY <3>2 DEF IInv, Shape
      <3>4. /\ g.since = f.since /\ g.rows = [f.rows EXCEPT ![i] = x]
            /\ g.todo = [f.todo EXCEPT ![i] = y]
        BY <2>1, <3>3
      <3>. QED
        BY <1>5, <3>1, <3>4
    <2>3. CASE /\ ~ (Len(reply) < RowCap \/ lo = hi)
               /\ fill' = [fill EXCEPT ![r].todo[i] = halves]
      <3>1. TileSound(rows, halves, tile, f.since, version)
        BY <1>1, <1>5, <1>6, <2>3, TileSplits
      <3>2. fill' = [fill EXCEPT ![r].todo[i] = halves]
        BY <2>3
      <3>. HIDE DEF halves
      <3>3. g = [f EXCEPT !.todo[i] = halves]
        BY <3>2 DEF IInv, Shape
      <3>4. g.since = f.since /\ g.rows = f.rows /\ g.todo = [f.todo EXCEPT ![i] = halves]
        BY <2>1, <3>3
      <3>. QED
        BY <1>5, <3>1, <3>4
    <2>. QED
      BY <1>3, <2>2, <2>3
  <1>8. \A q \in Requests \ {r} : fill'[q] = fill[q]
    BY <1>3 DEF IInv, Shape
  <1>. HIDE DEF g, f, m
  <1>9. FillSound(g, m, version)
    BY <1>2, <1>4, <1>5, <1>7, FillGoesOn
  <1>10. RequestSound(r)'
    <2>1. FillSound(fill'[r], month[r], version) /\ RequestSound(r)
      BY <1>9 DEF g, m, RowsInv
    <2>2. Whole(entries[r], RowsBefore(window[r], month[r]), 1, version)
      BY <1>1, <2>1 DEF RequestSound, Collecting, Reading
    <2>3. /\ FillSound(fill'[r], month'[r], version') /\ pc'[r] = "fetch"
          /\ Whole(entries'[r], RowsBefore(window'[r], month'[r]), 1, version')
      BY <1>1, <2>1, <2>2
    <2>. QED
      BY <2>3 DEF RequestSound
  <1>11. \A q \in Requests \ {r} : RequestSound(q)'
    BY <1>1, <1>8, Untouched DEF RowsInv
  <1>12. CacheSound'
    BY <1>1, CacheUntouched DEF RowsInv
  <1>. QED
    BY <1>1, <1>10, <1>11, <1>12 DEF RowsInv

-----------------------------------------------------------------------------
LEMMA RowsAskFails ==
  ASSUME IInv, RowsInv, NEW r \in Requests, NEW i, AskFails(r, i)
  PROVE  RowsInv'
  <1>1. /\ pc[r] = "fetch" /\ Goto(r, "failed")
        /\ UNCHANGED <<version, cache, window, month, entries>>
        /\ fill' = [fill EXCEPT ![r] = NoFill]
    BY DEF AskFails, Running
  <1>2. pc'[r] = "failed" /\ "failed" \in Stages /\ \A q \in Requests \ {r} : fill'[q] = fill[q]
    BY <1>1 DEF Goto, IInv, Shape, Stages
  <1>3. Whole(entries[r], RowsBefore(window[r], month[r]), 1, version)
    BY <1>1 DEF RowsInv, RequestSound, Collecting, Reading
  <1>4. Whole(entries'[r], RowsBefore(window'[r], month'[r]), 1, version')
    BY <1>1, <1>3
  <1>5. RequestSound(r)'
    BY <1>2, <1>4 DEF RequestSound
  <1>. QED
    BY <1>1, <1>2, <1>5, Moves

LEMMA RowsFetched == ASSUME IInv, RowsInv, NEW r \in Requests, Fetched(r) PROVE RowsInv'
  <1>. DEFINE m == month[r]
              f == fill[r]
              all == FlattenSeq(f.rows)
              P == {i \in DOMAIN all : MonthOf(referenceDate(all[i])) = m}
              b == [events |-> At(all, P), since |-> f.since, until |-> version]
  <1>1. /\ pc[r] = "fetch" /\ Goto(r, "store")
        /\ UNCHANGED <<version, cache, window, month, entries>>
        /\ \A i \in DOMAIN f.todo : f.todo[i] = <<>>
        /\ fill' = [fill EXCEPT ![r] = b]
    BY DEF Fetched
  <1>2. m \in Int /\ FillSound(f, m, version) /\ version \in DOMAIN Calendars
    BY <1>1, MonthIs DEF RowsInv, RequestSound
  <1>3. BucketSound(b, m, version)
    <2>1. P = {i \in DOMAIN FlattenSeq(f.rows) : MonthOf(referenceDate(FlattenSeq(f.rows)[i])) = m}
      OBVIOUS
    <2>2. b.events = At(FlattenSeq(f.rows), P) /\ b.since = f.since /\ b.until = version
      OBVIOUS
    <2>. HIDE DEF P, b, f, m
    <2>. QED
      BY <1>1, <1>2, <2>1, <2>2, FillEnds
  <1>. HIDE DEF b
  <1>4. /\ pc'[r] = "store" /\ "store" \in Stages /\ fill'[r] = b
        /\ \A q \in Requests \ {r} : fill'[q] = fill[q]
    BY <1>1 DEF Goto, IInv, Shape, Stages
  <1>5. Whole(entries[r], RowsBefore(window[r], month[r]), 1, version)
    BY <1>1 DEF RowsInv, RequestSound, Collecting, Reading
  <1>6. /\ Whole(entries'[r], RowsBefore(window'[r], month'[r]), 1, version')
        /\ BucketSound(fill'[r], month'[r], version')
    BY <1>1, <1>3, <1>4, <1>5
  <1>7. RequestSound(r)'
    BY <1>4, <1>6 DEF RequestSound
  <1>. QED
    BY <1>1, <1>4, <1>7, Moves

LEMMA RowsStore == ASSUME IInv, RowsInv, NEW r \in Requests, Store(r) PROVE RowsInv'
  <1>1. /\ pc[r] = "store" /\ Goto(r, "finish")
        /\ cache' = [cache EXCEPT ![month[r]] = fill[r]] \/ cache' = cache
        /\ UNCHANGED <<version, window, month, fill, entries>>
    BY DEF Store
  <1>2. /\ pc'[r] = "finish" /\ \A q \in Requests \ {r} : pc'[q] = pc[q]
        /\ \A m \in Months : cache'[m] = cache[m] \/ (m = month[r] /\ cache'[m] = fill[r])
    BY <1>1 DEF Goto, IInv, Shape
  <1>3. /\ BucketSound(fill[r], month[r], version)
        /\ Whole(entries[r], RowsBefore(window[r], month[r]), 1, version)
    BY <1>1 DEF RowsInv, RequestSound, Collecting, Reading
  <1>4. /\ BucketSound(fill'[r], month'[r], version')
        /\ Whole(entries'[r], RowsBefore(window'[r], month'[r]), 1, version')
    BY <1>1, <1>3
  <1>5. RequestSound(r)'
    BY <1>2, <1>4 DEF RequestSound
  <1>6. \A q \in Requests \ {r} : RequestSound(q)'
    BY <1>1, <1>2, Untouched DEF RowsInv
  <1>7. CacheSound'
    <2>1. ASSUME NEW m \in Months, cache'[m] # NoBucket PROVE BucketSound(cache'[m], m, version')
      <3>1. CASE cache'[m] = cache[m]
        BY <1>1, <2>1, <3>1 DEF RowsInv, CacheSound
      <3>2. CASE m = month[r] /\ cache'[m] = fill[r]
        BY <1>1, <1>3, <3>2
      <3>. QED
        BY <1>2, <3>1, <3>2
    <2>. QED
      BY <2>1 DEF CacheSound
  <1>. QED
    BY <1>1, <1>5, <1>6, <1>7 DEF RowsInv

LEMMA RowsFinish == ASSUME IInv, RowsInv, NEW r \in Requests, Finish(r) PROVE RowsInv'
  <1>. DEFINE m == month[r]
              sharing == {r} \union {q \in Requests : pc[q] = "wait" /\ month[q] = m}
  <1>1. /\ pc[r] \in {"failed", "finish"} /\ UNCHANGED <<version, cache, window>>
        /\ fill' = [fill EXCEPT ![r] = NoFill]
        /\ pc \in [Requests -> Stages] /\ version \in Nat /\ m \in Int
    BY MonthIs DEF Finish, IInv, Shape
  <1>2. sharing \in SUBSET Requests /\ r \in sharing
        /\ \A q \in sharing : pc[q] \in Reading /\ month[q] = m
    BY <1>1 DEF Reading
  <1>3. \A q \in Requests \ {r} : fill'[q] = fill[q]
    BY <1>1 DEF IInv, Shape
  <1>4. CASE pc[r] = "failed"
    <2>1. /\ pc' = [q \in Requests |-> IF q \in sharing THEN "error" ELSE pc[q]]
          /\ UNCHANGED <<month, entries>>
      BY <1>4 DEF Finish
    <2>. HIDE DEF sharing
    <2>2. \A q \in sharing : pc'[q] = "error"
      BY <1>2, <2>1
    <2>3. \A q \in sharing : RequestSound(q)'
      BY <2>2 DEF RequestSound, Collecting, Reading
    <2>4. \A q \in Requests \ sharing : pc'[q] = pc[q] /\ fill'[q] = fill[q]
      BY <1>2, <1>3, <2>1
    <2>5. \A q \in Requests \ sharing : RequestSound(q)'
      BY <1>1, <2>1, <2>4, Untouched DEF RowsInv
    <2>6. CacheSound'
      BY <1>1, CacheUntouched DEF RowsInv
    <2>. QED
      BY <1>1, <2>1, <2>3, <2>5, <2>6 DEF RowsInv
  <1>5. CASE pc[r] # "failed"
    <2>1. Collect(sharing, fill[r].events)
      BY <1>5 DEF Finish
    <2>. DEFINE b == fill[r]
    <2>2. BucketSound(b, m, version)
      BY <1>1, <1>5 DEF RowsInv, RequestSound
    <2>3. /\ b.since \in Int /\ b.until \in Int /\ 1 <= b.since /\ b.until <= version
          /\ Whole(b.events, MonthRows(m), b.since, b.until)
      BY <1>1, <2>2 DEF BucketSound
    <2>4. \A q \in Requests \ sharing : fill'[q] = fill[q]
      BY <1>3
    <2>. HIDE DEF sharing, m, b
    <2>. QED
      BY <1>1, <1>2, <2>1, <2>3, <2>4, RowsCollect DEF b
  <1>. QED
    BY <1>4, <1>5

LEMMA RowsReturn == ASSUME IInv, RowsInv, NEW r \in Requests, Return(r) PROVE RowsInv'
  <1>1. /\ Goto(r, "idle") /\ UNCHANGED <<version, cache, fill>>
        /\ window' = [window EXCEPT ![r] = <<Today, Today>>]
        /\ month' = [month EXCEPT ![r] = 0]
        /\ entries' = [entries EXCEPT ![r] = <<>>]
    BY DEF Return
  <1>2. /\ pc'[r] = "idle" /\ entries'[r] = <<>>
        /\ \A q \in Requests \ {r} : /\ pc'[q] = pc[q] /\ window'[q] = window[q]
                                     /\ month'[q] = month[q] /\ entries'[q] = entries[q]
    BY <1>1 DEF Goto, IInv, Shape, RowsInv
  <1>3. RequestSound(r)'
    BY <1>2 DEF RequestSound, Collecting, Reading
  <1>4. \A q \in Requests \ {r} : RequestSound(q)'
    BY <1>1, <1>2, Untouched DEF RowsInv
  <1>5. entries' \in [Requests -> Seq(Rows)]
    <2>. DEFINE T == Seq(Rows)
    <2>1. <<>> \in T /\ entries \in [Requests -> T]
      BY EmptyIsList DEF RowsInv
    <2>. HIDE DEF T
    <2>2. entries' \in [Requests -> T]
      BY <1>1, <2>1
    <2>. QED
      BY <2>2 DEF T
  <1>6. CacheSound'
    BY <1>1, CacheUntouched DEF RowsInv
  <1>. QED
    BY <1>1, <1>3, <1>4, <1>5, <1>6 DEF RowsInv

LEMMA RowsExpire == ASSUME IInv, RowsInv, NEW m \in Months, Expire(m) PROVE RowsInv'
  <1>1. /\ cache' = [cache EXCEPT ![m] = NoBucket]
        /\ UNCHANGED <<version, pc, window, month, fill, entries>>
    BY DEF Expire
  <1>2. \A n \in Months : cache'[n] # NoBucket => cache'[n] = cache[n]
    BY <1>1 DEF IInv, Shape
  <1>3. CacheSound'
    BY <1>1, <1>2 DEF RowsInv, CacheSound, BucketSound
  <1>4. \A q \in Requests : RequestSound(q)'
    BY <1>1, Untouched DEF RowsInv
  <1>. QED
    BY <1>1, <1>3, <1>4 DEF RowsInv

\* The provider revises its calendar: what was whole is so for one calendar more.
LEMMA RowsRevise == ASSUME IInv, RowsInv, Revise PROVE RowsInv'
  <1>1. /\ version' = version + 1 /\ version < Len(Calendars)
        /\ UNCHANGED <<cache, pc, window, month, fill, entries>>
    BY DEF Revise
  <1>2. /\ version \in Nat \ {0} /\ version' \in DOMAIN Calendars
        /\ version \in Int /\ version' \in Int /\ version <= version'
    BY <1>1, VersionsAre DEF RowsInv
  <1>3. ASSUME NEW b, NEW m, BucketSound(b, m, version) PROVE BucketSound(b, m, version')
    BY <1>1, <1>2, <1>3 DEF BucketSound
  <1>4. ASSUME NEW rows, NEW S, NEW since \in Int, Whole(rows, S, since, version)
        PROVE  Whole(rows, S, since, version')
    <2>1. since <= since
      OBVIOUS
    <2>. QED
      BY <1>2, <1>4, <2>1, WholeWidens
  <1>5. ASSUME NEW f, NEW m, FillSound(f, m, version) PROVE FillSound(f, m, version')
    <2>1. f.since \in 1..version' /\ f.since \in Int
      BY <1>1, <1>2, <1>5 DEF FillSound
    <2>2. ASSUME NEW i \in DOMAIN TilesOf(m)
          PROVE  TileSound(f.rows[i], f.todo[i], TilesOf(m)[i], f.since, version')
      <3>1. TileSound(f.rows[i], f.todo[i], TilesOf(m)[i], f.since, version)
        BY <1>5 DEF FillSound
      <3>. QED
        BY <1>4, <2>1, <3>1 DEF TileSound
    <2>. QED
      BY <1>5, <2>1, <2>2 DEF FillSound
  <1>6. CacheSound'
    BY <1>1, <1>3 DEF RowsInv, CacheSound
  <1>7. ASSUME NEW q \in Requests PROVE RequestSound(q)'
    <2>1. RequestSound(q) /\ 1 \in Int
      BY DEF RowsInv
    <2>. QED
      BY <1>1, <1>3, <1>4, <1>5, <2>1 DEF RequestSound
  <1>. QED
    BY <1>1, <1>2, <1>6, <1>7 DEF RowsInv

\* A step that touches nothing the invariant speaks of.
LEMMA RowsIdle ==
  ASSUME RowsInv, UNCHANGED <<version, cache, pc, window, month, fill, entries>>
  PROVE  RowsInv'
  <1>1. \A q \in Requests : RequestSound(q)'
    BY Untouched DEF RowsInv
  <1>2. CacheSound'
    BY CacheUntouched DEF RowsInv
  <1>. QED
    BY <1>1, <1>2 DEF RowsInv

LEMMA NextRows == IInv /\ RowsInv /\ [Next]_vars => RowsInv'
  <1>. SUFFICES ASSUME IInv, RowsInv, [Next]_vars PROVE RowsInv'
    OBVIOUS
  <1>1. ASSUME NEW r \in Requests, Work(r) PROVE RowsInv'
    BY <1>1, RowsNextMonth, RowsGet, RowsJoin, RowsAsk, RowsAskFails, RowsFetched, RowsStore,
       RowsFinish, RowsReturn DEF Work
  <1>2. ASSUME NEW r \in Requests, Start(r) \/ Abandon(r) PROVE RowsInv'
    BY <1>2, RowsStart, RowsIdle DEF Abandon
  <1>3. ASSUME NEW m \in Months, Expire(m) PROVE RowsInv'
    BY <1>3, RowsExpire
  <1>4. CASE Revise
    BY <1>4, RowsRevise
  <1>5. CASE UNCHANGED vars
    BY <1>5, RowsIdle DEF vars
  <1>. QED
    BY <1>1, <1>2, <1>3, <1>4, <1>5 DEF Next

\* Whatever was cached, filled, split, shared or revised on the way, an answer holds the
\* rows of its window, each once and in the order of their dates (Execute, calendar.go:94).
THEOREM AnswersAlwaysWhole == Spec => []AnswersAreWhole
  <1>1. Spec => [](IInv /\ RowsInv)
    BY InitInv, NextInv, InitRows, NextRows, PTL DEF Spec
  <1>2. IInv /\ RowsInv => AnswersAreWhole
    <2>. SUFFICES ASSUME IInv, RowsInv, NEW r \in Requests, pc[r] = "answer"
                  PROVE  LET rows == entries[r]
                             inWindow == {e \in Rows : /\ window[r][1] <= referenceDate(e)
                                                       /\ referenceDate(e) <= window[r][2]}
                         IN  /\ IsInjective(rows)
                             /\ ToSet(rows) \subseteq
                                   inWindow \intersect UNION {Calendars[k] : k \in 1..version}
                             /\ {e \in inWindow : \A k \in 1..version : e \in Calendars[k]}
                                    \subseteq ToSet(rows)
                             /\ \A i, j \in DOMAIN rows :
                                   i < j => referenceDate(rows[i]) <= referenceDate(rows[j])
      BY DEF AnswersAreWhole
    <2>. DEFINE rows == entries[r]
                W == WindowRows(window[r])
    <2>1. Once(rows) /\ Complete(ToSet(rows), W, 1, version) /\ InOrder(rows)
      BY DEF RowsInv, RequestSound, Whole
    <2>2. W = {e \in Rows : window[r][1] <= referenceDate(e) /\ referenceDate(e) <= window[r][2]}
      BY DEF WindowRows
    <2>. HIDE DEF W, rows
    <2>3. IsInjective(rows)
      BY <2>1 DEF Once
    <2>4. ToSet(rows) \subseteq W \intersect UNION {Calendars[k] : k \in 1..version}
      BY <2>1 DEF Complete
    <2>5. {e \in W : \A k \in 1..version : e \in Calendars[k]} \subseteq ToSet(rows)
      BY <2>1 DEF Complete
    <2>6. \A i, j \in DOMAIN rows : i < j => referenceDate(rows[i]) <= referenceDate(rows[j])
      BY <2>1 DEF InOrder
    <2>. QED
      BY <2>2, <2>3, <2>4, <2>5, <2>6 DEF rows
  <1>. QED
    BY <1>1, <1>2, PTL
=============================================================================
