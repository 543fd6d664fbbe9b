------------------------------ MODULE TtlCache ------------------------------
(***************************************************************************)
(* The cache of a single value with a shorter life for a degraded one,     *)
(* behind the symbol lists of the search, the market sentiment and the     *)
(* popular stocks.  Callers run Fill at the same time.                     *)
(*                                                                         *)
(* One action is what runs between two points where another goroutine can  *)
(* get in: the mutex of the value, the mutex of the singleflight group,    *)
(* and the fill function, which calls the provider.                        *)
(***************************************************************************)
EXTENDS Integers

CONSTANTS
    Callers,     \* goroutines inside Fill at the same time
    NoCaller,    \* "no call in flight"
    NoAnswer,    \* held by a caller that has none
    Outcomes,    \* what the fill function can return, records [value, healthy]
    TimeToLive,
    NegativeTimeToLive,
    MaxTime      \* bound on the clock

ASSUME TtlParameters ==
    /\ NoCaller \notin Callers
    /\ TimeToLive \in Nat \ {0}
    /\ NegativeTimeToLive \in Nat \ {0}
    /\ MaxTime \in Nat
    /\ \A o \in Outcomes : o = [value |-> o.value, healthy |-> o.healthy] /\ o.healthy \in BOOLEAN

VARIABLES
    now,     \* the clock
    item,    \* value, negative (as healthy) and expires
    flight,  \* singleflight.Group: the caller that runs the function
    pc,      \* where each caller is inside Fill
    answer,  \* what a caller is about to return
    \* History, for the properties only.
    since,   \* when the call began that answers a caller
    failed   \* when the function last reported an unhealthy value, -1 for never

vars == <<now, item, flight, pc, answer, since, failed>>

Item(o, t) == [value |-> o.value, healthy |-> o.healthy, until |-> t]

Items == [value : {o.value : o \in Outcomes}, healthy : BOOLEAN, until : Nat]

\* The zero value, which time.Now().Before(c.expires) never finds valid.
Empty == [value |-> NoAnswer, healthy |-> TRUE, until |-> 0]

ASSUME NoAnswerIsNoItem == NoAnswer \notin Items \union {Empty}

Stages == {"idle", "miss", "wait", "recheck", "run", "set", "finish", "answered"}

TypeOK ==
    /\ now \in 0..MaxTime
    /\ item \in Items \union {Empty}
    /\ flight \in Callers \union {NoCaller}
    /\ pc \in [Callers -> Stages]
    /\ answer \in [Callers -> Items \union {Empty, NoAnswer}]
    /\ since \in [Callers -> 0..MaxTime]
    /\ failed \in {-1} \union 0..MaxTime

Init ==
    /\ now = 0
    /\ item = Empty
    /\ flight = NoCaller
    /\ pc = [c \in Callers |-> "idle"]
    /\ answer = [c \in Callers |-> NoAnswer]
    /\ since = [c \in Callers |-> 0]
    /\ failed = -1

Goto(c, stage) == pc' = [pc EXCEPT ![c] = stage]

\* get: time.Now().Before(c.expires).
Valid == now < item.until

-----------------------------------------------------------------------------
\* The first look, before any coalescing.
Begin(c) ==
    /\ pc[c] = "idle"
    /\ since' = [since EXCEPT ![c] = now]
    /\ IF Valid
       THEN answer' = [answer EXCEPT ![c] = item] /\ Goto(c, "answered")
       ELSE UNCHANGED answer /\ Goto(c, "miss")
    /\ UNCHANGED <<now, item, flight, failed>>

\* singleflight.Do: the first caller runs the function, the others wait for it.
Join(c) ==
    /\ pc[c] = "miss"
    /\ IF flight = NoCaller
       THEN flight' = c /\ Goto(c, "recheck") /\ UNCHANGED since
       ELSE /\ since' = [since EXCEPT ![c] = since[flight]]
            /\ Goto(c, "wait")
            /\ UNCHANGED flight
    /\ UNCHANGED <<now, item, answer, failed>>

\* Mutant of Recheck: the second look is left out.
RecheckNothing(c) ==
    /\ pc[c] = "recheck"
    /\ Goto(c, "run")
    /\ UNCHANGED <<now, item, flight, answer, since, failed>>

\* The second look, inside the flight: an earlier flight may have set the value.
Recheck(c) ==
    /\ pc[c] = "recheck"
    /\ IF Valid
       THEN answer' = [answer EXCEPT ![c] = item] /\ Goto(c, "finish")
       ELSE UNCHANGED answer /\ Goto(c, "run")
    /\ UNCHANGED <<now, item, flight, since, failed>>

\* fn: asks the provider, and says whether the value is worth keeping.
Run(c, o) ==
    /\ pc[c] = "run"
    /\ answer' = [answer EXCEPT ![c] = Item(o, 0)]
    /\ failed' = IF o.healthy THEN failed ELSE now
    /\ Goto(c, "set")
    /\ UNCHANGED <<now, item, flight, since>>

\* Mutant of Life: a degraded value lives as long as a healthy one.
SameLife(o) == TimeToLive

\* The time to live that Set and SetNegative give.
Life(o) == IF o.healthy THEN TimeToLive ELSE NegativeTimeToLive

\* Set or SetNegative: the life begins when the value is stored.
Set(c) ==
    /\ pc[c] = "set"
    /\ item' = Item(answer[c], now + Life(answer[c]))
    /\ answer' = [answer EXCEPT ![c] = item']
    /\ Goto(c, "finish")
    /\ UNCHANGED <<now, flight, since, failed>>

\* The flight ends: everyone who waited gets the leader's value and health.
Finish(c) ==
    /\ pc[c] = "finish"
    /\ LET sharing == {d \in Callers : d = c \/ pc[d] = "wait"}
       IN  /\ answer' = [d \in Callers |-> IF d \in sharing THEN answer[c] ELSE answer[d]]
           /\ pc' = [d \in Callers |-> IF d \in sharing THEN "answered" ELSE pc[d]]
    /\ flight' = NoCaller
    /\ UNCHANGED <<now, item, since, failed>>

Return(c) ==
    /\ pc[c] = "answered"
    /\ Goto(c, "idle")
    /\ answer' = [answer EXCEPT ![c] = NoAnswer]
    /\ since' = [since EXCEPT ![c] = 0]
    /\ UNCHANGED <<now, item, flight, failed>>

Tick ==
    /\ now < MaxTime
    /\ now' = now + 1
    /\ UNCHANGED <<item, flight, pc, answer, since, failed>>

\* What a caller does without the provider.
Advance(c) == Join(c) \/ Recheck(c) \/ Set(c) \/ Finish(c) \/ Return(c)

Fill(c) == Advance(c) \/ \E o \in Outcomes : Run(c, o)

Next == Tick \/ \E c \in Callers : Begin(c) \/ Fill(c)

Spec == Init /\ [][Next]_vars

-----------------------------------------------------------------------------
\* A caller has its answer once the flight is over; what its leader computed is not one.
Windows == INSTANCE CacheWindows WITH
    window  <- item,
    answers <- [c \in Callers |-> IF pc[c] = "answered" THEN answer[c] ELSE NoAnswer]

\* "a fill function runs at most once per expiry window" (pkg/cache/ttl.go:12) and "callers
\* get a consistent answer" (ttl.go:96): callers, flights and expiries together are no more
\* than windows that follow one another, each opened by one run.
ImplementsWindows == Windows!Spec

\* "a failed/degraded fill is retried sooner" (ttl.go:34): whoever is told that the data is
\* unavailable asked, or joined a call that began, before the negative life of a run that
\* failed was over.
OutagesAreForgotten ==
    \A c \in Callers :
        pc[c] = "answered" /\ ~answer[c].healthy =>
            failed >= 0 /\ answer[c].until > since[c]
                        /\ answer[c].until <= now + NegativeTimeToLive
=============================================================================
