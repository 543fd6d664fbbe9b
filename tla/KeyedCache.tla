------------------------------ MODULE KeyedCache ------------------------------
(***************************************************************************)
(* The in-process cache in front of the market-data provider: a map with   *)
(* an expiry per key, filled through singleflight.  Callers run Fill at    *)
(* the same time; the provider's data changes and its answers can fail.    *)
(*                                                                         *)
(* One action is what runs between two points where another goroutine can  *)
(* get in: the mutex of the map, the mutex of the singleflight group, and  *)
(* the call to the provider.  A datum is the version the provider had when *)
(* it answered; an answer is the version or an error.                      *)
(***************************************************************************)
EXTENDS Integers, FiniteSets

CONSTANTS
    Callers,  \* goroutines inside Fill at the same time
    NoCaller, \* "no call in flight"
    Keys,     \* cache keys
    TimeToLive,
    MaxSize,  \* 0 for no bound
    NoKey,    \* asked by a caller outside Fill
    Failed,   \* in place of a version: the error of a failed fetch
    MaxTime,    \* bound on the clock
    MaxVersion  \* bound on the provider's changes

ASSUME CacheParameters ==
    /\ NoCaller \notin Callers
    /\ NoKey \notin Keys
    /\ IsFiniteSet(Keys)
    /\ TimeToLive \in Nat
    /\ MaxSize \in Nat
    /\ Failed \notin Nat
    /\ MaxTime \in Nat
    /\ MaxVersion \in Nat

VARIABLES
    now,      \* the clock
    provider, \* the version of each key's data at the provider
    items,    \* the map: key -> [version, expires]
    flight,   \* singleflight.Group: key -> the caller that runs the function
    pc,       \* where each caller is inside Fill
    asked,    \* the key each caller asked for
    answer,   \* the value and error each caller is about to return
    \* History, for the properties only.
    since,    \* when the call began that answers a caller
    served,   \* the newest version Fill has returned for a key
    floor,    \* served, when the caller's Fill began
    failure   \* a fetch of the caller's key failed while it was inside Fill

cache   == <<items, flight>>
history == <<since, served, floor, failure>>
vars    == <<now, provider, cache, pc, asked, answer, history>>

-----------------------------------------------------------------------------
Versions == 0..MaxVersion

Entry == [version : Versions, expires : Nat]

Answer == [version : Versions \union {Failed}, expires : Nat]

NoAnswer == [version |-> Failed, expires |-> 0]

\* Running the function for everyone who waits on the same key.
Leading == {"recheck", "fetch", "store", "finish"}

TypeOK ==
    /\ now \in 0..MaxTime
    /\ provider \in [Keys -> Versions]
    /\ DOMAIN items \subseteq Keys
    /\ \A k \in DOMAIN items : items[k] \in Entry
    /\ flight \in [Keys -> Callers \union {NoCaller}]
    /\ pc \in [Callers -> {"idle", "miss", "wait", "answered"} \union Leading]
    /\ asked \in [Callers -> Keys \union {NoKey}]
    /\ answer \in [Callers -> Answer]
    /\ since \in [Callers -> 0..MaxTime]
    /\ served \in [Keys -> Versions]
    /\ floor \in [Callers -> Versions]
    /\ failure \in [Callers -> BOOLEAN]

Init ==
    /\ now = 0
    /\ provider = [k \in Keys |-> 0]
    /\ items = [k \in {} |-> NoAnswer]
    /\ flight = [k \in Keys |-> NoCaller]
    /\ pc = [c \in Callers |-> "idle"]
    /\ asked = [c \in Callers |-> NoKey]
    /\ answer = [c \in Callers |-> NoAnswer]
    /\ since = [c \in Callers |-> 0]
    /\ served = [k \in Keys |-> 0]
    /\ floor = [c \in Callers |-> 0]
    /\ failure = [c \in Callers |-> FALSE]

Goto(c, stage) == pc' = [pc EXCEPT ![c] = stage]

\* Mutant of Fresh: the expiry is not looked at.
Present(k) == k \in DOMAIN items

\* Get: time.Now().After(expires) is a miss.
Fresh(k) == k \in DOMAIN items /\ now <= items[k].expires

Newer(v, w) == IF v > w THEN v ELSE w

Serve(k, a) ==
    served' = [served EXCEPT ![k] = IF a.version = Failed THEN @ ELSE Newer(@, a.version)]

-----------------------------------------------------------------------------
\* Fill: the first look, before any coalescing.
Begin(c, k) ==
    /\ pc[c] = "idle"
    /\ asked' = [asked EXCEPT ![c] = k]
    /\ since' = [since EXCEPT ![c] = now]
    /\ floor' = [floor EXCEPT ![c] = served[k]]
    /\ failure' = [failure EXCEPT ![c] = FALSE]
    /\ IF Fresh(k)
       THEN /\ answer' = [answer EXCEPT ![c] = items[k]]
            /\ Serve(k, items[k])
            /\ Goto(c, "answered")
       ELSE Goto(c, "miss") /\ UNCHANGED <<answer, served>>
    /\ UNCHANGED <<now, provider, cache>>

\* Mutant of Join: every miss runs the function itself.
JoinNobody(c) ==
    /\ pc[c] = "miss"
    /\ Goto(c, "recheck")
    /\ flight' = [flight EXCEPT ![asked[c]] = c]
    /\ UNCHANGED <<now, provider, items, asked, answer, history>>

\* singleflight.Do: the first caller of a key runs the function, others wait for it.
Join(c) ==
    /\ pc[c] = "miss"
    /\ IF flight[asked[c]] = NoCaller
       THEN /\ flight' = [flight EXCEPT ![asked[c]] = c]
            /\ Goto(c, "recheck")
            /\ UNCHANGED since
       ELSE /\ since' = [since EXCEPT ![c] = since[flight[asked[c]]]]
            /\ Goto(c, "wait")
            /\ UNCHANGED flight
    /\ UNCHANGED <<now, provider, items, asked, answer, served, floor, failure>>

\* Mutant of Recheck: the second look is left out.
RecheckNothing(c) ==
    /\ pc[c] = "recheck"
    /\ Goto(c, "fetch")
    /\ UNCHANGED <<now, provider, cache, asked, answer, history>>

\* The second look, inside the flight: an earlier flight may have stored the key.
Recheck(c) ==
    /\ pc[c] = "recheck"
    /\ IF Fresh(asked[c])
       THEN answer' = [answer EXCEPT ![c] = items[asked[c]]] /\ Goto(c, "finish")
       ELSE Goto(c, "fetch") /\ UNCHANGED answer
    /\ UNCHANGED <<now, provider, cache, asked, history>>

\* fn: the provider answers with what it has now, or the fetch fails.
Fetch(c) ==
    /\ pc[c] = "fetch"
    /\ answer' = [answer EXCEPT ![c] = [version |-> provider[asked[c]], expires |-> 0]]
    /\ Goto(c, "store")
    /\ UNCHANGED <<now, provider, cache, asked, history>>

\* An error is not stored, so the next flight fetches again.
FetchFails(c) ==
    /\ pc[c] = "fetch"
    /\ Goto(c, "finish")
    /\ UNCHANGED <<now, provider, cache, asked, answer, history>>

Room == MaxSize = 0 \/ Cardinality(DOMAIN items) < MaxSize

\* Set: at capacity the map is cleared first, whether or not the key is in it.
Store(c) ==
    /\ pc[c] = "store"
    /\ LET k     == asked[c]
           entry == [answer[c] EXCEPT !.expires = now + TimeToLive]
           kept  == IF Room THEN DOMAIN items ELSE {}
       IN  /\ answer' = [answer EXCEPT ![c] = entry]
           /\ items' = [j \in kept \union {k} |-> IF j = k THEN entry ELSE items[j]]
    /\ Goto(c, "finish")
    /\ UNCHANGED <<now, provider, flight, asked, history>>

\* Mutant of Finish: the leader returns without waking the others.
FinishAlone(c) ==
    /\ pc[c] = "finish"
    /\ Goto(c, "answered")
    /\ flight' = [flight EXCEPT ![asked[c]] = NoCaller]
    /\ Serve(asked[c], answer[c])
    /\ UNCHANGED <<now, provider, items, asked, answer, since, floor, failure>>

\* The flight ends: everyone who waited gets the leader's value and error.
Finish(c) ==
    /\ pc[c] = "finish"
    /\ LET k == asked[c]
           sharing == {d \in Callers : d = c \/ (pc[d] = "wait" /\ asked[d] = k)}
       IN  /\ flight' = [flight EXCEPT ![k] = NoCaller]
           /\ answer' = [d \in Callers |-> IF d \in sharing THEN answer[c] ELSE answer[d]]
           /\ pc' = [d \in Callers |-> IF d \in sharing THEN "answered" ELSE pc[d]]
           /\ Serve(k, answer[c])
           /\ failure' = [d \in Callers |->
                             failure[d] \/ (asked[d] = k /\ answer[c].version = Failed)]
    /\ UNCHANGED <<now, provider, items, asked, since, floor>>

Return(c) ==
    /\ pc[c] = "answered"
    /\ Goto(c, "idle")
    /\ asked' = [asked EXCEPT ![c] = NoKey]
    /\ answer' = [answer EXCEPT ![c] = NoAnswer]
    /\ since' = [since EXCEPT ![c] = 0]
    /\ floor' = [floor EXCEPT ![c] = 0]
    /\ failure' = [failure EXCEPT ![c] = FALSE]
    /\ UNCHANGED <<now, provider, cache, served>>

-----------------------------------------------------------------------------
Tick ==
    /\ now < MaxTime
    /\ now' = now + 1
    /\ UNCHANGED <<provider, cache, pc, asked, answer, history>>

ProviderChanges(k) ==
    /\ provider[k] < MaxVersion
    /\ provider' = [provider EXCEPT ![k] = @ + 1]
    /\ UNCHANGED <<now, cache, pc, asked, answer, history>>

Fill(c) ==
    \/ Join(c) \/ Recheck(c)
    \/ Fetch(c) \/ FetchFails(c)
    \/ Store(c) \/ Finish(c) \/ Return(c)

Next ==
    \/ \E c \in Callers : Fill(c) \/ \E k \in Keys : Begin(c, k)
    \/ \E k \in Keys : ProviderChanges(k)
    \/ Tick

Spec == Init /\ [][Next]_vars

\* A goroutine that can run does run, and the provider's client has a timeout, so a
\* call to it ends, one way or the other.  Nobody has to call Fill.
FairSpec == Spec /\ \A c \in Callers : WF_vars(Fill(c))

-----------------------------------------------------------------------------
\* Misses of a key are coalesced (keyed.go:60) and checked again inside the flight
\* (keyed.go:67): the provider is never called for a key the cache can answer, and
\* never by two callers for the same key.
FetchesAreNeeded ==
    \A c \in Callers :
        pc[c] \in {"fetch", "store"} =>
            /\ ~Fresh(asked[c])
            /\ \A d \in Callers \ {c} : pc[d] \in {"fetch", "store"} => asked[d] # asked[c]

\* "staleness must stay bounded" (main.go:85): no caller gets a value that had expired
\* when the call that answers it began, its own or the one it was coalesced into.
AnswersWereFresh ==
    \A c \in Callers :
        pc[c] = "answered" /\ answer[c].version # Failed => answer[c].expires >= since[c]

\* Prices do not jump back: once some Fill of a key has returned a version, no Fill
\* that begins later returns an older one, however calls overlap and expire.
ReadsAreMonotonic ==
    \A c \in Callers :
        pc[c] = "answered" /\ answer[c].version # Failed => answer[c].version >= floor[c]

\* "Errors are not cached, so a failed fetch is retried by the next caller"
\* (cached/history.go:26): an error is only seen by callers whose Fill overlapped the
\* call that failed.
ErrorsAreNotRemembered ==
    \A c \in Callers :
        pc[c] = "answered" /\ answer[c].version = Failed => failure[c]

\* The map never outgrows its bound (keyed.go:16).
WithinMaxSize == MaxSize = 0 \/ Cardinality(DOMAIN items) <= MaxSize

\* Every Fill returns: a flight always ends and wakes all who wait on it.
EveryFillReturns == \A c \in Callers : pc[c] # "idle" ~> pc[c] = "idle"
=============================================================================
