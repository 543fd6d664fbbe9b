--------------------------- MODULE KeyedCacheProofs ---------------------------
(***************************************************************************)
(* Theorems about KeyedCache, for any callers, keys, expiry and bound.     *)
(*                                                                         *)
(* The inductive invariant says who is inside which flight (Flights), that *)
(* whoever is about to call the provider holds the only flight of a key    *)
(* that is not fresh (Fetching), and where answers come from: not expired  *)
(* (Fresher) and not older than what was already returned (Ordered).       *)
(***************************************************************************)
EXTENDS KeyedCache, FiniteSetTheorems, TLAPS

Inside(c) == pc[c] # "idle"

\* Callers and the singleflight group agree on who leads and who waits.
Flights ==
    /\ \A c \in Callers : Inside(c) => asked[c] \in Keys
    /\ \A c \in Callers : pc[c] \in Leading => flight[asked[c]] = c
    /\ \A k \in Keys : flight[k] # NoCaller => pc[flight[k]] \in Leading /\ asked[flight[k]] = k
    /\ \A c \in Callers : pc[c] = "wait" =>
          /\ flight[asked[c]] # NoCaller
          /\ since[c] = since[flight[asked[c]]]

\* No entry is good while its key is fetched.
Fetching == \A c \in Callers : pc[c] \in {"fetch", "store"} => ~Fresh(asked[c])

\* What a caller has in hand before somebody answers it.
Empty == \A c \in Callers : pc[c] \in {"idle", "miss", "wait", "recheck", "fetch"} => answer[c] = NoAnswer

Answered(c) == pc[c] \in {"finish", "answered"} /\ answer[c].version # Failed

Fresher ==
    \A c \in Callers :
        /\ since[c] <= now
        /\ Answered(c) => answer[c].expires >= since[c]

\* Versions only grow from what was returned, to what is stored, to the provider's.
Ordered ==
    /\ \A k \in Keys : served[k] <= provider[k]
    /\ \A k \in DOMAIN items : served[k] <= items[k].version /\ items[k].version <= provider[k]
    /\ \A c \in Callers : Inside(c) => floor[c] <= served[asked[c]]
    /\ \A c \in Callers : pc[c] = "store" =>
          /\ answer[c].version \in Versions
          /\ served[asked[c]] <= answer[c].version
          /\ answer[c].version <= provider[asked[c]]
    /\ \A c \in Callers : pc[c] = "finish" /\ answer[c].version # Failed =>
          /\ served[asked[c]] <= answer[c].version
          /\ answer[c].version <= provider[asked[c]]
          /\ asked[c] \in DOMAIN items => items[asked[c]].version = answer[c].version
    /\ \A c \in Callers : pc[c] = "answered" /\ answer[c].version # Failed =>
          answer[c].version >= floor[c]

IInv == TypeOK /\ Flights /\ Fetching /\ Empty /\ Fresher /\ Ordered

\* The constants, as the provers need them.
LEMMA Naturals0 == Versions \subseteq Nat /\ Failed \notin Versions
  BY CacheParameters DEF Versions

-----------------------------------------------------------------------------
\* The initial state is typed and satisfies the rest of the invariant.
LEMMA InitInv == Init => IInv
  BY CacheParameters DEF Init, IInv, TypeOK, Flights, Fetching, Empty, Fresher, Ordered, Inside,
     Answered, Answer, Versions, NoAnswer, Leading

\* Begin(c, k): a hit answers at once, a miss goes on.
LEMMA BeginInv ==
  ASSUME IInv, NEW c \in Callers, NEW k \in Keys, Begin(c, k)
  PROVE  IInv'
  <1>. USE CacheParameters, Naturals0
  <1>1. TypeOK'
    <2>1. Fresh(k) => items[k] \in Answer /\ items[k].version \in Versions
      BY DEF IInv, TypeOK, Fresh, Entry, Answer
    <2>2. served' \in [Keys -> Versions]
      BY <2>1 DEF Begin, IInv, TypeOK, Serve, Newer
    <2>3. answer' \in [Callers -> Answer]
      BY <2>1 DEF Begin, IInv, TypeOK
    <2>4. asked' \in [Callers -> Keys \union {NoKey}]
      BY DEF Begin, IInv, TypeOK
    <2>5. since' \in [Callers -> 0..MaxTime] /\ floor' \in [Callers -> Versions]
      BY DEF Begin, IInv, TypeOK
    <2>6. failure' \in [Callers -> BOOLEAN]
      BY DEF Begin, IInv, TypeOK
    <2>7. pc' \in [Callers -> {"idle", "miss", "wait", "answered"} \union Leading]
      BY DEF Begin, IInv, TypeOK, Goto
    <2>. QED
      BY <2>2, <2>3, <2>4, <2>5, <2>6, <2>7 DEF Begin, IInv, TypeOK, cache
  <1>2. Flights'
    BY DEF Begin, IInv, TypeOK, Flights, Inside, Goto, cache, Leading
  <1>3. Fetching' /\ Empty'
    BY DEF Begin, IInv, TypeOK, Fetching, Empty, Goto, Fresh, cache, NoAnswer
  <1>4. Fresher'
    BY DEF Begin, IInv, TypeOK, Fresher, Answered, Goto, Fresh, cache, Entry
  <1>5. Ordered'
    BY DEF Begin, IInv, TypeOK, Ordered, Inside, Goto, Fresh, Fetching, Flights, Serve, Newer,
       cache, Entry, Versions
  <1>. QED
    BY <1>1, <1>2, <1>3, <1>4, <1>5 DEF IInv

\* Join(c): a leader has a flight of its own, a waiter shares the leader's start.
LEMMA JoinInv ==
  ASSUME IInv, NEW c \in Callers, Join(c)
  PROVE  IInv'
  <1>. USE CacheParameters, Naturals0
  <1>1. asked[c] \in Keys /\ pc[c] = "miss"
    BY DEF IInv, Flights, Inside, Join
  <1>2. flight[asked[c]] # NoCaller => flight[asked[c]] \in Callers /\ pc[flight[asked[c]]] \in Leading
    BY <1>1 DEF IInv, TypeOK, Flights
  <1>3. TypeOK'
    BY <1>1, <1>2 DEF Join, IInv, TypeOK, Goto, Leading
  <1>4. Flights'
    BY <1>1, <1>2 DEF Join, IInv, TypeOK, Flights, Inside, Goto, Leading
  <1>5. Fetching' /\ Empty'
    BY <1>1 DEF Join, IInv, TypeOK, Fetching, Empty, Goto, Fresh
  <1>6. Fresher'
    BY <1>1, <1>2 DEF Join, IInv, TypeOK, Fresher, Answered, Goto
  <1>7. Ordered'
    BY <1>1 DEF Join, IInv, TypeOK, Ordered, Inside, Goto
  <1>. QED
    BY <1>3, <1>4, <1>5, <1>6, <1>7 DEF IInv

\* Recheck(c): the leader's second look.
LEMMA RecheckInv ==
  ASSUME IInv, NEW c \in Callers, Recheck(c)
  PROVE  IInv'
  <1>. USE CacheParameters, Naturals0
  <1>1. asked[c] \in Keys /\ pc[c] = "recheck"
    BY DEF IInv, Flights, Inside, Recheck
  <1>2. Fresh(asked[c]) => items[asked[c]] \in Answer
    BY DEF IInv, TypeOK, Fresh, Entry, Answer
  <1>3. TypeOK'
    BY <1>1, <1>2 DEF Recheck, IInv, TypeOK, Goto, Leading, cache, history
  <1>4. Flights'
    BY <1>1 DEF Recheck, IInv, TypeOK, Flights, Inside, Goto, Leading, cache, history
  <1>5. Fetching' /\ Empty'
    BY <1>1 DEF Recheck, IInv, TypeOK, Fetching, Empty, Goto, Fresh, cache
  <1>6. Fresher'
    BY <1>1 DEF Recheck, IInv, TypeOK, Fresher, Answered, Goto, Fresh, Entry, cache, history
  <1>7. Ordered'
    BY <1>1 DEF Recheck, IInv, TypeOK, Ordered, Inside, Goto, Fresh, Entry, cache, history
  <1>. QED
    BY <1>3, <1>4, <1>5, <1>6, <1>7 DEF IInv

\* Fetch(c): the provider's version is the newest there is.
LEMMA FetchInv ==
  ASSUME IInv, NEW c \in Callers, Fetch(c)
  PROVE  IInv'
  <1>. USE CacheParameters, Naturals0
  <1>1. asked[c] \in Keys /\ pc[c] = "fetch"
    BY DEF IInv, Flights, Inside, Fetch
  <1>2. TypeOK'
    BY <1>1 DEF Fetch, IInv, TypeOK, Goto, Leading, Answer, cache, history
  <1>3. Flights'
    BY <1>1 DEF Fetch, IInv, TypeOK, Flights, Inside, Goto, Leading, cache, history
  <1>4. Fetching' /\ Empty'
    BY <1>1 DEF Fetch, IInv, TypeOK, Fetching, Empty, Goto, Fresh, cache
  <1>5. Fresher'
    BY <1>1 DEF Fetch, IInv, TypeOK, Fresher, Answered, Goto, cache, history
  <1>6. Ordered'
    <2>1. answer'[c].version = provider[asked[c]]
      BY DEF Fetch, IInv, TypeOK
    <2>2. provider[asked[c]] \in Versions /\ served[asked[c]] <= provider[asked[c]]
      BY <1>1 DEF IInv, TypeOK, Ordered
    <2>3. \A d \in Callers \ {c} : answer'[d] = answer[d] /\ pc'[d] = pc[d]
      BY DEF Fetch, IInv, TypeOK, Goto
    <2>. QED
      BY <1>1, <2>1, <2>2, <2>3 DEF Fetch, IInv, TypeOK, Ordered, Inside, Goto, cache, history, Versions
  <1>. QED
    BY <1>2, <1>3, <1>4, <1>5, <1>6 DEF IInv

\* FetchFails(c): nothing is stored and there is no version to hand out.
LEMMA FetchFailsInv ==
  ASSUME IInv, NEW c \in Callers, FetchFails(c)
  PROVE  IInv'
  <1>. USE CacheParameters, Naturals0
  <1>1. asked[c] \in Keys /\ pc[c] = "fetch" /\ answer[c].version = Failed
    BY DEF IInv, Flights, Inside, Empty, NoAnswer, FetchFails
  <1>2. TypeOK'
    BY <1>1 DEF FetchFails, IInv, TypeOK, Goto, Leading, cache, history
  <1>3. Flights'
    BY <1>1 DEF FetchFails, IInv, TypeOK, Flights, Inside, Goto, Leading, cache, history
  <1>4. Fetching' /\ Empty'
    BY <1>1 DEF FetchFails, IInv, TypeOK, Fetching, Empty, Goto, Fresh, cache
  <1>5. Fresher'
    BY <1>1 DEF FetchFails, IInv, TypeOK, Fresher, Answered, Goto, cache, history
  <1>6. Ordered'
    BY <1>1 DEF FetchFails, IInv, TypeOK, Ordered, Inside, Goto, cache, history
  <1>. QED
    BY <1>2, <1>3, <1>4, <1>5, <1>6 DEF IInv

\* Store(c): the entry of c's key is the leader's answer; others stay or are dropped.
LEMMA StoreInv ==
  ASSUME IInv, NEW c \in Callers, Store(c)
  PROVE  IInv'
  <1>. USE CacheParameters, Naturals0
  <1>. DEFINE k == asked[c]
              entry == [answer[c] EXCEPT !.expires = now + TimeToLive]
  <1>1. k \in Keys /\ pc[c] = "store" /\ flight[k] = c
    BY DEF IInv, Flights, Inside, Leading, Store
  <1>2. entry \in Entry /\ entry.version = answer[c].version /\ entry.expires = now + TimeToLive
    BY <1>1 DEF IInv, TypeOK, Ordered, Answer, Entry
  <1>3. /\ DOMAIN items' \subseteq DOMAIN items \union {k}
        /\ k \in DOMAIN items' /\ items'[k] = entry
        /\ \A j \in DOMAIN items' \ {k} : j \in DOMAIN items /\ items'[j] = items[j]
    BY DEF Store
  <1>4. answer' = [answer EXCEPT ![c] = entry]
    BY DEF Store
  <1>5. TypeOK'
    BY <1>1, <1>2, <1>3, <1>4 DEF Store, IInv, TypeOK, Goto, Leading, history, Entry, Answer
  <1>6. Flights'
    BY <1>1 DEF Store, IInv, TypeOK, Flights, Inside, Goto, Leading, history
  <1>7. Fetching'
    <2>. SUFFICES ASSUME NEW d \in Callers, pc'[d] \in {"fetch", "store"}
                  PROVE  ~Fresh(asked[d])'
      BY DEF Fetching
    <2>1. d # c /\ pc[d] \in {"fetch", "store"}
      BY DEF Store, IInv, TypeOK, Goto
    <2>2. asked[d] # k
      BY <1>1, <2>1 DEF IInv, Flights, Leading
    <2>. QED
      BY <1>3, <2>1, <2>2 DEF Store, IInv, Fetching, Fresh
  <1>8. Empty'
    BY <1>1 DEF Store, IInv, TypeOK, Empty, Goto
  <1>9. Fresher'
    BY <1>1, <1>2, <1>4 DEF Store, IInv, TypeOK, Fresher, Answered, Goto, history
  <1>10. Ordered'
    <2>1. \A d \in Callers \ {c} : answer'[d] = answer[d] /\ pc'[d] = pc[d]
      BY DEF Store, IInv, TypeOK, Goto
    <2>2. \A d \in Callers \ {c} : pc[d] = "finish" => asked[d] # k
      BY <1>1 DEF IInv, Flights, Leading
    <2>3. answer'[c] = entry /\ pc'[c] = "finish"
      BY <1>4 DEF Store, IInv, TypeOK, Goto
    <2>. QED
      BY <1>1, <1>2, <1>3, <2>1, <2>2, <2>3 DEF Store, IInv, TypeOK, Ordered, Inside, history
  <1>. QED
    BY <1>5, <1>6, <1>7, <1>8, <1>9, <1>10 DEF IInv

\* Finish(c): the waiters of the flight, who share its start, share its answer.
LEMMA FinishInv ==
  ASSUME IInv, NEW c \in Callers, Finish(c)
  PROVE  IInv'
  <1>. USE CacheParameters, Naturals0
  <1>. DEFINE k == asked[c]
              sharing == {d \in Callers : d = c \/ (pc[d] = "wait" /\ asked[d] = k)}
  <1>1. k \in Keys /\ pc[c] = "finish" /\ flight[k] = c
    BY DEF IInv, Flights, Inside, Leading, Finish
  <1>2. \A d \in sharing : /\ pc'[d] = "answered" /\ answer'[d] = answer[c]
                           /\ asked[d] = k /\ since[d] = since[c] /\ Inside(d)
    BY <1>1 DEF Finish, IInv, TypeOK, Flights, Inside
  <1>3. \A d \in Callers \ sharing : /\ pc'[d] = pc[d] /\ answer'[d] = answer[d]
                                     /\ pc[d] = "wait" => asked[d] # k
                                     /\ d # c
    BY DEF Finish, IInv, TypeOK
  <1>4. answer[c].version # Failed =>
           answer[c].version \in Versions /\ served'[k] = answer[c].version
    BY <1>1 DEF Finish, IInv, TypeOK, Ordered, Answer, Serve, Newer, Versions
  <1>5. answer[c].version = Failed => served' = served
    BY <1>1 DEF Finish, IInv, TypeOK, Serve
  <1>6. \A j \in Keys : /\ j # k => served'[j] = served[j]
                        /\ served'[j] \in Versions /\ served[j] <= served'[j]
    BY <1>1, <1>4, <1>5 DEF Finish, IInv, TypeOK, Serve, Newer, Versions
  <1>7. TypeOK'
    <2>1. served' \in [Keys -> Versions]
      BY <1>6 DEF Finish, Serve, IInv, TypeOK
    <2>2. /\ answer' \in [Callers -> Answer]
          /\ pc' \in [Callers -> {"idle", "miss", "wait", "answered"} \union Leading]
          /\ failure' \in [Callers -> BOOLEAN]
          /\ flight' \in [Keys -> Callers \union {NoCaller}]
      BY DEF Finish, IInv, TypeOK
    <2>. QED
      BY <2>1, <2>2 DEF Finish, IInv, TypeOK
  <1>8. Flights'
    BY <1>1, <1>2, <1>3 DEF Finish, IInv, TypeOK, Flights, Inside, Leading
  <1>9. Fetching' /\ Empty'
    BY <1>2, <1>3 DEF Finish, IInv, Fetching, Empty, Fresh
  <1>10. Fresher'
    BY <1>1, <1>2, <1>3 DEF Finish, IInv, TypeOK, Fresher, Answered
  <1>11. Ordered'
    <2>1. (\A j \in Keys : served[j] <= provider[j])'
      BY <1>1, <1>4, <1>5, <1>6 DEF Finish, IInv, TypeOK, Ordered
    <2>2. (\A j \in DOMAIN items : served[j] <= items[j].version /\ items[j].version <= provider[j])'
      <3>. SUFFICES ASSUME NEW j \in DOMAIN items
                    PROVE  served'[j] <= items[j].version /\ items[j].version <= provider[j]
        BY DEF Finish
      <3>1. j \in Keys /\ served[j] <= items[j].version /\ items[j].version <= provider[j]
        BY DEF IInv, TypeOK, Ordered
      <3>2. j = k /\ answer[c].version # Failed => items[j].version = answer[c].version
        BY <1>1 DEF IInv, Ordered
      <3>3. items[j].version \in Versions
        BY DEF IInv, TypeOK, Entry
      <3>. QED
        BY <1>4, <1>5, <1>6, <3>1, <3>2, <3>3 DEF Versions
    <2>3. (\A d \in Callers : Inside(d) => floor[d] <= served[asked[d]])'
      BY <1>2, <1>3, <1>6 DEF Finish, IInv, TypeOK, Ordered, Inside, Flights, Versions
    <2>4. \A d \in Callers : pc'[d] \in {"store", "finish"} => asked[d] # k /\ pc'[d] = pc[d]
                                                               /\ answer'[d] = answer[d]
      BY <1>1, <1>2, <1>3 DEF IInv, Flights, Leading
    <2>5. \A d \in Callers : pc'[d] = "answered" /\ answer'[d].version # Failed =>
             answer'[d].version >= floor[d]
      BY <1>1, <1>2, <1>3, <1>4 DEF IInv, TypeOK, Ordered, Versions
    <2>6. \A d \in Callers : pc'[d] \in {"store", "finish"} => served'[asked[d]] = served[asked[d]]
      BY <2>4, <1>6 DEF IInv, Flights, Inside
    <2>. QED
      BY <2>1, <2>2, <2>3, <2>4, <2>5, <2>6 DEF Finish, IInv, Ordered
  <1>. QED
    BY <1>7, <1>8, <1>9, <1>10, <1>11 DEF IInv

\* Return(c), Tick and ProviderChanges(k): nobody's answer changes.
LEMMA ReturnInv ==
  ASSUME IInv, NEW c \in Callers, Return(c)
  PROVE  IInv'
  <1>. USE CacheParameters, Naturals0
  <1>1. pc[c] = "answered" /\ asked[c] \in Keys
    BY DEF Return, IInv, Flights, Inside
  <1>2. TypeOK'
    BY DEF Return, IInv, TypeOK, Goto, cache, Versions, Answer, NoAnswer
  <1>3. Flights'
    BY <1>1 DEF Return, IInv, TypeOK, Flights, Inside, Goto, cache, Leading
  <1>4. Fetching' /\ Empty'
    BY DEF Return, IInv, TypeOK, Fetching, Empty, Goto, Fresh, cache
  <1>5. Fresher'
    BY DEF Return, IInv, TypeOK, Fresher, Answered, Goto
  <1>6. Ordered'
    BY DEF Return, IInv, TypeOK, Ordered, Inside, Goto, cache
  <1>. QED
    BY <1>2, <1>3, <1>4, <1>5, <1>6 DEF IInv

LEMMA TickInv ==
  ASSUME IInv, Tick
  PROVE  IInv'
  <1>1. TypeOK' /\ Flights' /\ Empty' /\ Ordered'
    BY CacheParameters DEF Tick, IInv, TypeOK, Flights, Empty, Ordered, Inside, cache, history
  <1>2. Fetching'
    BY CacheParameters DEF Tick, IInv, TypeOK, Fetching, Fresh, Entry, cache
  <1>3. Fresher'
    BY CacheParameters DEF Tick, IInv, TypeOK, Fresher, Answered, history
  <1>. QED
    BY <1>1, <1>2, <1>3 DEF IInv

LEMMA ProviderInv ==
  ASSUME IInv, NEW k \in Keys, ProviderChanges(k)
  PROVE  IInv'
  <1>. USE CacheParameters, Naturals0
  <1>1. TypeOK'
    BY DEF ProviderChanges, IInv, TypeOK, Versions, cache, history
  <1>2. Flights' /\ Fetching' /\ Empty' /\ Fresher'
    BY DEF ProviderChanges, IInv, Flights, Fetching, Empty, Fresher, Answered, Fresh, Inside,
       cache, history
  <1>3. \A j \in Keys : /\ provider'[j] \in Versions /\ provider[j] \in Versions
                        /\ provider[j] <= provider'[j]
    BY DEF ProviderChanges, IInv, TypeOK, Versions
  <1>4. Ordered'
    <2>1. (\A j \in Keys : served[j] <= provider[j])'
      BY <1>3 DEF ProviderChanges, IInv, TypeOK, Ordered, history, Versions
    <2>2. (\A j \in DOMAIN items : served[j] <= items[j].version /\ items[j].version <= provider[j])'
      BY <1>3 DEF ProviderChanges, IInv, TypeOK, Ordered, history, cache, Versions, Entry
    <2>3. \A d \in Callers : pc[d] \in {"store", "finish"} /\ answer[d].version # Failed =>
             asked[d] \in Keys /\ answer[d].version \in Versions
      BY DEF IInv, TypeOK, Flights, Inside, Answer
    <2>. QED
      BY <1>3, <2>1, <2>2, <2>3 DEF ProviderChanges, IInv, Ordered, Inside, history, cache, Versions
  <1>. QED
    BY <1>1, <1>2, <1>4 DEF IInv

LEMMA NextInv == IInv /\ [Next]_vars => IInv'
  <1>. SUFFICES ASSUME IInv, [Next]_vars
                PROVE  IInv'
    OBVIOUS
  <1>1. CASE \E c \in Callers : Fill(c)
    BY <1>1, JoinInv, RecheckInv, FetchInv, FetchFailsInv, StoreInv, FinishInv, ReturnInv DEF Fill
  <1>2. CASE \E c \in Callers, k \in Keys : Begin(c, k)
    BY <1>2, BeginInv
  <1>3. CASE Tick \/ \E k \in Keys : ProviderChanges(k)
    BY <1>3, TickInv, ProviderInv
  <1>4. CASE UNCHANGED vars
    BY <1>4 DEF vars, cache, history, IInv, TypeOK, Flights, Fetching, Empty, Fresher, Ordered,
       Inside, Answered, Fresh
  <1>. QED
    BY <1>1, <1>2, <1>3, <1>4 DEF Next

THEOREM Invariance == Spec => []IInv
  BY InitInv, NextInv, PTL DEF Spec

-----------------------------------------------------------------------------
\* Callers, flights and entries are well typed (NewKeyed, Get, Set, Fill).
THEOREM CacheTyping == Spec => []TypeOK
  BY Invariance, PTL DEF IInv

\* A provider call is made only for a key that is not fresh, by one caller at a time:
\* the leader of the only flight of that key.
THEOREM FetchesNeeded == Spec => []FetchesAreNeeded
  <1>1. IInv => FetchesAreNeeded
    BY DEF IInv, Fetching, Flights, Leading, FetchesAreNeeded
  <1>. QED
    BY <1>1, Invariance, PTL

\* No answer had expired when the call that answers began.
THEOREM FreshAnswers == Spec => []AnswersWereFresh
  <1>1. IInv => AnswersWereFresh
    BY DEF IInv, Fresher, Answered, AnswersWereFresh
  <1>. QED
    BY <1>1, Invariance, PTL

\* Fill never returns an older version than one it had returned before the call began.
THEOREM MonotonicReads == Spec => []ReadsAreMonotonic
  <1>1. IInv => ReadsAreMonotonic
    BY DEF IInv, Ordered, ReadsAreMonotonic
  <1>. QED
    BY <1>1, Invariance, PTL

\* An error reaches only callers whose Fill overlapped the call that failed.
THEOREM ErrorsNotRemembered == Spec => []ErrorsAreNotRemembered
  <1>. USE CacheParameters, Naturals0
  <1>1. Init => ErrorsAreNotRemembered
    BY DEF Init, ErrorsAreNotRemembered
  <1>2. IInv /\ ErrorsAreNotRemembered /\ [Next]_vars => ErrorsAreNotRemembered'
    <2>. SUFFICES ASSUME IInv, ErrorsAreNotRemembered, [Next]_vars
                  PROVE  ErrorsAreNotRemembered'
      OBVIOUS
    <2>1. ASSUME NEW c \in Callers, NEW k \in Keys, Begin(c, k)
          PROVE  ErrorsAreNotRemembered'
      BY <2>1 DEF Begin, IInv, TypeOK, Fresh, Entry, Goto, ErrorsAreNotRemembered
    <2>2. ASSUME NEW c \in Callers, Join(c) \/ Recheck(c) \/ Fetch(c) \/ FetchFails(c) \/ Store(c)
          PROVE  ErrorsAreNotRemembered'
      BY <2>2 DEF Join, Recheck, Fetch, FetchFails, Store, IInv, TypeOK, Goto, history,
         ErrorsAreNotRemembered
    <2>3. ASSUME NEW c \in Callers, Finish(c)
          PROVE  ErrorsAreNotRemembered'
      BY <2>3 DEF Finish, IInv, TypeOK, ErrorsAreNotRemembered
    <2>4. ASSUME NEW c \in Callers, Return(c)
          PROVE  ErrorsAreNotRemembered'
      BY <2>4 DEF Return, IInv, TypeOK, Goto, ErrorsAreNotRemembered
    <2>5. CASE Tick \/ \E k \in Keys : ProviderChanges(k)
      BY <2>5 DEF Tick, ProviderChanges, history, ErrorsAreNotRemembered
    <2>6. CASE UNCHANGED vars
      BY <2>6 DEF vars, history, ErrorsAreNotRemembered
    <2>. QED
      BY <2>1, <2>2, <2>3, <2>4, <2>5, <2>6 DEF Next, Fill
  <1>. QED
    BY <1>1, <1>2, Invariance, PTL DEF Spec

\* Only Set adds a key, and it clears a full map first.
THEOREM SizeBounded == Spec => []WithinMaxSize
  <1>. USE CacheParameters, Naturals0
  <1>1. Init => WithinMaxSize
    BY FS_EmptySet DEF Init, WithinMaxSize
  <1>2. IInv /\ WithinMaxSize /\ [Next]_vars => WithinMaxSize'
    <2>. SUFFICES ASSUME IInv, WithinMaxSize, [Next]_vars, MaxSize # 0
                  PROVE  Cardinality(DOMAIN items') <= MaxSize
      BY DEF WithinMaxSize
    <2>1. IsFiniteSet(DOMAIN items) /\ Cardinality(DOMAIN items) \in Nat
      BY FS_Subset, FS_CardinalityType DEF IInv, TypeOK
    <2>2. ASSUME NEW c \in Callers, Store(c)
          PROVE  Cardinality(DOMAIN items') <= MaxSize
      <3>1. CASE Room
        <4>1. DOMAIN items' = DOMAIN items \union {asked[c]}
          BY <2>2, <3>1 DEF Store
        <4>2. \/ Cardinality(DOMAIN items') = Cardinality(DOMAIN items)
              \/ Cardinality(DOMAIN items') = Cardinality(DOMAIN items) + 1
          <5>. DEFINE S == DOMAIN items
          <5>1. IsFiniteSet(S) /\ DOMAIN items' = S \union {asked[c]}
            BY <2>1, <4>1
          <5>. HIDE DEF S
          <5>2. \/ Cardinality(S \union {asked[c]}) = Cardinality(S)
                \/ Cardinality(S \union {asked[c]}) = Cardinality(S) + 1
            BY <5>1, FS_AddElement
          <5>. QED
            BY <5>1, <5>2 DEF S
        <4>. QED
          BY <2>1, <2>2, <3>1, <4>2 DEF Room, WithinMaxSize
      <3>2. CASE ~Room
        <4>1. DOMAIN items' = {asked[c]}
          BY <2>2, <3>2 DEF Store
        <4>. QED
          BY <4>1, FS_Singleton
      <3>. QED
        BY <3>1, <3>2
    <2>3. (\A c \in Callers : ~Store(c)) => items' = items
      BY DEF Next, Fill, Begin, Join, Recheck, Fetch, FetchFails, Finish, Return, Tick,
         ProviderChanges, vars, cache
    <2>. QED
      BY <2>2, <2>3 DEF WithinMaxSize
  <1>. QED
    BY <1>1, <1>2, Invariance, PTL DEF Spec
=============================================================================
