--------------------------- MODULE TtlCacheProofs ---------------------------
(***************************************************************************)
(* Theorems about TtlCache, for any callers, outcomes, lives and bound on  *)
(* the clock, and about MarketReads, the endpoints that answer from one,   *)
(* for any providers, symbols and requests.                                *)
(*                                                                         *)
(* That callers and flights are windows needs to know that one caller at a *)
(* time is inside the flight, that the value stays expired while it runs   *)
(* the function, and that what it leaves with is the value stored: IInv.   *)
(*                                                                         *)
(* What the endpoints make of an answer needs to know that whatever a      *)
(* caller is told some provider had sent (Heard); the rest is arithmetic   *)
(* on scores, and lists at some of their positions.                        *)
(***************************************************************************)
EXTENDS MCMarketReads, FiniteSetTheorems, WellFoundedInduction, TLAPS

Leading(c) == pc[c] \in {"recheck", "run", "set", "finish"}

\* What is known of a caller, by the stage it is at.
Known(c) ==
    /\ since[c] <= now
    /\ Leading(c) <=> flight = c
    /\ pc[c] = "wait" => flight # NoCaller /\ since[c] = since[flight]
    /\ pc[c] \in {"run", "set"} => ~Valid
    /\ pc[c] = "set" => \E o \in Outcomes : answer[c] = Item(o, 0) /\ (~o.healthy => failed >= 0)
    /\ pc[c] = "finish" => answer[c] = item /\ since[c] < item.until
    /\ pc[c] = "answered" => answer[c] \in Items

\* The value stored is of a run; one that failed is soon over.
StoredSound ==
    ~item.healthy => failed >= 0 /\ item.until <= now + NegativeTimeToLive

IInv == TypeOK /\ (\A c \in Callers : Known(c)) /\ StoredSound /\ OutagesAreForgotten

-----------------------------------------------------------------------------
LEMMA OutcomeIsItem ==
  ASSUME NEW o \in Outcomes, NEW t \in Nat
  PROVE  /\ Item(o, t) \in Items
         /\ Item(o, t).value = o.value /\ Item(o, t).healthy = o.healthy /\ Item(o, t).until = t
         /\ Life(o) \in Nat /\ Life(o) > 0
         /\ ~o.healthy => Life(o) = NegativeTimeToLive
  BY TtlParameters DEF Item, Items, Life

\* The fields of whatever the cache holds.
LEMMA ItemFields ==
  ASSUME NEW i \in Items \union {Empty}
  PROVE  /\ i.until \in Nat /\ i.healthy \in BOOLEAN
         /\ i = [value |-> i.value, healthy |-> i.healthy, until |-> i.until]
         /\ i \notin Items => i.until = 0 /\ i.healthy
  <1>1. CASE i = Empty
    BY <1>1 DEF Empty
  <1>2. CASE i \in Items
    BY <1>2 DEF Items
  <1> QED
    BY <1>1, <1>2

LEMMA Initially == Init => IInv
  <1> SUFFICES ASSUME Init PROVE IInv
    OBVIOUS
  <1>1. TypeOK
    BY TtlParameters DEF Init, TypeOK, Stages
  <1>2. ASSUME NEW c \in Callers PROVE Known(c)
    BY TtlParameters DEF Init, Known, Leading
  <1>3. StoredSound /\ OutagesAreForgotten
    BY DEF Init, StoredSound, Empty, OutagesAreForgotten
  <1> QED
    BY <1>1, <1>2, <1>3 DEF IInv

-----------------------------------------------------------------------------
(***************************************************************************)
(* Every action preserves the invariant.                                   *)
(***************************************************************************)
LEMMA TypesKept == ASSUME IInv, [Next]_vars PROVE TypeOK'
  <1>0. TypeOK /\ (\A c \in Callers : Known(c))
    BY DEF IInv
  <1>1. CASE UNCHANGED vars
    BY <1>0, <1>1 DEF TypeOK, vars
  <1>2. CASE Tick
    BY <1>0, <1>2, TtlParameters DEF Tick, TypeOK
  <1>3. ASSUME NEW c \in Callers, Begin(c) PROVE TypeOK'
    BY <1>0, <1>3 DEF Begin, Goto, TypeOK, Stages
  <1>4. ASSUME NEW c \in Callers, Join(c) PROVE TypeOK'
    <2>1. flight # NoCaller => flight \in Callers
      BY <1>0 DEF TypeOK
    <2> QED
      BY <1>0, <1>4, <2>1 DEF Join, Goto, TypeOK, Stages
  <1>5. ASSUME NEW c \in Callers, Recheck(c) PROVE TypeOK'
    BY <1>0, <1>5 DEF Recheck, Goto, TypeOK, Stages
  <1>6. ASSUME NEW c \in Callers, NEW o \in Outcomes, Run(c, o) PROVE TypeOK'
    <2>1. Item(o, 0) \in Items
      BY OutcomeIsItem
    <2> QED
      BY <1>0, <1>6, <2>1 DEF Run, Goto, TypeOK, Stages
  <1>7. ASSUME NEW c \in Callers, Set(c) PROVE TypeOK'
    <2>1. PICK o \in Outcomes : answer[c] = Item(o, 0)
      BY <1>0, <1>7 DEF Set, Known
    <2>2. item' \in Items /\ answer' = [answer EXCEPT ![c] = item']
      <3>1. Life(answer[c]) = Life(o) /\ item' = Item(o, now + Life(o))
        BY <1>7, <2>1, OutcomeIsItem DEF Set, Item, Life
      <3>2. now + Life(o) \in Nat
        BY <1>0, OutcomeIsItem DEF TypeOK
      <3> QED
        BY <1>7, <3>1, <3>2, OutcomeIsItem DEF Set
    <2>3. /\ item' \in Items \union {Empty}
          /\ answer' \in [Callers -> Items \union {Empty, NoAnswer}]
      BY <1>0, <2>2 DEF TypeOK
    <2> QED
      BY <1>0, <1>7, <2>3 DEF Set, Goto, TypeOK, Stages
  <1>8. ASSUME NEW c \in Callers, Finish(c) PROVE TypeOK'
    BY <1>0, <1>8 DEF Finish, TypeOK, Stages
  <1>9. ASSUME NEW c \in Callers, Return(c) PROVE TypeOK'
    BY <1>0, <1>9, TtlParameters DEF Return, Goto, TypeOK, Stages
  <1> QED
    BY <1>1, <1>2, <1>3, <1>4, <1>5, <1>6, <1>7, <1>8, <1>9 DEF Next, Fill, Advance

\* At most one caller is inside the flight.
LEMMA OneLeads ==
  ASSUME IInv, NEW c \in Callers, NEW d \in Callers, Leading(c), Leading(d)
  PROVE  c = d
  BY DEF IInv, Known

\* Storing what the function returned begins a life of the right length.
LEMMA SetStores ==
  ASSUME IInv, NEW c \in Callers, Set(c)
  PROVE  \E o \in Outcomes :
           /\ item' = [value |-> o.value, healthy |-> o.healthy, until |-> now + Life(o)]
           /\ item'.healthy = o.healthy /\ item'.until = now + Life(o)
           /\ ~o.healthy => failed >= 0
           /\ now >= item.until /\ Life(o) \in Nat /\ Life(o) > 0
           /\ ~o.healthy => Life(o) = NegativeTimeToLive
  <1>0. TypeOK /\ Known(c) /\ pc[c] = "set"
    BY DEF IInv, Set
  <1>1. PICK o \in Outcomes : answer[c] = Item(o, 0) /\ (~o.healthy => failed >= 0)
    BY <1>0 DEF Known
  <1>2. Life(answer[c]) = Life(o)
    BY <1>1, OutcomeIsItem DEF Life
  <1>3. item' = [value |-> o.value, healthy |-> o.healthy, until |-> now + Life(o)]
    BY <1>1, <1>2 DEF Set, Item
  <1>4. now >= item.until
    BY <1>0, ItemFields DEF Known, Valid, TypeOK
  <1> QED
    BY <1>1, <1>3, <1>4, OutcomeIsItem

LEMMA KnownKept == ASSUME IInv, [Next]_vars, NEW d \in Callers PROVE Known(d)'
  <1> USE DEF Known, Leading, Valid, Stages
  <1>0. TypeOK /\ (\A c \in Callers : Known(c)) /\ NoCaller \notin Callers
    BY TtlParameters DEF IInv
  <1>1. CASE UNCHANGED vars
    BY <1>0, <1>1 DEF vars
  <1>2. CASE Tick
    <2>1. item.until \in Nat /\ now \in Nat /\ since[d] \in Nat
      BY <1>0, ItemFields DEF TypeOK
    <2> QED
      BY <1>0, <1>2, <2>1 DEF Tick
  <1>3. ASSUME NEW c \in Callers, Begin(c) PROVE Known(d)'
    <2>1. now < item.until => item \in Items
      BY <1>0, ItemFields DEF TypeOK
    <2>2. CASE d = c
      BY <1>0, <1>3, <2>1, <2>2 DEF Begin, Goto, TypeOK
    <2>3. CASE d # c
      <3>1. flight # NoCaller => flight \in Callers /\ flight # c
        BY <1>0, <1>3 DEF Begin, TypeOK
      <3> QED
        BY <1>0, <1>3, <2>3, <3>1 DEF Begin, Goto, TypeOK
    <2> QED
      BY <2>2, <2>3
  <1>4. ASSUME NEW c \in Callers, Join(c) PROVE Known(d)'
    <2>1. flight # NoCaller => flight \in Callers /\ flight # c
      BY <1>0, <1>4 DEF Join, TypeOK
    <2>2. CASE d = c
      BY <1>0, <1>4, <2>1, <2>2 DEF Join, Goto, TypeOK
    <2>3. CASE d # c
      BY <1>0, <1>4, <2>1, <2>3 DEF Join, Goto, TypeOK
    <2> QED
      BY <2>2, <2>3
  <1>5. ASSUME NEW c \in Callers, Recheck(c) PROVE Known(d)'
    BY <1>0, <1>5, ItemFields DEF Recheck, Goto, TypeOK
  <1>6. ASSUME NEW c \in Callers, NEW o \in Outcomes, Run(c, o) PROVE Known(d)'
    BY <1>0, <1>6, OutcomeIsItem, TtlParameters DEF Run, Goto, TypeOK
  <1>7. ASSUME NEW c \in Callers, Set(c) PROVE Known(d)'
    <2>1. PICK o \in Outcomes : item'.until = now + Life(o) /\ Life(o) \in Nat /\ Life(o) > 0
      BY <1>7, SetStores
    <2>2. CASE d = c
      <3>1. since[c] <= now /\ since[c] \in Nat /\ now \in Nat
        BY <1>0 DEF TypeOK
      <3>2. pc'[c] = "finish" /\ answer'[c] = item' /\ flight' = flight /\ flight = c /\ since' = since
        BY <1>0, <1>7 DEF Set, Goto, TypeOK
      <3> QED
        BY <1>7, <2>1, <2>2, <3>1, <3>2 DEF Set
    <2>3. CASE d # c
      <3>1. ~Leading(d)
        BY <1>7, <2>3, OneLeads DEF Set
      <3> QED
        BY <1>0, <1>7, <2>3, <3>1 DEF Set, Goto, TypeOK
    <2> QED
      BY <2>2, <2>3
  <1>8. ASSUME NEW c \in Callers, Finish(c) PROVE Known(d)'
    BY <1>0, <1>8, ItemFields DEF Finish, TypeOK
  <1>9. ASSUME NEW c \in Callers, Return(c) PROVE Known(d)'
    BY <1>0, <1>9 DEF Return, Goto, TypeOK
  <1> QED
    BY <1>1, <1>2, <1>3, <1>4, <1>5, <1>6, <1>7, <1>8, <1>9 DEF Next, Fill, Advance

LEMMA StoredKept == ASSUME IInv, [Next]_vars PROVE StoredSound'
  <1>0. TypeOK /\ StoredSound
    BY DEF IInv
  <1>1. item.until \in Nat /\ now \in Nat /\ NegativeTimeToLive \in Nat
    BY <1>0, ItemFields, TtlParameters DEF TypeOK
  <1>2. ASSUME UNCHANGED item, now' >= now, now' \in Nat, failed >= 0 => failed' >= 0
        PROVE  StoredSound'
    BY <1>0, <1>1, <1>2 DEF StoredSound
  <1>3. ASSUME NEW c \in Callers, Set(c) PROVE StoredSound'
    <2>1. PICK o \in Outcomes :
            /\ item'.healthy = o.healthy /\ item'.until = now + Life(o)
            /\ ~o.healthy => failed >= 0 /\ Life(o) = NegativeTimeToLive
      BY <1>3, SetStores
    <2>2. UNCHANGED <<now, failed>>
      BY <1>3 DEF Set
    <2> QED
      BY <1>1, <2>1, <2>2 DEF StoredSound
  <1>4. ASSUME NEW c \in Callers, NEW o \in Outcomes, Run(c, o) PROVE StoredSound'
    BY <1>1, <1>2, <1>4 DEF Run
  <1>5. CASE Tick
    BY <1>1, <1>2, <1>5 DEF Tick
  <1>6. ASSUME NEW c \in Callers,
               Begin(c) \/ Join(c) \/ Recheck(c) \/ Finish(c) \/ Return(c)
        PROVE  StoredSound'
    BY <1>1, <1>2, <1>6 DEF Begin, Join, Recheck, Finish, Return
  <1>7. CASE UNCHANGED vars
    BY <1>1, <1>2, <1>7 DEF vars
  <1> QED
    BY <1>3, <1>4, <1>5, <1>6, <1>7 DEF Next, Fill, Advance

LEMMA ForgottenKept == ASSUME IInv, [Next]_vars PROVE OutagesAreForgotten'
  <1> DEFINE Forgotten(d) ==
        pc[d] = "answered" /\ ~answer[d].healthy =>
            failed >= 0 /\ answer[d].until > since[d]
                        /\ answer[d].until <= now + NegativeTimeToLive
  <1>0. /\ TypeOK /\ StoredSound /\ NoCaller \notin Callers
        /\ \A c \in Callers : Known(c) /\ Forgotten(c)
    BY TtlParameters DEF IInv, OutagesAreForgotten
  <1>1. item.until \in Nat /\ now \in Nat /\ NegativeTimeToLive \in Nat
    BY <1>0, ItemFields, TtlParameters DEF TypeOK
  <1>2. SUFFICES ASSUME NEW d \in Callers PROVE Forgotten(d)'
    BY DEF OutagesAreForgotten
  <1>3. ASSUME pc'[d] = "answered", pc[d] = "answered", answer'[d] = answer[d], since'[d] = since[d],
               now' \in Nat, now' >= now, failed >= 0 => failed' >= 0
        PROVE  Forgotten(d)'
    BY <1>0, <1>1, <1>3, ItemFields DEF Known
  <1>4. CASE UNCHANGED vars
    BY <1>0, <1>4 DEF vars
  <1>5. CASE Tick
    BY <1>1, <1>3, <1>5 DEF Tick
  <1>6. ASSUME NEW c \in Callers, Begin(c) PROVE Forgotten(d)'
    BY <1>0, <1>1, <1>3, <1>6 DEF Begin, Goto, Valid, StoredSound, TypeOK
  <1>7. ASSUME NEW c \in Callers,
               Join(c) \/ Recheck(c) \/ Set(c) \/ Return(c) \/ \E o \in Outcomes : Run(c, o)
        PROVE  Forgotten(d)'
    BY <1>0, <1>1, <1>3, <1>7 DEF Join, Recheck, Set, Return, Run, Goto, TypeOK
  <1>8. ASSUME NEW c \in Callers, Finish(c) PROVE Forgotten(d)'
    <2>1. flight = c /\ answer[c] = item /\ since[c] < item.until
      BY <1>0, <1>8 DEF Finish, Known, Leading
    <2>2. pc[d] = "wait" => since[d] = since[c]
      BY <1>0, <2>1 DEF Known
    <2> QED
      BY <1>0, <1>1, <1>3, <1>8, <2>1, <2>2 DEF Finish, StoredSound, TypeOK
  <1> QED
    BY <1>4, <1>5, <1>6, <1>7, <1>8 DEF Next, Fill, Advance

LEMMA Invariance == Spec => []IInv
  <1>1. IInv /\ [Next]_vars => IInv'
    BY TypesKept, KnownKept, StoredKept, ForgottenKept DEF IInv
  <1> QED
    BY <1>1, Initially, PTL DEF Spec

-----------------------------------------------------------------------------
(***************************************************************************)
(* The theorems.                                                           *)
(***************************************************************************)
\* The clock, the value, the flight and the callers are well typed in every reachable state.
THEOREM TtlTyping == Spec => []TypeOK
  <1>1. IInv => TypeOK
    BY DEF IInv
  <1> QED
    BY <1>1, Invariance, PTL

\* Nobody is told of an outage that had been forgotten when his call, or the one he
\* joined, began (Fill, pkg/cache/ttl.go).
THEOREM Forgetting == Spec => []OutagesAreForgotten
  <1>1. IInv => OutagesAreForgotten
    BY DEF IInv
  <1> QED
    BY <1>1, Invariance, PTL

\* The answers as a client of the windows sees them.
Told(c) == IF pc[c] = "answered" THEN answer[c] ELSE NoAnswer

ToldAll == [c \in Callers |-> Told(c)]

\* A step that answers nobody and lets nobody go keeps what was told.
LEMMA Untold ==
  ASSUME \A d \in Callers : Told(d)' = Told(d)
  PROVE  ToldAll' = ToldAll
  BY DEF ToldAll

\* One action of a caller is one action of the windows, or none.
LEMMA StepOfWindows ==
  ASSUME IInv, [Next]_vars
  PROVE  [Windows!Next]_<<now, item, ToldAll>>
  <1>0. /\ TypeOK /\ NoCaller \notin Callers
        /\ \A c \in Callers : Known(c)
    BY TtlParameters DEF IInv
  <1>1. CASE UNCHANGED vars
    BY <1>1, Untold DEF vars, Told
  <1>2. CASE Tick
    <2>1. ToldAll' = ToldAll
      BY <1>2, Untold DEF Tick, Told
    <2> QED
      BY <1>2, <2>1 DEF Tick, Windows!Next, Windows!Tick
  <1>3. ASSUME NEW C \in SUBSET Callers, item.until > 0, UNCHANGED <<now, item>>,
               \A d \in C : pc[d] # "answered" /\ pc'[d] = "answered" /\ answer'[d] = item,
               \A d \in Callers \ C : Told(d)' = Told(d)
        PROVE  Windows!Next
    <2>1. \A d \in C : ToldAll[d] = NoAnswer
      BY <1>3 DEF ToldAll, Told
    <2>2. ToldAll' = [d \in Callers |-> IF d \in C THEN item ELSE ToldAll[d]]
      BY <1>3 DEF ToldAll, Told
    <2> QED
      BY <1>3, <2>1, <2>2 DEF Windows!Next, Windows!Answer, ToldAll, Told
  <1>4. ASSUME NEW c \in Callers, Begin(c) PROVE [Windows!Next]_<<now, item, ToldAll>>
    <2>1. CASE Valid
      <3>1. item.until > 0
        BY <1>0, <2>1, ItemFields DEF Valid, TypeOK
      <3>2. /\ UNCHANGED <<now, item>>
            /\ \A d \in {c} : pc[d] # "answered" /\ pc'[d] = "answered" /\ answer'[d] = item
            /\ \A d \in Callers \ {c} : Told(d)' = Told(d)
        BY <1>0, <1>4, <2>1 DEF Begin, Goto, Told, TypeOK
      <3>3. {c} \in SUBSET Callers
        OBVIOUS
      <3>4. Windows!Next
        BY <1>3, <3>1, <3>2, <3>3
      <3> QED
        BY <3>4
    <2>2. CASE ~Valid
      <3>1. \A d \in Callers : Told(d)' = Told(d)
        BY <1>0, <1>4, <2>2 DEF Begin, Goto, Told, TypeOK
      <3> QED
        BY <1>4, <3>1, Untold DEF Begin
    <2> QED
      BY <2>1, <2>2
  <1>5. ASSUME NEW c \in Callers, NEW o \in Outcomes, Run(c, o)
        PROVE  UNCHANGED <<now, item, ToldAll>>
    <2>1. \A d \in Callers : Told(d)' = Told(d)
      BY <1>0, <1>5 DEF Run, Goto, Told, TypeOK
    <2> QED
      BY <1>5, <2>1, Untold DEF Run
  <1>6. ASSUME NEW c \in Callers, Join(c) \/ Recheck(c)
        PROVE  UNCHANGED <<now, item, ToldAll>>
    <2>1. \A d \in Callers : Told(d)' = Told(d)
      BY <1>0, <1>6 DEF Join, Recheck, Goto, Told, TypeOK
    <2> QED
      BY <1>6, <2>1, Untold DEF Join, Recheck
  <1>7. ASSUME NEW c \in Callers, Set(c) PROVE Windows!Next
    <2>1. \A d \in Callers : Told(d)' = Told(d)
      BY <1>0, <1>7 DEF Set, Goto, Told, TypeOK
    <2>2. ToldAll' = ToldAll /\ now' = now
      BY <1>7, <2>1, Untold DEF Set
    <2> QED
      BY <1>7, <2>2, SetStores DEF Windows!Next, Windows!Open, Windows!Length, Life, ToldAll, Told
  <1>8. ASSUME NEW c \in Callers, Finish(c) PROVE Windows!Next
    <2> DEFINE C == {d \in Callers : d = c \/ pc[d] = "wait"}
    <2>1. answer[c] = item /\ item.until > 0
      BY <1>0, <1>8, ItemFields DEF Finish, Known, TypeOK
    <2>2. /\ UNCHANGED <<now, item>>
          /\ \A d \in C : pc[d] # "answered" /\ pc'[d] = "answered" /\ answer'[d] = item
          /\ \A d \in Callers \ C : Told(d)' = Told(d)
      BY <1>0, <1>8, <2>1 DEF Finish, Told, TypeOK
    <2> QED
      BY <1>3, <2>1, <2>2
  <1>9. ASSUME NEW c \in Callers, Return(c) PROVE Windows!Next
    <2>1. ToldAll' = [ToldAll EXCEPT ![c] = NoAnswer]
      BY <1>0, <1>9 DEF Return, Goto, Told, ToldAll, TypeOK
    <2> QED
      BY <1>9, <2>1 DEF Return, Windows!Next, Windows!Leave, ToldAll, Told
  <1> QED
    BY <1>1, <1>2, <1>4, <1>5, <1>6, <1>7, <1>8, <1>9 DEF Next, Fill, Advance

\* Callers, flights and expiries of the cache are windows that follow one another, each
\* opened by one run of the function (Fill, pkg/cache/ttl.go).
THEOREM TtlImplementsWindows == Spec => ImplementsWindows
  <1>1. Init => Windows!Init
    BY DEF Init, Windows!Init, Empty
  <1>2. IInv /\ [Next]_vars =>
          [Windows!Next]_<<now, item, [c \in Callers |-> IF pc[c] = "answered" THEN answer[c] ELSE NoAnswer]>>
    BY StepOfWindows DEF ToldAll, Told
  <1> QED
    BY <1>1, <1>2, Invariance, PTL DEF Spec, ImplementsWindows, Windows!Spec

-----------------------------------------------------------------------------
(***************************************************************************)
(* The market reads.  What callers are told is what a fill made of some    *)
(* provider (Heard), and what the operators make of a provider is typed.   *)
(***************************************************************************)
LEMMA OutcomesOfReads ==
  ASSUME NEW p \in Providers, read \in Reads
  PROVE  Outcome(p) \in Outcomes
  BY FillsAreOutcomes DEF Outcome, Reads

\* The reads keep which one they are, and run the cache.
LEMMA MarketSteps ==
  ASSUME read \in Reads, provider \in Providers, [MarketNext]_marketVars
  PROVE  /\ [Next]_vars
         /\ read' = read /\ provider' \in Providers
  <1>1. CASE UNCHANGED marketVars
    BY <1>1 DEF marketVars
  <1>2. CASE ProviderChanges
    BY <1>2 DEF ProviderChanges
  <1>3. CASE MarketStep
    <2>1. ASSUME NEW c \in Callers, Run(c, Outcome(provider)) PROVE Next
      BY <2>1, OutcomesOfReads DEF Next, Fill
    <2>2. Next
      BY <1>3, <2>1 DEF MarketStep, Next, Fill
    <2> QED
      BY <1>3, <2>2 DEF MarketStep
  <1> QED
    BY <1>1, <1>2, <1>3 DEF MarketNext

\* A market read is a cache: the cache's theorems hold of it.
LEMMA MarketIsCache == MarketSpec => Spec /\ [](read \in Reads /\ provider \in Providers)
  <1>1. MarketInit => Init /\ read \in Reads /\ provider \in Providers
    BY DEF MarketInit
  <1>2. read \in Reads /\ provider \in Providers /\ [MarketNext]_marketVars
          => [Next]_vars /\ (read \in Reads /\ provider \in Providers)'
    BY MarketSteps
  <1> QED
    BY <1>1, <1>2, PTL DEF MarketSpec, Spec

\* What a fill made of a provider.
FromProvider(a) ==
    \E p \in Providers : a.value = Outcome(p).value /\ a.healthy = Outcome(p).healthy

\* The value of a window and what callers are about to be told come from a provider.
Heard ==
    /\ item.until > 0 => FromProvider(item)
    /\ \A c \in Callers : pc[c] \in {"set", "finish", "answered"} => FromProvider(answer[c])

\* No step forgets where a value came from.
LEMMA HeardKept ==
  ASSUME IInv, Heard, read \in Reads, provider \in Providers, [MarketNext]_marketVars
  PROVE  Heard'
  <1>1. TypeOK /\ item.until \in Nat /\ now \in Nat
    BY ItemFields DEF IInv, TypeOK
  <1>2. read' = read
    BY MarketSteps
  <1>5. CASE UNCHANGED vars
    BY <1>2, <1>5 DEF vars, Heard, FromProvider, Outcome
  <1>6. CASE Tick
    BY <1>2, <1>6 DEF Tick, Heard, FromProvider, Outcome
  <1>7. ASSUME NEW c \in Callers, Begin(c) \/ Recheck(c) PROVE Heard'
    <2>1. Valid => FromProvider(item)
      BY <1>1 DEF Valid, Heard
    <2>2. item' = item
      BY <1>7 DEF Begin, Recheck
    <2>3. ASSUME NEW d \in Callers, pc'[d] \in {"set", "finish", "answered"}
          PROVE  FromProvider(answer'[d])
      BY <1>1, <1>7, <2>1, <2>3 DEF Begin, Recheck, Goto, Heard, TypeOK
    <2> QED
      BY <1>2, <2>2, <2>3 DEF Heard, FromProvider, Outcome
  <1>8. ASSUME NEW c \in Callers, Join(c) \/ Return(c) PROVE Heard'
    <2>1. item' = item
      BY <1>8 DEF Join, Return
    <2>2. ASSUME NEW d \in Callers, pc'[d] \in {"set", "finish", "answered"}
          PROVE  FromProvider(answer'[d])
      BY <1>1, <1>8, <2>2 DEF Join, Return, Goto, Heard, TypeOK
    <2> QED
      BY <1>2, <2>1, <2>2 DEF Heard, FromProvider, Outcome
  <1>9. ASSUME NEW c \in Callers, Run(c, Outcome(provider)) PROVE Heard'
    <2>1. FromProvider(Item(Outcome(provider), 0))
      BY DEF FromProvider, Item
    <2>2. item' = item
      BY <1>9 DEF Run
    <2>3. ASSUME NEW d \in Callers, pc'[d] \in {"set", "finish", "answered"}
          PROVE  FromProvider(answer'[d])
      BY <1>1, <1>9, <2>1, <2>3 DEF Run, Goto, Heard, TypeOK
    <2> QED
      BY <1>2, <2>2, <2>3 DEF Heard, FromProvider, Outcome
  <1>10. ASSUME NEW c \in Callers, Set(c) PROVE Heard'
    <2>1. FromProvider(answer[c])
      BY <1>10 DEF Set, Heard
    <2>2. FromProvider(item')
      BY <1>10, <2>1 DEF Set, FromProvider, Item
    <2>3. ASSUME NEW d \in Callers, pc'[d] \in {"set", "finish", "answered"}
          PROVE  FromProvider(answer'[d])
      BY <1>1, <1>10, <2>2, <2>3 DEF Set, Goto, Heard, TypeOK
    <2> QED
      BY <1>2, <2>2, <2>3 DEF Heard, FromProvider, Outcome
  <1>11. ASSUME NEW c \in Callers, Finish(c) PROVE Heard'
    <2>1. FromProvider(answer[c]) /\ item' = item
      BY <1>11 DEF Finish, Heard
    <2>2. ASSUME NEW d \in Callers, pc'[d] \in {"set", "finish", "answered"}
          PROVE  FromProvider(answer'[d])
      BY <1>1, <1>11, <2>1, <2>2 DEF Finish, Heard, TypeOK
    <2> QED
      BY <1>2, <2>1, <2>2 DEF Heard, FromProvider, Outcome
  <1> QED
    BY <1>5, <1>6, <1>7, <1>8, <1>9, <1>10, <1>11
       DEF MarketNext, MarketStep, ProviderChanges, marketVars, Advance

\* In every reachable state of a market read, what a caller is told came from a provider.
LEMMA MarketInvariance == MarketSpec => [](Heard /\ read \in Reads /\ provider \in Providers)
  <1> DEFINE J == Heard /\ read \in Reads /\ provider \in Providers
  <1>1. MarketInit => J
    <2>1. Init => Heard
      BY DEF Init, Heard, Empty
    <2> QED
      BY <2>1 DEF MarketInit
  <1>2. IInv /\ J /\ [MarketNext]_marketVars => J'
    BY HeardKept, MarketSteps
  <1>3. MarketSpec => []IInv
    BY MarketIsCache, Invariance, PTL
  <1> QED
    BY <1>1, <1>2, <1>3, PTL DEF MarketSpec

-----------------------------------------------------------------------------
\* Among some subsets of a finite set there is one that contains no other of them.
LEMMA SmallestSubset ==
  ASSUME NEW S, IsFiniteSet(S), NEW Bad, Bad \subseteq SUBSET S, Bad # {}
  PROVE  \E s \in Bad : \A r \in Bad : ~ (r \subseteq s /\ r # s)
  <1>1. FiniteSubsetsOf(S) = SUBSET S
    BY FS_FiniteSubsetsOfFinite
  <1>2. IsWellFoundedOn(StrictSubsetOrdering(S), SUBSET S)
    BY FS_StrictSubsetOrderingWellFounded, <1>1
  <1>3. PICK s \in Bad : \A r \in Bad : <<r, s>> \notin StrictSubsetOrdering(S)
    BY <1>2, WFMin
  <1>4. ASSUME NEW r \in Bad, r \subseteq s, r # s PROVE FALSE
    <2>1. <<r, s>> \in (SUBSET S) \X (SUBSET S)
      OBVIOUS
    <2>2. <<r, s>> \in StrictSubsetOrdering(S)
      BY <2>1, <1>4 DEF StrictSubsetOrdering
    <2> QED
      BY <2>2, <1>3
  <1> QED
    BY <1>4

\* Of some positions of a sequence there is a first.
LEMMA FirstPosition ==
  ASSUME NEW n \in Nat, NEW S, S \subseteq 1..n, S # {}
  PROVE  Min(S) \in S /\ \A i \in S : Min(S) <= i
  <1> DEFINE Intervals == {1..i : i \in S}
  <1>1. IsFiniteSet(1..n)
    BY FS_Interval
  <1>2. Intervals \subseteq SUBSET (1..n) /\ Intervals # {}
    <2>1. \A i \in S : i \in Int /\ i <= n /\ 1..i \subseteq 1..n
      OBVIOUS
    <2> QED
      BY <2>1, Zenon
  <1>3. PICK s \in Intervals : \A r \in Intervals : ~ (r \subseteq s /\ r # s)
    <2> DEFINE T == 1..n
    <2>1. IsFiniteSet(T) /\ Intervals \subseteq SUBSET T /\ Intervals # {}
      BY <1>1, <1>2
    <2> HIDE DEF Intervals, T
    <2> QED
      BY ONLY <2>1, SmallestSubset
  <1>4. PICK m \in S : s = 1..m
    OBVIOUS
  <1>5. ASSUME NEW i \in S PROVE m <= i
    <2> SUFFICES ASSUME i < m PROVE FALSE
      OBVIOUS
    <2>1. i \in Nat /\ m \in Nat /\ m \in 1..m /\ m \notin 1..i
      OBVIOUS
    <2>2. 1..i \subseteq s /\ 1..i # s
      BY <1>4, <2>1
    <2>3. 1..i \in Intervals
      OBVIOUS
    <2> QED
      BY <1>3, <2>2, <2>3
  <1>6. \E x \in S : \A y \in S : x <= y
    BY <1>5
  <1> QED
    BY <1>6 DEF Min

\* A call ends in an outage or in one of its replies.
LEMMA GetIsReply ==
  ASSUME NEW Kind, NEW replies \in Replies(Kind)
  PROVE  Get(replies) = Outage \/ \E i \in 1..MaxRetries : Get(replies) = replies[i]
  <1> DEFINE settled == {i \in 1..MaxRetries : replies[i].status # "limited"}
  <1>1. CASE settled = {}
    BY <1>1 DEF Get
  <1>2. CASE settled # {}
    <2>1. Min(settled) \in settled
      <3>1. settled \subseteq 1..MaxRetries /\ MaxRetries \in Nat
        BY ClientRetries
      <3> HIDE DEF settled
      <3> QED
        BY <1>2, <3>1, FirstPosition
    <2> QED
      BY <1>2, <2>1 DEF Get
  <1> QED
    BY <1>1, <1>2

\* What is decoded is an outage or the rows of one of the replies.
LEMMA RowsOfReply ==
  ASSUME NEW Kind, NEW replies \in Replies(Kind)
  PROVE  /\ Rows(replies) = Outage \/ \E i \in 1..MaxRetries : Rows(replies) = replies[i].rows
         /\ Rows(replies) = Outage \/ Rows(replies) \in Seq(Kind)
         /\ HistoricalRows(replies) = Outage \/ HistoricalRows(replies) \in Seq(Kind)
  <1>1. \A i \in 1..MaxRetries : replies[i].rows \in Seq(Kind)
    BY DEF Replies
  <1> QED
    BY <1>1, GetIsReply DEF Rows, HistoricalRows

\* While the provider is down a call ends in an outage.
LEMMA DownIsOutage ==
  ASSUME NEW Kind, NEW replies \in Replies(Kind), Down(replies)
  PROVE  Rows(replies) = Outage /\ HistoricalRows(replies) = Outage
  <1> DEFINE settled == {i \in 1..MaxRetries : replies[i].status # "limited"}
  <1>1. CASE settled = {}
    <2>1. Get(replies) = Outage
      BY <1>1 DEF Get
    <2> QED
      BY <2>1 DEF Rows, HistoricalRows
  <1>2. CASE settled # {}
    <2>1. Min(settled) \in settled
      <3>1. settled \subseteq 1..MaxRetries /\ MaxRetries \in Nat
        BY ClientRetries
      <3> HIDE DEF settled
      <3> QED
        BY <1>2, <3>1, FirstPosition
    <2>2. replies[Min(settled)].status = "unreachable" \/ replies[Min(settled)].shape = "text"
      BY <2>1 DEF Down
    <2>3. Get(replies) = IF replies[Min(settled)].status = "unreachable" THEN Outage
                         ELSE replies[Min(settled)]
      BY <1>2 DEF Get
    <2> HIDE DEF settled
    <2>4. Get(replies) = Outage \/ Get(replies).shape = "text"
      BY <2>2, <2>3
    <2> QED
      BY <2>4 DEF Rows, HistoricalRows
  <1> QED
    BY <1>1, <1>2

\* The first of some rows.
LEMMA FirstIsRow ==
  ASSUME NEW Kind, NEW replies \in Replies(Kind),
         First(Rows(replies)) \notin {Outage, NotFound}
  PROVE  First(Rows(replies)) \in Kind
  <1> DEFINE rows == Rows(replies)
  <1>1. rows = Outage \/ rows \in Seq(Kind)
    BY RowsOfReply
  <1> HIDE DEF rows
  <1>2. First(rows) \notin {Outage, NotFound}
    BY DEF rows
  <1>3. CASE rows = Outage
    BY <1>2, <1>3 DEF First
  <1>4. CASE rows # Outage /\ rows = <<>>
    BY <1>2, <1>4 DEF First
  <1>5. CASE rows # Outage /\ rows # <<>>
    <2>1. rows[1] \in Kind
      BY <1>1, <1>5
    <2>2. First(rows) = rows[1]
      BY <1>5 DEF First
    <2> QED
      BY <2>1, <2>2 DEF rows
  <1> QED
    BY <1>3, <1>4, <1>5

-----------------------------------------------------------------------------
\* The bounds of an integer quotient.
LEMMA QuotientBounds ==
  ASSUME NEW n \in Int, NEW d \in Nat \ {0}
  PROVE  /\ n \div d \in Int
         /\ d * (n \div d) <= n
         /\ n < d * (n \div d) + d
  OBVIOUS

\* The rounded quotient of a score.
LEMMA ClampIs ==
  ASSUME NEW n \in Int, NEW d \in Nat \ {0}
  PROVE  /\ n < 0 => ClampRound(n, d) = 0
         /\ n > 100 * d => ClampRound(n, d) = 100
         /\ n >= 0 /\ n <= 100 * d =>
              ClampRound(n, d) = (2 * n + d) \div (2 * d)
  BY DEF ClampRound

\* A score is one of 0 to 100.
LEMMA ClampInRange ==
  ASSUME NEW n \in Int, NEW d \in Nat \ {0}
  PROVE  ClampRound(n, d) \in 0..100
  <1>1. CASE n < 0 \/ n > 100 * d
    BY <1>1, ClampIs
  <1>2. CASE n >= 0 /\ n <= 100 * d
    <2> DEFINE q == (2 * n + d) \div (2 * d)
    <2>1. q \in Int /\ (2 * d) * q <= 2 * n + d /\ 2 * n + d < (2 * d) * q + 2 * d
      <3>1. 2 * n + d \in Int /\ 2 * d \in Nat \ {0}
        OBVIOUS
      <3> QED
        BY <3>1, QuotientBounds
    <2>2. ClampRound(n, d) = q
      BY <1>2, ClampIs
    <2> HIDE DEF q
    <2>3. q >= 0
      <3> SUFFICES ASSUME q <= -1 PROVE FALSE
        BY <2>1
      <3>1. (2 * d) * q <= (2 * d) * (-1)
        BY <2>1
      <3> QED
        BY <1>2, <2>1, <3>1
    <2>4. q <= 100
      <3> SUFFICES ASSUME q >= 101 PROVE FALSE
        BY <2>1
      <3>1. (2 * d) * q >= (2 * d) * 101
        BY <2>1
      <3> QED
        BY <1>2, <2>1, <3>1
    <2> QED
      BY <2>1, <2>2, <2>3, <2>4
  <1> QED
    BY <1>1, <1>2

\* Of two fractions the greater never rounds to less.
LEMMA ClampGrows ==
  ASSUME NEW n \in Int, NEW d \in Nat \ {0}, NEW m \in Int, NEW e \in Nat \ {0},
         n * e <= m * d
  PROVE  ClampRound(n, d) <= ClampRound(m, e)
  <1>1. ClampRound(n, d) \in 0..100 /\ ClampRound(m, e) \in 0..100
    BY ClampInRange
  <1>2. CASE n < 0
    <2>1. ClampRound(n, d) = 0
      BY <1>2 DEF ClampRound
    <2> QED
      BY <1>1, <2>1
  <1>3. CASE m > 100 * e
    <2>1. ~ (m < 0)
      BY <1>3
    <2>2. ClampRound(m, e) = 100
      BY <1>3, <2>1 DEF ClampRound
    <2> QED
      BY <1>1, <2>2
  <1>4. CASE n >= 0 /\ m <= 100 * e
    <2>1. n * e >= 0
      BY <1>4
    <2>2. m >= 0
      <3> SUFFICES ASSUME m <= -1 PROVE FALSE
        OBVIOUS
      <3>1. m * d <= (-1) * d
        OBVIOUS
      <3> QED
        BY <2>1, <3>1
    <2>3. n <= 100 * d
      <3> SUFFICES ASSUME n >= 100 * d + 1 PROVE FALSE
        OBVIOUS
      <3>1. n * e >= (100 * d + 1) * e
        OBVIOUS
      <3>2. m * d <= (100 * e) * d
        BY <1>4
      <3>3. (100 * d + 1) * e = (100 * e) * d + e
        OBVIOUS
      <3>4. n * e \in Int /\ m * d \in Int /\ (100 * e) * d \in Int
        OBVIOUS
      <3> QED
        BY <3>1, <3>2, <3>3, <3>4
    <2> DEFINE q == (2 * n + d) \div (2 * d)
               r == (2 * m + e) \div (2 * e)
    <2>4. q \in Int /\ (2 * d) * q <= 2 * n + d
      <3>1. 2 * n + d \in Int /\ 2 * d \in Nat \ {0}
        OBVIOUS
      <3> QED
        BY <3>1, QuotientBounds
    <2>5. r \in Int /\ 2 * m + e < (2 * e) * r + 2 * e
      <3>1. 2 * m + e \in Int /\ 2 * e \in Nat \ {0}
        OBVIOUS
      <3> QED
        BY <3>1, QuotientBounds
    <2>6. ClampRound(n, d) = q /\ ClampRound(m, e) = r
      BY <1>4, <2>2, <2>3, ClampIs
    <2> HIDE DEF q, r
    <2>7. ASSUME q >= r + 1 PROVE FALSE
      <3> DEFINE k == d * e
      <3>1. k \in Nat \ {0}
        OBVIOUS
      <3>2. e * ((2 * d) * q) <= e * (2 * n + d)
        <4>1. (2 * d) * q \in Int
          BY <2>4
        <4> QED
          BY <2>4, <4>1
      <3>3. d * (2 * m + e) < d * ((2 * e) * r + 2 * e)
        <4>1. (2 * e) * r + 2 * e \in Int
          BY <2>5
        <4> QED
          BY <2>5, <4>1
      <3>4. /\ e * ((2 * d) * q) = k * (2 * q)
            /\ e * (2 * n + d) = 2 * (n * e) + k
            /\ d * (2 * m + e) = 2 * (m * d) + k
            /\ d * ((2 * e) * r + 2 * e) = k * (2 * r + 2)
        BY <2>4, <2>5
      <3> HIDE DEF k
      <3>5. n * e \in Int /\ m * d \in Int /\ k * (2 * q) \in Int /\ k * (2 * r + 2) \in Int
        BY <2>4, <2>5, <3>1
      <3>6. k * (2 * q) < k * (2 * r + 2)
        BY <3>1, <3>2, <3>3, <3>4, <3>5
      <3>7. k * (2 * q) >= k * (2 * r + 2)
        BY <2>4, <2>5, <2>7, <3>1
      <3> QED
        BY <3>5, <3>6, <3>7
    <2> QED
      BY <2>4, <2>5, <2>6, <2>7
  <1> QED
    BY <1>2, <1>3, <1>4

\* The parts of the score grow with calm, with the index and with the winners.
LEMMA PartsGrow ==
  /\ \A v, w \in Int : w <= v => ScoreFromVIX(v) <= ScoreFromVIX(w)
  /\ \A v, w \in Int : v <= w => ScoreFromMomentum(v) <= ScoreFromMomentum(w)
  /\ \A v \in Int : ScoreFromVIX(v) \in 0..100 /\ ScoreFromMomentum(v) \in 0..100
  <1>1. ASSUME NEW v \in Int, NEW w \in Int, w <= v PROVE ScoreFromVIX(v) <= ScoreFromVIX(w)
    <2> DEFINE n == (40 - v) * 100
               m == (40 - w) * 100
    <2>1. n \in Int /\ m \in Int /\ n * 30 <= m * 30
      BY <1>1
    <2> HIDE DEF n, m
    <2>2. ClampRound(n, 30) <= ClampRound(m, 30)
      BY <2>1, ClampGrows
    <2> QED
      BY <2>2 DEF n, m, ScoreFromVIX
  <1>2. ASSUME NEW v \in Int, NEW w \in Int, v <= w PROVE ScoreFromMomentum(v) <= ScoreFromMomentum(w)
    <2> DEFINE n == (v + 3) * 100
               m == (w + 3) * 100
    <2>1. n \in Int /\ m \in Int /\ n * 6 <= m * 6
      BY <1>2
    <2> HIDE DEF n, m
    <2>2. ClampRound(n, 6) <= ClampRound(m, 6)
      BY <2>1, ClampGrows
    <2> QED
      BY <2>2 DEF n, m, ScoreFromMomentum
  <1>3. ASSUME NEW v \in Int PROVE ScoreFromVIX(v) \in 0..100 /\ ScoreFromMomentum(v) \in 0..100
    <2>1. (40 - v) * 100 \in Int /\ (v + 3) * 100 \in Int
      OBVIOUS
    <2> DEFINE n == (40 - v) * 100
               m == (v + 3) * 100
    <2>2. n \in Int /\ m \in Int
      BY <2>1
    <2> HIDE DEF n, m
    <2>3. 30 \in Nat \ {0} /\ 6 \in Nat \ {0}
      OBVIOUS
    <2>4. ClampRound(n, 30) \in 0..100
      BY <2>2, <2>3, ClampInRange, Zenon
    <2>5. ClampRound(m, 6) \in 0..100
      BY <2>2, <2>3, ClampInRange, Zenon
    <2> QED
      BY <2>4, <2>5 DEF n, m, ScoreFromVIX, ScoreFromMomentum
  <1> QED
    BY <1>1, <1>2, <1>3

\* Breadth grows with more winners and fewer losers.
LEMMA BreadthGrows ==
  ASSUME NEW g \in Nat, NEW l \in Nat, NEW h \in Nat, NEW k \in Nat,
         g <= h, k <= l, g + l > 0, h + k > 0
  PROVE  /\ ScoreFromBreadth(g, l) \in 0..100 /\ ScoreFromBreadth(h, k) \in 0..100
         /\ ScoreFromBreadth(g, l) <= ScoreFromBreadth(h, k)
  <1> DEFINE n == g * 100
             d == g + l
             m == h * 100
             e == h + k
  <1>1. n \in Int /\ m \in Int /\ d \in Nat \ {0} /\ e \in Nat \ {0}
    OBVIOUS
  <1>2. n * e <= m * d
    <2>1. n * e = 100 * (g * h) + 100 * (g * k) /\ m * d = 100 * (g * h) + 100 * (h * l)
      OBVIOUS
    <2>2. g * k <= h * l
      <3>1. g * k <= h * k /\ h * k <= h * l
        OBVIOUS
      <3>2. g * k \in Int /\ h * k \in Int /\ h * l \in Int
        OBVIOUS
      <3> QED
        BY <3>1, <3>2
    <2>3. g * h \in Int /\ g * k \in Int /\ h * l \in Int
      OBVIOUS
    <2> HIDE DEF n, m, d, e
    <2> QED
      BY <2>1, <2>2, <2>3
  <1>3. ScoreFromBreadth(g, l) = ClampRound(n, d) /\ ScoreFromBreadth(h, k) = ClampRound(m, e)
    BY DEF ScoreFromBreadth
  <1> HIDE DEF n, m, d, e
  <1>4. ClampRound(n, d) \in 0..100 /\ ClampRound(m, e) \in 0..100
    BY <1>1, ClampInRange
  <1>5. ClampRound(n, d) <= ClampRound(m, e)
    BY <1>1, <1>2, ClampGrows
  <1> QED
    BY <1>3, <1>4, <1>5

\* A score without movers is neutral, any other one is a share: always of 0 to 100.
LEMMA BreadthInRange ==
  ASSUME NEW g \in Nat, NEW l \in Nat
  PROVE  ScoreFromBreadth(g, l) \in 0..100
  <1>1. CASE g + l = 0
    BY <1>1 DEF ScoreFromBreadth
  <1>2. CASE g + l > 0
    <2> DEFINE n == g * 100
               d == g + l
    <2>1. n \in Int /\ d \in Nat \ {0} /\ ScoreFromBreadth(g, l) = ClampRound(n, d)
      BY <1>2 DEF ScoreFromBreadth
    <2> HIDE DEF n, d
    <2> QED
      BY <2>1, ClampInRange
  <1> QED
    BY <1>1, <1>2

\* The composite of scores is a score.
LEMMA CompositeInRange ==
  ASSUME NEW a \in 0..100, NEW b \in 0..100, NEW c \in 0..100
  PROVE  CompositeScore(a, b, c) \in 0..100
  <1> DEFINE n == 5 * a + 3 * b + 2 * c
  <1>1. n \in Int
    OBVIOUS
  <1> HIDE DEF n
  <1>2. ClampRound(n, 10) \in 0..100
    BY <1>1, ClampInRange
  <1> QED
    BY <1>2 DEF n, CompositeScore

\* The composite grows with its parts.
LEMMA CompositeGrows ==
  ASSUME NEW a \in 0..100, NEW b \in 0..100, NEW c \in 0..100,
         NEW x \in 0..100, NEW y \in 0..100, NEW z \in 0..100,
         a <= x, b <= y, c <= z
  PROVE  CompositeScore(a, b, c) <= CompositeScore(x, y, z)
  <1> DEFINE n == 5 * a + 3 * b + 2 * c
             m == 5 * x + 3 * y + 2 * z
  <1>1. n \in Int /\ m \in Int /\ n * 10 <= m * 10
    OBVIOUS
  <1> HIDE DEF n, m
  <1>2. ClampRound(n, 10) <= ClampRound(m, 10)
    BY <1>1, ClampGrows
  <1> QED
    BY <1>2 DEF n, m, CompositeScore

\* A label for every score, and no lower score has a label of less fear.
LEMMA LabelsGrow ==
  ASSUME NEW s \in 0..100, NEW t \in 0..100, s <= t
  PROVE  NoWorse(StatusFromScore(t), StatusFromScore(s))
  <1> DEFINE Place(x) == IF x \div 20 <= 4 THEN x \div 20 + 1 ELSE 5
  <1>1. ASSUME NEW x \in 0..100
        PROVE  Place(x) \in 1..5 /\ StatusFromScore(x) = Labels[Place(x)]
    <2> DEFINE q == x \div 20
    <2>1. q \in Nat
      OBVIOUS
    <2>2. Min({q, 4}) = IF q <= 4 THEN q ELSE 4
      <3> HIDE DEF q
      <3>1. \E y \in {q, 4} : \A w \in {q, 4} : y <= w
        BY <2>1
      <3>2. Min({q, 4}) \in {q, 4} /\ Min({q, 4}) <= q /\ Min({q, 4}) <= 4
        BY <3>1 DEF Min
      <3> QED
        BY <2>1, <3>2
    <2> QED
      BY <2>1, <2>2 DEF StatusFromScore
  <1>2. Place(s) <= Place(t)
    OBVIOUS
  <1>3. DOMAIN Labels = 1..5
    BY DEF Labels
  <1> HIDE DEF Place
  <1> QED
    BY <1>1, <1>2, <1>3 DEF NoWorse

\* Of no rows there is no first one.
LEMMA FirstOfNone == First(Outage) = Outage /\ Outage # <<>>
  <1>1. Outage # <<>>
    <2>1. Outage \notin Seq([of : Symbols])
      BY ErrorsAreNoData
    <2>2. <<>> \in Seq([of : Symbols])
      OBVIOUS
    <2> QED
      BY <2>1, <2>2
  <1> QED
    BY <1>1 DEF First

\* A provider sends replies of each kind.
LEMMA ProviderReplies ==
  ASSUME NEW p \in Provider
  PROVE  /\ p.vix \in Replies([price : Int]) /\ p.index \in Replies([change : Int])
         /\ p.gainers \in Replies(Nat) /\ p.losers \in Replies(Nat)
         /\ p.active \in Replies(Symbols)
         /\ p.stocks \in Replies(Symbols \union {""}) /\ p.etfs \in Replies(Symbols \union {""})
         /\ p.bySymbol \in Replies([symbol : Symbols, name : STRING])
         /\ p.byName \in Replies([symbol : Symbols, name : STRING])
         /\ p.history \in [UpperCase -> Replies([day : Int, close : Int])]
         /\ p.change \in [UpperCase -> Replies([of : Symbols])]
  BY DEF Provider

\* The movers of one moment with the rest of another.
LEMMA MixedIsProvider ==
  ASSUME NEW p \in Provider, NEW q \in Provider
  PROVE  [p EXCEPT !.gainers = q.gainers, !.losers = q.losers] \in Provider
  BY DEF Provider

\* The score of a market of which all four signals came.
Scored(v) ==
    /\ v.vix \in Int /\ v.change \in Int /\ v.gainers \in Nat /\ v.losers \in Nat
    /\ v.score = CompositeScore(ScoreFromVIX(v.vix), ScoreFromMomentum(v.change),
                                ScoreFromBreadth(v.gainers, v.losers))
    /\ v.status = StatusFromScore(v.score)

LEMMA ComputeIsScored ==
  ASSUME NEW p \in Provider, Compute(p).healthy
  PROVE  Scored(Compute(p).value)
  <1> DEFINE vix == GetQuote(p.vix)
             index == GetQuote(p.index)
             gainers == MarketMovers(p.gainers)
             losers == MarketMovers(p.losers)
  <1>1. ~ (vix \in {Outage, NotFound} \/ index \in {Outage, NotFound} \/ Outage \in {gainers, losers})
    BY DEF Compute, Degraded
  <1>2. vix \in [price : Int] /\ index \in [change : Int]
    <2>1. First(Rows(p.vix)) \notin {Outage, NotFound} /\ First(Rows(p.index)) \notin {Outage, NotFound}
      BY <1>1 DEF GetQuote
    <2>2. First(Rows(p.vix)) \in [price : Int] /\ First(Rows(p.index)) \in [change : Int]
      BY <2>1, ProviderReplies, FirstIsRow
    <2> QED
      BY <2>2 DEF GetQuote
  <1>3. gainers \in Seq(Nat) /\ losers \in Seq(Nat)
    BY <1>1, ProviderReplies, RowsOfReply DEF MarketMovers
  <1>4. Compute(p).value =
          LET score == CompositeScore(ScoreFromVIX(vix.price), ScoreFromMomentum(index.change),
                                      ScoreFromBreadth(Len(gainers), Len(losers)))
          IN  [score |-> score, status |-> StatusFromScore(score),
               vix |-> vix.price, change |-> index.change,
               gainers |-> Len(gainers), losers |-> Len(losers)]
    BY <1>1 DEF Compute
  <1>5. vix.price \in Int /\ index.change \in Int /\ Len(gainers) \in Nat /\ Len(losers) \in Nat
    BY <1>2, <1>3
  <1> HIDE DEF vix, index, gainers, losers
  <1> QED
    BY <1>4, <1>5 DEF Scored

\* A market that is calmer, rises more and has more winners never scores lower.
LEMMA ScoresGrow ==
  ASSUME NEW old, Scored(old), NEW new, Scored(new)
  PROVE  /\ old.score \in 0..100
         /\ /\ new.vix <= old.vix /\ new.change >= old.change
            /\ new.gainers >= old.gainers /\ new.losers <= old.losers
            /\ new.gainers + new.losers > 0 /\ old.gainers + old.losers > 0
            => new.score >= old.score /\ NoWorse(new.status, old.status)
  <1> DEFINE a == ScoreFromVIX(old.vix)
             b == ScoreFromMomentum(old.change)
             c == ScoreFromBreadth(old.gainers, old.losers)
             x == ScoreFromVIX(new.vix)
             y == ScoreFromMomentum(new.change)
             z == ScoreFromBreadth(new.gainers, new.losers)
  <1>1. /\ old.vix \in Int /\ old.change \in Int /\ old.gainers \in Nat /\ old.losers \in Nat
        /\ new.vix \in Int /\ new.change \in Int /\ new.gainers \in Nat /\ new.losers \in Nat
        /\ old.score = CompositeScore(a, b, c) /\ new.score = CompositeScore(x, y, z)
        /\ old.status = StatusFromScore(old.score) /\ new.status = StatusFromScore(new.score)
    BY DEF Scored
  <1>2. /\ a \in 0..100 /\ b \in 0..100 /\ c \in 0..100
        /\ x \in 0..100 /\ y \in 0..100 /\ z \in 0..100
    BY <1>1, PartsGrow, BreadthInRange
  <1>3. ASSUME new.vix <= old.vix, new.change >= old.change,
               new.gainers >= old.gainers, new.losers <= old.losers,
               new.gainers + new.losers > 0, old.gainers + old.losers > 0
        PROVE  a <= x /\ b <= y /\ c <= z
    <2>1. a <= x /\ b <= y
      BY <1>1, <1>3, PartsGrow
    <2>2. c <= z
      BY <1>1, <1>3, BreadthGrows
    <2> QED
      BY <2>1, <2>2
  <1> HIDE DEF a, b, c, x, y, z
  <1>4. old.score \in 0..100 /\ new.score \in 0..100
    <2>1. CompositeScore(a, b, c) \in 0..100 /\ CompositeScore(x, y, z) \in 0..100
      BY ONLY <1>2, CompositeInRange
    <2> QED
      BY <1>1, <2>1
  <1>5. ASSUME a <= x, b <= y, c <= z PROVE old.score <= new.score
    <2>1. CompositeScore(a, b, c) <= CompositeScore(x, y, z)
      BY ONLY <1>2, <1>5, CompositeGrows
    <2> QED
      BY <1>1, <2>1
  <1>6. old.score <= new.score => NoWorse(new.status, old.status)
    BY <1>1, <1>4, LabelsGrow
  <1> QED
    BY <1>3, <1>4, <1>5, <1>6

\* A score has the four signals that its provider sent.
LEMMA ScoreIsSent ==
  ASSUME NEW p \in Provider, Compute(p).healthy
  PROVE  SentBy(p, Compute(p).value)
  <1> DEFINE vix == GetQuote(p.vix)
             index == GetQuote(p.index)
             gainers == MarketMovers(p.gainers)
             losers == MarketMovers(p.losers)
  <1>1. ~ (vix \in {Outage, NotFound} \/ index \in {Outage, NotFound} \/ Outage \in {gainers, losers})
    BY DEF Compute, Degraded
  <1>2. vix \in [price : Int] /\ index \in [change : Int]
    <2>1. First(Rows(p.vix)) \notin {Outage, NotFound} /\ First(Rows(p.index)) \notin {Outage, NotFound}
      BY <1>1 DEF GetQuote
    <2>2. First(Rows(p.vix)) \in [price : Int] /\ First(Rows(p.index)) \in [change : Int]
      BY <2>1, ProviderReplies, FirstIsRow
    <2> QED
      BY <2>2 DEF GetQuote
  <1>3. /\ Compute(p).value.vix = vix.price /\ Compute(p).value.change = index.change
        /\ Compute(p).value.gainers = Len(gainers) /\ Compute(p).value.losers = Len(losers)
    BY <1>1 DEF Compute
  <1> HIDE DEF vix, index, gainers, losers
  <1>4. vix = [price |-> Compute(p).value.vix] /\ index = [change |-> Compute(p).value.change]
    BY <1>2, <1>3
  <1> QED
    BY <1>1, <1>3, <1>4 DEF SentBy, vix, index, gainers, losers

\* There is no score while the provider is down for one of its signals, and no half of one.
LEMMA DownIsNoScore ==
  ASSUME NEW p \in Provider, Down(p.vix) \/ Down(p.index) \/ Down(p.gainers) \/ Down(p.losers)
  PROVE  Compute(p) = Degraded
  <1>1. /\ p.vix \in Replies([price : Int]) /\ p.index \in Replies([change : Int])
        /\ p.gainers \in Replies(Nat) /\ p.losers \in Replies(Nat)
    BY ProviderReplies
  <1>2. Outage \in {Rows(p.vix), Rows(p.index), Rows(p.gainers), Rows(p.losers)}
    BY <1>1, DownIsOutage
  <1>3. GetQuote(p.vix) = Outage \/ GetQuote(p.index) = Outage
          \/ MarketMovers(p.gainers) = Outage \/ MarketMovers(p.losers) = Outage
    <2>1. ASSUME Rows(p.vix) = Outage PROVE GetQuote(p.vix) = Outage
      BY <2>1, FirstOfNone DEF GetQuote
    <2>2. ASSUME Rows(p.index) = Outage PROVE GetQuote(p.index) = Outage
      BY <2>2, FirstOfNone DEF GetQuote
    <2>3. MarketMovers(p.gainers) = Rows(p.gainers) /\ MarketMovers(p.losers) = Rows(p.losers)
      BY DEF MarketMovers
    <2> QED
      BY <1>2, <2>1, <2>2, <2>3
  <1> QED
    BY <1>3 DEF Compute

LEMMA NoScoreIsUnknown ==
  ASSUME NEW p, ~Compute(p).healthy
  PROVE  Compute(p).value = Unknown
  BY DEF Compute, Degraded

\* Whatever the provider's markets are and however they change: a score is of one moment at which
\* all four signals came, there is none while one of them is down, and a calmer and rising
\* market never scores lower than the one in the cache
\* (domain/sentiment/sentiment.go, usecase/sentiment/sentiment.go Execute).
THEOREM ScoresAlwaysFollow == MarketSpec => []ScoresFollowTheMarket
  <1>1. ASSUME IInv, Heard PROVE ScoresFollowTheMarket
    <2>1. ASSUME NEW c \in Callers, read = "sentiment", pc[c] = "answered"
          PROVE  IF answer[c].healthy THEN \E p \in Providers : SentBy(p, answer[c].value)
                                      ELSE answer[c].value = Unknown
      <3>1. PICK o \in Providers : answer[c].value = Compute(o).value /\ answer[c].healthy = Compute(o).healthy
        BY <1>1, <2>1 DEF Heard, FromProvider, Outcome
      <3>2. o \in Provider
        BY MarketParameters
      <3>3. CASE Compute(o).healthy
        BY <3>1, <3>2, <3>3, ScoreIsSent
      <3>4. CASE ~Compute(o).healthy
        BY <3>1, <3>4, NoScoreIsUnknown
      <3> QED
        BY <3>3, <3>4
    <2>2. ASSUME NEW p \in Providers
          PROVE  Down(p.vix) \/ Down(p.index) \/ Down(p.gainers) \/ Down(p.losers) => Compute(p) = Degraded
      BY MarketParameters, DownIsNoScore
    <2>3. ASSUME NEW c \in Callers, read = "sentiment", pc[c] = "answered",
                 NEW p \in Providers, NEW q \in Providers
          PROVE  LET mixed == [p EXCEPT !.gainers = q.gainers, !.losers = q.losers]
                 IN  answer[c].healthy /\ Compute(mixed).healthy =>
                     LET old == answer[c].value
                         new == Compute(mixed).value
                     IN  /\ /\ new.vix <= old.vix /\ new.change >= old.change
                            /\ new.gainers >= old.gainers /\ new.losers <= old.losers
                            /\ new.gainers + new.losers > 0 /\ old.gainers + old.losers > 0
                            => new.score >= old.score /\ NoWorse(new.status, old.status)
                         /\ old.score \in 0..100
      <3> DEFINE mixed == [p EXCEPT !.gainers = q.gainers, !.losers = q.losers]
      <3>1. mixed \in Provider
        BY MarketParameters, MixedIsProvider
      <3>2. PICK o \in Providers : answer[c].value = Compute(o).value /\ answer[c].healthy = Compute(o).healthy
        BY <1>1, <2>3 DEF Heard, FromProvider, Outcome
      <3>3. answer[c].healthy => Scored(answer[c].value)
        BY <3>2, MarketParameters, ComputeIsScored
      <3> HIDE DEF mixed
      <3>4. Compute(mixed).healthy => Scored(Compute(mixed).value)
        BY <3>1, ComputeIsScored
      <3> QED
        BY <3>3, <3>4, ScoresGrow DEF mixed
    <2> QED
      BY <2>1, <2>2, <2>3 DEF ScoresFollowTheMarket, Answered
  <1>2. MarketSpec => []IInv
    BY MarketIsCache, Invariance, PTL
  <1> QED
    BY <1>1, <1>2, MarketInvariance, PTL

-----------------------------------------------------------------------------
\* The lesser of two numbers.
LEMMA MinOfTwo ==
  ASSUME NEW a \in Int, NEW b \in Int
  PROVE  Min({a, b}) = IF a <= b THEN a ELSE b
  <1>1. \E x \in {a, b} : \A y \in {a, b} : x <= y
    OBVIOUS
  <1>2. Min({a, b}) \in {a, b} /\ Min({a, b}) <= a /\ Min({a, b}) <= b
    BY <1>1 DEF Min
  <1> QED
    BY <1>2

\* Of a list all or the first few.
LEMMA UptoIs ==
  ASSUME NEW S, NEW list \in Seq(S), NEW n \in Nat
  PROVE  /\ Upto(n, list) \in Seq(S)
         /\ Len(Upto(n, list)) = IF n <= Len(list) THEN n ELSE Len(list)
         /\ \A i \in 1..Len(Upto(n, list)) : Upto(n, list)[i] = list[i]
  <1>1. Len(list) \in Nat
    OBVIOUS
  <1>2. Min({n, Len(list)}) = IF n <= Len(list) THEN n ELSE Len(list)
    BY <1>1, MinOfTwo
  <1> DEFINE k == Min({n, Len(list)})
  <1>3. k \in 0..Len(list)
    BY <1>1, <1>2
  <1> HIDE DEF k
  <1>4. SubSeq(list, 1, k) \in Seq(S) /\ Len(SubSeq(list, 1, k)) = k
        /\ \A i \in 1..k : SubSeq(list, 1, k)[i] = list[i]
    BY <1>3
  <1> QED
    BY <1>2, <1>4 DEF k, Upto

\* The most active stocks, as the cache keeps them: each of them once.
Listed(stocks) == stocks \in Seq(Symbols) /\ IsInjective(stocks)

LEMMA ActiveOnce ==
  ASSUME NEW p \in Providers, GetMostActiveStocks(p.active, MostActive) # Outage
  PROVE  Listed(GetMostActiveStocks(p.active, MostActive))
  <1> DEFINE rows == Rows(p.active)
  <1>1. p.active \in Replies(Symbols) /\ MostActive \in Nat
    BY MarketParameters, ProviderReplies
  <1>2. rows # Outage
    BY DEF GetMostActiveStocks
  <1>3. rows \in Seq(Symbols) /\ \E i \in 1..MaxRetries : rows = p.active[i].rows
    BY <1>1, <1>2, RowsOfReply
  <1>4. IsInjective(rows)
    BY <1>3, MarketParameters
  <1> HIDE DEF rows
  <1>5. CASE 0 < MostActive /\ MostActive < Len(rows)
    <2> DEFINE s == SubSeq(rows, 1, MostActive)
    <2>1. s \in Seq(Symbols) /\ DOMAIN s = 1..MostActive /\ \A i \in 1..MostActive : s[i] = rows[i]
      BY <1>1, <1>3, <1>5
    <2>2. \A i \in 1..MostActive : i \in DOMAIN rows
      BY <1>1, <1>3, <1>5
    <2>3. GetMostActiveStocks(p.active, MostActive) = s
      BY <1>2, <1>5 DEF GetMostActiveStocks, rows
    <2> HIDE DEF s
    <2>4. IsInjective(s)
      BY <1>4, <2>1, <2>2 DEF IsInjective
    <2> QED
      BY <2>1, <2>3, <2>4 DEF Listed
  <1>6. CASE ~ (0 < MostActive /\ MostActive < Len(rows))
    <2>1. GetMostActiveStocks(p.active, MostActive) = rows
      BY <1>6 DEF GetMostActiveStocks, rows
    <2> QED
      BY <1>3, <1>4, <2>1 DEF Listed
  <1> QED
    BY <1>5, <1>6

\* m curated assets and then k stocks.
Joined(shown, stocks, m, k) ==
    /\ shown \in Seq(ToSet(PopularAssets) \union Symbols) /\ Len(shown) = m + k
    /\ m \in 0..Len(PopularAssets) /\ k \in 0..Len(stocks)
    /\ \A i \in 1..m : shown[i] = PopularAssets[i]
    /\ \A i \in 1..k : shown[m + i] = stocks[i]

\* The curated assets are no stocks, and each is there once.
LEMMA CuratedAssets ==
  /\ PopularAssets \in Seq(ToSet(PopularAssets) \ Symbols) /\ IsInjective(PopularAssets)
  /\ DOMAIN PopularAssets = 1..Len(PopularAssets) /\ Len(PopularAssets) \in Nat
  <1> DEFINE C == ToSet(PopularAssets) \ Symbols
  <1>1. PopularAssets \in Seq(C) /\ IsInjective(PopularAssets)
    BY MarketParameters
  <1> HIDE DEF C
  <1>2. DOMAIN PopularAssets = 1..Len(PopularAssets) /\ Len(PopularAssets) \in Nat
    BY <1>1
  <1> QED
    BY <1>1, <1>2 DEF C

\* A list has as many members as positions when no member has two.
LEMMA DistinctMembers ==
  ASSUME NEW S, NEW list \in Seq(S), \A i, j \in DOMAIN list : list[i] = list[j] => i = j
  PROVE  Cardinality(ToSet(list)) = Len(list)
  <1> DEFINE D == DOMAIN list
             T == ToSet(list)
  <1>1. list \in [D -> T] /\ \A t \in T : \E i \in D : list[i] = t
    BY DEF ToSet
  <1>2. IsFiniteSet(D) /\ Cardinality(D) = Len(list)
    <2>1. D = 1..Len(list) /\ Len(list) \in Nat
      OBVIOUS
    <2> HIDE DEF D
    <2> QED
      BY <2>1, FS_Interval
  <1>3. \A i, j \in D : list[i] = list[j] => i = j
    OBVIOUS
  <1> HIDE DEF D, T
  <1>4. list \in Bijection(D, T)
    BY <1>1, <1>3 DEF Bijection, Injection, Surjection, IsInjective
  <1>5. Cardinality(T) = Cardinality(D)
    BY <1>2, <1>4, FS_Bijection DEF ExistsBijection
  <1> QED
    BY <1>2, <1>5 DEF T

\* In such a list the curated assets are the first m and nothing is shown twice.
LEMMA JoinedIs ==
  ASSUME NEW stocks, Listed(stocks), NEW shown, NEW m, NEW k, Joined(shown, stocks, m, k)
  PROVE  /\ {i \in DOMAIN shown : shown[i] \in ToSet(PopularAssets)} = 1..m
         /\ SubSeq(shown, 1, m) = SubSeq(PopularAssets, 1, m)
         /\ Cardinality(ToSet(shown)) = Len(shown)
  <1>1. /\ m \in Nat /\ k \in Nat /\ m <= Len(PopularAssets) /\ k <= Len(stocks)
        /\ stocks \in Seq(Symbols) /\ Len(shown) = m + k /\ DOMAIN shown = 1..(m + k)
        /\ DOMAIN stocks = 1..Len(stocks) /\ IsInjective(stocks)
        /\ shown \in Seq(ToSet(PopularAssets) \union Symbols)
    BY DEF Joined, Listed
  <1>2. /\ PopularAssets \in Seq(ToSet(PopularAssets) \ Symbols) /\ IsInjective(PopularAssets)
        /\ DOMAIN PopularAssets = 1..Len(PopularAssets) /\ Len(PopularAssets) \in Nat
    BY CuratedAssets
  <1>3. ASSUME NEW i \in 1..m
        PROVE  /\ shown[i] = PopularAssets[i] /\ i \in DOMAIN PopularAssets
               /\ shown[i] \in ToSet(PopularAssets) /\ shown[i] \notin Symbols
    <2>1. shown[i] = PopularAssets[i] /\ i \in DOMAIN PopularAssets
      BY <1>1, <1>2 DEF Joined
    <2>2. PopularAssets[i] \in ToSet(PopularAssets) \ Symbols
      BY <1>2, <2>1
    <2> QED
      BY <2>1, <2>2
  <1>4. ASSUME NEW i \in (m + 1)..(m + k)
        PROVE  /\ shown[i] = stocks[i - m] /\ i - m \in DOMAIN stocks
               /\ shown[i] \in Symbols /\ shown[i] \notin ToSet(PopularAssets)
    <2>1. i - m \in 1..k /\ i = m + (i - m) /\ i - m \in DOMAIN stocks
      BY <1>1
    <2>2. shown[i] = stocks[i - m]
      <3> DEFINE j == i - m
      <3>1. j \in 1..k /\ i = m + j
        BY <2>1
      <3> HIDE DEF j
      <3>2. shown[m + j] = stocks[j]
        BY <3>1 DEF Joined
      <3> QED
        BY <3>1, <3>2 DEF j
    <2>3. stocks[i - m] \in Symbols
      BY <1>1, <2>1
    <2>4. ASSUME NEW j \in DOMAIN PopularAssets PROVE PopularAssets[j] \notin Symbols
      BY <1>2
    <2> QED
      BY <2>1, <2>2, <2>3, <2>4 DEF ToSet
  <1>5. {i \in DOMAIN shown : shown[i] \in ToSet(PopularAssets)} = 1..m
    <2>1. \A i \in 1..(m + k) : i \in 1..m \/ i \in (m + 1)..(m + k)
      BY <1>1
    <2>2. 1..m \subseteq 1..(m + k)
      BY <1>1
    <2> QED
      BY <1>1, <1>3, <1>4, <2>1, <2>2
  <1>6. SubSeq(shown, 1, m) = SubSeq(PopularAssets, 1, m)
    <2>1. /\ SubSeq(shown, 1, m) = [i \in 1..m |-> shown[i]]
          /\ SubSeq(PopularAssets, 1, m) = [i \in 1..m |-> PopularAssets[i]]
      BY <1>1, <1>2
    <2> QED
      BY <1>3, <2>1
  <1>7. ASSUME NEW i \in DOMAIN shown, NEW j \in DOMAIN shown, shown[i] = shown[j] PROVE i = j
    <2>1. CASE i \in 1..m /\ j \in 1..m
      BY <1>2, <1>3, <1>7, <2>1 DEF IsInjective
    <2>2. CASE i \in (m + 1)..(m + k) /\ j \in (m + 1)..(m + k)
      <3>1. stocks[i - m] = stocks[j - m] /\ i - m \in DOMAIN stocks /\ j - m \in DOMAIN stocks
        BY <1>4, <1>7, <2>2
      <3>2. i - m = j - m
        BY <1>1, <3>1 DEF IsInjective
      <3> QED
        BY <1>1, <2>2, <3>2
    <2>3. \A x \in 1..(m + k) : x \in 1..m \/ x \in (m + 1)..(m + k)
      BY <1>1
    <2>4. (i \in 1..m <=> shown[i] \notin Symbols) /\ (j \in 1..m <=> shown[j] \notin Symbols)
      BY <1>1, <1>3, <1>4, <2>3
    <2> QED
      BY <1>1, <1>7, <2>1, <2>2, <2>3, <2>4
  <1>8. Cardinality(ToSet(shown)) = Len(shown)
    <2> DEFINE T == ToSet(PopularAssets) \union Symbols
    <2>1. shown \in Seq(T)
      BY <1>1
    <2> HIDE DEF T
    <2> QED
      BY <1>7, <2>1, DistinctMembers
  <1> QED
    BY <1>5, <1>6, <1>8

\* What a provider's stocks are in the cache: a list, or not known.
StocksKnown(stocks) == IF stocks = Unknown THEN <<>> ELSE stocks.active

LEMMA StocksAreListed ==
  ASSUME NEW p \in Providers
  PROVE  Listed(StocksKnown(Stocks(p).value))
  <1> DEFINE stocks == GetMostActiveStocks(p.active, MostActive)
  <1>1. Listed(<<>>)
    BY DEF Listed, IsInjective
  <1>2. CASE stocks = Outage
    <2>1. Stocks(p).value = Unknown
      BY <1>2 DEF Stocks, Degraded
    <2> QED
      BY <1>1, <2>1 DEF StocksKnown
  <1>3. CASE stocks # Outage
    <2>1. Stocks(p).value = [active |-> stocks]
      BY <1>3 DEF Stocks
    <2>2. Listed(stocks)
      BY <1>3, ActiveOnce
    <2> HIDE DEF stocks
    <2>3. StocksKnown(Stocks(p).value) \in {<<>>, stocks}
      BY <2>1 DEF StocksKnown
    <2> QED
      BY <1>1, <2>2, <2>3
  <1> QED
    BY <1>2, <1>3

\* A list of one kind is a joined list with none of the other.
LEMMA CuratedIsJoined ==
  ASSUME NEW stocks, Listed(stocks), NEW shown \in Seq(ToSet(PopularAssets) \ Symbols),
         Len(shown) <= Len(PopularAssets),
         \A i \in 1..Len(shown) : shown[i] = PopularAssets[i]
  PROVE  Joined(shown, stocks, Len(shown), 0)
  <1>1. Len(shown) \in Nat /\ Len(shown) = Len(shown) + 0 /\ Len(shown) \in 0..Len(PopularAssets)
    BY CuratedAssets
  <1>2. shown \in Seq(ToSet(PopularAssets) \union Symbols)
    <2> DEFINE C == ToSet(PopularAssets) \ Symbols
               D == ToSet(PopularAssets) \union Symbols
    <2>1. C \subseteq D /\ shown \in Seq(C)
      OBVIOUS
    <2> HIDE DEF C, D
    <2>2. shown \in Seq(D)
      BY <2>1
    <2> QED
      BY <2>2 DEF D
  <1>3. 0 \in 0..Len(stocks)
    BY DEF Listed
  <1> QED
    BY <1>1, <1>2, <1>3 DEF Joined

LEMMA StocksAreJoined ==
  ASSUME NEW stocks, Listed(stocks), NEW shown \in Seq(Symbols),
         Len(shown) <= Len(stocks),
         \A i \in 1..Len(shown) : shown[i] = stocks[i]
  PROVE  Joined(shown, stocks, 0, Len(shown))
  <1>1. /\ Len(shown) \in Nat /\ Len(shown) = 0 + Len(shown) /\ Len(shown) \in 0..Len(stocks)
        /\ 0 \in 0..Len(PopularAssets)
    BY CuratedAssets DEF Listed
  <1>2. shown \in Seq(ToSet(PopularAssets) \union Symbols)
    <2> DEFINE D == ToSet(PopularAssets) \union Symbols
    <2>1. Symbols \subseteq D
      OBVIOUS
    <2> HIDE DEF D
    <2>2. shown \in Seq(D)
      BY <2>1
    <2> QED
      BY <2>2 DEF D
  <1>3. \A i \in 1..Len(shown) : 0 + i = i
    BY <1>1
  <1> QED
    BY <1>1, <1>2, <1>3 DEF Joined

\* The first few of each, one after the other.
LEMMA BothAreJoined ==
  ASSUME NEW stocks, Listed(stocks),
         NEW a \in Seq(ToSet(PopularAssets) \ Symbols), Len(a) <= Len(PopularAssets),
         \A i \in 1..Len(a) : a[i] = PopularAssets[i],
         NEW b \in Seq(Symbols), Len(b) <= Len(stocks), \A i \in 1..Len(b) : b[i] = stocks[i]
  PROVE  Joined(a \o b, stocks, Len(a), Len(b))
  <1> DEFINE C == ToSet(PopularAssets) \ Symbols
             D == ToSet(PopularAssets) \union Symbols
             shown == a \o b
  <1>1. Len(a) \in Nat /\ Len(b) \in Nat /\ Len(a) \in 0..Len(PopularAssets) /\ Len(b) \in 0..Len(stocks)
    BY CuratedAssets DEF Listed
  <1>2. C \subseteq D /\ Symbols \subseteq D /\ a \in Seq(C) /\ b \in Seq(Symbols)
    OBVIOUS
  <1>3. /\ \A i \in 1..Len(a) : a[i] = PopularAssets[i]
        /\ \A i \in 1..Len(b) : b[i] = stocks[i]
    OBVIOUS
  <1> HIDE DEF C, D
  <1>4. a \in Seq(D) /\ b \in Seq(D)
    BY <1>2
  <1>5. shown \in Seq(D) /\ Len(shown) = Len(a) + Len(b)
    BY <1>4
  <1>6. \A i \in 1..Len(a) : shown[i] = a[i]
    BY <1>1, <1>4
  <1>7. \A i \in 1..Len(b) : shown[Len(a) + i] = b[i]
    BY <1>1, <1>4
  <1> HIDE DEF shown
  <1>8. Joined(shown, stocks, Len(a), Len(b))
    BY <1>1, <1>3, <1>5, <1>6, <1>7 DEF Joined, D
  <1> QED
    BY <1>8 DEF shown

\* Every list is of that form, of lengths that keep the limit and the share of each kind.
PopularParts(type, limit, shown, stocks, m, k) ==
    /\ Joined(shown, stocks, m, k)
    /\ limit > 0 => m + k <= limit
    /\ type = "all" => m = Len(PopularAssets) \/ (5 * m >= 3 * limit /\ 5 * (m - 1) < 3 * limit)
    /\ type # "crypto" => k = Len(stocks) \/ m + k = limit

LEMMA PopularHasParts ==
  ASSUME NEW type \in {"crypto", "stock", "all"}, NEW limit \in Nat, NEW stocks,
         Listed(StocksKnown(stocks))
  PROVE  \E m, k \in Nat : PopularParts(type, limit, Popular(type, limit, stocks), StocksKnown(stocks), m, k)
  <1> DEFINE known == StocksKnown(stocks)
             C == ToSet(PopularAssets) \ Symbols
             shown == Popular(type, limit, stocks)
  <1>1. /\ PopularAssets \in Seq(C) /\ Len(PopularAssets) \in Nat
        /\ known \in Seq(Symbols) /\ Len(known) \in Nat /\ Listed(known)
    BY CuratedAssets DEF Listed
  <1>2. /\ shown = IF type = "crypto" THEN (IF limit = 0 THEN PopularAssets ELSE Upto(limit, PopularAssets))
                   ELSE IF type = "stock" THEN (IF limit = 0 THEN known ELSE Upto(limit, known))
                   ELSE IF limit = 0 THEN PopularAssets \o known
                   ELSE Upto(CryptoShare(limit), PopularAssets) \o Upto(limit - CryptoShare(limit), known)
    BY DEF Popular, StocksKnown
  <1>3. SUFFICES \E m, k \in Nat : PopularParts(type, limit, shown, known, m, k)
    OBVIOUS
  <1> HIDE DEF known, C, shown
  <1>4. CASE type = "crypto"
    <2>1. /\ shown \in Seq(C) /\ Len(shown) <= Len(PopularAssets) /\ (limit > 0 => Len(shown) <= limit)
          /\ \A i \in 1..Len(shown) : shown[i] = PopularAssets[i]
      BY <1>1, <1>2, <1>4, UptoIs
    <2>2. Joined(shown, known, Len(shown), 0)
      BY <1>1, <2>1, CuratedIsJoined DEF C
    <2>3. Len(shown) \in Nat
      BY <2>1
    <2> QED
      BY <1>4, <2>1, <2>2, <2>3 DEF PopularParts
  <1>5. CASE type = "stock"
    <2>1. /\ shown \in Seq(Symbols) /\ Len(shown) <= Len(known) /\ (limit > 0 => Len(shown) <= limit)
          /\ Len(shown) = Len(known) \/ Len(shown) = limit
          /\ \A i \in 1..Len(shown) : shown[i] = known[i]
      BY <1>1, <1>2, <1>5, UptoIs
    <2>2. Joined(shown, known, 0, Len(shown))
      BY <1>1, <2>1, StocksAreJoined
    <2>3. Len(shown) \in Nat
      BY <2>1
    <2> QED
      BY <1>5, <2>1, <2>2, <2>3 DEF PopularParts
  <1>6. CASE type = "all" /\ limit = 0
    <2>1. shown = PopularAssets \o known
      BY <1>2, <1>6
    <2>2. Joined(shown, known, Len(PopularAssets), Len(known))
      BY <1>1, <2>1, BothAreJoined DEF C
    <2> QED
      BY <1>1, <1>6, <2>2 DEF PopularParts
  <1>7. CASE type = "all" /\ limit > 0
    <2> DEFINE share == CryptoShare(limit)
               q == (limit * 6 + 9) \div 10
    <2>1. q \in Nat /\ q <= limit /\ 5 * q >= 3 * limit /\ 5 * (q - 1) < 3 * limit
      BY <1>7
    <2>2. share = IF q <= Len(PopularAssets) THEN q ELSE Len(PopularAssets)
      <3> HIDE DEF q
      <3>1. Min({q, Len(PopularAssets)}) = IF q <= Len(PopularAssets) THEN q ELSE Len(PopularAssets)
        BY <1>1, <2>1, MinOfTwo
      <3> QED
        BY <3>1 DEF CryptoShare, q
    <2> HIDE DEF share, q
    <2>3. share \in Nat /\ share <= limit /\ share <= Len(PopularAssets) /\ limit - share \in Nat
      BY <1>1, <2>1, <2>2
    <2> DEFINE a == Upto(share, PopularAssets)
               b == Upto(limit - share, known)
    <2>4. /\ a \in Seq(C) /\ Len(a) = share
          /\ \A i \in 1..Len(a) : a[i] = PopularAssets[i]
      BY <1>1, <2>3, UptoIs
    <2>5. /\ b \in Seq(Symbols)
          /\ Len(b) = IF limit - share <= Len(known) THEN limit - share ELSE Len(known)
          /\ \A i \in 1..Len(b) : b[i] = known[i]
      <3> DEFINE n == limit - share
      <3>1. n \in Nat
        BY <2>3
      <3> HIDE DEF n
      <3>2. /\ Upto(n, known) \in Seq(Symbols)
            /\ Len(Upto(n, known)) = IF n <= Len(known) THEN n ELSE Len(known)
            /\ \A i \in 1..Len(Upto(n, known)) : Upto(n, known)[i] = known[i]
        BY <1>1, <3>1, UptoIs
      <3> QED
        BY <3>2 DEF n
    <2>6. shown = a \o b
      BY <1>2, <1>7 DEF share
    <2> HIDE DEF a, b
    <2>7. Joined(shown, known, Len(a), Len(b))
      <3>1. a \in Seq(ToSet(PopularAssets) \ Symbols) /\ Len(a) <= Len(PopularAssets)
        BY <2>3, <2>4 DEF C
      <3>2. b \in Seq(Symbols) /\ Len(b) <= Len(known)
        BY <1>1, <2>3, <2>5
      <3>3. Joined(a \o b, known, Len(a), Len(b))
        BY ONLY <1>1, <2>4, <2>5, <3>1, <3>2, BothAreJoined
      <3> QED
        BY <2>6, <3>3
    <2> QED
      BY <1>1, <1>7, <2>1, <2>2, <2>3, <2>4, <2>5, <2>7 DEF PopularParts
  <1> QED
    BY <1>4, <1>5, <1>6, <1>7

\* Whatever stocks the provider names and however often it fails, the popular list keeps its
\* curated assets, its limit and its split (handler/popular.go list).
THEOREM PopularAlwaysKeepsItsShares == MarketSpec => []PopularKeepsItsShares
  <1>1. ASSUME Heard PROVE PopularKeepsItsShares
    <2> SUFFICES ASSUME NEW c \in Callers, read = "popular", pc[c] = "answered",
                        NEW limit \in Limits, NEW type \in {"crypto", "stock", "all"}
                 PROVE  LET stocks == answer[c].value
                            shown  == Popular(type, limit, stocks)
                            crypto == {i \in DOMAIN shown : shown[i] \in ToSet(PopularAssets)}
                            n      == Cardinality(crypto)
                        IN  /\ limit > 0 => Len(shown) <= limit
                            /\ crypto = 1..n /\ SubSeq(shown, 1, n) = SubSeq(PopularAssets, 1, n)
                            /\ Cardinality(ToSet(shown)) = Len(shown)
                            /\ type = "all" => n = Len(PopularAssets) \/ (5 * n >= 3 * limit /\ 5 * (n - 1) < 3 * limit)
                            /\ type # "crypto" /\ stocks # Unknown =>
                                  Len(shown) = n + Len(stocks.active) \/ Len(shown) = limit
      BY DEF PopularKeepsItsShares, Answered
    <2> DEFINE stocks == answer[c].value
               shown == Popular(type, limit, stocks)
               crypto == {i \in DOMAIN shown : shown[i] \in ToSet(PopularAssets)}
               n == Cardinality(crypto)
    <2>1. Listed(StocksKnown(stocks))
      <3>1. PICK o \in Providers : answer[c].value = Stocks(o).value
        BY <1>1 DEF Heard, FromProvider, Outcome
      <3> QED
        BY <3>1, StocksAreListed
    <2>2. limit \in Nat
      BY RequestsAreParsed
    <2>3. PICK m \in Nat, k \in Nat : PopularParts(type, limit, shown, StocksKnown(stocks), m, k)
      <3> HIDE DEF stocks
      <3> QED
        BY <2>1, <2>2, PopularHasParts
    <2> HIDE DEF stocks, shown
    <2>4. /\ crypto = 1..m /\ SubSeq(shown, 1, m) = SubSeq(PopularAssets, 1, m)
          /\ Cardinality(ToSet(shown)) = Len(shown) /\ Len(shown) = m + k
      <3> DEFINE known == StocksKnown(stocks)
      <3>1. Listed(known) /\ Joined(shown, known, m, k)
        BY <2>1, <2>3 DEF PopularParts
      <3> HIDE DEF known
      <3>2. /\ {i \in DOMAIN shown : shown[i] \in ToSet(PopularAssets)} = 1..m
            /\ SubSeq(shown, 1, m) = SubSeq(PopularAssets, 1, m)
            /\ Cardinality(ToSet(shown)) = Len(shown)
        BY ONLY <3>1, JoinedIs
      <3> QED
        BY <3>1, <3>2 DEF Joined
    <2>5. n = m
      <3>1. Cardinality(1..m) = m
        BY FS_Interval
      <3> QED
        BY <2>4, <3>1
    <2> HIDE DEF crypto, n
    <2>6. /\ limit > 0 => Len(shown) <= limit
          /\ type = "all" => n = Len(PopularAssets) \/ (5 * n >= 3 * limit /\ 5 * (n - 1) < 3 * limit)
          /\ type # "crypto" => Len(shown) = n + Len(StocksKnown(stocks)) \/ Len(shown) = limit
      BY <2>3, <2>4, <2>5 DEF PopularParts
    <2>7. stocks # Unknown => StocksKnown(stocks) = stocks.active
      BY DEF StocksKnown
    <2>8. /\ crypto = 1..n /\ SubSeq(shown, 1, n) = SubSeq(PopularAssets, 1, n)
          /\ Cardinality(ToSet(shown)) = Len(shown)
      BY <2>4, <2>5
    <2>9. /\ limit > 0 => Len(shown) <= limit
          /\ crypto = 1..n /\ SubSeq(shown, 1, n) = SubSeq(PopularAssets, 1, n)
          /\ Cardinality(ToSet(shown)) = Len(shown)
          /\ type = "all" => n = Len(PopularAssets) \/ (5 * n >= 3 * limit /\ 5 * (n - 1) < 3 * limit)
          /\ type # "crypto" /\ stocks # Unknown =>
                Len(shown) = n + Len(stocks.active) \/ Len(shown) = limit
      BY <2>6, <2>7, <2>8
    <2> QED
      BY <2>9 DEF stocks, shown, crypto, n
  <1> QED
    BY <1>1, MarketInvariance, PTL

-----------------------------------------------------------------------------
(* Lists at some of their positions. *)

\* The k-th position: the ranks of positions are one to one with the numbers up to theirs.
LEMMA KthIs ==
  ASSUME NEW n \in Nat, NEW P, P \subseteq 1..n
  PROVE  /\ Cardinality(P) \in Nat
         /\ \A k \in 1..Cardinality(P) : Kth(P, k) \in P
         /\ \A k, l \in 1..Cardinality(P) : Kth(P, k) = Kth(P, l) => k = l
         /\ \A i \in P : \E k \in 1..Cardinality(P) : Kth(P, k) = i
  <1> DEFINE C == Cardinality(P)
             upTo(i) == {j \in P : j <= i}
             rank == [i \in P |-> Cardinality(upTo(i))]
             ranks == 1..C
  <1>1. IsFiniteSet(P) /\ C \in Nat
    <2>1. IsFiniteSet(1..n)
      BY FS_Interval
    <2>2. P \in SUBSET (1..n)
      OBVIOUS
    <2>3. IsFiniteSet(P)
      BY <2>1, <2>2, FS_Subset
    <2> QED
      BY <2>3, FS_CardinalityType
  <1>2. ASSUME NEW i \in P
        PROVE  /\ IsFiniteSet(upTo(i)) /\ Cardinality(upTo(i)) \in Nat
               /\ Cardinality(upTo(i)) \in ranks
    <2> DEFINE U == upTo(i)
    <2>1. U \in SUBSET P /\ i \in U
      OBVIOUS
    <2> HIDE DEF U
    <2>2. IsFiniteSet(U) /\ Cardinality(U) <= C
      BY <1>1, <2>1, FS_Subset
    <2>3. Cardinality(U) \in Nat
      BY <2>2, FS_CardinalityType
    <2>4. Cardinality(U) # 0
      BY <2>1, <2>2, FS_EmptySet
    <2> QED
      BY <1>1, <2>2, <2>3, <2>4 DEF U
  <1>3. ASSUME NEW i \in P, NEW j \in P, i < j PROVE rank[i] # rank[j]
    <2> DEFINE U == upTo(i)
               V == upTo(j)
    <2>1. U \in SUBSET V /\ j \in V /\ j \notin U
      <3>1. \A x \in P : x \in Int /\ (x <= i => x <= j)
        BY <1>3
      <3>2. j \in Int /\ i \in Int /\ j <= j /\ ~ (j <= i)
        BY <1>3
      <3> QED
        BY <3>1, <3>2
    <2>2. IsFiniteSet(V) /\ rank[i] = Cardinality(U) /\ rank[j] = Cardinality(V)
      BY <1>2
    <2> HIDE DEF U, V, rank
    <2> QED
      BY <2>1, <2>2, FS_Subset
  <1>4. rank \in Injection(P, ranks)
    <2>1. rank \in [P -> ranks]
      BY <1>2
    <2>2. \A i, j \in P : i = j \/ i < j \/ j < i
      OBVIOUS
    <2>3. \A i, j \in P : rank[i] = rank[j] => i = j
      <3> HIDE DEF rank
      <3> QED
        BY <1>3, <2>2
    <2> HIDE DEF rank, ranks
    <2> QED
      BY <2>1, <2>3 DEF Injection, IsInjective
  <1>5. \A k \in ranks : \E i \in P : rank[i] = k
    <2>1. IsFiniteSet(ranks) /\ Cardinality(ranks) = C
      BY <1>1, FS_Interval
    <2> HIDE DEF rank, ranks
    <2>2. rank \in Surjection(P, ranks)
      BY <1>4, <2>1, FS_Injection
    <2> QED
      BY <2>2 DEF Surjection
  <1>6. ASSUME NEW k \in ranks PROVE Kth(P, k) \in P /\ rank[Kth(P, k)] = k
    <2>1. \E i \in P : Cardinality({j \in P : j <= i}) = k
      BY <1>5
    <2>2. Kth(P, k) \in P /\ Cardinality({j \in P : j <= Kth(P, k)}) = k
      BY <2>1 DEF Kth
    <2> QED
      BY <2>2
  <1>7. ASSUME NEW i \in P PROVE \E k \in ranks : Kth(P, k) = i
    <2>1. rank[i] \in ranks
      BY <1>2
    <2> HIDE DEF rank, ranks
    <2>2. Kth(P, rank[i]) \in P /\ rank[Kth(P, rank[i])] = rank[i]
      BY <1>6, <2>1
    <2>3. Kth(P, rank[i]) = i
      BY <1>4, <2>2 DEF Injection, IsInjective
    <2> QED
      BY <2>1, <2>3
  <1>8. \A k, l \in ranks : Kth(P, k) = Kth(P, l) => k = l
    <2> HIDE DEF rank, ranks
    <2> QED
      BY <1>6
  <1> QED
    BY <1>1, <1>6, <1>7, <1>8

\* What a list holds at some positions is all of it, once each and nothing else.
LEMMA AtIs ==
  ASSUME NEW n \in Nat, NEW P, P \subseteq 1..n, NEW list, NEW T, \A i \in P : list[i] \in T
  PROVE  /\ At(list, P) \in Seq(T)
         /\ DOMAIN At(list, P) = 1..Cardinality(P)
         /\ Cardinality(P) \in Nat
         /\ \A k \in 1..Cardinality(P) : Kth(P, k) \in P /\ At(list, P)[k] = list[Kth(P, k)]
  <1> DEFINE C == Cardinality(P)
  <1>1. C \in Nat /\ \A k \in 1..C : Kth(P, k) \in P
    BY KthIs
  <1> HIDE DEF C
  <1>2. At(list, P) = [k \in 1..C |-> list[Kth(P, k)]]
    BY DEF At, C
  <1>3. \A k \in 1..C : list[Kth(P, k)] \in T
    BY <1>1
  <1>4. At(list, P) \in Seq(T)
    BY <1>1, <1>2, <1>3
  <1> QED
    BY <1>1, <1>2, <1>4 DEF C


LEMMA ListsHave ==
  ASSUME NEW T, NEW list \in Seq(T)
  PROVE  Len(list) \in Nat /\ DOMAIN list = 1..Len(list) /\ \A i \in 1..Len(list) : list[i] \in T
  OBVIOUS

LEMMA EmptyIsList == ASSUME NEW T PROVE <<>> \in Seq(T)
  OBVIOUS

LEMMA FunctionsAreLists ==
  ASSUME NEW n \in Nat, NEW T, NEW f \in [1..n -> T]
  PROVE  f \in Seq(T)
  OBVIOUS

LEMMA OneIsEarlier ==
  ASSUME NEW n \in Nat, NEW i \in 1..n, NEW j \in 1..n
  PROVE  i = j \/ i \in 1..(j - 1) \/ j \in 1..(i - 1)
  OBVIOUS

\* No earlier position holds the same.
FirstThere(key, j) == \A x \in 1..(j - 1) : key[x] # key[j]

\* What is somewhere in a list is first somewhere.
LEMMA FirstOf ==
  ASSUME NEW n \in Nat, NEW key, NEW i \in 1..n
  PROVE  \E j \in 1..n : key[j] = key[i] /\ FirstThere(key, j)
  <1> DEFINE Same == {x \in 1..n : key[x] = key[i]}
             j == Min(Same)
  <1>1. Same \subseteq 1..n /\ Same # {}
    OBVIOUS
  <1>2. j \in Same /\ \A x \in Same : j <= x
    <2> HIDE DEF Same
    <2> QED
      BY <1>1, FirstPosition
  <1> HIDE DEF j
  <1>3. ASSUME NEW x \in 1..(j - 1) PROVE key[x] # key[j]
    <2>1. x \in 1..n /\ x < j
      BY <1>2
    <2>2. x \notin Same
      BY <1>2, <2>1
    <2> QED
      BY <1>2, <2>1, <2>2
  <1> QED
    BY <1>2, <1>3 DEF FirstThere

-----------------------------------------------------------------------------
(* One symbol and several. *)

\* What is asked for is parsed to known symbols, each once.
LEMMA ParsedIs ==
  ASSUME NEW parts \in Seq(Symbols \union {""})
  PROVE  /\ ParseSymbols(parts) \in Seq(UpperCase)
         /\ ToSet(ParseSymbols(parts)) = {Upper[s] : s \in ToSet(parts) \ {""}}
         /\ \A i, j \in DOMAIN ParseSymbols(parts) :
               ParseSymbols(parts)[i] = ParseSymbols(parts)[j] => i = j
  <1> DEFINE n == Len(parts)
             upper == [i \in DOMAIN parts |-> IF parts[i] = "" THEN "" ELSE Upper[parts[i]]]
             P == {i \in DOMAIN upper : upper[i] # "" /\ \A j \in 1..(i - 1) : upper[j] # upper[i]}
             symbols == At(upper, P)
             C == Cardinality(P)
  <1>1. n \in Nat /\ DOMAIN parts = 1..n /\ \A i \in 1..n : parts[i] \in Symbols \union {""}
    <2> DEFINE T == Symbols \union {""}
    <2>1. parts \in Seq(T)
      OBVIOUS
    <2> HIDE DEF T
    <2>2. Len(parts) \in Nat /\ DOMAIN parts = 1..Len(parts) /\ \A i \in 1..Len(parts) : parts[i] \in T
      BY <2>1, ListsHave
    <2> QED
      BY <2>2 DEF T
  <1>2. \A s \in Symbols : Upper[s] \in UpperCase /\ Upper[s] # ""
    BY MarketParameters DEF UpperCase
  <1>3. \A i \in 1..n : upper[i] = IF parts[i] = "" THEN "" ELSE Upper[parts[i]]
    BY <1>1
  <1>4. P = {i \in 1..n : upper[i] # "" /\ \A j \in 1..(i - 1) : upper[j] # upper[i]}
    BY <1>1
  <1>5. ParseSymbols(parts) = symbols
    BY DEF ParseSymbols
  <1> HIDE DEF n, upper, P, symbols, C
  <1>6. P \subseteq 1..n /\ \A i \in P : upper[i] \in UpperCase
    BY <1>1, <1>2, <1>3, <1>4
  <1>7. /\ symbols \in Seq(UpperCase) /\ DOMAIN symbols = 1..C /\ C \in Nat
        /\ \A k \in 1..C : Kth(P, k) \in P /\ symbols[k] = upper[Kth(P, k)]
    BY <1>1, <1>6, AtIs DEF symbols, C
  <1>8. /\ \A k, l \in 1..C : Kth(P, k) = Kth(P, l) => k = l
        /\ \A i \in P : \E k \in 1..C : Kth(P, k) = i
    BY <1>1, <1>6, KthIs DEF C
  <1>9. \A k, l \in 1..C : symbols[k] = symbols[l] => k = l
    <2>1. ASSUME NEW i \in P, NEW j \in P, upper[i] = upper[j] PROVE i = j
      <3>1. i \in 1..n /\ j \in 1..n
        BY <1>6
      <3>2. i = j \/ i \in 1..(j - 1) \/ j \in 1..(i - 1)
        BY <1>1, <3>1, OneIsEarlier
      <3> QED
        BY <1>4, <2>1, <3>2
    <2> QED
      BY <1>7, <1>8, <2>1
  <1>10. ASSUME NEW s \in ToSet(parts) \ {""} PROVE Upper[s] \in ToSet(symbols)
    <2>1. PICK i \in 1..n : parts[i] = s
      BY <1>1 DEF ToSet
    <2>2. upper[i] = Upper[s] /\ Upper[s] # ""
      BY <1>1, <1>2, <1>3, <1>10, <2>1
    <2>3. PICK j \in 1..n : upper[j] = upper[i] /\ FirstThere(upper, j)
      BY <1>1, FirstOf
    <2>4. j \in P
      BY <1>4, <2>2, <2>3 DEF FirstThere
    <2>5. PICK k \in 1..C : Kth(P, k) = j
      BY <1>8, <2>4
    <2>6. symbols[k] = Upper[s]
      BY <1>7, <2>2, <2>3, <2>5
    <2> QED
      BY <1>7, <2>6 DEF ToSet
  <1>11. ASSUME NEW k \in 1..C PROVE symbols[k] \in {Upper[s] : s \in ToSet(parts) \ {""}}
    <2>1. Kth(P, k) \in 1..n /\ symbols[k] = upper[Kth(P, k)] /\ upper[Kth(P, k)] # ""
      BY <1>4, <1>6, <1>7
    <2>2. parts[Kth(P, k)] \in ToSet(parts) \ {""} /\ symbols[k] = Upper[parts[Kth(P, k)]]
      BY <1>1, <1>3, <2>1 DEF ToSet
    <2> QED
      BY <2>2
  <1>12. ToSet(symbols) = {Upper[s] : s \in ToSet(parts) \ {""}}
    BY <1>7, <1>10, <1>11 DEF ToSet
  <1> QED
    BY <1>5, <1>7, <1>9, <1>12

\* A change or a chart is an error or what it should be, and what it should be is no error.
LEMMA LookupsAre ==
  ASSUME NEW p \in Providers, NEW s \in UpperCase
  PROVE  /\ GetPriceChange(p.change[s]) \in {Outage, NotFound} \union [of : Symbols]
         /\ GetHistoryClose(p.history[s]) \in {Outage, NotFound} \union Seq([day : Int, close : Int])
  <1> DEFINE Closing == [day : Int, close : Int]
             Change == [of : Symbols]
             changes == p.change[s]
             history == p.history[s]
  <1>1. history \in Replies(Closing) /\ changes \in Replies(Change)
    BY MarketParameters DEF Provider
  <1> HIDE DEF Closing, Change, changes, history
  <1>2. GetPriceChange(changes) \in {Outage, NotFound} \union Change
    BY <1>1, FirstIsRow DEF GetPriceChange
  <1>3. GetHistoryClose(history) \in {Outage, NotFound} \union Seq(Closing)
    <2> DEFINE rows == HistoricalRows(history)
    <2>1. rows = Outage \/ rows \in Seq(Closing)
      BY <1>1, RowsOfReply
    <2> HIDE DEF rows
    <2>2. CASE rows = Outage
      BY <2>2 DEF GetHistoryClose, rows
    <2>3. CASE rows # Outage /\ rows = <<>>
      BY <2>3 DEF GetHistoryClose, rows
    <2>4. CASE rows # Outage /\ rows # <<>>
      <3>1. rows \in Seq(Closing)
        BY <2>1, <2>4
      <3>2. Reverse(rows) \in Seq(Closing)
        <4>1. \A i \in 1..Len(rows) : Len(rows) - i + 1 \in 1..Len(rows)
          BY <3>1
        <4>2. \A i \in 1..Len(rows) : rows[(Len(rows) - i) + 1] \in Closing
          BY <3>1, <4>1
        <4>3. Len(rows) \in Nat
          BY <3>1
        <4> QED
          BY <4>2, <4>3 DEF Reverse
      <3>3. GetHistoryClose(history) = Reverse(rows)
        BY <2>4 DEF GetHistoryClose, rows
      <3> QED
        BY <3>2, <3>3
    <2> QED
      BY <2>2, <2>3, <2>4
  <1> QED
    BY <1>2, <1>3 DEF Closing, Change, changes, history

\* Every symbol that was asked for is one the provider has an answer to.
LEMMA ParsedAre ==
  ASSUME NEW parts \in Seq(Symbols \union {""})
  PROVE  /\ Len(ParseSymbols(parts)) \in Nat
         /\ DOMAIN ParseSymbols(parts) = 1..Len(ParseSymbols(parts))
         /\ \A i \in 1..Len(ParseSymbols(parts)) :
               ParseSymbols(parts)[i] \in UpperCase /\ ParseSymbols(parts)[i] \in Symbols
  <1>1. UpperCase \subseteq Symbols
    BY MarketParameters DEF UpperCase
  <1>2. ParseSymbols(parts) \in Seq(UpperCase)
    BY ParsedIs
  <1> QED
    BY <1>1, <1>2, ListsHave

LEMMA HistoriesAre ==
  ASSUME NEW p \in Providers, NEW parts \in Seq(Symbols \union {""})
  PROVE  LET symbols == ParseSymbols(parts)
             history == BatchHistory(p, parts)
             close(s) == GetHistoryClose(p.history[s])
         IN  /\ (history = Outage) <=> (\E i \in DOMAIN symbols : close(symbols[i]) = Outage)
             /\ history # Outage => \A i \in DOMAIN symbols :
                   history[i].symbol = symbols[i] /\
                   history[i].points = (IF close(symbols[i]) = NotFound THEN <<>> ELSE close(symbols[i]))
  <1> DEFINE symbols == ParseSymbols(parts)
             close(s) == GetHistoryClose(p.history[s])
             n == Len(symbols)
             points(s) == IF close(s) = NotFound THEN <<>> ELSE close(s)
             charts == [i \in 1..n |-> [symbol |-> symbols[i], points |-> points(symbols[i])]]
             Closing == [day : Int, close : Int]
             Chart == [symbol : Symbols, points : Seq(Closing)]
  <1>1. /\ n \in Nat /\ DOMAIN symbols = 1..n
        /\ \A i \in 1..n : symbols[i] \in UpperCase /\ symbols[i] \in Symbols
    BY ParsedAre
  <1>2. \A s \in UpperCase : close(s) \in {Outage, NotFound} \union Seq(Closing)
    BY LookupsAre
  <1>3. Outage \notin Seq(Chart) /\ Outage # NotFound
    BY ErrorsAreNoData
  <1>4. BatchHistory(p, parts) = IF \E i \in 1..n : close(symbols[i]) = Outage THEN Outage ELSE charts
    BY <1>1 DEF BatchHistory
  <1> HIDE DEF symbols, close, n, Closing
  <1>5. ASSUME \A i \in 1..n : close(symbols[i]) # Outage PROVE charts \in Seq(Chart)
    <2>1. ASSUME NEW i \in 1..n PROVE [symbol |-> symbols[i], points |-> points(symbols[i])] \in Chart
      <3>1. close(symbols[i]) \in {NotFound} \union Seq(Closing)
        BY <1>1, <1>2, <1>5
      <3>2. <<>> \in Seq(Closing)
        BY EmptyIsList
      <3>3. points(symbols[i]) \in Seq(Closing)
        BY <3>1, <3>2
      <3> HIDE DEF points
      <3> QED
        BY <1>1, <3>3
    <2> HIDE DEF points, Chart
    <2>2. charts \in [1..n -> Chart]
      BY <2>1
    <2> HIDE DEF charts
    <2> QED
      BY <1>1, <2>2, FunctionsAreLists
  <1>6. (BatchHistory(p, parts) = Outage) <=> (\E i \in 1..n : close(symbols[i]) = Outage)
    <2> HIDE DEF charts, Chart
    <2> QED
      BY <1>3, <1>4, <1>5
  <1>7. ASSUME BatchHistory(p, parts) # Outage, NEW i \in 1..n
        PROVE  /\ BatchHistory(p, parts)[i].symbol = symbols[i]
               /\ BatchHistory(p, parts)[i].points = points(symbols[i])
    <2>1. BatchHistory(p, parts) = charts
      BY <1>4, <1>7
    <2>2. charts[i].symbol = symbols[i] /\ charts[i].points = points(symbols[i])
      OBVIOUS
    <2> HIDE DEF charts, points
    <2> QED
      BY <2>1, <2>2
  <1> QED
    BY <1>1, <1>6, <1>7 DEF symbols, close

LEMMA ChangesAre ==
  ASSUME NEW p \in Providers, NEW parts \in Seq(Symbols \union {""})
  PROVE  LET symbols == ParseSymbols(parts)
             changes == BatchPriceChange(p, parts)
             change(s) == GetPriceChange(p.change[s])
             known == At(symbols, {i \in DOMAIN symbols : change(symbols[i]) # NotFound})
         IN  /\ (changes = Outage) <=> (\E i \in DOMAIN symbols : change(symbols[i]) = Outage)
             /\ changes # Outage => changes = [i \in DOMAIN known |-> change(known[i])]
             /\ \A i \in DOMAIN known : known[i] \in ToSet(symbols)
  <1> DEFINE symbols == ParseSymbols(parts)
             change(s) == GetPriceChange(p.change[s])
             n == Len(symbols)
             P == {i \in DOMAIN symbols : change(symbols[i]) # NotFound}
             known == At(symbols, P)
             all == [i \in DOMAIN symbols |-> change(symbols[i])]
             C == Cardinality(P)
             Change == [of : Symbols]
             Asked == ToSet(symbols)
  <1>1. /\ n \in Nat /\ DOMAIN symbols = 1..n
        /\ \A i \in 1..n : symbols[i] \in UpperCase /\ symbols[i] \in Asked
    BY ParsedAre DEF ToSet
  <1>2. \A s \in UpperCase : change(s) \in {Outage, NotFound} \union Change
    BY LookupsAre
  <1>3. Outage \notin Seq(Change) /\ Outage # NotFound
    BY ErrorsAreNoData
  <1>4. BatchPriceChange(p, parts) =
           IF \E i \in DOMAIN symbols : change(symbols[i]) = Outage THEN Outage ELSE At(all, P)
    <2>1. /\ DOMAIN all = DOMAIN symbols
          /\ {i \in DOMAIN all : all[i] # NotFound} = P
          /\ (\E i \in DOMAIN symbols : all[i] = Outage) <=> (\E i \in DOMAIN symbols : change(symbols[i]) = Outage)
      OBVIOUS
    <2> QED
      BY <2>1, Zenon DEF BatchPriceChange
  <1>5. P \subseteq 1..n /\ \A i \in P : all[i] = change(symbols[i]) /\ symbols[i] \in Asked
    BY <1>1
  <1> HIDE DEF symbols, change, n, P, all, C, Change, Asked, known
  <1>6. /\ known \in Seq(Asked) /\ DOMAIN known = 1..C /\ C \in Nat
        /\ \A k \in 1..C : Kth(P, k) \in P /\ known[k] = symbols[Kth(P, k)]
    BY <1>1, <1>5, AtIs DEF known, C
  <1>7. At(all, P) = [k \in 1..C |-> change(known[k])]
    <2>1. At(all, P) = [k \in 1..C |-> all[Kth(P, k)]]
      BY DEF At, C
    <2>2. \A k \in 1..C : all[Kth(P, k)] = change(known[k])
      BY <1>5, <1>6
    <2> QED
      BY <2>1, <2>2
  <1>8. ASSUME \A i \in DOMAIN symbols : change(symbols[i]) # Outage PROVE At(all, P) \in Seq(Change)
    <2>1. \A i \in P : change(symbols[i]) \in Change
      <3>1. \A i \in P : i \in 1..n /\ change(symbols[i]) # NotFound
        BY <1>1 DEF P
      <3> QED
        BY <1>1, <1>2, <1>8, <3>1
    <2>2. \A i \in P : all[i] \in Change
      BY <1>5, <2>1
    <2> QED
      BY <1>1, <1>5, <2>2, AtIs
  <1>9. (BatchPriceChange(p, parts) = Outage) <=> (\E i \in DOMAIN symbols : change(symbols[i]) = Outage)
    BY <1>3, <1>4, <1>8
  <1>10. BatchPriceChange(p, parts) # Outage =>
            BatchPriceChange(p, parts) = [i \in DOMAIN known |-> change(known[i])]
    BY <1>4, <1>6, <1>7
  <1>11. \A i \in DOMAIN known : known[i] \in Asked
    BY <1>6, ListsHave
  <1> QED
    BY <1>9, <1>10, <1>11 DEF symbols, change, known, P, Asked

\* A symbol, and not the empty string.
Named(s) == s # ""

\* The server fails over a symbol exactly if its lookup is out.
LEMMA StatusTells ==
  ASSUME NEW s, Named(s), NEW r
  PROVE  SymbolStatus(s, r) = 500 <=> r = Outage
  <1>1. NotFound # Outage
    BY ErrorsAreNoData
  <1>2. CASE r = Outage
    BY <1>1, <1>2 DEF SymbolStatus, Named
  <1>3. CASE r = NotFound
    <2>1. SymbolStatus(s, r) = 404
      BY <1>3, <1>1 DEF SymbolStatus, Named
    <2> QED
      BY <1>1, <1>3, <2>1
  <1>4. CASE r # NotFound /\ r # Outage
    <2>1. SymbolStatus(s, r) = 200
      BY <1>4 DEF SymbolStatus, Named
    <2> QED
      BY <1>4, <2>1
  <1> QED
    BY <1>2, <1>3, <1>4

\* One of the symbols makes the server fail exactly if it is out.
LEMMA OneFails ==
  ASSUME NEW symbols, \A s \in ToSet(symbols) : Named(s), NEW results, NEW range \in HistoryRanges
  PROVE  /\ 500 \in {SymbolStatus(s, results[s]) : s \in ToSet(symbols)}
                <=> \E i \in DOMAIN symbols : results[symbols[i]] = Outage
         /\ 500 \in {HistoryStatus(s, range, results[s]) : s \in ToSet(symbols)}
                <=> \E i \in DOMAIN symbols : results[symbols[i]] = Outage
  <1> DEFINE Single(s) == SymbolStatus(s, results[s])
             Chart(s) == HistoryStatus(s, range, results[s])
             Out(s) == results[s] = Outage
  <1>1. ASSUME NEW s \in ToSet(symbols)
        PROVE  /\ Single(s) = 500 <=> Out(s)
               /\ Chart(s) = 500 <=> Out(s)
    <2>1. Single(s) = 500 <=> Out(s)
      BY StatusTells
    <2>2. Chart(s) = Single(s)
      BY Zenon DEF HistoryStatus
    <2> QED
      BY <2>1, <2>2
  <1>2. ToSet(symbols) = {symbols[i] : i \in DOMAIN symbols}
    BY Zenon DEF ToSet
  <1> HIDE DEF Single, Chart, Out
  <1>3. (\E s \in ToSet(symbols) : Out(s)) <=> (\E i \in DOMAIN symbols : Out(symbols[i]))
    BY <1>2
  <1>4. 500 \in {Single(s) : s \in ToSet(symbols)} <=> \E s \in ToSet(symbols) : Out(s)
    BY <1>1
  <1>5. 500 \in {Chart(s) : s \in ToSet(symbols)} <=> \E s \in ToSet(symbols) : Out(s)
    BY <1>1
  <1>6. /\ 500 \in {Single(s) : s \in ToSet(symbols)} <=> \E i \in DOMAIN symbols : Out(symbols[i])
        /\ 500 \in {Chart(s) : s \in ToSet(symbols)} <=> \E i \in DOMAIN symbols : Out(symbols[i])
    BY <1>3, <1>4, <1>5, Zenon
  <1> QED
    BY <1>6 DEF Single, Chart, Out

\* While the provider is down for a symbol, so is its lookup.
LEMMA DownLookups ==
  ASSUME NEW p \in Providers, NEW s \in UpperCase
  PROVE  /\ Down(p.change[s]) => GetPriceChange(p.change[s]) = Outage
         /\ Down(p.history[s]) => GetHistoryClose(p.history[s]) = Outage
  <1> DEFINE changes == p.change[s]
             history == p.history[s]
  <1>1. history \in Replies([day : Int, close : Int]) /\ changes \in Replies([of : Symbols])
    BY MarketParameters, ProviderReplies
  <1> HIDE DEF changes, history
  <1>2. /\ Down(changes) => Rows(changes) = Outage
        /\ Down(history) => HistoricalRows(history) = Outage
    BY <1>1, DownIsOutage
  <1>3. Down(changes) => GetPriceChange(changes) = Outage
    BY <1>2, FirstOfNone DEF GetPriceChange
  <1>4. Down(history) => GetHistoryClose(history) = Outage
    <2>1. Outage # <<>>
      BY FirstOfNone
    <2> QED
      BY <1>2, <2>1 DEF GetHistoryClose
  <1> QED
    BY <1>3, <1>4 DEF changes, history

\* The statuses of both batches.
LEMMA BatchStatuses ==
  ASSUME NEW parts \in Seq(Symbols \union {""}), NEW result, NEW range \in BatchHistoryRanges
  PROVE  LET refused == parts = <<"">> \/ Len(ParseSymbols(parts)) > MaxBatch
         IN  /\ BatchStatus(parts, result) = IF refused THEN 400 ELSE IF result = Outage THEN 500 ELSE 200
             /\ BatchHistoryStatus(parts, range, result) = BatchStatus(parts, result)
  <1>1. BatchHistoryStatus(parts, range, result) = BatchStatus(parts, result)
    BY Zenon DEF BatchHistoryStatus
  <1> QED
    BY <1>1, Zenon DEF BatchStatus

\* Whatever the provider replies to each of the symbols, and whichever are asked for, a batch
\* is its symbols one by one, its status included.
THEOREM BatchesAlwaysAgree == MarketSpec => []BatchesAgreeWithSingles
  <1>1. ASSUME provider \in Providers PROVE BatchesAgreeWithSingles
    <2> SUFFICES ASSUME NEW parts \in Parts, NEW range \in HistoryRanges \intersect BatchHistoryRanges
                 PROVE  LET symbols == ParseSymbols(parts)
                            history == BatchHistory(provider, parts)
                            changes == BatchPriceChange(provider, parts)
                            known   == At(symbols, {i \in DOMAIN symbols :
                                                      GetPriceChange(provider.change[symbols[i]]) # NotFound})
                            status(singles) == IF parts = <<"">> \/ Len(symbols) > MaxBatch THEN 400
                                               ELSE IF 500 \in singles THEN 500 ELSE 200
                            points  == [s \in ToSet(symbols) |-> GetHistoryClose(provider.history[s])]
                            moves   == [s \in ToSet(symbols) |-> GetPriceChange(provider.change[s])]
                        IN  /\ ToSet(symbols) = {Upper[s] : s \in ToSet(parts) \ {""}}
                            /\ Len(symbols) = Cardinality(ToSet(symbols))
                            /\ BatchStatus(parts, changes) = status({SymbolStatus(s, moves[s]) : s \in ToSet(symbols)})
                            /\ BatchHistoryStatus(parts, range, history) =
                                  status({HistoryStatus(s, range, points[s]) : s \in ToSet(symbols)})
                            /\ changes # Outage => \A s \in ToSet(symbols) : ~Down(provider.change[s])
                            /\ history # Outage => \A s \in ToSet(symbols) : ~Down(provider.history[s])
                            /\ history # Outage => \A i \in DOMAIN symbols :
                                  history[i].symbol = symbols[i] /\
                                  history[i].points = (IF points[symbols[i]] = NotFound THEN <<>> ELSE points[symbols[i]])
                            /\ changes # Outage => changes = [i \in DOMAIN known |-> moves[known[i]]]
      BY DEF BatchesAgreeWithSingles
    <2> DEFINE symbols == ParseSymbols(parts)
               history == BatchHistory(provider, parts)
               changes == BatchPriceChange(provider, parts)
               close(s) == GetHistoryClose(provider.history[s])
               change(s) == GetPriceChange(provider.change[s])
               known == At(symbols, {i \in DOMAIN symbols : change(symbols[i]) # NotFound})
               status(singles) == IF parts = <<"">> \/ Len(symbols) > MaxBatch THEN 400
                                  ELSE IF 500 \in singles THEN 500 ELSE 200
               points == [s \in ToSet(symbols) |-> close(s)]
               moves == [s \in ToSet(symbols) |-> change(s)]
               n == Len(symbols)
    <2>1. parts \in Seq(Symbols \union {""})
      BY RequestsAreParsed
    <2>2. /\ symbols \in Seq(UpperCase) /\ ToSet(symbols) = {Upper[s] : s \in ToSet(parts) \ {""}}
          /\ \A i, j \in DOMAIN symbols : symbols[i] = symbols[j] => i = j
      BY <2>1, ParsedIs
    <2>3. n \in Nat /\ DOMAIN symbols = 1..n
      BY <2>1, ParsedAre
    <2>4. /\ (history = Outage) <=> (\E i \in DOMAIN symbols : close(symbols[i]) = Outage)
          /\ history # Outage => \A i \in DOMAIN symbols :
                history[i].symbol = symbols[i] /\
                history[i].points = (IF close(symbols[i]) = NotFound THEN <<>> ELSE close(symbols[i]))
      BY <1>1, <2>1, HistoriesAre
    <2>5. /\ (changes = Outage) <=> (\E i \in DOMAIN symbols : change(symbols[i]) = Outage)
          /\ changes # Outage => changes = [i \in DOMAIN known |-> change(known[i])]
          /\ \A i \in DOMAIN known : known[i] \in ToSet(symbols)
      BY <1>1, <2>1, ChangesAre
    <2>6. /\ BatchStatus(parts, changes) = IF parts = <<"">> \/ n > MaxBatch THEN 400
                                           ELSE IF changes = Outage THEN 500 ELSE 200
          /\ BatchHistoryStatus(parts, range, history) = IF parts = <<"">> \/ n > MaxBatch THEN 400
                                                         ELSE IF history = Outage THEN 500 ELSE 200
      <3> HIDE DEF history, changes
      <3>1. range \in BatchHistoryRanges
        OBVIOUS
      <3> HIDE DEF n
      <3>2. BatchStatus(parts, changes) = IF parts = <<"">> \/ n > MaxBatch THEN 400
                                          ELSE IF changes = Outage THEN 500 ELSE 200
        BY <2>1, <3>1, BatchStatuses, Zenon DEF n
      <3>3. BatchHistoryStatus(parts, range, history) = IF parts = <<"">> \/ n > MaxBatch THEN 400
                                                        ELSE IF history = Outage THEN 500 ELSE 200
        <4>1. BatchHistoryStatus(parts, range, history) = BatchStatus(parts, history)
          BY <2>1, <3>1, BatchStatuses
        <4>2. BatchStatus(parts, history) = IF parts = <<"">> \/ n > MaxBatch THEN 400
                                            ELSE IF history = Outage THEN 500 ELSE 200
          BY Zenon DEF BatchStatus, n
        <4> QED
          BY <4>1, <4>2, Zenon
      <3> QED
        BY <3>2, <3>3
    <2>7. \A singles : status(singles) = IF parts = <<"">> \/ n > MaxBatch THEN 400
                                          ELSE IF 500 \in singles THEN 500 ELSE 200
      OBVIOUS
    <2>8. "" \notin ToSet(symbols) /\ ToSet(symbols) \subseteq UpperCase
      <3>1. \A i \in 1..n : symbols[i] \in UpperCase /\ symbols[i] \in Symbols
        BY <2>1, ParsedAre
      <3>2. "" \notin Symbols
        BY MarketParameters
      <3> HIDE DEF symbols, n
      <3> QED
        BY <2>3, <3>1, <3>2 DEF ToSet
    <2>9. Len(symbols) = Cardinality(ToSet(symbols))
      <3> HIDE DEF symbols
      <3> QED
        BY <2>2, DistinctMembers
    <2>10. \A i \in DOMAIN symbols : symbols[i] \in ToSet(symbols)
      BY DEF ToSet
    <2>11. \A s \in ToSet(symbols) : \E i \in DOMAIN symbols : symbols[i] = s
      <3> HIDE DEF symbols
      <3> QED
        BY DEF ToSet
    <2> HIDE DEF symbols, history, changes, known, n
    <2>12. \A i \in DOMAIN symbols : points[symbols[i]] = close(symbols[i]) /\ moves[symbols[i]] = change(symbols[i])
      BY <2>10
    <2>13. \A i \in DOMAIN known : moves[known[i]] = change(known[i])
      BY <2>5
    <2>14. \A s \in ToSet(symbols) : Named(s)
      BY <2>8 DEF Named
    <2> HIDE DEF points, moves, close, change
    <2>15. /\ 500 \in {HistoryStatus(s, range, points[s]) : s \in ToSet(symbols)} <=> history = Outage
           /\ 500 \in {SymbolStatus(s, moves[s]) : s \in ToSet(symbols)} <=> changes = Outage
      <3>1. range \in HistoryRanges
        OBVIOUS
      <3>2. /\ 500 \in {HistoryStatus(s, range, points[s]) : s \in ToSet(symbols)}
                  <=> \E i \in DOMAIN symbols : points[symbols[i]] = Outage
            /\ 500 \in {SymbolStatus(s, moves[s]) : s \in ToSet(symbols)}
                  <=> \E i \in DOMAIN symbols : moves[symbols[i]] = Outage
        BY <2>14, <3>1, OneFails
      <3>3. /\ (\E i \in DOMAIN symbols : points[symbols[i]] = Outage) <=> history = Outage
            /\ (\E i \in DOMAIN symbols : moves[symbols[i]] = Outage) <=> changes = Outage
        BY <2>4, <2>5, <2>12
      <3> QED
        BY <3>2, <3>3, Zenon
    <2>16. [i \in DOMAIN known |-> change(known[i])] = [i \in DOMAIN known |-> moves[known[i]]]
      BY <2>13
    <2>17. /\ ToSet(symbols) = {Upper[s] : s \in ToSet(parts) \ {""}}
           /\ Len(symbols) = Cardinality(ToSet(symbols))
           /\ BatchStatus(parts, changes) = status({SymbolStatus(s, moves[s]) : s \in ToSet(symbols)})
           /\ BatchHistoryStatus(parts, range, history) =
                 status({HistoryStatus(s, range, points[s]) : s \in ToSet(symbols)})
           /\ changes # Outage => \A s \in ToSet(symbols) : ~Down(provider.change[s])
           /\ history # Outage => \A s \in ToSet(symbols) : ~Down(provider.history[s])
           /\ history # Outage => \A i \in DOMAIN symbols :
                 history[i].symbol = symbols[i] /\
                 history[i].points = (IF points[symbols[i]] = NotFound THEN <<>> ELSE points[symbols[i]])
           /\ changes # Outage => changes = [i \in DOMAIN known |-> moves[known[i]]]
      <3> HIDE DEF status
      <3>1. /\ BatchStatus(parts, changes) = status({SymbolStatus(s, moves[s]) : s \in ToSet(symbols)})
            /\ BatchHistoryStatus(parts, range, history) =
                  status({HistoryStatus(s, range, points[s]) : s \in ToSet(symbols)})
        BY <2>6, <2>15, <2>7
      <3>4. changes # Outage => \A s \in ToSet(symbols) : ~Down(provider.change[s])
        <4>1. ASSUME changes # Outage, NEW s \in ToSet(symbols) PROVE ~Down(provider.change[s])
          <5>1. change(s) # Outage
            BY <2>5, <2>11, <4>1, Zenon
          <5>2. s \in UpperCase
            BY <2>8
          <5> QED
            BY <1>1, <5>1, <5>2, DownLookups, Zenon DEF change
        <4> QED
          BY <4>1, Zenon
      <3>5. history # Outage => \A s \in ToSet(symbols) : ~Down(provider.history[s])
        <4>1. ASSUME history # Outage, NEW s \in ToSet(symbols) PROVE ~Down(provider.history[s])
          <5>1. close(s) # Outage
            BY <2>4, <2>11, <4>1, Zenon
          <5>2. s \in UpperCase
            BY <2>8
          <5> QED
            BY <1>1, <5>1, <5>2, DownLookups, Zenon DEF close
        <4> QED
          BY <4>1, Zenon
      <3>2. history # Outage => \A i \in DOMAIN symbols :
                 history[i].symbol = symbols[i] /\
                 history[i].points = (IF points[symbols[i]] = NotFound THEN <<>> ELSE points[symbols[i]])
        BY <2>4, <2>12
      <3>3. changes # Outage => changes = [i \in DOMAIN known |-> moves[known[i]]]
        BY <2>5, <2>16
      <3> QED
        BY <2>2, <2>9, <3>1, <3>2, <3>3, <3>4, <3>5
    <2> QED
      BY <2>17 DEF symbols, history, changes, known, points, moves, close, change, status
  <1> QED
    BY <1>1, MarketInvariance, PTL

-----------------------------------------------------------------------------
(* The search. *)

Match == [symbol : Symbols, name : STRING]

\* One position of the list, and no other, is a match of this symbol.
OnceIn(list, s) == \E k \in DOMAIN list : \A i \in DOMAIN list : list[i].symbol = s <=> i = k

LEMMA OnceIsOne ==
  ASSUME NEW list, NEW s, OnceIn(list, s)
  PROVE  Cardinality({i \in DOMAIN list : list[i].symbol = s}) = 1
  <1>1. PICK k \in DOMAIN list : \A i \in DOMAIN list : list[i].symbol = s <=> i = k
    BY DEF OnceIn
  <1>2. {i \in DOMAIN list : list[i].symbol = s} = {k}
    BY <1>1
  <1>3. Cardinality({k}) = 1
    BY FS_Singleton
  <1> QED
    BY <1>2, <1>3

\* Merging keeps each symbol once.
LEMMA MergedIs ==
  ASSUME NEW left \in Seq(Match), NEW right \in Seq(Match)
  PROVE  /\ Merged(left, right) \in Seq(Match)
         /\ \A i \in DOMAIN left : OnceIn(Merged(left, right), left[i].symbol)
         /\ \A i \in DOMAIN right : OnceIn(Merged(left, right), right[i].symbol)
  <1> DEFINE all == left \o right
             n == Len(all)
             key == [i \in 1..n |-> all[i].symbol]
             P == {i \in DOMAIN all : \A j \in 1..(i - 1) : all[j].symbol # all[i].symbol}
             C == Cardinality(P)
             merged == At(all, P)
  <1> HIDE DEF Match
  <1>1. /\ all \in Seq(Match) /\ Len(left) \in Nat /\ Len(right) \in Nat /\ n = Len(left) + Len(right)
        /\ DOMAIN left = 1..Len(left) /\ DOMAIN right = 1..Len(right)
        /\ \A i \in 1..Len(left) : all[i] = left[i]
        /\ \A i \in 1..Len(right) : all[Len(left) + i] = right[i]
    OBVIOUS
  <1>2. Merged(left, right) = merged
    BY DEF Merged
  <1> HIDE DEF all
  <1>3. n \in Nat /\ DOMAIN all = 1..n /\ \A i \in 1..n : all[i] \in Match
    BY <1>1, ListsHave
  <1>4. P \subseteq 1..n /\ \A i \in P : all[i] \in Match
    BY <1>3
  <1>5. ASSUME NEW i \in P, NEW j \in P, all[i].symbol = all[j].symbol PROVE i = j
    <2>1. i = j \/ i \in 1..(j - 1) \/ j \in 1..(i - 1)
      BY <1>3, <1>4, OneIsEarlier
    <2> QED
      BY <1>5, <2>1
  <1>6. ASSUME NEW i \in 1..n PROVE \E j \in P : all[j].symbol = all[i].symbol
    <2>1. PICK j \in 1..n : key[j] = key[i] /\ FirstThere(key, j)
      <3> HIDE DEF key, n
      <3> QED
        BY <1>3, FirstOf
    <2>2. all[j].symbol = all[i].symbol
      BY <2>1
    <2>3. \A x \in 1..(j - 1) : x \in 1..n
      BY <1>3
    <2>4. \A x \in 1..(j - 1) : all[x].symbol # all[j].symbol
      BY <2>1, <2>3 DEF FirstThere
    <2> QED
      BY <1>3, <2>2, <2>4
  <1> HIDE DEF n, key, P, C, merged
  <1>7. /\ merged \in Seq(Match) /\ DOMAIN merged = 1..C /\ C \in Nat
        /\ \A k \in 1..C : Kth(P, k) \in P /\ merged[k] = all[Kth(P, k)]
    BY <1>3, <1>4, AtIs DEF merged, C
  <1>8. /\ \A k, l \in 1..C : Kth(P, k) = Kth(P, l) => k = l
        /\ \A i \in P : \E k \in 1..C : Kth(P, k) = i
    BY <1>3, <1>4, KthIs DEF C
  <1>9. ASSUME NEW i \in 1..n PROVE OnceIn(merged, all[i].symbol)
    <2>1. PICK j \in P : all[j].symbol = all[i].symbol
      BY <1>6
    <2>2. PICK k \in 1..C : Kth(P, k) = j
      BY <1>8
    <2>3. ASSUME NEW l \in 1..C PROVE merged[l].symbol = all[i].symbol <=> l = k
      <3>1. merged[l] = all[Kth(P, l)] /\ Kth(P, l) \in P
        BY <1>7
      <3>2. all[Kth(P, l)].symbol = all[j].symbol <=> Kth(P, l) = j
        BY <1>5, <3>1
      <3> QED
        BY <1>8, <2>1, <2>2, <3>1, <3>2
    <2>4. k \in DOMAIN merged /\ \A l \in DOMAIN merged : merged[l].symbol = all[i].symbol <=> l = k
      BY <1>7, <2>3
    <2> QED
      BY <2>4, Zenon DEF OnceIn
  <1>10. ASSUME NEW i \in DOMAIN left PROVE OnceIn(merged, left[i].symbol)
    <2>1. i \in 1..n /\ all[i] = left[i]
      BY <1>1
    <2> QED
      BY <1>9, <2>1
  <1>11. ASSUME NEW i \in DOMAIN right PROVE OnceIn(merged, right[i].symbol)
    <2> DEFINE j == Len(left) + i
    <2>1. j \in 1..n /\ all[j] = right[i]
      BY <1>1
    <2> HIDE DEF j
    <2> QED
      BY <1>9, <2>1
  <1> QED
    BY <1>2, <1>7, <1>10, <1>11

\* The filter keeps what is once in a list, if it is tradable or nothing is known of that.
LEMMA FilterKeeps ==
  ASSUME NEW list \in Seq(Match), NEW universe,
         universe = Unknown \/ Tradable \subseteq universe.stocks \union universe.etfs
  PROVE  /\ FilterToStocksAndETFs(universe, list) \in Seq(Match)
         /\ \A s : OnceIn(list, s) /\ (Upper[s] \in Tradable \/ universe = Unknown)
                       => OnceIn(FilterToStocksAndETFs(universe, list), s)
  <1> DEFINE n == Len(list)
             P == {i \in DOMAIN list : Upper[list[i].symbol] \in universe.stocks \union universe.etfs}
             C == Cardinality(P)
             shown == At(list, P)
  <1> HIDE DEF Match
  <1>1. CASE universe = Unknown
    BY <1>1 DEF FilterToStocksAndETFs
  <1>2. CASE universe # Unknown
    <2>1. FilterToStocksAndETFs(universe, list) = shown
      BY <1>2 DEF FilterToStocksAndETFs
    <2>2. n \in Nat /\ DOMAIN list = 1..n /\ \A i \in 1..n : list[i] \in Match
      BY ListsHave
    <2>3. P \subseteq 1..n /\ \A i \in P : list[i] \in Match
      BY <2>2
    <2> HIDE DEF n, C, shown
    <2>4. \A i \in 1..n : Upper[list[i].symbol] \in Tradable => i \in P
      BY <1>2, <2>2
    <2> HIDE DEF P
    <2>5. /\ shown \in Seq(Match) /\ DOMAIN shown = 1..C /\ C \in Nat
          /\ \A k \in 1..C : Kth(P, k) \in P /\ shown[k] = list[Kth(P, k)]
      BY <2>2, <2>3, AtIs DEF shown, C
    <2>6. /\ \A k, l \in 1..C : Kth(P, k) = Kth(P, l) => k = l
          /\ \A i \in P : \E k \in 1..C : Kth(P, k) = i
      BY <2>2, <2>3, KthIs DEF C
    <2>7. ASSUME NEW s, OnceIn(list, s), Upper[s] \in Tradable PROVE OnceIn(shown, s)
      <3>1. PICK j \in DOMAIN list : \A i \in DOMAIN list : list[i].symbol = s <=> i = j
        BY <2>7, Zenon DEF OnceIn
      <3>2. j \in P
        BY <2>2, <2>4, <2>7, <3>1
      <3>3. PICK k \in 1..C : Kth(P, k) = j
        BY <2>6, <3>2
      <3>4. ASSUME NEW l \in 1..C PROVE shown[l].symbol = s <=> l = k
        <4>1. shown[l] = list[Kth(P, l)] /\ Kth(P, l) \in 1..n
          BY <2>3, <2>5
        <4> QED
          BY <2>2, <2>6, <3>1, <3>3, <4>1
      <3>5. k \in DOMAIN shown /\ \A l \in DOMAIN shown : shown[l].symbol = s <=> l = k
        BY <2>5, <3>4
      <3> QED
        BY <3>5, Zenon DEF OnceIn
    <2> QED
      BY <1>2, <2>1, <2>5, <2>7
  <1> QED
    BY <1>1, <1>2

\* The matches an endpoint gave, none if it failed.
Given(replies) == IF Search(replies) = Outage THEN <<>> ELSE Search(replies)

\* A search fails when both endpoints did, and else shows what either of them found.
LEMMA SearchShows ==
  ASSUME NEW p \in Providers, NEW universe,
         universe = Unknown \/ Tradable \subseteq universe.stocks \union universe.etfs
  PROVE  /\ DoSearch(p, universe) = Outage <=> Search(p.bySymbol) = Outage /\ Search(p.byName) = Outage
         /\ DoSearch(p, universe) = Outage \/ DoSearch(p, universe) \in Seq(Match)
         /\ DoSearch(p, universe) # Outage =>
               \A r \in {p.bySymbol, p.byName} : Search(r) # Outage =>
                  \A i \in DOMAIN Search(r) :
                     Upper[Search(r)[i].symbol] \in Tradable \/ universe = Unknown
                        => OnceIn(DoSearch(p, universe), Search(r)[i].symbol)
  <1> DEFINE left == Given(p.bySymbol)
             right == Given(p.byName)
             merged == Merged(left, right)
             shown == FilterToStocksAndETFs(universe, merged)
             fails == Search(p.bySymbol) = Outage /\ Search(p.byName) = Outage
  <1>1. p.bySymbol \in Replies(Match) /\ p.byName \in Replies(Match)
    BY MarketParameters DEF Provider, Match
  <1>2. Outage \notin Seq(Match)
    BY ErrorsAreNoData DEF Match
  <1> HIDE DEF Match
  <1>3. left \in Seq(Match) /\ right \in Seq(Match)
    BY <1>1, RowsOfReply, EmptyIsList DEF Given, Search
  <1>4. DoSearch(p, universe) = IF fails THEN Outage ELSE shown
    BY DEF DoSearch, Given
  <1> HIDE DEF left, right, shown, fails, merged
  <1>5. /\ merged \in Seq(Match)
        /\ \A i \in DOMAIN left : OnceIn(merged, left[i].symbol)
        /\ \A i \in DOMAIN right : OnceIn(merged, right[i].symbol)
    BY <1>3, MergedIs DEF merged
  <1>6. /\ shown \in Seq(Match)
        /\ \A s : OnceIn(merged, s) /\ (Upper[s] \in Tradable \/ universe = Unknown) => OnceIn(shown, s)
    BY <1>5, FilterKeeps DEF shown
  <1>7. DoSearch(p, universe) = Outage <=> fails
    BY <1>2, <1>4, <1>6
  <1>8. DoSearch(p, universe) = Outage \/ DoSearch(p, universe) \in Seq(Match)
    BY <1>4, <1>6
  <1>9. ASSUME DoSearch(p, universe) # Outage, NEW r \in {p.bySymbol, p.byName}, Search(r) # Outage,
               NEW i \in DOMAIN Search(r),
               Upper[Search(r)[i].symbol] \in Tradable \/ universe = Unknown
        PROVE  OnceIn(DoSearch(p, universe), Search(r)[i].symbol)
    <2>1. OnceIn(merged, Search(r)[i].symbol)
      BY <1>5, <1>9 DEF left, right, Given
    <2>2. DoSearch(p, universe) = shown
      BY <1>4, <1>9
    <2> QED
      BY <1>6, <1>9, <2>1, <2>2
  <1> QED
    BY <1>7, <1>8, <1>9 DEF fails

\* Two parts of a list that meet are one part of it.
LEMMA PartsMeet ==
  ASSUME NEW T, NEW list \in Seq(T), NEW a \in Nat, NEW b \in Nat, a <= b, b <= Len(list)
  PROVE  SubSeq(list, 1, a) \o SubSeq(list, a + 1, b) = SubSeq(list, 1, b)
  <1> DEFINE left == SubSeq(list, 1, a)
             right == SubSeq(list, a + 1, b)
             both == SubSeq(list, 1, b)
  <1>1. Len(list) \in Nat
    OBVIOUS
  <1>2. left \in Seq(T) /\ Len(left) = a /\ \A i \in 1..a : left[i] = list[i]
    BY <1>1
  <1>3. right \in Seq(T) /\ Len(right) = b - a /\ \A i \in 1..(b - a) : right[i] = list[a + i]
    BY <1>1
  <1>4. both \in Seq(T) /\ Len(both) = b /\ \A i \in 1..b : both[i] = list[i]
    BY <1>1
  <1> HIDE DEF left, right, both
  <1>5. left \o right \in Seq(T) /\ Len(left \o right) = b
    BY <1>2, <1>3
  <1>6. ASSUME NEW i \in 1..b PROVE (left \o right)[i] = both[i]
    <2>1. CASE i <= a
      <3>1. i \in 1..Len(left)
        BY <1>2, <2>1
      <3>2. (left \o right)[i] = left[i]
        BY <1>2, <1>3, <3>1
      <3> QED
        BY <1>2, <1>4, <3>1, <3>2
    <2>2. CASE i > a
      <3>1. i - a \in 1..(b - a) /\ a + (i - a) = i
        BY <2>2
      <3>2. (left \o right)[i] = right[i - a]
        BY <1>2, <1>3, <2>2
      <3> QED
        BY <1>3, <1>4, <3>1, <3>2
    <2>3. i <= a \/ i > a
      OBVIOUS
    <2> QED
      BY ONLY <2>1, <2>2, <2>3
  <1> QED
    BY <1>4, <1>5, <1>6 DEF left, right, both

LEMMA FlattenThree ==
  ASSUME NEW lists, Len(lists) = 3
  PROVE  FlattenSeq(lists) = (lists[1] \o lists[2]) \o lists[3]
  <1> DEFINE a == lists[1]
             b == lists[2]
             c == lists[3]
             all == [i \in 1..3 |-> IF i = 1 THEN a ELSE IF i = 2 THEN a \o b ELSE (a \o b) \o c]
             Flat(f) == f = [i \in 1..Len(lists) |-> IF i = 1 THEN lists[i] ELSE f[i - 1] \o lists[i]]
             flatten == CHOOSE f : Flat(f)
  <1>2. Flat(all)
    <2>1. 1..3 = {1, 2, 3}
      OBVIOUS
    <2>2. all[1] = a /\ all[2] = a \o b
      OBVIOUS
    <2>3. \A i \in 1..3 : all[i] = IF i = 1 THEN lists[i] ELSE all[i - 1] \o lists[i]
      BY <2>1, <2>2
    <2> QED
      BY <2>3
  <1>3. Flat(flatten)
    BY <1>2
  <1>4. flatten[1] = a /\ flatten[2] = flatten[1] \o b /\ flatten[3] = flatten[2] \o c
    <2>1. flatten = [i \in 1..3 |-> IF i = 1 THEN lists[i] ELSE flatten[i - 1] \o lists[i]]
      BY <1>3
    <2> HIDE DEF flatten
    <2>2. \A i \in 1..3 : flatten[i] = IF i = 1 THEN lists[i] ELSE flatten[i - 1] \o lists[i]
      BY ONLY <2>1
    <2>3. 1 \in 1..3 /\ 2 \in 1..3 /\ 3 \in 1..3 /\ 2 - 1 = 1 /\ 3 - 1 = 2 /\ 2 # 1 /\ 3 # 1
      OBVIOUS
    <2> QED
      BY <2>2, <2>3
  <1>5. FlattenSeq(lists) = flatten[3]
    BY DEF FlattenSeq
  <1> QED
    BY <1>4, <1>5

\* The page from the offset to the end of it.
LEMMA PageIs ==
  ASSUME NEW list, NEW size, NEW page, NEW offset, NEW end,
         Min({(page - 1) * size, Len(list)}) = offset, Min({offset + size, Len(list)}) = end
  PROVE  Page(list, page, size) = SubSeq(list, offset + 1, end)
  BY DEF Page

\* The pages of a list show all of it, in order.
LEMMA PagesAre ==
  ASSUME NEW T, NEW list \in Seq(T), NEW size \in Nat, Len(list) <= 3 * size
  PROVE  list = FlattenSeq([page \in 1..3 |-> Page(list, page, size)])
  <1> DEFINE n == Len(list)
             a == IF size <= n THEN size ELSE n
             b == IF 2 * size <= n THEN 2 * size ELSE n
             pages == [page \in 1..3 |-> Page(list, page, size)]
  <1>1. n \in Nat /\ a \in Nat /\ b \in Nat /\ a <= b /\ b <= n
    OBVIOUS
  <1>2. Page(list, 1, size) = SubSeq(list, 1, a)
    <2> DEFINE offset == 0
               page == 1
    <2>1. Min({(page - 1) * size, n}) = offset
      BY <1>1, MinOfTwo
    <2>2. Min({offset + size, n}) = a
      BY <1>1, MinOfTwo
    <2>3. offset + 1 = 1 /\ page = 1
      OBVIOUS
    <2> HIDE DEF a, offset, page
    <2>4. Page(list, page, size) = SubSeq(list, offset + 1, a)
      BY <2>1, <2>2, PageIs
    <2> QED
      BY <2>3, <2>4
  <1>3. Page(list, 2, size) = SubSeq(list, a + 1, b)
    <2>1. Min({(2 - 1) * size, n}) = a
      BY <1>1, MinOfTwo
    <2>2. Min({a + size, n}) = b
      BY <1>1, MinOfTwo
    <2> HIDE DEF a, b
    <2> QED
      BY <2>1, <2>2, PageIs
  <1>4. Page(list, 3, size) = SubSeq(list, b + 1, n)
    <2>1. Min({(3 - 1) * size, n}) = b
      BY <1>1, MinOfTwo
    <2>2. Min({b + size, n}) = n
      BY <1>1, MinOfTwo
    <2> QED
      BY <2>1, <2>2 DEF Page
  <1> HIDE DEF a, b
  <1>5. /\ Len(pages) = 3
        /\ pages[1] = SubSeq(list, 1, a) /\ pages[2] = SubSeq(list, a + 1, b)
        /\ pages[3] = SubSeq(list, b + 1, n)
    <2>1. pages[1] = Page(list, 1, size) /\ pages[2] = Page(list, 2, size) /\ pages[3] = Page(list, 3, size)
      OBVIOUS
    <2>2. Len(pages) = 3
      OBVIOUS
    <2> HIDE DEF n, pages
    <2> QED
      BY <1>2, <1>3, <1>4, <2>1, <2>2
  <1>6. FlattenSeq(pages) =
           (SubSeq(list, 1, a) \o SubSeq(list, a + 1, b)) \o SubSeq(list, b + 1, n)
    <2> HIDE DEF pages, n
    <2>1. FlattenSeq(pages) = (pages[1] \o pages[2]) \o pages[3]
      BY <1>5, FlattenThree
    <2> QED
      BY <1>5, <2>1
  <1>7. SubSeq(list, 1, a) \o SubSeq(list, a + 1, b) = SubSeq(list, 1, b)
    BY <1>1, PartsMeet
  <1>8. SubSeq(list, 1, b) \o SubSeq(list, b + 1, n) = SubSeq(list, 1, n)
    <2>1. n <= Len(list)
      BY <1>1
    <2> HIDE DEF n
    <2> QED
      BY <1>1, <2>1, PartsMeet
  <1>9. SubSeq(list, 1, n) = list
    OBVIOUS
  <1> QED
    BY <1>6, <1>7, <1>8, <1>9

\* What the search makes of the lists a fill left.
LEMMA UniverseKnows ==
  ASSUME NEW p \in Providers
  PROVE  LET universe == Universe(p).value
         IN  universe = Unknown \/ Tradable \subseteq universe.stocks \union universe.etfs
  <1> DEFINE stocks == ListSymbols(p.stocks)
             etfs == ListSymbols(p.etfs)
             lists == [stocks |-> UpperSet(stocks), etfs |-> UpperSet(etfs)]
  <1>1. {stocks, etfs} \intersect {Outage, <<>>} = {} =>
           Tradable \subseteq UpperSet(stocks) \union UpperSet(etfs)
    BY ListsAreComplete
  <1>2. Universe(p) = IF \E list \in {stocks, etfs} : list = Outage \/ list = <<>> THEN Degraded
                      ELSE [value |-> lists, healthy |-> TRUE]
    BY DEF Universe
  <1>3. lists.stocks = UpperSet(stocks) /\ lists.etfs = UpperSet(etfs)
    OBVIOUS
  <1> HIDE DEF stocks, etfs, lists
  <1>4. CASE \E list \in {stocks, etfs} : list = Outage \/ list = <<>>
    BY <1>2, <1>4 DEF Degraded
  <1>5. CASE ~ \E list \in {stocks, etfs} : list = Outage \/ list = <<>>
    <2>1. Universe(p) = [value |-> lists, healthy |-> TRUE]
      BY <1>2, <1>5
    <2>2. Universe(p).value = lists
      BY <2>1
    <2>3. {stocks, etfs} \intersect {Outage, <<>>} = {}
      BY <1>5
    <2> QED
      BY <1>1, <1>3, <2>2, <2>3
  <1> QED
    BY <1>4, <1>5

\* Whatever the cache holds and the endpoints find, nothing is lost.
THEOREM SearchesNeverLose == MarketSpec => []SearchesLoseNothing
  <1>1. ASSUME Heard PROVE SearchesLoseNothing
    <2> SUFFICES ASSUME NEW c \in Callers, read = "universe", pc[c] = "answered", NEW p \in Providers
                 PROVE  LET universe == answer[c].value
                            shown    == DoSearch(p, universe)
                            heard    == {p.bySymbol, p.byName} \ {r \in {p.bySymbol, p.byName} : Search(r) = Outage}
                            symbols  == {m.symbol : m \in UNION {ToSet(Search(r)) : r \in heard}}
                        IN  /\ (shown = Outage) <=> (heard = {})
                            /\ heard # {} =>
                                 /\ \A s \in symbols :
                                        Upper[s] \in Tradable \/ universe = Unknown =>
                                            Cardinality({i \in DOMAIN shown : shown[i].symbol = s}) = 1
                                 /\ \A size \in 1..3 :
                                        shown = FlattenSeq([page \in 1..3 |-> Page(shown, page, size)])
                                            \/ Len(shown) > 3 * size
      BY DEF SearchesLoseNothing, Answered
    <2> DEFINE universe == answer[c].value
               shown == DoSearch(p, universe)
               heard == {p.bySymbol, p.byName} \ {r \in {p.bySymbol, p.byName} : Search(r) = Outage}
               symbols == {m.symbol : m \in UNION {ToSet(Search(r)) : r \in heard}}
    <2>1. universe = Unknown \/ Tradable \subseteq universe.stocks \union universe.etfs
      <3>1. PICK o \in Providers : answer[c].value = Universe(o).value
        BY <1>1 DEF Heard, FromProvider, Outcome
      <3> QED
        BY <3>1, UniverseKnows
    <2> HIDE DEF universe
    <2>2. /\ shown = Outage <=> Search(p.bySymbol) = Outage /\ Search(p.byName) = Outage
          /\ shown = Outage \/ shown \in Seq(Match)
          /\ shown # Outage =>
               \A r \in {p.bySymbol, p.byName} : Search(r) # Outage =>
                  \A i \in DOMAIN Search(r) :
                     Upper[Search(r)[i].symbol] \in Tradable \/ universe = Unknown
                        => OnceIn(shown, Search(r)[i].symbol)
      BY <2>1, SearchShows
    <2> HIDE DEF shown
    <2>3. (shown = Outage) <=> (heard = {})
      BY <2>2
    <2>4. ASSUME heard # {}, NEW s \in symbols, Upper[s] \in Tradable \/ universe = Unknown
          PROVE  Cardinality({i \in DOMAIN shown : shown[i].symbol = s}) = 1
      <3>1. PICK r \in heard : \E m \in ToSet(Search(r)) : s = m.symbol
        OBVIOUS
      <3>2. PICK i \in DOMAIN Search(r) : s = Search(r)[i].symbol
        BY <3>1 DEF ToSet
      <3>3. r \in {p.bySymbol, p.byName} /\ Search(r) # Outage /\ shown # Outage
        BY <2>3, <2>4
      <3>4. OnceIn(shown, s)
        BY <2>2, <2>4, <3>2, <3>3
      <3> QED
        BY <3>4, OnceIsOne
    <2>5. ASSUME heard # {}, NEW size \in 1..3
          PROVE  shown = FlattenSeq([page \in 1..3 |-> Page(shown, page, size)]) \/ Len(shown) > 3 * size
      <3>1. shown \in Seq(Match)
        BY <2>2, <2>3, <2>5
      <3>2. size \in Nat /\ Len(shown) \in Nat
        BY <3>1, ListsHave
      <3>3. Len(shown) <= 3 * size \/ Len(shown) > 3 * size
        BY <3>2
      <3> QED
        BY <3>1, <3>2, <3>3, PagesAre
    <2> HIDE DEF heard, symbols
    <2>6. /\ (shown = Outage) <=> (heard = {})
          /\ heard # {} =>
               /\ \A s \in symbols :
                      Upper[s] \in Tradable \/ universe = Unknown =>
                          Cardinality({i \in DOMAIN shown : shown[i].symbol = s}) = 1
               /\ \A size \in 1..3 :
                      shown = FlattenSeq([page \in 1..3 |-> Page(shown, page, size)])
                          \/ Len(shown) > 3 * size
      BY <2>3, <2>4, <2>5
    <2> QED
      BY <2>6 DEF universe, shown, heard, symbols
  <1> QED
    BY <1>1, MarketInvariance, PTL

\* The caches behind the market endpoints keep what TtlCache promises of any cache.
THEOREM MarketCachesKeep == MarketSpec => ImplementsWindows /\ []OutagesAreForgotten
  BY MarketIsCache, TtlImplementsWindows, Forgetting, PTL
=============================================================================
