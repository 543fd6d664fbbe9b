---------------------------- MODULE CacheWindows ----------------------------
(***************************************************************************)
(* What the single-value cache promises: time is cut into windows, each    *)
(* opened by one run of the fill function and as long as the run's health  *)
(* says, and every caller is answered with the value and the health of the *)
(* last window opened.  No window opens before the one before it is over.  *)
(***************************************************************************)
EXTENDS Integers

CONSTANTS
    Callers,
    NoAnswer,    \* a caller that has not been answered
    Outcomes,    \* what the fill function returns, records [value, healthy]
    TimeToLive,
    NegativeTimeToLive,
    MaxTime      \* bound on the clock

VARIABLES
    now,
    window,  \* the last window: an outcome and the time it is over, at first none
    answers  \* what each caller inside has been answered

Length(o) == IF o.healthy THEN TimeToLive ELSE NegativeTimeToLive

Init ==
    /\ now = 0
    /\ window = [value |-> NoAnswer, healthy |-> TRUE, until |-> 0]
    /\ answers = [c \in Callers |-> NoAnswer]

Open ==
    /\ now >= window.until
    /\ \E o \in Outcomes :
          window' = [value |-> o.value, healthy |-> o.healthy, until |-> now + Length(o)]
    /\ UNCHANGED <<now, answers>>

\* Everyone who waited for the same run is answered at once.
Answer ==
    /\ window.until > 0
    /\ \E C \in SUBSET Callers :
          /\ \A c \in C : answers[c] = NoAnswer
          /\ answers' = [c \in Callers |-> IF c \in C THEN window ELSE answers[c]]
    /\ UNCHANGED <<now, window>>

Leave(c) ==
    /\ answers' = [answers EXCEPT ![c] = NoAnswer]
    /\ UNCHANGED <<now, window>>

Tick ==
    /\ now < MaxTime
    /\ now' = now + 1
    /\ UNCHANGED <<window, answers>>

Next == Open \/ Answer \/ Tick \/ \E c \in Callers : Leave(c)

Spec == Init /\ [][Next]_<<now, window, answers>>
=============================================================================
