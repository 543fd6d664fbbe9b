---------------------------- MODULE FiguresProofs ----------------------------
(***************************************************************************)
(* Proofs about Replay, for ledgers of any finite number of rows, and      *)
(* about the figures shown for a ledger: for any ledger, market, number    *)
(* of portfolios and symbols.                                              *)
(*                                                                         *)
(* The argument: Replay is a fold over the rows, the last in ledger order  *)
(* applied to what the others give.  What holds of the empty set and is    *)
(* kept by one more last row holds of every set of rows, because among     *)
(* finitely many sets that lacked it there would be a smallest one         *)
(* (SmallestSubset).  The same argument shows that the fold is defined at  *)
(* all (WalkTable) and what the sums of the reference definitions do when  *)
(* one element is taken away (SumRemove).  These lemmas ask of a row only  *)
(* the fields Replay reads, so they hold of the rows of MCReplay and of    *)
(* those of MCFigures.                                                     *)
(*                                                                         *)
(* The figures are sums and products over finite sets of rows, holdings,   *)
(* symbols and days; none of them is computed in an order that matters.    *)
(* So every theorem about them is proved by rewriting the sums: over the   *)
(* rows of a holding, over the holdings of a portfolio, over the symbols.  *)
(***************************************************************************)
EXTENDS MCReplay, MCFigures, FiniteSetTheorems, WellFoundedInduction, TLAPS

-----------------------------------------------------------------------------
\* Induction over finite sets, and the sums it gives.

\* Among some subsets of a finite set there is one that contains no other of them.
LEMMA SmallestSubset ==
  ASSUME NEW S, IsFiniteSet(S), NEW Bad, Bad \subseteq SUBSET S, Bad # {}
  PROVE  \E s \in Bad : \A r \in Bad : ~ (r \subseteq s /\ r # s)
<1>1. FiniteSubsetsOf(S) = SUBSET S
  BY FS_FiniteSubsetsOfFinite
<1>2. IsWellFoundedOn(StrictSubsetOrdering(S), SUBSET S)
  BY FS_StrictSubsetOrderingWellFounded, <1>1
<1>3. PICK s \in Bad : \A r \in Bad : <<r, s>> \notin StrictSubsetOrdering(S)
  BY <1>2, WFMin
<1>4. ASSUME NEW r \in Bad, r \subseteq s, r # s PROVE FALSE
  <2>1. <<r, s>> \in (SUBSET S) \X (SUBSET S)
    OBVIOUS
  <2>2. <<r, s>> \in StrictSubsetOrdering(S)
    BY <2>1, <1>4 DEF StrictSubsetOrdering
  <2> QED BY <2>2, <1>3
<1> QED BY <1>4

\* A fold that takes the element pick chooses out of a set, folds the rest and applies step.
Rest(pick, s) == s \ {pick[s]}

\* f is that fold on every subset of R.
FoldsOver(f, R, base, pick, step) ==
  f = [s \in SUBSET R |-> IF s = {} THEN base ELSE step[<<pick[s], f[Rest(pick, s)]>>]]

\* pick chooses an element of every nonempty subset of S.
Picks(pick, S) ==
  /\ pick \in [(SUBSET S) \ {{}} -> S]
  /\ \A s \in (SUBSET S) \ {{}} : pick[s] \in s

\* Folds over two sets agree on the subsets of both.
LEMMA FoldsAgree ==
  ASSUME NEW S, IsFiniteSet(S), NEW base, NEW pick, Picks(pick, S), NEW step,
         NEW R \in SUBSET S, NEW Q \in SUBSET S, R \subseteq Q,
         NEW f, FoldsOver(f, R, base, pick, step),
         NEW g, FoldsOver(g, Q, base, pick, step)
  PROVE  \A s \in SUBSET R : f[s] = g[s]
<1> DEFINE Bad == {s \in SUBSET R : f[s] # g[s]}
<1> SUFFICES ASSUME Bad # {} PROVE FALSE
  OBVIOUS
<1>1. PICK s \in Bad : \A r \in Bad : ~ (r \subseteq s /\ r # s)
  <2>1. Bad \subseteq SUBSET S
    OBVIOUS
  <2> HIDE DEF Bad
  <2> QED BY <2>1, SmallestSubset
<1>2. s # {}
  BY DEF FoldsOver
<1>3. Rest(pick, s) \in SUBSET R /\ Rest(pick, s) \subseteq s /\ Rest(pick, s) # s
  BY <1>2 DEF Rest, Picks
<1>4. f[Rest(pick, s)] = g[Rest(pick, s)]
  BY <1>1, <1>3
<1>5. /\ f[s] = step[<<pick[s], f[Rest(pick, s)]>>]
      /\ g[s] = step[<<pick[s], g[Rest(pick, s)]>>]
  BY <1>2 DEF FoldsOver
<1> QED BY <1>1, <1>4, <1>5

\* There is a fold over every finite set.
LEMMA FoldExists ==
  ASSUME NEW S, IsFiniteSet(S), NEW base, NEW pick, Picks(pick, S), NEW step
  PROVE  \E f : FoldsOver(f, S, base, pick, step)
<1> DEFINE Bad == {R \in SUBSET S : ~ \E f : FoldsOver(f, R, base, pick, step)}
<1> SUFFICES ASSUME Bad # {} PROVE FALSE
  OBVIOUS
<1>1. PICK R \in Bad : \A Q \in Bad : ~ (Q \subseteq R /\ Q # R)
  <2>1. Bad \subseteq SUBSET S
    OBVIOUS
  <2> HIDE DEF Bad
  <2> QED BY <2>1, SmallestSubset
<1> DEFINE below == [Q \in SUBSET R |-> CHOOSE f : FoldsOver(f, Q, base, pick, step)]
           value == [Q \in SUBSET R |-> below[Q][Q]]
           whole == [Q \in SUBSET R |->
                       IF Q # R THEN value[Q]
                       ELSE IF R = {} THEN base
                       ELSE step[<<pick[R], value[Rest(pick, R)]>>]]
<1>2. \A Q \in SUBSET R : Q # R => FoldsOver(below[Q], Q, base, pick, step)
  <2> TAKE Q \in SUBSET R
  <2> HAVE Q # R
  <2>1. \E f : FoldsOver(f, Q, base, pick, step)
    BY <1>1
  <2> QED BY <2>1
<1> HIDE DEF below
<1>3. ASSUME NEW Q \in SUBSET R, Q # {}
      PROVE  /\ Rest(pick, Q) \in SUBSET R
             /\ Rest(pick, Q) \subseteq Q
             /\ Rest(pick, Q) # Q
             /\ Rest(pick, Q) # R
  BY <1>3 DEF Rest, Picks
<1>4. ASSUME NEW Q \in SUBSET R, Q # R, Q # {}
      PROVE  value[Q] = step[<<pick[Q], value[Rest(pick, Q)]>>]
  <2>1. FoldsOver(below[Q], Q, base, pick, step)
    BY <1>2, <1>4
  <2>2. FoldsOver(below[Rest(pick, Q)], Rest(pick, Q), base, pick, step)
    BY <1>2, <1>3, <1>4
  <2>3. below[Q][Q] = step[<<pick[Q], below[Q][Rest(pick, Q)]>>]
    BY <2>1, <1>4, Zenon DEF FoldsOver
  <2>4. below[Rest(pick, Q)][Rest(pick, Q)] = below[Q][Rest(pick, Q)]
    <3>1. Rest(pick, Q) \in SUBSET S /\ Q \in SUBSET S /\ Rest(pick, Q) \subseteq Q
      BY <1>3, <1>4
    <3>2. \A s \in SUBSET Rest(pick, Q) : below[Rest(pick, Q)][s] = below[Q][s]
      <4> DEFINE P == Rest(pick, Q)
      <4>1. P \in SUBSET S /\ Q \in SUBSET S /\ P \subseteq Q
        BY <3>1
      <4>2. FoldsOver(below[P], P, base, pick, step)
        BY <2>2
      <4> DEFINE f == below[P]
                 g == below[Q]
      <4>3. FoldsOver(f, P, base, pick, step) /\ FoldsOver(g, Q, base, pick, step)
        BY <4>2, <2>1
      <4>5. IsFiniteSet(S) /\ Picks(pick, S)
        OBVIOUS
      <4> HIDE DEF P, f, g, Bad, value, whole
      <4>4. \A s \in SUBSET P : f[s] = g[s]
        BY <4>1, <4>3, <4>5, FoldsAgree
      <4> QED BY <4>4 DEF P, f, g
    <3> QED BY <3>2
  <2> QED BY <2>3, <2>4, <1>3, <1>4
<1>5. Bad \subseteq SUBSET S /\ R \in SUBSET S
  OBVIOUS
<1>6. R # {} => value[{}] = base
  <2> SUFFICES ASSUME R # {} PROVE value[{}] = base
    OBVIOUS
  <2>1. {} \in SUBSET R /\ {} # R
    OBVIOUS
  <2>2. FoldsOver(below[{}], {}, base, pick, step)
    BY <1>2, <2>1
  <2>3. below[{}][{}] = base
    BY <2>2 DEF FoldsOver
  <2> QED BY <2>3
<1> HIDE DEF value
<1>7. ASSUME NEW Q \in SUBSET R
      PROVE  whole[Q] = IF Q = {} THEN base ELSE step[<<pick[Q], whole[Rest(pick, Q)]>>]
  <2>1. CASE Q = {}
    BY <2>1, <1>6
  <2>2. CASE Q # {} /\ Q # R
    BY <2>2, <1>4, <1>3
  <2>3. CASE Q # {} /\ Q = R
    BY <2>3, <1>3
  <2> QED BY <2>1, <2>2, <2>3
<1>8. FoldsOver(whole, R, base, pick, step)
  <2> HIDE DEF whole
  <2>1. whole = [Q \in SUBSET R |-> whole[Q]]
    BY DEF whole
  <2> QED BY <2>1, <1>7 DEF FoldsOver
<1> QED BY <1>8, <1>1

\* A fold whose steps stay in V stays in V.
LEMMA TypedFoldExists ==
  ASSUME NEW S, IsFiniteSet(S), NEW V, NEW base \in V, NEW pick, Picks(pick, S),
         NEW step \in [S \X V -> V]
  PROVE  \E f \in [SUBSET S -> V] : FoldsOver(f, S, base, pick, step)
<1>1. PICK f : FoldsOver(f, S, base, pick, step)
  BY FoldExists
<1> DEFINE Bad == {s \in SUBSET S : f[s] \notin V}
<1>2. Bad = {}
  <2> SUFFICES ASSUME Bad # {} PROVE FALSE
    OBVIOUS
  <2>1. PICK s \in Bad : \A r \in Bad : ~ (r \subseteq s /\ r # s)
    <3>1. Bad \subseteq SUBSET S
      OBVIOUS
    <3> HIDE DEF Bad
    <3> QED BY <3>1, SmallestSubset
  <2>2. s # {}
    BY <1>1 DEF FoldsOver
  <2>3. /\ Rest(pick, s) \in SUBSET S /\ Rest(pick, s) \subseteq s /\ Rest(pick, s) # s
        /\ pick[s] \in S
    BY <2>2 DEF Rest, Picks
  <2>4. f[Rest(pick, s)] \in V
    BY <2>1, <2>3
  <2>5. f[s] = step[<<pick[s], f[Rest(pick, s)]>>]
    BY <1>1, <2>2 DEF FoldsOver
  <2>6. <<pick[s], f[Rest(pick, s)]>> \in S \X V
    BY <2>3, <2>4
  <2> QED BY <2>1, <2>5, <2>6
<1>3. f = [s \in SUBSET S |-> f[s]]
  BY <1>1 DEF FoldsOver
<1>4. f \in [SUBSET S -> V]
  BY <1>2, <1>3
<1> QED BY <1>1, <1>4

\* The recursion behind SumFunctionOnSet: an element of the set, and the sum over the
\* others.
SumStep(f, g, s) ==
  IF s = {} THEN 0 ELSE f[CHOOSE x \in s : TRUE] + g[s \ {CHOOSE x \in s : TRUE}]

\* g is that recursion on every subset of S.
IsSum(f, g, S) == g = [s \in SUBSET S |-> SumStep(f, g, s)]

\* What SumFunctionOnSet is defined to be.
LEMMA SumUnfolds ==
  ASSUME NEW f, NEW S
  PROVE  SumFunctionOnSet(f, S) = (CHOOSE g : IsSum(f, g, S))[S]
BY DEF SumFunctionOnSet, FoldFunctionOnSet, MapThenFoldSet, IsSum, SumStep

\* The recursion has a solution, and its values are integers.
LEMMA SumExists ==
  ASSUME NEW S, IsFiniteSet(S), NEW f, \A x \in S : f[x] \in Int
  PROVE  \E g \in [SUBSET S -> Int] : IsSum(f, g, S)
<1> DEFINE pick == [s \in (SUBSET S) \ {{}} |-> CHOOSE x \in s : TRUE]
           step == [p \in S \X Int |-> f[p[1]] + p[2]]
<1>1. Picks(pick, S)
  <2>1. \A s \in (SUBSET S) \ {{}} : pick[s] \in s
    OBVIOUS
  <2>2. \A s \in (SUBSET S) \ {{}} : pick[s] \in S
    BY <2>1
  <2>3. pick \in [(SUBSET S) \ {{}} -> S]
    BY <2>2
  <2> QED BY <2>1, <2>3 DEF Picks
<1>2. step \in [S \X Int -> Int]
  OBVIOUS
<1>3. PICK g \in [SUBSET S -> Int] : FoldsOver(g, S, 0, pick, step)
  <2> DEFINE V == Int
             base == 0
  <2>1. base \in V /\ step \in [S \X V -> V]
    BY <1>2
  <2> HIDE DEF pick, step, V, base
  <2>2. \E g \in [SUBSET S -> V] : FoldsOver(g, S, base, pick, step)
    BY <1>1, <2>1, TypedFoldExists
  <2> QED BY <2>2 DEF V, base
<1>4. ASSUME NEW s \in SUBSET S PROVE g[s] = SumStep(f, g, s)
  <2>1. CASE s = {}
    BY <2>1, <1>3 DEF FoldsOver, SumStep
  <2>2. CASE s # {}
    <3>1. g[s] = step[<<pick[s], g[Rest(pick, s)]>>]
      BY <1>3, <2>2 DEF FoldsOver
    <3>2. pick[s] = CHOOSE x \in s : TRUE
      BY <2>2
    <3>3. pick[s] \in S
      BY <1>1, <2>2 DEF Picks
    <3>4. Rest(pick, s) \in SUBSET S
      BY DEF Rest
    <3>5. g[Rest(pick, s)] \in Int
      BY <3>4
    <3>6. step[<<pick[s], g[Rest(pick, s)]>>] = f[pick[s]] + g[Rest(pick, s)]
      <4> HIDE DEF pick
      <4> QED BY <3>3, <3>5
    <3> QED BY <3>1, <3>2, <3>6, <2>2 DEF SumStep, Rest
  <2> QED BY <2>1, <2>2
<1>5. IsSum(f, g, S)
  <2>1. g = [s \in SUBSET S |-> g[s]]
    OBVIOUS
  <2> QED BY <2>1, <1>4 DEF IsSum
<1> QED BY <1>5

\* Two solutions agree where both are defined.
LEMMA SumsAgree ==
  ASSUME NEW S, IsFiniteSet(S), NEW f, NEW T, T \subseteq S,
         NEW g, IsSum(f, g, S), NEW h, IsSum(f, h, T)
  PROVE  \A s \in SUBSET T : h[s] = g[s]
<1> DEFINE Bad == {s \in SUBSET T : h[s] # g[s]}
<1> SUFFICES ASSUME Bad # {} PROVE FALSE
  OBVIOUS
<1>1. PICK s \in Bad : \A r \in Bad : ~ (r \subseteq s /\ r # s)
  <2>1. Bad \subseteq SUBSET S
    OBVIOUS
  <2> HIDE DEF Bad
  <2> QED BY <2>1, SmallestSubset
<1>2. h[s] = SumStep(f, h, s) /\ g[s] = SumStep(f, g, s)
  BY DEF IsSum
<1>3. s # {}
  BY <1>2 DEF SumStep
<1> DEFINE x == CHOOSE x \in s : TRUE
<1>4. x \in s
  BY <1>3
<1>5. h[s \ {x}] = g[s \ {x}]
  <2>1. s \ {x} \in SUBSET T /\ s \ {x} \subseteq s /\ s \ {x} # s
    BY <1>4
  <2> HIDE DEF x
  <2> QED BY <1>1, <2>1
<1> QED BY <1>1, <1>2, <1>3, <1>5 DEF SumStep

\* The sums of f over the subsets of S in one table, with the recursion they follow.
IsTable(f, g, S) ==
  /\ g \in [SUBSET S -> Int]
  /\ \A T \in SUBSET S : SumFunctionOnSet(f, T) = g[T]
  /\ \A T \in SUBSET S : g[T] = SumStep(f, g, T)

\* There is such a table for every function to integers on a finite set.
LEMMA SumTable ==
  ASSUME NEW S, IsFiniteSet(S), NEW f, \A x \in S : f[x] \in Int
  PROVE  \E g : IsTable(f, g, S)
<1>1. PICK g \in [SUBSET S -> Int] : IsSum(f, g, S)
  BY SumExists
<1>2. ASSUME NEW T \in SUBSET S PROVE SumFunctionOnSet(f, T) = g[T]
  <2>1. IsFiniteSet(T) /\ \A x \in T : f[x] \in Int
    BY FS_Subset
  <2>2. \E h : IsSum(f, h, T)
    BY <2>1, SumExists
  <2> DEFINE h == CHOOSE h : IsSum(f, h, T)
  <2>3. IsSum(f, h, T)
    BY <2>2
  <2>4. SumFunctionOnSet(f, T) = h[T]
    BY SumUnfolds
  <2>5. T \subseteq S
    OBVIOUS
  <2> HIDE DEF h
  <2>6. \A s \in SUBSET T : h[s] = g[s]
    BY <1>1, <2>3, <2>5, SumsAgree
  <2> QED BY <2>4, <2>6
<1>3. ASSUME NEW T \in SUBSET S PROVE g[T] = SumStep(f, g, T)
  BY <1>1 DEF IsSum
<1> QED BY <1>2, <1>3 DEF IsTable

\* A sum of integers is an integer.
LEMMA SumIsInt ==
  ASSUME NEW S, IsFiniteSet(S), NEW f, \A x \in S : f[x] \in Int
  PROVE  SumFunctionOnSet(f, S) \in Int
<1>1. PICK g : IsTable(f, g, S)
  BY SumTable
<1> QED BY <1>1 DEF IsTable

\* The sum over nothing is zero.
LEMMA SumEmpty ==
  ASSUME NEW f
  PROVE  SumFunctionOnSet(f, {}) = 0
<1>1. IsFiniteSet({}) /\ \A x \in {} : f[x] \in Int
  BY FS_EmptySet
<1>2. PICK g : IsTable(f, g, {})
  BY <1>1, SumTable
<1> QED BY <1>2 DEF SumStep, IsTable

\* A sum is any one of its terms and the sum of the others.
LEMMA SumRemove ==
  ASSUME NEW S, IsFiniteSet(S), NEW f, \A x \in S : f[x] \in Int, NEW x \in S
  PROVE  SumFunctionOnSet(f, S) = SumFunctionOnSet(f, S \ {x}) + f[x]
<1>1. PICK g : IsTable(f, g, S)
  BY SumTable
<1> DEFINE Bad == {s \in SUBSET S : \E y \in s : g[s] # g[s \ {y}] + f[y]}
<1>2. Bad = {}
  <2> SUFFICES ASSUME Bad # {} PROVE FALSE
    OBVIOUS
  <2>1. PICK s \in Bad : \A r \in Bad : ~ (r \subseteq s /\ r # s)
    <3>1. Bad \subseteq SUBSET S
      OBVIOUS
    <3> HIDE DEF Bad
    <3> QED BY <3>1, SmallestSubset
  <2>2. PICK y \in s : g[s] # g[s \ {y}] + f[y]
    OBVIOUS
  <2> DEFINE c == CHOOSE c \in s : TRUE
  <2>3. c \in s /\ c \in S /\ y \in S
    OBVIOUS
  <2>4. g[s] = f[c] + g[s \ {c}]
    BY <1>1, <2>2 DEF SumStep, IsTable
  <2> HIDE DEF c
  <2>10. \A r \in SUBSET S : g[r] \in Int
    BY <1>1 DEF IsTable
  <2>5. c # y
    <3> SUFFICES ASSUME c = y PROVE FALSE
      OBVIOUS
    <3>1. g[s \ {y}] \in Int /\ f[y] \in Int
      BY <2>3, <2>10
    <3>2. g[s] = f[y] + g[s \ {y}]
      BY <2>4
    <3> QED BY <2>2, <3>1, <3>2
  <2>6. s \ {c} \notin Bad /\ s \ {y} \notin Bad
    BY <2>1, <2>2, <2>3
  <2>7. g[s \ {c}] = g[(s \ {c}) \ {y}] + f[y]
    BY <2>6, <2>5, <2>2
  <2>8. g[s \ {y}] = g[(s \ {y}) \ {c}] + f[c]
    BY <2>6, <2>5, <2>3
  <2>9. (s \ {y}) \ {c} = (s \ {c}) \ {y}
    OBVIOUS
  <2>11. /\ g[s \ {y}] \in Int /\ g[s \ {c}] \in Int /\ g[(s \ {c}) \ {y}] \in Int
         /\ f[c] \in Int /\ f[y] \in Int
    BY <2>3, <2>10
  <2>12. g[s] = f[c] + (g[(s \ {c}) \ {y}] + f[y])
    BY <2>4, <2>7
  <2>13. g[s \ {y}] = g[(s \ {c}) \ {y}] + f[c]
    BY <2>8, <2>9
  <2> QED BY <2>2, <2>11, <2>12, <2>13
<1>3. g[S] = g[S \ {x}] + f[x]
  BY <1>2
<1>4. S \in SUBSET S /\ S \ {x} \in SUBSET S
  OBVIOUS
<1> QED BY <1>1, <1>3, <1>4 DEF IsTable

\* One more term.
LEMMA SumAdd ==
  ASSUME NEW S, IsFiniteSet(S), NEW x, x \notin S, NEW f, \A y \in S \union {x} : f[y] \in Int
  PROVE  SumFunctionOnSet(f, S \union {x}) = SumFunctionOnSet(f, S) + f[x]
<1> DEFINE T == S \union {x}
<1>1. IsFiniteSet(T) /\ x \in T /\ T \ {x} = S /\ \A y \in T : f[y] \in Int
  BY FS_AddElement
<1> HIDE DEF T
<1>2. SumFunctionOnSet(f, T) = SumFunctionOnSet(f, T \ {x}) + f[x]
  BY <1>1, SumRemove
<1> QED BY <1>1, <1>2 DEF T

\* Equal terms have equal sums.
LEMMA SumsSame ==
  ASSUME NEW S, IsFiniteSet(S), NEW f, \A x \in S : f[x] \in Int,
         NEW g, \A x \in S : f[x] = g[x]
  PROVE  SumFunctionOnSet(f, S) = SumFunctionOnSet(g, S)
<1> DEFINE Bad == {s \in SUBSET S : SumFunctionOnSet(f, s) # SumFunctionOnSet(g, s)}
<1> SUFFICES ASSUME Bad # {} PROVE FALSE
  OBVIOUS
<1>1. PICK s \in Bad : \A r \in Bad : ~ (r \subseteq s /\ r # s)
  <2>1. Bad \subseteq SUBSET S
    OBVIOUS
  <2> HIDE DEF Bad
  <2> QED BY <2>1, SmallestSubset
<1>2. s # {}
  BY SumEmpty
<1>3. PICK x \in s : TRUE
  BY <1>2
<1>4. /\ IsFiniteSet(s)
      /\ \A y \in s : f[y] \in Int /\ g[y] \in Int /\ f[y] = g[y]
  BY FS_Subset
<1>5. s \ {x} \notin Bad
  BY <1>1, <1>3
<1>6. SumFunctionOnSet(f, s \ {x}) = SumFunctionOnSet(g, s \ {x})
  BY <1>5
<1>7. SumFunctionOnSet(f, s) = SumFunctionOnSet(f, s \ {x}) + f[x]
  BY <1>4, SumRemove
<1>8. SumFunctionOnSet(g, s) = SumFunctionOnSet(g, s \ {x}) + g[x]
  BY <1>4, SumRemove
<1>9. f[x] = g[x] /\ s \in Bad
  BY <1>4
<1> QED BY <1>6, <1>7, <1>8, <1>9

\* The sum over two disjoint sets is the sum of their sums.
LEMMA SumUnion ==
  ASSUME NEW S, IsFiniteSet(S), NEW T, IsFiniteSet(T), S \cap T = {},
         NEW f, \A x \in S \union T : f[x] \in Int
  PROVE  SumFunctionOnSet(f, S \union T) = SumFunctionOnSet(f, S) + SumFunctionOnSet(f, T)
<1> DEFINE Bad == {s \in SUBSET T : SumFunctionOnSet(f, S \union s)
                                      # SumFunctionOnSet(f, S) + SumFunctionOnSet(f, s)}
<1> SUFFICES ASSUME Bad # {} PROVE FALSE
  OBVIOUS
<1>1. PICK s \in Bad : \A r \in Bad : ~ (r \subseteq s /\ r # s)
  <2>1. Bad \subseteq SUBSET T
    OBVIOUS
  <2> HIDE DEF Bad
  <2> QED BY <2>1, SmallestSubset
<1>2. SumFunctionOnSet(f, S) \in Int
  BY SumIsInt
<1>3. s # {}
  <2> SUFFICES ASSUME s = {} PROVE FALSE
    OBVIOUS
  <2>1. SumFunctionOnSet(f, S \union s) = SumFunctionOnSet(f, S)
    <3>1. S \union s = S
      OBVIOUS
    <3> QED BY <3>1
  <2>2. SumFunctionOnSet(f, s) = 0
    BY SumEmpty
  <2>3. s \in Bad
    OBVIOUS
  <2> QED BY <2>1, <2>2, <2>3, <1>2
<1>4. PICK x \in s : TRUE
  BY <1>3
<1>5. IsFiniteSet(s) /\ IsFiniteSet(s \ {x}) /\ \A y \in s : f[y] \in Int
  BY FS_Subset
<1>6. SumFunctionOnSet(f, S \union (s \ {x}))
        = SumFunctionOnSet(f, S) + SumFunctionOnSet(f, s \ {x})
  BY <1>1, <1>4
<1>7. SumFunctionOnSet(f, s) = SumFunctionOnSet(f, s \ {x}) + f[x]
  BY <1>5, SumRemove
<1>8. SumFunctionOnSet(f, S \union s) = SumFunctionOnSet(f, S \union (s \ {x})) + f[x]
  <2> DEFINE U == S \union s
  <2>1. IsFiniteSet(U)
    BY <1>5, FS_Union
  <2>2. x \in U /\ \A y \in U : f[y] \in Int
    OBVIOUS
  <2>3. U \ {x} = S \union (s \ {x})
    OBVIOUS
  <2> HIDE DEF U
  <2>4. SumFunctionOnSet(f, U) = SumFunctionOnSet(f, U \ {x}) + f[x]
    BY <2>1, <2>2, SumRemove
  <2> QED BY <2>3, <2>4 DEF U
<1>9. SumFunctionOnSet(f, s \ {x}) \in Int /\ f[x] \in Int /\ s \in Bad
  BY <1>5, SumIsInt
<1> QED BY <1>2, <1>6, <1>7, <1>8, <1>9

\* A sum of naturals is a natural.
LEMMA SumIsNat ==
  ASSUME NEW S, IsFiniteSet(S), NEW f, \A x \in S : f[x] \in Nat
  PROVE  SumFunctionOnSet(f, S) \in Nat
<1> DEFINE Bad == {s \in SUBSET S : SumFunctionOnSet(f, s) \notin Nat}
<1> SUFFICES ASSUME Bad # {} PROVE FALSE
  OBVIOUS
<1>1. PICK s \in Bad : \A r \in Bad : ~ (r \subseteq s /\ r # s)
  <2>1. Bad \subseteq SUBSET S
    OBVIOUS
  <2> HIDE DEF Bad
  <2> QED BY <2>1, SmallestSubset
<1>2. s # {}
  BY SumEmpty
<1>3. PICK x \in s : TRUE
  BY <1>2
<1>4. IsFiniteSet(s) /\ \A y \in s : f[y] \in Int
  BY FS_Subset
<1>5. SumFunctionOnSet(f, s \ {x}) \in Nat
  BY <1>1, <1>3
<1>6. SumFunctionOnSet(f, s) = SumFunctionOnSet(f, s \ {x}) + f[x]
  BY <1>4, SumRemove
<1>7. f[x] \in Nat /\ SumFunctionOnSet(f, s) \notin Nat
  OBVIOUS
<1> QED BY <1>5, <1>6, <1>7

\* A sum of naturals over fewer elements is no larger.
LEMMA SumSubset ==
  ASSUME NEW S, IsFiniteSet(S), NEW T \in SUBSET S, NEW f, \A x \in S : f[x] \in Nat
  PROVE  /\ SumFunctionOnSet(f, T) \in Nat
         /\ SumFunctionOnSet(f, S) \in Nat
         /\ SumFunctionOnSet(f, T) <= SumFunctionOnSet(f, S)
<1> DEFINE U == S \ T
<1>1. IsFiniteSet(U) /\ IsFiniteSet(T) /\ U \cap T = {} /\ T \union U = S
  BY FS_Subset
<1>2. /\ \A x \in T : f[x] \in Nat
      /\ \A x \in U : f[x] \in Nat
      /\ \A x \in T \union U : f[x] \in Int
  OBVIOUS
<1> HIDE DEF U
<1>3. SumFunctionOnSet(f, T \union U) = SumFunctionOnSet(f, T) + SumFunctionOnSet(f, U)
  BY <1>1, <1>2, SumUnion
<1>4. SumFunctionOnSet(f, T) \in Nat
  BY <1>1, <1>2, SumIsNat
<1>5. SumFunctionOnSet(f, U) \in Nat
  BY <1>1, <1>2, SumIsNat
<1>6. SumFunctionOnSet(f, S) = SumFunctionOnSet(f, T) + SumFunctionOnSet(f, U)
  BY <1>1, <1>3
<1> QED BY <1>4, <1>5, <1>6


\* A sum of zeros is zero.
LEMMA SumZero ==
  ASSUME NEW S, IsFiniteSet(S), NEW f, \A x \in S : f[x] = 0
  PROVE  SumFunctionOnSet(f, S) = 0
<1> DEFINE Bad == {s \in SUBSET S : SumFunctionOnSet(f, s) # 0}
<1> SUFFICES ASSUME Bad # {} PROVE FALSE
  OBVIOUS
<1>1. PICK s \in Bad : \A r \in Bad : ~ (r \subseteq s /\ r # s)
  <2>1. Bad \subseteq SUBSET S
    OBVIOUS
  <2> HIDE DEF Bad
  <2> QED BY <2>1, SmallestSubset
<1>2. s # {}
  BY SumEmpty
<1>3. PICK x \in s : TRUE
  BY <1>2
<1>4. IsFiniteSet(s) /\ \A y \in s : f[y] \in Int
  BY FS_Subset
<1>5. SumFunctionOnSet(f, s \ {x}) = 0
  BY <1>1, <1>3
<1>6. SumFunctionOnSet(f, s) = SumFunctionOnSet(f, s \ {x}) + f[x]
  BY <1>4, SumRemove
<1>7. f[x] = 0 /\ SumFunctionOnSet(f, s) # 0
  OBVIOUS
<1> QED BY <1>5, <1>6, <1>7

\* A sum of naturals with a positive one among them is positive.
LEMMA SumPositive ==
  ASSUME NEW S, IsFiniteSet(S), NEW f, \A x \in S : f[x] \in Nat, NEW x \in S, f[x] > 0
  PROVE  SumFunctionOnSet(f, S) \in Nat /\ SumFunctionOnSet(f, S) > 0
<1>1. \A y \in S : f[y] \in Int
  OBVIOUS
<1>2. SumFunctionOnSet(f, S) = SumFunctionOnSet(f, S \ {x}) + f[x]
  BY <1>1, SumRemove
<1>3. SumFunctionOnSet(f, S) \in Nat
  BY SumIsNat
<1>4. SumFunctionOnSet(f, S \ {x}) \in Nat
  <2> DEFINE T == S \ {x}
  <2>1. IsFiniteSet(T) /\ \A y \in T : f[y] \in Nat
    BY FS_Subset
  <2> HIDE DEF T
  <2>2. SumFunctionOnSet(f, T) \in Nat
    BY <2>1, SumIsNat
  <2> QED BY <2>2 DEF T
<1> QED BY <1>2, <1>3, <1>4

\* The sum of sums.
LEMMA SumPlus ==
  ASSUME NEW S, IsFiniteSet(S), NEW f, NEW g, NEW h,
         \A x \in S : f[x] \in Int /\ g[x] \in Int /\ h[x] = f[x] + g[x]
  PROVE  SumFunctionOnSet(h, S) = SumFunctionOnSet(f, S) + SumFunctionOnSet(g, S)
<1> DEFINE Bad == {s \in SUBSET S : SumFunctionOnSet(h, s)
                                      # SumFunctionOnSet(f, s) + SumFunctionOnSet(g, s)}
<1> SUFFICES ASSUME Bad # {} PROVE FALSE
  OBVIOUS
<1>1. PICK s \in Bad : \A r \in Bad : ~ (r \subseteq s /\ r # s)
  <2>1. Bad \subseteq SUBSET S
    OBVIOUS
  <2> HIDE DEF Bad
  <2> QED BY <2>1, SmallestSubset
<1>2. s # {}
  <2> SUFFICES ASSUME s = {} PROVE FALSE
    OBVIOUS
  <2>1. SumFunctionOnSet(f, s) = 0 /\ SumFunctionOnSet(g, s) = 0 /\ SumFunctionOnSet(h, s) = 0
    BY SumEmpty
  <2> QED BY <2>1
<1>3. PICK x \in s : TRUE
  BY <1>2
<1>4. IsFiniteSet(s) /\ IsFiniteSet(s \ {x})
  BY FS_Subset
<1>5. \A y \in s : f[y] \in Int /\ g[y] \in Int /\ h[y] \in Int
  OBVIOUS
<1>6. SumFunctionOnSet(h, s \ {x}) = SumFunctionOnSet(f, s \ {x}) + SumFunctionOnSet(g, s \ {x})
  BY <1>1, <1>3
<1>7. /\ SumFunctionOnSet(f, s) = SumFunctionOnSet(f, s \ {x}) + f[x]
      /\ SumFunctionOnSet(g, s) = SumFunctionOnSet(g, s \ {x}) + g[x]
      /\ SumFunctionOnSet(h, s) = SumFunctionOnSet(h, s \ {x}) + h[x]
  BY <1>4, <1>5, SumRemove
<1>8. /\ SumFunctionOnSet(f, s \ {x}) \in Int
      /\ SumFunctionOnSet(g, s \ {x}) \in Int
  BY <1>4, <1>5, SumIsInt
<1>9. h[x] = f[x] + g[x] /\ f[x] \in Int /\ g[x] \in Int /\ s \in Bad
  OBVIOUS
<1> QED BY <1>6, <1>7, <1>8, <1>9

\* A common factor.
LEMMA SumScaled ==
  ASSUME NEW S, IsFiniteSet(S), NEW f, NEW g, NEW k \in Int,
         \A x \in S : f[x] \in Int /\ g[x] = k * f[x]
  PROVE  SumFunctionOnSet(g, S) = k * SumFunctionOnSet(f, S)
<1> DEFINE Bad == {s \in SUBSET S : SumFunctionOnSet(g, s) # k * SumFunctionOnSet(f, s)}
<1> SUFFICES ASSUME Bad # {} PROVE FALSE
  OBVIOUS
<1>1. PICK s \in Bad : \A r \in Bad : ~ (r \subseteq s /\ r # s)
  <2>1. Bad \subseteq SUBSET S
    OBVIOUS
  <2> HIDE DEF Bad
  <2> QED BY <2>1, SmallestSubset
<1>2. s # {}
  <2> SUFFICES ASSUME s = {} PROVE FALSE
    OBVIOUS
  <2>1. SumFunctionOnSet(f, s) = 0 /\ SumFunctionOnSet(g, s) = 0
    BY SumEmpty
  <2> QED BY <2>1
<1>3. PICK x \in s : TRUE
  BY <1>2
<1>4. IsFiniteSet(s) /\ IsFiniteSet(s \ {x})
  BY FS_Subset
<1>5. \A y \in s : f[y] \in Int /\ g[y] \in Int
  OBVIOUS
<1>6. SumFunctionOnSet(g, s \ {x}) = k * SumFunctionOnSet(f, s \ {x})
  BY <1>1, <1>3
<1>7. /\ SumFunctionOnSet(f, s) = SumFunctionOnSet(f, s \ {x}) + f[x]
      /\ SumFunctionOnSet(g, s) = SumFunctionOnSet(g, s \ {x}) + g[x]
  BY <1>4, <1>5, SumRemove
<1>8. SumFunctionOnSet(f, s \ {x}) \in Int
  BY <1>4, <1>5, SumIsInt
<1>9. g[x] = k * f[x] /\ f[x] \in Int /\ SumFunctionOnSet(g, s) # k * SumFunctionOnSet(f, s)
  OBVIOUS
<1>10. k * (SumFunctionOnSet(f, s \ {x}) + f[x]) = k * SumFunctionOnSet(f, s \ {x}) + k * f[x]
  BY <1>8, <1>9
<1> QED BY <1>6, <1>7, <1>9, <1>10

\* Larger terms have a larger sum.
LEMMA SumAtMost ==
  ASSUME NEW S, IsFiniteSet(S), NEW f, NEW g,
         \A x \in S : f[x] \in Int /\ g[x] \in Int /\ f[x] <= g[x]
  PROVE  /\ SumFunctionOnSet(f, S) \in Int /\ SumFunctionOnSet(g, S) \in Int
         /\ SumFunctionOnSet(f, S) <= SumFunctionOnSet(g, S)
<1> DEFINE h == [x \in S |-> g[x] - f[x]]
<1>1. \A x \in S : h[x] \in Nat /\ f[x] \in Int /\ h[x] \in Int /\ g[x] = f[x] + h[x]
  OBVIOUS
<1> HIDE DEF h
<1>2. SumFunctionOnSet(g, S) = SumFunctionOnSet(f, S) + SumFunctionOnSet(h, S)
  BY <1>1, SumPlus
<1>3. SumFunctionOnSet(h, S) \in Nat
  BY <1>1, SumIsNat
<1>4. SumFunctionOnSet(f, S) \in Int
  BY SumIsInt
<1> QED BY <1>2, <1>3, <1>4

\* Among finitely many values there is a greatest.
LEMMA GreatestExists ==
  ASSUME NEW S, IsFiniteSet(S), S # {}, NEW f, \A x \in S : f[x] \in Int
  PROVE  \E x \in S : \A y \in S : f[y] <= f[x]
<1> DEFINE Good(s) == \E x \in s : \A y \in s : f[y] <= f[x]
           Bad == {s \in SUBSET S : s # {} /\ ~ Good(s)}
<1> SUFFICES ASSUME Bad # {} PROVE FALSE
  OBVIOUS
<1>1. PICK s \in Bad : \A r \in Bad : ~ (r \subseteq s /\ r # s)
  <2>1. Bad \subseteq SUBSET S
    OBVIOUS
  <2> HIDE DEF Bad
  <2> QED BY <2>1, SmallestSubset
<1>2. s \in SUBSET S /\ s # {} /\ ~ Good(s)
  OBVIOUS
<1>3. PICK x \in s : TRUE
  BY <1>2
<1>4. \A y \in s : f[y] \in Int
  BY <1>2
<1>5. s \ {x} # {}
  <2> SUFFICES ASSUME s \ {x} = {} PROVE FALSE
    OBVIOUS
  <2>1. \A y \in s : y = x
    OBVIOUS
  <2> QED BY <1>2, <1>4, <2>1
<1>6. Good(s \ {x})
  <2>1. s \ {x} \notin Bad
    <3>1. s \ {x} \subseteq s /\ s \ {x} # s
      BY <1>3
    <3> HIDE DEF Bad
    <3> QED BY <1>1, <3>1
  <2>2. s \ {x} \in SUBSET S
    BY <1>2
  <2> HIDE DEF Good
  <2> QED BY <1>5, <2>1, <2>2
<1>7. PICK m \in s \ {x} : \A y \in s \ {x} : f[y] <= f[m]
  BY <1>6
<1>8. CASE f[x] <= f[m]
  BY <1>2, <1>7, <1>8
<1>9. CASE f[m] <= f[x]
  <2>1. \A y \in s : f[y] <= f[x]
    BY <1>4, <1>7, <1>9
  <2> QED BY <1>2, <2>1
<1> QED BY <1>4, <1>7, <1>8, <1>9

\* Among finitely many values there is a least.
LEMMA LeastExists ==
  ASSUME NEW S, IsFiniteSet(S), S # {}, NEW f, \A x \in S : f[x] \in Int
  PROVE  \E x \in S : \A y \in S : f[x] <= f[y]
<1> DEFINE g == [x \in S |-> -f[x]]
<1>1. \A x \in S : g[x] \in Int
  OBVIOUS
<1>2. \E x \in S : \A y \in S : g[y] <= g[x]
  <2> HIDE DEF g
  <2> QED BY <1>1, GreatestExists
<1> QED BY <1>2

\* g is the sum of the terms f of each key.
GroupedBy(key, f, g, S, T) ==
  \A t \in T : g[t] = SumFunctionOnSet(f, {x \in S : key[x] = t})

\* A sum is the sum over the keys of the sums of their terms.
LEMMA SumGrouped ==
  ASSUME NEW S, IsFiniteSet(S), NEW T, IsFiniteSet(T), NEW f, \A x \in S : f[x] \in Int,
         NEW key, \A x \in S : key[x] \in T,
         NEW g, GroupedBy(key, f, g, S, T)
  PROVE  SumFunctionOnSet(f, S) = SumFunctionOnSet(g, T)
<1> DEFINE Part(r) == {x \in S : key[x] \in r}
           Bad == {r \in SUBSET T : SumFunctionOnSet(f, Part(r)) # SumFunctionOnSet(g, r)}
<1>1. Bad = {}
  <2> SUFFICES ASSUME Bad # {} PROVE FALSE
    OBVIOUS
  <2>1. PICK s \in Bad : \A r \in Bad : ~ (r \subseteq s /\ r # s)
    <3>1. Bad \subseteq SUBSET T
      OBVIOUS
    <3> HIDE DEF Bad
    <3> QED BY <3>1, SmallestSubset
  <2>2. s # {}
    <3> SUFFICES ASSUME s = {} PROVE FALSE
      OBVIOUS
    <3>1. Part(s) = {}
      OBVIOUS
    <3> QED BY <3>1, SumEmpty
  <2>3. PICK t \in s : TRUE
    BY <2>2
  <2>4. SumFunctionOnSet(f, Part(s \ {t})) = SumFunctionOnSet(g, s \ {t})
    BY <2>1, <2>3
  <2> DEFINE A == Part(s \ {t})
             B == {x \in S : key[x] = t}
  <2>5. /\ IsFiniteSet(A) /\ IsFiniteSet(B) /\ A \cap B = {} /\ A \union B = Part(s)
        /\ \A x \in A \union B : f[x] \in Int
    BY FS_Subset
  <2>6. g[t] = SumFunctionOnSet(f, B)
    BY DEF GroupedBy
  <2>7. \A y \in s : g[y] \in Int
    <3> TAKE y \in s
    <3> DEFINE C == {x \in S : key[x] = y}
    <3>1. IsFiniteSet(C) /\ \A x \in C : f[x] \in Int
      BY FS_Subset
    <3>2. g[y] = SumFunctionOnSet(f, C)
      BY DEF GroupedBy
    <3> HIDE DEF C
    <3> QED BY <3>1, <3>2, SumIsInt
  <2>8. SumFunctionOnSet(g, s) = SumFunctionOnSet(g, s \ {t}) + g[t]
    <3>1. IsFiniteSet(s)
      BY FS_Subset
    <3> QED BY <2>7, <3>1, SumRemove
  <2>9. SumFunctionOnSet(f, Part(s)) # SumFunctionOnSet(g, s)
    OBVIOUS
  <2>10. SumFunctionOnSet(f, A \union B) = SumFunctionOnSet(f, A) + SumFunctionOnSet(f, B)
    <3> HIDE DEF A, B, Part, Bad
    <3> QED BY <2>5, SumUnion
  <2>11. SumFunctionOnSet(f, Part(s)) = SumFunctionOnSet(g, s \ {t}) + g[t]
    <3>1. SumFunctionOnSet(f, A \union B) = SumFunctionOnSet(f, Part(s))
      BY <2>5
    <3>2. SumFunctionOnSet(f, A) = SumFunctionOnSet(g, s \ {t})
      BY <2>4
    <3> QED BY <2>6, <2>10, <3>1, <3>2
  <2> QED BY <2>8, <2>9, <2>11
<1>2. Part(T) = S
  OBVIOUS
<1> QED BY <1>1, <1>2

\* A sum does not depend on what its terms are called.
LEMMA SumRenamed ==
  ASSUME NEW S, IsFiniteSet(S), NEW T, IsFiniteSet(T), NEW f, \A x \in S : f[x] \in Int,
         NEW new, \A x \in S : new[x] \in T,
         \A x, y \in S : new[x] = new[y] => x = y,
         \A t \in T : \E x \in S : new[x] = t,
         NEW g, \A x \in S : g[new[x]] = f[x]
  PROVE  SumFunctionOnSet(f, S) = SumFunctionOnSet(g, T)
<1>1. ASSUME NEW t \in T PROVE g[t] = SumFunctionOnSet(f, {x \in S : new[x] = t})
  <2>1. PICK x \in S : new[x] = t
    OBVIOUS
  <2>2. {y \in S : new[y] = t} = {x}
    BY <2>1
  <2>3. SumFunctionOnSet(f, {x}) = f[x]
    <3> DEFINE U == {x}
    <3>1. IsFiniteSet(U) /\ x \in U /\ (\A y \in U : f[y] \in Int) /\ U \ {x} = {}
      BY FS_Singleton
    <3> HIDE DEF U
    <3>2. SumFunctionOnSet(f, U) = SumFunctionOnSet(f, U \ {x}) + f[x]
      BY <3>1, SumRemove
    <3>3. SumFunctionOnSet(f, {}) = 0
      BY SumEmpty
    <3>4. f[x] \in Int
      OBVIOUS
    <3>5. SumFunctionOnSet(f, U \ {x}) = 0
      BY <3>1, <3>3
    <3>6. SumFunctionOnSet(f, U) = f[x]
      BY <3>2, <3>4, <3>5
    <3> QED BY <3>6 DEF U
  <2> QED BY <2>1, <2>2, <2>3
<1>2. GroupedBy(new, f, g, S, T)
  BY <1>1 DEF GroupedBy
<1>3. /\ IsFiniteSet(S) /\ IsFiniteSet(T)
      /\ \A x \in S : f[x] \in Int
      /\ \A x \in S : new[x] \in T
  OBVIOUS
<1> QED BY <1>2, <1>3, SumGrouped

-----------------------------------------------------------------------------
\* The rows of a ledger and their order.

\* A row, of which only the fields Replay reads matter.
IsTrade(t) ==
  /\ t.side \in {"buy", "sell"}
  /\ t.quantity \in Nat \ {0}
  /\ t.price \in Nat
  /\ t.fee \in Nat
  /\ t.day \in Days

\* A function from ids to such rows, or to NoRow.
IsLedger(L) ==
  /\ L = [i \in TxIds |-> L[i]]
  /\ \A i \in Stored(L) : IsTrade(L[i])

\* The fields of a stored row.
LEMMA RowsTyped ==
  ASSUME NEW L, IsLedger(L), NEW i \in Stored(L)
  PROVE  /\ i \in TxIds /\ i \in Nat
         /\ IsTrade(L[i])
         /\ L[i].side \in {"buy", "sell"}
         /\ L[i].quantity \in Nat \ {0}
         /\ L[i].price \in Nat
         /\ L[i].fee \in Nat
         /\ L[i].day \in Nat /\ L[i].day \in Days
<1>1. i \in TxIds /\ L[i] # NoRow
  BY DEF Stored
<1>2. IsTrade(L[i])
  BY DEF IsLedger
<1> QED BY <1>1, <1>2, RowDomains DEF IsTrade

\* Of two stored rows one comes before the other (internal/domain/portfolio/ledger.go,
\* TransactionBefore).
LEMMA OrderIsTotal ==
  ASSUME NEW L, IsLedger(L), NEW i \in Stored(L), NEW j \in Stored(L), i # j
  PROVE  TransactionBefore(L, i, j) \/ TransactionBefore(L, j, i)
<1>1. /\ i \in Nat /\ L[i].side \in {"buy", "sell"} /\ L[i].day \in Nat
  BY RowsTyped
<1>2. /\ j \in Nat /\ L[j].side \in {"buy", "sell"} /\ L[j].day \in Nat
  BY RowsTyped
<1> QED BY <1>1, <1>2 DEF TransactionBefore

\* No row comes before itself, nor two before each other.
LEMMA OrderIsStrict ==
  ASSUME NEW L, IsLedger(L), NEW i \in Stored(L), NEW j \in Stored(L),
         TransactionBefore(L, i, j)
  PROVE  i # j /\ ~ TransactionBefore(L, j, i)
<1>1. /\ i \in Nat /\ L[i].side \in {"buy", "sell"} /\ L[i].day \in Nat
  BY RowsTyped
<1>2. /\ j \in Nat /\ L[j].side \in {"buy", "sell"} /\ L[j].day \in Nat
  BY RowsTyped
<1> QED BY <1>1, <1>2 DEF TransactionBefore

\* The ledger order is transitive.
LEMMA OrderIsTransitive ==
  ASSUME NEW L, IsLedger(L), NEW i \in Stored(L), NEW j \in Stored(L), NEW k \in Stored(L),
         TransactionBefore(L, i, j), TransactionBefore(L, j, k)
  PROVE  TransactionBefore(L, i, k)
<1>1. /\ i \in Nat /\ L[i].side \in {"buy", "sell"} /\ L[i].day \in Nat
  BY RowsTyped
<1>2. /\ j \in Nat /\ L[j].side \in {"buy", "sell"} /\ L[j].day \in Nat
  BY RowsTyped
<1>3. /\ k \in Nat /\ L[k].side \in {"buy", "sell"} /\ L[k].day \in Nat
  BY RowsTyped
<1> QED BY <1>1, <1>2, <1>3 DEF TransactionBefore

\* A ledger of finitely many rows.
FiniteLedger(L) == IsLedger(L) /\ IsFiniteSet(Stored(L))

\* Row i comes after the other rows of s.
IsLast(L, s, i) == i \in s /\ \A j \in s \ {i} : TransactionBefore(L, j, i)

\* Every nonempty set of rows has a last one.
LEMMA LastExists ==
  ASSUME NEW L, FiniteLedger(L), NEW s \in SUBSET Stored(L), s # {}
  PROVE  \E i : IsLast(L, s, i)
<1> DEFINE Bad == {r \in SUBSET s : r # {} /\ ~ \E i : IsLast(L, r, i)}
<1> SUFFICES ASSUME Bad # {} PROVE FALSE
  OBVIOUS
<1>1. PICK r \in Bad : \A q \in Bad : ~ (q \subseteq r /\ q # r)
  <2>1. Bad \subseteq SUBSET Stored(L)
    OBVIOUS
  <2> HIDE DEF Bad
  <2> QED BY <2>1, SmallestSubset DEF FiniteLedger
<1>2. PICK y \in r : TRUE
  OBVIOUS
<1>3. r \subseteq Stored(L) /\ IsLedger(L)
  BY DEF FiniteLedger
<1>4. r \ {y} # {}
  <2>1. r = {y} => IsLast(L, r, y)
    BY DEF IsLast
  <2> QED BY <2>1, <1>2
<1>5. PICK m : IsLast(L, r \ {y}, m)
  <2>1. r \ {y} \subseteq r /\ r \ {y} # r
    BY <1>2
  <2> QED BY <1>1, <1>4, <2>1
<1>6. m \in r /\ m # y /\ m \in Stored(L) /\ y \in Stored(L)
  BY <1>3, <1>5 DEF IsLast
<1>7. CASE TransactionBefore(L, y, m)
  <2>1. IsLast(L, r, m)
    BY <1>5, <1>6, <1>7 DEF IsLast
  <2> QED BY <2>1, <1>1
<1>8. CASE TransactionBefore(L, m, y)
  <2>1. ASSUME NEW j \in r \ {y} PROVE TransactionBefore(L, j, y)
    <3>1. j = m \/ TransactionBefore(L, j, m)
      BY <1>5 DEF IsLast
    <3> QED BY <3>1, <1>8, <1>6, <1>3, OrderIsTransitive
  <2>2. IsLast(L, r, y)
    BY <2>1, <1>6 DEF IsLast
  <2> QED BY <2>2, <1>1
<1> QED BY <1>6, <1>7, <1>8, <1>3, OrderIsTotal

\* LastRow finds it.
LEMMA LastIsUnique ==
  ASSUME NEW L, IsLedger(L), NEW s \in SUBSET Stored(L), NEW i, IsLast(L, s, i)
  PROVE  LastRow(L, s) = i
<1>1. i \in s /\ \A j \in s \ {i} : TransactionBefore(L, j, i)
  BY DEF IsLast
<1>2. ASSUME NEW k \in s, \A j \in s \ {k} : TransactionBefore(L, j, k)
      PROVE  k = i
  <2> SUFFICES ASSUME k # i PROVE FALSE
    OBVIOUS
  <2>1. TransactionBefore(L, i, k) /\ TransactionBefore(L, k, i)
    BY <1>1, <1>2
  <2> QED BY <2>1, <1>1, OrderIsStrict
<1> QED BY <1>1, <1>2 DEF LastRow

\* LastRow of a nonempty set of rows is one of them and comes after the others.
LEMMA LastRowIsLast ==
  ASSUME NEW L, FiniteLedger(L), NEW s \in SUBSET Stored(L), s # {}
  PROVE  IsLast(L, s, LastRow(L, s))
BY LastExists, LastIsUnique DEF FiniteLedger

\* A product of naturals is a natural.
LEMMA ProductNat ==
  ASSUME NEW a \in Nat, NEW b \in Nat
  PROVE  a * b \in Nat
OBVIOUS

\* What an integer quotient is, by its bounds.
LEMMA QuotientIs ==
  ASSUME NEW n \in Int, NEW d \in Nat \ {0}, NEW q \in Int,
         d * q <= n, n < d * q + d
  PROVE  n \div d = q
OBVIOUS

\* The bounds of an integer quotient.
LEMMA QuotientBounds ==
  ASSUME NEW n \in Int, NEW d \in Nat \ {0}
  PROVE  /\ n \div d \in Int
         /\ d * (n \div d) <= n
         /\ n < d * (n \div d) + d
OBVIOUS

\* math.Round moves a quotient by half a unit at most.
LEMMA RoundedQuotientBounds ==
  ASSUME NEW n \in Int, NEW d \in Nat \ {0}
  PROVE  /\ RoundedQuotient(n, d) \in Int
         /\ 2 * n - d <= 2 * (d * RoundedQuotient(n, d))
         /\ 2 * (d * RoundedQuotient(n, d)) <= 2 * n + d
<1>1. 2 * d \in Nat \ {0} /\ 2 * n + d \in Int /\ d - 2 * n \in Int
  OBVIOUS
<1>2. CASE n >= 0
  <2> DEFINE q == (2 * n + d) \div (2 * d)
  <2>1. q \in Int /\ (2 * d) * q <= 2 * n + d /\ 2 * n + d < (2 * d) * q + 2 * d
    BY <1>1, QuotientBounds
  <2>2. RoundedQuotient(n, d) = q
    BY <1>2 DEF RoundedQuotient
  <2> HIDE DEF q
  <2>3. (2 * d) * q = 2 * (d * q)
    BY <2>1
  <2>4. d * q \in Int
    BY <2>1
  <2> QED BY <2>1, <2>2, <2>3, <2>4
<1>3. CASE ~ (n >= 0)
  <2> DEFINE q == (d - 2 * n) \div (2 * d)
  <2>1. q \in Int /\ (2 * d) * q <= d - 2 * n /\ d - 2 * n < (2 * d) * q + 2 * d
    BY <1>1, QuotientBounds
  <2>2. RoundedQuotient(n, d) = -q
    BY <1>3 DEF RoundedQuotient
  <2> HIDE DEF q
  <2>3. (2 * d) * q = 2 * (d * q) /\ d * (-q) = -(d * q)
    BY <2>1
  <2>4. d * q \in Int
    BY <2>1
  <2> QED BY <2>1, <2>2, <2>3, <2>4
<1> QED BY <1>2, <1>3

\* A common factor cancels out of a quotient.
LEMMA ScaledQuotient ==
  ASSUME NEW n \in Int, NEW d \in Nat \ {0}, NEW k \in Nat \ {0}
  PROVE  (k * n) \div (k * d) = n \div d
<1> DEFINE q == n \div d
<1>1. q \in Int /\ d * q <= n /\ n < d * q + d
  BY QuotientBounds
<1> HIDE DEF q
<1> DEFINE N == k * n
           D == k * d
<1>2. N \in Int /\ D \in Nat \ {0}
  OBVIOUS
<1>3. D * q <= N /\ N < D * q + D
  <2>1. D * q = k * (d * q) /\ d * q \in Int
    BY <1>1
  <2>2. k * (d * q) <= k * n
    BY <1>1, <2>1
  <2>3. k * n < k * (d * q) + k * d
    <3>1. n + 1 <= d * q + d
      BY <1>1, <2>1
    <3>2. k * (n + 1) <= k * (d * q + d)
      BY <3>1, <2>1
    <3>3. k * (n + 1) = k * n + k /\ k * (d * q + d) = k * (d * q) + k * d
      BY <2>1
    <3>4. k * n \in Int /\ k * (d * q) \in Int /\ k * d \in Int
      BY <2>1
    <3> QED BY <3>2, <3>3, <3>4
  <2> QED BY <2>1, <2>2, <2>3
<1> HIDE DEF N, D
<1>4. N \div D = q
  BY <1>1, <1>2, <1>3, QuotientIs
<1> QED BY <1>4 DEF N, D, q

\* A common factor cancels out of a rounded quotient.
LEMMA ScaledRoundedQuotient ==
  ASSUME NEW n \in Int, NEW d \in Nat \ {0}, NEW k \in Nat \ {0}
  PROVE  RoundedQuotient(k * n, k * d) = RoundedQuotient(n, d)
<1>1. 2 * d \in Nat \ {0} /\ 2 * n + d \in Int /\ d - 2 * n \in Int
      /\ k * n \in Int /\ k * d \in Nat \ {0}
  OBVIOUS
<1>2. (k * n >= 0) <=> (n >= 0)
  OBVIOUS
<1>3. /\ 2 * (k * n) + k * d = k * (2 * n + d)
      /\ k * d - 2 * (k * n) = k * (d - 2 * n)
      /\ 2 * (k * d) = k * (2 * d)
  OBVIOUS
<1>4. (k * (2 * n + d)) \div (k * (2 * d)) = (2 * n + d) \div (2 * d)
  BY <1>1, ScaledQuotient
<1>5. (k * (d - 2 * n)) \div (k * (2 * d)) = (d - 2 * n) \div (2 * d)
  BY <1>1, ScaledQuotient
<1> QED BY <1>2, <1>3, <1>4, <1>5 DEF RoundedQuotient

\* What the walk carries from row to row.
Holding == [ok : BOOLEAN, shares : Nat, cost : Nat, per : Nat \ {0}, realised : Int]

\* The P&L that a sale of row t out of the holding h realises.
SalePnl(h, t) ==
  RoundedQuotient((t.price * (h.per * h.shares) - h.cost) * t.quantity - t.fee * (h.per * h.shares),
                  h.per * h.shares)

\* A buy adds its shares and its cost, and realises nothing.
LEMMA BuyFields ==
  ASSUME NEW h \in Holding, NEW t, IsTrade(t)
  PROVE  /\ BuyRow(h, t) \in Holding
         /\ BuyRow(h, t).ok = h.ok
         /\ BuyRow(h, t).shares = h.shares + t.quantity
         /\ BuyRow(h, t).cost = h.cost + (t.quantity * t.price + t.fee) * h.per
         /\ BuyRow(h, t).per = h.per
         /\ BuyRow(h, t).realised = h.realised
<1>1. /\ h.shares \in Nat /\ h.per \in Nat \ {0} /\ h.cost \in Nat
      /\ t.quantity \in Nat /\ t.price \in Nat /\ t.fee \in Nat
  BY DEF Holding, IsTrade
<1>2. t.quantity * t.price + t.fee \in Nat
  BY <1>1
<1>3. (t.quantity * t.price + t.fee) * h.per \in Nat
  BY <1>1, <1>2, ProductNat
<1> DEFINE s == h.shares + t.quantity
           c == h.cost + (t.quantity * t.price + t.fee) * h.per
<1>4. s \in Nat /\ c \in Nat
  BY <1>1, <1>3
<1>5. BuyRow(h, t) = [h EXCEPT !.shares = s, !.cost = c]
  BY DEF BuyRow
<1> HIDE DEF s, c
<1>6. LET k == BuyRow(h, t)
      IN  /\ k \in Holding /\ k.ok = h.ok /\ k.shares = s /\ k.cost = c
          /\ k.per = h.per /\ k.realised = h.realised
  BY <1>4, <1>5 DEF Holding
<1> QED BY <1>6 DEF s, c

\* A sale the holding covers takes its shares out at the average cost and realises its P&L.
LEMMA SaleFields ==
  ASSUME NEW h \in Holding, NEW t, IsTrade(t), t.quantity <= h.shares
  PROVE  /\ h.per * h.shares \in Nat \ {0}
         /\ SalePnl(h, t) \in Int
         /\ SellRow(h, t) \in Holding
         /\ SellRow(h, t).ok = h.ok
         /\ SellRow(h, t).shares = h.shares - t.quantity
         /\ SellRow(h, t).cost = IF h.shares = t.quantity THEN 0
                                 ELSE h.cost * (h.shares - t.quantity)
         /\ SellRow(h, t).per = IF h.shares = t.quantity THEN 1 ELSE h.per * h.shares
         /\ SellRow(h, t).realised = h.realised + SalePnl(h, t)
<1>1. /\ h.shares \in Nat \ {0} /\ h.per \in Nat \ {0} /\ h.cost \in Nat /\ h.realised \in Int
      /\ t.quantity \in Nat /\ t.price \in Nat /\ t.fee \in Nat
  BY DEF Holding, IsTrade
<1>2. h.per * h.shares \in Nat \ {0}
  BY <1>1
<1> DEFINE A == h.per * h.shares
           n == (t.price * A - h.cost) * t.quantity - t.fee * A
<1>3. n \in Int
  <2> HIDE DEF A
  <2>1. A \in Int
    BY <1>2 DEF A
  <2>2. t.price * A \in Int /\ t.fee * A \in Int
    BY <1>1, <2>1
  <2>3. (t.price * A - h.cost) * t.quantity \in Int
    BY <1>1, <2>2
  <2> QED BY <2>2, <2>3
<1> HIDE DEF n
<1>4. RoundedQuotient(n, A) \in Int
  BY <1>2, <1>3, RoundedQuotientBounds
<1>5. SalePnl(h, t) \in Int
  BY <1>4 DEF SalePnl, n
<1> DEFINE s == h.shares - t.quantity
           c == IF h.shares = t.quantity THEN 0 ELSE h.cost * (h.shares - t.quantity)
           p == IF h.shares = t.quantity THEN 1 ELSE h.per * h.shares
           r == h.realised + SalePnl(h, t)
<1>6. s \in Nat /\ c \in Nat /\ p \in Nat \ {0} /\ r \in Int
  <2>1. s \in Nat
    BY <1>1
  <2>2. h.cost * s \in Nat
    BY <1>1, <2>1, ProductNat
  <2> QED BY <1>1, <1>2, <1>5, <2>1, <2>2
<1>7. SellRow(h, t) = [h EXCEPT !.shares = s, !.realised = r, !.cost = c, !.per = p]
  <2>1. (h.shares - t.quantity = 0) <=> (h.shares = t.quantity)
    BY <1>1
  <2>2. ~ (t.quantity > h.shares)
    BY <1>1
  <2> QED BY <2>1, <2>2 DEF SellRow, SalePnl
<1> HIDE DEF s, c, p, r
<1>8. LET k == SellRow(h, t)
      IN  /\ k \in Holding /\ k.ok = h.ok /\ k.shares = s /\ k.cost = c
          /\ k.per = p /\ k.realised = r
  BY <1>6, <1>7 DEF Holding
<1> QED BY <1>2, <1>5, <1>8 DEF s, c, p, r

\* A sale beyond the shares held is ErrInsufficientShares.
LEMMA RefusedSale ==
  ASSUME NEW h \in Holding, NEW t, IsTrade(t), t.quantity > h.shares
  PROVE  SellRow(h, t) \in Holding /\ SellRow(h, t).ok = FALSE
BY DEF SellRow, Holding

\* A refused walk stays refused, a buy buys and a sell sells.
LEMMA ReplayRowIs ==
  ASSUME NEW h \in Holding, NEW t, IsTrade(t)
  PROVE  /\ ~ h.ok => ReplayRow(h, t) = h
         /\ h.ok /\ t.side = "buy" => ReplayRow(h, t) = BuyRow(h, t)
         /\ h.ok /\ t.side = "sell" => ReplayRow(h, t) = SellRow(h, t)
         /\ t.side = "buy" \/ t.side = "sell"
         /\ h.ok \in BOOLEAN
BY DEF ReplayRow, Holding, IsTrade

\* Every row leads from a holding to a holding.
LEMMA ReplayRowTyped ==
  ASSUME NEW h \in Holding, NEW t, IsTrade(t)
  PROVE  ReplayRow(h, t) \in Holding
<1>1. t.quantity \in Nat /\ h.shares \in Nat
  BY DEF IsTrade, Holding
<1>2. SellRow(h, t) \in Holding
  <2>1. CASE t.quantity <= h.shares
    BY <2>1, SaleFields
  <2>2. CASE t.quantity > h.shares
    BY <2>2, RefusedSale
  <2> QED BY <1>1, <2>1, <2>2
<1>3. BuyRow(h, t) \in Holding
  BY BuyFields
<1> QED BY <1>2, <1>3, ReplayRowIs

\* The recursion behind Walk: the last row, after the others.
WalkStep(L, g, s) ==
  IF s = {} THEN NothingHeld
  ELSE ReplayRow(g[s \ {LastRow(L, s)}], L[LastRow(L, s)])

\* g is that recursion on every subset of S.
IsWalk(L, g, S) == g = [s \in SUBSET S |-> WalkStep(L, g, s)]

\* What Walk is defined to be.
LEMMA WalkUnfolds ==
  ASSUME NEW L
  PROVE  Walk(L) = (CHOOSE g : IsWalk(L, g, Stored(L)))[Stored(L)]
BY DEF Walk, MapThenFoldSet, IsWalk, WalkStep

\* The recursion has a solution, and its values are holdings.
LEMMA WalkExists ==
  ASSUME NEW L, FiniteLedger(L)
  PROVE  \E g \in [SUBSET Stored(L) -> Holding] : IsWalk(L, g, Stored(L))
<1> DEFINE S == Stored(L)
           pick == [s \in (SUBSET S) \ {{}} |-> LastRow(L, s)]
           step == [p \in S \X Holding |-> ReplayRow(p[2], L[p[1]])]
<1>1. Picks(pick, S)
  <2>1. \A s \in (SUBSET S) \ {{}} : pick[s] \in s
    BY LastRowIsLast DEF IsLast
  <2>2. \A s \in (SUBSET S) \ {{}} : pick[s] \in S
    BY <2>1
  <2>3. pick \in [(SUBSET S) \ {{}} -> S]
    BY <2>2
  <2> QED BY <2>1, <2>3 DEF Picks
<1>2. step \in [S \X Holding -> Holding]
  BY RowsTyped, ReplayRowTyped DEF FiniteLedger
<1>3. NothingHeld \in Holding /\ IsFiniteSet(S)
  BY DEF NothingHeld, Holding, FiniteLedger
<1>4. PICK g \in [SUBSET S -> Holding] : FoldsOver(g, S, NothingHeld, pick, step)
  <2> HIDE DEF pick, step, S
  <2> QED BY <1>1, <1>2, <1>3, TypedFoldExists
<1>5. ASSUME NEW s \in SUBSET S PROVE g[s] = WalkStep(L, g, s)
  <2>1. CASE s = {}
    BY <2>1, <1>4 DEF FoldsOver, WalkStep
  <2>2. CASE s # {}
    <3>1. g[s] = step[<<pick[s], g[Rest(pick, s)]>>]
      BY <1>4, <2>2 DEF FoldsOver
    <3>2. pick[s] = LastRow(L, s)
      BY <2>2
    <3>3. pick[s] \in S
      BY <1>1, <2>2 DEF Picks
    <3>4. Rest(pick, s) \in SUBSET S
      BY DEF Rest
    <3>5. g[Rest(pick, s)] \in Holding
      BY <3>4
    <3>6. step[<<pick[s], g[Rest(pick, s)]>>] = ReplayRow(g[Rest(pick, s)], L[pick[s]])
      <4> HIDE DEF pick
      <4> QED BY <3>3, <3>5
    <3> QED BY <3>1, <3>2, <3>6, <2>2 DEF WalkStep, Rest
  <2> QED BY <2>1, <2>2
<1>6. IsWalk(L, g, S)
  <2>1. g = [s \in SUBSET S |-> g[s]]
    OBVIOUS
  <2> QED BY <2>1, <1>5 DEF IsWalk
<1> QED BY <1>6

\* The holding after each set of rows, in one table: the last row is applied to what the
\* others give, and all of them give Walk.
IsPrefixWalk(L, g) ==
  /\ g \in [SUBSET Stored(L) -> Holding]
  /\ g[Stored(L)] = Walk(L)
  /\ g[{}] = NothingHeld
  /\ \A s \in (SUBSET Stored(L)) \ {{}} :
        g[s] = ReplayRow(g[s \ {LastRow(L, s)}], L[LastRow(L, s)])

\* There is such a table for every ledger of finitely many rows.
LEMMA WalkTable ==
  ASSUME NEW L, FiniteLedger(L)
  PROVE  \E g : IsPrefixWalk(L, g)
<1> DEFINE S == Stored(L)
<1>1. PICK f \in [SUBSET S -> Holding] : IsWalk(L, f, S)
  BY WalkExists
<1> DEFINE g == CHOOSE g : IsWalk(L, g, S)
<1>2. IsWalk(L, g, S) /\ Walk(L) = g[S]
  BY <1>1, WalkUnfolds
<1> HIDE DEF g
<1>3. \A s \in SUBSET S : g[s] = f[s]
  <2> DEFINE Bad == {s \in SUBSET S : g[s] # f[s]}
  <2> SUFFICES ASSUME Bad # {} PROVE FALSE
    OBVIOUS
  <2>1. PICK s \in Bad : \A r \in Bad : ~ (r \subseteq s /\ r # s)
    <3>1. Bad \subseteq SUBSET S /\ IsFiniteSet(S)
      BY DEF FiniteLedger
    <3> HIDE DEF Bad, S
    <3> QED BY <3>1, SmallestSubset
  <2>2. g[s] = WalkStep(L, g, s) /\ f[s] = WalkStep(L, f, s)
    BY <1>1, <1>2 DEF IsWalk
  <2>3. s # {}
    BY <2>2 DEF WalkStep
  <2>4. LastRow(L, s) \in s
    BY <2>3, LastRowIsLast DEF IsLast
  <2>5. g[s \ {LastRow(L, s)}] = f[s \ {LastRow(L, s)}]
    BY <2>1, <2>4
  <2> QED BY <2>1, <2>2, <2>3, <2>5 DEF WalkStep
<1>4. f[{}] = NothingHeld
  BY <1>1 DEF IsWalk, WalkStep
<1>5. \A s \in (SUBSET S) \ {{}} : f[s] = ReplayRow(f[s \ {LastRow(L, s)}], L[LastRow(L, s)])
  BY <1>1 DEF IsWalk, WalkStep
<1>6. f[S] = Walk(L)
  BY <1>2, <1>3
<1> QED BY <1>1, <1>4, <1>5, <1>6 DEF IsPrefixWalk

\* The quantities of the stored rows.
QuantitiesOf(L) == [i \in Stored(L) |-> L[i].quantity]

\* The sells of a set of rows.
Sells(L, s) == {i \in s : L[i].side = "sell"}

\* The buys of a set of rows.
Buys(L, s) == {i \in s : L[i].side = "buy"}

\* The shares that a set of rows sells.
Sold(L, s) == SumFunctionOnSet(QuantitiesOf(L), Sells(L, s))

\* The shares that a set of rows buys.
Bought(L, s) == SumFunctionOnSet(QuantitiesOf(L), Buys(L, s))

\* The rows up to row i in ledger order.
Through(L, s, i) == {j \in s : j = i \/ TransactionBefore(L, j, i)}

\* Both are sums of naturals over finite sets.
LEMMA SoldBought ==
  ASSUME NEW L, FiniteLedger(L), NEW s \in SUBSET Stored(L)
  PROVE  /\ IsFiniteSet(s) /\ IsFiniteSet(Sells(L, s)) /\ IsFiniteSet(Buys(L, s))
         /\ Sold(L, s) \in Nat /\ Bought(L, s) \in Nat
         /\ \A i \in s : QuantitiesOf(L)[i] \in Nat
<1>1. IsFiniteSet(s)
  BY FS_Subset DEF FiniteLedger
<1>2. IsFiniteSet(Sells(L, s)) /\ IsFiniteSet(Buys(L, s))
  BY <1>1, FS_Subset DEF Sells, Buys
<1>3. \A i \in s : QuantitiesOf(L)[i] \in Nat
  BY RowsTyped DEF QuantitiesOf, FiniteLedger
<1>4. Sold(L, s) \in Nat
  <2>1. \A i \in Sells(L, s) : QuantitiesOf(L)[i] \in Nat
    BY <1>3 DEF Sells
  <2> QED BY <1>2, <2>1, SumIsNat DEF Sold
<1>5. Bought(L, s) \in Nat
  <2>1. \A i \in Buys(L, s) : QuantitiesOf(L)[i] \in Nat
    BY <1>3 DEF Buys
  <2> QED BY <1>2, <2>1, SumIsNat DEF Bought
<1> QED BY <1>1, <1>2, <1>3, <1>4, <1>5

\* One row more buys or sells its quantity more.
LEMMA OneMoreRow ==
  ASSUME NEW L, FiniteLedger(L), NEW s \in SUBSET Stored(L), NEW x \in s
  PROVE  /\ L[x].side = "buy" => /\ Bought(L, s) = Bought(L, s \ {x}) + L[x].quantity
                                 /\ Sold(L, s) = Sold(L, s \ {x})
         /\ L[x].side = "sell" => /\ Sold(L, s) = Sold(L, s \ {x}) + L[x].quantity
                                  /\ Bought(L, s) = Bought(L, s \ {x})
<1> DEFINE f == QuantitiesOf(L)
<1>1. f[x] = L[x].quantity
  BY DEF QuantitiesOf
<1>2. /\ IsFiniteSet(Sells(L, s)) /\ \A i \in Sells(L, s) : f[i] \in Int
      /\ IsFiniteSet(Buys(L, s)) /\ \A i \in Buys(L, s) : f[i] \in Int
  <2>1. /\ IsFiniteSet(Sells(L, s)) /\ IsFiniteSet(Buys(L, s))
        /\ \A i \in s : f[i] \in Nat
    BY SoldBought
  <2> QED BY <2>1 DEF Sells, Buys
<1>3. CASE L[x].side = "buy"
  <2>1. /\ x \in Buys(L, s) /\ Buys(L, s) \ {x} = Buys(L, s \ {x})
        /\ Sells(L, s) = Sells(L, s \ {x})
    BY <1>3 DEF Buys, Sells
  <2> HIDE DEF f
  <2>2. SumFunctionOnSet(f, Buys(L, s)) = SumFunctionOnSet(f, Buys(L, s) \ {x}) + f[x]
    BY <1>2, <2>1, SumRemove
  <2> QED BY <1>1, <1>3, <2>1, <2>2 DEF Bought, Sold, f
<1>4. CASE L[x].side = "sell"
  <2>1. /\ x \in Sells(L, s) /\ Sells(L, s) \ {x} = Sells(L, s \ {x})
        /\ Buys(L, s) = Buys(L, s \ {x})
    BY <1>4 DEF Buys, Sells
  <2> HIDE DEF f
  <2>2. SumFunctionOnSet(f, Sells(L, s)) = SumFunctionOnSet(f, Sells(L, s) \ {x}) + f[x]
    BY <1>2, <2>1, SumRemove
  <2> QED BY <1>1, <1>4, <2>1, <2>2 DEF Bought, Sold, f
<1> QED BY <1>3, <1>4

\* Fewer buys buy no more, fewer sells sell no more.
LEMMA FewerRows ==
  ASSUME NEW L, FiniteLedger(L), NEW s \in SUBSET Stored(L), NEW t \in SUBSET Stored(L)
  PROVE  /\ Buys(L, s) \subseteq t => Bought(L, s) <= Bought(L, t)
         /\ Sells(L, s) \subseteq t => Sold(L, s) <= Sold(L, t)
<1> DEFINE f == QuantitiesOf(L)
<1>1. /\ IsFiniteSet(Sells(L, t)) /\ \A i \in Sells(L, t) : f[i] \in Nat
      /\ IsFiniteSet(Buys(L, t)) /\ \A i \in Buys(L, t) : f[i] \in Nat
  BY SoldBought DEF Sells, Buys
<1>2. ASSUME Buys(L, s) \subseteq t PROVE Bought(L, s) <= Bought(L, t)
  <2>1. Buys(L, s) \in SUBSET Buys(L, t)
    BY <1>2 DEF Buys
  <2> HIDE DEF f
  <2>2. SumFunctionOnSet(f, Buys(L, s)) <= SumFunctionOnSet(f, Buys(L, t))
    BY <1>1, <2>1, SumSubset
  <2> QED BY <2>2 DEF Bought, f
<1>3. ASSUME Sells(L, s) \subseteq t PROVE Sold(L, s) <= Sold(L, t)
  <2>1. Sells(L, s) \in SUBSET Sells(L, t)
    BY <1>3 DEF Sells
  <2> HIDE DEF f
  <2>2. SumFunctionOnSet(f, Sells(L, s)) <= SumFunctionOnSet(f, Sells(L, t))
    BY <1>1, <2>1, SumSubset
  <2> QED BY <2>2 DEF Sold, f
<1> QED BY <1>2, <1>3

\* What the walk of a set of rows says of it: it is accepted when no sell in it exceeds
\* the shares bought and not sold up to there, and then holds what was bought and not sold.
WalkIsExact(L, g, s) ==
  /\ g[s].ok <=> \A i \in Sells(L, s) : Sold(L, Through(L, s, i)) <= Bought(L, Through(L, s, i))
  /\ g[s].ok => g[s].shares = Bought(L, s) - Sold(L, s)

\* Replay refuses a ledger exactly when some sell exceeds what was bought and not sold
\* before it, and else holds what was bought and not sold.
LEMMA ExactWalk ==
  ASSUME NEW L, FiniteLedger(L), NEW g, IsPrefixWalk(L, g)
  PROVE  WalkIsExact(L, g, Stored(L))
<1> DEFINE S == Stored(L)
           Bad == {s \in SUBSET S : ~ WalkIsExact(L, g, s)}
<1> SUFFICES ASSUME Bad # {} PROVE FALSE
  OBVIOUS
<1>1. PICK s \in Bad : \A r \in Bad : ~ (r \subseteq s /\ r # s)
  <2>1. Bad \subseteq SUBSET S /\ IsFiniteSet(S)
    BY DEF FiniteLedger
  <2> HIDE DEF Bad, S
  <2> QED BY <2>1, SmallestSubset
<1>2. s # {}
  <2> SUFFICES ASSUME s = {} PROVE WalkIsExact(L, g, s)
    BY <1>1
  <2>1. Sells(L, s) = {} /\ Buys(L, s) = {}
    BY DEF Sells, Buys
  <2>2. Sold(L, s) = 0 /\ Bought(L, s) = 0
    BY <2>1, SumEmpty DEF Sold, Bought
  <2>3. g[s] = NothingHeld
    BY DEF IsPrefixWalk
  <2> QED BY <2>1, <2>2, <2>3 DEF WalkIsExact, NothingHeld
<1> DEFINE x == LastRow(L, s)
           p == s \ {x}
<1>3. IsLast(L, s, x)
  BY <1>2, LastRowIsLast
<1>4. x \in s /\ p \in SUBSET S /\ IsLedger(L)
  BY <1>3 DEF IsLast, FiniteLedger
<1>5. g[s] = ReplayRow(g[p], L[x])
  BY <1>2 DEF IsPrefixWalk
<1>6. WalkIsExact(L, g, p)
  <2>1. p \subseteq s /\ p # s
    BY <1>4
  <2> QED BY <1>1, <1>4, <2>1
<1>7. g[p] \in Holding /\ IsTrade(L[x])
  BY <1>4, RowsTyped DEF IsPrefixWalk
<1>8. /\ Sold(L, p) \in Nat /\ Bought(L, p) \in Nat /\ Sold(L, s) \in Nat /\ Bought(L, s) \in Nat
  BY <1>4, SoldBought
<1> HIDE DEF x
<1>9. \A i \in p : Through(L, s, i) = Through(L, p, i)
  <2> TAKE i \in p
  <2>1. TransactionBefore(L, i, x)
    BY <1>3 DEF IsLast
  <2>2. ~ TransactionBefore(L, x, i)
    BY <2>1, <1>4, OrderIsStrict
  <2> QED BY <2>2 DEF Through
<1>10. Through(L, s, x) = s
  BY <1>3 DEF IsLast, Through
<1>11. CASE L[x].side = "buy"
  <2>1. Sells(L, s) = Sells(L, p)
    BY <1>11 DEF Sells
  <2>2. \A i \in Sells(L, s) : Through(L, s, i) = Through(L, p, i)
    BY <1>9, <2>1 DEF Sells
  <2>3. /\ Bought(L, s) = Bought(L, p) + L[x].quantity /\ Sold(L, s) = Sold(L, p)
    BY <1>4, <1>11, OneMoreRow
  <2>4. g[p].ok => g[s].shares = g[p].shares + L[x].quantity
    BY <1>5, <1>7, <1>11, ReplayRowIs, BuyFields
  <2>5. g[s].ok = g[p].ok
    BY <1>5, <1>7, <1>11, ReplayRowIs, BuyFields
  <2>6. g[s].ok => g[s].shares = Bought(L, s) - Sold(L, s)
    <3>1. L[x].quantity \in Nat
      BY <1>7 DEF IsTrade
    <3> QED BY <1>6, <1>8, <2>3, <2>4, <2>5, <3>1 DEF WalkIsExact
  <2>7. WalkIsExact(L, g, s)
    BY <1>6, <2>1, <2>2, <2>5, <2>6 DEF WalkIsExact
  <2> QED BY <2>7, <1>1
<1>12. CASE L[x].side = "sell"
  <2>1. Sells(L, s) = Sells(L, p) \union {x}
    BY <1>4, <1>12 DEF Sells
  <2>2. \A i \in Sells(L, p) : Through(L, s, i) = Through(L, p, i)
    BY <1>9 DEF Sells
  <2>3. /\ Sold(L, s) = Sold(L, p) + L[x].quantity /\ Bought(L, s) = Bought(L, p)
    BY <1>4, <1>12, OneMoreRow
  <2>4. L[x].quantity \in Nat /\ g[p].shares \in Nat
    BY <1>7 DEF IsTrade, Holding
  <2>5. CASE ~ g[p].ok
    <3>1. ~ g[s].ok
      BY <2>5, <1>5, <1>7, ReplayRowIs
    <3>2. ~ \A i \in Sells(L, s) : Sold(L, Through(L, s, i)) <= Bought(L, Through(L, s, i))
      BY <2>5, <1>6, <2>1, <2>2 DEF WalkIsExact
    <3>3. WalkIsExact(L, g, s)
      BY <3>1, <3>2 DEF WalkIsExact
    <3> QED BY <3>3, <1>1
  <2>6. CASE g[p].ok
    <3>1. g[s] = SellRow(g[p], L[x]) /\ g[p].shares = Bought(L, p) - Sold(L, p)
      BY <2>6, <1>5, <1>6, <1>7, <1>12, ReplayRowIs DEF WalkIsExact
    <3>2. /\ g[s].ok <=> L[x].quantity <= g[p].shares
          /\ g[s].ok => g[s].shares = g[p].shares - L[x].quantity
      <4> DEFINE h == g[p]
                 t == L[x]
      <4>1. h \in Holding /\ IsTrade(t) /\ h.ok /\ g[s] = SellRow(h, t)
        BY <1>7, <2>6, <3>1
      <4>2. t.quantity \in Nat /\ h.shares \in Nat
        BY <2>4
      <4> HIDE DEF h, t
      <4>3. CASE t.quantity <= h.shares
        BY <4>1, <4>3, SaleFields DEF h, t
      <4>4. CASE t.quantity > h.shares
        <5>1. ~ (t.quantity <= h.shares)
          BY <4>2, <4>4
        <5>2. ~ g[s].ok
          BY <4>1, <4>4, RefusedSale
        <5> QED BY <5>1, <5>2 DEF h, t
      <4> QED BY <4>2, <4>3, <4>4
    <3>3. g[s].ok <=> Sold(L, s) <= Bought(L, s)
      BY <3>1, <3>2, <2>3, <2>4, <1>8
    <3>4. \A i \in Sells(L, p) : Sold(L, Through(L, s, i)) <= Bought(L, Through(L, s, i))
      BY <2>6, <1>6, <2>2 DEF WalkIsExact
    <3>5. g[s].ok => g[s].shares = Bought(L, s) - Sold(L, s)
      BY <3>1, <3>2, <2>3, <2>4, <1>8
    <3>6. WalkIsExact(L, g, s)
      BY <3>3, <3>4, <3>5, <2>1, <1>10 DEF WalkIsExact
    <3> QED BY <3>6, <1>1
  <2> QED BY <2>5, <2>6
<1> QED BY <1>7, <1>11, <1>12, ReplayRowIs

\* The reference for an accepted ledger, of any ledger: on no day were more shares sold up
\* to its end than bought.
NeverOversoldIn(L) ==
  \A d \in Days : Sold(L, {i \in Stored(L) : L[i].day <= d})
                    <= Bought(L, {i \in Stored(L) : L[i].day <= d})

\* It is enough to look at the ends of days: within a day the buys come first.
LEMMA PrefixesAreDays ==
  ASSUME NEW L, FiniteLedger(L)
  PROVE  NeverOversoldIn(L) <=>
           \A i \in Sells(L, Stored(L)) :
              Sold(L, Through(L, Stored(L), i)) <= Bought(L, Through(L, Stored(L), i))
<1> DEFINE S == Stored(L)
           Upto(d) == {i \in S : L[i].day <= d}
           T(i) == Through(L, S, i)
<1>1. ASSUME NEW i \in Sells(L, S), NeverOversoldIn(L)
      PROVE  Sold(L, T(i)) <= Bought(L, T(i))
  <2> DEFINE d == L[i].day
  <2>1. d \in Days /\ i \in S /\ L[i].side = "sell" /\ IsLedger(L)
    BY <1>1, RowsTyped DEF Sells, FiniteLedger
  <2>2. Sold(L, Upto(d)) <= Bought(L, Upto(d))
    BY <1>1, <2>1 DEF NeverOversoldIn
  <2>3. ASSUME NEW j \in S
        PROVE  /\ L[j].side = "buy" => (j \in T(i) <=> j \in Upto(d))
               /\ j \in T(i) => j \in Upto(d)
    <3>1. /\ L[j].day \in Nat /\ d \in Nat
      BY <2>1, RowsTyped
    <3> QED BY <2>1, <3>1 DEF Through, TransactionBefore
  <2>4. Buys(L, Upto(d)) \subseteq T(i) /\ Sells(L, T(i)) \subseteq Upto(d)
    BY <2>3 DEF Buys, Sells, Through
  <2>5. Upto(d) \in SUBSET S /\ T(i) \in SUBSET S
    BY DEF Through
  <2>6. Bought(L, Upto(d)) <= Bought(L, T(i))
    BY <2>4, <2>5, FewerRows
  <2>7. Sold(L, T(i)) <= Sold(L, Upto(d))
    BY <2>4, <2>5, FewerRows
  <2>8. /\ Bought(L, Upto(d)) \in Nat /\ Bought(L, T(i)) \in Nat
        /\ Sold(L, Upto(d)) \in Nat /\ Sold(L, T(i)) \in Nat
    BY <2>5, SoldBought
  <2> QED BY <2>2, <2>6, <2>7, <2>8
<1>2. ASSUME NEW d \in Days, \A i \in Sells(L, S) : Sold(L, T(i)) <= Bought(L, T(i))
      PROVE  Sold(L, Upto(d)) <= Bought(L, Upto(d))
  <2>1. Upto(d) \in SUBSET S /\ IsLedger(L) /\ d \in Nat
    BY RowDomains DEF FiniteLedger
  <2>2. Sold(L, Upto(d)) \in Nat /\ Bought(L, Upto(d)) \in Nat
    BY <2>1, SoldBought
  <2>3. CASE Sells(L, Upto(d)) = {}
    <3>1. Sold(L, Upto(d)) = 0
      BY <2>3, SumEmpty DEF Sold
    <3> QED BY <2>2, <3>1
  <2>4. CASE Sells(L, Upto(d)) # {}
    <3>1. Sells(L, Upto(d)) \in SUBSET S
      BY DEF Sells
    <3>2. PICK m : IsLast(L, Sells(L, Upto(d)), m)
      BY <2>4, <3>1, LastExists
    <3>3. m \in Sells(L, S) /\ m \in Upto(d) /\ m \in S /\ L[m].side = "sell"
      BY <3>2 DEF IsLast, Sells
    <3>4. Sold(L, T(m)) <= Bought(L, T(m))
      BY <1>2, <3>3
    <3>5. T(m) \in SUBSET S
      BY DEF Through
    <3>6. Sells(L, Upto(d)) \subseteq T(m)
      BY <3>2 DEF IsLast, Through, Sells
    <3>7. ASSUME NEW j \in T(m) PROVE j \in Upto(d)
      <4>1. j \in S /\ L[j].day \in Nat /\ L[m].day \in Nat /\ L[m].day <= d
        BY <2>1, <3>3, <3>5, RowsTyped
      <4>2. L[j].day <= L[m].day
        BY <3>3, <4>1 DEF Through, TransactionBefore
      <4> QED BY <2>1, <4>1, <4>2
    <3>8. Sold(L, Upto(d)) <= Sold(L, T(m))
      BY <2>1, <3>5, <3>6, FewerRows
    <3>9. Buys(L, T(m)) \subseteq Upto(d)
      BY <3>7 DEF Buys
    <3>10. Bought(L, T(m)) <= Bought(L, Upto(d))
      BY <2>1, <3>5, <3>9, FewerRows
    <3>11. Sold(L, T(m)) \in Nat /\ Bought(L, T(m)) \in Nat
      BY <3>5, SoldBought
    <3> QED BY <2>2, <3>4, <3>8, <3>10, <3>11
  <2> QED BY <2>3, <2>4
<1> QED BY <1>1, <1>2 DEF NeverOversoldIn

\* The totals of MCReplay in these terms.
LEMMA TotalsAreSums ==
  /\ Total(OfSide("sell"), QuantityOf) = Sold(rows, Stored(rows))
  /\ Total(OfSide("buy"), QuantityOf) = Bought(rows, Stored(rows))
  /\ NeverOversold <=> NeverOversoldIn(rows)
<1>1. QuantityOf = QuantitiesOf(rows)
  BY DEF QuantityOf, QuantitiesOf
<1>2. OfSide("sell") = Sells(rows, Stored(rows)) /\ OfSide("buy") = Buys(rows, Stored(rows))
  BY DEF OfSide, Sells, Buys
<1>3. ASSUME NEW d
      PROVE  /\ UpTo(OfSide("sell"), d) = Sells(rows, {i \in Stored(rows) : rows[i].day <= d})
             /\ UpTo(OfSide("buy"), d) = Buys(rows, {i \in Stored(rows) : rows[i].day <= d})
  BY DEF UpTo, OfSide, Sells, Buys
<1> QED BY <1>1, <1>2, <1>3 DEF Total, Sold, Bought, NeverOversold, NeverOversoldIn

\* For every ledger of finitely many rows, Replay refuses exactly what oversells on some day
\* and holds what was bought and not sold.
THEOREM AgreesWithDailyTotals ==
  ASSUME FiniteLedger(rows)
  PROVE  ReplayAgreesWithDailyTotals
<1>1. PICK g : IsPrefixWalk(rows, g)
  BY WalkTable
<1>2. WalkIsExact(rows, g, Stored(rows))
  BY <1>1, ExactWalk
<1>3. g[Stored(rows)] = Walk(rows)
  BY <1>1 DEF IsPrefixWalk
<1>4. Replays(rows) <=> NeverOversold
  BY <1>2, <1>3, PrefixesAreDays, TotalsAreSums DEF WalkIsExact, Replays
<1>5. Replays(rows) => Figures(rows).shares =
             Total(OfSide("buy"), QuantityOf) - Total(OfSide("sell"), QuantityOf)
  BY <1>2, <1>3, TotalsAreSums DEF WalkIsExact, Replays, Figures
<1> QED BY <1>4, <1>5 DEF ReplayAgreesWithDailyTotals

\* Both sides of a comparison multiplied by a natural.
LEMMA ScaleBoth ==
  ASSUME NEW a \in Int, NEW b \in Int, NEW k \in Nat, a <= b
  PROVE  /\ k * a \in Int /\ k * b \in Int
         /\ k * a <= k * b
OBVIOUS

\* Both sides of a comparison divided by a positive natural.
LEMMA CancelScale ==
  ASSUME NEW a \in Int, NEW b \in Int, NEW k \in Nat \ {0}, k * a <= k * b
  PROVE  a <= b
<1> SUFFICES ASSUME ~ (a <= b) PROVE FALSE
  OBVIOUS
<1>1. b + 1 <= a
  OBVIOUS
<1>2. k * (b + 1) <= k * a
  BY <1>1, ScaleBoth
<1>3. k * (b + 1) = k * b + k /\ k * b \in Int /\ k * a \in Int
  OBVIOUS
<1> QED BY <1>2, <1>3

\* x is at most y away from zero.
Within(x, y) == x <= y /\ -y <= x

\* A bound multiplied by a natural.
LEMMA WithinScaled ==
  ASSUME NEW x \in Int, NEW y \in Int, NEW k \in Nat, Within(x, y)
  PROVE  Within(k * x, k * y)
<1>1. k * x <= k * y
  BY ScaleBoth DEF Within
<1>2. k * (-y) <= k * x
  BY ScaleBoth DEF Within
<1>3. k * (-y) = -(k * y)
  OBVIOUS
<1> QED BY <1>1, <1>2, <1>3 DEF Within

\* A bound divided by a positive natural.
LEMMA WithinCancelled ==
  ASSUME NEW x \in Int, NEW y \in Int, NEW k \in Nat \ {0}, Within(k * x, k * y)
  PROVE  Within(x, y)
<1>1. x <= y
  BY CancelScale DEF Within
<1>2. -y <= x
  <2>1. k * (-y) = -(k * y)
    OBVIOUS
  <2>2. k * (-y) <= k * x
    BY <2>1 DEF Within
  <2> QED BY <2>2, CancelScale
<1> QED BY <1>1, <1>2 DEF Within

\* Bounds add up.
LEMMA WithinAdded ==
  ASSUME NEW x \in Int, NEW y \in Int, NEW u \in Int, NEW v \in Int, Within(x, y), Within(u, v)
  PROVE  Within(x + u, y + v)
BY DEF Within

\* One sale adds at most half a unit to what the rounding has moved so far: the cash before
\* it is within n half units of the cost held, the rounded P&L within half a unit of the
\* exact one.
LEMMA SaleKeepsCash ==
  ASSUME NEW cash \in Int, NEW n \in Nat, NEW per \in Nat \ {0}, NEW shares \in Nat \ {0},
         NEW cost \in Nat, NEW q \in Nat, NEW price \in Nat, NEW fee \in Nat,
         NEW realised \in Int, NEW pnl \in Int, NEW A, A = per * shares,
         Within(2 * ((cash + realised) * per - cost), n * per),
         Within(2 * (A * pnl - ((price * A - cost) * q - fee * A)), A)
  PROVE  Within(2 * ((cash - (q * price - fee) + (realised + pnl)) * A - cost * (shares - q)),
                (n + 1) * A)
<1> DEFINE e == (cash + realised) * per - cost
           m == A * pnl - ((price * A - cost) * q - fee * A)
<1>1. A \in Nat \ {0}
  OBVIOUS
<1>2. e \in Int
  <2>1. (cash + realised) * per \in Int
    OBVIOUS
  <2> QED BY <2>1
<1>3. m \in Int
  <2>1. A * pnl \in Int /\ price * A \in Int /\ fee * A \in Int
    BY <1>1
  <2>2. (price * A - cost) * q \in Int
    BY <2>1
  <2> QED BY <2>1, <2>2
<1>4. (cash - (q * price - fee) + (realised + pnl)) * A - cost * (shares - q) = shares * e + m
  OBVIOUS
<1>5. Within(2 * e, n * per) /\ Within(2 * m, A)
  OBVIOUS
<1> HIDE DEF e, m
<1>6. 2 * e \in Int /\ n * per \in Int /\ 2 * m \in Int
  BY <1>2, <1>3
<1>7. Within(shares * (2 * e), shares * (n * per))
  BY <1>5, <1>6, WithinScaled
<1>8. shares * (2 * e) \in Int /\ shares * (n * per) \in Int /\ A \in Int
  BY <1>1, <1>6
<1>9. Within(shares * (2 * e) + 2 * m, shares * (n * per) + A)
  BY <1>5, <1>6, <1>7, <1>8, WithinAdded
<1>10. shares * (2 * e) + 2 * m = 2 * (shares * e + m)
  BY <1>2, <1>3
<1>11. shares * (n * per) + A = (n + 1) * A
  OBVIOUS
<1> QED BY <1>4, <1>9, <1>10, <1>11

\* What each row pays, as a buy.
PaidOf(L) == [i \in Stored(L) |-> L[i].quantity * L[i].price + L[i].fee]

\* What each row brings in, as a sell.
ReceivedOf(L) == [i \in Stored(L) |-> L[i].quantity * L[i].price - L[i].fee]

\* What the buys of a set of rows cost.
Spent(L, s) == SumFunctionOnSet(PaidOf(L), Buys(L, s))

\* What the sells of a set of rows bring in.
BroughtIn(L, s) == SumFunctionOnSet(ReceivedOf(L), Sells(L, s))

\* Both are integers.
LEMMA CashTyped ==
  ASSUME NEW L, FiniteLedger(L), NEW s \in SUBSET Stored(L)
  PROVE  /\ \A i \in s : PaidOf(L)[i] \in Int /\ ReceivedOf(L)[i] \in Int
         /\ Spent(L, s) \in Int /\ BroughtIn(L, s) \in Int
         /\ Cardinality(Sells(L, s)) \in Nat
<1>1. ASSUME NEW i \in s PROVE PaidOf(L)[i] \in Int /\ ReceivedOf(L)[i] \in Int
  <2>1. L[i].quantity \in Nat /\ L[i].price \in Nat /\ L[i].fee \in Nat
    BY RowsTyped DEF FiniteLedger
  <2>2. L[i].quantity * L[i].price \in Nat
    BY <2>1, ProductNat
  <2> QED BY <2>1, <2>2 DEF PaidOf, ReceivedOf
<1>2. IsFiniteSet(Buys(L, s)) /\ IsFiniteSet(Sells(L, s))
  BY SoldBought
<1>3. Spent(L, s) \in Int
  <2>1. \A i \in Buys(L, s) : PaidOf(L)[i] \in Int
    BY <1>1 DEF Buys
  <2> QED BY <1>2, <2>1, SumIsInt DEF Spent
<1>4. BroughtIn(L, s) \in Int
  <2>1. \A i \in Sells(L, s) : ReceivedOf(L)[i] \in Int
    BY <1>1 DEF Sells
  <2> QED BY <1>2, <2>1, SumIsInt DEF BroughtIn
<1>5. Cardinality(Sells(L, s)) \in Nat
  BY <1>2, FS_CardinalityType
<1> QED BY <1>1, <1>3, <1>4, <1>5

\* One row more pays or brings in its amount more.
LEMMA OneMoreRowCash ==
  ASSUME NEW L, FiniteLedger(L), NEW s \in SUBSET Stored(L), NEW x \in s
  PROVE  /\ L[x].side = "buy" =>
              /\ Spent(L, s) = Spent(L, s \ {x}) + (L[x].quantity * L[x].price + L[x].fee)
              /\ BroughtIn(L, s) = BroughtIn(L, s \ {x})
              /\ Sells(L, s) = Sells(L, s \ {x})
         /\ L[x].side = "sell" =>
              /\ BroughtIn(L, s) = BroughtIn(L, s \ {x}) + (L[x].quantity * L[x].price - L[x].fee)
              /\ Spent(L, s) = Spent(L, s \ {x})
              /\ Cardinality(Sells(L, s)) = Cardinality(Sells(L, s \ {x})) + 1
<1>1. IsFiniteSet(Buys(L, s)) /\ IsFiniteSet(Sells(L, s))
  BY SoldBought
<1>2. CASE L[x].side = "buy"
  <2> DEFINE f == PaidOf(L)
  <2>1. /\ x \in Buys(L, s) /\ Buys(L, s) \ {x} = Buys(L, s \ {x})
        /\ Sells(L, s) = Sells(L, s \ {x})
    BY <1>2 DEF Buys, Sells
  <2>2. \A i \in Buys(L, s) : f[i] \in Int
    BY CashTyped DEF Buys
  <2>3. f[x] = L[x].quantity * L[x].price + L[x].fee
    BY DEF PaidOf
  <2> HIDE DEF f
  <2>4. SumFunctionOnSet(f, Buys(L, s)) = SumFunctionOnSet(f, Buys(L, s) \ {x}) + f[x]
    BY <1>1, <2>1, <2>2, SumRemove
  <2> QED BY <1>2, <2>1, <2>3, <2>4 DEF Spent, BroughtIn, f
<1>3. CASE L[x].side = "sell"
  <2> DEFINE f == ReceivedOf(L)
  <2>1. /\ x \in Sells(L, s) /\ Sells(L, s) \ {x} = Sells(L, s \ {x})
        /\ Buys(L, s) = Buys(L, s \ {x})
    BY <1>3 DEF Buys, Sells
  <2>2. \A i \in Sells(L, s) : f[i] \in Int
    BY CashTyped DEF Sells
  <2>3. f[x] = L[x].quantity * L[x].price - L[x].fee
    BY DEF ReceivedOf
  <2>4. Cardinality(Sells(L, s)) = Cardinality(Sells(L, s) \ {x}) + 1
    <3>1. Cardinality(Sells(L, s) \ {x}) = Cardinality(Sells(L, s)) - 1
      BY <1>1, <2>1, FS_RemoveElement
    <3>2. Cardinality(Sells(L, s)) \in Nat
      BY <1>1, FS_CardinalityType
    <3> QED BY <3>1, <3>2
  <2> HIDE DEF f
  <2>5. SumFunctionOnSet(f, Sells(L, s)) = SumFunctionOnSet(f, Sells(L, s) \ {x}) + f[x]
    BY <1>1, <2>1, <2>2, SumRemove
  <2> QED BY <1>3, <2>1, <2>3, <2>4, <2>5 DEF Spent, BroughtIn, f
<1> QED BY <1>2, <1>3

\* What the walk of a set of rows keeps: the cost still held and the P&L realised account
\* for the cash, up to half a unit for each sell.
CashAccounted(L, g, s) ==
  g[s].ok =>
    /\ Within(2 * ((Spent(L, s) - BroughtIn(L, s) + g[s].realised) * g[s].per - g[s].cost),
              Cardinality(Sells(L, s)) * g[s].per)
    /\ g[s].shares = 0 => g[s].cost = 0

\* After an accepted walk, what was paid less what came in is the cost held less the P&L
\* realised, up to half a unit for each sell.
LEMMA WalkKeepsCash ==
  ASSUME NEW L, FiniteLedger(L), NEW g, IsPrefixWalk(L, g)
  PROVE  CashAccounted(L, g, Stored(L))
<1> DEFINE S == Stored(L)
           Bad == {s \in SUBSET S : ~ CashAccounted(L, g, s)}
<1> SUFFICES ASSUME Bad # {} PROVE FALSE
  OBVIOUS
<1>1. PICK s \in Bad : \A r \in Bad : ~ (r \subseteq s /\ r # s)
  <2>1. Bad \subseteq SUBSET S /\ IsFiniteSet(S)
    BY DEF FiniteLedger
  <2> HIDE DEF Bad, S
  <2> QED BY <2>1, SmallestSubset
<1>2. s # {}
  <2> SUFFICES ASSUME s = {} PROVE CashAccounted(L, g, s)
    BY <1>1
  <2>1. Sells(L, s) = {} /\ Buys(L, s) = {}
    BY DEF Sells, Buys
  <2>2. Spent(L, s) = 0 /\ BroughtIn(L, s) = 0 /\ Cardinality(Sells(L, s)) = 0
    BY <2>1, SumEmpty, FS_EmptySet DEF Spent, BroughtIn
  <2>3. g[s] = NothingHeld
    BY DEF IsPrefixWalk
  <2> QED BY <2>2, <2>3 DEF CashAccounted, NothingHeld, Within
<1> DEFINE x == LastRow(L, s)
           p == s \ {x}
           h == g[p]
           t == L[x]
           cash == Spent(L, p) - BroughtIn(L, p)
           n == Cardinality(Sells(L, p))
<1>3. x \in s
  BY <1>2, LastRowIsLast DEF IsLast
<1>4. p \in SUBSET S
  OBVIOUS
<1>5. g[s] = ReplayRow(h, t)
  BY <1>2 DEF IsPrefixWalk
<1>6. h \in Holding /\ IsTrade(t)
  BY <1>3, <1>4, RowsTyped DEF IsPrefixWalk, FiniteLedger
<1>7. CashAccounted(L, g, p)
  <2>1. p \subseteq s /\ p # s
    BY <1>3
  <2> QED BY <1>1, <1>4, <2>1
<1> HIDE DEF x
<1>8. /\ Spent(L, p) \in Int /\ BroughtIn(L, p) \in Int /\ cash \in Int /\ n \in Nat
  BY <1>4, CashTyped
<1>9. /\ h.shares \in Nat /\ h.per \in Nat \ {0} /\ h.cost \in Nat /\ h.realised \in Int
      /\ t.quantity \in Nat \ {0} /\ t.price \in Nat /\ t.fee \in Nat
  BY <1>6 DEF Holding, IsTrade
<1>10. h.ok => /\ Within(2 * ((cash + h.realised) * h.per - h.cost), n * h.per)
               /\ h.shares = 0 => h.cost = 0
  BY <1>7 DEF CashAccounted
<1>11. CASE ~ h.ok
  <2>1. ~ g[s].ok
    BY <1>11, <1>5, <1>6, ReplayRowIs
  <2> QED BY <2>1, <1>1 DEF CashAccounted
<1>12. CASE h.ok /\ t.side = "buy"
  <2>1. g[s] = BuyRow(h, t)
    BY <1>12, <1>5, <1>6, ReplayRowIs
  <2> DEFINE c == t.quantity * t.price + t.fee
  <2>2. c \in Nat
    BY <1>9
  <2>3. /\ g[s].cost = h.cost + c * h.per /\ g[s].per = h.per /\ g[s].realised = h.realised
        /\ g[s].shares = h.shares + t.quantity
    BY <2>1, <1>6, BuyFields
  <2>4. /\ Spent(L, s) = Spent(L, p) + c /\ BroughtIn(L, s) = BroughtIn(L, p)
        /\ Sells(L, s) = Sells(L, p)
    BY <1>3, <1>12, OneMoreRowCash
  <2>5. Spent(L, s) - BroughtIn(L, s) = cash + c
    BY <2>2, <2>4, <1>8
  <2> HIDE DEF c, cash, n, h, t
  <2>6. (cash + c + h.realised) * h.per - (h.cost + c * h.per)
          = (cash + h.realised) * h.per - h.cost
    BY <1>8, <1>9, <2>2
  <2>7. g[s].shares # 0
    BY <1>9, <2>3
  <2>8. CashAccounted(L, g, s)
    BY <1>10, <1>12, <2>3, <2>4, <2>5, <2>6, <2>7 DEF CashAccounted, n
  <2> QED BY <2>8, <1>1
<1>13. CASE h.ok /\ t.side = "sell" /\ t.quantity > h.shares
  <2>1. ~ g[s].ok
    <3>1. g[s] = SellRow(h, t)
      BY <1>13, <1>5, <1>6, ReplayRowIs
    <3>2. SellRow(h, t).ok = FALSE
      <4> HIDE DEF h, t
      <4> QED BY <1>13, <1>6, RefusedSale
    <3> QED BY <3>1, <3>2
  <2> QED BY <2>1, <1>1 DEF CashAccounted
<1>14. CASE h.ok /\ t.side = "sell" /\ t.quantity <= h.shares
  <2>1. g[s] = SellRow(h, t)
    BY <1>14, <1>5, <1>6, ReplayRowIs
  <2> DEFINE c == t.quantity * t.price - t.fee
             A == h.per * h.shares
             pnl == SalePnl(h, t)
             m == (t.price * A - h.cost) * t.quantity - t.fee * A
  <2>2. c \in Int
    BY <1>9
  <2>3. /\ A \in Nat \ {0} /\ pnl \in Int
        /\ g[s].shares = h.shares - t.quantity
        /\ g[s].cost = IF h.shares = t.quantity THEN 0 ELSE h.cost * (h.shares - t.quantity)
        /\ g[s].per = IF h.shares = t.quantity THEN 1 ELSE A
        /\ g[s].realised = h.realised + pnl
    BY <2>1, <1>6, <1>14, SaleFields
  <2>4. /\ BroughtIn(L, s) = BroughtIn(L, p) + c /\ Spent(L, s) = Spent(L, p)
        /\ Cardinality(Sells(L, s)) = n + 1
    BY <1>3, <1>14, OneMoreRowCash
  <2>5. Spent(L, s) - BroughtIn(L, s) = cash - c
    BY <2>2, <2>4, <1>8
  <2>6. pnl = RoundedQuotient(m, A)
    BY DEF SalePnl
  <2>7. h.shares \in Nat \ {0}
    BY <1>9, <1>14
  <2> HIDE DEF cash, n, h, t, pnl
  <2>8. m \in Int
    <3> HIDE DEF A
    <3>1. t.price * A \in Int /\ t.fee * A \in Int
      BY <1>9, <2>3
    <3>2. (t.price * A - h.cost) * t.quantity \in Int
      BY <1>9, <3>1
    <3> QED BY <3>1, <3>2
  <2> HIDE DEF m
  <2>9. Within(2 * (A * pnl - m), A)
    <3> HIDE DEF A
    <3>1. 2 * m - A <= 2 * (A * pnl) /\ 2 * (A * pnl) <= 2 * m + A
      BY <2>3, <2>6, <2>8, RoundedQuotientBounds
    <3>2. A * pnl \in Int
      BY <2>3
    <3> QED BY <2>3, <2>8, <3>1, <3>2 DEF Within
  <2>10. Within(2 * ((cash - c + (h.realised + pnl)) * A - h.cost * (h.shares - t.quantity)),
                (n + 1) * A)
    <3>1. Within(2 * (A * pnl - ((t.price * A - h.cost) * t.quantity - t.fee * A)), A)
      BY <2>9 DEF m
    <3>2. /\ cash \in Int /\ n \in Nat /\ h.per \in Nat \ {0} /\ h.shares \in Nat \ {0}
          /\ h.cost \in Nat /\ t.quantity \in Nat /\ t.price \in Nat /\ t.fee \in Nat
          /\ h.realised \in Int /\ pnl \in Int
      BY <1>8, <1>9, <2>3, <2>7
    <3>3. A = h.per * h.shares
      OBVIOUS
    <3>4. c = t.quantity * t.price - t.fee
      OBVIOUS
    <3>5. Within(2 * ((cash + h.realised) * h.per - h.cost), n * h.per)
      BY <1>10, <1>14
    <3> HIDE DEF A, c
    <3> QED BY ONLY <3>1, <3>2, <3>3, <3>4, <3>5, SaleKeepsCash
  <2>11. CASE h.shares # t.quantity
    <3>1. g[s].shares # 0
      <4>1. g[s].shares = h.shares - t.quantity
        BY <2>3
      <4> HIDE DEF p, c, A
      <4> QED BY <4>1, <1>9, <2>11
    <3>2. CashAccounted(L, g, s)
      BY <2>3, <2>4, <2>5, <2>10, <2>11, <3>1 DEF CashAccounted
    <3> QED BY <3>2, <1>1
  <2>12. CASE h.shares = t.quantity
    <3> HIDE DEF A, c
    <3>1. 2 * ((cash - c + (h.realised + pnl)) * A - h.cost * (h.shares - t.quantity))
            = A * (2 * (cash - c + (h.realised + pnl)))
      <4>1. h.cost * (h.shares - t.quantity) = 0
        BY <2>12, <1>9
      <4>2. (cash - c + (h.realised + pnl)) * A \in Int
        BY <1>8, <1>9, <2>2, <2>3
      <4> QED BY <4>1, <4>2, <1>8, <1>9, <2>2, <2>3
    <3>2. (n + 1) * A = A * (n + 1)
      BY <1>8, <2>3
    <3>3. 2 * (cash - c + (h.realised + pnl)) \in Int /\ n + 1 \in Int
      BY <1>8, <1>9, <2>2, <2>3
    <3>4. Within(2 * (cash - c + (h.realised + pnl)), n + 1)
      BY <2>3, <2>10, <3>1, <3>2, <3>3, WithinCancelled
    <3>5. CashAccounted(L, g, s)
      <4>1. g[s].per = 1 /\ g[s].cost = 0 /\ g[s].realised = h.realised + pnl
        BY <2>3, <2>12
      <4>2. (cash - c + (h.realised + pnl)) * 1 - 0 = cash - c + (h.realised + pnl)
        BY <1>8, <1>9, <2>2, <2>3
      <4>3. (n + 1) * 1 = n + 1
        BY <1>8
      <4> QED BY <2>4, <2>5, <3>4, <4>1, <4>2, <4>3 DEF CashAccounted
    <3> QED BY <3>5, <1>1
  <2> QED BY <2>11, <2>12
<1>15. t.quantity <= h.shares \/ t.quantity > h.shares
  BY <1>9
<1> QED BY <1>6, <1>11, <1>12, <1>13, <1>14, <1>15, ReplayRowIs

\* The same of a whole ledger that replays, with the average cost rounded: half a unit more
\* for each share.
LEMMA HoldingKeepsCash ==
  ASSUME NEW L, FiniteLedger(L), Replays(L)
  PROVE  LET f == Figures(L)
             cash == Spent(L, Stored(L)) - BroughtIn(L, Stored(L))
         IN  /\ cash \in Int /\ f.shares \in Nat /\ f.avgCost \in Int /\ f.realised \in Int
             /\ Within(2 * (cash - (f.shares * f.avgCost - f.realised)),
                       Cardinality(Sells(L, Stored(L))) + f.shares)
<1> DEFINE S == Stored(L)
           h == Walk(L)
           n == Cardinality(Sells(L, S))
           cash == Spent(L, S) - BroughtIn(L, S)
           avg == Figures(L).avgCost
           A == h.per * h.shares
<1>1. PICK g : IsPrefixWalk(L, g)
  BY WalkTable
<1>2. CashAccounted(L, g, S) /\ g[S] = h /\ h \in Holding
  BY <1>1, WalkKeepsCash DEF IsPrefixWalk
<1>3. /\ Figures(L).shares = h.shares /\ Figures(L).realised = h.realised
      /\ avg = IF h.shares > 0 THEN RoundedQuotient(h.cost, A) ELSE 0
  BY DEF Figures
<1>4. /\ h.shares \in Nat /\ h.per \in Nat \ {0} /\ h.cost \in Nat /\ h.realised \in Int
  BY <1>2 DEF Holding
<1>5. cash \in Int /\ n \in Nat
  BY CashTyped
<1> SUFFICES /\ cash \in Int /\ h.shares \in Nat /\ avg \in Int /\ h.realised \in Int
             /\ Within(2 * (cash - (h.shares * avg - h.realised)), n + h.shares)
  BY <1>3
<1>6. /\ Within(2 * ((cash + h.realised) * h.per - h.cost), n * h.per)
      /\ h.shares = 0 => h.cost = 0
  BY <1>2 DEF CashAccounted, Replays
<1>7. avg \in Int /\ Within(2 * (h.cost - A * avg), A)
  <2>1. CASE h.shares = 0
    BY <2>1, <1>3, <1>4, <1>6 DEF Within
  <2>2. CASE h.shares # 0
    <3>1. A \in Nat \ {0} /\ avg = RoundedQuotient(h.cost, A) /\ h.cost \in Int
      BY <2>2, <1>3, <1>4
    <3> HIDE DEF A, avg
    <3>2. /\ avg \in Int /\ 2 * h.cost - A <= 2 * (A * avg) /\ 2 * (A * avg) <= 2 * h.cost + A
      BY <3>1, RoundedQuotientBounds
    <3>3. A * avg \in Int
      BY <3>1, <3>2
    <3> QED BY <3>1, <3>2, <3>3 DEF Within
  <2> QED BY <2>1, <2>2
<1> HIDE DEF h, n, cash, avg
<1> DEFINE y == cash - (h.shares * avg - h.realised)
<1>8. y \in Int /\ A \in Int /\ h.shares * avg \in Int
  BY <1>4, <1>5, <1>7
<1>9. 2 * ((cash + h.realised) * h.per - h.cost) + 2 * (h.cost - A * avg) = h.per * (2 * y)
  BY <1>4, <1>5, <1>7
<1>10. n * h.per + A = h.per * (n + h.shares)
  BY <1>4, <1>5
<1>11. Within(h.per * (2 * y), h.per * (n + h.shares))
  <2>1. /\ 2 * ((cash + h.realised) * h.per - h.cost) \in Int
        /\ 2 * (h.cost - A * avg) \in Int
        /\ n * h.per \in Int
    <3>1. (cash + h.realised) * h.per \in Int /\ A * avg \in Int
      BY <1>4, <1>5, <1>7, <1>8
    <3> QED BY <3>1, <1>4, <1>5
  <2> QED BY <2>1, <1>6, <1>7, <1>8, <1>9, <1>10, WithinAdded
<1>12. 2 * y \in Int /\ n + h.shares \in Int
  BY <1>4, <1>5, <1>8
<1>13. Within(2 * y, n + h.shares)
  BY <1>4, <1>11, <1>12, WithinCancelled
<1> QED BY <1>4, <1>5, <1>7, <1>13

\* For every ledger of finitely many rows, no money appears or disappears in the figures
\* Replay derives, up to its stated rounding.
THEOREM CashConserved ==
  ASSUME FiniteLedger(rows)
  PROVE  CashIsConserved
<1> SUFFICES ASSUME Replays(rows) PROVE CashIsConserved
  BY DEF CashIsConserved
<1> DEFINE S == Stored(rows)
           n == Cardinality(Sells(rows, S))
           cash == Spent(rows, S) - BroughtIn(rows, S)
           shares == Figures(rows).shares
           avg == Figures(rows).avgCost
           realised == Figures(rows).realised
<1>1. /\ OfSide("sell") = Sells(rows, S) /\ OfSide("buy") = Buys(rows, S)
      /\ Paid = PaidOf(rows) /\ Received = ReceivedOf(rows)
  BY DEF OfSide, Sells, Buys, Paid, PaidOf, Received, ReceivedOf
<1>2. Total(OfSide("buy"), Paid) - Total(OfSide("sell"), Received) = cash
  BY <1>1 DEF Total, Spent, BroughtIn
<1>3. /\ cash \in Int /\ shares \in Nat /\ avg \in Int /\ realised \in Int
      /\ Within(2 * (cash - (shares * avg - realised)), n + shares)
  BY HoldingKeepsCash
<1>4. n \in Nat
  BY CashTyped
<1> HIDE DEF n, cash, shares, avg, realised
<1>5. shares * avg - realised \in Int
  BY <1>3
<1>6. 2 * Apart(cash, shares * avg - realised) <= n + shares
  BY <1>3, <1>4, <1>5 DEF Within, Apart
<1> QED BY <1>1, <1>2, <1>6 DEF CashIsConserved, n, shares, avg, realised

\* Two holdings a reader cannot tell apart: the cost is a fraction, so it is compared
\* crosswise.
SameHolding(h, k) ==
  /\ h.ok = k.ok
  /\ h.ok => /\ h.shares = k.shares
             /\ h.realised = k.realised
             /\ h.cost * k.per = k.cost * h.per

\* Being the same holding is symmetric.
LEMMA SameHoldingSymmetric ==
  ASSUME NEW h, NEW k, SameHolding(h, k)
  PROVE  SameHolding(k, h)
BY DEF SameHolding

\* Being the same holding is transitive.
LEMMA SameHoldingTransitive ==
  ASSUME NEW h \in Holding, NEW k \in Holding, NEW l \in Holding,
         SameHolding(h, k), SameHolding(k, l)
  PROVE  SameHolding(h, l)
<1>1. /\ h.cost \in Nat /\ k.cost \in Nat /\ l.cost \in Nat
      /\ h.per \in Nat \ {0} /\ k.per \in Nat \ {0} /\ l.per \in Nat \ {0}
  BY DEF Holding
<1>2. ASSUME h.ok
      PROVE  h.cost * l.per = l.cost * h.per
  <2>1. h.cost * k.per = k.cost * h.per /\ k.cost * l.per = l.cost * k.per
    BY <1>2 DEF SameHolding
  <2> DEFINE a == h.cost * l.per
             b == l.cost * h.per
  <2>2. k.per * a = (h.cost * k.per) * l.per
    BY <1>1
  <2>3. (k.cost * h.per) * l.per = (k.cost * l.per) * h.per
    BY <1>1
  <2>4. (l.cost * k.per) * h.per = k.per * b
    BY <1>1
  <2>5. a \in Int /\ b \in Int
    BY <1>1
  <2> HIDE DEF a, b
  <2>6. k.per * a = k.per * b
    BY <2>1, <2>2, <2>3, <2>4
  <2>7. k.per * a \in Int
    BY <1>1, <2>5
  <2>8. k.per * a <= k.per * b /\ k.per * b <= k.per * a
    BY <2>6, <2>7
  <2>9. a <= b
    BY <1>1, <2>5, <2>8, CancelScale
  <2>10. b <= a
    BY <1>1, <2>5, <2>8, CancelScale
  <2>11. a = b
    BY <2>5, <2>9, <2>10
  <2> QED BY <2>11 DEF a, b
<1> QED BY <1>2 DEF SameHolding

\* The numerator of the P&L of a sale of row t out of s shares at the cost c / p.
SaleAmount(t, c, p, s) == (t.price * (p * s) - c) * t.quantity - t.fee * (p * s)

\* It scales with the denominator the cost happens to be written over.
LEMMA SaleAmountScaled ==
  ASSUME NEW t, IsTrade(t), NEW s \in Nat \ {0}, NEW p \in Nat \ {0}, NEW r \in Nat \ {0},
         NEW c \in Nat, NEW d \in Nat, c * r = d * p
  PROVE  /\ SaleAmount(t, c, p, s) \in Int /\ p * s \in Nat \ {0}
         /\ r * SaleAmount(t, c, p, s) = p * SaleAmount(t, d, r, s)
         /\ r * (p * s) = p * (r * s)
<1>1. t.quantity \in Nat /\ t.price \in Nat /\ t.fee \in Nat
  BY DEF IsTrade
<1>2. p * s \in Nat \ {0} /\ r * s \in Nat \ {0}
  OBVIOUS
<1>3. SaleAmount(t, c, p, s) \in Int
  <2>1. t.price * (p * s) \in Int /\ t.fee * (p * s) \in Int
    BY <1>1, <1>2
  <2>2. (t.price * (p * s) - c) * t.quantity \in Int
    BY <1>1, <2>1
  <2> QED BY <2>1, <2>2 DEF SaleAmount
<1>4. r * (p * s) = p * (r * s)
  OBVIOUS
<1>5. r * SaleAmount(t, c, p, s)
        = (t.price * (r * (p * s)) - c * r) * t.quantity - t.fee * (r * (p * s))
  BY <1>1, <1>2 DEF SaleAmount
<1>6. p * SaleAmount(t, d, r, s)
        = (t.price * (p * (r * s)) - d * p) * t.quantity - t.fee * (p * (r * s))
  BY <1>1, <1>2 DEF SaleAmount
<1> QED BY <1>2, <1>3, <1>4, <1>5, <1>6

\* The same holding realises the same P&L, however its cost is written.
LEMMA SamePnl ==
  ASSUME NEW h \in Holding, NEW k \in Holding, NEW t, IsTrade(t), t.quantity <= h.shares,
         h.shares = k.shares, h.cost * k.per = k.cost * h.per
  PROVE  SalePnl(h, t) = SalePnl(k, t)
<1> DEFINE c == h.cost
           d == k.cost
           p == h.per
           r == k.per
           s == h.shares
           n == SaleAmount(t, c, p, s)
           m == SaleAmount(t, d, r, s)
           A == p * s
           B == r * s
<1>1. /\ s \in Nat \ {0} /\ p \in Nat \ {0} /\ r \in Nat \ {0} /\ c \in Nat /\ d \in Nat
      /\ c * r = d * p /\ d * p = c * r
  BY DEF Holding, IsTrade
<1>2. SalePnl(h, t) = RoundedQuotient(n, A) /\ SalePnl(k, t) = RoundedQuotient(m, B)
  BY DEF SalePnl, SaleAmount
<1> HIDE DEF c, d, p, r, s
<1>3. n \in Int /\ A \in Nat \ {0} /\ r * n = p * m /\ r * A = p * B
  BY <1>1, SaleAmountScaled
<1>4. m \in Int /\ B \in Nat \ {0}
  BY <1>1, SaleAmountScaled
<1> HIDE DEF n, m, A, B
<1>5. RoundedQuotient(n, A) = RoundedQuotient(r * n, r * A)
  BY <1>1, <1>3, ScaledRoundedQuotient
<1>6. RoundedQuotient(m, B) = RoundedQuotient(p * m, p * B)
  BY <1>1, <1>4, ScaledRoundedQuotient
<1> QED BY <1>2, <1>3, <1>5, <1>6

\* The same holding stays the same holding over one row.
LEMMA SameStep ==
  ASSUME NEW h \in Holding, NEW k \in Holding, NEW t, IsTrade(t), SameHolding(h, k)
  PROVE  SameHolding(ReplayRow(h, t), ReplayRow(k, t))
<1>1. /\ h.shares \in Nat /\ h.per \in Nat \ {0} /\ k.per \in Nat \ {0}
      /\ h.cost \in Nat /\ k.cost \in Nat /\ h.realised \in Int
      /\ t.quantity \in Nat \ {0} /\ t.price \in Nat /\ t.fee \in Nat
  BY DEF Holding, IsTrade
<1>2. h.ok = k.ok
  BY DEF SameHolding
<1>3. CASE ~ h.ok
  BY <1>2, <1>3, ReplayRowIs DEF SameHolding
<1>4. CASE h.ok /\ t.side = "buy"
  <2>1. ReplayRow(h, t) = BuyRow(h, t) /\ ReplayRow(k, t) = BuyRow(k, t)
    BY <1>2, <1>4, ReplayRowIs
  <2> DEFINE c == t.quantity * t.price + t.fee
  <2>2. c \in Nat
    BY <1>1
  <2>3. /\ BuyRow(h, t).cost = h.cost + c * h.per /\ BuyRow(k, t).cost = k.cost + c * k.per
        /\ BuyRow(h, t).per = h.per /\ BuyRow(k, t).per = k.per
        /\ BuyRow(h, t).shares = BuyRow(k, t).shares
        /\ BuyRow(h, t).realised = BuyRow(k, t).realised
        /\ BuyRow(h, t).ok = BuyRow(k, t).ok
    <3>1. /\ BuyRow(h, t).cost = h.cost + c * h.per /\ BuyRow(h, t).per = h.per
          /\ BuyRow(h, t).shares = h.shares + t.quantity
          /\ BuyRow(h, t).realised = h.realised /\ BuyRow(h, t).ok = h.ok
      BY BuyFields
    <3>2. /\ BuyRow(k, t).cost = k.cost + c * k.per /\ BuyRow(k, t).per = k.per
          /\ BuyRow(k, t).shares = k.shares + t.quantity
          /\ BuyRow(k, t).realised = k.realised /\ BuyRow(k, t).ok = k.ok
      BY BuyFields
    <3>3. h.shares = k.shares /\ h.realised = k.realised
      BY <1>4 DEF SameHolding
    <3> HIDE DEF c
    <3> QED BY <3>1, <3>2, <3>3, <1>2
  <2> HIDE DEF c
  <2>4. (h.cost + c * h.per) * k.per = (k.cost + c * k.per) * h.per
    <3>1. h.cost * k.per = k.cost * h.per
      BY <1>4 DEF SameHolding
    <3>2. (h.cost + c * h.per) * k.per = h.cost * k.per + c * h.per * k.per
      BY <1>1, <2>2
    <3>3. (k.cost + c * k.per) * h.per = k.cost * h.per + c * h.per * k.per
      BY <1>1, <2>2
    <3> QED BY <3>1, <3>2, <3>3
  <2> QED BY <2>1, <2>3, <2>4 DEF SameHolding
<1>5. CASE h.ok /\ t.side = "sell" /\ t.quantity > h.shares
  <2>1. ReplayRow(h, t) = SellRow(h, t) /\ ReplayRow(k, t) = SellRow(k, t)
    BY <1>2, <1>5, ReplayRowIs
  <2>2. t.quantity > k.shares
    BY <1>5 DEF SameHolding
  <2>3. ~ SellRow(h, t).ok /\ ~ SellRow(k, t).ok
    BY <1>5, <2>2, RefusedSale
  <2>4. SellRow(h, t).ok = FALSE /\ SellRow(k, t).ok = FALSE
    BY <1>5, <2>2, RefusedSale
  <2> QED BY <2>1, <2>3, <2>4 DEF SameHolding
<1>6. CASE h.ok /\ t.side = "sell" /\ t.quantity <= h.shares
  <2>1. ReplayRow(h, t) = SellRow(h, t) /\ ReplayRow(k, t) = SellRow(k, t)
    BY <1>2, <1>6, ReplayRowIs
  <2>2. /\ h.shares = k.shares /\ h.cost * k.per = k.cost * h.per /\ h.realised = k.realised
        /\ t.quantity <= k.shares
    BY <1>6 DEF SameHolding
  <2>3. SalePnl(h, t) = SalePnl(k, t)
    BY <1>6, <2>2, SamePnl
  <2> DEFINE u == SellRow(h, t)
             v == SellRow(k, t)
  <2>4. /\ u.ok = h.ok /\ u.shares = h.shares - t.quantity
        /\ u.cost = IF h.shares = t.quantity THEN 0 ELSE h.cost * (h.shares - t.quantity)
        /\ u.per = IF h.shares = t.quantity THEN 1 ELSE h.per * h.shares
        /\ u.realised = h.realised + SalePnl(h, t)
    BY <1>6, SaleFields
  <2>5. /\ v.ok = k.ok /\ v.shares = k.shares - t.quantity
        /\ v.cost = IF k.shares = t.quantity THEN 0 ELSE k.cost * (k.shares - t.quantity)
        /\ v.per = IF k.shares = t.quantity THEN 1 ELSE k.per * k.shares
        /\ v.realised = k.realised + SalePnl(k, t)
    BY <2>2, SaleFields
  <2> HIDE DEF u, v
  <2>6. u.cost * v.per = v.cost * u.per
    <3>1. CASE h.shares = t.quantity
      BY <3>1, <2>2, <2>4, <2>5
    <3>2. CASE h.shares # t.quantity
      <4> DEFINE S == h.shares
                 l == h.shares - t.quantity
      <4>1. l \in Int /\ S \in Int
        BY <1>1
      <4>2. /\ u.cost = h.cost * l /\ u.per = h.per * S
            /\ v.cost = k.cost * l /\ v.per = k.per * S
        BY <3>2, <2>2, <2>4, <2>5
      <4> HIDE DEF l, S
      <4>3. /\ (h.cost * l) * (k.per * S) = (h.cost * k.per) * (l * S)
            /\ (k.cost * l) * (h.per * S) = (k.cost * h.per) * (l * S)
        BY <1>1, <4>1
      <4> QED BY <4>2, <4>3, <2>2
    <3> QED BY <3>1, <3>2
  <2> QED BY <1>2, <2>1, <2>2, <2>3, <2>4, <2>5, <2>6 DEF SameHolding, u, v
<1>7. t.quantity <= h.shares \/ t.quantity > h.shares
  BY <1>1
<1> QED BY <1>3, <1>4, <1>5, <1>6, <1>7, ReplayRowIs

\* A sale leaves the average cost as it was, so the next one realises what it would have
\* realised first.
LEMMA SecondSalePnl ==
  ASSUME NEW h \in Holding, NEW t, IsTrade(t), NEW u, IsTrade(u),
         t.quantity + u.quantity <= h.shares
  PROVE  SalePnl(SellRow(h, t), u) = SalePnl(h, u)
<1> DEFINE k == SellRow(h, t)
           left == h.shares - t.quantity
           A == h.per * h.shares
           n == SaleAmount(u, h.cost, h.per, h.shares)
<1>1. /\ h.shares \in Nat \ {0} /\ h.per \in Nat \ {0} /\ h.cost \in Nat
      /\ t.quantity \in Nat \ {0} /\ u.quantity \in Nat \ {0}
      /\ u.price \in Nat /\ u.fee \in Nat
  BY DEF Holding, IsTrade
<1>2. left \in Nat \ {0} /\ t.quantity <= h.shares /\ h.shares # t.quantity
  BY <1>1
<1>3. k.shares = left /\ k.cost = h.cost * left /\ k.per = A
  BY <1>2, SaleFields
<1>4. n \in Int /\ A \in Nat \ {0}
  <2> DEFINE c == h.cost
             p == h.per
             s == h.shares
  <2>1. c \in Nat /\ p \in Nat \ {0} /\ s \in Nat \ {0} /\ c * p = c * p
    BY <1>1
  <2> HIDE DEF c, p, s
  <2>2. SaleAmount(u, c, p, s) \in Int /\ p * s \in Nat \ {0}
    BY <2>1, SaleAmountScaled
  <2> QED BY <2>2 DEF c, p, s
<1>5. SaleAmount(u, k.cost, k.per, k.shares) = left * n
  <2> HIDE DEF k, A, left
  <2>1. SaleAmount(u, k.cost, k.per, k.shares)
          = (u.price * (A * left) - h.cost * left) * u.quantity - u.fee * (A * left)
    BY <1>3 DEF SaleAmount
  <2>2. n = (u.price * A - h.cost) * u.quantity - u.fee * A
    BY DEF SaleAmount, A
  <2> HIDE DEF n
  <2> QED BY <1>1, <1>2, <1>4, <2>1, <2>2
<1>6. k.per * k.shares = left * A
  BY <1>2, <1>3, <1>4
<1>7. /\ SalePnl(k, u) = RoundedQuotient(SaleAmount(u, k.cost, k.per, k.shares), k.per * k.shares)
      /\ SalePnl(h, u) = RoundedQuotient(n, A)
  BY DEF SalePnl, SaleAmount
<1> HIDE DEF n, A, left, k
<1>8. RoundedQuotient(left * n, left * A) = RoundedQuotient(n, A)
  BY <1>2, <1>4, ScaledRoundedQuotient
<1> QED BY <1>5, <1>6, <1>7, <1>8 DEF k

\* The holding after two sales that it covered, t first.
AfterTwoSales(h, t, u, k) ==
  LET left == h.shares - t.quantity - u.quantity
  IN  /\ k.ok /\ k.ok = h.ok
      /\ k.shares = left
      /\ k.realised = h.realised + SalePnl(h, t) + SalePnl(h, u)
      /\ left = 0 => k.cost = 0 /\ k.per = 1
      /\ left # 0 => /\ k.cost = (h.cost * (h.shares - t.quantity)) * left
                     /\ k.per = (h.per * h.shares) * (h.shares - t.quantity)

\* What two covered sales leave.
LEMMA TwoSales ==
  ASSUME NEW h \in Holding, NEW t, IsTrade(t), NEW u, IsTrade(u), h.ok,
         t.quantity + u.quantity <= h.shares
  PROVE  AfterTwoSales(h, t, u, SellRow(SellRow(h, t), u))
<1>1. /\ h.shares \in Nat /\ h.realised \in Int
      /\ t.quantity \in Nat \ {0} /\ u.quantity \in Nat \ {0}
  BY DEF Holding, IsTrade
<1> DEFINE m == SellRow(h, t)
<1>2. t.quantity <= h.shares /\ h.shares # t.quantity
  BY <1>1
<1>3. /\ m \in Holding /\ m.ok = h.ok
      /\ m.shares = h.shares - t.quantity
      /\ m.cost = h.cost * (h.shares - t.quantity)
      /\ m.per = h.per * h.shares
      /\ m.realised = h.realised + SalePnl(h, t)
  BY <1>2, SaleFields
<1>4. u.quantity <= m.shares
  BY <1>1, <1>3
<1>5. SalePnl(m, u) = SalePnl(h, u)
  BY SecondSalePnl
<1> HIDE DEF m
<1> DEFINE k == SellRow(m, u)
<1>6. /\ k.ok = m.ok
      /\ k.shares = m.shares - u.quantity
      /\ k.cost = IF m.shares = u.quantity THEN 0 ELSE m.cost * (m.shares - u.quantity)
      /\ k.per = IF m.shares = u.quantity THEN 1 ELSE m.per * m.shares
      /\ k.realised = m.realised + SalePnl(m, u)
  BY <1>3, <1>4, SaleFields
<1> HIDE DEF k
<1>7. (m.shares = u.quantity) <=> (h.shares - t.quantity - u.quantity = 0)
  BY <1>1, <1>3
<1>8. /\ k.ok /\ k.ok = h.ok
      /\ k.shares = h.shares - t.quantity - u.quantity
      /\ k.realised = h.realised + SalePnl(h, t) + SalePnl(h, u)
  BY <1>3, <1>5, <1>6
<1>9. h.shares - t.quantity - u.quantity = 0 => k.cost = 0 /\ k.per = 1
  BY <1>6, <1>7
<1>10. h.shares - t.quantity - u.quantity # 0
         => /\ k.cost = (h.cost * (h.shares - t.quantity)) * (h.shares - t.quantity - u.quantity)
            /\ k.per = (h.per * h.shares) * (h.shares - t.quantity)
  BY <1>3, <1>6, <1>7
<1> QED BY <1>8, <1>9, <1>10 DEF k, m, AfterTwoSales

\* Two sells that the holding does not cover together are refused in either order.
LEMMA SalesExceedHolding ==
  ASSUME NEW h \in Holding, NEW t, IsTrade(t), NEW u, IsTrade(u), h.ok,
         t.side = "sell", u.side = "sell", t.quantity + u.quantity > h.shares
  PROVE  ReplayRow(ReplayRow(h, t), u).ok = FALSE
<1>1. /\ h.shares \in Nat /\ t.quantity \in Nat \ {0} /\ u.quantity \in Nat \ {0}
  BY DEF Holding, IsTrade
<1> DEFINE m == SellRow(h, t)
<1>2. ReplayRow(h, t) = m
  BY ReplayRowIs
<1>3. CASE t.quantity > h.shares
  <2>1. m.ok = FALSE /\ m \in Holding
    BY <1>3, RefusedSale
  <2> HIDE DEF m
  <2> QED BY <1>2, <2>1, ReplayRowIs
<1>4. CASE t.quantity <= h.shares
  <2>1. m \in Holding /\ m.ok = h.ok /\ m.shares = h.shares - t.quantity
    BY <1>4, SaleFields
  <2> HIDE DEF m
  <2>2. u.quantity > m.shares
    BY <1>1, <2>1
  <2>3. ReplayRow(m, u) = SellRow(m, u)
    BY <2>1, ReplayRowIs
  <2>4. SellRow(m, u).ok = FALSE
    BY <2>1, <2>2, RefusedSale
  <2> QED BY <1>2, <2>3, <2>4
<1>5. t.quantity > h.shares \/ t.quantity <= h.shares
  BY <1>1
<1> QED BY <1>3, <1>4, <1>5

\* Two rows of one side lead to the same holding in either order.
LEMMA TiesCommute ==
  ASSUME NEW h \in Holding, NEW t, IsTrade(t), NEW u, IsTrade(u), t.side = u.side
  PROVE  SameHolding(ReplayRow(ReplayRow(h, t), u), ReplayRow(ReplayRow(h, u), t))
<1>1. /\ h.shares \in Nat /\ h.per \in Nat \ {0} /\ h.cost \in Nat /\ h.realised \in Int
      /\ t.quantity \in Nat \ {0} /\ u.quantity \in Nat \ {0}
      /\ t.price \in Nat /\ t.fee \in Nat /\ u.price \in Nat /\ u.fee \in Nat
  BY DEF Holding, IsTrade
<1>2. CASE ~ h.ok
  BY <1>2, ReplayRowIs DEF SameHolding
<1>3. CASE h.ok /\ t.side = "buy"
  <2> DEFINE m == BuyRow(h, t)
             n == BuyRow(h, u)
             c == t.quantity * t.price + t.fee
             d == u.quantity * u.price + u.fee
  <2>1. /\ m \in Holding /\ m.ok = h.ok /\ m.shares = h.shares + t.quantity
        /\ m.cost = h.cost + c * h.per /\ m.per = h.per /\ m.realised = h.realised
    BY BuyFields
  <2>2. /\ n \in Holding /\ n.ok = h.ok /\ n.shares = h.shares + u.quantity
        /\ n.cost = h.cost + d * h.per /\ n.per = h.per /\ n.realised = h.realised
    BY BuyFields
  <2>3. ReplayRow(h, t) = m /\ ReplayRow(h, u) = n
    BY <1>3, ReplayRowIs
  <2> HIDE DEF m, n
  <2>4. ReplayRow(m, u) = BuyRow(m, u) /\ ReplayRow(n, t) = BuyRow(n, t)
    BY <1>3, <2>1, <2>2, ReplayRowIs
  <2> DEFINE v == BuyRow(m, u)
             w == BuyRow(n, t)
  <2>5. /\ v.ok = m.ok /\ v.shares = m.shares + u.quantity
        /\ v.cost = m.cost + d * m.per /\ v.per = m.per /\ v.realised = m.realised
    BY <2>1, BuyFields
  <2>6. /\ w.ok = n.ok /\ w.shares = n.shares + t.quantity
        /\ w.cost = n.cost + c * n.per /\ w.per = n.per /\ w.realised = n.realised
    BY <2>2, BuyFields
  <2>7. c * h.per \in Int /\ d * h.per \in Int
    <3>1. c \in Int /\ d \in Int
      BY <1>1
    <3> HIDE DEF c, d
    <3> QED BY <3>1, <1>1
  <2> HIDE DEF v, w, c, d
  <2>8. v.cost = w.cost /\ v.shares = w.shares /\ v.per = w.per
    BY <1>1, <2>1, <2>2, <2>5, <2>6, <2>7
  <2>9. SameHolding(v, w)
    BY <2>1, <2>2, <2>5, <2>6, <2>8 DEF SameHolding
  <2> QED BY <2>3, <2>4, <2>9 DEF v, w
<1>4. CASE h.ok /\ t.side = "sell" /\ t.quantity + u.quantity > h.shares
  <2>1. ReplayRow(ReplayRow(h, t), u).ok = FALSE
    BY <1>4, SalesExceedHolding
  <2>2. u.quantity + t.quantity > h.shares
    BY <1>1, <1>4
  <2>3. ReplayRow(ReplayRow(h, u), t).ok = FALSE
    BY <1>4, <2>2, SalesExceedHolding
  <2> QED BY <2>1, <2>3 DEF SameHolding
<1>5. CASE h.ok /\ t.side = "sell" /\ t.quantity + u.quantity <= h.shares
  <2> DEFINE m == SellRow(h, t)
             n == SellRow(h, u)
             v == SellRow(m, u)
             w == SellRow(n, t)
             S == h.shares
             left == h.shares - t.quantity - u.quantity
  <2>0. /\ t.quantity <= h.shares /\ u.quantity <= h.shares
        /\ u.quantity + t.quantity <= h.shares
        /\ left = h.shares - t.quantity - u.quantity /\ left = h.shares - u.quantity - t.quantity
    BY <1>1, <1>5
  <2>1. m \in Holding /\ m.ok = h.ok /\ n \in Holding /\ n.ok = h.ok
    BY <2>0, SaleFields
  <2>2. ReplayRow(h, t) = m /\ ReplayRow(h, u) = n
    BY <1>5, ReplayRowIs
  <2>3. ReplayRow(m, u) = v /\ ReplayRow(n, t) = w
    <3> HIDE DEF m, n
    <3> QED BY <1>5, <2>1, ReplayRowIs
  <2>10. AfterTwoSales(h, t, u, v) /\ AfterTwoSales(h, u, t, w)
    BY <1>5, <2>0, TwoSales
  <2>4. /\ v.ok /\ v.ok = h.ok /\ v.shares = left
        /\ v.realised = h.realised + SalePnl(h, t) + SalePnl(h, u)
        /\ left = 0 => v.cost = 0 /\ v.per = 1
        /\ left # 0 => /\ v.cost = (h.cost * (S - t.quantity)) * left
                       /\ v.per = (h.per * S) * (S - t.quantity)
    <3> HIDE DEF v, w, m, n
    <3> QED BY <2>10 DEF AfterTwoSales
  <2>5. /\ w.ok /\ w.ok = h.ok /\ w.shares = left
        /\ w.realised = h.realised + SalePnl(h, u) + SalePnl(h, t)
        /\ left = 0 => w.cost = 0 /\ w.per = 1
        /\ left # 0 => /\ w.cost = (h.cost * (S - u.quantity)) * left
                       /\ w.per = (h.per * S) * (S - u.quantity)
    <3>1. h.shares - u.quantity - t.quantity = left
      BY <2>0
    <3> HIDE DEF v, w, m, n
    <3> QED BY <2>10, <3>1 DEF AfterTwoSales
  <2>6. SalePnl(h, t) \in Int /\ SalePnl(h, u) \in Int
    BY <2>0, SaleFields
  <2> HIDE DEF m, n, v, w
  <2>7. v.realised = w.realised
    BY <1>1, <2>4, <2>5, <2>6
  <2>8. v.cost * w.per = w.cost * v.per
    <3>1. CASE left = 0
      BY <3>1, <2>4, <2>5
    <3>2. CASE left # 0
      <4> DEFINE a == S - t.quantity
                 b == S - u.quantity
      <4>1. a \in Int /\ b \in Int /\ left \in Int /\ S \in Int
        BY <1>1
      <4>2. /\ v.cost = (h.cost * a) * left /\ v.per = (h.per * S) * a
            /\ w.cost = (h.cost * b) * left /\ w.per = (h.per * S) * b
        BY <3>2, <2>4, <2>5
      <4> HIDE DEF a, b, left, S
      <4>3. ((h.cost * a) * left) * ((h.per * S) * b) = ((h.cost * b) * left) * ((h.per * S) * a)
        BY <1>1, <4>1
      <4> QED BY <4>2, <4>3
    <3> QED BY <3>1, <3>2
  <2>9. SameHolding(v, w)
    BY <2>4, <2>5, <2>7, <2>8 DEF SameHolding
  <2> QED BY <2>2, <2>3, <2>9
<1>6. t.quantity + u.quantity > h.shares \/ t.quantity + u.quantity <= h.shares
  BY <1>1
<1> QED BY <1>2, <1>3, <1>4, <1>5, <1>6, ReplayRowIs

\* Rows of one day and one side: created_at alone decides which comes first.
Tied(L, i, j) == L[i].day = L[j].day /\ L[i].side = L[j].side

\* A row that no other row of a set must follow.
IsTop(L, s, y) == y \in s /\ \A j \in s \ {y} : TransactionBefore(L, j, y) \/ Tied(L, j, y)

\* Any row that only created_at puts before others may as well be applied last.
LEMMA AnyTopMayComeLast ==
  ASSUME NEW L, FiniteLedger(L), NEW g, IsPrefixWalk(L, g)
  PROVE  \A s \in SUBSET Stored(L) : \A y \in s :
            IsTop(L, s, y) => SameHolding(g[s], ReplayRow(g[s \ {y}], L[y]))
<1> DEFINE S == Stored(L)
           Holds(s, y) == SameHolding(g[s], ReplayRow(g[s \ {y}], L[y]))
           Bad == {s \in SUBSET S : \E y \in s : IsTop(L, s, y) /\ ~ Holds(s, y)}
<1> SUFFICES ASSUME Bad # {} PROVE FALSE
  OBVIOUS
<1>1. PICK s \in Bad : \A r \in Bad : ~ (r \subseteq s /\ r # s)
  <2>1. Bad \subseteq SUBSET S /\ IsFiniteSet(S)
    BY DEF FiniteLedger
  <2> HIDE DEF Bad, S
  <2> QED BY <2>1, SmallestSubset
<1>2. PICK y \in s : IsTop(L, s, y) /\ ~ Holds(s, y)
  OBVIOUS
<1> DEFINE x == LastRow(L, s)
           p == s \ {x}
           q == s \ {y}
           r == (s \ {x}) \ {y}
<1>3. IsLast(L, s, x)
  BY LastRowIsLast
<1>4. /\ x \in s /\ x \in S /\ y \in S /\ IsLedger(L)
      /\ p \in SUBSET S /\ q \in SUBSET S /\ r \in SUBSET S
  BY <1>3 DEF IsLast, FiniteLedger
<1>5. g[s] = ReplayRow(g[p], L[x])
  BY <1>2 DEF IsPrefixWalk
<1>6. /\ g[s] \in Holding /\ g[p] \in Holding /\ g[q] \in Holding /\ g[r] \in Holding
      /\ IsTrade(L[x]) /\ IsTrade(L[y])
  BY <1>4, RowsTyped DEF IsPrefixWalk
<1> HIDE DEF x
<1>7. x # y
  <2> SUFFICES ASSUME x = y PROVE FALSE
    OBVIOUS
  <2>1. SameHolding(g[s], ReplayRow(g[q], L[y]))
    BY <1>5 DEF SameHolding
  <2> QED BY <2>1, <1>2
<1>8. TransactionBefore(L, y, x)
  BY <1>3, <1>7 DEF IsLast
<1>9. Tied(L, x, y)
  <2>1. ~ TransactionBefore(L, x, y)
    BY <1>4, <1>8, OrderIsStrict
  <2> QED BY <2>1, <1>2, <1>4, <1>7 DEF IsTop
<1>10. IsTop(L, p, y)
  BY <1>2, <1>7 DEF IsTop
<1>11. Holds(p, y)
  <2>1. p \subseteq s /\ p # s /\ y \in p
    BY <1>4, <1>7
  <2>2. p \notin Bad
    BY <1>1, <2>1
  <2> QED BY <1>4, <1>10, <2>1, <2>2
<1>12. SameHolding(g[p], ReplayRow(g[r], L[y]))
  BY <1>11
<1>13. IsLast(L, q, x)
  BY <1>3, <1>7 DEF IsLast
<1>14. g[q] = ReplayRow(g[r], L[x])
  <2>1. LastRow(L, q) = x /\ q # {}
    BY <1>4, <1>13, LastIsUnique DEF IsLast
  <2>2. q \ {x} = r
    OBVIOUS
  <2> QED BY <1>4, <2>1, <2>2 DEF IsPrefixWalk
<1> DEFINE a == ReplayRow(ReplayRow(g[r], L[y]), L[x])
           b == ReplayRow(ReplayRow(g[r], L[x]), L[y])
<1>15. /\ ReplayRow(g[r], L[y]) \in Holding /\ ReplayRow(g[r], L[x]) \in Holding
  BY <1>6, ReplayRowTyped
<1>16. a \in Holding /\ b \in Holding
  BY <1>6, <1>15, ReplayRowTyped
<1>17. SameHolding(g[s], a)
  BY <1>5, <1>6, <1>12, <1>15, SameStep
<1>18. SameHolding(a, b)
  <2>1. L[x].side = L[y].side
    BY <1>9 DEF Tied
  <2> QED BY <1>6, <2>1, TiesCommute
<1> HIDE DEF a, b
<1>19. SameHolding(g[s], b)
  BY <1>6, <1>16, <1>17, <1>18, SameHoldingTransitive
<1>20. Holds(s, y)
  BY <1>14, <1>19 DEF b
<1> QED BY <1>2, <1>20

\* Two ledgers with the same rows under other ids.
Renames(L, M, new) ==
  /\ new \in [Stored(L) -> Stored(M)]
  /\ \A i, j \in Stored(L) : new[i] = new[j] => i = j
  /\ \A k \in Stored(M) : \E i \in Stored(L) : new[i] = k
  /\ \A i \in Stored(L) : M[new[i]] = L[i]

\* Replay derives the same holding from the same rows under other ids.
LEMMA RenamedWalk ==
  ASSUME NEW L, FiniteLedger(L), NEW M, FiniteLedger(M), NEW new, Renames(L, M, new)
  PROVE  SameHolding(Walk(M), Walk(L)) /\ Walk(M) \in Holding /\ Walk(L) \in Holding
<1>1. PICK g : IsPrefixWalk(L, g)
  BY WalkTable
<1>2. PICK f : IsPrefixWalk(M, f)
  BY WalkTable
<1> DEFINE S == Stored(L)
           New(s) == {new[i] : i \in s}
           Holds(s) == SameHolding(f[New(s)], g[s])
           Bad == {s \in SUBSET S : ~ Holds(s)}
<1>3. Bad = {}
  <2> SUFFICES ASSUME Bad # {} PROVE FALSE
    OBVIOUS
  <2>1. PICK s \in Bad : \A r \in Bad : ~ (r \subseteq s /\ r # s)
    <3>1. Bad \subseteq SUBSET S /\ IsFiniteSet(S)
      BY DEF FiniteLedger
    <3> HIDE DEF Bad, S
    <3> QED BY <3>1, SmallestSubset
  <2>2. s # {}
    <3> SUFFICES ASSUME s = {} PROVE Holds(s)
      BY <2>1
    <3>1. New(s) = {}
      OBVIOUS
    <3>2. f[{}] = NothingHeld /\ g[{}] = NothingHeld
      BY <1>1, <1>2 DEF IsPrefixWalk
    <3> QED BY <3>1, <3>2 DEF SameHolding
  <2> DEFINE x == LastRow(L, s)
             p == s \ {x}
             y == new[x]
             t == New(s)
  <2>3. IsLast(L, s, x)
    BY <2>2, LastRowIsLast
  <2>4. x \in s /\ x \in S /\ p \in SUBSET S /\ p \subseteq s /\ p # s /\ IsLedger(L)
    BY <2>3 DEF IsLast, FiniteLedger
  <2>5. g[s] = ReplayRow(g[p], L[x])
    BY <1>1, <2>2 DEF IsPrefixWalk
  <2>6. Holds(p)
    BY <2>1, <2>4
  <2> HIDE DEF x
  <2>7. t \in SUBSET Stored(M) /\ y \in t /\ t \ {y} = New(p) /\ New(p) \in SUBSET Stored(M)
    <3>1. t \in SUBSET Stored(M) /\ y \in t
      BY <2>4 DEF Renames
    <3>2. \A i \in s : (new[i] = y) => i = x
      BY <2>4 DEF Renames
    <3>3. t \ {y} = New(p)
      BY <2>4, <3>2
    <3> QED BY <3>1, <3>3
  <2>8. IsTop(M, t, y)
    <3>1. ASSUME NEW j \in t \ {y} PROVE TransactionBefore(M, j, y) \/ Tied(M, j, y)
      <4>1. PICK i \in p : new[i] = j
        BY <2>7
      <4>2. M[j] = L[i] /\ M[y] = L[x] /\ i \in Stored(L)
        BY <2>4, <4>1 DEF Renames
      <4>3. TransactionBefore(L, i, x)
        BY <2>3, <4>1 DEF IsLast
      <4>4. L[i].day < L[x].day \/ (L[i].day = L[x].day /\ L[i].side = "buy" /\ L[x].side = "sell")
              \/ (L[i].day = L[x].day /\ L[i].side = L[x].side)
        BY <4>3 DEF TransactionBefore
      <4> QED BY <4>2, <4>4 DEF TransactionBefore, Tied
    <3> QED BY <2>7, <3>1 DEF IsTop
  <2>9. SameHolding(f[t], ReplayRow(f[t \ {y}], M[y]))
    BY <1>2, <2>7, <2>8, AnyTopMayComeLast
  <2>10. M[y] = L[x] /\ IsTrade(L[x])
    BY <2>4, RowsTyped DEF Renames
  <2>11. /\ f[t] \in Holding /\ f[New(p)] \in Holding /\ g[p] \in Holding /\ g[s] \in Holding
    BY <1>1, <1>2, <2>4, <2>7 DEF IsPrefixWalk
  <2> DEFINE a == ReplayRow(f[New(p)], L[x])
  <2>12. SameHolding(f[t], a)
    BY <2>7, <2>9, <2>10
  <2>13. SameHolding(a, g[s])
    BY <2>5, <2>6, <2>10, <2>11, SameStep
  <2>14. a \in Holding
    BY <2>10, <2>11, ReplayRowTyped
  <2> HIDE DEF a, t
  <2>15. SameHolding(f[t], g[s])
    BY <2>11, <2>12, <2>13, <2>14, SameHoldingTransitive
  <2> QED BY <2>15 DEF t
<1>4. New(S) = Stored(M)
  BY DEF Renames
<1>5. SameHolding(f[New(S)], g[S])
  BY <1>3
<1> QED BY <1>1, <1>2, <1>4, <1>5 DEF IsPrefixWalk

\* The same holding has the same figures.
LEMMA SameFigures ==
  ASSUME NEW L, NEW M, Walk(L) \in Holding, Walk(M) \in Holding, SameHolding(Walk(M), Walk(L))
  PROVE  /\ Replays(M) = Replays(L)
         /\ Replays(L) => Figures(M) = Figures(L)
<1> DEFINE h == Walk(M)
           k == Walk(L)
           c == h.cost
           d == k.cost
           p == h.per
           r == k.per
           s == k.shares
<1>1. Replays(M) = Replays(L)
  BY DEF Replays, SameHolding
<1>2. ASSUME Replays(L) PROVE Figures(M) = Figures(L)
  <2>1. h.shares = s /\ h.realised = k.realised /\ c * r = d * p
    BY <1>1, <1>2 DEF SameHolding, Replays
  <2>2. /\ s \in Nat /\ c \in Nat /\ d \in Nat /\ p \in Nat \ {0} /\ r \in Nat \ {0}
    BY DEF Holding
  <2>3. ASSUME s > 0 PROVE RoundedQuotient(c, p * s) = RoundedQuotient(d, r * s)
    <3> DEFINE A == p * s
               B == r * s
    <3>1. A \in Nat \ {0} /\ B \in Nat \ {0} /\ c \in Int /\ d \in Int
      BY <2>2, <2>3
    <3>2. r * A = p * B
      BY <2>2
    <3>3. r * c = p * d
      BY <2>1, <2>2
    <3> HIDE DEF A, B, c, d, p, r, s
    <3>4. RoundedQuotient(c, A) = RoundedQuotient(r * c, r * A)
      BY <2>2, <3>1, ScaledRoundedQuotient
    <3>5. RoundedQuotient(d, B) = RoundedQuotient(p * d, p * B)
      BY <2>2, <3>1, ScaledRoundedQuotient
    <3> QED BY <3>2, <3>3, <3>4, <3>5 DEF A, B
  <2> QED BY <2>1, <2>3 DEF Figures
<1> QED BY <1>1, <1>2

\* For every ledger of finitely many rows, two rows may swap their places in created_at
\* order and no figure changes.
THEOREM CreationOrderIgnored ==
  ASSUME FiniteLedger(rows)
  PROVE  FiguresIgnoreCreationOrder
<1> SUFFICES ASSUME NEW a \in Stored(rows), NEW b \in Stored(rows)
             PROVE  LET swapped == [rows EXCEPT ![a] = rows[b], ![b] = rows[a]]
                    IN  /\ Replays(swapped) = Replays(rows)
                        /\ Replays(rows) => Figures(swapped) = Figures(rows)
  BY DEF FiguresIgnoreCreationOrder
<1> DEFINE M == [rows EXCEPT ![a] = rows[b], ![b] = rows[a]]
           new == [i \in Stored(rows) |-> IF i = a THEN b ELSE IF i = b THEN a ELSE i]
<1>1. /\ a \in TxIds /\ b \in TxIds /\ rows[a] # NoRow /\ rows[b] # NoRow
      /\ rows = [i \in TxIds |-> rows[i]]
  BY DEF FiniteLedger, IsLedger, Stored
<1>2. M = [i \in TxIds |-> M[i]]
  BY <1>1
<1>3. \A i \in TxIds : M[i] = IF i = b THEN rows[a] ELSE IF i = a THEN rows[b] ELSE rows[i]
  BY <1>1
<1> HIDE DEF M
<1>4. Stored(M) = Stored(rows)
  BY <1>1, <1>3 DEF Stored
<1>5. FiniteLedger(M)
  <2>1. \A i \in Stored(M) : IsTrade(M[i])
    BY <1>1, <1>3, <1>4 DEF FiniteLedger, IsLedger, Stored
  <2> QED BY <2>1, <1>2, <1>4 DEF FiniteLedger, IsLedger
<1>6. Renames(rows, M, new)
  <2>1. \A i \in Stored(rows) : i \in TxIds
    BY DEF Stored
  <2>2. new \in [Stored(rows) -> Stored(M)]
    BY <1>4
  <2>3. \A i, j \in Stored(rows) : new[i] = new[j] => i = j
    OBVIOUS
  <2>4. \A k \in Stored(M) : \E i \in Stored(rows) : new[i] = k
    <3> TAKE k \in Stored(M)
    <3>1. new[k] \in Stored(rows) /\ new[new[k]] = k
      BY <1>4
    <3> QED BY <3>1
  <2>5. \A i \in Stored(rows) : M[new[i]] = rows[i]
    BY <1>3, <2>1
  <2> QED BY <2>2, <2>3, <2>4, <2>5 DEF Renames
<1> HIDE DEF new
<1>7. SameHolding(Walk(M), Walk(rows)) /\ Walk(M) \in Holding /\ Walk(rows) \in Holding
  BY <1>5, <1>6, RenamedWalk
<1>8. Replays(M) = Replays(rows) /\ (Replays(rows) => Figures(M) = Figures(rows))
  BY <1>7, SameFigures
<1> QED BY <1>8 DEF M

-----------------------------------------------------------------------------
\* The specification of MCReplay.

\* The invariant: every reachable ledger is well typed and stores finitely many rows.
IInv == rows \in Ledgers /\ IsFiniteSet(Stored(rows))

LEMMA LedgersAreLedgers ==
  IInv => FiniteLedger(rows)
<1> SUFFICES ASSUME IInv PROVE FiniteLedger(rows)
  OBVIOUS
<1>1. rows \in [TxIds -> Row \union {NoRow}]
  BY DEF IInv, Ledgers
<1>2. rows = [i \in TxIds |-> rows[i]]
  BY <1>1
<1>3. ASSUME NEW i \in Stored(rows) PROVE IsTrade(rows[i])
  <2>1. rows[i] \in Row
    BY <1>1 DEF Stored
  <2> QED BY <2>1, RowDomains DEF Row, Sides, IsTrade
<1> QED BY <1>2, <1>3 DEF FiniteLedger, IsLedger, IInv

\* Every reachable ledger is a function from ids to rows, finitely many of which are stored.
THEOREM ReplayTyping == ReplaySpec => []IInv
<1>1. ReplayInit => IInv
  <2> SUFFICES ASSUME ReplayInit PROVE IInv
    OBVIOUS
  <2>1. rows = [i \in TxIds |-> NoRow]
    BY DEF ReplayInit, EmptyLedger
  <2>2. rows \in Ledgers
    BY <2>1 DEF Ledgers
  <2>3. Stored(rows) = {}
    BY <2>1 DEF Stored
  <2> QED BY <2>2, <2>3, FS_EmptySet DEF IInv
<1>2. IInv /\ [ReplayNext]_rows => IInv'
  <2> SUFFICES ASSUME IInv, [ReplayNext]_rows PROVE IInv'
    OBVIOUS
  <2>1. CASE UNCHANGED rows
    BY <2>1 DEF IInv, Ledgers, Stored, Row
  <2>2. ASSUME NEW i \in TxIds, NEW row \in Row, Store(i, row) PROVE IInv'
    <3>1. rows' = [rows EXCEPT ![i] = row] /\ rows \in [TxIds -> Row \union {NoRow}]
      BY <2>2 DEF Store, IInv, Ledgers
    <3>2. rows' \in Ledgers
      BY <3>1 DEF Ledgers
    <3>3. Stored(rows') = Stored(rows) \union {i}
      BY <3>1, NoRowIsNotARow DEF Stored
    <3>4. IsFiniteSet(Stored(rows) \union {i})
      BY FS_AddElement DEF IInv
    <3> QED BY <3>2, <3>3, <3>4 DEF IInv, Ledgers, Stored, Row
  <2> QED BY <2>1, <2>2 DEF ReplayNext
<1> QED BY <1>1, <1>2, PTL DEF ReplaySpec

\* Whatever rows are stored in whatever order, Replay (internal/domain/portfolio/ledger.go)
\* refuses exactly the ledgers that oversell on some day, and holds what was bought and not
\* sold.
THEOREM ReplaysByDailyTotals == ReplaySpec => []ReplayAgreesWithDailyTotals
<1>1. IInv => ReplayAgreesWithDailyTotals
  BY LedgersAreLedgers, AgreesWithDailyTotals
<1> QED BY <1>1, ReplayTyping, PTL

\* Whatever rows are stored, the holding Replay derives accounts for all the money paid and
\* received, up to half a unit for each sell and each share held.
THEOREM CashIsAlwaysConserved == ReplaySpec => []CashIsConserved
<1>1. IInv => CashIsConserved
  BY LedgersAreLedgers, CashConserved
<1> QED BY <1>1, ReplayTyping, PTL

\* Whatever rows are stored, swapping two of them in created_at order changes no figure of
\* the holding.
THEOREM CreationOrderNeverMatters == ReplaySpec => []FiguresIgnoreCreationOrder
<1>1. IInv => FiguresIgnoreCreationOrder
  BY LedgersAreLedgers, CreationOrderIgnored
<1> QED BY <1>1, ReplayTyping, PTL

-----------------------------------------------------------------------------
(* The figures of a ledger. *)

\* The rows of symbol s in portfolio p.
Of(L, p, s) == SymbolRows(PortfolioRows(L, p), s)

\* A ledger of finitely many recorded rows.
Recorded(L) == L \in [TxIds -> TradeRow \union {NoRow}] /\ IsFiniteSet(Stored(L))

\* The invariant: ids are given in order, and every holding replays.
FiguresIInv ==
  /\ market \in Markets
  /\ Recorded(ledger)
  /\ Stored(ledger) = 1..Cardinality(Stored(ledger))
  /\ \A p \in Portfolios, s \in Symbols : Replays(Of(ledger, p, s))

\* What is recorded is a trade of one of the portfolios, and only a buy carries a holding over.
LEMMA RecordedFields ==
  ASSUME NEW L, Recorded(L), NEW i \in Stored(L)
  PROVE  /\ i \in TxIds /\ L[i] # NoRow /\ L[i] \in TradeRow
         /\ IsTrade(L[i])
         /\ L[i].portfolio \in Portfolios /\ L[i].symbol \in Symbols /\ L[i].opening \in BOOLEAN
         /\ L[i].opening => L[i].side = "buy"
<1>1. i \in TxIds /\ L[i] # NoRow
  BY DEF Stored
<1>2. L[i] \in TradeRow
  BY <1>1 DEF Recorded
<1> QED BY <1>1, <1>2, RowDomains DEF TradeRow, IsTrade, Sides

\* Recorded rows are a finite ledger, as the replay wants it.
LEMMA RecordedIsFinite ==
  ASSUME NEW L, Recorded(L)
  PROVE  FiniteLedger(L)
<1>1. L = [i \in TxIds |-> L[i]]
  BY DEF Recorded
<1>2. \A i \in Stored(L) : IsTrade(L[i])
  BY RecordedFields
<1> QED BY <1>1, <1>2 DEF FiniteLedger, IsLedger, Recorded

\* The rows of one portfolio, unchanged.
LEMMA PortfolioPart ==
  ASSUME NEW L, Recorded(L), NEW p
  PROVE  /\ Recorded(PortfolioRows(L, p))
         /\ Stored(PortfolioRows(L, p)) = {i \in Stored(L) : L[i].portfolio = p}
         /\ \A i \in Stored(PortfolioRows(L, p)) : PortfolioRows(L, p)[i] = L[i]
<1> DEFINE N == PortfolioRows(L, p)
<1>1. N = [i \in TxIds |-> IF L[i] # NoRow /\ L[i].portfolio = p THEN L[i] ELSE NoRow]
  BY DEF PortfolioRows
<1> HIDE DEF N
<1>2. N \in [TxIds -> TradeRow \union {NoRow}]
  BY <1>1 DEF Recorded
<1>3. Stored(N) = {i \in Stored(L) : L[i].portfolio = p}
  BY <1>1 DEF Stored
<1>4. IsFiniteSet(Stored(N))
  BY <1>3, FS_Subset DEF Recorded
<1>5. \A i \in Stored(N) : N[i] = L[i]
  BY <1>1, <1>3 DEF Stored
<1> QED BY <1>2, <1>3, <1>4, <1>5 DEF Recorded, N

\* The rows of one symbol, unchanged.
LEMMA SymbolPart ==
  ASSUME NEW L, Recorded(L), NEW s
  PROVE  /\ Recorded(SymbolRows(L, s))
         /\ Stored(SymbolRows(L, s)) = {i \in Stored(L) : L[i].symbol = s}
         /\ \A i \in Stored(SymbolRows(L, s)) : SymbolRows(L, s)[i] = L[i]
<1> DEFINE N == SymbolRows(L, s)
<1>1. N = [i \in TxIds |-> IF L[i] # NoRow /\ L[i].symbol = s THEN L[i] ELSE NoRow]
  BY DEF SymbolRows
<1> HIDE DEF N
<1>2. N \in [TxIds -> TradeRow \union {NoRow}]
  BY <1>1 DEF Recorded
<1>3. Stored(N) = {i \in Stored(L) : L[i].symbol = s}
  BY <1>1 DEF Stored
<1>4. IsFiniteSet(Stored(N))
  BY <1>3, FS_Subset DEF Recorded
<1>5. \A i \in Stored(N) : N[i] = L[i]
  BY <1>1, <1>3 DEF Stored
<1> QED BY <1>2, <1>3, <1>4, <1>5 DEF Recorded, N

\* The rows of one holding, unchanged.
LEMMA HoldingPart ==
  ASSUME NEW L, Recorded(L), NEW p, NEW s
  PROVE  /\ Recorded(Of(L, p, s))
         /\ Stored(Of(L, p, s)) = {i \in Stored(L) : L[i].portfolio = p /\ L[i].symbol = s}
         /\ \A i \in Stored(Of(L, p, s)) : Of(L, p, s)[i] = L[i]
<1> DEFINE M == PortfolioRows(L, p)
<1>1. /\ Recorded(M) /\ Stored(M) = {i \in Stored(L) : L[i].portfolio = p}
      /\ \A i \in Stored(M) : M[i] = L[i]
  BY PortfolioPart
<1> HIDE DEF M
<1>2. /\ Recorded(SymbolRows(M, s))
      /\ Stored(SymbolRows(M, s)) = {i \in Stored(M) : M[i].symbol = s}
      /\ \A i \in Stored(SymbolRows(M, s)) : SymbolRows(M, s)[i] = M[i]
  BY <1>1, SymbolPart
<1>3. Of(L, p, s) = SymbolRows(M, s)
  BY DEF Of, M
<1>4. Stored(Of(L, p, s)) = {i \in Stored(L) : L[i].portfolio = p /\ L[i].symbol = s}
  BY <1>1, <1>2, <1>3
<1> QED BY <1>1, <1>2, <1>3, <1>4

\* A row of portfolio p and symbol s changes no other holding.
LEMMA OtherHoldings ==
  ASSUME NEW L, Recorded(L), NEW i \in TxIds, L[i] = NoRow, NEW row \in TradeRow,
         NEW p, NEW s, p # row.portfolio \/ s # row.symbol
  PROVE  Of([L EXCEPT ![i] = row], p, s) = Of(L, p, s)
<1> DEFINE M == [L EXCEPT ![i] = row]
<1>1. \A j \in TxIds : M[j] = IF j = i THEN row ELSE L[j]
  BY DEF Recorded
<1> HIDE DEF M
<1>2. ASSUME NEW j \in TxIds
      PROVE  PortfolioRows(M, p)[j] = IF j = i /\ row.portfolio = p THEN row ELSE PortfolioRows(L, p)[j]
  BY <1>1, RecordedRows DEF PortfolioRows
<1>3. ASSUME NEW j \in TxIds
      PROVE  Of(M, p, s)[j] = Of(L, p, s)[j]
  BY <1>2, RecordedRows DEF SymbolRows, PortfolioRows, Of
<1>4. /\ Of(M, p, s) = [j \in TxIds |-> Of(M, p, s)[j]]
      /\ Of(L, p, s) = [j \in TxIds |-> Of(L, p, s)[j]]
  BY DEF Of, SymbolRows
<1> QED BY <1>3, <1>4 DEF M

\* A ledger without rows replays.
LEMMA EmptyReplays ==
  ASSUME NEW L, FiniteLedger(L), Stored(L) = {}
  PROVE  Replays(L)
<1>1. PICK g : IsPrefixWalk(L, g)
  BY WalkTable
<1> QED BY <1>1 DEF IsPrefixWalk, NothingHeld, Replays

\* Whatever is recorded, in whatever order of dates, ids are given in order and the rows of
\* every holding replay: a row that would not replay is refused.
THEOREM FiguresTyping == Spec => []FiguresIInv
<1>1. Init => FiguresIInv
  <2> SUFFICES ASSUME Init PROVE FiguresIInv
    OBVIOUS
  <2>1. ledger = [i \in TxIds |-> NoRow] /\ market \in Markets
    BY DEF Init, EmptyLedger
  <2>2. Stored(ledger) = {}
    BY <2>1 DEF Stored
  <2>3. Recorded(ledger)
    BY <2>1, <2>2, FS_EmptySet DEF Recorded
  <2>4. Stored(ledger) = 1..Cardinality(Stored(ledger))
    BY <2>2, FS_EmptySet
  <2>5. ASSUME NEW p \in Portfolios, NEW s \in Symbols PROVE Replays(Of(ledger, p, s))
    <3>1. Recorded(Of(ledger, p, s)) /\ Stored(Of(ledger, p, s)) = {}
      BY <2>2, <2>3, HoldingPart
    <3> QED BY <3>1, RecordedIsFinite, EmptyReplays
  <2> QED BY <2>1, <2>3, <2>4, <2>5 DEF FiguresIInv
<1>2. FiguresIInv /\ [Next]_<<ledger, market>> => FiguresIInv'
  <2> SUFFICES ASSUME FiguresIInv, [Next]_<<ledger, market>> PROVE FiguresIInv'
    OBVIOUS
  <2>1. CASE UNCHANGED <<ledger, market>>
    <3>1. ledger' = ledger /\ market' = market
      BY <2>1
    <3>2. Recorded(ledger') /\ Stored(ledger') = 1..Cardinality(Stored(ledger'))
      BY <3>1 DEF FiguresIInv
    <3>3. ASSUME NEW p \in Portfolios, NEW s \in Symbols PROVE Replays(Of(ledger', p, s))
      BY <3>1 DEF FiguresIInv
    <3>4. (\A p \in Portfolios, s \in Symbols : Replays(Of(ledger, p, s)))'
      BY <3>3
    <3>5. market' \in Markets /\ Recorded(ledger)' /\ (Stored(ledger) = 1..Cardinality(Stored(ledger)))'
      BY <3>1, <3>2 DEF FiguresIInv
    <3> QED BY <3>4, <3>5 DEF FiguresIInv
  <2>2. ASSUME NEW i \in TxIds, NEW row \in Trades, Record(i, row) PROVE FiguresIInv'
    <3>1. /\ i = Cardinality(Stored(ledger)) + 1
          /\ ledger' = [ledger EXCEPT ![i] = row]
          /\ Replays(Of(ledger', row.portfolio, row.symbol))
          /\ market' = market
      BY <2>2 DEF Record, Of
    <3>2. row \in TradeRow /\ row # NoRow
      BY RecordedRows
    <3>3. /\ Recorded(ledger) /\ IsFiniteSet(Stored(ledger))
          /\ Stored(ledger) = 1..Cardinality(Stored(ledger))
          /\ Cardinality(Stored(ledger)) \in Nat
      BY FS_CardinalityType DEF FiguresIInv, Recorded
    <3>4. i \notin Stored(ledger) /\ ledger[i] = NoRow
      BY <3>1, <3>3 DEF Stored
    <3>5. Stored(ledger') = Stored(ledger) \union {i}
      BY <3>1, <3>2, <3>3 DEF Stored, Recorded
    <3>6. /\ IsFiniteSet(Stored(ledger'))
          /\ Cardinality(Stored(ledger')) = Cardinality(Stored(ledger)) + 1
      BY <3>3, <3>4, <3>5, FS_AddElement
    <3>7. Recorded(ledger')
      BY <3>1, <3>2, <3>3, <3>6 DEF Recorded
    <3>8. Stored(ledger') = 1..Cardinality(Stored(ledger'))
      <4> DEFINE n == Cardinality(Stored(ledger))
      <4>1. n \in Nat /\ Stored(ledger) = 1..n /\ i = n + 1
        BY <3>1, <3>3
      <4>2. Cardinality(Stored(ledger')) = n + 1
        BY <3>6
      <4> HIDE DEF n
      <4>3. (1..n) \union {n + 1} = 1..(n + 1)
        BY <4>1
      <4> QED BY <4>1, <4>2, <4>3, <3>5
    <3>9. ASSUME NEW p \in Portfolios, NEW s \in Symbols PROVE Replays(Of(ledger', p, s))
      <4>1. CASE p = row.portfolio /\ s = row.symbol
        BY <4>1, <3>1
      <4>2. CASE p # row.portfolio \/ s # row.symbol
        <5>1. Of([ledger EXCEPT ![i] = row], p, s) = Of(ledger, p, s)
          BY <4>2, <3>2, <3>3, <3>4, OtherHoldings
        <5>2. Of(ledger', p, s) = Of(ledger, p, s)
          BY <5>1, <3>1
        <5> QED BY <5>2 DEF FiguresIInv
      <4> QED BY <4>1, <4>2
    <3>10. (\A p \in Portfolios, s \in Symbols : Replays(Of(ledger, p, s)))'
      BY <3>9
    <3>11. market' \in Markets /\ Recorded(ledger)' /\ (Stored(ledger) = 1..Cardinality(Stored(ledger)))'
      BY <3>1, <3>7, <3>8 DEF FiguresIInv
    <3> QED BY <3>10, <3>11 DEF FiguresIInv
  <2> QED BY <2>1, <2>2 DEF Next
<1> QED BY <1>1, <1>2, PTL DEF Spec

\* The image of a finite set is finite.
LEMMA ImageIsFinite ==
  ASSUME NEW S, IsFiniteSet(S), NEW f
  PROVE  IsFiniteSet({f[x] : x \in S})
<1> DEFINE T == {f[x] : x \in S}
           g == [x \in S |-> f[x]]
<1>1. g \in [S -> T]
  OBVIOUS
<1>2. \A t \in T : \E x \in S : g[x] = t
  OBVIOUS
<1>3. g \in Surjection(S, T)
  BY <1>1, <1>2 DEF Surjection
<1> QED BY <1>3, FS_Surjection

\* SumFunction in terms of SumFunctionOnSet.
LEMMA SumOver ==
  ASSUME NEW f, NEW S, DOMAIN f = S
  PROVE  SumFunction(f) = SumFunctionOnSet(f, S)
BY DEF SumFunction

\* The portfolios and symbols with rows, and the holding of one of them.
HoldingKeys(L) == {g \in Portfolios \X Symbols : Stored(Of(L, g[1], g[2])) # {}}
HoldingOf(L, g) == [portfolio |-> g[1], symbol |-> g[2],
                    shares |-> Figures(Of(L, g[1], g[2])).shares,
                    avgCost |-> Figures(Of(L, g[1], g[2])).avgCost]

\* The holdings, one for every portfolio and symbol with rows.
LEMMA HoldingsByKey ==
  ASSUME NEW L
  PROVE  Holdings(L) = {HoldingOf(L, g) : g \in HoldingKeys(L)}
BY DEF Holdings, HoldingKeys, HoldingOf, Of

\* The figures of a replay are integers, and the shares are never negative.
LEMMA FiguresTyped ==
  ASSUME NEW L, FiniteLedger(L)
  PROVE  Figures(L).shares \in Nat /\ Figures(L).avgCost \in Int /\ Figures(L).realised \in Int
<1>1. PICK g : IsPrefixWalk(L, g)
  BY WalkTable
<1> DEFINE h == Walk(L)
<1>2. h \in Holding
  BY <1>1 DEF IsPrefixWalk
<1>3. h.shares \in Nat /\ h.cost \in Nat /\ h.per \in Nat \ {0} /\ h.realised \in Int
  BY <1>2 DEF Holding
<1>4. /\ Figures(L).shares = h.shares
      /\ Figures(L).avgCost = IF h.shares > 0 THEN RoundedQuotient(h.cost, h.per * h.shares) ELSE 0
      /\ Figures(L).realised = h.realised
  BY DEF Figures
<1> HIDE DEF h
<1>5. CASE h.shares > 0
  <2> DEFINE d == h.per * h.shares
             n == h.cost
  <2>1. d \in Nat \ {0} /\ n \in Int
    BY <1>3, <1>5
  <2> HIDE DEF d, n
  <2>2. RoundedQuotient(n, d) \in Int
    BY <2>1, RoundedQuotientBounds
  <2> QED BY <1>3, <1>4, <1>5, <2>2 DEF d, n
<1>6. CASE ~ (h.shares > 0)
  BY <1>3, <1>4, <1>6
<1> QED BY <1>5, <1>6

\* One holding per portfolio and symbol, of typed figures.
LEMMA HoldingsTyped ==
  ASSUME NEW L, Recorded(L)
  PROVE  /\ IsFiniteSet(Holdings(L))
         /\ \A h \in Holdings(L) :
               /\ h.portfolio \in Portfolios /\ h.symbol \in Symbols
               /\ h.shares \in Nat /\ h.avgCost \in Int
               /\ h.shares = Figures(Of(L, h.portfolio, h.symbol)).shares
               /\ h.avgCost = Figures(Of(L, h.portfolio, h.symbol)).avgCost
               /\ Stored(Of(L, h.portfolio, h.symbol)) # {}
         /\ \A h, k \in Holdings(L) :
               h.portfolio = k.portfolio /\ h.symbol = k.symbol => h = k
<1> DEFINE K == HoldingKeys(L)
           f == [g \in K |-> HoldingOf(L, g)]
<1>1. IsFiniteSet(K)
  <2>1. IsFiniteSet(Portfolios \X Symbols)
    BY RecordedRows, FS_Product
  <2> QED BY <2>1, FS_Subset DEF HoldingKeys
<1>2. Holdings(L) = {f[g] : g \in K}
  BY HoldingsByKey
<1>3. IsFiniteSet({f[g] : g \in K})
  <2> HIDE DEF f, K
  <2> QED BY <1>1, ImageIsFinite
<1>4. ASSUME NEW h \in Holdings(L)
      PROVE  /\ <<h.portfolio, h.symbol>> \in K /\ h = f[<<h.portfolio, h.symbol>>]
             /\ h.portfolio \in Portfolios /\ h.symbol \in Symbols
             /\ h.shares = Figures(Of(L, h.portfolio, h.symbol)).shares
             /\ h.avgCost = Figures(Of(L, h.portfolio, h.symbol)).avgCost
             /\ Stored(Of(L, h.portfolio, h.symbol)) # {}
  <2>1. PICK g \in K : h = f[g]
    BY <1>2
  <2>2. g \in Portfolios \X Symbols /\ Stored(Of(L, g[1], g[2])) # {}
    BY DEF HoldingKeys
  <2>3. h = HoldingOf(L, g)
    BY <2>1
  <2>4. /\ h.portfolio = g[1] /\ h.symbol = g[2] /\ g = <<g[1], g[2]>>
        /\ h.shares = Figures(Of(L, g[1], g[2])).shares
        /\ h.avgCost = Figures(Of(L, g[1], g[2])).avgCost
    BY <2>2, <2>3 DEF HoldingOf
  <2>5. <<h.portfolio, h.symbol>> = g
    BY <2>4
  <2> HIDE DEF f, K
  <2> QED BY <2>1, <2>2, <2>4, <2>5
<1>5. ASSUME NEW h \in Holdings(L), NEW k \in Holdings(L),
             h.portfolio = k.portfolio, h.symbol = k.symbol
      PROVE  h = k
  <2> HIDE DEF f, K
  <2> QED BY <1>4, <1>5
<1>6. ASSUME NEW h \in Holdings(L) PROVE h.shares \in Nat /\ h.avgCost \in Int
  <2>1. FiniteLedger(Of(L, h.portfolio, h.symbol))
    BY HoldingPart, RecordedIsFinite
  <2> QED BY <1>4, <2>1, FiguresTyped
<1> HIDE DEF f, K
<1> QED BY <1>2, <1>3, <1>4, <1>5, <1>6

\* The open holdings of a portfolio: at most one of each symbol, of one share or more.
LEMMA OpenTyped ==
  ASSUME NEW L, Recorded(L), NEW p
  PROVE  LET open == Open(OfPortfolio(Holdings(L), p))
         IN  /\ IsFiniteSet(open) /\ open \subseteq Holdings(L)
             /\ \A h \in open : /\ h.portfolio = p /\ h.symbol \in Symbols
                                /\ h.shares \in Nat \ {0} /\ h.avgCost \in Int
             /\ \A h, k \in open : h.symbol = k.symbol => h = k
<1> DEFINE open == Open(OfPortfolio(Holdings(L), p))
<1>1. open = {h \in Holdings(L) : h.portfolio = p /\ h.shares > 0}
  BY DEF Open, OfPortfolio
<1> HIDE DEF open
<1>2. IsFiniteSet(open) /\ open \subseteq Holdings(L)
  BY <1>1, HoldingsTyped, FS_Subset
<1>3. ASSUME NEW h \in open
      PROVE  /\ h.portfolio = p /\ h.symbol \in Symbols
             /\ h.shares \in Nat \ {0} /\ h.avgCost \in Int
  <2>1. h.shares \in Nat /\ h.symbol \in Symbols /\ h.avgCost \in Int
    BY <1>2, HoldingsTyped
  <2> QED BY <1>1, <2>1
<1>4. \A h, k \in open : h.symbol = k.symbol => h = k
  <2> SUFFICES ASSUME NEW h \in open, NEW k \in open, h.symbol = k.symbol PROVE h = k
    OBVIOUS
  <2>1. h \in Holdings(L) /\ k \in Holdings(L) /\ h.portfolio = k.portfolio
    BY <1>2, <1>3
  <2> QED BY <2>1, HoldingsTyped
<1> QED BY <1>2, <1>3, <1>4 DEF open

\* A product of positive numbers is positive.
LEMMA ProductPositive ==
  ASSUME NEW a \in Nat \ {0}, NEW b \in Nat \ {0}
  PROVE  a * b \in Nat \ {0}
OBVIOUS

\* What the list shows of a portfolio, in every state the ledger and a market can be in.
LEMMA ListEntryTells ==
  ASSUME FiguresIInv, NEW p \in Portfolios
  PROVE  LET open     == Open(OfPortfolio(Holdings(ledger), p))
             answered == {h \in open : Known(h.symbol)}
         IN  /\ Entry(p).value = Unavailable <=> open # {} /\ answered = {}
             /\ Entry(p).value = 0 <=>
                   \/ open = {}
                   \/ answered # {} /\ \A h \in answered : Worthless(h.symbol)
             /\ Entry(p).count = Cardinality(open)
<1> DEFINE open == Open(OfPortfolio(Holdings(ledger), p))
           answered == {h \in open : Known(h.symbol)}
           prices == FetchPrices(market.quotes, market.changes, DistinctSymbols(Holdings(ledger)))
           K == {h \in open : h.symbol \in DOMAIN prices /\ prices[h.symbol].change # -100}
           f == [h \in K |-> h.shares * prices[h.symbol].price]
<1>1. Recorded(ledger) /\ market \in Markets
  BY DEF FiguresIInv
<1>2. /\ IsFiniteSet(open) /\ open \subseteq Holdings(ledger)
      /\ \A h \in open : h.symbol \in Symbols /\ h.shares \in Nat \ {0}
  BY <1>1, OpenTyped
<1>3. /\ Entry(p).count = Cardinality(open)
      /\ Entry(p).value = IF open # {} /\ ~AnyPriced(open, prices)
                          THEN Unavailable ELSE AggregateValue(open, prices)
  BY DEF Entry, ListEntry
<1>4. /\ AnyPriced(open, prices) <=> \E h \in open : h.symbol \in DOMAIN prices
      /\ AggregateValue(open, prices) = SumFunction(f)
  BY DEF AnyPriced, AggregateValue
<1>5. ASSUME NEW h \in open
      PROVE  /\ h.symbol \in DOMAIN prices <=> Known(h.symbol)
             /\ Known(h.symbol) => /\ prices[h.symbol].price = market.quotes[h.symbol]
                                   /\ prices[h.symbol].change = market.changes[h.symbol]
                                   /\ market.quotes[h.symbol] \in Nat
  <2>1. h.symbol \in DistinctSymbols(Holdings(ledger)) /\ h.symbol \in Symbols
    BY <1>2 DEF DistinctSymbols
  <2>2. h.symbol \in DOMAIN prices <=> Known(h.symbol)
    BY <2>1 DEF FetchPrices, Known
  <2>3. Known(h.symbol) => prices[h.symbol] = [price |-> market.quotes[h.symbol],
                                               change |-> market.changes[h.symbol]]
    BY <2>1 DEF FetchPrices, Known
  <2>4. Known(h.symbol) => market.quotes[h.symbol] \in Nat
    BY <1>1, <2>1, ProvidedPrices DEF Known
  <2> HIDE DEF prices
  <2> QED BY <2>2, <2>3, <2>4
<1>6. K = {h \in answered : market.changes[h.symbol] # -100}
  <2> HIDE DEF prices, open
  <2> QED BY <1>5
<1>7. \A h \in K : f[h] \in Nat /\ (f[h] = 0 <=> market.quotes[h.symbol] = 0)
  <2> SUFFICES ASSUME NEW h \in K PROVE f[h] \in Nat /\ (f[h] = 0 <=> market.quotes[h.symbol] = 0)
    OBVIOUS
  <2> DEFINE q == market.quotes[h.symbol]
  <2>1. f[h] = h.shares * prices[h.symbol].price
    OBVIOUS
  <2>2. h.shares \in Nat \ {0} /\ q \in Nat /\ prices[h.symbol].price = q
    <3> HIDE DEF prices, f, open
    <3> QED BY <1>2, <1>5, <1>6
  <2> HIDE DEF f, K, prices, open, q
  <2>3. ASSUME q = 0 PROVE f[h] \in Nat /\ (f[h] = 0 <=> q = 0)
    BY <2>1, <2>2, <2>3
  <2>4. ASSUME q # 0 PROVE f[h] \in Nat /\ (f[h] = 0 <=> q = 0)
    <3>1. h.shares * q \in Nat \ {0}
      BY <2>2, <2>4, ProductPositive
    <3> QED BY <2>1, <2>2, <2>4, <3>1
  <2>5. f[h] \in Nat /\ (f[h] = 0 <=> q = 0)
    BY <2>3, <2>4
  <2> QED BY <2>5 DEF q
<1>8. SumFunction(f) = SumFunctionOnSet(f, K)
  <2>1. DOMAIN f = K
    OBVIOUS
  <2> HIDE DEF f, K
  <2> QED BY <2>1, SumOver
<1>9. IsFiniteSet(K) /\ K \subseteq answered /\ answered \subseteq open
  <2>1. K \in SUBSET open
    OBVIOUS
  <2>2. K \subseteq answered /\ answered \subseteq open
    <3> HIDE DEF K, open
    <3> QED BY <1>6
  <2> HIDE DEF K, open, answered
  <2> QED BY <1>2, <2>1, <2>2, FS_Subset
<1>10. AnyPriced(open, prices) <=> answered # {}
  <2> HIDE DEF prices, open, f, K
  <2> QED BY <1>4, <1>5
<1>11. (\A h \in answered : Worthless(h.symbol)) <=> \A h \in K : f[h] = 0
  <2> HIDE DEF prices, open, f, K, answered
  <2> QED BY <1>6, <1>7 DEF Worthless
<1> HIDE DEF prices, f, open, K, answered
<1>12. SumFunctionOnSet(f, K) \in Nat /\ (SumFunctionOnSet(f, K) = 0 <=> \A h \in K : f[h] = 0)
  <2>1. \A h \in K : f[h] \in Nat
    BY <1>7
  <2>2. SumFunctionOnSet(f, K) \in Nat
    BY <1>9, <2>1, SumIsNat
  <2>3. ASSUME NEW h \in K, f[h] # 0 PROVE SumFunctionOnSet(f, K) # 0
    <3>1. f[h] > 0
      BY <2>1, <2>3
    <3>2. SumFunctionOnSet(f, K) > 0
      BY <1>9, <2>1, <3>1, SumPositive
    <3> QED BY <3>2
  <2>4. (\A h \in K : f[h] = 0) => SumFunctionOnSet(f, K) = 0
    BY <1>9, SumZero
  <2> QED BY <2>2, <2>3, <2>4
<1>13. Entry(p).value = Unavailable <=> open # {} /\ answered = {}
  BY <1>3, <1>4, <1>8, <1>10, <1>12, UnavailableIsNoFigure
<1>14. Entry(p).value = 0 <=> \/ open = {}
                              \/ answered # {} /\ \A h \in answered : Worthless(h.symbol)
  <2>1. CASE open = {}
    <3>1. answered = {} /\ Entry(p).value = SumFunctionOnSet(f, K)
      BY <1>3, <1>4, <1>8, <1>9, <2>1
    <3> QED BY <1>11, <1>12, <2>1, <3>1
  <2>2. CASE open # {} /\ answered = {}
    BY <1>13, <2>2, UnavailableIsNoFigure
  <2>3. CASE open # {} /\ answered # {}
    BY <1>3, <1>4, <1>8, <1>10, <1>11, <1>12, <2>3
  <2> QED BY <2>1, <2>2, <2>3
<1> QED BY <1>3, <1>13, <1>14 DEF open, answered

\* For any ledger and any answers of the provider, the list of portfolios shows no value exactly
\* when holdings are open and no lookup of any came back, and zero exactly when there are none
\* or each of the answers that came back made its holding worthless.  No failed lookup alone
\* makes it zero.
THEOREM OutagesAlwaysShow == Spec => []OutagesShowAsUnknown
<1>1. FiguresIInv => OutagesShowAsUnknown
  BY ListEntryTells DEF OutagesShowAsUnknown
<1> QED BY <1>1, FiguresTyping, PTL

\* A history has finitely many months with a return.
LEMMA MonthsAreFinite ==
  ASSUME NEW H, IsFiniteSet(H)
  PROVE  IsFiniteSet(ReturnMonths(H))
<1> DEFINE U == Usable(H)
           f == [c \in U |-> MonthKey(c.day)]
<1>1. IsFiniteSet(U)
  BY FS_Subset DEF Usable
<1>2. ReturnMonths(H) \subseteq {f[c] : c \in U}
  BY DEF ReturnMonths
<1>3. IsFiniteSet({f[c] : c \in U})
  <2> HIDE DEF f, U
  <2> QED BY <1>1, ImageIsFinite
<1> HIDE DEF f, U
<1> QED BY <1>2, <1>3, FS_Subset

\* More months in common need more months of each.
LEMMA SharedMonthsSuffice ==
  ASSUME NEW used, NEW history, NEW x \in used, IsFiniteSet(history[x]),
         HasVolatility(SharedMonths(used, history))
  PROVE  HasVolatility(ReturnMonths(history[x]))
<1> DEFINE S == SharedMonths(used, history)
           R == ReturnMonths(history[x])
<1>1. S \subseteq R
  BY DEF SharedMonths
<1>2. IsFiniteSet(R)
  BY MonthsAreFinite
<1>3. Cardinality(S) >= MinVolatilityMonths
  BY DEF HasVolatility
<1> HIDE DEF S, R
<1>4. IsFiniteSet(S) /\ Cardinality(S) <= Cardinality(R) /\ Cardinality(S) \in Nat /\ Cardinality(R) \in Nat
  BY <1>1, <1>2, FS_Subset, FS_CardinalityType
<1>5. Cardinality(R) >= MinVolatilityMonths
  BY <1>3, <1>4, Thresholds
<1> QED BY <1>5 DEF HasVolatility, R

\* A quotient lies between two numbers if the dividend does between their products.
LEMMA QuotientBetween ==
  ASSUME NEW n \in Int, NEW d \in Nat \ {0}, NEW lo \in Int, NEW hi \in Int,
         d * lo <= n, n <= d * hi
  PROVE  lo <= RoundedQuotient(n, d) /\ RoundedQuotient(n, d) <= hi
<1> DEFINE q == RoundedQuotient(n, d)
<1>1. q \in Int /\ 2 * n - d <= 2 * (d * q) /\ 2 * (d * q) <= 2 * n + d
  BY RoundedQuotientBounds
<1> HIDE DEF q
<1>2. lo <= q
  <2> SUFFICES ASSUME q <= lo - 1 PROVE FALSE
    BY <1>1
  <2>1. d * q <= d * (lo - 1)
    BY <1>1
  <2>2. d * (lo - 1) = d * lo - d
    OBVIOUS
  <2>3. d * q \in Int /\ d * lo \in Int
    BY <1>1
  <2> QED BY <1>1, <2>1, <2>2, <2>3
<1>3. q <= hi
  <2> SUFFICES ASSUME q >= hi + 1 PROVE FALSE
    BY <1>1
  <2>1. d * q >= d * (hi + 1)
    BY <1>1
  <2>2. d * (hi + 1) = d * hi + d
    OBVIOUS
  <2>3. d * q \in Int /\ d * hi \in Int
    BY <1>1
  <2> QED BY <1>1, <2>1, <2>2, <2>3
<1> QED BY <1>2, <1>3 DEF q

\* The mean by positive weights lies between the least and the greatest.
LEMMA WeightedLiesBetween ==
  ASSUME NEW used, IsFiniteSet(used), used # {}, NEW all,
         NEW figure, \A s \in used : figure[s] \in Int,
         NEW worth, \A s \in used : worth[s] \in Nat \ {0}
  PROVE  \E lo, hi \in used : /\ figure[lo] <= Weighted(figure, worth, used, all)
                              /\ Weighted(figure, worth, used, all) <= figure[hi]
<1> DEFINE f == [s \in used |-> worth[s] * figure[s]]
           w == [s \in used |-> worth[s]]
           n == SumFunctionOnSet(f, used)
           d == SumFunctionOnSet(w, used)
<1>1. SumFunction(f) = n /\ SumFunction(w) = d
  <2>1. DOMAIN f = used /\ DOMAIN w = used
    OBVIOUS
  <2> HIDE DEF f, w
  <2> QED BY <2>1, SumOver
<1>2. Weighted(figure, worth, used, all) = RoundedQuotient(n, d)
  BY <1>1 DEF Weighted
<1>3. \A s \in used : f[s] = w[s] * figure[s] /\ w[s] \in Nat \ {0}
  OBVIOUS
<1> HIDE DEF f, w
<1>4. \A s \in used : f[s] \in Int /\ w[s] \in Nat /\ w[s] \in Int
  <2> SUFFICES ASSUME NEW s \in used PROVE f[s] \in Int /\ w[s] \in Nat /\ w[s] \in Int
    OBVIOUS
  <2>1. w[s] \in Int /\ figure[s] \in Int /\ f[s] = w[s] * figure[s] /\ w[s] \in Nat
    BY <1>3
  <2> QED BY <2>1
<1>5. n \in Int
  BY <1>4, SumIsInt
<1>6. d \in Nat \ {0}
  <2>1. PICK s \in used : TRUE
    OBVIOUS
  <2>2. w[s] > 0
    BY <1>3
  <2>3. d \in Nat /\ d > 0
    BY <1>4, <2>2, SumPositive
  <2> QED BY <2>3
<1>7. PICK lo \in used : \A s \in used : figure[lo] <= figure[s]
  BY LeastExists
<1>8. PICK hi \in used : \A s \in used : figure[s] <= figure[hi]
  BY GreatestExists
<1>9. figure[lo] \in Int /\ figure[hi] \in Int
  OBVIOUS
<1>10. d * figure[lo] <= n
  <2> DEFINE k == figure[lo]
             g == [s \in used |-> k * w[s]]
  <2>1. \A s \in used : g[s] = k * w[s]
    OBVIOUS
  <2>2. k \in Int /\ \A s \in used : k <= figure[s]
    BY <1>7, <1>9
  <2> HIDE DEF k, g
  <2>3. \A s \in used : w[s] \in Int /\ g[s] = k * w[s]
    BY <1>4, <2>1
  <2>4. SumFunctionOnSet(g, used) = k * d
    BY <2>2, <2>3, SumScaled
  <2>5. \A s \in used : g[s] \in Int /\ f[s] \in Int /\ g[s] <= f[s]
    <3> SUFFICES ASSUME NEW s \in used PROVE g[s] \in Int /\ f[s] \in Int /\ g[s] <= f[s]
      OBVIOUS
    <3>1. /\ w[s] \in Nat /\ figure[s] \in Int /\ f[s] = w[s] * figure[s]
          /\ g[s] = k * w[s] /\ k <= figure[s]
      BY <1>3, <2>1, <2>2
    <3>2. w[s] * k <= w[s] * figure[s]
      BY <2>2, <3>1, ScaleBoth
    <3> QED BY <2>2, <3>1, <3>2
  <2>6. SumFunctionOnSet(g, used) <= n
    BY <2>5, SumAtMost
  <2> QED BY <1>6, <2>2, <2>4, <2>6 DEF k
<1>11. n <= d * figure[hi]
  <2> DEFINE k == figure[hi]
             g == [s \in used |-> k * w[s]]
  <2>1. \A s \in used : g[s] = k * w[s]
    OBVIOUS
  <2>2. k \in Int /\ \A s \in used : figure[s] <= k
    BY <1>8, <1>9
  <2> HIDE DEF k, g
  <2>3. \A s \in used : w[s] \in Int /\ g[s] = k * w[s]
    BY <1>4, <2>1
  <2>4. SumFunctionOnSet(g, used) = k * d
    BY <2>2, <2>3, SumScaled
  <2>5. \A s \in used : f[s] \in Int /\ g[s] \in Int /\ f[s] <= g[s]
    <3> SUFFICES ASSUME NEW s \in used PROVE f[s] \in Int /\ g[s] \in Int /\ f[s] <= g[s]
      OBVIOUS
    <3>1. /\ w[s] \in Nat /\ figure[s] \in Int /\ f[s] = w[s] * figure[s]
          /\ g[s] = k * w[s] /\ figure[s] <= k
      BY <1>3, <2>1, <2>2
    <3>2. w[s] * figure[s] <= w[s] * k
      BY <2>2, <3>1, ScaleBoth
    <3> QED BY <2>2, <3>1, <3>2
  <2>6. n <= SumFunctionOnSet(g, used)
    BY <2>5, SumAtMost
  <2> QED BY <1>6, <2>2, <2>4, <2>6 DEF k
<1> HIDE DEF n, d
<1>12. figure[lo] <= RoundedQuotient(n, d) /\ RoundedQuotient(n, d) <= figure[hi]
  <2> DEFINE a == figure[lo]
             b == figure[hi]
  <2>1. a \in Int /\ b \in Int /\ d * a <= n /\ n <= d * b
    BY <1>9, <1>10, <1>11
  <2> HIDE DEF a, b
  <2>2. a <= RoundedQuotient(n, d) /\ RoundedQuotient(n, d) <= b
    BY <1>5, <1>6, <2>1, QuotientBetween
  <2> QED BY <2>2 DEF a, b
<1> QED BY <1>2, <1>12

\* The value of one open holding with a price.
LEMMA WorthIsPositive ==
  ASSUME NEW open, IsFiniteSet(open),
         \A h \in open : h.shares \in Nat \ {0},
         NEW prices, \A s \in DOMAIN prices : prices[s] \in Nat \ {0},
         NEW h \in open, h.symbol \in DOMAIN prices
  PROVE  PositionsValue({k \in open : k.symbol = h.symbol}, prices) \in Nat \ {0}
<1> DEFINE K == {k \in {k \in open : k.symbol = h.symbol} : k.symbol \in DOMAIN prices}
           f == [k \in K |-> k.shares * prices[k.symbol]]
<1>1. PositionsValue({k \in open : k.symbol = h.symbol}, prices) = SumFunction(f)
  BY DEF PositionsValue
<1>2. SumFunction(f) = SumFunctionOnSet(f, K)
  <2>1. DOMAIN f = K
    OBVIOUS
  <2> HIDE DEF f, K
  <2> QED BY <2>1, SumOver
<1>3. IsFiniteSet(K) /\ h \in K
  BY FS_Subset
<1>4. \A k \in K : f[k] \in Nat /\ f[k] > 0
  <2> SUFFICES ASSUME NEW k \in K PROVE f[k] \in Nat /\ f[k] > 0
    OBVIOUS
  <2>1. f[k] = k.shares * prices[k.symbol]
    OBVIOUS
  <2>2. k.shares \in Nat \ {0} /\ prices[k.symbol] \in Nat \ {0}
    OBVIOUS
  <2> HIDE DEF f
  <2>3. f[k] \in Nat \ {0}
    BY <2>1, <2>2, ProductPositive
  <2> QED BY <2>3
<1> HIDE DEF f, K
<1>5. SumFunctionOnSet(f, K) \in Nat /\ SumFunctionOnSet(f, K) > 0
  BY <1>3, <1>4, SumPositive
<1> QED BY <1>1, <1>2, <1>5

\* What a suggestion says of the holdings of a portfolio.
LEMMA SuggestionTells ==
  ASSUME FiguresIInv, NEW p \in Portfolios
  PROVE  LET s    == SuggestedReturn(Holdings(ledger), p, market.quotes, market.history, Today)
             used == DOMAIN s.rates
         IN  /\ DOMAIN s.skipped \union used = DistinctSymbols(Open(OfPortfolio(Holdings(ledger), p)))
             /\ \A x \in DOMAIN s.skipped : s.skipped[x] \in Reasons
             /\ s.available <=> used # {}
             /\ s.available => \E lo, hi \in used : s.rates[lo] <= s.annual /\ s.annual <= s.rates[hi]
             /\ s.volatility => \A x \in used : HasVolatility(ReturnMonths(market.history[x]))
<1> DEFINE quotes  == market.quotes
           history == market.history
           open    == Open(OfPortfolio(Holdings(ledger), p))
           symbols == DistinctSymbols(open)
           prices  == FetchQuotePrices(quotes, symbols)
           verdict == [s \in symbols |-> Verdict(s, prices, history)]
           used    == {s \in symbols : verdict[s] = "used"}
           priced  == symbols \intersect DOMAIN prices
           worth   == [s \in priced |-> PositionsValue({h \in open : h.symbol = s}, prices)]
           rate    == [s \in used |-> Cagr(history[s])]
           skipped == [s \in symbols \ used |-> verdict[s]]
           S       == SuggestedReturn(Holdings(ledger), p, market.quotes, market.history, Today)
<1>1. /\ S.skipped = skipped /\ S.rates = rate /\ S.available = (used # {})
      /\ S.annual = IF used = {} THEN Unavailable ELSE Weighted(rate, worth, used, priced)
      /\ S.volatility = (used # {} /\ HasVolatility(SharedMonths(used, history)))
  BY DEF SuggestedReturn
<1>2. Recorded(ledger) /\ market \in Markets
  BY DEF FiguresIInv
<1>3. /\ IsFiniteSet(open)
      /\ \A h \in open : h.symbol \in Symbols /\ h.shares \in Nat \ {0}
  BY <1>2, OpenTyped
<1>4. symbols \subseteq Symbols /\ IsFiniteSet(symbols)
  <2>1. symbols \subseteq Symbols
    BY <1>3 DEF DistinctSymbols
  <2> QED BY <2>1, RecordedRows, FS_Subset
<1>5. DOMAIN prices \subseteq symbols /\ \A s \in DOMAIN prices : prices[s] \in Nat \ {0}
  <2>1. \A s \in DOMAIN prices : s \in symbols /\ prices[s] = quotes[s] /\ quotes[s] # Unavailable /\ quotes[s] > 0
    BY DEF FetchQuotePrices
  <2>2. \A s \in Symbols : quotes[s] = Unavailable \/ quotes[s] \in Nat
    BY <1>2, ProvidedPrices
  <2> HIDE DEF prices, symbols, quotes
  <2> QED BY <1>4, <2>1, <2>2
<1>6. DOMAIN skipped = symbols \ used /\ DOMAIN rate = used /\ used \subseteq symbols
  OBVIOUS
<1>7. ASSUME NEW s \in symbols
      PROVE  /\ verdict[s] \in Reasons \union {"used"}
             /\ verdict[s] = "used" =>
                   s \in DOMAIN prices /\ ~Failed(history[s]) /\ Annualises(history[s])
  <2>1. verdict[s] = Verdict(s, prices, history)
    OBVIOUS
  <2> HIDE DEF verdict, prices, symbols, history
  <2>2. CASE s \notin DOMAIN prices
    BY <2>1, <2>2 DEF Verdict, Reasons
  <2>3. CASE s \in DOMAIN prices /\ Failed(history[s])
    BY <2>1, <2>3 DEF Verdict, Reasons, Failed
  <2>4. CASE s \in DOMAIN prices /\ ~Failed(history[s])
    BY <2>1, <2>4 DEF Verdict, Reasons, Failed
  <2> QED BY <2>2, <2>3, <2>4
<1>8. ASSUME NEW s \in used
      PROVE  /\ s \in Symbols /\ s \in DOMAIN prices
             /\ ~Failed(history[s]) /\ Annualises(history[s])
             /\ rate[s] \in Int /\ IsFiniteSet(history[s])
  <2>1. s \in symbols /\ verdict[s] = "used" /\ rate[s] = Cagr(history[s])
    OBVIOUS
  <2>2. s \in Symbols /\ s \in DOMAIN prices /\ ~Failed(history[s]) /\ Annualises(history[s])
    <3> HIDE DEF verdict, prices, symbols, history, used, rate
    <3> QED BY <1>4, <1>7, <2>1
  <2>3. IsFiniteSet(history[s]) /\ Cagr(history[s]) \in Int
    BY <1>2, <2>2, ProvidedPrices
  <2> HIDE DEF verdict, prices, symbols, history, used, rate
  <2> QED BY <2>1, <2>2, <2>3
<1>9. ASSUME NEW s \in used PROVE worth[s] \in Nat \ {0}
  <2>1. s \in symbols /\ s \in DOMAIN prices
    BY <1>6, <1>8
  <2>2. worth[s] = PositionsValue({h \in open : h.symbol = s}, prices)
    BY <2>1
  <2>3. PICK h \in open : h.symbol = s
    BY <2>1 DEF DistinctSymbols
  <2> HIDE DEF worth, used, symbols, prices, open
  <2>4. h.symbol \in DOMAIN prices
    BY <2>1, <2>3
  <2>5. PositionsValue({k \in open : k.symbol = h.symbol}, prices) \in Nat \ {0}
    BY <1>3, <1>5, <2>4, WorthIsPositive
  <2> QED BY <2>2, <2>3, <2>5
<1>10. IsFiniteSet(used)
  BY <1>4, <1>6, FS_Subset
<1> HIDE DEF quotes, history, open, symbols, prices, verdict, used, priced, worth, rate, skipped, S
<1>11. DOMAIN S.skipped \union DOMAIN S.rates = symbols
  BY <1>1, <1>6
<1>12. ASSUME NEW x \in DOMAIN S.skipped PROVE S.skipped[x] \in Reasons
  <2>1. x \in symbols /\ x \notin used
    BY <1>1, <1>6
  <2>2. skipped[x] = verdict[x] /\ verdict[x] # "used"
    BY <2>1 DEF skipped, used
  <2> QED BY <1>1, <1>7, <2>1, <2>2
<1>13. S.available <=> used # {}
  BY <1>1
<1>14. ASSUME S.available
       PROVE  \E lo, hi \in used : S.rates[lo] <= S.annual /\ S.annual <= S.rates[hi]
  <2>1. used # {}
    BY <1>13, <1>14
  <2>2. S.annual = Weighted(rate, worth, used, priced)
    BY <1>1, <2>1
  <2>3. \E lo, hi \in used : /\ rate[lo] <= Weighted(rate, worth, used, priced)
                             /\ Weighted(rate, worth, used, priced) <= rate[hi]
    BY <2>1, <1>8, <1>9, <1>10, WeightedLiesBetween
  <2> QED BY <1>1, <2>2, <2>3
<1>15. ASSUME S.volatility, NEW x \in used
       PROVE  HasVolatility(ReturnMonths(history[x]))
  <2>1. HasVolatility(SharedMonths(used, history))
    BY <1>1, <1>15
  <2>2. IsFiniteSet(history[x])
    BY <1>8
  <2> QED BY <2>1, <2>2, SharedMonthsSuffice
<1>16. DOMAIN S.rates = used
  BY <1>1, <1>6
<1>17. /\ DOMAIN S.skipped \union DOMAIN S.rates = symbols
       /\ \A x \in DOMAIN S.skipped : S.skipped[x] \in Reasons
       /\ S.available <=> DOMAIN S.rates # {}
       /\ S.available => \E lo, hi \in DOMAIN S.rates : S.rates[lo] <= S.annual /\ S.annual <= S.rates[hi]
       /\ S.volatility => \A x \in DOMAIN S.rates : HasVolatility(ReturnMonths(history[x]))
  BY <1>11, <1>12, <1>13, <1>14, <1>15, <1>16
<1> QED BY <1>17 DEF S, symbols, open, history

\* For any ledger, any histories and any rates, a suggestion uses or explains every open holding
\* and stays between the rates it uses.
THEOREM SuggestionsAddUp == Spec => []SuggestionIsAccountedFor
<1>1. FiguresIInv => SuggestionIsAccountedFor
  BY SuggestionTells DEF SuggestionIsAccountedFor
<1> QED BY <1>1, FiguresTyping, PTL

\* What each row adds to the shares held.
NetOf(L) == [i \in Stored(L) |-> Signed(L[i], L[i].quantity)]

\* The net quantity of some rows is a sum over them.
LEMMA NetIsSum ==
  ASSUME NEW L, FiniteLedger(L), NEW T \in SUBSET Stored(L)
  PROVE  /\ IsFiniteSet(T) /\ \A i \in T : NetOf(L)[i] \in Int
         /\ NetQuantity(L, T) = SumFunctionOnSet(NetOf(L), T)
         /\ NetQuantity(L, T) \in Int
<1> DEFINE N == NetOf(L)
           f == [i \in T |-> Signed(L[i], L[i].quantity)]
<1>1. IsFiniteSet(T)
  BY FS_Subset DEF FiniteLedger
<1>2. \A i \in T : N[i] \in Int /\ f[i] = N[i]
  BY RowsTyped DEF FiniteLedger, NetOf, Signed
<1>3. NetQuantity(L, T) = SumFunctionOnSet(f, T)
  <2>1. NetQuantity(L, T) = SumFunction(f) /\ DOMAIN f = T
    BY DEF NetQuantity
  <2> HIDE DEF f
  <2> QED BY <2>1, SumOver
<1> HIDE DEF f, N
<1>4. SumFunctionOnSet(f, T) = SumFunctionOnSet(N, T) /\ SumFunctionOnSet(N, T) \in Int
  BY <1>1, <1>2, SumsSame, SumIsInt
<1> QED BY <1>1, <1>2, <1>3, <1>4 DEF N

\* No rows, no shares.
LEMMA NetOfNothing ==
  ASSUME NEW L
  PROVE  NetQuantity(L, {}) = 0
<1> DEFINE f == [i \in {} |-> Signed(L[i], L[i].quantity)]
<1>1. NetQuantity(L, {}) = SumFunction(f) /\ DOMAIN f = {}
  BY DEF NetQuantity
<1> HIDE DEF f
<1>2. SumFunction(f) = SumFunctionOnSet(f, {})
  BY <1>1, SumOver
<1> QED BY <1>1, <1>2, SumEmpty

\* A row more adds its signed quantity.
LEMMA NetOfOneMore ==
  ASSUME NEW L, FiniteLedger(L), NEW T \in SUBSET Stored(L), NEW x \in T
  PROVE  /\ NetQuantity(L, T) = NetQuantity(L, T \ {x}) + Signed(L[x], L[x].quantity)
         /\ Signed(L[x], L[x].quantity) \in Int
<1> DEFINE N == NetOf(L)
<1>1. N[x] = Signed(L[x], L[x].quantity)
  BY DEF NetOf
<1> HIDE DEF N
<1>2. /\ IsFiniteSet(T) /\ \A i \in T : N[i] \in Int
      /\ NetQuantity(L, T) = SumFunctionOnSet(N, T)
  BY NetIsSum DEF N
<1>3. NetQuantity(L, T \ {x}) = SumFunctionOnSet(N, T \ {x})
  <2>1. T \ {x} \in SUBSET Stored(L)
    OBVIOUS
  <2> QED BY <2>1, NetIsSum DEF N
<1> QED BY <1>1, <1>2, <1>3, SumRemove

\* The net quantity is what was bought less what was sold.
LEMMA NetIsBoughtLessSold ==
  ASSUME NEW L, FiniteLedger(L), NEW T \in SUBSET Stored(L)
  PROVE  NetQuantity(L, T) = Bought(L, T) - Sold(L, T)
<1> DEFINE Bad == {s \in SUBSET T : NetQuantity(L, s) # Bought(L, s) - Sold(L, s)}
<1> SUFFICES ASSUME Bad # {} PROVE FALSE
  OBVIOUS
<1>1. PICK s \in Bad : \A r \in Bad : ~ (r \subseteq s /\ r # s)
  <2>1. Bad \subseteq SUBSET T /\ IsFiniteSet(T)
    BY NetIsSum
  <2> HIDE DEF Bad
  <2> QED BY <2>1, SmallestSubset
<1>2. s # {}
  <2> SUFFICES ASSUME s = {} PROVE FALSE
    OBVIOUS
  <2>1. Sells(L, s) = {} /\ Buys(L, s) = {}
    BY DEF Sells, Buys
  <2>2. Sold(L, s) = 0 /\ Bought(L, s) = 0
    BY <2>1, SumEmpty DEF Sold, Bought
  <2>3. NetQuantity(L, s) = 0
    BY NetOfNothing
  <2> QED BY <2>2, <2>3
<1>3. PICK x \in s : TRUE
  BY <1>2
<1> DEFINE p == s \ {x}
<1>4. s \in SUBSET Stored(L) /\ p \in SUBSET Stored(L) /\ x \in Stored(L) /\ p \subseteq s /\ p # s
  OBVIOUS
<1>5. NetQuantity(L, p) = Bought(L, p) - Sold(L, p)
  BY <1>1, <1>4
<1>6. /\ NetQuantity(L, s) = NetQuantity(L, p) + Signed(L[x], L[x].quantity)
      /\ Signed(L[x], L[x].quantity) \in Int
  BY <1>4, NetOfOneMore
<1>7. /\ L[x].side = "buy" => /\ Bought(L, s) = Bought(L, p) + L[x].quantity
                              /\ Sold(L, s) = Sold(L, p)
      /\ L[x].side = "sell" => /\ Sold(L, s) = Sold(L, p) + L[x].quantity
                               /\ Bought(L, s) = Bought(L, p)
  BY <1>4, OneMoreRow
<1>8. Bought(L, p) \in Nat /\ Sold(L, p) \in Nat
  BY <1>4, SoldBought
<1>9. L[x].side \in {"buy", "sell"} /\ L[x].quantity \in Nat
  BY <1>4, RowsTyped DEF FiniteLedger
<1> HIDE DEF p
<1>10. NetQuantity(L, s) = Bought(L, s) - Sold(L, s)
  BY <1>5, <1>6, <1>7, <1>8, <1>9 DEF Signed
<1> QED BY <1>10

\* T holds, with a row, the rows of S before it.
Closed(L, T, S) == \A i \in T, j \in S : TransactionBefore(L, j, i) => j \in T

\* No beginning of a ledger that replays sells more than it buys.
LEMMA BeginningsAreCovered ==
  ASSUME NEW L, FiniteLedger(L), Replays(L), NEW T \in SUBSET Stored(L), Closed(L, T, Stored(L))
  PROVE  NetQuantity(L, T) \in Nat
<1> DEFINE S == Stored(L)
<1>1. NetQuantity(L, T) = Bought(L, T) - Sold(L, T) /\ Bought(L, T) \in Nat /\ Sold(L, T) \in Nat
  BY NetIsBoughtLessSold, SoldBought
<1>2. CASE Sells(L, T) = {}
  <2>1. Sold(L, T) = 0
    BY <1>2, SumEmpty DEF Sold
  <2> QED BY <1>1, <2>1
<1>3. CASE Sells(L, T) # {}
  <2>1. Sells(L, T) \in SUBSET S
    BY DEF Sells
  <2>2. PICK m : IsLast(L, Sells(L, T), m)
    BY <1>3, <2>1, LastExists
  <2>3. m \in Sells(L, S) /\ m \in T
    BY <2>2 DEF IsLast, Sells
  <2>4. PICK g : IsPrefixWalk(L, g)
    BY WalkTable
  <2>5. WalkIsExact(L, g, S) /\ g[S] = Walk(L)
    BY <2>4, ExactWalk DEF IsPrefixWalk
  <2> DEFINE P == Through(L, S, m)
  <2>6. Sold(L, P) <= Bought(L, P)
    BY <2>3, <2>5 DEF WalkIsExact, Replays
  <2>7. P \in SUBSET S /\ P \subseteq T
    BY <2>3 DEF Through, Closed
  <2>8. Sells(L, T) \subseteq P /\ Buys(L, P) \subseteq T
    BY <2>2, <2>7 DEF IsLast, Through, Sells, Buys
  <2>9. Sold(L, T) <= Sold(L, P) /\ Bought(L, P) <= Bought(L, T)
    BY <2>7, <2>8, FewerRows
  <2>10. Sold(L, P) \in Nat /\ Bought(L, P) \in Nat
    BY <2>7, SoldBought
  <2> HIDE DEF P
  <2> QED BY <1>1, <2>6, <2>9, <2>10
<1> QED BY <1>2, <1>3

\* The holdings of a ledger replay.
AllReplay(L) == \A p \in Portfolios, s \in Symbols : Replays(Of(L, p, s))

\* The same rows in another ledger have the same net quantity.
LEMMA SameNet ==
  ASSUME NEW L, FiniteLedger(L), NEW M, FiniteLedger(M),
         NEW T \in SUBSET Stored(L), T \subseteq Stored(M), \A i \in T : L[i] = M[i]
  PROVE  NetQuantity(L, T) = NetQuantity(M, T)
<1>1. \A i \in T : NetOf(L)[i] = NetOf(M)[i]
  BY DEF NetOf
<1>2. /\ IsFiniteSet(T) /\ \A i \in T : NetOf(L)[i] \in Int
      /\ NetQuantity(L, T) = SumFunctionOnSet(NetOf(L), T)
      /\ NetQuantity(M, T) = SumFunctionOnSet(NetOf(M), T)
  BY NetIsSum
<1> DEFINE f == NetOf(L)
           g == NetOf(M)
<1> HIDE DEF f, g
<1>3. SumFunctionOnSet(f, T) = SumFunctionOnSet(g, T)
  BY <1>1, <1>2, SumsSame DEF f, g
<1> QED BY <1>2, <1>3 DEF f, g

\* A symbol's net quantity is what its holdings add up to.
LEMMA NetByPortfolio ==
  ASSUME NEW L, Recorded(L), NEW s \in Symbols, NEW T \in SUBSET OfSymbol(L, s),
         NEW g, \A p \in Portfolios :
                   g[p] = NetQuantity(Of(L, p, s), {i \in T : L[i].portfolio = p})
  PROVE  NetQuantity(L, T) = SumFunctionOnSet(g, Portfolios)
<1> DEFINE f == NetOf(L)
           key == [i \in T |-> L[i].portfolio]
<1>1. FiniteLedger(L) /\ T \in SUBSET Stored(L)
  BY RecordedIsFinite DEF OfSymbol
<1>2. /\ IsFiniteSet(T) /\ \A i \in T : f[i] \in Int
      /\ NetQuantity(L, T) = SumFunctionOnSet(f, T)
  BY <1>1, NetIsSum
<1>3. \A i \in T : key[i] = L[i].portfolio /\ key[i] \in Portfolios
  BY <1>1, RecordedFields
<1>4. ASSUME NEW p \in Portfolios
      PROVE  g[p] = SumFunctionOnSet(f, {i \in T : key[i] = p})
  <2> DEFINE Tp == {i \in T : L[i].portfolio = p}
             M == Of(L, p, s)
  <2>1. Tp = {i \in T : key[i] = p}
    BY <1>3
  <2>2. Recorded(M) /\ Stored(M) = {i \in Stored(L) : L[i].portfolio = p /\ L[i].symbol = s}
        /\ \A i \in Stored(M) : M[i] = L[i]
    BY HoldingPart
  <2>3. Tp \subseteq Stored(M) /\ Tp \in SUBSET Stored(L) /\ FiniteLedger(M)
    BY <2>2, RecordedIsFinite DEF OfSymbol
  <2>4. g[p] = NetQuantity(M, Tp)
    OBVIOUS
  <2> HIDE DEF M, Tp, key, f
  <2>5. \A i \in Tp : L[i] = M[i]
    BY <2>2, <2>3
  <2>6. NetQuantity(L, Tp) = NetQuantity(M, Tp)
    BY <1>1, <2>3, <2>5, SameNet
  <2>7. NetQuantity(L, Tp) = SumFunctionOnSet(f, Tp)
    BY <1>1, <2>3, NetIsSum DEF f
  <2> QED BY <2>1, <2>4, <2>6, <2>7
<1> HIDE DEF f, key
<1>5. GroupedBy(key, f, g, T, Portfolios)
  BY <1>4 DEF GroupedBy
<1>6. SumFunctionOnSet(f, T) = SumFunctionOnSet(g, Portfolios)
  <2>1. \A i \in T : key[i] \in Portfolios
    BY <1>3
  <2> QED BY <1>2, <1>5, <2>1, RecordedRows, SumGrouped
<1> QED BY <1>2, <1>6

\* At every point of the ledger the shares of a symbol are not negative.
LEMMA SharesAreCovered ==
  ASSUME NEW L, Recorded(L), AllReplay(L), NEW s \in Symbols,
         NEW T \in SUBSET OfSymbol(L, s), Closed(L, T, OfSymbol(L, s))
  PROVE  NetQuantity(L, T) \in Nat
<1> DEFINE g == [p \in Portfolios |-> NetQuantity(Of(L, p, s), {i \in T : L[i].portfolio = p})]
<1>1. ASSUME NEW p \in Portfolios PROVE g[p] \in Nat
  <2> DEFINE Tp == {i \in T : L[i].portfolio = p}
             M == Of(L, p, s)
  <2>1. Recorded(M) /\ Stored(M) = {i \in Stored(L) : L[i].portfolio = p /\ L[i].symbol = s}
        /\ \A i \in Stored(M) : M[i] = L[i]
    BY HoldingPart
  <2>2. g[p] = NetQuantity(M, Tp)
    OBVIOUS
  <2>3. Replays(M)
    BY DEF AllReplay
  <2>4. \A i \in OfSymbol(L, s) : i \in Stored(L) /\ L[i].symbol = s
    BY DEF OfSymbol
  <2>5. Tp \in SUBSET Stored(M)
    BY <2>1, <2>4
  <2> HIDE DEF M
  <2>6. ASSUME NEW i \in Tp, NEW j \in Stored(M), TransactionBefore(M, j, i) PROVE j \in Tp
    <3>1. M[i] = L[i] /\ M[j] = L[j] /\ j \in OfSymbol(L, s) /\ L[j].portfolio = p
      BY <2>1, <2>5 DEF OfSymbol
    <3>2. TransactionBefore(L, j, i)
      BY <2>6, <3>1 DEF TransactionBefore
    <3> QED BY <3>1, <3>2 DEF Closed
  <2>7. Closed(M, Tp, Stored(M))
    BY <2>6 DEF Closed
  <2> HIDE DEF Tp, g
  <2>8. NetQuantity(M, Tp) \in Nat
    BY <2>1, <2>3, <2>5, <2>7, RecordedIsFinite, BeginningsAreCovered
  <2> QED BY <2>2, <2>8
<1>2. \A p \in Portfolios : g[p] = NetQuantity(Of(L, p, s), {i \in T : L[i].portfolio = p})
  OBVIOUS
<1> HIDE DEF g
<1>3. NetQuantity(L, T) = SumFunctionOnSet(g, Portfolios)
  BY <1>2, NetByPortfolio
<1>4. SumFunctionOnSet(g, Portfolios) \in Nat
  BY <1>1, RecordedRows, SumIsNat
<1> QED BY <1>3, <1>4

\* The recursion behind SharesOn.
ShareStep(L, g, T) ==
  IF T = {} THEN 0 ELSE ApplyRow(L[LastRow(L, T)], g[T \ {LastRow(L, T)}])

IsShareWalk(L, g, S) == g = [T \in SUBSET S |-> ShareStep(L, g, T)]

\* The rows of a symbol dated up to a day.
Upto(L, s, d) == {i \in OfSymbol(L, s) : L[i].day <= d}

\* The shares of a day are the last value of the walk over the rows up to it.
LEMMA SharesUnfold ==
  ASSUME NEW w, NEW s, NEW d
  PROVE  SharesOn(w, s, d) =
           (CHOOSE g : IsShareWalk(w.ledger, g, Upto(w.ledger, s, d)))[Upto(w.ledger, s, d)]
BY DEF SharesOn, MapThenFoldSet, IsShareWalk, ShareStep, Upto

\* There is such a walk over any rows.
LEMMA ShareWalkExists ==
  ASSUME NEW L, FiniteLedger(L), NEW S \in SUBSET Stored(L)
  PROVE  \E g : IsShareWalk(L, g, S)
<1> DEFINE pick == [T \in (SUBSET S) \ {{}} |-> LastRow(L, T)]
           step == [p \in S \X Int |-> ApplyRow(L[p[1]], p[2])]
<1>1. Picks(pick, S)
  <2>1. \A T \in (SUBSET S) \ {{}} : pick[T] \in T
    BY LastRowIsLast DEF IsLast
  <2>2. \A T \in (SUBSET S) \ {{}} : pick[T] \in S
    BY <2>1
  <2>3. pick \in [(SUBSET S) \ {{}} -> S]
    BY <2>2
  <2> QED BY <2>1, <2>3 DEF Picks
<1>2. step \in [S \X Int -> Int]
  <2> SUFFICES ASSUME NEW i \in S, NEW n \in Int PROVE ApplyRow(L[i], n) \in Int
    OBVIOUS
  <2>1. L[i].quantity \in Nat
    BY RowsTyped DEF FiniteLedger
  <2> QED BY <2>1 DEF ApplyRow, Signed
<1>3. 0 \in Int /\ IsFiniteSet(S)
  BY FS_Subset DEF FiniteLedger
<1>4. PICK g \in [SUBSET S -> Int] : FoldsOver(g, S, 0, pick, step)
  <2> DEFINE V == Int
             base == 0
  <2>1. base \in V /\ step \in [S \X V -> V]
    BY <1>2
  <2> HIDE DEF pick, step, V, base
  <2>2. \E g \in [SUBSET S -> V] : FoldsOver(g, S, base, pick, step)
    BY <1>1, <1>3, <2>1, TypedFoldExists
  <2> QED BY <2>2 DEF V, base
<1>5. ASSUME NEW T \in SUBSET S PROVE g[T] = ShareStep(L, g, T)
  <2>1. CASE T = {}
    BY <2>1, <1>4 DEF FoldsOver, ShareStep
  <2>2. CASE T # {}
    <3>1. g[T] = step[<<pick[T], g[Rest(pick, T)]>>]
      BY <1>4, <2>2 DEF FoldsOver
    <3>2. pick[T] = LastRow(L, T)
      BY <2>2
    <3>3. pick[T] \in S
      BY <1>1, <2>2 DEF Picks
    <3>4. Rest(pick, T) \in SUBSET S
      BY DEF Rest
    <3>5. g[Rest(pick, T)] \in Int
      BY <3>4
    <3>6. step[<<pick[T], g[Rest(pick, T)]>>] = ApplyRow(L[pick[T]], g[Rest(pick, T)])
      <4> HIDE DEF pick
      <4> QED BY <3>3, <3>5
    <3> QED BY <3>1, <3>2, <3>6, <2>2 DEF ShareStep, Rest
  <2> QED BY <2>1, <2>2
<1>6. IsShareWalk(L, g, S)
  <2>1. g = [T \in SUBSET S |-> g[T]]
    OBVIOUS
  <2> QED BY <2>1, <1>5 DEF IsShareWalk
<1> QED BY <1>6

\* Where the ledger replays, the clamp of apply never bites: SharesOn is the net quantity.
LEMMA SharesAreNet ==
  ASSUME NEW w, Recorded(w.ledger), AllReplay(w.ledger), NEW s \in Symbols, NEW d \in Int
  PROVE  /\ SharesOn(w, s, d) = NetQuantity(w.ledger, Upto(w.ledger, s, d))
         /\ SharesOn(w, s, d) \in Nat
<1> DEFINE L == w.ledger
           S == Upto(L, s, d)
           A == OfSymbol(L, s)
           g == CHOOSE g : IsShareWalk(L, g, S)
<1>1. FiniteLedger(L) /\ IsLedger(L) /\ S \in SUBSET Stored(L) /\ S \subseteq A /\ A \subseteq Stored(L)
  BY RecordedIsFinite DEF Upto, OfSymbol, FiniteLedger
<1>2. Closed(L, S, A)
  <2> SUFFICES ASSUME NEW i \in S, NEW j \in A, TransactionBefore(L, j, i) PROVE j \in S
    BY DEF Closed
  <2>1. L[i].day \in Nat /\ L[j].day \in Nat /\ L[i].day <= d
    BY <1>1, RowsTyped DEF Upto
  <2>2. L[j].day <= L[i].day
    BY <2>1 DEF TransactionBefore
  <2> QED BY <2>1, <2>2 DEF Upto
<1>3. IsShareWalk(L, g, S) /\ SharesOn(w, s, d) = g[S]
  BY <1>1, ShareWalkExists, SharesUnfold
<1> HIDE DEF g
<1> DEFINE Bad == {T \in SUBSET S : Closed(L, T, A) /\ g[T] # NetQuantity(L, T)}
<1>4. Bad = {}
  <2> SUFFICES ASSUME Bad # {} PROVE FALSE
    OBVIOUS
  <2>1. PICK T \in Bad : \A r \in Bad : ~ (r \subseteq T /\ r # T)
    <3>1. Bad \subseteq SUBSET S /\ IsFiniteSet(S)
      BY <1>1, FS_Subset DEF FiniteLedger
    <3> HIDE DEF Bad, S
    <3> QED BY <3>1, SmallestSubset
  <2>2. g[T] = ShareStep(L, g, T) /\ T \in SUBSET Stored(L)
    BY <1>1, <1>3 DEF IsShareWalk
  <2>3. T # {}
    BY <2>1, <2>2, NetOfNothing DEF ShareStep
  <2> DEFINE x == LastRow(L, T)
             p == T \ {x}
  <2>4. IsLast(L, T, x)
    BY <1>1, <2>2, <2>3, LastRowIsLast
  <2>5. x \in T /\ p \in SUBSET S /\ p \subseteq T /\ p # T /\ x \in Stored(L)
    BY <1>1, <2>4 DEF IsLast
  <2>6. g[T] = ApplyRow(L[x], g[p])
    BY <2>2, <2>3 DEF ShareStep
  <2> HIDE DEF x
  <2>7. Closed(L, p, A)
    <3> SUFFICES ASSUME NEW i \in p, NEW j \in A, TransactionBefore(L, j, i) PROVE j \in p
      BY DEF Closed
    <3>1. j \in T
      BY <2>1 DEF Closed
    <3>2. j # x
      <4>1. TransactionBefore(L, i, x) /\ i \in Stored(L)
        BY <1>1, <2>4 DEF IsLast
      <4>2. ~ TransactionBefore(L, x, i)
        BY <1>1, <2>5, <4>1, OrderIsStrict
      <4> QED BY <4>2
    <3> QED BY <3>1, <3>2
  <2>8. g[p] = NetQuantity(L, p)
    BY <2>1, <2>5, <2>7
  <2>9. /\ NetQuantity(L, T) = NetQuantity(L, p) + Signed(L[x], L[x].quantity)
        /\ Signed(L[x], L[x].quantity) \in Int
    BY <1>1, <2>2, <2>5, NetOfOneMore
  <2>10. T \in SUBSET A /\ p \in SUBSET A /\ Closed(L, T, A)
    BY <1>1, <2>1
  <2> HIDE DEF p, S, A
  <2>11. NetQuantity(L, T) \in Nat /\ NetQuantity(L, p) \in Nat
    BY <2>7, <2>10, SharesAreCovered DEF A
  <2>12. g[T] = NetQuantity(L, T)
    BY <2>6, <2>8, <2>9, <2>11 DEF ApplyRow
  <2> QED BY <2>1, <2>12
<1>5. S \in SUBSET S
  OBVIOUS
<1>6. g[S] = NetQuantity(L, S)
  BY <1>2, <1>4, <1>5
<1>7. NetQuantity(L, S) \in Nat
  BY <1>1, <1>2, SharesAreCovered
<1> QED BY <1>3, <1>6, <1>7

\* The greatest of finitely many numbers.
LEMMA MaxIsGreatest ==
  ASSUME NEW S, IsFiniteSet(S), S # {}, S \subseteq Int
  PROVE  Max(S) \in S /\ \A x \in S : x <= Max(S)
<1> DEFINE f == [x \in S |-> x]
<1>1. \A x \in S : f[x] = x /\ f[x] \in Int
  OBVIOUS
<1> HIDE DEF f
<1>2. PICK m \in S : \A y \in S : f[y] <= f[m]
  BY <1>1, GreatestExists
<1>3. \A y \in S : m >= y
  BY <1>1, <1>2
<1>4. Max(S) \in S /\ \A y \in S : Max(S) >= y
  BY <1>3 DEF Max
<1> QED BY <1>4

\* Terms of zero add nothing.
LEMMA SumOverMore ==
  ASSUME NEW S, IsFiniteSet(S), NEW T \in SUBSET S,
         NEW f, NEW g, \A x \in S : f[x] \in Int,
         \A x \in T : f[x] = g[x], \A x \in S \ T : f[x] = 0
  PROVE  SumFunctionOnSet(f, S) = SumFunctionOnSet(g, T)
<1> DEFINE R == S \ T
<1>1. IsFiniteSet(T) /\ IsFiniteSet(R) /\ R \cap T = {} /\ T \union R = S
  BY FS_Subset
<1>2. \A x \in R : f[x] = 0
  OBVIOUS
<1> HIDE DEF R
<1>3. SumFunctionOnSet(f, R) = 0
  BY <1>1, <1>2, SumZero
<1>4. SumFunctionOnSet(f, T \union R) = SumFunctionOnSet(f, T) + SumFunctionOnSet(f, R)
  <2>1. T \cap R = {} /\ \A x \in T \union R : f[x] \in Int
    BY <1>1
  <2> QED BY <1>1, <2>1, SumUnion
<1>5. \A x \in T : f[x] \in Int
  OBVIOUS
<1>6. SumFunctionOnSet(f, T) = SumFunctionOnSet(g, T)
  BY <1>1, <1>5, SumsSame
<1>7. SumFunctionOnSet(f, T) \in Int
  BY <1>1, <1>5, SumIsInt
<1>8. SumFunctionOnSet(f, S) = SumFunctionOnSet(f, T \union R)
  BY <1>1
<1> QED BY <1>3, <1>4, <1>6, <1>7, <1>8

\* A window of the series over a ledger whose holdings replay.
IsWindow(w) ==
  /\ Recorded(w.ledger) /\ AllReplay(w.ledger)
  /\ w.from \in Nat /\ w.to \in Nat
  /\ \A s \in Symbols :
        /\ w.live[s] \in Nat
        /\ IsFiniteSet(DOMAIN w.closes[s]) /\ DOMAIN w.closes[s] \subseteq Nat
        /\ \A e \in DOMAIN w.closes[s] : w.closes[s][e] \in Nat

\* The days up to d with a close of s.
Closings(w, s, d) == {e \in DOMAIN w.closes[s] : e <= d /\ w.closes[s][e] > 0}

\* The last close up to a day is positive.
LEMMA LastClosing ==
  ASSUME NEW w, IsWindow(w), NEW s \in Symbols, NEW d \in Int, Closings(w, s, d) # {}
  PROVE  /\ Max(Closings(w, s, d)) \in Closings(w, s, d)
         /\ w.closes[s][Max(Closings(w, s, d))] \in Nat \ {0}
<1> DEFINE C == Closings(w, s, d)
<1>1. IsFiniteSet(C) /\ C \subseteq Int /\ \A e \in C : w.closes[s][e] \in Nat \ {0}
  BY FS_Subset DEF IsWindow, Closings
<1> HIDE DEF C
<1>2. C # {}
  BY DEF C
<1>3. Max(C) \in C
  BY <1>1, <1>2, MaxIsGreatest
<1> QED BY <1>1, <1>3 DEF C

\* A price is the live quote, the last close or nothing.
LEMMA PriceCases ==
  ASSUME NEW w, IsWindow(w), NEW s \in Symbols, NEW d \in Int
  PROVE  /\ PriceOn(w, s, d) \in Nat
         /\ d = w.to /\ w.live[s] > 0 => PriceOn(w, s, d) = w.live[s]
         /\ ~(d = w.to /\ w.live[s] > 0) /\ Closings(w, s, d) # {} =>
               PriceOn(w, s, d) = w.closes[s][Max(Closings(w, s, d))] /\ PriceOn(w, s, d) > 0
         /\ ~(d = w.to /\ w.live[s] > 0) /\ Closings(w, s, d) = {} => PriceOn(w, s, d) = 0
<1> DEFINE C == Closings(w, s, d)
<1>1. PriceOn(w, s, d) = CASE d = w.to /\ w.live[s] > 0 -> w.live[s]
                           [] ~(d = w.to /\ w.live[s] > 0) /\ C # {} -> w.closes[s][Max(C)]
                           [] OTHER -> 0
  BY DEF PriceOn, Closings
<1>2. w.live[s] \in Nat /\ w.to \in Nat
  BY DEF IsWindow
<1>3. C # {} => w.closes[s][Max(C)] \in Nat \ {0}
  BY LastClosing
<1> HIDE DEF C
<1>4. CASE d = w.to /\ w.live[s] > 0
  <2>1. PriceOn(w, s, d) = w.live[s]
    BY <1>1, <1>4
  <2> QED BY <1>2, <1>4, <2>1
<1>5. CASE ~(d = w.to /\ w.live[s] > 0) /\ C # {}
  <2>1. PriceOn(w, s, d) = w.closes[s][Max(C)]
    BY <1>1, <1>5
  <2>2. PriceOn(w, s, d) \in Nat /\ PriceOn(w, s, d) > 0
    BY <1>3, <1>5, <2>1
  <2> QED BY <1>5, <2>1, <2>2 DEF C
<1>6. CASE ~(d = w.to /\ w.live[s] > 0) /\ C = {}
  <2>1. PriceOn(w, s, d) = 0
    BY <1>1, <1>6
  <2> QED BY <1>6, <2>1 DEF C
<1> QED BY <1>4, <1>5, <1>6

\* Once a symbol has a price inside the window it keeps having one.
LEMMA PricesStay ==
  ASSUME NEW w, IsWindow(w), NEW s \in Symbols, NEW d \in Int, NEW e \in Int,
         d < w.to, d <= e, PriceOn(w, s, d) > 0
  PROVE  PriceOn(w, s, e) > 0
<1>1. w.to \in Nat /\ w.live[s] \in Nat
  BY DEF IsWindow
<1>2. Closings(w, s, d) # {}
  BY <1>1, PriceCases
<1>3. Closings(w, s, d) \subseteq Closings(w, s, e)
  <2> SUFFICES ASSUME NEW c \in Closings(w, s, d) PROVE c \in Closings(w, s, e)
    OBVIOUS
  <2>1. c \in Nat
    BY DEF IsWindow, Closings
  <2> QED BY <2>1 DEF Closings
<1>4. Closings(w, s, e) # {}
  BY <1>2, <1>3
<1> QED BY <1>1, <1>4, PriceCases

\* A symbol without rows is not held.
LEMMA UntradedIsNothing ==
  ASSUME NEW w, IsWindow(w), NEW s \in Symbols, NEW d \in Int, s \notin Traded(w.ledger)
  PROVE  /\ SharesOn(w, s, d) = 0 /\ OfSymbol(w.ledger, s) = {}
<1>1. OfSymbol(w.ledger, s) = {}
  BY DEF OfSymbol, Traded
<1>2. Upto(w.ledger, s, d) = {}
  BY <1>1 DEF Upto
<1>3. SharesOn(w, s, d) = NetQuantity(w.ledger, Upto(w.ledger, s, d))
  BY SharesAreNet DEF IsWindow
<1> QED BY <1>1, <1>2, <1>3, NetOfNothing

\* The value of a day, over all symbols.
Worths(w, d) == [s \in Symbols |-> WorthOn(w, s, d)]

\* What is held of a symbol is worth nothing if it was never traded or has no price.
LEMMA WorthsTyped ==
  ASSUME NEW w, IsWindow(w), NEW s \in Symbols, NEW d \in Int
  PROVE  /\ WorthOn(w, s, d) \in Nat /\ Worths(w, d)[s] = WorthOn(w, s, d)
         /\ (s \notin Traded(w.ledger) \/ PriceOn(w, s, d) = 0) => WorthOn(w, s, d) = 0
<1>1. SharesOn(w, s, d) \in Nat /\ PriceOn(w, s, d) \in Nat
  BY SharesAreNet, PriceCases DEF IsWindow
<1>2. s \notin Traded(w.ledger) => SharesOn(w, s, d) = 0
  BY UntradedIsNothing
<1> DEFINE a == SharesOn(w, s, d)
           b == PriceOn(w, s, d)
<1>3. WorthOn(w, s, d) = a * b /\ Worths(w, d)[s] = WorthOn(w, s, d)
  BY DEF WorthOn, Worths
<1>4. a \in Nat /\ b \in Nat
  BY <1>1
<1>5. s \notin Traded(w.ledger) => a = 0
  BY <1>2
<1>6. (s \notin Traded(w.ledger) \/ b = 0) => a * b = 0
  <2> HIDE DEF a, b
  <2>1. a = 0 => a * b = 0
    BY <1>4
  <2>2. b = 0 => a * b = 0
    BY <1>4
  <2> QED BY <1>5, <2>1, <2>2
<1>7. a * b \in Nat
  <2> HIDE DEF a, b
  <2> QED BY <1>4, ProductNat
<1> QED BY <1>3, <1>6, <1>7

\* The value of a day as a sum over all symbols, priced or not.
LEMMA ValueIsSum ==
  ASSUME NEW w, IsWindow(w), NEW d \in Int
  PROVE  /\ ValueOn(w, d) = SumFunctionOnSet(Worths(w, d), Symbols)
         /\ ValueOn(w, d) \in Nat
<1> DEFINE T == Priced(w, d)
           g == [s \in T |-> WorthOn(w, s, d)]
           f == Worths(w, d)
<1>1. ValueOn(w, d) = SumFunctionOnSet(g, T)
  <2>1. ValueOn(w, d) = SumFunction(g) /\ DOMAIN g = T
    BY DEF ValueOn
  <2> HIDE DEF g, T
  <2> QED BY <2>1, SumOver
<1>2. T \in SUBSET Symbols
  <2>1. \A i \in Stored(w.ledger) : w.ledger[i].symbol \in Symbols
    BY RecordedFields DEF IsWindow
  <2> QED BY <2>1 DEF Priced, Traded
<1>3. ASSUME NEW s \in Symbols
      PROVE  /\ f[s] \in Nat
             /\ s \in T => f[s] = g[s]
             /\ s \notin T => f[s] = 0
  <2>1. s \notin T => (s \notin Traded(w.ledger) \/ PriceOn(w, s, d) = 0)
    BY PriceCases DEF Priced
  <2>2. s \in T => g[s] = WorthOn(w, s, d)
    OBVIOUS
  <2> HIDE DEF T, g, f
  <2> QED BY <2>1, <2>2, WorthsTyped DEF f
<1> HIDE DEF T, g, f
<1>4. SumFunctionOnSet(f, Symbols) = SumFunctionOnSet(g, T)
  BY <1>2, <1>3, RecordedRows, SumOverMore
<1>5. SumFunctionOnSet(f, Symbols) \in Nat
  BY <1>3, RecordedRows, SumIsNat
<1> QED BY <1>1, <1>4, <1>5 DEF f

\* The rows of a symbol on one day.
OnDay(L, s, d) == {i \in OfSymbol(L, s) : L[i].day = d}

\* What the rows of a symbol on one day move.
RowFlows(w, s, d) == [i \in {i \in OfSymbol(w.ledger, s) : w.ledger[i].day = d} |-> RowFlow(w, w.ledger[i])]

\* What a row moves, by its kind.
LEMMA RowFlowTyped ==
  ASSUME NEW w, IsWindow(w), NEW i \in Stored(w.ledger)
  PROVE  LET t == w.ledger[i]
         IN  /\ RowFlow(w, t) \in Int
             /\ t.side = "sell" => RowFlow(w, t) = -(t.quantity * t.price - t.fee)
             /\ t.side = "buy" /\ t.opening =>
                   RowFlow(w, t) = t.quantity * (IF PriceOn(w, t.symbol, t.day) > 0
                                                 THEN PriceOn(w, t.symbol, t.day) ELSE t.price)
             /\ t.side = "buy" /\ ~t.opening => RowFlow(w, t) = t.quantity * t.price + t.fee
<1> DEFINE t == w.ledger[i]
           m == PriceOn(w, t.symbol, t.day)
<1>1. IsTrade(t) /\ t.symbol \in Symbols /\ t.opening \in BOOLEAN /\ t.day \in Nat
  BY RecordedFields, RowDomains DEF IsWindow, IsTrade
<1>2. m \in Nat
  BY <1>1, PriceCases
<1>3. t.quantity \in Nat /\ t.price \in Nat /\ t.fee \in Nat /\ t.side \in {"buy", "sell"}
  BY <1>1 DEF IsTrade
<1>4. RowFlow(w, t) = CASE t.side = "sell" -> -(t.quantity * t.price - t.fee)
                        [] t.side = "buy" /\ t.opening -> t.quantity * (IF m > 0 THEN m ELSE t.price)
                        [] t.side = "buy" /\ ~t.opening -> t.quantity * t.price + t.fee
  BY DEF RowFlow
<1> HIDE DEF t, m
<1>5. t.quantity * t.price \in Nat /\ t.quantity * m \in Nat
  BY <1>2, <1>3, ProductNat
<1>6. CASE t.side = "sell"
  <2>1. RowFlow(w, t) = -(t.quantity * t.price - t.fee)
    BY <1>4, <1>6
  <2> QED BY <1>3, <1>5, <1>6, <2>1 DEF t
<1>7. CASE t.side = "buy" /\ t.opening
  <2>1. RowFlow(w, t) = t.quantity * (IF m > 0 THEN m ELSE t.price)
    BY <1>4, <1>7
  <2>2. RowFlow(w, t) \in Int
    BY <1>5, <2>1
  <2> QED BY <1>7, <2>1, <2>2 DEF t, m
<1>8. CASE t.side = "buy" /\ ~t.opening
  <2>1. RowFlow(w, t) = t.quantity * t.price + t.fee
    BY <1>4, <1>8
  <2> QED BY <1>3, <1>5, <1>8, <2>1 DEF t
<1> QED BY <1>1, <1>3, <1>6, <1>7, <1>8

\* A day's flow in a symbol is a sum over the rows of the day.
LEMMA DayFlowIsSum ==
  ASSUME NEW w, IsWindow(w), NEW s \in Symbols, NEW d \in Int,
         NEW X, X = OnDay(w.ledger, s, d), NEW f, f = RowFlows(w, s, d)
  PROVE  /\ IsFiniteSet(X) /\ X \subseteq Stored(w.ledger)
         /\ \A i \in X : f[i] = RowFlow(w, w.ledger[i]) /\ f[i] \in Int
         /\ DayFlow(w, s, d) = SumFunctionOnSet(f, X)
         /\ DayFlow(w, s, d) \in Int
<1>1. X \subseteq Stored(w.ledger)
  BY DEF OfSymbol, OnDay
<1>2. IsFiniteSet(X)
  BY <1>1, FS_Subset DEF IsWindow, Recorded
<1>3. ASSUME NEW i \in X PROVE f[i] = RowFlow(w, w.ledger[i]) /\ f[i] \in Int
  <2>1. f[i] = RowFlow(w, w.ledger[i])
    BY DEF RowFlows, OnDay
  <2>2. i \in Stored(w.ledger)
    BY <1>1
  <2> QED BY <2>1, <2>2, RowFlowTyped
<1>4. DayFlow(w, s, d) = SumFunctionOnSet(f, X)
  <2>1. DayFlow(w, s, d) = SumFunction(f) /\ DOMAIN f = X
    BY DEF DayFlow, RowFlows, OnDay
  <2> QED BY <2>1, SumOver
<1>5. SumFunctionOnSet(f, X) \in Int
  BY <1>2, <1>3, SumIsInt
<1> QED BY <1>1, <1>2, <1>3, <1>4, <1>5

\* A day without rows moves nothing.
LEMMA QuietDay ==
  ASSUME NEW w, IsWindow(w), NEW s \in Symbols, NEW d \in Int,
         \A i \in OfSymbol(w.ledger, s) : w.ledger[i].day # d
  PROVE  DayFlow(w, s, d) = 0
<1> DEFINE X == OnDay(w.ledger, s, d)
<1>1. X = {}
  BY DEF OnDay
<1> HIDE DEF X
<1>2. DayFlow(w, s, d) = SumFunctionOnSet(RowFlows(w, s, d), X)
  BY DayFlowIsSum DEF X
<1> QED BY <1>1, <1>2, SumEmpty

\* The flow of a day, over all symbols.
Flows(w, d) ==
  [s \in Symbols |-> IF d > w.from /\ PriceOn(w, s, d - 1) > 0 THEN DayFlow(w, s, d) ELSE WorthOn(w, s, d)]

\* The flow of a day as a sum over all symbols, priced or not.
LEMMA FlowIsSum ==
  ASSUME NEW w, IsWindow(w), NEW d \in Int, d <= w.to
  PROVE  /\ FlowOn(w, d) = SumFunctionOnSet(Flows(w, d), Symbols)
         /\ \A s \in Symbols : Flows(w, d)[s] \in Int
         /\ FlowOn(w, d) \in Int
<1> DEFINE T == Priced(w, d)
           K == Priced(w, d - 1)
           g == [s \in T |-> IF d > w.from /\ s \in K THEN DayFlow(w, s, d) ELSE WorthOn(w, s, d)]
           f == Flows(w, d)
<1>1. FlowOn(w, d) = SumFunctionOnSet(g, T)
  <2>1. FlowOn(w, d) = SumFunction(g) /\ DOMAIN g = T
    BY DEF FlowOn
  <2> HIDE DEF g, T
  <2> QED BY <2>1, SumOver
<1>2. T \in SUBSET Symbols
  <2>1. \A i \in Stored(w.ledger) : w.ledger[i].symbol \in Symbols
    BY RecordedFields DEF IsWindow
  <2> QED BY <2>1 DEF Priced, Traded
<1>3. ASSUME NEW s \in Symbols
      PROVE  /\ f[s] \in Int
             /\ s \in T => f[s] = g[s]
             /\ s \notin T => f[s] = 0
  <2> DEFINE P == PriceOn(w, s, d - 1)
             Q == PriceOn(w, s, d)
  <2>1. f[s] = IF d > w.from /\ P > 0 THEN DayFlow(w, s, d) ELSE WorthOn(w, s, d)
    BY DEF Flows
  <2>2. s \in T => g[s] = IF d > w.from /\ s \in K THEN DayFlow(w, s, d) ELSE WorthOn(w, s, d)
    OBVIOUS
  <2>3. d - 1 \in Int /\ w.to \in Nat /\ d - 1 < w.to
    BY DEF IsWindow
  <2>4. P \in Nat /\ Q \in Nat
    BY <2>3, PriceCases
  <2>5. P > 0 => Q > 0
    BY <2>3, PricesStay
  <2>6. /\ s \in T <=> (s \in Traded(w.ledger) /\ Q > 0)
        /\ s \in K <=> (s \in Traded(w.ledger) /\ P > 0)
    BY DEF Priced
  <2>7. DayFlow(w, s, d) \in Int /\ WorthOn(w, s, d) \in Int
    <3>1. DayFlow(w, s, d) \in Int
      BY DayFlowIsSum
    <3>2. WorthOn(w, s, d) \in Nat
      BY WorthsTyped
    <3> QED BY <3>1, <3>2
  <2>8. (s \notin Traded(w.ledger) \/ Q = 0) => WorthOn(w, s, d) = 0
    BY WorthsTyped
  <2>9. s \notin Traded(w.ledger) => DayFlow(w, s, d) = 0
    BY UntradedIsNothing, QuietDay
  <2> HIDE DEF f, g, T, K, P, Q
  <2> QED BY <2>1, <2>2, <2>4, <2>5, <2>6, <2>7, <2>8, <2>9
<1> HIDE DEF T, K, g, f
<1>4. SumFunctionOnSet(f, Symbols) = SumFunctionOnSet(g, T)
  BY <1>2, <1>3, RecordedRows, SumOverMore
<1>5. SumFunctionOnSet(f, Symbols) \in Int
  BY <1>3, RecordedRows, SumIsInt
<1> QED BY <1>1, <1>3, <1>4, <1>5 DEF f

\* The window with the closes loaded for some symbols.
WindowOf(symbols) == [Window EXCEPT !.closes = LoadedCloses(market.closes, symbols, From, Today)]

\* The window is made of days, and ends on the last one.
LEMMA WindowDays ==
  ASSUME FiguresIInv
  PROVE  /\ From \in Days /\ From \in Nat /\ Today \in Days /\ Today \in Nat /\ From <= Today
         /\ \A d \in Days : d <= Today
<1>1. From \in Days
  BY ProvidedPrices DEF FiguresIInv, From
<1>2. Days \subseteq Int /\ Days \subseteq Nat
  BY RowDomains
<1>3. Today \in Days /\ \A d \in Days : d <= Today
  BY <1>2, RecordedRows, MaxIsGreatest DEF Today
<1> QED BY <1>1, <1>2, <1>3

\* A live quote, or zero for none.
LEMMA LiveIsNat ==
  ASSUME FiguresIInv, NEW s \in Symbols
  PROVE  LiveQuotes[s] \in Nat
BY ProvidedPrices DEF FiguresIInv, LiveQuotes

\* The fields of a window.
LEMMA WindowFields ==
  ASSUME NEW A
  PROVE  /\ WindowOf(A).ledger = ledger /\ WindowOf(A).from = From /\ WindowOf(A).to = Today
         /\ WindowOf(A).live = LiveQuotes
         /\ WindowOf(A).closes = LoadedCloses(market.closes, A, From, Today)
BY DEF WindowOf, Window

\* The closes of the symbols asked for, from a week before the window on.
LEMMA ClosesLoaded ==
  ASSUME FiguresIInv, NEW A, NEW s \in Symbols
  PROVE  /\ DOMAIN WindowOf(A).closes[s] = DOMAIN market.closes[s]
         /\ \A d \in DOMAIN market.closes[s] :
               WindowOf(A).closes[s][d] =
                  IF s \in A /\ d >= From - Lookback /\ d <= Today THEN market.closes[s][d] ELSE 0
<1>1. s \in DOMAIN market.closes
  BY ProvidedPrices DEF FiguresIInv
<1>2. WindowOf(A).closes = LoadedCloses(market.closes, A, From, Today)
  BY WindowFields
<1>3. WindowOf(A).closes[s] =
        [d \in DOMAIN market.closes[s] |->
            IF s \in A /\ d >= From - Lookback /\ d <= Today THEN market.closes[s][d] ELSE 0]
  BY <1>1, <1>2 DEF LoadedCloses
<1> QED BY <1>3

\* Whatever the symbols, what was loaded is a window of typed prices.
LEMMA LoadedIsWindow ==
  ASSUME FiguresIInv, NEW A
  PROVE  IsWindow(WindowOf(A))
<1>1. Recorded(ledger) /\ AllReplay(ledger)
  BY DEF FiguresIInv, AllReplay
<1>2. ASSUME NEW s \in Symbols
      PROVE  /\ LiveQuotes[s] \in Nat
             /\ IsFiniteSet(DOMAIN WindowOf(A).closes[s]) /\ DOMAIN WindowOf(A).closes[s] \subseteq Nat
             /\ \A e \in DOMAIN WindowOf(A).closes[s] : WindowOf(A).closes[s][e] \in Nat
  <2>1. /\ IsFiniteSet(DOMAIN market.closes[s]) /\ DOMAIN market.closes[s] \subseteq Nat
        /\ \A d \in DOMAIN market.closes[s] : market.closes[s][d] \in Nat
    BY ProvidedPrices DEF FiguresIInv
  <2> QED BY <2>1, ClosesLoaded, LiveIsNat
<1> QED BY <1>1, <1>2, WindowDays, WindowFields DEF IsWindow

\* Windows that price a symbol alike value it and move it alike.
LEMMA AlikeTerms ==
  ASSUME NEW v, IsWindow(v), NEW w, IsWindow(w), v.ledger = w.ledger, v.from = w.from, v.to = w.to,
         NEW s \in Symbols, NEW d \in Int,
         \A e \in Int : PriceOn(v, s, e) = PriceOn(w, s, e)
  PROVE  Worths(v, d)[s] = Worths(w, d)[s] /\ Flows(v, d)[s] = Flows(w, d)[s]
<1>1. /\ SharesOn(v, s, d) = NetQuantity(v.ledger, Upto(v.ledger, s, d))
      /\ SharesOn(w, s, d) = NetQuantity(w.ledger, Upto(w.ledger, s, d))
  BY SharesAreNet DEF IsWindow
<1>2. WorthOn(v, s, d) = WorthOn(w, s, d)
  BY <1>1 DEF WorthOn
<1> DEFINE X == {i \in OfSymbol(w.ledger, s) : w.ledger[i].day = d}
<1>3. ASSUME NEW i \in X PROVE RowFlow(v, w.ledger[i]) = RowFlow(w, w.ledger[i])
  <2>1. w.ledger[i].symbol = s /\ w.ledger[i].day = d
    BY DEF OfSymbol
  <2>2. PriceOn(v, w.ledger[i].symbol, w.ledger[i].day) = PriceOn(w, w.ledger[i].symbol, w.ledger[i].day)
    BY <2>1
  <2> QED BY <2>2 DEF RowFlow
<1>4. [i \in X |-> RowFlow(v, w.ledger[i])] = [i \in X |-> RowFlow(w, w.ledger[i])]
  <2> HIDE DEF X
  <2> QED BY <1>3
<1>5. DayFlow(v, s, d) = DayFlow(w, s, d)
  BY <1>4 DEF DayFlow
<1>6. PriceOn(v, s, d - 1) = PriceOn(w, s, d - 1)
  OBVIOUS
<1> QED BY <1>2, <1>5, <1>6 DEF Worths, Flows

\* A symbol not held at the end of the first day and not traded after it is worth nothing
\* and moves nothing inside the window.
LEMMA InactiveIsNothing ==
  ASSUME NEW w, IsWindow(w), NEW s \in Symbols, s \notin ActiveSymbols(w.ledger, w.from),
         NEW d \in Int, w.from <= d
  PROVE  Worths(w, d)[s] = 0 /\ Flows(w, d)[s] = 0
<1> DEFINE L == w.ledger
<1>1. w.from \in Nat /\ Recorded(L) /\ AllReplay(L) /\ FiniteLedger(L)
  BY RecordedIsFinite DEF IsWindow
<1>2. CASE s \notin Traded(L)
  <2>1. OfSymbol(L, s) = {}
    BY <1>2, UntradedIsNothing
  <2>2. WorthOn(w, s, d) = 0
    BY <1>2, WorthsTyped
  <2>3. DayFlow(w, s, d) = 0
    BY <2>1, QuietDay
  <2> QED BY <2>2, <2>3 DEF Worths, Flows
<1>3. CASE s \in Traded(L)
  <2>1. /\ \A i \in OfSymbol(L, s) : ~ (L[i].day > w.from)
        /\ ~ (NetQuantity(L, Upto(L, s, w.from)) > 0)
    BY <1>3 DEF ActiveSymbols, Upto
  <2>2. \A i \in OfSymbol(L, s) : L[i].day \in Nat /\ L[i].day <= w.from
    <3>1. \A i \in OfSymbol(L, s) : L[i].day \in Nat
      BY <1>1, RowsTyped DEF OfSymbol, FiniteLedger
    <3> QED BY <2>1, <3>1, <1>1
  <2>3. Upto(L, s, d) = Upto(L, s, w.from)
    BY <2>2, <1>1 DEF Upto
  <2>4. SharesOn(w, s, d) = NetQuantity(L, Upto(L, s, w.from)) /\ SharesOn(w, s, d) \in Nat
    BY <1>1, <2>3, SharesAreNet
  <2>5. SharesOn(w, s, d) = 0
    BY <2>1, <2>4
  <2>6. PriceOn(w, s, d) \in Nat
    BY PriceCases
  <2>7. WorthOn(w, s, d) = 0
    BY <2>5, <2>6 DEF WorthOn
  <2>8. d > w.from => DayFlow(w, s, d) = 0
    <3> SUFFICES ASSUME d > w.from PROVE DayFlow(w, s, d) = 0
      OBVIOUS
    <3>1. \A i \in OfSymbol(L, s) : L[i].day # d
      BY <2>2, <1>1
    <3> QED BY <3>1, QuietDay
  <2> QED BY <2>7, <2>8 DEF Worths, Flows
<1> QED BY <1>2, <1>3

\* With more closes loaded, a loaded symbol has the same prices.
LEMMA LoadedAlike ==
  ASSUME FiguresIInv, NEW A, NEW B, NEW s \in Symbols, s \in A, s \in B, NEW e \in Int
  PROVE  PriceOn(WindowOf(A), s, e) = PriceOn(WindowOf(B), s, e)
<1> DEFINE v == WindowOf(A)
           w == WindowOf(B)
<1>1. v.closes[s] = w.closes[s] /\ v.to = w.to /\ v.live = w.live
  <2>1. v.closes = LoadedCloses(market.closes, A, From, Today)
    BY WindowFields
  <2>2. w.closes = LoadedCloses(market.closes, B, From, Today)
    BY WindowFields
  <2>3. s \in DOMAIN market.closes
    BY ProvidedPrices DEF FiguresIInv
  <2>4. v.closes[s] = w.closes[s]
    BY <2>1, <2>2, <2>3 DEF LoadedCloses
  <2> QED BY <2>4, WindowFields
<1> HIDE DEF v, w
<1> QED BY <1>1 DEF PriceOn, v, w

\* With the closes of the active symbols alone, every point of the series has the value and the
\* flow it has with those of every symbol.
LEMMA ActiveSymbolsDo ==
  ASSUME FiguresIInv
  PROVE  ActiveSymbolsSuffice
<1> DEFINE A == ActiveSymbols(ledger, From)
           v == WindowOf(A)
           w == WindowOf(Symbols)
<1>1. IsWindow(v) /\ IsWindow(w)
  BY LoadedIsWindow
<1>2. /\ v.ledger = ledger /\ v.from = From /\ v.to = Today
      /\ w.ledger = ledger /\ w.from = From /\ w.to = Today
  BY WindowFields
<1> HIDE DEF v, w
<1>3. ASSUME NEW d \in From..Today
      PROVE  ValueOn(v, d) = ValueOn(w, d) /\ FlowOn(v, d) = FlowOn(w, d)
  <2>1. d \in Int /\ From <= d /\ d <= Today
    BY WindowDays
  <2>2. ASSUME NEW s \in Symbols
        PROVE  Worths(v, d)[s] = Worths(w, d)[s] /\ Flows(v, d)[s] = Flows(w, d)[s]
    <3>1. CASE s \in A
      <4>1. \A e \in Int : PriceOn(v, s, e) = PriceOn(w, s, e)
        BY <3>1, LoadedAlike DEF v, w
      <4> HIDE DEF A
      <4> QED BY <1>1, <1>2, <2>1, <4>1, AlikeTerms
    <3>2. CASE s \notin A
      <4>1. s \notin ActiveSymbols(v.ledger, v.from) /\ s \notin ActiveSymbols(w.ledger, w.from)
        BY <1>2, <3>2
      <4>2. v.from <= d /\ w.from <= d
        BY <1>2, <2>1
      <4>3. Worths(v, d)[s] = 0 /\ Flows(v, d)[s] = 0
        BY <1>1, <2>1, <4>1, <4>2, InactiveIsNothing
      <4>4. Worths(w, d)[s] = 0 /\ Flows(w, d)[s] = 0
        BY <1>1, <2>1, <4>1, <4>2, InactiveIsNothing
      <4> QED BY <4>3, <4>4
    <3> QED BY <3>1, <3>2
  <2>3. \A s \in Symbols : Worths(v, d)[s] \in Int
    <3>1. ASSUME NEW s \in Symbols PROVE Worths(v, d)[s] \in Int
      <4>1. WorthOn(v, s, d) \in Nat /\ Worths(v, d)[s] = WorthOn(v, s, d)
        BY <1>1, <2>1, WorthsTyped
      <4> QED BY <4>1
    <3> QED BY <3>1
  <2> DEFINE fv == Worths(v, d)
             fw == Worths(w, d)
             gv == Flows(v, d)
             gw == Flows(w, d)
  <2>4. ValueOn(v, d) = SumFunctionOnSet(fv, Symbols) /\ ValueOn(w, d) = SumFunctionOnSet(fw, Symbols)
    BY <1>1, <2>1, ValueIsSum
  <2>5. /\ FlowOn(v, d) = SumFunctionOnSet(gv, Symbols)
        /\ \A s \in Symbols : gv[s] \in Int
    BY <1>1, <1>2, <2>1, FlowIsSum
  <2>6. FlowOn(w, d) = SumFunctionOnSet(gw, Symbols)
    BY <1>1, <1>2, <2>1, FlowIsSum
  <2>7. \A s \in Symbols : fv[s] \in Int /\ fv[s] = fw[s] /\ gv[s] = gw[s]
    BY <2>2, <2>3
  <2> HIDE DEF fv, fw, gv, gw
  <2>8. SumFunctionOnSet(fv, Symbols) = SumFunctionOnSet(fw, Symbols)
    BY <2>7, RecordedRows, SumsSame
  <2>9. SumFunctionOnSet(gv, Symbols) = SumFunctionOnSet(gw, Symbols)
    BY <2>5, <2>7, RecordedRows, SumsSame
  <2> QED BY <2>4, <2>5, <2>6, <2>8, <2>9
<1>4. /\ Series(v) = [d \in From..Today |-> [value |-> ValueOn(v, d), flow |-> FlowOn(v, d)]]
      /\ Series(w) = [d \in From..Today |-> [value |-> ValueOn(w, d), flow |-> FlowOn(w, d)]]
  BY <1>2 DEF Series
<1>5. Loaded = v /\ [Window EXCEPT !.closes = LoadedCloses(market.closes, Symbols, From, Today)] = w
  BY DEF Loaded, v, w, WindowOf
<1>6. \A d \in DOMAIN Series(v) :
         Series(v)[d].value = Series(w)[d].value /\ Series(v)[d].flow = Series(w)[d].flow
  BY <1>3, <1>4
<1> QED BY <1>5, <1>6 DEF ActiveSymbolsSuffice

\* For any ledger and any market, no close that was not loaded could have changed the series.
THEOREM ActiveSymbolsAlwaysDo == Spec => []ActiveSymbolsSuffice
<1>1. FiguresIInv => ActiveSymbolsSuffice
  BY ActiveSymbolsDo
<1> QED BY <1>1, FiguresTyping, PTL

\* What the rows of a day gained, at a price.
GainsAt(w, d) == [i \in Stored(ledger) |-> TradeGain(i, PriceOn(w, ledger[i].symbol, d))]

\* A trade's gain is what its shares are worth less what it moves.
LEMMA TradeGainIs ==
  ASSUME NEW w, IsWindow(w), w.ledger = ledger, NEW i \in Stored(ledger),
         NEW d \in Int, ledger[i].day = d, PriceOn(w, ledger[i].symbol, d) > 0
  PROVE  /\ GainsAt(w, d)[i] = PriceOn(w, ledger[i].symbol, d) * Signed(ledger[i], ledger[i].quantity)
                                 - RowFlow(w, ledger[i])
         /\ GainsAt(w, d)[i] \in Int
<1> DEFINE t == ledger[i]
           P == PriceOn(w, t.symbol, d)
<1>1. /\ t.side \in {"buy", "sell"} /\ t.quantity \in Nat /\ t.price \in Nat /\ t.fee \in Nat
      /\ t.opening \in BOOLEAN /\ t.symbol \in Symbols
  BY RecordedFields DEF IsWindow, IsTrade
<1>2. P \in Nat /\ P > 0
  BY <1>1, PriceCases
<1>3. GainsAt(w, d)[i] = CASE t.side = "sell" -> t.quantity * (t.price - P) - t.fee
                           [] t.side = "buy" /\ t.opening -> 0
                           [] t.side = "buy" /\ ~t.opening -> t.quantity * (P - t.price) - t.fee
  BY DEF GainsAt, TradeGain
<1>4. /\ RowFlow(w, t) \in Int
      /\ t.side = "sell" => RowFlow(w, t) = -(t.quantity * t.price - t.fee)
      /\ t.side = "buy" /\ t.opening => RowFlow(w, t) = t.quantity * P
      /\ t.side = "buy" /\ ~t.opening => RowFlow(w, t) = t.quantity * t.price + t.fee
  <2>1. /\ RowFlow(w, w.ledger[i]) \in Int
        /\ t.side = "sell" => RowFlow(w, w.ledger[i]) = -(t.quantity * t.price - t.fee)
        /\ t.side = "buy" /\ t.opening =>
              RowFlow(w, w.ledger[i]) = t.quantity * (IF PriceOn(w, t.symbol, t.day) > 0
                                              THEN PriceOn(w, t.symbol, t.day) ELSE t.price)
        /\ t.side = "buy" /\ ~t.opening => RowFlow(w, w.ledger[i]) = t.quantity * t.price + t.fee
    BY RowFlowTyped
  <2>2. PriceOn(w, t.symbol, t.day) = P
    OBVIOUS
  <2>3. w.ledger[i] = t
    OBVIOUS
  <2> HIDE DEF t, P
  <2> QED BY <1>2, <2>1, <2>2, <2>3
<1>5. Signed(t, t.quantity) = IF t.side = "sell" THEN -t.quantity ELSE t.quantity
  BY DEF Signed
<1> HIDE DEF t, P
<1>6. CASE t.side = "sell"
  <2>1. GainsAt(w, d)[i] = t.quantity * (t.price - P) - t.fee
    BY <1>3, <1>6
  <2>2. P * (-t.quantity) - (-(t.quantity * t.price - t.fee)) = t.quantity * (t.price - P) - t.fee
    BY <1>1, <1>2
  <2>3. t.quantity * (t.price - P) \in Int
    BY <1>1, <1>2
  <2> QED BY <1>1, <1>4, <1>5, <1>6, <2>1, <2>2, <2>3 DEF t, P
<1>7. CASE t.side = "buy" /\ t.opening
  <2>1. GainsAt(w, d)[i] = 0
    BY <1>3, <1>7
  <2>2. P * t.quantity - t.quantity * P = 0
    BY <1>1, <1>2
  <2> QED BY <1>1, <1>4, <1>5, <1>7, <2>1, <2>2 DEF t, P
<1>8. CASE t.side = "buy" /\ ~t.opening
  <2>1. GainsAt(w, d)[i] = t.quantity * (P - t.price) - t.fee
    BY <1>3, <1>8
  <2>2. P * t.quantity - (t.quantity * t.price + t.fee) = t.quantity * (P - t.price) - t.fee
    BY <1>1, <1>2
  <2>3. t.quantity * (P - t.price) \in Int
    BY <1>1, <1>2
  <2> QED BY <1>1, <1>4, <1>5, <1>8, <2>1, <2>2, <2>3 DEF t, P
<1> QED BY <1>1, <1>6, <1>7, <1>8

\* The shares at a day's end are those of the evening before and the day's own.
LEMMA NetGrows ==
  ASSUME NEW L, FiniteLedger(L), NEW s, NEW d \in Int
  PROVE  /\ NetQuantity(L, Upto(L, s, d)) = NetQuantity(L, Upto(L, s, d - 1)) + NetQuantity(L, OnDay(L, s, d))
         /\ NetQuantity(L, Upto(L, s, d - 1)) \in Int /\ NetQuantity(L, OnDay(L, s, d)) \in Int
<1> DEFINE A == Upto(L, s, d - 1)
           X == OnDay(L, s, d)
           N == NetOf(L)
<1>1. \A i \in OfSymbol(L, s) : i \in Stored(L) /\ L[i].day \in Nat
  BY RowsTyped DEF OfSymbol, FiniteLedger
<1>2. Upto(L, s, d) = A \union X /\ A \cap X = {}
  BY <1>1 DEF Upto, OnDay
<1>3. A \in SUBSET Stored(L) /\ X \in SUBSET Stored(L) /\ A \union X \in SUBSET Stored(L)
  BY <1>1 DEF Upto, OnDay
<1> HIDE DEF A, X, N
<1>4. /\ IsFiniteSet(A) /\ \A i \in A : N[i] \in Int
      /\ NetQuantity(L, A) = SumFunctionOnSet(N, A) /\ NetQuantity(L, A) \in Int
  BY <1>3, NetIsSum DEF N
<1>5. /\ IsFiniteSet(X) /\ \A i \in X : N[i] \in Int
      /\ NetQuantity(L, X) = SumFunctionOnSet(N, X) /\ NetQuantity(L, X) \in Int
  BY <1>3, NetIsSum DEF N
<1>6. NetQuantity(L, A \union X) = SumFunctionOnSet(N, A \union X)
  BY <1>3, NetIsSum DEF N
<1>7. SumFunctionOnSet(N, A \union X) = SumFunctionOnSet(N, A) + SumFunctionOnSet(N, X)
  <2>1. \A i \in A \union X : N[i] \in Int
    BY <1>4, <1>5
  <2> QED BY <1>2, <1>4, <1>5, <2>1, SumUnion
<1>8. NetQuantity(L, Upto(L, s, d)) = NetQuantity(L, A \union X)
  BY <1>2
<1> QED BY <1>4, <1>5, <1>6, <1>7, <1>8 DEF A, X

\* What the trades of a symbol gained on one day, together.
LEMMA DayGains ==
  ASSUME NEW w, IsWindow(w), w.ledger = ledger, NEW s \in Symbols, NEW d \in Int,
         PriceOn(w, s, d) > 0
  PROVE  /\ SumFunctionOnSet(GainsAt(w, d), OnDay(ledger, s, d)) =
               PriceOn(w, s, d) * NetQuantity(ledger, OnDay(ledger, s, d)) - DayFlow(w, s, d)
         /\ \A i \in OnDay(ledger, s, d) : GainsAt(w, d)[i] \in Int
<1> DEFINE X == OnDay(ledger, s, d)
           P == PriceOn(w, s, d)
           N == NetOf(ledger)
           F == RowFlows(w, s, d)
           G == GainsAt(w, d)
           PN == [i \in X |-> P * N[i]]
<1>1. FiniteLedger(ledger) /\ X \in SUBSET Stored(ledger)
  BY RecordedIsFinite DEF IsWindow, OnDay, OfSymbol
<1>2. /\ IsFiniteSet(X) /\ \A i \in X : N[i] \in Int
      /\ NetQuantity(ledger, X) = SumFunctionOnSet(N, X) /\ NetQuantity(ledger, X) \in Int
  BY <1>1, NetIsSum
<1>3. /\ \A i \in X : F[i] = RowFlow(w, ledger[i]) /\ F[i] \in Int
      /\ DayFlow(w, s, d) = SumFunctionOnSet(F, X)
      /\ DayFlow(w, s, d) \in Int
  <2>1. X = OnDay(w.ledger, s, d) /\ F = RowFlows(w, s, d)
    OBVIOUS
  <2> HIDE DEF X, F
  <2> QED BY <2>1, DayFlowIsSum
<1>4. P \in Nat /\ P > 0
  BY PriceCases
<1>5. ASSUME NEW i \in X PROVE G[i] = P * N[i] - F[i] /\ G[i] \in Int
  <2>1. ledger[i].symbol = s /\ ledger[i].day = d /\ i \in Stored(ledger)
    BY DEF OnDay, OfSymbol
  <2>2. /\ GainsAt(w, d)[i] = PriceOn(w, ledger[i].symbol, d) * Signed(ledger[i], ledger[i].quantity)
                                 - RowFlow(w, ledger[i])
        /\ GainsAt(w, d)[i] \in Int
    BY <2>1, TradeGainIs
  <2>3. N[i] = Signed(ledger[i], ledger[i].quantity)
    BY <2>1 DEF NetOf
  <2>4. F[i] = RowFlow(w, ledger[i])
    BY <1>3
  <2> QED BY <2>1, <2>2, <2>3, <2>4
<1>6. \A i \in X : PN[i] = P * N[i]
  OBVIOUS
<1> HIDE DEF X, P, N, F, G, PN
<1>7. SumFunctionOnSet(PN, X) = P * SumFunctionOnSet(N, X)
  <2>1. P \in Int
    BY <1>4
  <2> QED BY <1>2, <1>6, <2>1, SumScaled
<1>8. \A i \in X : F[i] \in Int /\ G[i] \in Int /\ PN[i] = F[i] + G[i]
  <2> SUFFICES ASSUME NEW i \in X PROVE F[i] \in Int /\ G[i] \in Int /\ PN[i] = F[i] + G[i]
    OBVIOUS
  <2>1. P * N[i] \in Int
    BY <1>2, <1>4
  <2> QED BY <1>3, <1>5, <1>6, <2>1
<1>9. SumFunctionOnSet(PN, X) = SumFunctionOnSet(F, X) + SumFunctionOnSet(G, X)
  BY <1>2, <1>8, SumPlus
<1>10. SumFunctionOnSet(G, X) \in Int
  BY <1>2, <1>8, SumIsInt
<1>11. P * NetQuantity(ledger, X) \in Int
  BY <1>2, <1>4
<1>12. SumFunctionOnSet(G, X) = P * NetQuantity(ledger, X) - DayFlow(w, s, d)
  BY <1>2, <1>3, <1>7, <1>9, <1>10, <1>11
<1> QED BY <1>5, <1>12 DEF G, X, P

\* The terms of the two sums of DailyGainExplained, over all symbols.
PriceGains(w, d) ==
  [s \in Symbols |-> IF s \in Priced(w, d - 1)
                     THEN Net(s, d - 1) * (PriceOn(w, s, d) - PriceOn(w, s, d - 1)) ELSE 0]

SymbolGains(w, d) ==
  [s \in Symbols |-> IF s \in Priced(w, d - 1)
                     THEN SumFunctionOnSet(GainsAt(w, d), OnDay(ledger, s, d)) ELSE 0]

\* The gain of one symbol on one day.
LEMMA SymbolGainExplained ==
  ASSUME NEW w, IsWindow(w), w.ledger = ledger, NEW s \in Symbols, NEW d \in Int,
         w.from < d, d <= w.to
  PROVE  /\ Worths(w, d)[s] \in Int /\ Flows(w, d)[s] \in Int /\ Worths(w, d - 1)[s] \in Int
         /\ PriceGains(w, d)[s] \in Int /\ SymbolGains(w, d)[s] \in Int
         /\ Worths(w, d)[s] = Flows(w, d)[s] + Worths(w, d - 1)[s]
                                + PriceGains(w, d)[s] + SymbolGains(w, d)[s]
<1> DEFINE P0 == PriceOn(w, s, d - 1)
           P1 == PriceOn(w, s, d)
           N0 == NetQuantity(ledger, Upto(ledger, s, d - 1))
           N1 == NetQuantity(ledger, Upto(ledger, s, d))
           M  == NetQuantity(ledger, OnDay(ledger, s, d))
           DF == DayFlow(w, s, d)
           G  == SumFunctionOnSet(GainsAt(w, d), OnDay(ledger, s, d))
<1>1. d - 1 \in Int /\ w.to \in Nat /\ d - 1 < w.to /\ d - 1 <= d
  BY DEF IsWindow
<1>2. P0 \in Nat /\ P1 \in Nat /\ (P0 > 0 => P1 > 0)
  BY <1>1, PriceCases, PricesStay
<1>3. SharesOn(w, s, d) = N1 /\ SharesOn(w, s, d - 1) = N0 /\ N1 \in Nat /\ N0 \in Nat
  <2>1. SharesOn(w, s, d) = N1 /\ SharesOn(w, s, d) \in Nat
    BY SharesAreNet DEF IsWindow
  <2>2. SharesOn(w, s, d - 1) = N0 /\ SharesOn(w, s, d - 1) \in Nat
    BY <1>1, SharesAreNet DEF IsWindow
  <2> QED BY <2>1, <2>2
<1>4. N1 = N0 + M /\ M \in Int
  <2>1. FiniteLedger(ledger)
    BY RecordedIsFinite DEF IsWindow
  <2> QED BY <2>1, NetGrows
<1>5. DF \in Int
  BY DayFlowIsSum
<1>6. /\ Worths(w, d)[s] = N1 * P1 /\ Worths(w, d - 1)[s] = N0 * P0
      /\ Flows(w, d)[s] = IF P0 > 0 THEN DF ELSE N1 * P1
  BY <1>1, <1>3 DEF Worths, Flows, WorthOn
<1>7. Net(s, d - 1) = N0
  BY DEF Net, Upto
<1>8. s \in Priced(w, d - 1) <=> (s \in Traded(ledger) /\ P0 > 0)
  BY DEF Priced
<1>9. /\ PriceGains(w, d)[s] = IF s \in Priced(w, d - 1) THEN N0 * (P1 - P0) ELSE 0
      /\ SymbolGains(w, d)[s] = IF s \in Priced(w, d - 1) THEN G ELSE 0
  BY <1>7 DEF PriceGains, SymbolGains
<1>10. P1 > 0 => G = P1 * M - DF
  BY DayGains
<1>11. s \notin Traded(ledger) => N0 = 0 /\ N1 = 0 /\ DF = 0
  <2> SUFFICES ASSUME s \notin Traded(ledger) PROVE N0 = 0 /\ N1 = 0 /\ DF = 0
    OBVIOUS
  <2>1. OfSymbol(w.ledger, s) = {} /\ SharesOn(w, s, d) = 0
    BY UntradedIsNothing
  <2>2. SharesOn(w, s, d - 1) = 0
    BY <1>1, UntradedIsNothing
  <2>3. DF = 0
    BY <2>1, QuietDay
  <2> QED BY <1>3, <2>1, <2>2, <2>3
<1> HIDE DEF P0, P1, N0, N1, M, DF, G
<1>12. /\ N0 * P0 \in Int /\ N1 * P1 \in Int /\ N0 * (P1 - P0) \in Int /\ P1 * M \in Int
  BY <1>2, <1>3, <1>4
<1>13. N1 * P1 = DF + N0 * P0 + N0 * (P1 - P0) + (P1 * M - DF)
  <2>1. N1 * P1 = (N0 + M) * P1
    BY <1>4
  <2>2. (N0 + M) * P1 = N0 * P0 + N0 * (P1 - P0) + P1 * M
    BY <1>2, <1>3, <1>4
  <2> QED BY <1>5, <1>12, <2>1, <2>2
<1>14. CASE s \in Traded(ledger) /\ P0 > 0
  BY <1>2, <1>5, <1>6, <1>8, <1>9, <1>10, <1>12, <1>13, <1>14
<1>15. CASE s \in Traded(ledger) /\ ~(P0 > 0)
  <2>1. N0 * P0 = 0
    BY <1>2, <1>3, <1>15
  <2> QED BY <1>2, <1>6, <1>8, <1>9, <1>12, <1>15, <2>1
<1>16. CASE s \notin Traded(ledger)
  <2>1. N0 * P0 = 0 /\ N1 * P1 = 0 /\ DF = 0
    BY <1>2, <1>11, <1>16
  <2> QED BY <1>6, <1>8, <1>9, <1>16, <2>1
<1> QED BY <1>14, <1>15, <1>16

\* The gain of a day is what prices gained on the shares held overnight and what its trades
\* gained.
LEMMA DayGainExplained ==
  ASSUME NEW w, IsWindow(w), w.ledger = ledger, NEW d \in Int, w.from < d, d <= w.to
  PROVE  LET known == Priced(w, d - 1)
             price(s) == PriceOn(w, s, d)
         IN  ValueOn(w, d) - FlowOn(w, d) - ValueOn(w, d - 1) =
               SumFunction([s \in known |-> Net(s, d - 1) * (price(s) - PriceOn(w, s, d - 1))])
               + SumFunction([i \in {i \in Stored(ledger) : ledger[i].day = d /\ ledger[i].symbol \in known} |->
                                TradeGain(i, price(ledger[i].symbol))])
<1> DEFINE known == Priced(w, d - 1)
           R == {i \in Stored(ledger) : ledger[i].day = d /\ ledger[i].symbol \in known}
           p == [s \in known |-> Net(s, d - 1) * (PriceOn(w, s, d) - PriceOn(w, s, d - 1))]
           t == [i \in R |-> TradeGain(i, PriceOn(w, ledger[i].symbol, d))]
           W1 == Worths(w, d)
           W0 == Worths(w, d - 1)
           F == Flows(w, d)
           PG == PriceGains(w, d)
           SG == SymbolGains(w, d)
           G == GainsAt(w, d)
           key == [i \in R |-> ledger[i].symbol]
           u == [s \in Symbols |-> F[s] + W0[s]]
           v == [s \in Symbols |-> PG[s] + SG[s]]
<1>1. \A s \in Symbols : /\ W1[s] \in Int /\ F[s] \in Int /\ W0[s] \in Int
                         /\ PG[s] \in Int /\ SG[s] \in Int
                         /\ W1[s] = F[s] + W0[s] + PG[s] + SG[s]
  <2>1. ASSUME NEW s \in Symbols
        PROVE  /\ W1[s] \in Int /\ F[s] \in Int /\ W0[s] \in Int
               /\ PG[s] \in Int /\ SG[s] \in Int
               /\ W1[s] = F[s] + W0[s] + PG[s] + SG[s]
    BY SymbolGainExplained
  <2> QED BY <2>1
<1>2. d - 1 \in Int /\ IsFiniteSet(Symbols)
  BY RecordedRows
<1>3. /\ ValueOn(w, d) = SumFunctionOnSet(W1, Symbols)
      /\ ValueOn(w, d - 1) = SumFunctionOnSet(W0, Symbols)
      /\ FlowOn(w, d) = SumFunctionOnSet(F, Symbols)
  <2>1. ValueOn(w, d) = SumFunctionOnSet(W1, Symbols)
    BY ValueIsSum
  <2>2. ValueOn(w, d - 1) = SumFunctionOnSet(W0, Symbols)
    BY <1>2, ValueIsSum
  <2>3. FlowOn(w, d) = SumFunctionOnSet(F, Symbols)
    BY FlowIsSum
  <2> QED BY <2>1, <2>2, <2>3
<1>4. known \in SUBSET Symbols
  <2>1. \A i \in Stored(ledger) : ledger[i].symbol \in Symbols
    BY RecordedFields DEF IsWindow
  <2> QED BY <2>1 DEF Priced, Traded
<1>5. SumFunction(p) = SumFunctionOnSet(PG, Symbols)
  <2>1. DOMAIN p = known
    OBVIOUS
  <2>2. \A s \in known : PG[s] = p[s]
    BY <1>4 DEF PriceGains
  <2>3. \A s \in Symbols \ known : PG[s] = 0
    BY DEF PriceGains
  <2>4. \A s \in Symbols : PG[s] \in Int
    BY <1>1
  <2> HIDE DEF p, PG, known
  <2>5. SumFunctionOnSet(PG, Symbols) = SumFunctionOnSet(p, known)
    BY <1>2, <1>4, <2>2, <2>3, <2>4, SumOverMore
  <2> QED BY <2>1, <2>5, SumOver
<1>6. SumFunction(t) = SumFunctionOnSet(SG, Symbols)
  <2>1. IsFiniteSet(R) /\ R \subseteq Stored(ledger)
    BY FS_Subset DEF IsWindow, Recorded
  <2>2. ASSUME NEW s \in Symbols
        PROVE  SG[s] = SumFunctionOnSet(G, {i \in R : key[i] = s})
    <3> DEFINE Rs == {i \in R : key[i] = s}
    <3>1. SG[s] = IF s \in known THEN SumFunctionOnSet(G, OnDay(ledger, s, d)) ELSE 0
      BY DEF SymbolGains
    <3>2. s \in known => Rs = OnDay(ledger, s, d)
      BY DEF OnDay, OfSymbol
    <3>3. s \notin known => Rs = {}
      OBVIOUS
    <3> HIDE DEF Rs, SG, G, known
    <3>4. s \notin known => SumFunctionOnSet(G, Rs) = 0
      BY <3>3, SumEmpty
    <3> QED BY <3>1, <3>2, <3>4 DEF Rs
  <2>3. ASSUME NEW i \in R PROVE G[i] \in Int /\ t[i] = G[i] /\ key[i] \in Symbols
    <3>1. i \in Stored(ledger) /\ ledger[i].day = d /\ ledger[i].symbol \in known
      OBVIOUS
    <3>2. ledger[i].symbol \in Symbols
      BY <1>4, <3>1
    <3>3. PriceOn(w, ledger[i].symbol, d - 1) > 0
      BY <3>1 DEF Priced
    <3>4. PriceOn(w, ledger[i].symbol, d) > 0
      <4>1. w.to \in Nat /\ d - 1 < w.to /\ d - 1 <= d
        BY DEF IsWindow
      <4> QED BY <1>2, <3>2, <3>3, <4>1, PricesStay
    <3>5. G[i] \in Int
      BY <3>1, <3>4, TradeGainIs
    <3>6. t[i] = G[i] /\ key[i] = ledger[i].symbol
      BY <3>1 DEF GainsAt
    <3> QED BY <3>2, <3>5, <3>6
  <2>4. DOMAIN t = R
    OBVIOUS
  <2> HIDE DEF t, R, G, key, SG, known
  <2>5. GroupedBy(key, G, SG, R, Symbols)
    BY <2>2 DEF GroupedBy
  <2>6. SumFunctionOnSet(G, R) = SumFunctionOnSet(SG, Symbols)
    <3>1. \A i \in R : G[i] \in Int
      BY <2>3
    <3>2. \A i \in R : key[i] \in Symbols
      BY <2>3
    <3> QED BY <1>2, <2>1, <2>5, <3>1, <3>2, SumGrouped
  <2>7. SumFunctionOnSet(G, R) = SumFunctionOnSet(t, R)
    BY <2>1, <2>3, SumsSame
  <2> QED BY <2>4, <2>6, <2>7, SumOver
<1>7. \A s \in Symbols : u[s] = F[s] + W0[s] /\ v[s] = PG[s] + SG[s]
  OBVIOUS
<1> HIDE DEF p, t, W1, W0, F, PG, SG, u, v
<1>8. SumFunctionOnSet(u, Symbols) = SumFunctionOnSet(F, Symbols) + SumFunctionOnSet(W0, Symbols)
  BY <1>1, <1>2, <1>7, SumPlus
<1>9. SumFunctionOnSet(v, Symbols) = SumFunctionOnSet(PG, Symbols) + SumFunctionOnSet(SG, Symbols)
  BY <1>1, <1>2, <1>7, SumPlus
<1>10. \A s \in Symbols : u[s] \in Int /\ v[s] \in Int /\ W1[s] = u[s] + v[s]
  BY <1>1, <1>7
<1>11. SumFunctionOnSet(W1, Symbols) = SumFunctionOnSet(u, Symbols) + SumFunctionOnSet(v, Symbols)
  BY <1>2, <1>10, SumPlus
<1>12. /\ SumFunctionOnSet(F, Symbols) \in Int /\ SumFunctionOnSet(W0, Symbols) \in Int
       /\ SumFunctionOnSet(PG, Symbols) \in Int /\ SumFunctionOnSet(SG, Symbols) \in Int
  BY <1>1, <1>2, SumIsInt
<1>13. ValueOn(w, d) - FlowOn(w, d) - ValueOn(w, d - 1) = SumFunction(p) + SumFunction(t)
  BY <1>3, <1>5, <1>6, <1>8, <1>9, <1>11, <1>12
<1> QED BY <1>13 DEF p, t

\* A sum of one term.
LEMMA SumSingle ==
  ASSUME NEW x, NEW f, f[x] \in Int
  PROVE  SumFunctionOnSet(f, {x}) = f[x]
<1> DEFINE S == {x}
<1>1. IsFiniteSet(S) /\ x \in S /\ \A y \in S : f[y] \in Int
  BY FS_Singleton
<1>2. S \ {x} = {}
  OBVIOUS
<1> HIDE DEF S
<1>3. SumFunctionOnSet(f, S) = SumFunctionOnSet(f, S \ {x}) + f[x]
  BY <1>1, SumRemove
<1>4. SumFunctionOnSet(f, S \ {x}) = 0
  BY <1>2, SumEmpty
<1> QED BY <1>3, <1>4 DEF S

\* A window over one symbol.
LEMMA OneSymbol ==
  ASSUME NEW w, IsWindow(w), NEW s \in Symbols, Traded(w.ledger) = {s},
         NEW d \in Int, d <= w.to
  PROVE  /\ ValueOn(w, d) = Worths(w, d)[s]
         /\ FlowOn(w, d) = Flows(w, d)[s]
<1> DEFINE F == Flows(w, d)
           W == Worths(w, d)
           T == {s}
<1>1. \A x \in Symbols : W[x] \in Int /\ F[x] \in Int
  <2>1. ASSUME NEW x \in Symbols PROVE W[x] \in Int
    <3>1. WorthOn(w, x, d) \in Nat /\ W[x] = WorthOn(w, x, d)
      BY WorthsTyped
    <3> QED BY <3>1
  <2>2. \A x \in Symbols : F[x] \in Int
    BY FlowIsSum
  <2> QED BY <2>1, <2>2
<1>2. ASSUME NEW x \in Symbols \ T PROVE W[x] = 0 /\ F[x] = 0
  <2>1. x \notin Traded(w.ledger)
    OBVIOUS
  <2>2. WorthOn(w, x, d) = 0 /\ W[x] = WorthOn(w, x, d)
    BY <2>1, WorthsTyped
  <2>3. OfSymbol(w.ledger, x) = {}
    BY <2>1, UntradedIsNothing
  <2>4. DayFlow(w, x, d) = 0
    BY <2>3, QuietDay
  <2> QED BY <2>2, <2>4 DEF Flows
<1>3. ValueOn(w, d) = SumFunctionOnSet(W, Symbols) /\ FlowOn(w, d) = SumFunctionOnSet(F, Symbols)
  <2>1. ValueOn(w, d) = SumFunctionOnSet(W, Symbols)
    BY ValueIsSum
  <2>2. FlowOn(w, d) = SumFunctionOnSet(F, Symbols)
    BY FlowIsSum
  <2> QED BY <2>1, <2>2
<1>4. T \in SUBSET Symbols /\ IsFiniteSet(Symbols)
  BY RecordedRows
<1> HIDE DEF F, W, T
<1>5. SumFunctionOnSet(W, Symbols) = SumFunctionOnSet(W, T)
  BY <1>1, <1>2, <1>4, SumOverMore
<1>6. SumFunctionOnSet(F, Symbols) = SumFunctionOnSet(F, T)
  BY <1>1, <1>2, <1>4, SumOverMore
<1>7. SumFunctionOnSet(W, T) = W[s] /\ SumFunctionOnSet(F, T) = F[s]
  BY <1>1, SumSingle DEF T
<1> QED BY <1>3, <1>5, <1>6, <1>7 DEF F, W

\* The window of a ledger that only carries symbol s over.
CarriesOver(w, s) ==
  /\ IsWindow(w) /\ w.ledger = ledger
  /\ Traded(ledger) = {s}
  /\ \A i \in Stored(ledger) : ledger[i].opening

\* The shares of s on a day.
SharesAt(s, d) == NetQuantity(ledger, Upto(ledger, s, d))

\* Where everything was carried over, the shares only grow, and a row moves its shares at the
\* price of its day.
LEMMA CarriedGrows ==
  ASSUME NEW w, NEW s \in Symbols, CarriesOver(w, s), NEW d \in Int
  PROVE  /\ SharesAt(s, d) = SharesAt(s, d - 1) + NetQuantity(ledger, OnDay(ledger, s, d))
         /\ NetQuantity(ledger, OnDay(ledger, s, d)) \in Nat
         /\ SharesAt(s, d) \in Nat /\ SharesAt(s, d - 1) \in Nat
         /\ PriceOn(w, s, d) > 0 =>
               DayFlow(w, s, d) = PriceOn(w, s, d) * NetQuantity(ledger, OnDay(ledger, s, d))
<1> DEFINE X == OnDay(ledger, s, d)
           N == NetOf(ledger)
           G == GainsAt(w, d)
<1>1. Recorded(ledger) /\ AllReplay(ledger) /\ FiniteLedger(ledger) /\ IsWindow(w) /\ w.ledger = ledger
  BY RecordedIsFinite DEF CarriesOver, IsWindow
<1>2. X \in SUBSET Stored(ledger)
  BY DEF OnDay, OfSymbol
<1>3. ASSUME NEW i \in X
      PROVE  /\ N[i] \in Nat /\ G[i] = 0
  <2>1. i \in Stored(ledger) /\ ledger[i].opening /\ ledger[i].side = "buy" /\ ledger[i].quantity \in Nat
    BY <1>1, <1>2, RecordedFields DEF CarriesOver, IsTrade
  <2>2. N[i] = ledger[i].quantity
    BY <2>1 DEF NetOf, Signed
  <2>3. G[i] = 0
    BY <2>1 DEF GainsAt, TradeGain
  <2> QED BY <2>1, <2>2, <2>3
<1>4. IsFiniteSet(X) /\ NetQuantity(ledger, X) = SumFunctionOnSet(N, X)
  BY <1>1, <1>2, NetIsSum
<1> HIDE DEF X, N, G
<1>5. NetQuantity(ledger, X) \in Nat
  BY <1>3, <1>4, SumIsNat
<1>6. SharesAt(s, d) = SharesAt(s, d - 1) + NetQuantity(ledger, X)
  BY <1>1, NetGrows DEF X, SharesAt
<1>7. SharesAt(s, d) \in Nat /\ SharesAt(s, d - 1) \in Nat
  <2>1. ASSUME NEW e \in Int PROVE SharesAt(s, e) \in Nat
    <3>1. SharesOn(w, s, e) = SharesAt(s, e) /\ SharesOn(w, s, e) \in Nat
      BY <1>1, SharesAreNet DEF SharesAt
    <3> QED BY <3>1
  <2>2. d - 1 \in Int
    OBVIOUS
  <2> QED BY <2>1, <2>2
<1>8. PriceOn(w, s, d) > 0 => DayFlow(w, s, d) = PriceOn(w, s, d) * NetQuantity(ledger, X)
  <2> SUFFICES ASSUME PriceOn(w, s, d) > 0
               PROVE  DayFlow(w, s, d) = PriceOn(w, s, d) * NetQuantity(ledger, X)
    OBVIOUS
  <2>1. SumFunctionOnSet(G, X) = PriceOn(w, s, d) * NetQuantity(ledger, X) - DayFlow(w, s, d)
    BY <1>1, DayGains DEF G, X
  <2>2. SumFunctionOnSet(G, X) = 0
    BY <1>3, <1>4, SumZero
  <2>3. DayFlow(w, s, d) \in Int
    BY <1>1, DayFlowIsSum
  <2>4. PriceOn(w, s, d) \in Nat
    BY <1>1, PriceCases
  <2>5. PriceOn(w, s, d) * NetQuantity(ledger, X) \in Nat
    BY <1>5, <2>4, ProductNat
  <2> QED BY <2>1, <2>2, <2>3, <2>5
<1> QED BY <1>5, <1>6, <1>7, <1>8 DEF X

\* The recursion behind the two products of Growth.
ProductStep(f, g, T) == IF T = {} THEN 1 ELSE f[Max(T)] * g[T \ {Max(T)}]

IsProduct(f, g, S) == g = [T \in SUBSET S |-> ProductStep(f, g, T)]

\* There is a table of the products over the subsets of a finite set of days.
LEMMA ProductExists ==
  ASSUME NEW S, IsFiniteSet(S), S \subseteq Int, NEW f, \A x \in S : f[x] \in Int
  PROVE  \E g \in [SUBSET S -> Int] : IsProduct(f, g, S)
<1> DEFINE pick == [T \in (SUBSET S) \ {{}} |-> Max(T)]
           step == [p \in S \X Int |-> f[p[1]] * p[2]]
<1>1. Picks(pick, S)
  <2>1. ASSUME NEW T \in (SUBSET S) \ {{}} PROVE pick[T] \in T
    <3>1. IsFiniteSet(T) /\ T # {} /\ T \subseteq Int
      BY FS_Subset
    <3>2. Max(T) \in T
      BY <3>1, MaxIsGreatest
    <3> QED BY <3>2
  <2>2. \A T \in (SUBSET S) \ {{}} : pick[T] \in S
    BY <2>1
  <2>3. pick \in [(SUBSET S) \ {{}} -> S]
    BY <2>2
  <2> QED BY <2>1, <2>3 DEF Picks
<1>2. step \in [S \X Int -> Int]
  <2> SUFFICES ASSUME NEW x \in S, NEW n \in Int PROVE f[x] * n \in Int
    OBVIOUS
  <2>1. f[x] \in Int
    OBVIOUS
  <2> QED BY <2>1
<1>3. PICK g \in [SUBSET S -> Int] : FoldsOver(g, S, 1, pick, step)
  <2> DEFINE V == Int
             base == 1
  <2>1. base \in V /\ step \in [S \X V -> V]
    BY <1>2
  <2> HIDE DEF pick, step, V, base
  <2>2. \E g \in [SUBSET S -> V] : FoldsOver(g, S, base, pick, step)
    BY <1>1, <2>1, TypedFoldExists
  <2> QED BY <2>2 DEF V, base
<1>4. ASSUME NEW T \in SUBSET S PROVE g[T] = ProductStep(f, g, T)
  <2>1. CASE T = {}
    BY <2>1, <1>3 DEF FoldsOver, ProductStep
  <2>2. CASE T # {}
    <3>1. g[T] = step[<<pick[T], g[Rest(pick, T)]>>]
      BY <1>3, <2>2 DEF FoldsOver
    <3>2. pick[T] = Max(T)
      BY <2>2
    <3>3. pick[T] \in S
      BY <1>1, <2>2 DEF Picks
    <3>4. Rest(pick, T) \in SUBSET S
      BY DEF Rest
    <3>5. g[Rest(pick, T)] \in Int
      BY <3>4
    <3>6. step[<<pick[T], g[Rest(pick, T)]>>] = f[pick[T]] * g[Rest(pick, T)]
      <4> HIDE DEF pick
      <4> QED BY <3>3, <3>5
    <3> QED BY <3>1, <3>2, <3>6, <2>2 DEF ProductStep, Rest
  <2> QED BY <2>1, <2>2
<1>5. IsProduct(f, g, S)
  <2>1. g = [T \in SUBSET S |-> g[T]]
    OBVIOUS
  <2> QED BY <2>1, <1>4 DEF IsProduct
<1> QED BY <1>5

\* Two solutions agree.
LEMMA ProductsAgree ==
  ASSUME NEW S, IsFiniteSet(S), S \subseteq Int, NEW f,
         NEW g, IsProduct(f, g, S), NEW h, IsProduct(f, h, S)
  PROVE  g = h
<1> DEFINE Bad == {T \in SUBSET S : g[T] # h[T]}
<1>1. Bad = {}
  <2> SUFFICES ASSUME Bad # {} PROVE FALSE
    OBVIOUS
  <2>1. PICK T \in Bad : \A r \in Bad : ~ (r \subseteq T /\ r # T)
    <3>1. Bad \subseteq SUBSET S /\ IsFiniteSet(S) /\ Bad # {}
      OBVIOUS
    <3> HIDE DEF Bad
    <3> QED BY ONLY <3>1, SmallestSubset
  <2>2. g[T] = ProductStep(f, g, T) /\ h[T] = ProductStep(f, h, T)
    BY DEF IsProduct
  <2>3. T # {}
    BY <2>2 DEF ProductStep
  <2>4. Max(T) \in T
    <3>1. IsFiniteSet(T) /\ T \subseteq Int
      BY FS_Subset
    <3> QED BY <2>3, <3>1, MaxIsGreatest
  <2>5. g[T \ {Max(T)}] = h[T \ {Max(T)}]
    BY <2>1, <2>4
  <2> QED BY <2>1, <2>2, <2>3, <2>5 DEF ProductStep
<1>2. /\ g = [T \in SUBSET S |-> g[T]]
      /\ h = [T \in SUBSET S |-> h[T]]
  <2>1. g = [T \in SUBSET S |-> ProductStep(f, g, T)] /\ h = [T \in SUBSET S |-> ProductStep(f, h, T)]
    BY DEF IsProduct
  <2> QED BY <2>1
<1> QED BY <1>1, <1>2

\* The days Growth counts, and its factors.
Counted(series, d) == {e \in LaterDays(series) : e <= d /\ series[e - 1].value > 0}
Endings(series, S) == [e \in S |-> series[e].value - series[e].flow]
Beginnings(series, S) == [e \in S |-> series[e - 1].value]

\* Growth is the quotient of the products of the endings and of the beginnings.
LEMMA GrowthUnfolds ==
  ASSUME NEW series, NEW d,
         IsFiniteSet(Counted(series, d)), Counted(series, d) \subseteq Int,
         \A e \in Counted(series, d) :
            series[e].value - series[e].flow \in Int /\ series[e - 1].value \in Int
  PROVE  \E g, h \in [SUBSET Counted(series, d) -> Int] :
            /\ IsProduct(Endings(series, Counted(series, d)), g, Counted(series, d))
            /\ IsProduct(Beginnings(series, Counted(series, d)), h, Counted(series, d))
            /\ Growth(series, d).num = g[Counted(series, d)]
            /\ Growth(series, d).den = h[Counted(series, d)]
<1> DEFINE S == Counted(series, d)
           f == Endings(series, S)
           b == Beginnings(series, S)
           U(x) == [T \in SUBSET S |-> IF T = {} THEN 1
                        ELSE (series[Max(T)].value - series[Max(T)].flow) * x[T \ {Max(T)}]]
           D(x) == [T \in SUBSET S |-> IF T = {} THEN 1
                        ELSE series[Max(T) - 1].value * x[T \ {Max(T)}]]
<1>1. /\ Growth(series, d).num = (CHOOSE x : x = U(x))[S]
      /\ Growth(series, d).den = (CHOOSE x : x = D(x))[S]
  BY DEF Growth, MapThenFoldSet, Counted
<1>2. IsFiniteSet(S) /\ S \subseteq Int
  OBVIOUS
<1>3. \A e \in S : /\ f[e] \in Int /\ f[e] = series[e].value - series[e].flow
                   /\ b[e] \in Int /\ b[e] = series[e - 1].value
  BY DEF Endings, Beginnings
<1>4. \A T \in (SUBSET S) \ {{}} : Max(T) \in S
  <2>1. ASSUME NEW T \in (SUBSET S) \ {{}} PROVE Max(T) \in T
    <3>1. IsFiniteSet(T) /\ T # {} /\ T \subseteq Int
      BY <1>2, FS_Subset
    <3> QED BY <3>1, MaxIsGreatest
  <2> QED BY <2>1
<1> HIDE DEF S, f, b
<1>5. \A x : x = U(x) <=> IsProduct(f, x, S)
  <2> TAKE x
  <2>1. U(x) = [T \in SUBSET S |-> ProductStep(f, x, T)]
    BY <1>3, <1>4 DEF ProductStep
  <2> QED BY <2>1 DEF IsProduct
<1>6. \A x : x = D(x) <=> IsProduct(b, x, S)
  <2> TAKE x
  <2>1. D(x) = [T \in SUBSET S |-> ProductStep(b, x, T)]
    BY <1>3, <1>4 DEF ProductStep
  <2> QED BY <2>1 DEF IsProduct
<1>7. PICK g \in [SUBSET S -> Int] : IsProduct(f, g, S)
  BY <1>2, <1>3, ProductExists
<1>8. PICK h \in [SUBSET S -> Int] : IsProduct(b, h, S)
  BY <1>2, <1>3, ProductExists
<1>9. (CHOOSE x : x = U(x)) = g
  <2> DEFINE x == CHOOSE x : x = U(x)
  <2>1. x = U(x)
    BY <1>5, <1>7
  <2> HIDE DEF x
  <2>2. IsProduct(f, x, S)
    BY <1>5, <2>1
  <2>3. x = g
    BY <1>2, <1>7, <2>2, ProductsAgree
  <2> QED BY <2>3 DEF x
<1>10. (CHOOSE x : x = D(x)) = h
  <2> DEFINE x == CHOOSE x : x = D(x)
  <2>1. x = D(x)
    BY <1>6, <1>8
  <2> HIDE DEF x
  <2>2. IsProduct(b, x, S)
    BY <1>6, <2>1
  <2>3. x = h
    BY <1>2, <1>8, <2>2, ProductsAgree
  <2> QED BY <2>3 DEF x
<1> HIDE DEF U, D
<1>11. Growth(series, d).num = g[S] /\ Growth(series, d).den = h[S]
  BY <1>1, <1>9, <1>10
<1> QED BY <1>7, <1>8, <1>11 DEF S, f, b

\* The days after a, up to e.
After(a, e) == (a + 1)..e

\* The days after a, up to e: e is the last of them.
LEMMA AfterGrows ==
  ASSUME NEW a \in Int, NEW e \in Int, a < e
  PROVE  /\ e \in After(a, e) /\ Max(After(a, e)) = e
         /\ After(a, e) \ {e} = After(a, e - 1)
<1> DEFINE S == After(a, e)
<1>1. e \in S /\ S \subseteq Int /\ \A x \in S : x <= e
  BY DEF After
<1>2. IsFiniteSet(S)
  BY FS_Interval DEF After
<1>3. After(a, e) \ {e} = After(a, e - 1)
  BY DEF After
<1> HIDE DEF S
<1>4. Max(S) \in S /\ \A x \in S : x <= Max(S)
  BY <1>1, <1>2, MaxIsGreatest
<1>5. Max(S) \in Int /\ e <= Max(S) /\ Max(S) <= e
  BY <1>1, <1>4
<1>6. Max(S) = e
  BY <1>5
<1> QED BY <1>1, <1>3, <1>6 DEF S

\* A day more multiplies its factor.
LEMMA ProductOfOneMore ==
  ASSUME NEW a \in Int, NEW d \in Int, NEW f, NEW g, IsProduct(f, g, After(a, d)),
         NEW e \in Int, a < e, e <= d
  PROVE  g[After(a, e)] = f[e] * g[After(a, e - 1)]
<1> DEFINE T == After(a, e)
<1>1. T \in SUBSET After(a, d) /\ T # {}
  <2>1. \A x \in T : x \in After(a, d)
    BY DEF After
  <2>2. e \in T
    BY AfterGrows
  <2> QED BY <2>1, <2>2
<1>2. Max(T) = e /\ T \ {e} = After(a, e - 1)
  BY AfterGrows
<1> HIDE DEF T
<1>3. g[T] = ProductStep(f, g, T)
  BY <1>1 DEF IsProduct
<1>4. g[T] = f[e] * g[After(a, e - 1)]
  BY <1>1, <1>2, <1>3 DEF ProductStep
<1> QED BY <1>4 DEF T

\* Reordering four factors.
LEMMA FactorsMove ==
  ASSUME NEW n \in Int, NEW p \in Int, NEW q \in Int, NEW r \in Int, NEW x \in Int, NEW y \in Int,
         x * p = y * q
  PROVE  ((n * r) * x) * p = ((n * q) * y) * r
<1>1. ((n * r) * x) * p = (n * r) * (x * p)
  OBVIOUS
<1>2. ((n * q) * y) * r = (n * r) * (y * q)
  OBVIOUS
<1> QED BY <1>1, <1>2

\* The daily returns of shares that are only held multiply to the return of their price.
LEMMA Telescopes ==
  ASSUME NEW a \in Int, NEW d \in Int, a <= d,
         NEW P \in [a..d -> Int], NEW N \in [a..d -> Int], NEW f, NEW b,
         \A e \in After(a, d) : f[e] = N[e - 1] * P[e] /\ b[e] = N[e - 1] * P[e - 1],
         NEW g \in [SUBSET After(a, d) -> Int], IsProduct(f, g, After(a, d)),
         NEW h \in [SUBSET After(a, d) -> Int], IsProduct(b, h, After(a, d))
  PROVE  g[After(a, d)] * P[a] = h[After(a, d)] * P[d]
<1> DEFINE Bad == {e \in a..d : g[After(a, e)] * P[a] # h[After(a, e)] * P[e]}
           id == [e \in Bad |-> e]
<1>1. Bad = {}
  <2> SUFFICES ASSUME Bad # {} PROVE FALSE
    OBVIOUS
  <2>1. IsFiniteSet(Bad)
    BY FS_Interval, FS_Subset
  <2>2. \A e \in Bad : id[e] = e /\ id[e] \in Int
    OBVIOUS
  <2>3. PICK e \in Bad : \A x \in Bad : id[e] <= id[x]
    <3> HIDE DEF Bad, id
    <3> QED BY <2>1, <2>2, LeastExists
  <2>4. e \in Int /\ a <= e /\ e <= d
    OBVIOUS
  <2>5. CASE e = a
    <3>1. After(a, e) = {}
      BY <2>5 DEF After
    <3>2. {} \in SUBSET After(a, d)
      OBVIOUS
    <3>3. g[{}] = 1 /\ h[{}] = 1
      BY <3>2 DEF IsProduct, ProductStep
    <3> QED BY <2>5, <3>1, <3>3
  <2>6. CASE e # a
    <3> DEFINE c == e - 1
    <3>1. c \in a..d /\ c < e /\ a < e /\ e \in a..d
      BY <2>4, <2>6
    <3>2. c \notin Bad
      <4> SUFFICES ASSUME c \in Bad PROVE FALSE
        OBVIOUS
      <4>1. id[e] <= id[c]
        BY <2>3
      <4>2. e <= c
        BY <2>2, <4>1
      <4> QED BY <2>4, <4>2
    <3>3. g[After(a, c)] * P[a] = h[After(a, c)] * P[c]
      BY <3>1, <3>2
    <3>4. g[After(a, e)] = f[e] * g[After(a, c)] /\ h[After(a, e)] = b[e] * h[After(a, c)]
      <4>1. /\ a \in Int /\ d \in Int /\ e \in Int /\ a < e /\ e <= d
            /\ IsProduct(f, g, After(a, d)) /\ IsProduct(b, h, After(a, d))
        BY <2>4, <3>1
      <4> HIDE DEF Bad, id, c
      <4>2. g[After(a, e)] = f[e] * g[After(a, e - 1)]
        BY ONLY <4>1, ProductOfOneMore
      <4>3. h[After(a, e)] = b[e] * h[After(a, e - 1)]
        BY ONLY <4>1, ProductOfOneMore
      <4> QED BY <4>2, <4>3 DEF c
    <3>5. e \in After(a, d)
      BY <2>4, <3>1 DEF After
    <3>6. f[e] = N[c] * P[e] /\ b[e] = N[c] * P[c]
      BY <3>5
    <3>7. g[After(a, c)] \in Int /\ h[After(a, c)] \in Int
      <4>1. After(a, c) \in SUBSET After(a, d)
        BY <2>4 DEF After
      <4> QED BY <4>1
    <3> DEFINE n == N[c]
               p == P[a]
               q == P[c]
               r == P[e]
               x == g[After(a, c)]
               y == h[After(a, c)]
    <3>8. n \in Int /\ p \in Int /\ q \in Int /\ r \in Int /\ x \in Int /\ y \in Int /\ x * p = y * q
      <4>1. a \in a..d /\ c \in a..d /\ e \in a..d
        BY <3>1
      <4>2. n \in Int /\ p \in Int /\ q \in Int /\ r \in Int
        <5> HIDE DEF c, Bad, id
        <5> QED BY <4>1
      <4>3. x * p = y * q
        BY <3>3
      <4> QED BY <3>7, <4>2, <4>3
    <3>9. g[After(a, e)] = (n * r) * x /\ h[After(a, e)] = (n * q) * y
      BY <3>4, <3>6
    <3>10. g[After(a, e)] * P[a] # h[After(a, e)] * P[e]
      OBVIOUS
    <3>11. ((n * r) * x) * p # ((n * q) * y) * r
      BY <3>9, <3>10
    <3> HIDE DEF n, p, q, r, x, y, c, Bad, id
    <3>12. ((n * r) * x) * p = ((n * q) * y) * r
      BY <3>8, FactorsMove
    <3> QED BY <3>11, <3>12
  <2> QED BY <2>5, <2>6
<1>2. d \in a..d
  OBVIOUS
<1> QED BY <1>1, <1>2

\* In such a window the shares only grow, and a value once there stays.
LEMMA CarriedStays ==
  ASSUME NEW w, NEW s \in Symbols, CarriesOver(w, s),
         NEW a \in Int, NEW e \in Int, a <= e, e <= w.to,
         ValueOn(w, a) > 0
  PROVE  /\ ValueOn(w, e) > 0 /\ PriceOn(w, s, e) > 0 /\ SharesAt(s, e) > 0
<1>1. IsWindow(w) /\ Traded(w.ledger) = {s} /\ w.to \in Nat /\ w.ledger = ledger
  BY DEF CarriesOver, IsWindow
<1>2. ASSUME NEW d \in Int, d <= w.to
      PROVE  /\ ValueOn(w, d) = SharesAt(s, d) * PriceOn(w, s, d)
             /\ SharesAt(s, d) \in Nat /\ PriceOn(w, s, d) \in Nat
  <2>1. ValueOn(w, d) = Worths(w, d)[s]
    BY <1>1, <1>2, OneSymbol
  <2>2. SharesOn(w, s, d) = SharesAt(s, d) /\ SharesOn(w, s, d) \in Nat
    BY <1>1, SharesAreNet DEF IsWindow, SharesAt
  <2>3. Worths(w, d)[s] = SharesAt(s, d) * PriceOn(w, s, d)
    BY <2>2 DEF Worths, WorthOn
  <2> QED BY <1>1, <2>1, <2>2, <2>3, PriceCases
<1>3. SharesAt(s, a) > 0 /\ PriceOn(w, s, a) > 0 /\ a <= w.to
  <2> DEFINE n == SharesAt(s, a)
             p == PriceOn(w, s, a)
  <2>1. a <= w.to
    BY <1>1
  <2>2. n \in Nat /\ p \in Nat /\ n * p > 0
    BY <1>2, <2>1
  <2> HIDE DEF n, p
  <2>3. n = 0 => n * p = 0
    BY <2>2
  <2>4. p = 0 => n * p = 0
    BY <2>2
  <2>5. n > 0 /\ p > 0
    BY <2>2, <2>3, <2>4
  <2> QED BY <2>1, <2>5 DEF n, p
<1> DEFINE Bad == {d \in a..e : ~(SharesAt(s, d) > 0)}
           id == [d \in Bad |-> d]
<1>4. Bad = {}
  <2> SUFFICES ASSUME Bad # {} PROVE FALSE
    OBVIOUS
  <2>1. IsFiniteSet(Bad)
    BY FS_Interval, FS_Subset
  <2>2. \A d \in Bad : id[d] = d /\ id[d] \in Int
    OBVIOUS
  <2>3. PICK d \in Bad : \A x \in Bad : id[d] <= id[x]
    <3> HIDE DEF Bad, id
    <3> QED BY <2>1, <2>2, LeastExists
  <2>4. d \in Int /\ a < d /\ d <= e /\ ~(SharesAt(s, d) > 0)
    <3>1. d # a
      BY <1>3
    <3> QED BY <3>1
  <2>5. d - 1 \notin Bad
    <3> SUFFICES ASSUME d - 1 \in Bad PROVE FALSE
      OBVIOUS
    <3>1. id[d] <= id[d - 1]
      BY <2>3
    <3>2. d <= d - 1
      BY <2>2, <3>1
    <3> QED BY <2>4, <3>2
  <2>6. SharesAt(s, d - 1) > 0
    <3>1. d - 1 \in a..e
      BY <2>4
    <3> QED BY <2>5, <3>1
  <2>7. /\ SharesAt(s, d) = SharesAt(s, d - 1) + NetQuantity(ledger, OnDay(ledger, s, d))
        /\ NetQuantity(ledger, OnDay(ledger, s, d)) \in Nat /\ SharesAt(s, d - 1) \in Nat
    BY <2>4, CarriedGrows
  <2> HIDE DEF Bad, id
  <2> QED BY <2>4, <2>6, <2>7
<1>5. SharesAt(s, e) > 0
  <2>1. e \in a..e
    OBVIOUS
  <2> QED BY <1>4, <2>1
<1>6. PriceOn(w, s, e) > 0
  <2>1. CASE a = e
    BY <1>3, <2>1
  <2>2. CASE a # e
    <3>1. a < w.to
      BY <1>1, <2>2
    <3> QED BY <1>1, <1>3, <3>1, PricesStay
  <2> QED BY <2>1, <2>2
<1>7. ValueOn(w, e) > 0
  <2> DEFINE n == SharesAt(s, e)
             p == PriceOn(w, s, e)
  <2>1. n \in Nat \ {0} /\ p \in Nat \ {0} /\ ValueOn(w, e) = n * p
    BY <1>2, <1>5, <1>6
  <2> HIDE DEF n, p
  <2>2. n * p \in Nat \ {0}
    BY <2>1, ProductPositive
  <2> QED BY <2>1, <2>2
<1> QED BY <1>5, <1>6, <1>7

\* The first day of value, and its days after.
LEMMA CarriedGrowth ==
  ASSUME NEW w, NEW s \in Symbols, CarriesOver(w, s),
         NEW a \in Int, NEW d \in Int, w.from <= a, a <= d, d <= w.to,
         ValueOn(w, a) > 0, \A e \in w.from..d : ValueOn(w, e) > 0 => a <= e
  PROVE  Growth(Series(w), d).num * PriceOn(w, s, a) = Growth(Series(w), d).den * PriceOn(w, s, d)
<1> DEFINE from == w.from
           to == w.to
           series == Series(w)
           C == Counted(series, d)
           P == [e \in a..d |-> PriceOn(w, s, e)]
           N == [e \in a..d |-> SharesAt(s, e)]
<1>1. IsWindow(w) /\ Traded(w.ledger) = {s} /\ w.to \in Nat /\ w.from \in Nat /\ w.ledger = ledger
  BY DEF CarriesOver, IsWindow
<1>2. /\ DOMAIN series = from..to
      /\ \A e \in from..to : series[e].value = ValueOn(w, e) /\ series[e].flow = FlowOn(w, e)
  BY DEF Series
<1>3. LaterDays(series) = (from + 1)..to
  <2>1. Min(from..to) = from
    <3>1. from \in from..to /\ \A x \in from..to : from <= x
      BY <1>1
    <3>2. \A m \in from..to : (\A x \in from..to : m <= x) => m = from
      BY <3>1
    <3> QED BY <3>1, <3>2 DEF Min
  <2> QED BY <1>1, <1>2, <2>1 DEF LaterDays
<1>4. ASSUME NEW e \in Int, e <= to PROVE ValueOn(w, e) \in Nat
  BY <1>1, ValueIsSum
<1>5. C = After(a, d)
  <2>1. ASSUME NEW e \in C PROVE e \in After(a, d)
    <3>1. e \in (from + 1)..to /\ e <= d /\ series[e - 1].value > 0
      BY <1>3 DEF Counted
    <3>2. e - 1 \in from..to /\ e - 1 \in from..d
      BY <1>1, <3>1
    <3>3. ValueOn(w, e - 1) > 0
      BY <1>2, <3>1, <3>2
    <3>4. a <= e - 1
      BY <3>2, <3>3
    <3> QED BY <3>1, <3>4 DEF After
  <2>2. ASSUME NEW e \in After(a, d) PROVE e \in C
    <3>1. e \in Int /\ a + 1 <= e /\ e <= d
      BY DEF After
    <3>2. e \in (from + 1)..to /\ e - 1 \in from..to /\ e - 1 \in Int /\ a <= e - 1 /\ e - 1 <= to
      BY <1>1, <3>1
    <3>3. ValueOn(w, e - 1) > 0
      BY <3>2, CarriedStays
    <3>4. series[e - 1].value > 0
      BY <1>2, <3>2, <3>3
    <3> QED BY <1>3, <3>1, <3>2, <3>4 DEF Counted
  <2> QED BY <2>1, <2>2
<1>6. P \in [a..d -> Int] /\ N \in [a..d -> Int]
  <2>1. ASSUME NEW e \in a..d PROVE PriceOn(w, s, e) \in Int /\ SharesAt(s, e) \in Int
    <3>1. e \in Int
      OBVIOUS
    <3> QED BY <1>1, <3>1, PriceCases, CarriedGrows
  <2> QED BY <2>1
<1>7. ASSUME NEW e \in After(a, d)
      PROVE  /\ series[e].value - series[e].flow = N[e - 1] * P[e]
             /\ series[e - 1].value = N[e - 1] * P[e - 1]
             /\ series[e].value - series[e].flow \in Int /\ series[e - 1].value \in Int
  <2> DEFINE c == e - 1
  <2>1. /\ e \in Int /\ a < e /\ e <= d /\ c \in Int /\ a <= c /\ c <= to /\ e <= to /\ from < e
        /\ e \in from..to /\ c \in from..to /\ e \in a..d /\ c \in a..d
    BY <1>1 DEF After
  <2>2. PriceOn(w, s, c) > 0 /\ PriceOn(w, s, e) > 0
    <3>1. PriceOn(w, s, c) > 0
      BY <2>1, CarriedStays
    <3>2. a <= e
      BY <2>1
    <3>3. PriceOn(w, s, e) > 0
      BY <2>1, <3>2, CarriedStays
    <3> QED BY <3>1, <3>3
  <2>3. /\ SharesAt(s, e) = SharesAt(s, c) + NetQuantity(ledger, OnDay(ledger, s, e))
        /\ NetQuantity(ledger, OnDay(ledger, s, e)) \in Nat
        /\ SharesAt(s, e) \in Nat /\ SharesAt(s, c) \in Nat
        /\ DayFlow(w, s, e) = PriceOn(w, s, e) * NetQuantity(ledger, OnDay(ledger, s, e))
    BY <2>1, <2>2, CarriedGrows
  <2>4. SharesOn(w, s, e) = SharesAt(s, e) /\ SharesOn(w, s, c) = SharesAt(s, c)
    BY <1>1, <2>1, SharesAreNet DEF IsWindow, SharesAt
  <2>5. /\ ValueOn(w, e) = SharesAt(s, e) * PriceOn(w, s, e)
        /\ ValueOn(w, c) = SharesAt(s, c) * PriceOn(w, s, c)
    <3>1. ValueOn(w, e) = Worths(w, e)[s] /\ ValueOn(w, c) = Worths(w, c)[s]
      BY <1>1, <2>1, OneSymbol
    <3> QED BY <2>4, <3>1 DEF Worths, WorthOn
  <2>6. FlowOn(w, e) = DayFlow(w, s, e)
    <3>1. FlowOn(w, e) = Flows(w, e)[s]
      BY <1>1, <2>1, OneSymbol
    <3>2. e > w.from /\ PriceOn(w, s, e - 1) > 0
      BY <1>1, <2>1, <2>2
    <3> QED BY <3>1, <3>2 DEF Flows
  <2>7. PriceOn(w, s, e) \in Nat /\ PriceOn(w, s, c) \in Nat
    BY <1>1, <2>1, PriceCases
  <2> DEFINE p == PriceOn(w, s, e)
             q == PriceOn(w, s, c)
             n == SharesAt(s, c)
             m == NetQuantity(ledger, OnDay(ledger, s, e))
  <2>8. p \in Nat /\ q \in Nat /\ n \in Nat /\ m \in Nat
    BY <2>3, <2>7
  <2>9. /\ ValueOn(w, e) = (n + m) * p /\ ValueOn(w, c) = n * q /\ FlowOn(w, e) = p * m
    BY <2>3, <2>5, <2>6
  <2>10. N[c] = n /\ P[e] = p /\ P[c] = q
    BY <2>1
  <2>11. series[e].value = ValueOn(w, e) /\ series[e].flow = FlowOn(w, e) /\ series[c].value = ValueOn(w, c)
    BY <1>2, <2>1
  <2> HIDE DEF p, q, n, m, N, P, series
  <2>12. (n + m) * p - p * m = n * p /\ n * p \in Int /\ n * q \in Int
    BY <2>8
  <2>13. series[e].value - series[e].flow = n * p /\ series[c].value = n * q
    BY <2>9, <2>11, <2>12
  <2> QED BY <2>10, <2>12, <2>13
<1>8. IsFiniteSet(After(a, d)) /\ After(a, d) \subseteq Int
  BY FS_Interval DEF After
<1> DEFINE f == Endings(series, After(a, d))
           b == Beginnings(series, After(a, d))
<1>9. \A e \in After(a, d) : f[e] = N[e - 1] * P[e] /\ b[e] = N[e - 1] * P[e - 1]
  <2>1. \A e \in After(a, d) : f[e] = series[e].value - series[e].flow /\ b[e] = series[e - 1].value
    BY DEF Endings, Beginnings
  <2> HIDE DEF f, b, P, N, series
  <2> QED BY <1>7, <2>1
<1>10. \E g, h \in [SUBSET After(a, d) -> Int] :
          /\ IsProduct(f, g, After(a, d)) /\ IsProduct(b, h, After(a, d))
          /\ Growth(series, d).num = g[After(a, d)]
          /\ Growth(series, d).den = h[After(a, d)]
  <2> HIDE DEF series, C, P, N
  <2>1. IsFiniteSet(C) /\ C \subseteq Int
    BY <1>5, <1>8
  <2>2. \A e \in C : series[e].value - series[e].flow \in Int /\ series[e - 1].value \in Int
    BY <1>5, <1>7
  <2>3. /\ IsFiniteSet(Counted(series, d)) /\ Counted(series, d) \subseteq Int
        /\ \A e \in Counted(series, d) :
              series[e].value - series[e].flow \in Int /\ series[e - 1].value \in Int
    BY <2>1, <2>2 DEF C
  <2>4. \E g, h \in [SUBSET Counted(series, d) -> Int] :
            /\ IsProduct(Endings(series, Counted(series, d)), g, Counted(series, d))
            /\ IsProduct(Beginnings(series, Counted(series, d)), h, Counted(series, d))
            /\ Growth(series, d).num = g[Counted(series, d)]
            /\ Growth(series, d).den = h[Counted(series, d)]
    BY ONLY <2>3, GrowthUnfolds
  <2>5. Counted(series, d) = After(a, d)
    BY <1>5 DEF C
  <2> QED BY <2>4, <2>5
<1> HIDE DEF f, b, P, N, series
<1>11. PICK g, h \in [SUBSET After(a, d) -> Int] :
          /\ IsProduct(f, g, After(a, d)) /\ IsProduct(b, h, After(a, d))
          /\ Growth(series, d).num = g[After(a, d)]
          /\ Growth(series, d).den = h[After(a, d)]
  BY <1>10
<1>12. g[After(a, d)] * P[a] = h[After(a, d)] * P[d]
  <2>1. /\ a \in Int /\ d \in Int /\ a <= d
        /\ N \in [a..d -> Int] /\ P \in [a..d -> Int]
        /\ \A e \in After(a, d) : f[e] = N[e - 1] * P[e] /\ b[e] = N[e - 1] * P[e - 1]
        /\ g \in [SUBSET After(a, d) -> Int] /\ h \in [SUBSET After(a, d) -> Int]
        /\ IsProduct(f, g, After(a, d)) /\ IsProduct(b, h, After(a, d))
    BY <1>6, <1>9, <1>11
  <2> QED BY ONLY <2>1, Telescopes
<1>13. P[a] = PriceOn(w, s, a) /\ P[d] = PriceOn(w, s, d)
  BY DEF P
<1> QED BY <1>11, <1>12, <1>13 DEF series

\* The least element of a finite set of integers.
LEMMA MinIsLeast ==
  ASSUME NEW S, IsFiniteSet(S), S \subseteq Int, S # {}
  PROVE  Min(S) \in S /\ \A x \in S : Min(S) <= x
<1> DEFINE id == [x \in S |-> x]
<1>1. \A x \in S : id[x] = x /\ id[x] \in Int
  OBVIOUS
<1>2. PICK m \in S : \A x \in S : id[m] <= id[x]
  <2> HIDE DEF id
  <2> QED BY <1>1, LeastExists
<1>3. \A x \in S : m <= x
  BY <1>1, <1>2
<1>4. \E m1 \in S : \A x \in S : m1 <= x
  BY <1>3
<1> QED BY <1>4 DEF Min

\* The window the chart walks: today's quote counts only for what is held now.
ChartWindow ==
  LET window == [Window EXCEPT !.live = [t \in DOMAIN Window.live |->
                                            IF t \in HeldNow(Window.ledger) THEN Window.live[t] ELSE 0]]
  IN  [window EXCEPT !.closes =
          LoadedCloses(window.closes, ActiveSymbols(window.ledger, window.from), window.from, window.to)]

\* It is the loaded window, but for the quotes.
LEMMA ChartFields ==
  /\ ChartWindow.ledger = ledger /\ ChartWindow.from = From /\ ChartWindow.to = Today
  /\ ChartWindow.closes = LoadedCloses(market.closes, ActiveSymbols(ledger, From), From, Today)
  /\ \A t \in Symbols : ChartWindow.live[t] = IF t \in HeldNow(ledger) THEN LiveQuotes[t] ELSE 0
<1>1. DOMAIN LiveQuotes = Symbols
  BY DEF LiveQuotes
<1> DEFINE live == [t \in Symbols |-> IF t \in HeldNow(ledger) THEN LiveQuotes[t] ELSE 0]
           window == [Window EXCEPT !.live = live]
<1>2. /\ window.ledger = ledger /\ window.from = From /\ window.to = Today
      /\ window.closes = market.closes /\ window.live = live
      /\ window = [Window EXCEPT !.live = live]
      /\ window \in [{"ledger", "closes", "live", "from", "to"} -> {ledger, market.closes, live, From, Today}]
  BY DEF Window
<1>3. Window.live = LiveQuotes /\ Window.ledger = ledger
  BY DEF Window
<1>4. ChartWindow = [window EXCEPT !.closes =
          LoadedCloses(window.closes, ActiveSymbols(window.ledger, window.from), window.from, window.to)]
  BY <1>1, <1>3 DEF ChartWindow
<1>5. \A t \in Symbols : live[t] = IF t \in HeldNow(ledger) THEN LiveQuotes[t] ELSE 0
  OBVIOUS
<1> HIDE DEF window, live
<1> QED BY <1>2, <1>4, <1>5

\* What the series loads are the closes of the active symbols.
LEMMA LoadedIsWindowOf == Loaded = WindowOf(ActiveSymbols(ledger, From))
BY DEF Loaded, WindowOf

\* What the stored chart is drawn from is a window of typed prices.
LEMMA ChartIsWindow ==
  ASSUME FiguresIInv
  PROVE  IsWindow(ChartWindow)
<1> DEFINE y == ChartWindow
           v == WindowOf(ActiveSymbols(ledger, From))
<1>1. IsWindow(v) /\ v.closes = y.closes /\ v.ledger = y.ledger /\ v.from = y.from /\ v.to = y.to
  <2>1. IsWindow(v)
    BY LoadedIsWindow
  <2> QED BY <2>1, WindowFields, ChartFields
<1>2. \A t \in Symbols : y.live[t] \in Nat
  <2>1. ASSUME NEW t \in Symbols PROVE y.live[t] \in Nat
    <3>1. LiveQuotes[t] \in Nat
      BY LiveIsNat
    <3>2. y.live[t] = IF t \in HeldNow(ledger) THEN LiveQuotes[t] ELSE 0
      BY ChartFields
    <3> HIDE DEF y
    <3> QED BY <3>1, <3>2
  <2> QED BY <2>1
<1> HIDE DEF y, v
<1>3. IsWindow(y)
  BY <1>1, <1>2 DEF IsWindow
<1> QED BY <1>3 DEF y

\* The return attached to a point of the chart.
LEMMA AttachedIs ==
  ASSUME FiguresIInv, Stored(ledger) # {}, NEW d \in From..Today
  PROVE  /\ From < Today => AttachedReturns(Window, From..Today, Today)[d] = Growth(Series(ChartWindow), d)
         /\ From = Today => /\ AttachedReturns(Window, From..Today, Today)[d].num = 1
                            /\ AttachedReturns(Window, From..Today, Today)[d].den = 1
<1>1. From \in Nat /\ Today \in Nat /\ From <= Today
  BY WindowDays
<1>2. Window.to = Today /\ Window.from = From /\ Window.ledger = ledger
  BY DEF Window
<1>3. ~ NoSeries(Window) /\ ~(Window.to < Today)
  BY <1>1, <1>2 DEF NoSeries
<1>4. Cardinality(From..Today) = Today - From + 1
  BY <1>1, FS_Interval
<1> DEFINE window == [Window EXCEPT !.live = [t \in DOMAIN Window.live |->
                                            IF t \in HeldNow(Window.ledger) THEN Window.live[t] ELSE 0]]
<1>5. AttachedReturns(Window, From..Today, Today)[d] =
        IF Cardinality(From..Today) < 2 THEN [num |-> 1, den |-> 1] ELSE Growth(SeriesFor(window), d)
  BY <1>3 DEF AttachedReturns
<1>6. SeriesFor(window) = Series(ChartWindow)
  BY DEF SeriesFor, ChartWindow
<1> HIDE DEF window
<1>7. CASE From < Today
  <2>1. ~(Cardinality(From..Today) < 2)
    BY <1>1, <1>4, <1>7
  <2>2. AttachedReturns(Window, From..Today, Today)[d] = Growth(SeriesFor(window), d)
    BY <1>5, <2>1
  <2>3. Growth(SeriesFor(window), d) = Growth(Series(ChartWindow), d)
    BY <1>6
  <2>4. From # Today
    BY <1>1, <1>7
  <2> QED BY <1>7, <2>2, <2>3, <2>4
<1>8. CASE From = Today
  <2>1. Cardinality(From..Today) < 2
    BY <1>1, <1>4, <1>8
  <2>2. AttachedReturns(Window, From..Today, Today)[d] = [num |-> 1, den |-> 1]
    BY <1>5, <2>1
  <2> QED BY <1>1, <1>8, <2>2
<1> QED BY <1>1, <1>7, <1>8

\* Up to yesterday, once an active symbol has a price, the overlay shows it, unless what the
\* overlay shows is zero.
LEMMA OverlayShowsPrices ==
  ASSUME FiguresIInv, NEW s \in Symbols, s \in ActiveSymbols(ledger, From),
         NEW e \in Int, From <= e, e < Today, PriceOn(Loaded, s, e) > 0
  PROVE  LET index == BenchmarkOverlay(From..Today, TRUE, market.closes[s]).closes
         IN  /\ e \in DOMAIN index
             /\ index[e] > 0 => index[e] = PriceOn(Loaded, s, e)
<1> DEFINE m == market.closes[s]
           known == {x \in DOMAIN m : Min(From..Today) - Lookback <= x /\ x <= e}
           index == BenchmarkOverlay(From..Today, TRUE, m).closes
           w == Loaded
           C == Closings(w, s, e)
<1>1. From \in Nat /\ Today \in Nat /\ From <= Today /\ e \in From..Today /\ Lookback \in Nat
  BY WindowDays, LookbackIsDays
<1>2. Min(From..Today) = From
  <2>1. IsFiniteSet(From..Today) /\ From..Today \subseteq Int /\ From..Today # {} /\ From \in From..Today
    <3>1. From \in Int /\ Today \in Int /\ From <= Today
      BY <1>1
    <3>2. IsFiniteSet(From..Today)
      BY <3>1, FS_Interval
    <3> QED BY <3>1, <3>2
  <2>2. Min(From..Today) \in From..Today /\ Min(From..Today) <= From
    BY <2>1, MinIsLeast
  <2> QED BY <1>1, <2>2
<1>3. Cardinality(From..Today) >= 2
  <2>1. Cardinality(From..Today) = Today - From + 1
    BY <1>1, FS_Interval
  <2> QED BY <1>1, <2>1
<1>4. known # {} => e \in DOMAIN index /\ index[e] = m[Max(known)]
  BY <1>1, <1>3 DEF BenchmarkOverlay
<1>5. /\ DOMAIN m \subseteq Nat /\ IsFiniteSet(DOMAIN m)
      /\ DOMAIN w.closes[s] = DOMAIN m
      /\ \A x \in DOMAIN m : w.closes[s][x] = IF x >= From - Lookback /\ x <= Today THEN m[x] ELSE 0
  <2>1. DOMAIN m \subseteq Nat /\ IsFiniteSet(DOMAIN m)
    BY ProvidedPrices DEF FiguresIInv
  <2>2. /\ DOMAIN w.closes[s] = DOMAIN m
        /\ \A x \in DOMAIN m : w.closes[s][x] = IF s \in ActiveSymbols(ledger, From) /\ x >= From - Lookback /\ x <= Today THEN m[x] ELSE 0
    BY ClosesLoaded, LoadedIsWindowOf
  <2> QED BY <2>1, <2>2
<1>6. C = {x \in known : m[x] > 0}
  <2>1. ASSUME NEW x \in DOMAIN m
        PROVE  (Min(From..Today) - Lookback <= x /\ x <= e /\ m[x] > 0) <=> (x <= e /\ w.closes[s][x] > 0)
    <3>1. x \in Nat
      BY <1>5
    <3>2. w.closes[s][x] = IF x >= From - Lookback /\ x <= Today THEN m[x] ELSE 0
      BY <1>5
    <3> HIDE DEF m, w
    <3> QED BY <1>1, <1>2, <3>1, <3>2
  <2> HIDE DEF m, w
  <2> QED BY <1>5, <2>1 DEF Closings
<1>7. IsWindow(w) /\ w.to = Today
  BY LoadedIsWindow, LoadedIsWindowOf, WindowFields
<1>8. C # {} /\ PriceOn(w, s, e) = w.closes[s][Max(C)]
  <2>1. ~(e = w.to /\ w.live[s] > 0)
    BY <1>1, <1>7
  <2>2. PriceOn(w, s, e) > 0
    OBVIOUS
  <2> HIDE DEF w
  <2>3. C # {}
    BY <1>7, <2>1, <2>2, PriceCases
  <2> QED BY <1>7, <2>1, <2>3, PriceCases
<1> HIDE DEF C, w, m, index
<1>9. IsFiniteSet(known) /\ known \subseteq Int /\ known # {} /\ C \subseteq known
  <2>1. known \in SUBSET DOMAIN m
    OBVIOUS
  <2>2. known \subseteq Int /\ C \subseteq known
    <3>1. C \subseteq known
      <4> HIDE DEF known
      <4> QED BY <1>6
    <3> HIDE DEF C
    <3> QED BY <1>5, <3>1
  <2> HIDE DEF known
  <2> QED BY <1>5, <1>8, <2>1, <2>2, FS_Subset
<1>10. ASSUME index[e] > 0 PROVE index[e] = PriceOn(w, s, e)
  <2> DEFINE x == Max(known)
  <2>1. x \in known /\ \A y \in known : y <= x
    <3> HIDE DEF known
    <3> QED BY <1>9, MaxIsGreatest
  <2>2. index[e] = m[x]
    BY <1>4, <1>9
  <2>3. x \in DOMAIN m /\ From - Lookback <= x /\ x <= e
    BY <1>2, <2>1
  <2> HIDE DEF x, known
  <2>4. x \in C
    BY <1>6, <1>10, <2>1, <2>2
  <2>5. IsFiniteSet(C) /\ C \subseteq Int
    BY <1>9, FS_Subset
  <2>6. Max(C) \in C /\ x <= Max(C)
    BY <1>8, <2>4, <2>5, MaxIsGreatest
  <2>7. Max(C) = x
    <3>1. Max(C) <= x /\ Max(C) \in Int /\ x \in Int
      BY <1>9, <2>1, <2>5, <2>6
    <3> QED BY <2>6, <3>1
  <2>8. w.closes[s][x] = m[x]
    <3>1. x \in Nat /\ x >= From - Lookback /\ x <= Today
      <4>1. x \in Nat
        BY <1>5, <2>3
      <4> QED BY <1>1, <2>3, <4>1
    <3> QED BY <1>5, <2>3, <3>1
  <2> QED BY <1>8, <2>2, <2>7, <2>8
<1>11. e \in DOMAIN index
  BY <1>4, <1>9
<1> QED BY <1>10, <1>11 DEF index, m, w

\* The chart prices what is held as the loaded window does.
LEMMA ChartPrices ==
  ASSUME FiguresIInv, NEW s \in Symbols, s \in HeldNow(ledger), NEW e \in Int
  PROVE  PriceOn(ChartWindow, s, e) = PriceOn(Loaded, s, e)
<1> DEFINE y == ChartWindow
           v == WindowOf(ActiveSymbols(ledger, From))
<1>1. y.closes = v.closes /\ y.to = v.to /\ y.live[s] = v.live[s]
  BY WindowFields, ChartFields
<1> HIDE DEF y, v
<1>2. PriceOn(y, s, e) = PriceOn(v, s, e)
  BY <1>1 DEF PriceOn
<1> QED BY <1>2, LoadedIsWindowOf DEF y, v

\* What a day's shares of a symbol are, today, is what its rows add up to.
LEMMA SharesOfToday ==
  ASSUME FiguresIInv, NEW s \in Symbols
  PROVE  SharesAt(s, Today) = NetQuantity(ledger, OfSymbol(ledger, s))
<1>1. Recorded(ledger) /\ Today \in Nat /\ \A d \in Days : d <= Today
  BY WindowDays DEF FiguresIInv
<1>2. \A i \in Stored(ledger) : ledger[i].day \in Days
  <2>1. \A i \in Stored(ledger) : ledger[i] \in TradeRow
    BY <1>1, RecordedFields
  <2> QED BY <2>1 DEF TradeRow
<1>3. Upto(ledger, s, Today) = OfSymbol(ledger, s)
  BY <1>1, <1>2 DEF Upto, OfSymbol
<1> QED BY <1>3 DEF SharesAt

\* A portfolio that only carries one symbol over returns what its price returned.
LEMMA CarriedReturns ==
  ASSUME FiguresIInv, NEW d \in From..Today, NEW s \in Symbols,
         Traded(ledger) = {s}, \A i \in Stored(ledger) : ledger[i].opening,
         NEW first \in From..d, ValueOn(Loaded, first) > 0,
         \A e \in From..d : ValueOn(Loaded, e) > 0 => first <= e
  PROVE  LET growth == AttachedReturns(Window, From..Today, Today)[d]
             index  == BenchmarkOverlay(From..Today, TRUE, market.closes[s]).closes
         IN  /\ growth.num * PriceOn(Loaded, s, first) = growth.den * PriceOn(Loaded, s, d)
             /\ d < Today =>
                   /\ {first, d} \subseteq DOMAIN index
                   /\ index[first] > 0 /\ index[d] > 0
                      => growth.num * index[first] = growth.den * index[d]
<1> DEFINE y == ChartWindow
           w == Loaded
           growth == AttachedReturns(Window, From..Today, Today)[d]
<1>1. /\ From \in Nat /\ Today \in Nat /\ d \in Int /\ first \in Int
      /\ From <= first /\ first <= d /\ d <= Today /\ From <= d
  BY WindowDays
<1>2. /\ IsWindow(w) /\ w.ledger = ledger /\ w.from = From /\ w.to = Today
      /\ IsWindow(y) /\ y.ledger = ledger /\ y.from = From /\ y.to = Today
  <2>1. IsWindow(w) /\ w.ledger = ledger /\ w.from = From /\ w.to = Today
    BY LoadedIsWindow, LoadedIsWindowOf, WindowFields
  <2>2. IsWindow(y) /\ y.ledger = ledger /\ y.from = From /\ y.to = Today
    BY ChartIsWindow, ChartFields
  <2> QED BY <2>1, <2>2
<1> HIDE DEF w, y, growth
<1>3. CarriesOver(w, s) /\ CarriesOver(y, s)
  BY <1>2 DEF CarriesOver
<1>4. Stored(ledger) # {} /\ Traded(w.ledger) = {s} /\ Traded(y.ledger) = {s}
  BY <1>2 DEF Traded
<1>5. ValueOn(w, first) > 0
  BY DEF w
<1>6. s \in HeldNow(ledger)
  <2>1. first <= Today /\ Today <= w.to /\ Today \in Int
    BY <1>1, <1>2
  <2>2. SharesAt(s, Today) > 0
    BY <1>1, <1>3, <1>5, <2>1, CarriedStays
  <2> QED BY <2>2, SharesOfToday DEF HeldNow
<1>7. ASSUME NEW e \in Int PROVE PriceOn(y, s, e) = PriceOn(w, s, e)
  BY <1>6, ChartPrices DEF w, y
<1>8. ASSUME NEW e \in Int, e <= Today PROVE ValueOn(y, e) = ValueOn(w, e)
  <2>1. Worths(y, e)[s] = Worths(w, e)[s]
    <3>1. /\ IsWindow(y) /\ IsWindow(w) /\ y.ledger = w.ledger /\ y.from = w.from /\ y.to = w.to
          /\ s \in Symbols /\ e \in Int /\ \A x \in Int : PriceOn(y, s, x) = PriceOn(w, s, x)
      BY <1>2, <1>7
    <3> QED BY ONLY <3>1, AlikeTerms
  <2>2. ValueOn(y, e) = Worths(y, e)[s]
    BY <1>2, <1>4, <1>8, OneSymbol
  <2>3. ValueOn(w, e) = Worths(w, e)[s]
    BY <1>2, <1>4, <1>8, OneSymbol
  <2> QED BY <2>1, <2>2, <2>3
<1>9. ASSUME From < Today
      PROVE  growth.num * PriceOn(w, s, first) = growth.den * PriceOn(w, s, d)
  <2>1. growth = Growth(Series(y), d)
    BY <1>4, <1>9, AttachedIs DEF growth, y
  <2>2. ValueOn(y, first) > 0
    BY <1>1, <1>5, <1>8
  <2>3. ASSUME NEW e \in y.from..d, ValueOn(y, e) > 0 PROVE first <= e
    <3>1. e \in From..d /\ e \in Int /\ e <= Today
      BY <1>1, <1>2
    <3>2. ValueOn(w, e) > 0
      BY <2>3, <3>1, <1>8
    <3> QED BY <3>1, <3>2 DEF w
  <2>4. Growth(Series(y), d).num * PriceOn(y, s, first) = Growth(Series(y), d).den * PriceOn(y, s, d)
    <3>1. /\ s \in Symbols /\ CarriesOver(y, s)
          /\ first \in Int /\ d \in Int /\ y.from <= first /\ first <= d /\ d <= y.to
          /\ ValueOn(y, first) > 0 /\ \A e \in y.from..d : ValueOn(y, e) > 0 => first <= e
      BY <1>1, <1>2, <1>3, <2>2, <2>3
    <3> QED BY <3>1, CarriedGrowth
  <2> QED BY <1>1, <1>7, <2>1, <2>4
<1>10. ASSUME From = Today
       PROVE  growth.num * PriceOn(w, s, first) = growth.den * PriceOn(w, s, d)
  <2>1. growth.num = 1 /\ growth.den = 1
    BY <1>4, <1>10, AttachedIs DEF growth
  <2>2. first = d
    BY <1>1, <1>10
  <2> QED BY <2>1, <2>2
<1>11. growth.num * PriceOn(w, s, first) = growth.den * PriceOn(w, s, d)
  <2>1. From < Today \/ From = Today
    BY <1>1
  <2> QED BY <1>9, <1>10, <2>1
<1>12. s \in ActiveSymbols(ledger, From)
  <2> SUFFICES ASSUME s \notin ActiveSymbols(ledger, From) PROVE FALSE
    OBVIOUS
  <2>1. Worths(w, first)[s] = 0
    <3>1. s \notin ActiveSymbols(w.ledger, w.from) /\ w.from <= first
      BY <1>1, <1>2
    <3> QED BY <1>1, <1>2, <3>1, InactiveIsNothing
  <2>2. ValueOn(w, first) = Worths(w, first)[s]
    <3>1. first <= w.to
      BY <1>1, <1>2
    <3> QED BY <1>1, <1>2, <1>4, <3>1, OneSymbol
  <2> QED BY <1>5, <2>1, <2>2
<1> DEFINE index == BenchmarkOverlay(From..Today, TRUE, market.closes[s]).closes
<1>13. ASSUME NEW e \in {first, d}, d < Today
       PROVE  e \in DOMAIN index /\ (index[e] > 0 => index[e] = PriceOn(w, s, e))
  <2>1. e \in Int /\ first <= e /\ From <= e /\ e < Today /\ e <= w.to
    BY <1>1, <1>2, <1>13
  <2>2. PriceOn(w, s, e) > 0
    BY <1>1, <1>3, <1>5, <2>1, CarriedStays
  <2>3. PriceOn(Loaded, s, e) > 0
    BY <2>2 DEF w
  <2> QED BY <1>12, <2>1, <2>3, OverlayShowsPrices DEF w
<1> HIDE DEF index
<1>14. d < Today => /\ {first, d} \subseteq DOMAIN index
                    /\ index[first] > 0 /\ index[d] > 0
                       => growth.num * index[first] = growth.den * index[d]
  <2> SUFFICES ASSUME d < Today
               PROVE  /\ {first, d} \subseteq DOMAIN index
                      /\ index[first] > 0 /\ index[d] > 0
                         => growth.num * index[first] = growth.den * index[d]
    OBVIOUS
  <2>1. first \in DOMAIN index /\ (index[first] > 0 => index[first] = PriceOn(w, s, first))
    BY <1>13
  <2>2. d \in DOMAIN index /\ (index[d] > 0 => index[d] = PriceOn(w, s, d))
    BY <1>13
  <2> QED BY <1>11, <2>1, <2>2
<1> QED BY <1>11, <1>14 DEF w, growth, index

\* The gains of a day, and the return of a holding that was only carried over.
LEMMA GainsAreExplained ==
  ASSUME FiguresIInv
  PROVE  DailyGainExplained
<1>1. IsWindow(Loaded) /\ Loaded.ledger = ledger /\ Loaded.from = From /\ Loaded.to = Today
  BY LoadedIsWindow, LoadedIsWindowOf, WindowFields
<1>2. From \in Nat /\ Today \in Nat
  BY WindowDays
<1>3. ASSUME NEW d \in (From + 1)..Today
      PROVE  LET w == Loaded
                 known == Priced(w, d - 1)
                 price(s) == PriceOn(w, s, d)
             IN  ValueOn(w, d) - FlowOn(w, d) - ValueOn(w, d - 1) =
                   SumFunction([s \in known |-> Net(s, d - 1) * (price(s) - PriceOn(w, s, d - 1))])
                   + SumFunction([i \in {i \in Stored(ledger) : ledger[i].day = d /\ ledger[i].symbol \in known} |->
                                TradeGain(i, price(ledger[i].symbol))])
  <2>1. d \in Int /\ Loaded.from < d /\ d <= Loaded.to
    BY <1>1, <1>2
  <2> QED BY <1>1, <2>1, DayGainExplained
<1>4. ASSUME NEW d \in From..Today, NEW s \in Symbols
      PROVE  LET growth == AttachedReturns(Window, From..Today, Today)[d]
                 index  == BenchmarkOverlay(From..Today, TRUE, market.closes[s]).closes
                 held   == {e \in From..d : ValueOn(Loaded, e) > 0}
                 first  == Min(held)
             IN  /\ Traded(ledger) = {s}
                 /\ \A i \in Stored(ledger) : ledger[i].opening
                 /\ held # {}
                 => /\ growth.num * PriceOn(Loaded, s, first) = growth.den * PriceOn(Loaded, s, d)
                    /\ d < Today =>
                          /\ {first, d} \subseteq DOMAIN index
                          /\ index[first] > 0 /\ index[d] > 0
                             => growth.num * index[first] = growth.den * index[d]
  <2> DEFINE held == {e \in From..d : ValueOn(Loaded, e) > 0}
             first == Min(held)
  <2> SUFFICES ASSUME Traded(ledger) = {s}, \A i \in Stored(ledger) : ledger[i].opening, held # {}
               PROVE  LET growth == AttachedReturns(Window, From..Today, Today)[d]
                          index  == BenchmarkOverlay(From..Today, TRUE, market.closes[s]).closes
                      IN  /\ growth.num * PriceOn(Loaded, s, first) = growth.den * PriceOn(Loaded, s, d)
                          /\ d < Today =>
                                /\ {first, d} \subseteq DOMAIN index
                                /\ index[first] > 0 /\ index[d] > 0
                                   => growth.num * index[first] = growth.den * index[d]
    OBVIOUS
  <2>1. IsFiniteSet(held) /\ held \subseteq Int
    <3>1. IsFiniteSet(From..d)
      BY <1>2, FS_Interval
    <3>2. held \in SUBSET (From..d) /\ From..d \subseteq Int
      BY <1>2
    <3> DEFINE days == From..d
    <3>3. IsFiniteSet(days) /\ held \in SUBSET days /\ days \subseteq Int
      BY <3>1, <3>2
    <3> HIDE DEF held, days
    <3> QED BY <3>3, FS_Subset
  <2>2. first \in held /\ \A e \in held : first <= e
    <3> HIDE DEF held
    <3> QED BY <2>1, MinIsLeast
  <2>3. first \in From..d /\ ValueOn(Loaded, first) > 0 /\ \A e \in From..d : ValueOn(Loaded, e) > 0 => first <= e
    <3> HIDE DEF first
    <3> QED BY <2>2
  <2> HIDE DEF first, held
  <2> QED BY <2>3, CarriedReturns
<1> QED BY <1>3, <1>4 DEF DailyGainExplained

\* What a portfolio gains on a day is what its shares gained in price and what the day's
\* trades gained against the close; and a portfolio that carries one symbol over returns
\* what that symbol's price returned, on the chart beside the overlay too.
THEOREM GainsAlwaysExplained == Spec => []DailyGainExplained
<1>1. FiguresIInv => DailyGainExplained
  BY GainsAreExplained
<1> QED BY <1>1, FiguresTyping, PTL

-----------------------------------------------------------------------------
\* The shares of symbol s in portfolio p.
HeldIn(L, p, s) == Figures(Of(L, p, s)).shares

\* They are what the rows add up to.
LEMMA HeldIsNet ==
  ASSUME NEW L, Recorded(L), AllReplay(L), NEW p \in Portfolios, NEW s \in Symbols
  PROVE  /\ HeldIn(L, p, s) = NetQuantity(Of(L, p, s), Stored(Of(L, p, s)))
         /\ HeldIn(L, p, s) \in Nat
         /\ Stored(Of(L, p, s)) = {} => HeldIn(L, p, s) = 0
<1> DEFINE M == Of(L, p, s)
<1>1. FiniteLedger(M) /\ Replays(M)
  BY HoldingPart, RecordedIsFinite DEF AllReplay
<1>2. HeldIn(L, p, s) = Figures(M).shares
  BY DEF HeldIn
<1>3. Stored(M) = {} => NetQuantity(M, Stored(M)) = 0
  BY NetOfNothing
<1> HIDE DEF M
<1>4. PICK g : IsPrefixWalk(M, g)
  BY <1>1, WalkTable
<1>5. WalkIsExact(M, g, Stored(M)) /\ g[Stored(M)] = Walk(M)
  BY <1>1, <1>4, ExactWalk DEF IsPrefixWalk
<1>6. Figures(M).shares = Bought(M, Stored(M)) - Sold(M, Stored(M))
  BY <1>1, <1>5 DEF WalkIsExact, Replays, Figures
<1>7. NetQuantity(M, Stored(M)) = Bought(M, Stored(M)) - Sold(M, Stored(M))
  BY <1>1, NetIsBoughtLessSold
<1>8. Figures(M).shares \in Nat
  BY <1>1, FiguresTyped
<1> QED BY <1>2, <1>3, <1>6, <1>7, <1>8 DEF M

\* Rows of the same sides and quantities add up to the same shares.
LEMMA SameSides ==
  ASSUME NEW L, FiniteLedger(L), NEW M, FiniteLedger(M),
         NEW T \in SUBSET Stored(L), T \subseteq Stored(M),
         \A i \in T : L[i].side = M[i].side /\ L[i].quantity = M[i].quantity
  PROVE  NetQuantity(L, T) = NetQuantity(M, T)
<1>1. \A i \in T : NetOf(L)[i] = NetOf(M)[i]
  BY DEF NetOf, Signed
<1>2. /\ IsFiniteSet(T) /\ \A i \in T : NetOf(L)[i] \in Int
      /\ NetQuantity(L, T) = SumFunctionOnSet(NetOf(L), T)
      /\ NetQuantity(M, T) = SumFunctionOnSet(NetOf(M), T)
  BY NetIsSum
<1> DEFINE f == NetOf(L)
           g == NetOf(M)
<1> HIDE DEF f, g
<1>3. SumFunctionOnSet(f, T) = SumFunctionOnSet(g, T)
  BY <1>1, <1>2, SumsSame DEF f, g
<1> QED BY <1>2, <1>3 DEF f, g

\* The shares of a symbol, over all portfolios.
AllHeld(L, s) == NetQuantity(L, OfSymbol(L, s))

\* They are the sum over the portfolios.
LEMMA AllHeldIsSum ==
  ASSUME NEW L, Recorded(L), AllReplay(L), NEW s \in Symbols
  PROVE  /\ AllHeld(L, s) = SumFunctionOnSet([p \in Portfolios |-> HeldIn(L, p, s)], Portfolios)
         /\ AllHeld(L, s) \in Nat
<1> DEFINE g == [p \in Portfolios |-> HeldIn(L, p, s)]
           T == OfSymbol(L, s)
<1>1. ASSUME NEW p \in Portfolios
      PROVE  g[p] = NetQuantity(Of(L, p, s), {i \in T : L[i].portfolio = p}) /\ g[p] \in Nat
  <2>1. {i \in T : L[i].portfolio = p} = Stored(Of(L, p, s))
    <3>1. Stored(Of(L, p, s)) = {i \in Stored(L) : L[i].portfolio = p /\ L[i].symbol = s}
      BY HoldingPart
    <3> QED BY <3>1 DEF OfSymbol
  <2>2. g[p] = HeldIn(L, p, s)
    OBVIOUS
  <2> HIDE DEF g, T
  <2> QED BY <2>1, <2>2, HeldIsNet
<1>2. T \in SUBSET OfSymbol(L, s)
  OBVIOUS
<1> HIDE DEF g, T
<1>3. NetQuantity(L, T) = SumFunctionOnSet(g, Portfolios)
  BY <1>1, <1>2, NetByPortfolio
<1>4. SumFunctionOnSet(g, Portfolios) \in Nat
  BY <1>1, RecordedRows, SumIsNat
<1> QED BY <1>3, <1>4 DEF AllHeld, g, T

\* A sum over the open holdings of a portfolio is a sum over the symbols.
LEMMA SumByHolding ==
  ASSUME NEW L, Recorded(L), AllReplay(L), NEW p \in Portfolios,
         NEW f, NEW g,
         \A h \in Open(OfPortfolio(Holdings(L), p)) : f[h] \in Int /\ g[h.symbol] = f[h],
         \A s \in Symbols : HeldIn(L, p, s) = 0 => g[s] = 0
  PROVE  SumFunctionOnSet(f, Open(OfPortfolio(Holdings(L), p))) = SumFunctionOnSet(g, Symbols)
<1> DEFINE S == Open(OfPortfolio(Holdings(L), p))
           new == [h \in S |-> h.symbol]
           T == {new[h] : h \in S}
<1>1. /\ IsFiniteSet(S) /\ S \subseteq Holdings(L)
      /\ \A h \in S : h.symbol \in Symbols
      /\ \A h, k \in S : h.symbol = k.symbol => h = k
  BY OpenTyped
<1>2. ASSUME NEW s \in Symbols, s \notin T PROVE g[s] = 0
  <2> SUFFICES ASSUME g[s] # 0 PROVE FALSE
    OBVIOUS
  <2>1. HeldIn(L, p, s) # 0 /\ HeldIn(L, p, s) \in Nat
    BY HeldIsNet
  <2>2. Stored(Of(L, p, s)) # {}
    BY <2>1, HeldIsNet
  <2> DEFINE h == HoldingOf(L, <<p, s>>)
  <2>3. h \in Holdings(L)
    BY <2>2, HoldingsByKey DEF HoldingKeys
  <2>4. h.portfolio = p /\ h.symbol = s /\ h.shares = HeldIn(L, p, s)
    BY DEF HoldingOf, HeldIn
  <2> HIDE DEF h
  <2>5. h \in S
    BY <2>1, <2>3, <2>4 DEF Open, OfPortfolio
  <2> QED BY <1>2, <2>4, <2>5
<1>3. IsFiniteSet(T)
  <2> HIDE DEF S, new
  <2> QED BY <1>1, ImageIsFinite DEF S
<1>4. SumFunctionOnSet(f, S) = SumFunctionOnSet(g, T)
  <2>1. /\ \A h \in S : f[h] \in Int
        /\ \A h \in S : new[h] \in T
        /\ \A h, k \in S : new[h] = new[k] => h = k
        /\ \A t \in T : \E h \in S : new[h] = t
        /\ \A h \in S : g[new[h]] = f[h]
    BY <1>1
  <2>2. IsFiniteSet(S)
    BY <1>1
  <2> HIDE DEF S, new, T
  <2> QED BY ONLY <1>3, <2>1, <2>2, SumRenamed
<1>5. T \in SUBSET Symbols
  BY <1>1
<1>6. \A s \in Symbols : g[s] \in Int
  <2>1. \A s \in T : g[s] \in Int
    BY <1>1
  <2> HIDE DEF T
  <2> QED BY <1>2, <2>1
<1>7. SumFunctionOnSet(g, Symbols) = SumFunctionOnSet(g, T)
  <2>1. \A s \in Symbols \ T : g[s] = 0
    <3> HIDE DEF T
    <3> QED BY <1>2
  <2> HIDE DEF T, S
  <2> QED BY <1>5, <1>6, <2>1, RecordedRows, SumOverMore
<1> HIDE DEF T, S
<1> QED BY <1>4, <1>7 DEF S

\* The open holdings of all portfolios.
LEMMA AllOpenTyped ==
  ASSUME NEW L, Recorded(L)
  PROVE  /\ IsFiniteSet(Open(Holdings(L)))
         /\ \A h \in Open(Holdings(L)) :
               h \in Holdings(L) /\ h.portfolio \in Portfolios /\ h.symbol \in Symbols
               /\ h.shares \in Nat \ {0} /\ h.shares = HeldIn(L, h.portfolio, h.symbol)
         /\ \A h, k \in Open(Holdings(L)) :
               h.portfolio = k.portfolio /\ h.symbol = k.symbol => h = k
         /\ \A p : {h \in Open(Holdings(L)) : h.portfolio = p} = Open(OfPortfolio(Holdings(L), p))
<1> DEFINE H == Holdings(L)
<1>1. /\ IsFiniteSet(H)
      /\ \A h \in H : /\ h.portfolio \in Portfolios /\ h.symbol \in Symbols /\ h.shares \in Nat
                      /\ h.shares = HeldIn(L, h.portfolio, h.symbol)
      /\ \A h, k \in H : h.portfolio = k.portfolio /\ h.symbol = k.symbol => h = k
  BY HoldingsTyped DEF HeldIn
<1> HIDE DEF H
<1>2. IsFiniteSet(Open(H))
  BY <1>1, FS_Subset DEF Open
<1>3. \A h \in Open(H) : h \in H /\ h.shares > 0
  BY DEF Open
<1>4. \A h \in Open(H) : h.shares \in Nat \ {0}
  BY <1>1, <1>3
<1>5. \A p : {h \in Open(H) : h.portfolio = p} = Open(OfPortfolio(H, p))
  BY DEF Open, OfPortfolio
<1> QED BY <1>1, <1>2, <1>3, <1>4, <1>5 DEF H

\* The shares of the open holdings of a symbol.
LEMMA SharesOfSymbol ==
  ASSUME NEW L, Recorded(L), AllReplay(L), NEW s \in Symbols,
         NEW f, \A h \in Open(Holdings(L)) : f[h] = h.shares
  PROVE  SumFunctionOnSet(f, {h \in Open(Holdings(L)) : h.symbol = s}) = AllHeld(L, s)
<1> DEFINE S == {h \in Open(Holdings(L)) : h.symbol = s}
           new == [h \in S |-> h.portfolio]
           T == {new[h] : h \in S}
           g == [p \in Portfolios |-> HeldIn(L, p, s)]
<1>1. IsFiniteSet(S)
  BY AllOpenTyped, FS_Subset
<1>2. /\ \A h \in S : /\ h.portfolio \in Portfolios /\ f[h] = HeldIn(L, h.portfolio, s)
                      /\ f[h] \in Nat /\ f[h] \in Int
      /\ \A h, k \in S : h.portfolio = k.portfolio => h = k
  BY AllOpenTyped
<1>3. ASSUME NEW p \in Portfolios PROVE g[p] = HeldIn(L, p, s) /\ g[p] \in Nat /\ (p \notin T => g[p] = 0)
  <2>1. g[p] = HeldIn(L, p, s) /\ g[p] \in Nat
    BY HeldIsNet
  <2>2. ASSUME g[p] # 0 PROVE p \in T
    <3>1. HeldIn(L, p, s) # 0 /\ HeldIn(L, p, s) \in Nat
      BY <2>1, <2>2
    <3>2. Stored(Of(L, p, s)) # {}
      BY <3>1, HeldIsNet
    <3> DEFINE h == HoldingOf(L, <<p, s>>)
    <3>3. h \in Holdings(L)
      BY <3>2, HoldingsByKey DEF HoldingKeys
    <3>4. h.portfolio = p /\ h.symbol = s /\ h.shares = HeldIn(L, p, s)
      BY DEF HoldingOf, HeldIn
    <3> HIDE DEF h
    <3>5. h \in S
      BY <3>1, <3>3, <3>4 DEF Open
    <3> QED BY <3>4, <3>5
  <2> QED BY <2>1, <2>2
<1>4. IsFiniteSet(T)
  <2>1. IsFiniteSet(S)
    BY <1>1
  <2> HIDE DEF S, new
  <2> QED BY <2>1, ImageIsFinite
<1>5. SumFunctionOnSet(f, S) = SumFunctionOnSet(g, T)
  <2>1. /\ \A h \in S : f[h] \in Int
        /\ \A h \in S : new[h] \in T
        /\ \A h, k \in S : new[h] = new[k] => h = k
        /\ \A t \in T : \E h \in S : new[h] = t
        /\ \A h \in S : g[new[h]] = f[h]
    BY <1>2
  <2> HIDE DEF S, new, T, g
  <2> QED BY ONLY <1>1, <1>4, <2>1, SumRenamed
<1>6. T \in SUBSET Portfolios
  BY <1>2
<1>7. SumFunctionOnSet(g, Portfolios) = SumFunctionOnSet(g, T)
  <2> HIDE DEF T, S, g
  <2>1. \A p \in Portfolios : g[p] \in Int
    BY <1>3
  <2>2. \A p \in Portfolios \ T : g[p] = 0
    BY <1>3
  <2> QED BY <1>6, <2>1, <2>2, RecordedRows, SumOverMore
<1>8. AllHeld(L, s) = SumFunctionOnSet(g, Portfolios)
  BY AllHeldIsSum
<1> QED BY <1>5, <1>7, <1>8

\* A live quote is the quote, or zero for none.
LEMMA QuoteCases ==
  ASSUME FiguresIInv, NEW s \in Symbols
  PROVE  /\ LiveQuotes[s] \in Nat
         /\ market.quotes[s] = Unavailable => LiveQuotes[s] = 0
         /\ market.quotes[s] # Unavailable =>
               market.quotes[s] \in Nat /\ market.quotes[s] = LiveQuotes[s]
<1>1. market.quotes[s] = Unavailable \/ market.quotes[s] \in Nat
  BY ProvidedPrices DEF FiguresIInv
<1>2. LiveQuotes[s] = IF market.quotes[s] = Unavailable THEN 0 ELSE market.quotes[s]
  BY DEF LiveQuotes
<1>3. Unavailable \notin Nat
  BY UnavailableIsNoFigure
<1> QED BY <1>1, <1>2, <1>3

\* Finitely many holdings of shares.
IsHoldings(H) == IsFiniteSet(H) /\ \A h \in H : h.symbol \in Symbols /\ h.shares \in Nat

\* What each of some holdings is worth at its live quote.
WorthOf(H) == [h \in H |-> h.shares * LiveQuotes[h.symbol]]

\* Those are numbers, and so is their sum.
LEMMA WorthOfTyped ==
  ASSUME FiguresIInv, NEW H, IsHoldings(H)
  PROVE  /\ \A h \in H : /\ WorthOf(H)[h] = h.shares * LiveQuotes[h.symbol]
                         /\ WorthOf(H)[h] \in Nat /\ WorthOf(H)[h] \in Int
         /\ SumFunctionOnSet(WorthOf(H), H) \in Nat
<1>1. ASSUME NEW h \in H
      PROVE  /\ WorthOf(H)[h] = h.shares * LiveQuotes[h.symbol]
             /\ WorthOf(H)[h] \in Nat /\ WorthOf(H)[h] \in Int
  <2>1. h.shares \in Nat /\ LiveQuotes[h.symbol] \in Nat
    BY QuoteCases DEF IsHoldings
  <2>2. h.shares * LiveQuotes[h.symbol] \in Nat
    BY <2>1, ProductNat
  <2> QED BY <2>2 DEF WorthOf
<1> DEFINE f == WorthOf(H)
<1>2. \A h \in H : f[h] \in Nat
  BY <1>1
<1> HIDE DEF f
<1>3. SumFunctionOnSet(f, H) \in Nat
  BY <1>2, SumIsNat DEF IsHoldings
<1> QED BY <1>1, <1>3 DEF f

\* A lookup of positive quotes prices the holdings at their live quotes: what it leaves out is
\* worth nothing there.
LEMMA ValueOfHoldings ==
  ASSUME FiguresIInv, NEW H, IsHoldings(H), NEW D, DistinctSymbols(H) \subseteq D, D \subseteq Symbols
  PROVE  PositionsValue(H, FetchQuotePrices(market.quotes, D)) = SumFunctionOnSet(WorthOf(H), H)
<1> DEFINE prices == FetchQuotePrices(market.quotes, D)
           T == {h \in H : h.symbol \in DOMAIN prices}
           g == [h \in T |-> h.shares * prices[h.symbol]]
           f == WorthOf(H)
<1>1. DOMAIN prices = {s \in D : market.quotes[s] # Unavailable /\ market.quotes[s] > 0}
  BY DEF FetchQuotePrices
<1>2. \A s \in DOMAIN prices : prices[s] = market.quotes[s]
  BY DEF FetchQuotePrices
<1>3. PositionsValue(H, prices) = SumFunction(g)
  BY DEF PositionsValue
<1>4. \A h \in H : h.symbol \in D
  BY DEF DistinctSymbols
<1> HIDE DEF prices
<1>5. ASSUME NEW h \in T PROVE f[h] = g[h]
  <2>1. h.symbol \in Symbols /\ prices[h.symbol] = LiveQuotes[h.symbol]
    BY <1>1, <1>2, QuoteCases DEF IsHoldings
  <2> QED BY <2>1 DEF WorthOf
<1>6. ASSUME NEW h \in H \ T PROVE f[h] = 0
  <2>1. h.symbol \in Symbols /\ h.symbol \in D /\ h.symbol \notin DOMAIN prices
    BY <1>4 DEF IsHoldings
  <2>2. LiveQuotes[h.symbol] = 0
    BY <1>1, <2>1, QuoteCases
  <2>3. h.shares \in Nat
    BY DEF IsHoldings
  <2> QED BY <2>2, <2>3 DEF WorthOf
<1>7. \A h \in H : f[h] \in Int
  BY WorthOfTyped
<1>8. SumFunction(g) = SumFunctionOnSet(g, T)
  <2>1. DOMAIN g = T
    OBVIOUS
  <2> HIDE DEF g, T
  <2> QED BY <2>1, SumOver
<1>9. T \in SUBSET H /\ IsFiniteSet(H)
  BY DEF IsHoldings
<1> HIDE DEF f, g, T
<1>10. SumFunctionOnSet(f, H) = SumFunctionOnSet(g, T)
  BY <1>5, <1>6, <1>7, <1>9, SumOverMore
<1> QED BY <1>3, <1>8, <1>10 DEF prices, f

\* The open holdings of a portfolio, or of all, are holdings.
LEMMA OpenAreHoldings ==
  ASSUME NEW L, Recorded(L), NEW p
  PROVE  /\ IsHoldings(Open(OfPortfolio(Holdings(L), p)))
         /\ IsHoldings(OfPortfolio(Holdings(L), p))
         /\ IsHoldings(Open(Holdings(L)))
         /\ Open(OfPortfolio(Holdings(L), p)) \subseteq OfPortfolio(Holdings(L), p)
<1>1. IsHoldings(Open(OfPortfolio(Holdings(L), p)))
  BY OpenTyped DEF IsHoldings
<1>2. IsHoldings(OfPortfolio(Holdings(L), p))
  <2> DEFINE H == Holdings(L)
  <2>1. IsFiniteSet(H) /\ \A h \in H : h.symbol \in Symbols /\ h.shares \in Nat
    BY HoldingsTyped
  <2> HIDE DEF H
  <2>2. IsFiniteSet(OfPortfolio(H, p))
    BY <2>1, FS_Subset DEF OfPortfolio
  <2> QED BY <2>1, <2>2 DEF IsHoldings, OfPortfolio, H
<1>3. IsHoldings(Open(Holdings(L)))
  BY AllOpenTyped DEF IsHoldings
<1>4. Open(OfPortfolio(Holdings(L), p)) \subseteq OfPortfolio(Holdings(L), p)
  BY DEF Open
<1> QED BY <1>1, <1>2, <1>3, <1>4

\* The value of a summary is what the open holdings are worth at their live quotes.
LEMMA SummaryValueIs ==
  ASSUME FiguresIInv, NEW p \in Portfolios
  PROVE  LET open == Open(OfPortfolio(Holdings(ledger), p))
         IN  /\ Summary(ledger, Window, p, market.quotes).value = SumFunctionOnSet(WorthOf(open), open)
             /\ Summary(ledger, Window, p, market.quotes).value \in Nat
<1> DEFINE open == Open(OfPortfolio(Holdings(ledger), p))
           D == DistinctSymbols(open)
<1>1. IsHoldings(open)
  BY OpenAreHoldings DEF FiguresIInv
<1>2. Summary(ledger, Window, p, market.quotes).value =
        PositionsValue(open, FetchQuotePrices(market.quotes, D))
  BY DEF Summary
<1> HIDE DEF open
<1>3. D \subseteq Symbols
  BY <1>1 DEF DistinctSymbols, IsHoldings
<1>4. PositionsValue(open, FetchQuotePrices(market.quotes, D)) = SumFunctionOnSet(WorthOf(open), open)
  BY <1>1, <1>3, ValueOfHoldings
<1>5. SumFunctionOnSet(WorthOf(open), open) \in Nat
  BY <1>1, WorthOfTyped
<1> QED BY <1>2, <1>4, <1>5 DEF open

\* A holding shown with its live figures is worth what its shares are at the live quote.
LEMMA EnrichedIs ==
  ASSUME FiguresIInv, NEW h, h.symbol \in Symbols, h.shares \in Nat
  PROVE  EnrichedHolding(h, market.quotes).value = h.shares * LiveQuotes[h.symbol]
<1> DEFINE q == market.quotes[h.symbol]
           v == LiveQuotes[h.symbol]
<1>1. EnrichedHolding(h, market.quotes).value =
        IF h.shares > 0 /\ q # Unavailable THEN h.shares * q ELSE 0
  BY DEF EnrichedHolding
<1>2. v \in Nat /\ (q = Unavailable => v = 0) /\ (q # Unavailable => q = v)
  BY QuoteCases
<1> SUFFICES EnrichedHolding(h, market.quotes).value = h.shares * v
  OBVIOUS
<1> HIDE DEF q, v
<1>3. CASE h.shares > 0 /\ q # Unavailable
  BY <1>1, <1>2, <1>3
<1>4. CASE ~ (h.shares > 0)
  <2>1. h.shares = 0
    BY <1>4
  <2> QED BY <1>1, <1>2, <2>1
<1>5. CASE q = Unavailable
  BY <1>1, <1>2, <1>5
<1> QED BY <1>3, <1>4, <1>5

\* The holdings shown, closed ones too, add up to what the open ones are worth.
LEMMA HoldingsAddUp ==
  ASSUME FiguresIInv, NEW p \in Portfolios
  PROVE  LET all == OfPortfolio(Holdings(ledger), p)
         IN  SumFunction([h \in all |-> EnrichedHolding(h, market.quotes).value]) =
               SumFunctionOnSet(WorthOf(Open(all)), Open(all))
<1> DEFINE all == OfPortfolio(Holdings(ledger), p)
           f == [h \in all |-> EnrichedHolding(h, market.quotes).value]
           g == WorthOf(Open(all))
<1>1. IsHoldings(all) /\ IsHoldings(Open(all)) /\ Open(all) \subseteq all
  BY OpenAreHoldings DEF FiguresIInv
<1> HIDE DEF all
<1>2. ASSUME NEW h \in all PROVE f[h] = h.shares * LiveQuotes[h.symbol] /\ f[h] \in Int
  <2>1. h.symbol \in Symbols /\ h.shares \in Nat
    BY <1>1 DEF IsHoldings
  <2>2. f[h] = h.shares * LiveQuotes[h.symbol]
    BY <2>1, EnrichedIs
  <2>3. LiveQuotes[h.symbol] \in Nat
    BY <2>1, QuoteCases
  <2>4. h.shares * LiveQuotes[h.symbol] \in Int
    BY <2>1, <2>3
  <2> QED BY <2>2, <2>4
<1>3. \A h \in Open(all) : f[h] = g[h]
  <2> HIDE DEF f
  <2> QED BY <1>1, <1>2 DEF WorthOf
<1>4. ASSUME NEW h \in all \ Open(all) PROVE f[h] = 0
  <2>1. h.shares \in Nat /\ ~ (h.shares > 0) /\ h.symbol \in Symbols
    BY <1>1 DEF IsHoldings, Open
  <2>2. h.shares = 0 /\ LiveQuotes[h.symbol] \in Nat
    BY <2>1, QuoteCases
  <2> HIDE DEF f
  <2> QED BY <1>2, <2>2
<1>5. DOMAIN f = all
  OBVIOUS
<1>6. IsFiniteSet(all)
  BY <1>1 DEF IsHoldings
<1> HIDE DEF f, g
<1>7. SumFunction(f) = SumFunctionOnSet(f, all)
  BY <1>5, SumOver
<1> DEFINE T == Open(all)
<1>8. T \in SUBSET all /\ (\A h \in T : f[h] = g[h]) /\ (\A h \in all \ T : f[h] = 0)
  BY <1>1, <1>3, <1>4
<1> HIDE DEF T
<1>9. SumFunctionOnSet(f, all) = SumFunctionOnSet(g, T)
  BY <1>2, <1>6, <1>8, SumOverMore
<1> QED BY <1>7, <1>9 DEF f, g, all, T

\* The holdings with a quote and a change, those whose price fell by all of it left out.
KnownOf(H) == {h \in H : Known(h.symbol) /\ market.changes[h.symbol] # -100}

\* The list adds up the known ones, at the same quotes.
LEMMA ListValueIs ==
  ASSUME FiguresIInv, NEW p \in Portfolios
  PROVE  LET open == Open(OfPortfolio(Holdings(ledger), p))
         IN  /\ Entry(p).value # Unavailable =>
                   Entry(p).value = SumFunctionOnSet(WorthOf(open), KnownOf(open))
             /\ KnownOf(open) = open =>
                   Entry(p).value = SumFunctionOnSet(WorthOf(open), KnownOf(open))
<1> DEFINE H == Holdings(ledger)
           open == Open(OfPortfolio(H, p))
           prices == FetchPrices(market.quotes, market.changes, DistinctSymbols(H))
           K == {h \in open : h.symbol \in DOMAIN prices /\ prices[h.symbol].change # -100}
           f == WorthOf(open)
           g == [h \in K |-> h.shares * prices[h.symbol].price]
<1>1. Entry(p).value = IF open # {} /\ ~AnyPriced(open, prices) THEN Unavailable
                       ELSE AggregateValue(open, prices)
  BY DEF Entry, ListEntry
<1>2. /\ IsHoldings(open) /\ open \subseteq H
  BY OpenAreHoldings DEF Open, OfPortfolio, FiguresIInv
<1>3. DOMAIN prices =
        {s \in DistinctSymbols(H) : market.quotes[s] # Unavailable /\ market.changes[s] # Unavailable}
  BY DEF FetchPrices
<1>4. \A s \in DOMAIN prices : prices[s].price = market.quotes[s] /\ prices[s].change = market.changes[s]
  BY DEF FetchPrices
<1>5. \A h \in open : h.symbol \in DistinctSymbols(H)
  BY <1>2 DEF DistinctSymbols
<1>6. AggregateValue(open, prices) = SumFunction(g)
  BY DEF AggregateValue
<1>7. AnyPriced(open, prices) <=> \E h \in open : h.symbol \in DOMAIN prices
  BY DEF AnyPriced
<1> HIDE DEF H, open, prices
<1>8. \A h \in open : h.symbol \in DOMAIN prices <=> Known(h.symbol)
  BY <1>3, <1>5 DEF Known
<1>9. K = KnownOf(open)
  BY <1>4, <1>8 DEF KnownOf
<1>10. \A h \in K : f[h] \in Int /\ f[h] = g[h]
  <2> SUFFICES ASSUME NEW h \in K PROVE f[h] \in Int /\ f[h] = g[h]
    OBVIOUS
  <2>1. h \in open /\ h.symbol \in Symbols /\ market.quotes[h.symbol] # Unavailable
    BY <1>2, <1>3 DEF IsHoldings
  <2>2. market.quotes[h.symbol] = LiveQuotes[h.symbol] /\ prices[h.symbol].price = market.quotes[h.symbol]
    BY <1>4, <2>1, QuoteCases
  <2>3. f[h] = h.shares * LiveQuotes[h.symbol] /\ f[h] \in Int
    BY <1>2, <2>1, WorthOfTyped
  <2>4. g[h] = h.shares * prices[h.symbol].price
    OBVIOUS
  <2> HIDE DEF f, g
  <2> QED BY <2>2, <2>3, <2>4
<1>11. IsFiniteSet(K) /\ K \subseteq open
  BY <1>2, FS_Subset DEF IsHoldings
<1>12. SumFunction(g) = SumFunctionOnSet(f, K)
  <2>1. DOMAIN g = K
    OBVIOUS
  <2> HIDE DEF f, g, K
  <2>2. SumFunction(g) = SumFunctionOnSet(g, K)
    BY <2>1, SumOver
  <2> QED BY <1>10, <1>11, <2>2, SumsSame
<1>13. KnownOf(open) = open => open = {} \/ AnyPriced(open, prices)
  BY <1>7, <1>8 DEF KnownOf
<1> HIDE DEF f, g, K
<1>14. Entry(p).value # Unavailable => Entry(p).value = SumFunctionOnSet(f, KnownOf(open))
  BY <1>1, <1>6, <1>9, <1>12
<1>15. KnownOf(open) = open => Entry(p).value = SumFunctionOnSet(f, KnownOf(open))
  BY <1>1, <1>6, <1>9, <1>12, <1>13
<1> QED BY <1>14, <1>15 DEF f, open, H

\* So the list never shows more than the summary, and the same when nothing failed.
LEMMA ListAgreesWithSummary ==
  ASSUME FiguresIInv, NEW p \in Portfolios
  PROVE  LET open == Open(OfPortfolio(Holdings(ledger), p))
             value == SumFunctionOnSet(WorthOf(open), open)
         IN  /\ Entry(p).value # Unavailable => Entry(p).value <= value
             /\ (\A h \in open : LiveQuotes[h.symbol] > 0 /\ market.changes[h.symbol] \notin {Unavailable, -100})
                   => Entry(p).value = value
<1> DEFINE open == Open(OfPortfolio(Holdings(ledger), p))
           K == KnownOf(open)
           f == WorthOf(open)
<1>1. IsHoldings(open)
  BY OpenAreHoldings DEF FiguresIInv
<1>2. /\ Entry(p).value # Unavailable => Entry(p).value = SumFunctionOnSet(f, K)
      /\ K = open => Entry(p).value = SumFunctionOnSet(f, K)
  BY ListValueIs
<1> HIDE DEF open
<1>3. IsFiniteSet(open) /\ K \in SUBSET open /\ \A h \in open : f[h] \in Nat
  BY <1>1, WorthOfTyped DEF IsHoldings, KnownOf
<1>4. (\A h \in open : LiveQuotes[h.symbol] > 0 /\ market.changes[h.symbol] \notin {Unavailable, -100}) => K = open
  <2>1. \A h \in open : LiveQuotes[h.symbol] > 0 => market.quotes[h.symbol] # Unavailable
    BY <1>1, QuoteCases DEF IsHoldings
  <2> QED BY <2>1 DEF KnownOf, Known
<1> HIDE DEF f, K
<1>5. SumFunctionOnSet(f, K) <= SumFunctionOnSet(f, open)
  BY <1>3, SumSubset
<1> QED BY <1>2, <1>4, <1>5 DEF open, f

\* The input of an analysis: nothing, nothing of any worth, or weights that add up to what the
\* open holdings are worth.
LEMMA AnalysisAgrees ==
  ASSUME FiguresIInv, NEW p \in Portfolios
  PROVE  LET open == Open(OfPortfolio(Holdings(ledger), p))
             value == SumFunctionOnSet(WorthOf(open), open)
             analysis == AnalysisData(OfPortfolio(Holdings(ledger), p), p, market.quotes)
         IN  /\ open = {} => analysis = [refused |-> "ErrPortfolioEmpty"] /\ value = 0
             /\ open # {} /\ value = 0 => analysis = [refused |-> "ErrPricingUnavailable"]
             /\ value > 0 => SumFunction(analysis.weights) = value
<1> DEFINE open == Open(OfPortfolio(Holdings(ledger), p))
           f == WorthOf(open)
           value == SumFunctionOnSet(f, open)
           analysis == AnalysisData(OfPortfolio(Holdings(ledger), p), p, market.quotes)
           worth(h) == EnrichedHolding(h, market.quotes).value
           S == {h \in open : worth(h) > 0}
           T == {h.symbol : h \in S}
           g == [s \in T |-> SumFunction([h \in {h \in open : h.symbol = s} |-> worth(h)])]
<1>1. Open(OfPortfolio(OfPortfolio(Holdings(ledger), p), p)) = open
  BY DEF Open, OfPortfolio
<1>2. analysis = CASE open = {} -> [refused |-> "ErrPortfolioEmpty"]
                   [] open # {} /\ (\A h \in open : worth(h) <= 0) -> [refused |-> "ErrPricingUnavailable"]
                   [] OTHER -> [weights |-> g]
  BY <1>1 DEF AnalysisData
<1>3. IsHoldings(open) /\ \A h, k \in open : h.symbol = k.symbol => h = k
  BY OpenAreHoldings, OpenTyped DEF FiguresIInv
<1>4. \A h \in open : worth(h) = f[h] /\ f[h] \in Nat
  <2> SUFFICES ASSUME NEW h \in open PROVE worth(h) = f[h] /\ f[h] \in Nat
    OBVIOUS
  <2>1. h.symbol \in Symbols /\ h.shares \in Nat
    BY <1>3 DEF IsHoldings
  <2>2. worth(h) = h.shares * LiveQuotes[h.symbol]
    BY <2>1, EnrichedIs
  <2>3. f[h] = h.shares * LiveQuotes[h.symbol] /\ f[h] \in Nat
    BY <1>3, WorthOfTyped
  <2> QED BY <2>2, <2>3
<1> HIDE DEF open, f, worth, analysis
<1>5. IsFiniteSet(open)
  BY <1>3 DEF IsHoldings
<1>6. open = {} => value = 0
  BY SumEmpty
<1>7. (\A h \in open : worth(h) <= 0) => value = 0
  <2> SUFFICES ASSUME \A h \in open : worth(h) <= 0 PROVE value = 0
    OBVIOUS
  <2>1. \A h \in open : f[h] = 0
    BY <1>4
  <2> QED BY <1>5, <2>1, SumZero
<1>8. ASSUME value = 0 PROVE \A h \in open : worth(h) <= 0
  <2> SUFFICES ASSUME NEW h \in open, ~ (worth(h) <= 0) PROVE FALSE
    OBVIOUS
  <2>1. f[h] > 0 /\ \A k \in open : f[k] \in Nat
    BY <1>4
  <2>2. SumFunctionOnSet(f, open) > 0
    BY <1>5, <2>1, SumPositive
  <2> QED BY <1>8, <2>2
<1>9. SumFunctionOnSet(f, open) = SumFunctionOnSet(f, S)
  <2>1. S \in SUBSET open /\ (\A h \in open : f[h] \in Int) /\ \A h \in open \ S : f[h] = 0
    BY <1>4
  <2> HIDE DEF S
  <2> QED BY <1>5, <2>1, SumOverMore
<1>10. IsFiniteSet(S) /\ S \subseteq open
  BY <1>5, FS_Subset
<1>11. ASSUME NEW h \in S PROVE g[h.symbol] = f[h]
  <2> DEFINE k == [x \in {x \in open : x.symbol = h.symbol} |-> worth(x)]
  <2>1. g[h.symbol] = SumFunction(k)
    OBVIOUS
  <2>2. {x \in open : x.symbol = h.symbol} = {h}
    BY <1>3, <1>10
  <2>3. DOMAIN k = {h} /\ k[h] = f[h] /\ k[h] \in Int
    BY <1>4, <1>10, <2>2
  <2> HIDE DEF k, g
  <2>4. SumFunction(k) = SumFunctionOnSet(k, {h})
    BY <2>3, SumOver
  <2>5. SumFunctionOnSet(k, {h}) = k[h]
    BY <2>3, SumSingle
  <2> QED BY <2>1, <2>3, <2>4, <2>5
<1>12. SumFunction(g) = SumFunctionOnSet(f, S)
  <2> DEFINE new == [h \in S |-> h.symbol]
  <2>1. DOMAIN g = T
    OBVIOUS
  <2>2. T = {new[h] : h \in S}
    OBVIOUS
  <2>3. \A h \in S : new[h] = h.symbol /\ new[h] \in T /\ f[h] \in Int /\ g[new[h]] = f[h]
    BY <1>4, <1>11
  <2>4. \A h, k \in S : new[h] = new[k] => h = k
    BY <1>3
  <2>5. \A t \in T : \E h \in S : new[h] = t
    OBVIOUS
  <2> HIDE DEF g, S, T, new
  <2>6. IsFiniteSet(T)
    BY <1>10, <2>2, ImageIsFinite
  <2>7. SumFunction(g) = SumFunctionOnSet(g, T)
    BY <2>1, SumOver
  <2>8. SumFunctionOnSet(f, S) = SumFunctionOnSet(g, T)
    BY <1>10, <2>3, <2>4, <2>5, <2>6, SumRenamed
  <2> QED BY <2>7, <2>8
<1>13. open = {} => analysis = [refused |-> "ErrPortfolioEmpty"]
  BY <1>2
<1>14. open # {} /\ value = 0 => analysis = [refused |-> "ErrPricingUnavailable"]
  BY <1>2, <1>8
<1>15. value > 0 => analysis.weights = g
  <2> HIDE DEF g
  <2> SUFFICES ASSUME value > 0 PROVE analysis.weights = g
    OBVIOUS
  <2>1. open # {} /\ ~ (\A h \in open : worth(h) <= 0)
    BY <1>6, <1>7
  <2>2. analysis = [weights |-> g]
    BY <1>2, <2>1
  <2> QED BY <2>2
<1> HIDE DEF g, S, value
<1>16. value > 0 => SumFunction(analysis.weights) = value
  BY <1>9, <1>12, <1>15 DEF value
<1> QED BY <1>6, <1>13, <1>14, <1>16 DEF open, f, analysis, value

\* The rows of one portfolio are a ledger that replays, and hold of each symbol what the
\* portfolio does.
LEMMA PortfolioReplays ==
  ASSUME NEW L, Recorded(L), AllReplay(L), NEW p \in Portfolios
  PROVE  /\ Recorded(PortfolioRows(L, p)) /\ AllReplay(PortfolioRows(L, p))
         /\ \A s \in Symbols : AllHeld(PortfolioRows(L, p), s) = HeldIn(L, p, s)
<1> DEFINE M == PortfolioRows(L, p)
<1>1. /\ Recorded(M) /\ Stored(M) = {i \in Stored(L) : L[i].portfolio = p}
      /\ \A i \in Stored(M) : M[i] = L[i]
  BY PortfolioPart
<1>2. PortfolioRows(M, p) = M
  <2>1. \A i \in TxIds : M[i] = IF L[i] # NoRow /\ L[i].portfolio = p THEN L[i] ELSE NoRow
    BY DEF PortfolioRows
  <2>2. M = [i \in TxIds |-> M[i]]
    BY DEF PortfolioRows
  <2> HIDE DEF M
  <2>3. \A i \in TxIds : (IF M[i] # NoRow /\ M[i].portfolio = p THEN M[i] ELSE NoRow) = M[i]
    BY <2>1
  <2> QED BY <2>2, <2>3 DEF PortfolioRows
<1>3. \A s \in Symbols : Of(M, p, s) = Of(L, p, s)
  BY <1>2 DEF Of
<1> HIDE DEF M
<1>4. ASSUME NEW q \in Portfolios, NEW s \in Symbols PROVE Replays(Of(M, q, s))
  <2>1. CASE q = p
    BY <1>3, <2>1 DEF AllReplay
  <2>2. CASE q # p
    <3>1. Recorded(Of(M, q, s)) /\ Stored(Of(M, q, s)) = {i \in Stored(M) : M[i].portfolio = q /\ M[i].symbol = s}
      BY <1>1, HoldingPart
    <3>2. Stored(Of(M, q, s)) = {}
      BY <1>1, <2>2, <3>1
    <3> QED BY <3>1, <3>2, RecordedIsFinite, EmptyReplays
  <2> QED BY <2>1, <2>2
<1>5. ASSUME NEW s \in Symbols PROVE AllHeld(M, s) = HeldIn(L, p, s)
  <2> DEFINE N == Of(L, p, s)
             T == OfSymbol(M, s)
  <2>1. /\ Recorded(N) /\ Stored(N) = {i \in Stored(L) : L[i].portfolio = p /\ L[i].symbol = s}
        /\ \A i \in Stored(N) : N[i] = L[i]
    BY HoldingPart
  <2>2. T = Stored(N) /\ T \subseteq Stored(M)
    BY <1>1, <2>1 DEF OfSymbol
  <2>3. \A i \in T : M[i] = N[i]
    BY <1>1, <2>1, <2>2
  <2>4. HeldIn(L, p, s) = NetQuantity(N, Stored(N))
    BY HeldIsNet
  <2> HIDE DEF N, T
  <2>5. FiniteLedger(M) /\ FiniteLedger(N)
    BY <1>1, <2>1, RecordedIsFinite
  <2>6. NetQuantity(M, T) = NetQuantity(N, T)
    BY <2>2, <2>3, <2>5, SameNet
  <2> QED BY <2>2, <2>4, <2>6 DEF AllHeld, T
<1> QED BY <1>1, <1>4, <1>5 DEF AllReplay, M

\* The last point of the series of a portfolio whose open holdings all have a quote is what
\* they are worth.
LEMMA SeriesEndsAtValue ==
  ASSUME FiguresIInv, NEW p \in Portfolios,
         \A h \in Open(OfPortfolio(Holdings(ledger), p)) : LiveQuotes[h.symbol] > 0
  PROVE  LET open == Open(OfPortfolio(Holdings(ledger), p))
         IN  ValueOn([Loaded EXCEPT !.ledger = PortfolioRows(ledger, p)], Today) =
               SumFunctionOnSet(WorthOf(open), open)
<1> DEFINE open == Open(OfPortfolio(Holdings(ledger), p))
           v == Loaded
           w == [v EXCEPT !.ledger = PortfolioRows(ledger, p)]
           M == PortfolioRows(ledger, p)
           f == WorthOf(open)
           g == Worths(w, Today)
<1>1. v = WindowOf(ActiveSymbols(ledger, From))
  BY LoadedIsWindowOf
<1>2. /\ v.from = From /\ v.to = Today /\ v.live = LiveQuotes
      /\ IsWindow(v)
  BY <1>1, WindowFields, LoadedIsWindow
<1>3. w.ledger = M /\ w.from = From /\ w.to = Today /\ w.live = LiveQuotes /\ w.closes = v.closes
  <2>1. v = [ledger |-> ledger, closes |-> v.closes, live |-> LiveQuotes, from |-> From, to |-> Today]
    BY DEF Loaded, Window
  <2> HIDE DEF v
  <2> QED BY <2>1
<1>4. Recorded(ledger) /\ AllReplay(ledger)
  BY DEF FiguresIInv, AllReplay
<1>5. Recorded(M) /\ AllReplay(M) /\ \A s \in Symbols : AllHeld(M, s) = HeldIn(ledger, p, s)
  BY <1>4, PortfolioReplays
<1> HIDE DEF v, w, M
<1>6. IsWindow(w)
  BY <1>2, <1>3, <1>5 DEF IsWindow
<1>7. Today \in Nat /\ Today \in Int /\ \A d \in Days : d <= Today
  BY WindowDays
<1>8. ASSUME NEW s \in Symbols PROVE SharesOn(w, s, Today) = HeldIn(ledger, p, s)
  <2>1. \A i \in Stored(M) : M[i].day \in Days
    <3>1. \A i \in Stored(M) : M[i] \in TradeRow
      BY <1>5, RecordedFields
    <3> QED BY <3>1 DEF TradeRow
  <2>2. Upto(M, s, Today) = OfSymbol(M, s)
    BY <1>7, <2>1 DEF Upto, OfSymbol
  <2>3. SharesOn(w, s, Today) = NetQuantity(M, Upto(M, s, Today))
    BY <1>3, <1>5, <1>7, SharesAreNet
  <2> QED BY <1>5, <2>2, <2>3 DEF AllHeld
<1>9. ASSUME NEW s \in Symbols
      PROVE  /\ g[s] = HeldIn(ledger, p, s) * PriceOn(w, s, Today)
             /\ PriceOn(w, s, Today) \in Nat
             /\ LiveQuotes[s] > 0 => PriceOn(w, s, Today) = LiveQuotes[s]
  <2>1. g[s] = WorthOn(w, s, Today)
    BY DEF Worths
  <2>2. /\ PriceOn(w, s, Today) \in Nat
        /\ LiveQuotes[s] > 0 => PriceOn(w, s, Today) = LiveQuotes[s]
    BY <1>3, <1>6, <1>7, PriceCases
  <2> HIDE DEF g
  <2> QED BY <1>8, <2>1, <2>2 DEF WorthOn
<1>10. IsHoldings(open) /\ \A h \in open : h.shares = HeldIn(ledger, p, h.symbol)
  <2>1. \A h \in open : h.portfolio = p /\ h \in Holdings(ledger)
    BY <1>4, OpenTyped
  <2>2. \A h \in Holdings(ledger) : h.shares = HeldIn(ledger, h.portfolio, h.symbol)
    BY <1>4, HoldingsTyped DEF HeldIn
  <2>3. IsHoldings(open)
    BY <1>4, OpenAreHoldings
  <2> HIDE DEF open
  <2> QED BY <2>1, <2>2, <2>3
<1>11. \A h \in open : LiveQuotes[h.symbol] > 0
  OBVIOUS
<1> HIDE DEF g, f
<1>12. ASSUME NEW h \in open PROVE f[h] \in Int /\ g[h.symbol] = f[h]
  <2>1. h.symbol \in Symbols
    BY <1>10 DEF IsHoldings
  <2>2. f[h] = h.shares * LiveQuotes[h.symbol] /\ f[h] \in Int
    BY <1>10, WorthOfTyped DEF f
  <2>3. g[h.symbol] = HeldIn(ledger, p, h.symbol) * LiveQuotes[h.symbol]
    BY <1>9, <1>11, <2>1
  <2> QED BY <1>10, <2>2, <2>3
<1>13. \A s \in Symbols : HeldIn(ledger, p, s) = 0 => g[s] = 0
  BY <1>9
<1>14. SumFunctionOnSet(f, open) = SumFunctionOnSet(g, Symbols)
  BY <1>4, <1>12, <1>13, SumByHolding
<1>15. ValueOn(w, Today) = SumFunctionOnSet(g, Symbols)
  BY <1>6, <1>7, ValueIsSum DEF g
<1> QED BY <1>14, <1>15 DEF f, w, v, open

\* One portfolio: the summary, the holdings, the list, the series and the analysis agree.
LEMMA OnePortfolioAgrees ==
  ASSUME FiguresIInv, NEW p \in Portfolios
  PROVE  PortfolioViewsAgree(p, OfPortfolio(Holdings(ledger), p),
                             Summary(ledger, Window, p, market.quotes).value, Entry(p).value)
<1> DEFINE holdings == OfPortfolio(Holdings(ledger), p)
           open == Open(holdings)
           full == \A h \in open : LiveQuotes[h.symbol] > 0
           analysis == AnalysisData(holdings, p, market.quotes)
           value == Summary(ledger, Window, p, market.quotes).value
           entry == Entry(p).value
           series == ValueOn([Loaded EXCEPT !.ledger = PortfolioRows(ledger, p)], Today)
<1>1. value = SumFunctionOnSet(WorthOf(open), open) /\ value \in Nat
  BY SummaryValueIs
<1>2. value = SumFunction([h \in holdings |-> EnrichedHolding(h, market.quotes).value])
  BY <1>1, HoldingsAddUp
<1>3. /\ entry # Unavailable => entry <= value
      /\ full /\ (\A h \in open : market.changes[h.symbol] \notin {Unavailable, -100}) => entry = value
  BY <1>1, ListAgreesWithSummary
<1>4. full => series = value
  BY <1>1, SeriesEndsAtValue
<1>5. /\ open = {} => analysis = [refused |-> "ErrPortfolioEmpty"] /\ value = 0
      /\ open # {} /\ value = 0 => analysis = [refused |-> "ErrPricingUnavailable"]
      /\ value > 0 => SumFunction(analysis.weights) = value
  BY <1>1, AnalysisAgrees
<1>6. (CASE open = {} -> analysis = [refused |-> "ErrPortfolioEmpty"]
         [] open # {} /\ value = 0 -> analysis = [refused |-> "ErrPricingUnavailable"]
         [] value > 0 -> SumFunction(analysis.weights) = value)
  <2> DEFINE empty == analysis = [refused |-> "ErrPortfolioEmpty"]
             unpriced == analysis = [refused |-> "ErrPricingUnavailable"]
             weighted == SumFunction(analysis.weights) = value
  <2>1. /\ open = {} => empty /\ value = 0
        /\ open # {} /\ value = 0 => unpriced
        /\ value > 0 => weighted
    BY <1>5
  <2>2. empty \in BOOLEAN /\ unpriced \in BOOLEAN /\ weighted \in BOOLEAN
    OBVIOUS
  <2>3. value \in Nat
    BY <1>1
  <2> HIDE DEF open, empty, unpriced, weighted, value
  <2>4. ASSUME open = {} PROVE CASE open = {} -> empty [] open # {} /\ value = 0 -> unpriced [] value > 0 -> weighted
    <3>1. empty = TRUE /\ ~ (open # {} /\ value = 0) /\ ~ (value > 0)
      BY <2>1, <2>2, <2>3, <2>4
    <3> QED BY <2>4, <3>1
  <2>5. ASSUME open # {}, value = 0 PROVE CASE open = {} -> empty [] open # {} /\ value = 0 -> unpriced [] value > 0 -> weighted
    <3>1. unpriced = TRUE /\ ~ (value > 0)
      BY <2>1, <2>2, <2>5
    <3> QED BY <2>5, <3>1
  <2>6. ASSUME open # {}, value # 0 PROVE CASE open = {} -> empty [] open # {} /\ value = 0 -> unpriced [] value > 0 -> weighted
    <3>1. weighted = TRUE /\ value > 0
      BY <2>1, <2>2, <2>3, <2>6
    <3> QED BY <2>6, <3>1
  <2> QED BY <2>4, <2>5, <2>6 DEF empty, unpriced, weighted
<1> QED BY <1>2, <1>3, <1>4, <1>6 DEF PortfolioViewsAgree

\* The value of all portfolios is the sum of theirs.
LEMMA TotalIsSumOfValues ==
  ASSUME FiguresIInv
  PROVE  SumFunction([p \in Portfolios |-> Summary(ledger, Window, p, market.quotes).value]) =
           SummaryOfAll(ledger, market.quotes).value
<1> DEFINE S == Open(Holdings(ledger))
           D == DistinctSymbols(S)
           f == WorthOf(S)
           g == [p \in Portfolios |-> Summary(ledger, Window, p, market.quotes).value]
           key == [h \in S |-> h.portfolio]
           all == SummaryOfAll(ledger, market.quotes).value
<1>1. Recorded(ledger)
  BY DEF FiguresIInv
<1>2. IsHoldings(S)
  BY <1>1, OpenAreHoldings
<1>3. all = PositionsValue(S, FetchQuotePrices(market.quotes, D))
  BY DEF SummaryOfAll
<1>4. D \subseteq Symbols
  BY <1>2 DEF DistinctSymbols, IsHoldings
<1> HIDE DEF all
<1>5. all = SumFunctionOnSet(f, S)
  <2> HIDE DEF S
  <2> QED BY <1>2, <1>3, <1>4, ValueOfHoldings
<1>6. \A h \in S : key[h] \in Portfolios
  BY <1>1, AllOpenTyped
<1>7. ASSUME NEW p \in Portfolios PROVE g[p] = SumFunctionOnSet(f, {h \in S : key[h] = p})
  <2> DEFINE open == Open(OfPortfolio(Holdings(ledger), p))
             k == WorthOf(open)
  <2>1. {h \in S : h.portfolio = p} = open
    BY <1>1, AllOpenTyped
  <2>2. {h \in S : key[h] = p} = open
    BY <2>1
  <2>3. g[p] = SumFunctionOnSet(k, open)
    BY SummaryValueIs
  <2>4. IsHoldings(open)
    BY <1>1, OpenAreHoldings
  <2>5. open \subseteq S
    BY <2>1
  <2> HIDE DEF open, g, S, key
  <2>6. IsFiniteSet(open) /\ \A h \in open : k[h] = f[h] /\ k[h] \in Int
    BY <2>4, <2>5, WorthOfTyped DEF IsHoldings, WorthOf
  <2> HIDE DEF k, f
  <2>7. SumFunctionOnSet(k, open) = SumFunctionOnSet(f, open)
    BY <2>6, SumsSame
  <2> QED BY <2>2, <2>3, <2>7
<1>8. \A h \in S : f[h] \in Int
  BY <1>2, WorthOfTyped
<1>9. IsFiniteSet(S)
  BY <1>2 DEF IsHoldings
<1>10. DOMAIN g = Portfolios
  OBVIOUS
<1> HIDE DEF S, f, g, key
<1>11. GroupedBy(key, f, g, S, Portfolios)
  BY <1>7 DEF GroupedBy
<1>12. SumFunctionOnSet(f, S) = SumFunctionOnSet(g, Portfolios)
  BY <1>6, <1>8, <1>9, <1>11, RecordedRows, SumGrouped
<1>13. SumFunction(g) = SumFunctionOnSet(g, Portfolios)
  BY <1>10, SumOver
<1> QED BY <1>5, <1>12, <1>13 DEF g, all

\* What is held of each symbol, over all portfolios, is worth.
WorthBySymbol(L) == [s \in Symbols |-> AllHeld(L, s) * LiveQuotes[s]]

\* That is the sum over its open holdings.
LEMMA WorthOfSymbol ==
  ASSUME FiguresIInv, NEW L, Recorded(L), AllReplay(L), NEW s \in Symbols
  PROVE  LET part == {h \in Open(Holdings(L)) : h.symbol = s}
         IN  /\ WorthBySymbol(L)[s] \in Nat
             /\ IsHoldings(part)
             /\ SumFunctionOnSet(WorthOf(part), part) = WorthBySymbol(L)[s]
<1> DEFINE S == Open(Holdings(L))
           part == {h \in S : h.symbol = s}
           f == [h \in S |-> h.shares]
           k == LiveQuotes[s]
           g == WorthOf(part)
<1>1. IsHoldings(S)
  BY OpenAreHoldings
<1>2. SumFunctionOnSet(f, part) = AllHeld(L, s)
  <2>1. \A h \in Open(Holdings(L)) : f[h] = h.shares
    OBVIOUS
  <2> HIDE DEF f
  <2> QED BY <2>1, SharesOfSymbol
<1>3. AllHeld(L, s) \in Nat /\ k \in Nat
  BY AllHeldIsSum, QuoteCases
<1> HIDE DEF S
<1>4. IsHoldings(part)
  <2>1. IsFiniteSet(part)
    BY <1>1, FS_Subset DEF IsHoldings
  <2> QED BY <1>1, <2>1 DEF IsHoldings
<1>5. ASSUME NEW h \in part PROVE f[h] \in Int /\ g[h] = k * f[h]
  <2>1. f[h] = h.shares /\ h.symbol = s /\ h.shares \in Nat
    BY <1>1 DEF IsHoldings
  <2>2. g[h] = h.shares * LiveQuotes[h.symbol]
    BY <1>4, WorthOfTyped
  <2> HIDE DEF f, g
  <2> QED BY <1>3, <2>1, <2>2
<1>6. IsFiniteSet(part) /\ k \in Int
  BY <1>3, <1>4 DEF IsHoldings
<1> HIDE DEF f, g, part, k
<1>7. SumFunctionOnSet(g, part) = k * SumFunctionOnSet(f, part)
  BY <1>5, <1>6, SumScaled
<1>8. WorthBySymbol(L)[s] = AllHeld(L, s) * k
  BY DEF WorthBySymbol, k
<1>9. AllHeld(L, s) * k \in Nat /\ AllHeld(L, s) * k = k * AllHeld(L, s)
  BY <1>3
<1> QED BY <1>2, <1>4, <1>7, <1>8, <1>9 DEF g, part, S

\* The value of all portfolios is the sum over the symbols.
LEMMA TotalIsBySymbol ==
  ASSUME FiguresIInv, NEW L, Recorded(L), AllReplay(L)
  PROVE  SummaryOfAll(L, market.quotes).value = SumFunctionOnSet(WorthBySymbol(L), Symbols)
<1> DEFINE S == Open(Holdings(L))
           D == DistinctSymbols(S)
           f == WorthOf(S)
           g == WorthBySymbol(L)
           key == [h \in S |-> h.symbol]
           all == SummaryOfAll(L, market.quotes).value
<1>1. IsHoldings(S)
  BY OpenAreHoldings
<1>2. all = PositionsValue(S, FetchQuotePrices(market.quotes, D))
  BY DEF SummaryOfAll
<1> HIDE DEF all
<1>3. D \subseteq Symbols
  BY <1>1 DEF DistinctSymbols, IsHoldings
<1>4. all = SumFunctionOnSet(f, S)
  <2> HIDE DEF S
  <2> QED BY <1>1, <1>2, <1>3, ValueOfHoldings
<1>5. ASSUME NEW s \in Symbols PROVE g[s] = SumFunctionOnSet(f, {h \in S : key[h] = s})
  <2> DEFINE part == {h \in S : h.symbol = s}
             k == WorthOf(part)
  <2>1. {h \in S : key[h] = s} = part
    OBVIOUS
  <2>2. g[s] = SumFunctionOnSet(k, part) /\ IsHoldings(part)
    BY WorthOfSymbol
  <2>3. part \subseteq S
    OBVIOUS
  <2> HIDE DEF part, g, S, key
  <2>4. IsFiniteSet(part) /\ \A h \in part : k[h] = f[h] /\ k[h] \in Int
    BY <2>2, <2>3, WorthOfTyped DEF IsHoldings, WorthOf
  <2> HIDE DEF k, f
  <2>5. SumFunctionOnSet(k, part) = SumFunctionOnSet(f, part)
    BY <2>4, SumsSame
  <2> QED BY <2>1, <2>2, <2>5
<1>6. /\ \A h \in S : f[h] \in Int
      /\ \A h \in S : key[h] \in Symbols
      /\ IsFiniteSet(S)
  BY <1>1, WorthOfTyped DEF IsHoldings
<1> HIDE DEF S, f, g, key
<1>7. GroupedBy(key, f, g, S, Symbols)
  BY <1>5 DEF GroupedBy
<1>8. SumFunctionOnSet(f, S) = SumFunctionOnSet(g, Symbols)
  BY <1>6, <1>7, RecordedRows, SumGrouped
<1> QED BY <1>4, <1>8 DEF all, g

\* The concentration of some worths of the symbols, as DiversificationScore has it.
ScoreOf(total, squares) ==
  IF total <= 0 THEN 0 ELSE RoundedQuotient((total * total - squares) * 100, total * total)

Squared(f) == [s \in Symbols |-> f[s] * f[s]]

\* The score depends on what is held of each symbol alone.
LEMMA ScoreIsBySymbol ==
  ASSUME FiguresIInv, NEW L, Recorded(L), AllReplay(L)
  PROVE  SummaryOfAll(L, market.quotes).score =
           ScoreOf(SumFunctionOnSet(WorthBySymbol(L), Symbols),
                   SumFunctionOnSet(Squared(WorthBySymbol(L)), Symbols))
<1> DEFINE S == Open(Holdings(L))
           D == DistinctSymbols(S)
           prices == FetchQuotePrices(market.quotes, D)
           worth(s) == PositionsValue({h \in S : h.symbol = s}, prices)
           T == D \intersect DOMAIN prices
           f == [s \in T |-> worth(s)]
           f2 == [s \in T |-> worth(s) * worth(s)]
           g == WorthBySymbol(L)
           g2 == Squared(g)
           score == SummaryOfAll(L, market.quotes).score
<1>1. score = ScoreOf(SumFunction(f), SumFunction(f2))
  BY DEF SummaryOfAll, DiversificationScore, ScoreOf
<1> HIDE DEF score
<1>2. IsHoldings(S)
  BY OpenAreHoldings
<1>3. D \subseteq Symbols
  BY <1>2 DEF DistinctSymbols, IsHoldings
<1>4. ASSUME NEW s \in Symbols PROVE worth(s) = g[s] /\ g[s] \in Nat
  <2> DEFINE part == {h \in S : h.symbol = s}
  <2>1. IsHoldings(part) /\ SumFunctionOnSet(WorthOf(part), part) = g[s] /\ g[s] \in Nat
    BY WorthOfSymbol
  <2>2. DistinctSymbols(part) \subseteq D
    BY DEF DistinctSymbols
  <2> HIDE DEF part, D, g
  <2>3. PositionsValue(part, prices) = SumFunctionOnSet(WorthOf(part), part)
    BY <1>3, <2>1, <2>2, ValueOfHoldings
  <2> QED BY <2>1, <2>3 DEF part
<1>5. ASSUME NEW s \in Symbols, s \notin T PROVE g[s] = 0
  <2> DEFINE part == {h \in S : h.symbol = s}
  <2>1. IsHoldings(part) /\ SumFunctionOnSet(WorthOf(part), part) = g[s]
    BY WorthOfSymbol
  <2>2. DOMAIN prices = {x \in D : market.quotes[x] # Unavailable /\ market.quotes[x] > 0}
    BY DEF FetchQuotePrices
  <2>3. CASE s \notin D
    <3>1. part = {}
      BY <2>3 DEF DistinctSymbols
    <3> HIDE DEF part, g
    <3> QED BY <2>1, <3>1, SumEmpty
  <2>4. CASE s \in D
    <3>1. LiveQuotes[s] = 0
      <4> HIDE DEF D, prices
      <4> QED BY <1>5, <2>2, <2>4, QuoteCases
    <3>2. g[s] = AllHeld(L, s) * LiveQuotes[s] /\ AllHeld(L, s) \in Nat
      BY AllHeldIsSum DEF WorthBySymbol
    <3> HIDE DEF g
    <3> QED BY <3>1, <3>2
  <2> QED BY <2>3, <2>4
<1>6. T \in SUBSET Symbols
  BY <1>3
<1>7. DOMAIN f = T /\ DOMAIN f2 = T
  OBVIOUS
<1>8. \A s \in T : g[s] = f[s] /\ g2[s] = f2[s]
  <2> SUFFICES ASSUME NEW s \in T PROVE g[s] = f[s] /\ g2[s] = f2[s]
    OBVIOUS
  <2>1. s \in Symbols /\ f[s] = worth(s) /\ f2[s] = worth(s) * worth(s)
    BY <1>6
  <2>2. worth(s) = g[s]
    BY <1>4, <1>6
  <2> HIDE DEF worth, f, f2, g
  <2> QED BY <2>1, <2>2 DEF Squared
<1> HIDE DEF worth, T, f, f2, g
<1>9. \A s \in Symbols : g[s] \in Int /\ g2[s] \in Int
  BY <1>4 DEF Squared
<1>10. \A s \in Symbols \ T : g[s] = 0 /\ g2[s] = 0
  BY <1>5 DEF Squared
<1> HIDE DEF g2
<1>11. SumFunctionOnSet(g, Symbols) = SumFunctionOnSet(f, T)
  BY <1>6, <1>8, <1>9, <1>10, RecordedRows, SumOverMore
<1>12. SumFunctionOnSet(g2, Symbols) = SumFunctionOnSet(f2, T)
  BY <1>6, <1>8, <1>9, <1>10, RecordedRows, SumOverMore
<1>13. SumFunction(f) = SumFunctionOnSet(f, T) /\ SumFunction(f2) = SumFunctionOnSet(f2, T)
  BY <1>7, SumOver
<1> QED BY <1>1, <1>11, <1>12, <1>13 DEF score, g, g2

\* Every row, moved to portfolio c.
MergedInto(L, c) == [i \in TxIds |-> IF L[i] = NoRow THEN NoRow ELSE [L[i] EXCEPT !.portfolio = c]]

\* A recorded row moved is a row of the same symbol, day, side and quantity.
LEMMA MovedRow ==
  ASSUME NEW L, Recorded(L), NEW c \in Portfolios, NEW i \in Stored(L)
  PROVE  LET t == MergedInto(L, c)[i]
         IN  /\ t \in TradeRow /\ t # NoRow /\ t.portfolio = c /\ t.symbol = L[i].symbol
             /\ t.side = L[i].side /\ t.quantity = L[i].quantity /\ t.day = L[i].day
<1> DEFINE r == L[i]
           t == [r EXCEPT !.portfolio = c]
<1>1. i \in TxIds /\ r # NoRow /\ r \in TradeRow
  BY RecordedFields
<1>2. MergedInto(L, c)[i] = t
  BY <1>1 DEF MergedInto
<1> HIDE DEF r
<1>3. /\ t \in TradeRow /\ t.portfolio = c /\ t.symbol = r.symbol
      /\ t.side = r.side /\ t.quantity = r.quantity /\ t.day = r.day
  BY <1>1 DEF TradeRow
<1>4. t # NoRow
  BY <1>3, RecordedRows
<1> QED BY <1>2, <1>3, <1>4 DEF r

\* What is moved together still replays, and holds the same: a portfolio may sell what another
\* bought, but no beginning of a symbol's rows sells more than it buys.
LEMMA MergedReplays ==
  ASSUME NEW L, Recorded(L), AllReplay(L), NEW c \in Portfolios
  PROVE  /\ Recorded(MergedInto(L, c)) /\ AllReplay(MergedInto(L, c))
         /\ \A s \in Symbols : AllHeld(MergedInto(L, c), s) = AllHeld(L, s)
<1> DEFINE M == MergedInto(L, c)
<1>1. Stored(M) = Stored(L)
  <2>1. \A i \in TxIds : L[i] = NoRow => M[i] = NoRow
    BY DEF MergedInto
  <2>2. \A i \in Stored(L) : M[i] # NoRow
    BY MovedRow
  <2> HIDE DEF M
  <2> QED BY <2>1, <2>2 DEF Stored
<1>2. \A i \in Stored(M) :
         /\ M[i] \in TradeRow /\ M[i].portfolio = c /\ M[i].symbol = L[i].symbol
         /\ M[i].side = L[i].side /\ M[i].quantity = L[i].quantity /\ M[i].day = L[i].day
  BY <1>1, MovedRow
<1>3. M = [i \in TxIds |-> M[i]]
  BY DEF MergedInto
<1> HIDE DEF M
<1>4. Recorded(M)
  <2>1. \A i \in TxIds : M[i] \in TradeRow \union {NoRow}
    BY <1>2 DEF Stored
  <2> QED BY <1>1, <1>3, <2>1 DEF Recorded
<1>5. FiniteLedger(L) /\ FiniteLedger(M)
  BY <1>4, RecordedIsFinite
<1>6. ASSUME NEW s \in Symbols PROVE OfSymbol(M, s) = OfSymbol(L, s)
  BY <1>1, <1>2 DEF OfSymbol
<1>7. ASSUME NEW s \in Symbols PROVE AllHeld(M, s) = AllHeld(L, s)
  <2> DEFINE T == OfSymbol(L, s)
  <2>1. T \in SUBSET Stored(L) /\ T \subseteq Stored(M)
    BY <1>1 DEF OfSymbol
  <2> HIDE DEF T
  <2>2. \A i \in T : L[i].side = M[i].side /\ L[i].quantity = M[i].quantity
    BY <1>2, <2>1
  <2>3. NetQuantity(L, T) = NetQuantity(M, T)
    BY <1>5, <2>1, <2>2, SameSides
  <2> QED BY <1>6, <2>3 DEF AllHeld, T
<1>8. ASSUME NEW s \in Symbols PROVE Replays(Of(M, c, s))
  <2> DEFINE N == Of(M, c, s)
             S == Stored(N)
  <2>1. /\ Recorded(N) /\ S = {i \in Stored(M) : M[i].portfolio = c /\ M[i].symbol = s}
        /\ \A i \in S : N[i] = M[i]
    BY <1>4, HoldingPart
  <2>2. S = OfSymbol(L, s) /\ S \subseteq Stored(L)
    BY <1>1, <1>2, <2>1 DEF OfSymbol
  <2>3. FiniteLedger(N)
    BY <2>1, RecordedIsFinite
  <2>4. \A i \in S : N[i].side = L[i].side /\ N[i].quantity = L[i].quantity /\ N[i].day = L[i].day
    BY <1>1, <1>2, <2>1, <2>2
  <2> HIDE DEF N
  <2>5. PICK g : IsPrefixWalk(N, g)
    BY <2>3, WalkTable
  <2>6. WalkIsExact(N, g, S) /\ g[S] = Walk(N)
    BY <2>3, <2>5, ExactWalk DEF IsPrefixWalk
  <2>7. ASSUME NEW i \in Sells(N, S) PROVE Sold(N, Through(N, S, i)) <= Bought(N, Through(N, S, i))
    <3> DEFINE T == Through(N, S, i)
    <3>1. i \in S /\ T \in SUBSET S
      BY DEF Sells, Through
    <3>2. ASSUME NEW j \in T, NEW k \in S, TransactionBefore(L, k, j) PROVE k \in T
      <4>1. j \in S /\ (j = i \/ TransactionBefore(N, j, i))
        BY DEF Through
      <4>2. TransactionBefore(N, k, j)
        BY <2>4, <3>2, <4>1 DEF TransactionBefore
      <4>3. k = i \/ TransactionBefore(N, k, i)
        BY <2>3, <3>1, <4>1, <4>2, OrderIsTransitive DEF FiniteLedger
      <4> QED BY <4>3 DEF Through
    <3> HIDE DEF T
    <3>3. Closed(L, T, OfSymbol(L, s)) /\ T \in SUBSET OfSymbol(L, s)
      BY <2>2, <3>1, <3>2 DEF Closed
    <3>4. NetQuantity(L, T) \in Nat
      BY <3>3, SharesAreCovered
    <3>5. NetQuantity(L, T) = NetQuantity(N, T)
      <4>1. T \in SUBSET Stored(L) /\ T \subseteq Stored(N)
        BY <2>2, <3>1
      <4>2. \A j \in T : L[j].side = N[j].side /\ L[j].quantity = N[j].quantity
        BY <2>4, <3>1
      <4> HIDE DEF S
      <4> QED BY <1>5, <2>3, <4>1, <4>2, SameSides
    <3>6. NetQuantity(N, T) = Bought(N, T) - Sold(N, T) /\ Bought(N, T) \in Nat /\ Sold(N, T) \in Nat
      BY <2>3, <3>1, NetIsBoughtLessSold, SoldBought
    <3>7. Sold(N, T) <= Bought(N, T)
      BY <3>4, <3>5, <3>6
    <3> QED BY <3>7 DEF T
  <2> QED BY <2>6, <2>7 DEF WalkIsExact, Replays, N
<1>9. ASSUME NEW q \in Portfolios, NEW s \in Symbols PROVE Replays(Of(M, q, s))
  <2>1. CASE q = c
    BY <1>8, <2>1
  <2>2. CASE q # c
    <3>1. Recorded(Of(M, q, s)) /\ Stored(Of(M, q, s)) = {i \in Stored(M) : M[i].portfolio = q /\ M[i].symbol = s}
      BY <1>4, HoldingPart
    <3>2. Stored(Of(M, q, s)) = {}
      BY <1>2, <2>2, <3>1
    <3> QED BY <3>1, <3>2, RecordedIsFinite, EmptyReplays
  <2> QED BY <2>1, <2>2
<1> QED BY <1>4, <1>7, <1>9 DEF AllReplay, M

\* The totals: the sum of the portfolios, the summary of all, and that with everything moved
\* into one portfolio.
LEMMA AllTotalsAgree ==
  ASSUME FiguresIInv
  PROVE  TotalsAgree(SumFunction([p \in Portfolios |-> Summary(ledger, Window, p, market.quotes).value]),
                     SummaryOfAll(ledger, market.quotes),
                     SummaryOfAll(MergedInto(ledger, CHOOSE p \in Portfolios : TRUE), market.quotes))
<1> DEFINE c == CHOOSE p \in Portfolios : TRUE
           M == MergedInto(ledger, c)
           f == WorthBySymbol(ledger)
           g == WorthBySymbol(M)
<1>1. Recorded(ledger) /\ AllReplay(ledger)
  BY DEF FiguresIInv, AllReplay
<1>2. SummaryOfAll(ledger, market.quotes).value =
        SumFunction([p \in Portfolios |-> Summary(ledger, Window, p, market.quotes).value])
  BY TotalIsSumOfValues
<1>3. CASE Portfolios = {}
  <2>1. Stored(ledger) = {}
    BY <1>1, <1>3, RecordedFields
  <2>2. \A i \in TxIds : ledger[i] = NoRow
    BY <2>1 DEF Stored
  <2>3. M = ledger
    BY <1>1, <2>2 DEF MergedInto, Recorded
  <2> HIDE DEF M, c
  <2> QED BY <1>2, <2>3 DEF TotalsAgree, M, c
<1>4. CASE Portfolios # {}
  <2>1. c \in Portfolios
    BY <1>4
  <2> HIDE DEF c
  <2>2. Recorded(M) /\ AllReplay(M) /\ \A s \in Symbols : AllHeld(M, s) = AllHeld(ledger, s)
    BY <1>1, <2>1, MergedReplays
  <2> HIDE DEF M
  <2>3. f = g
    BY <2>2 DEF WorthBySymbol
  <2>4. /\ SummaryOfAll(ledger, market.quotes).value = SumFunctionOnSet(f, Symbols)
        /\ SummaryOfAll(M, market.quotes).value = SumFunctionOnSet(g, Symbols)
    BY <1>1, <2>2, TotalIsBySymbol
  <2>5. /\ SummaryOfAll(ledger, market.quotes).score =
             ScoreOf(SumFunctionOnSet(f, Symbols), SumFunctionOnSet(Squared(f), Symbols))
        /\ SummaryOfAll(M, market.quotes).score =
             ScoreOf(SumFunctionOnSet(g, Symbols), SumFunctionOnSet(Squared(g), Symbols))
    BY <1>1, <2>2, ScoreIsBySymbol
  <2> HIDE DEF f, g
  <2> QED BY <1>2, <2>3, <2>4, <2>5 DEF TotalsAgree, M, c
<1> QED BY <1>3, <1>4

\* A dividend counts on the shares of the evening before its ex-date.
LEMMA EntitledIsEvening ==
  ASSUME FiguresIInv, NEW s \in Symbols, NEW ex \in Nat, ex <= Today + 1
  PROVE  EntitledShares(ledger, Holdings(ledger), s, ex, Today) = SharesOn(Window, s, ex - 1)
<1> DEFINE S == Open(Holdings(ledger))
           part == {h \in S : h.symbol = s}
           f == [h \in S |-> h.shares]
           k == [h \in part |-> h.shares]
           now == SumFunction(k)
           L == ledger
           w == Window
           d == ex - 1
<1>1. Recorded(L) /\ AllReplay(L)
  BY DEF FiguresIInv, AllReplay
<1>2. w.ledger = L
  BY DEF Window
<1>3. d \in Int /\ Today \in Nat /\ \A x \in Days : x <= Today
  BY WindowDays
<1>4. \A i \in Stored(L) : L[i].day \in Days /\ L[i].day \in Nat
  <2>1. \A i \in Stored(L) : L[i] \in TradeRow
    BY <1>1, RecordedFields
  <2> QED BY <2>1, RowDomains DEF TradeRow
<1>5. EntitledShares(L, Holdings(L), s, ex, Today) =
        IF ex <= Today /\ OfSymbol(L, s) # {} THEN SharesBefore(L, s, ex) ELSE now
  BY DEF EntitledShares
<1>6. now = AllHeld(L, s)
  <2>1. IsHoldings(S)
    BY <1>1, OpenAreHoldings
  <2>2. SumFunctionOnSet(f, part) = AllHeld(L, s)
    <3>1. \A h \in Open(Holdings(ledger)) : f[h] = h.shares
      OBVIOUS
    <3> HIDE DEF f
    <3> QED BY <1>1, <3>1, SharesOfSymbol
  <2>3. IsFiniteSet(part)
    BY <2>1, FS_Subset DEF IsHoldings
  <2>4. \A h \in part : k[h] = f[h] /\ k[h] \in Int
    BY <2>1 DEF IsHoldings
  <2>5. DOMAIN k = part
    OBVIOUS
  <2> HIDE DEF k, f, part
  <2>6. SumFunction(k) = SumFunctionOnSet(k, part)
    BY <2>5, SumOver
  <2>7. SumFunctionOnSet(k, part) = SumFunctionOnSet(f, part)
    BY <2>3, <2>4, SumsSame
  <2> QED BY <2>2, <2>6, <2>7
<1> HIDE DEF w, now
<1>7. SharesOn(w, s, d) = NetQuantity(L, Upto(L, s, d))
  BY <1>1, <1>2, <1>3, SharesAreNet
<1>8. CASE ex <= Today /\ OfSymbol(L, s) # {}
  <2>1. {i \in OfSymbol(L, s) : L[i].day < ex} = Upto(L, s, d)
    BY <1>4 DEF Upto, OfSymbol
  <2> QED BY <1>5, <1>7, <1>8, <2>1 DEF SharesBefore, w
<1>9. CASE ~ (ex <= Today /\ OfSymbol(L, s) # {})
  <2>1. Upto(L, s, d) = OfSymbol(L, s)
    <3>1. CASE OfSymbol(L, s) = {}
      BY <3>1 DEF Upto
    <3>2. CASE OfSymbol(L, s) # {}
      <4>1. d = Today
        BY <1>3, <1>9, <3>2
      <4> HIDE DEF d
      <4> QED BY <1>3, <1>4, <4>1 DEF Upto, OfSymbol
    <3> QED BY <3>1, <3>2
  <2> QED BY <1>5, <1>6, <1>7, <1>9, <2>1 DEF AllHeld, w
<1> QED BY <1>8, <1>9

\* So the dividend calendar pays on the shares that the series shows.
LEMMA CalendarAgrees ==
  ASSUME FiguresIInv,
         NEW events, events \subseteq [symbol : Symbols, ex : From..(Today + 1), dividend : {2}]
  PROVE  DividendsFollowShares(CalendarEntries(ledger, Holdings(ledger), events, Today), events,
                               [e \in events |-> SharesOn(Window, e.symbol, e.ex - 1)])
<1> DEFINE evening == [e \in events |-> SharesOn(Window, e.symbol, e.ex - 1)]
           shares(e) == EntitledShares(ledger, Holdings(ledger), e.symbol, e.ex, Today)
<1>1. ASSUME NEW e \in events PROVE shares(e) = evening[e]
  <2>1. e.symbol \in Symbols /\ e.ex \in Nat /\ e.ex <= Today + 1
    BY WindowDays
  <2>2. shares(e) = SharesOn(Window, e.symbol, e.ex - 1)
    BY <2>1, EntitledIsEvening
  <2> QED BY <2>2
<1>2. \A e \in events : shares(e) * e.dividend = e.dividend * evening[e]
  <2> SUFFICES ASSUME NEW e \in events PROVE shares(e) * e.dividend = e.dividend * evening[e]
    OBVIOUS
  <2>1. /\ e.symbol \in Symbols /\ e.dividend = 2 /\ e.ex \in Nat
    BY WindowDays
  <2>2. Recorded(Window.ledger) /\ AllReplay(Window.ledger)
    BY DEF FiguresIInv, AllReplay, Window
  <2>3. SharesOn(Window, e.symbol, e.ex - 1) \in Nat
    BY <2>1, <2>2, SharesAreNet
  <2>4. evening[e] \in Nat
    BY <2>3
  <2> HIDE DEF evening, shares
  <2> QED BY <1>1, <2>1, <2>4
<1>3. CalendarEntries(ledger, Holdings(ledger), events, Today) =
        {[event |-> e, shares |-> shares(e), amount |-> shares(e) * e.dividend] :
            e \in {e \in events : shares(e) > 0}}
  BY DEF CalendarEntries
<1> HIDE DEF shares, evening
<1>4. {e \in events : shares(e) > 0} = {e \in events : evening[e] > 0}
  BY <1>1
<1>5. \A e \in events :
         [event |-> e, shares |-> shares(e), amount |-> shares(e) * e.dividend]
           = [event |-> e, shares |-> evening[e], amount |-> e.dividend * evening[e]]
  BY <1>1, <1>2
<1>6. {[event |-> e, shares |-> shares(e), amount |-> shares(e) * e.dividend] :
            e \in {e \in events : shares(e) > 0}}
        = {[event |-> e, shares |-> evening[e], amount |-> e.dividend * evening[e]] :
            e \in {e \in events : evening[e] > 0}}
  BY <1>4, <1>5
<1> QED BY <1>3, <1>6 DEF DividendsFollowShares, evening

\* All views of what is held agree.
LEMMA AllViewsAgree ==
  ASSUME FiguresIInv
  PROVE  ViewsAgree
<1> DEFINE events == [symbol : Symbols, ex : From..(Today + 1), dividend : {2}]
           c == CHOOSE p \in Portfolios : TRUE
<1>1. \A p \in Portfolios :
         PortfolioViewsAgree(p, OfPortfolio(Holdings(ledger), p),
                             Summary(ledger, Window, p, market.quotes).value, Entry(p).value)
  BY OnePortfolioAgrees
<1>2. TotalsAgree(SumFunction([p \in Portfolios |-> Summary(ledger, Window, p, market.quotes).value]),
                  SummaryOfAll(ledger, market.quotes),
                  SummaryOfAll(MergedInto(ledger, c), market.quotes))
  BY AllTotalsAgree
<1>3. DividendsFollowShares(CalendarEntries(ledger, Holdings(ledger), events, Today), events,
                            [e \in events |-> SharesOn(Window, e.symbol, e.ex - 1)])
  BY CalendarAgrees
<1> QED BY <1>1, <1>2, <1>3 DEF ViewsAgree, MergedInto

\* For any ledger and any answers of the provider, the views of what a user holds never
\* contradict each other: list, summary, holdings, series, analysis, totals and dividends.
THEOREM ViewsAlwaysAgree == Spec => []ViewsAgree
<1>1. FiguresIInv => ViewsAgree
  BY AllViewsAgree
<1> QED BY <1>1, FiguresTyping, PTL

-----------------------------------------------------------------------------
\* A window over rows that all lie inside it, of symbols that can be priced from its first day.
Begins(w) ==
  /\ IsWindow(w) /\ w.from < w.to
  /\ \A i \in Stored(w.ledger) : w.from < w.ledger[i].day /\ w.ledger[i].day <= w.to
  /\ \A s \in Traded(w.ledger) : PriceOn(w, s, w.from) > 0

\* What each row moves, and the rows of a day.
Moved(w) == [i \in Stored(w.ledger) |-> RowFlow(w, w.ledger[i])]
DayRows(w, d) == {i \in Stored(w.ledger) : w.ledger[i].day = d}

\* What rows move are integers.
LEMMA MovedTyped ==
  ASSUME NEW w, IsWindow(w)
  PROVE  /\ IsFiniteSet(Stored(w.ledger))
         /\ \A i \in Stored(w.ledger) : Moved(w)[i] = RowFlow(w, w.ledger[i]) /\ Moved(w)[i] \in Int
<1>1. IsFiniteSet(Stored(w.ledger))
  BY DEF IsWindow, Recorded
<1>2. ASSUME NEW i \in Stored(w.ledger) PROVE RowFlow(w, w.ledger[i]) \in Int
  BY RowFlowTyped
<1> QED BY <1>1, <1>2 DEF Moved

\* In such a window the flow of a day is what its rows move.
LEMMA FlowIsRows ==
  ASSUME NEW w, Begins(w), NEW d \in Int, w.from < d, d <= w.to
  PROVE  FlowOn(w, d) = SumFunctionOnSet(Moved(w), DayRows(w, d))
<1> DEFINE f == Moved(w)
           g == Flows(w, d)
           S == DayRows(w, d)
           key == [i \in S |-> w.ledger[i].symbol]
<1>1. /\ IsWindow(w) /\ w.from \in Nat /\ w.to \in Nat /\ Recorded(w.ledger)
  BY DEF Begins, IsWindow
<1>2. IsFiniteSet(S) /\ S \subseteq Stored(w.ledger) /\ \A i \in S : f[i] \in Int
  <2>1. S \subseteq Stored(w.ledger)
    BY DEF DayRows
  <2> QED BY <1>1, <2>1, MovedTyped, FS_Subset
<1>3. \A i \in S : key[i] \in Symbols
  BY <1>1, <1>2, RecordedFields
<1>4. ASSUME NEW s \in Symbols PROVE g[s] = DayFlow(w, s, d)
  <2>1. g[s] = IF d > w.from /\ PriceOn(w, s, d - 1) > 0 THEN DayFlow(w, s, d) ELSE WorthOn(w, s, d)
    BY DEF Flows
  <2>2. CASE s \in Traded(w.ledger)
    <3>1. PriceOn(w, s, w.from) > 0 /\ w.from < w.to /\ w.from <= d - 1 /\ w.from \in Int /\ d - 1 \in Int
      BY <1>1, <2>2 DEF Begins
    <3>2. PriceOn(w, s, d - 1) > 0
      BY <1>1, <3>1, PricesStay
    <3> QED BY <2>1, <3>2
  <2>3. CASE s \notin Traded(w.ledger)
    <3>1. WorthOn(w, s, d) = 0
      BY <1>1, <2>3, WorthsTyped
    <3>2. OfSymbol(w.ledger, s) = {}
      BY <1>1, <2>3, UntradedIsNothing
    <3>3. DayFlow(w, s, d) = 0
      BY <1>1, <3>2, QuietDay
    <3> QED BY <2>1, <3>1, <3>3
  <2> QED BY <2>2, <2>3
<1>5. ASSUME NEW s \in Symbols PROVE g[s] = SumFunctionOnSet(f, {i \in S : key[i] = s})
  <2> DEFINE X == OnDay(w.ledger, s, d)
             h == RowFlows(w, s, d)
  <2>1. {i \in S : key[i] = s} = X
    BY DEF DayRows, OfSymbol, OnDay
  <2>a. X = OnDay(w.ledger, s, d) /\ h = RowFlows(w, s, d)
    OBVIOUS
  <2> HIDE DEF X, h, f, g, S, key
  <2>b. s \in Symbols /\ IsWindow(w) /\ d \in Int
    BY <1>1, <1>5
  <2>2. /\ IsFiniteSet(X) /\ X \subseteq Stored(w.ledger)
        /\ \A i \in X : h[i] = RowFlow(w, w.ledger[i]) /\ h[i] \in Int
        /\ DayFlow(w, s, d) = SumFunctionOnSet(h, X)
    BY ONLY <2>a, <2>b, DayFlowIsSum
  <2>3. \A i \in X : h[i] = f[i]
    BY <1>1, <2>2, MovedTyped DEF f
  <2>4. SumFunctionOnSet(h, X) = SumFunctionOnSet(f, X)
    BY <2>2, <2>3, SumsSame
  <2> QED BY <1>4, <2>1, <2>2, <2>4
<1>6. FlowOn(w, d) = SumFunctionOnSet(g, Symbols)
  BY <1>1, FlowIsSum
<1> HIDE DEF f, g, S, key
<1>7. GroupedBy(key, f, g, S, Symbols)
  BY <1>5 DEF GroupedBy
<1>8. SumFunctionOnSet(f, S) = SumFunctionOnSet(g, Symbols)
  BY <1>2, <1>3, <1>7, RecordedRows, SumGrouped
<1> QED BY <1>6, <1>8 DEF f, S

\* The gain of each later day, and the rows up to one.
DayGainsOf(w) == [d \in After(w.from, w.to) |-> ValueOn(w, d) - FlowOn(w, d) - ValueOn(w, d - 1)]
RowsUpTo(w, d) == {i \in Stored(w.ledger) : w.ledger[i].day <= d}

\* The gain of a series is the sum over its later days.
LEMMA GainIsSum ==
  ASSUME NEW w, IsWindow(w), w.from < w.to
  PROVE  Gain(Series(w)) = SumFunctionOnSet(DayGainsOf(w), After(w.from, w.to))
<1> DEFINE a == w.from
           b == w.to
           series == Series(w)
           f == [d \in LaterDays(series) |-> series[d].value - series[d].flow - series[d - 1].value]
<1>1. a \in Nat /\ b \in Nat /\ a < b
  BY DEF IsWindow
<1>2. DOMAIN series = a..b
  BY DEF Series
<1>3. \A d \in a..b : series[d].value = ValueOn(w, d) /\ series[d].flow = FlowOn(w, d)
  BY DEF Series
<1>4. Gain(series) = SumFunction(f)
  BY DEF Gain
<1> HIDE DEF a, b, series
<1>5. Min(a..b) = a
  <2> DEFINE S == a..b
  <2>1. IsFiniteSet(S)
    BY <1>1, FS_Interval
  <2>2. S \subseteq Int /\ S # {} /\ a \in S /\ \A x \in S : a <= x
    BY <1>1
  <2> HIDE DEF S
  <2>3. Min(S) \in S /\ \A x \in S : Min(S) <= x
    BY <2>1, <2>2, MinIsLeast
  <2>4. Min(S) \in Int /\ a \in Int /\ Min(S) <= a /\ a <= Min(S)
    BY <2>2, <2>3
  <2>5. Min(S) = a
    BY <2>4
  <2> QED BY <2>5 DEF S
<1>6. LaterDays(series) = After(a, b)
  <2>1. (a..b) \ {a} = (a + 1)..b
    BY <1>1
  <2> QED BY <1>2, <1>5, <2>1 DEF LaterDays, After
<1>7. f = DayGainsOf(w)
  <2> SUFFICES ASSUME NEW d \in After(a, b)
               PROVE  series[d].value - series[d].flow - series[d - 1].value =
                        ValueOn(w, d) - FlowOn(w, d) - ValueOn(w, d - 1)
    BY <1>6 DEF DayGainsOf, a, b
  <2>1. d \in a..b /\ d - 1 \in a..b
    BY <1>1 DEF After
  <2> QED BY <1>3, <2>1
<1>8. DOMAIN f = After(a, b)
  BY <1>6
<1> HIDE DEF f
<1>9. SumFunction(f) = SumFunctionOnSet(f, After(a, b))
  BY <1>8, SumOver
<1> QED BY <1>4, <1>7, <1>9 DEF series, a, b

\* What a portfolio that began inside the window gained is what it is worth in the end less
\* what its rows moved.
LEMMA GainTelescopes ==
  ASSUME NEW w, Begins(w)
  PROVE  Gain(Series(w)) = ValueOn(w, w.to) - SumFunctionOnSet(Moved(w), Stored(w.ledger))
<1> DEFINE a == w.from
           b == w.to
           L == w.ledger
           f == DayGainsOf(w)
           m == Moved(w)
           V(e) == ValueOn(w, e)
           R(e) == RowsUpTo(w, e)
           Bad == {e \in a..b : SumFunctionOnSet(f, After(a, e)) # V(e) - SumFunctionOnSet(m, R(e))}
           id == [e \in Bad |-> e]
<1>1. /\ IsWindow(w) /\ a \in Nat /\ b \in Nat /\ a < b
      /\ \A i \in Stored(L) : a < L[i].day /\ L[i].day <= b /\ L[i].day \in Nat
  <2>1. Recorded(L)
    BY DEF Begins, IsWindow
  <2>2. \A i \in Stored(L) : IsTrade(L[i])
    BY <2>1, RecordedFields
  <2> QED BY <2>2, RowDomains DEF Begins, IsWindow, IsTrade
<1>2. IsFiniteSet(Stored(L)) /\ \A i \in Stored(L) : m[i] \in Int
  BY <1>1, MovedTyped
<1>3. ASSUME NEW e \in Int PROVE V(e) \in Nat
  BY <1>1, ValueIsSum
<1>4. ASSUME NEW d \in After(a, b)
      PROVE  /\ f[d] = V(d) - SumFunctionOnSet(m, DayRows(w, d)) - V(d - 1)
             /\ f[d] \in Int /\ SumFunctionOnSet(m, DayRows(w, d)) \in Int
  <2>1. d \in Int /\ d - 1 \in Int /\ a < d /\ d <= b
    BY <1>1 DEF After
  <2>2. f[d] = V(d) - FlowOn(w, d) - V(d - 1)
    BY DEF DayGainsOf
  <2>3. FlowOn(w, d) = SumFunctionOnSet(m, DayRows(w, d))
    BY <2>1, FlowIsRows
  <2>4. FlowOn(w, d) \in Int
    BY <1>1, <2>1, FlowIsSum
  <2>5. V(d) \in Nat /\ V(d - 1) \in Nat
    BY <1>3, <2>1
  <2> HIDE DEF f, V, m
  <2> QED BY <2>2, <2>3, <2>4, <2>5
<1>5. V(a) = 0
  <2> DEFINE W == Worths(w, a)
  <2>1. V(a) = SumFunctionOnSet(W, Symbols)
    BY <1>1, ValueIsSum
  <2>2. ASSUME NEW s \in Symbols PROVE W[s] = 0
    <3>1. W[s] = WorthOn(w, s, a)
      BY DEF Worths
    <3>2. Upto(L, s, a) = {}
      BY <1>1 DEF Upto, OfSymbol
    <3>3. SharesOn(w, s, a) = 0
      <4>1. Recorded(L) /\ AllReplay(L)
        BY <1>1 DEF IsWindow
      <4>2. SharesOn(w, s, a) = NetQuantity(L, Upto(L, s, a))
        BY <1>1, <4>1, SharesAreNet
      <4> QED BY <3>2, <4>2, NetOfNothing
    <3>4. PriceOn(w, s, a) \in Nat
      BY <1>1, PriceCases
    <3> HIDE DEF W
    <3> QED BY <3>1, <3>3, <3>4 DEF WorthOn
  <2> HIDE DEF W, V
  <2>3. SumFunctionOnSet(W, Symbols) = 0
    BY <2>2, RecordedRows, SumZero
  <2> QED BY <2>1, <2>3
<1>6. Bad = {}
  <2> SUFFICES ASSUME Bad # {} PROVE FALSE
    OBVIOUS
  <2>1. IsFiniteSet(Bad)
    <3>1. IsFiniteSet(a..b)
      BY <1>1, FS_Interval
    <3> QED BY <3>1, FS_Subset
  <2>2. \A e \in Bad : id[e] = e /\ id[e] \in Int
    BY <1>1
  <2>3. PICK e \in Bad : \A x \in Bad : id[e] <= id[x]
    <3> HIDE DEF Bad, id
    <3> QED BY <2>1, <2>2, LeastExists
  <2>4. e \in Int /\ a <= e /\ e <= b
    BY <1>1
  <2>5. SumFunctionOnSet(f, After(a, e)) # V(e) - SumFunctionOnSet(m, R(e))
    OBVIOUS
  <2>6. CASE e = a
    <3>1. After(a, e) = {}
      BY <1>1, <2>6 DEF After
    <3>2. R(e) = {}
      BY <1>1, <2>6 DEF RowsUpTo
    <3> HIDE DEF Bad, id, f, m, V, R
    <3> QED BY <1>5, <2>5, <2>6, <3>1, <3>2, SumEmpty
  <2>7. CASE e # a
    <3> DEFINE c == e - 1
               D == DayRows(w, e)
    <3>1. c \in a..b /\ c < e /\ a < e /\ e \in After(a, b) /\ c \in Int
      BY <1>1, <2>4, <2>7 DEF After
    <3>2. c \notin Bad
      <4> SUFFICES ASSUME c \in Bad PROVE FALSE
        OBVIOUS
      <4>1. id[e] <= id[c]
        BY <2>3
      <4>2. e <= c
        BY <2>2, <4>1
      <4> QED BY <2>4, <4>2
    <3>3. SumFunctionOnSet(f, After(a, c)) = V(c) - SumFunctionOnSet(m, R(c))
      BY <3>1, <3>2
    <3>4. f[e] = V(e) - SumFunctionOnSet(m, D) - V(c) /\ f[e] \in Int /\ SumFunctionOnSet(m, D) \in Int
      BY <1>4, <3>1
    <3>5. SumFunctionOnSet(f, After(a, e)) = SumFunctionOnSet(f, After(a, c)) + f[e]
      <4> DEFINE S == After(a, e)
      <4>1. e \in S /\ S \ {e} = After(a, c)
        BY <1>1, <2>4, <3>1, AfterGrows
      <4>2. \A d \in S : f[d] \in Int
        BY <1>1, <1>4, <2>4 DEF After
      <4>3. IsFiniteSet(S)
        <5>1. S = (a + 1)..e /\ a + 1 \in Int /\ e \in Int
          BY <1>1, <2>4 DEF After
        <5> HIDE DEF S
        <5> QED BY <5>1, FS_Interval
      <4> HIDE DEF S, f, Bad, id, c
      <4>4. SumFunctionOnSet(f, S) = SumFunctionOnSet(f, S \ {e}) + f[e]
        BY ONLY <4>1, <4>2, <4>3, SumRemove
      <4> QED BY <4>1, <4>4 DEF S
    <3>6. SumFunctionOnSet(m, R(e)) = SumFunctionOnSet(m, R(c)) + SumFunctionOnSet(m, D)
      <4> DEFINE P == R(c)
      <4>1. P \subseteq Stored(L) /\ D \subseteq Stored(L) /\ P \cap D = {} /\ R(e) = P \union D
        BY <1>1, <2>4 DEF RowsUpTo, DayRows
      <4> HIDE DEF P, D, m, c, Bad, id
      <4>2. IsFiniteSet(P) /\ IsFiniteSet(D) /\ \A i \in P \union D : m[i] \in Int
        BY <1>2, <4>1, FS_Subset
      <4>3. SumFunctionOnSet(m, P \union D) = SumFunctionOnSet(m, P) + SumFunctionOnSet(m, D)
        BY <4>1, <4>2, SumUnion
      <4> QED BY <4>1, <4>3 DEF P
    <3>7. SumFunctionOnSet(m, R(c)) \in Int
      <4> DEFINE P == R(c)
      <4>1. P \subseteq Stored(L)
        BY DEF RowsUpTo
      <4> HIDE DEF P, m
      <4>2. IsFiniteSet(P) /\ \A i \in P : m[i] \in Int
        BY <1>2, <4>1, FS_Subset
      <4>3. SumFunctionOnSet(m, P) \in Int
        BY <4>2, SumIsInt
      <4> QED BY <4>3 DEF P
    <3>8. V(e) \in Nat /\ V(c) \in Nat
      BY <1>3, <2>4, <3>1
    <3> HIDE DEF c, D, Bad, id, f, m, V, R
    <3> QED BY <2>5, <3>3, <3>4, <3>5, <3>6, <3>7, <3>8
  <2> QED BY <2>6, <2>7
<1>7. b \in a..b
  BY <1>1
<1>8. R(b) = Stored(L)
  BY <1>1 DEF RowsUpTo
<1>9. SumFunctionOnSet(f, After(a, b)) = V(b) - SumFunctionOnSet(m, R(b))
  BY <1>6, <1>7
<1>10. Gain(Series(w)) = SumFunctionOnSet(f, After(a, b))
  BY <1>1, GainIsSum
<1> QED BY <1>8, <1>9, <1>10

\* The number of elements as a sum.
LEMMA CardinalityIsSum ==
  ASSUME NEW S, IsFiniteSet(S), NEW f, \A x \in S : f[x] = 1
  PROVE  Cardinality(S) = SumFunctionOnSet(f, S)
<1> DEFINE Bad == {s \in SUBSET S : Cardinality(s) # SumFunctionOnSet(f, s)}
<1> SUFFICES ASSUME Bad # {} PROVE FALSE
  OBVIOUS
<1>1. PICK s \in Bad : \A r \in Bad : ~ (r \subseteq s /\ r # s)
  <2>1. Bad \subseteq SUBSET S
    OBVIOUS
  <2> HIDE DEF Bad
  <2> QED BY <2>1, SmallestSubset
<1>2. IsFiniteSet(s)
  BY FS_Subset
<1>3. CASE s = {}
  <2>1. Cardinality(s) = 0
    BY <1>3, FS_EmptySet
  <2>2. SumFunctionOnSet(f, s) = 0
    BY <1>3, SumEmpty
  <2> QED BY <2>1, <2>2
<1>4. CASE s # {}
  <2>1. PICK x : x \in s
    BY <1>4
  <2> DEFINE r == s \ {x}
  <2>2. r \notin Bad
    BY <1>1, <2>1
  <2>3. Cardinality(r) = SumFunctionOnSet(f, r)
    BY <2>2
  <2>4. \A y \in s : f[y] \in Int
    OBVIOUS
  <2>5. SumFunctionOnSet(f, s) = SumFunctionOnSet(f, r) + f[x]
    <3> HIDE DEF Bad
    <3> QED BY <1>2, <2>1, <2>4, SumRemove
  <2>6. Cardinality(r) = Cardinality(s) - 1 /\ Cardinality(s) \in Nat
    BY <1>2, <2>1, FS_RemoveElement, FS_CardinalityType
  <2>7. f[x] = 1
    BY <2>1
  <2> HIDE DEF r, Bad
  <2>8. Cardinality(s) = SumFunctionOnSet(f, s)
    BY <2>3, <2>5, <2>6, <2>7
  <2> QED BY <2>8 DEF Bad
<1> QED BY <1>3, <1>4

\* The negated terms have the negated sum.
LEMMA SumNegated ==
  ASSUME NEW S, IsFiniteSet(S), NEW f, NEW g, \A x \in S : f[x] \in Int /\ g[x] = -f[x]
  PROVE  SumFunctionOnSet(g, S) = -SumFunctionOnSet(f, S)
<1> DEFINE k == 0 - 1
<1>1. k \in Int /\ \A x \in S : f[x] \in Int /\ g[x] = k * f[x]
  OBVIOUS
<1> HIDE DEF k
<1>2. SumFunctionOnSet(g, S) = k * SumFunctionOnSet(f, S)
  BY <1>1, SumScaled
<1>3. SumFunctionOnSet(f, S) \in Int
  BY SumIsInt
<1> QED BY <1>2, <1>3 DEF k

\* Terms that are each within a bound sum to within the sum of the bounds.
LEMMA SumsWithin ==
  ASSUME NEW S, IsFiniteSet(S), NEW f, NEW g,
         \A x \in S : f[x] \in Int /\ g[x] \in Int /\ Within(2 * f[x], g[x])
  PROVE  Within(2 * SumFunctionOnSet(f, S), SumFunctionOnSet(g, S))
<1> DEFINE f2 == [x \in S |-> 2 * f[x]]
           h == [x \in S |-> -g[x]]
<1>1. \A x \in S : /\ f2[x] = 2 * f[x] /\ h[x] = -g[x] /\ f2[x] \in Int /\ h[x] \in Int
                   /\ f2[x] <= g[x] /\ h[x] <= f2[x]
  BY DEF Within
<1> HIDE DEF f2, h
<1>2. SumFunctionOnSet(f2, S) <= SumFunctionOnSet(g, S)
  BY <1>1, SumAtMost
<1>3. SumFunctionOnSet(h, S) <= SumFunctionOnSet(f2, S)
  BY <1>1, SumAtMost
<1>4. SumFunctionOnSet(f2, S) = 2 * SumFunctionOnSet(f, S)
  BY <1>1, SumScaled
<1>5. SumFunctionOnSet(h, S) = -SumFunctionOnSet(g, S)
  BY <1>1, SumNegated
<1>6. SumFunctionOnSet(f, S) \in Int /\ SumFunctionOnSet(g, S) \in Int
  BY SumIsInt
<1> QED BY <1>2, <1>3, <1>4, <1>5, <1>6 DEF Within

\* What the rows of a holding paid and brought in.
CashOf(N) == Spent(N, Stored(N)) - BroughtIn(N, Stored(N))

\* Where nothing was carried over, what a portfolio's rows move is the cash of its holdings.
LEMMA MovedIsCash ==
  ASSUME NEW L, Recorded(L), NEW p \in Portfolios, NEW w, IsWindow(w), w.ledger = PortfolioRows(L, p),
         \A i \in Stored(w.ledger) : ~ w.ledger[i].opening
  PROVE  SumFunctionOnSet(Moved(w), Stored(w.ledger)) =
           SumFunctionOnSet([s \in Symbols |-> CashOf(Of(L, p, s))], Symbols)
<1> DEFINE M == w.ledger
           S == Stored(M)
           f == Moved(w)
           g == [s \in Symbols |-> CashOf(Of(L, p, s))]
           key == [i \in S |-> M[i].symbol]
<1>1. /\ Recorded(M) /\ S = {i \in Stored(L) : L[i].portfolio = p}
      /\ \A i \in S : M[i] = L[i]
  BY PortfolioPart
<1>2. IsFiniteSet(S) /\ \A i \in S : f[i] = RowFlow(w, M[i]) /\ f[i] \in Int
  BY MovedTyped
<1>3. \A i \in S : key[i] \in Symbols
  BY <1>1, RecordedFields
<1>4. ASSUME NEW s \in Symbols PROVE g[s] = SumFunctionOnSet(f, {i \in S : key[i] = s})
  <2> DEFINE N == Of(L, p, s)
             B == Buys(N, Stored(N))
             X == Sells(N, Stored(N))
             paid == PaidOf(N)
             got == ReceivedOf(N)
  <2>1. /\ Recorded(N) /\ Stored(N) = {i \in Stored(L) : L[i].portfolio = p /\ L[i].symbol = s}
        /\ \A i \in Stored(N) : N[i] = L[i]
    BY HoldingPart
  <2>2. g[s] = SumFunctionOnSet(paid, B) - SumFunctionOnSet(got, X)
    BY DEF CashOf, Spent, BroughtIn
  <2>3. {i \in S : key[i] = s} = Stored(N) /\ Stored(N) \subseteq S
    BY <1>1, <2>1
  <2> HIDE DEF N
  <2>4. FiniteLedger(N)
    BY <2>1, RecordedIsFinite
  <2>5. IsFiniteSet(B) /\ IsFiniteSet(X) /\ \A i \in Stored(N) : paid[i] \in Int /\ got[i] \in Int
    BY <2>4, SoldBought, CashTyped
  <2>6. \A i \in Stored(N) : N[i].side \in {"buy", "sell"} /\ ~ N[i].opening /\ M[i] = N[i]
    <3>1. \A i \in Stored(N) : IsTrade(N[i])
      BY <2>1, RecordedFields
    <3> QED BY <1>1, <2>1, <2>3, <3>1 DEF IsTrade
  <2>7. /\ B \cap X = {} /\ B \union X = Stored(N)
        /\ \A i \in B : N[i].side = "buy" /\ i \in Stored(N)
        /\ \A i \in X : N[i].side = "sell" /\ i \in Stored(N)
    BY <2>6 DEF Buys, Sells
  <2>8. ASSUME NEW i \in B PROVE f[i] = paid[i]
    <3>1. i \in S /\ M[i].side = "buy" /\ ~ M[i].opening /\ M[i] = N[i]
      BY <2>3, <2>6, <2>7
    <3>2. RowFlow(w, M[i]) = M[i].quantity * M[i].price + M[i].fee
      BY <3>1, RowFlowTyped
    <3>3. paid[i] = N[i].quantity * N[i].price + N[i].fee
      BY <2>7 DEF PaidOf
    <3> HIDE DEF f, paid
    <3> QED BY <1>2, <3>1, <3>2, <3>3
  <2>9. ASSUME NEW i \in X PROVE f[i] = -got[i]
    <3>1. i \in S /\ M[i].side = "sell" /\ M[i] = N[i]
      BY <2>3, <2>6, <2>7
    <3>2. RowFlow(w, M[i]) = -(M[i].quantity * M[i].price - M[i].fee)
      BY <3>1, RowFlowTyped
    <3>3. got[i] = N[i].quantity * N[i].price - N[i].fee /\ got[i] \in Int
      BY <2>5, <2>7 DEF ReceivedOf
    <3> HIDE DEF f, got
    <3> QED BY <1>2, <3>1, <3>2, <3>3
  <2>10. \A i \in B \union X : f[i] \in Int
    BY <1>2, <2>3, <2>7
  <2>11. \A i \in X : got[i] \in Int
    BY <2>5, <2>7
  <2> HIDE DEF B, X, paid, got, f, g, S, key
  <2>12. SumFunctionOnSet(f, B \union X) = SumFunctionOnSet(f, B) + SumFunctionOnSet(f, X)
    BY <2>5, <2>7, <2>10, SumUnion
  <2>13. SumFunctionOnSet(f, B) = SumFunctionOnSet(paid, B)
    BY <2>5, <2>8, <2>10, SumsSame
  <2>14. SumFunctionOnSet(f, X) = -SumFunctionOnSet(got, X)
    BY <2>5, <2>9, <2>11, SumNegated
  <2>15. SumFunctionOnSet(paid, B) \in Int /\ SumFunctionOnSet(got, X) \in Int
    <3>1. \A i \in B : paid[i] \in Int
      BY <2>5, <2>7
    <3> QED BY <2>5, <2>11, <3>1, SumIsInt
  <2> QED BY <2>2, <2>3, <2>7, <2>12, <2>13, <2>14, <2>15
<1> HIDE DEF f, g, S, key
<1>5. GroupedBy(key, f, g, S, Symbols)
  BY <1>4 DEF GroupedBy
<1>6. SumFunctionOnSet(f, S) = SumFunctionOnSet(g, Symbols)
  BY <1>2, <1>3, <1>5, RecordedRows, SumGrouped
<1> QED BY <1>6 DEF f, g, S

\* The sells of a portfolio, counted by symbol.
SellsOf(N) == Cardinality(Sells(N, Stored(N)))

\* They add up to those of all its rows.
LEMMA SellsAreSum ==
  ASSUME NEW L, Recorded(L), NEW p \in Portfolios
  PROVE  LET M == PortfolioRows(L, p)
         IN  Cardinality({i \in Stored(M) : M[i].side = "sell"}) =
               SumFunctionOnSet([s \in Symbols |-> SellsOf(Of(L, p, s))], Symbols)
<1> DEFINE M == PortfolioRows(L, p)
           S == {i \in Stored(M) : M[i].side = "sell"}
           f == [i \in S |-> 1]
           g == [s \in Symbols |-> SellsOf(Of(L, p, s))]
           key == [i \in S |-> M[i].symbol]
<1>1. /\ Recorded(M) /\ Stored(M) = {i \in Stored(L) : L[i].portfolio = p}
      /\ \A i \in Stored(M) : M[i] = L[i]
  BY PortfolioPart
<1> HIDE DEF M
<1>2. IsFiniteSet(S) /\ S \subseteq Stored(M)
  BY <1>1, FS_Subset DEF Recorded
<1>3. \A i \in S : key[i] \in Symbols
  BY <1>1, RecordedFields
<1>4. ASSUME NEW s \in Symbols PROVE g[s] = SumFunctionOnSet(f, {i \in S : key[i] = s})
  <2> DEFINE N == Of(L, p, s)
             X == {i \in S : key[i] = s}
  <2>1. /\ Stored(N) = {i \in Stored(L) : L[i].portfolio = p /\ L[i].symbol = s}
        /\ \A i \in Stored(N) : N[i] = L[i]
    BY HoldingPart
  <2>2. g[s] = Cardinality(Sells(N, Stored(N)))
    BY DEF SellsOf
  <2> HIDE DEF N
  <2>3. X = Sells(N, Stored(N))
    BY <1>1, <2>1 DEF Sells
  <2>4. IsFiniteSet(X)
    BY <1>2, FS_Subset
  <2>5. \A i \in X : f[i] = 1
    OBVIOUS
  <2> HIDE DEF X, f, g
  <2>6. Cardinality(X) = SumFunctionOnSet(f, X)
    BY <2>4, <2>5, CardinalityIsSum
  <2> QED BY <2>2, <2>3, <2>6 DEF X
<1>5. \A i \in S : f[i] = 1 /\ f[i] \in Int
  OBVIOUS
<1> HIDE DEF f, g, S, key
<1>6. GroupedBy(key, f, g, S, Symbols)
  BY <1>4 DEF GroupedBy
<1>7. SumFunctionOnSet(f, S) = SumFunctionOnSet(g, Symbols)
  BY <1>2, <1>3, <1>5, <1>6, RecordedRows, SumGrouped
<1>8. Cardinality(S) = SumFunctionOnSet(f, S)
  BY <1>2, <1>5, CardinalityIsSum
<1> QED BY <1>7, <1>8 DEF S, g, M

\* The quotes a summary of portfolio p has: those of its open holdings.
PricesOf(p) ==
  FetchQuotePrices(market.quotes, DistinctSymbols(Open(OfPortfolio(Holdings(ledger), p))))
LiveOf(p) == [s \in Symbols |-> IF s \in DOMAIN PricesOf(p) THEN PricesOf(p)[s] ELSE 0]

\* The window that the gain of a summary walks.
OwnWindow(p) ==
  LET w == [Window EXCEPT !.ledger = PortfolioRows(ledger, p), !.live = LiveOf(p)]
  IN  [w EXCEPT !.closes = LoadedCloses(w.closes, ActiveSymbols(w.ledger, w.from), w.from, w.to)]

\* Its fields.
LEMMA OwnFields ==
  ASSUME NEW p
  PROVE  LET w == [Window EXCEPT !.ledger = PortfolioRows(ledger, p), !.live = LiveOf(p)]
         IN  /\ w.ledger = PortfolioRows(ledger, p) /\ w.from = From /\ w.to = Today
             /\ OwnWindow(p).ledger = PortfolioRows(ledger, p)
             /\ OwnWindow(p).live = LiveOf(p)
             /\ OwnWindow(p).from = From /\ OwnWindow(p).to = Today
             /\ OwnWindow(p).closes =
                   LoadedCloses(market.closes, ActiveSymbols(PortfolioRows(ledger, p), From), From, Today)
<1> DEFINE M == PortfolioRows(ledger, p)
           live == LiveOf(p)
           w == [Window EXCEPT !.ledger = M, !.live = live]
<1> HIDE DEF M, live
<1>1. /\ w.ledger = M /\ w.live = live /\ w.from = From /\ w.to = Today /\ w.closes = market.closes
      /\ DOMAIN w = {"ledger", "closes", "live", "from", "to"}
  BY DEF Window
<1> DEFINE closes == LoadedCloses(w.closes, ActiveSymbols(w.ledger, w.from), w.from, w.to)
<1>2. OwnWindow(p) = [w EXCEPT !.closes = closes]
  BY DEF OwnWindow, M, live
<1>3. closes = LoadedCloses(market.closes, ActiveSymbols(M, From), From, Today)
  BY <1>1
<1> HIDE DEF w, closes
<1>4. /\ OwnWindow(p).ledger = w.ledger /\ OwnWindow(p).live = w.live /\ OwnWindow(p).from = w.from
      /\ OwnWindow(p).to = w.to /\ OwnWindow(p).closes = closes
  BY <1>1, <1>2
<1> QED BY <1>1, <1>3, <1>4 DEF w, M, live

\* A summary's gain is that of this window's series, unless there is nothing to walk.
LEMMA SummaryGainIs ==
  ASSUME NEW p
  PROVE  LET gain == Summary(ledger, Window, p, market.quotes).gain
             rows1 == PortfolioRows(ledger, p)
         IN  /\ Stored(rows1) = {} => gain = 0
             /\ From < Today /\ From \in Nat /\ Today \in Nat /\ Stored(rows1) # {}
                   => gain = Gain(Series(OwnWindow(p)))
<1> DEFINE gain == Summary(ledger, Window, p, market.quotes).gain
           M == PortfolioRows(ledger, p)
           w == [Window EXCEPT !.ledger = M, !.live = LiveOf(p)]
<1>1. gain = WindowReturn(w).gain
  BY DEF Summary, LiveOf, PricesOf
<1>2. w.ledger = M /\ w.from = From /\ w.to = Today
  BY OwnFields
<1>3. SeriesFor(w) = Series(OwnWindow(p))
  BY DEF SeriesFor, OwnWindow
<1> HIDE DEF gain, w
<1>4. NoSeries(w) <=> From > Today \/ Stored(M) = {}
  BY <1>2 DEF NoSeries
<1>5. Stored(M) = {} => gain = 0
  BY <1>1, <1>4 DEF WindowReturn
<1>6. ASSUME From < Today, From \in Nat, Today \in Nat, Stored(M) # {}
      PROVE  gain = Gain(Series(OwnWindow(p)))
  <2>1. ~ (NoSeries(w) \/ w.from = w.to)
    BY <1>2, <1>4, <1>6
  <2> QED BY <1>1, <1>3, <2>1 DEF WindowReturn
<1> QED BY <1>5, <1>6 DEF gain

\* The portfolio carried nothing over, began inside the window and could be priced all along.
CleanPortfolio(p) ==
  LET M == PortfolioRows(ledger, p)
  IN  /\ \A i \in Stored(M) : M[i].day > From /\ ~ M[i].opening
      /\ \A s \in Traded(M) : PriceOn(Loaded, s, From) > 0 /\ LiveQuotes[s] > 0

\* What an open holding is quoted at, it is quoted at in the summary.
LEMMA OwnQuotes ==
  ASSUME FiguresIInv, NEW p \in Portfolios, NEW s \in Symbols
  PROVE  /\ LiveOf(p)[s] \in Nat
         /\ HeldIn(ledger, p, s) > 0 => LiveOf(p)[s] = LiveQuotes[s]
<1> DEFINE open == Open(OfPortfolio(Holdings(ledger), p))
           D == DistinctSymbols(open)
           prices == PricesOf(p)
<1>1. DOMAIN prices = {x \in D : market.quotes[x] # Unavailable /\ market.quotes[x] > 0}
  BY DEF PricesOf, FetchQuotePrices
<1>2. \A x \in DOMAIN prices : prices[x] = market.quotes[x]
  BY DEF PricesOf, FetchQuotePrices
<1>3. LiveOf(p)[s] = IF s \in DOMAIN prices THEN prices[s] ELSE 0
  BY DEF LiveOf
<1>4. Recorded(ledger) /\ AllReplay(ledger)
  BY DEF FiguresIInv, AllReplay
<1>5. HeldIn(ledger, p, s) > 0 => s \in D
  <2> SUFFICES ASSUME HeldIn(ledger, p, s) > 0 PROVE s \in D
    OBVIOUS
  <2>1. Stored(Of(ledger, p, s)) # {}
    BY <1>4, HeldIsNet
  <2> DEFINE h == HoldingOf(ledger, <<p, s>>)
  <2>2. h \in Holdings(ledger)
    BY <2>1, HoldingsByKey DEF HoldingKeys
  <2>3. h.portfolio = p /\ h.symbol = s /\ h.shares = HeldIn(ledger, p, s)
    BY DEF HoldingOf, HeldIn
  <2> HIDE DEF h
  <2>4. h \in open
    BY <2>2, <2>3 DEF Open, OfPortfolio
  <2> QED BY <2>3, <2>4 DEF DistinctSymbols
<1>6. /\ LiveQuotes[s] \in Nat
      /\ market.quotes[s] = Unavailable => LiveQuotes[s] = 0
      /\ market.quotes[s] # Unavailable =>
               market.quotes[s] \in Nat /\ market.quotes[s] = LiveQuotes[s]
  BY QuoteCases
<1> HIDE DEF prices, D
<1> QED BY <1>1, <1>2, <1>3, <1>5, <1>6

\* So its window begins inside, and ends at what the holdings are worth.
LEMMA OwnBegins ==
  ASSUME FiguresIInv, NEW p \in Portfolios, CleanPortfolio(p), Stored(PortfolioRows(ledger, p)) # {}
  PROVE  /\ Begins(OwnWindow(p)) /\ From < Today
         /\ ValueOn(OwnWindow(p), Today) =
              SumFunctionOnSet([s \in Symbols |-> HeldIn(ledger, p, s) * LiveQuotes[s]], Symbols)
<1> DEFINE M == PortfolioRows(ledger, p)
           w == OwnWindow(p)
           A == ActiveSymbols(M, From)
           g == [s \in Symbols |-> HeldIn(ledger, p, s) * LiveQuotes[s]]
<1>1. /\ w.ledger = M /\ w.live = LiveOf(p) /\ w.from = From /\ w.to = Today
      /\ w.closes = LoadedCloses(market.closes, A, From, Today)
  BY OwnFields
<1>2. Recorded(ledger) /\ AllReplay(ledger)
  BY DEF FiguresIInv, AllReplay
<1>3. /\ Recorded(M) /\ AllReplay(M) /\ \A s \in Symbols : AllHeld(M, s) = HeldIn(ledger, p, s)
  BY <1>2, PortfolioReplays
<1>4. /\ From \in Nat /\ Today \in Nat /\ \A d \in Days : d <= Today
  BY WindowDays
<1>5. /\ Stored(M) = {i \in Stored(ledger) : ledger[i].portfolio = p}
      /\ \A i \in Stored(M) : M[i] = ledger[i]
  BY <1>2, PortfolioPart
<1>6. /\ \A i \in Stored(M) : M[i].day > From
      /\ \A s \in Traded(M) : PriceOn(Loaded, s, From) > 0 /\ LiveQuotes[s] > 0
      /\ Stored(M) # {}
  BY DEF CleanPortfolio
<1> HIDE DEF M, w
<1>7. \A i \in Stored(M) : M[i].day \in Days /\ M[i].day \in Nat /\ M[i].symbol \in Symbols
  <2>1. \A i \in Stored(M) : M[i] \in TradeRow
    BY <1>3, RecordedFields
  <2> QED BY <2>1, RowDomains DEF TradeRow
<1>8. \A i \in Stored(M) : From < M[i].day /\ M[i].day <= Today
  BY <1>4, <1>6, <1>7
<1>9. From < Today
  BY <1>4, <1>6, <1>7, <1>8
<1>10. IsWindow(w)
  <2>1. IsWindow(WindowOf(A))
    BY LoadedIsWindow
  <2>2. WindowOf(A).closes = w.closes
    BY <1>1, WindowFields
  <2>3. \A s \in Symbols : LiveOf(p)[s] \in Nat
    BY OwnQuotes
  <2> HIDE DEF A
  <2> QED BY <1>1, <1>3, <1>4, <2>1, <2>2, <2>3 DEF IsWindow
<1>11. ASSUME NEW s \in Traded(M) PROVE PriceOn(w, s, From) > 0
  <2>1. PICK i \in Stored(M) : M[i].symbol = s
    BY DEF Traded
  <2>2. s \in Symbols /\ M[i].day > From
    BY <1>6, <1>7, <2>1
  <2>3. s \in A
    BY <2>1, <2>2 DEF ActiveSymbols, OfSymbol, Traded
  <2> DEFINE B == ActiveSymbols(ledger, From)
             v == WindowOf(B)
  <2>4. s \in B
    <3>1. i \in Stored(ledger) /\ ledger[i].symbol = s /\ ledger[i].day > From
      BY <1>5, <2>1, <2>2
    <3> QED BY <3>1 DEF ActiveSymbols, OfSymbol, Traded
  <2>5. v = Loaded /\ IsWindow(v) /\ v.to = Today
        /\ v.closes = LoadedCloses(market.closes, B, From, Today)
    BY LoadedIsWindowOf, LoadedIsWindow, WindowFields
  <2>6. s \in DOMAIN market.closes
    BY <2>2, ProvidedPrices DEF FiguresIInv
  <2> HIDE DEF A, B, v
  <2>7. w.closes[s] = v.closes[s]
    BY <1>1, <2>3, <2>4, <2>5, <2>6 DEF LoadedCloses
  <2>8. Closings(w, s, From) = Closings(v, s, From)
    BY <2>7 DEF Closings
  <2>9. PriceOn(v, s, From) > 0
    BY <1>6, <2>5
  <2>10. From # Today /\ From \in Int
    BY <1>4, <1>9
  <2>11. Closings(v, s, From) # {}
    BY <2>2, <2>5, <2>9, <2>10, PriceCases
  <2> QED BY <1>1, <1>10, <2>2, <2>8, <2>10, <2>11, PriceCases
<1>12. Begins(w)
  BY <1>1, <1>8, <1>9, <1>10, <1>11 DEF Begins
<1> DEFINE f == Worths(w, Today)
<1>13. ASSUME NEW s \in Symbols PROVE f[s] = g[s] /\ f[s] \in Int
  <2>1. f[s] = WorthOn(w, s, Today)
    BY DEF Worths
  <2>2. Upto(M, s, Today) = OfSymbol(M, s)
    BY <1>8 DEF Upto, OfSymbol
  <2>3. SharesOn(w, s, Today) = NetQuantity(M, Upto(M, s, Today))
    BY <1>1, <1>3, <1>4, SharesAreNet
  <2>4. SharesOn(w, s, Today) = HeldIn(ledger, p, s)
    BY <1>3, <2>2, <2>3 DEF AllHeld
  <2>5. HeldIn(ledger, p, s) \in Nat
    BY <1>2, HeldIsNet
  <2>6. /\ PriceOn(w, s, Today) \in Nat
        /\ LiveOf(p)[s] > 0 => PriceOn(w, s, Today) = LiveOf(p)[s]
    BY <1>1, <1>4, <1>10, PriceCases
  <2>7. HeldIn(ledger, p, s) > 0 => PriceOn(w, s, Today) = LiveQuotes[s]
    <3> SUFFICES ASSUME HeldIn(ledger, p, s) > 0 PROVE PriceOn(w, s, Today) = LiveQuotes[s]
      OBVIOUS
    <3>1. OfSymbol(M, s) # {}
      BY <1>3, NetOfNothing DEF AllHeld
    <3>2. s \in Traded(M)
      BY <3>1 DEF OfSymbol, Traded
    <3> QED BY <1>6, <2>6, <3>2, OwnQuotes
  <2>8. LiveQuotes[s] \in Nat
    BY QuoteCases
  <2>9. g[s] = HeldIn(ledger, p, s) * LiveQuotes[s]
    OBVIOUS
  <2>10. WorthOn(w, s, Today) = HeldIn(ledger, p, s) * PriceOn(w, s, Today)
    BY <2>4 DEF WorthOn
  <2> DEFINE n == HeldIn(ledger, p, s)
             x == PriceOn(w, s, Today)
             y == LiveQuotes[s]
  <2>11. f[s] = n * x /\ g[s] = n * y /\ n \in Nat /\ x \in Nat /\ y \in Nat /\ (n > 0 => x = y)
    BY <2>1, <2>5, <2>6, <2>7, <2>8, <2>9, <2>10
  <2> HIDE DEF f, g, n, x, y
  <2>12. CASE n = 0
    BY <2>11, <2>12
  <2>13. CASE n > 0
    BY <2>11, <2>13
  <2> QED BY <2>11, <2>12, <2>13
<1>14. ValueOn(w, Today) = SumFunctionOnSet(f, Symbols)
  BY <1>4, <1>10, ValueIsSum
<1> HIDE DEF f, g
<1>15. SumFunctionOnSet(f, Symbols) = SumFunctionOnSet(g, Symbols)
  BY <1>13, RecordedRows, SumsSame
<1> QED BY <1>9, <1>12, <1>14, <1>15 DEF w, g

\* A ledger without rows has realised nothing.
LEMMA EmptyFigures ==
  ASSUME NEW L, FiniteLedger(L), Stored(L) = {}
  PROVE  Figures(L).realised = 0
<1>1. PICK g : IsPrefixWalk(L, g)
  BY WalkTable
<1>2. Walk(L).realised = 0
  BY <1>1 DEF IsPrefixWalk, NothingHeld
<1> QED BY <1>2 DEF Figures

\* Its P&L realised.
RealisedIn(L, p, s) == Figures(Of(L, p, s)).realised

\* The realised P&L of a portfolio is that of its holdings.
LEMMA RealisedIsSum ==
  ASSUME NEW L, Recorded(L), AllReplay(L), NEW p \in Portfolios
  PROVE  /\ LedgerRealised(PortfolioRows(L, p)) =
              SumFunctionOnSet([s \in Symbols |-> RealisedIn(L, p, s)], Symbols)
         /\ \A s \in Symbols : RealisedIn(L, p, s) \in Int
         /\ Stored(PortfolioRows(L, p)) = {} => \A s \in Symbols : RealisedIn(L, p, s) = 0
<1> DEFINE M == PortfolioRows(L, p)
           G == {g \in Portfolios \X Symbols : Replays(SymbolRows(PortfolioRows(M, g[1]), g[2]))}
           f == [g \in G |-> Figures(SymbolRows(PortfolioRows(M, g[1]), g[2])).realised]
           T == {g \in G : g[1] = p}
           new == [g \in T |-> g[2]]
           k == [s \in Symbols |-> RealisedIn(L, p, s)]
<1>1. /\ Recorded(M) /\ AllReplay(M) /\ Stored(M) = {i \in Stored(L) : L[i].portfolio = p}
  BY PortfolioReplays, PortfolioPart
<1>2. LedgerRealised(M) = SumFunctionOnSet(f, G)
  <2>1. LedgerRealised(M) = SumFunction(f)
    BY DEF LedgerRealised
  <2>2. DOMAIN f = G
    OBVIOUS
  <2> HIDE DEF f, G
  <2> QED BY <2>1, <2>2, SumOver
<1>3. \A s \in Symbols : SymbolRows(PortfolioRows(M, p), s) = Of(L, p, s)
  <2>1. \A i \in TxIds : M[i] = IF L[i] # NoRow /\ L[i].portfolio = p THEN L[i] ELSE NoRow
    BY DEF PortfolioRows
  <2>2. M = [i \in TxIds |-> M[i]]
    BY DEF PortfolioRows
  <2> HIDE DEF M
  <2>3. \A i \in TxIds : (IF M[i] # NoRow /\ M[i].portfolio = p THEN M[i] ELSE NoRow) = M[i]
    BY <2>1
  <2>4. PortfolioRows(M, p) = M
    BY <2>2, <2>3 DEF PortfolioRows
  <2> QED BY <2>4 DEF Of, M
<1> HIDE DEF M
<1>4. G = Portfolios \X Symbols
  <2> SUFFICES ASSUME NEW q \in Portfolios, NEW s \in Symbols
               PROVE  Replays(SymbolRows(PortfolioRows(M, q), s))
    OBVIOUS
  <2> QED BY <1>1 DEF AllReplay, Of
<1>5. \A g \in G : g[1] \in Portfolios /\ g[2] \in Symbols /\ g = <<g[1], g[2]>>
  BY <1>4
<1>6. ASSUME NEW q \in Portfolios, NEW s \in Symbols
      PROVE  /\ f[<<q, s>>] = RealisedIn(M, q, s) /\ f[<<q, s>>] \in Int
             /\ Stored(Of(M, q, s)) = {} => f[<<q, s>>] = 0
  <2>1. Recorded(Of(M, q, s))
    BY <1>1, HoldingPart
  <2>2. FiniteLedger(Of(M, q, s))
    BY <2>1, RecordedIsFinite
  <2>3. f[<<q, s>>] = Figures(Of(M, q, s)).realised
    BY <1>4 DEF Of
  <2>4. Figures(Of(M, q, s)).realised \in Int
    BY <2>2, FiguresTyped
  <2>5. Stored(Of(M, q, s)) = {} => Figures(Of(M, q, s)).realised = 0
    BY <2>2, EmptyFigures
  <2> HIDE DEF f
  <2> QED BY <2>3, <2>4, <2>5 DEF RealisedIn
<1>7. ASSUME NEW s \in Symbols
      PROVE  k[s] = f[<<p, s>>] /\ k[s] \in Int /\ k[s] = RealisedIn(L, p, s)
  <2>1. Of(M, p, s) = Of(L, p, s)
    BY <1>3 DEF Of
  <2>2. k[s] = RealisedIn(L, p, s)
    OBVIOUS
  <2> HIDE DEF f, k
  <2> QED BY <1>6, <2>1, <2>2 DEF RealisedIn
<1>8. IsFiniteSet(G)
  BY <1>4, RecordedRows, FS_Product
<1>9. \A g \in G : f[g] \in Int
  <2> HIDE DEF f
  <2> QED BY <1>5, <1>6
<1>10. \A g \in G \ T : f[g] = 0
  <2> SUFFICES ASSUME NEW g \in G, g[1] # p PROVE f[g] = 0
    OBVIOUS
  <2> DEFINE q == g[1]
             s == g[2]
  <2>1. q \in Portfolios /\ s \in Symbols /\ g = <<q, s>> /\ q # p
    BY <1>5
  <2> HIDE DEF f, G, q, s
  <2>2. Stored(Of(M, q, s)) = {i \in Stored(M) : M[i].portfolio = q /\ M[i].symbol = s}
    BY <1>1, HoldingPart
  <2>3. \A i \in Stored(M) : M[i].portfolio = p
    BY PortfolioPart DEF M
  <2>4. Stored(Of(M, q, s)) = {}
    BY <2>1, <2>2, <2>3
  <2>5. f[<<q, s>>] = 0
    BY <1>6, <2>1, <2>4
  <2> QED BY <2>1, <2>5
<1>11. T \in SUBSET G /\ \A g \in T : f[g] = f[g]
  OBVIOUS
<1>12. IsFiniteSet(T)
  BY <1>8, FS_Subset
<1>13. /\ \A g \in T : new[g] \in Symbols /\ k[new[g]] = f[g] /\ f[g] \in Int
       /\ \A g, h \in T : new[g] = new[h] => g = h
       /\ \A s \in Symbols : \E g \in T : new[g] = s
  <2>1. \A g \in T : new[g] = g[2] /\ g[2] \in Symbols /\ g = <<p, g[2]>>
    BY <1>5
  <2>2. \A g \in T : k[g[2]] = f[<<p, g[2]>>]
    BY <1>7, <2>1
  <2>3. \A s \in Symbols : <<p, s>> \in T /\ new[<<p, s>>] = s
    BY <1>4
  <2>4. \A g \in T : f[g] \in Int
    BY <1>9
  <2> HIDE DEF T, new, f, k
  <2>5. \A g \in T : new[g] \in Symbols
    BY <2>1
  <2>6. ASSUME NEW g \in T PROVE k[new[g]] = f[g]
    <3>1. k[g[2]] = f[<<p, g[2]>>] /\ g = <<p, g[2]>> /\ new[g] = g[2]
      BY <2>1, <2>2
    <3> QED BY <3>1
  <2>7. ASSUME NEW g \in T, NEW h \in T, new[g] = new[h] PROVE g = h
    <3>1. g = <<p, new[g]>> /\ h = <<p, new[h]>>
      BY <2>1
    <3> QED BY <2>7, <3>1
  <2>8. \A s \in Symbols : \E g \in T : new[g] = s
    BY <2>3
  <2> QED BY <2>4, <2>5, <2>6, <2>7, <2>8
<1> HIDE DEF G, f, T, new, k
<1>14. SumFunctionOnSet(f, G) = SumFunctionOnSet(f, T)
  BY <1>8, <1>9, <1>10, <1>11, SumOverMore
<1>15. SumFunctionOnSet(f, T) = SumFunctionOnSet(k, Symbols)
  BY ONLY <1>12, <1>13, RecordedRows, SumRenamed
<1>16. Stored(M) = {} => \A s \in Symbols : RealisedIn(L, p, s) = 0
  <2> SUFFICES ASSUME Stored(M) = {}, NEW s \in Symbols PROVE RealisedIn(L, p, s) = 0
    OBVIOUS
  <2>1. Stored(Of(M, p, s)) = {}
    BY <1>1, HoldingPart
  <2> QED BY <1>6, <1>7, <2>1
<1> QED BY <1>2, <1>7, <1>14, <1>15, <1>16 DEF k, M

\* A holding's average cost.
AvgIn(L, p, s) == Figures(Of(L, p, s)).avgCost

\* Its unrealised P&L at the live quote.
UnrealisedBySymbol(p) ==
  [s \in Symbols |-> HeldIn(ledger, p, s) * (LiveQuotes[s] - AvgIn(ledger, p, s))]

\* The open holdings of a portfolio that could be priced have a quote above zero.
LEMMA CleanQuotes ==
  ASSUME FiguresIInv, NEW p \in Portfolios, CleanPortfolio(p), NEW s \in Symbols, HeldIn(ledger, p, s) # 0
  PROVE  LiveQuotes[s] \in Nat \ {0} /\ market.quotes[s] = LiveQuotes[s] /\ market.quotes[s] # Unavailable
<1> DEFINE M == PortfolioRows(ledger, p)
<1>1. Recorded(ledger) /\ AllReplay(ledger)
  BY DEF FiguresIInv, AllReplay
<1>2. Stored(Of(ledger, p, s)) # {}
  BY <1>1, HeldIsNet
<1>3. Stored(Of(ledger, p, s)) = {i \in Stored(ledger) : ledger[i].portfolio = p /\ ledger[i].symbol = s}
  BY <1>1, HoldingPart
<1>4. /\ Stored(M) = {i \in Stored(ledger) : ledger[i].portfolio = p}
      /\ \A i \in Stored(M) : M[i] = ledger[i]
  BY <1>1, PortfolioPart
<1> HIDE DEF M
<1>5. s \in Traded(M)
  BY <1>2, <1>3, <1>4 DEF Traded
<1>6. LiveQuotes[s] > 0
  BY <1>5 DEF CleanPortfolio, M
<1> QED BY <1>6, QuoteCases

\* So the unrealised P&L of its summary leaves no open holding out.
LEMMA UnrealisedIsSum ==
  ASSUME FiguresIInv, NEW p \in Portfolios, CleanPortfolio(p)
  PROVE  Summary(ledger, Window, p, market.quotes).unrealised =
           SumFunctionOnSet(UnrealisedBySymbol(p), Symbols)
<1> DEFINE open == Open(OfPortfolio(Holdings(ledger), p))
           prices == PricesOf(p)
           T == {h \in Open(open) : h.symbol \in DOMAIN prices}
           f == [h \in T |-> h.shares * (prices[h.symbol] - h.avgCost)]
           g == UnrealisedBySymbol(p)
<1>1. Summary(ledger, Window, p, market.quotes).unrealised = SumFunction(f)
  BY DEF Summary, PricesOf, UnrealisedPnl
<1>2. DOMAIN f = T
  OBVIOUS
<1>3. Recorded(ledger) /\ AllReplay(ledger)
  BY DEF FiguresIInv, AllReplay
<1>4. ASSUME NEW h \in open
      PROVE  /\ h \in T /\ h.symbol \in Symbols /\ prices[h.symbol] = LiveQuotes[h.symbol]
             /\ h.shares = HeldIn(ledger, p, h.symbol) /\ h.avgCost = AvgIn(ledger, p, h.symbol)
             /\ h.shares \in Int /\ h.avgCost \in Int /\ LiveQuotes[h.symbol] \in Int
  <2>1. /\ h \in Holdings(ledger) /\ h.portfolio = p /\ h.symbol \in Symbols
        /\ h.shares \in Nat \ {0} /\ h.avgCost \in Int
    BY <1>3, OpenTyped
  <2>2. h.shares = HeldIn(ledger, p, h.symbol) /\ h.avgCost = AvgIn(ledger, p, h.symbol)
    BY <1>3, <2>1, HoldingsTyped DEF HeldIn, AvgIn
  <2>3. /\ LiveQuotes[h.symbol] \in Nat \ {0} /\ market.quotes[h.symbol] = LiveQuotes[h.symbol]
        /\ market.quotes[h.symbol] # Unavailable
    BY <2>1, <2>2, CleanQuotes
  <2>4. h.symbol \in DistinctSymbols(open)
    BY DEF DistinctSymbols
  <2> HIDE DEF open
  <2>5. h.symbol \in DOMAIN prices /\ prices[h.symbol] = market.quotes[h.symbol]
    BY <2>3, <2>4 DEF PricesOf, FetchQuotePrices, open
  <2>6. h \in Open(open)
    BY <2>1 DEF Open
  <2> HIDE DEF prices
  <2> QED BY <2>1, <2>2, <2>3, <2>5, <2>6
<1>5. T = open
  <2>1. \A h \in T : h \in open
    BY DEF Open
  <2>2. \A h \in open : h \in T
    BY <1>4
  <2> HIDE DEF T, open
  <2> QED BY <2>1, <2>2
<1>6. \A h \in open : f[h] = h.shares * (prices[h.symbol] - h.avgCost)
  <2>1. \A h \in T : f[h] = h.shares * (prices[h.symbol] - h.avgCost)
    OBVIOUS
  <2> HIDE DEF f, T, open, prices
  <2> QED BY <1>5, <2>1
<1>7. ASSUME NEW h \in open PROVE f[h] \in Int /\ g[h.symbol] = f[h]
  <2>1. g[h.symbol] = HeldIn(ledger, p, h.symbol) * (LiveQuotes[h.symbol] - AvgIn(ledger, p, h.symbol))
    BY <1>4 DEF UnrealisedBySymbol
  <2> DEFINE x == h.shares
             y == h.avgCost
             z == LiveQuotes[h.symbol]
  <2>2. x \in Int /\ y \in Int /\ z \in Int /\ g[h.symbol] = x * (z - y) /\ f[h] = x * (z - y)
    <3> HIDE DEF f, g, T, open, prices
    <3> QED BY <1>4, <1>6, <2>1
  <2> HIDE DEF f, g, T, open, prices, x, y, z
  <2> QED BY <2>2
<1>8. ASSUME NEW s \in Symbols, HeldIn(ledger, p, s) = 0 PROVE g[s] = 0
  <2>1. LiveQuotes[s] \in Nat
    BY QuoteCases
  <2>2. FiniteLedger(Of(ledger, p, s))
    BY <1>3, HoldingPart, RecordedIsFinite
  <2>3. AvgIn(ledger, p, s) \in Int
    BY <2>2, FiguresTyped DEF AvgIn
  <2>4. g[s] = HeldIn(ledger, p, s) * (LiveQuotes[s] - AvgIn(ledger, p, s))
    BY DEF UnrealisedBySymbol
  <2> HIDE DEF g
  <2> QED BY <1>8, <2>1, <2>3, <2>4
<1> HIDE DEF f, g, T, prices
<1>9. SumFunctionOnSet(f, open) = SumFunctionOnSet(g, Symbols)
  BY <1>3, <1>7, <1>8, SumByHolding
<1>10. SumFunction(f) = SumFunctionOnSet(f, T)
  BY <1>2, SumOver
<1> QED BY <1>1, <1>5, <1>9, <1>10 DEF g

\* The shares a portfolio holds, closed holdings included, are those of its open ones.
LEMMA HeldIsSum ==
  ASSUME NEW L, Recorded(L), AllReplay(L), NEW p \in Portfolios
  PROVE  SumFunction([h \in OfPortfolio(Holdings(L), p) |-> h.shares]) =
           SumFunctionOnSet([s \in Symbols |-> HeldIn(L, p, s)], Symbols)
<1> DEFINE all == OfPortfolio(Holdings(L), p)
           open == Open(OfPortfolio(Holdings(L), p))
           f == [h \in all |-> h.shares]
           g == [s \in Symbols |-> HeldIn(L, p, s)]
<1>1. IsFiniteSet(all) /\ open \in SUBSET all
  BY OpenAreHoldings DEF IsHoldings
<1>2. \A h \in all : f[h] = h.shares
  OBVIOUS
<1>3. ASSUME NEW h \in all
      PROVE  h.symbol \in Symbols /\ h.shares \in Nat /\ h.shares = HeldIn(L, p, h.symbol)
  <2>1. h \in Holdings(L) /\ h.portfolio = p
    BY DEF OfPortfolio
  <2> QED BY <2>1, HoldingsTyped DEF HeldIn
<1>4. ASSUME NEW h \in all, h \notin open PROVE h.shares = 0
  <2>1. ~ (h.shares > 0)
    BY <1>4 DEF Open
  <2> HIDE DEF all, open
  <2> QED BY <1>3, <2>1
<1>5. \A s \in Symbols : g[s] = HeldIn(L, p, s)
  OBVIOUS
<1>6. DOMAIN f = all
  OBVIOUS
<1> HIDE DEF f, g, all
<1>7. SumFunction(f) = SumFunctionOnSet(f, all)
  BY <1>6, SumOver
<1>8. \A h \in open : f[h] \in Int /\ g[h.symbol] = f[h]
  <2> SUFFICES ASSUME NEW h \in open PROVE f[h] \in Int /\ g[h.symbol] = f[h]
    OBVIOUS
  <2>1. h \in all
    BY <1>1
  <2> HIDE DEF open
  <2> QED BY <1>2, <1>3, <1>5, <2>1
<1>9. SumFunctionOnSet(f, open) = SumFunctionOnSet(g, Symbols)
  BY <1>5, <1>8, SumByHolding
<1> HIDE DEF open
<1>10. /\ \A h \in all : f[h] \in Int
       /\ \A h \in open : f[h] = f[h]
       /\ \A h \in all \ open : f[h] = 0
  BY <1>2, <1>3, <1>4
<1>11. SumFunctionOnSet(f, all) = SumFunctionOnSet(f, open)
  BY <1>1, <1>10, SumOverMore
<1> QED BY <1>7, <1>9, <1>11 DEF f, g, all

\* What its holdings are worth, and the cash they took, by symbol.
ValueBySymbol(p) == [s \in Symbols |-> HeldIn(ledger, p, s) * LiveQuotes[s]]
CashBySymbol(p) == [s \in Symbols |-> CashOf(Of(ledger, p, s))]

\* Every one of them is an integer, and nothing where there is no row.
LEMMA BySymbolTyped ==
  ASSUME FiguresIInv, NEW p \in Portfolios, NEW s \in Symbols
  PROVE  /\ ValueBySymbol(p)[s] = HeldIn(ledger, p, s) * LiveQuotes[s] /\ ValueBySymbol(p)[s] \in Int
         /\ CashBySymbol(p)[s] = CashOf(Of(ledger, p, s)) /\ CashBySymbol(p)[s] \in Int
         /\ Stored(Of(ledger, p, s)) = {} => ValueBySymbol(p)[s] = 0 /\ CashBySymbol(p)[s] = 0
<1> DEFINE N == Of(ledger, p, s)
           H == HeldIn(ledger, p, s)
           q == LiveQuotes[s]
<1>1. Recorded(ledger) /\ AllReplay(ledger)
  BY DEF FiguresIInv, AllReplay
<1>2. FiniteLedger(N) /\ Replays(N)
  BY <1>1, HoldingPart, RecordedIsFinite DEF AllReplay
<1>3. H \in Nat /\ (Stored(N) = {} => H = 0)
  BY <1>1, HeldIsNet
<1>4. q \in Nat
  BY QuoteCases
<1>5. ValueBySymbol(p)[s] = H * q /\ CashBySymbol(p)[s] = CashOf(N)
  BY DEF ValueBySymbol, CashBySymbol
<1> HIDE DEF H, q, N
<1>6. CashOf(N) \in Int
  BY <1>2, HoldingKeepsCash DEF CashOf
<1>7. H * q \in Int /\ (Stored(N) = {} => H * q = 0)
  BY <1>3, <1>4
<1>8. ASSUME Stored(N) = {} PROVE CashOf(N) = 0
  <2>1. Buys(N, Stored(N)) = {} /\ Sells(N, Stored(N)) = {}
    BY <1>8 DEF Buys, Sells
  <2>2. Spent(N, Stored(N)) = 0 /\ BroughtIn(N, Stored(N)) = 0
    BY <2>1, SumEmpty DEF Spent, BroughtIn
  <2> QED BY <2>2 DEF CashOf
<1> QED BY <1>5, <1>6, <1>7, <1>8 DEF H, q, N

\* The gain of the summary of such a portfolio is what its holdings are worth less the cash
\* they took.
LEMMA GainIsValueLessCash ==
  ASSUME FiguresIInv, NEW p \in Portfolios, CleanPortfolio(p)
  PROVE  Summary(ledger, Window, p, market.quotes).gain =
           SumFunctionOnSet(ValueBySymbol(p), Symbols) - SumFunctionOnSet(CashBySymbol(p), Symbols)
<1> DEFINE M == PortfolioRows(ledger, p)
           w == OwnWindow(p)
           gain == Summary(ledger, Window, p, market.quotes).gain
           f == ValueBySymbol(p)
           g == CashBySymbol(p)
<1>1. Recorded(ledger) /\ AllReplay(ledger)
  BY DEF FiguresIInv, AllReplay
<1>2. /\ Stored(M) = {} => gain = 0
      /\ From < Today /\ From \in Nat /\ Today \in Nat /\ Stored(M) # {} => gain = Gain(Series(w))
  BY SummaryGainIs
<1>3. From \in Nat /\ Today \in Nat
  BY WindowDays
<1>4. CASE Stored(M) = {}
  <2>1. ASSUME NEW s \in Symbols PROVE Stored(Of(ledger, p, s)) = {}
    <3>1. Stored(M) = {i \in Stored(ledger) : ledger[i].portfolio = p}
      BY <1>1, PortfolioPart
    <3>2. Stored(Of(ledger, p, s)) = {i \in Stored(ledger) : ledger[i].portfolio = p /\ ledger[i].symbol = s}
      BY <1>1, HoldingPart
    <3> QED BY <1>4, <3>1, <3>2
  <2>2. \A s \in Symbols : f[s] = 0 /\ g[s] = 0
    BY <2>1, BySymbolTyped
  <2>3. gain = 0
    BY <1>2, <1>4
  <2> HIDE DEF gain, f, g
  <2>4. SumFunctionOnSet(f, Symbols) = 0
    BY <2>2, RecordedRows, SumZero
  <2>5. SumFunctionOnSet(g, Symbols) = 0
    BY <2>2, RecordedRows, SumZero
  <2> QED BY <2>3, <2>4, <2>5 DEF gain, f, g
<1>5. CASE Stored(M) # {}
  <2>1. Begins(w) /\ From < Today /\ ValueOn(w, Today) = SumFunctionOnSet(f, Symbols)
    BY <1>5, OwnBegins DEF ValueBySymbol
  <2>2. w.ledger = M /\ w.to = Today
    BY OwnFields
  <2>3. gain = Gain(Series(w))
    BY <1>2, <1>3, <1>5, <2>1
  <2>4. IsWindow(w)
    BY <2>1 DEF Begins
  <2>5. \A i \in Stored(M) : ~ M[i].opening
    BY DEF CleanPortfolio
  <2> HIDE DEF w, gain, f
  <2>6. Gain(Series(w)) = ValueOn(w, w.to) - SumFunctionOnSet(Moved(w), Stored(w.ledger))
    BY <2>1, GainTelescopes
  <2>7. SumFunctionOnSet(Moved(w), Stored(w.ledger)) = SumFunctionOnSet(g, Symbols)
    BY <1>1, <2>2, <2>4, <2>5, MovedIsCash DEF CashBySymbol
  <2> HIDE DEF g
  <2> QED BY <2>1, <2>2, <2>3, <2>6, <2>7 DEF gain, f, g
<1> QED BY <1>4, <1>5

\* The gain of the summary is the P&L realised and unrealised, up to half a unit for each
\* sell and each share.
LEMMA GainIsProfit ==
  ASSUME FiguresIInv, NEW p \in Portfolios, CleanPortfolio(p)
  PROVE  LET figure == Summary(ledger, Window, p, market.quotes)
             rows1 == PortfolioRows(ledger, p)
             sells == {i \in Stored(rows1) : rows1[i].side = "sell"}
             held == SumFunction([h \in OfPortfolio(Holdings(ledger), p) |-> h.shares])
         IN  /\ figure.gain \in Int /\ figure.realised \in Int /\ figure.unrealised \in Int
             /\ Cardinality(sells) + held \in Int
             /\ Within(2 * (figure.realised + figure.unrealised - figure.gain), Cardinality(sells) + held)
<1> DEFINE figure == Summary(ledger, Window, p, market.quotes)
           gain == figure.gain
           realised == figure.realised
           unrealised == figure.unrealised
           rows1 == PortfolioRows(ledger, p)
           count == Cardinality({i \in Stored(rows1) : rows1[i].side = "sell"})
           held == SumFunction([h \in OfPortfolio(Holdings(ledger), p) |-> h.shares])
           U == UnrealisedBySymbol(p)
           R == [s \in Symbols |-> RealisedIn(ledger, p, s)]
           V == ValueBySymbol(p)
           C == CashBySymbol(p)
           N == [s \in Symbols |-> SellsOf(Of(ledger, p, s))]
           H == [s \in Symbols |-> HeldIn(ledger, p, s)]
           Y == [s \in Symbols |-> U[s] + R[s] + C[s] - V[s]]
           UR == [s \in Symbols |-> U[s] + R[s]]
           URC == [s \in Symbols |-> UR[s] + C[s]]
           VY == [s \in Symbols |-> V[s] + Y[s]]
           B == [s \in Symbols |-> N[s] + H[s]]
<1>1. Recorded(ledger) /\ AllReplay(ledger)
  BY DEF FiguresIInv, AllReplay
<1>2. gain = SumFunctionOnSet(V, Symbols) - SumFunctionOnSet(C, Symbols)
  BY GainIsValueLessCash
<1>3. realised = SumFunctionOnSet(R, Symbols)
  <2>1. realised = LedgerRealised(rows1)
    BY DEF Summary
  <2> QED BY <1>1, <2>1, RealisedIsSum
<1>4. unrealised = SumFunctionOnSet(U, Symbols)
  BY UnrealisedIsSum
<1>5. count = SumFunctionOnSet(N, Symbols)
  BY <1>1, SellsAreSum
<1>6. held = SumFunctionOnSet(H, Symbols)
  BY <1>1, HeldIsSum
<1>7. ASSUME NEW s \in Symbols
      PROVE  /\ U[s] \in Int /\ R[s] \in Int /\ C[s] \in Int /\ V[s] \in Int /\ N[s] \in Int /\ H[s] \in Int
             /\ Within(2 * (U[s] + R[s] + C[s] - V[s]), N[s] + H[s])
  <2> DEFINE L == Of(ledger, p, s)
             h == HeldIn(ledger, p, s)
             a == AvgIn(ledger, p, s)
             r == RealisedIn(ledger, p, s)
             c == CashOf(L)
             q == LiveQuotes[s]
             n == SellsOf(L)
  <2>1. FiniteLedger(L) /\ Replays(L)
    BY <1>1, HoldingPart, RecordedIsFinite DEF AllReplay
  <2>2. U[s] = h * (q - a) /\ R[s] = r /\ C[s] = c /\ V[s] = h * q /\ N[s] = n /\ H[s] = h
    BY DEF UnrealisedBySymbol, ValueBySymbol, CashBySymbol
  <2>3. /\ c \in Int /\ h \in Nat /\ a \in Int /\ r \in Int
        /\ Within(2 * (c - (h * a - r)), n + h)
    BY <2>1, HoldingKeepsCash DEF CashOf, HeldIn, AvgIn, RealisedIn, SellsOf
  <2>4. q \in Int
    BY QuoteCases
  <2>5. n \in Int
    BY <2>1, CashTyped DEF SellsOf
  <2> HIDE DEF L, h, a, r, c, q, n, U, R, V, C, N, H
  <2>6. /\ h * (q - a) \in Int /\ h * q \in Int /\ h * a \in Int /\ h * (q - a) = h * q - h * a
    BY <2>3, <2>4
  <2>7. h * (q - a) + r + c - h * q = c - (h * a - r)
    BY <2>3, <2>6
  <2> QED BY <2>2, <2>3, <2>5, <2>6, <2>7
<1>8. \A s \in Symbols :
         /\ Y[s] = U[s] + R[s] + C[s] - V[s] /\ UR[s] = U[s] + R[s] /\ URC[s] = UR[s] + C[s]
         /\ VY[s] = V[s] + Y[s] /\ B[s] = N[s] + H[s]
  OBVIOUS
<1> HIDE DEF figure, gain, realised, unrealised, rows1, count, held, U, R, V, C, N, H, Y, UR, URC, VY, B
<1>9. \A s \in Symbols : /\ Y[s] \in Int /\ UR[s] \in Int /\ URC[s] \in Int /\ URC[s] = VY[s] /\ B[s] \in Int
                         /\ Within(2 * Y[s], B[s])
  <2> SUFFICES ASSUME NEW s \in Symbols
               PROVE  /\ Y[s] \in Int /\ UR[s] \in Int /\ URC[s] \in Int /\ URC[s] = VY[s] /\ B[s] \in Int
                      /\ Within(2 * Y[s], B[s])
    OBVIOUS
  <2> QED BY <1>7, <1>8
<1>10. SumFunctionOnSet(UR, Symbols) = SumFunctionOnSet(U, Symbols) + SumFunctionOnSet(R, Symbols)
  BY <1>7, <1>8, RecordedRows, SumPlus
<1>11. SumFunctionOnSet(URC, Symbols) = SumFunctionOnSet(UR, Symbols) + SumFunctionOnSet(C, Symbols)
  BY <1>7, <1>8, <1>9, RecordedRows, SumPlus
<1>12. SumFunctionOnSet(VY, Symbols) = SumFunctionOnSet(V, Symbols) + SumFunctionOnSet(Y, Symbols)
  BY <1>7, <1>8, <1>9, RecordedRows, SumPlus
<1>13. SumFunctionOnSet(URC, Symbols) = SumFunctionOnSet(VY, Symbols)
  BY <1>9, RecordedRows, SumsSame
<1>14. SumFunctionOnSet(B, Symbols) = SumFunctionOnSet(N, Symbols) + SumFunctionOnSet(H, Symbols)
  BY <1>7, <1>8, RecordedRows, SumPlus
<1>15. Within(2 * SumFunctionOnSet(Y, Symbols), SumFunctionOnSet(B, Symbols))
  BY <1>9, RecordedRows, SumsWithin
<1>16. /\ SumFunctionOnSet(U, Symbols) \in Int /\ SumFunctionOnSet(R, Symbols) \in Int
       /\ SumFunctionOnSet(C, Symbols) \in Int /\ SumFunctionOnSet(V, Symbols) \in Int
       /\ SumFunctionOnSet(Y, Symbols) \in Int /\ SumFunctionOnSet(N, Symbols) \in Int
       /\ SumFunctionOnSet(H, Symbols) \in Int
  BY <1>7, <1>9, RecordedRows, SumIsInt
<1>17. realised + unrealised - gain = SumFunctionOnSet(Y, Symbols)
  BY <1>2, <1>3, <1>4, <1>10, <1>11, <1>12, <1>13, <1>16
<1>18. count + held = SumFunctionOnSet(B, Symbols) /\ count + held \in Int
  BY <1>5, <1>6, <1>14, <1>16
<1>19. gain \in Int /\ realised \in Int /\ unrealised \in Int
  BY <1>2, <1>3, <1>4, <1>16
<1>20. Within(2 * (realised + unrealised - gain), count + held)
  BY <1>15, <1>17, <1>18
<1> QED BY <1>18, <1>19, <1>20 DEF figure, gain, realised, unrealised, rows1, count, held

\* Of a portfolio that began inside the window, carried nothing over and could be priced all
\* along, the summary's gain is its P&L, up to the rounding of the stored figures
\* (portfolio.go GetSummary: the gain walks the daily series, the P&L replays the ledger).
THEOREM GainsMatchProfits == Spec => []GainMatchesProfit
<1>1. FiguresIInv => GainMatchesProfit
  <2> SUFFICES ASSUME FiguresIInv, NEW p \in Portfolios, CleanPortfolio(p)
               PROVE  LET figure == Summary(ledger, Window, p, market.quotes)
                          rows1 == PortfolioRows(ledger, p)
                          sells == {i \in Stored(rows1) : rows1[i].side = "sell"}
                          held == SumFunction([h \in OfPortfolio(Holdings(ledger), p) |-> h.shares])
                      IN  2 * Distance(figure.gain, figure.realised + figure.unrealised)
                            <= Cardinality(sells) + held
    BY DEF GainMatchesProfit, CleanPortfolio
  <2> DEFINE figure == Summary(ledger, Window, p, market.quotes)
             rows1 == PortfolioRows(ledger, p)
             gain == figure.gain
             profit == figure.realised + figure.unrealised
             bound == Cardinality({i \in Stored(rows1) : rows1[i].side = "sell"})
                      + SumFunction([h \in OfPortfolio(Holdings(ledger), p) |-> h.shares])
  <2>1. gain \in Int /\ profit \in Int /\ bound \in Int /\ Within(2 * (profit - gain), bound)
    BY GainIsProfit
  <2> SUFFICES 2 * Distance(gain, profit) <= bound
    OBVIOUS
  <2> HIDE DEF figure, rows1, gain, profit, bound
  <2> QED BY <2>1 DEF Within, Distance
<1> QED BY <1>1, FiguresTyping, PTL
=============================================================================
