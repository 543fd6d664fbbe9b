------------------------------ MODULE DcaProofs ------------------------------
(***************************************************************************)
(* Proofs about the simulator, for any calendar, any set of symbols and    *)
(* histories, plans and requests of any length.                            *)
(*                                                                         *)
(* The arguments:                                                          *)
(*  - a list that a loop filters is the list at some positions (Lists);    *)
(*    positions are ranked, and lists at positions that correspond in      *)
(*    their order are the same list (AtMoved).  So filtering, removing     *)
(*    repetitions and appending change places where they should;           *)
(*  - the dates of a monthly plan are a chain of steps; while the next     *)
(*    month has the day, the n-th is that day of the n-th month            *)
(*    (NthPlanDay), by the least n for which it would not be;              *)
(*  - the share of a holding, rescaled from all the weights of a request   *)
(*    to those that could be simulated, is its share of these (AssetIs).   *)
(*    Weights are sums over the positions of a symbol, so a request and    *)
(*    the same without its skipped entries have equal ones                 *)
(*    (WithoutKeepsWeights);                                               *)
(*  - the latest point of an asset holds its share once for each purchase  *)
(*    so far (LatestPointIs), and the shares make the whole amount         *)
(*    (SharesMakeTheWhole).                                                *)
(* Sums over finite sets are those of FiguresProofs.                       *)
(***************************************************************************)
EXTENDS MCDca, FiguresProofs

-----------------------------------------------------------------------------
(* Finite sets of days, and lists at some of their positions. *)

\* A finite nonempty set of integers has a greatest and a least element.
LEMMA MaxIs ==
  ASSUME NEW S, IsFiniteSet(S), S # {}, S \subseteq Int
  PROVE  Max(S) \in S /\ Max(S) \in Int /\ \A x \in S : x <= Max(S)
<1> DEFINE f == [x \in S |-> x]
<1>1. \A x \in S : f[x] = x /\ f[x] \in Int
  OBVIOUS
<1> HIDE DEF f
<1>2. PICK m \in S : \A y \in S : f[y] <= f[m]
  BY <1>1, GreatestExists
<1>3. \A y \in S : m >= y
  BY <1>1, <1>2
<1>4. Max(S) \in S /\ \A y \in S : Max(S) >= y
  BY <1>3 DEF Max
<1> QED BY <1>4

LEMMA MinIs ==
  ASSUME NEW S, IsFiniteSet(S), S # {}, S \subseteq Int
  PROVE  Min(S) \in S /\ Min(S) \in Int /\ \A x \in S : Min(S) <= x
<1> DEFINE f == [x \in S |-> x]
<1>1. \A x \in S : f[x] = x /\ f[x] \in Int
  OBVIOUS
<1> HIDE DEF f
<1>2. PICK m \in S : \A y \in S : f[m] <= f[y]
  BY <1>1, LeastExists
<1>3. \A y \in S : m <= y
  BY <1>1, <1>2
<1>4. Min(S) \in S /\ \A y \in S : Min(S) <= y
  BY <1>3 DEF Min
<1> QED BY <1>4

\* What is above everything in a set of integers is its greatest element, if it is in it.
LEMMA MaxOf ==
  ASSUME NEW S, S \subseteq Int, NEW m \in S, \A x \in S : x <= m
  PROVE  Max(S) = m
<1>1. \A y \in S : m >= y
  OBVIOUS
<1>2. Max(S) \in S /\ \A y \in S : Max(S) >= y
  BY <1>1 DEF Max
<1>3. Max(S) >= m /\ m >= Max(S) /\ Max(S) \in Int /\ m \in Int
  BY <1>1, <1>2
<1> QED BY <1>3

\* Some positions of a list of n.
Positions(P, n) == n \in Nat /\ P \subseteq 1..n

\* Where a position stands among some.
Rank(P, i) == Cardinality({j \in P : j <= i})

\* Positions are ranked from one on, in their order.
LEMMA RankIs ==
  ASSUME NEW n, NEW P, Positions(P, n)
  PROVE  /\ IsFiniteSet(P) /\ Cardinality(P) \in Nat
         /\ \A i \in P : Rank(P, i) \in 1..Cardinality(P)
         /\ \A i, j \in P : i < j => Rank(P, i) < Rank(P, j)
<1> DEFINE upTo(i) == {j \in P : j <= i}
<1>1. IsFiniteSet(P) /\ Cardinality(P) \in Nat
  <2>1. IsFiniteSet(1..n)
    BY FS_Interval DEF Positions
  <2>2. P \in SUBSET (1..n)
    BY DEF Positions
  <2>3. IsFiniteSet(P)
    BY <2>1, <2>2, FS_Subset
  <2> QED BY <2>3, FS_CardinalityType
<1>2. ASSUME NEW i \in P
      PROVE  /\ IsFiniteSet(upTo(i)) /\ Rank(P, i) = Cardinality(upTo(i))
             /\ Rank(P, i) \in Nat /\ Rank(P, i) \in 1..Cardinality(P)
  <2> DEFINE U == upTo(i)
  <2>1. U \in SUBSET P /\ i \in U
    BY DEF Positions
  <2>2. Rank(P, i) = Cardinality(U)
    BY DEF Rank
  <2> HIDE DEF U
  <2>3. IsFiniteSet(U) /\ Cardinality(U) <= Cardinality(P)
    BY <1>1, <2>1, FS_Subset
  <2>4. Cardinality(U) \in Nat
    BY <2>3, FS_CardinalityType
  <2>5. Cardinality(U) # 0
    BY <2>1, <2>3, FS_EmptySet
  <2> QED BY <1>1, <2>2, <2>3, <2>4, <2>5 DEF U
<1>3. ASSUME NEW i \in P, NEW j \in P, i < j PROVE Rank(P, i) < Rank(P, j)
  <2> DEFINE U == upTo(i)
             V == upTo(j)
  <2>1. U \in SUBSET V /\ j \in V /\ j \notin U
    <3>1. \A x \in P : x \in Int /\ (x <= i => x <= j)
      BY <1>3 DEF Positions
    <3>2. j \in Int /\ i \in Int /\ j <= j /\ ~ (j <= i)
      BY <1>3 DEF Positions
    <3> QED BY <3>1, <3>2
  <2>2. IsFiniteSet(V) /\ Rank(P, i) = Cardinality(U) /\ Rank(P, j) = Cardinality(V)
    BY <1>2
  <2> HIDE DEF U, V
  <2>3. Cardinality(U) <= Cardinality(V) /\ (Cardinality(U) = Cardinality(V) => U = V)
    BY <2>1, <2>2, FS_Subset
  <2>4. Rank(P, i) # Rank(P, j) /\ Rank(P, i) <= Rank(P, j)
    BY <2>1, <2>2, <2>3
  <2>5. Rank(P, i) \in Nat /\ Rank(P, j) \in Nat
    BY <1>2
  <2> QED BY <2>4, <2>5
<1> QED BY <1>1, <1>2, <1>3

\* Every rank up to the number of positions is that of one of them, the Kth.
LEMMA KthIs ==
  ASSUME NEW n, NEW P, Positions(P, n)
  PROVE  /\ \A k \in 1..Cardinality(P) : Kth(P, k) \in P /\ Rank(P, Kth(P, k)) = k
         /\ \A i \in P : Kth(P, Rank(P, i)) = i
<1> DEFINE ranks == 1..Cardinality(P)
           rank == [i \in P |-> Rank(P, i)]
<1>1. \A i, j \in P : Rank(P, i) = Rank(P, j) => i = j
  <2>1. \A i, j \in P : i = j \/ i < j \/ j < i
    BY DEF Positions
  <2>2. \A i \in P : Rank(P, i) \in 1..Cardinality(P)
    BY RankIs, Zenon
  <2>3. \A i \in P : Rank(P, i) \in Int
    BY <2>2
  <2>4. \A i, j \in P : i < j => Rank(P, i) < Rank(P, j)
    BY RankIs, Zenon
  <2> QED BY <2>1, <2>3, <2>4
<1>2. rank \in Injection(P, ranks)
  <2>1. \A i \in P : Rank(P, i) \in ranks
    BY RankIs
  <2> HIDE DEF ranks
  <2> QED BY <1>1, <2>1 DEF Injection, IsInjective
<1>3. \A k \in ranks : \E i \in P : rank[i] = k
  <2>1. IsFiniteSet(ranks) /\ Cardinality(ranks) = Cardinality(P) /\ IsFiniteSet(P)
    <3>1. IsFiniteSet(P) /\ Cardinality(P) \in Nat
      BY RankIs, Zenon
    <3> QED BY <3>1, FS_Interval
  <2> HIDE DEF rank, ranks
  <2>2. rank \in Surjection(P, ranks)
    BY <1>2, <2>1, FS_Injection
  <2> QED BY <2>2 DEF Surjection
<1>4. ASSUME NEW k \in ranks PROVE Kth(P, k) \in P /\ Rank(P, Kth(P, k)) = k
  <2>1. \E i \in P : Cardinality({j \in P : j <= i}) = k
    BY <1>3 DEF Rank
  <2> QED BY <2>1 DEF Kth, Rank
<1>5. ASSUME NEW i \in P PROVE Kth(P, Rank(P, i)) = i
  <2>1. Rank(P, i) \in ranks
    BY RankIs
  <2> HIDE DEF ranks
  <2> QED BY <1>1, <1>4, <2>1
<1> QED BY <1>4, <1>5

\* A later rank is a later position.
LEMMA KthInOrder ==
  ASSUME NEW n, NEW P, Positions(P, n)
  PROVE  \A k, l \in 1..Cardinality(P) : (k < l) <=> (Kth(P, k) < Kth(P, l))
<1> SUFFICES ASSUME NEW k \in 1..Cardinality(P), NEW l \in 1..Cardinality(P)
             PROVE  (k < l) <=> (Kth(P, k) < Kth(P, l))
  OBVIOUS
<1>1. Kth(P, k) \in P /\ Kth(P, l) \in P /\ Rank(P, Kth(P, k)) = k /\ Rank(P, Kth(P, l)) = l
  BY KthIs
<1>2. \A i, j \in P : i < j => Rank(P, i) < Rank(P, j)
  BY RankIs
<1>3. Kth(P, k) < Kth(P, l) => k < l
  BY <1>1, <1>2
<1>4. Kth(P, l) < Kth(P, k) => l < k
  BY <1>1, <1>2
<1>5. \/ Kth(P, k) < Kth(P, l)
      \/ Kth(P, l) < Kth(P, k)
      \/ Kth(P, k) = Kth(P, l)
  <2>1. \A i, j \in 1..n : i < j \/ j < i \/ i = j
    OBVIOUS
  <2> QED BY <1>1, <2>1 DEF Positions
<1>6. k \in Int /\ l \in Int
  OBVIOUS
<1>7. Kth(P, k) = Kth(P, l) => k = l
  BY <1>1
<1> QED BY <1>3, <1>4, <1>5, <1>6, <1>7

\* What a list holds at some positions.
LEMMA AtIs ==
  ASSUME NEW n, NEW P, Positions(P, n), NEW list
  PROVE  /\ DOMAIN At(list, P) = 1..Cardinality(P)
         /\ Cardinality(P) \in Nat
         /\ \A k \in 1..Cardinality(P) : Kth(P, k) \in P /\ At(list, P)[k] = list[Kth(P, k)]
         /\ \A i \in P : Rank(P, i) \in 1..Cardinality(P) /\ At(list, P)[Rank(P, i)] = list[i]
<1> DEFINE C == Cardinality(P)
<1>1. C \in Nat /\ \A k \in 1..C : Kth(P, k) \in P
  BY RankIs, KthIs
<1>2. \A i \in P : Rank(P, i) \in 1..C /\ Kth(P, Rank(P, i)) = i
  BY RankIs, KthIs
<1> HIDE DEF C
<1>3. At(list, P) = [k \in 1..C |-> list[Kth(P, k)]]
  BY DEF At, C
<1>4. \A i \in P : At(list, P)[Rank(P, i)] = list[i]
  BY <1>2, <1>3
<1> QED BY <1>1, <1>2, <1>3, <1>4 DEF C

LEMMA AtTyped ==
  ASSUME NEW n, NEW P, Positions(P, n), NEW list, NEW T, \A i \in P : list[i] \in T
  PROVE  At(list, P) \in Seq(T) /\ Len(At(list, P)) = Cardinality(P)
<1> DEFINE C == Cardinality(P)
<1>1. C \in Nat /\ \A k \in 1..C : Kth(P, k) \in P
  BY RankIs, KthIs
<1> HIDE DEF C
<1>2. At(list, P) = [k \in 1..C |-> list[Kth(P, k)]]
  BY DEF At, C
<1>3. \A k \in 1..C : list[Kth(P, k)] \in T
  BY <1>1
<1>4. At(list, P) \in Seq(T) /\ Len(At(list, P)) = C
  BY <1>1, <1>2, <1>3
<1> QED BY <1>4 DEF C

\* move takes the positions P to the positions Q, in order.
MovesInOrder(move, P, Q) ==
  /\ \A i \in P : move[i] \in Q
  /\ \A i, j \in P : i < j => move[i] < move[j]
  /\ \A q \in Q : \E i \in P : move[i] = q

\* The kth of them is taken to the kth.
LEMMA KthMoved ==
  ASSUME NEW n, NEW P, Positions(P, n), NEW m, NEW Q, Positions(Q, m),
         NEW move, MovesInOrder(move, P, Q)
  PROVE  /\ Cardinality(P) = Cardinality(Q)
         /\ \A k \in 1..Cardinality(P) : Kth(Q, k) = move[Kth(P, k)]
<1>1. /\ IsFiniteSet(P) /\ IsFiniteSet(Q)
      /\ Cardinality(P) \in Nat /\ Cardinality(Q) \in Nat
  BY RankIs
<1>0. \A i \in P : i \in Int /\ move[i] \in Int
  <2>1. \A i \in P : move[i] \in Q
    BY DEF MovesInOrder
  <2>2. \A x \in 1..n : x \in Int
    OBVIOUS
  <2>3. \A x \in 1..m : x \in Int
    OBVIOUS
  <2> QED BY <2>1, <2>2, <2>3 DEF Positions
<1>2. \A i, j \in P : (i <= j) <=> (move[i] <= move[j])
  <2>1. \A i, j \in P : i \in Int /\ j \in Int /\ move[i] \in Int /\ move[j] \in Int
    BY <1>0
  <2>2. \A i, j \in P : i < j => move[i] < move[j]
    BY DEF MovesInOrder
  <2> SUFFICES ASSUME NEW i \in P, NEW j \in P PROVE (i <= j) <=> (move[i] <= move[j])
    OBVIOUS
  <2>3. i < j \/ j < i \/ i = j
    BY <2>1
  <2> QED BY <2>1, <2>2, <2>3
<1>3. ASSUME NEW X \in SUBSET P, NEW Y, Y = {move[i] : i \in X}
      PROVE  Cardinality(X) = Cardinality(Y)
  <2> DEFINE f == [i \in X |-> move[i]]
  <2>1. f \in [X -> Y]
    BY <1>3
  <2>2. \A i, j \in X : f[i] = f[j] => i = j
    <3>1. \A i, j \in P : i \in Int /\ j \in Int /\ move[i] \in Int /\ move[j] \in Int
      BY <1>0
    <3>2. \A i, j \in P : move[i] = move[j] => i = j
      BY <1>2, <3>1
    <3> QED BY <3>2
  <2>3. \A y \in Y : \E i \in X : f[i] = y
    BY <1>3
  <2> HIDE DEF f
  <2>4. f \in Bijection(X, Y)
    BY <2>1, <2>2, <2>3 DEF Bijection, Injection, IsInjective, Surjection
  <2>5. IsFiniteSet(X)
    BY <1>1, FS_Subset
  <2>6. \E g : g \in Bijection(X, Y)
    BY <2>4
  <2> QED BY <2>5, <2>6, FS_Bijection DEF ExistsBijection
<1>4. Q = {move[i] : i \in P}
  BY DEF MovesInOrder
<1>5. Cardinality(P) = Cardinality(Q)
  BY <1>3, <1>4
<1>6. ASSUME NEW i \in P PROVE Rank(Q, move[i]) = Rank(P, i)
  <2> DEFINE X == {j \in P : j <= i}
             Y == {q \in Q : q <= move[i]}
  <2>1. Y = {move[j] : j \in X}
    <3>1. \A y \in Y : \E j \in X : move[j] = y
      BY <1>2, <1>4
    <3>2. \A j \in X : move[j] \in Y
      BY <1>2, <1>4
    <3> HIDE DEF X, Y
    <3> QED BY <3>1, <3>2
  <2>2. X \in SUBSET P
    OBVIOUS
  <2>3. Rank(Q, move[i]) = Cardinality(Y) /\ Rank(P, i) = Cardinality(X)
    BY DEF Rank
  <2> HIDE DEF X, Y
  <2> QED BY <1>3, <2>1, <2>2, <2>3
<1>7. ASSUME NEW k \in 1..Cardinality(P) PROVE Kth(Q, k) = move[Kth(P, k)]
  <2>1. Kth(P, k) \in P /\ Rank(P, Kth(P, k)) = k
    BY KthIs
  <2>2. move[Kth(P, k)] \in Q /\ Rank(Q, move[Kth(P, k)]) = k
    BY <1>6, <2>1 DEF MovesInOrder
  <2> QED BY <2>2, KthIs
<1> QED BY <1>5, <1>7

\* Lists that hold the same at positions moved in order are the same there.
LEMMA AtMoved ==
  ASSUME NEW n, NEW P, Positions(P, n), NEW m, NEW Q, Positions(Q, m),
         NEW move, MovesInOrder(move, P, Q),
         NEW one, NEW other, \A i \in P : other[move[i]] = one[i]
  PROVE  At(one, P) = At(other, Q)
<1>1. Cardinality(P) = Cardinality(Q)
  BY KthMoved
<1>2. \A k \in 1..Cardinality(P) : Kth(P, k) \in P
  BY KthIs, Zenon
<1>0. \A k \in 1..Cardinality(P) : Kth(Q, k) = move[Kth(P, k)]
  BY KthMoved
<1>3. \A k \in 1..Cardinality(P) : one[Kth(P, k)] = other[Kth(Q, k)]
  BY <1>0, <1>2, Zenon
<1> QED BY <1>1, <1>3 DEF At

\* The same list at the same positions.
LEMMA AtSame ==
  ASSUME NEW n, NEW P, Positions(P, n), NEW one, NEW other, \A i \in P : other[i] = one[i]
  PROVE  At(one, P) = At(other, P)
<1>1. \A k \in 1..Cardinality(P) : Kth(P, k) \in P
  BY KthIs
<1> QED BY <1>1 DEF At

\* At all its positions a list is itself.
LEMMA AtAll ==
  ASSUME NEW T, NEW list \in Seq(T)
  PROVE  At(list, DOMAIN list) = list
<1> DEFINE n == Len(list)
           P == 1..n
<1>1. n \in Nat /\ DOMAIN list = P /\ list = [i \in P |-> list[i]]
  OBVIOUS
<1>2. Cardinality(P) = n
  BY <1>1, FS_Interval
<1>3. ASSUME NEW i \in P PROVE Rank(P, i) = i
  <2>1. {j \in P : j <= i} = 1..i /\ i \in Nat
    BY <1>1
  <2> HIDE DEF P
  <2>2. Cardinality(1..i) = i
    BY <2>1, FS_Interval
  <2> QED BY <2>1, <2>2 DEF Rank
<1>4. \A k \in P : Kth(P, k) = k
  <2>1. \A i \in P : Kth(P, Rank(P, i)) = i
    <3>1. Positions(P, n)
      BY <1>1 DEF Positions
    <3> HIDE DEF P, n
    <3> QED BY <3>1, KthIs, Zenon
  <2> HIDE DEF P
  <2> QED BY <1>3, <2>1
<1> HIDE DEF P, n
<1>5. At(list, P) = [k \in 1..n |-> list[Kth(P, k)]]
  BY <1>2 DEF At
<1>6. At(list, P) = [k \in P |-> list[k]]
  BY <1>4, <1>5 DEF P
<1> QED BY <1>1, <1>6

\* Positions of a list that was itself taken at some positions are positions of the first.
LEMMA AtOfAt ==
  ASSUME NEW n, NEW P, Positions(P, n), NEW list, NEW Q, Positions(Q, Cardinality(P)),
         NEW R, R = {Kth(P, k) : k \in Q}
  PROVE  At(At(list, P), Q) = At(list, R)
<1> DEFINE move == [k \in Q |-> Kth(P, k)]
           C == Cardinality(P)
<1>0. C \in Nat /\ Q \subseteq 1..C
  BY DEF Positions
<1>1. \A k \in Q : Kth(P, k) \in P /\ At(list, P)[k] = list[Kth(P, k)]
  <2>1. \A k \in 1..C : Kth(P, k) \in P
    BY KthIs, Zenon
  <2>2. \A k \in 1..C : At(list, P)[k] = list[Kth(P, k)]
    BY DEF At
  <2> HIDE DEF C
  <2> QED BY <1>0, <2>1, <2>2
<1>2. Positions(R, n)
  BY <1>1 DEF Positions
<1>4. MovesInOrder(move, Q, R)
  <2>1. \A k, l \in 1..C : k < l => Kth(P, k) < Kth(P, l)
    BY KthInOrder
  <2>2. \A k, l \in Q : k < l => Kth(P, k) < Kth(P, l)
    BY <1>0, <2>1
  <2> HIDE DEF C
  <2> QED BY <2>2 DEF MovesInOrder
<1>5. \A k \in Q : list[move[k]] = At(list, P)[k]
  BY <1>1
<1> HIDE DEF move, C
<1> DEFINE taken == At(list, P)
<1>6. \A k \in Q : list[move[k]] = taken[k]
  BY <1>5
<1> HIDE DEF taken
<1>7. At(taken, Q) = At(list, R)
  BY <1>2, <1>4, <1>6, AtMoved
<1> QED BY <1>7 DEF taken

\* What a list taken at some positions holds of a set is what the first holds of it there.
LEMMA AtFiltered ==
  ASSUME NEW n, NEW P, Positions(P, n), NEW list, NEW S
  PROVE  At(At(list, P), {k \in DOMAIN At(list, P) : At(list, P)[k] \in S})
            = At(list, {i \in P : list[i] \in S})
<1> DEFINE Q == {k \in DOMAIN At(list, P) : At(list, P)[k] \in S}
           R == {i \in P : list[i] \in S}
           C == Cardinality(P)
<1>1. /\ DOMAIN At(list, P) = 1..C
      /\ \A k \in 1..C : At(list, P)[k] = list[Kth(P, k)]
  BY DEF At
<1>2. \A k \in 1..C : Kth(P, k) \in P
  BY KthIs, Zenon
<1>3. \A i \in P : Rank(P, i) \in 1..C /\ Kth(P, Rank(P, i)) = i
  BY RankIs, KthIs, Zenon
<1>4. Q \subseteq 1..C
  BY <1>1
<1>5. R = {Kth(P, k) : k \in Q}
  <2>1. \A k \in Q : Kth(P, k) \in R
    BY <1>1, <1>2
  <2>2. ASSUME NEW i \in R PROVE \E k \in Q : Kth(P, k) = i
    <3>1. Rank(P, i) \in 1..C /\ Kth(P, Rank(P, i)) = i
      BY <1>3
    <3> HIDE DEF C
    <3>2. Rank(P, i) \in Q
      BY <1>1, <3>1
    <3> QED BY <3>1, <3>2
  <2> HIDE DEF R, Q
  <2> QED BY <2>1, <2>2
<1> HIDE DEF Q, R
<1> HIDE DEF C
<1>6. Positions(Q, Cardinality(P))
  BY <1>4, RankIs DEF C, Positions
<1>7. At(At(list, P), Q) = At(list, R)
  BY <1>5, <1>6, AtOfAt
<1> QED BY <1>7 DEF Q, R

-----------------------------------------------------------------------------
(* The distinct symbols of a request, in the order they were first listed. *)

\* The positions at which a list holds something for the first time.
FirstPositions(list) == {i \in DOMAIN list : \A j \in 1..(i - 1) : list[j] # list[i]}

\* Those of them that hold an element of a set.
FirstIn(list, S) == {i \in FirstPositions(list) : list[i] \in S}

LEMMA FirstPositionsOf ==
  ASSUME NEW T, NEW list \in Seq(T), NEW S
  PROVE  /\ Positions(DOMAIN list, Len(list))
         /\ Positions(FirstPositions(list), Len(list))
         /\ Positions(FirstIn(list, S), Len(list))
         /\ Positions({i \in DOMAIN list : list[i] \in S}, Len(list))
         /\ Distinct(list) = At(list, FirstPositions(list))
         /\ \A i \in DOMAIN list : list[i] \in T /\ i \in Int /\ i \in 1..Len(list)
<1>1. Len(list) \in Nat /\ DOMAIN list = 1..Len(list) /\ \A i \in 1..Len(list) : list[i] \in T
  OBVIOUS
<1>2. Distinct(list) = At(list, FirstPositions(list))
  BY DEF Distinct, FirstPositions
<1> QED BY <1>1, <1>2 DEF Positions, FirstPositions, FirstIn

\* What a list holds anywhere it holds somewhere for the first time.
LEMMA FirstExists ==
  ASSUME NEW T, NEW list \in Seq(T), NEW i \in DOMAIN list
  PROVE  \E j \in FirstPositions(list) : list[j] = list[i]
<1> DEFINE same == {j \in DOMAIN list : list[j] = list[i]}
           m == Min(same)
<1>1. same \subseteq 1..Len(list) /\ same # {} /\ Len(list) \in Nat
  OBVIOUS
<1>2. m \in same /\ m \in Int /\ \A j \in same : m <= j
  <2>1. IsFiniteSet(1..Len(list))
    BY <1>1, FS_Interval
  <2>2. IsFiniteSet(same)
    BY <1>1, <2>1, FS_Subset
  <2>3. same \subseteq Int
    BY <1>1
  <2> HIDE DEF same
  <2> QED BY <1>1, <2>2, <2>3, MinIs
<1> HIDE DEF m
<1>3. ASSUME NEW j \in 1..(m - 1) PROVE list[j] # list[m]
  <2>1. j \in DOMAIN list /\ j < m
    BY <1>2
  <2> QED BY <1>2, <2>1
<1> QED BY <1>2, <1>3 DEF FirstPositions

\* They are those of the list, each once.
LEMMA DistinctHolds ==
  ASSUME NEW T, NEW list \in Seq(T)
  PROVE  /\ Distinct(list) \in Seq(T)
         /\ ToSet(Distinct(list)) = ToSet(list)
         /\ \A k, l \in DOMAIN Distinct(list) : Distinct(list)[k] = Distinct(list)[l] => k = l
<1> DEFINE P == FirstPositions(list)
<1>1. Positions(P, Len(list)) /\ Distinct(list) = At(list, P)
  BY FirstPositionsOf
<1>2. \A i \in P : list[i] \in T /\ i \in DOMAIN list /\ i \in Int
  BY FirstPositionsOf DEF FirstPositions
<1>3. \A i, j \in P : list[i] = list[j] => i = j
  <2> SUFFICES ASSUME NEW i \in P, NEW j \in P, list[i] = list[j], i # j PROVE FALSE
    OBVIOUS
  <2>1. i \in 1..(j - 1) \/ j \in 1..(i - 1)
    <3>1. i \in 1..Len(list) /\ j \in 1..Len(list) /\ Len(list) \in Nat
      BY <1>1 DEF Positions
    <3> QED BY <3>1
  <2> QED BY <2>1 DEF FirstPositions
<1> HIDE DEF P
<1> DEFINE C == Cardinality(P)
           D == At(list, P)
<1>4. /\ D \in Seq(T) /\ DOMAIN D = 1..C
      /\ \A k \in 1..C : Kth(P, k) \in P /\ D[k] = list[Kth(P, k)]
      /\ \A i \in P : Rank(P, i) \in 1..C /\ D[Rank(P, i)] = list[i]
  <2>1. \A i \in P : list[i] \in T
    BY <1>2
  <2>2. D \in Seq(T) /\ Len(D) = C
    BY <1>1, <2>1, AtTyped
  <2> QED BY <1>1, <2>2, AtIs
<1>5. \A k \in 1..C : Rank(P, Kth(P, k)) = k
  BY <1>1, KthIs
<1> HIDE DEF C, D
<1>6. ToSet(D) = ToSet(list)
  <2>1. \A k \in DOMAIN D : \E i \in DOMAIN list : list[i] = D[k]
    BY <1>2, <1>4
  <2>2. ASSUME NEW i \in DOMAIN list PROVE \E k \in DOMAIN D : D[k] = list[i]
    <3>1. PICK j \in P : list[j] = list[i]
      BY FirstExists DEF P
    <3> QED BY <1>4, <3>1
  <2> QED BY <2>1, <2>2 DEF ToSet
<1>7. \A k, l \in DOMAIN D : D[k] = D[l] => k = l
  BY <1>3, <1>4, <1>5
<1> QED BY <1>1, <1>4, <1>6, <1>7 DEF D

\* What is distinct in the part of a list that is in a set is the part of what is distinct
\* in the list.
LEMMA DistinctOfFiltered ==
  ASSUME NEW T, NEW list \in Seq(T), NEW S
  PROVE  Distinct(At(list, {i \in DOMAIN list : list[i] \in S})) = At(list, FirstIn(list, S))
<1> DEFINE n == Len(list)
           K == {i \in DOMAIN list : list[i] \in S}
           C == Cardinality(K)
           kept == At(list, K)
           Q == FirstPositions(kept)
           R == FirstIn(list, S)
<1>1. Positions(K, n) /\ Positions(DOMAIN list, n)
  BY FirstPositionsOf
<1>2. \A i \in K : i \in DOMAIN list /\ list[i] \in T /\ list[i] \in S
  BY FirstPositionsOf
<1>3. \A i \in DOMAIN list : i \in K <=> list[i] \in S
  OBVIOUS
<1>4. R \subseteq K /\ \A i \in K : i \in R <=> \A j \in 1..(i - 1) : list[j] # list[i]
  BY DEF FirstIn, FirstPositions
<1>5. Positions(R, n)
  BY FirstPositionsOf
<1> HIDE DEF K, R
<1>6. /\ kept \in Seq(T) /\ DOMAIN kept = 1..C /\ C \in Nat /\ Len(kept) = C
      /\ \A k \in 1..C : Kth(K, k) \in K /\ kept[k] = list[Kth(K, k)]
      /\ \A i \in K : Rank(K, i) \in 1..C /\ kept[Rank(K, i)] = list[i]
  <2>1. \A i \in K : list[i] \in T
    BY <1>2
  <2>2. kept \in Seq(T) /\ Len(kept) = C
    BY <1>1, <2>1, AtTyped
  <2> QED BY <1>1, <2>2, AtIs
<1>7. /\ \A k \in 1..C : Rank(K, Kth(K, k)) = k
      /\ \A i \in K : Kth(K, Rank(K, i)) = i
  BY <1>1, KthIs, Zenon
<1>8. \A i, j \in K : i < j => Rank(K, i) < Rank(K, j)
  BY <1>1, RankIs, Zenon
<1>9. \A k, l \in 1..C : (k < l) <=> (Kth(K, k) < Kth(K, l))
  BY <1>1, KthInOrder
<1> HIDE DEF kept, C
<1>10. \A k \in Q : k \in 1..C /\ \A j \in 1..(k - 1) : kept[j] # kept[k]
  BY <1>6 DEF FirstPositions
<1>11. ASSUME NEW k \in Q PROVE Kth(K, k) \in R
  <2> DEFINE i == Kth(K, k)
  <2>1. k \in 1..C /\ i \in K /\ kept[k] = list[i] /\ Rank(K, i) = k
    BY <1>6, <1>7, <1>10
  <2>2. ASSUME NEW j \in 1..(i - 1), list[j] = list[i] PROVE FALSE
    <3>0. DOMAIN list = 1..n /\ n \in Nat /\ i \in DOMAIN list
      BY <1>2, <2>1
    <3>1. j \in DOMAIN list /\ j < i
      BY <3>0
    <3>2. j \in K
      BY <1>2, <1>3, <2>1, <2>2, <3>1
    <3>3. Rank(K, j) < k /\ Rank(K, j) \in 1..C /\ kept[Rank(K, j)] = kept[k]
      BY <1>6, <1>8, <2>1, <2>2, <3>1, <3>2
    <3>4. Rank(K, j) \in 1..(k - 1)
      BY <1>6, <2>1, <3>3
    <3> QED BY <1>10, <3>3, <3>4
  <2> HIDE DEF i
  <2>3. i \in R
    BY <1>4, <2>1, <2>2
  <2> QED BY <2>3 DEF i
<1>12. ASSUME NEW i \in R PROVE \E k \in Q : Kth(K, k) = i
  <2> DEFINE k == Rank(K, i)
  <2>1. i \in K /\ k \in 1..C /\ Kth(K, k) = i /\ kept[k] = list[i]
    BY <1>4, <1>6, <1>7
  <2> HIDE DEF k
  <2>2. ASSUME NEW j \in 1..(k - 1) PROVE kept[j] # kept[k]
    <3>1. j \in 1..C /\ j < k
      BY <1>6, <2>1
    <3>2. Kth(K, j) < i /\ Kth(K, j) \in K /\ kept[j] = list[Kth(K, j)]
      BY <1>6, <1>9, <2>1, <3>1
    <3>0. DOMAIN list = 1..n /\ n \in Nat /\ i \in DOMAIN list /\ Kth(K, j) \in DOMAIN list
      BY <1>2, <2>1, <3>2
    <3>3. Kth(K, j) \in 1..(i - 1)
      BY <3>0, <3>2
    <3> QED BY <1>4, <2>1, <3>2, <3>3
  <2>3. k \in Q
    BY <1>6, <2>1, <2>2 DEF FirstPositions
  <2> QED BY <2>1, <2>3
<1>13. R = {Kth(K, k) : k \in Q}
  <2> HIDE DEF Q
  <2> QED BY <1>11, <1>12
<1>14. Positions(Q, Cardinality(K))
  BY <1>6, <1>10 DEF C, Positions
<1>15. At(At(list, K), Q) = At(list, R)
  <2> HIDE DEF Q
  <2> QED BY <1>1, <1>13, <1>14, AtOfAt
<1>16. Distinct(kept) = At(kept, Q)
  BY DEF Distinct, FirstPositions
<1> QED BY <1>15, <1>16 DEF kept, K, R

\* The distinct symbols that are in a set.
LEMMA DistinctIn ==
  ASSUME NEW T, NEW list \in Seq(T), NEW S
  PROVE  At(Distinct(list), {k \in DOMAIN Distinct(list) : Distinct(list)[k] \in S})
            = At(list, FirstIn(list, S))
<1> DEFINE P == FirstPositions(list)
<1>1. Positions(P, Len(list)) /\ Distinct(list) = At(list, P)
  BY FirstPositionsOf
<1> HIDE DEF P
<1>2. At(At(list, P), {k \in DOMAIN At(list, P) : At(list, P)[k] \in S})
         = At(list, {i \in P : list[i] \in S})
  BY <1>1, AtFiltered
<1>3. {i \in P : list[i] \in S} = FirstIn(list, S)
  BY DEF FirstIn, P
<1> QED BY <1>1, <1>2, <1>3

\* More positions, after the others, leave the first of them where they were.
LEMMA KthExtended ==
  ASSUME NEW n, NEW P, Positions(P, n), NEW m, NEW Q, Positions(Q, m),
         P \subseteq Q, \A q \in Q \ P : \A i \in P : i < q
  PROVE  /\ Cardinality(P) <= Cardinality(Q)
         /\ \A k \in 1..Cardinality(P) : Kth(Q, k) = Kth(P, k)
<1>1. IsFiniteSet(Q) /\ Cardinality(P) <= Cardinality(Q)
  BY RankIs, FS_Subset
<1>2. \A i \in P : Rank(Q, i) = Rank(P, i)
  <2> SUFFICES ASSUME NEW i \in P PROVE {j \in Q : j <= i} = {j \in P : j <= i}
    BY DEF Rank
  <2>1. \A j \in Q : j \in Int /\ i \in Int
    BY DEF Positions
  <2> QED BY <2>1
<1>3. \A k \in 1..Cardinality(P) : Kth(P, k) \in P /\ Rank(P, Kth(P, k)) = k
  BY KthIs, Zenon
<1>4. \A i \in Q : Kth(Q, Rank(Q, i)) = i
  BY KthIs, Zenon
<1>5. \A k \in 1..Cardinality(P) : Kth(Q, k) = Kth(P, k)
  BY <1>2, <1>3, <1>4
<1> QED BY <1>1, <1>5

\* more holds at the first of the positions Q what list holds at P.
Extends(list, more, P, Q) ==
  /\ Positions(P, Len(list)) /\ Positions(Q, Len(list) + 1)
  /\ Cardinality(P) <= Cardinality(Q)
  /\ \A k \in 1..Cardinality(P) : Kth(Q, k) = Kth(P, k) /\ more[Kth(Q, k)] = list[Kth(P, k)]

\* One more in a list leaves what was first in it where it was.
LEMMA FirstInAppended ==
  ASSUME NEW T, NEW list \in Seq(T), NEW x \in T, NEW S
  PROVE  Extends(list, Append(list, x), FirstIn(list, S), FirstIn(Append(list, x), S))
<1> DEFINE P == FirstIn(list, S)
           Q == FirstIn(Append(list, x), S)
           more == Append(list, x)
           n == Len(list)
<1>1. /\ n \in Nat /\ DOMAIN list = 1..n /\ DOMAIN more = 1..(n + 1)
      /\ \A i \in 1..n : more[i] = list[i]
      /\ more \in Seq(T) /\ Len(more) = n + 1
  OBVIOUS
<1> HIDE DEF more, n
<1>2. \A i \in 1..n : i \in 1..(n + 1) /\ \A j \in 1..(i - 1) : j \in 1..n
  BY <1>1
<1>3. \A i \in 1..n : i \in FirstPositions(more) <=> i \in FirstPositions(list)
  BY <1>1, <1>2 DEF FirstPositions
<1>4. \A i \in P : i \in 1..n
  BY <1>1 DEF FirstIn, FirstPositions
<1>5. \A i \in Q : i \in 1..n \/ i = n + 1
  <2>1. \A i \in Q : i \in 1..(n + 1)
    BY <1>1 DEF FirstIn, FirstPositions, more
  <2> QED BY <1>1, <2>1
<1>6. P \subseteq Q /\ \A i \in Q : i \in 1..n => i \in P
  BY <1>1, <1>3, <1>4 DEF FirstIn, more
<1>7. \A q \in Q \ P : \A i \in P : i < q
  BY <1>1, <1>4, <1>5, <1>6
<1>8. Positions(P, n) /\ Positions(Q, n + 1)
  BY <1>1, FirstPositionsOf DEF n, more
<1>9. /\ Cardinality(P) <= Cardinality(Q)
      /\ \A k \in 1..Cardinality(P) : Kth(Q, k) = Kth(P, k)
  BY <1>6, <1>7, <1>8, KthExtended
<1>10. \A k \in 1..Cardinality(P) : Kth(P, k) \in P
  BY <1>8, KthIs, Zenon
<1> QED BY <1>1, <1>4, <1>8, <1>9, <1>10 DEF n, more, Extends

-----------------------------------------------------------------------------
(* A request and what can be simulated of it. *)

\* The invariant: what the handlers accept.
DcaIInv ==
  /\ plan \in Plans /\ Accepted(plan, LatestDay)
  /\ provider \in Providers
  /\ request \in Seq(Entries)
  /\ Len(request) <= MaxEntries

\* However many holdings are listed, what parsePlan and the bindings of the handler let through
\* stays a list of entries under an accepted plan.
THEOREM DcaTyping == DcaSpec => []DcaIInv
<1>1. DcaInit => DcaIInv
  <2> SUFFICES ASSUME DcaInit PROVE DcaIInv
    OBVIOUS
  <2>1. request = <<>> /\ request \in Seq(Entries) /\ Len(request) = 0
    BY DEF DcaInit
  <2>2. MaxEntries \in Nat
    BY RequestsAreBound
  <2>3. Len(request) <= MaxEntries
    BY <2>1, <2>2
  <2> QED BY <2>1, <2>3 DEF DcaInit, DcaIInv
<1>2. DcaIInv /\ [DcaNext]_vars => DcaIInv'
  <2> SUFFICES ASSUME DcaIInv, [DcaNext]_vars PROVE DcaIInv'
    OBVIOUS
  <2>1. CASE UNCHANGED vars
    BY <2>1 DEF vars, DcaIInv, Accepted
  <2>2. ASSUME NEW h \in Entries, AddHolding(h) PROVE DcaIInv'
    <3>1. plan' = plan /\ provider' = provider /\ request' = Append(request, h)
      BY <2>2 DEF AddHolding
    <3>2. request' \in Seq(Entries) /\ Len(request') = Len(request) + 1
      BY <3>1 DEF DcaIInv
    <3>3. Len(request) \in Nat /\ MaxEntries \in Nat /\ Len(request) < MaxEntries
      BY <2>2, RequestsAreBound DEF AddHolding, DcaIInv
    <3>4. Len(request') <= MaxEntries
      BY <3>2, <3>3
    <3> QED BY <3>1, <3>2, <3>4 DEF DcaIInv, Accepted
  <2> QED BY <2>1, <2>2 DEF DcaNext
<1> QED BY <1>1, <1>2, PTL DEF DcaSpec

\* The symbols that can be simulated.
Simulable == {s \in Assets : ErrorOf(plan, Histories[s]) = "none"}

\* What holds of a list of holdings.
LEMMA HoldingsAre ==
  ASSUME NEW r \in Seq(Entries)
  PROVE  /\ SymbolsOf(r) \in Seq(Assets)
         /\ Len(SymbolsOf(r)) = Len(r)
         /\ DOMAIN SymbolsOf(r) = DOMAIN r /\ DOMAIN Weights(r) = DOMAIN r
         /\ \A i \in DOMAIN r : /\ SymbolsOf(r)[i] = r[i].symbol /\ r[i].symbol \in Assets
                                /\ Weights(r)[i] = r[i].weight /\ r[i].weight \in 1..MaxWeight
<1>1. \A i \in DOMAIN r : r[i].symbol \in Assets /\ r[i].weight \in 1..MaxWeight
  <2>1. \A i \in DOMAIN r : r[i] \in Entries
    OBVIOUS
  <2>2. Entries \subseteq [symbol : Assets, weight : 1..MaxWeight]
    BY RequestsAreBound
  <2>3. \A h \in [symbol : Assets, weight : 1..MaxWeight] :
           h.symbol \in Assets /\ h.weight \in 1..MaxWeight
    OBVIOUS
  <2> QED BY <2>1, <2>2, <2>3
<1>2. DOMAIN r = 1..Len(r) /\ Len(r) \in Nat
  OBVIOUS
<1>3. SymbolsOf(r) = [i \in 1..Len(r) |-> r[i].symbol]
  BY <1>2 DEF SymbolsOf
<1>4. SymbolsOf(r) \in Seq(Assets) /\ Len(SymbolsOf(r)) = Len(r)
  BY <1>1, <1>2, <1>3
<1> QED BY <1>1, <1>4 DEF SymbolsOf, Weights

\* The survivors among the distinct symbols of a request are the usable ones.
LEMMA SurvivorsAre ==
  ASSUME NEW list \in Seq(Assets)
  PROVE  /\ Survivors(Distinct(list), plan, Histories) = At(list, FirstIn(list, Simulable))
         /\ Positions(FirstIn(list, Simulable), Len(list))
<1> DEFINE D == Distinct(list)
<1>1. \A i \in DOMAIN D : D[i] \in Assets
  <2>1. D \in Seq(Assets)
    BY DistinctHolds
  <2> HIDE DEF D
  <2> QED BY <2>1
<1>2. {i \in DOMAIN D : ErrorOf(plan, Histories[D[i]]) = "none"} = {i \in DOMAIN D : D[i] \in Simulable}
  BY <1>1 DEF Simulable
<1>3. At(D, {i \in DOMAIN D : D[i] \in Simulable}) = At(list, FirstIn(list, Simulable))
  BY DistinctIn
<1>4. Positions(FirstIn(list, Simulable), Len(list))
  BY FirstPositionsOf
<1> QED BY <1>2, <1>3, <1>4 DEF Survivors

-----------------------------------------------------------------------------
(* The calendar. *)

\* The months follow one another, and the last one begins after today.
LEMMA MonthsAre ==
  /\ WeekDays \in Nat \ {0} /\ LatestDay \in Nat
  /\ Len(Months) \in Nat \ {0} /\ DOMAIN Months = 1..Len(Months)
  /\ \A m \in 1..Len(Months) : Months[m] \in Nat
  /\ Months[1] = 0
  /\ \A m \in 1..(Len(Months) - 1) : Months[m] < Months[m + 1]
  /\ LatestDay < Months[Len(Months)]
<1>1. Months \in Seq(Nat) /\ Months # <<>>
  BY Calendar, CalendarGoesOn
<1>2. Len(Months) \in Nat \ {0} /\ DOMAIN Months = 1..Len(Months)
  BY <1>1
<1>3. \A m \in 1..Len(Months) : Months[m] \in Nat
  BY <1>1
<1>4. LatestDay \in Nat
  BY RequestsAreBound
<1> QED BY <1>2, <1>3, <1>4, Calendar, CalendarGoesOn

LEMMA MonthsInOrder ==
  ASSUME NEW m \in 1..Len(Months), NEW k \in 1..Len(Months), m < k
  PROVE  Months[m] < Months[k]
<1> DEFINE N == Len(Months)
           Bad == {x \in (m + 1)..N : ~ (Months[m] < Months[x])}
           b == Min(Bad)
<1>1. N \in Nat /\ m \in Nat /\ m \in 1..N /\ \A x \in 1..N : Months[x] \in Int
  BY MonthsAre
<1> SUFFICES ASSUME Bad # {} PROVE FALSE
  BY <1>1
<1>2. b \in Bad /\ \A x \in Bad : b <= x
  <2>1. IsFiniteSet((m + 1)..N)
    BY <1>1, FS_Interval
  <2>2. IsFiniteSet(Bad) /\ Bad \subseteq Int
    BY <2>1, FS_Subset
  <2> HIDE DEF Bad
  <2> QED BY <2>2, MinIs
<1> HIDE DEF b
<1>3. b \in (m + 1)..N /\ ~ (Months[m] < Months[b]) /\ b - 1 \in m..N /\ b - 1 \in 1..(N - 1)
  BY <1>1, <1>2
<1>4. b - 1 \notin Bad
  BY <1>2, <1>3
<1>5. Months[b - 1] < Months[(b - 1) + 1]
  BY <1>3, MonthsAre
<1>6. (b - 1) + 1 = b /\ b - 1 \in 1..N /\ b \in 1..N
  BY <1>1, <1>3
<1>7. Months[b - 1] < Months[b]
  BY <1>5, <1>6
<1>8. b - 1 = m \/ Months[m] < Months[b - 1]
  BY <1>1, <1>3, <1>4
<1>9. Months[m] < Months[b]
  BY <1>1, <1>6, <1>7, <1>8
<1> QED BY <1>3, <1>9

\* A day is in the month that began last, and in no other.
LEMMA MonthOfIs ==
  ASSUME NEW t \in Nat
  PROVE  /\ MonthOf(t) \in 1..Len(Months)
         /\ Months[MonthOf(t)] <= t
         /\ MonthOf(t) < Len(Months) => t < Months[MonthOf(t) + 1]
         /\ \A m \in 1..Len(Months) : Months[m] <= t => m <= MonthOf(t)
         /\ t <= LatestDay => MonthOf(t) < Len(Months)
         /\ DayOfMonth(t) \in Nat /\ t = Months[MonthOf(t)] + DayOfMonth(t)
<1> DEFINE N == Len(Months)
           begun == {m \in DOMAIN Months : Months[m] <= t}
           M == Max(begun)
<1>1. /\ N \in Nat \ {0} /\ DOMAIN Months = 1..N /\ Months[1] = 0 /\ LatestDay \in Nat
      /\ \A m \in 1..N : Months[m] \in Nat
  BY MonthsAre
<1>2. M \in begun /\ \A m \in begun : m <= M
  <2>1. IsFiniteSet(1..N)
    BY <1>1, FS_Interval
  <2>2. IsFiniteSet(begun) /\ begun \subseteq Int
    BY <1>1, <2>1, FS_Subset
  <2>3. 1 \in begun
    BY <1>1
  <2> HIDE DEF begun
  <2> QED BY <2>2, <2>3, MaxIs
<1>3. MonthOf(t) = M
  BY DEF MonthOf
<1> HIDE DEF M
<1>4. /\ M \in 1..N /\ Months[M] <= t
      /\ \A m \in 1..N : Months[m] <= t => m <= M
  BY <1>1, <1>2
<1>5. ASSUME M < N PROVE t < Months[M + 1]
  <2>1. M + 1 \in 1..N /\ ~ (M + 1 <= M)
    BY <1>1, <1>4, <1>5
  <2> QED BY <1>1, <1>4, <2>1
<1>6. ASSUME t <= LatestDay PROVE M < N
  <2>1. LatestDay < Months[N]
    BY MonthsAre
  <2>2. Months[N] \in Int /\ t \in Int /\ LatestDay \in Int /\ t <= LatestDay
    BY <1>1, <1>6
  <2>3. t < Months[N]
    BY <2>1, <2>2
  <2>4. M # N
    BY <1>4, <2>2, <2>3
  <2>5. M \in Int /\ N \in Int /\ M <= N
    BY <1>1, <1>4
  <2> HIDE DEF N
  <2> QED BY <2>4, <2>5
<1>7. DayOfMonth(t) = t - Months[M]
  BY <1>3 DEF DayOfMonth
<1>8. DayOfMonth(t) \in Nat /\ t = Months[M] + DayOfMonth(t)
  BY <1>1, <1>4, <1>7
<1> QED BY <1>3, <1>4, <1>5, <1>6, <1>8

\* The month a day is in, from its place in it.
LEMMA MonthOfDay ==
  ASSUME NEW m \in 1..Len(Months), NEW d \in Nat,
         m < Len(Months) => Months[m] + d < Months[m + 1]
  PROVE  MonthOf(Months[m] + d) = m /\ DayOfMonth(Months[m] + d) = d /\ Months[m] + d \in Nat
<1> DEFINE t == Months[m] + d
           M == MonthOf(t)
<1>1. /\ Len(Months) \in Nat /\ t \in Nat
      /\ \A x \in 1..Len(Months) : Months[x] \in Nat
  BY MonthsAre
<1>2. /\ M \in 1..Len(Months) /\ Months[M] <= t /\ m <= M
      /\ DayOfMonth(t) \in Nat /\ t = Months[M] + DayOfMonth(t)
  <2>1. Months[m] <= t
    BY <1>1
  <2> HIDE DEF t
  <2> QED BY <1>1, <2>1, MonthOfIs
<1>3. M = m
  <2> SUFFICES ASSUME m < M PROVE FALSE
    BY <1>1, <1>2
  <2>1. m + 1 \in 1..Len(Months) /\ (m + 1 = M \/ m + 1 < M) /\ m < Len(Months)
    BY <1>1, <1>2
  <2>2. Months[m + 1] <= Months[M]
    BY <1>1, <1>2, <2>1, MonthsInOrder
  <2> QED BY <1>1, <1>2, <2>1, <2>2
<1>4. DayOfMonth(t) = d
  <2> HIDE DEF M
  <2> QED BY <1>1, <1>2, <1>3
<1> QED BY <1>1, <1>3, <1>4

\* A chain of values, each made of the one before.
IsChain(f, K, base, step) == f = [n \in 0..K |-> IF n = 0 THEN base ELSE step[f[n - 1]]]

LEMMA ChainExists ==
  ASSUME NEW V, NEW base \in V, NEW step \in [V -> V], NEW K \in Nat
  PROVE  \E f \in [0..K -> V] : IsChain(f, K, base, step)
<1> DEFINE Bad == {n \in 0..K : ~ \E f \in [0..n -> V] : IsChain(f, n, base, step)}
           b == Min(Bad)
<1> SUFFICES ASSUME Bad # {} PROVE FALSE
  OBVIOUS
<1>1. b \in Bad /\ \A n \in Bad : b <= n
  <2>1. IsFiniteSet(0..K)
    BY FS_Interval
  <2>2. IsFiniteSet(Bad) /\ Bad \subseteq Int
    BY <2>1, FS_Subset
  <2> HIDE DEF Bad
  <2> QED BY <2>2, MinIs
<1>2. b \in 0..K /\ ~ \E f \in [0..b -> V] : IsChain(f, b, base, step)
  BY <1>1
<1> HIDE DEF b
<1>3. b # 0
  <2>1. CASE b = 0
    <3> DEFINE f == [n \in 0..0 |-> base]
    <3>1. f \in [0..0 -> V]
      OBVIOUS
    <3>2. f = [n \in 0..0 |-> IF n = 0 THEN base ELSE step[f[n - 1]]]
      OBVIOUS
    <3> HIDE DEF f
    <3>3. IsChain(f, 0, base, step)
      BY <3>2 DEF IsChain
    <3> QED BY <1>2, <2>1, <3>1, <3>3
  <2> QED BY <2>1
<1>4. b - 1 \in 0..K /\ b - 1 \notin Bad
  BY <1>1, <1>2, <1>3
<1>5. PICK g \in [0..(b - 1) -> V] : IsChain(g, b - 1, base, step)
  BY <1>4
<1> DEFINE f == [n \in 0..b |-> IF n = b THEN step[g[b - 1]] ELSE g[n]]
<1>6. b - 1 \in 0..(b - 1) /\ \A n \in 0..b : n # b => n \in 0..(b - 1)
  BY <1>2, <1>3
<1>7. f \in [0..b -> V]
  <2>1. g[b - 1] \in V /\ step[g[b - 1]] \in V
    BY <1>5, <1>6
  <2>2. \A n \in 0..b : n # b => g[n] \in V
    BY <1>5, <1>6
  <2> QED BY <2>1, <2>2
<1>8. ASSUME NEW n \in 0..b PROVE f[n] = IF n = 0 THEN base ELSE step[f[n - 1]]
  <2>1. CASE n = b
    <3>1. f[n - 1] = g[b - 1]
      BY <1>2, <1>3, <2>1
    <3> QED BY <1>2, <1>3, <2>1, <3>1
  <2>2. CASE n # b
    <3>1. n \in 0..(b - 1) /\ f[n] = g[n]
      BY <1>6, <2>2
    <3>2. g[n] = IF n = 0 THEN base ELSE step[g[n - 1]]
      BY <1>5, <3>1 DEF IsChain
    <3>3. n # 0 => n - 1 \in 0..b /\ n - 1 # b
      BY <1>2, <3>1
    <3> QED BY <3>1, <3>2, <3>3
  <2> QED BY <2>1, <2>2
<1>9. f = [n \in 0..b |-> IF n = 0 THEN base ELSE step[f[n - 1]]]
  <2>1. f = [n \in 0..b |-> f[n]]
    OBVIOUS
  <2> HIDE DEF f
  <2> QED BY <1>8, <2>1
<1>10. IsChain(f, b, base, step)
  <2> HIDE DEF f
  <2> QED BY <1>9 DEF IsChain
<1> HIDE DEF f
<1> QED BY <1>2, <1>7, <1>10

-----------------------------------------------------------------------------
(* The dates of a plan. *)

LEMMA PlanIs ==
  ASSUME DcaIInv
  PROVE  /\ plan.start \in Nat /\ plan.end \in Nat /\ plan.start < plan.end
         /\ plan.end <= LatestDay
         /\ plan.frequency \in Frequencies
         /\ plan.amount \in Nat \ {0}
<1>1. plan \in [frequency : STRING, start : Nat, end : Nat, amount : Nat \ {0}]
  BY RequestsAreBound DEF DcaIInv
<1>2. plan.start \in Nat /\ plan.end \in Nat /\ plan.amount \in Nat \ {0}
  BY <1>1
<1> QED BY <1>2 DEF DcaIInv, Accepted

\* Prices of trading days of the plan.
InRange(prices) == DOMAIN prices \subseteq plan.start..plan.end

LEMMA InRangeIs ==
  ASSUME DcaIInv, NEW prices, InRange(prices), NEW S, S \subseteq DOMAIN prices
  PROVE  IsFiniteSet(S) /\ S \subseteq Int /\ S \subseteq plan.start..plan.end
<1>1. plan.start \in Nat /\ plan.end \in Nat
  BY PlanIs
<1>2. IsFiniteSet(plan.start..plan.end)
  BY <1>1, FS_Interval
<1>3. S \in SUBSET (plan.start..plan.end)
  BY DEF InRange
<1>4. IsFiniteSet(S)
  BY <1>2, <1>3, FS_Subset
<1> QED BY <1>1, <1>3, <1>4

\* The first trading day within a week.
LEMMA FirstWithinAWeek ==
  ASSUME DcaIInv, NEW prices, InRange(prices), NEW t, WithinAWeek(t, prices) # {}
  PROVE  /\ Min(WithinAWeek(t, prices)) \in DOMAIN prices
         /\ Min(WithinAWeek(t, prices)) \in Int
         /\ t <= Min(WithinAWeek(t, prices)) /\ Min(WithinAWeek(t, prices)) < t + WeekDays
<1> DEFINE S == WithinAWeek(t, prices)
<1>1. S \subseteq DOMAIN prices
  BY DEF WithinAWeek
<1>2. IsFiniteSet(S) /\ S \subseteq Int
  BY <1>1, InRangeIs
<1>3. Min(S) \in S
  <2>1. S # {}
    OBVIOUS
  <2> HIDE DEF S
  <2> QED BY <1>2, <2>1, MinIs
<1> QED BY <1>2, <1>3 DEF WithinAWeek

\* Every purchase is on a trading day.
LEMMA PurchasesAreTradingDays ==
  ASSUME DcaIInv, NEW prices, InRange(prices)
  PROVE  /\ ResolveDates(plan, prices) \subseteq DOMAIN prices
         /\ IsFiniteSet(ResolveDates(plan, prices))
         /\ ResolveDates(plan, prices) \subseteq plan.start..plan.end
         /\ ResolveDates(plan, prices) \subseteq Int
<1> DEFINE R == ResolveDates(plan, prices)
<1>1. R \subseteq DOMAIN prices
  BY FirstWithinAWeek DEF ResolveDates
<1> HIDE DEF R
<1>2. IsFiniteSet(R) /\ R \subseteq Int /\ R \subseteq plan.start..plan.end
  BY <1>1, InRangeIs
<1> QED BY <1>1, <1>2 DEF R

\* Weeks, or pairs of weeks, from the Monday of the first: a purchase is in that of its
\* target, and every one has at most one target.
Reaches(t, d, from, step, width) ==
  /\ from \in Int /\ step \in Nat \ {0} /\ width \in Nat /\ width <= step
  /\ t \in Int /\ (t - from) % step = 0
  /\ d \in Int /\ t <= d /\ d < t + width

LEMMA TargetsAWeek ==
  ASSUME NEW t, NEW d, NEW from, NEW step, NEW width, Reaches(t, d, from, step, width)
  PROVE  t = from + step * ((d - from) \div step)
<1> USE DEF Reaches
<1> DEFINE k == (t - from) \div step
<1>1. k \in Int /\ step * k = t - from
  <2>1. t - from \in Int
    OBVIOUS
  <2> QED BY <2>1
<1> HIDE DEF k
<1>2. step * k <= d - from /\ d - from < step * k + step
  BY <1>1
<1>3. (d - from) \div step = k
  BY <1>1, <1>2, QuotientIs
<1> QED BY <1>1, <1>3

LEMMA OnePurchaseAWeek ==
  ASSUME DcaIInv, NEW prices, InRange(prices), plan.frequency \in {"weekly", "biweekly"},
         NEW step, step = IF plan.frequency = "weekly" THEN WeekDays ELSE 2 * WeekDays,
         NEW d \in ResolveDates(plan, prices), NEW e \in ResolveDates(plan, prices),
         (d - MondayOf(plan.start)) \div step = (e - MondayOf(plan.start)) \div step
  PROVE  d = e
<1> DEFINE from == MondayOf(plan.start)
<1>1. plan.start \in Nat /\ plan.end \in Nat /\ WeekDays \in Nat \ {0}
  BY PlanIs, MonthsAre
<1>2. from \in Int
  BY <1>1 DEF MondayOf
<1>3. step \in Nat \ {0} /\ WeekDays <= step
  BY <1>1
<1>4. TargetDates(plan) = WeeklyDates(plan.start, plan.end, step)
  BY DEF TargetDates
<1>5. \A t \in TargetDates(plan) : t \in Int /\ (t - from) % step = 0
  BY <1>1, <1>2, <1>4 DEF WeeklyDates
<1>6. ASSUME NEW x \in ResolveDates(plan, prices)
      PROVE  x = Min(WithinAWeek(from + step * ((x - from) \div step), prices))
  <2>1. PICK t \in TargetDates(plan) :
           WithinAWeek(t, prices) # {} /\ x = Min(WithinAWeek(t, prices))
    BY <1>6 DEF ResolveDates
  <2>2. x \in Int /\ t <= x /\ x < t + WeekDays
    BY <2>1, FirstWithinAWeek
  <2>3. t \in Int /\ (t - from) % step = 0
    BY <1>5
  <2> HIDE DEF from
  <2>4. t = from + step * ((x - from) \div step)
    <3>1. Reaches(t, x, from, step, WeekDays)
      BY <1>1, <1>2, <1>3, <2>2, <2>3 DEF Reaches
    <3> QED BY <3>1, TargetsAWeek
  <2> QED BY <2>1, <2>4
<1>7. d = Min(WithinAWeek(from + step * ((d - from) \div step), prices))
  BY <1>6
<1>8. e = Min(WithinAWeek(from + step * ((e - from) \div step), prices))
  BY <1>6
<1>9. (d - from) \div step = (e - from) \div step
  OBVIOUS
<1> HIDE DEF from
<1> QED BY <1>7, <1>8, <1>9

\* The targets of a monthly plan are what a month is added to, again and again.
NextMonth(end) ==
  [t \in Nat |-> IF MonthOf(t) < Len(Months) THEN AddMonth(t) ELSE end + 1]

\* A month added to a day is a later day: the same one, if the next month has it.
LEMMA NextMonthIs ==
  ASSUME NEW end \in Nat, end <= LatestDay
  PROVE  /\ NextMonth(end) \in [Nat -> Nat]
         /\ \A t \in Nat : t > end => NextMonth(end)[t] > end
<1>1. end < Months[Len(Months)] /\ \A m \in 1..Len(Months) : Months[m] \in Nat
  BY MonthsAre
<1>2. ASSUME NEW t \in Nat
      PROVE  NextMonth(end)[t] \in Nat /\ (t > end => NextMonth(end)[t] > end)
  <2>1. CASE MonthOf(t) < Len(Months)
    <3> DEFINE M == MonthOf(t)
    <3>0. M \in 1..Len(Months) /\ Len(Months) \in Nat /\ M < Len(Months)
      BY <2>1, MonthOfIs, MonthsAre
    <3>1. M \in 1..Len(Months) /\ M + 1 \in 1..Len(Months) /\ M \in 1..(Len(Months) - 1)
      BY <3>0
    <3>2. DayOfMonth(t) \in Nat /\ t = Months[M] + DayOfMonth(t)
      BY MonthOfIs
    <3> HIDE DEF M
    <3>3. Months[M] < Months[M + 1]
      BY <3>1, MonthsAre
    <3>4. AddMonth(t) = Months[M + 1] + DayOfMonth(t)
      BY DEF AddMonth, M
    <3>5. Months[M] \in Nat /\ Months[M + 1] \in Nat
      BY <1>1, <3>1
    <3>6. AddMonth(t) \in Nat /\ AddMonth(t) > t
      BY <3>2, <3>3, <3>4, <3>5
    <3>7. NextMonth(end)[t] = AddMonth(t)
      BY <2>1 DEF NextMonth
    <3> QED BY <3>6, <3>7
  <2>2. CASE ~ (MonthOf(t) < Len(Months))
    BY <2>2 DEF NextMonth
  <2> QED BY <2>1, <2>2
<1>3. NextMonth(end) = [t \in Nat |-> NextMonth(end)[t]]
  BY DEF NextMonth
<1>4. NextMonth(end) \in [Nat -> Nat]
  BY <1>2, <1>3
<1> QED BY <1>2, <1>4

\* date holds the monthly dates from start on, K of them after the first.
IsMonthly(date, start, end, K) ==
  /\ date \in [0..K -> Nat]
  /\ IsChain(date, K, start, NextMonth(end))
  /\ MonthlyDates(start, end) = {date[n] : n \in 0..K} \cap start..end

LEMMA MonthlyDatesAre ==
  ASSUME NEW start \in Nat, NEW end \in Nat, end <= LatestDay, Len(Months) - 2 \in Nat
  PROVE  \E date : IsMonthly(date, start, end, Len(Months) - 2)
<1> DEFINE K == Len(Months) - 2
<1> DEFINE Body(f) == [n \in 0..K |->
                         IF n = 0 THEN start
                         ELSE IF MonthOf(f[n - 1]) < Len(Months) THEN AddMonth(f[n - 1]) ELSE end + 1]
<1> DEFINE date == CHOOSE f : f = Body(f)
           next == NextMonth(end)
<1>1. ASSUME NEW f \in [0..K -> Nat] PROVE IsChain(f, K, start, next) <=> f = Body(f)
  <2>1. \A n \in 0..K : n # 0 => n - 1 \in 0..K
    OBVIOUS
  <2>2. \A n \in 0..K : n # 0 => f[n - 1] \in Nat
    BY <2>1
  <2>3. \A n \in 0..K : n # 0 =>
           next[f[n - 1]] = IF MonthOf(f[n - 1]) < Len(Months) THEN AddMonth(f[n - 1]) ELSE end + 1
    BY <2>2 DEF NextMonth
  <2> HIDE DEF next
  <2>4. [n \in 0..K |-> IF n = 0 THEN start ELSE next[f[n - 1]]] = Body(f)
    BY <2>3
  <2> HIDE DEF Body
  <2> QED BY <2>4 DEF IsChain
<1>2. PICK f \in [0..K -> Nat] : IsChain(f, K, start, next)
  <2>1. next \in [Nat -> Nat]
    BY NextMonthIs
  <2> HIDE DEF next
  <2> QED BY <2>1, ChainExists
<1>3. \E g : g = Body(g)
  BY <1>1, <1>2
<1>4. date = Body(date)
  <2> HIDE DEF Body
  <2> QED BY <1>3

<1>5. ASSUME NEW n \in 0..K
      PROVE  date[n] = IF n = 0 THEN start
                       ELSE IF MonthOf(date[n - 1]) < Len(Months) THEN AddMonth(date[n - 1])
                       ELSE end + 1
  <2> DEFINE d == date
  <2>1. d = Body(d)
    BY <1>4
  <2> HIDE DEF d
  <2>2. d[n] = IF n = 0 THEN start
               ELSE IF MonthOf(d[n - 1]) < Len(Months) THEN AddMonth(d[n - 1]) ELSE end + 1
    BY <2>1
  <2> QED BY <2>2 DEF d
<1>6. DOMAIN date = 0..K
  <2> DEFINE d == date
  <2>1. d = Body(d)
    BY <1>4
  <2> HIDE DEF d
  <2>2. DOMAIN d = 0..K
    BY <2>1
  <2> QED BY <2>2 DEF d
<1>7. date = [n \in 0..K |-> date[n]]
  <2> DEFINE d == date
  <2>1. d = Body(d)
    BY <1>4
  <2> HIDE DEF d
  <2>2. d = [n \in 0..K |-> d[n]]
    BY <2>1
  <2> QED BY <2>2 DEF d
<1>8. MonthlyDates(start, end) = {date[n] : n \in DOMAIN date} \cap start..end
  BY DEF MonthlyDates
<1> HIDE DEF date
<1>9. \A n \in 0..K : date[n] \in Nat
  <2> DEFINE Bad == {n \in 0..K : date[n] \notin Nat}
             b == Min(Bad)
  <2> SUFFICES ASSUME Bad # {} PROVE FALSE
    OBVIOUS
  <2>1. b \in Bad /\ \A n \in Bad : b <= n
    <3>1. IsFiniteSet(0..K)
      BY FS_Interval
    <3>2. IsFiniteSet(Bad) /\ Bad \subseteq Int
      BY <3>1, FS_Subset
    <3> HIDE DEF Bad
    <3> QED BY <3>2, MinIs
  <2>2. b \in 0..K /\ date[b] \notin Nat
    BY <2>1
  <2> HIDE DEF b
  <2>3. b # 0
    BY <1>5, <2>2
  <2>4. b - 1 \in 0..K /\ b - 1 \notin Bad
    BY <2>1, <2>2, <2>3
  <2>5. date[b - 1] \in Nat
    BY <2>4
  <2>6. date[b] = next[date[b - 1]]
    BY <1>5, <2>2, <2>3, <2>5 DEF NextMonth
  <2>7. next \in [Nat -> Nat]
    BY NextMonthIs
  <2> HIDE DEF next
  <2> QED BY <2>2, <2>5, <2>6, <2>7
<1>10. date \in [0..K -> Nat]
  BY <1>7, <1>9
<1>11. IsChain(date, K, start, next)
  <2>1. date = Body(date)
    BY <1>4 DEF date
  <2> HIDE DEF Body, next
  <2> QED BY <1>1, <1>10, <2>1
<1> HIDE DEF next
<1> QED BY <1>6, <1>8, <1>10, <1>11 DEF next, IsMonthly

\* The day of the plan in a month.
PlanDay(m) == Months[m] + DayOfMonth(plan.start)

\* A plan that starts on a day every month has.
LEMMA PlanDays ==
  ASSUME DcaIInv, DayOfMonth(plan.start) < ShortestMonth
  PROVE  /\ MonthOf(plan.start) \in 1..(Len(Months) - 1)
         /\ MonthOf(plan.end) \in 1..(Len(Months) - 1)
         /\ Len(Months) - 2 \in Nat
         /\ plan.start = PlanDay(MonthOf(plan.start))
         /\ \A m \in 1..Len(Months) :
               /\ PlanDay(m) \in Nat
               /\ MonthOf(PlanDay(m)) = m
               /\ m < Len(Months) => AddMonth(PlanDay(m)) = PlanDay(m + 1)
<1> DEFINE d == DayOfMonth(plan.start)
           N == Len(Months)
           lengths == {Months[m + 1] - Months[m] : m \in 1..(N - 1)}
<1>1. plan.start \in Nat /\ plan.end \in Nat /\ plan.start <= LatestDay /\ plan.end <= LatestDay
  BY PlanIs, MonthsAre
<1>2. /\ MonthOf(plan.start) \in 1..N /\ MonthOf(plan.start) < N
      /\ d \in Nat /\ plan.start = Months[MonthOf(plan.start)] + d
  BY <1>1, MonthOfIs
<1>3. MonthOf(plan.end) \in 1..N /\ MonthOf(plan.end) < N
  BY <1>1, MonthOfIs
<1>4. N \in Nat /\ \A m \in 1..N : Months[m] \in Nat
  BY MonthsAre
<1>5. MonthOf(plan.start) \in 1..(N - 1) /\ MonthOf(plan.end) \in 1..(N - 1) /\ N - 2 \in Nat
  BY <1>2, <1>3, <1>4
<1>6. \A m \in 1..(N - 1) : d < Months[m + 1] - Months[m]
  <2>1. IsFiniteSet(1..(N - 1))
    BY <1>4, FS_Interval
  <2>2. IsFiniteSet(lengths)
    <3> DEFINE f == [m \in 1..(N - 1) |-> Months[m + 1] - Months[m]]
               S == 1..(N - 1)
    <3>1. f \in Surjection(S, lengths)
      BY DEF Surjection
    <3>2. IsFiniteSet(S)
      BY <2>1
    <3> HIDE DEF f, S, lengths
    <3> QED BY <3>1, <3>2, FS_Surjection
  <2>3. \A m \in 1..(N - 1) : Months[m + 1] - Months[m] \in Int /\ m \in 1..N /\ m + 1 \in 1..N
    BY <1>4
  <2>4. lengths \subseteq Int /\ lengths # {}
    BY <1>5, <2>3
  <2>5. Min(lengths) \in Int /\ \A x \in lengths : Min(lengths) <= x
    <3> HIDE DEF lengths
    <3> QED BY <2>2, <2>4, MinIs
  <2>6. d < Min(lengths)
    BY DEF ShortestMonth
  <2>7. \A x \in lengths : d < x
    <3> HIDE DEF lengths
    <3> QED BY <1>2, <2>4, <2>5, <2>6
  <2> QED BY <2>7
<1>7. ASSUME NEW m \in 1..N
      PROVE  /\ PlanDay(m) = Months[m] + d
             /\ MonthOf(PlanDay(m)) = m /\ DayOfMonth(PlanDay(m)) = d /\ PlanDay(m) \in Nat
  <2>1. PlanDay(m) = Months[m] + d
    BY DEF PlanDay
  <2>2. m < N => Months[m] + d < Months[m + 1]
    <3>1. m < N => m \in 1..(N - 1) /\ m + 1 \in 1..N
      BY <1>4
    <3> HIDE DEF d, N
    <3> QED BY <1>2, <1>4, <1>6, <3>1
  <2> HIDE DEF d
  <2> QED BY <1>2, <2>1, <2>2, MonthOfDay
<1>8. ASSUME NEW m \in 1..N, m < N PROVE AddMonth(PlanDay(m)) = PlanDay(m + 1)
  BY <1>7, <1>8 DEF AddMonth, PlanDay
<1>9. plan.start = PlanDay(MonthOf(plan.start))
  BY <1>2 DEF PlanDay
<1> QED BY <1>5, <1>7, <1>8, <1>9

\* The nth date of such a plan is its day of the nth month, until the calendar ends.
LEMMA NthPlanDay ==
  ASSUME DcaIInv, DayOfMonth(plan.start) < ShortestMonth,
         NEW K, K = Len(Months) - 2,
         NEW date \in [0..K -> Nat], IsChain(date, K, plan.start, NextMonth(plan.end)),
         NEW n \in 0..K
  PROVE  /\ MonthOf(plan.start) + n <= Len(Months) => date[n] = PlanDay(MonthOf(plan.start) + n)
         /\ MonthOf(plan.start) + n > Len(Months) => date[n] > plan.end
<1> DEFINE N == Len(Months)
           M == MonthOf(plan.start)
           Good(x) == /\ M + x <= N => date[x] = PlanDay(M + x)
                      /\ M + x > N => date[x] > plan.end
           Bad == {x \in 0..K : ~ Good(x)}
           b == Min(Bad)
<1>1. /\ M \in 1..(N - 1) /\ N \in Nat /\ K \in Nat
      /\ plan.start = PlanDay(M)
      /\ plan.end \in Nat /\ plan.end <= LatestDay
  BY PlanDays, PlanIs, MonthsAre
<1>2. \A m \in 1..N : /\ PlanDay(m) \in Nat /\ MonthOf(PlanDay(m)) = m
                      /\ m < N => AddMonth(PlanDay(m)) = PlanDay(m + 1)
  BY PlanDays
<1>3. \A x \in 0..K : x # 0 => date[x] = NextMonth(plan.end)[date[x - 1]]
  BY DEF IsChain
<1>4. date[0] = plan.start
  <2>1. 0 \in 0..K
    BY <1>1
  <2> QED BY <2>1 DEF IsChain
<1>5. \A t \in Nat : t > plan.end => NextMonth(plan.end)[t] > plan.end
  BY <1>1, NextMonthIs
<1> HIDE DEF M, N
<1> SUFFICES ASSUME Bad # {} PROVE FALSE
  BY DEF M, N
<1>6. b \in Bad /\ \A x \in Bad : b <= x
  <2>1. IsFiniteSet(0..K)
    BY FS_Interval
  <2>2. IsFiniteSet(Bad) /\ Bad \subseteq Int
    BY <2>1, FS_Subset
  <2> HIDE DEF Bad
  <2> QED BY <2>2, MinIs
<1>7. b \in 0..K /\ ~ Good(b)
  BY <1>6
<1> HIDE DEF b
<1>8. b # 0
  <2>1. Good(0)
    BY <1>1, <1>4
  <2> HIDE DEF Good
  <2> QED BY <1>7, <2>1
<1>9. b - 1 \in 0..K /\ b - 1 \notin Bad
  BY <1>6, <1>7, <1>8
<1>10. Good(b - 1) /\ date[b - 1] \in Nat
  BY <1>9
<1>11. date[b] = NextMonth(plan.end)[date[b - 1]]
  BY <1>3, <1>7, <1>8
<1>12. CASE M + b <= N
  <2> DEFINE m == M + (b - 1)
  <2>1. m \in 1..N /\ m < N /\ m + 1 = M + b
    BY <1>1, <1>7, <1>8, <1>12
  <2>2. date[b - 1] = PlanDay(m)
    BY <1>10, <2>1
  <2> HIDE DEF m
  <2>3. MonthOf(date[b - 1]) < Len(Months) /\ AddMonth(date[b - 1]) = PlanDay(m + 1)
    BY <1>2, <2>1, <2>2 DEF N
  <2>4. date[b] = PlanDay(M + b)
    BY <1>10, <1>11, <2>1, <2>3 DEF NextMonth
  <2>5. ~ (M + b > N)
    BY <1>1, <1>7, <1>12
  <2> QED BY <1>7, <2>4, <2>5
<1>13. CASE M + b = N + 1
  <2>1. M + (b - 1) = N /\ N \in 1..N
    BY <1>1, <1>7, <1>13
  <2>2. date[b - 1] = PlanDay(N)
    BY <1>1, <1>10, <2>1
  <2>3. MonthOf(date[b - 1]) = N
    BY <1>2, <2>1, <2>2
  <2>4. date[b] = plan.end + 1
    <3>1. ~ (N < N)
      BY <1>1
    <3> QED BY <1>10, <1>11, <2>3, <3>1 DEF NextMonth, N
  <2>5. ~ (M + b <= N) /\ plan.end + 1 > plan.end
    BY <1>1, <1>7, <1>13
  <2> QED BY <1>7, <2>4, <2>5
<1>14. CASE M + b > N + 1
  <2>1. M + (b - 1) > N /\ ~ (M + b <= N)
    BY <1>1, <1>7, <1>14
  <2>2. date[b - 1] > plan.end
    BY <1>10, <2>1
  <2>3. date[b] > plan.end
    BY <1>5, <1>10, <1>11, <2>2
  <2> QED BY <1>7, <2>1, <2>3
<1>15. M + b <= N \/ M + b = N + 1 \/ M + b > N + 1
  BY <1>1, <1>7
<1> QED BY <1>12, <1>13, <1>14, <1>15

\* So its targets are its day of every month it reaches.
LEMMA MonthlyTargets ==
  ASSUME DcaIInv, DayOfMonth(plan.start) < ShortestMonth
  PROVE  MonthlyDates(plan.start, plan.end)
           = {PlanDay(m) : m \in {m \in MonthOf(plan.start)..MonthOf(plan.end) :
                                    PlanDay(m) <= plan.end}}
<1> DEFINE N == Len(Months)
           M == MonthOf(plan.start)
           E == MonthOf(plan.end)
           K == N - 2
           days == {PlanDay(m) : m \in {m \in M..E : PlanDay(m) <= plan.end}}
<1>1. /\ M \in 1..(N - 1) /\ E \in 1..(N - 1) /\ N \in Nat /\ K \in Nat
      /\ plan.start = PlanDay(M)
      /\ plan.end \in Nat /\ plan.start \in Nat /\ plan.end <= LatestDay
  BY PlanDays, PlanIs, MonthsAre
<1>2. \A m \in 1..N : PlanDay(m) \in Nat
  BY PlanDays
<1>3. PICK date \in [0..K -> Nat] :
         /\ IsChain(date, K, plan.start, NextMonth(plan.end))
         /\ MonthlyDates(plan.start, plan.end) = {date[n] : n \in 0..K} \cap plan.start..plan.end
  <2>1. \E date : IsMonthly(date, plan.start, plan.end, Len(Months) - 2)
    BY <1>1, MonthlyDatesAre
  <2> QED BY <2>1 DEF IsMonthly
<1>4. \A n \in 0..K : /\ M + n <= N => date[n] = PlanDay(M + n)
                      /\ M + n > N => date[n] > plan.end
  BY <1>3, NthPlanDay
<1>5. DayOfMonth(plan.start) \in Nat /\ \A m \in 1..N : Months[m] \in Nat
  BY <1>1, MonthOfIs, MonthsAre
<1>6. \A m \in 1..N : Months[m] <= plan.end => m <= E
  BY <1>1, MonthOfIs
<1>7. \A m \in 1..N : PlanDay(m) <= plan.end => m <= E
  <2>1. \A m \in 1..N : Months[m] <= PlanDay(m)
    BY <1>5 DEF PlanDay
  <2>2. \A m \in 1..N : Months[m] \in Int /\ PlanDay(m) \in Int /\ plan.end \in Int
    BY <1>1, <1>2, <1>5
  <2>3. \A m \in 1..N : PlanDay(m) <= plan.end => Months[m] <= plan.end
    BY <2>1, <2>2
  <2> QED BY <1>6, <2>3
<1>8. \A m \in 1..N : m >= M => PlanDay(m) >= plan.start
  <2> SUFFICES ASSUME NEW m \in 1..N, m >= M PROVE PlanDay(m) >= plan.start
    OBVIOUS
  <2>1. M \in 1..N
    BY <1>1
  <2>2. CASE m = M
    BY <1>1, <2>2
  <2>3. CASE M < m
    <3>1. Months[M] < Months[m]
      BY <2>1, <2>3, MonthsInOrder
    <3> QED BY <1>1, <1>5, <2>1, <3>1 DEF PlanDay
  <2> QED BY <2>1, <2>2, <2>3
<1> HIDE DEF M, E, N, K
<1>9. ASSUME NEW n \in 0..K, date[n] \in plan.start..plan.end PROVE date[n] \in days
  <2>1. date[n] <= plan.end /\ date[n] \in Nat
    BY <1>1, <1>9
  <2>2. M + n <= N
    BY <1>1, <1>4, <2>1
  <2>3. date[n] = PlanDay(M + n) /\ M + n \in 1..N
    BY <1>1, <1>4, <2>2
  <2>4. M + n <= E
    BY <1>7, <2>1, <2>3
  <2>5. M + n \in M..E
    BY <1>1, <2>4
  <2> QED BY <2>1, <2>3, <2>5
<1>10. ASSUME NEW m \in M..E, PlanDay(m) <= plan.end
       PROVE  PlanDay(m) \in {date[n] : n \in 0..K} \cap plan.start..plan.end
  <2>1. m - M \in 0..K /\ m \in 1..N /\ m >= M /\ M + (m - M) = m /\ m <= N
    BY <1>1 DEF K
  <2>2. date[m - M] = PlanDay(m)
    BY <1>4, <2>1
  <2>3. PlanDay(m) \in plan.start..plan.end
    BY <1>1, <1>2, <1>8, <1>10, <2>1
  <2> QED BY <2>1, <2>2, <2>3
<1>11. {date[n] : n \in 0..K} \cap plan.start..plan.end = days
  BY <1>9, <1>10
<1> QED BY <1>3, <1>11 DEF M, E

\* A symbol with a history: the closes of its range.
LEMMA HistoryIs ==
  ASSUME DcaIInv, NEW s \in Assets, Histories[s] \notin {Unlisted, Outage}
  PROVE  /\ InRange(Histories[s])
         /\ \A d \in DOMAIN Histories[s] : Histories[s][d] \in Nat \ {0}
         /\ \A total \in 1..(MaxEntries * MaxWeight), d \in DOMAIN Histories[s] :
               plan.amount % (total * Histories[s][d]) = 0
<1> DEFINE closes == provider[s]
<1>1. Histories[s] = Fetched(closes, plan)
  BY DEF Histories
<1>2. closes \notin {Unlisted, Outage}
  BY <1>1 DEF Fetched
<1>3. Histories[s] = [d \in DOMAIN closes \cap plan.start..plan.end |-> closes[d]]
  BY <1>1, <1>2 DEF Fetched
<1>4. provider \in Providers /\ plan \in Plans
  BY DEF DcaIInv
<1>5. \A d \in DOMAIN closes : closes[d] \in Nat \ {0}
  BY <1>2, <1>4, RequestsAreBound
<1>6. \A total \in 1..(MaxEntries * MaxWeight), d \in DOMAIN closes :
         plan.amount % (total * closes[d]) = 0
  BY <1>2, <1>4, AmountsAreExact
<1> HIDE DEF closes
<1>7. /\ DOMAIN Histories[s] \subseteq plan.start..plan.end
      /\ \A d \in DOMAIN Histories[s] : d \in DOMAIN closes /\ Histories[s][d] = closes[d]
  BY <1>3
<1> QED BY <1>5, <1>6, <1>7 DEF InRange

\* Every purchase is in the plan's range, no calendar week (or pair of weeks) has two, and a
\* monthly plan that starts on a day every month has buys on that day of each month, or on
\* the first trading day within a week after it: resolveDates on the dates of targetDates.
THEOREM PurchasesKeepPeriods == DcaSpec => []PurchasesKeepTheirPeriods
<1>1. DcaIInv => PurchasesKeepTheirPeriods
  <2> SUFFICES ASSUME DcaIInv, NEW s \in Assets, Histories[s] \notin {Unlisted, Outage}
               PROVE  LET dates == ResolveDates(plan, Histories[s])
                          week(d) == (d - MondayOf(plan.start)) \div
                                        (IF plan.frequency = "weekly" THEN WeekDays
                                         ELSE 2 * WeekDays)
                          months == MonthOf(plan.start)..MonthOf(plan.end)
                          day(m) == Months[m] + DayOfMonth(plan.start)
                      IN  /\ dates \subseteq plan.start..plan.end
                          /\ plan.frequency \in {"weekly", "biweekly"} =>
                                \A d, e \in dates : week(d) = week(e) => d = e
                          /\ plan.frequency = "monthly" /\ DayOfMonth(plan.start) < ShortestMonth =>
                                dates = {Min(WithinAWeek(day(m), Histories[s])) :
                                            m \in {m \in months : /\ day(m) <= plan.end
                                                                  /\ WithinAWeek(day(m), Histories[s]) # {}}}
    BY DEF PurchasesKeepTheirPeriods
  <2> DEFINE prices == Histories[s]
             dates == ResolveDates(plan, prices)
             step == IF plan.frequency = "weekly" THEN WeekDays ELSE 2 * WeekDays
             months == MonthOf(plan.start)..MonthOf(plan.end)
             found == {m \in months : PlanDay(m) <= plan.end /\ WithinAWeek(PlanDay(m), prices) # {}}
  <2>1. InRange(prices)
    BY HistoryIs
  <2> HIDE DEF prices
  <2>2. dates \subseteq plan.start..plan.end
    BY <2>1, PurchasesAreTradingDays
  <2>3. ASSUME plan.frequency \in {"weekly", "biweekly"}, NEW d \in dates, NEW e \in dates,
               (d - MondayOf(plan.start)) \div step = (e - MondayOf(plan.start)) \div step
        PROVE  d = e
    <3> DEFINE st == step
    <3>1. st = IF plan.frequency = "weekly" THEN WeekDays ELSE 2 * WeekDays
      OBVIOUS
    <3>2. (d - MondayOf(plan.start)) \div st = (e - MondayOf(plan.start)) \div st
      BY <2>3
    <3> HIDE DEF st
    <3> QED BY <2>1, <2>3, <3>1, <3>2, OnePurchaseAWeek
  <2>4. ASSUME plan.frequency = "monthly", DayOfMonth(plan.start) < ShortestMonth
        PROVE  dates = {Min(WithinAWeek(PlanDay(m), prices)) : m \in found}
    <3>1. TargetDates(plan) = {PlanDay(m) : m \in {m \in months : PlanDay(m) <= plan.end}}
      BY <2>4, MonthlyTargets DEF TargetDates
    <3>2. dates = {Min(WithinAWeek(t, prices)) :
                     t \in {t \in TargetDates(plan) : WithinAWeek(t, prices) # {}}}
      BY <2>4 DEF ResolveDates
    <3> HIDE DEF months
    <3> QED BY <3>1, <3>2
  <2> HIDE DEF dates
  <2> QED BY <2>2, <2>3, <2>4 DEF prices, dates, PlanDay
<1> QED BY <1>1, DcaTyping, PTL

-----------------------------------------------------------------------------
(* Amounts. *)

LEMMA RescaledIs ==
  ASSUME NEW x \in Int, NEW y \in Int, NEW num \in Int, NEW den \in Nat \ {0}, num * x = den * y
  PROVE  (x * num) \div den = y
<1>1. x * num \in Int /\ den * y = x * num
  OBVIOUS
<1>2. den * y <= x * num /\ x * num < den * y + den
  BY <1>1
<1> QED BY <1>1, <1>2, QuotientIs

\* The sums of weights a plan can be divided by.
Totals == 1..(MaxEntries * MaxWeight)

\* A holding's share of the plan.
Share(weight, total) == (plan.amount * weight) \div total

\* A share w of total of an amount a buys whole units at the price p.
IsExact(a, total, p, w) ==
  /\ a \in Nat /\ total \in Nat \ {0} /\ p \in Nat \ {0} /\ w \in Nat
  /\ a % (total * p) = 0

\* Nothing is lost in its divisions.
LEMMA ExactQuotient ==
  ASSUME NEW a, NEW total, NEW p, NEW w, IsExact(a, total, p, w)
  PROVE  \E t \in Nat : /\ a = total * (p * t)
                        /\ (a * w) \div total = p * (t * w)
                        /\ ((a * w) \div total) \div p = t * w
<1> DEFINE n == total * p
           t == a \div n
           v == p * (t * w)
<1>0. /\ a \in Nat /\ total \in Nat \ {0} /\ p \in Nat \ {0} /\ w \in Nat
      /\ a % (total * p) = 0
  BY DEF IsExact
<1>1. n \in Nat \ {0} /\ n \in Int
  BY <1>0
<1>2. a % n = 0
  BY <1>0
<1>3. t \in Nat /\ a = n * t
  <2> HIDE DEF n
  <2> QED BY <1>0, <1>1, <1>2
<1> HIDE DEF t
<1>4. a = total * (p * t)
  BY <1>0, <1>3
<1>5. t * w \in Nat /\ p * t \in Nat /\ p * (t * w) \in Nat /\ (p * t) * w = p * (t * w)
  BY <1>0, <1>3
<1>6. a * w = total * v /\ a * w \in Int /\ v \in Int
  <2> DEFINE u == p * t
  <2>1. u \in Nat /\ a = total * u /\ u * w = v
    BY <1>0, <1>4, <1>5
  <2> HIDE DEF u, v
  <2>2. a * w = total * (u * w) /\ a * w \in Int
    BY <1>0, <2>1
  <2>3. v \in Int
    BY <1>5 DEF v
  <2> QED BY <2>1, <2>2, <2>3
<1>7. (a * w) \div total = v
  <2> DEFINE x == a * w
  <2>1. x \in Int /\ v \in Int /\ x = total * v
    BY <1>0, <1>6
  <2> HIDE DEF x, v
  <2>2. total * v <= x /\ x < total * v + total
    BY <1>0, <2>1
  <2>3. x \div total = v
    BY <1>0, <2>1, <2>2, QuotientIs
  <2> QED BY <2>3 DEF x
<1>8. v \div p = t * w
  <2> DEFINE x == t * w
  <2>1. x \in Int /\ v = p * x
    BY <1>0, <1>5
  <2> HIDE DEF x, v
  <2>2. v \in Int /\ p * x <= v /\ v < p * x + p
    BY <1>0, <2>1
  <2>3. v \div p = x
    BY <1>0, <2>1, <2>2, QuotientIs
  <2> QED BY <2>3 DEF x
<1> QED BY <1>3, <1>4, <1>7, <1>8

\* A symbol that can be simulated has at least two purchases, on days with a close.
LEMMA SimulableIs ==
  ASSUME DcaIInv, NEW s \in Simulable
  PROVE  /\ s \in Assets
         /\ InRange(Histories[s])
         /\ DOMAIN Histories[s] # {} /\ IsFiniteSet(DOMAIN Histories[s])
         /\ DOMAIN Histories[s] \subseteq Int
         /\ ResolveDates(plan, Histories[s]) \subseteq DOMAIN Histories[s]
         /\ IsFiniteSet(ResolveDates(plan, Histories[s]))
         /\ \A d \in DOMAIN Histories[s] : Histories[s][d] \in Nat \ {0}
         /\ \A total \in Totals, d \in DOMAIN Histories[s] :
               plan.amount % (total * Histories[s][d]) = 0
<1>1. s \in Assets /\ ErrorOf(plan, Histories[s]) = "none"
  BY DEF Simulable
<1>2. Histories[s] \notin {Unlisted, Outage} /\ DOMAIN Histories[s] # {}
  <2> DEFINE h == Histories[s]
  <2>1. ErrorOf(plan, h) = "none"
    BY <1>1
  <2> HIDE DEF h
  <2>2. h # Outage
    BY <2>1 DEF ErrorOf
  <2>3. h # Unlisted
    BY <2>1, <2>2 DEF ErrorOf
  <2>4. DOMAIN h # {}
    BY <2>1, <2>2, <2>3 DEF ErrorOf
  <2> QED BY <2>2, <2>3, <2>4 DEF h
<1>3. /\ InRange(Histories[s])
      /\ \A d \in DOMAIN Histories[s] : Histories[s][d] \in Nat \ {0}
      /\ \A total \in Totals, d \in DOMAIN Histories[s] :
            plan.amount % (total * Histories[s][d]) = 0
  BY <1>1, <1>2, HistoryIs DEF Totals
<1>4. IsFiniteSet(DOMAIN Histories[s]) /\ DOMAIN Histories[s] \subseteq Int
  BY <1>3, InRangeIs
<1>5. /\ ResolveDates(plan, Histories[s]) \subseteq DOMAIN Histories[s]
      /\ IsFiniteSet(ResolveDates(plan, Histories[s]))
  BY <1>3, PurchasesAreTradingDays
<1> QED BY <1>1, <1>2, <1>3, <1>4, <1>5

LEMMA TotalsAre ==
  Totals \subseteq Nat \ {0}
<1>1. MaxEntries \in Nat /\ MaxWeight \in Nat
  BY RequestsAreBound
<1>2. MaxEntries * MaxWeight \in Nat
  BY <1>1
<1> QED BY <1>2 DEF Totals

\* What a holding's share buys on a day.
LEMMA ShareIs ==
  ASSUME DcaIInv, NEW s \in Simulable, NEW w \in Nat, NEW total \in Totals,
         NEW d \in DOMAIN Histories[s]
  PROVE  /\ Share(w, total) \in Nat /\ total * Share(w, total) = plan.amount * w
         /\ \E t \in Nat : /\ plan.amount = total * (Histories[s][d] * t)
                           /\ Share(w, total) = Histories[s][d] * (t * w)
                           /\ Share(w, total) \div Histories[s][d] = t * w
<1> DEFINE a == plan.amount
           p == Histories[s][d]
<1>1. a \in Nat /\ total \in Nat \ {0} /\ p \in Nat \ {0} /\ a % (total * p) = 0
  BY PlanIs, TotalsAre, SimulableIs
<1> HIDE DEF a, p
<1>2. PICK t \in Nat : /\ a = total * (p * t)
                       /\ (a * w) \div total = p * (t * w)
                       /\ ((a * w) \div total) \div p = t * w
  <2>1. IsExact(a, total, p, w)
    BY <1>1 DEF IsExact
  <2> QED BY <2>1, ExactQuotient
<1>3. Share(w, total) = (a * w) \div total
  BY DEF Share, a
<1>4. p * (t * w) \in Nat
  BY <1>1
<1>5. total * (p * (t * w)) = a * w
  <2> DEFINE u == p * t
  <2>1. u \in Nat /\ a = total * u /\ p * (t * w) = u * w
    BY <1>1, <1>2
  <2> HIDE DEF u
  <2>2. total * (u * w) = (total * u) * w
    BY <1>1, <2>1
  <2> QED BY <2>1, <2>2
<1> QED BY <1>2, <1>3, <1>4, <1>5 DEF a, p

\* The units it buys are as many more as the total is smaller.
LEMMA UnitsRescaled ==
  ASSUME DcaIInv, NEW s \in Simulable, NEW w \in Nat, NEW W \in Totals, NEW K \in Totals,
         NEW d \in DOMAIN Histories[s]
  PROVE  /\ Share(w, W) \div Histories[s][d] \in Nat /\ Share(w, K) \div Histories[s][d] \in Nat
         /\ W * (Share(w, W) \div Histories[s][d]) = K * (Share(w, K) \div Histories[s][d])
<1> DEFINE a == plan.amount
           p == Histories[s][d]
<1>1. PICK t \in Nat : a = W * (p * t) /\ Share(w, W) \div p = t * w
  BY ShareIs
<1>2. PICK u \in Nat : a = K * (p * u) /\ Share(w, K) \div p = u * w
  BY ShareIs
<1>3. p \in Nat \ {0} /\ W \in Nat /\ K \in Nat
  BY TotalsAre, SimulableIs
<1> HIDE DEF a, p
<1>4. p * (W * t) = p * (K * u)
  BY <1>1, <1>2, <1>3
<1>5. W * t = K * u
  <2> DEFINE x == W * t
             y == K * u
  <2>1. x \in Int /\ y \in Int /\ p * x = p * y
    BY <1>3, <1>4
  <2> HIDE DEF x, y
  <2>2. x <= y /\ y <= x
    BY <1>3, <2>1, CancelScale
  <2>3. x = y
    BY <2>1, <2>2
  <2> QED BY <2>3 DEF x, y
<1>6. W * (t * w) = K * (u * w)
  <2>1. W * (t * w) = (W * t) * w /\ K * (u * w) = (K * u) * w
    BY <1>3
  <2> QED BY <1>5, <2>1
<1>7. t * w \in Nat /\ u * w \in Nat
  OBVIOUS
<1> QED BY <1>1, <1>2, <1>6, <1>7 DEF p

\* So do the units of several purchases.
LEMMA SumsRescaled ==
  ASSUME DcaIInv, NEW s \in Simulable, NEW w \in Nat, NEW W \in Totals, NEW K \in Totals,
         NEW R, R = ResolveDates(plan, Histories[s]), NEW X \in SUBSET R
  PROVE  LET one == SumFunctionOnSet(UnitsBought(Histories[s], R, Share(w, W)), X)
             other == SumFunctionOnSet(UnitsBought(Histories[s], R, Share(w, K)), X)
         IN  one \in Nat /\ other \in Nat /\ W * one = K * other
<1> DEFINE f == UnitsBought(Histories[s], R, Share(w, W))
           g == UnitsBought(Histories[s], R, Share(w, K))
           h == [d \in X |-> W * f[d]]
<1>1. IsFiniteSet(X) /\ X \subseteq DOMAIN Histories[s]
  BY SimulableIs, FS_Subset
<1>2. \A d \in X : f[d] \in Nat /\ g[d] \in Nat /\ W * f[d] = K * g[d]
  BY <1>1, UnitsRescaled DEF UnitsBought
<1>3. W \in Int /\ K \in Int
  BY TotalsAre
<1> HIDE DEF f, g
<1>4. \A d \in X : f[d] \in Int /\ g[d] \in Int /\ h[d] = W * f[d] /\ h[d] = K * g[d]
  BY <1>2
<1> HIDE DEF h
<1>5. SumFunctionOnSet(h, X) = W * SumFunctionOnSet(f, X)
  BY <1>1, <1>3, <1>4, SumScaled
<1>6. SumFunctionOnSet(h, X) = K * SumFunctionOnSet(g, X)
  BY <1>1, <1>3, <1>4, SumScaled
<1>7. SumFunctionOnSet(f, X) \in Nat /\ SumFunctionOnSet(g, X) \in Nat
  BY <1>1, <1>2, SumIsNat
<1> QED BY <1>5, <1>6, <1>7 DEF f, g

\* Simulated for its share of one total and rescaled, an asset is what its share of the other
\* total gives.
LEMMA AssetIs ==
  ASSUME DcaIInv, NEW s \in Simulable, NEW w \in Nat, NEW W \in Totals, NEW K \in Totals
  PROVE  Scaled(Execute(plan, Histories[s], Share(w, W)), W, K)
           = Execute(plan, Histories[s], Share(w, K))
<1> DEFINE prices == Histories[s]
           R == ResolveDates(plan, prices)
           last == Max(DOMAIN prices)
           A == Share(w, W)
           B == Share(w, K)
           k(x) == (x * W) \div K
           units(X, amount) == SumFunctionOnSet(UnitsBought(prices, R, amount), X)
           upTo(d) == {e \in R : e <= d}
<1>1. /\ R \subseteq DOMAIN prices /\ IsFiniteSet(R)
      /\ IsFiniteSet(DOMAIN prices) /\ DOMAIN prices # {} /\ DOMAIN prices \subseteq Int
      /\ \A d \in DOMAIN prices : prices[d] \in Nat \ {0}
  BY SimulableIs
<1>2. W \in Nat \ {0} /\ K \in Nat \ {0}
  BY TotalsAre
<1>3. last \in DOMAIN prices
  <2> DEFINE days == DOMAIN prices
  <2>1. IsFiniteSet(days) /\ days # {} /\ days \subseteq Int
    BY <1>1
  <2> HIDE DEF days
  <2> QED BY <2>1, MaxIs DEF days
<1>4. ASSUME NEW x \in Int, NEW y \in Int, W * x = K * y PROVE k(x) = y
  BY <1>2, <1>4, RescaledIs
<1>5. A \in Nat /\ B \in Nat /\ W * A = K * B
  <2>1. last \in DOMAIN Histories[s]
    BY <1>3
  <2>2. Share(w, W) \in Nat /\ W * Share(w, W) = plan.amount * w
    BY <2>1, ShareIs
  <2>3. Share(w, K) \in Nat /\ K * Share(w, K) = plan.amount * w
    BY <2>1, ShareIs
  <2> QED BY <2>2, <2>3
<1>6. ASSUME NEW n \in Nat PROVE k(A * n) = B * n
  <2>1. A * n \in Int /\ B * n \in Int /\ W * (A * n) = (W * A) * n /\ K * (B * n) = (K * B) * n
    BY <1>2, <1>5
  <2>2. W * (A * n) = K * (B * n)
    BY <1>5, <2>1
  <2> HIDE DEF k, A, B
  <2> QED BY <1>4, <2>1, <2>2
<1>7. ASSUME NEW d \in R
      PROVE  k(A \div prices[d]) = B \div prices[d] /\ B \div prices[d] \in Nat
  <2>1. d \in DOMAIN Histories[s]
    BY <1>1
  <2>2. /\ A \div prices[d] \in Nat /\ B \div prices[d] \in Nat
        /\ W * (A \div prices[d]) = K * (B \div prices[d])
    BY <2>1, UnitsRescaled
  <2> DEFINE x == A \div prices[d]
             y == B \div prices[d]
  <2>3. x \in Int /\ y \in Int /\ W * x = K * y
    BY <2>2
  <2> HIDE DEF x, y
  <2>4. k(x) = y
    BY <1>4, <2>3
  <2> QED BY <2>2, <2>4 DEF x, y
<1>8. ASSUME NEW X \in SUBSET R
      PROVE  /\ units(X, A) \in Int /\ units(X, B) \in Int
             /\ W * units(X, A) = K * units(X, B)
  BY SumsRescaled
<1>9. ASSUME NEW X \in SUBSET R, NEW p \in Nat
      PROVE  k(units(X, A)) = units(X, B) /\ k(units(X, A) * p) = units(X, B) * p
  <2> DEFINE x == units(X, A)
             y == units(X, B)
  <2>1. x \in Int /\ y \in Int /\ W * x = K * y
    BY <1>8
  <2> HIDE DEF x, y
  <2>2. x * p \in Int /\ y * p \in Int /\ W * (x * p) = (W * x) * p /\ K * (y * p) = (K * y) * p
    BY <1>2, <2>1
  <2>3. W * (x * p) = K * (y * p)
    BY <2>1, <2>2
  <2> HIDE DEF k
  <2>4. k(x) = y
    BY <1>4, <2>1
  <2>5. k(x * p) = y * p
    BY <1>4, <2>2, <2>3
  <2> QED BY <2>4, <2>5 DEF x, y
<1>10. Cardinality(R) \in Nat /\ \A d : upTo(d) \in SUBSET R /\ Cardinality(upTo(d)) \in Nat
  <2>1. Cardinality(R) \in Nat
    BY <1>1, FS_CardinalityType
  <2>2. ASSUME NEW X \in SUBSET R PROVE Cardinality(X) \in Nat
    BY <1>1, FS_Subset, FS_CardinalityType
  <2>3. \A d : upTo(d) \in SUBSET R
    OBVIOUS
  <2> HIDE DEF upTo
  <2> QED BY <2>1, <2>2, <2>3
<1>11. \A d \in R \union {last} : d \in DOMAIN prices /\ prices[d] \in Nat
  BY <1>1, <1>3
<1> DEFINE one == Execute(plan, prices, A)
           other == Execute(plan, prices, B)
           point(d, amount) ==
              [bought   |-> IF d \in R THEN amount \div prices[d] ELSE 0,
               units    |-> units(upTo(d), amount),
               invested |-> amount * Cardinality(upTo(d)),
               value    |-> units(upTo(d), amount) * prices[d]]
           points(amount) == [d \in R \union {last} |-> point(d, amount)]
           result(amount) ==
              [amount   |-> amount,
               invested |-> amount * Cardinality(R),
               final    |-> units(R, amount) * prices[last],
               periods  |-> Cardinality(R),
               points   |-> points(amount)]
           scaled(q) == [bought |-> k(q.bought), units |-> k(q.units),
                         invested |-> k(q.invested), value |-> k(q.value)]
<1>12. one = result(A) /\ other = result(B)
  BY DEF Execute, Points
<1>13. ASSUME NEW d \in R \union {last} PROVE scaled(point(d, A)) = point(d, B)
  <2>1. k(IF d \in R THEN A \div prices[d] ELSE 0) = IF d \in R THEN B \div prices[d] ELSE 0
    <3>1. k(0) = 0
      BY <1>2, <1>4
    <3> HIDE DEF k, A, B
    <3> QED BY <1>7, <3>1
  <2>2. k(units(upTo(d), A)) = units(upTo(d), B)
    <3> HIDE DEF k, units
    <3> QED BY <1>9, <1>10
  <2>3. k(A * Cardinality(upTo(d))) = B * Cardinality(upTo(d))
    <3> HIDE DEF k, A, B, upTo
    <3> QED BY <1>6, <1>10
  <2>4. k(units(upTo(d), A) * prices[d]) = units(upTo(d), B) * prices[d]
    <3> HIDE DEF k, units, upTo, prices
    <3> QED BY <1>9, <1>10, <1>11
  <2> HIDE DEF k, units, upTo, prices, A, B, R
  <2> QED BY <2>1, <2>2, <2>3, <2>4
<1>14. k(A) = B
  BY <1>4, <1>5
<1>15. k(A * Cardinality(R)) = B * Cardinality(R)
  <2> HIDE DEF k, A, B, R
  <2> QED BY <1>6, <1>10
<1>16. k(units(R, A) * prices[last]) = units(R, B) * prices[last]
  <2> HIDE DEF k, units, R, last, prices
  <2> QED BY <1>9, <1>11
<1>17. [d \in DOMAIN points(A) |-> scaled(points(A)[d])] = points(B)
  <2> HIDE DEF scaled, point, R, last
  <2> QED BY <1>13
<1>18. Scaled(result(A), W, K)
         = [amount |-> k(A), invested |-> k(A * Cardinality(R)),
            final |-> k(units(R, A) * prices[last]), periods |-> Cardinality(R),
            points |-> [d \in DOMAIN points(A) |-> scaled(points(A)[d])]]
  <2> HIDE DEF units, points, R, last, prices, A
  <2> QED BY DEF Scaled
<1>19. Scaled(result(A), W, K) = result(B)
  <2> HIDE DEF k, units, points, R, last, prices, A, B, scaled
  <2> QED BY <1>14, <1>15, <1>16, <1>17, <1>18
<1> HIDE DEF result
<1> QED BY <1>12, <1>19

-----------------------------------------------------------------------------
(* Weights. *)

\* Terms of at most c make a sum of at most c for each.
LEMMA SumBounded ==
  ASSUME NEW S, IsFiniteSet(S), NEW f, NEW c \in Nat, \A x \in S : f[x] \in Nat /\ f[x] <= c
  PROVE  SumFunctionOnSet(f, S) <= c * Cardinality(S)
<1> DEFINE ones == [x \in S |-> 1]
           cs == [x \in S |-> c]
<1>1. \A x \in S : ones[x] = 1 /\ ones[x] \in Int /\ cs[x] \in Int /\ cs[x] = c * ones[x] /\ f[x] <= cs[x]
  OBVIOUS
<1>2. \A x \in S : f[x] \in Int
  OBVIOUS
<1> HIDE DEF ones, cs
<1>3. Cardinality(S) = SumFunctionOnSet(ones, S)
  BY <1>1, CardinalityIsSum
<1>4. SumFunctionOnSet(cs, S) = c * SumFunctionOnSet(ones, S)
  BY <1>1, SumScaled
<1>5. SumFunctionOnSet(f, S) <= SumFunctionOnSet(cs, S)
  BY <1>1, <1>2, SumAtMost
<1> QED BY <1>3, <1>4, <1>5

\* The positions of a symbol, or of several, and the weight of a symbol.
ListedAt(r, S) == {j \in DOMAIN r : r[j].symbol \in S}
SymbolWeight(r, s) == SumFunctionOnSet(Weights(r), {j \in DOMAIN r : r[j].symbol = s})

\* The holdings of some symbols of a request, each once.
Grouped(r, list) == [k \in DOMAIN list |-> [symbol |-> list[k], weight |-> SymbolWeight(r, list[k])]]

\* Symbols of a request, each once.
SomeOf(r, list) ==
  /\ list \in Seq(Assets)
  /\ \A k, l \in DOMAIN list : list[k] = list[l] => k = l
  /\ \A k \in DOMAIN list : \E j \in DOMAIN r : r[j].symbol = list[k]

LEMMA WeightsAre ==
  ASSUME NEW r \in Seq(Entries), NEW S
  PROVE  /\ IsFiniteSet(ListedAt(r, S)) /\ ListedAt(r, S) \subseteq DOMAIN r
         /\ IsFiniteSet(DOMAIN r) /\ Cardinality(DOMAIN r) = Len(r)
         /\ \A j \in DOMAIN r : Weights(r)[j] \in Nat /\ Weights(r)[j] \in 1..MaxWeight
<1>1. DOMAIN r = 1..Len(r) /\ Len(r) \in Nat
  OBVIOUS
<1>2. IsFiniteSet(DOMAIN r) /\ Cardinality(DOMAIN r) = Len(r)
  BY <1>1, FS_Interval
<1>3. ListedAt(r, S) \in SUBSET DOMAIN r
  BY DEF ListedAt
<1>4. IsFiniteSet(ListedAt(r, S))
  BY <1>2, <1>3, FS_Subset
<1>5. \A j \in DOMAIN r : Weights(r)[j] \in 1..MaxWeight
  BY HoldingsAre
<1>6. MaxWeight \in Nat /\ \A x \in 1..MaxWeight : x \in Nat
  BY RequestsAreBound
<1> QED BY <1>2, <1>3, <1>4, <1>5, <1>6

LEMMA SymbolWeightIs ==
  ASSUME NEW r \in Seq(Entries), NEW j \in DOMAIN r
  PROVE  SymbolWeight(r, r[j].symbol) \in Nat \ {0}
<1> DEFINE S == {i \in DOMAIN r : r[i].symbol = r[j].symbol}
           f == Weights(r)
<1>1. IsFiniteSet(S) /\ j \in S
  <2>1. S = ListedAt(r, {r[j].symbol})
    BY DEF ListedAt
  <2> QED BY <2>1, WeightsAre
<1>2. (\A i \in S : f[i] \in Nat) /\ f[j] > 0
  <2>1. \A i \in DOMAIN r : f[i] \in Nat /\ f[i] \in 1..MaxWeight
    BY WeightsAre
  <2> QED BY <2>1
<1> HIDE DEF S, f
<1>3. SumFunctionOnSet(f, S) \in Nat /\ SumFunctionOnSet(f, S) > 0
  BY <1>1, <1>2, SumPositive
<1> QED BY <1>3 DEF SymbolWeight, S, f

\* What some symbols weigh together: at least one, and no more than a request can.
LEMMA TotalIs ==
  ASSUME NEW r \in Seq(Entries), Len(r) <= MaxEntries, NEW list, SomeOf(r, list), list # <<>>
  PROVE  TotalWeight(Grouped(r, list)) \in Totals
<1> DEFINE S == ListedAt(r, ToSet(list))
           T == DOMAIN list
           f == Weights(r)
           g == Weights(Grouped(r, list))
           key == [j \in S |-> CHOOSE k \in T : list[k] = r[j].symbol]
<1>1. /\ IsFiniteSet(S) /\ S \subseteq DOMAIN r
      /\ IsFiniteSet(DOMAIN r) /\ Cardinality(DOMAIN r) = Len(r)
      /\ \A j \in DOMAIN r : f[j] \in Nat /\ f[j] \in 1..MaxWeight
  BY WeightsAre
<1>2. IsFiniteSet(T) /\ list \in Seq(Assets)
  <2>1. list \in Seq(Assets)
    BY DEF SomeOf
  <2>2. T = 1..Len(list) /\ Len(list) \in Nat
    BY <2>1
  <2>3. IsFiniteSet(T)
    BY <2>2, FS_Interval
  <2> QED BY <2>1, <2>3
<1>3. \A j \in S : key[j] \in T /\ list[key[j]] = r[j].symbol
  <2>1. \A j \in S : \E k \in T : list[k] = r[j].symbol
    BY DEF ListedAt, ToSet
  <2> QED BY <2>1
<1>4. \A k \in T : g[k] = SymbolWeight(r, list[k])
  BY DEF Weights, Grouped
<1>5. ASSUME NEW k \in T PROVE {j \in S : key[j] = k} = {j \in DOMAIN r : r[j].symbol = list[k]}
  <2>1. \A j \in DOMAIN r : r[j].symbol = list[k] => j \in S
    BY DEF ListedAt, ToSet
  <2>2. \A j \in S : key[j] = k <=> r[j].symbol = list[k]
    <3> HIDE DEF key, S
    <3> QED BY <1>3 DEF SomeOf
  <2> HIDE DEF key, S
  <2> QED BY <1>1, <2>1, <2>2
<1>6. GroupedBy(key, f, g, S, T)
  <2> HIDE DEF key, S, g
  <2> QED BY <1>4, <1>5 DEF GroupedBy, SymbolWeight
<1>7. TotalWeight(Grouped(r, list)) = SumFunctionOnSet(g, T)
  BY DEF TotalWeight, Grouped
<1> HIDE DEF S, T, f, g, key
<1>8. \A j \in S : f[j] \in Nat /\ f[j] \in Int
  BY <1>1
<1>9. SumFunctionOnSet(f, S) = SumFunctionOnSet(g, T)
  <2>1. IsFiniteSet(S) /\ IsFiniteSet(T)
    BY <1>1, <1>2
  <2>2. \A j \in S : f[j] \in Int
    BY <1>8
  <2>3. \A j \in S : key[j] \in T
    BY <1>3
  <2> QED BY ONLY <1>6, <2>1, <2>2, <2>3, SumGrouped
<1>10. MaxWeight \in Nat /\ MaxEntries \in Nat /\ Len(r) \in Nat
  BY RequestsAreBound
<1>11. /\ SumFunctionOnSet(f, S) <= SumFunctionOnSet(f, DOMAIN r)
       /\ SumFunctionOnSet(f, S) \in Nat /\ SumFunctionOnSet(f, DOMAIN r) \in Nat
  BY <1>1, SumSubset
<1>12. SumFunctionOnSet(f, DOMAIN r) <= MaxWeight * Len(r)
  <2>1. \A j \in DOMAIN r : f[j] \in Nat /\ f[j] <= MaxWeight
    BY <1>1, <1>10
  <2> QED BY <1>1, <1>10, <2>1, SumBounded
<1>13. MaxWeight * Len(r) <= MaxEntries * MaxWeight
  <2>1. MaxWeight * Len(r) <= MaxWeight * MaxEntries
    BY <1>10, ScaleBoth
  <2>2. MaxWeight * MaxEntries = MaxEntries * MaxWeight
    BY <1>10
  <2> QED BY <2>1, <2>2
<1>14. SumFunctionOnSet(f, S) > 0
  <2>1. 1 \in T
    BY <1>2 DEF T
  <2>2. PICK j \in DOMAIN r : r[j].symbol = list[1]
    BY <2>1 DEF SomeOf, T
  <2>3. j \in S
    BY <2>1, <2>2 DEF S, T, ListedAt, ToSet
  <2>4. f[j] > 0
    BY <1>1, <1>10
  <2> QED BY <1>1, <1>8, <2>3, <2>4, SumPositive
<1>15. MaxWeight * Len(r) \in Nat /\ MaxEntries * MaxWeight \in Nat
  BY <1>10
<1> DEFINE sum == SumFunctionOnSet(f, S)
           all == SumFunctionOnSet(f, DOMAIN r)
           x == MaxWeight * Len(r)
           y == MaxEntries * MaxWeight
<1>16. sum \in Nat /\ all \in Nat /\ x \in Nat /\ y \in Nat /\ sum > 0 /\ sum <= all /\ all <= x /\ x <= y
  BY <1>11, <1>12, <1>13, <1>14, <1>15
<1> HIDE DEF sum, all, x, y
<1>17. sum \in 1..y
  BY <1>16
<1> QED BY <1>7, <1>9, <1>17 DEF Totals, sum, y

-----------------------------------------------------------------------------
(* What a simulation of holdings gives. *)

\* The symbols simulated of a request, its holdings of them, and what each gives.
SimulatedSymbols(r) == At(SymbolsOf(r), FirstIn(SymbolsOf(r), Simulable))

SimulatedHoldings(r) == Grouped(r, SimulatedSymbols(r))

AssetOf(h, total) == Execute(plan, Histories[h.symbol], Share(h.weight, total))

SimulatedAssets(r) ==
  [i \in DOMAIN SimulatedHoldings(r) |->
      AssetOf(SimulatedHoldings(r)[i], TotalWeight(SimulatedHoldings(r)))]

\* What a list holds at some positions, as a set.
LEMMA AtHolds ==
  ASSUME NEW n, NEW P, Positions(P, n), NEW list
  PROVE  ToSet(At(list, P)) = {list[i] : i \in P}
<1>1. /\ DOMAIN At(list, P) = 1..Cardinality(P)
      /\ \A k \in 1..Cardinality(P) : Kth(P, k) \in P /\ At(list, P)[k] = list[Kth(P, k)]
      /\ \A i \in P : Rank(P, i) \in 1..Cardinality(P) /\ At(list, P)[Rank(P, i)] = list[i]
  BY AtIs
<1> DEFINE D == At(list, P)
           C == 1..Cardinality(P)
<1>2. \A k \in C : \E i \in P : D[k] = list[i]
  BY <1>1
<1>3. \A i \in P : \E k \in C : D[k] = list[i]
  BY <1>1
<1>4. DOMAIN D = C
  BY <1>1
<1> HIDE DEF D, C
<1>5. ToSet(D) = {list[i] : i \in P}
  BY <1>2, <1>3, <1>4 DEF ToSet
<1> QED BY <1>5 DEF D

\* Positions hold different things if the list does.
LEMMA AtDiffers ==
  ASSUME NEW n, NEW P, Positions(P, n), NEW list, \A i, j \in P : list[i] = list[j] => i = j
  PROVE  \A k, l \in DOMAIN At(list, P) : At(list, P)[k] = At(list, P)[l] => k = l
<1>1. /\ DOMAIN At(list, P) = 1..Cardinality(P)
      /\ \A k \in 1..Cardinality(P) : Kth(P, k) \in P /\ At(list, P)[k] = list[Kth(P, k)]
  BY AtIs
<1>2. \A k \in 1..Cardinality(P) : Rank(P, Kth(P, k)) = k
  BY KthIs, Zenon
<1> QED BY <1>1, <1>2

\* The holdings of a request, each symbol once.
LEMMA MergedIs ==
  ASSUME NEW r \in Seq(Entries)
  PROVE  /\ Merged(r) = Grouped(r, Distinct(SymbolsOf(r)))
         /\ SymbolsOf(Merged(r)) = Distinct(SymbolsOf(r))
         /\ SomeOf(r, Distinct(SymbolsOf(r)))
<1> DEFINE D == Distinct(SymbolsOf(r))
<1>1. Merged(r) = Grouped(r, D)
  BY DEF Merged, Grouped, SymbolWeight
<1>2. SymbolsOf(r) \in Seq(Assets)
  BY HoldingsAre
<1>3. /\ D \in Seq(Assets) /\ ToSet(D) = ToSet(SymbolsOf(r))
      /\ \A k, l \in DOMAIN D : D[k] = D[l] => k = l
  BY <1>2, DistinctHolds
<1>4. \A j \in DOMAIN SymbolsOf(r) : j \in DOMAIN r /\ SymbolsOf(r)[j] = r[j].symbol
  BY HoldingsAre
<1>5. \A k \in DOMAIN D : \E j \in DOMAIN r : r[j].symbol = D[k]
  <2> HIDE DEF D
  <2>1. \A k \in DOMAIN D : D[k] \in ToSet(SymbolsOf(r))
    BY <1>3 DEF ToSet
  <2> QED BY <1>4, <2>1 DEF ToSet
<1> HIDE DEF D
<1>6. SomeOf(r, D)
  BY <1>3, <1>5 DEF SomeOf
<1>7. D = [k \in DOMAIN D |-> D[k]]
  BY <1>3
<1>8. SymbolsOf(Grouped(r, D)) = D
  BY <1>7 DEF SymbolsOf, Grouped
<1> QED BY <1>1, <1>6, <1>8 DEF D

\* Those of them that can be simulated.
LEMMA KeptIs ==
  ASSUME NEW r, NEW list \in Seq(Assets)
  PROVE  At(Grouped(r, list),
            {i \in DOMAIN Grouped(r, list) :
                ErrorOf(plan, Histories[Grouped(r, list)[i].symbol]) = "none"})
           = Grouped(r, At(list, {i \in DOMAIN list : list[i] \in Simulable}))
<1> DEFINE G == Grouped(r, list)
           I == {i \in DOMAIN list : list[i] \in Simulable}
           J == {i \in DOMAIN G : ErrorOf(plan, Histories[G[i].symbol]) = "none"}
           C == Cardinality(I)
<1>1. /\ DOMAIN G = DOMAIN list
      /\ \A i \in DOMAIN list : G[i] = [symbol |-> list[i], weight |-> SymbolWeight(r, list[i])]
  BY DEF Grouped
<1>2. \A i \in DOMAIN list : list[i] \in Assets
  OBVIOUS
<1> HIDE DEF G
<1>3. I = J
  BY <1>1, <1>2 DEF Simulable
<1>4. Positions(I, Len(list))
  BY FirstPositionsOf
<1>5. \A k \in 1..C : Kth(I, k) \in I
  BY <1>4, KthIs, Zenon
<1> DEFINE taken == At(list, I)
<1>6. DOMAIN taken = 1..C /\ \A k \in 1..C : taken[k] = list[Kth(I, k)]
  BY DEF At
<1>7. At(G, I) = [k \in 1..C |-> G[Kth(I, k)]]
  BY DEF At
<1>8. \A k \in 1..C : G[Kth(I, k)] = [symbol |-> taken[k], weight |-> SymbolWeight(r, taken[k])]
  <2> HIDE DEF taken, C
  <2> QED BY <1>1, <1>5, <1>6
<1> HIDE DEF taken, C, I, J
<1>9. Grouped(r, taken) = [k \in 1..C |-> [symbol |-> taken[k], weight |-> SymbolWeight(r, taken[k])]]
  BY <1>6 DEF Grouped
<1>10. At(G, I) = Grouped(r, taken)
  BY <1>7, <1>8, <1>9
<1> QED BY <1>3, <1>10 DEF G, I, J, taken

LEMMA SimulatedSymbolsAre ==
  ASSUME NEW r \in Seq(Entries)
  PROVE  /\ SomeOf(r, SimulatedSymbols(r))
         /\ SimulatedSymbols(r) \in Seq(Assets)
         /\ \A k \in DOMAIN SimulatedSymbols(r) : SimulatedSymbols(r)[k] \in Simulable
         /\ \A j \in DOMAIN r : r[j].symbol \in Simulable =>
               \E k \in DOMAIN SimulatedSymbols(r) : SimulatedSymbols(r)[k] = r[j].symbol
         /\ SimulatedSymbols(r) = At(Distinct(SymbolsOf(r)),
                                     {i \in DOMAIN Distinct(SymbolsOf(r)) :
                                         Distinct(SymbolsOf(r))[i] \in Simulable})
<1> DEFINE D == Distinct(SymbolsOf(r))
           I == {i \in DOMAIN D : D[i] \in Simulable}
           X == SimulatedSymbols(r)
<1>1. SymbolsOf(r) \in Seq(Assets)
  BY HoldingsAre
<1>2. /\ D \in Seq(Assets) /\ ToSet(D) = ToSet(SymbolsOf(r))
      /\ \A k, l \in DOMAIN D : D[k] = D[l] => k = l
  BY <1>1, DistinctHolds
<1>3. X = At(D, I)
  BY <1>1, DistinctIn DEF SimulatedSymbols
<1>4. \A j \in DOMAIN r : j \in DOMAIN SymbolsOf(r) /\ SymbolsOf(r)[j] = r[j].symbol
  BY HoldingsAre
<1>5. SomeOf(r, D)
  BY MergedIs
<1> HIDE DEF D, X
<1>6. Positions(I, Len(D))
  BY <1>2, FirstPositionsOf
<1>7. \A i \in I : D[i] \in Assets /\ D[i] \in Simulable /\ i \in DOMAIN D
  BY <1>2
<1>8. X \in Seq(Assets)
  <2> HIDE DEF I
  <2>1. \A i \in I : D[i] \in Assets
    BY <1>7
  <2> QED BY <1>3, <1>6, <2>1, AtTyped
<1>9. \A k, l \in DOMAIN X : X[k] = X[l] => k = l
  <2>1. \A i, j \in I : D[i] = D[j] => i = j
    BY <1>2, <1>7
  <2> HIDE DEF I
  <2> QED BY <1>3, <1>6, <2>1, AtDiffers
<1>10. ToSet(X) = {D[i] : i \in I}
  <2> HIDE DEF I
  <2> QED BY <1>3, <1>6, AtHolds
<1>11. \A k \in DOMAIN X : \E i \in I : X[k] = D[i]
  <2> HIDE DEF I
  <2> QED BY <1>10 DEF ToSet
<1>12. \A k \in DOMAIN X : X[k] \in Simulable /\ \E j \in DOMAIN r : r[j].symbol = X[k]
  BY <1>5, <1>7, <1>11 DEF SomeOf
<1>13. ASSUME NEW j \in DOMAIN r, r[j].symbol \in Simulable
       PROVE  \E k \in DOMAIN X : X[k] = r[j].symbol
  <2>1. r[j].symbol \in ToSet(D)
    BY <1>2, <1>4 DEF ToSet
  <2>2. PICK i \in DOMAIN D : D[i] = r[j].symbol
    BY <2>1 DEF ToSet
  <2>3. i \in I
    BY <1>13, <2>2
  <2>4. r[j].symbol \in ToSet(X)
    BY <1>10, <2>2, <2>3
  <2> QED BY <2>4 DEF ToSet
<1>14. SomeOf(r, X)
  BY <1>8, <1>9, <1>12 DEF SomeOf
<1> QED BY <1>3, <1>8, <1>12, <1>13, <1>14 DEF D, X

\* Every share is rescaled to what it would be of the simulated holdings alone.
LEMMA SimulationIs ==
  ASSUME DcaIInv, NEW r \in Seq(Entries), Len(r) <= MaxEntries
  PROVE  SimulateHoldings(r, plan, Histories)
           = [assets   |-> SimulatedAssets(r),
              symbols  |-> SimulatedSymbols(r),
              skipped  |-> Skipped(Distinct(SymbolsOf(r)), plan, Histories),
              combined |-> IF SimulatedHoldings(r) = <<>> THEN <<>>
                           ELSE <<Combined(plan, SimulatedAssets(r))>>]
<1> DEFINE D == Distinct(SymbolsOf(r))
           X == SimulatedSymbols(r)
           holdings == Merged(r)
           kept == SimulatedHoldings(r)
           W == TotalWeight(holdings)
           K == TotalWeight(kept)
           assets == [i \in DOMAIN kept |->
                        Scaled(Execute(plan, Histories[kept[i].symbol],
                                       (plan.amount * kept[i].weight) \div W), W, K)]
<1>1. holdings = Grouped(r, D) /\ SymbolsOf(holdings) = D /\ SomeOf(r, D)
  BY MergedIs
<1>2. /\ SomeOf(r, X) /\ X \in Seq(Assets)
      /\ \A k \in DOMAIN X : X[k] \in Simulable
      /\ X = At(D, {i \in DOMAIN D : D[i] \in Simulable})
  BY SimulatedSymbolsAre
<1>3. At(holdings, {i \in DOMAIN holdings : ErrorOf(plan, Histories[holdings[i].symbol]) = "none"}) = kept
  <2>1. D \in Seq(Assets)
    BY <1>1 DEF SomeOf
  <2> HIDE DEF D, X, holdings
  <2> QED BY <1>1, <1>2, <2>1, KeptIs DEF SimulatedHoldings, X
<1>4. DOMAIN kept = DOMAIN X /\ \A i \in DOMAIN X : kept[i] = [symbol |-> X[i], weight |-> SymbolWeight(r, X[i])]
  BY DEF SimulatedHoldings, Grouped
<1>5. SymbolsOf(kept) = X
  <2> HIDE DEF D, X, kept
  <2>1. X = [k \in DOMAIN X |-> X[k]]
    <3>1. X \in Seq(Assets)
      BY <1>2
    <3> QED BY ONLY <3>1
  <2> QED BY <1>4, <2>1 DEF SymbolsOf
<1>6. ASSUME NEW i \in DOMAIN kept
      PROVE  Scaled(Execute(plan, Histories[kept[i].symbol],
                            (plan.amount * kept[i].weight) \div W), W, K) = AssetOf(kept[i], K)
  <2>1. i \in DOMAIN X /\ kept[i].symbol = X[i] /\ X[i] \in Simulable
        /\ kept[i].weight = SymbolWeight(r, X[i])
    BY <1>2, <1>4
  <2>2. PICK j \in DOMAIN r : r[j].symbol = X[i]
    BY <1>2, <2>1 DEF SomeOf
  <2>3. kept[i].weight \in Nat
    BY <2>1, <2>2, SymbolWeightIs
  <2>4. K \in Totals
    <3>1. X # <<>>
      BY <2>1
    <3> HIDE DEF X
    <3> QED BY <1>2, <3>1, TotalIs DEF SimulatedHoldings, X
  <2>5. W \in Totals
    <3>1. D # <<>>
      <4>1. Len(SymbolsOf(r)) = Len(r) /\ SymbolsOf(r) \in Seq(Assets)
            /\ DOMAIN SymbolsOf(r) = DOMAIN r /\ SymbolsOf(r)[j] = r[j].symbol
        BY <2>2, HoldingsAre
      <4>2. ToSet(D) = ToSet(SymbolsOf(r))
        BY <4>1, DistinctHolds
      <4>3. X[i] \in ToSet(SymbolsOf(r))
        BY <2>2, <4>1 DEF ToSet
      <4> HIDE DEF D
      <4>4. \E k \in DOMAIN D : D[k] = X[i]
        BY <4>2, <4>3 DEF ToSet
      <4> QED BY <4>4
    <3> HIDE DEF D, holdings
    <3>2. TotalWeight(Grouped(r, D)) \in Totals
      BY <1>1, <3>1, TotalIs
    <3> QED BY <1>1, <3>2
  <2> DEFINE s == kept[i].symbol
             w == kept[i].weight
  <2>6. s \in Simulable /\ w \in Nat
    BY <2>1, <2>3
  <2>7. (plan.amount * w) \div W = Share(w, W)
    BY DEF Share
  <2> HIDE DEF s, w, W, K
  <2>8. Scaled(Execute(plan, Histories[s], Share(w, W)), W, K) = Execute(plan, Histories[s], Share(w, K))
    BY <2>4, <2>5, <2>6, AssetIs
  <2> QED BY <2>7, <2>8 DEF AssetOf, s, w
<1>7. assets = SimulatedAssets(r)
  <2> HIDE DEF kept, W
  <2> QED BY <1>6 DEF SimulatedAssets, kept
<1>8. SimulateHoldings(r, plan, Histories)
        = [assets   |-> assets,
           symbols  |-> SymbolsOf(kept),
           skipped  |-> Skipped(SymbolsOf(holdings), plan, Histories),
           combined |-> IF kept = <<>> THEN <<>> ELSE <<Combined(plan, assets)>>]
  <2> DEFINE taken == At(holdings, {i \in DOMAIN holdings :
                                      ErrorOf(plan, Histories[holdings[i].symbol]) = "none"})
  <2>1. taken = kept
    BY <1>3
  <2>2. SimulateHoldings(r, plan, Histories)
          = [assets   |-> [i \in DOMAIN taken |->
                             Scaled(Execute(plan, Histories[taken[i].symbol],
                                            (plan.amount * taken[i].weight) \div TotalWeight(holdings)),
                                    TotalWeight(holdings), TotalWeight(taken))],
             symbols  |-> SymbolsOf(taken),
             skipped  |-> Skipped(SymbolsOf(holdings), plan, Histories),
             combined |-> IF taken = <<>> THEN <<>>
                          ELSE <<Combined(plan, [i \in DOMAIN taken |->
                             Scaled(Execute(plan, Histories[taken[i].symbol],
                                            (plan.amount * taken[i].weight) \div TotalWeight(holdings)),
                                    TotalWeight(holdings), TotalWeight(taken))])>>]
    BY DEF SimulateHoldings
  <2> HIDE DEF taken, kept, holdings
  <2> QED BY <2>1, <2>2
<1> HIDE DEF assets, kept, holdings, X, D
<1> QED BY <1>1, <1>5, <1>7, <1>8 DEF kept, X, D

-----------------------------------------------------------------------------
(* Several assets. *)

\* No code but the one of an outage is 500.
LEMMA OtherCodes == ASSUME NEW code, code = 200 \/ code = 400 \/ code = 404 PROVE code # 500
OBVIOUS

\* A simulation of one symbol fails exactly if its provider is out.
LEMMA OutageIs500 ==
  ASSUME NEW s \in Assets
  PROVE  SimulateStatus(plan, Histories[s]) = 500 <=> ErrorOf(plan, Histories[s]) = "upstream"
<1> DEFINE error == ErrorOf(plan, Histories[s])
           code == SimulateStatus(plan, Histories[s])
           out == error = "upstream"
<1>1. error \in {"none", "ErrSymbolNotFound", "ErrDateRangeTooShort", "upstream"}
  BY DEF ErrorOf
<1>2. out => code = 500
  BY DEF SimulateStatus
<1>3. error # "upstream" => code = 200 \/ code = 400 \/ code = 404
  BY <1>1 DEF SimulateStatus
<1>4. ~out => code = 200 \/ code = 400 \/ code = 404
  BY <1>3
<1> HIDE DEF error, code, out
<1>5. ~out => code # 500
  BY <1>4, OtherCodes
<1>6. code = 500 <=> out
  BY <1>2, <1>5, Zenon
<1> QED BY <1>6 DEF error, code, out

\* A request fails exactly if none of its symbols survives and one of them is out.
LEMMA FailsIff ==
  ASSUME NEW list \in Seq(Assets)
  PROVE  Fails(Distinct(list), plan, Histories)
            <=> Survivors(Distinct(list), plan, Histories) = <<>> /\ OneIsOut(list)
<1>1. ToSet(Distinct(list)) = ToSet(list)
  BY DistinctHolds
<1>2. ToSet(list) \subseteq Assets
  BY DEF ToSet
<1>3. (\E s \in ToSet(list) : ErrorOf(plan, Histories[s]) = "upstream") <=> OneIsOut(list)
  BY <1>2, OutageIs500 DEF OneIsOut
<1> QED BY <1>1, <1>3 DEF Fails

\* One asset never spoils another: a symbol more in a request leaves the results of the others
\* and their order alone.  And an outage is not reported as no history, nor a lack of history
\* as an outage: Compare and SimulateHoldings fail exactly when nothing could be simulated and
\* one of the assets is out (usecase/dca/simulator.go:27-30).
THEOREM AssetsNeverSpoilOthers == DcaSpec => OneAssetNeverSpoilsAnother
<1> DEFINE Step == /\ IsPrefix(Results(request), Results(request'))
                   /\ CompareStatus(SymbolsOf(request'), plan, Histories) = 500
                        <=> Results(request') = <<>> /\ OneIsOut(SymbolsOf(request'))
                   /\ HoldingsStatus(request', plan, Histories) = 500
                        <=> /\ SimulateHoldings(request', plan, Histories).combined = <<>>
                            /\ OneIsOut(SymbolsOf(request'))
<1>1. ASSUME DcaIInv, NEW h \in Entries, AddHolding(h) PROVE Step
  <2> DEFINE list == SymbolsOf(request)
             more == SymbolsOf(request')
             P == FirstIn(list, Simulable)
             Q == FirstIn(more, Simulable)
             one(s) == [symbol |-> s, result |-> Execute(plan, Histories[s], plan.amount)]
  <2>1. request \in Seq(Entries) /\ request' = Append(request, h) /\ request' \in Seq(Entries)
    BY <1>1 DEF DcaIInv, AddHolding
  <2>2. /\ list \in Seq(Assets) /\ more \in Seq(Assets)
        /\ Len(list) = Len(request) /\ Len(more) = Len(request) + 1
        /\ DOMAIN list = 1..Len(request) /\ DOMAIN more = 1..(Len(request) + 1)
        /\ \A i \in DOMAIN request : list[i] = request[i].symbol
        /\ \A i \in DOMAIN request' : more[i] = request'[i].symbol
        /\ Len(request) \in Nat
    <3>1. /\ list \in Seq(Assets) /\ Len(list) = Len(request)
          /\ DOMAIN list = DOMAIN request /\ \A i \in DOMAIN request : list[i] = request[i].symbol
      BY <2>1, HoldingsAre
    <3>2. /\ more \in Seq(Assets) /\ Len(more) = Len(request')
          /\ DOMAIN more = DOMAIN request' /\ \A i \in DOMAIN request' : more[i] = request'[i].symbol
      BY <2>1, HoldingsAre
    <3>3. /\ Len(request) \in Nat /\ Len(request') = Len(request) + 1
          /\ DOMAIN request = 1..Len(request) /\ DOMAIN request' = 1..(Len(request) + 1)
      BY <2>1
    <3> HIDE DEF list, more
    <3> QED BY <3>1, <3>2, <3>3
  <2>3. h.symbol \in Assets
    BY RequestsAreBound
  <2>4. more = Append(list, h.symbol)
    <3>1. Append(list, h.symbol) \in Seq(Assets) /\ Len(Append(list, h.symbol)) = Len(request) + 1
      BY <2>2, <2>3
    <3>2. \A i \in 1..(Len(request) + 1) : Append(list, h.symbol)[i] = more[i]
      BY <2>1, <2>2
    <3>3. more = [i \in 1..(Len(request) + 1) |-> more[i]]
      BY <2>2
    <3>4. Append(list, h.symbol) = [i \in 1..(Len(request) + 1) |-> Append(list, h.symbol)[i]]
      BY <2>2, <3>1
    <3> HIDE DEF more, list
    <3> QED BY <3>2, <3>3, <3>4
  <2> HIDE DEF list, more
  <2>5. /\ Positions(P, Len(list)) /\ Positions(Q, Len(list) + 1)
        /\ Cardinality(P) <= Cardinality(Q)
        /\ \A k \in 1..Cardinality(P) :
              Kth(Q, k) = Kth(P, k) /\ Append(list, h.symbol)[Kth(Q, k)] = list[Kth(P, k)]
    <3>1. list \in Seq(Assets) /\ h.symbol \in Assets /\ more = Append(list, h.symbol)
      BY <2>2, <2>3, <2>4
    <3>2. Extends(list, Append(list, h.symbol), P, FirstIn(Append(list, h.symbol), Simulable))
      BY <3>1, FirstInAppended
    <3> QED BY <3>1, <3>2 DEF Extends
  <2>6. /\ Survivors(Distinct(list), plan, Histories) = At(list, P)
        /\ Survivors(Distinct(more), plan, Histories) = At(more, Q)
    BY <2>2, SurvivorsAre
  <2>7. /\ Results(request) = [k \in DOMAIN At(list, P) |-> one(At(list, P)[k])]
        /\ Results(request') = [k \in DOMAIN At(more, Q) |-> one(At(more, Q)[k])]
    BY <2>6 DEF Results, Compare, list, more
  <2> HIDE DEF P, Q
  <2>8. /\ DOMAIN At(list, P) = 1..Cardinality(P) /\ DOMAIN At(more, Q) = 1..Cardinality(Q)
        /\ Cardinality(P) \in Nat /\ Cardinality(Q) \in Nat
        /\ \A k \in 1..Cardinality(P) : At(list, P)[k] = list[Kth(P, k)]
        /\ \A k \in 1..Cardinality(Q) : At(more, Q)[k] = more[Kth(Q, k)]
    BY <2>5, RankIs DEF At
  <2>9. \A k \in 1..Cardinality(P) : k \in 1..Cardinality(Q) /\ At(more, Q)[k] = At(list, P)[k]
    <3>1. \A k \in 1..Cardinality(P) : k \in 1..Cardinality(Q)
      BY <2>5, <2>8
    <3> QED BY <2>4, <2>5, <2>8, <3>1
  <2>10. IsPrefix(Results(request), Results(request'))
    <3> DEFINE a == Results(request)
               b == Results(request')
               m == Cardinality(P)
    <3>1. /\ DOMAIN a = 1..m /\ DOMAIN b = 1..Cardinality(Q)
          /\ \A k \in 1..m : b[k] = a[k]
      BY <2>7, <2>8, <2>9
    <3>2. a = [k \in 1..m |-> a[k]] /\ b = [k \in 1..Cardinality(Q) |-> b[k]]
      BY <2>7, <2>8
    <3> HIDE DEF a, b
    <3>3. /\ Len(a) = m /\ Len(b) = Cardinality(Q)
          /\ m \in Nat /\ m <= Cardinality(Q)
      BY <2>5, <2>8, <3>1
    <3> HIDE DEF m
    <3>4. SubSeq(a, 1, m) = [k \in 1..m |-> a[k]] /\ SubSeq(b, 1, m) = [k \in 1..m |-> b[k]]
      BY <3>3
    <3>5. SubSeq(a, 1, m) = SubSeq(b, 1, m)
      BY <3>1, <3>4
    <3> QED BY <3>3, <3>5 DEF IsPrefix, a, b
  <2>11. Fails(Distinct(more), plan, Histories) <=> At(more, Q) = <<>> /\ OneIsOut(more)
    BY <2>2, <2>6, FailsIff
  <2>12. \A b \in BOOLEAN : ((IF b THEN 500 ELSE 200) = 500) <=> b
    OBVIOUS
  <2>13. CompareStatus(more, plan, Histories) = 500 <=> Results(request') = <<>> /\ OneIsOut(more)
    <3>1. Results(request') = <<>> <=> At(more, Q) = <<>>
      <4> DEFINE b == Results(request')
                 t == At(more, Q)
                 C == Cardinality(Q)
      <4>1. DOMAIN b = 1..C /\ DOMAIN t = 1..C
        BY <2>7, <2>8
      <4>2. b = [k \in 1..C |-> b[k]] /\ t = [k \in 1..C |-> t[k]]
        BY <2>7, <2>8 DEF At
      <4> HIDE DEF b, t, C
      <4>3. b = <<>> <=> 1..C = {}
        BY <4>1, <4>2
      <4>4. t = <<>> <=> 1..C = {}
        BY <4>1, <4>2
      <4> QED BY <4>3, <4>4 DEF b, t
    <3>2. CompareStatus(more, plan, Histories) = 500 <=> Fails(Distinct(more), plan, Histories)
      BY DEF CompareStatus
    <3> QED BY <2>11, <3>1, <3>2
  <2>14. HoldingsStatus(request', plan, Histories) = 500
            <=> SimulateHoldings(request', plan, Histories).combined = <<>> /\ OneIsOut(more)
    <3>1. SymbolsOf(Merged(request')) = Distinct(more)
      BY <2>1, MergedIs DEF more
    <3>2. HoldingsStatus(request', plan, Histories) = 500 <=> Fails(Distinct(more), plan, Histories)
      BY <3>1 DEF HoldingsStatus
    <3>3. Len(request') <= MaxEntries
      <4>1. Len(request) < MaxEntries /\ Len(request') = Len(request) + 1 /\ MaxEntries \in Nat
        BY <1>1, <2>1, RequestsAreBound DEF AddHolding
      <4> QED BY <2>2, <4>1
    <3> DEFINE c == Combined(plan, SimulatedAssets(request'))
    <3>4. SimulateHoldings(request', plan, Histories).combined =
             IF SimulatedHoldings(request') = <<>> THEN <<>> ELSE <<c>>
      <4> DEFINE sim == SimulateHoldings(request', plan, Histories)
                 A == SimulatedAssets(request')
                 X == SimulatedSymbols(request')
                 S == Skipped(Distinct(SymbolsOf(request')), plan, Histories)
                 e == IF SimulatedHoldings(request') = <<>> THEN <<>> ELSE <<c>>
      <4>1. sim = [assets |-> A, symbols |-> X, skipped |-> S, combined |-> e]
        BY <1>1, <2>1, <3>3, SimulationIs
      <4> HIDE DEF sim, A, X, S, e
      <4>2. sim.combined = e
        BY <4>1
      <4> QED BY <4>2 DEF sim, e
    <3> HIDE DEF c
    <3>5. SimulatedSymbols(request') = At(more, Q)
      BY DEF SimulatedSymbols, more, Q
    <3>6. SimulatedHoldings(request') = <<>> <=> At(more, Q) = <<>>
      <4> DEFINE t == At(more, Q)
                 g == SimulatedHoldings(request')
                 C == Cardinality(Q)
      <4>1. DOMAIN t = 1..C /\ t = [k \in 1..C |-> t[k]]
        BY <2>8 DEF At
      <4>2. DOMAIN g = 1..C /\ g = [k \in 1..C |-> g[k]]
        BY <2>8, <3>5 DEF SimulatedHoldings, Grouped
      <4> HIDE DEF t, g, C
      <4>3. g = <<>> <=> 1..C = {}
        BY <4>2
      <4>4. t = <<>> <=> 1..C = {}
        BY <4>1
      <4> QED BY <4>3, <4>4 DEF g, t
    <3>7. SimulateHoldings(request', plan, Histories).combined = <<>> <=> At(more, Q) = <<>>
      <4>1. <<c>> # <<>>
        OBVIOUS
      <4> QED BY <3>4, <3>6, <4>1, Zenon
    <3> QED BY <2>11, <3>2, <3>7, Zenon
  <2> QED BY <2>10, <2>13, <2>14 DEF more
<1>2. DcaIInv /\ [DcaNext]_vars => [Step]_vars
  BY <1>1 DEF DcaNext
<1>3. DcaSpec => []DcaIInv
  BY DcaTyping
<1> QED BY <1>2, <1>3, PTL DEF DcaSpec, OneAssetNeverSpoilsAnother

-----------------------------------------------------------------------------
(* A request without the symbols it skips. *)

SimulableAt(r) == {i \in DOMAIN r : r[i].symbol \in Simulable}

Without(r) == At(r, SimulableAt(r))

\* A symbol is skipped when it cannot be simulated.
LEMMA SkippedAre ==
  ASSUME NEW r \in Seq(Entries)
  PROVE  At(r, {i \in DOMAIN r :
                  r[i].symbol \notin ToSet(Skipped(Distinct(SymbolsOf(r)), plan, Histories))})
           = Without(r)
<1> DEFINE D == Distinct(SymbolsOf(r))
           E == {s \in Assets : ErrorOf(plan, Histories[s]) # "none"}
           I == {i \in DOMAIN D : ErrorOf(plan, Histories[D[i]]) # "none"}
           S == Skipped(D, plan, Histories)
<1>1. SymbolsOf(r) \in Seq(Assets)
  BY HoldingsAre
<1>2. D \in Seq(Assets) /\ ToSet(D) = ToSet(SymbolsOf(r))
  BY <1>1, DistinctHolds
<1>3. \A j \in DOMAIN r : /\ j \in DOMAIN SymbolsOf(r) /\ SymbolsOf(r)[j] = r[j].symbol
                          /\ r[j].symbol \in Assets
  BY HoldingsAre
<1> HIDE DEF D
<1>4. I = {i \in DOMAIN D : D[i] \in E}
  BY <1>2
<1>5. Positions(I, Len(D))
  BY <1>2, <1>4, FirstPositionsOf
<1>6. S = At(D, I)
  BY DEF Skipped
<1>7. ToSet(S) = {D[i] : i \in I}
  <2> HIDE DEF I, S
  <2> QED BY <1>5, <1>6, AtHolds
<1>8. ASSUME NEW j \in DOMAIN r
      PROVE  r[j].symbol \notin ToSet(S) <=> r[j].symbol \in Simulable
  <2>1. PICK i \in DOMAIN D : D[i] = r[j].symbol
    <3>1. r[j].symbol \in ToSet(D)
      BY <1>2, <1>3 DEF ToSet
    <3> QED BY <3>1 DEF ToSet
  <2>2. r[j].symbol \in ToSet(S) <=> ErrorOf(plan, Histories[r[j].symbol]) # "none"
    <3> HIDE DEF S
    <3> QED BY <1>7, <2>1
  <2> HIDE DEF S
  <2> QED BY <1>3, <2>2 DEF Simulable
<1>9. {i \in DOMAIN r : r[i].symbol \notin ToSet(S)} = SimulableAt(r)
  <2> HIDE DEF S
  <2> QED BY <1>8 DEF SimulableAt
<1> QED BY <1>9 DEF Without, S, D

\* What is left is a request, of symbols that can all be simulated.
LEMMA WithoutIs ==
  ASSUME NEW r \in Seq(Entries)
  PROVE  /\ Positions(SimulableAt(r), Len(r))
         /\ Without(r) \in Seq(Entries)
         /\ Len(Without(r)) = Cardinality(SimulableAt(r)) /\ Len(Without(r)) <= Len(r)
         /\ DOMAIN Without(r) = 1..Cardinality(SimulableAt(r))
         /\ \A k \in 1..Cardinality(SimulableAt(r)) :
               /\ Kth(SimulableAt(r), k) \in SimulableAt(r)
               /\ Without(r)[k] = r[Kth(SimulableAt(r), k)]
               /\ Without(r)[k].symbol \in Simulable
<1> DEFINE P == SimulableAt(r)
<1>1. DOMAIN r = 1..Len(r) /\ Len(r) \in Nat
  OBVIOUS
<1>2. P \subseteq DOMAIN r /\ \A i \in P : i \in DOMAIN r /\ r[i] \in Entries /\ r[i].symbol \in Simulable
  BY DEF SimulableAt
<1>3. Positions(P, Len(r))
  BY <1>1, <1>2 DEF Positions
<1> HIDE DEF P
<1>4. Without(r) = At(r, P)
  BY DEF Without, P
<1>5. Without(r) \in Seq(Entries) /\ Len(Without(r)) = Cardinality(P)
  BY <1>2, <1>3, <1>4, AtTyped
<1>6. /\ DOMAIN Without(r) = 1..Cardinality(P)
      /\ \A k \in 1..Cardinality(P) : Kth(P, k) \in P /\ Without(r)[k] = r[Kth(P, k)]
  BY <1>3, <1>4, AtIs
<1>7. Cardinality(P) <= Len(r)
  <2>1. IsFiniteSet(1..Len(r)) /\ Cardinality(1..Len(r)) = Len(r)
    BY <1>1, FS_Interval
  <2>2. P \in SUBSET (1..Len(r))
    BY <1>1, <1>2
  <2>3. Cardinality(P) <= Cardinality(1..Len(r))
    BY <2>1, <2>2, FS_Subset
  <2> QED BY <2>1, <2>3
<1>8. \A k \in 1..Cardinality(P) : Without(r)[k].symbol \in Simulable
  BY <1>2, <1>6
<1> QED BY <1>3, <1>5, <1>6, <1>7, <1>8 DEF P

\* It has the symbols that the request had of them, in their order, ...
LEMMA WithoutKeepsSymbols ==
  ASSUME NEW r \in Seq(Entries)
  PROVE  /\ SimulatedSymbols(Without(r)) = SimulatedSymbols(r)
         /\ Skipped(Distinct(SymbolsOf(Without(r))), plan, Histories) = <<>>
<1> DEFINE P == SimulableAt(r)
           list == SymbolsOf(r)
           rest == SymbolsOf(Without(r))
           D == Distinct(rest)
<1>1. /\ list \in Seq(Assets) /\ DOMAIN list = DOMAIN r
      /\ \A i \in DOMAIN r : list[i] = r[i].symbol
  BY HoldingsAre
<1>2. /\ Positions(P, Len(r)) /\ Without(r) \in Seq(Entries)
      /\ DOMAIN Without(r) = 1..Cardinality(P)
      /\ \A k \in 1..Cardinality(P) :
            /\ Kth(P, k) \in P /\ Without(r)[k] = r[Kth(P, k)] /\ Without(r)[k].symbol \in Simulable
  BY WithoutIs
<1>3. P \subseteq DOMAIN r /\ P = {i \in DOMAIN list : list[i] \in Simulable}
  BY <1>1 DEF SimulableAt
<1> HIDE DEF P, list
<1>4. \A k \in 1..Cardinality(P) : Without(r)[k].symbol = list[Kth(P, k)]
  BY <1>1, <1>2, <1>3
<1>5. rest = [k \in 1..Cardinality(P) |-> Without(r)[k].symbol]
  BY <1>2 DEF SymbolsOf
<1>6. rest = At(list, P)
  BY <1>4, <1>5 DEF At
<1>7. rest \in Seq(Assets)
  BY <1>2, HoldingsAre
<1>8. D = At(list, FirstIn(list, Simulable))
  <2> HIDE DEF rest
  <2> QED BY <1>1, <1>3, <1>6, DistinctOfFiltered
<1>9. D = SimulatedSymbols(r)
  BY <1>8 DEF SimulatedSymbols, list
<1>10. D \in Seq(Assets) /\ \A k \in DOMAIN D : D[k] \in Simulable
  BY <1>9, SimulatedSymbolsAre
<1>11. SimulatedSymbols(Without(r)) = At(D, {i \in DOMAIN D : D[i] \in Simulable})
  BY <1>2, SimulatedSymbolsAre
<1> HIDE DEF D
<1>12. {i \in DOMAIN D : D[i] \in Simulable} = DOMAIN D
  BY <1>10
<1>13. At(D, DOMAIN D) = D
  BY <1>10, AtAll
<1>14. {i \in DOMAIN D : ErrorOf(plan, Histories[D[i]]) # "none"} = {}
  BY <1>10 DEF Simulable
<1>15. Skipped(D, plan, Histories) = <<>>
  <2>1. Skipped(D, plan, Histories) = At(D, {})
    BY <1>14 DEF Skipped
  <2>2. Cardinality({}) = 0
    BY FS_EmptySet
  <2> QED BY <2>1, <2>2 DEF At
<1> QED BY <1>9, <1>11, <1>12, <1>13, <1>15 DEF D

\* ... and each of them weighs what it did.
LEMMA WithoutKeepsWeights ==
  ASSUME NEW r \in Seq(Entries), NEW s \in Simulable
  PROVE  SymbolWeight(Without(r), s) = SymbolWeight(r, s)
<1> DEFINE P == SimulableAt(r)
           S == {k \in DOMAIN Without(r) : Without(r)[k].symbol = s}
           T == {j \in DOMAIN r : r[j].symbol = s}
           f == Weights(Without(r))
           g == Weights(r)
           new == [k \in S |-> Kth(P, k)]
<1>1. /\ Positions(P, Len(r)) /\ Without(r) \in Seq(Entries)
      /\ DOMAIN Without(r) = 1..Cardinality(P)
      /\ \A k \in 1..Cardinality(P) : Kth(P, k) \in P /\ Without(r)[k] = r[Kth(P, k)]
  BY WithoutIs
<1>2. IsFiniteSet(S) /\ \A k \in S : f[k] \in Nat /\ f[k] = Without(r)[k].weight
  <2>1. IsFiniteSet(S)
    <3>1. S = ListedAt(Without(r), {s})
      BY DEF ListedAt
    <3> QED BY <1>1, <3>1, WeightsAre
  <2>2. \A k \in DOMAIN Without(r) : f[k] \in Nat
    BY <1>1, WeightsAre
  <2>3. \A k \in DOMAIN Without(r) : f[k] = Without(r)[k].weight
    BY <1>1, HoldingsAre
  <2> QED BY <2>1, <2>2, <2>3
<1>3. IsFiniteSet(T)
  <2>1. T = ListedAt(r, {s})
    BY DEF ListedAt
  <2> QED BY <2>1, WeightsAre
<1>4. \A j \in DOMAIN r : g[j] = r[j].weight
  BY HoldingsAre
<1>5. P \subseteq DOMAIN r /\ T \subseteq P
  BY DEF SimulableAt
<1>6. /\ \A k \in 1..Cardinality(P) : Rank(P, Kth(P, k)) = k
      /\ \A i \in P : Kth(P, Rank(P, i)) = i /\ Rank(P, i) \in 1..Cardinality(P)
  <2> HIDE DEF P
  <2>1. \A k \in 1..Cardinality(P) : Rank(P, Kth(P, k)) = k
    BY <1>1, KthIs, Zenon
  <2>2. \A i \in P : Kth(P, Rank(P, i)) = i
    BY <1>1, KthIs, Zenon
  <2>3. \A i \in P : Rank(P, i) \in 1..Cardinality(P)
    BY <1>1, RankIs, Zenon
  <2> QED BY <2>1, <2>2, <2>3
<1>7. \A k \in S : k \in 1..Cardinality(P) /\ new[k] = Kth(P, k)
  BY <1>1
<1>8. \A k \in S : new[k] \in T /\ g[new[k]] = f[k]
  <2> HIDE DEF P, f, g, new
  <2> QED BY <1>1, <1>2, <1>4, <1>5, <1>7
<1>9. \A k, l \in S : new[k] = new[l] => k = l
  <2> HIDE DEF P, new, S
  <2> QED BY <1>6, <1>7
<1>10. ASSUME NEW t \in T PROVE \E k \in S : new[k] = t
  <2> DEFINE k == Rank(P, t)
  <2>1. t \in P /\ k \in 1..Cardinality(P) /\ Kth(P, k) = t
    BY <1>5, <1>6
  <2> HIDE DEF P, k, new
  <2>2. k \in S
    BY <1>1, <2>1
  <2> QED BY <1>7, <2>1, <2>2
<1> HIDE DEF P, S, T, f, g, new
<1>11. SumFunctionOnSet(f, S) = SumFunctionOnSet(g, T)
  <2>1. \A k \in S : f[k] \in Int
    BY <1>2
  <2>2. \A k \in S : new[k] \in T
    BY <1>8
  <2>3. \A k \in S : g[new[k]] = f[k]
    BY <1>8
  <2> QED BY <1>2, <1>3, <1>9, <1>10, <2>1, <2>2, <2>3, SumRenamed
<1> QED BY <1>11 DEF SymbolWeight, S, T, f, g

\* So it has the same holdings to simulate.
LEMMA WithoutKeepsHoldings ==
  ASSUME NEW r \in Seq(Entries)
  PROVE  SimulatedHoldings(Without(r)) = SimulatedHoldings(r)
<1> DEFINE X == SimulatedSymbols(r)
<1>1. SimulatedSymbols(Without(r)) = X
  BY WithoutKeepsSymbols
<1>2. \A k \in DOMAIN X : X[k] \in Simulable
  BY SimulatedSymbolsAre
<1>3. \A k \in DOMAIN X : SymbolWeight(Without(r), X[k]) = SymbolWeight(r, X[k])
  <2> HIDE DEF X
  <2> QED BY <1>2, WithoutKeepsWeights
<1> HIDE DEF X
<1>4. Grouped(Without(r), X) = Grouped(r, X)
  BY <1>3 DEF Grouped
<1> QED BY <1>1, <1>4 DEF SimulatedHoldings, X

\* Leaving the skipped assets out of a request gives the same simulation, to the last unit:
\* SimulateHoldings shares the whole plan among the survivors by their own weights.
THEOREM SkippedWeightSharedOut == DcaSpec => []SkippedWeightIsSharedOut
<1>1. ASSUME DcaIInv PROVE SkippedWeightIsSharedOut
  <2> DEFINE r == request
             r2 == Without(request)
             sim(q) == SimulateHoldings(q, plan, Histories)
  <2>1. r \in Seq(Entries) /\ Len(r) <= MaxEntries /\ Len(r) \in Nat /\ MaxEntries \in Nat
    BY <1>1, RequestsAreBound DEF DcaIInv
  <2>2. r2 \in Seq(Entries) /\ Len(r2) <= MaxEntries
    <3>1. r2 \in Seq(Entries) /\ Len(r2) <= Len(r)
      BY <2>1, WithoutIs
    <3>2. Len(r2) \in Nat
      BY <3>1
    <3> HIDE DEF r, r2
    <3> QED BY <2>1, <3>1, <3>2
  <2>3. sim(r) = [assets   |-> SimulatedAssets(r),
                  symbols  |-> SimulatedSymbols(r),
                  skipped  |-> Skipped(Distinct(SymbolsOf(r)), plan, Histories),
                  combined |-> IF SimulatedHoldings(r) = <<>> THEN <<>>
                               ELSE <<Combined(plan, SimulatedAssets(r))>>]
    BY <1>1, <2>1, SimulationIs
  <2>4. sim(r2) = [assets   |-> SimulatedAssets(r2),
                   symbols  |-> SimulatedSymbols(r2),
                   skipped  |-> Skipped(Distinct(SymbolsOf(r2)), plan, Histories),
                   combined |-> IF SimulatedHoldings(r2) = <<>> THEN <<>>
                                ELSE <<Combined(plan, SimulatedAssets(r2))>>]
    <3> HIDE DEF r2
    <3> QED BY <1>1, <2>2, SimulationIs
  <2>5. Kept(sim(r).skipped) = r2
    <3>1. sim(r).skipped = Skipped(Distinct(SymbolsOf(r)), plan, Histories)
      <4> HIDE DEF sim
      <4> QED BY <2>3
    <3> HIDE DEF sim
    <3> QED BY <2>1, <3>1, SkippedAre DEF Kept
  <2>6. SimulatedHoldings(r2) = SimulatedHoldings(r)
    BY <2>1, WithoutKeepsHoldings
  <2>7. SimulatedSymbols(r2) = SimulatedSymbols(r)
        /\ Skipped(Distinct(SymbolsOf(r2)), plan, Histories) = <<>>
    BY <2>1, WithoutKeepsSymbols
  <2>8. SimulatedAssets(r2) = SimulatedAssets(r)
    BY <2>6 DEF SimulatedAssets
  <2> HIDE DEF r2, sim, r
  <2>9. SameSimulation(sim(r2), sim(r))
    BY <2>3, <2>4, <2>6, <2>7, <2>8 DEF SameSimulation
  <2> QED BY <2>5, <2>9 DEF SkippedWeightIsSharedOut, sim, r
<1> QED BY <1>1, DcaTyping, PTL

-----------------------------------------------------------------------------
(* The points of an asset. *)

\* Its purchase dates up to a day.
DatesUpTo(s, d) == {e \in ResolveDates(plan, Histories[s]) : e <= d}

LEMMA DatesUpToAre ==
  ASSUME DcaIInv, NEW s \in Simulable, NEW d \in Int
  PROVE  /\ IsFiniteSet(DatesUpTo(s, d)) /\ Cardinality(DatesUpTo(s, d)) \in Nat
         /\ \A e \in Int : d <= e => Cardinality(DatesUpTo(s, d)) <= Cardinality(DatesUpTo(s, e))
<1> DEFINE R == ResolveDates(plan, Histories[s])
<1>1. IsFiniteSet(R) /\ R \subseteq Int
  BY SimulableIs
<1> HIDE DEF R
<1>2. \A e \in Int : IsFiniteSet(DatesUpTo(s, e)) /\ Cardinality(DatesUpTo(s, e)) \in Nat
  <2> TAKE e \in Int
  <2>1. DatesUpTo(s, e) \in SUBSET R
    BY DEF DatesUpTo, R
  <2>2. IsFiniteSet(DatesUpTo(s, e))
    BY <1>1, <2>1, FS_Subset
  <2> QED BY <2>2, FS_CardinalityType
<1>3. ASSUME NEW e \in Int, d <= e PROVE Cardinality(DatesUpTo(s, d)) <= Cardinality(DatesUpTo(s, e))
  <2>1. \A x \in R : x <= d => x <= e
    BY <1>1, <1>3
  <2>2. DatesUpTo(s, d) \in SUBSET DatesUpTo(s, e)
    BY <2>1 DEF DatesUpTo, R
  <2> QED BY <1>2, <2>2, FS_Subset
<1> QED BY <1>2, <1>3

\* A point agrees with the totals of the asset.
AgreesAt(a, d) == a.points[d].invested = a.invested /\ a.points[d].value = a.final

\* An asset has points for some purchase dates and for a last day.
HasPointsFor(a, R, last) ==
  /\ DOMAIN a.points = R \union {last}
  /\ last \in Int /\ \A d \in DOMAIN a.points : d <= last

\* What a simulated asset has a point for, and its last one.
LEMMA PointsAre ==
  ASSUME DcaIInv, NEW s \in Simulable, NEW B \in Nat,
         NEW a, a = Execute(plan, Histories[s], B),
         NEW R, R = ResolveDates(plan, Histories[s]),
         NEW last, last = Max(DOMAIN Histories[s])
  PROVE  /\ HasPointsFor(a, R, last)
         /\ IsFiniteSet(DOMAIN a.points) /\ DOMAIN a.points \subseteq Int
         /\ \A d \in DOMAIN a.points :
               /\ a.points[d].invested = B * Cardinality(DatesUpTo(s, d))
               /\ a.points[d].bought = IF d \in R THEN B \div Histories[s][d] ELSE 0
         /\ AgreesAt(a, last)
<1> DEFINE prices == Histories[s]
           units(d) == SumFunctionOnSet(UnitsBought(prices, R, B), {e \in R : e <= d})
<1>1. /\ DOMAIN prices # {} /\ IsFiniteSet(DOMAIN prices) /\ DOMAIN prices \subseteq Int
      /\ R \subseteq DOMAIN prices /\ IsFiniteSet(R)
  BY SimulableIs DEF prices
<1> HIDE DEF prices
<1>2. last \in DOMAIN prices /\ last \in Int /\ \A d \in DOMAIN prices : d <= last
  BY <1>1, MaxIs DEF prices
<1>3. IsFiniteSet(R \union {last})
  BY <1>1, FS_AddElement
<1>4. a.points = [d \in R \union {last} |->
                    [bought   |-> IF d \in R THEN B \div prices[d] ELSE 0,
                     units    |-> units(d),
                     invested |-> B * Cardinality({e \in R : e <= d}),
                     value    |-> units(d) * prices[d]]]
  BY DEF Execute, Points, prices
<1>5. /\ a.invested = B * Cardinality(R)
      /\ a.final = SumFunctionOnSet(UnitsBought(prices, R, B), R) * prices[last]
  BY DEF Execute, prices
<1>6. \A d : {e \in R : e <= d} = DatesUpTo(s, d)
  BY DEF DatesUpTo, prices
<1>7. {e \in R : e <= last} = R
  BY <1>1, <1>2
<1>8. \A d \in R \union {last} :
         /\ a.points[d].invested = B * Cardinality({e \in R : e <= d})
         /\ a.points[d].bought = IF d \in R THEN B \div prices[d] ELSE 0
         /\ a.points[d].value = units(d) * prices[d]
  <2> HIDE DEF units
  <2> QED BY <1>4
<1>9. DOMAIN a.points = R \union {last}
  BY <1>4
<1>10. AgreesAt(a, last)
  <2>1. last \in R \union {last}
    OBVIOUS
  <2>2. units(last) = SumFunctionOnSet(UnitsBought(prices, R, B), R)
    BY <1>7
  <2> HIDE DEF units, prices
  <2>3. a.points[last].invested = B * Cardinality(R)
    BY <1>7, <1>8, <2>1
  <2>4. a.points[last].value = units(last) * prices[last]
    BY <1>8, <2>1
  <2> QED BY <1>5, <2>2, <2>3, <2>4 DEF AgreesAt
<1>11. \A d \in R \union {last} : d \in Int /\ d <= last
  BY <1>1, <1>2
<1>12. \A d \in R \union {last} :
         /\ a.points[d].invested = B * Cardinality(DatesUpTo(s, d))
         /\ a.points[d].bought = IF d \in R THEN B \div prices[d] ELSE 0
  BY <1>6, <1>8
<1>13. R \union {last} \subseteq Int
  BY <1>11
<1>14. HasPointsFor(a, R, last)
  BY <1>2, <1>9, <1>11 DEF HasPointsFor
<1> HIDE DEF units
<1> QED BY <1>3, <1>9, <1>10, <1>12, <1>13, <1>14 DEF prices

\* Its latest point says what it had invested by then, and after its last what it ends on.
LEMMA LatestPointIs ==
  ASSUME DcaIInv, NEW s \in Simulable, NEW B \in Nat,
         NEW a, a = Execute(plan, Histories[s], B), NEW d \in Int
  PROVE  /\ LatestPoint(a.points, d).invested = B * Cardinality(DatesUpTo(s, d))
         /\ (\A e \in DOMAIN a.points : e <= d) =>
               /\ LatestPoint(a.points, d).invested = a.invested
               /\ LatestPoint(a.points, d).value = a.final
<1> DEFINE R == ResolveDates(plan, Histories[s])
           last == Max(DOMAIN Histories[s])
           T == DOMAIN a.points
           known == {e \in T : e <= d}
<1>1. /\ T = R \union {last} /\ IsFiniteSet(T) /\ T \subseteq Int
      /\ last \in Int /\ \A e \in T : e <= last
      /\ \A e \in T : a.points[e].invested = B * Cardinality(DatesUpTo(s, e))
      /\ AgreesAt(a, last)
  <2>1. R = ResolveDates(plan, Histories[s]) /\ last = Max(DOMAIN Histories[s])
    OBVIOUS
  <2> HIDE DEF R, last, known
  <2>2. HasPointsFor(a, R, last)
    BY <2>1, PointsAre
  <2>3. IsFiniteSet(DOMAIN a.points) /\ DOMAIN a.points \subseteq Int
    BY <2>1, PointsAre
  <2>4. \A e \in DOMAIN a.points : a.points[e].invested = B * Cardinality(DatesUpTo(s, e))
    BY <2>1, PointsAre
  <2>5. AgreesAt(a, last)
    BY <2>1, PointsAre
  <2>6. DOMAIN a.points = R \union {last} /\ last \in Int /\ \A e \in DOMAIN a.points : e <= last
    BY <2>2 DEF HasPointsFor
  <2> QED BY <2>3, <2>4, <2>5, <2>6
<1> HIDE DEF R, last
<1>2. LatestPoint(a.points, d) = IF known = {} THEN [invested |-> 0, value |-> 0] ELSE a.points[Max(known)]
  BY DEF LatestPoint
<1> HIDE DEF T
<1>3. IsFiniteSet(known) /\ known \subseteq Int /\ known \subseteq T
  <2>1. known \in SUBSET T
    OBVIOUS
  <2>2. IsFiniteSet(known)
    <3> HIDE DEF known
    <3> QED BY <1>1, <2>1, FS_Subset
  <2> QED BY <1>1, <2>1, <2>2
<1>4. CASE known = {}
  <2>1. LatestPoint(a.points, d).invested = 0
    BY <1>2, <1>4
  <2>2. DatesUpTo(s, d) = {}
    BY <1>1, <1>4 DEF DatesUpTo, R
  <2>3. Cardinality(DatesUpTo(s, d)) = 0
    BY <2>2, FS_EmptySet
  <2>4. ~ \A e \in T : e <= d
    BY <1>1, <1>4
  <2> QED BY <2>1, <2>3, <2>4 DEF T
<1>5. CASE known # {}
  <2> DEFINE m == Max(known)
  <2>1. m \in known /\ m \in Int /\ \A x \in known : x <= m
    <3> HIDE DEF known
    <3> QED BY <1>3, <1>5, MaxIs
  <2>2. LatestPoint(a.points, d) = a.points[m]
    BY <1>2, <1>5
  <2> HIDE DEF m
  <2>3. m \in T /\ m <= d
    BY <2>1
  <2>4. DatesUpTo(s, m) = DatesUpTo(s, d)
    <3>1. ASSUME NEW x \in R PROVE x <= m <=> x <= d
      <4>1. x \in T /\ x \in Int
        BY <1>1
      <4>2. x <= d => x <= m
        BY <2>1, <4>1
      <4>3. x <= m => x <= d
        BY <2>1, <2>3, <4>1
      <4> QED BY <4>2, <4>3
    <3> QED BY <3>1 DEF DatesUpTo, R
  <2>5. LatestPoint(a.points, d).invested = B * Cardinality(DatesUpTo(s, d))
    BY <1>1, <2>2, <2>3, <2>4
  <2>6. ASSUME \A e \in T : e <= d
        PROVE  /\ LatestPoint(a.points, d).invested = a.invested
               /\ LatestPoint(a.points, d).value = a.final
    <3>1. last \in T
      BY <1>1
    <3>2. last <= m
      BY <2>1, <2>6, <3>1
    <3>3. m = last
      BY <1>1, <2>1, <2>3, <3>2
    <3> QED BY <1>1, <2>2, <3>3 DEF AgreesAt
  <2> QED BY <2>5, <2>6 DEF T
<1> QED BY <1>4, <1>5

-----------------------------------------------------------------------------
(* The assets of a simulation. *)

\* What is put into each asset at a time.
Amounts(r) ==
  [i \in DOMAIN SimulatedSymbols(r) |->
      Share(SymbolWeight(r, SimulatedSymbols(r)[i]), TotalWeight(SimulatedHoldings(r)))]

\* Assets A of the symbols X share the plan, B[i] for the i-th, enough to buy units of it
\* on any of its days.
ShareThePlan(A, X, B) ==
  /\ X \in Seq(Assets) /\ X # <<>>
  /\ DOMAIN A = DOMAIN X
  /\ \A i \in DOMAIN X :
        /\ X[i] \in Simulable
        /\ B[i] \in Nat
        /\ A[i] = Execute(plan, Histories[X[i]], B[i])
        /\ \A d \in DOMAIN Histories[X[i]] : B[i] \div Histories[X[i]][d] > 0
  /\ SumFunctionOnSet(B, DOMAIN X) = plan.amount

LEMMA ShareBuys ==
  ASSUME DcaIInv, NEW s \in Simulable, NEW w \in Nat \ {0}, NEW total \in Totals,
         NEW d \in DOMAIN Histories[s]
  PROVE  Share(w, total) \in Nat /\ Share(w, total) \div Histories[s][d] > 0
<1> DEFINE p == Histories[s][d]
<1>1. p \in Nat \ {0}
  BY SimulableIs
<1>2. total \in Nat \ {0} /\ plan.amount \in Nat \ {0}
  BY TotalsAre, PlanIs
<1>3. /\ Share(w, total) \in Nat
      /\ \E t \in Nat : /\ plan.amount = total * (p * t)
                        /\ Share(w, total) \div p = t * w
  BY ShareIs
<1> HIDE DEF p
<1>4. PICK t \in Nat : plan.amount = total * (p * t) /\ Share(w, total) \div p = t * w
  BY <1>3
<1>5. t # 0
  <2>1. t = 0 => total * (p * t) = 0
    BY <1>1, <1>2
  <2> QED BY <1>2, <1>4, <2>1
<1>6. t * w > 0
  <2>1. t \in Nat \ {0}
    BY <1>5
  <2> QED BY <2>1
<1> QED BY <1>3, <1>4, <1>6 DEF p

\* Shares B of an amount by weights w, K of them together.
SharesOf(B, a, w, K, S) == \A x \in S : w[x] \in Int /\ B[x] \in Int /\ K * B[x] = a * w[x]

\* The shares of the weights make the whole amount.
LEMMA SharesMakeTheWhole ==
  ASSUME NEW S, IsFiniteSet(S), NEW w, NEW B, NEW a \in Int,
         NEW K, K = SumFunctionOnSet(w, S), K \in Nat \ {0},
         SharesOf(B, a, w, K, S)
  PROVE  SumFunctionOnSet(B, S) = a
<1> DEFINE f == [x \in S |-> K * B[x]]
           sum == SumFunctionOnSet(B, S)
<1>1. \A x \in S : B[x] \in Int /\ w[x] \in Int /\ f[x] = K * B[x] /\ f[x] = a * w[x]
  BY DEF SharesOf
<1> HIDE DEF f
<1>2. SumFunctionOnSet(f, S) = K * sum
  BY <1>1, SumScaled
<1>3. SumFunctionOnSet(f, S) = a * SumFunctionOnSet(w, S)
  BY <1>1, SumScaled
<1>4. sum \in Int
  BY <1>1, SumIsInt
<1> HIDE DEF sum
<1>5. K * sum = a * K
  BY <1>2, <1>3
<1>6. K * sum = K * a
  BY <1>5
<1>7. sum = a
  BY <1>4, <1>6
<1> QED BY <1>7 DEF sum

LEMMA AssetsShareThePlan ==
  ASSUME DcaIInv, NEW r \in Seq(Entries), Len(r) <= MaxEntries, SimulatedSymbols(r) # <<>>
  PROVE  ShareThePlan(SimulatedAssets(r), SimulatedSymbols(r), Amounts(r))
<1> DEFINE X == SimulatedSymbols(r)
           H == SimulatedHoldings(r)
           K == TotalWeight(H)
           A == SimulatedAssets(r)
           B == Amounts(r)
           w == Weights(H)
<1>1. X \in Seq(Assets) /\ SomeOf(r, X) /\ \A i \in DOMAIN X : X[i] \in Simulable
  BY SimulatedSymbolsAre
<1>2. DOMAIN H = DOMAIN X
      /\ \A i \in DOMAIN X : H[i].symbol = X[i] /\ H[i].weight = SymbolWeight(r, X[i])
  BY DEF SimulatedHoldings, Grouped
<1>3. K \in Totals
  <2> HIDE DEF X
  <2> QED BY <1>1, TotalIs DEF SimulatedHoldings, X
<1>4. \A i \in DOMAIN X : B[i] = Share(SymbolWeight(r, X[i]), K)
  BY DEF Amounts
<1>5. DOMAIN A = DOMAIN H /\ \A i \in DOMAIN H : A[i] = AssetOf(H[i], K)
  BY DEF SimulatedAssets
<1>6. DOMAIN w = DOMAIN H /\ \A i \in DOMAIN H : w[i] = H[i].weight
  BY DEF Weights
<1>7. K = SumFunctionOnSet(w, DOMAIN X)
  BY <1>2 DEF TotalWeight
<1> HIDE DEF X, H, A, B, K, w
<1>8. ASSUME NEW i \in DOMAIN X PROVE SymbolWeight(r, X[i]) \in Nat \ {0}
  <2>1. PICK j \in DOMAIN r : r[j].symbol = X[i]
    BY <1>1 DEF SomeOf
  <2> QED BY <2>1, SymbolWeightIs
<1>9. ASSUME NEW i \in DOMAIN X
      PROVE  A[i] = Execute(plan, Histories[X[i]], B[i])
  BY <1>2, <1>4, <1>5 DEF AssetOf
<1>10. ASSUME NEW i \in DOMAIN X
       PROVE  /\ B[i] \in Nat /\ K * B[i] = plan.amount * w[i] /\ w[i] \in Nat
              /\ \A d \in DOMAIN Histories[X[i]] : B[i] \div Histories[X[i]][d] > 0
  <2> DEFINE s == X[i]
             v == SymbolWeight(r, X[i])
  <2>1. s \in Simulable /\ v \in Nat \ {0} /\ v \in Nat
    BY <1>1, <1>8
  <2>2. B[i] = Share(v, K) /\ w[i] = v
    BY <1>2, <1>4, <1>6
  <2> HIDE DEF s, v
  <2>3. PICK d \in DOMAIN Histories[s] : TRUE
    BY <2>1, SimulableIs
  <2>4. Share(v, K) \in Nat /\ K * Share(v, K) = plan.amount * v
    BY <1>3, <2>1, <2>3, ShareIs
  <2>5. \A e \in DOMAIN Histories[s] : Share(v, K) \div Histories[s][e] > 0
    BY <1>3, <2>1, ShareBuys
  <2> QED BY <2>1, <2>2, <2>4, <2>5 DEF s
<1>11. IsFiniteSet(DOMAIN X)
  <2>1. DOMAIN X = 1..Len(X) /\ Len(X) \in Nat
    BY <1>1
  <2> QED BY <2>1, FS_Interval
<1>12. SumFunctionOnSet(B, DOMAIN X) = plan.amount
  <2>1. plan.amount \in Int /\ K \in Nat \ {0}
    BY <1>3, PlanIs, TotalsAre
  <2>2. SharesOf(B, plan.amount, w, K, DOMAIN X)
    BY <1>10 DEF SharesOf
  <2> QED BY <1>7, <1>11, <2>1, <2>2, SharesMakeTheWhole
<1>13. X # <<>>
  BY DEF X
<1>14. DOMAIN A = DOMAIN X
  BY <1>2, <1>5
<1>15. ShareThePlan(A, X, B)
  BY <1>1, <1>9, <1>10, <1>12, <1>13, <1>14 DEF ShareThePlan
<1> QED BY <1>15 DEF A, X, B

-----------------------------------------------------------------------------
(* The combined series. *)

\* The days that any of some assets has a point for.
DatesOf(A) == UNION {DOMAIN A[i].points : i \in DOMAIN A}

\* A list of assets that share the plan, and the days it has.
LEMMA SharedDates ==
  ASSUME DcaIInv, NEW A, NEW X, NEW B, ShareThePlan(A, X, B)
  PROVE  /\ IsFiniteSet(DOMAIN X) /\ 1 \in DOMAIN X /\ DOMAIN A = DOMAIN X
         /\ \A i \in DOMAIN X : B[i] \in Nat /\ B[i] \in Int
         /\ IsFiniteSet(DatesOf(A)) /\ DatesOf(A) # {} /\ DatesOf(A) \subseteq Int
         /\ Max(DatesOf(A)) \in DatesOf(A)
         /\ \A d \in DatesOf(A) : d <= Max(DatesOf(A))
<1>1. /\ X \in Seq(Assets) /\ X # <<>> /\ DOMAIN A = DOMAIN X
      /\ \A i \in DOMAIN X : /\ X[i] \in Simulable /\ B[i] \in Nat
                             /\ A[i] = Execute(plan, Histories[X[i]], B[i])
  BY DEF ShareThePlan
<1>2. DOMAIN X = 1..Len(X) /\ Len(X) \in Nat /\ Len(X) # 0
  <2>1. X \in Seq(Assets) /\ X # <<>>
    BY <1>1
  <2> QED BY ONLY <2>1
<1>3. IsFiniteSet(DOMAIN X) /\ 1 \in DOMAIN X
  <2>1. IsFiniteSet(1..Len(X))
    BY <1>2, FS_Interval
  <2> QED BY <1>2, <2>1
<1>4. ASSUME NEW i \in DOMAIN X
      PROVE  /\ IsFiniteSet(DOMAIN A[i].points) /\ DOMAIN A[i].points \subseteq Int
             /\ DOMAIN A[i].points # {}
  <2> DEFINE R == ResolveDates(plan, Histories[X[i]])
             last == Max(DOMAIN Histories[X[i]])
             s == X[i]
             c == B[i]
             a == A[i]
  <2>1. /\ R = ResolveDates(plan, Histories[s]) /\ last = Max(DOMAIN Histories[s])
        /\ s \in Simulable /\ c \in Nat /\ a = Execute(plan, Histories[s], c)
    BY <1>1
  <2> HIDE DEF R, last, s, c, a
  <2>2. HasPointsFor(a, R, last)
    BY <2>1, PointsAre
  <2>3. IsFiniteSet(DOMAIN a.points) /\ DOMAIN a.points \subseteq Int
    BY <2>1, PointsAre
  <2>4. DOMAIN a.points # {}
    BY <2>2 DEF HasPointsFor
  <2> QED BY <2>3, <2>4 DEF a
<1> DEFINE parts == {DOMAIN A[i].points : i \in DOMAIN A}
           f == [i \in DOMAIN X |-> DOMAIN A[i].points]
<1>5. IsFiniteSet(parts) /\ \A p \in parts : IsFiniteSet(p) /\ p \subseteq Int
  <2>1. \A p \in parts : IsFiniteSet(p) /\ p \subseteq Int
    BY <1>1, <1>4
  <2>2. f \in Surjection(DOMAIN X, parts)
    <3>1. f \in [DOMAIN X -> parts] /\ \A p \in parts : \E i \in DOMAIN X : f[i] = p
      BY <1>1
    <3> HIDE DEF parts, f
    <3> QED BY <3>1 DEF Surjection
  <2> HIDE DEF parts, f
  <2>3. IsFiniteSet(parts)
    BY <1>3, <2>2, FS_Surjection
  <2> QED BY <2>1, <2>3
<1>6. DatesOf(A) = UNION parts
  BY DEF DatesOf
<1>7. IsFiniteSet(DatesOf(A))
  <2> HIDE DEF parts
  <2> QED BY <1>5, <1>6, FS_UNION
<1>8. DatesOf(A) \subseteq Int
  <2> HIDE DEF parts
  <2> QED BY <1>5, <1>6
<1>9. DatesOf(A) # {}
  <2>1. DOMAIN A[1].points # {} /\ 1 \in DOMAIN A
    BY <1>1, <1>3, <1>4
  <2> QED BY <2>1 DEF DatesOf
<1>10. /\ Max(DatesOf(A)) \in DatesOf(A)
       /\ \A d \in DatesOf(A) : d <= Max(DatesOf(A))
  BY <1>7, <1>8, <1>9, MaxIs
<1>11. \A i \in DOMAIN X : B[i] \in Nat /\ B[i] \in Int
  BY <1>1
<1> QED BY <1>1, <1>3, <1>7, <1>8, <1>9, <1>10, <1>11

\* What assets have put in by a day, and what they are worth: their latest points, added up.
LatestInvested(A, d) == [i \in DOMAIN A |-> LatestPoint(A[i].points, d).invested]
LatestValues(A, d) == [i \in DOMAIN A |-> LatestPoint(A[i].points, d).value]

BuysAt(A) == {d \in DatesOf(A) : \E i \in DOMAIN A : d \in DOMAIN A[i].points /\ A[i].points[d].bought > 0}

LEMMA CombinedIs ==
  ASSUME NEW A, NEW c, c = Combined(plan, A)
  PROVE  /\ DOMAIN c.points = DatesOf(A)
         /\ c.invested = SumFunctionOnSet([i \in DOMAIN A |-> A[i].invested], DOMAIN A)
         /\ c.final = SumFunctionOnSet([i \in DOMAIN A |-> A[i].final], DOMAIN A)
         /\ c.periods = Cardinality(BuysAt(A))
         /\ \A d \in DatesOf(A) :
               c.points[d] = [invested |-> SumFunctionOnSet(LatestInvested(A, d), DOMAIN A),
                              value    |-> SumFunctionOnSet(LatestValues(A, d), DOMAIN A)]
<1> DEFINE total(f) == SumFunctionOnSet(f, DOMAIN A)
           invested == [i \in DOMAIN A |-> A[i].invested]
           final == [i \in DOMAIN A |-> A[i].final]
<1>1. c = [amount   |-> plan.amount,
           invested |-> total(invested),
           final    |-> total(final),
           periods  |-> Cardinality(BuysAt(A)),
           points   |-> [d \in DatesOf(A) |->
                           [invested |-> total(LatestInvested(A, d)),
                            value    |-> total(LatestValues(A, d))]]]
  BY DEF Combined, DatesOf, BuysAt, LatestInvested, LatestValues
<1> HIDE DEF total, invested, final
<1>2. /\ c.invested = total(invested) /\ c.final = total(final)
      /\ c.periods = Cardinality(BuysAt(A))
      /\ c.points = [d \in DatesOf(A) |->
                       [invested |-> total(LatestInvested(A, d)),
                        value    |-> total(LatestValues(A, d))]]
  BY <1>1
<1> QED BY <1>2 DEF total, invested, final

\* Each of them has put in its share on every one of its dates.
LEMMA LatestInvestedIs ==
  ASSUME DcaIInv, NEW A, NEW X, NEW B, ShareThePlan(A, X, B), NEW d \in Int, NEW i \in DOMAIN X
  PROVE  /\ LatestInvested(A, d)[i] = B[i] * Cardinality(DatesUpTo(X[i], d))
         /\ LatestInvested(A, d)[i] \in Nat
         /\ (\A e \in DOMAIN A[i].points : e <= d) =>
               /\ LatestInvested(A, d)[i] = A[i].invested
               /\ LatestValues(A, d)[i] = A[i].final
<1> DEFINE s == X[i]
           c == B[i]
           a == A[i]
<1>1. /\ i \in DOMAIN A /\ s \in Simulable /\ c \in Nat /\ a = Execute(plan, Histories[s], c)
  BY DEF ShareThePlan
<1>2. LatestInvested(A, d)[i] = LatestPoint(a.points, d).invested
      /\ LatestValues(A, d)[i] = LatestPoint(a.points, d).value
  BY <1>1 DEF LatestInvested, LatestValues
<1> HIDE DEF s, c, a
<1>3. LatestPoint(a.points, d).invested = c * Cardinality(DatesUpTo(s, d))
  BY <1>1, LatestPointIs
<1>4. (\A e \in DOMAIN a.points : e <= d) =>
        /\ LatestPoint(a.points, d).invested = a.invested
        /\ LatestPoint(a.points, d).value = a.final
  BY <1>1, LatestPointIs
<1>5. c * Cardinality(DatesUpTo(s, d)) \in Nat
  <2>1. Cardinality(DatesUpTo(s, d)) \in Nat
    BY <1>1, DatesUpToAre
  <2> QED BY <1>1, <2>1
<1> QED BY <1>2, <1>3, <1>4, <1>5 DEF s, c, a

\* The series ends on the totals.
LEMMA CombinedEnds ==
  ASSUME DcaIInv, NEW A, NEW X, NEW B, ShareThePlan(A, X, B),
         NEW c, c = Combined(plan, A)
  PROVE  c.points[Max(DOMAIN c.points)] = [invested |-> c.invested, value |-> c.final]
<1> DEFINE D == Max(DatesOf(A))
<1>1. /\ DOMAIN A = DOMAIN X /\ D \in DatesOf(A) /\ DatesOf(A) \subseteq Int
      /\ \A d \in DatesOf(A) : d <= D
  BY SharedDates
<1> HIDE DEF D
<1>2. ASSUME NEW i \in DOMAIN A
      PROVE  LatestInvested(A, D)[i] = A[i].invested /\ LatestValues(A, D)[i] = A[i].final
  <2>1. \A e \in DOMAIN A[i].points : e \in DatesOf(A)
    BY DEF DatesOf
  <2>2. \A e \in DOMAIN A[i].points : e <= D
    BY <1>1, <2>1
  <2>3. D \in Int /\ i \in DOMAIN X
    BY <1>1
  <2> QED BY <2>2, <2>3, LatestInvestedIs
<1>3. LatestInvested(A, D) = [i \in DOMAIN A |-> A[i].invested]
  BY <1>2 DEF LatestInvested
<1>4. LatestValues(A, D) = [i \in DOMAIN A |-> A[i].final]
  BY <1>2 DEF LatestValues
<1>5. /\ DOMAIN c.points = DatesOf(A)
      /\ c.invested = SumFunctionOnSet(LatestInvested(A, D), DOMAIN A)
      /\ c.final = SumFunctionOnSet(LatestValues(A, D), DOMAIN A)
  BY <1>3, <1>4, CombinedIs
<1>6. c.points[D] = [invested |-> SumFunctionOnSet(LatestInvested(A, D), DOMAIN A),
                     value    |-> SumFunctionOnSet(LatestValues(A, D), DOMAIN A)]
  BY <1>1, CombinedIs
<1> QED BY <1>5, <1>6 DEF D

\* The money put in never goes down.
LEMMA CombinedGrows ==
  ASSUME DcaIInv, NEW A, NEW X, NEW B, ShareThePlan(A, X, B),
         NEW c, c = Combined(plan, A), NEW d \in DatesOf(A), NEW e \in DatesOf(A), d <= e
  PROVE  c.points[d].invested <= c.points[e].invested
<1>1. /\ DOMAIN A = DOMAIN X /\ IsFiniteSet(DOMAIN X) /\ d \in Int /\ e \in Int
      /\ \A i \in DOMAIN X : B[i] \in Nat
  BY SharedDates
<1> DEFINE f == LatestInvested(A, d)
           g == LatestInvested(A, e)
<1>2. ASSUME NEW i \in DOMAIN X PROVE f[i] \in Int /\ g[i] \in Int /\ f[i] <= g[i]
  <2> DEFINE m == Cardinality(DatesUpTo(X[i], d))
             n == Cardinality(DatesUpTo(X[i], e))
             b == B[i]
  <2>1. f[i] = b * m /\ f[i] \in Nat /\ g[i] = b * n /\ g[i] \in Nat
    BY <1>1, LatestInvestedIs
  <2>2. m \in Nat /\ n \in Nat /\ m <= n
    <3>1. X[i] \in Simulable
      BY DEF ShareThePlan
    <3> QED BY <1>1, <3>1, DatesUpToAre
  <2>3. b \in Nat
    BY <1>1
  <2> HIDE DEF f, g, m, n, b
  <2>4. b * m <= b * n
    BY <2>2, <2>3, ScaleBoth
  <2> QED BY <2>1, <2>4
<1>3. c.points[d].invested = SumFunctionOnSet(f, DOMAIN X)
      /\ c.points[e].invested = SumFunctionOnSet(g, DOMAIN X)
  <2> HIDE DEF f, g
  <2>1. c.points[d] = [invested |-> SumFunctionOnSet(f, DOMAIN A),
                       value    |-> SumFunctionOnSet(LatestValues(A, d), DOMAIN A)]
    BY CombinedIs DEF f
  <2>2. c.points[e] = [invested |-> SumFunctionOnSet(g, DOMAIN A),
                       value    |-> SumFunctionOnSet(LatestValues(A, e), DOMAIN A)]
    BY CombinedIs DEF g
  <2> QED BY <1>1, <2>1, <2>2
<1> HIDE DEF f, g
<1>4. SumFunctionOnSet(f, DOMAIN X) <= SumFunctionOnSet(g, DOMAIN X)
  BY <1>1, <1>2, SumAtMost
<1> QED BY <1>3, <1>4

\* Assets that buy on the same days have put in the whole amount on each of them.
BuyOn(X, shared) == \A i \in DOMAIN X : ResolveDates(plan, Histories[X[i]]) = shared

LEMMA SharedPeriods ==
  ASSUME DcaIInv, NEW A, NEW X, NEW B, ShareThePlan(A, X, B),
         NEW shared, BuyOn(X, shared)
  PROVE  BuysAt(A) = shared
<1>1. DOMAIN A = DOMAIN X /\ 1 \in DOMAIN X
  BY SharedDates
<1>2. ASSUME NEW i \in DOMAIN X, NEW d
      PROVE  d \in shared <=> d \in DOMAIN A[i].points /\ A[i].points[d].bought > 0
  <2> DEFINE s == X[i]
             c == B[i]
             a == A[i]
             last == Max(DOMAIN Histories[s])
             price == Histories[s][d]
  <2>1. /\ s \in Simulable /\ c \in Nat /\ a = Execute(plan, Histories[s], c)
        /\ \A e \in DOMAIN Histories[s] : c \div Histories[s][e] > 0
    BY DEF ShareThePlan
  <2>2. shared = ResolveDates(plan, Histories[s]) /\ last = Max(DOMAIN Histories[s])
    BY DEF BuyOn
  <2>3. price = Histories[s][d]
    OBVIOUS
  <2> HIDE DEF s, c, a, last, price
  <2>4. HasPointsFor(a, shared, last)
    BY <2>1, <2>2, PointsAre
  <2>5. DOMAIN a.points = shared \union {last}
    BY <2>4 DEF HasPointsFor
  <2>6. d \in DOMAIN a.points => a.points[d].bought = IF d \in shared THEN c \div price ELSE 0
    BY <2>1, <2>2, <2>3, PointsAre
  <2>7. d \in shared => c \div price > 0
    <3>1. shared \subseteq DOMAIN Histories[s]
      BY <2>1, <2>2, SimulableIs
    <3> QED BY <2>1, <2>3, <3>1
  <2>8. CASE d \in shared
    BY <2>5, <2>6, <2>7, <2>8 DEF a
  <2>9. CASE d \notin shared
    <3>1. d \in DOMAIN a.points => a.points[d].bought = 0
      BY <2>6, <2>9
    <3> QED BY <2>9, <3>1 DEF a
  <2> QED BY <2>8, <2>9
<1>3. ASSUME NEW d \in shared PROVE d \in BuysAt(A)
  <2>1. d \in DOMAIN A[1].points /\ A[1].points[d].bought > 0
    BY <1>1, <1>2
  <2>2. d \in DatesOf(A)
    BY <1>1, <2>1 DEF DatesOf
  <2> QED BY <1>1, <2>1, <2>2 DEF BuysAt
<1>4. ASSUME NEW d \in BuysAt(A) PROVE d \in shared
  <2>1. PICK i \in DOMAIN A : d \in DOMAIN A[i].points /\ A[i].points[d].bought > 0
    BY DEF BuysAt
  <2> QED BY <1>1, <1>2, <2>1
<1> QED BY <1>3, <1>4

LEMMA SharedInvested ==
  ASSUME DcaIInv, NEW A, NEW X, NEW B, ShareThePlan(A, X, B),
         NEW shared, BuyOn(X, shared), NEW d \in DatesOf(A)
  PROVE  SumFunctionOnSet(LatestInvested(A, d), DOMAIN A)
           = plan.amount * Cardinality({e \in shared : e <= d})
<1> DEFINE n == Cardinality({e \in shared : e <= d})
           f == LatestInvested(A, d)
<1>1. /\ DOMAIN A = DOMAIN X /\ IsFiniteSet(DOMAIN X) /\ 1 \in DOMAIN X /\ d \in Int
      /\ \A i \in DOMAIN X : B[i] \in Int
  BY SharedDates
<1>2. \A i \in DOMAIN X : DatesUpTo(X[i], d) = {e \in shared : e <= d} /\ X[i] \in Simulable
  BY DEF DatesUpTo, BuyOn, ShareThePlan
<1>3. n \in Nat
  <2>1. Cardinality(DatesUpTo(X[1], d)) \in Nat
    BY <1>1, <1>2, DatesUpToAre
  <2> QED BY <1>1, <1>2, <2>1
<1>4. ASSUME NEW i \in DOMAIN X PROVE f[i] = B[i] * n
  <2>1. f[i] = B[i] * Cardinality(DatesUpTo(X[i], d))
    BY <1>1, LatestInvestedIs
  <2> QED BY <1>2, <2>1
<1> HIDE DEF f, n
<1>5. \A i \in DOMAIN X : B[i] \in Int /\ f[i] = n * B[i]
  BY <1>1, <1>3, <1>4
<1>6. SumFunctionOnSet(f, DOMAIN X) = n * SumFunctionOnSet(B, DOMAIN X)
  <2>1. n \in Int
    BY <1>3
  <2> QED BY <1>1, <1>5, <2>1, SumScaled
<1>7. SumFunctionOnSet(B, DOMAIN X) = plan.amount
  BY DEF ShareThePlan
<1>8. n * plan.amount = plan.amount * n
  BY <1>3, PlanIs
<1> QED BY <1>1, <1>6, <1>7, <1>8 DEF f, n

\* The combined series agrees with its totals and with the assets under it: combineAssets
\* carries each asset's latest point forward and adds them up, day by day.
THEOREM CombinedSeriesAddsUp == DcaSpec => []CombinedAddsUp
<1>1. ASSUME DcaIInv PROVE CombinedAddsUp
  <2> DEFINE r == request
             sim == SimulateHoldings(r, plan, Histories)
             A == SimulatedAssets(r)
             X == SimulatedSymbols(r)
             B == Amounts(r)
             c == Combined(plan, A)
             days == {ResolveDates(plan, Histories[s]) : s \in ToSet(X)}
  <2>1. r \in Seq(Entries) /\ Len(r) <= MaxEntries
    BY <1>1 DEF DcaIInv
  <2>2. sim = [assets   |-> A,
               symbols  |-> X,
               skipped  |-> Skipped(Distinct(SymbolsOf(r)), plan, Histories),
               combined |-> IF SimulatedHoldings(r) = <<>> THEN <<>> ELSE <<c>>]
    BY <1>1, <2>1, SimulationIs
  <2> HIDE DEF sim, c, A, B
  <2>3. sim.symbols = X
        /\ sim.combined = IF SimulatedHoldings(r) = <<>> THEN <<>> ELSE <<c>>
    <3> HIDE DEF X
    <3> QED BY <2>2
  <2>4. ASSUME sim.combined # <<>> PROVE AddsUp(sim.combined[1], days)
    <3>1. X # <<>> /\ sim.combined[1] = c
      <4>1. SimulatedHoldings(r) # <<>> /\ sim.combined = <<c>>
        BY <2>3, <2>4
      <4>2. X = <<>> => SimulatedHoldings(r) = <<>>
        BY DEF SimulatedHoldings, Grouped
      <4> HIDE DEF X
      <4> QED BY <4>1, <4>2
    <3>2. ShareThePlan(A, X, B)
      BY <1>1, <2>1, <3>1, AssetsShareThePlan DEF A, B
    <3> HIDE DEF X
    <3>3. c = Combined(plan, A)
      BY DEF c
    <3>4. c.points[Max(DOMAIN c.points)] = [invested |-> c.invested, value |-> c.final]
      BY <1>1, <3>2, <3>3, CombinedEnds
    <3>5. DOMAIN c.points = DatesOf(A) /\ c.periods = Cardinality(BuysAt(A))
          /\ \A d \in DatesOf(A) :
                c.points[d].invested = SumFunctionOnSet(LatestInvested(A, d), DOMAIN A)
      <4>1. \A d \in DatesOf(A) :
               c.points[d] = [invested |-> SumFunctionOnSet(LatestInvested(A, d), DOMAIN A),
                              value    |-> SumFunctionOnSet(LatestValues(A, d), DOMAIN A)]
        BY <3>3, CombinedIs
      <4>2. DOMAIN c.points = DatesOf(A) /\ c.periods = Cardinality(BuysAt(A))
        BY <3>3, CombinedIs
      <4>3. \A d \in DatesOf(A) :
               c.points[d].invested = SumFunctionOnSet(LatestInvested(A, d), DOMAIN A)
        <5> TAKE d \in DatesOf(A)
        <5> DEFINE one == SumFunctionOnSet(LatestInvested(A, d), DOMAIN A)
                   other == SumFunctionOnSet(LatestValues(A, d), DOMAIN A)
        <5>1. c.points[d] = [invested |-> one, value |-> other]
          BY <4>1
        <5> HIDE DEF one, other
        <5> QED BY <5>1 DEF one
      <4> QED BY <4>2, <4>3
    <3>6. \A d, e \in DOMAIN c.points : d <= e => c.points[d].invested <= c.points[e].invested
      <4>1. \A d, e \in DatesOf(A) : d <= e => c.points[d].invested <= c.points[e].invested
        BY <1>1, <3>2, <3>3, CombinedGrows
      <4> QED BY <3>5, <4>1
    <3> DEFINE shared == CHOOSE D \in days : TRUE
    <3>7. ASSUME days = {shared}
          PROVE  /\ c.periods = Cardinality(shared)
                 /\ \A d \in DOMAIN c.points :
                       c.points[d].invested = plan.amount * Cardinality({e \in shared : e <= d})
      <4> HIDE DEF shared
      <4>1. ASSUME NEW i \in DOMAIN X PROVE ResolveDates(plan, Histories[X[i]]) = shared
        <5>1. X[i] \in ToSet(X)
          BY DEF ToSet
        <5>2. ResolveDates(plan, Histories[X[i]]) \in days
          BY <5>1
        <5> HIDE DEF days
        <5> QED BY <3>7, <5>2
      <4>2. BuyOn(X, shared)
        BY <4>1 DEF BuyOn
      <4>3. BuysAt(A) = shared
        BY <1>1, <3>2, <4>2, SharedPeriods
      <4>4. \A d \in DatesOf(A) : SumFunctionOnSet(LatestInvested(A, d), DOMAIN A)
                                    = plan.amount * Cardinality({e \in shared : e <= d})
        BY <1>1, <3>2, <4>2, SharedInvested
      <4> QED BY <3>5, <4>3, <4>4
    <3> HIDE DEF days
    <3>8. AddsUp(c, days)
      BY <3>4, <3>6, <3>7 DEF AddsUp
    <3> QED BY <3>1, <3>8
  <2> HIDE DEF X
  <2>5. sim.combined # <<>>
          => AddsUp(sim.combined[1], {ResolveDates(plan, Histories[s]) : s \in ToSet(sim.symbols)})
    BY <2>3, <2>4
  <2> HIDE DEF days, r
  <2> QED BY <2>5 DEF CombinedAddsUp, sim, r
<1> QED BY <1>1, DcaTyping, PTL

=============================================================================
