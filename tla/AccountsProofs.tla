--------------------------- MODULE AccountsProofs ---------------------------
(***************************************************************************)
(* Theorems about Accounts, for any users, ids, requests and quotas.       *)
(*                                                                         *)
(* The promises are proved of AccountsAtomic, whose steps are whole calls, *)
(* and hold of Accounts because it implements AccountsAtomic.  That needs  *)
(* to know of every request what its checks still are worth at the write:  *)
(* IInv.                                                                   *)
(***************************************************************************)
EXTENDS Accounts, FiniteSetTheorems, TLAPS

RowsTyped ==
    /\ portfolios \in [Portfolios -> PortfolioRow \union {NoRow}]
    /\ goals \in [Goals -> GoalRow \union {NoRow}]

AInv == RowsTyped /\ WithinQuota /\ LinksAreOwn

-----------------------------------------------------------------------------
(***************************************************************************)
(* The abstract specification.                                             *)
(***************************************************************************)

\* A user's rows are finitely many, and fewer rows count no more.
LEMMA FinitelyMany ==
  ASSUME NEW u
  PROVE  /\ IsFiniteSet(PortfoliosOf(u)) /\ Cardinality(PortfoliosOf(u)) \in Nat
         /\ IsFiniteSet(GoalsOf(u)) /\ Cardinality(GoalsOf(u)) \in Nat
  <1>1. PortfoliosOf(u) \subseteq Portfolios /\ GoalsOf(u) \subseteq Goals
    BY DEF PortfoliosOf, GoalsOf
  <1> QED
    BY <1>1, QuotaParameters, FS_Subset, FS_CardinalityType

LEMMA FewerRows ==
  ASSUME NEW S, NEW T, IsFiniteSet(T), S \subseteq T
  PROVE  IsFiniteSet(S) /\ Cardinality(S) \in Nat /\ Cardinality(S) <= Cardinality(T)
  BY FS_Subset, FS_CardinalityType

LEMMA OneMoreRow ==
  ASSUME NEW S, NEW T, NEW x, IsFiniteSet(T), S \subseteq T \union {x}
  PROVE  Cardinality(S) \in Nat /\ Cardinality(S) <= Cardinality(T) + 1
  <1>1. /\ IsFiniteSet(T \union {x}) /\ Cardinality(T) \in Nat
        /\ Cardinality(T \union {x}) = IF x \in T THEN Cardinality(T) ELSE Cardinality(T) + 1
    BY FS_AddElement, FS_CardinalityType
  <1>2. /\ IsFiniteSet(S) /\ Cardinality(S) <= Cardinality(T \union {x})
    BY <1>1, FS_Subset
  <1> QED
    BY <1>1, <1>2, FS_CardinalityType

LEMMA AtomicInitially == AtomicInit => AInv
  <1> SUFFICES ASSUME AtomicInit PROVE AInv
    OBVIOUS
  <1>1. \A u \in Users : PortfoliosOf(u) = {} /\ GoalsOf(u) = {}
    BY DEF AtomicInit, PortfoliosOf, GoalsOf
  <1>2. WithinQuota
    BY <1>1, FS_EmptySet, QuotaParameters DEF WithinQuota
  <1> QED
    BY <1>2 DEF AInv, AtomicInit, RowsTyped, LinksAreOwn

\* A call adds at most one row, and only to a user below his quota.
LEMMA AtomicQuota ==
  ASSUME AInv, NEW u \in Users, CallOf(u)
  PROVE  WithinQuota'
<1> SUFFICES ASSUME NEW v \in Users
             PROVE  /\ Cardinality(PortfoliosOf(v)') <= MaxPortfolios
                    /\ Cardinality(GoalsOf(v)') <= MaxGoals
  BY DEF WithinQuota
<1> USE QuotaParameters DEF AInv, RowsTyped
<1>0. /\ IsFiniteSet(PortfoliosOf(v)) /\ Cardinality(PortfoliosOf(v)) \in Nat
      /\ IsFiniteSet(GoalsOf(v)) /\ Cardinality(GoalsOf(v)) \in Nat
      /\ Cardinality(PortfoliosOf(v)) <= MaxPortfolios /\ Cardinality(GoalsOf(v)) <= MaxGoals
  BY FinitelyMany DEF WithinQuota
<1>1. ASSUME PortfoliosOf(v)' \subseteq PortfoliosOf(v), GoalsOf(v)' \subseteq GoalsOf(v)
      PROVE  /\ Cardinality(PortfoliosOf(v)') <= MaxPortfolios
             /\ Cardinality(GoalsOf(v)') <= MaxGoals
  <2>1. Cardinality(PortfoliosOf(v)') \in Nat /\ Cardinality(PortfoliosOf(v)') <= Cardinality(PortfoliosOf(v))
    BY <1>0, <1>1, FewerRows
  <2>2. Cardinality(GoalsOf(v)') \in Nat /\ Cardinality(GoalsOf(v)') <= Cardinality(GoalsOf(v))
    BY <1>0, <1>1, FewerRows
  <2> QED
    BY <1>0, <2>1, <2>2
<1>2. CASE \E p \in Portfolios : AddPortfolio(u, p)
  <2> PICK p \in Portfolios : AddPortfolio(u, p)
    BY <1>2
  <2>1. GoalsOf(v)' = GoalsOf(v)
    BY DEF AddPortfolio, GoalsOf
  <2>2. CASE v # u
    <3>1. PortfoliosOf(v)' \subseteq PortfoliosOf(v)
      BY <2>2 DEF AddPortfolio, PortfoliosOf
    <3> QED
      BY <1>1, <2>1, <3>1
  <2>3. CASE v = u
    <3>1. PortfoliosOf(v)' \subseteq PortfoliosOf(v) \union {p}
      BY DEF AddPortfolio, PortfoliosOf
    <3>2. /\ Cardinality(PortfoliosOf(v)') \in Nat
          /\ Cardinality(PortfoliosOf(v)') <= Cardinality(PortfoliosOf(v)) + 1
      BY <1>0, <3>1, OneMoreRow
    <3> QED
      BY <1>0, <2>1, <2>3, <3>2 DEF AddPortfolio
  <2> QED
    BY <2>2, <2>3
<1>3. CASE \E g \in Goals, link \in Links : AddGoal(u, g, link)
  <2> PICK g \in Goals, link \in Links : AddGoal(u, g, link)
    BY <1>3
  <2>1. PortfoliosOf(v)' = PortfoliosOf(v)
    BY DEF AddGoal, PortfoliosOf
  <2>2. CASE v # u
    <3>1. GoalsOf(v)' \subseteq GoalsOf(v)
      BY <2>2 DEF AddGoal, GoalsOf
    <3> QED
      BY <1>1, <2>1, <3>1
  <2>3. CASE v = u
    <3>1. GoalsOf(v)' \subseteq GoalsOf(v) \union {g}
      BY DEF AddGoal, GoalsOf
    <3>2. /\ Cardinality(GoalsOf(v)') \in Nat
          /\ Cardinality(GoalsOf(v)') <= Cardinality(GoalsOf(v)) + 1
      BY <1>0, <3>1, OneMoreRow
    <3> QED
      BY <1>0, <2>1, <2>3, <3>2 DEF AddGoal
  <2> QED
    BY <2>2, <2>3
<1>4. CASE \E p \in Portfolios : EditPortfolio(u, p)
  <2> PICK p \in Portfolios : EditPortfolio(u, p)
    BY <1>4
  <2>1. PortfoliosOf(v)' \subseteq PortfoliosOf(v) /\ GoalsOf(v)' \subseteq GoalsOf(v)
    BY NoRowIsNotARow DEF EditPortfolio, PortfoliosOf, GoalsOf, PortfolioRow
  <2> QED
    BY <1>1, <2>1
<1>5. CASE \E p \in Portfolios : DropPortfolio(u, p)
  <2> PICK p \in Portfolios : DropPortfolio(u, p)
    BY <1>5
  <2>1. PortfoliosOf(v)' \subseteq PortfoliosOf(v)
    BY DEF DropPortfolio, PortfoliosOf
  <2>2. GoalsOf(v)' \subseteq GoalsOf(v)
    BY NoRowIsNotARow DEF DropPortfolio, Unlink, GoalsOf, GoalRow
  <2> QED
    BY <1>1, <2>1, <2>2
<1>6. CASE \E g \in Goals, link \in Links : EditGoal(u, g, link)
  <2> PICK g \in Goals, link \in Links : EditGoal(u, g, link)
    BY <1>6
  <2>1. PortfoliosOf(v)' \subseteq PortfoliosOf(v) /\ GoalsOf(v)' \subseteq GoalsOf(v)
    BY NoRowIsNotARow DEF EditGoal, PortfoliosOf, GoalsOf, GoalRow
  <2> QED
    BY <1>1, <2>1
<1>7. CASE \E g \in Goals : DropGoal(u, g)
  <2> PICK g \in Goals : DropGoal(u, g)
    BY <1>7
  <2>1. PortfoliosOf(v)' \subseteq PortfoliosOf(v) /\ GoalsOf(v)' \subseteq GoalsOf(v)
    BY DEF DropGoal, PortfoliosOf, GoalsOf
  <2> QED
    BY <1>1, <2>1
<1> QED
  BY <1>2, <1>3, <1>4, <1>5, <1>6, <1>7 DEF CallOf

LEMMA AtomicTyped ==
  ASSUME AInv, NEW u \in Users, CallOf(u)
  PROVE  RowsTyped'
<1> USE NoRowIsNotARow DEF AInv, RowsTyped
<1>1. ASSUME NEW p \in Portfolios, AddPortfolio(u, p) PROVE RowsTyped'
  BY <1>1 DEF AddPortfolio, PortfolioRow
<1>2. ASSUME NEW p \in Portfolios, EditPortfolio(u, p) PROVE RowsTyped'
  BY <1>2 DEF EditPortfolio, PortfoliosOf, PortfolioRow
<1>3. ASSUME NEW p \in Portfolios, DropPortfolio(u, p) PROVE RowsTyped'
  BY <1>3 DEF DropPortfolio, Unlink, GoalRow, Links
<1>4. ASSUME NEW g \in Goals, NEW link \in Links, AddGoal(u, g, link) PROVE RowsTyped'
  BY <1>4 DEF AddGoal, GoalRow
<1>5. ASSUME NEW g \in Goals, NEW link \in Links, EditGoal(u, g, link) PROVE RowsTyped'
  BY <1>5 DEF EditGoal, GoalsOf, GoalRow
<1>6. ASSUME NEW g \in Goals, DropGoal(u, g) PROVE RowsTyped'
  BY <1>6 DEF DropGoal
<1> QED
  BY <1>1, <1>2, <1>3, <1>4, <1>5, <1>6 DEF CallOf

LEMMA AtomicLinks ==
  ASSUME AInv, NEW u \in Users, CallOf(u)
  PROVE  LinksAreOwn'
<1> USE NoRowIsNotARow, QuotaParameters DEF AInv, RowsTyped, LinksAreOwn, Linkable, PortfoliosOf
<1>1. ASSUME NEW p \in Portfolios, AddPortfolio(u, p) PROVE LinksAreOwn'
  BY <1>1 DEF AddPortfolio
<1>2. ASSUME NEW p \in Portfolios, EditPortfolio(u, p) PROVE LinksAreOwn'
  BY <1>2 DEF EditPortfolio, PortfolioRow
<1>3. ASSUME NEW p \in Portfolios, DropPortfolio(u, p) PROVE LinksAreOwn'
  BY <1>3 DEF DropPortfolio, Unlink, GoalRow
<1>4. ASSUME NEW g \in Goals, NEW link \in Links, AddGoal(u, g, link) PROVE LinksAreOwn'
  BY <1>4 DEF AddGoal
<1>5. ASSUME NEW g \in Goals, NEW link \in Links, EditGoal(u, g, link) PROVE LinksAreOwn'
  BY <1>5 DEF EditGoal, GoalsOf, GoalRow
<1>6. ASSUME NEW g \in Goals, DropGoal(u, g) PROVE LinksAreOwn'
  BY <1>6 DEF DropGoal
<1> QED
  BY <1>1, <1>2, <1>3, <1>4, <1>5, <1>6 DEF CallOf

\* Whole calls, one at a time, keep the quotas and the links.
THEOREM AtomicPromises == AtomicSpec => [](WithinQuota /\ LinksAreOwn)
<1>1. AInv /\ [\E u \in Users : CallOf(u)]_rows => AInv'
  <2> SUFFICES ASSUME AInv, [\E u \in Users : CallOf(u)]_rows PROVE AInv'
    OBVIOUS
  <2>1. CASE \E u \in Users : CallOf(u)
    BY <2>1, AtomicQuota, AtomicTyped, AtomicLinks DEF AInv
  <2>2. CASE UNCHANGED rows
    BY <2>2 DEF rows, AInv, RowsTyped, WithinQuota, LinksAreOwn, PortfoliosOf, GoalsOf, Linkable
  <2> QED
    BY <2>1, <2>2
<1>2. AInv => WithinQuota /\ LinksAreOwn
  BY DEF AInv
<1> QED
  BY <1>1, <1>2, AtomicInitially, PTL DEF AtomicSpec

-----------------------------------------------------------------------------
(***************************************************************************)
(* What a request knows at each statement.                                 *)
(***************************************************************************)

\* Stages from which a request still has, or may still have, something to write.
Creating == {"lock", "count", "insert", "commit"}
Locking  == {"count", "insert", "commit"}

\* The call fits its stage.
Fits(r) ==
    /\ pc[r] = "find" => EditsGoal(call[r])
    /\ pc[r] = "check" => ~CreatesPortfolio(call[r]) /\ call[r].kind # "deleteGoal"
    /\ pc[r] \in Creating => Creates(call[r])
    /\ pc[r] = "apply" => ~Creates(call[r])
    /\ pc[r] \notin {"idle", "commit"} => Askable(call[r])

\* Inside its transaction a request holds its user's row, and after the count
\* the user stays below the quota until it commits.
Holds(r) ==
    /\ pc[r] \in Locking => lock[call[r].user] = r
    /\ pc[r] \in {"insert", "commit"} => HasRoom(call[r])

\* A row that passed an ownership check is the user's, or is gone for good.
OwnOrGone(row, u) == row # NoRow => row.user = u

Passed(r) ==
    LET c == call[r]
    IN  /\ (pc[r] \in Creating \union {"apply"} /\ c.link # NoLink)
               => c.link \in issued /\ OwnOrGone(portfolios[c.link], c.user)
        /\ (pc[r] \in {"check", "apply"} /\ EditsGoal(c)) => OwnOrGone(goals[c.id], c.user)
        /\ (pc[r] = "apply" /\ ~EditsGoal(c)) => OwnOrGone(portfolios[c.id], c.user)

\* An uncommitted row has a fresh id, and the foreign key holds what it refers to.
Pending(r) ==
    pc[r] = "commit" =>
        /\ call[r].id \notin issued
        /\ call[r].id \in IF CreatesPortfolio(call[r]) THEN Portfolios ELSE Goals
        /\ CreatesPortfolio(call[r]) => call[r].link = NoLink
        /\ LinkStored(call[r])

\* Fresh ids are stored nowhere, and no two requests have the same.
FreshIds ==
    /\ \A p \in Portfolios : p \notin issued => portfolios[p] = NoRow
    /\ \A g \in Goals : g \notin issued => goals[g] = NoRow
    /\ \A r, s \in Requests :
          pc[r] = "commit" /\ pc[s] = "commit" /\ call[r].id = call[s].id => r = s

Known(r) == Fits(r) /\ Holds(r) /\ Passed(r) /\ Pending(r)

IInv == TypeOK /\ FreshIds /\ \A r \in Requests : Known(r)


-----------------------------------------------------------------------------
(***************************************************************************)
(* IInv is an invariant.                                                   *)
(***************************************************************************)
LEMMA Initially == Init => IInv
  <1> SUFFICES ASSUME Init PROVE IInv
    OBVIOUS
  <1>1. TypeOK
    BY DEF Init, AtomicInit, TypeOK, Stages
  <1>2. FreshIds
    BY DEF Init, AtomicInit, FreshIds
  <1>3. \A r \in Requests : Known(r)
    BY DEF Init, Known, Fits, Holds, Passed, Pending, Creating, Locking
  <1> QED
    BY <1>1, <1>2, <1>3 DEF IInv

\* Types of the parts of a call.
LEMMA CallTyped ==
  ASSUME TypeOK, NEW r \in Requests, pc[r] # "idle"
  PROVE  /\ call[r] \in Call
         /\ call[r].user \in Users /\ call[r].link \in Links /\ call[r].kind \in Kinds
         /\ call[r].id \in Portfolios \union Goals \union {NoLink}
  BY DEF TypeOK, Call

\* A request between two calls knows nothing.
LEMMA IdleKnows ==
  ASSUME NEW r \in Requests, pc'[r] = "idle"
  PROVE  Known(r)'
  BY DEF Known, Fits, Holds, Passed, Pending, Creating, Locking

\* What request r knows outlasts a step of another that leaves the tables alone.
LEMMA QuietOthers ==
  ASSUME TypeOK, NEW r \in Requests, Known(r),
         pc'[r] = pc[r], call'[r] = call[r], UNCHANGED <<rows, issued>>,
         \A u \in Users : lock[u] = r => lock'[u] = r
  PROVE  Known(r)'
  BY CallTyped DEF Known, Fits, Holds, Passed, Pending, Creating, Locking, rows, HasRoom, PortfoliosOf,
         GoalsOf, LinkStored, OwnOrGone, Askable, Creates, CreatesPortfolio, CreatesGoal, EditsGoal

LEMMA OthersUntouched ==
  ASSUME TypeOK, NEW s \in Requests, NEW r \in Requests, r # s, NEW stage, NEW c
  PROVE  /\ Goto(s, stage) => pc'[r] = pc[r] /\ call'[r] = call[r]
         /\ Return(s) => /\ pc'[r] = pc[r] /\ call'[r] = call[r]
                         /\ \A u \in Users : lock[u] = r => lock'[u] = r
         /\ Start(s, c) => pc'[r] = pc[r] /\ call'[r] = call[r]
  BY DEF TypeOK, Goto, Return, Start


\* Statements that neither insert a row nor change a table.
Quiet(s) ==
    \/ \E c \in Call : Start(s, c)
    \/ FindGoal(s) \/ CheckPortfolio(s) \/ LockUser(s) \/ Count(s) \/ Fail(s)

LEMMA QuietTyped == ASSUME IInv, NEW s \in Requests, Quiet(s) \/ Insert(s) PROVE TypeOK'
<1> USE DEF IInv, TypeOK
<1>1. ASSUME NEW c \in Call, Start(s, c) PROVE TypeOK'
  <2>1. c # NoCall
    BY DEF Call, NoCall, Kinds
  <2> QED
    BY <1>1, <2>1 DEF Start, rows, Stages
<1>2. ASSUME Return(s), UNCHANGED <<rows, issued>> PROVE TypeOK'
  BY <1>2, NoRequestIsNotARequest DEF Return, rows, Stages
<1>3. ASSUME NEW stage \in Stages \ {"idle"}, pc[s] # "idle", Goto(s, stage),
             lock' \in [Users -> Requests \union {NoRequest}], UNCHANGED <<rows, issued>>
      PROVE  TypeOK'
  BY <1>3 DEF Goto, rows
<1>4. CASE FindGoal(s)
  BY <1>2, <1>3, <1>4 DEF FindGoal, Proceed, Stages
<1>5. CASE CheckPortfolio(s)
  BY <1>2, <1>3, <1>5 DEF CheckPortfolio, Proceed, Stages
<1>6. CASE LockUser(s)
  BY <1>3, <1>6, CallTyped DEF LockUser, Stages
<1>7. CASE Count(s)
  BY <1>2, <1>3, <1>7 DEF Count, Proceed, Stages
<1>8. CASE Fail(s)
  BY <1>2, <1>8 DEF Fail
<1>9. CASE Insert(s)
  <2>1. CASE Return(s)
    BY <1>2, <1>9, <2>1 DEF Insert
  <2>2. CASE \E id \in Portfolios \union Goals :
                /\ call' = [call EXCEPT ![s].id = id]
                /\ pc' = [pc EXCEPT ![s] = "commit"]
                /\ UNCHANGED lock
    <3> PICK id \in Portfolios \union Goals : call' = [call EXCEPT ![s].id = id]
      BY <2>2
    <3>1. call[s] \in Call /\ pc[s] = "insert"
      BY <1>9, CallTyped DEF Insert
    <3>2. [call[s] EXCEPT !.id = id] \in Call
      BY <3>1 DEF Call
    <3>3. [call[s] EXCEPT !.id = id] # NoCall
      BY <3>2 DEF Call, NoCall, Kinds
    <3> QED
      BY <1>9, <2>2, <3>1, <3>2, <3>3 DEF Insert, rows, Stages
  <2> QED
    BY <1>9, <2>1, <2>2 DEF Insert
<1> QED
  BY <1>1, <1>4, <1>5, <1>6, <1>7, <1>8, <1>9 DEF Quiet

\* The other requests know what they knew.
LEMMA QuietForOthers ==
  ASSUME IInv, NEW s \in Requests, Quiet(s) \/ Insert(s), NEW r \in Requests, r # s
  PROVE  Known(r)'
<1>1. UNCHANGED <<rows, issued>>
  BY DEF Quiet, Start, FindGoal, CheckPortfolio, LockUser, Count, Fail, Insert
<1>2. pc'[r] = pc[r] /\ call'[r] = call[r]
  BY DEF IInv, TypeOK, Quiet, Start, FindGoal, CheckPortfolio, LockUser, Count, Fail, Insert,
         Proceed, Goto, Return
<1>3. \A u \in Users : lock[u] = r => lock'[u] = r
  BY NoRequestIsNotARequest
     DEF IInv, TypeOK, Quiet, Start, FindGoal, CheckPortfolio, LockUser, Count, Fail, Insert,
         Proceed, Goto, Return
<1> QED
  BY <1>1, <1>2, <1>3, QuietOthers DEF IInv

LEMMA QuietFresh == ASSUME IInv, NEW s \in Requests, Quiet(s) PROVE FreshIds'
<1>1. UNCHANGED <<rows, issued>>
  BY DEF Quiet, Start, FindGoal, CheckPortfolio, LockUser, Count, Fail
<1>2. pc'[s] # "commit"
  BY DEF IInv, TypeOK, Quiet, Start, FindGoal, CheckPortfolio, LockUser, Count, Fail,
         Proceed, Goto, Return
<1>3. \A r \in Requests : r # s => pc'[r] = pc[r] /\ call'[r] = call[r]
  BY DEF IInv, TypeOK, Quiet, Start, FindGoal, CheckPortfolio, LockUser, Count, Fail,
         Proceed, Goto, Return
<1> QED
  BY <1>1, <1>2, <1>3 DEF IInv, FreshIds, rows

LEMMA InsertFresh == ASSUME IInv, NEW s \in Requests, Insert(s) PROVE FreshIds'
<1>1. UNCHANGED <<rows, issued>>
  BY DEF Insert
<1>2. \A r \in Requests : r # s => pc'[r] = pc[r] /\ call'[r] = call[r]
  BY DEF IInv, TypeOK, Insert, Return
<1>3. pc'[s] = "commit" => call'[s].id \notin Inserted
  <2>1. CASE Return(s)
    BY <2>1 DEF IInv, TypeOK, Return
  <2>2. CASE ~Return(s)
    <3>1. PICK id : id \notin issued \union Inserted /\ call' = [call EXCEPT ![s].id = id]
      BY <2>2 DEF Insert
    <3>2. call[s] \in Call
      BY CallTyped DEF Insert, IInv
    <3> QED
      BY <3>1, <3>2 DEF IInv, TypeOK, Call
  <2> QED
    BY <2>1, <2>2
<1> QED
  BY <1>1, <1>2, <1>3 DEF IInv, FreshIds, rows, Inserted


\* What the request itself knows after each of its statements.
LEMMA QuietForItself ==
  ASSUME IInv, NEW s \in Requests, Quiet(s) \/ Insert(s)
  PROVE  Known(s)'
<1> USE DEF Creating, Locking
<1>0. /\ TypeOK /\ Known(s) /\ FreshIds
      /\ pc \in [Requests -> Stages] /\ call \in [Requests -> Call \union {NoCall}]
      /\ lock \in [Users -> Requests \union {NoRequest}]
  BY DEF IInv, TypeOK
<1>1. CASE Return(s)
  BY <1>0, <1>1, IdleKnows DEF Return
<1>2. ASSUME NEW c \in Call, Start(s, c) PROVE Known(s)'
  BY <1>0, <1>2
     DEF Start, rows, Known, Fits, Holds, Passed, Pending, Askable, Creates, CreatesPortfolio,
         CreatesGoal, EditsGoal
<1>3. CASE FindGoal(s) /\ ~Return(s)
  <2>1. /\ pc'[s] = IF call[s].kind = "updateGoal" THEN "check" ELSE "apply"
        /\ OwnsGoal(call[s].user, call[s].id)
        /\ UNCHANGED <<rows, issued, call>>
        /\ EditsGoal(call[s]) /\ Askable(call[s])
    BY <1>0, <1>3 DEF FindGoal, Proceed, Goto, Known, Fits
  <2> QED
    BY <1>0, <2>1
       DEF rows, Known, Fits, Holds, Passed, Pending, Askable, Creates, CreatesPortfolio,
           CreatesGoal, EditsGoal, OwnsGoal, OwnOrGone
<1>4. CASE CheckPortfolio(s) /\ ~Return(s)
  <2>1. /\ pc[s] = "check"
        /\ pc'[s] = IF CreatesGoal(call[s]) THEN "lock" ELSE "apply"
        /\ UNCHANGED <<rows, issued, call>>
        /\ ~CreatesPortfolio(call[s]) /\ call[s].kind # "deleteGoal" /\ Askable(call[s])
        /\ call[s].kind \in Kinds
    BY <1>0, <1>4, CallTyped DEF CheckPortfolio, Proceed, Goto, Known, Fits
  <2>2. CASE call[s].kind \in {"createGoal", "updateGoal"}
    <3>1. call[s].link # NoLink => OwnsPortfolio(call[s].user, call[s].link)
      BY <1>4, <2>2 DEF CheckPortfolio, Proceed
    <3> QED
      BY <1>0, <2>1, <2>2, <3>1
         DEF rows, Known, Fits, Holds, Passed, Pending, Askable, Creates, CreatesPortfolio,
             CreatesGoal, EditsGoal, OwnsPortfolio, OwnOrGone
  <2>3. CASE call[s].kind \notin {"createGoal", "updateGoal"}
    <3>1. call[s].id # NoLink => OwnsPortfolio(call[s].user, call[s].id)
      BY <1>4, <2>3 DEF CheckPortfolio, Proceed
    <3>2. call[s].id \in Portfolios /\ call[s].id # NoLink
      BY <2>1, <2>3, QuotaParameters DEF Askable, Kinds, Creates, CreatesPortfolio, CreatesGoal, EditsGoal
    <3> QED
      BY <1>0, <2>1, <2>3, <3>1, <3>2
         DEF rows, Known, Fits, Holds, Passed, Pending, Askable, Creates, CreatesPortfolio,
             CreatesGoal, EditsGoal, OwnsPortfolio, OwnOrGone, Kinds
  <2> QED
    BY <2>2, <2>3
<1>5. CASE LockUser(s)
  <2>1. /\ pc[s] = "lock" /\ pc'[s] = "count" /\ lock'[call[s].user] = s
        /\ UNCHANGED <<rows, issued, call>>
    BY <1>0, <1>5, CallTyped DEF LockUser, Goto
  <2> QED
    BY <1>0, <2>1
       DEF rows, Known, Fits, Holds, Passed, Pending, Askable, Creates, CreatesPortfolio,
           CreatesGoal, EditsGoal, OwnOrGone
<1>6. CASE Count(s) /\ ~Return(s)
  <2>1. /\ pc[s] = "count" /\ pc'[s] = "insert" /\ HasRoom(call[s])
        /\ UNCHANGED <<rows, issued, call, lock>>
    BY <1>0, <1>6 DEF Count, Proceed, Goto
  <2> QED
    BY <1>0, <2>1
       DEF rows, Known, Fits, Holds, Passed, Pending, Askable, Creates, CreatesPortfolio,
           CreatesGoal, EditsGoal, OwnOrGone, HasRoom, PortfoliosOf, GoalsOf
<1>7. CASE Insert(s) /\ ~Return(s)
  <2>1. PICK id \in IF CreatesPortfolio(call[s]) THEN Portfolios ELSE Goals :
            /\ LinkStored(call[s])
            /\ id \notin issued
            /\ call' = [call EXCEPT ![s].id = id]
            /\ pc' = [pc EXCEPT ![s] = "commit"]
            /\ UNCHANGED <<lock, rows, issued>>
    BY <1>7 DEF Insert
  <2>2. pc[s] = "insert" /\ call[s] \in Call
    BY <1>0, <1>7, CallTyped DEF Insert
  <2>3. /\ pc'[s] = "commit" /\ call'[s].id = id /\ call'[s].user = call[s].user
        /\ call'[s].link = call[s].link /\ call'[s].kind = call[s].kind
    BY <1>0, <2>1, <2>2 DEF Call
  <2>4. HasRoom(call[s])'
    BY <1>0, <2>1, <2>2, <2>3
       DEF Known, Holds, HasRoom, CreatesPortfolio, PortfoliosOf, GoalsOf, rows
  <2>5. Fits(s)' /\ Holds(s)'
    BY <1>0, <2>1, <2>2, <2>3, <2>4
       DEF Known, Fits, Holds, Creates, CreatesPortfolio, CreatesGoal
  <2>6. Passed(s)'
    BY <1>0, <2>1, <2>2, <2>3 DEF Known, Passed, OwnOrGone, rows
  <2>7. CreatesPortfolio(call[s]) => call[s].link = NoLink
    BY <1>0, <2>2 DEF Known, Fits, Askable, CreatesPortfolio
  <2>8. Pending(s)'
    BY <1>0, <2>1, <2>3, <2>7 DEF Pending, CreatesPortfolio, LinkStored, rows
  <2> QED
    BY <2>5, <2>6, <2>8 DEF Known
<1>8. CASE Fail(s)
  BY <1>1, <1>8 DEF Fail
<1> QED
  BY <1>1, <1>2, <1>3, <1>4, <1>5, <1>6, <1>7, <1>8 DEF Quiet


\* The statements that change the tables.
Write(s) ==
    Commit(s) \/ UpdatePortfolio(s) \/ DeletePortfolio(s) \/ UpdateGoal(s) \/ DeleteGoal(s)

\* A row that another may have looked at keeps its user for as long as it is stored.
OnlyFades ==
    /\ \A p \in Portfolios \intersect issued :
          portfolios'[p] # NoRow => portfolios[p] # NoRow /\ portfolios'[p].user = portfolios[p].user
    /\ \A g \in Goals \intersect issued :
          goals'[g] # NoRow => goals[g] # NoRow /\ goals'[g].user = goals[g].user

\* The row a writing call names.
LEMMA NamedRows ==
  ASSUME IInv, NEW s \in Requests
  PROVE  /\ pc[s] = "apply" /\ EditsGoal(call[s]) => call[s].id \in Goals \intersect issued
         /\ pc[s] = "apply" /\ ~EditsGoal(call[s]) => call[s].id \in Portfolios \intersect issued
         /\ pc[s] = "commit" => /\ call[s].id \notin issued
                                /\ CreatesPortfolio(call[s]) => call[s].id \in Portfolios
                                /\ ~CreatesPortfolio(call[s]) => call[s].id \in Goals
                                /\ Creates(call[s])
  BY DEF IInv, Known, Fits, Pending, Askable, Creating

LEMMA WriteFades ==
  ASSUME IInv, NEW s \in Requests, Write(s)
  PROVE  /\ OnlyFades
         /\ portfolios' \in [Portfolios -> PortfolioRow \union {NoRow}]
         /\ goals' \in [Goals -> GoalRow \union {NoRow}]
<1> USE NoRowIsNotARow DEF OnlyFades
<1>0. /\ portfolios \in [Portfolios -> PortfolioRow \union {NoRow}]
      /\ goals \in [Goals -> GoalRow \union {NoRow}]
      /\ TypeOK
  BY DEF IInv, TypeOK
<1>1. CASE Commit(s)
  <2>1. call[s].user \in Users /\ call[s].link \in Links
    BY <1>0, <1>1, CallTyped DEF Commit
  <2>2. CASE CreatesPortfolio(call[s])
    <3> DEFINE row == [user |-> call[s].user, edited |-> FALSE]
    <3>1. /\ row \in PortfolioRow /\ UNCHANGED goals
          /\ portfolios' = [portfolios EXCEPT ![call[s].id] = row]
      BY <1>1, <2>1, <2>2 DEF Commit, PortfolioRow
    <3>2. call[s].id \in Portfolios /\ call[s].id \notin issued
      BY <1>1, <2>2, NamedRows DEF Commit
    <3> QED
      BY <1>0, <3>1, <3>2
  <2>3. CASE ~CreatesPortfolio(call[s])
    <3> DEFINE row == [user |-> call[s].user, link |-> call[s].link]
    <3>1. /\ row \in GoalRow /\ UNCHANGED portfolios
          /\ goals' = [goals EXCEPT ![call[s].id] = row]
      BY <1>1, <2>1, <2>3 DEF Commit, GoalRow
    <3>2. call[s].id \in Goals /\ call[s].id \notin issued
      BY <1>1, <2>3, NamedRows DEF Commit
    <3> QED
      BY <1>0, <3>1, <3>2
  <2> QED
    BY <2>2, <2>3
<1>2. CASE UpdatePortfolio(s)
  BY <1>0, <1>2 DEF UpdatePortfolio, PortfolioRow
<1>3. CASE DeletePortfolio(s)
  BY <1>0, <1>3 DEF DeletePortfolio, Unlink, GoalRow, Links
<1>4. CASE UpdateGoal(s)
  <2>1. call[s].link \in Links
    BY <1>0, <1>4, CallTyped DEF UpdateGoal
  <2> QED
    BY <1>0, <1>4, <2>1 DEF UpdateGoal, GoalRow, OwnsGoal
<1>5. CASE DeleteGoal(s)
  BY <1>0, <1>5 DEF DeleteGoal
<1> QED
  BY <1>1, <1>2, <1>3, <1>4, <1>5 DEF Write

\* Issued ids after a write: the row committed is now known to all.
LEMMA WriteIssues ==
  ASSUME IInv, NEW s \in Requests, Write(s)
  PROVE  /\ Return(s)
         /\ pc[s] # "idle"
         /\ issued' = IF pc[s] = "commit" THEN issued \union {call[s].id} ELSE issued
  BY DEF Write, Commit, UpdatePortfolio, DeletePortfolio, UpdateGoal, DeleteGoal

LEMMA WriteTyped == ASSUME IInv, NEW s \in Requests, Write(s) PROVE TypeOK'
<1>1. issued' \in SUBSET (Portfolios \union Goals)
  BY WriteIssues, NamedRows DEF IInv, TypeOK
<1> QED
  BY <1>1, WriteIssues, WriteFades DEF IInv, TypeOK, Return, Stages

LEMMA WriteFresh == ASSUME IInv, NEW s \in Requests, Write(s) PROVE FreshIds'
<1>0. FreshIds /\ TypeOK
  BY DEF IInv
<1>1. \A r \in Requests : pc'[r] = "commit" => pc[r] = "commit" /\ call'[r] = call[r]
  BY <1>0, WriteIssues DEF TypeOK, Return
<1>2. ASSUME NEW p \in Portfolios, p \notin issued' PROVE portfolios'[p] = NoRow
  BY <1>0, <1>2, WriteIssues, NamedRows
     DEF TypeOK, FreshIds, Write, Commit, UpdatePortfolio, DeletePortfolio, UpdateGoal, DeleteGoal
<1>3. ASSUME NEW g \in Goals, g \notin issued' PROVE goals'[g] = NoRow
  BY <1>0, <1>3, WriteIssues, NamedRows
     DEF TypeOK, FreshIds, Write, Commit, UpdatePortfolio, DeletePortfolio, UpdateGoal, DeleteGoal,
         Unlink, OwnsGoal
<1> QED
  BY <1>0, <1>1, <1>2, <1>3 DEF FreshIds


\* The others' links, ownership checks and quota survive a write.
LEMMA WriteForOthers ==
  ASSUME IInv, NEW s \in Requests, Write(s), NEW r \in Requests, r # s
  PROVE  Known(r)'
<1>0. TypeOK /\ FreshIds /\ Known(r) /\ Known(s)
  BY DEF IInv
<1>1. pc'[r] = pc[r] /\ call'[r] = call[r]
  BY <1>0, WriteIssues DEF TypeOK, Return
<1> SUFFICES ASSUME pc[r] # "idle" PROVE Known(r)'
  BY <1>1, IdleKnows
<1>2. \A u \in Users : lock[u] = r => lock'[u] = r
  BY <1>0, WriteIssues DEF TypeOK, Return
<1>3. issued \subseteq issued'
  BY WriteIssues
<1>4. call[r].user \in Users /\ call[r].link \in Links /\ call[r].kind \in Kinds
  BY <1>0, CallTyped
<1>5. Fits(r)'
  BY <1>0, <1>1, <1>3
     DEF Known, Fits, Askable, Creates, CreatesPortfolio, CreatesGoal, EditsGoal
<1>6. Passed(r)'
  <2>1. pc[r] \in {"check", "apply"} /\ EditsGoal(call[r]) => call[r].id \in Goals \intersect issued
    BY <1>0 DEF Known, Fits, Askable, EditsGoal, Creates, CreatesPortfolio, CreatesGoal
  <2>2. pc[r] = "apply" /\ ~EditsGoal(call[r]) => call[r].id \in Portfolios \intersect issued
    BY NamedRows
  <2> QED
    BY <1>0, <1>1, <1>3, <1>4, <2>1, <2>2, WriteFades
       DEF Known, Passed, OwnOrGone, OnlyFades, Links, EditsGoal
<1>7. pc[r] \in {"insert", "commit"} => HasRoom(call[r])'
  <2> SUFFICES ASSUME pc[r] \in {"insert", "commit"} PROVE HasRoom(call[r])'
    OBVIOUS
  <2>1. /\ HasRoom(call[r]) /\ lock[call[r].user] = r
        /\ pc[s] = "commit" => call[s].user # call[r].user
    BY <1>0 DEF Known, Holds, Locking
  <2>2. /\ PortfoliosOf(call[r].user)' \subseteq PortfoliosOf(call[r].user)
        /\ GoalsOf(call[r].user)' \subseteq GoalsOf(call[r].user)
    BY <1>0, <1>1, <2>1, NoRowIsNotARow
       DEF TypeOK, PortfoliosOf, GoalsOf, Write, Commit, UpdatePortfolio, DeletePortfolio,
           UpdateGoal, DeleteGoal, Unlink, OwnsGoal, PortfolioRow, GoalRow
  <2>3. /\ Cardinality(PortfoliosOf(call[r].user)') <= Cardinality(PortfoliosOf(call[r].user))
        /\ Cardinality(GoalsOf(call[r].user)') <= Cardinality(GoalsOf(call[r].user))
        /\ Cardinality(PortfoliosOf(call[r].user)') \in Nat
        /\ Cardinality(GoalsOf(call[r].user)') \in Nat
    BY <2>2, FinitelyMany, FewerRows
  <2>4. /\ Cardinality(PortfoliosOf(call[r].user)) \in Nat
        /\ Cardinality(GoalsOf(call[r].user)) \in Nat
    BY FinitelyMany
  <2> QED
    BY <1>1, <2>1, <2>3, <2>4, QuotaParameters DEF HasRoom, CreatesPortfolio
<1>8. Holds(r)'
  BY <1>0, <1>1, <1>2, <1>4, <1>7 DEF Known, Holds, Locking
<1>9. Pending(r)'
  <2> SUFFICES ASSUME pc[r] = "commit" PROVE Pending(r)'
    BY <1>1 DEF Pending
  <2>1. Pending(r)
    BY <1>0 DEF Known
  <2>2. call[r].id \notin issued'
    BY <1>0, <2>1, WriteIssues DEF FreshIds, Pending
  <2>3. LinkStored(call[r])'
    <3> SUFFICES ASSUME call[r].link # NoLink PROVE portfolios'[call[r].link] # NoRow
      BY <1>1 DEF LinkStored
    <3>1. portfolios[call[r].link] # NoRow /\ call[r].link \in Portfolios
      BY <1>4, <2>1 DEF Pending, LinkStored, Links
    <3>2. call[r].link \in Referred
      BY DEF Referred
    <3>3. CASE Commit(s)
      <4>1. CASE CreatesPortfolio(call[s])
        <5> DEFINE row == [user |-> call[s].user, edited |-> FALSE]
        <5>0. call[s].user \in Users
          BY <1>0, <3>3, CallTyped DEF Commit
        <5>1. row \in PortfolioRow
          BY <5>0 DEF PortfolioRow
        <5>2. row # NoRow
          BY <5>1, NoRowIsNotARow
        <5> QED
          BY <1>0, <3>1, <3>3, <4>1, <5>2 DEF Commit, TypeOK
      <4>2. CASE ~CreatesPortfolio(call[s])
        BY <3>1, <3>3, <4>2 DEF Commit
      <4> QED
        BY <4>1, <4>2
    <3>4. CASE UpdatePortfolio(s)
      BY <1>0, <3>1, <3>4, NoRowIsNotARow DEF UpdatePortfolio, TypeOK, PortfolioRow
    <3>5. CASE DeletePortfolio(s)
      BY <1>0, <3>1, <3>2, <3>5 DEF DeletePortfolio, TypeOK
    <3>6. CASE UpdateGoal(s) \/ DeleteGoal(s)
      BY <3>1, <3>6 DEF UpdateGoal, DeleteGoal
    <3> QED
      BY <3>3, <3>4, <3>5, <3>6 DEF Write
  <2> QED
    BY <1>1, <2>1, <2>2, <2>3 DEF Pending, CreatesPortfolio
<1> QED
  BY <1>5, <1>6, <1>8, <1>9 DEF Known

LEMMA Invariance == Spec => []IInv
<1>1. ASSUME IInv, NEW s \in Requests, Step(s) PROVE IInv'
  <2>1. CASE Quiet(s)
    BY <1>1, <2>1, QuietTyped, QuietFresh, QuietForOthers, QuietForItself DEF IInv
  <2>2. CASE Insert(s)
    BY <1>1, <2>2, QuietTyped, InsertFresh, QuietForOthers, QuietForItself DEF IInv
  <2>3. CASE Write(s)
    <3>1. pc'[s] = "idle"
      BY <1>1, <2>3, WriteIssues DEF Return, IInv, TypeOK
    <3>2. Known(s)'
      BY <3>1, IdleKnows
    <3> QED
      BY <1>1, <2>3, <3>2, WriteTyped, WriteFresh, WriteForOthers DEF IInv
  <2> QED
    BY <1>1, <2>1, <2>2, <2>3 DEF Step, Quiet, Write
<1>2. ASSUME IInv, UNCHANGED vars PROVE IInv'
  BY <1>2
     DEF vars, rows, IInv, TypeOK, FreshIds, Known, Fits, Holds, Passed, Pending, HasRoom,
         PortfoliosOf, GoalsOf, LinkStored, OwnOrGone, Askable
<1>3. IInv /\ [Next]_vars => IInv'
  BY <1>1, <1>2 DEF Next
<1> QED
  BY <1>3, Initially, PTL DEF Spec

\* The type invariant, for any users, ids, requests and quotas.
THEOREM TypeCorrect == Spec => []TypeOK
<1>1. IInv => TypeOK
  BY DEF IInv
<1> QED
  BY <1>1, Invariance, PTL


-----------------------------------------------------------------------------
(***************************************************************************)
(* Accounts implements AccountsAtomic.                                     *)
(***************************************************************************)

\* Each write is the whole call, on the rows as they are, or changes nothing.
LEMMA WriteIsACall ==
  ASSUME IInv, AInv, NEW s \in Requests, Write(s)
  PROVE  UNCHANGED rows \/ CallOf(call[s].user)
<1> DEFINE c == call[s]
<1>0. TypeOK /\ FreshIds /\ Known(s) /\ pc[s] # "idle"
  BY WriteIssues DEF IInv
<1>1. c.user \in Users /\ c.link \in Links
  BY <1>0, CallTyped
<1>2. CASE Commit(s)
  <2>0. pc[s] = "commit" /\ HasRoom(c) /\ Pending(s)
    BY <1>0, <1>2 DEF Commit, Known, Holds
  <2>1. CASE CreatesPortfolio(c)
    <3>1. c.id \in Portfolios /\ portfolios[c.id] = NoRow
      BY <1>0, <2>0, <2>1 DEF Pending, FreshIds
    <3>2. AddPortfolio(c.user, c.id)
      BY <1>2, <2>0, <2>1, <3>1 DEF Commit, AddPortfolio, HasRoom
    <3> QED
      BY <3>1, <3>2 DEF CallOf
  <2>2. CASE ~CreatesPortfolio(c)
    <3>1. c.id \in Goals /\ goals[c.id] = NoRow
      BY <1>0, <2>0, <2>2 DEF Pending, FreshIds
    <3>2. c.link \in Linkable(c.user)
      BY <1>0, <1>1, <2>0
         DEF Known, Passed, Pending, LinkStored, OwnOrGone, Linkable, PortfoliosOf, Links, Creating
    <3>3. AddGoal(c.user, c.id, c.link)
      BY <1>2, <2>0, <2>2, <3>1, <3>2 DEF Commit, AddGoal, HasRoom
    <3> QED
      BY <1>1, <3>1, <3>3 DEF CallOf
  <2> QED
    BY <2>1, <2>2
<1>3. CASE UpdatePortfolio(s)
  <2>1. c.id \in Portfolios /\ OwnOrGone(portfolios[c.id], c.user)
    BY <1>0, <1>3, NamedRows DEF UpdatePortfolio, Known, Passed, EditsGoal
  <2>2. CASE portfolios[c.id] = NoRow
    BY <1>3, <2>2 DEF UpdatePortfolio, rows
  <2>3. CASE portfolios[c.id] # NoRow
    BY <1>3, <2>1, <2>3 DEF UpdatePortfolio, EditPortfolio, PortfoliosOf, OwnOrGone, CallOf
  <2> QED
    BY <2>2, <2>3
<1>4. CASE DeletePortfolio(s)
  <2>1. c.id \in Portfolios /\ OwnOrGone(portfolios[c.id], c.user)
    BY <1>0, <1>4, NamedRows DEF DeletePortfolio, Known, Passed, EditsGoal
  <2>2. portfolios[c.id] # NoRow => DropPortfolio(c.user, c.id)
    BY <1>4, <2>1 DEF DeletePortfolio, DropPortfolio, PortfoliosOf, OwnOrGone
  <2>3. ASSUME portfolios[c.id] = NoRow PROVE UNCHANGED rows
    <3>1. \A g \in Goals : goals[g] # NoRow => goals[g].link # c.id
      BY <2>1, <2>3, QuotaParameters DEF AInv, LinksAreOwn, Linkable, PortfoliosOf
    <3>2. goals' = goals
      BY <1>0, <1>4, <3>1 DEF DeletePortfolio, Unlink, TypeOK
    <3> QED
      BY <1>0, <1>4, <2>1, <2>3, <3>2 DEF DeletePortfolio, TypeOK, rows
  <2> QED
    BY <2>1, <2>2, <2>3 DEF CallOf
<1>5. CASE UpdateGoal(s)
  <2>1. c.id \in Goals
    BY <1>5, NamedRows DEF UpdateGoal, EditsGoal
  <2>2. CASE OwnsGoal(c.user, c.id) /\ LinkStored(c)
    <3>1. c.link \in Linkable(c.user)
      BY <1>0, <1>1, <1>5, <2>2
         DEF UpdateGoal, Known, Passed, LinkStored, OwnOrGone, Linkable, PortfoliosOf, Links
    <3>2. EditGoal(c.user, c.id, c.link)
      BY <1>5, <2>1, <2>2, <3>1 DEF UpdateGoal, EditGoal, GoalsOf, OwnsGoal
    <3> QED
      BY <1>1, <2>1, <3>2 DEF CallOf
  <2>3. CASE ~(OwnsGoal(c.user, c.id) /\ LinkStored(c))
    BY <1>5, <2>3 DEF UpdateGoal, rows
  <2> QED
    BY <2>2, <2>3
<1>6. CASE DeleteGoal(s)
  <2>1. c.id \in Goals /\ OwnOrGone(goals[c.id], c.user)
    BY <1>0, <1>6, NamedRows DEF DeleteGoal, Known, Passed, EditsGoal
  <2>2. CASE goals[c.id] = NoRow
    BY <1>0, <1>6, <2>2 DEF DeleteGoal, rows, TypeOK
  <2>3. CASE goals[c.id] # NoRow
    BY <1>6, <2>1, <2>3 DEF DeleteGoal, DropGoal, GoalsOf, OwnOrGone, CallOf
  <2> QED
    BY <2>2, <2>3
<1> QED
  BY <1>2, <1>3, <1>4, <1>5, <1>6 DEF Write


\* Every step is a whole call of the user whose request takes it, or no call.
LEMMA StepIsACall ==
  ASSUME IInv, AInv, [Next]_vars
  PROVE  [\E u \in Users : CallOf(u)]_rows
<1>1. ASSUME NEW s \in Requests, Step(s) PROVE [\E u \in Users : CallOf(u)]_rows
  <2>1. CASE Write(s)
    <3>1. call[s].user \in Users
      BY <2>1, WriteIssues, CallTyped DEF IInv
    <3> QED
      BY <2>1, <3>1, WriteIsACall
  <2>2. CASE ~Write(s)
    BY <1>1, <2>2
       DEF Step, Write, Start, FindGoal, CheckPortfolio, LockUser, Count, Insert, Fail, rows
  <2> QED
    BY <2>1, <2>2
<1> QED
  BY <1>1 DEF Next, vars

LEMMA Promised == Spec => [](IInv /\ AInv)
<1>1. Init => AInv
  BY AtomicInitially DEF Init
<1>2. IInv /\ AInv /\ [Next]_vars => AInv'
  <2> SUFFICES ASSUME IInv, AInv, [Next]_vars PROVE AInv'
    OBVIOUS
  <2>1. CASE \E u \in Users : CallOf(u)
    BY <2>1, AtomicQuota, AtomicTyped, AtomicLinks DEF AInv
  <2>2. CASE UNCHANGED rows
    BY <2>2 DEF rows, AInv, RowsTyped, WithinQuota, LinksAreOwn, PortfoliosOf, GoalsOf, Linkable
  <2> QED
    BY <2>1, <2>2, StepIsACall
<1> QED
  BY <1>1, <1>2, Invariance, PTL DEF Spec

\* Accounts implements whole calls on the stored rows, one at a time.
THEOREM Implements == Spec => ImplementsAtomicAccounts
<1>1. Init => AtomicInit
  BY DEF Init
<1>2. IInv /\ AInv /\ [Next]_vars => [\E u \in Users : CallOf(u)]_rows
  BY StepIsACall
<1> QED
  BY <1>1, <1>2, Promised, PTL DEF Spec, AtomicSpec, ImplementsAtomicAccounts

\* No number of concurrent creations exceeds a quota.
THEOREM Quotas == Spec => []WithinQuota
  BY Implements, AtomicPromises, PTL DEF ImplementsAtomicAccounts

\* No goal is ever linked to a missing portfolio or to another user's.
THEOREM OwnLinks == Spec => []LinksAreOwn
  BY Implements, AtomicPromises, PTL DEF ImplementsAtomicAccounts

\* Nobody but its owner changes or deletes a stored row.
THEOREM OnlyOwners == Spec => RowsChangeByTheirOwner
<1> DEFINE Changed ==
      /\ \A p \in Portfolios : portfolios[p] \notin {NoRow, portfolios'[p]} => Acts(portfolios[p].user)
      /\ \A g \in Goals : goals[g] \notin {NoRow, goals'[g]} => Acts(goals[g].user)
<1>1. ASSUME IInv, AInv, [Next]_vars PROVE [Changed]_vars
  <2>1. ASSUME NEW s \in Requests, Step(s) PROVE Changed
    <3>0. TypeOK /\ FreshIds /\ Known(s)
      BY <1>1 DEF IInv
    <3>1. CASE ~Write(s)
      BY <2>1, <3>1
         DEF Step, Write, Start, FindGoal, CheckPortfolio, LockUser, Count, Insert, Fail, rows
    <3>2. CASE Commit(s)
      <4>1. /\ CreatesPortfolio(call[s]) => portfolios[call[s].id] = NoRow
            /\ ~CreatesPortfolio(call[s]) => goals[call[s].id] = NoRow
        BY <1>1, <3>0, <3>2, NamedRows DEF Commit, FreshIds
      <4> QED
        BY <3>0, <3>2, <4>1 DEF Commit, TypeOK
    <3>3. CASE Write(s) /\ pc[s] = "apply"
      <4>1. Acts(call[s].user)
        BY <1>1, <3>0, <3>3, WriteIssues DEF Acts, Return, TypeOK
      <4>2. CASE UpdatePortfolio(s)
        BY <3>0, <3>3, <4>1, <4>2 DEF UpdatePortfolio, Known, Passed, EditsGoal, OwnOrGone, TypeOK
      <4>3. CASE DeletePortfolio(s)
        <5>1. call[s].id \in Portfolios /\ OwnOrGone(portfolios[call[s].id], call[s].user)
          BY <1>1, <3>0, <4>3, NamedRows DEF DeletePortfolio, Known, Passed, EditsGoal
        <5>2. ASSUME NEW g \in Goals, goals[g] \notin {NoRow, goals'[g]}
              PROVE  goals[g].user = call[s].user
          <6>1. goals[g].link = call[s].id
            BY <4>3, <5>2 DEF DeletePortfolio, Unlink
          <6> QED
            BY <1>1, <5>1, <5>2, <6>1, QuotaParameters
               DEF AInv, LinksAreOwn, Linkable, PortfoliosOf, OwnOrGone
        <5>3. ASSUME NEW p \in Portfolios, portfolios[p] \notin {NoRow, portfolios'[p]}
              PROVE  portfolios[p].user = call[s].user
          BY <3>0, <4>3, <5>1, <5>3 DEF DeletePortfolio, OwnOrGone, TypeOK
        <5> QED
          BY <4>1, <5>2, <5>3
      <4>4. CASE UpdateGoal(s)
        BY <3>0, <4>1, <4>4 DEF UpdateGoal, OwnsGoal, TypeOK
      <4>5. CASE DeleteGoal(s)
        BY <3>0, <4>1, <4>5 DEF DeleteGoal, Known, Passed, EditsGoal, OwnOrGone, TypeOK
      <4>6. CASE Commit(s)
        BY <3>3, <4>6 DEF Commit
      <4> QED
        BY <3>3, <4>2, <4>3, <4>4, <4>5, <4>6 DEF Write
    <3> QED
      BY <3>1, <3>2, <3>3
         DEF Write, UpdatePortfolio, DeletePortfolio, UpdateGoal, DeleteGoal
  <2> QED
    BY <1>1, <2>1 DEF Next
<1>2. IInv /\ AInv /\ [Next]_vars => [Changed]_vars
  BY <1>1
<1> QED
  BY <1>2, Promised, PTL DEF Spec, RowsChangeByTheirOwner

=============================================================================
