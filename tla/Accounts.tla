------------------------------ MODULE Accounts ------------------------------
(***************************************************************************)
(* Portfolios and goals as concurrent requests store them.  A use case     *)
(* first checks, outside any database transaction, that the rows the call  *)
(* names are the caller's.  The two creations then count and insert in a   *)
(* transaction that holds the user's row FOR UPDATE; every other write is  *)
(* one statement.  One action is one statement, with the Go code up to the *)
(* next one.  Any of them can fail, or its client go away: Fail.           *)
(*                                                                         *)
(* A row someone inserted and has not committed is visible to nobody else, *)
(* but its foreign key holds the portfolio it refers to: a DELETE of that  *)
(* portfolio waits for the commit, and then sees the goal.                 *)
(***************************************************************************)
EXTENDS AccountsAtomic

CONSTANTS
    Requests,  \* request handlers running at the same time
    NoRequest  \* "nobody holds the user row"

ASSUME NoRequestIsNotARequest == NoRequest \notin Requests

VARIABLES
    issued, \* ids the database has generated for a stored row, never reused
    lock,   \* who holds each user row FOR UPDATE
    pc,     \* the next statement of each request
    call    \* the call each request serves

vars == <<rows, issued, lock, pc, call>>

-----------------------------------------------------------------------------
Kinds == {"createPortfolio", "updatePortfolio", "deletePortfolio",
          "createGoal", "updateGoal", "deleteGoal"}

\* `id` is the row the call names; the creations learn it when they insert.
Call == [kind : Kinds, user : Users, id : Portfolios \union Goals \union {NoLink}, link : Links]

NoCall == [kind |-> "none"]

CreatesPortfolio(c) == c.kind = "createPortfolio"
CreatesGoal(c)      == c.kind = "createGoal"
Creates(c)          == CreatesPortfolio(c) \/ CreatesGoal(c)
EditsGoal(c)        == c.kind \in {"updateGoal", "deleteGoal"}

\* What a handler can hand to the use case: ids that clients have seen.
Askable(c) ==
    /\ c.link \in issued \union {NoLink}
    /\ c.kind \notin {"createGoal", "updateGoal"} => c.link = NoLink
    /\ CASE Creates(c)   -> c.id = NoLink
         [] EditsGoal(c) -> c.id \in issued \intersect Goals
         [] OTHER        -> c.id \in issued \intersect Portfolios

Stages == {"idle", "find", "check", "lock", "count", "insert", "commit", "apply"}

\* Inserted and not committed: ids and links of the rows only their request sees.
Inserted == {call[r].id : r \in {q \in Requests : pc[q] = "commit"}}
Referred == {call[r].link : r \in {q \in Requests : pc[q] = "commit"}}

TypeOK ==
    /\ portfolios \in [Portfolios -> PortfolioRow \union {NoRow}]
    /\ goals \in [Goals -> GoalRow \union {NoRow}]
    /\ issued \in SUBSET (Portfolios \union Goals)
    /\ lock \in [Users -> Requests \union {NoRequest}]
    /\ pc \in [Requests -> Stages]
    /\ call \in [Requests -> Call \union {NoCall}]
    /\ \A r \in Requests : pc[r] = "idle" <=> call[r] = NoCall

Init ==
    /\ AtomicInit
    /\ issued = {}
    /\ lock = [u \in Users |-> NoRequest]
    /\ pc = [r \in Requests |-> "idle"]
    /\ call = [r \in Requests |-> NoCall]

-----------------------------------------------------------------------------
Goto(r, stage) ==
    /\ pc' = [pc EXCEPT ![r] = stage]
    /\ UNCHANGED call

\* The call is over; a transaction still open ends and its row lock goes.
Return(r) ==
    /\ pc' = [pc EXCEPT ![r] = "idle"]
    /\ call' = [call EXCEPT ![r] = NoCall]
    /\ lock' = [u \in Users |-> IF lock[u] = r THEN NoRequest ELSE lock[u]]

\* Past `guard` the request goes on with `stage`, otherwise it returns an error.
Proceed(r, guard, stage) ==
    \/ /\ guard
       /\ Goto(r, stage)
       /\ UNCHANGED lock
    \/ /\ ~guard
       /\ Return(r)

\* The user is looked up by the email of his token: always a stored user.
Start(r, c) ==
    /\ pc[r] = "idle"
    /\ Askable(c)
    /\ call' = [call EXCEPT ![r] = c]
    /\ pc' = [pc EXCEPT ![r] = CASE CreatesPortfolio(c) -> "lock"
                                 [] EditsGoal(c)        -> "find"
                                 [] OTHER               -> "check"]
    /\ UNCHANGED <<rows, issued, lock>>

OwnsGoal(u, g) == goals[g] # NoRow /\ goals[g].user = u

FindGoal(r) ==
    /\ pc[r] = "find"
    /\ Proceed(r, OwnsGoal(call[r].user, call[r].id),
               IF call[r].kind = "updateGoal" THEN "check" ELSE "apply")
    /\ UNCHANGED <<rows, issued>>

OwnsPortfolio(u, p) == portfolios[p] # NoRow /\ portfolios[p].user = u

\* ownedPortfolio for the portfolio named, checkPortfolio for a goal's link.
CheckPortfolio(r) ==
    LET c == call[r]
        named == IF c.kind \in {"createGoal", "updateGoal"} THEN c.link ELSE c.id
    IN  /\ pc[r] = "check"
        /\ Proceed(r, named # NoLink => OwnsPortfolio(c.user, named),
                   IF CreatesGoal(c) THEN "lock" ELSE "apply")
        /\ UNCHANGED <<rows, issued>>

-----------------------------------------------------------------------------
\* Mutant of LockUser: SELECT ... FOR SHARE, which does not exclude another.
LockUserShared(r) ==
    /\ pc[r] = "lock"
    /\ Goto(r, "count")
    /\ UNCHANGED <<rows, issued, lock>>

LockUser(r) ==
    /\ pc[r] = "lock"
    /\ lock[call[r].user] = NoRequest
    /\ lock' = [lock EXCEPT ![call[r].user] = r]
    /\ Goto(r, "count")
    /\ UNCHANGED <<rows, issued>>

HasRoom(c) ==
    IF CreatesPortfolio(c) THEN Cardinality(PortfoliosOf(c.user)) < MaxPortfolios
                           ELSE Cardinality(GoalsOf(c.user)) < MaxGoals

\* At the quota the call ends with ErrPortfolioLimitReached or ErrGoalLimitReached.
Count(r) ==
    /\ pc[r] = "count"
    /\ Proceed(r, HasRoom(call[r]), "insert")
    /\ UNCHANGED <<rows, issued>>

\* The foreign key of goals.portfolio_id: the link is stored at this moment.
LinkStored(c) == c.link # NoLink => portfolios[c.link] # NoRow

\* A new row under a fresh id; a link that is gone is refused (ErrInvalidPortfolio).
Insert(r) ==
    /\ pc[r] = "insert"
    /\ \/ \E id \in (IF CreatesPortfolio(call[r]) THEN Portfolios ELSE Goals) :
             /\ LinkStored(call[r])
             /\ id \notin issued \union Inserted
             /\ call' = [call EXCEPT ![r].id = id]
             /\ pc' = [pc EXCEPT ![r] = "commit"]
             /\ UNCHANGED lock
       \/ /\ ~LinkStored(call[r])
          /\ Return(r)
    /\ UNCHANGED <<rows, issued>>

Commit(r) ==
    LET c == call[r]
    IN  /\ pc[r] = "commit"
        /\ IF CreatesPortfolio(c)
           THEN /\ portfolios' = [portfolios EXCEPT ![c.id] = [user |-> c.user, edited |-> FALSE]]
                /\ UNCHANGED goals
           ELSE /\ goals' = [goals EXCEPT ![c.id] = [user |-> c.user, link |-> c.link]]
                /\ UNCHANGED portfolios
        /\ issued' = issued \union {c.id}
        /\ Return(r)

-----------------------------------------------------------------------------
\* UPDATE ... WHERE id: no row is ErrPortfolioNotFound.
UpdatePortfolio(r) ==
    LET p == call[r].id
    IN  /\ pc[r] = "apply"
        /\ call[r].kind = "updatePortfolio"
        /\ portfolios' = IF portfolios[p] = NoRow THEN portfolios
                         ELSE [portfolios EXCEPT ![p].edited = TRUE]
        /\ Return(r)
        /\ UNCHANGED <<goals, issued>>

\* Mutant of DeletePortfolio: as if the foreign key did not hold the portfolio.
DeleteWithoutWaiting(r) ==
    LET p == call[r].id
    IN  /\ pc[r] = "apply"
        /\ call[r].kind = "deletePortfolio"
        /\ portfolios' = [portfolios EXCEPT ![p] = NoRow]
        /\ goals' = Unlink(p)
        /\ Return(r)
        /\ UNCHANGED issued

DeletePortfolio(r) ==
    LET p == call[r].id
    IN  /\ pc[r] = "apply"
        /\ call[r].kind = "deletePortfolio"
        /\ p \notin Referred
        /\ portfolios' = [portfolios EXCEPT ![p] = NoRow]
        /\ goals' = Unlink(p)
        /\ Return(r)
        /\ UNCHANGED issued

\* UPDATE ... WHERE id AND user_id, and the same foreign key on the new link.
UpdateGoal(r) ==
    LET c == call[r]
    IN  /\ pc[r] = "apply"
        /\ c.kind = "updateGoal"
        /\ goals' = IF OwnsGoal(c.user, c.id) /\ LinkStored(c)
                    THEN [goals EXCEPT ![c.id].link = c.link] ELSE goals
        /\ Return(r)
        /\ UNCHANGED <<portfolios, issued>>

DeleteGoal(r) ==
    /\ pc[r] = "apply"
    /\ call[r].kind = "deleteGoal"
    /\ goals' = [goals EXCEPT ![call[r].id] = NoRow]
    /\ Return(r)
    /\ UNCHANGED <<portfolios, issued>>

\* A statement fails, the connection drops or the client goes away: the handler
\* returns, and the deferred Rollback drops what it inserted.
Fail(r) ==
    /\ pc[r] # "idle"
    /\ Return(r)
    /\ UNCHANGED <<rows, issued>>

Step(r) ==
    \/ \E c \in Call : Start(r, c)
    \/ FindGoal(r) \/ CheckPortfolio(r)
    \/ LockUser(r) \/ Count(r) \/ Insert(r) \/ Commit(r)
    \/ UpdatePortfolio(r) \/ DeletePortfolio(r)
    \/ UpdateGoal(r) \/ DeleteGoal(r)
    \/ Fail(r)

Next == \E r \in Requests : Step(r)

Spec == Init /\ [][Next]_vars

-----------------------------------------------------------------------------
\* However many creations run at once, no user ends up with more portfolios or
\* goals than the configured maximum (the comments in CreatePortfolio and in
\* Create of the goals: concurrent creates cannot both pass the count).
WithinQuota ==
    \A u \in Users : /\ Cardinality(PortfoliosOf(u)) <= MaxPortfolios
                     /\ Cardinality(GoalsOf(u)) <= MaxGoals

\* A stored goal is linked to no portfolio or to a stored one of its own user,
\* although the link was checked before the write and the portfolio may have been
\* deleted since (checkPortfolio, the foreign key and its ON DELETE SET NULL).
LinksAreOwn ==
    \A g \in Goals : goals[g] # NoRow => goals[g].link \in Linkable(goals[g].user)

\* A stored row changes only in a call of the user it belongs to, although the
\* statements of four of the calls name it by id alone (ownedGoal, ownedPortfolio).
Acts(u) == \E r \in Requests : pc[r] = "apply" /\ pc'[r] = "idle" /\ call[r].user = u

RowsChangeByTheirOwner ==
    [][/\ \A p \in Portfolios : portfolios[p] \notin {NoRow, portfolios'[p]} => Acts(portfolios[p].user)
       /\ \A g \in Goals : goals[g] \notin {NoRow, goals'[g]} => Acts(goals[g].user)]_vars

\* Every interleaving of the statements amounts to whole calls, one at a time,
\* on the stored rows: one that passed its checks on rows that are stale by now
\* either does what the call would do to the rows as they are, or nothing.
ImplementsAtomicAccounts == AtomicSpec
=============================================================================
