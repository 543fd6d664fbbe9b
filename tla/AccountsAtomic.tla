--------------------------- MODULE AccountsAtomic ---------------------------
(***************************************************************************)
(* What storing portfolios and goals promises the users: every call is one *)
(* indivisible step on the rows, no user gets more rows than the quota,    *)
(* and a goal is linked to a stored portfolio of its own user or to none.  *)
(***************************************************************************)
EXTENDS FiniteSets, Naturals

CONSTANTS
    Users,         \* stored users; nothing deletes a user
    Portfolios,    \* portfolio ids the database can generate
    Goals,         \* goal ids the database can generate
    MaxPortfolios, \* portfolio.max_portfolios_per_user
    MaxGoals,      \* goal.max_per_user
    NoRow,         \* no row is stored under this id
    NoLink         \* goals.portfolio_id is NULL

ASSUME QuotaParameters ==
    /\ IsFiniteSet(Portfolios) /\ IsFiniteSet(Goals)
    /\ Portfolios \intersect Goals = {}
    /\ MaxPortfolios \in Nat /\ MaxGoals \in Nat
    /\ NoLink \notin Portfolios \union Goals

Links == Portfolios \union {NoLink}

\* A portfolio's name and description are abstracted to whether they were edited.
PortfolioRow == [user : Users, edited : BOOLEAN]
GoalRow      == [user : Users, link : Links]

ASSUME NoRowIsNotARow == NoRow \notin PortfolioRow \union GoalRow

VARIABLES
    portfolios, \* rows of table portfolios, by id
    goals       \* rows of table goals, by id

rows == <<portfolios, goals>>

PortfoliosOf(u) == {p \in Portfolios : portfolios[p] # NoRow /\ portfolios[p].user = u}
GoalsOf(u)      == {g \in Goals : goals[g] # NoRow /\ goals[g].user = u}

\* A link user u may give a goal.
Linkable(u) == PortfoliosOf(u) \union {NoLink}

AtomicInit ==
    /\ portfolios = [p \in Portfolios |-> NoRow]
    /\ goals = [g \in Goals |-> NoRow]

AddPortfolio(u, p) ==
    /\ portfolios[p] = NoRow
    /\ Cardinality(PortfoliosOf(u)) < MaxPortfolios
    /\ portfolios' = [portfolios EXCEPT ![p] = [user |-> u, edited |-> FALSE]]
    /\ UNCHANGED goals

EditPortfolio(u, p) ==
    /\ p \in PortfoliosOf(u)
    /\ portfolios' = [portfolios EXCEPT ![p].edited = TRUE]
    /\ UNCHANGED goals

\* Mutant of Unlink: the migration without ON DELETE SET NULL (or any other rule).
LinksLeftDangling(p) == goals

\* Deleting a portfolio keeps the goals linked to it and clears the link.
Unlink(p) ==
    [g \in Goals |-> IF goals[g] # NoRow /\ goals[g].link = p
                     THEN [goals[g] EXCEPT !.link = NoLink] ELSE goals[g]]

DropPortfolio(u, p) ==
    /\ p \in PortfoliosOf(u)
    /\ portfolios' = [portfolios EXCEPT ![p] = NoRow]
    /\ goals' = Unlink(p)

AddGoal(u, g, link) ==
    /\ goals[g] = NoRow
    /\ Cardinality(GoalsOf(u)) < MaxGoals
    /\ link \in Linkable(u)
    /\ goals' = [goals EXCEPT ![g] = [user |-> u, link |-> link]]
    /\ UNCHANGED portfolios

EditGoal(u, g, link) ==
    /\ g \in GoalsOf(u)
    /\ link \in Linkable(u)
    /\ goals' = [goals EXCEPT ![g].link = link]
    /\ UNCHANGED portfolios

DropGoal(u, g) ==
    /\ g \in GoalsOf(u)
    /\ goals' = [goals EXCEPT ![g] = NoRow]
    /\ UNCHANGED portfolios

CallOf(u) ==
    \/ \E p \in Portfolios : AddPortfolio(u, p) \/ EditPortfolio(u, p) \/ DropPortfolio(u, p)
    \/ \E g \in Goals : \/ DropGoal(u, g)
                        \/ \E link \in Links : AddGoal(u, g, link) \/ EditGoal(u, g, link)

AtomicSpec == AtomicInit /\ [][\E u \in Users : CallOf(u)]_rows
=============================================================================
