------------------------------- MODULE Ledger -------------------------------
(***************************************************************************)
(* The transaction ledger of one portfolio as the repository runs it:      *)
(* concurrent requests, each a READ COMMITTED database transaction of      *)
(* several statements.  Ledger writes first take the portfolio row FOR     *)
(* UPDATE, then read the symbol's rows, write one, replay the symbol and   *)
(* rewrite the cached position, check the open-position limit and commit.  *)
(*                                                                         *)
(* One action is one SQL statement, with the Go code up to the next one.   *)
(* A statement sees the committed rows under the request's own writes;     *)
(* the writes become visible to others at commit.  Any statement can fail, *)
(* a connection can drop and a client can go away: Rollback.               *)
(***************************************************************************)
EXTENDS Positions

CONSTANTS
    Requests, \* request handlers running at the same time
    NoRequest \* "nobody holds the portfolio row"

ASSUME NoRequestIsNotARequest == NoRequest \notin Requests

VARIABLES
    exists,         \* the portfolio row is stored
    transactions,   \* committed portfolio_transactions
    positions,      \* committed portfolio_positions, by symbol
    issued,         \* transaction ids the database has generated, never reused
    lock,           \* who holds the portfolio row FOR UPDATE
    pc,             \* the next statement of each request
    op,             \* the call each request serves
    current,        \* the row the request writes (t, current, created)
    existing,       \* the symbol's rows as the request last loaded them
    before,         \* was the symbol open before the write (before.Shares > 0)
    rowWrites,      \* uncommitted changes to portfolio_transactions
    positionWrites  \* uncommitted changes to portfolio_positions

committed == <<exists, transactions, positions>>
locals    == <<op, current, existing, before, rowWrites, positionWrites>>
vars      == <<committed, issued, lock, pc, locals>>

Atomic == INSTANCE LedgerAtomic

-----------------------------------------------------------------------------
Calls ==
    [kind : {"create"}, row : NewRows]
        \union [kind : {"add"}, row : {t \in NewRows : t.side = "buy"}]
        \union [kind : {"update"}, id : TxIds, patch : Patches]
        \union [kind : {"delete"}, id : TxIds]
        \union [kind : {"remove"}, symbol : Symbols]
        \union [kind : {"drop"}]

NoCall == [kind |-> "none"]

\* Statements a request issues inside its database transaction, the lock taken.
InTransaction == {"read", "load", "write", "reload", "sync", "limit",
                  "removePosition", "removeRows", "commit"}

Stages == {"idle", "check", "find", "lock", "drop"} \union InTransaction

\* What a request changed but has not committed: a partial function.
IsChange(f, S, T) == DOMAIN f \subseteq S /\ f \in [DOMAIN f -> T]

NoChange == [x \in {} |-> NoRow]

Over(base, changes) ==
    [x \in DOMAIN base |-> IF x \in DOMAIN changes THEN changes[x] ELSE base[x]]

\* What a statement of request r sees.
RowsSeen(r) == Over(transactions, rowWrites[r])
PositionsSeen(r) == Over(positions, positionWrites[r])

Symbol(r) == current[r].symbol

TypeOK ==
    /\ exists \in BOOLEAN
    /\ transactions \in Ledgers
    /\ positions \in [Symbols -> Position \union {NoPosition}]
    /\ issued \in SUBSET TxIds
    /\ lock \in Requests \union {NoRequest}
    /\ pc \in [Requests -> Stages]
    /\ op \in [Requests -> Calls \union {NoCall}]
    /\ current \in [Requests -> Row \union {NoRow}]
    /\ existing \in [Requests -> Ledgers]
    /\ before \in [Requests -> BOOLEAN]
    /\ DOMAIN rowWrites = Requests
    /\ DOMAIN positionWrites = Requests
    /\ \A r \in Requests :
          /\ IsChange(rowWrites[r], TxIds, Row \union {NoRow})
          /\ IsChange(positionWrites[r], Symbols, Position \union {NoPosition})

Init ==
    /\ exists = TRUE
    /\ transactions = EmptyLedger
    /\ positions = [s \in Symbols |-> NoPosition]
    /\ issued = {}
    /\ lock = NoRequest
    /\ pc = [r \in Requests |-> "idle"]
    /\ op = [r \in Requests |-> NoCall]
    /\ current = [r \in Requests |-> NoRow]
    /\ existing = [r \in Requests |-> EmptyLedger]
    /\ before = [r \in Requests |-> FALSE]
    /\ rowWrites = [r \in Requests |-> NoChange]
    /\ positionWrites = [r \in Requests |-> NoChange]

-----------------------------------------------------------------------------
\* The request's call is over: its handler returns and its locals are gone.
Forget(r) ==
    /\ pc' = [pc EXCEPT ![r] = "idle"]
    /\ op' = [op EXCEPT ![r] = NoCall]
    /\ current' = [current EXCEPT ![r] = NoRow]
    /\ existing' = [existing EXCEPT ![r] = EmptyLedger]
    /\ before' = [before EXCEPT ![r] = FALSE]
    /\ rowWrites' = [rowWrites EXCEPT ![r] = NoChange]
    /\ positionWrites' = [positionWrites EXCEPT ![r] = NoChange]

Unlock(r) == lock' = IF lock = r THEN NoRequest ELSE lock

\* Mutant of Abandon: an early return that forgets to roll back.
AbandonWithoutRollback(r) ==
    /\ Forget(r)
    /\ UNCHANGED <<committed, issued, lock>>

\* The deferred tx.Rollback: the writes vanish and the row lock is released.
Abandon(r) ==
    /\ Forget(r)
    /\ Unlock(r)
    /\ UNCHANGED <<committed, issued>>

Goto(r, stage) == pc' = [pc EXCEPT ![r] = stage]

(***************************************************************************)
(* The use case.  ownedPortfolio finds the portfolio; with none stored the *)
(* call ends at once, so nothing starts.  None of these reads is under the *)
(* lock: what they saw may be stale when the statements below run.         *)
(***************************************************************************)
FirstStage(call) ==
    CASE call.kind = "add"    -> "check"
      [] call.kind = "update" -> "find"
      [] call.kind = "drop"   -> "drop"
      [] OTHER                -> "lock"

Start(r, call) ==
    /\ pc[r] = "idle"
    /\ exists
    /\ Goto(r, FirstStage(call))
    /\ op' = [op EXCEPT ![r] = call]
    /\ current' = [current EXCEPT ![r] = IF call.kind \in {"create", "add"}
                                         THEN call.row ELSE NoRow]
    /\ UNCHANGED <<committed, issued, lock, existing, before, rowWrites, positionWrites>>

\* AddPosition refuses a symbol that is an open position, then goes on as
\* CreateTransaction with a buy.
CheckNotOpen(r) ==
    /\ pc[r] = "check"
    /\ IF IsOpen(positions[Symbol(r)])
       THEN Abandon(r)
       ELSE /\ op' = [op EXCEPT ![r].kind = "create"]
            /\ Goto(r, "lock")
            /\ UNCHANGED <<committed, issued, lock, current, existing, before,
                           rowWrites, positionWrites>>

\* UpdateTransaction reads the row to validate the patch against it.
FindTransaction(r) ==
    /\ pc[r] = "find"
    /\ IF transactions[op[r].id] = NoRow
       THEN Abandon(r)
       ELSE Goto(r, "lock") /\ UNCHANGED <<committed, issued, lock, locals>>

\* DELETE FROM portfolios: one statement, which waits for the row lock.
DropPortfolio(r) ==
    /\ pc[r] = "drop"
    /\ lock = NoRequest
    /\ exists' = FALSE
    /\ transactions' = EmptyLedger
    /\ positions' = [s \in Symbols |-> NoPosition]
    /\ Forget(r)
    /\ UNCHANGED <<issued, lock>>

(***************************************************************************)
(* The ledger writes.                                                      *)
(***************************************************************************)
AfterLock(call) ==
    CASE call.kind = "create"               -> "load"
      [] call.kind \in {"update", "delete"} -> "read"
      [] call.kind = "remove"               -> "removePosition"

\* Mutant of LockFree: UpdateTransaction does not lock the portfolio row.
LockFreeForUpdates(r) == lock = NoRequest \/ op[r].kind = "update"

\* Mutant of LockFree: the SELECT has no FOR UPDATE.
LockNeverWaits(r) == TRUE

LockFree(r) == lock = NoRequest

\* BEGIN; SELECT ... FOR UPDATE: waits, then finds the row or finds it deleted.
LockPortfolio(r) ==
    /\ pc[r] = "lock"
    /\ LockFree(r)
    /\ IF exists
       THEN /\ lock' = r
            /\ Goto(r, AfterLock(op[r]))
            /\ UNCHANGED <<committed, issued, locals>>
       ELSE Abandon(r)

\* Update and delete re-read their row under the lock; an update patches it.
ReadCurrent(r) ==
    /\ pc[r] = "read"
    /\ LET stored == RowsSeen(r)[op[r].id]
       IN  IF stored = NoRow
           THEN Abandon(r)
           ELSE /\ current' = [current EXCEPT ![r] =
                                  IF op[r].kind = "update"
                                  THEN Apply(op[r].patch, stored) ELSE stored]
                /\ Goto(r, "load")
                /\ UNCHANGED <<committed, issued, lock, op, existing, before,
                               rowWrites, positionWrites>>

\* symbolTransactions, and the replay that tells whether the symbol is open.
LoadExisting(r) ==
    /\ pc[r] = "load"
    /\ LET rows == SymbolRows(RowsSeen(r), Symbol(r))
       IN  IF ~Replays(rows)
           THEN Abandon(r)
           ELSE /\ existing' = [existing EXCEPT ![r] = rows]
                /\ before' = [before EXCEPT ![r] = Figures(rows).shares > 0]
                /\ Goto(r, "write")
                /\ UNCHANGED <<committed, issued, lock, op, current, rowWrites, positionWrites>>

\* Mutant of InsertRow: syncPosition gets `existing` without the created row.
InsertWithoutAppend(r, i) ==
    /\ pc[r] = "write"
    /\ op[r].kind = "create"
    /\ i \notin issued
    /\ issued' = issued \union {i}
    /\ rowWrites' = [rowWrites EXCEPT ![r] = [x \in {i} |-> current[r]]]
    /\ Goto(r, "sync")
    /\ UNCHANGED <<committed, lock, op, current, existing, before, positionWrites>>

\* INSERT ... RETURNING: a new id, and `existing` gets the created row appended.
InsertRow(r, i) ==
    /\ pc[r] = "write"
    /\ op[r].kind = "create"
    /\ i \notin issued
    /\ issued' = issued \union {i}
    /\ rowWrites' = [rowWrites EXCEPT ![r] = [x \in {i} |-> current[r]]]
    /\ existing' = [existing EXCEPT ![r][i] = current[r]]
    /\ Goto(r, "sync")
    /\ UNCHANGED <<committed, lock, op, current, before, positionWrites>>

\* Bound: once TxIds is used up, inserts fail.
IdsExhausted(r) ==
    /\ pc[r] = "write"
    /\ op[r].kind = "create"
    /\ issued = TxIds
    /\ Abandon(r)

\* UPDATE or DELETE of the row by id; an UPDATE that matches no row fails.
RewriteRow(r) ==
    /\ pc[r] = "write"
    /\ op[r].kind \in {"update", "delete"}
    /\ IF op[r].kind = "update" /\ RowsSeen(r)[op[r].id] = NoRow
       THEN Abandon(r)
       ELSE /\ rowWrites' = [rowWrites EXCEPT ![r] =
                  [x \in {op[r].id} |-> IF op[r].kind = "update" THEN current[r] ELSE NoRow]]
            /\ Goto(r, "reload")
            /\ UNCHANGED <<committed, issued, lock, op, current, existing, before, positionWrites>>

Reload(r) ==
    /\ pc[r] = "reload"
    /\ existing' = [existing EXCEPT ![r] = SymbolRows(RowsSeen(r), Symbol(r))]
    /\ Goto(r, "sync")
    /\ UNCHANGED <<committed, issued, lock, op, current, before, rowWrites, positionWrites>>

\* syncPosition: replay the rows; refuse, delete the position or rewrite it.  The
\* upsert fails on a figure its column cannot store.
SyncPosition(r) ==
    /\ pc[r] = "sync"
    /\ IF ~Storable(existing[r])
       THEN Abandon(r)
       ELSE /\ positionWrites' = [positionWrites EXCEPT ![r] =
                  [s \in {Symbol(r)} |-> DerivedPosition(existing[r])]]
            /\ Goto(r, "limit")
            /\ UNCHANGED <<committed, issued, lock, op, current, existing, before, rowWrites>>

\* Mutant of LimitAllows: the limit is checked when a row is created only.
LimitOnCreateOnly(r) ==
    \/ op[r].kind # "create"
    \/ before[r]
    \/ ~IsOpen(positionWrites[r][Symbol(r)])
    \/ Cardinality(OpenSymbols(PositionsSeen(r)) \ {Symbol(r)}) < MaxPositions

\* checkPositionLimit: only a write that opens a symbol is counted.
LimitAllows(r) ==
    \/ before[r]
    \/ ~IsOpen(positionWrites[r][Symbol(r)])
    \/ Cardinality(OpenSymbols(PositionsSeen(r)) \ {Symbol(r)}) < MaxPositions

CheckLimit(r) ==
    /\ pc[r] = "limit"
    /\ IF LimitAllows(r)
       THEN Goto(r, "commit") /\ UNCHANGED <<committed, issued, lock, locals>>
       ELSE Abandon(r)

\* Remove: the position goes first, and tells whether there was anything to remove.
RemovePosition(r) ==
    /\ pc[r] = "removePosition"
    /\ IF PositionsSeen(r)[op[r].symbol] = NoPosition
       THEN Abandon(r)
       ELSE /\ positionWrites' = [positionWrites EXCEPT ![r] =
                                     [s \in {op[r].symbol} |-> NoPosition]]
            /\ Goto(r, "removeRows")
            /\ UNCHANGED <<committed, issued, lock, op, current, existing, before, rowWrites>>

\* Mutant of RemoveRows: the transactions are left to a cascade that does not exist.
RemoveRowsByCascade(r) ==
    /\ pc[r] = "removeRows"
    /\ Goto(r, "commit")
    /\ UNCHANGED <<committed, issued, lock, locals>>

RemoveRows(r) ==
    /\ pc[r] = "removeRows"
    /\ rowWrites' = [rowWrites EXCEPT ![r] =
          [x \in Stored(SymbolRows(RowsSeen(r), op[r].symbol)) |-> NoRow]]
    /\ Goto(r, "commit")
    /\ UNCHANGED <<committed, issued, lock, op, current, existing, before, positionWrites>>

Commit(r) ==
    /\ pc[r] = "commit"
    /\ transactions' = RowsSeen(r)
    /\ positions' = PositionsSeen(r)
    /\ Forget(r)
    /\ Unlock(r)
    /\ UNCHANGED <<exists, issued>>

\* A failed statement, a dropped connection, a cancelled context.
Rollback(r) == pc[r] # "idle" /\ Abandon(r)

Statement(r) ==
    \/ CheckNotOpen(r) \/ FindTransaction(r)
    \/ ReadCurrent(r) \/ LoadExisting(r)
    \/ (\E i \in TxIds : InsertRow(r, i)) \/ IdsExhausted(r)
    \/ RewriteRow(r) \/ Reload(r) \/ SyncPosition(r) \/ CheckLimit(r)
    \/ RemovePosition(r) \/ RemoveRows(r) \/ Commit(r)

WaitForRow(r) == LockPortfolio(r) \/ DropPortfolio(r)

Next ==
    \E r \in Requests :
        \/ \E call \in Calls : Start(r, call)
        \/ Statement(r)
        \/ WaitForRow(r)
        \/ Rollback(r)

Spec == Init /\ [][Next]_vars

(***************************************************************************)
(* A running request issues its next statement; PostgreSQL queues those    *)
(* that wait for a row, so a waiter is not passed over for ever.  Nothing  *)
(* has to start and nothing has to fail.                                   *)
(***************************************************************************)
FairSpec ==
    /\ Spec
    /\ \A r \in Requests : WF_vars(Statement(r)) /\ SF_vars(WaitForRow(r))

-----------------------------------------------------------------------------
\* The position rows are what a replay of the committed transactions derives:
\* "a cache derived from portfolio_transactions" (postgres.go:165).
PositionsMatchLedger ==
    \A s \in Symbols : positions[s] = DerivedPosition(SymbolRows(transactions, s))

\* "The stored ledger is always valid, so this replay cannot fail"
\* (postgres.go:692), whatever order edits, deletes and inserts committed in.
StoredLedgerReplays == \A s \in Symbols : Replays(SymbolRows(transactions, s))

\* "concurrent writes cannot both slip under the limit" (postgres.go:609): also when
\* an edit or the deletion of a sell reopens a closed symbol.
OpenPositionsWithinLimit == Cardinality(OpenSymbols(positions)) <= MaxPositions

\* An edit that committed after the use case's own read is merged, not overwritten
\* (postgres.go:744): committing an update changes in the stored row, as it is
\* at that moment, the patched fields and nothing else, and a row deleted meanwhile
\* stays deleted.
EditsMerge ==
    [][\A r \in Requests :
          op[r].kind = "update" /\ pc[r] = "commit" /\ pc'[r] = "idle" /\ transactions' # transactions
          => /\ transactions[op[r].id] # NoRow
             /\ transactions' = [transactions EXCEPT ![op[r].id] = Apply(op[r].patch, @)]]_vars

\* To callers, each write happens in one step on the committed rows or not at all,
\* with the outcome the repository interface promises (see LedgerAtomic).
ImplementsAtomicLedger == Atomic!Spec

\* A request never waits for ever on the portfolio row: every holder commits, or
\* returns early through the deferred rollback (postgres.go:216).
EveryCallReturns == \A r \in Requests : pc[r] # "idle" ~> pc[r] = "idle"
=============================================================================
