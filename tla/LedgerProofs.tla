---------------------------- MODULE LedgerProofs ----------------------------
(***************************************************************************)
(* Proofs about Ledger, for any number of requests, symbols and rows.      *)
(*                                                                         *)
(* The argument: the portfolio row lock makes the requests inside a        *)
(* database transaction mutually exclusive (LockHolderAlone), so what the  *)
(* holder reads stays what is committed until it commits, and its locals   *)
(* are functions of the committed rows (Prepared).  Hence a commit is one  *)
(* step of LedgerAtomic, whose steps keep position rows and transactions   *)
(* in agreement.  Nothing is used about what Replay computes except that a *)
(* symbol without rows derives no position.                                *)
(***************************************************************************)
EXTENDS Ledger, FiniteSetTheorems, TLAPS

-----------------------------------------------------------------------------
\* Type correctness, and that the portfolio row lock makes the requests inside a database
\* transaction mutually exclusive.

\* Only the request that holds the portfolio row is inside a transaction.
LockHolderAlone ==
    /\ \A r \in Requests : pc[r] \in InTransaction <=> lock = r
    /\ lock # NoRequest => exists

\* A deleted portfolio left no rows behind.
NothingWithoutPortfolio ==
    ~exists => /\ transactions = EmptyLedger
               /\ positions = [s \in Symbols |-> NoPosition]

RowWriters == {"create", "update", "delete"}

\* Which call each stage belongs to.
StageFitsCall(r) ==
    /\ pc[r] \in {"read", "reload"} => op[r].kind \in {"update", "delete"}
    /\ pc[r] \in {"load", "write", "sync", "limit"} => op[r].kind \in RowWriters
    /\ pc[r] \in {"removePosition", "removeRows"} => op[r].kind = "remove"
    /\ pc[r] \in {"lock", "commit"} => op[r].kind \in RowWriters \union {"remove"}
    /\ pc[r] = "check" => op[r].kind = "add"
    /\ pc[r] = "find" => op[r].kind = "update"

\* Stages with the row to write at hand.
Loaded == {"load", "write", "reload", "sync", "limit", "commit"}

\* A request that writes one row knows the row from the moment it needs its symbol.
CurrentIsRow(r) ==
    /\ op[r].kind \in {"create", "add"} => current[r] = op[r].row
    /\ op[r].kind \in RowWriters /\ pc[r] \in Loaded => current[r] \in Row

Shape == \A r \in Requests : StageFitsCall(r) /\ CurrentIsRow(r)

-----------------------------------------------------------------------------
(***************************************************************************)
(* Typing.                                                                 *)
(***************************************************************************)
LEMMA CallTyping ==
    ASSUME TypeOK, NEW r \in Requests
    PROVE  /\ op[r].kind \in {"create", "add"} => op[r].row \in NewRows
           /\ op[r].kind \in {"update", "delete"} => op[r].id \in TxIds
           /\ op[r].kind = "update" => op[r].patch \in Patches
           /\ op[r].kind = "remove" => op[r].symbol \in Symbols
  <1>1. op[r] \in Calls \union {NoCall}
    BY DEF TypeOK
  <1>. QED
    BY <1>1 DEF Calls, NoCall

LEMMA SymbolRowsTyping ==
    ASSUME NEW l \in Ledgers, NEW s
    PROVE  SymbolRows(l, s) \in Ledgers
  BY DEF Ledgers, SymbolRows

LEMMA SeenTyping ==
    ASSUME TypeOK, NEW r \in Requests
    PROVE  /\ RowsSeen(r) \in Ledgers
           /\ PositionsSeen(r) \in [Symbols -> Position \union {NoPosition}]
  <1>1. /\ transactions \in [TxIds -> Row \union {NoRow}]
        /\ positions \in [Symbols -> Position \union {NoPosition}]
        /\ IsChange(rowWrites[r], TxIds, Row \union {NoRow})
        /\ IsChange(positionWrites[r], Symbols, Position \union {NoPosition})
    BY DEF TypeOK, Ledgers
  <1>2. RowsSeen(r) \in [TxIds -> Row \union {NoRow}]
    BY <1>1 DEF RowsSeen, Over, IsChange
  <1>3. PositionsSeen(r) \in [Symbols -> Position \union {NoPosition}]
    BY <1>1 DEF PositionsSeen, Over, IsChange
  <1>. QED
    BY <1>2, <1>3 DEF Ledgers

LEMMA NoChangeTyping ==
    IsChange(NoChange, TxIds, Row \union {NoRow})
      /\ IsChange(NoChange, Symbols, Position \union {NoPosition})
  BY DEF NoChange, IsChange

LEMMA InitTyping == Init => TypeOK /\ Shape
  <1>. SUFFICES ASSUME Init PROVE TypeOK /\ Shape
    OBVIOUS
  <1>1. EmptyLedger \in Ledgers
    BY DEF EmptyLedger, Ledgers
  <1>2. TypeOK
    BY <1>1, NoChangeTyping DEF Init, TypeOK, Stages, InTransaction
  <1>3. Shape
    BY DEF Init, Shape, StageFitsCall, CurrentIsRow, NoCall, RowWriters, Loaded
  <1>. QED
    BY <1>2, <1>3

\* A request whose call is over is well typed, whatever it was doing.
LEMMA ForgetTyping ==
    ASSUME TypeOK, Shape, NEW r \in Requests, Forget(r),
           transactions' \in Ledgers, exists' \in BOOLEAN,
           positions' \in [Symbols -> Position \union {NoPosition}],
           lock' \in Requests \union {NoRequest}, issued' \in SUBSET TxIds
    PROVE  TypeOK' /\ Shape'
  <1>1. EmptyLedger \in Ledgers
    BY DEF EmptyLedger, Ledgers
  <1>2. TypeOK'
    BY <1>1, NoChangeTyping DEF Forget, TypeOK, Stages
  <1>3. Shape'
    BY DEF Forget, TypeOK, Shape, StageFitsCall, CurrentIsRow, NoCall, RowWriters, Loaded
  <1>. QED
    BY <1>2, <1>3

LEMMA AbandonTyping ==
    ASSUME TypeOK, Shape, NEW r \in Requests, Abandon(r)
    PROVE  TypeOK' /\ Shape'
  BY ForgetTyping DEF Abandon, Unlock, committed, TypeOK

LEMMA StatementTyping ==
    ASSUME TypeOK, Shape, NEW r \in Requests, Statement(r)
    PROVE  TypeOK' /\ Shape'
  <1>. USE DEF Goto, committed, locals
  <1>0. Abandon(r) => TypeOK' /\ Shape'
    BY AbandonTyping
  <1>1. CASE CheckNotOpen(r)
    <2>1. CASE IsOpen(positions[Symbol(r)])
      BY <1>0, <1>1, <2>1 DEF CheckNotOpen
    <2>2. CASE ~IsOpen(positions[Symbol(r)])
      <3>1. op[r].kind = "add" /\ op[r] \in Calls
        BY <1>1 DEF CheckNotOpen, Shape, StageFitsCall, TypeOK, NoCall
      <3>2. [op[r] EXCEPT !.kind = "create"] \in Calls
        BY <3>1 DEF Calls
      <3>3. TypeOK'
        BY <1>1, <2>2, <3>2 DEF CheckNotOpen, TypeOK, Stages
      <3>4. Shape'
        BY <1>1, <2>2, <3>1 DEF CheckNotOpen, TypeOK, Shape, StageFitsCall, CurrentIsRow,
                                RowWriters, Loaded, Calls
      <3>. QED
        BY <3>3, <3>4
    <2>. QED
      BY <2>1, <2>2
  <1>2. CASE FindTransaction(r)
    <2>1. CASE transactions[op[r].id] = NoRow
      BY <1>0, <1>2, <2>1 DEF FindTransaction
    <2>2. CASE transactions[op[r].id] # NoRow
      <3>1. TypeOK'
        BY <1>2, <2>2 DEF FindTransaction, TypeOK, Stages
      <3>2. Shape'
        BY <1>2, <2>2 DEF FindTransaction, TypeOK, Shape, StageFitsCall, CurrentIsRow,
                          RowWriters, Loaded
      <3>. QED
        BY <3>1, <3>2
    <2>. QED
      BY <2>1, <2>2
  <1>3. CASE ReadCurrent(r)
    <2>. DEFINE stored == RowsSeen(r)[op[r].id]
    <2>1. CASE stored = NoRow
      BY <1>0, <1>3, <2>1 DEF ReadCurrent
    <2>2. CASE stored # NoRow
      <3>0. op[r].kind \in {"update", "delete"}
        BY <1>3 DEF ReadCurrent, Shape, StageFitsCall
      <3>1. stored \in Row
        BY <2>2, <3>0, CallTyping, SeenTyping DEF Ledgers
      <3>2. op[r].kind = "update" => Apply(op[r].patch, stored) \in Row
        BY <3>1, CallTyping, InputsAreValidated
      <3>. DEFINE new == IF op[r].kind = "update" THEN Apply(op[r].patch, stored) ELSE stored
      <3>3. new \in Row
        BY <3>1, <3>2
      <3>4. /\ current' = [current EXCEPT ![r] = new]
            /\ pc' = [pc EXCEPT ![r] = "load"]
            /\ UNCHANGED <<committed, issued, lock, op, existing, before, rowWrites, positionWrites>>
        BY <1>3, <2>2 DEF ReadCurrent
      <3>. HIDE DEF new, stored
      <3>5. TypeOK'
        BY <3>3, <3>4 DEF TypeOK, Stages, InTransaction
      <3>6. Shape'
        BY <3>0, <3>3, <3>4 DEF TypeOK, Shape, StageFitsCall, CurrentIsRow, RowWriters, Loaded
      <3>. QED
        BY <3>5, <3>6
    <2>. QED
      BY <2>1, <2>2
  <1>4. CASE LoadExisting(r)
    <2>. DEFINE rows == SymbolRows(RowsSeen(r), Symbol(r))
    <2>1. CASE ~Replays(rows)
      BY <1>0, <1>4, <2>1 DEF LoadExisting
    <2>2. CASE Replays(rows)
      <3>1. rows \in Ledgers
        BY SeenTyping, SymbolRowsTyping
      <3>2. /\ existing' = [existing EXCEPT ![r] = rows]
            /\ before' = [before EXCEPT ![r] = Figures(rows).shares > 0]
            /\ pc' = [pc EXCEPT ![r] = "write"]
            /\ pc[r] = "load"
            /\ UNCHANGED <<committed, issued, lock, op, current, rowWrites, positionWrites>>
        BY <1>4, <2>2 DEF LoadExisting
      <3>3. (Figures(rows).shares > 0) \in BOOLEAN
        OBVIOUS
      <3>. HIDE DEF rows
      <3>4. TypeOK'
        BY <3>1, <3>2, <3>3 DEF TypeOK, Stages, InTransaction
      <3>5. Shape'
        BY <3>2 DEF TypeOK, Shape, StageFitsCall, CurrentIsRow, RowWriters, Loaded
      <3>. QED
        BY <3>4, <3>5
    <2>. QED
      BY <2>1, <2>2
  <1>5. ASSUME NEW i \in TxIds, InsertRow(r, i)
        PROVE  TypeOK' /\ Shape'
    <2>1. current[r] \in Row
      BY <1>5 DEF InsertRow, Shape, CurrentIsRow, RowWriters, Loaded
    <2>2. IsChange([x \in {i} |-> current[r]], TxIds, Row \union {NoRow})
      BY <2>1 DEF IsChange
    <2>3. [existing[r] EXCEPT ![i] = current[r]] \in Ledgers
      BY <2>1 DEF TypeOK, Ledgers
    <2>4. TypeOK'
      BY <1>5, <2>2, <2>3 DEF InsertRow, TypeOK, Stages, InTransaction
    <2>5. Shape'
      BY <1>5 DEF InsertRow, TypeOK, Shape, StageFitsCall, CurrentIsRow, RowWriters, Loaded
    <2>. QED
      BY <2>4, <2>5
  <1>6. CASE IdsExhausted(r)
    BY <1>0, <1>6 DEF IdsExhausted
  <1>7. CASE RewriteRow(r)
    <2>1. CASE op[r].kind = "update" /\ RowsSeen(r)[op[r].id] = NoRow
      BY <1>0, <1>7, <2>1 DEF RewriteRow
    <2>2. CASE ~(op[r].kind = "update" /\ RowsSeen(r)[op[r].id] = NoRow)
      <3>1. current[r] \in Row /\ op[r].id \in TxIds
        BY <1>7, CallTyping DEF RewriteRow, Shape, CurrentIsRow, RowWriters, Loaded
      <3>. DEFINE w == [x \in {op[r].id} |-> IF op[r].kind = "update" THEN current[r] ELSE NoRow]
      <3>2. IsChange(w, TxIds, Row \union {NoRow})
        BY <3>1 DEF IsChange
      <3>3. /\ rowWrites' = [rowWrites EXCEPT ![r] = w]
            /\ pc[r] = "write"
            /\ op[r].kind \in {"update", "delete"}
            /\ pc' = [pc EXCEPT ![r] = "reload"]
            /\ UNCHANGED <<committed, issued, lock, op, current, existing, before, positionWrites>>
        BY <1>7, <2>2 DEF RewriteRow
      <3>. HIDE DEF w
      <3>4. TypeOK'
        BY <3>2, <3>3 DEF TypeOK, Stages, InTransaction
      <3>5. Shape'
        BY <3>3 DEF TypeOK, Shape, StageFitsCall, CurrentIsRow, RowWriters, Loaded
      <3>. QED
        BY <3>4, <3>5
    <2>. QED
      BY <2>1, <2>2
  <1>8. CASE Reload(r)
    <2>1. SymbolRows(RowsSeen(r), Symbol(r)) \in Ledgers
      BY SeenTyping, SymbolRowsTyping
    <2>2. TypeOK'
      BY <1>8, <2>1 DEF Reload, TypeOK, Stages, InTransaction
    <2>3. Shape'
      BY <1>8 DEF Reload, TypeOK, Shape, StageFitsCall, CurrentIsRow, RowWriters, Loaded
    <2>. QED
      BY <2>2, <2>3
  <1>9. CASE SyncPosition(r)
    <2>1. CASE ~Storable(existing[r])
      BY <1>0, <1>9, <2>1 DEF SyncPosition
    <2>2. CASE Storable(existing[r])
      <3>1. current[r] \in Row
        BY <1>9 DEF SyncPosition, Shape, StageFitsCall, CurrentIsRow, Loaded
      <3>2. Symbol(r) \in Symbols /\ DerivedPosition(existing[r]) \in Position \union {NoPosition}
        BY <2>2, <3>1 DEF Symbol, Row, Storable, DerivedPosition
      <3>. DEFINE w == [s \in {Symbol(r)} |-> DerivedPosition(existing[r])]
      <3>3. IsChange(w, Symbols, Position \union {NoPosition})
        BY <3>2 DEF IsChange
      <3>4. /\ positionWrites' = [positionWrites EXCEPT ![r] = w]
            /\ pc[r] = "sync"
            /\ pc' = [pc EXCEPT ![r] = "limit"]
            /\ UNCHANGED <<committed, issued, lock, op, current, existing, before, rowWrites>>
        BY <1>9, <2>2 DEF SyncPosition
      <3>. HIDE DEF w
      <3>5. TypeOK'
        BY <3>3, <3>4 DEF TypeOK, Stages, InTransaction
      <3>6. Shape'
        BY <3>4 DEF TypeOK, Shape, StageFitsCall, CurrentIsRow, RowWriters, Loaded
      <3>. QED
        BY <3>5, <3>6
    <2>. QED
      BY <2>1, <2>2
  <1>10. CASE CheckLimit(r)
    <2>1. CASE ~LimitAllows(r)
      BY <1>0, <1>10, <2>1 DEF CheckLimit
    <2>2. CASE LimitAllows(r)
      <3>1. TypeOK'
        BY <1>10, <2>2 DEF CheckLimit, TypeOK, Stages, InTransaction
      <3>2. Shape'
        BY <1>10, <2>2 DEF CheckLimit, TypeOK, Shape, StageFitsCall, CurrentIsRow,
                           RowWriters, Loaded
      <3>. QED
        BY <3>1, <3>2
    <2>. QED
      BY <2>1, <2>2
  <1>11. CASE RemovePosition(r)
    <2>1. CASE PositionsSeen(r)[op[r].symbol] = NoPosition
      BY <1>0, <1>11, <2>1 DEF RemovePosition
    <2>2. CASE PositionsSeen(r)[op[r].symbol] # NoPosition
      <3>1. op[r].symbol \in Symbols
        BY <1>11, CallTyping DEF RemovePosition, Shape, StageFitsCall
      <3>2. IsChange([s \in {op[r].symbol} |-> NoPosition], Symbols, Position \union {NoPosition})
        BY <3>1 DEF IsChange
      <3>3. TypeOK'
        BY <1>11, <2>2, <3>2 DEF RemovePosition, TypeOK, Stages, InTransaction
      <3>4. Shape'
        BY <1>11, <2>2 DEF RemovePosition, TypeOK, Shape, StageFitsCall, CurrentIsRow,
                           RowWriters, Loaded
      <3>. QED
        BY <3>3, <3>4
    <2>. QED
      BY <2>1, <2>2
  <1>12. CASE RemoveRows(r)
    <2>. DEFINE w == [x \in Stored(SymbolRows(RowsSeen(r), op[r].symbol)) |-> NoRow]
    <2>1. IsChange(w, TxIds, Row \union {NoRow})
      BY DEF IsChange, Stored
    <2>2. TypeOK'
      <3>. HIDE DEF w
      <3>. QED
        BY <1>12, <2>1 DEF RemoveRows, TypeOK, Stages, InTransaction, w
    <2>3. Shape'
      BY <1>12 DEF RemoveRows, TypeOK, Shape, StageFitsCall, CurrentIsRow, RowWriters, Loaded
    <2>. QED
      BY <2>2, <2>3
  <1>13. CASE Commit(r)
    BY <1>13, SeenTyping, ForgetTyping DEF Commit, Unlock, TypeOK
  <1>. QED
    BY <1>1, <1>2, <1>3, <1>4, <1>5, <1>6, <1>7, <1>8, <1>9, <1>10, <1>11, <1>12, <1>13
    DEF Statement

LEMMA NextTyping == TypeOK /\ Shape /\ [Next]_vars => TypeOK' /\ Shape'
  <1>. SUFFICES ASSUME TypeOK, Shape, [Next]_vars PROVE TypeOK' /\ Shape'
    OBVIOUS
  <1>. USE DEF Goto, committed, locals
  <1>1. ASSUME NEW r \in Requests, NEW call \in Calls, Start(r, call)
        PROVE  TypeOK' /\ Shape'
    <2>1. call.kind \in {"create", "add"} => call.row \in Row
      BY InputsAreValidated DEF Calls
    <2>2. FirstStage(call) \in {"lock", "check", "find", "drop"}
      BY DEF FirstStage
    <2>3. /\ FirstStage(call) = "check" => call.kind = "add"
          /\ FirstStage(call) = "find" => call.kind = "update"
          /\ FirstStage(call) = "lock" => call.kind \in {"create", "delete", "remove"}
      BY DEF FirstStage, Calls
    <2>4. TypeOK'
      BY <1>1, <2>1, <2>2 DEF Start, TypeOK, Stages
    <2>5. Shape'
      BY <1>1, <2>2, <2>3 DEF Start, TypeOK, Shape, StageFitsCall, CurrentIsRow, RowWriters, Loaded
    <2>. QED
      BY <2>4, <2>5
  <1>2. ASSUME NEW r \in Requests, DropPortfolio(r)
        PROVE  TypeOK' /\ Shape'
    <2>1. EmptyLedger \in Ledgers
      BY DEF EmptyLedger, Ledgers
    <2>2. [s \in Symbols |-> NoPosition] \in [Symbols -> Position \union {NoPosition}]
      OBVIOUS
    <2>. QED
      BY <1>2, <2>1, <2>2, ForgetTyping DEF DropPortfolio, TypeOK
  <1>3. ASSUME NEW r \in Requests, LockPortfolio(r)
        PROVE  TypeOK' /\ Shape'
    <2>1. CASE ~exists
      BY <1>3, <2>1, AbandonTyping DEF LockPortfolio
    <2>2. CASE exists
      <3>1. op[r].kind \in {"create", "update", "delete", "remove"}
        BY <1>3 DEF LockPortfolio, Shape, StageFitsCall, RowWriters
      <3>2. /\ op[r].kind = "create" => AfterLock(op[r]) = "load"
            /\ op[r].kind \in {"update", "delete"} => AfterLock(op[r]) = "read"
            /\ op[r].kind = "remove" => AfterLock(op[r]) = "removePosition"
        BY DEF AfterLock
      <3>3. TypeOK'
        BY <1>3, <2>2, <3>1, <3>2 DEF LockPortfolio, TypeOK, Stages, InTransaction
      <3>4. op[r].kind = "create" => current[r] \in Row
        BY CallTyping, InputsAreValidated DEF Shape, CurrentIsRow
      <3>5. Shape'
        BY <1>3, <2>2, <3>1, <3>2, <3>4
        DEF LockPortfolio, TypeOK, Shape, StageFitsCall, CurrentIsRow, RowWriters, Loaded
      <3>. QED
        BY <3>3, <3>5
    <2>. QED
      BY <2>1, <2>2
  <1>4. CASE UNCHANGED vars
    BY <1>4 DEF vars, TypeOK, Shape, StageFitsCall, CurrentIsRow
  <1>. QED
    BY <1>1, <1>2, <1>3, <1>4, StatementTyping, AbandonTyping DEF Next, WaitForRow, Rollback

\* Requests hold well-typed rows, calls and working copies throughout.
THEOREM Typing == Spec => []TypeOK
  <1>. QED
    BY InitTyping, NextTyping, PTL DEF Spec

-----------------------------------------------------------------------------
(***************************************************************************)
(* The row lock.                                                           *)
(***************************************************************************)
LEMMA LockStep ==
    ASSUME TypeOK, Shape, LockHolderAlone, NothingWithoutPortfolio, [Next]_vars
    PROVE  LockHolderAlone' /\ NothingWithoutPortfolio'
  <1>. USE NoRequestIsNotARequest DEF LockHolderAlone, NothingWithoutPortfolio, InTransaction, Goto,
           committed, locals
  <1>0. ASSUME NEW r \in Requests, Abandon(r)
        PROVE  LockHolderAlone' /\ NothingWithoutPortfolio'
    BY <1>0 DEF Abandon, Forget, Unlock, TypeOK
  <1>1. ASSUME NEW r \in Requests, NEW call \in Calls, Start(r, call)
        PROVE  LockHolderAlone' /\ NothingWithoutPortfolio'
    <2>1. FirstStage(call) \in {"lock", "check", "find", "drop"}
      BY DEF FirstStage
    <2>. QED
      BY <1>1, <2>1 DEF Start, TypeOK
  <1>2. ASSUME NEW r \in Requests, DropPortfolio(r)
        PROVE  LockHolderAlone' /\ NothingWithoutPortfolio'
    BY <1>2 DEF DropPortfolio, Forget, TypeOK
  <1>3. ASSUME NEW r \in Requests, LockPortfolio(r)
        PROVE  LockHolderAlone' /\ NothingWithoutPortfolio'
    <2>1. CASE ~exists
      BY <1>0, <1>3, <2>1 DEF LockPortfolio
    <2>2. CASE exists
      <3>1. AfterLock(op[r]) \in {"load", "read", "removePosition"}
        BY <1>3 DEF LockPortfolio, AfterLock, Shape, StageFitsCall, RowWriters
      <3>. QED
        BY <1>3, <2>2, <3>1 DEF LockPortfolio, LockFree, TypeOK
    <2>. QED
      BY <2>1, <2>2
  <1>4. ASSUME NEW r \in Requests, Statement(r)
        PROVE  LockHolderAlone' /\ NothingWithoutPortfolio'
    <2>1. CASE CheckNotOpen(r)
      BY <1>0, <2>1 DEF CheckNotOpen, TypeOK
    <2>2. CASE FindTransaction(r)
      BY <1>0, <2>2 DEF FindTransaction, TypeOK
    <2>3. CASE ReadCurrent(r)
      BY <1>0, <2>3 DEF ReadCurrent, TypeOK
    <2>4. CASE LoadExisting(r)
      BY <1>0, <2>4 DEF LoadExisting, TypeOK
    <2>5. ASSUME NEW i \in TxIds, InsertRow(r, i)
          PROVE  LockHolderAlone' /\ NothingWithoutPortfolio'
      BY <2>5 DEF InsertRow, TypeOK
    <2>6. CASE IdsExhausted(r)
      BY <1>0, <2>6 DEF IdsExhausted
    <2>7. CASE RewriteRow(r)
      BY <1>0, <2>7 DEF RewriteRow, TypeOK
    <2>8. CASE Reload(r)
      BY <2>8 DEF Reload, TypeOK
    <2>9. CASE SyncPosition(r)
      BY <1>0, <2>9 DEF SyncPosition, TypeOK
    <2>10. CASE CheckLimit(r)
      BY <1>0, <2>10 DEF CheckLimit, TypeOK
    <2>11. CASE RemovePosition(r)
      BY <1>0, <2>11 DEF RemovePosition, TypeOK
    <2>12. CASE RemoveRows(r)
      BY <2>12 DEF RemoveRows, TypeOK
    <2>13. CASE Commit(r)
      BY <2>13 DEF Commit, Forget, Unlock, TypeOK
    <2>. QED
      BY <1>4, <2>1, <2>2, <2>3, <2>4, <2>5, <2>6, <2>7, <2>8, <2>9, <2>10, <2>11, <2>12, <2>13
      DEF Statement
  <1>5. CASE UNCHANGED vars
    BY <1>5 DEF vars
  <1>. QED
    BY <1>0, <1>1, <1>2, <1>3, <1>4, <1>5 DEF Next, WaitForRow, Rollback

-----------------------------------------------------------------------------
\* Commits are steps of LedgerAtomic.

\* Stages with the row written, and with its position rewritten.
Written == {"reload", "sync", "limit", "commit"}
Synced  == {"limit", "commit"}

\* The row a request writes is the committed one, patched.
CurrentFresh(r) ==
    /\ op[r].kind \in {"update", "delete"} /\ pc[r] \in Loaded =>
          transactions[op[r].id] # NoRow
    /\ op[r].kind = "update" /\ pc[r] \in Loaded =>
          current[r] = Apply(op[r].patch, transactions[op[r].id])
    /\ op[r].kind = "delete" /\ pc[r] \in Loaded =>
          current[r] = transactions[op[r].id]

\* Request r sees the committed ledger with one row written.
OneRowWritten(r) ==
    /\ op[r].kind = "create" =>
          \E i \in issued : /\ transactions[i] = NoRow
                            /\ RowsSeen(r) = [transactions EXCEPT ![i] = current[r]]
    /\ op[r].kind = "update" => RowsSeen(r) = [transactions EXCEPT ![op[r].id] = current[r]]
    /\ op[r].kind = "delete" => RowsSeen(r) = [transactions EXCEPT ![op[r].id] = NoRow]

\* What a request that writes one row has prepared so far.
PreparedWrite(r) ==
    op[r].kind \in RowWriters =>
    /\ pc[r] \notin Written => rowWrites[r] = NoChange
    /\ pc[r] \notin Synced => positionWrites[r] = NoChange
    /\ pc[r] = "write" => existing[r] = SymbolRows(transactions, Symbol(r))
    /\ pc[r] \in {"write"} \union Written => before[r] = IsOpen(positions[Symbol(r)])
    /\ pc[r] \in Written => OneRowWritten(r)
    /\ pc[r] \in Written \ {"reload"} => existing[r] = SymbolRows(RowsSeen(r), Symbol(r))
    /\ pc[r] \in Synced =>
          /\ Storable(existing[r])
          /\ positionWrites[r] = [s \in {Symbol(r)} |-> DerivedPosition(existing[r])]
    /\ pc[r] = "commit" => LimitAllows(r)

\* What a request that removes a holding has prepared so far.
PreparedRemoval(r) ==
    op[r].kind = "remove" =>
    /\ pc[r] # "commit" => rowWrites[r] = NoChange
    /\ pc[r] \in {"removeRows", "commit"} =>
          /\ positions[op[r].symbol] # NoPosition
          /\ positionWrites[r] = [s \in {op[r].symbol} |-> NoPosition]
    /\ pc[r] \notin {"removeRows", "commit"} => positionWrites[r] = NoChange
    /\ pc[r] = "commit" =>
          rowWrites[r] = [x \in Stored(SymbolRows(transactions, op[r].symbol)) |-> NoRow]

Prepared(r) ==
    /\ CurrentFresh(r)
    /\ PreparedWrite(r)
    /\ PreparedRemoval(r)
    /\ op[r].kind \in {"add", "none", "drop"} =>
          rowWrites[r] = NoChange /\ positionWrites[r] = NoChange

\* Every stored row has an id the database generated.
RowsHaveIssuedIds == Stored(transactions) \subseteq issued

\* Every symbol's committed rows derive a position that the table can store.
StoredLedgerStorable == \A s \in Symbols : Storable(SymbolRows(transactions, s))

LedgerInv ==
    /\ PositionsMatchLedger
    /\ StoredLedgerStorable
    /\ OpenPositionsWithinLimit

IInv ==
    /\ TypeOK
    /\ Shape
    /\ LockHolderAlone
    /\ NothingWithoutPortfolio
    /\ RowsHaveIssuedIds
    /\ \A r \in Requests : Prepared(r)
    /\ LedgerInv

-----------------------------------------------------------------------------
(***************************************************************************)
(* What the lock holder has prepared.                                      *)
(***************************************************************************)

\* A request outside a database transaction has prepared nothing.
LEMMA OutsideTransaction ==
    ASSUME TypeOK, NEW r \in Requests, pc[r] \notin InTransaction
    PROVE  Prepared(r) <=> rowWrites[r] = NoChange /\ positionWrites[r] = NoChange
  <1>1. op[r].kind \in {"create", "update", "delete", "remove", "add", "none", "drop"}
    BY DEF TypeOK, Calls, NoCall
  <1>. QED
    BY <1>1 DEF Prepared, CurrentFresh, PreparedWrite, PreparedRemoval, InTransaction, Loaded,
                Written, Synced, RowWriters

\* A step that commits nothing leaves the other requests' preparations valid.
LEMMA OthersUndisturbed ==
    ASSUME NEW r \in Requests, Prepared(r),
           pc'[r] = pc[r], op'[r] = op[r], current'[r] = current[r],
           existing'[r] = existing[r], before'[r] = before[r],
           rowWrites'[r] = rowWrites[r], positionWrites'[r] = positionWrites[r],
           transactions' = transactions, positions' = positions, issued \subseteq issued'
    PROVE  Prepared(r)'
  <1>1. /\ RowsSeen(r)' = RowsSeen(r)
        /\ PositionsSeen(r)' = PositionsSeen(r)
        /\ Symbol(r)' = Symbol(r)
        /\ OneRowWritten(r) => OneRowWritten(r)'
    BY DEF RowsSeen, PositionsSeen, Over, Symbol, OneRowWritten
  <1>2. LimitAllows(r)' <=> LimitAllows(r)
    BY <1>1 DEF LimitAllows
  <1>3. CurrentFresh(r)' <=> CurrentFresh(r)
    BY DEF CurrentFresh
  <1>4. PreparedWrite(r) => PreparedWrite(r)'
    BY <1>1, <1>2 DEF PreparedWrite
  <1>5. PreparedRemoval(r)' <=> PreparedRemoval(r)
    BY DEF PreparedRemoval
  <1>. QED
    BY <1>3, <1>4, <1>5 DEF Prepared

LEMMA NoChangeShowsCommitted ==
    ASSUME TypeOK, NEW r \in Requests
    PROVE  /\ rowWrites[r] = NoChange => RowsSeen(r) = transactions
           /\ positionWrites[r] = NoChange => PositionsSeen(r) = positions
  BY DEF TypeOK, Ledgers, RowsSeen, PositionsSeen, Over, NoChange

-----------------------------------------------------------------------------
(***************************************************************************)
(* What a replay derives.                                                  *)
(***************************************************************************)
LEMMA WalkEmpty ==
    ASSUME NEW l, Stored(l) = {}
    PROVE  Walk(l) = NothingHeld
  <1>. DEFINE F(g) == [s \in SUBSET {} |-> IF s = {} THEN NothingHeld
                                           ELSE LET x == LastRow(l, s)
                                                IN  ReplayRow(g[s \ {x}], l[x])]
              G == CHOOSE g : g = F(g)
  <1>1. G = F(G)
    <2>1. [s \in SUBSET {} |-> NothingHeld] = F([s \in SUBSET {} |-> NothingHeld])
      OBVIOUS
    <2>. QED
      BY <2>1
  <1>2. G[{}] = NothingHeld
    <2>. HIDE DEF G
    <2>. QED
      BY <1>1
  <1>3. Walk(l) = G[{}]
    BY DEF Walk, MapThenFoldSet
  <1>. QED
    BY <1>2, <1>3

\* The replay of a symbol's rows tells whether its position row is open.
LEMMA OpenByReplay ==
    ASSUME NEW l, Storable(l)
    PROVE  IsOpen(DerivedPosition(l)) <=> Figures(l).shares > 0
  <1>1. CASE Stored(l) = {}
    BY <1>1, WalkEmpty DEF DerivedPosition, IsOpen, Figures, NothingHeld
  <1>2. CASE Stored(l) # {}
    BY <1>2, NoPositionIsNotAPosition DEF Storable, DerivedPosition, IsOpen
  <1>. QED
    BY <1>1, <1>2

-----------------------------------------------------------------------------
(***************************************************************************)
(* Each statement prepares what its stage promises.                        *)
(***************************************************************************)
LEMMA ForgetPrepared ==
    ASSUME TypeOK, NEW r \in Requests, Forget(r)
    PROVE  Prepared(r)'
  BY DEF TypeOK, Forget, NoCall, Prepared, CurrentFresh, PreparedWrite, PreparedRemoval, RowWriters

\* Before its transaction a request prepares nothing.
LEMMA BeforeTransaction ==
    ASSUME TypeOK, TypeOK', NEW r \in Requests, Prepared(r),
           pc[r] \notin InTransaction, pc'[r] \notin InTransaction,
           UNCHANGED <<rowWrites, positionWrites>>
    PROVE  Prepared(r)'
  <1>1. rowWrites[r] = NoChange /\ positionWrites[r] = NoChange
    BY OutsideTransaction
  <1>2. op'[r].kind \in {"create", "update", "delete", "remove", "add", "none", "drop"}
    BY DEF TypeOK, Calls, NoCall
  <1>. QED
    BY <1>1, <1>2 DEF Prepared, CurrentFresh, PreparedWrite, PreparedRemoval, InTransaction,
                      Loaded, Written, Synced, RowWriters

LEMMA LockPrepared ==
    ASSUME TypeOK, Shape, NEW r \in Requests, Prepared(r), LockPortfolio(r)
    PROVE  Prepared(r)'
  <1>1. CASE ~exists
    BY <1>1, ForgetPrepared DEF LockPortfolio, Abandon
  <1>2. CASE exists
    <2>1. rowWrites[r] = NoChange /\ positionWrites[r] = NoChange
      BY OutsideTransaction DEF LockPortfolio, InTransaction
    <2>2. /\ op[r].kind = "create" => AfterLock(op[r]) = "load"
          /\ op[r].kind \in {"update", "delete"} => AfterLock(op[r]) = "read"
          /\ op[r].kind = "remove" => AfterLock(op[r]) = "removePosition"
      BY DEF AfterLock
    <2>3. op[r].kind \in {"create", "update", "delete", "remove"}
      BY DEF LockPortfolio, Shape, StageFitsCall, RowWriters
    <2>4. pc'[r] = AfterLock(op[r]) /\ op' = op /\ rowWrites' = rowWrites
            /\ positionWrites' = positionWrites
      BY <1>2 DEF LockPortfolio, Goto, TypeOK, locals
    <2>. QED
      BY <2>1, <2>2, <2>3, <2>4 DEF Prepared, CurrentFresh, PreparedWrite, PreparedRemoval,
                                    Loaded, Written, Synced, RowWriters
  <1>. QED
    BY <1>1, <1>2

LEMMA ReadPrepared ==
    ASSUME TypeOK, Shape, NEW r \in Requests, Prepared(r), ReadCurrent(r)
    PROVE  Prepared(r)'
  <1>1. CASE RowsSeen(r)[op[r].id] = NoRow
    BY <1>1, ForgetPrepared DEF ReadCurrent, Abandon
  <1>2. CASE RowsSeen(r)[op[r].id] # NoRow
    <2>1. op[r].kind \in {"update", "delete"}
      BY DEF ReadCurrent, Shape, StageFitsCall
    <2>2. rowWrites[r] = NoChange /\ positionWrites[r] = NoChange
      BY <2>1 DEF ReadCurrent, Prepared, PreparedWrite, RowWriters, Written, Synced
    <2>3. RowsSeen(r) = transactions
      BY <2>2, NoChangeShowsCommitted
    <2>4. /\ pc'[r] = "load"
          /\ current'[r] = IF op[r].kind = "update"
                           THEN Apply(op[r].patch, transactions[op[r].id])
                           ELSE transactions[op[r].id]
          /\ UNCHANGED <<transactions, op, rowWrites, positionWrites>>
      BY <1>2, <2>3 DEF ReadCurrent, Goto, TypeOK, committed
    <2>. QED
      BY <1>2, <2>1, <2>2, <2>3, <2>4 DEF Prepared, CurrentFresh, PreparedWrite, PreparedRemoval,
                                    Loaded, Written, Synced, RowWriters
  <1>. QED
    BY <1>1, <1>2

LEMMA LoadPrepared ==
    ASSUME TypeOK, Shape, LedgerInv, NEW r \in Requests, Prepared(r), LoadExisting(r)
    PROVE  Prepared(r)'
  <1>. DEFINE rows == SymbolRows(RowsSeen(r), Symbol(r))
  <1>1. CASE ~Replays(rows)
    BY <1>1, ForgetPrepared DEF LoadExisting, Abandon
  <1>2. CASE Replays(rows)
    <2>1. pc[r] = "load" /\ op[r].kind \in RowWriters /\ current[r] \in Row
      BY DEF LoadExisting, Shape, StageFitsCall, CurrentIsRow, Loaded
    <2>2. rowWrites[r] = NoChange /\ positionWrites[r] = NoChange
      BY <2>1 DEF Prepared, PreparedWrite, Written, Synced
    <2>3. rows = SymbolRows(transactions, Symbol(r))
      BY <2>2, NoChangeShowsCommitted
    <2>4. Symbol(r) \in Symbols
      BY <2>1 DEF Symbol, Row
    <2>5. (Figures(rows).shares > 0) = IsOpen(positions[Symbol(r)])
      BY <2>3, <2>4, OpenByReplay DEF LedgerInv, StoredLedgerStorable, PositionsMatchLedger, IsOpen
    <2>6. /\ pc'[r] = "write"
          /\ existing'[r] = rows
          /\ before'[r] = (Figures(rows).shares > 0)
          /\ UNCHANGED <<transactions, positions, op, current, rowWrites, positionWrites>>
      BY <1>2 DEF LoadExisting, Goto, TypeOK, committed
    <2>. HIDE DEF rows
    <2>7. CurrentFresh(r)'
      BY <2>1, <2>6 DEF Prepared, CurrentFresh, Loaded
    <2>8. PreparedWrite(r)'
      BY <2>2, <2>3, <2>5, <2>6 DEF PreparedWrite, Written, Synced, Symbol
    <2>. QED
      BY <2>1, <2>6, <2>7, <2>8 DEF Prepared, PreparedRemoval, RowWriters
  <1>. QED
    BY <1>1, <1>2

LEMMA AppendedRow ==
    ASSUME NEW l \in Ledgers, NEW i \in TxIds, l[i] = NoRow, NEW row \in Row
    PROVE  SymbolRows([l EXCEPT ![i] = row], row.symbol) =
             [SymbolRows(l, row.symbol) EXCEPT ![i] = row]
  BY NoRowIsNotARow DEF Ledgers, SymbolRows

LEMMA InsertPrepared ==
    ASSUME TypeOK, Shape, RowsHaveIssuedIds, NEW r \in Requests, Prepared(r),
           NEW i \in TxIds, InsertRow(r, i)
    PROVE  Prepared(r)'
  <1>1. /\ pc[r] = "write" /\ op[r].kind = "create" /\ current[r] \in Row
        /\ pc'[r] = "sync"
        /\ rowWrites'[r] = [x \in {i} |-> current[r]]
        /\ existing'[r] = [existing[r] EXCEPT ![i] = current[r]]
        /\ i \in issued'
        /\ UNCHANGED <<transactions, positions, op, current, before, positionWrites>>
    BY DEF InsertRow, Goto, TypeOK, committed, Shape, CurrentIsRow, Loaded, RowWriters
  <1>2. transactions[i] = NoRow /\ transactions \in Ledgers
    BY DEF InsertRow, RowsHaveIssuedIds, Stored, TypeOK
  <1>3. RowsSeen(r)' = [transactions EXCEPT ![i] = current[r]]
    BY <1>1, <1>2 DEF RowsSeen, Over, Ledgers
  <1>4. /\ existing[r] = SymbolRows(transactions, Symbol(r))
        /\ before[r] = IsOpen(positions[Symbol(r)])
        /\ positionWrites[r] = NoChange
    BY <1>1 DEF Prepared, PreparedWrite, RowWriters, Synced, Written
  <1>5. existing'[r] = SymbolRows(RowsSeen(r)', Symbol(r)')
    <2>1. SymbolRows([transactions EXCEPT ![i] = current[r]], current[r].symbol)
            = [SymbolRows(transactions, current[r].symbol) EXCEPT ![i] = current[r]]
      BY <1>1, <1>2, AppendedRow
    <2>2. Symbol(r)' = current[r].symbol
      BY <1>1 DEF Symbol
    <2>. QED
      BY <1>1, <1>3, <1>4, <2>1, <2>2 DEF Symbol
  <1>6. OneRowWritten(r)'
    BY <1>1, <1>2, <1>3 DEF OneRowWritten
  <1>7. PreparedWrite(r)'
    BY <1>1, <1>4, <1>5, <1>6 DEF PreparedWrite, Written, Synced, Symbol
  <1>. QED
    BY <1>1, <1>7 DEF Prepared, CurrentFresh, PreparedRemoval, RowWriters

LEMMA RewritePrepared ==
    ASSUME TypeOK, Shape, NEW r \in Requests, Prepared(r), RewriteRow(r)
    PROVE  Prepared(r)'
  <1>1. CASE op[r].kind = "update" /\ RowsSeen(r)[op[r].id] = NoRow
    BY <1>1, ForgetPrepared DEF RewriteRow, Abandon
  <1>2. CASE ~(op[r].kind = "update" /\ RowsSeen(r)[op[r].id] = NoRow)
    <2>. DEFINE new == IF op[r].kind = "update" THEN current[r] ELSE NoRow
    <2>1. /\ pc[r] = "write" /\ op[r].kind \in {"update", "delete"}
          /\ pc'[r] = "reload"
          /\ rowWrites'[r] = [x \in {op[r].id} |-> new]
          /\ UNCHANGED <<transactions, positions, op, current, before, positionWrites>>
      BY <1>2 DEF RewriteRow, Goto, TypeOK, committed
    <2>2. transactions \in Ledgers /\ op[r].id \in TxIds
      BY <2>1, CallTyping DEF TypeOK
    <2>3. RowsSeen(r)' = [transactions EXCEPT ![op[r].id] = new]
      BY <2>1, <2>2 DEF RowsSeen, Over, Ledgers
    <2>4. /\ before[r] = IsOpen(positions[Symbol(r)])
          /\ positionWrites[r] = NoChange
      BY <2>1 DEF Prepared, PreparedWrite, RowWriters, Synced, Written
    <2>5. OneRowWritten(r)'
      BY <2>1, <2>3 DEF OneRowWritten
    <2>6. PreparedWrite(r)'
      BY <2>1, <2>4, <2>5 DEF PreparedWrite, Written, Synced, Symbol
    <2>7. CurrentFresh(r)'
      BY <2>1 DEF Prepared, CurrentFresh, Loaded
    <2>. QED
      BY <2>1, <2>6, <2>7 DEF Prepared, PreparedRemoval, RowWriters
  <1>. QED
    BY <1>1, <1>2

\* Statements after the write read what was written and leave the rows alone.
LEMMA AfterWritePrepared ==
    ASSUME TypeOK, Shape, NEW r \in Requests, Prepared(r),
           Reload(r) \/ SyncPosition(r) \/ CheckLimit(r)
    PROVE  Prepared(r)'
  <1>0. Abandon(r) => Prepared(r)'
    BY ForgetPrepared DEF Abandon
  <1>1. op[r].kind \in RowWriters /\ pc[r] \in {"reload", "sync", "limit"}
    BY DEF Reload, SyncPosition, CheckLimit, Shape, StageFitsCall, RowWriters
  <1>2. CASE Abandon(r)
    BY <1>0, <1>2
  <1>3. CASE ~Abandon(r)
    <2>1. /\ UNCHANGED <<transactions, positions, issued, op, current, before, rowWrites>>
          /\ pc'[r] \in {"sync", "limit", "commit"}
      BY <1>3 DEF Reload, SyncPosition, CheckLimit, Goto, committed, locals, TypeOK
    <2>2. CurrentFresh(r)'
      BY <1>1, <2>1 DEF Prepared, CurrentFresh, Loaded
    <2>3. /\ RowsSeen(r)' = RowsSeen(r)
          /\ Symbol(r)' = Symbol(r)
      BY <2>1 DEF RowsSeen, Over, Symbol
    <2>4. OneRowWritten(r)' /\ before'[r] = IsOpen(positions'[Symbol(r)'])
      BY <1>1, <2>1, <2>3 DEF Prepared, PreparedWrite, OneRowWritten, Written
    <2>5. CASE Reload(r)
      <3>1. /\ pc[r] = "reload" /\ pc'[r] = "sync"
            /\ existing'[r] = SymbolRows(RowsSeen(r), Symbol(r))
            /\ positionWrites' = positionWrites
        BY <2>5 DEF Reload, Goto, TypeOK
      <3>2. positionWrites[r] = NoChange
        BY <1>1, <3>1 DEF Prepared, PreparedWrite, Synced
      <3>. QED
        BY <1>1, <2>1, <2>2, <2>3, <2>4, <3>1, <3>2
        DEF Prepared, PreparedWrite, PreparedRemoval, Written, Synced, RowWriters
    <2>6. CASE SyncPosition(r)
      <3>1. /\ pc[r] = "sync" /\ pc'[r] = "limit" /\ existing' = existing
            /\ Storable(existing[r])
            /\ positionWrites'[r] = [s \in {Symbol(r)} |-> DerivedPosition(existing[r])]
        BY <1>3, <2>6 DEF SyncPosition, Goto, TypeOK
      <3>2. existing[r] = SymbolRows(RowsSeen(r), Symbol(r))
        BY <1>1, <3>1 DEF Prepared, PreparedWrite, Written
      <3>. QED
        BY <1>1, <2>1, <2>2, <2>3, <2>4, <3>1, <3>2
        DEF Prepared, PreparedWrite, PreparedRemoval, Written, Synced, RowWriters
    <2>7. CASE CheckLimit(r)
      <3>1. /\ pc[r] = "limit" /\ pc'[r] = "commit" /\ existing' = existing
            /\ LimitAllows(r) /\ positionWrites' = positionWrites
        BY <1>3, <2>7 DEF CheckLimit, Goto, TypeOK, locals
      <3>2. /\ existing[r] = SymbolRows(RowsSeen(r), Symbol(r))
            /\ Storable(existing[r])
            /\ positionWrites[r] = [s \in {Symbol(r)} |-> DerivedPosition(existing[r])]
        BY <1>1, <3>1 DEF Prepared, PreparedWrite, Written, Synced
      <3>3. LimitAllows(r)'
        BY <2>1, <2>3, <3>1 DEF LimitAllows, PositionsSeen, Over
      <3>. QED
        BY <1>1, <2>1, <2>2, <2>3, <2>4, <3>1, <3>2, <3>3
        DEF Prepared, PreparedWrite, PreparedRemoval, Written, Synced, RowWriters
    <2>. QED
      BY <2>5, <2>6, <2>7
  <1>. QED
    BY <1>2, <1>3

LEMMA RemovalPrepared ==
    ASSUME TypeOK, Shape, NEW r \in Requests, Prepared(r), RemovePosition(r) \/ RemoveRows(r)
    PROVE  Prepared(r)'
  <1>1. op[r].kind = "remove"
    BY DEF RemovePosition, RemoveRows, Shape, StageFitsCall
  <1>2. pc[r] # "commit" /\ rowWrites[r] = NoChange
    BY <1>1 DEF RemovePosition, RemoveRows, Prepared, PreparedRemoval
  <1>3. CASE RemovePosition(r)
    <2>1. CASE PositionsSeen(r)[op[r].symbol] = NoPosition
      BY <1>3, <2>1, ForgetPrepared DEF RemovePosition, Abandon
    <2>2. CASE PositionsSeen(r)[op[r].symbol] # NoPosition
      <3>1. /\ pc[r] = "removePosition" /\ pc'[r] = "removeRows"
            /\ positionWrites'[r] = [s \in {op[r].symbol} |-> NoPosition]
            /\ UNCHANGED <<positions, op, rowWrites>>
        BY <1>3, <2>2 DEF RemovePosition, Goto, TypeOK, committed
      <3>2. PositionsSeen(r) = positions
        BY <1>1, <3>1, NoChangeShowsCommitted DEF Prepared, PreparedRemoval
      <3>. QED
        BY <1>1, <1>2, <2>2, <3>1, <3>2 DEF Prepared, PreparedRemoval, PreparedWrite, CurrentFresh, RowWriters
    <2>. QED
      BY <2>1, <2>2
  <1>4. CASE RemoveRows(r)
    <2>1. /\ pc[r] = "removeRows" /\ pc'[r] = "commit"
          /\ rowWrites'[r] = [x \in Stored(SymbolRows(RowsSeen(r), op[r].symbol)) |-> NoRow]
          /\ UNCHANGED <<transactions, positions, op, positionWrites>>
      BY <1>4 DEF RemoveRows, Goto, TypeOK, committed
    <2>2. RowsSeen(r) = transactions
      BY <1>2, NoChangeShowsCommitted
    <2>. QED
      BY <1>1, <2>1, <2>2 DEF Prepared, PreparedRemoval, PreparedWrite, CurrentFresh, RowWriters
  <1>. QED
    BY <1>3, <1>4

-----------------------------------------------------------------------------
(***************************************************************************)
(* Commits are steps of LedgerAtomic, and those keep the ledger sound.     *)
(***************************************************************************)
LEMMA LimitCounts ==
    ASSUME NEW pos, NEW s
    PROVE  /\ IsFiniteSet(OpenSymbols(pos))
           /\ Cardinality(OpenSymbols(pos) \ {s}) < MaxPositions
                => Cardinality(OpenSymbols(pos)) <= MaxPositions
  <1>1. OpenSymbols(pos) \subseteq Symbols
    BY DEF OpenSymbols
  <1>2. IsFiniteSet(OpenSymbols(pos))
    BY <1>1, FS_Subset, InputsAreValidated
  <1>3. Cardinality(OpenSymbols(pos)) \in Nat
    BY <1>2, FS_CardinalityType
  <1>4. /\ s \in OpenSymbols(pos) =>
             Cardinality(OpenSymbols(pos) \ {s}) = Cardinality(OpenSymbols(pos)) - 1
        /\ s \notin OpenSymbols(pos) =>
             Cardinality(OpenSymbols(pos) \ {s}) = Cardinality(OpenSymbols(pos))
    BY <1>2, FS_RemoveElement
  <1>. QED
    BY <1>2, <1>3, <1>4, InputsAreValidated

\* LedgerAtomic has its own copies of the operators of Positions: they are the same.
LEMMA SameReplay ==
    ASSUME NEW l
    PROVE  Atomic!Replays(l) = Replays(l) /\ Atomic!Figures(l) = Figures(l)
  <1>1. Atomic!Walk(l) = Walk(l)
    BY Zenon
    DEF Atomic!Walk, Walk, Atomic!MapThenFoldSet, MapThenFoldSet, Atomic!LastRow, LastRow,
        Atomic!TransactionBefore, TransactionBefore, Atomic!ReplayRow, ReplayRow,
        Atomic!BuyRow, BuyRow, Atomic!SellRow, SellRow, Atomic!RoundedQuotient,
        RoundedQuotient, Atomic!NothingHeld, NothingHeld, Atomic!Stored, Stored
  <1>. QED
    BY <1>1, Zenon DEF Atomic!Replays, Replays, Atomic!Figures, Figures,
                       Atomic!RoundedQuotient, RoundedQuotient

LEMMA SameDerivation ==
    ASSUME NEW l, NEW s
    PROVE  /\ Atomic!SymbolRows(l, s) = SymbolRows(l, s)
           /\ Atomic!DerivedPosition(l) = DerivedPosition(l)
           /\ Atomic!Storable(l) = Storable(l)
  <1>1. Atomic!Position = Position /\ Atomic!Stored(l) = Stored(l)
    BY Zenon DEF Atomic!Position, Position, Atomic!Stored, Stored
  <1>2. Atomic!SymbolRows(l, s) = SymbolRows(l, s)
    BY Zenon DEF Atomic!SymbolRows, SymbolRows
  <1>3. Atomic!DerivedPosition(l) = DerivedPosition(l)
    BY <1>1, SameReplay, Zenon DEF Atomic!DerivedPosition, DerivedPosition
  <1>4. Atomic!Storable(l) = Storable(l)
    BY <1>1, SameReplay DEF Atomic!Storable, Storable
  <1>. QED
    BY <1>2, <1>3, <1>4

LEMMA SameLimit ==
    ASSUME NEW p
    PROVE  /\ Atomic!IsOpen(p) = IsOpen(p)
           /\ Atomic!Cardinality(Atomic!OpenSymbols(p)) = Cardinality(OpenSymbols(p))
  <1>1. \A S : Atomic!Cardinality(S) = Cardinality(S)
    BY Zenon DEF Atomic!Cardinality, Cardinality
  <1>2. Atomic!IsOpen(p) = IsOpen(p) /\ Atomic!OpenSymbols(p) = OpenSymbols(p)
    BY Zenon DEF Atomic!IsOpen, IsOpen, Atomic!OpenSymbols, OpenSymbols
  <1>. QED
    BY <1>1, <1>2, Zenon

LEMMA SamePatches ==
    ASSUME NEW p, NEW t
    PROVE  Atomic!Apply(p, t) = Apply(p, t)
  BY Zenon DEF Atomic!Apply, Apply

LEMMA AtomicRewrite ==
    ASSUME NEW new, NEW s
    PROVE  Atomic!Rewrite(new, s) <=>
             /\ transactions' = new
             /\ positions' = [positions EXCEPT ![s] = DerivedPosition(SymbolRows(new, s))]
             /\ UNCHANGED exists
             /\ Storable(SymbolRows(new, s))
             /\ \/ IsOpen(positions[s])
                \/ ~IsOpen([positions EXCEPT ![s] = DerivedPosition(SymbolRows(new, s))][s])
                \/ Cardinality(OpenSymbols([positions EXCEPT
                        ![s] = DerivedPosition(SymbolRows(new, s))])) <= MaxPositions
  BY SameDerivation, SameLimit DEF Atomic!Rewrite

\* A step that rewrites one symbol keeps position rows and transactions in agreement.
LEMMA RewriteKeepsLedger ==
    ASSUME TypeOK, LedgerInv, NEW s \in Symbols, Atomic!Rewrite(transactions', s),
           \A q \in Symbols \ {s} : SymbolRows(transactions', q) = SymbolRows(transactions, q)
    PROVE  LedgerInv'
  <1>1. /\ positions' = [positions EXCEPT ![s] = DerivedPosition(SymbolRows(transactions', s))]
        /\ Storable(SymbolRows(transactions', s))
        /\ \/ IsOpen(positions[s])
           \/ ~IsOpen(positions'[s])
           \/ Cardinality(OpenSymbols(positions')) <= MaxPositions
    BY AtomicRewrite
  <1>2. positions \in [Symbols -> Position \union {NoPosition}]
    BY DEF TypeOK
  <1>3. PositionsMatchLedger'
    BY <1>1, <1>2 DEF LedgerInv, PositionsMatchLedger
  <1>4. StoredLedgerStorable'
    BY <1>1 DEF LedgerInv, StoredLedgerStorable
  <1>5. ASSUME IsOpen(positions[s]) \/ ~IsOpen(positions'[s])
        PROVE  Cardinality(OpenSymbols(positions')) <= MaxPositions
    <2>1. OpenSymbols(positions') \subseteq OpenSymbols(positions)
      BY <1>1, <1>2, <1>5 DEF OpenSymbols
    <2>2. /\ IsFiniteSet(OpenSymbols(positions))
          /\ IsFiniteSet(OpenSymbols(positions'))
      BY LimitCounts
    <2>3. /\ Cardinality(OpenSymbols(positions')) <= Cardinality(OpenSymbols(positions))
          /\ Cardinality(OpenSymbols(positions')) \in Nat
          /\ Cardinality(OpenSymbols(positions)) \in Nat
      BY <2>1, <2>2, FS_Subset, FS_CardinalityType
    <2>. QED
      BY <2>3, InputsAreValidated DEF LedgerInv, OpenPositionsWithinLimit
  <1>6. OpenPositionsWithinLimit'
    BY <1>1, <1>5 DEF OpenPositionsWithinLimit
  <1>. QED
    BY <1>3, <1>4, <1>6 DEF LedgerInv

\* Committing one written row is the atomic step of that call.
LEMMA CommitOfWrite ==
    ASSUME IInv, NEW r \in Requests, Commit(r), op[r].kind \in RowWriters
    PROVE  Atomic!Next /\ LedgerInv'
  <1>. DEFINE s == Symbol(r)
  <1>1. /\ pc[r] = "commit" /\ current[r] \in Row /\ s \in Symbols
        /\ transactions \in Ledgers /\ exists
        /\ positions \in [Symbols -> Position \union {NoPosition}]
    BY NoRequestIsNotARequest
    DEF IInv, Commit, Shape, CurrentIsRow, Loaded, Symbol, Row, TypeOK, LockHolderAlone, InTransaction
  <1>2. /\ OneRowWritten(r)
        /\ Storable(SymbolRows(RowsSeen(r), s))
        /\ positionWrites[r] = [x \in {s} |-> DerivedPosition(SymbolRows(RowsSeen(r), s))]
        /\ before[r] = IsOpen(positions[s])
        /\ LimitAllows(r)
    BY <1>1 DEF IInv, Prepared, PreparedWrite, Written, Synced
  <1>3. /\ transactions' = RowsSeen(r)
        /\ positions' = PositionsSeen(r)
        /\ exists' = exists
    BY DEF Commit
  <1>4. positions' = [positions EXCEPT ![s] = DerivedPosition(SymbolRows(transactions', s))]
    BY <1>1, <1>2, <1>3 DEF PositionsSeen, Over
  <1>5. \/ IsOpen(positions[s])
        \/ ~IsOpen(positions'[s])
        \/ Cardinality(OpenSymbols(positions')) <= MaxPositions
    <2>1. positions'[s] = positionWrites[r][s]
      BY <1>1, <1>2, <1>3, <1>4
    <2>2. CASE Cardinality(OpenSymbols(PositionsSeen(r)) \ {s}) < MaxPositions
      BY <1>3, <2>2, LimitCounts
    <2>. QED
      BY <1>2, <2>1, <2>2 DEF LimitAllows
  <1>6. Atomic!Rewrite(transactions', s)
    BY <1>2, <1>3, <1>4, <1>5, AtomicRewrite
  <1>. HIDE DEF s
  <1>7. CASE op[r].kind = "create"
    <2>1. current[r] = op[r].row /\ op[r].row \in NewRows
      BY <1>7, CallTyping DEF IInv, Shape, CurrentIsRow
    <2>2. PICK i \in issued : /\ transactions[i] = NoRow
                             /\ transactions' = [transactions EXCEPT ![i] = current[r]]
      BY <1>2, <1>3, <1>7 DEF OneRowWritten
    <2>3. s = current[r].symbol /\ i \in TxIds
      BY DEF s, Symbol, IInv, TypeOK
    <2>4. Atomic!Create(i, op[r].row)
      BY <1>6, <2>1, <2>2, <2>3 DEF Atomic!Create
    <2>5. \A q \in Symbols \ {s} : SymbolRows(transactions', q) = SymbolRows(transactions, q)
      BY <1>1, <2>2, <2>3 DEF SymbolRows, Ledgers
    <2>. QED
      BY <1>1, <1>6, <2>1, <2>3, <2>4, <2>5, RewriteKeepsLedger DEF Atomic!Next, IInv
  <1>8. CASE op[r].kind = "update"
    <2>1. /\ op[r].id \in TxIds /\ op[r].patch \in Patches
          /\ transactions[op[r].id] # NoRow
          /\ current[r] = Apply(op[r].patch, transactions[op[r].id])
      BY <1>1, <1>8, CallTyping DEF IInv, Prepared, CurrentFresh, Loaded
    <2>2. transactions[op[r].id] \in Row
      BY <1>1, <2>1 DEF Ledgers
    <2>3. transactions' = [transactions EXCEPT ![op[r].id] = current[r]]
      BY <1>2, <1>3, <1>8 DEF OneRowWritten
    <2>4. s = transactions[op[r].id].symbol /\ s = current[r].symbol
      BY <2>1, <2>2, InputsAreValidated DEF s, Symbol
    <2>5. Atomic!Update(op[r].id, op[r].patch)
      BY <1>1, <1>6, <2>1, <2>3, <2>4, SamePatches DEF Atomic!Update
    <2>6. \A q \in Symbols \ {s} : SymbolRows(transactions', q) = SymbolRows(transactions, q)
      BY <1>1, <2>1, <2>3, <2>4 DEF SymbolRows, Ledgers
    <2>. QED
      BY <1>1, <1>6, <2>1, <2>5, <2>6, RewriteKeepsLedger DEF Atomic!Next, IInv
  <1>9. CASE op[r].kind = "delete"
    <2>1. /\ op[r].id \in TxIds
          /\ transactions[op[r].id] # NoRow
          /\ current[r] = transactions[op[r].id]
      BY <1>1, <1>9, CallTyping DEF IInv, Prepared, CurrentFresh, Loaded
    <2>2. transactions' = [transactions EXCEPT ![op[r].id] = NoRow]
      BY <1>2, <1>3, <1>9 DEF OneRowWritten
    <2>3. s = transactions[op[r].id].symbol
      BY <2>1 DEF s, Symbol
    <2>4. Atomic!Delete(op[r].id)
      BY <1>6, <2>1, <2>2, <2>3 DEF Atomic!Delete
    <2>5. \A q \in Symbols \ {s} : SymbolRows(transactions', q) = SymbolRows(transactions, q)
      BY <1>1, <2>1, <2>2, <2>3 DEF SymbolRows, Ledgers
    <2>. QED
      BY <1>1, <1>6, <2>1, <2>4, <2>5, RewriteKeepsLedger DEF Atomic!Next, IInv
  <1>. QED
    BY <1>7, <1>8, <1>9 DEF RowWriters

\* So is committing the removal of a holding.
LEMMA CommitOfRemoval ==
    ASSUME IInv, NEW r \in Requests, Commit(r), op[r].kind = "remove"
    PROVE  Atomic!Next /\ LedgerInv'
  <1>. DEFINE s == op[r].symbol
              new == [i \in TxIds |-> IF transactions[i] # NoRow /\ transactions[i].symbol = s
                                      THEN NoRow ELSE transactions[i]]
  <1>1. /\ pc[r] = "commit" /\ s \in Symbols /\ exists
        /\ transactions \in Ledgers
        /\ positions \in [Symbols -> Position \union {NoPosition}]
    BY CallTyping, NoRequestIsNotARequest DEF IInv, Commit, TypeOK, LockHolderAlone, InTransaction
  <1>2. /\ positions[s] # NoPosition
        /\ positionWrites[r] = [x \in {s} |-> NoPosition]
        /\ rowWrites[r] = [x \in Stored(SymbolRows(transactions, s)) |-> NoRow]
    BY <1>1 DEF IInv, Prepared, PreparedRemoval
  <1>3. transactions' = new
    <2>1. transactions' = Over(transactions, rowWrites[r])
      BY DEF Commit, RowsSeen
    <2>2. Stored(SymbolRows(transactions, s)) =
            {i \in TxIds : transactions[i] # NoRow /\ transactions[i].symbol = s}
      BY DEF Stored, SymbolRows
    <2>. QED
      BY <1>1, <1>2, <2>1, <2>2 DEF Over, Ledgers
  <1>4. positions' = [positions EXCEPT ![s] = NoPosition]
    BY <1>1, <1>2 DEF Commit, PositionsSeen, Over
  <1>5. Atomic!Next
    BY <1>1, <1>2, <1>3, <1>4 DEF Atomic!Next, Atomic!RemoveHolding, Commit
  <1>6. Stored(SymbolRows(transactions', s)) = {}
    BY <1>3 DEF Stored, SymbolRows
  <1>7. Atomic!Rewrite(transactions', s)
    <2>1. DerivedPosition(SymbolRows(transactions', s)) = NoPosition
      BY <1>6 DEF DerivedPosition
    <2>2. Storable(SymbolRows(transactions', s))
      BY <1>6, WalkEmpty DEF Storable, Replays, NothingHeld
    <2>3. ~IsOpen(positions'[s])
      BY <1>1, <1>4 DEF IsOpen
    <2>. QED
      BY <1>4, <2>1, <2>2, <2>3, AtomicRewrite DEF Commit
  <1>8. \A q \in Symbols \ {s} : SymbolRows(transactions', q) = SymbolRows(transactions, q)
    BY <1>1, <1>3 DEF SymbolRows, Ledgers
  <1>. QED
    BY <1>1, <1>5, <1>7, <1>8, RewriteKeepsLedger DEF IInv

-----------------------------------------------------------------------------
(***************************************************************************)
(* The inductive invariant and the theorems.                               *)
(***************************************************************************)

\* A step of request r touches no other request's program counter or locals.
Own(r) ==
    \A q \in Requests \ {r} :
        /\ pc'[q] = pc[q] /\ op'[q] = op[q] /\ current'[q] = current[q]
        /\ existing'[q] = existing[q] /\ before'[q] = before[q]
        /\ rowWrites'[q] = rowWrites[q] /\ positionWrites'[q] = positionWrites[q]

\* The steps that change committed rows.
Commits(r) == Commit(r) \/ DropPortfolio(r)

LEMMA StepsAreLocal ==
    ASSUME TypeOK, NEW r \in Requests,
           \/ \E call \in Calls : Start(r, call)
           \/ Statement(r)
           \/ WaitForRow(r)
           \/ Rollback(r)
    PROVE  /\ Own(r)
           /\ ~Commits(r) => UNCHANGED committed
           /\ issued \subseteq issued'
  <1>. USE DEF Goto, committed, locals
  <1>1. Forget(r) => Own(r)
    BY DEF Own, Forget, TypeOK
  <1>2. Abandon(r) => Own(r) /\ UNCHANGED committed /\ issued \subseteq issued'
    BY <1>1 DEF Abandon
  <1>3. ASSUME NEW call \in Calls, Start(r, call)
        PROVE  Own(r) /\ UNCHANGED committed /\ issued \subseteq issued'
    BY <1>3 DEF Start, Own, TypeOK
  <1>4. Statement(r) => Commit(r) \/ (Own(r) /\ UNCHANGED committed /\ issued \subseteq issued')
    <2>1. CheckNotOpen(r) => Own(r) /\ UNCHANGED committed /\ issued \subseteq issued'
      BY <1>2 DEF CheckNotOpen, Own, TypeOK
    <2>2. FindTransaction(r) => Own(r) /\ UNCHANGED committed /\ issued \subseteq issued'
      BY <1>2 DEF FindTransaction, Own, TypeOK
    <2>3. ReadCurrent(r) => Own(r) /\ UNCHANGED committed /\ issued \subseteq issued'
      BY <1>2 DEF ReadCurrent, Own, TypeOK
    <2>4. LoadExisting(r) => Own(r) /\ UNCHANGED committed /\ issued \subseteq issued'
      BY <1>2 DEF LoadExisting, Own, TypeOK
    <2>5. ASSUME NEW i \in TxIds, InsertRow(r, i)
          PROVE  Own(r) /\ UNCHANGED committed /\ issued \subseteq issued'
      BY <2>5 DEF InsertRow, Own, TypeOK
    <2>6. IdsExhausted(r) => Own(r) /\ UNCHANGED committed /\ issued \subseteq issued'
      BY <1>2 DEF IdsExhausted
    <2>7. RewriteRow(r) => Own(r) /\ UNCHANGED committed /\ issued \subseteq issued'
      BY <1>2 DEF RewriteRow, Own, TypeOK
    <2>8. Reload(r) => Own(r) /\ UNCHANGED committed /\ issued \subseteq issued'
      BY DEF Reload, Own, TypeOK
    <2>9. SyncPosition(r) => Own(r) /\ UNCHANGED committed /\ issued \subseteq issued'
      BY <1>2 DEF SyncPosition, Own, TypeOK
    <2>10. CheckLimit(r) => Own(r) /\ UNCHANGED committed /\ issued \subseteq issued'
      BY <1>2 DEF CheckLimit, Own, TypeOK
    <2>11. RemovePosition(r) => Own(r) /\ UNCHANGED committed /\ issued \subseteq issued'
      BY <1>2 DEF RemovePosition, Own, TypeOK
    <2>12. RemoveRows(r) => Own(r) /\ UNCHANGED committed /\ issued \subseteq issued'
      BY DEF RemoveRows, Own, TypeOK
    <2>. QED
      BY <2>1, <2>2, <2>3, <2>4, <2>5, <2>6, <2>7, <2>8, <2>9, <2>10, <2>11, <2>12
      DEF Statement
  <1>5. Commit(r) => Own(r) /\ issued \subseteq issued'
    BY <1>1 DEF Commit
  <1>6. LockPortfolio(r) => Own(r) /\ UNCHANGED committed /\ issued \subseteq issued'
    BY <1>2 DEF LockPortfolio, Own, TypeOK
  <1>7. DropPortfolio(r) => Own(r) /\ issued \subseteq issued'
    BY <1>1 DEF DropPortfolio
  <1>. QED
    BY <1>2, <1>3, <1>4, <1>5, <1>6, <1>7 DEF WaitForRow, Rollback, Commits

\* A request that does not commit keeps its own preparation in order.
LEMMA OwnPreparation ==
    ASSUME IInv, TypeOK', NEW r \in Requests,
           \/ \E call \in Calls : Start(r, call)
           \/ Statement(r)
           \/ WaitForRow(r)
           \/ Rollback(r)
    PROVE  Prepared(r)'
  <1>. USE DEF IInv
  <1>0. (Abandon(r) \/ Commits(r)) => Prepared(r)'
    BY ForgetPrepared DEF Abandon, Commits, Commit, DropPortfolio
  <1>1. ASSUME NEW call \in Calls, Start(r, call)
        PROVE  Prepared(r)'
    <2>1. pc[r] = "idle" /\ pc'[r] \in {"lock", "check", "find", "drop"}
      BY <1>1 DEF Start, Goto, TypeOK, FirstStage
    <2>. QED
      BY <1>1, <2>1, BeforeTransaction DEF Start, InTransaction
  <1>2. CASE CheckNotOpen(r) /\ ~Abandon(r)
    <2>1. pc[r] = "check" /\ pc'[r] = "lock" /\ UNCHANGED <<rowWrites, positionWrites>>
      BY <1>2 DEF CheckNotOpen, Goto, TypeOK
    <2>. QED
      BY <2>1, BeforeTransaction DEF InTransaction
  <1>3. CASE FindTransaction(r) /\ ~Abandon(r)
    <2>1. pc[r] = "find" /\ pc'[r] = "lock" /\ UNCHANGED <<rowWrites, positionWrites>>
      BY <1>3 DEF FindTransaction, Goto, TypeOK, locals
    <2>. QED
      BY <2>1, BeforeTransaction DEF InTransaction
  <1>4. Statement(r) => Prepared(r)'
    BY <1>0, <1>2, <1>3, ReadPrepared, LoadPrepared, InsertPrepared, RewritePrepared,
       AfterWritePrepared, RemovalPrepared
    DEF Statement, IdsExhausted, Commits
  <1>. QED
    BY <1>0, <1>1, <1>4, LockPrepared DEF WaitForRow, Rollback, Commits

LEMMA NextPrepared ==
    ASSUME IInv, TypeOK', [Next]_vars
    PROVE  \A q \in Requests : Prepared(q)'
  <1>1. CASE UNCHANGED vars
    BY <1>1, OthersUndisturbed DEF IInv, vars, committed, locals
  <1>2. ASSUME NEW r \in Requests,
               \/ \E call \in Calls : Start(r, call)
               \/ Statement(r)
               \/ WaitForRow(r)
               \/ Rollback(r)
        PROVE  \A q \in Requests : Prepared(q)'
    <2>1. SUFFICES ASSUME NEW q \in Requests, q # r PROVE Prepared(q)'
      BY <1>2, OwnPreparation
    <2>2. Own(r) /\ issued \subseteq issued' /\ (~Commits(r) => UNCHANGED committed)
      BY <1>2, StepsAreLocal DEF IInv
    <2>3. CASE ~Commits(r)
      BY <2>1, <2>2, <2>3, OthersUndisturbed DEF IInv, Own, committed
    <2>4. CASE Commits(r)
      <3>1. pc[q] \notin InTransaction
        BY <2>1, <2>4, NoRequestIsNotARequest
        DEF Commits, Commit, DropPortfolio, IInv, LockHolderAlone, InTransaction
      <3>2. rowWrites[q] = NoChange /\ positionWrites[q] = NoChange
        BY <3>1, OutsideTransaction DEF IInv
      <3>3. /\ pc'[q] = pc[q] /\ op'[q] = op[q]
            /\ rowWrites'[q] = NoChange /\ positionWrites'[q] = NoChange
        BY <2>1, <2>2, <3>2 DEF Own
      <3>4. op'[q].kind \in {"create", "update", "delete", "remove", "add", "none", "drop"}
        BY DEF TypeOK, Calls, NoCall
      <3>. QED
        BY <3>1, <3>3, <3>4 DEF Prepared, CurrentFresh, PreparedWrite, PreparedRemoval,
                                InTransaction, Loaded, Written, Synced, RowWriters
    <2>. QED
      BY <2>3, <2>4
  <1>. QED
    BY <1>1, <1>2 DEF Next

\* Nothing stored is sound: a new portfolio, or a deleted one.
LEMMA EmptyIsSound ==
    ASSUME NEW t, t = EmptyLedger, NEW pos, pos = [s \in Symbols |-> NoPosition]
    PROVE  /\ \A s \in Symbols : pos[s] = DerivedPosition(SymbolRows(t, s))
           /\ \A s \in Symbols : Storable(SymbolRows(t, s))
           /\ Cardinality(OpenSymbols(pos)) <= MaxPositions
  <1>1. ASSUME NEW s \in Symbols
        PROVE  Stored(SymbolRows(t, s)) = {}
    BY DEF EmptyLedger, SymbolRows, Stored
  <1>2. OpenSymbols(pos) = {}
    BY DEF OpenSymbols, IsOpen
  <1>3. Cardinality(OpenSymbols(pos)) = 0
    BY <1>2, FS_EmptySet
  <1>. QED
    BY <1>1, <1>3, WalkEmpty, InputsAreValidated DEF DerivedPosition, Storable, Replays, NothingHeld

\* Only a commit of the right call writes the ledger, and it is an atomic step.
LEMMA CommittedStep ==
    ASSUME IInv, [Next]_vars
    PROVE  /\ Atomic!Next \/ UNCHANGED committed
           /\ LedgerInv'
  <1>1. ASSUME UNCHANGED committed
        PROVE  LedgerInv'
    BY <1>1 DEF IInv, LedgerInv, PositionsMatchLedger, StoredLedgerStorable,
                OpenPositionsWithinLimit, committed
  <1>2. ASSUME NEW r \in Requests, Commit(r)
        PROVE  Atomic!Next /\ LedgerInv'
    <2>1. op[r].kind \in RowWriters \union {"remove"}
      BY <1>2 DEF IInv, Commit, Shape, StageFitsCall
    <2>. QED
      BY <1>2, <2>1, CommitOfWrite, CommitOfRemoval
  <1>3. ASSUME NEW r \in Requests, DropPortfolio(r)
        PROVE  (Atomic!Next \/ UNCHANGED committed) /\ LedgerInv'
    <2>1. /\ exists' = FALSE
          /\ transactions' = EmptyLedger
          /\ positions' = [s \in Symbols |-> NoPosition]
      BY <1>3 DEF DropPortfolio
    <2>2. CASE exists
      <3>1. Atomic!EmptyLedger = EmptyLedger
        BY DEF Atomic!EmptyLedger, EmptyLedger
      <3>2. Atomic!Next
        BY <2>1, <2>2, <3>1 DEF Atomic!Next, Atomic!DeletePortfolio
      <3>3. LedgerInv'
        BY <2>1, EmptyIsSound
        DEF LedgerInv, PositionsMatchLedger, StoredLedgerStorable, OpenPositionsWithinLimit
      <3>. QED
        BY <3>2, <3>3
    <2>3. CASE ~exists
      BY <1>1, <2>1, <2>3 DEF IInv, NothingWithoutPortfolio, TypeOK, committed
    <2>. QED
      BY <2>2, <2>3
  <1>4. ASSUME NEW r \in Requests,
               \/ \E call \in Calls : Start(r, call)
               \/ Statement(r)
               \/ WaitForRow(r)
               \/ Rollback(r)
        PROVE  (Atomic!Next \/ UNCHANGED committed) /\ LedgerInv'
    <2>1. CASE Commits(r)
      BY <1>2, <1>3, <2>1 DEF Commits
    <2>2. CASE ~Commits(r)
      BY <1>1, <1>4, <2>2, StepsAreLocal DEF IInv
    <2>. QED
      BY <2>1, <2>2
  <1>5. CASE UNCHANGED vars
    BY <1>1, <1>5 DEF vars
  <1>. QED
    BY <1>4, <1>5 DEF Next

LEMMA InitInv == Init => IInv
  <1>. SUFFICES ASSUME Init PROVE IInv
    OBVIOUS
  <1>1. LedgerInv
    BY EmptyIsSound
    DEF Init, LedgerInv, PositionsMatchLedger, StoredLedgerStorable, OpenPositionsWithinLimit
  <1>2. \A r \in Requests : Prepared(r)
    BY DEF Init, Prepared, CurrentFresh, PreparedWrite, PreparedRemoval, NoCall, RowWriters
  <1>3. LockHolderAlone /\ NothingWithoutPortfolio /\ RowsHaveIssuedIds
    BY NoRequestIsNotARequest
    DEF Init, LockHolderAlone, NothingWithoutPortfolio, RowsHaveIssuedIds, InTransaction, Stored,
        EmptyLedger
  <1>. QED
    BY <1>1, <1>2, <1>3, InitTyping DEF IInv

LEMMA IssuedStep ==
    ASSUME IInv, [Next]_vars
    PROVE  RowsHaveIssuedIds'
  <1>. USE DEF RowsHaveIssuedIds, Stored
  <1>1. ASSUME NEW r \in Requests, Commit(r)
        PROVE  RowsHaveIssuedIds'
    <2>1. pc[r] = "commit" /\ op[r].kind \in RowWriters \union {"remove"} /\ issued' = issued
      BY <1>1 DEF IInv, Commit, Shape, StageFitsCall
    <2>2. transactions \in Ledgers /\ transactions' = RowsSeen(r) /\ issued \subseteq TxIds
      BY <1>1 DEF IInv, TypeOK, Commit
    <2>3. CASE op[r].kind \in RowWriters
      <3>1. OneRowWritten(r)
        BY <2>1, <2>3 DEF IInv, Prepared, PreparedWrite, Written
      <3>2. op[r].kind \in {"update", "delete"} =>
              op[r].id \in TxIds /\ transactions[op[r].id] # NoRow
        BY <2>1, CallTyping DEF IInv, Prepared, CurrentFresh, Loaded
      <3>. QED
        BY <2>1, <2>2, <2>3, <3>1, <3>2 DEF IInv, OneRowWritten, RowWriters, Ledgers
    <2>4. CASE op[r].kind = "remove"
      <3>1. rowWrites[r] = [x \in Stored(SymbolRows(transactions, op[r].symbol)) |-> NoRow]
        BY <2>1, <2>4 DEF IInv, Prepared, PreparedRemoval
      <3>. QED
        BY <2>1, <2>2, <3>1 DEF IInv, RowsSeen, Over, Ledgers, SymbolRows
    <2>. QED
      BY <2>1, <2>3, <2>4
  <1>2. ASSUME NEW r \in Requests, DropPortfolio(r)
        PROVE  RowsHaveIssuedIds'
    BY <1>2 DEF DropPortfolio, EmptyLedger
  <1>3. ASSUME UNCHANGED committed, issued \subseteq issued'
        PROVE  RowsHaveIssuedIds'
    BY <1>3 DEF IInv, committed
  <1>4. CASE UNCHANGED vars
    BY <1>3, <1>4 DEF vars
  <1>. QED
    BY <1>1, <1>2, <1>3, <1>4, StepsAreLocal DEF Next, Commits, IInv

LEMMA NextInv == IInv /\ [Next]_vars => IInv'
  <1>. SUFFICES ASSUME IInv, [Next]_vars PROVE IInv'
    OBVIOUS
  <1>1. TypeOK' /\ Shape'
    BY NextTyping DEF IInv
  <1>2. LockHolderAlone' /\ NothingWithoutPortfolio'
    BY LockStep DEF IInv
  <1>. QED
    BY <1>1, <1>2, NextPrepared, CommittedStep, IssuedStep DEF IInv

LEMMA Invariance == Spec => []IInv
  BY InitInv, NextInv, PTL DEF Spec

\* The position cache is always what a replay of the committed transactions derives.
THEOREM CacheIsDerived == Spec => []PositionsMatchLedger
  <1>1. IInv => PositionsMatchLedger
    BY DEF IInv, LedgerInv
  <1>. QED
    BY <1>1, Invariance, PTL

\* No sequence of writes, of any requests in any order, stores a ledger that oversells.
THEOREM LedgerIsAlwaysValid == Spec => []StoredLedgerReplays
  <1>1. IInv => StoredLedgerReplays
    BY DEF IInv, LedgerInv, StoredLedgerStorable, StoredLedgerReplays, Storable
  <1>. QED
    BY <1>1, Invariance, PTL

\* The open-position limit holds whatever the writes that open symbols.
THEOREM LimitHolds == Spec => []OpenPositionsWithinLimit
  <1>1. IInv => OpenPositionsWithinLimit
    BY DEF IInv, LedgerInv
  <1>. QED
    BY <1>1, Invariance, PTL

\* A committed edit changes the patched fields of the stored row and nothing else.
THEOREM EditsAreMerged == Spec => EditsMerge
  <1>. DEFINE Merge == \A r \in Requests :
                  op[r].kind = "update" /\ pc[r] = "commit" /\ pc'[r] = "idle"
                    /\ transactions' # transactions
                  => /\ transactions[op[r].id] # NoRow
                     /\ transactions' = [transactions EXCEPT ![op[r].id] = Apply(op[r].patch, @)]
  <1>1. IInv /\ [Next]_vars => [Merge]_vars
    <2>. SUFFICES ASSUME IInv, Next, NEW r \in Requests,
                         op[r].kind = "update", pc[r] = "commit", pc'[r] = "idle",
                         transactions' # transactions
                  PROVE  /\ transactions[op[r].id] # NoRow
                         /\ transactions' = [transactions EXCEPT ![op[r].id] = Apply(op[r].patch, @)]
      OBVIOUS
    <2>1. PICK q \in Requests : \/ \E call \in Calls : Start(q, call)
                                \/ Statement(q)
                                \/ WaitForRow(q)
                                \/ Rollback(q)
      BY DEF Next
    <2>2. q = r
      BY <2>1, StepsAreLocal DEF IInv, Own
    <2>3. Commit(r)
      BY <2>1, <2>2, StepsAreLocal DEF IInv, committed, Commits, DropPortfolio
    <2>4. /\ OneRowWritten(r)
          /\ transactions[op[r].id] # NoRow
          /\ current[r] = Apply(op[r].patch, transactions[op[r].id])
      BY DEF IInv, Prepared, CurrentFresh, PreparedWrite, RowWriters, Loaded, Written
    <2>. QED
      BY <2>3, <2>4 DEF OneRowWritten, Commit
  <1>. QED
    BY <1>1, Invariance, PTL DEF Spec, EditsMerge

\* The concurrent ledger implements the atomic one: every committed write happens as
\* if alone, on the rows stored at that moment.
THEOREM Refinement == Spec => ImplementsAtomicLedger
  <1>1. Init => Atomic!Init
    <2>1. Atomic!EmptyLedger = EmptyLedger
      BY DEF Atomic!EmptyLedger, EmptyLedger
    <2>. QED
      BY <2>1 DEF Init, Atomic!Init
  <1>2. IInv /\ [Next]_vars => [Atomic!Next]_Atomic!vars
    BY CommittedStep DEF committed, Atomic!vars
  <1>. QED
    BY <1>1, <1>2, Invariance, PTL DEF Spec, Atomic!Spec, ImplementsAtomicLedger
=============================================================================
