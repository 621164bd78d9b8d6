------------------------ MODULE WarehouseServiceProofs ------------------------
(***************************************************************************)
(* Theorems about WarehouseService, for any requests, goods, users, size   *)
(* of the pool and number of restarts.                                     *)
(***************************************************************************)
EXTENDS WarehouseService, TLAPS

USE ServiceAssumption

\* Where a request is tells what it asks.
Asked ==
    \A k \in Requests :
        /\ pc[k] \in Active => op[k] \in Ops
        /\ pc[k] = "upgrade" => op[k].kind = "login"
        /\ pc[k] = "recheck" => op[k].kind = "take"
        /\ pc[k] = "readback" => op[k].kind # "login"
        /\ pc[k] \in Active /\ op[k].kind = "take" => op[k].id \in Goods

\* What a worker does, or the arrival of its request.
Moves(k) == Receive(k) \/ Worker(k)

\* What the fields of a request are.
LEMMA OpFields ==
    ASSUME NEW o \in Ops
    PROVE  /\ o.kind = "login" => o.user \in Users
           /\ o.kind = "take" => o.id \in Goods \cup {NoId}
           /\ o.kind \in {"login", "list", "create", "take"}
BY DEF Ops

\* What the fields of a write are.
LEMMA WriteFields ==
    ASSUME NEW w \in Writes
    PROVE  /\ w.row \in Rows
           /\ w.to \in {"stored", "taken", "strong"}
           /\ w.row \in Users => w = Upgrade(w.row)
BY DEF Writes, Rows, Goods, Store, Take, Upgrade

\* Every error code has one of two meanings.
LEMMA Verdicts ==
    /\ \A o : Refusal(o) = Admitted \/ Refusal(o) \in Refusals
    /\ \A k : Failure(k) \in Failures
    /\ Refusals \cap Failures = {}
    /\ Admitted \notin Refusals
<1>1. \A o : AuthRefusal(o) \in {"Unauthenticated", "Forbidden", Admitted}
  BY DEF AuthRefusal
<1>2. \A o : FieldRefusal(o) \in {"InvalidLoginInput", "InvalidGoodsName", "InvalidGoodsId", Admitted}
  BY DEF FieldRefusal
<1>3. QED BY <1>1, <1>2 DEF Refusal, Refusals, Failure, Failures, Admitted

LEMMA InitTyped == Init => TypeOK /\ Asked
BY DEF Init, TypeOK, Asked, Active, Statement, Rows, Goods

LEMMA ReceiveTyped ==
    ASSUME TypeOK, Asked, NEW k \in Requests, Receive(k)
    PROVE  TypeOK' /\ Asked'
<1> PICK o \in Ops : Call(k, o)
  BY DEF Receive
<1>1. CASE Refusal(o) = Admitted
  <2>1. o.kind = "take" => o.id \in Goods
    BY <1>1, OpFields, Verdicts DEF Refusal, FieldRefusal, Admitted
  <2>2. QED BY <1>1, <2>1 DEF TypeOK, Asked, Call, Goto, Active, Statement, server
<1>2. CASE Refusal(o) # Admitted
  BY <1>2, Verdicts DEF TypeOK, Asked, Call, Goto, Decide, Active, Statement, server
<1>3. QED BY <1>1, <1>2

\* The steps of a worker that end, or do not change, its transaction.
LEMMA WorkerTyped ==
    ASSUME TypeOK, Asked, NEW k \in Requests, Worker(k)
    PROVE  TypeOK' /\ Asked'
<1> USE DEF TypeOK, Asked, Active, Statement
<1>1. CASE Begin(k) \/ ListSelect(k) \/ ReadBack(k)
  BY <1>1 DEF Begin, ListSelect, ReadBack, Goto, server
<1>2. CASE BeginFails(k) \/ StatementFails(k) \/ ConnectionLost(k) \/ CommitFails(k)
  BY <1>2, Verdicts DEF BeginFails, StatementFails, ConnectionLost, CommitFails, Goto, Decide, server
<1>3. CASE LoginSelect(k)
  <2>1. op[k].user \in Rows /\ "InvalidCredentials" \in Refusals
    BY <1>3, OpFields DEF LoginSelect, Rows, Refusals
  <2>2. QED BY <1>3, <2>1 DEF LoginSelect, Goto, Decide
<1>4. CASE LoginUpgrade(k)
  <2>1. Upgrade(op[k].user) \in Writes
    BY <1>4, OpFields DEF LoginUpgrade, Writes
  <2>2. QED BY <1>4, <2>1 DEF LoginUpgrade, Goto
<1>5. CASE CreateInsert(k)
  <2>1. nextId \in Rows /\ Store(nextId) \in Writes /\ nextId' \in 1..MaxGoods + 1
    BY <1>5 DEF CreateInsert, Rows, Goods, Writes
  <2>2. QED BY <1>5, <2>1 DEF CreateInsert, Goto
<1>6. CASE TakeUpdate(k)
  <2>1. op[k].id \in Goods /\ Take(op[k].id) \in Writes
    BY <1>6, OpFields DEF Writes, TakeUpdate
  <2>2. QED BY <1>6, <2>1 DEF TakeUpdate, Goto, Rows
<1>7. CASE TakeRecheck(k)
  <2>1. op[k].id \in Goods /\ {"GoodsNotFound", "GoodsAlreadyTaken"} \subseteq Refusals
    BY <1>7, OpFields DEF TakeRecheck, Refusals
  <2>2. QED BY <1>7, <2>1 DEF TakeRecheck, Goto, Decide, Rows
<1>8. CASE Rollback(k) \/ Finish(k)
  BY <1>8 DEF Rollback, Finish, EndTxn, Goto, Decide, server
<1>9. CASE Commit(k)
  BY <1>9, WriteFields DEF Commit, CommitTxn, EndTxn, Goto
<1>10. QED BY <1>1, <1>2, <1>3, <1>4, <1>5, <1>6, <1>7, <1>8, <1>9 DEF Worker

LEMMA ServerTyped ==
    ASSUME TypeOK, Asked, NEW k \in Requests, ServerDrops(k) \/ ServerCommits(k)
    PROVE  TypeOK' /\ Asked'
BY WriteFields DEF TypeOK, Asked, ServerDrops, ServerCommits, CommitTxn, EndTxn, client

LEMMA CrashTyped == TypeOK /\ Asked /\ Crash => TypeOK' /\ Asked'
BY DEF TypeOK, Asked, Crash, Active, Statement

LEMMA TypesAlways == Spec => [](TypeOK /\ Asked)
<1>1. TypeOK /\ Asked /\ [Next]_vars => TypeOK' /\ Asked'
  <2>1. CASE UNCHANGED vars
    BY <2>1 DEF TypeOK, Asked, vars, client, server
  <2>2. CASE Next
    BY <2>2, ReceiveTyped, WorkerTyped, ServerTyped, CrashTyped DEF Next
  <2>3. QED BY <2>1, <2>2
<1>2. QED BY InitTyped, <1>1, PTL DEF Spec

\* Every variable keeps its type, and exactly the workers past the acquisition
\* of a connection have a lease, whatever fails and whenever the process dies.
THEOREM TypeCorrect == Spec => []TypeOK
BY TypesAlways, PTL

-----------------------------------------------------------------------------

\* Where a request is tells where its transaction is.  In particular a worker
\* leaves an open transaction only by ending it or by losing its connection.
Transacts ==
    \A k \in Requests :
        /\ pc[k] \in {"new", "begin"} => txn[k] = "none"
        /\ txn[k] = "open" <=> pc[k] \in Statement \cup {"rollback", "commit"}
        /\ pc[k] = "finish" => txn[k] = "over"
        /\ txn[k] = "inDoubt" => pc[k] = "dead" \/ (pc[k] = "done" /\ verdict[k] \in Failures)
        /\ pc[k] = "rollback" => verdict[k] \in Refusals \cup Failures

\* When the write of a request is decided, and when it has taken effect.
Decided ==
    \A k \in Requests :
        /\ txn[k] = "none" \/ pc[k] \in {"first", "recheck", "upgrade"} => write[k] = NoWrite
        /\ k \in applied => txn[k] = "over"
        /\ pc[k] = "finish" => write[k] = NoWrite \/ k \in applied
        /\ pc[k] = "done" /\ verdict[k] \in Refusals => k \notin applied
        /\ pc[k] = "done" /\ verdict[k] \notin Refusals \cup Failures =>
                verdict[k] = "ok" /\ (write[k] = NoWrite \/ k \in applied)

\* Row locks exclude each other, and end with their transaction.
Exclusive ==
    /\ \A j, k \in Requests : lock[j] = lock[k] /\ lock[j] # NoRow => j = k
    /\ \A k \in Requests : txn[k] \in {"none", "over"} => lock[k] = NoRow

\* A goods id that was not given out yet is neither locked nor stored.
Unused ==
    /\ \A k \in Requests : lock[k] \in Goods => lock[k] < nextId
    /\ \A i \in Goods : i >= nextId => row[i] = "absent"

\* What a login has seen of its user under the lock of the row, and what it has
\* achieved by its end.
Upgraded ==
    /\ \A u \in Users : row[u] \in {"absent", "weak", "strong"}
    /\ \A k \in Requests : pc[k] = "upgrade" => lock[k] = op[k].user /\ row[op[k].user] = "weak"
    /\ \A k \in Requests : pc[k] \in {"commit", "finish"} /\ op[k].kind = "login" =>
            \/ row[op[k].user] = "strong"
            \/ pc[k] = "commit" /\ write[k] = Upgrade(op[k].user)
    /\ \A k \in sessions : /\ pc[k] = "done" /\ op[k] \in Ops /\ op[k].kind = "login"
                           /\ row[op[k].user] = "strong"

\* A step of one worker, or of the server for one transaction, leaves the other
\* requests alone.
LEMMA OthersAlone ==
    ASSUME TypeOK, NEW k \in Requests, NEW j \in Requests \ {k},
           Receive(k) \/ Worker(k) \/ ServerDrops(k) \/ ServerCommits(k)
    PROVE  /\ pc'[j] = pc[j] /\ op'[j] = op[j] /\ verdict'[j] = verdict[j]
           /\ txn'[j] = txn[j] /\ lock'[j] = lock[j] /\ write'[j] = write[j]
           /\ j \in applied' <=> j \in applied
<1> USE DEF TypeOK, Goto, Decide, EndTxn, CommitTxn, client, server
<1>1. CASE Receive(k)
  BY <1>1 DEF Receive, Call
<1>2. CASE ServerDrops(k) \/ ServerCommits(k)
  BY <1>2 DEF ServerDrops, ServerCommits
<1>3. CASE Begin(k) \/ BeginFails(k) \/ LoginUpgrade(k) \/ ListSelect(k) \/ ReadBack(k)
  BY <1>3 DEF Begin, BeginFails, LoginUpgrade, ListSelect, ReadBack
<1>4. CASE LoginSelect(k)
  BY <1>4 DEF LoginSelect
<1>5. CASE CreateInsert(k) \/ TakeUpdate(k) \/ TakeRecheck(k)
  BY <1>5 DEF CreateInsert, TakeUpdate, TakeRecheck
<1>6. CASE StatementFails(k) \/ ConnectionLost(k) \/ Rollback(k)
  BY <1>6 DEF StatementFails, ConnectionLost, Rollback
<1>7. CASE Commit(k) \/ CommitFails(k) \/ Finish(k)
  BY <1>7 DEF Commit, CommitFails, Finish
<1>8. QED BY <1>1, <1>2, <1>3, <1>4, <1>5, <1>6, <1>7 DEF Worker

LEMMA WorkerTransacts ==
    ASSUME TypeOK, Transacts, NEW k \in Requests,
           Receive(k) \/ Worker(k) \/ ServerDrops(k) \/ ServerCommits(k)
    PROVE  Transacts'
<1> DEFINE T(j) ==
        /\ pc[j] \in {"new", "begin"} => txn[j] = "none"
        /\ txn[j] = "open" <=> pc[j] \in Statement \cup {"rollback", "commit"}
        /\ pc[j] = "finish" => txn[j] = "over"
        /\ txn[j] = "inDoubt" => pc[j] = "dead" \/ (pc[j] = "done" /\ verdict[j] \in Failures)
        /\ pc[j] = "rollback" => verdict[j] \in Refusals \cup Failures
<1>1. ASSUME NEW j \in Requests \ {k}
      PROVE  T(j)'
  BY <1>1, OthersAlone DEF Transacts
<1>2. T(k)'
  <2> USE DEF TypeOK, Transacts, Goto, Decide, EndTxn, CommitTxn, Statement, client, server
  <2>1. CASE Receive(k)
    BY <2>1 DEF Receive, Call
  <2>2. CASE ServerDrops(k) \/ ServerCommits(k)
    BY <2>2 DEF ServerDrops, ServerCommits
  <2>3. CASE Begin(k) \/ LoginUpgrade(k) \/ ListSelect(k) \/ ReadBack(k)
    BY <2>3 DEF Begin, LoginUpgrade, ListSelect, ReadBack
  <2>4. CASE LoginSelect(k)
    BY <2>4 DEF LoginSelect, Refusals
  <2>5. CASE CreateInsert(k) \/ TakeUpdate(k)
    BY <2>5 DEF CreateInsert, TakeUpdate
  <2>6. CASE TakeRecheck(k)
    BY <2>6 DEF TakeRecheck, Refusals
  <2>7. CASE BeginFails(k) \/ StatementFails(k) \/ ConnectionLost(k) \/ CommitFails(k)
    BY <2>7, Verdicts DEF BeginFails, StatementFails, ConnectionLost, CommitFails
  <2>8. CASE Rollback(k) \/ Commit(k) \/ Finish(k)
    BY <2>8 DEF Rollback, Commit, Finish
  <2>9. QED BY <2>1, <2>2, <2>3, <2>4, <2>5, <2>6, <2>7, <2>8 DEF Worker
<1>3. QED BY <1>1, <1>2 DEF Transacts

LEMMA CrashTransacts == TypeOK /\ Transacts /\ Crash => Transacts'
BY DEF TypeOK, Transacts, Crash, Active, Statement

\* The transaction of a request is open exactly while its worker is between
\* its start and its end.
LEMMA TransactsAlways == Spec => []Transacts
<1>1. Init => Transacts
  BY DEF Init, Transacts, Statement
<1>2. TypeOK /\ Transacts /\ [Next]_vars => Transacts'
  <2>1. CASE UNCHANGED vars
    BY <2>1 DEF Transacts, vars, client, server
  <2>2. CASE Next
    BY <2>2, WorkerTransacts, CrashTransacts DEF Next
  <2>3. QED BY <2>1, <2>2
<1>3. QED BY <1>1, <1>2, TypesAlways, PTL DEF Spec

\* A usable connection is never given back with its transaction open.
THEOREM ReturnsClean == Spec => []CleanReturn
<1>1. TypeOK /\ Transacts => CleanReturn
  BY DEF TypeOK, Transacts, CleanReturn, Active
<1>2. QED BY <1>1, TypesAlways, TransactsAlways, PTL

-----------------------------------------------------------------------------

\* The steps of one request.
Steps(k) == Receive(k) \/ Worker(k) \/ ServerDrops(k) \/ ServerCommits(k)

\* The inductive invariant of the rows: what is known of a row, its locks and
\* the writes about it only holds together.
RowsInv == Decided /\ Exclusive /\ Unused /\ WriteStillValid /\ Upgraded

\* Only the two commits change rows, and only a row the committing transaction
\* has locked and which is as its write expects.
LEMMA RowChange ==
    ASSUME TypeOK, Transacts, WriteStillValid, NEW k \in Requests, Steps(k),
           NEW r \in Rows, row'[r] # row[r]
    PROVE  /\ write[k] \in Writes /\ txn[k] \in {"open", "inDoubt"}
           /\ lock[k] = r /\ write[k].row = r /\ row[r] = write[k].from
           /\ row'[r] = write[k].to
           /\ k \in applied'
           /\ CommitTxn(k)
<1>1. CommitTxn(k) /\ txn[k] \in {"open", "inDoubt"}
  <2>1. CASE Worker(k)
    BY <2>1 DEF Worker, Begin, BeginFails, LoginSelect, LoginUpgrade, ListSelect, CreateInsert,
                TakeUpdate, TakeRecheck, ReadBack, StatementFails, ConnectionLost, Rollback,
                Commit, CommitFails, Finish, server, Transacts
  <2>2. CASE Receive(k) \/ ServerDrops(k) \/ ServerCommits(k)
    BY <2>2 DEF Receive, Call, ServerDrops, ServerCommits, server
  <2>3. QED BY <2>1, <2>2 DEF Steps
<1>2. write[k] # NoWrite /\ row' = [row EXCEPT ![write[k].row] = write[k].to] /\ k \in applied'
  BY <1>1 DEF CommitTxn
<1>3. lock[k] = write[k].row /\ row[write[k].row] = write[k].from /\ write[k] \in Writes
  BY <1>1, <1>2 DEF WriteStillValid, TypeOK
<1>4. QED BY <1>1, <1>2, <1>3 DEF TypeOK

LEMMA StepDecided ==
    ASSUME TypeOK, Transacts, Decided, NEW k \in Requests, Steps(k)
    PROVE  Decided'
<1> DEFINE D(j) ==
        /\ txn[j] = "none" \/ pc[j] \in {"first", "recheck", "upgrade"} => write[j] = NoWrite
        /\ j \in applied => txn[j] = "over"
        /\ pc[j] = "finish" => write[j] = NoWrite \/ j \in applied
        /\ pc[j] = "done" /\ verdict[j] \in Refusals => j \notin applied
        /\ pc[j] = "done" /\ verdict[j] \notin Refusals \cup Failures =>
                verdict[j] = "ok" /\ (write[j] = NoWrite \/ j \in applied)
<1>1. ASSUME NEW j \in Requests \ {k}
      PROVE  D(j)'
  BY <1>1, OthersAlone DEF Decided, Steps
<1>2. D(k)'
  <2> USE DEF TypeOK, Transacts, Decided, Statement, Goto, Decide, EndTxn, CommitTxn, client, server
  <2>1. CASE Receive(k)
    BY <2>1, Verdicts DEF Receive, Call
  <2>2. CASE ServerDrops(k) \/ ServerCommits(k)
    BY <2>2, Verdicts DEF ServerDrops, ServerCommits
  <2>3. CASE Begin(k) \/ LoginSelect(k) \/ LoginUpgrade(k) \/ ListSelect(k) \/ ReadBack(k)
    BY <2>3 DEF Begin, LoginSelect, LoginUpgrade, ListSelect, ReadBack
  <2>4. CASE CreateInsert(k) \/ TakeUpdate(k) \/ TakeRecheck(k)
    BY <2>4 DEF CreateInsert, TakeUpdate, TakeRecheck
  <2>5. CASE BeginFails(k) \/ StatementFails(k) \/ ConnectionLost(k) \/ CommitFails(k)
    BY <2>5, Verdicts DEF BeginFails, StatementFails, ConnectionLost, CommitFails
  <2>6. CASE Rollback(k) \/ Commit(k)
    BY <2>6, Verdicts DEF Rollback, Commit
  <2>7. CASE Finish(k)
    BY <2>7 DEF Finish, Refusals, Failures
  <2>8. QED BY <2>1, <2>2, <2>3, <2>4, <2>5, <2>6, <2>7 DEF Worker, Steps
<1>3. QED BY <1>1, <1>2 DEF Decided

\* Goods ids are given out in order, and never twice.
LEMMA IdsGrow ==
    ASSUME TypeOK, NEW k \in Requests, Steps(k)
    PROVE  nextId \in Nat /\ nextId' \in Nat /\ nextId <= nextId'
<1>1. nextId \in Nat /\ (nextId' = nextId \/ nextId' = nextId + 1)
  <2>1. CASE Worker(k)
    BY <2>1 DEF TypeOK, Worker, Begin, BeginFails, LoginSelect, LoginUpgrade, ListSelect, CreateInsert,
                TakeUpdate, TakeRecheck, ReadBack, StatementFails, ConnectionLost, Rollback,
                Commit, CommitTxn, CommitFails, Finish, server
  <2>2. CASE Receive(k) \/ ServerDrops(k) \/ ServerCommits(k)
    BY <2>2 DEF TypeOK, Receive, Call, ServerDrops, ServerCommits, CommitTxn, server
  <2>3. QED BY <2>1, <2>2 DEF Steps
<1>2. QED BY <1>1

\* How the lock of the request that steps may change.
LEMMA LockChange ==
    ASSUME TypeOK, Asked, Transacts, Exclusive, Unused, NEW k \in Requests, Steps(k)
    PROVE  /\ \/ lock'[k] = lock[k] \/ lock'[k] = NoRow
              \/ \A j \in Requests \ {k} : lock[j] # lock'[k]
           /\ txn'[k] \in {"none", "over"} => lock'[k] = NoRow
           /\ lock'[k] # lock[k] /\ lock'[k] \in Goods => lock'[k] < nextId'
<1> USE DEF TypeOK, Transacts, Exclusive, Statement, Goto, Decide, EndTxn, CommitTxn, client, server
<1>1. CASE Receive(k)
  BY <1>1 DEF Receive, Call
<1>2. CASE ServerDrops(k) \/ ServerCommits(k)
  BY <1>2 DEF ServerDrops, ServerCommits, Goods
<1>3. CASE Begin(k) \/ LoginUpgrade(k) \/ ListSelect(k) \/ ReadBack(k)
  BY <1>3 DEF Begin, LoginUpgrade, ListSelect, ReadBack
<1>4. CASE LoginSelect(k)
  <2>1. op[k].user \in Users
    BY <1>4, OpFields DEF LoginSelect, Asked, Active
  <2>2. QED BY <1>4, <2>1 DEF LoginSelect, Unlocked, Goods
<1>5. CASE CreateInsert(k)
  BY <1>5 DEF CreateInsert, Unused, Goods
<1>6. CASE TakeUpdate(k) \/ TakeRecheck(k)
  <2>1. op[k].id \in Goods /\ (row[op[k].id] # "absent" => op[k].id < nextId)
    BY <1>6 DEF TakeUpdate, TakeRecheck, Asked, Active, Unused, Goods
  <2>2. QED BY <1>6, <2>1 DEF TakeUpdate, TakeRecheck, Unlocked
<1>7. CASE BeginFails(k) \/ StatementFails(k) \/ ConnectionLost(k) \/ CommitFails(k)
  BY <1>7 DEF BeginFails, StatementFails, ConnectionLost, CommitFails
<1>8. CASE Rollback(k) \/ Commit(k) \/ Finish(k)
  BY <1>8 DEF Rollback, Commit, Finish, Goods
<1>9. QED BY <1>1, <1>2, <1>3, <1>4, <1>5, <1>6, <1>7, <1>8 DEF Worker, Steps

LEMMA StepExclusive ==
    ASSUME TypeOK, Asked, Transacts, Exclusive, Unused, NEW k \in Requests, Steps(k)
    PROVE  Exclusive'
BY LockChange, OthersAlone DEF Exclusive, Steps

LEMMA StepUnused ==
    ASSUME TypeOK, Asked, Transacts, Exclusive, Unused, WriteStillValid, NEW k \in Requests, Steps(k)
    PROVE  Unused'
<1> USE DEF Unused
<1>1. ASSUME NEW j \in Requests, lock'[j] \in Goods
      PROVE  lock'[j] < nextId'
  <2>1. CASE lock'[j] = lock[j]
    BY <1>1, <2>1, IdsGrow DEF Goods
  <2>2. CASE lock'[j] # lock[j]
    BY <1>1, <2>2, LockChange, OthersAlone DEF Steps
  <2>3. QED BY <2>1, <2>2
<1>2. ASSUME NEW i \in Goods, i >= nextId'
      PROVE  row'[i] = "absent"
  <2>1. i >= nextId /\ row[i] = "absent"
    BY <1>2, IdsGrow DEF Goods
  <2>2. row'[i] = row[i]
    <3>1. lock[k] # i
      BY <2>1, IdsGrow DEF Goods
    <3>2. QED BY <3>1, RowChange DEF Rows
  <2>3. QED BY <2>1, <2>2
<1>3. QED BY <1>1, <1>2

LEMMA StepValid ==
    ASSUME TypeOK, Asked, Transacts, RowsInv, NEW k \in Requests, Steps(k)
    PROVE  WriteStillValid'
<1> DEFINE V(j) ==
        write[j] # NoWrite /\ txn[j] \in {"open", "orphan", "inDoubt"}
            => lock[j] = write[j].row /\ row[write[j].row] = write[j].from
<1> USE DEF RowsInv
<1>1. ASSUME NEW j \in Requests \ {k}
      PROVE  V(j)'
  <2> SUFFICES ASSUME write[j] # NoWrite, txn[j] \in {"open", "orphan", "inDoubt"}
               PROVE  row'[write[j].row] = row[write[j].row]
    BY <1>1, OthersAlone DEF WriteStillValid, Steps
  <2>1. lock[j] = write[j].row /\ write[j].row \in Rows /\ write[j].row # NoRow
    BY WriteFields DEF WriteStillValid, TypeOK, Rows, Goods
  <2>2. lock[k] # write[j].row
    BY <2>1 DEF Exclusive
  <2>3. QED BY <2>1, <2>2, RowChange
<1>2. V(k)'
  <2> USE DEF TypeOK, Transacts, Statement, Goto, Decide, EndTxn, CommitTxn, client, server
  <2>1. CASE Receive(k)
    BY <2>1 DEF Receive, Call, Decided
  <2>2. CASE ServerDrops(k) \/ ServerCommits(k) \/ Rollback(k) \/ Commit(k)
    BY <2>2 DEF ServerDrops, ServerCommits, Rollback, Commit
  <2>3. CASE Begin(k) \/ LoginSelect(k) \/ TakeRecheck(k) \/ BeginFails(k)
    BY <2>3 DEF Begin, LoginSelect, TakeRecheck, BeginFails, Decided
  <2>4. CASE ListSelect(k) \/ ReadBack(k) \/ StatementFails(k) \/ Finish(k)
    BY <2>4 DEF ListSelect, ReadBack, StatementFails, Finish, WriteStillValid
  <2>5. CASE ConnectionLost(k) \/ CommitFails(k)
    BY <2>5 DEF ConnectionLost, CommitFails, WriteStillValid
  <2>6. CASE LoginUpgrade(k)
    BY <2>6 DEF LoginUpgrade, Upgraded, Upgrade
  <2>7. CASE CreateInsert(k)
    <3>1. nextId \in Goods /\ nextId >= nextId
      BY <2>7 DEF CreateInsert, Goods
    <3>2. row[nextId] = "absent"
      BY <3>1 DEF Unused
    <3>3. QED BY <2>7, <3>2 DEF CreateInsert, Store
  <2>8. CASE TakeUpdate(k)
    BY <2>8 DEF TakeUpdate, Take, Decided
  <2>9. QED BY <2>1, <2>2, <2>3, <2>4, <2>5, <2>6, <2>7, <2>8 DEF Worker, Steps
<1>3. QED BY <1>1, <1>2 DEF WriteStillValid

\* A password hash of the current strength is never replaced.
LEMMA StrongStays ==
    ASSUME TypeOK, Transacts, RowsInv, NEW k \in Requests, Steps(k), NEW u \in Users
    PROVE  /\ row'[u] \in {"absent", "weak", "strong"}
           /\ row[u] = "strong" => row'[u] = "strong"
<1>1. row[u] \in {"absent", "weak", "strong"} /\ u \in Rows
  BY DEF RowsInv, Upgraded, Rows
<1>2. row'[u] # row[u] => row'[u] = "strong"
  BY <1>1, RowChange, WriteFields DEF RowsInv, Upgrade
<1>3. QED BY <1>1, <1>2

LEMMA StepUpgraded ==
    ASSUME TypeOK, Asked, Transacts, RowsInv, NEW k \in Requests, Steps(k)
    PROVE  Upgraded'
<1> USE DEF RowsInv
<1> DEFINE Seen(j) == pc[j] = "upgrade" => lock[j] = op[j].user /\ row[op[j].user] = "weak"
           Ends(j) == pc[j] \in {"commit", "finish"} /\ op[j].kind = "login" =>
                        \/ row[op[j].user] = "strong"
                        \/ pc[j] = "commit" /\ write[j] = Upgrade(op[j].user)
           Logged(j) == /\ pc[j] = "done" /\ op[j] \in Ops /\ op[j].kind = "login"
                        /\ row[op[j].user] = "strong"
<1>1. ASSUME NEW j \in Requests \ {k}
      PROVE  Seen(j)' /\ Ends(j)'
  <2>1. CASE pc[j] = "upgrade"
    <3>1. op[j].user \in Users /\ lock[j] = op[j].user /\ row[op[j].user] = "weak"
      BY <2>1, OpFields DEF Asked, Active, Statement, Upgraded
    <3>2. lock[k] # op[j].user /\ op[j].user \in Rows
      BY <3>1 DEF Exclusive, Rows, Goods
    <3>3. row'[op[j].user] = row[op[j].user]
      BY <3>2, RowChange
    <3>4. QED BY <2>1, <3>1, <3>3, OthersAlone DEF Steps
  <2>2. CASE pc[j] \in {"commit", "finish"} /\ op[j].kind = "login"
    <3>1. op[j].user \in Users
      BY <2>2, OpFields DEF Asked, Active
    <3>2. QED BY <2>2, <3>1, StrongStays, OthersAlone DEF Steps, Upgraded
  <2>3. QED BY <2>1, <2>2, OthersAlone DEF Steps
<1>2. Seen(k)' /\ Ends(k)'
  <2> USE DEF TypeOK, Asked, Active, Statement, Goto, Decide, client, server
  <2>1. CASE Receive(k)
    BY <2>1 DEF Receive, Call
  <2>2. CASE ServerDrops(k) \/ ServerCommits(k)
    BY <2>2 DEF ServerDrops, ServerCommits, Transacts
  <2>3. CASE Begin(k) \/ ListSelect(k) \/ ReadBack(k)
    BY <2>3 DEF Begin, ListSelect, ReadBack
  <2>4. CASE LoginSelect(k)
    <3>1. op[k].user \in Users
      BY <2>4, OpFields DEF LoginSelect
    <3>2. row[op[k].user] \in {"absent", "weak", "strong"}
      BY <3>1 DEF Upgraded
    <3>3. QED BY <2>4, <3>1, <3>2 DEF LoginSelect
  <2>5. CASE LoginUpgrade(k)
    BY <2>5 DEF LoginUpgrade
  <2>6. CASE CreateInsert(k) \/ TakeUpdate(k) \/ TakeRecheck(k)
    BY <2>6 DEF CreateInsert, TakeUpdate, TakeRecheck
  <2>7. CASE BeginFails(k) \/ StatementFails(k) \/ ConnectionLost(k) \/ CommitFails(k)
    BY <2>7 DEF BeginFails, StatementFails, ConnectionLost, CommitFails
  <2>8. CASE Rollback(k) \/ Finish(k)
    BY <2>8 DEF Rollback, Finish
  <2>9. CASE Commit(k)
    <3> SUFFICES ASSUME op[k].kind = "login"
                 PROVE  row'[op[k].user] = "strong"
      BY <2>9 DEF Commit
    <3>1. op[k].user \in Users
      BY <2>9, OpFields DEF Commit
    <3>2. CASE row[op[k].user] = "strong"
      BY <3>1, <3>2, StrongStays
    <3>3. CASE write[k] = Upgrade(op[k].user) /\ row[op[k].user] # "strong"
      <4>1. write[k] # NoWrite
        BY <3>1, <3>3, WriteAssumption DEF Writes
      <4>2. QED BY <2>9, <3>1, <3>3, <4>1 DEF Commit, CommitTxn, Upgrade, Rows
    <3>4. QED BY <2>9, <3>2, <3>3 DEF Commit, Upgraded
  <2>10. QED BY <2>1, <2>2, <2>3, <2>4, <2>5, <2>6, <2>7, <2>8, <2>9 DEF Worker, Steps
<1>3. ASSUME NEW j \in sessions'
      PROVE  Logged(j)'
  <2> USE DEF TypeOK, Asked, Active, Statement, Goto, Decide, client, server
  <2>1. CASE j \in sessions
    <3>1. op[j].user \in Users /\ row[op[j].user] = "strong"
      BY <2>1, OpFields DEF Upgraded
    <3>2. pc'[j] = pc[j] /\ op'[j] = op[j]
      <4>1. CASE j = k
        BY <2>1, <4>1 DEF Upgraded, Steps, Receive, Call, Worker, Begin, BeginFails, LoginSelect,
              LoginUpgrade, ListSelect, CreateInsert, TakeUpdate, TakeRecheck, ReadBack,
              StatementFails, ConnectionLost, Rollback, Commit, CommitFails, Finish,
              ServerDrops, ServerCommits
      <4>2. QED BY <2>1, <4>1, OthersAlone DEF Steps
    <3>3. QED BY <2>1, <3>1, <3>2, StrongStays DEF Upgraded
  <2>2. CASE j \notin sessions
    <3>1. Finish(k) /\ j = k /\ op[k].kind = "login"
      BY <1>3, <2>2 DEF Steps, Receive, Call, Worker, Begin, BeginFails, LoginSelect,
            LoginUpgrade, ListSelect, CreateInsert, TakeUpdate, TakeRecheck, ReadBack,
            StatementFails, ConnectionLost, Rollback, Commit, CommitFails, Finish,
            ServerDrops, ServerCommits
    <3>2. row[op[k].user] = "strong" /\ op[k] \in Ops
      BY <3>1 DEF Finish, Upgraded
    <3>3. QED BY <3>1, <3>2 DEF Finish
  <2>3. QED BY <2>1, <2>2
<1>4. \A u \in Users : row'[u] \in {"absent", "weak", "strong"}
  BY StrongStays
<1>5. QED BY <1>1, <1>2, <1>3, <1>4 DEF Upgraded

LEMMA CrashRows == TypeOK /\ RowsInv /\ Crash => RowsInv'
<1> SUFFICES ASSUME TypeOK, RowsInv, Crash
             PROVE  RowsInv'
  OBVIOUS
<1> USE DEF TypeOK, RowsInv, Crash, Active, Statement
<1>1. Decided'
  BY DEF Decided
<1>2. Exclusive' /\ Unused'
  BY DEF Exclusive, Unused
<1>3. WriteStillValid'
  BY DEF WriteStillValid
<1>4. Upgraded'
  BY DEF Upgraded
<1>5. QED BY <1>1, <1>2, <1>3, <1>4

LEMMA RowsAlways == Spec => []RowsInv
<1>1. Init => RowsInv
  <2> SUFFICES ASSUME Init PROVE RowsInv
    OBVIOUS
  <2>1. Decided /\ Exclusive /\ WriteStillValid
    BY DEF Init, Decided, Exclusive, WriteStillValid
  <2>2. Unused
    BY DEF Init, Unused, Goods, Rows
  <2>3. Upgraded
    BY DEF Init, Upgraded, Rows
  <2>4. QED BY <2>1, <2>2, <2>3 DEF RowsInv
<1>2. TypeOK /\ Asked /\ Transacts /\ RowsInv /\ [Next]_vars => RowsInv'
  <2> SUFFICES ASSUME TypeOK, Asked, Transacts, RowsInv, [Next]_vars
               PROVE  RowsInv'
    OBVIOUS
  <2>1. ASSUME NEW k \in Requests, Steps(k)
        PROVE  RowsInv'
    BY <2>1, StepDecided, StepExclusive, StepUnused, StepValid, StepUpgraded DEF RowsInv
  <2>2. CASE Crash
    BY <2>2, CrashRows
  <2>3. CASE UNCHANGED vars
    BY <2>3 DEF vars, client, server, RowsInv, Decided, Exclusive, Unused, WriteStillValid, Upgraded
  <2>4. QED BY <2>1, <2>2, <2>3 DEF Next, Steps
<1>3. QED BY <1>1, <1>2, TypesAlways, TransactsAlways, PTL DEF Spec

\* What a transaction is about to change is as its statement found it, until it
\* ends, also when nobody waits for it any more.
THEOREM WritesStayValid == Spec => []WriteStillValid
<1>1. RowsInv => WriteStillValid
  BY DEF RowsInv
<1>2. QED BY <1>1, RowsAlways, PTL

\* Nobody has a token before the hash of their password is durably strong.
THEOREM TokensAfterUpgrade == Spec => []TokenAfterUpgrade
<1>1. RowsInv => TokenAfterUpgrade
  BY DEF RowsInv, Upgraded, TokenAfterUpgrade
<1>2. QED BY <1>1, RowsAlways, PTL

-----------------------------------------------------------------------------

\* The four answers of the ledger, before and after a step.
LEMMA AnswerIs ==
    ASSUME NEW k
    PROVE  /\ pc[k] # "done" => Answer(k) = "none"
           /\ pc[k] = "done" /\ verdict[k] \in Failures => Answer(k) = "failed"
           /\ pc[k] = "done" /\ verdict[k] \in Refusals => Answer(k) = "refused"
           /\ pc'[k] = "done" /\ verdict'[k] \in Failures => Answer(k)' = "failed"
           /\ pc'[k] = "done" /\ verdict'[k] \in Refusals => Answer(k)' = "refused"
<1>1. verdict[k] \in Failures => verdict[k] \notin Refusals
  BY Verdicts
<1>2. verdict'[k] \in Failures => verdict'[k] \notin Refusals
  BY Verdicts
<1>3. QED BY <1>1, <1>2 DEF Answer

\* The answer a client has after a step depends on the request that steps only.
LEMMA AnswersAlone ==
    ASSUME TypeOK, NEW k \in Requests, Steps(k), NEW j \in Requests \ {k}
    PROVE  Answer(j)' = Answer(j)
BY OthersAlone DEF Steps, Answer

\* A step of a request that neither settles on a write nor answers nor commits
\* one is invisible in the ledger.
LEMMA Silent ==
    ASSUME TypeOK, NEW k \in Requests, Steps(k),
           Answer(k)' = Answer(k), UNCHANGED <<row, write, applied>>
    PROVE  UNCHANGED Ledger!vars
BY AnswersAlone DEF Ledger!vars

LEMMA CommitApplies ==
    ASSUME TypeOK, Transacts, RowsInv, NEW k \in Requests, Steps(k), CommitTxn(k),
           txn[k] \in {"open", "inDoubt"}, Answer(k) \in {"none", "failed"},
           Answer(k)' = Answer(k)
    PROVE  Ledger!Apply(k) \/ UNCHANGED Ledger!vars
<1>1. CASE write[k] = NoWrite
  BY <1>1, Silent DEF CommitTxn
<1>2. CASE write[k] # NoWrite
  <2>1. k \notin applied
    BY DEF RowsInv, Decided
  <2>2. row[write[k].row] = write[k].from
    BY <1>2 DEF RowsInv, WriteStillValid
  <2>3. [j \in Requests |-> Answer(j)]' = [j \in Requests |-> Answer(j)]
    BY AnswersAlone
  <2>4. QED BY <1>2, <2>1, <2>2, <2>3 DEF CommitTxn, Ledger!Apply
<1>3. QED BY <1>1, <1>2

LEMMA ReplyReplies ==
    ASSUME TypeOK, NEW k \in Requests, Steps(k), UNCHANGED <<row, write, applied>>,
           Answer(k) = "none",
           \/ Answer(k)' = "failed"
           \/ Answer(k)' = "refused" /\ k \notin applied
           \/ Answer(k)' = "ok" /\ (write[k] = NoWrite \/ k \in applied)
    PROVE  Ledger!Reply(k)
<1>1. [j \in Requests |-> Answer(j)]' = [[j \in Requests |-> Answer(j)] EXCEPT ![k] = Answer(k)']
  BY AnswersAlone
<1>2. QED BY <1>1 DEF Ledger!Reply

LEMMA WriteAims ==
    ASSUME TypeOK, NEW k \in Requests, Steps(k), UNCHANGED <<row, applied>>,
           Answer(k) = "none", Answer(k)' = "none", write[k] = NoWrite,
           NEW w \in Writes, write' = [write EXCEPT ![k] = w]
    PROVE  Ledger!Aim(k)
<1>1. [j \in Requests |-> Answer(j)]' = [j \in Requests |-> Answer(j)]
  BY AnswersAlone
<1>2. QED BY <1>1 DEF Ledger!Aim

LEMMA RequestRefines ==
    ASSUME TypeOK, Asked, Transacts, RowsInv, NEW k \in Requests, Steps(k)
    PROVE  [Ledger!Next]_(Ledger!vars)
<1> USE DEF RowsInv
<1>1. CASE Receive(k)
  <2>1. PICK o \in Ops : Call(k, o)
    BY <1>1 DEF Receive
  <2>2. pc[k] = "new" /\ Answer(k) = "none" /\ k \notin applied /\ UNCHANGED <<row, write, applied>>
    BY <2>1 DEF Call, Answer, Transacts, Decided, server
  <2>3. CASE Refusal(o) = Admitted
    <3>1. Answer(k)' = "none"
      BY <2>1, <2>3 DEF Call, Goto, Answer, TypeOK
    <3>2. QED BY <2>2, <3>1, Silent
  <2>4. CASE Refusal(o) # Admitted
    <3>1. pc'[k] = "done" /\ verdict'[k] \in Refusals /\ verdict'[k] \notin Failures
      BY <2>1, <2>4, Verdicts DEF Call, Goto, Decide, TypeOK
    <3>2. Answer(k)' = "refused"
      BY <3>1 DEF Answer
    <3>3. QED BY <2>2, <3>2, ReplyReplies DEF Ledger!Next
  <2>5. QED BY <2>3, <2>4
<1>2. CASE Begin(k) \/ ListSelect(k) \/ ReadBack(k) \/ LoginSelect(k) \/ TakeRecheck(k)
  <2>1. Answer(k) = "none" /\ Answer(k)' = "none" /\ UNCHANGED <<row, write, applied>>
    BY <1>2 DEF TypeOK, Answer, Begin, ListSelect, ReadBack, LoginSelect, TakeRecheck, Goto, server
  <2>2. QED BY <2>1, Silent
<1>3. CASE LoginUpgrade(k)
  <2>1. Upgrade(op[k].user) \in Writes /\ write[k] = NoWrite
    BY <1>3, OpFields DEF LoginUpgrade, Asked, Active, Statement, Writes, Decided
  <2>2. Answer(k) = "none" /\ Answer(k)' = "none"
    BY <1>3 DEF LoginUpgrade, Goto, Answer, TypeOK
  <2>3. QED BY <1>3, <2>1, <2>2, WriteAims DEF LoginUpgrade, Ledger!Next
<1>4. CASE CreateInsert(k)
  <2>1. Store(nextId) \in Writes /\ write[k] = NoWrite
    BY <1>4 DEF CreateInsert, TypeOK, Goods, Writes, Decided
  <2>2. Answer(k) = "none" /\ Answer(k)' = "none"
    BY <1>4 DEF CreateInsert, Goto, Answer, TypeOK
  <2>3. QED BY <1>4, <2>1, <2>2, WriteAims DEF CreateInsert, Ledger!Next
<1>5. CASE TakeUpdate(k)
  <2>1. Take(op[k].id) \in Writes /\ write[k] = NoWrite
    BY <1>5 DEF TakeUpdate, Asked, Active, Statement, Writes, Decided
  <2>2. Answer(k) = "none" /\ Answer(k)' = "none"
    BY <1>5 DEF TakeUpdate, Goto, Answer, TypeOK
  <2>3. QED BY <1>5, <2>1, <2>2, WriteAims, Silent DEF TakeUpdate, Ledger!Next
<1>6. CASE StatementFails(k)
  <2>1. Answer(k) = "none" /\ Answer(k)' = "none" /\ UNCHANGED <<row, write, applied>>
    BY <1>6 DEF TypeOK, Answer, StatementFails, Statement, Goto, server
  <2>2. QED BY <2>1, Silent
<1>7. CASE BeginFails(k) \/ CommitFails(k) \/ (ConnectionLost(k) /\ pc[k] # "rollback")
  <2>1. pc'[k] = "done" /\ verdict'[k] \in Failures
    BY <1>7, Verdicts DEF TypeOK, BeginFails, CommitFails, ConnectionLost, Goto, Decide
  <2>2. Answer(k)' = "failed"
    BY <2>1, AnswerIs
  <2>3. Answer(k) = "none" /\ UNCHANGED <<row, write, applied>>
    BY <1>7 DEF Answer, BeginFails, CommitFails, ConnectionLost, Statement, server
  <2>4. QED BY <2>2, <2>3, ReplyReplies DEF Ledger!Next
<1>8. CASE Rollback(k) \/ (ConnectionLost(k) /\ pc[k] = "rollback")
  <2>1. pc[k] = "rollback" /\ pc'[k] = "done" /\ verdict'[k] = verdict[k]
    BY <1>8 DEF TypeOK, Rollback, ConnectionLost, Goto
  <2>2. Answer(k) = "none" /\ (Answer(k)' = "failed" \/ Answer(k)' = "refused")
    BY <2>1, Verdicts DEF Transacts, Answer
  <2>3. k \notin applied /\ UNCHANGED <<row, write, applied>>
    BY <1>8, <2>1 DEF Transacts, Decided, Rollback, ConnectionLost
  <2>4. QED BY <2>2, <2>3, ReplyReplies DEF Ledger!Next
<1>9. CASE Commit(k)
  <2>1. Answer(k) = "none" /\ Answer(k)' = "none" /\ CommitTxn(k) /\ txn[k] = "open"
    BY <1>9 DEF Commit, Goto, Answer, TypeOK, Transacts
  <2>2. QED BY <2>1, CommitApplies DEF Ledger!Next
<1>10. CASE Finish(k)
  <2>1. pc'[k] = "done" /\ verdict'[k] = "ok"
    BY <1>10 DEF Finish, Goto, Decide, TypeOK
  <2>2. Answer(k) = "none" /\ Answer(k)' = "ok"
    BY <1>10, <2>1 DEF Finish, Answer, Refusals, Failures
  <2>3. write[k] = NoWrite \/ k \in applied
    BY <1>10 DEF Finish, Decided
  <2>4. QED BY <1>10, <2>2, <2>3, ReplyReplies DEF Finish, server, Ledger!Next
<1>11. CASE ServerDrops(k)
  <2>1. Answer(k)' = Answer(k) /\ UNCHANGED <<row, write, applied>>
    BY <1>11 DEF ServerDrops, client, Answer
  <2>2. QED BY <2>1, Silent
<1>12. CASE ServerCommits(k)
  <2>1. Answer(k)' = Answer(k) /\ CommitTxn(k) /\ txn[k] = "inDoubt"
    BY <1>12 DEF ServerCommits, client, Answer
  <2>2. Answer(k) \in {"none", "failed"}
    BY <2>1, AnswerIs DEF Transacts
  <2>3. QED BY <2>1, <2>2, CommitApplies DEF Ledger!Next
<1>13. QED
  BY <1>1, <1>2, <1>3, <1>4, <1>5, <1>6, <1>7, <1>8, <1>9, <1>10, <1>11, <1>12 DEF Steps, Worker

\* The service implements the ledger: a request takes effect at most once, in
\* one step, on the row it found; "ok" means it has, a refusal that it never
\* does, and a failure or a restart leaves it open.
THEOREM ServiceImplementsLedger == Spec => ImplementsLedger
<1>1. Init => Ledger!Init
  BY DEF Init, Ledger!Init, Answer
<1>2. TypeOK /\ Asked /\ Transacts /\ RowsInv /\ [Next]_vars => [Ledger!Next]_(Ledger!vars)
  <2> SUFFICES ASSUME TypeOK, Asked, Transacts, RowsInv, [Next]_vars
               PROVE  [Ledger!Next]_(Ledger!vars)
    OBVIOUS
  <2>1. ASSUME NEW k \in Requests, Steps(k)
        PROVE  [Ledger!Next]_(Ledger!vars)
    BY <2>1, RequestRefines
  <2>2. CASE Crash
    <3>1. \A k \in Requests : Answer(k)' = Answer(k)
      BY <2>2 DEF Crash, Answer, TypeOK, Active, Statement
    <3>2. QED BY <2>2, <3>1 DEF Crash, Ledger!vars
  <2>3. CASE UNCHANGED vars
    BY <2>3 DEF vars, client, server, Answer, Ledger!vars
  <2>4. QED BY <2>1, <2>2, <2>3 DEF Next, Steps
<1>3. QED
  BY <1>1, <1>2, TypesAlways, TransactsAlways, RowsAlways, PTL DEF Spec, ImplementsLedger, Ledger!Spec
=============================================================================
