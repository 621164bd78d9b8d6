-------------------------- MODULE WarehouseService --------------------------
(***************************************************************************)
(* application/legacy/legacy_warehouse_service on top of                   *)
(* infrastructure/mysql/{legacy_unit_of_work, transaction}: the requests   *)
(* login, list, create and take, each run by a worker thread of the HTTP   *)
(* server as one READ COMMITTED transaction on a connection leased from    *)
(* the pool, and the in-memory session store.                              *)
(*                                                                         *)
(* A step is one statement sent to the server, or what a worker does       *)
(* between two statements that another worker could observe.  The server   *)
(* (external) is modelled by the row locks, the durable rows and the       *)
(* transaction of each request: a transaction whose connection was lost    *)
(* keeps its lock until the server drops it, and one whose COMMIT got no   *)
(* answer may still be committed.                                          *)
(*                                                                         *)
(* A row is a goods id or a user name.  Of a goods row only its existence  *)
(* and status are kept, of a user row whether its password hash is of the  *)
(* current strength.                                                       *)
(***************************************************************************)
EXTENDS Naturals, FiniteSets

CONSTANTS Requests,    \* requests ever received
          MaxGoods,    \* bound: goods ids 1..MaxGoods
          Users,       \* names a login can be about
          Writers,     \* the users whose role is manager or admin
          PoolSize,    \* connections in the pool
          MaxCrashes,  \* bound: how often the process is restarted
          NoOp, NoRow, NoWrite, NoToken

ASSUME ServiceAssumption ==
    /\ Writers \subseteq Users
    /\ MaxGoods \in Nat /\ MaxCrashes \in Nat /\ PoolSize \in Nat \ {0}
    /\ Users \cap (1..MaxGoods) = {}
    /\ NoRow \notin Users \cup (1..MaxGoods)
    /\ NoToken \notin Requests

Goods == 1..MaxGoods
Rows == Goods \cup Users
Store(i) == [row |-> i, from |-> "absent", to |-> "stored"]
Take(i) == [row |-> i, from |-> "stored", to |-> "taken"]
Upgrade(u) == [row |-> u, from |-> "weak", to |-> "strong"]
Writes == {Store(i) : i \in Goods} \cup {Take(i) : i \in Goods}
            \cup {Upgrade(u) : u \in Users}

ASSUME WriteAssumption == NoWrite \notin Writes

\* What a use case is called with.  A password is "empty" when it or the user
\* name is; a token is one a login handed out, or another; a name is "blank"
\* when normalizeField leaves nothing of it; an id is what parseGoodsId makes
\* of the text, NoId when it is not one.
NoId == 0
Tokens == Requests \cup {NoToken}
Ops == [kind : {"login"}, user : Users, password : {"right", "wrong", "empty"}]
        \cup [kind : {"list"}, token : Tokens]
        \cup [kind : {"create"}, token : Tokens, name : {"given", "blank"}]
        \cup [kind : {"take"}, token : Tokens, id : Goods \cup {NoId}]

\* LegacyApplicationErrorCode: what has no effect, and what may have had one.
Admitted == "none"
Refusals == {"InvalidLoginInput", "InvalidCredentials", "Unauthenticated", "Forbidden",
             "InvalidGoodsName", "InvalidGoodsId", "GoodsNotFound", "GoodsAlreadyTaken"}
Failures == {"PersistenceReadFailed", "PasswordUpgradeFailed",
             "PersistenceCreateFailed", "PersistenceTakeFailed"}

VARIABLES op,        \* what each admitted request asks
          pc,        \* where its worker is
          verdict,   \* the answer it got or is about to get
          leased,    \* requests whose worker holds a connection lease
          txn,       \* state of its transaction at the server
          lock,      \* the row its transaction has locked
          write,     \* the write its transaction contains (kept afterwards)
          applied,   \* the requests whose write was committed
          row,       \* committed state of every row
          nextId,    \* AUTO_INCREMENT of goods
          sessions,  \* logins whose token is in the session store
          crashes    \* restarts so far

client == <<op, pc, verdict, leased>>
server == <<txn, lock, write, applied, row, nextId>>
vars == <<client, server, sessions, crashes>>

(* "begin" waits for a connection; "first", "recheck", "readback" and       *)
(* "upgrade" are about to send the statement of that name; "finish" has     *)
(* committed; "dead" was lost with the process.                             *)
Statement == {"first", "recheck", "readback", "upgrade"}
Active == {"begin", "rollback", "commit", "finish"} \cup Statement

\* The process starts on a database that may hold users and stored goods.
Init ==
    /\ op = [k \in Requests |-> NoOp]
    /\ pc = [k \in Requests |-> "new"]
    /\ verdict = [k \in Requests |-> "none"]
    /\ leased = {}
    /\ txn = [k \in Requests |-> "none"]
    /\ lock = [k \in Requests |-> NoRow]
    /\ write = [k \in Requests |-> NoWrite]
    /\ applied = {}
    /\ nextId \in 1..MaxGoods + 1
    /\ row \in {f \in [Rows -> {"absent", "stored", "weak", "strong"}] :
                /\ \A i \in Goods : f[i] = IF i < nextId THEN "stored" ELSE "absent"
                /\ \A u \in Users : f[u] # "stored"}
    /\ sessions = {}
    /\ crashes = 0
-----------------------------------------------------------------------------
(* The server *)

Unlocked(r) == \A k \in Requests : lock[k] # r

\* The transaction of k ends and its lock is released.
EndTxn(k) ==
    /\ txn' = [txn EXCEPT ![k] = "over"]
    /\ lock' = [lock EXCEPT ![k] = NoRow]

\* COMMIT: the write becomes durable.
CommitTxn(k) ==
    /\ EndTxn(k)
    /\ IF write[k] = NoWrite
       THEN UNCHANGED <<row, applied>>
       ELSE /\ row' = [row EXCEPT ![write[k].row] = write[k].to]
            /\ applied' = applied \cup {k}
    /\ UNCHANGED <<write, nextId>>

\* The server notices that the connection is gone.
ServerDrops(k) ==
    /\ txn[k] \in {"orphan", "inDoubt"}
    /\ EndTxn(k)
    /\ UNCHANGED <<client, write, applied, row, nextId, sessions, crashes>>

\* A COMMIT whose answer the client never got is executed after all.
ServerCommits(k) ==
    /\ txn[k] = "inDoubt"
    /\ CommitTxn(k)
    /\ UNCHANGED <<client, sessions, crashes>>
-----------------------------------------------------------------------------
(* A worker *)

Goto(k, p) == pc' = [pc EXCEPT ![k] = p]
Decide(k, v) == verdict' = [verdict EXCEPT ![k] = v]

\* sessions_.find, and canWrite on the principal it returns.
AuthRefusal(o) ==
    IF o.token \notin sessions THEN "Unauthenticated"
    ELSE IF o.kind # "list" /\ op[o.token].user \notin Writers THEN "Forbidden"
    ELSE Admitted

FieldRefusal(o) ==
    CASE o.kind = "login" /\ o.password = "empty" -> "InvalidLoginInput"
      [] o.kind = "create" /\ o.name = "blank" -> "InvalidGoodsName"
      [] o.kind = "take" /\ o.id = NoId -> "InvalidGoodsId"
      [] OTHER -> Admitted

\* The checks before any connection is asked for.
Refusal(o) ==
    IF o.kind # "login" /\ AuthRefusal(o) # Admitted THEN AuthRefusal(o) ELSE FieldRefusal(o)

\* The use case is called.
Call(k, o) ==
    /\ pc[k] = "new"
    /\ IF Refusal(o) = Admitted
       THEN /\ op' = [op EXCEPT ![k] = o]
            /\ Goto(k, "begin") /\ UNCHANGED verdict
       ELSE /\ Goto(k, "done") /\ Decide(k, Refusal(o))
            /\ UNCHANGED op
    /\ UNCHANGED <<leased, server, sessions, crashes>>

Receive(k) == \E o \in Ops : Call(k, o)

\* The error code of a failure where request k is.
Failure(k) ==
    CASE op[k].kind = "create" -> "PersistenceCreateFailed"
      [] op[k].kind = "take" -> "PersistenceTakeFailed"
      [] pc[k] = "upgrade" -> "PasswordUpgradeFailed"
      [] OTHER -> "PersistenceReadFailed"

\* units_.begin: a connection, SET TRANSACTION and START TRANSACTION.
Begin(k) ==
    /\ pc[k] = "begin"
    /\ Cardinality(leased) < PoolSize
    /\ leased' = leased \cup {k}
    /\ txn' = [txn EXCEPT ![k] = "open"]
    /\ Goto(k, "first")
    /\ UNCHANGED <<op, verdict, lock, write, applied, row, nextId, sessions, crashes>>

\* No connection in time, or the transaction cannot be started (the
\* connection is poisoned and its slot freed).
BeginFails(k) ==
    /\ pc[k] = "begin"
    /\ Goto(k, "done") /\ Decide(k, Failure(k))
    /\ UNCHANGED <<op, leased, server, sessions, crashes>>

\* Defect: SELECT ... FROM users without FOR UPDATE.
LoginSelectUnlocked(k) ==
    /\ pc[k] = "first" /\ op[k].kind = "login"
    /\ row[op[k].user] # "absent" /\ op[k].password = "right"
    /\ Goto(k, IF row[op[k].user] = "weak" THEN "upgrade" ELSE "commit")
    /\ UNCHANGED <<op, verdict, leased, server, sessions, crashes>>

\* SELECT ... FROM users ... FOR UPDATE, then verify and needsRehash.
LoginSelect(k) ==
    /\ pc[k] = "first" /\ op[k].kind = "login"
    /\ LET u == op[k].user IN
        /\ Unlocked(u)
        /\ IF row[u] = "absent"
           THEN UNCHANGED lock
           ELSE lock' = [lock EXCEPT ![k] = u]
        /\ \/ /\ row[u] = "absent" \/ op[k].password = "wrong"
              /\ Goto(k, "rollback") /\ Decide(k, "InvalidCredentials")
           \/ /\ row[u] # "absent" /\ op[k].password = "right"
              /\ Goto(k, IF row[u] = "weak" THEN "upgrade" ELSE "commit")
              /\ UNCHANGED verdict
    /\ UNCHANGED <<op, leased, txn, write, applied, row, nextId, sessions, crashes>>

\* hash, then UPDATE users SET password.
LoginUpgrade(k) ==
    /\ pc[k] = "upgrade"
    /\ write' = [write EXCEPT ![k] = Upgrade(op[k].user)]
    /\ Goto(k, "commit")
    /\ UNCHANGED <<op, verdict, leased, txn, lock, applied, row, nextId, sessions, crashes>>

\* SELECT ... FROM goods.
ListSelect(k) ==
    /\ pc[k] = "first" /\ op[k].kind = "list"
    /\ Goto(k, "commit")
    /\ UNCHANGED <<op, verdict, leased, server, sessions, crashes>>

\* INSERT INTO goods: the id is used up even if the transaction fails.
CreateInsert(k) ==
    /\ pc[k] = "first" /\ op[k].kind = "create"
    /\ nextId <= MaxGoods
    /\ nextId' = nextId + 1
    /\ lock' = [lock EXCEPT ![k] = nextId]
    /\ write' = [write EXCEPT ![k] = Store(nextId)]
    /\ Goto(k, "readback")
    /\ UNCHANGED <<op, verdict, leased, txn, applied, row, sessions, crashes>>

\* Defect: UPDATE goods ... WHERE id=?, whatever the status.
TakeUpdateAny(k) ==
    /\ pc[k] = "first" /\ op[k].kind = "take"
    /\ Unlocked(op[k].id) /\ row[op[k].id] # "absent"
    /\ lock' = [lock EXCEPT ![k] = op[k].id]
    /\ write' = [write EXCEPT ![k] = Take(op[k].id)]
    /\ Goto(k, "readback")
    /\ UNCHANGED <<op, verdict, leased, txn, applied, row, nextId, sessions, crashes>>

\* UPDATE goods ... WHERE id=? AND status<>'taken': waits for the row lock,
\* and keeps it only if the row matches.
TakeUpdate(k) ==
    /\ pc[k] = "first" /\ op[k].kind = "take"
    /\ LET i == op[k].id IN
        /\ Unlocked(i)
        /\ \/ /\ row[i] = "stored"
              /\ lock' = [lock EXCEPT ![k] = i]
              /\ write' = [write EXCEPT ![k] = Take(i)]
              /\ Goto(k, "readback")
           \/ /\ row[i] # "stored"
              /\ Goto(k, "recheck") /\ UNCHANGED <<lock, write>>
    /\ UNCHANGED <<op, verdict, leased, txn, applied, row, nextId, sessions, crashes>>

\* SELECT status ... FOR UPDATE after an UPDATE that matched no row.
TakeRecheck(k) ==
    /\ pc[k] = "recheck"
    /\ LET i == op[k].id IN
        /\ Unlocked(i)
        /\ IF row[i] = "absent"
           THEN Decide(k, "GoodsNotFound") /\ UNCHANGED lock
           ELSE Decide(k, "GoodsAlreadyTaken") /\ lock' = [lock EXCEPT ![k] = i]
    /\ Goto(k, "rollback")
    /\ UNCHANGED <<op, leased, txn, write, applied, row, nextId, sessions, crashes>>

\* findById in the same transaction.
ReadBack(k) ==
    /\ pc[k] = "readback"
    /\ Goto(k, "commit")
    /\ UNCHANGED <<op, verdict, leased, server, sessions, crashes>>

\* A statement fails on a connection that survives (a lock wait timeout, a
\* constraint, an unusable result, a hash that cannot be made).
StatementFails(k) ==
    /\ pc[k] \in Statement
    /\ Goto(k, "rollback") /\ Decide(k, Failure(k))
    /\ UNCHANGED <<op, leased, server, sessions, crashes>>

\* Defect: the lease of a lost connection is kept.
ConnectionLostKeepsLease(k) ==
    /\ pc[k] \in Statement \cup {"rollback"}
    /\ txn' = [txn EXCEPT ![k] = "orphan"]
    /\ Goto(k, "done") /\ Decide(k, Failure(k))
    /\ UNCHANGED <<op, leased, lock, write, applied, row, nextId, sessions, crashes>>

\* The connection fails during a statement or the ROLLBACK: it is poisoned,
\* a ROLLBACK on it is not even sent, and the lease closes it.
ConnectionLost(k) ==
    /\ pc[k] \in Statement \cup {"rollback"}
    /\ IF pc[k] = "rollback" THEN UNCHANGED verdict ELSE Decide(k, Failure(k))
    /\ txn' = [txn EXCEPT ![k] = "orphan"]
    /\ leased' = leased \ {k}
    /\ Goto(k, "done")
    /\ UNCHANGED <<op, lock, write, applied, row, nextId, sessions, crashes>>

\* Defect: the lease goes back without a ROLLBACK.
RollbackSkipped(k) ==
    /\ pc[k] = "rollback"
    /\ leased' = leased \ {k}
    /\ Goto(k, "done")
    /\ UNCHANGED <<op, verdict, server, sessions, crashes>>

\* ROLLBACK, the lease goes back, the answer is given.
Rollback(k) ==
    /\ pc[k] = "rollback"
    /\ EndTxn(k)
    /\ leased' = leased \ {k}
    /\ Goto(k, "done")
    /\ UNCHANGED <<op, verdict, write, applied, row, nextId, sessions, crashes>>

Commit(k) ==
    /\ pc[k] = "commit"
    /\ CommitTxn(k)
    /\ Goto(k, "finish")
    /\ UNCHANGED <<op, verdict, leased, sessions, crashes>>

\* Defect: the result of commit is not looked at.
CommitFailureIgnored(k) ==
    /\ pc[k] = "commit"
    /\ txn' = [txn EXCEPT ![k] = "inDoubt"]
    /\ Goto(k, "finish")
    /\ UNCHANGED <<op, verdict, leased, lock, write, applied, row, nextId, sessions, crashes>>

\* COMMIT was sent and no success came back: CommitOutcomeUnknown, which the
\* service answers like any failure.
CommitFails(k) ==
    /\ pc[k] = "commit"
    /\ txn' = [txn EXCEPT ![k] = "inDoubt"]
    /\ leased' = leased \ {k}
    /\ Goto(k, "done") /\ Decide(k, Failure(k))
    /\ UNCHANGED <<op, lock, write, applied, row, nextId, sessions, crashes>>

\* Defect: a user has one session, the last one.
FinishReplacesSession(k) ==
    /\ pc[k] = "finish"
    /\ sessions' = IF op[k].kind = "login"
                   THEN {t \in sessions : op[t].user # op[k].user} \cup {k} ELSE sessions
    /\ leased' = leased \ {k}
    /\ Goto(k, "done") /\ Decide(k, "ok")
    /\ UNCHANGED <<op, server, crashes>>

\* After the commit: a login creates its session, the lease goes back.
Finish(k) ==
    /\ pc[k] = "finish"
    /\ sessions' = IF op[k].kind = "login" THEN sessions \cup {k} ELSE sessions
    /\ leased' = leased \ {k}
    /\ Goto(k, "done") /\ Decide(k, "ok")
    /\ UNCHANGED <<op, server, crashes>>

\* The process dies and is started again: workers, leases and sessions are
\* gone, the server is left with the transactions.
Crash ==
    /\ crashes < MaxCrashes
    /\ crashes' = crashes + 1
    /\ pc' = [k \in Requests |-> IF pc[k] \in Active THEN "dead" ELSE pc[k]]
    /\ txn' = [k \in Requests |->
                 IF txn[k] # "open" THEN txn[k]
                 ELSE IF pc[k] = "commit" THEN "inDoubt" ELSE "orphan"]
    /\ leased' = {}
    /\ sessions' = {}
    /\ UNCHANGED <<op, verdict, lock, write, applied, row, nextId>>
-----------------------------------------------------------------------------
Worker(k) ==
    \/ Begin(k) \/ BeginFails(k)
    \/ LoginSelect(k) \/ LoginUpgrade(k) \/ ListSelect(k) \/ CreateInsert(k)
    \/ TakeUpdate(k) \/ TakeRecheck(k) \/ ReadBack(k)
    \/ StatementFails(k) \/ ConnectionLost(k)
    \/ Rollback(k) \/ Commit(k) \/ CommitFails(k) \/ Finish(k)

Next ==
    \/ Crash
    \/ \E k \in Requests : Receive(k) \/ Worker(k) \/ ServerDrops(k) \/ ServerCommits(k)

Spec == Init /\ [][Next]_vars
-----------------------------------------------------------------------------
\* Every variable has its type, and exactly the workers past begin have a lease.
TypeOK ==
    /\ op \in [Requests -> Ops \cup {NoOp}]
    /\ pc \in [Requests -> {"new", "done", "dead"} \cup Active]
    /\ verdict \in [Requests -> {"none", "ok"} \cup Refusals \cup Failures]
    /\ leased = {k \in Requests : pc[k] \in Active \ {"begin"}}
    /\ txn \in [Requests -> {"none", "open", "orphan", "inDoubt", "over"}]
    /\ lock \in [Requests -> Rows \cup {NoRow}]
    /\ write \in [Requests -> Writes \cup {NoWrite}]
    /\ applied \subseteq Requests
    /\ row \in [Rows -> {"absent", "stored", "taken", "weak", "strong"}]
    /\ nextId \in 1..MaxGoods + 1
    /\ sessions \subseteq Requests
    /\ crashes \in 0..MaxCrashes

\* A connection that is usable is given back only after its transaction has
\* ended, on every path through the service: the next user of the connection
\* would otherwise commit that transaction with its START TRANSACTION.
CleanReturn == \A k \in Requests : txn[k] = "open" => k \in leased

\* A token exists only for a login that succeeded, and by then the password
\* hash of its user is durably of the current strength.
TokenAfterUpgrade == \A k \in sessions : row[op[k].user] = "strong"

\* The row a transaction is about to change is still as its statement found
\* it when it commits, also for transactions their client has abandoned.
WriteStillValid ==
    \A k \in Requests :
        write[k] # NoWrite /\ txn[k] \in {"open", "orphan", "inDoubt"}
            => lock[k] = write[k].row /\ row[write[k].row] = write[k].from

\* "Goods not found" and "already taken" leave no trace, whatever became of
\* the connection, and an acknowledged request is durable: the service
\* implements the ledger.
Answer(k) ==
    CASE pc[k] # "done" -> "none"
      [] pc[k] = "done" /\ verdict[k] \in Failures -> "failed"
      [] pc[k] = "done" /\ verdict[k] \in Refusals -> "refused"
      [] OTHER -> "ok"

Ledger == INSTANCE GoodsLedger WITH
    want <- write,
    answer <- [k \in Requests |-> Answer(k)]

ImplementsLedger == Ledger!Spec

\* "Already taken" is said only of goods that were taken.
AlreadyTakenIsTrue ==
    \A k \in Requests :
        pc[k] = "done" /\ verdict[k] = "GoodsAlreadyTaken" => row[op[k].id] = "taken"

\* A create or take is answered as failed only when it is known to have no
\* effect: an uncertain commit is not reported like one that was rolled back.
FailureMeansNoEffect ==
    \A k \in Requests :
        pc[k] = "done" /\ verdict[k] \in {"PersistenceCreateFailed", "PersistenceTakeFailed"}
            => k \notin applied /\ txn[k] # "inDoubt"
=============================================================================
