---------------------------- MODULE StartupChecks ----------------------------
(***************************************************************************)
(* bootstrap/legacy_startup: runLegacyStartupChecks, the last thing a      *)
(* process does to the database before it serves.  In one READ COMMITTED   *)
(* transaction it reads all users FOR UPDATE, replaces plaintext passwords *)
(* by hashes, counts the administrators, and inserts the configured one    *)
(* when there is none.                                                     *)
(*                                                                         *)
(* Several processes may start on one database.  At READ COMMITTED the     *)
(* scan locks the rows it reads and nothing between them, so it serialises *)
(* starts only if the table has a row.  A transaction whose client went    *)
(* away keeps its locks until the server ends it.                          *)
(***************************************************************************)
EXTENDS Naturals, FiniteSets

CONSTANTS Procs,      \* the processes, each started any number of times
          Names,      \* user names
          NoName,     \* no, or unacceptable, initial administrator credentials
          Tables,     \* the contents of users the processes may find
          Configs,    \* the configurations they may have, one each
          MaxFaults   \* bound: failed statements, lost connections, deaths

\* What classifyStoredPassword tells of a stored password.
Kinds == {"plain", "hash", "invalid"}
Row == [admin : BOOLEAN, stored : Kinds]
Config == [migrate : BOOLEAN, name : Names \cup {NoName}]
NoRows == << >>

ASSUME StartupAssumption ==
    /\ NoName \notin Names /\ MaxFaults \in Nat /\ IsFiniteSet(Procs)
    /\ \A t \in Tables : DOMAIN t \subseteq Names /\ t \in [DOMAIN t -> Row]
    /\ Configs \subseteq [Procs -> Config]

VARIABLES conf,      \* the configuration of each process
          found,     \* the table before the first start
          users,     \* the committed table; username is UNIQUE
          pc,        \* the statement each process sends next
          todo,      \* rows of the scan not handled, those already hashed left out
          locked,    \* rows locked by the transaction of each process
          draft,     \* what that transaction changed
          orphans,   \* transactions [locked, draft, sent] without a client
          faults

vars == <<conf, found, users, pc, todo, locked, draft, orphans, faults>>

Hashed(t) == \A n \in DOMAIN t : t[n].stored = "hash"
HasAdmin(t) == \E n \in DOMAIN t : t[n].admin

\* Table t with row r for n, and with all the rows of d.
With(t, n, r) == [m \in DOMAIN t \cup {n} |-> IF m = n THEN r ELSE t[m]]
Under(t, d) == [n \in DOMAIN d \cup DOMAIN t |-> IF n \in DOMAIN d THEN d[n] ELSE t[n]]

LockedByOthers(p) ==
    (UNION {locked[q] : q \in Procs \ {p}}) \cup (UNION {o.locked : o \in orphans})

\* What a statement of p reads at READ COMMITTED.
Sees(p) == Under(users, draft[p])

Init ==
    /\ conf \in Configs /\ found \in Tables
    /\ users = found
    /\ pc = [p \in Procs |-> "scan"]
    /\ todo = [p \in Procs |-> {}]
    /\ locked = [p \in Procs |-> {}]
    /\ draft = [p \in Procs |-> NoRows]
    /\ orphans = {}
    /\ faults = 0

\* The transaction of p is over, for p.
Leave(p, to) ==
    /\ pc' = [pc EXCEPT ![p] = to]
    /\ todo' = [todo EXCEPT ![p] = {}]
    /\ locked' = [locked EXCEPT ![p] = {}]
    /\ draft' = [draft EXCEPT ![p] = NoRows]

\* rollback(), and the failure that makes the process exit.
GivesUp(p) ==
    /\ Leave(p, "stopped")
    /\ UNCHANGED <<conf, found, users, orphans, faults>>

-----------------------------------------------------------------------------
(* SELECT id,password FROM users FOR UPDATE                                *)

Take(p, rows) ==
    /\ locked' = [locked EXCEPT ![p] = rows]
    /\ todo' = [todo EXCEPT ![p] = {n \in DOMAIN users : users[n].stored # "hash"}]
    /\ pc' = [pc EXCEPT ![p] = "rows"]
    /\ UNCHANGED <<conf, found, users, draft, orphans, faults>>

\* Defect: SELECT without FOR UPDATE.
ScanUnlocked(p) == pc[p] = "scan" /\ Take(p, {})

Scan(p) ==
    /\ pc[p] = "scan"
    /\ LockedByOthers(p) = {}
    /\ Take(p, DOMAIN users)

-----------------------------------------------------------------------------
(* One row that is not hashed yet.                                         *)

Hash(n) == [users[n] EXCEPT !.stored = "hash"]

\* Defect: UPDATE outside the transaction.
RewriteAtOnce(p) ==
    /\ pc[p] = "rows"
    /\ conf[p].migrate
    /\ \E n \in todo[p] :
        /\ users[n].stored = "plain"
        /\ users' = With(users, n, Hash(n))
        /\ todo' = [todo EXCEPT ![p] = @ \ {n}]
    /\ UNCHANGED <<conf, found, pc, draft, locked, orphans, faults>>

\* hashPassword, and UPDATE users SET password=? WHERE id=?
Rewrite(p) ==
    /\ pc[p] = "rows"
    /\ conf[p].migrate
    /\ \E n \in todo[p] :
        /\ users[n].stored = "plain"
        /\ draft' = [draft EXCEPT ![p] = With(@, n, Hash(n))]
        /\ todo' = [todo EXCEPT ![p] = @ \ {n}]
    /\ UNCHANGED <<conf, found, users, pc, locked, orphans, faults>>

\* Defect: the scan goes on with the rows it can handle.
RefuseRowSkips(p) ==
    /\ pc[p] = "rows"
    /\ \E n \in todo[p] :
        /\ users[n].stored = "invalid" \/ ~ conf[p].migrate
        /\ todo' = [todo EXCEPT ![p] = @ \ {n}]
    /\ UNCHANGED <<conf, found, users, pc, draft, locked, orphans, faults>>

\* An invalid hash, or plaintext without authorization to migrate.
RefuseRow(p) ==
    /\ pc[p] = "rows"
    /\ \E n \in todo[p] : users[n].stored = "invalid" \/ ~ conf[p].migrate
    /\ GivesUp(p)

-----------------------------------------------------------------------------
(* The first administrator.                                                *)

AfterRows(p) == pc[p] = "rows" /\ todo[p] = {}

GoTo(p, to) ==
    /\ pc' = [pc EXCEPT ![p] = to]
    /\ UNCHANGED <<conf, found, users, todo, draft, locked, orphans, faults>>

\* Defect: the configured administrator is inserted whatever the count.
CountIgnored(p) == AfterRows(p) /\ conf[p].name # NoName /\ GoTo(p, "insert")

\* SELECT COUNT(*) FROM users WHERE role='admin'
Count(p) ==
    /\ AfterRows(p)
    /\ \/ HasAdmin(Sees(p)) /\ GoTo(p, "commit")
       \/ ~ HasAdmin(Sees(p)) /\ conf[p].name # NoName /\ GoTo(p, "insert")

NoAdministrator(p) ==
    /\ AfterRows(p)
    /\ ~ HasAdmin(Sees(p)) /\ conf[p].name = NoName
    /\ GivesUp(p)

\* INSERT INTO users(username,password,role) VALUES(?,?,'admin') waits for a
\* transaction that has the same name.
Insert(p) ==
    /\ pc[p] = "insert"
    /\ conf[p].name \notin LockedByOthers(p) \cup DOMAIN users
    /\ draft' = [draft EXCEPT ![p] = With(@, conf[p].name, [admin |-> TRUE, stored |-> "hash"])]
    /\ locked' = [locked EXCEPT ![p] = @ \cup {conf[p].name}]
    /\ pc' = [pc EXCEPT ![p] = "commit"]
    /\ UNCHANGED <<conf, found, users, todo, orphans, faults>>

\* The name is taken, perhaps by the administrator of another start.
InsertDuplicate(p) ==
    /\ pc[p] = "insert"
    /\ conf[p].name \in DOMAIN users \ LockedByOthers(p)
    /\ GivesUp(p)

Commit(p) ==
    /\ pc[p] = "commit"
    /\ users' = Sees(p)
    /\ Leave(p, "passed")
    /\ UNCHANGED <<conf, found, orphans, faults>>

-----------------------------------------------------------------------------
(* Failures.                                                               *)

\* A statement fails, or a password cannot be hashed, and ROLLBACK succeeds.
Fails(p) ==
    /\ pc[p] \in {"scan", "rows", "insert"}
    /\ faults < MaxFaults /\ faults' = faults + 1
    /\ Leave(p, "stopped")
    /\ UNCHANGED <<conf, found, users, orphans>>

\* p dies or loses its connection.  With the COMMIT sent, the server may have
\* received it.
Abandon(p, to) ==
    /\ faults < MaxFaults /\ faults' = faults + 1
    /\ orphans' = orphans \cup
           {[locked |-> locked[p], draft |-> draft[p], sent |-> pc[p] = "commit"]}
    /\ Leave(p, to)
    /\ UNCHANGED <<conf, found, users>>

Working == {"scan", "rows", "insert", "commit"}

Lost(p) == pc[p] \in Working /\ Abandon(p, "stopped")

Restart(p) == pc[p] = "stopped" /\ GoTo(p, "scan")

\* The server ends a transaction that has no client.
OrphanEnds ==
    \E o \in orphans :
        /\ orphans' = orphans \ {o}
        /\ users' = users \/ (o.sent /\ users' = Under(users, o.draft))
        /\ UNCHANGED <<conf, found, pc, todo, locked, draft, faults>>

Runs(p) ==
    \/ Scan(p) \/ Rewrite(p) \/ RefuseRow(p) \/ Count(p) \/ NoAdministrator(p)
    \/ Insert(p) \/ InsertDuplicate(p) \/ Commit(p) \/ Restart(p)

Next ==
    \/ \E p \in Procs : Runs(p) \/ Fails(p) \/ Lost(p)
    \/ OrphanEnds

Spec == Init /\ [][Next]_vars

\* Statements return, a lock that is free again and again is granted, dead
\* connections are noticed, and a process that exited is started again.
LiveSpec ==
    /\ Spec
    /\ \A p \in Procs : WF_vars(Runs(p)) /\ SF_vars(Scan(p)) /\ SF_vars(Insert(p))
    /\ WF_vars(OrphanEnds)

-----------------------------------------------------------------------------
(* Properties.                                                             *)

Created == DOMAIN users \ DOMAIN found

\* A table that has users, or one configured name, admits one first
\* administrator, and none if there was one: concurrent first starts do not
\* each create theirs.  (The scan's row locks, or UNIQUE, decide.)
SingleAdministrator ==
    /\ (DOMAIN found # {} \/ Cardinality({conf[p].name : p \in Procs} \ {NoName}) <= 1)
         => Cardinality(Created) <= 1
    /\ HasAdmin(found) => Created = {}

\* Nobody serves while a password in the table is not a hash, or without an
\* administrator.
PassedIsSafe == (\E p \in Procs : pc[p] = "passed") => Hashed(users) /\ HasAdmin(users)

\* The table changes in one piece: no failure, death or restart leaves some
\* passwords migrated and others not, or an administrator beside plaintext.
AllOrNothing == [][users' # users => Hashed(users') /\ HasAdmin(users')]_vars

\* A process whose configuration suffices for the table it found.
Adequate(p) ==
    /\ \A n \in DOMAIN found : found[n].stored # "invalid"
    /\ conf[p].migrate \/ Hashed(found)
    /\ HasAdmin(found) \/ conf[p].name \notin DOMAIN found \cup {NoName}

\* Whatever failed, was lost or abandoned before, and whoever else starts, an
\* adequately configured process ends up serving.
AdequateStartPasses == \A p \in Procs : Adequate(p) ~> pc[p] = "passed"
=============================================================================
