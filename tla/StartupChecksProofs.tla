--------------------------- MODULE StartupChecksProofs ---------------------------
(***************************************************************************)
(* Theorems about StartupChecks, for any processes with any configurations *)
(* on any table of users, and any number of faults.                        *)
(***************************************************************************)
EXTENDS StartupChecks, FiniteSetTheorems, TLAPS

InTx == {"rows", "insert", "commit"}
Table(t) == DOMAIN t \subseteq Names /\ \A n \in DOMAIN t : t[n] \in Row
ConfNames == {conf[p].name : p \in Procs} \ {NoName}
Safe(t) == Hashed(t) /\ HasAdmin(t)

\* The transaction of p, as it would be left behind.
Tx(p) == [locked |-> locked[p], draft |-> draft[p], sent |-> pc[p] = "commit"]

Typed ==
    /\ conf \in Configs /\ found \in Tables
    /\ Table(users)
    /\ pc \in [Procs -> Working \cup {"passed", "stopped"}]
    /\ todo \in [Procs -> SUBSET Names]
    /\ locked \in [Procs -> SUBSET Names]
    /\ DOMAIN draft = Procs

\* What a transaction changes it has locked; it stores hashes only, and takes no
\* role away.  When its COMMIT is sent, the table it makes is safe.
Sound(t) ==
    /\ Table(t.draft) /\ DOMAIN t.draft \subseteq t.locked
    /\ \A n \in DOMAIN t.draft : /\ t.draft[n].stored = "hash"
                                 /\ t.draft[n].admin \/ (n \in DOMAIN users /\ ~ users[n].admin)
    /\ t.sent => Safe(Under(users, t.draft))

Drafts ==
    /\ \A p \in Procs : Sound(Tx(p))
    /\ \A o \in orphans : Sound(o)

\* No row is locked twice.
Locks ==
    /\ \A p, q \in Procs : p # q => locked[p] \cap locked[q] = {}
    /\ \A p \in Procs, o \in orphans : locked[p] \cap o.locked = {}
    /\ \A o, u \in orphans : o # u => o.locked \cap u.locked = {}

\* What a process has to do yet, and what it has done.
Scanned(p) ==
    /\ pc[p] \notin InTx => locked[p] = {} /\ draft[p] = NoRows
    /\ pc[p] # "rows" => todo[p] = {}
    /\ pc[p] = "insert" => conf[p].name # NoName
    /\ pc[p] \in InTx => /\ todo[p] \subseteq DOMAIN users \cap locked[p]
                         /\ \A n \in DOMAIN users \ todo[p] : Sees(p)[n].stored = "hash"

\* The table is the one found or safe, and it is safe once a process passed.
Changed ==
    /\ users # found => Safe(users)
    /\ (\E p \in Procs : pc[p] = "passed") => Safe(users)

IInv == Typed /\ Drafts /\ Locks /\ (\A p \in Procs : Scanned(p)) /\ Changed

-----------------------------------------------------------------------------

\* New rows are those of configured names, and there is none beside an
\* administrator found.
FromConf(d) ==
    /\ DOMAIN d \subseteq DOMAIN found \cup ConfNames
    /\ HasAdmin(found) => DOMAIN d \subseteq DOMAIN found

Origin ==
    /\ FromConf(users)
    /\ \A p \in Procs : FromConf(draft[p])
    /\ \A o \in orphans : FromConf(o.draft)
    /\ HasAdmin(found) => HasAdmin(users) /\ \A p \in Procs : pc[p] # "insert"

\* On a table that has users a transaction is alone, and adds at most one row,
\* to a table without administrators.
Alone(t) ==
    /\ DOMAIN users \subseteq t.locked
    /\ \E a \in Names : DOMAIN t.draft \ DOMAIN users \subseteq {a}
    /\ DOMAIN t.draft \subseteq DOMAIN users \/ ~ HasAdmin(users)

Serial ==
    DOMAIN found # {} =>
        /\ DOMAIN found \subseteq DOMAIN users
        /\ \A p \in Procs : /\ pc[p] \in InTx => Alone(Tx(p))
                            /\ pc[p] \in {"rows", "insert"} => DOMAIN draft[p] \subseteq DOMAIN users
                            /\ pc[p] = "insert" => ~ HasAdmin(users)
        /\ \A o \in orphans : o.sent => Alone(o)
        /\ \E a \in Names : Created \subseteq {a}


-----------------------------------------------------------------------------

LEMMA NoRowsIs == DOMAIN NoRows = {}
BY DEF NoRows

LEMMA OthersLock ==
    ASSUME NEW p \in Procs, NEW n
    PROVE  n \in LockedByOthers(p) <=>
               (\E q \in Procs \ {p} : n \in locked[q]) \/ (\E o \in orphans : n \in o.locked)
<1> DEFINE Mine == UNION {locked[q] : q \in Procs \ {p}}
           Left == UNION {o.locked : o \in orphans}
<1>1. n \in Mine <=> \E q \in Procs \ {p} : n \in locked[q]
  OBVIOUS
<1>2. n \in Left <=> \E o \in orphans : n \in o.locked
  OBVIOUS
<1>3. LockedByOthers(p) = Mine \cup Left
  BY DEF LockedByOthers
<1>4. QED BY <1>1, <1>2, <1>3

LEMMA LocksApart == ASSUME Locks, NEW p \in Procs PROVE locked[p] \cap LockedByOthers(p) = {}
BY OthersLock DEF Locks


\* The actions of p change nothing of the others.
OnlyOf(p) ==
    /\ pc' \in [Procs -> Working \cup {"passed", "stopped"}]
    /\ todo' \in [Procs -> SUBSET Names] /\ locked' \in [Procs -> SUBSET Names]
    /\ DOMAIN draft' = Procs
    /\ \A q \in Procs \ {p} : /\ pc'[q] = pc[q] /\ todo'[q] = todo[q]
                              /\ locked'[q] = locked[q] /\ draft'[q] = draft[q]

LEMMA LeaveIs ==
    ASSUME Typed, NEW p \in Procs, NEW to \in {"passed", "stopped"}, Leave(p, to)
    PROVE  /\ OnlyOf(p)
           /\ pc'[p] = to /\ todo'[p] = {} /\ locked'[p] = {} /\ draft'[p] = NoRows
BY DEF Typed, Leave, OnlyOf

\* A process without a transaction.
LEMMA Idle ==
    ASSUME NEW p \in Procs, pc[p] \notin InTx, todo[p] = {}, locked[p] = {}, draft[p] = NoRows
    PROVE  Sound(Tx(p)) /\ Scanned(p)
BY NoRowsIs DEF Sound, Tx, Scanned, Table, InTx

\* A step within the transaction of p.
LEMMA Within ==
    ASSUME IInv, NEW p \in Procs, OnlyOf(p), UNCHANGED <<conf, found, users, orphans>>,
           Sound(Tx(p))', Scanned(p)', locked'[p] \cap LockedByOthers(p) = {},
           pc'[p] = "passed" => Safe(users)
    PROVE  IInv'
<1> USE DEF IInv
<1>1. Typed'
  BY DEF Typed, OnlyOf
<1>2. ASSUME NEW q \in Procs
      PROVE  Sound(Tx(q))' /\ Scanned(q)'
  <2>1. CASE q = p
    BY <2>1
  <2>2. CASE q # p
    <3>1. UNCHANGED <<Tx(q), users, pc[q], todo[q], locked[q], draft[q], conf[q]>>
      BY <2>2 DEF OnlyOf, Tx
    <3>2. Sound(Tx(q)) /\ Scanned(q)
      BY DEF Drafts
    <3>3. Sound(Tx(q))'
      BY <3>1, <3>2 DEF Sound
    <3>4. Scanned(q)'
      BY <3>1, <3>2 DEF Scanned, Sees
    <3>5. QED BY <3>3, <3>4
  <2>3. QED BY <2>1, <2>2
<1>3. \A o \in orphans : Sound(o)'
  BY DEF Drafts, Sound
<1>4. Locks'
  <2>1. \A q \in Procs \ {p} : locked'[p] \cap locked[q] = {}
    BY OthersLock
  <2>2. \A o \in orphans : locked'[p] \cap o.locked = {}
    BY OthersLock
  <2>3. QED BY <2>1, <2>2 DEF Locks, OnlyOf
<1>5. Changed'
  BY DEF Changed, OnlyOf
<1>6. QED BY <1>1, <1>2, <1>3, <1>4, <1>5 DEF Drafts

\* What a transaction sees when all its rows are done.
LEMMA SeesHashes ==
    ASSUME IInv, NEW p \in Procs, pc[p] \in InTx, todo[p] = {}
    PROVE  Hashed(Sees(p))
<1>1. Sound(Tx(p)) /\ Scanned(p)
  BY DEF IInv, Drafts
<1>2. \A n \in DOMAIN draft[p] : draft[p][n].stored = "hash"
  BY <1>1 DEF Sound, Tx
<1>3. QED BY <1>1, <1>2 DEF Under, With, Hashed, Sees, Scanned

LEMMA ScanStep == ASSUME IInv, NEW p \in Procs, Scan(p) PROVE IInv'
<1> USE DEF IInv
<1>1. /\ pc[p] = "scan" /\ draft[p] = NoRows /\ LockedByOthers(p) = {}
      /\ UNCHANGED <<conf, found, users, draft, orphans>>
  BY DEF Scan, Take, Scanned, InTx
<1>2. /\ OnlyOf(p) /\ pc'[p] = "rows" /\ locked'[p] = DOMAIN users
      /\ todo'[p] = {n \in DOMAIN users : users[n].stored # "hash"}
  BY DEF Scan, Take, Typed, OnlyOf, Table, Working
<1>3. Sound(Tx(p))'
  BY <1>1, <1>2, NoRowsIs DEF Sound, Tx, Table
<1>4. Scanned(p)'
  BY <1>1, <1>2, NoRowsIs DEF Under, With, Scanned, Sees, InTx
<1>5. QED BY <1>1, <1>2, <1>3, <1>4, Within

LEMMA RewriteStep == ASSUME IInv, NEW p \in Procs, Rewrite(p) PROVE IInv'
<1> USE DEF IInv
<1>1. PICK n \in todo[p] : /\ users[n].stored = "plain"
                           /\ draft' = [draft EXCEPT ![p] = With(@, n, Hash(n))]
                           /\ todo' = [todo EXCEPT ![p] = @ \ {n}]
  BY DEF Rewrite
<1>2. pc[p] = "rows" /\ UNCHANGED <<conf, found, users, pc, locked, orphans>>
  BY DEF Rewrite
<1>3. /\ OnlyOf(p) /\ draft'[p] = With(draft[p], n, Hash(n)) /\ todo'[p] = todo[p] \ {n}
  BY <1>1, <1>2 DEF Typed, OnlyOf
<1>4. n \in DOMAIN users /\ n \in locked[p] /\ n \in Names /\ users[n] \in Row
  BY <1>1, <1>2 DEF Scanned, InTx, Typed, Table
<1>5. Hash(n) \in Row /\ Hash(n).stored = "hash" /\ Hash(n).admin = users[n].admin /\ users[n].admin \in BOOLEAN
  BY <1>4 DEF Hash, Row, Kinds
<1>6. Sound(Tx(p)) /\ Scanned(p)
  BY DEF Drafts
<1>7. Sound(Tx(p))'
  <2>1. /\ DOMAIN draft'[p] = DOMAIN draft[p] \cup {n}
        /\ \A m \in DOMAIN draft'[p] : draft'[p][m] = IF m = n THEN Hash(n) ELSE draft[p][m]
    BY <1>3 DEF With
  <2>2. Table(draft'[p]) /\ DOMAIN draft'[p] \subseteq locked'[p]
    BY <1>2, <1>4, <1>5, <1>6, <2>1 DEF Sound, Tx, Table
  <2>3. \A m \in DOMAIN draft'[p] : /\ draft'[p][m].stored = "hash"
                                    /\ draft'[p][m].admin \/ (m \in DOMAIN users /\ ~ users[m].admin)
    BY <1>4, <1>5, <1>6, <2>1 DEF Sound, Tx
  <2>4. QED BY <1>2, <2>2, <2>3 DEF Sound, Tx
<1>8. Scanned(p)'
  <2>1. ASSUME NEW m \in DOMAIN users \ (todo[p] \ {n})
        PROVE  Under(users, draft'[p])[m].stored = "hash"
    <3>1. CASE m \in DOMAIN draft'[p]
      BY <1>2, <1>3, <1>7, <3>1 DEF Under, With, Sound, Tx
    <3>2. CASE m \notin DOMAIN draft'[p]
      <4>1. m # n /\ m \notin DOMAIN draft[p]
        BY <1>3, <3>2 DEF Under, With
      <4>2. Under(users, draft[p])[m] = users[m] /\ Under(users, draft'[p])[m] = users[m]
        BY <3>2, <4>1 DEF Under, With
      <4>3. QED BY <1>2, <1>6, <4>1, <4>2 DEF Scanned, Sees, InTx
    <3>3. QED BY <3>1, <3>2
  <2>2. QED BY <1>2, <1>3, <1>6, <2>1 DEF Scanned, Sees, InTx
<1>9. QED BY <1>2, <1>3, <1>7, <1>8, Within, LocksApart

\* What ends without a commit.
LEMMA GiveUpStep ==
    ASSUME IInv, NEW p \in Procs, Leave(p, "stopped"), UNCHANGED <<conf, found, users, orphans>>
    PROVE  IInv'
<1>1. /\ OnlyOf(p) /\ pc'[p] = "stopped" /\ todo'[p] = {} /\ locked'[p] = {} /\ draft'[p] = NoRows
  BY LeaveIs DEF IInv
<1>2. (Sound(Tx(p)) /\ Scanned(p))'
  BY <1>1, NoRowsIs DEF Sound, Tx, Scanned, Table, InTx
<1>3. QED BY <1>1, <1>2, Within

LEMMA GoToStep ==
    ASSUME IInv, NEW p \in Procs, Count(p) \/ Restart(p)
    PROVE  IInv'
<1> USE DEF IInv
<1>1. /\ UNCHANGED <<conf, found, users, todo, draft, locked, orphans>>
      /\ OnlyOf(p) /\ pc'[p] # "passed"
  BY DEF Count, Restart, GoTo, Typed, OnlyOf, Working
<1>2. Sound(Tx(p)) /\ Scanned(p)
  BY DEF Drafts
<1>3. CASE Restart(p)
  BY <1>1, <1>2, <1>3, Within, LocksApart DEF Restart, GoTo, Typed, Sound, Tx, Scanned, Sees, InTx
<1>4. CASE Count(p)
  <2>1. pc[p] = "rows" /\ todo[p] = {} /\ Hashed(Sees(p))
    BY <1>4, SeesHashes DEF Count, AfterRows, InTx
  <2>2. \/ pc'[p] = "commit" /\ HasAdmin(Sees(p))
        \/ pc'[p] = "insert" /\ conf[p].name # NoName
    BY <1>4 DEF Count, GoTo, Typed
  <2>3. Sound(Tx(p))'
    BY <1>1, <1>2, <2>1, <2>2 DEF Sound, Tx, Safe, Sees
  <2>4. Scanned(p)'
    BY <1>1, <1>2, <2>1, <2>2 DEF Scanned, Sees, InTx
  <2>5. QED BY <1>1, <2>3, <2>4, Within, LocksApart
<1>5. QED BY <1>3, <1>4

LEMMA InsertStep == ASSUME IInv, NEW p \in Procs, Insert(p) PROVE IInv'
<1> USE DEF IInv
<1> DEFINE n == conf[p].name
           r == [admin |-> TRUE, stored |-> "hash"]
<1>1. /\ pc[p] = "insert" /\ n \notin LockedByOthers(p) /\ n \notin DOMAIN users
      /\ UNCHANGED <<conf, found, users, todo, orphans>>
  BY DEF Insert
<1>2. Sound(Tx(p)) /\ Scanned(p)
  BY DEF Drafts
<1>3. n \in Names
  <2>1. conf \in [Procs -> Config]
    BY StartupAssumption DEF Typed
  <2>2. QED BY <1>1, <1>2, <2>1 DEF Scanned, Config
<1>4. /\ OnlyOf(p) /\ pc'[p] = "commit" /\ locked'[p] = locked[p] \cup {n}
      /\ draft'[p] = With(draft[p], n, r)
  BY <1>3 DEF Insert, Typed, OnlyOf, Working
<1>5. r \in Row /\ r.stored = "hash" /\ r.admin
  BY DEF Row, Kinds
<1> HIDE DEF n, r
<1>6. /\ Table(draft'[p]) /\ DOMAIN draft'[p] \subseteq locked'[p]
      /\ \A m \in DOMAIN draft'[p] : /\ draft'[p][m].stored = "hash"
                                     /\ draft'[p][m].admin \/ (m \in DOMAIN users /\ ~ users[m].admin)
  BY <1>2, <1>3, <1>4, <1>5 DEF Under, With, Sound, Tx, Table
<1>7. Hashed(Under(users, draft'[p]))
  <2>1. Hashed(Under(users, draft[p])) /\ todo[p] = {}
    BY <1>1, <1>2, SeesHashes DEF InTx, Scanned, Sees
  <2>2. QED BY <1>4, <1>6, <2>1 DEF Under, With, Hashed
<1>8. HasAdmin(Under(users, draft'[p]))
  BY <1>4, <1>5 DEF Under, With, HasAdmin
<1>9. Sound(Tx(p))'
  BY <1>1, <1>6, <1>7, <1>8 DEF Sound, Tx, Safe
<1>10. Scanned(p)'
  BY <1>1, <1>2, <1>4, <1>7 DEF Under, With, Scanned, Sees, InTx, Hashed
<1>11. locked[p] \cap LockedByOthers(p) = {}
  BY LocksApart
<1>12. QED BY <1>1, <1>4, <1>9, <1>10, <1>11, Within


\* p dies, or its connection, and its transaction stays.
LEMMA AbandonStep ==
    ASSUME IInv, NEW p \in Procs, Abandon(p, "stopped")
    PROVE  IInv'
<1> USE DEF IInv
<1>1. /\ OnlyOf(p) /\ pc'[p] = "stopped" /\ todo'[p] = {} /\ locked'[p] = {} /\ draft'[p] = NoRows
      /\ orphans' = orphans \cup {Tx(p)} /\ UNCHANGED <<conf, found, users>>
  BY LeaveIs DEF Abandon, Tx
<1>2. ASSUME NEW q \in Procs
      PROVE  Sound(Tx(q))' /\ Scanned(q)'
  <2>1. CASE q = p
    BY <1>1, <2>1, NoRowsIs DEF Sound, Tx, Scanned, Table, InTx
  <2>2. CASE q # p
    <3>1. UNCHANGED <<Tx(q), users, pc[q], todo[q], locked[q], draft[q], conf[q]>>
      BY <1>1, <2>2 DEF OnlyOf, Tx
    <3>2. Sound(Tx(q)) /\ Scanned(q)
      BY DEF Drafts
    <3>3. Sound(Tx(q))'
      BY <3>1, <3>2 DEF Sound
    <3>4. Scanned(q)'
      BY <3>1, <3>2 DEF Scanned, Sees
    <3>5. QED BY <3>3, <3>4
  <2>3. QED BY <2>1, <2>2
<1>3. ASSUME NEW o \in orphans'
      PROVE  Sound(o)'
  <2>1. Sound(o)
    BY <1>1 DEF Drafts
  <2>2. QED BY <1>1, <2>1 DEF Sound
<1>4. Locks'
  <2>1. Tx(p).locked = locked[p]
    BY DEF Tx
  <2>2. QED BY <1>1, <2>1 DEF Locks, OnlyOf
<1>5. Typed' /\ Changed'
  BY <1>1 DEF Typed, Changed, OnlyOf
<1>6. QED BY <1>2, <1>3, <1>4, <1>5 DEF Drafts

\* What a COMMIT makes of the table is safe, and the other transactions, which
\* have no row in common with it, are as good as before.
LEMMA Publish ==
    ASSUME Table(users), NEW c, Sound(c), c.sent, users' = Under(users, c.draft)
    PROVE  /\ Table(users') /\ Safe(users') /\ DOMAIN users \subseteq DOMAIN users'
           /\ \A t : Sound(t) /\ t.locked \cap c.locked = {} => Sound(t)'
<1>1. Table(users') /\ DOMAIN users' = DOMAIN users \cup DOMAIN c.draft
  BY DEF Sound, Table, Under
<1>2. Safe(users')
  BY DEF Sound
<1>3. ASSUME NEW t, Sound(t), t.locked \cap c.locked = {}
      PROVE  Sound(t)'
  <2>1. \A n \in DOMAIN t.draft : n \notin DOMAIN c.draft
    BY <1>3 DEF Sound
  <2>2. \A n \in DOMAIN t.draft : n \in DOMAIN users => users'[n] = users[n]
    BY <2>1 DEF Under
  <2>3. \A n \in DOMAIN t.draft : /\ t.draft[n].stored = "hash"
                                  /\ t.draft[n].admin \/ (n \in DOMAIN users' /\ ~ users'[n].admin)
    BY <1>1, <1>3, <2>2 DEF Sound
  <2>4. Safe(Under(users', t.draft))
    <3>1. Hashed(Under(users', t.draft))
      BY <1>2, <2>3 DEF Hashed, Safe, Under
    <3>2. PICK n \in DOMAIN users' : users'[n].admin
      BY <1>2 DEF Safe, HasAdmin
    <3>3. n \in DOMAIN t.draft => t.draft[n].admin
      BY <2>3, <3>2
    <3>4. HasAdmin(Under(users', t.draft))
      BY <3>2, <3>3 DEF HasAdmin, Under
    <3>5. QED BY <3>1, <3>4 DEF Safe
  <2>5. QED BY <1>3, <2>3, <2>4 DEF Sound
<1>4. QED BY <1>1, <1>2, <1>3

\* A process stays what it was when another transaction makes the table safe.
LEMMA StillScanned ==
    ASSUME NEW q \in Procs, Sound(Tx(q)), Scanned(q), Safe(users'), DOMAIN users \subseteq DOMAIN users',
           UNCHANGED <<conf, pc[q], todo[q], locked[q], draft[q]>>
    PROVE  Scanned(q)'
<1>1. \A n \in DOMAIN draft[q] : draft[q][n].stored = "hash"
  BY DEF Sound, Tx
<1>2. \A n \in DOMAIN users' : Under(users', draft[q])[n].stored = "hash"
  BY <1>1 DEF Safe, Hashed, Under
<1>3. QED BY <1>2 DEF Scanned, Sees

LEMMA CommitStep == ASSUME IInv, NEW p \in Procs, Commit(p) PROVE IInv' /\ Safe(users')
<1> USE DEF IInv
<1>1. /\ OnlyOf(p) /\ pc'[p] = "passed" /\ todo'[p] = {} /\ locked'[p] = {} /\ draft'[p] = NoRows
      /\ users' = Under(users, Tx(p).draft) /\ Tx(p).sent /\ UNCHANGED <<conf, found, orphans>>
  BY LeaveIs DEF Commit, Tx, Sees
<1>2. /\ Table(users') /\ Safe(users') /\ DOMAIN users \subseteq DOMAIN users'
      /\ \A t : Sound(t) /\ t.locked \cap Tx(p).locked = {} => Sound(t)'
  BY <1>1, Publish DEF Typed, Drafts
<1>3. Tx(p).locked = locked[p]
  BY DEF Tx
<1>4. ASSUME NEW q \in Procs
      PROVE  Sound(Tx(q))' /\ Scanned(q)'
  <2>1. CASE q = p
    BY <1>1, <2>1, NoRowsIs DEF Sound, Tx, Scanned, Table, InTx
  <2>2. CASE q # p
    <3>1. UNCHANGED <<Tx(q), pc[q], todo[q], locked[q], draft[q]>>
      BY <1>1, <2>2 DEF OnlyOf, Tx
    <3>2. Sound(Tx(q)) /\ Scanned(q) /\ Tx(q).locked = locked[q]
      BY DEF Drafts, Tx
    <3>3. PICK t : t = Tx(q)
      OBVIOUS
    <3>4. Sound(t)'
      BY <1>2, <1>3, <2>2, <3>2, <3>3 DEF Locks
    <3>5. Sound(Tx(q))'
      BY <3>1, <3>3, <3>4 DEF Sound
    <3>6. QED BY <1>1, <1>2, <3>1, <3>2, <3>5, StillScanned
  <2>3. QED BY <2>1, <2>2
<1>5. \A o \in orphans : Sound(o)'
  BY <1>2, <1>3 DEF Drafts, Locks
<1>6. Locks'
  BY <1>1 DEF Locks, OnlyOf
<1>7. Typed' /\ Changed'
  BY <1>1, <1>2 DEF Typed, Changed, OnlyOf
<1>8. QED BY <1>1, <1>2, <1>4, <1>5, <1>6, <1>7 DEF Drafts

LEMMA OrphanStep == ASSUME IInv, OrphanEnds PROVE IInv' /\ (users' # users => Safe(users'))
<1> USE DEF IInv
<1>1. PICK o \in orphans : /\ orphans' = orphans \ {o}
                           /\ users' = users \/ (o.sent /\ users' = Under(users, o.draft))
                           /\ UNCHANGED <<conf, found, pc, todo, locked, draft, faults>>
  BY DEF OrphanEnds
<1>2. CASE users' = users
  <2>1. ASSUME NEW q \in Procs
        PROVE  Sound(Tx(q))' /\ Scanned(q)'
    <3>1. Sound(Tx(q)) /\ Scanned(q) /\ UNCHANGED Tx(q)
      BY <1>1 DEF Drafts, Tx
    <3>2. QED BY <1>1, <1>2, <3>1 DEF Sound, Scanned, Sees
  <2>2. \A u \in orphans : Sound(u)'
    BY <1>2 DEF Drafts, Sound
  <2>3. Typed' /\ Locks' /\ Changed'
    BY <1>1, <1>2 DEF Typed, Locks, Changed
  <2>4. QED BY <1>1, <1>2, <2>1, <2>2, <2>3 DEF Drafts
<1>3. CASE o.sent /\ users' = Under(users, o.draft)
  <2>1. /\ Table(users') /\ Safe(users') /\ DOMAIN users \subseteq DOMAIN users'
        /\ \A t : Sound(t) /\ t.locked \cap o.locked = {} => Sound(t)'
    BY <1>3, Publish DEF Typed, Drafts
  <2>2. ASSUME NEW q \in Procs
        PROVE  Sound(Tx(q))' /\ Scanned(q)'
    <3>1. Sound(Tx(q)) /\ Scanned(q) /\ UNCHANGED Tx(q) /\ Tx(q).locked = locked[q]
      BY <1>1 DEF Drafts, Tx
    <3>2. PICK t : t = Tx(q)
      OBVIOUS
    <3>3. Sound(t)'
      BY <2>1, <3>1, <3>2 DEF Locks
    <3>4. Sound(Tx(q))'
      BY <3>1, <3>2, <3>3 DEF Sound
    <3>5. QED BY <1>1, <2>1, <3>1, <3>4, StillScanned
  <2>3. \A u \in orphans' : Sound(u)'
    BY <1>1, <2>1 DEF Drafts, Locks
  <2>4. Typed' /\ Locks' /\ Changed'
    BY <1>1, <2>1 DEF Typed, Locks, Changed
  <2>5. QED BY <2>1, <2>2, <2>3, <2>4 DEF Drafts
<1>4. QED BY <1>1, <1>2, <1>3

-----------------------------------------------------------------------------

LEMMA Begins == Init => IInv
<1> SUFFICES ASSUME Init
             PROVE  IInv
  OBVIOUS
<1>1. Table(users) /\ Typed
  BY StartupAssumption DEF Init, Typed, Table, Working
<1>2. \A p \in Procs : Sound(Tx(p)) /\ Scanned(p)
  BY Idle DEF Init, InTx
<1>3. QED BY <1>1, <1>2 DEF Init, IInv, Drafts, Locks, Changed

LEMMA IInvSteps == IInv /\ [Next]_vars => IInv' /\ (users' # users => Safe(users'))
<1> SUFFICES ASSUME IInv, [Next]_vars
             PROVE  IInv' /\ (users' # users => Safe(users'))
  OBVIOUS
<1>1. ASSUME NEW p \in Procs, Scan(p) \/ Rewrite(p) \/ RefuseRow(p) \/ Count(p) \/ NoAdministrator(p)
                   \/ Insert(p) \/ InsertDuplicate(p) \/ Restart(p) \/ Fails(p) \/ Lost(p)
      PROVE  IInv' /\ users' = users
  <2>1. CASE Scan(p) \/ Rewrite(p) \/ Count(p) \/ Insert(p) \/ Restart(p)
    BY <2>1, ScanStep, RewriteStep, GoToStep, InsertStep DEF Scan, Take, Rewrite, Count, Insert, Restart, GoTo
  <2>2. CASE RefuseRow(p) \/ NoAdministrator(p) \/ InsertDuplicate(p) \/ Fails(p)
    BY <2>2, GiveUpStep DEF RefuseRow, NoAdministrator, InsertDuplicate, Fails, GivesUp
  <2>3. CASE Lost(p)
    BY <2>3, AbandonStep DEF Lost, Abandon
  <2>4. QED BY <1>1, <2>1, <2>2, <2>3
<1>2. ASSUME NEW p \in Procs, Commit(p)
      PROVE  IInv' /\ Safe(users')
  BY <1>2, CommitStep
<1>3. CASE OrphanEnds
  BY <1>3, OrphanStep
<1>4. CASE UNCHANGED vars
  <2>1. \A p \in Procs : UNCHANGED Tx(p)
    BY <1>4 DEF vars, Tx
  <2>2. QED
    BY <1>4, <2>1 DEF vars, IInv, Typed, Drafts, Locks, Scanned, Sees, Changed, Sound
<1>5. QED BY <1>1, <1>2, <1>3, <1>4 DEF Next, Runs

LEMMA IInvAlways == Spec => []IInv
BY Begins, IInvSteps, PTL DEF Spec

\* No process serves before the table has only hashes and an administrator, and no
\* start that is still in progress, lost or abandoned takes that away later.
THEOREM PassedOnlySafe == Spec => []PassedIsSafe
<1>1. IInv => PassedIsSafe
  BY DEF IInv, Changed, Safe, PassedIsSafe
<1>2. QED BY <1>1, IInvAlways, PTL

\* The COMMIT of runLegacyStartupChecks is all that changes the table, from the
\* one that was found to one that is safe as a whole.
THEOREM ChangesWhole == Spec => AllOrNothing
<1>1. IInv /\ [Next]_vars => [users' # users => Hashed(users') /\ HasAdmin(users')]_vars
  BY IInvSteps DEF Safe
<1>2. QED BY <1>1, IInvAlways, PTL DEF Spec, AllOrNothing


-----------------------------------------------------------------------------
(* The first administrator.                                                *)

\* What the steps of p do to the names in its draft.
LEMMA Drafting ==
    ASSUME IInv, NEW p \in Procs, Runs(p) \/ Fails(p) \/ Lost(p)
    PROVE  /\ OnlyOf(p) /\ UNCHANGED <<conf, found>>
           /\ orphans' = orphans \/ orphans' = orphans \cup {Tx(p)}
           /\ users' = users \/ Commit(p)
           /\ Insert(p) \/ DOMAIN draft'[p] \subseteq DOMAIN draft[p] \cup DOMAIN users
           /\ pc'[p] = "insert" => pc[p] = "insert" \/ ~ HasAdmin(Sees(p))
<1> USE DEF IInv
<1>1. ASSUME Leave(p, "stopped") \/ Leave(p, "passed")
      PROVE  OnlyOf(p) /\ pc'[p] # "insert" /\ DOMAIN draft'[p] = {}
  BY <1>1, LeaveIs, NoRowsIs
<1>2. CASE RefuseRow(p) \/ NoAdministrator(p) \/ InsertDuplicate(p) \/ Fails(p) \/ Lost(p) \/ Commit(p)
  BY <1>1, <1>2 DEF RefuseRow, NoAdministrator, InsertDuplicate, Fails, Lost, Commit, GivesUp, Abandon, Tx
<1>3. CASE Scan(p)
  BY <1>3 DEF Scan, Take, OnlyOf, Typed, Table, Working
<1>4. CASE Rewrite(p)
  <2>1. PICK n \in todo[p] : /\ draft' = [draft EXCEPT ![p] = With(@, n, Hash(n))]
                             /\ todo' = [todo EXCEPT ![p] = @ \ {n}]
    BY <1>4 DEF Rewrite
  <2>2. n \in DOMAIN users /\ pc[p] = "rows" /\ UNCHANGED <<conf, found, users, pc, locked, orphans>>
    BY <1>4 DEF Rewrite, Scanned, InTx
  <2>3. OnlyOf(p) /\ draft'[p] = With(draft[p], n, Hash(n))
    BY <2>1, <2>2 DEF Typed, OnlyOf
  <2>4. QED BY <2>2, <2>3 DEF With, Typed
<1>5. CASE Count(p) \/ Restart(p)
  BY <1>5 DEF Count, Restart, GoTo, OnlyOf, Typed, Working
<1>6. CASE Insert(p)
  <2>1. conf[p].name \in Names
    <3>1. conf \in [Procs -> Config]
      BY StartupAssumption DEF Typed
    <3>2. QED BY <1>6, <3>1 DEF Insert, Scanned, Config
  <2>2. QED BY <1>6, <2>1 DEF Insert, OnlyOf, Typed, Working
<1>7. QED BY <1>2, <1>3, <1>4, <1>5, <1>6 DEF Runs

\* No step hides an administrator.
LEMMA StillAdmin ==
    ASSUME IInv, NEW p \in Procs, HasAdmin(users)
    PROVE  HasAdmin(Sees(p))
<1>1. PICK n \in DOMAIN users : users[n].admin
  BY DEF HasAdmin
<1>2. n \in DOMAIN draft[p] => draft[p][n].admin
  BY <1>1 DEF IInv, Drafts, Sound, Tx
<1>3. QED BY <1>1, <1>2 DEF HasAdmin, Sees, Under

LEMMA OriginSteps == IInv /\ Origin /\ [Next]_vars => Origin'
<1> SUFFICES ASSUME IInv, Origin, [Next]_vars
             PROVE  Origin'
  OBVIOUS
<1>1. ASSUME NEW p \in Procs, Runs(p) \/ Fails(p) \/ Lost(p)
      PROVE  Origin'
  <2>1. /\ OnlyOf(p) /\ UNCHANGED <<conf, found>>
        /\ orphans' = orphans \/ orphans' = orphans \cup {Tx(p)}
        /\ users' = users \/ Commit(p)
        /\ Insert(p) \/ DOMAIN draft'[p] \subseteq DOMAIN draft[p] \cup DOMAIN users
        /\ pc'[p] = "insert" => pc[p] = "insert" \/ ~ HasAdmin(Sees(p))
    BY <1>1, Drafting
  <2>2. UNCHANGED ConfNames
    BY <2>1 DEF ConfNames
  <2>3. DOMAIN users' = DOMAIN users \/ DOMAIN users' = DOMAIN users \cup DOMAIN draft[p]
    BY <2>1 DEF Commit, Sees, Under
  <2>4. FromConf(users)'
    BY <2>1, <2>2, <2>3 DEF Origin, FromConf
  <2>5. HasAdmin(found) => HasAdmin(users')
    BY IInvSteps DEF Origin, Safe
  <2>6. HasAdmin(found) => pc'[p] # "insert" /\ ~ Insert(p)
    BY <2>1, StillAdmin DEF Origin, Insert
  <2>7. FromConf(draft[p])'
    <3>1. CASE Insert(p)
      <4>1. DOMAIN draft'[p] = DOMAIN draft[p] \cup {conf[p].name}
        BY <3>1 DEF Insert, IInv, Typed, With
      <4>2. conf[p].name \in ConfNames
        BY <3>1 DEF Insert, IInv, Scanned, ConfNames
      <4>3. QED BY <2>1, <2>2, <2>6, <3>1, <4>1, <4>2 DEF Origin, FromConf
    <3>2. CASE ~ Insert(p)
      BY <2>1, <2>2, <3>2 DEF Origin, FromConf
    <3>3. QED BY <3>1, <3>2
  <2>8. \A q \in Procs : FromConf(draft[q])'
    BY <2>1, <2>2, <2>7 DEF Origin, FromConf, OnlyOf
  <2>9. \A o \in orphans' : FromConf(o.draft)'
    BY <2>1, <2>2 DEF Origin, FromConf, Tx
  <2>10. QED BY <2>1, <2>4, <2>5, <2>6, <2>8, <2>9 DEF Origin, OnlyOf
<1>2. CASE OrphanEnds
  <2>1. PICK o \in orphans : /\ orphans' = orphans \ {o}
                             /\ users' = users \/ (o.sent /\ users' = Under(users, o.draft))
                             /\ UNCHANGED <<conf, found, pc, draft>>
    BY <1>2 DEF OrphanEnds
  <2>2. UNCHANGED ConfNames
    BY <2>1 DEF ConfNames
  <2>3. DOMAIN users' = DOMAIN users \/ DOMAIN users' = DOMAIN users \cup DOMAIN o.draft
    BY <2>1 DEF Under
  <2>4. HasAdmin(found) => HasAdmin(users')
    BY IInvSteps DEF Origin, Safe
  <2>5. QED BY <2>1, <2>2, <2>3, <2>4 DEF Origin, FromConf
<1>3. CASE UNCHANGED vars
  BY <1>3 DEF vars, Origin, FromConf, ConfNames
<1>4. QED BY <1>1, <1>2, <1>3 DEF Next

\* On a table that has users, transactions exclude each other: each has all rows.
LEMMA Exclusive ==
    ASSUME IInv, Serial, DOMAIN found # {}
    PROVE  /\ \A p, q \in Procs : pc[p] \in InTx /\ pc[q] \in InTx => p = q
           /\ \A p \in Procs, o \in orphans : ~ (pc[p] \in InTx /\ o.sent)
           /\ \A o, u \in orphans : o.sent /\ u.sent => o = u
<1>1. PICK n : n \in DOMAIN users
  BY DEF Serial
<1>2. \A p \in Procs : pc[p] \in InTx => n \in locked[p]
  BY <1>1 DEF Serial, Alone, Tx
<1>3. \A o \in orphans : o.sent => n \in o.locked
  BY <1>1 DEF Serial, Alone
<1>4. QED BY <1>2, <1>3 DEF IInv, Locks

\* What the transaction that is alone makes of the table.
LEMMA AddsOne ==
    ASSUME IInv, Serial, DOMAIN found # {}, NEW c, Alone(c), users' = Under(users, c.draft),
           UNCHANGED found
    PROVE  DOMAIN found \subseteq DOMAIN users' /\ \E a \in Names : Created' \subseteq {a}
<1>1. DOMAIN users' = DOMAIN users \cup DOMAIN c.draft
  BY DEF Under
<1>2. CASE DOMAIN c.draft \subseteq DOMAIN users
  BY <1>1, <1>2 DEF Serial, Created
<1>3. CASE ~ HasAdmin(users)
  <2>1. users = found
    BY <1>3 DEF IInv, Changed, Safe
  <2>2. PICK a \in Names : DOMAIN c.draft \ DOMAIN users \subseteq {a}
    BY DEF Alone
  <2>3. QED BY <1>1, <2>1, <2>2 DEF Created
<1>4. QED BY <1>2, <1>3 DEF Alone

LEMMA SerialSteps == IInv /\ Serial /\ [Next]_vars => Serial'
<1> SUFFICES ASSUME IInv, Serial, [Next]_vars, DOMAIN found # {}, UNCHANGED found
             PROVE  /\ DOMAIN found \subseteq DOMAIN users'
                    /\ \A p \in Procs : /\ pc'[p] \in InTx => Alone(Tx(p))'
                                        /\ pc'[p] \in {"rows", "insert"} => DOMAIN draft'[p] \subseteq DOMAIN users'
                                        /\ pc'[p] = "insert" => ~ HasAdmin(users')
                    /\ \A o \in orphans' : o.sent => Alone(o)'
                    /\ \E a \in Names : Created' \subseteq {a}
  <2>1. [Next]_vars /\ IInv => UNCHANGED found
    BY Drafting DEF Next, OrphanEnds, vars
  <2>2. QED BY <2>1 DEF Serial
<1>0. PICK name \in Names : TRUE
  BY StartupAssumption DEF IInv, Typed
<1>1. ASSUME NEW p \in Procs, Runs(p) \/ Fails(p) \/ Lost(p), users' = users
      PROVE  /\ \A q \in Procs : /\ pc'[q] \in InTx => Alone(Tx(q))'
                                 /\ pc'[q] \in {"rows", "insert"} => DOMAIN draft'[q] \subseteq DOMAIN users
                                 /\ pc'[q] = "insert" => ~ HasAdmin(users)
             /\ \A o \in orphans' : o.sent => Alone(o)'
  <2>1. /\ OnlyOf(p)
        /\ orphans' = orphans \/ orphans' = orphans \cup {Tx(p)}
        /\ Insert(p) \/ DOMAIN draft'[p] \subseteq DOMAIN draft[p] \cup DOMAIN users
        /\ pc'[p] = "insert" => pc[p] = "insert" \/ ~ HasAdmin(Sees(p))
    BY <1>1, Drafting
  <2>2. ASSUME NEW o \in orphans', o.sent
        PROVE  Alone(o)'
    <3>1. Alone(o)
      <4>1. CASE o \in orphans
        BY <2>2, <4>1 DEF Serial
      <4>2. CASE o = Tx(p)
        <5>1. pc[p] \in InTx
          BY <2>2, <4>2 DEF Tx, InTx
        <5>2. QED BY <4>2, <5>1 DEF Serial
      <4>3. QED BY <2>1, <4>1, <4>2
    <3>2. QED BY <1>1, <3>1 DEF Alone
  <2>3. ASSUME NEW q \in Procs \ {p}
        PROVE  /\ pc'[q] \in InTx => Alone(Tx(q))'
               /\ pc'[q] \in {"rows", "insert"} => DOMAIN draft'[q] \subseteq DOMAIN users
               /\ pc'[q] = "insert" => ~ HasAdmin(users)
    <3>1. pc'[q] = pc[q] /\ draft'[q] = draft[q] /\ UNCHANGED Tx(q)
      BY <2>1 DEF OnlyOf, Tx
    <3>2. QED BY <1>1, <3>1 DEF Serial, Alone
  <2>4. /\ pc'[p] \in InTx => Alone(Tx(p))'
        /\ pc'[p] \in {"rows", "insert"} => DOMAIN draft'[p] \subseteq DOMAIN users
        /\ pc'[p] = "insert" => ~ HasAdmin(users)
    <3>1. CASE pc'[p] \notin InTx
      BY <3>1 DEF InTx
    <3>2. CASE Scan(p)
      <4>1. pc'[p] = "rows" /\ locked'[p] = DOMAIN users /\ draft'[p] = NoRows
        BY <3>2 DEF Scan, Take, IInv, Typed, Scanned, InTx
      <4>2. QED BY <1>0, <1>1, <4>1, NoRowsIs DEF Alone, Tx
    <3>3. CASE Rewrite(p) \/ Count(p)
      <4>1. /\ pc[p] = "rows" /\ locked' = locked
            /\ DOMAIN draft'[p] \subseteq DOMAIN draft[p] \cup DOMAIN users
        BY <2>1, <3>3 DEF Rewrite, Count, AfterRows, GoTo, Insert
      <4>2. DOMAIN users \subseteq locked[p] /\ DOMAIN draft[p] \subseteq DOMAIN users
        BY <4>1 DEF Serial, Alone, Tx, InTx
      <4>3. Alone(Tx(p))'
        BY <1>0, <1>1, <4>1, <4>2 DEF Alone, Tx
      <4>4. QED BY <2>1, <4>1, <4>2, <4>3, StillAdmin
    <3>4. CASE Insert(p)
      <4>1. /\ pc[p] = "insert" /\ pc'[p] = "commit" /\ locked'[p] = locked[p] \cup {conf[p].name}
            /\ DOMAIN draft'[p] = DOMAIN draft[p] \cup {conf[p].name}
        BY <3>4 DEF Insert, IInv, Typed, With
      <4>2. /\ DOMAIN users \subseteq locked[p] /\ DOMAIN draft[p] \subseteq DOMAIN users
            /\ ~ HasAdmin(users)
        BY <4>1 DEF Serial, Alone, Tx, InTx
      <4>3. conf[p].name \in Names
        <5>1. conf \in [Procs -> Config]
          BY StartupAssumption DEF IInv, Typed
        <5>2. QED BY <4>1, <5>1 DEF IInv, Scanned, Config
      <4>4. QED BY <1>1, <4>1, <4>2, <4>3 DEF Alone, Tx
    <3>5. CASE Restart(p)
      BY <3>5 DEF Restart, GoTo, IInv, Typed, InTx
    <3>6. CASE RefuseRow(p) \/ NoAdministrator(p) \/ InsertDuplicate(p) \/ Fails(p) \/ Lost(p) \/ Commit(p)
      BY <3>6, LeaveIs DEF IInv, InTx, RefuseRow, NoAdministrator, InsertDuplicate, Fails, Lost, Commit,
                           GivesUp, Abandon
    <3>7. QED BY <1>1, <3>1, <3>2, <3>3, <3>4, <3>5, <3>6 DEF Runs
  <2>5. QED BY <2>2, <2>3, <2>4
<1>2. ASSUME NEW p \in Procs, Commit(p)
      PROVE  /\ Alone(Tx(p)) /\ users' = Under(users, Tx(p).draft)
             /\ \A q \in Procs : pc'[q] \notin InTx
             /\ \A o \in orphans' : ~ o.sent
  <2>1. pc[p] = "commit" /\ pc'[p] = "passed" /\ OnlyOf(p) /\ orphans' = orphans
        /\ users' = Under(users, Tx(p).draft)
    BY <1>2, LeaveIs DEF Commit, IInv, Sees, Tx
  <2>2. QED BY <2>1, Exclusive DEF Serial, InTx, OnlyOf
<1>3. CASE OrphanEnds
  <2>1. PICK o \in orphans : /\ orphans' = orphans \ {o}
                             /\ users' = users \/ (o.sent /\ users' = Under(users, o.draft))
                             /\ UNCHANGED <<conf, found, pc, locked, draft>>
    BY <1>3 DEF OrphanEnds
  <2>2. CASE users' = users
    <3>1. \A q \in Procs : UNCHANGED Tx(q)
      BY <2>1 DEF Tx
    <3>2. QED BY <2>1, <2>2, <3>1 DEF Serial, Alone, Created
  <2>3. CASE o.sent /\ users' = Under(users, o.draft)
    <3>1. Alone(o) /\ (\A q \in Procs : pc[q] \notin InTx) /\ \A u \in orphans' : ~ u.sent
      BY <2>1, <2>3, Exclusive DEF Serial
    <3>2. QED BY <2>1, <2>3, <3>1, AddsOne DEF InTx
  <2>4. QED BY <2>1, <2>2, <2>3
<1>4. CASE UNCHANGED vars
  <2>1. \A q \in Procs : UNCHANGED Tx(q)
    BY <1>4 DEF vars, Tx
  <2>2. QED BY <1>4, <2>1 DEF vars, Serial, Alone, Created
<1>5. ASSUME NEW p \in Procs, Runs(p) \/ Fails(p) \/ Lost(p)
      PROVE  /\ DOMAIN found \subseteq DOMAIN users'
             /\ \A q \in Procs : /\ pc'[q] \in InTx => Alone(Tx(q))'
                                 /\ pc'[q] \in {"rows", "insert"} => DOMAIN draft'[q] \subseteq DOMAIN users'
                                 /\ pc'[q] = "insert" => ~ HasAdmin(users')
             /\ \A o \in orphans' : o.sent => Alone(o)'
             /\ \E a \in Names : Created' \subseteq {a}
  <2>1. CASE users' = users
    BY <1>1, <1>5, <2>1 DEF Serial, Created
  <2>2. CASE Commit(p)
    BY <1>2, <2>2, AddsOne DEF InTx
  <2>3. QED BY <1>5, <2>1, <2>2, Drafting
<1>6. QED BY <1>3, <1>4, <1>5 DEF Next


LEMMA FoundAlways == Spec => [](Origin /\ Serial)
<1>1. Init => Origin /\ Serial
  <2> SUFFICES ASSUME Init
               PROVE  Origin /\ Serial
    OBVIOUS
  <2>1. Origin
    BY NoRowsIs DEF Init, Origin, FromConf
  <2>2. ASSUME DOMAIN found # {}
        PROVE  \E a \in Names : Created \subseteq {a}
    BY <2>2, StartupAssumption DEF Init, Created
  <2>3. Serial
    BY <2>2 DEF Init, Serial, InTx
  <2>4. QED BY <2>1, <2>3
<1>2. QED BY <1>1, OriginSteps, SerialSteps, IInvAlways, PTL DEF Spec

\* However many processes start at once: on a table with users, or with one name
\* configured, one administrator is created at most, and none beside one found.
THEOREM OneFirstAdministrator == Spec => []SingleAdministrator
<1>1. IInv /\ Origin /\ Serial => SingleAdministrator
  <2> SUFFICES ASSUME IInv, Origin, Serial
               PROVE  SingleAdministrator
    OBVIOUS
  <2>1. HasAdmin(found) => Created = {}
    BY DEF Origin, FromConf, Created
  <2>2. ASSUME DOMAIN found # {}
        PROVE  Cardinality(Created) <= 1
    <3>1. PICK a : Created \in SUBSET {a}
      BY <2>2 DEF Serial
    <3>2. IsFiniteSet({a}) /\ Cardinality({a}) = 1
      BY FS_Singleton
    <3>3. QED BY <3>1, <3>2, FS_Subset
  <2>3. ASSUME Cardinality(ConfNames) <= 1
        PROVE  Cardinality(Created) <= 1
    <3>1. IsFiniteSet(ConfNames)
      <4> DEFINE S == {conf[p].name : p \in Procs}
                 f == [p \in Procs |-> conf[p].name]
      <4>1. f \in Surjection(Procs, S)
        BY DEF Surjection
      <4>2. IsFiniteSet(S)
        BY <4>1, StartupAssumption, FS_Surjection
      <4>3. ConfNames \in SUBSET S
        BY DEF ConfNames
      <4>4. QED BY <4>2, <4>3, FS_Subset
    <3>2. Created \in SUBSET ConfNames
      BY DEF Origin, FromConf, Created
    <3>3. /\ Cardinality(Created) <= Cardinality(ConfNames)
          /\ Cardinality(Created) \in Nat /\ Cardinality(ConfNames) \in Nat
      BY <3>1, <3>2, FS_Subset, FS_CardinalityType
    <3>4. QED BY <2>3, <3>3
  <2>4. QED BY <2>1, <2>2, <2>3 DEF SingleAdministrator, ConfNames
<1>2. QED BY <1>1, FoundAlways, IInvAlways, PTL
=============================================================================
