------------------------------ MODULE Migration ------------------------------
(***************************************************************************)
(* infrastructure/mysql/migration: MigrationRunner::run, which every       *)
(* process executes while it starts and before it serves requests.         *)
(* Several processes, of the same or of different builds, may start on one *)
(* database; they are serialised by the named lock GET_LOCK gives to a     *)
(* session.                                                                *)
(*                                                                         *)
(* A step is one statement sent to the server, or the choice of the next   *)
(* one.  Statements fail, the process or its connection dies during one    *)
(* (which the server may then have executed or not), and the server may    *)
(* end an idle session the process still believes in.  The session a dead  *)
(* client leaves behind keeps the lock until the server ends it.           *)
(*                                                                         *)
(* Verification queries tell the truth: a step that changes the database   *)
(* is verified exactly when its effect is there.  A checksum stands for    *)
(* the four recorded fields of a step that are compared.                   *)
(***************************************************************************)
EXTENDS Naturals, Sequences

CONSTANTS Procs,      \* the processes, each started any number of times
          Manifest,   \* what discoverMigrations finds in the build of each
          MaxFaults,  \* bound: failures, losses and restarts
          MaxDrifts,  \* bound: structures removed by hand
          Free, Ghost, NoFact

\* A manifest is a sequence of definitions [version, name, steps], sorted by
\* version, with the steps [key, sum, kind, cleanup] of each sorted by id.  The
\* key of a step, unique in its manifest, stands for its version and id.
Elems(q) == {q[i] : i \in DOMAIN q}
StepsOf(m) == UNION {Elems(d.steps) : d \in Elems(m)}
Keys(xs) == {x.key : x \in xs}
Defs == UNION {Elems(Manifest[p]) : p \in Procs}
Steps == UNION {StepsOf(Manifest[p]) : p \in Procs}
AllKeys == Keys(Steps)
Versions == {d.version : d \in Defs}
KeysIn(n) == Keys(UNION {Elems(d.steps) : d \in {e \in Defs : e.version = n}})
Status == {"RUNNING", "FAILED", "SUCCEEDED"}
VersionRows == [name : {d.name : d \in Defs}, status : Status]
StepRows == [sum : {x.sum : x \in Steps}, status : Status]

ASSUME MigrationAssumption ==
    /\ MaxFaults \in Nat /\ MaxDrifts \in Nat
    /\ {Free, Ghost} \cap Procs = {} /\ Free # Ghost
    /\ \A p \in Procs :
        /\ Manifest[p] \in Seq(Defs) /\ Manifest[p] # <<>>
        /\ \A i, j \in DOMAIN Manifest[p] : i < j => Manifest[p][i].version < Manifest[p][j].version
    /\ \A d \in Defs :
        /\ d.version \in Nat
        /\ d.steps \in Seq(Steps) /\ d.steps # <<>>
        /\ \A i, j \in DOMAIN d.steps : d.steps[i].key = d.steps[j].key => i = j
    /\ \A d, e \in Defs : d.version # e.version => Keys(Elems(d.steps)) \cap Keys(Elems(e.steps)) = {}
    /\ \A x \in Steps : x.kind \in {"check", "ddl", "dml"} /\ x.cleanup \in BOOLEAN
    /\ \A x, y \in Steps : x.key = y.key /\ x.sum = y.sum => x = y
    /\ NoFact \notin VersionRows \cup StepRows

VARIABLES pc,         \* where each process is
          at,         \* [v, s]: its place in its manifest
          complete,   \* versionWasComplete
          seen,       \* recordedSteps
          versions,   \* table schema_migrations
          facts,      \* table schema_migration_steps
          hits,       \* how often the effect of each step was made durable
          holder,     \* whose session has the named lock
          misjudged,  \* steps whose verification erred during recovery
          faults, drifts

local == <<pc, at, complete, seen>>
db == <<versions, facts, hits>>
bounds == <<misjudged, faults, drifts>>
vars == <<local, db, holder, bounds>>

Waiting == {"down", "lock", "serving"}
Statement == {"boot", "read", "mark", "recover", "start", "apply", "verify",
              "commit", "record", "failStep", "failVersion", "close", "release"}
PC == Waiting \cup Statement \cup {"choose"}

Def(p) == Manifest[p][at[p].v]
Cur(p) == Def(p).steps[at[p].s]
Recorded(p) == IF Cur(p).key \in DOMAIN seen[p] THEN seen[p][Cur(p).key].status ELSE "none"

Init ==
    /\ pc = [p \in Procs |-> "down"]
    /\ at = [p \in Procs |-> [v |-> 1, s |-> 1]]
    /\ complete = [p \in Procs |-> FALSE]
    /\ seen = [p \in Procs |-> <<>>]
    /\ versions = [n \in Versions |-> NoFact]
    /\ facts = [k \in AllKeys |-> NoFact]
    /\ hits = [x \in Steps |-> 0]
    /\ holder = Free
    /\ misjudged = {}
    /\ faults = 0
    /\ drifts = 0
-----------------------------------------------------------------------------
(* Statements and their effects *)

Goto(p, l) == pc' = [pc EXCEPT ![p] = l]

\* Defect: the client reconnects silently.
AliveReconnected(p) == p \in Procs

\* The session of p, and the lock with it, is still there; without it every
\* statement fails, because automatic reconnection is off.
Alive(p) == holder = p

At(p, l) == pc[p] = l /\ Alive(p)

\* p is about to send a statement; a version that was complete is not recorded.
Sends(p) == pc[p] \in Statement /\ ~(pc[p] = "close" /\ complete[p])

\* updateVersionStatus
SetVersion(p, st) ==
    /\ versions' = [versions EXCEPT ![Def(p).version] = [name |-> Def(p).name, status |-> st]]
    /\ UNCHANGED <<facts, hits>>

\* updateStepStatus: an existing record keeps its checksum.
SetFact(p, st) ==
    /\ facts' = [facts EXCEPT ![Cur(p).key] =
                   [sum |-> IF @ = NoFact THEN Cur(p).sum ELSE @.sum, status |-> st]]
    /\ UNCHANGED <<versions, hits>>

Hit(p) ==
    /\ hits' = [hits EXCEPT ![Cur(p)] = @ + 1]
    /\ UNCHANGED <<versions, facts>>

\* What the statement p is about to send does to the database.
Execute(p) ==
    CASE pc[p] = "mark" -> SetVersion(p, "RUNNING")
      [] pc[p] = "failVersion" -> SetVersion(p, "FAILED")
      [] pc[p] = "close" /\ ~complete[p] -> SetVersion(p, "SUCCEEDED")
      [] pc[p] = "start" -> SetFact(p, "RUNNING")
      [] pc[p] = "record" -> SetFact(p, "SUCCEEDED")
      [] pc[p] = "failStep" -> SetFact(p, "FAILED")
      [] pc[p] = "apply" /\ Cur(p).kind = "ddl" -> Hit(p)
      [] pc[p] = "commit" -> Hit(p)
      [] OTHER -> UNCHANGED db

\* run returns: its local variables are gone.
Leave(p, l) ==
    /\ Goto(p, l)
    /\ at' = [at EXCEPT ![p] = [v |-> 1, s |-> 1]]
    /\ complete' = [complete EXCEPT ![p] = FALSE]
    /\ seen' = [seen EXCEPT ![p] = <<>>]

\* A failed run: ~MigrationLock releases the lock, or the poisoned
\* connection is closed, and the process does not start.
Stop(p) ==
    /\ Leave(p, "down")
    /\ holder' \in IF Alive(p) THEN {Free, Ghost} ELSE {holder}
-----------------------------------------------------------------------------
(* Getting the lock *)

Start(p) ==
    /\ pc[p] = "down"
    /\ Goto(p, "lock")
    /\ UNCHANGED <<at, complete, seen, db, holder, bounds>>

GetLock(p) ==
    /\ pc[p] = "lock"
    /\ holder = Free
    /\ holder' = p
    /\ Goto(p, "boot")
    /\ UNCHANGED <<at, complete, seen, db, bounds>>

\* Defect: whoever has the lock is trusted to migrate.
LockTimeoutServes(p) ==
    /\ pc[p] = "lock"
    /\ holder # Free
    /\ Goto(p, "serving")
    /\ UNCHANGED <<at, complete, seen, db, holder, bounds>>

LockTimesOut(p) ==
    /\ pc[p] = "lock"
    /\ holder # Free
    /\ Goto(p, "down")
    /\ UNCHANGED <<at, complete, seen, db, holder, bounds>>

\* Both control tables exist (CREATE TABLE IF NOT EXISTS) and are verified.
Bootstrap(p) ==
    /\ At(p, "boot")
    /\ Goto(p, "read")
    /\ UNCHANGED <<at, complete, seen, db, holder, bounds>>
-----------------------------------------------------------------------------
(* One version *)

\* Defect: the checksums of recorded steps are not compared.
CompatibleNoChecksum(p, rows) ==
    /\ versions[Def(p).version] # NoFact => versions[Def(p).version].name = Def(p).name
    /\ \A k \in DOMAIN rows : k \in Keys(Elems(Def(p).steps))

\* The recorded version has its name, every recorded step is in the manifest
\* and has its checksum.
Compatible(p, rows) ==
    /\ versions[Def(p).version] # NoFact => versions[Def(p).version].name = Def(p).name
    /\ \A k \in DOMAIN rows :
        \E x \in Elems(Def(p).steps) : x.key = k /\ x.sum = rows[k].sum

\* The SELECTs from both tables; no other session can write between them.
Read(p) ==
    /\ At(p, "read")
    /\ LET n == Def(p).version
           rows == [k \in {k \in KeysIn(n) : facts[k] # NoFact} |-> facts[k]]
           done == versions[n] # NoFact /\ versions[n].status = "SUCCEEDED"
       IN  \/ /\ ~Compatible(p, rows)
              /\ Stop(p)
           \/ /\ Compatible(p, rows)
              /\ complete' = [complete EXCEPT ![p] = done]
              /\ seen' = [seen EXCEPT ![p] = rows]
              /\ Goto(p, IF done THEN "choose" ELSE "mark")
              /\ UNCHANGED <<at, holder>>
    /\ UNCHANGED <<db, bounds>>

MarkVersion(p) ==
    /\ At(p, "mark")
    /\ Execute(p)
    /\ Goto(p, "choose")
    /\ UNCHANGED <<at, complete, seen, holder, bounds>>

NextStep(p) == at' = [at EXCEPT ![p].s = @ + 1]

\* Defect: a step recorded as FAILED is not tried again.
ChooseFailedIsFatal(p) ==
    /\ pc[p] = "choose"
    /\ \/ /\ at[p].s > Len(Def(p).steps)
          /\ Goto(p, "close")
          /\ UNCHANGED <<at, complete, seen, holder>>
       \/ /\ at[p].s <= Len(Def(p).steps)
          /\ \/ /\ Cur(p).cleanup \/ Recorded(p) = "SUCCEEDED"
                /\ NextStep(p)
                /\ UNCHANGED <<pc, complete, seen, holder>>
             \/ /\ ~Cur(p).cleanup /\ Recorded(p) = "FAILED"
                /\ Stop(p)
             \/ /\ ~Cur(p).cleanup /\ Recorded(p) \in {"none", "RUNNING"}
                /\ Goto(p, IF Recorded(p) = "none" THEN "start" ELSE "recover")
                /\ UNCHANGED <<at, complete, seen, holder>>
    /\ UNCHANGED <<db, bounds>>

\* The head of the loop over the steps; nothing is sent.
Choose(p) ==
    /\ pc[p] = "choose"
    /\ \/ /\ at[p].s > Len(Def(p).steps)
          /\ Goto(p, "close")
          /\ UNCHANGED <<at, complete, seen, holder>>
       \/ /\ at[p].s <= Len(Def(p).steps)
          /\ \/ /\ Cur(p).cleanup \/ Recorded(p) = "SUCCEEDED"
                /\ NextStep(p)
                /\ UNCHANGED <<pc, complete, seen, holder>>
             \/ /\ ~Cur(p).cleanup /\ Recorded(p) # "SUCCEEDED"
                /\ complete[p]
                /\ Stop(p)
             \/ /\ ~Cur(p).cleanup /\ Recorded(p) # "SUCCEEDED"
                /\ ~complete[p]
                /\ Goto(p, IF Recorded(p) = "none" THEN "start" ELSE "recover")
                /\ UNCHANGED <<at, complete, seen, holder>>
    /\ UNCHANGED <<db, bounds>>

\* Defect: the loop over the versions runs once too often.
CloseVersionPastEnd(p) ==
    /\ pc[p] = "close"
    /\ complete[p] \/ Alive(p)
    /\ Execute(p)
    /\ at' = [at EXCEPT ![p] = [v |-> at[p].v + 1, s |-> 1]]
    /\ Goto(p, "read")
    /\ UNCHANGED <<complete, seen, holder, bounds>>

\* The end of a version, which is only recorded if it was not complete.
CloseVersion(p) ==
    /\ pc[p] = "close"
    /\ complete[p] \/ Alive(p)
    /\ Execute(p)
    /\ IF at[p].v < Len(Manifest[p])
       THEN /\ at' = [at EXCEPT ![p] = [v |-> at[p].v + 1, s |-> 1]]
            /\ Goto(p, "read")
       ELSE /\ Goto(p, "release")
            /\ UNCHANGED at
    /\ UNCHANGED <<complete, seen, holder, bounds>>

\* RELEASE_LOCK, then the rest of the startup.
Release(p) ==
    /\ At(p, "release")
    /\ holder' = Free
    /\ Leave(p, "serving")
    /\ UNCHANGED <<db, bounds>>
-----------------------------------------------------------------------------
(* One step *)

\* Defect: a step that was begun before is executed without a look.
RecoverBlindly(p) ==
    /\ At(p, "recover")
    /\ Goto(p, "start")
    /\ UNCHANGED <<at, complete, seen, db, holder, bounds>>

\* A step that was begun before is verified first, and recorded at once if that
\* holds, which it does without an effect when all that the step does is to check.
Recover(p) ==
    /\ At(p, "recover")
    /\ Goto(p, IF Cur(p).kind = "check" \/ hits[Cur(p)] > 0 THEN "record" ELSE "start")
    /\ UNCHANGED <<at, complete, seen, db, holder, bounds>>

\* A verification that fails with an error counts as "not applied".
RecoverErrs(p) ==
    /\ At(p, "recover")
    /\ faults < MaxFaults
    /\ faults' = faults + 1
    /\ misjudged' = misjudged \cup {Cur(p)}
    /\ Goto(p, "start")
    /\ UNCHANGED <<at, complete, seen, db, holder, drifts>>

StartStep(p) ==
    /\ At(p, "start")
    /\ Execute(p)
    /\ Goto(p, IF Cur(p).kind = "check" THEN "verify" ELSE "apply")
    /\ UNCHANGED <<at, complete, seen, holder, bounds>>

\* DDL takes effect at once, DML in a transaction.
Apply(p) ==
    /\ At(p, "apply")
    /\ Execute(p)
    /\ Goto(p, "verify")
    /\ UNCHANGED <<at, complete, seen, holder, bounds>>

\* The target state is there; DML is verified in its own transaction.
Verify(p) ==
    /\ At(p, "verify")
    /\ Goto(p, IF Cur(p).kind = "dml" THEN "commit" ELSE "record")
    /\ UNCHANGED <<at, complete, seen, db, holder, bounds>>

\* Defect: the result of the commit is not looked at.
CommitFailureIgnored(p) ==
    /\ At(p, "commit")
    /\ Goto(p, "record")
    /\ UNCHANGED <<at, complete, seen, db, holder, bounds>>

Commit(p) ==
    /\ At(p, "commit")
    /\ Execute(p)
    /\ Goto(p, "record")
    /\ UNCHANGED <<at, complete, seen, holder, bounds>>

RecordStep(p) ==
    /\ At(p, "record")
    /\ Execute(p)
    /\ NextStep(p)
    /\ Goto(p, "choose")
    /\ UNCHANGED <<complete, seen, holder, bounds>>

\* Defect: the loop goes on after a failed step.
FailStepGoesOn(p) ==
    /\ At(p, "failStep")
    /\ Execute(p)
    /\ NextStep(p)
    /\ Goto(p, "choose")
    /\ UNCHANGED <<complete, seen, holder, bounds>>

FailStep(p) ==
    /\ At(p, "failStep")
    /\ Execute(p)
    /\ Goto(p, "failVersion")
    /\ UNCHANGED <<at, complete, seen, holder, bounds>>

FailVersion(p) ==
    /\ At(p, "failVersion")
    /\ Execute(p)
    /\ Stop(p)
    /\ UNCHANGED bounds
-----------------------------------------------------------------------------
(* Faults *)

Fault == faults < MaxFaults /\ faults' = faults + 1 /\ UNCHANGED <<misjudged, drifts>>

\* A statement fails and changes nothing: execution and verification of a
\* step end it as FAILED (DML is rolled back), any other ends the run.
StatementFails(p) ==
    /\ Sends(p) /\ pc[p] \notin {"recover", "commit"}
    /\ Alive(p)
    /\ Fault
    /\ IF pc[p] \in {"apply", "verify"}
       THEN Goto(p, "failStep") /\ UNCHANGED <<at, complete, seen, holder>>
       ELSE Stop(p)
    /\ UNCHANGED db

\* The process dies, or loses its connection and gives up; the statement in
\* flight, GET_LOCK too, is executed or not.  A COMMIT without an answer ends
\* like this.
Dies(p) ==
    /\ pc[p] # "down"
    /\ Fault
    /\ Leave(p, "down")
    /\ \/ Alive(p) /\ Execute(p)
       \/ UNCHANGED db
    /\ holder' \in IF Alive(p) THEN {Ghost}
                  ELSE IF pc[p] = "lock" /\ holder = Free THEN {Free, Ghost}
                  ELSE {holder}

\* The server ends the session of a process that still runs ...
SessionEnds(p) ==
    /\ holder = p
    /\ Fault
    /\ holder' = Free
    /\ UNCHANGED <<local, db>>

\* ... whose next statement fails.
FindsSessionGone(p) ==
    /\ Sends(p)
    /\ ~Alive(p)
    /\ Stop(p)
    /\ UNCHANGED <<db, bounds>>

\* The server ends a session that lost its client.
GhostEnds ==
    /\ holder = Ghost
    /\ holder' = Free
    /\ UNCHANGED <<local, db, bounds>>

\* Somebody removes what a step created, while no process migrates.
Drift ==
    /\ drifts < MaxDrifts
    /\ drifts' = drifts + 1
    /\ \A p \in Procs : pc[p] \in {"down", "serving"}
    /\ holder = Free
    /\ \E x \in Steps : hits[x] > 0 /\ hits' = [hits EXCEPT ![x] = 0]
    /\ UNCHANGED <<local, versions, facts, holder, misjudged, faults>>
-----------------------------------------------------------------------------
Progress(p) ==
    \/ Bootstrap(p) \/ Read(p) \/ MarkVersion(p) \/ Choose(p) \/ CloseVersion(p)
    \/ Release(p) \/ Recover(p) \/ StartStep(p) \/ Apply(p) \/ Verify(p) \/ Commit(p)
    \/ RecordStep(p) \/ FailStep(p) \/ FailVersion(p) \/ FindsSessionGone(p)

Faulty(p) == RecoverErrs(p) \/ StatementFails(p) \/ Dies(p) \/ SessionEnds(p)

Next ==
    \/ \E p \in Procs : Start(p) \/ GetLock(p) \/ LockTimesOut(p) \/ Progress(p) \/ Faulty(p)
    \/ GhostEnds
    \/ Drift

Spec == Init /\ [][Next]_vars

\* A process that failed to start is started again, statements return (the
\* connection has timeouts), and the server ends dead sessions.  The lock may
\* be missed any number of times, but not forever.
Fairness ==
    /\ \A p \in Procs :
        /\ WF_vars(Start(p))
        /\ SF_vars(GetLock(p))
        /\ WF_vars(Progress(p))
    /\ WF_vars(GhostEnds)

FairSpec == Spec /\ Fairness
-----------------------------------------------------------------------------
Succeeded(r) == r # NoFact /\ r.status = "SUCCEEDED"
RequiredIn(d) == {x \in Elems(d.steps) : ~x.cleanup}
Required(p) == {x \in StepsOf(Manifest[p]) : ~x.cleanup}

\* Every variable has its type.
TypeOK ==
    /\ pc \in [Procs -> PC]
    /\ at \in [Procs -> [v : Nat, s : Nat]]
    /\ \A p \in Procs :
        /\ at[p].v \in DOMAIN Manifest[p]
        /\ at[p].s \in 1..Len(Def(p).steps) + 1
        /\ pc[p] \in {"recover", "start", "apply", "verify", "commit", "record", "failStep"}
            => at[p].s <= Len(Def(p).steps)
    /\ complete \in [Procs -> BOOLEAN]
    /\ versions \in [Versions -> VersionRows \cup {NoFact}]
    /\ facts \in [AllKeys -> StepRows \cup {NoFact}]
    /\ hits \in [Steps -> 0..MaxFaults + 1]
    /\ holder \in Procs \cup {Free, Ghost}
    /\ misjudged \subseteq Steps
    /\ faults \in 0..MaxFaults /\ drifts \in 0..MaxDrifts

\* The control tables never claim more than was done: a step recorded as
\* SUCCEEDED has had its effect, and a version recorded as SUCCEEDED has all
\* its required steps recorded as SUCCEEDED.
FactsAreTrue ==
    /\ \A x \in Steps : x.kind # "check" /\ Succeeded(facts[x.key])
                            /\ facts[x.key].sum = x.sum => hits[x] > 0
    /\ \A d \in Defs : Succeeded(versions[d.version]) /\ versions[d.version].name = d.name
                            => \A x \in RequiredIn(d) : Succeeded(facts[x.key])

\* Whatever fails and however often processes restart, the effect of a step
\* is produced once, unless the query that verified it during recovery erred.
AppliedOnce == \A x \in Steps \ misjudged : hits[x] <= 1

\* What a build requires: for each of its steps, those that come before it.
Before(p, x) ==
    {y \in Required(p) :
        \E i, j \in DOMAIN Manifest[p] :
            /\ y \in Elems(Manifest[p][i].steps) /\ x \in Elems(Manifest[p][j].steps)
            /\ \/ i < j
               \/ i = j /\ \E m, n \in DOMAIN Manifest[p][i].steps :
                    Manifest[p][i].steps[m] = y /\ Manifest[p][i].steps[n] = x /\ m < n}
PlanOf(p) == [x \in Required(p) |-> Before(p, x)]

\* Whatever fails, the database goes through the steps in order: none takes effect
\* before those its build wants earlier are recorded, none is recorded before
\* it took effect, and a build serves only at the end of its plan.
History == INSTANCE SchemaHistory WITH
    Builds <- Procs,
    Plan <- [p \in Procs |-> PlanOf(p)],
    Changes <- {x \in Steps : x.kind # "check"},
    effects <- {x \in Steps : hits[x] > 0},
    recorded <- {x \in Steps : Succeeded(facts[x.key]) /\ facts[x.key].sum = x.sum},
    serving <- {p \in Procs : pc[p] = "serving"}

ImplementsHistory == History!Spec

\* Success is final: no process, however stale what it read, takes it back.
SuccessIsFinal ==
    [][/\ \A k \in AllKeys : Succeeded(facts[k]) => facts'[k] = facts[k]
       /\ \A n \in Versions : Succeeded(versions[n]) => versions'[n] = versions[n]]_vars

\* A process serves only on a database with the effect and the record of
\* every required step of its own build.
ServingIsMigrated ==
    \A p \in Procs : pc[p] = "serving" =>
        \A x \in Required(p) :
            /\ Succeeded(facts[x.key]) /\ facts[x.key].sum = x.sum
            /\ x.kind # "check" => hits[x] > 0

\* Two builds that disagree on a step never both execute it.
NoForeignEffects ==
    \A x, y \in Steps : x.key = y.key /\ hits[x] > 0 /\ hits[y] > 0 => x = y

\* Builds of one lineage all end up serving, whatever failed on the way.
EveryBuildServes == \A p \in Procs : <>[](pc[p] = "serving")

\* A recorded step that is gone from the manifest keeps a process from starting.
DeletedStepRefused ==
    \A p \in Procs : At(p, "release") =>
        \A k \in AllKeys : facts[k] # NoFact => k \in Keys(StepsOf(Manifest[p]))
=============================================================================
