----------------------------- MODULE MigrationProofs -----------------------------
(***************************************************************************)
(* Theorems about Migration, for any processes with any manifests that     *)
(* discoverMigrations accepts, any number of faults and of changes by hand.*)
(***************************************************************************)
EXTENDS Migration, TLAPS

\* What the manifests are, position by position.
LEMMA Shape ==
    /\ \A p \in Procs : /\ Len(Manifest[p]) \in Nat \ {0}
                        /\ DOMAIN Manifest[p] = 1..Len(Manifest[p])
                        /\ \A v \in DOMAIN Manifest[p] : Manifest[p][v] \in Defs
    /\ \A d \in Defs : /\ Len(d.steps) \in Nat \ {0}
                       /\ DOMAIN d.steps = 1..Len(d.steps)
                       /\ \A i \in DOMAIN d.steps : d.steps[i] \in Elems(d.steps)
                       /\ d.version \in Versions
                       /\ Elems(d.steps) \subseteq Steps
                       /\ Keys(Elems(d.steps)) \subseteq KeysIn(d.version)
                       /\ KeysIn(d.version) \subseteq AllKeys
    /\ \A x \in Steps : x.key \in AllKeys /\ x.kind \in {"check", "ddl", "dml"} /\ x.cleanup \in BOOLEAN
<1>1. ASSUME NEW p \in Procs
      PROVE  /\ Len(Manifest[p]) \in Nat \ {0}
             /\ DOMAIN Manifest[p] = 1..Len(Manifest[p])
             /\ \A v \in DOMAIN Manifest[p] : Manifest[p][v] \in Defs
  BY MigrationAssumption
<1>2. ASSUME NEW d \in Defs
      PROVE  /\ Len(d.steps) \in Nat \ {0}
             /\ DOMAIN d.steps = 1..Len(d.steps)
             /\ \A i \in DOMAIN d.steps : d.steps[i] \in Elems(d.steps)
  BY MigrationAssumption DEF Elems
<1>3. ASSUME NEW d \in Defs
      PROVE  Elems(d.steps) \subseteq Steps
  BY DEF Steps, StepsOf, Defs
<1>4. ASSUME NEW d \in Defs
      PROVE  /\ d.version \in Versions
             /\ Keys(Elems(d.steps)) \subseteq KeysIn(d.version)
  BY DEF Versions, Keys, KeysIn
<1>5. ASSUME NEW n
      PROVE  KeysIn(n) \subseteq AllKeys
  BY <1>3 DEF KeysIn, Keys, AllKeys
<1>6. \A x \in Steps : x.key \in AllKeys /\ x.kind \in {"check", "ddl", "dml"} /\ x.cleanup \in BOOLEAN
  BY MigrationAssumption DEF AllKeys, Keys
<1>7. QED BY <1>1, <1>2, <1>3, <1>4, <1>5, <1>6

\* Versions have no step in common, and a record belongs to one step.
LEMMA Apart ==
    /\ \A d, e \in Defs : d.version # e.version => KeysIn(d.version) \cap Keys(Elems(e.steps)) = {}
    /\ \A x, y \in Steps : x.key = y.key /\ x.sum = y.sum => x = y
    /\ \A d \in Defs : \A i, j \in DOMAIN d.steps : d.steps[i].key = d.steps[j].key => i = j
<1>1. ASSUME NEW d \in Defs, NEW e \in Defs, d.version # e.version
      PROVE  KeysIn(d.version) \cap Keys(Elems(e.steps)) = {}
  <2>1. ASSUME NEW c \in Defs, c.version = d.version
        PROVE  Keys(Elems(c.steps)) \cap Keys(Elems(e.steps)) = {}
    BY <1>1, <2>1, MigrationAssumption
  <2>2. QED BY <2>1 DEF KeysIn, Keys
<1>2. QED BY <1>1, MigrationAssumption

\* The records of the control tables.
LEMMA Rows ==
    /\ NoFact \notin VersionRows \cup StepRows
    /\ \A d \in Defs, st \in Status : [name |-> d.name, status |-> st] \in VersionRows
    /\ \A x \in Steps, st \in Status : [sum |-> x.sum, status |-> st] \in StepRows
    /\ \A r \in StepRows, st \in Status : [sum |-> r.sum, status |-> st] \in StepRows
BY MigrationAssumption DEF VersionRows, StepRows

-----------------------------------------------------------------------------

\* The steps of one process.
Moves(p) == Start(p) \/ GetLock(p) \/ LockTimesOut(p) \/ Progress(p) \/ Faulty(p)

InStep == {"recover", "start", "apply", "verify", "commit", "record", "failStep"}
InVersion == InStep \cup {"mark", "choose", "failVersion", "close"}

\* TypeOK, without the bound of hits.
Typed ==
    /\ pc \in [Procs -> PC]
    /\ at \in [Procs -> [v : Nat, s : Nat]]
    /\ \A p \in Procs :
        /\ at[p].v \in DOMAIN Manifest[p]
        /\ at[p].s \in 1..Len(Def(p).steps) + 1
        /\ pc[p] \in InStep => at[p].s <= Len(Def(p).steps)
    /\ complete \in [Procs -> BOOLEAN]
    /\ DOMAIN seen = Procs
    /\ versions \in [Versions -> VersionRows \cup {NoFact}]
    /\ facts \in [AllKeys -> StepRows \cup {NoFact}]
    /\ hits \in [Steps -> Nat]
    /\ holder \in Procs \cup {Free, Ghost}
    /\ misjudged \subseteq Steps
    /\ faults \in 0..MaxFaults /\ drifts \in 0..MaxDrifts

\* Where the loops are, and what a process knows by being there.
Places ==
    \A p \in Procs :
        /\ pc[p] \in Waiting \cup {"boot"} => at[p].v = 1
        /\ pc[p] \in Waiting \cup {"boot", "read", "mark"} => at[p].s = 1
        /\ pc[p] = "close" => at[p].s = Len(Def(p).steps) + 1
        /\ pc[p] = "release" => at[p].v = Len(Manifest[p])
        /\ pc[p] \in InStep => ~Cur(p).cleanup
        /\ pc[p] \in InStep \cup {"mark", "failVersion"} => ~complete[p]
        /\ pc[p] = "recover" => Cur(p).key \in DOMAIN seen[p]
        /\ holder = p => pc[p] \notin Waiting

\* Where a process is in its manifest.
LEMMA Here ==
    ASSUME Typed, NEW p \in Procs
    PROVE  /\ Def(p) \in Defs
           /\ pc[p] \in InStep => /\ at[p].s \in DOMAIN Def(p).steps
                                  /\ Cur(p) \in Elems(Def(p).steps) /\ Cur(p) \in Steps
                                  /\ Cur(p).key \in KeysIn(Def(p).version)
                                  /\ Cur(p).key \in AllKeys
<1>1. Def(p) \in Defs
  BY Shape DEF Typed, Def
<1>2. ASSUME pc[p] \in InStep
      PROVE  at[p].s \in DOMAIN Def(p).steps /\ Cur(p) \in Elems(Def(p).steps)
  BY <1>1, <1>2, Shape DEF Typed, Cur
<1>3. QED BY <1>1, <1>2, Shape DEF Keys

\* What a statement does to the database.
Notes(p) == \E st \in Status : SetVersion(p, st) /\ (st = "SUCCEEDED" => pc[p] = "close")
Tells(p) == \E st \in Status : SetFact(p, st) /\ (st = "SUCCEEDED" => pc[p] = "record")
Hits(p) == pc[p] = "commit" \/ (pc[p] = "apply" /\ Cur(p).kind = "ddl")

LEMMA Executes ==
    ASSUME NEW p, Execute(p)
    PROVE  /\ pc[p] \in {"mark", "failVersion"} \/ (pc[p] = "close" /\ ~complete[p]) => Notes(p)
           /\ pc[p] \in {"start", "record", "failStep"} => Tells(p)
           /\ Hits(p) => Hit(p)
           /\ \/ UNCHANGED db
              \/ pc[p] \in {"mark", "failVersion"} \/ (pc[p] = "close" /\ ~complete[p])
              \/ pc[p] \in {"start", "record", "failStep"}
              \/ Hits(p)
<1>1. pc[p] = "mark" => SetVersion(p, "RUNNING")
  BY DEF Execute
<1>2. pc[p] = "failVersion" => SetVersion(p, "FAILED")
  BY DEF Execute
<1>3. pc[p] = "close" /\ ~complete[p] => SetVersion(p, "SUCCEEDED")
  BY DEF Execute
<1>4. pc[p] = "start" => SetFact(p, "RUNNING")
  BY DEF Execute
<1>5. pc[p] = "record" => SetFact(p, "SUCCEEDED")
  BY DEF Execute
<1>6. pc[p] = "failStep" => SetFact(p, "FAILED")
  BY DEF Execute
<1>7. Hits(p) => Hit(p)
  BY DEF Execute, Hits
<1>8. \/ UNCHANGED db
      \/ pc[p] \in {"mark", "failVersion"} \/ (pc[p] = "close" /\ ~complete[p])
      \/ pc[p] \in {"start", "record", "failStep"}
      \/ Hits(p)
  BY DEF Execute, Hits
<1>9. QED BY <1>1, <1>2, <1>3, <1>4, <1>5, <1>6, <1>7, <1>8 DEF Notes, Tells, Status

\* What each action of a process does to the database.
Touches(p) ==
    \/ UNCHANGED db
    \/ /\ holder = p /\ pc[p] \in InVersion
       /\ \/ pc[p] \in {"mark", "failVersion", "close"} /\ ~complete[p] /\ Notes(p)
          \/ pc[p] \in {"start", "record", "failStep"} /\ Tells(p)
          \/ Hits(p) /\ Hit(p)

LEMMA ExecutesTouches ==
    ASSUME Typed, Places, NEW p \in Procs, holder = p, Execute(p)
    PROVE  Touches(p)
<1>1. pc[p] \in {"mark", "failVersion"} => ~complete[p]
  BY DEF Places
<1>2. QED BY <1>1, Executes DEF Touches, InVersion, InStep, Hits

LEMMA MovesTouch ==
    ASSUME Typed, Places, NEW p \in Procs, Moves(p)
    PROVE  Touches(p)
<1>1. CASE Start(p) \/ GetLock(p) \/ LockTimesOut(p) \/ Bootstrap(p) \/ Read(p) \/ Choose(p)
           \/ Release(p) \/ Recover(p) \/ Verify(p) \/ FindsSessionGone(p) \/ RecoverErrs(p)
           \/ StatementFails(p) \/ SessionEnds(p)
  BY <1>1 DEF Start, GetLock, LockTimesOut, Bootstrap, Read, Choose, Release, Recover, Verify,
              FindsSessionGone, RecoverErrs, StatementFails, SessionEnds, Touches
<1>2. CASE MarkVersion(p) \/ StartStep(p) \/ Apply(p) \/ Commit(p) \/ RecordStep(p)
           \/ FailStep(p) \/ FailVersion(p)
  BY <1>2, ExecutesTouches DEF MarkVersion, StartStep, Apply, Commit, RecordStep, FailStep, FailVersion,
              At, Alive
<1>3. CASE CloseVersion(p)
  <2>1. CASE holder = p
    BY <1>3, <2>1, ExecutesTouches DEF CloseVersion
  <2>2. CASE complete[p]
    BY <1>3, <2>2, Executes DEF CloseVersion, Touches, Hits
  <2>3. QED BY <1>3, <2>1, <2>2 DEF CloseVersion, Alive
<1>4. CASE Dies(p)
  BY <1>4, ExecutesTouches DEF Dies, Alive, Touches
<1>5. QED BY <1>1, <1>2, <1>3, <1>4 DEF Moves, Progress, Faulty

\* A change keeps the tables well formed.
LEMMA TouchesTyped ==
    ASSUME Typed, NEW p \in Procs, Touches(p)
    PROVE  /\ versions' \in [Versions -> VersionRows \cup {NoFact}]
           /\ facts' \in [AllKeys -> StepRows \cup {NoFact}]
           /\ hits' \in [Steps -> Nat]
<1>1. CASE UNCHANGED db
  BY <1>1 DEF db, Typed
<1>2. CASE Notes(p)
  <2>1. PICK st \in Status : SetVersion(p, st)
    BY <1>2 DEF Notes
  <2>2. [name |-> Def(p).name, status |-> st] \in VersionRows
    BY Here, Rows
  <2>3. QED BY <2>1, <2>2 DEF SetVersion, Typed
<1>3. CASE pc[p] \in InStep /\ Tells(p)
  <2>1. PICK st \in Status : SetFact(p, st)
    BY <1>3 DEF Tells
  <2>2. \A r \in StepRows \cup {NoFact} :
            [sum |-> IF r = NoFact THEN Cur(p).sum ELSE r.sum, status |-> st] \in StepRows
    BY <1>3, Here, Rows
  <2>3. facts[Cur(p).key] \in StepRows \cup {NoFact}
    BY <1>3, Here DEF Typed
  <2>4. QED BY <2>1, <2>2, <2>3 DEF SetFact, Typed
<1>4. CASE pc[p] \in InStep /\ Hit(p)
  BY <1>4, Here DEF Hit, Typed
<1>5. QED BY <1>1, <1>2, <1>3, <1>4 DEF Touches, InStep, Hits

\* A step of one process leaves where the others are alone.
OnlyMoves(p) ==
    /\ pc' \in [Procs -> PC] /\ complete' \in [Procs -> BOOLEAN]
    /\ at' \in [Procs -> [v : Nat, s : Nat]]
    /\ DOMAIN seen' = Procs
    /\ \A q \in Procs \ {p} : /\ pc'[q] = pc[q] /\ at'[q] = at[q]
                              /\ complete'[q] = complete[q] /\ seen'[q] = seen[q]

LEMMA OthersStay ==
    ASSUME Typed, NEW p \in Procs, Moves(p)
    PROVE  OnlyMoves(p)
<1>1. /\ pc \in [Procs -> PC] /\ complete \in [Procs -> BOOLEAN]
      /\ at \in [Procs -> [v : Nat, s : Nat]]
      /\ DOMAIN seen = Procs
  BY DEF Typed
<1>2. ASSUME NEW l \in PC, Goto(p, l), UNCHANGED <<at, complete, seen>>
      PROVE  OnlyMoves(p)
  BY <1>1, <1>2 DEF OnlyMoves, Goto
<1>3. ASSUME NEW l \in PC, Leave(p, l)
      PROVE  OnlyMoves(p)
  BY <1>1, <1>3 DEF OnlyMoves, Leave, Goto
<1>4. ASSUME Stop(p)
      PROVE  OnlyMoves(p)
  BY <1>3, <1>4 DEF Stop, PC, Waiting
<1>5. {"down", "lock", "boot", "read", "record", "start", "verify", "apply", "commit", "choose",
       "failStep", "failVersion", "serving", "recover", "mark", "close", "release"} \subseteq PC
  BY DEF PC, Waiting, Statement
<1>6. CASE Start(p) \/ GetLock(p) \/ LockTimesOut(p) \/ Bootstrap(p) \/ Recover(p) \/ Verify(p)
           \/ RecoverErrs(p) \/ MarkVersion(p) \/ StartStep(p) \/ Apply(p) \/ Commit(p) \/ FailStep(p)
  BY <1>2, <1>5, <1>6 DEF Start, GetLock, LockTimesOut, Bootstrap, Recover, Verify, RecoverErrs,
              MarkVersion, StartStep, Apply, Commit, FailStep
<1>7. CASE FindsSessionGone(p) \/ FailVersion(p) \/ Release(p) \/ Dies(p) \/ StatementFails(p)
  BY <1>2, <1>3, <1>4, <1>5, <1>7 DEF FindsSessionGone, FailVersion, Release, Dies, StatementFails
<1>8. CASE SessionEnds(p)
  BY <1>1, <1>8 DEF SessionEnds, local, OnlyMoves
<1>9. CASE Read(p)
  <2>1. CASE Stop(p)
    BY <2>1, <1>4
  <2>2. CASE ~Stop(p)
    <3>1. /\ \E b \in BOOLEAN : complete' = [complete EXCEPT ![p] = b]
          /\ \E rows : seen' = [seen EXCEPT ![p] = rows]
          /\ \E l \in {"choose", "mark"} : pc' = [pc EXCEPT ![p] = l]
          /\ at' = at
      BY <1>9, <2>2 DEF Read, Goto
    <3>2. QED BY <1>1, <1>5, <3>1 DEF OnlyMoves
  <2>3. QED BY <2>1, <2>2
<1>10. CASE Choose(p) \/ RecordStep(p)
  <2>1. ASSUME NEW l \in PC, pc' = [pc EXCEPT ![p] = l], NextStep(p), UNCHANGED <<complete, seen>>
        PROVE  OnlyMoves(p)
    BY <1>1, <2>1 DEF OnlyMoves, NextStep
  <2>2. ASSUME NextStep(p), UNCHANGED <<pc, complete, seen>>
        PROVE  OnlyMoves(p)
    BY <1>1, <2>2 DEF OnlyMoves, NextStep
  <2>3. QED BY <1>2, <1>4, <1>5, <1>10, <2>1, <2>2 DEF Choose, RecordStep, Goto
<1>11. CASE CloseVersion(p)
  <2>1. /\ at' = at \/ at' = [at EXCEPT ![p] = [v |-> at[p].v + 1, s |-> 1]]
        /\ \E l \in {"read", "release"} : pc' = [pc EXCEPT ![p] = l]
        /\ UNCHANGED <<complete, seen>>
    BY <1>11 DEF CloseVersion, Goto
  <2>2. at' \in [Procs -> [v : Nat, s : Nat]] /\ \A q \in Procs \ {p} : at'[q] = at[q]
    <3>1. at[p].v \in Nat
      BY <1>1
    <3>2. [v |-> at[p].v + 1, s |-> 1] \in [v : Nat, s : Nat]
      BY <3>1
    <3>3. ASSUME NEW r \in [v : Nat, s : Nat], at' = [at EXCEPT ![p] = r]
          PROVE  at' \in [Procs -> [v : Nat, s : Nat]] /\ \A q \in Procs \ {p} : at'[q] = at[q]
      BY <1>1, <3>3
    <3>4. CASE at' = at
      BY <1>1, <3>4
    <3>5. QED BY <2>1, <3>2, <3>3, <3>4
  <2>3. PICK l \in PC : pc' = [pc EXCEPT ![p] = l]
    BY <1>5, <2>1
  <2>4. pc' \in [Procs -> PC] /\ \A q \in Procs \ {p} : pc'[q] = pc[q]
    BY <1>1, <2>3
  <2>5. QED BY <1>1, <2>1, <2>2, <2>4 DEF OnlyMoves
<1>12. QED BY <1>6, <1>7, <1>8, <1>9, <1>10, <1>11 DEF Moves, Progress, Faulty

\* Nobody takes the session of another, and only its owner writes.
LEMMA OthersHolder ==
    ASSUME Typed, Places, NEW p \in Procs, Moves(p)
    PROVE  /\ holder' \in Procs \cup {Free, Ghost}
           /\ holder' # holder => holder' \in {p, Free, Ghost}
           /\ holder' = p /\ holder # p => GetLock(p)
           /\ misjudged \subseteq misjudged' /\ misjudged' \subseteq Steps
           /\ faults' \in 0..MaxFaults /\ faults <= faults' /\ faults' <= faults + 1
           /\ drifts' = drifts
<1> USE MigrationAssumption DEF Typed
<1>1. CASE Start(p) \/ GetLock(p) \/ LockTimesOut(p) \/ Bootstrap(p) \/ Recover(p) \/ Verify(p)
           \/ MarkVersion(p) \/ StartStep(p) \/ Apply(p) \/ Commit(p) \/ FailStep(p)
           \/ SessionEnds(p)
  BY <1>1 DEF Start, GetLock, LockTimesOut, Bootstrap, Recover, Verify, MarkVersion,
              StartStep, Apply, Commit, FailStep, SessionEnds, bounds, Fault
<1>2. CASE FindsSessionGone(p) \/ FailVersion(p) \/ Release(p) \/ Dies(p) \/ StatementFails(p)
  BY <1>2 DEF FindsSessionGone, FailVersion, Release, Dies, StatementFails, Stop, bounds, Fault, Alive
<1>3. CASE Read(p) \/ Choose(p) \/ RecordStep(p) \/ CloseVersion(p)
  BY <1>3 DEF Read, Choose, RecordStep, CloseVersion, Stop, bounds, Alive
<1>4. CASE RecoverErrs(p)
  BY <1>4, Here DEF RecoverErrs, At, InStep
<1>5. QED BY <1>1, <1>2, <1>3, <1>4 DEF Moves, Progress, Faulty

\* Typed and Places, of one process.
Placed(p) ==
    /\ at[p].v \in DOMAIN Manifest[p]
    /\ at[p].s \in 1..Len(Def(p).steps) + 1
    /\ pc[p] \in InStep => at[p].s <= Len(Def(p).steps)
    /\ pc[p] \in Waiting \cup {"boot"} => at[p].v = 1
    /\ pc[p] \in Waiting \cup {"boot", "read", "mark"} => at[p].s = 1
    /\ pc[p] = "close" => at[p].s = Len(Def(p).steps) + 1
    /\ pc[p] = "release" => at[p].v = Len(Manifest[p])
    /\ pc[p] \in InStep => ~Cur(p).cleanup
    /\ pc[p] \in InStep \cup {"mark", "failVersion"} => ~complete[p]
    /\ pc[p] = "recover" => Cur(p).key \in DOMAIN seen[p]
    /\ holder = p => pc[p] \notin Waiting

\* What the run of a process ends with.
LEMMA LeavePlaced ==
    ASSUME Typed, NEW p \in Procs, NEW l \in Waiting, Leave(p, l), holder' # p
    PROVE  Placed(p)'
<1>1. pc'[p] = l /\ at'[p] = [v |-> 1, s |-> 1]
  BY DEF Typed, Leave, Goto
<1>2. at'[p].v = 1 /\ at'[p].s = 1 /\ 1 \in DOMAIN Manifest[p]
  BY <1>1, Shape
<1>3. 1 \in 1..Len(Manifest[p][1].steps) + 1
  BY <1>2, Shape
<1>4. l \notin InStep \cup {"mark", "failVersion", "boot", "read", "close", "release", "recover"}
  BY DEF Waiting, InStep
<1>5. QED BY <1>1, <1>2, <1>3, <1>4 DEF Placed, Def, InStep

LEMMA StopPlaced ==
    ASSUME Typed, NEW p \in Procs, Stop(p)
    PROVE  Placed(p)'
<1>1. holder' # p
  BY MigrationAssumption DEF Stop, Alive
<1>2. QED BY <1>1, LeavePlaced DEF Stop, Waiting

\* A step that leaves the loops where they are.
LEMMA GotoPlaced ==
    ASSUME NEW p \in Procs, Typed, Placed(p), NEW l, Goto(p, l), UNCHANGED <<at, complete, seen>>,
           l \notin {"close", "release"},
           l \in Waiting \cup {"boot"} => pc[p] \in Waiting \cup {"boot"},
           l \in {"read", "mark"} => pc[p] \in {"boot", "read"},
           l \in InStep => pc[p] \in InStep,
           l \in InStep \cup {"failVersion"} => pc[p] \in InStep,
           l \notin {"mark", "recover"},
           holder' = p => l \notin Waiting
    PROVE  Placed(p)'
<1>1. pc'[p] = l /\ at'[p] = at[p] /\ complete'[p] = complete[p] /\ seen'[p] = seen[p]
  BY DEF Typed, Goto
<1>2. QED BY <1>1 DEF Placed, Def, Cur

\* The step at hand is not one that is skipped, and the version is not complete.
LEMMA ChoosePlaced ==
    ASSUME NEW p \in Procs, Typed, Placed(p), Choose(p)
    PROVE  Placed(p)'
<1>1. /\ pc[p] = "choose"
      /\ at[p].v \in DOMAIN Manifest[p] /\ at[p].s \in 1..Len(Def(p).steps) + 1
      /\ Len(Def(p).steps) \in Nat /\ at[p] \in [v : Nat, s : Nat] /\ at \in [Procs -> [v : Nat, s : Nat]]
      /\ pc \in [Procs -> PC]
  BY Here, Shape DEF Choose, Placed, Typed
<1>2. CASE Stop(p)
  BY <1>2, StopPlaced
<1>3. CASE at[p].s > Len(Def(p).steps) /\ Goto(p, "close") /\ UNCHANGED <<at, complete, seen, holder>>
  <2>1. pc'[p] = "close" /\ at' = at /\ at[p].s = Len(Def(p).steps) + 1
    BY <1>1, <1>3 DEF Goto
  <2>2. QED BY <1>1, <2>1 DEF Placed, Def, InStep, Waiting
<1>4. CASE at[p].s <= Len(Def(p).steps) /\ NextStep(p) /\ UNCHANGED <<pc, complete, seen, holder>>
  <2>1. /\ pc'[p] = "choose" /\ at'[p].v = at[p].v
        /\ at'[p].s \in 1..Len(Def(p).steps) + 1
    <3>1. at'[p] = [at[p] EXCEPT !.s = at[p].s + 1] /\ pc' = pc
      BY <1>1, <1>4 DEF NextStep
    <3>2. at'[p].v = at[p].v /\ at'[p].s = at[p].s + 1
      BY <1>1, <3>1
    <3>3. QED BY <1>1, <1>4, <3>1, <3>2
  <2>2. QED BY <1>1, <2>1 DEF Placed, Def, InStep, Waiting
<1>5. CASE /\ at[p].s <= Len(Def(p).steps) /\ ~Cur(p).cleanup /\ Recorded(p) # "SUCCEEDED"
           /\ ~complete[p]
           /\ Goto(p, IF Recorded(p) = "none" THEN "start" ELSE "recover")
           /\ UNCHANGED <<at, complete, seen, holder>>
  <2>1. pc'[p] = (IF Recorded(p) = "none" THEN "start" ELSE "recover")
    BY <1>1, <1>5 DEF Goto
  <2>2. pc'[p] = "recover" => Cur(p).key \in DOMAIN seen[p]
    BY <2>1 DEF Recorded
  <2>3. UNCHANGED <<Def(p), Cur(p)>>
    BY <1>5 DEF Def, Cur
  <2>4. QED BY <1>1, <1>5, <2>1, <2>2, <2>3 DEF Placed, InStep, Waiting
<1>6. QED BY <1>2, <1>3, <1>4, <1>5 DEF Choose

LEMMA ClosePlaced ==
    ASSUME NEW p \in Procs, Typed, Placed(p), CloseVersion(p)
    PROVE  Placed(p)'
<1>1. /\ at[p].v \in Nat /\ at[p].v \in 1..Len(Manifest[p]) /\ DOMAIN Manifest[p] = 1..Len(Manifest[p])
      /\ at \in [Procs -> [v : Nat, s : Nat]] /\ pc \in [Procs -> PC]
      /\ at[p].s \in 1..Len(Def(p).steps) + 1
      /\ Len(Manifest[p]) \in Nat
  BY Shape DEF Placed, Typed
<1>2. CASE /\ at[p].v < Len(Manifest[p])
           /\ at' = [at EXCEPT ![p] = [v |-> at[p].v + 1, s |-> 1]]
           /\ Goto(p, "read")
  <2>1. pc'[p] = "read" /\ at'[p].v = at[p].v + 1 /\ at'[p].s = 1
    BY <1>1, <1>2 DEF Goto
  <2>2. at[p].v + 1 \in DOMAIN Manifest[p]
    BY <1>1, <1>2
  <2>3. 1 \in 1..Len(Manifest[p][at[p].v + 1].steps) + 1
    BY <2>2, Shape
  <2>4. QED BY <2>1, <2>2, <2>3 DEF Placed, Def, InStep, Waiting
<1>3. CASE ~(at[p].v < Len(Manifest[p])) /\ Goto(p, "release") /\ UNCHANGED at
  <2>1. pc'[p] = "release" /\ at[p].v = Len(Manifest[p]) /\ UNCHANGED Def(p)
    BY <1>1, <1>3 DEF Goto, Def
  <2>2. QED BY <1>1, <1>3, <2>1 DEF Placed, InStep, Waiting
<1>4. QED BY <1>2, <1>3 DEF CloseVersion

LEMMA MovesPlaced ==
    ASSUME NEW p \in Procs, Typed, Placed(p), Moves(p)
    PROVE  Placed(p)'
<1> USE DEF Waiting, InStep
<1>1. CASE Start(p) \/ GetLock(p) \/ LockTimesOut(p) \/ Bootstrap(p)
  <2>1. pc[p] \in Waiting => holder # p
    BY DEF Placed
  <2>2. QED BY <1>1, <2>1, GotoPlaced DEF Start, GetLock, LockTimesOut, Bootstrap, At, Alive
<1>2. CASE Recover(p) \/ RecoverErrs(p) \/ StartStep(p) \/ Apply(p) \/ Verify(p) \/ Commit(p) \/ FailStep(p)
           \/ MarkVersion(p)
  BY <1>2, GotoPlaced DEF Recover, RecoverErrs, StartStep, Apply, Verify, Commit, FailStep, MarkVersion,
                          At, Alive
<1>3. CASE FailVersion(p) \/ FindsSessionGone(p)
  BY <1>3, StopPlaced DEF FailVersion, FindsSessionGone
<1>4. CASE StatementFails(p)
  BY <1>4, StopPlaced, GotoPlaced DEF StatementFails
<1>5. CASE Release(p)
  BY <1>5, LeavePlaced, MigrationAssumption DEF Release
<1>6. CASE Dies(p)
  <2>1. holder' # p
    BY <1>6, MigrationAssumption DEF Dies, Alive
  <2>2. QED BY <1>6, <2>1, LeavePlaced DEF Dies
<1>7. CASE SessionEnds(p)
  BY <1>7, MigrationAssumption DEF SessionEnds, local, Placed, Def, Cur
<1>8. CASE Read(p)
  <2>1. CASE Stop(p)
    BY <2>1, StopPlaced
  <2>2. CASE /\ complete' = [complete EXCEPT ![p] = FALSE] /\ pc[p] = "read"
             /\ Goto(p, "mark") /\ UNCHANGED at
    <3>1. pc'[p] = "mark" /\ ~complete'[p] /\ at' = at /\ UNCHANGED Def(p)
      BY <2>2 DEF Goto, Typed, Def
    <3>2. QED BY <2>2, <3>1 DEF Placed
  <2>3. CASE pc[p] = "read" /\ Goto(p, "choose") /\ UNCHANGED at
    <3>1. pc'[p] = "choose" /\ at' = at /\ UNCHANGED Def(p)
      BY <2>3 DEF Goto, Typed, Def
    <3>2. QED BY <2>3, <3>1 DEF Placed
  <2>4. QED BY <1>8, <2>1, <2>2, <2>3 DEF Read, At
<1>9. CASE RecordStep(p)
  <2>1. /\ pc[p] = "record" /\ at[p].s \in 1..Len(Def(p).steps) /\ at[p].s \in Nat
        /\ Len(Def(p).steps) \in Nat /\ at \in [Procs -> [v : Nat, s : Nat]]
    BY <1>9, Here, Shape DEF RecordStep, At, Placed, Typed
  <2>2. /\ pc'[p] = "choose" /\ at'[p].v = at[p].v
        /\ at'[p].s \in 1..Len(Def(p).steps) + 1
    BY <1>9, <2>1 DEF RecordStep, NextStep, Goto, Typed
  <2>3. QED BY <2>2 DEF Placed, Def
<1>10. CASE Choose(p) \/ CloseVersion(p)
  BY <1>10, ChoosePlaced, ClosePlaced
<1>11. QED
  BY <1>1, <1>2, <1>3, <1>4, <1>5, <1>6, <1>7, <1>8, <1>9, <1>10 DEF Moves, Progress, Faulty

\* The steps that are nobody's.
LEMMA NobodyMoves ==
    ASSUME Typed, Places, GhostEnds \/ Drift \/ UNCHANGED vars
    PROVE  /\ UNCHANGED <<local, versions, facts, misjudged, faults>>
           /\ \A p \in Procs : holder' = p => holder = p
           /\ hits' = hits \/ (Drift /\ holder = Free /\ \E x \in Steps : hits' = [hits EXCEPT ![x] = 0])
           /\ holder' \in Procs \cup {Free, Ghost} /\ drifts' \in 0..MaxDrifts
<1>1. CASE GhostEnds
  BY <1>1, MigrationAssumption DEF GhostEnds, db, bounds, Typed
<1>2. CASE Drift
  <2>1. drifts' \in 0..MaxDrifts
    BY <1>2, MigrationAssumption DEF Drift, Typed
  <2>2. UNCHANGED <<local, versions, facts, misjudged, faults, holder>> /\ holder = Free
    BY <1>2 DEF Drift
  <2>3. \E x \in Steps : hits' = [hits EXCEPT ![x] = 0]
    BY <1>2 DEF Drift
  <2>4. QED BY <1>2, <2>1, <2>2, <2>3 DEF Typed
<1>3. CASE UNCHANGED vars
  BY <1>3 DEF vars, db, bounds, Typed
<1>4. QED BY <1>1, <1>2, <1>3

LEMMA TypedSteps == Typed /\ Places /\ [Next]_vars => Typed' /\ Places'
<1> SUFFICES ASSUME Typed, Places, [Next]_vars
             PROVE  Typed' /\ Places'
  OBVIOUS
<1>1. ASSUME NEW p \in Procs, Moves(p)
      PROVE  Typed' /\ Places'
  <2>1. OnlyMoves(p)
    BY <1>1, OthersStay
  <2>2. ASSUME NEW q \in Procs
        PROVE  Placed(q)
    BY DEF Typed, Places, Placed
  <2>3. ASSUME NEW q \in Procs
        PROVE  Placed(q)'
    <3>1. CASE q = p
      BY <1>1, <2>2, <3>1, MovesPlaced
    <3>2. CASE q # p
      <4>1. holder' = q => holder = q
        BY <1>1, <3>2, OthersHolder, MigrationAssumption
      <4>2. Placed(q)
        BY <2>2
      <4>3. pc'[q] = pc[q] /\ at'[q] = at[q] /\ complete'[q] = complete[q] /\ seen'[q] = seen[q]
        BY <2>1, <3>2 DEF OnlyMoves
      <4>4. QED BY <4>1, <4>2, <4>3 DEF Placed, Def, Cur
    <3>3. QED BY <3>1, <3>2
  <2>4. /\ versions' \in [Versions -> VersionRows \cup {NoFact}]
        /\ facts' \in [AllKeys -> StepRows \cup {NoFact}]
        /\ hits' \in [Steps -> Nat]
    BY <1>1, MovesTouch, TouchesTyped
  <2>5. /\ holder' \in Procs \cup {Free, Ghost}
        /\ misjudged' \subseteq Steps
        /\ faults' \in 0..MaxFaults /\ drifts' = drifts
    BY <1>1, OthersHolder
  <2>6. Typed'
    BY <2>1, <2>3, <2>4, <2>5 DEF Typed, OnlyMoves, Placed
  <2>7. QED BY <2>3, <2>6 DEF Places, Placed
<1>2. CASE GhostEnds \/ Drift \/ UNCHANGED vars
  <2>1. /\ UNCHANGED <<pc, at, complete, seen, versions, facts, misjudged, faults>>
        /\ \A p \in Procs : holder' = p => holder = p
        /\ holder' \in Procs \cup {Free, Ghost} /\ drifts' \in 0..MaxDrifts
    BY <1>2, NobodyMoves DEF local
  <2>2. hits' \in [Steps -> Nat]
    BY <1>2, NobodyMoves DEF Typed
  <2>3. \A p \in Procs : Def(p)' = Def(p) /\ Cur(p)' = Cur(p)
    BY <2>1 DEF Def, Cur
  <2>4. Typed'
    BY <2>1, <2>2, <2>3 DEF Typed
  <2>5. Places'
    BY <2>1, <2>3 DEF Places
  <2>6. QED BY <2>4, <2>5
<1>3. QED BY <1>1, <1>2 DEF Next, Moves

LEMMA TypedAlways == Spec => [](Typed /\ Places)
<1>1. Init => Typed /\ Places
  <2> SUFFICES ASSUME Init
               PROVE  Typed /\ Places
    OBVIOUS
  <2>1. /\ \A p \in Procs : pc[p] = "down" /\ at[p].v = 1 /\ at[p].s = 1
        /\ at \in [Procs -> [v : Nat, s : Nat]] /\ pc \in [Procs -> PC]
    BY DEF Init, PC, Waiting
  <2>2. \A p \in Procs : 1 \in DOMAIN Manifest[p] /\ 1 \in 1..Len(Manifest[p][1].steps) + 1
    <3> SUFFICES ASSUME NEW p \in Procs
                 PROVE  1 \in DOMAIN Manifest[p] /\ 1 \in 1..Len(Manifest[p][1].steps) + 1
      OBVIOUS
    <3>1. 1 \in DOMAIN Manifest[p]
      BY Shape
    <3>2. 1 \in 1..Len(Manifest[p][1].steps) + 1
      BY <3>1, Shape
    <3>3. QED BY <3>1, <3>2
  <2>3. Typed
    BY <2>1, <2>2, MigrationAssumption DEF Init, Typed, Def, InStep
  <2>4. Places
    BY <2>1, MigrationAssumption DEF Init, Places, InStep
  <2>5. QED BY <2>3, <2>4
<1>2. QED BY <1>1, TypedSteps, PTL DEF Spec

-----------------------------------------------------------------------------

\* x is recorded as done.
Noted(x) == Succeeded(facts[x.key]) /\ facts[x.key].sum = x.sum

\* The record of the step at hand has been written by this run.
Begun == {"apply", "verify", "commit", "record", "failStep"}

\* While a process has the lock, what it has read is what the tables say, apart
\* from what it wrote itself: its version is as complete as it thinks, the records
\* of the version are those of its own steps, and those of the steps still to come
\* are as they were.
Fresh(p) ==
    pc[p] \in InVersion =>
        /\ complete[p] = Succeeded(versions[Def(p).version])
        /\ \A k \in KeysIn(Def(p).version) : facts[k] # NoFact =>
                \E x \in Elems(Def(p).steps) : x.key = k /\ x.sum = facts[k].sum
        /\ \A i \in DOMAIN Def(p).steps :
                i > at[p].s \/ (i = at[p].s /\ pc[p] \notin Begun \cup {"failVersion"}) =>
                    LET k == Def(p).steps[i].key
                    IN  IF k \in DOMAIN seen[p] THEN facts[k] = seen[p][k] /\ facts[k] # NoFact
                        ELSE facts[k] = NoFact

\* What it wants before the place where it is, is recorded.
Ordered(p) ==
    /\ \A v \in DOMAIN Manifest[p] : v < at[p].v \/ pc[p] = "release" =>
            \A x \in RequiredIn(Manifest[p][v]) : Noted(x)
    /\ pc[p] \in InVersion =>
            \A i \in DOMAIN Def(p).steps : i < at[p].s /\ ~Def(p).steps[i].cleanup => Noted(Def(p).steps[i])

\* What it knows about the step at hand.
AtHand(p) ==
    pc[p] \in InStep =>
        /\ ~Succeeded(facts[Cur(p).key])
        /\ pc[p] # "start" => facts[Cur(p).key] # NoFact /\ facts[Cur(p).key].sum = Cur(p).sum
        /\ pc[p] \in {"start", "apply", "commit"} \/ (pc[p] = "verify" /\ Cur(p).kind = "dml") =>
                hits[Cur(p)] <= faults /\ (hits[Cur(p)] = 0 \/ Cur(p) \in misjudged)
        /\ pc[p] = "apply" => Cur(p).kind # "check"
        /\ pc[p] = "commit" => Cur(p).kind = "dml"
        /\ pc[p] = "verify" /\ Cur(p).kind = "ddl" => hits[Cur(p)] > 0
        /\ pc[p] = "record" /\ Cur(p).kind # "check" => hits[Cur(p)] > 0

Knows == \A p \in Procs : holder = p => Fresh(p) /\ Ordered(p) /\ AtHand(p)

\* What is known of the steps, whoever migrates.
Effects ==
    \A x \in Steps :
        /\ hits[x] > 0 => x.kind # "check" /\ facts[x.key] # NoFact /\ facts[x.key].sum = x.sum
        /\ hits[x] <= faults + 1
        /\ hits[x] <= 1 \/ x \in misjudged
        /\ Noted(x) /\ x.kind # "check" /\ drifts = 0 => hits[x] > 0

\* No success is taken back: a version is not touched after it is complete, nor a
\* step after it is done.
LEMMA TouchesKeep ==
    ASSUME Typed, Knows, NEW p \in Procs, Touches(p)
    PROVE  /\ \A k \in AllKeys : Succeeded(facts[k]) => facts'[k] = facts[k]
           /\ \A n \in Versions : Succeeded(versions[n]) => versions'[n] = versions[n]
           /\ \A x \in Steps : Noted(x) => Noted(x)'
<1>1. CASE UNCHANGED db
  BY <1>1 DEF db, Noted
<1>2. CASE holder = p /\ pc[p] \in InVersion /\ ~complete[p] /\ Notes(p)
  <2>1. ~Succeeded(versions[Def(p).version])
    BY <1>2 DEF Knows, Fresh
  <2>2. PICK st : SetVersion(p, st)
    BY <1>2 DEF Notes
  <2>3. QED BY <2>1, <2>2 DEF SetVersion, Typed, Noted
<1>3. CASE holder = p /\ pc[p] \in InStep /\ Tells(p)
  <2>1. ~Succeeded(facts[Cur(p).key])
    BY <1>3 DEF Knows, AtHand
  <2>2. PICK st : SetFact(p, st)
    BY <1>3 DEF Tells
  <2>3. \A k \in AllKeys : Succeeded(facts[k]) => facts'[k] = facts[k]
    BY <2>1, <2>2 DEF SetFact, Typed
  <2>4. QED BY <2>2, <2>3, Shape DEF SetFact, Noted
<1>4. CASE Hit(p)
  BY <1>4 DEF Hit, Noted
<1>5. QED BY <1>1, <1>2, <1>3, <1>4 DEF Touches, InVersion, InStep

\* A record under the key of the step at hand is its record.
LEMMA OwnRecord ==
    ASSUME Typed, NEW p \in Procs, Fresh(p), pc[p] \in InVersion, at[p].s \in DOMAIN Def(p).steps,
           facts[Cur(p).key] # NoFact
    PROVE  facts[Cur(p).key].sum = Cur(p).sum
<1>1. Cur(p) \in Elems(Def(p).steps) /\ Cur(p).key \in KeysIn(Def(p).version)
  BY Here, Shape DEF Cur, Elems, Keys
<1>2. PICK x \in Elems(Def(p).steps) : x.key = Cur(p).key /\ x.sum = facts[Cur(p).key].sum
  BY <1>1 DEF Fresh
<1>3. x = Cur(p)
  BY <1>2, Here, Apart DEF Cur, Elems
<1>4. QED BY <1>2, <1>3

\* What a write to the table of the steps does.
LEMMA SetFactIs ==
    ASSUME Typed, NEW p \in Procs, Fresh(p), pc[p] \in InStep, NEW st \in Status, SetFact(p, st)
    PROVE  /\ facts'[Cur(p).key] = [sum |-> Cur(p).sum, status |-> st]
           /\ facts'[Cur(p).key] # NoFact
           /\ \A k \in AllKeys \ {Cur(p).key} : facts'[k] = facts[k]
           /\ UNCHANGED <<versions, hits>>
<1>1. facts'[Cur(p).key] = [sum |-> Cur(p).sum, status |-> st]
  BY OwnRecord, Here DEF SetFact, Typed, InVersion
<1>2. [sum |-> Cur(p).sum, status |-> st] # NoFact
  BY Here, Rows
<1>3. QED BY <1>1, <1>2 DEF SetFact, Typed

\* The effects after a change.
LEMMA TouchesEffects ==
    ASSUME Typed, Knows, Effects, NEW p \in Procs, Touches(p), drifts' = drifts,
           misjudged \subseteq misjudged', faults \in Nat, faults' \in Nat, faults <= faults'
    PROVE  Effects'
<1>1. CASE UNCHANGED db
  BY <1>1 DEF db, Effects, Noted, Typed
<1>2. CASE holder = p /\ Notes(p)
  BY <1>2 DEF Notes, SetVersion, Effects, Noted, Typed
<1>3. CASE /\ holder = p /\ pc[p] \in {"start", "record", "failStep"} /\ Tells(p)
  <2>1. PICK st \in Status : SetFact(p, st) /\ (st = "SUCCEEDED" => pc[p] = "record")
    BY <1>3 DEF Tells
  <2>2. /\ facts[Cur(p).key] # NoFact => facts[Cur(p).key].sum = Cur(p).sum
        /\ pc[p] = "record" /\ Cur(p).kind # "check" => hits[Cur(p)] > 0
        /\ Cur(p) \in Steps
    BY <1>3, OwnRecord, Here DEF Knows, AtHand, InVersion, InStep
  <2>3. /\ facts'[Cur(p).key] = [sum |-> Cur(p).sum, status |-> st]
        /\ facts'[Cur(p).key] # NoFact
        /\ \A k \in AllKeys \ {Cur(p).key} : facts'[k] = facts[k]
        /\ UNCHANGED <<versions, hits>>
    BY <1>3, <2>1, SetFactIs DEF Knows, InStep
  <2>4. ASSUME NEW x \in Steps
        PROVE  /\ hits[x] > 0 => facts'[x.key] # NoFact /\ facts'[x.key].sum = x.sum
               /\ Noted(x)' /\ x.kind # "check" /\ drifts = 0 => hits[x] > 0
    <3>1. CASE x.key # Cur(p).key
      BY <2>3, <3>1, Shape DEF Effects, Noted
    <3>2. CASE x.key = Cur(p).key
      <4>1. hits[x] > 0 => x.sum = Cur(p).sum
        BY <2>2, <3>2 DEF Effects
      <4>2. ASSUME Noted(x)'
            PROVE  x = Cur(p) /\ st = "SUCCEEDED"
        BY <2>2, <2>3, <3>2, <4>2, Apart DEF Noted, Succeeded
      <4>3. QED BY <2>1, <2>2, <2>3, <3>2, <4>1, <4>2
    <3>3. QED BY <3>1, <3>2
  <2>5. QED BY <2>3, <2>4 DEF Effects, Typed
<1>4. CASE holder = p /\ Hits(p) /\ Hit(p)
  <2>1. /\ facts[Cur(p).key] # NoFact /\ facts[Cur(p).key].sum = Cur(p).sum
        /\ hits[Cur(p)] <= faults /\ (hits[Cur(p)] = 0 \/ Cur(p) \in misjudged)
        /\ Cur(p).kind # "check" /\ Cur(p) \in Steps
    BY <1>4, Here DEF Knows, AtHand, Hits, InStep
  <2>2. /\ hits'[Cur(p)] = hits[Cur(p)] + 1 /\ hits[Cur(p)] \in Nat
        /\ \A x \in Steps \ {Cur(p)} : hits'[x] = hits[x]
        /\ UNCHANGED <<versions, facts>>
    BY <1>4, <2>1 DEF Hit, Typed
  <2>3. ASSUME NEW x \in Steps
        PROVE  /\ hits'[x] > 0 => x.kind # "check" /\ facts[x.key] # NoFact /\ facts[x.key].sum = x.sum
               /\ hits'[x] <= faults' + 1
               /\ hits'[x] <= 1 \/ x \in misjudged'
               /\ Noted(x) /\ x.kind # "check" /\ drifts = 0 => hits'[x] > 0
    <3>1. CASE x = Cur(p)
      BY <2>1, <2>2, <3>1
    <3>2. CASE x # Cur(p)
      BY <2>2, <3>2 DEF Effects, Typed
    <3>3. QED BY <3>1, <3>2
  <2>4. QED BY <2>2, <2>3 DEF Effects, Noted
<1>5. QED BY <1>1, <1>2, <1>3, <1>4 DEF Touches

LEMMA FreshKept ==
    ASSUME Typed, NEW p \in Procs, Fresh(p), pc[p] \in InVersion, UNCHANGED <<versions, facts>>,
           at'[p] = at[p], seen'[p] = seen[p], complete'[p] = complete[p],
           pc'[p] \notin Begun \cup {"failVersion"} => pc[p] \notin Begun \cup {"failVersion"}
    PROVE  Fresh(p)'
<1>1. UNCHANGED Def(p)
  BY DEF Def
<1>2. QED BY <1>1 DEF Fresh

LEMMA OrderedKept ==
    ASSUME Typed, NEW p \in Procs, Ordered(p), at'[p] = at[p], \A x \in Steps : Noted(x) => Noted(x)',
           pc'[p] \in InVersion => pc[p] \in InVersion, pc'[p] # "release"
    PROVE  Ordered(p)'
<1>1. UNCHANGED Def(p)
  BY DEF Def
<1>2. ASSUME NEW v \in DOMAIN Manifest[p], v < at[p].v, NEW x \in RequiredIn(Manifest[p][v])
      PROVE  Noted(x)'
  <2>1. x \in Steps
    BY Shape DEF RequiredIn
  <2>2. QED BY <1>2, <2>1 DEF Ordered
<1>3. ASSUME pc'[p] \in InVersion, NEW i \in DOMAIN Def(p).steps, i < at[p].s, ~Def(p).steps[i].cleanup
      PROVE  Noted(Def(p).steps[i])'
  <2>1. Def(p).steps[i] \in Steps
    BY Here, Shape
  <2>2. Noted(Def(p).steps[i])
    BY <1>3 DEF Ordered
  <2>3. Noted(Def(p).steps[i])'
    BY <1>1, <2>1, <2>2 DEF Noted
  <2>4. QED BY <2>3
<1>4. QED BY <1>1, <1>2, <1>3 DEF Ordered

LEMMA FreshTold ==
    ASSUME Typed, NEW p \in Procs, Fresh(p), pc[p] \in InStep, NEW st \in Status, SetFact(p, st),
           seen'[p] = seen[p], complete'[p] = complete[p], at'[p].v = at[p].v,
           \/ at'[p].s = at[p].s /\ pc'[p] \in Begun \cup {"failVersion"}
           \/ at'[p].s = at[p].s + 1
    PROVE  Fresh(p)'
<1> DEFINE d == Def(p)
<1>1. UNCHANGED d
  BY DEF Def
<1>2. /\ facts'[Cur(p).key] = [sum |-> Cur(p).sum, status |-> st]
      /\ \A k \in AllKeys \ {Cur(p).key} : facts'[k] = facts[k]
      /\ UNCHANGED versions
  BY SetFactIs
<1>3. /\ at[p].s \in DOMAIN d.steps /\ Cur(p) = d.steps[at[p].s] /\ Cur(p) \in Elems(d.steps)
      /\ d \in Defs /\ at[p].s \in Nat /\ \A i \in DOMAIN d.steps : i \in Nat
      /\ \A i \in DOMAIN d.steps : d.steps[i].key \in AllKeys
      /\ KeysIn(d.version) \subseteq AllKeys
  BY Here, Shape DEF Cur, Typed
<1>4. ASSUME NEW k \in KeysIn(d.version), facts'[k] # NoFact
      PROVE  \E x \in Elems(d.steps) : x.key = k /\ x.sum = facts'[k].sum
  <2>1. CASE k = Cur(p).key
    BY <1>2, <1>3, <2>1
  <2>2. CASE k # Cur(p).key
    BY <1>2, <1>3, <1>4, <2>2 DEF Fresh, InVersion
  <2>3. QED BY <2>1, <2>2
<1>5. ASSUME NEW i \in DOMAIN d.steps,
             i > at'[p].s \/ (i = at'[p].s /\ pc'[p] \notin Begun \cup {"failVersion"})
      PROVE  LET k == d.steps[i].key
             IN  IF k \in DOMAIN seen[p] THEN facts'[k] = seen[p][k] /\ facts'[k] # NoFact
                 ELSE facts'[k] = NoFact
  <2>1. i > at[p].s
    BY <1>3, <1>5
  <2>2. d.steps[i].key # Cur(p).key
    BY <1>3, <2>1, Apart
  <2>3. facts'[d.steps[i].key] = facts[d.steps[i].key]
    BY <1>2, <1>3, <2>2
  <2>4. QED BY <2>1, <2>3 DEF Fresh, InVersion
<1>6. complete[p] = Succeeded(versions[d.version])
  BY DEF Fresh, InVersion
<1>7. QED BY <1>1, <1>2, <1>4, <1>5, <1>6 DEF Fresh

\* What a process knows stays true, or is replaced, as it goes on.
LEMMA GetLockKnows ==
    ASSUME Typed, Places, NEW p \in Procs, GetLock(p) \/ Bootstrap(p)
    PROVE  Fresh(p)' /\ Ordered(p)' /\ AtHand(p)'
<1>1. pc'[p] \in {"boot", "read"} /\ at'[p].v = 1
  BY DEF GetLock, Bootstrap, At, Goto, Typed, Places, Waiting
<1>2. \A v \in DOMAIN Manifest[p] : ~(v < 1)
  BY Shape
<1>3. QED BY <1>1, <1>2 DEF Fresh, Ordered, AtHand, InVersion, InStep

LEMMA ReadKnows ==
    ASSUME Typed, Places, NEW p \in Procs, Ordered(p), Read(p), holder' = p
    PROVE  Fresh(p)' /\ Ordered(p)' /\ AtHand(p)'
<1> DEFINE n == Def(p).version
           rows == [k \in {k \in KeysIn(n) : facts[k] # NoFact} |-> facts[k]]
           done == versions[n] # NoFact /\ versions[n].status = "SUCCEEDED"
<1>1. /\ Compatible(p, rows)
      /\ complete' = [complete EXCEPT ![p] = done]
      /\ seen' = [seen EXCEPT ![p] = rows]
      /\ Goto(p, IF done THEN "choose" ELSE "mark")
      /\ UNCHANGED <<at, holder>> /\ UNCHANGED db /\ pc[p] = "read"
  <2>1. ~Stop(p)
    BY MigrationAssumption DEF Read, At, Stop, Alive
  <2>2. QED BY <2>1 DEF Read, At
<1>2. /\ pc'[p] \in {"choose", "mark"} /\ at'[p] = at[p] /\ UNCHANGED <<Def(p), versions, facts, hits>>
      /\ complete'[p] = done /\ seen'[p] = rows /\ at[p].s = 1
  BY <1>1 DEF Goto, Def, Typed, db, Places
<1>3. Fresh(p)'
  <2>1. ASSUME NEW k \in KeysIn(n), facts[k] # NoFact
        PROVE  \E x \in Elems(Def(p).steps) : x.key = k /\ x.sum = facts[k].sum
    <3>1. k \in DOMAIN rows /\ rows[k] = facts[k]
      BY <2>1
    <3>2. QED BY <1>1, <3>1 DEF Compatible
  <2>2. \A i \in DOMAIN Def(p).steps : Def(p).steps[i].key \in KeysIn(n)
    BY Here, Shape DEF Keys
  <2>3. ASSUME NEW k \in KeysIn(n)
        PROVE  IF k \in DOMAIN rows THEN facts[k] = rows[k] /\ facts[k] # NoFact ELSE facts[k] = NoFact
    OBVIOUS
  <2>4. done = Succeeded(versions[n])
    BY DEF Succeeded
  <2> HIDE DEF rows, done
  <2>5. QED BY <1>2, <2>1, <2>2, <2>3, <2>4 DEF Fresh
<1>4. Ordered(p)'
  <2>1. \A i \in DOMAIN Def(p).steps : ~(i < 1)
    BY Here, Shape
  <2>2. \A x : Noted(x)' = Noted(x)
    BY <1>2 DEF Noted
  <2>3. QED BY <1>1, <1>2, <2>1, <2>2 DEF Ordered
<1>5. QED BY <1>2, <1>3, <1>4 DEF AtHand, InStep

LEMMA MarkKnows ==
    ASSUME Typed, Places, NEW p \in Procs, Fresh(p), Ordered(p), MarkVersion(p),
           \A x \in Steps : Noted(x) => Noted(x)'
    PROVE  Fresh(p)' /\ Ordered(p)' /\ AtHand(p)'
<1>1. /\ pc[p] = "mark" /\ pc'[p] = "choose" /\ at'[p] = at[p] /\ UNCHANGED <<Def(p), seen, complete>>
      /\ ~complete[p] /\ Execute(p)
  BY DEF MarkVersion, At, Goto, Def, Typed, Places
<1>2. /\ versions' = [versions EXCEPT ![Def(p).version] = [name |-> Def(p).name, status |-> "RUNNING"]]
      /\ UNCHANGED <<facts, hits>>
  BY <1>1 DEF Execute, SetVersion
<1>3. ~Succeeded(versions'[Def(p).version])
  BY <1>2, Here, Shape DEF Succeeded, Typed
<1>4. Fresh(p)'
  <2>1. complete[p] = FALSE /\ Succeeded(versions'[Def(p).version]) = FALSE
    BY <1>1, <1>3 DEF Typed, Succeeded
  <2>2. pc[p] \in InVersion /\ pc[p] \notin Begun \cup {"failVersion"}
    BY <1>1 DEF InVersion, Begun
  <2>3. QED BY <1>1, <1>2, <2>1, <2>2 DEF Fresh
<1>5. Ordered(p)'
  BY <1>1, OrderedKept DEF InVersion
<1>6. QED BY <1>1, <1>4, <1>5 DEF AtHand, InStep

LEMMA ChooseKnows ==
    ASSUME Typed, Places, Effects, NEW p \in Procs, Fresh(p), Ordered(p), Choose(p), holder' = p
    PROVE  Fresh(p)' /\ Ordered(p)' /\ AtHand(p)'
<1>1. pc[p] = "choose" /\ UNCHANGED <<versions, facts, hits, complete, seen, faults, misjudged>> /\ ~Stop(p)
  <2>1. ~Stop(p)
    BY MigrationAssumption DEF Stop, Alive
  <2>2. QED BY <2>1 DEF Choose, db, bounds
<1>2. \A x : Noted(x)' = Noted(x)
  BY <1>1 DEF Noted
<1>3. CASE Goto(p, "close") /\ UNCHANGED at
  <2>1. pc'[p] = "close" /\ at'[p] = at[p]
    BY <1>3 DEF Goto, Typed
  <2>2. QED BY <1>1, <1>2, <2>1, FreshKept, OrderedKept DEF AtHand, InStep, InVersion, Begun
<1>4. CASE /\ at[p].s <= Len(Def(p).steps)
           /\ Cur(p).cleanup \/ Recorded(p) = "SUCCEEDED"
           /\ NextStep(p) /\ UNCHANGED pc
  <2>1. pc'[p] = "choose" /\ at'[p].v = at[p].v /\ at'[p].s = at[p].s + 1 /\ UNCHANGED Def(p)
    BY <1>1, <1>4 DEF NextStep, Def, Typed
  <2>2. /\ at[p].s \in DOMAIN Def(p).steps /\ Cur(p) = Def(p).steps[at[p].s]
        /\ at[p].s \in Nat /\ \A i \in DOMAIN Def(p).steps : i \in Nat
    BY <1>4, Here, Shape DEF Typed, Cur
  <2>3. ~Cur(p).cleanup => Noted(Cur(p))
    <3>1. ASSUME Recorded(p) = "SUCCEEDED"
          PROVE  Succeeded(facts[Cur(p).key])
      BY <1>1, <2>2, <3>1 DEF Recorded, Fresh, InVersion, InStep, Begun, Succeeded
    <3>2. QED BY <1>1, <1>4, <2>2, <3>1, OwnRecord DEF Noted, Succeeded, InVersion, InStep
  <2>4. Fresh(p)'
    <3>1. \A i \in DOMAIN Def(p).steps : i > at'[p].s \/ i = at'[p].s => i > at[p].s
      BY <2>1, <2>2
    <3>2. QED BY <1>1, <2>1, <3>1 DEF Fresh, InVersion
  <2>5. Ordered(p)'
    <3>1. \A i \in DOMAIN Def(p).steps : i < at'[p].s => i < at[p].s \/ i = at[p].s
      BY <2>1, <2>2
    <3>2. QED BY <1>1, <1>2, <2>1, <2>2, <2>3, <3>1 DEF Ordered, InVersion, InStep
  <2>6. QED BY <2>1, <2>4, <2>5 DEF AtHand, InStep
<1>5. CASE /\ at[p].s <= Len(Def(p).steps) /\ ~Cur(p).cleanup /\ Recorded(p) # "SUCCEEDED"
           /\ Goto(p, IF Recorded(p) = "none" THEN "start" ELSE "recover")
           /\ UNCHANGED at
  <2>1. /\ pc'[p] = (IF Recorded(p) = "none" THEN "start" ELSE "recover")
        /\ at'[p] = at[p] /\ UNCHANGED <<Def(p), Cur(p)>>
    BY <1>5 DEF Goto, Typed, Def, Cur
  <2>2. /\ at[p].s \in DOMAIN Def(p).steps /\ Cur(p) = Def(p).steps[at[p].s]
        /\ Cur(p) \in Steps /\ Cur(p).key \in AllKeys
    BY <1>5, Here, Shape DEF Typed, Cur
  <2>3. Fresh(p)' /\ Ordered(p)'
    BY <1>1, <1>2, <2>1, FreshKept, OrderedKept DEF InStep, InVersion, Begun
  <2>4. IF Cur(p).key \in DOMAIN seen[p]
        THEN facts[Cur(p).key] = seen[p][Cur(p).key] /\ facts[Cur(p).key] # NoFact
        ELSE facts[Cur(p).key] = NoFact
    BY <1>1, <2>2 DEF Fresh, InVersion, InStep, Begun
  <2>5. ~Succeeded(facts[Cur(p).key])
    BY <1>5, <2>4 DEF Recorded, Succeeded
  <2>6. CASE Recorded(p) = "none"
    <3>1. facts[Cur(p).key] = NoFact
      BY <2>2, <2>4, <2>6 DEF Recorded, Typed, StepRows, Status
    <3>2. hits[Cur(p)] = 0 /\ 0 <= faults
      BY <2>2, <3>1 DEF Effects, Typed
    <3>3. QED BY <1>1, <2>1, <2>3, <2>5, <2>6, <3>2 DEF AtHand, InStep
  <2>7. CASE Recorded(p) # "none"
    <3>1. facts[Cur(p).key] # NoFact
      BY <2>4, <2>7 DEF Recorded
    <3>2. facts[Cur(p).key].sum = Cur(p).sum
      BY <1>1, <2>2, <3>1, OwnRecord DEF InVersion, InStep
    <3>3. QED BY <1>1, <2>1, <2>3, <2>5, <2>7, <3>1, <3>2 DEF AtHand, InStep
  <2>8. QED BY <2>6, <2>7
<1>6. QED BY <1>1, <1>3, <1>4, <1>5 DEF Choose

LEMMA CloseKnows ==
    ASSUME Typed, Places, NEW p \in Procs, Ordered(p), CloseVersion(p),
           \A x \in Steps : Noted(x) => Noted(x)'
    PROVE  Fresh(p)' /\ Ordered(p)' /\ AtHand(p)'
<1>1. /\ pc[p] = "close" /\ at[p].s = Len(Def(p).steps) + 1 /\ at[p].v \in Nat
      /\ Len(Def(p).steps) \in Nat /\ DOMAIN Def(p).steps = 1..Len(Def(p).steps)
      /\ Len(Manifest[p]) \in Nat /\ DOMAIN Manifest[p] = 1..Len(Manifest[p]) /\ Def(p) \in Defs
  BY Here, Shape DEF CloseVersion, Typed, Places
<1>2. ASSUME NEW v \in DOMAIN Manifest[p], v <= at[p].v, NEW x \in RequiredIn(Manifest[p][v])
      PROVE  Noted(x)'
  <2>1. x \in Steps
    BY Shape DEF RequiredIn
  <2>2. CASE v < at[p].v
    BY <2>1, <2>2 DEF Ordered
  <2>3. CASE v = at[p].v
    <3>1. PICK i \in DOMAIN Def(p).steps : x = Def(p).steps[i] /\ ~Def(p).steps[i].cleanup
      BY <2>3 DEF RequiredIn, Elems, Def
    <3>2. i < at[p].s
      BY <1>1
    <3>3. QED BY <1>1, <2>1, <3>1, <3>2 DEF Ordered, InVersion
  <2>4. QED BY <1>1, <1>2, <2>2, <2>3
<1>3. CASE /\ at[p].v < Len(Manifest[p])
           /\ at' = [at EXCEPT ![p] = [v |-> at[p].v + 1, s |-> 1]]
           /\ Goto(p, "read")
  <2>1. pc'[p] = "read" /\ at'[p].v = at[p].v + 1
    BY <1>3 DEF Goto, Typed
  <2>2. \A v \in DOMAIN Manifest[p] : v < at[p].v + 1 => v <= at[p].v
    BY <1>1
  <2>3. QED BY <1>2, <2>1, <2>2 DEF Fresh, Ordered, AtHand, InVersion, InStep
<1>4. CASE ~(at[p].v < Len(Manifest[p])) /\ Goto(p, "release") /\ UNCHANGED at
  <2>1. pc'[p] = "release" /\ \A v \in DOMAIN Manifest[p] : v <= at[p].v
    BY <1>1, <1>4 DEF Goto, Typed
  <2>2. QED BY <1>2, <2>1 DEF Fresh, Ordered, AtHand, InVersion, InStep
<1>5. QED BY <1>3, <1>4 DEF CloseVersion

\* The statements of a step, up to its record.
LEMMA StepKnows ==
    ASSUME Typed, Places, Effects, NEW p \in Procs, Fresh(p), Ordered(p), AtHand(p),
           \A x \in Steps : Noted(x) => Noted(x)',
           \/ Recover(p) \/ RecoverErrs(p) \/ StartStep(p) \/ Apply(p) \/ Verify(p) \/ Commit(p)
    PROVE  Fresh(p)' /\ Ordered(p)' /\ AtHand(p)'
<1>1. /\ pc[p] \in InStep /\ pc'[p] \in InStep /\ pc'[p] # "recover"
      /\ UNCHANGED <<at, complete, seen, Def(p), Cur(p)>>
      /\ Cur(p) \in Steps /\ Cur(p).key \in AllKeys /\ Cur(p).kind \in {"check", "ddl", "dml"}
      /\ at[p].s \in DOMAIN Def(p).steps /\ faults \in Nat
  <2>1. pc[p] \in InStep /\ pc'[p] \in InStep /\ pc'[p] # "recover" /\ UNCHANGED <<at, complete, seen>>
    BY DEF Recover, RecoverErrs, StartStep, Apply, Verify, Commit, At, Goto, InStep, Typed
  <2>2. UNCHANGED <<Def(p), Cur(p)>>
    BY <2>1 DEF Def, Cur
  <2>3. QED BY <2>1, <2>2, Here, Shape DEF Typed
<1>2. Ordered(p)'
  BY <1>1, OrderedKept DEF InVersion, InStep
<1>3. CASE Recover(p) \/ RecoverErrs(p) \/ Verify(p)
  <2>1. UNCHANGED <<versions, facts, hits>>
    BY <1>3 DEF Recover, RecoverErrs, Verify, db
  <2>2. Fresh(p)'
    <3>1. pc[p] = "recover" \/ (pc[p] = "verify" /\ pc'[p] \in {"commit", "record"})
      BY <1>3 DEF Recover, RecoverErrs, Verify, At, Goto, Typed
    <3>2. QED BY <1>1, <2>1, <3>1, FreshKept DEF InVersion, InStep, Begun
  <2>3. CASE Recover(p)
    <3>1. /\ pc[p] = "recover" /\ pc'[p] \in {"record", "start"}
          /\ pc'[p] = "record" <=> Cur(p).kind = "check" \/ hits[Cur(p)] > 0
          /\ UNCHANGED <<faults, misjudged>>
      BY <2>3 DEF Recover, At, Goto, Typed, bounds
    <3>2. hits[Cur(p)] \in Nat
      BY <1>1 DEF Typed
    <3>3. QED BY <1>1, <1>2, <2>1, <2>2, <3>1, <3>2 DEF AtHand, InStep
  <2>4. CASE RecoverErrs(p)
    <3>1. /\ pc[p] = "recover" /\ pc'[p] = "start" /\ faults' = faults + 1
          /\ misjudged' = misjudged \cup {Cur(p)}
      BY <2>4 DEF RecoverErrs, At, Goto, Typed
    <3>2. hits[Cur(p)] <= faults'
      BY <1>1, <3>1 DEF Effects
    <3>3. QED BY <1>1, <1>2, <2>1, <2>2, <3>1, <3>2 DEF AtHand, InStep
  <2>5. CASE Verify(p)
    <3>1. /\ pc[p] = "verify" /\ pc'[p] = (IF Cur(p).kind = "dml" THEN "commit" ELSE "record")
          /\ UNCHANGED <<faults, misjudged>>
      BY <2>5 DEF Verify, At, Goto, Typed, bounds
    <3>2. QED BY <1>1, <1>2, <2>1, <2>2, <3>1 DEF AtHand, InStep
  <2>6. QED BY <1>3, <2>3, <2>4, <2>5
<1>4. CASE StartStep(p)
  <2>1. /\ pc[p] = "start" /\ pc'[p] = (IF Cur(p).kind = "check" THEN "verify" ELSE "apply")
        /\ UNCHANGED <<faults, misjudged>> /\ SetFact(p, "RUNNING")
    BY <1>4 DEF StartStep, At, Goto, Typed, bounds, Execute
  <2>2. /\ facts'[Cur(p).key] = [sum |-> Cur(p).sum, status |-> "RUNNING"]
        /\ facts'[Cur(p).key] # NoFact
        /\ UNCHANGED hits
    BY <1>1, <2>1, SetFactIs DEF Status
  <2>3. Fresh(p)'
    BY <1>1, <2>1, FreshTold DEF Status, Begun
  <2>4. QED BY <1>1, <1>2, <2>1, <2>2, <2>3 DEF AtHand, InStep, Succeeded
<1>5. CASE Apply(p) \/ Commit(p)
  <2>1. /\ UNCHANGED <<versions, facts, faults, misjudged>>
        /\ \/ pc[p] = "apply" /\ pc'[p] = "verify"
           \/ pc[p] = "commit" /\ pc'[p] = "record"
        /\ Cur(p).kind = "ddl" \/ pc[p] = "commit" => hits'[Cur(p)] > 0
        /\ ~(Cur(p).kind = "ddl" \/ pc[p] = "commit") => hits' = hits
    <3>1. CASE Hits(p)
      <4>1. Hit(p) /\ hits[Cur(p)] \in Nat
        BY <1>1, <1>5, <3>1, Executes DEF Apply, Commit, Typed
      <4>2. hits'[Cur(p)] > 0
        BY <1>1, <4>1 DEF Hit, Typed
      <4>3. QED BY <1>5, <3>1, <4>1, <4>2 DEF Hits, Hit, Apply, Commit, At, Goto, Typed, bounds
    <3>2. CASE ~Hits(p)
      <4>1. UNCHANGED db
        BY <1>5, <3>2 DEF Apply, Commit, At, Hits, Execute
      <4>2. QED BY <1>5, <3>2, <4>1 DEF Hits, Apply, Commit, At, Goto, Typed, bounds, db
    <3>3. QED BY <3>1, <3>2
  <2>2. Fresh(p)'
    BY <1>1, <2>1, FreshKept DEF InVersion, InStep, Begun
  <2>3. QED BY <1>1, <1>2, <2>1, <2>2 DEF AtHand, InStep
<1>6. QED BY <1>3, <1>4, <1>5

\* The end of a step, good or bad.
LEMMA StepEndKnows ==
    ASSUME Typed, Places, NEW p \in Procs, Fresh(p), Ordered(p), AtHand(p),
           \A x \in Steps : Noted(x) => Noted(x)',
           RecordStep(p) \/ FailStep(p) \/ (StatementFails(p) /\ ~Stop(p))
    PROVE  Fresh(p)' /\ Ordered(p)' /\ AtHand(p)'
<1>1. /\ pc[p] \in InStep /\ UNCHANGED <<complete, seen>>
      /\ Cur(p) \in Steps /\ Cur(p).key \in AllKeys
      /\ at[p].s \in DOMAIN Def(p).steps /\ at[p].s \in Nat /\ \A i \in DOMAIN Def(p).steps : i \in Nat
  <2>1. pc[p] \in InStep /\ UNCHANGED <<complete, seen>>
    BY DEF RecordStep, FailStep, StatementFails, At, InStep
  <2>2. QED BY <2>1, Here, Shape DEF Typed
<1>2. CASE RecordStep(p)
  <2>1. /\ pc[p] = "record" /\ pc'[p] = "choose" /\ SetFact(p, "SUCCEEDED")
        /\ at'[p].v = at[p].v /\ at'[p].s = at[p].s + 1 /\ UNCHANGED Def(p)
    BY <1>2 DEF RecordStep, At, Goto, NextStep, Execute, Typed, Def
  <2>2. Fresh(p)'
    BY <1>1, <2>1, FreshTold DEF Status
  <2>3. Succeeded(facts'[Cur(p).key]) /\ facts'[Cur(p).key].sum = Cur(p).sum
    <3>1. /\ facts'[Cur(p).key] = [sum |-> Cur(p).sum, status |-> "SUCCEEDED"]
          /\ facts'[Cur(p).key] # NoFact
      BY <1>1, <2>1, SetFactIs DEF Status
    <3>2. QED BY <3>1 DEF Succeeded
  <2>4. Ordered(p)'
    <3>1. ASSUME NEW v \in DOMAIN Manifest[p], v < at[p].v, NEW x \in RequiredIn(Manifest[p][v])
          PROVE  Noted(x)'
      BY <3>1, Shape DEF RequiredIn, Ordered
    <3>2. ASSUME NEW i \in DOMAIN Def(p).steps, i < at[p].s + 1, ~Def(p).steps[i].cleanup
          PROVE  Succeeded(facts'[Def(p).steps[i].key]) /\ facts'[Def(p).steps[i].key].sum = Def(p).steps[i].sum
      <4>1. CASE i < at[p].s
        <5>1. Noted(Def(p).steps[i]) /\ Def(p).steps[i] \in Steps
          BY <1>1, <3>2, <4>1, Here, Shape DEF Ordered, InVersion
        <5>2. PICK x \in Steps : x = Def(p).steps[i]
          BY <5>1
        <5>3. Noted(x)'
          BY <5>1, <5>2
        <5>4. QED BY <5>2, <5>3 DEF Noted
      <4>2. CASE i = at[p].s
        BY <2>3, <4>2 DEF Cur
      <4>3. QED BY <1>1, <3>2, <4>1, <4>2
    <3>3. QED BY <2>1, <3>1, <3>2 DEF Ordered, Noted
  <2>5. QED BY <2>1, <2>2, <2>4 DEF AtHand, InStep
<1>3. CASE FailStep(p)
  <2>1. /\ pc[p] = "failStep" /\ pc'[p] = "failVersion" /\ at' = at /\ SetFact(p, "FAILED")
    BY <1>3 DEF FailStep, At, Goto, Execute, Typed
  <2>2. Fresh(p)'
    BY <1>1, <2>1, FreshTold DEF Status
  <2>3. Ordered(p)'
    BY <1>1, <2>1, OrderedKept DEF InVersion
  <2>4. QED BY <2>1, <2>2, <2>3 DEF AtHand, InStep
<1>4. CASE StatementFails(p) /\ ~Stop(p)
  <2>1. /\ pc[p] \in {"apply", "verify"} /\ pc'[p] = "failStep" /\ at' = at
        /\ UNCHANGED <<versions, facts, hits>> /\ UNCHANGED <<Def(p), Cur(p)>>
    BY <1>4 DEF StatementFails, Goto, Typed, db, Def, Cur
  <2>2. Fresh(p)' /\ Ordered(p)'
    BY <1>1, <2>1, FreshKept, OrderedKept DEF InVersion, InStep, Begun
  <2>3. QED BY <1>1, <2>1, <2>2 DEF AtHand, InStep
<1>5. QED BY <1>2, <1>3, <1>4

LEMMA MovesKnow ==
    ASSUME Typed, Places, Knows, Effects, NEW p \in Procs, Moves(p)
    PROVE  Knows'
<1> SUFFICES ASSUME NEW q \in Procs, holder' = q
             PROVE  Fresh(q)' /\ Ordered(q)' /\ AtHand(q)'
  BY DEF Knows
<1>1. Touches(p) /\ OnlyMoves(p)
  BY MovesTouch, OthersStay
<1>2. \A x \in Steps : Noted(x) => Noted(x)'
  BY <1>1, TouchesKeep
<1>3. CASE q # p
  <2>1. holder = q
    BY <1>3, OthersHolder, MigrationAssumption
  <2>2. UNCHANGED <<versions, facts, hits>>
    BY <1>1, <1>3, <2>1 DEF Touches, db
  <2>3. pc'[q] = pc[q] /\ at'[q] = at[q] /\ complete'[q] = complete[q] /\ seen'[q] = seen[q]
    BY <1>1, <1>3 DEF OnlyMoves
  <2>4. UNCHANGED <<Def(q), Cur(q)>>
    BY <2>3 DEF Def, Cur
  <2>5. Fresh(q) /\ Ordered(q) /\ AtHand(q)
    BY <2>1 DEF Knows
  <2>6. Fresh(q)'
    BY <2>2, <2>3, <2>4, <2>5 DEF Fresh
  <2>7. Ordered(q)'
    BY <2>2, <2>3, <2>4, <2>5 DEF Ordered, Noted
  <2>8. AtHand(q)'
    <3>1. faults \in Nat /\ faults' \in Nat /\ faults <= faults' /\ misjudged \subseteq misjudged'
      BY OthersHolder DEF Typed
    <3>2. pc[q] \in InStep => hits[Cur(q)] \in Nat
      BY Here DEF Typed
    <3>3. QED BY <2>2, <2>3, <2>4, <2>5, <3>1, <3>2 DEF AtHand
  <2>9. QED BY <2>6, <2>7, <2>8
<1>4. CASE q = p /\ GetLock(p)
  BY <1>4, GetLockKnows
<1>5. CASE q = p /\ ~GetLock(p)
  <2>1. holder = p /\ pc[p] \notin Waiting
    BY <1>5, OthersHolder DEF Places
  <2>2. Fresh(p) /\ Ordered(p) /\ AtHand(p)
    BY <2>1 DEF Knows
  <2>3. ~Stop(p) /\ ~FailVersion(p) /\ ~FindsSessionGone(p) /\ ~Release(p) /\ ~Dies(p) /\ ~SessionEnds(p)
        /\ ~Start(p) /\ ~LockTimesOut(p)
    BY <1>5, <2>1, MigrationAssumption
       DEF Stop, FailVersion, FindsSessionGone, Release, Dies, SessionEnds, Start, LockTimesOut, Alive, Waiting
  <2>4. \/ Bootstrap(p) \/ Read(p) \/ MarkVersion(p) \/ Choose(p) \/ CloseVersion(p)
        \/ Recover(p) \/ RecoverErrs(p) \/ StartStep(p) \/ Apply(p) \/ Verify(p) \/ Commit(p)
        \/ RecordStep(p) \/ FailStep(p) \/ StatementFails(p)
    BY <1>5, <2>3 DEF Moves, Progress, Faulty
  <2>5. QED
    BY <1>2, <1>5, <2>2, <2>3, <2>4, GetLockKnows, ReadKnows, MarkKnows, ChooseKnows, CloseKnows,
       StepKnows, StepEndKnows
<1>6. QED BY <1>3, <1>4, <1>5

LEMMA NobodyKnows ==
    ASSUME Typed, Places, Knows, Effects, GhostEnds \/ Drift \/ UNCHANGED vars
    PROVE  Knows' /\ Effects'
<1>1. UNCHANGED <<pc, at, complete, seen, versions, facts, misjudged, faults>>
  BY NobodyMoves DEF local
<1>2. CASE hits' = hits
  <2>1. ASSUME NEW p \in Procs, holder' = p
        PROVE  Fresh(p)' /\ Ordered(p)' /\ AtHand(p)'
    <3>1. Fresh(p) /\ Ordered(p) /\ AtHand(p)
      BY <2>1, NobodyMoves DEF Knows
    <3>2. UNCHANGED <<Def(p), Cur(p)>>
      BY <1>1 DEF Def, Cur
    <3>3. Fresh(p)'
      BY <1>1, <3>1, <3>2 DEF Fresh
    <3>4. Ordered(p)'
      BY <1>1, <3>1, <3>2 DEF Ordered, Noted
    <3>5. AtHand(p)'
      BY <1>1, <1>2, <3>1, <3>2 DEF AtHand
    <3>6. QED BY <3>3, <3>4, <3>5
  <2>2. drifts' = 0 => drifts = 0
    BY DEF GhostEnds, Drift, bounds, vars, Typed
  <2>3. QED BY <1>1, <1>2, <2>1, <2>2 DEF Knows, Effects, Noted
<1>3. CASE Drift /\ hits' # hits
  <2>1. \A p \in Procs : holder' # p
    BY <1>3, MigrationAssumption DEF Drift
  <2>2. drifts' # 0
    BY <1>3 DEF Drift, Typed
  <2>3. PICK x \in Steps : hits' = [hits EXCEPT ![x] = 0]
    BY <1>3, NobodyMoves
  <2>4. \A y \in Steps : hits'[y] = 0 \/ hits'[y] = hits[y]
    BY <2>3 DEF Typed
  <2>5. faults \in Nat
    BY DEF Typed
  <2>6. ASSUME NEW y \in Steps
        PROVE  /\ hits'[y] > 0 => y.kind # "check" /\ facts[y.key] # NoFact /\ facts[y.key].sum = y.sum
               /\ hits'[y] <= faults + 1
               /\ hits'[y] <= 1 \/ y \in misjudged
    BY <2>4, <2>5 DEF Effects
  <2>7. QED BY <1>1, <2>1, <2>2, <2>6 DEF Knows, Effects
<1>4. QED BY <1>2, <1>3, NobodyMoves

\* The knowledge of whoever has the lock and the truth about the effects depend on
\* each other: an effect is made because the record and the verification say that
\* it is missing.
LEMMA KnowsAlways == Spec => [](Knows /\ Effects)
<1>1. Init => Knows /\ Effects
  <2> SUFFICES ASSUME Init
               PROVE  Knows /\ Effects
    OBVIOUS
  <2>1. Knows
    BY MigrationAssumption DEF Init, Knows
  <2>2. \A x \in Steps : hits[x] = 0 /\ ~Noted(x) /\ faults = 0
    BY Shape DEF Init, Noted, Succeeded
  <2>3. QED BY <2>1, <2>2 DEF Effects
<1>2. Typed /\ Places /\ Knows /\ Effects /\ [Next]_vars => Knows' /\ Effects'
  <2> SUFFICES ASSUME Typed, Places, Knows, Effects, [Next]_vars
               PROVE  Knows' /\ Effects'
    OBVIOUS
  <2>1. ASSUME NEW p \in Procs, Moves(p)
        PROVE  Knows' /\ Effects'
    <3>1. Effects'
      BY <2>1, MovesTouch, OthersHolder, TouchesEffects DEF Typed
    <3>2. QED BY <2>1, <3>1, MovesKnow
  <2>2. CASE GhostEnds \/ Drift \/ UNCHANGED vars
    BY <2>2, NobodyKnows
  <2>3. QED BY <2>1, <2>2 DEF Next, Moves
<1>3. QED BY <1>1, <1>2, TypedAlways, PTL DEF Spec


-----------------------------------------------------------------------------

\* Every variable of the model keeps its type, and no step takes effect more often
\* than faults explain.
THEOREM TypeCorrect == Spec => []TypeOK
<1>1. Typed /\ Knows /\ Effects => TypeOK
  <2> SUFFICES ASSUME Typed, Effects
               PROVE  TypeOK
    OBVIOUS
  <2>1. MaxFaults \in Nat /\ faults \in 0..MaxFaults
    BY MigrationAssumption DEF Typed
  <2>2. hits \in [Steps -> 0..MaxFaults + 1]
    <3>1. \A x \in Steps : hits[x] \in 0..MaxFaults + 1
      BY <2>1 DEF Effects, Typed
    <3>2. QED BY <3>1 DEF Typed
  <2>3. QED BY <2>2 DEF Typed, TypeOK, InStep
<1>2. QED BY <1>1, TypedAlways, KnowsAlways, PTL

\* Whatever fails and whoever else starts: what updateStepStatus or
\* updateVersionStatus once recorded as SUCCEEDED is never written again.
THEOREM SuccessStays == Spec => SuccessIsFinal
<1> DEFINE Final == /\ \A k \in AllKeys : Succeeded(facts[k]) => facts'[k] = facts[k]
                    /\ \A n \in Versions : Succeeded(versions[n]) => versions'[n] = versions[n]
<1>1. Typed /\ Places /\ Knows /\ Effects /\ [Next]_vars => [Final]_vars
  <2> SUFFICES ASSUME Typed, Places, Knows, [Next]_vars
               PROVE  Final
    OBVIOUS
  <2>1. ASSUME NEW p \in Procs, Moves(p)
        PROVE  Final
    BY <2>1, MovesTouch, TouchesKeep
  <2>2. CASE GhostEnds \/ Drift \/ UNCHANGED vars
    BY <2>2, NobodyMoves
  <2>3. QED BY <2>1, <2>2 DEF Next, Moves
<1>2. QED BY <1>1, TypedAlways, KnowsAlways, PTL DEF Spec, SuccessIsFinal

\* No step takes effect twice, however often the processes die and start again,
\* unless the query of recovery erred on it: a process that comes back verifies a
\* step it finds begun before it executes it.
THEOREM EffectsOnce == Spec => []AppliedOnce
<1>1. Effects => AppliedOnce
  BY DEF Effects, AppliedOnce
<1>2. QED BY <1>1, KnowsAlways, PTL

\* Of two builds that disagree on a step, one executes it and the other refuses:
\* the record that precedes the effect carries the checksum.
THEOREM EffectsAreOwn == Spec => []NoForeignEffects
<1>1. Effects => NoForeignEffects
  BY Apart DEF Effects, NoForeignEffects
<1>2. QED BY <1>1, KnowsAlways, PTL


-----------------------------------------------------------------------------

\* All that a serving process requires was recorded when it released the lock, and
\* all that a definition requires when its version was closed.  The second needs
\* that definitions of one version and name list the same steps: whoever closes a
\* version goes through its own.
SameSteps ==
    \A d, e \in Defs : d.version = e.version /\ d.name = e.name =>
        Keys(RequiredIn(d)) = Keys(RequiredIn(e))

Served == \A p \in Procs : pc[p] = "serving" => \A x \in Required(p) : Noted(x)

Closed ==
    \A d \in Defs : Succeeded(versions[d.version]) /\ versions[d.version].name = d.name =>
        \A k \in Keys(RequiredIn(d)) : Succeeded(facts[k])

\* What a build requires is what its definitions require.
LEMMA Requires ==
    ASSUME NEW p \in Procs
    PROVE  /\ Required(p) \subseteq Steps
           /\ \A x \in Required(p) : \E v \in DOMAIN Manifest[p] : x \in RequiredIn(Manifest[p][v])
<1>1. \A x \in Required(p) : \E v \in DOMAIN Manifest[p] : x \in RequiredIn(Manifest[p][v])
  BY DEF Required, StepsOf, RequiredIn, Elems
<1>2. Required(p) \subseteq Steps
  BY <1>1, Shape DEF RequiredIn
<1>3. QED BY <1>1, <1>2

\* Only Release makes a process serve, and only its death ends that.
LEMMA Serves ==
    ASSUME Typed, Places, NEW p \in Procs, Moves(p)
    PROVE  /\ pc'[p] = "serving" /\ pc[p] # "serving" => Release(p)
           /\ pc[p] = "serving" /\ pc'[p] # "serving" => UNCHANGED db
<1> USE DEF Typed
<1>1. CASE Release(p) \/ SessionEnds(p)
  BY <1>1 DEF Release, SessionEnds, local
<1>2. CASE Start(p) \/ GetLock(p) \/ LockTimesOut(p) \/ Bootstrap(p) \/ MarkVersion(p) \/ StartStep(p)
           \/ Recover(p) \/ RecoverErrs(p) \/ Apply(p) \/ Verify(p) \/ Commit(p) \/ FailStep(p)
  BY <1>2 DEF Start, GetLock, LockTimesOut, Bootstrap, MarkVersion, StartStep, Recover, RecoverErrs,
              Apply, Verify, Commit, FailStep, At, Goto
<1>3. CASE FailVersion(p) \/ FindsSessionGone(p) \/ StatementFails(p)
  BY <1>3 DEF FailVersion, FindsSessionGone, StatementFails, Stop, Leave, At, Goto, Sends, Statement
<1>4. CASE Dies(p)
  <2>1. pc[p] = "serving" => holder # p
    BY DEF Places, Waiting
  <2>2. pc'[p] = "down"
    BY <1>4 DEF Dies, Leave, Goto
  <2>3. QED BY <1>4, <2>1, <2>2 DEF Dies, Alive
<1>5. CASE Read(p) \/ Choose(p) \/ CloseVersion(p) \/ RecordStep(p)
  BY <1>5 DEF Read, Choose, CloseVersion, RecordStep, Stop, Leave, At, Goto
<1>6. QED BY <1>1, <1>2, <1>3, <1>4, <1>5 DEF Moves, Progress, Faulty

LEMMA ServedAlways == Spec => []Served
<1>1. Init => Served
  BY DEF Init, Served
<1>2. Typed /\ Places /\ Knows /\ Effects /\ Served /\ [Next]_vars => Served'
  <2> SUFFICES ASSUME Typed, Places, Knows, Served, [Next]_vars,
                      NEW q \in Procs, pc'[q] = "serving", NEW x \in Required(q)
               PROVE  Noted(x)'
    BY DEF Served
  <2>1. ASSUME NEW p \in Procs, Moves(p)
        PROVE  Noted(x)'
    <3>1. Noted(x) => Noted(x)'
      BY <2>1, MovesTouch, TouchesKeep, Requires
    <3>2. CASE pc[q] = "serving"
      BY <3>1, <3>2 DEF Served
    <3>3. CASE pc[q] # "serving"
      <4>1. q = p /\ Release(p)
        BY <2>1, <3>3, OthersStay, Serves DEF OnlyMoves
      <4>2. Ordered(q) /\ pc[q] = "release"
        BY <4>1 DEF Release, At, Alive, Knows
      <4>3. Noted(x)
        BY <4>2, Requires DEF Ordered
      <4>4. QED BY <3>1, <4>3
    <3>4. QED BY <3>2, <3>3
  <2>2. CASE GhostEnds \/ Drift \/ UNCHANGED vars
    BY <2>2, NobodyMoves DEF local, Served, Noted
  <2>3. QED BY <2>1, <2>2 DEF Next, Moves
<1>3. QED BY <1>1, <1>2, TypedAlways, KnowsAlways, PTL DEF Spec

LEMMA ClosedAlways == SameSteps => (Spec => []Closed)
<1> SUFFICES ASSUME SameSteps
             PROVE  Spec => []Closed
  OBVIOUS
<1>1. Init => Closed
  BY Shape DEF Init, Closed, Succeeded
<1>2. Typed /\ Places /\ Knows /\ Effects /\ Closed /\ [Next]_vars => Closed'
  <2> SUFFICES ASSUME Typed, Places, Knows, Closed, [Next]_vars, NEW d \in Defs,
                      Succeeded(versions'[d.version]), versions'[d.version].name = d.name,
                      NEW k \in Keys(RequiredIn(d))
               PROVE  Succeeded(facts'[k])
    BY DEF Closed, Succeeded
  <2>1. ASSUME NEW p \in Procs, Moves(p)
        PROVE  Succeeded(facts'[k])
    <3>1. Touches(p)
      BY <2>1, MovesTouch
    <3>2. k \in AllKeys
      BY Shape DEF Keys, RequiredIn
    <3>3. Succeeded(facts[k]) => Succeeded(facts'[k])
      BY <3>1, <3>2, TouchesKeep
    <3>4. CASE versions'[d.version] = versions[d.version]
      BY <3>3, <3>4 DEF Closed
    <3>5. CASE versions'[d.version] # versions[d.version]
      <4>1. holder = p /\ Notes(p)
        BY <3>1, <3>5 DEF Touches, db, Tells, SetFact, Hit
      <4>2. PICK st \in Status : SetVersion(p, st) /\ (st = "SUCCEEDED" => pc[p] = "close")
        BY <4>1 DEF Notes
      <4>3. /\ d.version = Def(p).version /\ d.name = Def(p).name /\ pc[p] = "close"
            /\ UNCHANGED facts
        BY <3>5, <4>2, Shape DEF SetVersion, Typed, Succeeded
      <4>4. PICK x \in RequiredIn(Def(p)) : x.key = k
        BY <4>3, Here DEF SameSteps, Keys
      <4>5. PICK i \in DOMAIN Def(p).steps : x = Def(p).steps[i] /\ ~Def(p).steps[i].cleanup
        BY <4>4 DEF RequiredIn, Elems
      <4>6. i < at[p].s
        BY <4>3, Here, Shape DEF Places, Typed
      <4>7. Noted(x)
        BY <4>1, <4>3, <4>5, <4>6 DEF Knows, Ordered, InVersion
      <4>8. QED BY <4>3, <4>4, <4>7 DEF Noted
    <3>6. QED BY <3>4, <3>5
  <2>2. CASE GhostEnds \/ Drift \/ UNCHANGED vars
    BY <2>2, NobodyMoves DEF Closed
  <2>3. QED BY <2>1, <2>2 DEF Next, Moves
<1>3. QED BY <1>1, <1>2, TypedAlways, KnowsAlways, PTL DEF Spec


\* The control tables are true, as long as nobody removes what a step created:
\* a step recorded as SUCCEEDED has its effect, a version recorded as SUCCEEDED
\* has all its required steps recorded.
THEOREM RecordsAreTrue == MaxDrifts = 0 /\ SameSteps => (Spec => []FactsAreTrue)
<1> SUFFICES ASSUME MaxDrifts = 0, SameSteps
             PROVE  Spec => []FactsAreTrue
  OBVIOUS
<1>1. Typed /\ Places /\ Knows /\ Effects /\ Closed => FactsAreTrue
  <2> SUFFICES ASSUME Typed, Effects, Closed
               PROVE  FactsAreTrue
    OBVIOUS
  <2>1. drifts = 0
    BY DEF Typed
  <2>2. QED BY <2>1 DEF Effects, Closed, FactsAreTrue, Noted, Keys
<1>2. Spec => []Closed
  BY ClosedAlways
<1>3. QED BY <1>1, <1>2, TypedAlways, KnowsAlways, PTL

\* A process that serves stands on a database that has the record and the effect of
\* everything its build requires, whatever other builds did since it started.
THEOREM ServesMigrated == MaxDrifts = 0 => (Spec => []ServingIsMigrated)
<1> SUFFICES ASSUME MaxDrifts = 0
             PROVE  Spec => []ServingIsMigrated
  OBVIOUS
<1>1. Typed /\ Places /\ Knows /\ Effects /\ Served => ServingIsMigrated
  <2> SUFFICES ASSUME Typed, Effects, Served, NEW p \in Procs, pc[p] = "serving", NEW x \in Required(p)
               PROVE  /\ Succeeded(facts[x.key]) /\ facts[x.key].sum = x.sum
                      /\ x.kind # "check" => hits[x] > 0
    BY DEF ServingIsMigrated
  <2>1. drifts = 0
    BY DEF Typed
  <2>2. Noted(x) /\ x \in Steps
    BY Requires DEF Served
  <2>3. QED BY <2>1, <2>2 DEF Effects, Noted
<1>2. QED BY <1>1, ServedAlways, TypedAlways, KnowsAlways, PTL

-----------------------------------------------------------------------------

\* Effect, record and service of a step, as SchemaHistory sees them.
Made == {x \in Steps : hits[x] > 0}
Kept == {x \in Steps : Succeeded(facts[x.key]) /\ facts[x.key].sum = x.sum}
Serving == {p \in Procs : pc[p] = "serving"}

\* The step at hand is of the plan of its build, and due.
LEMMA HandIsDue ==
    ASSUME Typed, Places, NEW p \in Procs, Ordered(p), pc[p] \in InStep
    PROVE  Cur(p) \in Required(p) /\ Before(p, Cur(p)) \subseteq Kept
<1>1. /\ Def(p) \in Defs /\ at[p].s \in DOMAIN Def(p).steps /\ Cur(p) = Def(p).steps[at[p].s]
      /\ Cur(p) \in Elems(Def(p).steps) /\ ~Cur(p).cleanup
      /\ at[p].v \in DOMAIN Manifest[p] /\ DOMAIN Manifest[p] = 1..Len(Manifest[p])
      /\ DOMAIN Def(p).steps = 1..Len(Def(p).steps)
  BY Here, Shape DEF Cur, Places, Typed
<1>2. Cur(p) \in Required(p)
  BY <1>1 DEF Required, StepsOf, Elems, Def
<1>3. ASSUME NEW j \in DOMAIN Manifest[p], Cur(p) \in Elems(Manifest[p][j].steps)
      PROVE  j = at[p].v
  <2>1. Manifest[p][j] \in Defs
    BY Shape
  <2>2. Manifest[p][j].version = Def(p).version
    <3>1. Cur(p).key \in KeysIn(Def(p).version) /\ Cur(p).key \in Keys(Elems(Manifest[p][j].steps))
      BY <1>3, Here DEF Keys
    <3>2. QED BY <1>1, <2>1, <3>1, Apart
  <2>3. ~(j < at[p].v)
    <3>1. j < at[p].v => Manifest[p][j].version < Manifest[p][at[p].v].version
      BY <1>1, MigrationAssumption
    <3>2. Manifest[p][j].version \in Nat
      BY <2>1, MigrationAssumption
    <3>3. QED BY <2>2, <3>1, <3>2 DEF Def
  <2>4. ~(at[p].v < j)
    <3>1. at[p].v < j => Manifest[p][at[p].v].version < Manifest[p][j].version
      BY <1>1, MigrationAssumption
    <3>2. Manifest[p][j].version \in Nat
      BY <2>1, MigrationAssumption
    <3>3. QED BY <2>2, <3>1, <3>2 DEF Def
  <2>5. QED BY <1>1, <2>3, <2>4
<1>4. ASSUME NEW y \in Before(p, Cur(p))
      PROVE  y \in Steps /\ Noted(y)
  <2>1. y \in Required(p) /\ y \in Steps /\ ~y.cleanup
    BY <1>4, Requires DEF Before, Required
  <2>2. PICK i \in DOMAIN Manifest[p], j \in DOMAIN Manifest[p] :
            /\ y \in Elems(Manifest[p][i].steps) /\ Cur(p) \in Elems(Manifest[p][j].steps)
            /\ \/ i < j
               \/ i = j /\ \E m, n \in DOMAIN Manifest[p][i].steps :
                    Manifest[p][i].steps[m] = y /\ Manifest[p][i].steps[n] = Cur(p) /\ m < n
    BY <1>4 DEF Before
  <2>3. j = at[p].v
    BY <1>3, <2>2
  <2>4. CASE i < j
    <3>1. y \in RequiredIn(Manifest[p][i])
      BY <2>1, <2>2 DEF RequiredIn
    <3>2. QED BY <2>1, <2>3, <2>4, <3>1 DEF Ordered
  <2>5. CASE i = j
    <3> ~(i < j) /\ Manifest[p][i] = Def(p)
      BY <1>1, <2>3, <2>5, Shape DEF Def
    <3>1. PICK m \in DOMAIN Def(p).steps, n \in DOMAIN Def(p).steps :
              Def(p).steps[m] = y /\ Def(p).steps[n] = Cur(p) /\ m < n
      BY <2>2
    <3>2. n = at[p].s
      BY <1>1, <3>1, Apart
    <3>3. QED BY <2>1, <3>1, <3>2 DEF Ordered, InVersion
  <2>6. QED BY <1>1, <2>2, <2>4, <2>5
<1>5. QED BY <1>2, <1>4 DEF Kept, Noted

\* What one process does to the database is a step of the history, or none.
LEMMA TouchesMakeHistory ==
    ASSUME Typed, Places, Knows, Effects, NEW p \in Procs, Touches(p)
    PROVE  \/ UNCHANGED <<Made, Kept>>
           \/ \E x \in Required(p) :
                /\ Before(p, x) \subseteq Kept
                /\ \/ /\ x.kind # "check" /\ x \in Steps \ Made
                      /\ Made' = Made \cup {x} /\ UNCHANGED Kept
                   \/ /\ x.kind # "check" => x \in Made
                      /\ Kept' = Kept \cup {x} /\ UNCHANGED Made
<1>1. CASE UNCHANGED db
  BY <1>1 DEF db, Made, Kept
<1>2. CASE Notes(p)
  BY <1>2 DEF Notes, SetVersion, Made, Kept
<1>3. ASSUME pc[p] \in InStep, holder = p
      PROVE  /\ Cur(p) \in Required(p) /\ Before(p, Cur(p)) \subseteq Kept
             /\ Cur(p) \in Steps /\ Cur(p).key \in AllKeys
             /\ Fresh(p) /\ AtHand(p)
  BY <1>3, Here, HandIsDue DEF Knows
<1>4. CASE holder = p /\ pc[p] \in {"start", "record", "failStep"} /\ Tells(p)
  <2>1. PICK st \in Status : SetFact(p, st) /\ (st = "SUCCEEDED" => pc[p] = "record")
    BY <1>4 DEF Tells
  <2>2. pc[p] \in InStep
    BY <1>4 DEF InStep
  <2>3. /\ facts'[Cur(p).key] = [sum |-> Cur(p).sum, status |-> st]
        /\ facts'[Cur(p).key] # NoFact
        /\ \A k \in AllKeys \ {Cur(p).key} : facts'[k] = facts[k]
        /\ UNCHANGED hits
    BY <1>3, <1>4, <2>1, <2>2, SetFactIs
  <2>4. ~Succeeded(facts[Cur(p).key])
    BY <1>3, <1>4, <2>2 DEF AtHand
  <2>5. UNCHANGED Made
    BY <2>3 DEF Made
  <2>6. CASE st = "SUCCEEDED"
    <3>1. Cur(p).kind # "check" => Cur(p) \in Made
      BY <1>3, <1>4, <2>1, <2>2, <2>6 DEF AtHand, Made
    <3>2. ASSUME NEW x \in Steps
          PROVE  x \in Kept' <=> x \in Kept \cup {Cur(p)}
      <4>1. CASE x.key = Cur(p).key
        BY <1>3, <1>4, <2>2, <2>3, <2>4, <2>6, <4>1, Apart DEF Kept, Succeeded
      <4>2. CASE x.key # Cur(p).key
        BY <2>3, <4>2, Shape DEF Kept
      <4>3. QED BY <4>1, <4>2
    <3>3. Kept' = Kept \cup {Cur(p)}
      BY <1>3, <1>4, <2>2, <3>2 DEF Kept
    <3>4. QED BY <1>3, <1>4, <2>2, <2>5, <3>1, <3>3
  <2>7. CASE st # "SUCCEEDED"
    <3>1. ASSUME NEW x \in Steps
          PROVE  x \in Kept' <=> x \in Kept
      <4>1. CASE x.key = Cur(p).key
        BY <2>3, <2>4, <2>7, <4>1 DEF Kept, Succeeded
      <4>2. CASE x.key # Cur(p).key
        BY <2>3, <4>2, Shape DEF Kept
      <4>3. QED BY <4>1, <4>2
    <3>2. UNCHANGED Kept
      BY <3>1 DEF Kept
    <3>3. QED BY <2>5, <3>2
  <2>8. QED BY <2>6, <2>7
<1>5. CASE holder = p /\ Hits(p) /\ Hit(p)
  <2>1. pc[p] \in InStep /\ Cur(p).kind # "check"
    BY <1>3, <1>5 DEF Hits, InStep, AtHand
  <2>2. UNCHANGED Kept
    BY <1>5 DEF Hit, Kept
  <2>3. /\ hits'[Cur(p)] = hits[Cur(p)] + 1 /\ hits[Cur(p)] \in Nat
        /\ \A x \in Steps \ {Cur(p)} : hits'[x] = hits[x]
    BY <1>3, <1>5, <2>1 DEF Hit, Typed
  <2>4. Made' = Made \cup {Cur(p)}
    <3>1. ASSUME NEW x \in Steps
          PROVE  x \in Made' <=> x \in Made \cup {Cur(p)}
      BY <2>3 DEF Made
    <3>2. QED BY <1>3, <1>5, <2>1, <3>1 DEF Made
  <2>5. QED BY <1>3, <1>5, <2>1, <2>2, <2>4
<1>6. QED BY <1>1, <1>2, <1>4, <1>5 DEF Touches


\* Without changes by hand, the runs of any number of processes, with all their
\* failures, look as if each build went through its plan in order, every effect was
\* made once before its record, and a build served at the end of its plan.
THEOREM HistoryImplemented == MaxDrifts = 0 => (Spec => ImplementsHistory)
<1> SUFFICES ASSUME MaxDrifts = 0
             PROVE  Spec => ImplementsHistory
  OBVIOUS
<1> DEFINE Plan == [p \in Procs |-> PlanOf(p)]
<1>1. Init => History!Init
  <2> SUFFICES ASSUME Init
               PROVE  History!Init
    OBVIOUS
  <2>1. Made = {}
    BY DEF Init, Made
  <2>2. Kept = {}
    BY Shape DEF Init, Kept, Succeeded
  <2>3. Serving = {}
    BY DEF Init, Serving
  <2>4. QED BY <2>1, <2>2, <2>3 DEF History!Init, Made, Kept, Serving
<1>2. Typed /\ Places /\ Knows /\ Effects /\ Served /\ [Next]_vars => [History!Next]_(History!vars)
  <2> SUFFICES ASSUME Typed, Places, Knows, Effects, Served, [Next]_vars
               PROVE  [History!Next]_(History!vars)
    OBVIOUS
  <2> HIDE DEF Plan
  <2>0. /\ \A p \in Procs : Plan[p] = PlanOf(p) /\ DOMAIN PlanOf(p) = Required(p)
        /\ \A p \in Procs : \A x \in Required(p) : PlanOf(p)[x] = Before(p, x)
    BY DEF Plan, PlanOf
  <2>1. ASSUME NEW p \in Procs, Moves(p)
        PROVE  [History!Next]_(History!vars)
    <3>1. \A q \in Procs \ {p} : pc'[q] = pc[q]
      BY <2>1, OthersStay DEF OnlyMoves
    <3>2. Touches(p)
      BY <2>1, MovesTouch
    <3>3. CASE pc[p] # "serving" /\ pc'[p] = "serving"
      <4>1. Release(p)
        BY <2>1, <3>3, Serves
      <4>2. UNCHANGED <<Made, Kept>>
        BY <4>1 DEF Release, db, Made, Kept
      <4>3. Required(p) \subseteq Kept
        <5>1. Ordered(p) /\ pc[p] = "release"
          BY <4>1 DEF Release, At, Alive, Knows
        <5>2. QED BY <5>1, Requires DEF Ordered, Kept, Noted
      <4>4. Serving' = Serving \cup {p}
        BY <3>1, <3>3 DEF Serving
      <4>5. History!Serve(p)
        BY <2>0, <4>2, <4>3, <4>4 DEF History!Serve, Made, Kept, Serving, Plan
      <4>6. QED BY <4>5 DEF History!Next
    <3>4. CASE pc[p] = "serving" /\ pc'[p] # "serving"
      <4>1. UNCHANGED db
        BY <2>1, <3>4, Serves
      <4>2. UNCHANGED <<Made, Kept>>
        BY <4>1 DEF db, Made, Kept
      <4>3. Serving' = Serving \ {p}
        BY <3>1, <3>4 DEF Serving
      <4>4. History!Exit(p)
        BY <4>2, <4>3 DEF History!Exit, Made, Kept, Serving
      <4>5. QED BY <4>4 DEF History!Next
    <3>5. CASE pc[p] = "serving" <=> pc'[p] = "serving"
      <4>1. UNCHANGED Serving
        BY <3>1, <3>5 DEF Serving
      <4>2. CASE UNCHANGED <<Made, Kept>>
        BY <4>1, <4>2 DEF History!vars, Made, Kept, Serving
      <4>3. ASSUME NEW x \in Required(p), Before(p, x) \subseteq Kept,
                   x.kind # "check", x \in Steps \ Made, Made' = Made \cup {x}, UNCHANGED Kept
            PROVE  [History!Next]_(History!vars)
        <5>1. History!Perform(p, x)
          BY <2>0, <4>1, <4>3 DEF History!Perform, History!Due, Made, Kept, Serving, Plan
        <5>2. QED BY <2>0, <5>1 DEF History!Next, Plan
      <4>4. ASSUME NEW x \in Required(p), Before(p, x) \subseteq Kept,
                   x.kind # "check" => x \in Made, Kept' = Kept \cup {x}, UNCHANGED Made
            PROVE  [History!Next]_(History!vars)
        <5>1. History!Record(p, x)
          BY <2>0, <4>1, <4>4 DEF History!Record, History!Due, Made, Kept, Serving, Plan
        <5>2. QED BY <2>0, <5>1 DEF History!Next, Plan
      <4>5. QED BY <3>2, <4>2, <4>3, <4>4, TouchesMakeHistory
    <3>6. QED BY <3>3, <3>4, <3>5
  <2>2. CASE GhostEnds \/ Drift \/ UNCHANGED vars
    <3>1. ~Drift
      BY DEF Drift, Typed
    <3>2. UNCHANGED <<pc, facts, hits>>
      BY <2>2, <3>1, NobodyMoves DEF local
    <3>3. QED BY <3>2 DEF History!vars
  <2>3. QED BY <2>1, <2>2 DEF Next, Moves
<1>3. QED BY <1>1, <1>2, ServedAlways, TypedAlways, KnowsAlways, PTL DEF Spec, ImplementsHistory, History!Spec
=============================================================================
