----------------------------- MODULE LifecycleProofs -----------------------------
(***************************************************************************)
(* Theorems about Lifecycle, for any number of requests and whatever an    *)
(* early stop() does to the listener.                                      *)
(***************************************************************************)
EXTENDS Lifecycle, TLAPS

\* Where main is before it starts, while the server may exist, and after that.
Early == {"hookInt", "hookTerm", "watch"}
Whole == {"bind", "poll", "pollRunning", "confirm", "health", "wait"}
Up == {"start"} \cup Whole \cup {"stop", "join", "reset"}
Late == {"unhook", "joinWatcher", "restore", "exited", "killed"}

Live == {"starting", "accepting", "draining", "ended"}
AllStages == {Stages[i] : i \in DOMAIN Stages}

Typed ==
    /\ pc \in Early \cup Up \cup Late
    /\ stage \in 1..Len(Stages)
    /\ code \in {0, 1}
    /\ \E k \in 0..Len(Objects) : alive = Built(k)
    /\ listener \in {"none", "joined"} \cup Live
    /\ asked \in BOOLEAN /\ requests \in Nat /\ stopRequested \in BOOLEAN
    /\ hooked \subseteq Signals
    /\ watcher \in {"none", "polling", "requesting", "returned", "joined"}

\* Outside the start and the teardown there is nothing, and a live listener has
\* everything.
Structure ==
    /\ pc \notin Up => alive = {}
    /\ pc = "start" /\ stage = 1 => alive = {}
    /\ pc \in Whole \/ listener \in Live => alive = Object /\ passed = AllStages
    /\ pc \in Early => stage = 1
    /\ pc \in Early \cup {"start"} => passed = {Stages[i] : i \in 1..stage - 1}
    /\ pc \notin (Whole \ {"bind"}) \cup {"stop", "join"} => listener \notin Live
    /\ pc \in Early \cup {"start", "bind"} => listener = "none"
    /\ requests > 0 => listener \in {"accepting", "draining"}

\* The handlers stay installed as long as anything exists; the watcher is joined
\* before they are removed.
Bridge ==
    /\ pc = "hookInt" => hooked = {}
    /\ pc = "hookTerm" => hooked = {"INT"}
    /\ pc \in Up \cup {"watch"} => hooked = Signals
    /\ pc = "exited" => hooked = {}
    /\ pc \in Early => watcher = "none"
    /\ pc \in {"restore", "exited"} => watcher \in {"none", "joined"}

\* The code becomes 0 in the wait only, when the listener is past its beginning.
Outcome ==
    /\ code = 0 => stopRequested /\ passed = AllStages /\ pc \in {"stop", "join", "reset"} \cup Late
    /\ pc \in {"confirm", "health", "wait"} \/ (code = 0 /\ pc \in {"stop", "join"})
            => listener \notin {"none", "starting"}
    /\ pc = "join" /\ code = 0 => asked \/ listener # "accepting"

IInv == Typed /\ Structure /\ Bridge /\ Outcome


-----------------------------------------------------------------------------

LEMMA ObjectsAre ==
    /\ Len(Objects) = 7 /\ DOMAIN Objects = 1..7
    /\ Objects[1] = "library" /\ Objects[2] = "pool" /\ Objects[3] = "units"
    /\ Objects[4] = "sessions" /\ Objects[5] = "passwords"
    /\ Objects[6] = "application" /\ Objects[7] = "server"
BY DEF Objects

LEMMA StagesAre ==
    /\ Len(Stages) = 7 /\ DOMAIN Stages = 1..7
    /\ Stages[1] = "configuration" /\ Stages[2] = "runtime" /\ Stages[3] = "pool"
    /\ Stages[4] = "migrations" /\ Stages[5] = "checks"
    /\ Stages[6] = "application" /\ Stages[7] = "api"
BY DEF Stages

\* What is built first is what the rest needs.
LEMMA BuiltIs ==
    /\ Built(0) = {} /\ Built(7) = Object /\ "server" \in Object
    /\ \A k \in 0..7 : /\ Built(k) = {} => k = 0
                       /\ \A o \in Built(k) : Needs(o) \subseteq Built(k)
<1>1. Built(0) = {} /\ Built(7) = Object /\ "server" \in Object
  BY ObjectsAre DEF Built, Object
<1>2. ASSUME NEW k \in 0..7, Built(k) = {}
      PROVE  k = 0
  <2>1. k >= 1 => Objects[1] \in Built(k)
    BY DEF Built
  <2>2. QED BY <1>2, <2>1
<1>3. ASSUME NEW k \in 0..7, NEW o \in Built(k)
      PROVE  Needs(o) \subseteq Built(k)
  <2>1. PICK i \in 1..k : o = Objects[i]
    BY DEF Built
  <2>2. \A j \in 1..7 : j < i => Objects[j] \in Built(k)
    BY DEF Built
  <2>3. CASE i = 2
    BY <2>1, <2>2, <2>3, ObjectsAre DEF Needs
  <2>4. CASE i = 3
    BY <2>1, <2>2, <2>4, ObjectsAre DEF Needs
  <2>5. CASE i = 6
    BY <2>1, <2>2, <2>5, ObjectsAre DEF Needs
  <2>6. CASE i = 7
    BY <2>1, <2>2, <2>6, ObjectsAre DEF Needs
  <2>7. CASE i \in {1, 4, 5}
    BY <2>1, <2>7, ObjectsAre DEF Needs
  <2>8. QED BY <2>3, <2>4, <2>5, <2>6, <2>7
<1>4. QED BY <1>1, <1>2, <1>3

\* How much is built.
LEMMA HaveIs ==
    ASSUME Typed
    PROVE  Have \in 0..7 /\ alive = Built(Have)
BY ObjectsAre DEF Typed, Have

LEMMA BuildsIs ==
    \A i \in 1..7 : Builds(Stages[i]) \in 0..7 /\ (i = 7 => Builds(Stages[i]) = 7)
<1> SUFFICES ASSUME NEW i \in 1..7
             PROVE  Builds(Stages[i]) \in 0..7 /\ (i = 7 => Builds(Stages[i]) = 7)
  OBVIOUS
<1>1. CASE i = 1
  BY <1>1, StagesAre DEF Builds
<1>2. CASE i = 2
  BY <1>2, StagesAre DEF Builds
<1>3. CASE i \in {3, 4, 5}
  BY <1>3, StagesAre DEF Builds
<1>4. CASE i = 6
  BY <1>4, StagesAre DEF Builds
<1>5. CASE i = 7
  BY <1>5, StagesAre DEF Builds
<1>6. QED BY <1>1, <1>2, <1>3, <1>4, <1>5

\* A failed stage leaves a beginning of the objects, the first one nothing.
LEMMA CouldHaveIs ==
    ASSUME Typed, pc = "start"
    PROVE  /\ CouldHave(Stages[stage]) \subseteq 0..7
           /\ stage = 1 => CouldHave(Stages[stage]) = {Have}
<1>1. stage \in 1..7 /\ Have \in 0..7 /\ Builds(Stages[stage]) \in 0..7
  BY StagesAre, BuildsIs, HaveIs DEF Typed
<1>2. stage = 1 => CouldHave(Stages[stage]) = {Have}
  BY <1>1, StagesAre DEF CouldHave, Builds
<1>3. QED BY <1>1, <1>2 DEF CouldHave


LEMMA Begins == Init => IInv
<1> SUFFICES ASSUME Init
             PROVE  IInv
  OBVIOUS
<1>1. Typed
  <2>1. 0 \in 0..Len(Objects) /\ 1 \in 1..Len(Stages)
    BY ObjectsAre, StagesAre
  <2>2. \E k \in 0..Len(Objects) : alive = Built(k)
    BY <2>1, BuiltIs DEF Init
  <2>3. QED BY <2>1, <2>2 DEF Init, Typed, Early
<1>2. QED BY <1>1 DEF Init, IInv, Structure, Bridge, Outcome, Early, Up, Late, Whole, Live

-----------------------------------------------------------------------------
(* The actions, one by one. *)

\* The actions that touch neither the platform nor what start() passed.
Hooks == HookInt \/ HookTerm \/ SpawnWatcher \/ Unhook \/ JoinWatcher \/ Restore

LEMMA HooksStep == ASSUME IInv, Hooks PROVE IInv'
<1> USE DEF IInv
<1>1. UNCHANGED <<startVars, alive, serverVars, stopRequested>>
  BY DEF Hooks, HookInt, HookTerm, SpawnWatcher, Unhook, JoinWatcher, Restore
<1>2. /\ pc \notin Up
      /\ pc \in Early => pc' \in Early \cup {"start", "unhook"} /\ (pc' = "start" => pc = "watch")
      /\ pc \notin Early => pc' \in Late
      /\ pc # "killed" /\ pc # "exited"
  BY DEF Hooks, HookInt, HookTerm, SpawnWatcher, Unhook, JoinWatcher, Restore, Go, Early, Up, Whole, Late
<1>3. /\ hooked' \subseteq Signals
      /\ watcher' \in {"none", "polling", "requesting", "returned", "joined"}
  BY DEF Hooks, HookInt, HookTerm, SpawnWatcher, Unhook, JoinWatcher, Restore, Signals, Typed
<1>4. Typed'
  BY <1>1, <1>2, <1>3 DEF Typed, startVars, serverVars, Early, Up, Late
<1>5. Structure'
  BY <1>1, <1>2 DEF Structure, startVars, serverVars, Early, Up, Whole, Late
<1>6. Bridge'
  BY <1>2 DEF Bridge, Typed, Hooks, HookInt, HookTerm, SpawnWatcher, Unhook, JoinWatcher, Restore, Go,
              Early, Up, Whole, Late, Signals
<1>7. Outcome'
  BY <1>1, <1>2 DEF Outcome, startVars, serverVars, Early, Up, Whole, Late
<1>8. QED BY <1>4, <1>5, <1>6, <1>7

LEMMA StartStep == ASSUME IInv, StageSucceeds \/ StageFails PROVE IInv'
<1> USE DEF IInv
<1>1. /\ pc = "start" /\ stage \in 1..7 /\ listener = "none" /\ code \in {0, 1} /\ code # 0
      /\ UNCHANGED <<code, serverVars, signalVars>>
  BY StagesAre DEF Typed, Structure, Outcome, StageSucceeds, StageFails, Early, Up, Whole, Late, startVars
<1>2. passed = {Stages[i] : i \in 1..stage - 1}
  BY <1>1 DEF Structure
<1>3. CASE StageSucceeds
  <2>1. /\ alive' = Built(Builds(Stages[stage]))
        /\ passed' = {Stages[i] : i \in 1..stage}
    <3>1. 1..stage = (1..stage - 1) \cup {stage}
      BY <1>1
    <3>2. QED BY <1>2, <1>3, <3>1 DEF StageSucceeds
  <2>2. \/ pc' = "start" /\ stage' = stage + 1 /\ stage' \in 2..7 /\ 1..stage' - 1 = 1..stage
        \/ pc' = "bind" /\ stage' = stage /\ stage = 7
    BY <1>1, <1>3, StagesAre DEF StageSucceeds
  <2>3. \E k \in 0..Len(Objects) : alive' = Built(k)
    BY <1>1, <2>1, BuildsIs, ObjectsAre
  <2>4. pc' = "bind" => alive' = Object /\ passed' = AllStages
    BY <2>1, <2>2, BuildsIs, BuiltIs, StagesAre DEF AllStages
  <2>5. Typed'
    BY <1>1, <2>2, <2>3, StagesAre DEF Typed, serverVars, signalVars, Up, Whole
  <2>6. Structure'
    BY <1>1, <2>1, <2>2, <2>4 DEF Structure, serverVars, Early, Up, Whole, Late, Live
  <2>7. QED BY <1>1, <2>2, <2>5, <2>6 DEF Bridge, Outcome, signalVars, serverVars, Early, Up, Whole, Late
<1>4. CASE StageFails
  <2>1. /\ pc' \in {"stop", "unhook"} /\ UNCHANGED startVars
        /\ pc' = "unhook" => stage = 1
    BY <1>4 DEF StageFails
  <2>2. PICK k \in 0..7 : alive' = Built(k) /\ (stage = 1 => k = Have)
    BY <1>1, <1>4, CouldHaveIs DEF StageFails
  <2>3. stage = 1 => alive' = {}
    BY <1>1, <2>2, HaveIs DEF Structure
  <2>4. Typed'
    BY <1>1, <2>1, <2>2, ObjectsAre DEF Typed, startVars, serverVars, signalVars, Up, Late
  <2>5. Structure'
    BY <1>1, <2>1, <2>3 DEF Structure, serverVars, Early, Up, Whole, Late, Live
  <2>6. QED BY <1>1, <2>1, <2>4, <2>5 DEF Bridge, Outcome, startVars, signalVars, serverVars, Early, Up, Whole, Late
<1>5. QED BY <1>3, <1>4

\* Main while it watches the listener, and tears it down.
Watches == Bind \/ Poll \/ PollExpires \/ PollRunning \/ Health \/ Wait \/ StopServer \/ JoinListener

LEMMA WatchesStep == ASSUME IInv, Watches PROVE IInv'
<1> USE DEF IInv
<1>1. /\ pc \in Whole \cup {"stop", "join"} /\ pc' \in Whole \cup {"stop", "join", "reset"}
      /\ pc' # "bind" /\ (pc' \in Whole => pc \in Whole)
      /\ UNCHANGED <<stage, passed, alive, requests, signalVars>>
  BY DEF Watches, Bind, Poll, PollExpires, PollRunning, Health, Wait, StopServer, JoinListener, Go,
         Whole, startVars, serverVars
<1>2. /\ code' \in {0, 1} /\ (code' = 0 /\ code # 0 => stopRequested /\ pc = "wait" /\ pc' = "stop")
      /\ pc' \in Whole => code' = code
  BY DEF Typed, Watches, Bind, Poll, PollExpires, PollRunning, Health, Wait, StopServer, JoinListener, Go,
         Whole, startVars
<1>3. /\ listener' \in {"none", "joined"} \cup Live /\ asked' \in BOOLEAN
      /\ listener' \in Live => listener \in Live \/ pc = "bind"
      /\ listener' # listener => listener' \in {"joined", "starting"}
      /\ listener' # listener /\ listener' = "starting" => pc = "bind" /\ pc' = "poll"
      /\ listener' # listener /\ listener' = "joined" => listener \in {"ended", "joined"}
      /\ pc' = "reset" => listener' \notin Live
  BY LifecycleAssumption
     DEF Typed, Watches, Bind, Poll, PollExpires, PollRunning, Health, Wait, StopServer, JoinListener, Go,
         Whole, serverVars, Live
<1>4. Typed'
  BY <1>1, <1>2, <1>3 DEF Typed, signalVars, Up
<1>5. Structure'
  BY <1>1, <1>3 DEF Structure, Early, Up, Whole, Late, Live
<1>6. Bridge'
  BY <1>1 DEF Bridge, signalVars, Early, Up, Whole
<1>7. Outcome'
  <2>1. code' = 0 => stopRequested' /\ passed' = AllStages /\ pc' \in {"stop", "join", "reset"}
    BY <1>1, <1>2 DEF Outcome, Structure, signalVars, Whole, Late
  <2>2. pc' \in {"confirm", "health", "wait"} \/ (code' = 0 /\ pc' \in {"stop", "join"})
            => listener' \notin {"none", "starting"}
    BY <1>1, <1>2 DEF Outcome, Structure, Typed, Watches, Bind, Poll, PollExpires, PollRunning, Health, Wait,
             StopServer, JoinListener, Go, Whole, Late, serverVars, startVars, IsRunning
  <2>3. pc' = "join" /\ code' = 0 => asked' \/ listener' # "accepting"
    BY <1>2 DEF Outcome, Watches, Bind, Poll, PollExpires, PollRunning, Health, Wait,
             StopServer, JoinListener, Go, serverVars, startVars
  <2>4. QED BY <2>1, <2>2, <2>3 DEF Outcome
<1>8. QED BY <1>4, <1>5, <1>6, <1>7

LEMMA ResetStep == ASSUME IInv, Reset PROVE IInv'
<1> USE DEF IInv
<1>1. /\ pc = "reset" /\ UNCHANGED <<startVars, serverVars, signalVars>>
      /\ \/ alive = {} /\ pc' = "unhook" /\ alive' = alive
         \/ alive # {} /\ pc' = "reset" /\ alive' = Built(Have - 1)
  BY DEF Reset
<1>2. \E k \in 0..Len(Objects) : alive' = Built(k)
  <2>1. CASE alive = {}
    BY <1>1, <2>1 DEF Typed
  <2>2. CASE alive # {}
    <3>1. Have \in 0..7 /\ Have # 0
      BY <2>2, HaveIs, BuiltIs
    <3>2. QED BY <1>1, <2>2, <3>1, ObjectsAre
  <2>3. QED BY <2>1, <2>2
<1>3. Typed'
  BY <1>1, <1>2 DEF Typed, startVars, serverVars, signalVars, Up, Late
<1>4. Structure'
  BY <1>1 DEF Structure, startVars, serverVars, Early, Up, Whole, Late, Live, Typed
<1>5. QED BY <1>1, <1>3, <1>4 DEF Bridge, Outcome, startVars, serverVars, signalVars, Early, Up, Whole, Late

\* The other threads.
LEMMA ListenerStep ==
    ASSUME IInv, ListenerRuns \/ ListenerFails \/ ListenerStops \/ Accept \/ Answer
    PROVE  IInv'
<1> USE DEF IInv
<1>1. /\ UNCHANGED <<pc, startVars, alive, asked, signalVars>>
      /\ requests' \in Nat
      /\ listener' = listener \/ (listener \in Live /\ listener' \in Live \ {"starting"})
      /\ requests' > 0 => listener' \in {"accepting", "draining"}
      /\ listener' = "accepting" => listener = "accepting" \/ listener = "starting"
  BY DEF ListenerRuns, ListenerFails, ListenerStops, Accept, Answer, Typed, Structure, Live
<1>2. Typed'
  BY <1>1 DEF Typed, startVars, signalVars
<1>3. Structure'
  BY <1>1 DEF Structure, startVars, Live, Early, Up, Whole
<1>4. QED BY <1>1, <1>2, <1>3 DEF Bridge, Outcome, startVars, signalVars, Live

LEMMA SignalStep == ASSUME IInv, Watch \/ \E s \in Signals : Signal(s) PROVE IInv'
<1> USE DEF IInv
<1>1. CASE Watch
  <2>1. /\ UNCHANGED <<pc, startVars, alive, serverVars, hooked>>
        /\ watcher \in {"polling", "requesting"}
        /\ watcher' \in {"requesting", "returned"}
        /\ stopRequested' = stopRequested \/ stopRequested' = TRUE
    BY <1>1 DEF Watch
  <2>2. Typed'
    BY <2>1 DEF Typed, startVars, serverVars
  <2>3. QED BY <2>1, <2>2 DEF Structure, Bridge, Outcome, startVars, serverVars
<1>2. ASSUME NEW s \in Signals, Signal(s)
      PROVE  IInv'
  <2>1. /\ UNCHANGED <<startVars, alive, serverVars, hooked, watcher, finished, stopRequested>>
        /\ pc' = pc \/ (pc' = "killed" /\ pc \notin Up)
    BY <1>2 DEF Signal, Bridge
  <2>2. Typed'
    BY <2>1 DEF Typed, startVars, serverVars, Late
  <2>3. QED BY <2>1, <2>2 DEF Structure, Bridge, Outcome, startVars, serverVars, Early, Up, Whole, Late
<1>3. QED BY <1>1, <1>2

\* The state of main and what the other threads do keep all this, step by step.
LEMMA IInvAlways == Spec => []IInv
<1>1. IInv /\ [Next]_vars => IInv'
  <2> SUFFICES ASSUME IInv, [Next]_vars
               PROVE  IInv'
    OBVIOUS
  <2>1. CASE UNCHANGED vars
    BY <2>1 DEF vars, startVars, serverVars, signalVars, IInv, Typed, Structure, Bridge, Outcome
  <2>2. CASE Next
    BY <2>2, HooksStep, StartStep, WatchesStep, ResetStep, ListenerStep, SignalStep
       DEF Next, Main, Hooks, Watches
  <2>3. QED BY <2>1, <2>2
<1>2. QED BY <1>1, Begins, PTL DEF Spec

-----------------------------------------------------------------------------

\* In whatever stage start() fails and however the teardown runs beside the
\* listener: what ProductionPlatform::stop destroys has no user left.
THEOREM NothingDangles == Spec => []UsersOutlived
<1>1. IInv => UsersOutlived
  <2> SUFFICES ASSUME IInv
               PROVE  UsersOutlived
    OBVIOUS
  <2>1. PICK k \in 0..7 : alive = Built(k)
    BY HaveIs DEF IInv
  <2>2. \A o \in alive : Needs(o) \subseteq alive
    BY <2>1, BuiltIs
  <2>3. QED BY <2>2, BuiltIs DEF IInv, Structure, UsersOutlived, Live
<1>2. QED BY <1>1, IInvAlways, PTL

\* The process returns from main, or is killed by a signal before or after the
\* bridge has it, with nothing left.
THEOREM LeavesNothing == Spec => []EndsClean
<1>1. IInv => EndsClean
  <2> SUFFICES ASSUME IInv
               PROVE  EndsClean
    OBVIOUS
  <2>1. requests = 0 \/ requests > 0
    BY DEF IInv, Typed
  <2>2. QED BY <2>1 DEF IInv, Typed, Structure, Bridge, EndsClean, CleanExit, KilledOnlyEmpty, Live, Up, Whole
<1>2. QED BY <1>1, IInvAlways, PTL

\* Requests are accepted after every check only, and main returns 0 only from a
\* server that ran and was asked to stop.
THEOREM OnlyEarnedSuccess == Spec => []SuccessIsEarned
<1>1. IInv => SuccessIsEarned
  <2> SUFFICES ASSUME IInv
               PROVE  SuccessIsEarned
    OBVIOUS
  <2>1. {"migrations", "checks", "application", "api"} \subseteq AllStages
    BY StagesAre DEF AllStages
  <2>2. QED BY <2>1 DEF IInv, Structure, Outcome, SuccessIsEarned, Live, AllStages
<1>2. QED BY <1>1, IInvAlways, PTL
=============================================================================
