------------------------------ MODULE Lifecycle ------------------------------
(***************************************************************************)
(* bootstrap: the life of one server process.  runWarehouseServer hooks    *)
(* the signals, starts the composition root stage by stage, watches the    *)
(* listener and the shutdown coordinator, and tears everything down.  Four *)
(* kinds of threads act: main, the listener, the workers that handle       *)
(* requests, and the watcher of the signal bridge.                         *)
(*                                                                         *)
(* The HTTP library is known from its use: the listener thread accepts     *)
(* connections while it is running, and returns after stop() or a failure  *)
(* when the requests it accepted have been handled (TaskQueue).  Handlers  *)
(* stay installed after a signal, as on POSIX systems.                     *)
(***************************************************************************)
EXTENDS Naturals, Sequences

CONSTANTS MaxRequests,  \* bound: requests accepted and not answered
          EarlyStop     \* whether stop() counts for a listener not yet running

ASSUME LifecycleAssumption == MaxRequests \in Nat \ {0} /\ EarlyStop \in (SUBSET BOOLEAN) \ {{}}

\* The objects of ProductionPlatform::Impl in the order of their construction.
Objects == <<"library", "pool", "units", "sessions", "passwords", "application", "server">>
Object == {Objects[i] : i \in DOMAIN Objects}
Built(k) == {Objects[i] : i \in 1..k}

\* The objects an object refers to.
Needs(o) ==
    CASE o = "pool" -> {"library"}
      [] o = "units" -> {"pool"}
      [] o = "application" -> {"units", "sessions", "passwords"}
      [] o = "server" -> {"application"}
      [] OTHER -> {}

\* The stages of CompositionRoot::start before the listener, and the places in
\* Objects up to which a stage constructs.
Stages == <<"configuration", "runtime", "pool", "migrations", "checks", "application", "api">>
Builds(s) ==
    CASE s = "configuration" -> 0 [] s = "runtime" -> 1
      [] s \in {"pool", "migrations", "checks"} -> 2
      [] s = "application" -> 6 [] s = "api" -> 7
Signals == {"INT", "TERM"}

VARIABLES pc,             \* where main is
          stage,          \* the stage of start() it is in
          passed,         \* the stages that succeeded
          code,           \* what main is going to return
          alive,          \* the objects that exist
          listener,       \* impl_->listener
          asked,          \* stop() took effect on the listener
          requests,       \* accepted and not answered
          hooked,         \* signals with recordProcessSignal as handler
          pending,        \* processSignalPending
          watcher, finished,
          stopRequested   \* of the ShutdownCoordinator

startVars == <<stage, passed, code>>
serverVars == <<listener, asked, requests>>
signalVars == <<hooked, pending, watcher, finished, stopRequested>>
vars == <<pc, startVars, alive, serverVars, signalVars>>

Init ==
    /\ pc = "hookInt"
    /\ stage = 1 /\ passed = {} /\ code = 1
    /\ alive = {}
    /\ listener = "none" /\ asked = FALSE /\ requests = 0
    /\ hooked = {} /\ pending = FALSE
    /\ watcher = "none" /\ finished = FALSE /\ stopRequested = FALSE

Running == pc \notin {"exited", "killed"}

Go(from, to) == pc = from /\ pc' = to

-----------------------------------------------------------------------------
(* SignalShutdownBridge: constructor and destructor.                       *)

HookInt ==
    /\ \/ Go("hookInt", "hookTerm") /\ hooked' = {"INT"}
       \/ Go("hookInt", "unhook") /\ UNCHANGED hooked
    /\ UNCHANGED <<startVars, alive, serverVars, pending, watcher, finished, stopRequested>>

\* Defect: SIGTERM keeps its default action.
HookTermForgotten ==
    /\ Go("hookTerm", "watch")
    /\ UNCHANGED <<startVars, alive, serverVars, signalVars>>

HookTerm ==
    /\ \/ Go("hookTerm", "watch") /\ hooked' = Signals
       \/ Go("hookTerm", "unhook") /\ hooked' = {}
    /\ UNCHANGED <<startVars, alive, serverVars, pending, watcher, finished, stopRequested>>

\* Defect: processSignalPending is cleared after the handlers are installed.
SpawnWatcherClears ==
    /\ Go("watch", "start")
    /\ watcher' = "polling" /\ pending' = FALSE
    /\ UNCHANGED <<startVars, alive, serverVars, hooked, finished, stopRequested>>

SpawnWatcher ==
    /\ Go("watch", "start")
    /\ watcher' = "polling"
    /\ UNCHANGED <<startVars, alive, serverVars, hooked, pending, finished, stopRequested>>

\* finished_.store(true)
Unhook ==
    /\ Go("unhook", "joinWatcher")
    /\ finished' = TRUE
    /\ UNCHANGED <<startVars, alive, serverVars, hooked, pending, watcher, stopRequested>>

JoinWatcher ==
    /\ Go("joinWatcher", "restore")
    /\ watcher \in {"none", "returned"}
    /\ watcher' = IF watcher = "none" THEN "none" ELSE "joined"
    /\ UNCHANGED <<startVars, alive, serverVars, hooked, pending, finished, stopRequested>>

\* SIGTERM first; then main returns.
Restore ==
    /\ pc = "restore"
    /\ hooked' = hooked \ (IF "TERM" \in hooked THEN {"TERM"} ELSE {"INT"})
    /\ pc' = IF hooked' = {} THEN "exited" ELSE "restore"
    /\ UNCHANGED <<startVars, alive, serverVars, pending, watcher, finished, stopRequested>>

Watch ==
    /\ Running
    /\ \/ watcher = "polling" /\ ~ finished /\ pending /\ watcher' = "requesting" /\ UNCHANGED stopRequested
       \/ watcher = "polling" /\ finished /\ watcher' = "returned" /\ UNCHANGED stopRequested
       \/ watcher = "requesting" /\ stopRequested' = TRUE /\ watcher' = "returned"
    /\ UNCHANGED <<pc, startVars, alive, serverVars, hooked, pending, finished>>

\* A signal arrives: the handler records it, or the default action ends the process.
Signal(s) ==
    /\ Running
    /\ \/ s \in hooked /\ pending' = TRUE /\ UNCHANGED pc
       \/ s \notin hooked /\ pc' = "killed" /\ UNCHANGED pending
    /\ UNCHANGED <<startVars, alive, serverVars, hooked, watcher, finished, stopRequested>>

-----------------------------------------------------------------------------
(* CompositionRoot::start                                                  *)

Have == CHOOSE k \in 0..Len(Objects) : alive = Built(k)

\* What a failed stage leaves: a pool whose first connection failed remains, the
\* last object of another stage is its success.
CouldHave(s) ==
    {Have} \cup IF s = "pool" THEN {Builds(s)} ELSE Have..(Builds(s) - 1)

\* Defect: the result of the stage is not looked at.
StageFailsGoesOn ==
    /\ pc = "start" /\ stage < Len(Stages)
    /\ alive' = Built(Builds(Stages[stage]))
    /\ stage' = stage + 1
    /\ UNCHANGED <<pc, passed, code, serverVars, signalVars>>

StageSucceeds ==
    /\ pc = "start"
    /\ alive' = Built(Builds(Stages[stage]))
    /\ passed' = passed \cup {Stages[stage]}
    /\ \/ stage < Len(Stages) /\ stage' = stage + 1 /\ UNCHANGED pc
       \/ stage = Len(Stages) /\ pc' = "bind" /\ UNCHANGED stage
    /\ UNCHANGED <<code, serverVars, signalVars>>

\* A stage fails, perhaps after it constructed some of its objects.  Before
\* the first one the platform is not touched, and not stopped.
StageFails ==
    /\ pc = "start"
    /\ \E k \in CouldHave(Stages[stage]) : alive' = Built(k)
    /\ pc' = IF stage = 1 THEN "unhook" ELSE "stop"
    /\ UNCHANGED <<startVars, serverVars, signalVars>>

-----------------------------------------------------------------------------
(* ProductionPlatform::startHttpListener                                   *)

Bind ==
    /\ \/ Go("bind", "poll") /\ listener' = "starting"
       \/ Go("bind", "stop") /\ UNCHANGED listener
    /\ UNCHANGED <<startVars, alive, asked, requests, signalVars>>

\* The future is ready: the listener is joined, and start() fails.
Poll ==
    /\ \/ Go("poll", "stop") /\ listener = "ended" /\ listener' = "joined"
       \/ Go("poll", "pollRunning") /\ listener # "ended" /\ UNCHANGED listener
    /\ UNCHANGED <<startVars, alive, asked, requests, signalVars>>

IsRunning == listener \in {"accepting", "draining"}

PollRunning ==
    /\ IF IsRunning THEN Go("pollRunning", "confirm") ELSE Go("pollRunning", "poll")
    /\ UNCHANGED <<startVars, alive, serverVars, signalVars>>

\* The deadline passed.  Stopping and joining the listener here is what stop()
\* of the platform, which follows, does once more to no effect.
PollExpires ==
    /\ Go("poll", "stop")
    /\ UNCHANGED <<startVars, alive, serverVars, signalVars>>

-----------------------------------------------------------------------------
(* runWarehouseServer after start()                                        *)

\* Defect: the listener is looked at once only.
HealthUnchecked ==
    /\ Go("confirm", "wait") \/ Go("health", "wait")
    /\ UNCHANGED <<startVars, alive, serverVars, signalVars>>

Health ==
    /\ \/ Go("confirm", "wait") /\ IsRunning
       \/ Go("health", "wait") /\ IsRunning
       \/ Go("confirm", "stop") /\ ~ IsRunning
       \/ Go("health", "stop") /\ ~ IsRunning
    /\ UNCHANGED <<startVars, alive, serverVars, signalVars>>

\* Defect: the end of the wait is taken for a request to stop.
WaitReturnsTrue ==
    /\ Go("wait", "stop") /\ code' = 0
    /\ UNCHANGED <<stage, passed, alive, serverVars, signalVars>>

\* shutdown.waitFor(100 ms)
Wait ==
    /\ \/ Go("wait", "stop") /\ stopRequested /\ code' = 0
       \/ Go("wait", "health") /\ ~ stopRequested /\ UNCHANGED code
    /\ UNCHANGED <<stage, passed, alive, serverVars, signalVars>>

-----------------------------------------------------------------------------
(* ProductionPlatform::stop                                                *)

StopServer ==
    /\ Go("stop", "join")
    /\ asked' \in CASE listener = "accepting" -> {TRUE}
                    [] listener = "starting" -> EarlyStop
                    [] OTHER -> {asked}
    /\ UNCHANGED <<startVars, alive, listener, requests, signalVars>>

\* Defect: the listener is not waited for.
JoinListenerNot ==
    /\ Go("join", "reset")
    /\ UNCHANGED <<startVars, alive, serverVars, signalVars>>

JoinListener ==
    /\ Go("join", "reset")
    /\ listener \in {"none", "ended", "joined"}
    /\ listener' = IF listener = "none" THEN "none" ELSE "joined"
    /\ UNCHANGED <<startVars, alive, asked, requests, signalVars>>

\* Defect: one object is forgotten.
ResetForgets ==
    /\ pc = "reset"
    /\ IF Have <= 1 THEN pc' = "unhook" /\ UNCHANGED alive
       ELSE alive' = Built(Have - 1) /\ UNCHANGED pc
    /\ UNCHANGED <<startVars, serverVars, signalVars>>

\* One object after the other, the last one constructed first.
Reset ==
    /\ pc = "reset"
    /\ IF alive = {} THEN pc' = "unhook" /\ UNCHANGED alive
       ELSE alive' = Built(Have - 1) /\ UNCHANGED pc
    /\ UNCHANGED <<startVars, serverVars, signalVars>>

-----------------------------------------------------------------------------
(* The listener and its workers.                                           *)

\* listenAfterBind begins, finding the socket closed if stop() came before.
ListenerRuns ==
    /\ Running /\ listener = "starting"
    /\ listener' = IF asked THEN "draining" ELSE "accepting"
    /\ UNCHANGED <<pc, startVars, alive, asked, requests, signalVars>>

ListenerFails ==
    /\ Running
    /\ \/ listener = "starting" /\ listener' = "ended"
       \/ listener = "accepting" /\ listener' = "draining"
    /\ UNCHANGED <<pc, startVars, alive, asked, requests, signalVars>>

ListenerStops ==
    /\ Running
    /\ \/ listener = "accepting" /\ asked /\ listener' = "draining"
       \/ listener = "draining" /\ requests = 0 /\ listener' = "ended"
    /\ UNCHANGED <<pc, startVars, alive, asked, requests, signalVars>>

Accept ==
    /\ Running /\ listener = "accepting" /\ requests < MaxRequests
    /\ requests' = requests + 1
    /\ UNCHANGED <<pc, startVars, alive, listener, asked, signalVars>>

Answer ==
    /\ Running /\ requests > 0 /\ requests' = requests - 1
    /\ UNCHANGED <<pc, startVars, alive, listener, asked, signalVars>>

Main ==
    \/ HookInt \/ HookTerm \/ SpawnWatcher \/ StageSucceeds \/ StageFails \/ Bind \/ Poll
    \/ PollRunning \/ Health \/ Wait \/ StopServer \/ JoinListener \/ Reset
    \/ Unhook \/ JoinWatcher \/ Restore

Next ==
    \/ Main \/ PollExpires \/ Watch
    \/ ListenerRuns \/ ListenerFails \/ ListenerStops \/ Accept \/ Answer
    \/ \E s \in Signals : Signal(s)

Spec == Init /\ [][Next]_vars

\* Every thread runs; each stage of the start comes to an end, because the pool,
\* the migration lock and the statements have timeouts, and so does a request.
LiveSpec ==
    /\ Spec
    /\ WF_vars(Main) /\ WF_vars(Watch)
    /\ WF_vars(ListenerRuns) /\ WF_vars(ListenerStops)
    /\ WF_vars(Answer)

-----------------------------------------------------------------------------
(* Properties.                                                             *)

\* Nothing is used after its destruction: the listener has its server, a request
\* everything, and each object those it refers to, in every state of a start
\* that fails half-way and of a teardown beside unfinished requests.
UsersOutlived ==
    Running =>
        /\ listener \in {"starting", "accepting", "draining", "ended"} => "server" \in alive
        /\ requests > 0 => alive = Object
        /\ \A o \in alive : Needs(o) \subseteq alive

\* main returns with every thread joined (a joinable one would terminate the
\* process), every object destroyed and the handlers restored.
CleanExit ==
    pc = "exited" =>
        /\ alive = {} /\ requests = 0 /\ listener \in {"none", "joined"}
        /\ watcher \in {"none", "joined"} /\ hooked = {}

\* Once anything exists, a signal is recorded and cannot end the process before
\* the teardown is complete.
KilledOnlyEmpty == pc = "killed" => alive = {} /\ listener \in {"none", "joined"}

\* However the process ends, it leaves nothing behind.
EndsClean == CleanExit /\ KilledOnlyEmpty

\* Requests are accepted only on a migrated and checked database, success is
\* reported only by a server that started and was asked to stop, and then the
\* listener has been asked, too.
SuccessIsEarned ==
    /\ listener = "accepting" => {"migrations", "checks", "application", "api"} \subseteq passed
    /\ pc = "exited" /\ code = 0 => stopRequested /\ passed = {Stages[i] : i \in DOMAIN Stages}
    /\ pc = "join" /\ code = 0 => asked \/ listener # "accepting"

Over == ~ Running

\* stop() came too early for the listener, which main now waits for.
Missed == pc = "join" /\ ~ asked /\ listener \in {"starting", "accepting"}

\* A recorded signal, at whatever moment of the start, ends the process, unless
\* the readiness deadline passed and stop() missed the listener: only then does
\* main wait for good.
SignalEndsProcess == pending ~> Over \/ (Missed /\ code = 1)

\* A listener that ended, however, ends the process.
ListenerLossNoticed == listener = "ended" ~> Over
=============================================================================
