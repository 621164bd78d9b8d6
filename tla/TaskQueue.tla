------------------------------ MODULE TaskQueue ------------------------------
(***************************************************************************)
(* api/legacy_http_server: LegacyBoundedTaskQueue, the bounded queue       *)
(* between the thread that accepts connections and the worker threads.  An *)
(* action is one critical section of mutex_ or one notification after it.  *)
(* A condition variable is the set of threads asleep on it; its predicate  *)
(* is tested by a thread that is awake and has the mutex.                  *)
(*                                                                         *)
(* The threads that call enqueue and shutdown are those of the HTTP        *)
(* library.  Which of them does which is left open: the class synchronises *)
(* all of it itself.                                                       *)
(***************************************************************************)
EXTENDS Naturals, Sequences, FiniteSets

CONSTANTS Workers, Limit,  \* workerCount, queueLimit
          Callers,         \* the threads that call enqueue and shutdown
          Tasks, NoTask

ASSUME QueueAssumption ==
    /\ Limit \in Nat \ {0} /\ Workers # {}
    /\ IsFiniteSet(Workers) /\ IsFiniteSet(Callers) /\ IsFiniteSet(Tasks)
    /\ NoTask \notin Tasks

VARIABLES tasks,         \* tasks_
          shuttingDown,
          worker,        \* where each worker is in runWorker
          job,           \* the task it runs
          caller,        \* where each caller is
          hand,          \* the task it enqueues
          fresh,         \* tasks not offered yet
          settled        \* tasks that ended or were refused

vars == <<tasks, shuttingDown, worker, job, caller, hand, fresh, settled>>

WorkerState == {"awake", "asleep", "running", "exited"}
CallerState == {"out", "enqueueing", "asleep", "notifying", "releasing", "joining", "closed"}

\* Every task is in one place, workers run what they have, and only threads
\* inside enqueue hold one.
TypeOK ==
    /\ tasks \in Seq(Tasks) /\ Len(tasks) <= Limit
    /\ shuttingDown \in BOOLEAN
    /\ worker \in [Workers -> WorkerState]
    /\ job \in [Workers -> Tasks \cup {NoTask}]
    /\ caller \in [Callers -> CallerState]
    /\ hand \in [Callers -> Tasks \cup {NoTask}]
    /\ fresh \subseteq Tasks /\ settled \subseteq Tasks
    /\ \A w \in Workers : job[w] # NoTask <=> worker[w] = "running"
    /\ \A c \in Callers : hand[c] # NoTask <=> caller[c] \in {"enqueueing", "asleep"}

Init ==
    /\ tasks = << >>
    /\ shuttingDown = FALSE
    /\ worker = [w \in Workers |-> "awake"]
    /\ job = [w \in Workers |-> NoTask]
    /\ caller = [c \in Callers |-> "out"]
    /\ hand = [c \in Callers |-> NoTask]
    /\ fresh = Tasks
    /\ settled = {}

Asleep(f) == {x \in DOMAIN f : f[x] = "asleep"}

\* notify_one: wakes one thread asleep on the condition variable, if any.
Wakes(new, old, awake) ==
    \/ Asleep(old) = {} /\ new = old
    \/ \E x \in Asleep(old) : new = [old EXCEPT ![x] = awake]

-----------------------------------------------------------------------------
(* enqueue                                                                 *)

Offer(c) ==
    /\ caller[c] = "out"
    /\ \E t \in fresh :
        /\ fresh' = fresh \ {t}
        /\ hand' = [hand EXCEPT ![c] = t]
    /\ caller' = [caller EXCEPT ![c] = "enqueueing"]
    /\ UNCHANGED <<tasks, shuttingDown, worker, job, settled>>

Returns(c) ==
    /\ caller' = [caller EXCEPT ![c] = "out"]
    /\ hand' = [hand EXCEPT ![c] = NoTask]

\* Defect: room is tested with <=.
HasRoomOffByOne == Len(tasks) <= Limit
HasRoom == Len(tasks) < Limit

\* Defect: the notification is forgotten.
PushSilently(c) ==
    /\ caller[c] = "enqueueing"
    /\ ~ shuttingDown /\ HasRoom
    /\ tasks' = Append(tasks, hand[c])
    /\ Returns(c)
    /\ UNCHANGED <<shuttingDown, worker, job, fresh, settled>>

Push(c) ==
    /\ caller[c] = "enqueueing"
    /\ ~ shuttingDown /\ HasRoom
    /\ tasks' = Append(tasks, hand[c])
    /\ Wakes(worker', worker, "awake")
    /\ Returns(c)
    /\ UNCHANGED <<shuttingDown, job, fresh, settled>>

\* Defect: the task is queued although the workers may have gone.
RefusePushes(c) ==
    /\ caller[c] = "enqueueing"
    /\ shuttingDown /\ HasRoom
    /\ tasks' = Append(tasks, hand[c])
    /\ Returns(c)
    /\ UNCHANGED <<shuttingDown, worker, job, fresh, settled>>

\* The task is dropped.
Refuse(c) ==
    /\ caller[c] = "enqueueing"
    /\ shuttingDown
    /\ settled' = settled \cup {hand[c]}
    /\ Returns(c)
    /\ UNCHANGED <<tasks, shuttingDown, worker, job, fresh>>

WaitForSpace(c) ==
    /\ caller[c] = "enqueueing"
    /\ ~ shuttingDown /\ ~ HasRoom
    /\ caller' = [caller EXCEPT ![c] = "asleep"]
    /\ UNCHANGED <<tasks, shuttingDown, worker, job, hand, fresh, settled>>

Enqueue(c) == Push(c) \/ Refuse(c) \/ WaitForSpace(c)

-----------------------------------------------------------------------------
(* runWorker                                                               *)

WaitForTask(w) ==
    /\ worker[w] = "awake"
    /\ ~ shuttingDown /\ tasks = << >>
    /\ worker' = [worker EXCEPT ![w] = "asleep"]
    /\ UNCHANGED <<tasks, shuttingDown, job, caller, hand, fresh, settled>>

Pop(w) ==
    /\ worker[w] = "awake"
    /\ tasks # << >>
    /\ worker' = [worker EXCEPT ![w] = "running"]
    /\ job' = [job EXCEPT ![w] = Head(tasks)]
    /\ tasks' = Tail(tasks)
    /\ Wakes(caller', caller, "enqueueing")
    /\ UNCHANGED <<shuttingDown, hand, fresh, settled>>

\* Defect: workers stop at once, leaving queued tasks behind.
ExitUndrained(w) ==
    /\ worker[w] = "awake"
    /\ shuttingDown
    /\ worker' = [worker EXCEPT ![w] = "exited"]
    /\ UNCHANGED <<tasks, shuttingDown, job, caller, hand, fresh, settled>>

Exit(w) ==
    /\ worker[w] = "awake"
    /\ tasks = << >> /\ shuttingDown
    /\ worker' = [worker EXCEPT ![w] = "exited"]
    /\ UNCHANGED <<tasks, shuttingDown, job, caller, hand, fresh, settled>>

\* task() returns.
EndTask(w) ==
    /\ worker[w] = "running"
    /\ worker' = [worker EXCEPT ![w] = "awake"]
    /\ job' = [job EXCEPT ![w] = NoTask]
    /\ settled' = settled \cup {job[w]}
    /\ UNCHANGED <<tasks, shuttingDown, caller, hand, fresh>>

RunWorker(w) == WaitForTask(w) \/ Pop(w) \/ Exit(w) \/ EndTask(w)

\* wait() may return by itself; the predicate is tested again.
SpuriousWakeup ==
    \/ \E w \in Asleep(worker) :
        /\ worker' = [worker EXCEPT ![w] = "awake"]
        /\ UNCHANGED <<tasks, shuttingDown, job, caller, hand, fresh, settled>>
    \/ \E c \in Asleep(caller) :
        /\ caller' = [caller EXCEPT ![c] = "enqueueing"]
        /\ UNCHANGED <<tasks, shuttingDown, worker, job, hand, fresh, settled>>

-----------------------------------------------------------------------------
(* shutdown                                                                *)

\* The second call finds shuttingDown_ set and returns.
BeginShutdown(c) ==
    /\ caller[c] = "out"
    /\ ~ shuttingDown
    /\ shuttingDown' = TRUE
    /\ caller' = [caller EXCEPT ![c] = "notifying"]
    /\ UNCHANGED <<tasks, worker, job, hand, fresh, settled>>

WakeAll(f, awake) == [x \in DOMAIN f |-> IF f[x] = "asleep" THEN awake ELSE f[x]]

\* Defect: notify_one.
NotifyOneWorker(c) ==
    /\ caller[c] = "notifying"
    /\ Wakes(worker', worker, "awake")
    /\ caller' = [caller EXCEPT ![c] = "releasing"]
    /\ UNCHANGED <<tasks, shuttingDown, job, hand, fresh, settled>>

NotifyWorkers(c) ==
    /\ caller[c] = "notifying"
    /\ worker' = WakeAll(worker, "awake")
    /\ caller' = [caller EXCEPT ![c] = "releasing"]
    /\ UNCHANGED <<tasks, shuttingDown, job, hand, fresh, settled>>

NotifyCallers(c) ==
    /\ caller[c] = "releasing"
    /\ caller' = [WakeAll(caller, "enqueueing") EXCEPT ![c] = "joining"]
    /\ UNCHANGED <<tasks, shuttingDown, worker, job, hand, fresh, settled>>

\* All workers are joined.
Join(c) ==
    /\ caller[c] = "joining"
    /\ \A w \in Workers : worker[w] = "exited"
    /\ caller' = [caller EXCEPT ![c] = "closed"]
    /\ UNCHANGED <<tasks, shuttingDown, worker, job, hand, fresh, settled>>

Shutdown(c) == NotifyWorkers(c) \/ NotifyCallers(c) \/ Join(c)

Next ==
    \/ \E c \in Callers : Offer(c) \/ Enqueue(c) \/ BeginShutdown(c) \/ Shutdown(c)
    \/ \E w \in Workers : RunWorker(w)
    \/ SpuriousWakeup

Spec == Init /\ [][Next]_vars

\* Threads that can run do; a task ends, because the sockets it reads and
\* writes and the statements it waits for have timeouts.
LiveSpec ==
    /\ Spec
    /\ \A c \in Callers : WF_vars(Enqueue(c)) /\ WF_vars(Shutdown(c))
    /\ \A w \in Workers : WF_vars(RunWorker(w))

-----------------------------------------------------------------------------
(* Properties.                                                             *)

Awake(w) == worker[w] = "awake"
Held == {hand[c] : c \in Callers} \ {NoTask}
Running == {job[w] : w \in Workers} \ {NoTask}

\* While the queue is open, a worker that sleeps is not needed by a queued task,
\* and a caller that sleeps is not needed by a free place: one notification
\* each is enough, whoever takes the task or the place first.
NoLostWakeup ==
    ~ shuttingDown =>
        /\ Asleep(worker) # {} => Len(tasks) <= Cardinality({w \in Workers : Awake(w)})
        /\ Asleep(caller) # {} =>
            Limit - Len(tasks) <= Cardinality({c \in Callers : caller[c] = "enqueueing"})

\* When shutdown returns, every accepted task has been run and nothing runs.
DrainedAtClose ==
    (\E c \in Callers : caller[c] = "closed") => tasks = << >> /\ Running = {}

\* shutdown comes to an end, and with it everyone who was waiting in enqueue.
ShutdownReturns ==
    shuttingDown ~> (\E c \in Callers : caller[c] = "closed") /\ Held = {}

Gate ==
    IF \E c \in Callers : caller[c] = "closed" THEN "closed"
    ELSE IF shuttingDown THEN "closing" ELSE "open"

Handoff == INSTANCE TaskHandoff WITH line <- tasks, running <- Running, gate <- Gate

\* The queue implements the ordered handoff, its fairness included.
ImplementsHandoff == Handoff!Spec
=============================================================================
