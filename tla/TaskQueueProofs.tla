--------------------------- MODULE TaskQueueProofs ---------------------------
(***************************************************************************)
(* Theorems about TaskQueue, for any workers, callers, tasks and limit.    *)
(***************************************************************************)
EXTENDS TaskQueue, FiniteSetTheorems, TLAPS

USE QueueAssumption

\* What a notification does to the threads of a condition variable.
LEMMA WakesKeepsOthers ==
    ASSUME NEW new, NEW old, NEW awake, Wakes(new, old, awake)
    PROVE  \/ new = old
           \/ \E x \in DOMAIN old : old[x] = "asleep" /\ new = [old EXCEPT ![x] = awake]
BY DEF Wakes, Asleep

LEMMA InitTyped == Init => TypeOK
<1> SUFFICES ASSUME Init PROVE TypeOK
  OBVIOUS
<1>1. tasks \in Seq(Tasks) /\ Len(tasks) <= Limit
  BY DEF Init
<1>2. worker \in [Workers -> WorkerState] /\ job \in [Workers -> Tasks \cup {NoTask}]
  BY DEF Init, WorkerState
<1>3. caller \in [Callers -> CallerState] /\ hand \in [Callers -> Tasks \cup {NoTask}]
  BY DEF Init, CallerState
<1>4. QED BY <1>1, <1>2, <1>3 DEF Init, TypeOK

LEMMA EnqueueTyped ==
    ASSUME TypeOK, NEW c \in Callers, Offer(c) \/ Enqueue(c)
    PROVE  TypeOK'
<1>1. CASE Offer(c)
  BY <1>1 DEF TypeOK, Offer, WorkerState, CallerState
<1>2. CASE Push(c)
  <2>1. hand[c] \in Tasks
    BY <1>2 DEF TypeOK, Push
  <2>2. tasks' \in Seq(Tasks) /\ Len(tasks') <= Limit
    BY <1>2, <2>1 DEF TypeOK, Push, HasRoom
  <2>3. /\ worker' \in [Workers -> WorkerState]
        /\ \A w \in Workers : worker'[w] = "running" <=> worker[w] = "running"
    <3>1. \/ worker' = worker
          \/ \E w \in DOMAIN worker :
                worker[w] = "asleep" /\ worker' = [worker EXCEPT ![w] = "awake"]
      BY <1>2, WakesKeepsOthers DEF Push
    <3>2. QED BY <3>1 DEF TypeOK, WorkerState
  <2>4. QED BY <1>2, <2>2, <2>3 DEF TypeOK, Push, Returns, CallerState
<1>3. CASE Refuse(c)
  BY <1>3 DEF TypeOK, Refuse, Returns, WorkerState, CallerState
<1>4. CASE WaitForSpace(c)
  BY <1>4 DEF TypeOK, WaitForSpace, WorkerState, CallerState
<1>5. QED BY <1>1, <1>2, <1>3, <1>4 DEF Enqueue

LEMMA WorkerTyped ==
    ASSUME TypeOK, NEW w \in Workers, RunWorker(w)
    PROVE  TypeOK'
<1>1. CASE WaitForTask(w)
  BY <1>1 DEF TypeOK, WaitForTask, WorkerState, CallerState
<1>2. CASE Pop(w)
  <2>1. Head(tasks) \in Tasks /\ tasks' \in Seq(Tasks) /\ Len(tasks') <= Limit
    BY <1>2 DEF TypeOK, Pop
  <2>2. /\ caller' \in [Callers -> CallerState]
        /\ \A c \in Callers : caller'[c] \in {"enqueueing", "asleep"}
                                 <=> caller[c] \in {"enqueueing", "asleep"}
    <3>1. \/ caller' = caller
          \/ \E c \in DOMAIN caller :
                caller[c] = "asleep" /\ caller' = [caller EXCEPT ![c] = "enqueueing"]
      BY <1>2, WakesKeepsOthers DEF Pop
    <3>2. QED BY <3>1 DEF TypeOK, CallerState
  <2>3. QED BY <1>2, <2>1, <2>2 DEF TypeOK, Pop, WorkerState
<1>3. CASE Exit(w)
  BY <1>3 DEF TypeOK, Exit, WorkerState, CallerState
<1>4. CASE EndTask(w)
  BY <1>4 DEF TypeOK, EndTask, WorkerState, CallerState
<1>5. QED BY <1>1, <1>2, <1>3, <1>4 DEF RunWorker

LEMMA ShutdownTyped ==
    ASSUME TypeOK, NEW c \in Callers, BeginShutdown(c) \/ Shutdown(c)
    PROVE  TypeOK'
<1>1. CASE BeginShutdown(c)
  BY <1>1 DEF TypeOK, BeginShutdown, WorkerState, CallerState
<1>2. CASE NotifyWorkers(c)
  BY <1>2 DEF TypeOK, NotifyWorkers, WakeAll, WorkerState, CallerState
<1>3. CASE NotifyCallers(c)
  BY <1>3 DEF TypeOK, NotifyCallers, WakeAll, WorkerState, CallerState
<1>4. CASE Join(c)
  BY <1>4 DEF TypeOK, Join, WorkerState, CallerState
<1>5. QED BY <1>1, <1>2, <1>3, <1>4 DEF Shutdown

LEMMA SpuriousTyped == TypeOK /\ SpuriousWakeup => TypeOK'
BY DEF TypeOK, SpuriousWakeup, Asleep, WorkerState, CallerState

\* The queue never exceeds its limit, exactly the running workers have a task,
\* and exactly the threads inside enqueue hold one.
THEOREM TypeCorrect == Spec => []TypeOK
<1>1. TypeOK /\ [Next]_vars => TypeOK'
  <2>1. CASE UNCHANGED vars
    BY <2>1 DEF TypeOK, vars
  <2>2. CASE Next
    BY <2>2, EnqueueTyped, WorkerTyped, ShutdownTyped, SpuriousTyped DEF Next
  <2>3. QED BY <2>1, <2>2
<1>2. QED BY InitTyped, <1>1, PTL DEF Spec

-----------------------------------------------------------------------------

\* Why closing drains: a worker exits only when the queue is empty and closing,
\* from then on enqueue refuses, and shutdown waits for all workers.
Draining ==
    /\ (\E w \in Workers : worker[w] = "exited") => shuttingDown /\ tasks = << >>
    /\ (\E c \in Callers : caller[c] = "closed") => \A w \in Workers : worker[w] = "exited"

LEMMA DrainingStep == TypeOK /\ Draining /\ Next => Draining'
<1> SUFFICES ASSUME TypeOK, Draining, Next
             PROVE  Draining'
  OBVIOUS
<1> USE DEF TypeOK, Draining, WorkerState, CallerState
<1>1. CASE \E c \in Callers : Offer(c) \/ Refuse(c) \/ WaitForSpace(c) \/ BeginShutdown(c)
  BY <1>1 DEF Offer, Refuse, WaitForSpace, BeginShutdown, Returns
<1>2. ASSUME NEW c \in Callers, Push(c)
      PROVE  Draining'
  <2>1. \A w \in Workers : worker[w] # "exited" /\ worker'[w] # "exited"
    <3>1. \A w \in Workers : worker[w] # "exited"
      BY <1>2 DEF Push
    <3>2. \/ worker' = worker
          \/ \E w \in DOMAIN worker : worker' = [worker EXCEPT ![w] = "awake"]
      BY <1>2, WakesKeepsOthers DEF Push
    <3>3. QED BY <3>1, <3>2
  <2>2. \A x \in Callers : caller'[x] # "closed"
    BY <1>2, <2>1 DEF Push, Returns
  <2>3. QED BY <2>1, <2>2
<1>3. CASE \E w \in Workers : WaitForTask(w) \/ Exit(w) \/ EndTask(w)
  BY <1>3 DEF WaitForTask, Exit, EndTask
<1>4. ASSUME NEW w \in Workers, Pop(w)
      PROVE  Draining'
  <2>1. \A x \in Workers : worker[x] # "exited" /\ worker'[x] # "exited"
    BY <1>4 DEF Pop
  <2>2. \A c \in Callers : caller'[c] # "closed"
    <3>1. \/ caller' = caller
          \/ \E c \in DOMAIN caller : caller' = [caller EXCEPT ![c] = "enqueueing"]
      BY <1>4, WakesKeepsOthers DEF Pop
    <3>2. QED BY <2>1, <3>1
  <2>3. QED BY <2>1, <2>2
<1>5. ASSUME NEW c \in Callers, Shutdown(c)
      PROVE  Draining'
  <2>1. CASE NotifyWorkers(c)
    <3>1. \A w \in Workers : worker[w] = "exited" <=> worker'[w] = "exited"
      BY <2>1 DEF NotifyWorkers, WakeAll
    <3>2. \A x \in Callers : caller'[x] = "closed" => caller[x] = "closed"
      BY <2>1 DEF NotifyWorkers
    <3>3. QED BY <2>1, <3>1, <3>2 DEF NotifyWorkers
  <2>2. CASE NotifyCallers(c)
    <3>1. \A x \in Callers : caller'[x] = "closed" => caller[x] = "closed"
      BY <2>2 DEF NotifyCallers, WakeAll
    <3>2. QED BY <2>2, <3>1 DEF NotifyCallers
  <2>3. CASE Join(c)
    BY <2>3 DEF Join
  <2>4. QED BY <1>5, <2>1, <2>2, <2>3 DEF Shutdown
<1>6. CASE SpuriousWakeup
  BY <1>6 DEF SpuriousWakeup, Asleep
<1>7. QED
  BY <1>1, <1>2, <1>3, <1>4, <1>5, <1>6 DEF Next, Enqueue, RunWorker

\* A shutdown that returned has run every accepted task.
THEOREM ShutdownDrains == Spec => []DrainedAtClose
<1>1. Init => Draining
  BY DEF Init, Draining
<1>2. TypeOK /\ Draining /\ [Next]_vars => Draining'
  <2>1. CASE UNCHANGED vars
    BY <2>1 DEF Draining, vars
  <2>2. CASE Next
    BY <2>2, DrainingStep
  <2>3. QED BY <2>1, <2>2
<1>3. TypeOK /\ Draining => DrainedAtClose
  <2> SUFFICES ASSUME TypeOK, Draining, \E c \in Callers : caller[c] = "closed"
               PROVE  tasks = << >> /\ Running = {}
    BY DEF DrainedAtClose
  <2>1. \A w \in Workers : worker[w] = "exited"
    BY DEF Draining
  <2>2. \A w \in Workers : job[w] = NoTask
    BY <2>1 DEF TypeOK
  <2>3. QED BY <2>1, <2>2 DEF Draining, Running
<1>4. QED BY TypeCorrect, <1>1, <1>2, <1>3, PTL DEF Spec

-----------------------------------------------------------------------------

AwakeWorkers == {w \in Workers : Awake(w)}
Testing == {c \in Callers : caller[c] = "enqueueing"}

\* The parts of NoLostWakeup, one for each condition variable.
WorkersNotified ==
    ~ shuttingDown /\ Asleep(worker) # {} => Len(tasks) <= Cardinality(AwakeWorkers)
CallersNotified ==
    ~ shuttingDown /\ Asleep(caller) # {} => Limit - Len(tasks) <= Cardinality(Testing)

\* Only a shutdown is past "out".
ClosersClose ==
    \A c \in Callers :
        caller[c] \in {"notifying", "releasing", "joining", "closed"} => shuttingDown

LEMMA ClosersStep == TypeOK /\ ClosersClose /\ Next => ClosersClose'
<1> SUFFICES ASSUME TypeOK, ClosersClose, Next
             PROVE  ClosersClose'
  OBVIOUS
<1> USE DEF ClosersClose
<1>1. ASSUME NEW c \in Callers, Offer(c) \/ Push(c) \/ Refuse(c) \/ WaitForSpace(c) \/ BeginShutdown(c)
      PROVE  ClosersClose'
  BY <1>1 DEF Offer, Push, Refuse, WaitForSpace, BeginShutdown, Returns, TypeOK
<1>2. ASSUME NEW c \in Callers, Shutdown(c)
      PROVE  ClosersClose'
  <2>1. shuttingDown /\ shuttingDown' = shuttingDown
    BY <1>2 DEF Shutdown, NotifyWorkers, NotifyCallers, Join
  <2>2. QED BY <2>1
<1>3. ASSUME NEW w \in Workers, RunWorker(w)
      PROVE  ClosersClose'
  <2>1. CASE Pop(w)
    <3>1. \/ caller' = caller
          \/ \E c \in DOMAIN caller : caller' = [caller EXCEPT ![c] = "enqueueing"]
      BY <2>1, WakesKeepsOthers DEF Pop
    <3>2. QED BY <2>1, <3>1 DEF Pop, TypeOK
  <2>2. CASE ~ Pop(w)
    BY <1>3, <2>2 DEF RunWorker, WaitForTask, Exit, EndTask
  <2>3. QED BY <2>1, <2>2
<1>4. CASE SpuriousWakeup
  BY <1>4 DEF SpuriousWakeup, Asleep, TypeOK
<1>5. QED BY <1>1, <1>2, <1>3, <1>4 DEF Next, Enqueue

LEMMA WakersFinite ==
    /\ IsFiniteSet(AwakeWorkers) /\ Cardinality(AwakeWorkers) \in Nat
    /\ IsFiniteSet(AwakeWorkers') /\ Cardinality(AwakeWorkers') \in Nat
    /\ IsFiniteSet(Testing) /\ Cardinality(Testing) \in Nat
    /\ IsFiniteSet(Testing') /\ Cardinality(Testing') \in Nat
<1>1. /\ AwakeWorkers \subseteq Workers /\ AwakeWorkers' \subseteq Workers
      /\ Testing \subseteq Callers /\ Testing' \subseteq Callers
  BY DEF AwakeWorkers, Testing
<1>2. QED BY <1>1, FS_Subset, FS_CardinalityType

\* How a step that leaves the queue open moves the workers and the tasks.
LEMMA WorkerMoves ==
    ASSUME TypeOK, ClosersClose, Next, ~ shuttingDown'
    PROVE  \/ Asleep(worker') = {} \/ tasks' = << >>
           \/ tasks' = tasks /\ AwakeWorkers' = AwakeWorkers /\ Asleep(worker') \subseteq Asleep(worker)
           \* one more is awake, with at most one more task
           \/ /\ \E w \in Workers \ AwakeWorkers : AwakeWorkers' = AwakeWorkers \cup {w}
              /\ Asleep(worker') \subseteq Asleep(worker) /\ Asleep(worker) # {}
              /\ Len(tasks') <= Len(tasks) + 1
           \* one takes a task
           \/ /\ \E w \in AwakeWorkers : AwakeWorkers' = AwakeWorkers \ {w}
              /\ Asleep(worker') \subseteq Asleep(worker)
              /\ Len(tasks') = Len(tasks) - 1
<1> USE DEF AwakeWorkers, Awake, Asleep
<1>1. ASSUME NEW c \in Callers, Offer(c) \/ Refuse(c) \/ WaitForSpace(c)
      PROVE  tasks' = tasks /\ worker' = worker
  BY <1>1 DEF Offer, Refuse, WaitForSpace
<1>2. ASSUME NEW c \in Callers, Push(c), Asleep(worker') # {}
      PROVE  /\ \E w \in Workers \ AwakeWorkers : AwakeWorkers' = AwakeWorkers \cup {w}
             /\ Asleep(worker') \subseteq Asleep(worker) /\ Asleep(worker) # {}
             /\ Len(tasks') <= Len(tasks) + 1
  <2>1. PICK w \in Asleep(worker) : worker' = [worker EXCEPT ![w] = "awake"]
    BY <1>2 DEF Push, Wakes
  <2>2. hand[c] \in Tasks
    BY <1>2 DEF Push, TypeOK
  <2>3. Len(tasks') = Len(tasks) + 1 /\ Len(tasks) \in Nat
    BY <1>2, <2>2 DEF Push, TypeOK
  <2>4. w \in Workers \ AwakeWorkers /\ AwakeWorkers' = AwakeWorkers \cup {w}
    BY <2>1 DEF TypeOK
  <2>5. Asleep(worker') \subseteq Asleep(worker)
    BY <2>1 DEF TypeOK
  <2>6. QED BY <2>1, <2>3, <2>4, <2>5
<1>3. ASSUME NEW w \in Workers, Pop(w)
      PROVE  /\ \E x \in AwakeWorkers : AwakeWorkers' = AwakeWorkers \ {x}
             /\ Asleep(worker') \subseteq Asleep(worker)
             /\ Len(tasks') = Len(tasks) - 1
  <2>1. Len(tasks') = Len(tasks) - 1
    BY <1>3 DEF Pop, TypeOK
  <2>2. w \in AwakeWorkers /\ AwakeWorkers' = AwakeWorkers \ {w}
    BY <1>3 DEF Pop, TypeOK
  <2>3. Asleep(worker') \subseteq Asleep(worker)
    BY <1>3 DEF Pop, TypeOK
  <2>4. QED BY <2>1, <2>2, <2>3
<1>4. ASSUME NEW w \in Workers, EndTask(w), Asleep(worker') # {}
      PROVE  /\ \E x \in Workers \ AwakeWorkers : AwakeWorkers' = AwakeWorkers \cup {x}
             /\ Asleep(worker') \subseteq Asleep(worker) /\ Asleep(worker) # {}
             /\ Len(tasks') <= Len(tasks) + 1
  <2>1. w \in Workers \ AwakeWorkers /\ AwakeWorkers' = AwakeWorkers \cup {w}
    BY <1>4 DEF EndTask, TypeOK
  <2>2. Asleep(worker') \subseteq Asleep(worker)
    BY <1>4 DEF EndTask, TypeOK
  <2>3. tasks' = tasks /\ Len(tasks) \in Nat
    BY <1>4 DEF EndTask, TypeOK
  <2>4. QED BY <1>4, <2>1, <2>2, <2>3
<1>5. ASSUME NEW w \in Workers, WaitForTask(w) \/ Exit(w)
      PROVE  tasks' = << >>
  BY <1>5 DEF WaitForTask, Exit
<1>6. ASSUME NEW w \in Asleep(worker), worker' = [worker EXCEPT ![w] = "awake"], tasks' = tasks
      PROVE  /\ \E x \in Workers \ AwakeWorkers : AwakeWorkers' = AwakeWorkers \cup {x}
             /\ Asleep(worker') \subseteq Asleep(worker) /\ Asleep(worker) # {}
             /\ Len(tasks') <= Len(tasks) + 1
  <2>1. w \in Workers \ AwakeWorkers /\ AwakeWorkers' = AwakeWorkers \cup {w}
    BY <1>6 DEF TypeOK
  <2>2. Asleep(worker') \subseteq Asleep(worker)
    BY <1>6 DEF TypeOK
  <2>3. Len(tasks) \in Nat
    BY DEF TypeOK
  <2>4. QED BY <1>6, <2>1, <2>2, <2>3
<1>7. CASE SpuriousWakeup
  BY <1>6, <1>7 DEF SpuriousWakeup
<1>8. \A c \in Callers : ~ BeginShutdown(c) /\ ~ Shutdown(c)
  BY DEF BeginShutdown, Shutdown, NotifyWorkers, NotifyCallers, Join, ClosersClose
<1>9. QED
  BY <1>1, <1>2, <1>3, <1>4, <1>5, <1>7, <1>8 DEF Next, Enqueue, RunWorker

\* The same for the callers and the free places.
LEMMA CallerMoves ==
    ASSUME TypeOK, ClosersClose, Next, ~ shuttingDown'
    PROVE  \/ Asleep(caller') = {} \/ Len(tasks') = Limit
           \/ tasks' = tasks /\ Testing' = Testing /\ Asleep(caller') \subseteq Asleep(caller)
           \* one more tests, with at most one more free place
           \/ /\ \E c \in Callers \ Testing : Testing' = Testing \cup {c}
              /\ Asleep(caller') \subseteq Asleep(caller)
              /\ Len(tasks') >= Len(tasks) - 1
           \* one takes a place
           \/ /\ \E c \in Testing : Testing' = Testing \ {c}
              /\ Asleep(caller') \subseteq Asleep(caller)
              /\ Len(tasks') = Len(tasks) + 1
<1> USE DEF Testing, Asleep
<1>1. ASSUME NEW c \in Callers, Offer(c)
      PROVE  /\ \E x \in Callers \ Testing : Testing' = Testing \cup {x}
             /\ Asleep(caller') \subseteq Asleep(caller)
             /\ Len(tasks') >= Len(tasks) - 1
  <2>1. c \in Callers \ Testing /\ Testing' = Testing \cup {c}
    BY <1>1 DEF Offer, TypeOK
  <2>2. Asleep(caller') \subseteq Asleep(caller)
    BY <1>1 DEF Offer, TypeOK
  <2>3. tasks' = tasks /\ Len(tasks) \in Nat
    BY <1>1 DEF Offer, TypeOK
  <2>4. QED BY <2>1, <2>2, <2>3
<1>2. ASSUME NEW c \in Callers, Push(c)
      PROVE  /\ \E x \in Testing : Testing' = Testing \ {x}
             /\ Asleep(caller') \subseteq Asleep(caller)
             /\ Len(tasks') = Len(tasks) + 1
  <2>1. hand[c] \in Tasks
    BY <1>2 DEF Push, TypeOK
  <2>2. Len(tasks') = Len(tasks) + 1
    BY <1>2, <2>1 DEF Push, TypeOK
  <2>3. c \in Testing /\ Testing' = Testing \ {c}
    BY <1>2 DEF Push, Returns, TypeOK
  <2>4. Asleep(caller') \subseteq Asleep(caller)
    BY <1>2 DEF Push, Returns, TypeOK
  <2>5. QED BY <2>2, <2>3, <2>4
<1>3. ASSUME NEW c \in Callers, WaitForSpace(c)
      PROVE  Len(tasks') = Limit
  BY <1>3 DEF WaitForSpace, HasRoom, TypeOK
<1>4. ASSUME NEW w \in Workers, Pop(w), Asleep(caller') # {}
      PROVE  /\ \E x \in Callers \ Testing : Testing' = Testing \cup {x}
             /\ Asleep(caller') \subseteq Asleep(caller)
             /\ Len(tasks') >= Len(tasks) - 1
  <2>1. PICK c \in Asleep(caller) : caller' = [caller EXCEPT ![c] = "enqueueing"]
    BY <1>4 DEF Pop, Wakes
  <2>2. Len(tasks') = Len(tasks) - 1 /\ Len(tasks) \in Nat
    BY <1>4 DEF Pop, TypeOK
  <2>3. c \in Callers \ Testing /\ Testing' = Testing \cup {c}
    BY <2>1 DEF TypeOK
  <2>4. Asleep(caller') \subseteq Asleep(caller)
    BY <2>1 DEF TypeOK
  <2>5. QED BY <2>2, <2>3, <2>4
<1>5. ASSUME NEW w \in Workers, WaitForTask(w) \/ EndTask(w)
      PROVE  tasks' = tasks /\ caller' = caller
  BY <1>5 DEF WaitForTask, EndTask
<1>6. ASSUME SpuriousWakeup
      PROVE  \/ tasks' = tasks /\ Testing' = Testing /\ Asleep(caller') \subseteq Asleep(caller)
             \/ /\ \E c \in Callers \ Testing : Testing' = Testing \cup {c}
                /\ Asleep(caller') \subseteq Asleep(caller)
                /\ Len(tasks') >= Len(tasks) - 1
  <2>1. CASE tasks' = tasks /\ caller' = caller
    BY <2>1
  <2>2. ASSUME NEW c \in Asleep(caller), caller' = [caller EXCEPT ![c] = "enqueueing"], tasks' = tasks
        PROVE  /\ \E x \in Callers \ Testing : Testing' = Testing \cup {x}
               /\ Asleep(caller') \subseteq Asleep(caller)
               /\ Len(tasks') >= Len(tasks) - 1
    <3>1. c \in Callers \ Testing /\ Testing' = Testing \cup {c}
      BY <2>2 DEF TypeOK
    <3>2. Asleep(caller') \subseteq Asleep(caller)
      BY <2>2 DEF TypeOK
    <3>3. Len(tasks) \in Nat
      BY DEF TypeOK
    <3>4. QED BY <2>2, <3>1, <3>2, <3>3
  <2>3. QED BY <1>6, <2>1, <2>2 DEF SpuriousWakeup
<1>7. /\ \A c \in Callers : ~ Refuse(c) /\ ~ BeginShutdown(c) /\ ~ Shutdown(c)
      /\ \A w \in Workers : ~ Exit(w)
  BY DEF Refuse, Exit, BeginShutdown, Shutdown, NotifyWorkers, NotifyCallers, Join, ClosersClose
<1>8. QED
  BY <1>1, <1>2, <1>3, <1>4, <1>5, <1>6, <1>7 DEF Next, Enqueue, RunWorker

LEMMA OpenBefore == Next /\ ~ shuttingDown' => ~ shuttingDown
BY DEF Next, Offer, Enqueue, Push, Refuse, WaitForSpace, BeginShutdown, Shutdown, NotifyWorkers,
       NotifyCallers, Join, RunWorker, WaitForTask, Pop, Exit, EndTask, SpuriousWakeup

LEMMA WorkersNotifiedStep ==
    TypeOK /\ TypeOK' /\ ClosersClose /\ WorkersNotified /\ Next => WorkersNotified'
<1> SUFFICES ASSUME TypeOK, TypeOK', ClosersClose, WorkersNotified, Next,
                    ~ shuttingDown', Asleep(worker') # {}
             PROVE  Len(tasks') <= Cardinality(AwakeWorkers')
  BY DEF WorkersNotified
<1>1. /\ Len(tasks) \in Nat /\ Len(tasks') \in Nat
      /\ Cardinality(AwakeWorkers) \in Nat /\ Cardinality(AwakeWorkers') \in Nat
  BY WakersFinite DEF TypeOK
<1>2. Asleep(worker) # {} => Len(tasks) <= Cardinality(AwakeWorkers)
  BY OpenBefore DEF WorkersNotified
<1>3. CASE tasks' = << >>
  BY <1>1, <1>3
<1>4. CASE tasks' = tasks /\ AwakeWorkers' = AwakeWorkers /\ Asleep(worker') \subseteq Asleep(worker)
  BY <1>2, <1>4
<1>5. ASSUME NEW w \in Workers \ AwakeWorkers, AwakeWorkers' = AwakeWorkers \cup {w},
             Asleep(worker) # {}, Len(tasks') <= Len(tasks) + 1
      PROVE  Len(tasks') <= Cardinality(AwakeWorkers')
  <2>1. Cardinality(AwakeWorkers') = Cardinality(AwakeWorkers) + 1
    BY <1>5, WakersFinite, FS_AddElement
  <2>2. QED BY <1>1, <1>2, <1>5, <2>1
<1>6. ASSUME NEW w \in AwakeWorkers, AwakeWorkers' = AwakeWorkers \ {w},
             Asleep(worker') \subseteq Asleep(worker), Len(tasks') = Len(tasks) - 1
      PROVE  Len(tasks') <= Cardinality(AwakeWorkers')
  <2>1. Cardinality(AwakeWorkers') = Cardinality(AwakeWorkers) - 1
    BY <1>6, WakersFinite, FS_RemoveElement
  <2>2. Len(tasks) <= Cardinality(AwakeWorkers)
    BY <1>2, <1>6
  <2>3. QED BY <1>1, <1>6, <2>1, <2>2
<1>7. QED BY WorkerMoves, <1>3, <1>4, <1>5, <1>6

LEMMA CallersNotifiedStep ==
    TypeOK /\ TypeOK' /\ ClosersClose /\ CallersNotified /\ Next => CallersNotified'
<1> SUFFICES ASSUME TypeOK, TypeOK', ClosersClose, CallersNotified, Next,
                    ~ shuttingDown', Asleep(caller') # {}
             PROVE  Limit - Len(tasks') <= Cardinality(Testing')
  BY DEF CallersNotified
<1>1. /\ Len(tasks) \in Nat /\ Len(tasks') \in Nat /\ Limit \in Nat
      /\ Cardinality(Testing) \in Nat /\ Cardinality(Testing') \in Nat
  BY WakersFinite DEF TypeOK
<1>2. Asleep(caller) # {} => Limit - Len(tasks) <= Cardinality(Testing)
  BY OpenBefore DEF CallersNotified
<1>3. CASE Len(tasks') = Limit
  BY <1>1, <1>3
<1>4. CASE tasks' = tasks /\ Testing' = Testing /\ Asleep(caller') \subseteq Asleep(caller)
  BY <1>2, <1>4
<1>5. ASSUME NEW c \in Callers \ Testing, Testing' = Testing \cup {c},
             Asleep(caller') \subseteq Asleep(caller), Len(tasks') >= Len(tasks) - 1
      PROVE  Limit - Len(tasks') <= Cardinality(Testing')
  <2>1. Cardinality(Testing') = Cardinality(Testing) + 1
    BY <1>5, WakersFinite, FS_AddElement
  <2>2. Limit - Len(tasks) <= Cardinality(Testing)
    BY <1>2, <1>5
  <2>3. QED BY <1>1, <1>5, <2>1, <2>2
<1>6. ASSUME NEW c \in Testing, Testing' = Testing \ {c},
             Asleep(caller') \subseteq Asleep(caller), Len(tasks') = Len(tasks) + 1
      PROVE  Limit - Len(tasks') <= Cardinality(Testing')
  <2>1. Cardinality(Testing') = Cardinality(Testing) - 1
    BY <1>6, WakersFinite, FS_RemoveElement
  <2>2. Limit - Len(tasks) <= Cardinality(Testing)
    BY <1>2, <1>6
  <2>3. QED BY <1>1, <1>6, <2>1, <2>2
<1>7. QED BY CallerMoves, <1>3, <1>4, <1>5, <1>6

\* While the queue is open, one notification for each task and for each freed
\* place is enough: nobody sleeps who is needed by a queued task or a free place.
THEOREM NoWakeupLost == Spec => []NoLostWakeup
<1> DEFINE Notified == ClosersClose /\ WorkersNotified /\ CallersNotified
<1>1. Init => Notified
  BY DEF Init, ClosersClose, WorkersNotified, CallersNotified, Asleep
<1>2. TypeOK /\ TypeOK' /\ Notified /\ [Next]_vars => Notified'
  <2>1. CASE UNCHANGED vars
    BY <2>1 DEF vars, ClosersClose, WorkersNotified, CallersNotified, Asleep, AwakeWorkers, Awake,
                Testing
  <2>2. CASE Next
    BY <2>2, ClosersStep, WorkersNotifiedStep, CallersNotifiedStep
  <2>3. QED BY <2>1, <2>2
<1>3. Notified => NoLostWakeup
  BY DEF NoLostWakeup, WorkersNotified, CallersNotified, AwakeWorkers, Testing
<1>4. QED BY TypeCorrect, <1>1, <1>2, <1>3, PTL DEF Spec


-----------------------------------------------------------------------------
(* The queue implements the ordered handoff: a task is at one place at a   *)
(* time, in the line, with a worker, in a hand, not offered yet or settled.*)

Line == {tasks[i] : i \in DOMAIN tasks}

Distinct ==
    /\ \A i, j \in DOMAIN tasks : tasks[i] = tasks[j] => i = j
    /\ \A v, w \in Workers : job[v] # NoTask /\ job[v] = job[w] => v = w
    /\ \A c, d \in Callers : hand[c] # NoTask /\ hand[c] = hand[d] => c = d

Disjoint ==
    /\ fresh \cap Held = {} /\ fresh \cap Line = {} /\ fresh \cap Running = {} /\ fresh \cap settled = {}
    /\ Held \cap Line = {} /\ Held \cap Running = {} /\ Held \cap settled = {}
    /\ Line \cap Running = {} /\ Line \cap settled = {}
    /\ Running \cap settled = {}

OnePlace == Distinct /\ Disjoint

\* The places of a task, for the steps that move none.
places == <<tasks, job, hand, fresh, settled>>

LEMMA OfferMoves ==
    ASSUME TypeOK, OnePlace, NEW c \in Callers, Offer(c)
    PROVE  OnePlace'
<1>1. PICK t \in fresh : fresh' = fresh \ {t} /\ hand' = [hand EXCEPT ![c] = t]
  BY DEF Offer
<1>2. hand[c] = NoTask /\ t \in Tasks
  BY DEF Offer, TypeOK
<1>3. Held' = Held \cup {t}
  BY <1>1, <1>2 DEF Held, TypeOK
<1>4. tasks' = tasks /\ job' = job /\ settled' = settled
  BY DEF Offer
<1>5. Line' = Line /\ Running' = Running
  BY <1>4 DEF Line, Running
<1>6. Disjoint'
  BY <1>1, <1>3, <1>4, <1>5 DEF OnePlace, Disjoint
<1>7. t \notin Held
  BY DEF OnePlace, Disjoint
<1>8. Distinct'
  BY <1>1, <1>4, <1>7 DEF OnePlace, Distinct, Held, TypeOK
<1>9. QED BY <1>6, <1>8 DEF OnePlace

LEMMA PushMoves ==
    ASSUME TypeOK, OnePlace, NEW c \in Callers, Push(c)
    PROVE  /\ hand[c] \in Held /\ hand[c] \in Tasks
           /\ OnePlace'
<1>1. hand[c] \in Tasks /\ hand[c] \in Held
  BY DEF Push, TypeOK, Held
<1>2. /\ tasks' = Append(tasks, hand[c]) /\ hand' = [hand EXCEPT ![c] = NoTask]
      /\ job' = job /\ fresh' = fresh /\ settled' = settled
  BY DEF Push, Returns
<1>3. Held' = Held \ {hand[c]}
  BY <1>1, <1>2 DEF Held, TypeOK, OnePlace, Distinct
<1>4. /\ DOMAIN tasks = 1..Len(tasks) /\ DOMAIN tasks' = 1..(Len(tasks) + 1) /\ Len(tasks) \in Nat
      /\ tasks'[Len(tasks) + 1] = hand[c]
      /\ \A i \in 1..Len(tasks) : tasks'[i] = tasks[i]
  BY <1>1, <1>2 DEF TypeOK
<1>5. Line' = Line \cup {hand[c]}
  BY <1>4 DEF Line
<1>6. Running' = Running
  BY <1>2 DEF Running
<1>7. Disjoint'
  BY <1>1, <1>2, <1>3, <1>5, <1>6 DEF OnePlace, Disjoint
<1>8. \A i \in DOMAIN tasks : tasks[i] # hand[c]
  BY <1>1 DEF OnePlace, Disjoint, Line
<1>9. \A i, j \in DOMAIN tasks' : tasks'[i] = tasks'[j] => i = j
  BY <1>4, <1>8 DEF OnePlace, Distinct
<1>10. Distinct'
  BY <1>2, <1>9 DEF OnePlace, Distinct, TypeOK
<1>11. QED BY <1>1, <1>7, <1>10 DEF OnePlace

LEMMA RefuseMoves ==
    ASSUME TypeOK, OnePlace, NEW c \in Callers, Refuse(c)
    PROVE  /\ hand[c] \in Held /\ hand[c] \in Tasks
           /\ OnePlace'
<1>1. hand[c] \in Tasks /\ hand[c] \in Held
  BY DEF Refuse, TypeOK, Held
<1>2. /\ settled' = settled \cup {hand[c]} /\ hand' = [hand EXCEPT ![c] = NoTask]
      /\ job' = job /\ fresh' = fresh /\ tasks' = tasks
  BY DEF Refuse, Returns
<1>3. Held' = Held \ {hand[c]}
  BY <1>1, <1>2 DEF Held, TypeOK, OnePlace, Distinct
<1>4. Line' = Line /\ Running' = Running
  BY <1>2 DEF Line, Running
<1>5. Disjoint'
  BY <1>1, <1>2, <1>3, <1>4 DEF OnePlace, Disjoint
<1>6. Distinct'
  BY <1>2 DEF OnePlace, Distinct, TypeOK
<1>7. QED BY <1>1, <1>5, <1>6 DEF OnePlace

LEMMA PopMoves ==
    ASSUME TypeOK, OnePlace, NEW w \in Workers, Pop(w)
    PROVE  /\ Running' = Running \cup {Head(tasks)}
           /\ OnePlace'
<1>1. /\ tasks' = Tail(tasks) /\ job' = [job EXCEPT ![w] = Head(tasks)]
      /\ hand' = hand /\ fresh' = fresh /\ settled' = settled
  BY DEF Pop
<1>2. job[w] = NoTask /\ Head(tasks) \in Tasks
  BY DEF Pop, TypeOK
<1>3. Running' = Running \cup {Head(tasks)}
  BY <1>1, <1>2 DEF Running, TypeOK
<1>4. /\ DOMAIN tasks = 1..Len(tasks) /\ DOMAIN tasks' = 1..(Len(tasks) - 1)
      /\ Len(tasks) \in Nat \ {0} /\ Head(tasks) = tasks[1]
      /\ \A i \in 1..(Len(tasks) - 1) : tasks'[i] = tasks[i + 1]
  BY <1>1 DEF Pop, TypeOK
<1>5. Line' = Line \ {Head(tasks)}
  <2>1. \A i \in DOMAIN tasks' : tasks'[i] \in Line /\ tasks'[i] # tasks[1]
    BY <1>4 DEF Line, OnePlace, Distinct
  <2>2. ASSUME NEW i \in DOMAIN tasks, tasks[i] # tasks[1]
        PROVE  tasks[i] \in Line'
    <3>1. i - 1 \in DOMAIN tasks' /\ tasks'[i - 1] = tasks[i]
      BY <1>4, <2>2
    <3>2. QED BY <3>1 DEF Line
  <2>3. QED BY <1>4, <2>1, <2>2 DEF Line
<1>6. Head(tasks) \in Line
  BY <1>4 DEF Line
<1>7. Held' = Held
  BY <1>1 DEF Held
<1>8. Disjoint'
  BY <1>1, <1>3, <1>5, <1>6, <1>7 DEF OnePlace, Disjoint
<1>9. \A i, j \in DOMAIN tasks' : tasks'[i] = tasks'[j] => i = j
  <2> SUFFICES ASSUME NEW i \in DOMAIN tasks', NEW j \in DOMAIN tasks', tasks'[i] = tasks'[j]
               PROVE  i = j
    OBVIOUS
  <2>1. i + 1 \in DOMAIN tasks /\ j + 1 \in DOMAIN tasks /\ tasks[i + 1] = tasks[j + 1]
    BY <1>4
  <2>2. i + 1 = j + 1
    BY <2>1 DEF OnePlace, Distinct
  <2>3. QED BY <1>4, <2>2
<1>10. \A v \in Workers : job[v] # Head(tasks)
  BY <1>2, <1>6 DEF Running, OnePlace, Disjoint
<1>11. Distinct'
  BY <1>1, <1>9, <1>10 DEF OnePlace, Distinct, TypeOK
<1>12. QED BY <1>3, <1>8, <1>11 DEF OnePlace

LEMMA EndTaskMoves ==
    ASSUME TypeOK, OnePlace, NEW w \in Workers, EndTask(w)
    PROVE  /\ job[w] \in Running
           /\ Running' = Running \ {job[w]}
           /\ OnePlace'
<1>1. job[w] \in Tasks /\ job[w] \in Running
  BY DEF EndTask, TypeOK, Running
<1>2. /\ settled' = settled \cup {job[w]} /\ job' = [job EXCEPT ![w] = NoTask]
      /\ tasks' = tasks /\ hand' = hand /\ fresh' = fresh
  BY DEF EndTask
<1>3. Running' = Running \ {job[w]}
  BY <1>1, <1>2 DEF Running, TypeOK, OnePlace, Distinct
<1>4. Line' = Line /\ Held' = Held
  BY <1>2 DEF Line, Held
<1>5. Disjoint'
  BY <1>1, <1>2, <1>3, <1>4 DEF OnePlace, Disjoint
<1>6. Distinct'
  BY <1>2 DEF OnePlace, Distinct, TypeOK
<1>7. QED BY <1>1, <1>3, <1>5, <1>6 DEF OnePlace


\* The other steps move no task.
LEMMA OthersStay ==
    ASSUME \/ \E c \in Callers : WaitForSpace(c) \/ BeginShutdown(c) \/ Shutdown(c)
           \/ \E w \in Workers : WaitForTask(w) \/ Exit(w)
           \/ SpuriousWakeup
    PROVE  UNCHANGED places
<1>1. CASE \E c \in Callers : WaitForSpace(c) \/ BeginShutdown(c)
  BY <1>1 DEF places, WaitForSpace, BeginShutdown
<1>2. CASE \E c \in Callers : Shutdown(c)
  BY <1>2 DEF places, Shutdown, NotifyWorkers, NotifyCallers, Join
<1>3. CASE \E w \in Workers : WaitForTask(w) \/ Exit(w)
  BY <1>3 DEF places, WaitForTask, Exit
<1>4. CASE SpuriousWakeup
  BY <1>4 DEF places, SpuriousWakeup
<1>5. QED BY <1>1, <1>2, <1>3, <1>4

LEMMA StayKeepsPlace ==
    ASSUME OnePlace, UNCHANGED places
    PROVE  OnePlace'
BY DEF places, OnePlace, Distinct, Disjoint, Held, Line, Running

LEMMA OnePlaceStep == TypeOK /\ OnePlace /\ [Next]_vars => OnePlace'
<1> SUFFICES ASSUME TypeOK, OnePlace, [Next]_vars
             PROVE  OnePlace'
  OBVIOUS
<1>1. CASE UNCHANGED vars
  BY <1>1, StayKeepsPlace DEF vars, places
<1>2. CASE \E c \in Callers : Offer(c) \/ Push(c) \/ Refuse(c)
  BY <1>2, OfferMoves, PushMoves, RefuseMoves
<1>3. CASE \E w \in Workers : Pop(w) \/ EndTask(w)
  BY <1>3, PopMoves, EndTaskMoves
<1>4. CASE \/ \E c \in Callers : WaitForSpace(c) \/ BeginShutdown(c) \/ Shutdown(c)
           \/ \E w \in Workers : WaitForTask(w) \/ Exit(w)
           \/ SpuriousWakeup
  BY <1>4, OthersStay, StayKeepsPlace
<1>5. QED BY <1>1, <1>2, <1>3, <1>4 DEF Next, Enqueue, RunWorker

\* A worker that is awake runs nothing, so fewer tasks run than there are workers.
LEMMA FreeWorker ==
    ASSUME TypeOK, NEW w \in Workers, worker[w] = "awake"
    PROVE  Cardinality(Running) < Cardinality(Workers)
<1> DEFINE Busy == {v \in Workers : job[v] # NoTask}
           f == [v \in Busy |-> job[v]]
<1>1. w \notin Busy /\ Busy \subseteq Workers \ {w}
  BY DEF TypeOK
<1>2. /\ IsFiniteSet(Workers \ {w}) /\ Cardinality(Workers \ {w}) = Cardinality(Workers) - 1
      /\ Cardinality(Workers) \in Nat
  BY FS_RemoveElement, FS_CardinalityType
<1>3. IsFiniteSet(Busy) /\ Cardinality(Busy) <= Cardinality(Workers \ {w})
  BY <1>1, <1>2, FS_Subset
<1>4. f \in Surjection(Busy, Running)
  BY DEF Surjection, Running
<1>5. IsFiniteSet(Running) /\ Cardinality(Running) <= Cardinality(Busy)
  BY <1>3, <1>4, FS_Surjection
<1>6. Cardinality(Busy) \in Nat /\ Cardinality(Running) \in Nat
  BY <1>3, <1>5, FS_CardinalityType
<1>7. QED BY <1>2, <1>3, <1>5, <1>6

\* Which steps move the gate.
Shut == \E c \in Callers : caller[c] = "closed"

LEMMA ShutMoves ==
    ASSUME TypeOK, Next
    PROVE  \/ Shut' = Shut
           \/ \E c \in Callers : Join(c)
<1> USE DEF Shut, TypeOK
<1>1. CASE \E c \in Callers : Offer(c) \/ Push(c) \/ Refuse(c) \/ WaitForSpace(c) \/ BeginShutdown(c)
  BY <1>1 DEF Offer, Push, Refuse, WaitForSpace, BeginShutdown, Returns
<1>2. ASSUME NEW c \in Callers, NotifyWorkers(c) \/ NotifyCallers(c)
      PROVE  Shut' = Shut
  <2>1. \A x \in Callers : caller'[x] = "closed" <=> caller[x] = "closed"
    BY <1>2 DEF NotifyWorkers, NotifyCallers, WakeAll
  <2>2. QED BY <2>1
<1>3. CASE \E w \in Workers : WaitForTask(w) \/ Exit(w) \/ EndTask(w)
  BY <1>3 DEF WaitForTask, Exit, EndTask
<1>4. ASSUME NEW w \in Workers, Pop(w)
      PROVE  Shut' = Shut
  <2>1. \A x \in Callers : caller'[x] = "closed" <=> caller[x] = "closed"
    BY <1>4, WakesKeepsOthers DEF Pop
  <2>2. QED BY <2>1
<1>5. CASE SpuriousWakeup
  <2>1. \A x \in Callers : caller'[x] = "closed" <=> caller[x] = "closed"
    BY <1>5 DEF SpuriousWakeup, Asleep
  <2>2. QED BY <2>1
<1>6. QED BY <1>1, <1>2, <1>3, <1>4, <1>5 DEF Next, Enqueue, RunWorker, Shutdown

LEMMA KnownIs == Handoff!Known = Line \cup Running \cup settled
BY DEF Handoff!Known, Line


LEMMA GateIs ==
    /\ Gate = IF Shut THEN "closed" ELSE IF shuttingDown THEN "closing" ELSE "open"
    /\ Gate' = IF Shut' THEN "closed" ELSE IF shuttingDown' THEN "closing" ELSE "open"
BY DEF Gate, Shut

\* The steps that take a task from one place to another.
LEMMA TaskSteps ==
    ASSUME TypeOK, OnePlace, ClosersClose, Shut' = Shut,
           \/ \E c \in Callers : Push(c) \/ Refuse(c)
           \/ \E w \in Workers : Pop(w) \/ EndTask(w)
    PROVE  Handoff!Next
<1>1. Shut => shuttingDown
  BY DEF Shut, ClosersClose
<1>2. shuttingDown' = shuttingDown
  BY DEF Push, Refuse, Pop, EndTask
<1>3. Gate' = Gate
  BY <1>2, GateIs
<1>4. ASSUME NEW c \in Callers, Push(c)
      PROVE  Handoff!Accept(hand[c]) /\ hand[c] \in Tasks
  <2>1. hand[c] \in Held /\ hand[c] \in Tasks
    BY <1>4, PushMoves
  <2>2. hand[c] \notin Handoff!Known
    BY <2>1, KnownIs DEF OnePlace, Disjoint
  <2>3. Gate = "open"
    BY <1>1, <1>4, GateIs DEF Push
  <2>4. Running' = Running
    BY <1>4 DEF Push, Running
  <2>5. QED BY <1>3, <1>4, <2>1, <2>2, <2>3, <2>4 DEF Push, HasRoom, Handoff!Accept
<1>5. ASSUME NEW c \in Callers, Refuse(c)
      PROVE  Handoff!Refuse(hand[c]) /\ hand[c] \in Tasks
  <2>1. hand[c] \in Held /\ hand[c] \in Tasks
    BY <1>5, RefuseMoves
  <2>2. hand[c] \notin Handoff!Known
    BY <2>1, KnownIs DEF OnePlace, Disjoint
  <2>3. Gate # "open"
    BY <1>5, GateIs DEF Refuse
  <2>4. Running' = Running
    BY <1>5 DEF Refuse, Running
  <2>5. QED BY <1>3, <1>5, <2>1, <2>2, <2>3, <2>4 DEF Refuse, Handoff!Refuse
<1>6. ASSUME NEW w \in Workers, Pop(w)
      PROVE  Handoff!Start
  <2>1. Cardinality(Running) < Cardinality(Workers)
    BY <1>6, FreeWorker DEF Pop
  <2>2. Running' = Running \cup {Head(tasks)}
    BY <1>6, PopMoves
  <2>3. QED
    BY <1>3, <1>6, <2>1, <2>2 DEF Pop, Handoff!Start, Handoff!Cardinality, Cardinality
<1>7. ASSUME NEW w \in Workers, EndTask(w)
      PROVE  Handoff!End
  BY <1>3, <1>7, EndTaskMoves DEF EndTask, Handoff!End
<1>8. QED BY <1>4, <1>5, <1>6, <1>7 DEF Handoff!Next

\* The steps that only close: the gate follows the flag and the join.
LEMMA CloseSteps ==
    ASSUME TypeOK, ClosersClose, DrainedAtClose', Next,
           \E c \in Callers : BeginShutdown(c) \/ Join(c)
    PROVE  Handoff!Next \/ UNCHANGED <<tasks, Running, settled, Gate>>
<1>1. UNCHANGED <<tasks, Running, settled>>
  BY DEF BeginShutdown, Join, Running
<1>2. ASSUME NEW c \in Callers, BeginShutdown(c)
      PROVE  Handoff!StartClosing
  <2>1. ~ Shut /\ ~ Shut'
    BY <1>2 DEF BeginShutdown, Shut, ClosersClose, TypeOK
  <2>2. Gate = "open" /\ Gate' = "closing"
    BY <1>2, <2>1, GateIs DEF BeginShutdown
  <2>3. QED BY <1>1, <2>2 DEF Handoff!StartClosing
<1>3. ASSUME NEW c \in Callers, Join(c), ~ Shut
      PROVE  Handoff!Close
  <2>1. Shut' /\ shuttingDown
    BY <1>3 DEF Join, Shut, ClosersClose, TypeOK
  <2>2. Gate = "closing" /\ Gate' = "closed"
    BY <1>3, <2>1, GateIs
  <2>3. tasks = << >> /\ Running = {}
    BY <1>1, <2>1 DEF DrainedAtClose, Shut
  <2>4. QED BY <1>1, <2>2, <2>3 DEF Handoff!Close
<1>4. ASSUME NEW c \in Callers, Join(c), Shut
      PROVE  Gate' = Gate
  <2>1. Shut'
    BY <1>4 DEF Join, Shut, TypeOK
  <2>2. QED BY <1>4, <2>1, GateIs
<1>5. QED BY <1>1, <1>2, <1>3, <1>4 DEF Handoff!Next

\* Every other step is a stutter of the handoff.
LEMMA OtherSteps ==
    ASSUME Shut' = Shut,
           \/ \E c \in Callers : Offer(c) \/ WaitForSpace(c) \/ NotifyWorkers(c) \/ NotifyCallers(c)
           \/ \E w \in Workers : WaitForTask(w) \/ Exit(w)
           \/ SpuriousWakeup
    PROVE  UNCHANGED <<tasks, Running, settled, Gate>>
<1>1. tasks' = tasks /\ job' = job /\ settled' = settled /\ shuttingDown' = shuttingDown
  BY DEF Offer, WaitForSpace, NotifyWorkers, NotifyCallers, WaitForTask, Exit, SpuriousWakeup
<1>2. Gate' = Gate
  BY <1>1, GateIs
<1>3. QED BY <1>1, <1>2 DEF Running

\* The queue is an ordered handoff: it accepts a task only while it is open and
\* has room, starts tasks in the order in which it accepted them and never more
\* than there are workers, ends what it started, and is closed when that is done.
THEOREM QueueIsHandoff == Spec => Handoff!Init /\ [][Handoff!Next]_(Handoff!vars)
<1>1. Init => ClosersClose /\ OnePlace
  BY DEF Init, ClosersClose, OnePlace, Distinct, Disjoint, Held, Line, Running
<1>2. TypeOK /\ ClosersClose /\ [Next]_vars => ClosersClose'
  BY ClosersStep DEF ClosersClose, vars
<1>3. Init => Handoff!Init
  BY DEF Init, Handoff!Init, Running, Gate
<1>4. TypeOK /\ OnePlace /\ ClosersClose /\ DrainedAtClose' /\ [Next]_vars
      => [Handoff!Next]_(Handoff!vars)
  <2> SUFFICES ASSUME TypeOK, OnePlace, ClosersClose, DrainedAtClose', [Next]_vars
               PROVE  Handoff!Next \/ UNCHANGED <<tasks, Running, settled, Gate>>
    BY DEF Handoff!vars
  <2>1. CASE UNCHANGED vars
    BY <2>1 DEF vars, Running, Gate
  <2>2. CASE Next /\ \E c \in Callers : BeginShutdown(c) \/ Join(c)
    BY <2>2, CloseSteps
  <2>3. CASE Next /\ ~ \E c \in Callers : BeginShutdown(c) \/ Join(c)
    <3>1. Shut' = Shut
      BY <2>3, ShutMoves
    <3>2. \/ \E c \in Callers : Push(c) \/ Refuse(c)
          \/ \E w \in Workers : Pop(w) \/ EndTask(w)
          \/ \E c \in Callers : Offer(c) \/ WaitForSpace(c) \/ NotifyWorkers(c) \/ NotifyCallers(c)
          \/ \E w \in Workers : WaitForTask(w) \/ Exit(w)
          \/ SpuriousWakeup
      BY <2>3 DEF Next, Enqueue, Shutdown, RunWorker
    <3>3. QED BY <3>1, <3>2, TaskSteps, OtherSteps
  <2>4. QED BY <2>1, <2>2, <2>3
<1>5. QED
  BY <1>1, <1>2, <1>3, <1>4, OnePlaceStep, TypeCorrect, ShutdownDrains, PTL DEF Spec
=============================================================================
