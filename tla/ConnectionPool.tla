--------------------------- MODULE ConnectionPool ---------------------------
(***************************************************************************)
(* infrastructure/mysql/connection_pool: a bounded pool of MySQL           *)
(* connections shared by the HTTP worker threads and the startup thread.   *)
(* One mutex guards available_, total_ and stopping_; threads that find    *)
(* no slot sleep on the condition variable changed_ until an absolute      *)
(* deadline.  A step below is one critical section of that mutex, or one   *)
(* thing a thread does between two of them; creating a connection happens  *)
(* outside the mutex with the slot already reserved.                       *)
(*                                                                         *)
(* available_ is a set here: it is used as a stack, but which idle         *)
(* connection is handed out matters to no property.                        *)
(***************************************************************************)
EXTENDS Integers, FiniteSets

CONSTANTS Threads,   \* callers of acquire
          Conns,     \* identities a connection can have
          Capacity,  \* capacity_
          NoConn     \* the empty lease

ASSUME PoolAssumption ==
    /\ Capacity \in Nat \ {0}
    /\ IsFiniteSet(Threads)
    /\ IsFiniteSet(Conns)
    /\ NoConn \notin Conns

(***************************************************************************)
(* Where a thread is:                                                      *)
(*   out        in no call of the pool and without a lease                 *)
(*   asleep     blocked in changed_.wait_for                               *)
(*   awake      notified (or woken spuriously), about to test ready again  *)
(*   expired    its deadline passed, about to test ready a last time       *)
(*   creating   slot reserved, in factory_()                               *)
(*   notifying  factory failed and slot returned, before notify_one        *)
(*   leased     owns a ConnectionLease                                     *)
(***************************************************************************)
Phase == {"out", "asleep", "awake", "expired", "creating", "notifying", "leased"}

VARIABLES phase,     \* where each thread is
          lease,     \* the connection in each thread's lease
          idle,      \* available_
          total,     \* total_
          stopping,  \* stopping_, set by the destructor
          poisoned   \* open connections whose reusable() is false

vars == <<phase, lease, idle, total, stopping, poisoned>>

In(p) == {t \in Threads : phase[t] = p}
Busy == In("creating") \cup In("leased")
Open == idle \cup {lease[t] : t \in In("leased")}

\* Defect: the capacity test is off by one.
SlotFreeOffByOne == idle # {} \/ total <= Capacity

\* The predicate of wait_for, apart from stopping_.
SlotFree == idle # {} \/ total < Capacity

\* Defects: notify_one is not called; a released lease keeps its owner.
NotifiedNobody(t, p) == {[phase EXCEPT ![t] = p]}
NotifiedStillOwner(t, p) == {phase}

\* phase after notify_one with thread t moving to p: some sleeper is woken,
\* and a notification nobody waits for is lost.
Notified(t, p) ==
    IF In("asleep") = {}
    THEN {[phase EXCEPT ![t] = p]}
    ELSE {[phase EXCEPT ![t] = p, ![s] = "awake"] : s \in In("asleep")}

Init ==
    /\ phase = [t \in Threads |-> "out"]
    /\ lease = [t \in Threads |-> NoConn]
    /\ idle = {}
    /\ total = 0
    /\ stopping = FALSE
    /\ poisoned = {}
-----------------------------------------------------------------------------
(* acquire *)

\* Defect: available_.back() is used, pop_back is forgotten.
TakeSlotWithoutPop(t) ==
    /\ ~stopping
    /\ \/ /\ \E c \in idle : lease' = [lease EXCEPT ![t] = c]
          /\ phase' = [phase EXCEPT ![t] = "leased"]
          /\ UNCHANGED total
       \/ /\ idle = {} /\ total < Capacity
          /\ total' = total + 1
          /\ phase' = [phase EXCEPT ![t] = "creating"]
          /\ UNCHANGED lease
    /\ UNCHANGED <<idle, stopping, poisoned>>

\* The predicate holds: pop an idle connection, else reserve a slot.
TakeSlot(t) ==
    /\ ~stopping
    /\ \/ \E c \in idle :
            /\ idle' = idle \ {c}
            /\ lease' = [lease EXCEPT ![t] = c]
            /\ phase' = [phase EXCEPT ![t] = "leased"]
            /\ UNCHANGED total
       \/ /\ idle = {}
          /\ SlotFree
          /\ total' = total + 1
          /\ phase' = [phase EXCEPT ![t] = "creating"]
          /\ UNCHANGED <<lease, idle>>
    /\ UNCHANGED <<stopping, poisoned>>

SetPhase(t, p) ==
    /\ phase' = [phase EXCEPT ![t] = p]
    /\ UNCHANGED <<lease, idle, total, stopping, poisoned>>

\* The predicate does not hold (go on in p), or holds for stopping_ (give up).
GetNoSlot(t, p) ==
    /\ stopping \/ ~SlotFree
    /\ SetPhase(t, IF stopping THEN "out" ELSE p)

\* acquire is called.  Callers stop calling once the pool is destroyed.
Acquire(t) ==
    /\ phase[t] = "out"
    /\ ~stopping
    /\ TakeSlot(t) \/ GetNoSlot(t, "asleep")

\* wait_for may return without a notification.
SpuriousWakeup(t) == phase[t] = "asleep" /\ SetPhase(t, "awake")

\* The absolute deadline of wait_for passes.
Expire(t) == phase[t] = "asleep" /\ SetPhase(t, "expired")

\* A woken thread holds the mutex again and evaluates the predicate.
Recheck(t) ==
    /\ phase[t] = "awake"
    /\ TakeSlot(t) \/ GetNoSlot(t, "asleep")

\* Defect: the wait is restarted after the deadline.
LastCheckSleeps(t) ==
    /\ phase[t] = "expired"
    /\ TakeSlot(t) \/ GetNoSlot(t, "asleep")

\* The last evaluation of the predicate, after the deadline: the slot, or
\* PoolExhausted.
LastCheck(t) ==
    /\ phase[t] = "expired"
    /\ TakeSlot(t) \/ GetNoSlot(t, "out")

\* factory_() returns a connection, without the mutex.
CreateSucceeds(t) ==
    /\ phase[t] = "creating"
    /\ \E c \in Conns \ Open : lease' = [lease EXCEPT ![t] = c]
    /\ phase' = [phase EXCEPT ![t] = "leased"]
    /\ UNCHANGED <<idle, total, stopping, poisoned>>

\* Defect: the slot reserved for the factory is not given up.
CreateFailsKeepsSlot(t) ==
    /\ phase[t] = "creating"
    /\ phase' = [phase EXCEPT ![t] = "notifying"]
    /\ UNCHANGED <<lease, idle, total, stopping, poisoned>>

\* factory_() fails: the slot is returned under the mutex ...
CreateFails(t) ==
    /\ phase[t] = "creating"
    /\ total' = total - 1
    /\ phase' = [phase EXCEPT ![t] = "notifying"]
    /\ UNCHANGED <<lease, idle, stopping, poisoned>>

\* ... and one sleeper is told after it was released.
NotifyAfterFailure(t) ==
    /\ phase[t] = "notifying"
    /\ phase' \in Notified(t, "out")
    /\ UNCHANGED <<lease, idle, total, stopping, poisoned>>
-----------------------------------------------------------------------------
(* The lease *)

\* A statement fails in a way that marks the connection as not reusable.
Poison(t) ==
    /\ phase[t] = "leased"
    /\ lease[t] \notin poisoned
    /\ poisoned' = poisoned \cup {lease[t]}
    /\ UNCHANGED <<phase, lease, idle, total, stopping>>

\* Defect: reusable() is not asked.
StoreAnyway(c) == idle' = idle \cup {c} /\ UNCHANGED <<total, poisoned>>

\* A connection that is not reusable is closed and its slot freed; any other
\* one becomes idle.
StoreOrClose(c) ==
    IF stopping \/ c \in poisoned
    THEN /\ total' = IF total > 0 THEN total - 1 ELSE total
         /\ poisoned' = poisoned \ {c}
         /\ UNCHANGED idle
    ELSE /\ idle' = idle \cup {c}
         /\ UNCHANGED <<total, poisoned>>

\* ~ConnectionLease, giveBack; one sleeper is told either way.
GiveBack(t) ==
    /\ phase[t] = "leased"
    /\ StoreOrClose(lease[t])
    /\ lease' = [lease EXCEPT ![t] = NoConn]
    /\ phase' \in Notified(t, "out")
    /\ UNCHANGED stopping

\* ~ConnectionPool.  ProductionPlatform::stop joins the listener, and with
\* it every worker, before it resets the pool.
Destroy ==
    /\ ~stopping
    /\ \A t \in Threads : phase[t] = "out"
    /\ stopping' = TRUE
    /\ idle' = {}
    /\ total' = 0
    /\ UNCHANGED <<phase, lease, poisoned>>
-----------------------------------------------------------------------------
Step(t) ==
    \/ Acquire(t) \/ SpuriousWakeup(t) \/ Expire(t) \/ Recheck(t) \/ LastCheck(t)
    \/ CreateSucceeds(t) \/ CreateFails(t) \/ NotifyAfterFailure(t)
    \/ Poison(t) \/ GiveBack(t)

Next == Destroy \/ \E t \in Threads : Step(t)

Spec == Init /\ [][Next]_vars

\* A thread that can run does run, and factory_() returns (the client library
\* is given connect, read and write timeouts).  The deadline is a point in
\* time: a thread woken and put back to sleep again and again still meets it,
\* hence strong fairness.  Nothing is assumed of the holder of a lease.
Fairness ==
    \A t \in Threads :
        /\ WF_vars(Recheck(t))
        /\ WF_vars(LastCheck(t))
        /\ WF_vars(CreateSucceeds(t) \/ CreateFails(t))
        /\ WF_vars(NotifyAfterFailure(t))
        /\ SF_vars(Expire(t))

FairSpec == Spec /\ Fairness
-----------------------------------------------------------------------------
\* Every variable has its type, and just the leased threads have a connection.
TypeOK ==
    /\ phase \in [Threads -> Phase]
    /\ lease \in [Threads -> Conns \cup {NoConn}]
    /\ \A t \in Threads : lease[t] # NoConn <=> phase[t] = "leased"
    /\ idle \subseteq Conns
    /\ total \in Int
    /\ stopping \in BOOLEAN
    /\ poisoned \subseteq Conns

\* total_ counts exactly the idle connections, the leased ones and the slots
\* reserved for a factory_() call that runs outside the mutex, and never
\* exceeds the capacity: no failing step leaks a slot or returns one twice.
SlotAccounting ==
    /\ total = Cardinality(idle) + Cardinality(Busy)
    /\ total <= Capacity

\* A connection is in one place: idle, or in the lease of a single thread.
ExclusiveLease ==
    /\ \A t \in In("leased") : lease[t] \in Conns \ idle
    /\ \A s, t \in In("leased") : lease[s] = lease[t] => s = t

\* A connection whose reusable() is false is still in the lease it failed in:
\* it is never idle, so no other caller is ever handed it.
PoisonedStaysInLease == \A c \in poisoned : \E t \in In("leased") : lease[t] = c

\* While threads sleep, every slot that is free is matched by a thread that
\* was notified and has not run yet, or that is about to notify: no wakeup is
\* lost on any path that frees a slot.
FreeSlots == Cardinality(idle) + (Capacity - total)
Wakers == In("awake") \cup In("notifying")
NoLostWakeup == In("asleep") # {} => FreeSlots <= Cardinality(Wakers)

\* Every acquire returns, whatever the holders of leases do.
AcquireReturns ==
    \A t \in Threads :
        phase[t] \in {"asleep", "awake", "expired", "creating", "notifying"}
            ~> phase[t] \in {"out", "leased"}

\* The pool implements a counting semaphore; in particular PoolExhausted is
\* reported only while every slot is held.
Semaphore == INSTANCE BoundedPool WITH
    waiting <- In("asleep") \cup In("awake") \cup In("expired"),
    holding <- Busy,
    closed  <- stopping

ImplementsSemaphore == Semaphore!Spec
=============================================================================
