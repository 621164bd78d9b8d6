----------------------------- MODULE BoundedPool -----------------------------
(***************************************************************************)
(* What the connection pool promises its callers: a counting semaphore.    *)
(* At most Capacity threads hold a slot, a slot is granted only while one  *)
(* is free, and a request is turned away as "exhausted" only while every   *)
(* slot is held.  Module ConnectionPool implements it.                     *)
(***************************************************************************)
EXTENDS Naturals, FiniteSets

CONSTANTS Threads,   \* the threads that call the pool
          Capacity   \* the number of slots

VARIABLES waiting,   \* threads whose request is not answered yet
          holding,   \* threads that hold a slot
          closed     \* the pool is gone

vars == <<waiting, holding, closed>>

Full == Cardinality(holding) >= Capacity

Init == waiting = {} /\ holding = {} /\ closed = FALSE

\* A thread asks for a slot and is not answered at once.
Ask(t) ==
    /\ ~closed
    /\ t \notin waiting \cup holding
    /\ Full
    /\ waiting' = waiting \cup {t}
    /\ UNCHANGED <<holding, closed>>

\* A slot is granted, to a thread that waits or to one that only now asks.
Grant(t) ==
    /\ ~closed
    /\ t \notin holding
    /\ ~Full
    /\ waiting' = waiting \ {t}
    /\ holding' = holding \cup {t}
    /\ UNCHANGED closed

\* "Pool exhausted": only while all the slots are held.
TurnAway(t) ==
    /\ t \in waiting
    /\ Full
    /\ waiting' = waiting \ {t}
    /\ UNCHANGED <<holding, closed>>

\* The slot comes back.
Free(t) ==
    /\ t \in holding
    /\ holding' = holding \ {t}
    /\ UNCHANGED <<waiting, closed>>

Close ==
    /\ ~closed
    /\ waiting = {} /\ holding = {}
    /\ closed' = TRUE
    /\ UNCHANGED <<waiting, holding>>

Next == Close \/ \E t \in Threads : Ask(t) \/ Grant(t) \/ TurnAway(t) \/ Free(t)

Spec == Init /\ [][Next]_vars
=============================================================================
