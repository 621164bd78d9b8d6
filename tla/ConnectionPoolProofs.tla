------------------------ MODULE ConnectionPoolProofs ------------------------
(***************************************************************************)
(* Theorems about ConnectionPool, for every number of threads, every set   *)
(* of connections and every capacity.                                      *)
(***************************************************************************)
EXTENDS ConnectionPool, FiniteSetTheorems, TLAPS

USE PoolAssumption

\* What notify_one does: t goes to p, one sleeper (if any) becomes awake.
LEMMA NotifiedPhase ==
    ASSUME phase \in [Threads -> Phase], NEW t \in Threads, NEW p \in Phase,
           phase[t] # "asleep", phase' \in Notified(t, p)
    PROVE  /\ phase' \in [Threads -> Phase]
           /\ phase'[t] = p
           /\ \/ /\ In("asleep") = {}
                 /\ \A x \in Threads \ {t} : phase'[x] = phase[x]
              \/ \E s \in In("asleep") \ {t} :
                    /\ phase'[s] = "awake"
                    /\ \A x \in Threads \ {t, s} : phase'[x] = phase[x]
<1>1. CASE In("asleep") = {}
  BY <1>1 DEF Notified
<1>2. CASE In("asleep") # {}
  <2>1. PICK s \in In("asleep") :
               phase' = [phase EXCEPT ![t] = p, ![s] = "awake"]
    BY <1>2 DEF Notified
  <2>2. s \in Threads /\ s # t
    BY DEF In
  <2>3. QED
    BY <2>1, <2>2 DEF In, Phase
<1>3. QED
  BY <1>1, <1>2

\* Every variable keeps its type.
THEOREM TypeCorrect == Spec => []TypeOK
<1>1. Init => TypeOK
  <2> SUFFICES ASSUME Init PROVE TypeOK
    OBVIOUS
  <2>1. stopping \in BOOLEAN
    BY DEF Init
  <2>2. QED
    BY <2>1 DEF Init, TypeOK, Phase
<1>2. TypeOK /\ [Next]_vars => TypeOK'
  <2> SUFFICES ASSUME TypeOK, [Next]_vars PROVE TypeOK'
    OBVIOUS
  <2>1. ASSUME NEW t \in Threads, NEW p \in Phase \ {"leased"},
              phase[t] # "leased", SetPhase(t, p)
       PROVE  TypeOK'
    BY <2>1 DEF SetPhase, TypeOK
  <2>2. ASSUME NEW t \in Threads, phase[t] # "leased", TakeSlot(t) PROVE TypeOK'
    BY <2>2 DEF TakeSlot, TypeOK, Phase
  <2>3. ASSUME NEW t \in Threads, NEW p \in Phase \ {"leased"},
              phase[t] # "leased", GetNoSlot(t, p)
       PROVE  TypeOK'
    BY <2>3, <2>1 DEF GetNoSlot, Phase
  <2>4. ASSUME NEW t \in Threads, Acquire(t) PROVE TypeOK'
    BY <2>4, <2>2, <2>3 DEF Acquire, Phase
  <2>5. ASSUME NEW t \in Threads, SpuriousWakeup(t) \/ Expire(t) PROVE TypeOK'
    BY <2>5, <2>1 DEF SpuriousWakeup, Expire, Phase
  <2>6. ASSUME NEW t \in Threads, Recheck(t) \/ LastCheck(t) PROVE TypeOK'
    BY <2>6, <2>2, <2>3 DEF Recheck, LastCheck, Phase
  <2>7. ASSUME NEW t \in Threads, CreateSucceeds(t) PROVE TypeOK'
    BY <2>7 DEF CreateSucceeds, TypeOK, Phase
  <2>8. ASSUME NEW t \in Threads, CreateFails(t) PROVE TypeOK'
    BY <2>8 DEF CreateFails, TypeOK, Phase
  <2>9. ASSUME NEW t \in Threads, NotifyAfterFailure(t) PROVE TypeOK'
    <3>1. /\ phase' \in [Threads -> Phase]
          /\ \A x \in Threads : phase'[x] = "leased" <=> phase[x] = "leased"
      BY <2>9, NotifiedPhase DEF NotifyAfterFailure, TypeOK, Phase, In
    <3>2. QED
      BY <2>9, <3>1 DEF NotifyAfterFailure, TypeOK
  <2>10. ASSUME NEW t \in Threads, Poison(t) PROVE TypeOK'
    BY <2>10 DEF Poison, TypeOK
  <2>11. ASSUME NEW t \in Threads, GiveBack(t) PROVE TypeOK'
    <3>1. /\ phase' \in [Threads -> Phase]
          /\ phase'[t] = "out"
          /\ \A x \in Threads \ {t} : phase'[x] = "leased" <=> phase[x] = "leased"
      BY <2>11, NotifiedPhase DEF GiveBack, TypeOK, Phase, In
    <3>2. /\ idle' \subseteq Conns
          /\ total' \in Int
          /\ poisoned' \subseteq Conns
      BY <2>11 DEF GiveBack, StoreOrClose, TypeOK
    <3>3. QED
      BY <2>11, <3>1, <3>2 DEF GiveBack, TypeOK
  <2>12. CASE Destroy
    BY <2>12 DEF Destroy, TypeOK
  <2>13. CASE UNCHANGED vars
    BY <2>13 DEF vars, TypeOK
  <2>14. QED
    BY <2>4, <2>5, <2>6, <2>7, <2>8, <2>9, <2>10, <2>11, <2>12, <2>13
       DEF Next, Step
<1>3. QED
  BY <1>1, <1>2, PTL DEF Spec

-----------------------------------------------------------------------------
\* Both waking actions change no phase from or to the ones that hold a slot.
LEMMA NotifyKeepsHolders ==
    ASSUME TypeOK, NEW t \in Threads, NotifyAfterFailure(t)
    PROVE  /\ In("leased")' = In("leased")
           /\ In("creating")' = In("creating")
<1>1. \A x \in Threads, q \in {"leased", "creating"} :
        phase'[x] = q <=> phase[x] = q
  BY NotifiedPhase DEF NotifyAfterFailure, TypeOK, Phase, In
<1>2. QED
  BY <1>1 DEF In

\* Giving a lease back takes its thread, and no other, out of the holders.
LEMMA GiveBackFreesHolder ==
    ASSUME TypeOK, NEW t \in Threads, GiveBack(t)
    PROVE  /\ In("leased")' = In("leased") \ {t}
           /\ In("creating")' = In("creating")
<1>1. /\ phase'[t] = "out"
      /\ \A x \in Threads \ {t}, q \in {"leased", "creating"} :
           phase'[x] = q <=> phase[x] = q
  BY NotifiedPhase DEF GiveBack, TypeOK, Phase, In
<1>2. phase[t] = "leased"
  BY DEF GiveBack
<1>3. QED
  BY <1>1, <1>2 DEF In

\* A slot taken: an idle connection leased, or a slot reserved for factory_().
LEMMA TakeSlotHolders ==
    ASSUME TypeOK, NEW t \in Threads, phase[t] \notin {"leased", "creating"},
           TakeSlot(t)
    PROVE  \/ /\ In("leased")' = In("leased") \cup {t}
              /\ In("creating")' = In("creating")
              /\ lease'[t] \in idle
              /\ idle' = idle \ {lease'[t]}
              /\ \A x \in Threads \ {t} : lease'[x] = lease[x]
              /\ UNCHANGED total
           \/ /\ In("leased")' = In("leased")
              /\ In("creating")' = In("creating") \cup {t}
              /\ UNCHANGED <<lease, idle>>
              /\ idle = {} /\ total < Capacity /\ total' = total + 1
<1>1. CASE idle = {} /\ total < Capacity
           /\ total' = total + 1
           /\ phase' = [phase EXCEPT ![t] = "creating"]
           /\ UNCHANGED <<lease, idle>>
  BY <1>1 DEF In, TypeOK, Phase
<1>2. ASSUME NEW c \in idle,
             idle' = idle \ {c},
             lease' = [lease EXCEPT ![t] = c],
             phase' = [phase EXCEPT ![t] = "leased"],
             UNCHANGED total
      PROVE  /\ In("leased")' = In("leased") \cup {t}
             /\ In("creating")' = In("creating")
             /\ lease'[t] \in idle
             /\ idle' = idle \ {lease'[t]}
             /\ \A x \in Threads \ {t} : lease'[x] = lease[x]
             /\ UNCHANGED total
  BY <1>2 DEF In, TypeOK, Phase
<1>3. QED
  BY <1>1, <1>2 DEF TakeSlot, SlotFree

\* A thread that goes to sleep or gives up disturbs no holder.
LEMMA SetPhaseHolders ==
    ASSUME TypeOK, NEW t \in Threads, NEW p \in Phase \ {"leased", "creating"},
           phase[t] \notin {"leased", "creating"}, SetPhase(t, p)
    PROVE  /\ In("leased")' = In("leased")
           /\ In("creating")' = In("creating")
           /\ UNCHANGED <<lease, idle, total, poisoned>>
  BY DEF SetPhase, In, TypeOK, Phase

\* The four actions that test the predicate, or are about to, in one disjunction.
LEMMA WaitSteps ==
    ASSUME NEW t \in Threads,
           Acquire(t) \/ SpuriousWakeup(t) \/ Expire(t) \/ Recheck(t) \/ LastCheck(t)
    PROVE  /\ phase[t] \notin {"leased", "creating"}
           /\ \/ TakeSlot(t)
              \/ \E p \in Phase \ {"leased", "creating"} : SetPhase(t, p)
  BY DEF Acquire, SpuriousWakeup, Expire, Recheck, LastCheck, GetNoSlot, Phase

-----------------------------------------------------------------------------
\* acquire and giveBack never let two threads have the same connection, nor
\* leave a leased connection among the idle ones.
THEOREM LeasesExclusive == Spec => []ExclusiveLease
<1>1. Init => ExclusiveLease
  BY DEF Init, ExclusiveLease, In
<1>2. TypeOK /\ ExclusiveLease /\ [Next]_vars => ExclusiveLease'
  <2> SUFFICES ASSUME TypeOK, ExclusiveLease, [Next]_vars PROVE ExclusiveLease'
    OBVIOUS
  <2> USE DEF ExclusiveLease
  <2>1. ASSUME NEW t \in Threads,
               Acquire(t) \/ SpuriousWakeup(t) \/ Expire(t) \/ Recheck(t) \/ LastCheck(t)
        PROVE  ExclusiveLease'
    <3>1. CASE TakeSlot(t)
      <4>1. lease'[t] \in idle => lease'[t] \in Conns
        BY DEF TypeOK
      <4>2. \A x \in In("leased") : x \in Threads /\ x # t
        BY <2>1, WaitSteps DEF In
      <4>3. QED
        BY <2>1, <3>1, <4>1, <4>2, WaitSteps, TakeSlotHolders
    <3>2. CASE \E p \in Phase \ {"leased", "creating"} : SetPhase(t, p)
      BY <2>1, <3>2, WaitSteps, SetPhaseHolders
    <3>3. QED
      BY <2>1, <3>1, <3>2, WaitSteps
  <2>2. ASSUME NEW t \in Threads, CreateSucceeds(t) PROVE ExclusiveLease'
    <3>1. PICK c \in Conns \ Open : lease' = [lease EXCEPT ![t] = c]
      BY <2>2 DEF CreateSucceeds
    <3>2. /\ c \notin idle
          /\ \A x \in In("leased") : lease[x] # c
      BY <3>1 DEF Open
    <3>3. /\ In("leased")' = In("leased") \cup {t}
          /\ t \notin In("leased")
          /\ idle' = idle
      BY <2>2 DEF CreateSucceeds, In, TypeOK, Phase
    <3>4. /\ lease'[t] = c
          /\ \A x \in In("leased") : lease'[x] = lease[x]
      BY <3>1, <3>3 DEF TypeOK, In
    <3>5. QED
      BY <3>1, <3>2, <3>3, <3>4
  <2>3. ASSUME NEW t \in Threads, CreateFails(t) PROVE ExclusiveLease'
    BY <2>3 DEF CreateFails, In, TypeOK, Phase
  <2>4. ASSUME NEW t \in Threads, NotifyAfterFailure(t) PROVE ExclusiveLease'
    BY <2>4, NotifyKeepsHolders DEF NotifyAfterFailure
  <2>5. ASSUME NEW t \in Threads, Poison(t) PROVE ExclusiveLease'
    BY <2>5 DEF Poison, In
  <2>6. ASSUME NEW t \in Threads, GiveBack(t) PROVE ExclusiveLease'
    <3>1. /\ In("leased")' = In("leased") \ {t}
          /\ t \in In("leased")
          /\ \A x \in In("leased") \ {t} : lease'[x] = lease[x]
          /\ idle' \subseteq idle \cup {lease[t]}
      BY <2>6, GiveBackFreesHolder DEF GiveBack, StoreOrClose, In, TypeOK
    <3>2. QED
      BY <3>1
  <2>7. CASE Destroy
    BY <2>7 DEF Destroy, In
  <2>8. CASE UNCHANGED vars
    BY <2>8 DEF vars, In
  <2>9. QED
    BY <2>1, <2>2, <2>3, <2>4, <2>5, <2>6, <2>7, <2>8 DEF Next, Step
<1>3. QED
  BY <1>1, <1>2, TypeCorrect, PTL DEF Spec

\* A connection that failed leaves the client with the lease it failed in.
THEOREM PoisonConfined == Spec => []PoisonedStaysInLease
<1>1. Init => PoisonedStaysInLease
  BY DEF Init, PoisonedStaysInLease
<1>2. TypeOK /\ ExclusiveLease /\ PoisonedStaysInLease /\ [Next]_vars
        => PoisonedStaysInLease'
  <2> SUFFICES ASSUME TypeOK, ExclusiveLease, PoisonedStaysInLease, [Next]_vars
               PROVE  PoisonedStaysInLease'
    OBVIOUS
  <2> USE DEF PoisonedStaysInLease
  <2>1. ASSUME NEW t \in Threads,
               Acquire(t) \/ SpuriousWakeup(t) \/ Expire(t) \/ Recheck(t) \/ LastCheck(t)
        PROVE  PoisonedStaysInLease'
    <3>1. CASE TakeSlot(t)
      <4>1. \A x \in In("leased") : x \in Threads /\ x # t
        BY <2>1, WaitSteps DEF In
      <4>2. UNCHANGED poisoned
        BY <3>1 DEF TakeSlot
      <4>3. QED
        BY <2>1, <3>1, <4>1, <4>2, WaitSteps, TakeSlotHolders
    <3>2. CASE \E p \in Phase \ {"leased", "creating"} : SetPhase(t, p)
      BY <2>1, <3>2, WaitSteps, SetPhaseHolders
    <3>3. QED
      BY <2>1, <3>1, <3>2, WaitSteps
  <2>2. ASSUME NEW t \in Threads, CreateSucceeds(t) PROVE PoisonedStaysInLease'
    <3>1. /\ In("leased")' = In("leased") \cup {t}
          /\ t \notin In("leased")
      BY <2>2 DEF CreateSucceeds, In, TypeOK, Phase
    <3>2. \A x \in In("leased") : lease'[x] = lease[x]
      BY <2>2, <3>1 DEF CreateSucceeds, TypeOK, In
    <3>3. QED
      BY <2>2, <3>1, <3>2 DEF CreateSucceeds
  <2>3. ASSUME NEW t \in Threads, CreateFails(t) PROVE PoisonedStaysInLease'
    BY <2>3 DEF CreateFails, In, TypeOK, Phase
  <2>4. ASSUME NEW t \in Threads, NotifyAfterFailure(t) PROVE PoisonedStaysInLease'
    BY <2>4, NotifyKeepsHolders DEF NotifyAfterFailure
  <2>5. ASSUME NEW t \in Threads, Poison(t) PROVE PoisonedStaysInLease'
    BY <2>5 DEF Poison, In
  <2>6. ASSUME NEW t \in Threads, GiveBack(t) PROVE PoisonedStaysInLease'
    <3>1. /\ In("leased")' = In("leased") \ {t}
          /\ t \in In("leased")
          /\ \A x \in In("leased") \ {t} : lease'[x] = lease[x]
      BY <2>6, GiveBackFreesHolder DEF GiveBack, In, TypeOK
    <3>2. poisoned' = poisoned \ {lease[t]}
      BY <2>6 DEF GiveBack, StoreOrClose
    <3>3. QED
      BY <3>1, <3>2
  <2>7. CASE Destroy
    BY <2>7 DEF Destroy, In
  <2>8. CASE UNCHANGED vars
    BY <2>8 DEF vars, In
  <2>9. QED
    BY <2>1, <2>2, <2>3, <2>4, <2>5, <2>6, <2>7, <2>8 DEF Next, Step
<1>3. QED
  BY <1>1, <1>2, TypeCorrect, LeasesExclusive, PTL DEF Spec

-----------------------------------------------------------------------------
\* The sets the accounting counts are finite.
LEMMA Finiteness ==
    ASSUME TypeOK
    PROVE  /\ IsFiniteSet(idle) /\ Cardinality(idle) \in Nat
           /\ IsFiniteSet(Busy) /\ Cardinality(Busy) \in Nat
           /\ IsFiniteSet(Wakers) /\ Cardinality(Wakers) \in Nat
<1>1. idle \in SUBSET Conns /\ Busy \in SUBSET Threads /\ Wakers \in SUBSET Threads
  BY DEF TypeOK, Busy, Wakers, In
<1>2. IsFiniteSet(idle) /\ IsFiniteSet(Busy) /\ IsFiniteSet(Wakers)
  BY <1>1, FS_Subset DEF PoolAssumption
<1>3. QED
  BY <1>2, FS_CardinalityType

\* Every step moves connections and slots in one of six ways.
LEMMA SlotMoves ==
    ASSUME TypeOK, ExclusiveLease, [Next]_vars
    PROVE  \/ UNCHANGED <<idle, Busy, total>>
           \/ \E t \in Threads \ Busy, c \in idle :
                /\ idle' = idle \ {c} /\ Busy' = Busy \cup {t}
                /\ UNCHANGED total
           \/ \E t \in Threads \ Busy :
                /\ Busy' = Busy \cup {t}
                /\ total < Capacity /\ total' = total + 1
                /\ UNCHANGED idle
           \/ \E t \in Busy :
                /\ Busy' = Busy \ {t}
                /\ total' = IF total > 0 THEN total - 1 ELSE total
                /\ UNCHANGED idle
           \/ \E t \in Busy :
                /\ Busy' = Busy \ {t} /\ total' = total - 1
                /\ UNCHANGED idle
           \/ \E t \in Busy, c \in Conns \ idle :
                /\ idle' = idle \cup {c} /\ Busy' = Busy \ {t}
                /\ UNCHANGED total
           \/ idle' = {} /\ Busy' = {} /\ total' = 0
<1>1. ASSUME NEW t \in Threads,
             Acquire(t) \/ SpuriousWakeup(t) \/ Expire(t) \/ Recheck(t) \/ LastCheck(t)
      PROVE  \/ UNCHANGED <<idle, Busy, total>>
             \/ \E c \in idle :
                  /\ t \notin Busy
                  /\ idle' = idle \ {c} /\ Busy' = Busy \cup {t}
                  /\ UNCHANGED total
             \/ /\ t \notin Busy
                /\ Busy' = Busy \cup {t}
                /\ total < Capacity /\ total' = total + 1
                /\ UNCHANGED idle
  <2>1. t \notin Busy
    BY <1>1, WaitSteps DEF Busy, In
  <2>2. CASE TakeSlot(t)
    BY <1>1, <2>1, <2>2, WaitSteps, TakeSlotHolders DEF Busy
  <2>3. CASE \E p \in Phase \ {"leased", "creating"} : SetPhase(t, p)
    BY <1>1, <2>3, WaitSteps, SetPhaseHolders DEF Busy
  <2>4. QED
    BY <1>1, <2>2, <2>3, WaitSteps
<1>2. ASSUME NEW t \in Threads, CreateSucceeds(t)
      PROVE  UNCHANGED <<idle, Busy, total>>
  BY <1>2 DEF CreateSucceeds, Busy, In, TypeOK, Phase
<1>3. ASSUME NEW t \in Threads, CreateFails(t)
      PROVE  /\ t \in Busy /\ Busy' = Busy \ {t}
             /\ total' = total - 1 /\ UNCHANGED idle
  BY <1>3 DEF CreateFails, Busy, In, TypeOK, Phase
<1>4. ASSUME NEW t \in Threads, NotifyAfterFailure(t)
      PROVE  UNCHANGED <<idle, Busy, total>>
  BY <1>4, NotifyKeepsHolders DEF NotifyAfterFailure, Busy
<1>5. ASSUME NEW t \in Threads, Poison(t)
      PROVE  UNCHANGED <<idle, Busy, total>>
  BY <1>5 DEF Poison, Busy, In
<1>6. ASSUME NEW t \in Threads, GiveBack(t)
      PROVE  /\ t \in Busy /\ Busy' = Busy \ {t}
             /\ \/ /\ total' = IF total > 0 THEN total - 1 ELSE total
                   /\ UNCHANGED idle
                \/ \E c \in Conns \ idle :
                     idle' = idle \cup {c} /\ UNCHANGED total
  <2>1. t \in In("leased") /\ t \notin In("creating")
    BY <1>6 DEF GiveBack, In
  <2>2. t \in Busy /\ Busy' = Busy \ {t}
    BY <1>6, <2>1, GiveBackFreesHolder DEF Busy
  <2>3. lease[t] \in Conns \ idle
    BY <2>1 DEF ExclusiveLease
  <2>4. QED
    BY <1>6, <2>2, <2>3 DEF GiveBack, StoreOrClose
<1>7. CASE Destroy
  BY <1>7 DEF Destroy, Busy, In
<1>8. CASE UNCHANGED vars
  BY <1>8 DEF vars, Busy, In
<1>9. QED
  BY <1>1, <1>2, <1>3, <1>4, <1>5, <1>6, <1>7, <1>8 DEF Next, Step

\* No path, failing ones included, leaks a slot, frees one twice or goes
\* beyond the capacity.
THEOREM SlotsAccounted == Spec => []SlotAccounting
<1>1. Init => SlotAccounting
  <2> SUFFICES ASSUME Init PROVE SlotAccounting
    OBVIOUS
  <2>1. idle = {} /\ Busy = {} /\ total = 0
    BY DEF Init, Busy, In
  <2>2. QED
    BY <2>1, FS_EmptySet DEF SlotAccounting, PoolAssumption
<1>2. TypeOK /\ ExclusiveLease /\ SlotAccounting /\ [Next]_vars => SlotAccounting'
  <2> SUFFICES ASSUME TypeOK, ExclusiveLease, SlotAccounting, [Next]_vars
               PROVE  SlotAccounting'
    OBVIOUS
  <2>1. /\ IsFiniteSet(idle) /\ Cardinality(idle) \in Nat
        /\ IsFiniteSet(Busy) /\ Cardinality(Busy) \in Nat
        /\ Capacity \in Nat /\ total \in Int
    BY Finiteness DEF PoolAssumption, TypeOK
  <2>2. ASSUME NEW t, t \notin Busy
        PROVE  Cardinality(Busy \cup {t}) = Cardinality(Busy) + 1
    BY <2>1, <2>2, FS_AddElement
  <2>3. ASSUME NEW t \in Busy
        PROVE  Cardinality(Busy \ {t}) = Cardinality(Busy) - 1 /\ Cardinality(Busy) # 0
    <3>1. Cardinality(Busy \ {t}) = Cardinality(Busy) - 1
      BY <2>1, FS_RemoveElement
    <3>2. Cardinality(Busy) # 0
      BY <2>1, FS_EmptySet
    <3>3. QED
      BY <3>1, <3>2
  <2>4. ASSUME NEW c, c \notin idle
        PROVE  Cardinality(idle \cup {c}) = Cardinality(idle) + 1
    BY <2>1, <2>4, FS_AddElement
  <2>5. ASSUME NEW c \in idle
        PROVE  Cardinality(idle \ {c}) = Cardinality(idle) - 1
    BY <2>1, FS_RemoveElement
  <2>6. Cardinality({}) = 0
    BY FS_EmptySet
  <2>7. CASE UNCHANGED <<idle, Busy, total>>
    BY <2>7 DEF SlotAccounting
  <2>8. ASSUME NEW t \in Threads \ Busy, NEW c \in idle,
               idle' = idle \ {c}, Busy' = Busy \cup {t}, UNCHANGED total
        PROVE  SlotAccounting'
    BY <2>1, <2>2, <2>5, <2>8 DEF SlotAccounting
  <2>9. ASSUME NEW t \in Threads \ Busy, Busy' = Busy \cup {t},
               total < Capacity, total' = total + 1, UNCHANGED idle
        PROVE  SlotAccounting'
    BY <2>1, <2>2, <2>9 DEF SlotAccounting
  <2>10. ASSUME NEW t \in Busy, Busy' = Busy \ {t}, UNCHANGED idle,
                total' = total - 1 \/ total' = IF total > 0 THEN total - 1 ELSE total
         PROVE  SlotAccounting'
    BY <2>1, <2>3, <2>10 DEF SlotAccounting
  <2>11. ASSUME NEW t \in Busy, NEW c \in Conns \ idle,
                idle' = idle \cup {c}, Busy' = Busy \ {t}, UNCHANGED total
         PROVE  SlotAccounting'
    BY <2>1, <2>3, <2>4, <2>11 DEF SlotAccounting
  <2>12. CASE idle' = {} /\ Busy' = {} /\ total' = 0
    BY <2>1, <2>6, <2>12 DEF SlotAccounting
  <2>13. QED
    BY <2>7, <2>8, <2>9, <2>10, <2>11, <2>12, SlotMoves
<1>3. QED
  BY <1>1, <1>2, TypeCorrect, LeasesExclusive, PTL DEF Spec

-----------------------------------------------------------------------------
\* Once the destructor ran, no thread is inside the pool or holds a lease.
QuietAfterDestroy == stopping => \A t \in Threads : phase[t] = "out"

\* The part of NoLostWakeup that concerns the destructor.
LEMMA Quiet == Spec => []QuietAfterDestroy
<1>1. Init => QuietAfterDestroy
  BY DEF Init, QuietAfterDestroy
<1>2. TypeOK /\ QuietAfterDestroy /\ [Next]_vars => QuietAfterDestroy'
  <2> SUFFICES ASSUME TypeOK, QuietAfterDestroy, [Next]_vars PROVE QuietAfterDestroy'
    OBVIOUS
  <2> USE DEF QuietAfterDestroy
  <2>1. ASSUME NEW t \in Threads, Step(t) PROVE ~stopping /\ ~stopping'
    <3>1. ~stopping
      BY <2>1 DEF Step, Acquire, SpuriousWakeup, Expire, Recheck, LastCheck,
                  CreateSucceeds, CreateFails, NotifyAfterFailure, Poison, GiveBack
    <3>2. UNCHANGED stopping
      BY <2>1 DEF Step, Acquire, SpuriousWakeup, Expire, Recheck, LastCheck,
                  TakeSlot, GetNoSlot, SetPhase,
                  CreateSucceeds, CreateFails, NotifyAfterFailure, Poison, GiveBack
    <3>3. QED
      BY <3>1, <3>2
  <2>2. CASE Destroy
    BY <2>2 DEF Destroy
  <2>3. CASE UNCHANGED vars
    BY <2>3 DEF vars
  <2>4. QED
    BY <2>1, <2>2, <2>3 DEF Next
<1>3. QED
  BY <1>1, <1>2, TypeCorrect, PTL DEF Spec

\* What a step does to the sleepers, to those that will look at the free
\* slots, and to the slots taken.
LEMMA WakeMoves ==
    ASSUME TypeOK, QuietAfterDestroy, [Next]_vars
    PROVE  \/ In("asleep")' = {}
           \/ UNCHANGED <<In("asleep"), Wakers, Busy>>
           \* a slot is taken, by a waker or by a newcomer
           \/ \E t \in Threads \ Busy :
                /\ Busy' = Busy \cup {t} /\ Wakers' = Wakers \ {t}
                /\ In("asleep")' \subseteq In("asleep")
           \* a thread goes to sleep with no slot free
           \/ idle = {} /\ total >= Capacity /\ Busy' = Busy
           \* a sleeper wakes up or expires
           \/ /\ Busy' = Busy /\ In("asleep")' \subseteq In("asleep")
              /\ \/ Wakers' = Wakers
                 \/ \E s \in In("asleep") : Wakers' = Wakers \cup {s}
                 \/ \E t \in Wakers, s \in In("asleep") :
                       Wakers' = (Wakers \ {t}) \cup {s}
           \* a slot is freed: someone notifies, or is notified
           \/ /\ In("asleep")' \subseteq In("asleep")
              /\ \E t \in Busy, s \in Threads \ Wakers :
                    Busy' = Busy \ {t} /\ Wakers' = Wakers \cup {s}
<1> USE DEF Wakers, Busy
<1>1. ASSUME NEW t \in Threads, phase[t] \notin {"leased", "creating", "notifying"},
             TakeSlot(t)
      PROVE  \E x \in Threads \ Busy :
                /\ Busy' = Busy \cup {x} /\ Wakers' = Wakers \ {x}
                /\ In("asleep")' \subseteq In("asleep")
  <2>1. t \notin Busy
    BY <1>1 DEF In
  <2>2. Busy' = Busy \cup {t}
    BY <1>1, TakeSlotHolders
  <2>3. Wakers' = Wakers \ {t} /\ In("asleep")' \subseteq In("asleep")
    BY <1>1 DEF TakeSlot, In, TypeOK, Phase
  <2>4. QED
    BY <2>1, <2>2, <2>3
<1>2. ASSUME NEW t \in Threads, NEW p \in {"out", "asleep"},
             phase[t] \in {"out", "awake", "expired"}, ~stopping,
             GetNoSlot(t, p)
      PROVE  idle = {} /\ total >= Capacity /\ Busy' = Busy
  <2>1. idle = {} /\ ~(total < Capacity)
    BY <1>2 DEF GetNoSlot, SlotFree
  <2>2. SetPhase(t, p)
    BY <1>2 DEF GetNoSlot
  <2>3. Busy' = Busy
    BY <1>2, <2>2, SetPhaseHolders DEF Phase
  <2>4. QED
    BY <2>1, <2>3 DEF TypeOK, PoolAssumption
<1>3. ASSUME NEW t \in Threads, Acquire(t) \/ Recheck(t) \/ LastCheck(t)
      PROVE  \/ \E x \in Threads \ Busy :
                  /\ Busy' = Busy \cup {x} /\ Wakers' = Wakers \ {x}
                  /\ In("asleep")' \subseteq In("asleep")
             \/ idle = {} /\ total >= Capacity /\ Busy' = Busy
  <2>1. phase[t] \in {"out", "awake", "expired"} /\ ~stopping
    BY <1>3 DEF Acquire, Recheck, LastCheck, QuietAfterDestroy
  <2>2. TakeSlot(t) \/ GetNoSlot(t, "asleep") \/ GetNoSlot(t, "out")
    BY <1>3 DEF Acquire, Recheck, LastCheck
  <2>3. QED
    BY <2>1, <2>2, <1>1, <1>2
<1>4. ASSUME NEW t \in Threads, SpuriousWakeup(t)
      PROVE  /\ Busy' = Busy /\ In("asleep")' \subseteq In("asleep")
             /\ \E s \in In("asleep") : Wakers' = Wakers \cup {s}
  <2>1. t \in In("asleep")
    BY <1>4 DEF SpuriousWakeup, In
  <2>2. /\ Busy' = Busy /\ In("asleep")' \subseteq In("asleep")
        /\ Wakers' = Wakers \cup {t}
    BY <1>4 DEF SpuriousWakeup, SetPhase, In, TypeOK, Phase
  <2>3. QED
    BY <2>1, <2>2
<1>5. ASSUME NEW t \in Threads, Expire(t)
      PROVE  /\ Busy' = Busy /\ In("asleep")' \subseteq In("asleep")
             /\ Wakers' = Wakers
  BY <1>5 DEF Expire, SetPhase, In, TypeOK, Phase
<1>6. ASSUME NEW t \in Threads, CreateSucceeds(t)
      PROVE  UNCHANGED <<In("asleep"), Wakers, Busy>>
  BY <1>6 DEF CreateSucceeds, In, TypeOK, Phase
<1>7. ASSUME NEW t \in Threads, CreateFails(t)
      PROVE  /\ In("asleep")' \subseteq In("asleep")
             /\ t \in Busy /\ t \notin Wakers
             /\ Busy' = Busy \ {t} /\ Wakers' = Wakers \cup {t}
  BY <1>7 DEF CreateFails, In, TypeOK, Phase
<1>8. ASSUME NEW t \in Threads, NotifyAfterFailure(t)
      PROVE  \/ In("asleep")' = {}
             \/ /\ Busy' = Busy /\ In("asleep")' \subseteq In("asleep")
                /\ \E s \in In("asleep") :
                      t \in Wakers /\ Wakers' = (Wakers \ {t}) \cup {s}
  <2>1. phase[t] = "notifying" /\ Busy' = Busy
    BY <1>8, NotifyKeepsHolders DEF NotifyAfterFailure
  <2>2. /\ phase' \in [Threads -> Phase] /\ phase'[t] = "out"
        /\ \/ /\ In("asleep") = {}
              /\ \A x \in Threads \ {t} : phase'[x] = phase[x]
           \/ \E s \in In("asleep") \ {t} :
                 /\ phase'[s] = "awake"
                 /\ \A x \in Threads \ {t, s} : phase'[x] = phase[x]
    BY <1>8, NotifiedPhase DEF NotifyAfterFailure, TypeOK, Phase
  <2>3. CASE /\ In("asleep") = {}
             /\ \A x \in Threads \ {t} : phase'[x] = phase[x]
    BY <2>2, <2>3 DEF In
  <2>4. ASSUME NEW s \in In("asleep") \ {t}, phase'[s] = "awake",
               \A x \in Threads \ {t, s} : phase'[x] = phase[x]
        PROVE  /\ In("asleep")' \subseteq In("asleep")
               /\ t \in Wakers /\ Wakers' = (Wakers \ {t}) \cup {s}
    BY <2>1, <2>2, <2>4 DEF In
  <2>5. QED
    BY <2>1, <2>2, <2>3, <2>4
<1>9. ASSUME NEW t \in Threads, Poison(t)
      PROVE  UNCHANGED <<In("asleep"), Wakers, Busy>>
  BY <1>9 DEF Poison, In
<1>10. ASSUME NEW t \in Threads, GiveBack(t)
       PROVE  \/ In("asleep")' = {}
              \/ /\ In("asleep")' \subseteq In("asleep")
                 /\ t \in Busy /\ Busy' = Busy \ {t}
                 /\ \E s \in Threads \ Wakers : Wakers' = Wakers \cup {s}
  <2>1. phase[t] = "leased" /\ t \in Busy /\ Busy' = Busy \ {t}
    <3>1. t \in In("leased") /\ t \notin In("creating")
      BY <1>10 DEF GiveBack, In
    <3>2. QED
      BY <1>10, <3>1, GiveBackFreesHolder DEF In
  <2>2. /\ phase' \in [Threads -> Phase] /\ phase'[t] = "out"
        /\ \/ /\ In("asleep") = {}
              /\ \A x \in Threads \ {t} : phase'[x] = phase[x]
           \/ \E s \in In("asleep") \ {t} :
                 /\ phase'[s] = "awake"
                 /\ \A x \in Threads \ {t, s} : phase'[x] = phase[x]
    BY <1>10, NotifiedPhase DEF GiveBack, TypeOK, Phase
  <2>3. CASE /\ In("asleep") = {}
             /\ \A x \in Threads \ {t} : phase'[x] = phase[x]
    BY <2>2, <2>3 DEF In
  <2>4. ASSUME NEW s \in In("asleep") \ {t}, phase'[s] = "awake",
               \A x \in Threads \ {t, s} : phase'[x] = phase[x]
        PROVE  /\ In("asleep")' \subseteq In("asleep")
               /\ s \in Threads \ Wakers /\ Wakers' = Wakers \cup {s}
    BY <2>1, <2>2, <2>4 DEF In
  <2>5. QED
    BY <2>1, <2>2, <2>3, <2>4
<1>11. CASE Destroy
  BY <1>11 DEF Destroy, In
<1>12. CASE UNCHANGED vars
  BY <1>12 DEF vars, In
<1>13. QED
  BY <1>3, <1>4, <1>5, <1>6, <1>7, <1>8, <1>9, <1>10, <1>11, <1>12 DEF Next, Step

\* With the accounting, the free slots are those no thread holds.
LEMMA FreeSlotsValue ==
    ASSUME TypeOK, SlotAccounting
    PROVE  FreeSlots = Capacity - Cardinality(Busy) /\ Cardinality(Busy) <= Capacity
  BY Finiteness DEF FreeSlots, SlotAccounting, TypeOK, PoolAssumption

\* No path of acquire or giveBack that frees a slot leaves a sleeper behind
\* that nobody will wake: the notify_one calls of the pool suffice.
THEOREM NoWakeupLost == Spec => []NoLostWakeup
<1>1. Init => NoLostWakeup
  BY DEF Init, NoLostWakeup, In
<1>2. /\ TypeOK /\ SlotAccounting /\ TypeOK' /\ SlotAccounting'
      /\ ExclusiveLease /\ QuietAfterDestroy /\ NoLostWakeup /\ [Next]_vars
      => NoLostWakeup'
  <2> SUFFICES ASSUME TypeOK, SlotAccounting, TypeOK', SlotAccounting',
                      QuietAfterDestroy, NoLostWakeup, [Next]_vars,
                      In("asleep")' # {}
               PROVE  FreeSlots' <= Cardinality(Wakers)'
    BY DEF NoLostWakeup
  <2>1. /\ FreeSlots = Capacity - Cardinality(Busy)
        /\ Cardinality(Busy) <= Capacity
        /\ Capacity \in Nat
    BY FreeSlotsValue DEF PoolAssumption
  <2>2. FreeSlots' = Capacity - Cardinality(Busy')
    <3>1. ASSUME TypeOK', SlotAccounting'
          PROVE  FreeSlots' = Capacity - Cardinality(Busy')
      <4>1. Cardinality(Busy') \in Nat /\ Cardinality(idle') \in Nat
        <5>1. idle' \in SUBSET Conns /\ Busy' \in SUBSET Threads
          BY <3>1 DEF TypeOK, Busy, In
        <5>2. IsFiniteSet(idle') /\ IsFiniteSet(Busy')
          BY <5>1, FS_Subset DEF PoolAssumption
        <5>3. QED
          BY <5>2, FS_CardinalityType
      <4>2. QED
        BY <3>1, <4>1 DEF FreeSlots, SlotAccounting, PoolAssumption
    <3>2. QED
      BY <3>1
  <2>3. /\ IsFiniteSet(Busy) /\ Cardinality(Busy) \in Nat
        /\ IsFiniteSet(Wakers) /\ Cardinality(Wakers) \in Nat
    BY Finiteness
  <2>4. In("asleep") # {} => FreeSlots <= Cardinality(Wakers)
    BY DEF NoLostWakeup
  <2>5. CASE UNCHANGED <<In("asleep"), Wakers, Busy>>
    BY <2>1, <2>2, <2>4, <2>5
  <2>6. ASSUME NEW t \in Threads \ Busy,
               Busy' = Busy \cup {t}, Wakers' = Wakers \ {t},
               In("asleep")' \subseteq In("asleep")
        PROVE  FreeSlots' <= Cardinality(Wakers)'
    <3>1. Cardinality(Busy') = Cardinality(Busy) + 1
      BY <2>3, <2>6, FS_AddElement
    <3>2. /\ Cardinality(Wakers') \in {Cardinality(Wakers), Cardinality(Wakers) - 1}
      BY <2>3, <2>6, FS_RemoveElement
    <3>3. QED
      BY <2>1, <2>2, <2>3, <2>4, <2>6, <3>1, <3>2
  <2>7. CASE idle = {} /\ total >= Capacity /\ Busy' = Busy
    <3>1. Cardinality(Busy) = Capacity
      BY <2>1, <2>3, <2>7, FS_EmptySet DEF SlotAccounting
    <3>2. Cardinality(Wakers') \in Nat
      <4>1. Wakers' \in SUBSET Threads
        BY DEF Wakers, In
      <4>2. QED
        BY <4>1, FS_Subset, FS_CardinalityType DEF PoolAssumption
    <3>3. QED
      BY <2>1, <2>2, <2>7, <3>1, <3>2
  <2>8. ASSUME Busy' = Busy, In("asleep")' \subseteq In("asleep"),
               \/ Wakers' = Wakers
               \/ \E s \in In("asleep") : Wakers' = Wakers \cup {s}
               \/ \E t \in Wakers, s \in In("asleep") :
                     Wakers' = (Wakers \ {t}) \cup {s}
        PROVE  FreeSlots' <= Cardinality(Wakers)'
    <3>1. \A s \in In("asleep") : s \notin Wakers
      BY DEF In, Wakers
    <3>2. ASSUME NEW s \in In("asleep"), Wakers' = Wakers \cup {s}
          PROVE  Cardinality(Wakers') = Cardinality(Wakers) + 1
      BY <2>3, <3>1, <3>2, FS_AddElement
    <3>3. ASSUME NEW s \in In("asleep"), NEW t \in Wakers,
                 Wakers' = (Wakers \ {t}) \cup {s}
          PROVE  Cardinality(Wakers') = Cardinality(Wakers)
      <4>1. /\ IsFiniteSet(Wakers \ {t})
            /\ Cardinality(Wakers \ {t}) = Cardinality(Wakers) - 1
        BY <2>3, FS_RemoveElement
      <4>2. s \notin Wakers \ {t}
        BY <3>1
      <4>3. Cardinality((Wakers \ {t}) \cup {s}) = Cardinality(Wakers \ {t}) + 1
        BY <4>1, <4>2, FS_AddElement
      <4>4. QED
        BY <2>3, <3>3, <4>1, <4>3
    <3>4. QED
      BY <2>1, <2>2, <2>3, <2>4, <2>8, <3>2, <3>3
  <2>9. ASSUME NEW t \in Busy, NEW s \in Threads \ Wakers,
               Busy' = Busy \ {t}, Wakers' = Wakers \cup {s},
               In("asleep")' \subseteq In("asleep")
        PROVE  FreeSlots' <= Cardinality(Wakers)'
    <3>1. Cardinality(Busy') = Cardinality(Busy) - 1
      BY <2>3, <2>9, FS_RemoveElement
    <3>2. Cardinality(Wakers') = Cardinality(Wakers) + 1
      BY <2>3, <2>9, FS_AddElement
    <3>3. QED
      BY <2>1, <2>2, <2>3, <2>4, <2>9, <3>1, <3>2
  <2>10. QED
    BY <2>5, <2>6, <2>7, <2>8, <2>9, WakeMoves
<1>3. QED
  BY <1>1, <1>2, TypeCorrect, SlotsAccounted, LeasesExclusive, Quiet, PTL DEF Spec

-----------------------------------------------------------------------------
\* Every step of the pool is a step of the counting semaphore, or none of its:
\* in particular "pool exhausted" is reported only while all slots are held.
THEOREM PoolImplementsSemaphore == Spec => ImplementsSemaphore
<1> DEFINE w == In("asleep") \cup In("awake") \cup In("expired")
<1>1. Init => Semaphore!Init
  BY DEF Init, Semaphore!Init, In, Busy
<1>2. /\ TypeOK /\ SlotAccounting /\ QuietAfterDestroy /\ [Next]_vars
      => [Semaphore!Next]_(Semaphore!vars)
  <2> SUFFICES ASSUME TypeOK, SlotAccounting, QuietAfterDestroy, [Next]_vars
               PROVE  Semaphore!Next \/ UNCHANGED <<w, Busy, stopping>>
    BY DEF Semaphore!vars
  <2>1. /\ total = Cardinality(idle) + Cardinality(Busy) /\ total <= Capacity
        /\ Cardinality(idle) \in Nat /\ Cardinality(Busy) \in Nat /\ Capacity \in Nat
        /\ IsFiniteSet(idle)
    BY Finiteness DEF SlotAccounting, PoolAssumption
  <2>2. SlotFree <=> ~Semaphore!Full
    <3>1. idle # {} <=> Cardinality(idle) > 0
      BY <2>1, FS_EmptySet
    <3>2. QED
      BY <2>1, <3>1 DEF SlotFree, Semaphore!Full, Semaphore!Cardinality, Cardinality
  <2>3. ASSUME NEW t \in Threads, TakeSlot(t), ~stopping,
               phase[t] \in {"out", "awake", "expired"}
        PROVE  Semaphore!Grant(t)
    <3>1. ~Semaphore!Full
      BY <2>2, <2>3 DEF TakeSlot, SlotFree
    <3>2. t \notin Busy
      BY <2>3 DEF Busy, In
    <3>3. Busy' = Busy \cup {t}
      BY <2>3, TakeSlotHolders DEF Busy
    <3>4. w' = w \ {t}
      BY <2>3 DEF TakeSlot, In, TypeOK, Phase
    <3>5. QED
      BY <2>3, <3>1, <3>2, <3>3, <3>4 DEF Semaphore!Grant, TakeSlot
  <2>4. ASSUME NEW t \in Threads, Acquire(t)
        PROVE  Semaphore!Next \/ UNCHANGED <<w, Busy, stopping>>
    <3>1. CASE TakeSlot(t)
      BY <2>3, <2>4, <3>1 DEF Acquire, Semaphore!Next
    <3>2. CASE GetNoSlot(t, "asleep")
      <4>1. ~stopping /\ ~SlotFree /\ SetPhase(t, "asleep") /\ phase[t] = "out"
        BY <2>4, <3>2 DEF Acquire, GetNoSlot
      <4>2. t \notin w \cup Busy /\ w' = w \cup {t} /\ Busy' = Busy /\ UNCHANGED stopping
        BY <4>1 DEF SetPhase, In, Busy, TypeOK, Phase
      <4>3. Semaphore!Ask(t)
        BY <2>2, <4>1, <4>2 DEF Semaphore!Ask
      <4>4. QED
        BY <4>3 DEF Semaphore!Next
    <3>3. QED
      BY <2>4, <3>1, <3>2 DEF Acquire
  <2>5. ASSUME NEW t \in Threads, SpuriousWakeup(t) \/ Expire(t)
        PROVE  UNCHANGED <<w, Busy, stopping>>
    BY <2>5 DEF SpuriousWakeup, Expire, SetPhase, In, Busy, TypeOK, Phase
  <2>6. ASSUME NEW t \in Threads, Recheck(t)
        PROVE  Semaphore!Next \/ UNCHANGED <<w, Busy, stopping>>
    <3>1. phase[t] = "awake" /\ ~stopping
      BY <2>6 DEF Recheck, QuietAfterDestroy
    <3>2. CASE TakeSlot(t)
      BY <2>3, <3>1, <3>2 DEF Semaphore!Next
    <3>3. CASE GetNoSlot(t, "asleep")
      BY <3>1, <3>3 DEF GetNoSlot, SetPhase, In, Busy, TypeOK, Phase
    <3>4. QED
      BY <2>6, <3>2, <3>3 DEF Recheck
  <2>7. ASSUME NEW t \in Threads, LastCheck(t)
        PROVE  Semaphore!Next
    <3>1. phase[t] = "expired" /\ ~stopping
      BY <2>7 DEF LastCheck, QuietAfterDestroy
    <3>2. CASE TakeSlot(t)
      BY <2>3, <3>1, <3>2 DEF Semaphore!Next
    <3>3. CASE GetNoSlot(t, "out")
      <4>1. ~SlotFree /\ SetPhase(t, "out")
        BY <3>1, <3>3 DEF GetNoSlot
      <4>2. t \in w /\ w' = w \ {t} /\ Busy' = Busy /\ UNCHANGED stopping
        BY <3>1, <4>1 DEF SetPhase, In, Busy, TypeOK, Phase
      <4>3. Semaphore!TurnAway(t)
        BY <2>2, <4>1, <4>2 DEF Semaphore!TurnAway
      <4>4. QED
        BY <4>3 DEF Semaphore!Next
    <3>4. QED
      BY <2>7, <3>2, <3>3 DEF LastCheck
  <2>8. ASSUME NEW t \in Threads, CreateSucceeds(t)
        PROVE  UNCHANGED <<w, Busy, stopping>>
    BY <2>8 DEF CreateSucceeds, In, Busy, TypeOK, Phase
  <2>9. ASSUME NEW t \in Threads, CreateFails(t)
        PROVE  Semaphore!Free(t)
    BY <2>9 DEF CreateFails, Semaphore!Free, In, Busy, TypeOK, Phase
  <2>10. ASSUME NEW t \in Threads, NotifyAfterFailure(t)
         PROVE  UNCHANGED <<w, Busy, stopping>>
    <3>1. \A x \in Threads : phase'[x] \in {"asleep", "awake", "expired"}
                             <=> phase[x] \in {"asleep", "awake", "expired"}
      BY <2>10, NotifiedPhase DEF NotifyAfterFailure, TypeOK, Phase, In
    <3>2. w' = w
      BY <3>1 DEF In
    <3>3. QED
      BY <2>10, <3>2, NotifyKeepsHolders DEF Busy, NotifyAfterFailure
  <2>11. ASSUME NEW t \in Threads, Poison(t)
         PROVE  UNCHANGED <<w, Busy, stopping>>
    BY <2>11 DEF Poison, In, Busy
  <2>12. ASSUME NEW t \in Threads, GiveBack(t)
         PROVE  Semaphore!Free(t)
    <3>1. \A x \in Threads : phase'[x] \in {"asleep", "awake", "expired"}
                             <=> phase[x] \in {"asleep", "awake", "expired"}
      BY <2>12, NotifiedPhase DEF GiveBack, TypeOK, Phase, In
    <3>2. w' = w
      BY <3>1 DEF In
    <3>3. t \in In("leased") /\ t \notin In("creating")
      BY <2>12 DEF GiveBack, In
    <3>4. t \in Busy /\ Busy' = Busy \ {t}
      BY <2>12, <3>3, GiveBackFreesHolder DEF Busy
    <3>5. UNCHANGED stopping
      BY <2>12 DEF GiveBack
    <3>6. QED
      BY <3>2, <3>4, <3>5 DEF Semaphore!Free
  <2>13. CASE Destroy
    <3>1. w = {} /\ Busy = {} /\ w' = {} /\ Busy' = {}
      BY <2>13 DEF Destroy, In, Busy
    <3>2. Semaphore!Close
      BY <2>13, <3>1 DEF Destroy, Semaphore!Close
    <3>3. QED
      BY <3>2 DEF Semaphore!Next
  <2>14. CASE UNCHANGED vars
    BY <2>14 DEF vars, In, Busy
  <2>15. QED
    BY <2>4, <2>5, <2>6, <2>7, <2>8, <2>9, <2>10, <2>11, <2>12, <2>13, <2>14
       DEF Next, Step, Semaphore!Next
<1>3. QED
  BY <1>1, <1>2, TypeCorrect, SlotsAccounted, Quiet, PTL DEF Spec, ImplementsSemaphore, Semaphore!Spec
=============================================================================
