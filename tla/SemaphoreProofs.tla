--------------------------- MODULE SemaphoreProofs ---------------------------
(***************************************************************************)
(* Proofs about class Semaphore for every set of threads and every number  *)
(* of calls: wakeups and sleeping threads are accounted for, and a Normal  *)
(* semaphore implements the pool of tokens of module CountingSemaphore.    *)
(***************************************************************************)
EXTENDS Semaphore, FiniteSetTheorems, TLAPS

USE ThreadsAssumption, TypeAssumption, CallsAssumption, BoundsAssumption

Counted == IF sem.count < 0 THEN -sem.count ELSE 0

\* Whatever the type: the wakeups and the waiters counted by a negative
\* count_ are backed by different threads inside wait().
WaitersBacked == sem.wakeup + Counted <= Cardinality(Blocked)

IInv == TypeOK /\ NotifiedCoverWakeups /\ WaitersBacked

LEMMA IntMaxType == IntMax \in Nat /\ IntMax > 1
  BY SMT DEF IntMax

\* The sets of threads are finite and do not overlap.
LEMMA ThreadSets ==
  ASSUME TypeOK
  PROVE  /\ Sleeping \subseteq Threads /\ Notified \subseteq Threads
         /\ IsFiniteSet(Sleeping) /\ IsFiniteSet(Notified) /\ IsFiniteSet(Blocked)
         /\ Sleeping \cap Notified = {}
         /\ Cardinality(Sleeping) \in Nat /\ Cardinality(Notified) \in Nat
         /\ Cardinality(Blocked) = Cardinality(Sleeping) + Cardinality(Notified)
  <1>1. /\ Sleeping \subseteq Threads /\ Notified \subseteq Threads
        /\ Sleeping \cap Notified = {}
    BY DEF Sleeping, Notified
  <1>2. IsFiniteSet(Sleeping) /\ IsFiniteSet(Notified)
    BY <1>1, FS_Subset
  <1>3. Cardinality(Sleeping) \in Nat /\ Cardinality(Notified) \in Nat
    BY <1>2, FS_CardinalityType
  <1>4. Cardinality(Sleeping \cap Notified) = 0
    BY <1>1, FS_EmptySet
  <1>5. /\ IsFiniteSet(Sleeping \cup Notified)
        /\ Cardinality(Sleeping \cup Notified)
             = Cardinality(Sleeping) + Cardinality(Notified) - Cardinality(Sleeping \cap Notified)
    BY <1>2, FS_Union
  <1> QED BY <1>1, <1>2, <1>3, <1>4, <1>5 DEF Blocked

\* What signal() and signalAll() add to wakeupCount_ leaves the waiters backed.
LEMMA SignalBacked ==
  ASSUME sem \in SemState, sem.wakeup >= 0,
         NEW s \in {Signal(sem, Type), SignalAll(sem, Type)}
  PROVE  /\ s \in SemState
         /\ s.wakeup >= sem.wakeup
         /\ s.wakeup + (IF s.count < 0 THEN -s.count ELSE 0) <= sem.wakeup + Counted
  BY IntMaxType, SMT DEF SemState, Signal, SignalAll, CountAfterSignal, Counted

\* notify_one wakes enough threads.
LEMMA NotifyLemma ==
  ASSUME TypeOK, NEW n \in Nat, Notify(n)
  PROVE  /\ state' \in [Threads -> {"running", "sleeping", "notified"}]
         /\ Blocked' = Blocked
         /\ IsFiniteSet(Notified')
         /\ \/ Cardinality(Notified') = Cardinality(Notified) + n
            \/ Notified' = Blocked
  <1>1. PICK woken \in SUBSET Sleeping :
          /\ IF n < Cardinality(Sleeping) THEN Cardinality(woken) = n
                                          ELSE woken = Sleeping
          /\ state' = [t \in Threads |-> IF t \in woken THEN "notified" ELSE state[t]]
    BY DEF Notify
  <1>2. Notified' = Notified \cup woken /\ Blocked' = Blocked
    BY <1>1 DEF Notified, Sleeping, Blocked
  <1>3. state' \in [Threads -> {"running", "sleeping", "notified"}]
    BY <1>1 DEF TypeOK
  <1>4. IsFiniteSet(woken) /\ Notified \cap woken = {}
    BY <1>1, ThreadSets, FS_Subset
  <1>5. /\ IsFiniteSet(Notified \cup woken)
        /\ Cardinality(Notified \cup woken)
             = Cardinality(Notified) + Cardinality(woken) - Cardinality(Notified \cap woken)
    BY <1>4, ThreadSets, FS_Union
  <1>6. Cardinality(Notified \cap woken) = 0
    BY <1>4, FS_EmptySet
  <1>7. CASE n < Cardinality(Sleeping)
    <2>1. Cardinality(Notified') = Cardinality(Notified) + n
      BY <1>1, <1>2, <1>5, <1>6, <1>7, ThreadSets
    <2> QED BY <2>1, <1>2, <1>3, <1>5
  <1>8. CASE ~(n < Cardinality(Sleeping))
    <2>1. Notified' = Blocked
      BY <1>1, <1>2, <1>8 DEF Blocked
    <2> QED BY <2>1, <1>2, <1>3, <1>5
  <1> QED BY <1>7, <1>8

LEMMA InitIInv == Init => IInv
  <1> SUFFICES ASSUME Init PROVE IInv OBVIOUS
  <1>1. TypeOK
    <2>1. sem \in SemState
      BY DEF Init, SemState, NewSem
    <2>2. fresh \in BOOLEAN
      BY Zenon DEF Init
    <2> QED BY <2>1, <2>2 DEF Init, TypeOK
  <1>2. Sleeping = {} /\ Notified = {} /\ Blocked = {}
    BY DEF Init, Sleeping, Notified, Blocked
  <1> QED BY <1>1, <1>2, FS_EmptySet
          DEF IInv, NotifiedCoverWakeups, WaitersBacked, Counted, Init, NewSem

-----------------------------------------------------------------------------
(* What a step of one thread does to the sets of threads.                    *)

LEMMA FallAsleep ==
  ASSUME TypeOK, NEW t \in Threads, state[t] = "running",
         state' = [state EXCEPT ![t] = "sleeping"]
  PROVE  /\ Notified' = Notified /\ Blocked' = Blocked \cup {t} /\ t \notin Blocked
         /\ Cardinality(Blocked') = Cardinality(Blocked) + 1
  <1>1. /\ Notified' = Notified
        /\ Blocked' = Blocked \cup {t}
        /\ t \notin Blocked
    BY DEF TypeOK, Notified, Sleeping, Blocked
  <1> QED BY <1>1, ThreadSets, FS_AddElement

LEMMA LeaveWait ==
  ASSUME TypeOK, NEW t \in Threads, state[t] = "notified",
         state' = [state EXCEPT ![t] = "running"]
  PROVE  /\ Blocked' = Blocked \ {t} /\ t \in Blocked
         /\ Cardinality(Blocked') = Cardinality(Blocked) - 1
         /\ Cardinality(Notified') = Cardinality(Notified) - 1
  <1>1. /\ Notified' = Notified \ {t} /\ t \in Notified
        /\ Blocked' = Blocked \ {t} /\ t \in Blocked
    BY DEF TypeOK, Notified, Sleeping, Blocked
  <1> QED BY <1>1, ThreadSets, FS_RemoveElement

LEMMA BackToSleep ==
  ASSUME TypeOK, NEW t \in Threads, state[t] = "notified",
         state' = [state EXCEPT ![t] = "sleeping"]
  PROVE  Blocked' = Blocked /\ Cardinality(Notified') \in Nat
  <1>1. /\ Notified' = Notified \ {t}
        /\ Blocked' = Blocked
    BY DEF TypeOK, Notified, Sleeping, Blocked
  <1> QED BY <1>1, ThreadSets, FS_RemoveElement, FS_CardinalityType

LEMMA WakeForNothing ==
  ASSUME TypeOK, NEW t \in Threads, state[t] = "sleeping",
         state' = [state EXCEPT ![t] = "notified"]
  PROVE  Blocked' = Blocked /\ Cardinality(Notified') = Cardinality(Notified) + 1
  <1>1. /\ Notified' = Notified \cup {t} /\ t \notin Notified
        /\ Blocked' = Blocked
    BY DEF TypeOK, Notified, Sleeping, Blocked
  <1> QED BY <1>1, ThreadSets, FS_AddElement

-----------------------------------------------------------------------------
(* The invariant, one lemma per call.                                        *)

LEMMA PassStep ==
  ASSUME IInv, NEW t \in Threads, WaitPass(t)
  PROVE  IInv'
  <1>1. Blocked' = Blocked /\ Notified' = Notified
    BY DEF WaitPass, Blocked, Sleeping, Notified
  <1>2. sem' \in SemState /\ waits' \in [Threads -> Nat] /\ fresh' = FALSE
    BY DEF IInv, TypeOK, WaitPass, EnterWait, CountedOut, HasWakeup, SemState
  <1>3. TypeOK'
    <2>1. fresh' \in BOOLEAN BY <1>2, Zenon
    <2> QED BY <1>2, <2>1 DEF IInv, TypeOK, WaitPass
  <1>4. Cardinality(Blocked) \in Nat /\ Cardinality(Notified) \in Nat
    BY ThreadSets DEF IInv
  <1>5. (NotifiedCoverWakeups /\ WaitersBacked)'
    BY <1>1, <1>2, <1>4 DEF IInv, TypeOK, SemState, WaitPass, Blocks, CountedOut, HasWakeup,
       EnterWait, NotifiedCoverWakeups, WaitersBacked, Counted
  <1> QED BY <1>3, <1>5 DEF IInv

LEMMA SleepStep ==
  ASSUME IInv, NEW t \in Threads, WaitSleep(t)
  PROVE  IInv'
  <1>1. /\ Notified' = Notified
        /\ Cardinality(Blocked') = Cardinality(Blocked) + 1
    BY FallAsleep DEF IInv, WaitSleep
  <1>2. TypeOK'
    BY DEF IInv, TypeOK, WaitSleep, EnterWait, CountedOut, HasWakeup, SemState
  <1>3. Cardinality(Blocked) \in Nat /\ Cardinality(Notified) \in Nat
    BY ThreadSets DEF IInv
  <1>4. (NotifiedCoverWakeups /\ WaitersBacked)'
    BY <1>1, <1>3 DEF IInv, TypeOK, SemState, WaitSleep, Blocks, CountedOut, HasWakeup,
       EnterWait, NotifiedCoverWakeups, WaitersBacked, Counted
  <1> QED BY <1>2, <1>4 DEF IInv

LEMMA RecheckStep ==
  ASSUME IInv, NEW t \in Threads, Recheck(t)
  PROVE  IInv'
  <1>0. Cardinality(Blocked) \in Nat /\ Cardinality(Notified) \in Nat
    BY ThreadSets DEF IInv
  <1>1. CASE HasWakeup(sem)
    <2>1. /\ Cardinality(Blocked') = Cardinality(Blocked) - 1
          /\ Cardinality(Notified') = Cardinality(Notified) - 1
      BY <1>1, LeaveWait DEF IInv, Recheck
    <2>2. fresh' \in BOOLEAN
      BY <1>1, Zenon DEF Recheck
    <2>3. TypeOK'
      BY <1>1, <2>2 DEF IInv, TypeOK, Recheck, HasWakeup, TakeWakeup, SemState
    <2>4. (NotifiedCoverWakeups /\ WaitersBacked)'
      BY <1>0, <1>1, <2>1 DEF IInv, TypeOK, SemState, Recheck, HasWakeup, TakeWakeup,
         NotifiedCoverWakeups, WaitersBacked, Counted
    <2> QED BY <2>3, <2>4 DEF IInv
  <1>2. CASE ~HasWakeup(sem)
    <2>1. Blocked' = Blocked /\ Cardinality(Notified') \in Nat /\ sem' = sem
      BY <1>2, BackToSleep DEF IInv, Recheck
    <2>2. TypeOK'
      BY <1>2 DEF IInv, TypeOK, Recheck
    <2>3. (NotifiedCoverWakeups /\ WaitersBacked)'
      BY <1>0, <1>2, <2>1 DEF IInv, TypeOK, SemState, HasWakeup,
         NotifiedCoverWakeups, WaitersBacked, Counted
    <2> QED BY <2>2, <2>3 DEF IInv
  <1> QED BY <1>1, <1>2

LEMMA SpuriousStep ==
  ASSUME IInv, NEW t \in Threads, SpuriousWakeup(t)
  PROVE  IInv'
  <1>1. Blocked' = Blocked /\ Cardinality(Notified') = Cardinality(Notified) + 1
    BY WakeForNothing DEF IInv, SpuriousWakeup
  <1>2. TypeOK'
    BY DEF IInv, TypeOK, SpuriousWakeup
  <1>3. Cardinality(Blocked) \in Nat /\ Cardinality(Notified) \in Nat
    BY ThreadSets DEF IInv
  <1>4. (NotifiedCoverWakeups /\ WaitersBacked)'
    BY <1>1, <1>3 DEF IInv, TypeOK, SemState, SpuriousWakeup,
       NotifiedCoverWakeups, WaitersBacked, Counted
  <1> QED BY <1>2, <1>4 DEF IInv

LEMMA SignalStep ==
  ASSUME IInv, SignalCall \/ SignalAllCall
  PROVE  IInv' /\ Blocked' = Blocked
  <1>1. /\ sem' \in {Signal(sem, Type), SignalAll(sem, Type)}
        /\ Notify(sem'.wakeup - sem.wakeup)
        /\ signals' = signals + 1 /\ fresh' = TRUE /\ UNCHANGED waits
    BY DEF SignalCall, SignalAllCall
  <1>2. sem \in SemState /\ sem.wakeup >= 0 /\ sem.wakeup \in Int
    BY DEF IInv, TypeOK, SemState, NotifiedCoverWakeups
  <1>3. /\ sem' \in SemState
        /\ sem'.wakeup >= sem.wakeup
        /\ sem'.wakeup + (IF sem'.count < 0 THEN -sem'.count ELSE 0) <= sem.wakeup + Counted
    BY <1>1, <1>2, SignalBacked
  <1>4. sem'.wakeup - sem.wakeup \in Nat /\ sem'.wakeup \in Int /\ sem'.count \in Int
    BY <1>2, <1>3 DEF SemState
  <1>5. /\ state' \in [Threads -> {"running", "sleeping", "notified"}]
        /\ Blocked' = Blocked
        /\ IsFiniteSet(Notified')
        /\ \/ Cardinality(Notified') = Cardinality(Notified) + (sem'.wakeup - sem.wakeup)
           \/ Notified' = Blocked
    BY <1>1, <1>4, NotifyLemma DEF IInv
  <1>6. TypeOK'
    <2>1. fresh' \in BOOLEAN BY <1>1, Zenon
    <2> QED BY <1>1, <1>3, <1>5, <2>1 DEF IInv, TypeOK
  <1>7. Cardinality(Blocked) \in Nat /\ Cardinality(Notified) \in Nat
    BY ThreadSets DEF IInv
  <1>8. WaitersBacked'
    BY <1>2, <1>3, <1>4, <1>5, <1>7 DEF IInv, WaitersBacked, Counted, TypeOK, SemState
  <1>9. NotifiedCoverWakeups'
    <2>1. 0 <= sem'.wakeup /\ sem'.wakeup <= Cardinality(Blocked)
      BY <1>2, <1>3, <1>4, <1>5, <1>7, <1>8 DEF WaitersBacked, Counted
    <2> QED BY <2>1, <1>2, <1>4, <1>5, <1>7 DEF IInv, NotifiedCoverWakeups
  <1> QED BY <1>5, <1>6, <1>8, <1>9 DEF IInv

LEMMA IInvStep ==
  ASSUME IInv, [Next]_vars
  PROVE  IInv'
  <1>1. CASE UNCHANGED vars
    <2>1. Blocked' = Blocked /\ Notified' = Notified
      BY <1>1 DEF vars, Blocked, Sleeping, Notified
    <2> QED BY <1>1, <2>1 DEF vars, IInv, TypeOK, NotifiedCoverWakeups, WaitersBacked, Counted
  <1> QED BY <1>1, PassStep, SleepStep, RecheckStep, SpuriousStep, SignalStep DEF Next

-----------------------------------------------------------------------------
(* Exact accounting.                                                         *)

\* The uses of a semaphore that never strand a counted waiter.
ExactUse == Type = "Normal" \/ (Type = "OnceForAll" /\ Calls \subseteq {"signalAll"})

LEMMA ExactSignal ==
  ASSUME IInv, ExactUse, WaitersAccountedFor, SignalCall \/ SignalAllCall
  PROVE  sem'.wakeup + Counted' = sem.wakeup + Counted
  <1>1. sem \in SemState /\ Counted' = IF sem'.count < 0 THEN -sem'.count ELSE 0
    BY DEF IInv, TypeOK, Counted
  <1>2. CASE SignalCall
    <2>1. Type = "Normal" /\ sem' = Signal(sem, Type)
      BY <1>2 DEF SignalCall, ExactUse
    <2> QED BY <1>1, <2>1, IntMaxType, SMT DEF SemState, Signal, CountAfterSignal, Counted
  <1>3. CASE SignalAllCall
    <2>1. Type \in {"Normal", "OnceForAll"} /\ sem' = SignalAll(sem, Type)
      BY <1>3 DEF SignalAllCall, ExactUse
    <2> QED BY <1>1, <2>1, IntMaxType, SMT DEF SemState, SignalAll, CountAfterSignal, Counted
  <1> QED BY <1>2, <1>3

LEMMA AccountingStep ==
  ASSUME IInv, ExactUse, WaitersAccountedFor, [Next]_vars
  PROVE  WaitersAccountedFor'
  <1>0. /\ Cardinality(Blocked) \in Nat
        /\ Cardinality(Blocked) = sem.wakeup + Counted
        /\ sem.count \in Int /\ sem.wakeup \in Int /\ 0 <= sem.wakeup
    BY ThreadSets DEF IInv, TypeOK, SemState, WaitersAccountedFor, NotifiedCoverWakeups, Counted
  <1>s. SUFFICES Cardinality(Blocked') = sem'.wakeup + Counted'
    BY DEF WaitersAccountedFor, Counted
  <1>1. ASSUME NEW t \in Threads, WaitPass(t)
        PROVE  Cardinality(Blocked') = sem'.wakeup + Counted'
    <2>1. Blocked' = Blocked
      BY <1>1 DEF WaitPass, Blocked, Sleeping, Notified
    <2> QED BY <1>0, <1>1, <2>1 DEF WaitPass, Blocks, CountedOut, HasWakeup, EnterWait, Counted
  <1>2. ASSUME NEW t \in Threads, WaitSleep(t)
        PROVE  Cardinality(Blocked') = sem'.wakeup + Counted'
    <2>1. Cardinality(Blocked') = Cardinality(Blocked) + 1
      BY <1>2, FallAsleep DEF IInv, WaitSleep
    <2> QED BY <1>0, <1>2, <2>1 DEF WaitSleep, Blocks, CountedOut, HasWakeup, EnterWait, Counted
  <1>3. ASSUME NEW t \in Threads, Recheck(t)
        PROVE  Cardinality(Blocked') = sem'.wakeup + Counted'
    <2>1. CASE HasWakeup(sem)
      <3>1. Cardinality(Blocked') = Cardinality(Blocked) - 1
        BY <1>3, <2>1, LeaveWait DEF IInv, Recheck
      <3> QED BY <1>0, <1>3, <2>1, <3>1 DEF Recheck, HasWakeup, TakeWakeup, Counted
    <2>2. CASE ~HasWakeup(sem)
      <3>1. Blocked' = Blocked /\ sem' = sem
        BY <1>3, <2>2, BackToSleep DEF IInv, Recheck
      <3> QED BY <1>0, <3>1 DEF Counted
    <2> QED BY <2>1, <2>2
  <1>4. ASSUME NEW t \in Threads, SpuriousWakeup(t)
        PROVE  Cardinality(Blocked') = sem'.wakeup + Counted'
    <2>1. Blocked' = Blocked /\ sem' = sem
      BY <1>4, WakeForNothing DEF IInv, SpuriousWakeup
    <2> QED BY <1>0, <2>1 DEF Counted
  <1>5. CASE SignalCall \/ SignalAllCall
    BY <1>0, <1>5, ExactSignal, SignalStep
  <1>6. CASE UNCHANGED vars
    <2>1. Blocked' = Blocked /\ sem' = sem
      BY <1>6 DEF vars, Blocked, Sleeping, Notified
    <2> QED BY <1>0, <2>1 DEF Counted
  <1> QED BY <1>1, <1>2, <1>3, <1>4, <1>5, <1>6 DEF Next

-----------------------------------------------------------------------------
\* The inductive invariant holds for every type of semaphore (Semaphore.cpp).
THEOREM Invariance == Spec => []IInv
  <1>1. Init => IInv
    BY InitIInv
  <1>2. IInv /\ [Next]_vars => IInv'
    BY IInvStep
  <1> QED BY <1>1, <1>2, PTL DEF Spec

\* For every type of semaphore and every number of threads, a pending wakeup
\* always has a notified thread that will look for it (wait, signal,
\* signalAll): no wakeup is left to a thread that sleeps on.
THEOREM WakeupsAreCovered == Spec => []NotifiedCoverWakeups
  <1>1. IInv => NotifiedCoverWakeups
    BY DEF IInv
  <1> QED BY <1>1, Invariance, PTL

\* A Normal semaphore, and a OnceForAll semaphore opened by signalAll() only,
\* accounts for every thread inside wait(): it is owed a wakeup or counted.
THEOREM WaitersAreAccountedFor ==
  ASSUME ExactUse
  PROVE  Spec => []WaitersAccountedFor
  <1>1. Init => WaitersAccountedFor
    <2> SUFFICES ASSUME Init PROVE WaitersAccountedFor OBVIOUS
    <2>1. Blocked = {}
      BY DEF Init, Blocked, Sleeping, Notified
    <2> QED BY <2>1, FS_EmptySet DEF Init, WaitersAccountedFor, NewSem
  <1>2. IInv /\ WaitersAccountedFor /\ [Next]_vars => WaitersAccountedFor'
    BY AccountingStep
  <1> QED BY <1>1, <1>2, Invariance, PTL DEF Spec

-----------------------------------------------------------------------------
(* A Normal semaphore is a pool of tokens.                                   *)

LEMMA SameCardinality == \A S : Counting!Cardinality(S) = Cardinality(S)
  BY Zenon DEF Counting!Cardinality, Cardinality

LEMMA StepRefines ==
  ASSUME IInv, WaitersAccountedFor, Type = "Normal", [Next]_vars
  PROVE  [Counting!Next]_(Counting!vars)
  <1>0. /\ Cardinality(Blocked) \in Nat
        /\ Cardinality(Blocked) = sem.wakeup + Counted
        /\ sem.count \in Int /\ sem.wakeup \in Int /\ 0 <= sem.wakeup /\ sem \in SemState
    BY ThreadSets DEF IInv, TypeOK, SemState, WaitersAccountedFor, NotifiedCoverWakeups, Counted
  <1>1. ASSUME NEW t \in Threads, WaitPass(t) PROVE Counting!Take(t)
    <2>1. Blocked' = Blocked /\ t \notin Blocked
      BY <1>1 DEF WaitPass, Blocked, Sleeping, Notified
    <2>2. Tokens > 0 /\ Tokens' = Tokens - 1
      BY <1>0, <1>1 DEF WaitPass, Blocks, CountedOut, HasWakeup, EnterWait, Tokens
    <2> QED BY <2>1, <2>2 DEF Counting!Take
  <1>2. ASSUME NEW t \in Threads, WaitSleep(t) PROVE Counting!Arrive(t)
    <2>1. Blocked' = Blocked \cup {t} /\ t \notin Blocked
      BY <1>2, FallAsleep DEF IInv, WaitSleep
    <2>2. Tokens' = Tokens
      BY <1>0, <1>2 DEF WaitSleep, Blocks, CountedOut, HasWakeup, EnterWait, Tokens
    <2> QED BY <2>1, <2>2 DEF Counting!Arrive
  <1>3. ASSUME NEW t \in Threads, Recheck(t) PROVE Counting!Take(t) \/ UNCHANGED Counting!vars
    <2>1. CASE HasWakeup(sem)
      <3>1. Blocked' = Blocked \ {t}
        BY <1>3, <2>1, LeaveWait DEF IInv, Recheck
      <3>2. Tokens > 0 /\ Tokens' = Tokens - 1
        BY <1>0, <1>3, <2>1 DEF Recheck, HasWakeup, TakeWakeup, Tokens
      <3> QED BY <3>1, <3>2 DEF Counting!Take
    <2>2. CASE ~HasWakeup(sem)
      <3>1. Blocked' = Blocked /\ sem' = sem
        BY <1>3, <2>2, BackToSleep DEF IInv, Recheck
      <3> QED BY <3>1 DEF Counting!vars, Tokens
    <2> QED BY <2>1, <2>2
  <1>4. ASSUME NEW t \in Threads, SpuriousWakeup(t) PROVE UNCHANGED Counting!vars
    <2>1. Blocked' = Blocked /\ sem' = sem
      BY <1>4, WakeForNothing DEF IInv, SpuriousWakeup
    <2> QED BY <2>1 DEF Counting!vars, Tokens
  <1>5. CASE SignalCall
    <2>1. sem' = Signal(sem, "Normal") /\ Blocked' = Blocked
      BY <1>5, SignalStep DEF SignalCall
    <2>2. CASE sem.count = IntMax
      BY <2>1, <2>2 DEF Signal, Counting!vars, Tokens
    <2>3. CASE sem.count # IntMax
      <3>1. Tokens' = Tokens + 1
        BY <1>0, <2>1, <2>3, IntMaxType, SMT DEF Signal, CountAfterSignal, Tokens
      <3> QED BY <2>1, <3>1 DEF Counting!Post, Counting!Next
    <2> QED BY <2>2, <2>3
  <1>6. CASE SignalAllCall
    <2>1. sem' = SignalAll(sem, "Normal") /\ Blocked' = Blocked
      BY <1>6, SignalStep DEF SignalAllCall
    <2>2. CASE sem.count = IntMax
      BY <2>1, <2>2 DEF SignalAll, Counting!vars, Tokens
    <2>3. CASE sem.count # IntMax
      <3>1. Tokens' = (IF Tokens > Cardinality(Blocked) THEN Tokens ELSE Cardinality(Blocked)) + 1
        BY <1>0, <2>1, <2>3, IntMaxType, SMT DEF SignalAll, CountAfterSignal, Tokens, Counted
      <3>2. CASE Tokens > Cardinality(Blocked)
        <4>1. Tokens' = Tokens + 1 BY <3>1, <3>2
        <4> QED BY <2>1, <3>2, <4>1, SameCardinality DEF Counting!PostAll, Counting!Next
      <3>3. CASE ~(Tokens > Cardinality(Blocked))
        <4>1. Tokens' = Cardinality(Blocked) + 1 BY <3>1, <3>3
        <4> QED BY <2>1, <3>3, <4>1, SameCardinality DEF Counting!PostAll, Counting!Next
      <3> QED BY <3>2, <3>3
    <2> QED BY <2>2, <2>3
  <1>7. CASE UNCHANGED vars
    <2>1. Blocked' = Blocked /\ sem' = sem
      BY <1>7 DEF vars, Blocked, Sleeping, Notified
    <2> QED BY <2>1 DEF Counting!vars, Tokens
  <1> QED BY <1>1, <1>2, <1>3, <1>4, <1>5, <1>6, <1>7 DEF Next, Counting!Next

\* A Normal semaphore (Semaphore.cpp) implements the safety part of the pool
\* of tokens: no token is made up, lost or taken twice.
THEOREM NormalImplementsCounting ==
  ASSUME Type = "Normal"
  PROVE  Spec => CountingSafe
  <1>1. Init => Counting!Init
    BY SMT DEF Init, Counting!Init, Tokens, NewSem, Blocked, Sleeping, Notified
  <1>2. IInv /\ WaitersAccountedFor /\ [Next]_vars => [Counting!Next]_(Counting!vars)
    BY StepRefines
  <1>3. Spec => []WaitersAccountedFor
    BY WaitersAreAccountedFor DEF ExactUse
  <1> QED BY <1>1, <1>2, <1>3, Invariance, PTL DEF Spec, CountingSafe, Counting!SafeSpec
=============================================================================
