----------------------------- MODULE Semaphore -----------------------------
(***************************************************************************)
(* Class Semaphore: a counter, a wakeup counter, a mutex and a condition   *)
(* variable.  Every member function runs under lock_, so each is one       *)
(* action; std::condition_variable::wait releases the mutex, so a thread   *)
(* that sleeps leaves wait() in a later action.  The wait set of the       *)
(* condition variable is explicit: notify_one moves one sleeping thread to *)
(* "notified", a spurious wakeup does the same, and a notified thread      *)
(* re-evaluates the predicate under the lock, perhaps after another        *)
(* thread has taken the wakeup meant for it.                               *)
(***************************************************************************)
EXTENDS SemaphoreOps, FiniteSets

CONSTANTS Threads,     \* threads that call wait()
          Type,        \* type_ given to init
          InitCount,   \* count given to init
          Calls,       \* which of signal() and signalAll() the clients use
          MaxSignals,  \* bound: calls of signal() and signalAll() together
          MaxWaits     \* bound: calls of wait() per thread

ASSUME ThreadsAssumption == IsFiniteSet(Threads)
ASSUME TypeAssumption == Type \in SemTypes /\ InitCount \in Nat
ASSUME CallsAssumption == Calls \subseteq {"signal", "signalAll"}
ASSUME BoundsAssumption == MaxSignals \in Nat /\ MaxWaits \in Nat

VARIABLES sem,      \* count_ and wakeupCount_
          state,    \* state[t]: "running", "sleeping" or "notified"
          waits,    \* waits[t]: how often t has called wait()
          signals,  \* calls of signal() and signalAll() so far
          fresh     \* some signal came after wait() last returned to anybody

vars == <<sem, state, waits, signals, fresh>>

Init ==
  /\ sem = NewSem(InitCount)
  /\ state = [t \in Threads |-> "running"]
  /\ waits = [t \in Threads |-> 0]
  /\ signals = 0
  /\ fresh = FALSE

Sleeping == {t \in Threads : state[t] = "sleeping"}
Notified == {t \in Threads : state[t] = "notified"}
Blocked  == Sleeping \cup Notified

\* wait() that returns without sleeping: a token was there, or a wakeup meant
\* for another thread is (condition_.wait tests the predicate first).
WaitPass(t) ==
  /\ state[t] = "running" /\ waits[t] < MaxWaits
  /\ ~Blocks(sem)
  /\ sem' = EnterWait(sem)
  /\ waits' = [waits EXCEPT ![t] = @ + 1]
  /\ fresh' = FALSE
  /\ UNCHANGED <<state, signals>>

WaitSleep(t) ==
  /\ state[t] = "running" /\ waits[t] < MaxWaits
  /\ Blocks(sem)
  /\ sem' = EnterWait(sem)
  /\ waits' = [waits EXCEPT ![t] = @ + 1]
  /\ state' = [state EXCEPT ![t] = "sleeping"]
  /\ UNCHANGED <<signals, fresh>>

\* A notified thread has the lock again: it returns or goes back to sleep.
Recheck(t) ==
  /\ state[t] = "notified"
  /\ IF HasWakeup(sem)
     THEN /\ sem' = TakeWakeup(sem)
          /\ state' = [state EXCEPT ![t] = "running"]
          /\ fresh' = FALSE
     ELSE /\ state' = [state EXCEPT ![t] = "sleeping"]
          /\ UNCHANGED <<sem, fresh>>
  /\ UNCHANGED <<waits, signals>>

SpuriousWakeup(t) ==
  /\ state[t] = "sleeping"
  /\ state' = [state EXCEPT ![t] = "notified"]
  /\ UNCHANGED <<sem, waits, signals, fresh>>

\* n calls of notify_one wake n sleeping threads, or all when fewer sleep.
Notify(n) ==
  \E woken \in SUBSET Sleeping :
    /\ IF n < Cardinality(Sleeping) THEN Cardinality(woken) = n
                                    ELSE woken = Sleeping
    /\ state' = [t \in Threads |-> IF t \in woken THEN "notified" ELSE state[t]]

SignalCall ==
  /\ "signal" \in Calls /\ signals < MaxSignals
  /\ sem' = Signal(sem, Type)
  /\ Notify(sem'.wakeup - sem.wakeup)
  /\ signals' = signals + 1
  /\ fresh' = TRUE
  /\ UNCHANGED waits

SignalAllCall ==
  /\ "signalAll" \in Calls /\ signals < MaxSignals
  /\ sem' = SignalAll(sem, Type)
  /\ Notify(sem'.wakeup - sem.wakeup)
  /\ signals' = signals + 1
  /\ fresh' = TRUE
  /\ UNCHANGED waits

Next ==
  \/ \E t \in Threads :
       WaitPass(t) \/ WaitSleep(t) \/ Recheck(t) \/ SpuriousWakeup(t)
  \/ SignalCall
  \/ SignalAllCall

\* A notified thread is eventually scheduled; nobody has to call anything.
Spec == Init /\ [][Next]_vars /\ \A t \in Threads : WF_vars(Recheck(t))

-----------------------------------------------------------------------------
TypeOK ==
  /\ sem \in SemState
  /\ state \in [Threads -> {"running", "sleeping", "notified"}]
  /\ waits \in [Threads -> Nat]
  /\ signals \in Nat
  /\ fresh \in BOOLEAN

\* Pending wakeups never outnumber the threads that were notified and have
\* not run yet: notify_one is never spent on an empty wait set while the
\* wakeup it stands for waits for a thread that sleeps on (the predicate of
\* condition_.wait, Semaphore.cpp:23, against the notify_one of signal).
NotifiedCoverWakeups ==
  0 <= sem.wakeup /\ sem.wakeup <= Cardinality(Notified)

\* A Normal or OnceForAll semaphore accounts for every thread inside wait():
\* it is owed a wakeup or counted by a negative count_.
WaitersAccountedFor ==
  Cardinality(Blocked) = sem.wakeup + (IF sem.count < 0 THEN -sem.count ELSE 0)

\* The abstract semaphore a Normal one implements.
Tokens == sem.wakeup + (IF sem.count > 0 THEN sem.count ELSE 0)
Counting == INSTANCE CountingSemaphore
              WITH InitTokens <- InitCount, tokens <- Tokens, waiting <- Blocked
CountingSpec == Counting!Spec
CountingSafe == Counting!SafeSpec
=============================================================================
