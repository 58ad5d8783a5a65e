---------------------------- MODULE SemaphoreOps ----------------------------
(***************************************************************************)
(* The arithmetic of class Semaphore (Semaphore.h, Semaphore.cpp): what    *)
(* each member function does to count_ and wakeupCount_ while it holds     *)
(* lock_.  A semaphore is a record [count, wakeup]; its type_ is one of    *)
(* SemTypes.  The functions are pure so that every module that uses        *)
(* semaphores shares them; who sleeps and who is notified is modelled in   *)
(* module Semaphore.                                                       *)
(***************************************************************************)
EXTENDS Integers

SemTypes == {"Normal", "SignalFolded", "OnceForAll"}

\* INT_MAX of the target's 32-bit int.
IntMax == 2147483647

SemState == [count : Int, wakeup : Nat]

\* init(count, type): type_ is a parameter of the operators below.
NewSem(count) == [count |-> count, wakeup |-> 0]

\* Mistakes the code could contain, in place of TakeWakeup and EnterWait; no
\* specification uses them.
WakeupNotTaken(s) == s
EnterWaitWakeupNotTaken(s) == [s EXCEPT !.count = @ - 1]

\* The predicate the condition variable waits for.
HasWakeup(s) == s.wakeup > 0

TakeWakeup(s) == [count |-> s.count, wakeup |-> s.wakeup - 1]

\* wait(): --count_ < 0 sends the caller to the condition variable, where it
\* sleeps unless a wakeup is pending already.
CountedOut(s) == s.count <= 0
Blocks(s) == CountedOut(s) /\ ~HasWakeup(s)

\* The semaphore when the caller of wait() has returned or gone to sleep.
EnterWait(s) ==
  [count  |-> s.count - 1,
   wakeup |-> IF CountedOut(s) /\ HasWakeup(s) THEN s.wakeup - 1 ELSE s.wakeup]

\* What type_ leaves in count_ at the end of signal() and signalAll().
CountAfterSignal(count, type) ==
  CASE type = "SignalFolded" -> 1
    [] type = "OnceForAll"   -> IntMax
    [] OTHER                 -> count

\* signal(): one wakeup if a waiter is counted, nothing on an open latch.
Signal(s, type) ==
  IF s.count = IntMax THEN s
  ELSE [count  |-> CountAfterSignal(s.count + 1, type),
        wakeup |-> IF s.count < 0 THEN s.wakeup + 1 ELSE s.wakeup]

\* signalAll(): the loop adds a wakeup for every counted waiter and leaves
\* the loop only after one more increment, which is kept as a free token.
SignalAll(s, type) ==
  IF s.count = IntMax THEN s
  ELSE [count  |-> CountAfterSignal(IF s.count < 0 THEN 1 ELSE s.count + 1, type),
        wakeup |-> IF s.count < 0 THEN s.wakeup - s.count ELSE s.wakeup]
=============================================================================
