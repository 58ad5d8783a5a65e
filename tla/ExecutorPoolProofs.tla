-------------------------- MODULE ExecutorPoolProofs --------------------------
(***************************************************************************)
(* Proofs about the scheduler for every number of executors and jobs: the  *)
(* termination test of executorController() is sound, and the pool         *)
(* implements the bag of work of module WorkPool; and its semaphores lose  *)
(* no signal.                                                              *)
(***************************************************************************)
EXTENDS ExecutorPool, QueueLemmas

USE NAssumption, QueueAssumption, JobsAssumption

\* The queues of the pool and the jobs in them.
QueueInv == JobsConserved /\ FirstComeFirstServed /\ CountMatchesQueues

\* The inductive invariant for every number of executors init() accepts; with
\* fewer executors than needSelect_ has bits, NothingLeft extends it.
IInv == TypeOK /\ QueueInv /\ ExecutorsConsistent /\ CheckedUnderLock

LEMMA IntMaxType == IntMax \in Nat /\ IntMax > 1
  BY SMT DEF IntMax

LEMMA SemaphoreTypes ==
  ASSUME NEW s \in SemState
  PROVE  /\ HasWakeup(s) => TakeWakeup(s) \in SemState
         /\ EnterWait(s) \in SemState
         /\ Signal(s, "Normal") \in SemState
         /\ Signal(s, "SignalFolded") \in SemState
         /\ SignalAll(s, "Normal") \in SemState
  BY IntMaxType, SMT DEF SemState, HasWakeup, CountedOut, TakeWakeup, EnterWait, Signal, SignalAll, CountAfterSignal

LEMMA ThreadFacts ==
  /\ Main \in Threads /\ Resource \in Threads /\ Executors \subseteq Threads
  /\ Main \notin Executors /\ Resource \notin Executors /\ Main # Resource
  /\ Executors \subseteq Nat /\ IsFiniteSet(Executors)
  BY FS_Interval DEF Main, Resource, Threads, Executors

LEMMA InitIInv == Init => IInv
  <1> SUFFICES ASSUME Init PROVE IInv OBVIOUS
  <1>1. candidate \in Seq(Jobs) /\ Len(candidate) = InitJobs /\ \A i \in 1 .. InitJobs : candidate[i] = i
    BY DEF Init, Jobs
  <1>2. TypeOK
    BY <1>1, ThreadFacts DEF TypeOK, Init, SemState, NewSem, Labels, NoJob, Jobs, Executors
  <1>3. Range(candidate) = 1 .. InitJobs
    <2>1. Range(candidate) = {candidate[i] : i \in 1 .. Len(candidate)}
      BY <1>1, RangeOfQueue
    <2> QED BY <2>1, <1>1
  <1>4. Queued = {}
    BY RangeOfQueue DEF Queued, Init, Range
  <1>5. InHand = {}
    BY DEF InHand, Init
  <1>6. JobsConserved
    BY <1>3, <1>4, <1>5, EmptySeq DEF JobsConserved, Init, Range
  <1>7. FirstComeFirstServed
    BY <1>1, <1>3, EmptySeq DEF FirstComeFirstServed, Init, Ascending, Range, NoJob
  <1>8. CountMatchesQueues
    BY <1>4, FS_EmptySet DEF CountMatchesQueues, Init
  <1>9. ExecutorsConsistent /\ CheckedUnderLock
    BY ThreadFacts DEF ExecutorsConsistent, CheckedUnderLock, Init, NoJob
  <1> QED BY <1>2, <1>6, <1>7, <1>8, <1>9 DEF IInv, QueueInv

\* The jobs a process() pushes: numbers nobody has used.
LEMMA NewJobs ==
  ASSUME TypeOK, NEW n \in 1 .. MaxJobs - created
  PROVE  LET new == [i \in 1 .. n |-> created + i]
         IN  /\ new \in Seq(Jobs) /\ candidate \o new \in Seq(Jobs)
             /\ Range(new) = created + 1 .. created + n
             /\ Ascending(new)
  <1> DEFINE new == [i \in 1 .. n |-> created + i]
  <1>1. created \in Nat /\ n \in Nat /\ created + n <= MaxJobs
    BY DEF TypeOK
  <1>2. new \in Seq(Jobs) /\ Len(new) = n /\ \A i \in 1 .. n : new[i] = created + i
    BY <1>1 DEF Jobs
  <1>3. candidate \o new \in Seq(Jobs)
    BY <1>2, ConcatProperties DEF TypeOK
  <1>4. Range(new) = created + 1 .. created + n
    <2>1. Range(new) = {new[i] : i \in 1 .. n}
      <3> HIDE DEF new
      <3> QED BY <1>2, RangeOfQueue
    <2>2. ASSUME NEW j \in created + 1 .. created + n PROVE j \in Range(new)
      <3>1. j - created \in 1 .. n /\ new[j - created] = j
        BY <1>1, <1>2
      <3> QED BY <3>1, <2>1
    <2>3. ASSUME NEW j \in Range(new) PROVE j \in created + 1 .. created + n
      BY <2>1, <1>1, <1>2
    <2> QED BY <2>2, <2>3
  <1>5. Ascending(new)
    BY <1>1, <1>2 DEF Ascending
  <1> QED BY <1>2, <1>3, <1>4, <1>5

\* The cut points of selectReadyJob() cover a prefix of the candidates.
LEMMA DealtPrefix ==
  ASSUME TypeOK, NEW cut \in [0 .. N -> 0 .. Len(candidate)], Fills(cut)
  PROVE  /\ \A e, f \in 0 .. N : e <= f => cut[e] <= cut[f]
         /\ \A i \in 1 .. cut[N] :
              \E e \in Executors : i \in cut[e] + 1 .. cut[e + 1]
  <1>0. Len(candidate) \in Nat
    BY LenProperties DEF TypeOK
  <1>1. ASSUME NEW e \in Executors PROVE Vacancies(e) \in Nat
    <2>1. Len(ready[e]) \in Nat
      BY <1>1, LenProperties DEF TypeOK
    <2>2. Capacity \in Int
      BY <1>0 DEF Capacity, Min2, TypeOK
    <2> QED BY <2>1, <2>2 DEF Vacancies
  <1>2. ASSUME NEW e \in 0 .. N - 1 PROVE cut[e] <= cut[e + 1]
    <2>1. Vacancies(e) \in Nat
      BY <1>1, <1>2 DEF Executors
    <2>2. cut[e + 1] = Min2(cut[e] + Vacancies(e), Len(candidate)) /\ cut[e] \in 0 .. Len(candidate)
      BY <1>2 DEF Fills, Executors
    <2> QED BY <2>1, <2>2, <1>0 DEF Min2
  <1>3. cut[0] = 0 /\ N \in Nat
    BY DEF Fills
  <1> QED BY <1>0, <1>2, <1>3, CutPoints DEF Executors

LEMMA TypeStep ==
  ASSUME IInv, [Next]_vars
  PROVE  TypeOK'
  <1> USE ThreadFacts DEF TypeOK, Labels, Goto, queues, semaphores, jobVars
  <1>1. ASSUME NEW e \in Executors, ReadStatus(e) PROVE TypeOK'
    BY <1>1, SemaphoreTypes DEF IInv, ReadStatus
  <1>2. ASSUME NEW e \in Executors, GetReadyJob(e) PROVE TypeOK'
    <2>1. Head(ready[e]) \in Jobs /\ Tail(ready[e]) \in Seq(Jobs)
      BY <1>2, HeadTailProperties DEF IInv, GetReadyJob
    <2>2. working[e] = NoJob
      BY <1>2 DEF IInv, ExecutorsConsistent, GetReadyJob
    <2>3. /\ working' = [working EXCEPT ![e] = Head(ready[e])]
          /\ ready' = [ready EXCEPT ![e] = Tail(ready[e])]
          /\ readyJobCount' = readyJobCount - 1
          /\ pc' = [pc EXCEPT ![e] = "run"]
          /\ UNCHANGED <<status, candidate, created, done, needSelect, executorStatus,
                         needReadyJob, needStatusCheck, statusCheckOver,
                         executorWakeup, wakeupIDs, joining>>
      BY <1>2, <2>2 DEF GetReadyJob
    <2> QED BY <2>1, <2>3 DEF IInv
  <1>3. ASSUME NEW e \in Executors, GetNoJob(e) PROVE TypeOK'
    BY <1>3, SemaphoreTypes DEF IInv, GetNoJob
  <1>4. ASSUME NEW e \in Executors, PushJobs(e) PROVE TypeOK'
    <2>1. PICK n \in 1 .. MaxJobs - created :
            /\ candidate' = candidate \o [i \in 1 .. n |-> created + i]
            /\ created' = created + n
      BY <1>4 DEF PushJobs
    <2>2. candidate' \in Seq(Jobs)
      BY <2>1, NewJobs DEF IInv
    <2>3. created' \in 0 .. MaxJobs
      BY <2>1 DEF IInv
    <2>4. needReadyJob' \in SemState
      BY <1>4, SemaphoreTypes DEF IInv, PushJobs
    <2> QED BY <1>4, <2>2, <2>3, <2>4 DEF IInv, PushJobs
  <1>5. ASSUME NEW e \in Executors, JobDone(e) PROVE TypeOK'
    BY <1>5 DEF IInv, JobDone, ExecutorsConsistent
  <1>6. ASSUME NEW e \in Executors, JobFails(e) PROVE TypeOK'
    BY <1>6, SemaphoreTypes DEF IInv, JobFails
  <1>7. ASSUME NEW e \in Executors, ReportError(e) PROVE TypeOK'
    BY <1>7, SemaphoreTypes DEF IInv, ReportError
  <1>8. ASSUME NEW e \in Executors, BecomeIdle(e) PROVE TypeOK'
    BY <1>8, SemaphoreTypes DEF IInv, BecomeIdle
  <1>9. ASSUME NEW e \in Executors, AskForJob(e) PROVE TypeOK'
    BY <1>9, SemaphoreTypes DEF IInv, AskForJob
  <1>10. ASSUME NEW e \in Executors, WaitForJob(e) PROVE TypeOK'
    BY <1>10, SemaphoreTypes DEF IInv, WaitForJob, Wait, AfterWait
  <1>11. ASSUME NEW e \in Executors, BecomeBusy(e) PROVE TypeOK'
    BY <1>11, SemaphoreTypes DEF IInv, BecomeBusy
  <1>12. CASE WaitForRequest
    BY <1>12, SemaphoreTypes DEF IInv, WaitForRequest, Wait, AfterWait
  <1>13. CASE ResourceReadsStatus
    BY <1>13, SemaphoreTypes DEF IInv, ResourceReadsStatus
  <1>14. CASE TestNeedSelect
    BY <1>14, SemaphoreTypes DEF IInv, TestNeedSelect
  <1>15. CASE SelectReadyJob
    <2>1. PICK cut \in [0 .. N -> 0 .. Len(candidate)] :
            /\ ready' = [e \in Executors |->
                          ready[e] \o SubSeq(candidate, cut[e] + 1, cut[e + 1])]
            /\ candidate' = SubSeq(candidate, cut[N] + 1, Len(candidate))
            /\ readyJobCount' = readyJobCount + cut[N]
            /\ wakeupIDs' = {e \in Executors : cut[e] < cut[e + 1]}
      BY <1>15 DEF SelectReadyJob
    <2>2. Len(candidate) \in Nat /\ candidate \in Seq(Jobs) /\ Jobs \subseteq Int /\ cut[N] \in 0 .. Len(candidate)
      BY LenProperties DEF IInv, Jobs
    <2>3. candidate' \in Seq(Jobs)
      BY <2>1, <2>2, Segment
    <2>4. ASSUME NEW e \in Executors
          PROVE  ready[e] \o SubSeq(candidate, cut[e] + 1, cut[e + 1]) \in Seq(Jobs)
      <3>1. cut[e] \in Nat /\ cut[e + 1] \in Nat /\ cut[e + 1] <= Len(candidate) /\ ready[e] \in Seq(Jobs)
        BY <2>2, <2>4 DEF Executors, IInv
      <3>2. SubSeq(candidate, cut[e] + 1, cut[e + 1]) \in Seq(Jobs)
        BY <2>2, <3>1, Segment
      <3> QED BY <3>1, <3>2, ConcatProperties
    <2>5. readyJobCount' \in Int
      BY <2>1, <2>2 DEF IInv
    <2> QED BY <1>15, <2>1, <2>3, <2>4, <2>5 DEF IInv, SelectReadyJob
  <1>16. CASE NotifyExecutor
    BY <1>16, SemaphoreTypes DEF IInv, NotifyExecutor
  <1>17. CASE RequestStatusCheck
    BY <1>17, SemaphoreTypes DEF IInv, RequestStatusCheck
  <1>18. CASE WaitStatusCheckOver
    BY <1>18, SemaphoreTypes DEF IInv, WaitStatusCheckOver, Wait, AfterWait
  <1>19. CASE WaitForCheck
    BY <1>19, SemaphoreTypes DEF IInv, WaitForCheck, Wait, AfterWait
  <1>20. CASE CheckError
    BY <1>20, SemaphoreTypes DEF IInv, CheckError
  <1>21. CASE CheckCandidate
    BY <1>21, SemaphoreTypes DEF IInv, CheckCandidate
  <1>22. CASE CheckReadyCount
    BY <1>22, SemaphoreTypes DEF IInv, CheckReadyCount
  <1>23. CASE CheckNeedSelect
    BY <1>23, SemaphoreTypes DEF IInv, CheckNeedSelect
  <1>24. CASE CheckOver
    BY <1>24, SemaphoreTypes DEF IInv, CheckOver
  <1>25. CASE StopResource
    BY <1>25, SemaphoreTypes DEF IInv, StopResource
  <1>26. CASE JoinResource
    BY <1>26, SemaphoreTypes DEF IInv, JoinResource
  <1>27. CASE StopExecutor
    BY <1>27, SemaphoreTypes DEF IInv, StopExecutor
  <1>28. CASE JoinExecutor
    <2>1. joining' \in Executors
      BY <1>28 DEF IInv, JoinExecutor, Executors
    <2>2. pc' \in [Threads -> Labels]
      BY <1>28 DEF IInv, JoinExecutor
    <2> QED BY <1>28, <2>1, <2>2 DEF IInv, JoinExecutor
  <1>29. CASE UNCHANGED vars
    BY <1>29 DEF IInv, vars
  <1> QED
    BY <1>1, <1>2, <1>3, <1>4, <1>5, <1>6, <1>7, <1>8, <1>9, <1>10, <1>11, <1>12, <1>13, <1>14, <1>15, <1>16, <1>17, <1>18, <1>19, <1>20, <1>21, <1>22, <1>23, <1>24, <1>25, <1>26, <1>27, <1>28, <1>29
    DEF Next, MainStep, ResourceStep, ExecutorStep, Returned

-----------------------------------------------------------------------------
(* The queues.                                                               *)

LEMMA QueueFacts ==
  ASSUME IInv
  PROVE  /\ Jobs \subseteq Int /\ NoJob \notin Jobs
         /\ candidate \in Seq(Jobs) /\ Range(candidate) \subseteq Jobs
         /\ \A e \in Executors : ready[e] \in Seq(Jobs) /\ Range(ready[e]) \subseteq Jobs
         /\ Queued \subseteq 1 .. created /\ IsFiniteSet(Queued)
         /\ \A j : j \in Queued <=> \E e \in Executors : j \in Range(ready[e])
         /\ \A j : j \in InHand <=> j # NoJob /\ \E e \in Executors : j = working[e]
  <1>1. Jobs \subseteq Int /\ NoJob \notin Jobs /\ created \in Int
    BY DEF IInv, TypeOK, Jobs, NoJob
  <1>2. candidate \in Seq(Jobs)
    BY DEF IInv, TypeOK
  <1>3. \A e \in Executors : ready[e] \in Seq(Jobs)
    BY DEF IInv, TypeOK
  <1>4. Range(candidate) \subseteq Jobs /\ \A e \in Executors : Range(ready[e]) \subseteq Jobs
    BY <1>2, <1>3, RangeOfQueue
  <1>5. Queued \subseteq 1 .. created
    BY DEF IInv, QueueInv, JobsConserved
  <1>6. IsFiniteSet(1 .. created)
    BY <1>1, FS_Interval
  <1>7. IsFiniteSet(Queued)
    BY <1>5, <1>6, FS_Subset
  <1> QED BY <1>1, <1>2, <1>3, <1>4, <1>5, <1>7 DEF Queued, InHand

\* Steps that leave the queues and the jobs alone.
LEMMA QueueFrame ==
  ASSUME IInv, UNCHANGED <<queues, jobVars>>
  PROVE  QueueInv'
  <1>1. UNCHANGED <<candidate, ready, readyJobCount, working, created, done>>
    BY DEF queues, jobVars
  <1>2. Queued' = Queued /\ InHand' = InHand
    BY <1>1 DEF Queued, InHand
  <1>3. JobsConserved'
    BY <1>1, <1>2 DEF IInv, QueueInv, JobsConserved
  <1>4. FirstComeFirstServed'
    BY <1>1 DEF IInv, QueueInv, FirstComeFirstServed
  <1>5. CountMatchesQueues'
    BY <1>1, <1>2 DEF IInv, QueueInv, CountMatchesQueues
  <1> QED BY <1>3, <1>4, <1>5 DEF QueueInv

\* getReadyJob() moves the head of a ready queue into the executor's hands.
LEMMA QueueGet ==
  ASSUME IInv, NEW e \in Executors, GetReadyJob(e), working[e] = NoJob
  PROVE  QueueInv'
  <1> DEFINE j == Head(ready[e])
             r == Tail(ready[e])
  <1>0. /\ Jobs \subseteq Int /\ NoJob \notin Jobs
        /\ ready[e] \in Seq(Jobs) /\ ready[e] # <<>> /\ Ascending(ready[e])
        /\ \A f \in Executors : Range(ready[f]) \subseteq Jobs
    BY QueueFacts DEF GetReadyJob, IInv, QueueInv, FirstComeFirstServed
  <1>1. /\ j \in Range(ready[e])
        /\ Range(r) = Range(ready[e]) \ {j}
        /\ Ascending(r)
        /\ \A k \in Range(r) : j < k
    BY <1>0, TakeHead
  <1>2. /\ working' = [working EXCEPT ![e] = j]
        /\ ready' = [ready EXCEPT ![e] = r]
        /\ readyJobCount' = readyJobCount - 1
        /\ UNCHANGED <<candidate, created, done>>
    BY DEF GetReadyJob
  <1>3. /\ working \in [Executors -> Jobs \cup {NoJob}]
        /\ ready \in [Executors -> Seq(Jobs)] /\ readyJobCount \in Int
    BY DEF IInv, TypeOK
  <1>4. /\ working'[e] = j /\ ready'[e] = r
        /\ \A f \in Executors : f # e => working'[f] = working[f] /\ ready'[f] = ready[f]
    BY <1>2, <1>3
  <1> HIDE DEF j, r
  <1>j. j \in Jobs /\ j # NoJob
    BY <1>0, <1>1
  <1>5. /\ \A e1, e2 \in Executors : e1 # e2 => Range(ready[e1]) \cap Range(ready[e2]) = {}
        /\ \A e1, e2 \in Executors : e1 # e2 /\ working[e1] = working[e2] => working[e1] = NoJob
        /\ Queued \cap InHand = {}
    BY DEF IInv, QueueInv, JobsConserved
  <1>6. Queued' = Queued \ {j} /\ j \in Queued
    <2>1. /\ \A k : k \in Queued' <=> \E f \in Executors : k \in Range(ready'[f])
          /\ \A k : k \in Queued <=> \E f \in Executors : k \in Range(ready[f])
      BY DEF Queued
    <2>2. ASSUME NEW k \in Queued' PROVE k \in Queued \ {j}
      <3>1. PICK f \in Executors : k \in Range(ready'[f]) BY <2>1, <2>2
      <3> QED BY <3>1, <2>1, <1>1, <1>4, <1>5
    <2>3. ASSUME NEW k \in Queued, k # j PROVE k \in Queued'
      <3>1. PICK f \in Executors : k \in Range(ready[f]) BY <2>1, <2>3
      <3>2. k \in Range(ready'[f]) BY <3>1, <2>3, <1>1, <1>4
      <3> QED BY <3>2, <2>1
    <2>4. j \in Queued BY <2>1, <1>1
    <2>5. j \notin Queued'
      <3>1. ASSUME NEW f \in Executors PROVE j \notin Range(ready'[f])
        BY <1>1, <1>4, <1>5
      <3> QED BY <3>1, <2>1
    <2> QED BY <2>2, <2>3, <2>4, <2>5
  <1>7. InHand' = InHand \cup {j}
    <2>1. \A k : k \in InHand' <=> k # NoJob /\ \E f \in Executors : k = working'[f]
      BY DEF InHand
    <2> QED BY <2>1, <1>j, <1>4, QueueFacts
  <1>8. JobsConserved'
    <2>1. /\ Range(candidate) \cup Queued \cup InHand \cup done = 1 .. created
          /\ Range(candidate) \cap (Queued \cup InHand \cup done) = {}
          /\ Queued \cap (InHand \cup done) = {}
          /\ InHand \cap done = {}
      BY DEF IInv, QueueInv, JobsConserved
    <2>2. /\ Range(candidate) \cup Queued' \cup InHand' \cup done = 1 .. created
          /\ Range(candidate) \cap (Queued' \cup InHand' \cup done) = {}
          /\ Queued' \cap (InHand' \cup done) = {}
          /\ InHand' \cap done = {}
      BY <2>1, <1>6, <1>7
    <2>3. ASSUME NEW e1 \in Executors, NEW e2 \in Executors, e1 # e2
          PROVE  Range(ready'[e1]) \cap Range(ready'[e2]) = {}
      BY <2>3, <1>1, <1>4, <1>5
    <2>4. ASSUME NEW e1 \in Executors, NEW e2 \in Executors, e1 # e2, working'[e1] = working'[e2]
          PROVE  working'[e1] = NoJob
      <3>1. \A f \in Executors : working[f] # j
        BY <1>5, <1>6, <1>j, QueueFacts
      <3> QED BY <2>4, <3>1, <1>4, <1>5
    <2> QED BY <1>2, <2>2, <2>3, <2>4 DEF JobsConserved
  <1>9. FirstComeFirstServed'
    BY <1>1, <1>2, <1>4 DEF IInv, QueueInv, FirstComeFirstServed
  <1>10. CountMatchesQueues'
    BY <1>2, <1>3, <1>6, QueueFacts, FS_RemoveElement, FS_CardinalityType
    DEF IInv, QueueInv, CountMatchesQueues
  <1> QED BY <1>8, <1>9, <1>10 DEF QueueInv

\* A running job pushes jobs.
LEMMA QueuePush ==
  ASSUME IInv, NEW e \in Executors, PushJobs(e)
  PROVE  QueueInv'
  <1>1. PICK n \in 1 .. MaxJobs - created :
          /\ candidate' = candidate \o [i \in 1 .. n |-> created + i]
          /\ created' = created + n
    BY DEF PushJobs
  <1> DEFINE new == [i \in 1 .. n |-> created + i]
  <1>2. /\ new \in Seq(Jobs) /\ Range(new) = created + 1 .. created + n
        /\ Ascending(new)
    BY NewJobs DEF IInv
  <1>3. UNCHANGED <<ready, readyJobCount, working, done>> /\ Queued' = Queued /\ InHand' = InHand
    BY DEF PushJobs, Queued, InHand
  <1>4. created \in Nat /\ n \in Nat
    BY DEF IInv, TypeOK
  <1>5. candidate' = candidate \o new
    BY <1>1
  <1> HIDE DEF new
  <1>6. /\ Range(candidate) \cup Queued \cup InHand \cup done = 1 .. created
        /\ Range(candidate) \cap (Queued \cup InHand \cup done) = {}
    BY DEF IInv, QueueInv, JobsConserved
  <1>7. \A i \in Range(candidate), k \in Range(new) : i < k
    BY <1>2, <1>4, <1>6
  <1>8. Range(candidate') = Range(candidate) \cup Range(new) /\ Ascending(candidate')
    <2>1. Jobs \subseteq Int /\ candidate \in Seq(Jobs)
      BY QueueFacts
    <2>2. Ascending(candidate)
      BY DEF IInv, QueueInv, FirstComeFirstServed
    <2>3. /\ Range(candidate \o new) = Range(candidate) \cup Range(new)
          /\ Ascending(candidate \o new)
      <3>1. new \in Seq(Jobs) /\ Ascending(new) BY <1>2
      <3> QED BY <2>1, <2>2, <3>1, <1>7, AppendQueue
    <2> QED BY <2>3, <1>5
  <1>9. JobsConserved'
    <2>1. 1 .. created' = 1 .. created \cup (created + 1 .. created + n)
      BY <1>1, <1>4
    <2>2. (1 .. created) \cap (created + 1 .. created + n) = {}
      BY <1>4
    <2>3. Range(candidate') \cup Queued' \cup InHand' \cup done' = 1 .. created'
      BY <2>1, <1>2, <1>3, <1>6, <1>8
    <2>4. Range(candidate') \cap (Queued' \cup InHand' \cup done') = {}
      BY <2>2, <1>2, <1>3, <1>6, <1>8
    <2> QED BY <2>3, <2>4, <1>3 DEF IInv, QueueInv, JobsConserved
  <1>10. FirstComeFirstServed'
    <2>1. ASSUME NEW f \in Executors,
                 NEW j \in Range(ready[f]) \cup {working[f]}, NEW k \in Range(new)
          PROVE  j < k
      <3>1. j \in 0 .. created
        <4>1. CASE j \in Range(ready[f])
          <5>1. j \in Queued BY <4>1 DEF Queued
          <5> QED BY <5>1, <1>6, <1>4
        <4>2. CASE j = working[f] /\ j # NoJob
          <5>1. j \in InHand BY <4>2 DEF InHand
          <5> QED BY <5>1, <1>6, <1>4
        <4>3. CASE j = NoJob
          BY <4>3, <1>4 DEF NoJob
        <4> QED BY <2>1, <4>1, <4>2, <4>3
      <3> QED BY <3>1, <1>2, <1>4
    <2> QED BY <2>1, <1>3, <1>8 DEF IInv, QueueInv, FirstComeFirstServed
  <1>11. CountMatchesQueues'
    BY <1>3 DEF IInv, QueueInv, CountMatchesQueues
  <1> QED BY <1>9, <1>10, <1>11 DEF QueueInv

\* The end of process().
LEMMA QueueDone ==
  ASSUME IInv, NEW e \in Executors, JobDone(e)
  PROVE  QueueInv'
  <1>1. /\ done' = done \cup {working[e]}
        /\ working' = [working EXCEPT ![e] = NoJob]
        /\ UNCHANGED <<candidate, ready, readyJobCount, created>>
        /\ Queued' = Queued
    BY DEF JobDone, Queued, queues
  <1>2. working[e] # NoJob /\ working[e] \in InHand
    BY QueueFacts DEF JobDone, IInv, ExecutorsConsistent
  <1>3. /\ working'[e] = NoJob
        /\ \A f \in Executors : f # e => working'[f] = working[f]
    BY <1>1 DEF IInv, TypeOK
  <1>4. \A e1, e2 \in Executors : e1 # e2 /\ working[e1] = working[e2] => working[e1] = NoJob
    BY DEF IInv, QueueInv, JobsConserved
  <1>5. InHand' = InHand \ {working[e]}
    <2>1. /\ \A k : k \in InHand' <=> k # NoJob /\ \E f \in Executors : k = working'[f]
          /\ \A k : k \in InHand <=> k # NoJob /\ \E f \in Executors : k = working[f]
      BY DEF InHand
    <2>2. ASSUME NEW k \in InHand' PROVE k \in InHand \ {working[e]}
      <3>1. PICK f \in Executors : k = working'[f] BY <2>1, <2>2
      <3> QED BY <3>1, <2>1, <2>2, <1>3, <1>4
    <2>3. ASSUME NEW k \in InHand, k # working[e] PROVE k \in InHand'
      <3>1. PICK f \in Executors : k = working[f] BY <2>1, <2>3
      <3> QED BY <3>1, <2>1, <2>3, <1>3
    <2>4. working[e] \notin InHand'
      BY <2>1, <1>2, <1>3, <1>4
    <2> QED BY <2>2, <2>3, <2>4
  <1>6. JobsConserved'
    <2>1. /\ Range(candidate) \cup Queued' \cup InHand' \cup done' = 1 .. created
          /\ Range(candidate) \cap (Queued' \cup InHand' \cup done') = {}
          /\ Queued' \cap (InHand' \cup done') = {}
          /\ InHand' \cap done' = {}
      BY <1>1, <1>2, <1>5 DEF IInv, QueueInv, JobsConserved
    <2>2. \A e1, e2 \in Executors : e1 # e2 /\ working'[e1] = working'[e2] => working'[e1] = NoJob
      BY <1>3, <1>4
    <2> QED BY <1>1, <2>1, <2>2 DEF IInv, QueueInv, JobsConserved
  <1>7. FirstComeFirstServed'
    <2>1. ASSUME NEW f \in Executors PROVE \A j \in Range(ready[f]) \cup Range(candidate) : NoJob < j
      <3>1. Range(ready[f]) \subseteq Jobs /\ Range(candidate) \subseteq Jobs
        BY QueueFacts
      <3> QED BY <3>1 DEF Jobs, NoJob
    <2> QED BY <1>1, <1>3, <2>1 DEF IInv, QueueInv, FirstComeFirstServed
  <1>8. CountMatchesQueues'
    BY <1>1 DEF IInv, QueueInv, CountMatchesQueues
  <1> QED BY <1>6, <1>7, <1>8 DEF QueueInv

\* selectReadyJob() deals a prefix of the candidates out to the ready queues.
LEMMA QueueSelect ==
  ASSUME IInv, SelectReadyJob
  PROVE  QueueInv'
  <1>1. PICK cut \in [0 .. N -> 0 .. Len(candidate)] :
          /\ Fills(cut)
          /\ ready' = [e \in Executors |->
                        ready[e] \o SubSeq(candidate, cut[e] + 1, cut[e + 1])]
          /\ candidate' = SubSeq(candidate, cut[N] + 1, Len(candidate))
          /\ readyJobCount' = readyJobCount + cut[N]
    BY DEF SelectReadyJob
  <1> DEFINE n == Len(candidate)
             c == cut[N]
             Part(e) == {candidate[i] : i \in cut[e] + 1 .. cut[e + 1]}
             Moved == {candidate[i] : i \in 1 .. c}
             Rest == {candidate[i] : i \in c + 1 .. n}
  <1>2. UNCHANGED <<working, created, done>> /\ InHand' = InHand
    BY DEF SelectReadyJob, jobVars, InHand
  <1>3. /\ Jobs \subseteq Int
        /\ candidate \in Seq(Jobs) /\ Ascending(candidate) /\ n \in Nat
        /\ \A e \in Executors : ready[e] \in Seq(Jobs) /\ Ascending(ready[e])
    BY QueueFacts, LenProperties DEF IInv, QueueInv, FirstComeFirstServed
  <1>4. /\ \A e, f \in 0 .. N : e <= f => cut[e] <= cut[f]
        /\ \A i \in 1 .. c : \E e \in Executors : i \in cut[e] + 1 .. cut[e + 1]
    BY <1>1, DealtPrefix DEF IInv
  <1>5. c \in Nat /\ c <= n
    BY <1>1, <1>3
  <1>6. ASSUME NEW e \in Executors
        PROVE  /\ cut[e] \in Nat /\ cut[e + 1] \in Nat
               /\ cut[e] <= cut[e + 1] /\ cut[e + 1] <= c /\ cut[e + 1] <= n
    <2>1. e \in 0 .. N /\ e + 1 \in 0 .. N /\ N \in 0 .. N /\ e <= e + 1 /\ e + 1 <= N
      BY DEF Executors
    <2>2. cut[e] \in Nat /\ cut[e + 1] \in Nat
      BY <1>1, <1>3, <2>1
    <2>3. cut[e] <= cut[e + 1] /\ cut[e + 1] <= c
      BY <1>4, <2>1
    <2> HIDE DEF n, c
    <2>4. cut[e + 1] <= n
      BY <1>3, <1>5, <2>2, <2>3
    <2> QED BY <2>2, <2>3, <2>4
  <1>r. Range(candidate) = {candidate[i] : i \in 1 .. n}
    BY <1>3, RangeOfQueue
  <1>7. /\ Range(candidate) = Moved \cup Rest
        /\ Moved \cap Rest = {}
        /\ \A i, k \in 1 .. n : i < k => candidate[i] < candidate[k]
    <2>1. Range(candidate) = Moved \cup Rest
      BY <1>r, <1>3, <1>5
    <2>2. \A i, k \in 1 .. n : i < k => candidate[i] < candidate[k]
      BY <1>3 DEF Ascending
    <2>3. ASSUME NEW i \in 1 .. c, NEW k \in c + 1 .. n, candidate[i] = candidate[k]
          PROVE  FALSE
      <3>1. i \in 1 .. n /\ k \in 1 .. n /\ i < k BY <1>3, <1>5
      <3>2. candidate[i] \in Int BY <3>1, <1>3, ElementOfSeq
      <3>3. candidate[i] < candidate[k] BY <3>1, <2>2
      <3> QED BY <3>2, <3>3, <2>3
    <2> QED BY <2>1, <2>2, <2>3
  <1>8. Range(candidate') = Rest /\ Ascending(candidate')
    <2>1. /\ Range(SubSeq(candidate, c + 1, n)) = Rest
          /\ Ascending(SubSeq(candidate, c + 1, n))
      <3>1. Jobs \subseteq Int /\ candidate \in Seq(Jobs) /\ Ascending(candidate)
        BY <1>3
      <3>2. c + 1 \in Nat \ {0} /\ n \in Nat /\ n <= Len(candidate)
        BY <1>3, <1>5
      <3>3. /\ \A j : j \in Range(SubSeq(candidate, c + 1, n)) <=> \E i \in c + 1 .. n : j = candidate[i]
            /\ Ascending(SubSeq(candidate, c + 1, n))
        <4> HIDE DEF c, n
        <4> QED BY <3>1, <3>2, Segment
      <3> QED BY <3>3
    <2> QED BY <2>1, <1>1
  <1>9. ASSUME NEW e \in Executors
        PROVE  /\ Range(ready'[e]) = Range(ready[e]) \cup Part(e)
               /\ Ascending(ready'[e])
               /\ Part(e) \subseteq Moved
    <2> DEFINE part == SubSeq(candidate, cut[e] + 1, cut[e + 1])
    <2>1. part \in Seq(Jobs) /\ Range(part) = Part(e) /\ Ascending(part)
      <3>1. Jobs \subseteq Int /\ candidate \in Seq(Jobs) /\ Ascending(candidate)
        BY <1>3
      <3>2. cut[e] + 1 \in Nat \ {0} /\ cut[e + 1] \in Nat /\ cut[e + 1] <= Len(candidate)
        BY <1>6, <1>5, <1>3
      <3>3. /\ part \in Seq(Jobs) /\ Ascending(part)
            /\ \A j : j \in Range(part) <=> \E i \in cut[e] + 1 .. cut[e + 1] : j = candidate[i]
        <4> DEFINE a == cut[e] + 1
                   b == cut[e + 1]
        <4>1. a \in Nat \ {0} /\ b \in Nat /\ b <= Len(candidate) BY <3>2
        <4>2. part = SubSeq(candidate, a, b) OBVIOUS
        <4> HIDE DEF a, b, part
        <4>3. /\ part \in Seq(Jobs) /\ Ascending(part)
              /\ \A j : j \in Range(part) <=> \E i \in a .. b : j = candidate[i]
          BY <3>1, <4>1, <4>2, Segment
        <4> QED BY <4>3 DEF a, b
      <3> HIDE DEF part
      <3> QED BY <3>3
    <2>2. ready'[e] = ready[e] \o part
      BY <1>1
    <2>3. Part(e) \subseteq Moved
      BY <1>5, <1>6
    <2>4. \A j \in Range(ready[e]), k \in Part(e) : j < k
      <3>1. \A j \in Range(ready[e]), k \in Range(candidate) : j < k
        BY DEF IInv, QueueInv, FirstComeFirstServed
      <3> QED BY <3>1, <2>3, <1>7
    <2> HIDE DEF part
    <2>5. /\ Range(ready[e] \o part) = Range(ready[e]) \cup Range(part)
          /\ Ascending(ready[e] \o part)
      <3>1. Jobs \subseteq Int /\ ready[e] \in Seq(Jobs) /\ Ascending(ready[e])
        BY <1>3
      <3>2. \A j \in Range(ready[e]), k \in Range(part) : j < k
        BY <2>1, <2>4
      <3> HIDE DEF Part
      <3> QED BY <3>1, <3>2, <2>1, AppendQueue
    <2> QED BY <2>1, <2>2, <2>3, <2>5
  <1>10. ASSUME NEW e \in Executors, NEW f \in Executors, e < f
         PROVE  Part(e) \cap Part(f) = {}
    <2>1. cut[e + 1] <= cut[f]
      <3>1. e + 1 \in 0 .. N /\ f \in 0 .. N /\ e + 1 <= f BY <1>10 DEF Executors
      <3> QED BY <3>1, <1>4
    <2>2. ASSUME NEW i \in cut[e] + 1 .. cut[e + 1], NEW k \in cut[f] + 1 .. cut[f + 1],
                 candidate[i] = candidate[k]
          PROVE  FALSE
      <3>1. i \in 1 .. n /\ k \in 1 .. n /\ i < k
        <4>1. /\ cut[e] \in Nat /\ cut[e + 1] \in Nat /\ cut[e + 1] <= n
              /\ cut[f] \in Nat /\ cut[f + 1] \in Nat /\ cut[f + 1] <= n
          BY <1>6
        <4>2. n \in Nat BY <1>3
        <4> DEFINE a == cut[e]
                   b == cut[e + 1]
                   d == cut[f]
                   g == cut[f + 1]
        <4>3. i \in a + 1 .. b /\ k \in d + 1 .. g BY <2>2
        <4>4. /\ a \in Nat /\ b \in Nat /\ b <= n
              /\ d \in Nat /\ g \in Nat /\ g <= n /\ b <= d
          BY <4>1, <2>1
        <4> HIDE DEF n, a, b, d, g
        <4> QED BY <4>2, <4>3, <4>4
      <3>2. candidate[i] \in Int BY <3>1, <1>3, ElementOfSeq
      <3>3. candidate[i] < candidate[k] BY <3>1, <1>7
      <3> QED BY <3>2, <3>3, <2>2
    <2> QED BY <2>2
  <1>11. Queued' = Queued \cup Moved
    <2>1. /\ \A k : k \in Queued' <=> \E e \in Executors : k \in Range(ready'[e])
          /\ \A k : k \in Queued <=> \E e \in Executors : k \in Range(ready[e])
      BY DEF Queued
    <2>2. ASSUME NEW k \in Queued' PROVE k \in Queued \cup Moved
      <3>1. PICK e \in Executors : k \in Range(ready'[e]) BY <2>1, <2>2
      <3> HIDE DEF Part, Moved
      <3> QED BY <3>1, <2>1, <1>9
    <2>3. ASSUME NEW k \in Queued PROVE k \in Queued'
      <3>1. PICK e \in Executors : k \in Range(ready[e]) BY <2>1, <2>3
      <3> HIDE DEF Part, Moved
      <3> QED BY <3>1, <2>1, <1>9
    <2>4. ASSUME NEW i \in 1 .. c PROVE candidate[i] \in Queued'
      <3>1. PICK e \in Executors : i \in cut[e] + 1 .. cut[e + 1] BY <1>4
      <3>2. candidate[i] \in Part(e) BY <3>1
      <3> HIDE DEF Part, Moved
      <3> QED BY <3>2, <2>1, <1>9
    <2> QED BY <2>2, <2>3, <2>4
  <1>12. /\ Range(candidate) \cup Queued \cup InHand \cup done = 1 .. created
         /\ Range(candidate) \cap (Queued \cup InHand \cup done) = {}
         /\ Queued \cap (InHand \cup done) = {} /\ InHand \cap done = {}
         /\ \A e, f \in Executors : e # f => Range(ready[e]) \cap Range(ready[f]) = {}
         /\ \A e, f \in Executors : e # f /\ working[e] = working[f] => working[e] = NoJob
    BY DEF IInv, QueueInv, JobsConserved
  <1>13. \A e \in Executors : Range(ready[e]) \subseteq Queued
    BY DEF Queued
  <1>14. Cardinality(Queued') = Cardinality(Queued) + c
    <2>1. IsFiniteSet(Moved) /\ Cardinality(Moved) = c
      <3>1. c \in 0 .. Len(candidate) BY <1>3, <1>5
      <3> QED BY <3>1, <1>3, PrefixCardinality
    <2>2. Queued \cap Moved = {}
      BY <1>7, <1>12
    <2>3. IsFiniteSet(Queued) /\ Cardinality(Queued) \in Nat
      BY QueueFacts, FS_CardinalityType
    <2> HIDE DEF Moved
    <2>4. Cardinality(Queued \cup Moved)
            = Cardinality(Queued) + Cardinality(Moved) - Cardinality(Queued \cap Moved)
      BY <2>1, <2>3, FS_Union
    <2>5. Cardinality(Queued \cap Moved) = 0
      BY <2>2, FS_EmptySet
    <2>6. Cardinality(Queued \cup Moved) = Cardinality(Queued) + c
      BY <2>1, <2>3, <2>4, <2>5, <1>5
    <2> QED BY <2>6, <1>11
  <1> HIDE DEF Part, Moved, Rest, n, c
  <1>15. JobsConserved'
    <2>1. /\ Range(candidate') \cup Queued' \cup InHand' \cup done' = 1 .. created'
          /\ Range(candidate') \cap (Queued' \cup InHand' \cup done') = {}
          /\ Queued' \cap (InHand' \cup done') = {} /\ InHand' \cap done' = {}
      BY <1>2, <1>7, <1>8, <1>11, <1>12
    <2>2. ASSUME NEW e \in Executors, NEW f \in Executors, e # f
          PROVE  Range(ready'[e]) \cap Range(ready'[f]) = {}
      <3>1. Part(e) \cap Part(f) = {}
        BY <1>10, <2>2 DEF Executors
      <3>2. Moved \cap Queued = {}
        BY <1>7, <1>12
      <3> QED BY <2>2, <3>1, <3>2, <1>9, <1>12, <1>13
    <2> QED BY <2>1, <2>2, <1>2, <1>12 DEF JobsConserved
  <1>16. FirstComeFirstServed'
    <2>1. ASSUME NEW e \in Executors
          PROVE  /\ \A j \in Range(ready[e]) : working[e] < j
                 /\ \A j \in Range(ready[e]) \cup {working[e]}, k \in Range(candidate) : j < k
      BY DEF IInv, QueueInv, FirstComeFirstServed
    <2>2. ASSUME NEW i \in Moved, NEW k \in Rest PROVE i < k
      <3>1. PICK a \in 1 .. c : i = candidate[a] BY DEF Moved
      <3>2. PICK b \in c + 1 .. n : k = candidate[b] BY DEF Rest
      <3>3. a \in 1 .. n /\ b \in 1 .. n /\ a < b
        BY <3>1, <3>2, <1>3, <1>5
      <3> QED BY <3>1, <3>2, <3>3, <1>7
    <2>3. ASSUME NEW e \in Executors, NEW j \in Range(ready'[e])
          PROVE  working'[e] < j /\ \A k \in Rest : j < k
      <3>1. CASE j \in Range(ready[e])
        BY <3>1, <2>1, <1>2, <1>7
      <3>2. CASE j \in Moved
        BY <3>2, <2>1, <2>2, <1>2, <1>7
      <3> QED BY <2>3, <3>1, <3>2, <1>9
    <2>4. ASSUME NEW e \in Executors, NEW k \in Rest PROVE working'[e] < k
      BY <2>1, <1>2, <1>7
    <2> QED BY <2>3, <2>4, <1>8, <1>9 DEF FirstComeFirstServed
  <1>17. CountMatchesQueues'
    BY <1>1, <1>14 DEF IInv, QueueInv, CountMatchesQueues, c
  <1> QED BY <1>15, <1>16, <1>17 DEF QueueInv

LEMMA QueueStep ==
  ASSUME IInv, [Next]_vars
  PROVE  QueueInv'
  <1>1. CASE UNCHANGED <<queues, jobVars>>
    BY <1>1, QueueFrame
  <1>2. ASSUME NEW e \in Executors, GetReadyJob(e) PROVE QueueInv'
    <2>1. working[e] = NoJob
      BY <1>2 DEF IInv, ExecutorsConsistent, GetReadyJob
    <2> QED BY <1>2, <2>1, QueueGet
  <1>3. ASSUME NEW e \in Executors, PushJobs(e) PROVE QueueInv'
    BY <1>3, QueuePush
  <1>4. ASSUME NEW e \in Executors, JobDone(e) PROVE QueueInv'
    BY <1>4, QueueDone
  <1>5. CASE SelectReadyJob
    BY <1>5, QueueSelect
  <1>6. ASSUME NEW e \in Executors, ExecutorStep(e)
        PROVE  \/ GetReadyJob(e) \/ PushJobs(e) \/ JobDone(e)
               \/ UNCHANGED <<queues, jobVars>>
    BY <1>6 DEF ExecutorStep, ReadStatus, GetNoJob, JobFails, ReportError,
                BecomeIdle, AskForJob, WaitForJob, BecomeBusy
  <1>7. ASSUME ResourceStep PROVE SelectReadyJob \/ UNCHANGED <<queues, jobVars>>
    BY <1>7 DEF ResourceStep, WaitForRequest, ResourceReadsStatus, TestNeedSelect,
                NotifyExecutor, RequestStatusCheck, WaitStatusCheckOver
  <1>8. ASSUME MainStep \/ UNCHANGED vars PROVE UNCHANGED <<queues, jobVars>>
    BY <1>8 DEF MainStep, WaitForCheck, CheckError, CheckCandidate, CheckReadyCount,
                CheckNeedSelect, CheckOver, StopResource, JoinResource, StopExecutor,
                JoinExecutor, vars
  <1> QED BY <1>1, <1>2, <1>3, <1>4, <1>5, <1>6, <1>7, <1>8 DEF Next, Returned

-----------------------------------------------------------------------------
(* The test for the end.                                                     *)

LEMMA ConsistentStep ==
  ASSUME IInv, [Next]_vars
  PROVE  ExecutorsConsistent'
  <1> USE ThreadFacts DEF ExecutorsConsistent, Goto, queues, semaphores, jobVars
  <1>0. /\ TypeOK /\ ExecutorsConsistent /\ NoJob \notin Jobs
        /\ \A e \in Executors : ready[e] # <<>> => Head(ready[e]) \in Jobs
    <2>1. ASSUME NEW e \in Executors, ready[e] # <<>> PROVE Head(ready[e]) \in Jobs
      BY <2>1, HeadTailProperties DEF IInv, TypeOK
    <2> QED BY <2>1, QueueFacts DEF IInv
  <1>1. ASSUME NEW e \in Executors, ReadStatus(e) PROVE ExecutorsConsistent'
    BY <1>0, <1>1 DEF TypeOK, ReadStatus
  <1>2. ASSUME NEW e \in Executors, GetReadyJob(e) PROVE ExecutorsConsistent'
    BY <1>0, <1>2 DEF TypeOK, GetReadyJob
  <1>3. ASSUME NEW e \in Executors, GetNoJob(e) PROVE ExecutorsConsistent'
    BY <1>0, <1>3 DEF TypeOK, GetNoJob
  <1>4. ASSUME NEW e \in Executors, PushJobs(e) PROVE ExecutorsConsistent'
    BY <1>0, <1>4 DEF TypeOK, PushJobs
  <1>5. ASSUME NEW e \in Executors, JobDone(e) PROVE ExecutorsConsistent'
    BY <1>0, <1>5 DEF TypeOK, JobDone
  <1>6. ASSUME NEW e \in Executors, JobFails(e) PROVE ExecutorsConsistent'
    BY <1>0, <1>6 DEF TypeOK, JobFails
  <1>7. ASSUME NEW e \in Executors, ReportError(e) PROVE ExecutorsConsistent'
    BY <1>0, <1>7 DEF TypeOK, ReportError
  <1>8. ASSUME NEW e \in Executors, BecomeIdle(e) PROVE ExecutorsConsistent'
    BY <1>0, <1>8 DEF TypeOK, BecomeIdle
  <1>9. ASSUME NEW e \in Executors, AskForJob(e) PROVE ExecutorsConsistent'
    BY <1>0, <1>9 DEF TypeOK, AskForJob
  <1>10. ASSUME NEW e \in Executors, WaitForJob(e) PROVE ExecutorsConsistent'
    BY <1>0, <1>10 DEF TypeOK, WaitForJob, Wait
  <1>11. ASSUME NEW e \in Executors, BecomeBusy(e) PROVE ExecutorsConsistent'
    BY <1>0, <1>11 DEF TypeOK, BecomeBusy
  <1>12. CASE WaitForRequest
    BY <1>0, <1>12 DEF TypeOK, WaitForRequest, Wait
  <1>13. CASE ResourceReadsStatus
    BY <1>0, <1>13 DEF TypeOK, ResourceReadsStatus
  <1>14. CASE TestNeedSelect
    BY <1>0, <1>14 DEF TypeOK, TestNeedSelect
  <1>15. CASE SelectReadyJob
    BY <1>0, <1>15 DEF TypeOK, SelectReadyJob
  <1>16. CASE NotifyExecutor
    BY <1>0, <1>16 DEF TypeOK, NotifyExecutor
  <1>17. CASE RequestStatusCheck
    BY <1>0, <1>17 DEF TypeOK, RequestStatusCheck
  <1>18. CASE WaitStatusCheckOver
    BY <1>0, <1>18 DEF TypeOK, WaitStatusCheckOver, Wait
  <1>19. CASE WaitForCheck
    BY <1>0, <1>19 DEF TypeOK, WaitForCheck, Wait
  <1>20. CASE CheckError
    BY <1>0, <1>20 DEF TypeOK, CheckError
  <1>21. CASE CheckCandidate
    BY <1>0, <1>21 DEF TypeOK, CheckCandidate
  <1>22. CASE CheckReadyCount
    BY <1>0, <1>22 DEF TypeOK, CheckReadyCount
  <1>23. CASE CheckNeedSelect
    BY <1>0, <1>23 DEF TypeOK, CheckNeedSelect
  <1>24. CASE CheckOver
    BY <1>0, <1>24 DEF TypeOK, CheckOver
  <1>25. CASE StopResource
    BY <1>0, <1>25 DEF TypeOK, StopResource
  <1>26. CASE JoinResource
    BY <1>0, <1>26 DEF TypeOK, JoinResource
  <1>27. CASE StopExecutor
    BY <1>0, <1>27 DEF TypeOK, StopExecutor
  <1>28. CASE JoinExecutor
    BY <1>0, <1>28 DEF TypeOK, JoinExecutor
  <1>29. CASE UNCHANGED vars
    BY <1>0, <1>29 DEF vars
  <1> QED
    BY <1>1, <1>2, <1>3, <1>4, <1>5, <1>6, <1>7, <1>8, <1>9, <1>10, <1>11, <1>12, <1>13, <1>14, <1>15, <1>16, <1>17, <1>18, <1>19, <1>20, <1>21, <1>22, <1>23, <1>24, <1>25, <1>26, <1>27, <1>28, <1>29
    DEF Next, MainStep, ResourceStep, ExecutorStep, Returned

\* readyJobCount_ is 0 only when every ready queue is empty.
LEMMA ZeroMeansEmpty ==
  ASSUME IInv, readyJobCount = 0
  PROVE  Queued = {} /\ \A e \in Executors : ready[e] = <<>>
  <1>1. Queued = {}
    BY QueueFacts, FS_EmptySet DEF IInv, QueueInv, CountMatchesQueues
  <1>2. ASSUME NEW e \in Executors, ready[e] # <<>> PROVE FALSE
    <2>1. ready[e] \in Seq(Jobs) BY QueueFacts
    <2>2. Len(ready[e]) \in Nat \ {0} BY <2>1, <1>2, EmptySeq, LenProperties
    <2>3. Range(ready[e]) = {ready[e][i] : i \in 1 .. Len(ready[e])}
      BY <2>1, RangeOfQueue
    <2>4. ready[e][1] \in Range(ready[e]) BY <2>2, <2>3
    <2> QED BY <2>4, <1>1 DEF Queued
  <1> QED BY <1>1, <1>2

LEMMA LockStep ==
  ASSUME IInv, [Next]_vars
  PROVE  CheckedUnderLock'
  <1> USE ThreadFacts DEF CheckedUnderLock, Goto, queues, semaphores, jobVars
  <1>0. TypeOK /\ CheckedUnderLock
    BY DEF IInv
  <1>1. ASSUME NEW e \in Executors, GetReadyJob(e) PROVE CheckedUnderLock'
    <2>1. pc[Main] # "checkSelect"
      BY <1>0, <1>1, ZeroMeansEmpty DEF GetReadyJob
    <2> QED BY <2>1, <1>0, <1>1 DEF TypeOK, GetReadyJob
  <1>2. ASSUME NEW e \in Executors, PushJobs(e) PROVE CheckedUnderLock'
    BY <1>2 DEF PushJobs, CandidateLocked
  <1>3. ASSUME NEW e \in Executors, ExecutorStep(e), ~GetReadyJob(e), ~PushJobs(e)
        PROVE  UNCHANGED <<candidate, readyJobCount>> /\ pc'[Main] = pc[Main]
    BY <1>0, <1>3 DEF TypeOK, ExecutorStep, ReadStatus, GetNoJob, JobDone, JobFails, ReportError,
                BecomeIdle, AskForJob, WaitForJob, BecomeBusy, Wait
  <1>4. CASE SelectReadyJob
    BY <1>0, <1>4 DEF TypeOK, SelectReadyJob, CandidateLocked
  <1>5. ASSUME ResourceStep, ~SelectReadyJob
        PROVE  UNCHANGED <<candidate, readyJobCount>> /\ pc'[Main] = pc[Main]
    BY <1>0, <1>5 DEF TypeOK, ResourceStep, WaitForRequest, ResourceReadsStatus, TestNeedSelect,
                NotifyExecutor, RequestStatusCheck, WaitStatusCheckOver, Wait
  <1>6. CASE CheckCandidate
    BY <1>0, <1>6 DEF TypeOK, CheckCandidate
  <1>7. CASE CheckReadyCount
    BY <1>0, <1>7 DEF TypeOK, CheckReadyCount
  <1>8. ASSUME MainStep, ~CheckCandidate, ~CheckReadyCount
        PROVE  pc'[Main] \notin {"checkReady", "checkSelect"}
    BY <1>0, <1>8 DEF TypeOK, MainStep, WaitForCheck, CheckError, CheckNeedSelect, CheckOver,
                StopResource, JoinResource, StopExecutor, JoinExecutor, Wait
  <1>9. CASE UNCHANGED vars
    BY <1>0, <1>9 DEF vars
  <1> QED BY <1>0, <1>1, <1>2, <1>3, <1>4, <1>5, <1>6, <1>7, <1>8, <1>9 DEF Next, Returned

\* The only step that sets Finished, for fewer executors than needSelect_ has
\* bits: noWorkingJob is then the mask of all executors.
LEMMA FinishedStep ==
  ASSUME IInv, CheckNeedSelect, N < IntWidth, status' = "Finished", status # "Finished"
  PROVE  candidate = <<>> /\ Queued = {} /\ InHand = {}
  <1>1. pc[Main] = "checkSelect" /\ needSelect = Executors
    BY DEF CheckNeedSelect, NoWorkingJob
  <1>2. candidate = <<>> /\ Queued = {}
    BY <1>1, ZeroMeansEmpty DEF IInv, CheckedUnderLock
  <1>3. \A e \in Executors : working[e] = NoJob
    BY <1>1 DEF IInv, ExecutorsConsistent
  <1> QED BY <1>2, <1>3 DEF InHand

\* With nothing queued and nothing in hand, selectReadyJob() finds nothing.
LEMMA SelectNothing ==
  ASSUME IInv, SelectReadyJob, candidate = <<>>, Queued = {}, InHand = {}
  PROVE  candidate' = <<>> /\ Queued' = {} /\ InHand' = {}
  <1>1. InHand' = InHand /\ UNCHANGED <<created, done>>
    BY DEF SelectReadyJob, jobVars, InHand
  <1>2. JobsConserved' /\ candidate' \in Seq(Jobs)
    BY QueueSelect, TypeStep DEF QueueInv, Next, ResourceStep, TypeOK
  <1>3. Range(candidate) = {}
    BY EmptySeq DEF Range
  <1>4. done = 1 .. created
    BY <1>3 DEF IInv, QueueInv, JobsConserved
  <1>5. Range(candidate') = {} /\ Queued' = {}
    BY <1>1, <1>2, <1>4 DEF JobsConserved
  <1>6. candidate' = <<>>
    <2>1. Range(candidate') = {candidate'[i] : i \in 1 .. Len(candidate')}
      BY <1>2, RangeOfQueue
    <2>2. Len(candidate') \in Nat /\ (Len(candidate') # 0 => 1 \in 1 .. Len(candidate'))
      BY <1>2, LenProperties
    <2>3. Len(candidate') = 0
      BY <2>1, <2>2, <1>5
    <2> QED BY <2>3, <1>2, EmptySeq
  <1> QED BY <1>1, <1>5, <1>6

LEMMA NothingLeftStep ==
  ASSUME IInv, NothingLeft, [Next]_vars, N < IntWidth
  PROVE  NothingLeft'
  <1>1. SUFFICES ASSUME status' = "Finished"
                 PROVE  candidate' = <<>> /\ Queued' = {} /\ InHand' = {}
    BY DEF NothingLeft
  <1>2. CASE status # "Finished"
    <2>1. CheckNeedSelect
      BY <1>1, <1>2 DEF Next, Returned, vars, MainStep, WaitForCheck, CheckError, CheckCandidate,
         CheckReadyCount, CheckOver, StopResource, JoinResource, StopExecutor, JoinExecutor,
         ResourceStep, WaitForRequest, ResourceReadsStatus, TestNeedSelect, SelectReadyJob,
         NotifyExecutor, RequestStatusCheck, WaitStatusCheckOver,
         ExecutorStep, ReadStatus, GetReadyJob, GetNoJob, PushJobs, JobDone, JobFails,
         ReportError, BecomeIdle, AskForJob, WaitForJob, BecomeBusy
    <2>2. candidate = <<>> /\ Queued = {} /\ InHand = {}
      BY <2>1, <1>1, <1>2, FinishedStep
    <2> QED BY <2>1, <2>2 DEF CheckNeedSelect, queues, jobVars, Queued, InHand
  <1>3. CASE status = "Finished"
    <2>1. candidate = <<>> /\ Queued = {} /\ InHand = {}
      BY <1>3 DEF NothingLeft
    <2>2. ASSUME NEW e \in Executors, GetReadyJob(e) PROVE FALSE
      <3>1. Range(ready[e]) = {} BY <2>1 DEF Queued
      <3>2. ready[e] \in Seq(Jobs) /\ ready[e] # <<>> BY <2>2, QueueFacts DEF GetReadyJob
      <3>3. Range(ready[e]) = {ready[e][i] : i \in 1 .. Len(ready[e])}
        BY <3>2, RangeOfQueue
      <3>4. 1 \in 1 .. Len(ready[e])
        BY <3>2, EmptySeq, LenProperties
      <3> QED BY <3>1, <3>3, <3>4
    <2>3. ASSUME NEW e \in Executors, PushJobs(e) \/ JobDone(e) PROVE FALSE
      <3>1. working[e] # NoJob
        BY <2>3 DEF PushJobs, JobDone, IInv, ExecutorsConsistent
      <3> QED BY <3>1, <2>1 DEF InHand
    <2>4. CASE SelectReadyJob
      BY <2>1, <2>4, SelectNothing
    <2>5. CASE UNCHANGED <<queues, jobVars>>
      BY <2>1, <2>5 DEF queues, jobVars, Queued, InHand
    <2>6. ASSUME NEW e \in Executors, ExecutorStep(e)
          PROVE  UNCHANGED <<queues, jobVars>>
      BY <2>2, <2>3, <2>6 DEF ExecutorStep, ReadStatus, GetNoJob, JobFails, ReportError,
                  BecomeIdle, AskForJob, WaitForJob, BecomeBusy
    <2>7. ASSUME ResourceStep PROVE SelectReadyJob \/ UNCHANGED <<queues, jobVars>>
      BY <2>7 DEF ResourceStep, WaitForRequest, ResourceReadsStatus, TestNeedSelect,
                  NotifyExecutor, RequestStatusCheck, WaitStatusCheckOver
    <2>8. ASSUME MainStep \/ UNCHANGED vars PROVE UNCHANGED <<queues, jobVars>>
      BY <2>8 DEF MainStep, WaitForCheck, CheckError, CheckCandidate, CheckReadyCount,
                  CheckNeedSelect, CheckOver, StopResource, JoinResource, StopExecutor,
                  JoinExecutor, vars
    <2> QED BY <2>4, <2>5, <2>6, <2>7, <2>8 DEF Next, Returned
  <1> QED BY <1>2, <1>3

-----------------------------------------------------------------------------
\* The inductive invariant holds for every number of executors.
THEOREM Invariance == Spec => []IInv
  <1>1. Init => IInv
    BY InitIInv
  <1>2. IInv /\ [Next]_vars => IInv'
    BY TypeStep, QueueStep, ConsistentStep, LockStep DEF IInv
  <1> QED BY <1>1, <1>2, PTL DEF Spec

\* The types are right, whatever the executors do (ExecutorPool.cpp).
THEOREM TypeCorrect == Spec => []TypeOK
  <1>1. IInv => TypeOK
    BY DEF IInv
  <1> QED BY <1>1, Invariance, PTL

\* No job is lost, duplicated or run twice between the push of a job and the
\* end of its process() (selectReadyJob, getReadyJob, mainRunner).
THEOREM JobsAreConserved == Spec => []JobsConserved
  <1>1. IInv => JobsConserved
    BY DEF IInv, QueueInv
  <1> QED BY <1>1, Invariance, PTL

\* readyJobCount_, changed under two different locks (getReadyJob,
\* selectReadyJob), is always the number of jobs in the ready queues.
THEOREM CountIsExact == Spec => []CountMatchesQueues
  <1>1. IInv => CountMatchesQueues
    BY DEF IInv, QueueInv
  <1> QED BY <1>1, Invariance, PTL

\* The jobs reach every executor in the order in which they were pushed
\* (selectReadyJob), so that a job never waits behind one that needs it.
THEOREM OrderIsKept == Spec => []FirstComeFirstServed
  <1>1. IInv => FirstComeFirstServed
    BY DEF IInv, QueueInv
  <1> QED BY <1>1, Invariance, PTL

\* With at most IntWidth - 1 executors, the three reads of the test for the
\* end in executorController() are as good as one read of the whole pool.
THEOREM TestIsSound ==
  ASSUME N < IntWidth
  PROVE  Spec => []TerminationTestSound
  <1>1. Init => NothingLeft
    BY DEF Init, NothingLeft
  <1>2. IInv /\ NothingLeft /\ [Next]_vars => NothingLeft'
    BY NothingLeftStep
  <1>3. IInv /\ NothingLeft => TerminationTestSound
    BY DEF IInv, TerminationTestSound
  <1> QED BY <1>1, <1>2, <1>3, Invariance, PTL DEF Spec

\* With at most IntWidth - 1 executors, executorController() reports Finished
\* only when every job that was ever pushed has been processed without error.
THEOREM FinishedIsDone ==
  ASSUME N < IntWidth
  PROVE  Spec => []FinishedMeansDone
  <1>1. IInv /\ TerminationTestSound => FinishedMeansDone
    <2>1. SUFFICES ASSUME IInv, NothingLeft, status = "Finished" PROVE done = 1 .. created
      BY DEF FinishedMeansDone, TerminationTestSound
    <2>2. candidate = <<>> /\ Queued = {} /\ InHand = {}
      BY <2>1 DEF NothingLeft
    <2>3. Range(candidate) = {}
      <3>1. Range(candidate) = {candidate[i] : i \in 1 .. Len(candidate)}
        BY <2>1, QueueFacts, RangeOfQueue
      <3> QED BY <3>1, <2>2, EmptySeq
    <2> QED BY <2>1, <2>2, <2>3 DEF IInv, QueueInv, JobsConserved
  <1> QED BY <1>1, Invariance, TestIsSound, PTL

-----------------------------------------------------------------------------
(* The scheduler implements the bag of work: every step of ExecutorPool is   *)
(* a step of WorkPool or leaves the bag alone.                               *)

\* status_ is written once, by a main thread that then leaves its loop.
StatusOnce ==
  status # "Running" =>
    pc[Main] \notin {"waitCheck", "asleepCheck", "checkError", "checkCandidate",
                     "checkReady", "checkSelect"}

LEMMA StatusOnceStep ==
  ASSUME IInv, StatusOnce, [Next]_vars
  PROVE  StatusOnce'
  <1> USE ThreadFacts DEF StatusOnce, Goto, IInv, TypeOK
  <1>1. ASSUME NEW e \in Executors, ExecutorStep(e)
        PROVE  UNCHANGED status /\ pc'[Main] = pc[Main]
    BY <1>1 DEF ExecutorStep, ReadStatus, GetReadyJob, GetNoJob, PushJobs, JobDone,
                JobFails, ReportError, BecomeIdle, AskForJob, WaitForJob, BecomeBusy, Wait
  <1>2. ASSUME ResourceStep
        PROVE  UNCHANGED status /\ pc'[Main] = pc[Main]
    BY <1>2 DEF ResourceStep, WaitForRequest, ResourceReadsStatus, TestNeedSelect,
                SelectReadyJob, NotifyExecutor, RequestStatusCheck, WaitStatusCheckOver, Wait
  <1>3. CASE MainStep
    BY <1>3 DEF MainStep, WaitForCheck, CheckError, CheckCandidate, CheckReadyCount,
                CheckNeedSelect, CheckOver, StopResource, JoinResource, StopExecutor,
                JoinExecutor, Wait
  <1>4. CASE UNCHANGED vars
    BY <1>4 DEF vars
  <1> QED BY <1>1, <1>2, <1>3, <1>4 DEF Next, Returned

Todo == Range(candidate) \cup Queued

\* The jobs not yet taken are those that are neither in hand nor done.
LEMMA TodoIsTheRest ==
  ASSUME IInv
  PROVE  /\ Todo = (1 .. created) \ (InHand \cup done)
         /\ Todo \cap (InHand \cup done) = {}
  BY DEF IInv, QueueInv, JobsConserved, Todo

LEMMA InitRefines == Init => Pool!Init
  <1> SUFFICES ASSUME Init PROVE Pool!Init OBVIOUS
  <1>1. IInv BY InitIInv
  <1>2. InHand = {} /\ done = {} /\ created = InitJobs
    BY DEF Init, InHand
  <1>3. Range(candidate) \cup Queued = 1 .. InitJobs
    BY <1>1, <1>2 DEF IInv, QueueInv, JobsConserved
  <1>4. Failed = {}
    BY DEF Failed, Init
  <1> QED BY <1>2, <1>3, <1>4 DEF Pool!Init, Init, NoJob

-----------------------------------------------------------------------------
(* One lemma per kind of step.                                               *)

\* Steps that change nothing the bag of work consists of.
LEMMA StutterStep ==
  ASSUME UNCHANGED <<candidate, ready, working, done, created, status>>,
         \A e \in Executors : (executorStatus'[e] = "Error") <=> (executorStatus[e] = "Error")
  PROVE  UNCHANGED Pool!vars
  <1>1. Queued' = Queued
    BY DEF Queued
  <1>2. Failed' = Failed
    BY DEF Failed
  <1> QED BY <1>1, <1>2 DEF Pool!vars

LEMMA FailedJobs ==
  ASSUME IInv, NEW e \in Executors, pc[e] = "run"
  PROVE  working[e] # NoJob /\ working[e] \notin Failed
  <1>1. working[e] # NoJob /\ executorStatus[e] # "Error"
    BY DEF IInv, ExecutorsConsistent
  <1>2. \A f \in Executors : working[f] = working[e] => f = e
    BY <1>1 DEF IInv, QueueInv, JobsConserved
  <1> QED BY <1>1, <1>2 DEF Failed

LEMMA GetRefines ==
  ASSUME IInv, IInv', NEW e \in Executors, GetReadyJob(e)
  PROVE  Pool!Take(e)
  <1> DEFINE j == Head(ready[e])
  <1>0. working[e] = NoJob
    BY DEF IInv, ExecutorsConsistent, GetReadyJob
  <1>1. /\ working' = [working EXCEPT ![e] = j]
        /\ UNCHANGED <<candidate, created, done, executorStatus, status>>
    BY <1>0 DEF GetReadyJob
  <1>3. j \in Queued
    <2>1. /\ Jobs \subseteq Int /\ ready[e] \in Seq(Jobs)
          /\ ready[e] # <<>> /\ Ascending(ready[e])
      BY QueueFacts DEF GetReadyJob, IInv, QueueInv, FirstComeFirstServed
    <2>2. j \in Range(ready[e])
      BY <2>1, TakeHead
    <2> QED BY <2>2 DEF Queued
  <1>4. j \in Todo /\ j # NoJob
    BY <1>3, QueueFacts DEF Todo, NoJob, IInv, TypeOK
  <1> HIDE DEF j
  <1>5. InHand' = InHand \cup {j}
    <2>1. working \in [Executors -> Jobs \cup {NoJob}]
      BY DEF IInv, TypeOK
    <2>2. working'[e] = j /\ \A f \in Executors : f # e => working'[f] = working[f]
      BY <1>1, <2>1
    <2>3. /\ \A k : k \in InHand' <=> k # NoJob /\ \E f \in Executors : k = working'[f]
          /\ \A k : k \in InHand <=> k # NoJob /\ \E f \in Executors : k = working[f]
      BY DEF InHand
    <2> QED BY <2>2, <2>3, <1>0, <1>4
  <1>6. Todo' = Todo \ {j}
    <2>1. Todo' = (1 .. created') \ (InHand' \cup done')
      BY DEF IInv, QueueInv, JobsConserved, Todo
    <2>2. Todo = (1 .. created) \ (InHand \cup done)
      BY TodoIsTheRest
    <2> QED BY <2>1, <2>2, <1>1, <1>5
  <1>7. Failed' = Failed
    <2>1. \A f \in Executors : executorStatus[f] = "Error" => f # e
      BY DEF IInv, ExecutorsConsistent, GetReadyJob
    <2>2. \A f \in Executors : f # e => working'[f] = working[f]
      BY <1>1 DEF IInv, TypeOK
    <2> QED BY <2>1, <2>2, <1>1 DEF Failed
  <1> QED BY <1>1, <1>0, <1>4, <1>6, <1>7 DEF Pool!Take, Todo, NoJob

LEMMA PushRefines ==
  ASSUME IInv, IInv', NEW e \in Executors, PushJobs(e)
  PROVE  Pool!Add(e)
  <1>1. PICK n \in 1 .. MaxJobs - created : created' = created + n
    BY DEF PushJobs
  <1>2. UNCHANGED <<working, done, status, executorStatus>> /\ InHand' = InHand /\ Failed' = Failed
    BY DEF PushJobs, InHand, Failed
  <1>3. working[e] # NoJob /\ working[e] \notin Failed
    BY FailedJobs DEF PushJobs
  <1>4. Todo' = Todo \cup (created + 1 .. created + n)
    <2>1. Todo' = (1 .. created') \ (InHand' \cup done')
      BY DEF IInv, QueueInv, JobsConserved, Todo
    <2>2. Todo = (1 .. created) \ (InHand \cup done) /\ InHand \cup done \subseteq 1 .. created
      BY DEF IInv, QueueInv, JobsConserved, Todo
    <2>3. created \in Nat /\ n \in Nat
      BY DEF IInv, TypeOK
    <2>4. /\ 1 .. created + n = (1 .. created) \cup (created + 1 .. created + n)
          /\ (1 .. created) \cap (created + 1 .. created + n) = {}
      BY <2>3
    <2> QED BY <2>1, <2>2, <2>4, <1>1, <1>2
  <1> QED BY <1>1, <1>2, <1>3, <1>4 DEF Pool!Add, Todo, NoJob

LEMMA DoneRefines ==
  ASSUME IInv, NEW e \in Executors, JobDone(e)
  PROVE  Pool!Succeed(e)
  <1>1. /\ UNCHANGED <<candidate, ready, created, executorStatus, status>>
        /\ working' = [working EXCEPT ![e] = NoJob]
        /\ done' = done \cup {working[e]}
    BY DEF JobDone, queues
  <1>2. working[e] # NoJob /\ working[e] \notin Failed
    BY FailedJobs DEF JobDone
  <1>3. Todo' = Todo
    BY <1>1 DEF Todo, Queued
  <1>4. Failed' = Failed
    <2>1. \A f \in Executors : executorStatus[f] = "Error" => f # e
      BY <1>2 DEF Failed
    <2>2. \A f \in Executors : f # e => working'[f] = working[f]
      BY <1>1 DEF IInv, TypeOK
    <2> QED BY <2>1, <2>2, <1>1 DEF Failed
  <1> QED BY <1>1, <1>2, <1>3, <1>4 DEF Pool!Succeed, Todo, NoJob

LEMMA FailRefines ==
  ASSUME IInv, NEW e \in Executors, JobFails(e)
  PROVE  Pool!Fail(e)
  <1>1. /\ UNCHANGED <<candidate, ready, working, created, done, status>>
        /\ executorStatus' = [executorStatus EXCEPT ![e] = "Error"]
        /\ working[e] \in Failing
    BY DEF JobFails, queues, jobVars
  <1>2. working[e] \notin Failed
    BY FailedJobs DEF JobFails
  <1>3. Todo' = Todo
    BY <1>1 DEF Todo, Queued
  <1>4. Failed' = Failed \cup {working[e]}
    <2>1. /\ executorStatus'[e] = "Error"
          /\ \A f \in Executors : f # e => executorStatus'[f] = executorStatus[f]
      BY <1>1 DEF IInv, TypeOK
    <2> QED BY <2>1, <1>1 DEF Failed
  <1> QED BY <1>1, <1>2, <1>3, <1>4 DEF Pool!Fail, Todo

\* selectReadyJob() moves jobs inside the bag.
LEMMA SelectStutters ==
  ASSUME IInv, IInv', SelectReadyJob
  PROVE  UNCHANGED Pool!vars
  <1>1. UNCHANGED <<working, done, created, executorStatus, status>> /\ InHand' = InHand /\ Failed' = Failed
    BY DEF SelectReadyJob, jobVars, InHand, Failed
  <1>2. Todo' = (1 .. created') \ (InHand' \cup done')
    BY DEF IInv, QueueInv, JobsConserved, Todo
  <1>3. Todo = (1 .. created) \ (InHand \cup done)
    BY TodoIsTheRest
  <1>4. Todo' = Todo
    BY <1>1, <1>2, <1>3
  <1> QED BY <1>1, <1>4 DEF Pool!vars, Todo

LEMMA FinishedRefines ==
  ASSUME IInv, StatusOnce, CheckNeedSelect, N < IntWidth
  PROVE  Pool!ReportFinished \/ UNCHANGED Pool!vars
  <1>1. UNCHANGED <<candidate, ready, working, done, created, executorStatus>>
    BY DEF CheckNeedSelect, queues, jobVars
  <1>2. status = "Running" /\ (status' = "Finished" \/ UNCHANGED status)
    BY DEF StatusOnce, CheckNeedSelect, IInv, TypeOK
  <1>3. CASE UNCHANGED status
    BY <1>1, <1>3, StutterStep
  <1>4. CASE status' = "Finished" /\ ~UNCHANGED status
    <2>1. candidate = <<>> /\ Queued = {} /\ InHand = {}
      BY <1>2, <1>4, FinishedStep
    <2>2. Todo = {}
      BY <2>1, EmptySeq DEF Todo, Range
    <2>3. \A e \in Executors : working[e] = 0
      BY <2>1 DEF InHand, NoJob
    <2>4. Todo' = Todo /\ Failed' = Failed
      BY <1>1 DEF Todo, Queued, Failed
    <2> QED BY <1>1, <1>2, <1>4, <2>2, <2>3, <2>4 DEF Pool!ReportFinished, Todo
  <1> QED BY <1>2, <1>3, <1>4

LEMMA ErrorRefines ==
  ASSUME IInv, StatusOnce, CheckError
  PROVE  Pool!ReportError \/ UNCHANGED Pool!vars
  <1>1. UNCHANGED <<candidate, ready, working, done, created, executorStatus>>
    BY DEF CheckError, queues, jobVars
  <1>2. status = "Running"
    BY DEF StatusOnce, CheckError, IInv, TypeOK
  <1>3. CASE \E e \in Executors : executorStatus[e] = "Error"
    <2>1. Failed # {} /\ status' = "Error"
      BY <1>3 DEF CheckError, Failed
    <2>2. Todo' = Todo /\ Failed' = Failed
      BY <1>1 DEF Todo, Queued, Failed
    <2> QED BY <1>1, <1>2, <2>1, <2>2 DEF Pool!ReportError, Todo
  <1>4. CASE ~\E e \in Executors : executorStatus[e] = "Error"
    <2>1. UNCHANGED status BY <1>4 DEF CheckError
    <2> QED BY <1>1, <2>1, StutterStep
  <1> QED BY <1>3, <1>4

LEMMA StepRefines ==
  ASSUME IInv, IInv', StatusOnce, [Next]_vars, N < IntWidth
  PROVE  [Pool!Next]_(Pool!vars)
  <1>1. ASSUME NEW e \in Executors, ExecutorStep(e) PROVE [Pool!Next]_(Pool!vars)
    <2>1. CASE GetReadyJob(e) BY <2>1, GetRefines DEF Pool!Next
    <2>2. CASE PushJobs(e) BY <2>2, PushRefines DEF Pool!Next
    <2>3. CASE JobDone(e) BY <2>3, DoneRefines DEF Pool!Next
    <2>4. CASE JobFails(e) BY <2>4, FailRefines DEF Pool!Next
    <2>5. CASE BecomeIdle(e) \/ BecomeBusy(e)
      <3>1. executorStatus[e] # "Error" /\ executorStatus'[e] # "Error"
        BY <2>5 DEF IInv, TypeOK, ExecutorsConsistent, BecomeIdle, BecomeBusy
      <3>2. \A f \in Executors : f # e => executorStatus'[f] = executorStatus[f]
        BY <2>5 DEF IInv, TypeOK, BecomeIdle, BecomeBusy
      <3>3. UNCHANGED <<candidate, ready, working, done, created, status>>
        BY <2>5 DEF BecomeIdle, BecomeBusy, queues, jobVars
      <3> QED BY <3>1, <3>2, <3>3, StutterStep
    <2>6. CASE ReadStatus(e) \/ GetNoJob(e) \/ ReportError(e) \/ AskForJob(e) \/ WaitForJob(e)
      <3>1. UNCHANGED <<candidate, ready, working, done, created, status, executorStatus>>
        BY <2>6 DEF ReadStatus, GetNoJob, ReportError, AskForJob, WaitForJob, queues, jobVars
      <3> QED BY <3>1, StutterStep
    <2> QED BY <1>1, <2>1, <2>2, <2>3, <2>4, <2>5, <2>6 DEF ExecutorStep
  <1>2. CASE ResourceStep
    <2>1. CASE SelectReadyJob BY <2>1, SelectStutters
    <2>2. CASE ~SelectReadyJob
      <3>1. UNCHANGED <<candidate, ready, working, done, created, status, executorStatus>>
        BY <1>2, <2>2 DEF ResourceStep, WaitForRequest, ResourceReadsStatus, TestNeedSelect,
             NotifyExecutor, RequestStatusCheck, WaitStatusCheckOver, queues, jobVars
      <3> QED BY <3>1, StutterStep
    <2> QED BY <2>1, <2>2
  <1>3. CASE MainStep
    <2>1. CASE CheckNeedSelect BY <2>1, FinishedRefines DEF Pool!Next
    <2>2. CASE CheckError BY <2>2, ErrorRefines DEF Pool!Next
    <2>3. CASE ~CheckNeedSelect /\ ~CheckError
      <3>1. UNCHANGED <<candidate, ready, working, done, created, status, executorStatus>>
        BY <1>3, <2>3 DEF MainStep, WaitForCheck, CheckCandidate, CheckReadyCount, CheckOver,
             StopResource, JoinResource, StopExecutor, JoinExecutor, queues, jobVars
      <3> QED BY <3>1, StutterStep
    <2> QED BY <2>1, <2>2, <2>3
  <1>4. CASE UNCHANGED vars
    <2>1. UNCHANGED <<candidate, ready, working, done, created, status, executorStatus>>
      BY <1>4 DEF vars, queues, jobVars
    <2> QED BY <2>1, StutterStep
  <1> QED BY <1>1, <1>2, <1>3, <1>4 DEF Next, Returned

-----------------------------------------------------------------------------
\* With at most IntWidth - 1 executors the pool (ExecutorPool.cpp with
\* getReadyJob and selectReadyJob) implements the safety part of WorkPool.
THEOREM PoolImplementsWorkPool ==
  ASSUME N < IntWidth
  PROVE  Spec => WorkPoolSafe
  <1>1. Init => Pool!Init /\ StatusOnce
    BY InitRefines DEF Init, StatusOnce
  <1>2. IInv /\ StatusOnce /\ [Next]_vars => StatusOnce'
    BY StatusOnceStep
  <1>3. IInv /\ IInv' /\ StatusOnce /\ [Next]_vars => [Pool!Next]_(Pool!vars)
    BY StepRefines
  <1> QED BY <1>1, <1>2, <1>3, Invariance, PTL DEF Spec, WorkPoolSafe, Pool!SafeSpec

-----------------------------------------------------------------------------
(***************************************************************************)
(* Signals.  The semaphores of the scheduler lose no signal: no executor   *)
(* sleeps on a job, no candidate waits for a sleeper, and no answer is     *)
(* mistaken for a later one.  Each of the four invariants below follows a  *)
(* signal from the moment it is owed.                                      *)
(***************************************************************************)


\* A notification of executor e is owed, sent, or kept as a free token.
Expected(e) ==
  \/ e \in wakeupIDs
  \/ HasWakeup(executorWakeup[e])
  \/ pc[e] # "asleep" /\ executorWakeup[e].count > 0

\* Whoever sleeps is counted, so that the next signal() leaves a wakeup.
SleepersCounted ==
  /\ pc[Resource] # "notify" => wakeupIDs = {}
  /\ \A e \in Executors :
       pc[e] = "asleep" => executorWakeup[e].count < 0 \/ HasWakeup(executorWakeup[e])

\* An executor that has found its ready queue empty is told of new jobs in it.
JobsAnnounced ==
  \A e \in Executors :
    pc[e] \in {"idle", "askForJob", "wait", "asleep"} => ready[e] = <<>> \/ Expected(e)

\* The resource thread is going to look at the candidates.
Requested ==
  \/ HasWakeup(needReadyJob) \/ needReadyJob.count > 0
  \/ pc[Resource] \in {"readStatus", "testSelect", "select"}

Stuck(e) == pc[e] \in {"wait", "asleep"} /\ ~Expected(e)

\* Candidates are left where they are only while no executor depends on them.
RequestsKept ==
  /\ pc[Resource] = "asleepRequest" => needReadyJob.count < 0 \/ HasWakeup(needReadyJob)
  /\ pc[Resource] # "exited" /\ candidate # <<>> /\ ~Requested =>
       \A e \in Executors : ~Stuck(e)

\* A failed executor has called for a status check.
Reported == \E e \in Executors : executorStatus[e] = "Error" /\ pc[e] = "exited"

Sem(c, w) == [count |-> c, wakeup |-> w]

\* The resource thread has no question open, waits for its answer, has it;
Outside == pc[Resource] \notin {"waitOver", "asleepOver"} /\ statusCheckOver = Sem(0, 0)
Unanswered ==
  \/ pc[Resource] = "waitOver" /\ statusCheckOver = Sem(0, 0)
  \/ pc[Resource] = "asleepOver" /\ statusCheckOver = Sem(-1, 0)
Answered ==
  \/ pc[Resource] = "waitOver" /\ statusCheckOver = Sem(1, 0)
  \/ pc[Resource] = "asleepOver" /\ statusCheckOver = Sem(0, 1)

\* the main thread has no call, has been called, is checking.
Awaiting ==
  \/ pc[Main] = "waitCheck" /\ needStatusCheck = Sem(0, 0)
  \/ pc[Main] = "asleepCheck" /\ needStatusCheck = Sem(-1, 0)
Called ==
  \/ pc[Main] = "waitCheck" /\ needStatusCheck = Sem(1, 0)
  \/ pc[Main] = "asleepCheck" /\ needStatusCheck = Sem(0, 1)
  \/ pc[Main] = "checkError" /\ needStatusCheck = Sem(0, 0)
Checking == pc[Main] \in {"checkCandidate", "checkReady", "checkSelect", "checkOver"}

\* While the pool runs, a check is the answer to exactly one open question; only
\* the call of a failed executor comes without a question, and it ends the run.
AnswersMatch ==
  status = "Running" =>
    /\ Checking => Unanswered
    /\ ~Checking => /\ pc[Main] \in {"waitCheck", "asleepCheck", "checkError"}
                    /\ Outside \/ Unanswered \/ Answered
    /\ ~Reported => \/ Checking /\ needStatusCheck = Sem(0, 0)
                    \/ Called /\ Unanswered
                    \/ Awaiting /\ (Outside \/ Answered)

SignalsKept == SleepersCounted /\ JobsAnnounced /\ RequestsKept /\ AnswersMatch

-----------------------------------------------------------------------------
\* Who sleeps is counted by the semaphore or has a wakeup, and wakeupExecutorID is
\* empty outside its loop.
LEMMA SleepersStep ==
  ASSUME IInv, SleepersCounted, [Next]_vars
  PROVE  SleepersCounted'
  <1> USE ThreadFacts DEF SleepersCounted, Goto, queues, semaphores, jobVars
  <1>0. TypeOK /\ pc \in [Threads -> Labels] /\ executorWakeup \in [Executors -> SemState]
    BY DEF IInv, TypeOK
  <1>1. ASSUME NEW e \in Executors, PushJobs(e) PROVE SleepersCounted'
    BY <1>0, <1>1 DEF PushJobs
  <1>2. ASSUME NEW e \in Executors, WaitForJob(e) PROVE SleepersCounted'
    <2> USE DEF SemState, HasWakeup, CountedOut, Blocks, TakeWakeup, EnterWait,
          Signal, SignalAll, CountAfterSignal, Wait, AfterWait
    <2>1. /\ executorWakeup[e] \in SemState /\ UNCHANGED wakeupIDs
          /\ pc'[Resource] = pc[Resource]
          /\ \A f \in Executors \ {e} :
               pc'[f] = pc[f] /\ executorWakeup'[f] = executorWakeup[f]
      BY <1>0, <1>2 DEF TypeOK, WaitForJob
    <2>2. CASE pc[e] = "wait"
      <3>1. /\ pc'[e] = (IF Blocks(executorWakeup[e]) THEN "asleep" ELSE "busy")
            /\ executorWakeup'[e] = EnterWait(executorWakeup[e])
        BY <1>0, <1>2, <2>2 DEF TypeOK, WaitForJob
      <3>2. pc'[e] = "asleep" => executorWakeup'[e].count < 0
        BY <2>1, <3>1
      <3> QED BY <2>1, <3>2
    <2>3. CASE pc[e] = "asleep"
      <3>1. pc'[e] = "busy"
        BY <1>0, <1>2, <2>3 DEF TypeOK, WaitForJob
      <3> QED BY <2>1, <3>1
    <2> QED BY <1>2, <2>2, <2>3 DEF WaitForJob
  <1>3. ASSUME NEW e \in Executors,
              ReadStatus(e) \/ GetReadyJob(e) \/ GetNoJob(e)
        PROVE  SleepersCounted'
    BY <1>0, <1>3 DEF ReadStatus, GetReadyJob, GetNoJob
  <1>4. ASSUME NEW e \in Executors,
              JobDone(e) \/ JobFails(e) \/ ReportError(e)
        PROVE  SleepersCounted'
    BY <1>0, <1>4 DEF JobDone, JobFails, ReportError
  <1>5. ASSUME NEW e \in Executors,
              BecomeIdle(e) \/ AskForJob(e) \/ BecomeBusy(e)
        PROVE  SleepersCounted'
    BY <1>0, <1>5 DEF BecomeIdle, AskForJob, BecomeBusy
  <1>6. CASE SelectReadyJob
    BY <1>0, <1>6 DEF SelectReadyJob
  <1>7. CASE NotifyExecutor
    <2> USE DEF SemState, HasWakeup, CountedOut, Blocks, TakeWakeup, EnterWait,
          Signal, SignalAll, CountAfterSignal, Wait, AfterWait
    <2>1. PICK e \in wakeupIDs :
            executorWakeup' = [executorWakeup EXCEPT ![e] = Signal(@, "SignalFolded")]
      BY <1>7 DEF NotifyExecutor
    <2>2. /\ pc' = [pc EXCEPT ![Resource] =
                      IF wakeupIDs' = {} THEN "waitRequest" ELSE "notify"]
          /\ \A f \in Executors : executorWakeup[f] \in SemState
      BY <1>0, <1>7 DEF TypeOK, NotifyExecutor
    <2>3. ASSUME NEW f \in Executors, pc'[f] = "asleep"
          PROVE  executorWakeup'[f].count < 0 \/ HasWakeup(executorWakeup'[f])
      <3>1. executorWakeup[f].count < 0 \/ HasWakeup(executorWakeup[f])
        BY <1>0, <2>2, <2>3 DEF TypeOK
      <3>2. \/ executorWakeup'[f] = executorWakeup[f]
            \/ executorWakeup'[f] = Signal(executorWakeup[f], "SignalFolded")
        BY <1>0, <2>1 DEF TypeOK
      <3> QED BY <2>2, <3>1, <3>2, IntMaxType
    <2>4. pc'[Resource] # "notify" => wakeupIDs' = {}
      BY <1>0, <2>2 DEF TypeOK
    <2> QED BY <2>3, <2>4
  <1>8. CASE WaitForRequest \/ ResourceReadsStatus \/ TestNeedSelect
    BY <1>0, <1>8, IntMaxType DEF WaitForRequest, ResourceReadsStatus, TestNeedSelect,
          Wait
  <1>9. CASE RequestStatusCheck \/ WaitStatusCheckOver
    BY <1>0, <1>9, IntMaxType DEF RequestStatusCheck, WaitStatusCheckOver, Wait
  <1>10. CASE WaitForCheck
    BY <1>0, <1>10, IntMaxType DEF WaitForCheck, Wait
  <1>11. CASE CheckError
    BY <1>0, <1>11 DEF CheckError
  <1>12. CASE CheckCandidate
    BY <1>0, <1>12 DEF CheckCandidate
  <1>13. CASE CheckReadyCount
    BY <1>0, <1>13 DEF CheckReadyCount
  <1>14. CASE CheckNeedSelect
    BY <1>0, <1>14 DEF CheckNeedSelect
  <1>15. CASE CheckOver
    BY <1>0, <1>15 DEF CheckOver
  <1>16. CASE StopResource
    BY <1>0, <1>16 DEF StopResource
  <1>17. CASE JoinResource
    BY <1>0, <1>17 DEF JoinResource
  <1>18. CASE StopExecutor
    BY <1>0, <1>18, IntMaxType DEF StopExecutor, Signal, CountAfterSignal, SemState,
          HasWakeup
  <1>19. CASE JoinExecutor
    BY <1>0, <1>19 DEF JoinExecutor
  <1>20. CASE UNCHANGED vars
    BY <1>0, <1>20 DEF vars
  <1> QED
    BY <1>1, <1>2, <1>3, <1>4, <1>5, <1>6, <1>7, <1>8, <1>9, <1>10, <1>11, <1>12,
       <1>13, <1>14, <1>15, <1>16, <1>17, <1>18, <1>19, <1>20
    DEF Next, MainStep, ResourceStep, ExecutorStep, Returned

\* A request and its answer take turns.
LEMMA AnswersStep ==
  ASSUME IInv, AnswersMatch, [Next]_vars
  PROVE  AnswersMatch'
  <1> USE ThreadFacts DEF AnswersMatch, Sem, Outside, Unanswered, Answered, Awaiting,
        Called, Checking, Reported, ExecutorsConsistent, Goto, queues, semaphores,
        jobVars
  <1>0. TypeOK /\ ExecutorsConsistent /\ pc \in [Threads -> Labels]
        /\ executorStatus \in [Executors -> {"Idle", "Busy", "Error"}]
    BY DEF IInv, TypeOK
  <1>1. ASSUME NEW e \in Executors, JobFails(e) PROVE AnswersMatch'
    BY <1>0, <1>1 DEF JobFails
  <1>2. ASSUME NEW e \in Executors, ReportError(e) PROVE AnswersMatch'
    BY <1>0, <1>2, IntMaxType DEF ReportError, Signal, CountAfterSignal, SemState,
          HasWakeup
  <1>3. ASSUME NEW e \in Executors, BecomeIdle(e) PROVE AnswersMatch'
    BY <1>0, <1>3 DEF BecomeIdle
  <1>4. ASSUME NEW e \in Executors, WaitForJob(e) PROVE AnswersMatch'
    BY <1>0, <1>4, IntMaxType DEF WaitForJob, Wait
  <1>5. ASSUME NEW e \in Executors, BecomeBusy(e) PROVE AnswersMatch'
    BY <1>0, <1>5 DEF BecomeBusy
  <1>6. ASSUME NEW e \in Executors,
              ReadStatus(e) \/ GetReadyJob(e) \/ GetNoJob(e)
        PROVE  AnswersMatch'
    BY <1>0, <1>6 DEF ReadStatus, GetReadyJob, GetNoJob
  <1>7. ASSUME NEW e \in Executors,
              PushJobs(e) \/ JobDone(e) \/ AskForJob(e)
        PROVE  AnswersMatch'
    BY <1>0, <1>7 DEF PushJobs, JobDone, AskForJob
  <1>8. CASE WaitForRequest
    BY <1>0, <1>8, IntMaxType DEF WaitForRequest, Wait
  <1>9. CASE ResourceReadsStatus
    BY <1>0, <1>9 DEF ResourceReadsStatus
  <1>10. CASE NotifyExecutor
    BY <1>0, <1>10 DEF NotifyExecutor
  <1>11. CASE RequestStatusCheck
    BY <1>0, <1>11, IntMaxType DEF RequestStatusCheck, Signal, CountAfterSignal,
          SemState, HasWakeup
  <1>12. CASE WaitStatusCheckOver
    <2> USE DEF SemState, HasWakeup, CountedOut, Blocks, TakeWakeup, EnterWait,
          Signal, SignalAll, CountAfterSignal, Wait, AfterWait
    <2>1. /\ UNCHANGED <<status, executorStatus, needStatusCheck>>
          /\ \A t \in Threads \ {Resource} : pc'[t] = pc[t]
      BY <1>0, <1>12 DEF TypeOK, WaitStatusCheckOver
    <2>2. CASE pc[Resource] = "waitOver"
      <3>1. /\ pc'[Resource] = (IF Blocks(statusCheckOver) THEN "asleepOver" ELSE "rereadStatus")
            /\ statusCheckOver' = EnterWait(statusCheckOver)
        BY <1>0, <1>12, <2>2 DEF TypeOK, WaitStatusCheckOver
      <3>2. /\ Unanswered => Unanswered'
            /\ Answered => Outside'
            /\ ~Outside
        BY <2>2, <3>1
      <3> QED BY <2>1, <3>2 DEF ExecutorsConsistent
    <2>3. CASE pc[Resource] = "asleepOver"
      <3>1. /\ pc'[Resource] = "rereadStatus" /\ HasWakeup(statusCheckOver)
            /\ statusCheckOver' = TakeWakeup(statusCheckOver)
        BY <1>0, <1>12, <2>3 DEF TypeOK, WaitStatusCheckOver
      <3>2. /\ ~Unanswered
            /\ Answered => Outside'
            /\ ~Outside
        BY <2>3, <3>1
      <3> QED BY <2>1, <3>2
    <2> QED BY <1>12, <2>2, <2>3 DEF WaitStatusCheckOver
  <1>13. CASE TestNeedSelect \/ SelectReadyJob
    BY <1>0, <1>13 DEF TestNeedSelect, SelectReadyJob
  <1>14. CASE WaitForCheck
    <2> USE DEF SemState, HasWakeup, CountedOut, Blocks, TakeWakeup, EnterWait,
          Signal, SignalAll, CountAfterSignal, Wait, AfterWait
    <2>1. /\ UNCHANGED <<status, executorStatus, statusCheckOver>>
          /\ \A t \in Threads \ {Main} : pc'[t] = pc[t]
      BY <1>0, <1>14 DEF TypeOK, WaitForCheck
    <2>2. CASE pc[Main] = "waitCheck"
      <3>1. /\ pc'[Main] = (IF Blocks(needStatusCheck) THEN "asleepCheck" ELSE "checkError")
            /\ needStatusCheck' = EnterWait(needStatusCheck)
        BY <1>0, <1>14, <2>2 DEF TypeOK, WaitForCheck
      <3>2. /\ Awaiting => Awaiting'
            /\ Called => Called'
            /\ ~Checking /\ ~Checking'
        BY <2>2, <3>1
      <3> QED BY <2>1, <3>1, <3>2
    <2>3. CASE pc[Main] = "asleepCheck"
      <3>1. /\ pc'[Main] = "checkError" /\ HasWakeup(needStatusCheck)
            /\ needStatusCheck' = TakeWakeup(needStatusCheck)
        BY <1>0, <1>14, <2>3 DEF TypeOK, WaitForCheck
      <3>2. /\ ~Awaiting
            /\ Called => Called'
            /\ ~Checking /\ ~Checking'
        BY <2>3, <3>1
      <3> QED BY <2>1, <3>1, <3>2
    <2> QED BY <1>14, <2>2, <2>3 DEF WaitForCheck
  <1>15. CASE CheckError
    BY <1>0, <1>15 DEF CheckError
  <1>16. CASE CheckCandidate
    BY <1>0, <1>16 DEF CheckCandidate
  <1>17. CASE CheckReadyCount
    BY <1>0, <1>17 DEF CheckReadyCount
  <1>18. CASE CheckNeedSelect
    BY <1>0, <1>18 DEF CheckNeedSelect
  <1>19. CASE CheckOver
    <2> USE DEF SemState, HasWakeup, CountedOut, Blocks, TakeWakeup, EnterWait,
          Signal, SignalAll, CountAfterSignal, Wait, AfterWait
    <2>1. SUFFICES ASSUME status = "Running" PROVE AnswersMatch'
      BY <1>19 DEF CheckOver
    <2>2. /\ UNCHANGED <<status, executorStatus, needStatusCheck>>
          /\ \A t \in Threads \ {Main} : pc'[t] = pc[t]
          /\ pc'[Main] = "waitCheck" /\ Checking
          /\ statusCheckOver' = Signal(statusCheckOver, "Normal")
      BY <1>0, <2>1, <1>19 DEF TypeOK, CheckOver
    <2>3. Unanswered => Answered'
      BY <2>2, IntMaxType
    <2> QED BY <2>1, <2>2, <2>3
  <1>20. CASE StopResource \/ JoinResource \/ StopExecutor
    BY <1>0, <1>20 DEF StopResource, JoinResource, StopExecutor
  <1>21. CASE JoinExecutor
    BY <1>0, <1>21 DEF JoinExecutor
  <1>22. CASE UNCHANGED vars
    BY <1>0, <1>22 DEF vars
  <1> QED
    BY <1>1, <1>2, <1>3, <1>4, <1>5, <1>6, <1>7, <1>8, <1>9, <1>10, <1>11, <1>12,
       <1>13, <1>14, <1>15, <1>16, <1>17, <1>18, <1>19, <1>20, <1>21, <1>22
    DEF Next, MainStep, ResourceStep, ExecutorStep, Returned

\* An even share of at least as many jobs as there are executors.
LEMMA WholeShare ==
  ASSUME NEW x \in Nat, NEW d \in Nat \ {0}, x >= d
  PROVE  x \div d \in Nat /\ x \div d >= 1
  OBVIOUS

\* selectReadyJob() notifies whoever it gives a job, and it leaves candidates over
\* only when every ready queue has its share.
LEMMA SelectFills ==
  ASSUME IInv, SelectReadyJob, NEW e \in Executors
  PROVE  /\ e \in wakeupIDs' \/ ready'[e] = ready[e]
         /\ candidate' # <<>> => ready'[e] # <<>>
  <1>1. PICK cut \in [0 .. N -> 0 .. Len(candidate)] :
          /\ Fills(cut)
          /\ ready' = [f \in Executors |->
                        ready[f] \o SubSeq(candidate, cut[f] + 1, cut[f + 1])]
          /\ candidate' = SubSeq(candidate, cut[N] + 1, Len(candidate))
          /\ wakeupIDs' = {f \in Executors : cut[f] < cut[f + 1]}
    BY DEF SelectReadyJob
  <1> DEFINE n == Len(candidate)
             a == cut[e]
             b == cut[e + 1]
             c == cut[N]
             part == SubSeq(candidate, a + 1, b)
  <1>2. /\ candidate \in Seq(Jobs) /\ n \in Nat
        /\ ready[e] \in Seq(Jobs) /\ Len(ready[e]) \in Nat
    BY QueueFacts, LenProperties
  <1>3. a \in Nat /\ b \in Nat /\ c \in Nat /\ a <= b /\ b <= c /\ c <= n
    <2>1. e \in 0 .. N /\ e + 1 \in 0 .. N /\ N \in 0 .. N /\ e <= e + 1 /\ e + 1 <= N
      BY NAssumption DEF Executors
    <2>2. \A f, g \in 0 .. N : f <= g => cut[f] <= cut[g]
      BY <1>1, DealtPrefix DEF IInv
    <2>3. a \in 0 .. n /\ b \in 0 .. n /\ c \in 0 .. n
      BY <1>1, <2>1
    <2> HIDE DEF n
    <2>4. a <= b /\ b <= c
      BY <2>1, <2>2
    <2> QED BY <1>2, <2>3, <2>4
  <1>4. part \in Seq(Jobs) /\ Len(part) = b - a
    <2>1. \A i \in a + 1 .. b : candidate[i] \in Jobs
      <3>1. \A i \in 1 .. n : candidate[i] \in Jobs BY <1>2, ElementOfSeq
      <3> HIDE DEF a, b, c, n
      <3> QED BY <3>1, <1>2, <1>3
    <2> HIDE DEF a, b
    <2>2. SubSeq(candidate, a + 1, b) \in Seq(Jobs)
      BY <1>2, <1>3, <2>1, SubSeqProperties
    <2>3. Len(SubSeq(candidate, a + 1, b)) = IF a + 1 <= b THEN b - (a + 1) + 1 ELSE 0
      BY <1>2, <1>3, <2>1, SubSeqProperties
    <2> QED BY <2>2, <2>3, <1>3
  <1>5. ready'[e] = ready[e] \o part /\ Len(ready'[e]) = Len(ready[e]) + (b - a)
    <2>1. ready'[e] = ready[e] \o part BY <1>1
    <2> HIDE DEF a, b, part
    <2>2. Len(ready[e] \o part) = Len(ready[e]) + Len(part)
      BY <1>2, <1>4, ConcatProperties
    <2> QED BY <2>1, <2>2, <1>4
  <1>6. e \in wakeupIDs' \/ ready'[e] = ready[e]
    <2>1. CASE a < b BY <2>1, <1>1
    <2>2. CASE a = b
      <3>1. part = <<>>
        <4> HIDE DEF part
        <4> QED BY <2>2, <1>3, <1>4, EmptySeq
      <3> HIDE DEF part
      <3> QED BY <3>1, <1>2, <1>5, ConcatEmptySeq
    <2> HIDE DEF a, b
    <2> QED BY <1>3, <2>1, <2>2
  <1>7. ASSUME candidate' # <<>> PROVE ready'[e] # <<>>
    <2>1. c < n
      <3>1. candidate' = SubSeq(candidate, c + 1, n) BY <1>1
      <3> HIDE DEF c, n
      <3>2. CASE c = n
        <4>1. SubSeq(candidate, n + 1, n) = <<>>
          BY <1>2, SubSeqEmpty
        <4> QED BY <1>7, <3>1, <3>2, <4>1
      <3> QED BY <1>2, <1>3, <3>2
    <2>2. b = a + Vacancies(e)
      <3>1. b = Min2(a + Vacancies(e), n) BY <1>1 DEF Fills
      <3> HIDE DEF a, b, c, n
      <3> QED BY <3>1, <2>1, <1>2, <1>3 DEF Min2
    <2>3. Capacity \in Int /\ Capacity >= 1
      <3>1. readyJobCount \in Nat
        BY QueueFacts, FS_CardinalityType, NAssumption DEF IInv, QueueInv, CountMatchesQueues
      <3>2. n >= 1 BY <2>1, <1>2, <1>3
      <3> HIDE DEF n
      <3> DEFINE all == n + readyJobCount + N - 1
      <3>3. all \in Nat /\ all >= N
        BY <3>1, <3>2, <1>2, NAssumption
      <3>4. all \div N \in Nat /\ all \div N >= 1
        <4> HIDE DEF all
        <4> QED BY <3>3, WholeShare, NAssumption
      <3>5. Capacity = Min2(MaxReady, all \div N)
        BY DEF Capacity, n
      <3> HIDE DEF all
      <3> QED BY <3>4, <3>5, QueueAssumption DEF Min2
    <2>4. Len(ready'[e]) >= 1
      <3>1. Len(ready[e]) + Vacancies(e) >= 1 /\ Vacancies(e) \in Int
        <4> DEFINE x == Len(ready[e])
        <4>1. x \in Nat BY <1>2
        <4>2. Vacancies(e) = IF x < Capacity THEN Capacity - x ELSE 0 BY DEF Vacancies
        <4> HIDE DEF x
        <4>3. x + Vacancies(e) >= 1 /\ Vacancies(e) \in Int BY <2>3, <4>1, <4>2
        <4> QED BY <4>3 DEF x
      <3> HIDE DEF a, b, part, n, c
      <3> QED BY <1>2, <1>3, <1>5, <2>2, <3>1
    <2> QED BY <2>4, EmptySeq
  <1> QED BY <1>6, <1>7

\* A job put into a ready queue is announced to its executor.
LEMMA AnnouncedStep ==
  ASSUME IInv, SleepersCounted, JobsAnnounced, [Next]_vars
  PROVE  JobsAnnounced'
  <1> USE ThreadFacts DEF JobsAnnounced, SleepersCounted, Expected, HasWakeup, Goto,
        queues, semaphores, jobVars
  <1>0. TypeOK /\ pc \in [Threads -> Labels] /\ ready \in [Executors -> Seq(Jobs)]
        /\ executorWakeup \in [Executors -> SemState]
    BY DEF IInv, TypeOK
  <1>1. ASSUME NEW e \in Executors, GetReadyJob(e) PROVE JobsAnnounced'
    BY <1>0, <1>1 DEF GetReadyJob
  <1>2. ASSUME NEW e \in Executors, GetNoJob(e) PROVE JobsAnnounced'
    BY <1>0, <1>2 DEF GetNoJob
  <1>3. ASSUME NEW e \in Executors, WaitForJob(e) PROVE JobsAnnounced'
    <2> USE DEF SemState, HasWakeup, CountedOut, Blocks, TakeWakeup, EnterWait,
          Signal, SignalAll, CountAfterSignal, Wait, AfterWait
    <2>1. /\ executorWakeup[e] \in SemState /\ UNCHANGED <<wakeupIDs, ready>>
          /\ \A f \in Executors \ {e} :
               pc'[f] = pc[f] /\ executorWakeup'[f] = executorWakeup[f]
      BY <1>0, <1>3 DEF TypeOK, WaitForJob
    <2>2. CASE pc[e] = "wait"
      <3>1. /\ pc'[e] = (IF Blocks(executorWakeup[e]) THEN "asleep" ELSE "busy")
            /\ executorWakeup'[e] = EnterWait(executorWakeup[e])
        BY <1>0, <1>3, <2>2 DEF TypeOK, WaitForJob
      <3>2. pc'[e] = "asleep" /\ Expected(e) => Expected(e)'
        BY <2>1, <3>1
      <3> QED BY <2>1, <2>2, <3>1, <3>2
    <2>3. CASE pc[e] = "asleep"
      <3>1. pc'[e] = "busy"
        BY <1>0, <1>3, <2>3 DEF TypeOK, WaitForJob
      <3> QED BY <2>1, <3>1
    <2> QED BY <1>3, <2>2, <2>3 DEF WaitForJob
  <1>4. ASSUME NEW e \in Executors,
              ReadStatus(e) \/ PushJobs(e)
        PROVE  JobsAnnounced'
    BY <1>0, <1>4 DEF ReadStatus, PushJobs
  <1>5. ASSUME NEW e \in Executors,
              JobDone(e) \/ JobFails(e)
        PROVE  JobsAnnounced'
    BY <1>0, <1>5 DEF JobDone, JobFails
  <1>6. ASSUME NEW e \in Executors,
              ReportError(e) \/ BecomeIdle(e)
        PROVE  JobsAnnounced'
    BY <1>0, <1>6 DEF ReportError, BecomeIdle
  <1>7. ASSUME NEW e \in Executors,
              AskForJob(e) \/ BecomeBusy(e)
        PROVE  JobsAnnounced'
    BY <1>0, <1>7 DEF AskForJob, BecomeBusy
  <1>8. CASE WaitForRequest
    BY <1>0, <1>8, IntMaxType DEF WaitForRequest, Wait
  <1>9. CASE SelectReadyJob
    <2> USE DEF SemState, HasWakeup, CountedOut, Blocks, TakeWakeup, EnterWait,
          Signal, SignalAll, CountAfterSignal, Wait, AfterWait
    <2>1. /\ UNCHANGED executorWakeup /\ wakeupIDs = {}
          /\ \A e \in Executors : pc'[e] = pc[e]
      BY <1>0, <1>9 DEF TypeOK, SelectReadyJob
    <2>2. \A e \in Executors : e \in wakeupIDs' \/ ready'[e] = ready[e]
      BY <1>9, SelectFills
    <2> QED BY <2>1, <2>2
  <1>10. CASE NotifyExecutor
    <2> USE DEF SemState, HasWakeup, CountedOut, Blocks, TakeWakeup, EnterWait,
          Signal, SignalAll, CountAfterSignal, Wait, AfterWait
    <2>1. PICK e \in wakeupIDs :
            /\ executorWakeup' = [executorWakeup EXCEPT ![e] = Signal(@, "SignalFolded")]
            /\ wakeupIDs' = wakeupIDs \ {e}
      BY <1>10 DEF NotifyExecutor
    <2>2. UNCHANGED ready /\ \A f \in Executors : pc'[f] = pc[f] /\ executorWakeup[f] \in SemState
      BY <1>0, <1>10 DEF TypeOK, NotifyExecutor
    <2>3. ASSUME NEW f \in Executors, f # e
          PROVE  executorWakeup'[f] = executorWakeup[f] /\ (f \in wakeupIDs <=> f \in wakeupIDs')
      BY <1>0, <2>1, <2>3 DEF TypeOK
    <2>4. ASSUME pc[e] \in {"idle", "askForJob", "wait", "asleep"}
          PROVE  Expected(e)'
      <3>1. e \in Executors /\ executorWakeup'[e] = Signal(executorWakeup[e], "SignalFolded")
        BY <1>0, <2>1 DEF TypeOK
      <3> QED BY <2>2, <2>4, <3>1, IntMaxType
    <2> QED BY <2>1, <2>2, <2>3, <2>4
  <1>11. CASE ResourceReadsStatus \/ TestNeedSelect
    BY <1>0, <1>11 DEF ResourceReadsStatus, TestNeedSelect
  <1>12. CASE RequestStatusCheck \/ WaitStatusCheckOver
    BY <1>0, <1>12, IntMaxType DEF RequestStatusCheck, WaitStatusCheckOver, Wait
  <1>13. CASE WaitForCheck
    BY <1>0, <1>13, IntMaxType DEF WaitForCheck, Wait
  <1>14. CASE StopExecutor
    <2> USE DEF SemState, HasWakeup, CountedOut, Blocks, TakeWakeup, EnterWait,
          Signal, SignalAll, CountAfterSignal, Wait, AfterWait
    <2>1. /\ executorWakeup' = [executorWakeup EXCEPT ![joining] = Signal(@, "SignalFolded")]
          /\ UNCHANGED <<ready, wakeupIDs, joining>> /\ joining \in Executors
          /\ \A f \in Executors : pc'[f] = pc[f] /\ executorWakeup[f] \in SemState
      BY <1>0, <1>14 DEF TypeOK, StopExecutor
    <2>2. \A f \in Executors \ {joining} : executorWakeup'[f] = executorWakeup[f]
      BY <1>0, <2>1 DEF TypeOK
    <2>3. executorWakeup'[joining] = Signal(executorWakeup[joining], "SignalFolded")
      BY <1>0, <2>1 DEF TypeOK
    <2>4. ASSUME pc[joining] \in {"idle", "askForJob", "wait", "asleep"}
          PROVE  Expected(joining)'
      <3> DEFINE s == executorWakeup[joining]
      <3>1. /\ pc'[joining] = pc[joining] /\ s \in SemState
            /\ pc[joining] = "asleep" => s.count < 0 \/ HasWakeup(s)
        BY <2>1
      <3>2. /\ s.count < 0 => Signal(s, "SignalFolded").wakeup > 0
            /\ s.count >= 0 => Signal(s, "SignalFolded").count > 0
            /\ HasWakeup(s) => HasWakeup(Signal(s, "SignalFolded"))
        BY <3>1, IntMaxType
      <3> HIDE DEF Signal
      <3> QED BY <2>1, <2>3, <3>1, <3>2
    <2>5. ASSUME NEW f \in Executors \ {joining} PROVE Expected(f) => Expected(f)'
      BY <2>1, <2>2
    <2> HIDE DEF Expected
    <2> QED BY <2>1, <2>4, <2>5 DEF JobsAnnounced
  <1>15. CASE CheckError \/ CheckCandidate
    BY <1>0, <1>15 DEF CheckError, CheckCandidate
  <1>16. CASE CheckReadyCount \/ CheckNeedSelect
    BY <1>0, <1>16 DEF CheckReadyCount, CheckNeedSelect
  <1>17. CASE CheckOver \/ StopResource
    BY <1>0, <1>17 DEF CheckOver, StopResource
  <1>18. CASE JoinResource \/ JoinExecutor
    BY <1>0, <1>18 DEF JoinResource, JoinExecutor
  <1>19. CASE UNCHANGED vars
    BY <1>0, <1>19 DEF vars
  <1> QED
    BY <1>1, <1>2, <1>3, <1>4, <1>5, <1>6, <1>7, <1>8, <1>9, <1>10, <1>11, <1>12,
       <1>13, <1>14, <1>15, <1>16, <1>17, <1>18, <1>19
    DEF Next, MainStep, ResourceStep, ExecutorStep, Returned

\* New candidates and executors that run dry both send a request, and a request
\* is used up only by a selection or when nobody wants a job.
LEMMA RequestsStep ==
  ASSUME IInv, SleepersCounted, JobsAnnounced, RequestsKept, [Next]_vars
  PROVE  RequestsKept'
  <1> USE ThreadFacts DEF RequestsKept, SleepersCounted, Requested, Stuck, Expected,
        HasWakeup, Goto, queues, semaphores, jobVars
  <1>0. TypeOK /\ ExecutorsConsistent /\ pc \in [Threads -> Labels]
        /\ executorWakeup \in [Executors -> SemState]
    BY DEF IInv, TypeOK
  <1>1. ASSUME NEW e \in Executors, GetReadyJob(e) PROVE RequestsKept'
    BY <1>0, <1>1 DEF GetReadyJob
  <1>2. ASSUME NEW e \in Executors, GetNoJob(e) PROVE RequestsKept'
    BY <1>0, <1>2 DEF GetNoJob
  <1>3. ASSUME NEW e \in Executors, PushJobs(e) PROVE RequestsKept'
    <2> USE DEF SemState, HasWakeup, CountedOut, Blocks, TakeWakeup, EnterWait,
          Signal, SignalAll, CountAfterSignal, Wait, AfterWait
    <2> DEFINE s == needReadyJob
    <2>1. /\ s \in SemState /\ s' = SignalAll(s, "Normal")
          /\ pc'[Resource] = pc[Resource]
      BY <1>0, <1>3 DEF TypeOK, PushJobs
    <2>2. /\ HasWakeup(s') \/ s'.count > 0
          /\ s.count < 0 \/ HasWakeup(s) => s'.count < 0 \/ HasWakeup(s')
      BY <2>1, IntMaxType
    <2> QED BY <2>1, <2>2
  <1>4. ASSUME NEW e \in Executors, JobDone(e) PROVE RequestsKept'
    BY <1>0, <1>4 DEF JobDone
  <1>5. ASSUME NEW e \in Executors, ReportError(e) PROVE RequestsKept'
    BY <1>0, <1>5 DEF ReportError
  <1>6. ASSUME NEW e \in Executors, BecomeIdle(e) PROVE RequestsKept'
    BY <1>0, <1>6 DEF BecomeIdle
  <1>7. ASSUME NEW e \in Executors, AskForJob(e) PROVE RequestsKept'
    <2> USE DEF SemState, HasWakeup, CountedOut, Blocks, TakeWakeup, EnterWait,
          Signal, SignalAll, CountAfterSignal, Wait, AfterWait
    <2> DEFINE s == needReadyJob
    <2>1. /\ s \in SemState /\ s' = Signal(s, "Normal")
          /\ pc'[Resource] = pc[Resource]
      BY <1>0, <1>7 DEF TypeOK, AskForJob
    <2>2. /\ HasWakeup(s') \/ s'.count > 0
          /\ s.count < 0 \/ HasWakeup(s) => s'.count < 0 \/ HasWakeup(s')
      BY <2>1, IntMaxType
    <2> QED BY <2>1, <2>2
  <1>8. ASSUME NEW e \in Executors, WaitForJob(e) PROVE RequestsKept'
    <2> USE DEF SemState, HasWakeup, CountedOut, Blocks, TakeWakeup, EnterWait,
          Signal, SignalAll, CountAfterSignal, Wait, AfterWait
    <2>1. /\ executorWakeup[e] \in SemState
          /\ UNCHANGED <<wakeupIDs, candidate, needReadyJob>>
          /\ pc'[Resource] = pc[Resource]
          /\ \A f \in Executors \ {e} :
               pc'[f] = pc[f] /\ executorWakeup'[f] = executorWakeup[f]
      BY <1>0, <1>8 DEF TypeOK, WaitForJob
    <2>2. CASE pc[e] = "wait"
      <3>1. /\ pc'[e] = (IF Blocks(executorWakeup[e]) THEN "asleep" ELSE "busy")
            /\ executorWakeup'[e] = EnterWait(executorWakeup[e])
        BY <1>0, <1>8, <2>2 DEF TypeOK, WaitForJob
      <3>2. Stuck(e)' => Stuck(e)
        BY <2>1, <2>2, <3>1
      <3> QED BY <2>1, <3>2
    <2>3. CASE pc[e] = "asleep"
      <3>1. pc'[e] = "busy"
        BY <1>0, <1>8, <2>3 DEF TypeOK, WaitForJob
      <3> QED BY <2>1, <3>1
    <2> QED BY <1>8, <2>2, <2>3 DEF WaitForJob
  <1>9. ASSUME NEW e \in Executors, BecomeBusy(e) PROVE RequestsKept'
    BY <1>0, <1>9 DEF BecomeBusy
  <1>10. ASSUME NEW e \in Executors,
              ReadStatus(e) \/ JobFails(e)
        PROVE  RequestsKept'
    BY <1>0, <1>10 DEF ReadStatus, JobFails
  <1>11. CASE WaitForRequest
    <2> USE DEF SemState, HasWakeup, CountedOut, Blocks, TakeWakeup, EnterWait,
          Signal, SignalAll, CountAfterSignal, Wait, AfterWait
    <2>1. /\ needReadyJob \in SemState
          /\ UNCHANGED <<candidate, wakeupIDs, executorWakeup>>
          /\ \A e \in Executors : pc'[e] = pc[e]
      BY <1>0, <1>11 DEF TypeOK, WaitForRequest
    <2>2. CASE pc[Resource] = "waitRequest"
      <3>1. /\ pc'[Resource] = (IF Blocks(needReadyJob) THEN "asleepRequest" ELSE "readStatus")
            /\ needReadyJob' = EnterWait(needReadyJob)
        BY <1>0, <1>11, <2>2 DEF TypeOK, WaitForRequest
      <3>2. /\ pc'[Resource] = "asleepRequest" => needReadyJob'.count < 0 /\ ~Requested
            /\ pc'[Resource] # "asleepRequest" => pc'[Resource] = "readStatus"
        BY <2>1, <2>2, <3>1
      <3> QED BY <2>1, <2>2, <3>2
    <2>3. CASE pc[Resource] = "asleepRequest"
      <3>1. pc'[Resource] = "readStatus"
        BY <1>0, <1>11, <2>3 DEF TypeOK, WaitForRequest
      <3> QED BY <2>1, <3>1
    <2> QED BY <1>11, <2>2, <2>3 DEF WaitForRequest
  <1>12. CASE ResourceReadsStatus
    BY <1>0, <1>12 DEF ResourceReadsStatus
  <1>13. CASE TestNeedSelect
    <2> USE DEF SemState, HasWakeup, CountedOut, Blocks, TakeWakeup, EnterWait,
          Signal, SignalAll, CountAfterSignal, Wait, AfterWait
    <2>1. CASE needSelect = {}
      <3>1. \A e \in Executors : pc[e] \notin {"wait", "asleep"}
        BY <1>0, <2>1 DEF ExecutorsConsistent
      <3>2. /\ pc'[Resource] = "waitRequest"
            /\ \A e \in Executors : pc'[e] = pc[e]
        BY <1>0, <2>1, <1>13 DEF TypeOK, TestNeedSelect
      <3> QED BY <3>1, <3>2
    <2>2. CASE needSelect # {}
      BY <1>0, <2>2, <1>13 DEF TypeOK, TestNeedSelect
    <2> QED BY <2>1, <2>2
  <1>14. CASE SelectReadyJob
    <2> USE DEF SemState, HasWakeup, CountedOut, Blocks, TakeWakeup, EnterWait,
          Signal, SignalAll, CountAfterSignal, Wait, AfterWait
    <2>1. /\ UNCHANGED executorWakeup /\ pc'[Resource] # "exited"
          /\ \A e \in Executors : pc'[e] = pc[e]
          /\ pc'[Resource] # "asleepRequest"
      BY <1>0, <1>14 DEF TypeOK, SelectReadyJob
    <2>2. candidate' # <<>> => \A e \in Executors : ready'[e] # <<>>
      BY <1>14, SelectFills
    <2>3. JobsAnnounced'
      BY <1>14, AnnouncedStep
    <2> QED BY <2>1, <2>2, <2>3 DEF JobsAnnounced
  <1>15. CASE NotifyExecutor
    <2> USE DEF SemState, HasWakeup, CountedOut, Blocks, TakeWakeup, EnterWait,
          Signal, SignalAll, CountAfterSignal, Wait, AfterWait
    <2>1. PICK e \in wakeupIDs :
            /\ executorWakeup' = [executorWakeup EXCEPT ![e] = Signal(@, "SignalFolded")]
            /\ wakeupIDs' = wakeupIDs \ {e}
      BY <1>15 DEF NotifyExecutor
    <2>2. /\ UNCHANGED <<candidate, needReadyJob>>
          /\ pc[Resource] = "notify" /\ pc'[Resource] \in {"waitRequest", "notify"}
          /\ \A f \in Executors : pc'[f] = pc[f] /\ executorWakeup[f] \in SemState
      BY <1>0, <1>15 DEF TypeOK, NotifyExecutor
    <2>3. ASSUME NEW f \in Executors, Expected(f), f # e PROVE Expected(f)'
      BY <1>0, <2>1, <2>2, <2>3 DEF TypeOK
    <2>4. ASSUME Stuck(e)' PROVE FALSE
      <3>1. /\ e \in Executors /\ executorWakeup[e] \in SemState /\ pc'[e] = pc[e]
            /\ executorWakeup'[e] = Signal(executorWakeup[e], "SignalFolded")
            /\ pc[e] = "asleep" =>
                 executorWakeup[e].count < 0 \/ HasWakeup(executorWakeup[e])
        BY <1>0, <2>1, <2>2 DEF TypeOK
      <3> QED BY <2>4, <3>1, IntMaxType
    <2>5. \A f \in Executors : Stuck(f)' => Stuck(f)
      BY <2>2, <2>3, <2>4
    <2> HIDE DEF Stuck
    <2> QED BY <2>2, <2>5
  <1>16. CASE RequestStatusCheck
    BY <1>0, <1>16 DEF RequestStatusCheck
  <1>17. CASE WaitStatusCheckOver
    BY <1>0, <1>17, IntMaxType DEF WaitStatusCheckOver, Wait
  <1>18. CASE WaitForCheck
    BY <1>0, <1>18, IntMaxType DEF WaitForCheck, Wait
  <1>19. CASE CheckError
    BY <1>0, <1>19 DEF CheckError
  <1>20. CASE CheckOver
    BY <1>0, <1>20 DEF CheckOver
  <1>21. CASE StopResource
    <2> USE DEF SemState, HasWakeup, CountedOut, Blocks, TakeWakeup, EnterWait,
          Signal, SignalAll, CountAfterSignal, Wait, AfterWait
    <2> DEFINE s == needReadyJob
    <2>1. /\ s \in SemState /\ s' = Signal(s, "Normal")
          /\ pc'[Resource] = pc[Resource]
      BY <1>0, <1>21 DEF TypeOK, StopResource
    <2>2. /\ HasWakeup(s') \/ s'.count > 0
          /\ s.count < 0 \/ HasWakeup(s) => s'.count < 0 \/ HasWakeup(s')
      BY <2>1, IntMaxType
    <2> QED BY <2>1, <2>2
  <1>22. CASE JoinResource
    BY <1>0, <1>22 DEF JoinResource
  <1>23. CASE StopExecutor
    <2> USE DEF SemState, HasWakeup, CountedOut, Blocks, TakeWakeup, EnterWait,
          Signal, SignalAll, CountAfterSignal, Wait, AfterWait
    <2>1. /\ executorWakeup' = [executorWakeup EXCEPT ![joining] = Signal(@, "SignalFolded")]
          /\ UNCHANGED <<candidate, needReadyJob, wakeupIDs, joining>> /\ joining \in Executors
          /\ pc'[Resource] = pc[Resource]
          /\ \A f \in Executors : pc'[f] = pc[f] /\ executorWakeup[f] \in SemState
      BY <1>0, <1>23 DEF TypeOK, StopExecutor
    <2>2. ASSUME NEW f \in Executors, Expected(f), f # joining PROVE Expected(f)'
      BY <1>0, <2>1, <2>2 DEF TypeOK
    <2>3. ASSUME Stuck(joining)' PROVE FALSE
      <3> DEFINE s == executorWakeup[joining]
      <3>1. /\ pc'[joining] = pc[joining] /\ s \in SemState
            /\ executorWakeup'[joining] = Signal(s, "SignalFolded")
            /\ pc[joining] = "asleep" => s.count < 0 \/ HasWakeup(s)
        BY <1>0, <2>1 DEF TypeOK
      <3>2. /\ s.count < 0 => Signal(s, "SignalFolded").wakeup > 0
            /\ s.count >= 0 => Signal(s, "SignalFolded").count > 0
            /\ HasWakeup(s) => HasWakeup(Signal(s, "SignalFolded"))
        BY <3>1, IntMaxType
      <3> HIDE DEF Signal
      <3> QED BY <2>1, <2>3, <3>1, <3>2
    <2>4. \A f \in Executors : Stuck(f)' => Stuck(f)
      BY <2>1, <2>2, <2>3
    <2> HIDE DEF Stuck
    <2> QED BY <2>1, <2>4
  <1>24. CASE CheckCandidate \/ CheckReadyCount
    BY <1>0, <1>24 DEF CheckCandidate, CheckReadyCount
  <1>25. CASE CheckNeedSelect \/ JoinExecutor
    BY <1>0, <1>25 DEF CheckNeedSelect, JoinExecutor
  <1>26. CASE UNCHANGED vars
    BY <1>0, <1>26 DEF vars
  <1> QED
    BY <1>1, <1>2, <1>3, <1>4, <1>5, <1>6, <1>7, <1>8, <1>9, <1>10, <1>11, <1>12,
       <1>13, <1>14, <1>15, <1>16, <1>17, <1>18, <1>19, <1>20, <1>21, <1>22, <1>23,
       <1>24, <1>25, <1>26
    DEF Next, MainStep, ResourceStep, ExecutorStep, Returned

-----------------------------------------------------------------------------
\* No signal is lost, for every number of executors and jobs.
THEOREM SignalsAreKept == Spec => []SignalsKept
  <1>1. Init => SignalsKept
    BY ThreadFacts
    DEF Init, SignalsKept, SleepersCounted, JobsAnnounced, RequestsKept, AnswersMatch,
        Stuck, Outside, Awaiting, Checking, Sem, NewSem
  <1>2. IInv /\ SignalsKept /\ [Next]_vars => SignalsKept'
    BY SleepersStep, AnnouncedStep, RequestsStep, AnswersStep DEF SignalsKept
  <1> QED BY <1>1, <1>2, Invariance, PTL DEF Spec

\* selectReadyJob() and startWaiting() never meet in a way that leaves an
\* executor asleep on a job in its own ready queue.
THEOREM NobodySleepsOnJobs == Spec => []NoSleeperWithJobs
  <1>1. SignalsKept => NoSleeperWithJobs
    BY DEF SignalsKept, JobsAnnounced, Expected, NoSleeperWithJobs
  <1> QED BY <1>1, SignalsAreKept, PTL

\* resourceController() never sleeps with candidates in its queue and an
\* executor asleep: the request of whoever came second is never lost.
THEOREM CandidatesAreDealt == Spec => []NoCandidateForSleepers
  <1>1. IInv /\ SignalsKept => NoCandidateForSleepers
    <2>1. SUFFICES ASSUME IInv, SignalsKept,
                          pc[Resource] = "asleepRequest", ~HasWakeup(needReadyJob),
                          NEW e \in Executors,
                          pc[e] = "asleep", ~HasWakeup(executorWakeup[e])
                   PROVE  candidate = <<>>
      BY DEF NoCandidateForSleepers
    <2>2. needReadyJob \in SemState /\ needReadyJob.count < 0
      BY <2>1 DEF IInv, TypeOK, SignalsKept, RequestsKept
    <2>3. ~Requested
      BY <2>1, <2>2 DEF Requested, SemState
    <2>4. Stuck(e)
      BY <2>1 DEF SignalsKept, SleepersCounted, Stuck, Expected
    <2> QED BY <2>1, <2>3, <2>4 DEF SignalsKept, RequestsKept
  <1> QED BY <1>1, Invariance, SignalsAreKept, PTL

\* Each statusCheckOver_.wait() of resourceController() gets the answer to its
\* own needStatusCheck_.signal(), never one that an earlier check left over.
THEOREM AnswersAreFresh == Spec => []NoStaleAnswer
  <1>1. SignalsKept => NoStaleAnswer
    BY DEF SignalsKept, AnswersMatch, NoStaleAnswer, Checking, Outside, Unanswered, Answered,
           Sem, NewSem
  <1> QED BY <1>1, SignalsAreKept, PTL
=============================================================================
