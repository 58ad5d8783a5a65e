---------------------------- MODULE ExecutorPool ----------------------------
(***************************************************************************)
(* The scheduler: ExecutorPool (ExecutorPool.cpp), its threads, and the    *)
(* queues of ResourcePool they share (getReadyJob, selectReadyJob).        *)
(*                                                                         *)
(* Threads: the main thread, which runs execute() and inside it            *)
(* executorController(); the resource thread, which runs                   *)
(* resourceController(); and the executors 0 .. N-1, which run mainRunner. *)
(* pc[t] is the next statement of t that touches shared state.             *)
(*                                                                         *)
(* A job is the number it got when it was pushed.  What a job does is      *)
(* abstracted to what the scheduler can notice: it may push further jobs,  *)
(* wait for the results of earlier jobs (the OnceForAll semaphores), fail, *)
(* and end.                                                                *)
(***************************************************************************)
EXTENDS SemaphoreOps, Queues, FiniteSets, Functions

CONSTANTS N,         \* executorNum
          IntWidth,  \* bits of needSelect_ (32)
          MaxReady,  \* MAX_READY_QUEUE_SIZE (32)
          InitJobs,  \* jobs execute() queues before the threads start
          MaxJobs,   \* bound: jobs pushed in one run of the program
          Waits,     \* Waits[j]: jobs whose result job j waits for
          Failing    \* jobs whose process() may return a negative value

Jobs == 1 .. MaxJobs

\* init() accepts 1 .. 32 executors.
ASSUME NAssumption == N \in Nat \ {0} /\ IntWidth \in Nat /\ N <= IntWidth
ASSUME QueueAssumption == MaxReady \in Nat \ {0}
ASSUME JobsAssumption == /\ MaxJobs \in Nat
                         /\ InitJobs \in 1 .. MaxJobs
                         /\ Waits \in [Jobs -> SUBSET Jobs]
                         /\ Failing \subseteq Jobs

VARIABLES
  status,          \* ExecutorPool::status_
  candidate,       \* candidateQueue_
  ready,           \* readyQueue_, one queue per executor
  readyJobCount,   \* readyJobCount_
  working,         \* workingJob_, NoJob for nullptr
  needSelect,      \* needSelect_, the set of its 1 bits
  executorStatus,  \* executorStatus_
  needReadyJob, needStatusCheck, statusCheckOver,  \* Normal semaphores
  executorWakeup,  \* SignalFolded semaphores, one per executor
  pc,              \* next statement of every thread
  wakeupIDs,       \* wakeupExecutorID of the resource thread
  joining,         \* id of the loop at the end of execute()
  created,         \* number of jobs pushed so far
  done             \* jobs whose process() returned without error

queues == <<candidate, ready, readyJobCount>>
semaphores == <<needReadyJob, needStatusCheck, statusCheckOver, executorWakeup>>
jobVars == <<working, created, done>>
vars == <<status, queues, jobVars, needSelect, executorStatus, semaphores,
          pc, wakeupIDs, joining>>

Executors == 0 .. N - 1
Main == -1
Resource == -2
Threads == Executors \cup {Main, Resource}
NoJob == 0

\* noWorkingJob, the value of needSelect_ when every executor is idle: the
\* complement of 0x80000000 >> (32 - N - 1).  For N = 32 the shift count is
\* -1, which x86 takes modulo 32: the result has no bit set.
NoWorkingJob == IF N < IntWidth THEN Executors ELSE {}

Goto(t, label) == pc' = [pc EXCEPT ![t] = label]

-----------------------------------------------------------------------------
(* Semaphore::wait() of thread t on semaphore s: at label "enter" t goes on  *)
(* to "next" or falls asleep, and when asleep it needs a wakeup to go on.    *)

Wait(t, s, enter, asleep, next) ==
  \/ pc[t] = enter /\ Goto(t, IF Blocks(s) THEN asleep ELSE next)
  \/ pc[t] = asleep /\ HasWakeup(s) /\ Goto(t, next)

AfterWait(t, s, enter) == IF pc[t] = enter THEN EnterWait(s) ELSE TakeWakeup(s)

\* candidateQueueLock_ is held from the test of candidateQueue_ to the end of
\* an iteration of executorController().
CandidateLocked == pc[Main] \in {"checkReady", "checkSelect", "checkOver"}

-----------------------------------------------------------------------------
(* Mistakes the code could contain, one per operator, named after the        *)
(* definition that would contain it.  No specification uses them; with one   *)
(* in place of that definition some property of this module fails.           *)

\* readyQueue_.front() without pop_front().
GetReadyJobWithoutPop(e) ==
  /\ pc[e] = "get" /\ ready[e] # <<>>
  /\ working' = [working EXCEPT ![e] = Head(ready[e])]
  /\ readyJobCount' = readyJobCount - 1
  /\ Goto(e, "run")
  /\ UNCHANGED <<status, ready, candidate, created, done, needSelect,
                 executorStatus, semaphores, wakeupIDs, joining>>

\* readyJobCount_ is not decremented.
GetReadyJobUncounted(e) ==
  /\ pc[e] = "get" /\ ready[e] # <<>>
  /\ working' = [working EXCEPT ![e] = Head(ready[e])]
  /\ ready' = [ready EXCEPT ![e] = Tail(@)]
  /\ Goto(e, "run")
  /\ UNCHANGED <<status, readyJobCount, candidate, created, done, needSelect,
                 executorStatus, semaphores, wakeupIDs, joining>>

\* A job pushes without candidateQueueLock_.
PushJobsUnlocked(e) ==
  /\ pc[e] = "run"
  /\ \E n \in 1 .. MaxJobs - created :
       /\ candidate' = candidate \o [i \in 1 .. n |-> created + i]
       /\ created' = created + n
  /\ needReadyJob' = SignalAll(needReadyJob, "Normal")
  /\ UNCHANGED <<status, ready, readyJobCount, working, done, needSelect,
                 executorStatus, needStatusCheck, statusCheckOver,
                 executorWakeup, pc, wakeupIDs, joining>>

\* needStatusCheck_.signal() is forgotten.
ReportErrorSilently(e) ==
  /\ pc[e] = "report"
  /\ Goto(e, "exited")
  /\ UNCHANGED <<status, queues, jobVars, needSelect, executorStatus,
                 semaphores, wakeupIDs, joining>>

\* needReadyJob_->signal() is forgotten.
AskForJobSilently(e) ==
  /\ pc[e] = "askForJob"
  /\ Goto(e, "wait")
  /\ UNCHANGED <<status, queues, jobVars, needSelect, executorStatus,
                 semaphores, wakeupIDs, joining>>

\* wakeupExecutor_[e].signal() is forgotten.
NotifyNobody ==
  /\ pc[Resource] = "notify"
  /\ \E e \in wakeupIDs :
       (\A f \in wakeupIDs : e <= f) /\ wakeupIDs' = wakeupIDs \ {e}
  /\ Goto(Resource, IF wakeupIDs' = {} THEN "waitRequest" ELSE "notify")
  /\ UNCHANGED <<status, queues, jobVars, needSelect, executorStatus,
                 semaphores, joining>>

\* statusCheckOver_.wait() is forgotten.
GoOnWithoutAnswer ==
  /\ pc[Resource] = "waitOver"
  /\ Goto(Resource, "rereadStatus")
  /\ UNCHANGED <<status, queues, jobVars, needSelect, executorStatus,
                 semaphores, wakeupIDs, joining>>

\* An executor that is not Busy is taken for one with an Error.
CheckErrorTooEager ==
  /\ pc[Main] = "checkError"
  /\ IF \E e \in Executors : executorStatus[e] # "Busy"
     THEN status' = "Error" /\ Goto(Main, "reportOver")
     ELSE UNCHANGED status /\ Goto(Main, "checkCandidate")
  /\ UNCHANGED <<queues, jobVars, needSelect, executorStatus, semaphores,
                 wakeupIDs, joining>>

\* needSelect_ == noWorkingJob is left out of the test for the end.
CheckNeedSelectSkipped ==
  /\ pc[Main] = "checkSelect"
  /\ status' = "Finished"
  /\ Goto(Main, "checkOver")
  /\ UNCHANGED <<queues, jobVars, needSelect, executorStatus, semaphores,
                 wakeupIDs, joining>>

\* The loop of joins runs to i <= executorNum.
JoinExecutorPastEnd ==
  /\ pc[Main] = "joinExecutor" /\ pc[joining] = "exited"
  /\ IF joining + 1 <= N
     THEN joining' = joining + 1 /\ Goto(Main, "stopExecutor")
     ELSE UNCHANGED joining /\ Goto(Main, "exited")
  /\ UNCHANGED <<status, queues, jobVars, needSelect, executorStatus,
                 semaphores, wakeupIDs>>

-----------------------------------------------------------------------------
(* Executor::mainRunner and Executor::startWaiting.                          *)

ReadStatus(e) ==
  /\ pc[e] = "top"
  /\ Goto(e, IF status = "Running" THEN "get" ELSE "exited")
  /\ UNCHANGED <<status, queues, jobVars, needSelect, executorStatus,
                 semaphores, wakeupIDs, joining>>

\* getReadyJob() under readyQueueLock_[e]; it fails when the slot in workingJob_ is
\* not empty.
GetReadyJob(e) ==
  /\ pc[e] = "get" /\ ready[e] # <<>>
  /\ IF working[e] = NoJob
     THEN /\ working' = [working EXCEPT ![e] = Head(ready[e])]
          /\ ready' = [ready EXCEPT ![e] = Tail(@)]
          /\ readyJobCount' = readyJobCount - 1
          /\ Goto(e, "run")
          /\ UNCHANGED executorStatus
     ELSE /\ executorStatus' = [executorStatus EXCEPT ![e] = "Error"]
          /\ Goto(e, "report")
          /\ UNCHANGED <<working, ready, readyJobCount>>
  /\ UNCHANGED <<status, candidate, created, done, needSelect,
                 semaphores, wakeupIDs, joining>>

GetNoJob(e) ==
  /\ pc[e] = "get" /\ ready[e] = <<>>
  /\ Goto(e, "idle")
  /\ UNCHANGED <<status, queues, jobVars, needSelect, executorStatus,
                 semaphores, wakeupIDs, joining>>

\* process() pushes a batch of jobs and signals newCandidateJob_, which is
\* needReadyJob_, while it holds candidateQueueLock_.
PushJobs(e) ==
  /\ pc[e] = "run" /\ ~CandidateLocked
  /\ \E n \in 1 .. MaxJobs - created :
       /\ candidate' = candidate \o [i \in 1 .. n |-> created + i]
       /\ created' = created + n
  /\ needReadyJob' = SignalAll(needReadyJob, "Normal")
  /\ UNCHANGED <<status, ready, readyJobCount, working, done, needSelect,
                 executorStatus, needStatusCheck, statusCheckOver,
                 executorWakeup, pc, wakeupIDs, joining>>

\* process() returns; by then it has got every result it waits for.
JobDone(e) ==
  /\ pc[e] = "run" /\ Waits[working[e]] \subseteq done
  /\ done' = done \cup {working[e]}
  /\ working' = [working EXCEPT ![e] = NoJob]
  /\ Goto(e, "top")
  /\ UNCHANGED <<status, queues, created, needSelect, executorStatus,
                 semaphores, wakeupIDs, joining>>

\* process() returns a negative value, before or after it has waited.
JobFails(e) ==
  /\ pc[e] = "run" /\ working[e] \in Failing
  /\ executorStatus' = [executorStatus EXCEPT ![e] = "Error"]
  /\ Goto(e, "report")
  /\ UNCHANGED <<status, queues, jobVars, needSelect, semaphores, wakeupIDs,
                 joining>>

ReportError(e) ==
  /\ pc[e] = "report"
  /\ needStatusCheck' = Signal(needStatusCheck, "Normal")
  /\ Goto(e, "exited")
  /\ UNCHANGED <<status, queues, jobVars, needSelect, executorStatus,
                 needReadyJob, statusCheckOver, executorWakeup, wakeupIDs,
                 joining>>

\* startWaiting(): *status_ is compared only with Error by other threads, so
\* it changes together with the needSelect_ bit.  When it is not Busy the thread ends
\* without a word to the others.
BecomeIdle(e) ==
  /\ pc[e] = "idle"
  /\ IF executorStatus[e] = "Busy"
     THEN /\ executorStatus' = [executorStatus EXCEPT ![e] = "Idle"]
          /\ needSelect' = needSelect \cup {e}
          /\ Goto(e, "askForJob")
     ELSE Goto(e, "exited") /\ UNCHANGED <<executorStatus, needSelect>>
  /\ UNCHANGED <<status, queues, jobVars, semaphores, wakeupIDs, joining>>

AskForJob(e) ==
  /\ pc[e] = "askForJob"
  /\ needReadyJob' = Signal(needReadyJob, "Normal")
  /\ Goto(e, "wait")
  /\ UNCHANGED <<status, queues, jobVars, needSelect, executorStatus,
                 needStatusCheck, statusCheckOver, executorWakeup, wakeupIDs,
                 joining>>

WaitForJob(e) ==
  /\ Wait(e, executorWakeup[e], "wait", "asleep", "busy")
  /\ executorWakeup' =
       [executorWakeup EXCEPT ![e] = AfterWait(e, @, "wait")]
  /\ UNCHANGED <<status, queues, jobVars, needSelect, executorStatus,
                 needReadyJob, needStatusCheck, statusCheckOver, wakeupIDs,
                 joining>>

BecomeBusy(e) ==
  /\ pc[e] = "busy"
  /\ needSelect' = needSelect \ {e}
  /\ executorStatus' = [executorStatus EXCEPT ![e] = "Busy"]
  /\ Goto(e, "top")
  /\ UNCHANGED <<status, queues, jobVars, semaphores, wakeupIDs, joining>>

ExecutorStep(e) ==
  \/ ReadStatus(e) \/ GetReadyJob(e) \/ GetNoJob(e)
  \/ PushJobs(e) \/ JobDone(e) \/ JobFails(e) \/ ReportError(e)
  \/ BecomeIdle(e) \/ AskForJob(e) \/ WaitForJob(e) \/ BecomeBusy(e)

-----------------------------------------------------------------------------
(* ExecutorPool::resourceController and ResourcePool::selectReadyJob.        *)

WaitForRequest ==
  /\ Wait(Resource, needReadyJob, "waitRequest", "asleepRequest", "readStatus")
  /\ needReadyJob' = AfterWait(Resource, needReadyJob, "waitRequest")
  /\ UNCHANGED <<status, queues, jobVars, needSelect, executorStatus,
                 needStatusCheck, statusCheckOver, executorWakeup, wakeupIDs,
                 joining>>

\* The test of status_ after each wait.
ResourceReadsStatus ==
  /\ \/ /\ pc[Resource] = "readStatus"
        /\ Goto(Resource, IF status = "Running" THEN "testSelect" ELSE "exited")
     \/ /\ pc[Resource] = "rereadStatus"
        /\ Goto(Resource, IF status = "Running" THEN "waitRequest" ELSE "exited")
  /\ UNCHANGED <<status, queues, jobVars, needSelect, executorStatus,
                 semaphores, wakeupIDs, joining>>

TestNeedSelect ==
  /\ pc[Resource] = "testSelect"
  /\ Goto(Resource, IF needSelect # {} THEN "select" ELSE "waitRequest")
  /\ UNCHANGED <<status, queues, jobVars, needSelect, executorStatus,
                 semaphores, wakeupIDs, joining>>

Min2(a, b) == IF a < b THEN a ELSE b

\* maxReadySize: an even share of all queued jobs, rounded up.
Capacity == Min2(MaxReady, (Len(candidate) + readyJobCount + N - 1) \div N)

Vacancies(e) == IF Len(ready[e]) < Capacity THEN Capacity - Len(ready[e]) ELSE 0

\* The candidates fill the vacancies of executor 0, then 1, ...: executor e
\* gets those at the positions cut[e] + 1 .. cut[e + 1].
Fills(cut) ==
  /\ cut[0] = 0
  /\ \A e \in Executors :
       cut[e + 1] = Min2(cut[e] + Vacancies(e), Len(candidate))

\* A mistake: the jobs are dealt out from the back of candidateQueue_.
SelectReadyJobFromBack ==
  /\ pc[Resource] = "select" /\ ~CandidateLocked
  /\ \E cut \in [0 .. N -> 0 .. Len(candidate)] :
       LET n == Len(candidate)
       IN  /\ Fills(cut)
           /\ ready' = [e \in Executors |->
                          ready[e] \o SubSeq(candidate, n - cut[e + 1] + 1, n - cut[e])]
           /\ candidate' = SubSeq(candidate, 1, n - cut[N])
           /\ readyJobCount' = readyJobCount + cut[N]
           /\ wakeupIDs' = {e \in Executors : cut[e] < cut[e + 1]}
  /\ Goto(Resource, IF wakeupIDs' = {} THEN "requestCheck" ELSE "notify")
  /\ UNCHANGED <<status, jobVars, needSelect, executorStatus, semaphores,
                 joining>>

\* selectReadyJob() holds candidateQueueLock_ and every readyQueueLock_.
SelectReadyJob ==
  /\ pc[Resource] = "select" /\ ~CandidateLocked
  /\ \E cut \in [0 .. N -> 0 .. Len(candidate)] :
       /\ Fills(cut)
       /\ ready' = [e \in Executors |->
                      ready[e] \o SubSeq(candidate, cut[e] + 1, cut[e + 1])]
       /\ candidate' = SubSeq(candidate, cut[N] + 1, Len(candidate))
       /\ readyJobCount' = readyJobCount + cut[N]
       /\ wakeupIDs' = {e \in Executors : cut[e] < cut[e + 1]}
  /\ Goto(Resource, IF wakeupIDs' = {} THEN "requestCheck" ELSE "notify")
  /\ UNCHANGED <<status, jobVars, needSelect, executorStatus, semaphores,
                 joining>>

\* One iteration of the loop over the ordered set wakeupExecutorID.
NotifyExecutor ==
  /\ pc[Resource] = "notify"
  /\ \E e \in wakeupIDs :
       /\ \A f \in wakeupIDs : e <= f
       /\ executorWakeup' =
            [executorWakeup EXCEPT ![e] = Signal(@, "SignalFolded")]
       /\ wakeupIDs' = wakeupIDs \ {e}
  /\ Goto(Resource, IF wakeupIDs' = {} THEN "waitRequest" ELSE "notify")
  /\ UNCHANGED <<status, queues, jobVars, needSelect, executorStatus,
                 needReadyJob, needStatusCheck, statusCheckOver, joining>>

RequestStatusCheck ==
  /\ pc[Resource] = "requestCheck"
  /\ needStatusCheck' = Signal(needStatusCheck, "Normal")
  /\ Goto(Resource, "waitOver")
  /\ UNCHANGED <<status, queues, jobVars, needSelect, executorStatus,
                 needReadyJob, statusCheckOver, executorWakeup, wakeupIDs,
                 joining>>

WaitStatusCheckOver ==
  /\ Wait(Resource, statusCheckOver, "waitOver", "asleepOver", "rereadStatus")
  /\ statusCheckOver' = AfterWait(Resource, statusCheckOver, "waitOver")
  /\ UNCHANGED <<status, queues, jobVars, needSelect, executorStatus,
                 needReadyJob, needStatusCheck, executorWakeup, wakeupIDs,
                 joining>>

ResourceStep ==
  \/ WaitForRequest \/ ResourceReadsStatus \/ TestNeedSelect \/ SelectReadyJob
  \/ NotifyExecutor \/ RequestStatusCheck \/ WaitStatusCheckOver

-----------------------------------------------------------------------------
(* ExecutorPool::executorController and the end of ExecutorPool::execute.    *)

WaitForCheck ==
  /\ Wait(Main, needStatusCheck, "waitCheck", "asleepCheck", "checkError")
  /\ needStatusCheck' = AfterWait(Main, needStatusCheck, "waitCheck")
  /\ UNCHANGED <<status, queues, jobVars, needSelect, executorStatus,
                 needReadyJob, statusCheckOver, executorWakeup, wakeupIDs,
                 joining>>

\* The loop over executorStatus_: an Error, once written, stays.
CheckError ==
  /\ pc[Main] = "checkError"
  /\ IF \E e \in Executors : executorStatus[e] = "Error"
     THEN status' = "Error" /\ Goto(Main, "reportOver")
     ELSE UNCHANGED status /\ Goto(Main, "checkCandidate")
  /\ UNCHANGED <<queues, jobVars, needSelect, executorStatus, semaphores,
                 wakeupIDs, joining>>

\* The three conjuncts of the test for the end, read one after the other
\* under candidateQueueLock_.
CheckCandidate ==
  /\ pc[Main] = "checkCandidate"
  /\ Goto(Main, IF candidate = <<>> THEN "checkReady" ELSE "checkOver")
  /\ UNCHANGED <<status, queues, jobVars, needSelect, executorStatus,
                 semaphores, wakeupIDs, joining>>

CheckReadyCount ==
  /\ pc[Main] = "checkReady"
  /\ Goto(Main, IF readyJobCount = 0 THEN "checkSelect" ELSE "checkOver")
  /\ UNCHANGED <<status, queues, jobVars, needSelect, executorStatus,
                 semaphores, wakeupIDs, joining>>

CheckNeedSelect ==
  /\ pc[Main] = "checkSelect"
  /\ status' = IF needSelect = NoWorkingJob THEN "Finished" ELSE status
  /\ Goto(Main, "checkOver")
  /\ UNCHANGED <<queues, jobVars, needSelect, executorStatus, semaphores,
                 wakeupIDs, joining>>

\* statusCheckOver_.signal(), then another iteration or the end.
CheckOver ==
  /\ pc[Main] \in {"checkOver", "reportOver"}
  /\ statusCheckOver' = Signal(statusCheckOver, "Normal")
  /\ Goto(Main, IF status = "Running" THEN "waitCheck" ELSE "stopResource")
  /\ UNCHANGED <<status, queues, jobVars, needSelect, executorStatus,
                 needReadyJob, needStatusCheck, executorWakeup, wakeupIDs,
                 joining>>

StopResource ==
  /\ pc[Main] = "stopResource"
  /\ needReadyJob' = Signal(needReadyJob, "Normal")
  /\ Goto(Main, "joinResource")
  /\ UNCHANGED <<status, queues, jobVars, needSelect, executorStatus,
                 needStatusCheck, statusCheckOver, executorWakeup, wakeupIDs,
                 joining>>

JoinResource ==
  /\ pc[Main] = "joinResource" /\ pc[Resource] = "exited"
  /\ Goto(Main, "stopExecutor")
  /\ UNCHANGED <<status, queues, jobVars, needSelect, executorStatus,
                 semaphores, wakeupIDs, joining>>

StopExecutor ==
  /\ pc[Main] = "stopExecutor"
  /\ executorWakeup' =
       [executorWakeup EXCEPT ![joining] = Signal(@, "SignalFolded")]
  /\ Goto(Main, "joinExecutor")
  /\ UNCHANGED <<status, queues, jobVars, needSelect, executorStatus,
                 needReadyJob, needStatusCheck, statusCheckOver, wakeupIDs,
                 joining>>

JoinExecutor ==
  /\ pc[Main] = "joinExecutor" /\ pc[joining] = "exited"
  /\ IF joining + 1 < N
     THEN joining' = joining + 1 /\ Goto(Main, "stopExecutor")
     ELSE UNCHANGED joining /\ Goto(Main, "exited")
  /\ UNCHANGED <<status, queues, jobVars, needSelect, executorStatus,
                 semaphores, wakeupIDs>>

MainStep ==
  \/ WaitForCheck \/ CheckError \/ CheckCandidate \/ CheckReadyCount
  \/ CheckNeedSelect \/ CheckOver \/ StopResource \/ JoinResource
  \/ StopExecutor \/ JoinExecutor

-----------------------------------------------------------------------------
\* The state in which execute() has started the threads.
Init ==
  /\ status = "Running"
  /\ candidate = [i \in 1 .. InitJobs |-> i]
  /\ ready = [e \in Executors |-> <<>>]
  /\ readyJobCount = 0
  /\ working = [e \in Executors |-> NoJob]
  /\ needSelect = {}
  /\ executorStatus = [e \in Executors |-> "Busy"]
  /\ needReadyJob = NewSem(0)
  /\ needStatusCheck = NewSem(0)
  /\ statusCheckOver = NewSem(0)
  /\ executorWakeup = [e \in Executors |-> NewSem(0)]
  /\ pc = [t \in Threads |-> IF t \in Executors THEN "top"
                             ELSE IF t = Main THEN "waitCheck" ELSE "waitRequest"]
  /\ wakeupIDs = {}
  /\ joining = 0
  /\ created = InitJobs
  /\ done = {}

\* execute() has returned.
Returned == pc[Main] = "exited" /\ UNCHANGED vars

Next == MainStep \/ ResourceStep \/ (\E e \in Executors : ExecutorStep(e)) \/ Returned

\* Every thread is scheduled again and again, and every process() that is not
\* waiting for another job ends: it pushes at most MaxJobs jobs.
Fairness == /\ WF_vars(MainStep)
            /\ WF_vars(ResourceStep)
            /\ \A e \in Executors : WF_vars(ExecutorStep(e))

Spec == Init /\ [][Next]_vars /\ Fairness
-----------------------------------------------------------------------------
(* Properties.                                                               *)

Queued == UNION {Range(ready[e]) : e \in Executors}
InHand == {working[e] : e \in Executors} \ {NoJob}

Labels ==
  {"top", "get", "run", "report", "idle", "askForJob", "wait", "asleep", "busy",
   "exited", "waitRequest", "asleepRequest", "readStatus", "testSelect",
   "select", "notify", "requestCheck", "waitOver", "asleepOver", "rereadStatus",
   "waitCheck", "asleepCheck", "checkError", "checkCandidate", "checkReady",
   "checkSelect", "checkOver", "reportOver", "stopResource", "joinResource",
   "stopExecutor", "joinExecutor"}

TypeOK ==
  /\ status \in {"Running", "Finished", "Error"}
  /\ candidate \in Seq(Jobs)
  /\ ready \in [Executors -> Seq(Jobs)]
  /\ readyJobCount \in Int
  /\ working \in [Executors -> Jobs \cup {NoJob}]
  /\ needSelect \subseteq Executors
  /\ executorStatus \in [Executors -> {"Idle", "Busy", "Error"}]
  /\ needReadyJob \in SemState
  /\ needStatusCheck \in SemState
  /\ statusCheckOver \in SemState
  /\ executorWakeup \in [Executors -> SemState]
  /\ pc \in [Threads -> Labels]
  /\ wakeupIDs \subseteq Executors
  /\ joining \in Executors
  /\ created \in 0 .. MaxJobs
  /\ done \subseteq Jobs

\* No job is lost and none is run twice on its way from candidateQueue_
\* through a ready queue into an executor's hands: each pushed job is in
\* exactly one of these places or done.
JobsConserved ==
  /\ Range(candidate) \cup Queued \cup InHand \cup done = 1 .. created
  /\ Range(candidate) \cap (Queued \cup InHand \cup done) = {}
  /\ Queued \cap (InHand \cup done) = {}
  /\ InHand \cap done = {}
  /\ \A e, f \in Executors : e # f =>
       /\ Range(ready[e]) \cap Range(ready[f]) = {}
       /\ working[e] = working[f] => working[e] = NoJob

\* readyJobCount_, which each side changes under another lock, is the number
\* of queued jobs; executorController() reads it under neither of the locks
\* that getReadyJob() takes.
CountMatchesQueues == readyJobCount = Cardinality(Queued)

\* Termination detection: when executorController() has set Finished, every
\* job that was ever pushed has been processed, although candidateQueue_,
\* readyJobCount_ and needSelect_ are read one after the other while the
\* executors run.
FinishedMeansDone == status = "Finished" => done = 1 .. created

\* Jobs reach each executor in the order they were pushed, and everything
\* still in candidateQueue_ was pushed after everything selected so far.
\* Jobs that wait for earlier jobs rely on this order not to deadlock.
FirstComeFirstServed ==
  /\ Ascending(candidate)
  /\ \A e \in Executors :
       /\ Ascending(ready[e])
       /\ \A j \in Range(ready[e]) : working[e] < j
       /\ \A j \in Range(ready[e]) \cup {working[e]} : \A k \in Range(candidate) : j < k

\* What the test for the end relies on: a needSelect_ bit is set exactly
\* between its two updates in startWaiting(), where the executor is Idle and has no
\* job in hand;
ExecutorsConsistent ==
  \A e \in Executors :
    /\ e \in needSelect <=> pc[e] \in {"askForJob", "wait", "asleep", "busy"}
    /\ executorStatus[e] = "Idle" <=> e \in needSelect
    /\ pc[e] \in {"run", "report"} => working[e] # NoJob
    /\ working[e] # NoJob => pc[e] \in {"run", "report", "exited"}
    /\ executorStatus[e] = "Error" <=> (pc[e] \in {"report", "exited"} /\ working[e] # NoJob)

\* candidateQueueLock_ keeps candidateQueue_ and readyJobCount_ as the main
\* thread has found them until it has read needSelect_;
CheckedUnderLock ==
  /\ pc[Main] \in {"checkReady", "checkSelect"} => candidate = <<>>
  /\ pc[Main] = "checkSelect" => readyJobCount = 0

\* and after a normal end nothing is left, nor comes back.
NothingLeft == status = "Finished" => candidate = <<>> /\ Queued = {} /\ InHand = {}

\* The three reads of the test for the end, made one after the other while the
\* executors run, add up to a true statement about the whole pool.
TerminationTestSound == ExecutorsConsistent /\ CheckedUnderLock /\ NothingLeft

\* An executor that sleeps with no wakeup on its way has no queued job.
NoSleeperWithJobs ==
  \A e \in Executors :
    /\ pc[e] = "asleep" /\ ~HasWakeup(executorWakeup[e])
    /\ e \notin wakeupIDs
    => ready[e] = <<>>

\* While the resource thread sleeps with no request pending, candidates and
\* idle executors do not meet: whoever came second sent a request.
NoCandidateForSleepers ==
  /\ pc[Resource] = "asleepRequest" /\ ~HasWakeup(needReadyJob)
  /\ \E e \in Executors : pc[e] = "asleep" /\ ~HasWakeup(executorWakeup[e])
  => candidate = <<>>

\* The answer the resource thread waits for in statusCheckOver_ is the answer
\* to its own request: while the pool runs no earlier one is left over.
NoStaleAnswer ==
  status = "Running" /\ pc[Resource] = "requestCheck"
  => statusCheckOver = NewSem(0) /\ pc[Main] \notin {"checkCandidate", "checkReady", "checkSelect", "checkOver"}

\* execute() returns: both control threads and all executors end and are
\* joined, with status_ Finished, or Error after a job has failed.
ExecuteReturns == <>(pc[Main] = "exited")

\* A failed job is never hidden by a normal end.
ErrorReported ==
  (\E e \in Executors : executorStatus[e] = "Error") ~> (status = "Error")

\* The pool implements the bag of work of module WorkPool.
Failed == {working[e] : e \in {f \in Executors : executorStatus[f] = "Error"}}
Pool == INSTANCE WorkPool WITH
  Workers <- Executors, todo <- Range(candidate) \cup Queued,
  doing <- working, failed <- Failed, added <- created
WorkPoolSafe == Pool!SafeSpec
=============================================================================
