------------------------------ MODULE WorkPool ------------------------------
(***************************************************************************)
(* What ExecutorPool promises to main(): a bag of work that executors take *)
(* from and add to.  Every job is taken once; the pool reports "Finished"  *)
(* only when no job is left anywhere, reports "Error" only when a job has  *)
(* failed.                                                                 *)
(***************************************************************************)
EXTENDS Integers

CONSTANTS Workers, MaxJobs, InitJobs, Failing

VARIABLES todo,    \* jobs nobody has taken yet
          doing,   \* doing[w]: the job worker w has in hand, 0 for none
          done,    \* jobs that ended well
          failed,  \* jobs that ended badly; their worker keeps them
          added,   \* number of jobs that ever existed
          status   \* what the pool reports

vars == <<todo, doing, done, failed, added, status>>

Init ==
  /\ todo = 1 .. InitJobs
  /\ doing = [w \in Workers |-> 0]
  /\ done = {}
  /\ failed = {}
  /\ added = InitJobs
  /\ status = "Running"

Take(w) == \E j \in todo :
  /\ doing[w] = 0
  /\ doing' = [doing EXCEPT ![w] = j]
  /\ todo' = todo \ {j}
  /\ UNCHANGED <<done, failed, added, status>>

\* The jobs a worker adds are new: no number is used twice.
Add(w) == \E n \in 1 .. MaxJobs - added :
  /\ doing[w] # 0 /\ doing[w] \notin failed
  /\ todo' = todo \cup (added + 1 .. added + n)
  /\ added' = added + n
  /\ UNCHANGED <<doing, done, failed, status>>

Succeed(w) ==
  /\ doing[w] # 0 /\ doing[w] \notin failed
  /\ done' = done \cup {doing[w]}
  /\ doing' = [doing EXCEPT ![w] = 0]
  /\ UNCHANGED <<todo, failed, added, status>>

Fail(w) ==
  /\ doing[w] \in Failing \ failed
  /\ failed' = failed \cup {doing[w]}
  /\ UNCHANGED <<todo, doing, done, added, status>>

ReportFinished ==
  /\ status = "Running"
  /\ todo = {} /\ \A w \in Workers : doing[w] = 0
  /\ status' = "Finished"
  /\ UNCHANGED <<todo, doing, done, failed, added>>

ReportError ==
  /\ status = "Running"
  /\ failed # {}
  /\ status' = "Error"
  /\ UNCHANGED <<todo, doing, done, failed, added>>

Next ==
  \/ \E w \in Workers : Take(w) \/ Add(w) \/ Succeed(w) \/ Fail(w)
  \/ ReportFinished
  \/ ReportError

SafeSpec == Init /\ [][Next]_vars
=============================================================================
