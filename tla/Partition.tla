------------------------------ MODULE Partition ------------------------------
(***************************************************************************)
(* How the lines of a configuration file, the items of a layer or the      *)
(* items of a plugin layer are divided into jobs of perJob elements.  The  *)
(* rest joins the last whole job when it is shorter than limit: half a job *)
(* for lines and items, half a job and one for the items of a group, whose *)
(* test is <= instead of <.                                                *)
(***************************************************************************)
EXTENDS Integers

Half(perJob) == perJob \div 2

\* Jobs of exactly perJob elements; the last job begins where they end, at
\* edgeCount, which is not let below 0.
FullJobs(total, perJob, limit) ==
  LET whole == total \div perJob
  IN  IF total - whole * perJob < limit /\ whole > 0 THEN whole - 1 ELSE whole

\* Job k gets the elements start .. start + count - 1.
Slice(total, perJob, limit) ==
  LET full == FullJobs(total, perJob, limit)
  IN  [k \in 1 .. full + 1 |->
         [start |-> (k - 1) * perJob,
          count |-> IF k <= full THEN perJob ELSE total - full * perJob]]
=============================================================================
