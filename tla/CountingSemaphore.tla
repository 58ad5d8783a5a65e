------------------------- MODULE CountingSemaphore -------------------------
(***************************************************************************)
(* What a Normal semaphore promises: a pool of tokens.  A thread that      *)
(* waits leaves with one token; signal adds one; signalAll adds one for    *)
(* every thread that waits without a token, and one more.                  *)
(***************************************************************************)
EXTENDS Integers, FiniteSets

CONSTANTS Threads, InitTokens

VARIABLES tokens,    \* tokens nobody has taken yet
          waiting    \* threads inside wait()

vars == <<tokens, waiting>>

Init == tokens = InitTokens /\ waiting = {}

Arrive(t) == /\ t \notin waiting
             /\ waiting' = waiting \cup {t}
             /\ UNCHANGED tokens

\* A thread leaves wait(), at once or after having slept in it.
Take(t) == /\ tokens > 0
           /\ tokens' = tokens - 1
           /\ waiting' = waiting \ {t}

Post == tokens' = tokens + 1 /\ UNCHANGED waiting

PostAll ==
  LET covered == IF tokens > Cardinality(waiting) THEN tokens
                                                  ELSE Cardinality(waiting)
  IN  tokens' = covered + 1 /\ UNCHANGED waiting

Serve == \E t \in waiting : Take(t)

Next == \/ \E t \in Threads : Arrive(t) \/ Take(t)
        \/ Post
        \/ PostAll

SafeSpec == Init /\ [][Next]_vars
Spec == SafeSpec /\ WF_vars(Serve)
=============================================================================
