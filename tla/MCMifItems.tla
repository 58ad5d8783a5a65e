----------------------------- MODULE MCMifItems -----------------------------
(* Two rows and files of two lines or one, each of which sets what the       *)
(* conditions of the others look at: the number n, the text s, the columns   *)
(* guid and new (new is in no input).  Two of the files are parsed by two    *)
(* jobs.                                                                     *)
EXTENDS MifItems, TLC

Number(k, digits) == [num |-> k, len |-> digits]
Text(k) == [num |-> NaN, len |-> k]
If(op, tag, right, quoted) ==
  [assign |-> FALSE, op |-> op, tag |-> tag, right |-> right, quoted |-> quoted,
   job |-> 1]
Set(op, tag, right, quoted) ==
  [assign |-> TRUE, op |-> op, tag |-> tag, right |-> right, quoted |-> quoted,
   job |-> 1]

\* A second job parses the lines from expression k on.
Divided(prg, k) == [i \in DOMAIN prg |-> IF i < k THEN prg[i] ELSE [prg[i] EXCEPT !.job = 2]]

MCRows == << ("n" :> Number(1, 2)) @@ ("s" :> Text(1)) @@ ("guid" :> Empty),
             ("n" :> Text(3)) @@ ("s" :> Text(2)) @@ ("guid" :> Text(32)) >>

MCPrograms ==
  { << If("==", "n", Number(1, 1), FALSE), Set("=", "n", Number(2, 1), FALSE),
       If("!=", "n", Text(3), TRUE), Set("=", "n", Text(4), TRUE) >>,
    << If("==", "n", Number(2, 2), TRUE), Set("+=", "n", Number(1, 1), FALSE),
       Set("=", "guid", Text(5), TRUE) >>,
    Divided(<< If("==", "new", Text(0), TRUE), Set("=", "n", Number(3, 1), FALSE),
       If("none", "n", Empty, FALSE), Set("=", "new", Text(3), TRUE),
       Set("<Empty>", "n", Empty, FALSE) >>, 3),
    << If("==", "n", Number(1, 1), FALSE), Set("=", "n", Text(4), TRUE),
       Set("+=", "s", Text(1), TRUE), If("==", "n", Number(2, 1), FALSE), Set("=", "new", Number(1, 1), TRUE) >>,
    << If("<", "n", Number(3, 1), FALSE), Set("<Empty>", "n", Empty, FALSE) >>,
    Divided(<< If("==", "guid", Text(0), TRUE), Set("=", "new", Text(1), TRUE),
       Set("=", "new", Number(2, 1), FALSE),
       If("!=", "new", Text(1), TRUE), Set("=", "s", Text(3), TRUE) >>, 4) }
=============================================================================
