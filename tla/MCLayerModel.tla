---------------------------- MODULE MCLayerModel ----------------------------
(* Command lines for TLC: paths a and b exist, c is made.                  *)
EXTENDS LayerModel

Old == {"a", "b"}
AllPaths == Old \cup {"c"}
Files == {"x", "y", "z"}
Outs == [path : Old, new : {FALSE}] \cup [path : {"b", "c"}, new : {TRUE}]
SeqsUpTo(S, lo, hi) == UNION {[1..n -> S] : n \in lo..hi}

AllArguments ==
  [inputs : SeqsUpTo(Old, 1, 2), plugins : SeqsUpTo(Old, 0, 2),
   outputs : SeqsUpTo(Outs, 1, 3), configs : SeqsUpTo(Files, 1, 3)]
=============================================================================
