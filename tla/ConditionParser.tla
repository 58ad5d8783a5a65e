-------------------------- MODULE ConditionParser --------------------------
(***************************************************************************)
(* The parser of conditions and assignments (Config.cpp, namespace         *)
(* parser): findDelimiter splits a text at the logic operators and the     *)
(* brackets, linkExpr builds the tree of the expressions by shift and      *)
(* reduce, and And, Or and Not (NormalOperators.cpp) evaluate it.          *)
(*                                                                         *)
(* A text is a sequence of words: an operator, a bracket, or an expression *)
(* such as kind%=00, which is a member of Atoms and counts as true or      *)
(* false for a road.  "&<" stands for an expression with an operator on    *)
(* whole groups, which starts with "&" as "&<[]>(..)->GEOMETRY" does.      *)
(* "1" stands for a single character, in which parseExpr finds no operator *)
(* with a tag on its left; linkExpr does not see one at the end of a text. *)
(***************************************************************************)
EXTENDS Integers, Sequences, FiniteSets, SequencesExt

CONSTANTS Atoms,       \* the expressions, a sequence, used in this order
          Words,       \* the operators and brackets that texts are made of
          MaxLength    \* bound: the words of a text

VARIABLES opType,      \* Condition or Assign
          pc,
          text,        \* the words read so far
          stack,       \* nodeStack of linkExpr
          depth        \* reduceDepth of linkExpr

vars == <<opType, pc, text, stack, depth>>

Binary == {"&&", "||", ";"}
Delimiters == Binary \cup {"!", "(", ")"}

AtomsOf(seq) == SelectSeq(seq, LAMBDA w : w \notin Delimiters)

\* An expression was read since the last delimiter.
Pending == text # <<>> /\ Last(text) \notin Delimiters

\* lastDelim, or "" for the null pointer; "&<" was read as the delimiter "&&".
LastDelim ==
  LET read == SelectSeq(text, LAMBDA w : w \in Delimiters \cup {"&<"}) IN
  IF read = <<>> THEN "" ELSE IF Last(read) = "&<" THEN "&&" ELSE Last(read)

-----------------------------------------------------------------------------
(* The nodes.  A node has at most two children; None is a null pointer.     *)

None == [op |-> "none"]
Node(op, left, d) == [op |-> op, left |-> left, right |-> None, depth |-> d]
Leaf(atom) == Node(atom, None, depth)
OpOf(delim) == IF delim = "||" THEN "or" ELSE "and"

\* The depth of the brackets is not set.
WrappedAtTop(s, delim) == Append(Front(s), Node(OpOf(delim), Last(s), 0))

\* The top of the stack becomes the left child of a binary node.
Wrapped(s, delim) ==
  Append(Front(s), Node(OpOf(delim), Last(s), depth))

\* reduceExpr: the top becomes the right child of the node below it as long as
\* that one is not of a lower depth.  An empty stack is an error.
RECURSIVE Reduced(_, _)
Reduced(s, d) ==
  IF Len(s) < 2 \/ s[Len(s) - 1].depth < d THEN s
  ELSE IF Last(s).depth < d \/ s[Len(s) - 1].right # None THEN <<>>
  ELSE Reduced(Append(Front(Front(s)),
                      [s[Len(s) - 1] EXCEPT !.right = Last(s)]), d)

-----------------------------------------------------------------------------
(* Operator::process of Not, And, Or and of the expressions: 1, 0, or -1    *)
(* for an error, when the expressions in val are true.                      *)

\* The structure is not checked.
AnyNode(node) == TRUE

\* What process() checks before it looks at a child.
Whole(node) ==
  CASE node.op \in {"and", "or"} -> node.left # None /\ node.right # None
    [] node.op = "not" -> node.left = None /\ node.right # None
    [] OTHER -> node.left = None /\ node.right = None

RECURSIVE Process(_, _)
Process(node, val) ==
  LET left == Process(node.left, val) right == Process(node.right, val) IN
  IF ~Whole(node) THEN -1
  ELSE CASE node.op = "not" -> IF right = -1 THEN -1 ELSE 1 - right
         [] node.op = "or"  -> IF left # 0 THEN left ELSE right
         [] node.op = "and" -> IF left # 1 THEN left ELSE right
         [] OTHER -> IF node.op \in val THEN 1 ELSE 0

\* satisfyConditions: no condition at all is true.
Satisfied(node, val) == IF node = None THEN 1 ELSE Process(node, val)

-----------------------------------------------------------------------------
Init ==
  /\ opType \in {"Condition", "Assign"}
  /\ pc = "reading"
  /\ text = <<>> /\ stack = <<>> /\ depth = 0

Reject == pc' = "rejected" /\ UNCHANGED <<stack, depth>>

\* The text goes on with an expression, or with a single character; it is parsed at
\* its end.
ReadExpression ==
  /\ pc = "reading" /\ ~Pending /\ Len(text) < MaxLength
  /\ Len(AtomsOf(text)) < Len(Atoms)
  /\ \E word \in {Atoms[Len(AtomsOf(text)) + 1]} \cup (Words \cap {"1"}) :
       text' = Append(text, word)
  /\ UNCHANGED <<opType, pc, stack, depth>>

\* An off-by-one in the check.
UnopenedEarly == depth <= 1

\* The bracket has no counterpart.
Unopened == depth = 0

\* An operator or a bracket that ends an expression (linkExpr 322-363).
EndExpression(delim) ==
  /\ Pending
  /\ LET pushed == Append(stack, Leaf(Last(text)))
         reduced == Reduced(pushed, depth)
     IN CASE delim = "!" \/ LastDelim = ")" \/ reduced = <<>> -> Reject
          [] delim = ")" ->
               IF Unopened \/ Reduced(reduced, depth - 1) = <<>> THEN Reject
               ELSE /\ stack' = Reduced(reduced, depth - 1)
                    /\ depth' = depth - 1 /\ UNCHANGED pc
          [] OTHER ->
               stack' = Wrapped(reduced, delim) /\ UNCHANGED <<pc, depth>>

\* One that follows another (linkExpr 365-420).  The back of an empty stack is
\* read where nothing stands to the left of a binary operator.
FollowDelimiter(delim) ==
  /\ ~Pending
  /\ CASE delim = ")" ->
            IF LastDelim \notin {"", "(", ")"} \/ Unopened THEN Reject
            ELSE depth' = depth - 1 /\ UNCHANGED <<pc, stack>>
       [] delim = "(" -> depth' = depth + 1 /\ UNCHANGED <<pc, stack>>
       [] delim = "!" ->
            IF LastDelim = ")" THEN Reject
            ELSE /\ stack' = Append(stack, Node("not", None, depth))
                 /\ UNCHANGED <<pc, depth>>
       [] OTHER ->
            IF LastDelim \notin {"", ")"} THEN Reject
            ELSE IF stack = <<>> THEN pc' = "fault" /\ UNCHANGED <<stack, depth>>
            ELSE stack' = Wrapped(stack, delim) /\ UNCHANGED <<pc, depth>>

\* Assignments have neither "||" nor "!", and a bracket after an expression or
\* a bracket belongs to a group (findDelimiter).
ReadDelimiter ==
  /\ pc = "reading" /\ Len(text) < MaxLength
  /\ \E delim \in Words \cap Delimiters :
       /\ delim = "(" => ~Pending /\ LastDelim # ")"
       /\ text' = Append(text, delim)
       /\ IF opType = "Assign" /\ delim \in {"||", "!"} THEN Reject
          ELSE EndExpression(delim) \/ FollowDelimiter(delim)
  /\ UNCHANGED opType

\* An operator on whole groups: findDelimiter compares the first character
\* with "&" where it means the second one, makes a delimiter of it and skips
\* the "<".  The rest goes on as an expression, in which parseExpr will find no
\* operator with a tag on its left.
ReadWholeGroups ==
  /\ pc = "reading" /\ "&<" \in Words /\ ~Pending /\ Len(text) < MaxLength
  /\ text' = Append(text, "&<")
  /\ FollowDelimiter("&&")
  /\ UNCHANGED opType

\* A text without delimiters is one expression, or no condition at all
\* (parseConditions, parseAssigns).
ParseWhole ==
  /\ pc = "reading" /\ Len(text) <= 1 /\ LastDelim = ""
  /\ IF text = <<"1">> \/ (text = <<>> /\ opType = "Assign")
     THEN pc' = "incomplete" /\ UNCHANGED stack
     ELSE /\ pc' = "accepted"
          /\ stack' = IF text = <<>> THEN <<None>> ELSE <<Leaf(text[1])>>
  /\ UNCHANGED <<opType, text, depth>>

\* What linkExpr makes an expression of at the end of a text (index < size() - 1).
LongRest == Pending /\ Last(text) # "1"

\* The rest of linkExpr, at the end of the text, and parseExpr of all expressions.
EndOfText ==
  /\ pc = "reading" /\ LastDelim # ""
  /\ LET reduced == IF LongRest
                     THEN Reduced(Append(stack, Leaf(Last(text))), depth)
                     ELSE stack
         linked == /\ LongRest \/ LastDelim = ")"
                   /\ depth = 0 /\ Len(reduced) = 1
                   /\ {"&<", "1"} \cap Range(Front(text)) = {} /\ Last(text) # "&<"
     IN IF linked THEN pc' = "accepted" /\ stack' = reduced
        ELSE pc' = "incomplete" /\ UNCHANGED stack
  /\ UNCHANGED <<opType, text, depth>>

Ended == pc # "reading" /\ UNCHANGED vars

Next == ReadExpression \/ ReadDelimiter \/ ReadWholeGroups
          \/ ParseWhole \/ EndOfText \/ Ended

Spec == Init /\ [][Next]_vars

-----------------------------------------------------------------------------
(* What a text means: operators from left to right without precedence, "!"  *)
(* of the next expression or bracket, brackets first.                       *)

Level(seq, i) == Cardinality({j \in 1..i : seq[j] = "("})
                   - Cardinality({j \in 1..i : seq[j] = ")"})

\* The operators outside all brackets.
Cuts(seq) == {i \in 1..Len(seq) : seq[i] \in Binary /\ Level(seq, i) = 0}
Before(seq) == SubSeq(seq, 1, Max(Cuts(seq)) - 1)
After(seq) == SubSeq(seq, Max(Cuts(seq)) + 1, Len(seq))
Inside(seq) == SubSeq(seq, 2, Len(seq) - 1)

RECURSIVE WellFormed(_)
WellFormed(seq) ==
  IF Cuts(seq) # {} THEN WellFormed(Before(seq)) /\ WellFormed(After(seq))
  ELSE IF Len(seq) < 2 THEN seq # <<>> /\ seq[1] \notin Delimiters \cup {"1"}
  ELSE IF seq[1] = "!" THEN WellFormed(Tail(seq))
  ELSE seq[1] = "(" /\ Last(seq) = ")" /\ WellFormed(Inside(seq))

RECURSIVE Holds(_, _)
Holds(seq, val) ==
  IF Cuts(seq) # {}
  THEN IF seq[Max(Cuts(seq))] = "||"
       THEN Holds(Before(seq), val) \/ Holds(After(seq), val)
       ELSE Holds(Before(seq), val) /\ Holds(After(seq), val)
  ELSE IF Len(seq) = 1 THEN seq[1] \in val
  ELSE IF seq[1] = "!" THEN ~Holds(Tail(seq), val)
  ELSE Holds(Inside(seq), val)

\* The shortest text that begins with seq and closes all brackets.
Completed(seq) ==
  seq \o (IF Pending \/ (seq # <<>> /\ Last(seq) = ")") THEN <<>> ELSE <<"x">>)
      \o [i \in 1..Level(seq, Len(seq)) |-> ")"]

Supported == opType = "Assign" => \A w \in Range(text) : w \notin {"||", "!"}

\* linkExpr reduces at a bracket after an expression, and not at the next one.
ClosedTwice == \E i \in 2..Len(text) : text[i] = ")" /\ text[i - 1] = ")"

Valuations == SUBSET (Range(Atoms) \cup {"&<"})

\* A single character at the end is ignored, where it is not an error.
Kept == IF text # <<>> /\ Last(text) = "1" THEN Front(text) ELSE text

\* The tree of an accepted text gives for every road what the text says, and
\* never an error, as long as no bracket closes right after another.  What the
\* text says is said without a single character after its last bracket: linkExpr
\* leaves it out (Config.cpp:421).
ParsedAsWritten ==
  pc = "accepted" /\ WellFormed(Kept) /\ ~ClosedTwice =>
    \A val \in Valuations :
      Satisfied(stack[1], val) = IF Holds(Kept, val) THEN 1 ELSE 0

EmptyBracket == \E i \in 2..Len(text) : text[i] = ")" /\ text[i - 1] = "("

\* An accepted text that is no formula (an expression after a bracket) does not
\* pass for a condition: some road makes its tree fail, where the structure is
\* checked again.  Two exceptions: an empty bracket at the beginning is ignored,
\* and so is a single character after the last bracket, as in (kind%=00)1.
MalformedFails ==
  pc = "accepted" /\ text # <<>> /\ ~WellFormed(Kept) /\ ~EmptyBracket =>
    \E val \in Valuations : Satisfied(stack[1], val) = -1

\* No formula is rejected, neither at one of its words nor at its end, as long
\* as no bracket closes right after another and no operator is on whole groups.
FormulasAccepted ==
  Supported /\ ~ClosedTwice /\ "&<" \notin Range(text) =>
    /\ pc \in {"rejected", "fault"} => ~WellFormed(Completed(text))
    /\ pc = "incomplete" => ~WellFormed(text)
=============================================================================
