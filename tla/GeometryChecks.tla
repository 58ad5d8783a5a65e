--------------------------- MODULE GeometryChecks ---------------------------
(***************************************************************************)
(* The questions a condition asks of a group of geometries (Group.cpp).    *)
(* A geometry is [type, cells]: the cells of a strip that it covers; its   *)
(* bounding box is everything from its first cell to its last.  A group is *)
(* [type, elements], the elements in the order of the R-tree's answers.    *)
(* Every check answers "yes", "no" or "error" (CHECK_ARGS).                *)
(***************************************************************************)
EXTENDS Integers, Sequences, FiniteSetsExt

Rank(type) == CASE type = "Point" -> 2 [] type = "Line" -> 3 [] type = "Area" -> 4
Edge(g) == {Min(g.cells), Max(g.cells)}

\* wsl::intersect, of which the code uses: CONTAIN, a lies in the area b;
\* ONE_POINT, they touch at the edge of the area; DEPARTURE, nothing shared.
Touch(p, area) == p.type = "Point" /\ area.type = "Area" /\ p.cells \subseteq Edge(area)
Relation(a, b) ==
  CASE a.cells \cap b.cells = {} -> "DEPARTURE"
    [] a.cells \cap b.cells # {} /\ (Touch(a, b) \/ Touch(b, a)) -> "ONE_POINT"
    [] b.type = "Area" /\ a.cells \subseteq b.cells /\ ~Touch(a, b) -> "CONTAIN"
    [] OTHER -> IF a.type = "Area" /\ b.cells \subseteq a.cells THEN "COVER"
                                                             ELSE "INTERSECT"

\* RTreeSearch: the elements whose boxes meet that of src.
Near(g, src) ==
  SelectSeq(g.elements, LAMBDA e : /\ Min(e.cells) <= Max(src.cells)
                                   /\ Min(src.cells) <= Max(e.cells))

One(seq, Test(_)) == \E k \in DOMAIN seq : Test(seq[k])
Every(seq, Test(_)) == seq # <<>> /\ \A k \in DOMAIN seq : Test(seq[k])
Answer(g, supported, truth) ==
  IF g.elements = <<>> THEN "no"
  ELSE IF ~supported THEN "error" ELSE IF truth THEN "yes" ELSE "no"

\* src contains elements, or lies in them: lines do not do it to lines.
Containing(input, g) == Rank(input) >= Rank(g.type) /\ ~(input = "Line" /\ g.type = "Line")
ContainedIn(input, g) == Rank(input) <= Rank(g.type) /\ ~(input = "Line" /\ g.type = "Line")
Wanted(type) == IF type = "Area" THEN "CONTAIN" ELSE "INTERSECT"

CheckOneContain(input, src, g) ==
  Answer(g, Containing(input, g),
         One(Near(g, src), LAMBDA e : Relation(e, src) = Wanted(input)))

CheckAllContain(input, src, g) ==
  Answer(g, Containing(input, g),
         Every(Near(g, src), LAMBDA e : Relation(e, src) = Wanted(input)))

CheckOneContained(input, src, g) ==
  Answer(g, ContainedIn(input, g),
         One(Near(g, src), LAMBDA e : Relation(src, e) = Wanted(g.type)))

\* As in checkAllContain, the element comes first.
CheckAllContained(input, src, g) ==
  Answer(g, ContainedIn(input, g),
         Every(Near(g, src), LAMBDA e : Relation(e, src) = Wanted(g.type)))

Crossing(input, g) == input # "Point" /\ g.type # "Point"
CheckOneIntersect(input, src, g) ==
  Answer(g, Crossing(input, g),
         One(Near(g, src), LAMBDA e : Relation(src, e) = "INTERSECT"))

\* The result is set by the first element and is not taken back by a later one.
FirstOf(seq, Test(_)) == seq # <<>> /\ Test(Head(seq))
CheckAllIntersect(input, src, g) ==
  Answer(g, Crossing(input, g),
         FirstOf(Near(g, src), LAMBDA e : Relation(src, e) = "INTERSECT"))

Touching(input, g) == {input, g.type} = {"Point", "Area"}
CheckOneAtEdge(input, src, g) ==
  Answer(g, Touching(input, g),
         One(Near(g, src), LAMBDA e : Relation(src, e) = "ONE_POINT"))

CheckAllAtEdge(input, src, g) ==
  Answer(g, Touching(input, g),
         FirstOf(Near(g, src), LAMBDA e : Relation(src, e) = "ONE_POINT"))

\* Away from one: there is an element that is not even near, or not met.
CheckOneDeparture(input, src, g) ==
  IF \/ g.elements = <<>>
     \/ Len(Near(g, src)) < Len(g.elements)
     \/ One(Near(g, src), LAMBDA e : Relation(src, e) = "DEPARTURE")
  THEN "yes" ELSE "no"

CheckAllDeparture(input, src, g) ==
  IF One(Near(g, src), LAMBDA e : Relation(src, e) # "DEPARTURE")
  THEN "no" ELSE "yes"
=============================================================================
