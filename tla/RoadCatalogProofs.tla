-------------------------- MODULE RoadCatalogProofs --------------------------
(***************************************************************************)
(* For every city: the rule for relief roads decides nothing, junctions    *)
(* stay in the classes 0 and 1, and smoothing keeps neighbours together.   *)
(***************************************************************************)
EXTENDS RoadCatalog, TLAPS

\* A relief road of the kinds of an exit is itself a ramp: isSameKind ignores nothing.
LEMMA SameKindIsRamp ==
  ASSUME NEW a, NEW b, isZhuFuluConnected(a), isSameKind(a, b, "17")
  PROVE  isRamp(b)
<1>1. PICK k \in a : k.attr = "17"
  BY DEF isZhuFuluConnected, Attributes
<1>2. k \in Compared(a, "17")
  BY <1>1 DEF Compared
<1>3. k \in b
  BY <1>2 DEF isSameKind, Compared
<1> QED
  BY <1>1, <1>3 DEF isRamp, Attributes

LEMMA JunctionIsRamp ==
  ASSUME NEW kinds, isJCT(kinds)
  PROVE  isRamp(kinds)
BY DEF isJCT, isRamp

-----------------------------------------------------------------------------
(* What the passes keep: rows are numbers, and the columns have a value for  *)
(* every row.                                                                *)

Full(column) == column = [r \in DOMAIN roads |-> column[r]]
Passes == {"prepare", "areas", "ramps", "forward", "backward", "levels", "group", "built",
           "catalogs", "smooth", "main", "done"}

TypeInv ==
  /\ pc \in Passes
  /\ DOMAIN roads \subseteq Nat \ {0} /\ at \in Nat /\ level \in 2..9
  /\ DOMAIN city.roads \subseteq Nat \ {0}
  /\ pc # "prepare" => Full(class)
  /\ pc \in {"smooth", "main", "done"} => Full(catalog)

\* The junctions that the pass over the ramps has dealt with, and the group that the sweep
\* over the classes is collecting.
Junctions(rows) == {r \in rows : isJCT(roads[r].kinds)}
Assigned == CASE pc = "ramps" -> {r \in DOMAIN roads : r <= at}
              [] pc \in {"forward", "backward"} -> {r \in DOMAIN roads : r < at}
              [] pc \in {"levels", "group", "built"} -> DOMAIN roads
              [] OTHER -> IF nodesFound /\ pc \notin {"prepare", "areas"}
                          THEN DOMAIN roads ELSE {}

JunctionInv ==
  /\ \A r \in Junctions(Assigned) : class[r] \in {0, 1}
  /\ ReliefNeverFound
  /\ pc = "group" => \A r \in found.members : class[r] = level

Inv == TypeInv /\ JunctionInv

LEMMA InitInv == Init => Inv
BY CitiesAssumption DEF Init, Inv, TypeInv, JunctionInv, Passes, Full, Assigned, Junctions,
   ReliefNeverFound

LEMMA NextTypeInv ==
  ASSUME TypeInv, [Next]_vars
  PROVE  TypeInv'
<1> USE DEF TypeInv, Passes, Full
<1>1. CASE PrepareRoads
  BY <1>1 DEF PrepareRoads, Kept, Search
<1>2. CASE ProcessSAKindClass
  BY <1>2 DEF ProcessSAKindClass, Search
<1>3. CASE NextRamp
  BY <1>3 DEF NextRamp, After, IsFirst, Ramps
<1>4. CASE FollowRamp
  BY <1>4 DEF FollowRamp
<1>5. CASE TurnBack
  BY <1>5 DEF TurnBack
<1>6. CASE AssignRamp
  BY <1>6 DEF AssignRamp, Search
<1>7. CASE NextGroup
  BY <1>7 DEF NextGroup, After, IsFirst, Unswept
<1>8. CASE FollowGroup
  BY <1>8 DEF FollowGroup
<1>9. CASE LowerGroup
  BY <1>9 DEF LowerGroup, Search
<1>10. CASE NextBuilt
  BY <1>10 DEF NextBuilt, After, IsFirst, BuiltUp
<1>11. CASE FollowBuilt
  BY <1>11 DEF FollowBuilt
<1>12. CASE AssignCatalogs
  BY <1>12 DEF AssignCatalogs, Search
<1>13. CASE SmoothRoad
  BY <1>13 DEF SmoothRoad, After, IsFirst, Smoothable, Search
<1>14. CASE RecatalogMainRoad
  BY <1>14 DEF RecatalogMainRoad, Search
<1>15. CASE Done \/ UNCHANGED vars
  BY <1>15 DEF Done, vars, Search
<1> QED
  BY <1>1, <1>2, <1>3, <1>4, <1>5, <1>6, <1>7, <1>8, <1>9, <1>10, <1>11, <1>12, <1>13,
     <1>14, <1>15 DEF Next


LEMMA NextJunctionInv ==
  ASSUME Inv, [Next]_vars
  PROVE  JunctionInv'
<1> USE DEF Inv, TypeInv, JunctionInv, Full, Junctions, Assigned, ReliefNeverFound, Passes
<1>1. CASE PrepareRoads
  BY <1>1 DEF PrepareRoads, Search
<1>2. CASE ProcessSAKindClass
  BY <1>2 DEF ProcessSAKindClass, Search
<1>3. CASE NextRamp
  <2>1. CASE \E next \in After(Ramps) :
               /\ IsFirst(next, After(Ramps))
               /\ pc' = "forward" /\ at' = next /\ found' = NothingFound
    <3>1. PICK next \in After(Ramps) :
            /\ IsFirst(next, After(Ramps))
            /\ pc' = "forward" /\ at' = next /\ found' = NothingFound
      BY <2>1
    <3>2. \A r \in Junctions(DOMAIN roads) : r < next => r <= at
      BY <3>1, JunctionIsRamp DEF After, IsFirst, Ramps
    <3> QED
      BY <1>3, <3>1, <3>2 DEF NextRamp, NothingFound, After, Ramps
  <2>2. CASE After(Ramps) = {} /\ pc' = "levels"
    <3>1. \A r \in Junctions(DOMAIN roads) : r <= at
      BY <2>2, JunctionIsRamp DEF After, Ramps
    <3> QED
      BY <1>3, <2>2, <3>1 DEF NextRamp
  <2> QED
    BY <1>3, <2>1, <2>2 DEF NextRamp
<1>4. CASE FollowRamp
  <2>1. ASSUME NEW c, NEW kinds, ~isRamp(kinds)
        PROVE  Reached(c, kinds, roads[at].kinds).relief = found.relief
    BY <2>1, SameKindIsRamp DEF Reached
  <2> QED
    BY <1>4, <2>1 DEF FollowRamp
<1>5. CASE TurnBack
  BY <1>5 DEF TurnBack
<1>6. CASE AssignRamp
  <2>1. isJCT(roads[at].kinds) => RampClass(roads[at].kinds, class[at]) \in {0, 1}
    BY <1>6 DEF AssignRamp, RampClass
  <2> QED
    BY <1>6, <2>1 DEF AssignRamp, Search
<1>7. CASE NextGroup
  <2>1. \A r \in After(Unswept) : class[r] = level
    BY DEF After, Unswept
  <2> QED
    BY <1>7, <2>1 DEF NextGroup, Alone
<1>8. CASE FollowGroup
  BY <1>8 DEF FollowGroup
<1>9. CASE LowerGroup
  BY <1>9 DEF LowerGroup, Search
<1>10. CASE NextBuilt
  BY <1>10 DEF NextBuilt
<1>11. CASE FollowBuilt
  BY <1>11 DEF FollowBuilt
<1>12. CASE AssignCatalogs
  BY <1>12 DEF AssignCatalogs, Search
<1>13. CASE SmoothRoad
  BY <1>13 DEF SmoothRoad, Search
<1>14. CASE RecatalogMainRoad
  BY <1>14 DEF RecatalogMainRoad, Search
<1>15. CASE Done \/ UNCHANGED vars
  BY <1>15 DEF Done, vars, Search
<1> QED
  BY <1>1, <1>2, <1>3, <1>4, <1>5, <1>6, <1>7, <1>8, <1>9, <1>10, <1>11, <1>12, <1>13,
     <1>14, <1>15 DEF Next

THEOREM Invariance == Spec => []Inv
<1>1. Inv /\ [Next]_vars => Inv'
  BY NextTypeInv, NextJunctionInv DEF Inv
<1> QED
  BY <1>1, InitInv, PTL DEF Spec

-----------------------------------------------------------------------------
\* The rule for exits to relief roads (ConfigCatalog.cpp:3449) never decides.
THEOREM ReliefIsNeverFound == Spec => []ReliefNeverFound
BY Invariance, PTL DEF Inv, JunctionInv

\* A ramp between motorways ends up in class 0 or 1 (ConfigCatalog.cpp:3440).
THEOREM JunctionsRemainFast == Spec => []JunctionsStayFast
<1>1. Inv => JunctionsStayFast
  BY DEF Inv, TypeInv, JunctionInv, JunctionsStayFast, LevelsDone, Assigned, Junctions
<1> QED
  BY <1>1, Invariance, PTL

-----------------------------------------------------------------------------
(* Smoothing.  A road's main catalog is among those at its neighbour's ends, *)
(* and a road with a neighbour of its main catalog is left as it is.         *)

LEMMA NeighbourStays ==
  ASSUME NEW r \in DOMAIN roads, NEW s \in DOMAIN roads, r # s,
         Ends(r) \cap Ends(s) # {}, catalog[r].main = catalog[s].main
  PROVE  Smoothed(r) = catalog[r]
<1>1. catalog[r].main \in Mains(roads[r].snode, r) \cup Mains(roads[r].enode, r)
  BY DEF Mains, Ends
<1> QED
  BY <1>1 DEF Smoothed

\* The step of SmoothRoadItemCatalog never parts two roads of one main catalog that meet.
THEOREM NeighboursStayTogether == Spec => NeighboursKept
<1> DEFINE Together == pc = "smooth" =>
              \A r, s \in DOMAIN roads :
                r # s /\ Ends(r) \cap Ends(s) # {} /\ catalog[r].main = catalog[s].main =>
                  catalog'[r].main = catalog'[s].main
<1>1. ASSUME Inv, Next PROVE Together
  <2> SUFFICES ASSUME pc = "smooth",
                      NEW r \in DOMAIN roads, NEW s \in DOMAIN roads, r # s,
                      Ends(r) \cap Ends(s) # {}, catalog[r].main = catalog[s].main
               PROVE  catalog'[r].main = catalog'[s].main
    OBVIOUS
  <2>1. SmoothRoad
    BY <1>1 DEF Next, PrepareRoads, ProcessSAKindClass, NextRamp, FollowRamp, TurnBack,
       AssignRamp, NextGroup, FollowGroup, LowerGroup, NextBuilt, FollowBuilt,
       AssignCatalogs, RecatalogMainRoad, Done
  <2>2. Smoothed(r) = catalog[r] /\ Smoothed(s) = catalog[s]
    <3>1. Smoothed(r) = catalog[r]
      BY NeighbourStays
    <3>2. Ends(s) \cap Ends(r) # {} /\ s # r /\ catalog[s].main = catalog[r].main
      OBVIOUS
    <3>3. Smoothed(s) = catalog[s]
      BY <3>2, NeighbourStays
    <3> QED
      BY <3>1, <3>3
  <2>3. Full(catalog)
    BY <1>1 DEF Inv, TypeInv
  <2>4. CASE catalog' = catalog
    BY <2>4
  <2>5. ASSUME NEW next, catalog' = [catalog EXCEPT ![next] = Smoothed(next)]
        PROVE  catalog'[r].main = catalog'[s].main
    BY <2>2, <2>3, <2>5 DEF Full
  <2> QED
    BY <2>1, <2>4, <2>5 DEF SmoothRoad
<1>2. Inv /\ [Next]_vars => [Together]_vars
  BY <1>1
<1> QED
  BY <1>2, Invariance, PTL DEF Spec, NeighboursKept
=============================================================================
