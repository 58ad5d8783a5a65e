----------------------------- MODULE RoadKinds -----------------------------
(***************************************************************************)
(* What RoadCatalog reads off a road (ConfigCatalog.cpp).  The kinds of a  *)
(* road are a set of [level, attr], the two halves of each four-character  *)
(* word of the column "kind"; classes and levels are the numbers that      *)
(* their two hexadecimal digits stand for.                                 *)
(***************************************************************************)
EXTENDS Integers, FiniteSetsExt, Functions, TLC

Ferry == 10  Pedestrian == 11  Works == 12  Cycling == 13
Attributes(kinds) == {k.attr : k \in kinds}

GetRoadLevelFromKind(kinds) == Min({k.level : k \in kinds})

\* The line of kindclass_adjust.txt for the road's district, or the one for all.
AdjustmentKindClass(adjust, admin, class, func) ==
  CASE <<admin, class, func>> \in DOMAIN adjust -> adjust[<<admin, class, func>>]
    [] <<admin, class, func>> \notin DOMAIN adjust /\ <<"", class, func>> \in DOMAIN adjust ->
         adjust[<<"", class, func>>]
    [] OTHER -> class

isRamp(kinds) ==
  \/ Attributes(kinds) \cap {"0b", "12", "15", "16", "17"} # {}
  \/ "05" \in Attributes(kinds) /\ "0c" \notin Attributes(kinds)
isJCT(kinds) == "03" \in Attributes(kinds) /\ Attributes(kinds) \cap {"0b", "17"} # {}
isSA(kinds) == Attributes(kinds) \cap {"06", "07"} # {}
isRLink(kinds) == "04" \in Attributes(kinds)
isTunnel(kinds) == "0f" \in Attributes(kinds)
isBridge(kinds) == Attributes(kinds) \cap {"08", "1b"} # {}
isFulu(kinds) == "0a" \in Attributes(kinds)
isZhuFuluConnected(kinds) == "17" \in Attributes(kinds)
isWalkstreet(kinds) == \E k \in kinds : k.level # Ferry /\ k.attr = "09"

\* Mutant: the attribute to ignore is ignored.
ComparedWithout(kinds, ignored) == {k \in kinds : k.attr # ignored}

\* An attribute is left out only when it is ignored and "01" at once.
Compared(kinds, ignored) == {k \in kinds : ~(k.attr = ignored /\ k.attr = "01")}

isSameKind(a, b, ignored) ==
  /\ GetRoadLevelFromKind(a) = GetRoadLevelFromKind(b)
  /\ Compared(a, ignored) = Compared(b, ignored)

\* The roads that are not taken over: virtual ones, closed tunnels and bridges.
needDelete(kinds) == "18" \in Attributes(kinds)
Closed(road) ==
  ~road.through /\ road.kinds \in {{[level |-> 6, attr |-> "0f"]}, {[level |-> 8, attr |-> "0f"]}}

-----------------------------------------------------------------------------
(* Catalogs: [main, sub, state], the pairs of digits after "0C"; Unknown is  *)
(* FFFFFF.                                                                  *)

Code(main, sub, state) == [main |-> main, sub |-> sub, state |-> state]
Unknown == Code(255, 255, 255)
MainRoad == Code(7, 1, 1)

\* Motorways and expressways ...
FastSub(road, class) ==
  CASE isTunnel(road.kinds) -> 3 - class
    [] ~isTunnel(road.kinds) /\ isBridge(road.kinds) -> 4 - class
    [] OTHER -> IF class = 0 /\ road.sign = "S" THEN 2
                ELSE IF isRamp(road.kinds) THEN 5 - class ELSE 1
\* ... and all others.
SlowSub(kinds) ==
  CASE isTunnel(kinds) -> 2
    [] ~isTunnel(kinds) /\ isBridge(kinds) -> 3
    [] ~isTunnel(kinds) /\ ~isBridge(kinds) /\ isFulu(kinds) -> 4
    [] OTHER -> IF isRamp(kinds) THEN 5 ELSE 1

Main == (3 :> 4) @@ (4 :> 5) @@ (6 :> 6) @@ (8 :> 7) @@ (9 :> 7)
Built(road) == IF road.works THEN 3 ELSE 1
BuiltWhere(road, urban) == Built(road) + IF urban THEN 0 ELSE 1

Catalog(road, class, urban) ==
  CASE isWalkstreet(road.kinds) -> Code(8, 3, Built(road))
    [] OTHER ->
       CASE class \in {0, 1} -> Code(class + 1, FastSub(road, class), Built(road))
         [] class = 2 -> Code(3, SlowSub(road.kinds), Built(road))
         [] class \in {3, 4, 6, 8, 9} ->
              Code(Main[class], SlowSub(road.kinds), BuiltWhere(road, urban))
         [] class \in {Ferry, Works} -> Code(8, 1, 0)
         [] class = Pedestrian -> Code(8, 2, Built(road))
         [] class = Cycling -> Code(9, 4, Built(road))
         [] OTHER -> Unknown
=============================================================================
