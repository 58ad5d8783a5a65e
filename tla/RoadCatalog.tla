---------------------------- MODULE RoadCatalog ----------------------------
(***************************************************************************)
(* The program RoadCatalog: execute and Road_CatalogEx (ConfigCatalog.cpp) *)
(* give every road of a city a class and a catalog, in passes over the     *)
(* road layer that each read what the passes before them, and their own    *)
(* earlier roads, have written.                                            *)
(*                                                                         *)
(* A road has id, kinds, admin, func, through, sign, works (const_st 3 or  *)
(* 4), built (it lies in a built-up area), turned (direction 3), snode,    *)
(* enode and metres, which stands for both its lengths.  A row of the node *)
(* layer has id, adjoin ("" for none) and lids, the ids of its roads.      *)
(***************************************************************************)
EXTENDS RoadKinds, SequencesExt, FiniteSets, TLC

CONSTANTS Cities,   \* [roads, nodes, main]: main holds the ids of the plugin table
          Adjust    \* kindclass_adjust.txt

ASSUME CitiesAssumption == \A c \in Cities : DOMAIN c.roads \subseteq Nat \ {0}

VARIABLES city,
          nodesFound,               \* C_N can be read
          roads, class, urban, catalog,
          pc, at,                   \* the pass, and its road
          level,                    \* kindclassProcess
          queue, seen,              \* of the search of the pass
          found                     \* what the search has found

vars == <<city, nodesFound, roads, class, urban, catalog, pc, at, level, queue, seen,
          found>>
Search == <<queue, seen, found>>

-----------------------------------------------------------------------------
(* The roads at a node: nodeid2lids and linkid2indexmap.                     *)

Lids(node) ==
  FlattenSeq([k \in DOMAIN city.nodes |->
    LET n == city.nodes[k] IN
    (IF n.id = node THEN n.lids ELSE <<>>) \o (IF n.adjoin = node THEN n.lids ELSE <<>>)])
RoadOf(lid) == {r \in DOMAIN roads : roads[r].id = lid}
Around(node) ==
  FlattenSeq([k \in DOMAIN Lids(node) |-> SetToSeq(RoadOf(Lids(node)[k]))])
\* Mutant: only one end is looked at.
OneEnd(r) == Around(roads[r].snode)
BothEnds(r) == Around(roads[r].snode) \o Around(roads[r].enode)

Adjoin(m, n) == \E k \in DOMAIN city.nodes : city.nodes[k].id = m /\ city.nodes[k].adjoin = n
SamePlace(m, n) == m = n \/ Adjoin(m, n) \/ Adjoin(n, m)

\* Mutant: roads that have been seen are taken again.
EachOnce(seq) ==
  LET first == SelectSeq([k \in DOMAIN seq |-> k],
                         LAMBDA k : \A j \in 1..(k - 1) : seq[j] # seq[k])
  IN [k \in DOMAIN first |-> seq[first[k]]]

\* The roads of a sequence that have not been seen, each once.
Unseen(seq) ==
  LET first == SelectSeq([k \in DOMAIN seq |-> k],
                         LAMBDA k : seq[k] \notin seen /\ \A j \in 1..(k - 1) : seq[j] # seq[k])
  IN [k \in DOMAIN first |-> seq[first[k]]]

NothingFound == [here |-> {}, there |-> {}, relief |-> {}]
Alone == [min |-> 255, ferry |-> FALSE, members |-> {}]

Init ==
  /\ city \in Cities /\ nodesFound \in BOOLEAN
  /\ roads = city.roads
  /\ class = <<>> /\ urban = <<>> /\ catalog = <<>>
  /\ pc = "prepare" /\ at = 0 /\ level = 2
  /\ queue = <<>> /\ seen = {} /\ found = NothingFound

-----------------------------------------------------------------------------
(* Road_CatalogEx, steps 1 to 3.                                             *)

\* ProcessRoadDirection.
Turned(road) ==
  IF road.turned THEN [road EXCEPT !.turned = FALSE, !.snode = road.enode,
                                   !.enode = road.snode]
                 ELSE road

FirstClass(road) ==
  AdjustmentKindClass(Adjust, road.admin, GetRoadLevelFromKind(road.kinds), road.func)

\* The rows that are taken over keep their numbers here.
Kept == {r \in DOMAIN city.roads :
           ~needDelete(city.roads[r].kinds) /\ ~Closed(city.roads[r])}

PrepareRoads ==
  /\ pc = "prepare"
  /\ roads' = [r \in Kept |-> Turned(city.roads[r])]
  /\ class' = [r \in Kept |-> FirstClass(city.roads[r])]
  /\ urban' = [r \in Kept |-> city.roads[r].built]
  /\ pc' = "areas"
  /\ UNCHANGED <<city, nodesFound, catalog, at, level, Search>>

\* The passes that read C_N are skipped when it cannot be read.
ProcessSAKindClass ==
  /\ pc = "areas"
  /\ class' = [r \in DOMAIN roads |-> IF isSA(roads[r].kinds) THEN 6 ELSE class[r]]
  /\ pc' = IF nodesFound THEN "ramps" ELSE "catalogs"
  /\ at' = 0
  /\ UNCHANGED <<city, nodesFound, roads, urban, catalog, level, Search>>

-----------------------------------------------------------------------------
\* The rows of a loop over all rows that are still to come; the first of them.
After(rows) == {r \in rows : r > at}
IsFirst(next, rows) == next \in rows /\ \A r \in rows : next <= r

(* ProcessRampKindClass: from each ramp on, over ramps, to the classes of    *)
(* the roads that it leads to; first from its end, then from its start.      *)

Item(r, node) == [road |-> r, node |-> node]

Ramps == {r \in DOMAIN roads : isRamp(roads[r].kinds)}

NextRamp ==
  /\ pc = "ramps"
  /\ \/ \E next \in After(Ramps) :
          /\ IsFirst(next, After(Ramps))
          /\ pc' = "forward" /\ at' = next /\ seen' = {next}
          /\ queue' = <<Item(next, roads[next].enode)>>
          /\ found' = NothingFound
          /\ UNCHANGED level
     \/ /\ After(Ramps) = {}
        /\ pc' = "levels" /\ at' = 0 /\ level' = 2 /\ seen' = {}
        /\ UNCHANGED <<queue, found>>
  /\ UNCHANGED <<city, nodesFound, roads, class, urban, catalog>>

\* The roads at the node that a ramp is left by, and the nodes that they lead to.
Onward(item) ==
  LET road == roads[item.road] IN
  (IF item.node = road.snode
   THEN SelectSeq(Around(road.snode), LAMBDA r : r # item.road) ELSE <<>>)
  \o (IF item.node = road.enode THEN Around(road.enode) ELSE <<>>)
Leaving(r, node) ==
  Item(r, IF SamePlace(roads[r].snode, node) THEN roads[r].enode ELSE roads[r].snode)

Reached(c, kinds, start) ==
  IF c \in {Ferry, Pedestrian, Works} THEN found
  ELSE [here   |-> found.here \cup (IF pc = "forward" THEN {c} ELSE {}),
        there  |-> found.there \cup (IF pc = "backward" THEN {c} ELSE {}),
        relief |-> found.relief \cup
                     (IF /\ isFulu(kinds) /\ isZhuFuluConnected(start)
                         /\ isSameKind(start, kinds, "17") THEN {c} ELSE {})]

FollowRamp ==
  /\ pc \in {"forward", "backward"} /\ queue # <<>>
  /\ LET item == Head(queue) road == roads[item.road] start == roads[at] IN
     CASE \/ road.func > start.func
          \/ isRamp(road.kinds) /\ isJCT(start.kinds) /\ ~isJCT(road.kinds) ->
            queue' = Tail(queue) /\ UNCHANGED <<seen, found>>
       [] road.func <= start.func /\ ~isRamp(road.kinds) ->
            /\ queue' = Tail(queue)
            /\ found' = Reached(class[item.road], road.kinds, start.kinds)
            /\ UNCHANGED seen
       [] OTHER ->
            LET new == Unseen(Onward(item)) IN
            /\ queue' = Tail(queue) \o [k \in DOMAIN new |-> Leaving(new[k], item.node)]
            /\ seen' = seen \cup Range(new)
            /\ UNCHANGED found
  /\ UNCHANGED <<city, nodesFound, roads, class, urban, catalog, pc, at, level>>

TurnBack ==
  /\ pc = "forward" /\ queue = <<>>
  /\ pc' = "backward"
  /\ queue' = <<Item(at, roads[at].snode)>> /\ seen' = {at}
  /\ UNCHANGED <<city, nodesFound, roads, class, urban, catalog, at, level, found>>

\* The last but one in rank of the classes, but none above the highest on either side.
Balanced(here, there) ==
  LET all == here \cup there
      second == IF Cardinality(all) = 1 THEN Min(all) ELSE Min(all \ {Min(all)})
      tops == {Min(side) : side \in {here, there} \ {{}}}
  IN Max(tops \cup {second})

RampClass(kinds, own) ==
  LET c == IF found.here \cup found.there = {} THEN own
           ELSE Balanced(found.here, found.there)
  IN CASE isZhuFuluConnected(kinds) /\ found.relief # {} -> Min(found.relief)
       [] OTHER -> IF isJCT(kinds) /\ c \notin {0, 1} THEN 1 ELSE c

AssignRamp ==
  /\ pc = "backward" /\ queue = <<>>
  /\ class' = [class EXCEPT ![at] = RampClass(roads[at].kinds, @)]
  /\ pc' = "ramps"
  /\ UNCHANGED <<city, nodesFound, roads, urban, catalog, at, level, Search>>

-----------------------------------------------------------------------------
(* CheckKindClassConnectivity: level by level, the connected roads of one    *)
(* class; a short group that meets only lower classes takes the highest of   *)
(* them.                                                                     *)

Limit == 500
Unswept == {r \in DOMAIN roads : ~roads[r].works /\ r \notin seen /\ class[r] = level}

NextGroup ==
  /\ pc = "levels"
  /\ \/ \E next \in After(Unswept) :
          /\ IsFirst(next, After(Unswept))
          /\ pc' = "group" /\ at' = next /\ seen' = seen \cup {next}
          /\ queue' = <<next>> /\ found' = [Alone EXCEPT !.members = {next}]
          /\ UNCHANGED level
     \/ /\ After(Unswept) = {} /\ level < 9
        /\ level' = level + 1 /\ at' = 0 /\ seen' = {}
        /\ UNCHANGED <<pc, queue, found>>
     \/ /\ After(Unswept) = {} /\ level = 9
        /\ pc' = "built" /\ at' = 0 /\ seen' = {}
        /\ UNCHANGED <<level, queue, found>>
  /\ UNCHANGED <<city, nodesFound, roads, class, urban, catalog>>

FollowGroup ==
  /\ pc = "group" /\ queue # <<>>
  /\ LET near == SelectSeq(BothEnds(Head(queue)), LAMBDA r : ~roads[r].works)
         same == {r \in Range(near) : class[r] = level}
         others == {class[r] : r \in Range(near) \ same}
     IN /\ queue' = Tail(queue) \o Unseen(SelectSeq(near, LAMBDA r : r \in same))
        /\ seen' = seen \cup same
        /\ found' = [min |-> Min(others \cup {found.min}),
                     ferry |-> found.ferry \/ Ferry \in others,
                     members |-> found.members \cup (same \ seen)]
  /\ UNCHANGED <<city, nodesFound, roads, class, urban, catalog, pc, at, level>>

Length(group) == MapThenSumSet(LAMBDA r : roads[r].metres, group)
\* Mutant: only roads that cars use are taken for neighbours.
LoweredToRoads(group, own) ==
  Length(group.members) < Limit /\ ~group.ferry /\ group.min <= 9 /\ group.min > own

Lowered(group, own) ==
  /\ Length(group.members) < Limit /\ ~group.ferry
  /\ group.min <= 9 \/ group.min = Pedestrian
  /\ group.min > own

LowerGroup ==
  /\ pc = "group" /\ queue = <<>>
  /\ class' = [r \in DOMAIN roads |->
                 IF r \in found.members /\ Lowered(found, level) THEN found.min
                 ELSE class[r]]
  /\ pc' = "levels"
  /\ UNCHANGED <<city, nodesFound, roads, urban, catalog, at, level, Search>>

-----------------------------------------------------------------------------
(* ProcessBuildInFlag: built-up roads of class 4 and below take in the roads *)
(* of their class that they meet.  visited is seen: the road that a search   *)
(* starts from is not in it (groupIndex is 0) until the search comes back.   *)

BuiltUp == {r \in DOMAIN roads : r \notin seen /\ urban[r] /\ class[r] >= 4}

NextBuilt ==
  /\ pc = "built" /\ queue = <<>>
  /\ \/ \E next \in After(BuiltUp) :
          /\ IsFirst(next, After(BuiltUp))
          /\ at' = next /\ queue' = <<next>>
          /\ UNCHANGED <<pc, urban, seen>>
     \/ /\ After(BuiltUp) = {}
        /\ urban' = [r \in DOMAIN roads |-> urban[r] \/ r \in seen]
        /\ pc' = "catalogs" /\ at' = 0 /\ seen' = {}
        /\ UNCHANGED queue
  /\ UNCHANGED <<city, nodesFound, roads, class, catalog, level, found>>

FollowBuilt ==
  /\ pc = "built" /\ queue # <<>>
  /\ LET new == Unseen(SelectSeq(BothEnds(Head(queue)),
                                 LAMBDA r : class[r] = class[Head(queue)]))
     IN /\ queue' = Tail(queue) \o new
        /\ seen' = seen \cup Range(new)
  /\ UNCHANGED <<city, nodesFound, roads, class, urban, catalog, pc, at, level, found>>

-----------------------------------------------------------------------------
(* Step 6, SmoothRoadCatalog and RecatalogMainRoad.                          *)

AssignCatalogs ==
  /\ pc = "catalogs"
  /\ catalog' = [r \in DOMAIN roads |-> Catalog(roads[r], class[r], urban[r])]
  /\ pc' = "smooth" /\ at' = 0
  /\ UNCHANGED <<city, nodesFound, roads, class, urban, level, Search>>

\* The other roads with an end at a node: once for each end, in the order of the rows; the
\* main catalogs among them, and how often one occurs.
Others(node, r) ==
  FlattenSeq([k \in DOMAIN city.roads |->
    IF k \notin DOMAIN roads \ {r} THEN <<>>
    ELSE (IF roads[k].snode = node THEN <<k>> ELSE <<>>)
         \o (IF roads[k].enode = node THEN <<k>> ELSE <<>>)])
Mains(node, r) ==
  {catalog[k].main : k \in {k \in DOMAIN roads \ {r} : node \in {roads[k].snode, roads[k].enode}}}
Times(node, r, main) ==
  Cardinality({k \in DOMAIN Others(node, r) : catalog[Others(node, r)[k]].main = main})
Known(main) == main # Unknown.main
Apart(a, b) == IF a > b THEN a - b ELSE b - a

\* The road at the end whose catalog is taken: the first of those nearest in rank; one
\* of an unknown rank is taken at once, and all are for a road of an unknown rank.
Nearest(r, choices) ==
  LET own == catalog[r].main
      best[k \in 0..Len(choices)] ==
        IF k = 0 THEN [road |-> r, apart |-> 100]
        ELSE LET before == best[k - 1] main == catalog[choices[k]].main IN
             IF ~(Known(own) /\ Known(main)) THEN [before EXCEPT !.road = choices[k]]
             ELSE IF Apart(own, main) < before.apart
                  THEN [road |-> choices[k], apart |-> Apart(own, main)] ELSE before
  IN best[Len(choices)].road

\* Mutant: only the roads at the start may have its catalog.
SmoothedAtStart(r) ==
  LET snode == roads[r].snode enode == roads[r].enode own == catalog[r].main
      choices == SelectSeq(Others(enode, r),
                           LAMBDA k : /\ catalog[k].main \in Mains(snode, r)
                                      /\ roads[r].metres <= 50
                                      /\ Times(snode, r, catalog[k].main) % 2 = 1)
  IN IF own = 8 \/ own \in Mains(snode, r) THEN catalog[r]
     ELSE catalog[Nearest(r, choices)]

Smoothed(r) ==
  LET snode == roads[r].snode enode == roads[r].enode own == catalog[r].main
      choices == SelectSeq(Others(enode, r),
                           LAMBDA k : /\ catalog[k].main \in Mains(snode, r)
                                      /\ roads[r].metres <= 50
                                      /\ Times(snode, r, catalog[k].main) % 2 = 1)
  IN IF own = 8 \/ own \in Mains(snode, r) \cup Mains(enode, r) THEN catalog[r]
     ELSE catalog[Nearest(r, choices)]

Smoothable == {r \in DOMAIN roads : ~isRLink(roads[r].kinds)}

SmoothRoad ==
  /\ pc = "smooth"
  /\ \/ \E next \in After(Smoothable) :
          /\ IsFirst(next, After(Smoothable))
          /\ catalog' = [catalog EXCEPT ![next] = Smoothed(next)]
          /\ at' = next /\ UNCHANGED pc
     \/ After(Smoothable) = {} /\ pc' = "main" /\ UNCHANGED <<at, catalog>>
  /\ UNCHANGED <<city, nodesFound, roads, class, urban, level, Search>>

RecatalogMainRoad ==
  /\ pc = "main"
  /\ catalog' = [r \in DOMAIN roads |->
                   IF roads[r].id \in city.main THEN MainRoad ELSE catalog[r]]
  /\ pc' = "done"
  /\ UNCHANGED <<city, nodesFound, roads, class, urban, at, level, Search>>

Done == pc = "done" /\ UNCHANGED vars

Next ==
  \/ PrepareRoads \/ ProcessSAKindClass
  \/ NextRamp \/ FollowRamp \/ TurnBack \/ AssignRamp
  \/ NextGroup \/ FollowGroup \/ LowerGroup
  \/ NextBuilt \/ FollowBuilt
  \/ AssignCatalogs \/ SmoothRoad \/ RecatalogMainRoad
  \/ Done

Spec == Init /\ [][Next]_vars

-----------------------------------------------------------------------------
(* Properties.                                                               *)

\* Roads that meet, said without the tables that the passes build.
Ends(r) == {roads[r].snode, roads[r].enode}
Meet(r, s) == r # s /\ \E m \in Ends(r), n \in Ends(s) : SamePlace(m, n)
LevelsDone == nodesFound /\ pc \in {"built", "catalogs", "smooth", "main", "done"}

\* A ramp between motorways is of class 0 or 1 in the end (ConfigCatalog.cpp:3440), whatever
\* relief roads it also leads to and whatever the later passes make of its neighbours.
JunctionsStayFast ==
  LevelsDone => \A r \in DOMAIN roads :
                  isJCT(roads[r].kinds) => class[r] \in {0, 1}

\* While a ramp is followed no relief road is ever found, whatever the city: the rule for
\* the exits to relief roads (ConfigCatalog.cpp:3449) never decides anything, and so it
\* never takes a junction out of the classes 0 and 1 either.
ReliefNeverFound == pc \in {"forward", "backward"} => found.relief = {}

\* One sweep over the classes from 2 to 9 is enough: after it no short roads of one class
\* that meet lower classes only are left, though each lowering changes what others meet.
Settled ==
  LevelsDone =>
    ~\E group \in SUBSET {r \in DOMAIN roads : ~roads[r].works}, c \in 2..9 :
       LET met == {class[s] : s \in {s \in DOMAIN roads \ group :
                                       ~roads[s].works /\ \E r \in group : Meet(r, s)}}
       IN /\ group # {} /\ \A r \in group : class[r] = c
          /\ Length(group) < Limit
          /\ met # {} /\ met \cap ((0..c) \cup {Ferry}) = {}
          /\ Min(met) \in (0..9) \cup {Pedestrian}

\* A road of class 4 or below that meets a built-up road of its class is built-up, wherever
\* the searches have started and though they mark all roads but the one they start from.
BuiltUpSpreads ==
  nodesFound /\ pc \in {"catalogs", "smooth", "main", "done"} =>
    \A r, s \in DOMAIN roads :
      Meet(r, s) /\ class[r] = class[s] /\ class[r] >= 4 => urban[r] = urban[s]

\* Smoothing, which changes the catalogs that it goes on to read, never takes one of two
\* roads that meet in one main catalog out of it.
NeighboursKept ==
  [][pc = "smooth" =>
       \A r, s \in DOMAIN roads :
         r # s /\ Ends(r) \cap Ends(s) # {} /\ catalog[r].main = catalog[s].main =>
           catalog'[r].main = catalog'[s].main]_vars

\* The passes come to an end on every city, although searches go round in circles of roads
\* and lowering a group makes its roads roads of a class that is still to be swept: each step
\* takes this measure, which is bounded, further.
Pass == CASE pc = "prepare" -> 0 [] pc = "areas" -> 1
          [] pc \in {"ramps", "forward", "backward"} -> 2
          [] pc \in {"levels", "group"} -> 3
          [] pc = "built" -> 4 [] pc = "catalogs" -> 5 [] pc = "smooth" -> 6
          [] pc = "main" -> 7 [] OTHER -> 8
Stage == CASE pc \in {"forward", "group"} -> 0 [] pc = "backward" -> 1 [] OTHER -> 2
Measure == <<Pass, level, at, Stage, Cardinality(seen), 9 - Len(queue)>>
StepsAdvance ==
  [][\E i \in 1..6 : /\ Measure'[i] > Measure[i]
                     /\ \A j \in 1..(i - 1) : Measure'[j] = Measure[j]]_vars

\* "at the exits and entries between main and relief road, the highest class of the relief
\* roads is taken" (ConfigCatalog.cpp:3449): once both searches have met a relief road of
\* the ramp's kinds but for "17", its class is at hand.
ReliefRoadsDecide ==
  pc = "backward" /\ queue = <<>> /\ isZhuFuluConnected(roads[at].kinds) =>
    \A r \in seen :
      /\ ~isRamp(roads[r].kinds) /\ isFulu(roads[r].kinds)
      /\ roads[r].func <= roads[at].func /\ class[r] \in 0..9
      /\ GetRoadLevelFromKind(roads[r].kinds) = GetRoadLevelFromKind(roads[at].kinds)
      /\ {k \in roads[r].kinds : k.attr # "17"} = {k \in roads[at].kinds : k.attr # "17"}
      => found.relief # {}
=============================================================================
