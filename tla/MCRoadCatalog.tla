-------------------------- MODULE MCRoadCatalog --------------------------
(***************************************************************************)
(* Cities of four roads: a line, a star and a circle with a road to it,    *)
(* with the kinds that a pass tells apart; at the border of a map sheet a  *)
(* place has two nodes, each the other's neighbour.                        *)
(***************************************************************************)
EXTENDS RoadCatalog

K(l, attr) == [level |-> l, attr |-> attr]
Plain(l) == {K(l, "02")}

\* What the roads of a city are picked from: kinds and length.
Road(kinds, metres) ==
  [kinds |-> kinds, metres |-> metres, func |-> 3, admin |-> "A", through |-> TRUE,
   sign |-> "", works |-> FALSE, built |-> FALSE, turned |-> FALSE]

Motorway == [Road(Plain(0), 700) EXCEPT !.sign = "S"]
Relief == Road({K(3, "0a")}, 700)
Interchange == Road({K(3, "0a"), K(3, "03")}, 700)
Ramp == Road({K(3, "0b")}, 300)
SlowRamp == [Ramp EXCEPT !.func = 2]
Exit == Road({K(3, "0a"), K(3, "17")}, 300)
Junction == Road({K(3, "03"), K(3, "17"), K(3, "0a")}, 300)
RestArea == Road({K(0, "07")}, 40)
RampRoads == {Motorway, Relief, Interchange, Ramp, Exit, Junction}

Short(c) == Road(Plain(c), 200)
Long(c) == Road(Plain(c), 700)
Village(c, built) == [Short(c) EXCEPT !.built = built]
GroupRoads == {Short(2), Long(3), Short(4), Village(6, TRUE), Short(6), Road(Plain(11), 200)}

Lane(c) == Road(Plain(c), 40)
RLink == Road({K(4, "04")}, 40)
Walk == Road({K(6, "09")}, 40)
SmoothRoads == {[Lane(0) EXCEPT !.turned = TRUE], Lane(2), Long(3), Lane(4), RLink, Walk}

\* Roads that occur once.
Odd == <<[Road({K(6, "0f")}, 40) EXCEPT !.through = FALSE],      \* not taken over
         Road({K(6, "18")}, 40),
         [Short(4) EXCEPT !.works = TRUE], Road(Plain(10), 200), RestArea, SlowRamp,
         Road({K(1, "0f")}, 40), Road({K(2, "08")}, 40), Road({K(13, "02")}, 40)>>

Line == <<<<"1", "2">>, <<"2", "3">>, <<"3", "4">>, <<"4", "5">>>>
Star == <<<<"1", "2">>, <<"3", "2">>, <<"2", "4">>, <<"4", "5">>>>
Circle == <<<<"1", "2">>, <<"2", "3">>, <<"3", "1">>, <<"3", "4">>>>
Sheets == <<<<"1", "2">>, <<"2", "3">>, <<"3'", "4">>, <<"4", "5">>>>
Across(n) == CASE n = "3" -> "3'" [] n = "3'" -> "3" [] OTHER -> ""

City(shape, picked) ==
  LET all == [r \in 1..4 |-> picked[r] @@ ("id" :> r) @@ ("snode" :> shape[r][1])
                                       @@ ("enode" :> shape[r][2])]
      names == SetToSeq(UNION {Range(shape[r]) : r \in 1..4})
  IN [roads |-> all,
      nodes |-> [k \in DOMAIN names |->
                   [id |-> names[k],
                    adjoin |-> IF shape = Sheets THEN Across(names[k]) ELSE "",
                    lids |-> SelectSeq(<<1, 2, 3, 4>>,
                                       LAMBDA r : names[k] \in Range(shape[r]))]],
      main |-> {2}]

Picks(profiles, third) ==
  {<<p[1], p[2], q, p[3]>> : p \in [1..3 -> profiles], q \in third}

MCCities ==
  {City(shape, p) : shape \in {Star, Sheets}, p \in Picks(RampRoads, {Ramp, Exit, Junction})}
    \cup {City(shape, p) : shape \in {Line, Circle},
                           p \in Picks(GroupRoads, {Short(2), Short(4), Village(6, TRUE)})}
    \cup {City(shape, p) : shape \in {Star, Circle},
                           p \in Picks(SmoothRoads, {Lane(2), Lane(4), RLink})}
    \cup {City(shape, <<Odd[k], Short(4), Ramp, Odd[m]>>) :
            shape \in {Line, Circle, Sheets}, k, m \in DOMAIN Odd}

MCAdjust == (<<"A", 4, 3>> :> 6) @@ (<<"", 6, 3>> :> 9) @@ (<<"B", 6, 3>> :> 2)
=============================================================================
