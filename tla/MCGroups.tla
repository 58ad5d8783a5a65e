------------------------------ MODULE MCGroups ------------------------------
(* Three rows of a plugin layer and two of an input: points in areas, and    *)
(* areas around points; the third row replaces the first one's new value.    *)
(* Some tags are written in quotes, in the plugin layer and in the input.    *)
EXTENDS Groups

MCNames == ("plugin" :> 10) @@ ("k==13" :> 5) @@ ("k==22" :> 5) @@ ("k==4" :> 7)
        @@ ("k==8" :> 12) @@ ("k" :> 2) @@ ("old" :> 3) @@ ("new" :> 4) @@ ("GEOMETRY" :> 20)
        @@ ("name" :> 22)

Plain(text) == [text |-> text, quoted |-> FALSE]
Quoted(text) == [text |-> text, quoted |-> TRUE]
Shape(type, cells) == [type |-> type, cells |-> cells]
Row(selected, new, tag, shape) ==
  [selected |-> selected, new |-> new, tag |-> tag, shape |-> shape]
Areas == << Row({<<"k==13">>, <<"k", " ", "k==4">>}, "v", Plain("t"), Shape("Area", {1, 2, 4})),
            Row({<<"k==13">>, <<"k==22">>}, "w", Quoted("u"), Shape("Area", {3, 4, 5})),
            Row({<<"k==13">>}, "v", Plain("t"), Shape("Area", {6, 7})) >>
Points == << [old |-> {"v"}, tag |-> Quoted("t"), shape |-> Shape("Point", {4})],
             [old |-> {"w", "x"}, tag |-> Plain("u"), shape |-> Shape("Point", {3})] >>
Spots == << Row({<<"k==13">>}, "v", Plain("t"), Shape("Point", {2})),
            Row({<<"k==22">>}, "w", Plain("u"), Shape("Point", {5})) >>
Lakes == << [old |-> {"v", "w"}, tag |-> Quoted("t"), shape |-> Shape("Area", {1, 2, 3})] >>

Static(conds, tag) == <<"(", "plugin", ",", " ">> \o conds \o <<")", "->", tag>>
Dynamic(conds, tag) ==
  <<"(", "plugin", ",">> \o conds \o <<",", "old", ",", " ", "new", ")", "->", tag>>
Ask(op, text) == [op |-> op, text |-> text]

Case(plugin, input, p1, p2) ==
  [plugin |-> plugin, input |-> input, program |-> <<p1, p2>>]
St(op, cond) == Ask(op, Static(<<cond>>, "GEOMETRY"))
Dy(op, cond) == Ask(op, Dynamic(<<cond>>, "GEOMETRY"))
Short(s) == <<Head(s)>>
Paths == << [old |-> {"v"}, tag |-> Plain("t"), shape |-> Shape("Line", {2, 3})],
            [old |-> {"v"}, tag |-> Plain("t"), shape |-> Shape("Line", {3, 4})] >>

MCCases ==
  { \* Two files ask of one dynamic group, for two rows.
    Case(Areas, Points, <<Dy("GeoContained", "k==13"), Dy("GeoDeparture", "k==13")>>,
                        <<Dy("GeoContained", "k==13")>>),
    \* The keys of k==13 and k==22 are one, and so are those of a text and of its
    \* part before a blank.
    Case(Areas, Short(Points), <<St("GeoDeparture", "k==13")>>,
                               <<St("GeoDeparture", "k==22")>>),
    Case(Areas, Short(Points),
         <<Ask("GeoAtEdge", Static(<<"k", " ", "k==4">>, "GEOMETRY"))>>,
         <<St("GeoAtEdge", "k")>>),
    \* Two types of group have one key, their groups of rows do not.
    Case(Areas, Short(Points), <<Ask("TagContain", Static(<<"k==13">>, "name"))>>,
                               <<St("GeoAtEdge", "k==4")>>),
    \* A group of tags and one of geometries from one group of rows.
    Case(Areas, Points, <<Ask("TagContain", Static(<<"k==13">>, "name"))>>,
                        <<St("GeoAtEdge", "k==13"), St("GeoAtEdgeAll", "k==13")>>),
    \* Dynamic groups that differ in the tag.
    Case(Areas, Short(Points), <<Ask("TagContain", Dynamic(<<"k==13">>, "name"))>>,
                               <<Dy("GeoContained", "k==13")>>),
    \* The key of a dynamic group is that of a static group of rows.
    Case(Areas, Short(Points), <<Dy("GeoContained", "k==13")>>, <<St("GeoDeparture", "k==8")>>),
    \* A dynamic group with the conditions of a static one.
    Case(Areas, Points, <<St("GeoDepartureAll", "k==22"), St("GeoDepartureAll", "k==22")>>,
                        <<Ask("TagContain", Dynamic(<<"k==22">>, "name"))>>),
    \* Points at the edges of areas, lines and areas among areas, and among points.
    Case(Areas, Points, <<St("GeoAtEdge", "k==13"), St("GeoAtEdgeAll", "k==13")>>, <<>>),
    Case(Areas, Paths, <<St("GeoIntersect", "k==13"), St("GeoIntersectAll", "k==13")>>, <<>>),
    Case(Spots, Lakes, <<St("GeoContain", "k==13"), Dy("GeoContainAll", "k==13")>>,
                       <<St("GeoAtEdge", "k==13")>>),
    \* An area that holds the only area of its group.
    Case(Areas, << [Lakes[1] EXCEPT !.shape.cells = 3..6] >>,
         <<St("GeoContainedAll", "k==22")>>, <<>>),
    \* Coordinates, and a text that is not a group.
    Case(Spots, Points, <<Dy("SetCoord", "k==13"), St("GeoContainedAll", "k==22")>>, <<St("SetCoord", "k==22")>>),
    Case(Spots, Lakes, <<Ask("GeoContain", <<"(", "plugin", ")", "->", "GEOMETRY">>)>>,
                       <<St("GeoContain", "k==13")>>) }
=============================================================================
