------------------------------- MODULE Groups -------------------------------
(***************************************************************************)
(* Groups, from their text to the answers of the operators that use them:  *)
(* parseGroupArgs and parseGroupInfo (Config.cpp), the keys and the map of *)
(* groups, the building of static groups and, item by item, of dynamic     *)
(* ones (Group.cpp), the caches of an item (MifType.cpp) and the operators *)
(* on groups (NormalOperators.cpp, SpecialOperators.cpp).  The jobs that   *)
(* build static groups are modelled in JobPipeline; here each group is     *)
(* parsed, built and initialised in one step each, in any order that the   *)
(* jobs allow.                                                             *)
(*                                                                         *)
(* A text is a sequence of words; a word is a bracket, a comma, an arrow,  *)
(* a blank or a member of Names.                                           *)
(***************************************************************************)
EXTENDS GeometryChecks, SequencesExt, FiniteSets, TLC

CONSTANTS Names,       \* a function from names to the sums of their characters
          Files,       \* 1..n
          Cases        \* what may be run: [plugin, input, program], two layers as
                       \* sequences of rows [selected, new, tag, shape] and [old, tag,
                       \* shape], and the [op, text] of each file in their order; a
                       \* tag is [text, quoted], the cell with its quotes or without

\* Layers and programs are sequences.
ASSUME CasesAssumption ==
  \A c \in Cases : /\ Len(c.plugin) \in Nat /\ Len(c.input) \in Nat
                   /\ \A f \in Files : Len(c.program[f]) \in Nat

VARIABLES case,
          shared,      \* the files share an input, and so what it keeps of a row
          node,        \* value.groupPtr of each expression, 0 before it is parsed
          groups, groupMap,
          status,      \* "running", "failed" (an error), "noInfo" (info_ is null),
                       \* "freed" (a deleted group is used)
          made,        \* the groups that buildDynamicGroup made, by item and expression
          cache, cacheHolder,      \* dynamicGroupCache_ and its lock
          pc, at, row, using, results

vars == <<case, shared, node, groups, groupMap, status, made, cache,
          cacheHolder, pc, at, row, using, results>>

Plugin == case.plugin
Roads == case.input
program == case.program
Items == 1..Len(Roads)
Procs == Files \X Items
Exprs == UNION {{f} \X (1..Len(program[f])) : f \in Files}

-----------------------------------------------------------------------------
(* Texts.                                                                   *)

NoPos == 0
From(s, word, first) ==
  LET at_ == {k \in first..Len(s) : s[k] = word} IN
  IF at_ = {} THEN NoPos ELSE Min(at_)
Before(s, word, last) ==
  LET at_ == {k \in 1..last : s[k] = word} IN IF at_ = {} THEN NoPos ELSE Max(at_)
Trim(s) == LET ends == {k \in DOMAIN s : s[k] # " "} IN
           IF ends = {} THEN <<>> ELSE SubSeq(s, Min(ends), Max(ends))
Between(s, a, b) == Trim(SubSeq(s, a + 1, b - 1))

Malformed == [layer |-> <<>>, conds |-> <<>>, old |-> <<>>, new |-> <<>>, tag |-> <<>>]

\* parseGroupArgs: (layer,conditions)->tag or (layer,conditions,old,new)->tag.
GroupArgs(s) ==
  LET open == From(s, "(", 1)
      comma1 == From(s, ",", 1)
      comma2 == From(s, ",", comma1 + 1)
      comma3 == From(s, ",", comma2 + 1)
      arrow == From(s, "->", 1)
      close == IF comma2 = NoPos THEN Before(s, ")", arrow)
               ELSE From(s, ")", (IF comma3 = NoPos THEN comma2 ELSE comma3) + 1)
      layer == Between(s, open, comma1)
      tag == Between(s, arrow, Len(s) + 1)
      args == [layer |-> layer, tag |-> tag,
               conds |-> Between(s, comma1, IF comma2 = NoPos THEN close ELSE comma2),
               old |-> IF comma2 = NoPos THEN <<>>
                       ELSE Between(s, comma2, IF comma3 = NoPos THEN close ELSE comma3),
               new |-> IF comma2 = NoPos \/ comma3 = NoPos THEN <<>>
                       ELSE Between(s, comma3, close)]
  IN IF \/ comma1 <= open + 1 \/ layer = <<>> \/ tag = <<>> \/ close = NoPos
        \/ (args.old = <<>>) # (args.new = <<>>)
     THEN Malformed ELSE args

\* keyGenerate of a new key: the sum of the characters before the first blank.
KeyOf(s) ==
  LET blank == From(s, " ", 1)
      counted == IF blank = NoPos THEN s ELSE SubSeq(s, 1, blank - 1)
  IN FoldLeft(LAMBDA sum, w : sum + (IF w \in DOMAIN Names THEN Names[w] ELSE 1),
              0, counted)

ItemKey(args) == KeyOf(args.layer \o args.conds)
TypeKey(args) == KeyOf(args.layer \o args.conds \o args.tag)
DynamicKey(args) == KeyOf(args.layer \o args.conds \o args.old \o args.new)

-----------------------------------------------------------------------------
(* Parsing.  A group has its type, dynamic_, info_ (the args of its text, or *)
(* Malformed when deleted), its rows or elements, and ready_.               *)

\* operator[] of a map.
Put(map, key, value) ==
  [k \in DOMAIN map \cup {key} |-> IF k = key THEN value ELSE map[k]]

NewGroup(type, dynamic, info, key, from) ==
  [type |-> type, dynamic |-> dynamic, info |-> info, key |-> key, from |-> from,
   rows |-> <<>>, ready |-> FALSE, map |-> <<>>, holder |-> <<>>, size |-> 0]

InitVars ==
  /\ node = [e \in Exprs |-> 0]
  /\ groups = <<>> /\ groupMap = <<>>
  /\ status = "running" /\ made = <<>>
  /\ cache = [i \in (Files \cup {0}) \X Items |-> <<>>]
  /\ cacheHolder = [i \in (Files \cup {0}) \X Items |-> <<>>]
  /\ pc = [p \in Procs |-> "lookup"] /\ at = [p \in Procs |-> 1]
  /\ row = [p \in Procs |-> 0] /\ using = [p \in Procs |-> <<>>]
  /\ results = [p \in Procs |-> <<>>]

Init ==
  /\ case \in Cases /\ shared \in BOOLEAN
  /\ InitVars

Geometric(args) == args.tag = <<"GEOMETRY">>
Expression(e) == program[e[1]][e[2]]

\* parseGroupInfo of a static group and findInsertGroup, by how many of the item
\* group and the type group are there already.
ParseStatic(e, args) ==
  LET item == ItemKey(args) type == TypeKey(args) n == Len(groups)
      kind == IF Geometric(args) THEN "Geometry" ELSE "Tag"
  IN CASE item \notin DOMAIN groupMap /\ type \in DOMAIN groupMap ->
            status' = "failed" /\ UNCHANGED <<groups, groupMap, node>>
       [] item \notin DOMAIN groupMap /\ type \notin DOMAIN groupMap ->
            /\ groups' = groups \o << NewGroup("Item", FALSE, args, item, 0),
                                      NewGroup(kind, FALSE, Malformed, type, n + 1) >>
            /\ groupMap' = Put(Put(groupMap, item, n + 1), type, n + 2)
            /\ node' = [node EXCEPT ![e] = n + 2]
            /\ UNCHANGED status
       [] item \in DOMAIN groupMap /\ type \notin DOMAIN groupMap ->
            /\ groups' = Append(groups,
                           NewGroup(kind, FALSE, Malformed, type, groupMap[item]))
            /\ groupMap' = Put(groupMap, type, n + 1)
            /\ node' = [node EXCEPT ![e] = n + 1]
            /\ UNCHANGED status
       [] OTHER ->
            /\ node' = [node EXCEPT ![e] = groupMap[type]]
            /\ UNCHANGED <<groups, groupMap, status>>

\* ... and of a dynamic one, whose key does not hold the tag; the conditions come
\* from the static group with its key when there is one.  ParseGroupJob opens ready_
\* of what it finds, whatever it is.
ParseDynamic(e, args) ==
  LET key == DynamicKey(args) n == Len(groups)
      found == ItemKey(args) \in DOMAIN groupMap
      info == IF found THEN groups[groupMap[ItemKey(args)]].info ELSE args
  IN IF key \in DOMAIN groupMap
     THEN /\ groups' = [groups EXCEPT ![groupMap[key]].ready = TRUE]
          /\ node' = [node EXCEPT ![e] = groupMap[key]]
          /\ UNCHANGED <<groupMap, status>>
     ELSE IF info = Malformed
     THEN status' = "noInfo" /\ UNCHANGED <<groups, groupMap, node>>
     ELSE /\ groups' = Append(groups,
               [NewGroup("Item", TRUE, [args EXCEPT !.conds = info.conds], key, 0)
                  EXCEPT !.ready = TRUE])
          /\ groupMap' = Put(groupMap, key, n + 1)
          /\ node' = [node EXCEPT ![e] = n + 1]
          /\ UNCHANGED status

ItemVars == <<made, cache, cacheHolder, pc, at, row, using, results>>

ParseGroup(e) ==
  /\ node[e] = 0
  /\ LET args == GroupArgs(Expression(e).text) IN
       IF args = Malformed
       THEN status' = "failed" /\ UNCHANGED <<groups, groupMap, node>>
       ELSE IF args.old = <<>> THEN ParseStatic(e, args) ELSE ParseDynamic(e, args)
  /\ UNCHANGED <<case, shared, ItemVars>>

Selected(conds) == {r \in 1..Len(Plugin) : conds \in Plugin[r].selected}

\* The BuildGroup jobs of an item group.
BuildGroup(g) ==
  /\ groups[g].type = "Item" /\ ~groups[g].dynamic /\ ~groups[g].ready
  /\ groups' = [groups EXCEPT
       ![g].rows = SetToSortSeq(Selected(groups[g].info.conds), <),
       ![g].ready = TRUE]
  /\ UNCHANGED <<case, shared, node, groupMap, status, ItemVars>>

\* The last BuildGroup job: it reads info_ of the item group, waits for its rows
\* (TagGroup::init, GeometryGroup::init) and deletes its info_ unless it is dynamic.
InitGroup(g) ==
  /\ groups[g].type # "Item" /\ ~groups[g].ready
  /\ LET from == groups[groups[g].from] IN
     IF from.info = Malformed
     THEN status' = "noInfo" /\ UNCHANGED groups
     ELSE /\ from.ready
          /\ groups' = [groups EXCEPT ![g].rows = from.rows, ![g].ready = TRUE,
               ![groups[g].from].info = IF from.dynamic THEN @ ELSE Malformed]
          /\ UNCHANGED status
  /\ UNCHANGED <<case, shared, node, groupMap, ItemVars>>

-----------------------------------------------------------------------------
(* Items.                                                                   *)

ParseVars == <<case, shared, node, groups, groupMap>>
Parsed(f) == \A k \in 1..Len(program[f]) : node[<<f, k>>] # 0

E(p) == <<p[1], at[p]>>
Op(p) == Expression(E(p)).op
Group(p) == groups[node[E(p)]]
\* Mutant: always one for the files of an input.
InfoOfInput(p) == <<0, p[2]>>

Info(p) == IF shared THEN <<0, p[2]>> ELSE p

\* The key of a cached result, or of a cached dynamic group.
GroupKey(g) == IF g.dynamic THEN <<g.info.tag, g.key>> ELSE <<g.key>>
\* Mutant: the operator is left out.
ResultOfGroup(g, op) == <<GroupKey(g)>>

ResultOf(g, op) == <<GroupKey(g), op>>
ResultKey(p) == ResultOf(Group(p), Op(p))

\* An operator on geometries starts: findInsertProcessResult puts "no" for now, then
\* groupPtr->ready_.wait().  SetCoord reads info_, which a static group does not have.
Cached(p) == Op(p) \notin {"TagContain", "SetCoord"}
Lookup(p) ==
  /\ pc[p] = "lookup" /\ Parsed(p[1]) /\ at[p] <= Len(program[p[1]])
  /\ IF Cached(p) /\ ResultKey(p) \in DOMAIN results[p]
     THEN at' = [at EXCEPT ![p] = @ + 1] /\ UNCHANGED <<pc, results, status>>
     ELSE IF Op(p) = "SetCoord" /\ Group(p).info = Malformed
     THEN status' = "noInfo" /\ UNCHANGED <<at, pc, results>>
     ELSE /\ Group(p).ready
          /\ pc' = [pc EXCEPT ![p] = IF Group(p).dynamic THEN "cache" ELSE "check"]
          /\ results' = [results EXCEPT ![p] = Put(@, ResultKey(p), "no")]
          /\ UNCHANGED <<at, status>>
  /\ UNCHANGED <<ParseVars, made, cache, cacheHolder, row, using>>

\* findBuildDynamicGroup, under the lock of the cache.
FindCached(p) ==
  /\ pc[p] = "cache" /\ cacheHolder[Info(p)] = <<>>
  /\ LET key == GroupKey(Group(p)) IN
     IF key \in DOMAIN cache[Info(p)]
     THEN /\ using' = [using EXCEPT ![p] = cache[Info(p)][key]]
          /\ pc' = [pc EXCEPT ![p] = "check"]
          /\ UNCHANGED cacheHolder
     ELSE /\ cacheHolder' = [cacheHolder EXCEPT ![Info(p)] = p]
          /\ pc' = [pc EXCEPT ![p] = "size"]
          /\ UNCHANGED using
  /\ UNCHANGED <<ParseVars, status, made, cache, at, row, results>>

ItemOnly == <<case, shared, node, groupMap, status, made, cache, cacheHolder,
              at, using, results>>

\* buildDynamicGroup: size_ without the lock, ...
TestSize(p) ==
  /\ pc[p] = "size"
  /\ pc' = [pc EXCEPT ![p] = IF Group(p).size = 0 THEN "lock" ELSE "match"]
  /\ UNCHANGED <<ItemOnly, groups, row>>

\* ... and again with it, ...
LockMap(p) ==
  /\ pc[p] = "lock" /\ Group(p).holder = <<>>
  /\ IF Group(p).size = 0
     THEN /\ groups' = [groups EXCEPT ![node[E(p)]].holder = p]
          /\ pc' = [pc EXCEPT ![p] = "fill"] /\ row' = [row EXCEPT ![p] = 1]
     ELSE pc' = [pc EXCEPT ![p] = "match"] /\ UNCHANGED <<groups, row>>
  /\ UNCHANGED ItemOnly

\* Mutant: size_ counts the rows as they come.
FillCounting(p) ==
  /\ pc[p] = "fill" /\ row[p] <= Len(Plugin)
  /\ groups' = IF row[p] \in Selected(Group(p).info.conds)
               THEN [groups EXCEPT ![node[E(p)]].map = Put(@, Plugin[row[p]].new, row[p]),
                                   ![node[E(p)]].size = @ + 1]
               ELSE groups
  /\ row' = [row EXCEPT ![p] = @ + 1]
  /\ UNCHANGED <<ItemOnly, pc>>

\* ... then the rows one by one; a later row takes the place of an earlier one.
FillMap(p) ==
  /\ pc[p] = "fill" /\ row[p] <= Len(Plugin)
  /\ groups' = IF row[p] \in Selected(Group(p).info.conds)
               THEN [groups EXCEPT ![node[E(p)]].map = Put(@, Plugin[row[p]].new, row[p])]
               ELSE groups
  /\ row' = [row EXCEPT ![p] = @ + 1]
  /\ UNCHANGED <<ItemOnly, pc>>

SetSize(p) ==
  /\ pc[p] = "fill" /\ row[p] > Len(Plugin)
  /\ groups' = [groups EXCEPT
                  ![node[E(p)]].size = Cardinality(DOMAIN Group(p).map),
                  ![node[E(p)]].holder = <<>>]
  /\ pc' = [pc EXCEPT ![p] = "match"]
  /\ UNCHANGED <<ItemOnly, row>>

\* The rows for the values of the old tag make the new group; only one that is not
\* empty is cached.
MatchedRows(p) ==
  SetToSortSeq({Group(p).map[v] : v \in Roads[p[2]].old \cap DOMAIN Group(p).map}, <)
MatchRows(p) ==
  /\ pc[p] = "match"
  /\ LET args == Group(p).info rows == MatchedRows(p) me == <<p, at[p]>> IN
     /\ made' = Put(made, me, [type |-> IF Geometric(args) THEN "Geometry" ELSE "Tag",
                               rows |-> rows, freed |-> FALSE])
     /\ using' = [using EXCEPT ![p] = me]
     /\ cache' = IF rows = <<>> THEN cache
                 ELSE [cache EXCEPT ![Info(p)] = Put(@, GroupKey(Group(p)), me)]
  /\ cacheHolder' = [cacheHolder EXCEPT ![Info(p)] = <<>>]
  /\ pc' = [pc EXCEPT ![p] = "check"]
  /\ UNCHANGED <<ParseVars, status, at, row, results>>

-----------------------------------------------------------------------------
(* The operators.                                                           *)

Used(p) == IF Group(p).dynamic THEN made[using[p]] ELSE Group(p)
Elements(rows) == [k \in DOMAIN rows |-> Plugin[rows[k]].shape]
Shapes(g) == [type |-> Head(Plugin).shape.type, elements |-> Elements(g.rows)]
Road(p) == Roads[p[2]]
Input == Head(Roads).shape.type

\* The item's value loses its quotes, the group holds the cells as they are.
TagContain(p, g) ==
  LET trimmed == [Road(p).tag EXCEPT !.quoted = FALSE] IN
  IF g.type # "Tag" \/ trimmed.text = "" THEN "error"
  ELSE IF \E k \in DOMAIN g.rows : Plugin[g.rows[k]].tag = trimmed
       THEN "yes" ELSE "no"

Geo(p, g, Check(_, _, _)) ==
  IF g.type # "Geometry" THEN "error" ELSE Check(Input, Road(p).shape, Shapes(g))
GeoContain(p, g) == Geo(p, g, CheckOneContain)
GeoContainAll(p, g) == Geo(p, g, CheckAllContain)
GeoContained(p, g) == Geo(p, g, CheckOneContained)
GeoContainedAll(p, g) == Geo(p, g, CheckAllContained)
GeoIntersect(p, g) == Geo(p, g, CheckOneIntersect)
GeoIntersectAll(p, g) == Geo(p, g, CheckAllIntersect)
GeoAtEdge(p, g) == Geo(p, g, CheckOneAtEdge)
GeoAtEdgeAll(p, g) == Geo(p, g, CheckAllAtEdge)
GeoDeparture(p, g) == Geo(p, g, CheckOneDeparture)
GeoDepartureAll(p, g) == Geo(p, g, CheckAllDeparture)

\* FuncOperatorSetCoord, of points only; the coordinates are left out.
SetCoord(p, g) ==
  IF Input = "Point" /\ g.type = "Geometry" /\ Shapes(g).type = "Point"
  THEN "yes" ELSE "error"

Outcome(p, g) ==
  CASE Op(p) = "TagContain" -> TagContain(p, g)
    [] Op(p) = "GeoContain" -> GeoContain(p, g)
    [] Op(p) = "GeoContainAll" -> GeoContainAll(p, g)
    [] Op(p) = "GeoContained" -> GeoContained(p, g)
    [] Op(p) = "GeoContainedAll" -> GeoContainedAll(p, g)
    [] Op(p) = "GeoIntersect" -> GeoIntersect(p, g)
    [] Op(p) = "GeoIntersectAll" -> GeoIntersectAll(p, g)
    [] Op(p) = "GeoAtEdge" -> GeoAtEdge(p, g)
    [] Op(p) = "GeoAtEdgeAll" -> GeoAtEdgeAll(p, g)
    [] Op(p) = "GeoDeparture" -> GeoDeparture(p, g)
    [] Op(p) = "GeoDepartureAll" -> GeoDepartureAll(p, g)
    [] Op(p) = "SetCoord" -> SetCoord(p, g)

Process(p) ==
  /\ pc[p] = "check"
  /\ LET g == Used(p) outcome == Outcome(p, g) IN
     IF Group(p).dynamic /\ g.freed
     THEN status' = "freed" /\ UNCHANGED <<at, pc, results>>
     ELSE IF outcome = "error"
     THEN status' = "failed" /\ UNCHANGED <<at, pc, results>>
     ELSE /\ results' = [results EXCEPT ![p][ResultKey(p)] = outcome]
          /\ at' = [at EXCEPT ![p] = @ + 1]
          /\ pc' = [pc EXCEPT ![p] = "lookup"]
          /\ UNCHANGED status
  /\ UNCHANGED <<ParseVars, made, cache, cacheHolder, row, using>>

\* ~MifItem deletes the groups that the caches of the row hold.
DeleteItem(p) ==
  /\ pc[p] = "lookup" /\ Parsed(p[1]) /\ at[p] > Len(program[p[1]])
  /\ cacheHolder[Info(p)] = <<>>
  /\ made' = [k \in DOMAIN made |->
                IF k \in Range(cache[Info(p)]) THEN [made[k] EXCEPT !.freed = TRUE]
                                               ELSE made[k]]
  /\ cache' = [cache EXCEPT ![Info(p)] = <<>>]
  /\ pc' = [pc EXCEPT ![p] = "done"]
  /\ UNCHANGED <<ParseVars, status, cacheHolder, at, row, using, results>>

Ended == (status # "running" \/ \A p \in Procs : pc[p] = "done") /\ UNCHANGED vars

Next ==
  \/ status = "running" /\ \E e \in Exprs : ParseGroup(e)
  \/ status = "running" /\ \E g \in DOMAIN groups : BuildGroup(g) \/ InitGroup(g)
  \/ status = "running" /\ \E p \in Procs :
       \/ Lookup(p) \/ FindCached(p) \/ TestSize(p) \/ LockMap(p)
       \/ FillMap(p) \/ SetSize(p) \/ MatchRows(p) \/ Process(p) \/ DeleteItem(p)
  \/ Ended

Spec == Init /\ [][Next]_vars
-----------------------------------------------------------------------------
(* Properties.                                                              *)

\* What the text of an expression asks, by the definitions alone.
LastRow(rows, v) == Max({r \in rows : Plugin[r].new = v})
Meant(i, args) ==
  LET rows == Selected(args.conds) IN
  IF args.old = <<>> THEN rows
  ELSE {LastRow(rows, v) : v \in Roads[i].old \cap {Plugin[r].new : r \in rows}}
Close(a, b) == Min(a.cells) <= Max(b.cells) /\ Min(b.cells) <= Max(a.cells)
Reference(i, op, args) ==
  LET rows == Meant(i, args) src == Roads[i].shape
      Some(rel) == \E r \in rows : Relation(src, Plugin[r].shape) = rel
      SomeIn(rel) == \E r \in rows : Relation(Plugin[r].shape, src) = rel
      close == {r \in rows : Close(Plugin[r].shape, src)}
      All(rel) == close # {} /\ \A r \in close : Relation(src, Plugin[r].shape) = rel
      AllIn(rel) == close # {} /\ \A r \in close : Relation(Plugin[r].shape, src) = rel
  IN CASE op = "TagContain" -> \E r \in rows : Plugin[r].tag.text = Roads[i].tag.text
       [] op = "GeoContain" -> SomeIn(Wanted(Input))
       [] op = "GeoContainAll" -> AllIn(Wanted(Input))
       [] op = "GeoContained" -> Some(Wanted(Head(Plugin).shape.type))
       [] op = "GeoContainedAll" -> AllIn(Wanted(Head(Plugin).shape.type))
       [] op = "GeoIntersect" -> Some("INTERSECT")
       [] op = "GeoIntersectAll" -> All("INTERSECT")
       [] op = "GeoAtEdge" -> Some("ONE_POINT")
       [] op = "GeoAtEdgeAll" -> All("ONE_POINT")
       [] op = "GeoDeparture" -> rows = {} \/ Some("DEPARTURE")
       [] op = "GeoDepartureAll" ->
            \A r \in rows : Relation(src, Plugin[r].shape) = "DEPARTURE"

\* Where the code answers otherwise: a cell in quotes is never found, and "all" of
\* checkAllIntersect and checkAllAtEdge is said as soon as the first close element is.
MissesQuoted(i, op, args) ==
  op = "TagContain" /\ \E r \in Meant(i, args) : /\ Plugin[r].tag.quoted
                                               /\ Plugin[r].tag.text = Roads[i].tag.text
SaysAllForSome(i, op, args) ==
  \/ op = "GeoIntersectAll" /\ Reference(i, "GeoIntersect", args)
  \/ op = "GeoAtEdgeAll" /\ Reference(i, "GeoAtEdge", args)

\* Texts that the map of groups cannot tell apart.
KeyTexts(a) ==
  {<<ItemKey(a), <<a.layer, a.conds>>>>} \cup
  IF a.old = <<>> THEN {<<TypeKey(a), <<a.layer, a.conds, a.tag>>>>}
                  ELSE {<<DynamicKey(a), <<a.layer, a.conds, a.old, a.new, a.tag>>>>}
Clash == \E d, e \in Exprs :
  \E k \in KeyTexts(GroupArgs(Expression(d).text)) :
    \E m \in KeyTexts(GroupArgs(Expression(e).text)) : k[1] = m[1] /\ k[2] # m[2]

Given(p, k) ==
  results[p][ResultOf(groups[node[<<p[1], k>>]], program[p[1]][k].op)]

\* In the end every item has been told what the text of its condition means, whether
\* the answer was computed or cached, for itself or in another condition of the group,
\* as long as no two texts share a key.  (GeoContainedAll is compared with what its
\* check asks, the elements in the item.)  Two answers may differ: a no for a text that
\* the group holds in quotes, and a yes to all of which only some are so.
AnswersFollowDistinctTexts ==
  (\A p \in Procs : pc[p] = "done") /\ ~Clash =>
    \A p \in Procs : \A k \in 1..Len(program[p[1]]) :
      LET op == program[p[1]][k].op
          args == GroupArgs(program[p[1]][k].text)
      IN op # "SetCoord" =>
           \/ (Given(p, k) = "yes") = Reference(p[2], op, args)
           \/ Given(p, k) = "no" /\ MissesQuoted(p[2], op, args)
           \/ Given(p, k) = "yes" /\ SaysAllForSome(p[2], op, args)

\* buildDynamicGroup reads the map only when every row has been entered.
MapCompleteWhenRead ==
  \A p \in Procs : pc[p] = "match" =>
    LET rows == Selected(Group(p).info.conds) IN
    Group(p).map = [v \in {Plugin[r].new : r \in rows} |-> LastRow(rows, v)]

\* A deleted group is used only when files share what an input keeps of its rows.
FreedOnlyWhenShared == status = "freed" => shared
=============================================================================
