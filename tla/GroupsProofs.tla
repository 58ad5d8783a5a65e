----------------------------- MODULE GroupsProofs -----------------------------
(***************************************************************************)
(* Proofs about groups for every case: buildDynamicGroup reads a map that  *)
(* is complete, although it tests size_ without the lock, and a deleted    *)
(* group is used only by files that share what an input keeps of its rows. *)
(***************************************************************************)
EXTENDS Groups, QueueLemmas

GroupFields == {"type", "dynamic", "info", "key", "from", "rows", "ready", "map",
                "holder", "size"}

\* The steps at which an item has an expression in hand, and those at which
\* the expression's group is dynamic.
Asking == {"cache", "size", "lock", "fill", "match", "check"}
Building == Asking \ {"check"}
Stages == Asking \cup {"lookup", "done"}

IsList(s) == s \in Seq({s[i] : i \in DOMAIN s})

Types ==
  /\ case \in Cases /\ shared \in BOOLEAN
  /\ IsList(groups)
  /\ \A g \in 1..Len(groups) : DOMAIN groups[g] = GroupFields
  /\ \A k \in DOMAIN groupMap : groupMap[k] \in 1..Len(groups)
  /\ node \in [Exprs -> 0..Len(groups)]
  /\ pc \in [Procs -> Stages]
  /\ at \in [Procs -> Nat \ {0}] /\ row \in [Procs -> Nat]
  /\ DOMAIN using = Procs

\* The map of a group when some rows have been entered.
MapOf(rows) == [v \in {Plugin[r].new : r \in rows} |-> LastRow(rows, v)]
SelectedOf(g) == Selected(g.info.conds)
EnteredBefore(g, k) == {r \in SelectedOf(g) : r < k}

\* size_ tells that the map is complete; until then it is empty, or belongs to
\* the item that holds the lock of the group and has come to a certain row.
MapLocked(g) ==
  /\ groups[g].dynamic => groups[g].type = "Item"
  /\ ~groups[g].dynamic => groups[g].size = 0 /\ groups[g].holder = <<>>
  /\ groups[g].size # 0 => /\ groups[g].holder = <<>>
                           /\ groups[g].map = MapOf(SelectedOf(groups[g]))
  /\ groups[g].holder = <<>> /\ groups[g].size = 0 => groups[g].map = <<>>
  /\ groups[g].holder # <<>> =>
       \E p \in Procs :
         /\ groups[g].holder = p /\ pc[p] = "fill" /\ node[E(p)] = g
         /\ row[p] \in 1..(Len(Plugin) + 1)
         /\ groups[g].map = MapOf(EnteredBefore(groups[g], row[p]))
MapsLocked == \A g \in 1..Len(groups) : MapLocked(g)

\* What an item knows of its expression's group at each step.
InHand(p) ==
  /\ pc[p] \in Asking => E(p) \in Exprs /\ node[E(p)] \in 1..Len(groups)
  /\ pc[p] \in Building => Group(p).dynamic
  /\ pc[p] = "fill" => Group(p).holder = p
  /\ pc[p] = "match" => Group(p).size # 0 \/ SelectedOf(Group(p)) = {}
GroupsInHand == \A p \in Procs : InHand(p)

\* The dynamic groups that an item made; k counts its expressions.
MadeBy(p, m) == m \in DOMAIN made /\ \E k \in Nat : m = <<p, k>>

\* When every item has a cache of its own, only the item itself deletes what
\* it made, and it is done then.
OwnersDelete ==
  /\ \A m \in DOMAIN made : DOMAIN made[m] = {"type", "rows", "freed"}
  /\ ~shared =>
       /\ DOMAIN cache = (Files \cup {0}) \X Items
       /\ \A p \in Procs : \A key \in DOMAIN cache[p] : MadeBy(p, cache[p][key])
       /\ \A m \in DOMAIN made : made[m].freed =>
            \E p \in Procs : MadeBy(p, m) /\ pc[p] = "done"
       /\ \A p \in Procs : pc[p] = "check" /\ Group(p).dynamic => MadeBy(p, using[p])
       /\ status # "freed"

Inv == Types /\ MapsLocked /\ GroupsInHand /\ OwnersDelete

-----------------------------------------------------------------------------
\* A sequence over any set is one over its own elements.
LEMMA OwnElements ==
  ASSUME NEW S, NEW s \in Seq(S)
  PROVE  IsList(s) /\ Len(s) \in Nat /\ DOMAIN s = 1..Len(s)
  <1>1. s \in [1..Len(s) -> S] /\ Len(s) \in Nat /\ DOMAIN s = 1..Len(s)
    BY LenProperties
  <1> DEFINE T == {s[i] : i \in DOMAIN s}
             n == Len(s)
  <1>2. s = [i \in 1..n |-> s[i]] /\ \A i \in 1..n : s[i] \in T
    BY <1>1
  <1>3. s \in Seq(T)
    <2> HIDE DEF T, n
    <2>1. n \in Nat
      BY <1>1 DEF n
    <2>2. [i \in 1..n |-> s[i]] \in Seq(T)
      BY <1>2, <2>1
    <2> QED BY <1>2, <2>2
  <1> QED BY <1>1, <1>3 DEF IsList

\* Appending to a list, and changing an element of it.
LEMMA ListAppend ==
  ASSUME NEW s, IsList(s), NEW x
  PROVE  /\ Len(s) \in Nat /\ DOMAIN s = 1..Len(s)
         /\ IsList(Append(s, x)) /\ Len(Append(s, x)) = Len(s) + 1
         /\ Append(s, x)[Len(s) + 1] = x
         /\ \A i \in 1..Len(s) : Append(s, x)[i] = s[i]
  <1> DEFINE S == {s[i] : i \in DOMAIN s} \cup {x}
  <1>1. s \in Seq(S) /\ x \in S
    BY SeqMonotonic DEF IsList
  <1> HIDE DEF S
  <1>2. /\ Append(s, x) \in Seq(S) /\ Len(Append(s, x)) = Len(s) + 1
        /\ Append(s, x)[Len(s) + 1] = x
        /\ \A i \in 1..Len(s) : Append(s, x)[i] = s[i]
    BY <1>1, AppendProperties
  <1> QED BY <1>1, <1>2, OwnElements

LEMMA ListAppendTwo ==
  ASSUME NEW s, IsList(s), NEW x, NEW y
  PROVE  /\ IsList(s \o <<x, y>>) /\ Len(s \o <<x, y>>) = Len(s) + 2
         /\ (s \o <<x, y>>)[Len(s) + 1] = x /\ (s \o <<x, y>>)[Len(s) + 2] = y
         /\ \A i \in 1..Len(s) : (s \o <<x, y>>)[i] = s[i]
  <1> DEFINE S == {s[i] : i \in DOMAIN s} \cup {x, y}
             t == <<x, y>>
  <1>1. s \in Seq(S) /\ x \in S /\ y \in S
    BY SeqMonotonic DEF IsList
  <1> HIDE DEF S
  <1>2. t \in Seq(S) /\ Len(t) = 2 /\ t[1] = x /\ t[2] = y
    BY <1>1
  <1> HIDE DEF t
  <1>3. /\ s \o t \in Seq(S) /\ Len(s \o t) = Len(s) + Len(t) /\ Len(s) \in Nat
        /\ \A i \in 1..Len(s) + Len(t) :
             (s \o t)[i] = IF i <= Len(s) THEN s[i] ELSE t[i - Len(s)]
    BY <1>1, <1>2, ConcatProperties, LenProperties
  <1>4. /\ (s \o t)[Len(s) + 1] = x /\ (s \o t)[Len(s) + 2] = y
        /\ \A i \in 1..Len(s) : (s \o t)[i] = s[i]
    BY <1>2, <1>3
  <1>5. IsList(s \o t)
    BY <1>3, OwnElements
  <1> QED BY <1>2, <1>3, <1>4, <1>5 DEF t

LEMMA ListUpdate ==
  ASSUME NEW s, IsList(s), NEW i \in DOMAIN s, NEW x, NEW t, t = [s EXCEPT ![i] = x]
  PROVE  /\ Len(s) \in Nat /\ IsList(t) /\ Len(t) = Len(s)
         /\ \A j \in 1..Len(s) : t[j] = IF j = i THEN x ELSE s[j]
  <1> DEFINE S == {s[j] : j \in DOMAIN s} \cup {x}
  <1>1. s \in Seq(S) /\ x \in S
    BY SeqMonotonic DEF IsList
  <1> HIDE DEF S
  <1>2. Len(s) \in Nat /\ DOMAIN s = 1..Len(s) /\ s \in [1..Len(s) -> S]
    BY <1>1, LenProperties
  <1> QED BY <1>1, <1>2, ExceptSeq, OwnElements

-----------------------------------------------------------------------------
\* What the layers of the case are.
LEMMA CaseFacts ==
  ASSUME Types
  PROVE  /\ Len(Plugin) \in Nat /\ Len(groups) \in Nat
         /\ \A f \in Files : Len(program[f]) \in Nat
         /\ \A g : SelectedOf(g) \subseteq 1..Len(Plugin)
         /\ \A p \in Procs : /\ p \in Files \X Items /\ p[1] \in Files /\ p # <<>>
                             /\ pc[p] \in Stages
                             /\ at[p] \in Nat \ {0} /\ row[p] \in Nat
         /\ \A p \in Procs : E(p) \in Exprs <=> at[p] \in 1..Len(program[p[1]])
  <1>1. /\ Len(Plugin) \in Nat /\ Len(groups) \in Nat
        /\ \A f \in Files : Len(program[f]) \in Nat
    BY CasesAssumption, ListAppend DEF Types, Plugin, program
  <1>2. \A g : SelectedOf(g) \subseteq 1..Len(Plugin)
    BY DEF SelectedOf, Selected
  <1>3. ASSUME NEW p \in Procs
        PROVE  /\ p \in Files \X Items /\ p[1] \in Files /\ p # <<>>
               /\ pc[p] \in Stages
               /\ at[p] \in Nat \ {0} /\ row[p] \in Nat
    <2>1. PICK f \in Files, i \in Items : p = <<f, i>>
      BY DEF Procs
    <2>2. p # <<>> /\ p[1] = f
      BY <2>1
    <2> QED BY <2>1, <2>2 DEF Types, Procs
  <1>4. ASSUME NEW p \in Procs
        PROVE  E(p) \in Exprs <=> at[p] \in 1..Len(program[p[1]])
    BY <1>3 DEF E, Exprs
  <1> QED BY <1>1, <1>2, <1>3, <1>4

\* The map without rows is empty, and so is the set of rows of an empty map.
LEMMA EmptyMap ==
  /\ MapOf({}) = <<>>
  /\ \A rows : DOMAIN MapOf(rows) = {} => rows = {}
  <1>1. \A f : DOMAIN f = {} /\ f = [v \in {} |-> f[v]] => f = <<>>
    OBVIOUS
  <1>2. DOMAIN MapOf({}) = {} /\ MapOf({}) = [v \in {} |-> MapOf({})[v]]
    BY DEF MapOf
  <1>3. \A rows : DOMAIN MapOf(rows) = {} => rows = {}
    BY DEF MapOf
  <1> QED BY <1>1, <1>2, <1>3

\* A later row takes the place of an earlier one.
LEMMA EnterRow ==
  ASSUME NEW rows \in SUBSET Nat, NEW k \in rows, \A r \in rows : r <= k
  PROVE  Put(MapOf(rows \ {k}), Plugin[k].new, k) = MapOf(rows)
  <1> DEFINE u == Plugin[k].new
             old == MapOf(rows \ {k})
             new == Put(old, u, k)
  <1>1. DOMAIN new = {Plugin[r].new : r \in rows}
    BY DEF MapOf, Put
  <1>2. LastRow(rows, u) = k
    <2> DEFINE T == {r \in rows : Plugin[r].new = u}
    <2>1. k \in T /\ \A y \in T : k >= y
      OBVIOUS
    <2>2. \A x \in T : (\A y \in T : x >= y) => x = k
      BY <2>1
    <2> HIDE DEF T
    <2>3. (CHOOSE x \in T : \A y \in T : x >= y) = k
      BY <2>1, <2>2
    <2> QED BY <2>3 DEF T, LastRow, Max
  <1>3. ASSUME NEW v \in {Plugin[r].new : r \in rows}, v # u
        PROVE  new[v] = LastRow(rows, v)
    <2>1. v \in DOMAIN old /\ new[v] = old[v]
      BY <1>3 DEF MapOf, Put
    <2>2. {r \in rows \ {k} : Plugin[r].new = v} = {r \in rows : Plugin[r].new = v}
      BY <1>3
    <2> QED BY <2>1, <2>2 DEF MapOf, LastRow
  <1>4. new[u] = k
    BY DEF Put
  <1>5. new = [v \in {Plugin[r].new : r \in rows} |-> new[v]]
    BY <1>1 DEF Put
  <1> QED BY <1>2, <1>3, <1>4, <1>5 DEF MapOf

-----------------------------------------------------------------------------
\* Before anything is parsed.
LEMMA InitInv == Init => Inv
  <1> SUFFICES ASSUME Init PROVE Inv OBVIOUS
  <1>1. groups = <<>> /\ Len(groups) = 0 /\ IsList(groups)
    BY EmptySeq, OwnElements DEF Init, InitVars
  <1>2. DOMAIN groupMap = {} /\ DOMAIN made = {}
    BY DEF Init, InitVars
  <1>3. Types
    BY <1>1, <1>2 DEF Init, InitVars, Types, Stages
  <1>4. MapsLocked
    BY <1>1 DEF MapsLocked
  <1>5. \A p \in Procs : pc[p] = "lookup"
    BY DEF Init, InitVars
  <1>6. GroupsInHand
    BY <1>5 DEF GroupsInHand, InHand, Asking, Building
  <1>7. OwnersDelete
    <2>1. \A p \in Procs : p \in (Files \cup {0}) \X Items
      BY DEF Procs
    <2>2. DOMAIN cache = (Files \cup {0}) \X Items /\ \A p \in Procs : DOMAIN cache[p] = {}
      BY <2>1 DEF Init, InitVars
    <2>3. status # "freed"
      BY DEF Init, InitVars
    <2> QED BY <2>2, <2>3, <1>2, <1>5 DEF OwnersDelete
  <1> QED BY <1>3, <1>4, <1>6, <1>7 DEF Inv

-----------------------------------------------------------------------------
(* Parsing and building: groups come, and those that are there keep what     *)
(* the items rely on.                                                        *)

Kept(g) ==
  /\ groups'[g].type = groups[g].type /\ groups'[g].dynamic = groups[g].dynamic
  /\ groups'[g].map = groups[g].map /\ groups'[g].holder = groups[g].holder
  /\ groups'[g].size = groups[g].size
  /\ groups[g].dynamic => groups'[g].info = groups[g].info

Fresh(group) ==
  /\ group.map = <<>> /\ group.holder = <<>> /\ group.size = 0
  /\ group.dynamic => group.type = "Item"

Grown ==
  /\ UNCHANGED <<case, shared, ItemVars>>
  /\ status' = "freed" => status' = status
  /\ IsList(groups') /\ Len(groups') \in Nat /\ Len(groups) <= Len(groups')
  /\ \A g \in 1..Len(groups') : DOMAIN groups'[g] = GroupFields
  /\ \A g \in 1..Len(groups) : Kept(g)
  /\ \A g \in (Len(groups) + 1)..Len(groups') : Fresh(groups'[g])
  /\ \A k \in DOMAIN groupMap' : groupMap'[k] \in 1..Len(groups')
  /\ node' \in [Exprs -> 0..Len(groups')]
  /\ \A e \in Exprs : node[e] # 0 => node'[e] = node[e]

LEMMA GrownKeeps ==
  ASSUME Inv, Grown
  PROVE  Inv'
  <1>1. /\ Types /\ Len(groups) \in Nat /\ Len(groups') \in Nat
        /\ UNCHANGED <<case, shared, made, cache, cacheHolder, pc, at, row, using>>
        /\ Exprs' = Exprs /\ Procs' = Procs /\ Len(groups) <= Len(groups')
    BY CaseFacts DEF Inv, Grown, ItemVars, Exprs, Procs, program, Items, Roads
  <1>2. Types'
    BY <1>1 DEF Types, Grown
  <1>3. ASSUME NEW p \in Procs, pc[p] \in Asking
        PROVE  /\ E(p) \in Exprs /\ node[E(p)] \in 1..Len(groups) /\ E(p)' = E(p)
               /\ node'[E(p)] = node[E(p)] /\ Kept(node[E(p)])
    <2>1. E(p) \in Exprs /\ node[E(p)] \in 1..Len(groups)
      BY <1>3 DEF Inv, GroupsInHand, InHand
    <2>2. E(p)' = E(p)
      BY <1>1 DEF E
    <2> QED BY <2>1, <2>2 DEF Grown
  <1>4. ASSUME NEW g \in 1..Len(groups), groups[g].dynamic
        PROVE  SelectedOf(groups[g])' = SelectedOf(groups[g])
    BY <1>1, <1>4 DEF Grown, Kept, SelectedOf, Selected, Plugin
  <1>5. MapsLocked'
    <2>1. ASSUME NEW g \in 1..Len(groups'), g \notin 1..Len(groups) PROVE MapLocked(g)'
      <3>1. Fresh(groups'[g])
        BY <2>1, <1>1 DEF Grown
      <3> QED BY <3>1 DEF Fresh, MapLocked
    <2>2. ASSUME NEW g \in 1..Len(groups) PROVE MapLocked(g)'
      <3>1. MapLocked(g) /\ Kept(g)
        BY DEF Grown, Inv, MapsLocked
      <3>2. groups[g].dynamic =>
              /\ MapOf(SelectedOf(groups[g]))' = MapOf(SelectedOf(groups[g]))
              /\ \A p : MapOf(EnteredBefore(groups[g], row[p]))'
                          = MapOf(EnteredBefore(groups[g], row[p]))
        BY <1>1, <1>4 DEF MapOf, LastRow, Plugin, EnteredBefore
      <3>3. groups[g].holder # <<>> =>
              \E p \in Procs :
                /\ groups[g].holder = p /\ pc[p] = "fill" /\ node'[E(p)'] = g
                /\ row[p] \in 1..(Len(Plugin) + 1)
                /\ groups[g].map = MapOf(EnteredBefore(groups[g], row[p]))
        BY <3>1, <1>3 DEF MapLocked, Asking
      <3> QED BY <3>1, <3>2, <3>3, <1>1 DEF MapLocked, Kept, Plugin
    <2> QED BY <2>1, <2>2 DEF MapsLocked
  <1>6. GroupsInHand'
    <2>1. ASSUME NEW p \in Procs PROVE InHand(p)'
      <3>1. CASE pc[p] \notin Asking
        BY <3>1, <1>1 DEF InHand, Asking, Building
      <3>2. CASE pc[p] \in Asking
        <4> DEFINE g == node[E(p)]
        <4>1. /\ E(p)' = E(p) /\ E(p) \in Exprs /\ node'[E(p)'] = g
              /\ g \in 1..Len(groups) /\ Kept(g) /\ Group(p) = groups[g]
          BY <3>2, <1>3 DEF Group
        <4>2. InHand(p)
          BY DEF Inv, GroupsInHand
        <4>3. Group(p)' = groups'[g]
          BY <4>1 DEF Group
        <4> HIDE DEF g
        <4>4. pc[p] = "match" => SelectedOf(Group(p))' = SelectedOf(Group(p))
          <5> SUFFICES ASSUME pc[p] = "match"
                       PROVE  SelectedOf(Group(p))' = SelectedOf(Group(p))
            OBVIOUS
          <5>1. groups[g].dynamic
            BY <4>1, <4>2 DEF InHand, Building, Asking
          <5> QED BY <5>1, <4>1, <4>3, <1>1 DEF SelectedOf, Selected, Plugin, Kept
        <4> QED BY <4>1, <4>2, <4>3, <4>4, <1>1 DEF InHand, Kept
      <3> QED BY <3>1, <3>2
    <2> QED BY <2>1, <1>1 DEF GroupsInHand
  <1>7. OwnersDelete'
    <2>1. ASSUME NEW p \in Procs, pc[p] = "check"
          PROVE  Group(p)'.dynamic = Group(p).dynamic
      <3>1. node'[E(p)'] = node[E(p)] /\ Kept(node[E(p)])
        BY <2>1, <1>3 DEF Asking
      <3> QED BY <3>1 DEF Group, Kept
    <2> QED BY <2>1, <1>1 DEF Inv, OwnersDelete, MadeBy, Grown, Items, Roads
  <1> QED BY <1>2, <1>5, <1>6, <1>7 DEF Inv

\* Where the map of groups leads after an insertion, and what a new group is.
LEMMA PutValues ==
  ASSUME NEW map, NEW n \in Nat, \A k \in DOMAIN map : map[k] \in 1..n,
         NEW last \in Nat, n <= last, NEW key, NEW value \in 1..last
  PROVE  \A k \in DOMAIN Put(map, key, value) : Put(map, key, value)[k] \in 1..last
  BY DEF Put

LEMMA NewGroups ==
  ASSUME NEW type, NEW dynamic, NEW info, NEW key, NEW from
  PROVE  /\ DOMAIN NewGroup(type, dynamic, info, key, from) = GroupFields
         /\ (dynamic => type = "Item") => Fresh(NewGroup(type, dynamic, info, key, from))
  BY DEF NewGroup, GroupFields, Fresh

LEMMA ParseStaticGrows ==
  ASSUME Types, status = "running", NEW e \in Exprs, node[e] = 0, NEW args,
         ParseStatic(e, args), UNCHANGED <<case, shared, ItemVars>>
  PROVE  Grown
  <1> DEFINE item == ItemKey(args)
             type == TypeKey(args)
             n == Len(groups)
             kind == IF Geometric(args) THEN "Geometry" ELSE "Tag"
             itemGroup == NewGroup("Item", FALSE, args, item, 0)
             typeGroup(from) == NewGroup(kind, FALSE, Malformed, type, from)
  <1>1. /\ n \in Nat /\ IsList(groups) /\ \A g \in 1..n : DOMAIN groups[g] = GroupFields
        /\ \A k \in DOMAIN groupMap : groupMap[k] \in 1..n
        /\ node \in [Exprs -> 0..n]
    BY ListAppend DEF Types
  <1>2. \/ status' = "failed" /\ UNCHANGED <<groups, groupMap, node>>
        \/ /\ groups' = groups \o <<itemGroup, typeGroup(n + 1)>>
           /\ groupMap' = Put(Put(groupMap, item, n + 1), type, n + 2)
           /\ node' = [node EXCEPT ![e] = n + 2]
           /\ UNCHANGED status
        \/ /\ groups' = Append(groups, typeGroup(groupMap[item]))
           /\ groupMap' = Put(groupMap, type, n + 1)
           /\ node' = [node EXCEPT ![e] = n + 1]
           /\ UNCHANGED status
        \/ /\ type \in DOMAIN groupMap
           /\ node' = [node EXCEPT ![e] = groupMap[type]]
           /\ UNCHANGED <<groups, groupMap, status>>
    BY DEF ParseStatic
  <1>3. /\ Fresh(itemGroup) /\ DOMAIN itemGroup = GroupFields
        /\ \A from : Fresh(typeGroup(from)) /\ DOMAIN typeGroup(from) = GroupFields
    BY NewGroups
  <1> HIDE DEF item, type, n, kind, itemGroup, typeGroup
  <1>4. CASE status' = "failed" /\ UNCHANGED <<groups, groupMap, node>>
    BY <1>1, <1>4 DEF Grown, Kept, n
  <1>5. CASE /\ groups' = groups \o <<itemGroup, typeGroup(n + 1)>>
             /\ groupMap' = Put(Put(groupMap, item, n + 1), type, n + 2)
             /\ node' = [node EXCEPT ![e] = n + 2]
             /\ UNCHANGED status
    <2>1. /\ IsList(groups') /\ Len(groups') = n + 2
          /\ groups'[n + 1] = itemGroup /\ groups'[n + 2] = typeGroup(n + 1)
          /\ \A i \in 1..n : groups'[i] = groups[i]
      BY <1>1, <1>5, ListAppendTwo DEF n
    <2>2. \A k \in DOMAIN groupMap' : groupMap'[k] \in 1..(n + 2)
      <3>1. \A k \in DOMAIN Put(groupMap, item, n + 1) :
              Put(groupMap, item, n + 1)[k] \in 1..(n + 1)
        BY <1>1, PutValues
      <3> DEFINE m == Put(groupMap, item, n + 1)
      <3> HIDE DEF m
      <3>2. \A k \in DOMAIN m : m[k] \in 1..(n + 1)
        BY <3>1 DEF m
      <3>3. \A k \in DOMAIN Put(m, type, n + 2) : Put(m, type, n + 2)[k] \in 1..(n + 2)
        BY <1>1, <3>2, PutValues
      <3> QED BY <1>5, <3>3 DEF m
    <2>3. \A g \in (n + 1)..(n + 2) : Fresh(groups'[g]) /\ DOMAIN groups'[g] = GroupFields
      <3>1. \A g \in (n + 1)..(n + 2) : g = n + 1 \/ g = n + 2
        BY <1>1
      <3> QED BY <2>1, <3>1, <1>3
    <2>4. node' \in [Exprs -> 0..(n + 2)] /\ \A d \in Exprs : node[d] # 0 => node'[d] = node[d]
      BY <1>1, <1>5
    <2>5. \A g \in 1..(n + 2) : DOMAIN groups'[g] = GroupFields
      <3>1. \A g \in 1..(n + 2) : g \in 1..n \/ g \in (n + 1)..(n + 2)
        BY <1>1
      <3> QED BY <3>1, <2>1, <2>3, <1>1
    <2>6. n <= n + 2 /\ n + 2 \in Nat /\ \A g \in 1..n : Kept(g)
      BY <1>1, <2>1 DEF Kept
    <2> QED BY <2>1, <2>2, <2>3, <2>4, <2>5, <2>6, <1>5 DEF Grown, n
  <1>6. CASE /\ groups' = Append(groups, typeGroup(groupMap[item]))
             /\ groupMap' = Put(groupMap, type, n + 1)
             /\ node' = [node EXCEPT ![e] = n + 1]
             /\ UNCHANGED status
    <2>1. /\ IsList(groups') /\ Len(groups') = n + 1
          /\ groups'[n + 1] = typeGroup(groupMap[item])
          /\ \A i \in 1..n : groups'[i] = groups[i]
      BY <1>1, <1>6, ListAppend DEF n
    <2>2. \A k \in DOMAIN groupMap' : groupMap'[k] \in 1..(n + 1)
      <3>1. n + 1 \in Nat /\ n <= n + 1 /\ n + 1 \in 1..(n + 1)
        BY <1>1
      <3> QED BY <3>1, <1>1, <1>6, PutValues
    <2>3. node' \in [Exprs -> 0..(n + 1)] /\ \A d \in Exprs : node[d] # 0 => node'[d] = node[d]
      BY <1>1, <1>6
    <2>4. \A g \in 1..(n + 1) : DOMAIN groups'[g] = GroupFields
      <3>1. \A g \in 1..(n + 1) : g \in 1..n \/ g = n + 1
        BY <1>1
      <3> QED BY <3>1, <2>1, <1>1, <1>3
    <2>5. /\ n <= n + 1 /\ n + 1 \in Nat /\ \A g \in 1..n : Kept(g)
          /\ \A g \in (n + 1)..(n + 1) : Fresh(groups'[g])
      BY <1>1, <1>3, <2>1 DEF Kept
    <2> QED BY <2>1, <2>2, <2>3, <2>4, <2>5, <1>6 DEF Grown, n
  <1>7. CASE /\ type \in DOMAIN groupMap
             /\ node' = [node EXCEPT ![e] = groupMap[type]]
             /\ UNCHANGED <<groups, groupMap, status>>
    BY <1>1, <1>7 DEF Grown, Kept, n
  <1> QED BY <1>2, <1>4, <1>5, <1>6, <1>7

LEMMA ParseDynamicGrows ==
  ASSUME Types, status = "running", NEW e \in Exprs, node[e] = 0, NEW args,
         ParseDynamic(e, args), UNCHANGED <<case, shared, ItemVars>>
  PROVE  Grown
  <1> DEFINE key == DynamicKey(args)
             n == Len(groups)
             g0 == groupMap[key]
             item == ItemKey(args)
             info == IF item \in DOMAIN groupMap THEN groups[groupMap[item]].info ELSE args
             group == [NewGroup("Item", TRUE, [args EXCEPT !.conds = info.conds], key, 0)
                         EXCEPT !.ready = TRUE]
             opened == [groups[g0] EXCEPT !.ready = TRUE]
  <1>1. /\ n \in Nat /\ IsList(groups) /\ \A g \in 1..n : DOMAIN groups[g] = GroupFields
        /\ \A k \in DOMAIN groupMap : groupMap[k] \in 1..n
        /\ node \in [Exprs -> 0..n]
    BY ListAppend DEF Types
  <1>2. \/ /\ key \in DOMAIN groupMap
           /\ groups' = [groups EXCEPT ![g0] = opened]
           /\ node' = [node EXCEPT ![e] = g0]
           /\ UNCHANGED <<groupMap, status>>
        \/ status' = "noInfo" /\ UNCHANGED <<groups, groupMap, node>>
        \/ /\ groups' = Append(groups, group)
           /\ groupMap' = Put(groupMap, key, n + 1)
           /\ node' = [node EXCEPT ![e] = n + 1]
           /\ UNCHANGED status
    BY DEF ParseDynamic
  <1>3. Fresh(group) /\ DOMAIN group = GroupFields
    BY DEF NewGroup, Fresh, GroupFields
  <1> HIDE DEF key, n, g0, item, info, group, opened
  <1>4. CASE /\ key \in DOMAIN groupMap
             /\ groups' = [groups EXCEPT ![g0] = opened]
             /\ node' = [node EXCEPT ![e] = g0]
             /\ UNCHANGED <<groupMap, status>>
    <2>1. g0 \in 1..n
      BY <1>1, <1>4 DEF g0
    <2>2. /\ IsList(groups') /\ Len(groups') = n
          /\ \A i \in 1..n : groups'[i] = IF i = g0 THEN opened ELSE groups[i]
      <3> DEFINE t == [groups EXCEPT ![g0] = opened]
      <3>1. IsList(t) /\ Len(t) = n /\ \A i \in 1..n : t[i] = IF i = g0 THEN opened ELSE groups[i]
        BY <1>1, <2>1, ListAppend, ListUpdate DEF n
      <3> HIDE DEF t
      <3>2. groups' = t
        BY <1>4 DEF t
      <3> QED BY <3>1, <3>2
    <2>3. \A i \in 1..n : Kept(i) /\ DOMAIN groups'[i] = GroupFields
      BY <2>2, <1>1 DEF Kept, GroupFields, opened
    <2>4. node' \in [Exprs -> 0..n] /\ \A d \in Exprs : node[d] # 0 => node'[d] = node[d]
      BY <1>1, <1>4, <2>1
    <2> QED BY <1>1, <2>2, <2>3, <2>4, <1>4 DEF Grown, n
  <1>5. CASE status' = "noInfo" /\ UNCHANGED <<groups, groupMap, node>>
    BY <1>1, <1>5 DEF Grown, Kept, n
  <1>6. CASE /\ groups' = Append(groups, group)
             /\ groupMap' = Put(groupMap, key, n + 1)
             /\ node' = [node EXCEPT ![e] = n + 1]
             /\ UNCHANGED status
    <2>1. /\ IsList(groups') /\ Len(groups') = n + 1 /\ groups'[n + 1] = group
          /\ \A i \in 1..n : groups'[i] = groups[i]
      BY <1>1, <1>6, ListAppend DEF n
    <2>2. \A k \in DOMAIN groupMap' : groupMap'[k] \in 1..(n + 1)
      <3>1. n + 1 \in Nat /\ n <= n + 1 /\ n + 1 \in 1..(n + 1)
        BY <1>1
      <3> QED BY <3>1, <1>1, <1>6, PutValues
    <2>3. node' \in [Exprs -> 0..(n + 1)] /\ \A d \in Exprs : node[d] # 0 => node'[d] = node[d]
      BY <1>1, <1>6
    <2>4. \A g \in 1..(n + 1) : DOMAIN groups'[g] = GroupFields
      <3>1. \A g \in 1..(n + 1) : g \in 1..n \/ g = n + 1
        BY <1>1
      <3> QED BY <3>1, <2>1, <1>1, <1>3
    <2>5. /\ n <= n + 1 /\ n + 1 \in Nat /\ \A g \in 1..n : Kept(g)
          /\ \A g \in (n + 1)..(n + 1) : Fresh(groups'[g])
      BY <1>1, <1>3, <2>1 DEF Kept
    <2> QED BY <2>1, <2>2, <2>3, <2>4, <2>5, <1>6 DEF Grown, n
  <1> QED BY <1>2, <1>4, <1>5, <1>6

LEMMA ParseGroupGrows ==
  ASSUME Types, status = "running", NEW e \in Exprs, ParseGroup(e)
  PROVE  Grown
  <1> DEFINE args == GroupArgs(Expression(e).text)
  <1>1. /\ node[e] = 0 /\ UNCHANGED <<case, shared, ItemVars>>
        /\ \/ status' = "failed" /\ UNCHANGED <<groups, groupMap, node>>
           \/ ParseStatic(e, args)
           \/ ParseDynamic(e, args)
    BY DEF ParseGroup
  <1> HIDE DEF args
  <1>2. CASE status' = "failed" /\ UNCHANGED <<groups, groupMap, node>>
    BY <1>1, <1>2, CaseFacts DEF Grown, Kept, Types
  <1> QED BY <1>1, <1>2, ParseStaticGrows, ParseDynamicGrows

\* Building the rows of a static group leaves what the items rely on; a dynamic
\* group keeps its info_.
LEMMA BuildGroupGrows ==
  ASSUME Types, NEW g \in 1..Len(groups), BuildGroup(g)
  PROVE  Grown
  <1> DEFINE sorted == SetToSortSeq(Selected(groups[g].info.conds), <)
             built == [groups[g] EXCEPT !.rows = sorted, !.ready = TRUE]
  <1>1. /\ IsList(groups) /\ g \in DOMAIN groups /\ Len(groups) \in Nat
        /\ \A i \in 1..Len(groups) : DOMAIN groups[i] = GroupFields
    BY ListAppend DEF Types
  <1>2. /\ groups' = [groups EXCEPT ![g].rows = sorted, ![g].ready = TRUE]
        /\ UNCHANGED <<case, shared, node, groupMap, status, ItemVars>>
    BY DEF BuildGroup
  <1>3. /\ DOMAIN built = DOMAIN groups[g]
        /\ built.type = groups[g].type /\ built.dynamic = groups[g].dynamic
        /\ built.map = groups[g].map /\ built.holder = groups[g].holder
        /\ built.size = groups[g].size /\ built.info = groups[g].info
    OBVIOUS
  <1> HIDE DEF sorted
  <1>4. groups' = [groups EXCEPT ![g] = built]
    BY <1>1, <1>2
  <1> HIDE DEF built
  <1>5. /\ IsList(groups') /\ Len(groups') = Len(groups)
        /\ \A i \in 1..Len(groups) : groups'[i] = IF i = g THEN built ELSE groups[i]
    <2> DEFINE t == [groups EXCEPT ![g] = built]
    <2>1. /\ IsList(t) /\ Len(t) = Len(groups)
          /\ \A i \in 1..Len(groups) : t[i] = IF i = g THEN built ELSE groups[i]
      BY <1>1, ListUpdate
    <2> HIDE DEF t
    <2>2. groups' = t
      BY <1>4 DEF t
    <2> QED BY <2>1, <2>2
  <1>6. \A i \in 1..Len(groups) : Kept(i) /\ DOMAIN groups'[i] = GroupFields
    BY <1>1, <1>3, <1>5 DEF Kept
  <1> QED BY <1>1, <1>2, <1>5, <1>6 DEF Grown, Types

LEMMA InitGroupGrows ==
  ASSUME Inv, NEW g \in 1..Len(groups), InitGroup(g)
  PROVE  Grown
  <1> DEFINE f == groups[g].from
             read == groups[f].rows
             inited == [groups[g] EXCEPT !.rows = read, !.ready = TRUE]
             first == [groups EXCEPT ![g] = inited]
             info == IF groups[f].dynamic THEN first[f].info ELSE Malformed
             emptied == [first[f] EXCEPT !.info = info]
  <1>1. /\ Types /\ IsList(groups) /\ g \in DOMAIN groups /\ Len(groups) \in Nat
        /\ \A i \in 1..Len(groups) : DOMAIN groups[i] = GroupFields
        /\ UNCHANGED <<case, shared, node, groupMap, ItemVars>>
        /\ groups[g].type # "Item" /\ (groups[g].dynamic => groups[g].type = "Item")
    BY ListAppend DEF Inv, MapsLocked, MapLocked, InitGroup, Types
  <1>2. \/ status' = "noInfo" /\ UNCHANGED groups
        \/ UNCHANGED status /\ groups' = [groups EXCEPT
             ![g].rows = read, ![g].ready = TRUE,
             ![f].info = IF groups[f].dynamic THEN @ ELSE Malformed]
    BY DEF InitGroup
  <1>3. CASE status' = "noInfo" /\ UNCHANGED groups
    BY <1>1, <1>3 DEF Grown, Kept, Types
  <1>4. CASE UNCHANGED status /\ groups' = [groups EXCEPT
             ![g].rows = read, ![g].ready = TRUE,
             ![f].info = IF groups[f].dynamic THEN @ ELSE Malformed]
    <2>1. groups' = [first EXCEPT ![f] = emptied]
      BY <1>1, <1>4
    <2>2. /\ DOMAIN inited = DOMAIN groups[g]
          /\ inited.type = groups[g].type /\ inited.dynamic = groups[g].dynamic
          /\ inited.map = groups[g].map /\ inited.holder = groups[g].holder
          /\ inited.size = groups[g].size /\ inited.info = groups[g].info
      OBVIOUS
    <2> HIDE DEF read, inited
    <2>3. /\ IsList(first) /\ Len(first) = Len(groups)
          /\ \A i \in 1..Len(groups) : first[i] = IF i = g THEN inited ELSE groups[i]
      BY <1>1, ListUpdate
    <2>4. /\ DOMAIN emptied = DOMAIN first[f]
          /\ emptied.type = first[f].type /\ emptied.dynamic = first[f].dynamic
          /\ emptied.map = first[f].map /\ emptied.holder = first[f].holder
          /\ emptied.size = first[f].size
          /\ groups[f].dynamic /\ DOMAIN first[f] = GroupFields => emptied.info = first[f].info
      <3> HIDE DEF first
      <3>1. DOMAIN first[f] = GroupFields => emptied.info = info
        BY DEF GroupFields
      <3> QED BY <3>1
    <2> HIDE DEF first, emptied, info, f
    <2>5. /\ IsList(groups') /\ Len(groups') = Len(groups)
          /\ \A i \in 1..Len(groups) : groups'[i] = IF i = f THEN emptied ELSE first[i]
      <3> DEFINE t == [first EXCEPT ![f] = emptied]
      <3>1. DOMAIN first = 1..Len(groups)
        BY <2>3, ListAppend
      <3>2. /\ IsList(t) /\ Len(t) = Len(groups)
            /\ \A i \in 1..Len(groups) : t[i] = IF i = f THEN emptied ELSE first[i]
        <4>1. CASE f \in DOMAIN first
          <5>1. \A x : LET u == [first EXCEPT ![f] = x] IN
                  /\ IsList(u) /\ Len(u) = Len(first)
                  /\ \A i \in 1..Len(first) : u[i] = IF i = f THEN x ELSE first[i]
            BY <4>1, <2>3, ListUpdate
          <5> QED BY <5>1, <2>3
        <4>2. CASE f \notin DOMAIN first
          <5>1. t = first
            BY <4>2, <2>3, OwnElements, ListAppend DEF IsList
          <5> QED BY <5>1, <4>2, <2>3, <3>1
        <4> QED BY <4>1, <4>2
      <3> HIDE DEF t
      <3>3. groups' = t
        BY <2>1 DEF t
      <3> QED BY <3>2, <3>3
    <2>6. \A i \in 1..Len(groups) : Kept(i) /\ DOMAIN groups'[i] = GroupFields
      BY <1>1, <2>2, <2>3, <2>4, <2>5 DEF Kept
    <2> QED BY <1>1, <1>4, <2>5, <2>6 DEF Grown, Types
  <1> QED BY <1>2, <1>3, <1>4

-----------------------------------------------------------------------------
(* The steps of an item.                                                     *)

\* What depends only on the case does not change.
LEMMA SameCase ==
  ASSUME case' = case
  PROVE  /\ Plugin' = Plugin /\ Exprs' = Exprs /\ Procs' = Procs /\ Items' = Items
         /\ program' = program
         /\ \A rows : MapOf(rows)' = MapOf(rows)
  BY DEF Plugin, Exprs, Procs, Items, Roads, program, MapOf, LastRow

\* A step that leaves the groups alone, and does not begin or end the filling.
LEMMA LocalStep ==
  ASSUME Inv, NEW p \in Procs, UNCHANGED <<case, shared, node, groups, groupMap, row>>,
         pc[p] # "fill",
         NEW stage \in Stages \ {"fill"}, pc' = [pc EXCEPT ![p] = stage],
         NEW k \in Nat \ {0}, at' = [at EXCEPT ![p] = k],
         DOMAIN using' = Procs, InHand(p)'
  PROVE  Types' /\ MapsLocked' /\ GroupsInHand'
  <1>1. /\ Types /\ Exprs' = Exprs /\ Procs' = Procs /\ Plugin' = Plugin
        /\ pc \in [Procs -> Stages] /\ at \in [Procs -> Nat \ {0}]
    BY SameCase DEF Inv, Types
  <1>2. Types'
    BY <1>1 DEF Types
  <1>3. ASSUME NEW q \in Procs, q # p
        PROVE  /\ pc'[q] = pc[q] /\ E(q)' = E(q) /\ Group(q)' = Group(q)
               /\ row'[q] = row[q]
    <2>1. pc'[q] = pc[q] /\ at'[q] = at[q]
      BY <1>1, <1>3
    <2>2. E(q)' = E(q)
      BY <2>1 DEF E
    <2> QED BY <2>1, <2>2 DEF Group
  <1>4. MapsLocked'
    <2> SUFFICES ASSUME NEW g \in 1..Len(groups) PROVE MapLocked(g)'
      BY DEF MapsLocked
    <2>1. MapLocked(g)
      BY DEF Inv, MapsLocked
    <2>2. groups[g].holder # <<>> =>
            \E q \in Procs :
              /\ groups[g].holder = q /\ pc'[q] = "fill" /\ node[E(q)'] = g
              /\ row[q] \in 1..(Len(Plugin) + 1)
              /\ groups[g].map = MapOf(EnteredBefore(groups[g], row[q]))
      BY <2>1, <1>3 DEF MapLocked
    <2>3. /\ MapOf(SelectedOf(groups[g]))' = MapOf(SelectedOf(groups[g]))
          /\ \A q : MapOf(EnteredBefore(groups[g], row[q]))'
                      = MapOf(EnteredBefore(groups[g], row[q]))
      BY <1>1 DEF MapOf, LastRow, EnteredBefore, SelectedOf, Selected
    <2> QED BY <2>1, <2>2, <2>3, <1>1 DEF MapLocked
  <1>5. GroupsInHand'
    <2>1. ASSUME NEW q \in Procs, q # p PROVE InHand(q)'
      <3>1. InHand(q) /\ SelectedOf(Group(q))' = SelectedOf(Group(q))
        BY <1>1, <1>3, <2>1 DEF Inv, GroupsInHand, SelectedOf, Selected
      <3> QED BY <3>1, <1>1, <1>3, <2>1 DEF InHand
    <2> QED BY <2>1, <1>1 DEF GroupsInHand
  <1> QED BY <1>2, <1>4, <1>5

\* A step that makes and deletes no group.
LEMMA NothingDeleted ==
  ASSUME Inv, UNCHANGED <<case, shared, made, cache>>,
         ~shared => status' # "freed",
         \A q \in Procs : pc[q] = "done" => pc'[q] = "done",
         ~shared => \A q \in Procs :
           pc'[q] = "check" /\ Group(q)'.dynamic => MadeBy(q, using'[q])
  PROVE  OwnersDelete'
  <1>1. Procs' = Procs /\ Items' = Items
    BY SameCase
  <1> QED BY <1>1 DEF Inv, OwnersDelete, MadeBy

\* The item at p knows the group of its expression.
LEMMA HandKeeps ==
  ASSUME Inv, NEW p \in Procs, UNCHANGED <<case, node, groups>>,
         pc[p] \in Asking, pc'[p] \in Asking, at'[p] = at[p]
  PROVE  /\ E(p)' = E(p) /\ Group(p)' = Group(p)
         /\ SelectedOf(Group(p))' = SelectedOf(Group(p))
         /\ E(p)' \in Exprs' /\ node'[E(p)'] \in 1..Len(groups')
  <1>1. E(p)' = E(p) /\ Exprs' = Exprs
    BY SameCase DEF E
  <1>2. Group(p)' = Group(p)
    BY <1>1 DEF Group
  <1>3. E(p) \in Exprs /\ node[E(p)] \in 1..Len(groups)
    BY DEF Inv, GroupsInHand, InHand
  <1> QED BY <1>1, <1>2, <1>3, SameCase DEF SelectedOf, Selected

\* The other items at an answer have what they had.
LEMMA OthersCheck ==
  ASSUME Inv, NEW p \in Procs, UNCHANGED <<groups, node>>,
         \A q \in Procs : q # p => /\ pc'[q] = pc[q] /\ at'[q] = at[q]
                                   /\ using'[q] = using[q]
  PROVE  ~shared => \A q \in Procs :
           q # p /\ pc'[q] = "check" /\ Group(q)'.dynamic => MadeBy(q, using'[q])
  <1> SUFFICES ASSUME ~shared, NEW q \in Procs, q # p, pc'[q] = "check", Group(q)'.dynamic
               PROVE  MadeBy(q, using'[q])
    OBVIOUS
  <1>1. E(q)' = E(q)
    BY DEF E
  <1>2. Group(q)' = Group(q)
    BY <1>1 DEF Group
  <1> QED BY <1>2 DEF Inv, OwnersDelete

LEMMA LookupKeeps ==
  ASSUME Inv, status = "running", NEW p \in Procs, Lookup(p)
  PROVE  Inv'
  <1>1. /\ Types /\ pc[p] = "lookup" /\ Parsed(p[1]) /\ at[p] <= Len(program[p[1]])
        /\ UNCHANGED <<case, shared, node, groups, groupMap, row, made, cache, using>>
        /\ pc \in [Procs -> Stages] /\ at \in [Procs -> Nat \ {0}] /\ DOMAIN using = Procs
    BY DEF Inv, Types, Lookup, ParseVars
  <1>2. \/ at' = [at EXCEPT ![p] = at[p] + 1] /\ UNCHANGED <<pc, status>>
        \/ status' = "noInfo" /\ UNCHANGED <<at, pc>>
        \/ /\ pc' = [pc EXCEPT ![p] = IF Group(p).dynamic THEN "cache" ELSE "check"]
           /\ UNCHANGED <<at, status>>
    BY DEF Lookup
  <1>3. PICK stage \in {"lookup", "cache", "check"}, k \in Nat \ {0} :
          /\ pc' = [pc EXCEPT ![p] = stage] /\ at' = [at EXCEPT ![p] = k]
          /\ stage # "lookup" =>
               k = at[p] /\ stage = IF Group(p).dynamic THEN "cache" ELSE "check"
          /\ status' # "freed"
    <2>1. pc = [pc EXCEPT ![p] = "lookup"] /\ at = [at EXCEPT ![p] = at[p]]
      BY <1>1
    <2>2. at[p] \in Nat \ {0} /\ at[p] + 1 \in Nat \ {0}
      BY <1>1
    <2>3. CASE at' = [at EXCEPT ![p] = at[p] + 1] /\ UNCHANGED <<pc, status>>
      BY <2>1, <2>2, <2>3
    <2>4. CASE status' = "noInfo" /\ UNCHANGED <<at, pc>>
      BY <2>1, <2>2, <2>4
    <2>5. CASE /\ pc' = [pc EXCEPT ![p] = IF Group(p).dynamic THEN "cache" ELSE "check"]
               /\ UNCHANGED <<at, status>>
      BY <2>1, <2>2, <2>5
    <2> QED BY <1>2, <2>3, <2>4, <2>5
  <1>4. pc'[p] = stage /\ at'[p] = k /\ \A q \in Procs : q # p => pc'[q] = pc[q] /\ at'[q] = at[q]
    BY <1>1, <1>3
  <1>5. stage # "lookup" =>
          /\ E(p)' = E(p) /\ Group(p)' = Group(p)
          /\ E(p) \in Exprs /\ node[E(p)] \in 1..Len(groups)
    <2> SUFFICES ASSUME stage # "lookup"
                 PROVE  /\ E(p)' = E(p) /\ Group(p)' = Group(p)
                        /\ E(p) \in Exprs /\ node[E(p)] \in 1..Len(groups)
      OBVIOUS
    <2>1. E(p)' = E(p)
      BY <1>3, <1>4 DEF E
    <2>2. Group(p)' = Group(p)
      BY <2>1, <1>1 DEF Group
    <2>3. at[p] \in 1..Len(program[p[1]]) /\ E(p) \in Exprs
      BY <1>1, CaseFacts
    <2>4. node[E(p)] # 0
      BY <1>1, <2>3 DEF Parsed, E
    <2>5. node[E(p)] \in 0..Len(groups) /\ Len(groups) \in Nat
      BY <1>1, <2>3, CaseFacts DEF Types
    <2> QED BY <2>1, <2>2, <2>3, <2>4, <2>5
  <1>6. InHand(p)'
    BY <1>1, <1>3, <1>4, <1>5, SameCase DEF InHand, Building, Asking
  <1>7. stage \in Stages \ {"fill"}
    BY DEF Stages, Asking
  <1>8. Types' /\ MapsLocked' /\ GroupsInHand'
    BY <1>1, <1>3, <1>6, <1>7, LocalStep
  <1>9. OwnersDelete'
    <2>1. \A q \in Procs : pc[q] = "done" => pc'[q] = "done"
      BY <1>1, <1>4
    <2>2. pc'[p] = "check" => ~Group(p)'.dynamic
      BY <1>3, <1>4, <1>5
    <2> QED BY <2>1, <2>2, <1>1, <1>3, <1>4, OthersCheck, NothingDeleted
  <1> QED BY <1>8, <1>9 DEF Inv

LEMMA FindCachedKeeps ==
  ASSUME Inv, status = "running", NEW p \in Procs, FindCached(p)
  PROVE  Inv'
  <1>1. /\ pc[p] = "cache"
        /\ UNCHANGED <<case, shared, node, groups, groupMap, row, made, cache, at, status>>
        /\ pc \in [Procs -> Stages] /\ at \in [Procs -> Nat \ {0}] /\ DOMAIN using = Procs
    BY DEF Inv, Types, FindCached, ParseVars
  <1>2. PICK stage \in {"check", "size"} :
          /\ pc' = [pc EXCEPT ![p] = stage]
          /\ stage = "check" => \E key \in DOMAIN cache[Info(p)] :
               using' = [using EXCEPT ![p] = cache[Info(p)][key]]
          /\ stage = "size" => using' = using
    BY DEF FindCached
  <1>3. /\ pc'[p] = stage /\ DOMAIN using' = Procs
        /\ \A q \in Procs : q # p => pc'[q] = pc[q] /\ using'[q] = using[q]
    BY <1>1, <1>2
  <1>4. /\ E(p)' \in Exprs' /\ node'[E(p)'] \in 1..Len(groups')
        /\ Group(p)' = Group(p) /\ Group(p).dynamic
    BY <1>1, <1>3, HandKeeps DEF Inv, GroupsInHand, InHand, Asking, Building
  <1>5. InHand(p)'
    BY <1>3, <1>4 DEF InHand
  <1>6. Types' /\ MapsLocked' /\ GroupsInHand'
    <2>1. stage \in Stages \ {"fill"} /\ at' = [at EXCEPT ![p] = at[p]] /\ at[p] \in Nat \ {0}
      BY <1>1 DEF Stages, Asking
    <2> QED BY <2>1, <1>1, <1>2, <1>3, <1>5, LocalStep
  <1>7. ~shared /\ stage = "check" => MadeBy(p, using'[p])
    BY <1>1, <1>2 DEF Inv, OwnersDelete, Info
  <1>8. OwnersDelete'
    BY <1>1, <1>3, <1>7, OthersCheck, NothingDeleted DEF MadeBy
  <1> QED BY <1>6, <1>8 DEF Inv

LEMMA TestSizeKeeps ==
  ASSUME Inv, status = "running", NEW p \in Procs, TestSize(p)
  PROVE  Inv'
  <1>1. /\ pc[p] = "size"
        /\ UNCHANGED <<case, shared, node, groups, groupMap, row, made, cache, at, using,
                       status>>
        /\ pc \in [Procs -> Stages] /\ at \in [Procs -> Nat \ {0}] /\ DOMAIN using = Procs
    BY DEF Inv, Types, TestSize, ItemOnly
  <1>2. PICK stage \in {"lock", "match"} :
          /\ pc' = [pc EXCEPT ![p] = stage]
          /\ stage = "match" => Group(p).size # 0
    BY DEF TestSize
  <1>3. pc'[p] = stage /\ \A q \in Procs : q # p => pc'[q] = pc[q]
    BY <1>1, <1>2
  <1>4. /\ E(p)' \in Exprs' /\ node'[E(p)'] \in 1..Len(groups')
        /\ Group(p)' = Group(p) /\ Group(p).dynamic
    BY <1>1, <1>3, HandKeeps DEF Inv, GroupsInHand, InHand, Asking, Building
  <1>5. InHand(p)'
    BY <1>2, <1>3, <1>4 DEF InHand
  <1>6. Types' /\ MapsLocked' /\ GroupsInHand'
    <2>1. stage \in Stages \ {"fill"} /\ at' = [at EXCEPT ![p] = at[p]] /\ at[p] \in Nat \ {0}
      BY <1>1 DEF Stages, Asking
    <2> QED BY <2>1, <1>1, <1>2, <1>5, LocalStep
  <1>7. OwnersDelete'
    BY <1>1, <1>3, OthersCheck, NothingDeleted
  <1> QED BY <1>6, <1>7 DEF Inv

LEMMA ProcessKeeps ==
  ASSUME Inv, status = "running", NEW p \in Procs, Process(p)
  PROVE  Inv'
  <1>1. /\ pc[p] = "check"
        /\ UNCHANGED <<case, shared, node, groups, groupMap, row, made, cache, using>>
        /\ pc \in [Procs -> Stages] /\ at \in [Procs -> Nat \ {0}] /\ DOMAIN using = Procs
    BY DEF Inv, Types, Process, ParseVars
  <1>2. \/ status' = "freed" /\ Group(p).dynamic /\ made[using[p]].freed /\ UNCHANGED <<at, pc>>
        \/ status' = "failed" /\ UNCHANGED <<at, pc>>
        \/ /\ at' = [at EXCEPT ![p] = at[p] + 1]
           /\ pc' = [pc EXCEPT ![p] = "lookup"]
           /\ UNCHANGED status
    BY DEF Process, Used
  <1>3. ~shared => status' # "freed"
    <2> SUFFICES ASSUME ~shared, Group(p).dynamic, made[using[p]].freed PROVE FALSE
      BY <1>2
    <2>1. MadeBy(p, using[p])
      BY <1>1 DEF Inv, OwnersDelete
    <2>2. PICK q \in Procs : MadeBy(q, using[p]) /\ pc[q] = "done"
      BY <2>1 DEF Inv, OwnersDelete, MadeBy
    <2>3. q = p
      BY <2>1, <2>2 DEF MadeBy
    <2> QED BY <2>2, <2>3, <1>1
  <1>4. PICK stage \in {"check", "lookup"}, k \in Nat \ {0} :
          /\ pc' = [pc EXCEPT ![p] = stage] /\ at' = [at EXCEPT ![p] = k]
          /\ stage = "check" => k = at[p]
    <2>1. /\ pc = [pc EXCEPT ![p] = "check"] /\ at = [at EXCEPT ![p] = at[p]]
          /\ at[p] \in Nat \ {0} /\ at[p] + 1 \in Nat \ {0}
      BY <1>1
    <2>2. CASE UNCHANGED <<at, pc>>
      BY <2>1, <2>2
    <2>3. CASE /\ at' = [at EXCEPT ![p] = at[p] + 1]
               /\ pc' = [pc EXCEPT ![p] = "lookup"]
      BY <2>1, <2>3
    <2> QED BY <1>2, <2>2, <2>3
  <1>5. pc'[p] = stage /\ at'[p] = k /\ \A q \in Procs : q # p => pc'[q] = pc[q] /\ at'[q] = at[q]
    BY <1>1, <1>4
  <1>6. stage = "check" =>
          /\ E(p)' \in Exprs' /\ node'[E(p)'] \in 1..Len(groups') /\ Group(p)' = Group(p)
    BY <1>1, <1>4, <1>5, HandKeeps DEF Asking
  <1>7. InHand(p)'
    BY <1>5, <1>6 DEF InHand, Building, Asking
  <1>8. Types' /\ MapsLocked' /\ GroupsInHand'
    <2>1. stage \in Stages \ {"fill"}
      BY DEF Stages, Asking
    <2> QED BY <2>1, <1>1, <1>4, <1>7, LocalStep
  <1>9. OwnersDelete'
    <2>1. ~shared /\ pc'[p] = "check" /\ Group(p)'.dynamic => MadeBy(p, using'[p])
      BY <1>1, <1>5, <1>6 DEF Inv, OwnersDelete
    <2>2. \A q \in Procs : pc[q] = "done" => pc'[q] = "done"
      BY <1>1, <1>5
    <2> QED BY <2>1, <2>2, <1>1, <1>3, <1>5, OthersCheck, NothingDeleted
  <1> QED BY <1>8, <1>9 DEF Inv

LEMMA MatchRowsKeeps ==
  ASSUME Inv, status = "running", NEW p \in Procs, MatchRows(p)
  PROVE  Inv'
  <1> DEFINE me == <<p, at[p]>>
  <1>1. /\ pc[p] = "match"
        /\ UNCHANGED <<case, shared, node, groups, groupMap, row, at, status>>
        /\ pc' = [pc EXCEPT ![p] = "check"] /\ using' = [using EXCEPT ![p] = me]
        /\ Types /\ pc \in [Procs -> Stages] /\ at \in [Procs -> Nat \ {0}]
        /\ DOMAIN using = Procs
    BY DEF Inv, Types, MatchRows, ParseVars
  <1>2. PICK type, rows, key :
          /\ made' = Put(made, me, [type |-> type, rows |-> rows, freed |-> FALSE])
          /\ \/ cache' = cache
             \/ cache' = [cache EXCEPT ![Info(p)] = Put(@, key, me)]
    BY DEF MatchRows
  <1>3. /\ pc'[p] = "check" /\ using'[p] = me /\ DOMAIN using' = Procs
        /\ \A q \in Procs : q # p => pc'[q] = pc[q] /\ using'[q] = using[q]
    BY <1>1
  <1>4. E(p)' \in Exprs' /\ node'[E(p)'] \in 1..Len(groups')
    BY <1>1, <1>3, HandKeeps DEF Asking
  <1>5. InHand(p)'
    BY <1>3, <1>4 DEF InHand, Building
  <1>6. Types' /\ MapsLocked' /\ GroupsInHand'
    <2>1. "check" \in Stages \ {"fill"} /\ at' = [at EXCEPT ![p] = at[p]] /\ at[p] \in Nat \ {0}
      BY <1>1 DEF Stages, Asking
    <2> QED BY <2>1, <1>1, <1>3, <1>5, LocalStep
  <1>7. /\ DOMAIN made' = DOMAIN made \cup {me}
        /\ DOMAIN made'[me] = {"type", "rows", "freed"} /\ ~made'[me].freed
        /\ \A m \in DOMAIN made : m # me => made'[m] = made[m]
    BY <1>2 DEF Put
  <1>8. MadeBy(p, me)' /\ \A q, m : MadeBy(q, m) => MadeBy(q, m)'
    BY <1>1, <1>7 DEF MadeBy
  <1> HIDE DEF me
  <1>9. OwnersDelete'
    <2>1. \A m \in DOMAIN made' : DOMAIN made'[m] = {"type", "rows", "freed"}
      BY <1>7 DEF Inv, OwnersDelete
    <2>2. ASSUME ~shared
          PROVE  /\ DOMAIN cache' = (Files \cup {0}) \X Items
                 /\ \A q \in Procs : \A key_ \in DOMAIN cache'[q] :
                      (cache'[q][key_] = me /\ q = p) \/ MadeBy(q, cache'[q][key_])
      <3>1. /\ Info(p) = p /\ DOMAIN cache = (Files \cup {0}) \X Items /\ p \in DOMAIN cache
            /\ \A q \in Procs : q \in DOMAIN cache
                 /\ \A key_ \in DOMAIN cache[q] : MadeBy(q, cache[q][key_])
        BY <2>2 DEF Inv, OwnersDelete, Info, Procs
      <3>2. CASE cache' = cache
        BY <3>1, <3>2
      <3>3. CASE cache' = [cache EXCEPT ![Info(p)] = Put(@, key, me)]
        BY <3>1, <3>3 DEF Put
      <3> QED BY <1>2, <3>2, <3>3
    <2>3. ASSUME ~shared, NEW q \in Procs, NEW key_ \in DOMAIN cache'[q]
          PROVE  MadeBy(q, cache[q][key_])'
      BY <1>1, <1>7, <2>2, <2>3 DEF MadeBy, me
    <2>4. ASSUME ~shared, NEW m \in DOMAIN made', made'[m].freed
          PROVE  \E q \in Procs : MadeBy(q, m)' /\ pc'[q] = "done"
      <3>1. m \in DOMAIN made /\ made[m].freed
        BY <2>4, <1>7
      <3>2. PICK q \in Procs : MadeBy(q, m) /\ pc[q] = "done"
        BY <2>4, <3>1 DEF Inv, OwnersDelete
      <3> QED BY <3>2, <1>1, <1>3, <1>8
    <2>5. ASSUME ~shared, NEW q \in Procs, pc'[q] = "check", Group(q)'.dynamic
          PROVE  MadeBy(q, using[q])'
      <3>1. CASE q = p
        BY <3>1, <1>1, <1>3, <1>7 DEF MadeBy, me
      <3>2. CASE q # p
        <4>1. MadeBy(q, using'[q])
          BY <3>2, <2>5, <1>1, <1>3, OthersCheck
        <4> QED BY <4>1, <1>8 DEF MadeBy
      <3> QED BY <3>1, <3>2
    <2>6. ~shared => status' # "freed"
      BY <1>1
    <2> QED BY <2>1, <2>2, <2>3, <2>4, <2>5, <2>6, <1>1, SameCase DEF OwnersDelete
  <1> QED BY <1>6, <1>9 DEF Inv

LEMMA DeleteItemKeeps ==
  ASSUME Inv, status = "running", NEW p \in Procs, DeleteItem(p)
  PROVE  Inv'
  <1>1. /\ pc[p] = "lookup"
        /\ UNCHANGED <<case, shared, node, groups, groupMap, row, at, using, status>>
        /\ pc' = [pc EXCEPT ![p] = "done"]
        /\ made' = [m \in DOMAIN made |->
                      IF m \in Range(cache[Info(p)]) THEN [made[m] EXCEPT !.freed = TRUE]
                                                     ELSE made[m]]
        /\ cache' = [cache EXCEPT ![Info(p)] = <<>>]
        /\ Types /\ pc \in [Procs -> Stages] /\ at \in [Procs -> Nat \ {0}]
        /\ DOMAIN using = Procs
    BY DEF Inv, Types, DeleteItem, ParseVars
  <1>2. pc'[p] = "done" /\ \A q \in Procs : q # p => pc'[q] = pc[q]
    BY <1>1
  <1>3. InHand(p)'
    BY <1>2 DEF InHand, Building, Asking
  <1>4. Types' /\ MapsLocked' /\ GroupsInHand'
    <2>1. "done" \in Stages \ {"fill"} /\ at' = [at EXCEPT ![p] = at[p]] /\ at[p] \in Nat \ {0}
      BY <1>1 DEF Stages, Asking
    <2> QED BY <2>1, <1>1, <1>3, LocalStep
  <1>5. OwnersDelete'
    <2>1. /\ DOMAIN made' = DOMAIN made
          /\ \A m \in DOMAIN made : /\ DOMAIN made'[m] = DOMAIN made[m]
                                    /\ made'[m].freed =>
                                         made[m].freed \/ m \in Range(cache[Info(p)])
      <3>1. \A m \in DOMAIN made :
              \/ made'[m] = made[m]
              \/ m \in Range(cache[Info(p)]) /\ made'[m] = [made[m] EXCEPT !.freed = TRUE]
        BY <1>1
      <3>2. \A r : DOMAIN [r EXCEPT !.freed = TRUE] = DOMAIN r
        OBVIOUS
      <3> QED BY <1>1, <3>1, <3>2
    <2>2. \A q, m : MadeBy(q, m) => MadeBy(q, m)'
      BY <2>1 DEF MadeBy
    <2>3. \A m \in DOMAIN made' : DOMAIN made'[m] = {"type", "rows", "freed"}
      BY <2>1 DEF Inv, OwnersDelete
    <2>4. ASSUME ~shared
          PROVE  /\ Info(p) = p /\ DOMAIN cache' = (Files \cup {0}) \X Items
                 /\ \A q \in Procs : \A key \in DOMAIN cache'[q] : MadeBy(q, cache'[q][key])
                 /\ \A m \in Range(cache[Info(p)]) : MadeBy(p, m)
      <3>1. /\ Info(p) = p /\ DOMAIN cache = (Files \cup {0}) \X Items
            /\ \A q \in Procs : q \in DOMAIN cache
                 /\ \A key \in DOMAIN cache[q] : MadeBy(q, cache[q][key])
        BY <2>4 DEF Inv, OwnersDelete, Info, Procs
      <3>2. DOMAIN cache'[p] = {} /\ \A q \in Procs : q # p => cache'[q] = cache[q]
        BY <1>1, <3>1
      <3> QED BY <3>1, <3>2, <1>1 DEF Range
    <2>5. ASSUME ~shared, NEW q \in Procs, NEW key \in DOMAIN cache'[q]
          PROVE  MadeBy(q, cache[q][key])'
      BY <2>1, <2>4, <2>5 DEF MadeBy
    <2>6. ASSUME ~shared, NEW m \in DOMAIN made', made'[m].freed
          PROVE  \E q \in Procs : MadeBy(q, m)' /\ pc'[q] = "done"
      <3>1. CASE made[m].freed
        <4>1. PICK q \in Procs : MadeBy(q, m) /\ pc[q] = "done"
          BY <2>1, <2>6, <3>1 DEF Inv, OwnersDelete
        <4> QED BY <4>1, <2>2, <1>1, <1>2
      <3>2. CASE m \in Range(cache[Info(p)])
        BY <3>2, <2>2, <2>4, <2>6, <1>2
      <3> QED BY <3>1, <3>2, <2>1, <2>6
    <2>7. ASSUME ~shared, NEW q \in Procs, pc'[q] = "check", Group(q)'.dynamic
          PROVE  MadeBy(q, using[q])'
      <3>1. MadeBy(q, using'[q])
        <4>1. q # p /\ \A r \in Procs : r # p => /\ pc'[r] = pc[r] /\ at'[r] = at[r]
                                                 /\ using'[r] = using[r]
          BY <2>7, <1>1, <1>2
        <4> QED BY <4>1, <2>7, <1>1, OthersCheck
      <3> QED BY <3>1, <2>2 DEF MadeBy
    <2>8. ~shared => status' # "freed"
      BY <1>1
    <2> QED BY <2>3, <2>4, <2>5, <2>6, <2>7, <2>8, <1>1, SameCase DEF OwnersDelete
  <1> QED BY <1>4, <1>5 DEF Inv

-----------------------------------------------------------------------------
(* The filling of the map.                                                   *)

\* One group changes.
OnlyGroup(n, group) ==
  /\ DOMAIN groups' = DOMAIN groups /\ groups' = [i \in DOMAIN groups |-> groups'[i]]
  /\ \A i \in DOMAIN groups : groups'[i] = IF i = n THEN group ELSE groups[i]

LEMMA OneGroup ==
  ASSUME Types, NEW n \in 1..Len(groups), NEW group, OnlyGroup(n, group)
  PROVE  /\ IsList(groups') /\ Len(groups') = Len(groups) /\ groups'[n] = group
         /\ \A i \in 1..Len(groups) : groups'[i] = IF i = n THEN group ELSE groups[i]
  <1>1. /\ IsList(groups) /\ Len(groups) \in Nat /\ DOMAIN groups = 1..Len(groups)
        /\ groups \in Seq({groups[i] : i \in DOMAIN groups})
    BY ListAppend DEF Types, IsList
  <1> DEFINE S == {groups'[i] : i \in 1..Len(groups)}
  <1>2. groups' \in [1..Len(groups) -> S]
    BY <1>1 DEF OnlyGroup
  <1> HIDE DEF S
  <1>3. groups' \in Seq(S) /\ Len(groups') = Len(groups)
    BY <1>1, <1>2
  <1> QED BY <1>1, <1>3, OwnElements DEF OnlyGroup

\* A map does not change with the same rows.
LEMMA SameMap ==
  ASSUME case' = case, NEW g, NEW q, NEW k,
         EnteredBefore(groups[g], row[q])' = EnteredBefore(groups[g], k)
  PROVE  MapOf(EnteredBefore(groups[g], row[q]))' = MapOf(EnteredBefore(groups[g], k))
  BY SameCase DEF MapOf, LastRow

\* A step of an item on the map of its expression's group, which nobody else holds.
LEMMA GroupStep ==
  ASSUME Inv, NEW p \in Procs, pc[p] \in {"lock", "fill"},
         UNCHANGED <<case, shared, node, groupMap, status, made, cache, at, using>>,
         NEW n, n = node[E(p)], NEW group, OnlyGroup(n, group),
         DOMAIN group = GroupFields, group.type = Group(p).type,
         group.dynamic = Group(p).dynamic, group.info = Group(p).info,
         Group(p).holder \in {<<>>, p}, group.size = 0 => Group(p).size = 0,
         NEW stage \in {"fill", "match"}, pc' = [pc EXCEPT ![p] = stage],
         NEW next \in Nat, row' = [row EXCEPT ![p] = next],
         MapLocked(n)', InHand(p)'
  PROVE  Inv'
  <1>1. /\ Types /\ Exprs' = Exprs /\ Procs' = Procs /\ Plugin' = Plugin
        /\ pc \in [Procs -> Stages] /\ row \in [Procs -> Nat]
        /\ \A rows : MapOf(rows)' = MapOf(rows)
    BY SameCase DEF Inv, Types
  <1>2. n \in 1..Len(groups)
    BY DEF Inv, GroupsInHand, InHand, Asking
  <1>3. /\ IsList(groups') /\ Len(groups') = Len(groups)
        /\ \A i \in 1..Len(groups) : groups'[i] = IF i = n THEN group ELSE groups[i]
    BY <1>1, <1>2, OneGroup
  <1>4. Types'
    <2>1. pc' \in [Procs -> Stages] /\ row' \in [Procs -> Nat]
      BY <1>1 DEF Stages, Asking
    <2> QED BY <2>1, <1>1, <1>3 DEF Types
  <1>5. Group(p) = groups[n] /\ \A g \in 1..Len(groups) : SelectedOf(groups[g])' = SelectedOf(groups[g])
    BY <1>1, <1>3 DEF SelectedOf, Selected, Group
  <1>6. ASSUME NEW q \in Procs, q # p
        PROVE  pc'[q] = pc[q] /\ row'[q] = row[q] /\ E(q)' = E(q)
    BY <1>1, <1>6 DEF E
  <1>7. MapsLocked'
    <2> SUFFICES ASSUME NEW g \in 1..Len(groups), g # n PROVE MapLocked(g)'
      BY <1>3 DEF MapsLocked
    <2>1. MapLocked(g) /\ groups'[g] = groups[g]
      BY <1>3 DEF Inv, MapsLocked
    <2>2. groups[g].holder # <<>> =>
            \E q \in Procs :
              /\ groups[g].holder = q /\ pc'[q] = "fill" /\ node[E(q)'] = g
              /\ row'[q] \in 1..(Len(Plugin) + 1)
              /\ groups[g].map = MapOf(EnteredBefore(groups[g], row'[q]))
      <3> SUFFICES ASSUME groups[g].holder # <<>>
                   PROVE  \E q \in Procs :
                            /\ groups[g].holder = q /\ pc'[q] = "fill" /\ node[E(q)'] = g
                            /\ row'[q] \in 1..(Len(Plugin) + 1)
                            /\ groups[g].map = MapOf(EnteredBefore(groups[g], row'[q]))
        OBVIOUS
      <3>1. PICK q \in Procs :
              /\ groups[g].holder = q /\ pc[q] = "fill" /\ node[E(q)] = g
              /\ row[q] \in 1..(Len(Plugin) + 1)
              /\ groups[g].map = MapOf(EnteredBefore(groups[g], row[q]))
        BY <2>1 DEF MapLocked
      <3>2. q # p
        BY <3>1
      <3> QED BY <3>1, <3>2, <1>6
    <2>3. SelectedOf(groups[g])' = SelectedOf(groups[g])
      BY <1>5
    <2>4. /\ MapOf(SelectedOf(groups[g]))' = MapOf(SelectedOf(groups[g]))
          /\ \A q : MapOf(EnteredBefore(groups[g], row[q]))'
                      = MapOf(EnteredBefore(groups[g], row'[q]))
      <3>1. MapOf(SelectedOf(groups[g]))' = MapOf(SelectedOf(groups[g]))
        BY <1>1, <2>3 DEF MapOf, LastRow
      <3>2. ASSUME NEW q
            PROVE  MapOf(EnteredBefore(groups[g], row[q]))'
                     = MapOf(EnteredBefore(groups[g], row'[q]))
        <4>1. PICK k : k = row'[q]
          OBVIOUS
        <4>2. EnteredBefore(groups[g], row[q])' = EnteredBefore(groups[g], k)
          BY <4>1, <2>3 DEF EnteredBefore
        <4>3. MapOf(EnteredBefore(groups[g], row[q]))' = MapOf(EnteredBefore(groups[g], k))
          BY <4>2, SameMap, ZenonT(60)
        <4> QED BY <4>1, <4>3
      <3> QED BY <3>1, <3>2
    <2> QED BY <2>1, <2>2, <2>4, <1>1 DEF MapLocked
  <1>8. GroupsInHand'
    <2>1. ASSUME NEW q \in Procs, q # p PROVE InHand(q)'
      <3> DEFINE m == node[E(q)]
      <3>1. CASE pc[q] \notin Asking
        BY <3>1, <1>6, <2>1 DEF InHand, Building, Asking
      <3>2. CASE pc[q] \in Asking
        <4>1. InHand(q) /\ E(q) \in Exprs /\ m \in 1..Len(groups) /\ Group(q) = groups[m]
          BY <3>2 DEF Inv, GroupsInHand, InHand, Group
        <4>2. E(q)' = E(q) /\ Group(q)' = groups'[m]
          BY <1>6, <2>1 DEF Group
        <4> HIDE DEF m
        <4>3. /\ groups'[m].dynamic = groups[m].dynamic
              /\ pc[q] = "fill" => groups'[m].holder = q
              /\ groups'[m].size = 0 => groups[m].size = 0
          <5>1. pc[q] = "fill" => groups[m].holder = q /\ q # <<>>
            BY <1>1, <4>1, CaseFacts DEF InHand
          <5>2. CASE m = n
            <6>1. groups'[m] = group /\ groups[m] = Group(p)
              BY <5>2, <1>3, <1>5, <4>1
            <6>2. pc[q] # "fill"
              BY <5>1, <6>1, <2>1
            <6> QED BY <6>1, <6>2
          <5>3. CASE m # n
            BY <5>1, <5>3, <1>3, <4>1
          <5> QED BY <5>2, <5>3
        <4>4. SelectedOf(Group(q))' = SelectedOf(Group(q))
          BY <1>1, <1>3, <1>5, <4>1, <4>2 DEF SelectedOf, Selected
        <4> QED BY <4>1, <4>2, <4>3, <4>4, <1>1, <1>3, <1>6, <2>1 DEF InHand
      <3> QED BY <3>1, <3>2
    <2> QED BY <2>1, <1>1 DEF GroupsInHand
  <1>9. OwnersDelete'
    <2>1. ~shared => status' # "freed"
      BY DEF Inv, OwnersDelete
    <2>2. pc'[p] = stage /\ \A q \in Procs : pc[q] = "done" => pc'[q] = "done"
      BY <1>1, <1>6
    <2>3. ASSUME ~shared, NEW q \in Procs, pc'[q] = "check", Group(q)'.dynamic
          PROVE  MadeBy(q, using'[q])
      <3>1. q # p /\ pc[q] = "check" /\ E(q)' = E(q)
        BY <2>2, <2>3, <1>6
      <3>2. node[E(q)] \in 1..Len(groups)
        BY <3>1 DEF Inv, GroupsInHand, InHand, Asking
      <3>3. Group(q)'.dynamic = Group(q).dynamic
        BY <3>1, <3>2, <1>3, <1>5 DEF Group
      <3> QED BY <3>1, <3>3, <2>3 DEF Inv, OwnersDelete
    <2> QED BY <2>1, <2>2, <2>3, NothingDeleted
  <1> QED BY <1>4, <1>7, <1>8, <1>9 DEF Inv

\* The item at p before a step on its group's map.
LEMMA AtTheMap ==
  ASSUME Inv, NEW p \in Procs, pc[p] \in {"lock", "fill"}, at'[p] = at[p],
         UNCHANGED <<case, node>>, NEW n, n = node[E(p)], NEW group, OnlyGroup(n, group)
  PROVE  /\ Group(p).dynamic /\ Group(p).type = "Item" /\ DOMAIN Group(p) = GroupFields
         /\ Group(p) = groups[n] /\ n \in 1..Len(groups)
         /\ groups'[n] = group /\ Group(p)' = group /\ node'[E(p)'] = n /\ n \in 1..Len(groups')
         /\ E(p)' \in Exprs'
         /\ group.info = Group(p).info => SelectedOf(group)' = SelectedOf(Group(p))
  <1>1. /\ E(p) \in Exprs /\ n \in 1..Len(groups) /\ Group(p).dynamic
        /\ Group(p) = groups[n] /\ Types
    BY DEF Inv, GroupsInHand, InHand, Asking, Building, Group
  <1>2. Group(p).type = "Item" /\ DOMAIN Group(p) = GroupFields
    BY <1>1 DEF Inv, MapsLocked, MapLocked, Types
  <1>3. E(p)' = E(p) /\ Exprs' = Exprs /\ Plugin' = Plugin
    BY SameCase DEF E
  <1>4. groups'[n] = group /\ Len(groups') = Len(groups)
    BY <1>1, OneGroup
  <1>5. Group(p)' = group
    BY <1>3, <1>4 DEF Group
  <1>6. group.info = Group(p).info => SelectedOf(group)' = SelectedOf(Group(p))
    BY <1>3 DEF SelectedOf, Selected
  <1> QED BY <1>1, <1>2, <1>3, <1>4, <1>5, <1>6

\* The item with the lock has entered the rows up to its own.
LEMMA AtTheRow ==
  ASSUME Inv, NEW p \in Procs, pc[p] = "fill"
  PROVE  /\ Group(p).holder = p /\ p # <<>> /\ Group(p).size = 0
         /\ row[p] \in 1..(Len(Plugin) + 1)
         /\ Group(p).map = MapOf(EnteredBefore(Group(p), row[p]))
  <1>1. Group(p).holder = p /\ p # <<>> /\ node[E(p)] \in 1..Len(groups)
    BY CaseFacts DEF Inv, GroupsInHand, InHand, Asking
  <1>2. MapLocked(node[E(p)])
    BY <1>1 DEF Inv, MapsLocked
  <1> QED BY <1>1, <1>2 DEF MapLocked, Group

LEMMA LockMapKeeps ==
  ASSUME Inv, status = "running", NEW p \in Procs, LockMap(p)
  PROVE  Inv'
  <1>1. /\ pc[p] = "lock" /\ Group(p).holder = <<>> /\ Types
        /\ UNCHANGED <<case, shared, node, groupMap, status, made, cache, at, using>>
        /\ pc \in [Procs -> Stages] /\ at \in [Procs -> Nat \ {0}] /\ row \in [Procs -> Nat]
        /\ DOMAIN using = Procs
    BY DEF Inv, Types, LockMap, ItemOnly
  <1>2. \/ /\ Group(p).size = 0
           /\ groups' = [groups EXCEPT ![node[E(p)]].holder = p]
           /\ pc' = [pc EXCEPT ![p] = "fill"] /\ row' = [row EXCEPT ![p] = 1]
        \/ /\ Group(p).size # 0
           /\ pc' = [pc EXCEPT ![p] = "match"] /\ UNCHANGED <<groups, row>>
    BY DEF LockMap
  <1>3. CASE /\ Group(p).size = 0
             /\ groups' = [groups EXCEPT ![node[E(p)]].holder = p]
             /\ pc' = [pc EXCEPT ![p] = "fill"] /\ row' = [row EXCEPT ![p] = 1]
    <2>1. PICK n, group : n = node[E(p)] /\ group = [Group(p) EXCEPT !.holder = p]
      OBVIOUS
    <2>2. OnlyGroup(n, group)
      BY <1>3, <2>1 DEF OnlyGroup, Group
    <2>3. /\ Group(p).dynamic /\ Group(p).type = "Item" /\ DOMAIN Group(p) = GroupFields
          /\ Group(p) = groups[n] /\ n \in 1..Len(groups)
          /\ groups'[n] = group /\ Group(p)' = group
          /\ node'[E(p)'] = n /\ n \in 1..Len(groups') /\ E(p)' \in Exprs'
          /\ group.info = Group(p).info => SelectedOf(group)' = SelectedOf(Group(p))
      <3>1. at'[p] = at[p] /\ UNCHANGED <<case, node>> /\ pc[p] \in {"lock", "fill"}
        BY <1>1
      <3> QED BY <2>1, <2>2, <3>1, AtTheMap
    <2>4. /\ DOMAIN group = GroupFields /\ group.type = Group(p).type
          /\ group.dynamic = Group(p).dynamic /\ group.info = Group(p).info
          /\ group.size = 0 /\ group.holder = p /\ group.map = Group(p).map
      <3>1. DOMAIN Group(p) = GroupFields /\ Group(p).size = 0
        BY <1>3, <2>3
      <3>2. group = [Group(p) EXCEPT !.holder = p]
        BY <2>1
      <3> QED BY <3>1, <3>2 DEF GroupFields
    <2>5. pc'[p] = "fill" /\ row'[p] = 1 /\ p # <<>> /\ Len(Plugin) \in Nat
      BY <1>1, <1>3, CaseFacts
    <2>6. InHand(p)'
      BY <2>3, <2>4, <2>5 DEF InHand
    <2>7. group.map = MapOf(EnteredBefore(group, row[p]))'
      <3>1. MapLocked(n)
        BY <2>3 DEF Inv, MapsLocked
      <3>2. group.map = <<>>
        BY <1>1, <1>3, <2>3, <2>4, <3>1 DEF MapLocked
      <3>3. EnteredBefore(group, row[p])' = {}
        BY <1>1, <2>3, <2>4, <2>5, CaseFacts DEF EnteredBefore
      <3>4. MapOf(EnteredBefore(group, row[p]))' = MapOf({})
        BY <3>3, <1>1, SameCase DEF MapOf, LastRow
      <3> QED BY <3>2, <3>4, EmptyMap
    <2>8. MapLocked(n)'
      BY <1>1, <2>3, <2>4, <2>5, <2>7, SameCase DEF MapLocked
    <2> QED BY <1>1, <1>3, <2>1, <2>2, <2>4, <2>6, <2>8, GroupStep
  <1>4. CASE /\ Group(p).size # 0
             /\ pc' = [pc EXCEPT ![p] = "match"] /\ UNCHANGED <<groups, row>>
    <2>1. /\ pc'[p] = "match" /\ \A q \in Procs : q # p => pc'[q] = pc[q]
      BY <1>1, <1>4
    <2>2. /\ E(p)' \in Exprs' /\ node'[E(p)'] \in 1..Len(groups')
          /\ Group(p)' = Group(p) /\ Group(p).dynamic
      BY <1>1, <1>4, <2>1, HandKeeps DEF Inv, GroupsInHand, InHand, Asking, Building
    <2>3. InHand(p)'
      BY <1>4, <2>1, <2>2 DEF InHand
    <2>4. "match" \in Stages \ {"fill"} /\ at' = [at EXCEPT ![p] = at[p]] /\ at[p] \in Nat \ {0}
      BY <1>1 DEF Stages, Asking
    <2>5. Types' /\ MapsLocked' /\ GroupsInHand'
      BY <1>1, <1>4, <2>3, <2>4, LocalStep
    <2>6. ~shared => status' # "freed"
      BY <1>1
    <2>7. OwnersDelete'
      BY <1>1, <1>4, <2>1, OthersCheck, NothingDeleted
    <2> QED BY <2>5, <2>7 DEF Inv
  <1> QED BY <1>2, <1>3, <1>4

LEMMA FillMapKeeps ==
  ASSUME Inv, status = "running", NEW p \in Procs, FillMap(p)
  PROVE  Inv'
  <1>1. /\ pc[p] = "fill" /\ row[p] <= Len(Plugin) /\ Types
        /\ UNCHANGED <<case, shared, node, groupMap, status, made, cache, at, using, pc>>
        /\ pc \in [Procs -> Stages] /\ row \in [Procs -> Nat]
        /\ row' = [row EXCEPT ![p] = row[p] + 1]
    BY DEF Inv, Types, FillMap, ItemOnly
  <1>2. PICK n, r, map, group :
          /\ n = node[E(p)] /\ r = row[p]
          /\ map = Put(Group(p).map, Plugin[r].new, r)
          /\ group = IF r \in SelectedOf(Group(p)) THEN [Group(p) EXCEPT !.map = map]
                                                   ELSE Group(p)
    OBVIOUS
  <1>3. /\ Group(p).holder = p /\ p # <<>> /\ Group(p).size = 0
        /\ r \in 1..(Len(Plugin) + 1) /\ Len(Plugin) \in Nat
        /\ Group(p).map = MapOf(EnteredBefore(Group(p), r))
    BY <1>1, <1>2, AtTheRow, CaseFacts
  <1>4. OnlyGroup(n, group)
    <2>1. CASE r \in SelectedOf(Group(p))
      <3>1. groups' = [groups EXCEPT ![n].map = map]
        BY <1>2, <2>1 DEF FillMap, Group, SelectedOf
      <3> QED BY <3>1, <1>2, <2>1 DEF OnlyGroup, Group
    <2>2. CASE r \notin SelectedOf(Group(p))
      <3>1. groups' = groups /\ group = groups[n]
        BY <1>2, <2>2 DEF FillMap, Group, SelectedOf
      <3>2. groups = [i \in DOMAIN groups |-> groups[i]]
        BY <1>1 DEF Types, IsList
      <3> QED BY <3>1, <3>2 DEF OnlyGroup
    <2> QED BY <2>1, <2>2
  <1>5. /\ Group(p).dynamic /\ Group(p).type = "Item" /\ DOMAIN Group(p) = GroupFields
        /\ Group(p) = groups[n] /\ n \in 1..Len(groups)
        /\ groups'[n] = group /\ Group(p)' = group
        /\ node'[E(p)'] = n /\ n \in 1..Len(groups') /\ E(p)' \in Exprs'
        /\ group.info = Group(p).info => SelectedOf(group)' = SelectedOf(Group(p))
    <2>1. at'[p] = at[p] /\ UNCHANGED <<case, node>> /\ pc[p] \in {"lock", "fill"}
      BY <1>1
    <2>2. n = node[E(p)]
      BY <1>2
    <2> QED BY <2>1, <2>2, <1>4, AtTheMap
  <1>6. /\ DOMAIN group = GroupFields /\ group.type = Group(p).type
        /\ group.dynamic = Group(p).dynamic /\ group.info = Group(p).info
        /\ group.size = 0 /\ group.holder = p
        /\ group.map = IF r \in SelectedOf(Group(p)) THEN map ELSE Group(p).map
    <2>1. DOMAIN Group(p) = GroupFields /\ Group(p).holder = p /\ Group(p).size = 0
      BY <1>3, <1>5
    <2>2. CASE r \in SelectedOf(Group(p))
      <3>1. group = [Group(p) EXCEPT !.map = map]
        BY <1>2, <2>2
      <3> QED BY <2>1, <2>2, <3>1 DEF GroupFields
    <2>3. CASE r \notin SelectedOf(Group(p))
      BY <1>2, <2>1, <2>3
    <2> QED BY <2>2, <2>3
  <1>7. group.map = MapOf(EnteredBefore(Group(p), r + 1))
    <2> DEFINE rows == EnteredBefore(Group(p), r + 1)
    <2>1. /\ rows \in SUBSET Nat /\ \A k \in rows : k <= r
          /\ EnteredBefore(Group(p), r) = rows \ {r}
      BY <1>1, <1>3, CaseFacts DEF EnteredBefore
    <2>2. CASE r \in SelectedOf(Group(p))
      <3>1. r \in rows
        BY <2>2, <1>3 DEF EnteredBefore
      <3>2. group.map = Put(MapOf(rows \ {r}), Plugin[r].new, r)
        BY <2>1, <2>2, <1>2, <1>3, <1>6
      <3> HIDE DEF rows
      <3>3. Put(MapOf(rows \ {r}), Plugin[r].new, r) = MapOf(rows)
        BY <2>1, <3>1, EnterRow
      <3> QED BY <3>2, <3>3 DEF rows
    <2>3. CASE r \notin SelectedOf(Group(p))
      <3>1. rows \ {r} = rows
        BY <2>3 DEF EnteredBefore
      <3> QED BY <2>1, <2>3, <3>1, <1>3, <1>6
    <2> QED BY <2>2, <2>3
  <1>8. row'[p] = r + 1 /\ r + 1 \in 1..(Len(Plugin) + 1) /\ r + 1 \in Nat
    BY <1>1, <1>2, <1>3
  <1>9. InHand(p)'
    BY <1>1, <1>5, <1>6, <1>8 DEF InHand
  <1>10. group.map = MapOf(EnteredBefore(group, row[p]))'
    <2>1. EnteredBefore(group, row[p])' = EnteredBefore(Group(p), r + 1)
      BY <1>5, <1>6, <1>8 DEF EnteredBefore
    <2>2. MapOf(EnteredBefore(group, row[p]))' = MapOf(EnteredBefore(Group(p), r + 1))
      BY <2>1, <1>1, SameCase DEF MapOf, LastRow
    <2> QED BY <2>2, <1>7
  <1>11. MapLocked(n)'
    <2>1. /\ p \in Procs' /\ pc'[p] = "fill" /\ row'[p] \in 1..(Len(Plugin') + 1)
          /\ p # <<>> /\ node'[E(p)'] = n
      BY <1>1, <1>3, <1>5, <1>8, SameCase
    <2>2. /\ groups'[n].type = "Item" /\ groups'[n].dynamic /\ groups'[n].size = 0
          /\ groups'[n].holder = p
          /\ groups'[n].map = MapOf(EnteredBefore(groups[n], row[p]))'
      BY <1>5, <1>6, <1>10
    <2> QED BY <2>1, <2>2 DEF MapLocked
  <1>12. pc' = [pc EXCEPT ![p] = "fill"] /\ row' = [row EXCEPT ![p] = r + 1]
    BY <1>1, <1>2
  <1> QED BY <1>1, <1>2, <1>3, <1>4, <1>6, <1>8, <1>9, <1>11, <1>12, GroupStep

\* size_ is 0 after the filling only when no row is selected.
LEMMA SizeOfMap ==
  ASSUME Len(Plugin) \in Nat, NEW rows \in SUBSET (1..Len(Plugin)),
         Cardinality(DOMAIN MapOf(rows)) = 0
  PROVE  rows = {}
  <1> DEFINE T == {Plugin[k].new : k \in rows}
             f == [k \in rows |-> Plugin[k].new]
  <1>1. IsFiniteSet(rows)
    <2>1. IsFiniteSet(1..Len(Plugin))
      BY FS_Interval
    <2> QED BY <2>1, FS_Subset
  <1>2. f \in Surjection(rows, T)
    BY DEF Surjection
  <1> HIDE DEF f
  <1>3. DOMAIN MapOf(rows) = T
    BY DEF MapOf
  <1>4. T = {} => rows = {}
    OBVIOUS
  <1> HIDE DEF T
  <1>5. IsFiniteSet(T)
    BY <1>1, <1>2, FS_Surjection
  <1> QED BY <1>3, <1>4, <1>5, FS_EmptySet

LEMMA SetSizeKeeps ==
  ASSUME Inv, status = "running", NEW p \in Procs, SetSize(p)
  PROVE  Inv'
  <1>1. /\ pc[p] = "fill" /\ row[p] > Len(Plugin) /\ Types
        /\ UNCHANGED <<case, shared, node, groupMap, status, made, cache, at, using, row>>
        /\ pc \in [Procs -> Stages] /\ row \in [Procs -> Nat]
        /\ pc' = [pc EXCEPT ![p] = "match"]
    BY DEF Inv, Types, SetSize, ItemOnly
  <1>2. PICK n, size, group, rows :
          /\ n = node[E(p)] /\ size = Cardinality(DOMAIN Group(p).map)
          /\ group = [Group(p) EXCEPT !.size = size, !.holder = <<>>]
          /\ rows = SelectedOf(Group(p))
    OBVIOUS
  <1>3. /\ Group(p).holder = p /\ p # <<>> /\ Group(p).size = 0
        /\ row[p] \in 1..(Len(Plugin) + 1) /\ Len(Plugin) \in Nat
        /\ Group(p).map = MapOf(EnteredBefore(Group(p), row[p]))
    BY <1>1, AtTheRow, CaseFacts
  <1>4. OnlyGroup(n, group)
    <2>1. groups' = [groups EXCEPT ![n].size = size, ![n].holder = <<>>]
      BY <1>2 DEF SetSize
    <2> QED BY <2>1, <1>2 DEF OnlyGroup, Group
  <1>5. /\ Group(p).dynamic /\ Group(p).type = "Item" /\ DOMAIN Group(p) = GroupFields
        /\ Group(p) = groups[n] /\ n \in 1..Len(groups)
        /\ groups'[n] = group /\ Group(p)' = group
        /\ node'[E(p)'] = n /\ n \in 1..Len(groups') /\ E(p)' \in Exprs'
        /\ group.info = Group(p).info => SelectedOf(group)' = SelectedOf(Group(p))
    <2>1. at'[p] = at[p] /\ UNCHANGED <<case, node>> /\ pc[p] \in {"lock", "fill"}
      BY <1>1
    <2>2. n = node[E(p)]
      BY <1>2
    <2> QED BY <2>1, <2>2, <1>4, AtTheMap
  <1>6. /\ DOMAIN group = GroupFields /\ group.type = Group(p).type
        /\ group.dynamic = Group(p).dynamic /\ group.info = Group(p).info
        /\ group.size = size /\ group.holder = <<>> /\ group.map = Group(p).map
    <2>1. DOMAIN Group(p) = GroupFields
      BY <1>5
    <2>2. group = [Group(p) EXCEPT !.size = size, !.holder = <<>>]
      BY <1>2
    <2> QED BY <2>1, <2>2 DEF GroupFields
  <1>7. EnteredBefore(Group(p), row[p]) = rows /\ rows \in SUBSET (1..Len(Plugin))
    BY <1>1, <1>2, <1>3, CaseFacts DEF EnteredBefore
  <1>8. Group(p).map = MapOf(rows) /\ (size = 0 => rows = {})
    BY <1>2, <1>3, <1>7, SizeOfMap
  <1>9. pc'[p] = "match" /\ SelectedOf(group)' = rows
    BY <1>1, <1>2, <1>5, <1>6
  <1>10. InHand(p)'
    BY <1>5, <1>6, <1>8, <1>9 DEF InHand
  <1>11. MapLocked(n)'
    <2>1. MapOf(SelectedOf(group))' = MapOf(rows)
      BY <1>1, <1>9, SameCase DEF MapOf, LastRow
    <2> QED BY <1>5, <1>6, <1>8, <2>1, EmptyMap DEF MapLocked
  <1>12. row' = [row EXCEPT ![p] = row[p]] /\ row[p] \in Nat
    BY <1>1
  <1> QED BY <1>1, <1>2, <1>3, <1>4, <1>6, <1>10, <1>11, <1>12, GroupStep

-----------------------------------------------------------------------------
LEMMA NextKeeps == Inv /\ [Next]_vars => Inv'
  <1> SUFFICES ASSUME Inv, [Next]_vars PROVE Inv' OBVIOUS
  <1>1. Types /\ DOMAIN groups = 1..Len(groups)
    BY ListAppend DEF Inv, Types
  <1>2. CASE status = "running" /\ \E e \in Exprs : ParseGroup(e)
    BY <1>1, <1>2, ParseGroupGrows, GrownKeeps
  <1>3. CASE status = "running" /\ \E g \in DOMAIN groups : BuildGroup(g) \/ InitGroup(g)
    BY <1>1, <1>3, BuildGroupGrows, InitGroupGrows, GrownKeeps
  <1>4. CASE status = "running" /\ \E p \in Procs :
               \/ Lookup(p) \/ FindCached(p) \/ TestSize(p) \/ LockMap(p)
               \/ FillMap(p) \/ SetSize(p) \/ MatchRows(p) \/ Process(p) \/ DeleteItem(p)
    BY <1>4, LookupKeeps, FindCachedKeeps, TestSizeKeeps, LockMapKeeps, FillMapKeeps,
       SetSizeKeeps, MatchRowsKeeps, ProcessKeeps, DeleteItemKeeps
  <1>5. CASE UNCHANGED vars
    <2>1. Grown
      BY <1>1, <1>5, CaseFacts DEF Grown, Kept, Types, vars, ItemVars
    <2> QED BY <2>1, GrownKeeps
  <1> QED BY <1>2, <1>3, <1>4, <1>5 DEF Next, Ended

\* Maps, locks, caches and groups stay consistent, whatever the texts, the keys and the
\* order in which groups are parsed and built and items processed.
THEOREM GroupsInvariance == Spec => []Inv
  <1>1. Init => Inv
    BY InitInv
  <1>2. Inv /\ [Next]_vars => Inv'
    BY NextKeeps
  <1> QED BY <1>1, <1>2, PTL DEF Spec

\* buildDynamicGroup reads the map of a dynamic group only when every row of the layer
\* that its conditions select has been entered, by whatever item: the test of size_
\* without the lock is enough, since size_ is set after the last row.
THEOREM MapIsComplete == Spec => []MapCompleteWhenRead
  <1>1. Inv => MapCompleteWhenRead
    <2> SUFFICES ASSUME Inv, NEW p \in Procs, pc[p] = "match"
                 PROVE  Group(p).map = MapOf(SelectedOf(Group(p)))
      BY DEF MapCompleteWhenRead, MapOf, SelectedOf
    <2>1. /\ node[E(p)] \in 1..Len(groups)
          /\ Group(p).size # 0 \/ SelectedOf(Group(p)) = {}
      BY DEF Inv, GroupsInHand, InHand, Asking
    <2>2. MapLocked(node[E(p)])
      BY <2>1 DEF Inv, MapsLocked
    <2>3. CASE Group(p).size # 0
      BY <2>2, <2>3 DEF MapLocked, Group
    <2>4. CASE Group(p).size = 0 /\ SelectedOf(Group(p)) = {}
      <3>1. CASE Group(p).holder = <<>>
        BY <2>2, <2>4, <3>1, EmptyMap DEF MapLocked, Group
      <3>2. CASE Group(p).holder # <<>>
        <4>1. PICK q \in Procs :
                Group(p).map = MapOf(EnteredBefore(Group(p), row[q]))
          BY <2>2, <3>2 DEF MapLocked, Group
        <4>2. EnteredBefore(Group(p), row[q]) = {}
          BY <2>4 DEF EnteredBefore
        <4> QED BY <4>1, <4>2, <2>4
      <3> QED BY <3>1, <3>2
    <2> QED BY <2>1, <2>3, <2>4
  <1> QED BY <1>1, GroupsInvariance, PTL

\* A dynamic group is used after ~MifItem of a row deleted it only when files share
\* what their input keeps of the row.
THEOREM OwnersNeverMeetFreed == Spec => []FreedOnlyWhenShared
  <1>1. Inv => FreedOnlyWhenShared
    BY DEF Inv, Types, OwnersDelete, FreedOnlyWhenShared
  <1> QED BY <1>1, GroupsInvariance, PTL
====
