--------------------------- MODULE MifItemsProofs ---------------------------
(***************************************************************************)
(* What MifItems says of any files, programs, rows and ways of sharing     *)
(* layers, with the inductive invariant it follows from.                   *)
(***************************************************************************)
EXTENDS MifItems, QueueLemmas

Layers == {0} \cup Files
Names == Tags \cup {"guid", "name"} \cup DOMAIN Rows[1]
Kinds == {"New", "Empty", "String", "Number"}
Steps == {"condition", "assign", "add", "cache", "done"}

\* A map from some of the names to S.
IsMap(m, S) ==
  /\ m = [t \in DOMAIN m |-> m[t]] /\ DOMAIN m \subseteq Names
  /\ \A t \in DOMAIN m : m[t] \in S

\* What tagNumberCache_ holds.
Numbers == Nat

\* A map for each row of each layer.
IsCache(cache, S) ==
  /\ cache = [k \in Layers |-> [i \in Items |-> cache[k][i]]]
  /\ \A k \in Layers, i \in Items : IsMap(cache[k][i], S)

\* A layer: its columns have different names, tagColCache_ says where they are,
\* and a type that is known is the type of a column.
Distinct(cols) == \A a, b \in 1..Len(cols) : cols[a] = cols[b] => a = b
Located(l) ==
  \A t \in DOMAIN l.colCache :
    l.colCache[t] \in 1..Len(l.cols) /\ l.cols[l.colCache[t]] = t
IsRecord(l) ==
  l = [cols |-> l.cols, colCache |-> l.colCache, types |-> l.types,
       rows |-> l.rows, src |-> l.src]
IsLayer(l) ==
  /\ IsRecord(l)
  /\ l.cols \in Seq(Names) /\ l.rows \in Seq(Seq(Values)) /\ l.src \in {-1, 0}
  /\ IsMap(l.colCache, Nat) /\ IsMap(l.types, Kinds)
  /\ Distinct(l.cols) /\ Located(l)
  /\ \A t \in DOMAIN l.types : l.types[t] # "New" => t \in DOMAIN l.colCache

\* A layer that was read: every row has a value for every column.
Full(l) == \A r \in DOMAIN l.rows : Len(l.rows[r]) = Len(l.cols)
IsInput(l) ==
  /\ l.src = -1 /\ "guid" \in DOMAIN l.colCache
  /\ DOMAIN l.rows = Items /\ Full(l)
IsOutput(l, input) ==
  /\ l.src = 0 /\ "guid" \in DOMAIN l.colCache
  /\ Len(input.cols) <= Len(l.cols)
  /\ \A c \in 1..Len(input.cols) : l.cols[c] = input.cols[c]

Begun(f) == f \in begun
Current(f) == Begun(f) /\ ~Ran(f)

\* A job of lines parses them in their order, once the file has been read.
InOrder(f) ==
  \A k \in parsed[f] : \A j \in 1..k - 1 :
    prog[f][j].job = prog[f][k].job => j \in parsed[f]
ParsedParts(f) ==
  /\ parsed[f] \subseteq 1..Len(prog[f]) /\ InOrder(f)
  /\ Len(types[f]) = Len(prog[f])
  /\ Parallel \/ parsed[f] # {} => Begun(f)

TypeInv ==
  /\ mode \in Modes /\ prog \in [Files -> Programs]
  /\ begun \subseteq Files
  /\ parsed \in [Files -> SUBSET Nat] /\ types \in [Files -> Seq(Kinds)]
  /\ \A f \in Files : ParsedParts(f)
  /\ IsCache(strings, Values) /\ IsCache(numbers, Numbers)
  /\ pc \in [Procs -> Steps] /\ at \in [Procs -> Nat \ {0}]
  /\ row \in [Procs -> Nat]
  /\ old \in [Procs -> Values]
  /\ view = [p \in Procs |-> view[p]]
  /\ \A p \in Procs :
       /\ IsMap(view[p], Values) /\ Tags \cup {"guid"} \subseteq DOMAIN view[p]

\* The layers are what their files take them for.
LayersInv ==
  /\ layer = [k \in Layers |-> layer[k]]
  /\ \A k \in Layers :
       /\ IsLayer(layer[k])
       /\ k = 0 \/ mode = "own" => IsInput(layer[k])
       /\ k # 0 /\ mode \in {"shared", "serialNew"} => layer[k].src = 0
       /\ ~Parallel => DOMAIN layer[k].types \subseteq DOMAIN layer[k].colCache
  /\ \A f \in Files : IsNew(f) /\ Begun(f) => IsOutput(layer[Target(f)], layer[0])

\* An item is in a file that is parsed, and in serial mode the only one at work.
OrderInv ==
  /\ \A p \in Procs : ~AllParsed(p[1]) =>
       /\ pc[p] = "condition"
       /\ mode = "shared" => layer[p[1]].rows = <<>>
  /\ ~Parallel => \A p \in Procs, f \in Files :
       p[1] < f /\ Begun(f) => pc[p] = "done"

\* What the parsed expressions have found: a type stands for a column, or for a tag
\* that a condition has asked an own layer for, and in layers of an output each,
\* every type is New.
Asks(f, j) == j \in parsed[f] /\ ~prog[f][j].assign /\ HasTag(prog[f][j])
Asked(f) == {prog[f][j].tag : j \in {i \in parsed[f] : Asks(f, i)}}
TypesHaveColumns(f) ==
  DOMAIN layer[Target(f)].types \subseteq
    DOMAIN layer[Target(f)].colCache \cup (IF mode = "own" THEN Asked(f) ELSE {})
ParsedInv ==
  \A f \in Files :
    /\ TypesHaveColumns(f)
    /\ mode = "shared" => \A t \in DOMAIN layer[f].types : layer[f].types[t] = "New"
    /\ \A k \in parsed[f] : HasTag(prog[f][k]) =>
         IF prog[f][k].assign
         THEN mode = "shared" => types[f][k] = "New"
         ELSE types[f][k] # "New" =>
                prog[f][k].tag \in DOMAIN layer[Source(f)].colCache

\* An item at work: what it is about to do with its row.
AtAssignment(p) == at[p] <= Len(prog[p[1]]) /\ Expr(p).op \in {"=", "+="}
AfterAssignment(p) ==
  at[p] >= 2 /\ at[p] - 1 <= Len(prog[p[1]]) /\ prog[p[1]][at[p] - 1].assign
ItemInv(p) ==
  /\ pc[p] \in {"add", "cache"} => AtAssignment(p)
  /\ pc[p] = "add" /\ status = "running" /\ NumberAssign(p) => old[p].num # NaN
  /\ pc[p] = "cache" /\ NumberAssign(p) => view[p][Expr(p).tag].num # NaN
  /\ row[p] > 0 => /\ IsNew(p[1]) /\ pc[p] # "condition"
                   /\ row[p] <= Len(layer[Target(p[1])].rows)
                   /\ pc[p] # "done" => AtAssignment(p) \/ AfterAssignment(p)
RowsInv ==
  /\ \A p \in Procs : ItemInv(p)
  /\ \A p, q \in Procs :
       row[p] = row[q] /\ row[p] > 0 /\ Target(p[1]) = Target(q[1]) => p = q

\* What an item stands for holds what its file should see in it: v has the value
\* of each column, and is empty elsewhere.
Shows(l, r, v) ==
  /\ \A c \in 1..Len(l.cols) : l.cols[c] \in DOMAIN v => r[c] = v[l.cols[c]]
  /\ \A t \in DOMAIN v :
       (\A c \in 1..Len(l.cols) : l.cols[c] # t) => v[t] = Empty
Sees(p) ==
  IF row[p] = 0
  THEN Shows(layer[Source(p[1])], layer[Source(p[1])].rows[p[2]], view[p])
  ELSE ~LateEmpty(p[1]) =>
         LET l == layer[Target(p[1])] IN
         /\ Len(l.rows[row[p]]) = Len(l.cols)
         /\ Shows(l, l.rows[row[p]], view[p])
SeesInv == \A p \in Procs : Current(p[1]) => Sees(p)

\* The caches of a row that no assignment has been made to hold its values, as
\* far as no other file writes the tag.
Alone(f, tag) == mode = "own" \/ \A g \in Files \ {f} : ~Writes(g, tag)
Cached(p) ==
  LET k == Source(p[1]) i == p[2] IN
  /\ \A t \in DOMAIN strings[k][i] : Alone(p[1], t) =>
       t \in DOMAIN layer[k].colCache /\ strings[k][i][t] = Cell(k, i, t)
  /\ \A t \in DOMAIN numbers[k][i] : Alone(p[1], t) =>
       t \in DOMAIN layer[k].colCache /\ numbers[k][i][t] = Cell(k, i, t).num
CachesInv == \A p \in Procs : pc[p] = "condition" => Cached(p)

MisreadInv ==
  misread \subseteq Procs \X Names /\ MisreadsComeFromOthers

ItemsInv ==
  /\ TypeInv /\ LayersInv /\ OrderInv /\ ParsedInv /\ RowsInv /\ SeesInv
  /\ CachesInv /\ MisreadInv /\ ColumnsForAssignments /\ FaultsOnlyInSerialNew

-----------------------------------------------------------------------------
(* Maps, records and columns.                                               *)

\* operator[] changes the value of one key.
LEMMA PutFacts ==
  ASSUME NEW map, NEW key, NEW value
  PROVE  /\ DOMAIN Put(map, key, value) = DOMAIN map \cup {key}
         /\ Put(map, key, value)[key] = value
         /\ \A t \in DOMAIN map : t # key => Put(map, key, value)[t] = map[t]
  BY DEF Put

\* A map stays a map.
LEMMA PutIsMap ==
  ASSUME NEW S, NEW map, IsMap(map, S), NEW key \in Names, NEW value \in S
  PROVE  IsMap(Put(map, key, value), S)
  <1> DEFINE m == Put(map, key, value)
  <1>1. m = [t \in DOMAIN m |-> m[t]]
    BY DEF Put
  <1>2. DOMAIN map \subseteq Names /\ \A t \in DOMAIN map : map[t] \in S
    BY DEF IsMap
  <1>3. DOMAIN m = DOMAIN map \cup {key}
    BY PutFacts
  <1>4. \A t \in DOMAIN map \cup {key} : m[t] = IF t = key THEN value ELSE map[t]
    BY DEF Put
  <1> QED
    <2> SUFFICES IsMap(m, S)
      OBVIOUS
    <2> HIDE DEF m
    <2>1. DOMAIN m \subseteq Names /\ \A t \in DOMAIN m : m[t] \in S
      BY <1>2, <1>3, <1>4
    <2> QED
      BY <1>1, <2>1 DEF IsMap

\* One field of a layer.
LEMMA LayerFields ==
  ASSUME NEW l, IsRecord(l), NEW x
  PROVE  /\ [l EXCEPT !.cols = x] =
              [cols |-> x, colCache |-> l.colCache, types |-> l.types,
               rows |-> l.rows, src |-> l.src]
         /\ [l EXCEPT !.colCache = x] =
              [cols |-> l.cols, colCache |-> x, types |-> l.types,
               rows |-> l.rows, src |-> l.src]
         /\ [l EXCEPT !.types = x] =
              [cols |-> l.cols, colCache |-> l.colCache, types |-> x,
               rows |-> l.rows, src |-> l.src]
         /\ [l EXCEPT !.rows = x] =
              [cols |-> l.cols, colCache |-> l.colCache, types |-> l.types,
               rows |-> x, src |-> l.src]
         /\ [l EXCEPT !.src = x] =
              [cols |-> l.cols, colCache |-> l.colCache, types |-> l.types,
               rows |-> l.rows, src |-> x]
  <1>1. l \in [cols : {l.cols}, colCache : {l.colCache}, types : {l.types},
               rows : {l.rows}, src : {l.src}]
    BY DEF IsRecord
  <1>2. [l EXCEPT !.cols = x] =
              [cols |-> x, colCache |-> l.colCache, types |-> l.types,
               rows |-> l.rows, src |-> l.src]
    BY <1>1
  <1>3. [l EXCEPT !.colCache = x] =
              [cols |-> l.cols, colCache |-> x, types |-> l.types,
               rows |-> l.rows, src |-> l.src]
    BY <1>1
  <1>4. [l EXCEPT !.types = x] =
              [cols |-> l.cols, colCache |-> l.colCache, types |-> x,
               rows |-> l.rows, src |-> l.src]
    BY <1>1
  <1>5. [l EXCEPT !.rows = x] =
              [cols |-> l.cols, colCache |-> l.colCache, types |-> l.types,
               rows |-> x, src |-> l.src]
    BY <1>1
  <1>6. [l EXCEPT !.src = x] =
              [cols |-> l.cols, colCache |-> l.colCache, types |-> l.types,
               rows |-> l.rows, src |-> x]
    BY <1>1
  <1> QED
    BY <1>2, <1>3, <1>4, <1>5, <1>6

\* The field that is assigned, and those that are not.
LEMMA SetCols ==
  ASSUME NEW l, IsRecord(l), NEW x
  PROVE  LET m == [l EXCEPT !.cols = x] IN
         /\ IsRecord(m) /\ m.cols = x /\ m.colCache = l.colCache
         /\ m.types = l.types /\ m.rows = l.rows /\ m.src = l.src
  <1> DEFINE m == [l EXCEPT !.cols = x]
  <1>1. m = [cols |-> x, colCache |-> l.colCache, types |-> l.types,
             rows |-> l.rows, src |-> l.src]
    BY LayerFields
  <1> HIDE DEF m
  <1>2. /\ m.cols = x /\ m.colCache = l.colCache /\ m.types = l.types
         /\ m.rows = l.rows /\ m.src = l.src
    BY <1>1
  <1> QED
    BY <1>1, <1>2 DEF IsRecord
LEMMA SetColCache ==
  ASSUME NEW l, IsRecord(l), NEW x
  PROVE  LET m == [l EXCEPT !.colCache = x] IN
         /\ IsRecord(m) /\ m.cols = l.cols /\ m.colCache = x
         /\ m.types = l.types /\ m.rows = l.rows /\ m.src = l.src
  <1> DEFINE m == [l EXCEPT !.colCache = x]
  <1>1. m = [cols |-> l.cols, colCache |-> x, types |-> l.types,
             rows |-> l.rows, src |-> l.src]
    BY LayerFields
  <1> HIDE DEF m
  <1>2. /\ m.cols = l.cols /\ m.colCache = x /\ m.types = l.types
         /\ m.rows = l.rows /\ m.src = l.src
    BY <1>1
  <1> QED
    BY <1>1, <1>2 DEF IsRecord
LEMMA SetTypes ==
  ASSUME NEW l, IsRecord(l), NEW x
  PROVE  LET m == [l EXCEPT !.types = x] IN
         /\ IsRecord(m) /\ m.cols = l.cols /\ m.colCache = l.colCache
         /\ m.types = x /\ m.rows = l.rows /\ m.src = l.src
  <1> DEFINE m == [l EXCEPT !.types = x]
  <1>1. m = [cols |-> l.cols, colCache |-> l.colCache, types |-> x,
             rows |-> l.rows, src |-> l.src]
    BY LayerFields
  <1> HIDE DEF m
  <1>2. /\ m.cols = l.cols /\ m.colCache = l.colCache /\ m.types = x
         /\ m.rows = l.rows /\ m.src = l.src
    BY <1>1
  <1> QED
    BY <1>1, <1>2 DEF IsRecord
LEMMA SetRows ==
  ASSUME NEW l, IsRecord(l), NEW x
  PROVE  LET m == [l EXCEPT !.rows = x] IN
         /\ IsRecord(m) /\ m.cols = l.cols /\ m.colCache = l.colCache
         /\ m.types = l.types /\ m.rows = x /\ m.src = l.src
  <1> DEFINE m == [l EXCEPT !.rows = x]
  <1>1. m = [cols |-> l.cols, colCache |-> l.colCache, types |-> l.types,
             rows |-> x, src |-> l.src]
    BY LayerFields
  <1> HIDE DEF m
  <1>2. /\ m.cols = l.cols /\ m.colCache = l.colCache /\ m.types = l.types
         /\ m.rows = x /\ m.src = l.src
    BY <1>1
  <1> QED
    BY <1>1, <1>2 DEF IsRecord
LEMMA SetSrc ==
  ASSUME NEW l, IsRecord(l), NEW x
  PROVE  LET m == [l EXCEPT !.src = x] IN
         /\ IsRecord(m) /\ m.cols = l.cols /\ m.colCache = l.colCache
         /\ m.types = l.types /\ m.rows = l.rows /\ m.src = x
  <1> DEFINE m == [l EXCEPT !.src = x]
  <1>1. m = [cols |-> l.cols, colCache |-> l.colCache, types |-> l.types,
             rows |-> l.rows, src |-> x]
    BY LayerFields
  <1> HIDE DEF m
  <1>2. /\ m.cols = l.cols /\ m.colCache = l.colCache /\ m.types = l.types
         /\ m.rows = l.rows /\ m.src = x
    BY <1>1
  <1> QED
    BY <1>1, <1>2 DEF IsRecord

\* The column of a name is the one place it has.
LEMMA ColumnFacts ==
  ASSUME NEW l, l.cols \in Seq(Names), Distinct(l.cols)
  PROVE  /\ \A c \in 1..Len(l.cols) :
              l.cols[c] \in Range(l.cols) /\ ColumnOf(l, l.cols[c]) = c
         /\ \A t \in Range(l.cols) :
              ColumnOf(l, t) \in 1..Len(l.cols) /\ l.cols[ColumnOf(l, t)] = t
  <1>1. DOMAIN l.cols = 1..Len(l.cols)
    OBVIOUS
  <1>2. ASSUME NEW c \in 1..Len(l.cols)
        PROVE  l.cols[c] \in Range(l.cols) /\ ColumnOf(l, l.cols[c]) = c
    <2>1. l.cols[c] \in Range(l.cols)
      BY <1>1 DEF Range
    <2>2. \A d \in 1..Len(l.cols) : l.cols[d] = l.cols[c] => d = c
      BY DEF Distinct
    <2> QED
      BY <2>1, <2>2 DEF ColumnOf
  <1>3. ASSUME NEW t \in Range(l.cols)
        PROVE  ColumnOf(l, t) \in 1..Len(l.cols) /\ l.cols[ColumnOf(l, t)] = t
    <2>1. PICK c \in 1..Len(l.cols) : l.cols[c] = t
      BY <1>1 DEF Range
    <2> QED
      BY <2>1, <1>2
  <1> QED
    BY <1>2, <1>3

\* What a row shows can be looked up by name.
LEMMA ShowsHolds ==
  ASSUME NEW l, l.cols \in Seq(Names), Distinct(l.cols), NEW r, NEW p
  PROVE  Shows(l, r, view[p]) <=> Holds(l, r, p)
  <1>c. /\ \A c \in 1..Len(l.cols) :
              l.cols[c] \in Range(l.cols) /\ ColumnOf(l, l.cols[c]) = c
        /\ \A t \in Range(l.cols) :
              ColumnOf(l, t) \in 1..Len(l.cols) /\ l.cols[ColumnOf(l, t)] = t
    BY ColumnFacts
  <1>1. ASSUME Shows(l, r, view[p]) PROVE Holds(l, r, p)
    <2> SUFFICES ASSUME NEW t \in DOMAIN view[p]
                 PROVE  IF t \in Range(l.cols) THEN r[ColumnOf(l, t)] = view[p][t]
                                               ELSE view[p][t] = Empty
      BY DEF Holds
    <2>1. CASE t \in Range(l.cols)
      BY <1>1, <1>c, <2>1 DEF Shows
    <2>2. CASE t \notin Range(l.cols)
      <3>1. \A c \in 1..Len(l.cols) : l.cols[c] # t
        BY <1>c, <2>2
      <3> QED
        BY <1>1, <2>2, <3>1 DEF Shows
    <2> QED
      BY <2>1, <2>2
  <1>2. ASSUME Holds(l, r, p) PROVE Shows(l, r, view[p])
    <2>1. \A c \in 1..Len(l.cols) : l.cols[c] \in DOMAIN view[p] =>
            r[c] = view[p][l.cols[c]]
      BY <1>2, <1>c DEF Holds
    <2>2. ASSUME NEW t \in DOMAIN view[p], \A c \in 1..Len(l.cols) : l.cols[c] # t
          PROVE  view[p][t] = Empty
      <3>1. t \notin Range(l.cols)
        BY <1>c, <2>2
      <3> QED
        BY <1>2, <3>1 DEF Holds
    <2> QED
      BY <2>1, <2>2 DEF Shows
  <1> QED
    BY <1>1, <1>2

-----------------------------------------------------------------------------
(* What the operations of a layer keep.                                     *)

\* Columns, cached columns and types are only added, and rows only get longer.
GrownRow(l, m, r) ==
  /\ Len(m.rows[r]) = Len(l.rows[r]) + (Len(m.cols) - Len(l.cols))
  /\ \A c \in 1..Len(l.rows[r]) : m.rows[r][c] = l.rows[r][c]
  /\ \A c \in Len(l.rows[r]) + 1..Len(m.rows[r]) : m.rows[r][c] = Empty
Grown(l, m) ==
  /\ m.src = l.src /\ Len(l.cols) <= Len(m.cols)
  /\ \A c \in 1..Len(l.cols) : m.cols[c] = l.cols[c]
  /\ DOMAIN m.rows = DOMAIN l.rows /\ (l.rows = <<>> => m.rows = <<>>)
  /\ \A r \in DOMAIN l.rows : GrownRow(l, m, r)
  /\ \A t \in DOMAIN l.colCache :
       t \in DOMAIN m.colCache /\ m.colCache[t] = l.colCache[t]

\* Types of the parts of a layer.
LEMMA LayerParts ==
  ASSUME NEW l, IsLayer(l)
  PROVE  /\ IsRecord(l) /\ l.cols \in Seq(Names) /\ Len(l.cols) \in Nat
         /\ l.rows \in Seq(Seq(Values)) /\ Distinct(l.cols)
         /\ DOMAIN l.rows = 1..Len(l.rows) /\ Len(l.rows) \in Nat
         /\ \A r \in DOMAIN l.rows :
              /\ l.rows[r] \in Seq(Values) /\ Len(l.rows[r]) \in Nat
              /\ DOMAIN l.rows[r] = 1..Len(l.rows[r])
  <1>1. IsRecord(l) /\ l.cols \in Seq(Names) /\ l.rows \in Seq(Seq(Values))
          /\ Distinct(l.cols)
    BY DEF IsLayer
  <1>2. Len(l.cols) \in Nat /\ Len(l.rows) \in Nat /\ DOMAIN l.rows = 1..Len(l.rows)
    BY <1>1
  <1>3. ASSUME NEW r \in DOMAIN l.rows
        PROVE  /\ l.rows[r] \in Seq(Values) /\ Len(l.rows[r]) \in Nat
               /\ DOMAIN l.rows[r] = 1..Len(l.rows[r])
    <2>1. l.rows[r] \in Seq(Values)
      BY <1>1, <1>2, ElementOfSeq
    <2> QED
      BY <2>1
  <1> QED
    BY <1>1, <1>2, <1>3

\* A layer has grown into itself.
LEMMA GrownSelf ==
  ASSUME NEW l, NEW m, IsLayer(l), m.cols = l.cols, m.rows = l.rows, m.src = l.src,
         \A t \in DOMAIN l.colCache :
           t \in DOMAIN m.colCache /\ m.colCache[t] = l.colCache[t]
  PROVE  Grown(l, m)
  <1>1. \A r \in DOMAIN l.rows : GrownRow(l, m, r)
    BY LayerParts DEF GrownRow
  <1> QED
    BY <1>1, LayerParts DEF Grown

\* Growing twice is growing.
LEMMA GrownTwice ==
  ASSUME NEW l, NEW m, NEW n, IsLayer(l), IsLayer(m), IsLayer(n),
         Grown(l, m), Grown(m, n)
  PROVE  Grown(l, n)
  <1>1. /\ Len(l.cols) \in Nat /\ Len(m.cols) \in Nat /\ Len(n.cols) \in Nat
        /\ Len(l.cols) <= Len(m.cols) /\ Len(m.cols) <= Len(n.cols)
        /\ DOMAIN m.rows = DOMAIN l.rows /\ DOMAIN n.rows = DOMAIN l.rows
    BY LayerParts DEF Grown
  <1>2. \A c \in 1..Len(l.cols) : n.cols[c] = l.cols[c]
    <2>1. \A c \in 1..Len(l.cols) : c \in 1..Len(m.cols)
      BY <1>1
    <2> QED
      BY <2>1 DEF Grown
  <1>3. ASSUME NEW r \in DOMAIN l.rows PROVE GrownRow(l, n, r)
    <2>1. Len(l.rows[r]) \in Nat /\ Len(m.rows[r]) \in Nat /\ Len(n.rows[r]) \in Nat
      BY <1>1, LayerParts
    <2>2. GrownRow(l, m, r) /\ GrownRow(m, n, r)
      BY <1>1 DEF Grown
    <2>3. /\ Len(m.rows[r]) = Len(l.rows[r]) + (Len(m.cols) - Len(l.cols))
          /\ Len(n.rows[r]) = Len(m.rows[r]) + (Len(n.cols) - Len(m.cols))
      BY <2>2 DEF GrownRow
    <2> DEFINE a == Len(l.cols)
               b == Len(m.cols)
               d == Len(n.cols)
               x == Len(l.rows[r])
               y == Len(m.rows[r])
               z == Len(n.rows[r])
    <2>n. /\ a \in Nat /\ b \in Nat /\ d \in Nat /\ a <= b /\ b <= d
          /\ x \in Nat /\ y \in Nat /\ z \in Nat
          /\ y = x + (b - a) /\ z = y + (d - b)
      BY <1>1, <2>1, <2>3
    <2>l. z = x + (d - a) /\ x <= y
      <3> HIDE DEF a, b, d, x, y, z
      <3> QED
        BY <2>n
    <2>4. Len(n.rows[r]) = Len(l.rows[r]) + (Len(n.cols) - Len(l.cols))
      BY <2>l
    <2>5. ASSUME NEW c \in 1..Len(l.rows[r]) PROVE n.rows[r][c] = l.rows[r][c]
      <3>1. c \in 1..Len(m.rows[r])
        BY <2>1, <2>l
      <3> QED
        BY <2>2, <3>1 DEF GrownRow
    <2>6. ASSUME NEW c \in Len(l.rows[r]) + 1..Len(n.rows[r])
          PROVE  n.rows[r][c] = Empty
      <3>1. CASE c <= Len(m.rows[r])
        <4>1. c \in 1..Len(m.rows[r]) /\ c \in Len(l.rows[r]) + 1..Len(m.rows[r])
          BY <2>1, <3>1
        <4> QED
          BY <2>2, <4>1 DEF GrownRow
      <3>2. CASE ~(c <= Len(m.rows[r]))
        <4>1. c \in Len(m.rows[r]) + 1..Len(n.rows[r])
          BY <2>1, <3>2
        <4> QED
          BY <2>2, <4>1 DEF GrownRow
      <3> QED
        BY <3>1, <3>2
    <2> QED
      BY <2>4, <2>5, <2>6 DEF GrownRow
  <1>4. \A t \in DOMAIN l.colCache :
          t \in DOMAIN n.colCache /\ n.colCache[t] = l.colCache[t]
    BY DEF Grown
  <1>5. n.src = l.src /\ (l.rows = <<>> => n.rows = <<>>)
    BY DEF Grown
  <1> QED
    BY <1>1, <1>2, <1>3, <1>4, <1>5 DEF Grown

\* In a layer that has grown, full rows are full and show the same.
LEMMA GrownShows ==
  ASSUME NEW l, NEW m, IsLayer(l), IsLayer(m), Grown(l, m),
         NEW r \in DOMAIN l.rows, Len(l.rows[r]) = Len(l.cols), NEW v
  PROVE  /\ Len(m.rows[r]) = Len(m.cols)
         /\ Shows(l, l.rows[r], v) => Shows(m, m.rows[r], v)
  <1>1. /\ Len(l.cols) \in Nat /\ Len(m.cols) \in Nat /\ Len(l.cols) <= Len(m.cols)
        /\ \A c \in 1..Len(l.cols) : m.cols[c] = l.cols[c]
    BY LayerParts DEF Grown
  <1>2. GrownRow(l, m, r)
    BY DEF Grown
  <1>3. Len(m.rows[r]) = Len(m.cols)
    BY <1>1, <1>2 DEF GrownRow
  <1>4. ASSUME Shows(l, l.rows[r], v) PROVE Shows(m, m.rows[r], v)
    <2>1. ASSUME NEW c \in 1..Len(m.cols), m.cols[c] \in DOMAIN v
          PROVE  m.rows[r][c] = v[m.cols[c]]
      <3>1. CASE c <= Len(l.cols)
        <4>1. c \in 1..Len(l.cols)
          BY <1>1, <3>1
        <4>2. m.rows[r][c] = l.rows[r][c] /\ m.cols[c] = l.cols[c]
          BY <1>1, <1>2, <4>1 DEF GrownRow
        <4> QED
          BY <1>4, <2>1, <4>1, <4>2 DEF Shows
      <3>2. CASE ~(c <= Len(l.cols))
        <4>1. c \in Len(l.rows[r]) + 1..Len(m.rows[r])
          BY <1>1, <1>3, <3>2
        <4>2. m.rows[r][c] = Empty
          BY <1>2, <4>1 DEF GrownRow
        <4>3. ASSUME NEW d \in 1..Len(l.cols) PROVE l.cols[d] # m.cols[c]
          <5>1. d \in 1..Len(m.cols) /\ d # c
            BY <1>1, <3>2
          <5>2. m.cols[d] # m.cols[c]
            BY <5>1, LayerParts DEF Distinct
          <5> QED
            BY <5>2, <1>1
        <4> QED
          BY <1>4, <2>1, <4>2, <4>3 DEF Shows
      <3> QED
        BY <3>1, <3>2
    <2>2. ASSUME NEW t \in DOMAIN v, \A c \in 1..Len(m.cols) : m.cols[c] # t
          PROVE  v[t] = Empty
      <3>1. \A c \in 1..Len(l.cols) : l.cols[c] # t
        <4>1. \A c \in 1..Len(l.cols) : c \in 1..Len(m.cols)
          BY <1>1
        <4> QED
          BY <4>1, <1>1, <2>2
      <3> QED
        BY <1>4, <3>1 DEF Shows
    <2> QED
      BY <2>1, <2>2 DEF Shows
  <1> QED
    BY <1>3, <1>4

\* checkAddTag keeps a layer a layer, and says whether there was a column.
LEMMA AddTagFacts ==
  ASSUME NEW l, IsLayer(l), NEW tag \in Names, NEW isAssign \in BOOLEAN
  PROVE  LET a == AddTag(l, tag, isAssign) m == a.layer IN
         /\ IsLayer(m) /\ Grown(l, m) /\ m.types = l.types
         /\ DOMAIN m.colCache \subseteq DOMAIN l.colCache \cup {tag}
         /\ a.found \in BOOLEAN
         /\ a.found => tag \in DOMAIN m.colCache /\ m.cols = l.cols
         /\ isAssign \/ l.src >= 0 => tag \in DOMAIN m.colCache
         /\ ~isAssign /\ l.src = -1 => m.cols = l.cols
  <1> DEFINE a == AddTag(l, tag, isAssign)
             m == a.layer
             Goal == /\ IsLayer(m) /\ Grown(l, m) /\ m.types = l.types
                     /\ DOMAIN m.colCache \subseteq DOMAIN l.colCache \cup {tag}
                     /\ a.found \in BOOLEAN
                     /\ a.found => tag \in DOMAIN m.colCache /\ m.cols = l.cols
                     /\ isAssign \/ l.src >= 0 => tag \in DOMAIN m.colCache
                     /\ ~isAssign /\ l.src = -1 => m.cols = l.cols
  <1> SUFFICES Goal
    OBVIOUS
  <1>l. /\ IsRecord(l) /\ l.cols \in Seq(Names) /\ l.rows \in Seq(Seq(Values))
        /\ l.src \in {-1, 0} /\ IsMap(l.colCache, Nat) /\ IsMap(l.types, Kinds)
        /\ Distinct(l.cols) /\ Located(l)
        /\ \A t \in DOMAIN l.types : l.types[t] # "New" => t \in DOMAIN l.colCache
        /\ Len(l.cols) \in Nat /\ DOMAIN l.rows = 1..Len(l.rows)
    BY LayerParts DEF IsLayer
  <1>1. CASE tag \in DOMAIN l.colCache
    <2>1. a = [layer |-> l, found |-> TRUE]
      <3>1. tag \in Range(l.cols)
        BY <1>1, <1>l, ColumnFacts DEF Located
      <3> QED
        BY <1>1, <3>1 DEF AddTag
    <2>2. m = l /\ a.found = TRUE
      BY <2>1
    <2>3. Grown(l, m)
      BY <2>2, GrownSelf
    <2> HIDE DEF m, a
    <2> QED
      BY <1>1, <2>2, <2>3
  <1>2. CASE tag \notin DOMAIN l.colCache /\ tag \in Range(l.cols)
    <2> DEFINE c == ColumnOf(l, tag)
               x == Put(l.colCache, tag, c)
               l1 == [l EXCEPT !.colCache = x]
    <2>a. /\ IsRecord(l1) /\ l1.cols = l.cols /\ l1.colCache = x
          /\ l1.types = l.types /\ l1.rows = l.rows /\ l1.src = l.src
      <3> HIDE DEF x
      <3> QED
        BY <1>l, SetColCache
    <2>1. a = [layer |-> [l EXCEPT !.colCache = Put(@, tag, c)], found |-> TRUE]
      BY <1>2 DEF AddTag
    <2>2. m = l1 /\ a.found = TRUE
      BY <2>1
    <2>3. c \in 1..Len(l.cols) /\ l.cols[c] = tag
      BY <1>l, <1>2, ColumnFacts
    <2>5. /\ DOMAIN x = DOMAIN l.colCache \cup {tag} /\ x[tag] = c
          /\ \A t \in DOMAIN l.colCache : x[t] = l.colCache[t]
      BY <1>2 DEF Put
    <2>6. IsMap(x, Nat)
      BY <1>l, <2>3, PutIsMap
    <2> HIDE DEF m, a, c, x, l1
    <2>4. /\ IsRecord(m) /\ m.cols = l.cols /\ m.colCache = x
          /\ m.types = l.types /\ m.rows = l.rows /\ m.src = l.src
      BY <2>a, <2>2
    <2>7. Located(m)
      BY <1>l, <2>3, <2>4, <2>5 DEF Located
    <2>8. \A t \in DOMAIN m.types : m.types[t] # "New" => t \in DOMAIN m.colCache
      BY <1>l, <2>4, <2>5
    <2>9. IsLayer(m)
      BY <1>l, <2>4, <2>6, <2>7, <2>8 DEF IsLayer
    <2>10. Grown(l, m)
      BY <2>4, <2>5, GrownSelf
    <2> QED
      BY <2>2, <2>4, <2>5, <2>9, <2>10
  <1>3. CASE tag \notin DOMAIN l.colCache /\ tag \notin Range(l.cols)
               /\ (isAssign \/ l.src >= 0)
    <2> DEFINE n == Len(l.cols)
               rows == [i \in DOMAIN l.rows |-> Append(l.rows[i], Empty)]
               cols == Append(l.cols, tag)
               x == Put(l.colCache, tag, n + 1)
               l1 == [l EXCEPT !.cols = cols]
               l2 == [l1 EXCEPT !.rows = rows]
               l3 == [l2 EXCEPT !.colCache = x]
    <2>1. a = [layer |-> [l EXCEPT !.cols = Append(@, tag),
                            !.rows = [i \in DOMAIN @ |-> Append(@[i], Empty)],
                            !.colCache = Put(@, tag, Len(l.cols) + 1)],
               found |-> FALSE]
      BY <1>3 DEF AddTag
    <2>2. m = l3 /\ a.found = FALSE
      <3>1. l \in [cols : {l.cols}, colCache : {l.colCache}, types : {l.types},
                   rows : {l.rows}, src : {l.src}]
        BY <1>l DEF IsRecord
      <3>2. [l EXCEPT !.cols = Append(@, tag),
                      !.rows = [i \in DOMAIN @ |-> Append(@[i], Empty)],
                      !.colCache = Put(@, tag, Len(l.cols) + 1)] = l3
        BY <3>1
      <3> QED
        BY <2>1, <3>2
    <2>3. /\ IsRecord(l1) /\ l1.cols = cols /\ l1.colCache = l.colCache
          /\ l1.types = l.types /\ l1.rows = l.rows /\ l1.src = l.src
      <3> HIDE DEF cols
      <3> QED
        BY <1>l, SetCols
    <2>4. /\ IsRecord(l2) /\ l2.cols = cols /\ l2.colCache = l.colCache
          /\ l2.types = l.types /\ l2.rows = rows /\ l2.src = l.src
      <3> HIDE DEF cols, rows, l1
      <3> QED
        BY <2>3, SetRows
    <2>5. /\ IsRecord(m) /\ m.cols = cols /\ m.colCache = x
          /\ m.types = l.types /\ m.rows = rows /\ m.src = l.src
      <3>1. /\ IsRecord(l3) /\ l3.cols = cols /\ l3.colCache = x
            /\ l3.types = l.types /\ l3.rows = rows /\ l3.src = l.src
        <4> HIDE DEF cols, rows, x, l2
        <4> QED
          BY <2>4, SetColCache
      <3> HIDE DEF l3, cols, rows, x, m
      <3> QED
        BY <2>2, <3>1
    <2>6. /\ DOMAIN x = DOMAIN l.colCache \cup {tag} /\ x[tag] = n + 1
          /\ \A t \in DOMAIN l.colCache : x[t] = l.colCache[t]
      BY <1>3 DEF Put
    <2>7. IsMap(x, Nat)
      <3>1. n + 1 \in Nat
        BY <1>l
      <3> QED
        BY <1>l, <3>1, PutIsMap
    <2>8. /\ cols \in Seq(Names) /\ Len(cols) = n + 1 /\ cols[n + 1] = tag
          /\ \A c \in 1..n : cols[c] = l.cols[c]
      BY <1>l
    <2>9. \A c \in 1..n : cols[c] # tag
      <3>1. \A c \in 1..n : l.cols[c] \in Range(l.cols)
        BY <1>l, ColumnFacts
      <3> QED
        BY <1>3, <2>8, <3>1
    <2>10. Distinct(cols)
      <3> SUFFICES ASSUME NEW c \in 1..n + 1, NEW d \in 1..n + 1, cols[c] = cols[d]
                   PROVE  c = d
        BY <2>8 DEF Distinct
      <3>1. CASE c = n + 1 \/ d = n + 1
        BY <1>l, <2>8, <2>9, <3>1
      <3>2. CASE c # n + 1 /\ d # n + 1
        <4>1. c \in 1..n /\ d \in 1..n
          BY <1>l, <3>2
        <4> QED
          BY <1>l, <4>1, <2>8 DEF Distinct
      <3> QED
        BY <3>1, <3>2
    <2>11. /\ rows \in Seq(Seq(Values)) /\ DOMAIN rows = DOMAIN l.rows
           /\ l.rows = <<>> => rows = <<>>
           /\ \A r \in DOMAIN l.rows :
                /\ Len(l.rows[r]) \in Nat /\ Len(rows[r]) = Len(l.rows[r]) + 1
                /\ \A c \in 1..Len(l.rows[r]) : rows[r][c] = l.rows[r][c]
                /\ rows[r][Len(l.rows[r]) + 1] = Empty
      <3>1. Empty \in Values
        BY DEF Empty, NaN, Values
      <3>2. ASSUME NEW r \in DOMAIN l.rows
            PROVE  /\ rows[r] \in Seq(Values)
                   /\ Len(l.rows[r]) \in Nat /\ Len(rows[r]) = Len(l.rows[r]) + 1
                   /\ \A c \in 1..Len(l.rows[r]) : rows[r][c] = l.rows[r][c]
                   /\ rows[r][Len(l.rows[r]) + 1] = Empty
        <4>1. l.rows[r] \in Seq(Values) /\ Len(l.rows[r]) \in Nat
          BY LayerParts
        <4>2. rows[r] = Append(l.rows[r], Empty)
          OBVIOUS
        <4> HIDE DEF rows
        <4> QED
          BY <3>1, <4>1, <4>2, AppendProperties
      <3>3. DOMAIN rows = 1..Len(l.rows) /\ Len(l.rows) \in Nat
        BY <1>l
      <3>4. rows \in Seq(Seq(Values))
        <4>1. \A r \in 1..Len(l.rows) : rows[r] \in Seq(Values)
          BY <1>l, <3>2
        <4>2. rows = [r \in 1..Len(l.rows) |-> rows[r]]
          BY <1>l
        <4> HIDE DEF rows
        <4> QED
          BY <3>3, <4>1, <4>2
      <3>5. l.rows = <<>> => rows = <<>>
        <4>1. SUFFICES ASSUME l.rows = <<>> PROVE Len(rows) = 0
          <5> HIDE DEF rows
          <5> QED
            BY <3>4, EmptySeq
        <4> QED
          BY <1>l, <3>3, <3>4, <4>1
      <3> QED
        BY <1>l, <3>2, <3>3, <3>4, <3>5
    <2> HIDE DEF m, a, n, rows, cols, x, l1, l2, l3
    <2>12. Located(m)
      <3>1. \A t \in DOMAIN m.colCache : t = tag \/ t \in DOMAIN l.colCache
        BY <2>5, <2>6
      <3>2. n \in Nat
        BY <1>l DEF n
      <3>3. \A t \in DOMAIN l.colCache :
              l.colCache[t] \in 1..n /\ l.cols[l.colCache[t]] = t
        BY <1>l DEF Located, n
      <3> QED
        BY <3>1, <3>2, <3>3, <2>5, <2>6, <2>8 DEF Located
    <2>13. \A t \in DOMAIN m.types : m.types[t] # "New" => t \in DOMAIN m.colCache
      BY <1>l, <2>5, <2>6
    <2>14. IsLayer(m)
      <3>1. Distinct(m.cols) /\ m.cols \in Seq(Names) /\ m.rows \in Seq(Seq(Values))
              /\ IsMap(m.colCache, Nat) /\ IsMap(m.types, Kinds) /\ m.src \in {-1, 0}
        BY <1>l, <2>5, <2>7, <2>8, <2>10, <2>11
      <3> QED
        BY <3>1, <2>5, <2>12, <2>13 DEF IsLayer
    <2>15. Grown(l, m)
      <3>1. ASSUME NEW r \in DOMAIN l.rows PROVE GrownRow(l, m, r)
        <4>1. Len(m.cols) - Len(l.cols) = 1
          BY <1>l, <2>5, <2>8 DEF n
        <4> DEFINE k == Len(l.rows[r])
        <4>2. /\ k \in Nat /\ Len(m.rows[r]) = k + 1 /\ m.rows[r][k + 1] = Empty
              /\ \A c \in 1..k : m.rows[r][c] = l.rows[r][c]
          BY <2>5, <2>11
        <4>3. \A c \in k + 1..Len(m.rows[r]) : m.rows[r][c] = Empty
          <5> HIDE DEF k
          <5> QED
            BY <4>2
        <4> QED
          BY <4>1, <4>2, <4>3 DEF GrownRow
      <3>2. Len(l.cols) <= Len(m.cols) /\ \A c \in 1..Len(l.cols) : m.cols[c] = l.cols[c]
        BY <1>l, <2>5, <2>8 DEF n
      <3> QED
        BY <3>1, <3>2, <2>5, <2>6, <2>11 DEF Grown
    <2>16. DOMAIN m.colCache = DOMAIN l.colCache \cup {tag} /\ m.types = l.types
      BY <2>5, <2>6
    <2>17. ~(~isAssign /\ l.src = -1)
      BY <1>3
    <2> QED
      BY <2>2, <2>14, <2>15, <2>16, <2>17
  <1>4. CASE /\ tag \notin DOMAIN l.colCache /\ tag \notin Range(l.cols)
             /\ ~isAssign /\ ~(l.src >= 0)
    <2>1. a = [layer |-> l, found |-> FALSE]
      BY <1>4 DEF AddTag
    <2>2. m = l /\ a.found = FALSE
      BY <2>1
    <2>3. Grown(l, m)
      BY <2>2, GrownSelf
    <2> HIDE DEF m, a
    <2> QED
      BY <1>4, <2>2, <2>3
  <1> QED
    BY <1>1, <1>2, <1>3, <1>4

\* getTagType keeps a layer a layer; the type it finds is that of a column.
TypedLayer(l, first, tag, isAssign, t) ==
  /\ IsLayer(t.layer) /\ Grown(l, t.layer)
  /\ t.type \in Kinds /\ t.bad \in BOOLEAN
  /\ t.type # "New" => tag \in DOMAIN t.layer.colCache
  /\ DOMAIN t.layer.types \subseteq DOMAIN l.types \cup {tag}
  /\ \A u \in DOMAIN l.types :
       u \in DOMAIN t.layer.types /\ t.layer.types[u] = l.types[u]
  /\ tag \notin DOMAIN l.types /\ (isAssign \/ l.src >= 0) =>
       tag \in DOMAIN t.layer.colCache
  /\ tag \notin DOMAIN l.types /\ tag \in DOMAIN t.layer.types /\ ~Parallel =>
       tag \in DOMAIN t.layer.colCache
  /\ l.rows = <<>> /\ (\A u \in DOMAIN l.types : l.types[u] = "New") =>
       t.type = "New" /\ \A u \in DOMAIN t.layer.types : t.layer.types[u] = "New"
  /\ ~isAssign /\ l.src = -1 => t.layer.cols = l.cols
  /\ t.bad => l.rows # <<>> /\ \E c \in 1..Len(l.cols) : c \notin DOMAIN first
LEMMA TypedTagFacts ==
  ASSUME NEW l, IsLayer(l), NEW first, NEW tag \in Names, NEW isAssign \in BOOLEAN
  PROVE  TypedLayer(l, first, tag, isAssign, TypedTag(l, first, tag, isAssign))
  <1> DEFINE t == TypedTag(l, first, tag, isAssign)
  <1> SUFFICES TypedLayer(l, first, tag, isAssign, t)
    OBVIOUS
  <1>1. CASE tag \in DOMAIN l.types
    <2>1. t = [layer |-> l, type |-> l.types[tag], bad |-> FALSE]
      BY <1>1 DEF TypedTag
    <2>2. t.layer = l /\ t.type = l.types[tag] /\ t.bad = FALSE
      BY <2>1
    <2>3. Grown(l, l)
      BY GrownSelf
    <2>4. /\ l.types[tag] \in Kinds
          /\ l.types[tag] # "New" => tag \in DOMAIN l.colCache
      BY <1>1 DEF IsLayer, IsMap
    <2> HIDE DEF t
    <2> QED
      BY <1>1, <2>2, <2>3, <2>4 DEF TypedLayer
  <1>2. CASE tag \notin DOMAIN l.types
    <2> DEFINE a == AddTag(l, tag, isAssign)
               m == a.layer
               known == Known(l, a)
               bad == known /\ m.colCache[tag] \notin DOMAIN first
               type == IF known /\ ~bad THEN TypeOf(first[m.colCache[tag]])
                                        ELSE "New"
               x == Put(m.types, tag, type)
               m1 == [m EXCEPT !.types = x]
    <2>1. t = [layer |-> IF known \/ Parallel THEN m1 ELSE m,
               type |-> type, bad |-> bad]
      BY <1>2 DEF TypedTag
    <2>2. t.layer = (IF known \/ Parallel THEN m1 ELSE m) /\ t.type = type /\ t.bad = bad
      BY <2>1
    <2>3. /\ IsLayer(m) /\ Grown(l, m) /\ m.types = l.types
          /\ DOMAIN m.colCache \subseteq DOMAIN l.colCache \cup {tag}
          /\ a.found \in BOOLEAN
          /\ a.found => tag \in DOMAIN m.colCache /\ m.cols = l.cols
          /\ isAssign \/ l.src >= 0 => tag \in DOMAIN m.colCache
          /\ ~isAssign /\ l.src = -1 => m.cols = l.cols
      BY AddTagFacts
    <2>4. known \in BOOLEAN /\ (known => a.found /\ l.rows # <<>>)
      BY <2>3 DEF Known
    <2>5. type \in {"New", "String", "Number"} /\ bad \in BOOLEAN /\ (~known => type = "New")
      BY <2>4 DEF TypeOf
    <2>6. bad => l.rows # <<>> /\ \E c \in 1..Len(l.cols) : c \notin DOMAIN first
      <3>1. ASSUME bad PROVE l.rows # <<>> /\ \E c \in 1..Len(l.cols) : c \notin DOMAIN first
        <4>1. a.found /\ l.rows # <<>> /\ m.colCache[tag] \notin DOMAIN first
          BY <3>1, <2>4
        <4>2. Located(m) /\ tag \in DOMAIN m.colCache /\ m.cols = l.cols
          BY <4>1, <2>3 DEF IsLayer
        <4>3. m.colCache[tag] \in 1..Len(l.cols)
          <5> HIDE DEF m
          <5> QED
            BY <4>2 DEF Located
        <4> QED
          BY <4>1, <4>3
      <3> QED
        BY <3>1
    <2>7. /\ IsRecord(m1) /\ m1.cols = m.cols /\ m1.colCache = m.colCache
          /\ m1.types = x /\ m1.rows = m.rows /\ m1.src = m.src
      <3>1. IsRecord(m)
        BY <2>3 DEF IsLayer
      <3> HIDE DEF m, x
      <3> QED
        BY <3>1, SetTypes
    <2>8. /\ DOMAIN x = DOMAIN l.types \cup {tag} /\ x[tag] = type
          /\ \A u \in DOMAIN l.types : x[u] = l.types[u]
      <3>1. m.types = l.types
        BY <2>3
      <3> HIDE DEF m, type
      <3> QED
        BY <1>2, <3>1 DEF Put
    <2>9. IsMap(x, Kinds)
      <3>1. IsMap(m.types, Kinds) /\ type \in Kinds
        BY <2>3, <2>5 DEF IsLayer, Kinds
      <3> HIDE DEF m, type
      <3> QED
        BY <3>1, PutIsMap
    <2> HIDE DEF t, a, m, known, bad, type, x, m1
    <2>10. type # "New" => tag \in DOMAIN m.colCache
      BY <2>3, <2>4, <2>5
    <2>11. IsLayer(m1)
      <3>1. m1.cols \in Seq(Names) /\ m1.rows \in Seq(Seq(Values)) /\ m1.src \in {-1, 0}
              /\ IsMap(m1.colCache, Nat) /\ Distinct(m1.cols)
        BY <2>3, <2>7 DEF IsLayer
      <3>2. Located(m1)
        BY <2>3, <2>7 DEF IsLayer, Located
      <3>3. \A u \in DOMAIN m1.types : m1.types[u] # "New" => u \in DOMAIN m1.colCache
        <4>1. \A u \in DOMAIN m.types : m.types[u] # "New" => u \in DOMAIN m.colCache
          BY <2>3 DEF IsLayer
        <4> QED
          BY <4>1, <2>3, <2>7, <2>8, <2>10
      <3> QED
        BY <3>1, <3>2, <3>3, <2>7, <2>9 DEF IsLayer
    <2>12. Grown(l, m1)
      <3>1. ASSUME NEW r \in DOMAIN l.rows PROVE GrownRow(l, m1, r)
        <4>1. GrownRow(l, m, r)
          BY <2>3 DEF Grown
        <4> QED
          BY <2>7, <4>1 DEF GrownRow
      <3> QED
        BY <3>1, <2>3, <2>7 DEF Grown
    <2>13. CASE known \/ Parallel
      <3>1. t.layer = m1
        BY <2>2, <2>13
      <3>2. IsLayer(t.layer) /\ Grown(l, t.layer)
        BY <3>1, <2>11, <2>12
      <3>3. /\ t.type \in Kinds /\ t.bad \in BOOLEAN
            /\ t.type # "New" => tag \in DOMAIN t.layer.colCache
        BY <3>1, <2>2, <2>5, <2>7, <2>10 DEF Kinds
      <3>4. /\ DOMAIN t.layer.types \subseteq DOMAIN l.types \cup {tag}
            /\ \A u \in DOMAIN l.types :
                 u \in DOMAIN t.layer.types /\ t.layer.types[u] = l.types[u]
        BY <3>1, <2>7, <2>8
      <3>5. isAssign \/ l.src >= 0 => tag \in DOMAIN t.layer.colCache
        BY <3>1, <2>3, <2>7
      <3>6. ~Parallel => tag \in DOMAIN t.layer.colCache
        BY <3>1, <2>3, <2>4, <2>7, <2>13
      <3>7. ASSUME l.rows = <<>>, \A u \in DOMAIN l.types : l.types[u] = "New"
            PROVE  t.type = "New" /\ \A u \in DOMAIN t.layer.types : t.layer.types[u] = "New"
        <4>1. type = "New"
          BY <3>7, <2>4, <2>5
        <4> QED
          BY <4>1, <3>1, <3>7, <2>2, <2>7, <2>8
      <3>8. ~isAssign /\ l.src = -1 => t.layer.cols = l.cols
        BY <3>1, <2>3, <2>7
      <3>9. t.bad => l.rows # <<>> /\ \E c \in 1..Len(l.cols) : c \notin DOMAIN first
        BY <2>2, <2>6
      <3> QED
        BY <3>2, <3>3, <3>4, <3>5, <3>6, <3>7, <3>8, <3>9 DEF TypedLayer
    <2>14. CASE ~(known \/ Parallel)
      <3>1. t.layer = m /\ type = "New"
        BY <2>2, <2>5, <2>14
      <3>2. t.type = "New" /\ t.bad = bad
        BY <2>2, <3>1
      <3> QED
        BY <3>1, <3>2, <1>2, <2>3, <2>5, <2>6 DEF TypedLayer, Kinds
    <2> QED
      BY <2>13, <2>14
  <1> QED
    BY <1>1, <1>2

\* The columns guid and name are there, and have no type without a column.
AllLocated(l) == DOMAIN l.types \subseteq DOMAIN l.colCache
LEMMA ForcedFacts ==
  ASSUME NEW l, IsLayer(l), AllLocated(l), NEW first
  PROVE  LET m == Forced(l, first) IN
         /\ IsLayer(m) /\ Grown(l, m) /\ AllLocated(m) /\ "guid" \in DOMAIN m.colCache
         /\ l.rows = <<>> /\ (\A u \in DOMAIN l.types : l.types[u] = "New") =>
              \A u \in DOMAIN m.types : m.types[u] = "New"
  <1> DEFINE s == TypedTag(l, first, "guid", TRUE)
             g == s.layer
             t == TypedTag(g, first, "name", TRUE)
             m == t.layer
  <1>1. "guid" \in Names /\ "name" \in Names
    BY DEF Names
  <1>2. TypedLayer(l, first, "guid", TRUE, s)
    BY <1>1, TypedTagFacts
  <1>3. IsLayer(g) /\ Grown(l, g)
    <2> HIDE DEF s
    <2> QED
      BY <1>2 DEF TypedLayer
  <1>4. TypedLayer(g, first, "name", TRUE, t)
    <2> HIDE DEF s
    <2> QED
      BY <1>1, <1>3, TypedTagFacts
  <1>5. m = Forced(l, first)
    BY DEF Forced
  <1> HIDE DEF s, t
  <1>6. IsLayer(m) /\ Grown(g, m)
    BY <1>4 DEF TypedLayer
  <1>7. Grown(l, m)
    BY <1>3, <1>6, GrownTwice
  <1>8. "guid" \in DOMAIN g.colCache /\ AllLocated(g)
    BY <1>2, <1>3 DEF TypedLayer, Grown, AllLocated
  <1>9. "guid" \in DOMAIN m.colCache /\ AllLocated(m)
    BY <1>4, <1>6, <1>8 DEF TypedLayer, Grown, AllLocated
  <1>10. ASSUME l.rows = <<>>, \A u \in DOMAIN l.types : l.types[u] = "New"
         PROVE  \A u \in DOMAIN m.types : m.types[u] = "New"
    <2>1. g.rows = <<>> /\ \A u \in DOMAIN g.types : g.types[u] = "New"
      BY <1>2, <1>3, <1>10 DEF TypedLayer, Grown
    <2> QED
      BY <1>4, <2>1 DEF TypedLayer
  <1> HIDE DEF m
  <1> QED
    BY <1>5, <1>6, <1>7, <1>9, <1>10

\* An assignment changes one value of one row.
LEMMA SetCellFacts ==
  ASSUME NEW l, IsLayer(l), NEW r \in DOMAIN l.rows, NEW tag \in DOMAIN l.colCache,
         NEW val \in Values
  PROVE  LET m == SetCell(l, r, tag, val) c == l.colCache[tag] IN
         /\ IsLayer(m) /\ m.cols = l.cols /\ m.colCache = l.colCache
         /\ m.types = l.types /\ m.src = l.src
         /\ DOMAIN m.rows = DOMAIN l.rows /\ Len(m.rows) = Len(l.rows)
         /\ Len(m.rows[r]) = Len(l.rows[r])
         /\ \A q \in DOMAIN l.rows : q # r => m.rows[q] = l.rows[q]
         /\ c \in DOMAIN l.rows[r] => m.rows[r][c] = val
         /\ \A d \in DOMAIN l.rows[r] : d # c => m.rows[r][d] = l.rows[r][d]
  <1> DEFINE c == l.colCache[tag]
             s == [l.rows[r] EXCEPT ![c] = val]
             x == [l.rows EXCEPT ![r] = s]
             m == [l EXCEPT !.rows = x]
  <1>l. /\ IsRecord(l) /\ l.rows \in Seq(Seq(Values)) /\ DOMAIN l.rows = 1..Len(l.rows)
        /\ Len(l.rows) \in Nat /\ l.rows[r] \in Seq(Values) /\ Len(l.rows[r]) \in Nat
        /\ DOMAIN l.rows[r] = 1..Len(l.rows[r])
    BY LayerParts
  <1>1. m = SetCell(l, r, tag, val)
    BY DEF SetCell
  <1>2. /\ s \in Seq(Values) /\ Len(s) = Len(l.rows[r])
        /\ c \in DOMAIN l.rows[r] => s[c] = val
        /\ \A d \in DOMAIN l.rows[r] : d # c => s[d] = l.rows[r][d]
    <2> DEFINE o == l.rows[r]
               n == Len(o)
    <2>1. o \in Seq(Values) /\ n \in Nat /\ DOMAIN o = 1..n
      BY <1>l
    <2>2. o \in [1..n -> Values]
      BY <2>1
    <2> HIDE DEF o, n, c
    <2>3. [o EXCEPT ![c] = val] \in [1..n -> Values]
      BY <2>2
    <2>4. /\ c \in DOMAIN o => [o EXCEPT ![c] = val][c] = val
          /\ \A d \in DOMAIN o : d # c => [o EXCEPT ![c] = val][d] = o[d]
      BY <2>2
    <2>5. [o EXCEPT ![c] = val] \in Seq(Values) /\ Len([o EXCEPT ![c] = val]) = n
      BY <2>1, <2>3
    <2> QED
      BY <2>1, <2>4, <2>5 DEF o, n
  <1> HIDE DEF s
  <1>3. /\ x \in Seq(Seq(Values)) /\ Len(x) = Len(l.rows) /\ DOMAIN x = DOMAIN l.rows
        /\ x[r] = s /\ \A q \in DOMAIN l.rows : q # r => x[q] = l.rows[q]
    <2> DEFINE o == l.rows
               n == Len(o)
    <2>1. o \in [1..n -> Seq(Values)] /\ n \in Nat /\ DOMAIN o = 1..n
      BY <1>l
    <2> HIDE DEF o, n
    <2>2. [o EXCEPT ![r] = s] \in [1..n -> Seq(Values)]
      BY <1>2, <2>1
    <2>3. /\ [o EXCEPT ![r] = s] \in Seq(Seq(Values))
          /\ Len([o EXCEPT ![r] = s]) = n
      BY <2>1, <2>2
    <2>4. r \in DOMAIN o
      BY <1>l DEF o
    <2>5. /\ [o EXCEPT ![r] = s][r] = s
          /\ \A q \in DOMAIN o : q # r => [o EXCEPT ![r] = s][q] = o[q]
      BY <2>1, <2>4
    <2> QED
      BY <2>1, <2>2, <2>3, <2>5 DEF o, n
  <1> HIDE DEF x
  <1>4. /\ IsRecord(m) /\ m.cols = l.cols /\ m.colCache = l.colCache
        /\ m.types = l.types /\ m.rows = x /\ m.src = l.src
    BY <1>l, SetRows
  <1> HIDE DEF m
  <1>5. IsLayer(m)
    BY <1>3, <1>4 DEF IsLayer, Located
  <1> QED
    BY <1>1, <1>2, <1>3, <1>4, <1>5

\* What the row shows is what it showed with the value assigned.
LEMMA SetCellShows ==
  ASSUME NEW l, IsLayer(l), NEW r \in DOMAIN l.rows, NEW tag \in DOMAIN l.colCache,
         NEW val \in Values, Len(l.rows[r]) = Len(l.cols),
         NEW v, tag \in DOMAIN v, Shows(l, l.rows[r], v),
         NEW m, m = SetCell(l, r, tag, val)
  PROVE  Shows(m, m.rows[r], [v EXCEPT ![tag] = val])
  <1> DEFINE c == l.colCache[tag]
             w == [v EXCEPT ![tag] = val]
  <1>1. /\ m.cols = l.cols
        /\ c \in DOMAIN l.rows[r] => m.rows[r][c] = val
        /\ \A d \in DOMAIN l.rows[r] : d # c => m.rows[r][d] = l.rows[r][d]
    BY SetCellFacts
  <1>2. DOMAIN l.rows[r] = 1..Len(l.cols)
    BY LayerParts
  <1>3. c \in 1..Len(l.cols) /\ l.cols[c] = tag
    BY DEF IsLayer, Located
  <1>4. DOMAIN w = DOMAIN v /\ w[tag] = val /\ \A t \in DOMAIN v : t # tag => w[t] = v[t]
    OBVIOUS
  <1> HIDE DEF w, c
  <1>5. ASSUME NEW d \in 1..Len(m.cols), m.cols[d] \in DOMAIN w
        PROVE  m.rows[r][d] = w[m.cols[d]]
    <2>1. CASE d = c
      BY <1>1, <1>2, <1>3, <1>4, <2>1
    <2>2. CASE d # c
      <3>1. l.cols[d] # tag
        BY <1>1, <1>3, <2>2, LayerParts DEF Distinct
      <3>2. m.rows[r][d] = l.rows[r][d]
        BY <1>1, <1>2, <2>2
      <3>3. l.rows[r][d] = v[l.cols[d]]
        BY <1>1, <1>4, <1>5 DEF Shows
      <3> QED
        BY <1>1, <1>4, <1>5, <3>1, <3>2, <3>3
    <2> QED
      BY <2>1, <2>2
  <1>6. ASSUME NEW t \in DOMAIN w, \A d \in 1..Len(m.cols) : m.cols[d] # t
        PROVE  w[t] = Empty
    <2>1. t # tag
      BY <1>1, <1>3, <1>6
    <2> QED
      BY <1>1, <1>4, <1>6, <2>1 DEF Shows
  <1>7. Shows(m, m.rows[r], w)
    BY <1>5, <1>6 DEF Shows
  <1> QED
    BY <1>7 DEF w

\* A new row is a copy of the row of the input, and shows the same.
WithRow(l, r) ==
  [l EXCEPT !.rows = Append(@, [c \in 1..Len(l.cols) |->
                                  IF c <= Len(r) THEN r[c] ELSE Empty])]
NextRow(l) == Len(l.rows) + 1
ShowsToo(l, r, m, s) == \A v : Shows(l, r, v) => Shows(m, s, v)
LEMMA AddedRowFacts ==
  ASSUME NEW l, IsLayer(l), NEW input, IsLayer(input),
         NEW i \in DOMAIN input.rows, Len(input.rows[i]) = Len(input.cols),
         IsOutput(l, input), NEW m, m = WithRow(l, input.rows[i])
  PROVE  LET j == NextRow(l) IN
         /\ IsLayer(m) /\ m.cols = l.cols /\ m.colCache = l.colCache
         /\ m.types = l.types /\ m.src = l.src
         /\ Len(m.rows) = j
         /\ \A q \in DOMAIN l.rows : q \in DOMAIN m.rows /\ m.rows[q] = l.rows[q]
         /\ Len(m.rows[j]) = Len(l.cols)
         /\ ShowsToo(input, input.rows[i], m, m.rows[j])
  <1> DEFINE s == input.rows[i]
             n == Len(l.cols)
             new == [c \in 1..n |-> IF c <= Len(s) THEN s[c] ELSE Empty]
             x == Append(l.rows, new)
             k == Len(l.rows)
             a == [l EXCEPT !.rows = x]
             j == NextRow(l)
  <1>o. /\ Len(input.cols) <= Len(l.cols)
        /\ \A c \in 1..Len(input.cols) : l.cols[c] = input.cols[c]
    BY DEF IsOutput
  <1>1. m = a
    BY DEF WithRow
  <1>l. /\ IsRecord(l) /\ l.rows \in Seq(Seq(Values)) /\ n \in Nat /\ k \in Nat
        /\ DOMAIN l.rows = 1..k
        /\ s \in Seq(Values) /\ Len(s) \in Nat /\ Len(s) = Len(input.cols)
        /\ Len(s) <= n
    BY <1>o, LayerParts
  <1>2. new \in Seq(Values) /\ Len(new) = n
    <2>1. Empty \in Values
      BY DEF Empty, NaN, Values
    <2>2. ASSUME NEW c \in 1..n PROVE new[c] \in Values
      <3>1. CASE c <= Len(s)
        <4>1. s[c] \in Values
          BY <1>l, <3>1, ElementOfSeq
        <4> QED
          BY <3>1, <4>1
      <3>2. CASE ~(c <= Len(s))
        BY <2>1, <3>2
      <3> QED
        BY <3>1, <3>2
    <2>3. new = [c \in 1..n |-> new[c]]
      OBVIOUS
    <2>n. n \in Nat
      BY <1>l
    <2> HIDE DEF new, n
    <2>4. new \in [1..n -> Values]
      BY <2>2, <2>3
    <2> QED
      BY <2>n, <2>4
  <1>3. \A c \in 1..n : new[c] = IF c <= Len(s) THEN s[c] ELSE Empty
    OBVIOUS
  <1> HIDE DEF new
  <1>4. /\ x \in Seq(Seq(Values)) /\ Len(x) = k + 1 /\ x[k + 1] = new
        /\ \A q \in 1..k : x[q] = l.rows[q]
    BY <1>l, <1>2, AppendProperties
  <1> HIDE DEF x
  <1>5. /\ IsRecord(a) /\ a.cols = l.cols /\ a.colCache = l.colCache
        /\ a.types = l.types /\ a.rows = x /\ a.src = l.src
    BY <1>l, SetRows
  <1> HIDE DEF a
  <1>6. IsLayer(a)
    BY <1>4, <1>5 DEF IsLayer, Located
  <1>7. ASSUME NEW v, Shows(input, s, v) PROVE Shows(l, new, v)
    <2>1. ASSUME NEW c \in 1..n, l.cols[c] \in DOMAIN v PROVE new[c] = v[l.cols[c]]
      <3>1. CASE c <= Len(s)
        <4>1. c \in 1..Len(input.cols) /\ input.cols[c] = l.cols[c]
          BY <1>l, <1>o, <3>1
        <4>2. s[c] = v[l.cols[c]]
          BY <1>7, <2>1, <4>1 DEF Shows
        <4> QED
          BY <1>3, <3>1, <4>2
      <3>2. CASE ~(c <= Len(s))
        <4>1. new[c] = Empty
          BY <1>3, <3>2
        <4>2. ASSUME NEW d \in 1..Len(input.cols) PROVE input.cols[d] # l.cols[c]
          <5>1. d \in 1..Len(l.cols) /\ d # c
            BY <1>l, <3>2
          <5>2. l.cols[d] # l.cols[c]
            BY <5>1, LayerParts DEF Distinct
          <5> QED
            BY <1>o, <5>2
        <4> QED
          BY <1>7, <2>1, <4>1, <4>2 DEF Shows
      <3> QED
        BY <3>1, <3>2
    <2>2. ASSUME NEW t \in DOMAIN v, \A c \in 1..n : l.cols[c] # t
          PROVE  v[t] = Empty
      <3>1. ASSUME NEW d \in 1..Len(input.cols) PROVE input.cols[d] # t
        <4>1. d \in 1..n
          BY <1>l
        <4> QED
          BY <1>o, <2>2, <4>1
      <3> QED
        BY <1>7, <3>1 DEF Shows
    <2> QED
      BY <2>1, <2>2 DEF Shows
  <1> SUFFICES
         /\ IsLayer(a) /\ a.cols = l.cols /\ a.colCache = l.colCache
         /\ a.types = l.types /\ a.src = l.src
         /\ Len(a.rows) = j
         /\ \A q \in DOMAIN l.rows : q \in DOMAIN a.rows /\ a.rows[q] = l.rows[q]
         /\ Len(a.rows[j]) = Len(l.cols)
         /\ ShowsToo(input, input.rows[i], a, a.rows[j])
    BY <1>1
  <1>8. ShowsToo(input, s, a, new)
    <2>1. ASSUME NEW v, Shows(input, s, v) PROVE Shows(a, new, v)
      <3>1. Shows(l, new, v)
        BY <1>7, <2>1
      <3> HIDE DEF s, n
      <3> QED
        BY <1>5, <3>1 DEF Shows
    <2> QED
      BY <2>1 DEF ShowsToo
  <1>j. j = k + 1
    BY DEF NextRow
  <1> HIDE DEF j
  <1>9. a.rows = x /\ DOMAIN a.rows = 1..k + 1 /\ a.rows[k + 1] = new
    BY <1>4, <1>5, <1>l
  <1>10. ASSUME NEW q \in DOMAIN l.rows
         PROVE  q \in DOMAIN a.rows /\ a.rows[q] = l.rows[q]
    <2>1. q \in 1..k /\ q \in 1..k + 1
      BY <1>l
    <2>2. x[q] = l.rows[q]
      BY <1>4, <2>1
    <2> HIDE DEF k
    <2> QED
      BY <1>9, <2>1, <2>2
  <1> QED
    BY <1>j, <1>2, <1>4, <1>5, <1>6, <1>8, <1>9, <1>10

-----------------------------------------------------------------------------
(* The files, the rows and the first layers.                                *)

\* Which layers a file reads and writes.
LEMMA ModeFacts ==
  ASSUME mode \in Modes, NEW f \in Files
  PROVE  /\ mode \in {"own", "shared", "serial", "serialNew"}
         /\ mode = "own" => Source(f) = f /\ Target(f) = f /\ ~IsNew(f) /\ Parallel
         /\ mode = "shared" => Source(f) = 0 /\ Target(f) = f /\ IsNew(f) /\ Parallel
         /\ mode = "serial" =>
              Source(f) = 0 /\ Target(f) = 0 /\ ~IsNew(f) /\ ~Parallel
         /\ mode = "serialNew" =>
              Source(f) = 0 /\ Target(f) = 1 /\ IsNew(f) /\ ~Parallel
         /\ Source(f) \in Layers /\ Target(f) \in Layers /\ f \in Nat \ {0} /\ 1 \in Files
         /\ Source(f) = 0 \/ mode = "own"
         /\ IsNew(f) => Target(f) # 0 /\ mode \in {"shared", "serialNew"}
         /\ ~IsNew(f) => Target(f) = Source(f)
  <1>1. mode \in {"own", "shared", "serial", "serialNew"}
    BY ModesAssumption
  <1>2. f \in Nat \ {0} /\ 1 \in Files
    <2>1. Cardinality(Files) \in Nat
      BY FilesAssumption, FS_CardinalityType
    <2> QED
      BY <2>1, FilesAssumption
  <1>3. CASE mode = "own"
    BY <1>2, <1>3 DEF Source, Target, IsNew, Parallel, Layers
  <1>4. CASE mode = "shared"
    BY <1>2, <1>4 DEF Source, Target, IsNew, Parallel, Layers
  <1>5. CASE mode = "serial"
    BY <1>2, <1>5 DEF Source, Target, IsNew, Parallel, Layers
  <1>6. CASE mode = "serialNew"
    BY <1>2, <1>6 DEF Source, Target, IsNew, Parallel, Layers
  <1> QED
    BY <1>1, <1>3, <1>4, <1>5, <1>6

\* The rows have values for the same columns.
LEMMA RowsFacts ==
  /\ Len(Rows) \in Nat /\ 1 \in Items /\ Items = 1..Len(Rows)
  /\ \A i \in Items : Rows[i] \in [DOMAIN Rows[1] -> Values]
  /\ IsFiniteSet(DOMAIN Rows[1])
  /\ Empty \in Values /\ Guid \in Values
  <1> DEFINE S == [DOMAIN Rows[1] -> Values]
  <1>1. Rows \in Seq(S) /\ Rows # <<>>
    BY RowsAssumption
  <1>2. Len(Rows) \in Nat /\ Len(Rows) # 0
    <2> HIDE DEF S
    <2> QED
      BY <1>1, EmptySeq
  <1>3. \A i \in Items : Rows[i] \in S
    <2> HIDE DEF S
    <2> QED
      BY <1>1, ElementOfSeq DEF Items
  <1>4. Empty \in Values /\ Guid \in Values
    BY DEF Empty, Guid, NaN, Values
  <1> QED
    BY <1>2, <1>3, <1>4, RowsAssumption DEF Items

\* SetToSeq lists a finite set, each element once.
LEMMA SetToSeqFacts ==
  ASSUME NEW S, IsFiniteSet(S)
  PROVE  /\ SetToSeq(S) \in Seq(S) /\ Len(SetToSeq(S)) \in Nat
         /\ \A a, b \in 1..Len(SetToSeq(S)) : SetToSeq(S)[a] = SetToSeq(S)[b] => a = b
         /\ \A x \in S : \E c \in 1..Len(SetToSeq(S)) : SetToSeq(S)[c] = x
  <1> DEFINE n == Cardinality(S)
             q == SetToSeq(S)
  <1>1. n \in Nat /\ Bijection(1..n, S) # {}
    BY FS_CardinalityType DEF ExistsBijection
  <1>2. \E g \in [1..n -> S] : IsInjective(g)
    BY <1>1 DEF Bijection, Injection
  <1>3. q \in [1..n -> S] /\ IsInjective(q)
    BY <1>2 DEF SetToSeq
  <1> HIDE DEF q
  <1>4. q \in Injection(1..n, S)
    BY <1>3 DEF Injection
  <1>5. Cardinality(1..n) = n
    BY <1>1, FS_Interval
  <1>6. q \in Surjection(1..n, S)
    BY <1>4, <1>5, FS_Injection
  <1>7. \A x \in S : \E c \in 1..n : q[c] = x
    BY <1>6 DEF Surjection
  <1>8. q \in Seq(S) /\ Len(q) = n
    <2> HIDE DEF n
    <2> QED
      BY <1>1, <1>3
  <1>9. \A a, b \in 1..n : q[a] = q[b] => a = b
    BY <1>3 DEF IsInjective
  <1> QED
    BY <1>1, <1>7, <1>8, <1>9 DEF q

\* The input as it is read shows its rows.
FirstView(i) ==
  [tag \in Tags \cup {"guid"} \cup DOMAIN Rows[1] |->
     IF tag \in DOMAIN Rows[1] THEN Rows[i][tag] ELSE Empty]
LEMMA InputFacts ==
  /\ IsLayer(Input) /\ AllLocated(Input) /\ Input.src = -1
  /\ DOMAIN Input.rows = Items /\ Full(Input)
  /\ \A i \in Items : Shows(Input, Input.rows[i], FirstView(i))
  <1> DEFINE D == DOMAIN Rows[1]
             cols == SetToSeq(D)
             rows == [i \in Items |-> [c \in 1..Len(cols) |-> Rows[i][cols[c]]]]
             l == [cols |-> cols, colCache |-> <<>>, types |-> <<>>, rows |-> rows,
                   src |-> -1]
  <1>1. Input = l
    BY DEF Input
  <1> SUFFICES /\ IsLayer(l) /\ AllLocated(l) /\ l.src = -1
               /\ DOMAIN l.rows = Items /\ Full(l)
               /\ \A i \in Items : Shows(l, l.rows[i], FirstView(i))
    BY <1>1
  <1>2. /\ cols \in Seq(D) /\ Len(cols) \in Nat
        /\ \A a, b \in 1..Len(cols) : cols[a] = cols[b] => a = b
        /\ \A x \in D : \E c \in 1..Len(cols) : cols[c] = x
    BY RowsFacts, SetToSeqFacts
  <1> HIDE DEF cols
  <1>3. cols \in Seq(Names) /\ \A c \in 1..Len(cols) : cols[c] \in D
    <2>1. D \subseteq Names
      BY DEF Names
    <2>2. \A c \in 1..Len(cols) : cols[c] \in D
      BY <1>2, ElementOfSeq
    <2>3. cols = [c \in 1..Len(cols) |-> cols[c]]
      BY <1>2
    <2> QED
      BY <1>2, <2>1, <2>2, <2>3
  <1>4. ASSUME NEW i \in Items
        PROVE  rows[i] \in Seq(Values) /\ Len(rows[i]) = Len(cols)
    <2>1. \A c \in 1..Len(cols) : Rows[i][cols[c]] \in Values
      BY <1>3, RowsFacts
    <2>2. rows[i] \in [1..Len(cols) -> Values]
      BY <2>1
    <2> DEFINE g == rows[i]
               n == Len(cols)
    <2>3. g \in [1..n -> Values] /\ n \in Nat
      BY <1>2, <2>2
    <2> HIDE DEF rows, g, n
    <2>4. g \in Seq(Values) /\ Len(g) = n
      BY <2>3
    <2> QED
      BY <2>4 DEF g, n
  <1>5. \A i \in Items : \A c \in 1..Len(cols) : rows[i][c] = Rows[i][cols[c]]
    OBVIOUS
  <1>6. rows = [i \in 1..Len(Rows) |-> rows[i]]
    BY RowsFacts
  <1> HIDE DEF rows
  <1>7. rows \in Seq(Seq(Values)) /\ DOMAIN rows = Items
    BY <1>4, <1>6, RowsFacts
  <1>8. /\ l.cols = cols /\ l.colCache = <<>> /\ l.types = <<>> /\ l.rows = rows
        /\ l.src = -1
    OBVIOUS
  <1>9. IsRecord(l)
    BY DEF IsRecord
  <1> HIDE DEF l
  <1>10. DOMAIN l.colCache = {} /\ DOMAIN l.types = {}
    BY <1>8
  <1>11. IsMap(l.colCache, Nat) /\ IsMap(l.types, Kinds)
    <2>1. <<>> = [t \in DOMAIN <<>> |-> <<>>[t]] /\ DOMAIN <<>> = {}
      OBVIOUS
    <2> QED
      BY <1>8, <2>1 DEF IsMap
  <1>12. IsLayer(l)
    BY <1>2, <1>3, <1>7, <1>8, <1>9, <1>10, <1>11 DEF IsLayer, Located, Distinct
  <1>13. AllLocated(l) /\ Full(l)
    BY <1>4, <1>7, <1>8, <1>10 DEF AllLocated, Full
  <1>14. ASSUME NEW i \in Items PROVE Shows(l, l.rows[i], FirstView(i))
    <2> DEFINE v == FirstView(i)
    <2>1. \A t \in DOMAIN v : v[t] = IF t \in D THEN Rows[i][t] ELSE Empty
      BY DEF FirstView
    <2> HIDE DEF v
    <2>2. \A c \in 1..Len(l.cols) : l.cols[c] \in DOMAIN v => l.rows[i][c] = v[l.cols[c]]
      BY <2>1, <1>3, <1>5, <1>8
    <2>3. ASSUME NEW t \in DOMAIN v, \A c \in 1..Len(l.cols) : l.cols[c] # t
          PROVE  v[t] = Empty
      BY <2>1, <2>3, <1>2, <1>8
    <2> QED
      BY <2>2, <2>3 DEF Shows, v
  <1> QED
    BY <1>7, <1>8, <1>12, <1>13, <1>14

\* A new output begins with the columns of its input and no rows.
LEMMA NewLayerFacts ==
  ASSUME NEW l, IsLayer(l), NEW m, m = NewLayer(l, 0)
  PROVE  /\ IsLayer(m) /\ AllLocated(m) /\ m.src = 0 /\ m.cols = l.cols
         /\ m.rows = <<>> /\ DOMAIN m.types = {}
  <1>1. /\ m.cols = l.cols /\ m.colCache = <<>> /\ m.types = <<>> /\ m.rows = <<>>
        /\ m.src = 0
    BY DEF NewLayer
  <1>2. IsRecord(m)
    BY <1>1 DEF NewLayer, IsRecord
  <1>3. DOMAIN m.colCache = {} /\ DOMAIN m.types = {}
    BY <1>1
  <1>4. IsMap(m.colCache, Nat) /\ IsMap(m.types, Kinds)
    <2>1. <<>> = [t \in DOMAIN <<>> |-> <<>>[t]] /\ DOMAIN <<>> = {}
      OBVIOUS
    <2> QED
      BY <1>1, <2>1 DEF IsMap
  <1>5. <<>> \in Seq(Seq(Values))
    OBVIOUS
  <1>6. IsLayer(m)
    BY <1>1, <1>2, <1>3, <1>4, <1>5 DEF IsLayer, Located, Distinct
  <1> QED
    BY <1>1, <1>3, <1>6 DEF AllLocated

\* A full layer stays full.
LEMMA GrownFull ==
  ASSUME NEW l, NEW m, IsLayer(l), IsLayer(m), Grown(l, m), Full(l)
  PROVE  Full(m) /\ DOMAIN m.rows = DOMAIN l.rows /\ m.src = l.src
  <1>1. DOMAIN m.rows = DOMAIN l.rows /\ m.src = l.src
    BY DEF Grown
  <1>2. ASSUME NEW r \in DOMAIN l.rows PROVE Len(m.rows[r]) = Len(m.cols)
    BY GrownShows DEF Full
  <1> QED
    BY <1>1, <1>2 DEF Full

\* The empty map.
LEMMA EmptyMap ==
  ASSUME NEW S
  PROVE  IsMap(<<>>, S) /\ DOMAIN <<>> = {}
  <1>1. <<>> = [t \in DOMAIN <<>> |-> <<>>[t]] /\ DOMAIN <<>> = {}
    OBVIOUS
  <1> QED
    BY <1>1 DEF IsMap

\* The layers as Init opens them.
LEMMA OpenedLayers ==
  ASSUME NEW input, input = Forced(Input, Input.rows[1]),
         NEW fresh, fresh = NewLayer(input, 0),
         NEW opened, opened = Forced(fresh, input.rows[1])
  PROVE  /\ IsLayer(input) /\ IsInput(input) /\ AllLocated(input)
         /\ \A i \in Items : Shows(input, input.rows[i], FirstView(i))
         /\ IsLayer(fresh) /\ fresh.src = 0 /\ AllLocated(fresh) /\ fresh.rows = <<>>
         /\ IsLayer(opened) /\ IsOutput(opened, input) /\ AllLocated(opened)
         /\ opened.rows = <<>> /\ \A t \in DOMAIN opened.types : opened.types[t] = "New"
  <1>1. /\ IsLayer(input) /\ Grown(Input, input) /\ AllLocated(input)
        /\ "guid" \in DOMAIN input.colCache
    BY InputFacts, ForcedFacts
  <1>2. IsInput(input)
    BY <1>1, GrownFull, InputFacts DEF IsInput
  <1>3. ASSUME NEW i \in Items PROVE Shows(input, input.rows[i], FirstView(i))
    <2>1. i \in DOMAIN Input.rows /\ Len(Input.rows[i]) = Len(Input.cols)
      BY InputFacts DEF Full
    <2> QED
      BY <2>1, <1>1, InputFacts, GrownShows
  <1>4. /\ IsLayer(fresh) /\ AllLocated(fresh) /\ fresh.src = 0 /\ fresh.cols = input.cols
        /\ fresh.rows = <<>> /\ DOMAIN fresh.types = {}
    BY <1>1, NewLayerFacts
  <1>5. /\ IsLayer(opened) /\ Grown(fresh, opened) /\ AllLocated(opened)
        /\ "guid" \in DOMAIN opened.colCache
        /\ \A u \in DOMAIN opened.types : opened.types[u] = "New"
    BY <1>4, ForcedFacts
  <1>6. IsOutput(opened, input) /\ opened.rows = <<>>
    <2>1. /\ Len(fresh.cols) <= Len(opened.cols) /\ DOMAIN opened.rows = DOMAIN fresh.rows
          /\ \A c \in 1..Len(fresh.cols) : opened.cols[c] = fresh.cols[c]
          /\ opened.src = fresh.src
      BY <1>5 DEF Grown
    <2>2. opened.rows = <<>>
      <3> DEFINE x == opened.rows
      <3>1. DOMAIN x = 1..Len(x) /\ Len(x) \in Nat /\ x \in Seq(Seq(Values))
        BY <1>5, LayerParts
      <3>2. DOMAIN x = {}
        BY <1>4, <2>1, EmptyMap
      <3> HIDE DEF x
      <3>3. Len(x) = 0
        BY <3>1, <3>2
      <3>4. x = <<>>
        BY <3>1, <3>3
      <3> QED
        BY <3>4 DEF x
    <2>3. Len(input.cols) <= Len(opened.cols)
          /\ \A c \in 1..Len(input.cols) : opened.cols[c] = input.cols[c]
      BY <1>4, <2>1
    <2>4. opened.src = 0 /\ "guid" \in DOMAIN opened.colCache
      BY <1>4, <1>5, <2>1
    <2>5. IsOutput(opened, input)
      BY <2>3, <2>4 DEF IsOutput
    <2> QED
      BY <2>2, <2>5
  <1> QED
    BY <1>1, <1>2, <1>3, <1>4, <1>5, <1>6

\* The invariant holds at the beginning.
LEMMA InitInv ==
  ASSUME Init
  PROVE  ItemsInv
  <1> DEFINE input == Forced(Input, Input.rows[1])
             fresh == NewLayer(input, 0)
             opened == Forced(fresh, input.rows[1])
  <1>1. /\ mode \in Modes /\ prog \in [Files -> Programs]
        /\ layer = [k \in Layers |->
                      CASE k = 0 \/ mode = "own" -> input
                        [] k # 0 /\ mode = "shared" ->
                             Forced(NewLayer(input, 0), input.rows[1])
                        [] OTHER -> NewLayer(input, 0)]
        /\ begun = IF Parallel THEN Files ELSE {}
        /\ parsed = [f \in Files |-> {}]
        /\ types = [f \in Files |-> [k \in DOMAIN prog[f] |-> "Empty"]]
        /\ status = "running"
        /\ strings = [k \in Layers |-> [i \in Items |-> <<>>]]
        /\ numbers = [k \in Layers |-> [i \in Items |-> <<>>]]
        /\ pc = [p \in Procs |-> "condition"]
        /\ at = [p \in Procs |-> 1] /\ row = [p \in Procs |-> 0]
        /\ old = [p \in Procs |-> Empty]
        /\ view = [p \in Procs |-> FirstView(p[2])]
        /\ misread = {}
    <2> HIDE DEF input
    <2> QED
      BY DEF Init, Layers, FirstView, input
  <1>2. /\ IsLayer(input) /\ IsInput(input) /\ AllLocated(input)
        /\ \A i \in Items : Shows(input, input.rows[i], FirstView(i))
        /\ IsLayer(fresh) /\ fresh.src = 0 /\ AllLocated(fresh) /\ fresh.rows = <<>>
        /\ IsLayer(opened) /\ IsOutput(opened, input) /\ AllLocated(opened)
        /\ opened.rows = <<>> /\ \A t \in DOMAIN opened.types : opened.types[t] = "New"
    BY OpenedLayers
  <1>3. /\ \A k \in Layers : /\ k = 0 \/ mode = "own" => layer[k] = input
                             /\ k # 0 /\ mode = "shared" => layer[k] = opened
                             /\ k # 0 /\ mode \in {"serial", "serialNew"} => layer[k] = fresh
        /\ layer = [k \in Layers |-> layer[k]]
    <2>1. layer = [k \in Layers |->
                     CASE k = 0 \/ mode = "own" -> input
                       [] k # 0 /\ mode = "shared" -> opened
                       [] OTHER -> fresh]
      BY <1>1
    <2> HIDE DEF input, fresh, opened
    <2>2. layer = [k \in Layers |-> layer[k]]
      BY <2>1
    <2>3. ASSUME NEW k \in Layers, k = 0 \/ mode = "own" PROVE layer[k] = input
      <3>1. CASE k = 0
        BY <2>1, <3>1
      <3>2. CASE k # 0 /\ mode = "own"
        BY <2>1, <3>2
      <3> QED
        BY <2>3, <3>1, <3>2
    <2>4. ASSUME NEW k \in Layers, k # 0, mode = "shared" PROVE layer[k] = opened
      BY <2>1, <2>4
    <2>5. ASSUME NEW k \in Layers, k # 0, mode \in {"serial", "serialNew"}
          PROVE  layer[k] = fresh
      BY <2>1, <2>5
    <2> QED
      BY <2>2, <2>3, <2>4, <2>5
  <1>m. mode \in {"own", "shared", "serial", "serialNew"}
    BY <1>1, ModesAssumption
  <1> HIDE DEF input, fresh, opened
  <1>4. TypeInv
    <2>1. ASSUME NEW f \in Files PROVE ParsedParts(f) /\ types[f] \in Seq(Kinds)
      <3>1. Len(prog[f]) \in Nat /\ DOMAIN prog[f] = 1..Len(prog[f])
        <4>1. prog[f] \in Seq(Expressions)
          BY <1>1, ProgramsAssumption
        <4> QED
          BY <4>1
      <3>2. parsed[f] = {} /\ types[f] = [k \in 1..Len(prog[f]) |-> "Empty"]
        BY <1>1, <3>1
      <3>3. types[f] \in Seq(Kinds) /\ Len(types[f]) = Len(prog[f])
        BY <3>1, <3>2 DEF Kinds
      <3>4. Parallel => Begun(f)
        BY <1>1 DEF Begun
      <3> QED
        BY <3>2, <3>3, <3>4 DEF ParsedParts, InOrder
    <2>2. /\ begun \subseteq Files
          /\ parsed \in [Files -> SUBSET Nat] /\ types \in [Files -> Seq(Kinds)]
      BY <1>1, <2>1
    <2>3. /\ strings = [k \in Layers |-> [i \in Items |-> strings[k][i]]]
          /\ numbers = [k \in Layers |-> [i \in Items |-> numbers[k][i]]]
      BY <1>1
    <2>4. \A k \in Layers, i \in Items :
             IsMap(strings[k][i], Values) /\ IsMap(numbers[k][i], Numbers)
      BY <1>1, EmptyMap
    <2>7. IsCache(strings, Values) /\ IsCache(numbers, Numbers)
      BY <2>3, <2>4 DEF IsCache
    <2>5. /\ pc \in [Procs -> Steps] /\ at \in [Procs -> Nat \ {0}]
          /\ row \in [Procs -> Nat] /\ old \in [Procs -> Values]
          /\ view = [p \in Procs |-> view[p]]
      BY <1>1, RowsFacts DEF Steps
    <2>6. ASSUME NEW p \in Procs
          PROVE  IsMap(view[p], Values) /\ Tags \cup {"guid"} \subseteq DOMAIN view[p]
      <3> DEFINE v == FirstView(p[2])
      <3>1. v = [t \in DOMAIN v |-> v[t]]
        BY DEF FirstView
      <3>2. DOMAIN v = Tags \cup {"guid"} \cup DOMAIN Rows[1]
        BY DEF FirstView
      <3>3. \A t \in DOMAIN v : v[t] \in Values
        <4>1. p[2] \in Items
          BY DEF Procs
        <4>2. \A t \in DOMAIN Rows[1] : Rows[p[2]][t] \in Values
          BY <4>1, RowsFacts
        <4> QED
          BY <4>2, RowsFacts DEF FirstView
      <3>4. view[p] = v
        BY <1>1
      <3> HIDE DEF v
      <3>5. IsMap(v, Values)
        BY <3>1, <3>2, <3>3 DEF IsMap, Names
      <3> QED
        BY <3>2, <3>4, <3>5
    <2> QED
      BY <1>1, <2>1, <2>2, <2>5, <2>6, <2>7 DEF TypeInv
  <1>5. LayersInv
    <2>1. ASSUME NEW k \in Layers
          PROVE  /\ IsLayer(layer[k])
                 /\ k = 0 \/ mode = "own" => IsInput(layer[k])
                 /\ k # 0 /\ mode \in {"shared", "serialNew"} => layer[k].src = 0
                 /\ AllLocated(layer[k])
      <3>1. CASE k = 0 \/ mode = "own"
        BY <1>2, <1>3, <3>1
      <3>2. CASE k # 0 /\ mode = "shared"
        BY <1>2, <1>3, <3>2 DEF IsOutput
      <3>3. CASE k # 0 /\ mode \in {"serial", "serialNew"}
        BY <1>2, <1>3, <3>3
      <3> QED
        BY <1>m, <3>1, <3>2, <3>3
    <2>2. ASSUME NEW f \in Files, IsNew(f), Begun(f)
          PROVE  IsOutput(layer[Target(f)], layer[0])
      <3>1. Parallel
        BY <1>1, <2>2 DEF Begun
      <3>2. mode = "shared" /\ Target(f) = f /\ f # 0 /\ f \in Layers
        BY <1>1, <2>2, <3>1, ModeFacts DEF Layers
      <3>3. 0 \in Layers
        BY DEF Layers
      <3> QED
        BY <1>2, <1>3, <3>2, <3>3
    <2> QED
      BY <1>3, <2>1, <2>2 DEF LayersInv, AllLocated
  <1>6. OrderInv
    <2>1. ASSUME NEW p \in Procs
          PROVE  pc[p] = "condition" /\ (mode = "shared" => layer[p[1]].rows = <<>>)
      <3>1. p[1] \in Files
        BY DEF Procs
      <3>2. p[1] # 0 /\ p[1] \in Layers
        BY <1>1, <3>1, ModeFacts DEF Layers
      <3> QED
        BY <1>1, <1>2, <1>3, <3>2
    <2>2. ~Parallel => \A f \in Files : ~Begun(f)
      BY <1>1 DEF Begun
    <2> QED
      BY <2>1, <2>2 DEF OrderInv
  <1>7. ParsedInv
    <2> SUFFICES ASSUME NEW f \in Files
                 PROVE  /\ TypesHaveColumns(f)
                        /\ mode = "shared" =>
                             \A t \in DOMAIN layer[f].types : layer[f].types[t] = "New"
                        /\ parsed[f] = {}
      BY DEF ParsedInv
    <2>1. parsed[f] = {}
      BY <1>1
    <2>2. TypesHaveColumns(f)
      <3>1. Target(f) \in Layers
        BY <1>1, ModeFacts
      <3>2. AllLocated(layer[Target(f)])
        BY <1>2, <1>3, <1>m, <3>1
      <3> QED
        BY <3>2 DEF TypesHaveColumns, AllLocated
    <2>3. mode = "shared" => layer[f] = opened
      <3>1. f # 0 /\ f \in Layers
        BY <1>1, ModeFacts DEF Layers
      <3> QED
        BY <1>3, <3>1
    <2> QED
      BY <1>2, <2>1, <2>2, <2>3
  <1>8. RowsInv
    BY <1>1 DEF RowsInv, ItemInv
  <1>9. SeesInv
    <2> SUFFICES ASSUME NEW p \in Procs, Current(p[1]) PROVE Sees(p)
      BY DEF SeesInv
    <2>1. p[1] \in Files /\ p[2] \in Items
      BY DEF Procs
    <2>2. Source(p[1]) \in Layers /\ (Source(p[1]) = 0 \/ mode = "own")
      BY <1>1, <2>1, ModeFacts
    <2>3. row[p] = 0 /\ view[p] = FirstView(p[2]) /\ layer[Source(p[1])] = input
      BY <1>1, <1>3, <2>2
    <2> QED
      BY <1>2, <2>1, <2>3 DEF Sees
  <1>10. CachesInv
    <2> SUFFICES ASSUME NEW p \in Procs PROVE Cached(p)
      BY DEF CachesInv
    <2>1. p[1] \in Files /\ p[2] \in Items
      BY DEF Procs
    <2>2. Source(p[1]) \in Layers
      BY <1>1, <2>1, ModeFacts
    <2>3. strings[Source(p[1])][p[2]] = <<>> /\ numbers[Source(p[1])][p[2]] = <<>>
      BY <1>1, <2>1, <2>2
    <2> QED
      BY <2>3, EmptyMap DEF Cached
  <1>11. MisreadInv /\ FaultsOnlyInSerialNew
    BY <1>1 DEF MisreadInv, MisreadsComeFromOthers, FaultsOnlyInSerialNew
  <1>12. ColumnsForAssignments
    <2>1. ASSUME NEW f \in Files PROVE parsed[f] = {}
      BY <1>1
    <2> QED
      BY <2>1 DEF ColumnsForAssignments
  <1> QED
    BY <1>4, <1>5, <1>6, <1>7, <1>8, <1>9, <1>10, <1>11, <1>12 DEF ItemsInv

-----------------------------------------------------------------------------
(* Items, their files and what they read.                                  *)

LEMMA ProcFacts ==
  ASSUME NEW p \in Procs
  PROVE  /\ p[1] \in Files /\ p[2] \in Items
         /\ \A q \in Procs : q[1] = p[1] /\ q[2] = p[2] => q = p
  BY DEF Procs

LEMMA ValueFacts ==
  ASSUME NEW v \in Values
  PROVE  /\ v.num \in Nat \cup {-1} /\ v.len \in Nat
         /\ v.num # NaN => v.num \in Nat /\ v.len # 0
  BY DEF Values, NaN

LEMMA MadeValue ==
  ASSUME NEW n \in Nat \cup {-1}, NEW m \in Nat, m = 0 => n = NaN
  PROVE  [num |-> n, len |-> m] \in Values
  BY DEF Values, NaN

LEMMA ExprFacts ==
  ASSUME prog \in [Files -> Programs], NEW f \in Files
  PROVE  /\ Len(prog[f]) \in Nat /\ DOMAIN prog[f] = 1..Len(prog[f])
         /\ \A k \in 1..Len(prog[f]) : LET e == prog[f][k] IN
              /\ e \in Expressions /\ e.tag \in Tags /\ e.tag \in Names
              /\ e.assign \in BOOLEAN /\ e.right \in Values
              /\ e.assign <=> e.op \in {"=", "+=", "<Empty>"}
              /\ e.op \in {"=", "+="} /\ ~e.quoted => e.right.num # NaN
  <1>1. prog[f] \in Programs /\ prog[f] \in Seq(Expressions)
    BY ProgramsAssumption
  <1>2. Len(prog[f]) \in Nat /\ DOMAIN prog[f] = 1..Len(prog[f])
    BY <1>1
  <1>3. ASSUME NEW k \in 1..Len(prog[f])
        PROVE  LET e == prog[f][k] IN
               /\ e \in Expressions /\ e.tag \in Tags /\ e.tag \in Names
               /\ e.assign \in BOOLEAN /\ e.right \in Values
               /\ e.assign <=> e.op \in {"=", "+=", "<Empty>"}
               /\ e.op \in {"=", "+="} /\ ~e.quoted => e.right.num # NaN
    <2>1. k \in DOMAIN prog[f] /\ prog[f][k] \in Expressions
      BY <1>1, <1>2
    <2>2. prog[f][k].tag \in Tags /\ prog[f][k].tag \in Names
      BY <1>1, <2>1 DEF Tags, Names
    <2>3. prog[f][k].assign \in BOOLEAN /\ prog[f][k].right \in Values
      BY <2>1 DEF Expressions
    <2>4. /\ prog[f][k].assign <=> prog[f][k].op \in {"=", "+=", "<Empty>"}
          /\ prog[f][k].op \in {"=", "+="} /\ ~prog[f][k].quoted => prog[f][k].right.num # NaN
      BY <1>1, <2>1, ProgramsAssumption DEF NaN
    <2> QED
      BY <2>1, <2>2, <2>3, <2>4
  <1> QED
    BY <1>2, <1>3

\* Every expression of a file that is parsed has been parsed.
LEMMA WholeParsed ==
  ASSUME TypeInv, NEW f \in Files, AllParsed(f)
  PROVE  parsed[f] = 1..Len(prog[f])
  BY ExprFacts DEF TypeInv, AllParsed

\* The layer a file reads has every row, with a value in every known column.
LEMMA SourceFacts ==
  ASSUME TypeInv, LayersInv, NEW f \in Files
  PROVE  LET l == layer[Source(f)] IN
         /\ IsLayer(l) /\ IsInput(l) /\ l.src = -1 /\ DOMAIN l.rows = Items
         /\ "guid" \in DOMAIN l.colCache
         /\ \A i \in Items : /\ i \in DOMAIN l.rows /\ l.rows[i] \in Seq(Values)
                             /\ Len(l.rows[i]) = Len(l.cols)
                             /\ DOMAIN l.rows[i] = 1..Len(l.cols)
         /\ \A tag \in DOMAIN l.colCache :
              /\ l.colCache[tag] \in 1..Len(l.cols) /\ l.cols[l.colCache[tag]] = tag
              /\ \A i \in Items : Cell(Source(f), i, tag) \in Values
  <1> DEFINE l == layer[Source(f)]
  <1>1. Source(f) \in Layers /\ (Source(f) = 0 \/ mode = "own")
    BY ModeFacts DEF TypeInv
  <1>2. IsLayer(l) /\ IsInput(l)
    BY <1>1 DEF LayersInv
  <1>3. l.src = -1 /\ DOMAIN l.rows = Items /\ Full(l) /\ "guid" \in DOMAIN l.colCache
    BY <1>2 DEF IsInput
  <1>4. Located(l)
    BY <1>2 DEF IsLayer
  <1>5. /\ Len(l.cols) \in Nat
        /\ \A i \in Items : /\ l.rows[i] \in Seq(Values) /\ Len(l.rows[i]) = Len(l.cols)
                            /\ DOMAIN l.rows[i] = 1..Len(l.cols)
    BY <1>2, <1>3, LayerParts DEF Full
  <1>6. ASSUME NEW tag \in DOMAIN l.colCache
        PROVE  /\ l.colCache[tag] \in 1..Len(l.cols) /\ l.cols[l.colCache[tag]] = tag
               /\ \A i \in Items : Cell(Source(f), i, tag) \in Values
    <2>1. l.colCache[tag] \in 1..Len(l.cols) /\ l.cols[l.colCache[tag]] = tag
      BY <1>4 DEF Located
    <2>2. ASSUME NEW i \in Items PROVE l.rows[i][l.colCache[tag]] \in Values
      <3> DEFINE c == l.colCache[tag]
                 r == l.rows[i]
      <3>1. c \in DOMAIN r /\ r \in Seq(Values)
        BY <1>5, <2>1
      <3> HIDE DEF c, r
      <3>2. r[c] \in Values
        BY <3>1
      <3> QED
        BY <3>2 DEF c, r
    <2> QED
      BY <2>1, <2>2 DEF Cell
  <1> HIDE DEF l
  <1>7. /\ IsLayer(l) /\ IsInput(l) /\ l.src = -1 /\ DOMAIN l.rows = Items
        /\ "guid" \in DOMAIN l.colCache
        /\ \A i \in Items : /\ i \in DOMAIN l.rows /\ l.rows[i] \in Seq(Values)
                            /\ Len(l.rows[i]) = Len(l.cols)
                            /\ DOMAIN l.rows[i] = 1..Len(l.cols)
        /\ \A tag \in DOMAIN l.colCache :
              /\ l.colCache[tag] \in 1..Len(l.cols) /\ l.cols[l.colCache[tag]] = tag
              /\ \A i \in Items : Cell(Source(f), i, tag) \in Values
    BY <1>2, <1>3, <1>5, <1>6
  <1> QED
    BY <1>7 DEF l

\* What an item reads is a value.
LEMMA ReadFacts ==
  ASSUME TypeInv, LayersInv, NEW p \in Procs, NEW tag
  PROVE  /\ Readable(p, tag, strings) => StringOf(p, tag) \in Values
         /\ Readable(p, tag, numbers) => NumberOf(p, tag) \in Nat \cup {-1}
  <1> DEFINE k == Source(p[1])
             i == p[2]
  <1>1. k \in Layers /\ i \in Items /\ p[1] \in Files
    BY ProcFacts, ModeFacts DEF TypeInv
  <1>2. \A t \in DOMAIN layer[k].colCache : Cell(k, i, t) \in Values
    BY <1>1, SourceFacts
  <1>3. /\ \A t \in DOMAIN strings[k][i] : strings[k][i][t] \in Values
        /\ \A t \in DOMAIN numbers[k][i] : numbers[k][i][t] \in Nat
    BY <1>1 DEF TypeInv, IsCache, IsMap, Numbers
  <1>4. ASSUME Readable(p, tag, strings) PROVE StringOf(p, tag) \in Values
    <2>1. tag \in DOMAIN strings[k][i] \/ tag \in DOMAIN layer[k].colCache
      BY <1>4 DEF Readable
    <2>2. StringOf(p, tag) = IF tag \in DOMAIN strings[k][i]
                             THEN strings[k][i][tag] ELSE Cell(k, i, tag)
      BY DEF StringOf
    <2> QED
      BY <1>2, <1>3, <2>1, <2>2
  <1>5. ASSUME Readable(p, tag, numbers) PROVE NumberOf(p, tag) \in Nat \cup {-1}
    <2>1. tag \in DOMAIN numbers[k][i] \/ tag \in DOMAIN layer[k].colCache
      BY <1>5 DEF Readable
    <2>2. NumberOf(p, tag) = IF tag \in DOMAIN numbers[k][i]
                             THEN numbers[k][i][tag] ELSE Cell(k, i, tag).num
      BY DEF NumberOf
    <2>3. CASE tag \in DOMAIN numbers[k][i]
      BY <1>3, <2>2, <2>3
    <2>4. CASE tag \notin DOMAIN numbers[k][i]
      BY <1>2, <2>1, <2>2, <2>4, ValueFacts
    <2> QED
      BY <2>3, <2>4
  <1> QED
    BY <1>4, <1>5

\* A cache with one more value.
Extended(new, cache, a, b, tag, val) ==
  new = [cache EXCEPT ![a][b] = Put(@, tag, val)]
LEMMA CacheFacts ==
  ASSUME NEW cache, cache = [k \in Layers |-> [i \in Items |-> cache[k][i]]],
         NEW a \in Layers, NEW b \in Items, NEW tag, NEW val,
         NEW new, Extended(new, cache, a, b, tag, val)
  PROVE  /\ new = [k \in Layers |-> [i \in Items |-> new[k][i]]]
         /\ \A k \in Layers, i \in Items :
              new[k][i] = IF k = a /\ i = b THEN Put(cache[a][b], tag, val)
                                            ELSE cache[k][i]
  <1> DEFINE v == Put(cache[a][b], tag, val)
  <1>1. new = [cache EXCEPT ![a] = [cache[a] EXCEPT ![b] = v]]
    BY DEF Extended
  <1> HIDE DEF v
  <1>2. DOMAIN cache = Layers /\ \A k \in Layers : DOMAIN cache[k] = Items
    OBVIOUS
  <1>3. ASSUME NEW k \in Layers
        PROVE  /\ new[k] = [i \in Items |-> new[k][i]]
               /\ \A i \in Items : new[k][i] = IF k = a /\ i = b THEN v ELSE cache[k][i]
    <2>1. CASE k = a
      BY <1>1, <1>2, <2>1
    <2>2. CASE k # a
      BY <1>1, <1>2, <2>2
    <2> QED
      BY <2>1, <2>2
  <1>4. new = [k \in Layers |-> new[k]]
    BY <1>1, <1>2
  <1>5. new = [k \in Layers |-> [i \in Items |-> new[k][i]]]
    BY <1>3, <1>4
  <1> QED
    BY <1>3, <1>5 DEF v

\* The same, when the values of the cache have a type.
LEMMA CacheTyped ==
  ASSUME NEW cache, NEW S, IsCache(cache, S),
         NEW a \in Layers, NEW b \in Items, NEW tag \in Names, NEW val \in S,
         NEW new, Extended(new, cache, a, b, tag, val)
  PROVE  /\ IsCache(new, S)
         /\ \A k \in Layers, i \in Items : k # a \/ i # b => new[k][i] = cache[k][i]
         /\ DOMAIN new[a][b] = DOMAIN cache[a][b] \cup {tag} /\ new[a][b][tag] = val
         /\ \A t \in DOMAIN cache[a][b] : t # tag => new[a][b][t] = cache[a][b][t]
  <1>1. /\ new = [k \in Layers |-> [i \in Items |-> new[k][i]]]
        /\ \A k \in Layers, i \in Items :
             new[k][i] = IF k = a /\ i = b THEN Put(cache[a][b], tag, val)
                                           ELSE cache[k][i]
    BY CacheFacts DEF IsCache
  <1> DEFINE c == cache[a][b]
             m == Put(c, tag, val)
  <1>2. new[a][b] = m
    BY <1>1
  <1>3. IsMap(c, S)
    BY DEF IsCache
  <1> HIDE DEF c
  <1>4. IsMap(m, S)
    BY <1>3, PutIsMap
  <1>5. /\ DOMAIN m = DOMAIN c \cup {tag} /\ m[tag] = val
        /\ \A t \in DOMAIN c : t # tag => m[t] = c[t]
    BY DEF Put
  <1> HIDE DEF m
  <1>6. \A k \in Layers, i \in Items : k # a \/ i # b => new[k][i] = cache[k][i]
    BY <1>1
  <1>7. ASSUME NEW k \in Layers, NEW i \in Items PROVE IsMap(new[k][i], S)
    <2>1. CASE k = a /\ i = b
      BY <1>2, <1>4, <2>1
    <2>2. CASE k # a \/ i # b
      BY <1>6, <2>2 DEF IsCache
    <2> QED
      BY <2>1, <2>2
  <1>8. IsCache(new, S)
    BY <1>1, <1>7 DEF IsCache
  <1> QED
    BY <1>2, <1>5, <1>6, <1>8 DEF c

-----------------------------------------------------------------------------
(* What steps leave as it is.                                              *)

LEMMA SameModes ==
  ASSUME UNCHANGED <<mode, prog>>
  PROVE  /\ Parallel' <=> Parallel
         /\ \A f : /\ Source(f)' = Source(f) /\ Target(f)' = Target(f)
                   /\ (IsNew(f)' <=> IsNew(f)) /\ (LateEmpty(f)' <=> LateEmpty(f))
         /\ \A f, t : (Writes(f, t)' <=> Writes(f, t)) /\ (Alone(f, t)' <=> Alone(f, t))
  <1>1. /\ Parallel' <=> Parallel
        /\ \A f : /\ Source(f)' = Source(f) /\ Target(f)' = Target(f)
                  /\ (IsNew(f)' <=> IsNew(f)) /\ (LateEmpty(f)' <=> LateEmpty(f))
    BY DEF Parallel, Source, Target, IsNew, LateEmpty
  <1>2. \A f, t : Writes(f, t)' <=> Writes(f, t)
    BY DEF Writes, IsNew
  <1> QED
    BY <1>1, <1>2 DEF Alone

\* The layers and what is known of them.
LEMMA SameLayers ==
  ASSUME LayersInv, ParsedInv, ColumnsForAssignments,
         UNCHANGED <<mode, prog, layer, begun, parsed, types>>
  PROVE  LayersInv' /\ ParsedInv' /\ ColumnsForAssignments'
  <1>1. LayersInv'
    BY SameModes DEF LayersInv, Begun
  <1>2. \A f \in Files : TypesHaveColumns(f)' <=> TypesHaveColumns(f)
    BY SameModes DEF TypesHaveColumns, Asked, Asks, HasTag
  <1>3. ParsedInv'
    BY <1>2, SameModes DEF ParsedInv
  <1>4. ColumnsForAssignments'
    BY SameModes DEF ColumnsForAssignments, Ran, AskedBefore, HasTag
  <1> QED
    BY <1>1, <1>3, <1>4

LEMMA SameRows ==
  ASSUME SeesInv, UNCHANGED <<mode, prog, layer, begun, parsed, row, view>>
  PROVE  SeesInv'
  BY DEF SeesInv, Sees, Current, Begun, Ran, Source, Target, LateEmpty

LEMMA SameCaches ==
  ASSUME UNCHANGED <<mode, prog, layer, strings, numbers>>, NEW p \in Procs
  PROVE  Cached(p)' <=> Cached(p)
  <1>1. /\ \A k, i, t : Cell(k, i, t)' = Cell(k, i, t)
        /\ Source(p[1])' = Source(p[1])
        /\ \A t : Alone(p[1], t)' <=> Alone(p[1], t)
    BY SameModes DEF Cell
  <1> QED
    BY <1>1 DEF Cached

\* An item that moves on from a condition, or to another assignment.
LEMMA OrderKept ==
  ASSUME TypeInv, OrderInv, UNCHANGED <<mode, prog, begun, parsed>>, NEW p \in Procs,
         AllParsed(p[1]), pc[p] # "done",
         \A q \in Procs : q # p => pc'[q] = pc[q],
         mode = "shared" => \A f \in Files : f # p[1] => layer'[f].rows = layer[f].rows
  PROVE  OrderInv'
  <1>1. ASSUME NEW q \in Procs, ~AllParsed(q[1])
        PROVE  pc'[q] = "condition" /\ (mode = "shared" => layer'[q[1]].rows = <<>>)
    <2>1. q[1] # p[1] /\ q # p /\ q[1] \in Files
      BY <1>1, ProcFacts
    <2> QED
      BY <1>1, <2>1 DEF OrderInv
  <1>2. ASSUME ~Parallel, NEW q \in Procs, NEW f \in Files, q[1] < f, Begun(f)
        PROVE  pc'[q] = "done"
    <2>1. pc[q] = "done"
      BY <1>2 DEF OrderInv
    <2> QED
      BY <2>1
  <1> QED
    BY <1>1, <1>2, SameModes DEF OrderInv, Begun, AllParsed

\* An item at work is in the current file.
LEMMA AtWork ==
  ASSUME TypeInv, OrderInv, NEW p \in Procs, pc[p] # "done",
         AllParsed(p[1])
  PROVE  Current(p[1])
  <1>1. p[1] \in Files
    BY ProcFacts
  <1>2. Begun(p[1])
    BY DEF Begun, AllParsed
  <1>3. ~Ran(p[1])
    <2>1. SUFFICES ASSUME Ran(p[1]) PROVE FALSE
      OBVIOUS
    <2>2. ~Parallel
      BY <2>1 DEF Ran, Parallel
    <2>3. PICK g \in Files : g > p[1] /\ g \in begun
      BY <2>1 DEF Ran, TypeInv
    <2>4. g \in Nat /\ p[1] \in Nat
      BY <1>1, FilesAssumption, ModeFacts DEF TypeInv
    <2> QED
      BY <2>2, <2>3, <2>4 DEF OrderInv, Begun
  <1> QED
    BY <1>2, <1>3 DEF Current

\* An item that is past its first condition has all its file parsed.
LEMMA Past ==
  ASSUME TypeInv, OrderInv, NEW p \in Procs, pc[p] # "condition"
  PROVE  AllParsed(p[1])
  BY DEF OrderInv

\* A value that a row shows for a known tag.
LEMMA ShownValue ==
  ASSUME TypeInv, LayersInv, NEW p \in Procs, row[p] = 0, Sees(p),
         NEW tag \in DOMAIN layer[Source(p[1])].colCache, tag \in DOMAIN view[p]
  PROVE  view[p][tag] = Cell(Source(p[1]), p[2], tag)
  <1> DEFINE l == layer[Source(p[1])]
             r == l.rows[p[2]]
             c == l.colCache[tag]
  <1>1. c \in 1..Len(l.cols) /\ l.cols[c] = tag
    BY SourceFacts, ProcFacts
  <1>2. Shows(l, r, view[p])
    BY DEF Sees
  <1>3. r[c] = view[p][tag]
    <2> HIDE DEF l, r, c
    <2> QED
      BY <1>1, <1>2 DEF Shows
  <1> QED
    BY <1>3 DEF Cell

LEMMA NextConditionFacts ==
  ASSUME TypeInv, NEW p \in Procs
  PROVE  NextCondition(p) \in Nat \ {0}
  <1> DEFINE later == {k \in Conditions(p[1]) : k > at[p]}
  <1>1. Len(prog[p[1]]) \in Nat
    BY ProcFacts, ExprFacts DEF TypeInv
  <1>2. later \subseteq Nat \ {0}
    BY <1>1 DEF Conditions
  <1>3. ASSUME later # {} PROVE Min(later) \in later
    <2>1. PICK n \in later : \A m \in later : n <= m
      <3> HIDE DEF later
      <3> QED
        BY <1>2, <1>3, LeastElement
    <2> HIDE DEF later
    <2> QED
      BY <2>1 DEF Min
  <1>4. NextCondition(p) = IF later = {} THEN Len(prog[p[1]]) + 1 ELSE Min(later)
    BY DEF NextCondition
  <1> HIDE DEF later
  <1>5. CASE later = {}
    BY <1>1, <1>4, <1>5
  <1>6. CASE later # {}
    BY <1>2, <1>3, <1>4, <1>6
  <1> QED
    BY <1>5, <1>6

-----------------------------------------------------------------------------
(* Reading a row.                                                          *)

CachesTyped ==
  IsCache(strings, Values) /\ IsCache(numbers, Numbers)

\* What an item reads goes to the caches as it was read.
ReadString(p, tag) ==
  /\ Readable(p, tag, strings)
  /\ Extended(strings', strings, Source(p[1]), p[2], tag, StringOf(p, tag))
ReadNumber(p, tag) ==
  /\ Readable(p, tag, numbers) /\ NumberOf(p, tag) # NaN
  /\ Extended(numbers', numbers, Source(p[1]), p[2], tag, NumberOf(p, tag))

LEMMA ReadStringKept ==
  ASSUME TypeInv, LayersInv, UNCHANGED <<mode, prog, layer>>, NEW p \in Procs,
         NEW tag \in Names, UNCHANGED strings \/ ReadString(p, tag)
  PROVE  /\ IsCache(strings', Values)
         /\ \A q \in Procs : Cached(q) =>
              LET k == Source(q[1]) i == q[2] IN
              \A t \in DOMAIN strings'[k][i] : Alone(q[1], t) =>
                t \in DOMAIN layer[k].colCache /\ strings'[k][i][t] = Cell(k, i, t)
  <1> DEFINE a == Source(p[1])
             b == p[2]
             val == StringOf(p, tag)
  <1>1. CASE UNCHANGED strings
    BY <1>1 DEF TypeInv, Cached
  <1>2. CASE ReadString(p, tag)
    <2>1. a \in Layers /\ b \in Items /\ p[1] \in Files
      BY ProcFacts, ModeFacts DEF TypeInv
    <2>2. val \in Values
      BY <1>2, ReadFacts DEF ReadString
    <2>3. Extended(strings', strings, a, b, tag, val)
      BY <1>2 DEF ReadString
    <2>4. IsCache(strings, Values)
      BY DEF TypeInv
    <2>v. /\ val = IF tag \in DOMAIN strings[a][b] THEN strings[a][b][tag]
                                                  ELSE Cell(a, b, tag)
          /\ tag \in DOMAIN strings[a][b] \/ tag \in DOMAIN layer[a].colCache
      BY <1>2 DEF StringOf, ReadString, Readable
    <2> HIDE DEF a, b, val
    <2>5. /\ IsCache(strings', Values)
          /\ \A k \in Layers, i \in Items :
               k # a \/ i # b => strings'[k][i] = strings[k][i]
          /\ DOMAIN strings'[a][b] = DOMAIN strings[a][b] \cup {tag}
          /\ strings'[a][b][tag] = val
          /\ \A t \in DOMAIN strings[a][b] :
               t # tag => strings'[a][b][t] = strings[a][b][t]
      BY <2>1, <2>2, <2>3, <2>4, CacheTyped
    <2>6. ASSUME NEW q \in Procs, Cached(q), NEW t \in DOMAIN strings'[Source(q[1])][q[2]],
                 Alone(q[1], t)
          PROVE  /\ t \in DOMAIN layer[Source(q[1])].colCache
                 /\ strings'[Source(q[1])][q[2]][t] = Cell(Source(q[1]), q[2], t)
      <3> DEFINE k == Source(q[1])
                 i == q[2]
      <3>1. k \in Layers /\ i \in Items
        BY ProcFacts, ModeFacts DEF TypeInv
      <3>2. t \in DOMAIN strings[k][i] => /\ t \in DOMAIN layer[k].colCache
                                          /\ strings[k][i][t] = Cell(k, i, t)
        BY <2>6 DEF Cached
      <3> HIDE DEF k, i
      <3>3. CASE k = a /\ i = b /\ t = tag
        <4>1. strings'[k][i][t] = val
          BY <2>5, <3>3
        <4> QED
          BY <2>v, <3>2, <3>3, <4>1 DEF k, i
      <3>4. CASE ~(k = a /\ i = b /\ t = tag)
        <4>1. t \in DOMAIN strings'[k][i]
          BY <2>6 DEF k, i
        <4>2. t \in DOMAIN strings[k][i] /\ strings'[k][i][t] = strings[k][i][t]
          BY <2>5, <3>1, <3>4, <4>1
        <4> QED
          BY <3>2, <4>2 DEF k, i
      <3> QED
        BY <3>3, <3>4
    <2> QED
      BY <2>5, <2>6
  <1> QED
    BY <1>1, <1>2

LEMMA ReadNumberKept ==
  ASSUME TypeInv, LayersInv, UNCHANGED <<mode, prog, layer>>, NEW p \in Procs,
         NEW tag \in Names, UNCHANGED numbers \/ ReadNumber(p, tag)
  PROVE  /\ IsCache(numbers', Numbers)
         /\ \A q \in Procs : Cached(q) =>
              LET k == Source(q[1]) i == q[2] IN
              \A t \in DOMAIN numbers'[k][i] : Alone(q[1], t) =>
                t \in DOMAIN layer[k].colCache /\ numbers'[k][i][t] = Cell(k, i, t).num
  <1> DEFINE a == Source(p[1])
             b == p[2]
             val == NumberOf(p, tag)
  <1>1. CASE UNCHANGED numbers
    BY <1>1 DEF TypeInv, Cached
  <1>2. CASE ReadNumber(p, tag)
    <2>1. a \in Layers /\ b \in Items /\ p[1] \in Files
      BY ProcFacts, ModeFacts DEF TypeInv
    <2>2. val \in Numbers
      <3>1. val \in Nat \cup {-1} /\ val # NaN
        BY <1>2, ReadFacts DEF ReadNumber
      <3> QED
        BY <3>1 DEF NaN, Numbers
    <2>3. Extended(numbers', numbers, a, b, tag, val)
      BY <1>2 DEF ReadNumber
    <2>4. IsCache(numbers, Numbers)
      BY DEF TypeInv
    <2>v. /\ val = IF tag \in DOMAIN numbers[a][b] THEN numbers[a][b][tag]
                                                  ELSE Cell(a, b, tag).num
          /\ tag \in DOMAIN numbers[a][b] \/ tag \in DOMAIN layer[a].colCache
      BY <1>2 DEF NumberOf, ReadNumber, Readable
    <2> HIDE DEF a, b, val
    <2>5. /\ IsCache(numbers', Numbers)
          /\ \A k \in Layers, i \in Items :
               k # a \/ i # b => numbers'[k][i] = numbers[k][i]
          /\ DOMAIN numbers'[a][b] = DOMAIN numbers[a][b] \cup {tag}
          /\ numbers'[a][b][tag] = val
          /\ \A t \in DOMAIN numbers[a][b] :
               t # tag => numbers'[a][b][t] = numbers[a][b][t]
      BY <2>1, <2>2, <2>3, <2>4, CacheTyped
    <2>6. ASSUME NEW q \in Procs, Cached(q), NEW t \in DOMAIN numbers'[Source(q[1])][q[2]],
                 Alone(q[1], t)
          PROVE  /\ t \in DOMAIN layer[Source(q[1])].colCache
                 /\ numbers'[Source(q[1])][q[2]][t] = Cell(Source(q[1]), q[2], t).num
      <3> DEFINE k == Source(q[1])
                 i == q[2]
      <3>1. k \in Layers /\ i \in Items
        BY ProcFacts, ModeFacts DEF TypeInv
      <3>2. t \in DOMAIN numbers[k][i] => /\ t \in DOMAIN layer[k].colCache
                                          /\ numbers[k][i][t] = Cell(k, i, t).num
        BY <2>6 DEF Cached
      <3> HIDE DEF k, i
      <3>3. CASE k = a /\ i = b /\ t = tag
        <4>1. numbers'[k][i][t] = val
          BY <2>5, <3>3
        <4> QED
          BY <2>v, <3>2, <3>3, <4>1 DEF k, i
      <3>4. CASE ~(k = a /\ i = b /\ t = tag)
        <4>1. t \in DOMAIN numbers'[k][i]
          BY <2>6 DEF k, i
        <4>2. t \in DOMAIN numbers[k][i] /\ numbers'[k][i][t] = numbers[k][i][t]
          BY <2>5, <3>1, <3>4, <4>1
        <4> QED
          BY <3>2, <4>2 DEF k, i
      <3> QED
        BY <3>3, <3>4
    <2> QED
      BY <2>5, <2>6
  <1> QED
    BY <1>1, <1>2

\* Reading keeps the invariant of the caches.
LEMMA ReadsKept ==
  ASSUME TypeInv, LayersInv, CachesInv, UNCHANGED <<mode, prog, layer>>, NEW p \in Procs,
         NEW tag \in Names, UNCHANGED strings \/ ReadString(p, tag),
         UNCHANGED numbers \/ ReadNumber(p, tag),
         \A q \in Procs : pc'[q] = "condition" => pc[q] = "condition"
  PROVE  CachesTyped' /\ CachesInv'
  <1>1. /\ IsCache(strings', Values)
        /\ \A q \in Procs : Cached(q) =>
             LET k == Source(q[1]) i == q[2] IN
             \A t \in DOMAIN strings'[k][i] : Alone(q[1], t) =>
               t \in DOMAIN layer[k].colCache /\ strings'[k][i][t] = Cell(k, i, t)
    BY ReadStringKept
  <1>2. /\ IsCache(numbers', Numbers)
        /\ \A q \in Procs : Cached(q) =>
             LET k == Source(q[1]) i == q[2] IN
             \A t \in DOMAIN numbers'[k][i] : Alone(q[1], t) =>
               t \in DOMAIN layer[k].colCache /\ numbers'[k][i][t] = Cell(k, i, t).num
    BY ReadNumberKept
  <1>3. CachesTyped'
    BY <1>1, <1>2 DEF CachesTyped, IsCache, IsMap, Layers, Items, Values, Names, Numbers
  <1>4. ASSUME NEW q \in Procs, pc'[q] = "condition" PROVE Cached(q)'
    <2>1. Cached(q)
      BY <1>4 DEF CachesInv
    <2>2. /\ Source(q[1])' = Source(q[1])
          /\ \A t : Alone(q[1], t)' <=> Alone(q[1], t)
          /\ \A k, i, t : Cell(k, i, t)' = Cell(k, i, t)
      BY SameModes DEF Cell
    <2> DEFINE k == Source(q[1])
               i == q[2]
    <2>3. /\ \A t \in DOMAIN strings'[k][i] : Alone(q[1], t) =>
               t \in DOMAIN layer[k].colCache /\ strings'[k][i][t] = Cell(k, i, t)
          /\ \A t \in DOMAIN numbers'[k][i] : Alone(q[1], t) =>
               t \in DOMAIN layer[k].colCache /\ numbers'[k][i][t] = Cell(k, i, t).num
      BY <1>1, <1>2, <2>1
    <2> QED
      BY <2>2, <2>3 DEF Cached, Cell
  <1> QED
    BY <1>3, <1>4 DEF CachesInv

-----------------------------------------------------------------------------
(* The steps of an item.                                                   *)

\* The parts of the invariant that a step which moves one item on has to keep.
LEMMA TypeKept ==
  ASSUME TypeInv, UNCHANGED <<mode, prog, begun, parsed, types>>, CachesTyped',
         pc' \in [Procs -> Steps], at' \in [Procs -> Nat \ {0}],
         row' \in [Procs -> Nat], old' \in [Procs -> Values],
         view' = [p \in Procs |-> view'[p]],
         \A p \in Procs : IsMap(view'[p], Values) /\ DOMAIN view'[p] = DOMAIN view[p]
  PROVE  TypeInv'
  <1>1. /\ mode' \in Modes /\ prog' \in [Files -> Programs]
        /\ begun' \subseteq Files
        /\ parsed' \in [Files -> SUBSET Nat] /\ types' \in [Files -> Seq(Kinds)]
    BY DEF TypeInv
  <1>2. \A f \in Files : ParsedParts(f)'
    BY SameModes DEF TypeInv, ParsedParts, InOrder, Begun
  <1>3. IsCache(strings, Values)' /\ IsCache(numbers, Numbers)'
    BY DEF CachesTyped
  <1>4. \A p \in Procs : IsMap(view[p], Values)' /\ Tags \cup {"guid"} \subseteq DOMAIN view'[p]
    BY DEF TypeInv, IsMap, Values, Names, Tags
  <1> QED
    BY <1>1, <1>2, <1>3, <1>4 DEF TypeInv, Procs, Kinds, Steps, Values, Tags

LEMMA OnlyStatus ==
  ASSUME ItemsInv, status' # "running", status' = "fault" => mode = "serialNew",
         UNCHANGED <<mode, prog, layer, begun, parsed, types, ItemVars>>
  PROVE  ItemsInv'
  <1>1. UNCHANGED <<strings, numbers, pc, at, row, plain, old, view, misread>>
    BY DEF ItemVars
  <1>2. TypeInv'
    <2>1. CachesTyped'
      BY <1>1 DEF ItemsInv, TypeInv, CachesTyped, IsCache
    <2> QED
      BY <1>1, <2>1, TypeKept DEF ItemsInv, TypeInv
  <1>3. LayersInv' /\ ParsedInv' /\ ColumnsForAssignments' /\ SeesInv'
    BY <1>1, SameLayers, SameRows DEF ItemsInv
  <1>4. OrderInv'
    BY <1>1, SameModes DEF ItemsInv, OrderInv, Begun, AllParsed
  <1>5. RowsInv'
    <2>1. ASSUME NEW p \in Procs PROVE ItemInv(p)'
      <3>1. ItemInv(p)
        BY DEF ItemsInv, RowsInv
      <3>2. /\ AtAssignment(p)' <=> AtAssignment(p)
            /\ AfterAssignment(p)' <=> AfterAssignment(p)
            /\ (NumberAssign(p)' <=> NumberAssign(p)) /\ Expr(p)' = Expr(p)
        BY <1>1 DEF AtAssignment, AfterAssignment, NumberAssign, Left, Expr
      <3> QED
        BY <1>1, <3>1, <3>2, SameModes DEF ItemInv
    <2> QED
      BY <1>1, <2>1, SameModes DEF ItemsInv, RowsInv
  <1>6. CachesInv'
    <2>1. \A p \in Procs : Cached(p)' <=> Cached(p)
      BY <1>1, SameCaches
    <2> QED
      BY <1>1, <2>1 DEF ItemsInv, CachesInv, Procs
  <1>7. MisreadInv' /\ FaultsOnlyInSerialNew'
    BY <1>1, SameModes DEF ItemsInv, MisreadInv, MisreadsComeFromOthers,
                           FaultsOnlyInSerialNew
  <1> QED
    BY <1>2, <1>3, <1>4, <1>5, <1>6, <1>7 DEF ItemsInv

\* The items that a step of another item leaves as they are.
LEMMA ItemKept ==
  ASSUME NEW q \in Procs, ItemInv(q), UNCHANGED <<mode, prog, types>>,
         pc'[q] = pc[q], at'[q] = at[q], row'[q] = row[q], old'[q] = old[q],
         view'[q] = view[q], status' = "running" => status = "running",
         Len(layer[Target(q[1])].rows) \in Nat, row[q] \in Nat,
         Len(layer'[Target(q[1])].rows) \in Nat,
         Len(layer[Target(q[1])].rows) <= Len(layer'[Target(q[1])].rows)
  PROVE  ItemInv(q)'
  <1>1. /\ AtAssignment(q)' <=> AtAssignment(q)
        /\ AfterAssignment(q)' <=> AfterAssignment(q)
        /\ NumberAssign(q)' <=> NumberAssign(q)
        /\ Expr(q)' = Expr(q) /\ Target(q[1])' = Target(q[1]) /\ (IsNew(q[1])' <=> IsNew(q[1]))
    BY SameModes DEF AtAssignment, AfterAssignment, NumberAssign, Left, Expr
  <1> QED
    BY <1>1 DEF ItemInv

\* A condition leaves the rows alone, and what it reads is what the row shows.
LEMMA CheckConditionInv ==
  ASSUME ItemsInv, status = "running", NEW p \in Procs, CheckCondition(p)
  PROVE  ItemsInv'
  <1> DEFINE f == p[1]
             e == Expr(p)
             tag == e.tag
             reads == HasTag(e) /\ Left(p) # "New"
             numeric == reads /\ Numeric(p, e)
             number == IF numeric THEN NumberOf(p, tag) ELSE NaN
             asText == reads /\ (~numeric \/ number = NaN) /\ e.op # "<"
             text == IF asText THEN StringOf(p, tag) ELSE Empty
             holds == Truth(e, Left(p), text, number, numeric)
             seen == view[p][tag]
  <1>1. /\ pc[p] = "condition" /\ Started(p) /\ at[p] \in Conditions(f)
        /\ UNCHANGED <<mode, prog, layer, begun, parsed, types>>
    BY DEF CheckCondition
  <1>2. IF e.op = "<" /\ (Left(p) # "Number" \/ number = NaN)
        THEN status' = "failed" /\ UNCHANGED ItemVars
        ELSE /\ IF numeric /\ number # NaN THEN CacheNumber(p, tag, number)
                                           ELSE UNCHANGED numbers
             /\ IF asText THEN CacheString(p, tag, text) ELSE UNCHANGED strings
             /\ misread' = misread \cup
                  IF (numeric /\ number # seen.num) \/ (asText /\ text # seen)
                  THEN {<<p, tag>>} ELSE {}
             /\ pc' = [pc EXCEPT ![p] = IF holds THEN "assign" ELSE @]
             /\ at' = [at EXCEPT ![p] = IF holds THEN @ + 1 ELSE NextCondition(p)]
             /\ UNCHANGED <<row, old, view, status>>
    BY DEF CheckCondition
  <1>3. CASE e.op = "<" /\ (Left(p) # "Number" \/ number = NaN)
    BY <1>1, <1>2, <1>3, OnlyStatus
  <1>4. CASE ~(e.op = "<" /\ (Left(p) # "Number" \/ number = NaN))
    <2>0. TypeInv /\ LayersInv /\ OrderInv /\ ParsedInv /\ RowsInv /\ SeesInv
          /\ CachesInv /\ MisreadInv /\ ColumnsForAssignments /\ FaultsOnlyInSerialNew
      BY DEF ItemsInv
    <2>1. /\ AllParsed(f) /\ f \in Files /\ at[p] \in 1..Len(prog[f])
          /\ ~prog[f][at[p]].assign /\ e = prog[f][at[p]] /\ Left(p) = types[f][at[p]]
      BY <1>1, ProcFacts DEF Started, Conditions, Expr, Left
    <2>2. tag \in Names /\ tag \in Tags
      BY <2>0, <2>1, ExprFacts DEF TypeInv
    <2>3. reads => tag \in DOMAIN layer[Source(f)].colCache
      <3>1. at[p] \in parsed[f]
        BY <2>0, <2>1, WholeParsed
      <3> QED
        BY <2>0, <2>1, <3>1 DEF ParsedInv
    <2>4. UNCHANGED numbers \/ ReadNumber(p, tag)
      <3>1. CASE numeric /\ number # NaN
        <4>1. number = NumberOf(p, tag) /\ CacheNumber(p, tag, number)
          BY <1>2, <1>4, <3>1
        <4>2. Readable(p, tag, numbers)
          BY <2>3, <3>1 DEF Readable
        <4> HIDE DEF number
        <4> QED
          BY <3>1, <4>1, <4>2 DEF CacheNumber, ReadNumber, Extended
      <3>2. CASE ~(numeric /\ number # NaN)
        BY <1>2, <1>4, <3>2
      <3> QED
        BY <3>1, <3>2
    <2>5. UNCHANGED strings \/ ReadString(p, tag)
      <3>1. CASE asText
        <4>1. text = StringOf(p, tag) /\ CacheString(p, tag, text)
          BY <1>2, <1>4, <3>1
        <4>2. Readable(p, tag, strings)
          BY <2>3, <3>1 DEF Readable
        <4> HIDE DEF text
        <4> QED
          BY <4>1, <4>2 DEF CacheString, ReadString, Extended
      <3>2. CASE ~asText
        BY <1>2, <1>4, <3>2
      <3> QED
        BY <3>1, <3>2
    <2>6. /\ pc' = [pc EXCEPT ![p] = IF holds THEN "assign" ELSE "condition"]
          /\ at' = [at EXCEPT ![p] = IF holds THEN at[p] + 1 ELSE NextCondition(p)]
          /\ UNCHANGED <<row, old, view, status>>
          /\ pc \in [Procs -> Steps] /\ at \in [Procs -> Nat \ {0}]
      BY <1>1, <1>2, <1>4, <2>0 DEF TypeInv
    <2>7. misread' = misread \cup
            IF (numeric /\ number # seen.num) \/ (asText /\ text # seen)
            THEN {<<p, tag>>} ELSE {}
      BY <1>2, <1>4
    <2>r. \/ misread' = misread
          \/ /\ misread' = misread \cup {<<p, tag>>}
             /\ reads
             /\ NumberOf(p, tag) # seen.num \/ StringOf(p, tag) # seen
      BY <2>7
    <2> HIDE DEF e, reads, numeric, number, asText, text, holds, seen
    <2>8. \A q \in Procs : /\ q # p => pc'[q] = pc[q] /\ at'[q] = at[q]
                           /\ pc'[q] = "condition" => pc[q] = "condition"
      BY <1>1, <2>6
    <2>9. CachesTyped' /\ CachesInv'
      BY <1>1, <2>0, <2>2, <2>4, <2>5, <2>8, ReadsKept
    <2>10. pc' \in [Procs -> Steps] /\ pc'[p] \in {"condition", "assign"}
      BY <2>6 DEF Steps
    <2>11. at' \in [Procs -> Nat \ {0}]
      <3>1. NextCondition(p) \in Nat \ {0} /\ at[p] + 1 \in Nat \ {0}
        BY <2>0, <2>6, NextConditionFacts
      <3> HIDE DEF f
      <3> QED
        BY <2>6, <3>1
    <2>12. TypeInv'
      BY <1>1, <2>0, <2>6, <2>9, <2>10, <2>11, TypeKept DEF TypeInv
    <2>13. LayersInv' /\ ParsedInv' /\ ColumnsForAssignments' /\ SeesInv'
      BY <1>1, <2>0, <2>6, SameLayers, SameRows
    <2>14. OrderInv'
      BY <1>1, <2>0, <2>1, <2>8, OrderKept
    <2>15. RowsInv'
      <3>1. ItemInv(p)'
        <4>1. row[p] = 0 /\ row'[p] = 0
          BY <1>1, <2>0, <2>6 DEF RowsInv, ItemInv, TypeInv
        <4> QED
          BY <2>10, <4>1 DEF ItemInv
      <3>2. ASSUME NEW q \in Procs, q # p PROVE ItemInv(q)'
        <4>1. Target(q[1]) \in Layers /\ IsLayer(layer[Target(q[1])])
          BY <2>0, ProcFacts, ModeFacts DEF TypeInv, LayersInv
        <4>2. /\ Len(layer[Target(q[1])].rows) \in Nat /\ layer' = layer /\ row[q] \in Nat
              /\ ItemInv(q)
          BY <1>1, <2>0, <4>1, LayerParts DEF TypeInv, RowsInv
        <4> QED
          BY <1>1, <2>6, <2>8, <3>2, <4>2, ItemKept
      <3>3. \A q, s \in Procs : row'[q] = row'[s] /\ row'[q] > 0
                                  /\ Target(q[1])' = Target(s[1])' => q = s
        BY <1>1, <2>0, <2>6, SameModes DEF RowsInv
      <3> QED
        BY <3>1, <3>2, <3>3 DEF RowsInv, Procs
    <2>16. MisreadInv'
      <3>1. reads /\ Alone(f, tag) =>
              NumberOf(p, tag) = view[p][tag].num /\ StringOf(p, tag) = view[p][tag]
        <4> SUFFICES ASSUME reads, Alone(f, tag)
                     PROVE  NumberOf(p, tag) = view[p][tag].num
                              /\ StringOf(p, tag) = view[p][tag]
          OBVIOUS
        <4>1. Current(f)
          BY <1>1, <2>0, <2>1, AtWork
        <4>2. row[p] = 0
          BY <1>1, <2>0 DEF RowsInv, ItemInv, TypeInv
        <4>3. Sees(p) /\ Cached(p)
          BY <1>1, <2>0, <4>1 DEF SeesInv, CachesInv
        <4>4. tag \in DOMAIN view[p]
          BY <2>0, <2>2 DEF TypeInv
        <4>5. view[p][tag] = Cell(Source(f), p[2], tag)
          BY <2>0, <2>3, <4>2, <4>3, <4>4, ShownValue
        <4>6. /\ tag \in DOMAIN strings[Source(f)][p[2]] =>
                   strings[Source(f)][p[2]][tag] = Cell(Source(f), p[2], tag)
              /\ tag \in DOMAIN numbers[Source(f)][p[2]] =>
                   numbers[Source(f)][p[2]][tag] = Cell(Source(f), p[2], tag).num
          BY <4>3 DEF Cached
        <4> QED
          BY <4>5, <4>6 DEF StringOf, NumberOf
      <3>2. CASE misread' = misread
        BY <1>1, <2>0, <3>2, SameModes DEF MisreadInv, MisreadsComeFromOthers, Procs, Names, Tags
      <3>3. CASE /\ misread' = misread \cup {<<p, tag>>} /\ reads
                 /\ NumberOf(p, tag) # seen.num \/ StringOf(p, tag) # seen
        <4>1. ~Alone(f, tag)
          BY <3>1, <3>3 DEF seen
        <4>2. mode # "own" /\ \E g \in Files \ {f} : Writes(g, tag)
          BY <4>1 DEF Alone
        <4>3. <<p, tag>>[1][1] = f /\ <<p, tag>>[2] = tag /\ <<p, tag>> \in Procs \X Names
          BY <2>2
        <4>4. \A m \in misread' :
                /\ m \in Procs \X Names
                /\ mode # "own" /\ \E g \in Files \ {m[1][1]} : Writes(g, m[2])
          BY <2>0, <3>3, <4>2, <4>3 DEF MisreadInv, MisreadsComeFromOthers
        <4> QED
          BY <1>1, <4>4, SameModes DEF MisreadInv, MisreadsComeFromOthers, Procs, Names, Tags
      <3> QED
        BY <2>r, <3>2, <3>3
    <2>17. FaultsOnlyInSerialNew'
      BY <1>1, <2>0, <2>6 DEF FaultsOnlyInSerialNew
    <2> QED
      BY <2>9, <2>12, <2>13, <2>14, <2>15, <2>16, <2>17 DEF ItemsInv
  <1> QED
    BY <1>3, <1>4

\* Reading the old value: an item that is assigning caches what it reads.
LEMMA ReadOldValueInv ==
  ASSUME ItemsInv, NEW p \in Procs, ReadOldValue(p)
  PROVE  ItemsInv'
  <1> DEFINE f == p[1]
             e == Expr(p)
             tag == e.tag
             text == StringOf(p, tag)
             number == NumberOf(p, tag)
             known == /\ NumberAssign(p) /\ tag \notin plain[p]
                      /\ Readable(p, tag, numbers) /\ number # NaN
  <1>0. TypeInv /\ LayersInv /\ OrderInv /\ ParsedInv /\ RowsInv /\ SeesInv
        /\ CachesInv /\ MisreadInv /\ ColumnsForAssignments /\ FaultsOnlyInSerialNew
    BY DEF ItemsInv
  <1>1. /\ Assigning(p) /\ ReadsOld(p)
        /\ UNCHANGED <<mode, prog, layer, begun, parsed, types, at, row, plain, view, misread>>
        /\ pc' = [pc EXCEPT ![p] = "add"]
    BY DEF ReadOldValue
  <1>2. IF ~Readable(p, tag, strings)
        THEN status' = "failed" /\ UNCHANGED <<strings, numbers, old>>
        ELSE /\ CacheString(p, tag, text)
             /\ IF known THEN CacheNumber(p, tag, number) ELSE UNCHANGED numbers
             /\ old' = [old EXCEPT ![p] =
                          IF known THEN [num |-> number, len |-> 1]
                                   ELSE [num |-> NaN, len |-> text.len]]
             /\ status' = IF NumberAssign(p) /\ ~known THEN "failed" ELSE status
    BY DEF ReadOldValue
  <1>3. /\ f \in Files /\ at[p] \in 1..Len(prog[f]) /\ e = prog[f][at[p]] /\ e.op = "+="
        /\ pc[p] = "assign" /\ status = "running" /\ tag \in Names
    <2>1. /\ f \in Files /\ at[p] \in Nat \ {0} /\ Len(prog[f]) \in Nat
      BY <1>0, ProcFacts, ExprFacts DEF TypeInv
    <2>2. at[p] <= Len(prog[f]) /\ e = prog[f][at[p]] /\ e.op = "+=" /\ pc[p] = "assign"
          /\ status = "running"
      BY <1>1 DEF Assigning, ReadsOld, Expr
    <2>3. at[p] \in 1..Len(prog[f])
      BY <2>1, <2>2
    <2> HIDE DEF f
    <2> QED
      BY <1>0, <2>1, <2>2, <2>3, ExprFacts DEF TypeInv
  <1>4. UNCHANGED strings \/ ReadString(p, tag)
    BY <1>2 DEF ReadString, CacheString, Extended
  <1>5. UNCHANGED numbers \/ ReadNumber(p, tag)
    BY <1>2 DEF ReadNumber, CacheNumber, Extended
  <1>6. /\ old' = [old EXCEPT ![p] = old'[p]] /\ old'[p] \in Values
        /\ status' \in {"running", "failed"}
        /\ status' = "running" /\ NumberAssign(p) => old'[p].num # NaN
    <2>1. old \in [Procs -> Values]
      BY <1>0 DEF TypeInv
    <2>2. CASE ~Readable(p, tag, strings)
      BY <1>2, <2>1, <2>2
    <2>3. CASE Readable(p, tag, strings) /\ known
      <3>1. number \in Nat
        <4>1. number \in Nat \cup {-1} /\ number # NaN
          BY <1>0, <2>3, ReadFacts
        <4> QED
          BY <4>1 DEF NaN
      <3> DEFINE v == [num |-> number, len |-> 1]
      <3>2. v \in Values /\ v.num # NaN
        <4> HIDE DEF number
        <4> QED
          BY <3>1, MadeValue DEF NaN
      <3>3. old' = [old EXCEPT ![p] = v] /\ status' = status
        BY <1>2, <2>3
      <3> HIDE DEF v, known
      <3> QED
        BY <1>3, <2>1, <3>2, <3>3
    <2>4. CASE Readable(p, tag, strings) /\ ~known
      <3>1. text \in Values
        BY <1>0, <2>4, ReadFacts
      <3> DEFINE v == [num |-> NaN, len |-> text.len]
      <3>2. v \in Values
        <4> HIDE DEF text
        <4> QED
          BY <3>1, ValueFacts, MadeValue DEF NaN
      <3>3. /\ old' = [old EXCEPT ![p] = v]
            /\ status' = IF NumberAssign(p) THEN "failed" ELSE status
        BY <1>2, <2>4
      <3> HIDE DEF v, known
      <3> QED
        BY <1>3, <2>1, <3>2, <3>3
    <2> QED
      BY <2>2, <2>3, <2>4
  <1> HIDE DEF e, text, number, known
  <1>7. pc \in [Procs -> Steps] /\ pc' \in [Procs -> Steps] /\ pc'[p] = "add"
        /\ old' \in [Procs -> Values]
        /\ \A q \in Procs : q # p => pc'[q] = pc[q] /\ old'[q] = old[q]
    <2>1. pc \in [Procs -> Steps] /\ old \in [Procs -> Values]
      BY <1>0 DEF TypeInv
    <2>2. "add" \in Steps
      BY DEF Steps
    <2> DEFINE v == old'[p]
    <2>3. old' = [old EXCEPT ![p] = v] /\ v \in Values
      BY <1>6
    <2> HIDE DEF v
    <2> QED
      BY <1>1, <2>1, <2>2, <2>3
  <1>8. CachesTyped' /\ CachesInv'
    <2>1. \A q \in Procs : pc'[q] = "condition" => pc[q] = "condition"
      BY <1>7
    <2> HIDE DEF tag
    <2> QED
      BY <1>0, <1>1, <1>3, <1>4, <1>5, <2>1, ReadsKept
  <1>9. TypeInv'
    BY <1>0, <1>1, <1>7, <1>8, TypeKept DEF TypeInv
  <1>10. LayersInv' /\ ParsedInv' /\ ColumnsForAssignments' /\ SeesInv'
    BY <1>0, <1>1, SameLayers, SameRows
  <1>11. OrderInv'
    <2>1. AllParsed(f)
      BY <1>0, <1>3, Past
    <2> QED
      BY <1>0, <1>1, <1>3, <1>7, <2>1, OrderKept
  <1>12. RowsInv'
    <2>1. ItemInv(p)'
      <3>1. /\ AtAssignment(p)' <=> AtAssignment(p)
            /\ NumberAssign(p)' <=> NumberAssign(p)
            /\ Expr(p)' = Expr(p) /\ Target(f)' = Target(f) /\ (IsNew(f)' <=> IsNew(f))
        BY <1>1, SameModes DEF AtAssignment, NumberAssign, Left, Expr
      <3>2. AtAssignment(p)
        BY <1>3 DEF AtAssignment, e
      <3>3. ItemInv(p)
        BY <1>0 DEF RowsInv
      <3> QED
        BY <1>1, <1>3, <1>6, <1>7, <3>1, <3>2, <3>3 DEF ItemInv
    <2>2. ASSUME NEW q \in Procs, q # p PROVE ItemInv(q)'
      <3>1. Target(q[1]) \in Layers /\ IsLayer(layer[Target(q[1])])
        BY <1>0, ProcFacts, ModeFacts DEF TypeInv, LayersInv
      <3>2. /\ Len(layer[Target(q[1])].rows) \in Nat /\ layer' = layer /\ row[q] \in Nat
            /\ ItemInv(q)
        BY <1>0, <1>1, <3>1, LayerParts DEF TypeInv, RowsInv
      <3> QED
        BY <1>1, <1>3, <1>7, <2>2, <3>2, ItemKept
    <2>3. \A q, s \in Procs : row'[q] = row'[s] /\ row'[q] > 0
                                /\ Target(q[1])' = Target(s[1])' => q = s
      BY <1>0, <1>1, SameModes DEF RowsInv
    <2> QED
      BY <2>1, <2>2, <2>3 DEF RowsInv, Procs
  <1>13. MisreadInv'
    BY <1>0, <1>1, SameModes DEF MisreadInv, MisreadsComeFromOthers, Procs, Names, Tags
  <1>14. FaultsOnlyInSerialNew'
    BY <1>6 DEF FaultsOnlyInSerialNew
  <1> QED
    BY <1>8, <1>9, <1>10, <1>11, <1>12, <1>13, <1>14 DEF ItemsInv

-----------------------------------------------------------------------------
(* Writing a row.                                                          *)

\* A layer of which only the rows have changed.
SameColumns(l, m) ==
  /\ m.cols = l.cols /\ m.colCache = l.colCache /\ m.types = l.types /\ m.src = l.src

\* What is known of the columns does not depend on the rows.
LEMMA RowsOnly ==
  ASSUME mode \in Modes, LayersInv, ParsedInv, ColumnsForAssignments,
         UNCHANGED <<mode, prog, begun, parsed, types>>,
         layer' = [k \in Layers |-> layer'[k]],
         \A k \in Layers :
           /\ SameColumns(layer[k], layer'[k]) /\ IsLayer(layer'[k])
           /\ k = 0 \/ mode = "own" =>
                DOMAIN layer'[k].rows = DOMAIN layer[k].rows /\ Full(layer'[k])
  PROVE  LayersInv' /\ ParsedInv' /\ ColumnsForAssignments'
  <1>1. \A f \in Files : Target(f) \in Layers /\ Source(f) \in Layers /\ f \in Layers
    BY ModeFacts DEF Layers
  <1>2. 0 \in Layers
    BY DEF Layers
  <1>3. LayersInv'
    <2>1. ASSUME NEW k \in Layers
          PROVE  /\ IsLayer(layer'[k])
                 /\ k = 0 \/ mode = "own" => IsInput(layer'[k])
                 /\ k # 0 /\ mode \in {"shared", "serialNew"} => layer'[k].src = 0
                 /\ ~Parallel => DOMAIN layer'[k].types \subseteq DOMAIN layer'[k].colCache
      <3>1. /\ k = 0 \/ mode = "own" => IsInput(layer[k])
            /\ k # 0 /\ mode \in {"shared", "serialNew"} => layer[k].src = 0
            /\ ~Parallel => DOMAIN layer[k].types \subseteq DOMAIN layer[k].colCache
        BY DEF LayersInv
      <3> QED
        BY <3>1 DEF SameColumns, IsInput
    <2>2. ASSUME NEW f \in Files, IsNew(f) /\ Begun(f)
          PROVE  IsOutput(layer'[Target(f)], layer'[0])
      <3>1. IsOutput(layer[Target(f)], layer[0])
        BY <2>2 DEF LayersInv
      <3>2. SameColumns(layer[Target(f)], layer'[Target(f)]) /\ SameColumns(layer[0], layer'[0])
        BY <1>1, <1>2
      <3> DEFINE l == layer[Target(f)]
                 m == layer'[Target(f)]
                 i == layer[0]
                 j == layer'[0]
      <3> HIDE DEF l, m, i, j
      <3>3. IsOutput(l, i) /\ SameColumns(l, m) /\ SameColumns(i, j)
        BY <3>1, <3>2 DEF l, m, i, j
      <3>4. IsOutput(m, j)
        BY <3>3 DEF IsOutput, SameColumns
      <3> QED
        BY <3>4 DEF m, j
    <2>3. \A k \in Layers : (IsLayer(layer[k]))' /\ (IsInput(layer[k])' <=> IsInput(layer'[k]))
      BY <2>1 DEF IsLayer, IsInput, Full, Items, Values, Names, Tags, Kinds, IsRecord, IsMap,
                  Distinct, Located
    <2>4. \A f \in Files : IsOutput(layer[Target(f)], layer[0])' <=>
                             IsOutput(layer'[Target(f)], layer'[0])
      BY SameModes DEF IsOutput
    <2> QED
      BY <2>1, <2>2, <2>3, <2>4, SameModes DEF LayersInv, Layers, Begun
  <1>4. \A f \in Files : TypesHaveColumns(f)'
    <2>1. \A f \in Files : TypesHaveColumns(f)
      BY DEF ParsedInv
    <2> QED
      BY <1>1, <2>1, SameModes DEF TypesHaveColumns, SameColumns, Asked, Asks, HasTag
  <1>5. ParsedInv'
    BY <1>1, <1>4, SameModes DEF ParsedInv, SameColumns
  <1>6. ColumnsForAssignments'
    BY <1>1, SameModes DEF ColumnsForAssignments, Ran, AskedBefore, SameColumns
  <1> QED
    BY <1>3, <1>5, <1>6

\* One layer has changed.
LEMMA OneLayer ==
  ASSUME layer = [k \in Layers |-> layer[k]], NEW a \in Layers, NEW m,
         layer' = [layer EXCEPT ![a] = m]
  PROVE  /\ layer' = [k \in Layers |-> layer'[k]]
         /\ layer'[a] = m /\ \A k \in Layers : k # a => layer'[k] = layer[k]
  OBVIOUS

\* A row for an item: whatever the item sees in its source row is in it.
LEMMA AddRowInv ==
  ASSUME ItemsInv, NEW p \in Procs, Assigning(p), IsNew(p[1]),
         row[p] = 0 \/ Expr(p).op = "<Empty>", AddRow(p),
         at' = IF Expr(p).op = "<Empty>" THEN [at EXCEPT ![p] = @ + 1] ELSE at,
         UNCHANGED <<mode, prog, begun, parsed, types, status, strings, numbers, pc,
                     old, view, misread>>
  PROVE  ItemsInv'
  <1> DEFINE f == p[1]
             i == p[2]
             a == Target(f)
             l == layer[a]
             input == layer[0]
             n == Len(l.rows)
             m == AddedRow(f, i)
  <1>0. TypeInv /\ LayersInv /\ OrderInv /\ ParsedInv /\ RowsInv /\ SeesInv
        /\ CachesInv /\ MisreadInv /\ ColumnsForAssignments /\ FaultsOnlyInSerialNew
    BY DEF ItemsInv
  <1>1. /\ f \in Files /\ i \in Items /\ at[p] \in 1..Len(prog[f]) /\ Expr(p) = prog[f][at[p]]
        /\ Expr(p).assign /\ pc[p] \in {"assign", "add"} /\ status = "running"
        /\ Len(prog[f]) \in Nat /\ at[p] \in Nat \ {0}
    <2>1. /\ f \in Files /\ i \in Items /\ at[p] \in Nat \ {0} /\ Len(prog[f]) \in Nat
      BY <1>0, ProcFacts, ExprFacts DEF TypeInv
    <2>2. /\ at[p] <= Len(prog[f]) /\ Expr(p) = prog[f][at[p]] /\ Expr(p).assign
          /\ pc[p] \in {"assign", "add"} /\ status = "running"
      BY DEF Assigning, Expr
    <2>3. at[p] \in 1..Len(prog[f])
      BY <2>1, <2>2
    <2> QED
      BY <2>1, <2>2, <2>3
  <1>2. Expr(p).op \in {"=", "+=", "<Empty>"}
    BY <1>0, <1>1, ExprFacts DEF TypeInv
  <1>3. /\ a \in Layers /\ a # 0 /\ 0 \in Layers /\ Source(f) = 0
        /\ mode \in {"shared", "serialNew"} /\ \A g \in Files : IsNew(g) /\ Source(g) = 0
    BY <1>0, <1>1, ModeFacts DEF TypeInv, Layers, IsNew, Source
  <1>4. AllParsed(f) /\ Current(f) /\ Begun(f)
    <2>1. AllParsed(f) /\ Current(f)
      BY <1>0, <1>1, Past, AtWork
    <2> QED
      BY <2>1 DEF Current
  <1>5. IsLayer(l) /\ IsLayer(input) /\ IsOutput(l, input)
    BY <1>0, <1>1, <1>3, <1>4 DEF LayersInv
  <1>6. i \in DOMAIN input.rows /\ Len(input.rows[i]) = Len(input.cols)
    BY <1>0, <1>1, <1>3, SourceFacts
  <1>7. layer' = [layer EXCEPT ![a] = m] /\ row' = [row EXCEPT ![p] = n + 1]
    BY DEF AddRow
  <1>8. m = WithRow(l, input.rows[i])
    BY <1>3 DEF AddedRow, WithRow
  <1>9. /\ IsLayer(m) /\ m.cols = l.cols /\ m.colCache = l.colCache
        /\ m.types = l.types /\ m.src = l.src
        /\ Len(m.rows) = n + 1
        /\ \A q \in DOMAIN l.rows : q \in DOMAIN m.rows /\ m.rows[q] = l.rows[q]
        /\ Len(m.rows[n + 1]) = Len(l.cols)
        /\ Shows(input, input.rows[i], view[p]) => Shows(m, m.rows[n + 1], view[p])
    <2> DEFINE y == m
    <2>1. y = WithRow(l, input.rows[i])
      BY <1>8
    <2>2. /\ IsLayer(l) /\ IsLayer(input) /\ IsOutput(l, input)
          /\ i \in DOMAIN input.rows /\ Len(input.rows[i]) = Len(input.cols)
      BY <1>5, <1>6
    <2> DEFINE j == NextRow(l)
    <2>3. j = n + 1
      BY DEF NextRow
    <2> HIDE DEF f, i, a, l, input, n, y
    <2>4. /\ IsLayer(y) /\ y.cols = l.cols /\ y.colCache = l.colCache
          /\ y.types = l.types /\ y.src = l.src /\ Len(y.rows) = j
          /\ \A q \in DOMAIN l.rows : q \in DOMAIN y.rows /\ y.rows[q] = l.rows[q]
          /\ Len(y.rows[j]) = Len(l.cols)
          /\ ShowsToo(input, input.rows[i], y, y.rows[j])
      BY <2>1, <2>2, AddedRowFacts
    <2> QED
      BY <2>3, <2>4 DEF f, i, a, l, y, input, ShowsToo
  <1>10. n \in Nat /\ DOMAIN l.rows = 1..n /\ row \in [Procs -> Nat]
    BY <1>0, <1>5, LayerParts DEF TypeInv
  <1> HIDE DEF m, n
  <1>11. /\ layer' = [k \in Layers |-> layer'[k]]
         /\ layer'[a] = m /\ \A k \in Layers : k # a => layer'[k] = layer[k]
    <2>1. layer = [k \in Layers |-> layer[k]]
      BY <1>0 DEF LayersInv
    <2> QED
      BY <1>3, <1>7, <2>1, OneLayer
  <1>12. /\ row' \in [Procs -> Nat] /\ row'[p] = n + 1
         /\ \A q \in Procs : q # p => row'[q] = row[q]
    BY <1>7, <1>10
  <1>13. LayersInv' /\ ParsedInv' /\ ColumnsForAssignments'
    <2>1. ASSUME NEW k \in Layers
          PROVE  /\ SameColumns(layer[k], layer'[k]) /\ IsLayer(layer'[k])
                 /\ k = 0 \/ mode = "own" =>
                      DOMAIN layer'[k].rows = DOMAIN layer[k].rows /\ Full(layer'[k])
      <3>1. CASE k = a
        BY <1>3, <1>9, <1>11, <3>1 DEF SameColumns
      <3>2. CASE k # a
        <4>1. IsLayer(layer[k]) /\ (k = 0 \/ mode = "own" => Full(layer[k]))
          BY <1>0 DEF LayersInv, IsInput
        <4> QED
          BY <1>11, <3>2, <4>1 DEF SameColumns
      <3> QED
        BY <3>1, <3>2
    <2> QED
      BY <1>0, <1>11, <2>1, RowsOnly DEF TypeInv
  <1>14. /\ \A q \in Procs : q # p => at'[q] = at[q]
         /\ at' \in [Procs -> Nat \ {0}]
         /\ Expr(p).op = "<Empty>" => at'[p] = at[p] + 1
         /\ Expr(p).op # "<Empty>" => at' = at
    <2>1. at \in [Procs -> Nat \ {0}] /\ at[p] + 1 \in Nat \ {0}
      BY <1>0 DEF TypeInv
    <2> HIDE DEF f, a, l, input
    <2>2. CASE Expr(p).op = "<Empty>"
      BY <2>1, <2>2
    <2>3. CASE Expr(p).op # "<Empty>"
      BY <2>1, <2>3
    <2> QED
      BY <2>2, <2>3
  <1>15. TypeInv'
    <2>1. CachesTyped'
      BY <1>0 DEF TypeInv, CachesTyped, IsCache
    <2> QED
      BY <1>0, <1>12, <1>14, <2>1, TypeKept DEF TypeInv
  <1>16. OrderInv'
    <2>1. mode = "shared" => \A g \in Files : g # f => layer'[g].rows = layer[g].rows
      <3>1. mode = "shared" => a = f
        BY <1>0, <1>1, ModeFacts DEF TypeInv
      <3>2. \A g \in Files : g \in Layers
        BY DEF Layers
      <3> QED
        BY <1>11, <3>1, <3>2
    <2> QED
      BY <1>0, <1>1, <1>4, <2>1, OrderKept
  <1>17. RowsInv'
    <2>1. ItemInv(p)'
      <3>1. ItemInv(p)
        BY <1>0 DEF RowsInv
      <3>2. Target(f)' = a /\ IsNew(f)'
        BY SameModes
      <3>3. layer'[a] = m /\ Len(m.rows) = n + 1 /\ row'[p] = n + 1 /\ n \in Nat
        BY <1>9, <1>10, <1>11, <1>12
      <3>4. CASE Expr(p).op # "<Empty>"
        <4>1. at' = at
          BY <1>14, <3>4
        <4>2. /\ AtAssignment(p)' /\ (NumberAssign(p)' <=> NumberAssign(p))
              /\ Expr(p)' = Expr(p)
          <5>1. at[p] <= Len(prog[f])
            BY <1>1
          <5> QED
            BY <1>2, <3>4, <4>1, <5>1 DEF AtAssignment, NumberAssign, Left, Expr
        <4>3. UNCHANGED <<pc, old, view>> /\ row'[p] <= Len(layer'[a].rows)
          BY <1>1, <3>3
        <4> HIDE DEF a, m, n
        <4> QED
          BY <1>1, <3>1, <3>2, <4>2, <4>3 DEF ItemInv
      <3>5. CASE Expr(p).op = "<Empty>"
        <4>1. ~AtAssignment(p)
          BY <3>5 DEF AtAssignment
        <4>2. pc[p] = "assign" /\ pc'[p] = "assign"
          BY <1>1, <3>1, <4>1 DEF ItemInv
        <4>3. at'[p] >= 2 /\ at'[p] - 1 <= Len(prog[f]) /\ at'[p] - 1 = at[p]
          <5>1. at'[p] = at[p] + 1
            BY <1>14, <3>5
          <5> HIDE DEF f
          <5> QED
            BY <1>1, <5>1
        <4>4. AfterAssignment(p)'
          BY <1>1, <4>3 DEF AfterAssignment
        <4> QED
          BY <3>2, <3>3, <4>2, <4>4 DEF ItemInv
      <3> QED
        BY <3>4, <3>5
    <2>2. ASSUME NEW q \in Procs, q # p PROVE ItemInv(q)'
      <3> DEFINE b == Target(q[1])
      <3>1. b \in Layers /\ IsLayer(layer[b])
        BY <1>0, ProcFacts, ModeFacts DEF TypeInv, LayersInv
      <3>2. Len(layer[b].rows) \in Nat /\ row[q] \in Nat /\ ItemInv(q)
        BY <1>0, <3>1, LayerParts DEF TypeInv, RowsInv
      <3>3. Len(layer'[b].rows) \in Nat /\ Len(layer[b].rows) <= Len(layer'[b].rows)
        <4>1. CASE b = a
          BY <1>9, <1>10, <1>11, <4>1 DEF n
        <4>2. CASE b # a
          BY <1>11, <3>1, <3>2, <4>2
        <4> QED
          BY <4>1, <4>2
      <3> HIDE DEF b
      <3> QED
        BY <1>12, <1>14, <2>2, <3>2, <3>3, ItemKept DEF b
    <2>3. ASSUME NEW q \in Procs, NEW s \in Procs, row'[q] = row'[s], row'[q] > 0,
                 Target(q[1]) = Target(s[1])
          PROVE  q = s
      <3>1. \A u \in Procs : u # p /\ Target(u[1]) = a /\ row'[u] > 0 => row'[u] <= n
        BY <1>0, <1>12 DEF RowsInv, ItemInv, n
      <3>2. CASE q = p
        BY <1>10, <1>12, <2>3, <3>1, <3>2
      <3>3. CASE s = p
        BY <1>10, <1>12, <2>3, <3>1, <3>3
      <3>4. CASE q # p /\ s # p
        BY <1>0, <1>12, <2>3, <3>4 DEF RowsInv
      <3> QED
        BY <3>2, <3>3, <3>4
    <2> QED
      BY <2>1, <2>2, <2>3, SameModes DEF RowsInv, Procs
  <1>18. SeesInv'
    <2>1. ASSUME NEW q \in Procs, Current(q[1]) PROVE Sees(q)'
      <3>1. Sees(q) /\ q[1] \in Files /\ q[2] \in Items /\ Source(q[1]) = 0
        BY <1>0, <1>3, <2>1, ProcFacts DEF SeesInv
      <3>2. layer'[0] = layer[0]
        BY <1>3, <1>11
      <3>s. Source(q[1])' = 0 /\ Target(q[1])' = Target(q[1])
            /\ (LateEmpty(q[1])' <=> LateEmpty(q[1]))
        BY <3>1, SameModes
      <3>3. CASE q = p
        <4>1. row'[p] = n + 1 /\ n \in Nat
          BY <1>10, <1>12
        <4>2. ASSUME ~LateEmpty(f)
              PROVE  /\ Len(m.rows[n + 1]) = Len(m.cols)
                     /\ Shows(m, m.rows[n + 1], view[p])
          <5>1. row[p] = 0
            <6>1. SUFFICES ASSUME row[p] # 0 PROVE FALSE
              OBVIOUS
            <6>2. row[p] > 0 /\ Expr(p).op = "<Empty>"
              BY <1>10, <6>1
            <6>3. AfterAssignment(p)
              BY <1>0, <1>1, <6>2 DEF RowsInv, ItemInv, AtAssignment
            <6>4. at[p] \in 2..Len(prog[f]) /\ prog[f][at[p] - 1].assign
                  /\ prog[f][at[p]].op = "<Empty>"
              BY <1>1, <6>2, <6>3 DEF AfterAssignment
            <6> QED
              BY <4>2, <6>4 DEF LateEmpty
          <5>2. Shows(input, input.rows[i], view[p])
            BY <3>1, <3>3, <5>1 DEF Sees
          <5> QED
            BY <1>9, <5>2
        <4> QED
          BY <1>11, <3>s, <3>3, <4>1, <4>2 DEF Sees
      <3>4. CASE q # p /\ row[q] = 0
        BY <1>12, <3>1, <3>2, <3>s, <3>4 DEF Sees
      <3>5. CASE q # p /\ row[q] # 0
        <4> DEFINE b == Target(q[1])
        <4>1. row'[q] = row[q] /\ row[q] # 0 /\ row[q] > 0
          BY <1>10, <1>12, <3>5
        <4>2. row[q] <= Len(layer[b].rows) /\ b \in Layers
          BY <1>0, <3>1, <4>1, ModeFacts DEF RowsInv, ItemInv, TypeInv
        <4>3. layer'[b].cols = layer[b].cols /\ layer'[b].rows[row[q]] = layer[b].rows[row[q]]
          <5>1. CASE b = a
            <6>1. row[q] \in DOMAIN l.rows
              BY <1>10, <4>1, <4>2, <5>1 DEF n
            <6> QED
              BY <1>9, <1>11, <5>1, <6>1
          <5>2. CASE b # a
            BY <1>11, <4>2, <5>2
          <5> QED
            BY <5>1, <5>2
        <4>4. ~LateEmpty(q[1]) => /\ Len(layer[b].rows[row[q]]) = Len(layer[b].cols)
                                  /\ Shows(layer[b], layer[b].rows[row[q]], view[q])
          BY <3>1, <4>1 DEF Sees
        <4>5. ~LateEmpty(q[1]) => /\ Len(layer'[b].rows[row[q]]) = Len(layer'[b].cols)
                                  /\ Shows(layer'[b], layer'[b].rows[row[q]], view[q])
          BY <4>3, <4>4 DEF Shows
        <4> HIDE DEF b
        <4> QED
          BY <3>s, <4>1, <4>5 DEF Sees, b
      <3> QED
        BY <3>3, <3>4, <3>5
    <2> QED
      BY <2>1, SameModes DEF SeesInv, Procs, Current, Begun, Ran
  <1>19. CachesInv'
    <2>1. ASSUME NEW q \in Procs, pc[q] = "condition" PROVE Cached(q)'
      <3>1. Cached(q) /\ Source(q[1]) = 0 /\ Source(q[1])' = 0 /\ layer'[0] = layer[0]
        BY <1>0, <1>3, <1>11, <2>1, ProcFacts, SameModes DEF CachesInv
      <3> QED
        BY <3>1, SameModes DEF Cached, Cell
    <2> QED
      BY <2>1 DEF CachesInv, Procs
  <1>20. MisreadInv' /\ FaultsOnlyInSerialNew'
    BY <1>0, SameModes DEF MisreadInv, MisreadsComeFromOthers, Procs, Names, Tags,
                           FaultsOnlyInSerialNew
  <1> QED
    BY <1>13, <1>15, <1>16, <1>17, <1>18, <1>19, <1>20 DEF ItemsInv

LEMMA AddNewItemInv ==
  ASSUME ItemsInv, NEW p \in Procs, AddNewItem(p)
  PROVE  ItemsInv'
  <1>1. /\ Assigning(p) /\ IsNew(p[1]) /\ row[p] = 0 /\ AddRow(p) /\ at' = at
        /\ Expr(p).op # "<Empty>"
        /\ UNCHANGED <<mode, prog, begun, parsed, types, status, strings, numbers, pc,
                       old, view, misread>>
    BY DEF AddNewItem
  <1>2. at' = IF Expr(p).op = "<Empty>" THEN [at EXCEPT ![p] = @ + 1] ELSE at
    BY <1>1
  <1> QED
    BY <1>1, <1>2, AddRowInv

LEMMA AssignEmptyInv ==
  ASSUME ItemsInv, NEW p \in Procs, AssignEmpty(p)
  PROVE  ItemsInv'
  <1>1. /\ Assigning(p) /\ Expr(p).op = "<Empty>"
        /\ at' = [at EXCEPT ![p] = @ + 1]
        /\ UNCHANGED <<mode, prog, begun, parsed, types, status, strings, numbers, pc,
                       old, view, misread>>
    BY DEF AssignEmpty
  <1>2. CASE IsNew(p[1])
    <2>1. AddRow(p)
      BY <1>2 DEF AssignEmpty
    <2>2. at' = IF Expr(p).op = "<Empty>" THEN [at EXCEPT ![p] = @ + 1] ELSE at
      BY <1>1
    <2> QED
      BY <1>1, <1>2, <2>1, <2>2, AddRowInv
  <1>3. CASE ~IsNew(p[1])
    <2>0. TypeInv /\ LayersInv /\ OrderInv /\ ParsedInv /\ RowsInv /\ SeesInv
          /\ CachesInv /\ MisreadInv /\ ColumnsForAssignments /\ FaultsOnlyInSerialNew
      BY DEF ItemsInv
    <2>1. UNCHANGED <<layer, row>>
      BY <1>3 DEF AssignEmpty
    <2>2. /\ at' \in [Procs -> Nat \ {0}] /\ \A q \in Procs : q # p => at'[q] = at[q]
      <3>1. at \in [Procs -> Nat \ {0}] /\ at[p] + 1 \in Nat \ {0}
        BY <2>0 DEF TypeInv
      <3> QED
        BY <1>1, <3>1
    <2>3. pc[p] \in {"assign", "add"} /\ ItemInv(p) /\ row[p] = 0
      BY <1>1, <1>3, <2>0 DEF Assigning, RowsInv, ItemInv, TypeInv
    <2>4. pc[p] = "assign"
      BY <1>1, <2>3 DEF ItemInv, AtAssignment
    <2>5. TypeInv'
      <3>1. CachesTyped'
        BY <1>1, <2>0 DEF TypeInv, CachesTyped, IsCache
      <3> QED
        BY <1>1, <2>0, <2>1, <2>2, <3>1, TypeKept DEF TypeInv
    <2>6. LayersInv' /\ ParsedInv' /\ ColumnsForAssignments' /\ SeesInv'
      BY <1>1, <2>0, <2>1, SameLayers, SameRows
    <2>7. OrderInv'
      BY <1>1, <2>0, <2>1, SameModes DEF OrderInv, Begun, AllParsed
    <2>8. RowsInv'
      <3>1. ItemInv(p)'
        BY <1>1, <2>1, <2>3, <2>4 DEF ItemInv
      <3>2. ASSUME NEW q \in Procs, q # p PROVE ItemInv(q)'
        <4>1. Target(q[1]) \in Layers /\ IsLayer(layer[Target(q[1])])
          BY <2>0, ProcFacts, ModeFacts DEF TypeInv, LayersInv
        <4>2. /\ Len(layer[Target(q[1])].rows) \in Nat /\ layer' = layer /\ row[q] \in Nat
              /\ ItemInv(q)
          BY <2>0, <2>1, <4>1, LayerParts DEF TypeInv, RowsInv
        <4> QED
          BY <1>1, <2>1, <2>2, <3>2, <4>2, ItemKept
      <3>3. \A q, s \in Procs : row'[q] = row'[s] /\ row'[q] > 0
                                  /\ Target(q[1])' = Target(s[1])' => q = s
        BY <1>1, <2>0, <2>1, SameModes DEF RowsInv
      <3> QED
        BY <3>1, <3>2, <3>3 DEF RowsInv, Procs
    <2>9. CachesInv'
      <3>1. ASSUME NEW q \in Procs, pc[q] = "condition" PROVE Cached(q)'
        <4>1. Cached(q)
          BY <2>0, <3>1 DEF CachesInv
        <4> QED
          BY <1>1, <2>1, <4>1, SameCaches
      <3> QED
        BY <1>1, <3>1 DEF CachesInv, Procs
    <2>10. MisreadInv' /\ FaultsOnlyInSerialNew'
      BY <1>1, <2>0, SameModes DEF MisreadInv, MisreadsComeFromOthers, Procs, Names, Tags,
                                   FaultsOnlyInSerialNew
    <2> QED
      BY <2>5, <2>6, <2>7, <2>8, <2>9, <2>10 DEF ItemsInv
  <1> QED
    BY <1>2, <1>3

\* In serial mode there is one file at work.
LEMMA OneCurrent ==
  ASSUME TypeInv, ~Parallel, NEW f \in Files, NEW g \in Files, Current(f), Current(g)
  PROVE  f = g
  <1>1. mode \in {"serial", "serialNew"} /\ f \in Nat /\ g \in Nat
    BY ModeFacts DEF TypeInv, Parallel
  <1>2. ~(f < g) /\ ~(g < f)
    BY <1>1 DEF Current, Begun, Ran
  <1> QED
    BY <1>1, <1>2

CellStep(p, tag, val) ==
  /\ layer' = [layer EXCEPT ![Target(p[1])] = SetCell(@, TargetRow(p), tag, val)]
  /\ view' = [view EXCEPT ![p][tag] = val]
CellKept(p, tag, val) ==
  /\ view' = [q \in Procs |-> view'[q]]
  /\ \A q \in Procs : IsMap(view'[q], Values) /\ DOMAIN view'[q] = DOMAIN view[q]
  /\ view'[p][tag] = val /\ \A q \in Procs : q # p => view'[q] = view[q]
  /\ \A k \in Layers : /\ Len(layer'[k].rows) = Len(layer[k].rows)
                       /\ layer'[k].colCache = layer[k].colCache
  /\ \A f \in Files : f # Target(p[1]) => layer'[f].rows = layer[f].rows
  /\ IsNew(p[1]) => layer'[0] = layer[0]
  /\ ~IsNew(p[1]) =>
       /\ \A k \in Layers, i \in Items : k # Source(p[1]) \/ i # p[2] =>
            layer'[k].rows[i] = layer[k].rows[i]
       /\ \A t \in DOMAIN layer[Source(p[1])].colCache : t # tag =>
            Cell(Source(p[1]), p[2], t)' = Cell(Source(p[1]), p[2], t)
       /\ Cell(Source(p[1]), p[2], tag)' = val

\* A value for a tag in the row of an item: the items at work see it there, and
\* the others see what they saw.
LEMMA CellWritten ==
  ASSUME TypeInv, LayersInv, OrderInv, ParsedInv, RowsInv, SeesInv, ColumnsForAssignments,
         NEW p \in Procs, Current(p[1]),
         IsNew(p[1]) => row[p] > 0,
         NEW tag \in DOMAIN layer[Target(p[1])].colCache, tag \in DOMAIN view[p],
         tag \in Names, NEW val \in Values,
         UNCHANGED <<mode, prog, begun, parsed, types, row>>,
         CellStep(p, tag, val)
  PROVE  /\ LayersInv' /\ ParsedInv' /\ ColumnsForAssignments' /\ SeesInv'
         /\ CellKept(p, tag, val)
  <1> DEFINE f == p[1]
             i == p[2]
             a == Target(f)
             r == TargetRow(p)
             l == layer[a]
             m == SetCell(l, r, tag, val)
             c == l.colCache[tag]
  <1>1. f \in Files /\ i \in Items /\ a \in Layers /\ IsLayer(l) /\ f \in Layers
    BY ProcFacts, ModeFacts DEF TypeInv, LayersInv, Layers
  <1>2. r \in DOMAIN l.rows
    <2>1. CASE IsNew(f)
      <3>1. row[p] > 0 /\ row[p] <= Len(l.rows) /\ row[p] \in Nat /\ r = row[p]
        BY <2>1 DEF RowsInv, ItemInv, TypeInv, TargetRow
      <3>2. Len(l.rows) \in Nat /\ DOMAIN l.rows = 1..Len(l.rows)
        BY <1>1, LayerParts
      <3> HIDE DEF l, r
      <3> QED
        BY <3>1, <3>2
    <2>2. CASE ~IsNew(f)
      BY <1>1, <2>2, SourceFacts, ModeFacts DEF TypeInv, TargetRow
    <2> QED
      BY <2>1, <2>2
  <1>3. layer' = [layer EXCEPT ![a] = m] /\ view' = [view EXCEPT ![p][tag] = val]
    BY DEF CellStep
  <1>4. /\ layer' = [k \in Layers |-> layer'[k]]
        /\ layer'[a] = m /\ \A k \in Layers : k # a => layer'[k] = layer[k]
    <2>1. layer = [k \in Layers |-> layer[k]]
      BY DEF LayersInv
    <2> HIDE DEF m, a
    <2> QED
      BY <1>1, <1>3, <2>1, OneLayer
  <1>5. /\ IsLayer(m) /\ m.cols = l.cols /\ m.colCache = l.colCache
        /\ m.types = l.types /\ m.src = l.src
        /\ DOMAIN m.rows = DOMAIN l.rows /\ Len(m.rows) = Len(l.rows)
        /\ Len(m.rows[r]) = Len(l.rows[r])
        /\ \A q \in DOMAIN l.rows : q # r => m.rows[q] = l.rows[q]
        /\ c \in DOMAIN l.rows[r] => m.rows[r][c] = val
        /\ \A d \in DOMAIN l.rows[r] : d # c => m.rows[r][d] = l.rows[r][d]
    <2> DEFINE y == m
               t == tag
    <2>1. t \in DOMAIN l.colCache /\ y = SetCell(l, r, t, val)
      OBVIOUS
    <2> HIDE DEF a, l, r
    <2> QED
      BY <1>1, <1>2, <2>1, SetCellFacts
  <1> HIDE DEF m
  <1>6. ASSUME NEW k \in Layers
        PROVE  /\ SameColumns(layer[k], layer'[k]) /\ IsLayer(layer'[k])
               /\ DOMAIN layer'[k].rows = DOMAIN layer[k].rows
               /\ Len(layer'[k].rows) = Len(layer[k].rows)
               /\ \A q \in DOMAIN layer[k].rows :
                    Len(layer'[k].rows[q]) = Len(layer[k].rows[q])
    <2>1. CASE k = a
      <3>1. \A q \in DOMAIN l.rows : Len(m.rows[q]) = Len(l.rows[q])
        BY <1>5
      <3> QED
        BY <1>4, <1>5, <2>1, <3>1 DEF SameColumns
    <2>2. CASE k # a
      BY <1>4, <2>2 DEF SameColumns, LayersInv
    <2> QED
      BY <2>1, <2>2
  <1>7. LayersInv' /\ ParsedInv' /\ ColumnsForAssignments'
    <2>1. ASSUME NEW k \in Layers, k = 0 \/ mode = "own" PROVE Full(layer'[k])
      <3>1. Full(layer[k])
        BY <2>1 DEF LayersInv, IsInput
      <3> QED
        BY <1>6, <3>1 DEF Full, SameColumns
    <2> QED
      BY <1>4, <1>6, <2>1, RowsOnly DEF TypeInv
  <1>8. /\ view' = [q \in Procs |-> view'[q]]
        /\ \A q \in Procs : IsMap(view'[q], Values) /\ DOMAIN view'[q] = DOMAIN view[q]
        /\ view'[p] = [view[p] EXCEPT ![tag] = val]
        /\ view'[p][tag] = val /\ \A q \in Procs : q # p => view'[q] = view[q]
    <2> DEFINE v == [view[p] EXCEPT ![tag] = val]
    <2>1. view = [q \in Procs |-> view[q]] /\ \A q \in Procs : IsMap(view[q], Values)
      BY DEF TypeInv
    <2>2. v = [t \in DOMAIN v |-> v[t]] /\ DOMAIN v = DOMAIN view[p] /\ v[tag] = val
          /\ \A t \in DOMAIN view[p] : t # tag => v[t] = view[p][t]
      OBVIOUS
    <2>3. view' = [view EXCEPT ![p] = v]
      BY <1>3
    <2> HIDE DEF v
    <2>4. IsMap(v, Values)
      BY <2>1, <2>2 DEF IsMap
    <2>5. /\ view' = [q \in Procs |-> view'[q]] /\ view'[p] = v
          /\ \A q \in Procs : q # p => view'[q] = view[q]
      BY <2>1, <2>3
    <2>6. ASSUME NEW q \in Procs
          PROVE  IsMap(view'[q], Values) /\ DOMAIN view'[q] = DOMAIN view[q]
      <3>1. CASE q = p
        BY <2>2, <2>4, <2>5, <3>1
      <3>2. CASE q # p
        BY <2>1, <2>5, <3>2
      <3> QED
        BY <3>1, <3>2
    <2> QED
      BY <2>2, <2>5, <2>6 DEF v
  <1>9. IsNew(f) => a # 0 /\ layer'[0] = layer[0]
    BY <1>1, <1>4, ModeFacts DEF TypeInv, Layers
  <1>10. ~IsNew(f) =>
           /\ a = Source(f) /\ r = i
           /\ \A k \in Layers, j \in Items : k # Source(f) \/ j # i =>
                layer'[k].rows[j] = layer[k].rows[j]
           /\ \A t \in DOMAIN l.colCache : t # tag => Cell(a, i, t)' = Cell(a, i, t)
           /\ Cell(a, i, tag)' = val
    <2> SUFFICES ASSUME ~IsNew(f)
                 PROVE  /\ a = Source(f) /\ r = i
                        /\ \A k \in Layers, j \in Items : k # Source(f) \/ j # i =>
                             layer'[k].rows[j] = layer[k].rows[j]
                        /\ \A t \in DOMAIN l.colCache : t # tag => Cell(a, i, t)' = Cell(a, i, t)
                        /\ Cell(a, i, tag)' = val
      OBVIOUS
    <2>1. a = Source(f) /\ r = i /\ a' = a
      BY <1>1, ModeFacts, SameModes DEF TypeInv, TargetRow
    <2>2. DOMAIN l.rows = Items /\ DOMAIN l.rows[i] = 1..Len(l.cols)
          /\ \A t \in DOMAIN l.colCache :
               l.colCache[t] \in 1..Len(l.cols) /\ l.cols[l.colCache[t]] = t
      BY <1>1, <2>1, SourceFacts
    <2>3. ASSUME NEW k \in Layers, NEW j \in Items, k # a \/ j # i
          PROVE  layer'[k].rows[j] = layer[k].rows[j]
      <3>1. CASE k # a
        BY <1>4, <3>1
      <3>2. CASE k = a
        BY <1>4, <1>5, <2>1, <2>2, <2>3, <3>2
      <3> QED
        BY <3>1, <3>2
    <2>4. ASSUME NEW t \in DOMAIN l.colCache, t # tag PROVE Cell(a, i, t)' = Cell(a, i, t)
      <3>1. l.colCache[t] # c /\ l.colCache[t] \in DOMAIN l.rows[r]
        BY <2>1, <2>2, <2>4
      <3>2. m.colCache[t] = l.colCache[t] /\ m.rows[r][l.colCache[t]] = l.rows[r][l.colCache[t]]
        BY <1>5, <2>1, <2>2, <3>1
      <3>3. layer'[a].rows[i][layer'[a].colCache[t]] = layer[a].rows[i][layer[a].colCache[t]]
        BY <1>4, <2>1, <3>2
      <3> HIDE DEF a, r, l, c, m
      <3> QED
        BY <2>1, <3>3 DEF Cell
    <2>5. Cell(a, i, tag)' = val
      <3>1. c \in DOMAIN l.rows[r]
        BY <2>1, <2>2
      <3> QED
        BY <1>4, <1>5, <2>1, <3>1 DEF Cell
    <2> QED
      BY <2>1, <2>3, <2>4, <2>5
  <1>11. SeesInv'
    <2>1. ASSUME NEW q \in Procs, Current(q[1]) PROVE Sees(q)'
      <3> DEFINE b == Source(q[1])
                 d == Target(q[1])
      <3>1. Sees(q) /\ q[1] \in Files /\ q[2] \in Items /\ b \in Layers /\ d \in Layers
        BY <2>1, ProcFacts, ModeFacts DEF SeesInv, TypeInv
      <3>2. /\ Source(q[1])' = b /\ Target(q[1])' = d
            /\ (LateEmpty(q[1])' <=> LateEmpty(q[1])) /\ row'[q] = row[q]
        BY SameModes
      <3>3. CASE q = p
        <4>1. CASE row[p] = 0
          <5>1. ~IsNew(f) /\ a = b /\ r = q[2]
            BY <1>10, <3>3, <4>1
          <5>2. Shows(l, l.rows[r], view[p]) /\ Len(l.rows[r]) = Len(l.cols)
            BY <1>1, <3>1, <3>3, <4>1, <5>1, SourceFacts DEF Sees
          <5>3. Shows(m, m.rows[r], view'[p])
            <6> DEFINE y == m
                       v == view[p]
            <6>1. y = SetCell(l, r, tag, val) /\ tag \in DOMAIN l.colCache
                  /\ Shows(l, l.rows[r], v) /\ tag \in DOMAIN v
              BY <5>2 DEF m
            <6> HIDE DEF y, v, l, r
            <6>2. Shows(y, y.rows[r], [v EXCEPT ![tag] = val])
              BY <1>1, <1>2, <5>2, <6>1, SetCellShows DEF l
            <6> QED
              BY <1>8, <6>2 DEF y, v
          <5> QED
            BY <1>4, <3>2, <3>3, <4>1, <5>1, <5>3 DEF Sees
        <4>2. CASE row[p] # 0
          <5>1. row[p] > 0
            BY <4>2 DEF TypeInv
          <5>2. IsNew(f) /\ r = row[p]
            BY <5>1 DEF RowsInv, ItemInv, TargetRow
          <5>3. ASSUME ~LateEmpty(f)
                PROVE  Len(m.rows[r]) = Len(m.cols) /\ Shows(m, m.rows[r], view'[p])
            <6>1. Shows(l, l.rows[r], view[p]) /\ Len(l.rows[r]) = Len(l.cols)
              BY <3>1, <3>3, <4>2, <5>2, <5>3 DEF Sees
            <6> DEFINE y == m
                       v == view[p]
            <6>2. y = SetCell(l, r, tag, val) /\ tag \in DOMAIN l.colCache
                  /\ Shows(l, l.rows[r], v) /\ tag \in DOMAIN v
              BY <6>1 DEF m
            <6> HIDE DEF y, v, l, r
            <6>3. Shows(y, y.rows[r], [v EXCEPT ![tag] = val])
              BY <1>1, <1>2, <6>1, <6>2, SetCellShows DEF l
            <6> QED
              BY <1>5, <1>8, <6>1, <6>3 DEF y, v
          <5> QED
            BY <1>4, <3>2, <3>3, <4>2, <5>2, <5>3 DEF Sees
        <4> QED
          BY <4>1, <4>2
      <3>4. CASE q # p /\ row[q] = 0
        <4>1. layer'[b].rows[q[2]] = layer[b].rows[q[2]] /\ layer'[b].cols = layer[b].cols
          <5>1. layer'[b].cols = layer[b].cols
            BY <1>6, <3>1 DEF SameColumns
          <5>2. CASE IsNew(f)
            <6>1. b = 0
              BY <3>1, <5>2, ModeFacts DEF TypeInv, IsNew
            <6> QED
              BY <1>9, <5>2, <6>1
          <5>3. CASE ~IsNew(f)
            <6>1. b # Source(f) \/ q[2] # i
              <7>1. SUFFICES ASSUME b = Source(f), q[2] = i PROVE FALSE
                OBVIOUS
              <7>2. q[1] = f
                <8>1. CASE mode = "own"
                  <9>1. Source(q[1]) = q[1] /\ Source(f) = f
                    BY <1>1, <3>1, <8>1 DEF Source
                  <9> QED
                    BY <7>1, <9>1
                <8>2. CASE mode # "own"
                  <9>1. ~Parallel
                    BY <5>3, <8>2 DEF Parallel, IsNew
                  <9> QED
                    BY <1>1, <2>1, <3>1, <9>1, OneCurrent
                <8> QED
                  BY <8>1, <8>2
              <7> QED
                BY <3>4, <7>1, <7>2, ProcFacts
            <6> QED
              BY <1>10, <3>1, <5>1, <5>3, <6>1
          <5> QED
            BY <5>1, <5>2, <5>3
        <4>2. Shows(layer[b], layer[b].rows[q[2]], view[q])
          BY <3>1, <3>4 DEF Sees
        <4>3. Shows(layer'[b], layer'[b].rows[q[2]], view'[q])
          <5>1. view'[q] = view[q]
            BY <1>8, <3>4
          <5> HIDE DEF b
          <5> QED
            BY <4>1, <4>2, <5>1 DEF Shows
        <4> HIDE DEF b
        <4> QED
          BY <3>2, <3>4, <4>3 DEF Sees
      <3>5. CASE q # p /\ row[q] # 0
        <4>1. row[q] > 0 /\ row[q] \in Nat
          BY <3>5 DEF TypeInv
        <4>2. row[q] <= Len(layer[d].rows) /\ IsNew(q[1])
          BY <4>1 DEF RowsInv, ItemInv
        <4>3. row[q] \in DOMAIN layer[d].rows
          <5>1. IsLayer(layer[d])
            BY <3>1 DEF LayersInv
          <5>2. DOMAIN layer[d].rows = 1..Len(layer[d].rows) /\ Len(layer[d].rows) \in Nat
            BY <5>1, LayerParts
          <5> HIDE DEF d
          <5> QED
            BY <4>1, <4>2, <5>2
        <4>4. layer'[d].rows[row[q]] = layer[d].rows[row[q]] /\ layer'[d].cols = layer[d].cols
          <5>1. layer'[d].cols = layer[d].cols
            BY <1>6, <3>1 DEF SameColumns
          <5>2. CASE d = a
            <6>1. IsNew(f) /\ r = row[p] /\ row[p] > 0
              BY <4>2 DEF IsNew, TargetRow
            <6>2. row[q] # r
              BY <3>5, <4>1, <5>2, <6>1 DEF RowsInv
            <6> QED
              BY <1>4, <1>5, <4>3, <5>2, <6>2
          <5>3. CASE d # a
            BY <1>4, <3>1, <5>3
          <5> QED
            BY <5>1, <5>2, <5>3
        <4>5. ~LateEmpty(q[1]) => /\ Len(layer[d].rows[row[q]]) = Len(layer[d].cols)
                                  /\ Shows(layer[d], layer[d].rows[row[q]], view[q])
          BY <3>1, <3>5 DEF Sees
        <4>6. ~LateEmpty(q[1]) => /\ Len(layer'[d].rows[row[q]]) = Len(layer'[d].cols)
                                  /\ Shows(layer'[d], layer'[d].rows[row[q]], view'[q])
          <5>1. view'[q] = view[q]
            BY <1>8, <3>5
          <5> HIDE DEF d
          <5> QED
            BY <4>4, <4>5, <5>1 DEF Shows
        <4> HIDE DEF d
        <4> QED
          BY <3>2, <3>5, <4>6 DEF Sees, d
      <3> QED
        BY <3>3, <3>4, <3>5
    <2> QED
      BY <2>1, SameModes DEF SeesInv, Procs, Current, Begun, Ran
  <1>12. \A g \in Files : g # a => layer'[g].rows = layer[g].rows
    BY <1>4 DEF Layers
  <1>13. \A k \in Layers : layer'[k].colCache = layer[k].colCache
    BY <1>6 DEF SameColumns
  <1>14. ~IsNew(f) =>
           /\ \A t \in DOMAIN layer[Source(f)].colCache : t # tag =>
                Cell(Source(f), p[2], t)' = Cell(Source(f), p[2], t)
           /\ Cell(Source(f), p[2], tag)' = val
    <2> SUFFICES ASSUME ~IsNew(f)
                 PROVE  /\ \A t \in DOMAIN layer[Source(f)].colCache : t # tag =>
                             Cell(Source(f), p[2], t)' = Cell(Source(f), p[2], t)
                        /\ Cell(Source(f), p[2], tag)' = val
      OBVIOUS
    <2>1. a = Source(f) /\ a' = a /\ Source(f)' = Source(f)
      BY <1>10, SameModes
    <2> QED
      BY <1>10, <2>1 DEF Cell
  <1> HIDE DEF a, r, l, c
  <1> QED
    BY <1>6, <1>7, <1>8, <1>9, <1>10, <1>11, <1>12, <1>13, <1>14 DEF a, CellKept

\* A cache elsewhere than where a value has been put.
LEMMA CacheElsewhere ==
  ASSUME NEW cache, NEW S, IsCache(cache, S),
         NEW a \in Layers, NEW b \in Items, NEW tag \in Names, NEW val \in S,
         NEW new, Extended(new, cache, a, b, tag, val)
  PROVE  /\ IsCache(new, S) /\ new[a][b][tag] = val
         /\ \A k \in Layers, i \in Items : \A t \in DOMAIN new[k][i] :
              k # a \/ i # b \/ t # tag =>
                t \in DOMAIN cache[k][i] /\ new[k][i][t] = cache[k][i][t]
  <1>1. /\ IsCache(new, S)
        /\ \A k \in Layers, i \in Items : k # a \/ i # b => new[k][i] = cache[k][i]
        /\ DOMAIN new[a][b] = DOMAIN cache[a][b] \cup {tag} /\ new[a][b][tag] = val
        /\ \A t \in DOMAIN cache[a][b] : t # tag => new[a][b][t] = cache[a][b][t]
    BY CacheTyped
  <1>2. ASSUME NEW k \in Layers, NEW i \in Items, NEW t \in DOMAIN new[k][i],
               k # a \/ i # b \/ t # tag
        PROVE  t \in DOMAIN cache[k][i] /\ new[k][i][t] = cache[k][i][t]
    <2>1. CASE k # a \/ i # b
      BY <1>1, <2>1
    <2>2. CASE k = a /\ i = b
      BY <1>1, <1>2, <2>2
    <2> QED
      BY <2>1, <2>2
  <1> QED
    BY <1>1, <1>2

CacheStep(p, tag, u, n) ==
  /\ UNCHANGED strings \/ Extended(strings', strings, Source(p[1]), p[2], tag, u)
  /\ UNCHANGED numbers \/ Extended(numbers', numbers, Source(p[1]), p[2], tag, n)
ApartFromOthers(p, tag, u) ==
  \A q \in Procs : q # p /\ pc[q] = "condition" /\ Alone(q[1], tag) =>
    \/ Source(q[1]) # Source(p[1]) \/ q[2] # p[2]
    \/ /\ UNCHANGED numbers /\ tag \notin DOMAIN numbers[Source(p[1])][p[2]]
       /\ ~UNCHANGED strings /\ Cell(Source(p[1]), p[2], tag)' = u
       /\ tag \in DOMAIN layer[Source(p[1])].colCache
OtherCellsKept(p, tag) ==
  \A q \in Procs : \A t \in DOMAIN layer[Source(q[1])].colCache :
    Source(q[1]) # Source(p[1]) \/ q[2] # p[2] \/ t # tag =>
      Cell(Source(q[1]), q[2], t)' = Cell(Source(q[1]), q[2], t)

\* What an item puts into the caches does not disturb the items that are still
\* at their conditions, if it is apart from them.
LEMMA CachesApart ==
  ASSUME TypeInv, CachesInv, UNCHANGED <<mode, prog>>, NEW p \in Procs,
         NEW tag \in Names,
         NEW u \in Values, NEW n \in Numbers,
         CacheStep(p, tag, u, n), ApartFromOthers(p, tag, u), OtherCellsKept(p, tag),
         \A k \in Layers : layer'[k].colCache = layer[k].colCache,
         \A q \in Procs : pc'[q] = "condition" => pc[q] = "condition" /\ q # p
  PROVE  CachesTyped' /\ CachesInv'
  <1> DEFINE a == Source(p[1])
             b == p[2]
  <1>1. a \in Layers /\ b \in Items /\ IsCache(strings, Values) /\ IsCache(numbers, Numbers)
    BY ProcFacts, ModeFacts DEF TypeInv
  <1>s. /\ UNCHANGED strings \/ Extended(strings', strings, a, b, tag, u)
        /\ UNCHANGED numbers \/ Extended(numbers', numbers, a, b, tag, n)
    BY DEF CacheStep
  <1>2. /\ IsCache(strings', Values)
        /\ ~UNCHANGED strings => strings'[a][b][tag] = u
        /\ \A k \in Layers, i \in Items : \A t \in DOMAIN strings'[k][i] :
             k # a \/ i # b \/ t # tag =>
               t \in DOMAIN strings[k][i] /\ strings'[k][i][t] = strings[k][i][t]
    <2>1. CASE UNCHANGED strings
      BY <1>1, <2>1
    <2>2. CASE Extended(strings', strings, a, b, tag, u)
      <3> HIDE DEF a, b
      <3> QED
        BY <1>1, <2>2, CacheElsewhere
    <2> QED
      BY <1>s, <2>1, <2>2
  <1>3. /\ IsCache(numbers', Numbers)
        /\ \A k \in Layers, i \in Items : \A t \in DOMAIN numbers'[k][i] :
             k # a \/ i # b \/ t # tag =>
               t \in DOMAIN numbers[k][i] /\ numbers'[k][i][t] = numbers[k][i][t]
    <2>1. CASE UNCHANGED numbers
      BY <1>1, <2>1
    <2>2. CASE Extended(numbers', numbers, a, b, tag, n)
      <3> HIDE DEF a, b
      <3> QED
        BY <1>1, <2>2, CacheElsewhere
    <2> QED
      BY <1>s, <2>1, <2>2
  <1>4. CachesTyped'
    BY <1>2, <1>3 DEF CachesTyped, IsCache, IsMap, Layers, Items, Values, Names, Numbers
  <1>5. ASSUME NEW q \in Procs, pc'[q] = "condition" PROVE Cached(q)'
    <2> DEFINE k == Source(q[1])
               i == q[2]
    <2>1. Cached(q) /\ q # p /\ pc[q] = "condition" /\ k \in Layers /\ i \in Items
      BY <1>5, ProcFacts, ModeFacts DEF CachesInv, TypeInv
    <2>2. ASSUME NEW t \in DOMAIN strings'[k][i], Alone(q[1], t)
          PROVE  t \in DOMAIN layer[k].colCache /\ strings'[k][i][t] = Cell(k, i, t)'
      <3>1. CASE k # a \/ i # b \/ t # tag
        <4>1. t \in DOMAIN strings[k][i] /\ strings'[k][i][t] = strings[k][i][t]
          BY <1>2, <2>1, <2>2, <3>1
        <4>2. t \in DOMAIN layer[k].colCache /\ strings[k][i][t] = Cell(k, i, t)
          BY <2>1, <2>2, <4>1 DEF Cached
        <4>3. Cell(k, i, t)' = Cell(k, i, t)
          BY <2>1, <3>1, <4>2 DEF OtherCellsKept
        <4> QED
          BY <4>1, <4>2, <4>3
      <3>2. CASE k = a /\ i = b /\ t = tag
        <4>1. Alone(q[1], tag)
          BY <2>2, <3>2
        <4>2. /\ ~UNCHANGED strings /\ Cell(a, b, tag)' = u
              /\ tag \in DOMAIN layer[a].colCache
          BY <2>1, <3>2, <4>1 DEF ApartFromOthers
        <4>3. strings'[a][b][tag] = u
          BY <1>2, <4>2
        <4>4. k' = a' /\ i = b /\ t = tag
          BY <3>2, SameModes
        <4> QED
          BY <3>2, <4>2, <4>3, <4>4 DEF Cell
      <3> QED
        BY <3>1, <3>2
    <2>3. ASSUME NEW t \in DOMAIN numbers'[k][i], Alone(q[1], t)
          PROVE  t \in DOMAIN layer[k].colCache /\ numbers'[k][i][t] = Cell(k, i, t).num'
      <3>1. CASE k # a \/ i # b \/ t # tag
        <4>1. t \in DOMAIN numbers[k][i] /\ numbers'[k][i][t] = numbers[k][i][t]
          BY <1>3, <2>1, <2>3, <3>1
        <4>2. t \in DOMAIN layer[k].colCache /\ numbers[k][i][t] = Cell(k, i, t).num
          BY <2>1, <2>3, <4>1 DEF Cached
        <4>3. Cell(k, i, t)' = Cell(k, i, t)
          BY <2>1, <3>1, <4>2 DEF OtherCellsKept
        <4> QED
          BY <4>1, <4>2, <4>3
      <3>2. CASE k = a /\ i = b /\ t = tag
        <4>1. Alone(q[1], tag)
          BY <2>3, <3>2
        <4>2. UNCHANGED numbers /\ tag \notin DOMAIN numbers[a][b]
          BY <2>1, <3>2, <4>1 DEF ApartFromOthers
        <4> QED
          BY <2>3, <3>2, <4>2
      <3> QED
        BY <3>1, <3>2
    <2>4. k' = k /\ layer'[k].colCache = layer[k].colCache
          /\ \A t : Alone(q[1], t)' <=> Alone(q[1], t)
      BY <2>1, SameModes
    <2> QED
      BY <2>2, <2>3, <2>4 DEF Cached
  <1> QED
    BY <1>4, <1>5 DEF CachesInv, Procs

\* Another file whose items have the caches of p does not go without p's tags.
LEMMA AloneApart ==
  ASSUME mode \in Modes, NEW p \in Procs, NEW q \in Procs, q # p, NEW tag,
         Writes(p[1], tag), Alone(q[1], tag)
  PROVE  Source(q[1]) # Source(p[1]) \/ q[2] # p[2]
  <1>1. p[1] \in Files /\ q[1] \in Files
    BY ProcFacts
  <1>2. CASE q[1] = p[1]
    BY <1>2, ProcFacts
  <1>3. CASE q[1] # p[1]
    <2>1. mode = "own"
      BY <1>1, <1>3 DEF Alone
    <2> QED
      BY <1>1, <1>3, <2>1, ModeFacts
  <1> QED
    BY <1>2, <1>3

\* What an assignment writes is a value, and a number if it is numeric.
LEMMA AssignedFacts ==
  ASSUME TypeInv, LayersInv, RowsInv, NEW p \in Procs, Assigning(p),
         Expr(p).op # "<Empty>",
         NumberAssign(p) => /\ TargetRow(p) \in Items
                            /\ Expr(p).tag \in DOMAIN layer[Source(p[1])].colCache
  PROVE  Assigned(p) \in Values /\ (NumberAssign(p) => Assigned(p).num # NaN)
  <1> DEFINE e == Expr(p)
             add == pc[p] = "add"
             n == (IF add THEN old[p].num ELSE 0) + e.right.num
             was == Cell(Source(p[1]), TargetRow(p), e.tag)
             len == IF 1 < was.len THEN was.len ELSE 1
  <1>1. /\ p[1] \in Files /\ e.right \in Values /\ e.op \in {"=", "+="}
        /\ (~e.quoted => e.right.num # NaN) /\ status = "running" /\ old[p] \in Values
    <2>1. /\ p[1] \in Files /\ at[p] \in Nat \ {0} /\ Len(prog[p[1]]) \in Nat
      BY ProcFacts, ExprFacts DEF TypeInv
    <2>2. /\ at[p] <= Len(prog[p[1]]) /\ e = prog[p[1]][at[p]] /\ e.assign
          /\ status = "running" /\ old[p] \in Values
      BY DEF Assigning, Expr, TypeInv
    <2>3. at[p] \in 1..Len(prog[p[1]])
      BY <2>1, <2>2
    <2>4. LET x == prog[p[1]][at[p]] IN
          /\ x.right \in Values /\ (x.assign <=> x.op \in {"=", "+=", "<Empty>"})
          /\ x.op \in {"=", "+="} /\ ~x.quoted => x.right.num # NaN
      BY <2>1, <2>3, ExprFacts DEF TypeInv
    <2> QED
      BY <2>1, <2>2, <2>4
  <1>2. CASE NumberAssign(p)
    <2>1. e.right.num \in Nat
      BY <1>1, <1>2, ValueFacts DEF NumberAssign
    <2>2. add => old[p].num \in Nat
      BY <1>1, <1>2, ValueFacts DEF RowsInv, ItemInv
    <2>3. was \in Values
      BY <1>1, <1>2, SourceFacts
    <2>4. was.len \in Nat
      BY <2>3, ValueFacts
    <2>5. n \in Nat
      BY <2>1, <2>2
    <2>6. len \in Nat /\ len # 0
      <3> HIDE DEF was
      <3> QED
        BY <2>4
    <2>7. Assigned(p) = Padded([num |-> n, len |-> 1], was)
      BY <1>2 DEF Assigned
    <2>8. Assigned(p) = [num |-> n, len |-> len]
      <3> HIDE DEF n, was
      <3> QED
        BY <2>7 DEF Padded
    <2> HIDE DEF n, len
    <2>9. [num |-> n, len |-> len] \in Values
      BY <2>5, <2>6, MadeValue
    <2> QED
      BY <2>5, <2>8, <2>9 DEF NaN
  <1>3. CASE ~NumberAssign(p) /\ add
    <2>1. Assigned(p) = [num |-> NaN, len |-> old[p].len + e.right.len]
      BY <1>3 DEF Assigned
    <2>2. old[p].len + e.right.len \in Nat
      BY <1>1, ValueFacts
    <2> QED
      BY <1>3, <2>1, <2>2, MadeValue DEF NaN
  <1>4. CASE ~NumberAssign(p) /\ ~add
    <2>1. Assigned(p) = e.right
      BY <1>4 DEF Assigned
    <2> QED
      BY <1>1, <1>4, <2>1
  <1> QED
    BY <1>2, <1>3, <1>4

LEMMA WriteCellInv ==
  ASSUME ItemsInv, NEW p \in Procs, WriteCell(p)
  PROVE  ItemsInv'
  <1> DEFINE f == p[1]
             e == Expr(p)
             tag == e.tag
             k == Target(f)
             i == TargetRow(p)
             val == Assigned(p)
             missing == \/ tag \notin DOMAIN layer[k].colCache
                        \/ NumberAssign(p) /\ (i \notin Items
                              \/ tag \notin DOMAIN layer[Source(f)].colCache)
  <1>0. TypeInv /\ LayersInv /\ OrderInv /\ ParsedInv /\ RowsInv /\ SeesInv
        /\ CachesInv /\ MisreadInv /\ ColumnsForAssignments /\ FaultsOnlyInSerialNew
    BY DEF ItemsInv
  <1>1. /\ Assigning(p) /\ e.op # "<Empty>" /\ (IsNew(f) => row[p] > 0)
        /\ UNCHANGED <<mode, prog, begun, parsed, types, numbers, at, row, plain, old, misread>>
        /\ IF missing
           THEN status' = "failed" /\ UNCHANGED <<layer, strings, view, pc>>
           ELSE IF NumberAssign(p) /\ IsNew(f)
           THEN status' = "fault" /\ UNCHANGED <<layer, strings, view, pc>>
           ELSE /\ layer' = [layer EXCEPT ![k] = SetCell(@, i, tag, val)]
                /\ IF NumberAssign(p) THEN CacheString(p, tag, val)
                                      ELSE UNCHANGED strings
                /\ view' = [view EXCEPT ![p][tag] = val]
                /\ pc' = [pc EXCEPT ![p] = "cache"]
                /\ UNCHANGED status
    BY DEF WriteCell
  <1>2. /\ f \in Files /\ at[p] \in 1..Len(prog[f]) /\ e = prog[f][at[p]]
        /\ e.op \in {"=", "+="} /\ e.assign /\ tag \in Names /\ tag \in Tags
        /\ pc[p] \in {"assign", "add"} /\ status = "running"
    <2>1. /\ f \in Files /\ at[p] \in Nat \ {0} /\ Len(prog[f]) \in Nat
      BY <1>0, ProcFacts, ExprFacts DEF TypeInv
    <2>2. /\ at[p] <= Len(prog[f]) /\ e = prog[f][at[p]] /\ e.assign
          /\ status = "running" /\ pc[p] \in {"assign", "add"}
      BY <1>1 DEF Assigning, Expr
    <2>3. at[p] \in 1..Len(prog[f])
      BY <2>1, <2>2
    <2>4. /\ prog[f][at[p]].assign <=> prog[f][at[p]].op \in {"=", "+=", "<Empty>"}
          /\ prog[f][at[p]].tag \in Names /\ prog[f][at[p]].tag \in Tags
      BY <1>0, <2>1, <2>3, ExprFacts DEF TypeInv
    <2> QED
      BY <1>1, <2>1, <2>2, <2>3, <2>4
  <1>3. AllParsed(f) /\ Current(f)
    BY <1>0, <1>2, Past, AtWork
  <1>w. Writes(f, tag)
    <2>1. DOMAIN prog[f] = 1..Len(prog[f])
      BY <1>0, <1>2, ExprFacts DEF TypeInv
    <2> QED
      BY <1>2, <2>1 DEF Writes
  <1>a. AtAssignment(p)
    <2>1. at[p] <= Len(prog[f])
      <3>1. Len(prog[f]) \in Nat
        BY <1>0, <1>2, ExprFacts DEF TypeInv
      <3> QED
        BY <1>2, <3>1
    <2> QED
      BY <1>2, <2>1 DEF AtAssignment
  <1>4. CASE missing
    <2>1. status' = "failed" /\ UNCHANGED <<layer, strings, view, pc>>
      BY <1>1, <1>4
    <2> QED
      BY <1>1, <2>1, OnlyStatus DEF ItemVars
  <1>5. CASE ~missing /\ NumberAssign(p) /\ IsNew(f)
    <2>1. status' = "fault" /\ UNCHANGED <<layer, strings, view, pc>>
      BY <1>1, <1>5
    <2>2. mode # "shared"
      <3>1. SUFFICES ASSUME mode = "shared" PROVE FALSE
        OBVIOUS
      <3>0. at[p] \in parsed[f]
        BY <1>0, <1>2, <1>3, WholeParsed
      <3>2. types[f][at[p]] = "New"
        BY <1>0, <1>2, <3>0, <3>1 DEF ParsedInv, HasTag
      <3> QED
        BY <1>5, <3>2 DEF NumberAssign, Left
    <2>3. mode = "serialNew"
      BY <1>5, <2>2 DEF IsNew
    <2> QED
      BY <1>1, <2>1, <2>3, OnlyStatus DEF ItemVars
  <1>6. CASE ~missing /\ ~(NumberAssign(p) /\ IsNew(f))
    <2>1. /\ layer' = [layer EXCEPT ![k] = SetCell(@, i, tag, val)]
          /\ IF NumberAssign(p) THEN CacheString(p, tag, val) ELSE UNCHANGED strings
          /\ view' = [view EXCEPT ![p][tag] = val]
          /\ pc' = [pc EXCEPT ![p] = "cache"]
          /\ UNCHANGED status
      BY <1>1, <1>6
    <2>2. tag \in DOMAIN layer[k].colCache
      BY <1>6
    <2>3. val \in Values /\ (NumberAssign(p) => val.num # NaN)
      BY <1>0, <1>1, <1>6, AssignedFacts
    <2>4. tag \in DOMAIN view[p]
      BY <1>0, <1>2 DEF TypeInv
    <2>5. UNCHANGED strings \/ Extended(strings', strings, Source(f), p[2], tag, val)
      BY <2>1 DEF CacheString, Extended
    <2> HIDE DEF e, tag, val, missing
    <2>s. CellStep(p, tag, val)
      BY <2>1 DEF CellStep
    <2>k. /\ LayersInv' /\ ParsedInv' /\ ColumnsForAssignments' /\ SeesInv'
          /\ CellKept(p, tag, val)
      BY <1>0, <1>1, <1>2, <1>3, <2>2, <2>3, <2>4, <2>s, CellWritten
    <2>6. /\ LayersInv' /\ ParsedInv' /\ ColumnsForAssignments' /\ SeesInv'
          /\ view' = [q \in Procs |-> view'[q]]
          /\ \A q \in Procs : IsMap(view'[q], Values) /\ DOMAIN view'[q] = DOMAIN view[q]
          /\ view'[p][tag] = val /\ \A q \in Procs : q # p => view'[q] = view[q]
          /\ \A j \in Layers : Len(layer'[j].rows) = Len(layer[j].rows)
          /\ \A g \in Files : g # k => layer'[g].rows = layer[g].rows
          /\ IsNew(f) => layer'[0] = layer[0]
          /\ ~IsNew(f) =>
              /\ \A j \in Layers, r \in Items : j # Source(f) \/ r # p[2] =>
                   layer'[j].rows[r] = layer[j].rows[r]
              /\ \A t \in DOMAIN layer[Source(f)].colCache : t # tag =>
                   Cell(Source(f), p[2], t)' = Cell(Source(f), p[2], t)
              /\ Cell(Source(f), p[2], tag)' = val
          /\ \A j \in Layers : layer'[j].colCache = layer[j].colCache
      BY <2>k DEF CellKept
    <2>7. /\ pc \in [Procs -> Steps] /\ pc' \in [Procs -> Steps] /\ pc'[p] = "cache"
          /\ \A q \in Procs : q # p => pc'[q] = pc[q]
      BY <1>0, <2>1 DEF TypeInv, Steps
    <2>8. CachesTyped' /\ CachesInv'
      <3>1. \A q \in Procs : q # p /\ Alone(q[1], tag) =>
              Source(q[1]) # Source(f) \/ q[2] # p[2]
        BY <1>0, <1>w, AloneApart DEF TypeInv
      <3>2. ASSUME NEW q \in Procs, NEW t \in DOMAIN layer[Source(q[1])].colCache,
                   Source(q[1]) # Source(f) \/ q[2] # p[2] \/ t # tag
            PROVE  Cell(Source(q[1]), q[2], t)' = Cell(Source(q[1]), q[2], t)
        <4> DEFINE j == Source(q[1])
        <4>1. j \in Layers /\ q[2] \in Items /\ j' = j /\ Source(f)' = Source(f)
          BY <1>0, <1>1, ProcFacts, ModeFacts, SameModes DEF TypeInv
        <4>2. layer'[j].colCache = layer[j].colCache
          BY <2>6, <4>1
        <4>3. CASE IsNew(f)
          <5>1. j = 0 /\ layer'[0] = layer[0]
            BY <1>0, <2>6, <4>3, ProcFacts, ModeFacts DEF TypeInv, IsNew
          <5> QED
            BY <4>1, <5>1 DEF Cell
        <4>4. CASE ~IsNew(f) /\ (j # Source(f) \/ q[2] # p[2])
          <5>1. layer'[j].rows[q[2]] = layer[j].rows[q[2]]
            BY <2>6, <4>1, <4>4
          <5> QED
            BY <4>1, <4>2, <5>1 DEF Cell
        <4>5. CASE ~IsNew(f) /\ j = Source(f) /\ q[2] = p[2]
          <5>1. Cell(Source(f), p[2], t)' = Cell(Source(f), p[2], t)
            BY <2>6, <3>2, <4>5
          <5> QED
            BY <4>1, <4>5, <5>1 DEF Cell
        <4> QED
          BY <4>3, <4>4, <4>5
      <3>3. \A q \in Procs : pc'[q] = "condition" => pc[q] = "condition" /\ q # p
        BY <2>7
      <3>4. 0 \in Numbers /\ CacheStep(p, tag, val, 0)
        BY <1>1, <2>5 DEF Numbers, CacheStep
      <3>5. ApartFromOthers(p, tag, val) /\ OtherCellsKept(p, tag)
        BY <3>1, <3>2 DEF ApartFromOthers, OtherCellsKept
      <3> QED
        BY <1>0, <1>1, <1>2, <2>3, <2>6, <3>3, <3>4, <3>5, CachesApart
    <2>9. TypeInv'
      BY <1>0, <1>1, <2>6, <2>7, <2>8, TypeKept DEF TypeInv
    <2>10. OrderInv'
      <3>1. mode = "shared" => \A g \in Files : g # f => layer'[g].rows = layer[g].rows
        BY <1>0, <1>2, <2>6, ModeFacts DEF TypeInv
      <3> QED
        BY <1>0, <1>1, <1>2, <1>3, <2>7, <3>1, OrderKept
    <2>11. RowsInv'
      <3>0. /\ Target(f) \in Layers /\ Target(f)' = Target(f) /\ (IsNew(f)' <=> IsNew(f))
            /\ (AtAssignment(p)' <=> AtAssignment(p))
            /\ (NumberAssign(p)' <=> NumberAssign(p)) /\ Expr(p)' = Expr(p)
        BY <1>0, <1>1, <1>2, ModeFacts, SameModes
           DEF TypeInv, AtAssignment, NumberAssign, Left, Expr
      <3>1. ItemInv(p)'
        <4>1. ItemInv(p)
          BY <1>0 DEF RowsInv
        <4>2. view'[p][Expr(p).tag] = val
          BY <2>6 DEF tag, e
        <4>3. Len(layer'[Target(f)].rows) = Len(layer[Target(f)].rows)
          BY <2>6, <3>0
        <4> QED
          BY <1>1, <1>a, <2>3, <2>7, <3>0, <4>1, <4>2, <4>3 DEF ItemInv
      <3>2. ASSUME NEW q \in Procs, q # p PROVE ItemInv(q)'
        <4> DEFINE b == Target(q[1])
        <4>1. b \in Layers /\ IsLayer(layer[b])
          BY <1>0, ProcFacts, ModeFacts DEF TypeInv, LayersInv
        <4>2. Len(layer[b].rows) \in Nat /\ row[q] \in Nat /\ ItemInv(q)
          BY <1>0, <4>1, LayerParts DEF TypeInv, RowsInv
        <4>3. Len(layer'[b].rows) \in Nat /\ Len(layer[b].rows) <= Len(layer'[b].rows)
          BY <2>6, <4>1, <4>2
        <4>4. view'[q] = view[q] /\ pc'[q] = pc[q]
          BY <2>6, <2>7, <3>2
        <4> HIDE DEF b
        <4> QED
          BY <1>1, <2>1, <3>2, <4>2, <4>3, <4>4, ItemKept DEF b
      <3>3. \A q, s \in Procs : row'[q] = row'[s] /\ row'[q] > 0
                                  /\ Target(q[1])' = Target(s[1])' => q = s
        BY <1>0, <1>1, SameModes DEF RowsInv
      <3> QED
        BY <3>1, <3>2, <3>3 DEF RowsInv, Procs
    <2>12. MisreadInv' /\ FaultsOnlyInSerialNew'
      BY <1>0, <1>1, <2>1, SameModes DEF MisreadInv, MisreadsComeFromOthers, Procs, Names, Tags,
                             FaultsOnlyInSerialNew
    <2> QED
      BY <2>6, <2>8, <2>9, <2>10, <2>11, <2>12 DEF ItemsInv
  <1> QED
    BY <1>4, <1>5, <1>6

LEMMA WriteCacheInv ==
  ASSUME ItemsInv, NEW p \in Procs, WriteCache(p)
  PROVE  ItemsInv'
  <1> DEFINE f == p[1]
             e == Expr(p)
             tag == e.tag
             val == view[p][tag]
  <1>0. TypeInv /\ LayersInv /\ OrderInv /\ ParsedInv /\ RowsInv /\ SeesInv
        /\ CachesInv /\ MisreadInv /\ ColumnsForAssignments /\ FaultsOnlyInSerialNew
    BY DEF ItemsInv
  <1>1. /\ pc[p] = "cache" /\ status = "running"
        /\ IF NumberAssign(p) THEN CacheNumber(p, tag, val.num) /\ UNCHANGED strings
                              ELSE CacheString(p, tag, val) /\ UNCHANGED numbers
        /\ pc' = [pc EXCEPT ![p] = "assign"] /\ at' = [at EXCEPT ![p] = @ + 1]
        /\ UNCHANGED <<mode, prog, layer, begun, parsed, types, status, row, plain, old,
                       view, misread>>
    BY DEF WriteCache
  <1>2. /\ f \in Files /\ at[p] \in 1..Len(prog[f]) /\ e = prog[f][at[p]]
        /\ Len(prog[f]) \in Nat /\ at[p] \in Nat \ {0}
        /\ e.op \in {"=", "+="} /\ e.assign /\ tag \in Names /\ tag \in Tags
    <2>1. /\ f \in Files /\ at[p] \in Nat \ {0} /\ Len(prog[f]) \in Nat
      BY <1>0, ProcFacts, ExprFacts DEF TypeInv
    <2>2. /\ at[p] <= Len(prog[f]) /\ e = prog[f][at[p]] /\ e.op \in {"=", "+="}
      BY <1>0, <1>1 DEF RowsInv, ItemInv, AtAssignment, Expr
    <2>3. at[p] \in 1..Len(prog[f])
      BY <2>1, <2>2
    <2>4. /\ prog[f][at[p]].assign <=> prog[f][at[p]].op \in {"=", "+=", "<Empty>"}
          /\ prog[f][at[p]].tag \in Names /\ prog[f][at[p]].tag \in Tags
      BY <1>0, <2>1, <2>3, ExprFacts DEF TypeInv
    <2> QED
      BY <2>1, <2>2, <2>3, <2>4
  <1>3. AllParsed(f)
    BY <1>0, <1>1, Past
  <1>w. Writes(f, tag)
    <2>1. DOMAIN prog[f] = 1..Len(prog[f])
      BY <1>0, <1>2, ExprFacts DEF TypeInv
    <2> QED
      BY <1>2, <2>1 DEF Writes
  <1>4. val \in Values /\ (NumberAssign(p) => val.num \in Nat)
    <2>1. val \in Values
      BY <1>0, <1>2 DEF TypeInv, IsMap
    <2>2. NumberAssign(p) => val.num # NaN
      BY <1>0, <1>1 DEF RowsInv, ItemInv
    <2> QED
      BY <2>1, <2>2, ValueFacts
  <1>5. /\ pc \in [Procs -> Steps] /\ pc' \in [Procs -> Steps] /\ pc'[p] = "assign"
        /\ at \in [Procs -> Nat \ {0}] /\ at' \in [Procs -> Nat \ {0}] /\ at'[p] = at[p] + 1
        /\ \A q \in Procs : q # p => pc'[q] = pc[q] /\ at'[q] = at[q]
    BY <1>0, <1>1 DEF TypeInv, Steps
  <1>6. CachesTyped' /\ CachesInv'
    <2>1. PICK n \in Numbers : NumberAssign(p) => n = val.num
      <3>1. 0 \in Numbers
        BY DEF Numbers
      <3> QED
        BY <1>4, <3>1 DEF Numbers
    <2>2. CacheStep(p, tag, val, n)
      BY <1>1, <2>1 DEF CacheStep, CacheNumber, CacheString, Extended
    <2>3. ApartFromOthers(p, tag, val)
      BY <1>0, <1>w, AloneApart DEF ApartFromOthers, TypeInv
    <2>4. OtherCellsKept(p, tag)
      BY <1>1, SameModes DEF OtherCellsKept, Cell
    <2>5. /\ \A k \in Layers : layer'[k].colCache = layer[k].colCache
          /\ \A q \in Procs : pc'[q] = "condition" => pc[q] = "condition" /\ q # p
      BY <1>1, <1>5
    <2> HIDE DEF val, tag, e
    <2> QED
      BY <1>0, <1>1, <1>2, <1>4, <2>2, <2>3, <2>4, <2>5, CachesApart
  <1>7. TypeInv'
    <2>1. \A q \in Procs : IsMap(view'[q], Values) /\ DOMAIN view'[q] = DOMAIN view[q]
      BY <1>0, <1>1 DEF TypeInv
    <2>2. row' \in [Procs -> Nat] /\ old' \in [Procs -> Values]
          /\ view' = [q \in Procs |-> view'[q]]
      BY <1>0, <1>1 DEF TypeInv
    <2> QED
      BY <1>0, <1>1, <1>5, <1>6, <2>1, <2>2, TypeKept
  <1>8. OrderInv'
    BY <1>0, <1>1, <1>3, <1>5, OrderKept
  <1>9. RowsInv'
    <2>1. ItemInv(p)'
      <3>1. AfterAssignment(p)'
        BY <1>1, <1>2, <1>5 DEF AfterAssignment
      <3>2. ItemInv(p) /\ (IsNew(f)' <=> IsNew(f)) /\ Target(f)' = Target(f)
        BY <1>0, <1>1, SameModes DEF RowsInv
      <3> QED
        BY <1>1, <1>5, <3>1, <3>2 DEF ItemInv
    <2>2. ASSUME NEW q \in Procs, q # p PROVE ItemInv(q)'
      <3> DEFINE b == Target(q[1])
      <3>1. b \in Layers /\ IsLayer(layer[b])
        BY <1>0, ProcFacts, ModeFacts DEF TypeInv, LayersInv
      <3>2. Len(layer[b].rows) \in Nat /\ row[q] \in Nat /\ ItemInv(q)
        BY <1>0, <3>1, LayerParts DEF TypeInv, RowsInv
      <3>3. Len(layer'[b].rows) \in Nat /\ Len(layer[b].rows) <= Len(layer'[b].rows)
        BY <1>1, <3>2
      <3> HIDE DEF b
      <3> QED
        BY <1>1, <1>5, <2>2, <3>2, <3>3, ItemKept DEF b
    <2>3. \A q, s \in Procs : row'[q] = row'[s] /\ row'[q] > 0
                                /\ Target(q[1])' = Target(s[1])' => q = s
      BY <1>0, <1>1, SameModes DEF RowsInv
    <2> QED
      BY <2>1, <2>2, <2>3 DEF RowsInv, Procs
  <1>10. LayersInv' /\ ParsedInv' /\ ColumnsForAssignments' /\ SeesInv'
    BY <1>0, <1>1, SameLayers, SameRows
  <1>11. MisreadInv' /\ FaultsOnlyInSerialNew'
    BY <1>0, <1>1, SameModes DEF MisreadInv, MisreadsComeFromOthers, Procs, Names, Tags,
                                 FaultsOnlyInSerialNew
  <1> QED
    BY <1>6, <1>7, <1>8, <1>9, <1>10, <1>11 DEF ItemsInv

\* What a step of p leaves of the rows and of what the others see.
OthersKept(p) ==
  /\ view' = [q \in Procs |-> view'[q]]
  /\ \A q \in Procs : IsMap(view'[q], Values) /\ DOMAIN view'[q] = DOMAIN view[q]
  /\ \A q \in Procs : q # p => view'[q] = view[q]
  /\ \A k \in Layers : Len(layer'[k].rows) = Len(layer[k].rows)
  /\ \A g \in Files : g # Target(p[1]) => layer'[g].rows = layer[g].rows

\* A guid for a row without one.
LEMMA GuidWritten ==
  ASSUME TypeInv, LayersInv, OrderInv, ParsedInv, RowsInv, SeesInv, CachesInv,
         ColumnsForAssignments, NEW p \in Procs, Current(p[1]),
         UNCHANGED <<mode, prog, begun, parsed, types, row, numbers>>,
         IsNew(p[1]) => row[p] > 0,
         Cell(Source(p[1]), p[2], "guid").len = 0,
         CellStep(p, "guid", Guid), CacheString(p, "guid", Guid),
         \A q \in Procs : pc'[q] = "condition" => pc[q] = "condition" /\ q # p
  PROVE  /\ LayersInv' /\ ParsedInv' /\ ColumnsForAssignments' /\ SeesInv'
         /\ CachesTyped' /\ CachesInv' /\ OthersKept(p)
  <1> DEFINE f == p[1]
             i == p[2]
             a == Source(f)
             tag == "guid"
  <1>1. /\ f \in Files /\ i \in Items /\ a \in Layers /\ Target(f) \in Layers
        /\ tag \in Names /\ Guid \in Values /\ tag \in DOMAIN view[p]
    BY ProcFacts, ModeFacts, RowsFacts DEF TypeInv, Names
  <1>2. tag \in DOMAIN layer[a].colCache /\ Cell(a, i, tag) \in Values
    BY <1>1, SourceFacts
  <1>3. tag \in DOMAIN layer[Target(f)].colCache
    <2>1. CASE IsNew(f)
      BY <1>1, <2>1 DEF Current, LayersInv, IsOutput
    <2>2. CASE ~IsNew(f)
      BY <1>1, <1>2, <2>2, ModeFacts DEF TypeInv
    <2> QED
      BY <2>1, <2>2
  <1>4. Extended(strings', strings, a, i, tag, Guid)
    BY DEF CacheString, Extended
  <1>5. CellStep(p, tag, Guid)
    OBVIOUS
  <1> HIDE DEF tag
  <1>6. /\ LayersInv' /\ ParsedInv' /\ ColumnsForAssignments' /\ SeesInv'
        /\ CellKept(p, tag, Guid)
    BY <1>1, <1>3, <1>5, CellWritten
  <1>7. ~IsNew(f) =>
          /\ \A j \in Layers, r \in Items : j # a \/ r # i =>
               layer'[j].rows[r] = layer[j].rows[r]
          /\ \A t \in DOMAIN layer[a].colCache : t # tag => Cell(a, i, t)' = Cell(a, i, t)
          /\ Cell(a, i, tag)' = Guid
    BY <1>6 DEF CellKept
  <1>8. /\ IsNew(f) => layer'[0] = layer[0]
        /\ \A j \in Layers : layer'[j].colCache = layer[j].colCache
    BY <1>6 DEF CellKept
  <1>9. OthersKept(p)
    BY <1>6 DEF CellKept, OthersKept
  <1>10. OtherCellsKept(p, tag)
    <2>1. ASSUME NEW q \in Procs, NEW t \in DOMAIN layer[Source(q[1])].colCache,
                 Source(q[1]) # a \/ q[2] # i \/ t # tag
          PROVE  Cell(Source(q[1]), q[2], t)' = Cell(Source(q[1]), q[2], t)
      <3> DEFINE j == Source(q[1])
      <3>1. j \in Layers /\ q[2] \in Items /\ j' = j /\ a' = a
        BY ProcFacts, ModeFacts, SameModes DEF TypeInv
      <3>2. layer'[j].colCache = layer[j].colCache
        BY <1>8, <3>1
      <3>3. CASE IsNew(f)
        <4>1. j = 0 /\ layer'[0] = layer[0]
          BY <1>8, <3>3, ProcFacts, ModeFacts DEF TypeInv, IsNew
        <4> QED
          BY <3>1, <4>1 DEF Cell
      <3>4. CASE ~IsNew(f) /\ (j # a \/ q[2] # i)
        <4>1. layer'[j].rows[q[2]] = layer[j].rows[q[2]]
          BY <1>7, <3>1, <3>4
        <4> QED
          BY <3>1, <3>2, <4>1 DEF Cell
      <3>5. CASE ~IsNew(f) /\ j = a /\ q[2] = i
        <4>1. Cell(a, i, t)' = Cell(a, i, t)
          BY <1>7, <2>1, <3>5
        <4> QED
          BY <3>1, <3>5, <4>1 DEF Cell
      <3> QED
        BY <3>3, <3>4, <3>5
    <2> QED
      BY <2>1 DEF OtherCellsKept
  <1>11. ApartFromOthers(p, tag, Guid)
    <2>1. ASSUME NEW q \in Procs, q # p, pc[q] = "condition", Alone(q[1], tag),
                 Source(q[1]) = a, q[2] = i
          PROVE  /\ tag \notin DOMAIN numbers[a][i] /\ ~UNCHANGED strings
                 /\ Cell(a, i, tag)' = Guid
      <3>1. ~IsNew(f)
        <4>1. IsNew(f) => Writes(f, tag)
          BY DEF Writes, tag
        <4> QED
          BY <2>1, <4>1, AloneApart DEF TypeInv
      <3>2. Cached(q) /\ Cell(a, i, tag).len = 0
        BY <2>1 DEF CachesInv, tag
      <3>3. Cell(a, i, tag).num = NaN
        BY <1>2, <3>2, ValueFacts
      <3>4. tag \notin DOMAIN numbers[a][i]
        <4>1. SUFFICES ASSUME tag \in DOMAIN numbers[a][i] PROVE FALSE
          OBVIOUS
        <4>2. numbers[a][i][tag] = NaN
          BY <2>1, <3>2, <3>3, <4>1 DEF Cached
        <4>3. IsMap(numbers[a][i], Numbers)
          BY <1>1 DEF TypeInv, IsCache
        <4>4. numbers[a][i][tag] \in Nat
          BY <4>1, <4>3 DEF IsMap, Numbers
        <4> QED
          BY <4>2, <4>4 DEF NaN
      <3>5. ~UNCHANGED strings
        <4>1. SUFFICES ASSUME UNCHANGED strings PROVE FALSE
          OBVIOUS
        <4>2. IsCache(strings, Values)
          BY DEF TypeInv
        <4>3. tag \in DOMAIN strings'[a][i] /\ strings'[a][i][tag] = Guid
          <5> HIDE DEF a, i
          <5> QED
            BY <1>1, <1>4, <4>2, CacheTyped
        <4>4. tag \in DOMAIN strings[a][i] /\ strings[a][i][tag] = Guid
          BY <4>1, <4>3
        <4>5. Cell(a, i, tag) = Guid
          BY <2>1, <3>2, <4>4 DEF Cached
        <4> QED
          BY <3>2, <4>5 DEF Guid
      <3> QED
        BY <1>7, <3>1, <3>4, <3>5
    <2> QED
      BY <1>2, <2>1 DEF ApartFromOthers
  <1>12. CachesTyped' /\ CachesInv'
    <2>1. 0 \in Numbers /\ CacheStep(p, tag, Guid, 0)
      BY <1>4 DEF Numbers, CacheStep
    <2> HIDE DEF a, i, f
    <2> QED
      BY <1>1, <1>8, <1>10, <1>11, <2>1, CachesApart
  <1> QED
    BY <1>6, <1>9, <1>12

LEMMA AddGuidInv ==
  ASSUME ItemsInv, NEW p \in Procs, AddGuid(p)
  PROVE  ItemsInv'
  <1> DEFINE f == p[1]
             writes == /\ ~(IsNew(f) /\ row[p] = 0)
                       /\ Cell(Source(f), p[2], "guid").len = 0
  <1>0. TypeInv /\ LayersInv /\ OrderInv /\ ParsedInv /\ RowsInv /\ SeesInv
        /\ CachesInv /\ MisreadInv /\ ColumnsForAssignments /\ FaultsOnlyInSerialNew
    BY DEF ItemsInv
  <1>1. /\ status = "running" /\ Started(p) /\ pc[p] \in {"condition", "assign"}
        /\ IF writes
           THEN /\ CellStep(p, "guid", Guid) /\ CacheString(p, "guid", Guid)
           ELSE UNCHANGED <<layer, strings, view>>
        /\ pc' = [pc EXCEPT ![p] = "done"]
        /\ UNCHANGED <<mode, prog, begun, parsed, types, status, numbers, at, row, plain, old,
                       misread>>
    BY DEF AddGuid, CellStep
  <1>2. f \in Files /\ AllParsed(f) /\ pc[p] # "done" /\ Target(f) \in Layers
    BY <1>0, <1>1, ProcFacts, ModeFacts DEF Started, TypeInv
  <1>3. Current(f)
    BY <1>0, <1>2, AtWork
  <1>4. /\ pc \in [Procs -> Steps] /\ pc' \in [Procs -> Steps] /\ pc'[p] = "done"
        /\ \A q \in Procs : q # p => pc'[q] = pc[q]
    BY <1>0, <1>1 DEF TypeInv, Steps
  <1>5. \A q \in Procs : pc'[q] = "condition" => pc[q] = "condition" /\ q # p
    BY <1>4
  <1>6. /\ LayersInv' /\ ParsedInv' /\ ColumnsForAssignments' /\ SeesInv'
        /\ CachesTyped' /\ CachesInv' /\ OthersKept(p)
    <2>1. CASE writes
      <3>1. /\ CellStep(p, "guid", Guid) /\ CacheString(p, "guid", Guid)
            /\ Cell(Source(f), p[2], "guid").len = 0
        BY <1>1, <2>1
      <3>2. IsNew(f) => row[p] > 0
        BY <1>0, <2>1 DEF TypeInv
      <3> HIDE DEF writes
      <3> QED
        BY <1>0, <1>1, <1>3, <1>5, <3>1, <3>2, GuidWritten
    <2>2. CASE ~writes
      <3>1. UNCHANGED <<layer, strings, view>>
        BY <1>1, <2>2
      <3>2. LayersInv' /\ ParsedInv' /\ ColumnsForAssignments' /\ SeesInv'
        BY <1>0, <1>1, <3>1, SameLayers, SameRows
      <3>3. "guid" \in Names
        BY DEF Names
      <3>4. CachesTyped' /\ CachesInv'
        BY <1>0, <1>1, <1>5, <3>1, <3>3, ReadsKept
      <3>5. OthersKept(p)
        BY <1>0, <3>1 DEF OthersKept, TypeInv
      <3> QED
        BY <3>2, <3>4, <3>5
    <2> QED
      BY <2>1, <2>2
  <1>7. /\ view' = [q \in Procs |-> view'[q]]
        /\ \A q \in Procs : IsMap(view'[q], Values) /\ DOMAIN view'[q] = DOMAIN view[q]
        /\ \A q \in Procs : q # p => view'[q] = view[q]
        /\ \A j \in Layers : Len(layer'[j].rows) = Len(layer[j].rows)
        /\ \A g \in Files : g # Target(f) => layer'[g].rows = layer[g].rows
    BY <1>6 DEF OthersKept
  <1> HIDE DEF writes
  <1>8. TypeInv'
    <2>1. at' \in [Procs -> Nat \ {0}] /\ row' \in [Procs -> Nat] /\ old' \in [Procs -> Values]
      BY <1>0, <1>1 DEF TypeInv
    <2> QED
      BY <1>0, <1>1, <1>4, <1>6, <1>7, <2>1, TypeKept
  <1>9. OrderInv'
    <2>1. mode = "shared" => \A g \in Files : g # f => layer'[g].rows = layer[g].rows
      BY <1>0, <1>2, <1>7, ModeFacts DEF TypeInv
    <2> QED
      BY <1>0, <1>1, <1>2, <1>4, <2>1, OrderKept
  <1>10. RowsInv'
    <2>1. ItemInv(p)'
      <3>1. ItemInv(p) /\ (IsNew(f)' <=> IsNew(f)) /\ Target(f)' = Target(f)
        BY <1>0, <1>1, SameModes DEF RowsInv
      <3>2. Len(layer'[Target(f)].rows) = Len(layer[Target(f)].rows)
        BY <1>2, <1>7
      <3> QED
        BY <1>1, <1>4, <3>1, <3>2 DEF ItemInv
    <2>2. ASSUME NEW q \in Procs, q # p PROVE ItemInv(q)'
      <3> DEFINE b == Target(q[1])
      <3>1. b \in Layers /\ IsLayer(layer[b])
        BY <1>0, ProcFacts, ModeFacts DEF TypeInv, LayersInv
      <3>2. Len(layer[b].rows) \in Nat /\ row[q] \in Nat /\ ItemInv(q)
        BY <1>0, <3>1, LayerParts DEF TypeInv, RowsInv
      <3>3. Len(layer'[b].rows) \in Nat /\ Len(layer[b].rows) <= Len(layer'[b].rows)
        BY <1>7, <3>1, <3>2
      <3>4. view'[q] = view[q] /\ pc'[q] = pc[q]
        BY <1>4, <1>7, <2>2
      <3> HIDE DEF b
      <3> QED
        BY <1>1, <2>2, <3>2, <3>3, <3>4, ItemKept DEF b
    <2>3. \A q, s \in Procs : row'[q] = row'[s] /\ row'[q] > 0
                                /\ Target(q[1])' = Target(s[1])' => q = s
      BY <1>0, <1>1, SameModes DEF RowsInv
    <2> QED
      BY <2>1, <2>2, <2>3 DEF RowsInv, Procs
  <1>11. MisreadInv' /\ FaultsOnlyInSerialNew'
    BY <1>0, <1>1, SameModes DEF MisreadInv, MisreadsComeFromOthers, Procs, Names, Tags,
                                 FaultsOnlyInSerialNew
  <1> QED
    BY <1>6, <1>8, <1>9, <1>10, <1>11 DEF ItemsInv

-----------------------------------------------------------------------------
(* The steps of a file.                                                     *)

\* copyLoad: the columns of the input, and the rows there are.
LEMMA CopyLoadedFacts ==
  ASSUME NEW l, IsLayer(l), l.src = 0, IsLayer(layer[0]), AllLocated(layer[0])
  PROVE  LET m == CopyLoaded(l) IN
         /\ IsLayer(m) /\ AllLocated(m) /\ IsOutput(m, layer[0])
         /\ Len(m.rows) = Len(l.rows)
  <1> DEFINE s == layer[0]
             x == [[s EXCEPT !.rows = l.rows] EXCEPT !.src = l.src]
             m == Forced(x, Head(s.rows))
  <1>1. CopyLoaded(l) = m
    <2>1. [s EXCEPT !.rows = l.rows, !.src = l.src] = x
      <3>1. IsRecord(s)
        BY LayerParts
      <3>2. s \in [cols : {s.cols}, colCache : {s.colCache}, types : {s.types},
                   rows : {s.rows}, src : {s.src}]
        BY <3>1 DEF IsRecord
      <3> HIDE DEF s
      <3> QED
        BY <3>2
    <2> HIDE DEF x
    <2> QED
      BY <2>1 DEF CopyLoaded
  <1>2. /\ IsRecord(x) /\ x.cols = s.cols /\ x.colCache = s.colCache
        /\ x.types = s.types /\ x.rows = l.rows /\ x.src = 0
    <2> DEFINE y == [s EXCEPT !.rows = l.rows]
    <2>1. /\ IsRecord(y) /\ y.cols = s.cols /\ y.colCache = s.colCache
          /\ y.types = s.types /\ y.rows = l.rows
      <3> DEFINE z == l.rows
      <3>1. IsRecord(s)
        BY LayerParts
      <3> HIDE DEF s, z
      <3> QED
        BY <3>1, SetRows DEF z
    <2> HIDE DEF y
    <2>2. LET z == [y EXCEPT !.src = l.src] IN
          /\ IsRecord(z) /\ z.cols = y.cols /\ z.colCache = y.colCache
          /\ z.types = y.types /\ z.rows = y.rows /\ z.src = l.src
      BY <2>1, SetSrc
    <2>3. x = [y EXCEPT !.src = l.src]
      BY DEF y
    <2> HIDE DEF x
    <2> QED
      BY <2>1, <2>2, <2>3
  <1> HIDE DEF x
  <1>3. IsLayer(x) /\ AllLocated(x)
    BY <1>2 DEF IsLayer, AllLocated, Located
  <1>4. /\ IsLayer(m) /\ Grown(x, m) /\ AllLocated(m) /\ "guid" \in DOMAIN m.colCache
    BY <1>3, ForcedFacts
  <1> HIDE DEF m
  <1>5. Len(m.rows) = Len(l.rows)
    <2>1. DOMAIN m.rows = 1..Len(m.rows) /\ DOMAIN l.rows = 1..Len(l.rows)
          /\ Len(m.rows) \in Nat /\ Len(l.rows) \in Nat
      BY <1>4, LayerParts
    <2>2. DOMAIN m.rows = DOMAIN l.rows
      BY <1>2, <1>4 DEF Grown
    <2>3. \A a, b \in Nat : 1..a = 1..b => a = b
      OBVIOUS
    <2> QED
      BY <2>1, <2>2, <2>3
  <1>6. IsOutput(m, s)
    BY <1>2, <1>4 DEF Grown, IsOutput
  <1> QED
    BY <1>1, <1>4, <1>5, <1>6

\* The row of an item as its file finds it.
LEMMA RowShows ==
  ASSUME TypeInv, LayersInv, NEW p \in Procs
  PROVE  LET l == layer[Source(p[1])] IN
         /\ IsMap(Row(p), Values) /\ DOMAIN Row(p) = DOMAIN view[p]
         /\ Shows(l, l.rows[p[2]], Row(p))
  <1> DEFINE l == layer[Source(p[1])]
             r == l.rows[p[2]]
             v == Row(p)
  <1>1. p[1] \in Files /\ p[2] \in Items
    BY ProcFacts
  <1>2. /\ IsLayer(l) /\ r \in Seq(Values) /\ Len(r) = Len(l.cols)
        /\ DOMAIN r = 1..Len(l.cols)
    BY <1>1, SourceFacts
  <1>3. l.cols \in Seq(Names) /\ Distinct(l.cols) /\ Len(l.cols) \in Nat
    BY <1>2, LayerParts
  <1>4. /\ \A c \in 1..Len(l.cols) :
             l.cols[c] \in Range(l.cols) /\ ColumnOf(l, l.cols[c]) = c
        /\ \A t \in Range(l.cols) :
             ColumnOf(l, t) \in 1..Len(l.cols) /\ l.cols[ColumnOf(l, t)] = t
    <2> HIDE DEF l
    <2> QED
      BY <1>3, ColumnFacts
  <1>5. v = [t \in DOMAIN view[p] |-> IF t \in Range(l.cols) THEN r[ColumnOf(l, t)]
                                                             ELSE Empty]
    BY DEF Row
  <1> HIDE DEF l, r, v
  <1>6. v = [t \in DOMAIN v |-> v[t]] /\ DOMAIN v = DOMAIN view[p]
    BY <1>5
  <1>7. \A t \in DOMAIN v : v[t] \in Values
    <2>1. \A c \in 1..Len(l.cols) : r[c] \in Values
      BY <1>2
    <2>2. Empty \in Values
      BY RowsFacts
    <2> QED
      BY <1>4, <1>5, <2>1, <2>2
  <1>8. IsMap(v, Values)
    <2>1. DOMAIN view[p] \subseteq Names
      BY DEF TypeInv, IsMap
    <2> QED
      BY <1>6, <1>7, <2>1 DEF IsMap
  <1>9. Shows(l, r, v)
    <2>1. ASSUME NEW c \in 1..Len(l.cols), l.cols[c] \in DOMAIN v
          PROVE  r[c] = v[l.cols[c]]
      BY <1>4, <1>5, <2>1
    <2>2. ASSUME NEW t \in DOMAIN v, \A c \in 1..Len(l.cols) : l.cols[c] # t
          PROVE  v[t] = Empty
      <3>1. t \notin Range(l.cols)
        BY <1>4, <2>2
      <3> QED
        BY <1>5, <2>2, <3>1
    <2> QED
      BY <2>1, <2>2 DEF Shows
  <1> QED
    BY <1>6, <1>8, <1>9 DEF l, r, v

LEMMA BeginFileInv ==
  ASSUME ItemsInv, NEW f \in Files, BeginFile(f)
  PROVE  ItemsInv'
  <1> DEFINE l == layer[Target(f)]
             m == CopyLoaded(l)
  <1>0. TypeInv /\ LayersInv /\ OrderInv /\ ParsedInv /\ RowsInv /\ SeesInv
        /\ CachesInv /\ MisreadInv /\ ColumnsForAssignments /\ FaultsOnlyInSerialNew
    BY DEF ItemsInv
  <1>1. /\ f \notin begun /\ \A p \in Procs : p[1] < f => pc[p] = "done"
        /\ begun' = begun \cup {f}
        /\ layer' = IF IsNew(f) THEN [layer EXCEPT ![Target(f)] = m] ELSE layer
        /\ view' = [p \in Procs |-> IF p[1] = f THEN Row(p) ELSE view[p]]
        /\ UNCHANGED <<mode, prog, parsed, types, status, strings, numbers, pc, at, row,
                       plain, old, misread>>
    BY DEF BeginFile
  <1>2. ~Parallel /\ mode \in {"serial", "serialNew"}
    <2>1. ~Parallel
      BY <1>0, <1>1 DEF TypeInv, ParsedParts, Begun
    <2> QED
      BY <1>0, <2>1, ModeFacts DEF TypeInv
  <1>3. \A g \in Files : /\ Source(g) = 0 /\ g \in Nat /\ Len(prog[g]) \in Nat
                         /\ Target(g) = Target(f) /\ (IsNew(g) <=> IsNew(f))
                         /\ Target(g) \in Layers
    <2>1. \A g \in Files : Len(prog[g]) \in Nat
      BY <1>0, ExprFacts DEF TypeInv
    <2> QED
      BY <1>0, <1>2, <2>1, ModeFacts DEF TypeInv, IsNew
  <1>4. 0 \in Layers /\ layer = [k \in Layers |-> layer[k]]
        /\ IsLayer(layer[0]) /\ AllLocated(layer[0]) /\ IsLayer(l)
    BY <1>0, <1>2, <1>3 DEF LayersInv, AllLocated, Layers
  <1>5. IsNew(f) => /\ Target(f) # 0 /\ IsLayer(m) /\ AllLocated(m)
                    /\ IsOutput(m, layer[0]) /\ Len(m.rows) = Len(l.rows)
    <2>1. SUFFICES ASSUME IsNew(f)
                   PROVE  /\ Target(f) # 0 /\ IsLayer(m) /\ AllLocated(m)
                          /\ IsOutput(m, layer[0]) /\ Len(m.rows) = Len(l.rows)
      OBVIOUS
    <2>2. Target(f) # 0 /\ mode = "serialNew"
      BY <1>0, <1>2, <2>1, ModeFacts DEF TypeInv
    <2>3. l.src = 0
      BY <1>0, <1>3, <2>2 DEF LayersInv
    <2> HIDE DEF l
    <2> QED
      BY <1>4, <2>2, <2>3, CopyLoadedFacts
  <1> HIDE DEF m
  <1>6. /\ layer' = [k \in Layers |-> layer'[k]] /\ layer'[0] = layer[0]
        /\ IsNew(f) => layer'[Target(f)] = m
        /\ \A k \in Layers : k # Target(f) \/ ~IsNew(f) => layer'[k] = layer[k]
    BY <1>1, <1>3, <1>4, <1>5
  <1>7. \A k \in Layers : /\ IsLayer(layer'[k]) /\ AllLocated(layer'[k])
                          /\ Len(layer'[k].rows) = Len(layer[k].rows)
    <2>1. \A k \in Layers : IsLayer(layer[k]) /\ AllLocated(layer[k])
      BY <1>0, <1>2 DEF LayersInv, AllLocated
    <2>2. ASSUME NEW k \in Layers
          PROVE  /\ IsLayer(layer'[k]) /\ AllLocated(layer'[k])
                 /\ Len(layer'[k].rows) = Len(layer[k].rows)
      <3>1. CASE IsNew(f) /\ k = Target(f)
        BY <1>5, <1>6, <3>1
      <3>2. CASE ~(IsNew(f) /\ k = Target(f))
        BY <1>6, <2>1, <3>2
      <3> QED
        BY <3>1, <3>2
    <2> QED
      BY <2>2
  <1>8. /\ begun' \subseteq Files /\ f \in begun' /\ parsed[f] = {}
        /\ \A g : g # f => (g \in begun' <=> g \in begun)
        /\ \A g : AllParsed(g) => AllParsed(g)'
        /\ ~AllParsed(f)
    <2>1. parsed[f] = {}
      BY <1>0, <1>1 DEF TypeInv, ParsedParts, Begun
    <2> QED
      BY <1>0, <1>1, <2>1 DEF TypeInv, AllParsed
  <1>9. /\ \A p \in Procs : p[1] = f => view'[p] = Row(p)
        /\ \A p \in Procs : p[1] # f => view'[p] = view[p]
        /\ view' = [p \in Procs |-> view'[p]]
    BY <1>1
  <1>10. ASSUME NEW g \in Files PROVE Current(g)' <=> g = f
    <2>1. CASE g = f
      <3>1. ASSUME NEW h \in Files, h > f, h \in begun' PROVE FALSE
        <4>1. Begun(h)
          BY <1>3, <1>8, <3>1 DEF Begun
        <4>2. 1 \in Items
          BY RowsFacts
        <4> DEFINE p == <<f, 1>>
        <4>3. p \in Procs /\ p[1] = f
          BY <4>2 DEF Procs
        <4> HIDE DEF p
        <4>4. pc[p] = "condition"
          BY <1>0, <1>8, <4>3 DEF OrderInv
        <4>5. pc[p] = "done"
          BY <1>0, <1>2, <1>3, <3>1, <4>1, <4>3 DEF OrderInv
        <4> QED
          BY <4>4, <4>5
      <3> QED
        BY <1>8, <2>1, <3>1 DEF Current, Begun, Ran
    <2>2. CASE g # f
      <3>1. ASSUME Begun(g)' PROVE Ran(g)'
        <4>1. Begun(g)
          BY <1>8, <2>2, <3>1 DEF Begun
        <4>2. 1 \in Items
          BY RowsFacts
        <4> DEFINE p == <<f, 1>>
        <4>3. p \in Procs /\ p[1] = f
          BY <4>2 DEF Procs
        <4> HIDE DEF p
        <4>4. pc[p] = "condition"
          BY <1>0, <1>8, <4>3 DEF OrderInv
        <4>5. ~(f < g)
          BY <1>0, <1>2, <1>3, <4>1, <4>3, <4>4 DEF OrderInv
        <4>6. f > g
          BY <1>3, <2>2, <4>5
        <4> QED
          BY <1>1, <1>2, <1>8, <4>6 DEF Ran
      <3> QED
        BY <2>2, <3>1 DEF Current
    <2> QED
      BY <2>1, <2>2
  <1>11. TypeInv'
    <2>1. ASSUME NEW g \in Files
          PROVE  ParsedParts(g)'
      <3>1. ParsedParts(g)
        BY <1>0 DEF TypeInv
      <3>2. /\ parsed'[g] \subseteq 1..Len(prog'[g]) /\ InOrder(g)'
            /\ Len(types'[g]) = Len(prog'[g])
        BY <1>1, <3>1 DEF ParsedParts, InOrder
      <3>3. Parallel' \/ parsed'[g] # {} => Begun(g)'
        BY <1>1, <3>1, SameModes DEF ParsedParts, Begun
      <3> QED
        BY <3>2, <3>3 DEF ParsedParts
    <2>2. ASSUME NEW p \in Procs
          PROVE  IsMap(view'[p], Values) /\ DOMAIN view'[p] = DOMAIN view[p]
                 /\ Tags \cup {"guid"} \subseteq DOMAIN view[p]
      <3>1. IsMap(Row(p), Values) /\ DOMAIN Row(p) = DOMAIN view[p]
        BY <1>0, RowShows
      <3>2. IsMap(view[p], Values) /\ Tags \cup {"guid"} \subseteq DOMAIN view[p]
        BY <1>0 DEF TypeInv
      <3> QED
        BY <1>9, <3>1, <3>2
    <2>3. IsCache(strings', Values) /\ IsCache(numbers', Numbers)
      BY <1>0, <1>1 DEF TypeInv
    <2>4. /\ mode' \in Modes /\ prog' \in [Files -> Programs]
          /\ parsed' \in [Files -> SUBSET Nat] /\ types' \in [Files -> Seq(Kinds)]
          /\ pc' \in [Procs -> Steps] /\ at' \in [Procs -> Nat \ {0}]
          /\ row' \in [Procs -> Nat] /\ old' \in [Procs -> Values]
      BY <1>0, <1>1 DEF TypeInv
    <2>5. \A p \in Procs : /\ IsMap(view'[p], Values)
                           /\ Tags \cup {"guid"} \subseteq DOMAIN view'[p]
      BY <2>2
    <2> QED
      BY <1>8, <1>9, <2>1, <2>3, <2>4, <2>5
         DEF TypeInv, IsCache, IsMap, Layers, Items, Procs, Values, Names, Numbers, Tags,
             Kinds, Steps
  <1>12. LayersInv'
    <2>1. ASSUME NEW k \in Layers
          PROVE  /\ IsLayer(layer'[k])
                 /\ k = 0 \/ mode = "own" => IsInput(layer'[k])
                 /\ k # 0 /\ mode \in {"shared", "serialNew"} => layer'[k].src = 0
                 /\ AllLocated(layer'[k])
      <3>1. k = 0 => IsInput(layer'[k])
        BY <1>0, <1>4, <1>6 DEF LayersInv
      <3>2. k # 0 /\ mode \in {"shared", "serialNew"} => layer'[k].src = 0
        <4>1. k # 0 /\ mode \in {"shared", "serialNew"} => layer[k].src = 0
          BY <1>0 DEF LayersInv
        <4>2. CASE IsNew(f) /\ k = Target(f)
          BY <1>5, <1>6, <4>2 DEF IsOutput
        <4>3. CASE ~(IsNew(f) /\ k = Target(f))
          BY <1>6, <4>1, <4>3
        <4> QED
          BY <4>2, <4>3
      <3> QED
        BY <1>2, <1>7, <3>1, <3>2
    <2>2. ASSUME NEW g \in Files, IsNew(g) PROVE IsOutput(layer'[Target(g)], layer'[0])
      BY <1>3, <1>5, <1>6, <2>2
    <2>3. \A k \in Layers : (IsLayer(layer[k]))' /\ (IsInput(layer[k])' <=> IsInput(layer'[k]))
      BY <2>1 DEF IsLayer, IsInput, Full, Items, Values, Names, Tags, Kinds, IsRecord, IsMap,
                  Distinct, Located
    <2>4. \A g \in Files : IsOutput(layer[Target(g)], layer[0])' <=>
                             IsOutput(layer'[Target(g)], layer'[0])
      BY <1>1, SameModes DEF IsOutput
    <2>5. \A k \in Layers : DOMAIN layer'[k].types \subseteq DOMAIN layer'[k].colCache
      BY <2>1 DEF AllLocated
    <2> QED
      BY <1>1, <1>6, <2>1, <2>2, <2>3, <2>4, <2>5, SameModes DEF LayersInv, Layers
  <1>13. OrderInv'
    <2>1. ASSUME NEW p \in Procs, ~AllParsed(p[1])' PROVE pc[p] = "condition"
      <3>1. ~AllParsed(p[1])
        BY <1>8, <2>1
      <3> QED
        BY <1>0, <3>1 DEF OrderInv
    <2>2. ASSUME NEW p \in Procs, NEW g \in Files, p[1] < g, g \in begun'
          PROVE  pc[p] = "done"
      <3>1. CASE g = f
        BY <1>1, <2>2, <3>1
      <3>2. CASE g # f
        <4>1. Begun(g)
          BY <1>8, <2>2, <3>2 DEF Begun
        <4> QED
          BY <1>0, <1>2, <2>2, <4>1 DEF OrderInv
      <3> QED
        BY <3>1, <3>2
    <2>3. mode' # "shared"
      BY <1>1, <1>2
    <2> QED
      BY <1>1, <2>1, <2>2, <2>3 DEF OrderInv, Begun, Procs
  <1>14. ParsedInv'
    <2>1. ASSUME NEW g \in Files PROVE TypesHaveColumns(g)'
      <3>1. AllLocated(layer'[Target(g)]) /\ Target(g)' = Target(g)
        BY <1>1, <1>3, <1>7, SameModes
      <3> QED
        BY <3>1 DEF TypesHaveColumns, AllLocated
    <2>2. ASSUME NEW g \in Files, NEW k \in parsed[g]
          PROVE  HasTag(prog[g][k]) /\ ~prog[g][k].assign /\ types[g][k] # "New" =>
                   prog[g][k].tag \in DOMAIN layer'[Source(g)].colCache
      <3>3. HasTag(prog[g][k]) /\ ~prog[g][k].assign /\ types[g][k] # "New" =>
              prog[g][k].tag \in DOMAIN layer[Source(g)].colCache
        BY <1>0, <2>2 DEF ParsedInv
      <3>4. layer'[Source(g)] = layer[Source(g)]
        BY <1>3, <1>6
      <3> QED
        BY <3>3, <3>4
    <2>4. mode' # "shared" /\ \A g \in Files : Source(g)' = Source(g)
      BY <1>1, <1>2, SameModes
    <2> QED
      BY <1>1, <2>1, <2>2, <2>4 DEF ParsedInv, HasTag
  <1>15. RowsInv'
    <2>1. ASSUME NEW p \in Procs PROVE ItemInv(p)'
      <3> DEFINE b == Target(p[1])
      <3>1. b \in Layers /\ IsLayer(layer[b]) /\ p[1] \in Files /\ b' = b
        BY <1>0, <1>1, <1>3, ProcFacts, SameModes DEF LayersInv
      <3>2. Len(layer[b].rows) \in Nat /\ row[p] \in Nat /\ ItemInv(p)
        BY <1>0, <3>1, LayerParts DEF TypeInv, RowsInv
      <3>3. Len(layer'[b].rows) \in Nat /\ Len(layer[b].rows) <= Len(layer'[b].rows)
        BY <1>7, <3>1, <3>2
      <3>4. CASE p[1] # f
        <4>1. view'[p] = view[p]
          BY <1>9, <3>4
        <4> HIDE DEF b
        <4> QED
          BY <1>1, <3>2, <3>3, <4>1, ItemKept DEF b
      <3>5. CASE p[1] = f
        <4>1. pc[p] = "condition"
          BY <1>0, <1>8, <3>5 DEF OrderInv
        <4>2. ~(row[p] > 0)
          BY <3>2, <4>1 DEF ItemInv
        <4> QED
          BY <1>1, <4>1, <4>2 DEF ItemInv
      <3> QED
        BY <3>4, <3>5
    <2>2. \A q, s \in Procs : row'[q] = row'[s] /\ row'[q] > 0
                                /\ Target(q[1])' = Target(s[1])' => q = s
      BY <1>0, <1>1, SameModes DEF RowsInv
    <2> QED
      BY <2>1, <2>2 DEF RowsInv, Procs
  <1>16. SeesInv'
    <2>1. ASSUME NEW p \in Procs, Current(p[1])' PROVE Sees(p)'
      <3>1. p[1] = f /\ Source(f) = 0 /\ Source(p[1])' = 0
        BY <1>1, <1>3, <1>10, <2>1, ProcFacts, SameModes
      <3>2. pc[p] = "condition"
        BY <1>0, <1>8, <3>1 DEF OrderInv
      <3>3. row[p] = 0
        BY <1>0, <3>2 DEF RowsInv, ItemInv, TypeInv
      <3>4. Shows(layer[0], layer[0].rows[p[2]], Row(p))
        BY <1>0, <3>1, RowShows
      <3>5. Shows(layer'[0], layer'[0].rows[p[2]], view'[p])
        BY <1>6, <1>9, <3>1, <3>4
      <3>6. Sees(p)' <=> Shows(layer'[0], layer'[0].rows[p[2]], view'[p])
        BY <1>1, <3>1, <3>3 DEF Sees, Shows
      <3> QED
        BY <3>5, <3>6
    <2> QED
      BY <2>1 DEF SeesInv, Procs
  <1>17. CachesInv'
    <2>1. ASSUME NEW p \in Procs, pc[p] = "condition" PROVE Cached(p)'
      <3>1. Cached(p) /\ Source(p[1]) = 0 /\ Source(p[1])' = 0
        BY <1>0, <1>1, <1>3, <2>1, ProcFacts, SameModes DEF CachesInv
      <3>2. \A i, t : Cell(0, i, t)' = Cell(0, i, t)
        BY <1>6 DEF Cell
      <3>3. \A t : Alone(p[1], t)' <=> Alone(p[1], t)
        BY <1>1, SameModes
      <3> QED
        BY <1>1, <1>6, <3>1, <3>2, <3>3 DEF Cached
    <2> QED
      BY <1>1, <2>1 DEF CachesInv, Procs
  <1>18. ColumnsForAssignments'
    <2>1. ASSUME NEW g \in Files, NEW k \in parsed[g] PROVE Ran(g)'
      <3>1. g # f /\ Begun(g)
        BY <1>0, <1>8, <2>1 DEF TypeInv, ParsedParts
      <3> QED
        BY <1>8, <1>10, <3>1 DEF Current, Begun
    <2> QED
      BY <1>1, <2>1 DEF ColumnsForAssignments
  <1>19. MisreadInv' /\ FaultsOnlyInSerialNew'
    BY <1>0, <1>1, SameModes DEF MisreadInv, MisreadsComeFromOthers, Procs, Names, Tags,
                                 FaultsOnlyInSerialNew
  <1> QED
    BY <1>11, <1>12, <1>13, <1>14, <1>15, <1>16, <1>17, <1>18, <1>19 DEF ItemsInv

\* What parseExpr finds for an expression, and the layer that it leaves.
ParsedLayer(l, first, e, t) ==
  /\ IsLayer(t.layer) /\ Grown(l, t.layer) /\ t.type \in Kinds
  /\ HasTag(e) /\ t.type # "New" => e.tag \in DOMAIN t.layer.colCache
  /\ DOMAIN t.layer.types \subseteq DOMAIN l.types \cup {e.tag}
  /\ HasTag(e) /\ e.tag \notin DOMAIN l.types /\ (e.assign \/ l.src >= 0) =>
       e.tag \in DOMAIN t.layer.colCache
  /\ ~Parallel /\ AllLocated(l) => AllLocated(t.layer)
  /\ e.tag \in DOMAIN t.layer.types /\ e.tag \notin DOMAIN l.types => HasTag(e)
  /\ l.rows = <<>> /\ (\A u \in DOMAIN l.types : l.types[u] = "New") =>
       /\ HasTag(e) => t.type = "New"
       /\ \A u \in DOMAIN t.layer.types : t.layer.types[u] = "New"
  /\ ~e.assign /\ l.src = -1 => t.layer.cols = l.cols
  /\ t.bad => l.rows # <<>> /\ \E c \in 1..Len(l.cols) : c \notin DOMAIN first
LEMMA ParsedLayerFacts ==
  ASSUME NEW l, IsLayer(l), NEW first, NEW e, e.tag \in Names, e.assign \in BOOLEAN, NEW t,
         t = IF HasTag(e) THEN TypedTag(l, first, e.tag, e.assign)
                          ELSE [layer |-> l, type |-> "Empty", bad |-> FALSE]
  PROVE  ParsedLayer(l, first, e, t)
  <1>1. CASE HasTag(e)
    <2> DEFINE tag == e.tag
               isAssign == e.assign
    <2>1. tag \in Names /\ isAssign \in BOOLEAN
      OBVIOUS
    <2>2. TypedLayer(l, first, tag, isAssign, t)
      <3>1. t = TypedTag(l, first, tag, isAssign)
        BY <1>1
      <3> HIDE DEF tag, isAssign
      <3>2. TypedLayer(l, first, tag, isAssign, TypedTag(l, first, tag, isAssign))
        BY <2>1, TypedTagFacts
      <3> QED
        BY <3>1, <3>2
    <2>3. ASSUME ~Parallel, AllLocated(l) PROVE AllLocated(t.layer)
      <3>1. \A u \in DOMAIN l.colCache : u \in DOMAIN t.layer.colCache
        BY <2>2 DEF TypedLayer, Grown
      <3> QED
        BY <2>2, <2>3, <3>1 DEF TypedLayer, AllLocated
    <2> QED
      BY <1>1, <2>2, <2>3 DEF TypedLayer, ParsedLayer
  <1>2. CASE ~HasTag(e)
    <2>1. t.layer = l /\ t.type = "Empty" /\ t.bad = FALSE
      BY <1>2
    <2>2. Grown(l, l)
      BY GrownSelf
    <2> QED
      BY <1>2, <2>1, <2>2 DEF ParsedLayer, Kinds
  <1> QED
    BY <1>1, <1>2

\* A row that has grown shows what it showed.
LEMMA GrownLayers ==
  ASSUME TypeInv, LayersInv, UNCHANGED <<mode, prog>>,
         \A k \in Layers : IsLayer(layer'[k]) /\ Grown(layer[k], layer'[k])
  PROVE  /\ \A k \in Layers :
              /\ Len(layer'[k].rows) = Len(layer[k].rows)
              /\ \A t \in DOMAIN layer[k].colCache : t \in DOMAIN layer'[k].colCache
         /\ \A f \in Files, i \in Items : \A t \in DOMAIN layer[Source(f)].colCache :
              Cell(Source(f), i, t)' = Cell(Source(f), i, t)
  <1>1. ASSUME NEW k \in Layers
        PROVE  /\ Len(layer'[k].rows) = Len(layer[k].rows)
               /\ \A t \in DOMAIN layer[k].colCache : t \in DOMAIN layer'[k].colCache
    <2>1. IsLayer(layer[k]) /\ IsLayer(layer'[k]) /\ Grown(layer[k], layer'[k])
      BY DEF LayersInv
    <2>2. /\ DOMAIN layer[k].rows = 1..Len(layer[k].rows) /\ Len(layer[k].rows) \in Nat
          /\ DOMAIN layer'[k].rows = 1..Len(layer'[k].rows) /\ Len(layer'[k].rows) \in Nat
      BY <2>1, LayerParts
    <2>3. DOMAIN layer'[k].rows = DOMAIN layer[k].rows
      BY <2>1 DEF Grown
    <2>4. \A a, b \in Nat : 1..a = 1..b => a = b
      OBVIOUS
    <2> QED
      BY <2>1, <2>2, <2>3, <2>4 DEF Grown
  <1>2. ASSUME NEW f \in Files, NEW i \in Items,
               NEW t \in DOMAIN layer[Source(f)].colCache
        PROVE  Cell(Source(f), i, t)' = Cell(Source(f), i, t)
    <2> DEFINE l == layer[Source(f)]
               m == layer'[Source(f)]
    <2>1. Source(f) \in Layers /\ Source(f)' = Source(f)
      BY ModeFacts, SameModes DEF TypeInv
    <2>2. Grown(l, m)
      BY <2>1
    <2>3. i \in DOMAIN l.rows /\ Len(l.rows[i]) = Len(l.cols)
          /\ l.colCache[t] \in 1..Len(l.cols)
      BY SourceFacts
    <2>4. m.colCache[t] = l.colCache[t] /\ m.rows[i][l.colCache[t]] = l.rows[i][l.colCache[t]]
      <3> HIDE DEF l, m
      <3>1. t \in DOMAIN l.colCache
        BY DEF l
      <3>2. m.colCache[t] = l.colCache[t] /\ GrownRow(l, m, i)
        BY <2>2, <2>3, <3>1 DEF Grown
      <3>3. \A c \in 1..Len(l.rows[i]) : m.rows[i][c] = l.rows[i][c]
        BY <3>2 DEF GrownRow
      <3> QED
        BY <2>3, <3>2, <3>3
    <2> QED
      BY <2>1, <2>4 DEF Cell
  <1> QED
    BY <1>1, <1>2

\* What the items see does not change when layers grow.
LEMMA GrownSees ==
  ASSUME TypeInv, LayersInv, RowsInv, SeesInv, UNCHANGED <<mode, prog, row, view>>,
         \A k \in Layers : IsLayer(layer'[k]) /\ Grown(layer[k], layer'[k]),
         \A f \in Files : Current(f)' <=> Current(f)
  PROVE  SeesInv'
  <1>1. ASSUME NEW p \in Procs, Current(p[1]) PROVE Sees(p)'
    <2> DEFINE a == Source(p[1])
               b == Target(p[1])
               v == view[p]
    <2>1. /\ p[1] \in Files /\ p[2] \in Items /\ a \in Layers /\ b \in Layers
          /\ a' = a /\ b' = b /\ (LateEmpty(p[1])' <=> LateEmpty(p[1])) /\ row[p] \in Nat
      BY ProcFacts, ModeFacts, SameModes DEF TypeInv
    <2>2. Sees(p) /\ ItemInv(p)
      BY <1>1 DEF SeesInv, RowsInv
    <2>3. IsLayer(layer[a]) /\ IsLayer(layer[b]) /\ IsLayer(layer'[a]) /\ IsLayer(layer'[b])
          /\ Grown(layer[a], layer'[a]) /\ Grown(layer[b], layer'[b])
      BY <2>1 DEF LayersInv
    <2>4. CASE row[p] = 0
      <3> DEFINE l == layer[a]
                 m == layer'[a]
                 r == p[2]
      <3>1. Shows(l, l.rows[r], v) /\ r \in DOMAIN l.rows /\ Len(l.rows[r]) = Len(l.cols)
        BY <2>1, <2>2, <2>4, SourceFacts DEF Sees
      <3>2. IsLayer(l) /\ IsLayer(m) /\ Grown(l, m)
        BY <2>3
      <3> HIDE DEF l, m, r, v
      <3>3. Shows(m, m.rows[r], v)
        BY <3>1, <3>2, GrownShows
      <3> USE DEF l, m, r, v
      <3> HIDE DEF a
      <3>4. Shows(layer'[a], layer'[a].rows[p[2]], view'[p])
        BY <3>3
      <3> QED
        BY <2>1, <2>4, <3>4 DEF Sees, a
    <2>5. CASE row[p] # 0 /\ ~LateEmpty(p[1])
      <3> DEFINE l == layer[b]
                 m == layer'[b]
                 r == row[p]
      <3>1. Shows(l, l.rows[r], v) /\ Len(l.rows[r]) = Len(l.cols) /\ r <= Len(l.rows)
            /\ r \in Nat \ {0}
        BY <2>1, <2>2, <2>5 DEF Sees, ItemInv
      <3>2. IsLayer(l) /\ IsLayer(m) /\ Grown(l, m)
        BY <2>3
      <3> HIDE DEF l, m, r, v
      <3>3. r \in DOMAIN l.rows
        BY <3>1, <3>2, LayerParts
      <3>4. Len(m.rows[r]) = Len(m.cols) /\ Shows(m, m.rows[r], v)
        BY <3>1, <3>2, <3>3, GrownShows
      <3> USE DEF l, m, r, v
      <3> HIDE DEF b
      <3>5. /\ Len(layer'[b].rows[row'[p]]) = Len(layer'[b].cols)
            /\ Shows(layer'[b], layer'[b].rows[row'[p]], view'[p])
        BY <3>4
      <3> QED
        BY <2>1, <2>5, <3>5 DEF Sees, b
    <2>6. CASE row[p] # 0 /\ LateEmpty(p[1])
      BY <2>1, <2>6 DEF Sees
    <2> QED
      BY <2>4, <2>5, <2>6
  <1>2. \A p \in Procs : Current(p[1])' => Current(p[1])
    BY ProcFacts
  <1> QED
    BY <1>1, <1>2 DEF SeesInv, Procs

\* A parsed expression changes the layer it asks, and the types of its file.
ParseStep(f, n, k, t) ==
  /\ layer' = [layer EXCEPT ![k] = t.layer]
  /\ types' = [types EXCEPT ![f][n] = t.type]
  /\ parsed' = [parsed EXCEPT ![f] = @ \cup {n}]
  /\ status' = CASE t.bad -> "fault"
                 [] ~t.bad /\ t.type = "New" /\ layer[k].rows # <<>>
                      /\ ~SupportsNew(prog[f][n].op) -> "failed"
                 [] OTHER -> status
LayerOf(f, e) == IF e.assign THEN Target(f) ELSE Source(f)
ResultOf(f, e) ==
  IF HasTag(e)
  THEN TypedTag(layer[LayerOf(f, e)], layer[Source(f)].rows[1], e.tag, e.assign)
  ELSE [layer |-> layer[LayerOf(f, e)], type |-> "Empty", bad |-> FALSE]
LEMMA ParseExpressionInv ==
  ASSUME ItemsInv, status = "running", NEW f \in Files, ParseExpression(f)
  PROVE  ItemsInv'
  <1>p. PICK n \in NextOfJobs(f) :
          ParseStep(f, n, LayerOf(f, prog[f][n]), ResultOf(f, prog[f][n]))
    BY DEF ParseExpression, ParseStep, LayerOf, ResultOf
  <1> DEFINE e == prog[f][n]
             k == IF e.assign THEN Target(f) ELSE Source(f)
             first == layer[Source(f)].rows[1]
             t == IF HasTag(e) THEN TypedTag(layer[k], first, e.tag, e.assign)
                               ELSE [layer |-> layer[k], type |-> "Empty", bad |-> FALSE]
             l == layer[k]
             m == t.layer
  <1>0. TypeInv /\ LayersInv /\ OrderInv /\ ParsedInv /\ RowsInv /\ SeesInv
        /\ CachesInv /\ MisreadInv /\ ColumnsForAssignments /\ FaultsOnlyInSerialNew
    BY DEF ItemsInv
  <1>1. /\ Begun(f) /\ ParseStep(f, n, k, t) /\ ~AllParsed(f)
        /\ UNCHANGED <<mode, prog, begun, ItemVars>>
    <2>1. ParseStep(f, n, k, t)
      BY <1>p DEF LayerOf, ResultOf
    <2> QED
      BY <2>1 DEF ParseExpression, NextOfJobs, AllParsed, Begun
  <1>2. /\ n \in Nat \ {0} /\ n \in 1..Len(prog[f]) /\ n \notin parsed[f]
        /\ Len(prog[f]) \in Nat /\ parsed \in [Files -> SUBSET Nat]
        /\ types \in [Files -> Seq(Kinds)] /\ Len(types[f]) = Len(prog[f])
        /\ \A j \in 1..n - 1 : prog[f][j].job = e.job => j \in parsed[f]
    BY <1>0, ExprFacts DEF TypeInv, ParsedParts, NextOfJobs
  <1>3. e.tag \in Names /\ e.assign \in BOOLEAN
    BY <1>0, <1>2, ExprFacts DEF TypeInv
  <1>4. k \in Layers /\ IsLayer(l) /\ Source(f) \in Layers /\ Target(f) \in Layers
    BY <1>0, ModeFacts DEF TypeInv, LayersInv
  <1>5. ParsedLayer(l, first, e, t)
    <2>1. t = IF HasTag(e) THEN TypedTag(l, first, e.tag, e.assign)
                           ELSE [layer |-> l, type |-> "Empty", bad |-> FALSE]
      OBVIOUS
    <2> HIDE DEF t, first, l, e
    <2> QED
      BY <1>3, <1>4, <2>1, ParsedLayerFacts
  <1> HIDE DEF t, first
  <1>6. /\ layer' = [j \in Layers |-> layer'[j]] /\ layer'[k] = m
        /\ \A j \in Layers : j # k => layer'[j] = layer[j]
    <2>1. layer = [j \in Layers |-> layer[j]] /\ layer' = [layer EXCEPT ![k] = m]
      BY <1>0, <1>1 DEF LayersInv, ParseStep
    <2> HIDE DEF k, m
    <2> QED
      BY <1>4, <2>1, OneLayer
  <1>7. /\ parsed' \in [Files -> SUBSET Nat] /\ parsed'[f] = parsed[f] \cup {n}
        /\ \A g \in Files : g # f => parsed'[g] = parsed[g]
        /\ \A g \in Files : parsed[g] \subseteq parsed'[g]
    BY <1>1, <1>2 DEF ParseStep
  <1>8. /\ types' \in [Files -> Seq(Kinds)] /\ Len(types'[f]) = Len(prog[f])
        /\ types'[f][n] = t.type /\ \A j \in parsed[f] : types'[f][j] = types[f][j]
        /\ \A g \in Files : g # f => types'[g] = types[g]
    <2>1. types' = [types EXCEPT ![f][n] = t.type] /\ t.type \in Kinds
      BY <1>1, <1>5 DEF ParseStep, ParsedLayer
    <2> DEFINE seq == [types[f] EXCEPT ![n] = t.type]
    <2>2. types[f] \in Seq(Kinds) /\ n \in 1..Len(types[f]) /\ parsed[f] \subseteq DOMAIN types[f]
      BY <1>0, <1>2 DEF TypeInv, ParsedParts
    <2>3. /\ seq \in Seq(Kinds) /\ Len(seq) = Len(prog[f]) /\ seq[n] = t.type
          /\ \A j \in parsed[f] : seq[j] = types[f][j]
      BY <1>2, <2>1, <2>2
    <2>4. types' = [types EXCEPT ![f] = seq]
      BY <2>1
    <2> HIDE DEF seq
    <2> QED
      BY <1>2, <2>3, <2>4
  <1>9. \A g \in Files : (Ran(g)' <=> Ran(g)) /\ (Current(g)' <=> Current(g))
    BY <1>1 DEF Ran, Current, Begun
  <1>10. \A j \in Layers : IsLayer(layer'[j]) /\ Grown(layer[j], layer'[j])
    <2>1. IsLayer(m) /\ Grown(l, m)
      BY <1>5 DEF ParsedLayer
    <2>2. \A j \in Layers : IsLayer(layer[j]) /\ Grown(layer[j], layer[j])
      BY <1>0, GrownSelf DEF LayersInv
    <2>3. ASSUME NEW j \in Layers PROVE IsLayer(layer'[j]) /\ Grown(layer[j], layer'[j])
      <3>1. CASE j = k
        BY <1>6, <2>1, <3>1
      <3>2. CASE j # k
        BY <1>6, <2>2, <3>2
      <3> QED
        BY <3>1, <3>2
    <2> QED
      BY <2>3
  <1>11. /\ \A j \in Layers :
              /\ Len(layer'[j].rows) = Len(layer[j].rows)
              /\ \A u \in DOMAIN layer[j].colCache : u \in DOMAIN layer'[j].colCache
         /\ \A g \in Files, i \in Items : \A u \in DOMAIN layer[Source(g)].colCache :
              Cell(Source(g), i, u)' = Cell(Source(g), i, u)
    BY <1>0, <1>1, <1>10, GrownLayers
  <1>12. mode = "shared" => layer[f].rows = <<>>
    <2>1. 1 \in Items
      BY RowsFacts
    <2> DEFINE p == <<f, 1>>
    <2>2. p \in Procs /\ p[1] = f
      BY <2>1 DEF Procs
    <2> HIDE DEF p
    <2> QED
      BY <1>0, <1>1, <2>2 DEF OrderInv
  <1>13. TypeInv'
    <2>1. ASSUME NEW g \in Files PROVE ParsedParts(g)'
      <3>1. ParsedParts(g)
        BY <1>0 DEF TypeInv
      <3>2. CASE g = f
        <4>1. parsed'[f] = parsed[f] \cup {n} /\ InOrder(f) /\ parsed[f] \subseteq 1..Len(prog[f])
          BY <1>7, <3>1, <3>2 DEF ParsedParts
        <4>2. InOrder(f)'
          BY <1>1, <1>2, <4>1 DEF InOrder
        <4> QED
          BY <1>1, <1>2, <1>8, <3>2, <4>1, <4>2 DEF ParsedParts, Begun
      <3>3. CASE g # f
        BY <1>1, <1>7, <1>8, <3>1, <3>3, SameModes DEF ParsedParts, InOrder, Begun
      <3> QED
        BY <3>2, <3>3
    <2>5. begun' \subseteq Files
      BY <1>0, <1>1 DEF TypeInv
    <2>2. IsCache(strings', Values) /\ IsCache(numbers', Numbers)
      BY <1>0, <1>1 DEF TypeInv, ItemVars
    <2>3. /\ mode' \in Modes /\ prog' \in [Files -> Programs]
          /\ pc' \in [Procs -> Steps] /\ at' \in [Procs -> Nat \ {0}]
          /\ row' \in [Procs -> Nat] /\ old' \in [Procs -> Values]
          /\ view' = [p \in Procs |-> view'[p]]
      BY <1>0, <1>1 DEF TypeInv, ItemVars
    <2>4. \A p \in Procs : /\ IsMap(view'[p], Values)
                           /\ Tags \cup {"guid"} \subseteq DOMAIN view'[p]
      BY <1>0, <1>1 DEF TypeInv, ItemVars
    <2> QED
      BY <1>7, <1>8, <2>1, <2>2, <2>3, <2>4, <2>5
         DEF TypeInv, IsCache, IsMap, Layers, Items, Procs, Values, Names, Numbers, Tags,
             Kinds, Steps
  <1>14. LayersInv'
    <2>1. ASSUME NEW j \in Layers
          PROVE  /\ IsLayer(layer'[j])
                 /\ j = 0 \/ mode = "own" => IsInput(layer'[j])
                 /\ j # 0 /\ mode \in {"shared", "serialNew"} => layer'[j].src = 0
                 /\ ~Parallel => DOMAIN layer'[j].types \subseteq DOMAIN layer'[j].colCache
      <3>1. /\ IsLayer(layer[j])
            /\ j = 0 \/ mode = "own" => IsInput(layer[j])
            /\ j # 0 /\ mode \in {"shared", "serialNew"} => layer[j].src = 0
            /\ ~Parallel => AllLocated(layer[j])
        BY <1>0 DEF LayersInv, AllLocated
      <3>2. IsLayer(layer'[j]) /\ Grown(layer[j], layer'[j])
        BY <1>10
      <3>3. j = 0 \/ mode = "own" => IsInput(layer'[j])
        <4> DEFINE x == layer[j]
                   y == layer'[j]
        <4> SUFFICES ASSUME IsInput(x) PROVE IsInput(y)
          BY <3>1
        <4>1. IsLayer(x) /\ IsLayer(y) /\ Grown(x, y)
          BY <3>1, <3>2
        <4> HIDE DEF x, y
        <4>2. Full(y) /\ DOMAIN y.rows = DOMAIN x.rows /\ y.src = x.src
          BY <4>1, GrownFull DEF IsInput
        <4> QED
          BY <4>1, <4>2 DEF IsInput, Grown
      <3>4. ~Parallel => AllLocated(layer'[j])
        <4>1. CASE j = k
          BY <1>5, <1>6, <3>1, <4>1 DEF ParsedLayer
        <4>2. CASE j # k
          BY <1>6, <3>1, <4>2
        <4> QED
          BY <4>1, <4>2
      <3>5. layer'[j].src = layer[j].src
        BY <3>2 DEF Grown
      <3> QED
        BY <3>1, <3>2, <3>3, <3>4, <3>5 DEF AllLocated
    <2>2. ASSUME NEW g \in Files, IsNew(g), Begun(g)
          PROVE  IsOutput(layer'[Target(g)], layer'[0])
      <3> DEFINE x == layer[Target(g)]
                 y == layer'[Target(g)]
                 i == layer[0]
                 j == layer'[0]
      <3>1. IsOutput(x, i)
        BY <1>0, <2>2 DEF LayersInv
      <3>2. Target(g) \in Layers /\ 0 \in Layers
        BY <1>0, ModeFacts DEF TypeInv, Layers
      <3>3. Grown(x, y)
        BY <1>10, <3>2
      <3>4. j.cols = i.cols
        <4>1. CASE k = 0
          <5>1. mode \in {"shared", "serialNew"} /\ Target(f) # 0
            BY <1>0, <2>2, ModeFacts DEF TypeInv, IsNew
          <5>2. ~e.assign
            BY <4>1, <5>1
          <5>3. l.src = -1
            BY <1>0, <3>2, <4>1 DEF LayersInv, IsInput
          <5>4. m.cols = l.cols
            BY <1>5, <5>2, <5>3 DEF ParsedLayer
          <5> QED
            BY <1>6, <4>1, <5>4
        <4>2. CASE k # 0
          BY <1>6, <3>2, <4>2
        <4> QED
          BY <4>1, <4>2
      <3>5. IsLayer(x) /\ IsLayer(i)
        BY <1>0, <3>2 DEF LayersInv
      <3> HIDE DEF x, y, i, j
      <3>6. Len(x.cols) \in Nat /\ Len(i.cols) \in Nat
        BY <3>5, LayerParts
      <3>7. IsOutput(y, j)
        <4>1. y.src = 0 /\ "guid" \in DOMAIN y.colCache
          BY <3>1, <3>3 DEF IsOutput, Grown
        <4>2. Len(x.cols) <= Len(y.cols) /\ \A c \in 1..Len(x.cols) : y.cols[c] = x.cols[c]
          BY <3>3 DEF Grown
        <4>3. Len(i.cols) <= Len(x.cols) /\ \A c \in 1..Len(i.cols) : x.cols[c] = i.cols[c]
          BY <3>1 DEF IsOutput
        <4>4. Len(y.cols) \in Nat
          <5>1. IsLayer(y)
            BY <1>10, <3>2 DEF y
          <5> QED
            BY <5>1, LayerParts
        <4>5. Len(i.cols) <= Len(y.cols) /\ \A c \in 1..Len(i.cols) : y.cols[c] = i.cols[c]
          BY <3>6, <4>2, <4>3, <4>4
        <4> QED
          BY <3>4, <4>1, <4>5 DEF IsOutput
      <3> QED
        BY <3>7 DEF y, j
    <2>3. \A j \in Layers : (IsLayer(layer[j]))' /\ (IsInput(layer[j])' <=> IsInput(layer'[j]))
      BY <2>1 DEF IsLayer, IsInput, Full, Items, Values, Names, Tags, Kinds, IsRecord, IsMap,
                  Distinct, Located
    <2>4. \A g \in Files : IsOutput(layer[Target(g)], layer[0])' <=>
                             IsOutput(layer'[Target(g)], layer'[0])
      BY <1>1, SameModes DEF IsOutput
    <2> QED
      BY <1>1, <1>6, <1>7, <2>1, <2>2, <2>3, <2>4, SameModes DEF LayersInv, Layers, Begun
  <1>15. OrderInv'
    <2>1. ASSUME NEW p \in Procs, ~AllParsed(p[1])'
          PROVE  /\ pc[p] = "condition"
                 /\ mode = "shared" => layer'[p[1]].rows = <<>>
      <3>1. p[1] \in Files /\ p[1] \in Layers
        BY ProcFacts DEF Layers
      <3>2. ~AllParsed(p[1])
        <4>1. p[1] = f \/ parsed'[p[1]] = parsed[p[1]]
          BY <1>7, <3>1
        <4> QED
          BY <1>1, <2>1, <4>1 DEF AllParsed
      <3>3. Grown(layer[p[1]], layer'[p[1]])
        BY <1>10, <3>1
      <3> QED
        BY <1>0, <3>2, <3>3 DEF OrderInv, Grown
    <2>2. UNCHANGED pc
      BY <1>1 DEF ItemVars
    <2> QED
      BY <1>0, <1>1, <1>7, <2>1, <2>2, SameModes DEF OrderInv, Procs, Begun
  <1>16. ParsedInv'
    <2>1. ASSUME NEW g \in Files PROVE TypesHaveColumns(g)'
      <3> DEFINE own == IF mode = "own" THEN Asked(g) ELSE {}
                 owned == IF mode = "own" THEN Asked(g)' ELSE {}
      <3>1. Target(g) \in Layers /\ Target(g)' = Target(g)
        BY <1>0, <1>1, ModeFacts, SameModes DEF TypeInv
      <3>2. DOMAIN layer[Target(g)].types \subseteq DOMAIN layer[Target(g)].colCache \cup own
        BY <1>0 DEF ParsedInv, TypesHaveColumns
      <3>3. own \subseteq owned
        BY <1>1, <1>7 DEF Asked, Asks, HasTag
      <3>4. DOMAIN layer'[Target(g)].types \subseteq
              DOMAIN layer'[Target(g)].colCache \cup owned
        <4>1. CASE Target(g) # k
          BY <1>6, <3>1, <3>2, <3>3, <4>1
        <4>2. CASE Target(g) = k
          <5>1. ASSUME NEW u \in DOMAIN m.types
                PROVE  u \in DOMAIN m.colCache \cup owned
            <6>1. u \in DOMAIN l.types \cup {e.tag}
              BY <1>5, <5>1 DEF ParsedLayer
            <6>2. CASE u \in DOMAIN l.types
              <7>1. u \in DOMAIN l.colCache \cup own
                BY <3>2, <4>2, <6>2
              <7>2. u \in DOMAIN l.colCache => u \in DOMAIN m.colCache
                BY <1>4, <1>6, <1>11
              <7> QED
                BY <3>3, <7>1, <7>2
            <6>3. CASE u \notin DOMAIN l.types
              <7>1. u = e.tag /\ HasTag(e)
                BY <1>5, <5>1, <6>1, <6>3 DEF ParsedLayer
              <7>2. CASE mode = "own"
                <8>1. g = f
                  BY <1>0, <4>2, <7>2, ModeFacts DEF TypeInv
                <8>2. e.assign => u \in DOMAIN m.colCache
                  BY <1>5, <6>3, <7>1 DEF ParsedLayer
                <8>3. ~e.assign => u \in Asked(g)'
                  <9>1. n \in parsed'[g] /\ prog'[g][n] = e
                    BY <1>1, <1>7, <8>1
                  <9> QED
                    BY <7>1, <9>1 DEF Asked, Asks, HasTag
                <8> QED
                  BY <7>2, <8>2, <8>3
              <7>3. CASE mode = "shared"
                <8>1. e.assign
                  <9>1. Target(g) # 0 /\ Source(f) = 0
                    BY <1>0, <7>3, ModeFacts DEF TypeInv
                  <9> QED
                    BY <4>2, <9>1
                <8> QED
                  BY <1>5, <6>3, <7>1, <8>1 DEF ParsedLayer
              <7>4. CASE ~Parallel
                <8>1. AllLocated(l)
                  BY <1>0, <1>4, <7>4 DEF LayersInv, AllLocated
                <8> QED
                  BY <1>5, <5>1, <7>4, <8>1 DEF ParsedLayer, AllLocated
              <7> QED
                BY <7>2, <7>3, <7>4 DEF Parallel
            <6> QED
              BY <6>2, <6>3
          <5> QED
            BY <1>6, <4>2, <5>1
        <4> QED
          BY <4>1, <4>2
      <3> QED
        BY <1>1, <3>1, <3>4 DEF TypesHaveColumns
    <2>2. ASSUME NEW g \in Files, mode = "shared"
          PROVE  \A u \in DOMAIN layer'[g].types : layer'[g].types[u] = "New"
      <3>1. \A u \in DOMAIN layer[g].types : layer[g].types[u] = "New"
        BY <1>0, <2>2 DEF ParsedInv
      <3>2. g \in Layers /\ g # 0 /\ Source(f) = 0 /\ Target(f) = f
        BY <1>0, <2>2, ModeFacts DEF TypeInv, Layers
      <3>3. CASE g = k
        <4>1. g = f /\ l.rows = <<>>
          BY <1>12, <2>2, <3>2, <3>3
        <4>2. \A u \in DOMAIN l.types : l.types[u] = "New"
          BY <3>1, <3>3
        <4>3. \A u \in DOMAIN m.types : m.types[u] = "New"
          BY <1>5, <4>1, <4>2 DEF ParsedLayer
        <4> QED
          BY <1>6, <3>3, <4>3
      <3>4. CASE g # k
        BY <1>6, <3>1, <3>2, <3>4
      <3> QED
        BY <3>3, <3>4
    <2>3. ASSUME NEW g \in Files, NEW j \in parsed'[g], HasTag(prog[g][j])
          PROVE  IF prog[g][j].assign
                 THEN mode = "shared" => types'[g][j] = "New"
                 ELSE types'[g][j] # "New" =>
                        prog[g][j].tag \in DOMAIN layer'[Source(g)].colCache
      <3>1. Source(g) \in Layers
        BY <1>0, ModeFacts DEF TypeInv
      <3>2. CASE g # f \/ j # n
        <4>1. j \in parsed[g] /\ types'[g][j] = types[g][j]
          <5>1. CASE g = f
            <6>1. j \in parsed[f]
              BY <1>7, <3>2, <5>1
            <6> QED
              BY <1>8, <5>1, <6>1
          <5>2. CASE g # f
            BY <1>7, <1>8, <5>2
          <5> QED
            BY <5>1, <5>2
        <4>2. IF prog[g][j].assign
              THEN mode = "shared" => types[g][j] = "New"
              ELSE types[g][j] # "New" =>
                     prog[g][j].tag \in DOMAIN layer[Source(g)].colCache
          BY <1>0, <2>3, <4>1 DEF ParsedInv
        <4> QED
          BY <1>11, <3>1, <4>1, <4>2
      <3>3. CASE g = f /\ j = n
        <4>1. types'[f][n] = t.type /\ prog[g][j] = e
          BY <1>8, <3>3
        <4>2. CASE e.assign
          <5>1. ASSUME mode = "shared" PROVE t.type = "New"
            <6>1. k = f
              BY <1>0, <4>2, <5>1, ModeFacts DEF TypeInv
            <6>2. l.rows = <<>> /\ \A u \in DOMAIN l.types : l.types[u] = "New"
              BY <1>0, <1>12, <5>1, <6>1 DEF ParsedInv
            <6> QED
              BY <1>5, <2>3, <4>1, <6>2 DEF ParsedLayer
          <5> QED
            BY <3>3, <4>1, <4>2, <5>1
        <4>3. CASE ~e.assign
          <5>1. k = Source(f)
            BY <4>3
          <5>2. t.type # "New" => e.tag \in DOMAIN m.colCache
            BY <1>5, <2>3, <4>1 DEF ParsedLayer
          <5> QED
            BY <1>6, <3>3, <4>1, <4>3, <5>1, <5>2
        <4> QED
          BY <4>2, <4>3
      <3> QED
        BY <3>2, <3>3
    <2> QED
      BY <1>1, <2>1, <2>2, <2>3, SameModes DEF ParsedInv, HasTag
  <1>17. RowsInv'
    <2>1. ASSUME NEW p \in Procs PROVE ItemInv(p)'
      <3> DEFINE b == Target(p[1])
      <3>1. b \in Layers /\ b' = b /\ p[1] \in Files /\ (IsNew(p[1])' <=> IsNew(p[1]))
        BY <1>0, <1>1, ProcFacts, ModeFacts, SameModes DEF TypeInv
      <3>2. row[p] \in Nat /\ ItemInv(p) /\ Len(layer'[b].rows) = Len(layer[b].rows)
        BY <1>0, <1>11, <3>1 DEF TypeInv, RowsInv
      <3>3. UNCHANGED <<pc, at, row, old, view>>
        BY <1>1 DEF ItemVars
      <3>4. CASE p[1] = f
        <4>1. pc[p] = "condition"
          BY <1>0, <1>1, <3>4 DEF OrderInv
        <4>2. ~(row[p] > 0)
          BY <3>2, <4>1 DEF ItemInv
        <4> QED
          BY <3>3, <4>1, <4>2 DEF ItemInv
      <3>5. CASE p[1] # f
        <4>1. types'[p[1]] = types[p[1]]
          BY <1>8, <3>1, <3>5
        <4>2. /\ AtAssignment(p)' <=> AtAssignment(p)
              /\ AfterAssignment(p)' <=> AfterAssignment(p)
              /\ NumberAssign(p)' <=> NumberAssign(p)
              /\ Expr(p)' = Expr(p)
          BY <1>1, <3>3, <4>1 DEF AtAssignment, AfterAssignment, NumberAssign, Left, Expr
        <4> QED
          BY <3>1, <3>2, <3>3, <4>2 DEF ItemInv
      <3> QED
        BY <3>4, <3>5
    <2>2. \A q, s \in Procs : row'[q] = row'[s] /\ row'[q] > 0
                                /\ Target(q[1])' = Target(s[1])' => q = s
      <3>1. UNCHANGED row
        BY <1>1 DEF ItemVars
      <3> QED
        BY <1>0, <1>1, <3>1, SameModes DEF RowsInv
    <2> QED
      BY <2>1, <2>2 DEF RowsInv, Procs
  <1>18. SeesInv'
    <2>1. UNCHANGED <<mode, prog, row, view>>
      BY <1>1 DEF ItemVars
    <2> QED
      BY <1>0, <1>9, <1>10, <2>1, GrownSees
  <1>19. CachesInv'
    <2>1. ASSUME NEW p \in Procs, pc[p] = "condition" PROVE Cached(p)'
      <3>1. Cached(p) /\ p[1] \in Files /\ p[2] \in Items /\ Source(p[1]) \in Layers
            /\ Source(p[1])' = Source(p[1])
        BY <1>0, <1>1, <2>1, ProcFacts, ModeFacts, SameModes DEF CachesInv, TypeInv
      <3>2. \A u \in DOMAIN layer[Source(p[1])].colCache :
              /\ u \in DOMAIN layer'[Source(p[1])].colCache
              /\ Cell(Source(p[1]), p[2], u)' = Cell(Source(p[1]), p[2], u)
        BY <1>11, <3>1
      <3>3. \A u : Alone(p[1], u)' <=> Alone(p[1], u)
        BY <1>1, SameModes
      <3>4. UNCHANGED <<strings, numbers>>
        BY <1>1 DEF ItemVars
      <3> QED
        BY <3>1, <3>2, <3>3, <3>4 DEF Cached
    <2>2. UNCHANGED pc
      BY <1>1 DEF ItemVars
    <2> QED
      BY <2>1, <2>2 DEF CachesInv, Procs
  <1>20. ColumnsForAssignments'
    <2>1. ASSUME NEW g \in Files, NEW j \in parsed'[g],
                 prog[g][j].assign, HasTag(prog[g][j]), ~Ran(g)
          PROVE  \/ prog[g][j].tag \in DOMAIN layer'[Target(g)].colCache
                 \/ mode = "own" /\ AskedBefore(g, j)
      <3>1. Target(g) \in Layers
        BY <1>0, ModeFacts DEF TypeInv
      <3>2. CASE g # f \/ j # n
        <4>1. j \in parsed[g]
          BY <1>7, <3>2
        <4>2. \/ prog[g][j].tag \in DOMAIN layer[Target(g)].colCache
              \/ mode = "own" /\ AskedBefore(g, j)
          BY <1>0, <2>1, <4>1 DEF ColumnsForAssignments
        <4> QED
          BY <1>11, <3>1, <4>2
      <3>3. CASE g = f /\ j = n
        <4>1. prog[g][j] = e /\ k = Target(g) /\ e.assign /\ HasTag(e)
          BY <2>1, <3>3
        <4>2. CASE e.tag \notin DOMAIN l.types
          BY <1>5, <1>6, <4>1, <4>2 DEF ParsedLayer
        <4>3. CASE e.tag \in DOMAIN l.types
          <5>1. e.tag \in DOMAIN l.colCache \cup (IF mode = "own" THEN Asked(f) ELSE {})
            BY <1>0, <3>3, <4>1, <4>3 DEF ParsedInv, TypesHaveColumns
          <5>2. CASE e.tag \in DOMAIN l.colCache
            <6>1. e.tag \in DOMAIN m.colCache
              BY <1>4, <1>6, <1>11, <5>2
            <6> QED
              BY <1>6, <4>1, <6>1
          <5>3. CASE e.tag \notin DOMAIN l.colCache
            <6>1. mode = "own" /\ e.tag \in Asked(f)
              BY <5>1, <5>3
            <6>2. PICK i \in parsed[f] : Asks(f, i) /\ prog[f][i].tag = e.tag
              BY <6>1 DEF Asked
            <6>3. i \in 1..Len(prog[f]) /\ DOMAIN prog[f] = 1..Len(prog[f]) /\ InOrder(f)
              BY <1>0, <6>2, ExprFacts DEF TypeInv, ParsedParts
            <6>4. i < n \/ prog[f][i].job # e.job
              BY <1>2, <6>2, <6>3 DEF InOrder
            <6> QED
              BY <3>3, <6>1, <6>2, <6>3, <6>4 DEF AskedBefore, Asks
          <5> QED
            BY <5>2, <5>3
        <4> QED
          BY <4>2, <4>3
      <3> QED
        BY <3>2, <3>3
    <2>2. \A g, j : AskedBefore(g, j)' <=> AskedBefore(g, j)
      BY <1>1 DEF AskedBefore, HasTag
    <2> QED
      BY <1>1, <1>9, <2>1, <2>2, SameModes DEF ColumnsForAssignments, HasTag
  <1>21. FaultsOnlyInSerialNew'
    <2>1. ASSUME t.bad PROVE mode = "serialNew"
      <3>1. l.rows # <<>> /\ \E c \in 1..Len(l.cols) : c \notin DOMAIN first
        BY <1>5, <2>1 DEF ParsedLayer
      <3>2. DOMAIN first = 1..Len(layer[Source(f)].cols)
        BY <1>0, SourceFacts, RowsFacts DEF first
      <3>3. k # Source(f)
        BY <3>1, <3>2
      <3>4. k = Target(f) /\ mode \in {"shared", "serialNew"}
        BY <1>0, <3>3, ModeFacts DEF TypeInv
      <3>5. mode # "shared"
        BY <1>0, <1>12, <3>1, <3>4, ModeFacts DEF TypeInv
      <3> QED
        BY <3>4, <3>5
    <2>2. status' = "fault" => t.bad
      <3>1. status' = CASE t.bad -> "fault"
                        [] ~t.bad /\ t.type = "New" /\ layer[k].rows # <<>>
                             /\ ~SupportsNew(prog[f][n].op) -> "failed"
                        [] OTHER -> status
        BY <1>1 DEF ParseStep
      <3> HIDE DEF k, e, l, m
      <3> QED
        BY <3>1
    <2> QED
      BY <1>1, <2>1, <2>2 DEF FaultsOnlyInSerialNew
  <1>22. MisreadInv'
    <2>1. UNCHANGED misread
      BY <1>1 DEF ItemVars
    <2> QED
      BY <1>0, <1>1, <2>1, SameModes DEF MisreadInv, MisreadsComeFromOthers, Procs, Names, Tags
  <1> QED
    BY <1>13, <1>14, <1>15, <1>16, <1>17, <1>18, <1>19, <1>20, <1>21, <1>22 DEF ItemsInv

\* Nothing happens any more.
LEMMA EndedInv ==
  ASSUME ItemsInv, UNCHANGED vars
  PROVE  ItemsInv'
  <1>0. TypeInv /\ LayersInv /\ OrderInv /\ ParsedInv /\ RowsInv /\ SeesInv
        /\ CachesInv /\ MisreadInv /\ ColumnsForAssignments /\ FaultsOnlyInSerialNew
    BY DEF ItemsInv
  <1>1. UNCHANGED <<mode, prog, layer, begun, parsed, types, status, strings, numbers,
                    pc, at, row, plain, old, view, misread>>
    BY DEF vars
  <1>2. LayersInv' /\ ParsedInv' /\ ColumnsForAssignments' /\ SeesInv'
    BY <1>0, <1>1, SameLayers, SameRows
  <1>3. CachesTyped' /\ CachesInv'
    <2>1. CachesTyped'
      BY <1>0, <1>1 DEF TypeInv, CachesTyped, IsCache
    <2>2. \A p \in Procs : Cached(p)' <=> Cached(p)
      BY <1>1, SameCaches
    <2> QED
      BY <1>0, <1>1, <2>1, <2>2 DEF CachesInv, Procs
  <1>4. TypeInv'
    <2>1. /\ pc' \in [Procs -> Steps] /\ at' \in [Procs -> Nat \ {0}]
          /\ row' \in [Procs -> Nat] /\ old' \in [Procs -> Values]
          /\ view' = [p \in Procs |-> view'[p]]
          /\ \A p \in Procs : IsMap(view'[p], Values) /\ DOMAIN view'[p] = DOMAIN view[p]
      BY <1>0, <1>1 DEF TypeInv
    <2> QED
      BY <1>0, <1>1, <1>3, <2>1, TypeKept
  <1>5. OrderInv' /\ MisreadInv' /\ FaultsOnlyInSerialNew'
    <2>1. OrderInv'
      BY <1>0, <1>1, SameModes DEF OrderInv, Begun, AllParsed, Procs
    <2> QED
      BY <1>0, <1>1, <2>1, SameModes DEF MisreadInv, MisreadsComeFromOthers, Procs, Names,
                                         Tags, FaultsOnlyInSerialNew
  <1>6. RowsInv'
    <2>1. ASSUME NEW p \in Procs PROVE ItemInv(p)'
      <3>1. /\ AtAssignment(p)' <=> AtAssignment(p)
            /\ AfterAssignment(p)' <=> AfterAssignment(p)
            /\ NumberAssign(p)' <=> NumberAssign(p)
            /\ Expr(p)' = Expr(p) /\ Target(p[1])' = Target(p[1])
            /\ (IsNew(p[1])' <=> IsNew(p[1]))
        BY <1>1, SameModes DEF AtAssignment, AfterAssignment, NumberAssign, Left, Expr
      <3>2. ItemInv(p)
        BY <1>0 DEF RowsInv
      <3> QED
        BY <1>1, <3>1, <3>2 DEF ItemInv
    <2> QED
      BY <1>0, <1>1, <2>1, SameModes DEF RowsInv, Procs
  <1> QED
    BY <1>2, <1>3, <1>4, <1>5, <1>6 DEF ItemsInv

LEMMA NextInv ==
  ASSUME ItemsInv, [Next]_vars
  PROVE  ItemsInv'
  <1>1. CASE UNCHANGED vars
    BY <1>1, EndedInv
  <1>2. CASE Next
    <2>1. ASSUME status = "running", NEW f \in Files, BeginFile(f) \/ ParseExpression(f)
          PROVE  ItemsInv'
      BY <2>1, BeginFileInv, ParseExpressionInv
    <2>2. ASSUME status = "running", NEW p \in Procs,
                 \/ CheckCondition(p) \/ ReadOldValue(p) \/ AddNewItem(p)
                 \/ AssignEmpty(p) \/ WriteCell(p) \/ WriteCache(p) \/ AddGuid(p)
          PROVE  ItemsInv'
      BY <2>2, CheckConditionInv, ReadOldValueInv, AddNewItemInv, AssignEmptyInv,
         WriteCellInv, WriteCacheInv, AddGuidInv
    <2>3. CASE Ended
      BY <2>3, EndedInv DEF Ended
    <2> QED
      BY <1>2, <2>1, <2>2, <2>3 DEF Next
  <1> QED
    BY <1>1, <1>2

-----------------------------------------------------------------------------
(* The theorems.                                                            *)

\* The layers, caches and items of every file stay as its steps take them to be,
\* for any files, programs and rows and in every mode.
THEOREM ItemsInvariance == Spec => []ItemsInv
  <1>1. Init => ItemsInv
    BY InitInv
  <1>2. ItemsInv /\ [Next]_vars => ItemsInv'
    BY NextInv
  <1> QED
    BY <1>1, <1>2, PTL DEF Spec

\* getTagVal answers with the value that the file should see, from the row or
\* from its caches, unless another file that shares the input writes the tag.
THEOREM MisreadsAreShared == Spec => []MisreadsComeFromOthers
  <1>1. ItemsInv => MisreadsComeFromOthers
    BY DEF ItemsInv, MisreadInv
  <1> QED
    BY <1>1, ItemsInvariance, PTL

\* Every tag that a parsed expression assigns has its column in the target, by
\* checkAddTag or before, however the lines are divided over jobs, unless a condition
\* of an earlier line, or of a line of another job, asks an own layer for it.
THEOREM AssignedColumns == Spec => []ColumnsForAssignments
  <1>1. ItemsInv => ColumnsForAssignments
    BY DEF ItemsInv
  <1> QED
    BY <1>1, ItemsInvariance, PTL

\* The row of an item that is done holds, column by column, what its file saw in
\* the input and what it has assigned, wherever addNewItem has put the row.
THEOREM RowsOfDoneItems == Spec => []RowsHoldAssignments
  <1>1. ItemsInv => RowsHoldAssignments
    <2> SUFFICES ASSUME ItemsInv, NEW p \in Procs, pc[p] = "done", TargetRow(p) > 0,
                        ~Ran(p[1]), ~LateEmpty(p[1])
                 PROVE  Holds(layer[Target(p[1])],
                              layer[Target(p[1])].rows[TargetRow(p)], p)
      BY DEF RowsHoldAssignments
    <2> DEFINE l == layer[Target(p[1])]
               r == l.rows[TargetRow(p)]
    <2>0. TypeInv /\ LayersInv /\ OrderInv /\ RowsInv /\ SeesInv
      BY DEF ItemsInv
    <2>1. p[1] \in Files /\ Target(p[1]) \in Layers /\ row[p] \in Nat
      BY <2>0, ProcFacts, ModeFacts DEF TypeInv
    <2>2. Current(p[1])
      <3>1. AllParsed(p[1])
        BY <2>0, Past
      <3> QED
        BY <3>1 DEF Current, Begun, AllParsed
    <2>3. Sees(p)
      BY <2>0, <2>2 DEF SeesInv
    <2>4. Shows(l, r, view[p])
      <3>1. CASE IsNew(p[1])
        <4>1. TargetRow(p) = row[p] /\ row[p] # 0
          BY <2>1, <3>1 DEF TargetRow
        <4> QED
          BY <2>3, <4>1 DEF Sees
      <3>2. CASE ~IsNew(p[1])
        <4>1. TargetRow(p) = p[2] /\ Target(p[1]) = Source(p[1])
          BY <2>0, <2>1, <3>2, ModeFacts DEF TargetRow, TypeInv
        <4>2. row[p] = 0
          BY <2>0, <2>1, <3>2 DEF RowsInv, ItemInv
        <4> QED
          BY <2>3, <4>1, <4>2 DEF Sees
      <3> QED
        BY <3>1, <3>2
    <2>5. l.cols \in Seq(Names) /\ Distinct(l.cols)
      BY <2>0, <2>1, LayerParts DEF LayersInv
    <2> HIDE DEF l, r
    <2>6. Holds(l, r, p)
      BY <2>4, <2>5, ShowsHolds
    <2> QED
      BY <2>6 DEF l, r
  <1> QED
    BY <1>1, ItemsInvariance, PTL

\* Memory out of range is reached only with the one new layer of serial mode,
\* where types come from an input that may have fewer columns.
THEOREM WhereMemoryIsBad == Spec => []FaultsOnlyInSerialNew
  <1>1. ItemsInv => FaultsOnlyInSerialNew
    BY DEF ItemsInv
  <1> QED
    BY <1>1, ItemsInvariance, PTL

\* As long as an item is at its conditions, the caches of its row hold what the
\* row holds, for every tag that no other file writes.
THEOREM CachesFollowRows == Spec => []CachesInv
  <1>1. ItemsInv => CachesInv
    BY DEF ItemsInv
  <1> QED
    BY <1>1, ItemsInvariance, PTL

\* No two items of a new layer stand for the same row of it.
THEOREM RowsAreOnes == Spec => [](\A p, q \in Procs :
  row[p] = row[q] /\ row[p] > 0 /\ Target(p[1]) = Target(q[1]) => p = q)
  <1> DEFINE Ones == \A p, q \in Procs :
                       row[p] = row[q] /\ row[p] > 0 /\ Target(p[1]) = Target(q[1]) => p = q
  <1>1. ItemsInv => Ones
    BY DEF ItemsInv, RowsInv
  <1> QED
    BY <1>1, ItemsInvariance, PTL
=============================================================================
