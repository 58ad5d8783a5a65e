------------------------------ MODULE MifItems ------------------------------
(***************************************************************************)
(* Layers of roads and the items that jobs make of their rows (MifType.cpp)*)
(* while several files of configuration lines are parsed and applied: the  *)
(* columns and column types of a layer, the rows of a new layer, and the   *)
(* caches of values that the layer keeps for each row.                     *)
(*                                                                         *)
(* A program is the expressions of a file in their order: each condition   *)
(* is followed by the assignments of its line.  The lines of a long file   *)
(* are divided over several jobs, which parse them at the same time; job   *)
(* is the one that parses an expression.  A value is a number of some      *)
(* digits (05 is [num |-> 5, len |-> 2]) or, with num NaN, any other text; *)
(* len 0 is the empty text.                                                *)
(***************************************************************************)
EXTENDS Integers, Sequences, FiniteSets, SequencesExt

CONSTANTS Modes,       \* how files share their layers, see Source and Target
          Files,       \* 1..n, the files, in the order serial mode takes them
          Programs,    \* the programs a file may have
          Rows         \* the rows of the input, functions of its columns

\* A number has its digits, and only other texts may be empty.
Values == {v \in [num : Nat \cup {-1}, len : Nat] : v.len = 0 => v.num = -1}
Expressions == [assign : BOOLEAN, op : STRING, tag : STRING, right : Values,
                quoted : BOOLEAN, job : Nat]

ASSUME ModesAssumption == Modes \subseteq {"own", "shared", "serial", "serialNew"}
ASSUME FilesAssumption == IsFiniteSet(Files) /\ Files = 1..Cardinality(Files)
ASSUME ProgramsAssumption ==
  /\ Programs \subseteq Seq(Expressions)
  /\ \A prg \in Programs : \A k \in DOMAIN prg :
       /\ prg[k].assign <=> prg[k].op \in {"=", "+=", "<Empty>"}
       /\ prg[k].op \in {"=", "+="} /\ ~prg[k].quoted => prg[k].right.num # -1
       /\ k > 1 => IF prg[k].assign THEN prg[k].job = prg[k - 1].job
                                    ELSE prg[k].job >= prg[k - 1].job
ASSUME RowsAssumption ==
  /\ Rows # <<>> /\ IsFiniteSet(DOMAIN Rows[1])
  /\ Rows \in Seq([DOMAIN Rows[1] -> Values])

VARIABLES mode, prog,
          layer,       \* the layers: 0 is the shared input, 1.. the files' own
          begun,       \* the files that have been read
          parsed,      \* the expressions of a file that have been parsed
          types,       \* Node::leftType of the expressions, "Empty" without a tag
          status,      \* "running", "failed" (an error), "fault" (bad memory)
          strings, numbers,  \* tagStringCache_ and tagNumberCache_ of a row
          pc, at,      \* of each item: the next step, and its expression
          row,         \* newItemIndex_
          plain,       \* typeBlackList_
          old,         \* what OperatorSelfAdd has read
          view,        \* history: what the item's file should see in the row
          misread      \* history: conditions that read something else

vars == <<mode, prog, layer, begun, parsed, types, status, strings, numbers,
          pc, at, row, plain, old, view, misread>>

NaN == -1
Empty == [num |-> NaN, len |-> 0]
Guid == [num |-> NaN, len |-> 32]
Items == 1..Len(Rows)
Procs == Files \X Items        \* an item of a file: <<file, index_>>
Parallel == mode \in {"own", "shared"}

\* Mutant: one copy of the input for all.
OneSource(f) == 0

\* Files of their own input and output, one layer each; new outputs of one
\* input; and in serial mode the input as output, or one new output.
Source(f) == IF mode = "own" THEN f ELSE 0
Target(f) == CASE mode \in {"own", "shared"} -> f
               [] mode = "serial" -> 0
               [] mode = "serialNew" -> 1
IsNew(f) == mode \in {"shared", "serialNew"}

Tags == UNION {{prg[k].tag : k \in DOMAIN prg} : prg \in Programs}

-----------------------------------------------------------------------------
(* Columns.  A layer has cols (col_name_map), colCache (tagColCache_), types *)
(* (tagTypeCache_) and rows; src is copySrcLayer_ of a new one, -1 otherwise.*)

\* operator[] of a map.
Put(map, key, value) ==
  [k \in DOMAIN map \cup {key} |-> IF k = key THEN value ELSE map[k]]

ColumnOf(l, tag) == CHOOSE c \in 1..Len(l.cols) : l.cols[c] = tag

\* Mutant: only new layers get new columns.
AddTagToNew(l, tag, isAssign) ==
  CASE tag \in DOMAIN l.colCache -> [layer |-> l, found |-> TRUE]
    [] tag \notin DOMAIN l.colCache /\ tag \in Range(l.cols) ->
         [layer |-> [l EXCEPT !.colCache = Put(@, tag, ColumnOf(l, tag))],
          found |-> TRUE]
    [] OTHER -> [layer |-> l, found |-> FALSE]

\* checkAddTag: finds the column, or adds it for an assignment or to a new
\* layer; found is its result, 0 in the code.
AddTag(l, tag, isAssign) ==
  CASE tag \in DOMAIN l.colCache -> [layer |-> l, found |-> TRUE]
    [] tag \notin DOMAIN l.colCache /\ tag \in Range(l.cols) ->
         [layer |-> [l EXCEPT !.colCache = Put(@, tag, ColumnOf(l, tag))],
          found |-> TRUE]
    [] tag \notin Range(l.cols) /\ (isAssign \/ l.src >= 0) ->
         [layer |-> [l EXCEPT
                       !.cols = Append(@, tag),
                       !.rows = [i \in DOMAIN @ |-> Append(@[i], Empty)],
                       !.colCache = Put(@, tag, Len(l.cols) + 1)],
          found |-> FALSE]
    [] OTHER -> [layer |-> l, found |-> FALSE]

TypeOf(val) == IF val.num = NaN THEN "String" ELSE "Number"

\* Mutant: the size of the layer is not asked.
KnownWithoutRows(l, added) == added.found

\* A type is taken from a row if the column was there and the layer has rows.
Known(l, added) == added.found /\ l.rows # <<>>

\* getTagType: the type of the first row, once and for all.  An unknown type
\* is New, and stays so in parallel mode.  The row looked at is first: that of
\* the input, which may be too short (bad) for a column of a new layer.
TypedTag(l, first, tag, isAssign) ==
  IF tag \in DOMAIN l.types
  THEN [layer |-> l, type |-> l.types[tag], bad |-> FALSE]
  ELSE LET added == AddTag(l, tag, isAssign)
           known == Known(l, added)
           bad == known /\ added.layer.colCache[tag] \notin DOMAIN first
           type == IF known /\ ~bad THEN TypeOf(first[added.layer.colCache[tag]])
                                    ELSE "New"
       IN [layer |-> IF known \/ Parallel
                     THEN [added.layer EXCEPT !.types = Put(@, tag, type)]
                     ELSE added.layer,
           type |-> type, bad |-> bad]

\* open() and copyLoad() force the columns guid and name.
Forced(l, first) ==
  LET g == TypedTag(l, first, "guid", TRUE).layer
  IN TypedTag(g, first, "name", TRUE).layer

Input == LET cols == SetToSeq(DOMAIN Rows[1])
             rows == [i \in Items |-> [c \in 1..Len(cols) |-> Rows[i][cols[c]]]]
         IN [cols |-> cols, colCache |-> <<>>, types |-> <<>>, rows |-> rows,
             src |-> -1]

\* MifLayerNew::open; mifSize_, which it does not set, is taken as 0.
NewLayer(l, src) ==
  [cols |-> l.cols, colCache |-> <<>>, types |-> <<>>, rows |-> <<>>, src |-> src]

\* MifLayerNew::copyLoad: the rows that are there already stay as they are.
CopyLoaded(l) ==
  LET s == layer[l.src] IN
  Forced([s EXCEPT !.rows = l.rows, !.src = l.src], Head(s.rows))

Init ==
  /\ mode \in Modes /\ prog \in [Files -> Programs]
  /\ LET input == Forced(Input, Input.rows[1]) IN
       layer = [k \in {0} \cup Files |->
                  CASE k = 0 \/ mode = "own" -> input
                    [] k # 0 /\ mode = "shared" ->
                         Forced(NewLayer(input, 0), input.rows[1])
                    [] OTHER -> NewLayer(input, 0)]
  /\ begun = IF Parallel THEN Files ELSE {}
  /\ parsed = [f \in Files |-> {}]
  /\ types = [f \in Files |-> [k \in DOMAIN prog[f] |-> "Empty"]]
  /\ status = "running"
  /\ strings = [k \in {0} \cup Files |-> [i \in Items |-> <<>>]]
  /\ numbers = strings
  /\ pc = [p \in Procs |-> "condition"]
  /\ at = [p \in Procs |-> 1] /\ row = [p \in Procs |-> 0]
  /\ plain = [p \in Procs |-> {}]
  /\ old = [p \in Procs |-> Empty]
  /\ view = [p \in Procs |->
               [tag \in Tags \cup {"guid"} \cup DOMAIN Rows[1] |->
                  IF tag \in DOMAIN Rows[1] THEN Rows[p[2]][tag] ELSE Empty]]
  /\ misread = {}

ItemVars == <<strings, numbers, pc, at, row, plain, old, view, misread>>

\* The row of an item as it is when its file begins.
Row(p) ==
  LET l == layer[Source(p[1])] IN
  [tag \in DOMAIN view[p] |-> IF tag \in Range(l.cols)
                             THEN l.rows[p[2]][ColumnOf(l, tag)] ELSE Empty]

-----------------------------------------------------------------------------
\* ParseConfigFileJob in serial mode: the next file, after the one before.
BeginFile(f) ==
  /\ f \notin begun
  /\ \A p \in Procs : p[1] < f => pc[p] = "done"
  /\ begun' = begun \cup {f}
  /\ layer' = IF IsNew(f) THEN [layer EXCEPT ![Target(f)] = CopyLoaded(@)]
                          ELSE layer
  /\ view' = [p \in Procs |-> IF p[1] = f THEN Row(p) ELSE view[p]]
  /\ UNCHANGED <<mode, prog, parsed, types, status, strings, numbers, pc, at, row,
                 plain, old, misread>>

SupportsNew(op) == op \in {"==", "!=", "=", "+="}
HasTag(e) == e.op \notin {"none", "<Empty>"}

\* The next expression of each job of a file.
NextOfJobs(f) ==
  {k \in DOMAIN prog[f] \ parsed[f] :
     \A j \in 1..k - 1 : prog[f][j].job = prog[f][k].job => j \in parsed[f]}

\* parseExpr of an expression of a file, under tagTypeCacheLock_.
ParseExpression(f) ==
  /\ f \in begun
  /\ \E n \in NextOfJobs(f) :
       /\ LET e == prog[f][n]
              k == IF e.assign THEN Target(f) ELSE Source(f)
              t == IF HasTag(e)
                   THEN TypedTag(layer[k], layer[Source(f)].rows[1], e.tag, e.assign)
                   ELSE [layer |-> layer[k], type |-> "Empty", bad |-> FALSE]
          IN /\ layer' = [layer EXCEPT ![k] = t.layer]
             /\ types' = [types EXCEPT ![f][n] = t.type]
             /\ status' = CASE t.bad -> "fault"
                            [] ~t.bad /\ t.type = "New" /\ layer[k].rows # <<>>
                                 /\ ~SupportsNew(e.op) -> "failed"
                            [] OTHER -> status
       /\ parsed' = [parsed EXCEPT ![f] = @ \cup {n}]
  /\ UNCHANGED <<mode, prog, begun, ItemVars>>

-----------------------------------------------------------------------------
(* Items.                                                                   *)

Expr(p) == prog[p[1]][at[p]]
Left(p) == types[p[1]][at[p]]
Cell(k, i, tag) == layer[k].rows[i][layer[k].colCache[tag]]

\* MifItem::getTagVal, as text and as number.
StringOf(p, tag) ==
  LET k == Source(p[1]) i == p[2] IN
  IF tag \in DOMAIN strings[k][i] THEN strings[k][i][tag] ELSE Cell(k, i, tag)
NumberOf(p, tag) ==
  LET k == Source(p[1]) i == p[2] IN
  IF tag \in DOMAIN numbers[k][i] THEN numbers[k][i][tag]
                                  ELSE Cell(k, i, tag).num

Readable(p, tag, cache) ==
  LET k == Source(p[1]) IN
  tag \in DOMAIN cache[k][p[2]] \cup DOMAIN layer[k].colCache

CacheString(p, tag, val) ==
  strings' = [strings EXCEPT ![Source(p[1])][p[2]] = Put(@, tag, val)]
CacheNumber(p, tag, val) ==
  numbers' = [numbers EXCEPT ![Source(p[1])][p[2]] = Put(@, tag, val)]

\* OperatorEqual and NotEqual compare numbers when both sides are numbers and
\* this item's value is one, and texts otherwise; OperatorLessThan only numbers.
Numeric(p, e) == Left(p) = "Number" /\ ~e.quoted /\ e.tag \notin plain[p]
Compare(op, equal) == IF op = "==" THEN equal ELSE ~equal
Truth(e, left, text, number, numeric) ==
  IF e.op = "none" THEN TRUE
  ELSE IF e.op = "<" THEN number < e.right.num
  ELSE left # "New"
         /\ Compare(e.op, IF numeric /\ number # NaN THEN number = e.right.num
                                                     ELSE text = e.right)

Conditions(f) == {k \in 1..Len(prog[f]) : ~prog[f][k].assign}

\* The expression after a condition: its first assignment, or the next line.
NextCondition(p) ==
  LET later == {k \in Conditions(p[1]) : k > at[p]} IN
  IF later = {} THEN Len(prog[p[1]]) + 1 ELSE Min(later)

\* Items are processed when all lines of their file have been parsed.
AllParsed(f) == f \in begun /\ parsed[f] = DOMAIN prog[f]
Started(p) == AllParsed(p[1]) /\ status = "running"

\* satisfyConditions for the next line; the first line that holds is the last.
CheckCondition(p) ==
  /\ pc[p] = "condition" /\ Started(p) /\ at[p] \in Conditions(p[1])
  /\ LET e == Expr(p)
         reads == HasTag(e) /\ Left(p) # "New"
         numeric == reads /\ Numeric(p, e)
         number == IF numeric THEN NumberOf(p, e.tag) ELSE NaN
         asText == reads /\ (~numeric \/ number = NaN) /\ e.op # "<"
         text == IF asText THEN StringOf(p, e.tag) ELSE Empty
         holds == Truth(e, Left(p), text, number, numeric)
         seen == view[p][e.tag]
     IN IF e.op = "<" /\ (Left(p) # "Number" \/ number = NaN)
        THEN status' = "failed" /\ UNCHANGED ItemVars
        ELSE /\ IF numeric /\ number # NaN THEN CacheNumber(p, e.tag, number)
                                           ELSE UNCHANGED numbers
             /\ IF asText THEN CacheString(p, e.tag, text) ELSE UNCHANGED strings
             /\ plain' = IF numeric /\ number = NaN
                         THEN [plain EXCEPT ![p] = @ \cup {e.tag}] ELSE plain
             /\ misread' = misread \cup
                  IF (numeric /\ number # seen.num) \/ (asText /\ text # seen)
                  THEN {<<p, e.tag>>} ELSE {}
             /\ pc' = [pc EXCEPT ![p] = IF holds THEN "assign" ELSE @]
             /\ at' = [at EXCEPT ![p] = IF holds THEN @ + 1 ELSE NextCondition(p)]
             /\ UNCHANGED <<row, old, view, status>>
  /\ UNCHANGED <<mode, prog, layer, begun, parsed, types>>

Assigning(p) ==
  /\ pc[p] \in {"assign", "add"} /\ status = "running"
  /\ at[p] <= Len(prog[p[1]]) /\ Expr(p).assign
NumberAssign(p) == Left(p) = "Number" /\ ~Expr(p).quoted

\* OperatorSelfAdd reads the old value, as text first, when the layer it assigns
\* to has one, and fails when the layer it reads has none.
ReadsOld(p) == Expr(p).op = "+=" /\ Left(p) # "New" /\ pc[p] = "assign"
ReadOldValue(p) ==
  /\ Assigning(p) /\ ReadsOld(p)
  /\ LET e == Expr(p) text == StringOf(p, e.tag) number == NumberOf(p, e.tag)
         known == /\ NumberAssign(p) /\ e.tag \notin plain[p]
                  /\ Readable(p, e.tag, numbers) /\ number # NaN
     IN IF ~Readable(p, e.tag, strings)
        THEN status' = "failed" /\ UNCHANGED <<strings, numbers, old>>
        ELSE /\ CacheString(p, e.tag, text)
             /\ IF known THEN CacheNumber(p, e.tag, number) ELSE UNCHANGED numbers
             /\ old' = [old EXCEPT ![p] =
                          IF known THEN [num |-> number, len |-> 1]
                                   ELSE [num |-> NaN, len |-> text.len]]
             /\ status' = IF NumberAssign(p) /\ ~known THEN "failed" ELSE status
  /\ pc' = [pc EXCEPT ![p] = "add"]
  /\ UNCHANGED <<mode, prog, layer, begun, parsed, types, at, row, plain, view, misread>>

\* addNewItem of a new layer: a copy of the source row.
AddedRow(f, i) ==
  LET l == layer[Target(f)] s == layer[Source(f)].rows[i] IN
  [l EXCEPT !.rows = Append(@, [c \in 1..Len(l.cols) |->
                                  IF c <= Len(s) THEN s[c] ELSE Empty])]

\* Mutant: mifSize_ is read before the row is counted.
AddRowBefore(p) ==
  /\ layer' = [layer EXCEPT ![Target(p[1])] = AddedRow(p[1], p[2])]
  /\ row' = [row EXCEPT ![p] = Len(layer[Target(p[1])].rows)]

AddRow(p) ==
  /\ layer' = [layer EXCEPT ![Target(p[1])] = AddedRow(p[1], p[2])]
  /\ row' = [row EXCEPT ![p] = Len(layer[Target(p[1])].rows) + 1]

\* The first assignment to an item of a new layer.
AddNewItem(p) ==
  /\ Assigning(p) /\ ~ReadsOld(p)
  /\ IsNew(p[1]) /\ row[p] = 0 /\ Expr(p).op # "<Empty>"
  /\ AddRow(p)
  /\ UNCHANGED <<mode, prog, begun, parsed, types, status, strings, numbers, pc, at,
                 plain, old, view, misread>>

\* FuncOperatorEmpty adds a row whether or not there is one.
AssignEmpty(p) ==
  /\ Assigning(p) /\ Expr(p).op = "<Empty>"
  /\ IF IsNew(p[1]) THEN AddRow(p) ELSE UNCHANGED <<layer, row>>
  /\ at' = [at EXCEPT ![p] = @ + 1]
  /\ UNCHANGED <<mode, prog, begun, parsed, types, status, strings, numbers, pc, plain,
                 old, view, misread>>

SetCell(l, r, tag, val) == [l EXCEPT !.rows[r][l.colCache[tag]] = val]

\* The row of the target that the item stands for.
TargetRow(p) == IF IsNew(p[1]) THEN row[p] ELSE p[2]

\* A number is padded with zeros to the length of the old value, which a new
\* layer looks up in its source at the index of the new row.
Padded(val, was) == [val EXCEPT !.len = IF @ < was.len THEN was.len ELSE @]

\* The value an assignment writes, as a number or as text.
Assigned(p) ==
  LET e == Expr(p) add == pc[p] = "add" IN
  CASE NumberAssign(p) ->
         Padded([num |-> (IF add THEN old[p].num ELSE 0) + e.right.num, len |-> 1],
                Cell(Source(p[1]), TargetRow(p), e.tag))
    [] ~NumberAssign(p) /\ add -> [num |-> NaN, len |-> old[p].len + e.right.len]
    [] OTHER -> e.right

\* assignWithNumber and assignWithTag of the layer.  A number needs the value
\* that its source has in the same row.  A new layer has no itemInfoCache_, which
\* assignWithNumber writes to.
WriteCell(p) ==
  /\ Assigning(p) /\ ~ReadsOld(p) /\ Expr(p).op # "<Empty>"
  /\ IsNew(p[1]) => row[p] > 0
  /\ LET e == Expr(p) k == Target(p[1]) i == TargetRow(p)
         val == Assigned(p)
     IN IF \/ e.tag \notin DOMAIN layer[k].colCache
           \/ NumberAssign(p) /\ (i \notin Items
                 \/ e.tag \notin DOMAIN layer[Source(p[1])].colCache)
        THEN status' = "failed" /\ UNCHANGED <<layer, strings, view, pc>>
        ELSE IF NumberAssign(p) /\ IsNew(p[1])
        THEN status' = "fault" /\ UNCHANGED <<layer, strings, view, pc>>
        ELSE /\ layer' = [layer EXCEPT ![k] = SetCell(@, i, e.tag, val)]
             /\ IF NumberAssign(p) THEN CacheString(p, e.tag, val)
                                   ELSE UNCHANGED strings
             /\ view' = [view EXCEPT ![p][e.tag] = val]
             /\ pc' = [pc EXCEPT ![p] = "cache"]
             /\ UNCHANGED status
  /\ UNCHANGED <<mode, prog, begun, parsed, types, numbers, at, row, plain, old,
                 misread>>

\* What MifItem::assignWithNumber and assignWithTag do when the layer is done.
WriteCache(p) ==
  /\ pc[p] = "cache" /\ status = "running"
  /\ LET e == Expr(p) val == view[p][e.tag] IN
       IF NumberAssign(p) THEN CacheNumber(p, e.tag, val.num) /\ UNCHANGED strings
                          ELSE CacheString(p, e.tag, val) /\ UNCHANGED numbers
  /\ pc' = [pc EXCEPT ![p] = "assign"]
  /\ at' = [at EXCEPT ![p] = @ + 1]
  /\ UNCHANGED <<mode, prog, layer, begun, parsed, types, status, row, plain, old,
                 view, misread>>

\* addGUID, at the end of every item: the guid of the source row counts.
AddGuid(p) ==
  /\ status = "running" /\ Started(p)
  /\ \/ pc[p] = "condition" /\ at[p] > Len(prog[p[1]])
     \/ pc[p] = "assign" /\ ~Assigning(p)
  /\ LET k == Target(p[1])
         gone == IsNew(p[1]) /\ row[p] = 0
     IN IF ~gone /\ Cell(Source(p[1]), p[2], "guid").len = 0
        THEN /\ layer' = [layer EXCEPT ![k] = SetCell(@, TargetRow(p), "guid", Guid)]
             /\ CacheString(p, "guid", Guid)
             /\ view' = [view EXCEPT ![p]["guid"] = Guid]
        ELSE UNCHANGED <<layer, strings, view>>
  /\ pc' = [pc EXCEPT ![p] = "done"]
  /\ UNCHANGED <<mode, prog, begun, parsed, types, status, numbers, at, row, plain, old,
                 misread>>

\* Everything is processed, or an error has ended the program.
Ended == (status # "running" \/ \A p \in Procs : pc[p] = "done") /\ UNCHANGED vars

Next ==
  \/ status = "running" /\ \E f \in Files : BeginFile(f) \/ ParseExpression(f)
  \/ status = "running" /\ \E p \in Procs :
       \/ CheckCondition(p) \/ ReadOldValue(p) \/ AddNewItem(p) \/ AssignEmpty(p)
       \/ WriteCell(p) \/ WriteCache(p) \/ AddGuid(p)
  \/ Ended

Spec == Init /\ [][Next]_vars
-----------------------------------------------------------------------------
(* Properties.                                                              *)

Ran(f) == mode \in {"serial", "serialNew"} /\ \E g \in begun : g > f

\* A condition is judged by the values the rows have for its file, the file's
\* own assignments included, whatever other files do to their rows: if not, the
\* file shares the caches of its input with another file that writes the tag, by
\* an assignment or, for guid, in its own new rows.
Writes(f, tag) ==
  \/ \E k \in DOMAIN prog[f] : prog[f][k].assign /\ prog[f][k].tag = tag
  \/ tag = "guid" /\ IsNew(f)
MisreadsComeFromOthers ==
  \A m \in misread : mode # "own" /\ \E f \in Files \ {m[1][1]} : Writes(f, m[2])

\* Every assigned tag has its column before an item needs it, unless a condition
\* of the file may have asked the layer that is also written for the tag before: one
\* of an earlier line, or one of any line that another job parses.
AskedBefore(f, k) ==
  \E j \in DOMAIN prog[f] :
    /\ ~prog[f][j].assign /\ HasTag(prog[f][j]) /\ prog[f][j].tag = prog[f][k].tag
    /\ j < k \/ prog[f][j].job # prog[f][k].job
ColumnsForAssignments ==
  \A f \in Files : \A k \in parsed[f] :
    prog[f][k].assign /\ HasTag(prog[f][k]) /\ ~Ran(f) =>
      \/ prog[f][k].tag \in DOMAIN layer[Target(f)].colCache
      \/ mode = "own" /\ AskedBefore(f, k)

\* When an item is done, the row it stands for holds what its file has assigned
\* to it and the other values of the source row, each under its own column name,
\* unless <Empty> has moved the item to another row.
LateEmpty(f) == \E k \in 2..Len(prog[f]) :
                  prog[f][k].op = "<Empty>" /\ prog[f][k - 1].assign
Holds(l, r, p) ==
  \A tag \in DOMAIN view[p] :
    IF tag \in Range(l.cols) THEN r[ColumnOf(l, tag)] = view[p][tag]
                             ELSE view[p][tag] = Empty
RowsHoldAssignments ==
  \A p \in Procs :
    pc[p] = "done" /\ TargetRow(p) > 0 /\ ~Ran(p[1]) /\ ~LateEmpty(p[1]) =>
      LET l == layer[Target(p[1])] IN Holds(l, l.rows[TargetRow(p)], p)

\* Bad memory is reached only in serial mode with a new layer: by a numeric
\* assignment to it, whose columns got their types from the input, or for the
\* type of a column that the input does not have.
FaultsOnlyInSerialNew == status = "fault" => mode = "serialNew"
=============================================================================
