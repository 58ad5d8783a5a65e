----------------------------- MODULE JobPipeline -----------------------------
(***************************************************************************)
(* The seven kinds of jobs (ExecutorJobFunc.cpp) and the state they share: *)
(* the layers' ready_ latches, the configuration files and their parsed    *)
(* lines, the registry of groups (ResourcePool::findInsertGroup), the      *)
(* groups themselves, jobCache_ with parseGroupJobCount_, and the save     *)
(* points.                                                                 *)
(*                                                                         *)
(* The scheduler is the one of module ExecutorPool, in large steps: an     *)
(* executor takes the next job of its own ready queue, and while some      *)
(* executor has no job in hand selectReadyJob() may deal out the           *)
(* candidates.  What the jobs compute is left out; a job fails in none of  *)
(* the runs of this module (module ExecutorPool has failing jobs).         *)
(*                                                                         *)
(* Memory that was deleted and is used all the same is recorded in faults; *)
(* the model goes on as if the memory still held what it held.             *)
(***************************************************************************)
EXTENDS Partition, SequencesExt

CONSTANTS
  N,             \* executorNum
  RunParallel,   \* ExecutorPool::runParallel_
  CopySrc,       \* CopySrc[l]: copySrcLayer_ of layer l, 0 if none
  New,           \* the layers that are a MifLayerNew
  Size,          \* Size[l]: items of layer l
  Lines,         \* Lines[f]: the lines of file f, each the groups it names
  Src, Target,   \* layers of the subgroups
  FileOf,        \* FileOf[s]: the configuration file of subgroup s
  OutputPath,    \* OutputPath[s]
  ItemOf,        \* ItemOf[r]: the item group that text r names, by key
  TypeOf,        \* TypeOf[r]: its type group, 0 when the group is dynamic
  StaticOf,      \* StaticOf[i]: the static item group a dynamic one may copy
  Plugin,        \* Plugin[i]: the plugin layer of item group i
  LinesPerJob,   \* MAX_LINE_PER_JOB (128)
  ItemsPerJob,   \* MAX_ITEM_PER_JOB (256)
  MaxReady       \* MAX_READY_QUEUE_SIZE (32)

Executors == 0 .. N - 1
Layers == DOMAIN CopySrc
Files == DOMAIN Lines        \* numbered in the order of their names
Subs == DOMAIN FileOf        \* numbered in the order of the command line
Requests == DOMAIN ItemOf
Items == DOMAIN Plugin

SubOf(f) == CHOOSE s \in Subs : FileOf[s] = f
Dynamic(r) == TypeOf[r] = 0
RequestsOf(f) == UNION {ToSet(Lines[f][k]) : k \in DOMAIN Lines[f]}

\* Layers, files and subgroups are numbered from 1, each file belongs to one
\* subgroup, and every constant is of its type.
ASSUME ScenarioAssumption ==
  /\ N \in Nat \ {0} /\ RunParallel \in BOOLEAN
  /\ LinesPerJob \in Nat \ {0, 1} /\ ItemsPerJob \in Nat \ {0} /\ MaxReady \in Nat \ {0}
  /\ CopySrc \in Seq(Nat) /\ \A l \in Layers : CopySrc[l] \in Layers \cup {0}
  /\ New \subseteq Layers /\ \A l \in New : CopySrc[l] # 0
  /\ Size \in [Layers -> Nat]
  /\ Lines \in Seq(Seq(Seq(Requests))) /\ Lines # <<>>
  /\ FileOf \in Seq(Files) /\ \A f \in Files : \E s \in Subs : FileOf[s] = f
  /\ \A s, u \in Subs : FileOf[s] = FileOf[u] => s = u
  /\ Src \in [Subs -> Layers] /\ Target \in [Subs -> Layers]
  /\ ItemOf \in [Requests -> Items] /\ TypeOf \in [Requests -> Nat]
  /\ Plugin \in [Items -> Layers] /\ StaticOf \in [Items -> Items \cup {0}]

\* A subgroup reads the layer that it writes, or the one that this copies (module
\* LayerModel proves it of every command line).
ASSUME LayersAssumption ==
  \A s \in Subs : Src[s] = Target[s] \/ CopySrc[Target[s]] = Src[s]

\* No two groups share a key (module Groups has those that do): a type group is
\* made of one item group, and a dynamic item group is not a static one.
ASSUME KeysAssumption ==
  \A r, u \in Requests :
    /\ TypeOf[r] = TypeOf[u] /\ ~Dynamic(r) => ItemOf[r] = ItemOf[u]
    /\ ItemOf[r] = ItemOf[u] => (Dynamic(r) <=> Dynamic(u))

VARIABLES
  candidate, ready, \* candidateQueue_ and readyQueue_
  job, at,          \* job in hand and the next step of its process()
  layerReady,       \* layers whose ready_ is open
  parseFiles,       \* parseConfigFileJobs_
  readyCount,       \* readyCount_ of each file's first subgroup
  groupJobs,        \* parseGroupJobCount_
  cache,            \* jobCache_
  srcLayers,        \* srcLayers_ of each file: "live" or "deleted"
  outbox,           \* newJobs of a job that has yet to push them
  known,            \* groupMap_: item groups and type groups
  info,             \* info_ of an item group: "none", "live" or "deleted"
  parseDone,        \* item groups whose parseDone_ is open
  added, checked,   \* group_ and checkedCount_ of an item group
  itemReady,        \* item groups whose ready_ is open
  typeReady,        \* type groups whose ready_ is open
  resolved,         \* <<f, r>>: the group pointer of r in f's lines is set
  processed,        \* processedCount_ of each subgroup
  finished,         \* finishedFileCount_
  written,          \* subgroups whose results are in their output file
  faults            \* uses of deleted or unset data so far

queues == <<candidate, ready>>
parsing == <<readyCount, groupJobs, cache, srcLayers>>
groups == <<known, info, parseDone, added, checked, itemReady, typeReady, resolved>>
saving == <<parseFiles, processed, finished, written>>
vars == <<queues, job, at, layerReady, parsing, groups, saving, outbox, faults>>

-----------------------------------------------------------------------------
(* Jobs.                                                                     *)

Job(kind, of, from, count) == [kind |-> kind, of |-> of, from |-> from, count |-> count]
NoJob == Job("none", 0, 0, 0)

Load(l) == Job("load", l, 0, 0)
ParseFile(f) == Job("file", f, 0, 0)
ParseGroup(f, r) == Job("group", f, r, 0)
InitType(i, t) == Job("init", i, t, 0)
Save(s) == Job("save", s, 0, 0)

\* What size() may return: mifSize_ has no initial value; the runs take 0 for
\* it, or the size, which open() sets before it opens ready_.
SizesOf(l) == IF l \in layerReady THEN {Size[l]} ELSE {0, Size[l]}

\* The jobs of a partition.
Jobs(kind, of, total, perJob, limit) ==
  LET slice == Slice(total, perJob, limit)
  IN  [k \in DOMAIN slice |-> Job(kind, of, slice[k].start, slice[k].count)]

LinesJobs(f) == Jobs("lines", f, Len(Lines[f]), LinesPerJob, Half(LinesPerJob))
ItemsJobs(s, size) == Jobs("items", s, size, ItemsPerJob, Half(ItemsPerJob))
BuildJobs(i) == Jobs("build", i, Size[Plugin[i]], ItemsPerJob, Half(ItemsPerJob) + 1)

\* Save point of s: in serial mode the last file with the same output.
SavePoint(s) ==
  IF RunParallel THEN 0 ELSE Max({u \in Subs : OutputPath[u] = OutputPath[s]})

InStep(e, kind, label) == job[e].kind = kind /\ at[e] = label
Continue(e, label) == at' = [at EXCEPT ![e] = label] /\ UNCHANGED job
JobEnds(e) == job' = [job EXCEPT ![e] = NoJob] /\ at' = [at EXCEPT ![e] = "idle"]
Push(jobs) == candidate' = candidate \o jobs /\ UNCHANGED ready
Fault(cond, name, of) == IF cond THEN {<<name, of>>} ELSE {}
Record(new) == faults' = faults \cup new

-----------------------------------------------------------------------------
(* Mistakes: what some definitions below would be if the code were wrong.    *)

ReleaseAtLastLine(e) == TRUE
InitBeforeBuild(i, t) == <<InitType(i, t)>> \o BuildJobs(i)
NeverLastGroup == FALSE
EachGroupLast == TRUE
OwnFileOnly(f) == cache[SubOf(f)]
NothingOpened(r) == {}
AlwaysChecked(i, count) == TRUE

-----------------------------------------------------------------------------
(* The scheduler, as far as the order of jobs goes.                          *)

Vacant(e) == job[e] = NoJob /\ ready[e] = <<>>

\* getReadyJob()
Take(e) ==
  /\ job[e] = NoJob /\ ready[e] # <<>>
  /\ job' = [job EXCEPT ![e] = Head(ready[e])]
  /\ at' = [at EXCEPT ![e] = "run"]
  /\ ready' = [ready EXCEPT ![e] = Tail(@)]
  /\ UNCHANGED <<candidate, layerReady, parsing, groups, saving, outbox, faults>>

\* selectReadyJob(): an even share for everybody, executor 0 first.
Queued == Len(candidate) + FoldFunction(+, 0, [e \in Executors |-> Len(ready[e])])
Share == Min({MaxReady, (Queued + N - 1) \div N})

\* Executor e gets the candidates at cut[e] + 1 .. cut[e + 1].
Even(cut) ==
  /\ cut[0] = 0
  /\ \A e \in Executors :
       /\ cut[e] <= cut[e + 1]
       /\ cut[e + 1] = Min({Len(candidate), cut[e] + Max({0, Share - Len(ready[e])})})

\* resourceController() asks for needSelect_ # 0.  An executor sets its bit when its
\* queue is empty and clears it some time after it has been dealt a job, so that a
\* queue may be dealt to again before its first job is taken.
Select ==
  /\ candidate # <<>> /\ \E e \in Executors : job[e] = NoJob
  /\ \E cut \in [0 .. N -> 0 .. Len(candidate)] :
       /\ Even(cut)
       /\ ready' = [e \in Executors |->
                      ready[e] \o SubSeq(candidate, cut[e] + 1, cut[e + 1])]
       /\ candidate' = SubSeq(candidate, cut[N] + 1, Len(candidate))
  /\ UNCHANGED <<job, at, layerReady, parsing, groups, saving, outbox, faults>>

-----------------------------------------------------------------------------
(* LoadLayerJob, ParseConfigFileJob and ParseConfigLinesJob.                 *)

\* open(): a layer that copies another waits for it.  In serial mode a New
\* layer is left closed, until copyLoad().
LoadLayer(e) ==
  /\ InStep(e, "load", "run")
  /\ LET l == job[e].of
         opens == RunParallel \/ l \notin New
     IN  /\ opens /\ CopySrc[l] # 0 => CopySrc[l] \in layerReady
         /\ layerReady' = IF opens THEN layerReady \cup {l} ELSE layerReady
  /\ JobEnds(e)
  /\ UNCHANGED <<queues, parsing, groups, saving, outbox, faults>>

\* In serial mode the job copies the header of the source into a New target
\* and opens the target; it does not wait for the source.
CopyLoad(e) ==
  /\ InStep(e, "file", "run")
  /\ LET s == SubOf(job[e].of)
         copies == ~RunParallel /\ Target[s] \in New
     IN  /\ layerReady' = IF copies THEN layerReady \cup {Target[s]} ELSE layerReady
         /\ Record(Fault(copies /\ CopySrc[Target[s]] \notin layerReady, "copyLoad", s))
  /\ Continue(e, "wait")
  /\ UNCHANGED <<queues, parsing, groups, saving, outbox>>

\* Both loops of waits run over the target layers.
PushLines(e) ==
  /\ InStep(e, "file", "wait") /\ Target[SubOf(job[e].of)] \in layerReady
  /\ Push(LinesJobs(job[e].of))
  /\ JobEnds(e)
  /\ UNCHANGED <<layerReady, parsing, groups, saving, outbox, faults>>

\* Groups named by the lines of the job in hand.
News(e) ==
  LET j == job[e]
  IN  FlattenSeq(SubSeq(Lines[j.of], j.from + 1, j.from + j.count))

\* parseConfigLine() of every line; each group gets a ParseGroup job.
ParseLines(e) ==
  /\ InStep(e, "lines", "run")
  /\ outbox' = [outbox EXCEPT ![e] =
                  [k \in DOMAIN News(e) |-> ParseGroup(job[e].of, News(e)[k])]]
  /\ Record(Fault(srcLayers[job[e].of] = "deleted" /\ job[e].count > 0,
                  "srcLayers", job[e].of))
  /\ Continue(e, "cache")
  /\ UNCHANGED <<queues, layerReady, parsing, groups, saving>>

\* Under jobCacheLock_: the last lines of a file put its items into the cache,
\* and release the cache when no group is left to parse.
Emptied == [s \in Subs |-> <<>>]
WithNews(e) == groupJobs + Len(outbox[e])
NoGroupLeft(e) == WithNews(e) = 0

CacheItems(e) ==
  /\ InStep(e, "lines", "cache")
  /\ LET f == job[e].of
         s == SubOf(f)
         last == readyCount[f] + job[e].count = Len(Lines[f])
         release == last /\ NoGroupLeft(e)
     IN  /\ groupJobs' = WithNews(e)
         /\ \E size \in SizesOf(Src[s]) :
              LET filled == IF last THEN [cache EXCEPT ![s] = @ \o ItemsJobs(s, size)]
                                    ELSE cache
              IN  /\ cache' = IF release THEN Emptied ELSE filled
                  /\ outbox' = [outbox EXCEPT ![e] =
                                  IF release THEN @ \o FlattenSeq(filled) ELSE @]
         /\ srcLayers' = IF release THEN [srcLayers EXCEPT ![f] = "deleted"] ELSE srcLayers
         /\ readyCount' = [readyCount EXCEPT ![f] = @ + job[e].count]
         /\ Record(Fault(last /\ srcLayers[f] = "deleted", "srcLayers", f)
                  \cup Fault(last /\ Src[s] \notin layerReady, "size", s))
  /\ Continue(e, "push")
  /\ UNCHANGED <<queues, layerReady, groups, saving>>

PushParsed(e) ==
  /\ InStep(e, "lines", "push")
  /\ Push(outbox[e])
  /\ outbox' = [outbox EXCEPT ![e] = <<>>]
  /\ JobEnds(e)
  /\ UNCHANGED <<layerReady, parsing, groups, saving, faults>>

-----------------------------------------------------------------------------
(* ParseGroupJob.                                                            *)

\* The items of a new group are built before its type group is made of them.
NewGroupJobs(i, t) == Append(BuildJobs(i), InitType(i, t))

\* parseGroupInfo() up to findInsertGroup(), which holds groupMapLock_: a
\* static group with its item group, or a dynamic one.
FindInsertGroup(e) ==
  /\ InStep(e, "group", "run")
  /\ LET r == job[e].from
         i == ItemOf[r]
         itemKnown == <<"item", i>> \in known
         typeKnown == <<"type", TypeOf[r]>> \in known
     IN  /\ Plugin[i] \in layerReady
         /\ known' = known \cup {<<"item", i>>}
                           \cup (IF Dynamic(r) THEN {} ELSE {<<"type", TypeOf[r]>>})
         /\ outbox' = [outbox EXCEPT ![e] =
              IF Dynamic(r) \/ typeKnown THEN <<>>
              ELSE IF itemKnown THEN <<InitType(i, TypeOf[r])>>
              ELSE NewGroupJobs(i, TypeOf[r])]
         /\ Continue(e, IF itemKnown THEN "publish" ELSE "parse")
  /\ UNCHANGED <<queues, layerReady, parsing, saving, info, parseDone, added,
                 checked, itemReady, typeReady, resolved, faults>>

\* A dynamic group copies the GroupInfo of the static group with the same
\* conditions, if findGroup() finds it.  It also reads srcLayers_.
MayCopy(r) == Dynamic(r) /\ <<"item", StaticOf[ItemOf[r]]>> \in known
LostSource(e) == Dynamic(job[e].from) /\ srcLayers[job[e].of] = "deleted"

ParseConditions(e) ==
  /\ InStep(e, "group", "parse") /\ ~MayCopy(job[e].from)
  /\ LET i == ItemOf[job[e].from]
     IN  /\ info' = [info EXCEPT ![i] = "live"]
         /\ parseDone' = parseDone \cup {i}
  /\ Record(Fault(LostSource(e), "srcLayers", job[e].of))
  /\ Continue(e, "publish")
  /\ UNCHANGED <<queues, layerReady, parsing, saving, known, added, checked,
                 itemReady, typeReady, resolved, outbox>>

CopyInfo(e) ==
  /\ InStep(e, "group", "parse") /\ MayCopy(job[e].from)
  /\ LET i == ItemOf[job[e].from]
     IN  /\ StaticOf[i] \in parseDone
         /\ info' = [info EXCEPT ![i] = "live"]
         /\ Record(Fault(info[StaticOf[i]] = "none", "noInfo", i)
                  \cup Fault(info[StaticOf[i]] = "deleted", "deletedInfo", i)
                  \cup Fault(LostSource(e), "srcLayers", job[e].of))
  /\ Continue(e, "publish")
  /\ UNCHANGED <<queues, layerReady, parsing, saving, known, parseDone, added,
                 checked, itemReady, typeReady, resolved, outbox>>

LastGroup == groupJobs = 1
ReleasedBy(f) == FlattenSeq(cache)
OpenedBy(r) == IF Dynamic(r) THEN {ItemOf[r]} ELSE {}

\* The group pointer of the configuration line is set; then, under
\* jobCacheLock_ and candidateQueueLock_, the last group releases the cache.
PublishGroup(e) ==
  /\ InStep(e, "group", "publish")
  /\ LET f == job[e].of
         r == job[e].from
         release == LastGroup
     IN  /\ resolved' = resolved \cup {<<f, r>>}
         /\ itemReady' = itemReady \cup OpenedBy(r)
         /\ groupJobs' = groupJobs - 1
         /\ cache' = IF release THEN Emptied ELSE cache
         /\ srcLayers' = IF release THEN [srcLayers EXCEPT ![f] = "deleted"] ELSE srcLayers
         /\ Record(Fault(release /\ srcLayers[f] = "deleted", "srcLayers", f))
         /\ Push(outbox[e] \o (IF release THEN ReleasedBy(f) ELSE <<>>))
         /\ outbox' = [outbox EXCEPT ![e] = <<>>]
  /\ JobEnds(e)
  /\ UNCHANGED <<layerReady, readyCount, saving, known, info, parseDone, added,
                 checked, typeReady>>

-----------------------------------------------------------------------------
(* BuildGroupJob.                                                            *)

\* addElements() of the items that satisfy the conditions.
AddElements(e) ==
  /\ InStep(e, "build", "run")
  /\ LET i == job[e].of
     IN  /\ added' = [added EXCEPT ![i] = @ + job[e].count]
         /\ Record(Fault(info[i] # "live", "build", i))
  /\ Continue(e, "check")
  /\ UNCHANGED <<queues, layerReady, parsing, saving, known, info, parseDone,
                 checked, itemReady, typeReady, resolved, outbox>>

\* checkedCount_ is compared first and increased later.
AllChecked(i, count) == checked[i] + count = Size[Plugin[i]]

TestChecked(e) ==
  /\ InStep(e, "build", "check")
  /\ LET i == job[e].of
     IN  /\ itemReady' = IF AllChecked(i, job[e].count) THEN itemReady \cup {i} ELSE itemReady
         /\ Record(Fault(info[i] # "live", "testChecked", i))
  /\ Continue(e, "count")
  /\ UNCHANGED <<queues, layerReady, parsing, saving, known, info, parseDone,
                 added, checked, typeReady, resolved, outbox>>

AddChecked(e) ==
  /\ InStep(e, "build", "count")
  /\ LET i == job[e].of
     IN  /\ checked' = [checked EXCEPT ![i] = @ + job[e].count]
         /\ Record(Fault(info[i] # "live", "checkedCount", i))
  /\ JobEnds(e)
  /\ UNCHANGED <<queues, layerReady, parsing, saving, known, info, parseDone,
                 added, itemReady, typeReady, resolved, outbox>>

\* The init job takes tagName_ from info_ before it waits for the items.
ReadTagName(e) ==
  /\ InStep(e, "init", "run")
  /\ Record(Fault(info[job[e].of] # "live", "tagName", job[e].of))
  /\ Continue(e, "wait")
  /\ UNCHANGED <<queues, layerReady, parsing, groups, saving, outbox>>

\* TypeGroup::init() deletes info_ when the type group is complete.
InitTypeGroup(e) ==
  /\ InStep(e, "init", "wait") /\ job[e].of \in itemReady
  /\ info' = [info EXCEPT ![job[e].of] = "deleted"]
  /\ typeReady' = typeReady \cup {job[e].from}
  /\ Record(Fault(info[job[e].of] # "live", "tagName", job[e].of))
  /\ JobEnds(e)
  /\ UNCHANGED <<queues, layerReady, parsing, saving, known, parseDone, added,
                 checked, itemReady, resolved, outbox>>

-----------------------------------------------------------------------------
(* ProcessMifItemsJob and SaveLayerJob.                                      *)

GroupReady(r) == IF Dynamic(r) THEN ItemOf[r] \in itemReady ELSE TypeOf[r] \in typeReady

\* The first item may meet every condition of the file, and each condition
\* waits for the group that it names.
ProcessItems(e) ==
  /\ InStep(e, "items", "run")
  /\ LET s == job[e].of
         f == FileOf[s]
     IN  /\ job[e].count > 0 => \A r \in RequestsOf(f) : GroupReady(r)
         /\ processed' = [processed EXCEPT ![s] = @ + job[e].count]
         /\ \E size \in SizesOf(Src[s]) :
              IF processed'[s] = size THEN Continue(e, "complete") ELSE JobEnds(e)
         /\ Record(Fault(job[e].count > 0 /\ \E r \in RequestsOf(f) :
                           \/ <<f, r>> \notin resolved
                           \/ Dynamic(r) /\ info[ItemOf[r]] # "live", "groupPtr", f))
  /\ UNCHANGED <<queues, layerReady, parsing, groups, parseFiles, finished, written,
                 outbox>>

\* parseConfigFileJobs_ is used in serial mode only.
PushNextFile ==
  /\ Push(IF parseFiles = <<>> THEN <<>> ELSE <<Head(parseFiles)>>)
  /\ parseFiles' = IF parseFiles = <<>> THEN <<>> ELSE Tail(parseFiles)

CompleteFile(e) ==
  /\ InStep(e, "items", "complete")
  /\ IF finished + 1 >= SavePoint(job[e].of)
     THEN Push(<<Save(job[e].of)>>) /\ UNCHANGED parseFiles
     ELSE PushNextFile
  /\ Continue(e, "finish")
  /\ UNCHANGED <<layerReady, parsing, groups, processed, finished, written, outbox, faults>>

CountFile(e) ==
  /\ InStep(e, "items", "finish")
  /\ finished' = finished + 1
  /\ JobEnds(e)
  /\ UNCHANGED <<queues, layerReady, parsing, groups, parseFiles, processed, written,
                 outbox, faults>>

\* save() writes the whole layer, with what every subgroup did to it so far.
SaveLayer(e) ==
  /\ InStep(e, "save", "run")
  /\ written' = written \cup
       {u \in Subs : Target[u] = Target[job[e].of] /\ processed[u] = Size[Src[u]]}
  /\ PushNextFile
  /\ JobEnds(e)
  /\ UNCHANGED <<layerReady, parsing, groups, processed, finished, outbox, faults>>

Step(e) ==
  \/ LoadLayer(e) \/ CopyLoad(e) \/ PushLines(e)
  \/ ParseLines(e) \/ CacheItems(e) \/ PushParsed(e)
  \/ FindInsertGroup(e) \/ ParseConditions(e) \/ CopyInfo(e) \/ PublishGroup(e)
  \/ AddElements(e) \/ TestChecked(e) \/ AddChecked(e)
  \/ ReadTagName(e) \/ InitTypeGroup(e)
  \/ ProcessItems(e) \/ CompleteFile(e) \/ CountFile(e) \/ SaveLayer(e)
-----------------------------------------------------------------------------
\* execute(): every layer is loaded; in serial mode only the first file is
\* parsed at once.
FileJobs == [f \in Files |-> ParseFile(f)]

Init ==
  /\ candidate = [l \in Layers |-> Load(l)]
                   \o (IF RunParallel THEN FileJobs ELSE <<Head(FileJobs)>>)
  /\ parseFiles = IF RunParallel THEN <<>> ELSE Tail(FileJobs)
  /\ ready = [e \in Executors |-> <<>>]
  /\ job = [e \in Executors |-> NoJob]
  /\ at = [e \in Executors |-> "idle"]
  /\ layerReady = {}
  /\ readyCount = [f \in Files |-> 0]
  /\ groupJobs = 0
  /\ cache = Emptied
  /\ srcLayers = [f \in Files |-> "live"]
  /\ outbox = [e \in Executors |-> <<>>]
  /\ known = {} /\ parseDone = {} /\ itemReady = {} /\ typeReady = {} /\ resolved = {}
  /\ info = [i \in Items |-> "none"]
  /\ added = [i \in Items |-> 0]
  /\ checked = [i \in Items |-> 0]
  /\ processed = [s \in Subs |-> 0]
  /\ finished = 0
  /\ written = {}
  /\ faults = {}

\* The pool has nothing left to do: executorController() sets Finished.
Quiet == candidate = <<>> /\ \A e \in Executors : Vacant(e)
Finished == Quiet /\ UNCHANGED vars

Next == Select \/ (\E e \in Executors : Take(e) \/ Step(e)) \/ Finished

\* An executor that waits has signalled needReadyJob_ for its share.
SelectForIdle == Select /\ \E e \in Executors : Vacant(e)

Fairness == WF_vars(SelectForIdle) /\ \A e \in Executors : WF_vars(Take(e) \/ Step(e))

Spec == Init /\ [][Next]_vars /\ Fairness
-----------------------------------------------------------------------------
(* Properties.                                                               *)

\* Where a job can be: in a queue, in hand, or in the newJobs of the job that
\* made it, once that has counted them.
Queues == {<<"candidate", 0>>} \cup ({"ready", "new", "hand"} \X Executors)
Queue ==
  [q \in Queues |->
     LET e == q[2] IN
     CASE q[1] = "candidate" -> candidate
       [] q[1] = "ready" -> ready[e]
       [] q[1] = "new" -> IF at[e] = "cache" THEN <<>> ELSE outbox[e]
       [] q[1] = "hand" -> IF job[e] = NoJob THEN <<>> ELSE <<job[e]>>]
Places == UNION {{q} \X DOMAIN Queue[q] : q \in Queues}
JobAt(p) == Queue[p[1]][p[2]]

GroupsToParse == {p \in Places : JobAt(p).kind = "group"}

\* parseGroupJobCount_ counts the ParseGroup jobs of all files together, and
\* as long as a ProcessMifItems job lies in the cache one of them is there to
\* release it.
CacheHasReleaser ==
  /\ groupJobs = Cardinality(GroupsToParse)
  /\ (\E s \in Subs : cache[s] # <<>>) => groupJobs > 0

\* Jobs that may wait for the items of group i, and those that build them.
WaitsFor(j, i) ==
  \/ j.kind = "init" /\ j.of = i
  \/ j.kind = "items" /\ \E r \in RequestsOf(FileOf[j.of]) : ItemOf[r] = i
Builds(j, i) == j.kind = "build" /\ j.of = i
Pending(e) == ToSet(ready[e]) \cup ToSet(candidate) \cup UNION {ToSet(outbox[x]) : x \in Executors}

\* The texts that name item group i all give it one tag.
OneTag(i) ==
  \A r, u \in Requests : ItemOf[r] = i /\ ItemOf[u] = i /\ ~Dynamic(r) => TypeOf[r] = TypeOf[u]

\* An init job of an item group that is named with two tags.  The group may be known
\* when its second tag is found, and still be on its way to be pushed by the executor
\* that found the first; the init job of the second is pushed at once, and gets ahead
\* of the jobs that build the items (ExecutorJobFunc.cpp:247).
SecondTag(j) == j.kind = "init" /\ ~OneTag(j.of)

\* A job never blocks an executor while a job that builds the group it waits
\* for lies behind it in the same queue or has not been dealt out yet: this
\* is what jobCache_ is for (ResourcePool.h:144), and what the scheduler
\* needs not to deadlock.  The code keeps it for every job that processes items,
\* and for the init jobs of the groups that are named with one tag.
NoBuilderBehind ==
  \A e \in Executors, i \in Items :
    WaitsFor(job[e], i) /\ ~SecondTag(job[e]) => ~ \E j \in Pending(e) : Builds(j, i)

\* Items are processed when every line of their file has been parsed and
\* every group pointer in it has been set.
LinesBeforeItems ==
  \A e \in Executors :
    LET f == FileOf[job[e].of]
    IN  job[e].kind = "items" =>
          readyCount[f] = Len(Lines[f]) /\ {f} \X RequestsOf(f) \subseteq resolved

\* A static group is opened for use when every item of its plugin layer has
\* been looked at, by however many jobs.
GroupsComplete ==
  \A r \in Requests :
    TypeOf[r] \in typeReady => added[ItemOf[r]] = Size[Plugin[ItemOf[r]]]

\* When the pool has nothing left to do, the results of every subgroup are in
\* its output file: no job was forgotten in jobCache_ or parseConfigFileJobs_
\* (ResourcePool.h:140-144), and no output was left unsaved.
NothingForgotten == Quiet => written = Subs

\* All items of a group have been counted and ready_ was not opened.
Unopened(i) == checked[i] = Size[Plugin[i]] /\ added[i] > 0 /\ i \notin itemReady

\* Executor e is held up by an init job, of a group with two tags, that waits for a
\* builder which nobody has begun.
HeldUp(e) ==
  SecondTag(job[e]) /\ \E x \in Executors : \E j \in Pending(x) : Builds(j, job[e].of)

\* The pipeline comes to its end, unless one of two things keeps it from it: a group
\* that two BuildGroup jobs completed at once without opening it, or an init job of a
\* group with two tags that got ahead of its builders, which then lie for ever behind
\* it, or behind a job that waits for what lies behind it.
EndsUnlessHeldUp ==
  \/ <>Quiet
  \/ <>(\E i \in Items : Unopened(i))
  \/ <>[](\E e \in Executors : HeldUp(e))

\* The parsed groups, the layers of a file and the source of a copied group
\* outlive their use (srcLayers_, info_, groupPtr_), whatever the order of the
\* jobs, with four exceptions.  The last addition to checkedCount_ comes when
\* ready_ is open (ExecutorJobFunc.cpp:304); a dynamic group may copy info_ when
\* the type group has deleted it (Config.cpp:671); the last group so far
\* deletes srcLayers_ although more lines of its file are to be parsed (:254); and
\* the second type group of an item group takes its tag's name from the info_ that
\* the first has deleted, or that is not made yet (:276).
LateUsesAreKnown ==
  \A x \in faults :
    \/ x[1] \in {"checkedCount", "deletedInfo"}
    \/ x[1] = "srcLayers" /\ Len(LinesJobs(x[2])) > 1 /\ RequestsOf(x[2]) # {}
    \/ x[1] = "tagName" /\ ~OneTag(x[2])
=============================================================================
