# Specifications of ConditionAssign

ConditionAssign reads map layers (MIF files) and configuration files of
conditions and assignments, applies the first matching line to every item of a
layer, and writes the output layers. It does all this in *jobs* run by a pool of
threads. The specifications here model that machinery: the semaphore it is
built on, the scheduler, the jobs with the state they share, and what the jobs
compute - the layers of a command line, the trees of conditions, the rows and
columns of layers, the groups of a plugin layer. A second program of the
repository, RoadCatalog, gives every road of a city a class and a catalog; its
passes over the road network are modelled too.

All line numbers refer to the files in `src/`.

## 1. Inventory

| Component | State it keeps | Operations | Talks to |
|---|---|---|---|
| **Semaphore** (`Semaphore.cpp`) | `count_`, `wakeupCount_`, the wait set of a condition variable | `wait`, `signal`, `signalAll`, in three types: Normal, SignalFolded, OnceForAll | everybody |
| **Executor pool** (`ExecutorPool.cpp`) | `status_`, `executorStatus_`, `needSelect_` (one bit per idle executor), four kinds of semaphores | `execute`, the executors' `mainRunner`/`startWaiting`, `resourceController`, `executorController` | queues, jobs |
| **Job queues** (`ResourcePool.cpp` 409-486) | `candidateQueue_`, `readyQueue_`, `readyJobCount_`, `workingJob_` | `getReadyJob`, `selectReadyJob` | pool, jobs |
| **Jobs** (`ExecutorJobFunc.cpp`) | `parseGroupJobCount_`, `jobCache_`, `readyCount_`, `processedCount_`, `finishedFileCount_` | `process()` of seven kinds | layers, groups, queues |
| **Group registry and group parsing** (`ResourcePool.cpp` 250-302, `Config.cpp` 538-708) | `groupMap_` | `findGroup`, `findInsertGroup`, `parseGroupInfo` | parser, groups |
| **Groups** (`Group.cpp`) | `ready_`, `parseDone_`, `info_`, elements | `init`, `addElements`, `copy`, dynamic groups, geometric predicates | layers, jobs |
| **Running model** (`ExecutorPool::init`, `ResourcePool::init*`, `ConfigGroup::init`) | layers, `idMapping_`, save points, sub groups | initialisation from the command line | layers, jobs |
| **Serial mode** | `parseConfigFileJobs_`, save points, `finishedFileCount_` | one configuration file after another on one input | jobs, layers |
| **MIF layers and items** (`MifType.cpp`) | `ready_`, tag caches, columns, items | `open`, `copyLoad`, `save`, tag access, items | groups, operators |
| **Configuration parser** (`Config.cpp`, `SyntaxBase.cpp`) | syntax trees | `parseConfigLine`, `parseExpr`, `linkExpr`, `keyGenerate` | operators, groups |
| **Operators** (`NormalOperators.cpp`, `SpecialOperators.cpp`) | none | typing, evaluation | groups, items |
| **RoadCatalog** (`RoadCatalog/ConfigCatalog.cpp`) | road and node layers, kind classes, built-up flags, catalogs | `Road_CatalogEx`: `ProcessRampKindClass`, `ProcessSAKindClass`, `CheckKindClassConnectivity`, `ProcessBuildInFlag`, `SmoothRoadCatalog`, `RecatalogMainRoad` | a program of its own |
| **Command line** (`ConditionAssign.cpp`), **test tools** | - | - | - |

How they interact. `execute()` puts a LoadLayer job per layer and a
ParseConfigFile job per file into `candidateQueue_` and starts the threads. The
resource thread moves candidates into the executors' ready queues; the
executors run them. A file job makes jobs that parse lines; each makes a job
per group it meets; each new group makes jobs that build it; and the jobs that
process items, held back in `jobCache_`, are released when the last group of
all files has been parsed. Jobs wait for one another *inside* `process()`,
through OnceForAll semaphores (`ready_`, `parseDone_`), and an executor that
waits runs nothing else.

What is hard here:

* *Interleaving.* The test for the end of the program reads three variables
  that executors change one by one; a semaphore's waiter may take a wakeup
  meant for another; jobs compare and then change shared counters.
* *Ordering.* Because jobs block executors, a job must never be queued in
  front of one that it waits for. Nothing but the order of the queues and
  `jobCache_` sees to that.
* *Failure.* A failing job must stop the pool and be reported, whatever the
  other threads are doing. It cannot open what others wait for.
* *Lifetime.* `srcLayers_` and `info_` are shared by jobs and deleted by
  whichever seems to be the last.
* *Sharing.* Rows of an input keep caches of values and of dynamic groups for
  all files that read it; columns and their types are found on demand by
  whichever file asks first.
* *Boundaries.* 32 executors, full ready queues, short and empty partitions.
* *Order of rows.* Every pass of RoadCatalog reads what it has itself written
  for earlier roads; searches go round in circles of roads.

There is no persistence, no network and no timeout in the program; no crash
recovery or message loss is modelled because there is none.

What makes each component correct: no wakeup is lost or invented (Semaphore);
no job is lost or run twice, the end is announced only when everything is done
and always if nothing fails, an error is always announced (pool, queues);
items are processed with all their groups complete, nothing is forgotten,
nobody waits for ever (jobs, groups); an output is written with everything that
was assigned (serial mode); ids lead to the layers that were named (running
model); a condition means what its text says (parser); a row holds what its
item was assigned (layers); a group answers what its text asks (groups); every
pass over the roads leaves what the next one relies on (RoadCatalog). `PROJECT.json` lists the hazards line by line with
the properties that look after each.

## 2. Modules

| Module | What it is |
|---|---|
| `SemaphoreOps` | a semaphore as a record and its operations as functions of the record; used by `Semaphore` and `ExecutorPool` |
| `Semaphore` | one semaphore and any number of threads that call it |
| `CountingSemaphore` | abstract: what a Normal semaphore promises |
| `SemaphoreProofs` | theorems about `Semaphore` |
| `Queues`, `QueueLemmas` | the ready queues as sequences; lemmas about them and about sequences put together, theorems about `Partition` |
| `WorkPool` | abstract: a bag of work, what the pool promises to `main()` |
| `ExecutorPool`, `MCExecutorPool` | the scheduler, statement by statement; constants for TLC |
| `ExecutorPoolProofs` | its theorems about jobs and about signals (nobody sleeps on work); that it implements `WorkPool` |
| `Partition` | division of lines and items into jobs |
| `JobPipeline`, `MCJobPipeline` | the jobs and the state they share; scenarios for TLC |
| `JobPipelineProofs` | theorems about `JobPipeline` |
| `LayerModel`, `MCLayerModel` | from the command line to layers, ids and save points |
| `LayerModelProofs` | theorems about `LayerModel` |
| `ConditionParser`, `MCConditionParser` | from the text of a condition to its tree and its truth |
| `MifItems`, `MCMifItems` | columns, rows, item caches; conditions and assignments of several files |
| `MifItemsProofs` | theorems about `MifItems` |
| `GeometryChecks` | the questions asked of a group of geometries |
| `Groups`, `MCGroups` | group texts, the map of groups, static and dynamic groups, the operators on them |
| `GroupsProofs` | theorems about `Groups` |
| `RoadKinds` | kinds, classes and catalog codes of a road, as functions |
| `RoadCatalog`, `MCRoadCatalog` | the passes over the road network |
| `RoadCatalogProofs` | theorems about `RoadCatalog` |

How they compose. `ExecutorPool` shows what the queues do with jobs of any
kind: order is kept and nothing is lost. `JobPipeline` takes that order for
granted and shows what the real jobs do with the shared state. `MifItems` and
`Groups` look inside one kind of job each: what a ProcessMifItems job does to
rows, and what becomes of a group. `LayerModel` and `ConditionParser` are
sequential; what they produce is what the others start from.

### Semaphore

`SemState` is the record `[type, count, wakeup]` of `count_` and
`wakeupCount_`. `WaitPass` and `WaitSleep` are the two outcomes of the first
half of `wait()`, `Recheck` is a thread that runs again inside
`condition_variable::wait` and either takes a wakeup or goes back to sleep,
`SpuriousWakeup` is the wakeup C++ allows at any time. `signalAll()` on a Normal
semaphore is one critical section and so one action. `count_` is an unbounded
integer, except that a OnceForAll semaphore jumps to INT_MAX as in the code.

### ExecutorPool

`pc[t]` is the next statement of thread `t` that touches shared state: main
thread (-1, which runs `executorController()` inside `execute()`), resource
thread (-2), executors 0 .. N-1. Each action is the code between two such
points, or one critical section. The three reads at the end of
`executorController()` are three actions under `candidateQueueLock_`
(`CandidateLocked`): the executors' atomic counters can change in between.
`status_` and `executorStatus_` are plain variables that other threads read;
every access is next to a mutex operation (a queue lock or a semaphore), so the
model reads and writes them atomically and in order. `needSelect_` is the set of
its 1 bits. `startWaiting()` and `getReadyJob()` check that the executor is Busy and has no
job in its slot; the error returns are in the model (the executor leaves, the second with a
report), and the proofs show that nobody gets there. The mask of `executorController()` is computed by a shift whose
count is -1 for 32 executors; x86 takes it modulo 32, which gives an empty mask
(`NoWorkingJob`); the model scales 32 down to `IntWidth`.

A job is a number, in the order of pushing. What it does is abstracted to what
the scheduler can notice: it may push jobs at any time, wait for earlier jobs
(`Waits`), fail (`Failing`), and end. Jobs are not given these powers by the
code one by one: every combination is tried.

### JobPipeline

Here the jobs are the real ones and the scheduler is coarse: `Take` is
`getReadyJob()`, `Select` deals to every executor an even share of the candidates, up to
`MaxReady` (`MAX_READY_QUEUE_SIZE`). It may come whenever some executor has no job in
hand: `needSelect_` has an executor's bit from the moment it finds its queue empty until
some time after it has been dealt jobs. This is what the detailed
scheduler does as far as the *order* of jobs goes (property
`FirstComeFirstServed` there); sleeping and waking is left out. Each
`process()` is cut where other jobs can see it: `at[e]` is the next step of the
job that executor `e` has in hand. Waiting for a latch is a guard.

The scenario is given by constants: layers with sizes, files as sequences of
lines, a line as the groups it names, and for every group text its item key,
type key and plugin layer. One file belongs to one output (a file for several
outputs makes `ConfigGroup::init` read outside its vector, see the hazards).
Which condition matches is left out: a job that processes at least one item
waits for every group of its file, the worst case. No job fails.

`faults` collects uses of data that was deleted or never set (`info_`,
`srcLayers_`, a layer's size before loading), each with the file, group or layer it
is about. After a fault the model goes on as
if the memory still held what it held; a program that crashes instead has
merely stopped earlier.

### LayerModel

`ShapeArguments` is `ExecutorPool::init`, which accepts the lists and resizes
them. `initRunningModel` is one action per turn of its loops: `AddPair` (parallel
mode, an input with its output), `AddInput` (the one input of serial mode),
`AddPlugin`, `AddOutput` (serial mode), and `EndLoop`, which after the outputs
of serial mode may erase the layer of a plugin that is the input. `InitConfigGroup` divides the files among the outputs and
sets the save points. A shared id is an index of `layers_`, counted from 1, and
`next` the loop's index. Paths and names of configuration files are constants;
an output also says whether it is `<NEW>`; `Arguments` is the set of command
lines. `fault` is the read beyond `group_` in `ConfigGroup::init`, which happens
when one file of lines serves several outputs.

### ConditionParser

The text grows by one word per step (`ReadExpression`, `ReadDelimiter`,
`ReadWholeGroups`), so all texts are tried; `stack` is `nodeStack`, `Reduced` is
`reduceExpr`, `EndOfText` the end of `linkExpr`. An accepted text leaves its tree on
the stack, and `Satisfied` evaluates it for every choice of true
expressions, as `OperatorAnd`, `OperatorOr` and `OperatorNot` do. The word `1` stands for a
single character: `parseExpr` finds no operator in it, but at the end of a text `linkExpr`
does not even make an expression of it (`index < content.size() - 1`, Config.cpp:421, in
`LongRest`). After an operator that is an error, after a bracket the text is accepted without
the character. The reference is a
recursive definition of the grammar (`WellFormed`, `Holds`).

### MifItems

`mode` says how two files share layers: `own` (each its input), `shared` (one
input, new outputs), `serial` (one layer) and `serialNew` (one input, one new
output). `layer` has the columns (`col_name_map`), the cache of columns, the
types of columns and the rows. The lines of a long file are divided over several jobs
(ExecutorJobFunc.cpp:89-106): `job` is the one an expression belongs to, each job parses its
own in their order and the jobs run at the same time (`NextOfJobs`), so that a later line may be
parsed before an earlier one; the items begin when all have been parsed
(`AllParsed`). Parsing an expression asks the layers for the
tag (`TypedTag`, `AddTag`); then the items of the file run, each cut where another
item or file can come between: the condition, the old value of `+=`, the new
row, the cell, the cache. The history variables `view` and `misread` say what the
item's file has made of its row and which conditions have read something else.
`status` is how the run stands. It is `failed` when a function returns -1: a condition
on a tag that nobody has, an old value that the input has no column for
(`Readable`), a number assigned to a row the input does not have. It is `fault` when
the code reaches memory that is not the layer's: the item caches of a new layer, which
has none (MifType.cpp:167), or a column beyond the row of the input whose type is
asked for (MifType.cpp:227). The constants are any programs of expressions and any rows
of one set of columns; the assumptions on them are what the parser and the file
format see to.

### Groups and GeometryChecks

A group's text is a sequence of words; `GroupArgs` is `parseGroupArgs` with its
search for brackets, commas and the arrow. `KeyOf` adds up characters as
`keyGenerate` does, up to the first blank; `Names` gives every name its sum, and
the constants choose names whose sums collide. Each expression is parsed, each
group built and initialised in one step, in any order the jobs allow: `InitGroup` takes
`info_` from the other group, waits for its `ready_` and then reads its geometries;
an item key and a type key with the same sum share one entry of the map, the one written last. The items of two
files then run concurrently, with `buildDynamicGroup` cut at its
double-checked lock (`TestSize`, `LockMap`, `FillMap`, `SetSize`, `MatchRows`) and the cache of
results and of dynamic groups per row. The tag of a row or item is `[text, quoted]`, a cell of the file with its quotes
or without: a tag group holds the cells as they are (Group.cpp:217), and `TagContain` takes the
quotes off the item's value only (NormalOperators.cpp:229). `GeometryChecks` has the ten checks with
their type tests; a geometry is a set of cells on a strip, so that boxes may meet
where shapes do not. R-tree and geometry library are external.

### RoadKinds and RoadCatalog

A road has the attributes that the passes read; `RoadKinds` has the tests of
kinds and the tables of codes. `RoadCatalog` runs the passes in their order:
`PrepareRoads`, `ProcessSAKindClass`, the search from each ramp in both directions
(`NextRamp`, `FollowRamp`, `TurnBack`, `AssignRamp`), the sweep of each level (`NextGroup`,
`FollowGroup`, `LowerGroup`), built-up areas (`NextBuilt`, `FollowBuilt`),
`AssignCatalogs`, `SmoothRoad` one road at a time, `RecatalogMainRoad`. `queue` and `seen`
are the search's own. The program is sequential; what varies is the network,
and whether the node layer can be read.

## 3. Runs

`N` is the number of executors; the longest run (`Pipeline`, 316,661 states) takes three minutes,
the others less than one or two.

| Run | Question | Bounds |
|---|---|---|
| `SemNormal` | Normal semaphore: wakeups covered, waiters accounted for, implements `CountingSemaphore` (with liveness) | 3 threads, 2 waits each, 4 signals of both kinds |
| `Pool` | conservation of jobs, soundness of the end, error reporting, return of `execute()`, `WorkPool` | N = 2, 3 jobs that push and fail freely |
| `PoolWaits` | jobs that wait for the job before them: dealt in order, nobody sleeps on while there is work | N = 3, ready queues of 1, 4 jobs |
| `Pipeline` | the job pipeline in parallel mode: order, completeness, lifetimes, end | N = 2, 2 inputs, 4 layers, a file with two jobs of lines, an item group built by 2 jobs and named twice, one named with two tags, a dynamic group with the conditions of a static one; jobs of 2 lines or items |
| `Layers` | ids, names, sharing and save points for every command line | 1-2 inputs, 0-2 plugins, 1-3 outputs and files of lines, over 2 existing paths and a new one |
| `Parser` | accepted texts mean what they say, malformed ones fail, formulas are accepted | all texts of up to 9 words with up to 3 expressions and single characters |
| `Items` | rows, columns, caches and types under two files | 2 files with each pair of the programs of `MCMifItems`, two of them divided over two jobs of lines, 2 rows of 3 columns, 4 ways to share layers |
| `Groups` | answers of the operators on groups; the dynamic map; deletion of groups | 12 cases of two files, 1-2 rows of input, 2-3 of plugin, inputs shared or not |
| `Roads` | what each pass over the roads promises; progress | networks of 4 roads: line, star, circle, and two map sheets, with the kinds each pass tells apart |
| `PoolErrorHang` | *violated*: a failing job leaves another waiting, `execute()` hangs | N = 2, 2 jobs |
| `PipelineSerial` | *violated*: serial mode does not wait for its input layer, output not written | N = 2, 2 files |
| `RoadsRelief` | *violated*: the rule for exits to relief roads never decides | as `Roads` |

Why the bounds are enough to be interesting. Two executors suffice for one to
look, count or sleep while the other acts; three are needed for one to be
woken while another still runs and a third sleeps. Ready queues of one or two
reach the cap `MAX_READY_QUEUE_SIZE`. Three jobs are enough for a job that pushes
while another has just been found idle. In the pipeline, two build jobs
are what the race for `ready_` takes, and one with an init job of each tag what it takes to get
ahead of a builder; jobs of two elements exercise whole jobs, a rest that becomes a
job and an empty rest. Three outputs are the fewest of which
the first and the last share a save point and another comes between. Nine words hold two
nested brackets, a negation and three expressions. Two rows let one item
go ahead of another, two files let one assign what the other asks. Four
roads make a ramp between two roads with one beyond, a group of two with two
neighbours, and a circle with a way out.

Deadlock is checked in all runs but three. It is not in `SemNormal` (threads
stop when their bounded calls are used up) nor in those about jobs, where the
program really can hang: `EndsUnlessHeldUp` names the two ways that are known, and says that
there is no third in the scenario.

The `hazards` of `PROJECT.json` name the properties that would catch them. Where the code does go
wrong, the case is an exception that a property names, or belongs to serial mode, of which no
run passes; such a hazard lists no property and its note says so.

Each property of a passing run has a mutant in `PROJECT.json`: a plausible bug in
one mapped definition with which TLC finds the property violated.

**Exceptions that properties name.** A passing property that would not hold of
the code without an exception says so in its formula, and the exception is a
disagreement of its own:

* `LookupsMatchArguments` excludes the *erased layer*: in serial mode with NEW
  outputs only, a plugin that is the input has its layer erased from `layers_`
  (ResourcePool.cpp:190-194) after later layers have got their ids, which then
  lead one layer too far or beyond the end. The comment at ResourcePool.cpp:190
  says that `idMapping_` need not change because plugins are not looked up by
  index; outputs, which have later ids, are.
* `FormulasAccepted` and `ParsedAsWritten` exclude `))`: `linkExpr` reduces at a
  bracket after an expression, not after a bracket, so that nested brackets that
  close together are rejected or grouped otherwise. test/conf/test_road_1.conf:9
  has such a line.
* `MisreadsComeFromOthers`: the item caches belong to the row of the *input*;
  files that share an input see one another's assigned values, and the GUIDs of one
  another's new rows.
* `FaultsOnlyInSerialNew`: in serial mode with a new output, a number assigned to a
  column that the input has a number in writes to item caches that a new layer does not
  have (MifType.cpp:167), and the type of a column that only the output has is read
  beyond the end of the input's row (MifType.cpp:227).
* `ParsedAsWritten` and `MalformedFails` say what they say of a text without a single character
  after its last bracket: `(kind%=00)1` is accepted as `(kind%=00)` (Config.cpp:421).
* `ColumnsForAssignments`, where a file has its own input as output: a condition of an earlier
  line, or of any line that another job parses, may ask the layer for the tag first; it is then
  known as New and no column is added (MifType.cpp:427-441).
* `AnswersFollowDistinctTexts` excludes *clashing keys*: an additive hash, cut at
  the first blank, and a dynamic group's key without its tag (Config.cpp:664). Two answers
  may differ: a text that the group holds in quotes is not found (`MissesQuoted`), and the
  "all" of `checkAllIntersect` and `checkAllAtEdge` is said as soon as the first element that
  is near answers so (`SaysAllForSome`). `GeoContainedAll` is compared with what its check
  asks, whether the elements are in the item, not the item in the elements.
* `FreedOnlyWhenShared`: the first item object of a row that ends deletes the dynamic
  groups that another file may be using.
* `EndsUnlessHeldUp` names two ways to hang. Two BuildGroup jobs that compare `checkedCount_`
  before either adds to it leave a group unopened (`Unopened`, ExecutorJobFunc.cpp:301). And the
  init job of a second tag gets ahead of the builders (`HeldUp`, ExecutorJobFunc.cpp:247): the type
  group of the second tag is registered while the item group is known but its build jobs are
  not yet pushed, its `InitType` job is dealt before them, one executor then waits for what
  lies behind its back, and the others for what lies behind that. Both occur in the scenario.
* `NoBuilderBehind` excludes that init job, and nothing else (`SecondTag`: of an item group that the
  texts name with two tags).
* `LateUsesAreKnown` names four uses of deleted memory: the last addition to `checkedCount_` may
  reach `info_` after its deletion (ExecutorJobFunc.cpp:304); a dynamic group copies the
  `info_` of the static group with its conditions, which the type group may have deleted
  (Config.cpp:671); a file that is divided into several jobs of lines loses its
  `srcLayers_` when the groups of the jobs parsed so far are parsed and those of the others not
  yet counted (ExecutorJobFunc.cpp:254); and of two tags of one item group the second takes
  its name from the `info_` that the init job of the first has deleted, or is about to
  set (ExecutorJobFunc.cpp:276).
* `RowsHoldAssignments` excludes an `<Empty>` that follows an assignment, which adds a
  second row and leaves the first as it was.
* `ReadsBeyond` (LayerModel): a file of lines for several outputs reads
  beyond `group_`; the properties speak of `pc = "ready"` only.
* Theorems `TestIsSound` and `FinishedIsDone` assume `N < IntWidth`: with 32
  executors, which `init()` accepts ("Too many executors(>32)",
  ExecutorPool.cpp:122), the mask of idle executors is shifted by -1 and `execute()`
  never returns. TLC shows this with `N = IntWidth = 2`.

The three violated runs are in `findings` of `PROJECT.json`.

**Fairness.** Weak fairness for every thread and nothing more: the operating
system runs every thread that can run, and every `process()` that does not wait
comes to its end. `Semaphore` asks it only of a thread inside `wait()` that has
been woken.
No thread is assumed to be preferred among several that wait: that a wakeup
reaches somebody who can use it is what the properties have to show.
`RoadCatalog` states no fairness: it is one thread with one enabled action, and
`StepsAdvance` shows what matters, that every step takes a bounded measure
(pass, level, road, stage, roads seen, length of the queue) further, so that no
search goes round for ever.

## 4. Proofs

TLAPS checks the following for every value of the constants (`theorems` in
`PROJECT.json` lists the main ones).

*Semaphore.* The inductive invariant (`SemaphoreProofs!IInv`) is type
correctness, `NotifiedCoverWakeups` and `WaitersBacked`: pending wakeups and
counted waiters together never outnumber the threads inside `wait()`. The last
part is needed because a signal turns a counted waiter into a wakeup, and only
the sum is stable. From it: wakeups are covered, for all three types; in a
Normal semaphore and in a latch opened with `signalAll()` every waiter is
accounted for; a Normal semaphore implements the safety part of
`CountingSemaphore`. The run `SemNormal` checks the Normal type only; for the
other two the theorems stand alone.

*Scheduler.* The inductive invariant (`ExecutorPoolProofs!IInv`) is
`TypeOK`, the state of the queues (`JobsConserved`, `FirstComeFirstServed`,
`CountMatchesQueues`), `ExecutorsConsistent` (an executor with its bit set has no
job in hand) and `CheckedUnderLock` (what has been read so far by the test for
the end is still true: candidates cannot come while the lock is held, and with
no candidates `readyJobCount_` = 0 stays, so only executors that have a job in
hand remain, whose bit is not set). From it: no job is lost or run twice,
the count is exact, order is kept, and, for fewer executors than bits
(`N < IntWidth`), `Finished` means that every job ever pushed has been processed.
`PoolImplementsWorkPool` proves that every step is a step of `WorkPool` or a stutter.

*Signals of the scheduler.* The second half of `ExecutorPoolProofs` follows a signal
from the moment it is owed. `SignalsKept` has four parts, inductive only together with
`IInv`. `SleepersCounted`: who sleeps is counted by its semaphore or has a
wakeup, so that the next `signal()` reaches it. `JobsAnnounced`: while the ready
queue of an executor that saw it empty has jobs, the notification is owed
(the executor is in `wakeupExecutorID`), sent, or kept as a token. `RequestsKept`:
while an executor is stuck (asleep or about to sleep with nothing expected)
and there are candidates, a call of the resource thread is pending or under way; it
needs `SleepersCounted`, because the call may find that thread asleep.
`AnswersMatch` pairs question and answer between the resource thread and
`executorController()` while the pool runs: exactly one question is open when a check
is in progress, and the answer, once given, is taken before the next
question. The exception is the call of a failed executor (`Reported`), which
comes without a question and ends the run. From it: no executor sleeps while
its ready queue has jobs (`NoSleeperWithJobs`), none waits for
candidates that lie undealt (`NoCandidateForSleepers`), and no answer is left over for a
later question (`NoStaleAnswer`), for every number of executors and jobs.

*Partition* (in `JobPipelineProofs`). For every number of lines or items and
every job size each element is in exactly one job, and no job exceeds a whole job
and a joining rest.

*Jobs.* For every scenario: any number of executors, layers, files, lines and
groups, any division into jobs. The invariant (`JobPipelineProofs!Inv`) says that
the counters the jobs share always lack exactly what the jobs still in the
system will add. Jobs are looked for wherever they can be, which `Queue` puts
together: candidates, ready queues, what a job is about to push, and the job in hand.

* `GroupsCounted`: `parseGroupJobCount_` is the number of ParseGroup jobs. Between the
  statement that counts new ones and the one that pushes them they lie in the
  outbox of their executor, so that the outboxes belong to the queues.
* `LinesCounted`: `readyCount_` of a file and the lines of its jobs that have not
  counted theirs yet make up the file; while the file itself is to be parsed
  (`FilePending`, also in `parseConfigFileJobs_`) it has no line jobs.
* `NamesFollowed`: a group named by a counted line has its pointer or a ParseGroup
  job that will set it.
* `ItemsHeldBack`: items are in `jobCache_` only if some ParseGroup job is left and
  all lines of their file are counted; and items outside it also have all their
  groups. With the three above it carries over from a cache that is filled to
  one that is released: the last ParseGroup job leaves no name without a pointer.
* `ItemsCounted`: `group_` and `checkedCount_` of a static group each lack the items of
  the BuildGroup jobs that have not added or not counted theirs; `ready_` of
  the item group is opened only when none is left to add. The comparison with
  `checkedCount_` succeeds only when every other job that has items has counted them,
  which it does after adding them, and the job itself has added its own.
* `TypesFollowItems`: a type group is registered after its item group and opened
  after it.
* `NoneTwice`: a file, and a part of lines or of a group's items, has one job
  only. Without it the sums above would count a line twice. New jobs are
  known not to be there yet from `FilePending` and from the registry (`known`); that
  the jobs of one division share no element is the theorem about `Partition`.

From it: `CacheHasReleaser` (`CacheKeepsAReleaser`), `LinesBeforeItems`
(`ItemsFollowLines`) and `GroupsComplete` (`ReadyGroupsAreComplete`).

In parallel mode a second invariant, `SaveInv`, goes on from there to the end of the
program. It is inductive only together with the first.

* `LayersOpen`: a layer is opened after the one it copies, and the lines of a file are
  divided after its target has been opened; so that `size()` is known when they have
  been parsed, although `mifSize_` has no initial value. In serial mode this is false
  (run `PipelineSerial`).
* `Saves`, of every subgroup: `processedCount_` and the items of the jobs that have not
  counted theirs (`ItemsLeft`, in `jobCache_` or in the queues) make up the layer once
  the file is parsed, and `processedCount_` is 0 before; with no such job left the save
  has been asked for or done; and who asks for it has counted everything, because
  `save()` writes what is complete only. That the jobs of items are made once
  is what `LinesCounted` says: `readyCount_` reaches the file's length in one job. It
  does because no job of lines is empty while there is another, for which a whole job
  must have more than one line (`LinesPerJob`; the code has 128).

From it: `NothingForgotten` (`NothingIsForgotten`): at the end the queues are empty, so
that every file is parsed, no group is left, the cache has been released, nothing is
left over, and the save is neither queued nor in hand. TLC found both invariants true in
all states of the scenario of the run `Pipeline` before they were proved. What a step
does to the queues is said once (`Effect`: which jobs go, which come, and by how much
the number of ParseGroup jobs changes); one lemma per action then says what that means
for the sums. What flattening `jobCache_` and the lines yields (`ElementsOfFlattened`)
is proved of the recursive function that defines it, by a least counterexample, as the
induction theorems of the library are out of reach.

A third invariant, `OrderInv`, is about the order of the jobs, which the other two do
not see. It holds in both modes.

* `InOrder`: whoever waits for an item group (its `InitType` job, or items of a file
  that asks for it), no job that builds it lies behind: not later in the candidates or
  in the same queue, not in the candidates when the other is ready or in hand, and not
  in anybody's `newJobs`, but for those that the other lies in itself.
* `Registered`: what may be waited for is registered, and an item group together with
  its type; so that the jobs of a new group come when nobody waits for it yet.
* `BuildersOut`: jobs that build are in the `newJobs` of a job that parses a group; so that
  there are none of others when the last such job releases the cache.

Dealing keeps it because `selectReadyJob` takes from the front of the candidates and
puts at the back of a ready queue; a group's jobs keep it because `ParseGroupJob::process` puts
those that build first. From it:
`NoBuilderBehind` (`BuildersComeFirst`), for any number of tags: the invariant leaves the init jobs
of a second tag out, as the property does.

A fourth, `LateInv`, is about what the jobs share and delete, in parallel mode. It rests
on the other three: whether an executor still uses something is known from the jobs that
there are (`Inv`), from what has been registered (`OrderInv`) and from the layers that are
open (`SaveInv`).

* `InfoOfJobs`, `InfoOfKnown`, `InfoOfParsed`, `InfoOfItems`: a group that is registered has
  its `info_`, or the executor that registered it is about to make it; in
  particular a group that a job builds, unless that job is still in the `newJobs` of that
  executor, one whose `parseDone_` is open, and one that the items of a layer ask for when
  they have left the cache. The last holds because the cache is released by
  the last ParseGroup job, when no other executor is at the conditions of a group.
* `InfoKept`: `info_` is deleted only when the items are ready and no `InitType` job of the
  group is left, and then the jobs that build it have added their items. The last needs the
  sum of `ItemsCounted`, and that no part of a division is empty: the job that finds
  `checkedCount_` short of its own items only is the only one left.
* `SourcesKept`: a file that is parsed by one job, or names no group, keeps its
  `srcLayers_` until its lines and its groups have been parsed.

From it: `LateUsesAreKnown` (`LateUsesAreTheKnown`), under `RunParallel`. TLC
checked this invariant too, in all states of the scenario of the run `Pipeline`.

*Running model.* For every command line (`LayerModelProofs!Inv`). `Progress` and
`Registered` say how far the loops are; `Opened` that every id and every name
in hand leads to the layer it was made for; `Apart` that a layer that is
written to is in no table of shared layers and has no second writer;
`Named` and `SharedByName` that in serial mode outputs share a layer only
under one name. `Opened` is seldom enough alone: the lookup of a later turn
hands out what the tables hold, so that the tables belong to the invariant. All
end with the *erased layer* (`Intact`, see the exceptions above). From it:
`LookupsMatchArguments` (`LookupsFindArguments`), `WritersKeepToThemselves`
(`WritersAreAlone`), `SavedWhenComplete` (`SavedByTheLast`: all files of a NEW layer
have the same save point, and none comes after it).

*Groups.* For every case, plugin layer and set of texts (`GroupsProofs!Inv`).
`MapsLocked` is the double-checked lock of `buildDynamicGroup`: the map of a
dynamic group is complete once `size_` is not 0; before that it is empty when
nobody holds the lock, and otherwise holds exactly the selected rows before the
row that the holder has come to. `GroupsInHand` ties the items to it: who is about to
match has seen `size_` or filled a map to which no row belongs.
`OwnersDelete`: when items have caches of their own, only the item that
made a dynamic group deletes it, and it is done then. From it:
`MapCompleteWhenRead` (`MapIsComplete`) and `FreedOnlyWhenShared`
(`OwnersNeverMeetFreed`).

*Layers and items.* For every set of files, all programs and rows and every way of
sharing layers (`MifItemsProofs!ItemsInv`).

* `LayersInv`: what a layer is. Its columns have different names, `colCache` leads to the
  column of its tag, a known type belongs to a column. Rows of an input are as
  long as its columns are many; a new layer has the columns of its input first, which
  is why a row copied from the input means the same in both.
* `ParsedInv`: what parsing has left behind. A condition whose type is not `New` has its
  column in the source, and in mode `shared` every type of the target is `New`, so that
  no number is ever assigned there: the reason why bad memory is out of reach.
* `OrderInv`: while a file is being parsed its items have done nothing, and in serial
  mode all files before it are done. This makes columns that are added late
  harmless: no row has been added to the new layer yet.
* `RowsInv`: an item that has added a row has one of its own, and where in its
  program it then is.
* `SeesInv`: the row that an item stands for (the input's, or its own) shows
  `view`, column by column. It must cover items before, at and after their assignments;
  it is what `RowsHoldAssignments` says at the end.
* `CachesInv`: while an item is at its conditions the caches of its row hold what the row
  holds, for tags that no other file writes. It does not survive the item's own first
  assignment, but no condition follows one.
* `MisreadInv`, `ColumnsForAssignments` and `FaultsOnlyInSerialNew` themselves.

The parts lean on one another: a cell is written where `ColumnsForAssignments` says there
is a column, `SeesInv` needs the row to be the item's own, `CachesInv` needs that nobody
else's row is the item's. One lemma per action says what the step does to a layer or a
cache (`CellStep`, `GrownRow`, `SameCaches` and others), whatever layer it is. From
it: `MisreadsComeFromOthers` (`MisreadsAreShared`), `ColumnsForAssignments`
(`AssignedColumns`), `RowsHoldAssignments` (`RowsOfDoneItems`),
`FaultsOnlyInSerialNew` (`WhereMemoryIsBad`). The attempt corrected the model and
one property: a row that names `guid` can be misread because another file writes GUIDs,
and the code has three ways to fail that the model had left out.

*RoadCatalog.* The invariant (`RoadCatalogProofs!Inv`) says that a ramp search has
found no relief road, that the junctions that the pass over the ramps has dealt
with are of class 0 or 1, and that the group in hand is of the level being swept; the
sweep starts at level 2, so that no junction is in a group that it lowers. From it: `JunctionsStayFast` and
`ReliefNeverFound` for every network and every table. `NeighboursStayTogether` proves of
smoothing that two roads that meet in one main catalog keep it: a road whose
catalog occurs at one of its ends is not changed.

Assumptions are those named in the modules (`NAssumption`, `QueueAssumption`,
`JobsAssumption`, `CitiesAssumption`, `ArgumentsAssumption`, `CasesAssumption`,
`ScenarioAssumption`, `LayersAssumption`, `KeysAssumption`, the four of `MifItems`, and the corresponding ones of `Semaphore`); the
code checks the first in `ExecutorPool::init`, rows are numbered from 1, a command line
is four lists of any length, a case is layers, texts and items of the right form,
and the others are definitions of the job sets. `ScenarioAssumption` gives the constants
of `JobPipeline` their types and every file one subgroup. `LayersAssumption` is what
`LookupsFindArguments` proves of every command line: an output is its input or copies
it. `NothingIsForgotten` also assumes `RunParallel`, as the code differs in serial mode; so does `LateUsesAreTheKnown`. `KeysAssumption` leaves out
groups with clashing keys: a type group belongs to one item group, and no item group
is dynamic for one text and static for another. Such groups are the subject of
module `Groups`. Those of `MifItems`: the modes are the four there are, files are numbered, an
expression assigns if its operator does and a number assigned without quotes is a
number, and an input has at least one row (without rows there are no items) and all
its rows the same columns.

*Only model-checked:* every liveness property (`ExecuteReturns`, `ErrorReported`,
`EndsUnlessHeldUp`, the liveness of `CountingSemaphore`), which is out of the prover's
reach; `ConditionParser` (recursive definitions);
`AnswersFollowDistinctTexts` of `Groups`, which compares
the answers of a whole run, caches included, with what the texts mean; of `RoadCatalog`, `Settled`,
`BuiltUpSpreads` and `StepsAdvance`, which are about connected sets of roads.

## 5. Not modelled

* Reading and writing MIF files, the R-tree and the geometry library: external
  libraries. Of geometry only what the checks ask is kept.
* Operators that compare one value of one item with a constant and touch no
  shared state: `<=`, `>`, `>=`, containment, prefix, suffix, regular expressions,
  `length`, ranges; and the table and priorities of operators
  (`OperatorReg.cpp`). A model would restate them line by line.
* The values X and Y of a tag; the geometry copied with a new row.
* Further source layers of one file in `parseExpr` (Config.cpp:240-245): `MifItems`
  has one per file.
* `parseConfigFileJobs_.empty()` outside its lock: only one file is at work at a time in
  serial mode.
* The undefined behaviour of jumping past initialisations in `parseGroupInfo`
  (Config.cpp:636), a matter of the language.
* `RoadUpgrade.cpp`, whose call is commented out (ConfigCatalog.cpp:199-207), and the
  passes of `ConfigCatalog.cpp` that copy tables of points, areas and railways row
  by row without looking at one another.
* The command line (`ConditionAssign.cpp`), logging, the test tools and scripts.
* Crashes, restarts, timeouts and lost messages: the program has none.

## 6. Plan

Done: `Semaphore`, `ExecutorPool`, `JobPipeline`, `LayerModel`, `ConditionParser`, `MifItems`,
`Groups`, `RoadCatalog`, and the proofs above. Left, in this order:

1. That the stage of groups never comes to a standstill, from `BuildersComeFirst`: of the
   jobs in hand one always waits for what no other hand is waiting with.
2. The latch as a refinement of its own.
3. A serial scenario of `JobPipeline` that passes, with save points out of order.
