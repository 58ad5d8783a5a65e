----------------------------- MODULE LayerModel -----------------------------
(***************************************************************************)
(* The running model: how the files named on the command line become the   *)
(* layers that the jobs work on, and which file of configuration lines     *)
(* belongs to which output.  The steps are those of ExecutorPool::init,    *)
(* ResourcePool::initRunningModel and ResourcePool::initConfigGroup; the   *)
(* whole is sequential and runs before the first thread starts.  A shared  *)
(* id of the code is an index of layers_, counted from 1 here.  Of a path  *)
(* the model keeps its identity, and of an output whether it ends in       *)
(* "<NEW>".                                                                *)
(***************************************************************************)
EXTENDS Integers, Sequences, SequencesExt

CONSTANTS Paths,       \* paths of MIF layers
          Configs,     \* paths of configuration files
          Arguments    \* the command lines: inputs, plugins, outputs, configs

Outputs == [path : Paths, new : BOOLEAN]

\* main() fills the four lists from the command line, in any number.
ASSUME ArgumentsAssumption ==
  Arguments \subseteq [inputs : Seq(Paths), plugins : Seq(Paths),
                      outputs : Seq(Outputs), configs : Seq(Configs)]

VARIABLES pc,            \* the next step, or the loop it is in
          args,          \* params_, resized by ExecutorPool::init
          parallel,      \* ExecutorPool::runParallel_
          next,          \* loop index of initRunningModel, counted from 1
          layers,        \* layers_: kind, path and copySrcLayer_ (0: none)
          inputIds,      \* idMapping_, the part for the inputs
          outputIds,     \* idMapping_, the part for the outputs
          readers,       \* noOutputLayers, or readOnlyLayers in serial mode
          outputByName,  \* outputLayersMap_
          pluginByName,  \* pluginLayersMap_
          groups,        \* subGroupMap of ConfigGroup::init
          savePoint      \* savePoint_ of every file

ids == <<inputIds, outputIds, readers, outputByName, pluginByName>>
vars == <<pc, args, parallel, next, layers, ids, groups, savePoint>>

NInputs  == Len(args.inputs)
NPlugins == Len(args.plugins)
NOutputs == Len(args.outputs)
NConfigs == Len(args.configs)

Init ==
  /\ pc = "arguments"
  /\ args \in Arguments
  /\ parallel = TRUE /\ next = 1
  /\ layers = <<>> /\ inputIds = <<>> /\ outputIds = <<>>
  /\ readers = <<>> /\ outputByName = <<>> /\ pluginByName = <<>>
  /\ groups = <<>> /\ savePoint = <<>>

-----------------------------------------------------------------------------
\* vector::resize(n, v) of a vector that holds one element.
Resized(s, n) == [i \in 1..n |-> s[1]]

\* One configuration file for several inputs or outputs, or one output for
\* several configuration files.
Reshaped(a) ==
  LET i == Len(a.inputs) o == Len(a.outputs) c == Len(a.configs) IN
  IF c = 1 /\ (i > 1 \/ o > 1)
    THEN [a EXCEPT !.configs = Resized(@, o)]
  ELSE IF i = 1 /\ o = 1 /\ c > 1
    THEN [a EXCEPT !.outputs = Resized(@, c)]
  ELSE a

Accepted(a) ==
  /\ Len(a.outputs) >= Len(a.inputs)
  /\ LET r == Reshaped(a) IN
       Len(r.configs) > 1 => Len(r.outputs) = Len(r.configs)

ShapeArguments ==
  /\ pc = "arguments"
  /\ IF Accepted(args)
     THEN /\ pc' = "inputs"
          /\ args' = Reshaped(args)
          /\ parallel' = ~(NInputs = 1 /\ NConfigs > 1)
     ELSE pc' = "rejected" /\ UNCHANGED <<args, parallel>>
  /\ UNCHANGED <<next, layers, ids, groups, savePoint>>

-----------------------------------------------------------------------------
Normal(path)   == [kind |-> "Normal", path |-> path, src |-> 0]
New(path, src) == [kind |-> "New", path |-> path, src |-> src]

\* operator[] of a map.
Put(map, key, value) ==
  [k \in DOMAIN map \cup {key} |-> IF k = key THEN value ELSE map[k]]

\* The loops of initRunningModel run one after the other.
InLoop(loop, size) == pc = loop /\ next <= size /\ next' = next + 1

\* Mutant: the layer that was opened earlier is not taken.
AddNewOutputLast ==
  LET input == args.inputs[next]
      opened == input \in DOMAIN readers
      base == IF opened THEN layers ELSE Append(layers, Normal(input))
      src == Len(base)
  IN  /\ layers' = Append(base, New(args.outputs[next].path, src))
      /\ readers' = Put(readers, input, src)
      /\ inputIds' = Append(inputIds, src)
      /\ outputIds' = Append(outputIds, Len(base) + 1)

\* Parallel mode, an output that is NEW: it copies a layer of its input that
\* nobody writes to, opened now or earlier.
AddNewOutput ==
  LET input == args.inputs[next]
      opened == input \in DOMAIN readers
      base == IF opened THEN layers ELSE Append(layers, Normal(input))
      src == IF opened THEN readers[input] ELSE Len(base)
  IN  /\ layers' = Append(base, New(args.outputs[next].path, src))
      /\ readers' = Put(readers, input, src)
      /\ inputIds' = Append(inputIds, src)
      /\ outputIds' = Append(outputIds, Len(base) + 1)

\* Mutant: others may share the layer that the file writes to.
AddOldOutputShared ==
  LET input == args.inputs[next]
      id == Len(layers) + 1
  IN  /\ layers' = Append(layers, Normal(input))
      /\ readers' = Put(readers, input, id)
      /\ inputIds' = Append(inputIds, id)
      /\ outputIds' = Append(outputIds, id)

\* An output that exists: input and output are one layer of their own, and
\* later files do not share an earlier read-only layer of the same path.
AddOldOutput ==
  LET input == args.inputs[next]
      id == Len(layers) + 1
  IN  /\ layers' = Append(layers, Normal(input))
      /\ readers' = [p \in DOMAIN readers \ {input} |-> readers[p]]
      /\ inputIds' = Append(inputIds, id)
      /\ outputIds' = Append(outputIds, id)

AddPair ==
  /\ parallel /\ InLoop("inputs", NInputs)
  /\ IF args.outputs[next].new THEN AddNewOutput ELSE AddOldOutput
  /\ outputByName' = Put(outputByName, args.outputs[next], outputIds'[next])
  /\ UNCHANGED <<pc, args, parallel, pluginByName, groups, savePoint>>

\* A plugin shares a layer that nobody writes to.
AddPlugin ==
  /\ InLoop("plugins", NPlugins)
  /\ LET path == args.plugins[next]
         opened == path \in DOMAIN readers
         id == IF opened THEN readers[path] ELSE Len(layers) + 1
     IN  /\ layers' = IF opened THEN layers ELSE Append(layers, Normal(path))
         /\ readers' = Put(readers, path, id)
         /\ pluginByName' = Put(pluginByName, path, id)
  /\ UNCHANGED <<pc, args, parallel, inputIds, outputIds, outputByName,
                 groups, savePoint>>

-----------------------------------------------------------------------------
\* Serial mode: one input, opened for reading and writing; an output that is
\* NEW gets a layer of its own once, every other output is the input.
AddInput ==
  /\ ~parallel /\ InLoop("inputs", NInputs)
  /\ layers' = Append(layers, Normal(args.inputs[next]))
  /\ inputIds' = Append(inputIds, Len(layers) + 1)
  /\ UNCHANGED <<pc, args, parallel, outputIds, readers, outputByName,
                 pluginByName, groups, savePoint>>

AddOutput ==
  /\ InLoop("outputs", NOutputs)
  /\ LET output == args.outputs[next]
         known == output \in DOMAIN outputByName
         fresh == ~known /\ output.new
         id == IF known THEN outputByName[output]
               ELSE IF fresh THEN Len(layers) + 1 ELSE inputIds[1]
     IN  /\ layers' = IF fresh THEN Append(layers, New(output.path, inputIds[1]))
                      ELSE layers
         /\ outputIds' = Append(outputIds, id)
         /\ outputByName' = Put(outputByName, output, id)
  /\ UNCHANGED <<pc, args, parallel, inputIds, readers, pluginByName,
                 groups, savePoint>>

\* With NEW outputs only, a plugin that is the input shares its layer: the
\* plugin's own layer is erased from layers_, and its name is mapped to the
\* input; ids of later layers stay as they are.
ShareInput ==
  LET input == args.inputs[1] IN
  IF /\ \A o \in DOMAIN outputByName : o.new
     /\ input \in DOMAIN pluginByName
  THEN /\ layers' = RemoveAt(layers, pluginByName[input])
       /\ pluginByName' = [pluginByName EXCEPT ![input] = 1]
  ELSE UNCHANGED <<layers, pluginByName>>

\* The end of one of the loops; parallel mode has none for the outputs.
EndLoop ==
  /\ \/ /\ pc = "inputs" /\ next > NInputs
        /\ pc' = "plugins" /\ UNCHANGED <<layers, pluginByName>>
     \/ /\ pc = "plugins" /\ next > NPlugins
        /\ pc' = IF parallel THEN "config" ELSE "outputs"
        /\ UNCHANGED <<layers, pluginByName>>
     \/ pc = "outputs" /\ next > NOutputs /\ pc' = "config" /\ ShareInput
  /\ next' = 1
  /\ UNCHANGED <<args, parallel, inputIds, outputIds, readers, outputByName,
                 groups, savePoint>>

-----------------------------------------------------------------------------
\* Mutant: the first of them.
FirstOf(seq, i) == CHOOSE j \in 1..Len(seq) :
                     /\ seq[j] = seq[i]
                     /\ \A k \in 1..(j - 1) : seq[k] # seq[i]

\* The last file of those that name the same configuration or output.
LastOf(seq, i) == CHOOSE j \in 1..Len(seq) :
                    /\ seq[j] = seq[i]
                    /\ \A k \in (j + 1)..Len(seq) : seq[k] # seq[i]

\* getSharedIDByIndex(Input, i): CHECK_ARGS fails beyond the inputs, and in
\* serial mode every file reads the one input.
InputId(i) == IF parallel THEN inputIds[i] ELSE inputIds[1]
OutputId(i) == outputIds[i]

\* ConfigGroup::init makes the sub groups in ascending order, but the group a
\* file shares is the last one of its configuration: group_[subGroupMap[i]]
\* is read beyond the end of group_.
ReadsBeyond == \E i \in 1..NConfigs : groups'[i] > i

InitConfigGroup ==
  /\ pc = "config"
  /\ groups' = [i \in 1..NConfigs |-> LastOf(args.configs, i)]
  /\ savePoint' = [i \in 1..NConfigs |->
                     IF parallel THEN 0 ELSE LastOf(args.outputs, i)]
  /\ pc' = IF ReadsBeyond THEN "fault"
           ELSE IF parallel /\ NConfigs > NInputs THEN "rejected"
           ELSE "ready"
  /\ UNCHANGED <<args, parallel, next, layers, ids>>

\* Nothing changes the model once the jobs run.
Running == pc \in {"ready", "rejected", "fault"} /\ UNCHANGED vars

InitRunningModel == AddPair \/ AddPlugin \/ AddInput \/ AddOutput \/ EndLoop

Next == ShapeArguments \/ InitRunningModel \/ InitConfigGroup \/ Running

Spec == Init /\ [][Next]_vars

-----------------------------------------------------------------------------
\* ShareInput has erased a layer: in serial mode, all outputs are NEW and the
\* input is a plugin too.
Erased ==
  /\ ~parallel
  /\ \A i \in 1..NOutputs : args.outputs[i].new
  /\ \E i \in 1..NPlugins : args.plugins[i] = args.inputs[1]

ReadsOwnInput(i) ==
  LET input == args.inputs[IF parallel THEN i ELSE 1] IN
  layers[InputId(i)] = Normal(input)

WritesOwnOutput(i) ==
  IF args.outputs[i].new
  THEN layers[OutputId(i)] = New(args.outputs[i].path, InputId(i))
  ELSE OutputId(i) = InputId(i)

FindsPlugin(path) == layers[pluginByName[path]] = Normal(path)

Lookups ==
  /\ \A i \in 1..NConfigs : ReadsOwnInput(i) /\ WritesOwnOutput(i)
  /\ \A i \in 1..NPlugins : FindsPlugin(args.plugins[i])

\* Whatever is shared between the arguments, a job of file i finds the layer of
\* input i, writes to the layer of output i (a NEW one copies input i), and a
\* group finds the plugin it names: idMapping_ and the maps by name agree with
\* layers_ (ResourcePool.cpp:37-209), the erased layer apart.
LookupsMatchArguments == pc = "ready" /\ ~Erased => Lookups

\* Nobody reads, as a plugin or as the source of another file, a layer some
\* file writes to: a path that is read and written gets two layers
\* (ResourcePool.cpp:65-67 and 70-82).  In serial mode the one input may be
\* the output of several files, which run one after another.
WritersKeepToThemselves ==
  pc = "ready" /\ ~Erased =>
    \A i \in 1..NConfigs :
      /\ \A p \in DOMAIN pluginByName : pluginByName[p] # OutputId(i)
      /\ \A j \in 1..NConfigs :
           parallel /\ j # i => OutputId(i) \notin {InputId(j), OutputId(j)}

\* A NEW layer that several files of a serial run add items to is saved after
\* the last of them, and every file of that layer knows the same save point
\* (ResourcePool.cpp:228-234).
SavedWhenComplete ==
  pc = "ready" /\ ~parallel =>
    \A i, j \in 1..NConfigs :
      args.outputs[i].new /\ OutputId(i) = OutputId(j)
        => savePoint[i] >= j /\ savePoint[i] = savePoint[j]
=============================================================================
