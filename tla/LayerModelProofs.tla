-------------------------- MODULE LayerModelProofs --------------------------
(***************************************************************************)
(* Proofs about the running model for every command line: whatever paths   *)
(* the arguments share, the lookups find the layers the arguments name,    *)
(* and nobody reads a layer that is written to.                            *)
(***************************************************************************)
EXTENDS LayerModel, QueueLemmas

Loops == {"inputs", "plugins", "outputs"}
Later == {"config", "ready", "fault"}

Types ==
  /\ pc \in Loops \cup Later \cup {"arguments", "rejected"}
  /\ args \in [inputs : Seq(Paths), plugins : Seq(Paths),
               outputs : Seq(Outputs), configs : Seq(Configs)]
  /\ parallel \in BOOLEAN /\ next \in Nat \ {0}
  /\ inputIds \in Seq(Nat) /\ outputIds \in Seq(Nat)

Empty ==
  /\ parallel /\ next = 1
  /\ layers = <<>> /\ inputIds = <<>> /\ outputIds = <<>>
  /\ DOMAIN readers = {} /\ DOMAIN outputByName = {} /\ DOMAIN pluginByName = {}

\* ExecutorPool::init has accepted the arguments.
Shaped ==
  /\ NInputs <= NOutputs
  /\ NConfigs > 1 => NOutputs = NConfigs
  /\ ~parallel => NInputs = 1

\* How far the loops of initRunningModel have got.
Progress ==
  /\ Len(inputIds) = IF pc = "inputs" THEN next - 1 ELSE NInputs
  /\ pc = "inputs" => /\ Len(outputIds) = IF parallel THEN next - 1 ELSE 0
                      /\ next <= NInputs + 1
                      /\ ~parallel => DOMAIN readers = {}
  /\ pc = "plugins" => /\ Len(outputIds) = IF parallel THEN NInputs ELSE 0
                       /\ next <= NPlugins + 1
  /\ pc = "outputs" => /\ ~parallel /\ Len(outputIds) = next - 1
                       /\ next <= NOutputs + 1
  /\ pc \in Later => Len(outputIds) = IF parallel THEN NInputs ELSE NOutputs

\* The names of plugins that can be looked up.
Registered ==
  LET n == IF pc = "inputs" THEN 0 ELSE IF pc = "plugins" THEN next - 1 ELSE NPlugins
  IN  DOMAIN pluginByName = {args.plugins[k] : k \in 1 .. n}

Layer == [kind : {"Normal", "New"}, path : Paths, src : Nat]

Holds(seq, id, layer) == id \in 1 .. Len(seq) /\ seq[id] = layer

\* Every id leads to the layer it was made for.
Opened ==
  /\ layers \in Seq(Layer)
  /\ \A p \in DOMAIN readers : Holds(layers, readers[p], Normal(p))
  /\ \A p \in DOMAIN pluginByName : Holds(layers, pluginByName[p], Normal(p))
  /\ \A i \in 1 .. Len(inputIds) : Holds(layers, inputIds[i], Normal(args.inputs[i]))
  /\ \A i \in 1 .. Len(outputIds) :
       IF args.outputs[i].new
       THEN Holds(layers, outputIds[i], New(args.outputs[i].path, InputId(i)))
       ELSE outputIds[i] = InputId(i)

\* A layer that is written to is nobody else's.
Apart ==
  /\ parallel =>
       \A i \in 1 .. Len(outputIds) :
         /\ \A p \in DOMAIN readers : readers[p] # outputIds[i]
         /\ \A p \in DOMAIN pluginByName : pluginByName[p] # outputIds[i]
         /\ \A j \in 1 .. Len(outputIds) :
              j # i => outputIds[i] \notin {inputIds[j], outputIds[j]}
  /\ ~parallel =>
       /\ \A p \in DOMAIN readers : readers[p] # inputIds[1]
       /\ \A p \in DOMAIN pluginByName : pluginByName[p] # inputIds[1]

\* Serial mode: the ids of the outputs are those of their names.
Named ==
  ~parallel =>
    /\ \A i \in 1 .. Len(outputIds) : /\ args.outputs[i] \in DOMAIN outputByName
                                      /\ outputIds[i] = outputByName[args.outputs[i]]
    /\ \A o \in DOMAIN outputByName :
         /\ o \in {args.outputs[i] : i \in 1 .. Len(outputIds)}
         /\ IF o.new THEN Holds(layers, outputByName[o], New(o.path, inputIds[1]))
                     ELSE outputByName[o] = inputIds[1]

\* Serial mode: two files write to one NEW layer only if they name it.
SharedByName ==
  ~parallel =>
    \A i, j \in 1 .. Len(outputIds) :
      args.outputs[i].new /\ outputIds[i] = outputIds[j] => args.outputs[i] = args.outputs[j]

Intact == pc \in Loops \/ (pc \in Later /\ ~Erased)

Configured ==
  pc = "ready" => /\ parallel => NConfigs <= NInputs
                  /\ ~parallel => \A i \in 1 .. NConfigs :
                                    savePoint[i] = LastOf(args.outputs, i)

Inv ==
  /\ Types
  /\ pc = "arguments" => Empty
  /\ pc \in Loops \cup Later => Shaped /\ Progress
  /\ pc \in Later => SharedByName
  /\ Intact => Opened /\ Apart /\ Named /\ Registered
  /\ Configured

-----------------------------------------------------------------------------
\* push_back leaves the earlier elements where they are.
LEMMA Pushed ==
  ASSUME NEW S, NEW s \in Seq(S), NEW x \in S
  PROVE  /\ Len(s) \in Nat
         /\ Append(s, x) \in Seq(S) /\ Len(Append(s, x)) = Len(s) + 1
         /\ Append(s, x)[Len(s) + 1] = x
         /\ \A i \in 1 .. Len(s) : Append(s, x)[i] = s[i]
  BY AppendProperties, LenProperties

\* A list has a last element of each kind in it.
LEMMA LastOfFacts ==
  ASSUME NEW S, NEW s \in Seq(S), NEW i \in 1 .. Len(s)
  PROVE  /\ LastOf(s, i) \in 1 .. Len(s) /\ s[LastOf(s, i)] = s[i]
         /\ \A k \in LastOf(s, i) + 1 .. Len(s) : s[k] # s[i]
  <1> DEFINE n == Len(s)
             T == {n - k : k \in {j \in 1 .. n : s[j] = s[i]}}
  <1>1. n \in Nat BY LenProperties
  <1>2. T \in SUBSET Nat /\ n - i \in T BY <1>1
  <1>3. PICK m \in T : \A x \in T : m <= x
    <2> HIDE DEF T
    <2> QED BY <1>2, LeastElement
  <1>4. PICK j \in 1 .. n : m = n - j /\ s[j] = s[i] BY <1>3
  <1>5. ASSUME NEW k \in j + 1 .. n PROVE s[k] # s[i]
    <2>1. SUFFICES ASSUME s[k] = s[i] PROVE FALSE OBVIOUS
    <2>2. k \in 1 .. n BY <1>1, <1>4
    <2>3. n - k \in T BY <2>1, <2>2
    <2>4. n - j <= n - k BY <1>3, <1>4, <2>3
    <2> QED BY <2>4, <1>1, <1>4
  <1> HIDE DEF T, n
  <1>6. \E k \in 1 .. Len(s) : s[k] = s[i] /\ \A l \in k + 1 .. Len(s) : s[l] # s[i]
    BY <1>4, <1>5 DEF n
  <1> QED BY <1>6 DEF LastOf

\* What the lists of arguments hold.
LEMMA ArgsFacts ==
  ASSUME Types
  PROVE  /\ NInputs \in Nat /\ NPlugins \in Nat /\ NOutputs \in Nat /\ NConfigs \in Nat
         /\ \A i \in 1 .. NInputs : args.inputs[i] \in Paths
         /\ \A i \in 1 .. NPlugins : args.plugins[i] \in Paths
         /\ \A i \in 1 .. NOutputs : /\ args.outputs[i] \in Outputs
                                     /\ args.outputs[i].path \in Paths
                                     /\ args.outputs[i].new \in BOOLEAN
  <1>1. /\ args.inputs \in Seq(Paths) /\ args.plugins \in Seq(Paths)
        /\ args.outputs \in Seq(Outputs) /\ args.configs \in Seq(Configs)
    BY DEF Types
  <1>2. \A i \in 1 .. Len(args.outputs) : args.outputs[i] \in Outputs
    BY <1>1, ElementOfSeq
  <1> QED BY <1>1, <1>2, ElementOfSeq, LenProperties
          DEF NInputs, NPlugins, NOutputs, NConfigs, Outputs

-----------------------------------------------------------------------------
\* Before ExecutorPool::init nothing is open.
LEMMA InitInv == Init => Inv
  <1> SUFFICES ASSUME Init PROVE Inv OBVIOUS
  <1>1. Types
    BY ArgumentsAssumption DEF Init, Types
  <1> QED BY <1>1 DEF Init, Inv, Empty, Intact, Configured, Loops, Later

\* ExecutorPool::init resizes the lists: what it accepts is Shaped.
LEMMA ShapeStep ==
  ASSUME Inv, ShapeArguments
  PROVE  Inv'
  <1>1. pc = "arguments" /\ Types /\ Empty
    BY DEF ShapeArguments, Inv
  <1>2. CASE ~Accepted(args)
    <2>1. pc' = "rejected" /\ UNCHANGED <<args, parallel, next, inputIds, outputIds>>
      BY <1>2 DEF ShapeArguments, ids
    <2> QED BY <1>1, <2>1 DEF Inv, Types, Intact, Configured, Loops, Later
  <1>3. CASE Accepted(args)
    <2>1. /\ pc' = "inputs" /\ args' = Reshaped(args)
          /\ parallel' = ~(NInputs = 1 /\ NConfigs > 1)
          /\ UNCHANGED <<next, layers, inputIds, outputIds, readers, outputByName, pluginByName>>
      BY <1>3 DEF ShapeArguments, ids
    <2> DEFINE i == args.inputs
               o == args.outputs
               c == args.configs
    <2>2. /\ i \in Seq(Paths) /\ o \in Seq(Outputs) /\ c \in Seq(Configs)
          /\ Len(i) \in Nat /\ Len(o) \in Nat /\ Len(c) \in Nat
      BY <1>1, LenProperties DEF Types
    <2>3. /\ args' \in [inputs : Seq(Paths), plugins : Seq(Paths),
                        outputs : Seq(Outputs), configs : Seq(Configs)]
          /\ args'.inputs = i
          /\ args'.outputs = IF Len(i) = 1 /\ Len(o) = 1 /\ Len(c) > 1
                             THEN Resized(o, Len(c)) ELSE o
          /\ args'.configs = IF Len(c) = 1 /\ (Len(i) > 1 \/ Len(o) > 1)
                             THEN Resized(c, Len(o)) ELSE c
      <3>1. Len(c) = 1 => Resized(c, Len(o)) \in Seq(Configs)
        <4>1. Len(c) = 1 => c[1] \in Configs BY <2>2, ElementOfSeq
        <4> QED BY <4>1, <2>2 DEF Resized
      <3>2. Len(o) = 1 => Resized(o, Len(c)) \in Seq(Outputs)
        <4>1. Len(o) = 1 => o[1] \in Outputs BY <2>2, ElementOfSeq
        <4> QED BY <4>1, <2>2 DEF Resized
      <3>3. CASE Len(c) = 1 /\ (Len(i) > 1 \/ Len(o) > 1)
        <4>1. args' = [args EXCEPT !.configs = Resized(c, Len(o))]
          BY <2>1, <3>3 DEF Reshaped
        <4>2. /\ args' \in [inputs : Seq(Paths), plugins : Seq(Paths),
                            outputs : Seq(Outputs), configs : Seq(Configs)]
              /\ args'.inputs = i /\ args'.outputs = o
              /\ args'.configs = Resized(c, Len(o))
          BY <4>1, <3>1, <3>3, <1>1 DEF Types
        <4>3. ~(Len(c) > 1)
          BY <2>2, <3>3
        <4> QED BY <4>2, <4>3, <3>3
      <3>4. CASE ~(Len(c) = 1 /\ (Len(i) > 1 \/ Len(o) > 1)) /\ Len(i) = 1 /\ Len(o) = 1 /\ Len(c) > 1
        <4>1. args' = [args EXCEPT !.outputs = Resized(o, Len(c))]
          BY <2>1, <3>4 DEF Reshaped
        <4> QED BY <4>1, <3>2, <3>4, <1>1, <2>2 DEF Types
      <3>5. CASE ~(Len(c) = 1 /\ (Len(i) > 1 \/ Len(o) > 1)) /\ ~(Len(i) = 1 /\ Len(o) = 1 /\ Len(c) > 1)
        <4>1. args' = args
          BY <2>1, <3>5 DEF Reshaped
        <4> QED BY <4>1, <3>5, <1>1, <2>2 DEF Types
      <3> QED BY <3>3, <3>4, <3>5
    <2>4. /\ Len(Resized(o, Len(c))) = Len(c)
          /\ Len(Resized(c, Len(o))) = Len(o)
      BY <2>2 DEF Resized
    <2>5. /\ Len(i) <= Len(o)
          /\ Len(args'.configs) > 1 => Len(args'.outputs) = Len(args'.configs)
      BY <1>3, <2>1 DEF Accepted
    <2>6. Shaped'
      <3>1. /\ Len(args'.inputs) = Len(i)
            /\ Len(args'.outputs) = IF Len(i) = 1 /\ Len(o) = 1 /\ Len(c) > 1
                                    THEN Len(c) ELSE Len(o)
        BY <2>3, <2>4
      <3>2. ~parallel' => Len(i) = 1
        BY <2>1 DEF NInputs, NConfigs
      <3> HIDE DEF i, o, c
      <3> QED BY <3>1, <3>2, <2>2, <2>5 DEF Shaped, NInputs, NOutputs, NConfigs
    <2>7. /\ Types' /\ Progress' /\ Opened' /\ Apart' /\ Named' /\ Registered'
      BY <1>1, <2>1, <2>2, <2>3, EmptySeq
      DEF Types, Empty, Progress, Opened, Apart, Named, Registered, Loops, Later,
          NInputs
    <2> QED BY <2>1, <2>6, <2>7 DEF Inv, Intact, Configured, Loops, Later
  <1> QED BY <1>2, <1>3

-----------------------------------------------------------------------------
\* A layer that is pushed gets the next id, and the others keep theirs.
LEMMA PushLayer ==
  ASSUME layers \in Seq(Layer), NEW l \in Layer, layers' = Append(layers, l)
  PROVE  /\ layers' \in Seq(Layer) /\ Len(layers) \in Nat
         /\ Holds(layers', Len(layers) + 1, l)
         /\ \A id, k : Holds(layers, id, k) => Holds(layers', id, k) /\ id # Len(layers) + 1
  <1>1. /\ Len(layers) \in Nat
        /\ layers' \in Seq(Layer) /\ Len(layers') = Len(layers) + 1
        /\ layers'[Len(layers) + 1] = l
        /\ \A i \in 1 .. Len(layers) : layers'[i] = layers[i]
    BY Pushed
  <1> QED BY <1>1 DEF Holds

\* What AddNewOutput and AddOldOutput have in common: the file gets a source
\* that no earlier file writes to and a layer to write to that is new, its own
\* source if the output exists.
Paired(src, out) ==
  /\ layers' \in Seq(Layer)
  /\ \A id, k : Holds(layers, id, k) => Holds(layers', id, k) /\ id # out
  /\ Holds(layers', src, Normal(args.inputs[next])) /\ src \in Nat
  /\ \A i \in 1 .. Len(outputIds) : src # outputIds[i]
  /\ IF args.outputs[next].new
     THEN Holds(layers', out, New(args.outputs[next].path, src)) /\ out # src
     ELSE out = src
  /\ inputIds' = Append(inputIds, src) /\ outputIds' = Append(outputIds, out) /\ out \in Nat
  /\ \A p \in DOMAIN readers' :
       \/ p \in DOMAIN readers /\ readers'[p] = readers[p]
       \/ p = args.inputs[next] /\ readers'[p] = src /\ src # out

\* An output that is NEW: no earlier file writes to the source that is shared.
LEMMA NewPair ==
  ASSUME Types, Opened, Apart, Progress, Shaped, pc = "inputs", parallel, next <= NInputs,
         args.outputs[next].new, AddNewOutput
  PROVE  \E src, out : Paired(src, out)
  <1> DEFINE input == args.inputs[next]
             opened == input \in DOMAIN readers
             base == IF opened THEN layers ELSE Append(layers, Normal(input))
             src == IF opened THEN readers[input] ELSE Len(base)
             out == Len(base) + 1
             new == New(args.outputs[next].path, src)
  <1>1. /\ layers' = Append(base, new)
        /\ readers' = Put(readers, input, src)
        /\ inputIds' = Append(inputIds, src)
        /\ outputIds' = Append(outputIds, out)
    BY DEF AddNewOutput
  <1>2. input \in Paths /\ args.outputs[next].path \in Paths /\ layers \in Seq(Layer)
        /\ Len(layers) \in Nat
    BY ArgsFacts, LenProperties DEF Types, Opened, Shaped
  <1>3. Normal(input) \in Layer
    BY <1>2 DEF Normal, Layer
  <1>4. /\ base \in Seq(Layer) /\ Len(base) \in Nat /\ Len(base) >= Len(layers)
        /\ \A i \in 1 .. Len(layers) : base[i] = layers[i]
        /\ src \in 1 .. Len(base) /\ base[src] = Normal(input)
        /\ opened \/ src = Len(layers) + 1
    <2>1. CASE opened
      BY <2>1, <1>2 DEF Opened, Holds
    <2>2. CASE ~opened
      <3>1. /\ Append(layers, Normal(input)) \in Seq(Layer)
            /\ Len(Append(layers, Normal(input))) = Len(layers) + 1
            /\ Append(layers, Normal(input))[Len(layers) + 1] = Normal(input)
            /\ \A i \in 1 .. Len(layers) : Append(layers, Normal(input))[i] = layers[i]
        BY <1>2, <1>3, Pushed
      <3> QED BY <2>2, <3>1, <1>2
    <2> QED BY <2>1, <2>2
  <1>5. /\ layers' \in Seq(Layer) /\ Len(layers') = Len(base) + 1
        /\ layers'[Len(base) + 1] = new
        /\ \A i \in 1 .. Len(base) : layers'[i] = base[i]
    <2> HIDE DEF base, src
    <2>1. new \in Layer
      BY <1>2, <1>4 DEF New, Layer
    <2> HIDE DEF new
    <2> QED BY <2>1, <1>1, <1>4, Pushed
  <1>6. ASSUME NEW i \in 1 .. Len(outputIds) PROVE src # outputIds[i]
    <2>1. CASE opened
      BY <2>1, <1>6 DEF Apart
    <2>2. CASE ~opened
      <3>1. i \in 1 .. Len(inputIds)
        BY <1>6 DEF Progress
      <3>2. outputIds[i] \in 1 .. Len(layers)
        BY <1>6, <3>1 DEF Opened, Holds, InputId
      <3> HIDE DEF base, src
      <3> QED BY <2>2, <3>2, <1>4, <1>2
    <2> QED BY <2>1, <2>2
  <1>7. \A p \in DOMAIN readers' :
          \/ p \in DOMAIN readers /\ readers'[p] = readers[p]
          \/ p = input /\ readers'[p] = src
    <2>1. readers' = Put(readers, input, src)
      BY <1>1
    <2> HIDE DEF src, input
    <2> QED BY <2>1 DEF Put
  <1> HIDE DEF base, src, new, opened
  <1>8. Paired(src, out)
    BY <1>1, <1>2, <1>4, <1>5, <1>6, <1>7 DEF Paired, Holds, new
  <1> QED BY <1>8

\* An output that exists: the layer is new, so nobody can have it.
LEMMA OldPair ==
  ASSUME Types, Opened, Apart, Progress, Shaped, pc = "inputs", parallel, next <= NInputs,
         ~args.outputs[next].new, AddOldOutput
  PROVE  \E src, out : Paired(src, out)
  <1> DEFINE input == args.inputs[next]
             id == Len(layers) + 1
  <1>1. /\ layers' = Append(layers, Normal(input))
        /\ readers' = [p \in DOMAIN readers \ {input} |-> readers[p]]
        /\ inputIds' = Append(inputIds, id)
        /\ outputIds' = Append(outputIds, id)
    BY DEF AddOldOutput
  <1>2. input \in Paths /\ layers \in Seq(Layer)
    BY ArgsFacts DEF Types, Opened
  <1>3. Normal(input) \in Layer
    BY <1>2 DEF Normal, Layer
  <1>4. /\ layers' \in Seq(Layer) /\ Len(layers) \in Nat
        /\ Holds(layers', id, Normal(input))
        /\ \A d, k : Holds(layers, d, k) => Holds(layers', d, k) /\ d # id
    BY <1>1, <1>2, <1>3, PushLayer
  <1>5. ASSUME NEW i \in 1 .. Len(outputIds) PROVE id # outputIds[i]
    <2>1. i \in 1 .. Len(inputIds)
      BY <1>5 DEF Progress
    <2>2. outputIds[i] \in 1 .. Len(layers)
      BY <1>5, <2>1 DEF Opened, Holds, InputId
    <2> QED BY <2>2, <1>4
  <1>6. Paired(id, id)
    BY <1>1, <1>4, <1>5 DEF Paired
  <1> QED BY <1>6

\* One file of a parallel run.
LEMMA PairStep ==
  ASSUME Inv, AddPair
  PROVE  Inv'
  <1>a. /\ pc = "inputs" /\ parallel /\ next <= NInputs
        /\ UNCHANGED <<pc, args, parallel, pluginByName>> /\ next' = next + 1
    BY DEF AddPair, InLoop
  <1>b. Types /\ Shaped /\ Progress /\ Opened /\ Apart /\ Registered
    BY <1>a DEF Inv, Intact, Loops
  <1>1. /\ Types /\ Shaped /\ Progress /\ Opened /\ Apart /\ Registered
        /\ pc = "inputs" /\ parallel /\ next <= NInputs
        /\ pc' = pc /\ args' = args /\ parallel' = parallel /\ next' = next + 1
        /\ pluginByName' = pluginByName
    BY <1>a, <1>b
  <1>2. PICK src, out : Paired(src, out)
    BY <1>1, NewPair, OldPair DEF AddPair
  <1>3. /\ inputIds \in Seq(Nat) /\ outputIds \in Seq(Nat) /\ next \in Nat \ {0}
        /\ NInputs \in Nat /\ NOutputs \in Nat
        /\ Len(inputIds) = next - 1 /\ Len(outputIds) = next - 1
        /\ DOMAIN pluginByName = {}
    BY <1>1, ArgsFacts DEF Types, Progress, Registered
  <1>4. /\ inputIds' \in Seq(Nat) /\ Len(inputIds') = next
        /\ inputIds'[next] = src /\ \A i \in 1 .. next - 1 : inputIds'[i] = inputIds[i]
    <2>1. src \in Nat /\ inputIds' = Append(inputIds, src)
      BY <1>2 DEF Paired
    <2> QED BY <2>1, <1>3, Pushed
  <1>5. /\ outputIds' \in Seq(Nat) /\ Len(outputIds') = next
        /\ outputIds'[next] = out /\ \A i \in 1 .. next - 1 : outputIds'[i] = outputIds[i]
    <2>1. out \in Nat /\ outputIds' = Append(outputIds, out)
      BY <1>2 DEF Paired
    <2> QED BY <2>1, <1>3, Pushed
  <1>6. Types' /\ Shaped' /\ Progress' /\ Registered'
    BY <1>1, <1>3, <1>4, <1>5
    DEF Types, Shaped, Progress, Registered, NInputs, NOutputs, NConfigs, NPlugins, Later
  <1>7. \A i \in 1 .. next - 1 :
          /\ Holds(layers, inputIds[i], Normal(args.inputs[i]))
          /\ IF args.outputs[i].new
             THEN Holds(layers, outputIds[i], New(args.outputs[i].path, inputIds[i]))
             ELSE outputIds[i] = inputIds[i]
    BY <1>1, <1>3 DEF Opened, InputId
  <1>8. Opened'
    <2>1. ASSUME NEW i \in 1 .. next
          PROVE  Holds(layers', inputIds'[i], Normal(args.inputs[i]))
      <3>1. CASE i = next
        BY <3>1, <1>2, <1>4 DEF Paired
      <3>2. CASE i # next
        <4>1. i \in 1 .. next - 1
          BY <3>2, <1>3
        <4>2. inputIds'[i] = inputIds[i]
          BY <4>1, <1>4
        <4> QED BY <4>1, <4>2, <1>2, <1>7 DEF Paired
      <3> QED BY <3>1, <3>2
    <2>2. ASSUME NEW i \in 1 .. next
          PROVE  IF args.outputs[i].new
                 THEN Holds(layers', outputIds'[i], New(args.outputs[i].path, inputIds'[i]))
                 ELSE outputIds'[i] = inputIds'[i]
      <3>1. CASE i = next
        BY <3>1, <1>1, <1>2, <1>4, <1>5 DEF Paired
      <3>2. CASE i # next
        <4>1. i \in 1 .. next - 1
          BY <3>2, <1>3
        <4>2. outputIds'[i] = outputIds[i] /\ inputIds'[i] = inputIds[i]
          BY <4>1, <1>4, <1>5
        <4> QED BY <4>1, <4>2, <1>1, <1>2, <1>7 DEF Paired
      <3> QED BY <3>1, <3>2
    <2>3. \A p \in DOMAIN readers' : Holds(layers', readers'[p], Normal(p))
      BY <1>1, <1>2 DEF Paired, Opened
    <2> QED BY <2>1, <2>2, <2>3, <1>1, <1>2, <1>3, <1>4, <1>5 DEF Opened, Paired, InputId
  <1>9. Apart'
    <2>1. \A i \in 1 .. next - 1 :
            \A p \in DOMAIN readers : readers[p] # outputIds[i]
      BY <1>1, <1>3 DEF Apart
    <2>2. ASSUME NEW i \in 1 .. next, NEW p \in DOMAIN readers'
          PROVE  readers'[p] # outputIds'[i]
      <3>1. CASE i = next
        BY <3>1, <1>1, <1>2, <1>5 DEF Paired, Opened
      <3>2. CASE i # next
        <4>1. i \in 1 .. next - 1 /\ outputIds'[i] = outputIds[i]
          BY <3>2, <1>3, <1>5
        <4> QED BY <4>1, <2>1, <1>2, <1>3 DEF Paired
      <3> QED BY <3>1, <3>2
    <2>3. ASSUME NEW i \in 1 .. next, NEW j \in 1 .. next, j # i
          PROVE  outputIds'[i] \notin {inputIds'[j], outputIds'[j]}
      <3>1. CASE i = next
        <4>1. j \in 1 .. next - 1
          BY <3>1, <2>3, <1>3
        <4>2. /\ inputIds'[j] = inputIds[j] /\ outputIds'[j] = outputIds[j]
              /\ outputIds'[i] = out
          BY <4>1, <3>1, <1>4, <1>5
        <4> QED BY <4>1, <4>2, <1>2, <1>7 DEF Paired
      <3>2. CASE i # next /\ j = next
        <4>1. i \in 1 .. next - 1
          BY <3>2, <1>3
        <4>2. /\ outputIds'[i] = outputIds[i]
              /\ inputIds'[j] = src /\ outputIds'[j] = out
          BY <4>1, <3>2, <1>4, <1>5
        <4> QED BY <4>1, <4>2, <1>2, <1>3, <1>7 DEF Paired
      <3>3. CASE i # next /\ j # next
        <4>1. i \in 1 .. next - 1 /\ j \in 1 .. next - 1
          BY <3>3, <1>3
        <4>2. /\ outputIds'[i] = outputIds[i]
              /\ inputIds'[j] = inputIds[j] /\ outputIds'[j] = outputIds[j]
          BY <4>1, <1>4, <1>5
        <4> QED BY <4>1, <4>2, <2>3, <1>1, <1>3 DEF Apart
      <3> QED BY <3>1, <3>2, <3>3
    <2> QED BY <2>2, <2>3, <1>1, <1>3, <1>5 DEF Apart
  <1>10. Named' /\ Configured'
    BY <1>1 DEF Named, Configured
  <1> QED BY <1>1, <1>6, <1>8, <1>9, <1>10 DEF Inv, Loops, Later

\* The input of a serial run.
LEMMA InputStep ==
  ASSUME Inv, AddInput
  PROVE  Inv'
  <1>a. /\ pc = "inputs" /\ ~parallel /\ next <= NInputs
        /\ UNCHANGED <<pc, args, parallel, outputIds, readers, outputByName, pluginByName>>
        /\ next' = next + 1
        /\ layers' = Append(layers, Normal(args.inputs[next]))
        /\ inputIds' = Append(inputIds, Len(layers) + 1)
    BY DEF AddInput, InLoop
  <1>b. Types /\ Shaped /\ Progress /\ Opened /\ Apart /\ Named /\ Registered
    BY <1>a DEF Inv, Intact, Loops
  <1>1. /\ NInputs = 1 /\ next \in Nat \ {0} /\ next = 1
        /\ Len(inputIds) = 0 /\ Len(outputIds) = 0
        /\ DOMAIN readers = {} /\ DOMAIN pluginByName = {}
    BY <1>a, <1>b DEF Types, Shaped, Progress, Registered
  <1>2. /\ layers' \in Seq(Layer) /\ Len(layers) \in Nat
        /\ Holds(layers', Len(layers) + 1, Normal(args.inputs[1]))
    <2>1. args.inputs[1] \in Paths
      BY <1>b, <1>1, ArgsFacts
    <2>2. Normal(args.inputs[1]) \in Layer
      BY <2>1 DEF Normal, Layer
    <2> QED BY <1>a, <1>b, <1>1, <2>2, PushLayer DEF Opened
  <1>3. /\ inputIds' \in Seq(Nat) /\ Len(inputIds') = 1 /\ inputIds'[1] = Len(layers) + 1
    <2>1. inputIds \in Seq(Nat) /\ Len(layers) + 1 \in Nat
      BY <1>2, <1>b DEF Types
    <2> QED BY <2>1, <1>a, <1>1, Pushed
  <1>4. Types' /\ Shaped' /\ Progress' /\ Registered'
    BY <1>a, <1>b, <1>1, <1>3
    DEF Types, Shaped, Progress, Registered, NInputs, NOutputs, NConfigs, NPlugins, Later
  <1>5. Opened' /\ Apart'
    BY <1>a, <1>1, <1>2, <1>3 DEF Opened, Apart
  <1>6. DOMAIN outputByName = {}
    <2>1. SUFFICES ASSUME NEW o \in DOMAIN outputByName PROVE FALSE OBVIOUS
    <2>2. o \in {args.outputs[i] : i \in 1 .. Len(outputIds)}
      BY <1>a, <1>b, <2>1 DEF Named
    <2> QED BY <2>2, <1>1
  <1>7. Named' /\ Configured'
    BY <1>a, <1>1, <1>6 DEF Named, Configured
  <1> QED BY <1>a, <1>4, <1>5, <1>7 DEF Inv, Loops, Later

\* A plugin: its layer is one of the readers', or new.
LEMMA PluginStep ==
  ASSUME Inv, AddPlugin
  PROVE  Inv'
  <1> DEFINE path == args.plugins[next]
             opened == path \in DOMAIN readers
             id == IF opened THEN readers[path] ELSE Len(layers) + 1
  <1>a. /\ pc = "plugins" /\ next <= NPlugins
        /\ UNCHANGED <<pc, args, parallel, inputIds, outputIds, outputByName>>
        /\ next' = next + 1
        /\ layers' = IF opened THEN layers ELSE Append(layers, Normal(path))
        /\ readers' = Put(readers, path, id)
        /\ pluginByName' = Put(pluginByName, path, id)
    BY DEF AddPlugin, InLoop
  <1>b. /\ Types /\ Shaped /\ Progress /\ Opened /\ Apart /\ Named /\ Registered
    BY <1>a DEF Inv, Intact, Loops
  <1>c. /\ next \in Nat \ {0} /\ layers \in Seq(Layer)
        /\ Len(inputIds) = NInputs /\ Len(outputIds) = IF parallel THEN NInputs ELSE 0
    BY <1>a, <1>b DEF Types, Opened, Progress
  <1>1. /\ next \in Nat \ {0} /\ next \in 1 .. NPlugins /\ path \in Paths
        /\ NInputs \in Nat /\ NOutputs \in Nat /\ NPlugins \in Nat
        /\ layers \in Seq(Layer) /\ Len(layers) \in Nat
        /\ Len(inputIds) = NInputs /\ Len(outputIds) = IF parallel THEN NInputs ELSE 0
    BY <1>a, <1>b, <1>c, ArgsFacts, LenProperties
  <1>2. /\ layers' \in Seq(Layer) /\ Holds(layers', id, Normal(path))
        /\ \A d, k : Holds(layers, d, k) => Holds(layers', d, k)
        /\ opened \/ \A d, k : Holds(layers, d, k) => id # d
    <2>1. CASE opened
      BY <2>1, <1>a, <1>b DEF Opened
    <2>2. CASE ~opened
      <3>1. Normal(path) \in Layer
        BY <1>1 DEF Normal, Layer
      <3>2. layers' = Append(layers, Normal(path)) /\ id = Len(layers) + 1
        BY <2>2, <1>a
      <3> HIDE DEF id, path
      <3>3. /\ layers' \in Seq(Layer) /\ Holds(layers', Len(layers) + 1, Normal(path))
            /\ \A d, k : Holds(layers, d, k) => Holds(layers', d, k) /\ d # Len(layers) + 1
        BY <3>1, <3>2, <1>1, PushLayer
      <3> QED BY <3>2, <3>3
    <2> QED BY <2>1, <2>2
  <1>3. /\ \A i \in 1 .. Len(inputIds) : Holds(layers, inputIds[i], Normal(args.inputs[i]))
        /\ \A i \in 1 .. Len(outputIds) : \E k : Holds(layers, outputIds[i], k)
    BY <1>b, <1>1 DEF Opened, InputId
  <1>4. /\ parallel => \A i \in 1 .. Len(outputIds) : id # outputIds[i]
        /\ ~parallel => id # inputIds[1]
    <2>1. CASE opened
      BY <2>1, <1>b DEF Apart
    <2>2. CASE ~opened
      <3>1. ~parallel => 1 \in 1 .. Len(inputIds)
        BY <1>1, <1>b DEF Shaped
      <3> HIDE DEF id, opened
      <3> QED BY <2>2, <3>1, <1>2, <1>3
    <2> QED BY <2>1, <2>2
  <1>5. /\ \A p \in DOMAIN readers' :
             \/ p = path /\ readers'[p] = id
             \/ p \in DOMAIN readers /\ readers'[p] = readers[p]
        /\ \A p \in DOMAIN pluginByName' :
             \/ p = path /\ pluginByName'[p] = id
             \/ p \in DOMAIN pluginByName /\ pluginByName'[p] = pluginByName[p]
        /\ DOMAIN pluginByName' = DOMAIN pluginByName \cup {path}
    <2>1. readers' = Put(readers, path, id) /\ pluginByName' = Put(pluginByName, path, id)
      BY <1>a
    <2> HIDE DEF path, id
    <2> QED BY <2>1 DEF Put
  <1>6. Registered'
    <2>1. DOMAIN pluginByName = {args.plugins[k] : k \in 1 .. next - 1}
      BY <1>a, <1>b DEF Registered
    <2>2. DOMAIN pluginByName' = {args.plugins[k] : k \in 1 .. next}
      BY <2>1, <1>5, <1>1
    <2> QED BY <2>2, <1>a, <1>1 DEF Registered
  <1>7. Types' /\ Shaped' /\ Progress'
    BY <1>a, <1>b, <1>1
    DEF Types, Shaped, Progress, NInputs, NOutputs, NConfigs, NPlugins, Later
  <1> HIDE DEF id, path, opened
  <1>8. Opened'
    BY <1>a, <1>b, <1>2, <1>5 DEF Opened, InputId
  <1>9. Apart'
    BY <1>a, <1>b, <1>4, <1>5 DEF Apart
  <1>10. Named' /\ Configured'
    BY <1>a, <1>b, <1>2 DEF Named, Configured
  <1> QED BY <1>a, <1>6, <1>7, <1>8, <1>9, <1>10 DEF Inv, Loops, Later

\* Two files with one NEW layer name the same output: the path of a layer tells.
LEMMA OneNamePerLayer ==
  ASSUME Types, Opened, Named, NInputs = 1, Len(inputIds) = 1, Len(outputIds) <= NOutputs
  PROVE  SharedByName
  <1>1. SUFFICES ASSUME ~parallel,
                        NEW i \in 1 .. Len(outputIds), NEW j \in 1 .. Len(outputIds),
                        args.outputs[i].new, outputIds[i] = outputIds[j]
                 PROVE  args.outputs[i] = args.outputs[j]
    BY DEF SharedByName
  <1>a. Len(outputIds) \in Nat /\ NOutputs \in Nat
    BY ArgsFacts, LenProperties DEF Types
  <1>2. i \in 1 .. NOutputs /\ j \in 1 .. NOutputs
    BY <1>a
  <1>3. args.outputs[i] \in Outputs /\ args.outputs[j] \in Outputs
    BY <1>2, ArgsFacts
  <1>4. /\ layers[outputIds[i]] = New(args.outputs[i].path, inputIds[1])
        /\ IF args.outputs[j].new
           THEN layers[outputIds[j]] = New(args.outputs[j].path, inputIds[1])
           ELSE outputIds[j] = inputIds[1]
        /\ layers[inputIds[1]] = Normal(args.inputs[1])
    BY <1>1 DEF Opened, Holds, InputId
  <1>5. args.outputs[j].new
    BY <1>1, <1>4 DEF Normal, New
  <1>6. New(args.outputs[i].path, inputIds[1]).path = New(args.outputs[j].path, inputIds[1]).path
    BY <1>1, <1>4, <1>5
  <1>7. args.outputs[i].path = args.outputs[j].path
    BY <1>6 DEF New
  <1> QED BY <1>1, <1>3, <1>5, <1>7 DEF Outputs

\* An output of a serial run: known by its name, a new layer, or the input.
LEMMA OutputStep ==
  ASSUME Inv, AddOutput
  PROVE  Inv'
  <1> DEFINE output == args.outputs[next]
             known == output \in DOMAIN outputByName
             fresh == ~known /\ output.new
             id == IF known THEN outputByName[output]
                   ELSE IF fresh THEN Len(layers) + 1 ELSE inputIds[1]
             new == New(output.path, inputIds[1])
  <1>a. /\ pc = "outputs" /\ next <= NOutputs
        /\ UNCHANGED <<pc, args, parallel, inputIds, readers, pluginByName>>
        /\ next' = next + 1
        /\ layers' = IF fresh THEN Append(layers, new) ELSE layers
        /\ outputIds' = Append(outputIds, id)
        /\ outputByName' = Put(outputByName, output, id)
    BY DEF AddOutput, InLoop
  <1>b. Types /\ Shaped /\ Progress /\ Opened /\ Apart /\ Named /\ Registered
    BY <1>a DEF Inv, Intact, Loops
  <1>c. /\ next \in Nat \ {0} /\ NInputs = 1 /\ NOutputs \in Nat
        /\ layers \in Seq(Layer) /\ inputIds \in Seq(Nat) /\ outputIds \in Seq(Nat)
        /\ ~parallel /\ Len(inputIds) = NInputs /\ Len(outputIds) = next - 1
    BY <1>a, <1>b, ArgsFacts DEF Types, Opened, Progress, Shaped
  <1>1. /\ next \in Nat \ {0} /\ next \in 1 .. NOutputs /\ output \in Outputs
        /\ output.path \in Paths /\ output.new \in BOOLEAN
        /\ NInputs = 1 /\ NOutputs \in Nat
        /\ layers \in Seq(Layer) /\ Len(layers) \in Nat
        /\ inputIds \in Seq(Nat) /\ outputIds \in Seq(Nat)
        /\ ~parallel /\ Len(inputIds) = 1 /\ Len(outputIds) = next - 1
    BY <1>a, <1>b, <1>c, ArgsFacts, LenProperties
  <1>2. Holds(layers, inputIds[1], Normal(args.inputs[1])) /\ inputIds[1] \in Nat
    BY <1>1, <1>b DEF Opened, Holds
  <1>3. /\ layers' \in Seq(Layer)
        /\ \A d, k : Holds(layers, d, k) => Holds(layers', d, k)
        /\ IF output.new THEN Holds(layers', id, new) ELSE id = inputIds[1]
        /\ id \in Nat
    <2>1. CASE known
      <3>1. IF output.new THEN Holds(layers, id, new) ELSE id = inputIds[1]
        BY <2>1, <1>1, <1>b DEF Named
      <3>2. layers' = layers
        BY <2>1, <1>a
      <3> QED BY <3>1, <3>2, <1>1, <1>2 DEF Holds
    <2>2. CASE ~known /\ ~output.new
      BY <2>2, <1>a, <1>1, <1>2
    <2>3. CASE fresh
      <3>1. new \in Layer
        BY <1>1, <1>2 DEF New, Layer
      <3>2. layers' = Append(layers, new) /\ id = Len(layers) + 1 /\ output.new
        BY <2>3, <1>a
      <3> HIDE DEF id, new, fresh
      <3>3. /\ layers' \in Seq(Layer) /\ Holds(layers', Len(layers) + 1, new)
            /\ \A d, k : Holds(layers, d, k) => Holds(layers', d, k)
        BY <3>1, <3>2, <1>1, PushLayer
      <3> QED BY <3>2, <3>3, <1>1
    <2> QED BY <2>1, <2>2, <2>3
  <1>k. known => id = outputByName[output]
    OBVIOUS
  <1> HIDE DEF id, known, fresh, new
  <1>4. /\ outputIds' \in Seq(Nat) /\ Len(outputIds') = next
        /\ outputIds'[next] = id /\ \A i \in 1 .. next - 1 : outputIds'[i] = outputIds[i]
    BY <1>a, <1>1, <1>3, Pushed
  <1>5. /\ DOMAIN outputByName' = DOMAIN outputByName \cup {output}
        /\ \A o \in DOMAIN outputByName' :
             outputByName'[o] = IF o = output THEN id ELSE outputByName[o]
    <2>1. outputByName' = Put(outputByName, output, id)
      BY <1>a
    <2> HIDE DEF output
    <2> QED BY <2>1 DEF Put
  <1>6. Types' /\ Shaped' /\ Progress' /\ Registered'
    BY <1>a, <1>b, <1>1, <1>4
    DEF Types, Shaped, Progress, Registered, NInputs, NOutputs, NConfigs, NPlugins, Later
  <1>7. Named'
    <2>1. /\ \A i \in 1 .. next - 1 : /\ args.outputs[i] \in DOMAIN outputByName
                                      /\ outputIds[i] = outputByName[args.outputs[i]]
          /\ \A o \in DOMAIN outputByName :
               /\ o \in {args.outputs[i] : i \in 1 .. next - 1}
               /\ IF o.new THEN Holds(layers, outputByName[o], New(o.path, inputIds[1]))
                           ELSE outputByName[o] = inputIds[1]
      BY <1>1, <1>b DEF Named
    <2>2. ASSUME NEW i \in 1 .. next
          PROVE  /\ args.outputs[i] \in DOMAIN outputByName'
                 /\ outputIds'[i] = outputByName'[args.outputs[i]]
      <3>1. CASE i = next
        BY <3>1, <1>4, <1>5
      <3>2. CASE i # next
        <4>1. i \in 1 .. next - 1 /\ outputIds'[i] = outputIds[i]
          BY <3>2, <1>1, <1>4
        <4> QED BY <4>1, <2>1, <1>5, <1>k DEF known
      <3> QED BY <3>1, <3>2
    <2>3. ASSUME NEW o \in DOMAIN outputByName'
          PROVE  /\ o \in {args.outputs[i] : i \in 1 .. next}
                 /\ IF o.new THEN Holds(layers', outputByName'[o], New(o.path, inputIds[1]))
                             ELSE outputByName'[o] = inputIds[1]
      <3>1. CASE o = output
        BY <3>1, <1>1, <1>3, <1>5 DEF new
      <3>2. CASE o # output
        <4>1. o \in DOMAIN outputByName /\ outputByName'[o] = outputByName[o]
          BY <3>2, <1>5
        <4>2. PICK i \in 1 .. next - 1 : o = args.outputs[i]
          BY <4>1, <2>1
        <4>3. i \in 1 .. next
          BY <1>1
        <4> QED BY <4>1, <4>2, <4>3, <2>1, <1>3
      <3> QED BY <3>1, <3>2
    <2>4. /\ args' = args /\ inputIds' = inputIds /\ Len(outputIds') = next
      BY <1>a, <1>4
    <2> QED BY <2>2, <2>3, <2>4 DEF Named
  <1>8. Opened'
    <2>1. \A i \in 1 .. Len(outputIds') :
            IF args.outputs[i].new
            THEN Holds(layers', outputIds'[i], New(args.outputs[i].path, inputIds[1]))
            ELSE outputIds'[i] = inputIds[1]
      BY <1>7, <1>a, <1>1 DEF Named
    <2> QED BY <2>1, <1>a, <1>b, <1>1, <1>3 DEF Opened, InputId
  <1>9. Apart' /\ Configured'
    BY <1>a, <1>b, <1>1 DEF Apart, Configured
  <1> QED BY <1>6, <1>7, <1>8, <1>9, <1>a DEF Inv, Loops, Later

-----------------------------------------------------------------------------
\* The end of a loop; only ShareInput changes a layer, and then Erased holds.
LEMMA EndStep ==
  ASSUME Inv, EndLoop
  PROVE  Inv'
  <1>a. /\ next' = 1
        /\ UNCHANGED <<args, parallel, inputIds, outputIds, readers, outputByName>>
        /\ pc \in Loops
    BY DEF EndLoop, Loops
  <1>b. /\ Types /\ Shaped /\ Progress /\ Opened /\ Apart /\ Named /\ Registered
        /\ next \in Nat \ {0} /\ NInputs \in Nat /\ NOutputs \in Nat /\ NPlugins \in Nat
    BY <1>a, ArgsFacts DEF Inv, Intact, Types
  <1>1. CASE pc = "inputs"
    <2>1. /\ next > NInputs /\ pc' = "plugins" /\ UNCHANGED <<layers, pluginByName>>
      BY <1>1 DEF EndLoop
    <2>2. next - 1 = NInputs
      BY <2>1, <1>1, <1>b DEF Progress
    <2>3. Types' /\ Shaped' /\ Progress'
      BY <2>1, <2>2, <1>1, <1>a, <1>b
      DEF Types, Shaped, Progress, NInputs, NOutputs, NConfigs, NPlugins, Loops, Later
    <2>4. Registered'
      BY <2>1, <1>1, <1>a, <1>b DEF Registered
    <2>5. Opened' /\ Apart' /\ Named'
      BY <2>1, <1>a, <1>b DEF Opened, Apart, Named, InputId
    <2> QED BY <2>1, <2>3, <2>4, <2>5 DEF Inv, Configured, Loops, Later
  <1>2. CASE pc = "plugins"
    <2>1. /\ next > NPlugins /\ pc' = (IF parallel THEN "config" ELSE "outputs")
          /\ UNCHANGED <<layers, pluginByName>>
      BY <1>2 DEF EndLoop
    <2>2. next - 1 = NPlugins
      BY <2>1, <1>2, <1>b DEF Progress
    <2>3. Types' /\ Shaped' /\ Progress'
      BY <2>1, <2>2, <1>2, <1>a, <1>b
      DEF Types, Shaped, Progress, NInputs, NOutputs, NConfigs, NPlugins, Loops, Later
    <2>4. Registered'
      BY <2>1, <2>2, <1>2, <1>a, <1>b DEF Registered, NPlugins
    <2>5. Opened' /\ Apart' /\ Named'
      BY <2>1, <1>a, <1>b DEF Opened, Apart, Named, InputId
    <2>6. pc' \in Later => SharedByName'
      BY <2>1, <1>a DEF SharedByName, Later
    <2> QED BY <2>1, <2>3, <2>4, <2>5, <2>6 DEF Inv, Configured, Loops, Later
  <1>3. CASE pc = "outputs"
    <2>1. next > NOutputs /\ pc' = "config" /\ ShareInput
      BY <1>3 DEF EndLoop
    <2>2. /\ next - 1 = NOutputs /\ ~parallel /\ NInputs = 1
          /\ Len(inputIds) = NInputs /\ Len(outputIds) = NOutputs
      BY <2>1, <1>3, <1>b DEF Progress, Shaped
    <2>3. Types' /\ Shaped' /\ Progress'
      BY <2>1, <2>2, <1>3, <1>a, <1>b
      DEF Types, Shaped, Progress, NInputs, NOutputs, NConfigs, NPlugins, Loops, Later
    <2>4. SharedByName'
      <3>1. SharedByName
        BY <2>2, <1>b, OneNamePerLayer
      <3> QED BY <3>1, <1>a DEF SharedByName
    <2>5. Intact' => UNCHANGED <<layers, pluginByName>>
      <3>1. SUFFICES ASSUME \A o \in DOMAIN outputByName : o.new,
                            args.inputs[1] \in DOMAIN pluginByName
                     PROVE  Erased
        BY <2>1, <1>a DEF ShareInput, Intact, Erased, Loops, NOutputs, NPlugins
      <3>2. \A i \in 1 .. NOutputs : args.outputs[i].new
        BY <3>1, <2>2, <1>b DEF Named
      <3>3. \E i \in 1 .. NPlugins : args.plugins[i] = args.inputs[1]
        BY <3>1, <1>3, <1>b DEF Registered
      <3> QED BY <3>2, <3>3, <2>2 DEF Erased
    <2>6. ASSUME UNCHANGED <<layers, pluginByName>>
          PROVE  Opened' /\ Apart' /\ Named' /\ Registered'
      <3>1. Registered'
        BY <2>1, <2>6, <1>3, <1>a, <1>b DEF Registered, NPlugins
      <3>2. Opened' /\ Apart' /\ Named'
        BY <2>6, <1>a, <1>b DEF Opened, Apart, Named, InputId
      <3> QED BY <3>1, <3>2
    <2> QED BY <2>1, <2>3, <2>4, <2>5, <2>6 DEF Inv, Configured, Later
  <1> QED BY <1>1, <1>2, <1>3, <1>a DEF Loops

\* initConfigGroup leaves the layers alone.
LEMMA ConfigStep ==
  ASSUME Inv, InitConfigGroup
  PROVE  Inv'
  <1>1. /\ pc = "config" /\ UNCHANGED <<args, parallel, next, layers, ids>>
        /\ savePoint' = [i \in 1 .. NConfigs |->
                           IF parallel THEN 0 ELSE LastOf(args.outputs, i)]
    BY DEF InitConfigGroup
  <1>2. /\ pc' \in {"fault", "rejected", "ready"}
        /\ pc' = "ready" => ~(parallel /\ NConfigs > NInputs)
    BY DEF InitConfigGroup
  <1>3. Types /\ Shaped /\ Progress /\ SharedByName
        /\ NConfigs \in Nat /\ NInputs \in Nat
    BY <1>1, ArgsFacts DEF Inv, Later
  <1>4. Types' /\ Shaped' /\ SharedByName' /\ (pc' \in Later => Progress')
    BY <1>1, <1>2, <1>3
    DEF Types, Shaped, Progress, SharedByName, NInputs, NOutputs, NConfigs, NPlugins, Loops,
        Later, ids
  <1>5. Intact' => Opened' /\ Apart' /\ Named' /\ Registered'
    <2>1. SUFFICES ASSUME Intact' PROVE Opened' /\ Apart' /\ Named' /\ Registered'
      OBVIOUS
    <2>2. Intact
      BY <2>1, <1>1, <1>2 DEF Intact, Erased, Later, Loops, NOutputs, NPlugins, ids
    <2>3. Opened /\ Apart /\ Named /\ Registered
      BY <2>2 DEF Inv
    <2>4. Registered'
      BY <2>3, <1>1, <1>2 DEF Registered, NPlugins, ids
    <2>5. Opened' /\ Apart' /\ Named'
      BY <2>3, <1>1 DEF Opened, Apart, Named, InputId, ids
    <2> QED BY <2>4, <2>5
  <1>6. Configured'
    BY <1>1, <1>2, <1>3 DEF Configured, NConfigs, NInputs
  <1> QED BY <1>2, <1>4, <1>5, <1>6 DEF Inv, Loops, Later

\* The invariant reads nothing but the variables.
LEMMA StutterStep ==
  ASSUME Inv, UNCHANGED vars
  PROVE  Inv'
  BY DEF Inv, vars, ids, Types, Empty, Shaped, Progress, SharedByName, Intact, Erased, Opened,
         Apart, Named, Registered, Configured, InputId, NInputs, NPlugins, NOutputs, NConfigs

-----------------------------------------------------------------------------
\* The inductive invariant holds for every command line.
THEOREM ModelInvariance == Spec => []Inv
  <1>1. Inv /\ [Next]_vars => Inv'
    BY ShapeStep, PairStep, InputStep, PluginStep, OutputStep, EndStep, ConfigStep, StutterStep
    DEF Next, InitRunningModel, Running
  <1> QED BY <1>1, InitInv, PTL DEF Spec

\* How many arguments a job may ask for once the model is ready.
LEMMA Ready ==
  ASSUME Inv, pc = "ready"
  PROVE  /\ NConfigs \in Nat /\ NConfigs <= Len(outputIds) /\ NConfigs <= NOutputs
         /\ parallel => NConfigs <= NInputs
         /\ Len(inputIds) = NInputs /\ NInputs \in Nat /\ Len(outputIds) \in Nat
         /\ Len(outputIds) = IF parallel THEN NInputs ELSE NOutputs
         /\ NConfigs > 0 => NInputs > 0
  <1>1. Types /\ Shaped /\ Progress /\ Configured
    BY DEF Inv, Later
  <1>2. NConfigs \in Nat /\ NInputs \in Nat /\ NOutputs \in Nat
    BY <1>1, ArgsFacts
  <1> QED BY <1>1, <1>2 DEF Shaped, Progress, Configured, Later

\* initRunningModel fills idMapping_ and the maps by name so that whatever a
\* job or a group looks up is the layer its argument names.
THEOREM LookupsFindArguments == Spec => []LookupsMatchArguments
  <1>1. Inv => LookupsMatchArguments
    <2>1. SUFFICES ASSUME Inv, pc = "ready", ~Erased PROVE Lookups
      BY DEF LookupsMatchArguments
    <2>2. Opened /\ Registered
      BY <2>1 DEF Inv, Intact, Later
    <2>3. ASSUME NEW i \in 1 .. NConfigs PROVE ReadsOwnInput(i) /\ WritesOwnOutput(i)
      <3>1. i \in 1 .. Len(outputIds) /\ (IF parallel THEN i ELSE 1) \in 1 .. Len(inputIds)
        BY <2>1, <2>3, Ready
      <3> QED BY <3>1, <2>2 DEF ReadsOwnInput, WritesOwnOutput, OutputId, InputId, Opened, Holds
    <2>4. ASSUME NEW i \in 1 .. NPlugins PROVE FindsPlugin(args.plugins[i])
      BY <2>1, <2>2, <2>4 DEF FindsPlugin, Registered, Opened, Holds
    <2> QED BY <2>3, <2>4 DEF Lookups
  <1> QED BY <1>1, ModelInvariance, PTL

\* Sharing layers to save memory never gives a writer's layer to a plugin or
\* to another file.
THEOREM WritersAreAlone == Spec => []WritersKeepToThemselves
  <1>1. Inv => WritersKeepToThemselves
    <2>1. SUFFICES ASSUME Inv, pc = "ready", ~Erased, NEW i \in 1 .. NConfigs
                   PROVE  /\ \A p \in DOMAIN pluginByName : pluginByName[p] # OutputId(i)
                          /\ \A j \in 1 .. NConfigs :
                               parallel /\ j # i => OutputId(i) \notin {InputId(j), OutputId(j)}
      BY DEF WritersKeepToThemselves
    <2>2. Opened /\ Apart
      BY <2>1 DEF Inv, Intact, Later
    <2>3. \A j \in 1 .. NConfigs : j \in 1 .. Len(outputIds)
      BY <2>1, Ready
    <2>4. CASE parallel
      BY <2>2, <2>3, <2>4 DEF Apart, OutputId, InputId
    <2>5. CASE ~parallel
      <3>1. \A p \in DOMAIN pluginByName :
              pluginByName[p] # inputIds[1] /\ layers[pluginByName[p]] = Normal(p)
        BY <2>2, <2>5 DEF Apart, Opened, Holds
      <3>2. \/ outputIds[i] = inputIds[1]
            \/ layers[outputIds[i]] = New(args.outputs[i].path, inputIds[1])
        BY <2>2, <2>3, <2>5 DEF Opened, Holds, InputId
      <3>3. \A p : Normal(p) # New(args.outputs[i].path, inputIds[1])
        BY DEF Normal, New
      <3> QED BY <3>1, <3>2, <3>3, <2>5 DEF OutputId
    <2> QED BY <2>4, <2>5
  <1> QED BY <1>1, ModelInvariance, PTL

\* The save points of initConfigGroup: a NEW layer is saved by the last file
\* that adds to it, and all files of the layer agree which that is.
THEOREM SavedByTheLast == Spec => []SavedWhenComplete
  <1>1. Inv => SavedWhenComplete
    <2>1. SUFFICES ASSUME Inv, pc = "ready", ~parallel,
                          NEW i \in 1 .. NConfigs, NEW j \in 1 .. NConfigs,
                          args.outputs[i].new, OutputId(i) = OutputId(j)
                   PROVE  savePoint[i] >= j /\ savePoint[i] = savePoint[j]
      BY DEF SavedWhenComplete
    <2>2. /\ i \in 1 .. Len(outputIds) /\ j \in 1 .. Len(outputIds)
          /\ Len(outputIds) = NOutputs /\ NOutputs \in Nat
      BY <2>1, Ready
    <2>3. args.outputs[i] = args.outputs[j]
      BY <2>1, <2>2 DEF Inv, Later, SharedByName, OutputId
    <2>4. savePoint[i] = LastOf(args.outputs, i) /\ savePoint[j] = LastOf(args.outputs, j)
      BY <2>1 DEF Inv, Configured
    <2> DEFINE s == args.outputs
               a == LastOf(s, i)
               b == LastOf(s, j)
    <2>5. /\ a \in 1 .. NOutputs /\ s[a] = s[i] /\ \A k \in a + 1 .. NOutputs : s[k] # s[i]
          /\ b \in 1 .. NOutputs /\ s[b] = s[j] /\ \A k \in b + 1 .. NOutputs : s[k] # s[j]
      <3>1. s \in Seq(Outputs)
        BY <2>1 DEF Inv, Types
      <3> QED BY <3>1, <2>2, LastOfFacts DEF NOutputs
    <2> HIDE DEF a, b, s
    <2>6. s[i] = s[j]
      BY <2>3 DEF s
    <2>7. a = b /\ a >= j
      BY <2>2, <2>5, <2>6
    <2> QED BY <2>4, <2>7 DEF a, b, s
  <1> QED BY <1>1, ModelInvariance, PTL
===============================================================================
