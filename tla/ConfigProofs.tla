---------------------------- MODULE ConfigProofs ----------------------------
(***************************************************************************)
(* Theorems about ConfigEngine, for every value of its constants.          *)
(***************************************************************************)
EXTENDS ConfigEngine, TLAPS

-----------------------------------------------------------------------------
\* The pipeline.

LEMMA MergeType ==
  ASSUME NEW cfg \in [Settings -> Values], NEW layer
  PROVE  Merge(cfg, layer) \in [Settings -> Values]
  BY DEF Merge

\* What the pipeline returns is Failed or a configuration.
LEMMA ResolveType ==
  ASSUME NEW f, Resolve(f) # Failed
  PROVE  Resolve(f) \in [Settings -> Values]
<1>1. Defaults \in [Settings -> Values]
  BY ConfigAssumption
<1>2. Merge(Defaults, FileLayer(f)) \in [Settings -> Values]
  BY <1>1, MergeType
<1>3. Merge(Merge(Defaults, FileLayer(f)), EnvironmentLayer) \in [Settings -> Values]
  BY <1>2, MergeType
<1>4. Merge(Merge(Merge(Defaults, FileLayer(f)), EnvironmentLayer), inputs.cli)
        \in [Settings -> Values]
  BY <1>3, MergeType
<1>5. Merge(Merge(Merge(Merge(Defaults, FileLayer(f)), EnvironmentLayer), inputs.cli),
            Overrides) \in [Settings -> Values]
  BY <1>4, MergeType
<1> QED BY <1>5 DEF Resolve

\* A layer overrides what is below it exactly where it has a value.
LEMMA MergeValue ==
  ASSUME NEW cfg, NEW layer, NEW s \in Settings
  PROVE  Merge(cfg, layer)[s] = IF layer[s] \in Values THEN layer[s] ELSE cfg[s]
  BY DEF Merge

LEMMA MaxOf ==
  ASSUME NEW S, NEW x \in S, S \subseteq Nat, \A y \in S : x >= y
  PROVE  Max(S) = x
<1>1. \A z \in S : (\A y \in S : z >= y) => z = x
  OBVIOUS
<1> QED BY <1>1 DEF Max

\* Precedence holds for every environment, every file and all arguments, whatever their
\* types: it is a property of the pipeline alone.
LEMMA PipelinePrecedence == Precedence
<1> SUFFICES ASSUME NEW f \in FirstFiles \cup Savable, Resolve(f) # Failed,
                    NEW s \in Settings
             PROVE  LET layers == <<Defaults, FileLayer(f), EnvironmentLayer, inputs.cli, Overrides>>
                        given == {i \in 1 .. 5 : layers[i][s] \in Values}
                    IN Resolve(f)[s] = layers[Max(given)][s]
  BY DEF Precedence
<1> DEFINE l2 == FileLayer(f)
           l3 == EnvironmentLayer
           l4 == inputs.cli
           layers == <<Defaults, l2, l3, l4, Overrides>>
           given == {i \in 1 .. 5 : layers[i][s] \in Values}
<1>1. Resolve(f)[s] =
        IF Overrides[s] \in Values THEN Overrides[s]
        ELSE IF l4[s] \in Values THEN l4[s]
        ELSE IF l3[s] \in Values THEN l3[s]
        ELSE IF l2[s] \in Values THEN l2[s] ELSE Defaults[s]
  <2>1. Resolve(f) = Merge(Merge(Merge(Merge(Defaults, l2), l3), l4), Overrides)
    BY DEF Resolve
  <2> HIDE DEF l2, l3, l4
  <2> QED BY <2>1, MergeValue
<1>2. Defaults[s] \in Values
  BY ConfigAssumption
<1> HIDE DEF l2, l3, l4
<1>3. given \subseteq Nat /\ given \subseteq 1 .. 5
  OBVIOUS
<1>4. /\ layers[1] = Defaults /\ layers[2] = l2 /\ layers[3] = l3 /\ layers[4] = l4
      /\ layers[5] = Overrides
  OBVIOUS
<1>5. /\ 1 \in given
      /\ (2 \in given <=> l2[s] \in Values)
      /\ (3 \in given <=> l3[s] \in Values)
      /\ (4 \in given <=> l4[s] \in Values)
      /\ (5 \in given <=> Overrides[s] \in Values)
  BY <1>2, <1>4
<1> HIDE DEF layers, given
<1>6. CASE 5 \in given
  <2>1. 5 \in given /\ \A y \in given : 5 >= y
    BY <1>3, <1>5, <1>6
  <2>2. Max(given) = 5
    BY <1>3, <2>1, MaxOf
  <2> QED BY <2>2, <1>1, <1>4, <1>5, <1>6 DEF layers, given, l2, l3, l4
<1>7. CASE 5 \notin given /\ 4 \in given
  <2>1. 4 \in given /\ \A y \in given : 4 >= y
    BY <1>3, <1>5, <1>7
  <2>2. Max(given) = 4
    BY <1>3, <2>1, MaxOf
  <2> QED BY <2>2, <1>1, <1>4, <1>5, <1>7 DEF layers, given, l2, l3, l4
<1>8. CASE 5 \notin given /\ 4 \notin given /\ 3 \in given
  <2>1. 3 \in given /\ \A y \in given : 3 >= y
    BY <1>3, <1>5, <1>8
  <2>2. Max(given) = 3
    BY <1>3, <2>1, MaxOf
  <2> QED BY <2>2, <1>1, <1>4, <1>5, <1>8 DEF layers, given, l2, l3, l4
<1>9. CASE 5 \notin given /\ 4 \notin given /\ 3 \notin given /\ 2 \in given
  <2>1. 2 \in given /\ \A y \in given : 2 >= y
    BY <1>3, <1>5, <1>9
  <2>2. Max(given) = 2
    BY <1>3, <2>1, MaxOf
  <2> QED BY <2>2, <1>1, <1>4, <1>5, <1>9 DEF layers, given, l2, l3, l4
<1>10. CASE 5 \notin given /\ 4 \notin given /\ 3 \notin given /\ 2 \notin given
  <2>1. 1 \in given /\ \A y \in given : 1 >= y
    BY <1>3, <1>5, <1>10
  <2>2. Max(given) = 1
    BY <1>3, <2>1, MaxOf
  <2> QED BY <2>2, <1>1, <1>4, <1>5, <1>10 DEF layers, given, l2, l3, l4
<1> QED BY <1>6, <1>7, <1>8, <1>9, <1>10

\* A setting always has the value of the highest layer that gives it one: defaults, file,
\* environment, arguments, overrides (PipelineEngine.Resolve).
THEOREM LayersInOrder == Spec => []Precedence
<1>1. Precedence
  BY PipelinePrecedence
<1> QED BY <1>1, PTL

-----------------------------------------------------------------------------
\* What the file and the published configuration are.

\* A temporary file is renamed only after it was synced.
IInv ==
  /\ TypeOK
  /\ FileWhole
  /\ \A w \in Workers : SaveAt(w, "rename") => workers[w].synced

Saves == [op : {"save"}, at : {"write", "sync", "rename"}, cfg : Savable, synced : BOOLEAN]

LEMMA SavableAreFiles == Savable \subseteq Layers
  BY ConfigAssumption DEF Layers

\* A call in the middle of Save is one, and stays one at the next place.
LEMMA SaveType ==
  ASSUME NEW call \in Calls, call.op = "save"
  PROVE  /\ call \in Saves
         /\ [call EXCEPT !.at = "sync"] \in Saves
         /\ [call EXCEPT !.at = "rename", !.synced = TRUE] \in Saves
         /\ [call EXCEPT !.at = "sync"].at = "sync"
         /\ [call EXCEPT !.at = "rename", !.synced = TRUE].synced
<1>1. call \in Saves
  BY DEF Calls, Idle, Saves
<1> QED BY <1>1 DEF Saves

\* A new call of one worker.
LEMMA CallKept ==
  ASSUME IInv, NEW w \in Workers, NEW call \in Calls, Goes(w, call),
         call.op = "save" /\ call.at = "rename" => call.synced
  PROVE  /\ workers' \in [Workers -> Calls]
         /\ \A v \in Workers : SaveAt(v, "rename")' => workers'[v].synced
  BY DEF IInv, TypeOK, Goes, SaveAt, Doing

LEMMA IdleIsCall == Idle \in Calls /\ Idle.op # "save"
  BY DEF Calls, Idle

LEMMA InitIInv == Init => IInv
<1> SUFFICES ASSUME Init PROVE IInv
  OBVIOUS
<1>1. file \in FirstFiles /\ durable = {file} /\ current = None
  BY DEF Init
<1>2. workers = [w \in Workers |-> Idle]
  BY DEF Init
<1>3. TypeOK
  BY <1>1, <1>2, ConfigAssumption, IdleIsCall DEF TypeOK, Init
<1> QED BY <1>1, <1>2, <1>3, IdleIsCall DEF IInv, FileWhole, SaveAt, Doing

\* A step that leaves the files alone, publishes nothing unsound and moves one call.
LEMMA CallStep ==
  ASSUME IInv, NEW w \in Workers, NEW call \in Calls, Goes(w, call),
         call.op = "save" /\ call.at = "rename" => call.synced,
         UNCHANGED <<file, durable, inputs>>,
         current' # None => current' \in [Settings -> Values] /\ Valid(current')
  PROVE  IInv'
<1>1. TypeOK'
  BY CallKept DEF IInv, TypeOK, Valid
<1>2. FileWhole'
  BY DEF IInv, FileWhole
<1> QED BY <1>1, <1>2, CallKept DEF IInv

LEMMA ReadFileKeeps ==
  ASSUME IInv, NEW w \in Workers, ReadFile(w) PROVE IInv'
<1> DEFINE call == [op |-> "load", read |-> file]
<1>1. call \in Calls /\ call.op # "save"
  BY DEF IInv, TypeOK, Calls
<1>2. Goes(w, call) /\ UNCHANGED <<file, durable, inputs, current>>
  BY DEF ReadFile
<1>3. current' # None => current' \in [Settings -> Values] /\ Valid(current')
  BY <1>2 DEF IInv, TypeOK
<1> HIDE DEF call
<1> QED BY <1>1, <1>2, <1>3, CallStep

LEMMA LoadKeeps ==
  ASSUME IInv, NEW w \in Workers, Load(w) PROVE IInv'
<1> DEFINE cfg == Resolve(workers[w].read)
<1>1. cfg # Failed => cfg \in [Settings -> Values]
  BY ResolveType
<1>2. /\ Goes(w, Idle) /\ UNCHANGED <<file, durable, inputs>>
      /\ current' = IF cfg # Failed /\ Valid(cfg) THEN cfg ELSE current
  BY DEF Load
<1> HIDE DEF cfg
<1>3. current' # None => current' \in [Settings -> Values] /\ Valid(current')
  BY <1>1, <1>2 DEF IInv, TypeOK
<1> QED BY <1>2, <1>3, IdleIsCall, CallStep

LEMMA CreateTempKeeps ==
  ASSUME IInv, NEW w \in Workers, NEW cfg \in Savable, CreateTemp(w, cfg) PROVE IInv'
<1> DEFINE call == [op |-> "save", at |-> "write", cfg |-> cfg, synced |-> FALSE]
<1>1. call \in Calls /\ call.at # "rename"
  BY DEF Calls
<1>2. Goes(w, call) /\ UNCHANGED <<file, durable, inputs, current>>
  BY DEF CreateTemp
<1>3. current' # None => current' \in [Settings -> Values] /\ Valid(current')
  BY <1>2 DEF IInv, TypeOK
<1> HIDE DEF call
<1> QED BY <1>1, <1>2, <1>3, CallStep

LEMMA TempKeeps ==
  ASSUME IInv, NEW w \in Workers, WriteTemp(w) \/ SyncTemp(w) \/ FailSave(w) PROVE IInv'
<1>1. workers[w] \in Calls /\ workers[w].op = "save"
  BY DEF IInv, TypeOK, WriteTemp, SyncTemp, FailSave, SaveAt, Doing
<1>2. Saves \subseteq Calls
  BY DEF Saves, Calls
<1>3. UNCHANGED <<file, durable, inputs, current>>
  BY DEF WriteTemp, SyncTemp, FailSave
<1>4. current' # None => current' \in [Settings -> Values] /\ Valid(current')
  BY <1>3 DEF IInv, TypeOK
<1>5. CASE WriteTemp(w)
  BY <1>1, <1>2, <1>3, <1>4, <1>5, SaveType, CallStep DEF WriteTemp
<1>6. CASE SyncTemp(w)
  BY <1>1, <1>2, <1>3, <1>4, <1>6, SaveType, CallStep DEF SyncTemp
<1>7. CASE FailSave(w)
  BY <1>3, <1>4, <1>7, IdleIsCall, CallStep DEF FailSave
<1> QED BY <1>5, <1>6, <1>7

LEMMA RenameKeeps ==
  ASSUME IInv, NEW w \in Workers, Rename(w) PROVE IInv'
<1>1. workers[w] \in Saves /\ workers[w].synced
  BY SaveType DEF IInv, TypeOK, Rename, SaveAt, Doing
<1>2. file' \in Savable /\ durable' = durable \cup {file'}
  BY <1>1 DEF Rename, Saves
<1>3. Goes(w, Idle) /\ UNCHANGED <<inputs, current>>
  BY DEF Rename
<1>4. TypeOK'
  BY <1>2, <1>3, IdleIsCall, CallKept, SavableAreFiles DEF IInv, TypeOK, Valid
<1>5. FileWhole'
  BY <1>2 DEF IInv, FileWhole
<1> QED BY <1>3, <1>4, <1>5, IdleIsCall, CallKept DEF IInv

\* The process or the machine goes down: one of the durable files is left.
LEMMA RestartKeeps ==
  ASSUME IInv, Flush \/ Crash \/ PowerLoss PROVE IInv'
<1>1. file' \in durable /\ file' \in durable' /\ durable' \subseteq durable
  BY DEF IInv, TypeOK, Flush, Crash, PowerLoss
<1>2. /\ UNCHANGED inputs /\ current' \in {current, None}
      /\ workers' = workers \/ workers' = [w \in Workers |-> Idle]
  BY DEF Flush, Crash, PowerLoss, Reset
<1>3. TypeOK'
  BY <1>1, <1>2, IdleIsCall DEF IInv, TypeOK, Valid
<1>4. FileWhole'
  BY <1>1 DEF IInv, FileWhole
<1>5. \A w \in Workers : SaveAt(w, "rename")' => workers'[w].synced
  BY <1>2, IdleIsCall DEF IInv, SaveAt, Doing
<1> QED BY <1>3, <1>4, <1>5 DEF IInv

LEMMA StepIInv == IInv /\ [Next]_vars => IInv'
<1> SUFFICES ASSUME IInv, [Next]_vars PROVE IInv'
  OBVIOUS
<1>1. CASE \E w \in Workers :
             \/ ReadFile(w) \/ Load(w) \/ \E cfg \in Savable : CreateTemp(w, cfg)
             \/ WriteTemp(w) \/ SyncTemp(w) \/ Rename(w) \/ FailSave(w)
  BY <1>1, ReadFileKeeps, LoadKeeps, CreateTempKeeps, TempKeeps, RenameKeeps
<1>2. CASE Flush \/ Crash \/ PowerLoss
  BY <1>2, RestartKeeps
<1>3. CASE UNCHANGED vars
  BY <1>3 DEF IInv, TypeOK, FileWhole, SaveAt, Doing, vars, Valid
<1> QED BY <1>1, <1>2, <1>3 DEF Next

\* Whatever Load and Reload read, the published configuration passed every validation rule.
THEOREM PublishedIsValid == Spec => []TypeOK
<1>1. IInv => TypeOK
  BY DEF IInv
<1> QED BY <1>1, InitIInv, StepIInv, PTL DEF Spec

\* Save never leaves a part of a file behind, whatever fails or goes down in between.
THEOREM FileStaysWhole == Spec => []FileWhole
<1>1. IInv => FileWhole
  BY DEF IInv
<1> QED BY <1>1, InitIInv, StepIInv, PTL DEF Spec
=============================================================================
