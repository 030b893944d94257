---------------------------- MODULE ConfigEngine ---------------------------
(***************************************************************************)
(* The configuration engine of internal/platform/config: the pipeline      *)
(* Defaults < File < Environment < CLI < Overrides, the validation, the    *)
(* reload of the current configuration, and the save of the file by way of *)
(* a temporary one, with crashes and power losses in between.  The         *)
(* environment and the arguments do not change while the program runs.     *)
(*                                                                         *)
(* A setting has a number for a value, 0 for the empty string, and one of  *)
(* four kinds: "text"; "lenient", durations and sizes, ignored when        *)
(* malformed; "strict", integers and booleans, whose flags must parse;     *)
(* "secret", which the environment may give as the path of a file.         *)
(***************************************************************************)
EXTENDS Naturals, FiniteSets, FiniteSetsExt

CONSTANTS
  Settings, KindOf, Values, Defaults,
  Sound,        \* acceptable values of each setting
  Below,        \* pairs of settings of which the first must be smaller
  Unset, Malformed, Failed, None,
  Absent, Blank, Torn,   \* no file, an empty one, part of one
  FirstFiles, Environments, Arguments, SecretFiles, Overrides, Savable,
  Workers

Layers == [Settings -> Values \cup {Unset, Malformed}]

ASSUME ConfigAssumption ==
  /\ Values \subseteq Nat /\ 0 \in Values
  /\ Savable \subseteq [Settings -> Values] /\ Defaults \in [Settings -> Values]
  /\ Environments \cup Arguments \cup SecretFiles \subseteq Layers
  /\ Overrides \in Layers
  /\ FirstFiles \subseteq Layers \cup {Absent, Blank}

VARIABLES
  file,     \* what the path of the file shows
  durable,  \* what it may show after a power loss
  inputs,   \* environment, files of secrets and arguments of the process
  current,  \* Engine.current, None before the first load
  workers   \* calls of Load and Save in flight

vars == <<file, durable, inputs, current, workers>>

Idle == [op |-> "idle"]

-----------------------------------------------------------------------------
\* The pipeline.

Merge(cfg, layer) == [s \in Settings |-> IF layer[s] \in Values THEN layer[s] ELSE cfg[s]]

NoSettings == [s \in Settings |-> Unset]

\* json.Unmarshal refuses a value that does not parse.
FileFails(f) == f = Torn \/ (f \in Layers /\ \E s \in Settings : f[s] = Malformed)
FileLayer(f) == IF f \in {Absent, Blank} THEN NoSettings ELSE f

\* lookupSecret: the value, the content of the file, or the empty value.
EnvironmentLayer ==
  [s \in Settings |->
     IF KindOf[s] = "secret" /\ inputs.env[s] \in {Unset, 0} /\ inputs.files[s] # Unset
     THEN inputs.files[s] ELSE inputs.env[s]]

\* Flags of integers and booleans are parsed by the flag package, the others later.
ArgumentsFail == \E s \in Settings : KindOf[s] = "strict" /\ inputs.cli[s] = Malformed

\* Applies the environment last.
ResolveBug(f) ==
  IF FileFails(f) \/ ArgumentsFail THEN Failed
  ELSE Merge(Merge(Merge(Merge(Defaults, FileLayer(f)), inputs.cli), EnvironmentLayer),
             Overrides)

\* PipelineEngine.Resolve: Failed for an error.
Resolve(f) ==
  IF FileFails(f) \/ ArgumentsFail THEN Failed
  ELSE Merge(Merge(Merge(Merge(Defaults, FileLayer(f)), EnvironmentLayer), inputs.cli),
             Overrides)

\* The rules of the ValidationEngine.
Valid(cfg) ==
  /\ \A s \in Settings : cfg[s] \in Sound[s]
  /\ \A pair \in Below : cfg[pair[1]] < cfg[pair[2]]

-----------------------------------------------------------------------------

Calls ==
  {Idle} \cup [op : {"load"}, read : Layers \cup {Absent, Blank, Torn}]
    \cup [op : {"save"}, at : {"write", "sync", "rename"}, cfg : Savable, synced : BOOLEAN]

\* What is published passed every rule, also after a load that failed.
TypeOK ==
  /\ file \in durable /\ durable \subseteq Layers \cup {Absent, Blank, Torn}
  /\ inputs \in [env : Environments, files : SecretFiles, cli : Arguments]
  /\ current # None => current \in [Settings -> Values] /\ Valid(current)
  /\ workers \in [Workers -> Calls]

Init ==
  /\ file \in FirstFiles /\ durable = {file}
  /\ inputs \in [env : Environments, files : SecretFiles, cli : Arguments]
  /\ current = None /\ workers = [w \in Workers |-> Idle]

Doing(w, op) == workers[w].op = op
Goes(w, call) == workers' = [workers EXCEPT ![w] = call]

\* os.ReadFile: one file from end to end, even when another is renamed over it.
ReadFile(w) ==
  /\ Doing(w, "idle") /\ Goes(w, [op |-> "load", read |-> file])
  /\ UNCHANGED <<file, durable, inputs, current>>

\* Forgets the validation.
LoadBug(w) ==
  LET cfg == Resolve(workers[w].read)
  IN /\ Doing(w, "load") /\ Goes(w, Idle)
     /\ current' = IF cfg # Failed THEN cfg ELSE current
     /\ UNCHANGED <<file, durable, inputs>>

\* The rest of Load and Reload: an error leaves the current configuration.
Load(w) ==
  LET cfg == Resolve(workers[w].read)
  IN /\ Doing(w, "load") /\ Goes(w, Idle)
     /\ current' = IF cfg # Failed /\ Valid(cfg) THEN cfg ELSE current
     /\ UNCHANGED <<file, durable, inputs>>

\* Save, step by step.
CreateTemp(w, cfg) ==
  /\ Doing(w, "idle")
  /\ Goes(w, [op |-> "save", at |-> "write", cfg |-> cfg, synced |-> FALSE])
  /\ UNCHANGED <<file, durable, inputs, current>>

SaveAt(w, at) == Doing(w, "save") /\ workers[w].at = at

WriteTemp(w) ==
  /\ SaveAt(w, "write") /\ Goes(w, [workers[w] EXCEPT !.at = "sync"])
  /\ UNCHANGED <<file, durable, inputs, current>>

\* Closes the file without Sync.
SyncTempBug(w) ==
  /\ SaveAt(w, "sync") /\ Goes(w, [workers[w] EXCEPT !.at = "rename"])
  /\ UNCHANGED <<file, durable, inputs, current>>

SyncTemp(w) ==
  /\ SaveAt(w, "sync") /\ Goes(w, [workers[w] EXCEPT !.at = "rename", !.synced = TRUE])
  /\ UNCHANGED <<file, durable, inputs, current>>

\* The directory is not synced: the old file may come back.
Rename(w) ==
  /\ SaveAt(w, "rename") /\ Goes(w, Idle)
  /\ file' = workers[w].cfg
  /\ durable' = durable \cup {file'}
                  \cup (IF workers[w].synced THEN {} ELSE {Blank, Torn})
  /\ UNCHANGED <<inputs, current>>

\* A step that fails: the temporary file is removed.
FailSave(w) ==
  /\ Doing(w, "save") /\ Goes(w, Idle)
  /\ UNCHANGED <<file, durable, inputs, current>>

Reset == current' = None /\ workers' = [w \in Workers |-> Idle] /\ UNCHANGED inputs

\* The operating system writes the directory back.
Flush == Cardinality(durable) > 1 /\ durable' = {file} /\ UNCHANGED <<file, inputs, current, workers>>

\* The process dies, or the machine does.
Crash == Reset /\ UNCHANGED <<file, durable>>
PowerLoss == Reset /\ file' \in durable /\ durable' = {file'}

Next ==
  \/ \E w \in Workers :
       \/ ReadFile(w) \/ Load(w) \/ \E cfg \in Savable : CreateTemp(w, cfg)
       \/ WriteTemp(w) \/ SyncTemp(w) \/ Rename(w) \/ FailSave(w)
  \/ Flush \/ Crash \/ PowerLoss

Spec == Init /\ [][Next]_vars

-----------------------------------------------------------------------------
\* Safety.

\* A setting has the value of the highest layer that gives it a well-formed one, for
\* whatever file is read.
Precedence ==
  \A f \in FirstFiles \cup Savable :
    LET layers == <<Defaults, FileLayer(f), EnvironmentLayer, inputs.cli, Overrides>>
        given(s) == {i \in 1 .. 5 : layers[i][s] \in Values}
    IN Resolve(f) # Failed =>
         \A s \in Settings : Resolve(f)[s] = layers[Max(given(s))][s]

\* Whatever the moment of a crash, the file is one that was saved from end to end: "To
\* prevent corrupted or partially written files on crashes or power failures".
FileWhole == \A f \in durable : f \in FirstFiles \cup Savable
=============================================================================
