---------------------------- MODULE Configuration ----------------------------
(***************************************************************************)
(* How the server gets its settings: cudaforge-serve (python/cudaforge/    *)
(* cli.py) resolves its flags and a YAML file into an EngineConfig         *)
(* (config.py) and hands it on through environment variables, from which   *)
(* inference/server.py makes an EngineConfig again, and an engine of it.   *)
(*                                                                         *)
(* Of the fields that are handed on, model stands for those that are       *)
(* copied; batch and capacity constrain each other; generation stands for  *)
(* those a file can set and the environment cannot.  A number is the same  *)
(* whether YAML wrote it 8 or 8.0; floats tells which sizes are the latter.*)
(***************************************************************************)
EXTENDS Integers, FiniteSets

CONSTANTS
    Models, Sizes,  \* values of model_name, and of max_batch_size and queue_capacity
    Defaults,       \* of EngineConfig; the flags have the same
    None

EngineConfigs == [model : Models, batch : Sizes, capacity : Sizes, generation : {"default", "tuned"},
                  floats : SUBSET {"batch", "capacity"}]
Flags == [model : Models, batch : Sizes, capacity : Sizes, continuous : BOOLEAN, echo : BOOLEAN]

ASSUME ConfigurationAssumption ==
    Sizes \subseteq Int /\ Defaults \in EngineConfigs /\ Defaults.floats = {}

VARIABLES
    launch,    \* flags and --config file; the CUDAFORGE_CONFIG file and the switches that
               \* the environment already sets; whether the model loads
    resolved,  \* what _config_from made of the flags and the file
    environ,   \* the variables set for the server
    settings,  \* the server's EngineConfig
    engine,    \* class and runner of the engine it built
    stage      \* flags, resolved, environment, configured, serving, or raised

configVars == <<launch, resolved, environ, settings, engine, stage>>

Launches == [flags : Flags, file : EngineConfigs \cup {None},
             inherited : EngineConfigs \cup {None}, switches : SUBSET {"continuous", "echo"},
             loads : BOOLEAN]

ConfigurationInit(launches) ==
    /\ launch \in launches
    /\ resolved = None /\ environ = None /\ settings = None /\ engine = None
    /\ stage = "flags"

\* EngineConfig.__post_init__.
Valid(config) == config.batch > 0 /\ config.capacity > 0 /\ config.capacity >= config.batch

\* The queue is widened to hold a batch: max returns the one or the other as it is written.
Widened(config) ==
    IF config.batch > config.capacity
      THEN [config EXCEPT !.capacity = config.batch,
                          !.floats = IF "batch" \in @ THEN {"batch", "capacity"} ELSE {}]
      ELSE config

\* from_yaml: a file is validated by itself, before anything overrides it.
Loads(file) == file = None \/ Valid(file)

-----------------------------------------------------------------------------
(* cudaforge-serve.                                                        *)

\* Flags that differ from their defaults override the file.
Overridden(file, flags) ==
    LET Chosen(f) == IF flags[f] # Defaults[f] THEN flags[f] ELSE file[f]
    IN  [file EXCEPT !.model = Chosen("model"), !.batch = Chosen("batch"),
                     !.capacity = Chosen("capacity"),
                     !.floats = {f \in @ : flags[f] = Defaults[f]}]

FromFlags(flags) == [model |-> flags.model, batch |-> flags.batch, capacity |-> flags.capacity,
                     generation |-> Defaults.generation, floats |-> {}]

\* _config_from: a file that is not valid raises before any flag is looked at.
ConfigFrom ==
    /\ stage = "flags"
    /\ LET flags == launch.flags
           config == Widened(IF launch.file = None THEN FromFlags(flags)
                             ELSE Overridden(launch.file, flags))
       IN  IF ~Loads(launch.file) \/ ~Valid(config)
             THEN stage' = "raised" /\ UNCHANGED resolved
             ELSE stage' = "resolved" /\ resolved' = config
    /\ UNCHANGED <<launch, environ, settings, engine>>

\* The two switches are set or left as they were inherited, never cleared.
Switched(name) == launch.flags[name] \/ name \in launch.switches

\* Mutation: the flag goes straight through, and the file's model is ignored.
ExportFlag == [model |-> launch.flags.model, batch |-> resolved.batch, capacity |-> resolved.capacity,
               floats |-> resolved.floats, continuous |-> Switched("continuous"),
               echo |-> Switched("echo")]

\* str of a float has a decimal point.
Export == [model |-> resolved.model, batch |-> resolved.batch, capacity |-> resolved.capacity,
           floats |-> resolved.floats, continuous |-> Switched("continuous"),
           echo |-> Switched("echo")]

\* serve: CUDAFORGE_CONFIG is left as it was inherited.
Serve ==
    /\ stage = "resolved"
    /\ environ' = Export
    /\ stage' = "environment"
    /\ UNCHANGED <<launch, resolved, settings, engine>>

-----------------------------------------------------------------------------
(* The server.                                                             *)

\* config_from_environment: every variable that is set overrides the inherited file, and int
\* raises for one with a decimal point.
ConfigFromEnvironment ==
    /\ stage = "environment"
    /\ LET base == IF launch.inherited = None THEN Defaults ELSE launch.inherited
           config == Widened([base EXCEPT !.model = environ.model, !.batch = environ.batch,
                                          !.capacity = environ.capacity, !.floats = {}])
       IN  IF ~Loads(launch.inherited) \/ environ.floats # {} \/ ~Valid(config)
             THEN stage' = "raised" /\ UNCHANGED settings
             ELSE stage' = "configured" /\ settings' = config
    /\ UNCHANGED <<launch, resolved, environ, engine>>

\* build_engine: a model that fails to load is replaced by the echo runner.
BuildEngine ==
    /\ stage = "configured"
    /\ engine' = [class |-> IF environ.continuous THEN "ContinuousEngine" ELSE "InferenceEngine",
                  runner |-> IF launch.loads /\ ~environ.echo THEN "transformers" ELSE "echo"]
    /\ stage' = "serving"
    /\ UNCHANGED <<launch, resolved, environ, settings>>

ConfigurationNext == ConfigFrom \/ Serve \/ ConfigFromEnvironment \/ BuildEngine

ConfigurationSpec == ConfigurationInit(Launches) /\ [][ConfigurationNext]_configVars

-----------------------------------------------------------------------------
(* Properties.                                                             *)

\* What the command resolved from flags and file is what the engine runs with, although it
\* passes through the environment and is merged with a second file there: the same model,
\* batch and queue, and the engine and runner the flags ask for; a batch always fits into
\* the queue; and once the command has accepted its settings the server raises for no other
\* reason than the inherited file or a size that the --config file writes as a float.
LaunchKeepsSettings ==
    /\ stage \in {"configured", "serving"} =>
         /\ \A f \in {"model", "batch", "capacity"} : settings[f] = resolved[f]
         /\ settings.batch <= settings.capacity
    /\ stage = "serving" =>
         /\ launch.flags.continuous => engine.class = "ContinuousEngine"
         /\ launch.flags.echo => engine.runner = "echo"
    /\ stage = "raised" /\ resolved # None =>
         ~Loads(launch.inherited) \/ (launch.file # None /\ launch.file.floats # {})

=============================================================================
