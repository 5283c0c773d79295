----------------------------- MODULE MCPrograms -----------------------------
(* Components that share no state, checked side by side: a behaviour picks  *)
(* its subject, and the others stay in an initial state.                    *)
EXTENDS TLC, Server, Configuration, SpeculativeDecoder, Sampling, Training, Metrics,
        NativeBatcher, ThreadPool, MemoryPool

CONSTANT Subjects  \* the components to check

VARIABLE subject

Parked(S) == {CHOOSE x \in S : TRUE}
Of(name, S) == IF subject = name THEN S ELSE Parked(S)

MCVocabulary == 1 .. 3
MCDefaults == [model |-> "tiny", batch |-> 1, capacity |-> 2, generation |-> "default", floats |-> {}]
MCPrompt == <<0>>

\* Every size and model in flag and file, and a file whose sizes are floats or not; the
\* environment names no file, a bad one or a good one.  The switches, and what else the file
\* holds, take turns.
MCSwitches == {[continuous |-> FALSE, echo |-> FALSE, switches |-> {}, loads |-> TRUE],
               [continuous |-> TRUE, echo |-> FALSE, switches |-> {"echo"}, loads |-> TRUE],
               [continuous |-> FALSE, echo |-> TRUE, switches |-> {"continuous"}, loads |-> FALSE]}
MCFiles == {None} \cup {c \in EngineConfigs : c.generation = "tuned" <=> c.floats # {}}
MCInherited == {None} \cup {[MCDefaults EXCEPT !.batch = b] : b \in {2, 3}}
MCLaunches ==
    {[flags |-> [model |-> m, batch |-> b, capacity |-> c, continuous |-> w.continuous, echo |-> w.echo],
      file |-> f, inherited |-> i, switches |-> w.switches, loads |-> w.loads] :
        m \in Models, b \in Sizes, c \in Sizes, w \in MCSwitches, f \in MCFiles, i \in MCInherited}

\* Batches of two; what a greedy row has for top_k and top_p does not matter to it, unless
\* it is more than the vocabulary has.
MCRows == {row \in SamplingRows : row.greedy => row.k \in {1, 4} /\ row.p = 100}
MCBatches == {<<a, b>> : a \in MCRows, b \in MCRows}

Corpus(rest) == [docs |-> <<3, 0, 2, 3>>, block |-> 2, batch |-> 2, fp16 |-> FALSE, saveSteps |-> 2] @@ rest

\* Corpora that make three micro-batches per epoch (the last one smaller), or none; runs
\* whose accumulation divides the epoch or not; max_steps; bad settings.
MCTrainConfigs ==
    {Corpus([accum |-> a, epochs |-> e, maxSteps |-> m]) : a \in 0 .. 4, e \in 0 .. 2, m \in {0, 2}}
      \cup {[Corpus([accum |-> 1, epochs |-> 2, maxSteps |-> 0]) EXCEPT !.fp16 = TRUE],
            [Corpus([accum |-> 1, epochs |-> 1, maxSteps |-> 0]) EXCEPT !.block = 20]}

nativeVars == <<batcherVars, poolVars, memoryVars>>

NativeInit == BatcherInit /\ PoolInit /\ MemoryPoolInit

NativeNext ==
    \/ subject = "batcher" /\ BatcherNext /\ UNCHANGED <<poolVars, memoryVars>>
    \/ subject = "pool" /\ PoolNext /\ UNCHANGED <<batcherVars, memoryVars>>
    \/ subject = "memory" /\ MemoryPoolNext /\ UNCHANGED <<batcherVars, poolVars>>

ProgramsInit ==
    /\ subject \in Subjects
    /\ ServerInit(IF subject = "replicas" THEN {1} ELSE {0})
    /\ ConfigurationInit(Of("configuration", MCLaunches))
    /\ DecoderInit(Of("decoder", DecoderJobs), Of("decoder", Tokens))
    /\ SamplingInit(IF subject = "sampling" THEN MCBatches ELSE {<<>>})
    /\ TrainInit(Of("training", TrainConfigs))
    /\ MetricsInit /\ NativeInit

ProgramsNext ==
    /\ \/ /\ subject = "server" /\ ServerNext
          /\ UNCHANGED <<configVars, decoderVars, rows, trainVars, metricsVars, nativeVars>>
       \/ /\ subject = "replicas" /\ FrontNext
          /\ UNCHANGED <<lifespan, scheduling, dead, http, configVars, decoderVars, rows, trainVars, metricsVars, nativeVars>>
       \/ /\ subject = "configuration" /\ ConfigurationNext
          /\ UNCHANGED <<serverVars, decoderVars, rows, trainVars, metricsVars, nativeVars>>
       \/ /\ subject = "decoder" /\ Block
          /\ UNCHANGED <<serverVars, configVars, rows, trainVars, metricsVars, nativeVars>>
       \/ /\ subject = "training" /\ TrainNext
          /\ UNCHANGED <<serverVars, configVars, decoderVars, rows, metricsVars, nativeVars>>
       \/ /\ subject = "metrics" /\ MetricsNext
          /\ UNCHANGED <<serverVars, configVars, decoderVars, rows, trainVars, nativeVars>>
       \/ /\ NativeNext
          /\ UNCHANGED <<serverVars, configVars, decoderVars, rows, trainVars, metricsVars>>
    /\ UNCHANGED subject

programVars == <<subject, serverVars, configVars, decoderVars, rows, trainVars, metricsVars, nativeVars>>

Spec == ProgramsInit /\ [][ProgramsNext]_programVars
FairSpec == Spec /\ ServerFairness

=============================================================================
