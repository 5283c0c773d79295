------------------------------ MODULE Training ------------------------------
(***************************************************************************)
(* Fine-tuning (training/): the configuration is validated, the corpus is  *)
(* packed into blocks (dataset.py), and the loop of train.py runs micro-   *)
(* batches, accumulates their gradients over several of them, steps the    *)
(* optimiser and the OneCycle schedule, writes checkpoints and finally     *)
(* evaluates (evaluation.py).                                              *)
(*                                                                         *)
(* A gradient is represented by the micro-batches it sums, the weights by  *)
(* the gradients that were applied to them.                                *)
(***************************************************************************)
EXTENDS Integers, Sequences, FiniteSets, Functions, FiniteSetsExt

CONSTANT TrainConfigs  \* docs: tokens of each document; block, batch, accum, epochs,
                       \* maxSteps, saveSteps; fp16: whether the loss is scaled

ASSUME TrainingAssumption ==
    \A c \in TrainConfigs : /\ c.docs \in Seq(Nat) /\ c.fp16 \in BOOLEAN
                            /\ {c.block, c.batch, c.accum, c.epochs, c.maxSteps, c.saveSteps} \subseteq Int

VARIABLES
    config,      \* the TrainingConfig, overrides applied
    trainer,     \* where the run is
    epoch, batch, \* loop indices, from 0
    gradients,   \* what backward has summed since zero_grad: a sequence of micro-batches
    accumulated,
    applied,     \* the gradients the optimiser was stepped with
    scheduled,   \* scheduler.step calls
    state,       \* TrainState: step and tokens_seen
    saved        \* checkpoints: directory and the state in it

trainVars == <<config, trainer, epoch, batch, gradients, accumulated, applied, scheduled, state, saved>>

TrainInit(configs) ==
    /\ config \in configs
    /\ trainer = "configure" /\ epoch = 0 /\ batch = 0
    /\ gradients = <<>> /\ accumulated = 0 /\ applied = <<>> /\ scheduled = 0
    /\ state = [step |-> 0, tokens_seen |-> 0] /\ saved = {}

-----------------------------------------------------------------------------
(* Configuration and data.                                                 *)

\* TrainingConfig.__post_init__.
ValidTraining(c) ==
    /\ c.batch > 0 /\ c.accum > 0 /\ c.block > 0
    /\ c.epochs > 0 \/ c.maxSteps > 0

\* build_dataset: an EOS after every document that is not blank.
StreamLength(c) ==
    LET kept == {i \in DOMAIN c.docs : c.docs[i] > 0}
    IN  SumFunctionOnSet([i \in kept |-> c.docs[i] + 1], kept)

\* pack_token_stream: the remainder is dropped.
Blocks(c) == StreamLength(c) \div c.block

\* DataLoader without drop_last: the last micro-batch may be smaller.
LoaderLength(c) == (Blocks(c) + c.batch - 1) \div c.batch
RowsIn(c, index) == Min({c.batch, Blocks(c) - index * c.batch})

\* total_steps of the schedule.
TotalSteps(c) ==
    IF c.maxSteps > 0 THEN c.maxSteps ELSE Max({LoaderLength(c) \div c.accum, 1}) * c.epochs

Checkpoint(directory, s) == [directory |-> directory, step |-> s.step]

-----------------------------------------------------------------------------
(* train.                                                                  *)

\* A bad configuration, or a corpus shorter than a block, raises before anything runs.
Configure ==
    /\ trainer = "configure"
    /\ trainer' = IF ~ValidTraining(config) \/ Blocks(config) = 0 THEN "rejected"
                  ELSE IF config.epochs <= 0 THEN "evaluate" ELSE "train"
    /\ UNCHANGED <<config, epoch, batch, gradients, accumulated, applied, scheduled, state, saved>>

\* The loops move to the next micro-batch, or are done.
Advance ==
    IF batch + 1 < LoaderLength(config)
      THEN batch' = batch + 1 /\ trainer' = "train" /\ UNCHANGED epoch
      ELSE /\ batch' = 0 /\ epoch' = epoch + 1
           /\ trainer' = IF epoch + 1 < config.epochs THEN "train" ELSE "evaluate"

\* Forward and backward; `continue` while the accumulation is not complete.
MicroBatch ==
    /\ trainer = "train"
    /\ gradients' = Append(gradients, <<epoch, batch>>)
    /\ accumulated' = accumulated + 1
    /\ state' = [state EXCEPT !.tokens_seen = @ + RowsIn(config, batch) * config.block]
    /\ IF accumulated + 1 < config.accum THEN Advance
       ELSE trainer' = "step" /\ UNCHANGED <<epoch, batch>>
    /\ UNCHANGED <<config, applied, scheduled, saved>>

\* Mutation: the gradients are not cleared.
ZeroGradForgotten == accumulated' = 0 /\ UNCHANGED gradients

ZeroGrad == accumulated' = 0 /\ gradients' = <<>>

\* Unscale, clip, step; the scaler leaves out an optimiser step whose gradients overflowed.
\* The schedule is stepped in either case, and raises beyond its total.
OptimizerStep ==
    /\ trainer = "step"
    /\ \E overflow \in IF config.fp16 THEN BOOLEAN ELSE {FALSE} :
         applied' = Append(applied, [gradient |-> gradients, skipped |-> overflow])
    /\ IF scheduled >= TotalSteps(config)
         THEN /\ trainer' = "crashed"
              /\ UNCHANGED <<epoch, batch, gradients, accumulated, scheduled, state, saved>>
         ELSE /\ scheduled' = scheduled + 1
              /\ ZeroGrad
              /\ state' = [state EXCEPT !.step = @ + 1]
              /\ saved' = IF config.saveSteps > 0 /\ state'.step % config.saveSteps = 0
                            THEN saved \cup {Checkpoint("step", state')} ELSE saved
              /\ IF config.maxSteps > 0 /\ state'.step >= config.maxSteps
                   THEN trainer' = "evaluate" /\ UNCHANGED <<epoch, batch>>
                   ELSE Advance
    /\ UNCHANGED config

\* The final evaluation, which changes nothing that is kept, and the last checkpoint.
FinalEvaluation ==
    /\ trainer = "evaluate"
    /\ saved' = saved \cup {Checkpoint("final", state)}
    /\ trainer' = "finished"
    /\ UNCHANGED <<config, epoch, batch, gradients, accumulated, applied, scheduled, state>>

TrainNext == Configure \/ MicroBatch \/ OptimizerStep \/ FinalEvaluation

TrainSpec == TrainInit(TrainConfigs) /\ [][TrainNext]_trainVars

-----------------------------------------------------------------------------
(* Properties.                                                             *)

\* A micro-batch is number n of the run, from 0: those of the epochs before it count.
IsNumber(microBatch, n, length) ==
    microBatch[1] * length + microBatch[2] = n /\ microBatch[2] \in 0 .. length - 1

\* These are the micro-batches from number n on.
Consecutive(sum, n, length) == \A k \in 1 .. Len(sum) : IsNumber(sum[k], n + k - 1, length)

\* Every micro-batch goes into one optimiser step, in order and across the ends of epochs:
\* a step sums exactly gradient_accumulation_steps of them, what is left waits for the next
\* step, and the final checkpoint holds the steps that were counted.
GradientsUsedOnce ==
    /\ \A i \in 1 .. Len(applied) :
         /\ Len(applied[i].gradient) = config.accum
         /\ Consecutive(applied[i].gradient, (i - 1) * config.accum, LoaderLength(config))
    /\ trainer # "crashed" =>
         /\ Len(gradients) = accumulated /\ state.step = Len(applied)
         /\ Consecutive(gradients, Len(applied) * config.accum, LoaderLength(config))
    /\ trainer = "finished" => Checkpoint("final", state) \in saved

\* train.py: "step %d/%d" reports each step against total_steps, which is also the length
\* given to the schedule: a run that passed the validation is not ended by its schedule.
ScheduleCoversRun == trainer # "crashed"

=============================================================================
