------------------------------- MODULE Training -------------------------------
(***************************************************************************)
(* Pre-training over the processes it takes (trainer/core/training_loop.py *)
(* and checkpoint_manager.py, save_checkpoint and load_checkpoint of       *)
(* transformer/utils/model_helpers.py, stage model_training of             *)
(* main_pipeline.py).                                                      *)
(*                                                                         *)
(* Three kinds of files survive a process: the granular position, the best *)
(* model and the model of every Freq-th epoch, each model with a checksum  *)
(* beside it that is written after it.  The processes keep one run id, as  *)
(* main_pipeline.py does once a stage has been saved.  Weights are the     *)
(* number of the step they were saved at; losses are ordered ranks, of     *)
(* which Infinite is above all (inf, and nan, which is below nothing).     *)
(***************************************************************************)
EXTENDS Integers, FiniteSets

CONSTANTS
    Epochs,         \* train_cfg.epochs
    Batches,        \* batches of an epoch
    Accum,          \* grad_accum
    SaveEvery,      \* steps from one granular save to the next (500)
    Freq,           \* save_every_epochs
    MaxLoss,        \* ranks of average losses
    MaxRuns         \* bound of the model: processes

ASSUME TrainingAssumption ==
    /\ Epochs \in Nat /\ Batches \in Nat \ {0} /\ Accum \in Nat \ {0}
    /\ SaveEvery \in Nat \ {0} /\ Freq \in Nat \ {0}
    /\ MaxLoss \in Nat /\ MaxRuns \in Nat

Infinite == MaxLoss + 1
Ranks == 1..Infinite
Indices == 0..(Batches - 1)
Absent == [step |-> 0, finite |-> TRUE, sealed |-> TRUE, epoch |-> 0, loss |-> 0]

VARIABLES
    pc,             \* where the loop is; "down" without a process
    epoch, idx,     \* the epoch, and the batch that comes next
    steps,          \* global_step
    prog,           \* progress: [epoch, batch, step]
    sound,          \* no nan in the gradients accumulated
    weights,        \* the model: [step, finite]
    lowest,         \* _best_loss of the checkpoint manager
    avg,            \* avg_loss of the epoch that ends
    granular,       \* granular_checkpoint.json: [epoch, batch, step]
    best,           \* best_model.pt and its checksum, or Absent
    epochModels,    \* the epoch_*.pt files
    runs,           \* history: processes so far
    seen,           \* history: batches trained on, in any process
    torn            \* history: a process ended between a model and its checksum

loop == <<epoch, idx, steps, prog, sound, weights, lowest, avg>>
files == <<granular, best, epochModels>>
history == <<runs, seen, torn>>
vars == <<pc, loop, files, history>>

Origin == [epoch |-> 0, batch |-> 0, step |-> 0]
Position == [epoch : 0..Epochs, batch : Indices, step : Nat]
Model == [step : Nat, finite : BOOLEAN, sealed : BOOLEAN, epoch : 0..Epochs, loss : 0..Infinite]

TypeOK ==
    /\ pc \in {"down", "batch", "epochModel", "epochSum", "bestModel", "bestSum", "granular", "done"}
    /\ epoch \in 0..Epochs /\ idx \in 0..Batches /\ steps \in Nat
    /\ prog \in Position /\ granular \in Position
    /\ sound \in BOOLEAN
    /\ weights \in [step : Nat, finite : BOOLEAN]
    /\ lowest \in Ranks /\ avg \in Ranks
    /\ best \in Model /\ epochModels \subseteq Model
    /\ runs \in Nat /\ seen \subseteq (1..Epochs) \X Indices /\ torn \in BOOLEAN

Init ==
    /\ pc = "down"
    /\ epoch = 0 /\ idx = 0 /\ steps = 0 /\ prog = Origin
    /\ sound = TRUE
    /\ weights = [step |-> 0, finite |-> TRUE]
    /\ lowest = Infinite /\ avg = Infinite
    /\ granular = Origin /\ best = Absent /\ epochModels = {}
    /\ runs = 0 /\ seen = {} /\ torn = FALSE

-----------------------------------------------------------------------------
\* latest_model_checkpoint: the best model, else the last epoch's by name.
Latest ==
    IF best # Absent THEN best
    ELSE IF epochModels = {} THEN Absent
    ELSE CHOOSE m \in epochModels : \A n \in epochModels :
             m.epoch > n.epoch \/ (m.epoch = n.epoch /\ m.loss >= n.loss)

\* A model is loaded only where the position has a step to go on from.
Loads == granular.step > 0 /\ Latest # Absent

\* for epoch in range(...): the next epoch from a batch on, or the end.
Enter(e, b) ==
    IF e < Epochs
    THEN pc' = "batch" /\ epoch' = e + 1 /\ idx' = b /\ sound' = TRUE
    ELSE pc' = "done" /\ UNCHANGED <<epoch, idx, sound>>

\* restore_progress, and the start of run_training_loop.
Start ==
    /\ pc = "down" /\ runs < MaxRuns
    /\ Loads => Latest.sealed
    /\ runs' = runs + 1
    /\ prog' = granular /\ steps' = granular.step
    /\ weights' = IF Loads THEN [step |-> Latest.step, finite |-> Latest.finite]
                           ELSE [step |-> 0, finite |-> TRUE]
    /\ lowest' = Infinite
    /\ Enter(granular.epoch, granular.batch)
    /\ UNCHANGED <<avg, files, seen, torn>>

\* load_checkpoint raises: the checksum is missing or is another model's.
LoadFails ==
    /\ pc = "down" /\ runs < MaxRuns
    /\ Loads /\ ~Latest.sealed
    /\ runs' = runs + 1
    /\ UNCHANGED <<pc, loop, files, seen, torn>>

\* A batch: its gradients are added up, and every Accum-th one steps.  The last
\* process of the model meets no nan.
Accumulates(ok) ==
    /\ pc = "batch" /\ idx < Batches
    /\ ok \/ runs < MaxRuns
    /\ seen' = seen \cup {<<epoch, idx>>}
    /\ idx' = idx + 1
    /\ sound' = (sound /\ ok)

Steps == (idx + 1) % Accum = 0

Batch(ok) ==
    /\ Accumulates(ok) /\ ~Steps
    /\ UNCHANGED <<pc, epoch, steps, prog, weights, lowest, avg, files, runs, torn>>

\* on_batch_done saves the position every SaveEvery steps.
Step(ok) ==
    /\ Accumulates(ok) /\ Steps /\ sound'
    /\ steps' = steps + 1
    /\ weights' = [weights EXCEPT !.step = steps + 1]
    /\ prog' = [epoch |-> epoch, batch |-> idx, step |-> steps + 1]
    /\ granular' = IF (steps + 1) % SaveEvery = 0 THEN prog' ELSE granular
    /\ UNCHANGED <<pc, epoch, lowest, avg, best, epochModels, runs, torn>>

\* The optimizer steps before the norm is tested: the weights are lost, and
\* the stage fails.
MutBadStep(ok) ==
    /\ Accumulates(ok) /\ Steps /\ ~sound'
    /\ weights' = [step |-> steps + 1, finite |-> FALSE]
    /\ UNCHANGED <<pc, epoch, steps, prog, lowest, avg, files, runs, torn>>
BadStep(ok) ==
    /\ Accumulates(ok) /\ Steps /\ ~sound'
    /\ weights' = [step |-> steps + 1, finite |-> FALSE]
    /\ pc' = "down"
    /\ UNCHANGED <<epoch, steps, prog, lowest, avg, files, runs, torn>>

\* on_epoch_done, first part: what it is going to save.
EpochEnds ==
    /\ pc = "batch" /\ idx = Batches
    /\ prog' = [prog EXCEPT !.step = steps]
    /\ avg' \in Ranks
    /\ pc' = IF epoch % Freq = 0 THEN "epochModel"
             ELSE IF avg' < lowest THEN "bestModel" ELSE "granular"
    /\ UNCHANGED <<epoch, idx, steps, sound, weights, lowest, files, history>>

Saved(sealed) == [step |-> weights.step, finite |-> weights.finite, sealed |-> sealed,
                  epoch |-> epoch, loss |-> avg]

\* save_checkpoint.  From the moment torch.save creates <name>.tmp.pt, which
\* the globs of latest_model_checkpoint take for a model like any other and
\* prefer to <name>.pt, to the moment the checksum of <name>.pt is written, the
\* file of that name does not verify: it is unsealed.
SaveEpochModel ==
    /\ pc = "epochModel"
    /\ epochModels' = {m \in epochModels : m.epoch # epoch \/ m.loss # avg} \cup {Saved(FALSE)}
    /\ pc' = "epochSum"
    /\ UNCHANGED <<loop, granular, best, history>>
SealEpochModel ==
    /\ pc = "epochSum"
    /\ epochModels' = (epochModels \ {Saved(FALSE)}) \cup {Saved(TRUE)}
    /\ pc' = IF avg < lowest THEN "bestModel" ELSE "granular"
    /\ UNCHANGED <<loop, granular, best, history>>
SaveBest ==
    /\ pc = "bestModel"
    /\ lowest' = avg
    /\ best' = Saved(FALSE)
    /\ pc' = "bestSum"
    /\ UNCHANGED <<epoch, idx, steps, prog, sound, weights, avg, granular, epochModels, history>>
MutSealBest ==
    /\ pc = "bestSum"
    /\ best' = IF best.epoch = 1 THEN Saved(TRUE) ELSE best
    /\ pc' = "granular"
    /\ UNCHANGED <<loop, granular, epochModels, history>>
SealBest ==
    /\ pc = "bestSum"
    /\ best' = Saved(TRUE)
    /\ pc' = "granular"
    /\ UNCHANGED <<loop, granular, epochModels, history>>

\* The position is saved with the batch of the last step, and only then the
\* batch is set back for the next epoch.
MutSaveGranular ==
    /\ pc = "granular"
    /\ prog' = [prog EXCEPT !.batch = 0]
    /\ Enter(epoch, 0)
    /\ UNCHANGED <<steps, weights, lowest, avg, files, history>>
MutReset ==
    /\ pc = "granular"
    /\ granular' = [prog EXCEPT !.epoch = epoch]
    /\ prog' = prog
    /\ Enter(epoch, prog.batch)
    /\ UNCHANGED <<steps, weights, lowest, avg, best, epochModels, history>>
SaveGranular ==
    /\ pc = "granular"
    /\ granular' = [prog EXCEPT !.epoch = epoch]
    /\ prog' = [prog EXCEPT !.batch = 0]
    /\ Enter(epoch, 0)
    /\ UNCHANGED <<steps, weights, lowest, avg, best, epochModels, history>>

LoopStep ==
    \/ \E ok \in BOOLEAN : Batch(ok) \/ Step(ok) \/ BadStep(ok)
    \/ EpochEnds
    \/ SaveEpochModel
    \/ SealEpochModel
    \/ SaveBest
    \/ SealBest
    \/ SaveGranular

\* The process is killed, runs out of memory (MemoryManager.check) or fails to
\* write; the last process of the model is not.
ProcessEnds ==
    /\ pc \notin {"down", "done"} /\ runs < MaxRuns
    /\ pc' = "down"
    /\ torn' = (torn \/ pc \in {"epochSum", "bestSum"})
    /\ UNCHANGED <<loop, files, runs, seen>>

Next == Start \/ LoadFails \/ LoopStep \/ ProcessEnds

Spec == Init /\ [][Next]_vars
FairSpec == Spec /\ WF_vars(Start \/ LoadFails) /\ WF_vars(LoopStep)

-----------------------------------------------------------------------------
\* A position of the middle of an epoch is taken for one of its end, and the
\* batch of an epoch's last step is left in the position of its end: a restart
\* passes over batches, but over fewer than an epoch has.
SkippedBounded ==
    pc = "done" =>
        Cardinality(((1..Epochs) \X Indices) \ seen) <= (runs - 1) * (Batches - 1)

\* The gradients are tested after the optimizer has used them; all the same no
\* weights with a nan are ever saved, so a failed stage starts from sound ones.
SavedFinite == \A m \in epochModels \cup {best} : m.finite

\* The best weights, which a process loads where there are any, are never more
\* than an epoch's steps ahead of the position it would go on from, wherever
\* processes ended.
WeightsNearPosition == best.step <= granular.step + Batches \div Accum

\* The saved position never moves back.
PositionForward ==
    [][granular'.epoch >= granular.epoch /\ granular'.step >= granular.step]_granular

\* Training is brought to its end however often it is stopped, unless a process
\* ended between a model and its checksum.
Completes == <>(pc = "done" \/ torn)
=============================================================================
