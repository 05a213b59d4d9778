------------------------------- MODULE Finetune -------------------------------
(***************************************************************************)
(* Fine-tuning (finetune/main_finetune.py and finetune/core), by processes *)
(* that each start from the latest state file or, with --run-id, from any  *)
(* run's, and each write one of their own.  A process reads the state      *)
(* before it waits for finetune.lock.  The base model is read anew by      *)
(* every process; the weights it trains are saved and never read again.    *)
(***************************************************************************)
EXTENDS Integers, FiniteSets

CONSTANTS
    Epochs,         \* fin_cfg.epochs
    Entries,        \* entries of the dataset
    BatchSize,      \* fin_cfg.batch_size
    Initial,        \* recommended batch size of the machine
    Interval,       \* checkpoint_interval_steps
    MaxRuns         \* bound of the model: processes

VARIABLES
    base,           \* is a base_checkpoint configured
    models,         \* is there a *.pt file of a fine-tuned model
    file,           \* state file of each run: its position
    waiting,        \* runs that wait for the lock
    holder,         \* the run that has the lock, 0 if none has
    pc,             \* where the holder is
    kv,             \* position of each run, in memory
    batch,          \* batch size of the holder's resource manager
    size,           \* batch size of the epoch
    start,          \* start_batch_offset
    at, n,          \* of the stream: entries consumed, batches yielded
    finished,       \* history: has a run completed
    trained         \* history: <<epoch, entry>> that some run trained on

stream == <<batch, size, start, at, n>>
vars == <<base, models, file, waiting, holder, pc, kv, stream, finished, trained>>

Runs == DOMAIN file
Origin == [epoch |-> 0, offset |-> 0, step |-> 0]

Init ==
    /\ base \in BOOLEAN /\ models = FALSE
    /\ file = << >> /\ kv = << >>
    /\ waiting = {} /\ holder = 0 /\ pc = "none"
    /\ batch = 0 /\ size = 0 /\ start = 0 /\ at = 0 /\ n = 0
    /\ finished = FALSE /\ trained = {}

Newest == Cardinality(Runs)
Extend(f, x) == [r \in 1..(Newest + 1) |-> IF r <= Newest THEN f[r] ELSE x]

-----------------------------------------------------------------------------
\* The base model of an adapter: the configured one, else the latest *.pt, which
\* a strict load refuses if it was saved by an adapter.
BaseFits == base \/ ~models

\* The batch sizes a resource manager may have come to by the time of the lock.
Machine == 1..Initial

\* stream_batches passes over as many entries as the offset counts batches.
PassedOver(offset) == IF offset < Entries THEN offset ELSE Entries

\* train_step on the entries from one to another.
Trained(e, from, to) == trained' = trained \cup ({e} \X (from..(to - 1)))

\* run_finetuning: the latest state is loaded, or with --run-id that run's or a
\* fresh one, and saved as this run's.
Start ==
    /\ Newest < MaxRuns
    /\ \E pos \in {Origin} \cup {file[r] : r \in Runs} :
           kv' = Extend(kv, pos) /\ file' = Extend(file, pos)
    /\ waiting' = waiting \cup {Newest + 1}
    /\ UNCHANGED <<base, models, holder, pc, stream, finished, trained>>

\* locked_file: the lock, and then the adapter.
Acquire(r) ==
    /\ r \in waiting /\ holder = 0
    /\ BaseFits
    /\ waiting' = waiting \ {r} /\ holder' = r /\ pc' = "epoch"
    /\ batch' \in Machine
    /\ start' = kv[r].offset /\ UNCHANGED <<size, at, n>>
    /\ UNCHANGED <<base, models, file, kv, finished, trained>>

\* The dataset is refused, the lock times out or the adapter cannot be built:
\* the stage is marked failed, which saves the state.
StartFails(r) ==
    /\ r \in waiting
    /\ r < MaxRuns \/ (holder = 0 /\ ~BaseFits)
    /\ waiting' = waiting \ {r}
    /\ file' = [file EXCEPT ![r] = kv[r]]
    /\ UNCHANGED <<base, models, holder, pc, kv, stream, finished, trained>>

\* _adapt: short of memory, half the batch; or one less, down to 2.
Adapt ==
    /\ pc \in {"epoch", "batch"}
    /\ batch' \in {b \in {batch \div 2, batch - 1} : b >= 1 /\ (b = batch \div 2 \/ batch > 2)}
    /\ UNCHANGED <<base, models, file, waiting, holder, pc, kv, size, start, at, n, finished, trained>>

\* An epoch begins with the batch size of the moment.
MutEnterEpoch ==
    /\ pc = "epoch" /\ kv[holder].epoch < Epochs
    /\ size' = IF batch < BatchSize THEN batch ELSE BatchSize
    /\ at' = PassedOver(start * size')
    /\ n' = 0 /\ pc' = "batch"
    /\ UNCHANGED <<base, models, file, waiting, holder, kv, batch, start, finished, trained>>
EnterEpoch ==
    /\ pc = "epoch" /\ kv[holder].epoch < Epochs
    /\ size' = IF batch < BatchSize THEN batch ELSE BatchSize
    /\ at' = PassedOver(start)
    /\ n' = 0 /\ pc' = "batch"
    /\ UNCHANGED <<base, models, file, waiting, holder, kv, batch, start, finished, trained>>

\* What an attempt to save leaves: a model and the state, a model, nothing.
\* The error is logged and swallowed.
Attempt(pos) ==
    \/ models' = TRUE /\ file' = [file EXCEPT ![holder] = pos]
    \/ models' = TRUE /\ UNCHANGED file
    \/ UNCHANGED <<models, file>>

\* A batch, and every Interval-th step an attempt to save.
Batch ==
    /\ pc = "batch" /\ at < Entries
    /\ at' = IF at + size < Entries THEN at + size ELSE Entries
    /\ n' = n + 1
    /\ Trained(kv[holder].epoch, at, at')
    /\ kv' = [kv EXCEPT ![holder].step = @ + 1, ![holder].offset = n + 1]
    /\ IF kv'[holder].step % Interval = 0 THEN Attempt(kv'[holder]) ELSE UNCHANGED <<models, file>>
    /\ UNCHANGED <<base, waiting, holder, pc, batch, size, start, finished>>

EpochEnds ==
    /\ pc = "batch" /\ at = Entries
    /\ kv' = [kv EXCEPT ![holder].epoch = @ + 1, ![holder].offset = 0]
    /\ Attempt(kv'[holder])
    /\ start' = 0 /\ pc' = "epoch"
    /\ UNCHANGED <<base, waiting, holder, batch, size, at, n, finished, trained>>

\* The end of the holder's process: the lock is free, its memory gone.
Ends ==
    /\ holder' = 0 /\ pc' = "none"
    /\ kv' = [kv EXCEPT ![holder] = Origin]
    /\ batch' = 0 /\ size' = 0 /\ start' = 0 /\ at' = 0 /\ n' = 0

\* The end of the loop: an attempt to save the final model, the lineage, and
\* the completed stage.
Complete ==
    /\ pc = "epoch" /\ kv[holder].epoch = Epochs
    /\ models' \in {models, TRUE}
    /\ file' = [file EXCEPT ![holder] = kv[holder]]
    /\ finished' = TRUE
    /\ Ends
    /\ UNCHANGED <<base, waiting, trained>>

\* An exception of the loop or of the lineage: the state is saved as it is.
Fails ==
    /\ holder \in 1..(MaxRuns - 1)
    /\ file' = [file EXCEPT ![holder] = kv[holder]]
    /\ Ends
    /\ UNCHANGED <<base, models, waiting, finished, trained>>

\* The process is killed, perhaps within torch.save; the system frees the lock.
Killed ==
    /\ \/ \E r \in waiting \ {MaxRuns} :
              waiting' = waiting \ {r} /\ UNCHANGED <<models, holder, pc, kv, stream>>
       \/ /\ holder \in 1..(MaxRuns - 1)
          /\ models' \in {models, TRUE}
          /\ Ends /\ UNCHANGED waiting
    /\ UNCHANGED <<base, file, finished, trained>>

Loop == EnterEpoch \/ Batch \/ EpochEnds \/ Complete
Next ==
    \/ Start
    \/ \E r \in waiting : Acquire(r) \/ StartFails(r)
    \/ Adapt
    \/ Loop
    \/ Fails
    \/ Killed

Fairness ==
    /\ WF_vars(Start) /\ WF_vars(Loop)
    /\ WF_vars(\E r \in waiting : Acquire(r) \/ StartFails(r))
Spec == Init /\ [][Next]_vars
FairSpec == Spec /\ Fairness

-----------------------------------------------------------------------------
\* The position of every state file is one before which every entry has been
\* trained on, by some process: the offset counts batches of a loop that began
\* in the middle and is used to pass over entries, which repeats and never
\* loses any; nor does a process that read the state before it had the lock.
EveryEntryTrained ==
    \A r \in Runs :
        ((0..(file[r].epoch - 1)) \X (0..(Entries - 1)))
            \cup ({file[r].epoch} \X (0..(file[r].offset - 1))) \subseteq trained

\* Fine-tuning ends, unless no base model is configured and a fine-tuned one has
\* been saved, which every later process takes for its base and cannot load.
Completes == <>(finished \/ (models /\ ~base))
=============================================================================
