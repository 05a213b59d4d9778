-------------------------------- MODULE Stages --------------------------------
(***************************************************************************)
(* The stages of main_pipeline.py (clean, train the tokenizer, train the   *)
(* model) over the processes they take, with the programs that run one     *)
(* stage by itself and share the state files: main_dataset_clean.py,       *)
(* main_train_tokenizer.py, model_trainer.py and main_finetune.py.  One    *)
(* process runs at a time.                                                 *)
(*                                                                         *)
(* A state file is the set of stages it records as done; pending, running  *)
(* and failed are all "not done", on which nothing but the log depends.    *)
(* Run ids are numbered as they are made; a state without a run id has the *)
(* file pipeline_state.json, which sorts after every file with one.  The   *)
(* training of the model is the module Training; here it is what it leaves *)
(* for the process that goes on with it: a position, and the best model of *)
(* a run id, whose last save of the process stands for them all.           *)
(***************************************************************************)
EXTENDS Integers, FiniteSets

CONSTANTS
    RawFiles,       \* files of raw_dir
    Sizes,          \* sizes that a vocabulary may come out with
    MaxRuns         \* bound of the model: processes

ASSUME StagesAssumption ==
    RawFiles \in Nat \ {0} /\ MaxRuns \in Nat \ {0} /\ Sizes \subseteq Nat \ {0}

StageNames == {"clean", "tokenizer", "model"}
Plain == MaxRuns + 1
Ids == 1..Plain
None == 0
Absent == {"no file"}
NoModel == [size |-> 0, sealed |-> TRUE]

VARIABLES
    pc,             \* where the process is; "down" without one
    ctx,            \* its run id
    mem,            \* its state: [id, done]
    left,           \* stages it has still to come to
    k,              \* raw files it has cleaned
    files,          \* the state file of a run id: its done stages, or Absent
    cleaned,        \* <<run id, raw file>> with a cleaned file
    vocab, merges,  \* per run id: the training that wrote the file, or None
    size,           \* the size of the vocabulary of each training
    best,           \* per run id: best_model.pt and its checksum, or NoModel
    position,       \* has a training saved its position
    runs,           \* history: processes so far, of which each makes one id
    done,           \* history: stages saved as done and not reset since
    repeated,       \* history: a stage in done was run again
    mixed,          \* history: a vocabulary was loaded with others' merges
    finished,       \* history: a process of the pipeline ended with all done
    excuses         \* history: what may explain a repetition

process == <<ctx, mem, left, k>>
tokenizer == <<vocab, merges, size>>
trained == <<best, position>>
artefacts == <<cleaned, tokenizer, trained>>
history == <<done, repeated, mixed, finished, excuses>>
vars == <<pc, process, files, artefacts, runs, history>>

TypeOK ==
    /\ pc \in {"down", "stage", "clean", "vocab", "merges", "model", "train", "sum", "sealed", "cleaner"}
    /\ ctx \in 0..MaxRuns
    /\ mem \in [id : 0..Plain, done : SUBSET StageNames]
    /\ left \subseteq StageNames /\ k \in 0..RawFiles
    /\ files \in [Ids -> (SUBSET StageNames) \cup {Absent}]
    /\ cleaned \subseteq (1..MaxRuns) \X (1..RawFiles)
    /\ vocab \in [1..MaxRuns -> 0..MaxRuns] /\ merges \in [1..MaxRuns -> 0..MaxRuns]
    /\ size \in [1..MaxRuns -> Sizes \cup {0}]
    /\ best \in [1..MaxRuns -> [size : Sizes \cup {0}, sealed : BOOLEAN]] /\ position \in BOOLEAN
    /\ runs \in 0..MaxRuns /\ done \subseteq StageNames
    /\ repeated \in BOOLEAN /\ mixed \in BOOLEAN /\ finished \in BOOLEAN
    /\ excuses \subseteq {"run id", "no id", "older", "early", "cleaner", "finetune", "torn", "skip", "errors",
                         "unsealed", "resized"}

Idle == [id |-> 0, done |-> {}]

Init ==
    /\ pc = "down" /\ ctx = 0 /\ mem = Idle /\ left = {} /\ k = 0
    /\ files = [i \in Ids |-> Absent]
    /\ cleaned = {}
    /\ vocab = [i \in 1..MaxRuns |-> None] /\ merges = [i \in 1..MaxRuns |-> None]
    /\ size = [t \in 1..MaxRuns |-> 0]
    /\ best = [i \in 1..MaxRuns |-> NoModel] /\ position = FALSE
    /\ runs = 0 /\ done = {} /\ repeated = FALSE /\ mixed = FALSE
    /\ finished = FALSE /\ excuses = {}

-----------------------------------------------------------------------------
Greatest(S) == CHOOSE i \in S : \A j \in S : j <= i
Written == {i \in Ids : files[i] # Absent}

\* load_latest: the last readable state file by name, else a fresh state.
MutLoaded == IF Written = {} THEN {} ELSE files[CHOOSE i \in Written : \A j \in Written : i <= j]
Loaded == IF Written = {} THEN {} ELSE files[Greatest(Written)]

\* latest_for_model: the last run id that has a state file, else a new one.
MutContext == runs + 1
Context == IF Written \ {Plain} = {} THEN runs + 1 ELSE Greatest(Written \ {Plain})

\* The run id of a state that load_latest returned: its file's, or none.
LoadedId == IF Written = {} THEN Plain ELSE Greatest(Written)

\* load_for_run: the state of that run id, else a fresh one.
StateOf(id) == IF id \in Written THEN files[id] ELSE {}

Save(id, stages) == files' = [files EXCEPT ![id] = stages]

\* The process ends; its memory is gone.
Ends == pc' = "down" /\ ctx' = 0 /\ mem' = Idle /\ left' = {} /\ k' = 0

Live == runs < MaxRuns          \* the last process of the model ends well

\* main: --run-id gives a run id, --force resets a stage, --skip takes one for
\* done, both in memory; the state is the latest, whatever run it is of.
Start(id, force, skip, only) ==
    /\ pc = "down" /\ Live
    /\ runs' = runs + 1
    /\ ctx' = id
    /\ mem' = [id |-> id, done |-> (Loaded \ force) \cup skip]
    /\ left' = only /\ k' = 0 /\ pc' = "stage"
    /\ done' = done \ force
    /\ excuses' = excuses \cup (IF id # Context THEN {"run id"} ELSE {})
                          \cup (IF skip # {} THEN {"skip"} ELSE {})
    /\ UNCHANGED <<files, artefacts, repeated, mixed, finished>>
Begin ==
    \/ Start(Context, {}, {}, StageNames)
    \/ runs + 1 < MaxRuns /\ \E s \in StageNames : Start(Context, {s}, {}, StageNames)
    \/ runs + 1 < MaxRuns /\ \E s \in StageNames : Start(Context, {}, {s}, StageNames)
    \/ runs + 1 < MaxRuns /\ \E s \in StageNames : Start(Context, {}, {}, {s})
    \/ runs + 1 < MaxRuns /\ \E id \in 1..runs : Start(id, {}, {}, StageNames)

First(S) == IF "clean" \in S THEN "clean" ELSE IF "tokenizer" \in S THEN "tokenizer" ELSE "model"

\* The next stage: passed over if it is done, else run.
Stage ==
    /\ pc = "stage" /\ left # {}
    /\ left' = left \ {First(left)}
    /\ IF First(left) \in mem.done
       THEN UNCHANGED <<pc, repeated>>
       ELSE /\ pc' = CASE First(left) = "clean" -> "clean"
                       [] First(left) = "tokenizer" -> "vocab"
                       [] First(left) = "model" -> "model"
            /\ repeated' = (repeated \/ First(left) \in done)
    /\ UNCHANGED <<ctx, mem, k, files, artefacts, runs, done, mixed, finished, excuses>>

\* The stage s is marked completed, and the state saved under the run id.
Completes(s) ==
    /\ mem' = [mem EXCEPT !.done = @ \cup {s}]
    /\ Save(mem.id, mem'.done)
    /\ done' = done \cup mem'.done
    /\ pc' = "stage"

\* run_dataset_clean: a cleaned file, named after the run, for each raw file.
CleanFile ==
    /\ pc = "clean" /\ k < RawFiles
    /\ k' = k + 1
    /\ cleaned' = cleaned \cup {<<ctx, k + 1>>}
    /\ UNCHANGED <<pc, ctx, mem, left, files, tokenizer, trained, runs, history>>
CleanEnds ==
    /\ pc = "clean" /\ k = RawFiles
    /\ Completes("clean") /\ k' = 0
    /\ UNCHANGED <<ctx, left, artefacts, runs, repeated, mixed, finished, excuses>>

\* from_pretrained: the last vocabulary and, found for itself, the last merges.
Present(f) == {i \in 1..MaxRuns : f[i] # None}
TokenizerLoads == Present(vocab) # {} /\ Present(merges) # {}
VocabSize == size[vocab[Greatest(Present(vocab))]]

\* load_checkpoint of the last best model by name, where there is a position to
\* go on from: its checksum must verify, its embeddings have the vocabulary's
\* size.
Models == {i \in 1..MaxRuns : best[i] # NoModel}
LastModel == best[Greatest(Models)]
ModelFits == position /\ Models # {} => LastModel = [size |-> VocabSize, sealed |-> TRUE]

\* TokenizerTrainer.run over all the cleaned files, of which there must be one:
\* the vocabulary is written, then the merges.
WriteVocab ==
    /\ pc = "vocab" /\ cleaned # {}
    /\ vocab' = [vocab EXCEPT ![ctx] = runs]
    /\ \E n \in Sizes : size' = [size EXCEPT ![runs] = n]
    /\ pc' = "merges"
    /\ excuses' = excuses \cup (IF Models # {} /\ LastModel.size # VocabSize' THEN {"resized"} ELSE {})
    /\ UNCHANGED <<process, files, cleaned, merges, trained, runs, done, repeated, mixed, finished>>
MutWriteMerges ==
    /\ pc = "merges"
    /\ merges' = [merges EXCEPT ![1] = runs]
    /\ Completes("tokenizer")
    /\ UNCHANGED <<ctx, left, k, cleaned, vocab, size, trained, runs, repeated, mixed, finished, excuses>>
WriteMerges ==
    /\ pc = "merges"
    /\ merges' = [merges EXCEPT ![ctx] = runs]
    /\ Completes("tokenizer")
    /\ UNCHANGED <<ctx, left, k, cleaned, vocab, size, trained, runs, repeated, mixed, finished, excuses>>

\* run_model_training loads the tokenizer and the model of an earlier process.
TrainModel ==
    /\ pc = "model" /\ TokenizerLoads /\ ModelFits
    /\ mixed' = (mixed \/ vocab[Greatest(Present(vocab))] # merges[Greatest(Present(merges))])
    /\ pc' = "train"
    /\ UNCHANGED <<process, files, artefacts, runs, done, repeated, finished, excuses>>

\* The position is saved within an epoch, and after the model at its end.
SavePosition ==
    /\ pc \in {"train", "sealed"} /\ ~position
    /\ position' = TRUE
    /\ UNCHANGED <<pc, process, files, cleaned, tokenizer, best, runs, history>>

\* save_checkpoint: until its checksum is written the model does not verify.
SaveModel ==
    /\ pc = "train"
    /\ best' = [best EXCEPT ![ctx] = [size |-> VocabSize, sealed |-> FALSE]]
    /\ pc' = "sum"
    /\ UNCHANGED <<process, files, cleaned, tokenizer, position, runs, history>>
SealModel ==
    /\ pc = "sum"
    /\ best' = [best EXCEPT ![ctx].sealed = TRUE]
    /\ pc' = "sealed"
    /\ UNCHANGED <<process, files, cleaned, tokenizer, position, runs, history>>

\* The last epoch was the last, which a process may find it already was.
TrainEnds ==
    /\ pc \in {"train", "sealed"} /\ position
    /\ Completes("model")
    /\ UNCHANGED <<ctx, left, k, artefacts, runs, repeated, mixed, finished, excuses>>

\* The first of two files is there without the second.
BrokenOff == IF pc = "merges" THEN {"torn"} ELSE IF pc = "sum" THEN {"unsealed"} ELSE {}

\* All stages of the process are done, or one has failed: the state is saved.
Finish ==
    /\ pc = "stage" /\ left = {}
    /\ finished' = (finished \/ mem.done = StageNames)
    /\ Ends
    /\ UNCHANGED <<files, artefacts, runs, done, repeated, mixed, excuses>>
StageFails ==
    /\ \/ pc \in {"clean", "vocab", "merges", "model", "train", "sum", "sealed"} /\ Live
       \/ pc = "vocab" /\ cleaned = {}
       \/ pc = "model" /\ ~(TokenizerLoads /\ ModelFits)
    /\ Save(mem.id, mem.done)
    /\ done' = done \cup mem.done
    /\ excuses' = excuses \cup BrokenOff
    /\ Ends
    /\ UNCHANGED <<artefacts, runs, repeated, mixed, finished>>

-----------------------------------------------------------------------------
\* main_dataset_clean.py: new run id, the latest state, which keeps its own.
CleanerStart ==
    /\ pc = "down" /\ runs + 1 < MaxRuns
    /\ runs' = runs + 1 /\ ctx' = runs + 1
    /\ mem' = [id |-> LoadedId, done |-> Loaded \ {"clean"}]
    /\ Save(LoadedId, Loaded \ {"clean"})
    /\ done' = done \ {"clean"} /\ k' = 0 /\ left' = {} /\ pc' = "cleaner"
    /\ excuses' = excuses \cup {"cleaner"} \cup (IF LoadedId = Plain THEN {"no id"} ELSE {})
    /\ UNCHANGED <<artefacts, repeated, mixed, finished>>

\* An error in a file is logged; the file is left out, and the stage completed.
CleanerFile ==
    /\ pc = "cleaner" /\ k < RawFiles
    /\ k' = k + 1
    /\ \/ cleaned' = cleaned \cup {<<ctx, k + 1>>} /\ UNCHANGED excuses
       \/ excuses' = excuses \cup {"errors"} /\ UNCHANGED cleaned
    /\ UNCHANGED <<pc, ctx, mem, left, files, tokenizer, trained, runs, done, repeated, mixed, finished>>
CleanerEnds ==
    /\ pc = "cleaner" /\ k = RawFiles
    /\ Save(mem.id, mem.done \cup {"clean"})
    /\ done' = done \cup {"clean"}
    /\ Ends
    /\ UNCHANGED <<artefacts, runs, repeated, mixed, finished, excuses>>

\* main_train_tokenizer.py and model_trainer.py build their trainers with
\* arguments that these do not take: the stage is left as failed.
FailingProgram(s) ==
    /\ pc = "down" /\ runs + 1 < MaxRuns
    /\ s = "tokenizer" => cleaned # {}
    /\ runs' = runs + 1
    /\ Save(LoadedId, Loaded \ {s})
    /\ done' = done \ {s}
    /\ excuses' = excuses \cup (IF LoadedId = Plain THEN {"no id"} ELSE {})
    /\ UNCHANGED <<pc, process, artefacts, repeated, mixed, finished>>

\* main_finetune.py saves the latest state, or with --run-id that run's or a
\* fresh one, under a new run id.
FinetuneStarts ==
    /\ pc = "down" /\ runs + 1 < MaxRuns
    /\ runs' = runs + 1
    /\ \E state \in {Loaded} \cup {StateOf(id) : id \in 1..(runs + 1)} :
           /\ Save(runs + 1, state)
           /\ excuses' = excuses \cup {"finetune"} \cup (IF state # Loaded THEN {"older"} ELSE {})
    /\ UNCHANGED <<pc, process, artefacts, done, repeated, mixed, finished>>

\* The process is killed.
Killed ==
    /\ pc # "down" /\ Live
    /\ excuses' = excuses \cup BrokenOff
                          \cup (IF Written \ {Plain} = {} THEN {"early"} ELSE {})
    /\ Ends
    /\ UNCHANGED <<files, artefacts, runs, done, repeated, mixed, finished>>

Steps ==
    \/ Stage \/ CleanFile \/ CleanEnds \/ WriteVocab \/ WriteMerges
    \/ TrainModel \/ SavePosition \/ SaveModel \/ SealModel \/ TrainEnds
    \/ Finish \/ StageFails \/ CleanerFile \/ CleanerEnds
Next ==
    \/ Begin
    \/ Steps
    \/ CleanerStart
    \/ \E s \in {"tokenizer", "model"} : FailingProgram(s)
    \/ FinetuneStarts
    \/ Killed

Spec == Init /\ [][Next]_vars
FairSpec == Spec /\ WF_vars(Begin) /\ WF_vars(Steps)

-----------------------------------------------------------------------------
\* What main_pipeline.py has saved as done it does not do again: the state it
\* loads is the one that was saved last, unless --run-id of main_pipeline.py
\* saved it elsewhere or that of main_finetune.py an older one after it, or a
\* program without a run id left the file that is always taken for the latest.
RepeatsExplained == repeated => excuses \cap {"run id", "older", "no id"} # {}

\* A raw file has one cleaned file, so that its text is trained on once and is
\* not in both training and validation, unless the run id it was cleaned under
\* was lost: the process was killed before there was a state file, or another
\* program took or made an id of its own.
CleanedOnce ==
    (\E a, b \in cleaned : a[1] # b[1] /\ a[2] = b[2]) =>
        excuses \cap {"run id", "early", "cleaner", "finetune"} # {}

\* A model is trained with a vocabulary and merges of the same training,
\* unless a training of the tokenizer broke off between the two.
PairMatches == mixed => "torn" \in excuses

=============================================================================
