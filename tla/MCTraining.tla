------------------------------ MODULE MCTraining ------------------------------
(***************************************************************************)
(* Pre-training and fine-tuning for TLC.  They are programs of their own,  *)
(* run at different times, that share no state but the base model: a       *)
(* behaviour runs the one or the other, and each is checked as if alone.   *)
(***************************************************************************)
EXTENDS Training

CONSTANTS FEpochs, FEntries, FBatchSize, FInitial, FInterval, FMaxRuns

ASSUME FinetuneAssumption ==
    /\ FEpochs \in Nat /\ FEntries \in Nat /\ FMaxRuns \in Nat
    /\ {FBatchSize, FInitial, FInterval} \subseteq Nat \ {0}

VARIABLES program, fbase, fmodels, ffile, fwaiting, fholder, fpc, fkv,
          fbatch, fsize, fstart, fat, fn, ffinished, ftrained

fvars == <<fbase, fmodels, ffile, fwaiting, fholder, fpc, fkv,
           fbatch, fsize, fstart, fat, fn, ffinished, ftrained>>

F == INSTANCE Finetune WITH
        Epochs <- FEpochs, Entries <- FEntries, BatchSize <- FBatchSize,
        Initial <- FInitial, Interval <- FInterval, MaxRuns <- FMaxRuns,
        base <- fbase, models <- fmodels, file <- ffile, waiting <- fwaiting,
        holder <- fholder, pc <- fpc, kv <- fkv, batch <- fbatch, size <- fsize,
        start <- fstart, at <- fat, n <- fn, finished <- ffinished, trained <- ftrained

Trains(A) == program = "training" /\ A /\ UNCHANGED <<program, fvars>>
Finetunes(A) == program = "finetune" /\ A /\ UNCHANGED <<program, vars>>

MCInit == program \in {"training", "finetune"} /\ Init /\ F!Init
MCNext == Trains(Next) \/ Finetunes(F!Next)

MCSpec ==
    /\ MCInit /\ [][MCNext]_<<program, vars, fvars>>
    /\ WF_<<program, vars, fvars>>(Trains(Start \/ LoadFails))
    /\ WF_<<program, vars, fvars>>(Trains(LoopStep))
    /\ WF_<<program, vars, fvars>>(Finetunes(F!Start))
    /\ WF_<<program, vars, fvars>>(Finetunes(F!Loop))
    /\ WF_<<program, vars, fvars>>(Finetunes(\E r \in fwaiting : F!Acquire(r) \/ F!StartFails(r)))

\* Every entry before a saved position of fine-tuning has been trained on.
EveryEntryTrained == F!EveryEntryTrained

\* Each program comes to its end, but for the cases that its module names.
ProgramCompletes ==
    /\ program = "training" => Completes
    /\ program = "finetune" => F!Completes
=============================================================================
