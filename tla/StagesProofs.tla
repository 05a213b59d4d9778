----------------------------- MODULE StagesProofs -----------------------------
(***************************************************************************)
(* Proofs about Stages for any number of processes and raw files.          *)
(***************************************************************************)
EXTENDS Stages, FiniteSetTheorems, WellFoundedInduction, TLAPS

-----------------------------------------------------------------------------
\* The greatest of a set of run ids, the file that sorts last.
LEMMA GreatestExists ==
    ASSUME NEW S \in SUBSET Ids, S # {}
    PROVE  Greatest(S) \in S /\ \A j \in S : j <= Greatest(S)
<1> DEFINE Up(i) == {j \in S : i < j}
           R == StrictSubsetOrdering(S)
           T == {Up(i) : i \in S}
<1>1. IsFiniteSet(Ids) /\ Ids \subseteq Int
  BY FS_Interval, StagesAssumption DEF Ids, Plain
<1>2. IsFiniteSet(S) /\ \A x \in S : x \in Int
  BY <1>1, FS_Subset
<1>3. IsWellFoundedOn(R, SUBSET S)
  BY <1>2, FS_StrictSubsetOrderingWellFounded, FS_FiniteSubsetsOfFinite
<1>4. \E t \in T : \A u \in T : <<u, t>> \notin R
  <2>1. T \subseteq SUBSET S /\ T # {}
    OBVIOUS
  <2> HIDE DEF T, R
  <2> QED BY <1>3, <2>1, WFMin
<1>5. PICK i \in S : \A j \in S : <<Up(j), Up(i)>> \notin R
  BY <1>4
<1>6. ASSUME NEW j \in S, i < j PROVE FALSE
  <2>1. i \in Int /\ j \in Int /\ ~(j < j) /\ \A x \in S : j < x => i < x
    BY <1>2, <1>6
  <2>2. Up(j) \subseteq Up(i) /\ j \in Up(i) /\ j \notin Up(j) /\ Up(i) \subseteq S
    BY <1>6, <2>1
  <2>3. <<Up(j), Up(i)>> \in R
    BY <2>2 DEF StrictSubsetOrdering
  <2>4. QED
    BY <2>3, <1>5
<1>7. \A j \in S : j <= i
  BY <1>2, <1>6
<1>8. QED
  BY <1>7 DEF Greatest

\* The greatest id is the one that no id is greater than.
LEMMA GreatestIs ==
    ASSUME NEW S \in SUBSET Ids, NEW i \in S, \A j \in S : j <= i
    PROVE  Greatest(S) = i
<1>1. Greatest(S) \in S /\ i <= Greatest(S)
  BY GreatestExists
<1>2. Greatest(S) <= i
  BY <1>1
<1>3. i \in Int /\ Greatest(S) \in Int
  <2>1. i \in Ids /\ Greatest(S) \in Ids
    BY <1>1
  <2>2. \A j \in Ids : j \in Int
    BY StagesAssumption DEF Ids, Plain
  <2>3. QED
    BY <2>1, <2>2
<1>4. QED
  BY <1>1, <1>2, <1>3

-----------------------------------------------------------------------------
TypeInv ==
    /\ TypeOK
    /\ pc # "down" => ctx \in 1..MaxRuns /\ mem.id \in Ids
    /\ pc \in {"stage", "clean", "vocab", "merges", "model", "train", "sum", "sealed"} => mem.id = ctx /\ ctx \in 1..runs
    /\ pc = "cleaner" => mem.id \in (1..runs) \cup {Plain}
    /\ Written \subseteq (1..runs) \cup {Plain}
    /\ pc = "train" => \E i \in 1..MaxRuns : vocab[i] # None

LEMMA Typed ==
    ASSUME TypeInv
    PROVE  /\ MaxRuns \in Nat /\ runs \in 0..MaxRuns
           /\ Written \in SUBSET Ids /\ Written \subseteq (1..runs) \cup {Plain}
           /\ Plain \in Ids /\ Ids \subseteq Nat
           /\ files \in [Ids -> (SUBSET StageNames) \cup {Absent}]
           /\ mem \in [id : 0..Plain, done : SUBSET StageNames]
<1>1. MaxRuns \in Nat /\ Plain \in Ids /\ Ids \subseteq Nat
  BY StagesAssumption DEF Ids, Plain
<1>2. /\ runs \in 0..MaxRuns /\ files \in [Ids -> (SUBSET StageNames) \cup {Absent}]
      /\ mem \in [id : 0..Plain, done : SUBSET StageNames] /\ Written \subseteq (1..runs) \cup {Plain}
  BY DEF TypeInv, TypeOK
<1>3. Written \in SUBSET Ids
  BY DEF Written
<1>4. QED
  BY <1>1, <1>2, <1>3

ExcuseNames == {"run id", "no id", "older", "early", "cleaner", "finetune", "torn", "skip", "errors", "unsealed",
                "resized"}

\* A file is absent, or holds a set of stages: never both.
LEMMA NotAbsent == \A S \in SUBSET StageNames : S # Absent
<1>1. "no file" \notin StageNames
  BY DEF StageNames
<1>2. QED
  BY <1>1 DEF Absent

LEMMA LoadedType ==
    ASSUME TypeInv
    PROVE  /\ Loaded \in SUBSET StageNames
           /\ LoadedId \in Ids /\ (Written # {} => LoadedId \in Written)
           /\ runs < MaxRuns => Context \in 1..(runs + 1)
<1>1. CASE Written = {}
  <2>1. Loaded = {} /\ LoadedId = Plain
    BY <1>1 DEF Loaded, LoadedId
  <2>2. Context = runs + 1
    BY <1>1 DEF Context
  <2>3. QED
    BY <1>1, <2>1, <2>2, Typed
<1>2. CASE Written # {}
  <2>1. Greatest(Written) \in Written
    BY <1>2, Typed, GreatestExists
  <2>2. Loaded \in SUBSET StageNames
    <3>1. Greatest(Written) \in Ids /\ files[Greatest(Written)] # Absent
      BY <2>1 DEF Written
    <3>2. files[Greatest(Written)] \in SUBSET StageNames
      <4>1. files \in [Ids -> (SUBSET StageNames) \cup {Absent}]
        BY Typed
      <4>2. files[Greatest(Written)] \in (SUBSET StageNames) \cup {Absent}
        BY <3>1, <4>1
      <4>3. QED
        BY <3>1, <4>2
    <3>3. QED
      BY <1>2, <3>2 DEF Loaded
  <2>3. Written \ {Plain} # {} => Greatest(Written \ {Plain}) \in Written \ {Plain}
    BY Typed, GreatestExists
  <2>4. Context \in (1..runs) \cup {runs + 1}
    BY <2>3, Typed DEF Context
  <2>5. QED
    BY <1>2, <2>1, <2>2, <2>4, Typed DEF LoadedId
<1>3. QED
  BY <1>1, <1>2

\* The state of a run id, which may have none.
LEMMA StateOfType == ASSUME TypeInv, NEW id PROVE StateOf(id) \in SUBSET StageNames
<1>1. CASE id \in Written
  <2>1. id \in Ids /\ files[id] # Absent /\ StateOf(id) = files[id]
    BY <1>1 DEF Written, StateOf
  <2>2. files[id] \in (SUBSET StageNames) \cup {Absent}
    BY <2>1, Typed
  <2>3. QED
    BY <2>1, <2>2
<1>2. CASE id \notin Written
  BY <1>2 DEF StateOf
<1>3. QED
  BY <1>1, <1>2

\* What a save leaves written.
LEMMA SaveType ==
    ASSUME TypeInv, NEW id \in Ids, NEW S \in SUBSET StageNames, Save(id, S)
    PROVE  /\ files' \in [Ids -> (SUBSET StageNames) \cup {Absent}]
           /\ files'[id] = S /\ \A i \in Ids \ {id} : files'[i] = files[i]
           /\ Written' = Written \cup {id}
BY Typed, NotAbsent DEF Save, Written

\* The end of a process, and what a save under its run id leaves.
LEMMA EndsType ==
    ASSUME TypeInv, Ends, UNCHANGED <<artefacts, runs>>, done' \in SUBSET StageNames, repeated' \in BOOLEAN,
           mixed' \in BOOLEAN, finished' \in BOOLEAN, excuses' \subseteq ExcuseNames,
           files' \in [Ids -> (SUBSET StageNames) \cup {Absent}], Written' \subseteq (1..runs) \cup {Plain}
    PROVE  TypeInv'
<1>1. pc' = "down" /\ ctx' = 0 /\ mem' = Idle /\ left' = {} /\ k' = 0
  BY DEF Ends
<1>2. mem' \in [id : 0..Plain, done : SUBSET StageNames] /\ 0 \in 0..MaxRuns /\ 0 \in 0..RawFiles
  BY <1>1, StagesAssumption DEF Idle, Plain
<1>3. QED
  BY <1>1, <1>2 DEF TypeInv, TypeOK, ExcuseNames, artefacts, tokenizer, trained

LEMMA InitType == Init => TypeInv
<1> SUFFICES ASSUME Init PROVE TypeInv
  OBVIOUS
<1>1. Written = {}
  BY DEF Init, Written
<1>2. mem \in [id : 0..Plain, done : SUBSET StageNames] /\ ctx \in 0..MaxRuns /\ k \in 0..RawFiles /\ runs \in 0..MaxRuns
  BY StagesAssumption DEF Init, Idle, Plain
<1>3. files \in [Ids -> (SUBSET StageNames) \cup {Absent}]
  BY DEF Init
<1>4. vocab \in [1..MaxRuns -> 0..MaxRuns] /\ merges \in [1..MaxRuns -> 0..MaxRuns]
  BY StagesAssumption DEF Init, None
<1>8. /\ size \in [1..MaxRuns -> Sizes \cup {0}] /\ best \in [1..MaxRuns -> [size : Sizes \cup {0}, sealed : BOOLEAN]]
      /\ position \in BOOLEAN
  BY DEF Init, NoModel
<1>5. pc = "down" /\ ctx = 0 /\ left \subseteq StageNames /\ cleaned \subseteq (1..MaxRuns) \X (1..RawFiles)
      /\ done \subseteq StageNames
  BY DEF Init
<1>6. repeated \in BOOLEAN /\ mixed \in BOOLEAN /\ finished \in BOOLEAN /\ excuses \subseteq ExcuseNames
  BY DEF Init
<1>7. QED
  BY <1>1, <1>2, <1>3, <1>4, <1>5, <1>6, <1>8 DEF TypeInv, TypeOK, ExcuseNames

LEMMA StartType ==
    ASSUME TypeInv, NEW id \in 1..(runs + 1), NEW force \in SUBSET StageNames, NEW skip \in SUBSET StageNames,
           NEW only \in SUBSET StageNames, Start(id, force, skip, only)
    PROVE  TypeInv'
<1>a. runs \in Nat /\ MaxRuns \in Nat
  BY Typed
<1>1. /\ runs < MaxRuns /\ runs' = runs + 1 /\ ctx' = id /\ pc' = "stage"
      /\ mem' = [id |-> id, done |-> (Loaded \ force) \cup skip] /\ left' = only /\ k' = 0
      /\ done' = done \ force /\ UNCHANGED <<files, artefacts, repeated, mixed, finished>>
  BY DEF Start, Live
<1>2. runs' \in 0..MaxRuns /\ id \in 1..MaxRuns /\ id \in 0..MaxRuns /\ id \in Ids /\ id \in 0..Plain /\ id \in 1..runs'
      /\ 0 \in 0..RawFiles
  BY <1>1, <1>a, StagesAssumption DEF Ids, Plain
<1>3. mem' \in [id : 0..Plain, done : SUBSET StageNames]
  BY <1>1, <1>2, LoadedType
<1>4. Written' = Written /\ (1..runs) \subseteq 1..runs'
  BY <1>1, <1>a DEF Written
<1>5. excuses' \subseteq ExcuseNames
  BY DEF Start, TypeInv, TypeOK, ExcuseNames
<1>6. QED
  BY <1>1, <1>2, <1>3, <1>4, <1>5 DEF TypeInv, TypeOK, ExcuseNames, artefacts, tokenizer, trained

LEMMA BeginStarts ==
    ASSUME TypeInv, Begin
    PROVE  \E id \in 1..(runs + 1), force, skip, only \in SUBSET StageNames : Start(id, force, skip, only)
<1>1. runs < MaxRuns
  BY DEF Begin, Start, Live
<1>2. Context \in 1..(runs + 1) /\ (1..runs) \subseteq 1..(runs + 1)
  BY <1>1, LoadedType, Typed
<1>3. QED
  BY <1>2 DEF Begin

\* A stage is done: the state is saved under the process's run id.
LEMMA CompletesType ==
    ASSUME TypeInv, NEW s \in StageNames, Completes(s), pc \in {"clean", "merges", "train", "sealed"}
    PROVE  /\ mem' = [mem EXCEPT !.done = @ \cup {s}] /\ mem'.id = mem.id /\ mem'.done = mem.done \cup {s}
           /\ mem' \in [id : 0..Plain, done : SUBSET StageNames] /\ mem'.done \in SUBSET StageNames
           /\ done' = done \cup mem'.done /\ pc' = "stage" /\ Save(mem.id, mem'.done)
           /\ files' \in [Ids -> (SUBSET StageNames) \cup {Absent}] /\ files'[mem.id] = mem'.done
           /\ Written' = Written \cup {mem.id} /\ mem.id \in 1..runs /\ mem.id = ctx
<1>1. /\ mem' = [mem EXCEPT !.done = @ \cup {s}] /\ done' = done \cup mem'.done /\ pc' = "stage"
      /\ Save(mem.id, mem'.done)
  BY DEF Completes
<1>2. /\ mem'.id = mem.id /\ mem'.done = mem.done \cup {s} /\ mem' \in [id : 0..Plain, done : SUBSET StageNames]
      /\ mem'.done \in SUBSET StageNames
  BY <1>1, Typed
<1>3. mem.id \in Ids /\ mem.id = ctx /\ mem.id \in 1..runs
  BY DEF TypeInv
<1>4. QED
  BY <1>1, <1>2, <1>3, SaveType

LEMMA CompletingType ==
    ASSUME TypeInv, CleanEnds \/ WriteMerges \/ TrainEnds
    PROVE  TypeInv'
<1>1. PICK s \in {"clean", "tokenizer", "model"} : Completes(s) /\ pc \in {"clean", "merges", "train", "sealed"}
  BY DEF CleanEnds, WriteMerges, TrainEnds
<1>2. /\ mem'.id = mem.id /\ mem' \in [id : 0..Plain, done : SUBSET StageNames] /\ mem'.done \in SUBSET StageNames
      /\ done' = done \cup mem'.done /\ pc' = "stage"
      /\ files' \in [Ids -> (SUBSET StageNames) \cup {Absent}]
      /\ Written' = Written \cup {mem.id} /\ mem.id \in 1..runs /\ mem.id = ctx
  BY <1>1, CompletesType DEF StageNames
<1>3. UNCHANGED <<ctx, left, runs, cleaned, vocab, size, best, position, repeated, finished, excuses>>
  BY DEF CleanEnds, WriteMerges, TrainEnds, artefacts, tokenizer, trained
<1>4. merges' \in [1..MaxRuns -> 0..MaxRuns] /\ k' \in 0..RawFiles /\ mixed' \in BOOLEAN
  <2>1. ctx \in 1..MaxRuns /\ runs \in 0..MaxRuns /\ 0 \in 0..RawFiles
    <3>1. pc # "down" /\ 0 \in 0..RawFiles
      BY <1>1, StagesAssumption
    <3>2. QED
      BY <3>1, Typed DEF TypeInv
  <2>2. QED
    BY <2>1 DEF CleanEnds, WriteMerges, TrainEnds, TypeInv, TypeOK, artefacts, tokenizer
<1>5. done' \in SUBSET StageNames /\ Written' \subseteq (1..runs) \cup {Plain}
  BY <1>2 DEF TypeInv, TypeOK
<1>6. QED
  BY <1>1, <1>2, <1>3, <1>4, <1>5 DEF TypeInv, TypeOK

LEMMA StageNamesOf == \A S : First(S) \in StageNames
BY DEF First, StageNames

\* What the training of the model does before it ends.
Trains == TrainModel \/ SavePosition \/ SaveModel \/ SealModel

\* The vocabulary that is there has the size of its training.
LEMMA SizeType == ASSUME TypeInv, pc = "train" PROVE VocabSize \in Sizes \cup {0}
<1>1. Present(vocab) \in SUBSET Ids /\ Present(vocab) # {}
  <2>1. 1..MaxRuns \subseteq Ids
    BY StagesAssumption DEF Ids, Plain
  <2>2. QED
    BY <2>1 DEF TypeInv, Present
<1>2. Greatest(Present(vocab)) \in Present(vocab)
  BY <1>1, GreatestExists
<1>3. /\ vocab \in [1..MaxRuns -> 0..MaxRuns] /\ size \in [1..MaxRuns -> Sizes \cup {0}]
      /\ MaxRuns \in Nat
  BY StagesAssumption DEF TypeInv, TypeOK
<1>4. vocab[Greatest(Present(vocab))] \in 1..MaxRuns
  <2>1. Greatest(Present(vocab)) \in 1..MaxRuns /\ vocab[Greatest(Present(vocab))] # 0
    BY <1>2 DEF Present, None
  <2>2. vocab[Greatest(Present(vocab))] \in 0..MaxRuns
    BY <1>3, <2>1
  <2>3. QED
    BY <1>3, <2>1, <2>2
<1>5. QED
  BY <1>3, <1>4 DEF VocabSize

LEMMA WorkingType ==
    ASSUME TypeInv, Stage \/ CleanFile \/ WriteVocab \/ CleanerFile \/ Trains
    PROVE  TypeInv'
<1>1. UNCHANGED <<ctx, mem, files, merges, runs, done, finished>> /\ Written' = Written
  BY DEF Stage, CleanFile, WriteVocab, CleanerFile, Trains, TrainModel, SavePosition, SaveModel, SealModel, artefacts,
         tokenizer, history, process, Written
<1>2. CASE Stage
  <2>1. pc = "stage" /\ left' \subseteq left /\ UNCHANGED <<k, cleaned, vocab, size, best, position, mixed, excuses>>
    BY <1>2 DEF Stage, artefacts, tokenizer, trained
  <2>4. pc' \in {"stage", "clean", "vocab", "model"}
    <3>1. First(left) = "clean" \/ First(left) = "tokenizer" \/ First(left) = "model"
      BY StageNamesOf DEF StageNames
    <3>2. CASE First(left) \in mem.done
      BY <1>2, <2>1, <3>2 DEF Stage
    <3>3. CASE First(left) \notin mem.done
      BY <1>2, <3>1, <3>3 DEF Stage
    <3>4. QED
      BY <3>2, <3>3
  <2>2. repeated' \in BOOLEAN
    BY <1>2 DEF Stage, TypeInv, TypeOK
  <2>3. QED
    BY <1>1, <2>1, <2>2, <2>4 DEF TypeInv, TypeOK
<1>3. CASE CleanFile \/ CleanerFile
  <2>1. /\ pc \in {"clean", "cleaner"} /\ k < RawFiles /\ k' = k + 1 /\ pc' = pc
        /\ UNCHANGED <<left, vocab, size, best, position, repeated, mixed>>
        /\ cleaned' \in {cleaned, cleaned \cup {<<ctx, k + 1>>}}
        /\ excuses' \in {excuses, excuses \cup {"errors"}}
    BY <1>3 DEF CleanFile, CleanerFile, history, tokenizer, trained
  <2>2. ctx \in 1..MaxRuns /\ k \in 0..RawFiles /\ RawFiles \in Nat
    BY <2>1, StagesAssumption DEF TypeInv, TypeOK
  <2>3. k + 1 \in 1..RawFiles /\ k + 1 \in 0..RawFiles
    BY <2>1, <2>2
  <2>4. cleaned' \subseteq (1..MaxRuns) \X (1..RawFiles) /\ excuses' \subseteq ExcuseNames
    <3>1. cleaned' \subseteq (1..MaxRuns) \X (1..RawFiles)
      <4>1. <<ctx, k + 1>> \in (1..MaxRuns) \X (1..RawFiles)
        BY <2>2, <2>3
      <4>2. cleaned \subseteq (1..MaxRuns) \X (1..RawFiles)
        BY DEF TypeInv, TypeOK
      <4>3. QED
        BY <2>1, <4>1, <4>2
    <3>2. excuses' \subseteq ExcuseNames
      BY <2>1 DEF TypeInv, TypeOK, ExcuseNames
    <3>3. QED
      BY <3>1, <3>2
  <2>5. QED
    <3>1. k' \in 0..RawFiles /\ repeated' \in BOOLEAN /\ pc' = pc /\ Written' = Written
      BY <1>1, <2>1, <2>3 DEF TypeInv, TypeOK
    <3>2. QED
      BY <1>1, <2>1, <2>4, <3>1 DEF TypeInv, TypeOK, ExcuseNames
<1>4. CASE WriteVocab
  <2>1. vocab' \in [1..MaxRuns -> 0..MaxRuns] /\ size' \in [1..MaxRuns -> Sizes \cup {0}]
    <3>1. ctx \in 1..MaxRuns /\ runs \in 0..MaxRuns
      BY <1>4 DEF WriteVocab, TypeInv, TypeOK
    <3>2. vocab' = [vocab EXCEPT ![ctx] = runs] /\ \E n \in Sizes : size' = [size EXCEPT ![runs] = n]
      BY <1>4 DEF WriteVocab
    <3>3. QED
      BY <3>1, <3>2 DEF TypeInv, TypeOK
  <2>2. excuses' \subseteq ExcuseNames
    BY <1>4 DEF WriteVocab, TypeInv, TypeOK, ExcuseNames
  <2>3. pc = "vocab" /\ pc' = "merges" /\ UNCHANGED <<left, k, cleaned, best, position, repeated, mixed>>
    BY <1>4 DEF WriteVocab, process, trained
  <2>4. QED
    BY <1>1, <2>1, <2>2, <2>3 DEF TypeInv, TypeOK, ExcuseNames
<1>5. CASE Trains
  <2>1. /\ pc \in {"model", "train", "sum", "sealed"} /\ pc' \in {"train", "sum", "sealed"}
        /\ UNCHANGED <<left, k, cleaned, vocab, size, repeated, excuses>>
    BY <1>5 DEF Trains, TrainModel, SavePosition, SaveModel, SealModel, process, artefacts, tokenizer, history
  <2>2. mixed' \in BOOLEAN /\ position' \in BOOLEAN
    BY <1>5 DEF Trains, TrainModel, SavePosition, SaveModel, SealModel, TypeInv, TypeOK, artefacts, trained, history
  <2>3. best' \in [1..MaxRuns -> [size : Sizes \cup {0}, sealed : BOOLEAN]]
    <3>1. best \in [1..MaxRuns -> [size : Sizes \cup {0}, sealed : BOOLEAN]]
      BY DEF TypeInv, TypeOK
    <3>2. CASE TrainModel \/ SavePosition
      BY <3>1, <3>2 DEF TrainModel, SavePosition, artefacts, trained
    <3>3. CASE SaveModel
      <4>1. VocabSize \in Sizes \cup {0} /\ best' = [best EXCEPT ![ctx] = [size |-> VocabSize, sealed |-> FALSE]]
        BY <3>3, SizeType DEF SaveModel
      <4>2. QED
        BY <3>1, <4>1
    <3>4. CASE SealModel
      BY <3>1, <3>4 DEF SealModel
    <3>5. QED
      BY <1>5, <3>2, <3>3, <3>4 DEF Trains
  <2>4. pc' = "train" => \E i \in 1..MaxRuns : vocab'[i] # None
    <3>1. CASE TrainModel
      BY <2>1, <3>1 DEF TrainModel, TokenizerLoads, Present
    <3>2. CASE SavePosition
      BY <2>1, <3>2 DEF SavePosition, TypeInv
    <3>3. CASE SaveModel \/ SealModel
      BY <3>3 DEF SaveModel, SealModel
    <3>4. QED
      BY <1>5, <3>1, <3>2, <3>3 DEF Trains
  <2>5. QED
    BY <1>1, <2>1, <2>2, <2>3, <2>4 DEF TypeInv, TypeOK
<1>6. QED
  BY <1>2, <1>3, <1>4, <1>5

LEMMA EndingType ==
    ASSUME TypeInv, Finish \/ StageFails \/ CleanerEnds \/ Killed
    PROVE  TypeInv'
<1>1. /\ Ends /\ UNCHANGED <<artefacts, runs, repeated, mixed>> /\ pc # "down"
      /\ finished' \in BOOLEAN /\ excuses' \subseteq ExcuseNames
  BY DEF Finish, StageFails, CleanerEnds, Killed, BrokenOff, TypeInv, TypeOK, ExcuseNames
<1>2. mem.id \in Ids /\ mem.done \in SUBSET StageNames /\ mem.id \in (1..runs) \cup {Plain}
  BY <1>1 DEF TypeInv, TypeOK
<1>3. done' \in SUBSET StageNames
  BY <1>2 DEF Finish, StageFails, CleanerEnds, Killed, TypeInv, TypeOK, StageNames
<1>4. files' = files \/ (\E S \in SUBSET StageNames : Save(mem.id, S))
  <2>1. mem.done \cup {"clean"} \in SUBSET StageNames
    BY <1>2 DEF StageNames
  <2>2. QED
    BY <1>2, <2>1 DEF Finish, StageFails, CleanerEnds, Killed
<1>5. files' \in [Ids -> (SUBSET StageNames) \cup {Absent}] /\ Written' \subseteq (1..runs) \cup {Plain}
  <2>1. CASE files' = files
    BY <2>1 DEF TypeInv, TypeOK, Written
  <2>2. ASSUME NEW S \in SUBSET StageNames, Save(mem.id, S)
        PROVE  files' \in [Ids -> (SUBSET StageNames) \cup {Absent}] /\ Written' \subseteq (1..runs) \cup {Plain}
    <3>1. files' \in [Ids -> (SUBSET StageNames) \cup {Absent}] /\ Written' = Written \cup {mem.id}
      BY <1>2, <2>2, SaveType
    <3>2. QED
      BY <1>2, <3>1, Typed
  <2>3. QED
    BY <1>4, <2>1, <2>2
<1>6. repeated' \in BOOLEAN /\ mixed' \in BOOLEAN
  BY <1>1 DEF TypeInv, TypeOK
<1>7. QED
  BY <1>1, <1>3, <1>5, <1>6, EndsType

LEMMA Ranges ==
    ASSUME NEW r \in Nat, NEW m \in Nat, r < m
    PROVE  /\ r + 1 \in 1..m /\ r + 1 \in 0..m /\ r + 1 \in 1..(m + 1) /\ r + 1 \in 1..(r + 1)
           /\ (1..r) \subseteq (1..(r + 1)) /\ (1..(m + 1)) \subseteq (0..(m + 1))
OBVIOUS

\* The programs that come and go in one step, and the start of the cleaner: each
\* saves a state.
LEMMA ProgramType ==
    ASSUME TypeInv, NEW s \in {"tokenizer", "model"}, CleanerStart \/ FailingProgram(s) \/ FinetuneStarts
    PROVE  TypeInv'
<1>a. runs \in Nat /\ MaxRuns \in Nat
  BY Typed
<1>b. runs < MaxRuns /\ runs' = runs + 1
  <2>1. runs + 1 < MaxRuns /\ runs' = runs + 1
    BY DEF CleanerStart, FailingProgram, FinetuneStarts
  <2>2. QED
    BY <1>a, <2>1
<1>1. /\ pc = "down" /\ UNCHANGED <<artefacts, repeated, mixed, finished>> /\ done' \subseteq done
      /\ excuses' \subseteq excuses \cup {"cleaner", "no id", "finetune", "older"}
  BY DEF CleanerStart, FailingProgram, FinetuneStarts
<1>2. Loaded \in SUBSET StageNames /\ LoadedId \in Ids /\ LoadedId \in (1..runs') \cup {Plain}
  <2>1. Loaded \in SUBSET StageNames /\ LoadedId \in Ids /\ (Written # {} => LoadedId \in Written)
    BY LoadedType
  <2>2. (1..runs) \subseteq (1..runs') /\ Written \subseteq (1..runs) \cup {Plain}
    <3>1. (1..runs) \subseteq (1..(runs + 1)) /\ runs' = runs + 1
      BY <1>a, <1>b, Ranges
    <3>2. QED
      BY <3>1, Typed
  <2>3. Written = {} => LoadedId = Plain
    BY DEF LoadedId
  <2>4. QED
    BY <2>1, <2>2, <2>3
<1>3. runs + 1 \in Ids /\ runs + 1 \in 1..runs' /\ runs + 1 \in 1..MaxRuns /\ runs + 1 \in 0..MaxRuns
      /\ (1..runs) \subseteq (1..runs') /\ Ids \subseteq (0..Plain) /\ 0 \in 0..RawFiles
  <2>1. Plain = MaxRuns + 1 /\ Ids = 1..(MaxRuns + 1) /\ 0 \in 0..RawFiles
    BY StagesAssumption DEF Ids, Plain
  <2>3. QED
    BY <1>a, <1>b, <2>1, Ranges
<1>4. \E id \in {LoadedId, runs + 1}, S \in SUBSET StageNames : Save(id, S)
  BY <1>2, StateOfType DEF CleanerStart, FailingProgram, FinetuneStarts
<1>5. files' \in [Ids -> (SUBSET StageNames) \cup {Absent}] /\ Written' \subseteq (1..runs') \cup {Plain}
  <2>1. PICK id \in {LoadedId, runs + 1}, S \in SUBSET StageNames : Save(id, S)
    BY <1>4
  <2>2. files' \in [Ids -> (SUBSET StageNames) \cup {Absent}] /\ Written' = Written \cup {id}
    BY <1>2, <1>3, <2>1, SaveType
  <2>3. QED
    BY <1>2, <1>3, <2>2, Typed
<1>6. done' \subseteq StageNames /\ excuses' \subseteq ExcuseNames /\ runs' \in 0..MaxRuns
  BY <1>1, <1>b, <1>3 DEF TypeInv, TypeOK, ExcuseNames
<1>7. CASE CleanerStart
  <2>1. /\ ctx' = runs + 1 /\ mem' = [id |-> LoadedId, done |-> Loaded \ {"clean"}]
        /\ k' = 0 /\ left' = {} /\ pc' = "cleaner"
    BY <1>7 DEF CleanerStart
  <2>2. mem' \in [id : 0..Plain, done : SUBSET StageNames] /\ mem'.id = LoadedId
    BY <1>2, <1>3, <2>1
  <2>3. QED
    BY <1>1, <1>2, <1>3, <1>5, <1>6, <2>1, <2>2 DEF TypeInv, TypeOK, ExcuseNames, artefacts, tokenizer, trained
<1>8. CASE FailingProgram(s) \/ FinetuneStarts
  <2>1. UNCHANGED <<pc, ctx, mem, left, k>>
    BY <1>8 DEF FailingProgram, FinetuneStarts, process
  <2>2. QED
    BY <1>1, <1>5, <1>6, <2>1 DEF TypeInv, TypeOK, ExcuseNames, artefacts, tokenizer, trained
<1>9. QED
  BY <1>7, <1>8 DEF CleanerStart, FailingProgram, FinetuneStarts

LEMMA TypePreserved == TypeInv /\ [Next]_vars => TypeInv'
<1> SUFFICES ASSUME TypeInv, [Next]_vars PROVE TypeInv'
  OBVIOUS
<1>1. CASE UNCHANGED vars
  BY <1>1 DEF vars, process, artefacts, tokenizer, trained, history, TypeInv, TypeOK, Written
<1>2. CASE Begin
  BY <1>2, BeginStarts, StartType
<1>3. CASE Steps
  BY <1>3, WorkingType, CompletingType, EndingType DEF Steps, Trains
<1>4. CASE CleanerStart \/ (\E s \in {"tokenizer", "model"} : FailingProgram(s)) \/ FinetuneStarts
  BY <1>4, ProgramType
<1>5. CASE Killed
  BY <1>5, EndingType
<1>6. QED
  BY <1>1, <1>2, <1>3, <1>4, <1>5 DEF Next

\* The type invariant of main_pipeline.py and the programs beside it.
THEOREM TypeCorrect == Spec => []TypeOK
<1>1. TypeInv => TypeOK
  BY DEF TypeInv
<1>2. QED
  BY <1>1, InitType, TypePreserved, PTL DEF Spec

\* Nothing takes an excuse back.
LEMMA ExcusesGrow == [Next]_vars => excuses \subseteq excuses'
<1> SUFFICES ASSUME [Next]_vars PROVE excuses \subseteq excuses'
  OBVIOUS
<1>1. CASE Begin
  BY <1>1 DEF Begin, Start
<1>2. CASE Steps
  BY <1>2 DEF Steps, Stage, CleanFile, CleanEnds, WriteVocab, WriteMerges, TrainModel, SavePosition, SaveModel,
              SealModel, TrainEnds, Finish, StageFails, CleanerFile, CleanerEnds, history
<1>3. CASE CleanerStart \/ (\E s \in {"tokenizer", "model"} : FailingProgram(s)) \/ FinetuneStarts \/ Killed
           \/ UNCHANGED vars
  BY <1>3 DEF CleanerStart, FailingProgram, FinetuneStarts, Killed, vars, history
<1>4. QED
  BY <1>1, <1>2, <1>3 DEF Next

-----------------------------------------------------------------------------
\* Vocabulary and merges of every run id are of the same training, but for the
\* one being written.
Paired ==
    /\ ~mixed
    /\ \A i \in 1..MaxRuns : pc # "merges" \/ i # ctx => vocab[i] = merges[i]
    /\ pc = "merges" => vocab[ctx] = runs

LEMMA PairedPreserved ==
    ASSUME TypeInv, Paired, [Next]_vars
    PROVE  Paired' \/ "torn" \in excuses'
<1>1. /\ pc # "down" => ctx \in 1..MaxRuns
      /\ vocab \in [1..MaxRuns -> 0..MaxRuns] /\ merges \in [1..MaxRuns -> 0..MaxRuns]
  BY DEF TypeInv, TypeOK
<1>2. CASE WriteVocab
  BY <1>1, <1>2 DEF WriteVocab, Paired, process, history
<1>3. CASE WriteMerges
  BY <1>1, <1>3 DEF WriteMerges, Completes, Paired
<1>4. CASE TrainModel
  <2>1. vocab = merges
    <3>1. \A i \in 1..MaxRuns : vocab[i] = merges[i]
      BY <1>4 DEF TrainModel, Paired
    <3>2. vocab = [i \in 1..MaxRuns |-> vocab[i]] /\ merges = [i \in 1..MaxRuns |-> merges[i]]
      BY <1>1
    <3>3. [i \in 1..MaxRuns |-> vocab[i]] = [i \in 1..MaxRuns |-> merges[i]]
      BY <3>1
    <3>4. QED
      BY <3>2, <3>3
  <2>2. vocab[Greatest(Present(vocab))] = merges[Greatest(Present(merges))]
    BY <2>1
  <2>3. UNCHANGED <<vocab, merges>> /\ pc' = "train"
    BY <1>4 DEF TrainModel, artefacts, tokenizer
  <2>5. mixed' = FALSE
    BY <1>4, <2>2 DEF TrainModel, Paired
  <2>4. QED
    BY <2>1, <2>3, <2>5 DEF Paired
<1>5. CASE StageFails \/ Killed
  <2>1. CASE pc = "merges"
    BY <1>5, <2>1 DEF StageFails, Killed, BrokenOff
  <2>2. CASE pc # "merges"
    BY <1>5, <2>2 DEF StageFails, Killed, Ends, Paired, artefacts, tokenizer
  <2>3. QED
    BY <2>1, <2>2
<1>6. CASE Stage \/ CleanFile \/ CleanEnds \/ Finish \/ CleanerFile \/ CleanerEnds \/ Begin \/ CleanerStart
           \/ SavePosition \/ SaveModel \/ SealModel \/ TrainEnds
           \/ (\E s \in {"tokenizer", "model"} : FailingProgram(s)) \/ FinetuneStarts \/ UNCHANGED vars
  <2>1. UNCHANGED <<vocab, merges, mixed>>
    BY <1>6 DEF Stage, CleanFile, CleanEnds, Finish, CleanerFile, CleanerEnds, Begin, Start, CleanerStart,
                SavePosition, SaveModel, SealModel, TrainEnds, FailingProgram, FinetuneStarts, vars, artefacts,
                tokenizer, history
  <2>2. (pc # "merges" /\ pc' # "merges") \/ UNCHANGED <<pc, ctx, runs>>
    <3>1. CASE Stage
      <4>1. First(left) = "clean" \/ First(left) = "tokenizer" \/ First(left) = "model"
        BY StageNamesOf DEF StageNames
      <4>2. pc = "stage" /\ pc' \in {"stage", "clean", "vocab", "model"}
        BY <3>1, <4>1 DEF Stage
      <4>3. QED
        BY <4>2
    <3>2. CASE CleanFile \/ CleanEnds \/ Finish \/ CleanerFile \/ CleanerEnds
      BY <3>2 DEF CleanFile, CleanEnds, Finish, Completes, CleanerFile, CleanerEnds, Ends
    <3>3. CASE Begin \/ CleanerStart
      BY <3>3 DEF Begin, Start, CleanerStart
    <3>7. CASE SavePosition \/ SaveModel \/ SealModel \/ TrainEnds
      BY <3>7 DEF SavePosition, SaveModel, SealModel, TrainEnds, Completes
    <3>4. CASE (\E s \in {"tokenizer", "model"} : FailingProgram(s)) \/ FinetuneStarts
      BY <3>4 DEF FailingProgram, FinetuneStarts, process
    <3>5. CASE UNCHANGED vars
      BY <3>5 DEF vars, process
    <3>6. QED
      BY <1>6, <3>1, <3>2, <3>3, <3>4, <3>5, <3>7
  <2>3. QED
    BY <2>1, <2>2 DEF Paired
<1>7. QED
  BY <1>2, <1>3, <1>4, <1>5, <1>6 DEF Next, Steps

\* A model is trained with a vocabulary and merges of one training, for any
\* number of processes, unless one was killed or failed between the two files.
THEOREM PairsMatch == Spec => []PairMatches
<1> DEFINE I == Paired \/ "torn" \in excuses
<1>1. Init => I
  BY DEF Init, Paired
<1>2. TypeInv /\ I /\ [Next]_vars => I'
  BY PairedPreserved, ExcusesGrow
<1>3. I => PairMatches
  BY DEF Paired, PairMatches
<1>4. QED
  BY <1>1, <1>2, <1>3, InitType, TypePreserved, PTL DEF Spec

-----------------------------------------------------------------------------
\* What is saved under the last of the ids is what is loaded next.
LEMMA SavedIsLoaded ==
    ASSUME TypeInv, NEW id \in Ids, NEW S \in SUBSET StageNames, Save(id, S), \A i \in Written : i <= id
    PROVE  Loaded' = S /\ Written' = Written \cup {id} /\ \A i \in Written' : i <= id
<1>1. files'[id] = S /\ Written' = Written \cup {id}
  BY SaveType
<1>2. Written' \in SUBSET Ids /\ id \in Written' /\ \A i \in Written' : i <= id
  <2>1. id \in Nat
    BY Typed
  <2>2. id <= id
    BY <2>1
  <2>3. QED
    BY <1>1, <2>2, Typed
<1>3. Greatest(Written') = id
  BY <1>2, GreatestIs
<1>4. Loaded' = files'[Greatest(Written')]
  <2>1. Written' # {}
    BY <1>2
  <2>2. QED
    BY <2>1 DEF Loaded, Greatest
<1>5. QED
  BY <1>1, <1>2, <1>3, <1>4

\* While no run id was chosen and no state was without one, the file of the
\* running process sorts last and what is loaded has all that was saved.
Latest ==
    /\ Plain \notin Written
    /\ done \subseteq Loaded
    /\ ~repeated
    /\ pc # "down" => done \subseteq mem.done
    /\ pc # "down" => mem.id \in Ids /\ mem.id # Plain
    /\ pc # "down" => \A i \in Written : i <= mem.id
IdLost == excuses \cap {"run id", "older", "no id"} # {}

LEMMA ContextLatest ==
    ASSUME TypeInv, Latest, runs < MaxRuns
    PROVE  Context \in Ids /\ Context # Plain /\ \A i \in Written : i <= Context
<1>1. Written \ {Plain} = Written
  BY DEF Latest
<1>2. CASE Written = {}
  <2>1. Context = runs + 1
    BY <1>1, <1>2 DEF Context
  <2>2. runs \in Nat /\ MaxRuns \in Nat
    BY Typed
  <2>3. QED
    BY <1>2, <2>1, <2>2, Ranges DEF Ids, Plain
<1>3. CASE Written # {}
  <2>1. Context = Greatest(Written)
    BY <1>1, <1>3 DEF Context
  <2>2. Greatest(Written) \in Written /\ \A i \in Written : i <= Greatest(Written)
    BY <1>3, Typed, GreatestExists
  <2>3. QED
    BY <2>1, <2>2, Typed DEF Latest
<1>4. QED
  BY <1>2, <1>3

\* A state that is loaded, or none, and saved again with a stage reset.
LEMMA LoadedLatest ==
    ASSUME TypeInv, Latest, LoadedId # Plain
    PROVE  LoadedId \in Written /\ LoadedId \in Ids /\ \A i \in Written : i <= LoadedId
<1>1. Written # {} /\ LoadedId = Greatest(Written)
  BY DEF LoadedId
<1>2. QED
  BY <1>1, Typed, GreatestExists

LEMMA LatestAfter ==
    ASSUME TypeInv, Latest, NEW id \in Ids, id # Plain, NEW S \in SUBSET StageNames, Save(id, S),
           \A i \in Written : i <= id, done' \subseteq S, repeated' = repeated,
           \/ pc' = "down"
           \/ mem'.id = id /\ mem'.done = S
    PROVE  Latest'
<1>1. Loaded' = S /\ Written' = Written \cup {id} /\ \A i \in Written' : i <= id
  BY SavedIsLoaded
<1>2. Plain' = Plain /\ Ids' = Ids
  BY DEF Plain, Ids
<1>3. QED
  BY <1>1, <1>2 DEF Latest

LEMMA LatestPreserved ==
    ASSUME TypeInv, Latest, [Next]_vars
    PROVE  Latest' \/ IdLost'
<1>1. CASE Begin
  <2>1. PICK id \in 1..(runs + 1), force \in SUBSET StageNames, skip \in SUBSET StageNames,
             only \in SUBSET StageNames : Start(id, force, skip, only)
    BY <1>1, BeginStarts
  <2>2. CASE id # Context
    BY <2>1, <2>2 DEF Start, IdLost
  <2>3. CASE id = Context
    <3>1. Context \in Ids /\ Context # Plain /\ \A i \in Written : i <= Context
      <4>1. runs < MaxRuns
        BY <2>1 DEF Start, Live
      <4>2. QED
        BY <4>1, ContextLatest
    <3>2. /\ mem' = [id |-> Context, done |-> (Loaded \ force) \cup skip] /\ done' = done \ force
          /\ files' = files /\ repeated' = repeated
      BY <2>1, <2>3 DEF Start
    <3>3. Loaded' = Loaded /\ Written' = Written /\ Plain' = Plain /\ Ids' = Ids
      BY <3>2 DEF Loaded, Written, Greatest, Plain, Ids
    <3>4. done' \subseteq mem'.done /\ mem'.id = Context
      BY <3>2 DEF Latest
    <3>5. QED
      BY <3>1, <3>2, <3>3, <3>4 DEF Latest
  <2>4. QED
    BY <2>2, <2>3
<1>2. CASE Stage
  <2>1. UNCHANGED <<files, mem, done>> /\ pc = "stage" /\ Plain' = Plain /\ Ids' = Ids
    BY <1>2 DEF Stage, Plain, Ids
  <2>2. Loaded' = Loaded /\ Written' = Written
    BY <2>1 DEF Loaded, Written, Greatest
  <2>3. repeated' = repeated
    <3>1. CASE First(left) \in mem.done
      BY <1>2, <3>1 DEF Stage
    <3>2. CASE First(left) \notin mem.done
      <4>1. First(left) \notin done
        BY <2>1, <3>2 DEF Latest
      <4>2. repeated' = (repeated \/ First(left) \in done)
        BY <1>2, <3>2 DEF Stage
      <4>3. repeated = FALSE /\ repeated' = FALSE
        BY <4>1, <4>2 DEF Latest, TypeInv, TypeOK
      <4>4. QED
        BY <4>3
    <3>3. QED
      BY <3>1, <3>2
  <2>4. QED
    BY <2>1, <2>2, <2>3 DEF Latest
<1>3. CASE CleanFile \/ WriteVocab \/ CleanerFile \/ Trains \/ UNCHANGED vars
  <2>1. UNCHANGED <<files, mem, done, repeated>> /\ (pc' = "down" <=> pc = "down")
    BY <1>3 DEF CleanFile, WriteVocab, CleanerFile, Trains, TrainModel, SavePosition, SaveModel, SealModel, vars,
                process, history
  <2>2. Loaded' = Loaded /\ Written' = Written /\ Plain' = Plain /\ Ids' = Ids
    BY <2>1 DEF Loaded, Written, Greatest, Plain, Ids
  <2>3. QED
    BY <2>1, <2>2 DEF Latest
<1>4. CASE CleanEnds \/ WriteMerges \/ TrainEnds
  <2>1. PICK s \in StageNames : Completes(s) /\ pc \in {"clean", "merges", "train", "sealed"}
    BY <1>4 DEF CleanEnds, WriteMerges, TrainEnds, StageNames
  <2>2. repeated' = repeated
    BY <1>4 DEF CleanEnds, WriteMerges, TrainEnds
  <2>3. /\ mem'.id = mem.id /\ mem'.done = mem.done \cup {s} /\ mem'.done \in SUBSET StageNames
        /\ done' = done \cup mem'.done /\ Save(mem.id, mem'.done)
    BY <2>1, CompletesType
  <2>4. done' \subseteq mem'.done /\ mem.id \in Ids /\ mem.id # Plain /\ \A i \in Written : i <= mem.id
    BY <2>1, <2>3 DEF Latest
  <2>5. QED
    BY <2>2, <2>3, <2>4, LatestAfter
<1>5. CASE StageFails \/ CleanerEnds
  <2>1. /\ pc # "down" /\ pc' = "down" /\ repeated' = repeated
    BY <1>5 DEF StageFails, CleanerEnds, Ends
  <2>2. /\ mem.done \in SUBSET StageNames
        /\ mem.id \in Ids /\ mem.id # Plain
        /\ done \subseteq mem.done
        /\ \A i \in Written : i <= mem.id
    BY <2>1, Typed DEF Latest
  <2>3. CASE StageFails
    <3>1. Save(mem.id, mem.done) /\ done' = done \cup mem.done
      BY <2>3 DEF StageFails
    <3>2. QED
      BY <2>1, <2>2, <3>1, LatestAfter
  <2>4. CASE CleanerEnds
    <3>1. /\ Save(mem.id, mem.done \cup {"clean"}) /\ done' = done \cup {"clean"}
          /\ mem.done \cup {"clean"} \in SUBSET StageNames
      BY <2>2, <2>4 DEF CleanerEnds, StageNames
    <3>2. done' \subseteq mem.done \cup {"clean"}
      BY <2>2, <3>1
    <3>3. QED
      BY <2>1, <2>2, <3>1, <3>2, LatestAfter
  <2>5. QED
    BY <1>5, <2>3, <2>4
<1>6. CASE Finish \/ Killed
  <2>1. UNCHANGED <<files, done, repeated>> /\ pc' = "down"
    BY <1>6 DEF Finish, Killed, Ends
  <2>2. Loaded' = Loaded /\ Written' = Written /\ Plain' = Plain /\ Ids' = Ids
    BY <2>1 DEF Loaded, Written, Greatest, Plain, Ids
  <2>3. QED
    BY <2>1, <2>2 DEF Latest
<1>7. CASE CleanerStart \/ (\E s \in {"tokenizer", "model"} : FailingProgram(s))
  <2>1. CASE LoadedId = Plain
    BY <1>7, <2>1 DEF CleanerStart, FailingProgram, IdLost
  <2>2. CASE LoadedId # Plain
    <3>1. LoadedId \in Ids /\ \A i \in Written : i <= LoadedId
      BY <2>2, LoadedLatest
    <3>2. PICK s \in StageNames :
             /\ Save(LoadedId, Loaded \ {s}) /\ done' = done \ {s} /\ repeated' = repeated
             /\ \/ pc' = "down"
                \/ mem'.id = LoadedId /\ mem'.done = Loaded \ {s}
      <4>1. CASE CleanerStart
        <5>1. "clean" \in StageNames
          BY DEF StageNames
        <5>2. /\ Save(LoadedId, Loaded \ {"clean"}) /\ done' = done \ {"clean"} /\ repeated' = repeated
              /\ mem' = [id |-> LoadedId, done |-> Loaded \ {"clean"}]
          BY <4>1 DEF CleanerStart
        <5>3. mem'.id = LoadedId /\ mem'.done = Loaded \ {"clean"}
          BY <5>2
        <5>4. QED
          BY <5>1, <5>2, <5>3
      <4>2. CASE \E s \in {"tokenizer", "model"} : FailingProgram(s)
        BY <4>2 DEF FailingProgram, StageNames
      <4>3. QED
        BY <1>7, <4>1, <4>2
    <3>3. Loaded \ {s} \in SUBSET StageNames /\ done' \subseteq Loaded \ {s}
      BY <3>2, LoadedType DEF Latest
    <3>4. QED
      BY <2>2, <3>1, <3>2, <3>3, LatestAfter
  <2>3. QED
    BY <2>1, <2>2
<1>8. CASE FinetuneStarts
  <2>0. PICK state \in {Loaded} \cup {StateOf(id) : id \in 1..(runs + 1)} :
           Save(runs + 1, state) /\ (state # Loaded => "older" \in excuses')
    BY <1>8 DEF FinetuneStarts
  <2>5. CASE state # Loaded
    BY <2>0, <2>5 DEF IdLost
  <2>6. CASE state = Loaded
  <3> USE <2>6
  <3>1. pc' = "down" /\ Save(runs + 1, Loaded) /\ done' = done /\ repeated' = repeated /\ runs + 1 < MaxRuns
    BY <1>8, <2>0 DEF FinetuneStarts, process
  <3>2. runs + 1 \in Ids /\ runs + 1 # Plain /\ \A i \in Written : i <= runs + 1
    <4>1. runs \in Nat /\ MaxRuns \in Nat /\ runs < MaxRuns
      <5>1. runs \in Nat /\ MaxRuns \in Nat
        BY Typed
      <5>2. QED
        BY <3>1, <5>1
    <4>2. \A i \in Written : i \in 1..runs
      BY Typed DEF Latest
    <4>3. \A i \in 1..runs : i <= runs + 1
      BY <4>1
    <4>4. runs + 1 \in Ids /\ runs + 1 # Plain
      BY <3>1, <4>1 DEF Ids, Plain
    <4>5. QED
      BY <4>2, <4>3, <4>4
  <3>3. Loaded \in SUBSET StageNames /\ done' \subseteq Loaded
    BY <3>1, LoadedType DEF Latest
  <3>4. QED
    BY <3>1, <3>2, <3>3, LatestAfter
  <2>7. QED
    BY <2>5, <2>6
<1>9. QED
  BY <1>1, <1>2, <1>3, <1>4, <1>5, <1>6, <1>7, <1>8 DEF Next, Steps, Trains

\* What main_pipeline.py saved as done it does not do again, for any number of
\* processes: it loads what was saved last, unless --run-id saved it elsewhere
\* or an older state after it, or a state without a run id is there.
THEOREM NothingRepeated == Spec => []RepeatsExplained
<1> DEFINE I == Latest \/ IdLost
<1>1. Init => I
  <2>1. Init => Written = {}
    BY DEF Init, Written
  <2>2. Init => Latest
    BY <2>1 DEF Init, Latest, Loaded
  <2>3. QED
    BY <2>2
<1>2. TypeInv /\ I /\ [Next]_vars => I'
  <2>1. IdLost /\ [Next]_vars => IdLost'
    BY ExcusesGrow DEF IdLost
  <2>2. QED
    BY <2>1, LatestPreserved
<1>3. I => RepeatsExplained
  BY DEF Latest, IdLost, RepeatsExplained
<1>4. QED
  BY <1>1, <1>2, <1>3, InitType, TypePreserved, PTL DEF Spec

-----------------------------------------------------------------------------
\* While nothing has lost the run id, all the runs have one, which the cleaned
\* files are of; within the clean stage it may not have been saved yet.
Named == Written \ {Plain}
OneId ==
    /\ \A i, j \in Named : i = j
    /\ pc = "clean" => \A a \in cleaned : a[1] = ctx
    /\ pc # "clean" => \A a \in cleaned : a[1] \in Named
    /\ pc # "down" => pc # "cleaner" /\ Named \subseteq {ctx}
IdChanged == excuses \cap {"run id", "early", "cleaner", "finetune"} # {}

LEMMA ContextNamed ==
    ASSUME TypeInv, OneId
    PROVE  Named \subseteq {Context}
<1>1. CASE Named = {}
  BY <1>1
<1>2. CASE Named # {}
  <2>1. Named \in SUBSET Ids
    BY DEF Named, Written
  <2>2. Greatest(Named) \in Named
    BY <1>2, <2>1, GreatestExists
  <2>3. Context = Greatest(Named)
    BY <1>2 DEF Context, Named
  <2>4. QED
    BY <2>2, <2>3 DEF OneId
<1>3. QED
  BY <1>1, <1>2

\* A save under the process's run id leaves that id alone.
LEMMA OneIdSaved ==
    ASSUME TypeInv, OneId, pc # "down", NEW S \in SUBSET StageNames, Save(mem.id, S), mem.id = ctx, ctx \in 1..runs,
           cleaned' = cleaned, pc' \in {"stage", "down"}, pc' = "down" \/ ctx' = ctx
    PROVE  OneId'
<1>1. ctx \in Ids /\ ctx # Plain /\ Plain' = Plain
  <2>1. runs \in 0..MaxRuns /\ MaxRuns \in Nat
    BY Typed
  <2>2. ctx \in 1..MaxRuns
    BY <2>1
  <2>3. QED
    BY <2>1, <2>2 DEF Ids, Plain
<1>2. Written' = Written \cup {ctx}
  BY <1>1, SaveType
<1>3. Named' = {ctx}
  <2>1. Named \subseteq {ctx}
    BY DEF OneId
  <2>2. Named' = Named \cup {ctx}
    BY <1>1, <1>2 DEF Named
  <2>3. QED
    BY <2>1, <2>2
<1>4. \A a \in cleaned : a[1] = ctx
  BY DEF OneId
<1>5. QED
  BY <1>3, <1>4 DEF OneId

\* Where the run id of the cleaned files is not that of a running main_pipeline.py
\* that has come past the cleaning.
Outside == {"down", "clean", "cleaner"}

LEMMA OneIdPreserved ==
    ASSUME TypeInv, OneId, [Next]_vars
    PROVE  OneId' \/ IdChanged'
<1>1. CASE Begin
  <2>1. PICK id \in 1..(runs + 1), force \in SUBSET StageNames, skip \in SUBSET StageNames,
             only \in SUBSET StageNames : Start(id, force, skip, only)
    BY <1>1, BeginStarts
  <2>2. CASE id # Context
    BY <2>1, <2>2 DEF Start, IdChanged
  <2>3. CASE id = Context
    <3>1. UNCHANGED <<files, cleaned>> /\ pc = "down" /\ pc' = "stage" /\ ctx' = Context
      BY <2>1, <2>3 DEF Start, artefacts
    <3>2. Named' = Named
      BY <3>1 DEF Named, Written, Plain, Ids
    <3>3. Named \subseteq {Context} /\ \A a \in cleaned : a[1] \in Named
      BY <3>1, ContextNamed DEF OneId
    <3>4. QED
      BY <3>1, <3>2, <3>3 DEF OneId
  <2>4. QED
    BY <2>2, <2>3
<1>2. CASE Stage
  <2>1. UNCHANGED <<files, cleaned, ctx>> /\ pc = "stage" /\ pc' \in {"stage", "clean", "vocab", "model"}
    <3>1. First(left) = "clean" \/ First(left) = "tokenizer" \/ First(left) = "model"
      BY StageNamesOf DEF StageNames
    <3>2. UNCHANGED <<files, cleaned, ctx>> /\ pc = "stage"
      BY <1>2 DEF Stage, artefacts
    <3>3. CASE First(left) \in mem.done
      BY <1>2, <3>2, <3>3 DEF Stage
    <3>4. CASE First(left) \notin mem.done
      BY <1>2, <3>1, <3>2, <3>4 DEF Stage
    <3>5. QED
      BY <3>3, <3>4
  <2>2. Named' = Named
    BY <2>1 DEF Named, Written, Plain, Ids
  <2>3. (\A a \in cleaned : a[1] \in Named) /\ Named \subseteq {ctx}
    BY <2>1 DEF OneId
  <2>4. \A a \in cleaned : a[1] = ctx
    BY <2>3
  <2>5. QED
    BY <2>1, <2>2, <2>3, <2>4 DEF OneId
<1>3. CASE CleanFile
  <2>1. UNCHANGED <<files, ctx, pc>> /\ pc = "clean" /\ cleaned' = cleaned \cup {<<ctx, k + 1>>}
    BY <1>3 DEF CleanFile
  <2>2. Named' = Named
    BY <2>1 DEF Named, Written, Plain, Ids
  <2>3. \A a \in cleaned' : a[1] = ctx
    BY <2>1 DEF OneId
  <2>4. QED
    BY <2>1, <2>2, <2>3 DEF OneId
<1>4. CASE CleanEnds \/ WriteMerges \/ TrainEnds
  <2>1. PICK s \in StageNames : Completes(s) /\ pc \in {"clean", "merges", "train", "sealed"}
    BY <1>4 DEF CleanEnds, WriteMerges, TrainEnds, StageNames
  <2>2. UNCHANGED <<cleaned, ctx>>
    BY <1>4 DEF CleanEnds, WriteMerges, TrainEnds, artefacts
  <2>3. /\ pc' = "stage" /\ Save(mem.id, mem'.done) /\ mem'.done \in SUBSET StageNames
        /\ mem.id = ctx /\ ctx \in 1..runs
    BY <2>1, CompletesType
  <2>4. QED
    BY <2>1, <2>2, <2>3, OneIdSaved
<1>5. CASE StageFails
  <2>1. pc \in {"clean", "vocab", "merges", "model", "train", "sum", "sealed"} /\ Save(mem.id, mem.done) /\ pc' = "down" /\ cleaned' = cleaned
    BY <1>5 DEF StageFails, Ends, artefacts
  <2>2. mem.id = ctx /\ ctx \in 1..runs /\ mem.done \in SUBSET StageNames
    BY <2>1, Typed DEF TypeInv
  <2>3. QED
    BY <2>1, <2>2, OneIdSaved
<1>6. CASE WriteVocab \/ Trains \/ UNCHANGED vars
  <2>1. UNCHANGED <<files, cleaned, ctx>> /\ (pc' = pc \/ (pc \notin Outside /\ pc' \notin Outside))
    BY <1>6 DEF WriteVocab, Trains, TrainModel, SavePosition, SaveModel, SealModel, vars, process, artefacts, Outside
  <2>2. Named' = Named
    BY <2>1 DEF Named, Written, Plain, Ids
  <2>3. QED
    BY <2>1, <2>2 DEF OneId, Outside
<1>7. CASE Finish
  <2>1. UNCHANGED <<files, cleaned>> /\ pc = "stage" /\ pc' = "down"
    BY <1>7 DEF Finish, Ends, artefacts
  <2>2. Named' = Named
    BY <2>1 DEF Named, Written, Plain, Ids
  <2>3. QED
    BY <2>1, <2>2 DEF OneId
<1>8. CASE Killed
  <2>1. UNCHANGED <<files, cleaned>> /\ pc # "down" /\ pc' = "down"
    BY <1>8 DEF Killed, Ends, artefacts
  <2>2. Named' = Named
    BY <2>1 DEF Named, Written, Plain, Ids
  <2>3. CASE Named = {}
    BY <1>8, <2>3 DEF Killed, IdChanged, Named
  <2>4. CASE Named # {}
    <3>1. Named = {ctx}
      BY <2>1, <2>4 DEF OneId
    <3>2. \A a \in cleaned : a[1] \in Named
      BY <3>1 DEF OneId
    <3>3. QED
      BY <2>1, <2>2, <3>2 DEF OneId
  <2>5. QED
    BY <2>3, <2>4
<1>9. CASE CleanerStart \/ FinetuneStarts
  BY <1>9 DEF CleanerStart, FinetuneStarts, IdChanged
<1>10. CASE \E s \in {"tokenizer", "model"} : FailingProgram(s)
  <2>1. PICK s \in {"tokenizer", "model"} : FailingProgram(s)
    BY <1>10
  <2>2. pc = "down" /\ UNCHANGED <<pc, cleaned>> /\ Save(LoadedId, Loaded \ {s})
    BY <2>1 DEF FailingProgram, artefacts
  <2>3. Loaded \ {s} \in SUBSET StageNames /\ LoadedId \in Ids
    BY LoadedType
  <2>4. Written' = Written \cup {LoadedId}
    BY <2>2, <2>3, SaveType
  <2>5. LoadedId \in Written \/ LoadedId = Plain
    BY LoadedType DEF LoadedId
  <2>6. Named' = Named
    BY <2>4, <2>5 DEF Named, Plain
  <2>7. QED
    BY <2>2, <2>6 DEF OneId
<1>11. CASE CleanerFile \/ CleanerEnds
  BY <1>11 DEF CleanerFile, CleanerEnds, OneId
<1>12. QED
  BY <1>1, <1>2, <1>3, <1>4, <1>5, <1>6, <1>7, <1>8, <1>9, <1>10, <1>11 DEF Next, Steps, Trains

\* A raw file has one cleaned file, for any number of processes and of raw
\* files, unless something has lost the run id of the cleaning.
THEOREM OneCleanedFile == Spec => []CleanedOnce
<1> DEFINE I == OneId \/ IdChanged
<1>1. Init => I
  <2>1. Init => Named = {} /\ cleaned = {} /\ pc = "down"
    BY DEF Init, Written, Named
  <2>2. QED
    BY <2>1 DEF OneId
<1>2. TypeInv /\ I /\ [Next]_vars => I'
  <2>1. IdChanged /\ [Next]_vars => IdChanged'
    BY ExcusesGrow DEF IdChanged
  <2>2. QED
    BY <2>1, OneIdPreserved
<1>3. I => CleanedOnce
  <2>1. OneId => \A a, b \in cleaned : a[1] = b[1]
    BY DEF OneId
  <2>2. QED
    BY <2>1 DEF CleanedOnce, IdChanged
<1>4. QED
  BY <1>1, <1>2, <1>3, InitType, TypePreserved, PTL DEF Spec
=============================================================================
