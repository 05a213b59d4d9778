---------------------------- MODULE TrainingProofs ----------------------------
(***************************************************************************)
(* Proofs about Training for any number of epochs, batches and processes,  *)
(* any accumulation and any interval of saves, and about Finetune for any  *)
(* number of epochs, entries and processes, any batch sizes and any        *)
(* interval of saves.                                                      *)
(***************************************************************************)
EXTENDS MCTraining, FiniteSetTheorems, WellFoundedInduction, TLAPS

InEpoch == pc \notin {"down", "done"}

-----------------------------------------------------------------------------
\* Which model latest_model_checkpoint takes.

\* The model with the greatest name among the files of epochs.
Later(m) == {n \in epochModels : m.epoch < n.epoch \/ (m.epoch = n.epoch /\ m.loss < n.loss)}

LEMMA OneIsLatest ==
    ASSUME epochModels \subseteq Model, IsFiniteSet(epochModels), epochModels # {}
    PROVE  \E m \in epochModels : \A n \in epochModels :
               m.epoch > n.epoch \/ (m.epoch = n.epoch /\ m.loss >= n.loss)
<1> DEFINE R == StrictSubsetOrdering(epochModels)
           T == {Later(m) : m \in epochModels}
<1>1. IsWellFoundedOn(R, SUBSET epochModels)
  BY FS_StrictSubsetOrderingWellFounded, FS_FiniteSubsetsOfFinite
<1>2. T \subseteq SUBSET epochModels /\ T # {}
  BY DEF Later
<1>3. \E t \in T : \A u \in T : <<u, t>> \notin R
  <2> HIDE DEF T, R
  <2> QED BY <1>1, <1>2, WFMin
<1>4. PICK m \in epochModels : \A n \in epochModels : <<Later(n), Later(m)>> \notin R
  BY <1>3
<1>5. \A x \in epochModels : x.epoch \in Int /\ x.loss \in Int
  BY TrainingAssumption DEF Model, Infinite
<1>6. ASSUME NEW n \in epochModels, n \in Later(m) PROVE FALSE
  <2>1. Later(n) \subseteq Later(m)
    BY <1>5, <1>6 DEF Later
  <2>2. n \notin Later(n)
    BY <1>5 DEF Later
  <2>3. <<Later(n), Later(m)>> \in R
    BY <1>6, <2>1, <2>2, <1>2 DEF StrictSubsetOrdering
  <2>4. QED
    BY <2>3, <1>4
<1>7. \A n \in epochModels : m.epoch > n.epoch \/ (m.epoch = n.epoch /\ m.loss >= n.loss)
  BY <1>5, <1>6 DEF Later
<1>8. QED
  BY <1>7

LEMMA LatestIsFile ==
    ASSUME epochModels \subseteq Model, IsFiniteSet(epochModels)
    PROVE  Latest \in epochModels \cup {best, Absent}
<1>1. CASE best # Absent \/ epochModels = {}
  BY <1>1 DEF Latest
<1>2. CASE best = Absent /\ epochModels # {}
  BY <1>2, OneIsLatest DEF Latest
<1>3. QED
  BY <1>1, <1>2

-----------------------------------------------------------------------------
TypeInv ==
    /\ TypeOK
    /\ IsFiniteSet(epochModels)
    /\ InEpoch => epoch \in 1..Epochs
    /\ pc \in {"epochModel", "epochSum", "bestModel", "bestSum", "granular"} => idx = Batches

LEMMA AbsentType == Absent \in Model /\ Origin \in Position /\ Infinite \in Ranks
BY TrainingAssumption DEF Absent, Model, Origin, Position, Indices, Infinite, Ranks

LEMMA SavedType ==
    ASSUME TypeOK, NEW s \in BOOLEAN
    PROVE  Saved(s) \in Model
BY TrainingAssumption DEF TypeOK, Saved, Model, Ranks, Infinite

LEMMA EnterType ==
    ASSUME NEW e \in 0..Epochs, NEW b \in 0..Batches, Enter(e, b), TypeInv
    PROVE  /\ pc' \in {"batch", "done"}
           /\ epoch' \in 0..Epochs /\ idx' \in 0..Batches /\ sound' \in BOOLEAN
           /\ pc' = "batch" => epoch' \in 1..Epochs
<1>1. epoch \in 0..Epochs /\ idx \in 0..Batches /\ sound \in BOOLEAN /\ Epochs \in Nat
  BY TrainingAssumption DEF TypeInv, TypeOK
<1>2. CASE e < Epochs
  BY <1>1, <1>2 DEF Enter
<1>3. CASE ~(e < Epochs)
  BY <1>1, <1>3 DEF Enter
<1>4. QED
  BY <1>2, <1>3

LEMMA InitType == Init => TypeInv
<1> SUFFICES ASSUME Init PROVE TypeInv
  OBVIOUS
<1>1. IsFiniteSet(epochModels) /\ epochModels \subseteq Model
  BY FS_EmptySet DEF Init
<1>2. /\ pc = "down" /\ epoch \in 0..Epochs /\ idx \in 0..Batches /\ steps \in Nat /\ runs \in Nat
      /\ weights \in [step : Nat, finite : BOOLEAN]
  BY TrainingAssumption DEF Init
<1>3. prog \in Position /\ granular \in Position /\ best \in Model /\ lowest \in Ranks /\ avg \in Ranks
  BY AbsentType DEF Init
<1>4. sound \in BOOLEAN /\ torn \in BOOLEAN /\ seen \subseteq (1..Epochs) \X Indices
  BY DEF Init
<1>5. QED
  BY <1>1, <1>2, <1>3, <1>4 DEF TypeInv, TypeOK, InEpoch

LEMMA StartType == TypeInv /\ (Start \/ LoadFails) => TypeInv'
<1> SUFFICES ASSUME TypeInv, Start \/ LoadFails PROVE TypeInv'
  OBVIOUS
<1>1. CASE Start
  <2>1. Latest \in Model
    BY LatestIsFile, AbsentType DEF TypeInv, TypeOK
  <2>2. weights' \in [step : Nat, finite : BOOLEAN]
    BY <1>1, <2>1 DEF Start, Model
  <2>3. granular.epoch \in 0..Epochs /\ granular.batch \in 0..Batches /\ granular.step \in Nat
    BY TrainingAssumption DEF TypeInv, TypeOK, Position, Indices
  <2>4. /\ pc' \in {"batch", "done"}
        /\ epoch' \in 0..Epochs /\ idx' \in 0..Batches /\ sound' \in BOOLEAN
        /\ pc' = "batch" => epoch' \in 1..Epochs
    BY <1>1, <2>3, EnterType DEF Start
  <2>5. UNCHANGED <<avg, granular, best, epochModels, seen, torn>> /\ lowest' = Infinite
        /\ prog' = granular /\ steps' = granular.step /\ runs' = runs + 1
    BY <1>1 DEF Start, files
  <2>6. QED
    BY <2>2, <2>3, <2>4, <2>5, AbsentType, TrainingAssumption DEF TypeInv, TypeOK, InEpoch
<1>2. CASE LoadFails
  BY <1>2 DEF LoadFails, TypeInv, TypeOK, InEpoch, loop, files
<1>3. QED
  BY <1>1, <1>2

LEMMA BatchType == ASSUME TypeInv, NEW ok \in BOOLEAN, Batch(ok) \/ Step(ok) \/ BadStep(ok) PROVE TypeInv'
<1>1. /\ epoch \in 1..Epochs /\ idx \in Indices /\ idx' \in 0..Batches /\ sound' \in BOOLEAN
      /\ seen' \subseteq (1..Epochs) \X Indices
  BY TrainingAssumption DEF Batch, Step, BadStep, Accumulates, TypeInv, TypeOK, InEpoch, Indices
<1>2. CASE Batch(ok)
  BY <1>1, <1>2 DEF Batch, Accumulates, TypeInv, TypeOK, InEpoch, files
<1>3. CASE Step(ok)
  <2>1. steps' \in Nat /\ weights' \in [step : Nat, finite : BOOLEAN] /\ prog' \in Position /\ granular' \in Position
    BY <1>1, <1>3 DEF Step, TypeInv, TypeOK, Position
  <2>2. QED
    BY <1>1, <1>3, <2>1 DEF Step, Accumulates, TypeInv, TypeOK, InEpoch
<1>4. CASE BadStep(ok)
  <2>1. weights' \in [step : Nat, finite : BOOLEAN]
    BY <1>4 DEF BadStep, TypeInv, TypeOK
  <2>2. QED
    BY <1>1, <1>4, <2>1 DEF BadStep, Accumulates, TypeInv, TypeOK, InEpoch, files
<1>5. QED
  BY <1>2, <1>3, <1>4

LEMMA SaveType ==
    ASSUME TypeInv, EpochEnds \/ SaveEpochModel \/ SealEpochModel \/ SaveBest \/ SealBest \/ SaveGranular \/ ProcessEnds
    PROVE  TypeInv'
<1>1. \A s \in BOOLEAN : Saved(s) \in Model
  BY SavedType DEF TypeInv
<1>2. CASE EpochEnds
  BY <1>2 DEF EpochEnds, TypeInv, TypeOK, InEpoch, Position, files, history
<1>3. CASE SaveEpochModel
  <2>1. IsFiniteSet(epochModels')
    <3> DEFINE others == {m \in epochModels : m.epoch # epoch \/ m.loss # avg}
    <3>1. IsFiniteSet(others)
      BY FS_Subset DEF TypeInv
    <3>2. QED
      BY <1>3, <3>1, FS_AddElement DEF SaveEpochModel
  <2>2. QED
    BY <1>1, <1>3, <2>1 DEF SaveEpochModel, TypeInv, TypeOK, InEpoch, loop, history
<1>4. CASE SealEpochModel
  <2>1. IsFiniteSet(epochModels')
    BY <1>4, FS_AddElement, FS_RemoveElement DEF SealEpochModel, TypeInv
  <2>2. QED
    BY <1>1, <1>4, <2>1 DEF SealEpochModel, TypeInv, TypeOK, InEpoch, loop, history
<1>5. CASE SaveBest
  BY <1>1, <1>5 DEF SaveBest, TypeInv, TypeOK, InEpoch, history
<1>6. CASE SealBest
  BY <1>1, <1>6 DEF SealBest, TypeInv, TypeOK, InEpoch, loop, history
<1>7. CASE SaveGranular
  <2>1. granular' \in Position /\ prog' \in Position
    BY <1>7, TrainingAssumption DEF SaveGranular, TypeInv, TypeOK, Position, Indices
  <2>2. /\ pc' \in {"batch", "done"}
        /\ epoch' \in 0..Epochs /\ idx' \in 0..Batches /\ sound' \in BOOLEAN
        /\ pc' = "batch" => epoch' \in 1..Epochs
    BY <1>7, EnterType, TrainingAssumption DEF SaveGranular, TypeInv, TypeOK
  <2>3. QED
    BY <1>7, <2>1, <2>2 DEF SaveGranular, TypeInv, TypeOK, InEpoch, history
<1>8. CASE ProcessEnds
  BY <1>8 DEF ProcessEnds, TypeInv, TypeOK, InEpoch, loop, files
<1>9. QED
  BY <1>2, <1>3, <1>4, <1>5, <1>6, <1>7, <1>8

LEMMA TypePreserved == TypeInv /\ [Next]_vars => TypeInv'
<1> SUFFICES ASSUME TypeInv, [Next]_vars PROVE TypeInv'
  OBVIOUS
<1>1. CASE UNCHANGED vars
  BY <1>1 DEF vars, loop, files, history, TypeInv, TypeOK, InEpoch
<1>2. CASE Next
  BY <1>2, StartType, BatchType, SaveType DEF Next, LoopStep
<1>3. QED
  BY <1>1, <1>2

\* The type invariant of training, run_training_loop and its checkpoints.
THEOREM TypeCorrect == Spec => []TypeOK
<1>1. TypeInv => TypeOK
  BY DEF TypeInv
<1>2. QED
  BY <1>1, InitType, TypePreserved, PTL DEF Spec

-----------------------------------------------------------------------------
\* No nan is saved: a loop whose weights have one does not come to save them.
Sound == SavedFinite /\ (pc # "down" => weights.finite)

LEMMA SoundPreserved == TypeInv /\ Sound /\ [Next]_vars => Sound'
<1> SUFFICES ASSUME TypeInv, Sound, [Next]_vars PROVE Sound'
  OBVIOUS
<1>1. CASE Start
  <2>1. Latest.finite
    <3>1. Latest \in epochModels \cup {best, Absent}
      BY LatestIsFile DEF TypeInv, TypeOK
    <3>2. QED
      BY <3>1 DEF Sound, SavedFinite, Absent
  <2>2. weights'.finite
    BY <1>1, <2>1 DEF Start
  <2>3. QED
    BY <1>1, <2>2 DEF Start, Sound, SavedFinite, files
<1>2. ASSUME NEW ok \in BOOLEAN, Batch(ok) \/ Step(ok) \/ BadStep(ok) PROVE Sound'
  <2>1. CASE Batch(ok)
    BY <2>1 DEF Batch, Accumulates, Sound, SavedFinite, files
  <2>2. CASE Step(ok)
    <3>1. weights'.finite
      BY <2>2 DEF Step, Accumulates, Sound, TypeInv, TypeOK
    <3>2. QED
      BY <2>2, <3>1 DEF Step, Sound, SavedFinite
  <2>3. CASE BadStep(ok)
    BY <2>3 DEF BadStep, Sound, SavedFinite, files
  <2>4. QED
    BY <1>2, <2>1, <2>2, <2>3
<1>3. CASE SaveEpochModel
  BY <1>3 DEF SaveEpochModel, Saved, Sound, SavedFinite, loop
<1>4. CASE SealEpochModel
  BY <1>4 DEF SealEpochModel, Saved, Sound, SavedFinite, loop
<1>5. CASE SaveBest
  BY <1>5 DEF SaveBest, Saved, Sound, SavedFinite
<1>6. CASE SealBest
  BY <1>6 DEF SealBest, Saved, Sound, SavedFinite, loop
<1>7. CASE LoadFails \/ EpochEnds \/ SaveGranular \/ ProcessEnds \/ UNCHANGED vars
  BY <1>7 DEF LoadFails, EpochEnds, SaveGranular, ProcessEnds, Sound, SavedFinite, vars, loop, files
<1>8. QED
  BY <1>1, <1>2, <1>3, <1>4, <1>5, <1>6, <1>7 DEF Next, LoopStep

\* Weights with a nan are never saved, although run_training_loop steps the
\* optimizer before it tests the norm of the gradients.
THEOREM SavedSound == Spec => []SavedFinite
<1>1. Init => Sound
  BY DEF Init, Sound, SavedFinite, Absent
<1>2. Sound => SavedFinite
  BY DEF Sound
<1>3. QED
  BY <1>1, <1>2, InitType, TypePreserved, SoundPreserved, PTL DEF Spec

-----------------------------------------------------------------------------
\* Steps count the full accumulations of an epoch.
LEMMA Quotient ==
    ASSUME NEW i \in Nat, NEW a \in Nat \ {0}
    PROVE  /\ i \div a \in Nat
           /\ i \div a <= (i + 1) \div a
           /\ (i + 1) % a = 0 => (i + 1) \div a = (i \div a) + 1
<1> DEFINE q == i \div a
           r == i % a
           p == (i + 1) \div a
           t == (i + 1) % a
<1>1. q \in Nat /\ r \in 0..(a - 1) /\ p \in Nat /\ t \in 0..(a - 1)
  BY SMTT(30)
<1>2. i = a * q + r /\ i + 1 = a * p + t
  BY SMTT(30)
<1> HIDE DEF q, r, p, t
<1>3. a * (p - q) = r + 1 - t
  <2>1. a * (p - q) = a * p - a * q
    BY <1>1
  <2>2. QED
    BY <1>1, <1>2, <2>1
<1>4. \A k \in Int : k < 0 => a * k <= 0 - a
  BY SMTT(30)
<1>5. \A k \in Int : k > 1 => a * k >= a + a
  BY SMTT(30)
<1>6. p - q >= 0
  BY <1>1, <1>3, <1>4
<1>7. t = 0 => p - q = 1
  <2>1. p - q # 0 \/ t # 0
    BY <1>1, <1>3
  <2>2. t = 0 => p - q <= 1
    BY <1>1, <1>3, <1>5
  <2>3. QED
    BY <1>1, <1>6, <2>1, <2>2
<1>8. QED
  BY <1>1, <1>6, <1>7 DEF p, q, t

Reach == granular.step + Batches \div Accum

\* The step of the loop is ahead of the saved position by what the epoch has
\* stepped, and no weights are ahead of it by more than an epoch.
Near ==
    /\ \A m \in epochModels \cup {best} : m.step <= Reach
    /\ pc # "down" => weights.step <= Reach
    /\ InEpoch => granular.step <= steps /\ steps <= granular.step + idx \div Accum
    /\ InEpoch /\ pc # "batch" => prog.step = steps
    /\ InEpoch => granular.epoch <= epoch /\ prog.epoch <= epoch

LEMMA ReachType == TypeInv => Reach \in Nat /\ granular.step \in Nat /\ Batches \div Accum \in Nat
BY Quotient, TrainingAssumption DEF TypeInv, TypeOK, Reach, Position

\* The saved position never moves back; it moves in two actions.
LEMMA Forward ==
    ASSUME TypeInv, Near, [Next]_vars
    PROVE  granular'.epoch >= granular.epoch /\ granular'.step >= granular.step
<1>1. /\ granular.epoch \in Int /\ granular.step \in Int
      /\ prog.epoch \in Int /\ prog.step \in Int /\ epoch \in Int /\ steps \in Nat
  BY DEF TypeInv, TypeOK, Position
<1>2. ASSUME NEW ok \in BOOLEAN, Step(ok)
      PROVE  granular'.epoch >= granular.epoch /\ granular'.step >= granular.step
  <2>1. granular.epoch <= epoch /\ granular.step <= steps
    BY <1>2 DEF Step, Accumulates, Near, InEpoch
  <2>2. granular' = granular \/ granular' = [epoch |-> epoch, batch |-> idx, step |-> steps + 1]
    BY <1>2 DEF Step
  <2>3. QED
    BY <1>1, <2>1, <2>2
<1>3. ASSUME SaveGranular
      PROVE  granular'.epoch >= granular.epoch /\ granular'.step >= granular.step
  <2>1. granular.epoch <= epoch /\ granular.step <= steps /\ prog.step = steps
    BY <1>3 DEF SaveGranular, Near, InEpoch
  <2>2. granular'.epoch = epoch /\ granular'.step = prog.step
    BY <1>3 DEF SaveGranular, TypeInv, TypeOK, Position
  <2>3. QED
    BY <1>1, <2>1, <2>2
<1>4. CASE granular' = granular
  BY <1>1, <1>4
<1>5. QED
  BY <1>2, <1>3, <1>4
     DEF Next, LoopStep, Start, LoadFails, Batch, BadStep, EpochEnds, SaveEpochModel, SealEpochModel,
         SaveBest, SealBest, ProcessEnds, vars, files

LEMMA NearPreserved == TypeInv /\ Near /\ [Next]_vars => Near'
<1> SUFFICES ASSUME TypeInv, Near, [Next]_vars PROVE Near'
  OBVIOUS
<1>1. /\ granular.step \in Nat /\ granular.epoch \in Int /\ prog.epoch \in Int /\ prog.step \in Nat /\ steps \in Nat
      /\ weights.step \in Nat /\ epoch \in Int /\ idx \in Nat /\ Batches \in Nat
      /\ Batches \div Accum \in Nat /\ idx \div Accum \in Nat
      /\ \A m \in epochModels \cup {best} : m.step \in Nat
  BY Quotient, TrainingAssumption DEF TypeInv, TypeOK, Position, Model
<1>2. granular'.epoch >= granular.epoch /\ granular'.step >= granular.step /\ granular'.step \in Nat
  BY Forward, TypePreserved DEF TypeInv, TypeOK, Position
<1>3. Reach' >= Reach /\ Reach \in Nat /\ Reach' \in Nat
  BY <1>1, <1>2 DEF Reach
<1>4. CASE Start
  <2>1. Latest.step \in Nat /\ Latest.step <= Reach
    <3>1. Latest \in epochModels \cup {best, Absent}
      BY LatestIsFile DEF TypeInv, TypeOK
    <3>2. Absent.step = 0 /\ 0 <= Reach
      BY <1>3 DEF Absent
    <3>3. QED
      BY <1>1, <3>1, <3>2 DEF Near
  <2>2. /\ UNCHANGED <<granular, best, epochModels>> /\ weights'.step \in {Latest.step, 0}
        /\ steps' = granular.step /\ prog' = granular /\ pc' \in {"batch", "done"}
        /\ pc' = "batch" => idx' = granular.batch /\ epoch' = granular.epoch + 1
    BY <1>4 DEF Start, Enter, files
  <2>3. granular.batch \in Nat /\ granular.batch \div Accum \in Nat
    BY Quotient, TrainingAssumption DEF TypeInv, TypeOK, Position, Indices
  <2>4. (\A m \in epochModels' \cup {best'} : m.step <= Reach') /\ weights'.step <= Reach'
    BY <1>3, <2>1, <2>2 DEF Near, Reach
  <2>5. InEpoch' => granular'.step <= steps' /\ steps' <= granular'.step + idx' \div Accum
    BY <1>1, <2>2, <2>3 DEF InEpoch
  <2>6. InEpoch' => granular'.epoch <= epoch' /\ prog'.epoch <= epoch'
    BY <1>1, <2>2 DEF InEpoch
  <2>7. QED
    BY <2>2, <2>4, <2>5, <2>6 DEF Near, InEpoch
<1>5. ASSUME NEW ok \in BOOLEAN, Batch(ok) PROVE Near'
  <2>1. /\ UNCHANGED <<granular, best, epochModels, weights, steps, prog, epoch, pc>>
        /\ pc = "batch" /\ idx' = idx + 1
    BY <1>5 DEF Batch, Accumulates, files
  <2>2. idx \div Accum <= (idx + 1) \div Accum /\ (idx + 1) \div Accum \in Nat
    BY <1>1, Quotient, TrainingAssumption
  <2>3. QED
    BY <1>1, <1>3, <2>1, <2>2 DEF Near, InEpoch, Reach
<1>6. ASSUME NEW ok \in BOOLEAN, Step(ok) PROVE Near'
  <2>1. /\ UNCHANGED <<best, epochModels, epoch, pc>>
        /\ pc = "batch" /\ idx' = idx + 1 /\ idx < Batches /\ steps' = steps + 1
        /\ weights'.step = steps + 1 /\ prog'.epoch = epoch /\ prog'.step = steps + 1
        /\ granular' = granular \/ (granular'.epoch = epoch /\ granular'.step = steps + 1)
    BY <1>6 DEF Step, Accumulates, TypeInv, TypeOK
  <2>2. (idx + 1) \div Accum = (idx \div Accum) + 1 /\ (idx + 1) \div Accum \in Nat
    BY <1>1, <1>6, Quotient, TrainingAssumption DEF Step, Steps
  <2>3. (idx + 1) \div Accum <= Batches \div Accum
    <3>1. \A i, b \in Nat, a \in Nat \ {0} : i <= b => i \div a <= b \div a
      BY SMTT(30)
    <3>2. QED
      BY <1>1, <2>1, <3>1, TrainingAssumption
  <2>4. steps' <= granular'.step + idx' \div Accum /\ granular'.step <= steps'
    BY <1>1, <1>2, <2>1, <2>2 DEF Near, InEpoch
  <2>5. weights'.step <= Reach'
    BY <1>1, <1>2, <2>1, <2>2, <2>3, <2>4 DEF Reach
  <2>6. QED
    BY <1>1, <1>3, <2>1, <2>4, <2>5 DEF Near, InEpoch
<1>7. ASSUME NEW ok \in BOOLEAN, BadStep(ok) PROVE Near'
  <2>1. UNCHANGED <<granular, best, epochModels>> /\ pc' = "down"
    BY <1>7 DEF BadStep, files
  <2>2. QED
    BY <2>1 DEF Near, InEpoch, Reach
<1>8. CASE EpochEnds
  <2>1. /\ UNCHANGED <<granular, best, epochModels, weights, steps, epoch, idx>> /\ pc = "batch"
        /\ prog'.step = steps /\ prog'.epoch = prog.epoch /\ pc' \in {"epochModel", "bestModel", "granular"}
    BY <1>8 DEF EpochEnds, TypeInv, TypeOK, Position, files
  <2>2. QED
    BY <2>1 DEF Near, InEpoch, Reach
<1>9. CASE SaveEpochModel \/ SealEpochModel
  <2>1. /\ UNCHANGED <<granular, best, weights, steps, prog, epoch, idx>>
        /\ InEpoch /\ InEpoch' /\ pc # "down" /\ pc # "batch" /\ pc' # "batch"
        /\ \A m \in epochModels' : m \in epochModels \/ m.step = weights.step
    BY <1>9 DEF SaveEpochModel, SealEpochModel, Saved, InEpoch, loop
  <2>2. QED
    BY <2>1 DEF Near, Reach
<1>10. CASE SaveBest \/ SealBest
  <2>1. /\ UNCHANGED <<granular, epochModels, weights, steps, prog, epoch, idx>>
        /\ InEpoch /\ InEpoch' /\ pc # "down" /\ pc # "batch" /\ pc' # "batch"
        /\ best'.step = weights.step
    BY <1>10 DEF SaveBest, SealBest, Saved, InEpoch, loop
  <2>2. QED
    BY <2>1 DEF Near, Reach
<1>11. CASE SaveGranular
  <2>1. /\ UNCHANGED <<best, epochModels, weights, steps>> /\ InEpoch /\ pc # "down" /\ pc # "batch"
        /\ granular'.epoch = epoch /\ granular'.step = prog.step /\ prog'.epoch = prog.epoch
        /\ pc' \in {"batch", "done"}
        /\ pc' = "batch" => idx' = 0 /\ epoch' = epoch + 1
    BY <1>11 DEF SaveGranular, Enter, InEpoch, TypeInv, TypeOK, Position
  <2>2. prog.step = steps /\ weights.step <= Reach /\ \A m \in epochModels \cup {best} : m.step <= Reach
    BY <2>1 DEF Near
  <2>3. 0 \div Accum \in Nat
    BY Quotient, TrainingAssumption
  <2>4. \A m \in epochModels' \cup {best'} : m.step <= Reach'
    BY <1>1, <1>3, <2>1, <2>2
  <2>5. weights'.step <= Reach'
    BY <1>1, <1>3, <2>1, <2>2
  <2>6. InEpoch' => granular'.step <= steps' /\ steps' <= granular'.step + idx' \div Accum
    BY <1>1, <2>1, <2>2, <2>3 DEF InEpoch
  <2>7. InEpoch' => granular'.epoch <= epoch' /\ prog'.epoch <= epoch'
    BY <1>1, <2>1 DEF Near, InEpoch
  <2>8. QED
    BY <2>1, <2>4, <2>5, <2>6, <2>7 DEF Near, InEpoch
<1>12. CASE LoadFails \/ ProcessEnds \/ UNCHANGED vars
  BY <1>12 DEF LoadFails, ProcessEnds, Near, InEpoch, Reach, vars, loop, files
<1>13. QED
  BY <1>4, <1>5, <1>6, <1>7, <1>8, <1>9, <1>10, <1>11, <1>12 DEF Next, LoopStep

LEMMA InitNear == Init => Near
<1> SUFFICES ASSUME Init PROVE Near
  OBVIOUS
<1>1. Batches \div Accum \in Nat
  BY Quotient, TrainingAssumption
<1>2. QED
  BY <1>1 DEF Init, Near, InEpoch, Reach, Origin, Absent

\* The best model is never more than an epoch's steps ahead of the position that
\* restore_progress goes on from, wherever processes ended.
THEOREM WeightsNear == Spec => []WeightsNearPosition
<1>1. Near => WeightsNearPosition
  BY DEF Near, Reach, WeightsNearPosition
<1>2. QED
  BY <1>1, InitType, TypePreserved, InitNear, NearPreserved, PTL DEF Spec

\* The position in granular_checkpoint.json never moves back.
THEOREM PositionMonotone == Spec => PositionForward
<1>1. TypeInv /\ Near /\ [Next]_vars =>
          [granular'.epoch >= granular.epoch /\ granular'.step >= granular.step]_granular
  BY Forward
<1>2. QED
  BY <1>1, InitType, TypePreserved, InitNear, NearPreserved, PTL DEF Spec, PositionForward

-----------------------------------------------------------------------------
\* What a restart passes over.
All == (1..Epochs) \X Indices
Before(e, b) == {p \in All : p[1] < e \/ (p[1] = e /\ p[2] < b)}
Due == (runs - 1) * (Batches - 1)

\* Batches before the loop, or before a saved position, that were never trained
\* on are as few as the restarts explain.
Few ==
    /\ runs = 0 => pc = "down" /\ granular = Origin
    /\ runs > 0 => Cardinality(Before(granular.epoch, granular.batch + 1) \ seen) <= Due
    /\ InEpoch => runs > 0 /\ Cardinality(Before(epoch, idx) \ seen) <= Due
    /\ pc = "done" => runs > 0 /\ Cardinality(All \ seen) <= Due

LEMMA AllFinite == IsFiniteSet(All) /\ \A S \in SUBSET All : IsFiniteSet(S) /\ Cardinality(S) \in Nat
<1>1. IsFiniteSet(1..Epochs) /\ IsFiniteSet(Indices)
  BY FS_Interval, TrainingAssumption DEF Indices
<1>2. IsFiniteSet(All)
  BY <1>1, FS_Product DEF All
<1>3. QED
  BY <1>2, FS_Subset, FS_CardinalityType

LEMMA Fewer ==
    ASSUME NEW S, NEW T, S \subseteq T, T \subseteq All, NEW n \in Int, Cardinality(T) <= n
    PROVE  Cardinality(S) <= n
BY AllFinite, FS_Subset

LEMMA DueType == TypeInv => Due \in Int
BY TrainingAssumption DEF TypeInv, TypeOK, Due

\* A process more allows as many batches more as an epoch has, less one.
LEMMA DueGrows ==
    ASSUME TypeInv, runs' = runs + 1
    PROVE  /\ runs > 0 => Due' = Due + (Batches - 1)
           /\ runs > 0 => Due <= Due'
           /\ runs = 0 => Due' = 0
           /\ Due' \in Int
<1>1. runs \in Nat /\ Batches - 1 \in Nat
  BY TrainingAssumption DEF TypeInv, TypeOK
<1>2. \A r, b \in Nat : ((r + 1) - 1) * b = (r - 1) * b + b /\ (r - 1) * b \in Int
  BY SMTT(30)
<1>3. \A b \in Nat : ((0 + 1) - 1) * b = 0
  BY SMTT(30)
<1>4. Due' = ((runs + 1) - 1) * (Batches - 1)
  BY DEF Due
<1>5. QED
  BY <1>1, <1>2, <1>3, <1>4 DEF Due

\* The batches from a position of one epoch to the same one of the next.
Extra(e, b) == ({e} \X ((b + 1)..(Batches - 1))) \cup ({e + 1} \X (0..(b - 1)))

LEMMA ExtraBound ==
    ASSUME NEW e \in Nat, NEW b \in Indices
    PROVE  IsFiniteSet(Extra(e, b)) /\ Cardinality(Extra(e, b)) <= Batches - 1
<1> DEFINE S == (b + 1)..(Batches - 1)
           T == 0..(b - 1)
<1>1. /\ IsFiniteSet(S) /\ IsFiniteSet(T) /\ b \in Nat /\ Batches \in Nat
      /\ Cardinality(S) = Batches - 1 - b /\ Cardinality(T) = b
  BY FS_Interval, TrainingAssumption DEF Indices
<1>2. \A x : IsFiniteSet({x}) /\ Cardinality({x}) = 1
  BY FS_Singleton
<1> HIDE DEF S, T
<1>3. /\ IsFiniteSet({e} \X S) /\ Cardinality({e} \X S) = Batches - 1 - b
      /\ IsFiniteSet({e + 1} \X T) /\ Cardinality({e + 1} \X T) = b
  <2>1. IsFiniteSet({e} \X S) /\ Cardinality({e} \X S) = Cardinality({e}) * Cardinality(S)
    BY <1>1, <1>2, FS_Product
  <2>2. IsFiniteSet({e + 1} \X T) /\ Cardinality({e + 1} \X T) = Cardinality({e + 1}) * Cardinality(T)
    BY <1>1, <1>2, FS_Product
  <2>3. 1 * (Batches - 1 - b) = Batches - 1 - b /\ 1 * b = b
    BY <1>1
  <2>4. QED
    BY <1>1, <1>2, <2>1, <2>2, <2>3
<1>4. /\ IsFiniteSet(({e} \X S) \cup ({e + 1} \X T))
      /\ Cardinality(({e} \X S) \cup ({e + 1} \X T))
            = Cardinality({e} \X S) + Cardinality({e + 1} \X T) - Cardinality(({e} \X S) \cap ({e + 1} \X T))
  BY <1>3, FS_Union
<1>5. Cardinality(({e} \X S) \cap ({e + 1} \X T)) \in Nat
  BY <1>3, FS_Intersection, FS_CardinalityType
<1>6. QED
  BY <1>1, <1>3, <1>4, <1>5 DEF Extra, S, T

LEMMA StartFew == TypeInv /\ Few /\ Start => Few'
<1> SUFFICES ASSUME TypeInv, Few, Start PROVE Few'
  OBVIOUS
<1> DEFINE e == granular.epoch
           b == granular.batch
           old == Before(e, b + 1) \ seen
<1>1. e \in 0..Epochs /\ b \in Indices /\ Indices \subseteq Nat /\ runs \in Nat /\ Epochs \in Nat /\ Batches \in Nat
  BY TrainingAssumption DEF TypeInv, TypeOK, Position, Indices
<1>2. runs' = runs + 1 /\ UNCHANGED <<granular, seen>> /\ Enter(e, b)
  BY DEF Start, files
<1>3. Due' \in Int /\ Due \in Int
  BY <1>2, DueGrows, DueType
<1>4. CASE runs = 0
  <2>1. e = 0 /\ b = 0 /\ Due' = 0
    BY <1>2, <1>4, DueGrows DEF Few, Origin
  <2>2. Before(e, b + 1) = {} /\ Before(e + 1, b) = {} /\ (Epochs = 0 => All = {})
    BY <1>1, <2>1 DEF Before, All, Indices
  <2>3. Cardinality({}) = 0 /\ \A S : {} \ S = {}
    BY FS_EmptySet
  <2>4. CASE e < Epochs
    <3>1. pc' = "batch" /\ epoch' = e + 1 /\ idx' = b
      BY <1>2, <2>4 DEF Enter
    <3>2. QED
      BY <1>2, <1>4, <2>1, <2>2, <2>3, <3>1 DEF Few, InEpoch
  <2>5. CASE ~(e < Epochs)
    <3>1. pc' = "done" /\ All = {}
      BY <1>1, <1>2, <2>1, <2>2, <2>5 DEF Enter
    <3>2. QED
      BY <1>2, <1>4, <2>1, <2>2, <2>3, <3>1 DEF Few, InEpoch
  <2>6. QED
    BY <2>4, <2>5
<1>5. CASE runs > 0
  <2>1. Due' = Due + (Batches - 1) /\ Due <= Due' /\ Cardinality(old) <= Due
    BY <1>2, <1>5, DueGrows DEF Few
  <2>2. IsFiniteSet(old) /\ Cardinality(old) \in Nat
    BY AllFinite DEF Before
  <2>3. IsFiniteSet(Extra(e, b)) /\ Cardinality(Extra(e, b)) <= Batches - 1 /\ Cardinality(Extra(e, b)) \in Nat
    <3>1. e \in Nat /\ b \in Indices
      BY <1>1
    <3> HIDE DEF e, b
    <3>2. IsFiniteSet(Extra(e, b)) /\ Cardinality(Extra(e, b)) <= Batches - 1
      BY <3>1, ExtraBound
    <3>3. QED
      BY <3>2, FS_CardinalityType
  <2>4. /\ IsFiniteSet(old \cup Extra(e, b))
        /\ Cardinality(old \cup Extra(e, b)) <= Due'
    <3>1. Cardinality(old \cap Extra(e, b)) \in Nat
      BY <2>2, FS_Intersection, FS_CardinalityType
    <3> HIDE DEF old, e, b
    <3>2. /\ IsFiniteSet(old \cup Extra(e, b))
          /\ Cardinality(old \cup Extra(e, b)) = Cardinality(old) + Cardinality(Extra(e, b)) - Cardinality(old \cap Extra(e, b))
      BY <2>2, <2>3, FS_Union
    <3>3. QED
      BY <1>1, <1>3, <2>1, <2>2, <2>3, <3>1, <3>2
  <2>5. ASSUME NEW S, S \subseteq old \cup Extra(e, b) PROVE Cardinality(S) <= Due'
    <3> HIDE DEF old, e, b
    <3>1. Cardinality(S) <= Cardinality(old \cup Extra(e, b)) /\ Cardinality(S) \in Nat
          /\ Cardinality(old \cup Extra(e, b)) \in Nat
      BY <2>4, <2>5, FS_Subset, FS_CardinalityType
    <3>2. QED
      BY <1>3, <2>4, <3>1
  <2>6. Cardinality(old) <= Due'
    BY <1>3, <2>1, <2>2
  <2>7. CASE e < Epochs
    <3>1. pc' = "batch" /\ epoch' = e + 1 /\ idx' = b
      BY <1>2, <2>7 DEF Enter
    <3>2. Before(e + 1, b) \ seen \subseteq old \cup Extra(e, b)
      BY <1>1 DEF Before, All, Extra, Indices
    <3>3. Cardinality(Before(e + 1, b) \ seen) <= Due'
      BY <2>5, <3>2
    <3>4. QED
      BY <1>1, <1>2, <2>6, <3>1, <3>3 DEF Few, InEpoch
  <2>8. CASE ~(e < Epochs)
    <3>1. pc' = "done"
      BY <1>2, <2>8 DEF Enter
    <3>2. All \ seen \subseteq old \cup Extra(e, b)
      BY <1>1, <2>8 DEF Before, All, Extra, Indices
    <3>3. Cardinality(All \ seen) <= Due'
      BY <2>5, <3>2
    <3>4. QED
      BY <1>1, <1>2, <2>6, <3>1, <3>3 DEF Few, InEpoch
  <2>9. QED
    BY <2>7, <2>8
<1>6. QED
  BY <1>1, <1>4, <1>5

LEMMA FewPreserved == TypeInv /\ Few /\ [Next]_vars => Few'
<1> SUFFICES ASSUME TypeInv, Few, [Next]_vars PROVE Few'
  OBVIOUS
<1>1. Due \in Int /\ runs \in Nat /\ idx \in Nat /\ \A e, b : Before(e, b) \subseteq All
  BY DueType DEF TypeInv, TypeOK, Before
<1>2. CASE Start
  BY <1>2, StartFew
<1>3. CASE LoadFails
  <2>1. runs' = runs + 1 /\ UNCHANGED <<pc, epoch, idx, granular, seen>> /\ pc = "down" /\ granular.step > 0
    BY <1>3 DEF LoadFails, Loads, loop, files
  <2>2. runs > 0
    BY <1>1, <2>1 DEF Few, Origin
  <2>3. Due <= Due' /\ Due' \in Int
    BY <2>1, <2>2, DueGrows
  <2>4. Cardinality(Before(granular.epoch, granular.batch + 1) \ seen) <= Due'
    <3>1. Cardinality(Before(granular.epoch, granular.batch + 1) \ seen) \in Nat
      BY <1>1, AllFinite
    <3>2. QED
      BY <1>1, <2>2, <2>3, <3>1 DEF Few
  <2>5. QED
    BY <1>1, <2>1, <2>4 DEF Few, InEpoch
<1>4. ASSUME NEW ok \in BOOLEAN, Batch(ok) \/ Step(ok) \/ BadStep(ok) PROVE Few'
  <2>1. /\ pc = "batch" /\ idx < Batches /\ seen' = seen \cup {<<epoch, idx>>} /\ idx' = idx + 1
        /\ epoch' = epoch /\ runs' = runs /\ pc' \in {"batch", "down"}
        /\ granular' = granular \/ (granular'.epoch = epoch /\ granular'.batch = idx)
    BY <1>4 DEF Batch, Step, BadStep, Accumulates, files
  <2>2. Due' = Due /\ runs > 0 /\ Cardinality(Before(epoch, idx) \ seen) <= Due
    BY <2>1 DEF Few, InEpoch, Due
  <2>3. Before(epoch, idx + 1) \ seen' \subseteq Before(epoch, idx) \ seen
    BY <1>1, <2>1 DEF Before, All, Indices
  <2>4. Cardinality(Before(epoch, idx + 1) \ seen') <= Due
    BY <1>1, <2>2, <2>3, Fewer
  <2>5. Cardinality(Before(granular.epoch, granular.batch + 1) \ seen') <= Due
    <3>1. Cardinality(Before(granular.epoch, granular.batch + 1) \ seen) <= Due
      BY <2>2 DEF Few
    <3>2. Before(granular.epoch, granular.batch + 1) \ seen' \subseteq Before(granular.epoch, granular.batch + 1) \ seen
      BY <2>1
    <3>3. QED
      BY <1>1, <3>1, <3>2, Fewer
  <2>6. QED
    BY <2>1, <2>2, <2>4, <2>5 DEF Few, InEpoch
<1>5. CASE SaveGranular
  <2>1. /\ pc = "granular" /\ granular'.epoch = epoch /\ granular'.batch = prog.batch /\ Enter(epoch, 0)
        /\ UNCHANGED <<runs, seen>>
    BY <1>5 DEF SaveGranular, TypeInv, TypeOK, Position, history
  <2>2. Due' = Due /\ runs > 0 /\ idx = Batches /\ Cardinality(Before(epoch, Batches) \ seen) <= Due
    BY <2>1 DEF Few, InEpoch, Due, TypeInv
  <2>3. epoch \in 1..Epochs /\ prog.batch \in Indices /\ Epochs \in Nat /\ Batches \in Nat
    BY <2>1, TrainingAssumption DEF TypeInv, TypeOK, InEpoch, Position
  <2>4. Cardinality(Before(epoch, prog.batch + 1) \ seen) <= Due
    <3>1. Before(epoch, prog.batch + 1) \ seen \subseteq Before(epoch, Batches) \ seen
      BY <2>3 DEF Before, All, Indices
    <3>2. QED
      BY <1>1, <2>2, <3>1, Fewer
  <2>5. CASE epoch < Epochs
    <3>1. pc' = "batch" /\ epoch' = epoch + 1 /\ idx' = 0
      BY <2>1, <2>5 DEF Enter
    <3>2. Before(epoch + 1, 0) \ seen \subseteq Before(epoch, Batches) \ seen
      BY <2>3 DEF Before, All, Indices
    <3>3. Cardinality(Before(epoch + 1, 0) \ seen) <= Due
      BY <1>1, <2>2, <3>2, Fewer
    <3>4. QED
      BY <2>1, <2>2, <2>4, <3>1, <3>3 DEF Few, InEpoch
  <2>6. CASE ~(epoch < Epochs)
    <3>1. pc' = "done"
      BY <2>1, <2>6 DEF Enter
    <3>2. All \ seen \subseteq Before(epoch, Batches) \ seen
      BY <2>3, <2>6 DEF Before, All, Indices
    <3>3. Cardinality(All \ seen) <= Due
      BY <1>1, <2>2, <3>2, Fewer
    <3>4. QED
      BY <2>1, <2>2, <2>4, <3>1, <3>3 DEF Few, InEpoch
  <2>7. QED
    BY <2>5, <2>6
<1>6. CASE EpochEnds \/ SaveEpochModel \/ SealEpochModel \/ SaveBest \/ SealBest \/ ProcessEnds \/ UNCHANGED vars
  <2>1. /\ UNCHANGED <<epoch, idx, granular, runs, seen>>
        /\ pc' = pc \/ (InEpoch /\ pc' # "done")
    BY <1>6 DEF EpochEnds, SaveEpochModel, SealEpochModel, SaveBest, SealBest, ProcessEnds, InEpoch,
                vars, loop, files, history
  <2>2. Due' = Due
    BY <2>1 DEF Due
  <2>3. QED
    BY <2>1, <2>2 DEF Few, InEpoch
<1>7. QED
  BY <1>2, <1>3, <1>4, <1>5, <1>6 DEF Next, LoopStep

\* When training is done, a restart has cost fewer batches than an epoch has, for
\* any number of restarts and wherever they fell.
THEOREM SkippedFew == Spec => []SkippedBounded
<1>1. Init => Few
  BY DEF Init, Few, InEpoch
<1>2. Few => SkippedBounded
  BY DEF Few, SkippedBounded, All, Due
<1>3. QED
  BY <1>1, <1>2, InitType, TypePreserved, FewPreserved, PTL DEF Spec

-----------------------------------------------------------------------------
(***************************************************************************)
(* Fine-tuning.                                                            *)
(***************************************************************************)
Positions == [epoch : Nat, offset : Nat, step : Nat]

\* Every entry before a position has been trained on, and an offset, although
\* it counts batches, does not pass the end of the dataset.
Behind(pos, done) ==
    /\ pos.offset =< FEntries
    /\ \A e, x \in Nat :
          \/ e < pos.epoch /\ x < FEntries
          \/ e = pos.epoch /\ x < pos.offset
          => <<e, x>> \in done

\* Each process has a position in memory and one in its file.
FTypeOK ==
    \E k \in Nat :
        /\ ffile \in [1..k -> Positions] /\ fkv \in [1..k -> Positions]
        /\ fwaiting \subseteq 1..k
        /\ fholder \in 0..k

\* Where the loop of the holder is: it has passed over no entry of its epoch
\* that was not trained on, and has taken at least as many entries as batches.
LoopOK ==
    /\ fpc \in {"none", "epoch", "batch"}
    /\ fpc # "none" => fholder # 0 /\ fbatch \in Nat \ {0}
    /\ fpc = "epoch" => fstart = fkv[fholder].offset
    /\ fpc = "batch" =>
          /\ fsize \in Nat \ {0} /\ fat \in 0..FEntries
          /\ fn \in Nat /\ fn =< fat
          /\ \A x \in Nat : x < fat => <<fkv[fholder].epoch, x>> \in ftrained

FInv ==
    /\ FTypeOK /\ LoopOK
    /\ \A r \in F!Runs : Behind(ffile[r], ftrained) /\ Behind(fkv[r], ftrained)

\* More training makes no position unsound.
LEMMA BehindStays ==
    ASSUME NEW pos, NEW done, Behind(pos, done), NEW more, done \subseteq more
    PROVE  Behind(pos, more)
BY DEF Behind

LEMMA FRuns ==
    ASSUME NEW k \in Nat, ffile \in [1..k -> Positions]
    PROVE  F!Runs = 1..k /\ F!Newest = k
<1>1. F!Runs = 1..k
  BY DEF F!Runs
<1>2. Cardinality(1..k) = k
  BY FS_Interval
<1>3. \A S : F!Cardinality(S) = Cardinality(S)
  BY DEF F!Cardinality, Cardinality
<1>4. QED
  BY <1>1, <1>2, <1>3 DEF F!Newest

LEMMA FStart == FInv /\ F!Start => FInv'
<1> SUFFICES ASSUME FInv, F!Start PROVE FInv'
  OBVIOUS
<1>1. PICK k \in Nat : /\ ffile \in [1..k -> Positions] /\ fkv \in [1..k -> Positions]
                       /\ fwaiting \subseteq 1..k /\ fholder \in 0..k
  BY DEF FInv, FTypeOK
<1>2. F!Runs = 1..k /\ F!Newest = k
  BY <1>1, FRuns
<1>3. PICK pos \in {F!Origin} \cup {ffile[r] : r \in F!Runs} :
          fkv' = F!Extend(fkv, pos) /\ ffile' = F!Extend(ffile, pos)
  BY DEF F!Start
<1>4. pos \in Positions /\ Behind(pos, ftrained)
  <2>1. CASE pos = F!Origin
    BY <2>1, FinetuneAssumption DEF F!Origin, Positions, Behind
  <2>2. ASSUME NEW r \in F!Runs, pos = ffile[r]
        PROVE  pos \in Positions /\ Behind(pos, ftrained)
    BY <1>1, <1>2, <2>2 DEF FInv
  <2>3. QED
    BY <1>3, <2>1, <2>2
<1>5. ffile' \in [1..(k + 1) -> Positions] /\ fkv' \in [1..(k + 1) -> Positions]
  BY <1>1, <1>2, <1>3, <1>4 DEF F!Extend
<1>6. k + 1 \in Nat /\ fwaiting' \subseteq 1..(k + 1) /\ fholder' \in 0..(k + 1)
  BY <1>1, <1>2 DEF F!Start
<1>7. FTypeOK'
  BY <1>5, <1>6 DEF FTypeOK
<1>8. ftrained' = ftrained /\ F!Runs' = 1..(k + 1)
  BY <1>5 DEF F!Start, F!Runs
<1>9. \A r \in 1..(k + 1) : Behind(ffile'[r], ftrained) /\ Behind(fkv'[r], ftrained)
  BY <1>1, <1>2, <1>3, <1>4 DEF F!Extend, FInv
<1>10. LoopOK'
  <2>1. fholder \in 1..k => fkv'[fholder] = fkv[fholder]
    BY <1>1, <1>2, <1>3 DEF F!Extend
  <2>2. QED
    BY <1>1, <2>1 DEF FInv, LoopOK, F!Start, F!stream
<1>11. QED
  BY <1>7, <1>8, <1>9, <1>10, BehindStays DEF FInv

\* A process that ends leaves its position in memory behind, which is forgotten,
\* and in its file one that was sound.
LEMMA FEnds ==
    ASSUME FInv, F!Ends, fholder # 0, ftrained' = ftrained, fwaiting' \subseteq fwaiting,
           \/ ffile' = [ffile EXCEPT ![fholder] = fkv[fholder]]
           \/ ffile' = ffile
    PROVE  FInv'
<1>1. PICK k \in Nat : /\ ffile \in [1..k -> Positions] /\ fkv \in [1..k -> Positions]
                       /\ fwaiting \subseteq 1..k /\ fholder \in 0..k
  BY DEF FInv, FTypeOK
<1>2. F!Origin \in Positions /\ Behind(F!Origin, ftrained)
  BY FinetuneAssumption DEF F!Origin, Positions, Behind
<1>3. F!Runs = 1..k /\ fholder \in 1..k
  BY <1>1, FRuns
<1>4. /\ ffile' \in [1..k -> Positions] /\ fkv' \in [1..k -> Positions]
      /\ fwaiting' \subseteq 1..k /\ fholder' \in 0..k
  BY <1>1, <1>2, <1>3 DEF F!Ends
<1>5. FTypeOK' /\ F!Runs' = 1..k
  BY <1>4 DEF FTypeOK, F!Runs
<1>6. \A r \in 1..k : Behind(ffile'[r], ftrained) /\ Behind(fkv'[r], ftrained)
  BY <1>1, <1>2, <1>3 DEF F!Ends, FInv
<1>7. LoopOK'
  BY DEF F!Ends, LoopOK
<1>8. QED
  BY <1>5, <1>6, <1>7, BehindStays DEF FInv

\* Whatever an attempt to save leaves, files stay sound if the position is.
LEMMA FAttempt ==
    ASSUME NEW k \in Nat, ffile \in [1..k -> Positions], fholder \in 1..k,
           NEW pos \in Positions, F!Attempt(pos),
           \A r \in 1..k : Behind(ffile[r], ftrained'), Behind(pos, ftrained')
    PROVE  ffile' \in [1..k -> Positions] /\ \A r \in 1..k : Behind(ffile'[r], ftrained')
BY DEF F!Attempt

\* Setting one field of a position.
LEMMA FieldSet ==
    ASSUME NEW p \in Positions, NEW a
    PROVE  /\ [p EXCEPT !.epoch = a] = [epoch |-> a, offset |-> p.offset, step |-> p.step]
           /\ [p EXCEPT !.offset = a] = [epoch |-> p.epoch, offset |-> a, step |-> p.step]
           /\ [p EXCEPT !.step = a] = [epoch |-> p.epoch, offset |-> p.offset, step |-> a]
<1>1. PICK e, o, s \in Nat : p = [epoch |-> e, offset |-> o, step |-> s]
  BY DEF Positions
<1>2. QED
  BY <1>1

\* A batch: what it covers is trained on, and one batch more has been counted.
LEMMA FBatch == FInv /\ F!Batch => FInv'
<1> SUFFICES ASSUME FInv, F!Batch PROVE FInv'
  OBVIOUS
<1> DEFINE h == fholder
           pos == [epoch |-> fkv[h].epoch, offset |-> fn + 1, step |-> fkv[h].step + 1]
<1>1. PICK k \in Nat : /\ ffile \in [1..k -> Positions] /\ fkv \in [1..k -> Positions]
                       /\ fwaiting \subseteq 1..k /\ h \in 0..k
  BY DEF FInv, FTypeOK
<1>2. F!Runs = 1..k /\ h \in 1..k /\ fkv[h] \in Positions
  BY <1>1, FRuns DEF FInv, LoopOK, F!Batch
<1>3. /\ fsize \in Nat \ {0} /\ fat \in 0..FEntries /\ fat < FEntries
      /\ fn \in Nat /\ fn =< fat
      /\ \A x \in Nat : x < fat => <<fkv[h].epoch, x>> \in ftrained
      /\ fbatch \in Nat \ {0}
  BY DEF F!Batch, FInv, LoopOK
<1>4. fat' \in 0..FEntries /\ fat < fat' /\ fn' = fn + 1 /\ fn' =< fat'
  BY <1>3, FinetuneAssumption DEF F!Batch
<1>5. ftrained' = ftrained \cup ({fkv[h].epoch} \X (fat..(fat' - 1)))
  BY DEF F!Batch, F!Trained
<1>6. \A x \in Nat : x < fat' => <<fkv[h].epoch, x>> \in ftrained'
  BY <1>3, <1>4, <1>5
<1>7. pos \in Positions /\ pos.epoch = fkv[h].epoch /\ pos.offset = fn + 1
  BY <1>2, <1>3 DEF Positions
<1>8. fkv' = [fkv EXCEPT ![h] = pos]
  <2> DEFINE mid == [fkv EXCEPT ![h].step = @ + 1]
  <2>1. fkv' = [mid EXCEPT ![h].offset = fn + 1]
    BY DEF F!Batch
  <2>2. mid = [fkv EXCEPT ![h] = [epoch |-> fkv[h].epoch, offset |-> fkv[h].offset, step |-> fkv[h].step + 1]]
    BY <1>1, <1>2, FieldSet
  <2> HIDE DEF mid
  <2>3. mid \in [1..k -> Positions] /\ fkv' = [mid EXCEPT ![h] = [mid[h] EXCEPT !.offset = fn + 1]]
    BY <1>1, <1>2, <2>1, <2>2 DEF Positions
  <2>4. fkv' = [mid EXCEPT ![h] = pos]
    <3>1. mid[h] \in Positions
      BY <1>2, <2>3
    <3>2. [mid[h] EXCEPT !.offset = fn + 1] = [epoch |-> mid[h].epoch, offset |-> fn + 1, step |-> mid[h].step]
      BY <3>1, FieldSet
    <3>3. mid[h].epoch = pos.epoch /\ mid[h].step = pos.step
      BY <1>1, <1>2, <2>2
    <3>4. QED
      BY <2>3, <3>2, <3>3
  <2> HIDE DEF pos
  <2>5. QED
    BY <1>1, <1>2, <2>2, <2>4
<1>9. Behind(fkv[h], ftrained) /\ Behind(fkv[h], ftrained')
  BY <1>2, <1>5, BehindStays DEF FInv
<1>10. Behind(pos, ftrained')
  <2>1. \A e, x \in Nat : e < pos.epoch /\ x < FEntries => <<e, x>> \in ftrained'
    BY <1>7, <1>9 DEF Behind
  <2>2. \A x \in Nat : x < pos.offset => <<pos.epoch, x>> \in ftrained'
    BY <1>3, <1>4, <1>6, <1>7
  <2>3. pos.offset =< FEntries
    BY <1>3, <1>4, <1>7, FinetuneAssumption
  <2> HIDE DEF pos
  <2>4. QED
    BY <2>1, <2>2, <2>3 DEF Behind
<1> HIDE DEF pos
<1>11. \A r \in 1..k : Behind(ffile[r], ftrained') /\ Behind(fkv[r], ftrained')
  BY <1>2, <1>5, BehindStays DEF FInv
<1>12. fkv' \in [1..k -> Positions] /\ \A r \in 1..k : Behind(fkv'[r], ftrained')
  BY <1>1, <1>7, <1>8, <1>10, <1>11
<1>13. fkv'[h] = pos
  BY <1>1, <1>2, <1>8
<1>14. ffile' \in [1..k -> Positions] /\ \A r \in 1..k : Behind(ffile'[r], ftrained')
  <2>1. CASE F!Attempt(fkv'[h])
    BY <1>1, <1>2, <1>7, <1>10, <1>11, <1>13, <2>1, FAttempt
  <2>2. CASE UNCHANGED ffile
    BY <1>1, <1>11, <2>2
  <2>3. QED
    BY <2>1, <2>2 DEF F!Batch
<1>15. FTypeOK' /\ F!Runs' = 1..k
  BY <1>1, <1>12, <1>14 DEF FTypeOK, F!Runs, F!Batch
<1>16. LoopOK'
  <2>1. /\ fpc = "batch" /\ UNCHANGED <<fpc, fholder, fbatch, fsize>>
        /\ fkv'[h].epoch = fkv[h].epoch
    BY <1>7, <1>13 DEF F!Batch
  <2>2. QED
    BY <1>2, <1>3, <1>4, <1>6, <2>1 DEF LoopOK
<1>17. QED
  BY <1>12, <1>14, <1>15, <1>16 DEF FInv

\* The end of an epoch: all of it has been trained on.
LEMMA FEpochEnds == FInv /\ F!EpochEnds => FInv'
<1> SUFFICES ASSUME FInv, F!EpochEnds PROVE FInv'
  OBVIOUS
<1> DEFINE h == fholder
           pos == [epoch |-> fkv[h].epoch + 1, offset |-> 0, step |-> fkv[h].step]
<1>1. PICK k \in Nat : /\ ffile \in [1..k -> Positions] /\ fkv \in [1..k -> Positions]
                       /\ fwaiting \subseteq 1..k /\ h \in 0..k
  BY DEF FInv, FTypeOK
<1>2. F!Runs = 1..k /\ h \in 1..k /\ fkv[h] \in Positions
  BY <1>1, FRuns DEF FInv, LoopOK, F!EpochEnds
<1>3. \A x \in Nat : x < FEntries => <<fkv[h].epoch, x>> \in ftrained
  BY DEF F!EpochEnds, FInv, LoopOK
<1>4. pos \in Positions /\ pos.epoch = fkv[h].epoch + 1 /\ pos.offset = 0
  BY <1>2 DEF Positions
<1>5. fkv' = [fkv EXCEPT ![h] = pos]
  <2> DEFINE mid == [fkv EXCEPT ![h].epoch = @ + 1]
  <2>1. fkv' = [mid EXCEPT ![h].offset = 0]
    BY DEF F!EpochEnds
  <2>2. mid = [fkv EXCEPT ![h] = [epoch |-> fkv[h].epoch + 1, offset |-> fkv[h].offset, step |-> fkv[h].step]]
    BY <1>1, <1>2, FieldSet
  <2> HIDE DEF mid
  <2>3. mid \in [1..k -> Positions] /\ fkv' = [mid EXCEPT ![h] = [mid[h] EXCEPT !.offset = 0]]
    BY <1>1, <1>2, <2>1, <2>2 DEF Positions
  <2>4. fkv' = [mid EXCEPT ![h] = pos]
    <3>1. mid[h] \in Positions
      BY <1>2, <2>3
    <3>2. [mid[h] EXCEPT !.offset = 0] = [epoch |-> mid[h].epoch, offset |-> 0, step |-> mid[h].step]
      BY <3>1, FieldSet
    <3>3. mid[h].epoch = pos.epoch /\ mid[h].step = pos.step
      BY <1>1, <1>2, <2>2
    <3>4. QED
      BY <2>3, <3>2, <3>3
  <2> HIDE DEF pos
  <2>5. QED
    BY <1>1, <1>2, <2>2, <2>4
<1>6. ftrained' = ftrained
  BY DEF F!EpochEnds
<1>7. Behind(pos, ftrained)
  <2>1. Behind(fkv[h], ftrained) /\ fkv[h].epoch \in Nat
    BY <1>2 DEF FInv, Positions
  <2> HIDE DEF pos
  <2>2. ASSUME NEW e \in Nat, NEW x \in Nat, e < pos.epoch, x < FEntries
        PROVE  <<e, x>> \in ftrained
    <3>1. e < fkv[h].epoch \/ e = fkv[h].epoch
      BY <1>4, <2>1, <2>2
    <3>2. QED
      BY <1>3, <2>1, <2>2, <3>1 DEF Behind
  <2>3. pos.offset =< FEntries /\ \A x \in Nat : ~(x < pos.offset)
    BY <1>4, FinetuneAssumption
  <2>4. QED
    BY <2>2, <2>3 DEF Behind
<1> HIDE DEF pos
<1>8. \A r \in 1..k : Behind(ffile[r], ftrained) /\ Behind(fkv[r], ftrained)
  BY <1>2 DEF FInv
<1>9. fkv' \in [1..k -> Positions] /\ \A r \in 1..k : Behind(fkv'[r], ftrained')
  BY <1>1, <1>4, <1>5, <1>6, <1>7, <1>8
<1>10. fkv'[h] = pos
  BY <1>1, <1>2, <1>5
<1>11. ffile' \in [1..k -> Positions] /\ \A r \in 1..k : Behind(ffile'[r], ftrained')
  <2>1. F!Attempt(pos)
    BY <1>10 DEF F!EpochEnds
  <2>2. QED
    BY <1>1, <1>2, <1>4, <1>6, <1>7, <1>8, <2>1, FAttempt
<1>12. FTypeOK' /\ F!Runs' = 1..k
  BY <1>1, <1>9, <1>11 DEF FTypeOK, F!Runs, F!EpochEnds
<1>13. LoopOK'
  BY <1>2, <1>4, <1>10 DEF LoopOK, F!EpochEnds, FInv
<1>14. QED
  BY <1>9, <1>11, <1>12, <1>13 DEF FInv

LEMMA FStep == FInv /\ [F!Next]_(F!vars) => FInv'
<1> SUFFICES ASSUME FInv, [F!Next]_(F!vars) PROVE FInv'
  OBVIOUS
<1>0. PICK k \in Nat : /\ ffile \in [1..k -> Positions] /\ fkv \in [1..k -> Positions]
                       /\ fwaiting \subseteq 1..k /\ fholder \in 0..k
  BY DEF FInv, FTypeOK
<1>a. F!Runs = 1..k /\ \A r \in 1..k : Behind(ffile[r], ftrained) /\ Behind(fkv[r], ftrained)
  BY <1>0, FRuns DEF FInv
<1>1. CASE F!Start
  BY <1>1, FStart
<1>2. ASSUME NEW r \in fwaiting, F!Acquire(r) PROVE FInv'
  <2>1. /\ ffile' = ffile /\ fkv' = fkv /\ fholder' = r /\ fwaiting' \subseteq 1..k
        /\ ftrained' = ftrained
    BY <1>0, <1>2 DEF F!Acquire
  <2>2. FTypeOK'
    BY <1>0, <1>2, <2>1 DEF FTypeOK
  <2>3. LoopOK'
    BY <1>0, <1>2, <2>1 DEF F!Acquire, F!Machine, LoopOK
  <2>4. QED
    BY <1>a, <2>1, <2>2, <2>3 DEF FInv, F!Runs
<1>3. ASSUME NEW r \in fwaiting, F!StartFails(r) PROVE FInv'
  <2>1. /\ ffile' = [ffile EXCEPT ![r] = fkv[r]] /\ fkv' = fkv /\ fholder' = fholder
        /\ fwaiting' \subseteq 1..k /\ ftrained' = ftrained /\ r \in 1..k
    BY <1>0, <1>3 DEF F!StartFails
  <2>2. FTypeOK' /\ F!Runs' = 1..k
    BY <1>0, <2>1 DEF FTypeOK, F!Runs
  <2>3. LoopOK'
    BY <1>3 DEF F!StartFails, F!stream, LoopOK, FInv
  <2>4. QED
    BY <1>0, <1>a, <2>1, <2>2, <2>3 DEF FInv
<1>4. CASE F!Adapt
  <2>1. fbatch' \in Nat \ {0}
    BY <1>4 DEF F!Adapt, FInv, LoopOK
  <2>2. QED
    BY <1>4, <2>1 DEF F!Adapt, FInv, FTypeOK, LoopOK, F!Runs
<1>5. CASE F!EnterEpoch
  <2>1. /\ fholder \in 1..k /\ fbatch \in Nat \ {0} /\ fstart = fkv[fholder].offset
        /\ Behind(fkv[fholder], ftrained) /\ fkv[fholder] \in Positions
    BY <1>0, <1>a, <1>5 DEF F!EnterEpoch, FInv, LoopOK
  <2>2. fsize' \in Nat \ {0}
    BY <1>5, <2>1, FinetuneAssumption DEF F!EnterEpoch
  <2>3. fat' \in 0..FEntries /\ fat' =< fkv[fholder].offset
    BY <1>5, <2>1, FinetuneAssumption DEF F!EnterEpoch, F!PassedOver, Positions
  <2>4. \A x \in Nat : x < fat' => <<fkv[fholder].epoch, x>> \in ftrained
    BY <2>1, <2>3 DEF Behind, Positions
  <2>5. LoopOK'
    BY <1>5, <2>1, <2>2, <2>3, <2>4 DEF F!EnterEpoch, LoopOK
  <2>6. QED
    BY <1>5, <2>5 DEF F!EnterEpoch, FInv, FTypeOK, F!Runs
<1>6. CASE F!Batch
  BY <1>6, FBatch
<1>7. CASE F!EpochEnds
  BY <1>7, FEpochEnds
<1>8. CASE F!Complete
  <2>1. fholder # 0
    BY <1>8 DEF F!Complete, FInv, LoopOK
  <2>2. QED
    BY <1>8, <2>1, FEnds DEF F!Complete
<1>9. CASE F!Fails
  BY <1>9, FEnds DEF F!Fails
<1>10. CASE F!Killed
  <2>1. CASE \E r \in fwaiting \ {FMaxRuns} :
                fwaiting' = fwaiting \ {r} /\ UNCHANGED <<fmodels, fholder, fpc, fkv, F!stream>>
    <3>1. /\ fwaiting' \subseteq 1..k
          /\ UNCHANGED <<fholder, fpc, fkv, fbatch, fsize, fstart, fat, fn, ffile, ftrained>>
      BY <1>0, <1>10, <2>1 DEF F!Killed, F!stream
    <3>2. QED
      BY <1>0, <1>a, <3>1 DEF FInv, FTypeOK, LoopOK, F!Runs
  <2>2. CASE /\ fholder \in 1..(FMaxRuns - 1)
             /\ F!Ends /\ UNCHANGED fwaiting
    BY <1>10, <2>2, FEnds DEF F!Killed
  <2>3. QED
    BY <1>10, <2>1, <2>2 DEF F!Killed
<1>11. CASE UNCHANGED F!vars
  BY <1>11 DEF F!vars, F!stream, FInv, FTypeOK, LoopOK, F!Runs
<1>12. QED
  BY <1>1, <1>2, <1>3, <1>4, <1>5, <1>6, <1>7, <1>8, <1>9, <1>10, <1>11 DEF F!Next, F!Loop

\* No entry is lost.
THEOREM NoneLost == F!Spec => []EveryEntryTrained
<1>1. F!Init => FInv
  <2> SUFFICES ASSUME F!Init PROVE FInv
    OBVIOUS
  <2>1. ffile \in [1..0 -> Positions] /\ fkv \in [1..0 -> Positions] /\ fwaiting \subseteq 1..0 /\ fholder \in 0..0
    BY DEF F!Init
  <2>2. FTypeOK
    BY <2>1 DEF FTypeOK
  <2>3. F!Runs = {}
    BY <2>1, FRuns
  <2>4. QED
    BY <2>2, <2>3 DEF F!Init, FInv, LoopOK
<1>2. FInv => EveryEntryTrained
  <2> SUFFICES ASSUME FInv, NEW r \in F!Runs
               PROVE  ((0..(ffile[r].epoch - 1)) \X (0..(FEntries - 1)))
                         \cup ({ffile[r].epoch} \X (0..(ffile[r].offset - 1))) \subseteq ftrained
    BY DEF EveryEntryTrained, F!EveryEntryTrained
  <2>1. ffile[r] \in Positions
    BY FRuns DEF FInv, FTypeOK
  <2>2. QED
    BY <2>1, FinetuneAssumption DEF FInv, Behind, Positions
<1>3. QED
  BY <1>1, <1>2, FStep, PTL DEF F!Spec
=============================================================================
