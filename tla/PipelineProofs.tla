---------------------------- MODULE PipelineProofs ----------------------------
(***************************************************************************)
(* Proofs about the orchestrator for every list of sources and every limit *)
(* on the number that work at a time; about the quota manager for every    *)
(* set of writers, every quota, every margin and every length of behaviour *)
(* (the bound MaxTotal is arbitrary); and about the checkpoint for every   *)
(* number of runs and processes and every length of the stream.            *)
(***************************************************************************)
EXTENDS MCPipeline, FiniteSetTheorems, WellFoundedInduction, TLAPS

\* The positions of sources are natural numbers, and no two sources share one.
LEMMA Positions ==
    /\ \A s \in Sources : Position(s) \in Nat /\ Order[Position(s)] = s
    /\ \A r, s \in Sources : Position(r) = Position(s) => r = s
<1>1. \A s \in Sources : \E i \in DOMAIN Order : Order[i] = s
  BY DEF Sources
<1>2. \A s \in Sources : Position(s) \in DOMAIN Order /\ Order[Position(s)] = s
  BY <1>1 DEF Position
<1>3. DOMAIN Order \subseteq Nat
  BY OrchestratorAssumption
<1>4. QED
  BY <1>2, <1>3

\* The type invariant, for every list of sources and every limit.  That the
\* permits never pass their maximum needs their conservation, so the two are
\* one induction.
Conserved ==
    /\ TypeOK
    /\ IsFiniteSet(Working)
    /\ PermitsConserved

\* A task that becomes "working" adds one to the workers, ...
LEMMA OneMore ==
    ASSUME Conserved, NEW s \in Sources, permits > 0,
           task[s] # "working",
           task' = [task EXCEPT ![s] = "working"], permits' = permits - 1
    PROVE  permits' \in 0..MaxConcurrent /\ IsFiniteSet(Working') /\ PermitsConserved'
<1> USE OrchestratorAssumption DEF Conserved, TypeOK
<1>1. Working' = Working \cup {s} /\ s \notin Working
  BY DEF Working
<1>2. /\ IsFiniteSet(Working')
      /\ Cardinality(Working') = Cardinality(Working) + 1
  BY <1>1, FS_AddElement
<1>3. Cardinality(Working) \in Nat
  BY FS_CardinalityType
<1>4. QED
  BY <1>2, <1>3 DEF PermitsConserved

\* ... and one that ends takes one away.
LEMMA OneLess ==
    ASSUME Conserved, NEW s \in Sources, Release(s)
    PROVE  permits' \in 0..MaxConcurrent /\ IsFiniteSet(Working') /\ PermitsConserved'
<1> USE OrchestratorAssumption DEF Conserved, TypeOK
<1>1. Working' = Working \ {s} /\ s \in Working
  BY DEF Working, Release
<1>2. /\ IsFiniteSet(Working')
      /\ Cardinality(Working') = Cardinality(Working) - 1
  BY <1>1, FS_RemoveElement
<1>3. Cardinality(Working) \in Nat /\ Cardinality(Working') \in Nat
  BY <1>2, FS_CardinalityType
<1>4. permits' = permits + 1
  BY DEF Release
<1>5. QED
  BY <1>2, <1>3, <1>4 DEF PermitsConserved

LEMMA ConservedInv == Spec => []Conserved
<1>1. Init => Conserved
  <2> SUFFICES ASSUME Init PROVE Conserved
    OBVIOUS
  <2>1. TypeOK
    <3>1. stop \in BOOLEAN /\ over \in BOOLEAN
      BY DEF Init
    <3>2. began \in Seq(Sources) /\ permits \in 0..MaxConcurrent
      BY OrchestratorAssumption DEF Init
    <3>3. QED
      BY <3>1, <3>2 DEF Init, TypeOK
  <2>2. Working = {}
    BY DEF Init, Working
  <2>3. QED
    BY <2>1, <2>2, FS_EmptySet, OrchestratorAssumption DEF Conserved, PermitsConserved, Init
<1>2. Conserved /\ [Next]_vars => Conserved'
  <2> SUFFICES ASSUME Conserved, [Next]_vars PROVE Conserved'
    OBVIOUS
  <2> USE OrchestratorAssumption DEF Conserved, TypeOK
  <2>1. ASSUME NEW s \in Sources, Acquire(s) PROVE Conserved'
    <3>1. CASE task' = [task EXCEPT ![s] = "finished"] /\ permits' = permits
      <4>1. Working' = Working
        BY <3>1, <2>1 DEF Acquire, NextInLine, Working
      <4>2. IsFiniteSet(Working') /\ PermitsConserved'
        BY <3>1, <4>1 DEF PermitsConserved
      <4>3. TypeOK'
        BY <3>1, <2>1 DEF Acquire, history
      <4>4. QED
        BY <4>2, <4>3
    <3>2. CASE /\ task' = [task EXCEPT ![s] = "working"] /\ permits' = permits - 1
               /\ began' = Append(began, s)
               /\ late' = (IF stop THEN late \cup {s} ELSE late)
               /\ UNCHANGED broken
      <4>1. permits > 0 /\ task[s] # "working"
        BY <2>1 DEF Acquire, NextInLine
      <4>2. permits' \in 0..MaxConcurrent /\ IsFiniteSet(Working') /\ PermitsConserved'
        BY <3>2, <4>1, OneMore
      <4>3. TypeOK'
        BY <3>2, <4>2, <2>1 DEF Acquire
      <4>4. QED
        BY <4>2, <4>3
    <3>3. QED
      BY <2>1, <3>1, <3>2 DEF Acquire, history
  <2>2. ASSUME NEW s \in Sources, WorkerCompletes(s) \/ WorkerFails(s) \/ WorkerRaises(s)
        PROVE  Conserved'
    <3>1. Release(s)
      BY <2>2 DEF WorkerCompletes, WorkerFails, WorkerRaises
    <3>2. permits' \in 0..MaxConcurrent /\ IsFiniteSet(Working') /\ PermitsConserved'
      BY <3>1, OneLess
    <3>3. TypeOK'
      BY <3>1, <3>2, <2>2 DEF Release, WorkerCompletes, WorkerFails, WorkerRaises
    <3>4. QED
      BY <3>2, <3>3
  <2>3. ASSUME UNCHANGED <<task, permits, result, mark, began, late, broken>>,
               stop' \in BOOLEAN, over' \in BOOLEAN
        PROVE  Conserved'
    BY <2>3 DEF Working, PermitsConserved
  <2>4. CASE RequestStop \/ GatherReturns \/ UNCHANGED vars
    BY <2>3, <2>4 DEF RequestStop, GatherReturns, vars, history
  <2>5. QED
    BY <2>1, <2>2, <2>4 DEF Next
<1>3. QED
  BY <1>1, <1>2, PTL DEF Spec

\* The type invariant of the orchestrator: among the rest, the semaphore's
\* value never passes max_concurrent_sources.
THEOREM TypeCorrect == Spec => []TypeOK
<1>1. Conserved => TypeOK
  BY DEF Conserved
<1>2. QED
  BY <1>1, ConservedInv, PTL

\* No permit of the semaphore is lost or made: at every moment the free permits
\* and the working sources add up to max_concurrent_sources.
THEOREM Permits == Spec => []PermitsConserved
<1>1. Conserved => PermitsConserved
  BY DEF Conserved
<1>2. QED
  BY <1>1, ConservedInv, PTL

\* No worker is built once the stop event is set.
THEOREM StopRespected == Spec => []NoneBeginsAfterStop
<1>1. Init => NoneBeginsAfterStop
  BY DEF Init, NoneBeginsAfterStop
<1>2. NoneBeginsAfterStop /\ [Next]_vars => NoneBeginsAfterStop'
  <2> SUFFICES ASSUME NoneBeginsAfterStop, [Next]_vars PROVE late' = {}
    BY DEF NoneBeginsAfterStop
  <2>1. ASSUME NEW s \in Sources, Acquire(s) PROVE late' = {}
    BY <2>1 DEF Acquire, StopSeen, NoneBeginsAfterStop, history
  <2>2. QED
    BY <2>1 DEF Next, NoneBeginsAfterStop, WorkerCompletes, WorkerFails, WorkerRaises, Release,
                RequestStop, GatherReturns, vars, history
<1>3. QED
  BY <1>1, <1>2, PTL DEF Spec

\* Sources begin in the order of the configuration.  The induction needs that
\* the waiting tasks are the last of the order and that none that began waits.
Queue ==
    /\ \A r, s \in Sources :
          Position(r) < Position(s) /\ task[r] = "waiting" => task[s] = "waiting"
    /\ \A i \in DOMAIN began : task[began[i]] # "waiting"
    /\ BegunInOrder

THEOREM InOrder == Spec => []BegunInOrder
<1>1. Init => Queue
  <2> SUFFICES ASSUME Init PROVE Queue
    OBVIOUS
  <2>1. DOMAIN began = {}
    BY DEF Init
  <2>2. \A s \in Sources : task[s] = "waiting"
    BY DEF Init
  <2>3. QED
    BY <2>1, <2>2 DEF Queue, BegunInOrder
<1>2. TypeOK /\ Queue /\ [Next]_vars => Queue'
  <2> SUFFICES ASSUME TypeOK, Queue, [Next]_vars PROVE Queue'
    OBVIOUS
  <2> USE DEF TypeOK
  <2>1. ASSUME NEW s \in Sources, Acquire(s) PROVE Queue'
    <3>1. /\ task[s] = "waiting"
          /\ \A r \in Sources : Position(r) < Position(s) => task[r] # "waiting"
      BY <2>1 DEF Acquire, NextInLine
    <3>2. \A r \in Sources : r # s => task'[r] = task[r]
      BY <2>1 DEF Acquire
    <3>3. task'[s] # "waiting"
      BY <2>1 DEF Acquire
    <3>4. ASSUME NEW r \in Sources, NEW t \in Sources,
                 Position(r) < Position(t), task'[r] = "waiting"
          PROVE  task'[t] = "waiting"
      <4>1. r # s /\ task[r] = "waiting"
        BY <3>2, <3>3, <3>4
      <4>2. t # s
        BY <3>1, <3>4, <4>1
      <4>3. task[t] = "waiting"
        BY <3>4, <4>1 DEF Queue
      <4>4. QED
        BY <3>2, <4>2, <4>3
    <3>5. CASE began' = began
      <4>1. \A i \in DOMAIN began : began[i] # s /\ began[i] \in Sources
        BY <3>1 DEF Queue
      <4>2. \A i \in DOMAIN began' : task'[began'[i]] # "waiting"
        BY <3>2, <3>5, <4>1 DEF Queue
      <4>3. BegunInOrder'
        BY <3>5 DEF Queue, BegunInOrder
      <4>4. QED
        BY <3>4, <4>2, <4>3 DEF Queue
    <3>6. CASE began' = Append(began, s)
      <4>1. \A i \in DOMAIN began : began[i] \in Sources /\ began[i] # s
        BY <3>1 DEF Queue
      <4>2. \A i \in DOMAIN began : Position(began[i]) < Position(s)
        <5> SUFFICES ASSUME NEW i \in DOMAIN began PROVE Position(began[i]) < Position(s)
          OBVIOUS
        <5>1. ~(Position(s) < Position(began[i]))
          BY <3>1, <4>1 DEF Queue
        <5>2. Position(s) # Position(began[i])
          BY <4>1, Positions
        <5>3. Position(s) \in Nat /\ Position(began[i]) \in Nat
          BY <4>1, Positions
        <5>4. QED
          BY <5>1, <5>2, <5>3
      <4>3. /\ DOMAIN began' = 1..(Len(began) + 1) /\ DOMAIN began = 1..Len(began)
            /\ Len(began) \in Nat
            /\ \A i \in DOMAIN began : began'[i] = began[i]
            /\ began'[Len(began) + 1] = s
        BY <3>6
      <4>4. \A i \in DOMAIN began' : task'[began'[i]] # "waiting"
        BY <3>2, <3>3, <4>1, <4>3 DEF Queue
      <4>5. BegunInOrder'
        <5> SUFFICES ASSUME NEW i \in DOMAIN began', NEW j \in DOMAIN began', i < j
                     PROVE  Position(began'[i]) < Position(began'[j])
          BY DEF BegunInOrder
        <5>1. i \in DOMAIN began /\ began'[i] = began[i]
          BY <4>3
        <5>2. CASE j \in DOMAIN began
          BY <5>1, <5>2, <4>3 DEF Queue, BegunInOrder
        <5>3. CASE j = Len(began) + 1
          BY <5>1, <5>3, <4>2, <4>3
        <5>4. QED
          BY <5>2, <5>3, <4>3
      <4>6. QED
        BY <3>4, <4>4, <4>5 DEF Queue
    <3>7. QED
      BY <2>1, <3>5, <3>6 DEF Acquire, history
  <2>2. ASSUME NEW s \in Sources, Release(s) PROVE Queue'
    <3>1. began' = began /\ task' = [task EXCEPT ![s] = "finished"] /\ task[s] = "working"
      BY <2>2 DEF Release
    <3>2. \A r \in Sources : task'[r] = "waiting" <=> task[r] = "waiting"
      BY <3>1
    <3>3. \A i \in DOMAIN began : began[i] \in Sources
      OBVIOUS
    <3>4. QED
      BY <3>1, <3>2, <3>3 DEF Queue, BegunInOrder
  <2>3. CASE UNCHANGED <<task, began>>
    BY <2>3 DEF Queue, BegunInOrder
  <2>4. QED
    BY <2>1, <2>2, <2>3 DEF Next, WorkerCompletes, WorkerFails, WorkerRaises,
                            RequestStop, GatherReturns, vars, history
<1>3. Queue => BegunInOrder
  BY DEF Queue
<1>4. QED
  BY <1>1, <1>2, <1>3, TypeCorrect, PTL DEF Spec
\* The run is over only when every source has a result that its checkpoint
\* bears out, or was stopped, or broke.  The induction follows each task: one
\* that has finished has its reason, and gather waits for all of them.
Reasons ==
    /\ \A s \in Sources : result[s] # "none" => mark[s] = result[s]
    /\ \A s \in Sources : task[s] = "finished" /\ result[s] = "none" => stop \/ s \in broken
    /\ over => AllDone

THEOREM OverIsDone == Spec => []OverMeansDone
<1>1. Init => Reasons
  BY DEF Init, Reasons
<1>2. TypeOK /\ Reasons /\ [Next]_vars => Reasons'
  <2> SUFFICES ASSUME TypeOK, Reasons, [Next]_vars PROVE Reasons'
    OBVIOUS
  <2> USE DEF TypeOK, Reasons, AllDone
  <2>1. ASSUME NEW s \in Sources, Acquire(s) PROVE Reasons'
    <3>1. task[s] = "waiting" /\ ~over
      BY <2>1 DEF Acquire, NextInLine
    <3>2. QED
      BY <2>1, <3>1 DEF Acquire, StopSeen, history
  <2>2. ASSUME NEW s \in Sources, Release(s), over' PROVE FALSE
    BY <2>2 DEF Release
  <2>3. ASSUME NEW s \in Sources, WorkerCompletes(s) PROVE Reasons'
    BY <2>2, <2>3 DEF WorkerCompletes, Release
  <2>4. ASSUME NEW s \in Sources, WorkerFails(s) \/ WorkerRaises(s) PROVE Reasons'
    BY <2>2, <2>4 DEF WorkerFails, WorkerRaises, Release
  <2>5. CASE RequestStop \/ GatherReturns \/ UNCHANGED vars
    BY <2>5 DEF RequestStop, GatherReturns, history, vars
  <2>6. QED
    BY <2>1, <2>3, <2>4, <2>5 DEF Next
<1>3. TypeOK /\ Reasons => OverMeansDone
  BY DEF TypeOK, Reasons, AllDone, OverMeansDone, Working
<1>4. QED
  BY <1>1, <1>2, <1>3, TypeCorrect, PTL DEF Spec
-----------------------------------------------------------------------------
(***************************************************************************)
(* The quota manager.  The parameters are what QuotaManager.__init__ is    *)
(* given: limits in bytes, and records of at least one byte (the newline   *)
(* of to_jsonl).                                                           *)
(***************************************************************************)

\* The counters stay numbers and the flags stay flags.
THEOREM QuotaTypeCorrect == Q!Spec => []Q!TypeOK
<1>1. Q!Init => Q!TypeOK
  <2> SUFFICES ASSUME Q!Init PROVE Q!TypeOK
    OBVIOUS
  <2>1. paused \in [Writers -> BOOLEAN] /\ pausedGlobal \in BOOLEAN
    BY DEF Q!Init
  <2>2. disk \in Nat /\ diskFree \in Nat
    BY QuotaParameters DEF Q!Init, Q!Samples, Q!QuotaAssumption
  <2>3. QED
    BY <2>1, <2>2 DEF Q!Init, Q!TypeOK
<1>2. Q!TypeOK /\ [Q!Next]_(Q!vars) => Q!TypeOK'
  <2> SUFFICES ASSUME Q!TypeOK, [Q!Next]_(Q!vars) PROVE Q!TypeOK'
    OBVIOUS
  <2> USE QuotaParameters DEF Q!TypeOK, Q!QuotaAssumption
  <2> DEFINE Asked == diskFree' \in Nat /\ paused' \in [Writers -> BOOLEAN] /\ pausedGlobal' \in BOOLEAN
  <2>1. ASSUME NEW s \in Writers, NEW due \in BOOLEAN, NEW free \in Q!Samples,
               Q!AskEffect(s, due, free)
        PROVE  Asked
    BY <2>1 DEF Q!AskEffect, Q!SampleAfter, Q!PausedAfter, Q!Samples, Q!Exhausted, Q!Limited, Q!GlobalExhausted
  <2>2. ASSUME NEW s \in Writers, Q!CanWrite(s) PROVE Q!TypeOK'
    BY <2>1, <2>2 DEF Q!CanWrite
  <2>3. ASSUME NEW s \in Writers, NEW n \in 1..MaxRecord, Q!Write(s, n) PROVE Q!TypeOK'
    <3>1. Asked
      BY <2>1, <2>3 DEF Q!Write
    <3>2. n \in Nat
      OBVIOUS
    <3>3. QED
      BY <3>1, <3>2, <2>3 DEF Q!Write
  <2>4. ASSUME NEW s \in Writers, Q!ResumeSource(s) PROVE Q!TypeOK'
    BY <2>4 DEF Q!ResumeSource
  <2>5. CASE Q!ResumeGlobal
    BY <2>5 DEF Q!ResumeGlobal, Q!Samples
  <2>6. ASSUME NEW d \in DiskSizes, Q!DiskChanges(d) PROVE Q!TypeOK'
    BY <2>6 DEF Q!DiskChanges
  <2>7. CASE Q!Restart
    BY <2>7 DEF Q!Restart, Q!Samples
  <2>8. CASE UNCHANGED Q!vars
    BY <2>8 DEF Q!vars
  <2>9. QED
    BY <2>2, <2>3, <2>4, <2>5, <2>6, <2>7, <2>8 DEF Q!Next
<1>3. QED
  BY <1>1, <1>2, PTL DEF Q!Spec

-----------------------------------------------------------------------------
\* A write that can_write allowed found the source, and the whole, below their
\* limits: this is the only fact about can_write the bound rests on.
LEMMA AllowedIsBelow ==
  ASSUME NEW s \in Writers, NEW n, Q!Write(s, n)
  PROVE  ~Q!Exhausted(s) /\ ~Q!GlobalExhausted
BY DEF Q!Write, Q!Refused

\* No interleaving of the workers takes a source, or the whole, past its limit
\* by a whole record.  The invariant is inductive once types are known: a write
\* starts below the limit and adds at most MaxRecord.
THEOREM Overshoot == Q!Spec => []OvershootBounded
<1>1. Q!Init => Q!OvershootBounded
  BY QuotaParameters DEF Q!Init, Q!OvershootBounded, Q!Limited, Q!QuotaAssumption
<1>2. Q!TypeOK /\ Q!OvershootBounded /\ [Q!Next]_(Q!vars) => Q!OvershootBounded'
  <2> SUFFICES ASSUME Q!TypeOK, Q!OvershootBounded, [Q!Next]_(Q!vars)
               PROVE  Q!OvershootBounded'
    OBVIOUS
  <2> USE QuotaParameters DEF Q!TypeOK, Q!Limited, Q!QuotaAssumption
  <2>1. ASSUME NEW s \in Writers, NEW n \in 1..MaxRecord, Q!Write(s, n)
        PROVE  Q!OvershootBounded'
    <3>1. ~Q!Exhausted(s) /\ ~Q!GlobalExhausted
      BY <2>1, AllowedIsBelow
    <3>2. /\ used' = [used EXCEPT ![s] = @ + n]
          /\ globalUsed' = globalUsed + n
          /\ n \in Nat /\ n <= MaxRecord
      BY <2>1 DEF Q!Write
    <3>3. ASSUME NEW t \in Writers, Q!Limited(t) PROVE used'[t] < MaxBytes[t] + MaxRecord
      <4>1. CASE t = s
        BY <3>1, <3>2, <3>3, <4>1 DEF Q!Exhausted
      <4>2. CASE t # s
        BY <3>2, <3>3, <4>2 DEF Q!OvershootBounded
      <4>3. QED
        BY <4>1, <4>2
    <3>4. GlobalMax > 0 => globalUsed' < GlobalMax + MaxRecord
      BY <3>1, <3>2 DEF Q!GlobalExhausted
    <3>5. QED
      BY <3>3, <3>4 DEF Q!OvershootBounded
  <2>2. ASSUME UNCHANGED <<used, globalUsed>> PROVE Q!OvershootBounded'
    BY <2>2 DEF Q!OvershootBounded
  <2>3. CASE Q!Restart
    BY <2>3 DEF Q!Restart, Q!OvershootBounded
  <2>4. QED
    BY <2>1, <2>2, <2>3 DEF Q!Next, Q!CanWrite, Q!ResumeSource, Q!ResumeGlobal, Q!DiskChanges, Q!vars
<1>3. QED
  BY <1>1, <1>2, QuotaTypeCorrect, PTL DEF Q!Spec, OvershootBounded, Q!OvershootBounded

-----------------------------------------------------------------------------
\* What asking does to the flags, in the form the two invariants below need.
LEMMA AskSetsFlags ==
  ASSUME Q!TypeOK, NEW s \in Writers, NEW due \in BOOLEAN, NEW free \in Q!Samples,
         Q!AskEffect(s, due, free)
  PROVE  /\ \A t \in Writers : paused'[t] => paused[t] \/ (t = s /\ Q!Exhausted(s))
         /\ pausedGlobal' =>
              \/ pausedGlobal /\ ~(diskFree' > SafetyMargin * 2 /\ due)
              \/ Q!GlobalExhausted
              \/ diskFree' < SafetyMargin
         /\ ~due => diskFree' = diskFree
BY DEF Q!AskEffect, Q!PausedAfter, Q!SampleAfter, Q!TypeOK

\* can_write marks a source as paused for its own quota only, and the usage of
\* a source never falls within a process, so the flag never outlives its cause.
THEOREM PausedJustified == Q!Spec => []Q!PausedIsExhausted
<1>1. Q!Init => Q!PausedIsExhausted
  BY DEF Q!Init, Q!PausedIsExhausted
<1>2. Q!TypeOK /\ Q!PausedIsExhausted /\ [Q!Next]_(Q!vars) => Q!PausedIsExhausted'
  <2> SUFFICES ASSUME Q!TypeOK, Q!PausedIsExhausted, [Q!Next]_(Q!vars),
                      NEW t \in Writers, paused'[t]
               PROVE  Q!Exhausted(t)'
    BY DEF Q!PausedIsExhausted
  <2> USE QuotaParameters DEF Q!TypeOK, Q!Exhausted, Q!Limited, Q!QuotaAssumption
  <2>1. ASSUME NEW s \in Writers, Q!CanWrite(s) PROVE Q!Exhausted(t)'
    <3>1. paused[t] \/ Q!Exhausted(t)
      BY <2>1, AskSetsFlags DEF Q!CanWrite
    <3>2. QED
      BY <2>1, <3>1 DEF Q!CanWrite, Q!PausedIsExhausted
  <2>2. ASSUME NEW s \in Writers, NEW n \in 1..MaxRecord, Q!Write(s, n) PROVE Q!Exhausted(t)'
    <3>1. paused[t] \/ Q!Exhausted(t)
      BY <2>2, AskSetsFlags DEF Q!Write
    <3>2. Q!Exhausted(t)
      BY <3>1 DEF Q!PausedIsExhausted
    <3>3. used'[t] >= used[t] /\ used'[t] \in Nat
      BY <2>2 DEF Q!Write
    <3>4. QED
      BY <3>2, <3>3
  <2>3. ASSUME NEW s \in Writers, Q!ResumeSource(s) PROVE Q!Exhausted(t)'
    BY <2>3 DEF Q!ResumeSource, Q!PausedIsExhausted
  <2>4. ASSUME UNCHANGED <<used, paused>> PROVE Q!Exhausted(t)'
    BY <2>4 DEF Q!PausedIsExhausted
  <2>5. CASE Q!Restart
    BY <2>5 DEF Q!Restart
  <2>6. QED
    BY <2>1, <2>2, <2>3, <2>4, <2>5 DEF Q!Next, Q!ResumeGlobal, Q!DiskChanges, Q!vars
<1>3. QED
  BY <1>1, <1>2, QuotaTypeCorrect, PTL DEF Q!Spec

-----------------------------------------------------------------------------
\* A global pause always has a cause that still holds: writes do not lower the
\* global usage, and a sample above twice the margin ends the pause.
THEOREM GlobalPause == Q!Spec => []GlobalPauseJustified
<1>1. Q!Init => Q!GlobalPauseJustified
  BY DEF Q!Init, Q!GlobalPauseJustified
<1>2. Q!TypeOK /\ Q!GlobalPauseJustified /\ [Q!Next]_(Q!vars) => Q!GlobalPauseJustified'
  <2> SUFFICES ASSUME Q!TypeOK, Q!GlobalPauseJustified, [Q!Next]_(Q!vars), pausedGlobal'
               PROVE  Q!GlobalExhausted' \/ diskFree' <= SafetyMargin * 2
    BY DEF Q!GlobalPauseJustified
  <2> USE QuotaParameters DEF Q!TypeOK, Q!QuotaAssumption
  <2>1. ASSUME NEW s \in Writers, NEW due \in BOOLEAN, NEW free \in Q!Samples,
               Q!AskEffect(s, due, free), diskFree' \in Nat
        PROVE  Q!GlobalExhausted \/ diskFree' <= SafetyMargin * 2
    <3>1. CASE Q!GlobalExhausted
      BY <3>1
    <3>2. CASE diskFree' < SafetyMargin
      BY <2>1, <3>2
    <3>3. CASE pausedGlobal /\ ~(diskFree' > SafetyMargin * 2 /\ due)
      BY <2>1, <3>3, AskSetsFlags DEF Q!GlobalPauseJustified
    <3>4. QED
      BY <2>1, <3>1, <3>2, <3>3, AskSetsFlags
  <2>2. \A s \in Writers, due \in BOOLEAN, free \in Q!Samples :
           Q!AskEffect(s, due, free) => diskFree' \in Nat
    BY DEF Q!AskEffect, Q!SampleAfter, Q!Samples
  <2>3. ASSUME NEW s \in Writers, Q!CanWrite(s)
        PROVE  Q!GlobalExhausted' \/ diskFree' <= SafetyMargin * 2
    BY <2>1, <2>2, <2>3 DEF Q!CanWrite, Q!GlobalExhausted
  <2>4. ASSUME NEW s \in Writers, NEW n \in 1..MaxRecord, Q!Write(s, n)
        PROVE  Q!GlobalExhausted' \/ diskFree' <= SafetyMargin * 2
    <3>1. Q!GlobalExhausted \/ diskFree' <= SafetyMargin * 2
      BY <2>1, <2>2, <2>4 DEF Q!Write
    <3>2. globalUsed' >= globalUsed /\ globalUsed' \in Nat
      BY <2>4 DEF Q!Write
    <3>3. QED
      BY <3>1, <3>2 DEF Q!GlobalExhausted
  <2>5. ASSUME UNCHANGED <<globalUsed, pausedGlobal, diskFree>>
        PROVE  Q!GlobalExhausted' \/ diskFree' <= SafetyMargin * 2
    BY <2>5 DEF Q!GlobalPauseJustified, Q!GlobalExhausted
  <2>6. CASE Q!ResumeGlobal \/ Q!Restart
    BY <2>6 DEF Q!ResumeGlobal, Q!Restart
  <2>7. QED
    BY <2>3, <2>4, <2>5, <2>6 DEF Q!Next, Q!ResumeSource, Q!DiskChanges, Q!vars
<1>3. QED
  BY <1>1, <1>2, QuotaTypeCorrect, PTL DEF Q!Spec, GlobalPauseJustified, Q!GlobalPauseJustified

-----------------------------------------------------------------------------
\* A set of natural numbers that is not empty has a least element.
LEMMA LeastExists ==
    ASSUME NEW I \in SUBSET Nat, I # {}
    PROVE  \E x \in I : \A y \in I : x =< y
<1> DEFINE R == OpToRel(<, Nat)
<1>1. PICK x \in I : \A y \in I : <<y, x>> \notin R
  <2>1. IsWellFoundedOn(R, Nat)
    BY NatLessThanWellFounded
  <2> HIDE DEF R
  <2>2. QED
    BY <2>1, WFMin
<1>2. \A y \in I : ~(y < x)
  BY <1>1 DEF OpToRel
<1>3. QED
  BY <1>2

\* The sum AccountingAgrees is about, as the recursive function that defines it.
Summand(f, S) == IF S = {} THEN 0 ELSE LET x == CHOOSE x \in S : TRUE IN used[x] + f[S \ {x}]
Sums[S \in SUBSET Writers] == Summand(Sums, S)

LEMMA AgreesIsSums == Q!AccountingAgrees <=> globalUsed = Sums[Writers]
BY DEF Q!AccountingAgrees, Q!MapThenSumSet, Q!MapThenFoldSet, Sums, Summand

\* A function that adds up the bytes of the writers, one at a time and in
\* whatever order.
Adds(g) ==
    /\ g \in [SUBSET Writers -> Nat]
    /\ g[{}] = 0
    /\ \A S \in SUBSET Writers, x \in Writers : x \notin S => g[S \cup {x}] = g[S] + used[x]

\* There is at most one such function on finite sets, and Sums is it.
LEMMA SumsAdd ==
    ASSUME used \in [Writers -> Nat], NEW g, Adds(g)
    PROVE  Sums[Writers] = g[Writers]
<1>0. IsFiniteSet(Writers)
  BY QuotaParameters DEF Q!QuotaAssumption, Q!IsFiniteSet, IsFiniteSet
<1>1. \A S \in SUBSET Writers : S # {} =>
          LET x == CHOOSE x \in S : TRUE
          IN  x \in S /\ g[S] = used[x] + g[S \ {x}]
  <2> SUFFICES ASSUME NEW S \in SUBSET Writers, S # {}
               PROVE  LET x == CHOOSE x \in S : TRUE IN x \in S /\ g[S] = used[x] + g[S \ {x}]
    OBVIOUS
  <2> DEFINE x == CHOOSE x \in S : TRUE
  <2>1. x \in S
    OBVIOUS
  <2> HIDE DEF x
  <2>2. /\ S \ {x} \in SUBSET Writers /\ x \in Writers /\ x \notin S \ {x}
        /\ (S \ {x}) \cup {x} = S
    BY <2>1
  <2>3. g[(S \ {x}) \cup {x}] = g[S \ {x}] + used[x]
    BY <2>2 DEF Adds
  <2>4. g[S \ {x}] \in Nat /\ used[x] \in Nat
    BY <2>2 DEF Adds
  <2>5. g[S] = used[x] + g[S \ {x}]
    BY <2>2, <2>3, <2>4
  <2>6. QED
    BY <2>1, <2>5 DEF x
<1>2. g = [S \in SUBSET Writers |-> Summand(g, S)]
  <2>1. \A S \in SUBSET Writers : g[S] = Summand(g, S)
    BY <1>1 DEF Summand, Adds
  <2>2. QED
    BY <2>1 DEF Adds
<1>3. Sums = [S \in SUBSET Writers |-> Summand(Sums, S)]
  BY <1>2 DEF Sums
<1>4. \A S \in SUBSET Writers : IsFiniteSet(S) /\ Cardinality(S) \in Nat
  BY <1>0, FS_Subset, FS_CardinalityType
<1> DEFINE Sizes == {n \in Nat : \E S \in SUBSET Writers : Cardinality(S) = n /\ Sums[S] # g[S]}
<1>5. CASE Sizes = {}
  BY <1>4, <1>5
<1>6. CASE Sizes # {}
  <2>1. PICK n \in Sizes : \A m \in Sizes : n <= m
    <3>1. Sizes \in SUBSET Nat
      OBVIOUS
    <3> HIDE DEF Sizes
    <3>2. QED
      BY <1>6, <3>1, LeastExists
  <2>2. PICK S \in SUBSET Writers : Cardinality(S) = n /\ Sums[S] # g[S]
    OBVIOUS
  <2>3. Sums[S] = Summand(Sums, S) /\ g[S] = Summand(g, S)
    BY <1>2, <1>3
  <2>4. S # {}
    BY <2>2, <2>3 DEF Summand
  <2> DEFINE x == CHOOSE x \in S : TRUE
  <2>5. x \in S /\ Sums[S] = used[x] + Sums[S \ {x}] /\ g[S] = used[x] + g[S \ {x}]
    BY <2>3, <2>4 DEF Summand
  <2> HIDE DEF x
  <2>6. S \ {x} \in SUBSET Writers /\ Cardinality(S \ {x}) = n - 1
    BY <1>4, <2>2, <2>5, FS_RemoveElement
  <2>7. Cardinality(S \ {x}) \notin Sizes
    <3>1. n \in Nat
      BY <2>1
    <3>2. ~(n <= n - 1)
      BY <3>1
    <3> HIDE DEF Sizes
    <3>3. QED
      BY <2>1, <2>6, <3>2
  <2>8. Sums[S \ {x}] = g[S \ {x}]
    BY <1>4, <2>6, <2>7
  <2>9. QED
    BY <2>2, <2>5, <2>8
<1>7. QED
  BY <1>5, <1>6

\* The global counter is the sum of the counters of the writers.
GlobalIsSum == \E g : Adds(g) /\ g[Writers] = globalUsed

\* Every write adds as much to its source as to the whole, and a new process
\* starts both from nothing.
THEOREM AccountsAgree == Q!Spec => []AccountingAgrees
<1>1. ASSUME used = [s \in Writers |-> 0], globalUsed = 0
      PROVE  GlobalIsSum
  <2> DEFINE g == [S \in SUBSET Writers |-> 0]
  <2>1. Adds(g) /\ g[Writers] = globalUsed
    BY <1>1 DEF Adds
  <2>2. QED
    BY <2>1 DEF GlobalIsSum
<1>2. ASSUME Q!Restart PROVE GlobalIsSum'
  <2> DEFINE g == [S \in SUBSET Writers |-> 0]
  <2>1. Adds(g)' /\ g[Writers] = globalUsed'
    BY <1>2 DEF Adds, Q!Restart
  <2>2. QED
    BY <2>1 DEF GlobalIsSum
<1>3. ASSUME Q!TypeOK, GlobalIsSum, NEW s \in Writers, NEW n \in 1..MaxRecord, Q!Write(s, n)
      PROVE  GlobalIsSum'
  <2>1. PICK g : Adds(g) /\ g[Writers] = globalUsed
    BY <1>3 DEF GlobalIsSum
  <2> DEFINE h == [S \in SUBSET Writers |-> IF s \in S THEN g[S] + n ELSE g[S]]
  <2>2. /\ used' = [used EXCEPT ![s] = @ + n] /\ globalUsed' = globalUsed + n
        /\ used \in [Writers -> Nat] /\ n \in Nat
    BY <1>3, QuotaParameters DEF Q!Write, Q!TypeOK, Q!QuotaAssumption
  <2>3. h \in [SUBSET Writers -> Nat] /\ h[{}] = 0
    BY <2>1, <2>2 DEF Adds
  <2>4. ASSUME NEW S \in SUBSET Writers, NEW x \in Writers, x \notin S
        PROVE  h[S \cup {x}] = h[S] + used'[x]
    <3>1. S \cup {x} \in SUBSET Writers /\ g[S \cup {x}] = g[S] + used[x] /\ g[S] \in Nat
      BY <2>1, <2>4 DEF Adds
    <3>2. CASE x = s
      BY <2>2, <2>4, <3>1, <3>2
    <3>3. CASE x # s
      <4>1. used'[x] = used[x] /\ used[x] \in Nat
        BY <2>2, <3>3
      <4>2. s \in S \cup {x} <=> s \in S
        BY <3>3
      <4>3. QED
        BY <2>2, <3>1, <4>1, <4>2
    <3>4. QED
      BY <3>2, <3>3
  <2>5. h[Writers] = globalUsed'
    BY <2>1, <2>2
  <2> HIDE DEF h
  <2>6. QED
    BY <2>3, <2>4, <2>5 DEF Adds, GlobalIsSum
<1>4. GlobalIsSum /\ UNCHANGED <<used, globalUsed>> => GlobalIsSum'
  BY DEF GlobalIsSum, Adds
<1>5. Q!TypeOK /\ GlobalIsSum /\ [Q!Next]_(Q!vars) => GlobalIsSum'
  BY <1>2, <1>3, <1>4 DEF Q!Next, Q!CanWrite, Q!ResumeSource, Q!ResumeGlobal, Q!DiskChanges, Q!vars
<1>6. Q!Init => GlobalIsSum
  BY <1>1 DEF Q!Init
<1>7. Q!TypeOK /\ GlobalIsSum => AccountingAgrees
  BY SumsAdd, AgreesIsSums DEF GlobalIsSum, Q!TypeOK, AccountingAgrees
<1>8. QED
  BY <1>5, <1>6, <1>7, QuotaTypeCorrect, PTL DEF Q!Spec

-----------------------------------------------------------------------------
(***************************************************************************)
(* The checkpoint.                                                         *)
(***************************************************************************)

\* While a save is under way the memory does not change, so what is written is
\* what is renamed into place.
SaveInv ==
    /\ saving = "written" => tmp[rid] = cp
    /\ saving # "no" => phase # "down"

SafeInv == C!TypeOK /\ SaveInv /\ C!NeverTorn

LEMMA SafeStep ==
  ASSUME SafeInv, [C!Next]_(C!vars)
  PROVE  SafeInv'
<1> USE CheckpointParameters DEF SafeInv, C!TypeOK, SaveInv, C!NeverTorn, C!extractor, C!history, C!Runs, C!CheckpointAssumption
<1>0. C!New \in C!Ckpt
  BY DEF C!New, C!Ckpt
<1>1. ASSUME NEW r \in C!Runs, NEW force \in BOOLEAN, C!Start(r, force) PROVE SafeInv'
  <2>1. PICK c \in C!Ckpt : cp' = IF force THEN [c EXCEPT !.completed = FALSE, !.failed = FALSE] ELSE c
    BY <1>1 DEF C!Start
  <2>2. cp' \in C!Ckpt /\ cp'.offset \in 0..MaxOffset
    BY <2>1 DEF C!Ckpt
  <2>3. QED
    BY <1>1, <2>2 DEF C!Start
<1>2. CASE C!Advance
  <2>1. PICK n \in {counted, counted + 1} :
          /\ n <= MaxOffset /\ C!Reports(n) <= MaxOffset
          /\ counted' = n
          /\ cp' = [cp EXCEPT !.offset = C!Reports(n)]
    BY <1>2 DEF C!Advance
  <2>2. n \in 0..MaxOffset /\ C!Reports(n) \in 0..MaxOffset
    BY <2>1 DEF C!Reports
  <2>3. cp' \in C!Ckpt /\ counted' \in 0..MaxOffset
    BY <2>1, <2>2 DEF C!Ckpt
  <2>4. QED
    BY <1>2, <2>3 DEF C!Advance
<1>3. CASE C!MarkCompleted \/ C!MarkFailed
  <2>1. cp' \in C!Ckpt
    BY <1>3 DEF C!MarkCompleted, C!MarkFailed, C!Ckpt
  <2>2. QED
    BY <1>3, <2>1 DEF C!MarkCompleted, C!MarkFailed
<1>4. CASE C!SaveBegins
  BY <1>4 DEF C!SaveBegins
<1>5. CASE C!SaveWrites
  <2>1. rid \in C!Runs /\ tmp' \in [C!Runs -> C!File] /\ saving' \in {"begun", "written"}
    BY <1>5 DEF C!SaveWrites, C!File
  <2>2. saving' = "written" => tmp'[rid] = cp
    BY <1>5, <2>1 DEF C!SaveWrites
  <2>3. QED
    BY <1>5, <2>1, <2>2 DEF C!SaveWrites
<1>6. CASE C!SaveReplaces
  <2>1. rid \in C!Runs /\ tmp[rid] = cp /\ cp \in C!Ckpt /\ cp # Torn
    BY <1>6 DEF C!SaveReplaces
  <2>2. file' \in [C!Runs -> C!File] /\ tmp' \in [C!Runs -> C!File] /\ C!NeverTorn'
    BY <1>6, <2>1 DEF C!SaveReplaces, C!File
  <2>3. reached' \in 0..MaxOffset /\ latest' \in 0..MaxOffset
    BY <1>6, <2>1 DEF C!SaveReplaces, C!Ckpt
  <2>4. QED
    BY <1>6, <2>2, <2>3 DEF C!SaveReplaces
<1>7. CASE C!SaveFails
  <2>1. rid \in C!Runs /\ tmp' \in [C!Runs -> C!File]
    BY <1>7 DEF C!SaveFails, C!File
  <2>2. QED
    BY <1>7, <2>1 DEF C!SaveFails
<1>8. CASE C!ProcessEnds
  BY <1>0, <1>8 DEF C!ProcessEnds
<1>9. CASE UNCHANGED C!vars
  BY <1>9 DEF C!vars
<1>10. QED
  BY <1>1, <1>2, <1>3, <1>4, <1>5, <1>6, <1>7, <1>8, <1>9 DEF C!Next

LEMMA SafeInvariant == C!Spec => []SafeInv
<1>1. C!Init => SafeInv
  <2> SUFFICES ASSUME C!Init PROVE SafeInv
    OBVIOUS
  <2>1. cp \in C!Ckpt
    BY CheckpointParameters DEF C!Init, C!New, C!Ckpt, C!CheckpointAssumption
  <2>a. /\ reached \in 0..MaxOffset /\ latest \in 0..MaxOffset
        /\ resume \in 0..MaxOffset /\ counted \in 0..MaxOffset /\ rid \in 0..MaxRuns
    BY CheckpointParameters DEF C!Init, C!CheckpointAssumption
  <2>2. QED
    BY <2>1, <2>a, CheckpointParameters DEF C!Init, SafeInv, C!TypeOK, SaveInv, C!NeverTorn, C!File, C!CheckpointAssumption
<1>2. QED
  BY <1>1, SafeStep, PTL DEF C!Spec

\* The type invariant of the checkpoint.
THEOREM CheckpointTypeCorrect == C!Spec => []C!TypeOK
BY SafeInvariant, PTL DEF SafeInv

\* Whatever moment a process ends at, and whatever save fails, every checkpoint
\* file a later process may read is whole.
THEOREM Atomic == C!Spec => []NeverTorn
BY SafeInvariant, PTL DEF SafeInv, NeverTorn, C!NeverTorn

-----------------------------------------------------------------------------
(***************************************************************************)
(* Processes that each have a run id of their own.  The memory holds the   *)
(* offset the process took up until its extractor reports another, and     *)
(* from then on what it has counted (Place); the file of the current run   *)
(* is never past that unless it still holds the offset taken up (Behind);  *)
(* and as long as no file is marked, the newest one is the one saved last  *)
(* (NewestIsLatest), which is the most advanced one where the extractors   *)
(* count on (MostAdvanced).                                                *)
(***************************************************************************)
Place ==
    \/ cp.offset = C!Reports(counted)
    \/ counted = 0 /\ cp.offset = resume

Behind(f) ==
    /\ f.offset = resume \/ f.offset <= C!Reports(counted)
    /\ f.completed => cp.completed
    /\ f.failed => cp.failed

Unmarked == \A r \in C!Runs : file[r] \in C!Ckpt => ~C!Finished(file[r])

Newest(r) == file[r] \in C!Ckpt /\ \A q \in C!Runs : file[q] \in C!Ckpt => q <= r

NewestIsLatest ==
    \/ latest = 0 /\ \A r \in C!Runs : file[r] \notin C!Ckpt
    \/ \E r \in C!Runs : Newest(r) /\ file[r].offset = latest

MostAdvanced ==
    ~anew => /\ latest = reached
             /\ phase # "down" => cp.offset >= reached

ForwardInv ==
    /\ \A r \in C!Runs : r > rid => file[r] = Absent
    /\ phase # "down" => Place
    /\ phase # "down" /\ file[rid] \in C!Ckpt => Behind(file[rid])
    /\ Unmarked => NewestIsLatest /\ MostAdvanced

\* What a step may do to the file of run r, and what a process starts from.
MovesForwardIn(r) ==
    /\ \/ file'[r].offset >= file[r].offset
       \/ anew /\ r = rid /\ file[r].offset = resume /\ file'[r].offset = counted
    /\ file[r].completed => file'[r].completed
    /\ file[r].failed => file'[r].failed
Moves == \A r \in C!Runs : file[r] \in C!Ckpt => MovesForwardIn(r)

Resumes ==
    phase = "down" /\ phase' = "working" /\ Unmarked
        => cp'.offset = latest /\ (~anew => latest = reached)

LEMMA LoadsLatest ==
  ASSUME SafeInv, ForwardInv, Unmarked, NEW c \in C!Ckpt, C!Loads(c)
  PROVE  c.offset = latest
<1>1. C!Resumable = {r \in C!Runs : file[r] \in C!Ckpt}
  BY DEF C!Resumable, Unmarked
<1>2. NewestIsLatest
  BY DEF ForwardInv
<1>3. CASE \A r \in C!Runs : file[r] \notin C!Ckpt
  <2>1. C!Resumable = {}
    BY <1>1, <1>3
  <2>2. c = C!New /\ latest = 0
    BY <1>2, <1>3, <2>1 DEF C!Loads, NewestIsLatest, Newest
  <2>3. QED
    BY <2>2 DEF C!New
<1>4. CASE \E r \in C!Runs : file[r] \in C!Ckpt
  <2>1. PICK p \in C!Runs : Newest(p) /\ file[p].offset = latest
    BY <1>2, <1>4 DEF NewestIsLatest
  <2>2. PICK r \in C!Resumable : (\A q \in C!Resumable : q <= r) /\ c = file[r]
    BY <1>1, <1>4 DEF C!Loads
  <2>3. p \in C!Resumable /\ r \in C!Runs /\ file[r] \in C!Ckpt
    BY <1>1, <2>1, <2>2 DEF Newest
  <2>4. p <= r /\ r <= p /\ r \in Int /\ p \in Int
    BY <2>1, <2>2, <2>3 DEF Newest, C!Runs
  <2>5. p = r
    BY <2>4
  <2>6. QED
    BY <2>1, <2>2, <2>5
<1>5. QED
  BY <1>3, <1>4

\* A file that does not change moves forward.
LEMMA StaysForward ==
  ASSUME NEW r, file[r] \in C!Ckpt, file'[r] = file[r]
  PROVE  MovesForwardIn(r)
<1>1. file[r].offset \in Int
  BY CheckpointParameters DEF C!Ckpt, C!CheckpointAssumption
<1>2. file'[r].offset >= file[r].offset
  BY <1>1
<1>3. QED
  BY <1>2 DEF MovesForwardIn

\* What was counted, and the offsets, are natural numbers.
LEMMA OffsetsAreNumbers ==
  ASSUME C!TypeOK
  PROVE  /\ cp.offset \in Nat /\ resume \in Nat /\ counted \in Nat
         /\ latest \in Nat /\ reached \in Nat
         /\ \A n \in Nat : C!Reports(n) \in Nat
BY CheckpointParameters DEF C!TypeOK, C!Ckpt, C!Reports, C!CheckpointAssumption

LEMMA ForwardStep ==
  ASSUME ~ReuseRunIds, SafeInv, SafeInv', ForwardInv, [C!Next]_(C!vars)
  PROVE  ForwardInv' /\ Moves /\ Resumes
<1> USE CheckpointParameters DEF SafeInv, SaveInv, C!extractor, C!history, C!CheckpointAssumption
<1>0. /\ cp.offset \in Nat /\ resume \in Nat /\ counted \in Nat
      /\ latest \in Nat /\ reached \in Nat
      /\ \A n \in Nat : C!Reports(n) \in Nat
  BY OffsetsAreNumbers
<1>a. file' = file => Moves
  BY StaysForward DEF Moves
<1>1. ASSUME NEW r \in C!Runs, NEW force \in BOOLEAN, C!Start(r, force)
      PROVE  ForwardInv' /\ Moves /\ Resumes
  <2>1. PICK c \in C!Ckpt : C!Loads(c) /\ cp' = IF force THEN [c EXCEPT !.completed = FALSE, !.failed = FALSE] ELSE c
    BY <1>1 DEF C!Start
  <2>2. /\ r = rid + 1 /\ rid' = r /\ phase = "down" /\ phase' # "down"
        /\ resume' = cp'.offset /\ counted' = 0
        /\ UNCHANGED <<file, anew, latest, reached>>
    BY <1>1 DEF C!Start
  <2>3. cp'.offset = c.offset /\ c.offset \in Nat
    BY <2>1 DEF C!Ckpt
  <2>4. Unmarked => cp'.offset = latest /\ (~anew => latest = reached)
    BY <2>1, <2>3, LoadsLatest DEF ForwardInv, MostAdvanced
  <2>5. \A q \in C!Runs : q > r => file[q] = Absent
    BY <2>2 DEF ForwardInv, C!Runs, C!TypeOK
  <2>6. file[r] \notin C!Ckpt
    BY <2>2 DEF ForwardInv, C!Runs, C!TypeOK
  <2>7. Unmarked' => Unmarked /\ NewestIsLatest' /\ MostAdvanced'
    BY <2>2, <2>3, <2>4, <1>0 DEF ForwardInv, Unmarked, NewestIsLatest, Newest, MostAdvanced
  <2>8. Place'
    BY <2>2 DEF Place
  <2>9. ForwardInv'
    BY <2>2, <2>5, <2>6, <2>7, <2>8 DEF ForwardInv
  <2>10. QED
    BY <1>a, <2>2, <2>4, <2>9 DEF Resumes
<1>2. ASSUME UNCHANGED <<file, rid, anew, resume, latest, reached>>,
             phase # "down", phase' # "down", Place', C!Reports(counted') >= C!Reports(counted),
             cp'.offset \in Nat, counted' \in Nat, ~anew => cp'.offset >= cp.offset,
             cp.completed => cp'.completed, cp.failed => cp'.failed
      PROVE  ForwardInv' /\ Moves /\ Resumes
  <2>1. ASSUME file[rid] \in C!Ckpt PROVE Behind(file[rid])'
    <3>1. Behind(file[rid])
      BY <1>2, <2>1 DEF ForwardInv
    <3>2. /\ file[rid].offset \in Int
          /\ C!Reports(counted) \in Int /\ C!Reports(counted') \in Int
      BY <1>0, <1>2, <2>1 DEF C!Ckpt
    <3>3. file[rid].offset <= C!Reports(counted) => file[rid].offset <= C!Reports(counted')
      BY <1>2, <3>2
    <3>4. C!Reports(counted)' = C!Reports(counted')
      BY <1>2 DEF C!Reports
    <3>5. QED
      BY <1>2, <3>1, <3>3, <3>4 DEF Behind
  <2>2. Unmarked' => NewestIsLatest' /\ MostAdvanced'
    <3>1. ASSUME Unmarked' PROVE Unmarked /\ NewestIsLatest'
      BY <1>2, <3>1 DEF ForwardInv, Unmarked, NewestIsLatest, Newest
    <3>2. ASSUME Unmarked PROVE MostAdvanced'
      BY <1>0, <1>2, <3>2 DEF ForwardInv, MostAdvanced
    <3>3. QED
      BY <3>1, <3>2
  <2>3. ForwardInv'
    BY <1>2, <2>1, <2>2 DEF ForwardInv
  <2>4. QED
    BY <1>a, <1>2, <2>3 DEF Resumes
<1>3. CASE C!Advance
  <2>1. PICK n \in {counted, counted + 1} :
          /\ n <= MaxOffset /\ C!Reports(n) <= MaxOffset
          /\ counted' = n
          /\ cp' = [cp EXCEPT !.offset = C!Reports(n)]
    BY <1>3 DEF C!Advance
  <2>2. UNCHANGED <<file, rid, anew, resume, phase, latest, reached>> /\ phase = "working"
    BY <1>3 DEF C!Advance
  <2>3. n \in Nat /\ n >= counted /\ C!Reports(n) >= C!Reports(counted)
    BY <1>0, <2>1 DEF C!Reports
  <2>4. /\ cp'.offset = C!Reports(n) /\ C!Reports(n) \in Nat
        /\ cp'.completed = cp.completed /\ cp'.failed = cp.failed
    BY <1>0, <2>1, <2>3 DEF C!TypeOK, C!Ckpt
  <2>5. C!Reports(counted)' = C!Reports(n)
    BY <2>1, <2>2 DEF C!Reports
  <2>6. Place'
    BY <2>4, <2>5 DEF Place
  <2>7. ~anew => cp'.offset >= cp.offset
    BY <1>0, <2>2, <2>3, <2>4 DEF ForwardInv, Place, C!Reports
  <2>8. QED
    BY <1>2, <2>1, <2>2, <2>3, <2>4, <2>6, <2>7
<1>4. ASSUME UNCHANGED <<file, rid, anew, resume, counted, latest, reached>>,
             phase # "down", phase' # "down", cp'.offset = cp.offset,
             cp.completed => cp'.completed, cp.failed => cp'.failed
      PROVE  ForwardInv' /\ Moves /\ Resumes
  <2>1. Place
    BY <1>4 DEF ForwardInv
  <2>2. Place'
    BY <1>4, <2>1 DEF Place, C!Reports
  <2>3. C!Reports(counted') >= C!Reports(counted) /\ cp'.offset >= cp.offset
    BY <1>0, <1>4
  <2>4. QED
    BY <1>0, <1>2, <1>4, <2>2, <2>3
<1>5. CASE C!MarkCompleted \/ C!MarkFailed
  <2>1. cp'.offset = cp.offset /\ (cp.completed => cp'.completed) /\ (cp.failed => cp'.failed)
    BY <1>5 DEF C!MarkCompleted, C!MarkFailed, C!TypeOK, C!Ckpt
  <2>2. QED
    BY <1>4, <1>5, <2>1 DEF C!MarkCompleted, C!MarkFailed
<1>6. CASE C!SaveBegins \/ C!SaveWrites \/ C!SaveFails
  BY <1>4, <1>6 DEF C!SaveBegins, C!SaveWrites, C!SaveFails
<1>7. CASE C!SaveReplaces
  <2>1. /\ rid \in C!Runs /\ cp \in C!Ckpt /\ phase # "down"
        /\ file' = [file EXCEPT ![rid] = cp] /\ latest' = cp.offset
        /\ UNCHANGED <<cp, rid, anew, resume, counted, phase>>
    <3>1. saving = "written" /\ phase # "down" /\ tmp[rid] = cp
      BY <1>7 DEF C!SaveReplaces
    <3>2. rid \in C!Runs
      BY <3>1 DEF C!Runs, C!TypeOK
    <3>3. QED
      BY <1>7, <3>1, <3>2 DEF C!SaveReplaces, C!TypeOK
  <2>2. file'[rid] = cp /\ \A q \in C!Runs : q # rid => file'[q] = file[q]
    BY <2>1 DEF C!TypeOK
  <2>3. Place
    BY <2>1 DEF ForwardInv
  <2>4. ASSUME file[rid] \in C!Ckpt PROVE MovesForwardIn(rid)
    <3>1. Behind(file[rid])
      BY <2>1, <2>4 DEF ForwardInv
    <3>2. file[rid].offset \in Nat
      BY <2>4 DEF C!Ckpt
    <3>3. \/ cp.offset >= file[rid].offset
          \/ anew /\ file[rid].offset = resume /\ cp.offset = counted
      BY <1>0, <2>3, <3>1, <3>2 DEF Place, Behind, C!Reports
    <3>4. QED
      BY <2>2, <3>1, <3>3 DEF MovesForwardIn, Behind
  <2>5. Moves
    <3>1. ASSUME NEW r \in C!Runs, file[r] \in C!Ckpt PROVE MovesForwardIn(r)
      BY <2>2, <2>4, <3>1, StaysForward
    <3>2. QED
      BY <3>1 DEF Moves
  <2>6. \A r \in C!Runs : r > rid' => file'[r] = Absent
    BY <2>1, <2>2 DEF ForwardInv, C!Runs, C!TypeOK
  <2>7. Place' /\ Behind(file[rid])'
    <3>1. Place'
      BY <2>1, <2>3 DEF Place, C!Reports
    <3>2. cp.offset = resume \/ cp.offset <= C!Reports(counted)
      BY <1>0, <2>3 DEF Place
    <3>3. QED
      BY <2>1, <2>2, <3>1, <3>2 DEF Behind, C!Reports
  <2>8. ASSUME Unmarked' PROVE Unmarked
    <3>1. \A q \in C!Runs : q # rid => (file[q] \in C!Ckpt => ~C!Finished(file[q]))
      BY <2>2, <2>8 DEF Unmarked
    <3>2. ~C!Finished(cp)
      BY <2>1, <2>2, <2>8 DEF Unmarked
    <3>3. file[rid] \in C!Ckpt => ~C!Finished(file[rid])
      BY <2>1, <3>2 DEF ForwardInv, Behind, C!Finished
    <3>4. QED
      BY <3>1, <3>3 DEF Unmarked
  <2>9. NewestIsLatest'
    <3>1. ASSUME NEW q \in C!Runs, q > rid PROVE file'[q] \notin C!Ckpt
      BY <2>1, <2>2, <3>1 DEF ForwardInv, C!Runs, C!TypeOK
    <3>2. \A q \in C!Runs : file'[q] \in C!Ckpt => q <= rid
      BY <2>1, <3>1 DEF C!Runs
    <3>3. Newest(rid)' /\ file'[rid].offset = latest'
      BY <2>1, <2>2, <3>2 DEF Newest
    <3>4. QED
      BY <2>1, <3>3 DEF NewestIsLatest
  <2>10. ASSUME Unmarked' PROVE MostAdvanced'
    <3>1. ~anew => cp.offset >= reached
      BY <2>1, <2>8, <2>10 DEF ForwardInv, MostAdvanced
    <3>2. reached' = IF cp.offset > reached THEN cp.offset ELSE reached
      BY <1>7 DEF C!SaveReplaces
    <3>3. ~anew => reached' = cp.offset
      BY <1>0, <3>1, <3>2
    <3>4. QED
      BY <1>0, <2>1, <3>3 DEF MostAdvanced
  <2>11. ForwardInv'
    BY <2>6, <2>7, <2>9, <2>10 DEF ForwardInv
  <2>12. QED
    BY <2>1, <2>5, <2>11 DEF Resumes
<1>8. ASSUME UNCHANGED <<file, rid, anew, latest, reached>>, phase' = "down"
      PROVE  ForwardInv' /\ Moves /\ Resumes
  <2>1. ForwardInv'
    BY <1>8 DEF ForwardInv, Unmarked, NewestIsLatest, Newest, MostAdvanced
  <2>2. QED
    BY <1>a, <1>8, <2>1 DEF Resumes
<1>9. CASE C!ProcessEnds
  BY <1>8, <1>9 DEF C!ProcessEnds
<1>10. CASE UNCHANGED C!vars
  <2>1. UNCHANGED <<file, cp, rid, anew, resume, counted, phase, latest, reached>>
    BY <1>10 DEF C!vars
  <2>2. QED
    BY <1>4, <1>8, <2>1
<1>11. QED
  BY <1>1, <1>3, <1>5, <1>6, <1>7, <1>9, <1>10 DEF C!Next

LEMMA ForwardInvariant == ASSUME ~ReuseRunIds PROVE C!Spec => [](SafeInv /\ ForwardInv)
<1>1. C!Init => ForwardInv
  <2> SUFFICES ASSUME C!Init PROVE ForwardInv
    OBVIOUS
  <2>1. \A r \in C!Runs : file[r] = Absent /\ file[r] \notin C!Ckpt
    BY CheckpointParameters DEF C!Init, C!CheckpointAssumption
  <2>2. phase = "down" /\ latest = 0 /\ reached = 0
    BY DEF C!Init
  <2>3. QED
    BY <2>1, <2>2 DEF ForwardInv, NewestIsLatest, MostAdvanced
<1>2. SafeInv /\ SafeInv' /\ ForwardInv /\ [C!Next]_(C!vars) => ForwardInv'
  BY ForwardStep
<1>3. QED
  BY <1>1, <1>2, SafeInvariant, PTL DEF C!Spec

\* When every process has a run id of its own, no checkpoint file loses a flag,
\* and its offset falls only where an extractor counts anew, from the offset
\* its process took up to what it has counted itself.
THEOREM MovesForward == ASSUME ~ReuseRunIds PROVE C!Spec => FilesMoveForward
<1>1. SafeInv /\ SafeInv' /\ ForwardInv /\ [C!Next]_(C!vars) =>
        [\A r \in C!Runs : file[r] \in C!Ckpt =>
          /\ \/ file'[r].offset >= file[r].offset
             \/ anew /\ r = rid /\ file[r].offset = resume /\ file'[r].offset = counted
          /\ file[r].completed => file'[r].completed
          /\ file[r].failed => file'[r].failed]_(C!vars)
  BY ForwardStep DEF Moves, MovesForwardIn
<1>2. QED
  BY <1>1, ForwardInvariant, PTL DEF C!Spec, C!FilesMoveForward, FilesMoveForward

\* When every process has a run id of its own and none completes, fails or is
\* forced, each resumes from the checkpoint saved last, which is the most
\* advanced ever saved where the extractor counts on.
THEOREM Resumption == ASSUME ~ReuseRunIds PROVE C!Spec => ResumesAfterCrashes
<1>1. SafeInv /\ SafeInv' /\ ForwardInv /\ [C!Next]_(C!vars) =>
        [phase = "down" /\ phase' = "working"
          /\ (\A r \in C!Runs : file[r] \in C!Ckpt => ~C!Finished(file[r]))
         => /\ cp'.offset = latest
            /\ ~anew => latest = reached]_(C!vars)
  BY ForwardStep DEF Resumes, Unmarked
<1>2. QED
  BY <1>1, ForwardInvariant, PTL DEF C!Spec, C!ResumesAfterCrashes, ResumesAfterCrashes
=============================================================================
