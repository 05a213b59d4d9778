---------------------------- MODULE ServingProofs ----------------------------
(***************************************************************************)
(* Proofs about the parts of the API server: the engine and its lock       *)
(* (Inference), the two sliding windows (RateLimiter, here L) and the      *)
(* broadcast of events (Streaming, here S), each for every value of its    *)
(* constants.                                                              *)
(***************************************************************************)
EXTENDS MCServing, FiniteSetTheorems, SequenceTheorems, WellFoundedInduction, TLAPS

-----------------------------------------------------------------------------
\* A set of natural numbers that is not empty has a least element.
LEMMA LeastExists ==
    ASSUME NEW I \in SUBSET Nat, I # {}
    PROVE  \E x \in I : \A y \in I : x =< y
<1> DEFINE R == OpToRel(<, Nat)
<1>1. PICK x \in I : \A y \in I : <<y, x>> \notin R
  <2>1. IsWellFoundedOn(R, Nat)
    BY NatLessThanWellFounded
  <2> HIDE DEF R
  <2>2. QED
    BY <2>1, WFMin
<1>2. \A y \in I : ~(y < x)
  BY <1>1 DEF OpToRel
<1>3. QED
  BY <1>2

\* A waiter that is cancelled leaves the line, the others stay.
LEMMA LeavesLine ==
    ASSUME NEW R, NEW w \in Seq(R), NEW r
    PROVE  RemoveFirst(w, r) \in Seq(R)
<1> DEFINE I == {i \in 1..Len(w) : w[i] = r}
<1>1. CASE I = {}
  BY <1>1 DEF RemoveFirst
<1>2. CASE I # {}
  <2>1. PICK k \in I : \A y \in I : k =< y
    <3>1. I \in SUBSET Nat
      OBVIOUS
    <3> HIDE DEF I
    <3>2. QED
      BY <1>2, <3>1, LeastExists
  <2>2. Min(I) \in I
    BY <2>1 DEF Min
  <2>3. RemoveFirst(w, r) = RemoveAt(w, Min(I))
    BY <1>2 DEF RemoveFirst, SelectInSeq
  <2>4. ASSUME NEW m \in 1..Len(w) PROVE RemoveAt(w, m) \in Seq(R)
    <3>1. SubSeq(w, 1, m - 1) \in Seq(R)
      BY SubSeqProperties
    <3>2. SubSeq(w, m + 1, Len(w)) \in Seq(R)
      BY SubSeqProperties
    <3>3. QED
      BY <3>1, <3>2, ConcatProperties DEF RemoveAt
  <2>5. QED
    BY <2>2, <2>3, <2>4
<1>3. QED
  BY <1>1, <1>2

-----------------------------------------------------------------------------
\* The engine: what a step of a process writes is a version that was trained.
LEMMA GetEngineTyped ==
    ASSUME TypeOK, GetEngine
    PROVE  /\ tokenizer' \in 0..Versions
           /\ engine' = NoEngine \/ engine' \in [tokenizer : 1..Versions, model : 0..Versions]
<1>1. tokenizer' \in 0..Versions
  BY DEF TypeOK, GetEngine, LoadTokenizer
<1>2. Latest.of \in 0..Versions
  BY DEF TypeOK, Latest, Models
<1>3. QED
  BY <1>1, <1>2, InferenceAssumption DEF TypeOK, GetEngine

LEMMA InferenceInit == Init => TypeOK
<1> SUFFICES ASSUME Init PROVE TypeOK
  OBVIOUS
<1>1. 0 \in 0..Versions
  BY InferenceAssumption
<1>2. disk \in [tokenizer : 0..Versions, merges : BOOLEAN, plain : Models, merged : Models, adapter : BOOLEAN]
  BY <1>1 DEF Init, NoModel, Models
<1>3. waiters \in Seq(Requests)
  BY EmptySeq DEF Init
<1>4. QED
  BY <1>1, <1>2, <1>3 DEF Init, TypeOK

LEMMA InferenceTyped == TypeOK /\ [Next]_vars => TypeOK'
<1> SUFFICES ASSUME TypeOK, [Next]_vars PROVE TypeOK'
  OBVIOUS
<1> USE InferenceAssumption
<1> DEFINE Stages == {"new", "waiting", "awaiting", "sending", "answered", "failed", "gone"}
           Jobs == {"none", "queued", "running", "returned", "raised", "over"}
<1>1. ASSUME NEW r \in Requests PROVE Append(waiters, r) \in Seq(Requests) /\ RemoveFirst(waiters, r) \in Seq(Requests)
  BY LeavesLine, AppendProperties DEF TypeOK
<1>2. CASE Prewarm
  BY <1>2, GetEngineTyped DEF Prewarm, TypeOK, files, lock, procs
<1>3. CASE Tokenize
  BY <1>3 DEF Tokenize, TypeOK, LoadTokenizer, files, lock, procs
<1>4. ASSUME NEW r \in Requests, Generate(r) PROVE TypeOK'
  BY <1>1, <1>4, GetEngineTyped DEF Generate, TypeOK, files, procs
<1>5. ASSUME NEW r \in Requests, WsInfer(r) PROVE TypeOK'
  BY <1>1, <1>5 DEF WsInfer, TypeOK, files, loaded, procs
<1>6. ASSUME NEW r \in Requests, Acquire(r) PROVE TypeOK'
  <2>1. Tail(waiters) \in Seq(Requests)
    BY <1>6, HeadTailProperties DEF Acquire, TypeOK
  <2>2. QED
    BY <1>6, <2>1 DEF Acquire, TypeOK, files, loaded, procs
<1>7. ASSUME NEW r \in Requests, Thread(r) PROVE TypeOK'
  BY <1>7 DEF Thread, JobStarts, JobEnds, TypeOK, files, loaded, lock, procs
<1>8. ASSUME NEW r \in Requests, Resume(r) PROVE TypeOK'
  BY <1>8 DEF Resume, TypeOK, files, loaded, procs
<1>9. ASSUME NEW r \in Requests, Answer(r) PROVE TypeOK'
  BY <1>9 DEF Answer, TypeOK, files, loaded, lock, procs
<1>10. ASSUME NEW r \in Requests, Cancel(r) PROVE TypeOK'
  BY <1>1, <1>10 DEF Cancel, TypeOK, files, loaded, procs
<1>11. CASE Launch \/ StopTraining \/ RunPipeline \/ Exits
  BY <1>11 DEF Launch, StopTraining, RunPipeline, Exits, TypeOK, files, loaded, lock
<1>12. CASE Saves \/ Seals
  <2> DEFINE Files == [tokenizer : 0..Versions, merges : BOOLEAN, plain : Models, merged : Models, adapter : BOOLEAN]
  <2>1. disk \in Files
    BY DEF TypeOK
  <2>2. disk.tokenizer < Versions => [disk EXCEPT !.tokenizer = disk.tokenizer + 1] \in Files
    BY <2>1
  <2>3. disk' \in Files
    <3>1. [disk EXCEPT !.merges = TRUE] \in Files /\ [disk EXCEPT !.adapter = TRUE] \in Files
      BY <2>1
    <3>2. ASSUME NEW m \in Unsealed
          PROVE  [disk EXCEPT !.plain = m, !.adapter = FALSE] \in Files /\ [disk EXCEPT !.merged = m] \in Files
      <4>3. (IF disk.merges THEN 1..disk.tokenizer ELSE {}) \subseteq 0..Versions
        BY <2>1
      <4>1. m \in Models
        BY <4>3 DEF Unsealed, Models
      <4>2. QED
        BY <2>1, <4>1
    <3>3. [disk EXCEPT !.plain.sealed = TRUE] \in Files /\ [disk EXCEPT !.merged.sealed = TRUE] \in Files
      BY <2>1 DEF Models
    <3> HIDE DEF Files
    <3>4. CASE Saves
      BY <3>4, <2>2, <3>1, <3>2 DEF Saves
    <3>5. CASE Seals
      BY <3>5, <3>3 DEF Seals
    <3>6. QED
      BY <1>12, <3>4, <3>5
  <2>4. QED
    BY <1>12, <2>3 DEF Saves, Seals, TypeOK, loaded, lock, procs
<1>13. CASE UNCHANGED vars
  BY <1>13 DEF TypeOK, vars, files, loaded, lock, procs
<1>14. QED
  BY <1>2, <1>3, <1>4, <1>5, <1>6, <1>7, <1>8, <1>9, <1>10, <1>11, <1>12, <1>13 DEF Next, Serve

\* The files, the engine, the line for its lock and the jobs keep their types.
THEOREM InferenceTypeCorrect == Spec => []TypeOK
BY InferenceInit, InferenceTyped, PTL DEF Spec

-----------------------------------------------------------------------------
WaitsWithLock == \A r \in Requests : stage[r] = "awaiting" => holder = {r}
ServedInv == TypeOK /\ WaitsWithLock

\* Whoever waits for a text holds the lock, so that there is at most one.
LEMMA LockHeld == ServedInv /\ [Next]_vars => WaitsWithLock'
<1> SUFFICES ASSUME TypeOK, WaitsWithLock, [Next]_vars PROVE WaitsWithLock'
  BY DEF ServedInv
<1>1. stage \in [Requests -> {"new", "waiting", "awaiting", "sending", "answered", "failed", "gone"}]
  BY DEF TypeOK
<1>2. CASE UNCHANGED <<stage, holder>>
  BY <1>2 DEF WaitsWithLock
<1>3. ASSUME NEW r \in Requests, Generate(r) \/ WsInfer(r) \/ Answer(r) PROVE WaitsWithLock'
  BY <1>1, <1>3 DEF Generate, WsInfer, Answer, WaitsWithLock, lock
<1>4. ASSUME NEW r \in Requests, Acquire(r) PROVE WaitsWithLock'
  BY <1>1, <1>4 DEF Acquire, WaitsWithLock
<1>5. ASSUME NEW r \in Requests, Resume(r) PROVE WaitsWithLock'
  BY <1>1, <1>5 DEF Resume, WaitsWithLock
<1>6. ASSUME NEW r \in Requests, Cancel(r) PROVE WaitsWithLock'
  BY <1>1, <1>6 DEF Cancel, WaitsWithLock
<1>7. QED
  <2>1. CASE UNCHANGED vars
    BY <2>1, <1>2 DEF vars, lock
  <2>2. CASE Prewarm \/ Tokenize \/ Launch \/ StopTraining \/ RunPipeline \/ Saves \/ Seals \/ Exits
    BY <2>2, <1>2 DEF Prewarm, Tokenize, Launch, StopTraining, RunPipeline, Saves, Seals, Exits, lock
  <2>3. ASSUME NEW r \in Requests, Thread(r) PROVE WaitsWithLock'
    BY <2>3, <1>2 DEF Thread, JobStarts, JobEnds, lock
  <2>4. QED
    BY <1>3, <1>4, <1>5, <1>6, <2>1, <2>2, <2>3 DEF Next, Serve

\* InferenceEngine: whatever is cancelled and whatever fails, two texts are
\* generated at once only if the clients of all but one have gone, and who waits
\* for a text holds the lock.
THEOREM LockExcludes == Spec => []OverlapOnlyAbandoned
<1>1. Init => ServedInv
  BY InferenceInit DEF Init, ServedInv, WaitsWithLock
<1>2. ServedInv /\ [Next]_vars => ServedInv'
  BY InferenceTyped, LockHeld DEF ServedInv
<1>3. ServedInv => OverlapOnlyAbandoned
  <2> SUFFICES ASSUME ServedInv PROVE OverlapOnlyAbandoned
    OBVIOUS
  <2> DEFINE A == {r \in Running : stage[r] = "awaiting"}
  <2>1. CASE A = {}
    BY <2>1, FS_EmptySet DEF OverlapOnlyAbandoned, ServedInv, WaitsWithLock
  <2>2. CASE A # {}
    <3>1. PICK r : A = {r}
      BY <2>2 DEF Running, ServedInv, WaitsWithLock
    <3>2. Cardinality(A) = 1
      BY <3>1, FS_Singleton
    <3>3. QED
      BY <3>2 DEF OverlapOnlyAbandoned, ServedInv, WaitsWithLock
  <2>3. QED
    BY <2>1, <2>2
<1>4. QED
  BY <1>1, <1>2, <1>3, PTL DEF Spec

-----------------------------------------------------------------------------
\* There are merges wherever there is a model.
Trained == \A m \in {disk.plain, disk.merged} : m.of # 0 => disk.merges

LEMMA TrainedPreserved == TypeOK /\ Trained /\ [Next]_vars => Trained'
<1> SUFFICES ASSUME TypeOK, Trained, [Next]_vars PROVE Trained'
  OBVIOUS
<1>1. disk \in [tokenizer : 0..Versions, merges : BOOLEAN, plain : Models, merged : Models, adapter : BOOLEAN]
  BY DEF TypeOK
<1>2. CASE Saves
  <2>1. ASSUME NEW m \in Unsealed PROVE disk.merges
    BY DEF Unsealed
  <2>2. CASE UNCHANGED <<disk.plain, disk.merged>> /\ (disk.merges => disk'.merges)
    BY <2>2 DEF Trained
  <2>3. CASE disk.merges /\ disk'.merges
    BY <2>3 DEF Trained
  <2>4. QED
    BY <1>1, <1>2, <2>1, <2>2, <2>3 DEF Saves
<1>3. CASE Seals
  BY <1>1, <1>3 DEF Seals, Trained, Models
<1>4. CASE UNCHANGED disk
  BY <1>4 DEF Trained
<1>5. QED
  <2>1. CASE UNCHANGED vars
    BY <2>1, <1>4 DEF vars, files
  <2>2. CASE Prewarm \/ Tokenize \/ Launch \/ StopTraining \/ RunPipeline \/ Exits
    BY <2>2, <1>4 DEF Prewarm, Tokenize, Launch, StopTraining, RunPipeline, Exits, files
  <2>3. ASSUME NEW r \in Requests, Serve(r) \/ Thread(r) \/ Cancel(r) PROVE Trained'
    BY <2>3, <1>4 DEF Serve, Generate, WsInfer, Acquire, Resume, Answer, Thread, JobStarts, JobEnds, Cancel, files
  <2>4. QED
    BY <1>2, <1>3, <2>1, <2>2, <2>3 DEF Next

\* _get_engine: where the model to be loaded was trained with the tokenizer on
\* the disk and is completely saved, a request fails for want of an engine only
\* if the server has kept a tokenizer that has been replaced since.
THEOREM StaleRefusal == Spec => RefusedOnlyIfStale
<1> DEFINE A == \A r \in Requests :
        stage[r] = "new" /\ stage'[r] = "failed" /\ asks[r] # "socket"
        /\ (Usable(disk.merged) \/ (disk.merged = NoModel /\ Usable(disk.plain)))
            => tokenizer \notin {0, disk.tokenizer}
<1>1. TypeOK /\ Trained /\ [Next]_vars => A
  <2> SUFFICES ASSUME TypeOK, Trained, [Next]_vars, NEW r \in Requests,
                      stage[r] = "new", stage'[r] = "failed", asks[r] # "socket",
                      Usable(disk.merged) \/ (disk.merged = NoModel /\ Usable(disk.plain)),
                      tokenizer \in {0, disk.tokenizer}
               PROVE  FALSE
    OBVIOUS
  <2>1. stage \in [Requests -> {"new", "waiting", "awaiting", "sending", "answered", "failed", "gone"}]
    BY DEF TypeOK
  <2>2. Generate(r)
    <3>1. stage # stage'
      OBVIOUS
    <3>2. PICK q \in Requests : Serve(q) \/ Thread(q) \/ Cancel(q)
      BY <3>1 DEF Next, vars, Prewarm, Tokenize, Launch, StopTraining, RunPipeline, Saves, Seals, Exits
    <3>3. ~Thread(q)
      BY <3>1 DEF Thread, JobStarts, JobEnds
    <3>4. q = r
      BY <2>1, <3>2, <3>3 DEF Serve, Generate, WsInfer, Acquire, Resume, Answer, Cancel
    <3>5. QED
      BY <2>1, <3>2, <3>3, <3>4 DEF Serve, WsInfer, Acquire, Resume, Answer, Cancel
  <2>3. GetEngine /\ engine' = NoEngine
    BY <2>1, <2>2 DEF Generate
  <2>4. Latest.of = disk.tokenizer /\ Latest.sealed /\ disk.tokenizer # 0 /\ disk.merges
    BY DEF Usable, Latest, NoModel, Trained
  <2>5. tokenizer' = disk.tokenizer
    BY <2>3, <2>4 DEF GetEngine, LoadTokenizer
  <2>6. QED
    BY <2>3, <2>4, <2>5 DEF GetEngine, Fits, NoEngine
<1>2. Init => Trained
  BY DEF Init, Trained, NoModel
<1>3. QED
  <2>1. Spec => [][A]_vars
    BY <1>1, <1>2, InferenceInit, InferenceTyped, TrainedPreserved, PTL DEF Spec
  <2>2. QED
    BY <2>1 DEF RefusedOnlyIfStale

-----------------------------------------------------------------------------
\* What SelectInSeq returns of the places where its test holds.
IsFirst(first, G) ==
    \/ G = {} /\ first = 0
    \/ first \in G /\ \A y \in G : first =< y

LEMMA FirstOf ==
    ASSUME NEW G \in SUBSET Nat
    PROVE  IsFirst(IF G # {} THEN Min(G) ELSE 0, G)
<1> USE DEF IsFirst
<1>1. CASE G = {}
  BY <1>1
<1>2. CASE G # {}
  <2>1. PICK m \in G : \A y \in G : m =< y
    BY <1>2, LeastExists
  <2>2. Min(G) \in G /\ \A y \in G : Min(G) =< y
    BY <2>1 DEF Min
  <2>3. QED
    BY <1>2, <2>2
<1>3. QED
  BY <1>1, <1>2

\* What is taken from the front of a sequence: all before the first element
\* that stays, which is at one of the places in G.
CutAt(s, t, G, k) ==
    /\ Len(t) = Len(s) - k
    /\ \A i \in 1..(Len(s) - k) : t[i] = s[k + i]
    /\ \A i \in 1..k : i \notin G
    /\ k < Len(s) => k + 1 \in G

LEMMA FrontGone ==
    ASSUME NEW T, NEW s \in Seq(T), NEW G \in SUBSET (1..Len(s)), NEW first, IsFirst(first, G)
    PROVE  L!Rest(s, first) \in Seq(T) /\ \E k \in 0..Len(s) : CutAt(s, L!Rest(s, first), G, k)
<1> DEFINE t == L!Rest(s, first)
<1>1. Len(s) \in Nat
  BY LenProperties
<1>2. CASE G = {} /\ first = 0
  <2>1. t = << >>
    BY <1>2 DEF L!Rest
  <2>2. << >> \in Seq(T) /\ Len(<< >>) = 0
    BY EmptySeq
  <2>3. CutAt(s, t, G, Len(s))
    <3> HIDE DEF t
    <3>1. QED
      BY <1>1, <1>2, <2>1, <2>2 DEF CutAt
  <2>4. QED
    BY <1>1, <2>1, <2>2, <2>3
<1>3. CASE first \in G /\ \A y \in G : first =< y
  <2>1. first \in 1..Len(s) /\ first \in Nat \ {0} /\ t = SubSeq(s, first, Len(s))
    BY <1>1, <1>3 DEF L!Rest
  <2>2. \A i \in first..Len(s) : s[i] \in T
    BY <1>1, <2>1, ElementOfSeq
  <2>3. /\ t \in Seq(T) /\ Len(t) = Len(s) - first + 1
        /\ \A i \in 1..(Len(s) - first + 1) : t[i] = s[first + i - 1]
    BY <1>1, <2>1, <2>2, SubSeqProperties
  <2>4. \A i \in 1..(first - 1) : i \notin G
    BY <1>1, <1>3, <2>1
  <2>5. CutAt(s, t, G, first - 1)
    <3>1. \A i \in Int : (first - 1) + i = first + i - 1
      BY <2>1
    <3>2. Len(s) - (first - 1) = Len(s) - first + 1 /\ (first - 1) + 1 = first
      BY <1>1, <2>1
    <3> HIDE DEF t
    <3>3. QED
      BY <1>1, <1>3, <2>1, <2>3, <2>4, <3>1, <3>2 DEF CutAt
  <2>6. first - 1 \in 0..Len(s)
    BY <1>1, <2>1
  <2>7. QED
    BY <2>3, <2>5, <2>6
<1>4. QED
  BY <1>2, <1>3 DEF IsFirst

\* A bucket keeps what is behind its first stamp that is not before the cutoff.
LEMMA EvictedFront ==
    ASSUME NEW T, NEW b \in Seq(T), NEW cutoff
    PROVE  /\ L!Evicted(b, cutoff) \in Seq(T)
           /\ \E k \in 0..Len(b) : CutAt(b, L!Evicted(b, cutoff), {i \in 1..Len(b) : b[i] >= cutoff}, k)
<1> DEFINE G == {i \in 1..Len(b) : b[i] >= cutoff}
           first == IF G # {} THEN Min(G) ELSE 0
<1>1. L!Evicted(b, cutoff) = L!Rest(b, first)
  BY DEF L!Evicted, L!SelectInSeq, L!Min, Min
<1>2. Len(b) \in Nat /\ G \in SUBSET (1..Len(b)) /\ G \in SUBSET Nat
  BY LenProperties
<1>3. IsFirst(first, G)
  <2> HIDE DEF G
  <2>1. QED
    BY <1>2, FirstOf
<1> HIDE DEF first
<1>4. QED
  BY <1>1, <1>2, <1>3, FrontGone

LEMMA HistoryFront ==
    ASSUME NEW T, allowed \in Seq(T)
    PROVE  /\ L!InWindow \in Seq(T)
           /\ \E k \in 0..Len(allowed) :
                 CutAt(allowed, L!InWindow, {i \in 1..Len(allowed) : allowed[i].at >= clock - Window}, k)
<1> DEFINE G == {i \in 1..Len(allowed) : allowed[i].at >= clock - Window}
           first == IF G # {} THEN Min(G) ELSE 0
<1>1. L!InWindow = L!Rest(allowed, first)
  BY DEF L!InWindow, L!SelectInSeq, L!Min, Min
<1>2. Len(allowed) \in Nat /\ G \in SUBSET (1..Len(allowed)) /\ G \in SUBSET Nat
  BY LenProperties
<1>3. IsFirst(first, G)
  <2> HIDE DEF G
  <2>1. QED
    BY <1>2, FirstOf
<1> HIDE DEF first
<1>4. QED
  BY <1>1, <1>2, <1>3, FrontGone

-----------------------------------------------------------------------------
\* RateLimiter.check: the bucket and the history of the window end alike; what
\* read the clock within the window is in the bucket still; a thread reads the
\* clock anew after each call.
Aligned(b, h) == \A d \in 0..(Len(b) - 1) : d < Len(h) => b[Len(b) - d] = h[Len(h) - d].read
FreshKept(b, h, edge) == \A i \in 1..Len(h) : h[i].read >= edge => Len(h) - i < Len(b)
Turns(h) == \A i, j \in 1..Len(h) : i < j /\ h[i].by = h[j].by => h[i].at =< h[j].read
Inside(h) == \A i \in 1..Len(h) : h[i].by \in Threads /\ read[h[i].by] # L!Outside => h[i].at =< read[h[i].by]
SharedInv ==
    /\ L!TypeOK
    /\ \A t \in Threads : read[t] =< clock
    /\ \A i \in 1..Len(allowed) : allowed[i].at =< clock
    /\ Len(bucket) =< Limit
    /\ Aligned(bucket, allowed)
    /\ FreshKept(bucket, allowed, clock - Window)
    /\ Turns(allowed)
    /\ Inside(allowed)

\* SlidingWindowRateLimiter.dispatch: since a refusal no one was let in, and by
\* the time the client was told the oldest stamp has left the window.
DoorInv ==
    /\ Len(doorBucket) =< Limit
    /\ retryAt # L!Outside => Len(doorBucket) = Limit /\ retryAt > doorBucket[1] + Window
    /\ ~misled

Calls == [by : Threads, read : 0..MaxTime, at : 0..MaxTime]

\* What a bucket loses is before the cutoff, hence nothing that is fresh.
LEMMA EvictionHarmless ==
    ASSUME NEW b \in Seq(0..MaxTime), NEW h \in Seq(Calls), NEW cutoff \in Int, NEW edge \in Int,
           cutoff =< edge, Aligned(b, h), FreshKept(b, h, edge)
    PROVE  /\ L!Evicted(b, cutoff) \in Seq(0..MaxTime)
           /\ Len(L!Evicted(b, cutoff)) =< Len(b)
           /\ Aligned(L!Evicted(b, cutoff), h)
           /\ FreshKept(L!Evicted(b, cutoff), h, edge)
<1> DEFINE e == L!Evicted(b, cutoff)
           G == {i \in 1..Len(b) : b[i] >= cutoff}
<1>1. e \in Seq(0..MaxTime) /\ \E k \in 0..Len(b) : CutAt(b, e, G, k)
  BY EvictedFront
<1>2. PICK k \in 0..Len(b) : CutAt(b, e, G, k)
  BY <1>1
<1> HIDE DEF e, G
<1>3. Len(b) \in Nat /\ Len(h) \in Nat /\ Len(e) \in Nat /\ k \in Nat
  BY <1>1, LenProperties
<1>4. Len(e) = Len(b) - k /\ \A i \in 1..(Len(b) - k) : e[i] = b[k + i]
  BY <1>2 DEF CutAt
<1>5. Aligned(e, h)
  <2> SUFFICES ASSUME NEW d \in 0..(Len(e) - 1), d < Len(h) PROVE e[Len(e) - d] = h[Len(h) - d].read
    BY DEF Aligned
  <2>1. Len(e) - d \in 1..(Len(b) - k) /\ k + (Len(e) - d) = Len(b) - d /\ d \in 0..(Len(b) - 1)
    BY <1>3, <1>4
  <2>2. e[Len(e) - d] = b[k + (Len(e) - d)]
    BY <1>4, <2>1
  <2>3. b[Len(b) - d] = h[Len(h) - d].read
    BY <2>1 DEF Aligned
  <2>4. QED
    BY <2>1, <2>2, <2>3
<1>6. FreshKept(e, h, edge)
  <2> SUFFICES ASSUME NEW i \in 1..Len(h), h[i].read >= edge, Len(h) - i >= Len(e) PROVE FALSE
    BY <1>3 DEF FreshKept
  <2> DEFINE d == Len(h) - i
             p == Len(b) - d
  <2>1. d < Len(b)
    BY DEF FreshKept
  <2>2. d \in 0..(Len(b) - 1) /\ d < Len(h) /\ Len(h) - d = i /\ p \in 1..k /\ p \in 1..Len(b)
    BY <1>3, <1>4, <2>1
  <2>3. b[p] = h[i].read
    BY <2>2 DEF Aligned
  <2>4. b[p] >= edge /\ b[p] \in Int
    <3>1. b[p] \in 0..MaxTime
      BY <2>2, ElementOfSeq
    <3>2. QED
      BY <2>3, <3>1, ServingAssumption
  <2>5. p \in G
    BY <2>2, <2>4 DEF G
  <2>6. QED
    BY <1>2, <2>2, <2>5 DEF CutAt
<1>7. QED
  BY <1>1, <1>3, <1>4, <1>5, <1>6 DEF e

\* A call that is admitted goes to the end of both.
LEMMA BothAppended ==
    ASSUME NEW b \in Seq(0..MaxTime), NEW h \in Seq(Calls), NEW call \in Calls, NEW edge \in Int,
           Aligned(b, h), FreshKept(b, h, edge)
    PROVE  /\ Aligned(Append(b, call.read), Append(h, call))
           /\ FreshKept(Append(b, call.read), Append(h, call), edge)
<1> DEFINE B == Append(b, call.read)
           H == Append(h, call)
<1>1. Len(b) \in Nat /\ Len(h) \in Nat /\ call.read \in 0..MaxTime
  BY LenProperties DEF Calls
<1>2. /\ Len(B) = Len(b) + 1 /\ B[Len(b) + 1] = call.read /\ \A i \in 1..Len(b) : B[i] = b[i]
      /\ Len(H) = Len(h) + 1 /\ H[Len(h) + 1] = call /\ \A i \in 1..Len(h) : H[i] = h[i]
  BY <1>1, AppendProperties
<1> HIDE DEF B, H
<1>3. Aligned(B, H)
  <2> SUFFICES ASSUME NEW d \in 0..(Len(B) - 1), d < Len(H) PROVE B[Len(B) - d] = H[Len(H) - d].read
    BY DEF Aligned
  <2>1. CASE d = 0
    BY <1>1, <1>2, <2>1
  <2>2. CASE d # 0
    <3>1. d - 1 \in 0..(Len(b) - 1) /\ d - 1 < Len(h)
      BY <1>1, <1>2, <2>2
    <3>2. b[Len(b) - (d - 1)] = h[Len(h) - (d - 1)].read
      BY <3>1 DEF Aligned
    <3>3. /\ Len(B) - d = Len(b) - (d - 1) /\ Len(b) - (d - 1) \in 1..Len(b)
          /\ Len(H) - d = Len(h) - (d - 1) /\ Len(h) - (d - 1) \in 1..Len(h)
      BY <1>1, <1>2, <2>2, <3>1
    <3>4. QED
      BY <1>2, <3>2, <3>3
  <2>3. QED
    BY <2>1, <2>2
<1>4. FreshKept(B, H, edge)
  <2> SUFFICES ASSUME NEW i \in 1..Len(H), H[i].read >= edge PROVE Len(H) - i < Len(B)
    BY DEF FreshKept
  <2>1. CASE i = Len(H)
    BY <1>1, <1>2, <2>1
  <2>2. CASE i # Len(H)
    <3>1. i \in 1..Len(h)
      BY <1>1, <1>2, <2>2
    <3>2. Len(h) - i < Len(b)
      BY <1>2, <3>1 DEF FreshKept
    <3>3. QED
      BY <1>1, <1>2, <3>1, <3>2
  <2>3. QED
    BY <2>1, <2>2
<1>5. QED
  BY <1>3, <1>4 DEF B, H

\* The history that is kept is the end of the history.
LEMMA HistoryCut ==
    ASSUME NEW h \in Seq(Calls), NEW t \in Seq(Calls), NEW b \in Seq(0..MaxTime), NEW edge \in Int,
           NEW G, NEW k \in 0..Len(h), CutAt(h, t, G, k), Aligned(b, h), FreshKept(b, h, edge), Turns(h)
    PROVE  /\ Aligned(b, t) /\ FreshKept(b, t, edge) /\ Turns(t)
           /\ \A i \in 1..Len(t) : \E j \in 1..Len(h) : t[i] = h[j]
<1>1. Len(b) \in Nat /\ Len(h) \in Nat /\ Len(t) \in Nat /\ k \in Nat
  BY LenProperties
<1>2. Len(t) = Len(h) - k /\ \A i \in 1..Len(t) : t[i] = h[k + i] /\ k + i \in 1..Len(h)
  BY <1>1 DEF CutAt
<1>3. Aligned(b, t)
  <2> SUFFICES ASSUME NEW d \in 0..(Len(b) - 1), d < Len(t) PROVE b[Len(b) - d] = t[Len(t) - d].read
    BY DEF Aligned
  <2>1. d < Len(h) /\ Len(t) - d \in 1..Len(t) /\ k + (Len(t) - d) = Len(h) - d
    BY <1>1, <1>2
  <2>2. QED
    BY <1>2, <2>1 DEF Aligned
<1>4. FreshKept(b, t, edge)
  <2> SUFFICES ASSUME NEW i \in 1..Len(t), t[i].read >= edge PROVE Len(t) - i < Len(b)
    BY DEF FreshKept
  <2>1. k + i \in 1..Len(h) /\ h[k + i].read >= edge
    BY <1>2
  <2>2. Len(h) - (k + i) < Len(b)
    BY <2>1 DEF FreshKept
  <2>3. QED
    BY <1>1, <1>2, <2>1, <2>2
<1>5. Turns(t)
  <2> SUFFICES ASSUME NEW i \in 1..Len(t), NEW j \in 1..Len(t), i < j, t[i].by = t[j].by
               PROVE  t[i].at =< t[j].read
    BY DEF Turns
  <2>1. k + i \in 1..Len(h) /\ k + j \in 1..Len(h) /\ k + i < k + j
    BY <1>1, <1>2
  <2>2. QED
    BY <1>2, <2>1 DEF Turns
<1>6. QED
  BY <1>2, <1>3, <1>4, <1>5

\* What a step of one limiter leaves of the other.
LEMMA SharedKept ==
    SharedInv /\ UNCHANGED <<read, bucket, allowed>> /\ clock' \in 0..MaxTime /\ clock' >= clock /\ L!TypeOK'
        => SharedInv'
<1> SUFFICES ASSUME SharedInv, UNCHANGED <<read, bucket, allowed>>, clock' \in 0..MaxTime, clock' >= clock, L!TypeOK'
             PROVE  SharedInv'
  OBVIOUS
<1>1. clock \in Int /\ clock' \in Int /\ Window \in Int
  BY ServingAssumption DEF SharedInv, L!TypeOK
<1>2. allowed \in Seq(Calls) /\ \A i \in 1..Len(allowed) : allowed[i].read \in Int /\ allowed[i].at \in Int
  <2>1. allowed \in Seq(Calls)
    BY DEF SharedInv, L!TypeOK, Calls
  <2>2. \A i \in 1..Len(allowed) : allowed[i] \in Calls
    BY <2>1, ElementOfSeq
  <2>3. \A c \in Calls : c.read \in Int /\ c.at \in Int
    BY ServingAssumption DEF Calls
  <2>4. QED
    BY <2>1, <2>2, <2>3
<1>3. FreshKept(bucket, allowed, clock' - Window)
  BY <1>1, <1>2 DEF FreshKept, SharedInv
<1>4. \A t \in Threads : read[t] \in Int
  BY ServingAssumption DEF SharedInv, L!TypeOK, L!Outside
<1>5. \A t \in Threads : read[t] =< clock'
  BY <1>1, <1>4 DEF SharedInv
<1>6. \A i \in 1..Len(allowed) : allowed[i].at =< clock'
  BY <1>1, <1>2 DEF SharedInv
<1>7. QED
  BY <1>3, <1>5, <1>6 DEF SharedInv, Inside

LEMMA SharedReads ==
    ASSUME SharedInv, NEW t \in Threads, L!ReadClock(t)
    PROVE  SharedInv'
<1>1. /\ clock \in 0..MaxTime /\ read \in [Threads -> 0..MaxTime \cup {L!Outside}]
      /\ allowed \in Seq(Calls)
  BY DEF SharedInv, L!TypeOK, Calls
<1>2. read' = [read EXCEPT ![t] = clock] /\ UNCHANGED <<clock, bucket, allowed, doorBucket, retryAt, misled>>
  BY DEF L!ReadClock
<1>3. L!TypeOK'
  BY <1>1, <1>2 DEF SharedInv, L!TypeOK
<1>4. \A u \in Threads : read'[u] =< clock'
  BY <1>1, <1>2, ServingAssumption DEF SharedInv
<1>5. Inside(allowed)'
  BY <1>1, <1>2 DEF SharedInv, Inside
<1>6. QED
  BY <1>2, <1>3, <1>4, <1>5 DEF SharedInv

LEMMA SharedChecks ==
    ASSUME SharedInv, NEW t \in Threads, L!Check(t)
    PROVE  SharedInv'
<1> DEFINE kept == L!Evicted(bucket, read[t] - Window)
           hist == L!InWindow
           call == [by |-> t, read |-> read[t], at |-> clock]
           edge == clock - Window
<1>1. /\ clock \in 0..MaxTime /\ read \in [Threads -> 0..MaxTime \cup {L!Outside}]
      /\ allowed \in Seq(Calls) /\ bucket \in Seq(0..MaxTime)
  BY DEF SharedInv, L!TypeOK, Calls
<1>2. /\ IF Len(kept) >= Limit THEN bucket' = kept /\ UNCHANGED allowed
         ELSE bucket' = Append(kept, read[t]) /\ allowed' = Append(hist, call)
      /\ read' = [read EXCEPT ![t] = L!Outside]
      /\ UNCHANGED <<clock, doorBucket, retryAt, misled>>
  BY DEF L!Check
<1>3. read[t] \in 0..MaxTime /\ read[t] =< clock /\ call \in Calls
  BY <1>1 DEF L!Check, SharedInv, Calls
<1>4. clock \in Int /\ edge \in Int /\ read[t] - Window \in Int /\ read[t] - Window =< edge /\ Limit \in Nat
  BY <1>1, <1>3, ServingAssumption
<1>5. /\ kept \in Seq(0..MaxTime) /\ Len(kept) =< Len(bucket)
      /\ Aligned(kept, allowed) /\ FreshKept(kept, allowed, edge)
  <2> HIDE DEF edge
  <2>1. Aligned(bucket, allowed) /\ FreshKept(bucket, allowed, edge)
    BY DEF SharedInv, edge
  <2>2. QED
    BY <1>1, <1>4, <2>1, EvictionHarmless
<1>6. Len(kept) \in Nat /\ Len(bucket) \in Nat /\ Len(kept) =< Limit
  BY <1>1, <1>4, <1>5, LenProperties DEF SharedInv
<1>7. /\ hist \in Seq(Calls)
      /\ Aligned(kept, hist) /\ FreshKept(kept, hist, edge) /\ Turns(hist)
      /\ \A i \in 1..Len(hist) : \E j \in 1..Len(allowed) : hist[i] = allowed[j]
  <2> DEFINE G == {i \in 1..Len(allowed) : allowed[i].at >= clock - Window}
  <2>1. hist \in Seq(Calls) /\ \E k \in 0..Len(allowed) : CutAt(allowed, hist, G, k)
    BY <1>1, HistoryFront
  <2>2. Turns(allowed)
    BY DEF SharedInv
  <2> HIDE DEF G, hist, kept, edge
  <2>3. PICK k \in 0..Len(allowed) : CutAt(allowed, hist, G, k)
    BY <2>1
  <2>4. QED
    BY <1>1, <1>4, <1>5, <2>1, <2>2, <2>3, HistoryCut
<1> HIDE DEF kept, hist
<1>8. \A u \in Threads : read'[u] =< clock'
  BY <1>1, <1>2, <1>4 DEF SharedInv, L!Outside
<1>9. CASE Len(kept) >= Limit
  <2>1. bucket' = kept /\ UNCHANGED allowed
    BY <1>2, <1>9
  <2>2. L!TypeOK'
    BY <1>1, <1>2, <1>5, <2>1 DEF SharedInv, L!TypeOK
  <2>3. Inside(allowed)'
    BY <1>1, <1>2, <2>1 DEF SharedInv, Inside
  <2>4. QED
    BY <1>2, <1>5, <1>6, <1>8, <2>1, <2>2, <2>3 DEF SharedInv
<1>10. CASE Len(kept) < Limit
  <2>1. bucket' = Append(kept, call.read) /\ allowed' = Append(hist, call)
    BY <1>2, <1>4, <1>6, <1>10
  <2>2. Aligned(bucket', allowed') /\ FreshKept(bucket', allowed', clock' - Window)
    <3>1. Aligned(bucket', allowed') /\ FreshKept(bucket', allowed', edge)
      <4> HIDE DEF call, edge
      <4>1. QED
        BY <1>3, <1>4, <1>5, <1>7, <2>1, BothAppended
    <3>2. QED
      BY <1>2, <3>1
  <2>3. /\ Len(hist) \in Nat /\ Len(allowed') = Len(hist) + 1
        /\ allowed'[Len(hist) + 1] = call /\ \A i \in 1..Len(hist) : allowed'[i] = hist[i]
        /\ allowed' \in Seq(Calls)
    BY <1>3, <1>7, <2>1, LenProperties, AppendProperties
  <2>4. bucket' \in Seq(0..MaxTime) /\ Len(bucket') =< Limit
    BY <1>3, <1>4, <1>5, <1>6, <1>10, <2>1, AppendProperties
  <2>5. L!TypeOK'
    BY <1>1, <1>2, <2>3, <2>4 DEF SharedInv, L!TypeOK, Calls
  <2>6. \A i \in 1..Len(hist) : hist[i] \in Calls /\ hist[i].at =< clock
    BY <1>7, ElementOfSeq DEF SharedInv
  <2>7. \A i \in 1..Len(hist) : hist[i].by = t => hist[i].at =< read[t]
    <3>1. read[t] # L!Outside
      BY DEF L!Check
    <3>2. QED
      BY <1>7, <3>1 DEF SharedInv, Inside
  <2>8. \A i \in 1..Len(allowed') : i = Len(hist) + 1 \/ i \in 1..Len(hist)
    BY <2>3
  <2>9. \A i \in 1..Len(allowed') : allowed'[i].at =< clock'
    BY <1>2, <1>4, <2>3, <2>6, <2>8
  <2>10. Turns(allowed')
    <3> SUFFICES ASSUME NEW i \in 1..Len(allowed'), NEW j \in 1..Len(allowed'), i < j,
                        allowed'[i].by = allowed'[j].by
                 PROVE  allowed'[i].at =< allowed'[j].read
      BY DEF Turns
    <3>1. CASE j \in 1..Len(hist)
      <4>1. i \in 1..Len(hist)
        BY <2>3, <3>1
      <4>2. QED
        BY <1>7, <2>3, <3>1, <4>1 DEF Turns
    <3>2. CASE j = Len(hist) + 1
      <4>1. i \in 1..Len(hist)
        BY <2>3, <3>2
      <4>2. QED
        BY <2>3, <2>7, <3>2, <4>1
    <3>3. QED
      BY <2>8, <3>1, <3>2
  <2>11. Inside(allowed)'
    <3> SUFFICES ASSUME NEW i \in 1..Len(allowed'), allowed'[i].by \in Threads, read'[allowed'[i].by] # L!Outside
                 PROVE  allowed'[i].at =< read'[allowed'[i].by]
      BY DEF Inside
    <3>1. allowed'[i].by # t /\ read'[allowed'[i].by] = read[allowed'[i].by]
      BY <1>1, <1>2
    <3>2. i \in 1..Len(hist)
      BY <2>3, <2>8, <3>1
    <3>3. PICK j \in 1..Len(allowed) : hist[i] = allowed[j]
      BY <1>7, <3>2
    <3>4. allowed'[i] = allowed[j]
      BY <2>3, <3>2, <3>3
    <3>5. QED
      BY <3>1, <3>4 DEF SharedInv, Inside
  <2>12. QED
    BY <1>2, <1>8, <2>2, <2>4, <2>5, <2>9, <2>10, <2>11 DEF SharedInv
<1>11. QED
  BY <1>4, <1>6, <1>9, <1>10

\* A second more than the whole seconds of a wait is longer than the wait.
LEMMA SecondsEnough ==
    ASSUME NEW wait \in Nat
    PROVE  Second * (wait \div Second + 1) \in Nat /\ Second * (wait \div Second + 1) > wait
<1>1. Second \in Nat \ {0}
  BY ServingAssumption
<1>2. wait \div Second \in Nat /\ wait % Second \in 0..(Second - 1) /\ wait = Second * (wait \div Second) + (wait % Second)
  BY <1>1
<1>3. QED
  BY <1>1, <1>2

LEMMA DoorStep ==
    ASSUME L!TypeOK, DoorInv, NEW other \in BOOLEAN, L!Dispatch(other)
    PROVE  DoorInv' /\ doorBucket' \in Seq(0..MaxTime) /\ retryAt' \in Nat \cup {L!Outside} /\ misled' \in BOOLEAN
<1> DEFINE cutoff == clock - Window
           kept == L!Evicted(doorBucket, cutoff)
           due == ~other /\ retryAt # L!Outside /\ clock >= retryAt
           G == {i \in 1..Len(doorBucket) : doorBucket[i] >= cutoff}
<1>1. clock \in 0..MaxTime /\ doorBucket \in Seq(0..MaxTime) /\ retryAt \in Nat \cup {L!Outside} /\ misled \in BOOLEAN
  BY DEF L!TypeOK
<1>2. clock \in Nat /\ Limit \in Nat \ {0} /\ Window \in Nat
  BY <1>1, ServingAssumption
<1>3. IF Len(kept) >= Limit
      THEN /\ doorBucket' = kept /\ misled' = (misled \/ due)
           /\ retryAt' = IF other THEN retryAt ELSE clock + Second * ((Window - (clock - kept[1])) \div Second + 1)
      ELSE doorBucket' = Append(kept, clock) /\ retryAt' = L!Outside /\ UNCHANGED misled
  BY DEF L!Dispatch, L!RetryAfter
<1>4. kept \in Seq(0..MaxTime) /\ \E k \in 0..Len(doorBucket) : CutAt(doorBucket, kept, G, k)
  BY <1>1, EvictedFront
<1>5. PICK k \in 0..Len(doorBucket) : CutAt(doorBucket, kept, G, k)
  BY <1>4
<1> HIDE DEF kept, G
<1>6. Len(doorBucket) \in Nat /\ Len(kept) \in Nat /\ k \in Nat /\ Len(kept) = Len(doorBucket) - k
  <2>1. Len(doorBucket) \in Nat /\ Len(kept) \in Nat
    BY <1>1, <1>4, LenProperties
  <2>2. Len(kept) = Len(doorBucket) - k
    BY <1>5 DEF CutAt
  <2>3. QED
    BY <2>1, <2>2
<1>7. CASE Len(kept) >= Limit
  <2>1. k = 0 /\ Len(kept) = Limit /\ Len(doorBucket) = Limit
    BY <1>2, <1>6, <1>7 DEF DoorInv
  <2>2. 1 \in G /\ kept[1] = doorBucket[1]
    BY <1>2, <1>5, <2>1 DEF CutAt
  <2>3. doorBucket[1] >= cutoff /\ doorBucket[1] \in 0..MaxTime
    BY <1>1, <1>2, <2>1, <2>2, ElementOfSeq DEF G
  <2>4. ~due
    <3>1. SUFFICES ASSUME retryAt # L!Outside, clock >= retryAt PROVE FALSE
      OBVIOUS
    <3>2. retryAt \in Nat /\ retryAt > doorBucket[1] + Window
      BY <1>1, <3>1 DEF DoorInv
    <3>3. QED
      BY <1>2, <2>3, <3>1, <3>2
  <2>5. PICK wait \in Nat : wait = Window - (clock - kept[1])
    BY <1>2, <2>2, <2>3
  <2>6. PICK due_at \in Nat : due_at = clock + Second * (wait \div Second + 1) /\ due_at > doorBucket[1] + Window
    <3>1. Second * (wait \div Second + 1) \in Nat /\ Second * (wait \div Second + 1) > wait
      BY SecondsEnough
    <3>2. PICK told \in Nat : told = Second * (wait \div Second + 1) /\ told > wait
      BY <3>1
    <3>3. clock + told > doorBucket[1] + Window
      BY <1>2, <2>2, <2>3, <2>5, <3>2
    <3>4. QED
      BY <1>2, <3>2, <3>3
  <2>7. retryAt' = IF other THEN retryAt ELSE due_at
    BY <1>3, <1>7, <2>5, <2>6
  <2>8. doorBucket' = kept /\ misled' = (misled \/ due)
    BY <1>3, <1>7
  <2>9. QED
    BY <1>1, <1>2, <1>4, <2>1, <2>2, <2>4, <2>6, <2>7, <2>8 DEF DoorInv, L!Outside
<1>8. CASE Len(kept) < Limit
  <2>1. doorBucket' = Append(kept, clock) /\ retryAt' = L!Outside /\ UNCHANGED misled
    BY <1>2, <1>3, <1>6, <1>8
  <2>2. doorBucket' \in Seq(0..MaxTime) /\ Len(doorBucket') = Len(kept) + 1
    BY <1>1, <1>4, <2>1, AppendProperties
  <2>3. QED
    BY <1>1, <1>2, <1>6, <1>8, <2>1, <2>2 DEF DoorInv
<1>9. QED
  BY <1>2, <1>6, <1>7, <1>8

LEMMA LimiterInit == L!Init => SharedInv /\ DoorInv
<1> SUFFICES ASSUME L!Init PROVE SharedInv /\ DoorInv
  OBVIOUS
<1>1. << >> \in Seq(0..MaxTime) /\ << >> \in Seq([by : Threads, read : 0..MaxTime, at : 0..MaxTime]) /\ Len(<< >>) = 0
  BY EmptySeq
<1>2. L!TypeOK
  <2>1. 0 \in 0..MaxTime
    BY ServingAssumption
  <2>2. read \in [Threads -> 0..MaxTime \cup {L!Outside}]
    BY DEF L!Init
  <2>3. QED
    BY <1>1, <2>1, <2>2 DEF L!Init, L!TypeOK
<1>3. \A t \in Threads : read[t] =< clock
  BY DEF L!Init, L!Outside
<1>4. bucket = << >> /\ allowed = << >> /\ doorBucket = << >> /\ retryAt = L!Outside /\ misled = FALSE
  BY DEF L!Init
<1>5. QED
  BY <1>1, <1>2, <1>3, <1>4, ServingAssumption
     DEF SharedInv, DoorInv, Aligned, FreshKept, Turns, Inside

LEMMA LimiterStep == SharedInv /\ DoorInv /\ [L!Next]_(L!vars) => SharedInv' /\ DoorInv'
<1> SUFFICES ASSUME SharedInv, DoorInv, [L!Next]_(L!vars) PROVE SharedInv' /\ DoorInv'
  OBVIOUS
<1>1. L!TypeOK /\ clock \in 0..MaxTime /\ clock \in Nat
  BY ServingAssumption DEF SharedInv, L!TypeOK
<1>2. UNCHANGED <<doorBucket, retryAt, misled>> => DoorInv'
  BY DEF DoorInv
<1>3. ASSUME NEW t \in Threads, L!ReadClock(t) \/ L!Check(t) PROVE SharedInv' /\ DoorInv'
  BY <1>2, <1>3, SharedReads, SharedChecks DEF L!ReadClock, L!Check
<1>4. ASSUME NEW other \in BOOLEAN, L!Dispatch(other) PROVE SharedInv' /\ DoorInv'
  <2>1. UNCHANGED <<clock, read, bucket, allowed>>
    BY <1>4 DEF L!Dispatch
  <2>2. DoorInv' /\ L!TypeOK'
    BY <1>1, <1>4, <2>1, DoorStep DEF L!TypeOK
  <2>3. QED
    BY <1>1, <2>1, <2>2, SharedKept
<1>5. CASE L!Tick
  <2>1. clock' \in 0..MaxTime /\ clock' >= clock /\ UNCHANGED <<read, bucket, allowed, doorBucket, retryAt, misled>>
    BY <1>1, <1>5, ServingAssumption DEF L!Tick
  <2>2. L!TypeOK'
    BY <1>1, <2>1 DEF L!TypeOK
  <2>3. QED
    BY <1>2, <2>1, <2>2, SharedKept
<1>6. CASE UNCHANGED L!vars
  <2>1. UNCHANGED <<clock, read, bucket, allowed, doorBucket, retryAt, misled>>
    BY <1>6 DEF L!vars
  <2>2. L!TypeOK'
    BY <1>1, <2>1 DEF L!TypeOK
  <2>3. QED
    BY <1>1, <1>2, <2>1, <2>2, SharedKept
<1>7. QED
  BY <1>3, <1>4, <1>5, <1>6 DEF L!Next, L!Shared, L!Door

\* SlidingWindowRateLimiter.dispatch: a client that comes back after Retry-After
\* and finds that none was let in meanwhile is let in.
THEOREM ComesBackIn == L!Spec => []RetryAfterHonoured
<1>1. SharedInv /\ DoorInv => RetryAfterHonoured
  BY DEF DoorInv, RetryAfterHonoured, L!RetryAfterHonoured
<1>2. QED
  BY <1>1, LimiterInit, LimiterStep, PTL DEF L!Spec

\* RateLimiter.check: what was admitted within the window, and read the clock
\* within it, is no more than the limit; a thread adds at most one call to that.
LEMMA BoundFollows == SharedInv => WindowBound
<1> SUFFICES ASSUME SharedInv PROVE WindowBound
  OBVIOUS
<1> DEFINE n == Len(allowed)
           edge == clock - Window
           Over == {i \in 1..n : allowed[i].at >= edge /\ allowed[i].read < edge}
<1>1. clock \in Nat /\ edge \in Int /\ Limit \in Nat /\ allowed \in Seq(Calls) /\ bucket \in Seq(0..MaxTime)
  BY ServingAssumption DEF SharedInv, L!TypeOK, Calls
<1>2. n \in Nat /\ Len(bucket) \in Nat /\ DOMAIN allowed = 1..n
  BY <1>1, LenProperties
<1>3. \A i \in 1..n : allowed[i].read \in Int /\ allowed[i].at \in Int /\ allowed[i].by \in Threads
  <2>1. \A i \in 1..n : allowed[i] \in Calls
    BY <1>1, ElementOfSeq
  <2>2. \A c \in Calls : c.read \in Int /\ c.at \in Int /\ c.by \in Threads
    BY ServingAssumption DEF Calls
  <2>3. QED
    BY <2>1, <2>2
<1>4. IsFiniteSet(L!Fresh) /\ Cardinality(L!Fresh) =< Limit /\ Cardinality(L!Fresh) \in Nat
  <2> DEFINE I == (n - Len(bucket) + 1)..n
  <2>1. L!Fresh \in SUBSET I
    BY <1>2 DEF L!Fresh, SharedInv, FreshKept
  <2>2. IsFiniteSet(I) /\ Cardinality(I) = Len(bucket)
    <3>1. n - Len(bucket) + 1 \in Int /\ n \in Int
      BY <1>2
    <3>2. IsFiniteSet(I) /\ Cardinality(I) = IF n - Len(bucket) + 1 > n THEN 0 ELSE n - (n - Len(bucket) + 1) + 1
      BY <3>1, FS_Interval
    <3> HIDE DEF I
    <3>3. QED
      BY <1>2, <3>2
  <2> HIDE DEF I
  <2>3. IsFiniteSet(L!Fresh) /\ Cardinality(L!Fresh) =< Cardinality(I) /\ Cardinality(L!Fresh) \in Nat
    BY <2>1, <2>2, FS_Subset, FS_CardinalityType
  <2>4. Len(bucket) =< Limit
    BY DEF SharedInv
  <2>5. QED
    BY <1>1, <1>2, <2>2, <2>3, <2>4
<1>5. IsFiniteSet(Over) /\ Cardinality(Over) =< Cardinality(Threads) /\ Cardinality(Over) \in Nat
  <2>1. Over \in SUBSET (1..n) /\ IsFiniteSet(1..n)
    BY <1>2, FS_Interval
  <2>2. IsFiniteSet(Over) /\ Cardinality(Over) \in Nat /\ IsFiniteSet(Threads) /\ Cardinality(Threads) \in Nat
    BY <2>1, FS_Subset, FS_CardinalityType, ServingAssumption
  <2>3. ASSUME Cardinality(Threads) < Cardinality(Over) PROVE FALSE
    <3> DEFINE f == [i \in Over |-> allowed[i].by]
    <3>1. f \in [Over -> Threads]
      BY <1>3
    <3>2. \E i, j \in Over : i # j /\ f[i] = f[j]
      <4> HIDE DEF f, Over
      <4>1. QED
        BY <2>2, <2>3, <3>1, FS_PigeonHole
    <3>3. PICK i \in Over, j \in Over : i < j /\ allowed[i].by = allowed[j].by
      BY <3>2
    <3>4. allowed[i].at =< allowed[j].read
      BY <3>3 DEF SharedInv, Turns
    <3>5. QED
      BY <1>1, <1>3, <3>4
  <2>4. QED
    BY <2>2, <2>3
<1>6. L!Recent \subseteq L!Fresh \cup Over
  BY <1>1, <1>2, <1>3 DEF L!Recent, L!Fresh
<1> HIDE DEF Over
<1>7. /\ IsFiniteSet(L!Fresh \cup Over)
      /\ Cardinality(L!Fresh \cup Over) =< Cardinality(L!Fresh) + Cardinality(Over)
  <2>1. /\ IsFiniteSet(L!Fresh \cup Over)
        /\ Cardinality(L!Fresh \cup Over) = Cardinality(L!Fresh) + Cardinality(Over) - Cardinality(L!Fresh \cap Over)
    BY <1>4, <1>5, FS_Union
  <2>2. Cardinality(L!Fresh \cap Over) \in Nat
    BY <1>4, FS_Intersection, FS_CardinalityType
  <2>3. QED
    BY <1>4, <1>5, <2>1, <2>2
<1>8. Cardinality(L!Recent) =< Cardinality(L!Fresh \cup Over) /\ Cardinality(L!Recent) \in Nat
  BY <1>6, <1>7, FS_Subset, FS_CardinalityType
<1>9. Cardinality(Threads) \in Nat /\ Cardinality(L!Fresh \cup Over) \in Nat
  BY <1>7, FS_CardinalityType, ServingAssumption
<1>10. Cardinality(L!Recent) =< Limit + Cardinality(Threads)
  BY <1>1, <1>4, <1>5, <1>7, <1>8, <1>9
<1>11. \A X : L!Cardinality(X) = Cardinality(X)
  BY DEF L!Cardinality, Cardinality
<1>12. QED
  BY <1>4, <1>10, <1>11 DEF WindowBound, L!WindowBound

\* RateLimiter.check: within the window the shared limiter admits no more than
\* its limit, but for one call of each thread that was overtaken on the way to
\* the lock.
THEOREM BoundedWindow == L!Spec => []WindowBound
BY LimiterInit, LimiterStep, BoundFollows, PTL DEF L!Spec

-----------------------------------------------------------------------------
\* The hub: what a client was sent, is to be sent, has queued and has scheduled
\* rises from the one to the other; of the history it has all it asked for, and
\* of what was published since it subscribed too, but for what was dropped.
Before(s, t) == \A x \in ToSet(s), y \in ToSet(t) : x < y
Untouched(c) ==
    sent[c] = << >> /\ todo[c] = << >> /\ queue[c] = << >> /\ scheduled[c] = << >> /\ dropped[c] = {}
InOrder(c) ==
    /\ S!Increasing(sent[c]) /\ S!Increasing(todo[c]) /\ S!Increasing(queue[c]) /\ S!Increasing(scheduled[c])
    /\ Before(sent[c], todo[c]) /\ Before(sent[c], queue[c]) /\ Before(sent[c], scheduled[c])
    /\ Before(queue[c], scheduled[c])
    /\ ToSet(sent[c]) \cup ToSet(todo[c]) \subseteq 1..Len(kind)
    /\ until[c].history =< Len(kind)
HistoryPassedOn(c) ==
    \A e \in from[c]..until[c].history : kind[e] \in filter[c] => e \in ToSet(sent[c]) \cup ToSet(todo[c])
Replays(c) == queue[c] = << >> /\ scheduled[c] = << >> /\ dropped[c] = {}
Subscribed(c) ==
    /\ todo[c] = << >>
    /\ until[c].history =< until[c].subscribed /\ until[c].subscribed =< Len(kind)
    /\ ToSet(queue[c]) \cup ToSet(scheduled[c]) \subseteq (until[c].subscribed + 1)..Len(kind)
    /\ \A e \in (until[c].subscribed + 1)..Len(kind) :
          kind[e] \in filter[c] => e \in ToSet(sent[c]) \cup ToSet(queue[c]) \cup ToSet(scheduled[c]) \cup dropped[c]
    /\ dropped[c] # {} => Len(kind) - until[c].subscribed > QueueMax
ClientInv(c) ==
    /\ connection[c] = "new" => Untouched(c)
    /\ connection[c] \in {"replay", "live"} => InOrder(c) /\ HistoryPassedOn(c)
    /\ connection[c] = "replay" => Replays(c)
    /\ connection[c] = "live" => Subscribed(c)
HubTyped ==
    /\ lines \in 0..MaxLines /\ next \in 0..(MaxLines + 1)
    /\ kind \in Seq(S!Kinds) /\ Len(kind) =< MaxEvents
    /\ connection \in [Clients -> {"new", "replay", "live", "gone"}]
    /\ filter \in [Clients -> SUBSET S!Kinds]
    /\ todo \in [Clients -> Seq(S!Events)] /\ scheduled \in [Clients -> Seq(S!Events)]
    /\ queue \in [Clients -> Seq(S!Events)] /\ sent \in [Clients -> Seq(S!Events)]
    /\ from \in [Clients -> 1..(MaxEvents + 1)]
    /\ until \in [Clients -> [history : 0..MaxEvents, subscribed : 0..MaxEvents]]
    /\ dropped \in [Clients -> SUBSET S!Events]
HubInv == HubTyped /\ \A c \in Clients : ClientInv(c)

\* The first event of a queue, and what is left when it is taken.
LEMMA HeadOff ==
    ASSUME NEW q \in Seq(S!Events), q # << >>
    PROVE  /\ Head(q) \in S!Events /\ Tail(q) \in Seq(S!Events)
           /\ ToSet(q) = {Head(q)} \cup ToSet(Tail(q))
           /\ S!Increasing(q) => S!Increasing(Tail(q)) /\ \A y \in ToSet(Tail(q)) : Head(q) < y
<1>1. Len(q) \in Nat \ {0} /\ DOMAIN q = 1..Len(q) /\ Head(q) = q[1]
  BY EmptySeq, LenProperties
<1>2. /\ Head(q) \in S!Events /\ Tail(q) \in Seq(S!Events) /\ Len(Tail(q)) = Len(q) - 1
      /\ \A i \in 1..(Len(q) - 1) : Tail(q)[i] = q[i + 1]
  BY HeadTailProperties
<1>3. DOMAIN Tail(q) = 1..(Len(q) - 1)
  BY <1>2, LenProperties
<1>4. ToSet(q) = {Head(q)} \cup ToSet(Tail(q))
  <2>1. ASSUME NEW x \in ToSet(q) PROVE x \in {Head(q)} \cup ToSet(Tail(q))
    <3>1. PICK i \in 1..Len(q) : x = q[i]
      BY <1>1, <2>1 DEF ToSet
    <3>2. CASE i # 1
      <4>1. i - 1 \in 1..(Len(q) - 1) /\ (i - 1) + 1 = i
        BY <1>1, <3>2
      <4>2. Tail(q)[i - 1] = x
        BY <1>2, <3>1, <4>1
      <4>3. QED
        BY <1>3, <4>1, <4>2 DEF ToSet
    <3>3. QED
      BY <1>1, <3>1, <3>2
  <2>2. ASSUME NEW x \in ToSet(Tail(q)) PROVE x \in ToSet(q)
    <3>1. PICK i \in 1..(Len(q) - 1) : x = Tail(q)[i]
      BY <1>3 DEF ToSet
    <3>2. i + 1 \in 1..Len(q) /\ x = q[i + 1]
      BY <1>1, <1>2, <3>1
    <3>3. QED
      BY <1>1, <3>2 DEF ToSet
  <2>3. Head(q) \in ToSet(q)
    BY <1>1 DEF ToSet
  <2>4. QED
    BY <2>1, <2>2, <2>3
<1>5. ASSUME S!Increasing(q) PROVE S!Increasing(Tail(q)) /\ \A y \in ToSet(Tail(q)) : Head(q) < y
  <2>1. ASSUME NEW i \in 1..(Len(q) - 1), NEW j \in 1..(Len(q) - 1), i < j PROVE Tail(q)[i] < Tail(q)[j]
    <3>1. i + 1 \in 1..Len(q) /\ j + 1 \in 1..Len(q) /\ i + 1 < j + 1
      BY <1>1, <2>1
    <3>2. q[i + 1] < q[j + 1]
      BY <1>1, <1>5, <3>1 DEF S!Increasing
    <3>3. QED
      BY <1>2, <3>2
  <2>2. ASSUME NEW y \in ToSet(Tail(q)) PROVE Head(q) < y
    <3>1. PICK i \in 1..(Len(q) - 1) : y = Tail(q)[i]
      BY <1>3 DEF ToSet
    <3>2. i + 1 \in 1..Len(q) /\ 1 < i + 1 /\ 1 \in 1..Len(q)
      BY <1>1
    <3>3. q[1] < q[i + 1]
      BY <1>1, <1>5, <3>2 DEF S!Increasing
    <3>4. QED
      BY <1>1, <1>2, <3>1, <3>3
  <2>3. QED
    BY <1>3, <2>1, <2>2 DEF S!Increasing
<1>6. QED
  BY <1>2, <1>4, <1>5

\* An event that is put behind others.
LEMMA PutLast ==
    ASSUME NEW s \in Seq(S!Events), NEW e \in S!Events
    PROVE  /\ Append(s, e) \in Seq(S!Events)
           /\ ToSet(Append(s, e)) = ToSet(s) \cup {e}
           /\ S!Increasing(s) /\ (\A x \in ToSet(s) : x < e) => S!Increasing(Append(s, e))
<1> DEFINE t == Append(s, e)
<1>1. Len(s) \in Nat /\ DOMAIN s = 1..Len(s)
  BY LenProperties
<1>2. /\ t \in Seq(S!Events) /\ Len(t) = Len(s) + 1
      /\ t[Len(s) + 1] = e /\ \A i \in 1..Len(s) : t[i] = s[i]
  BY AppendProperties
<1>3. DOMAIN t = 1..(Len(s) + 1)
  BY <1>2, LenProperties
<1> HIDE DEF t
<1>4. ToSet(t) = ToSet(s) \cup {e}
  <2>1. \A i \in 1..(Len(s) + 1) : i = Len(s) + 1 \/ i \in 1..Len(s)
    BY <1>1
  <2>2. 1..Len(s) \subseteq 1..(Len(s) + 1) /\ Len(s) + 1 \in 1..(Len(s) + 1)
    BY <1>1
  <2>3. QED
    BY <1>1, <1>2, <1>3, <2>1, <2>2 DEF ToSet
<1>5. ASSUME S!Increasing(s), \A x \in ToSet(s) : x < e PROVE S!Increasing(t)
  <2> SUFFICES ASSUME NEW i \in 1..(Len(s) + 1), NEW j \in 1..(Len(s) + 1), i < j PROVE t[i] < t[j]
    BY <1>3 DEF S!Increasing
  <2>1. i \in 1..Len(s) /\ s[i] \in ToSet(s)
    BY <1>1 DEF ToSet
  <2>2. QED
    BY <1>1, <1>2, <1>5, <2>1 DEF S!Increasing
<1>6. QED
  BY <1>2, <1>4, <1>5 DEF t

\* What a generator makes of an event: the client is sent it, or not.
LEMMA Passed ==
    ASSUME NEW c, NEW s \in Seq(S!Events), NEW e \in S!Events
    PROVE  /\ kind[e] \in filter[c] => s \o S!Wanted(c, e) = Append(s, e)
           /\ kind[e] \notin filter[c] => s \o S!Wanted(c, e) = s
<1>1. s \o <<e>> = Append(s, e)
  OBVIOUS
<1>2. s \o << >> = s
  BY ConcatEmptySeq
<1>3. QED
  BY <1>1, <1>2 DEF S!Wanted

\* Rising events of a range are no more than the range has room for.
LEMMA Room ==
    ASSUME NEW s \in Seq(S!Events), S!Increasing(s), NEW a \in Nat, NEW b \in Nat, a =< b,
           ToSet(s) \subseteq (a + 1)..b
    PROVE  Len(s) =< b - a
<1>1. Len(s) \in Nat /\ DOMAIN s = 1..Len(s)
  BY LenProperties
<1>2. IsFiniteSet(1..Len(s)) /\ Cardinality(1..Len(s)) = Len(s)
  BY <1>1, FS_Interval
<1>3. IsFiniteSet((a + 1)..b) /\ Cardinality((a + 1)..b) = b - a
  <2>1. IsFiniteSet((a + 1)..b) /\ Cardinality((a + 1)..b) = IF a + 1 > b THEN 0 ELSE b - (a + 1) + 1
    <3>1. a + 1 \in Int /\ b \in Int
      OBVIOUS
    <3>2. QED
      BY <3>1, FS_Interval
  <2>2. QED
    BY <2>1
<1>4. s \in [1..Len(s) -> (a + 1)..b]
  BY <1>1 DEF ToSet
<1>5. ASSUME Len(s) > b - a PROVE FALSE
  <2>1. PICK i \in 1..Len(s), j \in 1..Len(s) : i # j /\ s[i] = s[j]
    <3>1. Cardinality((a + 1)..b) < Cardinality(1..Len(s))
      BY <1>1, <1>2, <1>3, <1>5
    <3>2. QED
      BY <1>2, <1>3, <1>4, <3>1, FS_PigeonHole
  <2>2. s[i] \in Int /\ s[j] \in Int
    BY <1>4
  <2>3. QED
    BY <1>1, <2>1, <2>2 DEF S!Increasing
<1>6. QED
  BY <1>1, <1>5

-----------------------------------------------------------------------------
\* A client of which a step changes nothing.
LEMMA ClientKept ==
    ASSUME NEW d, ClientInv(d), UNCHANGED kind,
           connection'[d] = connection[d], filter'[d] = filter[d], todo'[d] = todo[d],
           scheduled'[d] = scheduled[d], queue'[d] = queue[d], sent'[d] = sent[d],
           from'[d] = from[d], until'[d] = until[d], dropped'[d] = dropped[d]
    PROVE  ClientInv(d)'
<1>1. Untouched(d)' <=> Untouched(d)
  BY DEF Untouched
<1>2. InOrder(d)' <=> InOrder(d)
  BY DEF InOrder
<1>3. HistoryPassedOn(d)' <=> HistoryPassedOn(d)
  BY DEF HistoryPassedOn
<1>4. Replays(d)' <=> Replays(d)
  BY DEF Replays
<1>5. Subscribed(d)' <=> Subscribed(d)
  BY DEF Subscribed
<1>6. QED
  BY <1>1, <1>2, <1>3, <1>4, <1>5 DEF ClientInv

LEMMA EmptySeqSet == ToSet(<< >>) = {} /\ S!Increasing(<< >>)
BY DEF ToSet, S!Increasing

\* publish: behind everything that was published before.
LEMMA PublishStep ==
    ASSUME HubInv, NEW k \in S!Kinds, S!Publish(k)
    PROVE  /\ kind' \in Seq(S!Kinds) /\ Len(kind') =< MaxEvents
           /\ scheduled' \in [Clients -> Seq(S!Events)]
           /\ \A c \in Clients : ClientInv(c)'
<1> DEFINE n == Len(kind)
<1>1. kind \in Seq(S!Kinds) /\ n \in Nat /\ n < MaxEvents /\ MaxEvents \in Nat /\ n + 1 \in S!Events
  BY LenProperties, ServingAssumption DEF HubInv, HubTyped, S!Publish, S!Events
<1>2. /\ kind' \in Seq(S!Kinds) /\ Len(kind') = n + 1
      /\ \A e \in 1..n : kind'[e] = kind[e]
  BY <1>1, AppendProperties DEF S!Publish
<1>3. UNCHANGED <<connection, filter, todo, queue, sent, from, until, dropped>>
  BY DEF S!Publish, S!client
<1>4. \A c \in Clients : scheduled'[c] = IF connection[c] = "live" THEN Append(scheduled[c], n + 1) ELSE scheduled[c]
  BY <1>2 DEF S!Publish
<1>5. scheduled' \in [Clients -> Seq(S!Events)]
  <2>1. \A c \in Clients : scheduled[c] \in Seq(S!Events) /\ Append(scheduled[c], n + 1) \in Seq(S!Events)
    BY <1>1, PutLast DEF HubInv, HubTyped
  <2>2. QED
    BY <1>2, <2>1 DEF S!Publish
<1>6. ASSUME NEW c \in Clients PROVE ClientInv(c)'
  <2> DEFINE b == until[c].subscribed
             h == until[c].history
  <2>1. /\ ClientInv(c) /\ from[c] \in Nat \ {0} /\ h \in Nat /\ b \in Nat
        /\ scheduled[c] \in Seq(S!Events)
    BY DEF HubInv, HubTyped
  <2>2. CASE connection[c] \in {"new", "gone"}
    BY <1>3, <1>4, <2>1, <2>2 DEF ClientInv, Untouched
  <2>3. ASSUME connection[c] \in {"replay", "live"} PROVE HistoryPassedOn(c)'
    <3>1. h =< n /\ HistoryPassedOn(c)
      BY <2>1, <2>3 DEF ClientInv, InOrder
    <3>2. \A e \in from[c]..h : e \in 1..n
      BY <1>1, <2>1, <3>1
    <3>3. QED
      BY <1>2, <1>3, <3>1, <3>2 DEF HistoryPassedOn
  <2>4. CASE connection[c] = "replay"
    <3>1. UNCHANGED scheduled[c]
      BY <1>4, <2>4
    <3>2. InOrder(c)'
      BY <1>1, <1>2, <1>3, <2>1, <2>4, <3>1 DEF ClientInv, InOrder, Before
    <3>3. QED
      BY <1>3, <2>1, <2>3, <2>4, <3>1, <3>2 DEF ClientInv, Replays
  <2>5. CASE connection[c] = "live"
    <3>1. /\ InOrder(c) /\ Subscribed(c)
      BY <2>1, <2>5 DEF ClientInv
    <3>2. scheduled'[c] = Append(scheduled[c], n + 1)
      BY <1>4, <2>5
    <3>3. \A x \in ToSet(sent[c]) \cup ToSet(queue[c]) \cup ToSet(scheduled[c]) : x \in 1..n
      BY <1>1, <2>1, <3>1 DEF InOrder, Subscribed
    <3>4. /\ ToSet(scheduled'[c]) = ToSet(scheduled[c]) \cup {n + 1}
          /\ S!Increasing(scheduled'[c])
      <4>1. \A x \in ToSet(scheduled[c]) : x < n + 1
        BY <1>1, <3>3
      <4>2. QED
        BY <1>1, <2>1, <3>1, <3>2, <4>1, PutLast DEF InOrder
    <3>5. InOrder(c)'
      <4>1. Before(sent[c], scheduled'[c]) /\ Before(queue[c], scheduled'[c])
        BY <1>1, <3>1, <3>3, <3>4 DEF InOrder, Before
      <4>2. ToSet(sent[c]) \cup ToSet(todo[c]) \subseteq 1..(n + 1) /\ h =< n + 1
        BY <1>1, <2>1, <3>1 DEF InOrder
      <4>3. QED
        BY <1>2, <1>3, <3>1, <3>4, <4>1, <4>2 DEF InOrder
    <3>6. Subscribed(c)'
      <4>1. ToSet(queue[c]) \cup ToSet(scheduled'[c]) \subseteq (b + 1)..(n + 1)
        BY <1>1, <2>1, <3>1, <3>4 DEF Subscribed
      <4>2. \A e \in (b + 1)..(n + 1) : kind'[e] \in filter[c] =>
               e \in ToSet(sent[c]) \cup ToSet(queue[c]) \cup ToSet(scheduled'[c]) \cup dropped[c]
        <5> SUFFICES ASSUME NEW e \in (b + 1)..(n + 1), kind'[e] \in filter[c], e # n + 1
                     PROVE  e \in ToSet(sent[c]) \cup ToSet(queue[c]) \cup ToSet(scheduled'[c]) \cup dropped[c]
          BY <3>4
        <5>1. e \in (b + 1)..n /\ e \in 1..n
          BY <1>1, <2>1
        <5>2. QED
          BY <1>2, <3>1, <3>4, <5>1 DEF Subscribed
      <4>3. dropped[c] # {} => (n + 1) - b > QueueMax
        BY <1>1, <2>1, <3>1, ServingAssumption DEF Subscribed
      <4>4. todo[c] = << >> /\ h =< b /\ b =< n + 1
        BY <1>1, <2>1, <3>1 DEF Subscribed
      <4>5. QED
        BY <1>2, <1>3, <4>1, <4>2, <4>3, <4>4 DEF Subscribed
    <3>7. QED
      BY <1>3, <2>3, <2>5, <3>5, <3>6 DEF ClientInv
  <2>6. QED
    BY <2>2, <2>4, <2>5 DEF HubInv, HubTyped
<1>7. QED
  BY <1>1, <1>2, <1>5, <1>6

\* recent_history: the last events, without a gap.
LEMMA RecentIs ==
    ASSUME kind \in Seq(S!Kinds)
    PROVE  /\ S!RecentHistory \in Seq(1..Len(kind))
           /\ Len(S!RecentHistory) =< Len(kind)
           /\ \A i \in 1..Len(S!RecentHistory) :
                 S!RecentHistory[i] = (Len(kind) - Len(S!RecentHistory)) + i
<1> DEFINE n == Len(kind)
           first == IF n > HistoryMax THEN n - HistoryMax + 1 ELSE 1
           last == [i \in 1..(n - first + 1) |-> first + i - 1]
           m == n - first + 1
<1>1. n \in Nat /\ HistoryMax \in Nat /\ Replayed \in Nat
  BY LenProperties, ServingAssumption
<1>2. first \in 1..(n + 1) /\ m \in 0..n
  BY <1>1
<1>3. last \in Seq(1..n) /\ Len(last) = m
  <2>1. \A i \in 1..m : first + i - 1 \in 1..n
    BY <1>1, <1>2
  <2> HIDE DEF first
  <2>2. QED
    BY <1>1, <1>2, <2>1
<1>4. S!RecentHistory = IF Len(last) > Replayed THEN SubSeq(last, Len(last) - Replayed + 1, Len(last)) ELSE last
  BY DEF S!RecentHistory
<1>5. \A i \in 1..m : last[i] = (n - m) + i
  BY <1>1, <1>2
<1> HIDE DEF last, first, m
<1>6. CASE m > Replayed
  <2> DEFINE r == SubSeq(last, m - Replayed + 1, m)
  <2>1. m - Replayed + 1 \in 1..m
    BY <1>1, <1>2, <1>6, ServingAssumption
  <2>2. \A i \in (m - Replayed + 1)..m : last[i] \in 1..n
    BY <1>2, <1>3, <2>1, ElementOfSeq
  <2>3. /\ r \in Seq(1..n) /\ Len(r) = Replayed
        /\ \A i \in 1..Replayed : r[i] = last[(m - Replayed + 1) + i - 1]
    <3>1. m - Replayed + 1 \in Int /\ m \in Int /\ m - (m - Replayed + 1) + 1 = Replayed
      BY <1>1, <1>2
    <3>2. /\ r \in Seq(1..n) /\ Len(r) = m - (m - Replayed + 1) + 1
          /\ \A i \in 1..(m - (m - Replayed + 1) + 1) : r[i] = last[(m - Replayed + 1) + i - 1]
      BY <2>1, <2>2, <3>1, SubSeqProperties
    <3> HIDE DEF r
    <3>3. QED
      BY <3>1, <3>2
  <2>4. \A i \in 1..Replayed : r[i] = (n - Replayed) + i
    <3> SUFFICES ASSUME NEW i \in 1..Replayed PROVE r[i] = (n - Replayed) + i
      OBVIOUS
    <3> DEFINE j == (m - Replayed + 1) + i - 1
    <3>1. j \in 1..m /\ (n - m) + j = (n - Replayed) + i
      BY <1>1, <1>2, <1>6
    <3> HIDE DEF j
    <3>2. last[j] = (n - Replayed) + i
      BY <1>5, <3>1
    <3>3. QED
      BY <2>3, <3>2 DEF j
  <2>5. S!RecentHistory = r
    BY <1>3, <1>4, <1>6
  <2> HIDE DEF r
  <2>6. QED
    BY <1>1, <1>2, <1>6, <2>3, <2>4, <2>5
<1>7. CASE ~(m > Replayed)
  <2>1. S!RecentHistory = last
    BY <1>3, <1>4, <1>7
  <2>2. Len(last) =< n /\ \A i \in 1..Len(last) : last[i] = (n - Len(last)) + i
    BY <1>1, <1>2, <1>3, <1>5
  <2>3. QED
    BY <1>3, <2>1, <2>2
<1>8. QED
  BY <1>6, <1>7

\* A request reads the history.
LEMMA ConnectStep ==
    ASSUME HubInv, NEW c \in Clients, S!Connect(c)
    PROVE  HubTyped' /\ ClientInv(c)'
<1> DEFINE n == Len(kind)
           r == S!RecentHistory
<1>1. kind \in Seq(S!Kinds) /\ n \in Nat /\ n =< MaxEvents /\ MaxEvents \in Nat
  BY LenProperties, ServingAssumption DEF HubInv, HubTyped
<1>2. /\ r \in Seq(1..n) /\ Len(r) =< n /\ Len(r) \in Nat /\ DOMAIN r = 1..Len(r)
      /\ \A i \in 1..Len(r) : r[i] = (n - Len(r)) + i
  BY <1>1, RecentIs, LenProperties
<1> HIDE DEF r
<1>3. r \in Seq(S!Events) /\ n - Len(r) + 1 \in 1..(MaxEvents + 1)
  <2>1. 1..n \subseteq S!Events
    BY <1>1 DEF S!Events
  <2>2. r \in Seq(S!Events)
    BY <1>2, <2>1, SeqMonotonic
  <2>3. QED
    BY <1>1, <1>2, <2>2
<1>4. PICK want \in {S!Kinds, {"log"}} : filter' = [filter EXCEPT ![c] = want]
  BY DEF S!Connect
<1>5. /\ connection[c] = "new"
      /\ connection' = [connection EXCEPT ![c] = "replay"]
      /\ todo' = [todo EXCEPT ![c] = r]
      /\ from' = [from EXCEPT ![c] = n - Len(r) + 1]
      /\ until' = [until EXCEPT ![c].history = n]
      /\ UNCHANGED <<lines, next, kind, scheduled, queue, sent, dropped>>
  BY DEF S!Connect, r
<1>6. HubTyped'
  <2>1. want \in SUBSET S!Kinds
    BY DEF S!Kinds
  <2>2. until' \in [Clients -> [history : 0..MaxEvents, subscribed : 0..MaxEvents]]
    <3>1. n \in 0..MaxEvents /\ until \in [Clients -> [history : 0..MaxEvents, subscribed : 0..MaxEvents]]
      BY <1>1 DEF HubInv, HubTyped
    <3>2. [until[c] EXCEPT !.history = n] \in [history : 0..MaxEvents, subscribed : 0..MaxEvents]
      BY <3>1
    <3>3. until' = [until EXCEPT ![c] = [until[c] EXCEPT !.history = n]]
      BY <1>5
    <3>4. QED
      BY <3>1, <3>2, <3>3
  <2>3. QED
    BY <1>3, <1>4, <1>5, <2>1, <2>2 DEF HubInv, HubTyped
<1>7. connection'[c] = "replay" /\ todo'[c] = r /\ from'[c] = n - Len(r) + 1 /\ until'[c].history = n
  BY <1>5 DEF HubInv, HubTyped
<1>8. Untouched(c)
  BY <1>5 DEF HubInv, ClientInv
<1>9. ToSet(r) = (n - Len(r) + 1)..n /\ S!Increasing(r)
  <2>1. \A i \in 1..Len(r) : r[i] \in (n - Len(r) + 1)..n
    BY <1>1, <1>2
  <2>2. ASSUME NEW e \in (n - Len(r) + 1)..n PROVE e \in ToSet(r)
    <3>1. e - (n - Len(r)) \in 1..Len(r) /\ (n - Len(r)) + (e - (n - Len(r))) = e
      BY <1>1, <1>2
    <3>2. r[e - (n - Len(r))] = e
      BY <1>2, <3>1
    <3>3. QED
      BY <1>2, <3>1, <3>2 DEF ToSet
  <2>3. ToSet(r) = (n - Len(r) + 1)..n
    BY <1>2, <2>1, <2>2 DEF ToSet
  <2>4. S!Increasing(r)
    BY <1>1, <1>2 DEF S!Increasing
  <2>5. QED
    BY <2>3, <2>4
<1>10. InOrder(c)'
  BY <1>1, <1>2, <1>5, <1>7, <1>8, <1>9, EmptySeqSet DEF InOrder, Untouched, Before
<1>11. HistoryPassedOn(c)' /\ Replays(c)'
  BY <1>5, <1>7, <1>8, <1>9 DEF HistoryPassedOn, Replays, Untouched
<1>12. QED
  BY <1>6, <1>7, <1>10, <1>11 DEF ClientInv

\* One event of the history is passed on.
LEMMA ReplayStep ==
    ASSUME HubInv, NEW c \in Clients, S!Replay(c)
    PROVE  HubTyped' /\ ClientInv(c)'
<1> DEFINE e == Head(todo[c])
           rest == Tail(todo[c])
           new == sent[c] \o S!Wanted(c, e)
<1>1. /\ connection[c] = "replay" /\ todo[c] # << >>
      /\ sent' = [sent EXCEPT ![c] = new] /\ todo' = [todo EXCEPT ![c] = rest]
      /\ UNCHANGED <<lines, next, kind, connection, filter, queue, from, until, scheduled, dropped>>
  BY DEF S!Replay
<1>2. sent[c] \in Seq(S!Events) /\ todo[c] \in Seq(S!Events) /\ ClientInv(c)
  BY DEF HubInv, HubTyped
<1>3. InOrder(c) /\ HistoryPassedOn(c) /\ Replays(c)
  BY <1>1, <1>2 DEF ClientInv
<1>4. /\ e \in S!Events /\ rest \in Seq(S!Events) /\ ToSet(todo[c]) = {e} \cup ToSet(rest)
      /\ S!Increasing(rest) /\ \A y \in ToSet(rest) : e < y
  BY <1>1, <1>2, <1>3, HeadOff DEF InOrder
<1> HIDE DEF e, rest
<1>5. /\ new \in Seq(S!Events) /\ S!Increasing(new)
      /\ ToSet(new) = IF kind[e] \in filter[c] THEN ToSet(sent[c]) \cup {e} ELSE ToSet(sent[c])
  <2>1. \A x \in ToSet(sent[c]) : x < e
    BY <1>3, <1>4 DEF InOrder, Before
  <2>2. CASE kind[e] \in filter[c]
    <3>1. new = Append(sent[c], e)
      BY <1>2, <1>4, <2>2, Passed
    <3> HIDE DEF new
    <3>2. QED
      BY <1>2, <1>3, <1>4, <2>1, <2>2, <3>1, PutLast DEF InOrder
  <2>3. CASE kind[e] \notin filter[c]
    <3>1. new = sent[c]
      BY <1>2, <1>4, <2>3, Passed
    <3> HIDE DEF new
    <3>2. QED
      BY <1>2, <1>3, <2>3, <3>1 DEF InOrder
  <2>4. QED
    BY <2>2, <2>3
<1> HIDE DEF new
<1>6. sent'[c] = new /\ todo'[c] = rest
  BY <1>1 DEF HubInv, HubTyped
<1>7. HubTyped'
  BY <1>1, <1>4, <1>5 DEF HubInv, HubTyped
<1>8. Before(new, rest) /\ Before(new, queue[c]) /\ Before(new, scheduled[c])
  BY <1>3, <1>4, <1>5, EmptySeqSet DEF InOrder, Before, Replays
<1>9. InOrder(c)'
  <2>1. ToSet(new) \cup ToSet(rest) \subseteq 1..Len(kind)
    BY <1>3, <1>4, <1>5 DEF InOrder
  <2>2. QED
    BY <1>1, <1>3, <1>4, <1>5, <1>6, <1>8, <2>1 DEF InOrder
<1>10. HistoryPassedOn(c)'
  BY <1>1, <1>3, <1>4, <1>5, <1>6 DEF HistoryPassedOn
<1>11. QED
  BY <1>1, <1>3, <1>7, <1>9, <1>10 DEF ClientInv, Replays

\* The subscription, when the history has been sent.
LEMMA SubscribeStep ==
    ASSUME HubInv, NEW c \in Clients, S!Subscribe(c)
    PROVE  HubTyped' /\ ClientInv(c)'
<1> DEFINE n == Len(kind)
<1>1. /\ connection[c] = "replay" /\ todo[c] = << >>
      /\ connection' = [connection EXCEPT ![c] = "live"]
      /\ until' = [until EXCEPT ![c].subscribed = n]
      /\ UNCHANGED <<lines, next, kind, filter, todo, queue, sent, from, scheduled, dropped>>
  BY DEF S!Subscribe
<1>2. n \in 0..MaxEvents /\ n \in Nat
  BY LenProperties, ServingAssumption DEF HubInv, HubTyped
<1>3. until \in [Clients -> [history : 0..MaxEvents, subscribed : 0..MaxEvents]]
  BY DEF HubInv, HubTyped
<1>4. /\ until' \in [Clients -> [history : 0..MaxEvents, subscribed : 0..MaxEvents]]
      /\ until'[c].subscribed = n /\ until'[c].history = until[c].history
  <2>1. [until[c] EXCEPT !.subscribed = n] \in [history : 0..MaxEvents, subscribed : 0..MaxEvents]
    BY <1>2, <1>3
  <2>2. until' = [until EXCEPT ![c] = [until[c] EXCEPT !.subscribed = n]]
    BY <1>1
  <2>3. QED
    BY <1>3, <2>1, <2>2
<1>5. HubTyped' /\ connection'[c] = "live"
  BY <1>1, <1>4 DEF HubInv, HubTyped
<1>6. InOrder(c) /\ HistoryPassedOn(c) /\ Replays(c)
  BY <1>1 DEF HubInv, ClientInv
<1>7. InOrder(c)' /\ HistoryPassedOn(c)'
  BY <1>1, <1>4, <1>6 DEF InOrder, HistoryPassedOn
<1>8. Subscribed(c)'
  <2>1. until[c].history =< n
    BY <1>6 DEF InOrder
  <2>2. (n + 1)..n = {}
    BY <1>2
  <2>3. QED
    BY <1>1, <1>2, <1>4, <1>6, <2>1, <2>2, EmptySeqSet DEF Subscribed, Replays
<1>9. QED
  BY <1>5, <1>7, <1>8 DEF ClientInv

\* An event goes from the loop into the queue, or is dropped.
LEMMA SafePutStep ==
    ASSUME HubInv, NEW c \in Clients, S!SafePut(c)
    PROVE  HubTyped' /\ ClientInv(c)'
<1> DEFINE e == Head(scheduled[c])
           rest == Tail(scheduled[c])
           fits == connection[c] = "live" /\ Len(queue[c]) < QueueMax
           b == until[c].subscribed
           n == Len(kind)
<1>1. /\ scheduled[c] # << >>
      /\ scheduled' = [scheduled EXCEPT ![c] = rest]
      /\ IF fits THEN queue' = [queue EXCEPT ![c] = Append(@, e)] /\ UNCHANGED dropped
                 ELSE dropped' = [dropped EXCEPT ![c] = @ \cup {e}] /\ UNCHANGED queue
      /\ UNCHANGED <<lines, next, kind, connection, filter, todo, sent, from, until>>
  BY DEF S!SafePut
<1>2. /\ scheduled[c] \in Seq(S!Events) /\ queue[c] \in Seq(S!Events) /\ dropped[c] \in SUBSET S!Events
      /\ ClientInv(c) /\ b \in Nat /\ n \in Nat
  BY LenProperties DEF HubInv, HubTyped
<1>3. /\ e \in S!Events /\ rest \in Seq(S!Events) /\ ToSet(scheduled[c]) = {e} \cup ToSet(rest)
      /\ S!Increasing(scheduled[c]) => S!Increasing(rest) /\ \A y \in ToSet(rest) : e < y
  BY <1>1, <1>2, HeadOff
<1> HIDE DEF e, rest
<1>4. Append(queue[c], e) \in Seq(S!Events) /\ ToSet(Append(queue[c], e)) = ToSet(queue[c]) \cup {e}
  BY <1>2, <1>3, PutLast
<1>5. HubTyped'
  <2>1. CASE fits
    BY <1>1, <1>3, <1>4, <2>1 DEF HubInv, HubTyped
  <2>2. CASE ~fits
    <3>1. dropped' \in [Clients -> SUBSET S!Events] /\ UNCHANGED queue
      <4>1. dropped[c] \cup {e} \in SUBSET S!Events /\ dropped \in [Clients -> SUBSET S!Events]
        BY <1>2, <1>3 DEF HubInv, HubTyped
      <4>2. dropped' = [dropped EXCEPT ![c] = dropped[c] \cup {e}] /\ UNCHANGED queue
        BY <1>1, <2>2
      <4>3. QED
        BY <4>1, <4>2
    <3>2. scheduled' \in [Clients -> Seq(S!Events)]
      BY <1>1, <1>3 DEF HubInv, HubTyped
    <3>3. QED
      BY <1>1, <3>1, <3>2 DEF HubInv, HubTyped
  <2>3. QED
    BY <2>1, <2>2
<1>6. scheduled'[c] = rest
  BY <1>1 DEF HubInv, HubTyped
<1>7. CASE connection[c] # "live"
  <2>1. connection[c] = "gone"
    BY <1>1, <1>2, <1>7 DEF HubInv, HubTyped, ClientInv, Untouched, Replays
  <2>2. QED
    BY <1>1, <1>5, <2>1 DEF ClientInv
<1>8. CASE connection[c] = "live"
  <2>1. InOrder(c) /\ HistoryPassedOn(c) /\ Subscribed(c)
    BY <1>2, <1>8 DEF ClientInv
  <2>2. S!Increasing(rest) /\ \A y \in ToSet(rest) : e < y
    BY <1>3, <2>1 DEF InOrder
  <2>3. \A x \in ToSet(queue[c]) \cup ToSet(sent[c]) : x < e
    BY <1>3, <2>1 DEF InOrder, Before
  <2>4. S!Increasing(Append(queue[c], e))
    BY <1>2, <1>3, <2>1, <2>3, PutLast DEF InOrder
  <2>5. e \in (b + 1)..n /\ ToSet(queue[c]) \subseteq (b + 1)..n /\ ToSet(rest) \subseteq (b + 1)..n /\ b =< n
    BY <1>3, <2>1 DEF Subscribed
  <2>6. CASE fits
    <3>1. queue'[c] = Append(queue[c], e) /\ UNCHANGED dropped
      BY <1>1, <2>6 DEF HubInv, HubTyped
    <3>2. InOrder(c)'
      BY <1>1, <1>2, <1>3, <1>4, <1>6, <2>1, <2>2, <2>3, <2>4, <3>1 DEF InOrder, Before
    <3>3. Subscribed(c)'
      BY <1>1, <1>3, <1>4, <1>6, <2>1, <2>5, <3>1 DEF Subscribed
    <3>4. HistoryPassedOn(c)'
      BY <1>1, <2>1 DEF HistoryPassedOn
    <3>5. QED
      BY <1>1, <1>5, <1>8, <3>2, <3>3, <3>4 DEF ClientInv
  <2>7. CASE ~fits
    <3>1. dropped'[c] = dropped[c] \cup {e} /\ UNCHANGED queue
      BY <1>1, <2>7 DEF HubInv, HubTyped
    <3>2. n - b > QueueMax
      <4>1. Len(Append(queue[c], e)) =< n - b
        <5>1. ToSet(Append(queue[c], e)) \subseteq (b + 1)..n
          BY <1>4, <2>5
        <5>2. QED
          BY <1>2, <1>4, <2>4, <2>5, <5>1, Room
      <4>2. Len(Append(queue[c], e)) = Len(queue[c]) + 1 /\ Len(queue[c]) \in Nat
        BY <1>2, <1>3, AppendProperties, LenProperties
      <4>3. Len(queue[c]) >= QueueMax
        BY <1>8, <2>7, <4>2, ServingAssumption
      <4>4. QED
        BY <1>2, <4>1, <4>2, <4>3, ServingAssumption
    <3>3. InOrder(c)'
      BY <1>1, <1>3, <1>6, <2>1, <2>2, <3>1 DEF InOrder, Before
    <3>4. Subscribed(c)'
      BY <1>1, <1>3, <1>6, <2>1, <2>5, <3>1, <3>2 DEF Subscribed
    <3>5. HistoryPassedOn(c)'
      BY <1>1, <2>1 DEF HistoryPassedOn
    <3>6. QED
      BY <1>1, <1>5, <1>8, <3>3, <3>4, <3>5 DEF ClientInv
  <2>8. QED
    BY <2>6, <2>7
<1>9. QED
  BY <1>7, <1>8

\* The generator takes an event from the queue.
LEMMA DeliverStep ==
    ASSUME HubInv, NEW c \in Clients, S!Deliver(c)
    PROVE  HubTyped' /\ ClientInv(c)'
<1> DEFINE e == Head(queue[c])
           rest == Tail(queue[c])
           new == sent[c] \o S!Wanted(c, e)
           b == until[c].subscribed
           n == Len(kind)
<1>1. /\ connection[c] = "live" /\ queue[c] # << >>
      /\ sent' = [sent EXCEPT ![c] = new] /\ queue' = [queue EXCEPT ![c] = rest]
      /\ UNCHANGED <<lines, next, kind, connection, filter, todo, from, until, scheduled, dropped>>
  BY DEF S!Deliver
<1>2. sent[c] \in Seq(S!Events) /\ queue[c] \in Seq(S!Events) /\ ClientInv(c) /\ b \in Nat /\ n \in Nat
  BY LenProperties DEF HubInv, HubTyped
<1>3. InOrder(c) /\ HistoryPassedOn(c) /\ Subscribed(c)
  BY <1>1, <1>2 DEF ClientInv
<1>4. /\ e \in S!Events /\ rest \in Seq(S!Events) /\ ToSet(queue[c]) = {e} \cup ToSet(rest)
      /\ S!Increasing(rest) /\ \A y \in ToSet(rest) : e < y
  BY <1>1, <1>2, <1>3, HeadOff DEF InOrder
<1> HIDE DEF e, rest
<1>5. /\ new \in Seq(S!Events) /\ S!Increasing(new)
      /\ ToSet(new) = IF kind[e] \in filter[c] THEN ToSet(sent[c]) \cup {e} ELSE ToSet(sent[c])
  <2>1. \A x \in ToSet(sent[c]) : x < e
    BY <1>3, <1>4 DEF InOrder, Before
  <2>2. CASE kind[e] \in filter[c]
    <3>1. new = Append(sent[c], e)
      BY <1>2, <1>4, <2>2, Passed
    <3> HIDE DEF new
    <3>2. QED
      BY <1>2, <1>3, <1>4, <2>1, <2>2, <3>1, PutLast DEF InOrder
  <2>3. CASE kind[e] \notin filter[c]
    <3>1. new = sent[c]
      BY <1>2, <1>4, <2>3, Passed
    <3> HIDE DEF new
    <3>2. QED
      BY <1>2, <1>3, <2>3, <3>1 DEF InOrder
  <2>4. QED
    BY <2>2, <2>3
<1> HIDE DEF new
<1>6. sent'[c] = new /\ queue'[c] = rest
  BY <1>1 DEF HubInv, HubTyped
<1>7. HubTyped'
  BY <1>1, <1>4, <1>5 DEF HubInv, HubTyped
<1>8. Before(new, todo[c]) /\ Before(new, rest) /\ Before(new, scheduled[c]) /\ Before(rest, scheduled[c])
  BY <1>3, <1>4, <1>5, EmptySeqSet DEF InOrder, Before, Subscribed
<1>9. e \in 1..n
  <2>1. e \in (b + 1)..n
    BY <1>3, <1>4 DEF Subscribed
  <2>2. QED
    BY <1>2, <2>1
<1>10. InOrder(c)'
  <2>1. ToSet(new) \cup ToSet(todo[c]) \subseteq 1..n
    BY <1>3, <1>4, <1>5, <1>9 DEF InOrder
  <2>2. QED
    BY <1>1, <1>3, <1>4, <1>5, <1>6, <1>8, <2>1 DEF InOrder
<1>11. HistoryPassedOn(c)'
  BY <1>1, <1>3, <1>5, <1>6 DEF HistoryPassedOn
<1>12. Subscribed(c)'
  BY <1>1, <1>3, <1>4, <1>5, <1>6 DEF Subscribed
<1>13. QED
  BY <1>1, <1>7, <1>10, <1>11, <1>12 DEF ClientInv

LEMMA LeaveStep ==
    ASSUME HubInv, NEW c \in Clients, S!Leave(c)
    PROVE  HubTyped' /\ ClientInv(c)'
<1>1. << >> \in Seq(S!Events)
  BY EmptySeq
<1>2. HubTyped'
  BY <1>1 DEF S!Leave, HubInv, HubTyped
<1>3. connection'[c] = "gone"
  BY DEF S!Leave, HubInv, HubTyped
<1>4. QED
  BY <1>2, <1>3 DEF ClientInv

LEMMA HubInit == S!Init => HubInv
<1> SUFFICES ASSUME S!Init PROVE HubInv
  OBVIOUS
<1>1. << >> \in Seq(S!Kinds) /\ << >> \in Seq(S!Events) /\ Len(<< >>) = 0
  BY EmptySeq
<1>2. MaxLines \in Nat /\ MaxEvents \in Nat
  BY ServingAssumption
<1>3. HubTyped
  <2>1. until \in [Clients -> [history : 0..MaxEvents, subscribed : 0..MaxEvents]]
    BY <1>2 DEF S!Init
  <2>2. 0 \in 0..MaxLines /\ 0 \in 0..(MaxLines + 1) /\ 1 \in 1..(MaxEvents + 1)
    BY <1>2
  <2>3. QED
    BY <1>1, <1>2, <2>1, <2>2 DEF S!Init, HubTyped
<1>4. \A c \in Clients : ClientInv(c)
  BY DEF S!Init, ClientInv, Untouched
<1>5. QED
  BY <1>3, <1>4 DEF HubInv

LEMMA HubStep == HubInv /\ [S!Next]_(S!vars) => HubInv'
<1> SUFFICES ASSUME HubInv, [S!Next]_(S!vars) PROVE HubInv'
  OBVIOUS
<1>1. HubTyped /\ lines \in Nat /\ next \in Nat /\ MaxLines \in Nat
  BY ServingAssumption DEF HubInv, HubTyped
<1>2. ASSUME UNCHANGED <<kind, connection, filter, todo, queue, sent, from, until, scheduled, dropped>>,
             lines' \in 0..MaxLines, next' \in 0..(MaxLines + 1)
      PROVE  HubInv'
  <2>1. HubTyped'
    BY <1>2 DEF HubInv, HubTyped
  <2>2. ASSUME NEW c \in Clients PROVE ClientInv(c)'
    BY <1>2, ClientKept DEF HubInv
  <2>3. QED
    BY <2>1, <2>2 DEF HubInv
<1>3. ASSUME NEW k \in S!Kinds, S!Publish(k), UNCHANGED lines, next' \in 0..(MaxLines + 1) PROVE HubInv'
  <2>1. /\ kind' \in Seq(S!Kinds) /\ Len(kind') =< MaxEvents
        /\ scheduled' \in [Clients -> Seq(S!Events)]
        /\ \A c \in Clients : ClientInv(c)'
    BY <1>3, PublishStep
  <2>2. UNCHANGED <<connection, filter, todo, queue, sent, from, until, dropped>>
    BY <1>3 DEF S!Publish, S!client
  <2>3. HubTyped'
    BY <1>1, <1>3, <2>1, <2>2 DEF HubTyped
  <2>4. QED
    BY <2>1, <2>3 DEF HubInv
<1>4. CASE S!Log
  BY <1>1, <1>2, <1>4 DEF S!Log, S!client, HubTyped
<1>5. CASE S!TailOpens
  BY <1>1, <1>2, <1>5 DEF S!TailOpens, S!client, HubTyped
<1>6. CASE S!TailReads
  <2>1. S!Publish("log") /\ UNCHANGED lines /\ next' \in 0..(MaxLines + 1) /\ "log" \in S!Kinds
    BY <1>1, <1>6 DEF S!TailReads, S!Kinds, HubTyped
  <2>2. QED
    BY <1>3, <2>1
<1>7. CASE S!DeviceSampled
  <2>1. S!Publish("device") /\ UNCHANGED lines /\ next' \in 0..(MaxLines + 1) /\ "device" \in S!Kinds
    BY <1>1, <1>7 DEF S!DeviceSampled, S!Kinds, HubTyped
  <2>2. QED
    BY <1>3, <2>1
<1>8. ASSUME NEW c \in Clients, S!Client(c) PROVE HubInv'
  <2>1. HubTyped' /\ ClientInv(c)'
    BY <1>8, ConnectStep, ReplayStep, SubscribeStep, SafePutStep, DeliverStep, LeaveStep DEF S!Client
  <2>2. ASSUME NEW d \in Clients, d # c PROVE ClientInv(d)'
    <3> USE DEF HubTyped
    <3>1. UNCHANGED kind
      BY <1>8 DEF S!Client, S!Connect, S!Replay, S!Subscribe, S!SafePut, S!Deliver, S!Leave
    <3>2. connection'[d] = connection[d] /\ filter'[d] = filter[d] /\ todo'[d] = todo[d]
      BY <1>1, <1>8, <2>2 DEF S!Client, S!Connect, S!Replay, S!Subscribe, S!SafePut, S!Deliver, S!Leave
    <3>3. scheduled'[d] = scheduled[d] /\ queue'[d] = queue[d] /\ sent'[d] = sent[d]
      BY <1>1, <1>8, <2>2 DEF S!Client, S!Connect, S!Replay, S!Subscribe, S!SafePut, S!Deliver, S!Leave
    <3>4. from'[d] = from[d] /\ until'[d] = until[d] /\ dropped'[d] = dropped[d]
      BY <1>1, <1>8, <2>2 DEF S!Client, S!Connect, S!Replay, S!Subscribe, S!SafePut, S!Deliver, S!Leave
    <3>5. QED
      BY <3>1, <3>2, <3>3, <3>4, ClientKept DEF HubInv
  <2>3. QED
    BY <2>1, <2>2 DEF HubInv
<1>9. CASE UNCHANGED S!vars
  BY <1>1, <1>2, <1>9 DEF S!vars, S!client, HubTyped
<1>10. QED
  BY <1>4, <1>5, <1>6, <1>7, <1>8, <1>9 DEF S!Next

\* Rising sequences, each before the next, rise when they are put together.
LEMMA Joined ==
    ASSUME NEW s \in Seq(S!Events), NEW t \in Seq(S!Events)
    PROVE  /\ s \o t \in Seq(S!Events)
           /\ ToSet(s \o t) = ToSet(s) \cup ToSet(t)
           /\ S!Increasing(s) /\ S!Increasing(t) /\ Before(s, t) => S!Increasing(s \o t)
<1> DEFINE u == s \o t
<1>1. Len(s) \in Nat /\ Len(t) \in Nat /\ DOMAIN s = 1..Len(s) /\ DOMAIN t = 1..Len(t)
  BY LenProperties
<1>2. /\ u \in Seq(S!Events) /\ Len(u) = Len(s) + Len(t)
      /\ \A i \in 1..(Len(s) + Len(t)) : u[i] = IF i <= Len(s) THEN s[i] ELSE t[i - Len(s)]
  BY ConcatProperties
<1>3. DOMAIN u = 1..(Len(s) + Len(t))
  BY <1>2, LenProperties
<1> HIDE DEF u
<1>4. ToSet(u) = ToSet(s) \cup ToSet(t)
  <2>1. ASSUME NEW i \in 1..(Len(s) + Len(t)) PROVE u[i] \in ToSet(s) \cup ToSet(t)
    <3>1. CASE i <= Len(s)
      BY <1>1, <1>2, <3>1 DEF ToSet
    <3>2. CASE ~(i <= Len(s))
      <4>1. i - Len(s) \in 1..Len(t) /\ u[i] = t[i - Len(s)]
        BY <1>1, <1>2, <3>2
      <4>2. QED
        BY <1>1, <4>1 DEF ToSet
    <3>3. QED
      BY <3>1, <3>2
  <2>2. ASSUME NEW i \in 1..Len(s) PROVE s[i] \in ToSet(u)
    <3>1. i \in 1..(Len(s) + Len(t)) /\ u[i] = s[i]
      BY <1>1, <1>2
    <3>2. QED
      BY <1>3, <3>1 DEF ToSet
  <2>3. ASSUME NEW i \in 1..Len(t) PROVE t[i] \in ToSet(u)
    <3>1. i + Len(s) \in 1..(Len(s) + Len(t)) /\ ~(i + Len(s) <= Len(s)) /\ (i + Len(s)) - Len(s) = i
      BY <1>1
    <3>2. u[i + Len(s)] = t[i]
      BY <1>2, <3>1
    <3>3. QED
      BY <1>3, <3>1, <3>2 DEF ToSet
  <2>4. QED
    BY <1>1, <1>3, <2>1, <2>2, <2>3 DEF ToSet
<1>5. ASSUME S!Increasing(s), S!Increasing(t), Before(s, t) PROVE S!Increasing(u)
  <2> SUFFICES ASSUME NEW i \in 1..(Len(s) + Len(t)), NEW j \in 1..(Len(s) + Len(t)), i < j PROVE u[i] < u[j]
    BY <1>3 DEF S!Increasing
  <2>1. CASE j <= Len(s)
    BY <1>1, <1>2, <1>5, <2>1 DEF S!Increasing
  <2>2. CASE i <= Len(s) /\ ~(j <= Len(s))
    <3>1. i \in 1..Len(s) /\ j - Len(s) \in 1..Len(t)
      BY <1>1, <2>2
    <3>2. s[i] \in ToSet(s) /\ t[j - Len(s)] \in ToSet(t)
      BY <1>1, <3>1 DEF ToSet
    <3>3. QED
      BY <1>2, <1>5, <2>2, <3>2 DEF Before
  <2>3. CASE ~(i <= Len(s)) /\ ~(j <= Len(s))
    <3>1. i - Len(s) \in 1..Len(t) /\ j - Len(s) \in 1..Len(t) /\ i - Len(s) < j - Len(s)
      BY <1>1, <2>3
    <3>2. t[i - Len(s)] < t[j - Len(s)]
      BY <1>1, <1>5, <3>1 DEF S!Increasing
    <3>3. QED
      BY <1>2, <2>3, <3>2
  <2>4. QED
    BY <1>1, <2>1, <2>2, <2>3
<1>6. QED
  BY <1>2, <1>4, <1>5 DEF u

LEMMA ExplainedFollows == HubInv => StreamExplained
<1> SUFFICES ASSUME HubInv, NEW c \in Clients, connection[c] \in {"replay", "live"}
             PROVE  LET inLine == sent[c] \o todo[c] \o queue[c] \o scheduled[c]
                    IN  /\ S!Increasing(inLine)
                        /\ \A e \in from[c]..Len(kind) : kind[e] \in filter[c] =>
                               e \in S!ToSet(inLine) \cup S!Gap(c) \cup dropped[c]
                        /\ dropped[c] # {} => Len(kind) - until[c].subscribed > QueueMax
  BY DEF StreamExplained, S!StreamExplained
<1> DEFINE st == sent[c] \o todo[c]
           stq == st \o queue[c]
           inLine == stq \o scheduled[c]
           n == Len(kind)
           h == until[c].history
           b == until[c].subscribed
<1>1. /\ sent[c] \in Seq(S!Events) /\ todo[c] \in Seq(S!Events) /\ queue[c] \in Seq(S!Events)
      /\ scheduled[c] \in Seq(S!Events) /\ n \in Nat /\ h \in Nat /\ b \in Nat /\ from[c] \in Nat \ {0}
  BY LenProperties DEF HubInv, HubTyped
<1>2. /\ InOrder(c) /\ HistoryPassedOn(c)
      /\ connection[c] = "replay" => Replays(c)
      /\ connection[c] = "live" => Subscribed(c)
  BY DEF HubInv, ClientInv
<1>3. Before(todo[c], queue[c]) /\ Before(todo[c], scheduled[c])
  BY <1>2, EmptySeqSet DEF Before, Replays, Subscribed
<1>4. st \in Seq(S!Events) /\ ToSet(st) = ToSet(sent[c]) \cup ToSet(todo[c]) /\ S!Increasing(st)
  BY <1>1, <1>2, Joined DEF InOrder
<1> HIDE DEF st
<1>5. Before(st, queue[c]) /\ Before(st, scheduled[c])
  BY <1>2, <1>3, <1>4 DEF InOrder, Before
<1>6. stq \in Seq(S!Events) /\ ToSet(stq) = ToSet(st) \cup ToSet(queue[c]) /\ S!Increasing(stq)
  BY <1>1, <1>2, <1>4, <1>5, Joined DEF InOrder
<1> HIDE DEF stq
<1>7. Before(stq, scheduled[c])
  BY <1>2, <1>5, <1>6 DEF InOrder, Before
<1>8. ToSet(inLine) = ToSet(stq) \cup ToSet(scheduled[c]) /\ S!Increasing(inLine)
  BY <1>1, <1>2, <1>6, <1>7, Joined DEF InOrder
<1>9. ASSUME NEW e \in from[c]..n, kind[e] \in filter[c]
      PROVE  e \in ToSet(inLine) \cup S!Gap(c) \cup dropped[c]
  <2> HIDE DEF inLine
  <2>1. CASE e =< h
    BY <1>1, <1>2, <1>4, <1>6, <1>8, <1>9, <2>1 DEF HistoryPassedOn
  <2>2. CASE e > h /\ connection[c] = "replay"
    BY <1>1, <2>2 DEF S!Gap
  <2>3. CASE e > h /\ e =< b /\ connection[c] = "live"
    BY <1>1, <2>3 DEF S!Gap
  <2>4. CASE e > b /\ connection[c] = "live"
    BY <1>1, <1>2, <1>4, <1>6, <1>8, <1>9, <2>4 DEF Subscribed
  <2>5. QED
    BY <1>1, <2>1, <2>2, <2>3, <2>4
<1>10. S!ToSet(inLine) = ToSet(inLine)
  BY DEF S!ToSet, ToSet
<1>11. dropped[c] # {} => n - b > QueueMax
  BY <1>2 DEF Replays, Subscribed
<1>12. inLine = sent[c] \o todo[c] \o queue[c] \o scheduled[c]
  BY DEF st, stq
<1> HIDE DEF inLine
<1>13. QED
  BY <1>8, <1>9, <1>10, <1>11, <1>12

\* _event_generator and ws_events, against BroadcastHub: whatever the order in
\* which threads publish, the loop delivers and clients come and go, a client
\* misses of what it asked for only what was published between its reading the
\* history and its subscription, or found its queue full.
THEOREM NothingUnexplained == S!Spec => []StreamExplained
BY HubInit, HubStep, ExplainedFollows, PTL DEF S!Spec
=============================================================================
