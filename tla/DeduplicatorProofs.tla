-------------------------- MODULE DeduplicatorProofs --------------------------
(***************************************************************************)
(* Proofs about Deduplicator for every set of documents and every setting  *)
(* of the layers, whatever crashes and whichever saves fail.               *)
(***************************************************************************)
EXTENDS Deduplicator, FiniteSetTheorems, TLAPS

\* The type invariant.
THEOREM TypeCorrect == Spec => []TypeOK
<1>1. Init => TypeOK
  <2> SUFFICES ASSUME Init PROVE TypeOK
    OBVIOUS
  <2>1. up \in BOOLEAN /\ ~up
    BY DEF Init
  <2>2. kept \in Seq(Seq(Docs)) /\ Len(kept) = runs /\ runs \in Nat
    BY DEF Init
  <2>3. totalSeen \in Nat /\ lastSave \in 0..totalSeen
    BY DEF Init
  <2>4. QED
    BY <2>1, <2>2, <2>3 DEF Init, TypeOK
<1>2. TypeOK /\ [Next]_vars => TypeOK'
  <2> SUFFICES ASSUME TypeOK, [Next]_vars PROVE TypeOK'
    OBVIOUS
  <2> USE DEF TypeOK
  <2>1. ASSUME NEW d \in Docs, Indexed(d)
        PROVE  exact' \subseteq Hashes /\ simMap' \subseteq Sims /\ lsh' \subseteq Sigs
    <3>1. d.hash \in Hashes /\ d.sim \in Sims /\ d.sig \in Sigs
      BY DEF Hashes, Sims, Sigs
    <3>2. QED
      BY <2>1, <3>1 DEF Indexed
  <2>2. CASE Start
    <3>1. kept' \in Seq(Seq(Docs)) /\ Len(kept') = Len(kept) + 1
      BY <2>2 DEF Start
    <3>2. QED
      BY <2>2, <3>1 DEF Start
  <2>3. ASSUME NEW d \in Docs, Duplicate(d) PROVE TypeOK'
    BY <2>1, <2>3 DEF Duplicate
  <2>4. ASSUME NEW d \in Docs, Keep(d) PROVE TypeOK'
    <3>1. runs \in DOMAIN kept
      BY <2>4 DEF Keep
    <3>2. Append(kept[runs], d) \in Seq(Docs)
      BY <3>1
    <3>3. kept' \in Seq(Seq(Docs)) /\ Len(kept') = runs
      BY <2>4, <3>1, <3>2 DEF Keep
    <3>4. exact' \subseteq Hashes /\ simMap' \subseteq Sims /\ lsh' \subseteq Sigs
      BY <2>1, <2>4 DEF Keep
    <3>5. simFile' \subseteq Sims /\ totalSeen' \in Nat /\ lastSave' \in 0..totalSeen'
      BY <2>4, <3>4 DEF Keep, Saves
    <3>6. QED
      BY <2>4, <3>3, <3>4, <3>5 DEF Keep
  <2>5. CASE Save
    BY <2>5 DEF Save, Saves, index
  <2>6. CASE ProcessEnds
    <3>1. up' \in BOOLEAN /\ ~up'
      BY <2>6 DEF ProcessEnds
    <3>2. totalSeen' \in Nat /\ lastSave' \in 0..totalSeen'
      BY <2>6 DEF ProcessEnds
    <3>3. forgotten' \subseteq Sims
      BY <2>6 DEF ProcessEnds
    <3>4. QED
      BY <2>6, <3>1, <3>2, <3>3 DEF ProcessEnds
  <2>7. CASE UNCHANGED vars
    BY <2>7 DEF vars
  <2>8. QED
    BY <2>2, <2>3, <2>4, <2>5, <2>6, <2>7 DEF Next
<1>3. QED
  BY <1>1, <1>2, PTL DEF Spec

\* Distance and similarity do not depend on the order of the two documents.
LEMMA NearSymmetric == \A a, b : Near(a, b) <=> Near(b, a)
<1>1. \A a, b : (a \ b) \cup (b \ a) = (b \ a) \cup (a \ b)
  OBVIOUS
<1>2. QED
  BY <1>1 DEF Near, Hamming

LEMMA SimilarSymmetric == \A s, t : Similar(s, t) => Similar(t, s)
<1> SUFFICES ASSUME NEW s, NEW t, Similar(s, t) PROVE Similar(t, s)
  OBVIOUS
<1>1. {i \in Positions : s[i] = t[i]} = {i \in Positions : t[i] = s[i]}
  OBVIOUS
<1>2. SameBucket(t, s)
  BY DEF Similar, SameBucket
<1>3. QED
  BY <1>1, <1>2 DEF Similar

-----------------------------------------------------------------------------
\* What a step does to the documents kept: Start opens an empty list, Keep
\* appends one that no layer knew, and every other step leaves them.
LEMMA KeepAppends ==
    ASSUME TypeOK, NEW d \in Docs, Keep(d)
    PROVE  /\ DOMAIN kept' = DOMAIN kept /\ runs \in DOMAIN kept
           /\ \A r \in DOMAIN kept : r # runs => kept'[r] = kept[r]
           /\ DOMAIN kept'[runs] = DOMAIN kept[runs] \cup {Len(kept[runs]) + 1}
           /\ \A i \in DOMAIN kept[runs] : kept'[runs][i] = kept[runs][i] /\ i <= Len(kept[runs])
           /\ kept'[runs][Len(kept[runs]) + 1] = d
           /\ Len(kept[runs]) \in Nat
<1>1. runs \in DOMAIN kept
  BY DEF Keep, TypeOK
<1>2. kept' = [kept EXCEPT ![runs] = Append(kept[runs], d)]
  BY DEF Keep
<1>3. kept[runs] \in Seq(Docs)
  BY <1>1 DEF TypeOK
<1>4. /\ kept'[runs] = Append(kept[runs], d)
      /\ DOMAIN kept' = DOMAIN kept
      /\ \A r \in DOMAIN kept : r # runs => kept'[r] = kept[r]
  BY <1>1, <1>2
<1>5. QED
  BY <1>1, <1>3, <1>4

LEMMA StartOpens ==
    ASSUME TypeOK, Start
    PROVE  /\ DOMAIN kept' = DOMAIN kept \cup {runs'}
           /\ \A r \in DOMAIN kept : kept'[r] = kept[r] /\ r < runs'
           /\ DOMAIN kept'[runs'] = {}
<1>1. kept' = Append(kept, <<>>) /\ runs' = Len(kept) + 1
  BY DEF Start, TypeOK
<1>2. QED
  BY <1>1 DEF TypeOK

\* Every SimHash of a kept document is known: in the map of the process, in its
\* file between two processes, or forgotten.
Known == IF up THEN simMap ELSE simFile
Remembered ==
    SimOn => \A r \in DOMAIN kept : \A i \in DOMAIN kept[r] :
                 /\ kept[r][i].sim \in Known \cup forgotten
                 /\ up /\ r = runs => kept[r][i].sim \in simMap

\* Two documents that were both found unique are farther apart than simhash_k,
\* also in different processes, unless the SimHash of the first was lost: what
\* the index knows is what was kept (Remembered), and a unique document is near
\* nothing the index knows.
THEOREM Apart == Spec => []KeptApart
<1> DEFINE Inv == Remembered /\ KeptApart
<1>1. Init => Inv
  BY DEF Init, Remembered, KeptApart
<1>2. TypeOK /\ Inv /\ [Next]_vars => Inv'
  <2> SUFFICES ASSUME TypeOK, Inv, [Next]_vars, SimOn PROVE Inv'
    BY DEF Remembered, KeptApart
  <2>1. CASE Start
    <3>1. Remembered'
      BY <2>1, StartOpens DEF Start, Remembered, Known
    <3>2. KeptApart'
      <4>1. Len(kept') = runs' /\ Len(kept) = runs
        BY <2>1 DEF TypeOK, Start
      <4>2. QED
        BY <2>1, <4>1, StartOpens DEF Start, KeptApart, TypeOK
    <3>3. QED
      BY <3>1, <3>2
  <2>2. ASSUME NEW d \in Docs, Keep(d) PROVE Inv'
    <3>1. /\ simMap \cup {d.sim} \subseteq simMap'
          /\ \A s \in simMap : ~Near(d.sim, s) /\ ~Near(s, d.sim)
          /\ up /\ up' /\ runs' = runs /\ forgotten' = forgotten
      BY <2>2, NearSymmetric DEF Keep, Indexed, Unique, NearDup
    <3>2. Remembered'
      BY <3>1, <2>2, KeepAppends DEF Remembered, Known
    <3>3. KeptApart'
      <4>1. ASSUME NEW r \in DOMAIN kept', NEW i \in DOMAIN kept'[r], NEW j \in DOMAIN kept'[r], i < j
            PROVE  ~Near(kept'[r][i].sim, kept'[r][j].sim)
        <5>1. CASE r # runs
          BY <4>1, <5>1, <2>2, KeepAppends DEF KeptApart
        <5>2. CASE r = runs /\ j \in DOMAIN kept[runs]
          BY <4>1, <5>2, <2>2, KeepAppends DEF KeptApart
        <5>3. CASE r = runs /\ j = Len(kept[runs]) + 1
          <6>1. i \in DOMAIN kept[runs]
            BY <4>1, <5>3, <2>2, KeepAppends
          <6>2. kept[runs][i].sim \in simMap
            BY <3>1, <6>1, <2>2, KeepAppends DEF Remembered
          <6>3. QED
            BY <3>1, <5>3, <6>1, <6>2, <2>2, KeepAppends
        <5>4. QED
          BY <4>1, <5>1, <5>2, <5>3, <2>2, KeepAppends
      <4>2. ASSUME NEW r \in DOMAIN kept', NEW i \in DOMAIN kept'[r],
                   NEW q \in (r + 1)..Len(kept'), NEW j \in DOMAIN kept'[q],
                   Near(kept'[r][i].sim, kept'[q][j].sim)
            PROVE  kept'[r][i].sim \in forgotten'
        <5>1. /\ Len(kept') = Len(kept) /\ Len(kept) = runs /\ runs \in Nat
              /\ DOMAIN kept = 1..runs
          BY <2>2 DEF Keep, TypeOK
        <5>2. r \in DOMAIN kept /\ r # runs /\ r < q /\ q \in DOMAIN kept
          BY <4>2, <5>1, <2>2, KeepAppends
        <5>3. i \in DOMAIN kept[r] /\ kept'[r][i] = kept[r][i]
          BY <5>2, <2>2, KeepAppends
        <5>4. CASE j \in DOMAIN kept[q]
          <6>1. kept'[q][j] = kept[q][j]
            BY <5>2, <5>4, <2>2, KeepAppends
          <6>2. QED
            BY <3>1, <4>2, <5>1, <5>2, <5>3, <5>4, <6>1 DEF KeptApart
        <5>5. CASE q = runs /\ j = Len(kept[runs]) + 1
          <6>1. kept'[q][j] = d
            BY <5>5, <2>2, KeepAppends
          <6>2. kept[r][i].sim \in simMap \cup forgotten
            BY <3>1, <5>2, <5>3 DEF Remembered, Known
          <6>3. QED
            BY <3>1, <4>2, <5>3, <6>1, <6>2
        <5>6. QED
          BY <5>2, <5>4, <5>5, <2>2, KeepAppends
      <4>3. QED
        BY <4>1, <4>2 DEF KeptApart
    <3>4. QED
      BY <3>2, <3>3
  <2>3. ASSUME NEW d \in Docs, Duplicate(d) PROVE Inv'
    <3>1. simMap \subseteq simMap' /\ UNCHANGED <<up, kept, runs, simFile, forgotten>> /\ up
      BY <2>3 DEF Duplicate, Indexed
    <3>2. QED
      BY <3>1 DEF Remembered, Known, KeptApart
  <2>4. CASE Save
    <3>1. UNCHANGED <<up, simMap, kept, runs, forgotten>> /\ up
      BY <2>4 DEF Save, index
    <3>2. QED
      BY <3>1 DEF Remembered, Known, KeptApart
  <2>5. CASE ProcessEnds
    <3>1. /\ up /\ ~up' /\ UNCHANGED <<kept, runs, simFile>>
          /\ forgotten \subseteq forgotten' /\ simMap \subseteq simFile \cup forgotten'
      BY <2>5 DEF ProcessEnds
    <3>2. QED
      BY <3>1 DEF Remembered, Known, KeptApart
  <2>6. CASE UNCHANGED vars
    BY <2>6 DEF vars, Remembered, Known, KeptApart
  <2>7. QED
    BY <2>1, <2>2, <2>3, <2>4, <2>5, <2>6 DEF Next
<1>3. QED
  BY <1>1, <1>2, TypeCorrect, PTL DEF Spec

-----------------------------------------------------------------------------
\* A document that was kept by a process is in its LSH buckets.
Bucketed ==
    up /\ MinhashOn => \A i \in DOMAIN kept[runs] : kept[runs][i].sig \in lsh

\* In one process no two kept documents are similar by MinHash.
THEOREM Dissimilar == Spec => []KeptDissimilar
<1> DEFINE Inv == Bucketed /\ KeptDissimilar
<1>1. Init => Inv
  BY DEF Init, Bucketed, KeptDissimilar
<1>2. TypeOK /\ Inv /\ [Next]_vars => Inv'
  <2> SUFFICES ASSUME TypeOK, Inv, [Next]_vars, MinhashOn PROVE Inv'
    BY DEF Bucketed, KeptDissimilar
  <2>1. CASE Start
    BY <2>1, StartOpens DEF Start, Bucketed, KeptDissimilar
  <2>2. ASSUME NEW d \in Docs, Keep(d) PROVE Inv'
    <3>1. /\ lsh' = lsh \cup {d.sig}
          /\ \A s \in lsh : ~Similar(d.sig, s) /\ ~Similar(s, d.sig)
          /\ up /\ runs' = runs
      BY <2>2, SimilarSymmetric DEF Keep, Indexed, Unique, MinhashDup
    <3>2. Bucketed'
      BY <3>1, <2>2, KeepAppends DEF Bucketed
    <3>3. ASSUME NEW r \in DOMAIN kept', NEW i \in DOMAIN kept'[r], NEW j \in DOMAIN kept'[r], i # j
          PROVE  ~Similar(kept'[r][i].sig, kept'[r][j].sig)
      <4>1. CASE r # runs
        BY <3>3, <4>1, <2>2, KeepAppends DEF KeptDissimilar
      <4>2. CASE r = runs /\ i \in DOMAIN kept[runs] /\ j \in DOMAIN kept[runs]
        BY <3>3, <4>2, <2>2, KeepAppends DEF KeptDissimilar
      <4>3. CASE r = runs /\ i \in DOMAIN kept[runs] /\ j = Len(kept[runs]) + 1
        BY <3>1, <4>3, <2>2, KeepAppends DEF Bucketed
      <4>4. CASE r = runs /\ j \in DOMAIN kept[runs] /\ i = Len(kept[runs]) + 1
        BY <3>1, <4>4, <2>2, KeepAppends DEF Bucketed
      <4>5. QED
        BY <3>3, <4>1, <4>2, <4>3, <4>4, <2>2, KeepAppends
    <3>4. QED
      BY <3>2, <3>3 DEF KeptDissimilar
  <2>3. ASSUME NEW d \in Docs, Duplicate(d) PROVE Inv'
    <3>1. lsh \subseteq lsh' /\ UNCHANGED <<up, kept, runs>>
      BY <2>3 DEF Duplicate, Indexed
    <3>2. QED
      BY <3>1 DEF Bucketed, KeptDissimilar
  <2>4. CASE Save \/ ProcessEnds \/ UNCHANGED vars
    BY <2>4 DEF Save, index, ProcessEnds, vars, Bucketed, KeptDissimilar
  <2>5. QED
    BY <2>1, <2>2, <2>3, <2>4 DEF Next
<1>3. QED
  BY <1>1, <1>2, TypeCorrect, PTL DEF Spec

-----------------------------------------------------------------------------
\* The SimHashes a crash would forget.
Unsaved == {kept[runs][i].sim : i \in DOMAIN kept[runs]} \ simFile

\* While saves succeed a crash forgets the SimHashes of fewer than save_every
\* kept documents.  They are at most as many as documents were seen since the
\* last save, however many of those were duplicates.
Few ==
    up /\ SimOn /\ ~CanFail =>
        /\ simFile \subseteq simMap
        /\ \A i \in DOMAIN kept[runs] : kept[runs][i].sim \in simMap
        /\ IsFiniteSet(Unsaved)
        /\ Cardinality(Unsaved) <= totalSeen - lastSave
        /\ Cardinality(Unsaved) < SaveEvery

LEMMA FewAfterSave ==
    ASSUME TypeOK', Unsaved' = {}, SimOn => simFile' \subseteq simMap',
           SimOn => \A i \in DOMAIN kept'[runs'] : kept'[runs'][i].sim \in simMap'
    PROVE  Few'
<1>1. IsFiniteSet(Unsaved') /\ Cardinality(Unsaved') = 0
  BY FS_EmptySet
<1>2. SaveEvery > 0
  BY DedupAssumption
<1>3. totalSeen' \in Nat /\ lastSave' \in 0..totalSeen'
  BY DEF TypeOK
<1>4. totalSeen' - lastSave' >= 0
  <2>1. \A t \in Nat : \A l \in 0..t : t - l >= 0
    OBVIOUS
  <2>2. QED
    BY <1>3, <2>1, Zenon
<1>5. QED
  BY <1>1, <1>2, <1>4 DEF Few

THEOREM FewUnsaved == Spec => []UnsavedBounded
<1>1. Init => Few
  BY DEF Init, Few
<1>2. TypeOK /\ TypeOK' /\ Few /\ [Next]_vars => Few'
  <2> SUFFICES ASSUME TypeOK, TypeOK', Few, [Next]_vars, SimOn, ~CanFail PROVE Few'
    BY DEF Few
  <2>1. CASE Start
    <3>1. Unsaved' = {} /\ simFile' = simMap' /\ DOMAIN kept'[runs'] = {}
      BY <2>1, StartOpens DEF Unsaved, Start
    <3>2. QED
      BY <3>1, FewAfterSave
  <2>2. ASSUME NEW d \in Docs, Keep(d) PROVE Few'
    <3>1. /\ simMap \cup {d.sim} = simMap'
          /\ up /\ runs' = runs /\ totalSeen' = totalSeen + 1
      BY <2>2 DEF Keep, Indexed, Unique
    <3>2. \A i \in DOMAIN kept'[runs'] : kept'[runs'][i].sim \in simMap'
      BY <3>1, <2>2, KeepAppends DEF Few
    <3>3. CASE SaveDue
      <4>1. simFile' = simMap'
        BY <3>3, <2>2 DEF Keep, Saves
      <4>2. Unsaved' = {}
        BY <4>1, <3>2 DEF Unsaved
      <4>3. QED
        BY <4>1, <4>2, <3>2, FewAfterSave
    <3>4. CASE ~SaveDue
      <4>1. simFile' = simFile /\ lastSave' = lastSave
        BY <3>4, <2>2 DEF Keep
      <4>2. Unsaved' \subseteq Unsaved \cup {d.sim}
        BY <4>1, <3>1, <2>2, KeepAppends DEF Unsaved
      <4>3. /\ IsFiniteSet(Unsaved \cup {d.sim})
            /\ Cardinality(Unsaved \cup {d.sim}) <= Cardinality(Unsaved) + 1
        <5>1. IsFiniteSet(Unsaved) /\ Cardinality(Unsaved) \in Nat
          BY <3>1, FS_CardinalityType DEF Few
        <5>2. QED
          BY <5>1, FS_AddElement
      <4>4. /\ IsFiniteSet(Unsaved')
            /\ Cardinality(Unsaved') <= Cardinality(Unsaved \cup {d.sim})
        BY <4>2, <4>3, FS_Subset
      <4>5. /\ Cardinality(Unsaved) \in Nat /\ Cardinality(Unsaved') \in Nat
            /\ Cardinality(Unsaved \cup {d.sim}) \in Nat
        BY <3>1, <4>3, <4>4, FS_CardinalityType DEF Few
      <4>6. totalSeen' - lastSave < SaveEvery
        BY <3>4, DedupAssumption DEF SaveDue, TypeOK
      <4>7. Cardinality(Unsaved') <= totalSeen' - lastSave'
        BY <3>1, <4>1, <4>3, <4>4, <4>5 DEF Few, TypeOK
      <4>8. Cardinality(Unsaved') < SaveEvery
        BY <4>1, <4>5, <4>6, <4>7, DedupAssumption DEF TypeOK
      <4>9. simFile' \subseteq simMap'
        BY <3>1, <4>1 DEF Few
      <4>10. QED
        BY <3>2, <4>4, <4>7, <4>8, <4>9 DEF Few
    <3>5. QED
      BY <3>3, <3>4
  <2>3. ASSUME NEW d \in Docs, Duplicate(d) PROVE Few'
    <3>1. /\ simMap \subseteq simMap' /\ UNCHANGED <<up, kept, runs, simFile, lastSave>>
          /\ totalSeen' = totalSeen + 1 /\ up
      BY <2>3 DEF Duplicate, Indexed
    <3>2. Unsaved' = Unsaved
      BY <3>1 DEF Unsaved
    <3>3. Cardinality(Unsaved) \in Nat
      BY <3>1, FS_CardinalityType DEF Few
    <3>4. Cardinality(Unsaved) <= totalSeen' - lastSave'
      BY <3>1, <3>3 DEF Few, TypeOK
    <3>5. QED
      BY <3>1, <3>2, <3>4 DEF Few
  <2>4. CASE Save
    <3>1. simFile' = simMap /\ UNCHANGED <<up, simMap, kept, runs>> /\ up
      BY <2>4 DEF Save, Saves, index
    <3>2. Unsaved' = {}
      BY <3>1 DEF Unsaved, Few
    <3>3. QED
      BY <3>1, <3>2, FewAfterSave DEF Few
  <2>5. CASE ProcessEnds
    BY <2>5 DEF ProcessEnds, Few
  <2>6. CASE UNCHANGED vars
    BY <2>6 DEF vars, Few, Unsaved
  <2>7. QED
    BY <2>1, <2>2, <2>3, <2>4, <2>5, <2>6 DEF Next
<1>3. Few => UnsavedBounded
  BY DEF Few, Unsaved, UnsavedBounded
<1>4. QED
  BY <1>1, <1>2, <1>3, TypeCorrect, PTL DEF Spec

-----------------------------------------------------------------------------
\* The documents kept are those kept before and the one a Keep appends.
LEMMA KeptGrows ==
    /\ \A d \in Docs : TypeOK /\ Keep(d) => KeptDocs \subseteq KeptDocs' /\ d \in KeptDocs'
    /\ TypeOK /\ Start => KeptDocs \subseteq KeptDocs'
<1>1. ASSUME TypeOK, NEW d \in Docs, Keep(d)
      PROVE  KeptDocs \subseteq KeptDocs' /\ d \in KeptDocs'
  <2>1. ASSUME NEW r \in DOMAIN kept, NEW i \in DOMAIN kept[r]
        PROVE  i \in DOMAIN kept'[r] /\ kept'[r][i] = kept[r][i]
    BY <1>1, <2>1, KeepAppends
  <2>2. DOMAIN kept' = DOMAIN kept
    BY <1>1, KeepAppends
  <2>3. \E i \in DOMAIN kept'[runs] : kept'[runs][i] = d
    BY <1>1, KeepAppends
  <2>4. runs \in DOMAIN kept'
    BY <1>1, KeepAppends
  <2>5. QED
    BY <2>1, <2>2, <2>3, <2>4 DEF KeptDocs
<1>2. ASSUME TypeOK, Start PROVE KeptDocs \subseteq KeptDocs'
  BY <1>2, StartOpens DEF KeptDocs
<1>3. QED
  BY <1>1, <1>2

\* The index never blames a document that is not in the data: what it knows is
\* of a kept document, or of one a later layer rejected for a kept one.  The
\* induction needs that every signature in a bucket is that of a kept document.
Buckets == \A s \in lsh : \E d \in KeptDocs : d.sig = s

THEOREM Justified == Spec => []IndexJustified
<1> DEFINE Inv == IndexJustified /\ Buckets
<1>1. Init => Inv
  BY DEF Init, IndexJustified, Buckets
<1>2. TypeOK /\ Inv /\ [Next]_vars => Inv'
  <2> SUFFICES ASSUME TypeOK, Inv, [Next]_vars PROVE Inv'
    OBVIOUS
  <2>1. ASSUME KeptDocs \subseteq KeptDocs', exact' = {}, lsh' = {},
               simMap' \cup simFile' \subseteq simMap \cup simFile
        PROVE  Inv'
    BY <2>1 DEF IndexJustified, SimilarToKept, Buckets
  <2>2. CASE Start
    BY <2>1, <2>2, KeptGrows DEF Start
  <2>3. CASE ProcessEnds
    BY <2>1, <2>3 DEF ProcessEnds, KeptDocs
  <2>4. CASE Save
    <3>1. /\ UNCHANGED <<exact, simMap, lsh, kept>>
          /\ simMap' \cup simFile' \subseteq simMap \cup simFile
      BY <2>4 DEF Save, Saves, index
    <3>2. KeptDocs' = KeptDocs
      BY <3>1 DEF KeptDocs
    <3>3. QED
      BY <3>1, <3>2 DEF IndexJustified, SimilarToKept, Buckets
  <2>5. ASSUME NEW d \in Docs, Duplicate(d) \/ Keep(d) PROVE Inv'
    <3>1. /\ KeptDocs \subseteq KeptDocs'
          /\ Keep(d) => d \in KeptDocs'
      BY <2>5, KeptGrows DEF Duplicate, KeptDocs
    <3>2. Indexed(d) /\ simMap \subseteq simMap' /\ simFile' \subseteq simMap' \cup simFile
      BY <2>5 DEF Duplicate, Keep, Indexed, Saves
    <3>3. MinhashDup(d) => SimilarToKept(d)'
      <4>1. SUFFICES ASSUME MinhashDup(d) PROVE SimilarToKept(d)'
        OBVIOUS
      <4>2. PICK s \in lsh : Similar(d.sig, s)
        BY <4>1 DEF MinhashDup
      <4>3. PICK x \in KeptDocs : x.sig = s
        BY DEF Buckets
      <4>4. QED
        BY <3>1, <4>1, <4>2, <4>3 DEF SimilarToKept, MinhashDup
    <3>4. Unique(d) => d \in KeptDocs'
      BY <2>5, <3>1 DEF Duplicate
    <3>5. NearDup(d) => \E s \in simMap' : SimOn /\ Near(d.sim, s)
      BY <3>2 DEF NearDup
    <3>6. \/ d.hash \in exact /\ ExactDup(d)
          \/ ~ExactDup(d) /\ NearDup(d)
          \/ ~ExactDup(d) /\ ~NearDup(d) /\ (MinhashDup(d) \/ Unique(d))
      BY DEF Unique, ExactDup
    <3>7. \A x \in Docs : SimilarToKept(x) => SimilarToKept(x)'
      BY <3>1 DEF SimilarToKept
    <3>8. \A s \in simMap' \cup simFile' :
             \E x \in Docs : x.sim = s /\ (x \in KeptDocs' \/ SimilarToKept(x)')
      <4>1. \A s \in simMap \cup simFile :
               \E x \in Docs : x.sim = s /\ (x \in KeptDocs' \/ SimilarToKept(x)')
        BY <3>1, <3>7 DEF IndexJustified
      <4>2. simMap' \subseteq simMap \/ (simMap' = simMap \cup {d.sim} /\ (MinhashDup(d) \/ Unique(d)))
        BY <3>2, <3>6 DEF Indexed
      <4>3. QED
        BY <3>2, <3>3, <3>4, <4>1, <4>2
    <3>9. \A h \in exact' : \E x \in Docs : x.hash = h /\
            (x \in KeptDocs' \/ SimilarToKept(x)' \/ (SimOn /\ \E s \in simMap' : Near(x.sim, s)))
      <4>1. \A h \in exact : \E x \in Docs : x.hash = h /\
              (x \in KeptDocs' \/ SimilarToKept(x)' \/ (SimOn /\ \E s \in simMap' : Near(x.sim, s)))
        BY <3>1, <3>2, <3>7 DEF IndexJustified
      <4>2. exact' \subseteq exact \cup {d.hash}
        BY <3>2 DEF Indexed
      <4>3. d.hash \in exact \/ NearDup(d) \/ MinhashDup(d) \/ Unique(d)
        BY <3>6
      <4>4. QED
        BY <3>3, <3>4, <3>5, <4>1, <4>2, <4>3
    <3>10. Buckets'
      <4>1. lsh' \subseteq lsh \/ (lsh' = lsh \cup {d.sig} /\ Unique(d))
        BY <3>2 DEF Indexed
      <4>2. QED
        BY <3>1, <3>4, <4>1 DEF Buckets
    <3>11. QED
      BY <3>8, <3>9, <3>10 DEF IndexJustified
  <2>6. CASE UNCHANGED vars
    <3>1. UNCHANGED <<exact, simMap, lsh, simFile, kept>>
      BY <2>6 DEF vars
    <3>2. KeptDocs' = KeptDocs
      BY <3>1 DEF KeptDocs
    <3>3. QED
      BY <3>1, <3>2 DEF IndexJustified, SimilarToKept, Buckets
  <2>7. QED
    BY <2>2, <2>3, <2>4, <2>5, <2>6 DEF Next
<1>3. QED
  BY <1>1, <1>2, TypeCorrect, PTL DEF Spec
=============================================================================
