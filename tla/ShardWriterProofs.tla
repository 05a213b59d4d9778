--------------------------- MODULE ShardWriterProofs ---------------------------
(***************************************************************************)
(* Proofs about ShardWriter for every size of record (of at least          *)
(* BytesPerRecord), every limit, and every number of runs, rotations and   *)
(* records.                                                                *)
(***************************************************************************)
EXTENDS MCShardWriter, SequenceTheorems, WellFoundedInduction, TLAPS

\* A rotation in progress still has an index to move to: BeginRotate checks it.
RotationRoom ==
    /\ pending # 0 /\ pc \in {"flushed", "renamed", "sealed"} => idx < MaxIdx
    /\ pc = "sealed" => pending # 0
    /\ pc \in {"down", "open", "closed"} => pending = 0

\* The file the writer is working on exists until it is renamed.
OpenExists == pc \in {"open", "flushed"} => partial[Cur] \in Seq(Entry)

TypeInv == TypeOK /\ RotationRoom /\ OpenExists

LEMMA EntryFacts ==
  /\ \A f \in File : f # Absent => f \in Seq(Entry)
  /\ \A f \in File : Created(f) \in Seq(Entry) /\ FileSize(Created(f)) \in Nat
  /\ \A f \in Seq(Entry) : FileSize(f) \in Nat
<1>1. \A f \in Seq(Entry) : FileSize(f) \in Nat
  <2> SUFFICES ASSUME NEW f \in Seq(Entry), f # <<>> PROVE f[Len(f)].end \in Nat
    BY DEF FileSize
  <2>1. Len(f) \in 1..Len(f)
    OBVIOUS
  <2>2. f[Len(f)] \in Entry
    BY <2>1
  <2>3. QED
    BY <2>2 DEF Entry
<1>2. \A f \in File : Created(f) \in Seq(Entry)
  BY DEF File, Created
<1>3. QED
  BY <1>1, <1>2 DEF File

\* The types are inductive together with the two facts above.
LEMMA TypeInvariant == Spec => []TypeInv
<1> USE ShardAssumption
<1>1. Init => TypeInv
  BY DEF Init, TypeInv, TypeOK, RotationRoom, OpenExists, File
<1>2. TypeInv /\ [Next]_vars => TypeInv'
  <2> SUFFICES ASSUME TypeInv, [Next]_vars PROVE TypeInv'
    OBVIOUS
  <2> USE DEF TypeInv, TypeOK, RotationRoom, OpenExists, Cur
  <2>0. pc # "down" => Cur \in Slots
    BY DEF Slots
  <2>1. ASSUME NEW r \in 1..MaxRuns, Start(r) PROVE TypeInv'
    <3>1. PICK i \in 0..MaxIdx : idx' = i /\ OpenShard(<<r, i>>)
      BY <2>1 DEF Start
    <3>2. <<r, i>> \in Slots
      BY DEF Slots
    <3>3. /\ partial' \in [Slots -> File]
          /\ partial'[<<r, i>>] \in Seq(Entry)
          /\ bytes' \in Nat
          /\ records' \in Nat
          /\ buffer' \in Seq(Entry)
      <4>1. /\ Created(partial[<<r, i>>]) \in Seq(Entry)
            /\ FileSize(Created(partial[<<r, i>>])) \in Nat
        BY <3>2, EntryFacts
      <4>2. bytes' \in Nat /\ records' \in Nat
        BY <3>1, <4>1 DEF OpenShard, BytesPerRecord
      <4>3. buffer' \in Seq(Entry)
        BY <3>1 DEF OpenShard
      <4>4. /\ partial' \in [Slots -> File]
            /\ partial'[<<r, i>>] \in Seq(Entry)
        BY <3>1, <3>2, <4>1 DEF OpenShard, File
      <4>5. QED
        BY <4>2, <4>3, <4>4
    <3>4. completed' \subseteq Slots
      BY <2>1 DEF Start, Slots
    <3>5. QED
      BY <2>1, <3>1, <3>3, <3>4 DEF Start
  <2>2. ASSUME NEW n \in Sizes, Write(n) PROVE TypeInv'
    <3>1. n \in Nat
      OBVIOUS
    <3>2. [id |-> next, end |-> bytes + n] \in Entry
      BY <3>1 DEF Entry
    <3>3. buffer' \in Seq(Entry)
      BY <2>2, <3>2 DEF Write
    <3>4. QED
      BY <2>2, <3>1, <3>3 DEF Write, files
  <2>3. ASSUME NEW n, n \in Nat, pc = "open", FlushForClose(n), n # 0 => idx < MaxIdx
        PROVE  TypeInv'
    <3>1. /\ partial' \in [Slots -> File]
          /\ partial'[Cur] \in Seq(Entry)
      <4>1. partial[Cur] \o buffer \in Seq(Entry)
        BY <2>3
      <4>2. CASE partial' = [partial EXCEPT ![Cur] = @ \o buffer]
        BY <2>0, <2>3, <4>1, <4>2 DEF FlushForClose, File
      <4>3. CASE UNCHANGED partial
        BY <2>3, <4>3 DEF FlushForClose
      <4>4. QED
        BY <2>3, <4>2, <4>3 DEF FlushForClose
    <3>2. QED
      BY <2>3, <3>1 DEF FlushForClose
  <2>4. ASSUME NEW n \in Sizes, BeginRotate(n) PROVE TypeInv'
    BY <2>3, <2>4 DEF BeginRotate
  <2>5. CASE Close
    BY <2>3, <2>5 DEF Close
  <2>6. CASE Spill
    <3>1. Append(partial[Cur], Head(buffer)) \in Seq(Entry) /\ Tail(buffer) \in Seq(Entry)
      BY <2>6 DEF Spill
    <3>2. QED
      BY <2>0, <2>6, <3>1 DEF Spill, File
  <2>7. CASE Flush
    <3>1. partial[Cur] \o buffer \in Seq(Entry)
      BY <2>7 DEF Flush
    <3>2. QED
      BY <2>0, <2>7, <3>1 DEF Flush, File
  <2>8. CASE Rename
    BY <2>0, <2>8 DEF Rename, File, memory
  <2>9. CASE RenameFails
    BY <2>9 DEF RenameFails, files, memory, AfterClose
  <2>10. CASE Seal
    BY <2>0, <2>10 DEF Seal, AfterClose
  <2>11. CASE SealFails
    BY <2>11 DEF SealFails, files, memory, AfterClose
  <2>12. CASE Reopen
    <3>1. idx + 1 \in 0..MaxIdx /\ <<rid, idx + 1>> \in Slots /\ pending \in Nat
      BY <2>12 DEF Reopen, Slots
    <3>2. /\ Created(partial[<<rid, idx + 1>>]) \in Seq(Entry)
          /\ FileSize(Created(partial[<<rid, idx + 1>>])) \in Nat
      BY <3>1, EntryFacts
    <3>3. bytes' \in Nat /\ records' \in Nat
      BY <2>12, <3>1, <3>2 DEF Reopen, BytesPerRecord
    <3>4. buffer' \in Seq(Entry)
      BY <2>12, <3>3 DEF Reopen, Entry
    <3>5. /\ partial' \in [Slots -> File]
          /\ partial'[<<rid, idx + 1>>] \in Seq(Entry)
      BY <2>12, <3>1, <3>2 DEF Reopen, File
    <3>6. QED
      BY <2>12, <3>1, <3>3, <3>4, <3>5 DEF Reopen
  <2>13. CASE ReopenFails
    BY <2>13 DEF ReopenFails, files
  <2>14. CASE ProcessEnds
    BY <2>14 DEF ProcessEnds, files
  <2>15. CASE UNCHANGED vars
    BY <2>15 DEF vars
  <2>16. QED
    BY <2>1, <2>2, <2>4, <2>5, <2>6, <2>7, <2>8, <2>9, <2>10, <2>11, <2>12,
       <2>13, <2>14, <2>15 DEF Next
<1>3. QED
  BY <1>1, <1>2, PTL DEF Spec

\* The type invariant of the shard writer: every file is a sequence of records
\* or absent, and the shard index stays within the bound of the model.
THEOREM TypeCorrect == Spec => []TypeOK
BY TypeInvariant, PTL DEF TypeInv

-----------------------------------------------------------------------------
(***************************************************************************)
(* The limits of a shard.  Good(f, k) is what the bound and the order of   *)
(* the offsets need of one file when k is the next record; the content of  *)
(* the open shard, file and buffer together, is Good, and the counters     *)
(* bound it: _records is at least the number of its records, because every *)
(* record has at least BytesPerRecord bytes, and _bytes_written its size.  *)
(***************************************************************************)
Good(f, k) ==
    /\ Len(f) <= MaxRecords
    /\ \A j \in 1..Len(f) : /\ f[j].end >= BytesPerRecord * j /\ f[j].id < k
                            /\ Extent(f, j) \in Sizes
    /\ \A j \in 2..Len(f) : /\ f[j].end < MaxBytes
                            /\ f[j - 1].end < f[j].end
                            /\ f[j - 1].id < f[j].id

Shard == partial[Cur] \o buffer

GoodFiles == \A sl \in Slots : /\ partial[sl] # Absent => Good(partial[sl], next)
                               /\ final[sl] # Absent => Good(final[sl], next)

CountersBound ==
    pc = "open" => Good(Shard, next) /\ bytes = FileSize(Shard) /\ records >= Len(Shard)

\* Nothing is in the slots a rotation will move to.
AheadIsEmpty ==
    pc # "down" => \A i \in (idx + 1)..MaxIdx : /\ partial[<<rid, i>>] = Absent
                                                /\ final[<<rid, i>>] = Absent

PendingSize == pending # 0 => pending \in Sizes

BoundInv == GoodFiles /\ CountersBound /\ AheadIsEmpty /\ PendingSize

LEMMA GoodEmpty ==
  ASSUME NEW k
  PROVE  Good(<<>>, k) /\ FileSize(<<>>) = 0
BY ShardAssumption DEF Good, FileSize

LEMMA GoodPrefix ==
  ASSUME NEW k, NEW f \in Seq(Entry), NEW g \in Seq(Entry), Good(f \o g, k)
  PROVE  Good(f, k)
<1>1. /\ Len(f \o g) = Len(f) + Len(g)
      /\ \A j \in 1..Len(f) : (f \o g)[j] = f[j]
  OBVIOUS
<1>2. \A j \in 1..Len(f) : Extent(f \o g, j) = Extent(f, j)
  BY <1>1 DEF Extent
<1>3. Len(f) <= Len(f \o g) /\ Len(f) \in Nat /\ Len(f \o g) \in Nat
  BY <1>1
<1>4. Len(f) <= MaxRecords
  BY <1>3, ShardAssumption DEF Good
<1>5. ASSUME NEW j \in 1..Len(f)
      PROVE  /\ f[j].end >= BytesPerRecord * j /\ f[j].id < k
             /\ Extent(f, j) \in Sizes
  <2>1. j \in 1..Len(f \o g)
    BY <1>3
  <2>2. /\ (f \o g)[j].end >= BytesPerRecord * j /\ (f \o g)[j].id < k
        /\ Extent(f \o g, j) \in Sizes
    BY <2>1 DEF Good
  <2>3. QED
    BY <1>1, <1>2, <2>2
<1>6. ASSUME NEW j \in 2..Len(f)
      PROVE  f[j].end < MaxBytes /\ f[j - 1].end < f[j].end /\ f[j - 1].id < f[j].id
  <2>1. j \in 2..Len(f \o g) /\ j \in 1..Len(f) /\ j - 1 \in 1..Len(f)
    BY <1>3
  <2>2. /\ (f \o g)[j].end < MaxBytes
        /\ (f \o g)[j - 1].end < (f \o g)[j].end
        /\ (f \o g)[j - 1].id < (f \o g)[j].id
    BY <2>1 DEF Good
  <2>3. (f \o g)[j] = f[j] /\ (f \o g)[j - 1] = f[j - 1]
    BY <1>1, <2>1
  <2>4. QED
    BY <2>2, <2>3
<1>7. QED
  BY <1>4, <1>5, <1>6 DEF Good

\* Moving the head of the buffer to the end of the file leaves the whole as it is.
LEMMA SpillKeepsShard ==
  ASSUME NEW f \in Seq(Entry), NEW g \in Seq(Entry), g # <<>>
  PROVE  Append(f, Head(g)) \o Tail(g) = f \o g
<1> DEFINE h == Append(f, Head(g)) \o Tail(g)
<1>1. h \in Seq(Entry) /\ f \o g \in Seq(Entry)
  OBVIOUS
<1>2. Len(h) = Len(f \o g)
  OBVIOUS
<1>3. \A j \in 1..Len(h) : h[j] = (f \o g)[j]
  OBVIOUS
<1>4. QED
  BY <1>1, <1>2, <1>3

LEMMA AppendToConcat ==
  ASSUME NEW f \in Seq(Entry), NEW g \in Seq(Entry), NEW e \in Entry
  PROVE  f \o Append(g, e) = Append(f \o g, e)
OBVIOUS

\* A record that needed no rotation, or is the first of its shard, keeps it Good.
LEMMA GoodAppend ==
  ASSUME NEW k \in Nat, NEW n \in Sizes, n \in Nat, n >= BytesPerRecord,
         NEW f \in Seq(Entry), Good(f, k), Len(f) < MaxRecords,
         f = <<>> \/ FileSize(f) + n < MaxBytes,
         NEW e \in Entry, e = [id |-> k, end |-> FileSize(f) + n]
  PROVE  Good(Append(f, e), k + 1)
<1> DEFINE g == Append(f, e)
<1>1. /\ Len(g) = Len(f) + 1
      /\ g[Len(g)] = e
      /\ \A j \in 1..Len(f) : g[j] = f[j]
      /\ \A j \in 1..Len(f) : f[j] \in Entry
  OBVIOUS
<1>2. FileSize(f) >= BytesPerRecord * Len(f) /\ FileSize(f) \in Nat
  <2>1. CASE f = <<>>
    BY <2>1 DEF FileSize, BytesPerRecord
  <2>2. CASE f # <<>>
    <3>1. Len(f) \in 1..Len(f) /\ FileSize(f) = f[Len(f)].end
      BY <2>2 DEF FileSize
    <3>2. QED
      BY <1>1, <3>1 DEF Good, Entry
  <2>3. QED
    BY <2>1, <2>2
<1>3. ASSUME NEW j \in 1..Len(g)
      PROVE  /\ g[j].end >= BytesPerRecord * j /\ g[j].id < k + 1
             /\ Extent(g, j) \in Sizes
  <2>1. CASE j \in 1..Len(f)
    <3>1. Extent(g, j) = Extent(f, j)
      BY <1>1, <2>1 DEF Extent
    <3>2. QED
      BY <1>1, <2>1, <3>1 DEF Good, Entry
  <2>2. CASE j = Len(g)
    <3>1. Extent(g, j) = n
      <4>1. CASE f = <<>>
        BY <1>1, <2>2, <4>1 DEF Extent, FileSize
      <4>2. CASE f # <<>>
        <5>1. j # 1 /\ j - 1 = Len(f) /\ Len(f) \in 1..Len(f) /\ FileSize(f) = f[Len(f)].end
          BY <1>1, <2>2, <4>2 DEF FileSize
        <5>2. g[j].end = FileSize(f) + n /\ g[j - 1].end = FileSize(f)
          BY <1>1, <2>2, <5>1
        <5>3. QED
          BY <1>2, <5>1, <5>2 DEF Extent
      <4>3. QED
        BY <4>1, <4>2
    <3>2. QED
      BY <1>1, <1>2, <2>2, <3>1 DEF BytesPerRecord
  <2>3. QED
    BY <1>1, <2>1, <2>2
<1>4. ASSUME NEW j \in 2..Len(g)
      PROVE  g[j].end < MaxBytes /\ g[j - 1].end < g[j].end /\ g[j - 1].id < g[j].id
  <2>1. CASE j \in 1..Len(f)
    BY <1>1, <2>1 DEF Good
  <2>2. CASE j = Len(g)
    <3>1. f # <<>> /\ j - 1 = Len(f) /\ Len(f) \in 1..Len(f)
      BY <1>1, <2>2
    <3>2. g[j - 1] = f[Len(f)] /\ FileSize(f) = f[Len(f)].end /\ f[Len(f)].id < k
      BY <1>1, <3>1 DEF FileSize, Good
    <3>3. QED
      BY <1>1, <1>2, <2>2, <3>1, <3>2 DEF BytesPerRecord
  <2>3. QED
    BY <1>1, <2>1, <2>2
<1>5. Len(g) <= MaxRecords
  BY <1>1, ShardAssumption
<1>6. QED
  BY <1>3, <1>4, <1>5 DEF Good

LEMMA FileSizeOfAppend ==
  ASSUME NEW f \in Seq(Entry), NEW e \in Entry
  PROVE  FileSize(Append(f, e)) = e.end
BY DEF FileSize

\* The estimate of _open_shard never misses a record.
LEMMA EstimateIsEnough ==
  ASSUME NEW k, NEW f \in Seq(Entry), Good(f, k)
  PROVE  FileSize(f) \div BytesPerRecord >= Len(f)
<1>1. CASE f = <<>>
  BY <1>1 DEF FileSize, BytesPerRecord
<1>2. CASE f # <<>>
  <2>0. Len(f) \in 1..Len(f) /\ FileSize(f) = f[Len(f)].end /\ f[Len(f)] \in Entry
    BY <1>2 DEF FileSize
  <2>1. Len(f) \in 1..Len(f) /\ FileSize(f) = f[Len(f)].end /\ f[Len(f)].end \in Nat
    BY <2>0 DEF Entry
  <2>2. FileSize(f) >= 200 * Len(f) /\ FileSize(f) \in Nat /\ Len(f) \in Nat
    BY <2>1 DEF Good, BytesPerRecord
  <2>3. QED
    BY <2>2 DEF BytesPerRecord
<1>3. QED
  BY <1>1, <1>2

\* Good only grows with the number of the next record.
LEMMA GoodStays ==
  ASSUME NEW k \in Nat, NEW f \in Seq(Entry), Good(f, k)
  PROVE  Good(f, k + 1)
<1>1. ASSUME NEW j \in 1..Len(f)
      PROVE  /\ f[j].end >= BytesPerRecord * j /\ f[j].id < k + 1
             /\ Extent(f, j) \in Sizes
  <2>1. f[j] \in Entry
    OBVIOUS
  <2>2. /\ f[j].id \in Nat /\ f[j].id < k /\ f[j].end >= BytesPerRecord * j
        /\ Extent(f, j) \in Sizes
    BY <2>1 DEF Good, Entry
  <2>3. QED
    BY <2>2
<1>2. QED
  BY <1>1 DEF Good

\* The files stay Good when records are numbered on and no file changes.
LEMMA GoodFilesStay ==
  ASSUME TypeOK, GoodFiles, UNCHANGED <<partial, final>>, next' \in {next, next + 1}
  PROVE  GoodFiles'
<1>1. \A sl \in Slots : partial[sl] \in File /\ final[sl] \in File
  BY DEF TypeOK
<1>2. QED
  BY <1>1, GoodStays DEF GoodFiles, TypeOK, File

\* A step that leaves the files, the position and the counters alone, or ends
\* the process, keeps the invariant; so does one that only touches the rest.
LEMMA FilesUntouched ==
  ASSUME TypeInv, BoundInv, UNCHANGED <<partial, final, rid>>, next' = next,
         \/ pc' = "down" /\ pending' = 0
         \/ /\ pc' # "open" /\ pc # "down" /\ pending' \in {pending, 0}
            /\ idx' \in {idx, idx + 1}
  PROVE  BoundInv'
<1> USE DEF BoundInv
<1>1. GoodFiles'
  BY GoodFilesStay DEF TypeInv
<1>2. CountersBound'
  BY DEF CountersBound
<1>3. AheadIsEmpty'
  BY DEF AheadIsEmpty, TypeInv, TypeOK
<1>4. PendingSize'
  BY DEF PendingSize
<1>5. QED
  BY <1>1, <1>2, <1>3, <1>4

LEMMA BoundStep ==
  ASSUME TypeInv, BoundInv, [Next]_vars
  PROVE  BoundInv'
<1> USE ShardAssumption DEF TypeInv, TypeOK, RotationRoom, OpenExists, BoundInv
<1>0. pc # "down" => Cur \in Slots
  BY DEF Slots, Cur
<1>a. \A sl \in Slots : /\ partial[sl] # Absent => partial[sl] \in Seq(Entry)
                        /\ final[sl] # Absent => final[sl] \in Seq(Entry)
  BY DEF File
<1>b. pc = "open" => Shard \in Seq(Entry) /\ partial[Cur] # Absent
  BY DEF Shard, File
<1>1. ASSUME NEW r \in 1..MaxRuns, Start(r) PROVE BoundInv'
  <2>1. PICK i \in 0..MaxIdx : idx' = i /\ OpenShard(<<r, i>>) /\ IsRecoveredIdx(r, i)
    BY <1>1 DEF Start
  <2> DEFINE sl == <<r, i>>
             f == Created(partial[sl])
  <2>2. sl \in Slots /\ Cur' = sl
    BY <1>1, <2>1 DEF Slots, Start, Cur
  <2>3. f \in Seq(Entry) /\ Good(f, next)
    BY <1>a, <2>2, GoodEmpty DEF Created, GoodFiles
  <2>4. partial' = [partial EXCEPT ![sl] = f] /\ partial'[sl] = f /\ UNCHANGED <<final, next>>
    BY <1>1, <2>1, <2>2 DEF OpenShard, Start
  <2>5. GoodFiles'
    BY <2>2, <2>3, <2>4 DEF GoodFiles
  <2>6. Shard' = f
    BY <2>1, <2>2, <2>3, <2>4 DEF Shard, OpenShard
  <2>7. FileSize(f) \div BytesPerRecord >= Len(f)
    BY <2>3, EstimateIsEnough
  <2>8. bytes' = FileSize(f) /\ records' = FileSize(f) \div BytesPerRecord
    BY <2>1, <2>4 DEF OpenShard
  <2>9. CountersBound'
    BY <2>3, <2>4, <2>6, <2>7, <2>8 DEF CountersBound
  <2>10. ASSUME NEW k \in (i + 1)..MaxIdx PROVE partial'[<<r, k>>] = Absent /\ final'[<<r, k>>] = Absent
    <3>1. k \notin Existing(r) /\ k \in 0..MaxIdx
      BY <2>1 DEF IsRecoveredIdx, Existing
    <3>2. partial[<<r, k>>] = Absent /\ final[<<r, k>>] = Absent
      BY <3>1 DEF Existing
    <3>3. <<r, k>> \in Slots /\ <<r, k>> # sl
      BY <3>1 DEF Slots
    <3>4. QED
      BY <2>4, <3>2, <3>3
  <2>11. rid' = r /\ idx' = i /\ pending' = pending
    BY <1>1, <2>1 DEF Start
  <2>12. AheadIsEmpty'
    BY <2>10, <2>11 DEF AheadIsEmpty
  <2>13. PendingSize'
    BY <2>11 DEF PendingSize
  <2>14. QED
    BY <2>5, <2>9, <2>12, <2>13
<1>2. ASSUME NEW n \in Sizes, Write(n) PROVE BoundInv'
  <2> DEFINE e == [id |-> next, end |-> bytes + n]
  <2>1. n \in Nat /\ n >= BytesPerRecord
    OBVIOUS
  <2>2. /\ UNCHANGED <<partial, final, pc, rid, idx, pending>>
        /\ pc = "open" /\ next' = next + 1
        /\ buffer' = Append(buffer, e)
        /\ bytes' = bytes + n
        /\ records' = records + 1
    BY <1>2 DEF Write, files
  <2>3. records < MaxRecords /\ bytes + n < MaxBytes
    BY <1>2, <2>1 DEF Write, NeedsRotation
  <2>4. e \in Entry
    BY <2>1 DEF Entry
  <2>5. /\ Shard \in Seq(Entry) /\ Good(Shard, next)
        /\ bytes = FileSize(Shard) /\ records >= Len(Shard)
        /\ partial[Cur] \in Seq(Entry)
    BY <1>b, <2>2 DEF CountersBound
  <2>6. Shard' = Append(Shard, e)
    BY <2>2, <2>4, <2>5, AppendToConcat DEF Shard, Cur
  <2>7. Good(Shard', next')
    <3>1. Len(Shard) < MaxRecords /\ FileSize(Shard) + n < MaxBytes
      BY <2>3, <2>5
    <3>2. e = [id |-> next, end |-> FileSize(Shard) + n]
      BY <2>5
    <3>3. Good(Append(Shard, e), next + 1)
      BY <2>1, <2>4, <2>5, <3>1, <3>2, GoodAppend
    <3>4. QED
      BY <2>2, <2>6, <3>3
  <2>8. bytes' = FileSize(Shard') /\ records' >= Len(Shard')
    <3>1. FileSize(Append(Shard, e)) = bytes + n
      BY <2>4, <2>5, FileSizeOfAppend
    <3>2. Len(Append(Shard, e)) = Len(Shard) + 1
      BY <2>4, <2>5
    <3>3. QED
      BY <2>2, <2>5, <2>6, <3>1, <3>2
  <2>9. GoodFiles'
    BY <2>2, GoodFilesStay
  <2>10. CountersBound'
    BY <2>7, <2>8 DEF CountersBound
  <2>11. AheadIsEmpty' /\ PendingSize'
    BY <2>2 DEF AheadIsEmpty, PendingSize
  <2>12. QED
    BY <2>9, <2>10, <2>11
<1>3. ASSUME NEW n, pc = "open", FlushForClose(n), n # 0 => n \in Sizes
      PROVE  BoundInv'
  <2>1. /\ UNCHANGED <<final, rid, idx, next>>
        /\ pc' = "flushed" /\ pending' = n
        /\ partial' = [partial EXCEPT ![Cur] = Shard] \/ partial' = partial
    BY <1>3 DEF FlushForClose, Shard
  <2>2. Shard # Absent /\ Good(Shard, next)
    BY <1>3, <1>b DEF CountersBound
  <2>3. GoodFiles'
    BY <1>0, <2>1, <2>2 DEF GoodFiles
  <2>4. \A i \in (idx + 1)..MaxIdx : <<rid, i>> # Cur
    BY DEF Cur
  <2>5. AheadIsEmpty'
    BY <1>3, <2>1, <2>4 DEF AheadIsEmpty, Slots
  <2>6. CountersBound' /\ PendingSize'
    BY <1>3, <2>1 DEF CountersBound, PendingSize
  <2>7. QED
    BY <2>3, <2>5, <2>6
<1>4. ASSUME NEW n \in Sizes, BeginRotate(n) PROVE BoundInv'
  BY <1>3, <1>4 DEF BeginRotate
<1>5. CASE Close
  BY <1>3, <1>5 DEF Close
<1>6. ASSUME pc = "open", UNCHANGED <<final, pc, rid, idx, records, bytes, pending, next>>,
             NEW f \in Seq(Entry), NEW g \in Seq(Entry), f \o g = Shard,
             partial' = [partial EXCEPT ![Cur] = f], buffer' = g
      PROVE  BoundInv'
  <2>1. Good(Shard, next) /\ Good(f, next)
    BY <1>6, GoodPrefix DEF CountersBound
  <2>2. Shard' = Shard
    BY <1>0, <1>6 DEF Shard, Cur
  <2>3. GoodFiles'
    BY <1>0, <1>6, <2>1 DEF GoodFiles
  <2>4. CountersBound'
    BY <1>6, <2>2 DEF CountersBound
  <2>5. \A i \in (idx + 1)..MaxIdx : <<rid, i>> # Cur
    BY DEF Cur
  <2>6. AheadIsEmpty' /\ PendingSize'
    BY <1>6, <2>5 DEF AheadIsEmpty, PendingSize, Slots
  <2>7. QED
    BY <2>3, <2>4, <2>6
<1>7. CASE Spill
  <2>1. Append(partial[Cur], Head(buffer)) \in Seq(Entry) /\ Tail(buffer) \in Seq(Entry)
    BY <1>7 DEF Spill
  <2>2. Append(partial[Cur], Head(buffer)) \o Tail(buffer) = Shard
    BY <1>7, SpillKeepsShard DEF Spill, Shard
  <2>3. QED
    BY <1>6, <1>7, <2>1, <2>2 DEF Spill
<1>8. CASE Flush
  <2>1. Shard \in Seq(Entry) /\ <<>> \in Seq(Entry) /\ Shard \o <<>> = Shard
    BY <1>b, <1>8 DEF Flush
  <2>2. partial' = [partial EXCEPT ![Cur] = Shard]
    BY <1>8 DEF Flush, Shard
  <2>3. QED
    BY <1>6, <1>8, <2>1, <2>2 DEF Flush
<1>9. CASE Rename
  <2>1. /\ final' = [final EXCEPT ![Cur] = partial[Cur]]
        /\ partial' = [partial EXCEPT ![Cur] = Absent]
        /\ UNCHANGED <<rid, idx, pending, next>>
        /\ pc = "flushed" /\ pc' = "renamed"
    BY <1>9 DEF Rename, memory
  <2>2. GoodFiles'
    BY <1>0, <2>1 DEF GoodFiles, File
  <2>3. \A i \in (idx + 1)..MaxIdx : <<rid, i>> # Cur
    BY DEF Cur
  <2>4. AheadIsEmpty'
    BY <2>1, <2>3 DEF AheadIsEmpty, Slots
  <2>5. CountersBound' /\ PendingSize'
    BY <2>1 DEF CountersBound, PendingSize
  <2>6. QED
    BY <2>2, <2>4, <2>5
<1>10. CASE RenameFails
  BY <1>10, FilesUntouched DEF RenameFails, files, memory, AfterClose
<1>11. CASE Seal
  BY <1>11, FilesUntouched DEF Seal, AfterClose
<1>12. CASE SealFails
  BY <1>12, FilesUntouched DEF SealFails, files, memory, AfterClose
<1>13. CASE Reopen
  <2> DEFINE sl == <<rid, idx + 1>>
             e == [id |-> next, end |-> pending]
  <2>1. pc = "sealed" /\ pending \in Sizes /\ idx + 1 \in (idx + 1)..MaxIdx
    BY <1>13 DEF Reopen, PendingSize
  <2>2. sl \in Slots /\ partial[sl] = Absent
    BY <2>1 DEF AheadIsEmpty, Slots
  <2>3. /\ partial' = [partial EXCEPT ![sl] = <<>>]
        /\ Cur' = sl /\ idx' = idx + 1 /\ rid' = rid
        /\ buffer' = <<e>> /\ bytes' = pending /\ records' = 1
        /\ next' = next + 1 /\ pending' = 0 /\ final' = final
    <3>1. FileSize(Created(partial[sl])) = 0 /\ 0 \div BytesPerRecord = 0
      BY <2>2, GoodEmpty DEF Created, BytesPerRecord
    <3>2. QED
      BY <1>13, <2>1, <2>2, <3>1 DEF Reopen, Cur, Created
  <2>4. e \in Entry /\ pending \in Nat /\ pending >= BytesPerRecord
    BY <2>1 DEF Entry
  <2>5. Append(<<>>, e) = <<e>> /\ <<>> \in Seq(Entry)
    OBVIOUS
  <2>6. Good(<<>>, next) /\ FileSize(<<>>) = 0
    BY GoodEmpty
  <2>7. Good(<<e>>, next + 1)
    <3>1. Len(<<>>) < MaxRecords /\ e = [id |-> next, end |-> FileSize(<<>>) + pending]
      BY <2>4, <2>6
    <3>2. Good(Append(<<>>, e), next + 1)
      BY <2>1, <2>4, <2>5, <2>6, <3>1, GoodAppend
    <3>3. QED
      BY <2>5, <3>2
  <2>8. FileSize(<<e>>) = pending /\ Len(<<e>>) = 1
    BY <2>4, <2>5, FileSizeOfAppend
  <2>9. Shard' = <<e>>
    BY <2>2, <2>3, <2>4 DEF Shard
  <2>10. CountersBound'
    BY <2>3, <2>7, <2>8, <2>9 DEF CountersBound
  <2>11. \A t \in Slots : /\ partial[t] # Absent => Good(partial[t], next + 1)
                          /\ final[t] # Absent => Good(final[t], next + 1)
    BY <1>a, GoodStays DEF GoodFiles
  <2>12. Good(<<>>, next + 1)
    BY GoodEmpty
  <2>13. GoodFiles'
    BY <2>2, <2>3, <2>11, <2>12 DEF GoodFiles
  <2>14. \A i \in (idx' + 1)..MaxIdx : <<rid, i>> # sl /\ i \in (idx + 1)..MaxIdx
    BY <2>3
  <2>15. AheadIsEmpty' /\ PendingSize'
    BY <2>1, <2>3, <2>14 DEF AheadIsEmpty, PendingSize, Slots
  <2>16. QED
    BY <2>10, <2>13, <2>15
<1>14. CASE ReopenFails
  BY <1>14, FilesUntouched DEF ReopenFails, files
<1>15. CASE ProcessEnds
  BY <1>15, FilesUntouched DEF ProcessEnds, files
<1>16. CASE UNCHANGED vars
  BY <1>16 DEF vars, GoodFiles, CountersBound, AheadIsEmpty, PendingSize, Shard, Cur
<1>17. QED
  BY <1>1, <1>2, <1>4, <1>5, <1>7, <1>8, <1>9, <1>10, <1>11, <1>12, <1>13,
     <1>14, <1>15, <1>16 DEF Next

LEMMA BoundInvariant == Spec => []BoundInv
<1>1. Init => BoundInv
  BY DEF Init, BoundInv, GoodFiles, CountersBound, AheadIsEmpty, PendingSize
<1>2. TypeInv /\ BoundInv /\ [Next]_vars => BoundInv'
  BY BoundStep
<1>3. QED
  BY <1>1, <1>2, TypeInvariant, PTL DEF Spec

\* Whatever crashes, failing calls and recoveries a source directory has seen,
\* no shard has more than max_shard_records records, and only the first record
\* of a shard can take it to max_shard_bytes.
THEOREM Bounded == Spec => []ShardsBounded
<1>1. TypeInv /\ BoundInv => ShardsBounded
  BY DEF BoundInv, GoodFiles, Good, ShardsBounded, WithinLimits
<1>2. QED
  BY <1>1, TypeInvariant, BoundInvariant, PTL

\* Whatever crashes, lost buffers and recoveries a file has seen, each of its
\* records begins where the one in front of it ends, and none stands twice or
\* out of order.
THEOREM FilesWellFormed == Spec => []WellFormed
<1>1. TypeInv /\ BoundInv => WellFormed
  <2> SUFFICES ASSUME NEW f, Good(f, next), f \in Seq(Entry) PROVE Contiguous(f)
    BY DEF BoundInv, GoodFiles, WellFormed, TypeInv, TypeOK, File, Contiguous
  <2>1. QED
    BY DEF Good, Contiguous
<1>2. QED
  BY <1>1, TypeInvariant, BoundInvariant, PTL

-----------------------------------------------------------------------------
(***************************************************************************)
(* Completed shards, for processes that each get a run id of their own.    *)
(* The invariant says where the writer has not been yet: no later run has  *)
(* files, no later slot of this run has, and the slot being written is     *)
(* neither completed nor sealed before the step that does it.              *)
(***************************************************************************)
Untouched(sl) == partial[sl] = Absent /\ final[sl] = Absent /\ sidecar[sl] = Absent

Frontier ==
    /\ \A r \in (rid + 1)..MaxRuns, i \in 0..MaxIdx : Untouched(<<r, i>>)
    /\ pc # "down" => \A i \in (idx + 1)..MaxIdx : Untouched(<<rid, i>>)
    /\ pc \in {"open", "flushed"} => final[Cur] = Absent
    /\ pc \in {"open", "flushed", "renamed"} => sidecar[Cur] = Absent
    /\ pc = "renamed" => final[Cur] # Absent

SealInv == Frontier /\ SidecarsTrue

LEMMA SealStep ==
  ASSUME ~ReuseRunIds, TypeInv, SealInv, [Next]_vars
  PROVE  /\ SealInv'
         /\ \A sl \in Slots : /\ final[sl] # Absent => final'[sl] = final[sl]
                              /\ sidecar[sl] # Absent => sidecar'[sl] = sidecar[sl]
<1> DEFINE Stable == \A sl \in Slots : /\ final[sl] # Absent => final'[sl] = final[sl]
                                       /\ sidecar[sl] # Absent => sidecar'[sl] = sidecar[sl]
<1> USE ShardAssumption DEF TypeInv, TypeOK, RotationRoom, OpenExists, SealInv
<1>0. /\ pc # "down" => Cur \in Slots
      /\ \A i \in (idx + 1)..MaxIdx : <<rid, i>> # Cur
      /\ \A r \in (rid + 1)..MaxRuns, i \in 0..MaxIdx : <<r, i>> # Cur
  BY DEF Slots, Cur
<1>1. ASSUME NEW r \in 1..MaxRuns, Start(r) PROVE SealInv' /\ Stable
  <2>1. r = rid + 1 /\ rid' = r /\ UNCHANGED <<final, sidecar>> /\ pc' = "open"
    BY <1>1 DEF Start
  <2>2. \A i \in 0..MaxIdx : Untouched(<<r, i>>) /\ <<r, i>> \in Slots
    BY <2>1 DEF Frontier, Slots
  <2>3. completed' = {}
    BY <1>1, <2>1, <2>2 DEF Start, Untouched
  <2>4. PICK i \in 0..MaxIdx : idx' = i /\ OpenShard(<<r, i>>)
    BY <1>1 DEF Start
  <2>5. partial' = [partial EXCEPT ![<<r, i>>] = <<>>]
    BY <2>2, <2>4 DEF OpenShard, Created, Untouched
  <2>6. Frontier'
    <3>0. ASSUME NEW sl \in Slots, sl # <<r, i>>, Untouched(sl) PROVE Untouched(sl)'
      BY <2>1, <2>5, <3>0 DEF Untouched
    <3>1. ASSUME NEW q \in (rid' + 1)..MaxRuns, NEW k \in 0..MaxIdx
          PROVE  Untouched(<<q, k>>)'
      <4>1. q \in (rid + 1)..MaxRuns /\ q # r /\ <<q, k>> \in Slots
        BY <2>1 DEF Slots
      <4>2. <<q, k>> # <<r, i>> /\ Untouched(<<q, k>>)
        BY <4>1 DEF Frontier
      <4>3. QED
        BY <3>0, <4>1, <4>2
    <3>2. ASSUME NEW k \in (idx' + 1)..MaxIdx PROVE Untouched(<<rid, k>>)'
      <4>1. k \in 0..MaxIdx /\ k # i
        BY <2>4
      <4>2. <<r, k>> # <<r, i>> /\ <<r, k>> \in Slots /\ Untouched(<<r, k>>)
        BY <2>2, <4>1
      <4>3. Untouched(<<r, k>>)'
        BY <3>0, <4>2
      <4>4. QED
        BY <2>1, <4>3 DEF Untouched
    <3>3. final'[Cur'] = Absent /\ sidecar'[Cur'] = Absent
      BY <2>1, <2>2, <2>4 DEF Cur, Untouched
    <3>4. pc' = "open"
      BY <2>1
    <3>5. /\ \A q \in (rid' + 1)..MaxRuns, k \in 0..MaxIdx : Untouched(<<q, k>>)'
          /\ \A k \in (idx' + 1)..MaxIdx : Untouched(<<rid, k>>)'
      BY <3>1, <3>2
    <3>6. QED
      BY <3>3, <3>4, <3>5 DEF Frontier, Untouched
  <2>7. SidecarsTrue' /\ Stable
    BY <2>1, <2>3 DEF SidecarsTrue
  <2>8. QED
    BY <2>6, <2>7
<1>2. ASSUME UNCHANGED <<final, sidecar, rid, idx, completed>>,
             pc = "open", pc' \in {"open", "flushed"},
             \/ partial' = partial
             \/ \E f : partial' = [partial EXCEPT ![Cur] = f]
      PROVE  SealInv' /\ Stable
  <2>1. \A sl \in Slots : sl # Cur => partial'[sl] = partial[sl]
    BY <1>2
  <2>2. Frontier'
    BY <1>0, <1>2, <2>1 DEF Frontier, Untouched, Cur, Slots
  <2>3. SidecarsTrue' /\ Stable
    BY <1>2 DEF SidecarsTrue
  <2>4. QED
    BY <2>2, <2>3
<1>3. ASSUME NEW n, pc = "open", FlushForClose(n) PROVE SealInv' /\ Stable
  BY <1>2, <1>3 DEF FlushForClose
<1>4. ASSUME NEW n \in Sizes, Write(n) \/ BeginRotate(n) PROVE SealInv' /\ Stable
  BY <1>2, <1>3, <1>4 DEF Write, BeginRotate, files
<1>5. CASE Close
  BY <1>3, <1>5 DEF Close
<1>6. CASE Spill \/ Flush
  BY <1>2, <1>6 DEF Spill, Flush
<1>7. CASE Rename
  <2>1. /\ pc = "flushed" /\ pc' = "renamed"
        /\ UNCHANGED <<sidecar, rid, idx, completed>>
        /\ final' = [final EXCEPT ![Cur] = partial[Cur]]
        /\ partial' = [partial EXCEPT ![Cur] = Absent]
        /\ partial[Cur] # Absent /\ final[Cur] = Absent /\ sidecar[Cur] = Absent
    BY <1>7 DEF Rename, memory, Frontier
  <2>2. Frontier'
    BY <1>0, <2>1 DEF Frontier, Untouched, Cur, Slots
  <2>3. SidecarsTrue'
    BY <1>0, <2>1 DEF SidecarsTrue
  <2>4. Stable
    BY <1>0, <2>1
  <2>5. QED
    BY <2>2, <2>3, <2>4
<1>8. CASE Seal
  <2>1. /\ pc = "renamed" /\ pc' \in {"closed", "sealed"}
        /\ UNCHANGED <<partial, final, rid, idx>>
        /\ sidecar' = [sidecar EXCEPT ![Cur] = final[Cur]]
        /\ completed' = completed \cup {Cur}
        /\ final[Cur] # Absent /\ sidecar[Cur] = Absent
    BY <1>8 DEF Seal, AfterClose, Frontier
  <2>2. Frontier'
    BY <1>0, <2>1 DEF Frontier, Untouched, Cur, Slots
  <2>3. SidecarsTrue'
    BY <1>0, <2>1 DEF SidecarsTrue
  <2>4. Stable
    BY <1>0, <2>1
  <2>5. QED
    BY <2>2, <2>3, <2>4
<1>9. CASE Reopen
  <2> DEFINE sl == <<rid, idx + 1>>
  <2>1. idx + 1 \in (idx + 1)..MaxIdx /\ sl \in Slots
    BY <1>9 DEF Reopen, Slots
  <2>2. /\ pc = "sealed" /\ pc' = "open" /\ idx' = idx + 1
        /\ UNCHANGED <<final, sidecar, rid, completed>>
        /\ Untouched(sl) /\ Cur' = sl
        /\ partial' = [partial EXCEPT ![sl] = Created(@)]
    BY <1>9, <2>1 DEF Reopen, Frontier, Cur
  <2>3. \A t \in Slots : t # sl => partial'[t] = partial[t]
    BY <2>2
  <2>4. Frontier'
    BY <2>1, <2>2, <2>3 DEF Frontier, Untouched, Slots
  <2>5. SidecarsTrue' /\ Stable
    BY <2>2 DEF SidecarsTrue
  <2>6. QED
    BY <2>4, <2>5
<1>10. ASSUME UNCHANGED <<files, rid>>, pc' \in {"down", "closed", "sealed"},
              \/ pc' = "down" /\ completed' = {}
              \/ pc # "down" /\ idx' \in {idx, idx + 1} /\ completed' = completed
       PROVE  SealInv' /\ Stable
  <2>1. Frontier'
    BY <1>10 DEF Frontier, Untouched, files
  <2>2. SidecarsTrue' /\ Stable
    BY <1>10 DEF SidecarsTrue, files
  <2>3. QED
    BY <2>1, <2>2
<1>11. CASE RenameFails \/ SealFails \/ ReopenFails \/ ProcessEnds
  BY <1>10, <1>11 DEF RenameFails, SealFails, ReopenFails, ProcessEnds, memory, files, AfterClose
<1>12. CASE UNCHANGED vars
  BY <1>12 DEF vars, Frontier, Untouched, SidecarsTrue, Cur
<1>13. QED
  BY <1>1, <1>4, <1>5, <1>6, <1>7, <1>8, <1>9, <1>11, <1>12 DEF Next

LEMMA SealInvariant == ASSUME ~ReuseRunIds PROVE Spec => []SealInv
<1>1. Init => SealInv
  BY DEF Init, SealInv, Frontier, Untouched, SidecarsTrue, Slots
<1>2. TypeInv /\ SealInv /\ [Next]_vars => SealInv'
  BY SealStep
<1>3. QED
  BY <1>1, <1>2, TypeInvariant, PTL DEF Spec

\* No sidecar of a directory whose runs have distinct ids vouches for content
\* its shard does not have, however the runs ended.
THEOREM SidecarsAreTrue == ASSUME ~ReuseRunIds PROVE Spec => []SidecarsTrue
BY SealInvariant, PTL DEF SealInv

\* When every process has a run id of its own, no shard that was ever renamed
\* into place is touched again.
THEOREM CompletedImmutable == ASSUME ~ReuseRunIds PROVE Spec => CompletedStable
<1>1. TypeInv /\ SealInv /\ [Next]_vars =>
        [\A sl \in Slots : /\ final[sl] # Absent => final'[sl] = final[sl]
                           /\ sidecar[sl] # Absent => sidecar'[sl] = sidecar[sl]]_vars
  BY SealStep
<1>2. QED
  BY <1>1, TypeInvariant, SealInvariant, PTL DEF Spec, CompletedStable

-----------------------------------------------------------------------------
(***************************************************************************)
(* The writer implements DurableLog, when every process has a run id of    *)
(* its own.  Stored joins the slots in the order of SlotAt.  First what    *)
(* FlattenSeq and SlotAt do; then that a step only adds to the newest slot *)
(* (Frontier), and what was added is what left the buffer.                 *)
(***************************************************************************)

\* A set of natural numbers that is not empty has a least element.
LEMMA LeastExists ==
  ASSUME NEW I \in SUBSET Nat, I # {}
  PROVE  \E x \in I : \A y \in I : x =< y
<1> DEFINE R == OpToRel(<, Nat)
<1>1. PICK x \in I : \A y \in I : <<y, x>> \notin R
  <2>1. IsWellFoundedOn(R, Nat)
    BY NatLessThanWellFounded
  <2> HIDE DEF R
  <2>2. QED
    BY <2>1, WFMin
<1>2. \A y \in I : ~(y < x)
  BY <1>1 DEF OpToRel
<1>3. QED
  BY <1>2

\* FlattenSeq joins the first i parts of t, for each i; Joins(f, t, n) says that
\* f has the first n results, and the recursive function is one of this kind.
Join(f, t, i) == IF i = 1 THEN t[i] ELSE f[i - 1] \o t[i]
Upto(t) == CHOOSE f : f = [i \in 1..Len(t) |-> Join(f, t, i)]
Joins(f, t, n) == f = [i \in 1..n |-> Join(f, t, i)]

LEMMA FlattenIsUpto ==
  ASSUME NEW t, Len(t) # 0
  PROVE  FlattenSeq(t) = Upto(t)[Len(t)]
BY DEF FlattenSeq, Upto, Join


\* Quotients and remainders.
LEMMA Division ==
  /\ \A w \in Nat \ {0}, x \in Nat : /\ x \div w \in Nat /\ x % w \in 0..(w - 1)
                                     /\ x = (x \div w) * w + (x % w)
  /\ \A w \in Nat \ {0} : \A a \in Nat, b \in 0..(w - 1) :
        (a * w + b) \div w = a /\ (a * w + b) % w = b
  /\ \A w \in Nat, a \in Nat, b \in Nat : a < b => a * w + w =< b * w
<1>1. ASSUME NEW w \in Nat \ {0}, NEW x \in Nat
      PROVE  x \div w \in Nat /\ x % w \in 0..(w - 1) /\ x = (x \div w) * w + (x % w)
  OBVIOUS
<1>2. ASSUME NEW w \in Nat \ {0}, NEW a \in Nat, NEW b \in 0..(w - 1)
      PROVE  (a * w + b) \div w = a /\ (a * w + b) % w = b
  OBVIOUS
<1>3. ASSUME NEW w \in Nat, NEW a \in Nat, NEW b \in Nat, a < b
      PROVE  a * w + w =< b * w
  <2>1. (a + 1) * w =< b * w
    BY <1>3
  <2>2. QED
    BY <2>1
<1>4. QED
  BY <1>1, <1>2, <1>3

\* The slots after sl in the order in which processes and rotations reach them.
After(sl) == {t \in Slots : sl[1] < t[1] \/ (sl[1] = t[1] /\ sl[2] < t[2])}

Places == 1..(MaxRuns * Width)

\* SlotAt numbers the slots in that order.
LEMMA Numbering ==
  /\ \A k \in Places : SlotAt(k) \in Slots
  /\ \A sl \in Slots : \E k \in Places : SlotAt(k) = sl
  /\ \A k, m \in Places : k < m => SlotAt(m) \in After(SlotAt(k))
<1> DEFINE N == MaxRuns * Width
           q(k) == (k - 1) \div Width
           r(k) == (k - 1) % Width
<1>1. /\ Width \in Nat \ {0} /\ MaxRuns \in Nat /\ N \in Nat /\ MaxIdx \in Nat
      /\ Width = MaxIdx + 1 /\ 0 \in Nat
  BY ShardAssumption DEF Width
<1>2. ASSUME NEW k \in Places
      PROVE  q(k) \in Nat /\ r(k) \in 0..(Width - 1) /\ k - 1 = q(k) * Width + r(k)
  <2>1. k - 1 \in Nat
    BY <1>1 DEF Places
  <2>2. QED
    BY <1>1, <2>1, Division
<1>3. ASSUME NEW k \in Places PROVE q(k) < MaxRuns
  <2> SUFFICES ASSUME MaxRuns =< q(k) PROVE FALSE
    BY <1>1, <1>2
  <2>1. MaxRuns * Width =< q(k) * Width
    <3>1. MaxRuns = q(k) \/ MaxRuns < q(k)
      BY <1>1, <1>2
    <3>2. MaxRuns < q(k) => MaxRuns * Width + Width =< q(k) * Width
      BY <1>1, <1>2, Division
    <3>3. q(k) * Width \in Nat
      BY <1>1, <1>2
    <3> HIDE DEF q, r
    <3>4. QED
      BY <1>1, <3>1, <3>2, <3>3
  <2>2. q(k) * Width \in Nat /\ k \in 1..N
    BY <1>1, <1>2 DEF Places
  <2> HIDE DEF q, r
  <2>3. QED
    BY <1>1, <1>2, <2>1, <2>2
<1>4. ASSUME NEW k \in Places PROVE SlotAt(k) = <<q(k) + 1, r(k)>>
  BY DEF SlotAt
<1>5. \A k \in Places : SlotAt(k) \in Slots
  <2> SUFFICES ASSUME NEW k \in Places PROVE SlotAt(k) \in Slots
    OBVIOUS
  <2>1. q(k) + 1 \in 1..MaxRuns /\ r(k) \in 0..MaxIdx
    BY <1>1, <1>2, <1>3
  <2> HIDE DEF q, r
  <2>2. QED
    BY <1>4, <2>1 DEF Slots
<1>6. ASSUME NEW sl \in Slots PROVE \E k \in Places : SlotAt(k) = sl
  <2>1. PICK a \in 1..MaxRuns, b \in 0..MaxIdx : sl = <<a, b>>
    BY DEF Slots
  <2> DEFINE k == (a - 1) * Width + b + 1
  <2>2. a - 1 \in Nat /\ b \in 0..(Width - 1) /\ b \in Nat
    BY <1>1
  <2>3. (a - 1) * Width + Width =< N /\ (a - 1) * Width \in Nat
    BY <1>1, <2>2, Division
  <2>4. k \in Places /\ k - 1 = (a - 1) * Width + b
    <3>1. (a - 1) * Width + b + 1 =< N
      BY <1>1, <2>2, <2>3
    <3>2. QED
      BY <1>1, <2>2, <2>3, <3>1 DEF Places
  <2>5. ((a - 1) * Width + b) \div Width = a - 1 /\ ((a - 1) * Width + b) % Width = b
    BY <1>1, <2>2, Division
  <2> HIDE DEF k
  <2>6. q(k) = a - 1 /\ r(k) = b
    BY <2>4, <2>5
  <2> HIDE DEF q, r
  <2>7. q(k) + 1 = a
    BY <1>1, <2>2, <2>6
  <2>8. QED
    BY <1>4, <2>1, <2>4, <2>6, <2>7
<1>7. ASSUME NEW k \in Places, NEW m \in Places, k < m
      PROVE  SlotAt(m) \in After(SlotAt(k))
  <2>0. /\ k \in Nat /\ m \in Nat /\ q(k) * Width \in Nat /\ q(m) * Width \in Nat
        /\ q(k) \in Nat /\ q(m) \in Nat
    BY <1>1, <1>2 DEF Places
  <2>1. ~(q(m) < q(k))
    <3> SUFFICES ASSUME q(m) < q(k) PROVE FALSE
      OBVIOUS
    <3>1. q(m) * Width + Width =< q(k) * Width
      BY <1>1, <1>2, Division
    <3> HIDE DEF q, r
    <3>2. QED
      BY <1>1, <1>2, <1>7, <2>0, <3>1
  <2> HIDE DEF q, r
  <2>2. q(k) = q(m) => r(k) < r(m)
    BY <1>1, <1>2, <1>7, <2>0
  <2>3. q(k) < q(m) \/ (q(k) = q(m) /\ r(k) < r(m))
    BY <2>0, <2>1, <2>2
  <2>4. /\ SlotAt(k)[1] = q(k) + 1 /\ SlotAt(k)[2] = r(k)
        /\ SlotAt(m)[1] = q(m) + 1 /\ SlotAt(m)[2] = r(m)
    BY <1>4
  <2>5. QED
    BY <1>2, <1>5, <2>3, <2>4 DEF After
<1>8. QED
  BY <1>5, <1>6, <1>7

-----------------------------------------------------------------------------
LEMMA UptoJoins ==
  ASSUME NEW t \in Seq(Seq(Nat)), Len(t) # 0
  PROVE  Joins(Upto(t), t, Len(t))
<1> DEFINE Bad == {n \in 1..Len(t) : ~ \E f : Joins(f, t, n)}
<1>0. Len(t) \in Nat
  OBVIOUS
<1>1. CASE Bad = {}
  <2>1. Len(t) \in 1..Len(t)
    BY <1>0
  <2>2. \E f : Joins(f, t, Len(t))
    BY <1>1, <2>1
  <2>3. QED
    BY <2>2 DEF Joins, Upto
<1>2. CASE Bad # {}
  <2>1. PICK n \in Bad : \A m \in Bad : n =< m
    <3>1. Bad \in SUBSET Nat
      BY <1>0
    <3> HIDE DEF Bad
    <3>2. QED
      BY <1>2, <3>1, LeastExists
  <2>2. n \in 1..Len(t) /\ ~ \E f : Joins(f, t, n)
    OBVIOUS
  <2>3. n # 1
    <3> DEFINE f == [i \in 1..1 |-> t[1]]
    <3>1. Joins(f, t, 1)
      BY DEF Joins, Join
    <3>2. QED
      BY <2>2, <3>1
  <2>4. n - 1 \in 1..Len(t) /\ ~(n =< n - 1) /\ n \in Nat
    BY <1>0, <2>2, <2>3
  <2>5. n - 1 \notin Bad
    <3> HIDE DEF Bad
    <3>1. QED
      BY <2>1, <2>4
  <2>6. PICK f : Joins(f, t, n - 1)
    BY <2>4, <2>5
  <2> DEFINE g == [i \in 1..n |-> IF i = n THEN f[n - 1] \o t[n] ELSE f[i]]
  <2>7. \A i \in 1..n : g[i] = Join(g, t, i)
    <3> SUFFICES ASSUME NEW i \in 1..n PROVE g[i] = Join(g, t, i)
      OBVIOUS
    <3>1. CASE i = n
      <4>1. g[n] = f[n - 1] \o t[n] /\ g[n - 1] = f[n - 1]
        <5>1. n \in 1..n /\ n - 1 \in 1..n /\ n - 1 # n
          BY <2>2, <2>3, <2>4
        <5>2. QED
          BY <5>1
      <4> HIDE DEF g
      <4>2. QED
        BY <2>3, <3>1, <4>1 DEF Join
    <3>2. CASE i # n
      <4>1. i \in 1..(n - 1) /\ (i # 1 => i - 1 \in 1..(n - 1))
        BY <2>4, <3>2
      <4>2. g[i] = f[i] /\ (i # 1 => g[i - 1] = f[i - 1])
        BY <2>4, <3>2, <4>1
      <4>3. f[i] = Join(f, t, i)
        BY <2>6, <4>1 DEF Joins
      <4> HIDE DEF g
      <4>4. QED
        BY <4>2, <4>3 DEF Join
    <3>3. QED
      BY <3>1, <3>2
  <2>8. Joins(g, t, n)
    BY <2>7 DEF Joins
  <2>9. QED
    BY <2>2, <2>8
<1>3. QED
  BY <1>1, <1>2

\* What FlattenSeq of a sequence of sequences is: the last of the joined parts.
Flattens(f, t) ==
  /\ f \in [1..Len(t) -> Seq(Nat)]
  /\ f[1] = t[1]
  /\ \A i \in 2..Len(t) : f[i] = f[i - 1] \o t[i]
  /\ FlattenSeq(t) = f[Len(t)]

LEMMA Flattened ==
  ASSUME NEW t \in Seq(Seq(Nat)), Len(t) # 0
  PROVE  \E f : Flattens(f, t)
<1> DEFINE f == Upto(t)
           Bad == {n \in 1..Len(t) : f[n] \notin Seq(Nat)}
<1>0. Len(t) \in Nat \ {0} /\ \A i \in 1..Len(t) : t[i] \in Seq(Nat)
  OBVIOUS
<1>1. f = [i \in 1..Len(t) |-> Join(f, t, i)]
  BY UptoJoins DEF Joins
<1> HIDE DEF f
<1>2. f[1] = t[1]
  BY <1>0, <1>1 DEF Join
<1>3. ASSUME NEW i \in 2..Len(t) PROVE f[i] = f[i - 1] \o t[i]
  <2>1. i \in 1..Len(t) /\ i # 1
    BY <1>0
  <2>2. QED
    BY <1>1, <2>1 DEF Join
<1>4. Bad = {}
  <2> SUFFICES ASSUME Bad # {} PROVE FALSE
    OBVIOUS
  <2>1. PICK n \in Bad : \A m \in Bad : n =< m
    <3>1. Bad \in SUBSET Nat
      BY <1>0
    <3> HIDE DEF Bad
    <3>2. QED
      BY <3>1, LeastExists
  <2>2. n \in 1..Len(t) /\ f[n] \notin Seq(Nat)
    OBVIOUS
  <2>3. n \in 2..Len(t) /\ n - 1 \in 1..Len(t) /\ ~(n =< n - 1)
    BY <1>0, <1>2, <2>2
  <2>4. n - 1 \notin Bad
    <3> HIDE DEF Bad
    <3>1. QED
      BY <2>1, <2>3
  <2>5. f[n - 1] \in Seq(Nat) /\ t[n] \in Seq(Nat)
    BY <1>0, <2>2, <2>3, <2>4
  <2>6. f[n] = f[n - 1] \o t[n]
    BY <1>3, <2>3
  <2>7. f[n] \in Seq(Nat)
    BY <2>5, <2>6
  <2>8. QED
    BY <2>2, <2>7
<1>5. f \in [1..Len(t) -> Seq(Nat)]
  BY <1>1, <1>4
<1>6. FlattenSeq(t) = f[Len(t)]
  BY <1>0, FlattenIsUpto DEF f
<1>7. QED
  BY <1>2, <1>3, <1>5, <1>6 DEF Flattens

\* Part c of s grows by b, with nothing after it.
Grows(s, t, c, b) ==
  /\ s \in Seq(Seq(Nat)) /\ t \in Seq(Seq(Nat)) /\ b \in Seq(Nat)
  /\ Len(t) = Len(s) /\ c \in 1..Len(s) /\ t[c] = s[c] \o b
  /\ \A i \in 1..Len(s) : i # c => t[i] = s[i]
  /\ \A i \in 1..Len(s) : c < i => s[i] = <<>>

\* Then the whole grows by b.
LEMMA FlattenGrows ==
  ASSUME NEW s, NEW t, NEW c, NEW b, Grows(s, t, c, b)
  PROVE  FlattenSeq(t) = FlattenSeq(s) \o b
<1>1. PICK n \in Nat : n = Len(s)
  BY DEF Grows
<1>2. n # 0 /\ c \in Nat /\ c \in 1..n /\ Len(t) = n
  BY <1>1 DEF Grows
<1>3. \E f, g : Flattens(f, s) /\ Flattens(g, t)
  BY <1>1, <1>2, Flattened DEF Grows
<1>4. PICK f, g : Flattens(f, s) /\ Flattens(g, t)
  BY <1>3
<1>5. /\ \A i \in 1..n : f[i] \in Seq(Nat) /\ g[i] \in Seq(Nat) /\ s[i] \in Seq(Nat)
      /\ b \in Seq(Nat)
  <2>1. f \in [1..n -> Seq(Nat)] /\ g \in [1..n -> Seq(Nat)]
    BY <1>1, <1>2, <1>4 DEF Flattens
  <2>2. b \in Seq(Nat) /\ \A i \in 1..n : s[i] \in Seq(Nat)
    BY <1>1 DEF Grows
  <2>3. QED
    BY <2>1, <2>2
<1>6. /\ f[1] = s[1] /\ g[1] = t[1]
      /\ \A i \in 2..n : f[i] = f[i - 1] \o s[i] /\ g[i] = g[i - 1] \o t[i]
      /\ FlattenSeq(s) = f[n] /\ FlattenSeq(t) = g[n]
  BY <1>1, <1>2, <1>4 DEF Flattens
<1>7. /\ t[c] = s[c] \o b
      /\ \A i \in 1..n : i # c => t[i] = s[i]
      /\ \A i \in 1..n : c < i => s[i] = <<>>
  BY <1>1 DEF Grows
<1> DEFINE As(i) == (i < c => g[i] = f[i]) /\ (c =< i => g[i] = f[i] \o b)
           Bad == {i \in 1..n : ~As(i)}
<1>8. As(1)
  <2>1. CASE c = 1
    BY <1>6, <1>7, <2>1
  <2>2. CASE c # 1
    BY <1>2, <1>6, <1>7, <2>2
  <2>3. QED
    BY <2>1, <2>2
<1>9. ASSUME NEW k \in 2..n, As(k - 1) PROVE As(k)
  <2>1. k \in Nat /\ k - 1 \in 1..n /\ k \in 1..n
    BY <1>2
  <2>2. /\ f[k] = f[k - 1] \o s[k] /\ g[k] = g[k - 1] \o t[k]
        /\ f[k - 1] \in Seq(Nat) /\ g[k - 1] \in Seq(Nat)
        /\ s[k] \in Seq(Nat) /\ b \in Seq(Nat)
    BY <1>5, <1>6, <2>1
  <2>3. k - 1 < c \/ c =< k - 1
    BY <1>2, <2>1
  <2>4. CASE k < c
    <3>1. k - 1 < c /\ k # c /\ ~(c =< k)
      BY <1>2, <2>1, <2>4
    <3>2. t[k] = s[k] /\ g[k - 1] = f[k - 1]
      BY <1>7, <1>9, <2>1, <3>1
    <3>3. QED
      BY <2>2, <3>1, <3>2
  <2>5. CASE k = c
    <3>1. k - 1 < c /\ ~(k < c)
      BY <1>2, <2>1, <2>5
    <3>2. t[k] = s[k] \o b /\ g[k - 1] = f[k - 1]
      BY <1>7, <1>9, <2>5, <3>1
    <3>3. f[k - 1] \o (s[k] \o b) = (f[k - 1] \o s[k]) \o b
      <4>1. \A x, y, z \in Seq(Nat) : x \o (y \o z) = (x \o y) \o z
        BY ConcatAssociative
      <4>2. QED
        BY <2>2, <2>5, <4>1
    <3>4. g[k] = f[k] \o b
      BY <2>2, <3>2, <3>3
    <3>5. QED
      BY <3>1, <3>4
  <2>6. CASE c < k
    <3>1. c =< k - 1 /\ k # c /\ ~(k < c)
      BY <1>2, <2>1, <2>6
    <3>2. s[k] = <<>> /\ t[k] = <<>> /\ g[k - 1] = f[k - 1] \o b
      BY <1>7, <1>9, <2>1, <2>6, <3>1
    <3>3. f[k - 1] \o <<>> = f[k - 1] /\ g[k - 1] \o <<>> = g[k - 1]
      BY <2>2, ConcatEmptySeq
    <3>4. g[k] = f[k] \o b
      BY <2>2, <3>2, <3>3
    <3>5. QED
      BY <3>1, <3>4
  <2>7. QED
    BY <1>2, <2>1, <2>4, <2>5, <2>6
<1>10. Bad = {}
  <2> SUFFICES ASSUME Bad # {} PROVE FALSE
    OBVIOUS
  <2> HIDE DEF As
  <2>1. PICK k \in Bad : \A m \in Bad : k =< m
    <3>1. Bad \in SUBSET Nat
      OBVIOUS
    <3> HIDE DEF Bad
    <3>2. QED
      BY <3>1, LeastExists
  <2>2. k \in 1..n /\ ~As(k)
    OBVIOUS
  <2>3. k \in 2..n /\ k - 1 \in 1..n /\ ~(k =< k - 1)
    BY <1>2, <1>8, <2>2
  <2>4. k - 1 \notin Bad
    <3> HIDE DEF Bad
    <3>1. QED
      BY <2>1, <2>3
  <2>5. As(k - 1)
    BY <2>3, <2>4
  <2>6. QED
    BY <1>9, <2>2, <2>3, <2>5
<1>11. n \in 1..n /\ c =< n
  BY <1>2
<1>12. As(n)
  <2> HIDE DEF As
  <2>1. QED
    BY <1>10, <1>11
<1>13. QED
  BY <1>6, <1>11, <1>12

LEMMA FlattenEmpty ==
  ASSUME NEW t \in Seq(Seq(Nat)), \A i \in 1..Len(t) : t[i] = <<>>
  PROVE  FlattenSeq(t) = <<>>
<1> DEFINE n == Len(t)
<1>0. n \in Nat
  OBVIOUS
<1>1. CASE n = 0
  BY <1>1 DEF FlattenSeq
<1>2. CASE n # 0
  <2>1. PICK f : /\ f[1] = t[1]
                 /\ \A i \in 2..n : f[i] = f[i - 1] \o t[i]
                 /\ FlattenSeq(t) = f[n]
    BY <1>2, Flattened DEF Flattens
  <2> DEFINE Bad == {i \in 1..n : f[i] # <<>>}
  <2>2. Bad = {}
    <3> SUFFICES ASSUME Bad # {} PROVE FALSE
      OBVIOUS
    <3>1. PICK k \in Bad : \A m \in Bad : k =< m
      <4>1. Bad \in SUBSET Nat
        BY <1>0
      <4> HIDE DEF Bad
      <4>2. QED
        BY <4>1, LeastExists
    <3>2. k \in 1..n /\ f[k] # <<>>
      OBVIOUS
    <3>3. k \in 2..n /\ k - 1 \in 1..n /\ ~(k =< k - 1)
      BY <1>0, <2>1, <3>2
    <3>4. k - 1 \notin Bad
      <4> HIDE DEF Bad
      <4>1. QED
        BY <3>1, <3>3
    <3>5. f[k - 1] = <<>> /\ t[k] = <<>> /\ f[k] = f[k - 1] \o t[k]
      BY <2>1, <3>2, <3>3, <3>4
    <3>6. <<>> \o <<>> = <<>>
      OBVIOUS
    <3>7. QED
      BY <3>2, <3>5, <3>6
  <2>3. n \in 1..n
    BY <1>0, <1>2
  <2> HIDE DEF n
  <2>4. QED
    BY <2>1, <2>2, <2>3
<1>3. QED
  BY <1>1, <1>2

-----------------------------------------------------------------------------
\* The records a reader finds in a slot.
Content(sl) == Ids(final[sl]) \o Ids(partial[sl])

LEMMA IdsFacts ==
  /\ Ids(Absent) = <<>> /\ Ids(<<>>) = <<>>
  /\ \A f \in File : Ids(f) \in Seq(Nat)
  /\ \A f \in Seq(Entry) : Len(Ids(f)) = Len(f) /\ \A j \in 1..Len(f) : Ids(f)[j] = f[j].id
<1>0. Absent \notin Seq(Entry)
  BY ShardAssumption
<1>1. Ids(Absent) = <<>>
  BY DEF Ids
<1>2. ASSUME NEW f \in Seq(Entry)
      PROVE  Ids(f) \in Seq(Nat) /\ Len(Ids(f)) = Len(f) /\ \A j \in 1..Len(f) : Ids(f)[j] = f[j].id
  <2>1. Ids(f) = [j \in 1..Len(f) |-> f[j].id]
    BY <1>0 DEF Ids
  <2>2. \A j \in 1..Len(f) : f[j].id \in Nat
    <3>1. \A j \in 1..Len(f) : f[j] \in Entry
      OBVIOUS
    <3>2. QED
      BY <3>1 DEF Entry
  <2>3. QED
    BY <2>1, <2>2
<1>3. Ids(<<>>) = <<>>
  <2>1. <<>> \in Seq(Entry) /\ Len(<<>>) = 0
    OBVIOUS
  <2>2. Ids(<<>>) \in Seq(Nat) /\ Len(Ids(<<>>)) = 0
    BY <1>2, <2>1
  <2>3. QED
    BY <2>2
<1>4. ASSUME NEW f \in File PROVE Ids(f) \in Seq(Nat)
  <2>1. f = Absent \/ f \in Seq(Entry)
    BY DEF File
  <2>2. <<>> \in Seq(Nat)
    OBVIOUS
  <2>3. QED
    BY <1>1, <1>2, <2>1, <2>2
<1>5. QED
  BY <1>1, <1>2, <1>3, <1>4

LEMMA IdsConcat ==
  ASSUME NEW f \in Seq(Entry), NEW g \in Seq(Entry)
  PROVE  Ids(f \o g) = Ids(f) \o Ids(g)
<1>1. f \o g \in Seq(Entry) /\ Len(f \o g) = Len(f) + Len(g)
  OBVIOUS
<1>2. Ids(f) \in Seq(Nat) /\ Ids(g) \in Seq(Nat) /\ Ids(f \o g) \in Seq(Nat)
  BY <1>1, IdsFacts DEF File
<1> DEFINE a == Ids(f)
           b == Ids(g)
           c == Ids(f \o g)
<1>3. /\ Len(a) = Len(f) /\ \A j \in 1..Len(f) : a[j] = f[j].id
      /\ Len(b) = Len(g) /\ \A j \in 1..Len(g) : b[j] = g[j].id
  BY IdsFacts
<1>4. Len(c) = Len(f) + Len(g) /\ \A j \in 1..(Len(f) + Len(g)) : c[j] = (f \o g)[j].id
  BY <1>1, IdsFacts
<1>a. a \in Seq(Nat) /\ b \in Seq(Nat) /\ c \in Seq(Nat) /\ Len(f) \in Nat /\ Len(g) \in Nat
  BY <1>2
<1> HIDE DEF a, b, c
<1>5. a \o b \in Seq(Nat) /\ Len(a \o b) = Len(c)
  <2>1. a \o b \in Seq(Nat) /\ Len(a \o b) = Len(a) + Len(b)
    BY <1>a, ConcatProperties
  <2>2. QED
    BY <1>3, <1>4, <1>a, <2>1
<1>6. ASSUME NEW j \in 1..Len(c) PROVE c[j] = (a \o b)[j]
  <2>1. Len(f) \in Nat /\ Len(g) \in Nat /\ j \in 1..(Len(f) + Len(g))
    BY <1>4
  <2>2. CASE j =< Len(f)
    <3>1. j \in 1..Len(f) /\ (f \o g)[j] = f[j]
      BY <2>1, <2>2
    <3>2. (a \o b)[j] = a[j]
      BY <1>3, <1>a, <2>1, <3>1
    <3>3. QED
      BY <1>3, <1>4, <2>1, <3>1, <3>2
  <2>3. CASE Len(f) < j
    <3>1. j - Len(f) \in 1..Len(g) /\ (f \o g)[j] = g[j - Len(f)]
      BY <2>1, <2>3
    <3>2. (a \o b)[j] = b[j - Len(f)]
      BY <1>3, <1>a, <2>1, <2>3, <3>1
    <3>3. QED
      BY <1>3, <1>4, <2>1, <3>1, <3>2
  <2>4. j =< Len(f) \/ Len(f) < j
    BY <2>1
  <2>5. QED
    BY <2>2, <2>3, <2>4
<1>7. c = a \o b
  BY <1>5, <1>6, <1>a, SeqEqual
<1>8. QED
  BY <1>7 DEF a, b, c

\* What Stored joins.
Blocks == [k \in Places |-> Content(SlotAt(k))]

LEMMA StoredIsBlocks == Stored = FlattenSeq(Blocks) /\ Stored' = FlattenSeq(Blocks')
BY DEF Stored, Blocks, Content, Places

LEMMA BlocksType ==
  /\ TypeOK => Blocks \in Seq(Seq(Nat)) /\ Len(Blocks) = MaxRuns * Width
  /\ TypeOK' => Blocks' \in Seq(Seq(Nat)) /\ Len(Blocks') = MaxRuns * Width
<1>1. MaxRuns * Width \in Nat
  BY ShardAssumption DEF Width
<1>2. \A f, g \in File : Ids(f) \o Ids(g) \in Seq(Nat)
  <2>1. \A f \in File : Ids(f) \in Seq(Nat)
    BY IdsFacts
  <2>2. QED
    BY <2>1
<1>3. TypeOK => \A k \in Places : Content(SlotAt(k)) \in Seq(Nat)
  BY <1>2, Numbering DEF TypeOK, Content
<1>4. TypeOK' => \A k \in Places : Content(SlotAt(k))' \in Seq(Nat)
  BY <1>2, Numbering DEF TypeOK, Content
<1>5. QED
  BY <1>1, <1>3, <1>4 DEF Blocks, Places

\* A step adds b to the records in slot sl and to nothing else, and there is
\* nothing in the slots after it.
Adds(sl, b) ==
  /\ sl \in Slots /\ b \in Seq(Nat)
  /\ Content(sl)' = Content(sl) \o b
  /\ \A t \in Slots : t # sl => Content(t)' = Content(t)
  /\ \A t \in After(sl) : Content(t) = <<>>

LEMMA StoredGrows ==
  ASSUME TypeOK, TypeOK', NEW sl, NEW b, Adds(sl, b)
  PROVE  Stored' = Stored \o b
<1>1. PICK c \in Places : SlotAt(c) = sl
  BY Numbering DEF Adds
<1>2. /\ Blocks \in Seq(Seq(Nat)) /\ Len(Blocks) = MaxRuns * Width
      /\ Blocks' \in Seq(Seq(Nat)) /\ Len(Blocks') = MaxRuns * Width
  BY BlocksType
<1>3. /\ \A k \in Places : Blocks[k] = Content(SlotAt(k))
      /\ \A k \in Places : Blocks'[k] = Content(SlotAt(k))'
  BY DEF Blocks
<1>4. ASSUME NEW k \in Places, k # c PROVE Blocks'[k] = Blocks[k] /\ (c < k => Blocks[k] = <<>>)
  <2>1. k \in Int /\ c \in Int
    BY DEF Places
  <2>2. SlotAt(k) \in After(sl) \/ sl \in After(SlotAt(k))
    BY <1>1, <1>4, <2>1, Numbering
  <2>3. SlotAt(k) # sl /\ SlotAt(k) \in Slots
    <3>1. \A t \in Slots : t \notin After(t)
      <4> SUFFICES ASSUME NEW t \in Slots PROVE t \notin After(t)
        OBVIOUS
      <4>1. t[1] \in Int /\ t[2] \in Int
        BY DEF Slots
      <4>2. QED
        BY <4>1 DEF After
    <3>2. QED
      BY <2>2, <3>1, Numbering DEF Adds
  <2>4. c < k => SlotAt(k) \in After(sl)
    BY <1>1, Numbering
  <2>5. QED
    BY <1>3, <2>3, <2>4 DEF Adds
<1>5. Grows(Blocks, Blocks', c, b)
  <2>1. Blocks'[c] = Blocks[c] \o b
    BY <1>1, <1>3 DEF Adds
  <2>2. b \in Seq(Nat)
    BY DEF Adds
  <2>3. 1..Len(Blocks) = Places
    BY <1>2 DEF Places
  <2>4. \A i \in Places : i # c => Blocks'[i] = Blocks[i]
    BY <1>4
  <2>5. \A i \in Places : c < i => Blocks[i] = <<>>
    <3> SUFFICES ASSUME NEW i \in Places, c < i PROVE Blocks[i] = <<>>
      OBVIOUS
    <3>1. i # c
      BY DEF Places
    <3>2. QED
      BY <1>4, <3>1
  <2>6. QED
    BY <1>2, <2>1, <2>2, <2>3, <2>4, <2>5 DEF Grows
<1>6. FlattenSeq(Blocks') = FlattenSeq(Blocks) \o b
  BY <1>5, FlattenGrows
<1>7. Stored' = FlattenSeq(Blocks')
  BY StoredIsBlocks
<1>8. QED
  BY <1>6, <1>7, StoredIsBlocks

LEMMA StoredStays ==
  ASSUME \A sl \in Slots : Content(sl)' = Content(sl)
  PROVE  Stored' = Stored
<1>1. \A k \in Places : Content(SlotAt(k))' = Content(SlotAt(k))
  BY Numbering
<1>2. Blocks' = Blocks
  BY <1>1 DEF Blocks
<1>3. Stored' = FlattenSeq(Blocks')
  BY StoredIsBlocks
<1>4. QED
  BY <1>2, <1>3, StoredIsBlocks

LEMMA StoredInit == Init => Stored = <<>>
<1> SUFFICES ASSUME Init PROVE Stored = <<>>
  OBVIOUS
<1>1. \A sl \in Slots : final[sl] = Absent /\ partial[sl] = Absent
  BY DEF Init
<1>2. \A sl \in Slots : Content(sl) = <<>>
  <2>1. <<>> \o <<>> = <<>>
    OBVIOUS
  <2>2. QED
    BY <1>1, <2>1, IdsFacts DEF Content
<1>3. TypeOK
  BY ShardAssumption DEF Init, TypeOK, File
<1>4. Blocks \in Seq(Seq(Nat)) /\ \A k \in 1..Len(Blocks) : Blocks[k] = <<>>
  <2>1. \A k \in Places : Blocks[k] = <<>>
    BY <1>2, Numbering DEF Blocks
  <2>2. QED
    BY <1>3, <2>1, BlocksType DEF Places
<1>5. QED
  BY <1>4, FlattenEmpty, StoredIsBlocks

-----------------------------------------------------------------------------
\* Only an open shard has records that are not in its file.
BufferInv == pc # "open" => buffer = <<>>

LEMMA BufferInvariant == Spec => []BufferInv
<1>1. Init => BufferInv
  BY DEF Init, BufferInv
<1>2. BufferInv /\ [Next]_vars => BufferInv'
  BY DEF BufferInv, Next, Start, Write, BeginRotate, Spill, Flush, Close, FlushForClose, Rename,
         RenameFails, Seal, SealFails, Reopen, ReopenFails, ProcessEnds, memory, vars
<1>3. QED
  BY <1>1, <1>2, PTL DEF Spec

\* There are no records beyond the slot the writer is at.
LEMMA NothingAhead ==
  ASSUME TypeInv, SealInv, NEW sl \in Slots, sl[1] = rid, sl[2] >= idx,
         pc # "down"
  PROVE  \A t \in After(sl) : Untouched(t) /\ Content(t) = <<>>
<1> SUFFICES ASSUME NEW t \in After(sl) PROVE Untouched(t) /\ Content(t) = <<>>
  OBVIOUS
<1>1. /\ t = <<t[1], t[2]>> /\ t[1] \in 1..MaxRuns /\ t[2] \in 0..MaxIdx
      /\ sl[2] \in 0..MaxIdx /\ rid \in Nat /\ idx \in Nat
      /\ sl[1] < t[1] \/ (sl[1] = t[1] /\ sl[2] < t[2])
  BY DEF After, Slots, TypeInv, TypeOK
<1>2. Untouched(t)
  <2>1. CASE sl[1] < t[1]
    <3>1. t[1] \in (rid + 1)..MaxRuns
      BY <1>1, <2>1
    <3>2. Untouched(<<t[1], t[2]>>)
      BY <1>1, <3>1 DEF SealInv, Frontier
    <3>3. QED
      BY <1>1, <3>2
  <2>2. CASE sl[1] = t[1] /\ sl[2] < t[2]
    <3>1. t[2] \in (idx + 1)..MaxIdx /\ t[1] = rid
      BY <1>1, <2>2
    <3>2. Untouched(<<rid, t[2]>>)
      BY <3>1 DEF SealInv, Frontier
    <3>3. QED
      BY <1>1, <3>1, <3>2
  <2>3. QED
    BY <1>1, <2>1, <2>2
<1>3. <<>> \o <<>> = <<>>
  OBVIOUS
<1>4. QED
  BY <1>2, <1>3, IdsFacts DEF Content, Untouched

\* Records that leave the head of the buffer for the file are persisted.
LEMMA Persisting ==
  ASSUME TypeInv, TypeOK', SealInv, pc = "open", NEW sl, sl = Cur, NEW f \in Seq(Entry), NEW g \in Seq(Entry),
         buffer = f \o g, f # <<>>,
         partial' = [partial EXCEPT ![sl] = @ \o f], buffer' = g, UNCHANGED <<final, next>>
  PROVE  Log!Persist
<1>1. /\ sl \in Slots /\ sl[1] = rid /\ sl[2] = idx /\ idx \in Nat
      /\ partial[sl] \in Seq(Entry) /\ partial \in [Slots -> File] /\ TypeOK
  BY DEF TypeInv, TypeOK, OpenExists, Cur, Slots
<1>2. Adds(sl, Ids(f))
  <2>1. Ids(f) \in Seq(Nat)
    BY IdsFacts DEF File
  <2>2. Content(sl)' = Content(sl) \o Ids(f)
    <3>1. Ids(partial[sl] \o f) = Ids(partial[sl]) \o Ids(f)
      BY <1>1, IdsConcat
    <3>2. final[sl] = Absent /\ final'[sl] = Absent
      BY DEF SealInv, Frontier
    <3>3. Ids(partial[sl]) \in Seq(Nat) /\ Ids(partial[sl]) \o Ids(f) \in Seq(Nat)
      BY <1>1, <2>1, <3>1, IdsFacts DEF File
    <3>4. /\ <<>> \o Ids(partial[sl]) = Ids(partial[sl])
          /\ <<>> \o (Ids(partial[sl]) \o Ids(f)) = Ids(partial[sl]) \o Ids(f)
      BY <3>3, ConcatEmptySeq
    <3>5. partial'[sl] = partial[sl] \o f
      BY <1>1
    <3>6. Ids(Absent) = <<>>
      BY IdsFacts
    <3>7. QED
      BY <3>1, <3>2, <3>4, <3>5, <3>6 DEF Content
  <2>3. \A t \in Slots : t # sl => Content(t)' = Content(t)
    BY <1>1 DEF Content
  <2>4. \A t \in After(sl) : Content(t) = <<>>
    <3>1. sl[2] >= idx /\ pc # "down"
      BY <1>1
    <3>2. QED
      BY <1>1, <3>1, NothingAhead
  <2>5. QED
    BY <1>1, <2>1, <2>2, <2>3, <2>4 DEF Adds
<1>3. Stored' = Stored \o Ids(f)
  BY <1>1, <1>2, StoredGrows
<1> DEFINE k == Len(f)
           a == Ids(f)
           b == Ids(g)
<1>4. Ids(buffer) = a \o b /\ a \in Seq(Nat) /\ b \in Seq(Nat) /\ Len(a) = k /\ k \in Nat \ {0}
  BY IdsConcat, IdsFacts, EmptySeq DEF File
<1> HIDE DEF a, b, k
<1>5. Len(a \o b) = k + Len(b) /\ Len(b) \in Nat
  <2>1. Len(a \o b) = Len(a) + Len(b)
    BY <1>4, ConcatProperties
  <2>2. QED
    BY <1>4, <2>1
<1>6. SubSeq(a \o b, 1, k) = a
  BY <1>4
<1>7. SubSeq(a \o b, k + 1, Len(a \o b)) = b
  BY <1>4, <1>5
<1>8. k \in 1..Len(a \o b)
  BY <1>4, <1>5
<1>9. Stored' = Stored \o SubSeq(Ids(buffer), 1, k) /\ Ids(buffer') = SubSeq(Ids(buffer), k + 1, Len(Ids(buffer)))
  BY <1>3, <1>4, <1>6, <1>7 DEF a, b
<1>10. QED
  BY <1>4, <1>8, <1>9 DEF Log!Persist

\* The buffer dies with its process, or with a flush that fails.
LEMMA Losing ==
  ASSUME TypeInv, UNCHANGED <<partial, final, next>>, buffer' = <<>>
  PROVE  [Log!Next]_(Log!logVars)
<1>1. Stored' = Stored
  BY StoredStays DEF Content
<1>2. Ids(buffer') = <<>>
  BY IdsFacts
<1>3. CASE buffer = <<>>
  BY <1>1, <1>3 DEF Log!logVars
<1>4. CASE buffer # <<>>
  <2>1. Len(Ids(buffer)) = Len(buffer) /\ Len(buffer) # 0
    BY <1>4, IdsFacts DEF TypeInv, TypeOK
  <2>2. Ids(buffer) # <<>>
    BY <2>1
  <2>3. QED
    BY <1>1, <1>2, <2>2 DEF Log!Next, Log!Lose
<1>5. QED
  BY <1>3, <1>4

\* A slot that has only been created has no records.
LEMMA Creating ==
  ASSUME NEW sl \in Slots, Untouched(sl), partial' = [partial EXCEPT ![sl] = Created(@)],
         TypeOK, final' = final
  PROVE  Stored' = Stored
<1>1. partial'[sl] = <<>> /\ partial[sl] = Absent
  BY DEF TypeOK, Untouched, Created
<1>2. Content(sl)' = Content(sl)
  BY <1>1, IdsFacts DEF Content
<1>3. \A t \in Slots : t # sl => Content(t)' = Content(t)
  BY DEF Content, TypeOK
<1>4. QED
  BY <1>2, <1>3, StoredStays

\* A record is accepted when it enters the buffer.
LEMMA Accepting ==
  ASSUME TypeInv, Stored' = Stored, NEW x, buffer' = Append(buffer, [id |-> next, end |-> x]),
         x \in Nat, next' = next + 1
  PROVE  Log!Accept
<1>1. [id |-> next, end |-> x] \in Entry /\ next \in Nat
  BY DEF Entry, TypeInv, TypeOK
<1> DEFINE e == [id |-> next, end |-> x]
<1>2. <<e>> \in Seq(Entry) /\ Len(<<e>>) = 1 /\ buffer \in Seq(Entry) /\ Append(buffer, e) = buffer \o <<e>>
  BY <1>1 DEF TypeInv, TypeOK
<1>3. Ids(<<e>>) = <<next>>
  <2>1. <<e>>[1] = e /\ e.id = next /\ 1 \in 1..Len(<<e>>)
    BY <1>2
  <2> HIDE DEF e
  <2>2. Len(Ids(<<e>>)) = 1 /\ Ids(<<e>>)[1] = next
    BY <1>2, <2>1, IdsFacts
  <2>3. Ids(<<e>>) \in Seq(Nat)
    BY <1>2, IdsFacts DEF File
  <2>4. QED
    BY <2>2, <2>3
<1>4. Ids(buffer) \in Seq(Nat)
  BY <1>2, IdsFacts DEF File
<1>5. Ids(buffer') = Ids(buffer) \o <<next>>
  BY <1>2, <1>3, IdsConcat
<1>6. Ids(buffer) \o <<next>> = Append(Ids(buffer), next)
  BY <1>1, <1>4
<1>7. QED
  BY <1>5, <1>6 DEF Log!Accept

LEMMA LogStep ==
  ASSUME ~ReuseRunIds, TypeInv, TypeOK', SealInv, BufferInv, [Next]_vars
  PROVE  [Log!Next]_(Log!logVars)
<1> USE ShardAssumption
<1>0. pc # "down" => Cur \in Slots
  BY DEF Slots, Cur, TypeInv, TypeOK
<1>1. ASSUME NEW r \in 1..MaxRuns, Start(r) PROVE [Log!Next]_(Log!logVars)
  <2>1. PICK i \in 0..MaxIdx : OpenShard(<<r, i>>)
    BY <1>1 DEF Start
  <2>2. r \in (rid + 1)..MaxRuns /\ final' = final /\ next' = next /\ buffer = <<>>
    BY <1>1 DEF Start, BufferInv, TypeInv, TypeOK
  <2>3. Untouched(<<r, i>>) /\ <<r, i>> \in Slots
    BY <2>2 DEF SealInv, Frontier, Slots
  <2>4. Stored' = Stored
    BY <2>1, <2>2, <2>3, Creating DEF OpenShard, TypeInv
  <2>5. QED
    BY <2>1, <2>2, <2>4 DEF OpenShard, Log!logVars
<1>2. ASSUME NEW n \in Sizes, Write(n) PROVE Log!Accept
  <2>1. Stored' = Stored
    BY <1>2, StoredStays DEF Write, files, Content
  <2>2. bytes + n \in Nat
    BY DEF TypeInv, TypeOK
  <2>3. QED
    BY <1>2, <2>1, <2>2, Accepting DEF Write
<1>3. ASSUME pc = "open", partial' = [partial EXCEPT ![Cur] = @ \o buffer], buffer' = <<>>,
             UNCHANGED <<final, next>>
      PROVE  [Log!Next]_(Log!logVars)
  <2>1. CASE buffer = <<>>
    <3>1. partial' = partial
      <4>1. partial[Cur] \in Seq(Entry) /\ partial[Cur] \o <<>> = partial[Cur]
        BY <1>3 DEF TypeInv, OpenExists
      <4>2. QED
        BY <1>0, <1>3, <2>1, <4>1 DEF TypeInv, TypeOK
    <3>2. QED
      BY <1>3, <3>1, Losing
  <2>2. CASE buffer # <<>>
    <3>1. buffer \in Seq(Entry) /\ <<>> \in Seq(Entry) /\ buffer = buffer \o <<>>
      BY DEF TypeInv, TypeOK
    <3>2. PICK sl : sl = Cur
      OBVIOUS
    <3>3. Log!Persist
      BY <1>3, <2>2, <3>1, <3>2, Persisting
    <3>4. QED
      BY <3>3 DEF Log!Next
  <2>3. QED
    BY <2>1, <2>2
<1>4. ASSUME NEW n, pc = "open", FlushForClose(n) PROVE [Log!Next]_(Log!logVars)
  BY <1>3, <1>4, Losing DEF FlushForClose
<1>5. ASSUME NEW n \in Sizes, BeginRotate(n) PROVE [Log!Next]_(Log!logVars)
  BY <1>4, <1>5 DEF BeginRotate
<1>6. CASE Close
  BY <1>4, <1>6 DEF Close
<1>7. CASE Flush
  BY <1>3, <1>7 DEF Flush
<1>8. CASE Spill
  <2>1. /\ <<Head(buffer)>> \in Seq(Entry) /\ Tail(buffer) \in Seq(Entry)
        /\ buffer = <<Head(buffer)>> \o Tail(buffer) /\ <<Head(buffer)>> # <<>>
    BY <1>8 DEF Spill, TypeInv, TypeOK
  <2>2. PICK sl : sl = Cur
    OBVIOUS
  <2>3. partial[Cur] \o <<Head(buffer)>> = Append(partial[Cur], Head(buffer))
    BY <1>8 DEF Spill, TypeInv, TypeOK, OpenExists
  <2>4. Log!Persist
    BY <1>8, <2>1, <2>2, <2>3, Persisting DEF Spill
  <2>5. QED
    BY <2>4 DEF Log!Next
<1>9. CASE Rename
  <2>1. PICK sl \in Slots : sl = Cur
    BY <1>0, <1>9 DEF Rename
  <2>2. /\ final' = [final EXCEPT ![sl] = partial[sl]] /\ partial' = [partial EXCEPT ![sl] = Absent]
        /\ UNCHANGED <<buffer, next>> /\ final[sl] = Absent /\ partial[sl] \in Seq(Entry)
    BY <1>9, <2>1 DEF Rename, memory, SealInv, Frontier, TypeInv, OpenExists
  <2>3. Content(sl)' = Content(sl)
    <3>1. final'[sl] = partial[sl] /\ partial'[sl] = Absent
      BY <2>2 DEF TypeInv, TypeOK
    <3>2. Ids(partial[sl]) \in Seq(Nat) /\ Ids(Absent) = <<>>
      BY <2>2, IdsFacts DEF File
    <3>3. Ids(partial[sl]) \o <<>> = <<>> \o Ids(partial[sl])
      BY <3>2, ConcatEmptySeq
    <3>4. QED
      BY <2>2, <3>1, <3>2, <3>3 DEF Content
  <2>4. \A t \in Slots : t # sl => Content(t)' = Content(t)
    BY <2>2 DEF Content, TypeInv, TypeOK
  <2>5. Stored' = Stored
    BY <2>3, <2>4, StoredStays
  <2>6. QED
    BY <2>2, <2>5 DEF Log!logVars
<1>10. ASSUME UNCHANGED <<partial, final, buffer, next>> PROVE [Log!Next]_(Log!logVars)
  <2>1. Stored' = Stored
    BY <1>10, StoredStays DEF Content
  <2>2. QED
    BY <1>10, <2>1 DEF Log!logVars
<1>11. CASE RenameFails \/ Seal \/ SealFails \/ ReopenFails
  BY <1>10, <1>11 DEF RenameFails, Seal, SealFails, ReopenFails, files, memory
<1>12. CASE Reopen
  <2>1. /\ idx + 1 \in (idx + 1)..MaxIdx /\ pending \in Nat /\ buffer = <<>>
        /\ final' = final /\ next' = next + 1
    BY <1>12 DEF Reopen, TypeInv, TypeOK, RotationRoom, BufferInv
  <2>2. PICK sl \in Slots : sl = <<rid, idx + 1>>
    BY <1>12, <2>1 DEF Reopen, Slots, TypeInv, TypeOK
  <2>3. Untouched(sl)
    BY <1>12, <2>1, <2>2 DEF Reopen, SealInv, Frontier
  <2>4. Stored' = Stored
    BY <1>12, <2>1, <2>2, <2>3, Creating DEF Reopen, TypeInv
  <2>5. bytes' \in Nat
    BY DEF TypeOK
  <2>6. buffer' = Append(buffer, [id |-> next, end |-> bytes'])
    BY <1>12, <2>1 DEF Reopen
  <2>7. Log!Accept
    BY <2>1, <2>4, <2>5, <2>6, Accepting
  <2>8. QED
    BY <2>7 DEF Log!Next
<1>13. CASE ProcessEnds
  BY <1>13, Losing DEF ProcessEnds, files
<1>14. CASE UNCHANGED vars
  BY <1>10, <1>14 DEF vars
<1>15. QED
  BY <1>1, <1>2, <1>5, <1>6, <1>7, <1>8, <1>9, <1>11, <1>12, <1>13, <1>14 DEF Next, Log!Next

\* To a reader of a source directory the writer is a log: whatever rotations,
\* failing calls, crashes and recoveries there are, records become durable in
\* the order of the calls, each once, and only those still in the buffer are lost.
THEOREM WriterIsLog == ASSUME ~ReuseRunIds PROVE Spec => ImplementsLog
<1>1. Init => Log!Init
  <2> SUFFICES ASSUME Init PROVE Log!Init
    OBVIOUS
  <2>1. Ids(buffer) = <<>> /\ next = 1
    BY IdsFacts DEF Init
  <2>2. QED
    BY <2>1, StoredInit DEF Log!Init
<1>2. TypeInv /\ TypeOK' /\ SealInv /\ BufferInv /\ [Next]_vars => [Log!Next]_(Log!logVars)
  BY LogStep
<1>3. QED
  BY <1>1, <1>2, TypeInvariant, TypeCorrect, SealInvariant, BufferInvariant,
     PTL DEF Spec, ImplementsLog, Log!Spec
=============================================================================
