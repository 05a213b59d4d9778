----------------------------- MODULE ShardWriter -----------------------------
(***************************************************************************)
(* The rolling shard writer (data_pipeline/core/shard_writer.py): one      *)
(* source directory, one writer at a time, and the processes that use the  *)
(* directory one after the other.                                          *)
(*                                                                         *)
(* A file is the sequence of the records in it, each with the offset at    *)
(* which it ends, or Absent.  Records reach the file in the order of the   *)
(* calls, through a buffer that dies with the process; the steps of        *)
(* closing a shard are separate actions, so a process may end between any  *)
(* two of them.                                                            *)
(***************************************************************************)
EXTENDS Integers, Sequences

CONSTANTS
    Sizes,          \* lengths in bytes an encoded record may have
    MaxBytes,       \* max_shard_bytes
    MaxRecords,     \* max_shard_records
    ReuseRunIds,    \* whether a new process may be given an old --run-id
    CanFail,        \* whether flush, rename, checksum and open may raise
    Absent,         \* no such file
    MaxRuns,        \* bounds of the model: run ids,
    MaxIdx,         \* rotations of one run,
    MaxDocs         \* records offered over the whole behaviour

BytesPerRecord == 200   \* the estimate of _open_shard

Entry == [id : Nat, end : Nat]

ASSUME ShardAssumption ==
    /\ Sizes \subseteq {n \in Nat : n >= BytesPerRecord}
    /\ MaxBytes \in Nat
    /\ MaxRecords \in Nat \ {0}
    /\ ReuseRunIds \in BOOLEAN
    /\ CanFail \in BOOLEAN
    /\ Absent \notin Seq(Entry)
    /\ MaxRuns \in Nat
    /\ MaxIdx \in Nat
    /\ MaxDocs \in Nat

VARIABLES
    partial,        \* {run}_{source}_{idx}.partial
    final,          \* {run}_{source}_{idx}.jsonl
    sidecar,        \* ....jsonl.sha256: the content whose digest it holds
    pc,             \* where the writer is
    rid,            \* _run_id of the current (or latest) process
    idx,            \* _shard_idx
    records,        \* _records, an estimate after a shard is reopened
    bytes,          \* _bytes_written
    buffer,         \* written by the writer, not yet in the file
    pending,        \* size of the record a rotation interrupts, 0 for close()
    completed,      \* _completed_shards
    next            \* history: the number of the next record

files == <<partial, final, sidecar>>
memory == <<idx, records, bytes, buffer, pending, completed>>
vars == <<partial, final, sidecar, pc, rid, idx, records, bytes, buffer, pending, completed, next>>

Slots == (1..MaxRuns) \X (0..MaxIdx)
File == Seq(Entry) \cup {Absent}
Cur == <<rid, idx>>

TypeOK ==
    /\ partial \in [Slots -> File]
    /\ final \in [Slots -> File]
    /\ sidecar \in [Slots -> File]
    /\ pc \in {"down", "open", "flushed", "renamed", "sealed", "closed"}
    /\ rid \in 0..MaxRuns
    /\ pc # "down" => rid # 0
    /\ idx \in 0..MaxIdx
    /\ records \in Nat
    /\ bytes \in Nat
    /\ buffer \in Seq(Entry)
    /\ pending \in Nat
    /\ completed \subseteq Slots
    /\ next \in Nat

Init ==
    /\ partial = [sl \in Slots |-> Absent]
    /\ final = partial
    /\ sidecar = partial
    /\ pc = "down"
    /\ rid = 0
    /\ idx = 0
    /\ records = 0
    /\ bytes = 0
    /\ buffer = <<>>
    /\ pending = 0
    /\ completed = {}
    /\ next = 1

-----------------------------------------------------------------------------
FileSize(f) == IF f = <<>> THEN 0 ELSE f[Len(f)].end
Created(f) == IF f = Absent THEN <<>> ELSE f

MutNeedsRotation(n) == records > MaxRecords \/ bytes + n >= MaxBytes
NeedsRotation(n) == records >= MaxRecords \/ bytes + n >= MaxBytes

\* _open_shard for a slot: the file is opened in append mode and the counters
\* are taken from its size.
OpenShard(sl) ==
    /\ partial' = [partial EXCEPT ![sl] = Created(@)]
    /\ bytes' = FileSize(Created(partial[sl]))
    /\ records' = bytes' \div BytesPerRecord
    /\ buffer' = <<>>

\* _recover_partial looks at the files of its own run id only, the completed
\* ones included, and takes the highest index it finds.
Existing(r) == {i \in 0..MaxIdx : partial[<<r, i>>] # Absent \/ final[<<r, i>>] # Absent}
IsRecoveredIdx(r, i) ==
    \/ Existing(r) = {} /\ i = 0
    \/ i \in Existing(r) /\ \A k \in Existing(r) : k <= i

\* ShardWriter.__init__ in a new process.
Start(r) ==
    /\ pc = "down"
    /\ r \in IF ReuseRunIds THEN {rid, rid + 1} ELSE {rid + 1}
    /\ rid' = r
    /\ completed' = {sl \in {r} \X (0..MaxIdx) : final[sl] # Absent}
    /\ \E i \in 0..MaxIdx :
          /\ IsRecoveredIdx(r, i)
          /\ idx' = i
          /\ OpenShard(<<r, i>>)
    /\ pc' = "open"
    /\ UNCHANGED <<final, sidecar, pending, next>>

\* write of a record of n bytes that fits the open shard.
MutWrite(n) ==
    /\ pc = "open" /\ next <= MaxDocs
    /\ ~NeedsRotation(n)
    /\ buffer' = Append(buffer, [id |-> next, end |-> bytes + n])
    /\ records' = records + 1
    /\ bytes' = bytes
    /\ next' = next + 1
    /\ UNCHANGED <<files, pc, rid, idx, pending, completed>>
Write(n) ==
    /\ pc = "open" /\ next <= MaxDocs
    /\ ~NeedsRotation(n)
    /\ buffer' = Append(buffer, [id |-> next, end |-> bytes + n])
    /\ records' = records + 1
    /\ bytes' = bytes + n
    /\ next' = next + 1
    /\ UNCHANGED <<files, pc, rid, idx, pending, completed>>

\* The buffered stream passes its oldest record to the file, whenever it likes.
Spill ==
    /\ pc = "open" /\ buffer # <<>>
    /\ partial' = [partial EXCEPT ![Cur] = Append(@, Head(buffer))]
    /\ buffer' = Tail(buffer)
    /\ UNCHANGED <<final, sidecar, pc, rid, idx, records, bytes, pending, completed, next>>

\* flush(); when it raises nothing changes and nobody is told.
Flush ==
    /\ pc = "open"
    /\ partial' = [partial EXCEPT ![Cur] = @ \o buffer]
    /\ buffer' = <<>>
    /\ UNCHANGED <<final, sidecar, pc, rid, idx, records, bytes, pending, completed, next>>

-----------------------------------------------------------------------------
\* _close_shard, on behalf of a write that needs a rotation (n its size) or of
\* close() (n = 0).  First the stream is flushed and closed; an error there is
\* logged and what was still in the buffer is lost.
MutFlushForClose(n) ==
    /\ pc' = "flushed"
    /\ pending' = n
    /\ partial' = [partial EXCEPT ![Cur] = buffer \o @]
    /\ buffer' = <<>>
    /\ UNCHANGED <<final, sidecar, rid, idx, records, bytes, completed, next>>
FlushForClose(n) ==
    /\ pc' = "flushed"
    /\ pending' = n
    /\ \/ partial' = [partial EXCEPT ![Cur] = @ \o buffer]
       \/ CanFail /\ UNCHANGED partial
    /\ buffer' = <<>>
    /\ UNCHANGED <<final, sidecar, rid, idx, records, bytes, completed, next>>

BeginRotate(n) ==
    /\ pc = "open" /\ next <= MaxDocs /\ idx < MaxIdx
    /\ NeedsRotation(n)
    /\ FlushForClose(n)

Close ==
    /\ pc = "open"
    /\ FlushForClose(0)

\* What follows once the shard is finalised, or could not be.
AfterClose == IF pending = 0 THEN "closed" ELSE "sealed"

\* os.replace(partial, jsonl)
Rename ==
    /\ pc = "flushed"
    /\ final' = [final EXCEPT ![Cur] = partial[Cur]]
    /\ partial' = [partial EXCEPT ![Cur] = Absent]
    /\ pc' = "renamed"
    /\ UNCHANGED <<sidecar, rid, memory, next>>

RenameFails ==
    /\ CanFail
    /\ pc = "flushed"
    /\ pc' = AfterClose
    /\ UNCHANGED <<files, rid, memory, next>>

\* write_checksum, then the shard is listed as completed.
MutSeal ==
    /\ pc = "renamed"
    /\ sidecar' = [sidecar EXCEPT ![Cur] = Append(final[Cur], [id |-> 0, end |-> 0])]
    /\ completed' = completed \cup {Cur}
    /\ pc' = AfterClose
    /\ UNCHANGED <<partial, final, rid, idx, records, bytes, buffer, pending, next>>
Seal ==
    /\ pc = "renamed"
    /\ sidecar' = [sidecar EXCEPT ![Cur] = final[Cur]]
    /\ completed' = completed \cup {Cur}
    /\ pc' = AfterClose
    /\ UNCHANGED <<partial, final, rid, idx, records, bytes, buffer, pending, next>>

SealFails ==
    /\ CanFail
    /\ pc = "renamed"
    /\ pc' = AfterClose
    /\ UNCHANGED <<files, rid, memory, next>>

\* The rest of _rotate and of the write it interrupted.
MutReopen ==
    /\ pc = "sealed"
    /\ idx' = idx
    /\ partial' = [partial EXCEPT ![Cur] = Created(@)]
    /\ bytes' = FileSize(Created(partial[Cur])) + pending
    /\ records' = FileSize(Created(partial[Cur])) \div BytesPerRecord + 1
    /\ buffer' = <<[id |-> next, end |-> bytes']>>
    /\ next' = next + 1
    /\ pending' = 0
    /\ pc' = "open"
    /\ UNCHANGED <<final, sidecar, rid, completed>>
Reopen ==
    /\ pc = "sealed"
    /\ idx' = idx + 1
    /\ partial' = [partial EXCEPT ![<<rid, idx + 1>>] = Created(@)]
    /\ bytes' = FileSize(Created(partial[<<rid, idx + 1>>])) + pending
    /\ records' = FileSize(Created(partial[<<rid, idx + 1>>])) \div BytesPerRecord + 1
    /\ buffer' = <<[id |-> next, end |-> bytes']>>
    /\ next' = next + 1
    /\ pending' = 0
    /\ pc' = "open"
    /\ UNCHANGED <<final, sidecar, rid, completed>>

\* open() raises: so does write, and the worker closes a writer without a file.
ReopenFails ==
    /\ CanFail
    /\ pc = "sealed"
    /\ idx' = idx + 1
    /\ pending' = 0
    /\ pc' = "closed"
    /\ UNCHANGED <<files, rid, records, bytes, buffer, completed, next>>

\* The process ends, in order or not: what was only in memory is gone.
ProcessEnds ==
    /\ pc # "down"
    /\ pc' = "down"
    /\ idx' = 0 /\ records' = 0 /\ bytes' = 0
    /\ buffer' = <<>>
    /\ pending' = 0
    /\ completed' = {}
    /\ UNCHANGED <<files, rid, next>>

Next ==
    \/ \E r \in 1..MaxRuns : Start(r)
    \/ \E n \in Sizes : Write(n) \/ BeginRotate(n)
    \/ Spill
    \/ Flush
    \/ Close
    \/ Rename
    \/ RenameFails
    \/ Seal
    \/ SealFails
    \/ Reopen
    \/ ReopenFails
    \/ ProcessEnds

Spec == Init /\ [][Next]_vars
-----------------------------------------------------------------------------
\* Shards stay within their limits, whatever crashes, recoveries and lost
\* buffers precede: a shard holds at most max_shard_records records although
\* _open_shard only estimates how many a recovered file has, and only its first
\* record may take it to max_shard_bytes.
WithinLimits(f) ==
    f # Absent => /\ Len(f) <= MaxRecords
                  /\ \A j \in 2..Len(f) : f[j].end < MaxBytes
ShardsBounded == \A sl \in Slots : WithinLimits(partial[sl]) /\ WithinLimits(final[sl])

\* The byte count the writer carries is that of the file, also of one that was
\* reopened after a crash took the buffer or an error lost it: every record
\* begins where the one in front of it in its file ends.  And no record stands
\* twice in a file, or in front of one that was written earlier.
Extent(f, j) == IF j = 1 THEN f[j].end ELSE f[j].end - f[j - 1].end
Contiguous(f) ==
    f # Absent => /\ \A j \in 1..Len(f) : Extent(f, j) \in Sizes
                  /\ \A j \in 2..Len(f) : f[j - 1].id < f[j].id
WellFormed == \A sl \in Slots : Contiguous(partial[sl]) /\ Contiguous(final[sl])

\* A sidecar never vouches for other content than that of its shard, and a
\* shard the writer lists as completed in this process is final and sealed.
SidecarsTrue ==
    /\ \A sl \in Slots : sidecar[sl] # Absent => sidecar[sl] = final[sl]
    /\ \A sl \in completed : final[sl] # Absent /\ sidecar[sl] # Absent

\* "Append-only" (shard_writer.py:5 and :39): a completed shard, and a sidecar,
\* is never changed or replaced, by this process or a later one.
CompletedStable ==
    [][\A sl \in Slots : /\ final[sl] # Absent => final'[sl] = final[sl]
                         /\ sidecar[sl] # Absent => sidecar'[sl] = sidecar[sl]]_vars
=============================================================================
