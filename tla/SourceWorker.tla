----------------------------- MODULE SourceWorker -----------------------------
(***************************************************************************)
(* One source from extraction to shards (workers/source_worker.py,         *)
(* extractors/base_extractor.py, core/pipeline_stages.py), over the        *)
(* processes that work on it until it is finished.                         *)
(*                                                                         *)
(* The module composes three components: the deduplicator acts in full     *)
(* (Deduplicator), the shard writer by what it promises (DurableLog, which *)
(* MCShardWriter shows it to implement), and the checkpoint by its latest  *)
(* file, which is the one a process resumes from while the source is       *)
(* unfinished (Resumption of PipelineProofs).  An await is a point where a *)
(* stop request may arrive; a process may end anywhere.                    *)
(***************************************************************************)
EXTENDS Integers, Sequences, FiniteSets

CONSTANTS
    Stream,         \* the documents of the source, line after line
    Bad,            \* the lines the filters in front of the deduplicator reject
    BatchSize,      \* batch_size
    MaxDocs,        \* max_docs, 0 for no limit
    FlushEvery,     \* batches from one save and flush to the next (10)
    UpdateEvery,    \* documents from one save by the extractor to the next (10000)
    ExactOn, SimOn, K, SaveEvery,   \* the deduplicator's settings
    CanStop, CanRefuse, CanFail,    \* stop requests, refused quotas, errors
    MaxRuns         \* bound of the model: processes

Lines == 1..Len(Stream)
Docs == {Stream[l] : l \in Lines}

ASSUME WorkerAssumption ==
    /\ Stream \in Seq(Docs)
    /\ Bad \subseteq Lines
    /\ BatchSize \in Nat \ {0} /\ FlushEvery \in Nat \ {0} /\ UpdateEvery \in Nat \ {0}
    /\ MaxDocs \in Nat /\ MaxRuns \in Nat /\ K \in Nat
    /\ CanStop \in BOOLEAN /\ CanRefuse \in BOOLEAN /\ CanFail \in BOOLEAN

VARIABLES
    pc,             \* where the worker is
    offset,         \* the checkpoint in memory: byte_offset of the stream,
    committed,      \*   last_batch_idx,
    flag,           \*   "none", "completed" or "failed"
    saved,          \* the checkpoint file: [offset, committed, flag]
    pos,            \* the line the extractor reads next
    taken,          \* _docs_yielded
    left,           \* why the extractor ended the stream, "no" before
    batch,          \* the batch being collected, then processed
    accepted,       \* its accepted lines, not yet written
    batchN,         \* batch_n
    stop,           \* the stop event
    lines,          \* history: the line of each record ever written
    crashes,        \* history: processes that ended before their work did
    lost            \* history: lines no process will write any more

\* The deduplicator.
VARIABLES up, exact, simMap, lsh, totalSeen, lastSave, simFile, runs, kept, forgotten
\* The shard writer's log.
VARIABLES stable, tail, next

dedup == <<up, exact, simMap, lsh, totalSeen, lastSave, simFile, runs, kept, forgotten>>
log == <<stable, tail, next>>
ckpt == <<offset, committed, flag, saved>>
extractor == <<pos, taken, left>>
history == <<crashes, lost>>
vars == <<pc, ckpt, extractor, batch, accepted, batchN, stop, lines, history, dedup, log>>

D == INSTANCE Deduplicator WITH MinhashOn <- FALSE, Bands <- 0, Rows <- 0, Alike <- 0,
                                MaxSeen <- 2 * Len(Stream)
W == INSTANCE DurableLog

NoBatch == <<>>
New == [offset |-> 0, committed |-> 0, flag |-> "none"]

TypeOK ==
    /\ pc \in {"down", "extract", "arrive", "process", "write", "save", "flush",
               "end", "close", "dedup", "ended"}
    /\ up <=> pc # "down"
    /\ offset \in 0..Len(Stream) /\ committed \in Nat
    /\ flag \in {"none", "completed", "failed"}
    /\ saved \in [offset : 0..Len(Stream), committed : Nat, flag : {"none", "completed", "failed"}]
    /\ pos \in 1..(Len(Stream) + 1) /\ taken \in Nat
    /\ left \in {"no", "exhausted", "max_docs", "quota", "stop", "error"}
    /\ batch \in Seq(Lines) /\ accepted \in Seq(Lines)
    /\ Len(batch) + Len(accepted) <= BatchSize
    /\ batchN \in Nat /\ stop \in BOOLEAN
    /\ lines \in Seq(Lines) /\ Len(lines) = next - 1
    /\ crashes \in Nat /\ lost \subseteq Lines

Init ==
    /\ pc = "down"
    /\ offset = 0 /\ committed = 0 /\ flag = "none" /\ saved = New
    /\ pos = 1 /\ taken = 0 /\ left = "no"
    /\ batch = NoBatch /\ accepted = NoBatch /\ batchN = 0
    /\ stop = FALSE
    /\ lines = <<>>
    /\ crashes = 0 /\ lost = {}
    /\ D!Init
    /\ W!Init

-----------------------------------------------------------------------------
\* CheckpointManager.save: an error is swallowed and the old file stays.
SavesAs(o, c, f) ==
    \/ saved' = [offset |-> o, committed |-> c, flag |-> f]
    \/ CanFail /\ UNCHANGED saved
Saves == SavesAs(offset, committed, flag)

\* Flushing the writer makes the tail of its log durable, unless it raises;
\* closing a shard that cannot be flushed gives the tail up.
Flushes ==
    \/ stable' = stable \o tail /\ tail' = <<>>
    \/ CanFail /\ UNCHANGED <<stable, tail>>
Closes ==
    /\ \/ stable' = stable \o tail
       \/ CanFail /\ UNCHANGED stable
    /\ tail' = <<>>

\* A process takes the source up: SourceWorker(...).run and the extractor's
\* _resume_offset.  The line at the saved offset is read again.
MutStart ==
    /\ pc = "down" /\ saved.flag = "none"
    /\ D!Start
    /\ pc' = "extract"
    /\ offset' = saved.offset /\ committed' = saved.committed /\ flag' = "none"
    /\ pos' = saved.offset + 1
    /\ taken' = 0 /\ left' = "no"
    /\ batchN' = 0
    /\ stop' = FALSE
    /\ UNCHANGED <<saved, batch, accepted, lines, history, log>>
Start ==
    /\ pc = "down" /\ saved.flag = "none"
    /\ D!Start
    /\ pc' = "extract"
    /\ offset' = saved.offset /\ committed' = saved.committed /\ flag' = "none"
    /\ pos' = IF saved.offset = 0 THEN 1 ELSE saved.offset
    /\ taken' = 0 /\ left' = "no"
    /\ batchN' = 0
    /\ stop' = FALSE
    /\ UNCHANGED <<saved, batch, accepted, lines, history, log>>

\* The extractor reads a line and moves the offset of the checkpoint, which it
\* saves now and then (_update_checkpoint).
Reads ==
    /\ pc = "extract" /\ left = "no" /\ pos <= Len(Stream)
    /\ offset' = pos
    /\ pos' = pos + 1
    /\ IF (taken + 1) % UpdateEvery = 0 THEN SavesAs(pos, committed, flag) ELSE UNCHANGED saved
    /\ UNCHANGED <<committed, flag, accepted, batchN, stop, lines, history, dedup, log>>

AtLimit == MaxDocs > 0 /\ taken >= MaxDocs

\* extract_batches takes the document ...
Take ==
    /\ Reads /\ ~AtLimit
    /\ batch' = Append(batch, pos)
    /\ taken' = taken + 1
    /\ pc' = IF Len(batch') >= BatchSize THEN "arrive" ELSE "extract"
    /\ UNCHANGED left

\* ... or drops it and ends the stream, because of max_docs or a full quota.
Limit ==
    /\ Reads
    /\ \/ AtLimit /\ left' = "max_docs"
       \/ ~AtLimit /\ CanRefuse /\ left' = "quota"
    /\ pc' = IF batch = NoBatch THEN "end" ELSE "arrive"
    /\ UNCHANGED <<batch, taken>>

Exhaust ==
    /\ pc = "extract" /\ left = "no" /\ pos > Len(Stream)
    /\ left' = "exhausted"
    /\ pc' = IF batch = NoBatch THEN "end" ELSE "arrive"
    /\ UNCHANGED <<ckpt, pos, taken, batch, accepted, batchN, stop, lines, history, dedup, log>>

\* The worker gets a batch; after a stop request it is dropped.
Arrive ==
    /\ pc = "arrive"
    /\ IF stop
       THEN /\ pc' = "end" /\ left' = "stop" /\ batch' = NoBatch
            /\ UNCHANGED batchN
       ELSE pc' = "process" /\ batchN' = batchN + 1 /\ UNCHANGED <<left, batch>>
    /\ UNCHANGED <<ckpt, pos, taken, accepted, stop, lines, history, dedup, log>>

\* process_batch, one document of it: rejected, a duplicate, or accepted.
ProcessDoc ==
    /\ pc = "process" /\ batch # NoBatch
    /\ \/ /\ Head(batch) \in Bad
          /\ UNCHANGED <<accepted, dedup>>
       \/ /\ Head(batch) \notin Bad
          /\ D!Duplicate(Stream[Head(batch)])
          /\ UNCHANGED accepted
       \/ /\ Head(batch) \notin Bad
          /\ D!Keep(Stream[Head(batch)])
          /\ accepted' = Append(accepted, Head(batch))
    /\ batch' = Tail(batch)
    /\ UNCHANGED <<pc, ckpt, extractor, batchN, stop, lines, history, log>>

Processed ==
    /\ pc = "process" /\ batch = NoBatch
    /\ pc' = "write"
    /\ UNCHANGED <<ckpt, extractor, batch, accepted, batchN, stop, lines, history, dedup, log>>

\* writer.write: the next accepted document enters the log, or the writer
\* refuses it, which the worker does not notice.
WriteDoc ==
    /\ pc = "write" /\ accepted # NoBatch
    /\ accepted' = Tail(accepted)
    /\ \/ W!Accept /\ lines' = Append(lines, Head(accepted))
       \/ CanRefuse /\ UNCHANGED <<log, lines>>
    /\ UNCHANGED <<pc, ckpt, extractor, batch, batchN, stop, history, dedup>>

\* The write finds the shard full: it is closed, and the checkpoint is saved.
RotateShard ==
    /\ pc = "write" /\ accepted # NoBatch
    /\ Closes
    /\ Saves
    /\ UNCHANGED <<pc, offset, committed, flag, extractor, batch, accepted, batchN, stop,
                   lines, history, dedup, next>>

MutNextBatch == "extract"
NextBatch == IF left = "no" THEN "extract" ELSE "end"

\* The batch is entered in the checkpoint; every tenth time it is saved, and
\* then the writer is flushed.
MutCommit ==
    /\ pc = "write" /\ accepted = NoBatch
    /\ committed' = batchN
    /\ pc' = IF batchN > FlushEvery /\ batchN % FlushEvery = 0 THEN "save" ELSE NextBatch
    /\ UNCHANGED <<offset, flag, saved, extractor, batch, accepted, batchN, stop, lines,
                   history, dedup, log>>
Commit ==
    /\ pc = "write" /\ accepted = NoBatch
    /\ committed' = batchN
    /\ pc' = IF batchN % FlushEvery = 0 THEN "save" ELSE NextBatch
    /\ UNCHANGED <<offset, flag, saved, extractor, batch, accepted, batchN, stop, lines,
                   history, dedup, log>>

SaveCheckpoint ==
    /\ pc = "save"
    /\ Saves
    /\ pc' = "flush"
    /\ UNCHANGED <<offset, committed, flag, extractor, batch, accepted, batchN, stop, lines,
                   history, dedup, log>>

MutFlushWriter ==
    /\ pc = "flush"
    /\ pc' = NextBatch
    /\ UNCHANGED <<ckpt, extractor, batch, accepted, batchN, stop, lines, history, dedup, log>>
FlushWriter ==
    /\ pc = "flush"
    /\ Flushes
    /\ pc' = NextBatch
    /\ UNCHANGED <<ckpt, extractor, batch, accepted, batchN, stop, lines, history, dedup, next>>

\* mark_completed: whatever ended the loop.
MarkCompleted ==
    /\ pc = "end"
    /\ flag' = "completed"
    /\ SavesAs(offset, committed, "completed")
    /\ pc' = "close"
    /\ UNCHANGED <<offset, committed, extractor, batch, accepted, batchN, stop, lines,
                   history, dedup, log>>

\* mark_failed: an exception in the extractor or in a write.
MarkFailed ==
    /\ CanFail
    /\ pc \in {"extract", "process", "write", "flush"}
    /\ flag' = "failed" /\ left' = "error"
    /\ SavesAs(offset, committed, "failed")
    /\ pc' = "close"
    /\ UNCHANGED <<offset, committed, pos, taken, batch, accepted, batchN, stop, lines,
                   history, dedup, log>>

\* writer.close() closes the shard and saves the checkpoint, flag included.
CloseWriter ==
    /\ pc = "close"
    /\ Closes
    /\ Saves
    /\ pc' = "dedup"
    /\ UNCHANGED <<offset, committed, flag, extractor, batch, accepted, batchN, stop, lines,
                   history, dedup, next>>

SaveDedup ==
    /\ pc = "dedup"
    /\ D!Save
    /\ pc' = "ended"
    /\ UNCHANGED <<ckpt, extractor, batch, accepted, batchN, stop, lines, history, log>>

WorkerStep ==
    \/ Take
    \/ Limit
    \/ Exhaust
    \/ Arrive
    \/ ProcessDoc
    \/ Processed
    \/ WriteDoc
    \/ Commit
    \/ SaveCheckpoint
    \/ FlushWriter
    \/ MarkCompleted
    \/ CloseWriter
    \/ SaveDedup

\* The writer's buffer spills by itself.
Spill ==
    /\ pc # "down"
    /\ W!Persist
    /\ UNCHANGED <<pc, ckpt, extractor, batch, accepted, batchN, stop, lines, history, dedup>>

\* SIGINT or SIGTERM: handled where the worker awaits.
RequestStop ==
    /\ CanStop /\ ~stop
    /\ pc \in {"extract", "arrive"}
    /\ stop' = TRUE
    /\ UNCHANGED <<pc, ckpt, extractor, batch, accepted, batchN, lines, history, dedup, log>>

-----------------------------------------------------------------------------
Doc(l) == Stream[l]
Alike(l, m) == \/ ExactOn /\ Doc(l).hash = Doc(m).hash
               \/ SimOn /\ D!Near(Doc(l).sim, Doc(m).sim)

Durable == {lines[stable[i]] : i \in DOMAIN stable}
InFlight == {batch[i] : i \in DOMAIN batch} \cup {accepted[i] : i \in DOMAIN accepted}
                \cup {lines[tail[i]] : i \in DOMAIN tail}

\* What was in memory is gone for good where no process will read the line
\* again, or where the saved SimHash map will take it for its own duplicate.
GoneForGood ==
    {l \in InFlight : \/ l < saved.offset
                      \/ SimOn /\ \E s \in simFile : D!Near(Doc(l).sim, s)}

\* The process ends, in order or not.
ProcessEnds ==
    /\ pc # "down"
    /\ pc' = "down"
    /\ D!ProcessEnds
    /\ tail' = <<>>
    /\ lost' = lost \cup GoneForGood
    /\ crashes' = crashes + IF pc = "ended" THEN 0 ELSE 1
    /\ batch' = NoBatch /\ accepted' = NoBatch
    /\ UNCHANGED <<ckpt, extractor, batchN, stop, lines, stable, next>>

Next ==
    \/ Start
    \/ WorkerStep
    \/ RotateShard
    \/ MarkFailed
    \/ Spill
    \/ RequestStop
    \/ ProcessEnds

Spec == Init /\ [][Next]_vars
FairSpec == Spec /\ WF_vars(WorkerStep)
-----------------------------------------------------------------------------
\* What the deduplicator rejects line l for: its own hash, its own SimHash, or
\* the hash of a line that was rejected for its SimHash.  Texts with one hash
\* may differ in the first 2000 characters, of which the SimHash is made.
Copy(l, m) ==
    \/ Alike(l, m)
    \/ /\ ExactOn /\ SimOn
       /\ \E k \in Lines : Doc(l).hash = Doc(k).hash /\ D!Near(Doc(k).sim, Doc(m).sim)

\* When the stream was read to its end and the worker has ended, every line is
\* accounted for, over all the crashes before: its document is durable, was
\* rejected, is a copy of one that was kept, or was in memory when a process
\* crashed after the checkpoint or the SimHash map had moved past it.
Coverage ==
    pc = "ended" /\ left = "exhausted" =>
        \A l \in Lines : \/ l \in Durable \cup Bad \cup lost
                         \/ \E m \in Durable \cup lost : m # l /\ Copy(l, m)

\* One crash costs at most the batches between two flushes, while these succeed.
LossBounded == ~CanFail => Cardinality(lost) <= crashes * FlushEvery * BatchSize

\* A crash makes later processes read again at most the lines of the batches
\* between two saves, while these succeed.
ReworkBounded == ~CanFail /\ pc # "down" => offset - saved.offset <= FlushEvery * BatchSize

\* A document, or a near copy of it, is written after it only if the process
\* that kept it first ended before its SimHash was saved.
TwiceOnlyIfForgotten ==
    SimOn => \A n, m \in DOMAIN lines :
        n < m /\ D!Near(Doc(lines[n]).sim, Doc(lines[m]).sim) => Doc(lines[n]).sim \in forgotten

\* Without a crash the shards hold, once and in the order of the stream, the
\* good documents but for those whose hash an earlier good line had, kept or
\* not, or whose SimHash is near that of an earlier one that was kept.
First(l, others) ==
    /\ l \notin Bad
    /\ ExactOn => \A m \in 1..(l - 1) : m \in Bad \/ Doc(m).hash # Doc(l).hash
    /\ SimOn => \A m \in others : m < l => ~D!Near(Doc(m).sim, Doc(l).sim)
ExactlyOnce ==
    pc = "ended" /\ left = "exhausted" /\ crashes = 0 =>
        /\ \A l \in Lines : l \in Durable <=> First(l, Durable)
        /\ \A i, j \in DOMAIN stable : i < j => lines[stable[i]] < lines[stable[j]]

\* A worker that is not killed always comes to an end.
Terminates == pc # "down" ~> pc \in {"ended", "down"}
=============================================================================
