---------------------------- MODULE MCShardWriter ----------------------------
(***************************************************************************)
(* ShardWriter on small instances, and the refinement of DurableLog: the   *)
(* durable records are those of all files, run after run and, within a     *)
(* run, shard after shard.                                                 *)
(***************************************************************************)
EXTENDS ShardWriter, SequencesExt

Ids(f) == IF f = Absent THEN <<>> ELSE [j \in DOMAIN f |-> f[j].id]

Width == MaxIdx + 1
SlotAt(k) == <<(k - 1) \div Width + 1, (k - 1) % Width>>

Stored ==
    FlattenSeq([k \in 1..(MaxRuns * Width) |->
                   Ids(final[SlotAt(k)]) \o Ids(partial[SlotAt(k)])])

Log == INSTANCE DurableLog WITH stable <- Stored, tail <- Ids(buffer)

\* Rotation, renaming, sealing, crashes, recoveries and failing system calls
\* are invisible to a reader of the source directory but for the records that
\* were still in the buffer: shard_writer.py implements DurableLog.
ImplementsLog == Log!Spec
=============================================================================
