---------------------------- MODULE QuotaManager ----------------------------
(***************************************************************************)
(* The storage quota of the data pipeline                                  *)
(* (data_pipeline/core/quota_manager.py).                                  *)
(*                                                                         *)
(* One QuotaManager is shared by every source worker of a process.  The    *)
(* workers are asyncio tasks of one thread and neither can_write nor the   *)
(* writer between can_write and record_write awaits, so ShardWriter.write  *)
(* is one step here: ask, write the line, record it.  The extractors ask   *)
(* too (BaseExtractor.extract_batches) without writing.                    *)
(*                                                                         *)
(* Time is abstracted: whether check_interval has elapsed since the last   *)
(* sample of the disk is a free choice of every can_write.                 *)
(***************************************************************************)
EXTENDS Integers, FiniteSetsExt

CONSTANTS
    Sources,        \* source names, the "<name>_rejected" writers included
    MaxBytes,       \* [Sources -> Nat]: SourceQuota.max_bytes, 0 is unlimited
    GlobalMax,      \* global_max_bytes, 0 is unlimited
    SafetyMargin,   \* safety_margin_bytes
    MaxRecord,      \* the longest encoded record, in bytes
    DiskSizes,      \* what shutil.disk_usage may report as free
    AssumedFree,    \* what _sample_disk_free answers when disk_usage raises
    CanRestart,     \* whether the process may be started again
    MaxTotal        \* bound of the model: bytes written over the whole behaviour

\* What the other definitions take for granted of the parameters.
QuotaAssumption ==
    /\ IsFiniteSet(Sources)
    /\ MaxBytes \in [Sources -> Nat]
    /\ GlobalMax \in Nat
    /\ SafetyMargin \in Nat
    /\ MaxRecord \in Nat \ {0}
    /\ DiskSizes \subseteq Nat
    /\ AssumedFree \in Nat
    /\ CanRestart \in BOOLEAN
    /\ MaxTotal \in Nat

VARIABLES
    used,           \* used_bytes of each source, in memory
    paused,         \* SourceQuota.paused
    globalUsed,     \* _global_used
    pausedGlobal,   \* _paused_global
    diskFree,       \* _disk_free_bytes, the last sample
    disk,           \* the free space the file system would report now
    total           \* history: bytes written by all processes so far

vars == <<used, paused, globalUsed, pausedGlobal, diskFree, disk, total>>

\* _sample_disk_free: the truth, or a constant when the call fails.
Samples == {disk, AssumedFree}

TypeOK ==
    /\ used \in [Sources -> Nat]
    /\ paused \in [Sources -> BOOLEAN]
    /\ globalUsed \in Nat
    /\ pausedGlobal \in BOOLEAN
    /\ diskFree \in Nat
    /\ disk \in Nat
    /\ total \in Nat

Init ==
    /\ used = [s \in Sources |-> 0]
    /\ paused = [s \in Sources |-> FALSE]
    /\ globalUsed = 0
    /\ pausedGlobal = FALSE
    /\ disk \in DiskSizes
    /\ diskFree \in Samples
    /\ total = 0

-----------------------------------------------------------------------------
Limited(s) == MaxBytes[s] > 0
Exhausted(s) == Limited(s) /\ used[s] >= MaxBytes[s]
GlobalExhausted == GlobalMax > 0 /\ globalUsed >= GlobalMax

\* _maybe_refresh_disk: when the interval has elapsed (due) the disk is sampled
\* and a global pause ends if more than twice the margin is free.
SampleAfter(due, free) == IF due THEN free ELSE diskFree
PausedAfter(due, free) == pausedGlobal /\ ~(due /\ free > SafetyMargin * 2)

\* can_write asked for source s answers False.
MutRefused(s, due, free) ==
    PausedAfter(due, free) \/ Exhausted(s) \/ SampleAfter(due, free) < SafetyMargin
Refused(s, due, free) ==
    \/ PausedAfter(due, free)
    \/ paused[s]
    \/ Exhausted(s)
    \/ GlobalExhausted
    \/ SampleAfter(due, free) < SafetyMargin

\* The flags can_write leaves behind: the tests run in the order of the code
\* and return at the first that refuses.
MutGlobalFlag(s, due, free) ==
    /\ diskFree' = SampleAfter(due, free)
    /\ paused' = [paused EXCEPT ![s] = @ \/ (~PausedAfter(due, free) /\ Exhausted(s))]
    /\ pausedGlobal' = Refused(s, due, free)
AskEffect(s, due, free) ==
    /\ diskFree' = SampleAfter(due, free)
    /\ paused' = [paused EXCEPT ![s] = @ \/ (~PausedAfter(due, free) /\ Exhausted(s))]
    /\ pausedGlobal' = \/ PausedAfter(due, free)
                       \/ /\ ~paused[s] /\ ~Exhausted(s)
                          /\ GlobalExhausted \/ SampleAfter(due, free) < SafetyMargin

\* can_write on its own: the extractor asks before it takes a document, and a
\* writer that is refused drops the record and writes nothing.
CanWrite(s) ==
    \E due \in BOOLEAN, free \in Samples :
        /\ AskEffect(s, due, free)
        /\ UNCHANGED <<used, globalUsed, disk, total>>

\* ShardWriter.write for source s with a record of n bytes: can_write said
\* yes, the line is written, record_write accounts for it.
MutWrite(s, n) ==
    /\ total + n <= MaxTotal
    /\ \E due \in BOOLEAN, free \in Samples :
           ~Refused(s, due, free) /\ AskEffect(s, due, free)
    /\ used' = [used EXCEPT ![s] = @ + n]
    /\ globalUsed' = IF Limited(s) THEN globalUsed + n ELSE globalUsed
    /\ total' = total + n
    /\ UNCHANGED disk
Write(s, n) ==
    /\ total + n <= MaxTotal
    /\ \E due \in BOOLEAN, free \in Samples :
           ~Refused(s, due, free) /\ AskEffect(s, due, free)
    /\ used' = [used EXCEPT ![s] = @ + n]
    /\ globalUsed' = globalUsed + n
    /\ total' = total + n
    /\ UNCHANGED disk

ResumeSource(s) ==
    /\ paused' = [paused EXCEPT ![s] = FALSE]
    /\ UNCHANGED <<used, globalUsed, pausedGlobal, diskFree, disk, total>>

ResumeGlobal ==
    /\ pausedGlobal' = FALSE
    /\ diskFree' \in Samples
    /\ UNCHANGED <<used, paused, globalUsed, disk, total>>

\* Other programs, and the operator, fill and free the disk.
DiskChanges(d) ==
    /\ disk' = d
    /\ UNCHANGED <<used, paused, globalUsed, pausedGlobal, diskFree, total>>

\* A new process builds a new QuotaManager: every count starts at zero.
Restart ==
    /\ CanRestart
    /\ used' = [s \in Sources |-> 0]
    /\ paused' = [s \in Sources |-> FALSE]
    /\ globalUsed' = 0
    /\ pausedGlobal' = FALSE
    /\ diskFree' \in Samples
    /\ UNCHANGED <<disk, total>>

Next ==
    \/ \E s \in Sources : CanWrite(s)
    \/ \E s \in Sources, n \in 1..MaxRecord : Write(s, n)
    \/ \E s \in Sources : ResumeSource(s)
    \/ ResumeGlobal
    \/ \E d \in DiskSizes : DiskChanges(d)
    \/ Restart

Spec == Init /\ [][Next]_vars
-----------------------------------------------------------------------------
\* QuotaManager tests used_bytes against the limit before the record is added,
\* so a limited source, and the sum of all, may pass its limit by less than one
\* record and never by more, however the workers' calls and the operator's
\* resumes interleave.
OvershootBounded ==
    /\ \A s \in Sources : Limited(s) => used[s] < MaxBytes[s] + MaxRecord
    /\ GlobalMax > 0 => globalUsed < GlobalMax + MaxRecord

\* The per-source counters and the global one tell the same story: no path
\* through record_write, the unlimited "_rejected" sources included, moves one
\* without the other.
AccountingAgrees == globalUsed = MapThenSumSet(LAMBDA s : used[s], Sources)

\* can_write flags a source as paused only for its own quota: a global pause
\* must never leave a source stuck with a flag no automatic path ever clears.
PausedIsExhausted == \A s \in Sources : paused[s] => Exhausted(s)

\* A global pause has a reason that is still in force: the global limit is
\* reached, or the last sample of the disk is not above twice the margin (the
\* hysteresis of _maybe_refresh_disk).
GlobalPauseJustified ==
    pausedGlobal => GlobalExhausted \/ diskFree <= SafetyMargin * 2
=============================================================================
