------------------------------ MODULE Checkpoint ------------------------------
(***************************************************************************)
(* The checkpoint of one source (data_pipeline/core/checkpoint.py) across  *)
(* the processes that work on it: what is in memory, what is in the file   *)
(* of each run, and which file a new process takes up.                     *)
(*                                                                         *)
(* A checkpoint is reduced to what decides where work resumes: the offset  *)
(* in the stream and the two flags.  Saving is write temp, then rename; a  *)
(* process may end between the steps, and an error is swallowed.           *)
(*                                                                         *)
(* update_stream assigns the offset it is given, and the extractors do not *)
(* agree on what that is.  Wikipedia (bytes of a dump, lines of a local    *)
(* file), arXiv (lines) and Gutenberg count on from the offset they took   *)
(* up; GitHub, Common Crawl and Stack Exchange count the bytes of their    *)
(* own process, from 0.                                                    *)
(***************************************************************************)
EXTENDS Integers

CONSTANTS
    ReuseRunIds,    \* whether a new process may be given an old --run-id
    CanForce,       \* whether --force may be given
    Absent,         \* no such file
    Torn,           \* a file whose writing was cut short
    MaxRuns,        \* bounds of the model: run ids,
    MaxStarts,      \* processes,
    MaxOffset       \* and the length of the stream

Ckpt == [offset : 0..MaxOffset, completed : BOOLEAN, failed : BOOLEAN]
Runs == 1..MaxRuns
File == Ckpt \cup {Absent, Torn}

\* What the other definitions take for granted of the parameters.
CheckpointAssumption ==
    /\ ReuseRunIds \in BOOLEAN
    /\ CanForce \in BOOLEAN
    /\ Absent \notin Ckpt /\ Torn \notin Ckpt /\ Absent # Torn
    /\ MaxRuns \in Nat /\ MaxStarts \in Nat /\ MaxOffset \in Nat

VARIABLES
    file,           \* {run}_{source}_checkpoint.json
    tmp,            \* {run}_{source}_checkpoint.tmp.json
    cp,             \* the checkpoint in memory
    rid,            \* _run_id of the current (or latest) process
    anew,           \* whether the source's extractor counts from 0 in every process
    resume,         \* _resume_offset: the offset the process took up
    counted,        \* what its extractor has counted since
    phase,          \* "down", "working" on the source, or "ended"
    saving,         \* where a save is: "no", "begun" or "written"
    starts,         \* history: how many processes were started
    latest,         \* history: the offset of the checkpoint saved last,
    reached         \* and the highest any saved checkpoint had

extractor == <<anew, resume, counted>>
history == <<starts, latest, reached>>
vars == <<file, tmp, cp, rid, extractor, phase, saving, history>>

New == [offset |-> 0, completed |-> FALSE, failed |-> FALSE]
Finished(c) == c.completed \/ c.failed

TypeOK ==
    /\ file \in [Runs -> File]
    /\ tmp \in [Runs -> File]
    /\ cp \in Ckpt
    /\ rid \in 0..MaxRuns
    /\ anew \in BOOLEAN
    /\ resume \in 0..MaxOffset /\ counted \in 0..MaxOffset
    /\ phase \in {"down", "working", "ended"}
    /\ phase # "down" => rid # 0
    /\ saving \in {"no", "begun", "written"}
    /\ starts \in Nat
    /\ latest \in 0..MaxOffset /\ reached \in 0..MaxOffset

Init ==
    /\ file = [r \in Runs |-> Absent]
    /\ tmp = file
    /\ cp = New
    /\ rid = 0
    /\ anew \in BOOLEAN
    /\ resume = 0 /\ counted = 0
    /\ phase = "down"
    /\ saving = "no"
    /\ starts = 0
    /\ latest = 0 /\ reached = 0

-----------------------------------------------------------------------------
\* _load_or_create: of the files that can be read and are neither completed
\* nor failed, the one with the highest run id; a new checkpoint if none is.
Resumable == {r \in Runs : file[r] \in Ckpt /\ ~Finished(file[r])}
MutLoads(c) == \/ Resumable = {} /\ c = New
               \/ \E r \in Resumable : (\A q \in Resumable : r <= q) /\ c = file[r]
Loads(c) == \/ Resumable = {} /\ c = New
            \/ \E r \in Resumable : (\A q \in Resumable : q <= r) /\ c = file[r]

\* A new process looks at the source (_discover_sources): --force clears the
\* flags and saves; a checkpoint that is completed would be skipped.
Start(r, force) ==
    /\ phase = "down" /\ starts < MaxStarts
    /\ r \in IF ReuseRunIds THEN {rid, rid + 1} ELSE {rid + 1}
    /\ force => CanForce
    /\ \E c \in Ckpt :
          /\ Loads(c)
          /\ force \/ ~c.completed
          /\ cp' = IF force THEN [c EXCEPT !.completed = FALSE, !.failed = FALSE] ELSE c
    /\ rid' = r
    /\ resume' = cp'.offset /\ counted' = 0
    /\ phase' = "working"
    /\ saving' = IF force THEN "begun" ELSE "no"
    /\ starts' = starts + 1
    /\ UNCHANGED <<file, tmp, anew, latest, reached>>

\* The offset an extractor reports when it has counted n.
Reports(n) == IF anew THEN n ELSE resume + n

\* update_stream: the extractor took one more document, of the chunk it was at
\* (Stack Exchange counts a chunk only after its documents) or a later one.
MutAdvance ==
    /\ phase = "working" /\ saving = "no"
    /\ \E n \in {counted, counted + 1} :
          /\ n <= MaxOffset
          /\ counted' = n
          /\ cp' = [cp EXCEPT !.offset = n]
    /\ UNCHANGED <<file, tmp, rid, anew, resume, phase, saving, history>>
Advance ==
    /\ phase = "working" /\ saving = "no"
    /\ \E n \in {counted, counted + 1} :
          /\ n <= MaxOffset /\ Reports(n) <= MaxOffset
          /\ counted' = n
          /\ cp' = [cp EXCEPT !.offset = Reports(n)]
    /\ UNCHANGED <<file, tmp, rid, anew, resume, phase, saving, history>>

\* mark_completed, mark_failed: set the flag and save.
MarkCompleted ==
    /\ phase = "working" /\ saving = "no"
    /\ cp' = [cp EXCEPT !.completed = TRUE]
    /\ phase' = "ended"
    /\ saving' = "begun"
    /\ UNCHANGED <<file, tmp, rid, extractor, history>>

MarkFailed ==
    /\ phase = "working" /\ saving = "no"
    /\ cp' = [cp EXCEPT !.failed = TRUE]
    /\ phase' = "ended"
    /\ saving' = "begun"
    /\ UNCHANGED <<file, tmp, rid, extractor, history>>

\* save is called: after some batches, by a rotation or a close of a shard
\* writer (also once the source has ended), by save_all.  Opening the temp file
\* empties it.
SaveBegins ==
    /\ phase # "down" /\ saving = "no"
    /\ saving' = "begun"
    /\ UNCHANGED <<file, tmp, cp, rid, extractor, phase, history>>

MutSaveWrites ==
    /\ saving = "begun"
    /\ \/ file' = [file EXCEPT ![rid] = Torn] /\ saving' = "begun"
       \/ file' = [file EXCEPT ![rid] = cp] /\ saving' = "no"
    /\ UNCHANGED <<tmp, cp, rid, extractor, phase, history>>
SaveWrites ==
    /\ saving = "begun"
    /\ \/ tmp' = [tmp EXCEPT ![rid] = Torn] /\ saving' = "begun"
       \/ tmp' = [tmp EXCEPT ![rid] = cp] /\ saving' = "written"
    /\ UNCHANGED <<file, cp, rid, extractor, phase, history>>

SaveReplaces ==
    /\ saving = "written"
    /\ file' = [file EXCEPT ![rid] = tmp[rid]]
    /\ tmp' = [tmp EXCEPT ![rid] = Absent]
    /\ saving' = "no"
    /\ latest' = cp.offset
    /\ reached' = IF cp.offset > reached THEN cp.offset ELSE reached
    /\ UNCHANGED <<cp, rid, extractor, phase, starts>>

\* Any error of the save is logged, the temp file is removed, and the caller
\* goes on as if it had been saved.
SaveFails ==
    /\ saving # "no"
    /\ tmp' = [tmp EXCEPT ![rid] = Absent]
    /\ saving' = "no"
    /\ UNCHANGED <<file, cp, rid, extractor, phase, history>>

\* The process ends, in order or not.
ProcessEnds ==
    /\ phase # "down"
    /\ phase' = "down"
    /\ saving' = "no"
    /\ cp' = New
    /\ UNCHANGED <<file, tmp, rid, extractor, history>>

Next ==
    \/ \E r \in Runs, force \in BOOLEAN : Start(r, force)
    \/ Advance
    \/ MarkCompleted
    \/ MarkFailed
    \/ SaveBegins
    \/ SaveWrites
    \/ SaveReplaces
    \/ SaveFails
    \/ ProcessEnds

Spec == Init /\ [][Next]_vars
-----------------------------------------------------------------------------
\* checkpoint.py:16: "a crash at any point leaves the previous valid checkpoint
\* intact".  No file a later process may read is ever torn.
NeverTorn == \A r \in Runs : file[r] # Torn

\* What is saved under a run never loses a flag, whatever saves fail and whoever
\* else saves after the source has ended; and its offset falls only where an
\* extractor that counts anew had its process's inherited offset in the file:
\* once, and never below what that process has read itself.
FilesMoveForward ==
    [][\A r \in Runs : file[r] \in Ckpt =>
          /\ \/ file'[r].offset >= file[r].offset
             \/ anew /\ r = rid /\ file[r].offset = resume /\ file'[r].offset = counted
          /\ file[r].completed => file'[r].completed
          /\ file[r].failed => file'[r].failed]_vars

\* A run of processes that only crash (none completes, fails or is forced)
\* resumes every time from the checkpoint saved last, and if the extractor
\* counts on, that is the most advanced one: the newest file is the right one
\* although nothing in it says when it was written.
ResumesAfterCrashes ==
    [][phase = "down" /\ phase' = "working"
          /\ (\A r \in Runs : file[r] \in Ckpt => ~Finished(file[r]))
       => /\ cp'.offset = latest
          /\ ~anew => latest = reached]_vars

=============================================================================
