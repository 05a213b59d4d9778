------------------------------ MODULE MCPipeline ------------------------------
(***************************************************************************)
(* The parts of the data pipeline around its source workers: the           *)
(* orchestrator that starts them, the quota manager they share and the     *)
(* checkpoint of one of them.  SourceWorker has what a worker does with    *)
(* them; here they are checked and proved one at a time, and a             *)
(* configuration says which.                                               *)
(***************************************************************************)
EXTENDS Orchestrator

CONSTANTS
    Part,                                                                   \* "orchestrator", "quota" or "checkpoint"
    Writers, MaxBytes, GlobalMax, SafetyMargin, MaxRecord,                  \* QuotaManager
    DiskSizes, AssumedFree, CanRestart, MaxTotal,
    ReuseRunIds, CanForce, Absent, Torn, MaxRuns, MaxStarts, MaxOffset      \* Checkpoint

VARIABLES
    used, paused, globalUsed, pausedGlobal, diskFree, disk, total,
    file, tmp, cp, rid, anew, resume, counted, phase, saving, starts, latest, reached

Q == INSTANCE QuotaManager WITH Sources <- Writers
C == INSTANCE Checkpoint

ASSUME QuotaParameters == Q!QuotaAssumption
ASSUME CheckpointParameters == C!CheckpointAssumption

ovars == vars
qvars == <<used, paused, globalUsed, pausedGlobal, diskFree, disk, total>>
cvars == <<file, tmp, cp, rid, anew, resume, counted, phase, saving, starts, latest, reached>>
mcvars == <<ovars, qvars, cvars>>

MCInit ==
    /\ Init /\ Q!Init /\ C!Init
    /\ Part # "checkpoint" => anew
    /\ Part # "quota" => diskFree = disk /\ \A d \in DiskSizes : d <= disk

MCNext ==
    \/ Part = "orchestrator" /\ Next /\ UNCHANGED <<qvars, cvars>>
    \/ Part = "quota" /\ Q!Next /\ UNCHANGED <<ovars, cvars>>
    \/ Part = "checkpoint" /\ C!Next /\ UNCHANGED <<ovars, qvars>>

MCSpec == MCInit /\ [][MCNext]_mcvars /\ Fairness

\* The quotas hold but for less than a record, and the accounts agree.
OvershootBounded == Q!OvershootBounded
AccountingAgrees == Q!AccountingAgrees

\* A global pause has a reason that is still in force.
GlobalPauseJustified == Q!GlobalPauseJustified

\* No checkpoint file is torn, none moves back but where an extractor counts
\* anew, and processes that only crash resume from the one saved last.
NeverTorn == C!NeverTorn
FilesMoveForward == C!FilesMoveForward
ResumesAfterCrashes == C!ResumesAfterCrashes

\* The instances that are checked: four sources, two at a time; a limited
\* source beside an unlimited one, the writer of rejected documents.
CONSTANTS wikipedia, arxiv, gutenberg, github, rejected

MCOrder == <<wikipedia, arxiv, gutenberg, github>>
MCWriters == {wikipedia, rejected}
MCMaxBytes == [s \in MCWriters |-> IF s = wikipedia THEN 3 ELSE 0]
MCDiskSizes == {0, 2, 3}
=============================================================================
