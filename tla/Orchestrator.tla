----------------------------- MODULE Orchestrator -----------------------------
(***************************************************************************)
(* One run of the orchestrator (data_pipeline/workers/                     *)
(* pipeline_orchestrator.py): a task per source, a semaphore that limits   *)
(* how many work at a time, and the stop event the signal handler sets.    *)
(* What a worker does with its source is in SourceWorker; here it works,   *)
(* or ends.                                                                *)
(***************************************************************************)
EXTENDS Integers, Sequences, FiniteSets

CONSTANTS
    Order,          \* the discovered sources, in the order of the configuration
    MaxConcurrent,  \* max_concurrent_sources
    CanStop,        \* whether SIGINT or SIGTERM may arrive
    CanFail         \* whether building or running a worker may fail

Sources == {Order[i] : i \in DOMAIN Order}
Position(s) == CHOOSE i \in DOMAIN Order : Order[i] = s

ASSUME OrchestratorAssumption ==
    /\ Order \in Seq(Sources)
    /\ \A i, j \in DOMAIN Order : i # j => Order[i] # Order[j]
    /\ MaxConcurrent \in Nat \ {0}
    /\ CanStop \in BOOLEAN /\ CanFail \in BOOLEAN

VARIABLES
    task,       \* "waiting" for the semaphore, "working" or "finished"
    permits,    \* the value of the semaphore
    stop,       \* _stop_event
    result,     \* _results: the status of a source, "none" if it has none
    mark,       \* its checkpoint: "none", "completed" or "failed"
    over,       \* gather has returned and save_all was called
    began,      \* history: the sources a worker was built for, in that order
    late,       \* history: sources whose worker was built after the stop
    broken      \* history: sources that failed

history == <<began, late, broken>>
vars == <<task, permits, stop, result, mark, over, began, late, broken>>

TypeOK ==
    /\ task \in [Sources -> {"waiting", "working", "finished"}]
    /\ permits \in 0..MaxConcurrent
    /\ stop \in BOOLEAN /\ over \in BOOLEAN
    /\ result \in [Sources -> {"none", "completed", "failed"}]
    /\ mark \in [Sources -> {"none", "completed", "failed"}]
    /\ began \in Seq(Sources)
    /\ late \subseteq Sources /\ broken \subseteq Sources

Init ==
    /\ task = [s \in Sources |-> "waiting"]
    /\ permits = MaxConcurrent
    /\ stop = FALSE /\ over = FALSE
    /\ result = [s \in Sources |-> "none"]
    /\ mark = result
    /\ began = <<>>
    /\ late = {} /\ broken = {}

-----------------------------------------------------------------------------
\* asyncio.Semaphore serves its waiters first in, first out, and the tasks have
\* queued in the order in which they were created.
NextInLine(s) ==
    /\ task[s] = "waiting"
    /\ \A r \in Sources : Position(r) < Position(s) => task[r] # "waiting"

\* A task gets the semaphore: after a stop, or when no worker can be built, it
\* gives it back at once; otherwise its worker begins.
StopSeen == stop

Acquire(s) ==
    /\ NextInLine(s) /\ permits > 0
    /\ \/ /\ StopSeen
          /\ task' = [task EXCEPT ![s] = "finished"]
          /\ UNCHANGED <<permits, history>>
       \/ /\ ~StopSeen /\ CanFail
          /\ task' = [task EXCEPT ![s] = "finished"]
          /\ broken' = broken \cup {s}
          /\ UNCHANGED <<permits, began, late>>
       \/ /\ ~StopSeen
          /\ task' = [task EXCEPT ![s] = "working"]
          /\ permits' = permits - 1
          /\ began' = Append(began, s)
          /\ late' = IF stop THEN late \cup {s} ELSE late
          /\ UNCHANGED broken
    /\ UNCHANGED <<stop, result, mark, over>>

\* The task leaves the semaphore, however its worker ended.
Release(s) ==
    /\ task[s] = "working"
    /\ task' = [task EXCEPT ![s] = "finished"]
    /\ permits' = permits + 1
    /\ UNCHANGED <<stop, over, began, late>>

\* The worker's loop ends: the stream is exhausted, a stop was requested, or
\* the quota manager refuses the next document.
WorkerCompletes(s) ==
    /\ Release(s)
    /\ result' = [result EXCEPT ![s] = "completed"]
    /\ mark' = [mark EXCEPT ![s] = "completed"]
    /\ UNCHANGED broken

\* The worker catches what its loop raises ...
WorkerFails(s) ==
    /\ CanFail
    /\ Release(s)
    /\ result' = [result EXCEPT ![s] = "failed"]
    /\ mark' = [mark EXCEPT ![s] = "failed"]
    /\ broken' = broken \cup {s}

\* ... but not what building its writers and its pipeline raises: gather keeps
\* the exception and nobody looks at it.
MutWorkerRaises(s) ==
    /\ CanFail
    /\ task[s] = "working"
    /\ task' = [task EXCEPT ![s] = "finished"]
    /\ broken' = broken \cup {s}
    /\ UNCHANGED <<permits, stop, over, began, late, result, mark>>
WorkerRaises(s) ==
    /\ CanFail
    /\ Release(s)
    /\ broken' = broken \cup {s}
    /\ UNCHANGED <<result, mark>>

RequestStop ==
    /\ CanStop /\ ~stop
    /\ stop' = TRUE
    /\ UNCHANGED <<task, permits, result, mark, over, history>>

\* gather returns when every task is done, and the checkpoints are saved.
MutAllDone == \E s \in Sources : task[s] = "finished"
AllDone == \A s \in Sources : task[s] = "finished"
GatherReturns ==
    /\ ~over
    /\ AllDone
    /\ over' = TRUE
    /\ UNCHANGED <<task, permits, stop, result, mark, history>>

Ends(s) == WorkerCompletes(s) \/ WorkerFails(s) \/ WorkerRaises(s)

Next ==
    \/ \E s \in Sources : Acquire(s)
    \/ \E s \in Sources : WorkerCompletes(s) \/ WorkerFails(s) \/ WorkerRaises(s)
    \/ RequestStop
    \/ GatherReturns

Spec == Init /\ [][Next]_vars

\* The event loop runs every task that is ready, and streams are finite.
Fairness == \A s \in Sources : /\ WF_vars(Acquire(s)) /\ WF_vars(Ends(s))
                               /\ WF_vars(GatherReturns)
-----------------------------------------------------------------------------
Working == {s \in Sources : task[s] = "working"}

\* A permit is never lost: not by a task that ends at once, nor by a worker
\* that raises.
PermitsConserved == permits + Cardinality(Working) = MaxConcurrent

\* No source is begun once a stop was requested, although most tasks were
\* created and queued long before.
NoneBeginsAfterStop == late = {}

\* Sources are begun in the order of the configuration.
BegunInOrder ==
    \A i, j \in DOMAIN began : i < j => Position(began[i]) < Position(began[j])

\* When the run is over no worker is left, and every source has a result that
\* its checkpoint bears out, unless it was stopped or broke.
OverMeansDone ==
    over => /\ Working = {}
            /\ \A s \in Sources : /\ result[s] # "none" => mark[s] = result[s]
                                  /\ result[s] = "none" => stop \/ s \in broken

\* The run always comes to an end.
Finishes == <>over
=============================================================================
