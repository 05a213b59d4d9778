------------------------------ MODULE Inference ------------------------------
(***************************************************************************)
(* Inference in the API server (api_manager/routes/inference.py, stream.py *)
(* and inference/engine), while the operator launches trainings and        *)
(* pipelines from it (routes/admin.py) that replace the files it was       *)
(* loaded from.                                                            *)
(*                                                                         *)
(* Handlers run on one event loop, a step of which ends at an await.  A    *)
(* tokenizer, and a model trained with it, are given by the version of the *)
(* vocabulary; a file saved by an adapter fits no model.  A model's file   *)
(* verifies once its checksum is written.  Tokenizer and engine are loaded *)
(* at the first request that needs them and kept while the process runs.   *)
(***************************************************************************)
EXTENDS Integers, FiniteSets, SequencesExt

CONSTANTS
    Requests,       \* each is made once
    Versions        \* bound of the model: tokenizers that are trained

ASSUME InferenceAssumption == Versions \in Nat

VARIABLES
    disk,           \* version of the vocabulary, 0 for none; are there merges; the
                    \* latest plain and the merged model; is an adapter's latest
    sameSize,       \* do all tokenizers have one vocabulary size
    tokenizer,      \* _tokenizer, 0 for None
    engine,         \* _engine: versions of its tokenizer and model, or NoEngine
    asks,           \* what a request asks for: "complete", "stream", "socket"
    stage,          \* of a request: "new", "waiting", "awaiting", "sending",
                    \* "answered", "failed", "gone"
    waiters,        \* of the engine's lock, in order
    holder,         \* of the engine's lock: a set of at most one request
    job,            \* of a request, in the executor: "none", "queued", "running",
                    \* "returned", "raised", "over"
    training,       \* _training_proc: "none" that runs, "running", "terminated"
    pipeline        \* is a pipeline running that the server started

files == <<disk, sameSize>>
loaded == <<tokenizer, engine>>
lock == <<waiters, holder>>
procs == <<training, pipeline>>
vars == <<files, loaded, asks, stage, lock, job, procs>>

NoEngine == [tokenizer |-> 0, model |-> -1]
NoModel == [of |-> 0, sealed |-> TRUE]

Init ==
    /\ disk = [tokenizer |-> 0, merges |-> FALSE, plain |-> NoModel, merged |-> NoModel, adapter |-> FALSE]
    /\ sameSize \in BOOLEAN
    /\ tokenizer = 0 /\ engine = NoEngine
    /\ asks \in [Requests -> {"complete", "stream", "socket"}]
    /\ stage = [r \in Requests |-> "new"]
    /\ waiters = << >> /\ holder = {}
    /\ job = [r \in Requests |-> "none"]
    /\ training = "none" /\ pipeline = FALSE

-----------------------------------------------------------------------------
\* _load_tokenizer: what is cached, else what is on the disk; 0 if it raises.
LoadTokenizer ==
    IF tokenizer # 0 THEN tokenizer ELSE IF disk.merges THEN disk.tokenizer ELSE 0

\* The checkpoint _load_model takes: the merged one, else the latest that no
\* adapter has saved, else none.
Unfit == [of |-> -2, sealed |-> TRUE]
MutLatest == IF disk.merged # NoModel THEN disk.merged ELSE IF disk.adapter THEN Unfit ELSE disk.plain
Latest == IF disk.merged # NoModel THEN disk.merged ELSE disk.plain

\* load_checkpoint, which verifies the checksum, into a model built for the
\* tokenizer.
Fits(tok, m) == m.sealed /\ (m = NoModel \/ m.of = tok \/ (m.of > 0 /\ sameSize))

\* _get_engine, which may leave the tokenizer loaded and no engine.
GetEngine ==
    /\ tokenizer' = LoadTokenizer
    /\ engine' = IF engine = NoEngine /\ tokenizer' # 0 /\ Fits(tokenizer', Latest)
                 THEN [tokenizer |-> tokenizer', model |-> Latest.of] ELSE engine

\* lifespan: the engine is loaded at the start if any model is there.
Prewarm ==
    /\ \A r \in Requests : stage[r] = "new"
    /\ disk.plain # NoModel \/ disk.merged # NoModel \/ disk.adapter
    /\ GetEngine
    /\ UNCHANGED <<files, asks, stage, lock, job, procs>>

\* tokenize and detokenize.
Tokenize == tokenizer' = LoadTokenizer /\ UNCHANGED <<files, engine, asks, stage, lock, job, procs>>

\* generate, chat and grounded, up to the engine's lock.
Generate(r) ==
    /\ stage[r] = "new" /\ asks[r] # "socket"
    /\ GetEngine
    /\ IF engine' = NoEngine
       THEN stage' = [stage EXCEPT ![r] = "failed"] /\ UNCHANGED waiters
       ELSE stage' = [stage EXCEPT ![r] = "waiting"] /\ waiters' = Append(waiters, r)
    /\ UNCHANGED <<files, asks, holder, job, procs>>

\* ws_infer: the engine that another request has loaded, or an error.
WsInfer(r) ==
    /\ stage[r] = "new" /\ asks[r] = "socket"
    /\ IF engine = NoEngine
       THEN stage' = [stage EXCEPT ![r] = "failed"] /\ UNCHANGED waiters
       ELSE stage' = [stage EXCEPT ![r] = "waiting"] /\ waiters' = Append(waiters, r)
    /\ UNCHANGED <<files, loaded, asks, holder, job, procs>>

-----------------------------------------------------------------------------
\* async with self._lock, and the job handed to the executor.
MutAcquire(r) ==
    /\ stage[r] = "waiting"
    /\ waiters' = RemoveFirst(waiters, r) /\ holder' = {r}
    /\ stage' = [stage EXCEPT ![r] = "awaiting"]
    /\ job' = [job EXCEPT ![r] = "queued"]
    /\ UNCHANGED <<files, loaded, asks, procs>>
Acquire(r) ==
    /\ holder = {} /\ waiters # << >> /\ Head(waiters) = r
    /\ waiters' = Tail(waiters) /\ holder' = {r}
    /\ stage' = [stage EXCEPT ![r] = "awaiting"]
    /\ job' = [job EXCEPT ![r] = "queued"]
    /\ UNCHANGED <<files, loaded, asks, procs>>

Running == {r \in Requests : job[r] = "running"}

\* A thread of the executor, when one is free, with whatever the model makes of
\* the prompt: _complete_sync, or the list of a StreamingSampler.
JobStarts(r) ==
    /\ job[r] = "queued"
    /\ job' = [job EXCEPT ![r] = "running"]
    /\ UNCHANGED <<files, loaded, asks, stage, lock, procs>>
JobEnds(r) ==
    /\ job[r] = "running"
    /\ \E end \in {"returned", "raised"} : job' = [job EXCEPT ![r] = end]
    /\ UNCHANGED <<files, loaded, asks, stage, lock, procs>>

\* Back on the loop: the lock is released, by an error too.
MutResume(r) ==
    /\ stage[r] = "awaiting" /\ job[r] \in {"returned", "raised"}
    /\ holder' = IF job[r] = "raised" THEN holder ELSE {}
    /\ job' = [job EXCEPT ![r] = "over"]
    /\ stage' = [stage EXCEPT ![r] = IF job[r] = "raised" THEN "failed" ELSE "sending"]
    /\ UNCHANGED <<files, loaded, asks, waiters, procs>>
Resume(r) ==
    /\ stage[r] = "awaiting" /\ job[r] \in {"returned", "raised"}
    /\ holder' = {}
    /\ job' = [job EXCEPT ![r] = "over"]
    /\ stage' = [stage EXCEPT ![r] = IF job[r] = "raised" THEN "failed" ELSE "sending"]
    /\ UNCHANGED <<files, loaded, asks, waiters, procs>>

\* The text, or one token after the other, from a list that is complete.
Answer(r) ==
    /\ stage[r] = "sending"
    /\ stage' = [stage EXCEPT ![r] = "answered"]
    /\ UNCHANGED <<files, loaded, asks, lock, job, procs>>

\* The client of a stream goes: its generator is cancelled, wherever it waits. A
\* thread that has begun goes on without it.
Cancel(r) ==
    /\ asks[r] = "stream" /\ stage[r] \in {"waiting", "awaiting", "sending"}
    /\ stage' = [stage EXCEPT ![r] = "gone"]
    /\ waiters' = RemoveFirst(waiters, r)
    /\ holder' = holder \ {r}
    /\ job' = [job EXCEPT ![r] = IF @ = "queued" THEN "over" ELSE @]
    /\ UNCHANGED <<files, loaded, asks, procs>>

-----------------------------------------------------------------------------
\* launch_training and stop_training.
Launch ==
    /\ training = "none"
    /\ training' = "running"
    /\ UNCHANGED <<files, loaded, asks, stage, lock, job, pipeline>>
StopTraining ==
    /\ training = "running"
    /\ training' = "terminated"
    /\ UNCHANGED <<files, loaded, asks, stage, lock, job, pipeline>>

\* run_pipeline, which asks for nothing.
RunPipeline ==
    /\ pipeline' = TRUE
    /\ UNCHANGED <<files, loaded, asks, stage, lock, job, training>>

\* save_checkpoint, up to the checksum: a plain model's <name>.tmp.pt, which has
\* none, is found as soon as it is written to.
Unsealed == [of : IF disk.merges THEN 1..disk.tokenizer ELSE {}, sealed : {FALSE}]

\* What the processes do: a vocabulary is trained, and its merges; models are
\* saved, by trainings that may have begun with an earlier vocabulary, and
\* merged.
Saves ==
    /\ training \in {"running", "terminated"} \/ pipeline
    /\ \/ pipeline /\ disk.tokenizer < Versions
          /\ disk' = [disk EXCEPT !.tokenizer = @ + 1]
       \/ pipeline /\ disk.tokenizer # 0 /\ disk' = [disk EXCEPT !.merges = TRUE]
       \/ \E m \in Unsealed : disk' = [disk EXCEPT !.plain = m, !.adapter = FALSE]
       \/ disk' = [disk EXCEPT !.adapter = TRUE]
       \/ disk.adapter /\ \E m \in Unsealed : disk' = [disk EXCEPT !.merged = m]
    /\ UNCHANGED <<sameSize, loaded, asks, stage, lock, job, procs>>

\* The checksum of the model saved last is written; a process that ends before
\* that has left it without.
Seals ==
    /\ training \in {"running", "terminated"} \/ pipeline
    /\ \/ disk' = [disk EXCEPT !.plain.sealed = TRUE]
       \/ disk' = [disk EXCEPT !.merged.sealed = TRUE]
    /\ UNCHANGED <<sameSize, loaded, asks, stage, lock, job, procs>>
Exits ==
    /\ \/ training \in {"running", "terminated"} /\ training' = "none" /\ UNCHANGED pipeline
       \/ pipeline /\ pipeline' = FALSE /\ UNCHANGED training
    /\ UNCHANGED <<files, loaded, asks, stage, lock, job>>

Serve(r) == Generate(r) \/ WsInfer(r) \/ Acquire(r) \/ Resume(r) \/ Answer(r)
Thread(r) == JobStarts(r) \/ JobEnds(r)

Next ==
    \/ Prewarm \/ Tokenize
    \/ \E r \in Requests : Serve(r) \/ Thread(r) \/ Cancel(r)
    \/ Launch \/ StopTraining \/ RunPipeline \/ Saves \/ Seals \/ Exits

Fairness == \A r \in Requests : WF_vars(Acquire(r) \/ Resume(r) \/ Answer(r)) /\ WF_vars(Thread(r))
Spec == Init /\ [][Next]_vars /\ Fairness

-----------------------------------------------------------------------------
Models == [of : 0..Versions, sealed : BOOLEAN]
TypeOK ==
    /\ disk \in [tokenizer : 0..Versions, merges : BOOLEAN, plain : Models, merged : Models, adapter : BOOLEAN]
    /\ sameSize \in BOOLEAN
    /\ tokenizer \in 0..Versions
    /\ engine = NoEngine \/ engine \in [tokenizer : 1..Versions, model : 0..Versions]
    /\ stage \in [Requests -> {"new", "waiting", "awaiting", "sending", "answered", "failed", "gone"}]
    /\ waiters \in Seq(Requests) /\ holder \in SUBSET Requests
    /\ job \in [Requests -> {"none", "queued", "running", "returned", "raised", "over"}]
    /\ training \in {"none", "running", "terminated"} /\ pipeline \in BOOLEAN

\* InferenceEngine: two texts are generated at once only if the clients of all
\* but one have gone; and who waits for a text holds the lock.
OverlapOnlyAbandoned ==
    /\ Cardinality({r \in Running : stage[r] = "awaiting"}) =< 1
    /\ \A r \in Requests : stage[r] = "awaiting" => holder = {r}

\* _get_engine: where the model to be loaded was trained with the tokenizer on
\* the disk and is completely saved, a request fails for want of an engine only
\* if the server has kept a tokenizer that has been replaced since.
Usable(m) == m.of # 0 /\ m.of = disk.tokenizer /\ m.sealed
RefusedOnlyIfStale ==
    [][\A r \in Requests :
        stage[r] = "new" /\ stage'[r] = "failed" /\ asks[r] # "socket"
        /\ (Usable(disk.merged) \/ (disk.merged = NoModel /\ Usable(disk.plain)))
            => tokenizer \notin {0, disk.tokenizer}]_vars

\* Every request that waits for the engine is answered or fails, or its client
\* goes: neither an error nor a cancellation leaves the lock held.
EveryRequestEnds ==
    \A r \in Requests : stage[r] = "waiting" ~> stage[r] \in {"answered", "failed", "gone"}
=============================================================================
