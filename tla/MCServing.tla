------------------------------ MODULE MCServing ------------------------------
(***************************************************************************)
(* The parts of the API server that share nothing but its event loop: in   *)
(* each behaviour one of them is exercised and the others stay as they     *)
(* are, so that the states of one are not multiplied by those of another.  *)
(* Inference is exercised twice: with one request while all the files      *)
(* change ("files"), and with all of them while a pipeline trains one      *)
(* tokenizer and a model for it ("engine").                                *)
(***************************************************************************)
EXTENDS Inference

CONSTANTS
    Limit, Second, Window, Threads, MaxTime,                        \* RateLimiter
    Clients, QueueMax, HistoryMax, Replayed, MaxLines, MaxEvents    \* Streaming

ASSUME ServingAssumption ==
    /\ Limit \in Nat \ {0} /\ Second \in Nat \ {0} /\ Window \in Nat
    /\ IsFiniteSet(Threads) /\ MaxTime \in Nat
    /\ QueueMax \in Nat \ {0} /\ HistoryMax \in Nat \ {0} /\ Replayed \in Nat \ {0}
    /\ MaxLines \in Nat /\ MaxEvents \in Nat

VARIABLES
    part,
    clock, read, bucket, allowed, doorBucket, retryAt, misled,
    lines, next, kind, connection, filter, todo, scheduled, queue, sent, from, until, dropped

L == INSTANCE RateLimiter
S == INSTANCE Streaming WITH stage <- connection

lvars == <<clock, read, bucket, allowed, doorBucket, retryAt, misled>>
svars == <<lines, next, kind, connection, filter, todo, scheduled, queue, sent, from, until, dropped>>
ivars == vars
mcvars == <<part, lvars, svars, ivars>>

MCInit ==
    /\ part \in {"limiter", "door", "streaming", "files", "engine"}
    /\ L!Init /\ S!Init /\ Init
    /\ part # "files" => sameSize
    /\ part # "engine" => \A r \in Requests : asks[r] = "complete"

OneAsks == Cardinality({r \in Requests : stage[r] \notin {"new", "failed"}}) =< 1
OneTokenizer == disk.tokenizer =< 1 /\ ~disk.adapter /\ training = "none"

MCNext ==
    \/ part = "limiter" /\ (L!Shared \/ L!Tick) /\ UNCHANGED <<part, svars, ivars>>
    \/ part = "door" /\ (L!Door \/ L!Tick) /\ UNCHANGED <<part, svars, ivars>>
    \/ part = "streaming" /\ S!Next /\ UNCHANGED <<part, lvars, ivars>>
    \/ part = "files" /\ Next /\ OneAsks' /\ UNCHANGED <<part, lvars, svars>>
    \/ part = "engine" /\ Next /\ OneTokenizer' /\ UNCHANGED <<part, lvars, svars>>

MCSpec == MCInit /\ [][MCNext]_mcvars /\ Fairness

\* Within a window the shared limiter admits no more than its limit, but for
\* threads that were overtaken on the way to the lock.
WindowBound == L!WindowBound

\* A client that waits for as long as the middleware told it is let in.
RetryAfterHonoured == L!RetryAfterHonoured

\* A client of the event stream misses only what fell between its replay and its
\* subscription or found its queue full, and has the rest in order and once.
StreamExplained == S!StreamExplained
=============================================================================
