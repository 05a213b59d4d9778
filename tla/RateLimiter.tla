----------------------------- MODULE RateLimiter -----------------------------
(***************************************************************************)
(* The two sliding windows.  security.rate_limiter.RateLimiter is shared   *)
(* by threads: check reads the clock before it takes the lock, so that a   *)
(* thread may be overtaken in between.  The middleware of the API runs on  *)
(* the event loop: nothing comes between its clock and its bucket, and the *)
(* client it refuses is told when to come back.  One key each.  The clock  *)
(* does not go back.                                                       *)
(***************************************************************************)
EXTENDS Integers, FiniteSets, SequencesExt

CONSTANTS
    Limit,          \* tier.limit
    Second,         \* ticks of the clock, which is finer than what a header tells
    Window,         \* tier.window_sec, in ticks
    Threads,        \* threads that call check
    MaxTime         \* bound of the model: the clock

VARIABLES
    clock,          \* time.time()
    read,           \* what a thread inside check has read of it, else -1
    bucket,         \* RateLimiter._buckets[key]
    allowed,        \* history, one window: calls admitted, by which
                    \* thread, the time that it had read, the time that it was
    doorBucket,     \* SlidingWindowRateLimiter._buckets[client_key]
    retryAt,        \* the client may come back then, -1 if it was not refused
    misled          \* history: it did so, alone, and was refused again

vars == <<clock, read, bucket, allowed, doorBucket, retryAt, misled>>

Outside == -1

Init ==
    /\ clock = 0
    /\ read = [t \in Threads |-> Outside]
    /\ bucket = << >> /\ allowed = << >>
    /\ doorBucket = << >> /\ retryAt = Outside /\ misled = FALSE

-----------------------------------------------------------------------------
Rest(s, first) == IF first = 0 THEN << >> ELSE SubSeq(s, first, Len(s))

\* What is left of a bucket when everything before the cutoff is taken from its
\* front: a stamp behind a younger one stays.
MutEvictedAtEdge(b, cutoff) == Rest(b, SelectInSeq(b, LAMBDA x : x > cutoff))
Evicted(b, cutoff) == Rest(b, SelectInSeq(b, LAMBDA x : x >= cutoff))

\* The history when what was admitted before the window is forgotten.
InWindow == Rest(allowed, SelectInSeq(allowed, LAMBDA call : call.at >= clock - Window))

\* Calls that were admitted within the window, and that read the clock within it.
Recent == {i \in DOMAIN allowed : allowed[i].at >= clock - Window}
Fresh == {i \in DOMAIN allowed : allowed[i].read >= clock - Window}

\* check, up to the lock.
ReadClock(t) ==
    /\ read[t] = Outside
    /\ read' = [read EXCEPT ![t] = clock]
    /\ UNCHANGED <<clock, bucket, allowed, doorBucket, retryAt, misled>>

\* check, under the lock: the request is recorded, or RateLimitError is raised.
Check(t) ==
    /\ read[t] # Outside
    /\ LET kept == Evicted(bucket, read[t] - Window)
       IN  IF Len(kept) >= Limit
           THEN bucket' = kept /\ UNCHANGED allowed
           ELSE /\ bucket' = Append(kept, read[t])
                /\ allowed' = Append(InWindow, [by |-> t, read |-> read[t], at |-> clock])
    /\ read' = [read EXCEPT ![t] = Outside]
    /\ UNCHANGED <<clock, doorBucket, retryAt, misled>>

\* Retry-After of a refusal, in whole seconds: int() cuts off the fraction.
MutRetryAfter(b) == (Window - (clock - b[1])) \div Second
RetryAfter(b) == (Window - (clock - b[1])) \div Second + 1

\* dispatch, of the client that was refused or of another behind the same key.
\* A client that waited as long as it was told, while no other was let in,
\* should not be refused.
Dispatch(other) ==
    /\ LET kept == Evicted(doorBucket, clock - Window)
           due  == ~other /\ retryAt # Outside /\ clock >= retryAt
       IN  IF Len(kept) >= Limit
           THEN /\ doorBucket' = kept
                /\ retryAt' = IF other THEN retryAt ELSE clock + Second * RetryAfter(kept)
                /\ misled' = (misled \/ due)
           ELSE /\ doorBucket' = Append(kept, clock)
                /\ retryAt' = Outside
                /\ UNCHANGED misled
    /\ UNCHANGED <<clock, read, bucket, allowed>>

Tick == clock < MaxTime /\ clock' = clock + 1 /\ UNCHANGED <<read, bucket, allowed, doorBucket, retryAt, misled>>

Shared == \E t \in Threads : ReadClock(t) \/ Check(t)
Door == \E other \in BOOLEAN : Dispatch(other)
Next == Shared \/ Door \/ Tick

Spec == Init /\ [][Next]_vars

-----------------------------------------------------------------------------
TypeOK ==
    /\ clock \in 0..MaxTime
    /\ read \in [Threads -> 0..MaxTime \cup {Outside}]
    /\ bucket \in Seq(0..MaxTime) /\ doorBucket \in Seq(0..MaxTime)
    /\ allowed \in Seq([by : Threads, read : 0..MaxTime, at : 0..MaxTime])
    /\ retryAt \in Nat \cup {Outside}
    /\ misled \in BOOLEAN

\* RateLimiter.check: of the calls admitted within a window, both ends included,
\* no more than the limit read the clock within it; those that read it before
\* and were overtaken on the way to the lock come on top, one per thread.
WindowBound ==
    /\ Cardinality(Fresh) =< Limit
    /\ Cardinality(Recent) =< Limit + Cardinality(Threads)

\* SlidingWindowRateLimiter.dispatch: a client that comes back after Retry-After
\* and finds that none was let in meanwhile is let in.
RetryAfterHonoured == ~misled
=============================================================================
