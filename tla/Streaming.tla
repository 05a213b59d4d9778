------------------------------ MODULE Streaming ------------------------------
(***************************************************************************)
(* The broadcast of events to the clients of the API server: BroadcastHub  *)
(* (modules/utils/streaming.py), its publishers, threads that follow the   *)
(* log of another process or sample the device, and the generators of      *)
(* routes/stream.py, one for each client.                                  *)
(*                                                                         *)
(* An event is its number in the order of publication; kind tells what it  *)
(* is.  A publisher holds the hub's lock throughout, but only schedules a  *)
(* put on the event loop, of which each runs when the loop comes to it: in *)
(* the order scheduled, into a queue that may be full.                     *)
(***************************************************************************)
EXTENDS Integers, FiniteSets, SequencesExt

CONSTANTS
    Clients,        \* connections; one that ends does not come back
    QueueMax,       \* STREAM_QUEUE_MAXSIZE
    HistoryMax,     \* _max_hist
    Replayed,       \* n of recent_history
    MaxLines,       \* bound of the model: lines of the log
    MaxEvents       \* bound of the model: events

VARIABLES
    lines,          \* lines of the log file
    next,           \* next line of the thread that follows it, 0 if not open
    kind,           \* of the events published
    stage,          \* of a client: "new", "replay", "live", "gone"
    filter,         \* the kinds a client has asked for
    todo,           \* history the generator has yet to yield
    scheduled,      \* puts scheduled on the loop
    queue,          \* the subscription's queue
    sent,           \* events that the client was sent
    from, until,    \* history: first event a client may have; last one published
                    \* when it read the history, and when it subscribed
    dropped         \* history: events that found the queue full

client == <<stage, filter, todo, queue, sent, from, until>>
vars == <<lines, next, kind, client, scheduled, dropped>>

Kinds == {"log", "device"}
Events == 1..MaxEvents
Wanted(c, e) == IF kind[e] \in filter[c] THEN <<e>> ELSE << >>

Init ==
    /\ lines = 0 /\ next = 0 /\ kind = << >>
    /\ stage = [c \in Clients |-> "new"]
    /\ filter = [c \in Clients |-> Kinds]
    /\ todo = [c \in Clients |-> << >>]
    /\ scheduled = [c \in Clients |-> << >>]
    /\ queue = [c \in Clients |-> << >>]
    /\ sent = [c \in Clients |-> << >>]
    /\ from = [c \in Clients |-> 1]
    /\ until = [c \in Clients |-> [history |-> 0, subscribed |-> 0]]
    /\ dropped = [c \in Clients |-> {}]

-----------------------------------------------------------------------------
\* publish: into the history, and scheduled for every subscriber.
Publish(k) ==
    /\ Len(kind) < MaxEvents
    /\ kind' = Append(kind, k)
    /\ scheduled' = [c \in Clients |-> IF stage[c] = "live"
                                       THEN Append(scheduled[c], Len(kind')) ELSE scheduled[c]]
    /\ UNCHANGED <<client, dropped>>

\* The process that is being followed logs a line.
Log == lines < MaxLines /\ lines' = lines + 1 /\ UNCHANGED <<next, kind, client, scheduled, dropped>>

\* _tail_loop: the file is opened at its end, then read line by line.
TailOpens == next = 0 /\ next' = lines + 1 /\ UNCHANGED <<lines, kind, client, scheduled, dropped>>
TailReads ==
    /\ next # 0 /\ next =< lines
    /\ next' = next + 1
    /\ Publish("log")
    /\ UNCHANGED lines

\* _loop of the DeviceMonitor.
DeviceSampled == Publish("device") /\ UNCHANGED <<lines, next>>

-----------------------------------------------------------------------------
\* recent_history: the last events of a history that is itself cut off.
RecentHistory ==
    LET first == IF Len(kind) > HistoryMax THEN Len(kind) - HistoryMax + 1 ELSE 1
        last  == [i \in 1..(Len(kind) - first + 1) |-> first + i - 1]
    IN  IF Len(last) > Replayed THEN SubSeq(last, Len(last) - Replayed + 1, Len(last)) ELSE last

\* A request: _event_generator, or ws_events, reads the history.
Connect(c) ==
    /\ stage[c] = "new"
    /\ \E want \in {Kinds, {"log"}} : filter' = [filter EXCEPT ![c] = want]
    /\ stage' = [stage EXCEPT ![c] = "replay"]
    /\ todo' = [todo EXCEPT ![c] = RecentHistory]
    /\ from' = [from EXCEPT ![c] = Len(kind) - Len(RecentHistory) + 1]
    /\ until' = [until EXCEPT ![c].history = Len(kind)]
    /\ UNCHANGED <<lines, next, kind, scheduled, queue, sent, dropped>>

\* One event of the history is passed on; the loop runs others meanwhile.
Replay(c) ==
    /\ stage[c] = "replay" /\ todo[c] # << >>
    /\ sent' = [sent EXCEPT ![c] = @ \o Wanted(c, Head(todo[c]))]
    /\ todo' = [todo EXCEPT ![c] = Tail(@)]
    /\ UNCHANGED <<lines, next, kind, stage, filter, queue, from, until, scheduled, dropped>>

\* subscribe: only when the history has been sent.
MutSubscribe(c) ==
    /\ stage[c] = "replay"
    /\ stage' = [stage EXCEPT ![c] = "live"]
    /\ until' = [until EXCEPT ![c].subscribed = Len(kind)]
    /\ sent' = [sent EXCEPT ![c] = @ \o todo[c]]
    /\ todo' = [todo EXCEPT ![c] = RecentHistory]
    /\ UNCHANGED <<lines, next, kind, filter, queue, from, scheduled, dropped>>
Subscribe(c) ==
    /\ stage[c] = "replay" /\ todo[c] = << >>
    /\ stage' = [stage EXCEPT ![c] = "live"]
    /\ until' = [until EXCEPT ![c].subscribed = Len(kind)]
    /\ UNCHANGED <<lines, next, kind, filter, todo, queue, sent, from, scheduled, dropped>>

\* _safe_put, on the loop: an event that finds the queue full is dropped.
SafePut(c) ==
    /\ scheduled[c] # << >>
    /\ scheduled' = [scheduled EXCEPT ![c] = Tail(@)]
    /\ IF stage[c] = "live" /\ Len(queue[c]) < QueueMax
       THEN queue' = [queue EXCEPT ![c] = Append(@, Head(scheduled[c]))] /\ UNCHANGED dropped
       ELSE dropped' = [dropped EXCEPT ![c] = @ \cup {Head(scheduled[c])}] /\ UNCHANGED queue
    /\ UNCHANGED <<lines, next, kind, stage, filter, todo, sent, from, until>>

\* The generator takes an event from the queue; one it was not asked for it
\* takes and passes over.
Deliver(c) ==
    /\ stage[c] = "live" /\ queue[c] # << >>
    /\ sent' = [sent EXCEPT ![c] = @ \o Wanted(c, Head(queue[c]))]
    /\ queue' = [queue EXCEPT ![c] = Tail(@)]
    /\ UNCHANGED <<lines, next, kind, stage, filter, todo, from, until, scheduled, dropped>>

\* The client goes: the subscription ends with its generator.
Leave(c) ==
    /\ stage[c] \in {"replay", "live"}
    /\ stage' = [stage EXCEPT ![c] = "gone"]
    /\ todo' = [todo EXCEPT ![c] = << >>]
    /\ queue' = [queue EXCEPT ![c] = << >>]
    /\ UNCHANGED <<lines, next, kind, filter, sent, from, until, scheduled, dropped>>

Client(c) == Connect(c) \/ Replay(c) \/ Subscribe(c) \/ SafePut(c) \/ Deliver(c) \/ Leave(c)

Next ==
    \/ Log \/ TailOpens \/ TailReads \/ DeviceSampled
    \/ \E c \in Clients : Client(c)

Spec == Init /\ [][Next]_vars

-----------------------------------------------------------------------------
TypeOK ==
    /\ lines \in 0..MaxLines /\ next \in 0..(MaxLines + 1)
    /\ kind \in Seq(Kinds)
    /\ stage \in [Clients -> {"new", "replay", "live", "gone"}]
    /\ filter \in [Clients -> SUBSET Kinds]
    /\ \A s \in {todo, scheduled, queue, sent} : s \in [Clients -> Seq(Events)]
    /\ from \in [Clients -> 1..(MaxEvents + 1)]
    /\ until \in [Clients -> [history : 0..MaxEvents, subscribed : 0..MaxEvents]]
    /\ dropped \in [Clients -> SUBSET Events]

Increasing(s) == \A i, j \in DOMAIN s : i < j => s[i] < s[j]
Gap(c) == IF stage[c] = "live" THEN (until[c].history + 1)..until[c].subscribed
          ELSE (until[c].history + 1)..Len(kind)

\* _event_generator and ws_events: what a client was sent, will be sent and has
\* queued or scheduled is in the order of publication without a repetition, and
\* of what it asked for nothing is missing since the start of its replay, but
\* for what was published between its reading the history and its subscription
\* and what found its queue full.
StreamExplained ==
    \A c \in Clients : stage[c] \in {"replay", "live"} =>
        LET inLine == sent[c] \o todo[c] \o queue[c] \o scheduled[c]
        IN  /\ Increasing(inLine)
            /\ \A e \in from[c]..Len(kind) : kind[e] \in filter[c] =>
                   e \in ToSet(inLine) \cup Gap(c) \cup dropped[c]
            /\ dropped[c] # {} => Len(kind) - until[c].subscribed > QueueMax
=============================================================================
