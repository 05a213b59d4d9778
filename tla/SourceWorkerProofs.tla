-------------------------- MODULE SourceWorkerProofs --------------------------
(***************************************************************************)
(* Proofs about SourceWorker for every stream, every batch size and every  *)
(* interval of saves, over any number of crashes.                          *)
(***************************************************************************)
EXTENDS SourceWorker, FiniteSetTheorems, SequenceTheorems, TLAPS

-----------------------------------------------------------------------------
\* What the worker holds at each place of its loop.
Flow ==
    /\ pc = "extract" => left = "no" /\ Len(batch) < BatchSize /\ accepted = NoBatch
    /\ pc = "arrive" => Len(batch) <= BatchSize /\ accepted = NoBatch
    /\ pc = "process" => Len(batch) + Len(accepted) <= BatchSize
    /\ pc = "write" => batch = NoBatch /\ Len(accepted) <= BatchSize
    /\ pc \in {"down", "save", "flush", "end"} => batch = NoBatch /\ accepted = NoBatch
    /\ pc \in {"close", "dedup", "ended"} => Len(batch) + Len(accepted) <= BatchSize
    /\ pc \in {"close", "dedup", "ended"} /\ ~CanFail => batch = NoBatch /\ accepted = NoBatch

\* A record that is not durable yet has been written.
TailWritten == tail \in Seq(Nat) /\ \A i \in DOMAIN tail : tail[i] \in DOMAIN lines

Core == TypeOK /\ Flow /\ next \in Nat
TypeInv == Core /\ TailWritten

\* How a batch grows and shrinks.
LEMMA BatchGrows ==
    ASSUME NEW b \in Seq(Lines), NEW l \in Lines
    PROVE  Append(b, l) \in Seq(Lines) /\ Len(Append(b, l)) = Len(b) + 1
OBVIOUS

LEMMA BatchShrinks ==
    ASSUME NEW b \in Seq(Lines), b # NoBatch
    PROVE  /\ Head(b) \in Lines
           /\ Tail(b) \in Seq(Lines) /\ Len(Tail(b)) = Len(b) - 1
BY DEF NoBatch

LEMMA NoBatchType == NoBatch \in Seq(Lines) /\ Len(NoBatch) = 0
BY DEF NoBatch

\* The checkpoint file always holds a checkpoint.
Saved == [offset : 0..Len(Stream), committed : Nat, flag : {"none", "completed", "failed"}]

LEMMA SavesType ==
    ASSUME saved \in Saved, NEW o \in 0..Len(Stream), NEW c \in Nat,
           NEW f \in {"none", "completed", "failed"}, SavesAs(o, c, f)
    PROVE  saved' \in Saved
BY DEF SavesAs, Saved

LEMMA TailStays ==
    ASSUME TypeInv, [Next]_vars
    PROVE  TailWritten'
<1> DEFINE Shorter == \E k \in 1..Len(tail) : tail' = SubSeq(tail, k + 1, Len(tail))
<1>1. /\ lines \in Seq(Lines) /\ Len(lines) = next - 1 /\ next \in Nat
      /\ tail \in Seq(Nat) /\ \A i \in DOMAIN tail : tail[i] \in DOMAIN lines
      /\ accepted \in Seq(Lines)
  BY DEF TypeInv, Core, TypeOK, TailWritten
<1>2. \/ lines' = lines /\ tail' = tail
      \/ lines' = lines /\ tail' = <<>>
      \/ lines' = lines /\ Shorter
      \/ WriteDoc /\ W!Accept /\ lines' = Append(lines, Head(accepted))
  <2>1. CASE \/ (Reads /\ (Take \/ Limit)) \/ Exhaust \/ Arrive \/ ProcessDoc \/ Processed \/ Commit
             \/ SaveCheckpoint \/ MarkCompleted \/ MarkFailed \/ SaveDedup \/ Start
             \/ RequestStop \/ UNCHANGED vars
    BY <2>1 DEF Reads, Exhaust, Arrive, ProcessDoc, Processed, Commit, SaveCheckpoint,
                MarkCompleted, MarkFailed, SaveDedup, Start, RequestStop, vars, log
  <2>2. CASE RotateShard \/ FlushWriter \/ CloseWriter \/ ProcessEnds
    BY <2>2 DEF RotateShard, FlushWriter, CloseWriter, ProcessEnds, Flushes, Closes
  <2>3. CASE WriteDoc
    BY <2>3 DEF WriteDoc, log
  <2>4. CASE Spill
    BY <2>4 DEF Spill, W!Persist
  <2>5. QED
    BY <2>1, <2>2, <2>3, <2>4 DEF Next, WorkerStep, Take, Limit
<1>3. CASE lines' = lines /\ tail' = tail
  BY <1>1, <1>3 DEF TailWritten
<1>4. CASE lines' = lines /\ tail' = <<>>
  BY <1>1, <1>4 DEF TailWritten
<1>5. CASE lines' = lines /\ Shorter
  <2>1. PICK k \in 1..Len(tail) : tail' = SubSeq(tail, k + 1, Len(tail))
    BY <1>5
  <2>2. /\ tail' \in Seq(Nat) /\ Len(tail') = Len(tail) - k
        /\ \A i \in 1..(Len(tail) - k) : tail'[i] = tail[i + k]
    BY <1>1, <2>1
  <2>3. \A i \in DOMAIN tail' : tail'[i] \in DOMAIN lines
    <3>1. SUFFICES ASSUME NEW i \in DOMAIN tail' PROVE tail'[i] \in DOMAIN lines
      OBVIOUS
    <3>2. i \in 1..(Len(tail) - k) /\ i + k \in 1..Len(tail)
      BY <1>1, <2>2
    <3>3. tail[i + k] \in DOMAIN lines
      BY <1>1, <3>2
    <3>4. tail'[i] = tail[i + k]
      BY <2>2, <3>2
    <3>5. QED
      BY <3>3, <3>4
  <2>4. QED
    BY <1>5, <2>2, <2>3 DEF TailWritten
<1>6. CASE WriteDoc /\ W!Accept /\ lines' = Append(lines, Head(accepted))
  <2>1. Head(accepted) \in Lines /\ tail' = Append(tail, next)
    BY <1>1, <1>6, BatchShrinks DEF WriteDoc, W!Accept
  <2>2. lines' \in Seq(Lines) /\ Len(lines') = next
    <3>1. Len(lines') = Len(lines) + 1 /\ lines' \in Seq(Lines)
      BY <1>1, <1>6, <2>1
    <3>2. QED
      BY <1>1, <3>1
  <2>3. \A i \in DOMAIN lines : i \in DOMAIN lines'
    BY <1>1, <2>2
  <2>4. next \in DOMAIN lines'
    <3>1. 1 <= next
      BY <1>1
    <3>2. QED
      BY <1>1, <2>2, <3>1
  <2>5. tail' \in Seq(Nat) /\ \A i \in DOMAIN tail' : tail'[i] \in DOMAIN lines'
    BY <1>1, <2>1, <2>3, <2>4
  <2>6. QED
    BY <2>5 DEF TailWritten
<1>7. QED
  BY <1>2, <1>3, <1>4, <1>5, <1>6

\* The type invariant, with what the worker holds at each place.
THEOREM TypeInvariant == Spec => []TypeInv
<1> USE DEF ckpt, extractor, history, log
<1>1. Init => TypeInv
  <2> SUFFICES ASSUME Init PROVE TypeInv
    OBVIOUS
  <2>1. pc = "down" /\ up = FALSE /\ stop = FALSE
    BY DEF Init, D!Init
  <2>2. lines \in Seq(Lines) /\ Len(lines) = next - 1 /\ next = 1
    BY DEF Init, W!Init
  <2>3. Len(Stream) \in Nat /\ BatchSize \in Nat
    BY WorkerAssumption
  <2>4. saved \in Saved
    BY <2>3 DEF Init, New, Saved
  <2>5. Flow
    BY <2>1 DEF Init, Flow
  <2>6. TypeOK
    <3>1. (up <=> pc # "down") /\ stop \in BOOLEAN
      BY <2>1
    <3>2. Len(batch) + Len(accepted) <= BatchSize
      BY <2>3, NoBatchType DEF Init
    <3>3. pos \in 1..(Len(Stream) + 1) /\ offset \in 0..Len(Stream) /\ taken \in Nat
      BY <2>3 DEF Init
    <3>4. QED
      BY <2>1, <2>2, <2>4, <3>1, <3>2, <3>3, NoBatchType DEF Init, TypeOK, Saved
  <2>7. TailWritten
    BY DEF Init, W!Init, TailWritten
  <2>8. QED
    BY <2>2, <2>5, <2>6, <2>7 DEF TypeInv, Core
<1>2. TypeInv /\ [Next]_vars => TypeInv'
  <2> SUFFICES ASSUME TypeInv, [Next]_vars PROVE Core'
    BY TailStays DEF TypeInv
  <2> USE DEF TypeInv, Core, TypeOK
  <2>0. saved \in Saved /\ Len(Stream) \in Nat /\ BatchSize \in Nat /\ 1 <= BatchSize
    BY WorkerAssumption DEF Saved
  <2>a. /\ batch \in Seq(Lines) /\ accepted \in Seq(Lines)
        /\ Len(batch) + Len(accepted) <= BatchSize
        /\ lines \in Seq(Lines) /\ Len(lines) = next - 1 /\ next \in Nat /\ lost \subseteq Lines
    OBVIOUS
  <2>00. ASSUME saved' \in Saved, committed' \in Nat, flag' \in {"none", "completed", "failed"},
                left' \in {"no", "exhausted", "max_docs", "quota", "stop", "error"},
                batch' \in Seq(Lines), batchN' \in Nat, Len(batch') + Len(accepted') <= BatchSize,
                Flow', pc' \in {"extract", "arrive", "process", "write", "save", "flush", "end",
                                "close", "dedup", "ended"},
                pc # "down", up' = up,
                UNCHANGED <<offset, pos, taken, accepted, stop, lines, history, next>>
         PROVE  Core'
    BY <2>00 DEF Saved
  <2>1. CASE Start
    <3>1. pc' = "extract" /\ up' = TRUE /\ stop' = FALSE /\ left' = "no"
      BY <2>1 DEF Start, D!Start
    <3>2. pos' \in 1..(Len(Stream) + 1) /\ offset' \in 0..Len(Stream) /\ committed' \in Nat
      BY <2>0, <2>1 DEF Start, Saved
    <3>3. batch' = NoBatch /\ accepted' = NoBatch
      BY <2>1 DEF Start, Flow
    <3>4. Flow'
      BY <2>0, <3>1, <3>3, NoBatchType DEF Flow
    <3>5. TypeOK'
      BY <2>0, <2>1, <3>1, <3>2, <3>3, NoBatchType DEF Start, D!Start
    <3>6. QED
      BY <2>1, <3>4, <3>5 DEF Start
  <2>2. CASE Reads /\ (Take \/ Limit)
    <3>1. /\ pc = "extract" /\ left = "no" /\ pos \in Lines
          /\ offset' = pos /\ pos' = pos + 1
          /\ UNCHANGED <<committed, flag, accepted, batchN, stop, lines, history, dedup, log>>
      BY <2>2 DEF Reads, Lines
    <3>2. pos' \in 1..(Len(Stream) + 1) /\ offset' \in 0..Len(Stream)
      BY <2>0, <3>1 DEF Lines
    <3>3. saved' \in Saved
      <4>1. SavesAs(pos, committed, flag) \/ UNCHANGED saved
        BY <2>2 DEF Reads
      <4>2. pos \in 0..Len(Stream)
        BY <2>0, <3>1 DEF Lines
      <4>3. QED
        BY <2>0, <4>1, <4>2, SavesType
    <3>4. Len(batch) < BatchSize /\ accepted = NoBatch
      BY <3>1 DEF Flow
    <3>5. CASE Take
      <4>1. batch' \in Seq(Lines) /\ Len(batch') = Len(batch) + 1
        BY <3>1, <3>5, BatchGrows DEF Take
      <4>2. /\ taken' \in Nat /\ left' = left
            /\ pc' \in {"arrive", "extract"} /\ (pc' = "extract" => ~(Len(batch') >= BatchSize))
        BY <3>5 DEF Take
      <4>3. Len(batch') <= BatchSize /\ (pc' = "extract" => Len(batch') < BatchSize)
        BY <2>0, <3>4, <4>1, <4>2
      <4>4. accepted' = NoBatch /\ left' = "no"
        BY <3>1, <3>4, <4>2
      <4>5. Flow'
        BY <4>2, <4>3, <4>4 DEF Flow
      <4>6. Len(batch') + Len(accepted') <= BatchSize
        BY <4>1, <4>3, <4>4, NoBatchType
      <4>7. TypeOK'
        BY <3>1, <3>2, <3>3, <4>1, <4>2, <4>6 DEF dedup, Saved
      <4>8. QED
        BY <3>1, <4>5, <4>7
    <3>6. CASE Limit
      <4>1. /\ batch' = batch /\ taken' = taken
            /\ pc' \in {"arrive", "end"} /\ (pc' = "end" => batch = NoBatch)
            /\ left' \in {"max_docs", "quota"}
        BY <3>6 DEF Limit
      <4>2. Flow'
        BY <2>0, <3>1, <3>4, <4>1 DEF Flow
      <4>3. TypeOK'
        BY <3>1, <3>2, <3>3, <4>1 DEF dedup, Saved
      <4>4. QED
        BY <3>1, <4>2, <4>3
    <3>7. QED
      BY <2>2, <3>5, <3>6
  <2>3. CASE Exhaust
    <3>1. /\ left' = "exhausted" /\ pc = "extract"
          /\ pc' \in {"arrive", "end"} /\ (pc' = "end" => batch = NoBatch)
          /\ UNCHANGED <<ckpt, pos, taken, batch, accepted, batchN, stop, lines, history, dedup, log>>
      BY <2>3 DEF Exhaust
    <3>2. Flow'
      BY <2>0, <3>1 DEF Flow
    <3>3. /\ up' = up /\ pc # "down"
          /\ pc' \in {"extract", "arrive", "process", "write", "save", "flush", "end", "close",
                     "dedup", "ended"}
      BY <3>1 DEF dedup
    <3>4. /\ left' \in {"no", "exhausted", "max_docs", "quota", "stop", "error"}
          /\ UNCHANGED <<offset, pos, taken, accepted, stop, lines, history, next>>
      BY <3>1
    <3>5. saved' \in Saved /\ committed' \in Nat /\ flag' \in {"none", "completed", "failed"}
      BY <2>0, <3>1
    <3>6. batch' \in Seq(Lines) /\ batchN' \in Nat /\ Len(batch') + Len(accepted') <= BatchSize
      BY <3>1
    <3>7. QED
      BY <2>00, <3>2, <3>3, <3>4, <3>5, <3>6, Zenon
  <2>4. CASE Arrive
    <3>1. /\ pc = "arrive"
          /\ UNCHANGED <<ckpt, pos, taken, accepted, stop, lines, history, dedup, log>>
          /\ \/ pc' = "end" /\ left' = "stop" /\ batch' = NoBatch /\ batchN' = batchN
             \/ pc' = "process" /\ batchN' = batchN + 1 /\ left' = left /\ batch' = batch
      BY <2>4 DEF Arrive
    <3>2. accepted = NoBatch /\ Len(batch) <= BatchSize
      BY <3>1 DEF Flow
    <3>3. Flow'
      BY <2>0, <3>1, <3>2, NoBatchType DEF Flow
    <3>4. batch' \in Seq(Lines) /\ Len(batch') + Len(accepted') <= BatchSize
      <4>1. CASE batch' = NoBatch
        BY <2>0, <3>1, <3>2, <4>1, NoBatchType
      <4>2. CASE batch' = batch
        BY <2>a, <3>1, <3>2, <4>2
      <4>3. QED
        BY <3>1, <4>1, <4>2
    <3>5. batchN' \in Nat /\ left' \in {"no", "exhausted", "max_docs", "quota", "stop", "error"}
      BY <3>1
    <3>6. /\ up' = up /\ pc # "down"
          /\ pc' \in {"extract", "arrive", "process", "write", "save", "flush", "end", "close",
                     "dedup", "ended"}
      BY <3>1 DEF dedup
    <3>7. UNCHANGED <<offset, pos, taken, accepted, stop, lines, history, next>>
      BY <3>1
    <3>8. saved' \in Saved /\ committed' \in Nat /\ flag' \in {"none", "completed", "failed"}
      BY <2>0, <3>1
    <3>9. QED
      BY <2>00, <3>3, <3>4, <3>5, <3>6, <3>7, <3>8, Zenon
  <2>5. CASE ProcessDoc
    <3>1. /\ pc = "process" /\ batch # NoBatch /\ batch' = Tail(batch)
          /\ UNCHANGED <<pc, ckpt, extractor, batchN, stop, lines, history, log>>
      BY <2>5 DEF ProcessDoc
    <3>2. /\ accepted' = accepted \/ accepted' = Append(accepted, Head(batch))
          /\ up' = up
      BY <2>5 DEF ProcessDoc, dedup, D!Duplicate, D!Keep
    <3>3. /\ batch' \in Seq(Lines) /\ Len(batch') = Len(batch) - 1 /\ Head(batch) \in Lines
      BY <3>1, BatchShrinks
    <3>4. accepted' \in Seq(Lines) /\ Len(accepted') <= Len(accepted) + 1
      <4>1. CASE accepted' = accepted
        BY <2>a, <4>1
      <4>2. CASE accepted' = Append(accepted, Head(batch))
        <5>1. accepted \in Seq(Lines) /\ Head(batch) \in Lines
          BY <2>a, <3>3
        <5>2. QED
          BY <4>2, <5>1
      <4>3. QED
        BY <3>2, <4>1, <4>2
    <3>5. Len(batch') + Len(accepted') <= BatchSize
      BY <2>0, <3>3, <3>4
    <3>6. Flow'
      BY <3>1, <3>5 DEF Flow
    <3>7. TypeOK'
      BY <3>1, <3>2, <3>3, <3>4, <3>5
    <3>8. QED
      BY <3>1, <3>6, <3>7
  <2>6. CASE Processed
    <3>1. /\ pc = "process" /\ pc' = "write" /\ batch = NoBatch
          /\ UNCHANGED <<ckpt, extractor, batch, accepted, batchN, stop, lines, history, dedup, log>>
      BY <2>6 DEF Processed
    <3>2. Flow'
      BY <2>0, <3>1, NoBatchType DEF Flow
    <3>3. /\ up' = up /\ pc # "down"
          /\ pc' \in {"extract", "arrive", "process", "write", "save", "flush", "end", "close",
                     "dedup", "ended"}
      BY <3>1 DEF dedup
    <3>4. /\ left' \in {"no", "exhausted", "max_docs", "quota", "stop", "error"}
          /\ UNCHANGED <<offset, pos, taken, accepted, stop, lines, history, next>>
      BY <3>1
    <3>5. saved' \in Saved /\ committed' \in Nat /\ flag' \in {"none", "completed", "failed"}
      BY <2>0, <3>1
    <3>6. batch' \in Seq(Lines) /\ batchN' \in Nat /\ Len(batch') + Len(accepted') <= BatchSize
      BY <3>1
    <3>7. QED
      BY <2>00, <3>2, <3>3, <3>4, <3>5, <3>6, Zenon
  <2>7. CASE WriteDoc
    <3>1. /\ pc = "write" /\ accepted # NoBatch /\ accepted' = Tail(accepted)
          /\ UNCHANGED <<pc, ckpt, extractor, batch, batchN, stop, history, dedup>>
      BY <2>7 DEF WriteDoc
    <3>2. \/ next' = next + 1 /\ lines' = Append(lines, Head(accepted))
          \/ next' = next /\ lines' = lines
      BY <2>7 DEF WriteDoc, W!Accept
    <3>3. /\ accepted' \in Seq(Lines) /\ Len(accepted') = Len(accepted) - 1 /\ Head(accepted) \in Lines
      BY <3>1, BatchShrinks
    <3>4. lines' \in Seq(Lines) /\ Len(lines') = next' - 1 /\ next' \in Nat
      <4>1. lines \in Seq(Lines)
        BY <2>a
      <4>2. Head(accepted) \in Lines
        BY <3>3
      <4>3. Len(lines) = next - 1 /\ next \in Nat
        BY <2>a
      <4>4. CASE next' = next /\ lines' = lines
        BY <4>1, <4>3, <4>4
      <4>5. CASE next' = next + 1 /\ lines' = Append(lines, Head(accepted))
        <5>1. lines' \in Seq(Lines)
          BY <4>1, <4>2, <4>5
        <5>2. Len(lines') = Len(lines) + 1
          BY <4>1, <4>2, <4>5
        <5>3. Len(lines') = next' - 1 
          BY <4>3, <4>5, <5>2
        <5>4. next' \in Nat 
          BY <4>3, <4>5
        <5>5. QED
          BY <5>1, <5>3, <5>4
      <4>6. QED
        BY <3>2, <4>4, <4>5
    <3>5. Len(accepted') <= BatchSize /\ Len(batch') + Len(accepted') <= BatchSize
      BY <2>0, <3>1, <3>3, NoBatchType DEF Flow
    <3>6. Flow'
      BY <3>1, <3>5 DEF Flow
    <3>7. TypeOK'
      BY <3>1, <3>3, <3>4, <3>5 DEF dedup
    <3>8. QED
      BY <3>4, <3>6, <3>7
  <2>9. CASE RotateShard
    <3>1. saved' \in Saved
      BY <2>0, <2>9, SavesType DEF RotateShard, Saves
    <3>2. Flow'
      BY <2>9 DEF RotateShard, Flow
    <3>3. pc' = "write" /\ pc = "write" /\ up' = up
      BY <2>9 DEF RotateShard, dedup
    <3>4. QED
      BY <2>0, <2>00, <2>9, <3>1, <3>2, <3>3 DEF RotateShard
  <2>10. CASE Commit \/ FlushWriter \/ SaveCheckpoint
    <3>1. /\ pc \in {"write", "flush", "save"} /\ batch = NoBatch /\ accepted = NoBatch
          /\ pc' \in {"save", "flush", "extract", "end"} /\ (pc' = "extract" => left = "no")
          /\ UNCHANGED <<batch, accepted, left>>
      BY <2>10 DEF Commit, FlushWriter, SaveCheckpoint, NextBatch, Flow
    <3>2. Flow'
      BY <2>0, <3>1, NoBatchType DEF Flow
    <3>3. saved' \in Saved /\ committed' \in Nat
      BY <2>0, <2>10, SavesType DEF Commit, FlushWriter, SaveCheckpoint, Saves
    <3>4. up' = up
      BY <2>10 DEF Commit, FlushWriter, SaveCheckpoint, dedup
    <3>5. QED
      BY <2>0, <2>00, <2>10, <3>1, <3>2, <3>3, <3>4 DEF Commit, FlushWriter, SaveCheckpoint
  <2>11. CASE MarkCompleted \/ MarkFailed
    <3>1. saved' \in Saved
      BY <2>0, <2>11, SavesType DEF MarkCompleted, MarkFailed
    <3>2. Flow'
      <4>1. pc' = "close" /\ batch' = batch /\ accepted' = accepted
        BY <2>11 DEF MarkCompleted, MarkFailed
      <4>2. ~CanFail => batch = NoBatch /\ accepted = NoBatch
        BY <2>11 DEF MarkCompleted, MarkFailed, Flow
      <4>3. QED
        BY <4>1, <4>2 DEF Flow
    <3>3. up' = up /\ pc # "down" /\ pc' = "close"
      BY <2>11 DEF MarkCompleted, MarkFailed, dedup
    <3>4. /\ left' \in {"no", "exhausted", "max_docs", "quota", "stop", "error"}
          /\ UNCHANGED <<offset, pos, taken, accepted, stop, lines, history, next>>
      BY <2>11 DEF MarkCompleted, MarkFailed
    <3>5. committed' \in Nat /\ flag' \in {"none", "completed", "failed"}
      BY <2>11 DEF MarkCompleted, MarkFailed
    <3>6. batch' \in Seq(Lines) /\ batchN' \in Nat /\ Len(batch') + Len(accepted') <= BatchSize
      BY <2>11 DEF MarkCompleted, MarkFailed
    <3>7. QED
      BY <2>00, <3>1, <3>2, <3>3, <3>4, <3>5, <3>6, Zenon
  <2>12. CASE CloseWriter \/ SaveDedup
    <3>1. saved' \in Saved
      BY <2>0, <2>12, SavesType DEF CloseWriter, SaveDedup, Saves
    <3>2. Flow'
      BY <2>12 DEF CloseWriter, SaveDedup, Flow
    <3>3. up' = up /\ pc # "down" /\ pc' \in {"dedup", "ended"}
      BY <2>12 DEF CloseWriter, SaveDedup, dedup, D!Save
    <3>4. QED
      BY <2>0, <2>00, <2>12, <3>1, <3>2, <3>3 DEF CloseWriter, SaveDedup
  <2>13. CASE Spill \/ RequestStop \/ UNCHANGED vars
    <3>1. /\ UNCHANGED <<pc, ckpt, extractor, batch, accepted, batchN, lines, history, dedup, next>>
          /\ stop' \in BOOLEAN
      BY <2>13 DEF Spill, W!Persist, RequestStop, vars
    <3>2. Flow'
      BY <3>1 DEF Flow
    <3>3. TypeOK'
      BY <3>1 DEF dedup
    <3>4. QED
      BY <3>1, <3>2, <3>3
  <2>14. CASE ProcessEnds
    <3>1. pc' = "down" /\ up' = FALSE /\ batch' = NoBatch /\ accepted' = NoBatch
      BY <2>14 DEF ProcessEnds, D!ProcessEnds
    <3>2. lost' \subseteq Lines
      <4>1. GoneForGood \subseteq InFlight
        BY DEF GoneForGood
      <4>2. \A i \in DOMAIN tail : lines[tail[i]] \in Lines
        BY <2>a DEF TailWritten
      <4>3. InFlight \subseteq Lines
        BY <2>a, <4>2 DEF InFlight
      <4>4. lost' = lost \cup GoneForGood
        BY <2>14 DEF ProcessEnds
      <4>5. QED
        BY <2>a, <4>1, <4>3, <4>4
    <3>3. crashes' \in Nat
      BY <2>14 DEF ProcessEnds
    <3>4. Flow'
      BY <3>1 DEF Flow
    <3>5. (up' <=> pc' # "down")
      BY <3>1
    <3>6. Len(batch') + Len(accepted') <= BatchSize
      BY <2>0, <3>1, NoBatchType
    <3>7. TypeOK'
      BY <2>14, <3>1, <3>2, <3>3, <3>5, <3>6, NoBatchType DEF ProcessEnds
    <3>8. QED
      BY <2>14, <3>4, <3>7 DEF ProcessEnds
  <2>15. QED
    BY <2>1, <2>2, <2>3, <2>4, <2>5, <2>6, <2>7, <2>9, <2>10, <2>11, <2>12, <2>13, <2>14
       DEF Next, WorkerStep, Take, Limit
<1>3. QED
  BY <1>1, <1>2, PTL DEF Spec

\* The type invariant of the worker.
THEOREM TypeCorrect == Spec => []TypeOK
<1>1. TypeInv => TypeOK
  BY DEF TypeInv, Core
<1>2. QED
  BY <1>1, TypeInvariant, PTL
-----------------------------------------------------------------------------
\* What the deduplicator of the process, or of the next one, knows.
Sim(l) == Doc(l).sim
Known == IF up THEN simMap ELSE simFile

\* Every record goes back to a SimHash that is known or was forgotten, and an
\* accepted document is near no record and no other accepted document it knows.
Remembered ==
    /\ \A n \in DOMAIN lines : Sim(lines[n]) \in Known \cup forgotten
    /\ \A i \in DOMAIN accepted : Sim(accepted[i]) \in Known
    /\ \A n \in DOMAIN lines, i \in DOMAIN accepted :
          D!Near(Sim(lines[n]), Sim(accepted[i])) => Sim(lines[n]) \in forgotten
    /\ \A i, j \in DOMAIN accepted : i < j => ~D!Near(Sim(accepted[i]), Sim(accepted[j]))

Once == \A n, m \in DOMAIN lines :
            n < m /\ D!Near(Sim(lines[n]), Sim(lines[m])) => Sim(lines[n]) \in forgotten

\* SimHashes differ in as many bits one way as the other.
LEMMA NearSymmetric == \A a, b : D!Near(a, b) <=> D!Near(b, a)
<1>1. \A a, b : (a \ b) \cup (b \ a) = (b \ a) \cup (a \ b)
  OBVIOUS
<1>2. QED
  BY <1>1 DEF D!Near, D!Hamming

\* A step that writes and accepts nothing, and loses no SimHash unnoticed.
LEMMA Quiet ==
    ASSUME Remembered, Once, lines' = lines, forgotten \subseteq forgotten',
           Known \subseteq Known' \cup forgotten',
           accepted' = NoBatch \/ (accepted' = accepted /\ Known \subseteq Known')
    PROVE  Remembered' /\ Once'
<1>1. \A n \in DOMAIN lines' : Sim(lines[n]) \in Known' \cup forgotten'
  BY DEF Remembered
<1>2. CASE accepted' = NoBatch
  BY <1>1, <1>2 DEF Remembered, Once, NoBatch, Sim, Doc
<1>3. CASE accepted' = accepted /\ Known \subseteq Known'
  BY <1>1, <1>3 DEF Remembered, Once, Sim, Doc
<1>4. QED
  BY <1>2, <1>3

\* A document is accepted.
LEMMA Accepting ==
    ASSUME TypeInv, Remembered, Once, SimOn, lines' = lines, forgotten' = forgotten,
           NEW l \in Lines, accepted' = Append(accepted, l), up, up',
           simMap' = simMap \cup {Sim(l)}, \A s \in simMap : ~D!Near(Sim(l), s)
    PROVE  Remembered' /\ Once'
<1>1. /\ Len(accepted) \in Nat /\ DOMAIN accepted = 1..Len(accepted)
      /\ DOMAIN accepted' = 1..(Len(accepted) + 1)
      /\ accepted'[Len(accepted) + 1] = l
      /\ \A i \in DOMAIN accepted : accepted'[i] = accepted[i]
  BY DEF TypeInv, Core, TypeOK
<1>2. \A i \in DOMAIN accepted' : i \in DOMAIN accepted \/ i = Len(accepted) + 1
  BY <1>1
<1>3. Known = simMap /\ Known' = simMap \cup {Sim(l)}
  BY DEF Known
<1>4. \A s \in simMap : ~D!Near(s, Sim(l))
  BY NearSymmetric
<1>5. \A n \in DOMAIN lines : Sim(lines[n]) \in Known' \cup forgotten
  BY <1>3 DEF Remembered
<1>6. \A i \in DOMAIN accepted' : Sim(accepted'[i]) \in Known'
  BY <1>1, <1>2, <1>3 DEF Remembered
<1>7. \A n \in DOMAIN lines, i \in DOMAIN accepted' :
          D!Near(Sim(lines[n]), Sim(accepted'[i])) => Sim(lines[n]) \in forgotten
  BY <1>1, <1>2, <1>3, <1>4 DEF Remembered
<1>8. ASSUME NEW i \in DOMAIN accepted', NEW j \in DOMAIN accepted', i < j
      PROVE  ~D!Near(Sim(accepted'[i]), Sim(accepted'[j]))
  <2>1. i \in DOMAIN accepted
    BY <1>1, <1>8
  <2>2. CASE j \in DOMAIN accepted
    BY <1>1, <1>8, <2>1, <2>2 DEF Remembered
  <2>3. CASE j = Len(accepted) + 1
    BY <1>1, <1>3, <1>4, <2>1, <2>3 DEF Remembered
  <2>4. QED
    BY <1>2, <2>2, <2>3
<1>9. QED
  BY <1>5, <1>6, <1>7, <1>8 DEF Remembered, Once, Sim, Doc

\* The next accepted document is taken from the list, and written or refused.
LEMMA Writing ==
    ASSUME TypeInv, Remembered, Once, WriteDoc
    PROVE  Remembered' /\ Once'
<1> DEFINE l == Head(accepted)
<1>1. /\ Len(accepted) \in Nat \ {0} /\ DOMAIN accepted = 1..Len(accepted) /\ l = accepted[1]
      /\ accepted' = Tail(accepted) /\ DOMAIN accepted' = 1..(Len(accepted) - 1)
      /\ \A i \in DOMAIN accepted' : accepted'[i] = accepted[i + 1]
  BY DEF WriteDoc, TypeInv, Core, TypeOK, NoBatch
<1>2. l \in Lines
  BY <1>1 DEF TypeInv, Core, TypeOK
<1>3. /\ 1 \in DOMAIN accepted
      /\ \A i \in DOMAIN accepted' : i + 1 \in DOMAIN accepted /\ 1 < i + 1
      /\ \A i, j \in DOMAIN accepted' : i < j => i + 1 < j + 1
  BY <1>1
<1>4. Known' = Known /\ forgotten' = forgotten
  BY DEF WriteDoc, dedup, Known
<1>5. /\ \A i \in DOMAIN accepted' : Sim(accepted'[i]) \in Known
      /\ \A n \in DOMAIN lines, i \in DOMAIN accepted' :
            D!Near(Sim(lines[n]), Sim(accepted'[i])) => Sim(lines[n]) \in forgotten
      /\ \A i, j \in DOMAIN accepted' : i < j => ~D!Near(Sim(accepted'[i]), Sim(accepted'[j]))
  BY <1>1, <1>3 DEF Remembered
<1>6. \A i \in DOMAIN accepted' : ~D!Near(Sim(l), Sim(accepted'[i]))
  BY <1>1, <1>3 DEF Remembered
<1>7. /\ Sim(l) \in Known
      /\ \A n \in DOMAIN lines : D!Near(Sim(lines[n]), Sim(l)) => Sim(lines[n]) \in forgotten
  BY <1>1, <1>3 DEF Remembered
<1>8. CASE lines' = lines
  BY <1>4, <1>5, <1>8 DEF Remembered, Once, Sim, Doc
<1>9. CASE lines' = Append(lines, l)
  <2>1. /\ Len(lines) \in Nat /\ DOMAIN lines = 1..Len(lines)
        /\ DOMAIN lines' = 1..(Len(lines) + 1) /\ lines'[Len(lines) + 1] = l
        /\ \A n \in DOMAIN lines : lines'[n] = lines[n]
    BY <1>2, <1>9 DEF TypeInv, Core, TypeOK
  <2>2. \A n \in DOMAIN lines' : n \in DOMAIN lines \/ n = Len(lines) + 1
    BY <2>1
  <2>3. \A n \in DOMAIN lines' : Sim(lines'[n]) \in Known \cup forgotten
    BY <1>7, <2>1, <2>2 DEF Remembered
  <2>4. \A n \in DOMAIN lines', i \in DOMAIN accepted' :
            D!Near(Sim(lines'[n]), Sim(accepted'[i])) => Sim(lines'[n]) \in forgotten
    BY <1>5, <1>6, <2>1, <2>2
  <2>5. ASSUME NEW n \in DOMAIN lines', NEW m \in DOMAIN lines', n < m,
               D!Near(Sim(lines'[n]), Sim(lines'[m]))
        PROVE  Sim(lines'[n]) \in forgotten
    <3>1. n \in DOMAIN lines
      BY <2>1, <2>5
    <3>2. CASE m \in DOMAIN lines
      BY <2>1, <2>5, <3>1, <3>2 DEF Once
    <3>3. CASE m = Len(lines) + 1
      BY <1>7, <2>1, <2>5, <3>1, <3>3
    <3>4. QED
      BY <2>2, <3>2, <3>3
  <2>6. QED
    BY <1>4, <1>5, <2>3, <2>4, <2>5 DEF Remembered, Once, Sim, Doc
<1>10. QED
  BY <1>8, <1>9 DEF WriteDoc

\* For any stream and settings, and whatever saves and writes fail: a near copy
\* of a record is written only if the SimHash of the record was forgotten.
THEOREM TwiceOnly == Spec => []TwiceOnlyIfForgotten
<1> DEFINE Inv == SimOn => Remembered /\ Once
<1>1. Init => Inv
  BY DEF Init, D!Init, Remembered, Once, NoBatch
<1>2. TypeInv /\ Inv /\ [Next]_vars => Inv'
  <2> SUFFICES ASSUME TypeInv, Remembered, Once, SimOn, [Next]_vars PROVE Remembered' /\ Once'
    OBVIOUS
  <2>0. (pc = "down" => ~up /\ accepted = NoBatch) /\ (pc # "down" => up)
    BY DEF TypeInv, Core, TypeOK, Flow
  <2>1. CASE Start
    BY <2>0, <2>1, Quiet DEF Start, D!Start, Known
  <2>2. CASE \/ (Reads /\ (Take \/ Limit)) \/ Exhaust \/ Arrive \/ Processed \/ RotateShard \/ Commit
             \/ SaveCheckpoint \/ FlushWriter \/ MarkCompleted \/ MarkFailed \/ CloseWriter
             \/ Spill \/ RequestStop \/ UNCHANGED vars
    <3>1. lines' = lines /\ accepted' = accepted /\ dedup' = dedup
      BY <2>2 DEF Reads, Exhaust, Arrive, Processed, RotateShard, Commit, SaveCheckpoint,
                  FlushWriter, MarkCompleted, MarkFailed, CloseWriter, Spill, RequestStop, vars
    <3>2. Known' = Known /\ forgotten' = forgotten
      BY <3>1 DEF dedup, Known
    <3>3. QED
      BY <3>1, <3>2, Quiet
  <2>3. CASE ProcessDoc
    <3>1. up /\ lines' = lines /\ Head(batch) \in Lines
      BY <2>0, <2>3, BatchShrinks DEF ProcessDoc, TypeInv, Core, TypeOK
    <3>2. CASE accepted' = accepted /\ (UNCHANGED dedup \/ D!Duplicate(Stream[Head(batch)]))
      <4>1. up' = up /\ forgotten' = forgotten /\ simMap \subseteq simMap'
        BY <3>2 DEF dedup, D!Duplicate, D!Indexed
      <4>2. Known \subseteq Known'
        BY <3>1, <4>1 DEF Known
      <4>3. QED
        BY <3>1, <3>2, <4>1, <4>2, Quiet
    <3>3. CASE accepted' = Append(accepted, Head(batch)) /\ D!Keep(Stream[Head(batch)])
      <4>1. up' = up /\ forgotten' = forgotten
        BY <3>3 DEF D!Keep
      <4>2. D!Unique(Stream[Head(batch)]) /\ D!Indexed(Stream[Head(batch)])
        BY <3>3 DEF D!Keep
      <4>3. simMap' = simMap \cup {Sim(Head(batch))}
        BY <4>2 DEF D!Unique, D!Indexed, Sim, Doc
      <4>4. \A s \in simMap : ~D!Near(Sim(Head(batch)), s)
        BY <4>2 DEF D!Unique, D!NearDup, Sim, Doc
      <4>5. QED
        BY <3>1, <3>3, <4>1, <4>3, <4>4, Accepting
    <3>4. QED
      BY <2>3, <3>2, <3>3 DEF ProcessDoc
  <2>4. CASE WriteDoc
    BY <2>4, Writing
  <2>5. CASE SaveDedup
    <3>1. lines' = lines /\ accepted' = accepted /\ forgotten' = forgotten
      BY <2>5 DEF SaveDedup, D!Save
    <3>2. Known' = Known
      BY <2>5 DEF SaveDedup, D!Save, D!index, Known
    <3>3. QED
      BY <3>1, <3>2, Quiet
  <2>6. CASE ProcessEnds
    <3>1. /\ lines' = lines /\ accepted' = NoBatch
          /\ forgotten' = forgotten \cup (simMap \ simFile)
          /\ up' = FALSE /\ simFile' = simFile
      BY <2>6 DEF ProcessEnds, D!ProcessEnds
    <3>2. Known \subseteq Known' \cup forgotten'
      BY <3>1 DEF Known
    <3>3. QED
      BY <3>1, <3>2, Quiet
  <2>7. QED
    BY <2>1, <2>2, <2>3, <2>4, <2>5, <2>6 DEF Next, WorkerStep, Take, Limit
<1>3. Inv => TwiceOnlyIfForgotten
  BY DEF Once, TwiceOnlyIfForgotten, Sim
<1>4. QED
  BY <1>1, <1>2, <1>3, TypeInvariant, PTL DEF Spec
-----------------------------------------------------------------------------
\* The lines of the batches since the last save, and how many they can be.
Pending(n) == (n % FlushEvery) * BatchSize
Most == FlushEvery * BatchSize
Ahead == offset - saved.offset

LEMMA Division ==
    ASSUME NEW n \in Nat, NEW f \in Nat, f > 0,
           NEW q \in Int, q = n \div f, NEW r \in Int, r = n % f
    PROVE  n = f * q + r
BY SMTT(30)

LEMMA QuotientNat ==
    ASSUME NEW n \in Nat, NEW f \in Nat \ {0}
    PROVE  n \div f \in Nat /\ n % f \in 0..(f - 1)
BY SMTT(30)

LEMMA Remainder ==
    ASSUME NEW f \in Nat \ {0}, NEW q \in Nat, NEW r \in 0..(f - 1)
    PROVE  (f * q + r) % f = r
BY SMTT(30)

LEMMA NextRemainder ==
    ASSUME NEW n \in Nat, NEW f \in Nat \ {0}, (n + 1) % f # 0
    PROVE  (n + 1) % f = (n % f) + 1
<1> DEFINE q == n \div f
           r == n % f
<1>1. q \in Nat /\ r \in 0..(f - 1)
  BY QuotientNat
<1>2. n = f * q + r
  BY <1>1, Division
<1> HIDE DEF q, r
<1>3. CASE r = f - 1
  <2>1. n + 1 = f * (q + 1) + 0 /\ q + 1 \in Nat /\ 0 \in 0..(f - 1)
    BY <1>1, <1>2, <1>3
  <2>2. (n + 1) % f = 0
    BY <2>1, Remainder
  <2>3. QED
    BY <2>2
<1>4. CASE r # f - 1
  <2>1. n + 1 = f * q + (r + 1) /\ r + 1 \in 0..(f - 1)
    BY <1>1, <1>2, <1>4
  <2>2. (n + 1) % f = r + 1
    BY <1>1, <2>1, Remainder
  <2>3. QED
    BY <2>2 DEF r
<1>5. QED
  BY <1>3, <1>4

LEMMA Intervals ==
    ASSUME NEW n \in Nat
    PROVE  /\ Pending(n) \in Nat /\ Most \in Nat
           /\ Pending(n) + BatchSize <= Most
           /\ (n + 1) % FlushEvery # 0 => Pending(n + 1) = Pending(n) + BatchSize
<1> DEFINE r == n % FlushEvery
<1>1. r \in 0..(FlushEvery - 1) /\ BatchSize \in Nat /\ FlushEvery \in Nat \ {0}
  BY QuotientNat, WorkerAssumption
<1>2. (n + 1) % FlushEvery # 0 => (n + 1) % FlushEvery = r + 1
  BY <1>1, NextRemainder
<1> HIDE DEF r
<1>3. (r + 1) * BatchSize = r * BatchSize + BatchSize /\ r * BatchSize \in Nat
  BY <1>1
<1>4. (r + 1) * BatchSize <= FlushEvery * BatchSize
  <2>1. r + 1 <= FlushEvery /\ r + 1 \in Nat
    BY <1>1
  <2>2. \A k, f, b \in Nat : k <= f => k * b <= f * b
    OBVIOUS
  <2>3. QED
    BY <1>1, <2>1, <2>2
<1>5. FlushEvery * BatchSize \in Nat
  BY <1>1
<1>6. Pending(n) = r * BatchSize
  BY DEF Pending, r
<1>7. QED
  BY <1>1, <1>2, <1>3, <1>4, <1>5, <1>6 DEF Pending, Most

\* How far the offset is ahead of the saved one at each place of the loop.
Behind ==
    /\ pc # "down" => pos <= offset + 1
    /\ pc = "extract" => Ahead <= Pending(batchN) + Len(batch)
    /\ pc = "arrive" => Ahead <= Pending(batchN) + BatchSize
    /\ pc \in {"process", "write"} => batchN > 0 /\ Ahead <= Pending(batchN - 1) + BatchSize
    /\ pc = "flush" => Ahead <= 0
    /\ pc \in {"save", "end", "close", "dedup", "ended"} => Ahead <= Most

\* A step that leaves the checkpoint and the place alone.
LEMMA BehindStays ==
    ASSUME Behind, UNCHANGED <<pc, pos, offset, saved, batchN, batch>>
    PROVE  Behind'
BY DEF Behind, Ahead, Pending, Most

\* While saves succeed: for any stream and intervals, a crash makes the next
\* process read at most the batches between two saves again.
THEOREM Rework == Spec => []ReworkBounded
<1> DEFINE Inv == ~CanFail => Behind
<1>1. Init => Inv
  BY DEF Init, Behind
<1>2. TypeInv /\ Inv /\ [Next]_vars => Inv'
  <2> SUFFICES ASSUME TypeInv, Behind, ~CanFail, [Next]_vars PROVE Behind'
    OBVIOUS
  <2>1. /\ offset \in Nat /\ saved.offset \in Nat /\ pos \in Nat /\ batchN \in Nat
        /\ Ahead \in Int /\ BatchSize \in Nat \ {0} /\ batch \in Seq(Lines) /\ Len(batch) \in Nat
    BY WorkerAssumption DEF TypeInv, Core, TypeOK, Ahead
  <2>2. /\ Pending(batchN) \in Nat /\ Most \in Nat /\ Pending(batchN) + BatchSize <= Most
    BY <2>1, Intervals
  <2>3. CASE Start
    <3>1. /\ pc' = "extract" /\ batchN' = 0 /\ batch' = batch
          /\ offset' = saved.offset /\ saved' = saved /\ pos' <= saved.offset + 1
      BY <2>1, <2>3 DEF Start
    <3>2. Pending(0) \in Nat /\ Ahead' = 0
      <4>1. Pending(0) \in Nat
        BY Intervals
      <4>2. Ahead' = 0
        BY <2>1, <3>1 DEF Ahead
      <4>3. QED
        BY <4>1, <4>2
    <3>3. Ahead' <= Pending(batchN') + Len(batch')
      BY <2>1, <3>1, <3>2
    <3>4. pos' <= offset' + 1
      BY <2>1, <3>1
    <3>5. QED
      BY <3>1, <3>3, <3>4 DEF Behind
  <2>4. CASE Reads /\ (Take \/ Limit)
    <3>1. /\ pc = "extract" /\ pos \in Lines /\ offset' = pos /\ pos' = pos + 1
          /\ batchN' = batchN /\ (saved' = saved \/ saved'.offset = pos)
      <4>1. pos \in Lines
        <5>1. pos \in 1..(Len(Stream) + 1) /\ Len(Stream) \in Nat /\ pos <= Len(Stream)
          BY <2>4, WorkerAssumption DEF Reads, TypeInv, Core, TypeOK
        <5>2. QED
          BY <5>1 DEF Lines
      <4>2. saved' = saved \/ SavesAs(pos, committed, flag)
        BY <2>4 DEF Reads
      <4>3. SavesAs(pos, committed, flag) => saved'.offset = pos
        BY DEF SavesAs
      <4>4. QED
        BY <2>4, <4>1, <4>2, <4>3 DEF Reads
    <3>2. Ahead' <= Ahead + 1 \/ Ahead' = 0
      <4>1. pos <= offset + 1
        BY <3>1 DEF Behind
      <4>2. CASE saved' = saved
        BY <2>1, <3>1, <4>1, <4>2 DEF Ahead
      <4>3. CASE saved'.offset = pos
        BY <2>1, <3>1, <4>3 DEF Ahead
      <4>4. QED
        BY <3>1, <4>2, <4>3
    <3>3. Ahead' \in Int
      <4>1. saved'.offset \in Nat /\ offset' \in Nat
        BY <2>1, <3>1
      <4>2. QED
        BY <4>1 DEF Ahead
    <3>4. Ahead' <= Pending(batchN) + Len(batch) + 1 /\ Len(batch) < BatchSize
      <4>1. Ahead <= Pending(batchN) + Len(batch)
        BY <3>1 DEF Behind
      <4>2. Len(batch) < BatchSize
        BY <3>1 DEF TypeInv, Core, Flow
      <4>3. QED
        BY <2>1, <2>2, <3>2, <3>3, <4>1, <4>2
    <3>5. pos' <= offset' + 1
      BY <2>1, <3>1
    <3>6. CASE Take
      <4>1. Len(batch') = Len(batch) + 1 /\ pc' \in {"arrive", "extract"}
        BY <3>1, <3>6, BatchGrows, <2>1 DEF Take
      <4>2. Ahead' <= Pending(batchN') + Len(batch') /\ Ahead' <= Pending(batchN') + BatchSize
        BY <2>1, <2>2, <3>1, <3>3, <3>4, <4>1
      <4>3. QED
        BY <3>5, <4>1, <4>2 DEF Behind
    <3>7. CASE Limit
      <4>1. pc' \in {"arrive", "end"}
        BY <3>7 DEF Limit
      <4>2. Ahead' <= Pending(batchN') + BatchSize /\ Ahead' <= Most'
        BY <2>1, <2>2, <3>1, <3>3, <3>4 DEF Most
      <4>3. QED
        BY <3>5, <4>1, <4>2 DEF Behind
    <3>8. QED
      BY <2>4, <3>6, <3>7
  <2>5. CASE Exhaust \/ Arrive
    <3>1. /\ Ahead' = Ahead /\ pos' = pos /\ offset' = offset /\ Most' = Most
          /\ pc \in {"extract", "arrive"} /\ batchN' \in {batchN, batchN + 1}
      BY <2>5 DEF Exhaust, Arrive, ckpt, Ahead, Most
    <3>2. Ahead <= Pending(batchN) + BatchSize
      <4>1. pc = "extract" => Len(batch) < BatchSize
        BY DEF TypeInv, Core, Flow
      <4>2. QED
        BY <2>1, <2>2, <3>1, <4>1 DEF Behind
    <3>3. pos' <= offset' + 1
      BY <3>1 DEF Behind
    <3>4. CASE pc' \in {"arrive", "end"} /\ batchN' = batchN
      <4>1. Ahead <= Most
        BY <2>1, <2>2, <3>2
      <4>2. QED
        BY <3>1, <3>2, <3>3, <3>4, <4>1 DEF Behind
    <3>5. CASE pc' = "process" /\ batchN' = batchN + 1
      <4>1. batchN' > 0 /\ batchN' - 1 = batchN
        BY <2>1, <3>5
      <4>2. QED
        BY <3>1, <3>2, <3>3, <3>5, <4>1 DEF Behind
    <3>6. QED
      BY <2>5, <3>4, <3>5 DEF Exhaust, Arrive
  <2>6. CASE ProcessDoc \/ Processed \/ WriteDoc
    <3>1. /\ pc \in {"process", "write"} /\ pc' \in {"process", "write"}
          /\ UNCHANGED <<pos, offset, saved, batchN>>
      BY <2>6 DEF ProcessDoc, Processed, WriteDoc, ckpt, extractor
    <3>2. QED
      BY <3>1 DEF Behind, Ahead, Pending
  <2>7. CASE RotateShard \/ SaveCheckpoint
    <3>1. /\ (pc' = pc /\ pc = "write") \/ (pc' = "flush" /\ pc = "save")
          /\ saved'.offset = offset /\ UNCHANGED <<pos, offset, batchN>>
      <4>1. saved'.offset = offset
        BY <2>7 DEF RotateShard, SaveCheckpoint, Saves, SavesAs
      <4>2. CASE RotateShard
        BY <4>1, <4>2 DEF RotateShard, extractor
      <4>3. CASE SaveCheckpoint
        BY <4>1, <4>3 DEF SaveCheckpoint, extractor
      <4>4. QED
        BY <2>7, <4>2, <4>3
    <3>2. Ahead' = 0
      BY <2>1, <3>1 DEF Ahead
    <3>3. pc = "write" => batchN > 0 /\ 0 <= Pending(batchN - 1) + BatchSize
      <4>1. SUFFICES ASSUME pc = "write" PROVE batchN > 0 /\ 0 <= Pending(batchN - 1) + BatchSize
        OBVIOUS
      <4>2. batchN > 0 /\ batchN - 1 \in Nat
        BY <2>1, <4>1 DEF Behind
      <4>3. Pending(batchN - 1) \in Nat
        BY <4>2, Intervals
      <4>4. QED
        BY <2>1, <4>2, <4>3
    <3>4. QED
      BY <3>1, <3>2, <3>3 DEF Behind, Pending
  <2>8. CASE Commit
    <3>1. /\ pc = "write" /\ UNCHANGED <<pos, offset, saved, batchN, batch>>
          /\ pc' = IF batchN % FlushEvery = 0 THEN "save" ELSE NextBatch
      BY <2>8 DEF Commit, extractor
    <3>2. batchN > 0 /\ Ahead <= Pending(batchN - 1) + BatchSize /\ pos <= offset + 1
      BY <3>1 DEF Behind
    <3>3. batchN - 1 \in Nat /\ (batchN - 1) + 1 = batchN
      BY <2>1, <3>2
    <3>4. /\ Pending(batchN - 1) \in Nat /\ Pending(batchN - 1) + BatchSize <= Most
          /\ batchN % FlushEvery # 0 => Pending(batchN) = Pending(batchN - 1) + BatchSize
      BY <3>3, Intervals
    <3>5. Ahead <= Most /\ (batchN % FlushEvery # 0 => Ahead <= Pending(batchN) + Len(batch))
      BY <2>1, <2>2, <3>2, <3>4
    <3>6. /\ pc' \in {"save", "end", "extract"}
          /\ pc' = "extract" => batchN % FlushEvery # 0
      BY <3>1 DEF NextBatch
    <3>7. QED
      BY <3>1, <3>2, <3>5, <3>6 DEF Behind, Ahead, Pending, Most
  <2>9. CASE FlushWriter
    <3>1. /\ pc = "flush" /\ pc' \in {"extract", "end"}
          /\ UNCHANGED <<pos, offset, saved, batchN, batch>>
      BY <2>9 DEF FlushWriter, NextBatch, ckpt, extractor
    <3>2. Ahead <= 0 /\ pos <= offset + 1
      BY <3>1 DEF Behind
    <3>3. Ahead <= Pending(batchN) + Len(batch) /\ Ahead <= Most
      BY <2>1, <2>2, <3>2
    <3>4. QED
      BY <3>1, <3>2, <3>3 DEF Behind, Ahead, Pending, Most
  <2>10. CASE MarkCompleted \/ CloseWriter \/ SaveDedup
    <3>1. /\ pc \in {"end", "close", "dedup"} /\ pc' \in {"close", "dedup", "ended"}
          /\ UNCHANGED <<pos, offset>> /\ (saved' = saved \/ saved'.offset = offset)
      BY <2>10 DEF MarkCompleted, CloseWriter, SaveDedup, Saves, SavesAs, ckpt, extractor
    <3>2. Ahead' = Ahead \/ Ahead' = 0
      BY <2>1, <3>1 DEF Ahead
    <3>3. Ahead' <= Most
      BY <2>2, <3>1, <3>2 DEF Behind
    <3>4. QED
      BY <3>1, <3>3 DEF Behind, Most
  <2>11. CASE Spill \/ RequestStop \/ UNCHANGED vars
    <3>1. UNCHANGED <<pc, pos, offset, saved, batchN, batch>>
      BY <2>11 DEF Spill, RequestStop, vars, ckpt, extractor
    <3>2. QED
      BY <3>1, BehindStays
  <2>12. CASE ProcessEnds
    BY <2>12 DEF ProcessEnds, Behind
  <2>13. QED
    BY <2>3, <2>4, <2>5, <2>6, <2>7, <2>8, <2>9, <2>10, <2>11, <2>12
       DEF Next, WorkerStep, Take, Limit, MarkFailed
<1>3. TypeInv /\ Inv => ReworkBounded
  <2> SUFFICES ASSUME TypeInv, Behind, pc # "down" PROVE Ahead <= Most
    BY DEF ReworkBounded, Ahead, Most
  <2>1. /\ batchN \in Nat /\ Ahead \in Int /\ BatchSize \in Nat /\ Len(batch) \in Nat
    BY WorkerAssumption DEF TypeInv, Core, TypeOK, Ahead
  <2>2. Pending(batchN) \in Nat /\ Most \in Nat /\ Pending(batchN) + BatchSize <= Most
    BY <2>1, Intervals
  <2>3. CASE pc \in {"extract", "arrive"}
    <3>1. pc = "extract" => Len(batch) < BatchSize
      BY DEF TypeInv, Core, Flow
    <3>2. QED
      BY <2>1, <2>2, <2>3, <3>1 DEF Behind
  <2>4. CASE pc \in {"process", "write"}
    <3>1. batchN > 0 /\ Ahead <= Pending(batchN - 1) + BatchSize
      BY <2>4 DEF Behind
    <3>2. batchN - 1 \in Nat
      BY <2>1, <3>1
    <3>3. Pending(batchN - 1) \in Nat /\ Pending(batchN - 1) + BatchSize <= Most
      BY <3>2, Intervals
    <3>4. QED
      BY <2>1, <2>2, <3>1, <3>3
  <2>5. CASE pc \in {"flush", "save", "end", "close", "dedup", "ended"}
    BY <2>1, <2>2, <2>5 DEF Behind
  <2>6. QED
    BY <2>3, <2>4, <2>5 DEF TypeInv, Core, TypeOK
<1>4. QED
  BY <1>1, <1>2, <1>3, TypeInvariant, PTL DEF Spec
-----------------------------------------------------------------------------
\* What the worker holds in memory at each place of its loop.
Held == Len(batch) + Len(accepted) + Len(tail)
Memory ==
    /\ pc \in {"extract", "arrive"} => Len(tail) <= Pending(batchN)
    /\ pc \in {"process", "write"} => batchN > 0 /\ Held <= Pending(batchN - 1) + BatchSize
    /\ pc \in {"save", "flush", "end", "close"} => Len(tail) <= Most
    /\ pc \in {"down", "dedup", "ended"} => Len(tail) = 0

FewLost == IsFiniteSet(lost) /\ Cardinality(lost) <= crashes * FlushEvery * BatchSize

\* A sequence has at most as many values as positions.
LEMMA FewValues ==
    ASSUME NEW S, NEW q \in Seq(S)
    PROVE  IsFiniteSet({q[i] : i \in DOMAIN q}) /\ Cardinality({q[i] : i \in DOMAIN q}) <= Len(q)
<1> DEFINE T == {q[i] : i \in DOMAIN q}
<1>1. Len(q) \in Nat /\ DOMAIN q = 1..Len(q)
  OBVIOUS
<1>2. q \in Surjection(1..Len(q), T)
  BY <1>1 DEF Surjection
<1>3. IsFiniteSet(1..Len(q)) /\ Cardinality(1..Len(q)) = Len(q)
  BY <1>1, FS_Interval
<1>4. QED
  BY <1>1, <1>2, <1>3, FS_Surjection

LEMMA FewInBoth ==
    ASSUME NEW S, NEW T, NEW a \in Nat, NEW b \in Nat, IsFiniteSet(S), IsFiniteSet(T),
           Cardinality(S) <= a, Cardinality(T) <= b
    PROVE  IsFiniteSet(S \cup T) /\ Cardinality(S \cup T) <= a + b
<1>1. IsFiniteSet(S \cap T)
  BY FS_Subset
<1>2. /\ Cardinality(S) \in Nat /\ Cardinality(T) \in Nat /\ Cardinality(S \cap T) \in Nat
  BY <1>1, FS_CardinalityType
<1>3. QED
  BY <1>2, FS_Union

LEMMA FewInFlight ==
    ASSUME TypeInv
    PROVE  IsFiniteSet(InFlight) /\ Cardinality(InFlight) <= Held /\ Held \in Nat
<1> DEFINE r == [i \in DOMAIN tail |-> lines[tail[i]]]
           A == {batch[i] : i \in DOMAIN batch}
           B == {accepted[i] : i \in DOMAIN accepted}
           C == {lines[tail[i]] : i \in DOMAIN tail}
<1>1. /\ batch \in Seq(Lines) /\ accepted \in Seq(Lines) /\ lines \in Seq(Lines)
      /\ tail \in Seq(Nat) /\ \A i \in DOMAIN tail : tail[i] \in DOMAIN lines
  BY DEF TypeInv, Core, TypeOK, TailWritten
<1>2. \A i \in DOMAIN tail : lines[tail[i]] \in Lines
  BY <1>1
<1>3. r \in Seq(Lines) /\ Len(r) = Len(tail) /\ DOMAIN r = DOMAIN tail
  <2>1. DOMAIN tail = 1..Len(tail) /\ Len(tail) \in Nat
    BY <1>1
  <2>2. r \in [1..Len(tail) -> Lines]
    BY <1>2, <2>1
  <2>3. QED
    BY <2>1, <2>2
<1>4. C = {r[i] : i \in DOMAIN r}
  BY <1>3
<1> HIDE DEF r
<1>5. IsFiniteSet(A) /\ Cardinality(A) <= Len(batch)
  BY <1>1, FewValues
<1>6. IsFiniteSet(B) /\ Cardinality(B) <= Len(accepted)
  BY <1>1, FewValues
<1>7. IsFiniteSet(C) /\ Cardinality(C) <= Len(tail)
  BY <1>3, <1>4, FewValues
<1>8. InFlight = (A \cup B) \cup C
  BY DEF InFlight
<1>9. Len(batch) \in Nat /\ Len(accepted) \in Nat /\ Len(tail) \in Nat
  BY <1>1
<1> HIDE DEF A, B, C
<1>10. IsFiniteSet(A \cup B) /\ Cardinality(A \cup B) <= Len(batch) + Len(accepted)
  BY <1>5, <1>6, <1>9, FewInBoth
<1>11. Len(batch) + Len(accepted) \in Nat
  BY <1>9
<1>12. IsFiniteSet((A \cup B) \cup C) /\ Cardinality((A \cup B) \cup C) <= Len(batch) + Len(accepted) + Len(tail)
  BY <1>7, <1>9, <1>10, <1>11, FewInBoth
<1>13. QED
  BY <1>8, <1>9, <1>12 DEF Held

\* While nothing fails the worker holds at most the batches between two flushes.
LEMMA HeldBounded ==
    ASSUME TypeInv, Memory, ~CanFail, pc # "down"
    PROVE  Held <= Most
<1>1. /\ Len(batch) \in Nat /\ Len(accepted) \in Nat /\ Len(tail) \in Nat /\ batchN \in Nat
      /\ BatchSize \in Nat
  BY WorkerAssumption DEF TypeInv, Core, TypeOK, TailWritten
<1>2. Pending(batchN) \in Nat /\ Pending(batchN) + BatchSize <= Most /\ Most \in Nat
  BY <1>1, Intervals
<1>3. CASE pc \in {"extract", "arrive"}
  <2>1. Len(batch) <= BatchSize /\ Len(accepted) = 0
    BY <1>1, <1>3, NoBatchType DEF TypeInv, Core, Flow
  <2>2. Len(tail) <= Pending(batchN)
    BY <1>3 DEF Memory
  <2>3. QED
    BY <1>1, <1>2, <2>1, <2>2 DEF Held
<1>4. CASE pc \in {"process", "write"}
  <2>1. batchN > 0 /\ Held <= Pending(batchN - 1) + BatchSize
    BY <1>4 DEF Memory
  <2>2. batchN - 1 \in Nat
    BY <1>1, <2>1
  <2>3. Pending(batchN - 1) \in Nat /\ Pending(batchN - 1) + BatchSize <= Most
    BY <2>2, Intervals
  <2>4. Held \in Nat
    BY <1>1 DEF Held
  <2>5. QED
    BY <1>1, <1>2, <2>1, <2>3, <2>4
<1>5. CASE pc \in {"save", "flush", "end", "close", "dedup", "ended"}
  <2>1. Len(batch) = 0 /\ Len(accepted) = 0
    BY <1>5, NoBatchType DEF TypeInv, Core, Flow
  <2>2. Len(tail) <= Most
    BY <1>1, <1>2, <1>5 DEF Memory
  <2>3. QED
    BY <1>1, <1>2, <2>1, <2>2 DEF Held
<1>6. QED
  BY <1>3, <1>4, <1>5 DEF TypeInv, Core, TypeOK

LEMMA MemoryKept ==
    ASSUME TypeInv, Memory, [Next]_vars, ~CanFail
    PROVE  Memory'
<1>1. /\ Len(batch) \in Nat /\ Len(accepted) \in Nat /\ Len(tail) \in Nat /\ batchN \in Nat
      /\ BatchSize \in Nat /\ tail \in Seq(Nat) /\ next \in Nat
  BY WorkerAssumption DEF TypeInv, Core, TypeOK, TailWritten
<1>2. Pending(batchN) \in Nat /\ Pending(batchN) + BatchSize <= Most /\ Most \in Nat
  BY <1>1, Intervals
<1>3. CASE Start
  <2>1. pc = "down" /\ pc' = "extract" /\ batchN' = 0 /\ tail' = tail
    BY <1>3 DEF Start, log
  <2>2. Len(tail) = 0
    BY <2>1 DEF Memory
  <2>3. Pending(0) \in Nat
    BY Intervals
  <2>4. Len(tail') <= Pending(batchN')
    BY <2>1, <2>2, <2>3
  <2>5. QED
    BY <2>1, <2>4 DEF Memory
<1>4. CASE (Reads /\ (Take \/ Limit)) \/ Exhaust
  <2>1. pc = "extract" /\ pc' \in {"extract", "arrive", "end"} /\ batchN' = batchN /\ tail' = tail
    BY <1>4 DEF Reads, Take, Limit, Exhaust, log
  <2>2. Len(tail) <= Pending(batchN) /\ Len(tail) <= Most
    BY <1>1, <1>2, <2>1 DEF Memory
  <2>3. QED
    BY <2>1, <2>2 DEF Memory, Pending, Most
<1>5. CASE Arrive
  <2>1. /\ pc = "arrive" /\ tail' = tail /\ accepted' = accepted
        /\ pc' = "end" \/ (pc' = "process" /\ batchN' = batchN + 1 /\ batch' = batch)
    BY <1>5 DEF Arrive, log
  <2>2. /\ Len(tail) <= Pending(batchN) /\ Len(tail) <= Most
        /\ Len(batch) <= BatchSize /\ Len(accepted) = 0
    BY <1>1, <1>2, <2>1, NoBatchType DEF Memory, TypeInv, Core, Flow
  <2>3. CASE pc' = "end"
    BY <2>1, <2>2, <2>3 DEF Memory, Most
  <2>4. CASE pc' = "process" /\ batchN' = batchN + 1 /\ batch' = batch
    <3>1. batchN' > 0 /\ batchN' - 1 = batchN
      BY <1>1, <2>4
    <3>2. Held' <= Pending(batchN) + BatchSize
      BY <1>1, <1>2, <2>1, <2>2, <2>4 DEF Held
    <3>3. QED
      BY <2>4, <3>1, <3>2 DEF Memory
  <2>5. QED
    BY <2>1, <2>3, <2>4
<1>6. CASE ProcessDoc \/ Processed \/ WriteDoc \/ RotateShard
  <2>1. pc \in {"process", "write"} /\ pc' \in {"process", "write"} /\ batchN' = batchN
    BY <1>6 DEF ProcessDoc, Processed, WriteDoc, RotateShard
  <2>2. /\ batch \in Seq(Lines) /\ accepted \in Seq(Lines)
    BY DEF TypeInv, Core, TypeOK
  <2>3. Held' <= Held /\ Held' \in Nat
    <3>1. CASE ProcessDoc
      <4>1. batch # NoBatch /\ Len(batch') = Len(batch) - 1 /\ Head(batch) \in Lines
        BY <2>2, <3>1, BatchShrinks DEF ProcessDoc
      <4>2. Len(batch') \in Nat
        BY <2>2, <3>1 DEF ProcessDoc, NoBatch
      <4>3. Len(accepted') \in {Len(accepted), Len(accepted) + 1}
        BY <2>2, <3>1, <4>1, BatchGrows DEF ProcessDoc
      <4>4. tail' = tail
        BY <3>1 DEF ProcessDoc, log
      <4>5. QED
        BY <1>1, <4>1, <4>2, <4>3, <4>4 DEF Held
    <3>2. CASE Processed
      BY <1>1, <3>2 DEF Processed, log, Held
    <3>3. CASE WriteDoc
      <4>1. Len(accepted') = Len(accepted) - 1 /\ batch' = batch
        BY <2>2, <3>3, BatchShrinks DEF WriteDoc
      <4>2. Len(accepted') \in Nat
        BY <2>2, <3>3 DEF WriteDoc, NoBatch
      <4>3. tail' = tail \/ tail' = Append(tail, next)
        BY <3>3 DEF WriteDoc, W!Accept, log
      <4>4. Len(tail') \in {Len(tail), Len(tail) + 1}
        BY <1>1, <4>3
      <4>5. QED
        BY <1>1, <4>1, <4>2, <4>4 DEF Held
    <3>4. CASE RotateShard
      <4>1. tail' = <<>> /\ batch' = batch /\ accepted' = accepted
        BY <3>4 DEF RotateShard, Closes
      <4>2. QED
        BY <1>1, <4>1 DEF Held
    <3>5. QED
      BY <1>6, <3>1, <3>2, <3>3, <3>4
  <2>4. batchN > 0 /\ Held <= Pending(batchN - 1) + BatchSize
    BY <2>1 DEF Memory
  <2>5. batchN - 1 \in Nat
    BY <1>1, <2>4
  <2>6. Pending(batchN - 1) \in Nat /\ Held \in Nat
    <3>1. Pending(batchN - 1) \in Nat
      BY <2>5, Intervals
    <3>2. Held \in Nat
      BY <1>1 DEF Held
    <3>3. QED
      BY <3>1, <3>2
  <2>7. Held' <= Pending(batchN - 1) + BatchSize
    BY <1>1, <2>3, <2>4, <2>6
  <2>8. QED
    BY <2>1, <2>4, <2>7 DEF Memory, Pending
<1>7. CASE Commit
  <2>1. /\ pc = "write" /\ UNCHANGED <<batchN, batch, accepted, tail>>
        /\ pc' = IF batchN % FlushEvery = 0 THEN "save" ELSE NextBatch
    BY <1>7 DEF Commit, log
  <2>2. batchN > 0 /\ Held <= Pending(batchN - 1) + BatchSize
    BY <2>1 DEF Memory
  <2>3. batchN - 1 \in Nat /\ (batchN - 1) + 1 = batchN
    BY <1>1, <2>2
  <2>4. /\ Pending(batchN - 1) \in Nat /\ Pending(batchN - 1) + BatchSize <= Most
        /\ batchN % FlushEvery # 0 => Pending(batchN) = Pending(batchN - 1) + BatchSize
    BY <2>3, Intervals
  <2>5. Len(tail) <= Held
    BY <1>1 DEF Held
  <2>6. Len(tail) <= Most /\ (batchN % FlushEvery # 0 => Len(tail) <= Pending(batchN))
    <3>1. Held \in Nat
      BY <1>1 DEF Held
    <3>2. QED
      BY <1>1, <1>2, <2>2, <2>4, <2>5, <3>1
  <2>7. /\ pc' \in {"save", "end", "extract"}
        /\ pc' = "extract" => batchN % FlushEvery # 0
    BY <2>1 DEF NextBatch
  <2>8. QED
    BY <2>1, <2>6, <2>7 DEF Memory, Pending, Most
<1>8. CASE SaveCheckpoint \/ MarkCompleted
  <2>1. pc \in {"save", "end"} /\ pc' \in {"flush", "close"} /\ tail' = tail
    BY <1>8 DEF SaveCheckpoint, MarkCompleted, log
  <2>2. QED
    BY <2>1 DEF Memory, Most
<1>9. CASE FlushWriter \/ CloseWriter
  <2>1. pc' \in {"extract", "end", "dedup"} /\ tail' = <<>> /\ batchN' = batchN
    BY <1>9 DEF FlushWriter, CloseWriter, NextBatch, Flushes, Closes
  <2>2. Len(tail') = 0
    BY <2>1
  <2>3. QED
    BY <1>2, <2>1, <2>2 DEF Memory, Pending, Most
<1>10. CASE SaveDedup
  <2>1. pc = "dedup" /\ pc' = "ended" /\ tail' = tail
    BY <1>10 DEF SaveDedup, log
  <2>2. QED
    BY <2>1 DEF Memory
<1>11. CASE Spill
  <2>1. UNCHANGED <<pc, batchN, batch, accepted>>
    BY <1>11 DEF Spill
  <2>2. Len(tail') <= Len(tail) /\ Len(tail') \in Nat
    <3>1. PICK k \in 1..Len(tail) : tail' = SubSeq(tail, k + 1, Len(tail))
      BY <1>11 DEF Spill, W!Persist
    <3>2. Len(tail') = Len(tail) - k
      BY <1>1, <3>1
    <3>3. QED
      BY <1>1, <3>1, <3>2
  <2>3. Held' <= Held /\ Held' \in Nat /\ Held \in Nat
    BY <1>1, <2>1, <2>2 DEF Held
  <2>4. CASE pc \in {"process", "write"}
    <3>1. batchN > 0 /\ Held <= Pending(batchN - 1) + BatchSize
      BY <2>4 DEF Memory
    <3>2. batchN - 1 \in Nat
      BY <1>1, <3>1
    <3>3. Pending(batchN - 1) \in Nat
      BY <3>2, Intervals
    <3>4. Held' <= Pending(batchN - 1) + BatchSize
      BY <1>1, <2>3, <3>1, <3>3
    <3>5. QED
      BY <2>1, <2>4, <3>1, <3>4 DEF Memory, Pending
  <2>5. CASE pc \notin {"process", "write"}
    <3>1. /\ pc \in {"extract", "arrive"} => Len(tail') <= Pending(batchN)
          /\ pc \in {"save", "flush", "end", "close"} => Len(tail') <= Most
          /\ pc \in {"down", "dedup", "ended"} => Len(tail') = 0
      BY <1>1, <1>2, <2>2 DEF Memory
    <3>2. QED
      BY <2>1, <2>5, <3>1 DEF Memory, Pending, Most
  <2>6. QED
    BY <2>4, <2>5
<1>12. CASE RequestStop \/ UNCHANGED vars
  <2>1. UNCHANGED <<pc, batchN, batch, accepted, tail>>
    BY <1>12 DEF RequestStop, vars, log
  <2>2. QED
    BY <2>1 DEF Memory, Held, Pending, Most
<1>13. CASE ProcessEnds
  <2>1. pc' = "down" /\ tail' = <<>>
    BY <1>13 DEF ProcessEnds
  <2>2. Len(tail') = 0
    BY <2>1
  <2>3. QED
    BY <2>1, <2>2 DEF Memory
<1>14. QED
  BY <1>3, <1>4, <1>5, <1>6, <1>7, <1>8, <1>9, <1>10, <1>11, <1>12, <1>13
     DEF Next, WorkerStep, Take, Limit, MarkFailed

\* While nothing fails, for any stream and intervals and over any number of
\* crashes: each crash loses at most the batches between two flushes.
THEOREM Loss == Spec => []LossBounded
<1> DEFINE Inv == ~CanFail => Memory /\ FewLost
<1>1. Init => Inv
  <2> SUFFICES ASSUME Init PROVE Memory /\ FewLost
    OBVIOUS
  <2>1. pc = "down" /\ Len(tail) = 0 /\ lost = {} /\ crashes = 0
    BY DEF Init, W!Init
  <2>2. FlushEvery \in Nat /\ BatchSize \in Nat
    BY WorkerAssumption
  <2>3. 0 * FlushEvery * BatchSize = 0
    BY <2>2
  <2>4. QED
    BY <2>1, <2>3, FS_EmptySet DEF Memory, FewLost
<1>2. TypeInv /\ Inv /\ [Next]_vars => Inv'
  <2> SUFFICES ASSUME TypeInv, Memory, FewLost, ~CanFail, [Next]_vars PROVE FewLost'
    BY MemoryKept
  <2>1. CASE ~ProcessEnds
    <3>1. lost' = lost /\ crashes' = crashes
      BY <2>1 DEF Next, WorkerStep, Start, Take, Limit, Reads, Exhaust, Arrive, ProcessDoc,
                  Processed, WriteDoc, RotateShard, Commit, SaveCheckpoint, FlushWriter,
                  MarkCompleted, MarkFailed, CloseWriter, SaveDedup, Spill, RequestStop, vars,
                  history
    <3>2. QED
      BY <3>1 DEF FewLost
  <2>2. CASE ProcessEnds
    <3>1. pc # "down" /\ lost' = lost \cup GoneForGood
      BY <2>2 DEF ProcessEnds
    <3>2. /\ crashes \in Nat /\ FlushEvery \in Nat /\ BatchSize \in Nat /\ Most \in Nat
      BY WorkerAssumption, Intervals DEF TypeInv, Core, TypeOK
    <3>3. IsFiniteSet(InFlight) /\ Cardinality(InFlight) <= Held /\ Held \in Nat
      BY FewInFlight
    <3>4. /\ IsFiniteSet(GoneForGood) /\ Cardinality(GoneForGood) <= Cardinality(InFlight)
      BY <3>3, FS_Subset DEF GoneForGood
    <3>5. Cardinality(GoneForGood) \in Nat /\ Cardinality(InFlight) \in Nat
      BY <3>3, <3>4, FS_CardinalityType
    <3>6. CASE pc = "ended"
      <4>1. Held = 0
        <5>1. Len(batch) = 0 /\ Len(accepted) = 0 /\ Len(tail) = 0
          BY <3>6, NoBatchType DEF TypeInv, Core, Flow, Memory
        <5>2. QED
          BY <5>1 DEF Held
      <4>2. GoneForGood = {}
        BY <3>3, <3>4, <3>5, <4>1, FS_EmptySet
      <4>3. lost' = lost /\ crashes' = crashes
        BY <2>2, <3>1, <3>2, <3>6, <4>2 DEF ProcessEnds
      <4>4. QED
        BY <4>3 DEF FewLost
    <3>7. CASE pc # "ended"
      <4>1. Cardinality(GoneForGood) <= Most
        BY <3>1, <3>2, <3>3, <3>4, <3>5, HeldBounded
      <4>2. crashes' = crashes + 1
        BY <2>2, <3>7 DEF ProcessEnds
      <4>3. /\ crashes * FlushEvery * BatchSize \in Nat
            /\ (crashes + 1) * FlushEvery * BatchSize = crashes * FlushEvery * BatchSize + Most
        <5>1. \A n, f, b \in Nat : n * f * b \in Nat /\ (n + 1) * f * b = n * f * b + f * b
          OBVIOUS
        <5>2. QED
          BY <3>2, <5>1 DEF Most
      <4>4. /\ IsFiniteSet(lost \cup GoneForGood)
            /\ Cardinality(lost \cup GoneForGood) <= crashes * FlushEvery * BatchSize + Most
        BY <3>2, <3>4, <4>1, <4>3, FewInBoth DEF FewLost
      <4>5. QED
        BY <3>1, <4>2, <4>3, <4>4 DEF FewLost
    <3>8. QED
      BY <3>6, <3>7
  <2>3. QED
    BY <2>1, <2>2
<1>3. Inv => LossBounded
  BY DEF FewLost, LossBounded
<1>4. QED
  BY <1>1, <1>2, <1>3, TypeInvariant, PTL DEF Spec
-----------------------------------------------------------------------------
\* The line the worker processes next: the one behind those it has read and
\* not dropped, less those that wait in the batch.
Front == IF left = "max_docs" THEN pos - 1 ELSE pos
Cursor == Front - Len(batch)

\* The lines that were kept and are not durable yet, and the records there are
\* of the stream: durable, waiting, or in memory when a process ended.
TailLines == {lines[tail[i]] : i \in DOMAIN tail}
Waiting == {accepted[i] : i \in DOMAIN accepted} \cup TailLines
Sure == Durable \cup lost
Records == Sure \cup Waiting

\* While no writer fails and no quota refuses, the batch holds the lines in
\* front of the next one, and what waits comes before them.
InStream ==
    /\ offset <= Front /\ saved.offset <= Front
    /\ \A i \in DOMAIN batch : batch[i] = Cursor + i - 1
    /\ \A m \in Waiting : m < Cursor
Reading ==
    /\ stable \in Seq(Nat) /\ \A i \in DOMAIN stable : stable[i] \in DOMAIN lines
    /\ pc \in {"down", "dedup", "ended"} => tail = <<>>
    /\ pc # "down" => left \in {"no", "exhausted", "max_docs", "stop"}
    /\ pc # "down" /\ left = "exhausted" => pos = Len(Stream) + 1
    /\ pc # "down" /\ left = "stop" => stop
    /\ pc # "down" /\ left # "stop" => InStream

\* No record is missing in the log, as long as no process has ended.
Numbered ==
    /\ Len(stable) + Len(tail) = Len(lines)
    /\ \A i \in DOMAIN stable : stable[i] = i
    /\ \A i \in DOMAIN tail : tail[i] = Len(stable) + i

\* The writer makes the first records of the tail of its log durable.
Settles ==
    \E k \in 0..Len(tail) :
        /\ stable' = stable \o SubSeq(tail, 1, k)
        /\ tail' = SubSeq(tail, k + 1, Len(tail))

\* Everything that is written is a line of the stream.
LEMMA Written ==
    ASSUME TypeInv, Reading
    PROVE  /\ TailLines \subseteq Lines /\ Durable \subseteq Lines /\ Records \subseteq Lines
           /\ Waiting \subseteq Lines
<1>1. /\ lines \in Seq(Lines) /\ accepted \in Seq(Lines) /\ lost \subseteq Lines
      /\ \A i \in DOMAIN tail : tail[i] \in DOMAIN lines
      /\ \A i \in DOMAIN stable : stable[i] \in DOMAIN lines
  BY DEF TypeInv, Core, TypeOK, TailWritten, Reading
<1>2. \A n \in DOMAIN lines : lines[n] \in Lines
  BY <1>1
<1>3. TailLines \subseteq Lines /\ Durable \subseteq Lines
  BY <1>1, <1>2 DEF TailLines, Durable
<1>4. {accepted[i] : i \in DOMAIN accepted} \subseteq Lines
  BY <1>1
<1>5. QED
  BY <1>1, <1>3, <1>4 DEF Records, Sure, Waiting

\* What is left of a tail.
LEMMA RestOfTail ==
    ASSUME NEW s \in Seq(Nat), NEW k \in 0..Len(s), NEW r, r = SubSeq(s, k + 1, Len(s))
    PROVE  /\ r \in Seq(Nat) /\ DOMAIN r = 1..(Len(s) - k) /\ Len(r) = Len(s) - k
           /\ \A i \in 1..(Len(s) - k) : r[i] = s[i + k]
<1>1. /\ Len(s) \in Nat /\ k \in Int /\ k + 1 \in Int /\ Len(s) \in Int /\ k <= Len(s)
      /\ \A i \in (k + 1)..Len(s) : s[i] \in Nat
  OBVIOUS
<1>2. /\ r \in Seq(Nat)
      /\ Len(r) = IF k + 1 <= Len(s) THEN Len(s) - (k + 1) + 1 ELSE 0
      /\ \A i \in 1..(Len(s) - (k + 1) + 1) : r[i] = s[(k + 1) + i - 1]
  BY <1>1, SubSeqProperties
<1>3. Len(r) = Len(s) - k /\ Len(s) - (k + 1) + 1 = Len(s) - k
  <2> DEFINE n == Len(s)
  <2> HIDE DEF n
  <2>1. n \in Int /\ k \in Int /\ k <= n /\ Len(r) = IF k + 1 <= n THEN n - (k + 1) + 1 ELSE 0
    BY <1>1, <1>2 DEF n
  <2>2. Len(r) = n - k /\ n - (k + 1) + 1 = n - k
    BY <2>1
  <2>3. QED
    BY <2>2 DEF n
<1>4. \A i \in 1..(Len(s) - k) : (k + 1) + i - 1 = i + k
  BY <1>1
<1>5. DOMAIN r = 1..Len(r)
  BY <1>2
<1>6. QED
  BY <1>2, <1>3, <1>4, <1>5

\* A record that becomes durable stays one, in its place.
LEMMA Settling ==
    ASSUME TypeInv, Reading, lines' = lines, Settles
    PROVE  /\ stable' \in Seq(Nat) /\ \A i \in DOMAIN stable' : stable'[i] \in DOMAIN lines
           /\ Durable \subseteq Durable' /\ TailLines' \subseteq TailLines
           /\ Durable' \subseteq Durable \cup TailLines
           /\ TailLines \subseteq Durable' \cup TailLines'
           /\ tail = <<>> => tail' = <<>>
           /\ Numbered => Numbered'
<1> DEFINE t == Len(tail)
           s == Len(stable)
<1>1. PICK k \in 0..Len(tail) : stable' = stable \o SubSeq(tail, 1, k)
                                /\ tail' = SubSeq(tail, k + 1, Len(tail))
  BY DEF Settles
<1>2. /\ tail \in Seq(Nat) /\ stable \in Seq(Nat)
      /\ \A i \in DOMAIN tail : tail[i] \in DOMAIN lines
      /\ \A i \in DOMAIN stable : stable[i] \in DOMAIN lines
  BY DEF TypeInv, TailWritten, Reading
<1>3. /\ t \in Nat /\ s \in Nat /\ k \in Nat /\ k <= t
      /\ DOMAIN tail = 1..t /\ DOMAIN stable = 1..s
  BY <1>2
<1>4. /\ SubSeq(tail, 1, k) \in Seq(Nat) /\ Len(SubSeq(tail, 1, k)) = k
      /\ \A i \in 1..k : SubSeq(tail, 1, k)[i] = tail[i]
  BY <1>2, <1>3
<1>5. /\ stable' \in Seq(Nat) /\ DOMAIN stable' = 1..(s + k) /\ Len(stable') = s + k
      /\ \A i \in 1..s : stable'[i] = stable[i]
      /\ \A i \in 1..k : stable'[s + i] = tail[i]
  BY <1>1, <1>2, <1>3, <1>4
<1>6. /\ tail' \in Seq(Nat) /\ DOMAIN tail' = 1..(t - k) /\ Len(tail') = t - k
      /\ \A i \in 1..(t - k) : tail'[i] = tail[i + k]
  BY <1>1, <1>2, RestOfTail
<1> HIDE DEF t, s
<1>7. \A i \in 1..(s + k) : i \in 1..s \/ \E j \in 1..k : i = s + j
  <2>1. SUFFICES ASSUME NEW i \in 1..(s + k), i \notin 1..s PROVE \E j \in 1..k : i = s + j
    OBVIOUS
  <2>2. i - s \in 1..k /\ i = s + (i - s)
    BY <1>3, <2>1
  <2>3. QED
    BY <2>2
<1>8. \A i \in 1..t : i \in 1..k \/ \E j \in 1..(t - k) : i = j + k
  <2>1. SUFFICES ASSUME NEW i \in 1..t, i \notin 1..k PROVE \E j \in 1..(t - k) : i = j + k
    OBVIOUS
  <2>2. i - k \in 1..(t - k) /\ i = (i - k) + k
    BY <1>3, <2>1
  <2>3. QED
    BY <2>2
<1>9. /\ \A i \in 1..k : i \in 1..t /\ s + i \in 1..(s + k)
      /\ \A i \in 1..(t - k) : i + k \in 1..t
      /\ \A i \in 1..s : i \in 1..(s + k)
  BY <1>3
<1>10. \A i \in DOMAIN stable' : stable'[i] \in DOMAIN lines
  <2>1. \A i \in 1..s : stable'[i] \in DOMAIN lines
    BY <1>2, <1>3, <1>5
  <2>2. \A i \in 1..k : stable'[s + i] \in DOMAIN lines
    BY <1>2, <1>3, <1>5, <1>9
  <2>3. QED
    BY <1>5, <1>7, <2>1, <2>2
<1>11. Durable \subseteq Durable'
  <2>1. SUFFICES ASSUME NEW i \in 1..s PROVE lines[stable[i]] \in Durable'
    BY <1>3 DEF Durable
  <2>2. stable'[i] = stable[i] /\ i \in DOMAIN stable'
    BY <1>5, <1>9
  <2>3. QED
    BY <2>2 DEF Durable
<1>12. TailLines' \subseteq TailLines
  BY <1>3, <1>6, <1>9 DEF TailLines
<1>13. Durable' \subseteq Durable \cup TailLines
  <2>1. SUFFICES ASSUME NEW i \in 1..(s + k) PROVE lines[stable'[i]] \in Durable \cup TailLines
    BY <1>5 DEF Durable
  <2>2. CASE i \in 1..s
    BY <1>3, <1>5, <2>2 DEF Durable
  <2>3. ASSUME NEW j \in 1..k, i = s + j PROVE lines[stable'[i]] \in TailLines
    BY <1>3, <1>5, <1>9, <2>3 DEF TailLines
  <2>4. QED
    BY <1>7, <2>1, <2>2, <2>3
<1>14. TailLines \subseteq Durable' \cup TailLines'
  <2>1. SUFFICES ASSUME NEW i \in 1..t PROVE lines[tail[i]] \in Durable' \cup TailLines'
    BY <1>3 DEF TailLines
  <2>2. CASE i \in 1..k
    <3>1. stable'[s + i] = tail[i] /\ s + i \in DOMAIN stable'
      BY <1>5, <1>9, <2>2
    <3>2. QED
      BY <3>1 DEF Durable
  <2>3. ASSUME NEW j \in 1..(t - k), i = j + k PROVE lines[tail[i]] \in TailLines'
    BY <1>6, <2>3 DEF TailLines
  <2>4. QED
    BY <1>8, <2>1, <2>2, <2>3
<1>15. tail = <<>> => tail' = <<>>
  <2>1. SUFFICES ASSUME t = 0 PROVE Len(tail') = 0
    BY <1>6 DEF t
  <2>2. QED
    BY <1>3, <1>6, <2>1
<1>16. ASSUME Numbered PROVE Numbered'
  <2>1. /\ s + t = Len(lines) /\ \A i \in 1..s : stable[i] = i /\ \A j \in 1..t : tail[j] = s + j
    BY <1>3, <1>16 DEF Numbered, s, t
  <2>2. Len(stable') + Len(tail') = Len(lines)
    <3>1. Len(stable') = s + k /\ Len(tail') = t - k /\ s + t = Len(lines)
      BY <1>5, <1>6, <2>1
    <3>2. QED
      BY <1>3, <3>1
  <2>3. \A i \in 1..(s + k) : stable'[i] = i
    <3>1. \A i \in 1..s : stable'[i] = i
      BY <1>5, <1>16, <1>3 DEF Numbered
    <3>2. \A i \in 1..k : stable'[s + i] = s + i
      BY <1>5, <1>9, <1>16, <1>3 DEF Numbered, s
    <3>3. QED
      BY <1>7, <3>1, <3>2
  <2>4. \A i \in 1..(t - k) : tail'[i] = (s + k) + i
    <3>1. SUFFICES ASSUME NEW i \in 1..(t - k) PROVE tail'[i] = (s + k) + i
      OBVIOUS
    <3>2. tail'[i] = tail[i + k] /\ tail[i + k] = s + (i + k)
      BY <1>3, <1>6, <1>9, <1>16 DEF Numbered, s
    <3>3. QED
      BY <1>3, <3>2
  <2>5. QED
    BY <1>5, <1>6, <2>2, <2>3, <2>4 DEF Numbered
<1>17. QED
  BY <1>5, <1>10, <1>11, <1>12, <1>13, <1>14, <1>15, <1>16

\* Flushing and closing a writer that does not fail settles all of the tail,
\* and a step that leaves the log alone settles nothing.
LEMMA AllSettles ==
    ASSUME TypeInv, Reading
    PROVE  /\ stable' = stable \o tail /\ tail' = <<>> => Settles
           /\ UNCHANGED <<stable, tail>> => Settles
           /\ W!Persist => Settles
<1>1. tail \in Seq(Nat) /\ stable \in Seq(Nat) /\ Len(tail) \in Nat
  BY DEF TypeInv, TailWritten, Reading
<1>2. /\ SubSeq(tail, 1, Len(tail)) = tail /\ SubSeq(tail, Len(tail) + 1, Len(tail)) = <<>>
      /\ SubSeq(tail, 1, 0) = <<>> /\ SubSeq(tail, 0 + 1, Len(tail)) = tail
      /\ stable \o <<>> = stable
  BY <1>1
<1>3. Len(tail) \in 0..Len(tail) /\ 0 \in 0..Len(tail)
  BY <1>1
<1>4. stable' = stable \o tail /\ tail' = <<>> => Settles
  BY <1>2, <1>3 DEF Settles
<1>5. UNCHANGED <<stable, tail>> => Settles
  BY <1>2, <1>3 DEF Settles
<1>6. W!Persist => Settles
  <2>1. SUFFICES ASSUME W!Persist PROVE Settles
    OBVIOUS
  <2>2. PICK k \in 1..Len(tail) : stable' = stable \o SubSeq(tail, 1, k)
                                  /\ tail' = SubSeq(tail, k + 1, Len(tail))
    BY <2>1 DEF W!Persist
  <2>3. k \in 0..Len(tail)
    BY <1>1
  <2>4. QED
    BY <2>2, <2>3 DEF Settles
<1>7. QED
  BY <1>4, <1>5, <1>6

\* A step that takes no line, and changes the log at most by making some of
\* the tail durable.
Calm ==
    /\ pc # "down" /\ pc' # "down"
    /\ pc' \in {"dedup", "ended"} => tail' = <<>>
    /\ lines' = lines /\ Settles
    /\ UNCHANGED <<batch, accepted, pos, left, offset, history, exact, simMap>>
    /\ saved'.offset \in {saved.offset, offset}
    /\ simFile' \subseteq simMap \cup simFile
    /\ stop' = stop \/ (CanStop /\ stop')

LEMMA CalmSteps ==
    ASSUME TypeInv, Reading, ~CanFail,
           \/ Processed \/ RotateShard \/ Commit \/ SaveCheckpoint \/ FlushWriter \/ MarkCompleted
           \/ CloseWriter \/ SaveDedup \/ Spill \/ RequestStop
    PROVE  Calm
<1> USE DEF ckpt, extractor, log, history
<1>1. CASE \/ Processed \/ Commit \/ SaveCheckpoint \/ MarkCompleted \/ RequestStop
  <2>1. UNCHANGED <<stable, tail>> /\ pc # "down" /\ pc' \notin {"down", "dedup", "ended"}
    BY <1>1 DEF Processed, Commit, SaveCheckpoint, MarkCompleted, RequestStop, NextBatch
  <2>2. /\ UNCHANGED <<lines, batch, accepted, pos, left, offset, history, dedup>>
        /\ stop' = stop \/ (CanStop /\ stop')
    BY <1>1 DEF Processed, Commit, SaveCheckpoint, MarkCompleted, RequestStop
  <2>3. saved' = saved \/ saved'.offset = offset
    BY <1>1 DEF Processed, Commit, SaveCheckpoint, MarkCompleted, RequestStop, Saves, SavesAs
  <2>4. QED
    BY <2>1, <2>2, <2>3, AllSettles DEF Calm, dedup
<1>2. CASE RotateShard \/ FlushWriter \/ CloseWriter
  <2>1. stable' = stable \o tail /\ tail' = <<>> /\ pc # "down" /\ pc' # "down"
    BY <1>2 DEF RotateShard, FlushWriter, CloseWriter, Flushes, Closes, NextBatch
  <2>2. UNCHANGED <<lines, batch, accepted, pos, left, offset, history, dedup, stop>>
    BY <1>2 DEF RotateShard, FlushWriter, CloseWriter
  <2>3. saved' = saved \/ saved'.offset = offset
    BY <1>2 DEF RotateShard, FlushWriter, CloseWriter, Saves, SavesAs
  <2>4. QED
    BY <2>1, <2>2, <2>3, AllSettles DEF Calm, dedup
<1>3. CASE SaveDedup
  <2>1. UNCHANGED <<stable, tail>> /\ pc = "dedup" /\ pc' = "ended" /\ tail' = <<>>
    BY <1>3 DEF SaveDedup, Reading
  <2>2. UNCHANGED <<lines, batch, accepted, pos, left, offset, history, stop, saved>>
    BY <1>3 DEF SaveDedup
  <2>3. UNCHANGED <<exact, simMap>> /\ simFile' \subseteq simMap \cup simFile
    BY <1>3 DEF SaveDedup, D!Save, D!Saves, D!index
  <2>4. QED
    BY <2>1, <2>2, <2>3, AllSettles DEF Calm
<1>4. CASE Spill
  <2>1. /\ pc # "down" /\ pc' = pc /\ W!Persist
        /\ UNCHANGED <<lines, batch, accepted, pos, left, offset, saved, history, dedup, stop>>
    BY <1>4 DEF Spill
  <2>2. Settles
    BY <2>1, AllSettles
  <2>3. pc \in {"dedup", "ended"} => tail' = <<>>
    BY <2>1, <2>2, Settling DEF Reading
  <2>4. QED
    BY <2>1, <2>2, <2>3 DEF Calm, dedup
<1>5. QED
  BY <1>1, <1>2, <1>3, <1>4

\* What waits does not grow by it, and no record is forgotten.
LEMMA CalmRecords ==
    ASSUME TypeInv, Reading, lines' = lines, accepted' = accepted, lost' = lost, Settles
    PROVE  Sure \subseteq Sure' /\ Waiting' \subseteq Waiting /\ Records' = Records
<1>1. /\ Durable \subseteq Durable' /\ TailLines' \subseteq TailLines
      /\ Durable' \subseteq Durable \cup TailLines
      /\ TailLines \subseteq Durable' \cup TailLines'
  BY Settling
<1>2. QED
  BY <1>1 DEF Sure, Waiting, Records

\* The next accepted line is written: it waits as before.
LEMMA WriteRecords ==
    ASSUME TypeInv, Reading, WriteDoc, ~CanRefuse
    PROVE  /\ stable' \in Seq(Nat) /\ \A i \in DOMAIN stable' : stable'[i] \in DOMAIN lines'
           /\ Sure \subseteq Sure' /\ Waiting' = Waiting /\ Records \subseteq Records'
           /\ Records' \subseteq Records
<1>1. /\ accepted' = Tail(accepted) /\ accepted # NoBatch
      /\ lines' = Append(lines, Head(accepted)) /\ tail' = Append(tail, next)
      /\ stable' = stable /\ lost' = lost
  BY DEF WriteDoc, W!Accept, history
<1>2. /\ lines \in Seq(Lines) /\ Len(lines) = next - 1 /\ next \in Nat
      /\ accepted \in Seq(Lines) /\ tail \in Seq(Nat)
      /\ \A i \in DOMAIN tail : tail[i] \in DOMAIN lines
      /\ stable \in Seq(Nat) /\ \A i \in DOMAIN stable : stable[i] \in DOMAIN lines
  BY DEF TypeInv, Core, TypeOK, TailWritten, Reading
<1> DEFINE a == Head(accepted)
           n == Len(accepted)
<1>3. /\ n \in Nat \ {0} /\ a = accepted[1] /\ a \in Lines
      /\ DOMAIN accepted = 1..n /\ DOMAIN accepted' = 1..(n - 1)
      /\ \A i \in 1..(n - 1) : accepted'[i] = accepted[i + 1]
  BY <1>1, <1>2 DEF NoBatch
<1>4. /\ DOMAIN lines' = 1..next /\ DOMAIN lines = 1..(next - 1) /\ 1 <= next
      /\ lines'[next] = a /\ \A i \in DOMAIN lines : lines'[i] = lines[i]
  <2>1. DOMAIN lines = 1..(next - 1) /\ Len(lines) + 1 = next /\ Len(lines) \in Nat
    BY <1>2
  <2>2. /\ DOMAIN lines' = 1..(Len(lines) + 1) /\ lines'[Len(lines) + 1] = a
        /\ \A i \in DOMAIN lines : lines'[i] = lines[i]
    BY <1>1, <1>2, <1>3
  <2>3. QED
    BY <1>2, <2>1, <2>2
<1>5. /\ Len(tail) \in Nat /\ DOMAIN tail' = 1..(Len(tail) + 1) /\ tail'[Len(tail) + 1] = next
      /\ DOMAIN tail = 1..Len(tail) /\ \A i \in DOMAIN tail : tail'[i] = tail[i]
  BY <1>1, <1>2
<1> HIDE DEF a, n
<1>6. Durable' = Durable
  BY <1>1, <1>2, <1>4 DEF Durable
<1>7. TailLines' = TailLines \cup {a}
  <2>1. \A i \in DOMAIN tail : lines'[tail'[i]] = lines[tail[i]]
    BY <1>2, <1>4, <1>5
  <2>2. DOMAIN tail' = DOMAIN tail \cup {Len(tail) + 1}
    BY <1>5
  <2>3. lines'[tail'[Len(tail) + 1]] = a
    BY <1>4, <1>5
  <2>4. QED
    BY <2>1, <2>2, <2>3 DEF TailLines
<1>8. {accepted[i] : i \in DOMAIN accepted} = {accepted'[i] : i \in DOMAIN accepted'} \cup {a}
  <2>1. \A i \in 1..n : i = 1 \/ (i - 1 \in 1..(n - 1) /\ (i - 1) + 1 = i)
    BY <1>3
  <2>2. \A i \in 1..(n - 1) : i + 1 \in 1..n
    BY <1>3
  <2>3. 1 \in 1..n
    BY <1>3
  <2>4. {accepted[i] : i \in 1..n} \subseteq {accepted'[i] : i \in 1..(n - 1)} \cup {a}
    BY <1>3, <2>1
  <2>5. {accepted'[i] : i \in 1..(n - 1)} \cup {a} \subseteq {accepted[i] : i \in 1..n}
    BY <1>3, <2>2, <2>3
  <2>6. QED
    BY <1>3, <2>4, <2>5
<1>9. Waiting' = Waiting
  BY <1>7, <1>8 DEF Waiting
<1>10. \A i \in DOMAIN stable' : stable'[i] \in DOMAIN lines'
  <2>1. DOMAIN lines \subseteq DOMAIN lines'
    BY <1>2, <1>4
  <2>2. QED
    BY <1>1, <1>2, <2>1
<1>11. QED
  BY <1>1, <1>2, <1>6, <1>9, <1>10 DEF Sure, Records

\* The next line of the batch is kept, or not.
LEMMA BatchRecords ==
    ASSUME TypeInv, Reading, NEW l \in Lines, lines' = lines, UNCHANGED <<stable, tail, lost>>
    PROVE  /\ accepted' = accepted => Records' = Records /\ Waiting' = Waiting
           /\ accepted' = Append(accepted, l) =>
                 Records' = Records \cup {l} /\ Waiting' = Waiting \cup {l}
           /\ Sure' = Sure
<1>1. Sure' = Sure /\ TailLines' = TailLines
  BY DEF Sure, Durable, TailLines
<1>2. CASE accepted' = accepted
  <2>1. Waiting' = Waiting
    BY <1>1, <1>2 DEF Waiting
  <2>2. accepted' # Append(accepted, l)
    <3>1. Len(Append(accepted, l)) = Len(accepted) + 1 /\ Len(accepted) \in Nat
      BY DEF TypeInv, Core, TypeOK
    <3>2. QED
      BY <1>2, <3>1
  <2>3. QED
    BY <1>1, <1>2, <2>1, <2>2 DEF Records
<1>3. CASE accepted' = Append(accepted, l)
  <2>1. accepted \in Seq(Lines)
    BY DEF TypeInv, Core, TypeOK
  <2>2. /\ DOMAIN accepted' = DOMAIN accepted \cup {Len(accepted) + 1}
        /\ accepted'[Len(accepted) + 1] = l /\ \A i \in DOMAIN accepted : accepted'[i] = accepted[i]
    BY <1>3, <2>1
  <2>3. {accepted'[i] : i \in DOMAIN accepted'} = {accepted[i] : i \in DOMAIN accepted} \cup {l}
    BY <2>2
  <2>4. Waiting' = Waiting \cup {l}
    BY <1>1, <2>3 DEF Waiting
  <2>5. accepted' # accepted
    BY <1>3, <2>1
  <2>6. QED
    BY <1>1, <2>4, <2>5 DEF Records
<1>4. QED
  BY <1>1, <1>2, <1>3

\* Only processing a document moves the line that is processed next.
LEMMA CursorStays ==
    ASSUME TypeInv, ~CanRefuse,
           (Reads /\ (Take \/ Limit)) \/ Exhaust \/ (Arrive /\ ~stop) \/ WriteDoc \/ Calm
    PROVE  Cursor' = Cursor /\ pc # "down" /\ pc' # "down"
<1> USE DEF extractor
<1>1. /\ pos \in Int /\ batch \in Seq(Lines) /\ Len(batch) \in Nat
      /\ pos <= Len(Stream) => pos \in Lines
  BY WorkerAssumption DEF TypeInv, Core, TypeOK, Lines
<1>2. CASE Reads /\ Take
  <2>1. /\ left = "no" /\ left' = "no" /\ pos' = pos + 1 /\ batch' = Append(batch, pos)
        /\ pos \in Lines /\ pc # "down" /\ pc' # "down"
    BY <1>1, <1>2 DEF Reads, Take
  <2>2. Len(batch') = Len(batch) + 1
    BY <1>1, <2>1
  <2>3. Front = pos /\ Front' = pos + 1
    BY <2>1 DEF Front
  <2>4. Cursor' = Cursor
    BY <1>1, <2>2, <2>3 DEF Cursor
  <2>5. QED
    BY <2>1, <2>4
<1>3. CASE Reads /\ Limit
  <2>1. /\ left = "no" /\ left' \in {"max_docs", "quota"} /\ pos' = pos + 1 /\ batch' = batch
        /\ pc # "down" /\ pc' # "down" /\ (left' = "quota" => CanRefuse)
    BY <1>3 DEF Reads, Limit
  <2>2. QED
    BY <1>1, <2>1 DEF Front, Cursor
<1>4. CASE Exhaust \/ (Arrive /\ ~stop) \/ WriteDoc \/ Calm
  <2>1. /\ pc # "down" /\ pc' # "down" /\ UNCHANGED <<pos, batch>>
        /\ left' = left \/ (left = "no" /\ left' = "exhausted")
    BY <1>4 DEF Exhaust, Arrive, WriteDoc, Calm
  <2>2. QED
    BY <2>1 DEF Front, Cursor
<1>5. QED
  BY <1>2, <1>3, <1>4

\* A step that takes nothing from the batch and adds nothing to what waits.
LEMMA InStreamStays ==
    ASSUME InStream, Cursor' = Cursor, Front' = Front, batch' = batch, Waiting' \subseteq Waiting,
           offset' <= Front, saved'.offset <= Front
    PROVE  InStream'
BY DEF InStream

\* Where the worker is in its stream, while nothing fails and nothing is refused.
THEOREM ReadingInvariant == ASSUME ~CanFail, ~CanRefuse PROVE Spec => []Reading
<1>1. Init => Reading
  BY DEF Init, Reading, W!Init
<1>2. TypeInv /\ Reading /\ [Next]_vars => Reading'
  <2> SUFFICES ASSUME TypeInv, Reading, [Next]_vars PROVE Reading'
    OBVIOUS
  <2> USE DEF ckpt, extractor, log, history
  <2>1. /\ pos \in 1..(Len(Stream) + 1) /\ Len(Stream) \in Nat /\ batch \in Seq(Lines)
        /\ Len(batch) \in Nat /\ Front \in Int /\ Cursor \in Int /\ offset \in Nat /\ saved.offset \in Nat
        /\ DOMAIN batch = 1..Len(batch)
    BY WorkerAssumption DEF TypeInv, Core, TypeOK, Front, Cursor
  <2>2. /\ stable \in Seq(Nat) /\ \A i \in DOMAIN stable : stable[i] \in DOMAIN lines
        /\ Waiting \subseteq Lines
    BY Written DEF Reading
  <2>3. CASE Start
    <3>1. /\ pc = "down" /\ pc' = "extract" /\ left' = "no" /\ UNCHANGED <<lines, stable, tail, saved>>
          /\ accepted' = NoBatch /\ batch' = NoBatch /\ offset' = saved.offset
          /\ pos' = IF saved.offset = 0 THEN 1 ELSE saved.offset
      BY <2>3 DEF Start, TypeInv, Core, Flow
    <3>2. tail' = <<>>
      BY <3>1 DEF Reading
    <3>3. Waiting' = {}
      BY <3>1, <3>2 DEF Waiting, TailLines, NoBatch
    <3>4. Front' = pos' /\ saved.offset <= pos'
      BY <2>1, <3>1 DEF Front
    <3>5. InStream'
      BY <3>1, <3>3, <3>4 DEF InStream, NoBatch
    <3>6. QED
      BY <2>2, <3>1, <3>5 DEF Reading
  <2>4. CASE Reads /\ (Take \/ Limit)
    <3>1. /\ pc = "extract" /\ left = "no" /\ pos \in Lines /\ offset' = pos /\ pos' = pos + 1
          /\ saved'.offset \in {saved.offset, pos}
          /\ UNCHANGED <<accepted, lines, stable, tail>>
      <4>1. SavesAs(pos, committed, flag) \/ UNCHANGED saved
        BY <2>4 DEF Reads
      <4>2. saved'.offset \in {saved.offset, pos}
        BY <4>1 DEF SavesAs
      <4>3. pos \in Lines
        BY <2>1, <2>4 DEF Reads, Lines
      <4>4. QED
        BY <2>4, <4>2, <4>3 DEF Reads
    <3>2. /\ InStream /\ Front = pos /\ Waiting' = Waiting
          /\ offset <= pos /\ saved.offset <= pos
      BY <3>1 DEF Reading, InStream, Front, Waiting, TailLines
    <3>3. CASE Take
      <4>1. /\ batch' = Append(batch, pos) /\ left' = "no" /\ pc' \in {"arrive", "extract"}
        BY <3>1, <3>3 DEF Take
      <4>2. /\ Len(batch') = Len(batch) + 1 /\ DOMAIN batch' = 1..(Len(batch) + 1)
            /\ batch'[Len(batch) + 1] = pos
            /\ \A i \in 1..Len(batch) : batch'[i] = batch[i]
        BY <2>1, <3>1, <4>1
      <4>3. Front' = pos + 1 /\ Cursor' = Cursor /\ Cursor = pos - Len(batch)
        <5>1. Front' = pos + 1
          BY <3>1, <4>1 DEF Front
        <5>2. QED
          BY <2>1, <3>2, <4>2, <5>1 DEF Cursor
      <4>4. \A i \in DOMAIN batch' : batch'[i] = Cursor + i - 1
        <5>1. \A i \in 1..Len(batch) : batch'[i] = Cursor + i - 1
          BY <2>1, <3>2, <4>2 DEF InStream
        <5>2. batch'[Len(batch) + 1] = Cursor + (Len(batch) + 1) - 1
          BY <2>1, <4>2, <4>3
        <5>3. \A i \in 1..(Len(batch) + 1) : i \in 1..Len(batch) \/ i = Len(batch) + 1
          BY <2>1
        <5>4. QED
          BY <4>2, <5>1, <5>2, <5>3
      <4>5. offset' <= Front' /\ saved'.offset <= Front'
        BY <2>1, <3>1, <3>2, <4>3
      <4>6. InStream'
        BY <3>2, <4>3, <4>4, <4>5 DEF InStream
      <4>7. QED
        BY <2>2, <3>1, <4>1, <4>6 DEF Reading
    <3>4. CASE Limit
      <4>1. batch' = batch /\ left' = "max_docs" /\ pc' \in {"arrive", "end"}
        BY <3>4 DEF Limit
      <4>2. Front' = pos /\ Front = pos
        BY <2>1, <3>1, <3>2, <4>1 DEF Front
      <4>3. Cursor' = Cursor
        BY <4>1, <4>2 DEF Cursor
      <4>4. offset' <= Front /\ saved'.offset <= Front
        BY <2>1, <3>1, <3>2
      <4>5. InStream'
        BY <3>2, <4>1, <4>2, <4>3, <4>4, InStreamStays
      <4>6. QED
        BY <2>2, <3>1, <4>1, <4>5 DEF Reading
    <3>5. QED
      BY <2>4, <3>3, <3>4
  <2>5. CASE Exhaust
    <3>1. /\ pc = "extract" /\ left = "no" /\ left' = "exhausted" /\ pos > Len(Stream)
          /\ pc' \in {"end", "arrive"}
          /\ UNCHANGED <<pos, batch, accepted, lines, stable, tail, offset, saved>>
      BY <2>5 DEF Exhaust
    <3>2. InStream /\ Front' = Front /\ Cursor' = Cursor /\ Waiting' = Waiting
      BY <3>1 DEF Reading, Front, Cursor, Waiting, TailLines
    <3>3. InStream'
      BY <3>1, <3>2, InStreamStays DEF InStream
    <3>4. pos' = Len(Stream) + 1
      BY <2>1, <3>1
    <3>5. QED
      BY <2>2, <3>1, <3>3, <3>4 DEF Reading
  <2>6. CASE Arrive
    <3>1. /\ pc = "arrive" /\ pc' \in {"end", "process"} /\ stop' = stop
          /\ UNCHANGED <<pos, accepted, lines, stable, tail, offset, saved>>
      BY <2>6 DEF Arrive
    <3>2. CASE left' = "stop" /\ stop
      BY <2>2, <3>1, <3>2 DEF Reading
    <3>3. CASE left' = left /\ batch' = batch
      <4>1. Front' = Front /\ Cursor' = Cursor /\ Waiting' = Waiting
        BY <3>1, <3>3 DEF Front, Cursor, Waiting, TailLines
      <4>2. InStream => InStream'
        BY <3>1, <3>3, <4>1, InStreamStays DEF InStream
      <4>3. QED
        BY <2>2, <3>1, <3>3, <4>2 DEF Reading
    <3>4. QED
      BY <2>6, <3>2, <3>3 DEF Arrive
  <2>7. CASE ProcessDoc
    <3>1. /\ pc = "process" /\ pc' = pc /\ batch' = Tail(batch) /\ batch # NoBatch
          /\ UNCHANGED <<pos, left, stop, lines, stable, tail, lost, offset, saved>>
          /\ accepted' \in {accepted, Append(accepted, Head(batch))}
      BY <2>7 DEF ProcessDoc
    <3>2. /\ Head(batch) \in Lines /\ Head(batch) = batch[1] /\ 1 \in DOMAIN batch
          /\ Len(batch') = Len(batch) - 1 /\ DOMAIN batch' = 1..(Len(batch) - 1)
          /\ \A i \in 1..(Len(batch) - 1) : batch'[i] = batch[i + 1] /\ i + 1 \in DOMAIN batch
      BY <2>1, <3>1 DEF NoBatch
    <3>3. Waiting' \subseteq Waiting \cup {Head(batch)}
      BY <3>1, <3>2, BatchRecords
    <3>4. Front' = Front /\ Cursor' = Cursor + 1
      <4>1. Front' = Front
        BY <3>1 DEF Front
      <4>2. QED
        BY <2>1, <3>2, <4>1 DEF Cursor
    <3>5. ASSUME InStream PROVE InStream'
      <4>1. Head(batch) = Cursor
        BY <2>1, <3>2, <3>5 DEF InStream
      <4>2. \A m \in Waiting' : m < Cursor'
        <5>1. \A m \in Waiting : m < Cursor /\ m \in Int
          BY <2>2, <3>5 DEF InStream, Lines
        <5>2. \A m \in Waiting : m < Cursor + 1
          BY <2>1, <5>1
        <5>3. Head(batch) < Cursor + 1
          BY <2>1, <4>1
        <5>4. QED
          BY <3>3, <3>4, <5>2, <5>3
      <4>3. \A i \in DOMAIN batch' : batch'[i] = Cursor' + i - 1
        <5>1. SUFFICES ASSUME NEW i \in 1..(Len(batch) - 1) PROVE batch'[i] = Cursor' + i - 1
          BY <3>2
        <5>2. batch'[i] = Cursor + (i + 1) - 1
          BY <3>2, <3>5 DEF InStream
        <5>3. QED
          BY <2>1, <3>4, <5>2
      <4>4. QED
        BY <3>1, <3>4, <3>5, <4>2, <4>3 DEF InStream
    <3>6. QED
      BY <2>2, <3>1, <3>5 DEF Reading
  <2>8. CASE WriteDoc
    <3>1. /\ pc = "write" /\ pc' = pc /\ UNCHANGED <<batch, pos, left, stop, offset, saved>>
      BY <2>8 DEF WriteDoc
    <3>2. /\ stable' \in Seq(Nat) /\ \A i \in DOMAIN stable' : stable'[i] \in DOMAIN lines'
          /\ Waiting' = Waiting
      BY <2>8, WriteRecords
    <3>3. Front' = Front /\ Cursor' = Cursor
      BY <3>1 DEF Front, Cursor
    <3>4. InStream => InStream'
      BY <3>1, <3>2, <3>3, InStreamStays DEF InStream
    <3>5. QED
      BY <3>1, <3>2, <3>4 DEF Reading
  <2>9. CASE \/ Processed \/ RotateShard \/ Commit \/ SaveCheckpoint \/ FlushWriter \/ MarkCompleted
             \/ CloseWriter \/ SaveDedup \/ Spill \/ RequestStop
    <3>1. Calm
      BY <2>9, CalmSteps
    <3>2. /\ pc # "down" /\ pc' # "down" /\ (pc' \in {"dedup", "ended"} => tail' = <<>>)
          /\ lines' = lines /\ UNCHANGED <<batch, pos, left, offset>>
          /\ saved'.offset \in {saved.offset, offset} /\ (stop => stop')
      BY <3>1 DEF Calm
    <3>3. /\ stable' \in Seq(Nat) /\ \A i \in DOMAIN stable' : stable'[i] \in DOMAIN lines
      BY <3>1, Settling DEF Calm
    <3>4. Waiting' \subseteq Waiting
      BY <3>1, CalmRecords DEF Calm
    <3>5. Front' = Front /\ Cursor' = Cursor
      BY <3>2 DEF Front, Cursor
    <3>6. InStream => InStream'
      BY <3>2, <3>4, <3>5, InStreamStays DEF InStream
    <3>7. QED
      BY <3>2, <3>3, <3>6 DEF Reading
  <2>10. CASE ProcessEnds
    <3>1. pc' = "down" /\ tail' = <<>> /\ UNCHANGED <<stable, lines>>
      BY <2>10 DEF ProcessEnds
    <3>2. QED
      BY <2>2, <3>1 DEF Reading
  <2>11. CASE UNCHANGED vars
    BY <2>11 DEF vars, Reading, InStream, Front, Cursor, Waiting, TailLines
  <2>12. QED
    BY <2>3, <2>4, <2>5, <2>6, <2>7, <2>8, <2>9, <2>10, <2>11
       DEF Next, WorkerStep, Take, Limit, MarkFailed
<1>3. QED
  BY <1>1, <1>2, TypeInvariant, PTL DEF Spec
-----------------------------------------------------------------------------
\* Whatever the deduplicator knows goes back to a record.
SimOf(s) == \E m \in Records : Sim(m) = s
HashOf(h) ==
    \E k \in Lines :
        /\ Doc(k).hash = h
        /\ \/ k \in Records
           \/ SimOn /\ \E m \in Records : D!Near(Sim(k), Sim(m))
SimTraced == \A s \in simMap \cup simFile : SimOf(s)
HashTraced == \A h \in exact : HashOf(h)

\* A line is accounted for: by itself, or by a record it is a copy of, which
\* is not lost when a process ends unless the line is behind the offset, too.
Accounted(l) ==
    \/ l \in Bad \cup Records
    \/ \E m \in Records : m # l /\ Copy(l, m) /\ (m \in Sure \/ m < l)
Passed == IF pc = "down" THEN saved.offset ELSE Cursor
Covering ==
    /\ ~stop
    /\ SimOn => SimTraced
    /\ ExactOn => HashTraced
    /\ \A l \in Lines : l < Passed => Accounted(l)

\* A document is near itself.
LEMMA NearItself == \A a : D!Near(a, a)
<1>1. \A a : (a \ a) \cup (a \ a) = {}
  OBVIOUS
<1>2. D!Hamming({}, {}) = 0
  <2>1. D!Cardinality({}) = Cardinality({})
    BY DEF D!Cardinality, Cardinality
  <2>2. QED
    BY <2>1, FS_EmptySet DEF D!Hamming
<1>3. \A a : D!Hamming(a, a) = 0
  BY <1>1, <1>2, Zenon DEF D!Hamming
<1>4. 0 <= K
  BY WorkerAssumption
<1>5. QED
  BY <1>3, <1>4 DEF D!Near

\* A step that forgets no record keeps every line accounted for, and the
\* deduplicator's knowledge traced.
LEMMA AccountsStay ==
    ASSUME Sure \subseteq Sure', Records \subseteq Records', NEW l, Accounted(l)
    PROVE  Accounted(l)'
<1>1. CASE l \in Bad \cup Records
  BY <1>1 DEF Accounted
<1>2. CASE \E m \in Records : m # l /\ Copy(l, m) /\ (m \in Sure \/ m < l)
  <2>1. PICK m \in Records : m # l /\ Copy(l, m) /\ (m \in Sure \/ m < l)
    BY <1>2
  <2>2. m \in Records' /\ Copy(l, m)' /\ (m \in Sure' \/ m < l)
    BY <2>1 DEF Copy, Alike, Doc
  <2>3. QED
    BY <2>1, <2>2 DEF Accounted
<1>3. QED
  BY <1>1, <1>2 DEF Accounted

LEMMA TracesStay ==
    ASSUME Records \subseteq Records'
    PROVE  /\ \A s : SimOf(s) => SimOf(s)'
           /\ \A h : HashOf(h) => HashOf(h)'
           /\ (simMap' \cup simFile' \subseteq simMap \cup simFile /\ SimTraced => SimTraced')
           /\ (exact' \subseteq exact /\ HashTraced => HashTraced')
<1>1. ASSUME NEW s, SimOf(s) PROVE SimOf(s)'
  BY <1>1 DEF SimOf, Sim, Doc
<1>2. ASSUME NEW h, HashOf(h) PROVE HashOf(h)'
  <2>1. PICK k \in Lines : /\ Doc(k).hash = h
                           /\ \/ k \in Records
                              \/ SimOn /\ \E m \in Records : D!Near(Sim(k), Sim(m))
    BY <1>2 DEF HashOf
  <2>2. \E n \in Lines : /\ Doc(n).hash = h
                         /\ \/ n \in Records'
                            \/ SimOn /\ \E m \in Records' : D!Near(Sim(n), Sim(m))
    BY <2>1
  <2>3. QED
    BY <2>2 DEF HashOf, Sim, Doc
<1>3. QED
  BY <1>1, <1>2 DEF SimTraced, HashTraced

\* The document that is processed: rejected for a record, or kept as one.
LEMMA CoveringProcess ==
    ASSUME TypeInv, Reading, Covering, ~CanFail, ProcessDoc,
           NEW l, l = Head(batch), NEW d, d = Doc(l)
    PROVE  Covering'
<1>1. /\ pc = "process" /\ pc' = "process" /\ stop' = stop /\ batch # NoBatch /\ batch' = Tail(batch)
      /\ lines' = lines /\ UNCHANGED <<stable, tail, lost, pos, left>>
  BY DEF ProcessDoc, extractor, log, history
<1>2. /\ batch \in Seq(Lines) /\ l \in Lines /\ l = batch[1] /\ 1 \in DOMAIN batch
      /\ Len(batch) \in Nat /\ Len(batch') = Len(batch) - 1 /\ pos \in Int /\ Front \in Int
  BY <1>1 DEF TypeInv, Core, TypeOK, NoBatch, Front
<1>3. InStream /\ ~stop
  BY <1>1 DEF Reading, Covering
<1>4. l = Cursor /\ Cursor \in Int /\ Cursor' = Cursor + 1
  <2>1. Front' = Front
    BY <1>1 DEF Front
  <2>2. Cursor \in Int /\ Cursor' = Cursor + 1
    BY <1>2, <2>1 DEF Cursor
  <2>3. l = Cursor + 1 - 1
    BY <1>2, <1>3 DEF InStream
  <2>4. QED
    BY <2>2, <2>3
<1>5. \A k \in Lines : k < Cursor => Accounted(k)
  BY <1>1 DEF Covering, Passed
<1>6. \A k \in Lines : k < Cursor' => k < Cursor \/ k = l
  BY <1>4 DEF Lines
<1>7. /\ Sure' = Sure
      /\ accepted' = accepted => Records' = Records
      /\ accepted' = Append(accepted, l) => Records' = Records \cup {l}
  BY <1>1, <1>2, BatchRecords
<1>8. \A m \in Records : m \in Sure \/ m < l
  BY <1>3, <1>4 DEF Records, InStream
<1>a. d.sim = Sim(l)
  BY DEF Sim
<1>9. ASSUME Records \subseteq Records', Accounted(l)',
             SimOn => SimTraced', ExactOn => HashTraced'
      PROVE  Covering'
  <2>1. \A k \in Lines : k < Cursor' => Accounted(k)'
    <3>1. SUFFICES ASSUME NEW k \in Lines, k < Cursor' PROVE Accounted(k)'
      OBVIOUS
    <3>2. CASE k < Cursor
      BY <1>5, <1>7, <1>9, <3>2, AccountsStay
    <3>3. CASE k = l
      BY <1>9, <3>3
    <3>4. QED
      BY <1>6, <3>1, <3>2, <3>3
  <2>2. Passed' = Cursor'
    BY <1>1 DEF Passed
  <2>3. QED
    BY <1>1, <1>3, <1>9, <2>1, <2>2 DEF Covering
<1>10. CASE l \in Bad /\ accepted' = accepted /\ UNCHANGED dedup
  <2>1. Records' = Records /\ UNCHANGED <<simMap, simFile, exact>>
    BY <1>7, <1>10 DEF dedup
  <2>2. Accounted(l)'
    BY <1>10 DEF Accounted
  <2>3. QED
    BY <1>9, <2>1, <2>2, TracesStay DEF Covering
<1>11. CASE D!Duplicate(d) /\ accepted' = accepted
  <2>1. Records' = Records
    BY <1>7, <1>11
  <2>2. D!ExactDup(d) \/ D!NearDup(d)
    BY <1>11 DEF D!Duplicate, D!Unique, D!MinhashDup
  <2>3. /\ UNCHANGED <<simMap, simFile>>
        /\ exact' = IF ExactOn THEN exact \cup {d.hash} ELSE exact
    BY <1>11, <2>2 DEF D!Duplicate, D!Indexed
  <2>4. ASSUME D!NearDup(d)
        PROVE  SimOn /\ \E m \in Records : D!Near(Sim(l), Sim(m))
    <3>1. SimOn /\ \E s \in simMap : D!Near(d.sim, s)
      BY <2>4 DEF D!NearDup
    <3>2. PICK s \in simMap : D!Near(d.sim, s)
      BY <3>1
    <3>3. SimOf(s)
      BY <3>1 DEF Covering, SimTraced
    <3>4. QED
      BY <1>a, <3>1, <3>2, <3>3 DEF SimOf
  <2>5. ASSUME D!ExactDup(d) PROVE ExactOn /\ d.hash \in exact /\ HashOf(d.hash)
    BY <2>5 DEF D!ExactDup, Covering, HashTraced
  <2>6. SimOn => SimTraced'
    BY <2>1, <2>3, TracesStay DEF Covering
  <2>7. ExactOn => HashTraced'
    <3>1. SUFFICES ASSUME ExactOn, NEW h \in exact' PROVE HashOf(h)
      BY <2>1, TracesStay DEF HashTraced
    <3>2. CASE h \in exact
      BY <3>1, <3>2 DEF Covering, HashTraced
    <3>3. CASE h = d.hash /\ D!NearDup(d)
      <4>1. /\ l \in Lines /\ Doc(l).hash = h
            /\ SimOn /\ \E m \in Records : D!Near(Sim(l), Sim(m))
        BY <1>2, <1>a, <2>4, <3>3
      <4>2. QED
        BY <4>1 DEF HashOf
    <3>4. CASE h = d.hash /\ D!ExactDup(d)
      BY <2>5, <3>4
    <3>5. QED
      BY <2>2, <2>3, <3>1, <3>2, <3>3, <3>4
  <2>8. Accounted(l)
    <3>1. CASE l \in Records
      BY <3>1 DEF Accounted
    <3>2. ASSUME NEW m \in Records, Copy(l, m), l \notin Records PROVE Accounted(l)
      <4>1. m # l /\ (m \in Sure \/ m < l)
        BY <1>8, <3>2
      <4>2. QED
        BY <3>2, <4>1 DEF Accounted
    <3>3. CASE D!NearDup(d)
      <4>1. PICK m \in Records : SimOn /\ D!Near(Sim(l), Sim(m))
        BY <2>4, <3>3
      <4>2. Copy(l, m)
        BY <4>1 DEF Copy, Alike, Sim
      <4>3. QED
        BY <3>1, <3>2, <4>2
    <3>4. CASE D!ExactDup(d)
      <4>1. PICK k \in Lines : /\ Doc(k).hash = d.hash
                               /\ \/ k \in Records
                                  \/ SimOn /\ \E m \in Records : D!Near(Sim(k), Sim(m))
        BY <2>5, <3>4 DEF HashOf
      <4>2. ExactOn /\ Doc(l).hash = Doc(k).hash
        BY <1>a, <2>5, <3>4, <4>1
      <4>3. CASE k \in Records
        <5>1. Copy(l, k)
          BY <4>2 DEF Copy, Alike
        <5>2. QED
          BY <3>1, <3>2, <4>3, <5>1
      <4>4. ASSUME SimOn, NEW m \in Records, D!Near(Sim(k), Sim(m)) PROVE Accounted(l)
        <5>1. Copy(l, m)
          BY <4>2, <4>4 DEF Copy, Sim
        <5>2. QED
          BY <3>1, <3>2, <5>1
      <4>5. QED
        BY <4>1, <4>3, <4>4
    <3>5. QED
      BY <2>2, <3>3, <3>4
  <2>9. Accounted(l)'
    BY <1>7, <2>1, <2>8, AccountsStay
  <2>10. QED
    BY <1>9, <2>1, <2>6, <2>7, <2>9
<1>12. CASE D!Keep(d) /\ accepted' = Append(accepted, l)
  <2>1. Records' = Records \cup {l}
    BY <1>7, <1>12
  <2>2. Accounted(l)'
    BY <2>1 DEF Accounted
  <2>3. /\ simMap' \subseteq simMap \cup {Sim(l)}
        /\ exact' \subseteq exact \cup {Doc(l).hash}
    BY <1>12, <1>a DEF D!Keep, D!Indexed
  <2>4. SimOn => simFile' \subseteq simMap' \cup simFile
    BY <1>12 DEF D!Keep, D!Saves
  <2>5. SimOf(Sim(l))' /\ HashOf(Doc(l).hash)'
    BY <1>2, <2>1 DEF SimOf, HashOf, Sim, Doc
  <2>6. SimOn => SimTraced'
    BY <2>1, <2>3, <2>4, <2>5, TracesStay DEF SimTraced, Covering
  <2>7. ExactOn => HashTraced'
    BY <2>1, <2>3, <2>5, TracesStay DEF HashTraced, Covering
  <2>8. QED
    BY <1>9, <2>1, <2>2, <2>6, <2>7
<1>13. QED
  BY <1>10, <1>11, <1>12 DEF ProcessDoc, Doc

\* What was in memory is gone for good, where it accounts for a line behind the
\* saved offset or the saved SimHash map goes back to it.
LEMMA CoveringEnd ==
    ASSUME TypeInv, Reading, Covering, ProcessEnds
    PROVE  Covering'
<1>1. /\ pc # "down" /\ pc' = "down" /\ stop' = stop /\ lost' = lost \cup GoneForGood
      /\ tail' = <<>> /\ accepted' = NoBatch /\ UNCHANGED <<lines, stable, saved>>
      /\ exact' = {} /\ simMap' = {} /\ simFile' = simFile
  BY DEF ProcessEnds, D!ProcessEnds, ckpt
<1>2. InStream /\ ~stop /\ saved.offset \in Int /\ Front \in Int
  BY <1>1 DEF Reading, Covering, TypeInv, Core, TypeOK, Front
<1>3. Durable' = Durable /\ Sure' = Sure \cup GoneForGood /\ Records' = Sure'
  <2>1. Durable' = Durable
    BY <1>1 DEF Durable
  <2>2. Waiting' = {}
    BY <1>1 DEF Waiting, TailLines, NoBatch
  <2>3. QED
    BY <1>1, <2>1, <2>2 DEF Sure, Records
<1>4. Waiting \subseteq InFlight
  BY DEF Waiting, TailLines, InFlight
<1>5. \A m \in Records : m < saved.offset => m \in Records'
  BY <1>3, <1>4 DEF Records, GoneForGood
<1>6. \A m \in Records : SimOn /\ Sim(m) \in simFile => m \in Records'
  <2>1. SUFFICES ASSUME NEW m \in Waiting, SimOn, Sim(m) \in simFile PROVE m \in GoneForGood
    BY <1>3 DEF Records
  <2>2. D!Near(Doc(m).sim, Sim(m))
    BY NearItself DEF Sim
  <2>3. QED
    BY <1>4, <2>1, <2>2 DEF GoneForGood
<1>7. SimOn => SimTraced'
  <2>1. SUFFICES ASSUME SimOn, NEW s \in simFile PROVE SimOf(s)'
    BY <1>1 DEF SimTraced
  <2>2. PICK m \in Records : Sim(m) = s
    BY <2>1 DEF Covering, SimTraced, SimOf
  <2>3. m \in Records'
    BY <1>6, <2>1, <2>2
  <2>4. QED
    BY <2>2, <2>3 DEF SimOf, Sim, Doc
<1>8. HashTraced'
  BY <1>1 DEF HashTraced
<1>9. ASSUME NEW l \in Lines, l < saved.offset PROVE Accounted(l)'
  <2>1. CASE l < Cursor
    <3>1. Accounted(l)
      BY <1>1, <2>1 DEF Covering, Passed
    <3>2. CASE l \in Bad \cup Records
      BY <1>5, <1>9, <3>2 DEF Accounted
    <3>3. CASE \E m \in Records : m # l /\ Copy(l, m) /\ (m \in Sure \/ m < l)
      <4>1. PICK m \in Records : m # l /\ Copy(l, m) /\ (m \in Sure \/ m < l)
        BY <3>3
      <4>2. m \in Sure'
        <5>1. CASE m \in Sure
          BY <1>3, <5>1
        <5>2. CASE m < l
          <6>1. m \in Int /\ l \in Int
            BY Written DEF Lines
          <6>2. m < saved.offset
            BY <1>2, <1>9, <5>2, <6>1
          <6>3. QED
            BY <1>3, <1>5, <6>2
        <5>3. QED
          BY <4>1, <5>1, <5>2
      <4>3. Copy(l, m)'
        BY <4>1 DEF Copy, Alike, Doc
      <4>4. QED
        BY <1>3, <4>1, <4>2, <4>3 DEF Accounted
    <3>4. QED
      BY <3>1, <3>2, <3>3 DEF Accounted
  <2>2. CASE ~(l < Cursor)
    <3>1. /\ batch \in Seq(Lines) /\ Len(batch) \in Nat /\ l \in Int /\ Cursor = Front - Len(batch)
          /\ saved.offset <= Front /\ \A i \in DOMAIN batch : batch[i] = Cursor + i - 1
      BY <1>2 DEF TypeInv, Core, TypeOK, InStream, Cursor, Lines
    <3>2. DOMAIN batch = 1..Len(batch)
      BY <3>1
    <3>3. l - Cursor + 1 \in 1..Len(batch) /\ Cursor + (l - Cursor + 1) - 1 = l
      BY <1>2, <1>9, <2>2, <3>1
    <3>4. batch[l - Cursor + 1] = l
      BY <3>1, <3>2, <3>3
    <3>5. l \in InFlight
      BY <3>2, <3>3, <3>4 DEF InFlight
    <3>6. l \in Records'
      BY <1>3, <1>9, <3>5 DEF GoneForGood
    <3>7. QED
      BY <3>6 DEF Accounted
  <2>3. QED
    BY <2>1, <2>2
<1>10. Passed' = saved.offset
  BY <1>1 DEF Passed
<1>11. QED
  BY <1>1, <1>2, <1>7, <1>8, <1>9, <1>10 DEF Covering

\* For any stream, intervals and settings of the deduplicator, and over any
\* number of crashes: while no write or save fails, none is refused and no stop
\* is requested, every line of a stream read to its end is accounted for.
THEOREM Covers == ASSUME ~CanFail, ~CanRefuse, ~CanStop PROVE Spec => []Coverage
<1>1. Init => Covering
  <2> SUFFICES ASSUME Init PROVE Covering
    OBVIOUS
  <2>1. /\ pc = "down" /\ saved.offset = 0 /\ ~stop
        /\ simMap = {} /\ simFile = {} /\ exact = {}
    BY DEF Init, New, D!Init
  <2>2. \A l \in Lines : ~(l < 0)
    BY DEF Lines
  <2>3. QED
    BY <2>1, <2>2 DEF Covering, SimTraced, HashTraced, Passed
<1>2. TypeInv /\ Reading /\ Covering /\ [Next]_vars => Covering'
  <2> SUFFICES ASSUME TypeInv, Reading, Covering, [Next]_vars PROVE Covering'
    OBVIOUS
  <2> USE DEF ckpt, extractor, log, history
  <2>1. ASSUME Sure \subseteq Sure', Records \subseteq Records', stop' = stop,
               simMap' \cup simFile' \subseteq simMap \cup simFile, exact' \subseteq exact,
               \A l \in Lines : l < Passed' => l < Passed
        PROVE  Covering'
    <3>1. \A l \in Lines : l < Passed' => Accounted(l)'
      BY <2>1, AccountsStay DEF Covering
    <3>2. QED
      BY <2>1, <3>1, TracesStay DEF Covering
  <2>2. CASE Start
    <3>1. /\ pc = "down" /\ pc' = "extract" /\ left' = "no" /\ stop' = FALSE
          /\ UNCHANGED <<accepted, batch, lines, lost, stable, tail>>
          /\ pos' = IF saved.offset = 0 THEN 1 ELSE saved.offset
          /\ simMap' = simFile /\ exact' = {} /\ simFile' = simFile
      BY <2>2 DEF Start, D!Start
    <3>2. Sure' = Sure /\ Records' = Records
      BY <3>1 DEF Sure, Durable, Records, Waiting, TailLines
    <3>3. Len(batch) = 0 /\ saved.offset \in Nat
      BY <3>1, NoBatchType DEF TypeInv, Core, TypeOK, Flow
    <3>4. Passed' = pos' /\ Passed = saved.offset
      BY <3>1, <3>3 DEF Passed, Cursor, Front
    <3>5. \A l \in Lines : l < pos' => l < saved.offset
      BY <3>1, <3>3 DEF Lines
    <3>6. stop' = stop
      <4>1. stop \in BOOLEAN /\ ~stop
        BY DEF Covering, TypeInv, Core, TypeOK
      <4>2. QED
        BY <3>1, <4>1
    <3>7. QED
      BY <2>1, <3>1, <3>2, <3>4, <3>5, <3>6
  <2>3. CASE \/ (Reads /\ (Take \/ Limit)) \/ Exhaust \/ Arrive
    <3>1. /\ UNCHANGED <<accepted, lines, lost, stable, tail, stop>>
          /\ UNCHANGED <<simMap, simFile, exact>>
      BY <2>3 DEF Reads, Exhaust, Arrive, dedup
    <3>2. Sure' = Sure /\ Records' = Records
      BY <3>1 DEF Sure, Durable, Records, Waiting, TailLines
    <3>3. Cursor' = Cursor /\ pc # "down" /\ pc' # "down"
      BY <2>3, CursorStays DEF Covering
    <3>4. Passed' = Passed
      BY <3>3 DEF Passed
    <3>5. QED
      BY <2>1, <3>1, <3>2, <3>4
  <2>4. CASE ProcessDoc
    <3>1. \E l, d : l = Head(batch) /\ d = Doc(l)
      OBVIOUS
    <3>2. QED
      BY <2>4, <3>1, CoveringProcess
  <2>5. CASE WriteDoc
    <3>1. UNCHANGED <<simMap, simFile, exact, stop>>
      BY <2>5 DEF WriteDoc, dedup
    <3>2. Sure \subseteq Sure' /\ Records \subseteq Records'
      BY <2>5, WriteRecords
    <3>3. Passed' = Passed
      BY <2>5, CursorStays DEF Passed
    <3>4. QED
      BY <2>1, <3>1, <3>2, <3>3
  <2>6. CASE \/ Processed \/ RotateShard \/ Commit \/ SaveCheckpoint \/ FlushWriter \/ MarkCompleted
             \/ CloseWriter \/ SaveDedup \/ Spill \/ RequestStop
    <3>1. Calm
      BY <2>6, CalmSteps
    <3>2. /\ lines' = lines /\ accepted' = accepted /\ lost' = lost /\ Settles
          /\ exact' = exact /\ simMap' = simMap /\ simFile' \subseteq simMap \cup simFile
          /\ stop' = stop
      BY <3>1 DEF Calm
    <3>3. Sure \subseteq Sure' /\ Records' = Records
      BY <3>2, CalmRecords
    <3>4. Passed' = Passed
      BY <3>1, CursorStays DEF Passed
    <3>5. QED
      BY <2>1, <3>2, <3>3, <3>4
  <2>7. CASE ProcessEnds
    BY <2>7, CoveringEnd
  <2>8. CASE UNCHANGED vars
    <3>1. /\ UNCHANGED <<accepted, lines, lost, stable, tail, stop, pc, saved, batch, pos, left>>
          /\ UNCHANGED <<simMap, simFile, exact>>
      BY <2>8 DEF vars, dedup
    <3>2. Sure' = Sure /\ Records' = Records /\ Passed' = Passed
      BY <3>1 DEF Sure, Durable, Records, Waiting, TailLines, Passed, Cursor, Front
    <3>3. QED
      BY <2>1, <3>1, <3>2
  <2>9. QED
    BY <2>2, <2>3, <2>4, <2>5, <2>6, <2>7, <2>8 DEF Next, WorkerStep, Take, Limit, MarkFailed
<1>3. TypeInv /\ Reading /\ Covering => Coverage
  <2> SUFFICES ASSUME TypeInv, Reading, Covering, pc = "ended", left = "exhausted", NEW l \in Lines
               PROVE  \/ l \in Durable \cup Bad \cup lost
                      \/ \E m \in Durable \cup lost : m # l /\ Copy(l, m)
    BY DEF Coverage
  <2>1. batch = NoBatch /\ accepted = NoBatch /\ tail = <<>> /\ pos = Len(Stream) + 1
    BY DEF TypeInv, Core, Flow, Reading
  <2>2. Records = Durable \cup lost
    BY <2>1 DEF Records, Sure, Waiting, TailLines, NoBatch
  <2>3. Passed = Len(Stream) + 1
    <3>1. Len(batch) = 0 /\ Front = Len(Stream) + 1 /\ Len(Stream) \in Nat
      BY <2>1, NoBatchType, WorkerAssumption DEF Front
    <3>2. QED
      BY <3>1 DEF Passed, Cursor
  <2>4. l < Passed
    BY <2>3, WorkerAssumption DEF Lines
  <2>5. Accounted(l)
    BY <2>4 DEF Covering
  <2>6. QED
    BY <2>2, <2>5 DEF Accounted
<1>4. QED
  BY <1>1, <1>2, <1>3, TypeInvariant, ReadingInvariant, PTL DEF Spec
-----------------------------------------------------------------------------
\* What was kept, in the order in which it was: written, then accepted.
All == lines \o accepted
Kept == {All[i] : i \in DOMAIN All}
Increasing ==
    /\ \A i, j \in DOMAIN All : i < j => All[i] < All[j]
    /\ \A i \in DOMAIN All : All[i] < Cursor
Chosen ==
    /\ \A l \in Lines : l < Cursor => (l \in Kept <=> First(l, Kept))
    /\ ExactOn => exact = {Doc(l).hash : l \in {m \in Lines : m < Cursor /\ m \notin Bad}}
    /\ SimOn => simMap = {Sim(l) : l \in Kept}
Fresh == saved = New /\ lines = <<>> /\ stable = <<>> /\ tail = <<>> /\ simFile = {}
FirstRun ==
    /\ pc = "down" => Fresh \/ saved.flag = "completed"
    /\ pc \in {"close", "dedup", "ended"} => flag = "completed" /\ saved.flag = "completed"
    /\ pc # "down" /\ left # "stop" => Numbered /\ Increasing /\ Chosen
Choosing == crashes = 0 => FirstRun

\* Whether a line is first depends on the kept lines before it alone.
LEMMA FirstLocal ==
    ASSUME NEW l \in Lines, NEW c \in Int, l < c, NEW A, NEW B,
           \A m \in B : m \in A \/ m = c, A \subseteq B
    PROVE  First(l, A) <=> First(l, B)
<1>1. ~(c < l)
  BY DEF Lines
<1>2. (\A m \in A : m < l => ~D!Near(Doc(m).sim, Doc(l).sim))
      <=> (\A m \in B : m < l => ~D!Near(Doc(m).sim, Doc(l).sim))
  BY <1>1
<1>3. QED
  BY <1>2 DEF First

\* The sequence of what was kept, when a line is accepted and when it is written.
LEMMA AllGrows ==
    ASSUME TypeInv, NEW l \in Lines, lines' = lines, accepted' = Append(accepted, l)
    PROVE  All' = Append(All, l)
<1>1. lines \in Seq(Lines) /\ accepted \in Seq(Lines)
  BY DEF TypeInv, Core, TypeOK
<1>2. lines \o Append(accepted, l) = Append(lines \o accepted, l)
  BY <1>1
<1>3. QED
  BY <1>2 DEF All

LEMMA AllMoves ==
    ASSUME TypeInv, accepted # NoBatch, lines' = Append(lines, Head(accepted)),
           accepted' = Tail(accepted)
    PROVE  All' = All
<1>1. lines \in Seq(Lines) /\ accepted \in Seq(Lines)
  BY DEF TypeInv, Core, TypeOK
<1> DEFINE n == Len(lines)
           k == Len(accepted)
<1>2. n \in Nat /\ k \in Nat /\ k > 0
  BY <1>1 DEF NoBatch
<1>3. /\ lines' \in Seq(Lines) /\ Len(lines') = n + 1 /\ lines'[n + 1] = accepted[1]
      /\ \A i \in 1..n : lines'[i] = lines[i]
  BY <1>1, <1>2
<1>4. /\ accepted' \in Seq(Lines) /\ Len(accepted') = k - 1
      /\ \A i \in 1..(k - 1) : accepted'[i] = accepted[i + 1]
  BY <1>1, <1>2
<1>5. /\ All \in Seq(Lines) /\ Len(All) = n + k
      /\ \A i \in 1..(n + k) : All[i] = IF i <= n THEN lines[i] ELSE accepted[i - n]
  BY <1>1, <1>2 DEF All
<1>6. /\ All' \in Seq(Lines) /\ Len(All') = n + k
      /\ \A i \in 1..(n + k) : All'[i] = IF i <= n + 1 THEN lines'[i] ELSE accepted'[i - (n + 1)]
  <2>1. lines' \o accepted' \in Seq(Lines) /\ Len(lines' \o accepted') = (n + 1) + (k - 1)
    BY <1>2, <1>3, <1>4
  <2>2. (n + 1) + (k - 1) = n + k
    BY <1>2
  <2>3. \A i \in 1..(n + k) : (lines' \o accepted')[i]
                               = IF i <= n + 1 THEN lines'[i] ELSE accepted'[i - (n + 1)]
    BY <1>2, <1>3, <1>4
  <2>4. QED
    BY <2>1, <2>2, <2>3 DEF All
<1> HIDE DEF n, k
<1>7. ASSUME NEW i \in 1..(n + k) PROVE All'[i] = All[i]
  <2>1. CASE i <= n
    <3>1. i \in 1..n /\ i <= n + 1
      BY <1>2, <2>1
    <3>2. QED
      BY <1>3, <1>5, <1>6, <2>1, <3>1
  <2>2. CASE i = n + 1
    <3>1. ~(i <= n) /\ i <= n + 1 /\ i - n = 1
      BY <1>2, <2>2
    <3>2. QED
      BY <1>3, <1>5, <1>6, <2>2, <3>1
  <2>3. CASE i > n + 1
    <3>1. /\ ~(i <= n) /\ ~(i <= n + 1) /\ i - (n + 1) \in 1..(k - 1)
          /\ (i - (n + 1)) + 1 = i - n
      BY <1>2, <2>3
    <3>2. accepted'[i - (n + 1)] = accepted[i - n]
      BY <1>4, <3>1
    <3>3. QED
      BY <1>5, <1>6, <3>1, <3>2
  <2>4. QED
    BY <1>2, <2>1, <2>2, <2>3
<1>8. QED
  BY <1>5, <1>6, <1>7

\* A record is written.
LEMMA NumberedGrows ==
    ASSUME TypeInv, Reading, WriteDoc, ~CanRefuse, Numbered
    PROVE  Numbered'
<1>1. /\ lines' = Append(lines, Head(accepted)) /\ tail' = Append(tail, next) /\ stable' = stable
      /\ accepted # NoBatch
  BY DEF WriteDoc, W!Accept
<1>2. /\ lines \in Seq(Lines) /\ Len(lines) = next - 1 /\ next \in Nat /\ tail \in Seq(Nat)
      /\ stable \in Seq(Nat) /\ Head(accepted) \in Lines
  BY <1>1, BatchShrinks DEF TypeInv, Core, TypeOK, TailWritten, Reading
<1> DEFINE s == Len(stable)
           t == Len(tail)
<1>3. /\ s \in Nat /\ t \in Nat /\ Len(lines') = Len(lines) + 1 /\ DOMAIN tail' = 1..(t + 1)
      /\ Len(tail') = t + 1 /\ tail'[t + 1] = next
      /\ DOMAIN tail = 1..t /\ \A i \in 1..t : tail'[i] = tail[i]
  BY <1>1, <1>2
<1>4. s + t = Len(lines) /\ \A i \in 1..t : tail[i] = s + i
  BY <1>3 DEF Numbered
<1> HIDE DEF s, t
<1>5. next = s + (t + 1) /\ Len(lines') = s + (t + 1)
  BY <1>2, <1>3, <1>4
<1>6. \A i \in 1..(t + 1) : i \in 1..t \/ i = t + 1
  BY <1>3
<1>7. \A i \in DOMAIN tail' : tail'[i] = s + i
  BY <1>3, <1>4, <1>5, <1>6
<1>8. QED
  BY <1>1, <1>3, <1>5, <1>7 DEF Numbered, s

LEMMA PicksStay ==
    ASSUME All' = All, Cursor' = Cursor, exact' = exact, simMap' = simMap, Increasing, Chosen
    PROVE  Increasing' /\ Chosen'
<1>1. Kept' = Kept
  BY DEF Kept
<1>2. Increasing'
  BY DEF Increasing
<1>3. \A l : First(l, Kept)' <=> First(l, Kept)
  BY <1>1 DEF First, Doc
<1>4. Chosen'
  BY <1>1, <1>3 DEF Chosen, Doc, Sim
<1>5. QED
  BY <1>2, <1>4

\* The document that is processed is kept exactly when its line is a first one.
LEMMA FirstIsUnique ==
    ASSUME NEW l \in Lines, NEW d, d = Doc(l), l = Cursor, Increasing, Chosen
    PROVE  First(l, Kept) <=> l \notin Bad /\ ~D!ExactDup(d) /\ ~D!NearDup(d)
<1>1. \A m \in Kept : m < l
  BY DEF Increasing, Kept
<1>2. (ExactOn => \A m \in 1..(l - 1) : m \in Bad \/ Doc(m).hash # Doc(l).hash)
      <=> ~D!ExactDup(d)
  <2>1. \A m : m \in 1..(l - 1) <=> m \in Lines /\ m < l
    BY WorkerAssumption DEF Lines
  <2>2. ExactOn => (d.hash \in exact
                    <=> \E m \in Lines : m < l /\ m \notin Bad /\ Doc(m).hash = d.hash)
    <3>1. SUFFICES ASSUME ExactOn
                   PROVE  d.hash \in exact
                          <=> \E m \in Lines : m < l /\ m \notin Bad /\ Doc(m).hash = d.hash
      OBVIOUS
    <3>2. exact = {Doc(m).hash : m \in {n \in Lines : n < l /\ n \notin Bad}}
      BY <3>1 DEF Chosen
    <3>3. QED
      BY <3>2
  <2>3. QED
    BY <2>1, <2>2 DEF D!ExactDup
<1>3. SimOn => ((\A m \in Kept : m < l => ~D!Near(Doc(m).sim, Doc(l).sim))
                <=> ~\E s \in simMap : D!Near(d.sim, s))
  <2>1. SUFFICES ASSUME SimOn
                 PROVE  (\A m \in Kept : m < l => ~D!Near(Doc(m).sim, Doc(l).sim))
                        <=> ~\E s \in simMap : D!Near(d.sim, s)
    OBVIOUS
  <2>2. simMap = {Sim(m) : m \in Kept}
    BY <2>1 DEF Chosen
  <2>3. (\E s \in simMap : D!Near(d.sim, s)) <=> \E m \in Kept : D!Near(Sim(l), Sim(m))
    BY <2>2 DEF Sim
  <2>4. \A m \in Kept : m < l /\ Doc(m).sim = Sim(m) /\ Doc(l).sim = Sim(l)
    BY <1>1 DEF Sim
  <2>5. \A m : D!Near(Sim(l), Sim(m)) <=> D!Near(Sim(m), Sim(l))
    BY NearSymmetric
  <2>6. QED
    BY <2>3, <2>4, <2>5
<1>4. ~D!ExactDup(d) => (D!NearDup(d) <=> SimOn /\ \E s \in simMap : D!Near(d.sim, s))
  BY DEF D!NearDup
<1>5. QED
  BY <1>2, <1>3, <1>4 DEF First

LEMMA PicksProcess ==
    ASSUME TypeInv, InStream, Increasing, Chosen, ProcessDoc,
           NEW l, l = Head(batch), NEW d, d = Doc(l)
    PROVE  Increasing' /\ Chosen'
<1>1. /\ batch # NoBatch /\ batch' = Tail(batch) /\ lines' = lines /\ UNCHANGED <<pos, left>>
  BY DEF ProcessDoc, extractor
<1>2. /\ batch \in Seq(Lines) /\ l \in Lines /\ l = batch[1] /\ 1 \in DOMAIN batch
      /\ Len(batch) \in Nat /\ Len(batch') = Len(batch) - 1 /\ pos \in Int /\ Front \in Int
  BY <1>1 DEF TypeInv, Core, TypeOK, NoBatch, Front
<1>3. l = Cursor /\ Cursor \in Int /\ Cursor' = Cursor + 1
  <2>1. Front' = Front
    BY <1>1 DEF Front
  <2>2. Cursor \in Int /\ Cursor' = Cursor + 1
    BY <1>2, <2>1 DEF Cursor
  <2>3. l = Cursor + 1 - 1
    BY <1>2 DEF InStream
  <2>4. QED
    BY <2>2, <2>3
<1>4. \A k \in Lines : (k < Cursor' <=> k < l \/ k = l) /\ ~(l < l) /\ k \in Int
  BY <1>2, <1>3 DEF Lines
<1>5. /\ All \in Seq(Lines) /\ Len(All) \in Nat /\ Kept \subseteq Lines
      /\ \A m \in Kept : m < l
  <2>1. All \in Seq(Lines)
    BY DEF TypeInv, Core, TypeOK, All
  <2>2. \A m \in Kept : m < l
    BY <1>3 DEF Increasing, Kept
  <2>3. QED
    BY <2>1, <2>2 DEF Kept
<1>6. First(l, Kept) <=> l \notin Bad /\ ~D!ExactDup(d) /\ ~D!NearDup(d)
  BY <1>2, <1>3, FirstIsUnique
<1>7. ASSUME accepted' = accepted, ~First(l, Kept),
             ExactOn => exact' = exact \cup {Doc(k).hash : k \in {l} \ Bad},
             SimOn => simMap' = simMap
      PROVE  Increasing' /\ Chosen'
  <2>1. All' = All
    BY <1>1, <1>7 DEF All
  <2>2. Kept' = Kept
    BY <2>1 DEF Kept
  <2>3. Increasing'
    <3>1. \A i \in DOMAIN All : All[i] < Cursor'
      BY <1>3, <1>4, <1>5 DEF Kept
    <3>2. QED
      BY <2>1, <3>1 DEF Increasing
  <2>4. \A k \in Lines : k < Cursor' => (k \in Kept <=> First(k, Kept))
    BY <1>3, <1>4, <1>5, <1>7 DEF Chosen
  <2>5. ExactOn => exact' = {Doc(k).hash : k \in {m \in Lines : m < Cursor' /\ m \notin Bad}}
    <3>1. SUFFICES ASSUME ExactOn
                   PROVE exact' = {Doc(k).hash : k \in {m \in Lines : m < Cursor' /\ m \notin Bad}}
      OBVIOUS
    <3>2. {m \in Lines : m < Cursor' /\ m \notin Bad}
          = {m \in Lines : m < Cursor /\ m \notin Bad} \cup ({l} \ Bad)
      BY <1>2, <1>3, <1>4
    <3>3. exact = {Doc(k).hash : k \in {m \in Lines : m < Cursor /\ m \notin Bad}}
      BY <3>1 DEF Chosen
    <3>4. QED
      BY <1>7, <3>1, <3>2, <3>3
  <2>6. Chosen'
    BY <1>7, <2>2, <2>4, <2>5 DEF Chosen, First, Doc, Sim
  <2>7. QED
    BY <2>3, <2>6
<1>8. CASE l \in Bad /\ accepted' = accepted /\ UNCHANGED dedup
  <2>1. {l} \ Bad = {} /\ exact' = exact /\ simMap' = simMap
    BY <1>8 DEF dedup
  <2>2. QED
    BY <1>6, <1>7, <1>8, <2>1
<1>9. CASE l \notin Bad /\ D!Duplicate(d) /\ accepted' = accepted
  <2>1. D!ExactDup(d) \/ D!NearDup(d)
    BY <1>9 DEF D!Duplicate, D!Unique, D!MinhashDup
  <2>2. /\ ExactOn => exact' = exact \cup {d.hash}
        /\ simMap' = simMap
    BY <1>9, <2>1 DEF D!Duplicate, D!Indexed
  <2>3. {Doc(k).hash : k \in {l} \ Bad} = {d.hash}
    BY <1>9
  <2>4. QED
    BY <1>6, <1>7, <1>9, <2>1, <2>2, <2>3
<1>10. CASE l \notin Bad /\ D!Keep(d) /\ accepted' = Append(accepted, l)
  <2>1. ~D!ExactDup(d) /\ ~D!NearDup(d)
    BY <1>10 DEF D!Keep, D!Unique
  <2>2. /\ ExactOn => exact' = exact \cup {Doc(l).hash}
        /\ SimOn => simMap' = simMap \cup {Sim(l)}
    BY <1>10, <2>1 DEF D!Keep, D!Indexed, Sim
  <2>3. All' = Append(All, l)
    BY <1>1, <1>2, <1>10, AllGrows
  <2>4. /\ DOMAIN All' = 1..(Len(All) + 1) /\ All'[Len(All) + 1] = l
        /\ DOMAIN All = 1..Len(All) /\ \A i \in DOMAIN All : All'[i] = All[i]
    BY <1>2, <1>5, <2>3
  <2>5. \A i \in DOMAIN All' : i \in DOMAIN All \/ i = Len(All) + 1
    BY <1>5, <2>4
  <2>6. Kept' = Kept \cup {l}
    <3>1. DOMAIN All' = DOMAIN All \cup {Len(All) + 1}
      BY <1>5, <2>4
    <3>2. QED
      BY <2>4, <3>1 DEF Kept
  <2>7. Increasing'
    <3>1. \A i \in DOMAIN All : All[i] < l /\ All[i] \in Lines
      BY <1>5 DEF Kept
    <3>2. \A i \in DOMAIN All' : All'[i] < Cursor'
      BY <1>2, <1>4, <2>4, <2>5, <3>1
    <3>3. ASSUME NEW i \in DOMAIN All', NEW j \in DOMAIN All', i < j PROVE All'[i] < All'[j]
      <4>1. i \in DOMAIN All
        BY <1>5, <2>4, <3>3
      <4>2. CASE j \in DOMAIN All
        BY <2>4, <3>3, <4>1, <4>2 DEF Increasing
      <4>3. CASE j = Len(All) + 1
        BY <2>4, <3>1, <4>1, <4>3
      <4>4. QED
        BY <2>5, <4>2, <4>3
    <3>4. QED
      BY <3>2, <3>3 DEF Increasing
  <2>8. \A k \in Lines : k < l => (First(k, Kept) <=> First(k, Kept'))
    <3>1. l \in Int
      BY <1>2, <1>4
    <3>2. \A m \in Kept' : m \in Kept \/ m = l
      BY <2>6
    <3>3. QED
      BY <2>6, <3>1, <3>2, FirstLocal
  <2>9. First(l, Kept')
    <3>1. First(l, Kept)
      BY <1>6, <1>10, <2>1
    <3>2. QED
      BY <1>2, <1>4, <2>6, <3>1 DEF First
  <2>10. ASSUME NEW k \in Lines, k < Cursor' PROVE k \in Kept' <=> First(k, Kept')
    <3>1. CASE k = l
      BY <2>6, <2>9, <3>1
    <3>2. CASE k < l
      <4>1. k # l
        BY <1>4, <3>2
      <4>2. k \in Kept <=> First(k, Kept)
        BY <1>3, <3>2 DEF Chosen
      <4>3. QED
        BY <2>6, <2>8, <3>2, <4>1, <4>2
    <3>3. QED
      BY <1>4, <2>10, <3>1, <3>2
  <2>11. ExactOn => exact' = {Doc(k).hash : k \in {m \in Lines : m < Cursor' /\ m \notin Bad}}
    <3>1. SUFFICES ASSUME ExactOn
                   PROVE exact' = {Doc(k).hash : k \in {m \in Lines : m < Cursor' /\ m \notin Bad}}
      OBVIOUS
    <3>2. {m \in Lines : m < Cursor' /\ m \notin Bad}
          = {m \in Lines : m < Cursor /\ m \notin Bad} \cup {l}
      BY <1>2, <1>3, <1>4, <1>10
    <3>3. exact = {Doc(k).hash : k \in {m \in Lines : m < Cursor /\ m \notin Bad}}
      BY <3>1 DEF Chosen
    <3>4. QED
      BY <2>2, <3>1, <3>2, <3>3
  <2>12. SimOn => simMap' = {Sim(k) : k \in Kept'}
    BY <2>2, <2>6 DEF Chosen
  <2>13. Chosen'
    BY <2>10, <2>11, <2>12 DEF Chosen, First, Doc, Sim
  <2>14. QED
    BY <2>7, <2>13
<1>11. QED
  BY <1>8, <1>9, <1>10 DEF ProcessDoc, Doc

\* For any stream and intervals, with or without stops, while no write or save
\* fails and none is refused: one process that reads the stream to its end
\* leaves the good documents that are no copies, once and in their order.
THEOREM OnceInOrder == ASSUME ~CanFail, ~CanRefuse PROVE Spec => []ExactlyOnce
<1> USE DEF ckpt, extractor, log, history
<1>1. Init => Choosing
  BY DEF Init, Choosing, FirstRun, Fresh, D!Init, W!Init
<1>2. TypeInv /\ Reading /\ Choosing /\ [Next]_vars => Choosing'
  <2> SUFFICES ASSUME TypeInv, Reading, Choosing, [Next]_vars PROVE Choosing'
    OBVIOUS
  <2>1. ASSUME crashes' = crashes, crashes = 0 => FirstRun' PROVE Choosing'
    BY <2>1 DEF Choosing
  <2>2. CASE Start
    <3>1. SUFFICES ASSUME crashes = 0 PROVE FirstRun'
      BY <2>1, <2>2 DEF Start
    <3>2. /\ pc = "down" /\ pc' = "extract" /\ saved.flag = "none"
          /\ UNCHANGED <<accepted, batch, lines, stable, tail>>
          /\ pos' = IF saved.offset = 0 THEN 1 ELSE saved.offset
          /\ left' = "no" /\ simMap' = simFile /\ exact' = {}
      BY <2>2 DEF Start, D!Start
    <3>3. Fresh /\ accepted = <<>> /\ batch = <<>>
      BY <3>1, <3>2 DEF Choosing, FirstRun, TypeInv, Core, Flow, NoBatch
    <3>4. /\ lines' = <<>> /\ stable' = <<>> /\ tail' = <<>> /\ accepted' = <<>> /\ batch' = <<>>
          /\ pos' = 1 /\ simMap' = {}
      BY <3>2, <3>3 DEF Fresh, New
    <3>5. Cursor' = 1 /\ All' = <<>>
      <4>1. Front' = 1 /\ Len(batch') = 0
        BY <3>2, <3>4 DEF Front
      <4>2. <<>> \o <<>> = <<>>
        OBVIOUS
      <4>3. QED
        BY <3>4, <4>1, <4>2 DEF Cursor, All
    <3>6. Kept' = {}
      BY <3>5 DEF Kept
    <3>7. Numbered'
      BY <3>4 DEF Numbered
    <3>8. Increasing'
      BY <3>5 DEF Increasing
    <3>9. Chosen'
      <4>1. \A l \in Lines : ~(l < 1)
        BY DEF Lines
      <4>2. {Doc(l).hash : l \in {m \in Lines : m < 1 /\ m \notin Bad}} = {}
        BY <4>1
      <4>3. QED
        BY <3>2, <3>4, <3>5, <3>6, <4>1, <4>2 DEF Chosen, Doc
    <3>10. QED
      BY <3>2, <3>7, <3>8, <3>9 DEF FirstRun
  <2>3. ASSUME crashes' = crashes, pc # "down", pc' # "down",
               pc' \in {"close", "dedup", "ended"} => flag' = "completed" /\ saved'.flag = "completed",
               left' # "stop" => left # "stop" /\ (Numbered => Numbered') /\ All' = All
                                 /\ Cursor' = Cursor /\ exact' = exact /\ simMap' = simMap
        PROVE  Choosing'
    <3>1. SUFFICES ASSUME crashes = 0 PROVE FirstRun'
      BY <2>1, <2>3
    <3>2. SUFFICES ASSUME left' # "stop" PROVE Numbered' /\ Increasing' /\ Chosen'
      BY <2>3 DEF FirstRun
    <3>3. Numbered /\ Increasing /\ Chosen
      BY <2>3, <3>1, <3>2 DEF Choosing, FirstRun
    <3>4. QED
      BY <2>3, <3>2, <3>3, PicksStay
  <2>4. CASE \/ (Reads /\ (Take \/ Limit)) \/ Exhaust \/ (Arrive /\ ~stop)
    <3>1. /\ UNCHANGED <<crashes, accepted, lines, stable, tail, exact, simMap>>
          /\ pc # "down" /\ pc' \in {"extract", "arrive", "end", "process"} /\ left # "stop"
      <4>1. left # "stop"
        BY <2>4 DEF Reads, Exhaust, Arrive, Reading
      <4>2. QED
        BY <2>4, <4>1 DEF Reads, Take, Limit, Exhaust, Arrive, dedup
    <3>2. All' = All /\ (Numbered => Numbered')
      BY <3>1 DEF All, Numbered
    <3>3. Cursor' = Cursor
      BY <2>4, CursorStays
    <3>4. QED
      BY <2>3, <3>1, <3>2, <3>3
  <2>5. CASE Arrive /\ stop
    <3>1. crashes' = crashes /\ pc # "down" /\ pc' = "end" /\ left' = "stop"
      BY <2>5 DEF Arrive
    <3>2. QED
      BY <2>3, <3>1
  <2>6. CASE ProcessDoc
    <3>1. /\ pc = "process" /\ pc' = "process"
          /\ UNCHANGED <<crashes, left, lines, stable, tail>>
      BY <2>6 DEF ProcessDoc
    <3>2. SUFFICES ASSUME crashes = 0, left # "stop" PROVE Numbered' /\ Increasing' /\ Chosen'
      BY <2>1, <3>1 DEF FirstRun
    <3>3. Numbered /\ Increasing /\ Chosen /\ InStream
      BY <3>1, <3>2 DEF Choosing, FirstRun, Reading
    <3>4. Numbered'
      BY <3>1, <3>3 DEF Numbered
    <3>5. \E l, d : l = Head(batch) /\ d = Doc(l)
      OBVIOUS
    <3>6. Increasing' /\ Chosen'
      BY <2>6, <3>3, <3>5, PicksProcess
    <3>7. QED
      BY <3>4, <3>6
  <2>7. CASE WriteDoc
    <3>1. /\ pc = "write" /\ pc' = "write" /\ UNCHANGED <<crashes, left, exact, simMap>>
          /\ accepted # NoBatch /\ accepted' = Tail(accepted)
          /\ lines' = Append(lines, Head(accepted))
      BY <2>7 DEF WriteDoc, dedup
    <3>2. All' = All
      BY <3>1, AllMoves
    <3>3. Numbered => Numbered'
      BY <2>7, NumberedGrows
    <3>4. Cursor' = Cursor
      BY <2>7, CursorStays
    <3>5. QED
      BY <2>3, <3>1, <3>2, <3>3, <3>4
  <2>8. CASE \/ Processed \/ RotateShard \/ Commit \/ SaveCheckpoint \/ FlushWriter \/ MarkCompleted
             \/ CloseWriter \/ SaveDedup \/ Spill \/ RequestStop
    <3>1. Calm
      BY <2>8, CalmSteps
    <3>2. /\ pc # "down" /\ pc' # "down" /\ lines' = lines /\ Settles
          /\ UNCHANGED <<accepted, left, crashes, exact, simMap>>
      BY <3>1 DEF Calm
    <3>3. All' = All
      BY <3>2 DEF All
    <3>4. Numbered => Numbered'
      BY <3>2, Settling
    <3>5. Cursor' = Cursor
      BY <3>1, CursorStays
    <3>6. SUFFICES ASSUME crashes = 0 PROVE FirstRun'
      BY <2>1, <3>2
    <3>7. pc' \in {"close", "dedup", "ended"} => flag' = "completed" /\ saved'.flag = "completed"
      <4>1. CASE \/ Processed \/ RotateShard \/ Commit \/ SaveCheckpoint \/ FlushWriter \/ RequestStop
        BY <4>1 DEF Processed, RotateShard, Commit, SaveCheckpoint, FlushWriter, RequestStop, NextBatch
      <4>2. CASE MarkCompleted
        BY <4>2 DEF MarkCompleted, SavesAs
      <4>3. CASE CloseWriter
        <5>1. flag = "completed"
          BY <3>6, <4>3 DEF CloseWriter, Choosing, FirstRun
        <5>2. QED
          BY <4>3, <5>1 DEF CloseWriter, Saves, SavesAs
      <4>4. CASE SaveDedup \/ Spill
        <5>1. UNCHANGED <<flag, saved>> /\ (pc = "dedup" \/ pc' = pc)
          BY <4>4 DEF SaveDedup, Spill
        <5>2. QED
          BY <3>6, <5>1 DEF Choosing, FirstRun
      <4>5. QED
        BY <2>8, <4>1, <4>2, <4>3, <4>4
    <3>8. Choosing'
      BY <2>3, <3>2, <3>3, <3>4, <3>5, <3>7
    <3>9. QED
      BY <3>2, <3>6, <3>8 DEF Choosing
  <2>9. CASE ProcessEnds
    <3>1. /\ pc' = "down" /\ saved' = saved
          /\ crashes' = crashes + (IF pc = "ended" THEN 0 ELSE 1)
      BY <2>9 DEF ProcessEnds
    <3>2. SUFFICES ASSUME crashes' = 0 PROVE saved.flag = "completed"
      BY <3>1 DEF Choosing, FirstRun
    <3>3. crashes \in Nat
      BY DEF TypeInv, Core, TypeOK
    <3>4. crashes = 0 /\ pc = "ended"
      BY <3>1, <3>2, <3>3
    <3>5. QED
      BY <3>4 DEF Choosing, FirstRun
  <2>10. CASE UNCHANGED vars
    <3>1. /\ UNCHANGED <<pc, flag, saved, crashes, left, pos, batch, accepted, lines, stable, tail>>
          /\ UNCHANGED <<exact, simMap, simFile>>
      BY <2>10 DEF vars, dedup
    <3>2. CASE pc = "down"
      BY <3>1, <3>2 DEF Choosing, FirstRun, Fresh
    <3>3. CASE pc # "down"
      <4>1. All' = All /\ Cursor' = Cursor /\ (Numbered => Numbered')
        BY <3>1 DEF All, Cursor, Front, Numbered
      <4>2. SUFFICES ASSUME crashes = 0 PROVE FirstRun'
        BY <2>1, <3>1
      <4>3. pc' \in {"close", "dedup", "ended"} => flag' = "completed" /\ saved'.flag = "completed"
        BY <3>1, <4>2 DEF Choosing, FirstRun
      <4>4. Choosing'
        BY <2>3, <3>1, <3>3, <4>1, <4>3
      <4>5. QED
        BY <3>1, <4>2, <4>4 DEF Choosing
    <3>4. QED
      BY <3>2, <3>3
  <2>11. QED
    BY <2>2, <2>4, <2>5, <2>6, <2>7, <2>8, <2>9, <2>10
       DEF Next, WorkerStep, Take, Limit, MarkFailed
<1>3. TypeInv /\ Reading /\ Choosing => ExactlyOnce
  <2> SUFFICES ASSUME TypeInv, Reading, Choosing, pc = "ended", left = "exhausted", crashes = 0
               PROVE  /\ \A l \in Lines : l \in Durable <=> First(l, Durable)
                      /\ \A i, j \in DOMAIN stable : i < j => lines[stable[i]] < lines[stable[j]]
    BY DEF ExactlyOnce
  <2>1. /\ batch = <<>> /\ accepted = <<>> /\ tail = <<>> /\ pos = Len(Stream) + 1
        /\ Numbered /\ Increasing /\ Chosen /\ lines \in Seq(Lines) /\ stable \in Seq(Nat)
    BY DEF TypeInv, Core, TypeOK, Flow, Reading, Choosing, FirstRun, NoBatch
  <2>2. All = lines /\ Len(lines) \in Nat /\ DOMAIN lines = 1..Len(lines)
    BY <2>1 DEF All
  <2>3. /\ Len(stable) = Len(lines) /\ DOMAIN stable = DOMAIN lines
        /\ \A i \in DOMAIN stable : stable[i] = i
    <3>1. Len(stable) + 0 = Len(lines) /\ Len(stable) \in Nat
      BY <2>1 DEF Numbered
    <3>2. Len(stable) = Len(lines)
      BY <3>1
    <3>3. QED
      BY <2>1, <3>2 DEF Numbered
  <2>4. Durable = Kept
    BY <2>2, <2>3 DEF Durable, Kept
  <2>5. \A l \in Lines : l < Cursor
    <3>1. Front = Len(Stream) + 1 /\ Len(batch) = 0 /\ Len(Stream) \in Nat
      BY <2>1, WorkerAssumption DEF Front
    <3>2. Cursor = Len(Stream) + 1
      BY <3>1 DEF Cursor
    <3>3. QED
      BY <3>1, <3>2 DEF Lines
  <2>6. \A l \in Lines : l \in Durable <=> First(l, Durable)
    BY <2>1, <2>4, <2>5 DEF Chosen
  <2>7. \A i, j \in DOMAIN stable : i < j => lines[stable[i]] < lines[stable[j]]
    BY <2>1, <2>2, <2>3 DEF Increasing
  <2>8. QED
    BY <2>6, <2>7
<1>4. QED
  BY <1>1, <1>2, <1>3, TypeInvariant, ReadingInvariant, PTL DEF Spec
=============================================================================
