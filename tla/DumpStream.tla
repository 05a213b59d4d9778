------------------------------ MODULE DumpStream ------------------------------
(***************************************************************************)
(* A dump read over HTTP by an extractor (data_pipeline/extractors): the   *)
(* chunks of _stream_url with its retries, the records a buffer is cut     *)
(* into, and the offset in the checkpoint from which the next process      *)
(* resumes.                                                                *)
(*                                                                         *)
(* A dump is so many units: record r is the units 2r-2, its head, and      *)
(* 2r-1, its end.  A chunk need not end where a record does.  The formats  *)
(* differ in how a record is found and in what is counted for an offset:   *)
(*   "lines"      GitHub: lines; the bytes of this process                 *)
(*   "warc"       Common Crawl: up to the next head; likewise              *)
(*   "rows"       Stack Exchange: from a head to an end; likewise, without *)
(*                the chunk in work                                        *)
(*   "snapshot"   arXiv: lines; the lines, read from the beginning         *)
(*   "bz2"        Wikipedia: members of a multistream archive; bytes       *)
(* Every record makes a document: those that make none are left out, and   *)
(* so is that Stack Exchange joins a question and its answers, of which a  *)
(* process forgets those it had not joined.                                *)
(***************************************************************************)
EXTENDS Integers, FiniteSets, SequencesExt

CONSTANTS
    Records,        \* of the dump
    Chunk,          \* stream_chunk_bytes, in units
    MaxAttempts,    \* max_retries
    MaxRuns         \* bound of the model: processes

VARIABLES
    format,         \* of the dump
    members,        \* units at which a member of the archive begins
    run,            \* processes so far
    mode,           \* "down", "connecting", "receiving", "parsing", "done", "failed"
    base,           \* resume_offset
    attempt,        \* of the retry loop
    pos,            \* next unit the server sends
    chunk,          \* length of the chunk in work
    counted,        \* byte_pos, line_idx or _bytes_read
    decoder,        \* where the decompressor stands: a unit, Fresh, Over or Lost
    held,           \* units up to there that the decompressor has not given out yet
    buf,            \* units received, decompressed and not yet cut into records
    offset,         \* byte_offset of the checkpoint, in memory
    saved,          \* the same, in the file
    yielded,        \* history: records that were yielded
    latest,         \* history: the record last yielded, when offset was set
    savedLatest,    \* history: the same, when the file was written
    doubtful        \* history: units that a break or a resumption may cost

conn == <<mode, base, attempt, pos, chunk, counted, decoder, held, buf>>
history == <<yielded, latest, savedLatest, doubtful>>
vars == <<format, members, run, conn, offset, saved, history>>

Formats == {"lines", "warc", "rows", "snapshot", "bz2"}
Size == 2 * Records
Fresh == -1
Over == -2     \* behind the end of a member
Lost == -3     \* among bytes that do not belong to what it has read
HeadOf(u) == u % 2 = 0
EndOf(u) == u % 2 = 1
Whole(s) == Len(s) = 2 /\ HeadOf(s[1]) /\ s[2] = s[1] + 1
RecordOf(u) == u \div 2 + 1

MemberEnd(u) ==
    LET later == {m \in members : m > u}
    IN  IF later = {} THEN Size ELSE CHOOSE m \in later : \A k \in later : m =< k

\* Units a break or a resumption may cost; what follows them in an archive, too.
Doubt(first, last) == doubtful' = doubtful \cup (first..IF format = "bz2" THEN Size ELSE last)

Init ==
    /\ format \in Formats
    /\ members \in {{0}} \cup {{0, m} : m \in {4, 2 * Chunk} \cap (1..(Size - 1))}
    /\ format # "bz2" => members = {0}
    /\ run = 0 /\ mode = "down"
    /\ base = 0 /\ attempt = 0 /\ pos = 0 /\ chunk = 0 /\ counted = 0 /\ decoder = Fresh /\ held = 0 /\ buf = << >>
    /\ offset = 0 /\ saved = 0
    /\ yielded = {} /\ latest = 0 /\ savedLatest = 0
    /\ doubtful = IF members = {0} THEN {} ELSE MemberEnd(0)..Size

-----------------------------------------------------------------------------
\* A process takes up the dump: _resume_offset, and the counter it begins with.
Start ==
    /\ mode = "down" /\ run < MaxRuns
    /\ run' = run + 1 /\ mode' = "connecting" /\ attempt' = 1
    /\ base' = saved /\ offset' = saved
    /\ counted' = IF format = "bz2" THEN saved ELSE 0
    /\ decoder' = Fresh /\ held' = 0 /\ buf' = << >> /\ pos' = 0 /\ chunk' = 0
    /\ latest' = savedLatest
    /\ IF saved = 0 THEN UNCHANGED doubtful
       ELSE Doubt(2 * savedLatest, IF format = "snapshot" THEN 2 * saved - 3 ELSE saved - 1)
    /\ UNCHANGED <<format, members, saved, yielded, savedLatest>>

Requested == IF format = "snapshot" THEN 0 ELSE base

\* session.get: a server may ignore the range.  One beyond the end is refused.
Connect ==
    /\ mode = "connecting"
    /\ \/ Requested < Size /\ pos' = Requested
       \/ Requested > 0 /\ pos' = 0
    /\ mode' = "receiving"
    /\ UNCHANGED <<format, members, run, base, attempt, chunk, counted, decoder, held, buf, offset, saved, history>>

\* An error, while connecting or between two chunks: the request is repeated as
\* it was, the buffer, the decompressor and the counters stay as they are.  What
\* the decompressor holds is part of no block any more.  After the last attempt
\* the error is raised; Stack Exchange takes that for the end of the dump.
Break ==
    /\ mode = "connecting" \/ (mode = "receiving" /\ pos < Size)
    /\ attempt < MaxAttempts
    /\ IF mode = "connecting" THEN UNCHANGED doubtful
       ELSE IF format = "bz2" THEN Doubt(pos - held - 1, Size)
       ELSE Doubt(Requested, Requested + 1)
    /\ attempt' = attempt + 1 /\ mode' = "connecting"
    /\ UNCHANGED <<format, members, run, base, pos, chunk, counted, decoder, held, buf, offset, saved, yielded, latest, savedLatest>>
GiveUp ==
    /\ mode = "connecting" \/ (mode = "receiving" /\ pos < Size)
    /\ attempt = MaxAttempts
    /\ IF format = "rows" THEN mode' = "done" /\ Doubt(2 * latest, Size)
       ELSE mode' = "failed" /\ UNCHANGED doubtful
    /\ UNCHANGED <<format, members, run, base, attempt, pos, chunk, counted, decoder, held, buf, offset, saved, yielded, latest, savedLatest>>

\* The units from the one up to the other.
Units(first, next) == [i \in 1..(next - first) |-> first + i - 1]

\* BZ2Decompressor: it goes on where it stands, up to the end of a member, and
\* drops the rest.  It gives out a block when it has all of it: up to some unit,
\* and everything at the end of the member.  After that, or before anything but a
\* member, it raises, and the chunk and what it held are lost with it.  Bytes from
\* elsewhere it may swallow for a while; the block they end up in is never whole.
Decode(n) ==
    LET here  == IF decoder = Fresh /\ pos \in members THEN pos ELSE decoder
        end   == IF pos + n < MemberEnd(pos) THEN pos + n ELSE MemberEnd(pos)
        whole == end = MemberEnd(pos)
    IN  IF here = pos
        THEN /\ \E rest \in IF whole THEN {0} ELSE 0..(end - (pos - held)) :
                    /\ buf' = buf \o Units(pos - held, end - rest)
                    /\ held' = rest
             /\ decoder' = IF whole THEN Over ELSE end
        ELSE /\ decoder' \in IF decoder \in {Fresh, Over} THEN {Fresh} ELSE {Fresh, Lost}
             /\ held' = 0 /\ UNCHANGED buf

\* A chunk is received, of the length asked for or less.
Receive ==
    /\ mode = "receiving"
    /\ \E n \in 1..Chunk :
        /\ pos + n =< Size
        /\ IF format = "bz2" THEN Decode(n) ELSE buf' = buf \o Units(pos, pos + n) /\ UNCHANGED <<decoder, held>>
        /\ pos' = pos + n /\ chunk' = n
        /\ counted' = IF format \in {"lines", "warc", "bz2"} THEN counted + n ELSE counted
    /\ mode' = "parsing"
    /\ UNCHANGED <<format, members, run, base, attempt, offset, saved, history>>

-----------------------------------------------------------------------------
FirstHead == SelectInSeq(buf, HeadOf)
FirstEnd == SelectInSeq(buf, EndOf)
NextHead == SelectInSubSeq(buf, FirstHead + 1, Len(buf), HeadOf)
NextEnd == SelectInSubSeq(buf, FirstHead, Len(buf), EndOf)

\* The bounds of the next record in the buffer, 0 when there is none: up to the
\* next head, from a head to an end, a line.  A page is sought from the first
\* head to the first end, in whichever order they are.
WarcExtent == <<FirstHead, IF FirstHead = 0 \/ NextHead = 0 THEN 0 ELSE NextHead - 1>>
RowExtent == <<FirstHead, IF FirstHead = 0 THEN 0 ELSE NextEnd>>
PageExtent == <<FirstHead, IF FirstHead > FirstEnd THEN 0 ELSE FirstEnd>>
LineExtent == <<1, FirstEnd>>
Extent ==
    CASE format = "warc" -> WarcExtent
      [] format = "rows" -> RowExtent
      [] format = "bz2"  -> PageExtent
      [] OTHER           -> LineExtent
Complete == Extent[1] # 0 /\ Extent[2] # 0

\* A document is yielded, with what the offset is by then.
Yield(r, at) ==
    /\ offset' = at
    /\ yielded' = yielded \cup {r} /\ latest' = r

\* A truncated WARC record may pass for one; arXiv passes over the lines that
\* come before the offset.  No other record parses unless it is whole.
Truncated(piece) == format = "warc" /\ ~Whole(piece)
PassedOver(line) == format = "snapshot" /\ line < base

\* The next record of the buffer.
Parse ==
    /\ mode = "parsing" /\ Complete
    /\ LET piece == SubSeq(buf, Extent[1], Extent[2])
           line  == counted + 1
       IN  /\ buf' = SubSeq(buf, Extent[2] + 1, Len(buf))
           /\ counted' = IF format = "snapshot" THEN line ELSE counted
           /\ \/ /\ Whole(piece) /\ ~PassedOver(line)
                 /\ Yield(RecordOf(piece[1]), IF format = "snapshot" THEN line ELSE counted)
              \/ /\ Truncated(piece)
                 /\ offset' = counted /\ UNCHANGED <<yielded, latest>>
              \/ /\ ~Whole(piece) \/ PassedOver(line)
                 /\ UNCHANGED <<offset, yielded, latest>>
    /\ UNCHANGED <<format, members, run, mode, base, attempt, pos, chunk, decoder, held, saved, savedLatest, doubtful>>

\* No further record in the buffer; _bytes_read counts a chunk that is done with.
MutParsed ==
    /\ mode = "parsing" /\ ~Complete
    /\ counted' = IF format = "rows" THEN counted + chunk ELSE counted
    /\ mode' = "receiving" /\ buf' = << >>
    /\ UNCHANGED <<format, members, run, base, attempt, pos, chunk, decoder, held, offset, saved, history>>
Parsed ==
    /\ mode = "parsing" /\ ~Complete
    /\ counted' = IF format = "rows" THEN counted + chunk ELSE counted
    /\ mode' = "receiving"
    /\ UNCHANGED <<format, members, run, base, attempt, pos, chunk, decoder, held, buf, offset, saved, history>>

\* The end of the dump: the source is done with it.
Finish ==
    /\ mode = "receiving" /\ pos >= Size
    /\ mode' = "done"
    /\ UNCHANGED <<format, members, run, base, attempt, pos, chunk, counted, decoder, held, buf, offset, saved, history>>

\* The checkpoint is saved, by the worker or every so many documents.
Save ==
    /\ mode \in {"connecting", "receiving", "parsing", "failed"} /\ saved # offset
    /\ saved' = offset /\ savedLatest' = latest
    /\ UNCHANGED <<format, members, run, conn, offset, yielded, latest, doubtful>>

\* The process ends, by a crash or having failed.
Crash ==
    /\ mode \in {"connecting", "receiving", "parsing", "failed"}
    /\ mode' = "down"
    /\ UNCHANGED <<format, members, run, base, attempt, pos, chunk, counted, decoder, held, buf, offset, saved, history>>

Next ==
    \/ Start \/ Connect \/ Break \/ GiveUp \/ Receive \/ Parse \/ Parsed
    \/ Finish \/ Save \/ Crash

Spec == Init /\ [][Next]_vars

-----------------------------------------------------------------------------
TypeOK ==
    /\ format \in Formats /\ members \in SUBSET (0..Size)
    /\ run \in 0..MaxRuns /\ attempt \in 0..MaxAttempts
    /\ mode \in {"down", "connecting", "receiving", "parsing", "done", "failed"}
    /\ base \in Nat /\ counted \in Nat /\ offset \in Nat /\ saved \in Nat
    /\ pos \in 0..Size /\ chunk \in 0..Chunk
    /\ latest \in 0..Records /\ savedLatest \in 0..Records
    /\ decoder \in {Fresh, Over, Lost} \cup (0..Size)
    /\ held \in 0..Size /\ (held > 0 => held =< decoder)
    /\ buf \in Seq(0..(Size - 1))
    /\ yielded \in SUBSET (1..Records)

\* _stream_url and the parsers above it: when an extractor is done with a dump,
\* a record it never yielded lies where a stream broke off, within a chunk of
\* where one was resumed, or between what had been received and an offset that
\* counted repeated bytes or lines twice.  On top come the last record of a WARC
\* file, and of an archive what the decompressor held, whatever follows the first
\* such place, and whatever follows the end of its first member.
LossExplained ==
    mode = "done" => \A r \in (1..Records) \ yielded :
        \/ format = "warc" /\ r = Records
        \/ {2 * r - 2, 2 * r - 1} \cap doubtful # {}
=============================================================================
