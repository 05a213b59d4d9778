----------------------------- MODULE IngestProofs -----------------------------
(***************************************************************************)
(* Proofs about the dump an extractor reads (DumpStream, here D), for      *)
(* every length of the dump and of its chunks and every number of attempts *)
(* and of processes; and, in the second half, about the stages a text      *)
(* passes and the export (Processing), for every set of sources, settings  *)
(* and natures, every size of a shard and any number of documents, runs    *)
(* and exports.                                                            *)
(*                                                                         *)
(* A record is due while neither yielded nor lost for a reason that        *)
(* LossExplained names.  The invariant says where a record that is due is: *)
(* in the buffer or still to be sent, in one piece, and behind something   *)
(* from which the parser of its format finds it.                           *)
(*                                                                         *)
(* Of the stages, the invariant says what a written document looks like,   *)
(* what the deduplicator of the present run remembers, and that a text     *)
(* that was offered is written unless a stage finds fault with it.  An     *)
(* export is an enumeration of the documents that pass its filters, cut    *)
(* into shards: each such document has one place in the training set.      *)
(***************************************************************************)
EXTENDS MCIngest, FiniteSetTheorems, SequenceTheorems, WellFoundedInduction, TLAPS

Due(r) ==
    /\ r \in (1..Records) \ yielded
    /\ {2 * r - 2, 2 * r - 1} \cap doubtful = {}
    /\ ~(format = "warc" /\ r = Records)

\* The first unit that is not in the buffer yet, and the unit at place i of the
\* buffer and of what follows it if nothing breaks.
Coming == pos - held
Ahead(i) == IF i =< Len(buf) THEN buf[i] ELSE Coming + (i - Len(buf)) - 1
Places == 1..IF mode = "connecting" THEN Len(buf) ELSE Len(buf) + D!Size - Coming

\* The record stands at place p, and the parser comes to it: what it takes for
\* the end of the piece before, or for the head of the next, is one.
Placed(r, p) ==
    /\ Ahead(p) = 2 * r - 2 /\ Ahead(p + 1) = 2 * r - 1
    /\ \A i \in 1..(p - 1) : Ahead(i) =< 2 * r - 1
    /\ format = "warc" => D!HeadOf(Ahead(p + 2)) /\ Ahead(p + 2) < D!Size
    /\ format = "bz2" => \A i \in 1..(p + 1) : D!HeadOf(Ahead(i)) <=> i % 2 = 1
    /\ format \notin {"warc", "bz2"} => p = 1 \/ D!EndOf(Ahead(p - 1))

\* How far behind its head a record must be received to be cut out.
Reach == IF format = "warc" THEN 2 ELSE 1

\* The decompressor is in the first member and has read all of it so far.
InStep ==
    /\ decoder = pos \/ (decoder = D!Fresh /\ pos \in members)
    /\ pos < D!MemberEnd(0)

Streamed(r) ==
    \E p \in Places : Placed(r, p) /\ (format = "bz2" => p + 1 =< Len(buf) \/ InStep)
Received(r) == \E p \in Places : Placed(r, p) /\ p + Reach =< Len(buf)
SentAgain(r) ==
    IF format = "bz2" THEN buf = << >> /\ base = 0 /\ decoder = D!Fresh
    ELSE /\ \A i \in 1..Len(buf) : buf[i] =< 2 * r - 1
         /\ buf = << >> \/ 2 * r - 2 # D!Requested

Placing ==
    \A r \in 1..Records : Due(r) =>
        /\ mode \in {"receiving", "parsing"} => Streamed(r)
        /\ mode = "connecting" => Received(r) \/ SentAgain(r)

\* A record that is due comes after all that an offset stands for.
Later ==
    \A r \in 1..Records : Due(r) =>
        /\ r > latest /\ r > savedLatest
        /\ 2 * r - 2 >= D!Requested
        /\ format = "snapshot" => r >= base

Archive ==
    /\ 0 \in members
    /\ format # "bz2" => members = {0} /\ held = 0
    /\ members # {0} => D!MemberEnd(0)..D!Size \subseteq doubtful

\* Lines are counted once at least: behind the last line cut off, or behind one
\* that is to be cut off before, a line is the next one or an earlier one.
Counting ==
    format = "snapshot" /\ mode \in {"connecting", "receiving", "parsing"} =>
        \A j \in Places : D!EndOf(Ahead(j)) =>
            \/ Ahead(j) =< 2 * counted + 1
            \/ \E i \in 1..(j - 1) : D!EndOf(Ahead(i)) /\ Ahead(j) =< Ahead(i) + 2

\* Nothing is left to cut off when the next chunk is awaited.
Parsing == mode \in {"connecting", "receiving"} => ~D!Complete

\* An extractor that is done has left nothing out.
NoneDue == mode = "done" => \A r \in 1..Records : ~Due(r)

DumpInv == D!TypeOK /\ Placing /\ Later /\ Archive /\ Counting /\ Parsing /\ NoneDue

-----------------------------------------------------------------------------
\* A set of natural numbers that is not empty has a least element.
LEMMA LeastExists ==
    ASSUME NEW I \in SUBSET Nat, I # {}
    PROVE  \E x \in I : \A y \in I : x =< y
<1> DEFINE R == OpToRel(<, Nat)
<1>1. PICK x \in I : \A y \in I : <<y, x>> \notin R
  <2>1. IsWellFoundedOn(R, Nat)
    BY NatLessThanWellFounded
  <2> HIDE DEF R
  <2>2. QED
    BY <2>1, WFMin
<1>2. \A y \in I : ~(y < x)
  BY <1>1 DEF OpToRel
<1>3. QED
  BY <1>2

\* What SelectInSeq and SelectInSubSeq return of the places where the test holds.
IsFirst(first, G) ==
    \/ G = {} /\ first = 0
    \/ first \in G /\ \A y \in G : first =< y

LEMMA FirstOf ==
    ASSUME NEW G \in SUBSET Nat
    PROVE  IsFirst(IF G # {} THEN D!Min(G) ELSE 0, G)
<1>1. CASE G = {}
  BY <1>1 DEF IsFirst
<1>2. CASE G # {}
  <2>1. PICK x \in G : \A y \in G : x =< y
    BY <1>2, LeastExists
  <2>2. D!Min(G) \in G /\ \A y \in G : D!Min(G) =< y
    BY <2>1 DEF D!Min
  <2>3. QED
    BY <1>2, <2>2 DEF IsFirst
<1>3. QED
  BY <1>1, <1>2

Heads(m) == {i \in m..Len(buf) : D!HeadOf(buf[i])}
Ends(m) == {i \in m..Len(buf) : D!EndOf(buf[i])}

LEMMA FirstPlaces ==
    ASSUME D!TypeOK
    PROVE  /\ IsFirst(D!FirstHead, Heads(1)) /\ IsFirst(D!FirstEnd, Ends(1))
           /\ D!FirstHead # 0 => /\ IsFirst(D!NextHead, Heads(D!FirstHead + 1))
                                 /\ IsFirst(D!NextEnd, Ends(D!FirstHead))
<1>1. Len(buf) \in Nat
  BY DEF D!TypeOK
<1>2. Heads(1) \in SUBSET Nat /\ Ends(1) \in SUBSET Nat
  BY <1>1 DEF Heads, Ends
<1>3. D!FirstHead = IF Heads(1) # {} THEN D!Min(Heads(1)) ELSE 0
  BY DEF D!FirstHead, D!SelectInSeq, Heads
<1>4. D!FirstEnd = IF Ends(1) # {} THEN D!Min(Ends(1)) ELSE 0
  BY DEF D!FirstEnd, D!SelectInSeq, Ends
<1>5. IsFirst(D!FirstHead, Heads(1)) /\ IsFirst(D!FirstEnd, Ends(1))
  BY <1>2, <1>3, <1>4, FirstOf
<1>6. ASSUME D!FirstHead # 0
      PROVE  IsFirst(D!NextHead, Heads(D!FirstHead + 1)) /\ IsFirst(D!NextEnd, Ends(D!FirstHead))
  <2>1. D!FirstHead \in 1..Len(buf)
    BY <1>5, <1>6 DEF IsFirst, Heads
  <2> DEFINE m == D!FirstHead
  <2>2. D!NextHead = IF Heads(m + 1) # {} THEN D!Min(Heads(m + 1)) ELSE 0
    BY DEF D!NextHead, D!SelectInSubSeq, Heads
  <2>3. D!NextEnd = IF Ends(m) # {} THEN D!Min(Ends(m)) ELSE 0
    BY DEF D!NextEnd, D!SelectInSubSeq, Ends
  <2> HIDE DEF m
  <2>4. ASSUME NEW k \in Nat PROVE Heads(k) \in SUBSET Nat /\ Ends(k) \in SUBSET Nat
    BY <1>1, <2>4 DEF Heads, Ends
  <2>5. m \in Nat /\ m + 1 \in Nat
    BY <1>1, <2>1 DEF m
  <2>6. IsFirst(D!NextHead, Heads(m + 1)) /\ IsFirst(D!NextEnd, Ends(m))
    BY <2>2, <2>3, <2>4, <2>5, FirstOf
  <2>7. QED
    BY <2>6 DEF m
<1>7. QED
  BY <1>5, <1>6

-----------------------------------------------------------------------------
LEMMA Typed ==
    ASSUME D!TypeOK
    PROVE  /\ D!Size \in Nat /\ Records \in Nat /\ Len(buf) \in Nat
           /\ buf \in Seq(0..(D!Size - 1))
           /\ \A i \in 1..Len(buf) : buf[i] \in 0..(D!Size - 1) /\ buf[i] \in Nat
<1>1. D!Size \in Nat /\ Records \in Nat
  BY DumpParameters DEF D!Size
<1>2. buf \in Seq(0..(D!Size - 1))
  BY DEF D!TypeOK
<1>3. QED
  BY <1>1, <1>2

\* What the parser of each format cuts off: a piece of the buffer, which for a
\* line is all up to the first end.
LEMMA Piece ==
    ASSUME D!TypeOK, D!Complete
    PROVE  /\ D!Extent[1] \in 1..Len(buf) /\ D!Extent[2] \in 1..Len(buf)
           /\ format = "snapshot" =>
                D!EndOf(buf[D!Extent[2]]) /\ \A i \in 1..(D!Extent[2] - 1) : ~D!EndOf(buf[i])
<1>0. Len(buf) \in Nat
  BY Typed
<1>1. CASE format = "warc"
  <2>1. D!Extent = <<D!FirstHead, D!NextHead - 1>> /\ D!FirstHead # 0 /\ D!NextHead # 0
    BY <1>1 DEF D!Complete, D!Extent, D!WarcExtent
  <2>2. D!FirstHead \in Heads(1) /\ D!NextHead \in Heads(D!FirstHead + 1)
    BY <2>1, FirstPlaces DEF IsFirst
  <2>3. QED
    BY <1>0, <1>1, <2>1, <2>2 DEF Heads
<1>2. CASE format = "rows"
  <2>1. D!Extent = <<D!FirstHead, D!NextEnd>> /\ D!FirstHead # 0 /\ D!NextEnd # 0
    BY <1>2 DEF D!Complete, D!Extent, D!RowExtent
  <2>2. D!FirstHead \in Heads(1) /\ D!NextEnd \in Ends(D!FirstHead)
    BY <2>1, FirstPlaces DEF IsFirst
  <2>3. QED
    BY <1>0, <1>2, <2>1, <2>2 DEF Heads, Ends
<1>3. CASE format = "bz2"
  <2>1. D!Extent = <<D!FirstHead, D!FirstEnd>> /\ D!FirstHead # 0 /\ D!FirstEnd # 0
    BY <1>3 DEF D!Complete, D!Extent, D!PageExtent
  <2>2. D!FirstHead \in Heads(1) /\ D!FirstEnd \in Ends(1)
    BY <2>1, FirstPlaces DEF IsFirst
  <2>3. QED
    BY <1>0, <1>3, <2>1, <2>2 DEF Heads, Ends
<1>4. CASE format \in {"lines", "snapshot"}
  <2>1. D!Extent = <<1, D!FirstEnd>> /\ D!FirstEnd # 0
    BY <1>4 DEF D!Complete, D!Extent, D!LineExtent
  <2>2. D!FirstEnd \in Ends(1) /\ \A y \in Ends(1) : D!FirstEnd =< y
    BY <2>1, FirstPlaces DEF IsFirst
  <2>3. QED
    BY <1>0, <2>1, <2>2 DEF Ends
<1>5. QED
  BY <1>1, <1>2, <1>3, <1>4 DEF D!TypeOK, D!Formats

\* The units of a record that is placed, as far as they are in the buffer.
LEMMA InBuffer ==
    ASSUME D!TypeOK, NEW r \in 1..Records, NEW p \in Nat \ {0}, Placed(r, p)
    PROVE  /\ p =< Len(buf) => D!HeadOf(buf[p]) /\ ~D!EndOf(buf[p])
           /\ p + 1 =< Len(buf) => D!EndOf(buf[p + 1]) /\ ~D!HeadOf(buf[p + 1])
           /\ format = "warc" /\ p + 2 =< Len(buf) => D!HeadOf(buf[p + 2])
           /\ format = "bz2" => \A i \in 1..(p + 1) : i =< Len(buf) => (D!HeadOf(buf[i]) <=> i % 2 = 1)
           /\ format = "bz2" => p % 2 = 1
           /\ format \in {"lines", "rows", "snapshot"} /\ 1 < p /\ p - 1 =< Len(buf) => D!EndOf(buf[p - 1])
<1>0. Len(buf) \in Nat
  BY Typed
<1>1. D!HeadOf(2 * r - 2) /\ ~D!EndOf(2 * r - 2) /\ D!EndOf(2 * r - 1) /\ ~D!HeadOf(2 * r - 1)
  BY <1>0 DEF D!HeadOf, D!EndOf
<1>2. \A i \in 1..Len(buf) : Ahead(i) = buf[i]
  BY DEF Ahead
<1>3. Ahead(p) = 2 * r - 2 /\ Ahead(p + 1) = 2 * r - 1
  BY DEF Placed
<1>4. p \in 1..(p + 1)
  OBVIOUS
<1>5. format = "bz2" => p % 2 = 1
  BY <1>1, <1>3, <1>4 DEF Placed
<1>6. format = "warc" => D!HeadOf(Ahead(p + 2))
  BY DEF Placed
<1>7. format = "bz2" => \A i \in 1..(p + 1) : D!HeadOf(Ahead(i)) <=> i % 2 = 1
  BY DEF Placed
<1>8. format \in {"lines", "rows", "snapshot"} => p = 1 \/ D!EndOf(Ahead(p - 1))
  BY DEF Placed
<1>9. p =< Len(buf) => D!HeadOf(buf[p]) /\ ~D!EndOf(buf[p])
  BY <1>0, <1>1, <1>2, <1>3
<1>10. p + 1 =< Len(buf) => D!EndOf(buf[p + 1]) /\ ~D!HeadOf(buf[p + 1])
  BY <1>0, <1>1, <1>2, <1>3
<1>11. format = "warc" /\ p + 2 =< Len(buf) => D!HeadOf(buf[p + 2])
  BY <1>0, <1>2, <1>6
<1>12. ASSUME format = "bz2", NEW i \in 1..(p + 1), i =< Len(buf)
       PROVE  D!HeadOf(buf[i]) <=> i % 2 = 1
  <2>1. Ahead(i) = buf[i]
    BY <1>0, <1>2, <1>12
  <2>2. QED
    BY <1>7, <1>12, <2>1
<1>13. format \in {"lines", "rows", "snapshot"} /\ 1 < p /\ p - 1 =< Len(buf) => D!EndOf(buf[p - 1])
  BY <1>0, <1>2, <1>8
<1>14. QED
  BY <1>5, <1>9, <1>10, <1>11, <1>12, <1>13

\* The parser cuts off something before a record that is placed, or the record.
LEMMA PieceBefore ==
    ASSUME D!TypeOK, D!Complete, NEW r \in 1..Records, NEW p \in Nat \ {0}, Placed(r, p)
    PROVE  /\ D!Extent[2] < p \/ (D!Extent[1] = p /\ D!Extent[2] = p + 1)
           /\ format = "bz2" => D!Extent[2] = 2
<1>0. Len(buf) \in Nat
  BY Typed
<1> DEFINE x == D!Extent[1]
           y == D!Extent[2]
<1>1. x \in 1..Len(buf) /\ y \in 1..Len(buf)
  BY Piece
<1>2. CASE format = "warc"
  <2>1. x = D!FirstHead /\ y = D!NextHead - 1 /\ D!FirstHead # 0 /\ D!NextHead # 0
    BY <1>2 DEF D!Complete, D!Extent, D!WarcExtent
  <2>2. /\ x \in Heads(1) /\ \A i \in Heads(1) : x =< i
        /\ y + 1 \in Heads(x + 1) /\ \A i \in Heads(x + 1) : y + 1 =< i
    BY <2>1, <1>1, FirstPlaces DEF IsFirst, Heads
  <2> HIDE DEF x, y
  <2>3. CASE p > Len(buf)
    BY <1>0, <1>1, <1>2, <2>2, <2>3 DEF Heads, y
  <2>4. CASE p =< Len(buf) /\ x # p
    <3>1. p \in Heads(1)
      BY <1>0, <2>4, InBuffer DEF Heads
    <3>2. p \in Heads(x + 1)
      BY <1>0, <1>1, <2>2, <2>4, <3>1 DEF Heads
    <3>3. QED
      BY <1>1, <1>2, <2>2, <3>2 DEF y
  <2>5. CASE p =< Len(buf) /\ x = p
    <3>1. y + 1 # p + 1
      BY <1>0, <1>1, <2>2, <2>5, InBuffer DEF Heads
    <3>2. y + 1 >= p + 1 /\ y + 1 =< Len(buf)
      BY <1>0, <1>1, <2>2, <2>5 DEF Heads
    <3>3. p + 2 \in Heads(x + 1)
      BY <1>0, <1>1, <1>2, <2>5, <3>1, <3>2, InBuffer DEF Heads
    <3>4. QED
      BY <1>1, <1>2, <2>2, <2>5, <3>1, <3>2, <3>3 DEF x, y
  <2>6. QED
    BY <1>0, <1>2, <2>3, <2>4, <2>5 DEF y
<1>3. CASE format = "rows"
  <2>1. x = D!FirstHead /\ y = D!NextEnd /\ D!FirstHead # 0 /\ D!NextEnd # 0
    BY <1>3 DEF D!Complete, D!Extent, D!RowExtent
  <2>2. /\ x \in Heads(1) /\ \A i \in Heads(1) : x =< i
        /\ y \in Ends(x) /\ \A i \in Ends(x) : y =< i
    BY <2>1, FirstPlaces DEF IsFirst
  <2> HIDE DEF x, y
  <2>3. CASE p > Len(buf)
    BY <1>0, <1>1, <1>3, <2>3 DEF y
  <2>4. CASE p =< Len(buf) /\ x # p
    <3>1. p \in Heads(1)
      BY <1>0, <2>4, InBuffer DEF Heads
    <3>2. x < p
      BY <1>0, <1>1, <2>2, <2>4, <3>1
    <3>3. D!EndOf(buf[p - 1])
      BY <1>0, <1>1, <1>3, <2>4, <3>2, InBuffer
    <3>4. p - 1 \in Ends(x)
      BY <1>0, <1>1, <2>4, <3>2, <3>3 DEF Ends
    <3>5. QED
      BY <1>0, <1>1, <1>3, <2>2, <3>4 DEF y
  <2>5. CASE p =< Len(buf) /\ x = p
    <3>1. y # p /\ y >= p /\ y =< Len(buf)
      BY <1>0, <1>1, <2>2, <2>5, InBuffer DEF Ends
    <3>2. p + 1 \in Ends(x)
      BY <1>0, <1>1, <2>5, <3>1, InBuffer DEF Ends
    <3>3. QED
      BY <1>0, <1>1, <1>3, <2>2, <2>5, <3>1, <3>2 DEF x, y
  <2>6. QED
    BY <1>0, <2>3, <2>4, <2>5
<1>4. CASE format = "bz2"
  <2>1. x = D!FirstHead /\ y = D!FirstEnd /\ D!FirstHead # 0 /\ D!FirstEnd # 0 /\ ~(x > y)
    BY <1>4 DEF D!Complete, D!Extent, D!PageExtent
  <2>2. /\ x \in Heads(1) /\ \A i \in Heads(1) : x =< i
        /\ y \in Ends(1) /\ \A i \in Ends(1) : y =< i
    BY <2>1, FirstPlaces DEF IsFirst
  <2> HIDE DEF x, y
  <2>3. D!HeadOf(buf[1]) /\ ~D!EndOf(buf[1])
    <3>1. 1 \in 1..(p + 1) /\ 1 =< Len(buf) /\ 1 % 2 = 1
      BY <1>0, <1>1
    <3>2. D!HeadOf(buf[1])
      BY <1>4, <3>1, InBuffer
    <3>3. QED
      BY <3>2 DEF D!HeadOf, D!EndOf
  <2>4. x = 1
    BY <1>0, <1>1, <2>2, <2>3 DEF Heads
  <2>5. y >= 2
    BY <1>0, <1>1, <2>2, <2>3 DEF Ends
  <2>6. D!EndOf(buf[2])
    <3>1. 2 \in 1..(p + 1) /\ 2 =< Len(buf) /\ 2 % 2 # 1
      BY <1>0, <1>1, <2>5
    <3>2. ~D!HeadOf(buf[2]) /\ buf[2] \in Nat
      BY <1>0, <1>4, <3>1, InBuffer, Typed
    <3>3. QED
      BY <3>2 DEF D!HeadOf, D!EndOf
  <2>7. y = 2
    BY <1>0, <1>1, <2>2, <2>5, <2>6 DEF Ends
  <2>8. p % 2 = 1
    BY <1>4, InBuffer
  <2>9. p = 1 \/ p > 2
    BY <2>8
  <2>10. QED
    BY <2>4, <2>7, <2>9 DEF x, y
<1>5. CASE format \in {"lines", "snapshot"}
  <2>1. x = 1 /\ y = D!FirstEnd /\ D!FirstEnd # 0
    BY <1>5 DEF D!Complete, D!Extent, D!LineExtent
  <2>2. y \in Ends(1) /\ \A i \in Ends(1) : y =< i
    BY <2>1, FirstPlaces DEF IsFirst
  <2> HIDE DEF x, y
  <2>3. CASE p > Len(buf)
    BY <1>0, <1>1, <1>5, <2>3 DEF y
  <2>4. CASE p =< Len(buf) /\ p # 1
    <3>1. D!EndOf(buf[p - 1])
      BY <1>0, <1>5, <2>4, InBuffer
    <3>2. p - 1 \in Ends(1)
      BY <1>0, <2>4, <3>1 DEF Ends
    <3>3. QED
      BY <1>0, <1>1, <1>5, <2>2, <3>2 DEF y
  <2>5. CASE p =< Len(buf) /\ p = 1
    <3>1. y # p
      BY <1>0, <1>1, <2>2, <2>5, InBuffer DEF Ends
    <3>2. p + 1 \in Ends(1)
      BY <1>0, <1>1, <2>5, <3>1, InBuffer DEF Ends
    <3>3. QED
      BY <1>0, <1>1, <1>5, <2>1, <2>2, <2>5, <3>1, <3>2 DEF x, y
  <2>6. QED
    BY <1>0, <2>3, <2>4, <2>5
<1>6. format = "warc" \/ format = "rows" \/ format = "bz2" \/ format \in {"lines", "snapshot"}
  BY DEF D!TypeOK, D!Formats
<1>7. QED
  BY <1>2, <1>3, <1>4, <1>5, <1>6

\* A record that is placed and received is cut off, or something before it is.
LEMMA Receivable ==
    ASSUME D!TypeOK, NEW r \in 1..Records, NEW p \in Nat \ {0}, Placed(r, p), p + Reach =< Len(buf)
    PROVE  D!Complete
<1>0. Len(buf) \in Nat /\ p + 1 =< Len(buf) /\ p =< Len(buf)
  BY Typed DEF Reach
<1>1. p \in Heads(1) /\ p + 1 \in Ends(1)
  BY <1>0, InBuffer DEF Heads, Ends
<1>2. /\ D!FirstHead \in Heads(1) /\ D!FirstHead =< p
      /\ D!FirstEnd \in Ends(1)
  BY <1>1, FirstPlaces DEF IsFirst
<1>3. D!FirstHead \in 1..p /\ D!FirstHead # 0 /\ D!FirstEnd # 0
  BY <1>0, <1>2 DEF Heads, Ends
<1>4. CASE format = "warc"
  <2>1. p + 2 =< Len(buf)
    BY <1>4 DEF Reach
  <2>2. p + 2 \in Heads(D!FirstHead + 1)
    BY <1>0, <1>3, <1>4, <2>1, InBuffer DEF Heads
  <2>3. D!NextHead \in Heads(D!FirstHead + 1)
    BY <1>3, <2>2, FirstPlaces DEF IsFirst
  <2>4. D!NextHead \in Nat /\ D!NextHead > 1
    BY <1>0, <1>3, <2>3 DEF Heads
  <2>5. D!Extent = <<D!FirstHead, D!NextHead - 1>>
    BY <1>3, <1>4, <2>4 DEF D!Extent, D!WarcExtent
  <2>6. QED
    BY <1>3, <2>4, <2>5 DEF D!Complete
<1>5. CASE format = "rows"
  <2>1. p + 1 \in Ends(D!FirstHead)
    BY <1>0, <1>1, <1>3 DEF Ends
  <2>2. D!NextEnd \in Ends(D!FirstHead)
    BY <1>3, <2>1, FirstPlaces DEF IsFirst
  <2>3. D!NextEnd # 0
    BY <1>3, <2>2 DEF Ends
  <2>4. QED
    BY <1>3, <1>5, <2>3 DEF D!Complete, D!Extent, D!RowExtent
<1>6. CASE format = "bz2"
  <2>1. D!HeadOf(buf[1]) /\ ~D!EndOf(buf[1])
    <3>1. 1 \in 1..(p + 1) /\ 1 =< Len(buf) /\ 1 % 2 = 1
      BY <1>0
    <3>2. D!HeadOf(buf[1])
      BY <1>6, <3>1, InBuffer
    <3>3. QED
      BY <3>2 DEF D!HeadOf, D!EndOf
  <2>2. 1 \in Heads(1) /\ 1 \notin Ends(1)
    BY <1>0, <2>1 DEF Heads, Ends
  <2>3. D!FirstHead =< 1 /\ D!FirstEnd # 1
    BY <1>2, <2>2, FirstPlaces DEF IsFirst
  <2>4. ~(D!FirstHead > D!FirstEnd)
    BY <1>0, <1>2, <1>3, <2>3 DEF Heads, Ends
  <2>5. QED
    BY <1>3, <1>6, <2>4 DEF D!Complete, D!Extent, D!PageExtent
<1>7. CASE format \in {"lines", "snapshot"}
  BY <1>3, <1>7 DEF D!Complete, D!Extent, D!LineExtent
<1>8. format = "warc" \/ format = "rows" \/ format = "bz2" \/ format \in {"lines", "snapshot"}
  BY DEF D!TypeOK, D!Formats
<1>9. QED
  BY <1>4, <1>5, <1>6, <1>7, <1>8

-----------------------------------------------------------------------------
\* A member ends behind where it begins.
LEMMA MemberEndLater ==
    ASSUME D!TypeOK, NEW u \in Nat, u < D!Size
    PROVE  D!MemberEnd(u) \in Nat /\ D!MemberEnd(u) > u /\ D!MemberEnd(u) =< D!Size
<1> DEFINE later == {m \in members : m > u}
<1>1. CASE later = {}
  BY <1>1, Typed DEF D!MemberEnd
<1>2. CASE later # {}
  <2>0. members \in SUBSET (0..D!Size) /\ D!Size \in Nat
    BY Typed DEF D!TypeOK
  <2>1. later \in SUBSET Nat /\ \A m \in later : m =< D!Size
    <3>1. \A m \in 0..D!Size : m \in Nat /\ m =< D!Size
      BY <2>0
    <3>2. later \subseteq members /\ members \subseteq 0..D!Size
      BY <2>0
    <3> HIDE DEF later
    <3>3. QED
      BY <3>1, <3>2
  <2>2. \E m \in later : \A k \in later : m =< k
    <3> HIDE DEF later
    <3>1. QED
      BY <1>2, <2>1, LeastExists
  <2>3. D!MemberEnd(u) \in later
    BY <1>2, <2>2 DEF D!MemberEnd
  <2>4. QED
    BY <2>1, <2>3
<1>3. QED
  BY <1>1, <1>2

\* All places before the end of the first member belong to it.
LEMMA FirstMember ==
    ASSUME D!TypeOK, 0 \in members, NEW u \in Nat, u < D!MemberEnd(0), u < D!Size
    PROVE  D!MemberEnd(u) = D!MemberEnd(0)
<1> DEFINE later(v) == {m \in members : m > v}
           first(S) == CHOOSE m \in S : \A k \in S : m =< k
<1>0. members \in SUBSET Nat /\ later(0) \in SUBSET Nat
  <2>1. members \in SUBSET (0..D!Size) /\ D!Size \in Nat
    BY Typed DEF D!TypeOK
  <2>2. members \in SUBSET Nat
    BY <2>1
  <2>3. QED
    BY <2>2
<1>1. CASE later(0) = {}
  <2>1. \A m \in members : ~(m > 0)
    BY <1>1
  <2>2. \A m \in members : ~(m > u)
    BY <1>0, <2>1
  <2>3. later(u) = {}
    BY <2>2
  <2>4. QED
    BY <1>1, <2>3 DEF D!MemberEnd
<1>2. CASE later(0) # {}
  <2>1. \E m \in later(0) : \A k \in later(0) : m =< k
    <3> HIDE DEF later
    <3>1. QED
      BY <1>0, <1>2, LeastExists
  <2>2. \A k \in later(0) : D!MemberEnd(0) =< k
    BY <1>2, <2>1 DEF D!MemberEnd
  <2>3. \A k \in members : k > 0 => k > u
    <3>1. D!MemberEnd(0) \in Nat
      BY <1>0, <1>2, <2>1 DEF D!MemberEnd
    <3>2. QED
      BY <1>0, <2>2, <3>1
  <2>4. \A k \in members : k > u => k > 0
    BY <1>0
  <2>5. later(u) = later(0)
    BY <2>3, <2>4
  <2>6. /\ D!MemberEnd(0) = IF later(0) = {} THEN D!Size ELSE first(later(0))
        /\ D!MemberEnd(u) = IF later(u) = {} THEN D!Size ELSE first(later(u))
    BY DEF D!MemberEnd
  <2> HIDE DEF later, first
  <2>7. QED
    BY <2>5, <2>6
<1>3. QED
  BY <1>1, <1>2

\* k units come into the buffer: what was ahead is ahead, up to them.
LEMMA Arrived ==
    ASSUME D!TypeOK, NEW first \in Nat, NEW k \in Nat, first + k =< D!Size,
           buf' = buf \o D!Units(first, first + k)
    PROVE  /\ buf' \in Seq(0..(D!Size - 1)) /\ Len(buf') = Len(buf) + k
           /\ Coming = first =>
                \A i \in Nat \ {0} : i =< Len(buf) + k \/ Coming' = first + k => Ahead(i)' = Ahead(i)
<1> DEFINE a == D!Units(first, first + k)
<1>0. /\ Len(buf) \in Nat /\ D!Size \in Nat /\ buf \in Seq(0..(D!Size - 1))
  BY Typed DEF D!TypeOK
<1>1. a \in Seq(0..(D!Size - 1)) /\ Len(a) = k /\ \A i \in 1..k : a[i] = first + i - 1
  <2>1. first + k - first = k
    OBVIOUS
  <2>2. a = [i \in 1..k |-> first + i - 1]
    BY <2>1 DEF D!Units
  <2> HIDE DEF a
  <2>3. QED
    BY <1>0, <2>2
<1> HIDE DEF a
<1>2. /\ buf \o a \in Seq(0..(D!Size - 1)) /\ Len(buf \o a) = Len(buf) + k
      /\ \A i \in 1..(Len(buf) + k) : (buf \o a)[i] = IF i =< Len(buf) THEN buf[i] ELSE a[i - Len(buf)]
  BY <1>0, <1>1, ConcatProperties
<1>3. buf' = buf \o a
  BY DEF a
<1>4. ASSUME Coming = first, NEW i \in Nat \ {0}, i =< Len(buf) + k \/ Coming' = first + k
      PROVE  Ahead(i)' = Ahead(i)
  <2>1. CASE i =< Len(buf)
    BY <1>0, <1>2, <1>3, <2>1 DEF Ahead
  <2>2. CASE i > Len(buf) /\ i =< Len(buf) + k
    <3>1. buf'[i] = first + (i - Len(buf)) - 1
      BY <1>0, <1>1, <1>2, <1>3, <2>2
    <3>2. QED
      BY <1>0, <1>2, <1>3, <1>4, <2>2, <3>1 DEF Ahead
  <2>3. CASE i > Len(buf) + k /\ Coming' = first + k
    <3>1. Len(buf') = Len(buf) + k
      BY <1>2, <1>3
    <3>2. Ahead(i)' = first + k + (i - (Len(buf) + k)) - 1
      BY <1>0, <2>3, <3>1 DEF Ahead
    <3>3. Ahead(i) = first + (i - Len(buf)) - 1
      BY <1>0, <1>4, <2>3 DEF Ahead
    <3>4. QED
      BY <1>0, <3>2, <3>3
  <2>4. QED
    BY <1>0, <1>4, <2>1, <2>2, <2>3
<1>5. QED
  BY <1>2, <1>3, <1>4

\* The decompressor goes on where it stands and gives out k units: all that is in
\* it at the end of a member.
InPosition == decoder = pos \/ (decoder = D!Fresh /\ pos \in members)
UpTo(n) == IF pos + n < D!MemberEnd(pos) THEN pos + n ELSE D!MemberEnd(pos)
DecodedTo(n, k) ==
    /\ InPosition /\ Coming \in Nat
    /\ buf' = buf \o D!Units(Coming, Coming + k)
    /\ Coming + k =< UpTo(n) /\ held' = UpTo(n) - (Coming + k)
    /\ IF UpTo(n) = D!MemberEnd(pos) THEN held' = 0 /\ decoder' = D!Over ELSE decoder' = UpTo(n)

LEMMA Decodes ==
    ASSUME D!TypeOK, NEW n \in Nat \ {0}, pos + n =< D!Size, D!Decode(n)
    PROVE  /\ UpTo(n) \in Nat /\ UpTo(n) =< pos + n /\ UpTo(n) > pos
           /\ \/ \E k \in Nat : DecodedTo(n, k)
              \/ ~InPosition /\ buf' = buf /\ decoder' \in {D!Fresh, D!Lost} /\ held' = 0
<1>0. pos \in Nat /\ pos < D!Size /\ held \in Nat /\ D!Size \in Nat
  BY Typed DEF D!TypeOK
<1>1. D!MemberEnd(pos) \in Nat /\ D!MemberEnd(pos) > pos
  BY <1>0, MemberEndLater
<1>2. UpTo(n) \in Nat /\ UpTo(n) =< pos + n /\ UpTo(n) > pos
  BY <1>0, <1>1 DEF UpTo
<1>3. CASE ~InPosition
  <2>1. /\ decoder' \in IF decoder \in {D!Fresh, D!Over} THEN {D!Fresh} ELSE {D!Fresh, D!Lost}
        /\ held' = 0 /\ buf' = buf
    BY <1>3 DEF D!Decode, InPosition
  <2>2. QED
    BY <1>2, <1>3, <2>1
<1>4. CASE InPosition
  <2>1. PICK rest \in IF UpTo(n) = D!MemberEnd(pos) THEN {0} ELSE 0..(UpTo(n) - (pos - held)) :
            /\ buf' = buf \o D!Units(pos - held, UpTo(n) - rest)
            /\ held' = rest
    BY <1>0, <1>4 DEF D!Decode, InPosition, UpTo, D!Fresh
  <2>2. decoder' = IF UpTo(n) = D!MemberEnd(pos) THEN D!Over ELSE UpTo(n)
    BY <1>0, <1>4 DEF D!Decode, InPosition, UpTo, D!Fresh
  <2>3. Coming \in Nat /\ Coming =< pos
    BY <1>0, <1>4 DEF InPosition, Coming, D!TypeOK, D!Fresh
  <2>4. PICK k \in Nat : k = UpTo(n) - rest - Coming
    BY <1>0, <1>2, <2>1, <2>3 DEF Coming
  <2>5. Coming + k = UpTo(n) - rest /\ rest \in Nat
    BY <1>2, <2>1, <2>3, <2>4
  <2>6. buf' = buf \o D!Units(Coming, Coming + k)
    BY <2>1, <2>5 DEF Coming
  <2>7. held' = UpTo(n) - (Coming + k) /\ Coming + k =< UpTo(n)
    BY <1>2, <2>1, <2>5
  <2>8. DecodedTo(n, k)
    BY <1>4, <2>1, <2>2, <2>3, <2>6, <2>7 DEF DecodedTo
  <2>9. QED
    BY <1>2, <2>8
<1>5. QED
  BY <1>3, <1>4

\* All up to place y is cut off: what is ahead moves up.
LEMMA CutOff ==
    ASSUME D!TypeOK, NEW y \in 1..Len(buf), buf' = SubSeq(buf, y + 1, Len(buf)), Coming' = Coming
    PROVE  /\ buf' \in Seq(0..(D!Size - 1)) /\ Len(buf') = Len(buf) - y
           /\ \A i \in Nat \ {0} : Ahead(i)' = Ahead(i + y)
<1>0. /\ Coming \in Int /\ Len(buf) \in Nat /\ D!Size \in Nat /\ buf \in Seq(0..(D!Size - 1))
  BY Typed DEF D!TypeOK, Coming
<1>1. /\ buf' \in Seq(0..(D!Size - 1))
      /\ Len(buf') = IF y + 1 =< Len(buf) THEN Len(buf) - (y + 1) + 1 ELSE 0
      /\ \A i \in 1..(Len(buf) - (y + 1) + 1) : buf'[i] = buf[y + 1 + i - 1]
  <2>1. \A i \in (y + 1)..Len(buf) : buf[i] \in 0..(D!Size - 1)
    BY <1>0
  <2>2. y + 1 \in Int /\ Len(buf) \in Int
    BY <1>0
  <2>3. LET rest == SubSeq(buf, y + 1, Len(buf))
        IN  /\ rest \in Seq(0..(D!Size - 1))
            /\ Len(rest) = IF y + 1 =< Len(buf) THEN Len(buf) - (y + 1) + 1 ELSE 0
            /\ \A i \in 1..(Len(buf) - (y + 1) + 1) : rest[i] = buf[y + 1 + i - 1]
    BY <2>1, <2>2, SubSeqProperties
  <2>4. QED
    BY <2>3
<1>2. Len(buf') = Len(buf) - y
  BY <1>0, <1>1
<1>3. \A i \in 1..(Len(buf) - y) : buf'[i] = buf[i + y]
  BY <1>0, <1>1
<1>4. ASSUME NEW i \in Nat \ {0} PROVE Ahead(i)' = Ahead(i + y)
  <2>1. /\ Ahead(i)' = IF i =< Len(buf') THEN buf'[i] ELSE Coming + (i - Len(buf')) - 1
        /\ Ahead(i + y) = IF i + y =< Len(buf) THEN buf[i + y] ELSE Coming + (i + y - Len(buf)) - 1
    BY DEF Ahead
  <2>2. CASE i =< Len(buf) - y
    BY <1>0, <1>2, <1>3, <2>1, <2>2
  <2>3. CASE i > Len(buf) - y
    BY <1>0, <1>2, <2>1, <2>3
  <2>4. QED
    BY <1>0, <2>2, <2>3
<1>5. QED
  BY <1>1, <1>2, <1>4

\* A whole record, cut off.
LEMMA WholePiece ==
    ASSUME D!TypeOK, D!Complete, D!Whole(SubSeq(buf, D!Extent[1], D!Extent[2]))
    PROVE  LET piece == SubSeq(buf, D!Extent[1], D!Extent[2])
           IN  /\ D!Extent[2] = D!Extent[1] + 1
               /\ piece[1] = buf[D!Extent[1]] /\ piece[2] = buf[D!Extent[2]]
               /\ D!RecordOf(piece[1]) \in 1..Records
               /\ piece[1] = 2 * D!RecordOf(piece[1]) - 2
<1> DEFINE x == D!Extent[1]
           y == D!Extent[2]
           piece == SubSeq(buf, x, y)
<1>0. x \in 1..Len(buf) /\ y \in 1..Len(buf) /\ Len(buf) \in Nat
  BY Piece, Typed
<1>1. Len(piece) = 2 /\ D!HeadOf(piece[1])
  BY DEF D!Whole
<1>2. buf[x] \in 0..(2 * Records - 1) /\ Records \in Nat
  BY <1>0, Typed DEF D!Size
<1> HIDE DEF x, y
<1>3. /\ Len(piece) = IF x =< y THEN y - x + 1 ELSE 0
      /\ \A i \in 1..(y - x + 1) : piece[i] = buf[x + i - 1]
  <2>1. \A i \in x..y : buf[i] \in Nat
    BY <1>0, Typed
  <2>2. QED
    BY <1>0, <2>1, SubSeqProperties
<1>4. y = x + 1
  BY <1>0, <1>1, <1>3
<1>5. piece[1] = buf[x] /\ piece[2] = buf[y]
  BY <1>0, <1>3, <1>4
<1>6. D!RecordOf(buf[x]) \in 1..Records /\ buf[x] = 2 * D!RecordOf(buf[x]) - 2
  BY <1>1, <1>2, <1>5 DEF D!RecordOf, D!HeadOf
<1>7. QED
  BY <1>4, <1>5, <1>6 DEF x, y

-----------------------------------------------------------------------------
LEMMA DumpInitTyped == D!Init => D!TypeOK
<1> SUFFICES ASSUME D!Init PROVE D!TypeOK
  OBVIOUS
<1>1. buf \in Seq(0..(D!Size - 1))
  BY EmptySeq DEF D!Init
<1>2. members \in SUBSET (0..D!Size)
  BY DumpParameters DEF D!Init, D!Size
<1>3. QED
  BY <1>1, <1>2, DumpParameters DEF D!Init, D!TypeOK, D!Size

LEMMA ReceiveTyped == D!TypeOK /\ D!Receive => D!TypeOK'
<1> SUFFICES ASSUME D!TypeOK, D!Receive PROVE D!TypeOK'
  OBVIOUS
<1>1. PICK n \in 1..Chunk :
          /\ pos + n =< D!Size
          /\ IF format = "bz2" THEN D!Decode(n)
             ELSE buf' = buf \o D!Units(pos, pos + n) /\ UNCHANGED <<decoder, held>>
          /\ pos' = pos + n /\ chunk' = n
          /\ counted' = IF format \in {"lines", "warc", "bz2"} THEN counted + n ELSE counted
  BY DEF D!Receive
<1>2. /\ D!Size \in Nat /\ pos \in Nat /\ pos < D!Size /\ n \in Nat /\ n \in 0..Chunk
      /\ pos' \in 0..D!Size /\ counted' \in Nat /\ pos + n \in 0..D!Size
  BY <1>1, DumpParameters, Typed DEF D!TypeOK
<1>3. CASE format # "bz2"
  <2>1. buf' \in Seq(0..(D!Size - 1))
    BY <1>1, <1>2, <1>3, Arrived
  <2>2. decoder' = decoder /\ held' = held
    BY <1>1, <1>3
  <2>3. QED
    BY <1>1, <1>2, <2>1, <2>2 DEF D!Receive, D!TypeOK, D!history, D!Size, D!Formats
<1>4. CASE format = "bz2"
  <2>1. /\ UpTo(n) \in Nat /\ UpTo(n) =< pos + n /\ UpTo(n) > pos
        /\ \/ \E k \in Nat : DecodedTo(n, k)
           \/ ~InPosition /\ buf' = buf /\ decoder' \in {D!Fresh, D!Lost} /\ held' = 0
    BY <1>1, <1>2, <1>4, Decodes
  <2>2. /\ buf' \in Seq(0..(D!Size - 1)) /\ decoder' \in {D!Fresh, D!Over, D!Lost} \cup (0..D!Size)
        /\ held' \in 0..D!Size /\ (held' > 0 => held' =< decoder')
    <3>1. CASE \E k \in Nat : DecodedTo(n, k)
      <4>1. PICK k \in Nat : DecodedTo(n, k)
        BY <3>1
      <4>2. /\ Coming \in Nat /\ Coming + k =< UpTo(n) /\ held' = UpTo(n) - (Coming + k)
            /\ buf' = buf \o D!Units(Coming, Coming + k)
            /\ held' = 0 \/ decoder' = UpTo(n)
            /\ decoder' \in {D!Over, UpTo(n)}
        BY <4>1 DEF DecodedTo
      <4>3. buf' \in Seq(0..(D!Size - 1))
        <5>1. Coming + k =< D!Size
          BY <1>1, <1>2, <2>1, <4>1, <4>2
        <5>2. QED
          BY <4>1, <4>2, <5>1, Arrived
      <4>4. QED
        BY <1>1, <1>2, <2>1, <4>1, <4>2, <4>3
    <3>2. CASE buf' = buf /\ decoder' \in {D!Fresh, D!Lost} /\ held' = 0
      BY <1>2, <3>2 DEF D!TypeOK
    <3>3. QED
      BY <2>1, <3>1, <3>2
  <2>3. QED
    BY <1>1, <1>2, <2>2 DEF D!Receive, D!TypeOK, D!history, D!Size, D!Formats
<1>5. QED
  BY <1>3, <1>4

LEMMA ParseTyped == D!TypeOK /\ D!Parse => D!TypeOK'
<1> SUFFICES ASSUME D!TypeOK, D!Parse PROVE D!TypeOK'
  OBVIOUS
<1> DEFINE piece == SubSeq(buf, D!Extent[1], D!Extent[2])
<1>1. D!Complete /\ pos' = pos /\ held' = held /\ buf' = SubSeq(buf, D!Extent[2] + 1, Len(buf))
  BY DEF D!Parse
<1>2. buf' \in Seq(0..(D!Size - 1))
  <2>1. D!Extent[2] \in 1..Len(buf)
    BY <1>1, Piece
  <2>2. QED
    BY <1>1, <2>1, CutOff DEF Coming
<1>3. D!Whole(piece) => D!RecordOf(piece[1]) \in 1..Records
  BY <1>1, WholePiece
<1>4. /\ counted' = IF format = "snapshot" THEN counted + 1 ELSE counted
      /\ \/ D!Whole(piece) /\ D!Yield(D!RecordOf(piece[1]), IF format = "snapshot" THEN counted + 1 ELSE counted)
         \/ offset' = counted /\ UNCHANGED <<yielded, latest>>
         \/ UNCHANGED <<offset, yielded, latest>>
  BY DEF D!Parse
<1> HIDE DEF piece
<1>5. counted \in Nat /\ counted' \in Nat /\ counted + 1 \in Nat
  BY <1>4 DEF D!TypeOK
<1>6. offset' \in Nat /\ yielded' \in SUBSET (1..Records) /\ latest' \in 0..Records
  <2>1. CASE D!Whole(piece) /\ D!Yield(D!RecordOf(piece[1]), IF format = "snapshot" THEN counted + 1 ELSE counted)
    <3>1. /\ yielded' = yielded \cup {D!RecordOf(piece[1])}
          /\ latest' = D!RecordOf(piece[1])
          /\ offset' = IF format = "snapshot" THEN counted + 1 ELSE counted
      BY <2>1 DEF D!Yield
    <3>2. D!RecordOf(piece[1]) \in 1..Records /\ D!RecordOf(piece[1]) \in 0..Records
      BY <1>3, <2>1, DumpParameters
    <3>3. QED
      BY <1>5, <3>1, <3>2 DEF D!TypeOK
  <2>2. QED
    BY <1>4, <1>5, <2>1 DEF D!TypeOK
<1>7. /\ UNCHANGED <<format, members, run, mode, base, attempt, pos, chunk, decoder, held, saved, savedLatest>>
  BY DEF D!Parse
<1>8. QED
  BY <1>2, <1>5, <1>6, <1>7 DEF D!TypeOK, D!Size, D!Formats

LEMMA DumpTyped == D!TypeOK /\ [D!Next]_dvars => D!TypeOK'
<1> SUFFICES ASSUME D!TypeOK, [D!Next]_dvars PROVE D!TypeOK'
  OBVIOUS
<1> USE DumpParameters
<1>1. CASE D!Start
  <2>1. << >> \in Seq(0..(D!Size - 1))
    BY EmptySeq
  <2>2. run' \in 0..MaxRuns /\ base' \in Nat /\ offset' \in Nat /\ counted' \in Nat /\ latest' \in 0..Records
    BY <1>1 DEF D!Start, D!TypeOK
  <2>3. QED
    BY <1>1, <2>1, <2>2 DEF D!Start, D!TypeOK, D!Size, D!Formats
<1>2. CASE D!Connect
  <2>1. pos' \in 0..D!Size
    BY <1>2, Typed DEF D!Connect, D!TypeOK, D!Requested
  <2>2. QED
    BY <1>2, <2>1 DEF D!Connect, D!TypeOK, D!history, D!Size, D!Formats
<1>3. CASE D!Break
  BY <1>3 DEF D!Break, D!TypeOK, D!Size, D!Formats
<1>4. CASE D!GiveUp
  BY <1>4 DEF D!GiveUp, D!TypeOK, D!Size, D!Formats
<1>5. CASE D!Receive
  BY <1>5, ReceiveTyped
<1>6. CASE D!Parse
  BY <1>6, ParseTyped
<1>7. CASE D!Parsed
  <2>1. counted' \in Nat
    BY <1>7 DEF D!Parsed, D!TypeOK
  <2>2. QED
    BY <1>7, <2>1 DEF D!Parsed, D!TypeOK, D!history, D!Size, D!Formats
<1>8. CASE D!Finish
  BY <1>8 DEF D!Finish, D!TypeOK, D!history, D!Size, D!Formats
<1>9. CASE D!Save
  BY <1>9 DEF D!Save, D!TypeOK, D!conn, D!Size, D!Formats
<1>10. CASE D!Crash
  BY <1>10 DEF D!Crash, D!TypeOK, D!history, D!Size, D!Formats
<1>11. CASE UNCHANGED dvars
  BY <1>11 DEF dvars, D!TypeOK, D!Size, D!Formats
<1>12. QED
  BY <1>1, <1>2, <1>3, <1>4, <1>5, <1>6, <1>7, <1>8, <1>9, <1>10, <1>11 DEF D!Next

-----------------------------------------------------------------------------
\* A record is not due again.
LEMMA DueBefore ==
    ASSUME D!TypeOK, [D!Next]_dvars
    PROVE  /\ format' = format /\ members' = members
           /\ yielded \subseteq yielded' /\ doubtful \subseteq doubtful'
           /\ \A r \in 1..Records : Due(r)' => Due(r)
<1>1. format' = format /\ members' = members
  BY DEF D!Next, dvars, D!Start, D!Connect, D!Break, D!GiveUp, D!Receive, D!Parse, D!Parsed, D!Finish, D!Save, D!Crash
<1>2. yielded \subseteq yielded'
  BY DEF D!Next, dvars, D!Start, D!Connect, D!Break, D!GiveUp, D!Receive, D!Parse, D!Parsed, D!Finish, D!Save, D!Crash,
         D!Yield, D!history
<1>3. doubtful \subseteq doubtful'
  BY DEF D!Next, dvars, D!Start, D!Connect, D!Break, D!GiveUp, D!Receive, D!Parse, D!Parsed, D!Finish, D!Save, D!Crash,
         D!Doubt, D!history
<1>4. QED
  BY <1>1, <1>2, <1>3 DEF Due

\* A record stays placed when what is ahead of it moves up by y places.
LEMMA PlacedMoves ==
    ASSUME NEW r \in 1..Records, NEW q \in Nat \ {0}, NEW y \in Nat, Placed(r, q + y),
           format' = format, format = "bz2" => y % 2 = 0,
           \A i \in 1..(q + Reach) : Ahead(i)' = Ahead(i + y)
    PROVE  Placed(r, q)'
<1>1. /\ Ahead(q)' = Ahead(q + y) /\ Ahead(q + 1)' = Ahead(q + y + 1)
      /\ \A i \in 1..(q + 1) : Ahead(i)' = Ahead(i + y)
      /\ format = "warc" => Ahead(q + 2)' = Ahead(q + y + 2)
  <2>1. q + 1 + y = q + y + 1 /\ q + 2 + y = q + y + 2
    OBVIOUS
  <2>2. q \in 1..(q + Reach) /\ q + 1 \in 1..(q + Reach) /\ 1..(q + 1) \subseteq 1..(q + Reach)
    BY DEF Reach
  <2>3. format = "warc" => q + 2 \in 1..(q + Reach)
    BY DEF Reach
  <2>4. Ahead(q)' = Ahead(q + y) /\ Ahead(q + 1)' = Ahead(q + 1 + y)
    BY <2>2
  <2>5. format = "warc" => Ahead(q + 2)' = Ahead(q + 2 + y)
    BY <2>3
  <2>6. QED
    BY <2>1, <2>2, <2>4, <2>5
<1>2. Ahead(q)' = 2 * r - 2 /\ Ahead(q + 1)' = 2 * r - 1
  BY <1>1 DEF Placed
<1>3. ASSUME NEW i \in 1..(q - 1) PROVE Ahead(i)' =< 2 * r - 1
  <2>1. i + y \in 1..(q + y - 1) /\ i \in 1..(q + 1)
    OBVIOUS
  <2>2. QED
    BY <1>1, <2>1 DEF Placed
<1>4. format = "warc" => D!HeadOf(Ahead(q + 2)') /\ Ahead(q + 2)' < D!Size
  BY <1>1 DEF Placed
<1>5. ASSUME format = "bz2", NEW i \in 1..(q + 1) PROVE D!HeadOf(Ahead(i)') <=> i % 2 = 1
  <2>1. i + y \in 1..(q + y + 1)
    OBVIOUS
  <2>2. D!HeadOf(Ahead(i + y)) <=> (i + y) % 2 = 1
    BY <1>5, <2>1 DEF Placed
  <2>3. (i + y) % 2 = 1 <=> i % 2 = 1
    BY <1>5
  <2>4. QED
    BY <1>1, <2>2, <2>3
<1>6. format \notin {"warc", "bz2"} => q = 1 \/ D!EndOf(Ahead(q - 1)')
  <2>1. SUFFICES ASSUME format \notin {"warc", "bz2"}, q # 1 PROVE D!EndOf(Ahead(q - 1)')
    OBVIOUS
  <2>2. q - 1 \in 1..(q + 1) /\ q + y # 1 /\ q - 1 + y = q + y - 1
    BY <2>1
  <2>3. D!EndOf(Ahead(q + y - 1))
    BY <2>1, <2>2 DEF Placed
  <2>4. QED
    BY <1>1, <2>2, <2>3
<1>7. QED
  BY <1>2, <1>3, <1>4, <1>5, <1>6 DEF Placed, D!HeadOf, D!EndOf, D!Size

\* What there is to cut off depends on the buffer alone.
LEMMA SamePieces ==
    ASSUME buf' = buf, format' = format PROVE D!Complete' = D!Complete
BY DEF D!Complete, D!Extent, D!WarcExtent, D!RowExtent, D!PageExtent, D!LineExtent,
       D!FirstHead, D!FirstEnd, D!NextHead, D!NextEnd, D!SelectInSeq, D!SelectInSubSeq

LEMMA ArchiveHolds == D!TypeOK /\ Archive /\ [D!Next]_dvars => Archive'
<1> SUFFICES ASSUME D!TypeOK, Archive, [D!Next]_dvars PROVE Archive'
  OBVIOUS
<1>1. D!MemberEnd(0)' = D!MemberEnd(0)
  <2>1. members' = members
    BY DueBefore
  <2>2. QED
    BY <2>1 DEF D!MemberEnd, D!Size
<1>2. format # "bz2" => held' \in {0, held}
  BY DEF D!Next, dvars, D!Start, D!Connect, D!Break, D!GiveUp, D!Receive, D!Parse, D!Parsed, D!Finish, D!Save, D!Crash, D!conn
<1>3. QED
  BY <1>1, <1>2, DueBefore DEF Archive, D!Size

LEMMA ParsingHolds == D!TypeOK /\ Parsing /\ [D!Next]_dvars => Parsing'
<1> SUFFICES ASSUME D!TypeOK, Parsing, [D!Next]_dvars, mode' \in {"connecting", "receiving"} PROVE ~D!Complete'
  BY DEF Parsing
<1>1. CASE D!Start
  <2>1. buf' = << >>
    BY <1>1 DEF D!Start
  <2>2. D!FirstHead' = 0 /\ D!FirstEnd' = 0
    BY <2>1 DEF D!FirstHead, D!FirstEnd, D!SelectInSeq
  <2>3. D!Extent'[1] = 0 \/ D!Extent'[2] = 0
    BY <2>2 DEF D!Extent, D!WarcExtent, D!RowExtent, D!PageExtent, D!LineExtent
  <2>4. QED
    BY <2>3 DEF D!Complete
<1>2. ASSUME buf' = buf, ~D!Complete PROVE ~D!Complete'
  BY <1>2, DueBefore, SamePieces
<1>3. CASE D!Connect \/ D!Break
  BY <1>2, <1>3 DEF D!Connect, D!Break, Parsing
<1>4. CASE D!Parsed
  BY <1>2, <1>4 DEF D!Parsed
<1>5. CASE D!Save \/ UNCHANGED dvars
  BY <1>2, <1>5 DEF D!Save, D!conn, dvars, Parsing
<1>6. ~D!GiveUp /\ ~D!Receive /\ ~D!Parse /\ ~D!Finish /\ ~D!Crash
  BY DEF D!GiveUp, D!Receive, D!Parse, D!Finish, D!Crash
<1>7. QED
  BY <1>1, <1>3, <1>4, <1>5, <1>6 DEF D!Next

-----------------------------------------------------------------------------
LEMMA LaterKept ==
    ASSUME D!TypeOK, Later, [D!Next]_dvars, base' = base, latest' = latest, savedLatest' \in {savedLatest, latest}
    PROVE  Later'
<1>1. SUFFICES ASSUME NEW r \in 1..Records, Due(r)'
               PROVE  /\ r > latest' /\ r > savedLatest'
                      /\ 2 * r - 2 >= D!Requested'
                      /\ format' = "snapshot" => r >= base'
  BY DEF Later
<1>2. Due(r) /\ format' = format
  BY <1>1, DueBefore
<1>3. D!Requested' = D!Requested
  BY <1>2 DEF D!Requested
<1>4. QED
  BY <1>1, <1>2, <1>3 DEF Later

\* A process takes up the dump: what the offset passes over is no longer due.
LEMMA StartHolds ==
    ASSUME DumpInv, D!Start
    PROVE  Placing' /\ Later' /\ Counting'
<1>0. D!TypeOK /\ [D!Next]_dvars /\ format' = format
  BY DueBefore DEF DumpInv, D!Next
<1>1. ASSUME NEW r \in 1..Records, Due(r)'
      PROVE  /\ Due(r) /\ r > savedLatest
             /\ saved # 0 => /\ format # "bz2"
                             /\ 2 * r - 2 > IF format = "snapshot" THEN 2 * saved - 3 ELSE saved - 1
  <2>1. Due(r) /\ r > savedLatest
    BY <1>0, <1>1, DueBefore DEF DumpInv, Later
  <2>2. ASSUME saved # 0
        PROVE  format # "bz2" /\ 2 * r - 2 > IF format = "snapshot" THEN 2 * saved - 3 ELSE saved - 1
    <3> DEFINE last == IF format = "snapshot" THEN 2 * saved - 3 ELSE saved - 1
               top == IF format = "bz2" THEN D!Size ELSE last
    <3>1. doubtful' = doubtful \cup (2 * savedLatest..top)
      BY <2>2 DEF D!Start, D!Doubt
    <3>2. 2 * r - 2 \notin 2 * savedLatest..top
      BY <1>1, <3>1 DEF Due
    <3>3. savedLatest \in Nat /\ saved \in Nat /\ D!Size \in Nat
      BY <1>0, DumpParameters, Typed DEF D!TypeOK
    <3>4. last \in Int /\ top \in Int
      BY <3>3
    <3>5. 2 * r - 2 > top
      <4> HIDE DEF top
      <4>1. QED
        BY <2>1, <3>2, <3>3, <3>4
    <3>6. 2 * r - 2 < D!Size
      BY DumpParameters DEF D!Size
    <3>7. QED
      BY <3>3, <3>5, <3>6
  <2>3. QED
    BY <2>1, <2>2
<1>2. buf' = << >> /\ base' = saved /\ latest' = savedLatest /\ savedLatest' = savedLatest
      /\ mode' = "connecting" /\ decoder' = D!Fresh /\ saved \in Nat
  BY <1>0 DEF D!Start, D!TypeOK
<1>3. Placing'
  <2>1. SUFFICES ASSUME NEW r \in 1..Records, Due(r)' PROVE SentAgain(r)'
    BY <1>2 DEF Placing
  <2>2. format = "bz2" => base' = 0
    BY <1>1, <1>2, <2>1
  <2>3. QED
    BY <1>0, <1>2, <2>2 DEF SentAgain, D!Fresh
<1>4. Later'
  <2>1. SUFFICES ASSUME NEW r \in 1..Records, Due(r)'
                 PROVE  /\ r > latest' /\ r > savedLatest'
                        /\ 2 * r - 2 >= D!Requested'
                        /\ format' = "snapshot" => r >= base'
    BY DEF Later
  <2>2. D!Requested' = IF format = "snapshot" THEN 0 ELSE saved
    BY <1>0, <1>2 DEF D!Requested
  <2>3. QED
    BY <1>0, <1>1, <1>2, <2>1, <2>2
<1>5. Counting'
  <2>1. Places' = {}
    BY <1>2 DEF Places
  <2>2. QED
    BY <2>1 DEF Counting
<1>6. QED
  BY <1>3, <1>4, <1>5

\* The dump is sent, from where it was asked for or from the beginning.
LEMMA ConnectHolds ==
    ASSUME DumpInv, D!Connect
    PROVE  Placing' /\ Later' /\ Counting'
<1>0. D!TypeOK /\ [D!Next]_dvars /\ format' = format
  BY DueBefore DEF DumpInv, D!Next
<1>1. /\ mode = "connecting" /\ mode' = "receiving" /\ buf' = buf /\ decoder' = decoder /\ members' = members
      /\ base' = base /\ latest' = latest /\ savedLatest' = savedLatest /\ counted' = counted
      /\ pos' = D!Requested \/ (D!Requested > 0 /\ pos' = 0)
      /\ pos' \in 0..D!Size /\ held' = held
  <2>1. D!TypeOK'
    BY <1>0, DumpTyped
  <2>2. pos' \in 0..D!Size
    BY <2>1 DEF D!TypeOK, D!Size
  <2>3. QED
    BY <2>2 DEF D!Connect, D!history
<1>2. /\ Len(buf) \in Nat /\ D!Size \in Nat /\ pos' \in Nat /\ Places = 1..Len(buf)
      /\ held \in Nat /\ Places' = 1..(Len(buf) + D!Size - (pos' - held))
      /\ \A i \in 1..Len(buf) : buf[i] \in Nat
      /\ D!Size = 2 * Records /\ Records \in Nat
  BY <1>0, <1>1, Typed DEF Places, Coming, D!Size, D!TypeOK
<1>3. /\ \A i \in 1..Len(buf) : Ahead(i)' = Ahead(i) /\ Ahead(i) = buf[i]
      /\ held = 0 => /\ Places' = 1..(Len(buf) + D!Size - pos')
                     /\ \A i \in Nat : i > Len(buf) => Ahead(i)' = pos' + (i - Len(buf)) - 1
  <2>1. \A i \in 1..Len(buf) : Ahead(i)' = Ahead(i) /\ Ahead(i) = buf[i]
    BY <1>1, <1>2 DEF Ahead
  <2>2. held = 0 => Coming' = pos'
    <3>1. PICK q \in Nat : pos' = q
      BY <1>2
    <3>2. Coming' = q - held
      BY <1>1, <3>1 DEF Coming
    <3>3. held = 0 => Coming' = q
      BY <3>2
    <3>4. QED
      BY <3>1, <3>3
  <2>3. held = 0 => Places' = 1..(Len(buf) + D!Size - pos')
    <3>1. Places' = 1..(Len(buf) + D!Size - Coming')
      BY <1>1 DEF Places, D!Size
    <3>2. QED
      BY <2>2, <3>1
  <2>4. ASSUME held = 0, NEW i \in Nat, i > Len(buf) PROVE Ahead(i)' = pos' + (i - Len(buf)) - 1
    BY <1>1, <1>2, <2>2, <2>4 DEF Ahead
  <2>5. QED
    BY <2>1, <2>3, <2>4
<1>4. ASSUME NEW r \in 1..Records, Due(r)' PROVE Streamed(r)'
  <2>0. r \in Nat /\ 1 =< r /\ r =< Records /\ Len(buf) \in Nat /\ pos' \in Nat
    BY <1>2
  <2>1. Due(r) /\ (Received(r) \/ SentAgain(r)) /\ 2 * r - 2 >= D!Requested
    BY <1>0, <1>1, <1>4, DueBefore DEF DumpInv, Placing, Later
  <2>2. CASE Received(r)
    <3>1. PICK p \in Places : Placed(r, p) /\ p + Reach =< Len(buf)
      BY <2>2 DEF Received
    <3>2. p \in Nat \ {0} /\ p \in Places' /\ p + 1 =< Len(buf)
      BY <1>2, <3>1, <1>1 DEF Reach
    <3>3. \A i \in 1..(p + Reach) : Ahead(i)' = Ahead(i + 0)
      BY <1>2, <1>3, <3>1 DEF Reach
    <3>4. Placed(r, p)'
      <4>1. Placed(r, p + 0) /\ 0 % 2 = 0
        BY <3>1, <3>2
      <4>2. QED
        BY <1>0, <3>2, <3>3, <4>1, PlacedMoves
    <3>5. QED
      BY <1>1, <3>2, <3>4 DEF Streamed
  <2>3. CASE SentAgain(r) /\ format = "bz2"
    <3>1. buf = << >> /\ Len(buf) = 0 /\ base = 0 /\ decoder = D!Fresh
      BY <2>3 DEF SentAgain
    <3>2. pos' = 0 /\ held = 0
      BY <1>0, <1>1, <1>2, <2>3, <3>1 DEF D!Requested, D!TypeOK, D!Fresh
    <3>3. \A i \in Nat \ {0} : Ahead(i)' = i - 1
      BY <1>3, <3>1, <3>2
    <3> DEFINE q == 2 * r - 1
    <3>4. q \in Nat \ {0} /\ q \in Places'
      BY <1>2, <1>3, <2>0, <3>1, <3>2
    <3>5. Placed(r, q)'
      <4>1. Ahead(q)' = 2 * r - 2 /\ Ahead(q + 1)' = 2 * r - 1
        BY <3>3
      <4>2. \A i \in 1..(q - 1) : Ahead(i)' =< 2 * r - 1
        BY <3>3
      <4>3. \A i \in 1..(q + 1) : D!HeadOf(Ahead(i)') <=> i % 2 = 1
        BY <3>3 DEF D!HeadOf
      <4> HIDE DEF q
      <4>4. QED
        BY <1>0, <2>3, <4>1, <4>2, <4>3 DEF Placed, D!HeadOf
    <3>6. InStep'
      <4>1. 0 \in members
        BY DEF DumpInv, Archive
      <4>2. D!MemberEnd(0) > 0
        BY <1>0, <1>2, <2>0, MemberEndLater
      <4>3. D!MemberEnd(0)' = D!MemberEnd(0)
        BY <1>1 DEF D!MemberEnd, D!Size
      <4>4. QED
        BY <1>1, <3>1, <3>2, <4>1, <4>2, <4>3 DEF InStep, D!Fresh
    <3>7. QED
      <4> HIDE DEF q
      <4>1. QED
        BY <3>4, <3>5, <3>6 DEF Streamed
  <2>4. CASE SentAgain(r) /\ format # "bz2"
    <3>1. /\ \A i \in 1..Len(buf) : buf[i] =< 2 * r - 1
          /\ buf = << >> \/ 2 * r - 2 # D!Requested
      BY <2>4 DEF SentAgain
    <3>2. pos' =< 2 * r - 2 /\ (pos' = 2 * r - 2 => buf = << >>)
      <4>1. D!Requested \in Nat
        BY <1>0 DEF D!TypeOK, D!Requested
      <4>2. QED
        BY <1>1, <1>2, <2>1, <3>1, <4>1
    <3>3. PICK q \in Nat : q = Len(buf) + (2 * r - 2 - pos') + 1
      BY <1>2, <3>2
    <3>4. q \in Nat \ {0} /\ q \in Places' /\ held = 0
      BY <1>2, <1>3, <2>0, <2>4, <3>2, <3>3 DEF DumpInv, Archive
    <3>5. /\ \A i \in Nat : i > Len(buf) => Ahead(i)' = 2 * r - 2 + (i - q)
          /\ Ahead(q)' = 2 * r - 2 /\ Ahead(q + 1)' = 2 * r - 1 /\ Ahead(q + 2)' = 2 * r
      <4>1. ASSUME NEW i \in Nat, i > Len(buf) PROVE Ahead(i)' = 2 * r - 2 + (i - q)
        <5>1. Ahead(i)' = pos' + (i - Len(buf)) - 1
          BY <1>3, <3>4, <4>1
        <5>2. QED
          BY <2>0, <3>3, <5>1
      <4>2. q > Len(buf) /\ q + 1 > Len(buf) /\ q + 2 > Len(buf) /\ q \in Nat /\ q + 1 \in Nat /\ q + 2 \in Nat
        BY <2>0, <3>2, <3>3
      <4>3. /\ Ahead(q)' = 2 * r - 2 + (q - q) /\ Ahead(q + 1)' = 2 * r - 2 + ((q + 1) - q)
            /\ Ahead(q + 2)' = 2 * r - 2 + ((q + 2) - q)
        BY <4>1, <4>2
      <4>4. QED
        BY <2>0, <4>1, <4>2, <4>3
    <3>6. ASSUME NEW i \in 1..(q - 1) PROVE Ahead(i)' =< 2 * r - 1
      <4>1. CASE i =< Len(buf)
        BY <1>2, <1>3, <3>1, <4>1
      <4>2. CASE i > Len(buf)
        <5>1. i \in Nat /\ Ahead(i)' = 2 * r - 2 + (i - q)
          BY <2>0, <3>3, <3>5, <4>2
        <5>2. QED
          BY <2>0, <3>3, <5>1
      <4>3. QED
        BY <1>2, <4>1, <4>2
    <3>7. format = "warc" => D!HeadOf(Ahead(q + 2)') /\ Ahead(q + 2)' < D!Size
      BY <1>2, <2>0, <2>1, <3>5 DEF Due, D!HeadOf
    <3>8. q = 1 \/ D!EndOf(Ahead(q - 1)')
      <4>1. CASE pos' = 2 * r - 2
        BY <1>2, <3>2, <3>3, <4>1
      <4>2. CASE pos' # 2 * r - 2
        <5>1. q - 1 \in Nat /\ q - 1 > Len(buf) /\ (q - 1) - q = -1
          <6>1. PICK u \in Nat : pos' = u
            BY <2>0
          <6>2. u < 2 * r - 2 /\ q = Len(buf) + (2 * r - 2 - u) + 1
            BY <2>0, <3>2, <3>3, <4>2, <6>1
          <6>3. QED
            BY <2>0, <6>2
        <5>2. Ahead(q - 1)' = 2 * r - 3
          BY <2>0, <3>5, <5>1
        <5>3. QED
          BY <2>0, <5>2 DEF D!EndOf
      <4>3. QED
        BY <4>1, <4>2
    <3>9. Placed(r, q)'
      BY <1>0, <2>4, <3>5, <3>6, <3>7, <3>8 DEF Placed, D!HeadOf, D!EndOf, D!Size
    <3>10. QED
      BY <1>0, <2>4, <3>4, <3>9 DEF Streamed
  <2>5. QED
    BY <2>1, <2>2, <2>3, <2>4
<1>5. Later'
  BY <1>0, <1>1, LaterKept DEF DumpInv
<1>6. Counting'
  <2>1. SUFFICES ASSUME format = "snapshot", NEW j \in 1..(Len(buf) + D!Size - (pos' - held)), D!EndOf(Ahead(j)')
                 PROVE  \/ Ahead(j)' =< 2 * counted + 1
                        \/ \E i \in 1..(j - 1) : D!EndOf(Ahead(i)') /\ Ahead(j)' =< Ahead(i)' + 2
    BY <1>0, <1>1, <1>2 DEF Counting, D!EndOf
  <2>2. pos' = 0 /\ counted \in Nat /\ held = 0
    BY <1>0, <1>1, <2>1 DEF D!Requested, D!TypeOK, DumpInv, Archive
  <2>3. CASE j =< Len(buf)
    <3>1. D!EndOf(Ahead(j)) /\ j \in Places
      BY <1>2, <1>3, <2>1, <2>3
    <3>2. \/ Ahead(j) =< 2 * counted + 1
          \/ \E i \in 1..(j - 1) : D!EndOf(Ahead(i)) /\ Ahead(j) =< Ahead(i) + 2
      BY <1>1, <2>1, <3>1 DEF DumpInv, Counting
    <3>3. Ahead(j)' = Ahead(j) /\ \A i \in 1..(j - 1) : Ahead(i)' = Ahead(i)
      BY <1>2, <1>3, <2>3
    <3>4. QED
      BY <3>2, <3>3
  <2>4. CASE j > Len(buf)
    <3>1. Ahead(j)' = j - Len(buf) - 1
      BY <1>2, <1>3, <2>2, <2>4
    <3>2. CASE j - Len(buf) - 1 < 3
      <4>1. Ahead(j)' \in {0, 1, 2}
        <5>1. j \in Nat /\ Len(buf) \in Nat
          BY <1>2, <2>2
        <5>2. QED
          BY <2>4, <3>1, <3>2, <5>1
      <4>2. Ahead(j)' = 1
        BY <2>1, <4>1 DEF D!EndOf
      <4>3. QED
        BY <2>2, <4>2
    <3>3. CASE j - Len(buf) - 1 >= 3
      <4>1. j - 2 \in 1..(j - 1) /\ Ahead(j - 2)' = j - Len(buf) - 3
        BY <1>2, <1>3, <2>2, <3>3
      <4>2. D!EndOf(Ahead(j - 2)') /\ Ahead(j)' =< Ahead(j - 2)' + 2
        BY <1>2, <2>1, <3>1, <4>1 DEF D!EndOf
      <4>3. QED
        BY <4>1, <4>2
    <3>4. QED
      BY <1>2, <3>2, <3>3
  <2>5. QED
    BY <1>2, <2>3, <2>4
<1>7. QED
  BY <1>1, <1>4, <1>5, <1>6 DEF Placing

\* A stream that breaks off: what was not received in full will be sent again.
LEMMA BreakHolds ==
    ASSUME DumpInv, D!Break
    PROVE  Placing' /\ Later' /\ Counting'
<1>0. D!TypeOK /\ [D!Next]_dvars /\ format' = format
  BY DueBefore DEF DumpInv, D!Next
<1>1. /\ mode \in {"connecting", "receiving"} /\ mode' = "connecting"
      /\ UNCHANGED <<format, members, base, pos, counted, decoder, held, buf, latest, savedLatest>>
  BY DEF D!Break
<1>2. /\ Len(buf) \in Nat /\ D!Size \in Nat /\ pos \in Nat /\ pos =< D!Size /\ Records \in Nat /\ D!Size = 2 * Records
      /\ Places' = 1..Len(buf) /\ Places' \subseteq Places /\ held \in Nat
  BY <1>0, <1>1, Typed DEF Places, Coming, D!TypeOK, D!Size
<1>3. \A i \in Nat : Ahead(i)' = Ahead(i)
  BY <1>1 DEF Ahead, Coming
<1>4. ASSUME NEW r \in 1..Records, NEW p \in Places, Placed(r, p), p + Reach =< Len(buf)
      PROVE  Received(r)'
  <2>1. p \in Nat \ {0} /\ p \in Places'
    <3>1. p \in Nat \ {0}
      BY DEF Places
    <3>2. p =< Len(buf)
      BY <1>2, <1>4, <3>1 DEF Reach
    <3>3. QED
      BY <1>2, <3>1, <3>2
  <2>2. Placed(r, p)'
    <3>1. Placed(r, p + 0) /\ 0 % 2 = 0
      BY <1>4, <2>1
    <3>2. \A i \in 1..(p + Reach) : Ahead(i)' = Ahead(i + 0)
      BY <1>3 DEF Reach
    <3>3. QED
      BY <1>0, <2>1, <3>1, <3>2, PlacedMoves
  <2>3. p + Reach' =< Len(buf')
    BY <1>0, <1>1, <1>4 DEF Reach
  <2>4. QED
    BY <2>1, <2>2, <2>3 DEF Received
<1>5. ASSUME NEW r \in 1..Records, Due(r)' PROVE Received(r)' \/ SentAgain(r)'
  <2>0. r \in Nat /\ 1 =< r /\ r =< Records
    BY <1>2
  <2>1. Due(r)
    BY <1>0, <1>5, DueBefore
  <2>2. CASE mode = "connecting"
    <3>1. Received(r) \/ SentAgain(r)
      BY <2>1, <2>2 DEF DumpInv, Placing
    <3>2. SentAgain(r) => SentAgain(r)'
      BY <1>1 DEF SentAgain, D!Requested, D!Fresh
    <3>3. Received(r) => Received(r)'
      BY <1>4 DEF Received
    <3>4. QED
      BY <3>1, <3>2, <3>3
  <2>3. CASE mode = "receiving"
    <3>1. PICK p \in Places : Placed(r, p)
      BY <2>1, <2>3 DEF DumpInv, Placing, Streamed
    <3>2. p \in Nat \ {0}
      BY <3>1 DEF Places
    <3>3. CASE p + Reach =< Len(buf)
      BY <1>4, <3>1, <3>3
    <3>4. CASE format = "bz2"
      <4>1. doubtful' = doubtful \cup ((pos - held - 1)..D!Size)
        BY <2>3, <3>4 DEF D!Break, D!Doubt
      <4>2. 2 * r - 1 < pos - held - 1
        <5>1. 2 * r - 1 \notin (pos - held - 1)..D!Size
          BY <1>5, <4>1 DEF Due
        <5>2. QED
          BY <1>2, <2>0, <5>1
      <4>3. p + 1 =< Len(buf)
        BY <1>2, <2>0, <3>1, <3>2, <4>2 DEF Placed, Ahead, Coming
      <4>4. QED
        BY <1>4, <3>1, <3>4, <4>3 DEF Reach
    <3>5. CASE ~(p + Reach =< Len(buf)) /\ format # "bz2"
      <4>1. doubtful' = doubtful \cup (D!Requested..(D!Requested + 1))
        BY <2>3, <3>5 DEF D!Break, D!Doubt
      <4>2. D!Requested \in Nat
        BY <1>0 DEF D!TypeOK, D!Requested
      <4>3. 2 * r - 2 # D!Requested
        <5>1. D!Requested \in D!Requested..(D!Requested + 1)
          BY <4>2
        <5>2. 2 * r - 2 \notin doubtful'
          BY <1>5 DEF Due
        <5>3. QED
          BY <4>1, <5>1, <5>2
      <4>4. ASSUME NEW i \in 1..Len(buf) PROVE buf[i] =< 2 * r - 1
        <5>1. i < p + 2
          BY <1>2, <3>2, <3>5 DEF Reach
        <5>2. Ahead(i) =< 2 * r - 1
          <6>1. CASE i \in 1..(p - 1)
            BY <3>1, <6>1 DEF Placed
          <6>2. CASE i = p \/ i = p + 1
            BY <2>0, <3>1, <6>2 DEF Placed
          <6>3. QED
            BY <1>2, <3>2, <5>1, <6>1, <6>2
        <5>3. QED
          BY <1>2, <5>2 DEF Ahead
      <4>5. SentAgain(r)'
        BY <1>1, <3>5, <4>3, <4>4 DEF SentAgain, D!Requested
      <4>6. QED
        BY <4>5
    <3>6. QED
      BY <3>3, <3>4, <3>5
  <2>4. QED
    BY <1>1, <2>2, <2>3
<1>6. Later'
  BY <1>0, <1>1, LaterKept DEF DumpInv
<1>7. Counting'
  <2>1. SUFFICES ASSUME format = "snapshot", NEW j \in 1..Len(buf), D!EndOf(Ahead(j)')
                 PROVE  \/ Ahead(j)' =< 2 * counted + 1
                        \/ \E i \in 1..(j - 1) : D!EndOf(Ahead(i)') /\ Ahead(j)' =< Ahead(i)' + 2
    BY <1>1, <1>2 DEF Counting, D!EndOf
  <2>2. j \in Places /\ D!EndOf(Ahead(j))
    BY <1>2, <1>3, <2>1
  <2>3. \/ Ahead(j) =< 2 * counted + 1
        \/ \E i \in 1..(j - 1) : D!EndOf(Ahead(i)) /\ Ahead(j) =< Ahead(i) + 2
    BY <1>1, <2>1, <2>2 DEF DumpInv, Counting
  <2>4. Ahead(j)' = Ahead(j) /\ \A i \in 1..(j - 1) : Ahead(i)' = Ahead(i)
    BY <1>2, <1>3
  <2>5. QED
    BY <2>3, <2>4
<1>8. QED
  BY <1>1, <1>5, <1>6, <1>7 DEF Placing

\* A chunk is received: it was ahead.
LEMMA ReceiveHolds ==
    ASSUME DumpInv, D!Receive
    PROVE  Placing' /\ Later' /\ Counting'
<1>0. D!TypeOK /\ D!TypeOK' /\ [D!Next]_dvars /\ format' = format /\ members' = members
  BY DueBefore, DumpTyped DEF DumpInv, D!Next
<1>1. PICK n \in 1..Chunk :
          /\ pos + n =< D!Size
          /\ IF format = "bz2" THEN D!Decode(n)
             ELSE buf' = buf \o D!Units(pos, pos + n) /\ UNCHANGED <<decoder, held>>
          /\ pos' = pos + n
          /\ counted' = IF format \in {"lines", "warc", "bz2"} THEN counted + n ELSE counted
  BY DEF D!Receive
<1>2. /\ D!Size \in Nat /\ pos \in Nat /\ pos < D!Size /\ n \in Nat /\ n >= 1 /\ Len(buf) \in Nat
      /\ Records \in Nat /\ D!Size = 2 * Records
  BY <1>0, <1>1, DumpParameters, Typed DEF D!TypeOK, D!Size
<1>3. mode = "receiving" /\ mode' = "parsing" /\ UNCHANGED <<base, latest, savedLatest>>
  BY DEF D!Receive, D!history
<1>4. format # "bz2" =>
        /\ Len(buf') = Len(buf) + n /\ Places' = Places
        /\ \A i \in Nat \ {0} : Ahead(i)' = Ahead(i)
  <2>1. SUFFICES ASSUME format # "bz2"
                 PROVE  /\ Len(buf') = Len(buf) + n /\ Places' = Places
                        /\ \A i \in Nat \ {0} : Ahead(i)' = Ahead(i)
    OBVIOUS
  <2>2. Len(buf') = Len(buf) + n /\ \A i \in Nat \ {0} : Ahead(i)' = Ahead(i)
    <3>1. Coming = pos /\ Coming' = pos + n
      BY <1>1, <1>2, <2>1 DEF DumpInv, Archive, Coming
    <3>2. QED
      BY <1>0, <1>1, <1>2, <2>1, <3>1, Arrived
  <2>3. Places' = Places
    <3>1. Coming = pos /\ Coming' = pos + n
      BY <1>1, <1>2, <2>1 DEF DumpInv, Archive, Coming
    <3>2. Len(buf') + D!Size - Coming' = Len(buf) + D!Size - Coming
      BY <1>2, <2>2, <3>1
    <3>3. QED
      BY <1>3, <3>2 DEF Places, D!Size
  <2>4. QED
    BY <2>2, <2>3
<1>5. ASSUME NEW r \in 1..Records, Due(r)' PROVE Streamed(r)'
  <2>0. r \in Nat /\ 1 =< r /\ r =< Records
    BY <1>2
  <2>1. Due(r)
    BY <1>0, <1>5, DueBefore
  <2>2. PICK p \in Places : Placed(r, p) /\ (format = "bz2" => p + 1 =< Len(buf) \/ InStep)
    BY <1>3, <2>1 DEF DumpInv, Placing, Streamed
  <2>3. p \in Nat \ {0} /\ Placed(r, p + 0) /\ 0 % 2 = 0
    <3>1. p \in Nat \ {0} /\ p + 0 = p
      BY <2>2 DEF Places
    <3>2. QED
      BY <2>2, <3>1
  <2>4. CASE format # "bz2"
    <3>1. \A i \in 1..(p + Reach) : Ahead(i)' = Ahead(i + 0)
      BY <1>4, <2>4 DEF Reach
    <3>2. Placed(r, p)'
      BY <1>0, <2>3, <2>4, <3>1, PlacedMoves
    <3>3. QED
      BY <1>0, <1>4, <2>2, <2>4, <3>2 DEF Streamed
  <2>5. CASE format = "bz2"
    <3>1. /\ UpTo(n) \in Nat /\ UpTo(n) =< pos + n /\ UpTo(n) > pos
          /\ \/ \E k \in Nat : DecodedTo(n, k)
             \/ ~InPosition /\ buf' = buf
      BY <1>0, <1>1, <1>2, <2>5, Decodes
    <3>2. PICK h \in Nat : held' = h
      BY <1>0 DEF D!TypeOK
    <3>3. PICK c \in Int : c = pos + n - h
      BY <1>2
    <3>4. Coming' = c
      <4>1. PICK q \in Nat : q = pos + n
        BY <1>2
      <4>2. pos' = q
        BY <1>1, <4>1
      <4>3. PICK d \in Int : d = q - h
        OBVIOUS
      <4>4. c = d
        <5>1. pos \in Nat /\ n \in Nat
          BY <1>2
        <5>2. QED
          BY <3>3, <4>1, <4>3, <5>1
      <4>5. Coming' = q - h
        BY <3>2, <4>2 DEF Coming
      <4>6. QED
        BY <4>3, <4>4, <4>5
    <3>5. Places' = 1..(Len(buf') + D!Size - c)
      <4>1. D!Size' = D!Size
        BY DEF D!Size
      <4>2. QED
        BY <1>3, <3>4, <4>1 DEF Places
    <3>6. CASE \E k \in Nat : DecodedTo(n, k)
      <4>0. PICK k \in Nat : DecodedTo(n, k)
        BY <3>6
      <4>1. /\ Coming \in Nat /\ Coming + k =< UpTo(n) /\ held' = UpTo(n) - (Coming + k)
            /\ buf' = buf \o D!Units(Coming, Coming + k)
        BY <4>0 DEF DecodedTo
      <4>2. /\ Len(buf') = Len(buf) + k
            /\ \A i \in Nat \ {0} : i =< Len(buf) + k \/ Coming' = Coming + k => Ahead(i)' = Ahead(i)
        <5>1. Coming + k =< D!Size
          BY <1>1, <1>2, <3>1, <4>0, <4>1
        <5>2. QED
          BY <1>0, <4>0, <4>1, <5>1, Arrived
      <4>3. CASE p + 1 =< Len(buf)
        <5>1. \A i \in 1..(p + Reach) : Ahead(i)' = Ahead(i + 0)
          BY <1>2, <2>3, <2>5, <4>2, <4>3 DEF Reach
        <5>2. Placed(r, p)'
          BY <1>0, <2>3, <2>5, <5>1, PlacedMoves
        <5>3. p \in Places' /\ p + 1 =< Len(buf')
          BY <1>1, <1>2, <2>3, <3>3, <3>5, <4>2, <4>3
        <5>4. QED
          BY <5>2, <5>3 DEF Streamed
      <4>4. CASE ~(p + 1 =< Len(buf))
        <5>1. pos < D!MemberEnd(0) /\ D!MemberEnd(pos) = D!MemberEnd(0)
          BY <1>0, <1>2, <2>2, <2>5, <4>4, FirstMember DEF InStep, DumpInv, Archive
        <5>2. D!MemberEnd(pos) \in Nat /\ D!MemberEnd(0)' = D!MemberEnd(0)
          <6>1. D!MemberEnd(pos) \in Nat
            BY <1>0, <1>2, MemberEndLater
          <6>2. QED
            BY <1>0, <6>1 DEF D!MemberEnd, D!Size
        <5>3. CASE pos + n < D!MemberEnd(pos)
          <6>1. UpTo(n) = pos + n /\ UpTo(n) # D!MemberEnd(pos)
            BY <1>2, <5>2, <5>3 DEF UpTo
          <6>2. decoder' = pos' /\ Coming' = Coming + k
            BY <1>1, <1>2, <3>2, <3>3, <3>4, <4>0, <4>1, <6>1 DEF DecodedTo
          <6>3. InStep'
            BY <1>1, <5>1, <5>2, <5>3, <6>2 DEF InStep
          <6>4. \A i \in 1..(p + Reach) : Ahead(i)' = Ahead(i + 0)
            BY <4>2, <6>2 DEF Reach
          <6>5. Placed(r, p)'
            BY <1>0, <2>3, <2>5, <6>4, PlacedMoves
          <6>6. p \in Places'
            <7>1. Len(buf') + D!Size - Coming' = Len(buf) + D!Size - Coming
              BY <1>2, <3>4, <4>1, <4>2, <6>2
            <7>2. QED
              BY <1>3, <2>2, <3>4, <3>5, <7>1 DEF Places
          <6>7. QED
            BY <6>3, <6>5, <6>6 DEF Streamed
        <5>4. CASE ~(pos + n < D!MemberEnd(pos))
          <6>1. Coming + k = D!MemberEnd(0)
            <7>1. UpTo(n) = D!MemberEnd(0)
              BY <5>1, <5>4 DEF UpTo
            <7>2. held' = 0
              BY <4>0, <5>1, <7>1 DEF DecodedTo
            <7>3. QED
              <8>1. UpTo(n) \in Nat /\ Coming + k \in Nat /\ UpTo(n) - (Coming + k) = 0
                BY <3>1, <4>0, <4>1, <7>2
              <8>2. QED
                BY <7>1, <8>1
          <6>2. 2 * r - 1 < D!MemberEnd(0)
            <7>1. CASE members = {0}
              <8>1. D!MemberEnd(0) = D!Size
                BY <7>1 DEF D!MemberEnd
              <8>2. QED
                BY <1>2, <2>0, <8>1
            <7>2. CASE members # {0}
              <8>1. 2 * r - 1 \notin D!MemberEnd(0)..D!Size
                BY <2>1, <7>2 DEF Due, DumpInv, Archive
              <8>2. QED
                BY <1>2, <2>0, <5>1, <5>2, <8>1
            <7>3. QED
              BY <7>1, <7>2
          <6>3. 2 * r - 1 = Coming + (p + 1 - Len(buf)) - 1
            <7>1. Ahead(p + 1) = 2 * r - 1
              BY <2>2 DEF Placed
            <7>2. Ahead(p + 1) = Coming + (p + 1 - Len(buf)) - 1
              BY <1>2, <2>3, <4>4 DEF Ahead
            <7>3. QED
              BY <7>1, <7>2
          <6>4. p + 1 =< Len(buf) + k
            BY <1>2, <2>0, <2>3, <4>1, <5>1, <5>2, <6>1, <6>2, <6>3
          <6>5. \A i \in 1..(p + Reach) : Ahead(i)' = Ahead(i + 0)
            BY <1>2, <2>3, <2>5, <4>2, <6>4 DEF Reach
          <6>6. Placed(r, p)'
            BY <1>0, <2>3, <2>5, <6>5, PlacedMoves
          <6>7. p \in Places' /\ p + 1 =< Len(buf')
            BY <1>1, <1>2, <2>3, <3>3, <3>5, <4>2, <6>4
          <6>8. QED
            BY <6>6, <6>7 DEF Streamed
        <5>5. QED
          BY <5>3, <5>4
      <4>5. QED
        BY <4>3, <4>4
    <3>7. CASE ~InPosition /\ buf' = buf
      <4>0. p + 1 =< Len(buf)
        BY <2>2, <2>5, <3>7 DEF InStep, InPosition
      <4>1. \A i \in 1..(p + Reach) : Ahead(i)' = Ahead(i + 0)
        BY <1>2, <2>3, <2>5, <3>7, <4>0 DEF Reach, Ahead
      <4>2. Placed(r, p)'
        BY <1>0, <2>3, <2>5, <4>1, PlacedMoves
      <4>3. p \in Places'
        BY <1>1, <1>2, <2>3, <3>3, <3>5, <3>7, <4>0
      <4>4. QED
        BY <3>7, <4>0, <4>2, <4>3 DEF Streamed
    <3>8. QED
      BY <3>1, <3>6, <3>7
  <2>6. QED
    BY <2>4, <2>5
<1>6. Later'
  BY <1>0, <1>3, LaterKept DEF DumpInv
<1>7. Counting'
  <2>1. SUFFICES ASSUME format = "snapshot", NEW j \in Places', D!EndOf(Ahead(j)')
                 PROVE  \/ Ahead(j)' =< 2 * counted' + 1
                        \/ \E i \in 1..(j - 1) : D!EndOf(Ahead(i)') /\ Ahead(j)' =< Ahead(i)' + 2
    BY <1>0, <1>3 DEF Counting, D!EndOf
  <2>2. j \in Places /\ j \in Nat \ {0} /\ Ahead(j)' = Ahead(j) /\ counted' = counted
    <3>1. j \in Places /\ counted' = counted
      BY <1>1, <1>4, <2>1
    <3>2. j \in Nat \ {0}
      BY <3>1 DEF Places
    <3>3. QED
      BY <1>4, <2>1, <3>1, <3>2
  <2>3. \A i \in 1..(j - 1) : Ahead(i)' = Ahead(i)
    BY <1>4, <2>1, <2>2
  <2>4. \/ Ahead(j) =< 2 * counted + 1
        \/ \E i \in 1..(j - 1) : D!EndOf(Ahead(i)) /\ Ahead(j) =< Ahead(i) + 2
    BY <1>3, <2>1, <2>2 DEF DumpInv, Counting
  <2>5. QED
    BY <2>2, <2>3, <2>4
<1>8. QED
  BY <1>3, <1>5, <1>6, <1>7 DEF Placing

\* A line is behind as many ends as were counted: its number is that of its
\* record at least.
LEMMA LineNumber ==
    ASSUME D!TypeOK, Counting, mode = "parsing", D!Complete, format = "snapshot",
           NEW j \in Places, D!EndOf(Ahead(j)), \A i \in 1..(j - 1) : ~D!EndOf(Ahead(i))
    PROVE  Ahead(j) =< 2 * counted + 1
BY DEF Counting

\* A piece is cut off: the record itself, which is yielded, or one before it.
LEMMA ParseHolds ==
    ASSUME DumpInv, D!Parse
    PROVE  Placing' /\ Later' /\ Counting'
<1>0. D!TypeOK /\ D!TypeOK' /\ [D!Next]_dvars /\ format' = format /\ members' = members
  BY DueBefore, DumpTyped DEF DumpInv, D!Next
<1>1. /\ D!Complete /\ mode = "parsing" /\ mode' = "parsing" /\ pos' = pos
      /\ UNCHANGED <<base, decoder, held, savedLatest>>
      /\ counted' = IF format = "snapshot" THEN counted + 1 ELSE counted
  BY DEF D!Parse
<1>2. PICK x \in Nat, y \in Nat : x = D!Extent[1] /\ y = D!Extent[2]
  BY <1>0, <1>1, Piece, Typed
<1>3. /\ Len(buf) \in Nat /\ x \in 1..Len(buf) /\ y \in 1..Len(buf)
      /\ \A i \in 1..Len(buf) : Ahead(i) = buf[i]
      /\ format = "snapshot" => D!EndOf(Ahead(y)) /\ \A i \in 1..(y - 1) : ~D!EndOf(Ahead(i))
  <2>1. /\ x \in 1..Len(buf) /\ y \in 1..Len(buf) /\ Len(buf) \in Nat
        /\ format = "snapshot" => D!EndOf(buf[y]) /\ \A i \in 1..(y - 1) : ~D!EndOf(buf[i])
    BY <1>0, <1>1, <1>2, Piece, Typed
  <2>2. \A i \in 1..Len(buf) : Ahead(i) = buf[i]
    BY DEF Ahead
  <2>3. \A i \in 1..(y - 1) : i \in 1..Len(buf)
    BY <2>1
  <2>4. QED
    BY <2>1, <2>2, <2>3
<1>4. Len(buf') = Len(buf) - y /\ \A i \in Nat \ {0} : Ahead(i)' = Ahead(i + y)
  <2>1. buf' = SubSeq(buf, y + 1, Len(buf))
    BY <1>2 DEF D!Parse
  <2>2. QED
    BY <1>0, <1>1, <1>3, <2>1, CutOff DEF Coming
<1>5. /\ D!Size \in Nat /\ Coming \in Int /\ Coming =< D!Size /\ Records \in Nat /\ D!Size = 2 * Records
      /\ counted \in Nat
      /\ Places = 1..(Len(buf) + D!Size - Coming) /\ Places' = 1..(Len(buf) - y + D!Size - Coming)
  <2>1. D!Size \in Nat /\ Records \in Nat
    BY <1>0, Typed
  <2>2. pos \in 0..D!Size /\ held \in 0..D!Size /\ counted \in Nat
    BY <1>0 DEF D!TypeOK
  <2>3. D!Size = 2 * Records /\ D!Size' = D!Size
    BY DEF D!Size
  <2>4. Places = 1..(Len(buf) + D!Size - Coming)
    BY <1>1 DEF Places
  <2>5. Places' = 1..(Len(buf') + D!Size - Coming)
    BY <1>1, <2>3 DEF Places, Coming
  <2>6. Places' = 1..(Len(buf) - y + D!Size - Coming)
    BY <1>4, <2>5
  <2>7. Coming \in Int /\ Coming =< D!Size
    BY <2>1, <2>2 DEF Coming
  <2>8. QED
    BY <2>1, <2>2, <2>3, <2>4, <2>6, <2>7
<1> DEFINE piece == SubSeq(buf, x, y)
           w == D!RecordOf(piece[1])
<1>6. \/ D!Whole(piece) /\ yielded' = yielded \cup {w} /\ latest' = w
      \/ UNCHANGED <<yielded, latest>> /\ (~D!Whole(piece) \/ (format = "snapshot" /\ counted + 1 < base))
  BY <1>2 DEF D!Parse, D!Yield, D!Truncated, D!PassedOver
<1>7. D!Whole(piece) => /\ y = x + 1 /\ piece[1] = Ahead(x) /\ piece[1] = 2 * w - 2 /\ w \in 1..Records
  BY <1>0, <1>1, <1>2, <1>3, WholePiece
<1>8. ASSUME NEW r \in 1..Records, Due(r)'
      PROVE  Streamed(r)' /\ r > latest'
  <2>0. r \in Nat /\ 1 =< r /\ r =< Records
    BY <1>5
  <2>1. Due(r) /\ r \notin yielded' /\ r > latest /\ (format = "snapshot" => r >= base)
    BY <1>0, <1>8, DueBefore DEF DumpInv, Later, Due
  <2>2. PICK p \in Places : Placed(r, p) /\ (format = "bz2" => p + 1 =< Len(buf) \/ InStep)
    BY <1>1, <2>1 DEF DumpInv, Placing, Streamed
  <2>3. p \in Nat \ {0}
    BY <1>5, <2>2
  <2>4. y < p \/ (x = p /\ y = p + 1)
    BY <1>0, <1>1, <1>2, <2>2, <2>3, PieceBefore
  <2>5. format = "bz2" => y = 2
    BY <1>0, <1>1, <1>2, <2>2, <2>3, PieceBefore
  <2>6. ASSUME x = p, y = p + 1 PROVE FALSE
    <3>1. Ahead(x) = 2 * r - 2 /\ Ahead(y) = 2 * r - 1
      BY <2>2, <2>6 DEF Placed
    <3>2. Len(piece) = 2 /\ piece[1] = Ahead(x) /\ piece[2] = Ahead(y)
      <4>1. \A i \in x..y : buf[i] \in Nat
        BY <1>0, <1>3, Typed
      <4>2. Len(piece) = 2 /\ \A i \in 1..2 : piece[i] = buf[x + i - 1]
        BY <1>3, <2>6, <4>1, SubSeqProperties
      <4> HIDE DEF piece
      <4>3. piece[1] = buf[x + 1 - 1] /\ piece[2] = buf[x + 2 - 1]
        BY <4>2
      <4>4. x + 1 - 1 = x /\ x + 2 - 1 = y /\ x \in 1..Len(buf) /\ y \in 1..Len(buf)
        BY <1>3, <2>3, <2>6
      <4>5. QED
        BY <1>3, <4>2, <4>3, <4>4
    <3> HIDE DEF piece
    <3>3. D!Whole(piece) /\ D!RecordOf(piece[1]) = r
      BY <2>0, <3>1, <3>2 DEF D!Whole, D!HeadOf, D!RecordOf
    <3>4. format = "snapshot" => counted + 1 >= base
      <4>1. SUFFICES ASSUME format = "snapshot" PROVE counted + 1 >= base
        OBVIOUS
      <4>2. y \in Places
        BY <1>3, <1>5
      <4>3. Ahead(y) =< 2 * counted + 1
        BY <1>0, <1>1, <1>3, <4>1, <4>2, LineNumber DEF DumpInv
      <4>4. base \in Nat
        BY <1>0 DEF D!TypeOK
      <4>5. QED
        BY <1>5, <2>0, <2>1, <3>1, <4>1, <4>3, <4>4
    <3>5. yielded' = yielded \cup {r}
      <4>1. base \in Nat
        BY <1>0 DEF D!TypeOK
      <4>2. QED
        BY <1>5, <1>6, <3>3, <3>4, <4>1
    <3>6. QED
      BY <2>1, <3>5
  <2>7. y < p
    BY <2>4, <2>6
  <2>8. r > latest'
    <3>1. CASE D!Whole(piece) /\ yielded' = yielded \cup {w} /\ latest' = w
      <4>1. y = x + 1 /\ Ahead(x) = 2 * w - 2 /\ w \in 1..Records
        BY <1>7, <3>1
      <4>2. x \in 1..(p - 1)
        BY <1>3, <2>3, <2>7, <4>1
      <4>3. Ahead(x) =< 2 * r - 1
        BY <2>2, <4>2 DEF Placed
      <4>4. w # r
        BY <2>1, <3>1
      <4> HIDE DEF w
      <4>5. QED
        BY <1>5, <2>0, <3>1, <4>1, <4>3, <4>4
    <3>2. QED
      BY <1>6, <2>1, <3>1
  <2>9. PICK q \in Nat \ {0} : p = q + y
    BY <1>3, <2>3, <2>7
  <2>10. Placed(r, q)'
    <3>1. \A i \in 1..(q + Reach) : Ahead(i)' = Ahead(i + y)
      BY <1>4, <2>9 DEF Reach
    <3>2. Placed(r, q + y)
      BY <2>2, <2>9
    <3>3. format = "bz2" => y % 2 = 0
      BY <2>5
    <3>4. QED
      BY <1>0, <2>9, <3>1, <3>2, <3>3, PlacedMoves
  <2>11. q \in Places'
    BY <1>3, <1>5, <2>2, <2>9
  <2>12. format' = "bz2" => q + 1 =< Len(buf') \/ InStep'
    <3>1. InStep => InStep'
      BY <1>0, <1>1 DEF InStep, D!MemberEnd, D!Size, D!Fresh
    <3>2. p + 1 =< Len(buf) => q + 1 =< Len(buf')
      BY <1>3, <1>4, <2>9
    <3>3. QED
      BY <1>0, <2>2, <3>1, <3>2
  <2>13. QED
    BY <2>8, <2>10, <2>11, <2>12 DEF Streamed
<1>9. Later'
  <2>1. SUFFICES ASSUME NEW r \in 1..Records, Due(r)'
                 PROVE  /\ r > latest' /\ r > savedLatest'
                        /\ 2 * r - 2 >= D!Requested'
                        /\ format' = "snapshot" => r >= base'
    BY DEF Later
  <2>2. Due(r) /\ r > latest'
    BY <1>0, <1>8, <2>1, DueBefore
  <2>3. D!Requested' = D!Requested
    BY <1>0, <1>1 DEF D!Requested
  <2>4. QED
    BY <1>0, <1>1, <2>2, <2>3 DEF DumpInv, Later
<1>10. Counting'
  <2>1. SUFFICES ASSUME format = "snapshot", NEW j \in Places', D!EndOf(Ahead(j)')
                 PROVE  \/ Ahead(j)' =< 2 * counted' + 1
                        \/ \E i \in 1..(j - 1) : D!EndOf(Ahead(i)') /\ Ahead(j)' =< Ahead(i)' + 2
    BY <1>0, <1>1 DEF Counting, D!EndOf
  <2>2. j \in Nat \ {0} /\ j + y \in Places /\ y \in Places /\ counted' = counted + 1
    BY <1>1, <1>3, <1>5, <2>1
  <2>3. Ahead(j)' = Ahead(j + y) /\ D!EndOf(Ahead(j + y))
    BY <1>4, <2>1, <2>2
  <2>4. Ahead(j + y) \in Int /\ Ahead(y) \in Int
    BY <1>0, <1>3, <1>5, <2>2, Typed DEF Ahead
  <2>5. CASE Ahead(j + y) =< 2 * counted + 1
    BY <1>5, <2>2, <2>3, <2>4, <2>5
  <2>6. CASE \E i \in 1..(j + y - 1) : D!EndOf(Ahead(i)) /\ Ahead(j + y) =< Ahead(i) + 2
    <3>1. PICK i \in 1..(j + y - 1) : D!EndOf(Ahead(i)) /\ Ahead(j + y) =< Ahead(i) + 2
      BY <2>6
    <3>2. i >= y
      BY <1>3, <2>1, <2>2, <3>1
    <3>3. CASE i = y
      <4>1. Ahead(y) =< 2 * counted + 1
        BY <1>0, <1>1, <1>3, <2>1, <2>2, LineNumber DEF DumpInv
      <4>2. QED
        BY <1>5, <2>2, <2>3, <2>4, <3>1, <3>3, <4>1
    <3>4. CASE i > y
      <4>1. i - y \in 1..(j - 1) /\ i - y \in Nat \ {0} /\ i - y + y = i
        BY <1>3, <2>2, <3>1, <3>4
      <4>2. Ahead(i - y)' = Ahead(i)
        BY <1>4, <4>1
      <4>3. D!EndOf(Ahead(i - y)') /\ Ahead(j)' =< Ahead(i - y)' + 2
        BY <2>3, <3>1, <4>2
      <4>4. QED
        BY <4>1, <4>3
    <3>5. QED
      BY <1>3, <2>2, <3>1, <3>2, <3>3, <3>4
  <2>7. QED
    BY <1>1, <2>1, <2>2, <2>3, <2>5, <2>6 DEF DumpInv, Counting
<1>11. QED
  BY <1>1, <1>8, <1>9, <1>10 DEF Placing

\* The steps that neither receive nor cut off anything.
LEMMA RestHolds ==
    ASSUME DumpInv, D!GiveUp \/ D!Parsed \/ D!Finish \/ D!Save \/ D!Crash \/ UNCHANGED dvars
    PROVE  Placing' /\ Later' /\ Counting'
<1>0. D!TypeOK /\ [D!Next]_dvars /\ format' = format
  BY DueBefore DEF DumpInv, D!Next
<1>1. /\ UNCHANGED <<members, base, pos, decoder, held, buf, latest>> /\ savedLatest' \in {savedLatest, latest}
      /\ format = "snapshot" => counted' = counted
      /\ \/ mode' = mode
         \/ mode = "parsing" /\ mode' = "receiving"
         \/ mode' \in {"done", "failed", "down"}
  BY DEF D!GiveUp, D!Parsed, D!Finish, D!Save, D!Crash, dvars, D!history, D!conn
<1>2. Later'
  BY <1>0, <1>1, LaterKept DEF DumpInv
<1>3. /\ mode' \in {"connecting", "receiving", "parsing"} => Places' = Places
      /\ \A i : Ahead(i)' = Ahead(i)
  BY <1>1 DEF Places, Ahead, Coming, D!Size
<1>4. Counting'
  BY <1>0, <1>1, <1>3 DEF DumpInv, Counting, D!EndOf
<1>5. Placing'
  <2>1. SUFFICES ASSUME NEW r \in 1..Records, Due(r)'
                 PROVE  /\ mode' \in {"receiving", "parsing"} => Streamed(r)'
                        /\ mode' = "connecting" => Received(r)' \/ SentAgain(r)'
    BY DEF Placing
  <2>2. Due(r)
    BY <1>0, <2>1, DueBefore
  <2>3. ASSUME NEW p PROVE Placed(r, p) => Placed(r, p)'
    BY <1>0, <1>3 DEF Placed, D!HeadOf, D!EndOf, D!Size
  <2>4. InStep => InStep'
    BY <1>1 DEF InStep, D!MemberEnd, D!Size, D!Fresh
  <2>5. SentAgain(r) => SentAgain(r)'
    BY <1>0, <1>1 DEF SentAgain, D!Requested, D!Fresh
  <2>6. ASSUME mode' \in {"receiving", "parsing"} PROVE Streamed(r)'
    <3>1. Streamed(r)
      BY <1>1, <2>2, <2>6 DEF DumpInv, Placing
    <3>2. QED
      BY <1>0, <1>1, <1>3, <2>3, <2>4, <2>6, <3>1 DEF Streamed
  <2>7. ASSUME mode' = "connecting" PROVE Received(r)' \/ SentAgain(r)'
    <3>1. Received(r) \/ SentAgain(r)
      BY <1>1, <2>2, <2>7 DEF DumpInv, Placing
    <3>2. Received(r) => Received(r)'
      BY <1>0, <1>1, <1>3, <2>3, <2>7 DEF Received, Reach
    <3>3. QED
      BY <2>5, <3>1, <3>2
  <2>8. QED
    BY <2>6, <2>7
<1>6. QED
  BY <1>2, <1>4, <1>5

\* At the end of the dump whatever was ahead is in the buffer.
LEMMA FinishHolds == DumpInv /\ D!Finish => NoneDue'
<1> SUFFICES ASSUME DumpInv, D!Finish, NEW r \in 1..Records, Due(r)' PROVE FALSE
  BY DEF NoneDue
<1>0. D!TypeOK /\ [D!Next]_dvars
  BY DEF DumpInv, D!Next
<1>1. mode = "receiving" /\ pos >= D!Size
  BY DEF D!Finish
<1>2. Len(buf) \in Nat /\ D!Size = 2 * Records /\ Records \in Nat /\ pos \in Nat /\ D!Size \in Nat /\ pos = D!Size
  BY <1>0, <1>1, Typed DEF D!TypeOK, D!Size
<1>3. Due(r)
  BY <1>0, DueBefore
<1>4. PICK p \in Places : Placed(r, p) /\ (format = "bz2" => p + 1 =< Len(buf) \/ InStep)
  BY <1>1, <1>3 DEF DumpInv, Placing, Streamed
<1>5. p \in Nat \ {0} /\ (format # "bz2" => Coming = D!Size)
  BY <1>2 DEF Places, Coming, DumpInv, Archive
<1>6. ASSUME format # "bz2", NEW i \in Nat \ {0}, Ahead(i) < D!Size PROVE i =< Len(buf)
  BY <1>2, <1>5, <1>6 DEF Ahead
<1>7. p + 1 =< Len(buf)
  <2>1. CASE format # "bz2"
    BY <1>2, <1>4, <1>5, <1>6, <2>1 DEF Placed
  <2>2. CASE format = "bz2"
    <3>1. CASE D!Size > 0
      BY <1>0, <1>2, <1>4, <2>2, <3>1, MemberEndLater DEF InStep
    <3>2. QED
      BY <1>2, <3>1
  <2>3. QED
    BY <2>1, <2>2
<1>8. format = "warc" => p + 2 =< Len(buf)
  BY <1>4, <1>5, <1>6 DEF Placed
<1>9. D!Complete
  BY <1>0, <1>4, <1>5, <1>7, <1>8, Receivable DEF Reach
<1>10. QED
  BY <1>1, <1>9 DEF DumpInv, Parsing

LEMMA NoneDueHolds == DumpInv /\ [D!Next]_dvars => NoneDue'
<1> SUFFICES ASSUME DumpInv, [D!Next]_dvars PROVE NoneDue'
  OBVIOUS
<1>0. D!TypeOK
  BY DEF DumpInv
<1>1. CASE D!Finish
  BY <1>1, FinishHolds
<1>2. CASE D!GiveUp
  <2>1. SUFFICES ASSUME mode' = "done", NEW r \in 1..Records, Due(r)' PROVE FALSE
    BY DEF NoneDue
  <2>2. doubtful' = doubtful \cup (2 * latest..D!Size)
    BY <1>2, <2>1 DEF D!GiveUp, D!Doubt
  <2>3. r > latest /\ latest \in Nat
    BY <1>0, <2>1, DueBefore, DumpParameters DEF DumpInv, Later, D!TypeOK
  <2>4. 2 * r - 2 \in 2 * latest..D!Size
    BY <2>3, DumpParameters DEF D!Size
  <2>5. QED
    BY <2>1, <2>2, <2>4 DEF Due
<1>3. CASE ~D!Finish /\ ~D!GiveUp
  <2>1. mode' = "done" => mode = "done"
    BY <1>3 DEF D!Next, dvars, D!Start, D!Connect, D!Break, D!Receive, D!Parse, D!Parsed, D!Save, D!Crash, D!conn
  <2>2. QED
    BY <1>0, <2>1, DueBefore DEF DumpInv, NoneDue
<1>4. QED
  BY <1>1, <1>2, <1>3

LEMMA DumpInit == D!Init => DumpInv
<1> SUFFICES ASSUME D!Init PROVE DumpInv
  OBVIOUS
<1>1. D!TypeOK
  BY DumpInitTyped
<1>2. mode = "down" /\ base = 0 /\ latest = 0 /\ savedLatest = 0
  BY DEF D!Init
<1>3. Archive
  BY DEF D!Init, Archive
<1>4. Later
  BY <1>2, DumpParameters DEF Later, D!Requested
<1>5. QED
  BY <1>1, <1>2, <1>3, <1>4 DEF DumpInv, Placing, Counting, Parsing, NoneDue

LEMMA DumpStep == DumpInv /\ [D!Next]_D!vars => DumpInv'
<1> SUFFICES ASSUME DumpInv, [D!Next]_D!vars PROVE DumpInv'
  OBVIOUS
<1>1. [D!Next]_dvars
  BY DEF D!vars, D!conn, D!history, dvars
<1>2. D!TypeOK' /\ Archive' /\ Parsing' /\ NoneDue'
  BY <1>1, DumpTyped, ArchiveHolds, ParsingHolds, NoneDueHolds DEF DumpInv
<1>3. Placing' /\ Later' /\ Counting'
  BY <1>1, StartHolds, ConnectHolds, BreakHolds, ReceiveHolds, ParseHolds, RestHolds DEF D!Next
<1>4. QED
  BY <1>2, <1>3 DEF DumpInv

-----------------------------------------------------------------------------
\* The state of an extractor's stream, its buffer and its offsets is of its type
\* whatever breaks off and however often a process starts again.
THEOREM DumpTypeCorrect == D!Spec => []D!TypeOK
<1>1. DumpInv => D!TypeOK
  BY DEF DumpInv
<1>2. QED
  BY <1>1, DumpInit, DumpStep, PTL DEF D!Spec

\* _stream_url and the parsers above it: an extractor that is done with a dump
\* has yielded every record of it but those at a place where a stream broke off
\* or was resumed, the last of a WARC file and, of an archive, what the
\* decompressor held at a break and whatever follows the first break or the end
\* of the first member.
THEOREM NothingElseLost == D!Spec => []LossExplained
<1>1. DumpInv => LossExplained
  BY DEF DumpInv, NoneDue, Due, LossExplained, D!LossExplained
<1>2. QED
  BY <1>1, DumpInit, DumpStep, PTL DEF D!Spec

-----------------------------------------------------------------------------
\* What a writer writes, and what a stage other than the deduplicator may find
\* wrong with the text, the same whatever its raw form.
Texts == Raws \cup {"normal"}
Documents == [source : Sources, text : Texts, run : Nat, language : {"en", "fr", "zh"}, quality : Int]

Faulty(s) ==
    \/ "normalize" \in enabled /\ TooShort
    \/ "language_filter" \in enabled /\ Foreign(s)
    \/ "toxicity_filter" \in enabled /\ Toxic
    \/ "quality_scorer" \in enabled /\ LowQuality

ProcessingTyped ==
    /\ enabled \subseteq Range(Stages) /\ nature \in Natures /\ process \in Nat
    /\ seen \in [Sources -> SUBSET Texts]
    /\ shards \in [Sources -> Seq(Documents)]
    /\ directory \in Seq(Seq(Documents))
    /\ \A o \in offered : o[2] \in Sources

\* A document is as its source's pipeline makes it.
Made ==
    \A s \in Sources : \A i \in DOMAIN shards[s] :
        /\ shards[s][i].source = s /\ shards[s][i].run =< process
        /\ shards[s][i].language = Language(s) /\ shards[s][i].quality = Quality
        /\ "normalize" \in enabled => shards[s][i].text = "normal"

\* The deduplicator of the present run has seen what the run has written, and
\* nothing that is not written.
Remembered ==
    "deduplicator" \in enabled =>
        \A s \in Sources : \A i \in DOMAIN shards[s] :
            shards[s][i].run = process => shards[s][i].text \in seen[s]
Kept ==
    \A s \in Sources : \A t \in seen[s] : \E i \in DOMAIN shards[s] : shards[s][i].text = t

OncePerRun ==
    "deduplicator" \in enabled =>
        \A s \in Sources : \A i, j \in DOMAIN shards[s] :
            i # j /\ shards[s][i].run = shards[s][j].run => shards[s][i].text # shards[s][j].text

Answered ==
    \A o \in offered :
        Faulty(o[2]) \/ \E i \in DOMAIN shards[o[2]] : shards[o[2]][i].text = Text(o[3])

ProcessingInv ==
    /\ ProcessingTyped /\ Made /\ Remembered /\ Kept /\ OncePerRun /\ Answered
    /\ ExportExplained

-----------------------------------------------------------------------------
LEMMA NatureTyped ==
    ASSUME ProcessingTyped
    PROVE  /\ nature.quality \in 1..3 /\ nature.language \in {"en", "fr"} /\ nature.confidence \in {70, 90}
           /\ nature.script \in {"latin", "cjk", "other"}
<1>1. nature \in [short : BOOLEAN, script : {"latin", "cjk", "other"}, language : {"en", "fr"},
                  confidence : {70, 90}, toxic : BOOLEAN, quality : 1..3]
  BY ProcessingAssumption DEF ProcessingTyped
<1>2. QED
  BY <1>1

LEMMA StagePlaces ==
    /\ DOMAIN Stages = 1..5
    /\ Stages[1] = "normalize" /\ Stages[2] = "language_filter" /\ Stages[3] = "toxicity_filter"
    /\ Stages[4] = "quality_scorer" /\ Stages[5] = "deduplicator"
BY DEF Stages

\* What becomes of a document depends on the four stages and the deduplicator,
\* which is the last.
LEMMA Verdict ==
    ASSUME NEW s, NEW raw
    PROVE  /\ Rejecting(s, raw) = {} <=>
                ~Faulty(s) /\ ("deduplicator" \in enabled => ~Duplicate(s, raw))
           /\ "deduplicator" \in Reached(s, raw) <=> "deduplicator" \in enabled /\ ~Faulty(s)
<1>1. /\ 1 \in Rejecting(s, raw) <=> "normalize" \in enabled /\ TooShort
      /\ 2 \in Rejecting(s, raw) <=> "language_filter" \in enabled /\ Foreign(s)
      /\ 3 \in Rejecting(s, raw) <=> "toxicity_filter" \in enabled /\ Toxic
      /\ 4 \in Rejecting(s, raw) <=> "quality_scorer" \in enabled /\ LowQuality
      /\ 5 \in Rejecting(s, raw) <=> "deduplicator" \in enabled /\ Duplicate(s, raw)
  <2>1. /\ Rejects("normalize", s, raw) <=> TooShort
        /\ Rejects("language_filter", s, raw) <=> Foreign(s)
        /\ Rejects("toxicity_filter", s, raw) <=> Toxic
        /\ Rejects("quality_scorer", s, raw) <=> LowQuality
        /\ Rejects("deduplicator", s, raw) <=> Duplicate(s, raw)
    BY DEF Rejects
  <2>2. \A i \in 1..5 :
            i \in Rejecting(s, raw) <=> Stages[i] \in enabled /\ Rejects(Stages[i], s, raw)
    BY StagePlaces DEF Rejecting, Chain
  <2>3. QED
    BY <2>1, <2>2, StagePlaces
<1>2. \A i \in Rejecting(s, raw) : i \in {1, 2, 3, 4, 5}
  BY StagePlaces DEF Rejecting, Chain
<1>3. Rejecting(s, raw) = {} <=>
          ~Faulty(s) /\ ("deduplicator" \in enabled => ~Duplicate(s, raw))
  BY <1>1, <1>2 DEF Faulty
<1>4. "deduplicator" \in Reached(s, raw) <=>
          5 \in Chain /\ \A j \in Rejecting(s, raw) : 5 =< j
  BY StagePlaces DEF Reached, Chain
<1>5. (\A j \in Rejecting(s, raw) : 5 =< j) <=> ~Faulty(s)
  BY <1>1, <1>2 DEF Faulty
<1>6. QED
  BY <1>3, <1>4, <1>5, StagePlaces DEF Chain

-----------------------------------------------------------------------------
\* What a step of a pipeline leaves to the export.
LEMMA ExportStays ==
    ASSUME ExportExplained, UNCHANGED <<config, directory, manifest, covered>>
    PROVE  ExportExplained'
<1> USE DEF config
<1>1. Latest' = Latest /\ \A p : At(p)' = At(p)
  BY DEF Latest, At
<1>2. /\ \A raw : Text(raw)' = Text(raw)
      /\ \A s : Language(s)' = Language(s) /\ Wanted(s)' = Wanted(s)
  BY DEF Text, Language, Wanted, Undetected, Detected
<1>3. TwiceExplained => TwiceExplained'
  BY <1>1 DEF TwiceExplained
<1>4. AbsenceExplained => AbsenceExplained'
  BY <1>1, <1>2 DEF AbsenceExplained
<1>5. QED
  BY <1>3, <1>4 DEF ExportExplained

LEMMA ConfigStays ==
    ASSUME UNCHANGED config
    PROVE  /\ \A raw : Text(raw)' = Text(raw)
           /\ \A s : (Language(s)' = Language(s)) /\ (Faulty(s)' <=> Faulty(s))
           /\ Quality' = Quality
           /\ enabled' = enabled /\ nature' = nature
BY DEF config, Text, Language, Wanted, Undetected, Detected, Foreign, Faulty, TooShort, Toxic, LowQuality, Quality

LEMMA ProcessHolds ==
    ASSUME ProcessingInv, NEW s \in Sources, NEW raw \in Raws, Process(s, raw)
    PROVE  ProcessingInv'
<1> DEFINE d == [source |-> s, text |-> Text(raw), run |-> process,
                 language |-> Language(s), quality |-> Quality]
           accepted == Rejecting(s, raw) = {}
           N == Len(shards[s])
<1>0. /\ ProcessingTyped
      /\ UNCHANGED <<config, process, directory, manifest, covered>>
  BY DEF ProcessingInv, Process
<1>1. d \in Documents /\ Text(raw) \in Texts
  <2>1. Text(raw) \in Texts
    BY DEF Text, Texts
  <2>2. Quality \in Int
    BY <1>0, NatureTyped DEF Quality, Unscored, None
  <2>3. Language(s) \in {"en", "fr", "zh"}
    <3>1. Detected[1] \in {nature.language, "en", "zh"}
      BY DEF Detected
    <3>2. nature.language \in {"en", "fr"}
      BY <1>0, NatureTyped
    <3>3. QED
      BY <3>1, <3>2 DEF Language
  <2>4. QED
    BY <1>0, <2>1, <2>2, <2>3 DEF Documents, ProcessingTyped
<1>2. shards' = IF accepted THEN [shards EXCEPT ![s] = Append(@, d)] ELSE shards
  BY DEF Process
<1>3. seen' = IF "deduplicator" \in enabled /\ ~Faulty(s)
              THEN [seen EXCEPT ![s] = @ \cup {Text(raw)}] ELSE seen
  BY Verdict DEF Process
<1>4. accepted <=> ~Faulty(s) /\ ("deduplicator" \in enabled => Text(raw) \notin seen[s])
  BY Verdict DEF Duplicate
<1> HIDE DEF accepted
<1>5. /\ d.source = s /\ d.text = Text(raw) /\ d.run = process
      /\ d.language = Language(s) /\ d.quality = Quality
  OBVIOUS
<1> HIDE DEF d
<1>6. \A x \in Sources : DOMAIN shards[x] = 1..Len(shards[x]) /\ Len(shards[x]) \in Nat
  BY <1>0 DEF ProcessingTyped
<1>7. /\ Append(shards[s], d) \in Seq(Documents) /\ DOMAIN Append(shards[s], d) = 1..(N + 1)
      /\ \A i \in 1..N : Append(shards[s], d)[i] = shards[s][i]
      /\ Append(shards[s], d)[N + 1] = d
  <2>1. shards[s] \in Seq(Documents)
    BY <1>0 DEF ProcessingTyped
  <2>2. QED
    BY <1>1, <2>1, AppendProperties
<1>8. /\ shards' \in [Sources -> Seq(Documents)]
      /\ \A x \in Sources : shards'[x] = IF accepted /\ x = s THEN Append(shards[s], d) ELSE shards[x]
  BY <1>0, <1>2, <1>7 DEF ProcessingTyped
<1>9. \A x \in Sources : \A i \in DOMAIN shards[x] :
          i \in DOMAIN shards'[x] /\ shards'[x][i] = shards[x][i]
  <2>1. SUFFICES ASSUME NEW x \in Sources, NEW i \in DOMAIN shards[x]
                 PROVE  i \in DOMAIN shards'[x] /\ shards'[x][i] = shards[x][i]
    OBVIOUS
  <2>2. CASE accepted /\ x = s
    BY <1>6, <1>7, <1>8, <2>2
  <2>3. CASE ~(accepted /\ x = s)
    BY <1>8, <2>3
  <2>4. QED
    BY <2>2, <2>3
<1>10. \A x \in Sources : \A i \in DOMAIN shards'[x] :
          \/ i \in DOMAIN shards[x] /\ shards'[x][i] = shards[x][i]
          \/ accepted /\ x = s /\ i = N + 1 /\ shards'[x][i] = d
  BY <1>6, <1>7, <1>8
<1>11. accepted => N + 1 \in DOMAIN shards'[s] /\ shards'[s][N + 1] = d /\ N + 1 \notin DOMAIN shards[s]
  BY <1>6, <1>7, <1>8
<1>12. /\ seen' \in [Sources -> SUBSET Texts]
       /\ \A x \in Sources : seen[x] \subseteq seen'[x]
       /\ \A x \in Sources : \A t \in seen'[x] :
              t \in seen[x] \/ (x = s /\ t = Text(raw) /\ ~Faulty(s) /\ "deduplicator" \in enabled)
       /\ accepted /\ "deduplicator" \in enabled => Text(raw) \in seen'[s]
  BY <1>0, <1>1, <1>3, <1>4 DEF ProcessingTyped
<1>13. offered' = offered \cup {<<Cardinality(offered) + 1, s, raw>>}
  BY DEF Process
<1>14. ProcessingTyped'
  BY <1>0, <1>8, <1>12, <1>13 DEF ProcessingTyped, config
<1>15. Made'
  <2>1. SUFFICES ASSUME NEW x \in Sources, NEW i \in DOMAIN shards'[x]
                 PROVE  /\ shards'[x][i].source = x /\ shards'[x][i].run =< process
                        /\ shards'[x][i].language = Language(x) /\ shards'[x][i].quality = Quality
                        /\ "normalize" \in enabled => shards'[x][i].text = "normal"
    BY <1>0, ConfigStays DEF Made
  <2>2. CASE i \in DOMAIN shards[x] /\ shards'[x][i] = shards[x][i]
    BY <2>2 DEF ProcessingInv, Made
  <2>3. CASE accepted /\ x = s /\ i = N + 1 /\ shards'[x][i] = d
    <3>1. "normalize" \in enabled => Text(raw) = "normal"
      BY DEF Text
    <3>2. QED
      BY <1>0, <1>5, <2>3, <3>1 DEF ProcessingTyped
  <2>4. QED
    BY <1>10, <2>2, <2>3
<1>16. Remembered'
  <2>1. SUFFICES ASSUME "deduplicator" \in enabled,
                        NEW x \in Sources, NEW i \in DOMAIN shards'[x], shards'[x][i].run = process
                 PROVE  shards'[x][i].text \in seen'[x]
    BY <1>0, ConfigStays DEF Remembered
  <2>2. QED
    BY <1>5, <1>10, <1>12, <2>1 DEF ProcessingInv, Remembered
<1>17. Kept'
  <2>1. SUFFICES ASSUME NEW x \in Sources, NEW t \in seen'[x]
                 PROVE  \E i \in DOMAIN shards'[x] : shards'[x][i].text = t
    BY DEF Kept
  <2>2. CASE t \in seen[x]
    BY <1>9, <2>2 DEF ProcessingInv, Kept
  <2>3. CASE t \notin seen[x]
    BY <1>4, <1>5, <1>11, <1>12, <2>3
  <2>4. QED
    BY <2>2, <2>3
<1>18. OncePerRun'
  <2>1. SUFFICES ASSUME "deduplicator" \in enabled, NEW x \in Sources,
                        NEW i \in DOMAIN shards'[x], NEW j \in DOMAIN shards'[x],
                        i # j, shards'[x][i].run = shards'[x][j].run
                 PROVE  shards'[x][i].text # shards'[x][j].text
    BY <1>0, ConfigStays DEF OncePerRun
  <2>2. CASE i \in DOMAIN shards[x] /\ j \in DOMAIN shards[x]
    BY <1>9, <2>1, <2>2 DEF ProcessingInv, OncePerRun
  <2>3. accepted => \A k \in DOMAIN shards[s] :
            shards[s][k].run = process => shards[s][k].text # Text(raw)
    BY <1>4, <2>1 DEF ProcessingInv, Remembered
  <2>4. QED
    BY <1>5, <1>10, <2>1, <2>2, <2>3
<1>19. Answered'
  <2>1. SUFFICES ASSUME NEW o \in offered', ~Faulty(o[2])
                 PROVE  \E i \in DOMAIN shards'[o[2]] : shards'[o[2]][i].text = Text(o[3])
    BY <1>0, ConfigStays DEF Answered
  <2>2. CASE o \in offered
    BY <1>0, <1>9, <2>1, <2>2 DEF ProcessingInv, Answered, ProcessingTyped
  <2>3. CASE o = <<Cardinality(offered) + 1, s, raw>>
    <3>1. o[2] = s /\ o[3] = raw
      BY <2>3
    <3>2. CASE accepted
      BY <1>5, <1>11, <3>1, <3>2
    <3>3. CASE ~accepted
      BY <1>4, <1>9, <2>1, <3>1, <3>3 DEF ProcessingInv, Kept
    <3>4. QED
      BY <3>2, <3>3
  <2>4. QED
    BY <1>13, <2>2, <2>3
<1>20. ExportExplained'
  BY <1>0, ExportStays DEF ProcessingInv
<1>21. QED
  BY <1>14, <1>15, <1>16, <1>17, <1>18, <1>19, <1>20 DEF ProcessingInv

LEMMA RestartHolds == ProcessingInv /\ Restart => ProcessingInv'
<1> SUFFICES ASSUME ProcessingInv, Restart PROVE ProcessingInv'
  OBVIOUS
<1>1. /\ process \in Nat /\ process' = process + 1 /\ seen' = [s \in Sources |-> {}]
      /\ UNCHANGED <<config, shards, directory, manifest, offered, covered>>
  BY DEF Restart, ProcessingInv, ProcessingTyped
<1>2. ProcessingTyped' /\ Kept'
  BY <1>1 DEF ProcessingInv, ProcessingTyped, Kept, config
<1>3. \A s \in Sources : \A i \in DOMAIN shards[s] : shards[s][i].run \in Nat
  <2>1. SUFFICES ASSUME NEW s \in Sources, NEW i \in DOMAIN shards[s]
                 PROVE  shards[s][i].run \in Nat
    OBVIOUS
  <2>2. shards[s] \in Seq(Documents)
    BY DEF ProcessingInv, ProcessingTyped
  <2>3. shards[s][i] \in Documents
    BY <2>2
  <2>4. QED
    BY <2>3 DEF Documents
<1>4. Made' /\ Remembered'
  BY <1>1, <1>3, ConfigStays DEF ProcessingInv, Made, Remembered
<1>5. OncePerRun' /\ Answered'
  BY <1>1, ConfigStays DEF ProcessingInv, OncePerRun, Answered
<1>6. ExportExplained'
  BY <1>1, ExportStays DEF ProcessingInv
<1>7. QED
  BY <1>2, <1>4, <1>5, <1>6 DEF ProcessingInv

-----------------------------------------------------------------------------
LEMMA Ordered ==
    ASSUME NEW S, IsFiniteSet(S)
    PROVE  /\ Cardinality(S) \in Nat /\ SetToSeq(S) \in Seq(S)
           /\ DOMAIN SetToSeq(S) = 1..Cardinality(S)
           /\ \A i \in DOMAIN SetToSeq(S) : SetToSeq(S)[i] \in S
           /\ \A i, j \in DOMAIN SetToSeq(S) : SetToSeq(S)[i] = SetToSeq(S)[j] => i = j
           /\ \A p \in S : \E i \in DOMAIN SetToSeq(S) : SetToSeq(S)[i] = p
<1> DEFINE n == Cardinality(S)
           f == SetToSeq(S)
<1>1. n \in Nat /\ ExistsBijection(1..n, S)
  BY FS_CardinalityType
<1>2. \E g \in [1..n -> S] : IsInjective(g)
  BY <1>1 DEF ExistsBijection, Bijection, Injection
<1>3. f \in [1..n -> S] /\ IsInjective(f)
  BY <1>2 DEF SetToSeq
<1>4. IsFiniteSet(1..n) /\ Cardinality(1..n) = n
  BY <1>1, FS_Interval
<1> HIDE DEF f
<1>5. f \in Injection(1..n, S)
  BY <1>3 DEF Injection
<1>6. f \in Surjection(1..n, S)
  BY <1>4, <1>5, FS_Injection
<1>7. \A p \in S : \E i \in 1..n : f[i] = p
  BY <1>6 DEF Surjection
<1>8. f \in Seq(S)
  BY <1>1, <1>3
<1>9. \A i, j \in DOMAIN f : f[i] = f[j] => i = j
  BY <1>3 DEF IsInjective
<1>10. QED
  BY <1>1, <1>3, <1>7, <1>8, <1>9 DEF f

\* Quotients, remainders and multiples.
LEMMA Quotient ==
    ASSUME NEW w \in Nat \ {0}, NEW x \in Nat
    PROVE  \E q \in Nat, r \in 0..(w - 1) : q = x \div w /\ x = q * w + r
<1>1. x \div w \in Nat /\ x % w \in 0..(w - 1) /\ x = (x \div w) * w + (x % w)
  OBVIOUS
<1>2. QED
  BY <1>1

LEMMA Multiples ==
    ASSUME NEW w \in Nat, NEW a \in Nat, NEW b \in Nat, a < b
    PROVE  a * w \in Nat /\ b * w \in Nat /\ a * w + w =< b * w
<1>1. a * w \in Nat /\ b * w \in Nat /\ (a + 1) * w =< b * w
  OBVIOUS
<1>2. QED
  BY <1>1

\* The shards of an export hold every document once: of each place in them,
\* which document it is.
Number(i, j) == (i - 1) * ShardDocs + j

LEMMA Shards ==
    ASSUME NEW X, NEW docs \in Seq(X)
    PROVE  /\ Cut(docs) \in Seq(Seq(X))
           /\ \A i \in DOMAIN Cut(docs) : \A j \in DOMAIN Cut(docs)[i] :
                  /\ i \in Nat \ {0} /\ j \in 1..ShardDocs
                  /\ Number(i, j) \in DOMAIN docs /\ Cut(docs)[i][j] = docs[Number(i, j)]
           /\ \A x \in DOMAIN docs : \E i \in DOMAIN Cut(docs) : \E j \in DOMAIN Cut(docs)[i] :
                  x = Number(i, j)
<1> DEFINE W == ShardDocs
           n == Len(docs)
           shard(i) == SubSeq(docs, (i - 1) * W + 1, IF i * W < n THEN i * W ELSE n)
<1>1. W \in Nat \ {0} /\ n \in Nat /\ DOMAIN docs = 1..n /\ n + W - 1 \in Nat
  BY ProcessingAssumption
<1>2. PICK k \in Nat, rest \in 0..(W - 1) : k = (n + W - 1) \div W /\ n + W - 1 = k * W + rest
  BY <1>1, Quotient
<1>3. Cut(docs) = [i \in 1..k |-> shard(i)]
  BY <1>2 DEF Cut
<1> HIDE DEF W, n
<1>4. k * W \in Nat /\ n =< k * W /\ (k * W) - W < n
  BY <1>1, <1>2
<1>5. ASSUME NEW i \in 1..k
      PROVE  /\ shard(i) \in Seq(X)
             /\ \A j \in DOMAIN shard(i) :
                   /\ j \in 1..W /\ (i - 1) * W + j \in 1..n
                   /\ shard(i)[j] = docs[(i - 1) * W + j]
             /\ \A j \in 1..W : (i - 1) * W + j =< n => j \in DOMAIN shard(i)
  <2>1. PICK a \in Nat, b \in Nat : a = (i - 1) * W /\ b = i * W /\ b = a + W /\ a < n
    <3>1. i \in Nat /\ i - 1 \in Nat /\ i - 1 < i /\ i =< k
      BY <1>2
    <3>2. (i - 1) * W \in Nat /\ i * W \in Nat /\ i * W = (i - 1) * W + W
      BY <1>1, <3>1
    <3>3. i < k => i * W + W =< k * W
      BY <1>1, <1>2, <3>1, Multiples
    <3>4. (i - 1) * W < n
      BY <1>1, <1>2, <1>4, <3>1, <3>2, <3>3
    <3>5. QED
      BY <3>2, <3>4
  <2>2. PICK e \in Nat : e = IF b < n THEN b ELSE n
    BY <1>1
  <2>3. e =< n /\ e =< a + W /\ a < e
    BY <1>1, <2>1, <2>2
  <2>4. shard(i) = SubSeq(docs, a + 1, e)
    BY <2>1, <2>2
  <2> HIDE DEF shard
  <2>5. \A j \in (a + 1)..e : docs[j] \in X
    BY <1>1, <2>3
  <2>6. /\ shard(i) \in Seq(X) /\ Len(shard(i)) = IF a + 1 =< e THEN e - (a + 1) + 1 ELSE 0
        /\ \A j \in 1..(e - (a + 1) + 1) : shard(i)[j] = docs[a + 1 + j - 1]
    BY <2>4, <2>5, SubSeqProperties
  <2>7. DOMAIN shard(i) = 1..(e - a) /\ \A j \in 1..(e - a) : shard(i)[j] = docs[a + j]
    BY <2>3, <2>6
  <2>8. \A j \in 1..(e - a) : j \in 1..W /\ a + j \in 1..n
    BY <1>1, <2>3
  <2>9. \A j \in 1..W : a + j =< n => j \in 1..(e - a)
    BY <1>1, <2>1, <2>2
  <2>10. QED
    BY <2>1, <2>6, <2>7, <2>8, <2>9
<1>6. ASSUME NEW x \in 1..n
      PROVE  \E i \in 1..k, j \in 1..W : x = (i - 1) * W + j
  <2>1. PICK q \in Nat, r \in 0..(W - 1) : x - 1 = q * W + r
    <3>1. x - 1 \in Nat
      BY <1>1
    <3>2. QED
      BY <1>1, <3>1, Quotient
  <2>2. q < k
    <3>1. CASE q = k
      BY <1>1, <1>4, <2>1, <3>1
    <3>2. CASE k < q
      <4>1. k * W + W =< q * W /\ q * W \in Nat
        BY <1>1, <1>2, <3>2, Multiples
      <4>2. QED
        BY <1>1, <1>4, <2>1, <4>1
    <3>3. QED
      BY <1>2, <3>1, <3>2
  <2>3. q + 1 \in 1..k /\ r + 1 \in 1..W /\ q + 1 - 1 = q
    BY <1>1, <1>2, <2>2
  <2>4. x = q * W + (r + 1)
    <3>1. q * W \in Nat
      BY <1>1
    <3>2. QED
      BY <1>1, <2>1, <3>1
  <2>5. PICK i \in 1..k, j \in 1..W : i - 1 = q /\ j = r + 1
    BY <2>3
  <2>6. QED
    BY <2>4, <2>5
<1> HIDE DEF shard
<1>7. DOMAIN Cut(docs) = 1..k /\ \A i \in 1..k : Cut(docs)[i] = shard(i)
  BY <1>3
<1>8. Cut(docs) \in Seq(Seq(X))
  BY <1>2, <1>3, <1>5
<1>9. ASSUME NEW i \in DOMAIN Cut(docs), NEW j \in DOMAIN Cut(docs)[i]
      PROVE  /\ i \in Nat \ {0} /\ j \in 1..ShardDocs
             /\ Number(i, j) \in DOMAIN docs /\ Cut(docs)[i][j] = docs[Number(i, j)]
  BY <1>1, <1>2, <1>5, <1>7 DEF Number, W
<1>10. ASSUME NEW x \in DOMAIN docs
       PROVE  \E i \in DOMAIN Cut(docs) : \E j \in DOMAIN Cut(docs)[i] : x = Number(i, j)
  <2>1. PICK i \in 1..k, j \in 1..W : x = (i - 1) * W + j
    BY <1>1, <1>6
  <2>2. x =< n
    BY <1>1
  <2>3. j \in DOMAIN Cut(docs)[i]
    BY <1>5, <1>7, <2>1, <2>2
  <2>4. QED
    BY <1>7, <2>1, <2>3 DEF Number, W
<1>11. QED
  BY <1>8, <1>9, <1>10

\* No two places have the same number.
LEMMA NumberOnce ==
    ASSUME NEW a \in Nat \ {0}, NEW b \in Nat \ {0}, NEW c \in 1..ShardDocs, NEW d \in 1..ShardDocs,
           Number(a, c) = Number(b, d)
    PROVE  a = b /\ c = d
<1>1. ShardDocs \in Nat \ {0} /\ a - 1 \in Nat /\ b - 1 \in Nat
  BY ProcessingAssumption
<1>2. PICK x \in Nat, y \in Nat : x = (a - 1) * ShardDocs /\ y = (b - 1) * ShardDocs
  BY <1>1
<1>3. x + c = y + d
  BY <1>2 DEF Number
<1>4. a - 1 < b - 1 => x + ShardDocs =< y
  BY <1>1, <1>2, Multiples
<1>5. b - 1 < a - 1 => y + ShardDocs =< x
  BY <1>1, <1>2, Multiples
<1>6. a = b
  BY <1>1, <1>3, <1>4, <1>5
<1>7. QED
  BY <1>2, <1>3, <1>6

-----------------------------------------------------------------------------
LEMMA ExportedPlaces ==
    ASSUME ProcessingTyped, NEW languages, NEW minQuality
    PROVE  /\ IsFiniteSet(Exported(languages, minQuality))
           /\ \A p \in Exported(languages, minQuality) :
                  /\ p[1] \in Sources /\ p[2] \in DOMAIN shards[p[1]] /\ p = <<p[1], p[2]>>
                  /\ Passes(shards[p[1]][p[2]], languages, minQuality)
           /\ \A s \in Sources : \A i \in DOMAIN shards[s] :
                  Passes(shards[s][i], languages, minQuality) =>
                      <<s, i>> \in Exported(languages, minQuality)
<1> DEFINE all == {{s} \X DOMAIN shards[s] : s \in Sources}
           f == [s \in Sources |-> {s} \X DOMAIN shards[s]]
<1>1. f \in Surjection(Sources, all)
  BY DEF Surjection
<1>2. IsFiniteSet(all)
  BY <1>1, FS_Surjection, ProcessingAssumption
<1>3. ASSUME NEW s \in Sources PROVE IsFiniteSet({s} \X DOMAIN shards[s])
  <2>1. DOMAIN shards[s] = 1..Len(shards[s]) /\ Len(shards[s]) \in Nat
    BY DEF ProcessingTyped
  <2>2. IsFiniteSet(1..Len(shards[s]))
    BY <2>1, FS_Interval
  <2>3. IsFiniteSet({s})
    BY FS_Singleton
  <2>4. QED
    BY <2>1, <2>2, <2>3, FS_Product
<1>4. IsFiniteSet(UNION all)
  BY <1>2, <1>3, FS_UNION
<1>5. Exported(languages, minQuality) \subseteq UNION all
  BY DEF Exported
<1>6. IsFiniteSet(Exported(languages, minQuality))
  BY <1>4, <1>5, FS_Subset
<1>7. ASSUME NEW p \in Exported(languages, minQuality)
      PROVE  /\ p[1] \in Sources /\ p[2] \in DOMAIN shards[p[1]] /\ p = <<p[1], p[2]>>
             /\ Passes(shards[p[1]][p[2]], languages, minQuality)
  BY DEF Exported
<1>8. ASSUME NEW s \in Sources, NEW i \in DOMAIN shards[s], Passes(shards[s][i], languages, minQuality)
      PROVE  <<s, i>> \in Exported(languages, minQuality)
  BY <1>8 DEF Exported
<1>9. QED
  BY <1>6, <1>7, <1>8

\* The training set after an export: its places and those it takes correspond.
Origin(order, p) == order[Number(p[1], p[2])]

TakenFrom(order, taken) ==
    /\ \A p \in Latest' : /\ Origin(order, p) \in taken
                          /\ At(p)' = shards[Origin(order, p)[1]][Origin(order, p)[2]]
    /\ \A p, q \in Latest' : Origin(order, p) = Origin(order, q) => p = q
    /\ \A e \in taken : \E p \in Latest' : Origin(order, p) = e

LEMMA TrainingSet ==
    ASSUME ProcessingTyped, NEW languages, NEW minQuality, Export(languages, minQuality)
    PROVE  /\ directory' \in Seq(Seq(Documents))
           /\ \E order : TakenFrom(order, Exported(languages, minQuality))
<1> DEFINE E == Exported(languages, minQuality)
           order == SetToSeq(E)
           docs == [i \in DOMAIN order |-> shards[order[i][1]][order[i][2]]]
           written == Cut(docs)
<1>1. /\ directory' = written \o SubSeq(directory, Len(written) + 1, Len(directory))
      /\ manifest'.shards = Len(written)
  BY DEF Export
<1>2. /\ Cardinality(E) \in Nat /\ DOMAIN order = 1..Cardinality(E)
      /\ \A i \in DOMAIN order : order[i] \in E
      /\ \A i, j \in DOMAIN order : order[i] = order[j] => i = j
      /\ \A p \in E : \E i \in DOMAIN order : order[i] = p
  BY ExportedPlaces, Ordered
<1>3. \A p \in E : shards[p[1]][p[2]] \in Documents
  <2>1. SUFFICES ASSUME NEW p \in E PROVE shards[p[1]][p[2]] \in Documents
    OBVIOUS
  <2>2. p[1] \in Sources /\ p[2] \in DOMAIN shards[p[1]]
    BY ExportedPlaces
  <2>3. shards[p[1]] \in Seq(Documents)
    BY <2>2 DEF ProcessingTyped
  <2>4. QED
    BY <2>2, <2>3
<1> HIDE DEF E, order
<1>4. docs \in Seq(Documents) /\ DOMAIN docs = DOMAIN order
  BY <1>2, <1>3
<1>5. \A x \in DOMAIN docs : docs[x] = shards[order[x][1]][order[x][2]]
  OBVIOUS
<1> HIDE DEF docs
<1>6. /\ written \in Seq(Seq(Documents))
      /\ \A i \in DOMAIN written : \A j \in DOMAIN written[i] :
             /\ i \in Nat \ {0} /\ j \in 1..ShardDocs
             /\ Number(i, j) \in DOMAIN docs /\ written[i][j] = docs[Number(i, j)]
      /\ \A x \in DOMAIN docs : \E i \in DOMAIN written : \E j \in DOMAIN written[i] : x = Number(i, j)
  BY <1>4, Shards
<1> HIDE DEF written
<1>7. DOMAIN written = 1..Len(written) /\ Len(written) \in Nat
  BY <1>6
<1>8. /\ directory' \in Seq(Seq(Documents))
      /\ \A i \in 1..Len(written) : directory'[i] = written[i]
  <2>1. directory \in Seq(Seq(Documents))
    BY DEF ProcessingTyped
  <2>2. \A i \in (Len(written) + 1)..Len(directory) : directory[i] \in Seq(Documents)
    BY <1>7, <2>1
  <2>3. SubSeq(directory, Len(written) + 1, Len(directory)) \in Seq(Seq(Documents))
    BY <1>7, <2>1, <2>2, SubSeqProperties
  <2>4. /\ directory' \in Seq(Seq(Documents))
        /\ \A i \in 1..(Len(written) + Len(SubSeq(directory, Len(written) + 1, Len(directory)))) :
               i =< Len(written) => directory'[i] = written[i]
    BY <1>1, <1>6, <2>3, ConcatProperties
  <2>5. QED
    BY <1>7, <2>3, <2>4
<1>9. \A p : p \in Latest' <=>
          \E i \in DOMAIN written : \E j \in DOMAIN written[i] : p = <<i, j>>
  BY <1>1, <1>7, <1>8 DEF Latest
<1>10. ASSUME NEW p \in Latest'
       PROVE  /\ p = <<p[1], p[2]>> /\ p[1] \in DOMAIN written /\ p[2] \in DOMAIN written[p[1]]
              /\ At(p)' = written[p[1]][p[2]]
  <2>1. PICK i \in DOMAIN written : \E j \in DOMAIN written[i] : p = <<i, j>>
    BY <1>9
  <2>2. PICK j \in DOMAIN written[i] : p = <<i, j>>
    BY <2>1
  <2>3. p[1] = i /\ p[2] = j
    BY <2>2
  <2>4. At(p)' = directory'[i][j]
    BY <2>3 DEF At
  <2>5. QED
    BY <1>7, <1>8, <2>2, <2>3, <2>4
<1>11. ASSUME NEW p \in Latest'
       PROVE  /\ Origin(order, p) \in E
              /\ At(p)' = shards[Origin(order, p)[1]][Origin(order, p)[2]]
  BY <1>2, <1>4, <1>5, <1>6, <1>10 DEF Origin
<1>12. ASSUME NEW p \in Latest', NEW q \in Latest', Origin(order, p) = Origin(order, q)
       PROVE  p = q
  <2>1. Number(p[1], p[2]) = Number(q[1], q[2])
    BY <1>2, <1>4, <1>6, <1>10, <1>12 DEF Origin
  <2>2. p[1] = q[1] /\ p[2] = q[2]
    BY <1>6, <1>10, <2>1, NumberOnce
  <2>3. QED
    BY <1>10, <2>2
<1>13. ASSUME NEW e \in E PROVE \E p \in Latest' : Origin(order, p) = e
  <2>1. PICK x \in DOMAIN docs : order[x] = e
    BY <1>2, <1>4
  <2>2. PICK i \in DOMAIN written : \E j \in DOMAIN written[i] : x = Number(i, j)
    BY <1>6
  <2>3. PICK j \in DOMAIN written[i] : x = Number(i, j)
    BY <2>2
  <2>4. <<i, j>> \in Latest'
    BY <1>9
  <2>5. Origin(order, <<i, j>>) = e
    BY <2>1, <2>3 DEF Origin
  <2>6. QED
    BY <2>4, <2>5
<1>14. TakenFrom(order, E)
  BY <1>11, <1>12, <1>13 DEF TakenFrom
<1>15. QED
  BY <1>8, <1>14 DEF E

LEMMA ExportHolds ==
    ASSUME ProcessingInv, NEW languages, NEW minQuality \in Nat, Export(languages, minQuality)
    PROVE  ProcessingInv'
<1> DEFINE E == Exported(languages, minQuality)
<1>1. /\ ProcessingTyped
      /\ UNCHANGED <<config, process, seen, shards, offered>>
      /\ covered' = offered /\ manifest'.languages = languages /\ manifest'.minQuality = minQuality
  BY DEF ProcessingInv, Export
<1>2. directory' \in Seq(Seq(Documents)) /\ \E order : TakenFrom(order, E)
  BY <1>1, TrainingSet
<1>3. \A e \in E : e[1] \in Sources /\ e[2] \in DOMAIN shards[e[1]] /\ e = <<e[1], e[2]>>
  BY <1>1, ExportedPlaces
<1>4. \A s \in Sources : \A i \in DOMAIN shards[s] :
          Passes(shards[s][i], languages, minQuality) => <<s, i>> \in E
  BY <1>1, ExportedPlaces
<1> HIDE DEF E
<1> PICK order : TakenFrom(order, E)
  BY <1>2
<1>5. ProcessingTyped'
  BY <1>1, <1>2 DEF ProcessingTyped, config
<1>6. Made' /\ Remembered' /\ Kept' /\ OncePerRun' /\ Answered'
  BY <1>1, ConfigStays DEF ProcessingInv, Made, Remembered, Kept, OncePerRun, Answered
<1>7. TwiceExplained'
  <2>1. SUFFICES ASSUME NEW p \in Latest', NEW q \in Latest', p # q,
                        At(p)'.source = At(q)'.source, At(p)'.run = At(q)'.run
                 PROVE  \/ "deduplicator" \notin enabled
                        \/ "normalize" \notin enabled /\ At(p)'.text # At(q)'.text
    BY <1>1, ConfigStays DEF TwiceExplained
  <2>2. PICK d, e \in E : /\ d # e /\ At(p)' = shards[d[1]][d[2]] /\ At(q)' = shards[e[1]][e[2]]
    BY <2>1 DEF TakenFrom
  <2>3. At(p)'.source = d[1] /\ At(q)'.source = e[1]
    BY <1>3, <2>2 DEF ProcessingInv, Made
  <2>4. d[1] = e[1] /\ d[2] # e[2]
    BY <1>3, <2>1, <2>2, <2>3
  <2>5. "deduplicator" \in enabled => At(p)'.text # At(q)'.text
    BY <1>3, <2>1, <2>2, <2>4 DEF ProcessingInv, OncePerRun
  <2>6. "normalize" \in enabled => At(p)'.text = "normal" /\ At(q)'.text = "normal"
    BY <1>3, <2>2 DEF ProcessingInv, Made
  <2>7. QED
    BY <2>5, <2>6
<1>8. AbsenceExplained'
  <2> DEFINE Excused(o) ==
        \/ "normalize" \in enabled /\ nature.short
        \/ "toxicity_filter" \in enabled /\ nature.toxic
        \/ "quality_scorer" \in enabled /\ nature.quality = Poor
        \/ "language_filter" \in enabled /\ AnyLanguage \notin allowed[o[2]] /\
            (nature.language \notin Wanted(o[2]) \/ nature.confidence < MinConfidence \/ ~modelFound)
        \/ languages # {} /\ Language(o[2]) \notin languages
        \/ minQuality > nature.quality
        \/ minQuality > 0 /\ enabled \cap {"toxicity_filter", "quality_scorer"} = {"toxicity_filter"}
  <2>1. SUFFICES ASSUME NEW o \in offered, ~Excused(o)
                 PROVE  \E p \in Latest' : At(p)'.source = o[2] /\ At(p)'.text = Text(o[3])
    <3>1. allowed' = allowed /\ modelFound' = modelFound /\ \A s : Wanted(s)' = Wanted(s)
      BY <1>1 DEF config, Wanted
    <3>2. QED
      BY <1>1, <3>1, ConfigStays DEF AbsenceExplained
  <2>2. ~Faulty(o[2])
    BY <2>1 DEF Faulty, TooShort, Toxic, LowQuality, Foreign, Undetected, Detected
  <2>3. PICK i \in DOMAIN shards[o[2]] : shards[o[2]][i].text = Text(o[3])
    BY <2>2 DEF ProcessingInv, Answered
  <2>4. o[2] \in Sources
    BY <1>1 DEF ProcessingTyped
  <2>5. /\ shards[o[2]][i].source = o[2] /\ shards[o[2]][i].language = Language(o[2])
        /\ shards[o[2]][i].quality = Quality
    BY <2>3, <2>4 DEF ProcessingInv, Made
  <2>6. minQuality > 0 /\ Quality # None => Quality >= minQuality
    BY <1>1, <2>1, NatureTyped DEF Quality
  <2>7. Passes(shards[o[2]][i], languages, minQuality)
    BY <2>1, <2>5, <2>6 DEF Passes
  <2>8. PICK p \in Latest' : Origin(order, p) = <<o[2], i>>
    BY <1>4, <2>4, <2>7 DEF TakenFrom
  <2>9. At(p)' = shards[o[2]][i]
    BY <2>8 DEF TakenFrom
  <2>10. QED
    BY <2>3, <2>5, <2>9
<1>9. QED
  BY <1>5, <1>6, <1>7, <1>8 DEF ProcessingInv, ExportExplained

LEMMA ProcessingInit == Init => ProcessingInv
<1> SUFFICES ASSUME Init PROVE ProcessingInv
  OBVIOUS
<1>1. enabled \subseteq Range(Stages)
  BY ProcessingAssumption DEF Init
<1>2. << >> \in Seq(Documents) /\ << >> \in Seq(Seq(Documents))
  OBVIOUS
<1>3. /\ seen = [s \in Sources |-> {}] /\ shards = [s \in Sources |-> << >>] /\ directory = << >>
      /\ process = 1 /\ nature \in Natures /\ offered = {} /\ covered = {}
  BY DEF Init
<1>4. ProcessingTyped
  BY <1>1, <1>2, <1>3 DEF ProcessingTyped
<1>5. \A s \in Sources : DOMAIN shards[s] = {}
  BY <1>3
<1>6. Made /\ Remembered /\ Kept /\ OncePerRun /\ Answered
  BY <1>3, <1>5 DEF Made, Remembered, Kept, OncePerRun, Answered
<1>7. QED
  BY <1>3, <1>4, <1>6 DEF ProcessingInv, ExportExplained

LEMMA ProcessingStep == ProcessingInv /\ [Next]_vars => ProcessingInv'
<1> SUFFICES ASSUME ProcessingInv, [Next]_vars PROVE ProcessingInv'
  OBVIOUS
<1>1. ASSUME NEW s \in Sources, NEW raw \in Raws, Process(s, raw) PROVE ProcessingInv'
  BY <1>1, ProcessHolds
<1>2. CASE Restart
  BY <1>2, RestartHolds
<1>3. ASSUME NEW languages \in {{}, {"en"}}, NEW minQuality \in {0, 3}, Export(languages, minQuality)
      PROVE  ProcessingInv'
  BY <1>3, ExportHolds
<1>4. CASE UNCHANGED vars
  <2>1. UNCHANGED <<config, process, seen, shards, directory, manifest, offered, covered>>
    BY <1>4 DEF vars
  <2>2. ProcessingTyped' /\ Kept'
    BY <2>1 DEF ProcessingInv, ProcessingTyped, Kept, config
  <2>3. Made' /\ Remembered' /\ OncePerRun' /\ Answered'
    BY <2>1, ConfigStays DEF ProcessingInv, Made, Remembered, OncePerRun, Answered
  <2>4. QED
    BY <2>1, <2>2, <2>3, ExportStays DEF ProcessingInv
<1>5. QED
  BY <1>1, <1>2, <1>3, <1>4 DEF Next

\* PreprocessingPipeline.process and ShardExporter.export: for any sources, raw
\* forms, settings and shards of any size, however many documents, runs and
\* exports, the training set holds a text twice only where the deduplicator had
\* no chance to compare, and lacks only what a stage in force or the export
\* itself refuses.
THEOREM NoneTwiceNoneMissing == Spec => []ExportExplained
<1>1. ProcessingInv => ExportExplained
  BY DEF ProcessingInv
<1>2. QED
  BY <1>1, ProcessingInit, ProcessingStep, PTL DEF Spec
=============================================================================
