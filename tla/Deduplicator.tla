----------------------------- MODULE Deduplicator -----------------------------
(***************************************************************************)
(* The three-layer deduplicator of a source                                *)
(* (data_pipeline/processors/deduplicator.py) over the processes that use  *)
(* its state directory one after the other.                                *)
(*                                                                         *)
(* A document is what the layers see of it: the digest of its normalised   *)
(* text, the set bits of its SimHash and its MinHash signature.            *)
(***************************************************************************)
EXTENDS Integers, Sequences, FiniteSets

CONSTANTS
    Docs,           \* the documents: records [hash, sim, sig]
    ExactOn, SimOn, MinhashOn,  \* which layers are enabled
    K,              \* simhash_k
    Bands, Rows,    \* minhash_bands, minhash_rows
    Alike,          \* minhash_threshold, as a number of equal positions
    SaveEvery,      \* save_every
    CanFail,        \* whether a save may raise
    MaxRuns,        \* bounds of the model: processes
    MaxSeen         \* and documents offered to one process

Positions == 1..(Bands * Rows)

ASSUME DedupAssumption ==
    /\ \A d \in Docs : d.sim \subseteq Nat /\ IsFiniteSet(d.sim) /\ d.sig \in [Positions -> Nat]
    /\ ExactOn \in BOOLEAN /\ SimOn \in BOOLEAN /\ MinhashOn \in BOOLEAN
    /\ CanFail \in BOOLEAN
    /\ K \in Nat /\ Bands \in Nat /\ Rows \in Nat /\ Alike \in Nat
    /\ SaveEvery \in Nat \ {0}
    /\ MaxRuns \in Nat /\ MaxSeen \in Nat

Hashes == {d.hash : d \in Docs}
Sims == {d.sim : d \in Docs}
Sigs == {d.sig : d \in Docs}

VARIABLES
    up,             \* whether a process is working on the source
    exact,          \* _exact_seen
    simMap,         \* the keys of _simhash_map
    lsh,            \* the signatures in _lsh_buckets
    totalSeen,      \* _total_seen
    lastSave,       \* _last_save
    simFile,        \* the newest *_simhash_map.json, {} if there is none
    runs,           \* history: processes started
    kept,           \* history: the documents found unique, by process
    forgotten       \* history: SimHashes known when a process ended, not saved

index == <<exact, simMap, lsh>>
vars == <<up, exact, simMap, lsh, totalSeen, lastSave, simFile, runs, kept, forgotten>>

TypeOK ==
    /\ up \in BOOLEAN
    /\ exact \subseteq Hashes
    /\ simMap \subseteq Sims
    /\ lsh \subseteq Sigs
    /\ totalSeen \in Nat /\ lastSave \in 0..totalSeen
    /\ simFile \subseteq Sims
    /\ runs \in Nat
    /\ kept \in Seq(Seq(Docs)) /\ Len(kept) = runs
    /\ up => runs > 0
    /\ forgotten \subseteq Sims

Init ==
    /\ up = FALSE
    /\ exact = {} /\ simMap = {} /\ lsh = {}
    /\ totalSeen = 0 /\ lastSave = 0
    /\ simFile = {}
    /\ runs = 0
    /\ kept = <<>>
    /\ forgotten = {}

-----------------------------------------------------------------------------
Hamming(a, b) == Cardinality((a \ b) \cup (b \ a))
Near(a, b) == Hamming(a, b) <= K

\* Two signatures meet in a bucket when they agree on all rows of some band.
SameBucket(s, t) ==
    \E b \in 0..(Bands - 1) : \A i \in (b * Rows + 1)..((b + 1) * Rows) : s[i] = t[i]
Similar(s, t) ==
    SameBucket(s, t) /\ Cardinality({i \in Positions : s[i] = t[i]}) >= Alike

\* What process() finds, layer after layer.
ExactDup(d) == ExactOn /\ d.hash \in exact
MutNearDup(d) == SimOn /\ ~ExactDup(d) /\ \E s \in simFile : Near(d.sim, s)
NearDup(d) == SimOn /\ ~ExactDup(d) /\ \E s \in simMap : Near(d.sim, s)
MutMinhashDup(d) ==
    MinhashOn /\ ~ExactDup(d) /\ ~NearDup(d) /\ d.sig \in lsh
MinhashDup(d) ==
    MinhashOn /\ ~ExactDup(d) /\ ~NearDup(d) /\ \E s \in lsh : Similar(d.sig, s)
Unique(d) == ~ExactDup(d) /\ ~NearDup(d) /\ ~MinhashDup(d)

\* Deduplicator(...) in a new process: _load takes up the newest SimHash map.
\* No hash is ever read back: the file _save opens for them stays empty.
MutStart ==
    /\ ~up /\ runs < MaxRuns
    /\ up' = TRUE
    /\ exact' = {} /\ simMap' = {} /\ lsh' = {}
    /\ totalSeen' = 0 /\ lastSave' = 0
    /\ runs' = runs + 1
    /\ kept' = Append(kept, <<>>)
    /\ UNCHANGED <<simFile, forgotten>>
Start ==
    /\ ~up /\ runs < MaxRuns
    /\ up' = TRUE
    /\ simMap' = simFile
    /\ exact' = {} /\ lsh' = {}
    /\ totalSeen' = 0 /\ lastSave' = 0
    /\ runs' = runs + 1
    /\ kept' = Append(kept, <<>>)
    /\ UNCHANGED <<simFile, forgotten>>

\* A duplicate is remembered by the layers in front of the one that found it,
\* and process() returns before the periodic save.
MutIndexed(d) ==
    /\ exact' = IF ExactOn THEN exact \cup {d.hash} ELSE exact
    /\ simMap' = IF SimOn /\ ~ExactDup(d) THEN simMap \cup {d.sim} ELSE simMap
    /\ lsh' = IF MinhashOn /\ Unique(d) THEN lsh \cup {d.sig} ELSE lsh
Indexed(d) ==
    /\ exact' = IF ExactOn THEN exact \cup {d.hash} ELSE exact
    /\ simMap' = IF SimOn /\ ~ExactDup(d) /\ ~NearDup(d) THEN simMap \cup {d.sim} ELSE simMap
    /\ lsh' = IF MinhashOn /\ Unique(d) THEN lsh \cup {d.sig} ELSE lsh

\* _save writes the map to a temp file and renames it, when the layer is on;
\* an error is logged and the save counts as done.
Saves(map) ==
    \/ simFile' = IF SimOn THEN map ELSE simFile
    \/ CanFail /\ UNCHANGED simFile

Duplicate(d) ==
    /\ up /\ totalSeen < MaxSeen
    /\ ~Unique(d)
    /\ Indexed(d)
    /\ totalSeen' = totalSeen + 1
    /\ UNCHANGED <<up, lastSave, simFile, runs, kept, forgotten>>

SaveDue == totalSeen' - lastSave >= SaveEvery
Keep(d) ==
    /\ up /\ totalSeen < MaxSeen
    /\ Unique(d)
    /\ Indexed(d)
    /\ totalSeen' = totalSeen + 1
    /\ kept' = [kept EXCEPT ![runs] = Append(@, d)]
    /\ IF SaveDue THEN Saves(simMap') /\ lastSave' = totalSeen'
                  ELSE UNCHANGED <<simFile, lastSave>>
    /\ UNCHANGED <<up, runs, forgotten>>

\* save(), called when the worker has finished.
Save ==
    /\ up
    /\ Saves(simMap)
    /\ UNCHANGED <<up, index, totalSeen, lastSave, runs, kept, forgotten>>

ProcessEnds ==
    /\ up
    /\ up' = FALSE
    /\ exact' = {} /\ simMap' = {} /\ lsh' = {}
    /\ totalSeen' = 0 /\ lastSave' = 0
    /\ forgotten' = forgotten \cup (simMap \ simFile)
    /\ UNCHANGED <<simFile, runs, kept>>

Next ==
    \/ Start
    \/ \E d \in Docs : Duplicate(d) \/ Keep(d)
    \/ Save
    \/ ProcessEnds

Spec == Init /\ [][Next]_vars
-----------------------------------------------------------------------------
KeptDocs == UNION {{kept[r][i] : i \in DOMAIN kept[r]} : r \in DOMAIN kept}

\* Two documents that were both found unique are farther apart than simhash_k,
\* also when different processes found them, unless the process that knew the
\* first ended before it had saved its SimHash.
KeptApart ==
    SimOn => \A r \in DOMAIN kept : \A i \in DOMAIN kept[r] :
        /\ \A j \in DOMAIN kept[r] : i < j => ~Near(kept[r][i].sim, kept[r][j].sim)
        /\ \A q \in (r + 1)..Len(kept) : \A j \in DOMAIN kept[q] :
              Near(kept[r][i].sim, kept[q][j].sim) => kept[r][i].sim \in forgotten

\* While every save succeeds a crash forgets the SimHashes of fewer than
\* save_every kept documents, however many duplicates skip the periodic save.
UnsavedBounded ==
    up /\ SimOn /\ ~CanFail =>
        Cardinality({kept[runs][i].sim : i \in DOMAIN kept[runs]} \ simFile) < SaveEvery

\* The index never blames a document that is not in the data: whatever it knows
\* is of a kept document, or of one a later layer rejected for a kept one.
SimilarToKept(x) == MinhashOn /\ \E d \in KeptDocs : Similar(x.sig, d.sig)
IndexJustified ==
    /\ \A s \in simMap \cup simFile :
          \E x \in Docs : x.sim = s /\ (x \in KeptDocs \/ SimilarToKept(x))
    /\ \A h \in exact : \E x \in Docs : x.hash = h /\
          (x \in KeptDocs \/ SimilarToKept(x) \/ (SimOn /\ \E s \in simMap : Near(x.sim, s)))

\* In one process no two kept documents are found similar by MinHash, either.
KeptDissimilar ==
    MinhashOn => \A r \in DOMAIN kept : \A i, j \in DOMAIN kept[r] :
        i # j => ~Similar(kept[r][i].sig, kept[r][j].sig)
=============================================================================
