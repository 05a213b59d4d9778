------------------------------- MODULE MCIngest -------------------------------
(***************************************************************************)
(* The two ends of a source: the dump its extractor reads, and the stages  *)
(* and the export its documents pass through.  They share nothing, so each *)
(* behaviour exercises one of them.                                        *)
(***************************************************************************)
EXTENDS Processing

CONSTANTS Records, Chunk, MaxAttempts, MaxRuns      \* DumpStream

VARIABLES
    part,
    format, members, run, mode, base, attempt, pos, chunk, counted, decoder, held, buf,
    offset, saved, yielded, latest, savedLatest, doubtful

D == INSTANCE DumpStream

ASSUME DumpParameters ==
    Records \in Nat /\ Chunk \in Nat \ {0} /\ MaxAttempts \in Nat \ {0} /\ MaxRuns \in Nat

pvars == vars
dvars == <<format, members, run, mode, base, attempt, pos, chunk, counted, decoder, held, buf,
           offset, saved, yielded, latest, savedLatest, doubtful>>

\* A good text, and texts with one fault.
Good == [short |-> FALSE, script |-> "latin", language |-> "en", confidence |-> 90,
         toxic |-> FALSE, quality |-> 3]
MCNatures ==
    {Good, [Good EXCEPT !.short = TRUE], [Good EXCEPT !.script = "cjk"],
     [Good EXCEPT !.language = "fr"], [Good EXCEPT !.confidence = 70],
     [Good EXCEPT !.toxic = TRUE], [Good EXCEPT !.quality = 1], [Good EXCEPT !.quality = 2]}

\* All stages, all but one of them, and all but the scorer and the filter before it.
All == Range(Stages)
MCSettings ==
    {All} \cup {All \ {stage} : stage \in All} \cup {All \ {"quality_scorer", "toxicity_filter"}}

RawsAlike == Permutations(Raws)

\* Sources differ by their overrides only: that one has none, and which, is no loss.
\* How a language is detected varies with texts that have no other fault, and
\* where it makes a difference.
MCInit ==
    /\ part \in {"dump", "processing"}
    /\ Init /\ D!Init
    /\ allowed[CHOOSE s \in Sources : TRUE] = {}
    /\ part = "dump" =>
        /\ enabled = All /\ nature = Good /\ ~modelFound /\ ~passUncertain
        /\ \A s \in Sources : allowed[s] = {}
    /\ part = "processing" =>
        /\ format = "lines" /\ (modelFound => nature.script = "latin")
        /\ nature.short \/ nature.toxic \/ nature.quality # Good.quality \/ "language_filter" \notin enabled =>
              modelFound \/ nature.script # "latin"
        /\ nature.confidence # Good.confidence => modelFound
        /\ passUncertain => Detected[2] < MinConfidence
        /\ "language_filter" \notin enabled => ~passUncertain /\ \A s \in Sources : allowed[s] = {}

MCNext ==
    \/ part = "dump" /\ D!Next /\ UNCHANGED <<part, pvars>>
    \/ part = "processing" /\ Next /\ UNCHANGED <<part, dvars>>

MCSpec == MCInit /\ [][MCNext]_<<part, pvars, dvars>>

\* A record that is not yielded by an extractor that is done lies where a stream
\* broke off or was resumed, or where its format's parser does not reach.
LossExplained == D!LossExplained
=============================================================================
