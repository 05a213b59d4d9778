------------------------------ MODULE Processing ------------------------------
(***************************************************************************)
(* What becomes of a text between the extractors and the training set: the *)
(* stages of PreprocessingPipeline (core/pipeline_stages.py and            *)
(* processors/), one pipeline per source and run, and the export of all    *)
(* shards (storage/export.py).                                             *)
(*                                                                         *)
(* Texts do not affect one another but through equality, so there is one   *)
(* text here, which normalisation makes of each of several raw forms; what *)
(* the stages find in it is its nature, chosen with the configuration.     *)
(***************************************************************************)
EXTENDS Integers, FiniteSets, SequencesExt

CONSTANTS
    Sources,
    Raws,           \* raw forms of the text
    Natures,        \* what the stages may find in it
    Settings,       \* which stages may be in force
    ShardDocs,      \* documents that fill a shard of the export
    MaxDocs,        \* bounds of the model: documents offered,
    MaxProcesses,   \*   runs of the pipeline
    MaxExports      \*   and of the export

Stages == <<"normalize", "language_filter", "toxicity_filter", "quality_scorer", "deduplicator">>

ASSUME ProcessingAssumption ==
    /\ Natures \subseteq [short : BOOLEAN, script : {"latin", "cjk", "other"}, language : {"en", "fr"},
                          confidence : {70, 90}, toxic : BOOLEAN, quality : 1..3]
    /\ Settings \subseteq SUBSET Range(Stages)
    /\ IsFiniteSet(Sources)
    /\ ShardDocs \in Nat \ {0} /\ MaxDocs \in Nat /\ MaxProcesses \in Nat /\ MaxExports \in Nat

VARIABLES
    enabled,        \* pipeline_stages
    allowed,        \* source_overrides, {} where there is none
    passUncertain,  \* pass_on_uncertainty
    modelFound,     \* whether fasttext and its model are there
    nature,         \* of the text
    process,        \* the run
    seen,           \* _exact_seen of each source's deduplicator
    shards,         \* what each source's writer has written
    directory,      \* of the export: its shards
    manifest,       \* how many of them the last export wrote, and for whom
    offered,        \* history: documents given to the pipelines
    covered,        \* history: those given before the last export
    exports         \* history: how many exports there were

config == <<enabled, allowed, passUncertain, modelFound, nature>>
vars == <<config, process, seen, shards, directory, manifest, offered, covered, exports>>

AnyLanguage == "*"
Targets == {"en"}
MinConfidence == 80
None == -1      \* a document without quality signals
Unscored == 0   \* signals whose overall_quality was never set

Poor == 1       \* below min_overall_quality; 2 is below what an export may ask for

Init ==
    /\ enabled \in Settings
    /\ allowed \in [Sources -> {{}, {AnyLanguage}, {"fr"}}]
    /\ passUncertain \in BOOLEAN /\ modelFound \in BOOLEAN
    /\ nature \in Natures
    /\ process = 1
    /\ seen = [s \in Sources |-> {}]
    /\ shards = [s \in Sources |-> << >>]
    /\ directory = << >>
    /\ manifest = [shards |-> 0, languages |-> {}, minQuality |-> 0]
    /\ offered = {} /\ covered = {} /\ exports = 0

-----------------------------------------------------------------------------
\* TextNormalizer.process: raw forms become one.  A text that is too short is
\* rejected and stays as it was.
MutText(raw) == raw
Text(raw) == IF "normalize" \in enabled THEN "normal" ELSE raw
TooShort == nature.short

\* LanguageDetector._detect: the model, or else the script of the letters.
Detected ==
    IF modelFound THEN <<nature.language, nature.confidence>>
    ELSE IF nature.script = "latin" THEN <<"en", 70>>
    ELSE IF nature.script = "cjk" THEN <<"zh", 80>>
    ELSE <<"en", 50>>

\* LanguageDetector.process: a source may allow any language, and then none is
\* detected; otherwise it must be known well enough, and be wanted.
Undetected(s) == AnyLanguage \in allowed[s]
Wanted(s) == IF allowed[s] = {} THEN Targets ELSE allowed[s]
Foreign(s) ==
    /\ ~Undetected(s)
    /\ IF Detected[2] < MinConfidence THEN ~passUncertain ELSE Detected[1] \notin Wanted(s)

\* What a document is marked with: "en" until a language is detected.
Language(s) == IF "language_filter" \in enabled /\ ~Undetected(s) THEN Detected[1] ELSE "en"

\* ToxicityFilter.process and QualityScorer.process: the first makes signals
\* without an overall quality, the second replaces them.
Toxic == nature.toxic
LowQuality == nature.quality = Poor
Quality ==
    IF "quality_scorer" \in enabled THEN nature.quality
    ELSE IF "toxicity_filter" \in enabled THEN Unscored
    ELSE None

\* Deduplicator.process: its exact layer.
Duplicate(s, raw) == Text(raw) \in seen[s]

Rejects(stage, s, raw) ==
    CASE stage = "normalize"       -> TooShort
      [] stage = "language_filter" -> Foreign(s)
      [] stage = "toxicity_filter" -> Toxic
      [] stage = "quality_scorer"  -> LowQuality
      [] stage = "deduplicator"    -> Duplicate(s, raw)

\* PreprocessingPipeline.process: the stages in their order; the first that
\* rejects the document ends it, and what later stages keep is untouched.
Chain == {i \in DOMAIN Stages : Stages[i] \in enabled}
Rejecting(s, raw) == {i \in Chain : Rejects(Stages[i], s, raw)}
Reached(s, raw) ==
    LET rejecting == Rejecting(s, raw) IN
    {Stages[i] : i \in {k \in Chain : \A j \in rejecting : k =< j}}

\* A document is processed and, if accepted, written.
Process(s, raw) ==
    /\ Cardinality(offered) < MaxDocs
    /\ seen' = IF "deduplicator" \in Reached(s, raw)
               THEN [seen EXCEPT ![s] = @ \cup {Text(raw)}] ELSE seen
    /\ shards' = IF Rejecting(s, raw) # {} THEN shards
                 ELSE [shards EXCEPT ![s] = Append(@,
                        [source |-> s, text |-> Text(raw), run |-> process,
                         language |-> Language(s), quality |-> Quality])]
    /\ offered' = offered \cup {<<Cardinality(offered) + 1, s, raw>>}
    /\ UNCHANGED <<config, process, directory, manifest, covered, exports>>

\* A new run begins with new pipelines; no hash was ever saved.
Restart ==
    /\ process < MaxProcesses
    /\ process' = process + 1
    /\ seen' = [s \in Sources |-> {}]
    /\ UNCHANGED <<config, shards, directory, manifest, offered, covered, exports>>

-----------------------------------------------------------------------------
\* ShardExporter._iter_docs: the filters of an export.
Passes(doc, languages, minQuality) ==
    /\ languages # {} => doc.language \in languages
    /\ minQuality > 0 /\ doc.quality # None => doc.quality >= minQuality

\* The documents an export takes, each by its source and its place there.
Exported(languages, minQuality) ==
    {p \in UNION {{s} \X DOMAIN shards[s] : s \in Sources} :
        Passes(shards[p[1]][p[2]], languages, minQuality)}

Cut(docs) ==
    [i \in 1..((Len(docs) + ShardDocs - 1) \div ShardDocs) |->
        SubSeq(docs, (i - 1) * ShardDocs + 1,
               IF i * ShardDocs < Len(docs) THEN i * ShardDocs ELSE Len(docs))]

\* ShardExporter.export: all shards of all sources, in new shards that replace
\* those of the same number.  In which order they are shuffled is left out.
Export(languages, minQuality) ==
    LET order   == SetToSeq(Exported(languages, minQuality))
        written == Cut([i \in DOMAIN order |-> shards[order[i][1]][order[i][2]]])
    IN  /\ exports < MaxExports /\ exports' = exports + 1
        /\ \E s \in Sources : shards[s] # << >>
        /\ directory' = written \o SubSeq(directory, Len(written) + 1, Len(directory))
        /\ manifest' = [shards |-> Len(written), languages |-> languages, minQuality |-> minQuality]
        /\ covered' = offered
        /\ UNCHANGED <<config, process, seen, shards, offered>>

Next ==
    \/ \E s \in Sources, raw \in Raws : Process(s, raw)
    \/ Restart
    \/ \E languages \in {{}, {"en"}}, minQuality \in {0, 3} : Export(languages, minQuality)

Spec == Init /\ [][Next]_vars

-----------------------------------------------------------------------------
\* The training set: places in the shards the manifest counts.
Latest == UNION {{i} \X DOMAIN directory[i] : i \in 1..manifest.shards}
At(p) == directory[p[1]][p[2]]

\* A text is there twice only out of different sources or runs, or if it was not
\* compared or not normalised.
TwiceExplained ==
    \A p, q \in Latest :
        p # q /\ At(p).source = At(q).source /\ At(p).run = At(q).run =>
            \/ "deduplicator" \notin enabled
            \/ "normalize" \notin enabled /\ At(p).text # At(q).text

\* A text that was offered is absent only if a stage in force finds fault with
\* it, or its language cannot be told, or the export asks for another.
AbsenceExplained ==
    \A o \in covered :
        \/ \E p \in Latest : At(p).source = o[2] /\ At(p).text = Text(o[3])
        \/ "normalize" \in enabled /\ nature.short
        \/ "toxicity_filter" \in enabled /\ nature.toxic
        \/ "quality_scorer" \in enabled /\ nature.quality = Poor
        \/ "language_filter" \in enabled /\ AnyLanguage \notin allowed[o[2]] /\
            (nature.language \notin Wanted(o[2]) \/ nature.confidence < MinConfidence \/ ~modelFound)
        \/ manifest.languages # {} /\ Language(o[2]) \notin manifest.languages
        \/ manifest.minQuality > nature.quality
        \/ manifest.minQuality > 0 /\ enabled \cap {"toxicity_filter", "quality_scorer"} = {"toxicity_filter"}

\* PreprocessingPipeline.process, ShardExporter.export: the training set holds a
\* text twice only out of different sources or runs, or if it was not compared
\* or not normalised; and it lacks a text it was offered by a source only if a
\* stage in force finds fault with it, if its language cannot be told, or if the
\* export asks for another language, or for a quality it has not got or that
\* was never computed.
ExportExplained == covered # {} => TwiceExplained /\ AbsenceExplained
=============================================================================
