---------------------------- MODULE MCDeduplicator ----------------------------
(***************************************************************************)
(* Deduplicator on a handful of documents: identical texts, chains of near *)
(* duplicates whose ends are not near, and signatures that agree in a band *)
(* or only across bands.                                                   *)
(***************************************************************************)
EXTENDS Deduplicator

\* b is near a and c, which are not near; d is far from all; aa has the text of
\* a once normalised, but its first 2000 characters differ.
MCDocs ==
    {[hash |-> "a", sim |-> {1, 2},       sig |-> <<1, 1, 1, 1>>],
     [hash |-> "a", sim |-> {1, 2, 9, 8}, sig |-> <<1, 1, 1, 2>>],
     [hash |-> "b", sim |-> {1, 2, 3},    sig |-> <<2, 1, 2, 1>>],
     [hash |-> "c", sim |-> {2, 3},       sig |-> <<1, 2, 1, 2>>],
     [hash |-> "d", sim |-> {5, 6, 7},    sig |-> <<1, 1, 2, 1>>]}
=============================================================================
