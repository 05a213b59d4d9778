---------------------------- MODULE MCSourceWorker ----------------------------
(***************************************************************************)
(* SourceWorker on short streams.                                          *)
(***************************************************************************)
EXTENDS SourceWorker

Text(h, s) == [hash |-> h, sim |-> s, sig |-> <<>>]

\* Line 2 is a near duplicate of line 1, line 5 has the text of line 4, and the
\* filters reject line 3.  Line 6 has the hash of line 2 but another SimHash, and
\* line 7 is near line 2 but not near line 1: the one is rejected with line 2,
\* the other is kept.
MCShort ==
    <<Text("a", {1, 2}), Text("b", {1, 2, 3}), Text("c", {}), Text("d", {4, 5, 6}),
      Text("d", {4, 5, 6}), Text("b", {7, 8, 9})>>
MCStream ==
    MCShort \o <<Text("f", {1, 2, 3, 12}), Text("g", {1, 5, 8}), Text("h", {2, 6, 9, 10}), Text("i", {10, 11})>>

=============================================================================
