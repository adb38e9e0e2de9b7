------------------------------ MODULE TextKeys ------------------------------
(***************************************************************************)
(* Near-duplicate texts: optimize/keys.py, the match optimize/dedup.py     *)
(* makes of it and the redundancy context/diversification.py counts.  A    *)
(* text is the sequence of its tokens.                                     *)
(***************************************************************************)
EXTENDS Naturals, Sequences, FiniteSets

\* The pairs of neighbouring tokens; a text of two tokens or fewer is one piece.
Shingles(text) ==
    IF Len(text) <= 2 THEN {text}
    ELSE {SubSeq(text, i, i + 1) : i \in 1 .. Len(text) - 1}

\* Jaccard similarity of at least 0.85 (DEFAULT_THRESHOLD and
\* _DIVERSITY_THRESHOLD), in integers.
Alike(a, b) ==
    100 * Cardinality(Shingles(a) \cap Shingles(b))
        >= 85 * Cardinality(Shingles(a) \cup Shingles(b))

\* diversification_reports() for the slices of one context.
Diversity(slices) ==
    LET at == DOMAIN slices
        pairs == {p \in at \X at : p[1] < p[2]}
        redundant == {p \in pairs : Alike(slices[p[1]], slices[p[2]])}
    IN  [slices |-> Len(slices), comparisons |-> Cardinality(pairs),
         redundant |-> Cardinality(redundant)]
=============================================================================
