------------------------- MODULE MCDocumentVersions -------------------------
(* Small instances of DocumentVersions for TLC.                            *)
EXTENDS DocumentVersions, TLC

CONSTANTS j1, j2, r1, r2, r3, r4, s1, s2

Symmetry == Permutations(Requests) \union Permutations(Jobs)
=============================================================================
