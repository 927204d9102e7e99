---------------------------- MODULE MCDocVersions ----------------------------
(* Small instances of DocVersions for TLC. *)
EXTENDS DocVersions, TLC

CONSTANTS d1, d2, d3, d4, d5, d6, a, b, c, r1, r2, r3

TwoDocs == <<[doc |-> d1, pages |-> <<a, b>>], [doc |-> d2, pages |-> <<c>>]>>
OneDoc == <<[doc |-> d1, pages |-> <<a, b>>]>>
LongTarget == <<[doc |-> d1, pages |-> <<a, b>>], [doc |-> d2, pages |-> <<b, c>>]>>
NoUploads == {}
Files == {<<c>>, <<a, b>>}

PageOps == {"apply", "delete"} \cup MoveOps \cup ExtractOps
AllButUploads == PageOps \cup {"ocr"}

Symmetry == Permutations(Reqs)
=============================================================================
