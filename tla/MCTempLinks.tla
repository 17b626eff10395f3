---------------------------- MODULE MCTempLinks ----------------------------
(* Small instances of TempLinks for TLC. *)
EXTENDS TempLinks, TLC

\* Rows of temp_links are handed out in any order and requests are alike.
LinkSymmetry == Permutations(Links) \cup Permutations(Requests)
=============================================================================
