---------------------------- MODULE MCAttribution ----------------------------
(***************************************************************************)
(* Symmetry for the instances of Attribution.                              *)
(***************************************************************************)
EXTENDS Attribution, TLC

Symmetry == Permutations(Users) \cup Permutations(Profiles) \cup Permutations(Sessions)
                \cup Permutations(Requests)
=============================================================================
