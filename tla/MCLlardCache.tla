---------------------------- MODULE MCLlardCache ----------------------------
(***************************************************************************)
(* Small instances of LlardCache for TLC: interchangeable servers, builds  *)
(* with interchangeable results.                                           *)
(***************************************************************************)
EXTENDS LlardCache, TLC

Symmetry == Permutations(Server) \cup Permutations(Content)
=============================================================================
