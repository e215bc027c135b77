---------------------------- MODULE MCInfoStream ----------------------------
(***************************************************************************)
(* Small instances of InfoStream for TLC: interchangeable requests.        *)
(***************************************************************************)
EXTENDS InfoStream, TLC

Symmetry == Permutations(Request)
=============================================================================
