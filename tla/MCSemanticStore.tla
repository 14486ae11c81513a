------------------------- MODULE MCSemanticStore ---------------------------
(***************************************************************************)
(* Instances of SemanticStore for TLC.                                     *)
(***************************************************************************)
EXTENDS SemanticStore, TLC

CONSTANTS a, b, r1

\* The paths are alike.
Alike == Permutations(Paths)
=============================================================================
