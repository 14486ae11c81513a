-------------------------- MODULE MCPublication ----------------------------
(***************************************************************************)
(* Instances of Publication for TLC.                                       *)
(***************************************************************************)
EXTENDS Publication, TLC

CONSTANTS d1, d2, d3, s1

\* Every step, but those of an adoption that is moving files.
NotMoving == Pcs \ (AdoptionPcs \ {"moveDb", "point"})

\* The files are alike.
Alike == Permutations(Dbs)
=============================================================================
