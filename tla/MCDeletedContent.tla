------------------------ MODULE MCDeletedContent ---------------------------
(***************************************************************************)
(* Instances of DeletedContent for TLC.                                    *)
(***************************************************************************)
EXTENDS DeletedContent, TLC

CONSTANTS keep, a, b, h, v, w

\* Every program point of a run.
AllPoints == Pcs \ {"idle"}

\* Every point but those between removing the old manifest and publishing the new.
OutsideStaging == AllPoints \ {"history", "decide", "publish"}
=============================================================================
