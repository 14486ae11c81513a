------------------------------ MODULE MCWatch ------------------------------
(***************************************************************************)
(* An instance of Watch: one source file and one below a build directory.  *)
(***************************************************************************)
EXTENDS Watch

CONSTANTS src, out

MCPaths == {src, out}
MCBuilt == {out}
=============================================================================
