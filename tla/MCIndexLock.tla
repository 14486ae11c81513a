---------------------------- MODULE MCIndexLock ----------------------------
(* IndexLock on small sets of processes.  As many inodes as processes are    *)
(* enough: a writer creates a file when the path names none and it has none  *)
(* open, so at most one inode per other process is in use.                   *)
EXTENDS IndexLock, FiniteSets, TLC

CONSTANT MaxAttempts    \* bound on the failed attempts of one acquire

MCPatience == [w \in Writers |-> MaxAttempts]

ASSUME EnoughInodes == Cardinality(Inodes) >= Cardinality(Procs)
=============================================================================
