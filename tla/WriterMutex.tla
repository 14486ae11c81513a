---------------------------- MODULE WriterMutex ----------------------------
(***************************************************************************)
(* What the index write lock promises (IndexWriteLock, generations.rs):    *)
(* at most one index writer of a repository is between a successful        *)
(* `acquire` and the end of its run.  How a writer waits, gives up or      *)
(* races for the lock file is no part of the promise.                      *)
(***************************************************************************)
CONSTANT Writers

VARIABLE holders    \* the writers whose `acquire` returned Ok and that still run

\* No writer runs yet.
MInit == holders = {}

\* `acquire` returns Ok.
MAcquire(w) ==
    /\ holders = {}
    /\ holders' = {w}

\* The guard is dropped, or its process is killed.
MRelease(w) ==
    /\ w \in holders
    /\ holders' = holders \ {w}

MNext == \E w \in Writers : MAcquire(w) \/ MRelease(w)

MSpec == MInit /\ [][MNext]_holders
=============================================================================
