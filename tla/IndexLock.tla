----------------------------- MODULE IndexLock -----------------------------
(***************************************************************************)
(* The lock file `.ok/index.lock` of open-kioku-storage/src/generations.rs.*)
(*                                                                         *)
(* A writer (`ok index`, `ok watch`, `ok snapshot import`, a semantic      *)
(* build) holds an exclusive flock on the file for its whole run and, on   *)
(* unix, unlinks the file while it still holds the lock.  A reader that    *)
(* finds no manifest probes the file with a non-blocking shared flock.     *)
(*                                                                         *)
(* flock belongs to an open file description, so a lock is a pair of the   *)
(* inode a process has open (`fd`) and the mode it holds on it (`mode`).   *)
(* The path names at most one inode; an unlinked inode lives on while a    *)
(* process has it open and its number is free for a new file afterwards.   *)
(***************************************************************************)
EXTENDS Naturals

CONSTANTS
    Writers,      \* processes that call IndexWriteLock::acquire
    Readers,      \* processes that call index_write_in_progress
    Inodes,       \* inode numbers of the file system holding `.ok/`
    NoInode,      \* the path names nothing, or the process has nothing open
    RemovesFile,  \* the build removes the lock file on drop (cfg(unix))
    Patience      \* failed attempts a writer makes before `elapsed > wait`

Procs == Writers \cup Readers

ASSUME ProcsAssumption ==
    /\ Writers \cap Readers = {}
    /\ NoInode \notin Inodes
    /\ RemovesFile \in BOOLEAN
    /\ Patience \in [Writers -> Nat]

VARIABLES
    path,       \* the inode `.ok/index.lock` names
    fd,         \* the inode each process has open
    mode,       \* the flock each process holds through that descriptor
    pc,         \* where each process is in acquire, drop or the probe
    attempts,   \* failed attempts of a writer's current acquire
    answer,     \* what a reader's last probe returned; "quiet" and "error" are `false`
    witnessed   \* history: what was true at some instant of a reader's probe

vars == <<path, fd, mode, pc, attempts, answer, witnessed>>

WriterPcs == {"idle", "open", "lock", "verify", "held", "close", "sleep"}
ReaderPcs == {"idle", "lock", "done"}
Modes     == {"none", "shared", "exclusive"}
Answers   == {"none", "writing", "quiet", "error"}

TypeOK ==
    /\ path \in Inodes \cup {NoInode}
    /\ fd \in [Procs -> Inodes \cup {NoInode}]
    /\ mode \in [Procs -> Modes]
    /\ pc \in [Procs -> WriterPcs \cup ReaderPcs]
    /\ \A w \in Writers : pc[w] \in WriterPcs
    /\ \A r \in Readers : pc[r] \in ReaderPcs
    /\ attempts \in [Writers -> Nat]
    /\ answer \in [Readers -> Answers]
    /\ witnessed \in [Readers -> SUBSET {"writer", "unheld"}]

Init ==
    /\ path \in Inodes \cup {NoInode}   \* a killed writer may have left a file
    /\ fd = [p \in Procs |-> NoInode]
    /\ mode = [p \in Procs |-> "none"]
    /\ pc = [p \in Procs |-> "idle"]
    /\ attempts = [w \in Writers |-> 0]
    /\ answer = [r \in Readers |-> "none"]
    /\ witnessed = [r \in Readers |-> {}]

(***************************************************************************)
(* The file system and flock.                                              *)
(***************************************************************************)
Unused == {i \in Inodes : i # path /\ \A p \in Procs : fd[p] # i}

\* try_lock_exclusive grants: nobody else has any lock on the file.
ExclusiveFree(p) ==
    \A q \in Procs \ {p} : fd[q] = fd[p] => mode[q] = "none"

\* Mutant: the probe takes a lock file that is there for a writer.
ProbeAsksExistence(p) == path = NoInode

\* try_lock_shared grants: nobody else has the file locked exclusively.
SharedFree(p) ==
    \A q \in Procs \ {p} : fd[q] = fd[p] => mode[q] # "exclusive"

Closed(p) ==
    /\ fd' = [fd EXCEPT ![p] = NoInode]
    /\ mode' = [mode EXCEPT ![p] = "none"]

Holders == {w \in Writers : pc[w] = "held"}

\* A writer about to start, in, or finishing its run has the named file locked.
WriterPresent ==
    \E w \in Writers :
        /\ pc[w] \in {"verify", "held", "close"}
        /\ mode[w] = "exclusive"
        /\ fd[w] = path

\* Everything that holds in the next state is witnessed by the probes running in it.
Witness ==
    witnessed' = [r \in Readers |->
        IF pc'[r] = "idle" THEN {}
        ELSE IF pc'[r] = "done" /\ pc[r] = "done" THEN witnessed[r]
        ELSE (IF pc[r] = "lock" THEN witnessed[r] ELSE {})
             \cup (IF WriterPresent \/ WriterPresent' THEN {"writer"} ELSE {})
             \cup (IF Holders = {} \/ Holders' = {} THEN {"unheld"} ELSE {})]

(***************************************************************************)
(* IndexWriteLock::acquire.                                                *)
(***************************************************************************)
StartAcquire(w) ==
    /\ pc[w] = "idle"
    /\ pc' = [pc EXCEPT ![w] = "open"]
    /\ attempts' = [attempts EXCEPT ![w] = 0]
    /\ UNCHANGED <<path, fd, mode, answer>>
    /\ Witness

\* OpenOptions::create(true): the file at the path, or a new one.
OpenOrCreate(w) ==
    /\ pc[w] = "open"
    /\ \E i \in IF path = NoInode THEN Unused ELSE {path} :
        /\ path' = i
        /\ fd' = [fd EXCEPT ![w] = i]
    /\ pc' = [pc EXCEPT ![w] = "lock"]
    /\ UNCHANGED <<mode, attempts, answer>>
    /\ Witness

\* try_lock_exclusive is granted.
LockExclusive(w) ==
    /\ pc[w] = "lock"
    /\ ExclusiveFree(w)
    /\ mode' = [mode EXCEPT ![w] = "exclusive"]
    /\ pc' = [pc EXCEPT ![w] = "verify"]
    /\ UNCHANGED <<path, fd, attempts, answer>>
    /\ Witness

\* Mutant: a refused writer is taken for a finished probe.
LockRefusedAsProbe(w) ==
    /\ pc[w] = "lock"
    /\ ~ExclusiveFree(w)
    /\ Closed(w)
    /\ pc' = [pc EXCEPT ![w] = "done"]
    /\ UNCHANGED <<path, attempts, answer>>
    /\ Witness

\* try_lock_exclusive would block: drop the file.
LockRefused(w) ==
    /\ pc[w] = "lock"
    /\ ~ExclusiveFree(w)
    /\ Closed(w)
    /\ pc' = [pc EXCEPT ![w] = "sleep"]
    /\ UNCHANGED <<path, attempts, answer>>
    /\ Witness

\* Mutant: a check that some file is there.
SomeFileIsThere(w) == RemovesFile => path # NoInode

\* lock_file_is_current: always true where nothing removes the file.
LockFileIsCurrent(w) == RemovesFile => fd[w] = path

AcquireReturnsOk(w) ==
    /\ pc[w] = "verify"
    /\ LockFileIsCurrent(w)
    /\ pc' = [pc EXCEPT ![w] = "held"]
    /\ UNCHANGED <<path, fd, mode, attempts, answer>>
    /\ Witness

\* The locked file is not the one at the path: drop it.
LockedStaleFile(w) ==
    /\ pc[w] = "verify"
    /\ ~LockFileIsCurrent(w)
    /\ Closed(w)
    /\ pc' = [pc EXCEPT ![w] = "sleep"]
    /\ UNCHANGED <<path, attempts, answer>>
    /\ Witness

\* A file that cannot be examined counts as not current: drop it and try again.
VerifyFails(w) ==
    /\ RemovesFile
    /\ pc[w] = "verify"
    /\ Closed(w)
    /\ pc' = [pc EXCEPT ![w] = "sleep"]
    /\ UNCHANGED <<path, attempts, answer>>
    /\ Witness

\* Mutant: the wait is measured from the last attempt.
RetryForever(w) ==
    /\ pc[w] = "sleep"
    /\ attempts[w] < Patience[w]
    /\ pc' = [pc EXCEPT ![w] = "open"]
    /\ UNCHANGED <<path, fd, mode, attempts, answer>>
    /\ Witness

\* After a failed attempt: sleep and try again while the wait lasts.
Retry(w) ==
    /\ pc[w] = "sleep"
    /\ attempts[w] < Patience[w]
    /\ pc' = [pc EXCEPT ![w] = "open"]
    /\ attempts' = [attempts EXCEPT ![w] = @ + 1]
    /\ UNCHANGED <<path, fd, mode, answer>>
    /\ Witness

\* `elapsed > wait`: acquire returns Err.
GiveUp(w) ==
    /\ pc[w] = "sleep"
    /\ attempts[w] >= Patience[w]
    /\ pc' = [pc EXCEPT ![w] = "idle"]
    /\ UNCHANGED <<path, fd, mode, attempts, answer>>
    /\ Witness

\* An I/O error of open or flock ends acquire with Err (`?`).
AcquireFails(w) ==
    /\ pc[w] \in {"open", "lock"}
    /\ Closed(w)
    /\ pc' = [pc EXCEPT ![w] = "idle"]
    /\ UNCHANGED <<path, attempts, answer>>
    /\ Witness

(***************************************************************************)
(* Drop for IndexWriteLock: remove the file while locked, then close it.   *)
(***************************************************************************)
DropRemove(w) ==
    /\ pc[w] = "held"
    /\ \/ RemovesFile /\ path' = NoInode
       \/ path' = path           \* not unix, or remove_file failed: ignored
    /\ pc' = [pc EXCEPT ![w] = "close"]
    /\ UNCHANGED <<fd, mode, attempts, answer>>
    /\ Witness

DropClose(w) ==
    /\ pc[w] = "close"
    /\ Closed(w)
    /\ pc' = [pc EXCEPT ![w] = "idle"]
    /\ UNCHANGED <<path, attempts, answer>>
    /\ Witness

\* Ctrl-C or the OOM killer: the kernel closes the descriptor, the file stays.
Kill(w) ==
    /\ pc[w] # "idle"
    /\ Closed(w)
    /\ pc' = [pc EXCEPT ![w] = "idle"]
    /\ UNCHANGED <<path, attempts, answer>>
    /\ Witness

(***************************************************************************)
(* index_write_in_progress.                                                *)
(***************************************************************************)
\* No lock file: no writer.
ProbeFindsNoFile(r) ==
    /\ pc[r] = "idle"
    /\ path = NoInode
    /\ pc' = [pc EXCEPT ![r] = "done"]
    /\ answer' = [answer EXCEPT ![r] = "quiet"]
    /\ UNCHANGED <<path, fd, mode, attempts>>
    /\ Witness

ProbeOpen(r) ==
    /\ pc[r] = "idle"
    /\ path # NoInode
    /\ fd' = [fd EXCEPT ![r] = path]
    /\ pc' = [pc EXCEPT ![r] = "lock"]
    /\ UNCHANGED <<path, mode, attempts, answer>>
    /\ Witness

\* try_lock_shared is granted; the lock is held until the file is dropped.
ProbeLockShared(r) ==
    /\ pc[r] = "lock"
    /\ SharedFree(r)
    /\ mode' = [mode EXCEPT ![r] = "shared"]
    /\ answer' = [answer EXCEPT ![r] = "quiet"]
    /\ pc' = [pc EXCEPT ![r] = "done"]
    /\ UNCHANGED <<path, fd, attempts>>
    /\ Witness

\* try_lock_shared would block.
ProbeRefused(r) ==
    /\ pc[r] = "lock"
    /\ ~SharedFree(r)
    /\ answer' = [answer EXCEPT ![r] = "writing"]
    /\ pc' = [pc EXCEPT ![r] = "done"]
    /\ UNCHANGED <<path, fd, mode, attempts>>
    /\ Witness

\* open or flock fails with an I/O error, whoever holds the lock: `false`, as if
\* there were no writer.
ProbeFails(r) ==
    /\ pc[r] \in {"idle", "lock"}
    /\ answer' = [answer EXCEPT ![r] = "error"]
    /\ pc' = [pc EXCEPT ![r] = "done"]
    /\ UNCHANGED <<path, fd, mode, attempts>>
    /\ Witness

ProbeReturn(r) ==
    /\ pc[r] = "done"
    /\ Closed(r)
    /\ answer' = [answer EXCEPT ![r] = "none"]
    /\ pc' = [pc EXCEPT ![r] = "idle"]
    /\ UNCHANGED <<path, attempts>>
    /\ Witness

WriterStep(w) ==
    \/ OpenOrCreate(w) \/ LockExclusive(w) \/ LockRefused(w)
    \/ AcquireReturnsOk(w) \/ LockedStaleFile(w) \/ Retry(w) \/ GiveUp(w)
    \/ DropRemove(w) \/ DropClose(w)

WriterNext(w) ==
    \/ StartAcquire(w) \/ WriterStep(w)
    \/ VerifyFails(w) \/ AcquireFails(w) \/ Kill(w)

ProbeStep(r) == ProbeLockShared(r) \/ ProbeRefused(r) \/ ProbeReturn(r)

ReaderNext(r) ==
    \/ ProbeFindsNoFile(r) \/ ProbeOpen(r) \/ ProbeFails(r)
    \/ ProbeStep(r)

Next ==
    \/ \E w \in Writers : WriterNext(w)
    \/ \E r \in Readers : ReaderNext(r)

Spec == Init /\ [][Next]_vars

\* A started call runs on: every step but the decision to start one is taken.
FairSpec ==
    /\ Spec
    /\ \A w \in Writers : WF_vars(WriterStep(w))
    /\ \A r \in Readers : WF_vars(ProbeStep(r))

(***************************************************************************)
(* Properties.                                                             *)
(***************************************************************************)

\* At most one writer is inside its run: "two writers never interleave their
\* component writes".
MutualExclusion ==
    \A v, w \in Writers : pc[v] = "held" /\ pc[w] = "held" => v = w

\* The writer inside its run has the lock on the file the path names, so that
\* whoever comes next contends for the same file, and its own drop removes the
\* file it locked and never another writer's.
HolderOwnsPath ==
    \A w \in Writers :
        pc[w] = "held" => mode[w] = "exclusive" /\ fd[w] = path

\* A probe that answers "writing" overlapped a writer that had locked the file
\* the path names; one that answers "quiet" overlapped an instant at which no
\* writer was inside its run.  So the answer was true at some instant of the call,
\* unless an I/O error kept the probe from the lock file: then it is `false` ("error")
\* whatever the writers do, as index_write_in_progress documents.
ProbeLinearizable ==
    \A r \in Readers :
        /\ answer[r] = "writing" => "writer" \in witnessed[r]
        /\ answer[r] = "quiet" => "unheld" \in witnessed[r]

\* acquire always comes back, with the lock or with an error, however the
\* other writers and the probes behave.
AcquireReturns ==
    \A w \in Writers : pc[w] = "open" ~> pc[w] \in {"held", "idle"}

\* The lock implements the abstract mutex.
Mutex == INSTANCE WriterMutex WITH holders <- Holders
ImplementsMutex == Mutex!MSpec
=============================================================================
