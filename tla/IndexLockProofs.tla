-------------------------- MODULE IndexLockProofs --------------------------
(***************************************************************************)
(* Proofs about IndexLock for any sets of writers, readers and inodes, on  *)
(* builds that remove the lock file and on builds that keep it.            *)
(***************************************************************************)
EXTENDS IndexLock, TLAPS

USE ProcsAssumption

-----------------------------------------------------------------------------
(* The inductive invariant.                                                *)

\* What a process has open and locked follows from where it is.
PcState ==
    /\ \A w \in Writers :
        /\ pc[w] \in {"idle", "open", "sleep"} => fd[w] = NoInode /\ mode[w] = "none"
        /\ pc[w] = "lock" => fd[w] # NoInode /\ mode[w] = "none"
        /\ pc[w] \in {"verify", "held", "close"} =>
                fd[w] # NoInode /\ mode[w] = "exclusive"
    /\ \A r \in Readers :
        /\ pc[r] = "idle" => fd[r] = NoInode /\ mode[r] = "none"
        /\ pc[r] = "lock" => fd[r] # NoInode /\ mode[r] = "none"
        /\ pc[r] = "done" => mode[r] # "exclusive"

\* flock: an exclusive lock excludes every other lock on the same file.
FlockExclusive ==
    \A p, q \in Procs :
        p # q /\ fd[p] = fd[q] /\ mode[p] = "exclusive" => mode[q] = "none"

\* A writer in its run has locked the file the path names.
HeldIsCurrent == \A w \in Writers : pc[w] = "held" => fd[w] = path

\* Where nothing removes the file there is only one file to have open.
KeptFile ==
    ~RemovesFile => \A p \in Procs : fd[p] # NoInode => fd[p] = path

\* A probe whose file was replaced has overlapped the writer that removed it,
\* and the instant after.
ProbeHistory ==
    \A r \in Readers :
        /\ pc[r] = "lock" /\ fd[r] # path =>
                {"writer", "unheld"} \subseteq witnessed[r]
        /\ pc[r] # "done" => answer[r] = "none"
        /\ answer[r] = "writing" => "writer" \in witnessed[r]
        /\ answer[r] = "quiet" => "unheld" \in witnessed[r]

IInv ==
    /\ TypeOK
    /\ PcState
    /\ FlockExclusive
    /\ HeldIsCurrent
    /\ KeptFile
    /\ ProbeHistory

-----------------------------------------------------------------------------
\* Every step leaves the lock file protocol inside the inductive invariant.
LEMMA InitIInv == Init => IInv
  BY DEF Init, IInv, TypeOK, PcState, FlockExclusive, HeldIsCurrent, KeptFile,
         ProbeHistory, Procs, WriterPcs, ReaderPcs, Modes, Answers

\* Every step lets the running probes witness what holds around it.
LEMMA StepWitnesses == Next => Witness
  BY DEF Next, WriterNext, WriterStep, StartAcquire, OpenOrCreate, LockExclusive,
     LockRefused, AcquireReturnsOk, LockedStaleFile, VerifyFails, Retry, GiveUp,
     AcquireFails, DropRemove, DropClose, Kill, ReaderNext, ProbeStep,
     ProbeFindsNoFile, ProbeOpen, ProbeFails, ProbeLockShared, ProbeRefused, ProbeReturn

\* Every step keeps the type of every variable.
LEMMA TypeStep == TypeOK /\ [Next]_vars => TypeOK'
<1> SUFFICES ASSUME TypeOK, [Next]_vars PROVE TypeOK'
  OBVIOUS
<1>0. Readers \subseteq Procs /\ Writers \subseteq Procs
  BY DEF Procs
<1> USE <1>0 DEF TypeOK, WriterPcs, ReaderPcs, Modes, Answers
<1>1. ASSUME NEW w \in Writers, WriterNext(w) PROVE TypeOK'
  <2>0. witnessed' \in [Readers -> SUBSET {"writer", "unheld"}]
    BY <1>1, StepWitnesses DEF Witness, Next
  <2>1. CASE StartAcquire(w)
    BY <2>0, <2>1 DEF StartAcquire
  <2>2. CASE OpenOrCreate(w)
    <3>1. PICK i \in Inodes : path' = i /\ fd' = [fd EXCEPT ![w] = i]
      BY <2>2 DEF OpenOrCreate, Unused
    <3>2. QED
      BY <2>0, <2>2, <3>1 DEF OpenOrCreate
  <2>3. CASE LockExclusive(w)
    BY <2>0, <2>3 DEF LockExclusive
  <2>4. CASE LockRefused(w) \/ LockedStaleFile(w) \/ VerifyFails(w)
    BY <2>0, <2>4 DEF LockRefused, LockedStaleFile, VerifyFails, Closed
  <2>5. CASE AcquireReturnsOk(w)
    BY <2>0, <2>5 DEF AcquireReturnsOk
  <2>6. CASE Retry(w) \/ GiveUp(w)
    BY <2>0, <2>6 DEF Retry, GiveUp
  <2>7. CASE DropRemove(w)
    BY <2>0, <2>7 DEF DropRemove
  <2>8. CASE DropClose(w) \/ AcquireFails(w) \/ Kill(w)
    BY <2>0, <2>8 DEF DropClose, AcquireFails, Kill, Closed
  <2>9. QED
    BY <1>1, <2>1, <2>2, <2>3, <2>4, <2>5, <2>6, <2>7, <2>8 DEF WriterNext, WriterStep
<1>2. ASSUME NEW r \in Readers, ReaderNext(r) PROVE TypeOK'
  <2>0. witnessed' \in [Readers -> SUBSET {"writer", "unheld"}]
    BY <1>2, StepWitnesses DEF Witness, Next
  <2>1. CASE ProbeFindsNoFile(r) \/ ProbeOpen(r) \/ ProbeFails(r)
    BY <2>0, <2>1 DEF ProbeFindsNoFile, ProbeOpen, ProbeFails
  <2>2. CASE ProbeLockShared(r) \/ ProbeRefused(r)
    BY <2>0, <2>2 DEF ProbeLockShared, ProbeRefused
  <2>3. CASE ProbeReturn(r)
    BY <2>0, <2>3 DEF ProbeReturn, Closed
  <2>4. QED
    BY <1>2, <2>1, <2>2, <2>3 DEF ReaderNext, ProbeStep
<1>3. CASE UNCHANGED vars
  BY <1>3 DEF vars
<1>4. QED
  BY <1>1, <1>2, <1>3 DEF Next

\* What a step of a writer does to the processes other than it: nothing.
LEMMA WriterTouchesItself ==
  ASSUME TypeOK, NEW w \in Writers, WriterNext(w)
  PROVE  /\ \A p \in Procs \ {w} : fd'[p] = fd[p] /\ mode'[p] = mode[p] /\ pc'[p] = pc[p]
         /\ answer' = answer
<1>0. w \in Procs
  BY DEF Procs
<1> QED
  BY <1>0 DEF WriterNext, WriterStep, StartAcquire, OpenOrCreate, LockExclusive,
     LockRefused, AcquireReturnsOk, LockedStaleFile, VerifyFails, Retry, GiveUp,
     AcquireFails, DropRemove, DropClose, Kill, Closed, TypeOK

\* The same for a step of a reader, which never touches the path.
LEMMA ReaderTouchesItself ==
  ASSUME TypeOK, NEW r \in Readers, ReaderNext(r)
  PROVE  /\ \A p \in Procs \ {r} : fd'[p] = fd[p] /\ mode'[p] = mode[p] /\ pc'[p] = pc[p]
         /\ \A q \in Readers \ {r} : answer'[q] = answer[q]
         /\ path' = path
<1>0. r \in Procs
  BY DEF Procs
<1> QED
  BY <1>0 DEF ReaderNext, ProbeStep, ProbeFindsNoFile, ProbeFails, ProbeOpen, ProbeLockShared,
     ProbeRefused, ProbeReturn, Closed, TypeOK

\* A step of a writer keeps what it has open and locked in line with its pc.
LEMMA PcStateWriter ==
  ASSUME IInv, NEW w \in Writers, WriterNext(w)
  PROVE  PcState'
<1>0. w \in Procs /\ Writers \subseteq Procs /\ Readers \subseteq Procs /\ w \notin Readers
  BY DEF Procs
<1>1. /\ pc'[w] \in {"idle", "open", "sleep"} => fd'[w] = NoInode /\ mode'[w] = "none"
      /\ pc'[w] = "lock" => fd'[w] # NoInode /\ mode'[w] = "none"
      /\ pc'[w] \in {"verify", "held", "close"} =>
              fd'[w] # NoInode /\ mode'[w] = "exclusive"
  <2> USE <1>0 DEF IInv, TypeOK, PcState, WriterPcs
  <2>1. CASE StartAcquire(w) \/ Retry(w) \/ GiveUp(w)
    BY <2>1 DEF StartAcquire, Retry, GiveUp
  <2>2. CASE OpenOrCreate(w)
    <3>1. PICK i \in Inodes : fd' = [fd EXCEPT ![w] = i]
      BY <2>2 DEF OpenOrCreate, Unused
    <3>2. QED
      BY <2>2, <3>1 DEF OpenOrCreate
  <2>3. CASE LockExclusive(w) \/ AcquireReturnsOk(w) \/ DropRemove(w)
    BY <2>3 DEF LockExclusive, AcquireReturnsOk, DropRemove
  <2>4. CASE LockRefused(w) \/ LockedStaleFile(w) \/ VerifyFails(w)
    BY <2>4 DEF LockRefused, LockedStaleFile, VerifyFails, Closed
  <2>5. CASE AcquireFails(w) \/ DropClose(w) \/ Kill(w)
    BY <2>5 DEF AcquireFails, DropClose, Kill, Closed
  <2>6. QED
    BY <2>1, <2>2, <2>3, <2>4, <2>5 DEF WriterNext, WriterStep
<1>2. QED
  BY <1>0, <1>1, WriterTouchesItself DEF IInv, PcState

\* A step of a reader keeps what it has open and locked in line with its pc.
LEMMA PcStateReader ==
  ASSUME IInv, NEW r \in Readers, ReaderNext(r)
  PROVE  PcState'
<1>0. r \in Procs /\ Writers \subseteq Procs /\ Readers \subseteq Procs /\ r \notin Writers
  BY DEF Procs
<1>1. /\ pc'[r] = "idle" => fd'[r] = NoInode /\ mode'[r] = "none"
      /\ pc'[r] = "lock" => fd'[r] # NoInode /\ mode'[r] = "none"
      /\ pc'[r] = "done" => mode'[r] # "exclusive"
  BY <1>0 DEF IInv, TypeOK, PcState, ReaderNext, ProbeStep, ProbeFindsNoFile, ProbeFails, ProbeOpen,
     ProbeLockShared, ProbeRefused, ProbeReturn, Closed
<1>2. QED
  BY <1>0, <1>1, ReaderTouchesItself DEF IInv, PcState

\* flock stays exclusive: a lock is only granted where it conflicts with none.
LEMMA FlockExclusiveStep == IInv /\ [Next]_vars => FlockExclusive'
<1> SUFFICES ASSUME IInv, [Next]_vars,
                    NEW p \in Procs, NEW q \in Procs,
                    p # q, fd'[p] = fd'[q], mode'[p] = "exclusive"
             PROVE  mode'[q] = "none"
  BY DEF FlockExclusive
<1>0. Writers \subseteq Procs /\ Readers \subseteq Procs
  BY DEF Procs
<1> USE <1>0 DEF IInv, TypeOK, FlockExclusive
<1>1. ASSUME NEW w \in Writers, WriterNext(w) PROVE mode'[q] = "none"
  <2> HIDE DEF TypeOK
  <2>0. TypeOK
    BY DEF TypeOK
  <2>1. CASE OpenOrCreate(w)
    <3>1. mode' = mode /\ mode[w] = "none"
      BY <1>1, <2>1 DEF OpenOrCreate, PcState
    <3>2. CASE q = w
      BY <3>1, <3>2
    <3>3. CASE q # w
      BY <1>1, <2>0, <3>1, <3>3, WriterTouchesItself
    <3>4. QED
      BY <3>2, <3>3
  <2>2. CASE LockExclusive(w)
    BY <2>2 DEF LockExclusive, ExclusiveFree, TypeOK
  <2>3. CASE StartAcquire(w) \/ AcquireReturnsOk(w) \/ Retry(w) \/ GiveUp(w) \/ DropRemove(w)
    BY <2>3 DEF StartAcquire, AcquireReturnsOk, Retry, GiveUp, DropRemove
  <2>4. ASSUME Closed(w) PROVE mode'[q] = "none"
    BY <2>4 DEF Closed, TypeOK
  <2>5. QED
    BY <1>1, <2>1, <2>2, <2>3, <2>4 DEF WriterNext, WriterStep, LockRefused,
       LockedStaleFile, VerifyFails, AcquireFails, DropClose, Kill
<1>2. ASSUME NEW r \in Readers, ReaderNext(r) PROVE mode'[q] = "none"
  <2>1. CASE ProbeOpen(r)
    BY <2>1 DEF ProbeOpen, PcState
  <2>2. CASE ProbeLockShared(r)
    BY <2>2 DEF ProbeLockShared, SharedFree
  <2>3. CASE ProbeFindsNoFile(r) \/ ProbeFails(r) \/ ProbeRefused(r)
    BY <2>3 DEF ProbeFindsNoFile, ProbeFails, ProbeRefused
  <2>4. CASE ProbeReturn(r)
    BY <2>4 DEF ProbeReturn, Closed
  <2>5. QED
    BY <1>2, <2>1, <2>2, <2>3, <2>4 DEF ReaderNext, ProbeStep
<1>3. CASE UNCHANGED vars
  BY <1>3 DEF vars
<1>4. QED
  BY <1>1, <1>2, <1>3 DEF Next

\* A writer in its run has the named file locked, so the path can only be
\* removed by that writer itself and never be re-created under it.
LEMMA HeldIsCurrentStep == IInv /\ [Next]_vars => HeldIsCurrent'
<1> SUFFICES ASSUME IInv, [Next]_vars, NEW v \in Writers, pc'[v] = "held"
             PROVE  fd'[v] = path'
  BY DEF HeldIsCurrent
<1>0. v \in Procs /\ Writers \subseteq Procs /\ Readers \subseteq Procs /\ v \notin Readers
  BY DEF Procs
<1> USE <1>0 DEF IInv, HeldIsCurrent
<1>1. ASSUME NEW w \in Writers, WriterNext(w) PROVE fd'[v] = path'
  <2>1. CASE v = w
    <3>1. AcquireReturnsOk(w)
      BY <1>1, <2>1 DEF TypeOK, WriterNext, WriterStep, StartAcquire, OpenOrCreate,
         LockExclusive, LockRefused, LockedStaleFile, VerifyFails, Retry, GiveUp,
         AcquireFails, DropRemove, DropClose, Kill
    <3>2. QED
      BY <2>1, <3>1 DEF AcquireReturnsOk, LockFileIsCurrent, KeptFile, PcState
  <2>2. CASE v # w
    <3>1. pc[v] = "held" /\ fd'[v] = fd[v] /\ fd[v] = path
      BY <1>1, <2>2, WriterTouchesItself
    <3>2. CASE OpenOrCreate(w)
      BY <3>1, <3>2 DEF OpenOrCreate, PcState
    <3>3. CASE DropRemove(w)
      BY <2>2, <3>1, <3>3 DEF DropRemove, PcState, FlockExclusive
    <3>4. path' = path \/ OpenOrCreate(w) \/ DropRemove(w)
      BY <1>1 DEF WriterNext, WriterStep, StartAcquire, LockExclusive, LockRefused,
         AcquireReturnsOk, LockedStaleFile, VerifyFails, Retry, GiveUp,
         AcquireFails, DropClose, Kill
    <3>5. QED
      BY <3>1, <3>2, <3>3, <3>4
  <2>3. QED
    BY <2>1, <2>2
<1>2. ASSUME NEW r \in Readers, ReaderNext(r) PROVE fd'[v] = path'
  BY <1>2, ReaderTouchesItself
<1>3. CASE UNCHANGED vars
  BY <1>3 DEF vars
<1>4. QED
  BY <1>1, <1>2, <1>3 DEF Next

\* Where the file is never removed, every process that opens it opens the same.
LEMMA KeptFileStep == IInv /\ [Next]_vars => KeptFile'
<1> SUFFICES ASSUME IInv, [Next]_vars, ~RemovesFile, NEW p \in Procs, fd'[p] # NoInode
             PROVE  fd'[p] = path'
  BY DEF KeptFile
<1>0. Writers \subseteq Procs /\ Readers \subseteq Procs
  BY DEF Procs
<1> USE <1>0 DEF IInv, KeptFile
<1>1. ASSUME NEW w \in Writers, WriterNext(w) PROVE fd'[p] = path'
  <2>1. CASE OpenOrCreate(w)
    BY <2>1 DEF OpenOrCreate, Unused, TypeOK
  <2>2. ASSUME Closed(w), path' = path PROVE fd'[p] = path'
    BY <2>2 DEF Closed, TypeOK
  <2>3. ASSUME fd' = fd, path' = path PROVE fd'[p] = path'
    BY <2>3
  <2>4. QED
    BY <1>1, <2>1, <2>2, <2>3 DEF WriterNext, WriterStep, StartAcquire, LockExclusive,
       LockRefused, AcquireReturnsOk, LockedStaleFile, VerifyFails, Retry, GiveUp,
       AcquireFails, DropRemove, DropClose, Kill
<1>2. ASSUME NEW r \in Readers, ReaderNext(r) PROVE fd'[p] = path'
  BY <1>2 DEF ReaderNext, ProbeStep, ProbeFindsNoFile, ProbeFails, ProbeOpen, ProbeLockShared,
     ProbeRefused, ProbeReturn, Closed, TypeOK
<1>3. CASE UNCHANGED vars
  BY <1>3 DEF vars
<1>4. QED
  BY <1>1, <1>2, <1>3 DEF Next

\* The history of a probe: its file is only replaced by a writer finishing a
\* run that overlapped the probe, and its answer is backed by what it witnessed.
LEMMA ProbeHistoryStep == IInv /\ Next => ProbeHistory'
<1> SUFFICES ASSUME IInv, Next, NEW r \in Readers
             PROVE  ProbeHistory!(r)'
  BY DEF ProbeHistory
<1>0. /\ Writers \subseteq Procs /\ Readers \subseteq Procs
      /\ r \in Procs /\ r \notin Writers
      /\ TypeOK /\ TypeOK' /\ Witness
      /\ ProbeHistory!(r)
  BY TypeStep, StepWitnesses DEF Procs, IInv, ProbeHistory
<1> USE <1>0
<1>1. CASE pc[r] = "done" /\ pc'[r] = "done" /\ answer'[r] = answer[r]
  BY <1>1 DEF Witness
<1>2. CASE pc'[r] = "idle" /\ answer'[r] = "none"
  BY <1>2
\* A probe on its way keeps what it has witnessed.
<1>3. CASE pc[r] = "lock" /\ pc'[r] = "lock" /\ fd'[r] = fd[r] /\ answer'[r] = answer[r]
  <2>1. witnessed[r] \subseteq witnessed'[r]
    BY <1>3 DEF Witness
  <2>2. CASE fd[r] # path \/ fd'[r] = path'
    BY <1>3, <2>1, <2>2
  <2>3. CASE fd[r] = path /\ fd'[r] # path'
    <3>1. PICK w \in Writers : WriterNext(w)
      BY <1>3, <2>3, ReaderTouchesItself DEF Next
    <3>2. path # NoInode
      BY <1>3, <2>3 DEF IInv, PcState
    <3>3. DropRemove(w)
      BY <1>3, <2>3, <3>1, <3>2 DEF WriterNext, WriterStep, StartAcquire, OpenOrCreate,
         LockExclusive, LockRefused, AcquireReturnsOk, LockedStaleFile, VerifyFails,
         Retry, GiveUp, AcquireFails, DropClose, Kill
    <3>4. WriterPresent
      BY <3>3 DEF DropRemove, WriterPresent, IInv, PcState, HeldIsCurrent
    <3>5. Holders' = {}
      <4>1. ASSUME NEW v \in Writers, pc'[v] = "held" PROVE FALSE
        <5>1. v # w /\ pc[v] = "held"
          BY <3>3, <4>1 DEF DropRemove, TypeOK
        <5>2. QED
          BY <3>3, <5>1 DEF DropRemove, IInv, PcState, HeldIsCurrent, FlockExclusive
      <4>2. QED
        BY <4>1 DEF Holders
    <3>6. {"writer", "unheld"} \subseteq witnessed'[r]
      BY <1>3, <3>4, <3>5 DEF Witness
    <3>7. QED
      BY <1>3, <3>6
  <2>4. QED
    BY <2>2, <2>3
<1>4. CASE ProbeFindsNoFile(r)
  <2>1. pc'[r] = "done" /\ answer'[r] = "quiet"
    BY <1>4 DEF ProbeFindsNoFile, TypeOK
  <2>2. Holders = {}
    BY <1>4 DEF ProbeFindsNoFile, Holders, IInv, HeldIsCurrent, PcState
  <2>3. "unheld" \in witnessed'[r]
    BY <1>4, <2>1, <2>2 DEF Witness, ProbeFindsNoFile
  <2>4. QED
    BY <2>1, <2>3
<1>5. CASE ProbeOpen(r)
  BY <1>5 DEF ProbeOpen, TypeOK
<1>6. CASE ProbeLockShared(r)
  <2>1. pc[r] = "lock" /\ pc'[r] = "done" /\ answer'[r] = "quiet"
    BY <1>6 DEF ProbeLockShared, TypeOK
  <2>2. CASE fd[r] = path
    <3>1. Holders = {}
      BY <1>6, <2>2 DEF ProbeLockShared, SharedFree, Holders, IInv, HeldIsCurrent, PcState
    <3>2. QED
      BY <2>1, <3>1 DEF Witness
  <2>3. CASE fd[r] # path
    BY <2>1, <2>3 DEF Witness
  <2>4. QED
    BY <2>2, <2>3
<1>7. CASE ProbeRefused(r)
  <2>1. pc[r] = "lock" /\ pc'[r] = "done" /\ answer'[r] = "writing"
    BY <1>7 DEF ProbeRefused, TypeOK
  <2>2. CASE fd[r] = path
    <3>1. PICK q \in Procs \ {r} : fd[q] = fd[r] /\ mode[q] = "exclusive"
      BY <1>7 DEF ProbeRefused, SharedFree
    <3>2. q \in Writers /\ pc[q] \in {"verify", "held", "close"}
      BY <3>1 DEF IInv, TypeOK, PcState, Procs, WriterPcs, ReaderPcs
    <3>3. WriterPresent
      BY <2>2, <3>1, <3>2 DEF WriterPresent
    <3>4. QED
      BY <2>1, <3>3 DEF Witness
  <2>3. CASE fd[r] # path
    BY <2>1, <2>3 DEF Witness
  <2>4. QED
    BY <2>2, <2>3
<1>8. CASE ProbeReturn(r)
  BY <1>8 DEF ProbeReturn, TypeOK
<1>9. CASE ProbeFails(r)
  BY <1>9 DEF ProbeFails, TypeOK
<1>10. QED
  <2>1. CASE \E w \in Writers : WriterNext(w)
    BY <1>1, <1>2, <1>3, <2>1, WriterTouchesItself DEF TypeOK, ReaderPcs
  <2>2. CASE \E q \in Readers \ {r} : ReaderNext(q)
    BY <1>1, <1>2, <1>3, <2>2, ReaderTouchesItself DEF TypeOK, ReaderPcs
  <2>3. CASE ReaderNext(r)
    BY <1>4, <1>5, <1>6, <1>7, <1>8, <1>9, <2>3 DEF ReaderNext, ProbeStep
  <2>4. QED
    BY <2>1, <2>2, <2>3 DEF Next

-----------------------------------------------------------------------------
(* The theorems.                                                           *)

\* The invariant holds in every reachable state of the lock file protocol.
LEMMA Invariant == Spec => []IInv
<1>1. IInv /\ [Next]_vars => IInv'
  <2> SUFFICES ASSUME IInv, [Next]_vars PROVE IInv'
    OBVIOUS
  <2>1. TypeOK'
    BY TypeStep DEF IInv
  <2>2. PcState'
    <3>1. CASE UNCHANGED vars
      BY <3>1 DEF vars, IInv, PcState
    <3>2. QED
      BY <3>1, PcStateWriter, PcStateReader DEF Next
  <2>3. FlockExclusive' /\ HeldIsCurrent' /\ KeptFile'
    BY FlockExclusiveStep, HeldIsCurrentStep, KeptFileStep
  <2>4. ProbeHistory'
    <3>1. CASE UNCHANGED vars
      BY <3>1 DEF vars, IInv, ProbeHistory
    <3>2. QED
      BY <3>1, ProbeHistoryStep
  <2>5. QED
    BY <2>1, <2>2, <2>3, <2>4 DEF IInv
<1>2. QED
  BY InitIInv, <1>1, PTL DEF Spec

\* Every variable of the lock protocol keeps its type.
THEOREM TypeCorrect == Spec => []TypeOK
<1>1. IInv => TypeOK
  BY DEF IInv
<1>2. QED
  BY Invariant, <1>1, PTL

\* A writer inside its run has the file at the path locked: its drop removes
\* its own file, never one that another writer has locked since.
THEOREM RunOwnsPath == Spec => []HolderOwnsPath
<1>1. IInv => HolderOwnsPath
  BY DEF IInv, HolderOwnsPath, HeldIsCurrent, PcState
<1>2. QED
  BY Invariant, <1>1, PTL

\* `ok index`, `ok watch` and `ok snapshot import` never run at the same time,
\* although the lock file is unlinked and re-created under the waiting ones.
THEOREM WritersExclude == Spec => []MutualExclusion
<1>1. IInv => MutualExclusion
  BY DEF IInv, MutualExclusion, HeldIsCurrent, PcState, FlockExclusive, Procs
<1>2. QED
  BY Invariant, <1>1, PTL

\* What index_write_in_progress answers was true at an instant of the call, unless
\* the probe met an I/O error.
THEOREM ProbesLinearize == Spec => []ProbeLinearizable
<1>1. IInv => ProbeLinearizable
  BY DEF IInv, ProbeLinearizable, ProbeHistory
<1>2. QED
  BY Invariant, <1>1, PTL

\* The lock file protocol implements the abstract mutex.
THEOREM LockImplementsMutex == Spec => ImplementsMutex
<1>1. Init => Mutex!MInit
  BY DEF Init, Mutex!MInit, Holders, Procs
<1>2. ASSUME IInv, IInv', [Next]_vars PROVE [Mutex!MNext]_Holders
  <2>0. Writers \subseteq Procs /\ Readers \subseteq Procs
    BY DEF Procs
  <2>1. ASSUME NEW w \in Writers, WriterNext(w) PROVE [Mutex!MNext]_Holders
    <3>1. \A v \in Writers \ {w} : v \in Holders' <=> v \in Holders
      BY <1>2, <2>0, <2>1, WriterTouchesItself DEF Holders, IInv
    <3>2. CASE w \in Holders' /\ w \notin Holders
      <4>1. Holders' = {w}
        <5>1. ASSUME NEW v \in Holders' PROVE v = w
          BY <1>2, <3>2, <5>1 DEF Holders, IInv, PcState, HeldIsCurrent, FlockExclusive, Procs
        <5>2. QED
          BY <3>2, <5>1
      <4>2. Holders = {}
        BY <3>1, <3>2, <4>1 DEF Holders
      <4>3. QED
        BY <4>1, <4>2 DEF Mutex!MNext, Mutex!MAcquire
    <3>3. CASE w \in Holders /\ w \notin Holders'
      <4>1. Holders' = Holders \ {w}
        BY <3>1, <3>3 DEF Holders
      <4>2. QED
        BY <3>3, <4>1 DEF Mutex!MNext, Mutex!MRelease
    <3>4. CASE w \in Holders <=> w \in Holders'
      <4>1. Holders' = Holders
        BY <3>1, <3>4 DEF Holders
      <4>2. QED
        BY <4>1
    <3>5. QED
      BY <3>2, <3>3, <3>4
  <2>2. ASSUME NEW r \in Readers, ReaderNext(r) PROVE Holders' = Holders
    BY <1>2, <2>0, <2>2, ReaderTouchesItself DEF Holders, IInv
  <2>3. CASE UNCHANGED vars
    BY <2>3 DEF vars, Holders
  <2>4. QED
    BY <1>2, <2>1, <2>2, <2>3 DEF Next
<1>3. QED
  BY <1>1, <1>2, Invariant, PTL DEF Spec, ImplementsMutex, Mutex!MSpec
=============================================================================
