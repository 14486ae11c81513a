------------------------ MODULE SemanticStoreProofs ------------------------
(***************************************************************************)
(* Proofs about SemanticStore for any paths and readers, with kills,       *)
(* errors and unlocked readers at every step.  Three of its constants      *)
(* matter to the promises: GenerationsKept and PromotesComplete hold where *)
(* nothing runs `ok semantic clean`, PrunesClear where a removal that      *)
(* fails has removed nothing, GenerationsNeverCorrupt where both are so,   *)
(* and SearchesAnswerIndexed where moreover no watch event is killed       *)
(* between its partial update and its manifest.                            *)
(***************************************************************************)
EXTENDS SemanticStore, TLAPS

USE StoreAssumption, GenerationAssumption

-----------------------------------------------------------------------------
(* Generations.                                                            *)

\* A new build directory is a generation.
LEMMA EmptyTyped == Empty \in Generations
  BY DEF Empty, Generations

\* Whatever files a removal leaves, what remains is a generation.
LEMMA TornTyped ==
    ASSUME NEW g \in MaybeGeneration
    PROVE  TornApart(g) \subseteq Generations
<1> SUFFICES ASSUME NEW kept \in SUBSET g.files, Exists(g)
             PROVE  Torn(g, kept) \in Generations
  BY DEF TornApart
<1>1. g \in Generations
  BY DEF MaybeGeneration, Exists
<1>2. QED
  BY <1>1 DEF Torn, Generations

\* A generation that no longer describes the published index is one still.
LEMMA OutdatedTyped ==
    ASSUME NEW g \in MaybeGeneration
    PROVE  Outdated(g) \in MaybeGeneration
  BY DEF Outdated, MaybeGeneration, Exists, Generations

\* ... with the same files.
LEMMA OutdatedKeepsFiles ==
    ASSUME NEW g \in MaybeGeneration
    PROVE  /\ Exists(Outdated(g)) = Exists(g)
           /\ Complete(Outdated(g)) = Complete(g)
           /\ Quoted(Outdated(g)) = Quoted(g)
  BY OutdatedTyped DEF Outdated, MaybeGeneration, Exists, Generations, Complete, Quoted

-----------------------------------------------------------------------------
(* Types.                                                                  *)

LEMMA InitTyped == Init => TypeOK
<1> SUFFICES ASSUME Init PROVE TypeOK
  OBVIOUS
<1>1. /\ lock \subseteq Readers \cup {Writer} /\ probing \subseteq Readers
      /\ (Writer \in lock) = (pc # "idle")
  BY DEF Init
<1>2. /\ rows \subseteq Paths /\ listed \subseteq Paths /\ leftover \subseteq Paths
      /\ {published, removing, swept, sound} \subseteq BOOLEAN
  BY DEF Init
<1>3. /\ {current, previous, build} \subseteq MaybeGeneration
      /\ pc \in WriterPcs /\ cleaning \in {"idle", "builds", "cleaned"}
  BY DEF Init, MaybeGeneration, WriterPcs
<1>4. /\ rpc \in [Readers -> ReaderPcs]
      /\ {found, answer, heldSince} \subseteq [Searchers -> SUBSET Paths]
  BY DEF Init, ReaderPcs
<1>5. QED
  BY <1>1, <1>2, <1>3, <1>4 DEF TypeOK

LEMMA RunTyped ==
    TypeOK /\ (Acquire \/ EndRun \/ Stage \/ Publish \/ DiscardStore) => TypeOK'
<1> SUFFICES ASSUME TypeOK, Acquire \/ EndRun \/ Stage \/ Publish \/ DiscardStore PROVE TypeOK'
  OBVIOUS
<1> USE DEF TypeOK, reading, index, history, dirs, Step, WriterPcs
<1>1. CASE Acquire
  BY <1>1 DEF Acquire, Mutex!MAcquire
<1>2. CASE EndRun
  <2>1. Quoted(build) \subseteq Paths
    BY DEF Quoted, Exists, MaybeGeneration, Generations
  <2>2. published' \in BOOLEAN
    BY <1>2 DEF EndRun
  <2>3. /\ lock' = lock \ {Writer} /\ pc' = "idle" /\ removing' = FALSE
        /\ leftover' = leftover \cup Quoted(build) /\ build' = NoGeneration
        /\ UNCHANGED <<probing, rows, listed, current, previous, reading, cleaning, history>>
    BY <1>2 DEF EndRun, Mutex!MRelease
  <2>4. (Writer \in lock') = (pc' # "idle") /\ lock' \subseteq Readers \cup {Writer}
    BY <2>3
  <2>5. leftover' \subseteq Paths /\ {current', previous', build'} \subseteq MaybeGeneration
    BY <2>1, <2>3 DEF MaybeGeneration
  <2>6. {published', removing', swept', sound'} \subseteq BOOLEAN
    BY <2>2, <2>3
  <2>7. QED
    BY <2>3, <2>4, <2>5, <2>6
<1>3. CASE Stage
  <2>1. /\ published' \in BOOLEAN /\ swept' \in BOOLEAN
    BY <1>3 DEF Stage
  <2>2. heldSince' \in [Searchers -> SUBSET Paths]
    BY <1>3 DEF Stage
  <2>3. pc' \in {"publish", "publish_kept"} /\ pc # "idle" /\ lock' = lock /\ probing' = probing
    BY <1>3 DEF Stage
  <2>4. /\ rows' \in SUBSET Paths
        /\ UNCHANGED <<listed, dirs, removing, rpc, found, answer, cleaning, sound>>
    BY <1>3 DEF Stage
  <2>5. QED
    BY <2>1, <2>2, <2>3, <2>4
<1>4. CASE Publish
  BY <1>4, OutdatedTyped DEF Publish
<1>5. CASE DiscardStore
  BY <1>5, TornTyped DEF DiscardStore, MaybeGeneration
<1>6. QED
  BY <1>1, <1>2, <1>3, <1>4, <1>5

\* A rewriting step leaves the current generation a generation.
LEMMA RewriteTyped ==
    ASSUME TypeOK,
           PruneMarks \/ PruneDropsIndex \/ StageIds \/ SwapIds \/ StageCache \/ SwapCache
           \/ PruneCompletes
    PROVE  current \in Generations /\ current' \in Generations
<1> USE DEF TypeOK
<1>1. current \in Generations
  BY DEF PruneMarks, PruneDropsIndex, StageIds, SwapIds, StageCache, SwapCache, Rewrite,
         PruneCompletes, MaybeGeneration, Exists
<1>2. CASE PruneMarks
  BY <1>1, <1>2 DEF PruneMarks, Rewrite, Generations, Names, With
<1>3. CASE PruneDropsIndex
  BY <1>1, <1>3 DEF PruneDropsIndex, Rewrite, Generations, Without
<1>4. CASE StageIds \/ StageCache
  BY <1>1, <1>4 DEF StageIds, StageCache, Rewrite, Generations
<1>5. CASE SwapIds \/ SwapCache
  BY <1>1, <1>5 DEF SwapIds, SwapCache, Rewrite, Generations
<1>6. CASE PruneCompletes
  BY <1>1, <1>6 DEF PruneCompletes, Generations
<1>7. QED
  BY <1>1, <1>2, <1>3, <1>4, <1>5, <1>6

LEMMA PruneTyped == TypeOK /\ Prune => TypeOK'
<1> SUFFICES ASSUME TypeOK, Prune PROVE TypeOK'
  OBVIOUS
<1> USE DEF TypeOK, reading, index, history, dirs, Step, WriterPcs
<1>1. CASE PruneBuilds \/ PruneFindsNothing \/ PruneMissesMarker \/ PruneUnreadable
          \/ RewriteFails
  BY <1>1 DEF PruneBuilds, PruneFindsNothing, PruneMissesMarker, PruneUnreadable, RewriteFails
<1>2. CASE PruneStarts
  BY <1>2 DEF PruneStarts
<1>3. CASE PrunePrevious
  BY <1>3 DEF PrunePrevious, MaybeGeneration
<1>4. CASE PruneMarks \/ PruneDropsIndex \/ StageIds \/ SwapIds \/ StageCache \/ SwapCache
           \/ PruneCompletes
  <2>2. current' \in Generations
    BY <1>4, RewriteTyped
  <2>3. QED
    BY <1>4, <2>2 DEF PruneMarks, PruneDropsIndex, StageIds, SwapIds, StageCache, SwapCache,
                Rewrite, PruneCompletes, MaybeGeneration
<1>5. CASE DiscardCurrent
  BY <1>5 DEF DiscardCurrent, MaybeGeneration
<1>6. CASE PruneFails
  BY <1>6, TornTyped DEF PruneFails, MaybeGeneration
<1>7. QED
  BY <1>1, <1>2, <1>3, <1>4, <1>5, <1>6 DEF Prune

\* A build begins with its manifest and its targets.
LEMMA TargetsTyped ==
    ASSUME TypeOK, WriteTargets
    PROVE  /\ build' \in Generations
           /\ build'.files = {"manifest", "ids"} /\ build'.ids = rows
           /\ build'.cache = {} /\ build'.index = {}
           /\ build'.stagedIds = {} /\ build'.stagedCache = {}
  BY DEF TypeOK, WriteTargets, Empty, Generations, Names

\* The vectors of the same rows are added.
LEMMA IndexTyped ==
    ASSUME TypeOK, WriteIndex
    PROVE  LET begun == IF Exists(build) THEN build ELSE Empty
           IN /\ begun \in Generations /\ build' \in Generations
              /\ build'.files = begun.files \cup {"cache", "index"} /\ build'.ids = begun.ids
              /\ build'.cache = rows /\ build'.index = rows
              /\ build'.stagedIds = begun.stagedIds
              /\ build'.stagedCache = begun.stagedCache
<1> DEFINE begun == IF Exists(build) THEN build ELSE Empty
<1>1. begun \in Generations
  BY EmptyTyped DEF Exists, MaybeGeneration, TypeOK
<1>2. build' = [begun EXCEPT !.files = @ \cup {"cache", "index"}, !.cache = rows, !.index = rows]
  BY DEF WriteIndex
<1>3. rows \subseteq Paths
  BY DEF TypeOK
<1> HIDE DEF begun
<1>4. QED
  BY <1>1, <1>2, <1>3 DEF Generations, Names, begun

LEMMA BuildTyped == TypeOK /\ Build => TypeOK'
<1> SUFFICES ASSUME TypeOK, Build PROVE TypeOK'
  OBVIOUS
<1> USE DEF TypeOK, reading, index, history, dirs, Step, WriterPcs
<1>1. Quoted(build) \subseteq Paths
  BY DEF Quoted, Exists, MaybeGeneration, Generations
<1>2. CASE BuildNext
  BY <1>2 DEF BuildNext
<1>3. CASE BuildRecovers \/ RecoveryIgnored
  BY <1>3 DEF BuildRecovers, RecoveryIgnored, RecoverPrevious, MaybeGeneration
<1>4. CASE StartBuild
  BY <1>4, EmptyTyped DEF StartBuild, MaybeGeneration
<1>5. CASE WriteTargets
  BY <1>5, TargetsTyped DEF WriteTargets, MaybeGeneration
<1>6. CASE WriteIndex
  BY <1>6, IndexTyped DEF WriteIndex, MaybeGeneration
<1>7. CASE BuildFails \/ MoveAsideFails
  BY <1>1, <1>7 DEF BuildFails, MoveAsideFails, MaybeGeneration
<1>8. CASE ClearPrevious \/ TidyPrevious
  BY <1>8, TornTyped DEF ClearPrevious, TidyPrevious, RemovePrevious, MaybeGeneration
<1>9. CASE MoveAside
  BY <1>9 DEF MoveAside, MaybeGeneration
<1>10. CASE Promote
  BY <1>10 DEF Promote, MaybeGeneration
<1>11. CASE PromoteFails
  BY <1>1, <1>11 DEF PromoteFails, RecoverPrevious, MaybeGeneration
<1>12. QED
  BY <1>2, <1>3, <1>4, <1>5, <1>6, <1>7, <1>8, <1>9, <1>10, <1>11 DEF Build

LEMMA CleanTyped == TypeOK /\ (CleanAll \/ CleanCurrent \/ CleanBuilds) => TypeOK'
<1> SUFFICES ASSUME TypeOK, CleanAll \/ CleanCurrent \/ CleanBuilds PROVE TypeOK'
  OBVIOUS
<1> USE DEF TypeOK, reading, index, history, dirs
<1>1. CASE CleanAll \/ CleanBuilds
  BY <1>1 DEF CleanAll, CleanBuilds, MaybeGeneration
<1>2. CASE CleanCurrent
  BY <1>2, TornTyped DEF CleanCurrent, MaybeGeneration
<1>3. QED
  BY <1>1, <1>2

LEMMA ReadTyped == ASSUME NEW r \in Readers PROVE TypeOK /\ Read(r) => TypeOK'
<1> SUFFICES ASSUME TypeOK, Read(r) PROVE TypeOK'
  OBVIOUS
<1> USE DEF TypeOK, index, ReaderStep, ReaderPcs
<1>1. CASE Probe(r) \/ EndProbe(r) \/ TryLockFails(r) \/ LeaveToWriter(r) \/ NoWriter(r)
          \/ ProbeFails(r)
  BY <1>1 DEF Probe, EndProbe, TryLockFails, LeaveToWriter, NoWriter, ProbeFails, Quiet
<1>2. CASE StatusBegins(r)
  BY <1>2 DEF StatusBegins, Quiet
<1>3. CASE TryLock(r)
  BY <1>3 DEF TryLock, Mutex!MAcquire
<1>4. CASE Recheck(r)
  BY <1>4 DEF Recheck
<1>5. CASE StatusRecovers(r)
  BY <1>5 DEF StatusRecovers, RecoverPrevious, MaybeGeneration
<1>6. CASE Assess(r)
  BY <1>6 DEF Assess, Quiet
<1>7. CASE ReadTargets(r)
  BY <1>7 DEF ReadTargets, Quiet, MaybeGeneration, Exists, Generations
<1>8. CASE SearchHits(r)
  BY <1>8 DEF SearchHits, Quiet
<1>9. CASE SearchReturns(r)
  BY <1>9 DEF SearchReturns, Quiet
<1>10. QED
  BY <1>1, <1>2, <1>3, <1>4, <1>5, <1>6, <1>7, <1>8, <1>9 DEF Read

\* The generations stay generations, the writer holds the lock while it runs, and
\* what searches hold are paths, whatever is killed, removed partway or cleaned.
THEOREM StoreTypeCorrect == Spec => []TypeOK
<1>1. TypeOK /\ [Next]_vars => TypeOK'
  <2> SUFFICES ASSUME TypeOK, [Next]_vars PROVE TypeOK'
    OBVIOUS
  <2>1. CASE UNCHANGED vars
    BY <2>1 DEF TypeOK, vars, index, dirs, reading, history
  <2>2. CASE Next
    BY <2>2, RunTyped, PruneTyped, BuildTyped, CleanTyped, ReadTyped DEF Next
  <2>3. QED
    BY <2>1, <2>2
<1>2. QED
  BY InitTyped, <1>1, PTL DEF Spec

-----------------------------------------------------------------------------
(***************************************************************************)
(* Where the last complete generation is.                                  *)
(***************************************************************************)
\* The directory a build writes holds what has been written to it so far.
BuildHasFiles ==
    /\ pc = "finish" => Exists(build) /\ {"manifest", "ids"} \subseteq build.files
    /\ pc \in {"clear", "aside", "promote"} => Complete(build)

\* A complete generation that nothing removed is current, or the previous one while
\* there is no current one.
KeptSomewhere ==
    sound => Complete(current) \/ (~Exists(current) /\ Complete(previous))

\* From its recovery to its own renames a build sees it as current: what a build
\* removes is not the last complete generation.
CurrentWhileBuilding ==
    sound /\ pc \in {"start", "write", "finish", "clear", "tidy"} => Complete(current)

KeepInv ==
    /\ TypeOK
    /\ cleaning = "idle"
    /\ BuildHasFiles
    /\ KeptSomewhere
    /\ CurrentWhileBuilding

LEMMA InitKept == Init => KeepInv
  BY InitTyped DEF Init, KeepInv, BuildHasFiles, KeptSomewhere, CurrentWhileBuilding

\* A discarded store is not kept; publishing leaves every file where it is.
LEMMA RunKeeps ==
    KeepInv /\ (Acquire \/ EndRun \/ Stage \/ Publish \/ DiscardStore) => KeepInv'
<1> SUFFICES ASSUME KeepInv, Acquire \/ EndRun \/ Stage \/ Publish \/ DiscardStore
             PROVE  KeepInv'
  OBVIOUS
<1>1. TypeOK'
  BY RunTyped DEF KeepInv
<1> USE DEF KeepInv, BuildHasFiles, KeptSomewhere, CurrentWhileBuilding, reading, index,
        history, dirs, Step
<1>2. CASE Acquire \/ Stage \/ DiscardStore
  BY <1>1, <1>2 DEF Acquire, Stage, DiscardStore
<1>3. CASE EndRun
  <2>1. pc' = "idle" /\ UNCHANGED <<current, previous, cleaning, sound>>
    BY <1>3 DEF EndRun
  <2>2. QED
    BY <1>1, <2>1 DEF Complete, Exists
<1>4. CASE Publish
  <2>1. /\ Exists(current') = Exists(current) /\ Complete(current') = Complete(current)
        /\ Complete(previous') = Complete(previous)
    BY <1>4, OutdatedKeepsFiles DEF Publish, TypeOK
  <2>2. QED
    BY <1>1, <1>4, <2>1 DEF Publish, Complete, Exists
<1>5. QED
  BY <1>2, <1>3, <1>4

\* A prune has no build, recovers a previous generation that is alone, and lets `sound`
\* go whenever it touches the current generation before its last write.
LEMMA PruneKeeps == KeepInv /\ Prune => KeepInv'
<1> SUFFICES ASSUME KeepInv, Prune PROVE KeepInv'
  OBVIOUS
<1>1. TypeOK'
  BY PruneTyped DEF KeepInv
<1> USE DEF KeepInv, BuildHasFiles, KeptSomewhere, CurrentWhileBuilding, reading, index,
        history, dirs, Step
<1>2. CASE PruneBuilds \/ PruneFindsNothing \/ PruneMissesMarker \/ PruneUnreadable
          \/ PruneStarts \/ RewriteFails
  BY <1>1, <1>2 DEF PruneBuilds, PruneFindsNothing, PruneMissesMarker, PruneUnreadable,
                    PruneStarts, RewriteFails
<1>3. CASE PrunePrevious
  BY <1>1, <1>3 DEF PrunePrevious, Complete, Exists
<1>4. CASE PruneMarks \/ PruneDropsIndex \/ StageIds \/ SwapIds \/ StageCache \/ SwapCache
  BY <1>1, <1>4 DEF PruneMarks, PruneDropsIndex, StageIds, SwapIds, StageCache, SwapCache,
                    Rewrite
<1>5. CASE PruneCompletes
  <2>1. Complete(current) => Complete(current')
    BY <1>1, <1>5 DEF PruneCompletes, Complete, Exists, TypeOK, MaybeGeneration, Generations
  <2>2. QED
    BY <1>1, <1>5, <2>1 DEF PruneCompletes
<1>6. CASE DiscardCurrent
  BY <1>1, <1>6 DEF DiscardCurrent
<1>7. CASE PruneFails
  BY <1>1, <1>7 DEF PruneFails, Complete, Exists
<1>8. QED
  BY <1>2, <1>3, <1>4, <1>5, <1>6, <1>7 DEF Prune

\* What a build removes is a previous generation beside a complete current one.
LEMMA BuildKeeps == KeepInv /\ Build => KeepInv' /\ (Promote => Complete(build))
<1> SUFFICES ASSUME KeepInv, Build PROVE KeepInv' /\ (Promote => Complete(build))
  OBVIOUS
<1>1. TypeOK'
  BY BuildTyped DEF KeepInv
<1> USE DEF KeepInv, BuildHasFiles, KeptSomewhere, CurrentWhileBuilding, reading, index,
        history, dirs, Step
<1>2. CASE BuildNext \/ StartBuild \/ BuildFails
  BY <1>1, <1>2 DEF BuildNext, StartBuild, BuildFails, Promote
<1>3. CASE BuildRecovers \/ RecoveryIgnored
  BY <1>1, <1>3 DEF BuildRecovers, RecoveryIgnored, Recoverable, RecoverPrevious, Complete,
                    Exists, Promote
<1>4. CASE WriteTargets
  <2>1. Exists(build') /\ {"manifest", "ids"} \subseteq build'.files
    BY <1>4, TargetsTyped DEF Exists
  <2>2. QED
    BY <1>1, <1>4, <2>1 DEF WriteTargets, Promote
<1>5. CASE WriteIndex
  <2>1. Complete(build')
    BY <1>5, IndexTyped DEF WriteIndex, Complete, Exists
  <2>2. QED
    BY <1>1, <1>5, <2>1 DEF WriteIndex, Promote
<1>6. CASE ClearPrevious \/ TidyPrevious
  BY <1>1, <1>6 DEF ClearPrevious, TidyPrevious, RemovePrevious, Promote
<1>7. CASE MoveAside
  BY <1>1, <1>7 DEF MoveAside, Promote, Complete, Exists
<1>8. CASE MoveAsideFails
  BY <1>1, <1>8 DEF MoveAsideFails, Promote
<1>9. CASE Promote
  BY <1>1, <1>9 DEF Promote
<1>10. CASE PromoteFails
  BY <1>1, <1>10 DEF PromoteFails, RecoverPrevious, Promote, Complete, Exists
<1>11. QED
  BY <1>2, <1>3, <1>4, <1>5, <1>6, <1>7, <1>8, <1>9, <1>10 DEF Build

\* A reader renames the previous generation to a place that is free.
LEMMA ReadKeeps == ASSUME NEW r \in Readers PROVE KeepInv /\ Read(r) => KeepInv'
<1> SUFFICES ASSUME KeepInv, Read(r) PROVE KeepInv'
  OBVIOUS
<1>1. TypeOK'
  BY ReadTyped DEF KeepInv
<1>2. /\ UNCHANGED <<pc, build, cleaning, sound>>
      /\ \/ UNCHANGED <<current, previous>>
         \/ ~Exists(current) /\ RecoverPrevious
  BY DEF Read, Probe, EndProbe, StatusBegins, TryLock, TryLockFails, LeaveToWriter, NoWriter,
         ProbeFails, Recheck, StatusRecovers, Assess, ReadTargets, SearchHits, SearchReturns,
         ReaderStep, Quiet
<1>3. QED
  BY <1>1, <1>2 DEF KeepInv, BuildHasFiles, KeptSomewhere, CurrentWhileBuilding,
                    RecoverPrevious, Complete, Exists

LEMMA NextKeeps == ~Cleans /\ KeepInv /\ [Next]_vars => KeepInv'
<1> SUFFICES ASSUME ~Cleans, KeepInv, [Next]_vars PROVE KeepInv'
  OBVIOUS
<1>1. CASE UNCHANGED vars
  BY <1>1 DEF KeepInv, TypeOK, BuildHasFiles, KeptSomewhere, CurrentWhileBuilding, vars,
              index, dirs, reading, history, Complete, Exists
<1>2. ~(CleanAll \/ CleanCurrent \/ CleanBuilds)
  BY DEF CleanAll, CleanCurrent, CleanBuilds, KeepInv
<1>3. CASE Next
  BY <1>2, <1>3, RunKeeps, PruneKeeps, BuildKeeps, ReadKeeps DEF Next
<1>4. QED
  BY <1>1, <1>3

\* While nothing cleans the store, a complete generation once promoted survives every
\* failed or killed build, recovery and removal that stops partway (`promote`), unless a
\* build ignores that it could not recover it, and so comes to remove it.
THEOREM GenerationsKept ==
    ASSUME ~Cleans
    PROVE  Spec => []LastGoodKept
<1>1. ~Cleans
  OBVIOUS
<1>2. KeepInv /\ [Next]_vars => KeepInv'
  BY <1>1, NextKeeps
<1>3. KeepInv => LastGoodKept
  BY DEF KeepInv, KeptSomewhere, LastGoodKept
<1>4. QED
  BY InitKept, <1>2, <1>3, PTL DEF Spec

\* While nothing cleans the store, only a build whose files are all written is promoted.
THEOREM PromotesComplete ==
    ASSUME ~Cleans
    PROVE  Spec => PromotedComplete
<1>1. ~Cleans
  OBVIOUS
<1>2. KeepInv /\ [Next]_vars => KeepInv'
  BY <1>1, NextKeeps
<1>3. KeepInv /\ [Next]_vars => [Promote => Complete(build)]_vars
  <2> SUFFICES ASSUME KeepInv, [Next]_vars, Promote PROVE Complete(build)
    OBVIOUS
  <2>1. QED
    BY BuildKeeps DEF Build
<1>4. QED
  BY InitKept, <1>2, <1>3, PTL DEF Spec, PromotedComplete

-----------------------------------------------------------------------------
(***************************************************************************)
(* What a prune has established, whatever earlier ones were interrupted.   *)
(***************************************************************************)
\* Only a generation whose marker says it is being rewritten quotes in its other files
\* what its targets no longer do.
WellFormed(g) ==
    Exists(g) =>
        /\ g.stagedIds \subseteq g.ids
        /\ "ids" \in g.files /\ ~Interrupted(g) =>
               g.cache \subseteq g.ids /\ g.index \subseteq g.ids /\ g.stagedCache = {}

\* A build exists from its first directory to its promotion, and quotes indexed paths,
\* all of them once its targets are written.
BuildQuotesRows ==
    /\ pc \notin {"write", "finish", "clear", "aside", "promote"} => build = NoGeneration
    /\ pc = "finish" /\ Exists(build) => build.ids = rows /\ build.stagedCache = {}
    /\ Quoted(build) \subseteq rows

Rewriting == {"unindex", "ids", "swap_ids", "cache", "swap_cache", "complete"}

\* A prune clears the other directories before it reads the current one.
OthersCleared ==
    /\ pc \in Rewriting \cup {"previous", "read", "mark", "discard"} => leftover = {}
    /\ pc \in Rewriting \cup {"read", "mark", "discard"} => previous = NoGeneration

\* How far the rewriting of the current generation is.
RewrittenSoFar ==
    Exists(current) =>
        /\ pc \in Rewriting => Interrupted(current)
        /\ pc \in Rewriting \cup {"mark"} /\ ~removing => current.ids \subseteq rows
        /\ pc \in Rewriting \ {"unindex"} => current.index = {}
        /\ pc = "swap_ids" => current.stagedIds \subseteq rows
        /\ pc \in {"cache", "swap_cache", "complete"} => current.ids \subseteq rows
        /\ pc = "swap_cache" => current.stagedCache \subseteq current.ids
        /\ pc = "complete" => current.cache \subseteq current.ids /\ current.stagedCache = {}

PruneInv ==
    /\ TypeOK
    /\ WellFormed(current) /\ WellFormed(previous) /\ WellFormed(build)
    /\ BuildQuotesRows
    /\ OthersCleared
    /\ RewrittenSoFar
    /\ PrunedStoreHoldsNothing

\* Without partial removals nothing is left of what a removal removes.
LEMMA NothingTorn == ~PartialRemovals => \A g : TornApart(g) = {}
  BY DEF TornApart

LEMMA InitPruned == Init => PruneInv
  BY InitTyped DEF Init, PruneInv, WellFormed, BuildQuotesRows, OthersCleared, Rewriting,
                   RewrittenSoFar, PrunedStoreHoldsNothing, Quoted, Exists

\* Publishing changes nothing that a generation quotes.
LEMMA OutdatedWellFormed ==
    ASSUME NEW g \in MaybeGeneration, WellFormed(g)
    PROVE  WellFormed(Outdated(g))
  BY DEF Outdated, MaybeGeneration, Exists, Generations, WellFormed, Interrupted

\* Rows that a run removes make the store quote what is not indexed, and no longer swept.
LEMMA RunPrunes ==
    ASSUME ~PartialRemovals
    PROVE  PruneInv /\ (Acquire \/ EndRun \/ Stage \/ Publish \/ DiscardStore) => PruneInv'
<1> SUFFICES ASSUME PruneInv, Acquire \/ EndRun \/ Stage \/ Publish \/ DiscardStore
             PROVE  PruneInv'
  OBVIOUS
<1>1. TypeOK'
  BY RunTyped DEF PruneInv
<1> USE DEF PruneInv, BuildQuotesRows, OthersCleared, Rewriting, RewrittenSoFar,
        PrunedStoreHoldsNothing, reading, index, history, dirs, Step
<1>2. CASE Acquire
  BY <1>1, <1>2 DEF Acquire, WellFormed, Quoted, Exists, Interrupted
<1>3. CASE EndRun
  <2>1. /\ pc' = "idle" /\ leftover' = leftover \cup Quoted(build) /\ build' = NoGeneration
        /\ UNCHANGED <<rows, current, previous, swept>>
    BY <1>3 DEF EndRun
  <2>2. Quoted(build') = {} /\ WellFormed(build')
    BY <2>1 DEF Quoted, Exists, WellFormed
  <2>3. WellFormed(current') /\ WellFormed(previous')
    BY <2>1 DEF WellFormed, Exists, Interrupted
  <2>4. PrunedStoreHoldsNothing'
    BY <2>1, <2>2 DEF Quoted, Exists
  <2>5. QED
    BY <1>1, <2>1, <2>2, <2>3, <2>4
<1>4. CASE Stage
  <2>1. /\ pc = "stage" /\ pc' \in {"publish", "publish_kept"}
        /\ swept' => swept /\ rows \subseteq rows'
        /\ UNCHANGED dirs
    BY <1>4 DEF Stage
  <2>2. build = NoGeneration
    BY <2>1
  <2>3. Quoted(build') = {} /\ WellFormed(build')
    BY <2>1, <2>2 DEF Quoted, Exists, WellFormed
  <2>4. WellFormed(current') /\ WellFormed(previous')
    BY <2>1 DEF WellFormed, Exists, Interrupted
  <2>5. PrunedStoreHoldsNothing'
    BY <2>1, <2>3 DEF Quoted, Exists
  <2>6. QED
    BY <1>1, <2>1, <2>2, <2>3, <2>4, <2>5
<1>5. CASE Publish
  <2>1. /\ Quoted(current') = Quoted(current) /\ Quoted(previous') = Quoted(previous)
        /\ WellFormed(current') /\ WellFormed(previous')
    BY <1>5, OutdatedKeepsFiles, OutdatedWellFormed DEF Publish, TypeOK
  <2>2. /\ pc \in {"publish", "publish_kept"} /\ pc' \in {"discard_store", "builds", "done"}
        /\ UNCHANGED <<rows, build, leftover, swept>>
    BY <1>5 DEF Publish
  <2>3. build' = NoGeneration /\ Quoted(build') = Quoted(build) /\ WellFormed(build')
    BY <2>2 DEF WellFormed, Exists, Quoted
  <2>4. PrunedStoreHoldsNothing'
    BY <2>1, <2>2, <2>3
  <2>5. QED
    BY <1>1, <2>1, <2>2, <2>3, <2>4
<1>6. CASE DiscardStore
  <2>1. /\ current' \in {current, NoGeneration} /\ previous' \in {previous, NoGeneration}
        /\ leftover' \subseteq leftover
        /\ pc = "discard_store" /\ pc' = "builds" /\ UNCHANGED <<rows, build, swept>>
    BY <1>6 DEF DiscardStore
  <2>2. /\ Quoted(current') \subseteq Quoted(current) /\ WellFormed(current')
        /\ Quoted(previous') \subseteq Quoted(previous) /\ WellFormed(previous')
        /\ build' = NoGeneration /\ Quoted(build') = Quoted(build) /\ WellFormed(build')
    BY <2>1 DEF Quoted, WellFormed, Exists, Interrupted
  <2>3. PrunedStoreHoldsNothing'
    BY <2>1, <2>2
  <2>4. QED
    BY <1>1, <2>1, <2>2, <2>3
<1>7. QED
  BY <1>2, <1>3, <1>4, <1>5, <1>6

\* Every step of a prune: the rewriting moves on by one file, and a prune that returns Ok
\* has seen that nothing is left.
LEMMA PrunePrunes ==
    ASSUME ~PartialRemovals
    PROVE  PruneInv /\ Prune => PruneInv'
<1> SUFFICES ASSUME PruneInv, Prune PROVE PruneInv'
  OBVIOUS
<1>1. TypeOK'
  BY PruneTyped DEF PruneInv
<1>2. /\ UNCHANGED <<rows, build>> /\ build = NoGeneration /\ Quoted(build) = {}
      /\ build' = NoGeneration /\ WellFormed(build') /\ Quoted(build') = {}
      /\ pc' \notin {"write", "finish", "clear", "aside", "promote"}
  <2>1. /\ pc \notin {"write", "finish", "clear", "aside", "promote"}
        /\ pc' \notin {"write", "finish", "clear", "aside", "promote"}
        /\ UNCHANGED <<rows, build>>
    BY DEF Prune, PruneBuilds, PrunePrevious, PruneFindsNothing, PruneMissesMarker,
           PruneUnreadable, PruneStarts, PruneMarks, PruneDropsIndex, StageIds, SwapIds,
           StageCache, SwapCache, Rewrite, PruneCompletes, RewriteFails, DiscardCurrent,
           PruneFails, Step, index, dirs
  <2>2. QED
    BY <2>1 DEF PruneInv, BuildQuotesRows, Quoted, WellFormed, Exists
<1> USE DEF PruneInv, BuildQuotesRows, OthersCleared, Rewriting, RewrittenSoFar,
        PrunedStoreHoldsNothing, reading, index, history, dirs, Step
<1>3. CASE PruneBuilds
  BY <1>1, <1>2, <1>3 DEF PruneBuilds, WellFormed, Quoted, Exists, Interrupted
<1>4. CASE PrunePrevious
  BY <1>1, <1>2, <1>4 DEF PrunePrevious, WellFormed, Quoted, Exists, Interrupted
<1>5. CASE PruneFindsNothing
  <2>1. /\ pc = "read" /\ pc' = "done" /\ leftover = {} /\ previous = NoGeneration
        /\ UNCHANGED <<current, previous, leftover>>
    BY <1>5 DEF PruneFindsNothing
  <2>2. Quoted(current) \subseteq rows
    BY <1>5 DEF PruneFindsNothing, PruneMissesMarker, NothingToPrune, Removed, WellFormed,
                Quoted
  <2>3. Quoted(current') \subseteq rows /\ Quoted(previous') = {} /\ leftover' = {}
    BY <2>1, <2>2 DEF Quoted, Exists
  <2>4. WellFormed(current') /\ WellFormed(previous')
    BY <2>1 DEF WellFormed, Exists, Interrupted
  <2>5. QED
    BY <1>1, <1>2, <2>1, <2>3, <2>4
<1>6. CASE PruneUnreadable \/ PruneMissesMarker \/ RewriteFails
  BY <1>1, <1>2, <1>6 DEF PruneUnreadable, PruneMissesMarker, RewriteFails, WellFormed, Quoted,
                          Exists, Interrupted
<1>7. CASE PruneStarts
  <2>1. ~removing' => current.ids \subseteq rows
    BY <1>7 DEF PruneStarts, Removed
  <2>2. QED
    BY <1>1, <1>2, <1>7, <2>1 DEF PruneStarts, WellFormed, Quoted, Exists, Interrupted
<1>8. CASE PruneMarks \/ PruneDropsIndex \/ StageIds \/ SwapIds \/ StageCache \/ SwapCache
  <2>1. /\ current \in Generations /\ Exists(current) /\ pc \in Rewriting \cup {"mark"}
        /\ pc' \in Rewriting /\ previous = NoGeneration /\ leftover = {}
        /\ UNCHANGED <<previous, leftover, removing, swept>>
    BY <1>8 DEF PruneMarks, PruneDropsIndex, StageIds, SwapIds, StageCache, SwapCache, Rewrite,
                TypeOK, MaybeGeneration, Exists
  <2>2. /\ Interrupted(current') /\ WellFormed(current')
        /\ Quoted(current') \subseteq Quoted(current)
        /\ RewrittenSoFar'
    <3>1. CASE PruneMarks
      BY <1>2, <2>1, <3>1 DEF PruneMarks, Rewrite, Generations, Interrupted, WellFormed, Quoted,
                              With, Exists
    <3>2. CASE PruneDropsIndex
      BY <1>2, <2>1, <3>2 DEF PruneDropsIndex, Rewrite, Generations, Interrupted, WellFormed,
                              Quoted, Without, Exists
    <3>3. CASE StageIds
      BY <1>2, <2>1, <3>3 DEF StageIds, Rewrite, Generations, Interrupted, WellFormed, Quoted,
                              Exists
    <3>4. CASE SwapIds
      BY <1>2, <2>1, <3>4 DEF SwapIds, Rewrite, Generations, Interrupted, WellFormed, Quoted,
                              Exists
    <3>5. CASE StageCache
      BY <1>2, <2>1, <3>5 DEF StageCache, Rewrite, Generations, Interrupted, WellFormed, Quoted,
                              Exists
    <3>6. CASE SwapCache
      BY <1>2, <2>1, <3>6 DEF SwapCache, Rewrite, Generations, Interrupted, WellFormed, Quoted,
                              Exists
    <3>7. QED
      BY <1>8, <3>1, <3>2, <3>3, <3>4, <3>5, <3>6
  <2>3. WellFormed(previous') /\ Quoted(previous') = {}
    BY <2>1 DEF WellFormed, Quoted, Exists
  <2>4. PrunedStoreHoldsNothing'
    BY <1>2, <2>1, <2>2, <2>3
  <2>5. QED
    BY <1>1, <1>2, <2>1, <2>2, <2>3, <2>4
<1>9. CASE PruneCompletes
  <2>1. /\ current \in Generations /\ Exists(current) /\ pc = "complete" /\ pc' = "done"
        /\ previous = NoGeneration /\ leftover = {}
        /\ UNCHANGED <<previous, leftover>>
    BY <1>9 DEF PruneCompletes, TypeOK, MaybeGeneration, Exists
  <2>2. /\ current'.ids = current.ids /\ current'.cache = current.cache
        /\ current'.index = current.index /\ current'.stagedIds = current.stagedIds
        /\ current'.stagedCache = current.stagedCache
    BY <1>9, <2>1 DEF PruneCompletes, Generations
  <2>3. /\ current.ids \subseteq rows /\ current.cache \subseteq current.ids
        /\ current.index = {} /\ current.stagedIds \subseteq current.ids
        /\ current.stagedCache = {}
    BY <2>1 DEF WellFormed
  <2>4. WellFormed(current') /\ Quoted(current') \subseteq rows
    BY <1>2, <2>2, <2>3 DEF WellFormed, Quoted
  <2>5. WellFormed(previous') /\ Quoted(previous') = {}
    BY <2>1 DEF WellFormed, Quoted, Exists
  <2>6. QED
    BY <1>1, <1>2, <2>1, <2>4, <2>5
<1>10. CASE DiscardCurrent
  BY <1>1, <1>2, <1>10 DEF DiscardCurrent, WellFormed, Quoted, Exists, Interrupted
<1>11. CASE PruneFails
  BY <1>1, <1>2, <1>11, NothingTorn DEF PruneFails, WellFormed, Quoted, Exists, Interrupted
<1>12. QED
  BY <1>3, <1>4, <1>5, <1>6, <1>7, <1>8, <1>9, <1>10, <1>11 DEF Prune

\* A build writes indexed paths beside the store, and moves whole generations about.
LEMMA BuildPrunes ==
    ASSUME ~PartialRemovals
    PROVE  PruneInv /\ Build => PruneInv'
<1> SUFFICES ASSUME PruneInv, Build PROVE PruneInv'
  OBVIOUS
<1>1. TypeOK'
  BY BuildTyped DEF PruneInv
<1>2. /\ pc \in {"done", "recover", "start", "write", "finish", "clear", "aside", "promote", "tidy"}
      /\ pc' \in {"done", "recover", "start", "write", "finish", "clear", "aside", "promote", "tidy"}
      /\ UNCHANGED <<rows, swept>>
  BY DEF Build, BuildNext, BuildRecovers, RecoveryIgnored, StartBuild, WriteTargets, WriteIndex,
         BuildFails, ClearPrevious, RemovePrevious, MoveAside, MoveAsideFails, Promote,
         PromoteFails, TidyPrevious, Step, index, history
<1>3. OthersCleared' /\ RewrittenSoFar'
  BY <1>2 DEF OthersCleared, RewrittenSoFar, Rewriting
<1> USE DEF PruneInv, BuildQuotesRows, PrunedStoreHoldsNothing, reading, index, history,
        dirs, Step
<1>4. CASE BuildNext
  BY <1>1, <1>3, <1>4 DEF BuildNext, WellFormed, Quoted, Exists, Interrupted
<1>5. CASE BuildRecovers \/ RecoveryIgnored
  BY <1>1, <1>3, <1>5 DEF BuildRecovers, RecoveryIgnored, RecoverPrevious, WellFormed, Quoted,
                          Exists, Interrupted
<1>6. CASE StartBuild \/ WriteTargets \/ WriteIndex
  <2>1. Quoted(build') \subseteq rows /\ WellFormed(build')
    <3>1. CASE StartBuild
      BY <3>1 DEF StartBuild, Empty, Quoted, WellFormed
    <3>2. CASE WriteTargets
      BY <3>2, TargetsTyped DEF Quoted, WellFormed
    <3>3. CASE WriteIndex
      <4>1. pc = "finish" /\ Exists(build')
        BY <3>3, IndexTyped DEF WriteIndex, Exists
      <4>2. CASE Exists(build)
        <5>1. /\ build'.ids = rows /\ build'.cache = rows /\ build'.index = rows
              /\ build'.stagedIds = build.stagedIds /\ build'.stagedCache = build.stagedCache
          BY <3>3, <4>1, <4>2, IndexTyped
        <5>2. build.stagedIds \subseteq rows /\ build.stagedCache \subseteq rows
          BY <4>2 DEF Quoted
        <5>3. build.stagedIds \subseteq build.ids /\ build.stagedCache = {}
          BY <3>3, <4>2 DEF WriteIndex, WellFormed
        <5>4. QED
          BY <4>1, <5>1, <5>2, <5>3 DEF Quoted, WellFormed
      <4>3. CASE ~Exists(build)
        BY <3>3, <4>1, <4>3, IndexTyped DEF Quoted, WellFormed, Empty
      <4>4. QED
        BY <4>2, <4>3
    <3>4. QED
      BY <1>6, <3>1, <3>2, <3>3
  <2>2. /\ pc' \in {"write", "finish", "clear"}
        /\ pc' = "finish" => build'.ids = rows /\ build'.stagedCache = {}
        /\ UNCHANGED <<rows, current, previous, leftover, swept>>
    BY <1>6, TargetsTyped DEF StartBuild, WriteTargets, WriteIndex
  <2>3. /\ WellFormed(current') /\ WellFormed(previous')
        /\ Quoted(current') = Quoted(current) /\ Quoted(previous') = Quoted(previous)
    BY <2>2 DEF WellFormed, Quoted, Exists, Interrupted
  <2>4. QED
    BY <1>1, <1>3, <2>1, <2>2, <2>3
<1>7. CASE BuildFails \/ MoveAsideFails \/ PromoteFails
  <2>1. /\ leftover' = leftover \cup Quoted(build) /\ build' = NoGeneration
        /\ \/ UNCHANGED <<current, previous>>
           \/ RecoverPrevious
    BY <1>7 DEF BuildFails, MoveAsideFails, PromoteFails
  <2>2. /\ WellFormed(current') /\ WellFormed(previous') /\ WellFormed(build')
        /\ Quoted(build') = {}
        /\ Quoted(current') \cup Quoted(previous') \subseteq Quoted(current) \cup Quoted(previous)
    BY <2>1 DEF RecoverPrevious, WellFormed, Quoted, Exists, Interrupted
  <2>3. PrunedStoreHoldsNothing'
    BY <1>2, <2>1, <2>2
  <2>4. QED
    BY <1>1, <1>2, <1>3, <2>1, <2>2, <2>3 DEF Exists
<1>8. CASE ClearPrevious \/ TidyPrevious
  <2>1. previous' \in {previous, NoGeneration}
    BY <1>8, NothingTorn DEF ClearPrevious, TidyPrevious, RemovePrevious
  <2>2. QED
    BY <1>1, <1>3, <1>8, <2>1 DEF ClearPrevious, TidyPrevious, RemovePrevious, WellFormed,
                                  Quoted, Exists, Interrupted
<1>9. CASE MoveAside
  BY <1>1, <1>3, <1>9 DEF MoveAside, WellFormed, Quoted, Exists, Interrupted
<1>10. CASE Promote
  BY <1>1, <1>3, <1>10 DEF Promote, WellFormed, Quoted, Exists, Interrupted
<1>11. QED
  BY <1>4, <1>5, <1>6, <1>7, <1>8, <1>9, <1>10 DEF Build

\* Cleaning takes generations away under the writer.
LEMMA CleanPrunes ==
    ASSUME ~PartialRemovals
    PROVE  PruneInv /\ (CleanAll \/ CleanCurrent \/ CleanBuilds) => PruneInv'
<1> SUFFICES ASSUME PruneInv, CleanAll \/ CleanCurrent \/ CleanBuilds PROVE PruneInv'
  OBVIOUS
<1>1. TypeOK'
  BY CleanTyped DEF PruneInv
<1>2. /\ current' \in {current, NoGeneration} /\ previous' \in {previous, NoGeneration}
      /\ build' \in {build, NoGeneration} /\ leftover' \in {leftover, {}}
      /\ UNCHANGED <<pc, rows, removing, swept>>
  BY NothingTorn DEF CleanAll, CleanCurrent, CleanBuilds, index, history
<1>3. /\ WellFormed(current') /\ WellFormed(previous') /\ WellFormed(build')
      /\ Quoted(current') \subseteq Quoted(current)
      /\ Quoted(previous') \subseteq Quoted(previous)
      /\ Quoted(build') \subseteq Quoted(build)
  BY <1>2 DEF PruneInv, WellFormed, Quoted, Exists, Interrupted
<1>4. RewrittenSoFar'
  BY <1>2 DEF PruneInv, RewrittenSoFar, Rewriting, Exists, Interrupted
<1>5. BuildQuotesRows' /\ OthersCleared' /\ PrunedStoreHoldsNothing'
  BY <1>2, <1>3 DEF PruneInv, BuildQuotesRows, OthersCleared, Rewriting, PrunedStoreHoldsNothing,
                    Exists
<1>6. QED
  BY <1>1, <1>3, <1>4, <1>5 DEF PruneInv

\* A reader that recovers finds nothing to recover while the store is rewritten.
LEMMA ReadPrunes == ASSUME NEW r \in Readers PROVE PruneInv /\ Read(r) => PruneInv'
<1> SUFFICES ASSUME PruneInv, Read(r) PROVE PruneInv'
  OBVIOUS
<1>1. TypeOK'
  BY ReadTyped DEF PruneInv
<1>2. /\ UNCHANGED <<pc, rows, build, leftover, removing, swept>>
      /\ \/ UNCHANGED <<current, previous>>
         \/ ~Exists(current) /\ Exists(previous) /\ RecoverPrevious
  BY DEF Read, Probe, EndProbe, StatusBegins, TryLock, TryLockFails, LeaveToWriter, NoWriter,
         ProbeFails, Recheck, StatusRecovers, Assess, ReadTargets, SearchHits, SearchReturns,
         ReaderStep, Quiet, index
<1>3. /\ WellFormed(current') /\ WellFormed(previous') /\ WellFormed(build')
      /\ Quoted(build') = Quoted(build)
      /\ Quoted(current') \cup Quoted(previous') \subseteq Quoted(current) \cup Quoted(previous)
  BY <1>2 DEF PruneInv, RecoverPrevious, WellFormed, Quoted, Exists, Interrupted
<1>4. OthersCleared' /\ RewrittenSoFar'
  BY <1>2 DEF PruneInv, OthersCleared, RewrittenSoFar, Rewriting, RecoverPrevious, Exists,
              Interrupted
<1>5. BuildQuotesRows' /\ PrunedStoreHoldsNothing'
  BY <1>2, <1>3 DEF PruneInv, BuildQuotesRows, PrunedStoreHoldsNothing
<1>6. QED
  BY <1>1, <1>3, <1>4, <1>5 DEF PruneInv

LEMMA NextPrunes ==
    ASSUME ~PartialRemovals, PruneInv, [Next]_vars
    PROVE  PruneInv'
<1>1. CASE UNCHANGED vars
  BY <1>1 DEF PruneInv, TypeOK, WellFormed, BuildQuotesRows, OthersCleared, Rewriting,
              RewrittenSoFar, PrunedStoreHoldsNothing, vars, index, dirs, reading, history,
              Quoted, Exists, Interrupted
<1>2. CASE Next
  BY <1>2, RunPrunes, PrunePrunes, BuildPrunes, CleanPrunes, ReadPrunes DEF Next
<1>3. QED
  BY <1>1, <1>2

\* While no removal stops partway, a prune that could read the marker of the one before
\* it and returned Ok leaves no removed path in any
\* directory under `.ok/vectors`, and none comes back before the rows change again, for
\* any earlier interruption and whether or not the store is cleaned meanwhile.
THEOREM PrunesClear ==
    ASSUME ~PartialRemovals
    PROVE  Spec => []PrunedStoreHoldsNothing
<1>1. PruneInv /\ [Next]_vars => PruneInv'
  BY NextPrunes
<1>2. PruneInv => PrunedStoreHoldsNothing
  BY DEF PruneInv
<1>3. QED
  BY InitPruned, <1>1, <1>2, PTL DEF Spec

-----------------------------------------------------------------------------
(***************************************************************************)
(* What readers see, where nothing cleans the store and no removal stops   *)
(* partway.                                                                *)
(***************************************************************************)
\* Neither directory that readers may come to see is corrupt.
Unspoilt ==
    /\ Exists(current) => ~Corrupt(current)
    /\ Exists(previous) => ~Corrupt(previous)

\* What readers do to the directories, and to nothing else of the writer's.
LEMMA ReadFrame ==
    ASSUME NEW r \in Readers, Read(r)
    PROVE  /\ UNCHANGED <<rows, listed, published, build, leftover, pc>>
           /\ \/ UNCHANGED <<current, previous>>
              \/ rpc[r] = "rename" /\ ~Exists(current) /\ Exists(previous) /\ RecoverPrevious
  BY DEF Read, Probe, EndProbe, StatusBegins, TryLock, TryLockFails, LeaveToWriter, NoWriter,
         ProbeFails, Recheck, StatusRecovers, Assess, ReadTargets, SearchHits, SearchReturns,
         ReaderStep, Quiet, index

\* Publishing the next index leaves every file, and every path it quotes.
LEMMA OutdatedQuotes ==
    ASSUME NEW g \in MaybeGeneration
    PROVE  /\ Exists(Outdated(g)) = Exists(g)
           /\ Exists(g) => /\ Outdated(g).files = g.files /\ Outdated(g).ids = g.ids
                           /\ ~Outdated(g).fresh
  BY OutdatedTyped DEF Outdated, MaybeGeneration, Exists, Generations

\* The files of the current generation during the rewriting.
LEMMA RewriteFiles ==
    ASSUME TypeOK, PruneInv,
           PruneMarks \/ PruneDropsIndex \/ StageIds \/ SwapIds \/ StageCache \/ SwapCache
           \/ PruneCompletes
    PROVE  /\ Exists(current) /\ Exists(current') /\ UNCHANGED <<previous, build>>
           /\ current'.files \in {current.files, current.files \cup {"marker"}}
              \/ ("marker" \in current.files /\ current'.files = current.files \ {"index"})
           /\ current'.fresh = current.fresh /\ current'.ids \subseteq current.ids
           /\ UNCHANGED <<rows, listed, published, reading>>
           /\ pc' # "publish" /\ pc # "publish" /\ pc' # "publish_kept" /\ pc # "publish_kept"
<1>1. current \in Generations /\ Exists(current)
  BY DEF PruneMarks, PruneDropsIndex, StageIds, SwapIds, StageCache, SwapCache, PruneCompletes,
         Rewrite, TypeOK, MaybeGeneration, Exists
<1>2. /\ UNCHANGED <<rows, listed, published, reading, previous, build>>
      /\ pc' # "publish" /\ pc # "publish" /\ pc' # "publish_kept" /\ pc # "publish_kept"
  BY DEF PruneMarks, PruneDropsIndex, StageIds, SwapIds, StageCache, SwapCache, PruneCompletes,
         Rewrite, Step, index
<1>3. Exists(current')
  BY RewriteTyped DEF Exists
<1>4. CASE PruneMarks \/ StageIds \/ StageCache \/ SwapCache \/ PruneCompletes
  BY <1>1, <1>2, <1>3, <1>4 DEF PruneMarks, StageIds, StageCache, SwapCache, PruneCompletes,
                    Rewrite, With, Generations
<1>5. CASE PruneDropsIndex
  <2>1. "marker" \in current.files
    BY <1>1, <1>5 DEF PruneDropsIndex, Rewrite, Step, PruneInv, RewrittenSoFar, Rewriting,
                      Interrupted
  <2>2. QED
    BY <1>1, <1>2, <1>3, <1>5, <2>1 DEF PruneDropsIndex, Rewrite, Without, Generations
<1>6. CASE SwapIds
  <2>1. current.stagedIds \subseteq current.ids
    BY <1>1 DEF PruneInv, WellFormed
  <2>2. QED
    BY <1>1, <1>2, <1>3, <1>6, <2>1 DEF SwapIds, Rewrite, Generations
<1>7. QED
  BY <1>4, <1>5, <1>6

\* What each step does to the two directories that readers see, where nothing cleans the
\* store and no removal stops partway: they exchange places or go, are rewritten in
\* place, cease to describe the index when the next one is published, or get the build.
LEMMA DirectoriesMove ==
    ASSUME ~PartialRemovals, ~Cleans, KeepInv, PruneInv, [Next]_vars,
           ~Publish, ~Promote,
           ~(PruneMarks \/ PruneDropsIndex \/ StageIds \/ SwapIds \/ StageCache \/ SwapCache
             \/ PruneCompletes)
    PROVE  \/ UNCHANGED <<current, previous>>
           \/ current' = NoGeneration /\ previous' = NoGeneration
           \/ current' = current /\ previous' = NoGeneration
           \/ ~Exists(current) /\ current' = previous /\ previous' = NoGeneration
           \/ ~Exists(previous) /\ current' = NoGeneration /\ previous' = current
<1>1. CASE Acquire \/ EndRun \/ Stage \/ DiscardStore
  BY <1>1 DEF Acquire, EndRun, Stage, DiscardStore, dirs
<1>2. CASE PruneBuilds \/ PruneFindsNothing \/ PruneMissesMarker \/ PruneUnreadable
          \/ PruneStarts \/ RewriteFails
  BY <1>2 DEF PruneBuilds, PruneFindsNothing, PruneMissesMarker, PruneUnreadable, PruneStarts,
              RewriteFails, dirs
<1>3. CASE PrunePrevious
  BY <1>3 DEF PrunePrevious
<1>4. CASE DiscardCurrent
  BY <1>4 DEF DiscardCurrent, Step, PruneInv, OthersCleared, Exists
<1>5. CASE PruneFails
  BY <1>5, NothingTorn DEF PruneFails
<1>6. CASE BuildNext \/ StartBuild \/ WriteTargets \/ WriteIndex \/ BuildFails \/ MoveAsideFails
  BY <1>6 DEF BuildNext, StartBuild, WriteTargets, WriteIndex, BuildFails, MoveAsideFails, dirs
<1>7. CASE BuildRecovers \/ RecoveryIgnored \/ PromoteFails
  BY <1>7 DEF BuildRecovers, RecoveryIgnored, Recoverable, PromoteFails, RecoverPrevious
<1>8. CASE ClearPrevious \/ TidyPrevious
  BY <1>8, NothingTorn DEF ClearPrevious, TidyPrevious, RemovePrevious
<1>9. CASE MoveAside
  BY <1>9 DEF MoveAside, Exists
<1>10. CASE \E r \in Readers : Read(r)
  BY <1>10, ReadFrame DEF RecoverPrevious
<1>11. ~(CleanAll \/ CleanCurrent \/ CleanBuilds)
  BY DEF CleanAll, CleanCurrent, CleanBuilds, KeepInv
<1>12. CASE UNCHANGED vars
  BY <1>12 DEF vars, dirs
<1>13. QED
  BY <1>1, <1>2, <1>3, <1>4, <1>5, <1>6, <1>7, <1>8, <1>9, <1>10, <1>11, <1>12
     DEF Next, Prune, Build

LEMMA NextUnspoilt ==
    ASSUME ~PartialRemovals, ~Cleans, KeepInv, PruneInv, Unspoilt, [Next]_vars
    PROVE  Unspoilt'
<1>0. TypeOK
  BY DEF KeepInv
<1>1. CASE UNCHANGED <<current, previous>>
  BY <1>1 DEF Unspoilt, Exists, Corrupt
<1>2. CASE Publish
  <2>1. current' = Outdated(current) /\ previous' = Outdated(previous)
    BY <1>2 DEF Publish
  <2>2. QED
    BY <1>0, <2>1, OutdatedQuotes DEF Unspoilt, Corrupt, TypeOK
<1>3. CASE /\ current' \in {current, previous, NoGeneration}
           /\ previous' \in {current, previous, NoGeneration}
  BY <1>3 DEF Unspoilt, Exists, Corrupt
<1>4. CASE PruneMarks \/ PruneDropsIndex \/ StageIds \/ SwapIds \/ StageCache \/ SwapCache
           \/ PruneCompletes
  BY <1>0, <1>4, RewriteFiles DEF Unspoilt, Corrupt
<1>5. CASE Promote
  <2>1. Complete(build) /\ current' = build /\ previous' = previous
    BY <1>5 DEF Promote, Step, KeepInv, BuildHasFiles
  <2>2. QED
    BY <2>1 DEF Unspoilt, Corrupt, Complete, Exists
<1>6. CASE /\ ~Publish /\ ~Promote
           /\ ~(PruneMarks \/ PruneDropsIndex \/ StageIds \/ SwapIds \/ StageCache \/ SwapCache
                \/ PruneCompletes)
  BY <1>1, <1>3, <1>6, DirectoriesMove
<1>7. QED
  BY <1>2, <1>4, <1>5, <1>6

\* "A run killed partway leaves a stale generation, never a corrupt one": while nothing
\* cleans the store and no removal stops partway, whatever is killed between its steps.
THEOREM GenerationsNeverCorrupt ==
    ASSUME ~PartialRemovals, ~Cleans
    PROVE  Spec => []NeverCorrupt
<1>1. Init => KeepInv /\ PruneInv /\ Unspoilt
  BY InitKept, InitPruned DEF Init, Unspoilt, Exists
<1>2. KeepInv /\ PruneInv /\ Unspoilt /\ [Next]_vars => (KeepInv /\ PruneInv /\ Unspoilt)'
  BY NextKeeps, NextPrunes, NextUnspoilt
<1>3. Unspoilt => NeverCorrupt
  BY DEF Unspoilt, NeverCorrupt
<1>4. QED
  BY <1>1, <1>2, <1>3, PTL DEF Spec

-----------------------------------------------------------------------------
(***************************************************************************)
(* What searches return, where besides no partial update is killed before  *)
(* it is published.                                                        *)
(***************************************************************************)
\* A published manifest was published for the rows there are, between runs.
ListedIsIndexed == published /\ ~Publishing => rows = listed

\* A generation that records the fingerprint of the published index quotes its paths.
FreshIds(g) == Exists(g) /\ g.fresh => g.ids \subseteq listed

FreshListed == FreshIds(current) /\ FreshIds(previous) /\ FreshIds(build)

\* Where a search is after it began.
SearchPcs == {"acquire", "refused", "quiet", "recheck", "rename", "assess", "read", "hits",
              "done"}

\* The targets that a search finds now, or once the previous generation is put back.
NextIds ==
    IF Exists(current) THEN current.ids ELSE IF Exists(previous) THEN previous.ids ELSE {}

\* A search has seen every row there was since it began; what it has read, and from its
\* assessment on what it may still read, is among them.
HeldBy(r) ==
    /\ rpc[r] \in SearchPcs => rows \cup listed \subseteq heldSince[r]
    /\ rpc[r] = "read" => NextIds \subseteq heldSince[r]
    /\ found[r] \subseteq heldSince[r] /\ answer[r] \subseteq found[r]
    /\ rpc[r] \notin {"hits", "done"} => found[r] = {}
    /\ rpc[r] # "done" => answer[r] = {}

Held == \A r \in Searchers : HeldBy(r)

SearchInv ==
    /\ KeepInv
    /\ PruneInv
    /\ ListedIsIndexed
    /\ FreshListed
    /\ Held

\* Only a run changes the rows or the manifest, and only between two of its steps.
LEMMA IndexFrame ==
    ASSUME Next, ~(EndRun \/ Stage \/ Publish)
    PROVE  UNCHANGED <<rows, listed, published>> /\ Publishing' = Publishing
<1>1. CASE Acquire \/ DiscardStore
  BY <1>1 DEF Acquire, DiscardStore, Step, index, Publishing
<1>2. CASE Prune
  BY <1>2 DEF Prune, PruneBuilds, PrunePrevious, PruneFindsNothing, PruneMissesMarker,
              PruneUnreadable, PruneStarts, PruneMarks, PruneDropsIndex, StageIds, SwapIds,
              StageCache, SwapCache, Rewrite, PruneCompletes, RewriteFails, DiscardCurrent,
              PruneFails, Step, index, Publishing
<1>3. CASE Build
  BY <1>3 DEF Build, BuildNext, BuildRecovers, RecoveryIgnored, StartBuild, WriteTargets,
              WriteIndex, BuildFails, ClearPrevious, TidyPrevious, RemovePrevious, MoveAside,
              MoveAsideFails, Promote, PromoteFails, Step, index, Publishing
<1>4. CASE CleanAll \/ CleanCurrent \/ CleanBuilds
  BY <1>4 DEF CleanAll, CleanCurrent, CleanBuilds, index, Publishing
<1>5. CASE \E r \in Readers : Read(r)
  BY <1>5, ReadFrame DEF Publishing
<1>6. QED
  BY <1>1, <1>2, <1>3, <1>4, <1>5 DEF Next

LEMMA NextListed ==
    ASSUME ~KillsPartial, ListedIsIndexed, [Next]_vars
    PROVE  ListedIsIndexed'
<1>1. CASE EndRun
  BY <1>1 DEF EndRun, ListedIsIndexed, Publishing
<1>2. CASE Stage
  BY <1>2 DEF Stage, Step, ListedIsIndexed, Publishing
<1>3. CASE Publish
  BY <1>3 DEF Publish, ListedIsIndexed
<1>4. CASE Next /\ ~(EndRun \/ Stage \/ Publish)
  BY <1>4, IndexFrame DEF ListedIsIndexed
<1>5. CASE UNCHANGED vars
  BY <1>5 DEF vars, index, ListedIsIndexed, Publishing
<1>6. QED
  BY <1>1, <1>2, <1>3, <1>4, <1>5

\* What a build directory holds from one step to the next.
LEMMA BuildMoves ==
    ASSUME KeepInv, ~Cleans, [Next]_vars
    PROVE  \/ build' \in {build, NoGeneration}
           \/ Exists(build') /\ ~build'.fresh
           \/ WriteTargets /\ Exists(build') /\ build'.ids = rows
           \/ Exists(build) /\ Exists(build') /\ build'.ids = build.ids
              /\ build'.fresh = build.fresh
<1>0. TypeOK
  BY DEF KeepInv
<1>1. CASE StartBuild
  BY <1>1, EmptyTyped DEF StartBuild, Empty, Exists
<1>2. CASE WriteTargets
  BY <1>0, <1>2, TargetsTyped DEF Exists
<1>3. CASE WriteIndex
  <2>1. Exists(build) /\ build \in Generations
    BY <1>3 DEF WriteIndex, Step, KeepInv, BuildHasFiles, TypeOK, MaybeGeneration, Exists
  <2>2. build' = [build EXCEPT !.files = @ \cup {"cache", "index"}, !.cache = rows, !.index = rows]
    BY <1>3, <2>1 DEF WriteIndex
  <2>3. Exists(build')
    BY <1>0, <1>3, IndexTyped DEF Exists
  <2>4. build'.ids = build.ids /\ build'.fresh = build.fresh
    BY <2>1, <2>2 DEF Generations
  <2>5. QED
    BY <2>1, <2>3, <2>4
<1>4. CASE Acquire \/ EndRun \/ Stage \/ Publish \/ DiscardStore
  BY <1>4 DEF Acquire, EndRun, Stage, Publish, DiscardStore, dirs
<1>5. CASE Prune
  BY <1>5 DEF Prune, PruneBuilds, PrunePrevious, PruneFindsNothing, PruneMissesMarker,
              PruneUnreadable, PruneStarts, PruneMarks, PruneDropsIndex, StageIds, SwapIds,
              StageCache, SwapCache, Rewrite, PruneCompletes, RewriteFails, DiscardCurrent,
              PruneFails, dirs
<1>6. CASE Build /\ ~StartBuild /\ ~WriteTargets /\ ~WriteIndex
  BY <1>6 DEF Build, BuildNext, BuildRecovers, RecoveryIgnored, BuildFails, ClearPrevious,
              TidyPrevious, RemovePrevious, MoveAside, MoveAsideFails, Promote, PromoteFails,
              dirs
<1>7. CASE \E r \in Readers : Read(r)
  BY <1>7, ReadFrame
<1>8. ~(CleanAll \/ CleanCurrent \/ CleanBuilds)
  BY DEF CleanAll, CleanCurrent, CleanBuilds, KeepInv
<1>9. CASE UNCHANGED vars
  BY <1>9 DEF vars, dirs
<1>10. QED
  BY <1>1, <1>2, <1>3, <1>4, <1>5, <1>6, <1>7, <1>8, <1>9 DEF Next

LEMMA NextFresh ==
    ASSUME ~PartialRemovals, ~Cleans, KeepInv, PruneInv, ListedIsIndexed, FreshListed,
           [Next]_vars
    PROVE  FreshListed'
<1>0. TypeOK /\ TypeOK'
  BY NextKeeps DEF KeepInv
<1>1. CASE Publish
  <2>1. /\ current' = Outdated(current) /\ previous' = Outdated(previous)
        /\ build' = build /\ pc \in {"publish", "publish_kept"}
    BY <1>1 DEF Publish
  <2>2. build' = NoGeneration
    BY <2>1 DEF PruneInv, BuildQuotesRows
  <2>3. QED
    BY <1>0, <2>1, <2>2, OutdatedQuotes DEF FreshListed, FreshIds, TypeOK, Exists
<1>2. CASE ~Publish
  <2>1. listed' = listed
    <3>1. CASE EndRun \/ Stage
      BY <3>1 DEF EndRun, Stage
    <3>2. CASE UNCHANGED vars
      BY <3>2 DEF vars, index
    <3>3. QED
      BY <1>2, <3>1, <3>2, IndexFrame
  <2>2. FreshIds(build)'
    <3>1. WriteTargets => rows \subseteq listed
      BY DEF WriteTargets, Step, ListedIsIndexed, Publishing
    <3>2. QED
      BY <2>1, <3>1, BuildMoves DEF FreshListed, FreshIds, Exists
  <2>3. FreshIds(current)' /\ FreshIds(previous)'
    <3>1. CASE PruneMarks \/ PruneDropsIndex \/ StageIds \/ SwapIds \/ StageCache \/ SwapCache
               \/ PruneCompletes
      BY <1>0, <2>1, <3>1, RewriteFiles DEF FreshListed, FreshIds
    <3>2. CASE Promote
      BY <2>1, <3>2 DEF Promote, FreshListed, FreshIds
    <3>3. CASE /\ current' \in {current, previous, NoGeneration}
               /\ previous' \in {current, previous, NoGeneration}
      BY <2>1, <3>3 DEF FreshListed, FreshIds, Exists
    <3>4. QED
      BY <1>2, <3>1, <3>2, <3>3, DirectoriesMove
  <2>4. QED
    BY <2>2, <2>3 DEF FreshListed
<1>3. QED
  BY <1>1, <1>2

\* A search that goes on after its assessment comes to no target that is not indexed.
LEMMA NextIdsMove ==
    ASSUME ~PartialRemovals, ~Cleans, KeepInv, PruneInv, [Next]_vars
    PROVE  NextIds' \subseteq NextIds \cup rows
<1>0. TypeOK
  BY DEF KeepInv
<1>1. CASE Publish
  <2>1. current' = Outdated(current) /\ previous' = Outdated(previous)
    BY <1>1 DEF Publish
  <2>2. QED
    BY <1>0, <2>1, OutdatedQuotes DEF NextIds, TypeOK
<1>2. CASE Promote
  BY <1>2 DEF Promote, NextIds, PruneInv, BuildQuotesRows, Quoted
<1>3. CASE PruneMarks \/ PruneDropsIndex \/ StageIds \/ SwapIds \/ StageCache \/ SwapCache
           \/ PruneCompletes
  BY <1>0, <1>3, RewriteFiles DEF NextIds
<1>4. CASE \/ UNCHANGED <<current, previous>>
           \/ current' = NoGeneration /\ previous' = NoGeneration
           \/ current' = current /\ previous' = NoGeneration
           \/ ~Exists(current) /\ current' = previous /\ previous' = NoGeneration
           \/ ~Exists(previous) /\ current' = NoGeneration /\ previous' = current
  BY <1>4 DEF NextIds, Exists
<1>5. QED
  BY <1>1, <1>2, <1>3, <1>4, DirectoriesMove

\* What a step of anyone else does to the searches there are: a run that stages rows adds
\* them to what each has seen.
LEMMA SearchFrame ==
    ASSUME TypeOK, [Next]_vars, ~(\E r \in Readers : Read(r))
    PROVE  /\ UNCHANGED <<rpc, found, answer>>
           /\ \A r \in Searchers : rpc[r] # "idle" =>
                  /\ heldSince[r] \subseteq heldSince'[r]
                  /\ rows' \cup listed' \subseteq rows \cup listed \cup heldSince'[r]
<1>1. CASE Stage
  <2>1. /\ UNCHANGED <<rpc, found, answer, listed>>
        /\ heldSince' = [r \in Searchers |->
                            IF rpc[r] = "idle" THEN {} ELSE heldSince[r] \cup rows']
    BY <1>1 DEF Stage
  <2>2. QED
    BY <2>1
<1>2. CASE Publish
  BY <1>2 DEF Publish, reading
<1>3. CASE EndRun
  BY <1>3 DEF EndRun, reading
<1>4. CASE UNCHANGED vars
  BY <1>4 DEF vars, reading, index
<1>5. CASE Next /\ ~(EndRun \/ Stage \/ Publish)
  <2>1. UNCHANGED reading
    <3>1. CASE Acquire \/ DiscardStore
      BY <3>1 DEF Acquire, DiscardStore
    <3>2. CASE Prune
      BY <3>2 DEF Prune, PruneBuilds, PrunePrevious, PruneFindsNothing, PruneMissesMarker,
                  PruneUnreadable, PruneStarts, PruneMarks, PruneDropsIndex, StageIds, SwapIds,
                  StageCache, SwapCache, Rewrite, PruneCompletes, RewriteFails, DiscardCurrent,
                  PruneFails
    <3>3. CASE Build
      BY <3>3 DEF Build, BuildNext, BuildRecovers, RecoveryIgnored, StartBuild, WriteTargets,
                  WriteIndex, BuildFails, ClearPrevious, TidyPrevious, RemovePrevious,
                  MoveAside, MoveAsideFails, Promote, PromoteFails
    <3>4. CASE CleanAll \/ CleanCurrent \/ CleanBuilds
      BY <3>4 DEF CleanAll, CleanCurrent, CleanBuilds
    <3>5. QED
      BY <1>5, <3>1, <3>2, <3>3, <3>4 DEF Next
  <2>2. UNCHANGED <<rows, listed>>
    BY <1>5, IndexFrame
  <2>3. QED
    BY <2>1, <2>2 DEF reading
<1>6. QED
  BY <1>1, <1>2, <1>3, <1>4, <1>5

\* What a reader does to searches other than its own.
LEMMA OthersSearch ==
    ASSUME TypeOK, NEW r \in Readers, Read(r), NEW q \in Searchers, q # r
    PROVE  /\ rpc'[q] = rpc[q] /\ found'[q] = found[q] /\ answer'[q] = answer[q]
           /\ heldSince'[q] = heldSince[q]
<1> USE DEF TypeOK, ReaderStep
<1>1. CASE Probe(r) \/ EndProbe(r) \/ TryLock(r) \/ TryLockFails(r) \/ LeaveToWriter(r)
           \/ NoWriter(r) \/ ProbeFails(r) \/ Recheck(r) \/ StatusRecovers(r)
  BY <1>1 DEF Probe, EndProbe, TryLock, TryLockFails, LeaveToWriter, NoWriter, ProbeFails,
              Recheck, StatusRecovers
<1>2. CASE StatusBegins(r) \/ Assess(r)
  BY <1>2 DEF StatusBegins, Assess
<1>3. CASE ReadTargets(r) \/ SearchHits(r) \/ SearchReturns(r)
  BY <1>3 DEF ReadTargets, SearchHits, SearchReturns
<1>4. QED
  BY <1>1, <1>2, <1>3 DEF Read

\* Its own: what was ready at its assessment was published for rows it has seen.
LEMMA OwnSearch ==
    ASSUME TypeOK, FreshListed, NEW r \in Searchers, HeldBy(r), Read(r), UNCHANGED <<rows, listed>>,
           NextIds' \subseteq NextIds \cup rows
    PROVE  HeldBy(r)'
<1>0. r \in Readers
  OBVIOUS
<1> USE DEF TypeOK, ReaderStep, HeldBy, SearchPcs
<1>1. CASE Probe(r) \/ EndProbe(r) \/ TryLock(r) \/ TryLockFails(r) \/ LeaveToWriter(r)
           \/ NoWriter(r) \/ ProbeFails(r) \/ Recheck(r) \/ StatusRecovers(r)
  <2>1. UNCHANGED <<found, answer, heldSince>> /\ rpc' = [rpc EXCEPT ![r] = rpc'[r]]
    BY <1>0, <1>1 DEF Probe, EndProbe, TryLock, TryLockFails, LeaveToWriter, NoWriter,
                      ProbeFails, Recheck, StatusRecovers
  <2>2. /\ rpc[r] \notin {"hits", "done", "read"} /\ rpc'[r] \notin {"hits", "done", "read"}
        /\ rpc'[r] \in SearchPcs => rpc[r] \in SearchPcs
    BY <1>0, <1>1 DEF Probe, EndProbe, TryLock, TryLockFails, LeaveToWriter, NoWriter,
                      ProbeFails, Recheck, StatusRecovers
  <2>3. QED
    BY <2>1, <2>2
<1>2. CASE StatusBegins(r)
  <2>1. /\ rpc[r] = "idle" /\ rpc'[r] \in {"assess", "acquire"} /\ UNCHANGED <<found, answer>>
        /\ heldSince'[r] = rows \cup listed
    BY <1>0, <1>2 DEF StatusBegins
  <2>2. found[r] = {} /\ answer[r] = {}
    BY <2>1
  <2>3. QED
    BY <2>1, <2>2
<1>3. CASE Assess(r)
  <2>1. /\ rpc[r] = "assess" /\ UNCHANGED <<found, answer, current, previous>>
        /\ \/ Ready(current) /\ rpc'[r] = "read" /\ heldSince'[r] = heldSince[r]
           \/ rpc'[r] = "idle" /\ heldSince'[r] = {}
    BY <1>0, <1>3 DEF Assess, Quiet
  <2>2. found[r] = {} /\ answer[r] = {}
    BY <2>1
  <2>3. Ready(current) => NextIds' \subseteq listed
    BY <2>1 DEF Ready, FreshListed, FreshIds, NextIds, Exists
  <2>4. QED
    BY <2>1, <2>2, <2>3
<1>4. CASE ReadTargets(r)
  <2>1. /\ rpc[r] = "read" /\ rpc'[r] = "hits" /\ UNCHANGED <<answer, heldSince>>
        /\ Exists(current) /\ found'[r] = current.ids
    BY <1>0, <1>4 DEF ReadTargets
  <2>2. QED
    BY <2>1 DEF NextIds
<1>5. CASE SearchHits(r)
  <2>1. /\ rpc[r] = "hits" /\ rpc'[r] = "done" /\ UNCHANGED <<found, heldSince>>
        /\ answer'[r] \subseteq found[r]
    BY <1>0, <1>5 DEF SearchHits
  <2>2. QED
    BY <2>1
<1>6. CASE SearchReturns(r)
  BY <1>0, <1>6 DEF SearchReturns
<1>7. QED
  BY <1>1, <1>2, <1>3, <1>4, <1>5, <1>6 DEF Read

LEMMA NextHeld ==
    ASSUME ~PartialRemovals, ~Cleans, SearchInv, [Next]_vars
    PROVE  Held'
<1>0. TypeOK /\ NextIds' \subseteq NextIds \cup rows
  BY NextIdsMove DEF SearchInv, KeepInv
<1> SUFFICES ASSUME NEW q \in Searchers PROVE HeldBy(q)'
  BY DEF Held
<1>1. HeldBy(q)
  BY DEF SearchInv, Held
<1>2. CASE ~(\E r \in Readers : Read(r))
  BY <1>0, <1>1, <1>2, SearchFrame DEF HeldBy, SearchPcs
<1>3. ASSUME NEW r \in Readers, Read(r) PROVE HeldBy(q)'
  <2>1. UNCHANGED <<rows, listed>>
    BY <1>3, ReadFrame
  <2>2. CASE q = r
    BY <1>0, <1>1, <1>3, <2>1, <2>2, OwnSearch DEF SearchInv
  <2>3. CASE q # r
    BY <1>0, <1>1, <1>3, <2>1, <2>3, OthersSearch DEF HeldBy, SearchPcs
  <2>4. QED
    BY <2>2, <2>3
<1>4. QED
  BY <1>2, <1>3

LEMMA InitSearches == Init => SearchInv
<1> SUFFICES ASSUME Init PROVE SearchInv
  OBVIOUS
<1>1. KeepInv /\ PruneInv
  BY InitKept, InitPruned
<1>2. ListedIsIndexed /\ FreshListed
  BY DEF Init, ListedIsIndexed, FreshListed, FreshIds, Exists
<1>3. Held
  BY DEF Init, Held, HeldBy, SearchPcs
<1>4. QED
  BY <1>1, <1>2, <1>3 DEF SearchInv

\* A search reads ids.json and the vector index or the cache in separate steps, without a
\* lock, while runs stage, publish, prune, rebuild and promote and other readers recover:
\* every path it returns was indexed, or in the last published index, while it ran.
THEOREM SearchesAnswerIndexed ==
    ASSUME ~PartialRemovals, ~Cleans, ~KillsPartial
    PROVE  Spec => []SearchAnswersIndexed
<1>1. SearchInv /\ [Next]_vars => SearchInv'
  BY NextKeeps, NextPrunes, NextListed, NextFresh, NextHeld DEF SearchInv
<1>2. SearchInv => SearchAnswersIndexed
  BY DEF SearchInv, Held, HeldBy, SearchAnswersIndexed
<1>3. QED
  BY InitSearches, <1>1, <1>2, PTL DEF Spec
=============================================================================
