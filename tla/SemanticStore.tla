--------------------------- MODULE SemanticStore ---------------------------
(***************************************************************************)
(* The semantic vector store `.ok/vectors` of open-kioku-semantic: a       *)
(* directory per generation, built beside the current one and promoted by  *)
(* two renames, pruned in place when the index stops holding a path, and   *)
(* read without a lock.                                                    *)
(*                                                                         *)
(* Index runs and semantic builds hold the write lock (WriterMutex, which  *)
(* IndexLock implements), so one `Writer` stands for whichever runs.       *)
(* `status` and `search` are readers: they only take the lock to finish an *)
(* interrupted promotion.  `ok semantic clean` takes none.  A process may  *)
(* be killed between any two steps.                                        *)
(***************************************************************************)
CONSTANTS
    Paths,            \* paths whose text may be embedded
    Readers,          \* callers of `status`, `search` and index_write_in_progress
    Searchers,        \* the readers that search
    Writer,           \* the index run or semantic build there is
    NoGeneration,     \* no directory
    KillsPartial,     \* a committed partial update may be killed before it is published
    Cleans,           \* `ok semantic clean` is run
    PartialRemovals   \* removing a directory may stop partway

ASSUME StoreAssumption ==
    /\ Writer \notin Readers
    /\ Searchers \subseteq Readers
    /\ {KillsPartial, Cleans, PartialRemovals} \subseteq BOOLEAN

(***************************************************************************)
(* A generation: the files of its directory (`manifest` with stats.json,   *)
(* `marker` for pruned.json), the paths its files quote, those the files   *)
(* staged by an interrupted replace_json quote, whether the marker says    *)
(* `complete`, and whether the manifest records the fingerprint of the     *)
(* published index.                                                        *)
(***************************************************************************)
Names == {"manifest", "ids", "cache", "index", "marker"}

Generations ==
    [files : SUBSET Names, ids : SUBSET Paths, cache : SUBSET Paths,
     index : SUBSET Paths, stagedIds : SUBSET Paths, stagedCache : SUBSET Paths,
     complete : BOOLEAN, fresh : BOOLEAN]

MaybeGeneration == Generations \cup {NoGeneration}

ASSUME GenerationAssumption == NoGeneration \notin Generations

Empty == [files |-> {}, ids |-> {}, cache |-> {}, index |-> {}, stagedIds |-> {},
          stagedCache |-> {}, complete |-> FALSE, fresh |-> FALSE]

VARIABLES
    lock,       \* who holds the write lock exclusively
    probing,    \* readers holding it shared, inside index_write_in_progress
    rows,       \* the indexed paths that are embedded
    listed,     \* the same, of the index the last manifest was published for
    published,  \* whether a manifest is published
    current, previous,  \* the generations in those directories
    build,      \* the generation in the writer's build directory
    leftover,   \* paths quoted by abandoned build directories
    pc,         \* where the writer is
    removing,   \* the prune has targets to remove
    rpc,        \* where each reader is
    found,      \* the targets a search has read from ids.json
    answer,     \* the paths a search returned
    cleaning,   \* where `ok semantic clean` is
    swept,      \* history: a prune that could read the marker returned Ok since the rows
                \* last changed
    sound,      \* history: a complete generation was promoted, and since then none was
                \* removed on purpose or given up by a build that failed to recover it
    heldSince   \* history: paths indexed or listed since a search began

dirs    == <<current, previous, build, leftover>>
index   == <<rows, listed, published>>
reading == <<rpc, found, answer, heldSince>>
history == <<swept, sound>>
vars == <<lock, probing, index, dirs, pc, removing, reading, cleaning, history>>

WriterPcs == {"idle", "stage", "publish", "publish_kept", "discard_store", "builds",
              "previous", "read",
              "mark", "unindex", "ids", "swap_ids", "cache", "swap_cache", "complete",
              "discard", "recover", "start", "write", "finish", "clear", "aside",
              "promote", "tidy", "done"}
ReaderPcs == {"idle", "probing", "acquire", "refused", "quiet", "recheck", "rename",
              "assess", "read", "hits", "done"}

TypeOK ==
    /\ lock \subseteq Readers \cup {Writer}
    /\ probing \subseteq Readers
    /\ rows \subseteq Paths /\ listed \subseteq Paths /\ leftover \subseteq Paths
    /\ {published, removing, swept, sound} \subseteq BOOLEAN
    /\ {current, previous, build} \subseteq MaybeGeneration
    /\ pc \in WriterPcs
    /\ (Writer \in lock) = (pc # "idle")
    /\ rpc \in [Readers -> ReaderPcs]
    /\ {found, answer, heldSince} \subseteq [Searchers -> SUBSET Paths]
    /\ cleaning \in {"idle", "builds", "cleaned"}

Init ==
    /\ lock = {}
    /\ probing = {}
    /\ rows = Paths
    /\ listed = Paths
    /\ published = TRUE
    /\ current = NoGeneration
    /\ previous = NoGeneration
    /\ build = NoGeneration
    /\ leftover = {}
    /\ pc = "idle"
    /\ removing = FALSE
    /\ rpc = [r \in Readers |-> "idle"]
    /\ found = [r \in Searchers |-> {}]
    /\ answer = [r \in Searchers |-> {}]
    /\ cleaning = "idle"
    /\ swept = TRUE
    /\ sound = FALSE
    /\ heldSince = [r \in Searchers |-> {}]

Mutex == INSTANCE WriterMutex WITH Writers <- Readers \cup {Writer}, holders <- lock

(***************************************************************************)
(* What a generation is to its readers.                                    *)
(***************************************************************************)
Exists(g) == g # NoGeneration

Quoted(g) ==
    IF Exists(g) THEN UNION {g.ids, g.cache, g.index, g.stagedIds, g.stagedCache} ELSE {}

\* semantic_generation_complete.
Complete(g) == Exists(g) /\ {"manifest", "ids", "cache", "index"} \subseteq g.files

\* `status`: corrupt, and neither corrupt nor stale.
Corrupt(g) == "manifest" \notin g.files \/ {"marker", "index"} \cap g.files = {}

\* Mutant: the fingerprint of the published index is not compared.
ReadyForAnyIndex(g) ==
    /\ Exists(g)
    /\ ~Corrupt(g)
    /\ "marker" \notin g.files

Ready(g) ==
    /\ Exists(g)
    /\ ~Corrupt(g)
    /\ "marker" \notin g.files
    /\ published /\ g.fresh

\* What is left of a generation when only `kept` of its files are.
Torn(g, kept) ==
    [g EXCEPT !.files = kept,
              !.ids   = IF "ids" \in kept THEN @ ELSE {},
              !.cache = IF "cache" \in kept THEN @ ELSE {},
              !.index = IF "index" \in kept THEN @ ELSE {},
              !.complete = @ /\ "marker" \in kept]

\* remove_dir_all stops partway.
TornApart(g) ==
    IF PartialRemovals /\ Exists(g) THEN {Torn(g, kept) : kept \in SUBSET g.files} ELSE {}

\* No generation describes the index published from now on.
Outdated(g) == IF Exists(g) THEN [g EXCEPT !.fresh = FALSE] ELSE g

(***************************************************************************)
(* The writer takes the lock for an index run or for a semantic build.     *)
(***************************************************************************)
Acquire ==
    /\ pc = "idle"
    /\ probing = {}
    /\ Mutex!MAcquire(Writer)
    /\ pc' \in {"stage", "recover"}
    /\ UNCHANGED <<probing, index, dirs, removing, reading, cleaning, history>>

\* A run between staging its rows and publishing them.
Publishing == pc \in {"publish", "publish_kept"}

\* Mutant: the guard outlives the run.
EndRunKeepsLock ==
    /\ pc # "idle"
    /\ pc' = "idle"
    /\ UNCHANGED <<lock, probing, index, dirs, removing, reading, cleaning, history>>

\* The run ends, or its process is killed: the directory of a build stays behind.  A
\* partial update that fails withdraws the manifest; one that is killed, or that
\* changed no row, does not.
EndRun ==
    /\ Mutex!MRelease(Writer)
    /\ published' \in (IF ~Publishing \/ KillsPartial \/ rows = listed THEN {published} ELSE {})
                     \cup (IF Publishing THEN {FALSE} ELSE {})
    /\ pc' = "idle"
    /\ removing' = FALSE
    /\ leftover' = leftover \cup Quoted(build)
    /\ build' = NoGeneration
    /\ UNCHANGED <<probing, rows, listed, current, previous, reading, cleaning, history>>

Step(from, to) == pc = from /\ pc' = to /\ UNCHANGED <<lock, probing>>

\* Staging replaces the rows: a full run removes the manifest with them, a partial
\* update leaves it published, and prunes only when it deleted a file.
Stage ==
    /\ \/ Step("stage", "publish") /\ published' = FALSE
       \/ Step("stage", "publish") /\ UNCHANGED published
       \/ Step("stage", "publish_kept") /\ UNCHANGED published /\ published
    /\ rows' \in SUBSET Paths
    /\ pc' = "publish_kept" => rows \subseteq rows'
    /\ swept' = (swept /\ rows \subseteq rows')
    /\ heldSince' = [r \in Searchers |->
                        IF rpc[r] = "idle" THEN {} ELSE heldSince[r] \cup rows']
    /\ UNCHANGED <<listed, dirs, removing, rpc, found, answer, cleaning, sound>>

\* put_manifest.  A run that clears text stored before redaction then discards the
\* store first.
Publish ==
    /\ \/ pc = "publish" /\ pc' \in {"discard_store", "builds"}
       \/ pc = "publish_kept" /\ pc' = "done"
    /\ published' = TRUE
    /\ listed' = rows
    /\ current' = Outdated(current)
    /\ previous' = Outdated(previous)
    /\ UNCHANGED <<lock, probing, rows, build, leftover, removing, reading, cleaning,
                   history>>

\* discard_vector_store removes the whole root, or fails before or after a part of it.
DiscardStore ==
    /\ Step("discard_store", "builds")
    /\ \/ /\ current' = NoGeneration
          /\ previous' = NoGeneration
          /\ leftover' = {}
       \/ UNCHANGED <<current, previous, leftover>>
       \/ /\ PartialRemovals
          /\ current' \in {current, NoGeneration} \cup TornApart(current)
          /\ previous' \in {previous, NoGeneration} \cup TornApart(previous)
          /\ leftover' \in SUBSET leftover
    /\ sound' = FALSE
    /\ UNCHANGED <<index, build, removing, reading, cleaning, swept>>

(***************************************************************************)
(* prune_vector_store.                                                     *)
(***************************************************************************)
PruneBuilds ==
    /\ Step("builds", "previous")
    /\ leftover' = {}
    /\ UNCHANGED <<index, current, previous, build, removing, reading, cleaning, history>>

\* A previous generation beside a current one is removed, alone it is recovered.
PrunePrevious ==
    /\ Step("previous", "read")
    /\ current' = (IF Exists(current) THEN current ELSE previous)
    /\ previous' = NoGeneration
    /\ UNCHANGED <<index, build, leftover, removing, reading, cleaning, history>>

Removed(g) == g.ids \ rows
Interrupted(g) == "marker" \in g.files /\ ~g.complete

\* Mutant: a generation whose ids.json holds nothing to remove needs nothing.
NothingRemoved(g) == Removed(g) = {}

NothingToPrune(g) == Removed(g) = {} /\ ~Interrupted(g)

Readable(g) == {"manifest", "ids", "cache"} \subseteq g.files

PruneFindsNothing ==
    /\ Step("read", "done")
    /\ Exists(current) => "ids" \in current.files /\ NothingToPrune(current)
    /\ swept' = TRUE
    /\ UNCHANGED <<index, dirs, removing, reading, cleaning, sound>>

\* read_json takes a marker it cannot read for none: the prune returns Ok, and what the
\* interrupted one left stays.  `swept` is not for such a prune.
PruneMissesMarker ==
    /\ Step("read", "done")
    /\ Exists(current)
    /\ "ids" \in current.files /\ Removed(current) = {} /\ Interrupted(current)
    /\ UNCHANGED <<index, dirs, removing, reading, cleaning, history>>

\* A generation that cannot be read, because a file is not there or a read fails, is
\* removed whole.
PruneUnreadable ==
    /\ Step("read", "discard")
    /\ Exists(current)
    /\ UNCHANGED <<index, dirs, removing, reading, cleaning, history>>

PruneStarts ==
    /\ Step("read", "mark")
    /\ Exists(current) /\ Readable(current) /\ ~NothingToPrune(current)
    /\ removing' = (Removed(current) # {})
    /\ UNCHANGED <<index, dirs, reading, cleaning, history>>

\* One rewriting step: the files of `current` change as `g` says.
Rewrite(from, to, g) ==
    /\ Step(from, to)
    /\ Exists(current)
    /\ current' = g
    /\ sound' = FALSE
    /\ UNCHANGED <<index, previous, build, leftover, removing, reading, cleaning, swept>>

Without(g, name) == g.files \ {name}
With(g, name) == g.files \cup {name}

\* Mutant: the marker is only written at the end.
PruneMarksLater == Rewrite("mark", "unindex", current)

PruneMarks ==
    Rewrite("mark", "unindex",
        [current EXCEPT !.files = With(current, "marker"), !.complete = FALSE])

PruneDropsIndex ==
    Rewrite("unindex", IF removing THEN "ids" ELSE "cache",
        [current EXCEPT !.files = Without(current, "index"), !.index = {}])

StageIds == Rewrite("ids", "swap_ids", [current EXCEPT !.stagedIds = current.ids \cap rows])

SwapIds ==
    Rewrite("swap_ids", "cache",
        [current EXCEPT !.ids = current.stagedIds, !.stagedIds = {}])

StageCache ==
    Rewrite("cache", "swap_cache",
        [current EXCEPT !.stagedCache = current.cache \cap current.ids \cap rows])

SwapCache ==
    Rewrite("swap_cache", "complete",
        [current EXCEPT !.cache = current.stagedCache, !.stagedCache = {}])

\* The last file written: every file of the generation has been rewritten.
PruneCompletes ==
    /\ Step("complete", "done")
    /\ Exists(current)
    /\ current' = [current EXCEPT !.complete = TRUE]
    /\ swept' = TRUE
    /\ UNCHANGED <<index, previous, build, leftover, removing, reading, cleaning, sound>>

RewriteFails ==
    /\ \E from \in {"mark", "unindex", "ids", "swap_ids", "cache", "swap_cache", "complete"} :
          Step(from, "discard")
    /\ UNCHANGED <<index, dirs, removing, reading, cleaning, history>>

DiscardCurrent ==
    /\ Step("discard", "done")
    /\ Exists(current)
    /\ current' = NoGeneration
    /\ swept' = TRUE
    /\ sound' = FALSE
    /\ UNCHANGED <<index, previous, build, leftover, removing, reading, cleaning>>

\* A removal fails, before or after some of the files went: the prune returns Err.
PruneFails ==
    /\ \/ Step("builds", "done") /\ leftover' \in SUBSET leftover /\ UNCHANGED <<current, previous>>
       \/ /\ Step("previous", "done")
          /\ previous' \in {previous} \cup (IF Exists(current) THEN TornApart(previous) ELSE {})
          /\ UNCHANGED <<current, leftover>>
       \/ /\ Step("discard", "done")
          /\ current' \in {current} \cup TornApart(current)
          /\ UNCHANGED <<previous, leftover>>
    /\ sound' = (sound /\ pc # "discard")
    /\ UNCHANGED <<index, build, removing, reading, cleaning, swept>>

(***************************************************************************)
(* build_and_promote, and what recovers an interrupted one.                *)
(***************************************************************************)
\* A watcher builds in the run that pruned.
BuildNext ==
    /\ Step("done", "recover")
    /\ UNCHANGED <<index, dirs, removing, reading, cleaning, history>>

Recoverable == ~Exists(current) /\ Complete(previous)

RecoverPrevious ==
    /\ current' = previous
    /\ previous' = NoGeneration

\* `rebuild` first removes the directories of interrupted builds.
BuildRecovers ==
    /\ Step("recover", "start")
    /\ IF Recoverable THEN RecoverPrevious ELSE UNCHANGED <<current, previous>>
    /\ sound' = (sound \/ Recoverable)
    /\ leftover' \in {leftover, {}}
    /\ UNCHANGED <<index, build, removing, reading, cleaning, swept>>

\* `let _ = recover_interrupted_promotion()`: the previous generation cannot be read or
\* renamed, and the build goes on to remove it.
RecoveryIgnored ==
    /\ Step("recover", "start")
    /\ Recoverable
    /\ sound' = FALSE
    /\ leftover' \in {leftover, {}}
    /\ UNCHANGED <<index, current, previous, build, removing, reading, cleaning, swept>>

StartBuild ==
    /\ Step("start", "write")
    /\ build' = Empty
    /\ UNCHANGED <<index, current, previous, leftover, removing, reading, cleaning, history>>

\* Mutant: the build is promoted once its targets are written.
PromotesBeforeIndex ==
    /\ Step("write", "clear")
    /\ published
    /\ build' = [Empty EXCEPT !.files = {"manifest", "ids"}, !.ids = rows, !.fresh = TRUE]
    /\ UNCHANGED <<index, current, previous, leftover, removing, reading, cleaning, history>>

\* The texts are embedded; the manifest and the targets are written first.
WriteTargets ==
    /\ Step("write", "finish")
    /\ published
    /\ build' = [Empty EXCEPT !.files = {"manifest", "ids"}, !.ids = rows, !.fresh = TRUE]
    /\ UNCHANGED <<index, current, previous, leftover, removing, reading, cleaning, history>>

\* Then the cache, the vector index and stats.json, in a directory write_json creates
\* again when it is gone.
WriteIndex ==
    /\ Step("finish", "clear")
    /\ LET begun == IF Exists(build) THEN build ELSE Empty
       IN build' = [begun EXCEPT !.files = @ \cup {"cache", "index"},
                                 !.cache = rows, !.index = rows]
    /\ UNCHANGED <<index, current, previous, leftover, removing, reading, cleaning, history>>

\* The provider, the fingerprint or a write fails.
BuildFails ==
    /\ \E from \in {"start", "write", "finish"} : Step(from, "done")
    /\ leftover' = leftover \cup Quoted(build)
    /\ build' = NoGeneration
    /\ UNCHANGED <<index, current, previous, removing, reading, cleaning, history>>

\* `let _ = remove_dir_all(previous)`: a failure is ignored.
RemovePrevious(from, to) ==
    /\ Step(from, to)
    /\ previous' \in {NoGeneration, previous} \cup TornApart(previous)
    /\ UNCHANGED <<index, current, build, leftover, removing, reading, cleaning, history>>

ClearPrevious == RemovePrevious("clear", "aside")

\* Mutant: the current generation is removed to make room.
RemoveCurrentFirst ==
    /\ Step("aside", "promote")
    /\ current' = NoGeneration
    /\ UNCHANGED <<index, previous, build, leftover, removing, reading, cleaning, history>>

\* rename(current, previous), which a directory left at `previous` refuses.
MoveAside ==
    /\ Step("aside", "promote")
    /\ Exists(current) => ~Exists(previous)
    /\ IF Exists(current)
       THEN previous' = current /\ current' = NoGeneration
       ELSE UNCHANGED <<current, previous>>
    /\ UNCHANGED <<index, build, leftover, removing, reading, cleaning, history>>

MoveAsideFails ==
    /\ Step("aside", "done")
    /\ Exists(current)
    /\ leftover' = leftover \cup Quoted(build)
    /\ build' = NoGeneration
    /\ UNCHANGED <<index, current, previous, removing, reading, cleaning, history>>

\* rename(build, current), which a directory at `current` refuses.
Promote ==
    /\ Step("promote", "tidy")
    /\ Exists(build) /\ ~Exists(current)
    /\ current' = build
    /\ build' = NoGeneration
    /\ sound' = (sound \/ Complete(build))
    /\ UNCHANGED <<index, previous, leftover, removing, reading, cleaning, swept>>

\* The rename fails: the previous generation is put back, when that works.
PromoteFails ==
    /\ Step("promote", "done")
    /\ \/ ~Exists(current) /\ Exists(previous) /\ RecoverPrevious
       \/ UNCHANGED <<current, previous>>
    /\ leftover' = leftover \cup Quoted(build)
    /\ build' = NoGeneration
    /\ UNCHANGED <<index, removing, reading, cleaning, history>>

TidyPrevious == RemovePrevious("tidy", "done")

(***************************************************************************)
(* `ok semantic clean`: the current generation, then the builds; with      *)
(* `--include-cache` the whole store.                                      *)
(***************************************************************************)
CleanAll ==
    /\ Cleans
    /\ cleaning = "idle"
    /\ current' = NoGeneration
    /\ previous' = NoGeneration
    /\ build' = NoGeneration
    /\ leftover' = {}
    /\ sound' = FALSE
    /\ cleaning' = "cleaned"
    /\ UNCHANGED <<lock, probing, index, pc, removing, reading, swept>>

CleanCurrent ==
    /\ Cleans
    /\ cleaning = "idle"
    /\ current' \in {NoGeneration} \cup TornApart(current)
    /\ sound' = FALSE
    /\ cleaning' = "builds"
    /\ UNCHANGED <<lock, probing, index, previous, build, leftover, pc, removing, reading,
                   swept>>

CleanBuilds ==
    /\ cleaning = "builds"
    /\ build' = NoGeneration
    /\ leftover' = {}
    /\ cleaning' = "cleaned"
    /\ UNCHANGED <<lock, probing, index, current, previous, pc, removing, reading, history>>

(***************************************************************************)
(* Readers: index_write_in_progress, `status`, and `search` after it.      *)
(***************************************************************************)
ReaderStep(r, from, to) ==
    /\ rpc[r] = from
    /\ rpc' = [rpc EXCEPT ![r] = to]
    /\ UNCHANGED <<index, build, leftover, pc, removing, cleaning, swept, sound>>

Quiet == UNCHANGED <<lock, probing, current, previous>>

\* A read surface that finds no index probes the lock for a moment.
Probe(r) ==
    /\ ReaderStep(r, "idle", "probing")
    /\ lock = {}
    /\ probing' = probing \cup {r}
    /\ UNCHANGED <<lock, current, previous, found, answer, heldSince>>

EndProbe(r) ==
    /\ \E to \in {"idle", "recheck"} :
          ReaderStep(r, IF to = "idle" THEN "probing" ELSE "quiet", to)
    /\ probing' = probing \ {r}
    /\ UNCHANGED <<lock, current, previous, found, answer, heldSince>>

\* recover_interrupted_promotion_unless_locked.
StatusBegins(r) ==
    /\ ReaderStep(r, "idle",
          IF Exists(current) \/ ~Exists(previous) THEN "assess" ELSE "acquire")
    /\ heldSince' = [q \in Searchers |-> IF q = r THEN rows \cup listed ELSE heldSince[q]]
    /\ Quiet
    /\ UNCHANGED <<found, answer>>

TryLock(r) ==
    /\ ReaderStep(r, "acquire", "recheck")
    /\ probing = {}
    /\ Mutex!MAcquire(r)
    /\ UNCHANGED <<probing, current, previous, found, answer, heldSince>>

\* Someone holds the lock file, even for a moment, or it cannot be opened.
TryLockFails(r) ==
    /\ ReaderStep(r, "acquire", "refused")
    /\ Quiet
    /\ UNCHANGED <<found, answer, heldSince>>

\* index_write_in_progress: recovery is left to the writer there is.
LeaveToWriter(r) ==
    /\ ReaderStep(r, "refused", "assess")
    /\ lock # {}
    /\ Quiet
    /\ UNCHANGED <<found, answer, heldSince>>

NoWriter(r) ==
    /\ ReaderStep(r, "refused", "quiet")
    /\ lock = {}
    /\ probing' = probing \cup {r}
    /\ UNCHANGED <<lock, current, previous, found, answer, heldSince>>

\* index_write_in_progress cannot open or lock the file: status takes it for no writer.
ProbeFails(r) ==
    /\ ReaderStep(r, "refused", "recheck")
    /\ Quiet
    /\ UNCHANGED <<found, answer, heldSince>>

\* Nothing to recover, or a previous generation that cannot be read, ends the recovery.
Recheck(r) ==
    /\ \/ ReaderStep(r, "recheck", "rename") /\ Recoverable /\ UNCHANGED lock
       \/ ReaderStep(r, "recheck", "assess") /\ lock' = lock \ {r}
    /\ UNCHANGED <<probing, current, previous, found, answer, heldSince>>

\* fs::rename(previous, current), which may fail, after which the lock is dropped, if it
\* was taken.
StatusRecovers(r) ==
    /\ ReaderStep(r, "rename", "assess")
    /\ \/ ~Exists(current) /\ Exists(previous) /\ RecoverPrevious
       \/ UNCHANGED <<current, previous>>
    /\ lock' = lock \ {r}
    /\ UNCHANGED <<probing, found, answer, heldSince>>

\* `status` returns; a search goes on when the generation is ready.  Its reads of the
\* files are one step here: whatever they find, `ready` needs the fingerprint read last.
Assess(r) ==
    /\ LET searches == r \in Searchers /\ Ready(current)
       IN /\ ReaderStep(r, "assess", IF searches THEN "read" ELSE "idle")
          /\ heldSince' = [q \in Searchers |->
                 IF q = r /\ ~searches THEN {} ELSE heldSince[q]]
    /\ Quiet
    /\ UNCHANGED <<found, answer>>

ReadTargets(r) ==
    /\ ReaderStep(r, "read", "hits")
    /\ Exists(current) /\ "ids" \in current.files
    /\ found' = [found EXCEPT ![r] = current.ids]
    /\ Quiet
    /\ UNCHANGED <<answer, heldSince>>

\* The index is loaded, or rebuilt from the cache for a small scope, and its hits are
\* looked up among the targets read before.
SearchHits(r) ==
    /\ ReaderStep(r, "hits", "done")
    /\ Exists(current)
    /\ \/ "index" \in current.files /\ answer' = [answer EXCEPT ![r] = found[r] \cap current.index]
       \/ "cache" \in current.files /\ answer' = [answer EXCEPT ![r] = found[r] \cap current.cache]
    /\ Quiet
    /\ UNCHANGED <<found, heldSince>>

\* The search returns, with its results or, at any read, an error.
SearchReturns(r) ==
    /\ \E from \in {"read", "hits", "done"} : ReaderStep(r, from, "idle")
    /\ found' = [found EXCEPT ![r] = {}]
    /\ answer' = [answer EXCEPT ![r] = {}]
    /\ heldSince' = [heldSince EXCEPT ![r] = {}]
    /\ Quiet

Prune ==
    \/ PruneBuilds \/ PrunePrevious \/ PruneFindsNothing \/ PruneMissesMarker
    \/ PruneUnreadable \/ PruneStarts
    \/ PruneMarks \/ PruneDropsIndex \/ StageIds \/ SwapIds \/ StageCache \/ SwapCache
    \/ PruneCompletes \/ RewriteFails \/ DiscardCurrent \/ PruneFails

Build ==
    \/ BuildNext \/ BuildRecovers \/ RecoveryIgnored \/ StartBuild \/ WriteTargets
    \/ WriteIndex \/ BuildFails \/ ClearPrevious \/ MoveAside \/ MoveAsideFails
    \/ Promote \/ PromoteFails \/ TidyPrevious

Read(r) ==
    \/ Probe(r) \/ EndProbe(r) \/ StatusBegins(r) \/ TryLock(r) \/ TryLockFails(r)
    \/ LeaveToWriter(r) \/ NoWriter(r) \/ ProbeFails(r) \/ Recheck(r) \/ StatusRecovers(r)
    \/ Assess(r) \/ ReadTargets(r) \/ SearchHits(r) \/ SearchReturns(r)

Next ==
    \/ Acquire \/ EndRun \/ Stage \/ Publish \/ DiscardStore
    \/ Prune \/ Build
    \/ CleanAll \/ CleanCurrent \/ CleanBuilds
    \/ \E r \in Readers : Read(r)

Spec == Init /\ [][Next]_vars

(***************************************************************************)
(* Properties.                                                             *)
(***************************************************************************)
\* "No file under `.ok/vectors` keeps the removed text", once a prune that could read
\* the marker of the one before it returned Ok and until an index run changes the rows
\* again, whatever earlier prunes, builds and promotions were interrupted, and whatever
\* is recovered afterwards.
PrunedStoreHoldsNothing ==
    swept => UNION {Quoted(current), Quoted(previous), Quoted(build), leftover} \subseteq rows

\* "If promotion fails, the previous `current` index is restored": a complete
\* generation, once promoted, is never lost to a failed or killed build, unless that
\* build found it as `previous`, failed to recover it and went on.
LastGoodKept == sound => Complete(current) \/ Complete(previous)

\* "A run killed partway leaves a stale generation, never a corrupt one".
NeverCorrupt == Exists(current) => ~Corrupt(current)

\* What a search returns, although it reads the generation in several steps without
\* a lock, are paths that the index, or the last one a manifest was published for,
\* held at some time during the search.
SearchAnswersIndexed ==
    \A r \in Searchers : answer[r] \subseteq heldSince[r]

\* "Promoted only after manifest, ids, cache, stats, and backend-specific index files
\* are complete".
PromotedComplete == [][Promote => Complete(build)]_vars
=============================================================================
