-------------------------- MODULE DeletedContent ---------------------------
(***************************************************************************)
(* What an index run owes the bytes it deletes.                            *)
(*                                                                         *)
(* SQLite keeps a deleted row's bytes in the pages it frees and in its     *)
(* write-ahead log, and the semantic vector store holds a second copy of   *)
(* the text.  A run of `ok index`, of a starting `ok watch` or of a watch  *)
(* event decides after staging its rows what it owes (a compaction, a      *)
(* prune of the vector store, the one-time clearing of text stored before  *)
(* secret-value redaction), publishes a manifest that records the debt,    *)
(* pays it, and rewrites the manifest when the outcome differs.            *)
(*                                                                         *)
(* A file's content is named by the source path it was first written at,   *)
(* so a copy in a denied directory holds the same content.  Raw stands for *)
(* every value stored before redaction.  The write lock admits one run at  *)
(* a time (IndexLock), so `run` is the state of the one there is.          *)
(***************************************************************************)
EXTENDS Naturals, FiniteSets

CONSTANTS
    Sources,       \* paths the policy admits unless excluded; also their contents
    Permanent,     \* sources that every scan finds and indexes
    Documents,     \* sources stored as document sections only, with no file row
    HistoryPaths,  \* paths only the Git history names
    Deniable,      \* paths a `[paths] deny` glob may come to exclude
    Ignorable,     \* sources Git-ignore rules may come to exclude
    Vaults,        \* paths the security rules always skip
    Withheld,      \* the vaults recorded only as `[redacted]`
    Raw,           \* the text stored before secret-value redaction
    NoContent,     \* no file at a vault path
    NoManifest,    \* nothing published
    Unreadable,    \* a published manifest this version cannot decode
    Kinds,         \* the runs there are, among "index", "start" and "event"
    Stores,        \* the databases a first run may find; see Init
    CutPoints,     \* the program points at which a run may be cut short
    PackReaders    \* readers store compressed context packs

ASSUME PathsAssumption ==
    /\ IsFiniteSet(Vaults)
    /\ Permanent \subseteq Sources \ (Deniable \cup Ignorable)
    /\ Ignorable \subseteq Sources
    /\ Documents \subseteq Sources
    /\ Deniable \subseteq Sources \cup HistoryPaths
    /\ HistoryPaths \cap Sources = {}
    /\ Vaults \cap (Sources \cup HistoryPaths) = {}
    /\ Withheld \subseteq Vaults
    /\ Raw \notin Sources \cup HistoryPaths \cup Vaults
    /\ NoContent \notin Sources
    /\ Kinds \subseteq {"index", "start", "event"}
    /\ Stores \subseteq {"new", "current", "unmarked", "older", "unreadable"}
    /\ PackReaders \in BOOLEAN

Contents  == Sources \cup HistoryPaths \cup {Raw}
Skippable == Vaults \cup (Deniable \cap Sources)

\* del: pending_deleted_content_clearing; prune: pending_derived_store_pruning;
\* pre: needs_pre_redaction_compaction().
Manifests == [skips: SUBSET Skippable, del: BOOLEAN, prune: BOOLEAN, pre: BOOLEAN]

ASSUME ManifestAssumption ==
    /\ NoManifest \notin Manifests
    /\ Unreadable \notin Manifests
    /\ NoManifest # Unreadable

(***************************************************************************)
(* What a scan of the working tree under the current policy finds: the     *)
(* files it indexes, the history it records, what the policy excludes (and *)
(* of that, what the security rules exclude), the paths those rules        *)
(* skipped, and the contents at them.                                      *)
(***************************************************************************)
Scan(present, hist, denied, ignored, vault) ==
    [files    |-> present \ (denied \cup ignored),
     history  |-> hist \ denied,
     excluded |-> denied \cup ignored,
     denied   |-> denied,
     skips    |-> (present \cap denied) \cup {v \in Vaults : vault[v] # NoContent},
     hidden   |-> [s \in Skippable |->
                     IF s \in Vaults THEN vault[s]
                     ELSE IF s \in present \cap denied THEN s ELSE NoContent]]

Scans ==
    {Scan(p, h, d, i, v) :
        p \in {q \in SUBSET Sources : Permanent \subseteq q}, h \in SUBSET HistoryPaths,
        d \in SUBSET Deniable, i \in SUBSET Ignorable,
        v \in [Vaults -> (Sources \ Permanent) \cup {NoContent}]}

VARIABLES
    rows,       \* contents of the indexed rows (files and document sections)
    history,    \* paths the history rows name
    manifest,   \* the published manifest, if any
    freed,      \* deleted contents in free pages and unallocated space
    logged,     \* deleted contents in the write-ahead log, or in file pages it replaced
    dropFlag,   \* schema_meta: an indexed path was removed since the last compaction
    gainFlag,   \* schema_meta: a security skip appeared since the last compaction
    marked,     \* schema_meta: excluded_content_cleared_v1
    vectors,    \* contents the semantic vector store quotes
    handles,    \* contents the stored context handles quote
    pack,       \* contents of a context pack a reader has built and not yet stored
    pc,         \* where the run is
    run,        \* the run's own state
    evicted,    \* history: contents that left the rows because the policy excludes them
    copied,     \* history: contents that runs saw appear at a newly skipped path since
                \* the last compaction, and that are still there
    overtaken,  \* history: contents quoted although their rows are gone, by a reader that
                \* stored them late or because a partial update was killed
    settled,    \* history: whether no step failed in the last full run, and none has begun since
    forgotten   \* history: contents that were gone when a partial update was killed over a
                \* manifest that reports nothing, until a manifest does, they are indexed again,
                \* or a compaction and its checkpoint succeed

content == <<rows, history>>
bytes   == <<freed, logged>>
evidence == <<dropFlag, gainFlag, marked>>
flags   == <<evidence, forgotten>>
derived == <<vectors, handles>>
readers == <<pack, overtaken>>
vars    == <<content, manifest, bytes, flags, derived, readers, evicted, copied,
             settled, pc, run>>

Pcs == {"idle", "stage", "documents", "history", "decide", "publish", "pre", "record_pre",
        "clear", "record", "prune", "record_prune", "semantic"}

Blank == [skips |-> {}, del |-> FALSE, prune |-> FALSE, pre |-> FALSE]

NoScan == Scan({}, {}, {}, {}, [v \in Vaults |-> NoContent])

\* No run.  `scan`, `previous`, `indexed` and `named` are what the run found before
\* staging, and are forgotten once it has decided what it owes.
NoRun == [kind |-> "index", scan |-> NoScan, previous |-> NoManifest, indexed |-> {},
          named |-> {}, partial |-> FALSE, staged |-> FALSE, owed |-> FALSE, prunes |-> FALSE,
          compacted |-> FALSE, failed |-> FALSE, manifest |-> Blank]

Runs ==
    [kind : {"index", "start", "event"},
     scan : [files : SUBSET Sources, history : SUBSET HistoryPaths,
             excluded : SUBSET (Deniable \cup Ignorable), denied : SUBSET Deniable,
             skips : SUBSET Skippable, hidden : [Skippable -> Sources \cup {NoContent}]],
     previous : Manifests \cup {NoManifest, Unreadable},
     indexed : SUBSET Sources, named : SUBSET HistoryPaths,
     partial : BOOLEAN, staged : BOOLEAN, owed : BOOLEAN, prunes : BOOLEAN,
     compacted : BOOLEAN, failed : BOOLEAN, manifest : Manifests]

Published == manifest \in Manifests
Residue == (freed \cup logged) \ (rows \cup history)

TypeOK ==
    /\ rows \subseteq Sources \cup {Raw}
    /\ history \subseteq HistoryPaths
    /\ manifest \in Manifests \cup {NoManifest, Unreadable}
    /\ freed \subseteq Contents
    /\ logged \subseteq Contents
    /\ {dropFlag, gainFlag, marked, settled} \subseteq BOOLEAN
    /\ vectors \subseteq (Sources \ Documents) \cup {Raw}
    /\ UNION {handles, pack, overtaken} \subseteq Sources
    /\ pc \in Pcs
    /\ run \in Runs /\ (pc = "idle" => run = NoRun)
    /\ run.partial => run.kind = "event"
    /\ evicted \subseteq Contents
    /\ copied \subseteq Sources
    /\ forgotten \subseteq Contents

(***************************************************************************)
(* The databases a first run may find: none yet ("new"), one this version  *)
(* published ("current"), one an earlier version published, which did not  *)
(* compact what it excluded ("unmarked") nor redact values ("older"), and  *)
(* one whose manifest cannot be read ("unreadable").                       *)
(***************************************************************************)
Init ==
    /\ \E s \in Stores :
        /\ rows = (CASE s = "new" -> {}
                     [] s = "unmarked" -> Permanent
                     [] s = "older" -> Permanent \cup {Raw}
                     [] OTHER -> Sources)
        /\ history = (IF s = "new" THEN {} ELSE HistoryPaths)
        /\ manifest = (CASE s = "new" -> NoManifest
                         [] s \in {"current", "unmarked"} -> Blank
                         [] s = "older" -> [Blank EXCEPT !.pre = TRUE]
                         [] s = "unreadable" -> Unreadable)
        /\ freed = (CASE s = "older" -> {Raw} \cup (Sources \ Permanent)
                      [] s = "unmarked" -> Sources \ Permanent
                      [] s = "unreadable" -> {Raw}
                      [] OTHER -> {})
        /\ marked = (s \in {"new", "current"})
        /\ vectors = (IF s = "unreadable" THEN rows \cup {Raw} ELSE rows) \ Documents
        /\ evicted = (IF s \in {"unmarked", "older"} THEN Sources \ Permanent ELSE {})
    /\ logged = {}
    /\ dropFlag = FALSE
    /\ gainFlag = FALSE
    /\ handles = {}
    /\ pack = {}
    /\ pc = "idle"
    /\ run = NoRun
    /\ copied = {}
    /\ overtaken = {}
    /\ settled = FALSE
    /\ forgotten = {}

(***************************************************************************)
(* Acquire the write lock, scan, and read what the store holds before      *)
(* staging replaces it.  A watch event updates partially when it may.      *)
(***************************************************************************)
MayBePartial(kind) == kind = "event" /\ Published /\ ~manifest.pre

\* `store.manifest()?`: an event ends over a manifest it cannot read.
Begin(kind, scan) ==
    /\ pc = "idle"
    /\ kind = "event" => manifest # Unreadable
    /\ pc' = "stage"
    /\ \E partial \in {FALSE, MayBePartial(kind)} :
        run' = [NoRun EXCEPT !.kind = kind, !.scan = scan, !.previous = manifest,
                    !.indexed = rows \ {Raw}, !.named = history, !.partial = partial]
    /\ settled' = FALSE
    /\ UNCHANGED <<content, manifest, bytes, flags, derived, readers, evicted, copied>>

\* The security skips before and after, compared as a manifest records them.
GainedSecuritySkip(before, after) ==
    \/ (after \ before) \ Withheld # {}
    \/ Cardinality(after \cap Withheld) > Cardinality(before \cap Withheld)

SkipsBefore == IF run.previous \in Manifests THEN run.previous.skips ELSE {}

Appeared ==
    IF GainedSecuritySkip(SkipsBefore, run.scan.skips)
    THEN {run.scan.hidden[s] : s \in run.scan.skips \ SkipsBefore}
    ELSE {}

\* Which contents lie at a path whose skip is new, for the properties.
ObserveMoves ==
    LET still == {run.scan.hidden[s] : s \in run.scan.skips}
    IN copied' = (copied \cap still) \cup Appeared

\* Rows become `new`, and the bytes of `deleted` stay behind.
ReplaceRows(new, deleted) ==
    /\ rows' = new
    /\ freed' = freed \cup deleted
    /\ logged' = logged \cup deleted
    /\ evicted' = (evicted \cup ((rows \ new) \cap run.scan.excluded)) \ new
    /\ forgotten' = forgotten \ new

\* stage_index_with_documents: one transaction, the manifest removed with the rows.
StageFull ==
    /\ pc = "stage"
    /\ ~run.partial
    /\ ReplaceRows(run.scan.files, rows)
    /\ manifest' = NoManifest
    /\ pc' = "history"
    /\ ObserveMoves
    /\ UNCHANGED <<history, evidence, derived, readers, run, settled>>

\* stage_files_index_with_graph, when a file changed: the previous manifest stays
\* published.  An edit changes a file in place.
StagePartial ==
    /\ pc = "stage"
    /\ run.partial
    /\ LET new == (rows \cap Documents) \cup (run.scan.files \ Documents)
       IN /\ ReplaceRows(new, rows \ new)
          /\ \E edited \in BOOLEAN : run' = [run EXCEPT !.staged = (new # rows) \/ edited]
    /\ pc' = "documents"
    /\ ObserveMoves
    /\ UNCHANGED <<history, manifest, evidence, derived, readers, settled>>

\* The partial update's transaction fails: the event rebuilds in full.
PartialFails ==
    /\ pc = "stage"
    /\ run.partial
    /\ run' = [run EXCEPT !.partial = FALSE]
    /\ UNCHANGED <<content, manifest, bytes, flags, derived, readers, evicted, copied,
                   settled, pc>>

\* replace_document_sections_for_paths, in a transaction of its own.
ReplaceDocuments ==
    /\ pc = "documents"
    /\ ReplaceRows(run.scan.files, rows \ run.scan.files)
    /\ pc' = "history"
    /\ UNCHANGED <<history, manifest, evidence, derived, readers, copied, run, settled>>

\* put_history_snapshot.
PutHistory ==
    /\ pc = "history"
    /\ history' = run.scan.history
    /\ freed' = freed \cup history
    /\ logged' = logged \cup history
    /\ evicted' = (evicted \cup ((history \ run.scan.history) \cap run.scan.denied))
                  \ run.scan.history
    /\ forgotten' = forgotten \ run.scan.history
    /\ pc' = "decide"
    /\ UNCHANGED <<rows, manifest, evidence, derived, readers, copied, run, settled>>

(***************************************************************************)
(* What the run owes, decided once its rows are written.                   *)
(***************************************************************************)
Full == run.kind # "event"
Known == run.previous \in Manifests
Dropped == run.indexed \ rows
Gained == GainedSecuritySkip(SkipsBefore, run.scan.skips)

\* Mutant: a database an earlier version wrote is taken for a cleared one.
OwedIgnoringMark ==
    \/ run.kind = "index" /\ run.previous = Unreadable
    \/ Full /\ Known /\ run.previous.del
    \/ ~Known /\ run.indexed # {}

\* Owed whatever this run removed; the early returns of compaction_owed.
OwedAlready ==
    \/ run.kind = "index" /\ run.previous = Unreadable
    \/ Full /\ ~marked
    \/ Full /\ Known /\ run.previous.del
    \/ ~Known /\ run.indexed # {}

\* A move may have happened: both halves were seen since the last compaction.
MayHaveMoved ==
    /\ Dropped # {} \/ Gained
    /\ dropFlag \/ Dropped # {}
    /\ gainFlag \/ Gained

RemovedExcluded ==
    \/ (run.named \ history) \cap run.scan.denied # {}
    \/ Dropped \cap run.scan.excluded # {}

\* Mutant: only moves are compacted, not the paths the policy came to exclude.
OwedForMovesOnly(answer) == OwedAlready \/ MayHaveMoved => answer

\* compaction_owed.  A policy or a store that cannot be read counts as owing it.
CompactionOwed(answer) == OwedAlready \/ MayHaveMoved \/ RemovedExcluded => answer

\* Mutant: the evidence is used by the run that saw it and not kept.
EvidenceNotKept == UNCHANGED <<dropFlag, gainFlag>>

\* note_removal_evidence, reached when nothing else already owes a compaction.
NoteRemovalEvidence ==
    /\ dropFlag' = (dropFlag \/ (~OwedAlready /\ Dropped # {}))
    /\ gainFlag' = (gainFlag \/ (~OwedAlready /\ Gained))

DeletedContentOwed(owed) == owed \/ (~Full /\ Known /\ run.previous.del)

\* dropped_indexed_path.
DroppedIndexedPath ==
    \/ ~Known /\ run.indexed # {}
    \/ Dropped # {}

\* A partial update counts the files it deleted; documents have no file row.
PartialDropped(owed) == Dropped \ Documents # {} \/ owed

\* Mutant: only a prune an earlier run left pending is recorded.
PruneOwedBefore(owed) == Known /\ run.previous.prune

PruneOwed(owed) ==
    \/ run.kind = "index" /\ run.previous = Unreadable
    \/ Known /\ run.previous.prune
    \/ IF run.partial THEN PartialDropped(owed) ELSE DroppedIndexedPath

\* Only a run that may have removed a path prunes.
Prunes(owed) == run.partial => PartialDropped(owed)

\* compact_after_publish.  A watcher start reads an unreadable manifest as none.
PreRedactionOwed ==
    \/ run.kind = "index" /\ run.previous = Unreadable
    \/ Known /\ run.previous.pre

Decide ==
    /\ pc = "decide"
    /\ \E owed \in BOOLEAN :
        /\ CompactionOwed(owed)
        /\ run' = [NoRun EXCEPT
                     !.kind = run.kind, !.partial = run.partial, !.staged = run.staged,
                     !.owed = owed, !.prunes = Prunes(owed),
                     !.manifest = [skips |-> run.scan.skips,
                                   del   |-> DeletedContentOwed(owed),
                                   prune |-> PruneOwed(owed),
                                   pre   |-> PreRedactionOwed]]
    /\ NoteRemovalEvidence
    /\ pc' = "publish"
    /\ UNCHANGED <<content, manifest, bytes, marked, forgotten, derived, readers, evicted,
                   copied, settled>>

PutManifest ==
    /\ manifest' = run.manifest
    /\ forgotten' = IF run.manifest.del THEN {} ELSE forgotten
    /\ UNCHANGED <<content, bytes, evidence, derived, readers, evicted, copied, settled, run>>

\* put_manifest, once the graph and the search index are in place.
Publish ==
    /\ pc = "publish"
    /\ pc' = (IF run.manifest.pre THEN "pre" ELSE "clear")
    /\ PutManifest

(***************************************************************************)
(* Compaction and the checkpoint.  VACUUM rewrites the database into the   *)
(* log, and the freed bytes stay in the file until the log is moved over   *)
(* it, which another connection's open read blocks.                        *)
(***************************************************************************)
Compacted ==
    /\ freed' = {}
    /\ marked' = TRUE
    /\ dropFlag' = FALSE
    /\ gainFlag' = FALSE
    /\ copied' = {}

Compact == Compacted /\ logged' = logged \cup freed /\ UNCHANGED forgotten

CompactAndTruncate == Compacted /\ logged' = {} /\ forgotten' = {}

TruncateWal ==
    /\ logged' = {}
    /\ UNCHANGED <<freed, flags, copied>>

NothingCleared == UNCHANGED <<bytes, flags, copied>>

\* Mutant: only the database is rewritten.
PreClearDatabaseOnly ==
    /\ pc = "pre"
    /\ CompactAndTruncate
    /\ run' = [run EXCEPT !.compacted = TRUE, !.manifest.pre = FALSE]
    /\ pc' = "record_pre"
    /\ UNCHANGED <<content, manifest, derived, readers, evicted, settled>>

\* compact_pre_redaction_bytes: the vector store, then vacuum.
PreClear ==
    /\ pc = "pre"
    /\ vectors' = {}
    /\ CompactAndTruncate
    /\ run' = [run EXCEPT !.compacted = TRUE, !.manifest.pre = FALSE]
    /\ pc' = "record_pre"
    /\ UNCHANGED <<content, manifest, handles, readers, evicted, settled>>

\* Removing the vector store or VACUUM fails, or the checkpoint is blocked.
PreClearFails ==
    /\ pc = "pre"
    /\ \/ vectors' \in SUBSET vectors /\ NothingCleared
       \/ vectors' = {} /\ Compact
    /\ run' = [run EXCEPT !.failed = TRUE]
    /\ pc' = "clear"
    /\ UNCHANGED <<content, manifest, handles, readers, evicted, settled>>

RecordPreClear ==
    /\ pc = "record_pre"
    /\ pc' = "clear"
    /\ PutManifest

\* clear_deleted_content: compact when this run still owes it, then truncate the
\* log.  An event that compacted nothing leaves an earlier pending clearing pending.
ClearDeletedContent ==
    /\ pc = "clear"
    /\ IF run.owed /\ ~run.compacted THEN CompactAndTruncate ELSE TruncateWal
    /\ run' = [run EXCEPT !.manifest.del =
                  @ /\ ~(Full \/ run.owed \/ run.compacted)]
    /\ pc' = "record"
    /\ UNCHANGED <<content, manifest, derived, readers, evicted, settled>>

\* VACUUM fails, or the checkpoint is blocked after it or without it.
ClearFails ==
    /\ pc = "clear"
    /\ NothingCleared \/ (run.owed /\ ~run.compacted /\ Compact)
    /\ run' = [run EXCEPT !.manifest.del = TRUE, !.failed = TRUE]
    /\ pc' = "record"
    /\ UNCHANGED <<content, manifest, derived, readers, evicted, settled>>

\* record_clearing.
RecordClearing ==
    /\ pc = "record"
    /\ pc' = (IF run.prunes THEN "prune" ELSE "semantic")
    /\ PutManifest

(***************************************************************************)
(* prune_and_record, then the watcher's semantic refresh.  A generation of *)
(* the vector store that cannot be read or rewritten is removed whole.     *)
(***************************************************************************)
PruneRemovedPaths ==
    /\ pc = "prune"
    /\ vectors' \in {vectors \cap (rows \cup {Raw}), {}}
    /\ handles' = handles \cap rows
    /\ overtaken' = {}
    /\ run' = [run EXCEPT !.manifest.prune = FALSE]
    /\ pc' = "record_prune"
    /\ UNCHANGED <<content, manifest, bytes, flags, pack, evicted, copied, settled>>

\* The vector store is pruned first, then the handles in one transaction.
PruneFails ==
    /\ pc = "prune"
    /\ \E gone \in SUBSET (vectors \ rows) : vectors' = vectors \ gone
    /\ run' = [run EXCEPT !.manifest.prune = TRUE, !.failed = TRUE]
    /\ pc' = "record_prune"
    /\ UNCHANGED <<content, manifest, bytes, flags, handles, readers, evicted, copied,
                   settled>>

RecordPrune ==
    /\ pc = "record_prune"
    /\ pc' = "semantic"
    /\ PutManifest

\* Mutant: the next run starts from what this one decided.
EndKeepsState == pc' = "idle" /\ run' = run

End == pc' = "idle" /\ run' = NoRun

\* The last step of a watch run builds the vectors from the rows, when semantic
\* search is enabled and the build succeeds.
FinishRun ==
    /\ pc = "semantic"
    /\ vectors' \in {vectors} \cup (IF run.kind = "index" THEN {} ELSE {rows \ Documents})
    /\ settled' = (Full /\ ~run.failed)
    /\ End
    /\ UNCHANGED <<content, manifest, bytes, flags, handles, readers, evicted, copied>>

(***************************************************************************)
(* What else writes the derived stores: `ok semantic index`, under the     *)
(* same lock, and readers that compress a context pack, under none.        *)
(***************************************************************************)
SemanticIndex ==
    /\ pc = "idle"
    /\ Published
    /\ vectors' = rows \ Documents
    /\ UNCHANGED <<content, manifest, bytes, flags, handles, readers, evicted, copied,
                   settled, pc, run>>

BuildPack ==
    /\ PackReaders
    /\ Published
    /\ pack = {}
    /\ pack' = rows \ {Raw}
    /\ UNCHANGED <<content, manifest, bytes, flags, derived, overtaken, evicted, copied,
                   settled, pc, run>>

\* compress_pack: whatever has become of the rows meanwhile.
CompressPack ==
    /\ pack # {}
    /\ handles' = handles \cup pack
    /\ overtaken' = (overtaken \ rows) \cup (pack \ rows)
    /\ pack' = {}
    /\ UNCHANGED <<content, manifest, bytes, flags, vectors, evicted, copied, settled,
                   pc, run>>

(***************************************************************************)
(* A run ends early: killed, or a step returned an error with `?`.  A      *)
(* failed partial update withdraws the manifest its transaction left       *)
(* published; when it is killed, or the withdrawal fails too, or it only   *)
(* replaced documents and history, it does not.  What it removed is then   *)
(* forgotten, for that manifest says nothing of it and its rows are gone;  *)
(* a skip that only it saw appear counts when a run sees it appear again.  *)
(***************************************************************************)
PartiallyStaged == run.partial /\ pc \in {"documents", "history", "decide", "publish"}

CutShort ==
    /\ pc \in CutPoints
    /\ forgotten' = forgotten \cup
                      (IF PartiallyStaged /\ marked /\ ~manifest.del THEN Residue ELSE {})
    /\ overtaken' = overtaken \cup
                      (IF PartiallyStaged THEN (vectors \cup handles) \ (rows \cup {Raw})
                                          ELSE {})
    /\ copied' = IF PartiallyStaged /\ ~gainFlag THEN {} ELSE copied
    /\ End
    /\ UNCHANGED <<content, manifest, bytes, evidence, derived, pack, evicted, settled>>

Withdraw ==
    /\ PartiallyStaged
    /\ run.staged
    /\ manifest' = NoManifest
    /\ End
    /\ UNCHANGED <<content, bytes, flags, derived, readers, evicted, copied, settled>>

Next ==
    \/ \E kind \in Kinds, scan \in Scans : Begin(kind, scan)
    \/ StageFull \/ StagePartial \/ PartialFails \/ ReplaceDocuments \/ PutHistory
    \/ Decide \/ Publish
    \/ PreClear \/ PreClearFails \/ RecordPreClear
    \/ ClearDeletedContent \/ ClearFails \/ RecordClearing
    \/ PruneRemovedPaths \/ PruneFails \/ RecordPrune \/ FinishRun
    \/ SemanticIndex \/ BuildPack \/ CompressPack
    \/ CutShort \/ Withdraw

Spec == Init /\ [][Next]_vars

(***************************************************************************)
(* Properties.                                                             *)
(***************************************************************************)
\* A manifest is published, and it is not the previous one over the rows of a
\* partial update that has not ended.
Reliable == Published /\ ~PartiallyStaged

\* The manifest reports nothing the database still has to clear.
ReportsCleared == Reliable /\ ~manifest.del /\ ~manifest.pre /\ marked

\* "A path excluded after it was indexed loses its rows at the next run, and none
\* of its content stays in the database file or its write-ahead log", or the
\* manifest reports that it may: but for what was gone when a partial update was killed
\* over a manifest that reports nothing.
ExcludedContentCleared ==
    ReportsCleared => evicted \cap Residue \subseteq forgotten

\* "Content moved into a denied or secret-like path, in one run or split over two,
\* is compacted too": content seen at a path whose skip appeared since the last
\* compaction, and whose rows are gone, with the same exception.
RecentMoveCleared ==
    ReportsCleared => copied \cap Residue \subseteq forgotten

\* A published index that records no pending prune is quoted by no vector and by
\* no context handle for a file it does not hold, but for the packs a reader built
\* before the file went and stored after it was pruned, and for the files that a partial
\* update had removed when it was killed.
DerivedStoresPruned ==
    Reliable /\ ~manifest.prune =>
        ((vectors \cup handles) \ overtaken) \ Documents \subseteq rows \cup {Raw}

\* "The clearing is recorded, not assumed": while the manifest does not say that
\* the clearing is owed, no value stored before redaction is anywhere.
PreRedactionTracked ==
    Reliable /\ ~manifest.pre => Raw \notin rows \cup freed \cup logged \cup vectors

\* A full run in which no step failed leaves nothing owed, whatever the runs before it
\* left: kills, failed compactions, events that only record.  Only what was gone when a
\* partial update was killed over a manifest that reports nothing may stay.
FullRunSettles ==
    pc = "idle" /\ settled =>
        /\ marked
        /\ manifest \in [skips: SUBSET Skippable, del: {FALSE}, prune: {FALSE}, pre: {FALSE}]
        /\ Residue \cap (evicted \cup copied) \subseteq forgotten
=============================================================================
