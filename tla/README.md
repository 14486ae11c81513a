# Open Kioku: TLA+ models

Open Kioku indexes a source repository into `.ok/` and answers questions about it from the
command line and over MCP. One process at a time writes the index; any number of others
read it, without a lock, while it is being rewritten; and any of them may be killed. What
can go wrong there, over steps of several processes and over sequences of interrupted
runs, is what these modules are about.

Source references are to `crates/` of the repository. Run a model with `tlc -config X.cfg
MCModule.tla`, check the proofs of a module with `tlapm ModuleProofs.tla` (`IndexLock`,
`Publication`, `DeletedContent`, `SemanticStore`, `GraphStore`, `GraphBuffer`, `Watch`,
`ContextSelection`).

## 1. The system

### 1.1 Components, state, operations

| component | state | operations | what makes it correct |
|---|---|---|---|
| **Index write lock** (`open-kioku-storage/src/generations.rs`) | the file `.ok/index.lock` and the flocks on it | `IndexWriteLock::acquire`, drop, `index_write_in_progress` | one writer at a time although drop unlinks the file; a probe's answer was true during the probe; an acquire ends |
| **Index run** (`open-kioku-cli/src/commands/index.rs`, `open-kioku-watch/src/lib.rs`) | rows, history, manifest in `index.sqlite`, the search index | `ok index`, watch start, watch event (partial or full) | the manifest comes last; what a run removed is really gone, or the manifest says that it may not be |
| **Clearing of deleted content** (`open-kioku-watch/src/clearing.rs`, `compact`/`truncate_wal` of `open-kioku-storage-sqlite`) | free pages, write-ahead log, three `schema_meta` marks, three pending records in the manifest | `compaction_owed`, `clear_deleted_content`, pre-redaction compaction | content of an excluded or moved path is in neither file, or reported |
| **Derived stores** (`open-kioku-watch/src/derived.rs`) | the pending record | `prune_and_record` | no vector and no handle quotes a removed file, or reported |
| **Context handles** (`open-kioku-context-compress`) | `context_handles` rows | `store_original`, `retrieve_indexed`, `prune_removed_paths` | a handle of a removed path is pruned, and not served before |
| **Semantic store** (`open-kioku-semantic`) | `.ok/vectors/{current,previous,builds/*}` | build and promote, recover, prune, discard, clean, status, search | the last complete generation survives; a prune leaves nothing of a removed path; readers never see a half-written one |
| **Publication** (`index.rs`, `storage-sqlite`, `search-tantivy`, `watch`, `mcp`) | database file, graph tables, search directory, manifest | the runs that write them; probe, handle, read and query of a session | what is found is one whole index, the newest; an answer comes from one index |
| **Index generations** (`generations.rs`) | `.ok/generations/<id>/` with `generation.json`, the pointer `active` | resolve, publish, adopt a legacy layout | a reader always finds one whole index |
| **Snapshot import** (`open-kioku-cli/src/commands/snapshot.rs`) | the database and its backup | promote, roll back, restore | an import replaces the index or leaves it |
| **Stored graph** (`storage-sqlite/src/lib.rs`, `compact.rs`) | `graph_nodes`, `graph_edges`, `graph_strings`, ranks, analysis facts | replace, reconcile after an event, migrate ranks; older versions | a partial update leaves the graph a rebuild would store |
| **Graph buffer** (`open-kioku-graph/src/buffer.rs`) | nodes and edges under construction | upsert, insert, fold, merge | the graph does not depend on the order of the writes |
| **Watch loop** (`open-kioku-watch/src/lib.rs`) | the event channel, the filter, pending paths | debounce, re-index, reload of ok.toml | no change is forgotten; every change is indexed in the end |
| Ingest, parsers, resolution, symbols | rows (pure functions of the files) | scan, parse, resolve | fixtures and unit tests |
| **Context packs** (`open-kioku-context/src/lib.rs`, `region.rs`) | the ranked candidates, the units chosen, their lines and retrieval traces | select under a budget, widen regions, retarget traces | the budget goes to what matters most and is not overspent; nothing chosen is lost; a unit keeps the evidence that found it |
| Fusion and ranking, impact, plans, patches, contracts, architecture | reports | pure analyses | fixtures and unit tests |
| MCP server, command line, rendering, configuration, memory | little or none | requests, one at a time | |

Every crate is listed under `components` in PROJECT.json, with what is modelled of it and
the reason when nothing is.

### 1.2 How they interact

Writers (`ok index`, `ok watch`, `ok snapshot import`, `ok semantic index`) hold the lock
for their whole run. A run scans the working tree, *stages* the rows in one transaction (a
full run deletes the manifest in it, a partial update leaves the old one), writes the
history, decides what it owes, replaces the graph and the search index, *publishes* by
writing the manifest, and then pays: the one-time clearing of text stored before
redaction, the compaction and the log checkpoint, the prune of the vectors and of the
context handles, rewriting the manifest after each. A watcher then builds the vectors.
Readers open the store, read the manifest, and probe the lock only when there is none, to
tell "being indexed" from "not indexed". `status` and `search` of the semantic store take
the lock for an instant, to finish an interrupted promotion, or do so without it when
nobody seems to hold it. A context pack is compressed into a handle by a reader, under no
lock. `ok semantic clean` takes none either.

### 1.3 What is hard

* **Interleavings**: the lock file is unlinked and re-created under the processes that
  wait for it; a reader's pack or search spans a run; a clean meets a build.
* **Crashes**: a run is killed between any two steps, and the next one must work out, from
  what is on disk, what the dead one owed.
* **Partial failure**: VACUUM succeeds and the checkpoint does not; one of two renames
  fails; a directory is removed halfway.
* **Long sequences**: half of a move in one run, half in a later one, with failures and
  events in between.
* **Order**: a full and a partial build, and the tables of several files, make the same
  graph in different orders, and the stored one is compared by hash.
* **Liveness**: nothing re-indexes but an event, and events may be lost, ignored or taken
  by a run that fails.
* **Budgets**: a pack is filled greedily, round after round, and then widened file by file
  from what is left, with keys that change as the units grow.
* **Stale state**: a decision made from the previous manifest, or from a generation that
  has been replaced since.

`hazards` in PROJECT.json lists them at their lines, with the properties that cover each.

## 2. The modules

| module | models | composed with |
|---|---|---|
| `WriterMutex` | what the write lock promises | |
| `IndexLock` | the lock file, to inodes and flock modes | implements `WriterMutex` |
| `Generations` | the two layouts and the adoption of the older one | steps of `Publication` |
| `Publication` | the runs, from the lock to the manifest, and the sessions that read | extends `Generations` |
| `DeletedContent` | index runs and the bytes they delete | one run at a time, by the lock |
| `SemanticStore` | the directories of the vector store, its writers and readers | takes the lock through `WriterMutex` |
| `GraphBuffer` | how the writes of a scan become one graph | its graph is a scan of `GraphStore` |
| `GraphStore` | the graph tables, their dictionary and ranks, the facts | a run is one step |
| `Watch` | the watch loop, its channel and filter, with an `ok index` beside it | takes the lock; a run is lock, reads, staging, manifest |
| `ContextSelection` | which units a context pack shows, and their traces | |
| `IndexLockProofs`, `PublicationProofs`, `DeletedContentProofs`, `SemanticStoreProofs`, `GraphStoreProofs`, `GraphBufferProofs`, `WatchProofs`, `ContextSelectionProofs` | proofs | each extends its module |
| `MC*` | constants and symmetry for TLC | |

Publication, DeletedContent, GraphStore and Watch look at the same runs from four sides:
which stores readers find together, which bytes are left, which rows are stored, and which
changes start a run. Each keeps the steps its side can tell apart.

### 2.1 IndexLock

A lock is a pair of the inode a process has open (`fd`) and the flock `mode` it holds on
it; `path` is the inode the name leads to, if any. `StartAcquire` to `GiveUp` are the loop
of `acquire` (open or create, lock, check that the locked file is the named one, sleep),
`DropRemove` and `DropClose` the two statements of `drop`, `ProbeOpen` to `ProbeReturn`
the probe. `ProbeFails` is its I/O error, which the code reports as "no writer" whoever
holds the lock; the model answers "error" there, so that `ProbeLinearizable` can tell that
answer from the one the lock gave. `Kill` closes a process's descriptor at any point. `RemovesFile` is the build:
FALSE where the file is not unlinked on drop (not unix). `Patience[w]` is the number of
failed attempts before `elapsed > wait`.

`WriterMutex` is its specification: `holders` are the writers inside their runs.

### 2.2 DeletedContent

State is kept as *which contents are where*: `rows` and `history` for the live database,
`freed` for free pages, `logged` for the log and the file pages it still replaces,
`vectors` and `handles` for the derived stores. A content is the name of the path it was
first written at, so a copied file keeps its content. `manifest` has the security skips
and the three pending records; `dropFlag`, `gainFlag` and `marked` are the rows of
`schema_meta`. A run (`run`, `pc`) goes through the steps of `reindex_repo_after_changes`,
`reindex_repo_full` and `index_repo_with_config`:

    Begin  StageFull | StagePartial ReplaceDocuments  PutHistory  Decide  Publish
           [PreClear RecordPreClear]  ClearDeletedContent RecordClearing
           [PruneRemovedPaths RecordPrune]  FinishRun

with a failing form of each step that the code survives, `Withdraw` for a failed partial
update and `CutShort` for a kill or an error that ends the run. `Begin` takes any scan:
any files present, denied, ignored or hidden in a skipped directory. The graph and the
search index are replaced between `Decide` and `Publish` and hold nothing the properties
speak of. `CompactionOwed` is the decision of `compaction_owed`, whose unreadable inputs
may also answer TRUE; the order of its early returns decides when evidence is noted
(`NoteRemovalEvidence`).

Constants switch behaviour off only to name what a run is about: `Kinds`, `Stores` (the
databases a first run may find), `CutPoints`, `PackReaders`. History variables
(`evicted`, `copied`, `overtaken`, `settled`, `forgotten`) are read by no action's guard.
`forgotten` has the contents that were gone when a partial update was killed under a
manifest of the run before that reports nothing (`CutShort`): the next run cannot tell that
they ever had rows. A content leaves it when it is indexed again, all of it when a manifest
reports a clearing or a compaction and its checkpoint succeed. `overtaken` has the contents
whose quotes no run will look for again: a reader stored them late, or such a kill had
removed their rows.

### 2.3 SemanticStore

A generation is a record: which `files` its directory has, the paths quoted by each, those
quoted by a file staged and not renamed (`replace_json`), whether pruned.json says
`complete`, whether the manifest has the fingerprint of the published index. A path stands
for all its targets. The writer goes through a run (`Stage`, `Publish`, `DiscardStore`),
the prune (`PruneBuilds` to `PruneFails`, one action per file written) and the build
(`BuildRecovers` to `TidyPrevious`, one action per group of writes and per rename);
`EndRun` is its end and its death, at any step. Errors that the code ignores are actions
of their own: `RecoveryIgnored` is a build that cannot recover and goes on, to remove the
generation it could not recover; `PruneMissesMarker` a prune that cannot read `pruned.json`
and takes the store for clean; `ProbeFails` a `status` that is refused the lock and then
cannot read who holds it. Readers do `index_write_in_progress`
(`Probe`), `status` (`StatusBegins` to `StatusRecovers`), and a search (`Assess`,
`ReadTargets`, `SearchHits`), one action per unlocked read. `PartialRemovals` lets
remove_dir_all stop partway; `KillsPartial` lets a watch event die between its partial
update and its manifest; `Cleans` adds `ok semantic clean`. `swept` and `sound` are
history: that the last prune returned Ok and could read the marker, and that a complete
generation was promoted and not given up since, on purpose or by `RecoveryIgnored`.

### 2.4 Generations and Publication

A *version* is the number of the run whose scan, or whose artifact, some contents come
from: `rows[d]`, `graph[d]` and `manifest[d]` of each database file `d`, `search[p]` of
the search directory of each root `p`. Database files are inodes and places name them
(`at`), because sessions keep the file they opened while adoptions and imports rename it;
`log[p]` is the database whose unchecked-in write-ahead log lies beside place `p`.

`Generations` has `resolve_index_location` (`Resolve`) and `adopt_legacy_layout`, one
action per rename (`StartAdoption` to `Point`). `Publication` has the four kinds of run:
`ok index` (adopt, open, stage, graph, search index, publish), the start of a watcher, its
events (`StagePartial` commits rows and graph at once, under the old manifest;
`EventFails` withdraws it), and `ok snapshot import` (`ImportWithdraws` to
`RestoreManifest`). `CutShort` ends any run at any step of `CutPoints`. A session asks
(`Ask`), finds its way (`Locate`, `Stat`, `Open`, `ReadManifest`), is refused after a
probe of the lock (`Refuse`) or served rows and graph (`ReadRows`) and search hits
(`FindSearch`, `Query`), an action per unlocked read; and the system may refuse it any of
these reads (`ProbeErrs`, `RefuseErrs`, `RequestErrs`), which the code mostly takes for a
file's absence: an active pointer it cannot read for none, a lock file it cannot open for
no run. An import's checkpoint may be blocked by a reader (`ImportCheckpoints`), and
sidecars may stay or not move (`RemoveSidecars`, `MoveLog`). `astray` collects the
databases so parted from their log, or opened beside the log of another
(`OpenedBeside`). `seen`, `met`, `torn`, `newest`, `unpointed` and `astray` are
history.

### 2.5 GraphBuffer

A write is named, so that two may be equal; `Edge[w]` and `Node[w]` say what it holds,
with numbers for ordered text and 0 for an absent field. One `source` stands for each
scalar field (`schema_version`, `source_pass`, `index_mode`, `extractor_version` and the
plain properties are folded alike), `notes` for the lists merged as sorted unions
(ambiguity, quality notes, reference sites), `owner` for file or symbol id, `rank` for
source rank and confidence, `site` for path and lines, `eid` for evidence source and id.
`Fold` is `EdgeSlot::fold`, `MergeNode` is `merge_node`, `Yield` is `into_edge`. Writes
come in any order (`todo` is a set) into any open buffer, and buffers are merged at any
time; only the facts that end at a symbol wait for the other edge writes (`FactsMayCome`),
as in `from_index_with_resolved_relationships`. `writes` and `skipped` are history.

### 2.6 GraphStore

Rows are records of id, content and the derived columns; a scan is any graph that ends its
edges at its own nodes. `FullRun`, `PartialRun` and `UnchangedRun` are what each kind of
run leaves; `OldFullRun` and `OldPartialRun` those of a version from before hashes and
ranks, which the same database may meet when two versions of the program alternate (the
trigger on `graph_edges` is there for them). `OpenToWrite` is the migration of ranks.
`PartialRun` deletes the rows of the affected files, keeps (`KeptNodes`, `KeptEdges`) what
the new graph has unchanged, inserts the rest (`Missing`), interns their strings and then
drops the orphans of the removed rows (`StringsAfter`).

### 2.7 Watch

`tree[p]` is the version of a file, `rule` what ok.toml says, `index[p]` the version the
rows hold. `Edit`, `EditConfig` and `IgnoredChange` are the user's; the operating system
delivers an event or does not (`Delivered`, `Unnoticed`). `Start`, `Register`,
`LoadPruner`, `Receive` and `Timeout` are `watch_repo_with_debounce`; `Acquire`, `Read`
(one file at a time, while the tree goes on changing), `Stage`, `Publish`, `GiveUp` and
`Fail` an index run of the watcher or of an `ok index` that runs beside it. `lost` is
history: the ways in which a change may have been lost since the watcher last began to
read.

### 2.8 ContextSelection

One call of the pack builder, from the ranked list that fusion hands over to the units
presented. A candidate has a path, a range of lines (or none), the lines its snippet
shows, a priority (2 exact, 1 validation or evidenced graph, 0), a label for its text, and
a trace or none (entry points added for a scope have none). `SelectRound` is one turn of
the `while` of `select_context_units`; `Refusal` has its three refusals in their order,
each for good. The utility, an f32, only decides among candidates of one priority: any of
those may be chosen. Two texts of one label stand for an overlap of 0.9. `SelectPrefix` is
the path of callers that limit the number of files. `Widen`, `Readmit` and `Absorb` are
the three passes of `region.rs` over a file, one unit, candidate or side of a unit a step,
under both budgets; `Retarget` moves the traces, a unit a step: the units that came back
stand after those `original_keys` lists, and are passed over. Every line costs a token, a
unit `Overhead` more. Left out: the omission lists and caveats (so `withdraw_omission`,
which edits nothing else), evidence ids, `symbol_id` in keys (widening keeps it), and
files that are selected but not indexed.

## 3. What the runs check

| run | constants | shows |
|---|---|---|
| `index_lock` | 2 writers, 1 reader, 3 inodes, 1 retry | `ProbeLinearizable`, refinement of `WriterMutex` (`ImplementsMutex`), `AcquireReturns` |
| `publication` | 3 runs of any kind, 3 database files, 1 session; cut anywhere but between the moves of an adoption | `PublishedWhole`, `AnswersOneIndex`, `PublishedIsFound`, `PublishedIsNewestUnlessCut`, `LogBesideItsDatabase`, `NotIndexedUnlessRaced` |
| `deleted_content` | 2 sources, 1 history path, 1 vault; watch starts and events; a new store and one of an earlier version; a source goes because Git ignores it, a history path because it is denied; cut anywhere | `ExcludedContentCleared`, `RecentMoveCleared`, `FullRunSettles` |
| `stored_copies` | 3 sources, two of them documents; `ok index` and events; stores of a version before redaction, unreadable ones and current ones; pack readers; cut outside staging | `DerivedStoresPruned`, `PreRedactionTracked` |
| `semantic_prune` | 2 paths, no reader, `ok semantic clean` | `PrunedStoreHoldsNothing` |
| `semantic_search` | 2 paths, a searching reader | `SearchAnswersIndexed`, `NeverCorrupt` |
| `semantic_kept` | 1 path, a reader, partial removals | `LastGoodKept`, `PromotedComplete` |
| `graph_store` | 2 files, 3 nodes, 4 edges, seven scans, every set of modified files | `GraphIsLastScans`, `RanksTrusted`, `DictionaryExact`, `FactsNameIndexedFiles` |
| `graph_buffer` | 2 buffers; any 4 of 10 edge writes and 8 node writes | `EdgesJoined`, `NodesJoined`, `FactsKeepOff` |
| `watch` | 2 files, one below a directory that ok.toml admits or prunes; 2 edits, 2 queued events | `NoChangeForgotten`, `StoredNotOlder`, `Settles` |
| `context_selection` | every list of up to 4 of 9 candidates (a source file, a test, a document); 6 budgets | `BudgetWellSpent`, `SelectionKept`, `AttributionFollows` |
| `excluded_republished` | that of `watch`, 1 edit | `ExcludedStaysOut`, violated (3.1) |

The type invariants `TypeOK` are checked in the first run of each module.

**Why the bounds are enough.** *IndexLock*: the hazards are about one finishing, one
waiting and one arriving holder of a descriptor; two writers that may start again play all
three, and there is an inode per process, which is the most that can be in use. That
probes of two readers do not see each other is left to the proof (`ProbesLinearize`),
which drops all these bounds. *Publication*: each hazard is a run that finds what another
left and a reader that began before; three runs are a first index, the one that is killed,
and the one that finds its remains. The consequences of an adoption killed before its
pointer take a fourth run (an index, the adoption, the index built beside it, the run that
completes the adoption): with `MaxRuns = 4` the same invariants hold for `Kinds` of `ok
index` alone (1.1 million states) and of `ok index` and a watcher (8.3 million); the proofs
have no such bound. Three files are the served one, the one an import promotes and the one it
replaces (or a session still has open). *DeletedContent*: there is no bound on the number
of runs, failures or cuts; only the paths are few. A debt is decided per path and recorded
in four Booleans, so one path that comes and goes beside one that stays (an index that
never is empty) shows every combination; a second removable path, in `stored_copies`,
lets one removal pay for another. *SemanticStore*: no bound on runs either. Two paths allow "one removed, one kept"; in `semantic_kept`, whose properties do
not look at paths, one suffices. One reader is enough for what a reader does alone; two
readers recovering at once exclude each other through the lock, or both rename, which the
second rename's failure (nothing at `previous`) makes harmless. *GraphStore*: no bound on
runs. The seven scans differ in each way the reconciliation tells apart: a file deleted,
an edge between two files whose content changes with neither, a node no file owns, an
endpoint that goes. *GraphBuffer*: two writes show a fold, three that it is associative,
four a merge of two slots of two writes each, or three in one slot beside a fact. *Watch*:
the second edit is the one that races the run the first began, a queue of two lets an
ignored event or an edit of ok.toml come before or after one that counts. *ContextSelection*: lists
of four hold two refusals for two reasons and a unit beside each, or a chosen unit, one
re-admitted on each side and one whose trace could be taken by mistake; a source file has
one candidate, as fusion has it, a document one per range. Of the budgets, one fills the
pack, one runs out of tokens, one is exceeded by selection alone for a file, one widens
nothing. The proofs drop
the bounds of all the passing runs, but for `AcquireReturns` and `Settles` (and drop the
cuts of `stored_copies` for `DerivedStoresPruned`).

**Fairness.** *index_lock*: weak fairness of the steps of a call that has started (a
thread that runs is scheduled, a sleep ends, a retry is made). It does not assume that a
call is started, that a lock is ever granted, or that anything fails or is killed.
`AcquireReturns` needs no more: every attempt ends, and the attempts are bounded by the
wait. *watch*: weak fairness of the steps of a begun run and of the loop (both are
ordinary code of live processes; failing is never forced), and strong fairness of
`Timeout`, because `recv_timeout` returns whenever the channel has been quiet for the
debounce. That it ever is quiet is not assumed of the system: `Settles` has it as its
hypothesis, and it does not hold without.

**Deadlock** is checked in every run but `graph_buffer` and `context_selection`: a build
of a graph, and of a pack, ends.

### 3.1 Disagreements the model shows

`excluded_republished` is expected to be violated: `ok index` loads ok.toml before it
waits for the lock, and publishes again a path that was excluded, and dropped by the run
it waited for. Nothing runs after it, so the rows stay (docs/security-model.md:148).

Others were seen while modelling and follow from actions that are in the modules. They
have no run of their own. Three can be had by changing one constant of a configuration,
and the run excludes exactly those steps; in the others the steps are in the runs, and the
property names an exemption, without which its run fails.

By a constant:

* `PublishedIsNewest` (in `Publication.cfg`, with `MaxRuns = 4` and `Kinds = {"index"}`):
  an adoption killed after its last move, before its pointer, is not completed by the next
  `ok index`, which finds nothing at the old place (generations.rs:435, against the
  comment at :441) and builds a second index there; the run after that points at the first
  one, older than what readers had. `unpointed` is the exemption; once the adoption is
  completed, a session that holds the second index goes on serving its rows, with the
  first one's search index (`Orphaned`).
* `PreRedactionTracked` with `CutPoints <- AllPoints`: the debt of a pre-redaction index
  is recorded only in the manifest, which staging deletes; a run killed before publishing
  forgets it.
* `PromotedComplete` with `Cleans = TRUE` in `SemanticKept.cfg`: `ok semantic clean`
  removes the build directory of a running build, which goes on writing and promotes a
  generation without its first files (docs/semantic-search.md:84).

By an exemption:

* `ExcludedContentCleared`, `RecentMoveCleared`, `FullRunSettles` and
  `DerivedStoresPruned`: a watch event killed after its partial update leaves the old
  manifest over rows that already lack the removed path; the next run compares with those
  rows and owes nothing. `forgotten` is the exemption for the contents that were gone by
  then, until a manifest reports a clearing for another reason, and no other content; the
  skips that only the killed update saw appear count as moves when a run sees them appear
  again. `overtaken` is the exemption for what should have been pruned, until a prune ends
  for another reason.
* `LogBesideItsDatabase`: an import whose checkpoint a reader blocked, killed between its
  rename and the removal of the sidecars, or unable to remove them, leaves the old
  database's log beside the imported one, and parts the old database from what was
  committed to that log; so does an adoption that cannot move the log, whose failure is
  ignored (generations.rs:472, under the comment "must move with the database").
  `astray` is the exemption, here and in the properties of what readers find.
* `LastGoodKept`: "If promotion fails, the previous `current` index is restored"
  (docs/semantic-search.md:84). A build ignores that its recovery failed (semantic
  lib.rs:646) and then removes `previous` (lib.rs:861), which at that moment may be the
  only complete generation. `sound` is the exemption, until the next promotion.
* `PrunedStoreHoldsNothing`: a prune that finds nothing to remove and cannot read
  `pruned.json` takes the file for absent (semantic lib.rs:1441, :1975) and returns Ok
  over a store that an earlier prune left half rewritten. `swept` is the exemption.
* `ProbeLinearizable` and `NotIndexedUnlessRaced`: a lock file that cannot be opened or
  locked reads as no writer (generations.rs:169), so a session may be told "not indexed"
  in the middle of a run, without a race; `unindexed` says that there is no manifest
  "unless a writer holds the lock" (storage-sqlite lib.rs:251). The answer "error" and
  `met` with "error" are the exemptions.
* `AttributionFollows` exempts units that were re-admitted and then took in an adjacent
  chunk. Their trace is still keyed on the lines they had, because `original_keys`
  (region.rs:94) is taken before they come back: they count as unattributed, while
  docs/context-pack-spec.md:116 says of widening that "the retrieval trace keyed on the unit
  follows its widened identity". Without the exemption the run fails.
* An event that only deletes a Markdown document counts no deleted *file*; it neither
  prunes the handles nor records that a prune is pending (watch lib.rs:355).
  `DerivedStoresPruned` leaves documents out.
* An event whose scan found no changed file publishes over the graph as it was, although
  the history it read may have changed it (watch lib.rs:297, against
  docs/storage-model.md:183). `GraphIsLastScans` exempts it (`behind`).
* A node that only edges of another file reach (`test:` nodes, for one) and that is
  labelled with a path excluded for another reason than security stays in an exported
  snapshot after its facts are gone (docs/security-model.md:150). The export is not
  modelled.
* An index that loses its *last* path in a killed run owes nothing afterwards
  (clearing.rs:127; the runs keep one permanent path). A compaction for one path forgets
  that another was seen copied to a denied directory, so that the later deletion of the
  original is not compacted (storage-sqlite lib.rs:622; `RecentMoveCleared` speaks of
  moves since the last compaction). A watcher start takes an unreadable manifest for none
  (watch lib.rs:472).
* `ok semantic clean` leaves the `previous` generation of an interrupted promotion, which
  the next `status` brings back (semantic lib.rs:425). A `status` that is refused the lock
  by a holder that lets go at once recovers without it (semantic lib.rs:929; harmless to
  `PrunedStoreHoldsNothing` and `LastGoodKept`, as the runs show). A generation whose
  removal stopped after pruned.json went is not recognised as half pruned (semantic
  lib.rs:1443).
* The five ways in which a watcher may lose a change (`NoChangeForgotten`): an edit
  between the first build and the registration, an overflow of the system's event queue
  (whose rescan event is ignored), an overflow that swallows an edit of ok.toml, a run
  that fails after the pending paths were taken, and an `ok index` that ends badly or
  under an old ok.toml. The run fails without any one of them.

## 4. What is proved

`IndexLockProofs`, checked by TLAPS for every set of writers, readers and inodes, any
patience, and both builds:

| theorem | states |
|---|---|
| `TypeCorrect` | `Spec => []TypeOK` |
| `WritersExclude` | `Spec => []MutualExclusion` |
| `RunOwnsPath` | `Spec => []HolderOwnsPath` |
| `ProbesLinearize` | `Spec => []ProbeLinearizable` |
| `LockImplementsMutex` | `Spec => Mutex!MSpec`: the lock file implements `WriterMutex` |

The only assumptions are those of `IndexLock` (`ProcsAssumption`: writers and readers are
distinct, `NoInode` is no inode, patience is a natural number).

**The argument.** `MutualExclusion` is not inductive: two writers could hold locks on two
files. The invariant `IInv` adds: what a process has open and locked follows from its pc
(`PcState`); an exclusive flock excludes every other lock on the *same* file
(`FlockExclusive`); a writer in its run has locked the *named* file (`HeldIsCurrent`),
which is what the check after locking establishes and what nobody but the holder can undo,
because only the holder unlinks; where nothing unlinks, there is one file (`KeptFile`).
Two writers in their runs then have the same file locked exclusively, hence are one. For
probes, `ProbeHistory` adds that a probe whose file is no longer the named one has
overlapped both the writer that removed it and the instant after. The refinement maps each
step to an acquire, a release or a stutter.

`PublicationProofs`, for any database files, sessions, kinds of runs and number of runs,
under `PublicationAssumption` (the placeholders for no file and no index are neither, and
the kinds of runs are the four there are):

| theorem | states | under |
|---|---|---|
| `PublicationTyped` | `Spec => []TypeOK` | |
| `PublishedIndexIsWhole` | `Spec => []PublishedWhole` | `AdoptionsComplete` |
| `PublishedIndexIsFound` | `Spec => []PublishedIsFound` | `AdoptionsComplete` |
| `PublishedIndexIsNewest` | `Spec => []PublishedIsNewestUnlessCut` | `AdoptionsComplete` |
| `AnswersAreOfOneIndex` | `Spec => []AnswersOneIndex` | `AdoptionsComplete` |
| `LogsStayBesideTheirDatabases` | `Spec => []LogBesideItsDatabase` | `AdoptionsComplete` |
| `NotIndexedIsTrueOrRaced` | `Spec => []NotIndexedUnlessRaced` | |

`AdoptionsComplete` is that no adoption is killed between its first move and its seal
(killed between its seal and its pointer it may be); the run has the same exclusion, and
section 6 the reason. Blocked checkpoints, sidecars that stay and files the system refuses
a session are within the theorems; 3.1 says what the properties exempt on their account.

**The argument.** Where things are comes first (`Placed`). `Layout` says which of the two
layouts holds what at each step of an adoption, and that what is not pointed at is either
empty or sealed and complete; `Distinct`, that no file is at two places; `RunShape`, which
file a run has open. Everything else stands on that. `Written` says what is in the files.
`Contents` is what a run has written so far of the version it will publish. `Whole` is
`PublishedWhole` of *both* layouts, because an adoption makes readers find the other one
by one write of the pointer. `Saved` is what makes a failed import harmless: the manifest
it will put back describes the very file it moved aside, and is the newest. `Withdrawn`
says that a database which leaves both layouts has lost its manifest before, so that a
session which still holds it finds it unpublished: it is what `PublishedIsFound` and the
sessions need. `Newest` follows from it and `Saved`. The logs need `Logs` besides: at each
step, the log beside a place is of the database there, or of the one on its way there or
moved aside from it, or of one astray; and one astray stays so until its file is free and
used again (`AstrayKept`). For the requests, `OneIndex` follows one from its manifest to its
hits: what it has read and what it has still to read is one version, or it has met a write,
an event or a move. `Probed` follows a request to its probe of the lock: it looks where a
new one would, or a run is under way, or one has ended since it began; `FactsSeen`, that a
request meets whatever is so while it goes on, is the lemma both rest on.

`DeletedContentProofs`, for any paths, contents and scans, any of the databases a first
run may find, and any order of runs, failures and cuts:

| theorem | states | under |
|---|---|---|
| `ContentTypeCorrect` | `Spec => []TypeOK` | |
| `ExcludedContentReported` | `Spec => []ExcludedContentCleared` | `NP` |
| `MovedContentReported` | `Spec => []RecentMoveCleared` | `NP` |
| `FullRunPaysAll` | `Spec => []FullRunSettles` | `NP` |
| `StaleQuotesReported` | `Spec => []DerivedStoresPruned` | `NP` |
| `RawTextReported` | `Spec => []PreRedactionTracked` | `NR` |

`NP` is `Permanent # {}`: the index never loses its last path. Runs of every kind may be
killed at every step, partial updates included. `NR` is that no run is cut between
removing the manifest and writing it again, and that no watcher starts over an unreadable
one. Each names a disagreement of 3.1, without which the property fails. The other
assumptions are `PathsAssumption` and `ManifestAssumption`.

**The argument.** Each property speaks of instants at which a manifest can be relied on;
each invariant says where the debt is known at *every* instant. `EvictedTold`, for
content of an excluded path: before a run it is in the manifest, or there is none over
rows that are not empty; while the rows are replaced, it is in what the run found before
(`previous`, `indexed`, `named`), from which `compaction_owed` will see it; afterwards in
the run's record and in the published one. `StaleTold` and `RawTold` have the same form
for the derived stores and the text stored before redaction. `MovesTold` needs one thing
more, because the halves of a move may be runs apart: wherever nothing is reported, a copy
at a skipped path has left `gainFlag` and bytes of a removed source have left `dropFlag`
(`Quiet`), or the run under way has just seen them (`Noticed`); so the second half meets
the first. `EvictedTold` and `MovesTold` leave aside what is forgotten: a kill adds to it, and only a manifest
that reports a clearing, or the content's return, takes from it. `Paying` ties the record to what the run will clear, which is why a failure
between VACUUM and the checkpoint leaves a record, and `Settling` follows a full run
without failures to its last write. `Shape` says what a run knows of the store at each
step; that events replace files and documents in two transactions is felt there.

`SemanticStoreProofs`, for every set of paths, readers and searchers, and every choice of
the constants but those named:

| theorem | states | under |
|---|---|---|
| `StoreTypeCorrect` | `Spec => []TypeOK` | |
| `PrunesClear` | `Spec => []PrunedStoreHoldsNothing` | `~PartialRemovals` |
| `GenerationsKept` | `Spec => []LastGoodKept` | `~Cleans` |
| `PromotesComplete` | `Spec => PromotedComplete` | `~Cleans` |
| `GenerationsNeverCorrupt` | `Spec => []NeverCorrupt` | `~PartialRemovals`, `~Cleans` |
| `SearchesAnswerIndexed` | `Spec => []SearchAnswersIndexed` | those and `~KillsPartial` |

The conditions are needed: TLC finds each property violated without any one of those
beside it. A removal that stops partway may take `pruned.json` and leave
half-rewritten files, which the next prune takes for a finished generation; `ok semantic
clean` removes the directories a writer is working in without the lock (3.1). A watch event killed
between its partial update and its manifest leaves rows that the published fingerprint
does not describe, and a search compares fingerprints only.
`GenerationsKept` and `PromotesComplete` hold with partial removals, `PrunesClear` with
`ok semantic clean` at any instant. The other assumptions are `StoreAssumption` (the
writer is no reader, searchers are readers, the switches are Booleans) and
`GenerationAssumption` (no directory is not a generation).

**The arguments.** `PrunedStoreHoldsNothing` speaks of the instant a prune returns Ok and
of all later ones, so its invariant `PruneInv` says what each file holds at every pc. The
core is `WellFormed`: only in a generation whose marker says that it is being rewritten
may the cache, the index or a staged file quote what `ids.json` does not. That is why a
prune that finds nothing to remove in `ids.json` and no open marker may return without
reading the rest, after any number of interrupted predecessors. `RewrittenSoFar` says
which files are clean after each write, `OthersCleared` that the other directories are
gone before the current one is read (so a reader that recovers without the lock finds
nothing to rename under the rewriting), `BuildQuotesRows` that a build quotes the rows of
its own run, which only a run that has no build changes. `LastGoodKept` needs more too:
`TidyPrevious` and `ClearPrevious` remove a whole generation, so `KeepInv` adds that a
complete one in the previous directory is the last one only where there is no current one
(`KeptSomewhere`), and that a build which comes to those removals has a complete current
one (`CurrentWhileBuilding`), because `BuildRecovers` made it so, unless the generation was
given up by `RecoveryIgnored` (`sound`). `BuildHasFiles` follows
the build's writes up to its promotion. `NeverCorrupt` needs only that a generation
nobody is working on is complete or says what it lacks, and that directories move whole
(`DirectoriesMove`). `SearchAnswersIndexed` looks back over a whole search: the rows may
change, and two promotions may happen, between its assessment and its hits. `Held` says
that a search has seen all rows there were since it began and that what it has read, and
from its assessment on what it may *still* come to read (`NextIds`: the current
generation's, or the previous one's once that is put back), is among them; later steps
only shrink `NextIds`, or replace it by a build, which quotes rows of that time
(`NextIdsMove`). The assessment itself needs `FreshListed`: a generation that records the
published fingerprint quotes published paths only, wherever it is; and `ListedIsIndexed`
that between runs those are the rows. These invariants were checked by TLC before.

`GraphStoreProofs`, for any files, ids, contents and scans, under `GraphStoreAssumption`
(an edge's id determines its endpoints, a node's id its file, a content its path and rank;
scans are graphs):

| theorem | states |
|---|---|
| `GraphTypeCorrect` | `Spec => []TypeOK` |
| `ReconciledEqualsRebuilt` | `Spec => []GraphIsLastScans` |
| `TrustedRanksRight` | `Spec => []RanksTrusted` |
| `DictionaryKept` | `Spec => []DictionaryExact` |
| `FactsConsistent` | `Spec => []FactsNameIndexedFiles` |

**The argument.** The invariant is the conjunction of the run's invariants; none is
inductive alone. That a kept row and an inserted one never share an id needs the primary
keys of the stored rows (`Keyed`, in `TypeOK`); that the rows at an affected file are
found at all, which the code does through the dictionary, needs `DictionaryExact`; and
`DictionaryExact` needs to know that what is dropped is named by removed rows only and by
none that stays. Partial updates then give the last scan's graph *whatever* the graph was
before, so no induction over the history of updates is needed for `GraphIsLastScans`.

`GraphBufferProofs`, for any writes, buffers, orders and merges, under
`GraphBufferAssumption`:

| theorem | states |
|---|---|
| `BufferTypeCorrect` | `Spec => []TypeOK` |
| `EdgesAreJoined` | `Spec => []EdgesJoined` |
| `OneEdgeOfWrites` | what the writes of an edge say together (`EdgeOf`) determines it |
| `NodesAreJoined` | `Spec => []NodesJoined` |
| `FactsStayOff` | `Spec => []FactsKeepOff` |

**The argument.** `EdgesJoined` speaks of what a slot would yield; the invariant speaks of
the slot (`SlotsInv`): its representative is the foremost of its writes, its fallback the
least source of them, its lines the first of them all. The lemmas are that each part of a
fold is a join: `SmallestJoin` (the first eight lines of two first-eights are the first
eight of all, the one step that counts), `LeastJoin`, `LabelJoins`. `LabelJoins` is where
the assumptions are needed that the comment of `merge_node` makes of its callers: a write
that carries a file or symbol carries a label, and writes of a node agree on its owner.
`EdgesJoined` needs another: evidence ids hash what was written, so two writes that tie
agree. `FactsKeepOff` needs that facts come only when every proof-bearing write is in the
one buffer left (`FactsInv`).

`WatchProofs`, for any files, rules of ok.toml, number of edits and length of the channel,
under `WatchAssumption`:

| theorem | states |
|---|---|
| `WatchTypeCorrect` | `Spec => []TypeOK` |
| `RowsNeverGoBack` | `Spec => StoredNotOlder` |
| `NothingForgotten` | `Spec => []NoChangeForgotten` |

**The argument.** `Shape` says where a process can be: one run holds the lock, and a run
has read something only while it does. `NotNewer` then keeps what a run has read between
the index and the tree, since nobody else stores meanwhile. `NoChangeForgotten` speaks of
a waiting watcher only; what makes it so is established long before. `Follow` has four
parts: the filter of events is ok.toml's, or the edit that made it differ is in the
channel (`FilterFollows`); what the watcher's run has read so far is what it would read
now, or an event will start another (`WatchFollows`); so for an `ok index` that began to
read while the watcher waits (`IndexFollows`); and so for the index itself, once a run has
stored it (`IdleFollows`). Each needs the others: an edit below a directory that the
filter prunes has no event that counts, and only `FilterFollows` shows that discovery does
not see it either.

`ContextSelectionProofs`, for any files, chunks, symbols, lists of candidates and budgets:

| theorem | states |
|---|---|
| `Types` | `Spec => []TypeOK` |
| `SelectionIsKept` | `Spec => []SelectionKept` |
| `BudgetIsWellSpent` | `Spec => []BudgetWellSpent` |
| `AttributionIsKept` | `Spec => []AttributionFollows` |

The assumptions say what the pack builder is handed. `FilesAssumption`: the chunks of a
file cover its symbols (`extract_chunks`, parse lib.rs:1116, cuts from the first symbol to
the end of the file). `ListsAssumption`: a list has one candidate of a source file, and of
a document one per range of lines (`candidate_fusion_key`, candidates.rs:915; entry points
and siblings are added for paths that are not there), and documents have no symbols
(Markdown and text are not parsed for any). `BudgetsAssumption`: a budget that limits only
files has room for any list (`from_file_limit` gives it usize::MAX / 4 tokens, core
lib.rs:6220). That the chunks of a file are disjoint is not needed.

**The argument.** `Typed` adds to the types where the builder is: in a pass, at a unit of
the first file still to widen. `Kept` is the parts of `SelectionKept` with two more:
`Fresh`, that units of files still to widen are as selection left them and that, while
candidates come back, those which have are of ranks passed already, so none comes back
twice; and `Ours`, that units are of different candidates. Growing a unit
keeps it apart from its neighbours for two different reasons: an absorbed chunk was
checked, and a symbol is only ever taken in where the file has one unit, by
`ListsAssumption`. `WellSpent` is for the budget. The rounds are greedy, and what was
refused in one is never tried again; that a refusal remains right needs `Ranked`: no open
candidate has more priority than a chosen one, so a chosen one is always *better* than
what is refused later, and what it was refused for is among the chosen for good. `Spent`
relates the two counters widening keeps to what the units cost: the file's is at least
that, as a unit may get cheaper and the code counts no refund, and what remains and what
the pack costs never exceed what was available. `Attributed` follows the traces:
`TracesAre` says of each when it has moved, and `Private` that a unit which grew shows a
line no other unit of its file shows, so that keys taken before and after are never
mistaken for each other. The sums needed a theory: what a sum over a finite set is, when
an element is removed, a function changed, or a set renamed (`SumIs`, `SumRemoves`,
`SumRenamed`). Induction being out of reach, each is proved by a smallest counterexample,
which exists because the finite subsets of a set are well-founded (`SmallestOne`).

Every invariant was checked by TLC before it was proved.

**Model-checked only**: `AcquireReturns` and `Settles`: liveness under fairness is out of
the prover's reach. `MutualExclusion` and `HolderOwnsPath` are proved only; the first also
follows from `ImplementsMutex`, which the run checks.

## 5. Plan

What is left is the policy an imported snapshot's rows are filtered by, as operators over
rows, against "no row of an excluded path".

## 6. What is not modelled

* **Pure transformations of file contents** (parsing, resolution, fusion and ranking,
  impact, plans, patches, contracts): no state, no interleaving, and inputs far beyond
  what TLC can enumerate. They are most of the lines of the repository. Of the graph's
  construction, which rows write which node or edge is data of `GraphBuffer`; its queries
  only read.
* **Snapshot export**, the artifact's format and the policy applied to imported rows.
* **The text rules** of the path policy and of redaction: the models take their outcome.
* **SQLite, Tantivy, the file system's durability**: a transaction is atomic, a rename is
  atomic, and a killed process loses nothing it wrote. Power failures are left out: the
  code makes no promise about them.
* **A database opened beside another's log**: what SQLite makes of it is not modelled. Such
  databases are `astray` and no property of `Publication` speaks of their contents;
  adoptions killed between two moves, after which a watcher may build a database where the
  log of the moved one still lies, are left out for the same reason.
* **A run that cannot read what it wrote**: sessions, probes, prunes and builds meet read
  errors where the code goes on in spite of them, but runs are taken to read the active
  pointer, the seal and the metadata of the database they hold.
* **Damaged rows**: a row of the graph that cannot be decoded keeps its rank when a version is
  recorded over it (storage-sqlite lib.rs:5778; every read that reaches it fails), and proofs
  merged on an edge are taken to agree on the symbols they relate (where they do not,
  `relationship_authority`, core relationship.rs:214, falls back to heuristic).
* **Numbers**: vector search, and the scores and utilities of candidates.
* **Served handles**: `retrieve_indexed` refuses a handle of a path that is not indexed; a
  single guard, named in the hazards.
* **Change contracts**: a file per contract, written once. Saving looks whether the path is
  free and then writes (contract/src/store.rs:93): two commands that create one contract
  at once both succeed.
* **Occurrences**, and the facts an unchanged file keeps after a change elsewhere (watch
  lib.rs:239): a partial update writes those of changed files only, and nothing in the
  repository promises more.
