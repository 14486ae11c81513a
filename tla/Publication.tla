--------------------------- MODULE Publication -----------------------------
(***************************************************************************)
(* How an index becomes visible, and what readers make of it meanwhile.    *)
(*                                                                         *)
(* An index is three stores written one after the other: rows and graph in *)
(* a database file, the search index in a directory beside it, and the     *)
(* manifest, a row of the database, as the mark that the three belong      *)
(* together.  `ok index`, a starting `ok watch`, its file events and       *)
(* `ok snapshot import` write them under the write lock; sessions (an MCP  *)
(* server, or one command) read them under none, and keep the database     *)
(* they opened from one request to the next.  A version is the number of   *)
(* the run whose scan, or whose artifact, the contents come from.  What    *)
(* SQLite makes of a database opened beside the log of another, or without *)
(* its own, is not modelled: such a database is astray.                    *)
(***************************************************************************)
EXTENDS Generations, Naturals

CONSTANTS
    Sessions,           \* the readers
    MaxRuns,            \* bound on the runs begun
    Kinds,              \* the runs there are, of "index", "start", "event" and "import"
    CutPoints           \* the steps at which a run may be cut short

ASSUME PublicationAssumption ==
    /\ NoDb \notin Dbs
    /\ MaxRuns \in Nat
    /\ NoIndex \notin Nat /\ NoDir \notin Nat
    /\ Kinds \subseteq {"index", "start", "event", "import"}

Versions == 1 .. MaxRuns

VARIABLES
    rows,       \* rows[d]: the version of the files, symbols and chunks in database d; 0: none
    graph,      \* graph[d]: the version of its graph
    manifest,   \* manifest[d]: the version its manifest describes; 0: no manifest
    runs,       \* the runs begun
    kind,       \* the kind of the present run
    version,    \* the version it writes
    store,      \* the database it has open; of an import, the staged copy of the artifact
    saved,      \* the manifest an import withdrew
    partial,    \* it has committed a partial update and not published
    watching,   \* a watcher runs (idle between its events)
    torn,       \* databases whose partial update was left unpublished under the old manifest
    newest,     \* the version published last
    unpointed,  \* an adoption was killed before its pointer; nothing published there since
    rpc,        \* what each session does next
    handle,     \* handle[s]: the database session s has open
    dir,        \* dir[s]: the root it last resolved
    seen,       \* seen[s]: the versions its present request has read
    answer,     \* answer[s]: what its present request was answered
    met         \* met[s]: what happened, or was so, during its present request

stores == <<rows, graph, manifest>>
run    == <<runs, kind, version, store, saved, partial, watching>>
past   == <<torn, newest, unpointed, astray>>
reader == <<rpc, handle, dir, seen, answer>>
vars   == <<layout, pc, stores, run, past, reader, met>>

RunPcs == {"adopt", "open", "stage", "graph", "remove", "create", "commit", "publish", "tidy"}

ImportPcs == {"withdraw", "checkpoint", "aside", "promote", "sidecars", "check", "rollback", "restore"}

Pcs == {"idle"} \cup RunPcs \cup ImportPcs \cup AdoptionPcs

Nothing == [m |-> 0, r |-> 0, g |-> 0, hits |-> 0]

Init ==
    /\ at = [p \in Places |-> NoDb]
    /\ log = [p \in Roots |-> NoDb]
    /\ search = [p \in Roots |-> NoDir]
    /\ vectors = {} /\ sealed = FALSE /\ active = FALSE
    /\ pc = "idle"
    /\ rows = [d \in Dbs |-> 0] /\ graph = rows /\ manifest = rows
    /\ runs = 0 /\ kind = "none" /\ version = 0 /\ store = NoDb /\ saved = 0
    /\ partial = FALSE /\ watching = FALSE
    /\ torn = {} /\ newest = 0 /\ unpointed = FALSE /\ astray = {}
    /\ rpc = [s \in Sessions |-> "idle"]
    /\ handle = [s \in Sessions |-> NoDb]
    /\ dir = [s \in Sessions |-> "legacy"]
    /\ seen = [s \in Sessions |-> Nothing]
    /\ answer = [s \in Sessions |-> "none"]
    /\ met = [s \in Sessions |-> {}]

-----------------------------------------------------------------------------
(* The run that holds the write lock.                                      *)

\* A file nobody names or has open: the next one to be created.
Unused == {d \in Dbs : /\ \A p \in Places : at[p] # d
                       /\ \A p \in Roots : log[p] # d
                       /\ \A s \in Sessions : handle[s] # d}

Here == at[Resolve]

\* Database d is opened, with the log that lies beside place p.
OpenedBeside(d, p) ==
    astray' = IF log[p] \in {NoDb, d} THEN astray ELSE astray \cup {d, log[p]}

Begin(k) ==
    /\ pc = "idle" /\ runs < MaxRuns
    /\ k = "event" => watching
    /\ k = "start" => ~watching
    /\ runs' = runs + 1 /\ version' = runs + 1
    /\ kind' = k /\ saved' = 0
    /\ pc' = CASE k = "index" -> "adopt" [] k = "import" -> "withdraw" [] OTHER -> "open"
    /\ IF k = "import"
       THEN \E d \in Unused :
              /\ store' = d
              /\ rows' = [rows EXCEPT ![d] = runs + 1]
              /\ graph' = [graph EXCEPT ![d] = runs + 1]
              /\ manifest' = [manifest EXCEPT ![d] = 0]
              /\ astray' = astray \ {d}
       ELSE store' = NoDb /\ UNCHANGED <<stores, astray>>
    /\ UNCHANGED <<layout, partial, watching, torn, newest, unpointed>>

\* Mutant: the database is looked for at its old place, not at the resolved one.
OpenStoreAtLegacy ==
    /\ pc = "open" /\ pc' = "stage"
    /\ \E d \in IF at["legacy"] = NoDb THEN Unused ELSE {at["legacy"]} :
         /\ store' = d
         /\ at' = [at EXCEPT !["legacy"] = d]
         /\ log' = [log EXCEPT !["legacy"] = d]
    /\ UNCHANGED <<search, vectors, sealed, active, stores, runs, kind, version, saved, partial, watching, past>>

\* SqliteStore::open creates a database where there is none.
OpenStore ==
    /\ pc = "open" /\ pc' = "stage"
    /\ \/ /\ Here # NoDb
          /\ store' = Here
          /\ OpenedBeside(Here, Resolve)
          /\ UNCHANGED <<at, stores>>
       \/ /\ Here = NoDb
          /\ \E d \in Unused :
               /\ store' = d
               /\ at' = [at EXCEPT ![Resolve] = d]
               /\ rows' = [rows EXCEPT ![d] = 0]
               /\ graph' = [graph EXCEPT ![d] = 0]
               /\ manifest' = [manifest EXCEPT ![d] = 0]
               /\ astray' = IF log[Resolve] = NoDb THEN astray \ {d}
                            ELSE astray \cup {d, log[Resolve]}
    /\ log' = [log EXCEPT ![Resolve] = store']
    /\ UNCHANGED <<search, vectors, sealed, active, runs, kind, version, saved, partial>>
    /\ UNCHANGED <<watching, torn, newest, unpointed>>

\* Mutant: the rows are staged under the manifest of the run before.
StageFullPublished ==
    /\ pc = "stage" /\ pc' = "graph"
    /\ rows' = [rows EXCEPT ![store] = version]
    /\ UNCHANGED <<layout, graph, manifest, run, past>>

\* The rows, and the manifest removed, in one transaction.
StageFull ==
    /\ pc = "stage" /\ pc' = "graph"
    /\ rows' = [rows EXCEPT ![store] = version]
    /\ manifest' = [manifest EXCEPT ![store] = 0]
    /\ torn' = torn \ {store}
    /\ UNCHANGED <<layout, graph, run, newest, unpointed, astray>>

\* The changed files' rows and the whole graph in one transaction, over the old manifest.
StagePartial ==
    /\ pc = "stage" /\ kind = "event" /\ manifest[store] # 0
    /\ pc' = "remove"
    /\ rows' = [rows EXCEPT ![store] = version]
    /\ graph' = [graph EXCEPT ![store] = version]
    /\ partial' = TRUE
    /\ UNCHANGED <<layout, manifest, runs, kind, version, store, saved, watching, past>>

\* No file differs from the stored rows: the search index is left as it is.
StageNothing ==
    /\ pc = "stage" /\ kind = "event" /\ manifest[store] # 0
    /\ pc' = "publish"
    /\ version' = rows[store]
    /\ UNCHANGED <<layout, stores, runs, kind, store, saved, partial, watching, past>>

ReplaceGraph ==
    /\ pc = "graph" /\ pc' = "remove"
    /\ graph' = [graph EXCEPT ![store] = version]
    /\ UNCHANGED <<layout, rows, manifest, run, past>>

SearchBecomes(contents, next) ==
    /\ pc' = next
    /\ search' = [search EXCEPT ![Resolve] = contents]
    /\ UNCHANGED <<at, log, vectors, sealed, active, stores, run, past>>

\* rebuild_disk_index_with_graph: remove the directory, create an empty index, commit.
RemoveSearch == pc = "remove" /\ SearchBecomes(NoIndex, "create")
CreateSearch == pc = "create" /\ SearchBecomes(0, "commit")
CommitSearch == pc = "commit" /\ SearchBecomes(version, "publish")

Publish ==
    /\ pc = "publish" /\ pc' = "tidy"
    /\ manifest' = [manifest EXCEPT ![store] = version]
    /\ newest' = version
    /\ torn' = IF partial THEN torn \ {store} ELSE torn
    /\ unpointed' = (unpointed /\ Resolve = "legacy")
    /\ partial' = FALSE
    /\ UNCHANGED <<layout, rows, graph, runs, kind, version, store, saved, watching, astray>>

Release == pc' = "idle" /\ store' = NoDb /\ partial' = FALSE

\* The clearing, the prune and the build of vectors follow (DeletedContent, SemanticStore).
\* The last connection to close checkpoints the log and removes it.
Finish ==
    /\ pc = "tidy" /\ Release
    /\ log' \in {log, [log EXCEPT ![Resolve] = NoDb]}
    /\ vectors' \in {vectors, vectors \cup {Resolve}}
    /\ watching' = (watching \/ kind = "start")
    /\ UNCHANGED <<at, search, sealed, active, stores, runs, kind, version, saved, past>>

\* Mutant: a failing event leaves the manifest to the next one.
EventFailsSilently ==
    /\ kind = "event" /\ pc \in {"open", "stage", "graph", "remove", "create", "commit", "publish"}
    /\ Release
    /\ UNCHANGED <<layout, stores, runs, kind, version, saved, watching, past>>

\* A failing event withdraws the manifest over a partial update it committed, if it can.
EventFails ==
    /\ kind = "event" /\ pc \in {"open", "stage", "graph", "remove", "create", "commit", "publish"}
    /\ Release
    /\ \/ /\ partial
          /\ manifest' = [manifest EXCEPT ![store] = 0]
          /\ torn' = torn \ {store}
       \/ /\ torn' = IF partial THEN torn \cup {store} ELSE torn
          /\ UNCHANGED manifest
    /\ UNCHANGED <<layout, rows, graph, runs, kind, version, saved, watching>>
    /\ UNCHANGED <<newest, unpointed, astray>>

\* The steps of an import at which the log of the database it replaced may lie where that
\* database no longer is.
Parted == {"promote", "sidecars", "rollback"}

\* The log beside the resolved place, whatever it belongs to, is left there.
LeaveLog == astray' = astray \cup ({log[Resolve]} \ {NoDb})

\* A run is killed, or gives up at an error.  A watcher dies with its run.
CutShort ==
    /\ pc \in CutPoints /\ pc # "idle" /\ Release
    /\ torn' = IF partial THEN torn \cup {store} ELSE torn
    /\ unpointed' = (unpointed \/ pc = "point")
    /\ watching' = (watching /\ kind # "event")
    /\ IF pc \in Parted THEN LeaveLog ELSE UNCHANGED astray
    /\ UNCHANGED <<layout, stores, runs, kind, version, saved, newest>>

WatcherStops ==
    /\ pc = "idle" /\ watching /\ watching' = FALSE
    /\ UNCHANGED <<layout, pc, stores, runs, kind, version, store, saved, partial, past>>

-----------------------------------------------------------------------------
(* promote_snapshot_db: the database an import replaces is moved aside.    *)

\* Mutant: the database to be replaced keeps its manifest.
ImportKeepsManifest ==
    /\ pc = "withdraw" /\ pc' = "checkpoint"
    /\ UNCHANGED <<layout, stores, run, past>>

ImportWithdraws ==
    /\ pc = "withdraw" /\ pc' = "checkpoint"
    /\ IF Here = NoDb THEN UNCHANGED <<log, manifest, saved, astray>>
       ELSE /\ saved' = manifest[Here]
            /\ manifest' = [manifest EXCEPT ![Here] = 0]
            /\ log' = [log EXCEPT ![Resolve] = Here]
            /\ OpenedBeside(Here, Resolve)
    /\ UNCHANGED <<at, search, vectors, sealed, active, rows, graph>>
    /\ UNCHANGED <<runs, kind, version, store, partial, watching, torn, newest, unpointed>>

\* checkpoint_sqlite: best effort, for a reader may hold the log.
ImportCheckpoints ==
    /\ pc = "checkpoint" /\ pc' = "aside"
    /\ log' \in {log} \cup (IF Here = NoDb THEN {} ELSE {[log EXCEPT ![Resolve] = NoDb]})
    /\ UNCHANGED <<at, search, vectors, sealed, active, stores, run, past>>

ImportMovesAside ==
    /\ pc = "aside" /\ pc' = "promote"
    /\ at' = [at EXCEPT !["backup"] = Here, ![Resolve] = NoDb]
    /\ UNCHANGED <<log, search, vectors, sealed, active, stores, run, past>>

ImportPromotes ==
    /\ pc = "promote" /\ pc' = "sidecars"
    /\ at' = [at EXCEPT ![Resolve] = store]
    /\ UNCHANGED <<log, search, vectors, sealed, active, stores, run, past>>

\* A log that could not be checkpointed goes with the rows committed to it; or it stays, for
\* that it could not be removed is ignored.
RemoveSidecars ==
    /\ pc = "sidecars" /\ pc' = "check"
    /\ log' \in {log, [log EXCEPT ![Resolve] = NoDb]}
    /\ LeaveLog
    /\ UNCHANGED <<at, search, vectors, sealed, active, stores, run, torn, newest, unpointed>>

\* The imported database opens: the backup goes, and the run rebuilds the search index.
ImportOpens ==
    /\ pc = "check" /\ pc' = "remove"
    /\ at' \in {at, [at EXCEPT !["backup"] = NoDb]}
    /\ log' = [log EXCEPT ![Resolve] = store]
    /\ OpenedBeside(store, Resolve)
    /\ UNCHANGED <<search, vectors, sealed, active, stores, run, torn, newest, unpointed>>

\* A rename failed: back to the previous database, if there was one.
ImportFails ==
    /\ \/ pc = "aside" /\ Here # NoDb /\ pc' = "restore"
       \/ pc = "promote" /\ pc' = "rollback"
    /\ UNCHANGED <<layout, stores, run, past>>

\* The open failed: the log it left, if any, is removed, if it can be.
ImportOpenFails ==
    /\ pc = "check" /\ pc' = "rollback"
    /\ \/ log' = [log EXCEPT ![Resolve] = NoDb] /\ OpenedBeside(store, Resolve)
       \/ log' = [log EXCEPT ![Resolve] = store] /\ astray' = astray \cup {store}
    /\ UNCHANGED <<at, search, vectors, sealed, active, stores, run, torn, newest, unpointed>>

RollBack ==
    /\ pc = "rollback" /\ at["backup"] # NoDb
    /\ pc' = "restore"
    /\ at' = [at EXCEPT ![Resolve] = at["backup"], !["backup"] = NoDb]
    /\ UNCHANGED <<log, search, vectors, sealed, active, stores, run, past>>

\* Nothing to move back, or it cannot be moved.
RollBackFails ==
    /\ pc = "rollback" /\ Release
    /\ at' \in {at} \cup (IF at["backup"] = NoDb THEN {[at EXCEPT ![Resolve] = NoDb]} ELSE {})
    /\ LeaveLog
    /\ UNCHANGED <<log, search, vectors, sealed, active, stores, runs, kind, version, saved>>
    /\ UNCHANGED <<watching, torn, newest, unpointed>>

RestoreManifest ==
    /\ pc = "restore" /\ Release
    /\ \/ UNCHANGED <<manifest, astray>>
       \/ /\ saved # 0 /\ Here # NoDb
          /\ manifest' = [manifest EXCEPT ![Here] = saved]
          /\ OpenedBeside(Here, Resolve)
    /\ UNCHANGED <<layout, rows, graph, runs, kind, version, saved, watching>>
    /\ UNCHANGED <<torn, newest, unpointed>>

ImportStep ==
    ImportWithdraws \/ ImportCheckpoints \/ ImportMovesAside \/ ImportPromotes \/ RemoveSidecars
    \/ ImportOpens \/ ImportFails \/ ImportOpenFails \/ RollBack \/ RollBackFails \/ RestoreManifest

-----------------------------------------------------------------------------
(* A session: it asks, probes for an index if it must, and is answered.    *)

\* Nothing that a probe begun now could serve.
Unpublished == Here = NoDb \/ manifest[Here] = 0

\* A database is left at the old place: it was built there after an adoption was killed, and
\* before another was completed.
Orphaned == active /\ at["legacy"] # NoDb

\* What is so at this instant.
Facts == (IF pc = "idle" /\ Unpublished THEN {"unindexed"} ELSE {})
         \cup (IF partial \/ torn # {} THEN {"event"} ELSE {})
         \cup (IF pc \in AdoptionPcs \/ unpointed \/ Orphaned THEN {"moving"} ELSE {})

Calling(s) == rpc[s] \notin {"idle", "done"}

\* What a step of the run was to the requests under way.
Observe ==
    met' = [s \in Sessions |->
              IF ~Calling(s) \/ "error" \in met[s] THEN met[s]
              ELSE met[s] \cup Facts'
                   \cup (IF <<at, rows, graph, search>>' # <<at, rows, graph, search>>
                         THEN {"wrote"} ELSE {})
                   \cup (IF pc # "idle" /\ pc' = "idle" THEN {"ended"} ELSE {})]

System == <<layout, pc, stores, run, past>>

Moves(s, from, to) == rpc[s] = from /\ rpc' = [rpc EXCEPT ![s] = to]

\* serve: a session without a published store, or idle for long, probes again.
Ask(s) ==
    /\ ~Calling(s)
    /\ met' = [met EXCEPT ![s] = Facts]
    /\ answer' = [answer EXCEPT ![s] = "none"]
    /\ \/ /\ handle[s] # NoDb /\ manifest[handle[s]] # 0
          /\ rpc' = [rpc EXCEPT ![s] = "rows"]
          /\ seen' = [seen EXCEPT ![s] = [Nothing EXCEPT !.m = manifest[handle[s]]]]
       \/ /\ rpc' = [rpc EXCEPT ![s] = "locate"]
          /\ seen' = [seen EXCEPT ![s] = Nothing]
    /\ UNCHANGED <<System, handle, dir>>

Locate(s) ==
    /\ Moves(s, "locate", "stat")
    /\ dir' = [dir EXCEPT ![s] = Resolve]
    /\ UNCHANGED <<System, handle, seen, answer, met>>

Stat(s) ==
    /\ Moves(s, "stat", IF at[dir[s]] = NoDb THEN "unindexed" ELSE "open")
    /\ UNCHANGED <<System, handle, dir, seen, answer, met>>

\* Mutant: the file that was there a moment ago is taken to be there still.
OpenUnchecked(s) ==
    /\ Moves(s, "open", "manifest")
    /\ handle' = [handle EXCEPT ![s] = at[dir[s]]]
    /\ UNCHANGED <<System, dir, seen, answer, met>>

\* A reader's open creates nothing; the file may have moved since.
Open(s) ==
    /\ \/ /\ at[dir[s]] = NoDb
          /\ Moves(s, "open", "unservable")
          /\ UNCHANGED astray
       \/ /\ at[dir[s]] # NoDb
          /\ Moves(s, "open", "manifest")
          /\ OpenedBeside(at[dir[s]], dir[s])
    /\ handle' = [handle EXCEPT ![s] = at[dir[s]]]
    /\ UNCHANGED <<layout, pc, stores, run, torn, newest, unpointed, dir, seen, answer, met>>

ReadManifest(s) ==
    /\ rpc[s] = "manifest"
    /\ \/ /\ manifest[handle[s]] # 0
          /\ Moves(s, "manifest", "rows")
          /\ seen' = [seen EXCEPT ![s].m = manifest[handle[s]]]
          /\ UNCHANGED handle
       \/ /\ manifest[handle[s]] = 0
          /\ Moves(s, "manifest", "unindexed")
          /\ handle' = [handle EXCEPT ![s] = NoDb]
          /\ UNCHANGED seen
    /\ UNCHANGED <<System, dir, answer, met>>

\* Mutant: the write lock is not probed.
RefuseUnprobed(s) ==
    /\ Moves(s, "unindexed", "done")
    /\ answer' = [answer EXCEPT ![s] = "not indexed"]
    /\ handle' = [handle EXCEPT ![s] = NoDb]
    /\ UNCHANGED <<System, dir, seen, met>>

\* unindexed and unservable: only now is the write lock probed (RefuseErrs: in vain).
Refuse(s) ==
    /\ \E from \in {"unindexed", "unservable"} :
         /\ Moves(s, from, "done")
         /\ answer' = [answer EXCEPT ![s] =
                         IF pc # "idle" THEN "in progress"
                         ELSE IF from = "unindexed" THEN "not indexed" ELSE "unavailable"]
    /\ handle' = [handle EXCEPT ![s] = NoDb]
    /\ UNCHANGED <<System, dir, seen, met>>

ReadRows(s) ==
    /\ Moves(s, "rows", "exists")
    /\ seen' = [seen EXCEPT ![s].r = rows[handle[s]], ![s].g = graph[handle[s]]]
    /\ UNCHANGED <<System, handle, dir, answer, met>>

Served(s, hits) ==
    /\ seen' = [seen EXCEPT ![s].hits = hits]
    /\ answer' = [answer EXCEPT ![s] = "served"]

\* lexical_candidates: without a search index, the stored chunks are scanned.
FindSearch(s) ==
    /\ rpc[s] = "exists"
    /\ dir' = [dir EXCEPT ![s] = Resolve]
    /\ \/ /\ search[Resolve] \in {NoIndex, NoDir}
          /\ Moves(s, "exists", "done")
          /\ Served(s, rows[handle[s]])
       \/ /\ search[Resolve] \notin {NoIndex, NoDir}
          /\ Moves(s, "exists", "query")
          /\ UNCHANGED <<seen, answer>>
    /\ UNCHANGED <<System, handle, met>>

\* open_or_create: a reader that finds the index gone leaves an empty one.
Query(s) ==
    /\ Moves(s, "query", "done")
    /\ LET found == IF search[dir[s]] \in {NoIndex, NoDir} THEN 0 ELSE search[dir[s]]
       IN  /\ search' = [search EXCEPT ![dir[s]] = found]
           /\ Served(s, found)
    /\ UNCHANGED <<at, log, vectors, sealed, active, pc, stores, run, past, handle, dir, met>>

\* The system refuses a step what it reads.  What else its request met no longer matters.
Errs(s) == met' = [met EXCEPT ![s] = {"error"}]

\* A pointer or a seal that cannot be read is taken for none, and so is a database that
\* cannot be found; one that cannot be opened or read is not served.
ProbeErrs(s) ==
    /\ Errs(s)
    /\ \/ /\ Moves(s, "locate", "stat")
          /\ dir' = [dir EXCEPT ![s] = "legacy"]
          /\ UNCHANGED handle
       \/ /\ Moves(s, "stat", "unindexed")
          /\ UNCHANGED <<handle, dir>>
       \/ /\ Moves(s, "open", "unservable") \/ Moves(s, "manifest", "unservable")
          /\ handle' = [handle EXCEPT ![s] = NoDb]
          /\ UNCHANGED dir
    /\ UNCHANGED <<System, seen, answer>>

\* index_write_in_progress: a lock file that cannot be opened or locked is taken for one that
\* nobody holds, in the middle of a run.
RefuseErrs(s) ==
    /\ Errs(s)
    /\ pc # "idle"
    /\ \E from \in {"unindexed", "unservable"} :
         /\ Moves(s, from, "done")
         /\ answer' = [answer EXCEPT ![s] =
                         IF from = "unindexed" THEN "not indexed" ELSE "unavailable"]
    /\ handle' = [handle EXCEPT ![s] = NoDb]
    /\ UNCHANGED <<System, dir, seen>>

\* A request fails; or a search index that it cannot see, or looks for at the old place, is
\* taken for none.
RequestErrs(s) ==
    /\ Errs(s)
    /\ \/ /\ \E from \in {"rows", "exists", "query"} : Moves(s, from, "done")
          /\ answer' = [answer EXCEPT ![s] = "failed"]
          /\ UNCHANGED <<dir, seen>>
       \/ /\ Moves(s, "exists", "done")
          /\ dir' \in {[dir EXCEPT ![s] = Resolve], [dir EXCEPT ![s] = "legacy"]}
          /\ Served(s, rows[handle[s]])
       \/ /\ search["legacy"] \notin {NoIndex, NoDir}
          /\ Moves(s, "exists", "query")
          /\ dir' = [dir EXCEPT ![s] = "legacy"]
          /\ UNCHANGED <<seen, answer>>
    /\ UNCHANGED <<System, handle>>

SessionStep(s) ==
    Ask(s) \/ Locate(s) \/ Stat(s) \/ Open(s) \/ ReadManifest(s) \/ Refuse(s)
    \/ ReadRows(s) \/ FindSearch(s) \/ Query(s)
    \/ ProbeErrs(s) \/ RefuseErrs(s) \/ RequestErrs(s)

Adopts == AdoptionStep /\ UNCHANGED <<stores, run, torn, newest, unpointed>>

RunStep ==
    \/ \E k \in Kinds : Begin(k)
    \/ Adopts
    \/ OpenStore \/ StageFull \/ StagePartial \/ StageNothing \/ ReplaceGraph
    \/ RemoveSearch \/ CreateSearch \/ CommitSearch \/ Publish \/ Finish
    \/ EventFails \/ CutShort \/ WatcherStops
    \/ ImportStep

Next ==
    \/ RunStep /\ UNCHANGED reader /\ Observe
    \/ \E s \in Sessions : SessionStep(s)

Spec == Init /\ [][Next]_vars

-----------------------------------------------------------------------------
TypeOK ==
    /\ at \in [Places -> Dbs \cup {NoDb}] /\ log \in [Roots -> Dbs \cup {NoDb}]
    /\ search \in [Roots -> 0 .. MaxRuns \cup {NoIndex, NoDir}]
    /\ vectors \subseteq Roots /\ sealed \in BOOLEAN /\ active \in BOOLEAN
    /\ pc \in Pcs
    /\ {rows, graph, manifest} \subseteq [Dbs -> 0 .. MaxRuns]
    /\ {runs, version, saved, newest} \subseteq 0 .. MaxRuns
    /\ kind \in Kinds \cup {"none"}
    /\ store \in Dbs \cup {NoDb}
    /\ partial \in BOOLEAN /\ watching \in BOOLEAN
    /\ torn \subseteq Dbs /\ unpointed \in BOOLEAN /\ astray \subseteq Dbs
    /\ rpc \in [Sessions -> {"idle", "locate", "stat", "open", "manifest", "unindexed",
                             "unservable", "rows", "exists", "query", "done"}]
    /\ handle \in [Sessions -> Dbs \cup {NoDb}]
    /\ \A s \in Sessions : rpc[s] \in {"manifest", "rows", "exists", "query"} => handle[s] # NoDb
    /\ dir \in [Sessions -> Roots]
    /\ seen \in [Sessions -> [m: 0 .. MaxRuns, r: 0 .. MaxRuns, g: 0 .. MaxRuns, hits: 0 .. MaxRuns]]
    /\ answer \in [Sessions -> {"none", "served", "in progress", "not indexed", "unavailable", "failed"}]
    /\ met \in [Sessions -> SUBSET {"unindexed", "event", "moving", "wrote", "ended", "error"}]

\* An index that readers find is one index: its rows, its graph and its search index
\* are of the run its manifest describes.  Not while a watch event has replaced rows and
\* not yet published, nor over what a watcher killed there leaves (torn), nor of a database
\* parted from its log or opened beside that of another (astray), of which SQLite may have
\* made anything.
PublishedWhole ==
    ~Unpublished /\ ~partial /\ Here \notin torn \cup astray =>
        /\ rows[Here] = manifest[Here]
        /\ graph[Here] = manifest[Here]
        /\ search[Resolve] = manifest[Here]

\* A request is answered from one index, whatever its session opened and whenever, unless
\* a run wrote during the request, a watch event was between its rows and its manifest or
\* had been killed there, an adoption was moving the files or had been killed there, or the
\* system refused it a file; nor from a database astray.
AnswersOneIndex ==
    \A s \in Sessions :
        /\ rpc[s] = "done" /\ answer[s] = "served" /\ handle[s] \notin astray
        /\ met[s] \cap {"wrote", "event", "moving", "error"} = {}
        => /\ seen[s].m # 0
           /\ seen[s].r = seen[s].m /\ seen[s].g = seen[s].m /\ seen[s].hits = seen[s].m

\* A database that still has a manifest, which a session that holds it would serve, is
\* the one a new probe finds, unless it is just being moved into the generation, or an
\* adoption was killed there, or it is astray.
PublishedIsFound ==
    ~unpointed /\ ~Orphaned => \A d \in Dbs \ astray :
        manifest[d] # 0 /\ (d \in {at[p] : p \in Places} \cup {handle[s] : s \in Sessions})
            => d = Here \/ pc \in AdoptionPcs

\* The index readers find is the last one that was published, or is astray.
PublishedIsNewest == ~Unpublished => Here \in astray \/ manifest[Here] = newest

\* It is, but after an adoption killed between its seal and its pointer: until a run
\* publishes in the generation.
PublishedIsNewestUnlessCut == unpointed \/ PublishedIsNewest

\* Between runs, a write-ahead log lies beside the database it belongs to, and rows committed
\* to it are neither lost nor replayed into another database; but for the log that a reader
\* kept an import from checkpointing, if the import is cut short or fails before it is
\* removed, and one that an adoption cannot move.
LogBesideItsDatabase ==
    pc = "idle" => \A p \in Roots : log[p] \in {NoDb, at[p]} \cup astray

\* "not indexed" is told only of a repository that was so, unpublished and with no run
\* in progress, at some instant of the request; or a run ended between the read of the
\* manifest and the probe of the lock; or the system refused the request a file, which the
\* code takes for its absence, and the lock's for no run.
NotIndexedUnlessRaced ==
    \A s \in Sessions :
        rpc[s] = "done" /\ answer[s] \in {"not indexed", "unavailable"}
            => met[s] \cap {"unindexed", "ended", "error"} # {}
=============================================================================
