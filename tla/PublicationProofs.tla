------------------------- MODULE PublicationProofs --------------------------
(***************************************************************************)
(* Proofs about Publication, for any database files, any sessions, any     *)
(* kinds of runs and any number of them: what readers find is one index,   *)
(* the newest, and what they are answered comes from one.                  *)
(***************************************************************************)
EXTENDS Publication, TLAPS

-----------------------------------------------------------------------------
(***************************************************************************)
(* Types.                                                                  *)
(***************************************************************************)

LayoutOK ==
    /\ at \in [Places -> Dbs \cup {NoDb}] /\ log \in [Roots -> Dbs \cup {NoDb}]
    /\ search \in [Roots -> 0 .. MaxRuns \cup {NoIndex, NoDir}]
    /\ vectors \subseteq Roots /\ sealed \in BOOLEAN /\ active \in BOOLEAN
    /\ pc \in Pcs

StoresOK ==
    /\ rows \in [Dbs -> 0 .. MaxRuns] /\ graph \in [Dbs -> 0 .. MaxRuns]
    /\ manifest \in [Dbs -> 0 .. MaxRuns]

RunOK ==
    /\ runs \in 0 .. MaxRuns /\ version \in 0 .. MaxRuns
    /\ saved \in 0 .. MaxRuns /\ newest \in 0 .. MaxRuns
    /\ kind \in Kinds \cup {"none"}
    /\ store \in Dbs \cup {NoDb}
    /\ partial \in BOOLEAN /\ watching \in BOOLEAN
    /\ torn \subseteq Dbs /\ unpointed \in BOOLEAN /\ astray \subseteq Dbs

SystemOK == LayoutOK /\ StoresOK /\ RunOK

ReaderPcs == {"idle", "locate", "stat", "open", "manifest", "unindexed",
              "unservable", "rows", "exists", "query", "done"}
Reads == [m: 0 .. MaxRuns, r: 0 .. MaxRuns, g: 0 .. MaxRuns, hits: 0 .. MaxRuns]

ReaderOK ==
    /\ rpc \in [Sessions -> ReaderPcs]
    /\ handle \in [Sessions -> Dbs \cup {NoDb}]
    /\ \A s \in Sessions : rpc[s] \in {"manifest", "rows", "exists", "query"} => handle[s] # NoDb
    /\ dir \in [Sessions -> Roots]
    /\ seen \in [Sessions -> Reads]
    /\ answer \in [Sessions -> {"none", "served", "in progress", "not indexed", "unavailable",
                              "failed"}]

Happenings == {"unindexed", "event", "moving", "wrote", "ended", "error"}
MetOK == met \in [Sessions -> SUBSET Happenings]

LEMMA TypeParts ==
    /\ TypeOK <=> SystemOK /\ ReaderOK /\ MetOK
    /\ TypeOK' <=> SystemOK' /\ ReaderOK' /\ MetOK'
PROOF BY DEF TypeOK, SystemOK, LayoutOK, StoresOK, RunOK, ReaderOK, MetOK, ReaderPcs, Reads,
             Happenings

\* The database of a run that writes is open.
Kept == {"stage", "graph", "remove", "create", "commit", "publish", "tidy"}
StoreOpen ==
    /\ pc \in Kept \cup ImportPcs => store \in Dbs
    /\ partial => pc \in Kept

\* The steps of a run that writes an index, those that end one, and those of an import.
Writes == OpenStore \/ StageFull \/ StagePartial \/ StageNothing \/ ReplaceGraph
          \/ RemoveSearch \/ CreateSearch \/ CommitSearch \/ Publish
Ends == Finish \/ EventFails \/ CutShort \/ WatcherStops

LEMMA RunSteps == RunStep <=> (\E k \in Kinds : Begin(k)) \/ Adopts \/ Writes \/ Ends \/ ImportStep
PROOF BY DEF RunStep, Writes, Ends

LEMMA InitTyped == Init => TypeOK /\ StoreOpen
PROOF
<1> SUFFICES ASSUME Init PROVE TypeOK /\ StoreOpen
  OBVIOUS
<1>1. 0 \in 0 .. MaxRuns
  BY PublicationAssumption
<1>2. SystemOK /\ MetOK
  BY <1>1 DEF Init, SystemOK, LayoutOK, StoresOK, RunOK, MetOK, Pcs, Roots, Places
<1>3. ReaderOK
  BY <1>1 DEF Init, ReaderOK, ReaderPcs, Reads, Nothing, Roots
<1> QED BY <1>2, <1>3, TypeParts DEF Init, StoreOpen, Kept, ImportPcs

\* The root that is resolved, and the database it names.
LEMMA ResolveType ==
    SystemOK => Resolve \in Roots /\ Resolve \in Places /\ Here \in Dbs \cup {NoDb}
PROOF BY DEF SystemOK, LayoutOK, Resolve, Here, Roots, Places

LEMMA AdoptionType ==
    SystemOK /\ StoreOpen /\ Adopts => SystemOK' /\ StoreOpen'
PROOF
<1> SUFFICES ASSUME SystemOK, StoreOpen, Adopts PROVE SystemOK' /\ StoreOpen'
  OBVIOUS
<1>0. astray' \subseteq Dbs
  BY DEF SystemOK, LayoutOK, RunOK, Adopts, AdoptionStep, MoveLog, Roots
<1>1. StoresOK' /\ RunOK'
  BY <1>0 DEF SystemOK, Adopts, StoresOK, RunOK, stores, run
<1>2. /\ LayoutOK' /\ pc' \notin Kept \cup ImportPcs /\ pc \notin Kept
  BY DEF SystemOK, Adopts, AdoptionStep, NothingToAdopt, PointAtSealed, StartAdoption, MoveDb,
         MoveSearch, MoveVectors, MoveLog, Seal, Point, layout, LayoutOK, Roots, Places, Pcs,
         RunPcs, AdoptionPcs, ImportPcs, Kept
<1> QED BY <1>1, <1>2 DEF SystemOK, StoreOpen, Adopts, run

LEMMA BeginType ==
    ASSUME NEW k \in Kinds, SystemOK, StoreOpen, Begin(k)
    PROVE  SystemOK' /\ StoreOpen'
PROOF
<1>1. runs + 1 \in 0 .. MaxRuns /\ 0 \in 0 .. MaxRuns
  BY PublicationAssumption DEF SystemOK, RunOK, Begin
<1>2. LayoutOK'
  BY DEF SystemOK, LayoutOK, Begin, layout, Pcs, RunPcs, ImportPcs
<1>3. StoresOK' /\ store' \in Dbs \cup {NoDb} /\ (k = "import" => store' \in Dbs)
  BY <1>1 DEF SystemOK, StoresOK, Begin, stores, Unused
<1>4. StoreOpen'
  BY <1>3 DEF StoreOpen, Begin, Kept, ImportPcs
<1> QED BY <1>1, <1>2, <1>3, <1>4 DEF SystemOK, RunOK, Begin, past

LEMMA WritesType == SystemOK /\ StoreOpen /\ Writes => SystemOK' /\ StoreOpen'
PROOF
<1> SUFFICES ASSUME SystemOK, StoreOpen, Writes PROVE SystemOK' /\ StoreOpen'
  OBVIOUS
<1>0. 0 \in 0 .. MaxRuns /\ Resolve \in Roots /\ Here \in Dbs \cup {NoDb} /\ Roots \subseteq Places
  BY PublicationAssumption, ResolveType DEF Roots, Places
<1>1. CASE OpenStore
  <2>1. store' \in Dbs
    BY <1>0, <1>1 DEF OpenStore, Unused
  <2>2. astray' \subseteq Dbs
    BY <1>0, <1>1, <2>1 DEF OpenStore, OpenedBeside, Unused, SystemOK, LayoutOK, RunOK
  <2> QED BY <1>0, <1>1, <2>1, <2>2 DEF OpenStore, SystemOK, LayoutOK, StoresOK, RunOK, StoreOpen,
                                Kept, ImportPcs, Pcs, RunPcs, stores, past
<1>2. CASE StageFull
  BY <1>0, <1>2 DEF StageFull, SystemOK, LayoutOK, StoresOK, RunOK,
                    StoreOpen, Kept, ImportPcs, Pcs, RunPcs, layout, run
<1>3. CASE StagePartial
  BY <1>0, <1>3 DEF StagePartial, SystemOK, LayoutOK, StoresOK, RunOK,
                    StoreOpen, Kept, ImportPcs, Pcs, RunPcs, layout, past
<1>4. CASE StageNothing
  BY <1>0, <1>4 DEF StageNothing, SystemOK, LayoutOK, StoresOK, RunOK,
                    StoreOpen, Kept, ImportPcs, Pcs, RunPcs, layout, stores, past
<1>5. CASE ReplaceGraph
  BY <1>0, <1>5 DEF ReplaceGraph, SystemOK, LayoutOK, StoresOK, RunOK,
                    StoreOpen, Kept, ImportPcs, Pcs, RunPcs, layout, run, past
<1>6. CASE RemoveSearch \/ CreateSearch \/ CommitSearch
  BY <1>0, <1>6 DEF RemoveSearch, CreateSearch, CommitSearch, SearchBecomes, SystemOK, LayoutOK,
                    StoresOK, RunOK, StoreOpen, Kept, ImportPcs, Pcs, RunPcs, stores, run, past
<1>7. CASE Publish
  BY <1>0, <1>7 DEF Publish, SystemOK, LayoutOK, StoresOK, RunOK, StoreOpen, Kept, ImportPcs,
                    Pcs, RunPcs, layout
<1> QED BY <1>1, <1>2, <1>3, <1>4, <1>5, <1>6, <1>7 DEF Writes

LEMMA EndsType == SystemOK /\ StoreOpen /\ Ends => SystemOK' /\ StoreOpen'
PROOF
<1> SUFFICES ASSUME SystemOK, StoreOpen, Ends PROVE SystemOK' /\ StoreOpen'
  OBVIOUS
<1>0. /\ 0 \in 0 .. MaxRuns /\ Resolve \in Roots /\ "idle" \in Pcs
      /\ "idle" \notin Kept \cup ImportPcs
  BY PublicationAssumption, ResolveType DEF Pcs, Kept, ImportPcs
<1>1. CASE Finish
  BY <1>0, <1>1 DEF Finish, Release, SystemOK, LayoutOK, StoresOK, RunOK, StoreOpen, stores, past
<1>2. CASE EventFails
  <2>1. torn' \subseteq Dbs /\ manifest' \in [Dbs -> 0 .. MaxRuns]
    BY <1>0, <1>2 DEF EventFails, SystemOK, StoresOK, RunOK, StoreOpen
  <2> QED BY <1>0, <1>2, <2>1 DEF EventFails, Release, SystemOK, LayoutOK, StoresOK, RunOK,
                                StoreOpen, layout
<1>3. CASE CutShort
  <2>1. torn' \subseteq Dbs /\ unpointed' \in BOOLEAN /\ watching' \in BOOLEAN
    BY <1>0, <1>3 DEF CutShort, SystemOK, RunOK, StoreOpen
  <2>2. astray' \subseteq Dbs
    BY <1>0, <1>3 DEF CutShort, LeaveLog, SystemOK, LayoutOK, RunOK
  <2> QED BY <1>0, <1>3, <2>1, <2>2 DEF CutShort, Release, SystemOK, LayoutOK, StoresOK, RunOK,
                                StoreOpen, layout, stores
<1>4. CASE WatcherStops
  BY <1>4 DEF WatcherStops, SystemOK, LayoutOK, StoresOK, RunOK, StoreOpen, layout, stores, past
<1> QED BY <1>1, <1>2, <1>3, <1>4 DEF Ends

LEMMA ImportType == SystemOK /\ StoreOpen /\ ImportStep => SystemOK' /\ StoreOpen'
PROOF
<1> SUFFICES ASSUME SystemOK, StoreOpen, ImportStep PROVE SystemOK' /\ StoreOpen'
  OBVIOUS
<1>0. /\ 0 \in 0 .. MaxRuns /\ Resolve \in Roots /\ Here \in Dbs \cup {NoDb}
      /\ Roots \subseteq Places /\ "backup" \in Places /\ NoDb \notin Dbs
  BY PublicationAssumption, ResolveType DEF Roots, Places
<1> USE DEF OpenedBeside, LeaveLog
<1>1. CASE ImportWithdraws
  BY <1>0, <1>1 DEF ImportWithdraws, SystemOK, LayoutOK, StoresOK, RunOK, StoreOpen, Kept,
                    ImportPcs, Pcs, past
<1>2. CASE ImportCheckpoints \/ RemoveSidecars
  BY <1>0, <1>2 DEF ImportCheckpoints, RemoveSidecars, SystemOK, LayoutOK, StoresOK, RunOK,
                    StoreOpen, Kept, ImportPcs, Pcs, stores, run, past
<1>3. CASE ImportMovesAside \/ ImportPromotes
  BY <1>0, <1>3 DEF ImportMovesAside, ImportPromotes, SystemOK, LayoutOK, StoresOK, RunOK,
                    StoreOpen, Kept, ImportPcs, Pcs, stores, run, past
<1>4. CASE ImportOpens
  BY <1>0, <1>4 DEF ImportOpens, SystemOK, LayoutOK, StoresOK, RunOK,
                    StoreOpen, Kept, ImportPcs, Pcs, RunPcs, stores, run, past
<1>5. CASE ImportFails \/ ImportOpenFails
  BY <1>0, <1>5 DEF ImportFails, ImportOpenFails, layout, past, SystemOK, LayoutOK, StoresOK, RunOK,
                    StoreOpen, Kept, ImportPcs, Pcs, stores, run, past
<1>6. CASE RollBack
  BY <1>0, <1>6 DEF RollBack, SystemOK, LayoutOK, StoresOK, RunOK,
                    StoreOpen, Kept, ImportPcs, Pcs, stores, run, past
<1>7. CASE RollBackFails
  BY <1>0, <1>7 DEF RollBackFails, Release, SystemOK, LayoutOK, StoresOK, RunOK,
                    StoreOpen, Kept, ImportPcs, Pcs, stores, past
<1>8. CASE RestoreManifest
  <2>1. manifest' \in [Dbs -> 0 .. MaxRuns]
    BY <1>0, <1>8 DEF RestoreManifest, SystemOK, StoresOK, RunOK
  <2>2. astray' \subseteq Dbs
    BY <1>0, <1>8 DEF RestoreManifest, SystemOK, LayoutOK, RunOK
  <2> QED BY <1>0, <1>8, <2>1, <2>2 DEF RestoreManifest, Release, SystemOK, LayoutOK, StoresOK,
                                RunOK, StoreOpen, Kept, ImportPcs, Pcs, layout
<1> QED BY <1>1, <1>2, <1>3, <1>4, <1>5, <1>6, <1>7, <1>8 DEF ImportStep

LEMMA RunTyped == SystemOK /\ StoreOpen /\ RunStep => SystemOK' /\ StoreOpen'
PROOF BY RunSteps, BeginType, AdoptionType, WritesType, EndsType, ImportType

\* What is observed, and what is so, is of the kinds there are.
LEMMA HappeningsType == Facts \subseteq Happenings /\ Facts' \subseteq Happenings
PROOF BY DEF Facts, Happenings

LEMMA ObserveType == MetOK /\ Observe => MetOK'
PROOF
<1> SUFFICES ASSUME MetOK, Observe PROVE MetOK'
  OBVIOUS
<1> DEFINE new(s) == met[s] \cup Facts'
                      \cup (IF <<at, rows, graph, search>>' # <<at, rows, graph, search>>
                            THEN {"wrote"} ELSE {})
                      \cup (IF pc # "idle" /\ pc' = "idle" THEN {"ended"} ELSE {})
<1>1. ASSUME NEW s \in Sessions PROVE new(s) \in SUBSET Happenings /\ met[s] \in SUBSET Happenings
  BY HappeningsType DEF MetOK, Happenings
<1>2. met' = [s \in Sessions |->
               IF ~Calling(s) \/ "error" \in met[s] THEN met[s] ELSE new(s)]
  BY DEF Observe
<1> HIDE DEF new
<1> QED BY <1>1, <1>2 DEF MetOK

\* A field of what a request has read, replaced.
LEMMA ReadsField ==
    ASSUME NEW r \in Reads, NEW v \in 0 .. MaxRuns
    PROVE  /\ [r EXCEPT !.m = v] \in Reads /\ [r EXCEPT !.hits = v] \in Reads
           /\ [r EXCEPT !.r = v] \in Reads /\ [r EXCEPT !.g = v] \in Reads
PROOF BY DEF Reads

LEMMA SessionTyped ==
    ASSUME NEW s \in Sessions, SystemOK, ReaderOK, MetOK, SessionStep(s)
    PROVE  SystemOK' /\ ReaderOK' /\ MetOK'
PROOF
<1>0. /\ Resolve \in Roots /\ 0 \in 0 .. MaxRuns /\ dir[s] \in Roots /\ Roots \subseteq Places
      /\ seen[s] \in Reads
  <2>1. 0 \in 0 .. MaxRuns
    BY PublicationAssumption
  <2> QED BY <2>1, ResolveType DEF ReaderOK, Roots, Places
<1>1. SystemOK'
  <2>1. CASE Query(s)
    <3>1. search' \in [Roots -> 0 .. MaxRuns \cup {NoIndex, NoDir}]
      BY <1>0, <2>1 DEF Query, SystemOK, LayoutOK
    <3> QED BY <2>1, <3>1 DEF Query, SystemOK, LayoutOK, StoresOK, RunOK, stores, run, past
  <2>2. CASE System' = System
    BY <2>2 DEF System, SystemOK, LayoutOK, StoresOK, RunOK, layout, stores, run, past
  <2>3. CASE Open(s)
    <3>1. astray' \subseteq Dbs
      BY <1>0, <2>3 DEF Open, OpenedBeside, SystemOK, LayoutOK, RunOK
    <3> QED BY <2>3, <3>1 DEF Open, SystemOK, LayoutOK, StoresOK, RunOK, layout, stores, run
  <2> QED BY <2>1, <2>2, <2>3 DEF SessionStep, Ask, Locate, Stat, ReadManifest, Refuse, ReadRows,
                            FindSearch, ProbeErrs, RefuseErrs, RequestErrs
<1>2. MetOK'
  <2>1. {"error"} \subseteq Happenings
    BY DEF Happenings
  <2> QED BY <2>1, HappeningsType DEF MetOK, SessionStep, Ask, Locate, Stat, Open, ReadManifest, Refuse,
                        ReadRows, FindSearch, ProbeErrs, RefuseErrs, RequestErrs, Errs, Query
<1>3. ReaderOK'
  <2>1. CASE Ask(s)
    <3>1. Nothing \in Reads /\ \A v \in 0 .. MaxRuns : [Nothing EXCEPT !.m = v] \in Reads
      BY <1>0 DEF Nothing, Reads
    <3>2. handle[s] # NoDb => manifest[handle[s]] \in 0 .. MaxRuns
      BY DEF SystemOK, StoresOK, ReaderOK
    <3> QED BY <2>1, <3>1, <3>2 DEF Ask, ReaderOK, ReaderPcs
  <2>2. CASE Locate(s) \/ Stat(s)
    BY <1>0, <2>2 DEF Locate, Stat, Moves, ReaderOK, ReaderPcs
  <2>3. CASE Open(s)
    <3>1. at[dir[s]] \in Dbs \cup {NoDb}
      BY <1>0 DEF SystemOK, LayoutOK
    <3> QED BY <2>3, <3>1 DEF Open, Moves, ReaderOK, ReaderPcs
  <2>4. CASE ReadManifest(s)
    <3>1. rpc[s] = "manifest" => manifest[handle[s]] \in 0 .. MaxRuns
      BY DEF SystemOK, StoresOK, ReaderOK
    <3>2. rpc[s] = "manifest" /\ (seen' = seen \/ seen' = [seen EXCEPT ![s].m = manifest[handle[s]]])
      BY <2>4 DEF ReadManifest
    <3>3. seen' \in [Sessions -> Reads]
      <4>1. [seen[s] EXCEPT !.m = manifest[handle[s]]] \in Reads
        BY <1>0, <3>1, <3>2, ReadsField
      <4> QED BY <3>2, <4>1 DEF ReaderOK
    <3> QED BY <2>4, <3>3 DEF ReadManifest, Moves, ReaderOK, ReaderPcs
  <2>5. CASE Refuse(s)
    BY <2>5 DEF Refuse, Moves, ReaderOK, ReaderPcs
  <2>6. CASE ReadRows(s)
    <3>1. rpc[s] = "rows" => rows[handle[s]] \in 0 .. MaxRuns /\ graph[handle[s]] \in 0 .. MaxRuns
      BY DEF SystemOK, StoresOK, ReaderOK
    <3>2. seen' \in [Sessions -> Reads]
      <4>1. [seen EXCEPT ![s].r = rows[handle[s]]] \in [Sessions -> Reads]
        BY <1>0, <2>6, <3>1, ReadsField DEF ReadRows, Moves, ReaderOK
      <4> QED BY <1>0, <2>6, <3>1, <4>1, ReadsField DEF ReadRows, Moves
    <3> QED BY <2>6, <3>2 DEF ReadRows, Moves, ReaderOK, ReaderPcs
  <2>7. CASE FindSearch(s)
    <3>1. rows[handle[s]] \in 0 .. MaxRuns
      BY <2>7 DEF FindSearch, SystemOK, StoresOK, ReaderOK
    <3>2. seen' = seen \/ seen' = [seen EXCEPT ![s].hits = rows[handle[s]]]
      BY <2>7 DEF FindSearch, Served
    <3>3. seen' \in [Sessions -> Reads]
      <4>1. [seen[s] EXCEPT !.hits = rows[handle[s]]] \in Reads
        BY <1>0, <3>1, ReadsField
      <4>2. seen \in [Sessions -> Reads]
        BY DEF ReaderOK
      <4> QED BY <3>2, <4>1, <4>2
    <3> QED BY <1>0, <2>7, <3>3 DEF FindSearch, Served, Moves, ReaderOK, ReaderPcs
  <2>8. CASE Query(s)
    <3> DEFINE found == IF search[dir[s]] \in {NoIndex, NoDir} THEN 0 ELSE search[dir[s]]
    <3>1. found \in 0 .. MaxRuns
      BY <1>0 DEF SystemOK, LayoutOK
    <3>2. seen' = [seen EXCEPT ![s].hits = found]
      BY <2>8 DEF Query, Served
    <3>3. seen' \in [Sessions -> Reads]
      BY <1>0, <3>1, <3>2, ReadsField DEF ReaderOK
    <3> QED BY <2>8, <3>3 DEF Query, Served, Moves, ReaderOK, ReaderPcs
  <2>9. CASE ProbeErrs(s)
    BY <1>0, <2>9 DEF ProbeErrs, Moves, ReaderOK, ReaderPcs, Roots
  <2>10. CASE RefuseErrs(s)
    BY <1>0, <2>10 DEF RefuseErrs, Moves, ReaderOK, ReaderPcs
  <2>11. CASE RequestErrs(s)
    <3>0. "legacy" \in Roots
      BY DEF Roots
    <3>1. seen' = seen \/ (rpc[s] = "exists" /\ seen' = [seen EXCEPT ![s].hits = rows[handle[s]]])
      BY <2>11 DEF RequestErrs, Served, Moves
    <3>2. rpc[s] = "exists" => rows[handle[s]] \in 0 .. MaxRuns
      BY DEF SystemOK, StoresOK, ReaderOK
    <3>3. seen' \in [Sessions -> Reads]
      <4>1. rpc[s] = "exists" => [seen[s] EXCEPT !.hits = rows[handle[s]]] \in Reads
        BY <1>0, <3>2, ReadsField
      <4>2. seen \in [Sessions -> Reads]
        BY DEF ReaderOK
      <4> QED BY <3>1, <4>1, <4>2
    <3>4. /\ rpc' \in {[rpc EXCEPT ![s] = "done"], [rpc EXCEPT ![s] = "query"]}
          /\ rpc[s] \in {"rows", "exists", "query"}
          /\ dir' \in {dir, [dir EXCEPT ![s] = Resolve], [dir EXCEPT ![s] = "legacy"]}
          /\ answer' \in {answer, [answer EXCEPT ![s] = "failed"], [answer EXCEPT ![s] = "served"]}
          /\ handle' = handle
      BY <2>11 DEF RequestErrs, Moves, Served
    <3>5. rpc' \in [Sessions -> ReaderPcs] /\ dir' \in [Sessions -> Roots]
      <4>1. "done" \in ReaderPcs /\ "query" \in ReaderPcs
        BY DEF ReaderPcs
      <4>2. rpc \in [Sessions -> ReaderPcs] /\ dir \in [Sessions -> Roots]
        BY DEF ReaderOK
      <4>3. rpc' \in [Sessions -> ReaderPcs]
        BY ONLY <3>4, <4>1, <4>2
      <4>4. dir' \in [Sessions -> Roots]
        BY ONLY <1>0, <3>0, <3>4, <4>2
      <4> QED BY <4>3, <4>4
    <3>6. answer' \in [Sessions -> {"none", "served", "in progress", "not indexed",
                                     "unavailable", "failed"}]
      BY <3>4 DEF ReaderOK
    <3>7. \A t \in Sessions :
             rpc'[t] \in {"manifest", "rows", "exists", "query"} => handle'[t] # NoDb
      BY <3>4 DEF ReaderOK
    <3> QED BY <3>3, <3>4, <3>5, <3>6, <3>7 DEF ReaderOK
  <2> QED BY <2>1, <2>2, <2>3, <2>4, <2>5, <2>6, <2>7, <2>8, <2>9, <2>10, <2>11 DEF SessionStep
<1> QED BY <1>1, <1>2, <1>3

LEMMA PublicationStep == TypeOK /\ StoreOpen /\ [Next]_vars => (TypeOK /\ StoreOpen)'
PROOF
<1> SUFFICES ASSUME SystemOK, ReaderOK, MetOK, StoreOpen, [Next]_vars
             PROVE  SystemOK' /\ ReaderOK' /\ MetOK' /\ StoreOpen'
  BY TypeParts
<1>1. CASE RunStep /\ UNCHANGED reader /\ Observe
  BY <1>1, RunTyped, ObserveType DEF ReaderOK, reader
<1>2. CASE \E s \in Sessions : SessionStep(s)
  <2>1. UNCHANGED <<pc, store, partial>>
    BY <1>2 DEF SessionStep, Ask, Locate, Stat, Open, ReadManifest, Refuse, ReadRows,
                FindSearch, ProbeErrs, RefuseErrs, RequestErrs, Errs, Query, System, run
  <2> QED BY <1>2, <2>1, SessionTyped DEF StoreOpen
<1>3. CASE UNCHANGED vars
  BY <1>3 DEF vars, layout, stores, run, past, reader, SystemOK, LayoutOK, StoresOK, RunOK,
              ReaderOK, MetOK, StoreOpen
<1> QED BY <1>1, <1>2, <1>3 DEF Next

LEMMA TypedHolds == Spec => [](TypeOK /\ StoreOpen)
PROOF BY PublicationStep, InitTyped, PTL DEF Spec

\* Every variable has its type, at every step of every run, session and cut.
THEOREM PublicationTyped == Spec => []TypeOK
PROOF BY TypedHolds, PTL

-----------------------------------------------------------------------------
(***************************************************************************)
(* Where things are.  The theorems that follow are about systems in which  *)
(* no adoption is cut short between the moves of its components: what one  *)
(* leaves there is a layout in two places, of which they promise nothing.  *)
(***************************************************************************)

Moving == {"moveSearch", "moveVectors", "moveLog", "seal"}
AdoptionsComplete == CutPoints \cap Moving = {}

\* Which of the two layouts has what, by the state of the adoption.
Layout ==
    /\ active => sealed
    /\ pc \in AdoptionPcs => ~active
    /\ pc \in {"moveDb"} \cup Moving => ~sealed
    /\ pc = "point" => sealed
    /\ ~sealed /\ pc \notin Moving => at["adopted"] = NoDb
    /\ ~sealed /\ pc \notin Moving \ {"moveSearch"} => search["adopted"] = NoDir
    /\ ~sealed /\ pc # "seal" => log["adopted"] = NoDb
    /\ pc \in Moving => at["legacy"] = NoDb
    /\ ~active => \A s \in Sessions : dir[s] = "legacy"
    /\ sealed /\ ~active => pc = "point" \/ unpointed

\* A database is in one place.
Distinct == \A p, q \in Places : at[p] = at[q] /\ at[p] # NoDb => p = q

\* The database a run has open, or stages, and where it is meanwhile.
RunShape ==
    /\ pc \in {"idle", "adopt", "open"} \cup AdoptionPcs => store = NoDb
    /\ pc \in ImportPcs => kind = "import"
    /\ partial => kind = "event" /\ pc \in {"remove", "create", "commit", "publish"}
    /\ pc \in Kept => store = Here
    /\ pc \in ImportPcs => manifest[store] = 0 /\ rows[store] = version /\ graph[store] = version
    /\ pc \in {"withdraw", "checkpoint", "aside", "promote"} => \A p \in Places : at[p] # store
    /\ pc \in {"sidecars", "check"} => Here = store
    /\ pc = "promote" => Here = NoDb
    /\ pc = "rollback" => Here \in {NoDb, store}
    /\ pc \in {"sidecars", "check", "rollback"} => at["backup"] # store

Placed == SystemOK /\ StoreOpen /\ Layout /\ Distinct /\ RunShape

LEMMA PlacesAre == Roots \subseteq Places /\ Places = {"legacy", "adopted", "backup"}
PROOF BY DEF Roots, Places

\* Only the last step of an adoption changes the root that is resolved.
LEMMA ResolveKept ==
    ASSUME Layout, RunStep, pc # "point"
    PROVE  Resolve' = Resolve /\ Here' = at'[Resolve]
PROOF
<1>1. Resolve' = Resolve
  <2>1. CASE \E k \in Kinds : Begin(k)
    BY <2>1 DEF Begin, layout, Resolve
  <2>2. CASE Adopts
    BY <2>2 DEF Adopts, AdoptionStep, NothingToAdopt, PointAtSealed, StartAdoption, MoveDb,
                MoveSearch, MoveVectors, MoveLog, Seal, Point, layout, Resolve, Layout, AdoptionPcs
  <2>3. CASE Writes
    BY <2>3 DEF Writes, OpenStore, StageFull, StagePartial, StageNothing, ReplaceGraph,
                RemoveSearch, CreateSearch, CommitSearch, SearchBecomes, Publish, layout, Resolve
  <2>4. CASE Ends
    BY <2>4 DEF Ends, Finish, EventFails, CutShort, WatcherStops, layout, Resolve
  <2>5. CASE ImportStep
    BY <2>5 DEF ImportStep, ImportWithdraws, ImportCheckpoints, ImportMovesAside, ImportPromotes,
                RemoveSidecars, ImportOpens, ImportFails, ImportOpenFails, RollBack, RollBackFails,
                RestoreManifest, layout, Resolve
  <2> QED BY <2>1, <2>2, <2>3, <2>4, <2>5, RunSteps
<1> QED BY <1>1 DEF Here

LEMMA DistinctKept == Placed /\ RunStep => Distinct'
PROOF
<1> SUFFICES ASSUME Placed, RunStep PROVE Distinct'
  OBVIOUS
<1> USE DEF Placed
<1>0. at \in [Places -> Dbs \cup {NoDb}] /\ Resolve \in Places /\ "backup" \in Places
  BY ResolveType DEF SystemOK, LayoutOK, Places
<1>1. CASE UNCHANGED at
  BY <1>1 DEF Distinct
<1>2. CASE MoveDb
  BY <1>0, <1>2 DEF MoveDb, Distinct, Places, Roots
<1>3. CASE OpenStore
  BY <1>0, <1>3 DEF OpenStore, Unused, Distinct, Here
<1>4. CASE ImportMovesAside
  BY <1>0, <1>4, ResolveType DEF ImportMovesAside, Distinct, Here, Roots
<1>5. CASE ImportPromotes
  BY <1>0, <1>5 DEF ImportPromotes, Distinct, RunShape
<1>6. CASE ImportOpens
  BY <1>0, <1>6 DEF ImportOpens, Distinct
<1>7. CASE RollBack
  BY <1>0, <1>7, ResolveType DEF RollBack, Distinct, Roots
<1>8. CASE RollBackFails
  BY <1>0, <1>8 DEF RollBackFails, Distinct
<1>9. at' = at \/ MoveDb \/ OpenStore \/ ImportMovesAside \/ ImportPromotes
             \/ ImportOpens \/ RollBack \/ RollBackFails
  <2>1. CASE \E k \in Kinds : Begin(k)
    BY <2>1 DEF Begin, layout
  <2>2. CASE Adopts
    BY <2>2 DEF Adopts, AdoptionStep, NothingToAdopt, PointAtSealed, StartAdoption,
                MoveSearch, MoveVectors, MoveLog, Seal, Point, layout
  <2>3. CASE Writes
    BY <2>3 DEF Writes, StageFull, StagePartial, StageNothing, ReplaceGraph,
                RemoveSearch, CreateSearch, CommitSearch, SearchBecomes, Publish, layout
  <2>4. CASE Ends
    BY <2>4 DEF Ends, Finish, EventFails, CutShort, WatcherStops, layout
  <2>5. CASE ImportStep
    BY <2>5 DEF ImportStep, ImportWithdraws, ImportCheckpoints, RemoveSidecars, ImportFails, ImportOpenFails, layout,
                RestoreManifest, layout
  <2> QED BY <2>1, <2>2, <2>3, <2>4, <2>5, RunSteps
<1> QED BY <1>1, <1>2, <1>3, <1>4, <1>5, <1>6, <1>7, <1>8, <1>9

LEMMA LayoutKept == AdoptionsComplete /\ Placed /\ RunStep /\ UNCHANGED reader => Layout'
PROOF
<1> SUFFICES ASSUME AdoptionsComplete, Placed, RunStep, UNCHANGED reader PROVE Layout'
  OBVIOUS
<1> USE DEF Placed
<1>0. /\ at \in [Places -> Dbs \cup {NoDb}] /\ log \in [Roots -> Dbs \cup {NoDb}]
      /\ DOMAIN search = Roots /\ Resolve \in Places /\ "backup" \in Places
      /\ Resolve = (IF active /\ sealed THEN "adopted" ELSE "legacy") /\ dir' = dir
      /\ "adopted" \in Places /\ "adopted" \in Roots
  BY ResolveType DEF SystemOK, LayoutOK, Places, Roots, Resolve, reader
<1>1. CASE \E k \in Kinds : Begin(k)
  <2>1. pc = "idle" /\ pc' \in {"adopt", "withdraw", "open"} /\ unpointed' = unpointed
        /\ UNCHANGED layout
    BY <1>1 DEF Begin, past
  <2> QED BY <1>0, <2>1 DEF Layout, layout, AdoptionPcs, Moving
<1>2. CASE Adopts
  <2>1. unpointed' = unpointed
    BY <1>2 DEF Adopts, past
  <2>2. CASE NothingToAdopt \/ PointAtSealed \/ StartAdoption
    BY <1>0, <2>1, <2>2 DEF NothingToAdopt, PointAtSealed, StartAdoption, layout, Layout,
                            AdoptionPcs, Moving
  <2>3. CASE MoveDb \/ MoveSearch
    BY <1>0, <2>1, <2>3 DEF MoveDb, MoveSearch, Layout, AdoptionPcs, Moving, Places, Roots
  <2>4. CASE MoveVectors \/ MoveLog
    BY <1>0, <2>1, <2>4 DEF MoveVectors, MoveLog, Layout, AdoptionPcs, Moving, Roots
  <2>5. CASE Seal \/ Point
    BY <1>0, <2>1, <2>5 DEF Seal, Point, Layout, AdoptionPcs, Moving
  <2> QED BY <1>2, <2>2, <2>3, <2>4, <2>5 DEF Adopts, AdoptionStep
<1>3. CASE Writes
  <2>1. UNCHANGED <<sealed, active>> /\ pc \notin AdoptionPcs /\ pc' \notin AdoptionPcs
    BY <1>3 DEF Writes, OpenStore, StageFull, StagePartial, StageNothing, ReplaceGraph,
                RemoveSearch, CreateSearch, CommitSearch, SearchBecomes, Publish, layout,
                AdoptionPcs
  <2>2. sealed /\ ~active /\ unpointed => unpointed'
    BY <1>0, <1>3 DEF Writes, OpenStore, StageFull, StagePartial, StageNothing, ReplaceGraph,
                RemoveSearch, CreateSearch, CommitSearch, SearchBecomes, Publish, past
  <2>3. ~sealed => at'["adopted"] = at["adopted"]
    <3>1. CASE OpenStore
      BY <1>0, <3>1 DEF OpenStore
    <3>2. CASE ~OpenStore
      BY <1>3, <3>2 DEF Writes, StageFull, StagePartial, StageNothing, ReplaceGraph,
                RemoveSearch, CreateSearch, CommitSearch, SearchBecomes, Publish, layout
    <3> QED BY <3>1, <3>2
  <2>4. ~sealed => log'["adopted"] = log["adopted"]
    <3>1. CASE OpenStore
      BY <1>0, <3>1 DEF OpenStore
    <3>2. CASE ~OpenStore
      BY <1>3, <3>2 DEF Writes, StageFull, StagePartial, StageNothing, ReplaceGraph,
                RemoveSearch, CreateSearch, CommitSearch, SearchBecomes, Publish, layout
    <3> QED BY <3>1, <3>2
  <2>5. ~sealed => search'["adopted"] = search["adopted"]
    <3>1. CASE RemoveSearch \/ CreateSearch \/ CommitSearch
      BY <1>0, <3>1 DEF RemoveSearch, CreateSearch, CommitSearch, SearchBecomes
    <3>2. CASE ~(RemoveSearch \/ CreateSearch \/ CommitSearch)
      BY <1>3, <3>2 DEF Writes, OpenStore, StageFull, StagePartial, StageNothing, ReplaceGraph,
                Publish, layout
    <3> QED BY <3>1, <3>2
  <2> QED BY <1>0, <2>1, <2>2, <2>3, <2>4, <2>5 DEF Layout, AdoptionPcs, Moving
<1>4. CASE Ends
  <2>1. UNCHANGED <<at, search, sealed, active>> /\ pc' = "idle"
    BY <1>4 DEF Ends, Finish, EventFails, CutShort, WatcherStops, Release, layout
  <2>2. (unpointed => unpointed') /\ (pc = "point" => unpointed')
    <3>1. CASE CutShort
      BY <3>1 DEF CutShort
    <3>2. CASE ~CutShort
      BY <1>4, <3>2 DEF Ends, Finish, EventFails, WatcherStops, past
    <3> QED BY <3>1, <3>2
  <2>3. ~sealed => log'["adopted"] = log["adopted"]
    <3>1. CASE Finish
      BY <1>0, <3>1 DEF Finish
    <3>2. CASE ~Finish
      BY <1>4, <3>2 DEF Ends, EventFails, CutShort, WatcherStops, layout
    <3> QED BY <3>1, <3>2
  <2>4. pc \notin Moving
    BY <1>4 DEF Ends, Finish, EventFails, CutShort, WatcherStops, AdoptionsComplete, Moving
  <2> QED BY <1>0, <2>1, <2>2, <2>3, <2>4 DEF Layout, AdoptionPcs, Moving
<1>5. CASE ImportStep
  <2>1. /\ UNCHANGED <<search, sealed, active, unpointed>>
        /\ pc \notin AdoptionPcs /\ pc' \notin AdoptionPcs
    BY <1>5 DEF ImportStep, ImportWithdraws, ImportCheckpoints, ImportMovesAside, ImportPromotes,
                RemoveSidecars, ImportOpens, ImportFails, ImportOpenFails, RollBack, RollBackFails,
                RestoreManifest, Release, layout, past, AdoptionPcs
  <2>2. ~sealed => at'["adopted"] = at["adopted"]
    <3>1. CASE ImportMovesAside \/ ImportPromotes \/ ImportOpens
      BY <1>0, <3>1 DEF ImportMovesAside, ImportPromotes, ImportOpens
    <3>2. CASE RollBack \/ RollBackFails
      BY <1>0, <3>2 DEF RollBack, RollBackFails
    <3>3. CASE ImportWithdraws \/ ImportCheckpoints \/ RemoveSidecars \/ ImportFails \/ ImportOpenFails
               \/ RestoreManifest
      BY <3>3 DEF ImportWithdraws, ImportCheckpoints, RemoveSidecars, ImportFails, ImportOpenFails, layout,
                  RestoreManifest, layout
    <3> QED BY <1>5, <3>1, <3>2, <3>3 DEF ImportStep
  <2>3. ~sealed => log'["adopted"] = log["adopted"]
    <3>1. CASE ImportWithdraws \/ ImportCheckpoints
      BY <1>0, <3>1 DEF ImportWithdraws, ImportCheckpoints
    <3>2. CASE RemoveSidecars \/ ImportOpens \/ ImportFails \/ ImportOpenFails
      BY <1>0, <3>2 DEF RemoveSidecars, ImportOpens, ImportFails, ImportOpenFails, layout
    <3>3. CASE ImportMovesAside \/ ImportPromotes \/ RollBack \/ RollBackFails
               \/ RestoreManifest
      BY <3>3 DEF ImportMovesAside, ImportPromotes, RollBack, RollBackFails,
                  RestoreManifest, layout
    <3> QED BY <1>5, <3>1, <3>2, <3>3 DEF ImportStep
  <2> QED BY <1>0, <2>1, <2>2, <2>3 DEF Layout, AdoptionPcs, Moving
<1> QED BY <1>1, <1>2, <1>3, <1>4, <1>5, RunSteps

LEMMA RunShapeKept == AdoptionsComplete /\ Placed /\ RunStep => RunShape'
PROOF
<1> SUFFICES ASSUME AdoptionsComplete, Placed, RunStep PROVE RunShape'
  OBVIOUS
<1> USE DEF Placed
<1>0. /\ at \in [Places -> Dbs \cup {NoDb}]
      /\ rows \in [Dbs -> 0 .. MaxRuns] /\ graph \in [Dbs -> 0 .. MaxRuns]
      /\ manifest \in [Dbs -> 0 .. MaxRuns]
      /\ Resolve \in Places /\ "backup" \in Places /\ Resolve # "backup" /\ NoDb \notin Dbs
      /\ Here = at[Resolve]
  BY ResolveType, PublicationAssumption DEF SystemOK, LayoutOK, StoresOK, Places, Roots, Here
<1>00. pc # "point" => Resolve' = Resolve /\ Here' = at'[Resolve]
  BY ResolveKept
<1>1. CASE \E k \in Kinds : Begin(k)
  <2>1. PICK k \in Kinds : Begin(k)
    BY <1>1
  <2>2. ~partial
    BY <2>1 DEF StoreOpen, Begin, Kept
  <2>3. CASE k # "import"
    BY <1>0, <2>1, <2>2, <2>3 DEF Begin, RunShape, ImportPcs, AdoptionPcs, Kept
  <2>4. CASE k = "import"
    <3>1. /\ pc' = "withdraw" /\ kind' = "import" /\ partial' = partial /\ at' = at
          /\ store' \in Unused /\ rows'[store'] = version' /\ graph'[store'] = version'
          /\ manifest'[store'] = 0
      BY <1>0, <2>1, <2>4 DEF Begin, Unused, layout
    <3> QED BY <2>2, <3>1 DEF RunShape, ImportPcs, AdoptionPcs, Kept, Unused
  <2> QED BY <2>3, <2>4
<1>2. CASE Adopts
  <2>1. /\ pc \in {"adopt"} \cup AdoptionPcs /\ pc' \in {"open"} \cup AdoptionPcs
        /\ UNCHANGED <<store, partial>>
    BY <1>2 DEF Adopts, AdoptionStep, NothingToAdopt, PointAtSealed, StartAdoption, MoveDb,
                MoveSearch, MoveVectors, MoveLog, Seal, Point, AdoptionPcs, run
  <2> QED BY <2>1 DEF RunShape, StoreOpen, ImportPcs, AdoptionPcs, Kept
<1>3. CASE Writes
  <2>1. CASE OpenStore
    BY <1>0, <1>00, <2>1 DEF OpenStore, RunShape, ImportPcs, AdoptionPcs, Kept
  <2>2. CASE ~OpenStore
    <3>1. /\ pc \in Kept /\ pc' \in Kept /\ UNCHANGED <<at, store, kind>>
          /\ partial' => pc' \in {"remove", "create", "commit", "publish"}
             /\ (partial \/ kind = "event")
      BY <1>3, <2>2 DEF Writes, StageFull, StagePartial, StageNothing, ReplaceGraph,
                RemoveSearch, CreateSearch, CommitSearch, SearchBecomes, Publish, layout, run, Kept,
                RunShape
    <3> QED BY <1>0, <1>00, <3>1 DEF RunShape, ImportPcs, AdoptionPcs, Kept
  <2> QED BY <2>1, <2>2
<1>4. CASE Ends
  <2>1. pc' = "idle" /\ store' = NoDb /\ partial' = FALSE
    BY <1>4 DEF Ends, Finish, EventFails, CutShort, WatcherStops, Release, RunShape, StoreOpen, Kept, SystemOK, RunOK
  <2> QED BY <2>1 DEF RunShape, ImportPcs, AdoptionPcs, Kept
<1>5. CASE ImportStep
  <2>0. pc \in ImportPcs /\ store \in Dbs /\ ~partial
    BY <1>5 DEF ImportStep, ImportWithdraws, ImportCheckpoints, ImportMovesAside, ImportPromotes,
                RemoveSidecars, ImportOpens, ImportFails, ImportOpenFails, RollBack, RollBackFails,
                RestoreManifest, ImportPcs, StoreOpen, Kept
  <2>1. CASE ImportWithdraws
    BY <1>0, <1>00, <2>0, <2>1 DEF ImportWithdraws, RunShape, ImportPcs, AdoptionPcs, Kept
  <2>2. CASE ImportCheckpoints \/ RemoveSidecars
    BY <1>0, <1>00, <2>0, <2>2 DEF ImportCheckpoints, RemoveSidecars, stores, run, RunShape, ImportPcs, AdoptionPcs, Kept
  <2>3. CASE ImportMovesAside
    BY <1>0, <1>00, <2>0, <2>3 DEF ImportMovesAside, stores, run, RunShape, ImportPcs, AdoptionPcs, Kept
  <2>4. CASE ImportPromotes
    BY <1>0, <1>00, <2>0, <2>4 DEF ImportPromotes, stores, run, RunShape, ImportPcs, AdoptionPcs, Kept
  <2>5. CASE ImportOpens
    BY <1>0, <1>00, <2>0, <2>5 DEF ImportOpens, stores, run, RunShape, ImportPcs, AdoptionPcs, Kept
  <2>6. CASE ImportFails \/ ImportOpenFails
    BY <1>0, <1>00, <2>0, <2>6 DEF ImportFails, ImportOpenFails, layout, past, stores, run, RunShape, ImportPcs, AdoptionPcs, Kept
  <2>7. CASE RollBack
    BY <1>0, <1>00, <2>0, <2>7 DEF RollBack, stores, run, RunShape, ImportPcs, AdoptionPcs, Kept
  <2>8. CASE RollBackFails \/ RestoreManifest
    BY <1>0, <2>0, <2>8 DEF RollBackFails, RestoreManifest, Release, RunShape, ImportPcs, AdoptionPcs, Kept
  <2> QED BY <1>5, <2>1, <2>2, <2>3, <2>4, <2>5, <2>6, <2>7, <2>8 DEF ImportStep
<1> QED BY <1>1, <1>2, <1>3, <1>4, <1>5, RunSteps

LEMMA InitPlaced == Init => Layout /\ Distinct /\ RunShape
PROOF BY DEF Init, Layout, Distinct, RunShape, Kept, ImportPcs, AdoptionPcs, Moving, Places, Roots

\* A request changes nothing that a run has written, but for an empty search index that it
\* leaves where there was none.
LEMMA SessionFrame ==
    ASSUME NEW s \in Sessions, SessionStep(s)
    PROVE  /\ UNCHANGED <<at, log, vectors, sealed, active, pc, stores, run, torn, newest, unpointed>>
           /\ Resolve' = Resolve /\ Here' = Here
           /\ search' = search \/ Query(s)
PROOF
<1>1. CASE Query(s)
  BY <1>1 DEF Query, Resolve, Here, past
<1>2. CASE UNCHANGED System
  BY <1>2 DEF System, layout, Resolve, Here, past
<1>3. CASE Open(s)
  BY <1>3 DEF Open, layout, Resolve, Here
<1> QED BY <1>1, <1>2, <1>3 DEF SessionStep, Ask, Locate, Stat, ReadManifest, Refuse, ReadRows,
                          FindSearch, ProbeErrs, RefuseErrs, RequestErrs

\* ... and not in the layout that nothing was moved into.
LEMMA SessionSearch ==
    ASSUME NEW s \in Sessions, SystemOK, SessionStep(s), NEW p \in Roots
    PROVE  search'[p] = search[p] \/ (search[p] \in {NoIndex, NoDir} /\ dir[s] = p)
PROOF
<1>1. CASE Query(s)
  BY <1>1 DEF Query, SystemOK, LayoutOK
<1> QED BY <1>1, SessionFrame

LEMMA LayoutSession ==
    ASSUME NEW s \in Sessions, Placed, ReaderOK, SessionStep(s)
    PROVE  Layout' /\ Distinct' /\ RunShape'
PROOF
<1> USE DEF Placed
<1>1. Distinct' /\ RunShape'
  BY SessionFrame DEF Distinct, RunShape, stores, run
<1>2. ~active => \A t \in Sessions : dir'[t] = "legacy"
  BY DEF SessionStep, Ask, Locate, Stat, Open, ReadManifest, Refuse, ReadRows, FindSearch,
              ProbeErrs, RefuseErrs, RequestErrs, Errs,
         Query, System, layout, Resolve, ReaderOK, Layout
<1>3. ~active => search'["adopted"] = search["adopted"]
  BY SessionSearch DEF Layout, Roots
<1> QED BY <1>1, <1>2, <1>3, SessionFrame DEF Layout, past

-----------------------------------------------------------------------------
(***************************************************************************)
(* What is in them.                                                        *)
(***************************************************************************)

\* What a run has written of the index it will publish.
Contents ==
    /\ pc = "graph" => manifest[store] = 0 /\ rows[store] = version
    /\ pc \in {"remove", "create", "commit"} =>
          /\ rows[store] = version /\ graph[store] = version
          /\ partial \/ manifest[store] = 0
    /\ pc = "publish" =>
          /\ rows[store] = version
          /\ \/ store \in torn /\ ~partial
             \/ graph[store] = version /\ search[Resolve] = version

WholeIn(d, p, v) == rows[d] = v /\ graph[d] = v /\ search[p] = v

\* During the move of the search index it is where it was.
SearchOf(p) == IF pc = "moveSearch" THEN "legacy" ELSE p

\* PublishedWhole, of both layouts and at every step of an adoption.
Whole ==
    \A p \in Roots :
        /\ at[p] # NoDb /\ manifest[at[p]] # 0
        /\ at[p] \notin torn /\ ~(partial /\ at[p] = store)
        => WholeIn(at[p], SearchOf(p), manifest[at[p]])

\* The manifest an import may put back is that of the database it moved aside, and the
\* one published last.
Restorable == {"checkpoint", "aside", "promote", "sidecars", "check", "rollback", "restore"}
SavedDb == IF pc \in {"checkpoint", "aside", "restore"} THEN Here ELSE at["backup"]
Saved ==
    /\ pc = "withdraw" => saved = 0
    /\ pc \in Restorable /\ saved # 0 =>
        /\ SavedDb # NoDb
        /\ SavedDb \in torn \/ WholeIn(SavedDb, Resolve, saved)
        /\ unpointed \/ saved = newest
    /\ pc \in {"checkpoint", "aside"} /\ Here # NoDb => manifest[Here] = 0

\* A database that leaves the layouts has lost its manifest before.
Withdrawn ==
    /\ at["backup"] # NoDb => manifest[at["backup"]] = 0
    /\ \A s \in Sessions :
          handle[s] # NoDb /\ manifest[handle[s]] # 0 => \E p \in Roots : handle[s] = at[p]

\* PublishedIsNewestUnlessCut, of both layouts while the index is between them.
Newest ==
    \/ unpointed
    \/ \A p \in Roots :
          at[p] # NoDb /\ manifest[at[p]] # 0 /\ (p = Resolve \/ pc \in AdoptionPcs)
             => manifest[at[p]] = newest

Written == Contents /\ Whole /\ Saved /\ Withdrawn /\ Newest

LEMMA InitWritten == Init => Written
PROOF BY DEF Init, Written, Contents, Whole, Saved, Withdrawn, Newest, Restorable, Roots, Places

\* The steps that write no row, graph, search index or manifest, nor move a file.
LEMMA EndsFrame ==
    ASSUME Ends
    PROVE  /\ UNCHANGED <<at, search, sealed, active, rows, graph, newest>>
           /\ pc' = "idle" /\ Resolve' = Resolve /\ Here' = Here
PROOF BY DEF Ends, Finish, EventFails, CutShort, WatcherStops, Release, layout, stores, past,
             Resolve, Here

LEMMA AdoptsFrame ==
    ASSUME Adopts
    PROVE  /\ UNCHANGED <<stores, run, rows, graph, manifest, store, version, partial, saved,
                          torn, newest, unpointed>>
           /\ pc \in {"adopt"} \cup AdoptionPcs /\ pc' \in {"open"} \cup AdoptionPcs
PROOF BY DEF Adopts, AdoptionStep, NothingToAdopt, PointAtSealed, StartAdoption, MoveDb,
             MoveSearch, MoveVectors, MoveLog, Seal, Point, AdoptionPcs, stores, run, past

LEMMA ImportFrame ==
    ASSUME ImportStep
    PROVE  /\ UNCHANGED <<search, sealed, active, rows, graph, newest, torn, unpointed, version>>
           /\ pc \in ImportPcs /\ pc' \in {"idle", "remove"} \cup ImportPcs
           /\ Resolve' = Resolve /\ Here' = at'[Resolve]
PROOF BY DEF ImportStep, ImportWithdraws, ImportCheckpoints, ImportMovesAside, ImportPromotes,
             RemoveSidecars, ImportOpens, ImportFails, ImportOpenFails, RollBack, RollBackFails, RestoreManifest,
             Release, layout, stores, run, past, ImportPcs, Resolve, Here

LEMMA BeginFrame ==
    ASSUME NEW k \in Kinds, Begin(k), SystemOK
    PROVE  /\ UNCHANGED <<layout, at, search, sealed, active, partial, torn, newest, unpointed>>
           /\ pc = "idle" /\ pc' \in {"adopt", "withdraw", "open"} /\ saved' = 0
           /\ Resolve' = Resolve /\ Here' = Here
           /\ \A d \in Dbs : d \notin Unused =>
                 rows'[d] = rows[d] /\ graph'[d] = graph[d] /\ manifest'[d] = manifest[d]
PROOF
<1>1. \A d \in Dbs : d \notin Unused =>
         rows'[d] = rows[d] /\ graph'[d] = graph[d] /\ manifest'[d] = manifest[d]
  <2>1. CASE k = "import"
    BY <2>1 DEF Begin, SystemOK, StoresOK
  <2>2. CASE k # "import"
    BY <2>2 DEF Begin, stores
  <2> QED BY <2>1, <2>2
<1>2. /\ UNCHANGED <<layout, at, search, sealed, active, partial, torn, newest, unpointed>>
      /\ pc = "idle" /\ pc' \in {"adopt", "withdraw", "open"} /\ saved' = 0
  BY DEF Begin, layout, past
<1> QED BY <1>1, <1>2 DEF Resolve, Here

LEMMA ContentsKept == Placed /\ Written /\ RunStep => Contents'
PROOF
<1> SUFFICES ASSUME Placed, Written, RunStep PROVE Contents'
  OBVIOUS
<1> USE DEF Placed, Written
<1>0. /\ rows \in [Dbs -> 0 .. MaxRuns] /\ graph \in [Dbs -> 0 .. MaxRuns]
      /\ manifest \in [Dbs -> 0 .. MaxRuns] /\ DOMAIN search = Roots
      /\ Resolve \in Roots /\ Here = at[Resolve] /\ NoDb \notin Dbs
  BY ResolveType, PublicationAssumption DEF SystemOK, LayoutOK, StoresOK, Here
<1>00. pc # "point" => Resolve' = Resolve
  BY ResolveKept
<1>1. CASE pc' \notin {"graph", "remove", "create", "commit", "publish"}
  BY <1>1 DEF Contents
<1>2. CASE StageFull \/ StagePartial \/ ReplaceGraph
  <2>1. store \in Dbs
    BY <1>2 DEF StageFull, StagePartial, ReplaceGraph, StoreOpen, Kept
  <2> QED BY <1>0, <1>2, <2>1 DEF StageFull, StagePartial, ReplaceGraph, run, Contents
<1>3. CASE StageNothing
  <2>1. /\ store \in Dbs /\ store = at[Resolve] /\ manifest[store] # 0 /\ ~partial
        /\ SearchOf(Resolve) = Resolve
    BY <1>0, <1>3 DEF StageNothing, StoreOpen, Kept, RunShape, SearchOf
  <2>2. store \in torn \/ WholeIn(store, Resolve, manifest[store])
    BY <1>0, <2>1 DEF Whole
  <2>3. /\ pc' = "publish" /\ version' = rows[store] /\ UNCHANGED <<search, stores, store, partial, torn>>
        /\ Resolve' = Resolve
    BY <1>3, <1>00 DEF StageNothing, layout, past
  <2> QED BY <2>1, <2>2, <2>3 DEF Contents, WholeIn, stores
<1>4. CASE RemoveSearch \/ CreateSearch \/ CommitSearch
  BY <1>0, <1>00, <1>4 DEF RemoveSearch, CreateSearch, CommitSearch, SearchBecomes, Contents,
                           stores, run, past
<1>5. CASE ImportOpens
  BY <1>5 DEF ImportOpens, RunShape, ImportPcs, Contents, stores, run
<1>6. StageFull \/ StagePartial \/ StageNothing \/ ReplaceGraph \/ RemoveSearch \/ CreateSearch
      \/ CommitSearch \/ ImportOpens
      \/ pc' \notin {"graph", "remove", "create", "commit", "publish"}
  <2>1. CASE \E k \in Kinds : Begin(k)
    BY <2>1, BeginFrame
  <2>2. CASE Adopts
    BY <2>2, AdoptsFrame DEF AdoptionPcs
  <2>3. CASE Writes
    BY <2>3 DEF Writes, OpenStore, Publish
  <2>4. CASE Ends
    BY <2>4, EndsFrame
  <2>5. CASE ImportStep
    BY <2>5 DEF ImportStep, ImportWithdraws, ImportCheckpoints, ImportMovesAside, ImportPromotes,
                RemoveSidecars, ImportFails, ImportOpenFails, layout, RollBack, RollBackFails, RestoreManifest, Release
  <2> QED BY <2>1, <2>2, <2>3, <2>4, <2>5, RunSteps
<1> QED BY <1>1, <1>2, <1>3, <1>4, <1>5, <1>6

LEMMA WholeKept == AdoptionsComplete /\ Placed /\ Written /\ RunStep => Whole'
PROOF
<1> SUFFICES ASSUME AdoptionsComplete, Placed, Written, RunStep, NEW p \in Roots,
                    at'[p] # NoDb, manifest'[at'[p]] # 0, at'[p] \notin torn',
                    ~(partial' /\ at'[p] = store')
             PROVE  WholeIn(at[p], SearchOf(p), manifest[at[p]])'
  BY DEF Whole, WholeIn, SearchOf
<1> USE DEF Placed, Written
<1>0. /\ rows \in [Dbs -> 0 .. MaxRuns] /\ graph \in [Dbs -> 0 .. MaxRuns]
      /\ manifest \in [Dbs -> 0 .. MaxRuns] /\ DOMAIN search = Roots
      /\ at \in [Places -> Dbs \cup {NoDb}]
      /\ Resolve \in Roots /\ Here = at[Resolve] /\ NoDb \notin Dbs /\ p \in Places
  BY ResolveType, PublicationAssumption, PlacesAre DEF SystemOK, LayoutOK, StoresOK, Here
<1>1. CASE \E k \in Kinds : Begin(k)
  <2>1. PICK k \in Kinds : Begin(k)
    BY <1>1
  <2>2. at'[p] = at[p] /\ at[p] \in Dbs /\ at[p] \notin Unused /\ ~partial
    BY <1>0, <2>1, BeginFrame DEF Unused, StoreOpen, Kept
  <2> QED BY <1>0, <2>1, <2>2, BeginFrame DEF Whole, WholeIn, SearchOf
<1>2. CASE Adopts
  <2>0. UNCHANGED <<rows, graph, manifest, store, partial, torn>> /\ ~partial
    BY <1>2, AdoptsFrame DEF StoreOpen, Kept, AdoptionPcs
  <2>1. CASE MoveDb
    BY <1>0, <2>0, <2>1 DEF MoveDb, Whole, WholeIn, SearchOf, Layout, Moving, Roots, Places
  <2>2. CASE MoveSearch
    BY <1>0, <2>0, <2>2 DEF MoveSearch, Whole, WholeIn, SearchOf, Layout, Moving, Roots
  <2>3. CASE ~MoveDb /\ ~MoveSearch
    <3>1. UNCHANGED <<at, search>> /\ pc # "moveSearch" /\ pc' # "moveSearch"
      BY <1>2, <2>3 DEF Adopts, AdoptionStep, NothingToAdopt, PointAtSealed, StartAdoption,
                        MoveVectors, MoveLog, Seal, Point, layout
    <3> QED BY <2>0, <3>1 DEF Whole, WholeIn, SearchOf
  <2> QED BY <2>1, <2>2, <2>3
<1>3. CASE Writes
  <2>0. pc # "moveSearch" /\ pc' # "moveSearch" /\ (pc # "open" => store \in Dbs /\ store = at[Resolve])
    BY <1>0, <1>3 DEF Writes, OpenStore, StageFull, StagePartial, StageNothing, ReplaceGraph,
                RemoveSearch, CreateSearch, CommitSearch, SearchBecomes, Publish,
                RunShape, StoreOpen, Kept
  <2>1. CASE OpenStore
    <3>1. ~partial /\ UNCHANGED <<search, torn, partial>>
      BY <2>1 DEF OpenStore, StoreOpen, Kept, past
    <3>2. CASE Here # NoDb
      BY <2>0, <2>1, <3>1, <3>2 DEF OpenStore, stores, Whole, WholeIn, SearchOf
    <3>3. CASE Here = NoDb
      <4>1. PICK d \in Unused : /\ at' = [at EXCEPT ![Resolve] = d]
                               /\ rows' = [rows EXCEPT ![d] = 0]
                               /\ graph' = [graph EXCEPT ![d] = 0]
                               /\ manifest' = [manifest EXCEPT ![d] = 0]
        BY <2>1, <3>3 DEF OpenStore
      <4>2. at'[p] = at[p] /\ at[p] # d
        BY <1>0, <4>1 DEF Unused
      <4> QED BY <1>0, <2>0, <3>1, <4>1, <4>2 DEF Whole, WholeIn, SearchOf
    <3> QED BY <3>2, <3>3
  <2>2. CASE StageFull
    BY <1>0, <2>0, <2>2 DEF StageFull, layout, run, Whole, WholeIn, SearchOf
  <2>3. CASE StagePartial
    BY <1>0, <2>0, <2>3 DEF StagePartial, layout, past, Whole, WholeIn, SearchOf
  <2>4. CASE StageNothing
    BY <1>0, <2>0, <2>4 DEF StageNothing, layout, stores, past, Whole, WholeIn, SearchOf
  <2>5. CASE ReplaceGraph
    BY <1>0, <2>0, <2>5 DEF ReplaceGraph, Contents, layout, run, past, Whole, WholeIn, SearchOf
  <2>6. CASE RemoveSearch \/ CreateSearch \/ CommitSearch
    <3>1. /\ pc \in {"remove", "create", "commit"} /\ UNCHANGED <<at, stores, run, past>>
          /\ \A q \in Roots : q # Resolve => search'[q] = search[q]
      BY <1>0, <2>6 DEF RemoveSearch, CreateSearch, CommitSearch, SearchBecomes
    <3>2. CASE p = Resolve
      BY <1>0, <2>0, <3>1, <3>2 DEF Contents, stores, run
    <3>3. CASE p # Resolve
      BY <2>0, <3>1, <3>3 DEF Whole, WholeIn, SearchOf, stores, run, past
    <3> QED BY <3>2, <3>3
  <2>7. CASE Publish
    <3>1. CASE p = Resolve
      BY <1>0, <2>0, <2>7, <3>1 DEF Publish, Contents, layout, WholeIn, SearchOf
    <3>2. CASE p # Resolve
      <4>1. at[p] # store
        BY <1>0, <2>0, <2>7, <3>2, PlacesAre DEF Publish, layout, Distinct
      <4> QED BY <1>0, <2>0, <2>7, <4>1 DEF Publish, layout, Whole, WholeIn, SearchOf
    <3> QED BY <3>1, <3>2
  <2> QED BY <1>3, <2>1, <2>2, <2>3, <2>4, <2>5, <2>6, <2>7 DEF Writes
<1>4. CASE Ends
  <2>0. pc # "moveSearch" /\ pc' # "moveSearch" /\ UNCHANGED <<at, search, rows, graph>>
    BY <1>4, EndsFrame DEF Ends, Finish, EventFails, CutShort, WatcherStops, AdoptionsComplete,
                           Moving
  <2>1. at[p] \notin torn /\ ~(partial /\ at[p] = store) /\ manifest'[at[p]] = manifest[at[p]]
    <3>1. CASE Finish \/ WatcherStops
      BY <2>0, <3>1 DEF Finish, WatcherStops, past, stores, StoreOpen, RunShape, Kept
    <3>2. CASE EventFails
      BY <1>0, <2>0, <3>2 DEF EventFails
    <3>3. CASE CutShort
      BY <1>0, <2>0, <3>3 DEF CutShort, stores
    <3> QED BY <1>4, <3>1, <3>2, <3>3 DEF Ends
  <2> QED BY <2>0, <2>1 DEF Whole, WholeIn, SearchOf
<1>5. CASE ImportStep
  <2>0. /\ pc # "moveSearch" /\ pc' # "moveSearch" /\ ~partial
        /\ UNCHANGED <<search, rows, graph, torn>>
    BY <1>5, ImportFrame DEF ImportPcs, StoreOpen, Kept
  <2>1. CASE at'[p] = at[p] /\ manifest'[at[p]] = manifest[at[p]]
    BY <2>0, <2>1 DEF Whole, WholeIn, SearchOf
  <2>2. CASE ImportWithdraws
    BY <1>0, <2>0, <2>1, <2>2 DEF ImportWithdraws
  <2>3. CASE ImportMovesAside \/ ImportOpens
    BY <1>0, <2>0, <2>1, <2>3 DEF ImportMovesAside, ImportOpens, stores, Roots, Places
  <2>7. CASE ImportPromotes
    BY <1>0, <2>0, <2>1, <2>7 DEF ImportPromotes, stores, RunShape, ImportPcs
  <2>4. CASE RollBack \/ RollBackFails
    BY <1>0, <2>0, <2>1, <2>4, PlacesAre DEF RollBack, RollBackFails, stores, Withdrawn
  <2>5. CASE RestoreManifest
    <3>1. CASE at[p] # Here
      BY <1>0, <2>1, <2>5, <3>1 DEF RestoreManifest, layout
    <3>2. CASE at[p] = Here /\ manifest' # manifest
      <4>1. p = Resolve /\ at'[p] = Here /\ Here \in Dbs /\ manifest'[Here] = saved /\ saved # 0
        BY <1>0, <2>5, <3>2, PlacesAre DEF RestoreManifest, layout, Distinct
      <4>2. WholeIn(Here, Resolve, saved)
        BY <2>0, <2>5, <4>1 DEF RestoreManifest, Saved, Restorable, SavedDb
      <4> QED BY <2>0, <4>1, <4>2 DEF WholeIn, SearchOf
    <3> QED BY <2>1, <2>5, <3>1, <3>2 DEF RestoreManifest, layout
  <2>6. CASE ImportCheckpoints \/ RemoveSidecars \/ ImportFails \/ ImportOpenFails
    BY <2>1, <2>6 DEF ImportCheckpoints, RemoveSidecars, ImportFails, ImportOpenFails, layout, stores
  <2> QED BY <1>5, <2>2, <2>3, <2>4, <2>5, <2>6, <2>7 DEF ImportStep
<1> QED BY <1>1, <1>2, <1>3, <1>4, <1>5, RunSteps

LEMMA SavedKept == Placed /\ Written /\ RunStep => Saved'
PROOF
<1> SUFFICES ASSUME Placed, Written, RunStep PROVE Saved'
  OBVIOUS
<1> USE DEF Placed, Written
<1>0. /\ manifest \in [Dbs -> 0 .. MaxRuns] /\ at \in [Places -> Dbs \cup {NoDb}]
      /\ Resolve \in Roots /\ Resolve \in Places /\ "backup" \in Places /\ Resolve # "backup"
      /\ Here = at[Resolve] /\ NoDb \notin Dbs
  BY ResolveType, PublicationAssumption DEF SystemOK, LayoutOK, StoresOK, Here, Roots, Places
<1>1. CASE pc' \notin {"withdraw"} \cup Restorable
  BY <1>1 DEF Saved, Restorable
<1>2. CASE \E k \in Kinds : Begin(k)
  BY <1>2, BeginFrame DEF Saved, Restorable
<1>3. CASE ImportStep /\ pc' \in Restorable
  <2>0. /\ UNCHANGED <<search, rows, graph, newest, torn, unpointed>>
        /\ pc \in ImportPcs /\ Resolve' = Resolve /\ Here' = at'[Resolve] /\ ~partial
        /\ store \in Dbs
    BY <1>3, ImportFrame DEF StoreOpen, Kept, ImportPcs
  <2>1. CASE ImportWithdraws
    <3>1. CASE Here = NoDb
      BY <1>0, <2>0, <2>1, <3>1 DEF ImportWithdraws, Saved
    <3>2. CASE Here # NoDb
      <4>1. manifest[Here] # 0 => Here \in torn \/ WholeIn(Here, Resolve, manifest[Here])
        BY <1>0, <2>0, <2>1, <3>2 DEF ImportWithdraws, Whole, SearchOf
      <4>2. manifest[Here] # 0 => unpointed \/ manifest[Here] = newest
        BY <1>0, <3>2 DEF Newest
      <4>3. /\ pc' = "checkpoint" /\ saved' = manifest[Here] /\ Here' = Here
            /\ manifest'[Here] = 0
        BY <1>0, <2>0, <2>1, <3>2 DEF ImportWithdraws
      <4> QED BY <2>0, <3>2, <4>1, <4>2, <4>3 DEF Saved, SavedDb, WholeIn
    <3> QED BY <3>1, <3>2
  <2>2. CASE ImportCheckpoints \/ RemoveSidecars
    BY <1>0, <2>0, <2>2 DEF ImportCheckpoints, RemoveSidecars, stores, run, Saved, SavedDb,
                            Restorable, WholeIn
  <2>3. CASE ImportMovesAside
    BY <1>0, <2>0, <2>3 DEF ImportMovesAside, stores, run, Saved, SavedDb, Restorable, WholeIn
  <2>4. CASE ImportPromotes
    BY <1>0, <2>0, <2>4 DEF ImportPromotes, stores, run, Saved, SavedDb, Restorable, WholeIn
  <2>5. CASE ImportFails \/ ImportOpenFails
    BY <1>0, <2>0, <2>5 DEF ImportFails, ImportOpenFails, layout, past, stores, run, Saved, SavedDb, Restorable, WholeIn
  <2>6. CASE RollBack
    BY <1>0, <2>0, <2>6 DEF RollBack, stores, run, Saved, SavedDb, Restorable, WholeIn
  <2> QED BY <1>3, <2>1, <2>2, <2>3, <2>4, <2>5, <2>6
          DEF ImportStep, ImportOpens, RollBackFails, RestoreManifest, Release, Restorable
<1>4. CASE ImportStep /\ pc' \notin Restorable
  BY <1>1, <1>4, ImportFrame DEF ImportPcs, Restorable, ImportStep, ImportWithdraws,
       ImportCheckpoints, ImportMovesAside, ImportPromotes, RemoveSidecars, ImportOpens,
       ImportFails, ImportOpenFails, RollBack, RollBackFails, RestoreManifest, Release
<1>5. CASE Adopts
  BY <1>1, <1>5, AdoptsFrame DEF AdoptionPcs, Restorable
<1>6. CASE Writes
  BY <1>1, <1>6 DEF Writes, OpenStore, StageFull, StagePartial, StageNothing, ReplaceGraph,
                RemoveSearch, CreateSearch, CommitSearch, SearchBecomes, Publish, Restorable
<1>7. CASE Ends
  BY <1>1, <1>7, EndsFrame DEF Restorable
<1> QED BY <1>2, <1>3, <1>4, <1>5, <1>6, <1>7, RunSteps

LEMMA WithdrawnKept == Placed /\ Written /\ RunStep /\ ReaderOK /\ UNCHANGED reader => Withdrawn'
PROOF
<1> SUFFICES ASSUME Placed, Written, RunStep, ReaderOK, UNCHANGED reader PROVE Withdrawn'
  OBVIOUS
<1> USE DEF Placed, Written
<1>0. /\ manifest \in [Dbs -> 0 .. MaxRuns] /\ at \in [Places -> Dbs \cup {NoDb}]
      /\ Resolve \in Roots /\ Resolve \in Places /\ "backup" \in Places /\ "backup" \notin Roots
      /\ Roots \subseteq Places /\ Here = at[Resolve] /\ NoDb \notin Dbs /\ handle' = handle
      /\ handle \in [Sessions -> Dbs \cup {NoDb}]
  BY ResolveType, PublicationAssumption
     DEF SystemOK, LayoutOK, StoresOK, Here, Roots, Places, ReaderOK, reader
\* A database a session has, or that is set aside, gains no manifest.
<1>1. CASE \E k \in Kinds : Begin(k)
  <2>1. PICK k \in Kinds : Begin(k)
    BY <1>1
  <2>2. /\ at["backup"] # NoDb => manifest'[at["backup"]] = manifest[at["backup"]]
        /\ \A s \in Sessions : handle[s] # NoDb => manifest'[handle[s]] = manifest[handle[s]]
    BY <1>0, <2>1, BeginFrame DEF Unused
  <2> QED BY <1>0, <2>1, <2>2, BeginFrame DEF Withdrawn
<1>2. CASE Adopts
  <2>1. manifest' = manifest
    BY <1>2, AdoptsFrame
  <2>2. CASE MoveDb
    <3>1. /\ at'["backup"] = at["backup"]
          /\ \A d \in Dbs : (\E p \in Roots : d = at[p]) => (\E p \in Roots : d = at'[p])
      BY <1>0, <2>2 DEF MoveDb, Layout, Roots, Places, AdoptionPcs
    <3> QED BY <1>0, <2>1, <3>1 DEF Withdrawn
  <2>3. CASE ~MoveDb
    BY <1>0, <1>2, <2>1, <2>3 DEF Adopts, AdoptionStep, NothingToAdopt, PointAtSealed, StartAdoption,
                      MoveSearch, MoveVectors, MoveLog, Seal, Point, layout, Withdrawn
  <2> QED BY <2>2, <2>3
<1>3. CASE Writes
  <2>1. CASE OpenStore
    <3>1. CASE Here # NoDb
      BY <1>0, <2>1, <3>1 DEF OpenStore, stores, Withdrawn
    <3>2. CASE Here = NoDb
      <4>1. PICK d \in Unused : /\ at' = [at EXCEPT ![Resolve] = d]
                               /\ manifest' = [manifest EXCEPT ![d] = 0]
        BY <2>1, <3>2 DEF OpenStore
      <4>2. d \in Dbs /\ (\A p \in Places : at[p] # d) /\ \A s \in Sessions : handle[s] # d
        BY <4>1 DEF Unused
      <4> QED BY <1>0, <3>2, <4>1, <4>2 DEF Withdrawn
    <3> QED BY <3>1, <3>2
  <2>2. CASE StageFull \/ Publish
    <3>1. at' = at /\ store = at[Resolve] /\ store \in Dbs /\ at["backup"] # store
      BY <1>0, <2>2 DEF StageFull, Publish, layout, RunShape, StoreOpen, Kept, Distinct, Roots
    <3>2. \A d \in Dbs : d # store => manifest'[d] = manifest[d]
      BY <1>0, <2>2 DEF StageFull, Publish
    <3> QED BY <1>0, <3>1, <3>2 DEF Withdrawn
  <2>3. CASE ~OpenStore /\ ~StageFull /\ ~Publish
    BY <1>0, <1>3, <2>3 DEF Writes, StagePartial, StageNothing, ReplaceGraph,
                RemoveSearch, CreateSearch, CommitSearch, SearchBecomes, layout, stores, Withdrawn
  <2> QED BY <2>1, <2>2, <2>3
<1>4. CASE Ends
  <2>1. \A d \in Dbs : manifest'[d] = manifest[d] \/ manifest'[d] = 0
    BY <1>0, <1>4 DEF Ends, Finish, EventFails, CutShort, WatcherStops, stores
  <2> QED BY <1>0, <1>4, <2>1, EndsFrame DEF Withdrawn
<1>5. CASE ImportStep
  <2>1. CASE ImportWithdraws
    BY <1>0, <2>1 DEF ImportWithdraws, Withdrawn
  <2>2. CASE ImportCheckpoints \/ RemoveSidecars \/ ImportFails \/ ImportOpenFails
    BY <1>0, <2>2 DEF ImportCheckpoints, RemoveSidecars, ImportFails, ImportOpenFails, layout, stores, Withdrawn
  <2>3. CASE ImportMovesAside
    BY <1>0, <2>3 DEF ImportMovesAside, stores, Withdrawn, Saved
  <2>4. CASE ImportPromotes
    BY <1>0, <2>4 DEF ImportPromotes, stores, Withdrawn, RunShape
  <2>5. CASE ImportOpens
    BY <1>0, <2>5 DEF ImportOpens, stores, Withdrawn
  <2>6. CASE RollBack \/ RollBackFails
    <3>1. Here # NoDb => manifest[Here] = 0
      BY <2>6 DEF RollBack, RollBackFails, RunShape, ImportPcs
    <3> QED BY <1>0, <2>6, <3>1 DEF RollBack, RollBackFails, stores, Withdrawn
  <2>7. CASE RestoreManifest
    <3>1. Here # NoDb => at["backup"] # Here
      BY <1>0 DEF Distinct
    <3>2. \A d \in Dbs : d # Here => manifest'[d] = manifest[d]
      BY <1>0, <2>7 DEF RestoreManifest
    <3> QED BY <1>0, <2>7, <3>1, <3>2 DEF RestoreManifest, layout, Withdrawn
  <2> QED BY <1>5, <2>1, <2>2, <2>3, <2>4, <2>5, <2>6, <2>7 DEF ImportStep
<1> QED BY <1>1, <1>2, <1>3, <1>4, <1>5, RunSteps

LEMMA NewestKept == AdoptionsComplete /\ Placed /\ Written /\ RunStep => Newest'
PROOF
<1> SUFFICES ASSUME AdoptionsComplete, Placed, Written, RunStep PROVE Newest'
  OBVIOUS
<1> USE DEF Placed, Written
<1>0. /\ manifest \in [Dbs -> 0 .. MaxRuns] /\ at \in [Places -> Dbs \cup {NoDb}]
      /\ Resolve \in Roots /\ "backup" \notin Roots /\ Roots \subseteq Places
      /\ Here = at[Resolve] /\ NoDb \notin Dbs
      /\ Resolve = (IF active /\ sealed THEN "adopted" ELSE "legacy")
      /\ Roots = {"legacy", "adopted"}
  BY ResolveType, PublicationAssumption
     DEF SystemOK, LayoutOK, StoresOK, Here, Roots, Places, Resolve
<1>1. CASE \E k \in Kinds : Begin(k)
  <2>1. PICK k \in Kinds : Begin(k)
    BY <1>1
  <2>2. /\ at' = at /\ Resolve' = Resolve /\ pc' \notin AdoptionPcs /\ newest' = newest
        /\ unpointed' = unpointed /\ (Here # NoDb => manifest'[Here] = manifest[Here])
    BY <1>0, <2>1, BeginFrame DEF Unused, AdoptionPcs
  <2> QED BY <1>0, <2>2 DEF Newest
<1>2. CASE Adopts
  <2>0. UNCHANGED <<manifest, newest, unpointed>>
    BY <1>2, AdoptsFrame
  <2>1. CASE NothingToAdopt \/ PointAtSealed \/ StartAdoption
    BY <1>0, <2>0, <2>1 DEF NothingToAdopt, PointAtSealed, StartAdoption, layout, Resolve, Newest,
                            Layout, AdoptionPcs, Moving
  <2>2. CASE MoveDb
    BY <1>0, <2>0, <2>2 DEF MoveDb, Places, Newest, Layout, AdoptionPcs
  <2>3. CASE MoveSearch \/ MoveVectors \/ MoveLog \/ Seal
    BY <1>0, <2>0, <2>3 DEF MoveSearch, MoveVectors, MoveLog, Seal, Newest, AdoptionPcs
  <2>4. CASE Point
    BY <1>0, <2>0, <2>4 DEF Point, Newest, AdoptionPcs
  <2> QED BY <1>2, <2>1, <2>2, <2>3, <2>4 DEF Adopts, AdoptionStep
<1>3. CASE Writes
  <2>0. pc' \notin AdoptionPcs /\ Resolve' = Resolve
    BY <1>3, ResolveKept, RunSteps DEF Writes, OpenStore, StageFull, StagePartial, StageNothing, ReplaceGraph,
                RemoveSearch, CreateSearch, CommitSearch, SearchBecomes, Publish, AdoptionPcs
  <2>1. CASE OpenStore
    BY <1>0, <2>0, <2>1 DEF OpenStore, stores, past, Newest, Unused
  <2>2. CASE StageFull
    BY <1>0, <2>0, <2>2 DEF StageFull, layout, Newest
  <2>3. CASE Publish
    <3>1. store = Here /\ store \in Dbs
      BY <2>3 DEF Publish, RunShape, StoreOpen, Kept
    <3> QED BY <1>0, <2>0, <2>3, <3>1 DEF Publish, layout, Newest
  <2>4. CASE ~OpenStore /\ ~StageFull /\ ~Publish
    BY <1>0, <1>3, <2>0, <2>4 DEF Writes, StagePartial, StageNothing, ReplaceGraph,
                RemoveSearch, CreateSearch, CommitSearch, SearchBecomes, layout, stores, past, Newest
  <2> QED BY <2>1, <2>2, <2>3, <2>4
<1>4. CASE Ends
  <2>1. \A d \in Dbs : manifest'[d] = manifest[d] \/ manifest'[d] = 0
    BY <1>0, <1>4 DEF Ends, Finish, EventFails, CutShort, WatcherStops, stores
  <2>2. (unpointed => unpointed')
    BY <1>4 DEF Ends, Finish, EventFails, CutShort, WatcherStops, past
  <2> QED BY <1>0, <1>4, <2>1, <2>2, EndsFrame DEF Newest, AdoptionPcs
<1>5. CASE ImportStep
  <2>0. /\ UNCHANGED <<newest, torn, unpointed>> /\ Resolve' = Resolve
        /\ pc \in ImportPcs /\ pc' \notin AdoptionPcs
    BY <1>5, ImportFrame DEF ImportPcs, AdoptionPcs
  <2>1. CASE ImportWithdraws
    BY <1>0, <2>0, <2>1 DEF ImportWithdraws, Newest
  <2>2. CASE ImportCheckpoints \/ RemoveSidecars \/ ImportFails \/ ImportOpenFails
    BY <1>0, <2>0, <2>2 DEF ImportCheckpoints, RemoveSidecars, ImportFails, ImportOpenFails, layout, stores, Newest
  <2>3. CASE ImportMovesAside \/ ImportOpens
    BY <1>0, <2>0, <2>3 DEF ImportMovesAside, ImportOpens, stores, Newest, Places
  <2>4. CASE ImportPromotes
    BY <1>0, <2>0, <2>4 DEF ImportPromotes, stores, Newest, RunShape
  <2>5. CASE RollBack \/ RollBackFails
    BY <1>0, <2>0, <2>5 DEF RollBack, RollBackFails, stores, Newest, Withdrawn
  <2>6. CASE RestoreManifest
    BY <1>0, <2>0, <2>6 DEF RestoreManifest, layout, Newest, Saved, Restorable
  <2> QED BY <1>5, <2>1, <2>2, <2>3, <2>4, <2>5, <2>6 DEF ImportStep
<1> QED BY <1>1, <1>2, <1>3, <1>4, <1>5, RunSteps

\* Requests keep all that.
LEMMA WrittenSession ==
    ASSUME NEW s \in Sessions, Placed, Written, ReaderOK, SessionStep(s)
    PROVE  Written'
PROOF
<1> USE DEF Placed, Written
<1>0. /\ manifest \in [Dbs -> 0 .. MaxRuns] /\ rows \in [Dbs -> 0 .. MaxRuns]
      /\ at \in [Places -> Dbs \cup {NoDb}] /\ version \in 0 .. MaxRuns /\ saved \in 0 .. MaxRuns
      /\ Resolve \in Roots /\ NoDb \notin Dbs /\ Roots \subseteq Places /\ "legacy" \in Roots
  BY ResolveType, PublicationAssumption, PlacesAre
     DEF SystemOK, LayoutOK, StoresOK, RunOK, Roots
<1>1. \A p \in Roots, v \in 0 .. MaxRuns : search[p] = v => search'[p] = v
  BY SessionSearch, PublicationAssumption
<1>2. /\ UNCHANGED <<at, pc, rows, graph, manifest, store, version, saved, partial, torn, newest,
                     unpointed>>
      /\ Resolve' = Resolve /\ Here' = Here
  BY SessionFrame DEF stores, run, past
<1>3. Contents'
  BY <1>0, <1>1, <1>2 DEF Contents
<1>4. Whole'
  <2>1. ASSUME NEW p \in Roots, at[p] # NoDb
        PROVE  SearchOf(p) \in Roots /\ SearchOf(p)' = SearchOf(p) /\ manifest[at[p]] \in 0 .. MaxRuns
    BY <1>0, <1>2, <2>1 DEF SearchOf
  <2> QED BY <1>1, <1>2, <2>1 DEF Whole, WholeIn
<1>5. Saved'
  BY <1>0, <1>1, <1>2 DEF Saved, SavedDb, WholeIn
<1>6. Withdrawn'
  <2>1. \A t \in Sessions : handle'[t] # NoDb => handle'[t] = handle[t] \/ \E p \in Roots : handle'[t] = at[p]
    BY DEF SessionStep, Ask, Locate, Stat, Open, ReadManifest, Refuse, ReadRows, FindSearch,
              ProbeErrs, RefuseErrs, RequestErrs, Errs,
           Query, ReaderOK
  <2> QED BY <1>2, <2>1 DEF Withdrawn
<1>7. Newest'
  BY <1>2 DEF Newest
<1> QED BY <1>3, <1>4, <1>5, <1>6, <1>7

-----------------------------------------------------------------------------
(***************************************************************************)
(* What readers find is one index, and the newest.                         *)
(***************************************************************************)

Index == TypeOK /\ StoreOpen /\ Layout /\ Distinct /\ RunShape /\ Written

LEMMA IndexKept ==
    ASSUME AdoptionsComplete, Index, [Next]_vars
    PROVE  Index'
PROOF
<1>1. Placed /\ Written /\ ReaderOK
  BY TypeParts DEF Index, Placed
<1>2. (TypeOK /\ StoreOpen)'
  BY PublicationStep DEF Index
<1>3. CASE RunStep /\ UNCHANGED reader
  BY <1>1, <1>2, <1>3, LayoutKept, DistinctKept, RunShapeKept, ContentsKept, WholeKept, SavedKept,
     WithdrawnKept, NewestKept DEF Index, Written
<1>4. CASE \E s \in Sessions : SessionStep(s)
  BY <1>1, <1>2, <1>4, LayoutSession, WrittenSession DEF Index
<1>5. CASE UNCHANGED vars
  <2>1. UNCHANGED <<at, log, search, sealed, active, pc, rows, graph, manifest, store, version,
                    kind, saved, partial, torn, newest, unpointed, handle, dir>>
    BY <1>5 DEF vars, layout, stores, run, past, reader
  <2>2. Resolve' = Resolve /\ Here' = Here
    BY <2>1 DEF Resolve, Here
  <2>3. Layout' /\ Distinct' /\ RunShape'
    BY <1>1, <2>1, <2>2 DEF Placed, Layout, Distinct, RunShape
  <2>4. Contents' /\ Whole' /\ Saved' /\ Withdrawn' /\ Newest'
    BY <1>1, <2>1, <2>2 DEF Written, Contents, Whole, WholeIn, SearchOf, Saved, SavedDb, Withdrawn, Newest
  <2> QED BY <1>2, <2>3, <2>4 DEF Index, Written
<1> QED BY <1>3, <1>4, <1>5 DEF Next

LEMMA IndexHolds == ASSUME AdoptionsComplete PROVE Spec => []Index
PROOF
<1>1. Init => Index
  BY InitTyped, InitPlaced, InitWritten DEF Index
<1>2. Index /\ [Next]_vars => Index'
  BY IndexKept
<1> QED BY <1>1, <1>2, PTL DEF Spec

LEMMA IndexWhole ==
    ASSUME Index, ~Unpublished, ~partial, Here \notin torn
    PROVE  WholeIn(Here, Resolve, manifest[Here])
PROOF
<1>1. SearchOf(Resolve) = Resolve
  BY DEF SearchOf, Resolve, Index, Layout, AdoptionPcs
<1>2. Resolve \in Roots /\ Here = at[Resolve]
  BY ResolveType, TypeParts DEF Index, Here
<1> QED BY <1>1, <1>2 DEF Index, Written, Whole, Unpublished

LEMMA IndexFound ==
    ASSUME Index, ~unpointed, ~Orphaned, NEW d \in Dbs, manifest[d] # 0,
           d \in {at[p] : p \in Places} \cup {handle[s] : s \in Sessions},
           pc \notin AdoptionPcs
    PROVE  d = Here
PROOF
<1>1. d # NoDb
  BY PublicationAssumption
<1>2. PICK p \in Roots : d = at[p]
  BY <1>1 DEF Index, Written, Withdrawn, Places
<1>3. p = Resolve
  BY <1>1, <1>2 DEF Index, Layout, Resolve, Roots, Orphaned, AdoptionPcs, Moving
<1> QED BY <1>2, <1>3 DEF Here

\* An index that readers find is one index: its rows, its graph and its search index are of
\* the run its manifest describes, unless a watch event is between its rows and its manifest
\* or was killed there, or the database was parted from its log or opened beside another's.
THEOREM PublishedIndexIsWhole ==
    ASSUME AdoptionsComplete PROVE Spec => []PublishedWhole
PROOF
<1>1. Index => PublishedWhole
  BY IndexWhole DEF PublishedWhole, WholeIn
<1> QED BY <1>1, IndexHolds, PTL

\* A database that has a manifest, wherever it is and whoever holds it, is the one a new
\* probe finds, unless an adoption is moving it or was killed at its pointer, or it is astray.
THEOREM PublishedIndexIsFound ==
    ASSUME AdoptionsComplete PROVE Spec => []PublishedIsFound
PROOF
<1>1. Index => PublishedIsFound
  BY IndexFound DEF PublishedIsFound
<1> QED BY <1>1, IndexHolds, PTL

\* The index readers find is the last one published, unless an adoption was killed at its
\* pointer and nothing has been published in the generation since, or it is astray.
THEOREM PublishedIndexIsNewest ==
    ASSUME AdoptionsComplete PROVE Spec => []PublishedIsNewestUnlessCut
PROOF
<1>1. Index => PublishedIsNewestUnlessCut
  BY ResolveType, TypeParts DEF Index, Written, Newest, PublishedIsNewestUnlessCut, PublishedIsNewest,
     Unpublished, Here
<1> QED BY <1>1, IndexHolds, PTL

-----------------------------------------------------------------------------
(***************************************************************************)
(* The write-ahead logs.                                                   *)
(***************************************************************************)

\* A log is beside its database, or follows it into the generation; while an import has the
\* database it replaces aside, the log of that one may lie where it was.
LogsOf(p, d) == log[p] \in {NoDb, d} \cup astray
Logs ==
    /\ pc \notin Moving \cup Parted => \A p \in Roots : LogsOf(p, at[p])
    /\ pc \in Moving => LogsOf("legacy", at["adopted"])
    /\ pc = "seal" => LogsOf("legacy", NoDb) /\ LogsOf("adopted", at["adopted"])
    /\ pc \in Parted =>
          /\ LogsOf(Resolve, at["backup"])
          /\ \A p \in Roots \ {Resolve} : LogsOf(p, at[p])
    /\ pc = "check" => LogsOf(Resolve, NoDb)

\* A database is astray until its file is used again, which nobody names then.
LEMMA AstrayKept ==
    ASSUME NEW p \in Roots, SystemOK, RunStep, log[p] \in astray, log'[p] = log[p]
    PROVE  log'[p] \in astray'
PROOF
<1>1. CASE \E k \in Kinds : Begin(k)
  BY <1>1 DEF Begin, Unused
<1>2. CASE Adopts
  BY <1>2 DEF Adopts, AdoptionStep, MoveLog
<1>3. CASE Writes
  <2>1. CASE OpenStore
    BY <2>1 DEF OpenStore, OpenedBeside, Unused
  <2>2. CASE ~OpenStore
    BY <1>3, <2>2 DEF Writes, StageFull, StagePartial, StageNothing, ReplaceGraph,
                RemoveSearch, CreateSearch, CommitSearch, SearchBecomes, Publish, past
  <2> QED BY <2>1, <2>2
<1>4. CASE Ends
  BY <1>4 DEF Ends, Finish, EventFails, CutShort, WatcherStops, LeaveLog, past
<1>5. CASE ImportStep
  BY <1>5 DEF ImportStep, ImportWithdraws, ImportCheckpoints, ImportMovesAside, ImportPromotes,
              RemoveSidecars, ImportOpens, ImportFails, ImportOpenFails, RollBack,
              RollBackFails, RestoreManifest, OpenedBeside, LeaveLog, past
<1> QED BY <1>1, <1>2, <1>3, <1>4, <1>5, RunSteps

LEMMA LogsKept ==
    AdoptionsComplete /\ Placed /\ Logs /\ RunStep => Logs'
PROOF
<1> SUFFICES ASSUME AdoptionsComplete, Placed, Logs, RunStep PROVE Logs'
  OBVIOUS
<1> USE DEF Placed, LogsOf
<1>0. /\ at \in [Places -> Dbs \cup {NoDb}] /\ log \in [Roots -> Dbs \cup {NoDb}]
      /\ Resolve \in Roots /\ "backup" \notin Roots /\ Roots \subseteq Places
      /\ Here = at[Resolve] /\ NoDb \notin Dbs /\ Roots = {"legacy", "adopted"}
      /\ pc # "point" => Resolve' = Resolve
  BY ResolveType, ResolveKept, PublicationAssumption DEF SystemOK, LayoutOK, Here, Roots, Places
<1>00. \A p \in Roots : log[p] \in astray /\ log'[p] = log[p] => log'[p] \in astray'
  BY AstrayKept
<1>1. CASE \E k \in Kinds : Begin(k)
  <2>1. UNCHANGED <<at, log>> /\ pc = "idle" /\ pc' \in {"adopt", "withdraw", "open"}
    BY <1>1 DEF Begin, layout
  <2> QED BY <1>00, <2>1 DEF Logs, Moving, Parted
<1>2. CASE Adopts
  <2>0. CASE ~MoveLog
    <3>1. UNCHANGED <<log, astray>>
      BY <1>2, <2>0 DEF Adopts, AdoptionStep, NothingToAdopt, PointAtSealed, StartAdoption,
                        MoveDb, MoveSearch, MoveVectors, Seal, Point, layout
    <3>2. CASE NothingToAdopt \/ PointAtSealed \/ StartAdoption
      BY <3>1, <3>2 DEF NothingToAdopt, PointAtSealed, StartAdoption, layout, Logs, Moving, Parted
    <3>3. CASE MoveDb
      BY <1>0, <3>1, <3>3 DEF MoveDb, Places, Logs, Layout, Moving, Parted
    <3>4. CASE MoveSearch \/ MoveVectors
      BY <3>1, <3>4 DEF MoveSearch, MoveVectors, Logs, Moving, Parted
    <3>5. CASE Seal
      BY <1>0, <3>1, <3>5 DEF Seal, Logs, Layout, Moving, Parted
    <3>6. CASE Point
      BY <1>0, <3>1, <3>6 DEF Point, Logs, Moving, Parted
    <3> QED BY <1>2, <2>0, <3>2, <3>3, <3>4, <3>5, <3>6 DEF Adopts, AdoptionStep
  <2>1. CASE MoveLog
    <3>1. pc = "moveLog" /\ pc' = "seal" /\ at' = at
      BY <2>1 DEF MoveLog
    <3>2. LogsOf("legacy", at["adopted"]) /\ log["adopted"] = NoDb
      BY <3>1 DEF Logs, Layout, Moving
    <3>3. /\ log'["legacy"] \in {NoDb} \cup astray'
          /\ log'["adopted"] \in {NoDb, at["adopted"]} \cup astray'
      BY <1>0, <2>1, <3>2 DEF MoveLog
    <3> QED BY <3>1, <3>3 DEF Logs, Moving, Parted
  <2> QED BY <2>0, <2>1
<1>3. CASE Writes
  <2>1. CASE OpenStore
    <3>1. pc = "open" /\ pc' = "stage" /\ at'[Resolve] = store' /\ log'[Resolve] = store'
      BY <1>0, <2>1 DEF OpenStore
    <3>2. \A p \in Roots \ {Resolve} : at'[p] = at[p] /\ log'[p] = log[p]
      BY <1>0, <2>1 DEF OpenStore
    <3> QED BY <1>0, <1>00, <3>1, <3>2 DEF Logs, Moving, Parted
  <2>2. CASE ~OpenStore
    <3>1. /\ UNCHANGED <<at, log, astray>> /\ pc \in Kept /\ pc' \in Kept
      BY <1>3, <2>2 DEF Writes, StageFull, StagePartial, StageNothing, ReplaceGraph,
                RemoveSearch, CreateSearch, CommitSearch, SearchBecomes, Publish, layout, past, Kept
    <3> QED BY <3>1 DEF Logs, Moving, Parted, Kept
  <2> QED BY <2>1, <2>2
<1>4. CASE Ends
  <2>1. pc \notin Moving /\ pc' = "idle" /\ at' = at
    BY <1>4, EndsFrame DEF Ends, Finish, EventFails, CutShort, WatcherStops, AdoptionsComplete,
                           Moving, Release, layout
  <2>2. log' \in {log, [log EXCEPT ![Resolve] = NoDb]}
    BY <1>4 DEF Ends, Finish, EventFails, CutShort, WatcherStops, layout
  <2>3. CASE pc \in Parted
    <3>1. log' = log /\ astray' = astray \cup ({log[Resolve]} \ {NoDb})
      BY <1>4, <2>3 DEF Ends, Finish, EventFails, CutShort, WatcherStops, Parted, LeaveLog, layout
    <3> QED BY <1>0, <2>1, <2>3, <3>1 DEF Logs, Moving, Parted
  <2>4. CASE pc \notin Parted
    BY <1>0, <1>00, <2>1, <2>2, <2>4 DEF Logs, Moving, Parted
  <2> QED BY <2>3, <2>4
<1>5. CASE ImportStep
  <2>1. CASE ImportWithdraws
    <3>1. pc = "withdraw" /\ pc' = "checkpoint" /\ at' = at
          /\ log' \in {log, [log EXCEPT ![Resolve] = Here]}
      BY <2>1 DEF ImportWithdraws
    <3> QED BY <1>0, <1>00, <3>1 DEF Logs, Moving, Parted
  <2>2. CASE ImportCheckpoints
    <3>1. pc = "checkpoint" /\ pc' = "aside" /\ at' = at
          /\ log' \in {log, [log EXCEPT ![Resolve] = NoDb]}
      BY <2>2 DEF ImportCheckpoints
    <3> QED BY <1>0, <1>00, <3>1 DEF Logs, Moving, Parted
  <2>3. CASE ImportMovesAside
    <3>1. pc = "aside" /\ pc' = "promote" /\ log' = log /\ at'["backup"] = Here
          /\ \A p \in Roots \ {Resolve} : at'[p] = at[p]
      BY <1>0, <2>3 DEF ImportMovesAside, Places
    <3> QED BY <1>0, <1>00, <3>1 DEF Logs, Moving, Parted
  <2>4. CASE ImportPromotes
    <3>1. pc = "promote" /\ pc' = "sidecars" /\ log' = log
          /\ \A p \in Places \ {Resolve} : at'[p] = at[p]
      BY <1>0, <2>4 DEF ImportPromotes
    <3> QED BY <1>0, <1>00, <3>1 DEF Logs, Moving, Parted, Places
  <2>5. CASE RemoveSidecars
    <3>1. pc = "sidecars" /\ pc' = "check" /\ at' = at
          /\ log' \in {log, [log EXCEPT ![Resolve] = NoDb]}
          /\ astray' = astray \cup ({log[Resolve]} \ {NoDb})
      BY <2>5 DEF RemoveSidecars, LeaveLog
    <3> QED BY <1>0, <3>1 DEF Logs, Moving, Parted
  <2>6. CASE ImportOpens
    <3>1. pc = "check" /\ pc' = "remove" /\ at'[Resolve] = store /\ log'[Resolve] = store
          /\ \A p \in Roots \ {Resolve} : at'[p] = at[p] /\ log'[p] = log[p]
      BY <1>0, <2>6 DEF ImportOpens, RunShape
    <3> QED BY <1>0, <1>00, <3>1 DEF Logs, Moving, Parted
  <2>7. CASE ImportFails
    <3>1. UNCHANGED <<at, log>>
      BY <2>7 DEF ImportFails, layout
    <3> QED BY <1>0, <1>00, <2>7, <3>1 DEF ImportFails, Logs, Moving, Parted
  <2>8. CASE ImportOpenFails
    <3>1. pc = "check" /\ pc' = "rollback" /\ at' = at /\ Resolve' = Resolve
          /\ \A p \in Roots \ {Resolve} : log'[p] = log[p]
          /\ log'[Resolve] \in {NoDb} \cup astray'
      BY <1>0, <2>8 DEF ImportOpenFails
    <3> QED BY <1>0, <1>00, <3>1 DEF Logs, Moving, Parted
  <2>9. CASE RollBack
    <3>1. pc = "rollback" /\ pc' = "restore" /\ log' = log /\ at'[Resolve] = at["backup"]
          /\ \A p \in Roots \ {Resolve} : at'[p] = at[p]
      BY <1>0, <2>9 DEF RollBack
    <3> QED BY <1>0, <1>00, <3>1 DEF Logs, Moving, Parted
  <2>10. CASE RollBackFails
    <3>1. pc = "rollback" /\ pc' = "idle" /\ log' = log
          /\ \A p \in Roots \ {Resolve} : at'[p] = at[p]
          /\ astray' = astray \cup ({log[Resolve]} \ {NoDb})
      BY <1>0, <2>10 DEF RollBackFails, Release, LeaveLog
    <3> QED BY <1>0, <3>1 DEF Logs, Moving, Parted
  <2>11. CASE RestoreManifest
    <3>1. pc = "restore" /\ pc' = "idle" /\ UNCHANGED <<at, log>>
      BY <2>11 DEF RestoreManifest, Release, layout
    <3> QED BY <1>00, <3>1 DEF Logs, Moving, Parted
  <2> QED BY <1>5, <2>1, <2>2, <2>3, <2>4, <2>5, <2>6, <2>7, <2>8, <2>9, <2>10, <2>11
          DEF ImportStep
<1> QED BY <1>1, <1>2, <1>3, <1>4, <1>5, RunSteps

\* A request takes nothing from the set of those astray.
LEMMA LogsSession ==
    ASSUME NEW s \in Sessions, Logs, SessionStep(s)
    PROVE  Logs'
PROOF
<1>1. UNCHANGED <<at, log, pc>> /\ Resolve' = Resolve
  BY SessionFrame
<1>2. astray \subseteq astray'
  BY DEF SessionStep, Ask, Locate, Stat, Open, ReadManifest, Refuse, ReadRows, FindSearch, Query,
         ProbeErrs, RefuseErrs, RequestErrs, OpenedBeside, System, past
<1> QED BY <1>1, <1>2 DEF Logs, LogsOf

\* Between runs, a write-ahead log lies beside the database it belongs to; but for the log
\* that a reader kept an import from checkpointing, if the import was cut short or failed
\* before it was removed, and one that an adoption could not move.
THEOREM LogsStayBesideTheirDatabases ==
    ASSUME AdoptionsComplete
    PROVE  Spec => []LogBesideItsDatabase
PROOF
<1>1. Init => Logs
  BY DEF Init, Logs, LogsOf, Moving, Parted, Roots, Places
<1>2. Index /\ Logs /\ [Next]_vars => Logs'
  <2> SUFFICES ASSUME Index, Logs, [Next]_vars PROVE Logs'
    OBVIOUS
  <2>1. Placed
    BY TypeParts DEF Index, Placed
  <2>2. CASE RunStep
    BY <2>1, <2>2, LogsKept
  <2>3. CASE \E s \in Sessions : SessionStep(s)
    BY <2>3, LogsSession
  <2>4. CASE UNCHANGED vars
    BY <2>4 DEF vars, layout, past, Logs, LogsOf, Resolve
  <2> QED BY <2>2, <2>3, <2>4 DEF Next
<1>3. Logs => LogBesideItsDatabase
  BY DEF Logs, LogsOf, LogBesideItsDatabase, Moving, Parted
<1> QED BY <1>1, <1>2, <1>3, IndexHolds, PTL DEF Spec

-----------------------------------------------------------------------------
(***************************************************************************)
(* What a request is answered.                                             *)
(***************************************************************************)

\* A request has met everything that is so while it goes on.
FactsSeen ==
    \A s \in Sessions : Calling(s) /\ "error" \notin met[s] => Facts \subseteq met[s]

LEMMA FactsFrame ==
    ASSUME NEW s \in Sessions, SessionStep(s)
    PROVE  Facts' = Facts
PROOF
<1>1. UNCHANGED <<at, active, pc, manifest, partial, torn, unpointed>> /\ Here' = Here
  BY SessionFrame DEF stores, run, past
<1> QED BY <1>1 DEF Facts, Unpublished, Orphaned

\* The steps at which the system refuses a request something.
Refused(s) == ProbeErrs(s) \/ RefuseErrs(s) \/ RequestErrs(s)

\* A request that is under way keeps what it has met, but where it is refused something.
LEMMA MetStep ==
    ASSUME NEW s \in Sessions, MetOK, SessionStep(s), ~Ask(s)
    PROVE  /\ Calling(s)
           /\ met' = met \/ (Refused(s) /\ met' = [met EXCEPT ![s] = {"error"}])
PROOF
<1>1. CASE Refused(s)
  BY <1>1 DEF Refused, ProbeErrs, RefuseErrs, RequestErrs, Errs, Moves, Calling
<1>2. CASE ~Refused(s)
  BY <1>2 DEF Refused, SessionStep, Locate, Stat, Open, ReadManifest, Refuse, ReadRows,
              FindSearch, Query, Moves, Calling
<1> QED BY <1>1, <1>2

\* ... and one that begins meets what is so.
LEMMA SessionMet ==
    ASSUME NEW s \in Sessions, NEW t \in Sessions, ReaderOK, MetOK, SessionStep(s)
    PROVE  \/ met'[t] = met[t] /\ (Calling(t)' => Calling(t))
           \/ t = s /\ Ask(s) /\ met'[t] = Facts
           \/ t = s /\ met'[t] = {"error"}
PROOF
<1>1. CASE Ask(s)
  BY <1>1 DEF Ask, MetOK, ReaderOK, Calling
<1>2. CASE ~Ask(s)
  <2>1. Calling(s) /\ (met' = met \/ met' = [met EXCEPT ![s] = {"error"}])
    BY <1>2, MetStep
  <2>2. t # s => rpc'[t] = rpc[t]
    BY <1>2 DEF SessionStep, Locate, Stat, Open, ReadManifest, Refuse, ReadRows, FindSearch,
                ProbeErrs, RefuseErrs, RequestErrs, Query, Moves, ReaderOK
  <2> QED BY <2>1, <2>2 DEF Calling, MetOK
<1> QED BY <1>1, <1>2

LEMMA FactsSeenStep ==
    ASSUME ReaderOK, MetOK, FactsSeen, [Next]_vars
    PROVE  FactsSeen'
PROOF
<1>1. CASE RunStep /\ UNCHANGED reader /\ Observe
  BY <1>1 DEF FactsSeen, Observe, Calling, reader
<1>2. CASE \E s \in Sessions : SessionStep(s)
  BY <1>2, FactsFrame, SessionMet DEF FactsSeen
<1>3. CASE UNCHANGED vars
  <2>1. UNCHANGED <<at, sealed, active, pc, manifest, partial, torn, unpointed, rpc, met>>
    BY <1>3 DEF vars, layout, stores, run, past, reader
  <2>2. Facts' = Facts
    BY <2>1 DEF Facts, Unpublished, Orphaned, Here, Resolve
  <2> QED BY <2>1, <2>2 DEF FactsSeen, Calling
<1> QED BY <1>1, <1>2, <1>3 DEF Next

\* Until it has probed the lock, a request that no run has ended under is at the index a
\* probe would find, or has seen that there is none.
Raced(s) == pc # "idle" \/ met[s] \cap {"ended", "error"} # {}
Probed ==
    \A s \in Sessions :
        /\ rpc[s] \in {"stat", "open"} => Raced(s) \/ dir[s] = Resolve
        /\ rpc[s] = "manifest" => Raced(s) \/ handle[s] = Here
        /\ rpc[s] \in {"unindexed", "unservable"} => Raced(s) \/ "unindexed" \in met[s]

ProbedInv == FactsSeen /\ Probed /\ NotIndexedUnlessRaced

LEMMA ProbedRun ==
    ASSUME StoreOpen, ReaderOK, MetOK, ProbedInv, RunStep, UNCHANGED reader, Observe
    PROVE  Probed' /\ NotIndexedUnlessRaced'
PROOF
<1>0. UNCHANGED <<rpc, handle, dir, seen, answer>>
  BY DEF reader
<1>1. NotIndexedUnlessRaced'
  BY <1>0 DEF ProbedInv, NotIndexedUnlessRaced, Observe, Calling
<1>2. ASSUME NEW s \in Sessions, Calling(s)
      PROVE  /\ met[s] \subseteq met'[s]
             /\ (pc # "idle" /\ pc' = "idle" => met'[s] \cap {"ended", "error"} # {})
  BY <1>2 DEF Observe
<1>3. CASE pc # "idle" \/ pc' # "idle"
  BY <1>0, <1>1, <1>2, <1>3 DEF ProbedInv, Probed, Raced, Calling
<1>4. CASE pc = "idle" /\ pc' = "idle"
  <2>1. WatcherStops
    BY <1>4, RunSteps, AdoptsFrame, ImportFrame
       DEF Begin, Writes, OpenStore, StageFull, StagePartial, StageNothing, ReplaceGraph,
           RemoveSearch, CreateSearch, CommitSearch, SearchBecomes, Publish, Ends, Finish,
           EventFails, CutShort, AdoptionPcs, ImportPcs
  <2>2. Resolve' = Resolve /\ Here' = Here
    BY <2>1 DEF WatcherStops, layout, Resolve, Here
  <2> QED BY <1>0, <1>1, <1>2, <2>2 DEF ProbedInv, Probed, Raced, Calling
<1> QED BY <1>1, <1>3, <1>4

LEMMA ProbedSession ==
    ASSUME NEW s \in Sessions, ReaderOK, MetOK, ProbedInv, SessionStep(s)
    PROVE  Probed' /\ NotIndexedUnlessRaced'
PROOF
<1>0. pc' = pc /\ Resolve' = Resolve /\ Here' = Here
  BY SessionFrame
<1>1. ASSUME NEW t \in Sessions, t # s
      PROVE  /\ rpc'[t] = rpc[t] /\ handle'[t] = handle[t] /\ dir'[t] = dir[t]
             /\ answer'[t] = answer[t] /\ met'[t] = met[t]
  BY <1>1 DEF SessionStep, Ask, Locate, Stat, Open, ReadManifest, Refuse, ReadRows, FindSearch,
              ProbeErrs, RefuseErrs, RequestErrs, Errs,
              Query, Served, Moves, ReaderOK, MetOK
<1>2. ~Ask(s) => Calling(s) /\ (met' = met \/ (Refused(s) /\ met'[s] = {"error"}))
  BY MetStep DEF MetOK
<1>3. Calling(s) /\ Unpublished => Raced(s) \/ "unindexed" \in met[s]
  BY DEF ProbedInv, FactsSeen, Facts, Raced
<1>4. /\ rpc'[s] \in {"stat", "open"} => Raced(s)' \/ dir'[s] = Resolve
      /\ rpc'[s] = "manifest" => Raced(s)' \/ handle'[s] = Here
      /\ rpc'[s] \in {"unindexed", "unservable"} => Raced(s)' \/ "unindexed" \in met'[s]
      /\ rpc'[s] = "done" /\ answer'[s] \in {"not indexed", "unavailable"}
            => met'[s] \cap {"unindexed", "ended", "error"} # {}
  <2>1. CASE Ask(s)
    BY <2>1 DEF Ask, ReaderOK
  <2>2. CASE Locate(s)
    BY <2>2 DEF Locate, Moves, ReaderOK
  <2>3. CASE Stat(s) \/ Open(s)
    <3>1. Raced(s) \/ dir[s] = Resolve
      BY <2>3 DEF Stat, Open, Moves, ProbedInv, Probed
    <3>2. at[dir[s]] = NoDb => Raced(s) \/ "unindexed" \in met[s]
      BY <1>3, <2>3, <3>1 DEF Stat, Open, Raced, Unpublished, Here, Moves, Calling
    <3> QED BY <1>0, <2>3, <3>1, <3>2 DEF Stat, Open, Moves, Raced, Here, ReaderOK
  <2>4. CASE ReadManifest(s)
    BY <1>0, <1>3, <2>4 DEF ReadManifest, Moves, Raced, Unpublished, ReaderOK, ProbedInv, Probed, Calling
  <2>5. CASE Refuse(s)
    BY <1>0, <2>5 DEF Refuse, Moves, Raced, ReaderOK, ProbedInv, Probed
  <2>6. CASE ReadRows(s)
    BY <2>6 DEF ReadRows, Moves, ReaderOK
  <2>7. CASE FindSearch(s) \/ Query(s)
    BY <2>7 DEF FindSearch, Query, Served, Moves, ReaderOK
  <2>8. CASE Refused(s)
    <3>1. met'[s] = {"error"}
      BY <2>8 DEF Refused, ProbeErrs, RefuseErrs, RequestErrs, Errs, MetOK
    <3> QED BY <3>1 DEF Raced
  <2> QED BY <2>1, <2>2, <2>3, <2>4, <2>5, <2>6, <2>7, <2>8 DEF SessionStep, Refused
<1> QED BY <1>0, <1>1, <1>4 DEF ProbedInv, Probed, Raced, NotIndexedUnlessRaced

\* "not indexed", and "unavailable", are told only of a repository that was so at some
\* instant of the request, with no run in progress, or under which a run ended between the
\* read of the manifest and the probe of the lock, or where the system refused the request a
\* file, the lock's included; wherever an adoption is killed, too.
THEOREM NotIndexedIsTrueOrRaced == Spec => []NotIndexedUnlessRaced
PROOF
<1>1. Init => ProbedInv
  BY DEF Init, ProbedInv, FactsSeen, Probed, NotIndexedUnlessRaced, Calling
<1>2. TypeOK /\ StoreOpen /\ ProbedInv /\ [Next]_vars => ProbedInv'
  <2> SUFFICES ASSUME TypeOK, StoreOpen, ProbedInv, [Next]_vars PROVE ProbedInv'
    OBVIOUS
  <2>1. ReaderOK /\ MetOK
    BY TypeParts
  <2>2. FactsSeen'
    BY <2>1, FactsSeenStep DEF ProbedInv
  <2>3. CASE RunStep /\ UNCHANGED reader /\ Observe
    BY <2>1, <2>2, <2>3, ProbedRun DEF ProbedInv
  <2>4. CASE \E s \in Sessions : SessionStep(s)
    BY <2>1, <2>2, <2>4, ProbedSession DEF ProbedInv
  <2>5. CASE UNCHANGED vars
    <3>1. UNCHANGED <<at, sealed, active, pc, rpc, handle, dir, answer, met>>
      BY <2>5 DEF vars, layout, reader
    <3>2. Resolve' = Resolve /\ Here' = Here
      BY <3>1 DEF Resolve, Here
    <3> QED BY <2>2, <3>1, <3>2 DEF ProbedInv, Probed, Raced, NotIndexedUnlessRaced
  <2> QED BY <2>3, <2>4, <2>5 DEF Next
<1>3. ProbedInv => NotIndexedUnlessRaced
  BY DEF ProbedInv
<1> QED BY <1>1, <1>2, <1>3, TypedHolds, PTL DEF Spec

\* What a request that met no write, no event and no adoption has read so far is of one
\* index, and so is what it has still to read.
Clean(s) == met[s] \cap {"wrote", "event", "moving", "error"} = {}
ReadsOne(s) ==
    /\ rpc[s] \in {"rows", "exists", "query"} =>
          /\ seen[s].m # 0
          /\ rows[handle[s]] = seen[s].m /\ graph[handle[s]] = seen[s].m
          /\ search[Resolve] = seen[s].m
    /\ rpc[s] \in {"exists", "query"} => seen[s].r = seen[s].m /\ seen[s].g = seen[s].m
    /\ rpc[s] = "query" => dir[s] = Resolve
    /\ rpc[s] = "done" /\ answer[s] = "served" =>
          /\ seen[s].m # 0
          /\ seen[s].r = seen[s].m /\ seen[s].g = seen[s].m /\ seen[s].hits = seen[s].m
OneIndex == \A s \in Sessions : Clean(s) => ReadsOne(s)

LEMMA OneIndexRun ==
    ASSUME Placed, FactsSeen, OneIndex, RunStep, UNCHANGED reader, Observe
    PROVE  OneIndex'
PROOF
<1> SUFFICES ASSUME NEW s \in Sessions, Clean(s)' PROVE ReadsOne(s)'
  BY DEF OneIndex
<1>0. UNCHANGED <<rpc, handle, dir, seen, answer>>
  BY DEF reader
<1>1. CASE ~Calling(s)
  <2>1. met'[s] = met[s]
    BY <1>1 DEF Observe
  <2> QED BY <1>0, <1>1, <2>1 DEF OneIndex, Clean, ReadsOne, Calling
<1>2. CASE Calling(s)
  <2>0. "error" \notin met[s]
    BY DEF Clean, Observe
  <2>1. /\ met[s] \subseteq met'[s]
        /\ "wrote" \notin met'[s] => UNCHANGED <<at, rows, graph, search>>
    BY <1>2, <2>0 DEF Observe
  <2>2. "moving" \notin met[s] /\ "error" \notin met[s]
    BY <2>0, <2>1 DEF Clean
  <2>3. Resolve' = Resolve
    BY <1>2, <2>2, ResolveKept DEF FactsSeen, Facts, AdoptionPcs, Placed
  <2> QED BY <1>0, <2>1, <2>3 DEF OneIndex, Clean, ReadsOne
<1> QED BY <1>1, <1>2

\* A manifest read where nothing is under way is that of a whole index, which the search
\* index that is resolved belongs to.
LEMMA ManifestWhole ==
    ASSUME Index, NEW d \in Dbs, d \in {handle[s] : s \in Sessions}, manifest[d] # 0,
           Facts \cap {"event", "moving"} = {}
    PROVE  rows[d] = manifest[d] /\ graph[d] = manifest[d] /\ search[Resolve] = manifest[d]
PROOF
<1>1. ~partial /\ torn = {} /\ pc \notin AdoptionPcs /\ ~unpointed /\ ~Orphaned
  BY DEF Facts
<1>2. d = Here
  BY <1>1, IndexFound
<1>3. ~Unpublished
  BY <1>2, PublicationAssumption DEF Unpublished
<1> QED BY <1>1, <1>2, <1>3, IndexWhole DEF WholeIn

LEMMA OneIndexSession ==
    ASSUME NEW s \in Sessions, Index, FactsSeen, OneIndex, SessionStep(s)
    PROVE  OneIndex'
PROOF
<1>0. SystemOK /\ ReaderOK /\ MetOK
  BY TypeParts DEF Index
<1>1. /\ UNCHANGED <<at, rows, graph, manifest>> /\ Resolve' = Resolve /\ Resolve \in Roots
      /\ \A v \in 0 .. MaxRuns : search[Resolve] = v => search'[Resolve] = v
  BY <1>0, SessionFrame, SessionSearch, ResolveType, PublicationAssumption DEF stores
<1>2. ASSUME NEW t \in Sessions, t # s
      PROVE  /\ rpc'[t] = rpc[t] /\ handle'[t] = handle[t] /\ dir'[t] = dir[t]
             /\ seen'[t] = seen[t] /\ answer'[t] = answer[t] /\ met'[t] = met[t]
  BY <1>0, <1>2 DEF SessionStep, Ask, Locate, Stat, Open, ReadManifest, Refuse, ReadRows,
                    FindSearch, ProbeErrs, RefuseErrs, RequestErrs, Errs, Query, Served, Moves, ReaderOK, MetOK
<1>3. \A t \in Sessions : seen[t].m \in 0 .. MaxRuns
  BY <1>0 DEF ReaderOK, Reads
<1>4. ASSUME NEW t \in Sessions, t # s, Clean(t)' PROVE ReadsOne(t)'
  BY <1>1, <1>2, <1>3, <1>4 DEF OneIndex, Clean, ReadsOne
<1>5. Clean(s)' => ReadsOne(s)'
  <2> SUFFICES ASSUME Clean(s)' PROVE ReadsOne(s)'
    OBVIOUS
  <2>1. CASE Ask(s)
    <3>1. /\ met'[s] = Facts /\ answer'[s] = "none" /\ handle' = handle
          /\ \/ /\ handle[s] # NoDb /\ manifest[handle[s]] # 0 /\ rpc'[s] = "rows"
                /\ seen'[s] = [Nothing EXCEPT !.m = manifest[handle[s]]]
             \/ rpc'[s] = "locate"
      BY <1>0, <2>1 DEF Ask, ReaderOK, MetOK
    <3>2. CASE rpc'[s] = "locate"
      BY <3>1, <3>2 DEF ReadsOne
    <3>3. CASE rpc'[s] = "rows"
      <4>1. /\ handle[s] \in Dbs /\ manifest[handle[s]] # 0
            /\ seen'[s] = [Nothing EXCEPT !.m = manifest[handle[s]]]
        BY <1>0, <3>1, <3>3 DEF ReaderOK
      <4>2. seen'[s].m = manifest[handle[s]] /\ manifest[handle[s]] \in 0 .. MaxRuns
        BY <1>0, <4>1 DEF Nothing, SystemOK, StoresOK
      <4>3. Facts \cap {"event", "moving"} = {}
        BY <3>1 DEF Clean
      <4> QED BY <1>1, <3>1, <3>3, <4>1, <4>2, <4>3, ManifestWhole DEF ReadsOne
    <3> QED BY <3>1, <3>2, <3>3
  <2>2. CASE ~Ask(s)
    <3>0. /\ ~Refused(s) /\ met'[s] = met[s] /\ Clean(s) /\ ReadsOne(s) /\ Calling(s)
          /\ Facts \subseteq met[s]
      <4>1. Calling(s) /\ (met' = met \/ (Refused(s) /\ met' = [met EXCEPT ![s] = {"error"}]))
        BY <1>0, <2>2, MetStep
      <4>2. ~Refused(s)
        BY <1>0 DEF Refused, ProbeErrs, RefuseErrs, RequestErrs, Errs, MetOK, Clean
      <4> QED BY <4>1, <4>2 DEF Clean, OneIndex, FactsSeen
    <3>1. CASE Locate(s) \/ Stat(s) \/ Open(s)
      BY <1>0, <3>1 DEF Locate, Stat, Open, Moves, ReaderOK, ReadsOne
    <3>2. CASE Refuse(s)
      BY <1>0, <3>2 DEF Refuse, Moves, ReaderOK, ReadsOne
    <3>3. CASE ReadManifest(s)
      <4>1. CASE manifest[handle[s]] = 0
        BY <1>0, <3>3, <4>1 DEF ReadManifest, Moves, ReaderOK, ReadsOne
      <4>2. CASE manifest[handle[s]] # 0
        <5>1. /\ rpc[s] = "manifest" /\ rpc'[s] = "rows" /\ handle' = handle
              /\ seen'[s] = [seen[s] EXCEPT !.m = manifest[handle[s]]]
          BY <1>0, <3>3, <4>2 DEF ReadManifest, Moves, ReaderOK
        <5>2. handle[s] \in Dbs
          BY <1>0, <5>1 DEF ReaderOK
        <5>3. seen'[s].m = manifest[handle[s]] /\ manifest[handle[s]] \in 0 .. MaxRuns
          <6>1. seen[s] \in Reads
            BY <1>0 DEF ReaderOK
          <6>2. seen'[s].m = manifest[handle[s]]
            BY <5>1, <6>1 DEF Reads
          <6> QED BY <1>0, <5>2, <6>2 DEF SystemOK, StoresOK
        <5>4. Facts \cap {"event", "moving"} = {}
          BY <3>0 DEF Clean
        <5> QED BY <1>1, <4>2, <5>1, <5>2, <5>3, <5>4, ManifestWhole DEF ReadsOne
      <4> QED BY <4>1, <4>2
    <3>4. CASE ReadRows(s)
      <4>1. /\ rpc[s] = "rows" /\ rpc'[s] = "exists" /\ handle' = handle
            /\ seen'[s].m = seen[s].m /\ seen'[s].r = rows[handle[s]]
            /\ seen'[s].g = graph[handle[s]]
        BY <1>0, <3>4 DEF ReadRows, Moves, ReaderOK, Reads
      <4> QED BY <1>1, <1>3, <3>0, <4>1 DEF ReadsOne
    <3>5. CASE FindSearch(s)
      <4>1. search[Resolve] \notin {NoIndex, NoDir}
        BY <1>3, <3>0, <3>5, PublicationAssumption DEF FindSearch, ReadsOne
      <4>2. /\ rpc[s] = "exists" /\ rpc'[s] = "query" /\ handle' = handle /\ seen' = seen
            /\ dir'[s] = Resolve
        BY <1>0, <3>5, <4>1 DEF FindSearch, Moves, ReaderOK
      <4> QED BY <1>1, <1>3, <3>0, <4>2 DEF ReadsOne
    <3>6. CASE Query(s)
      <4>1. rpc[s] = "query" /\ rpc'[s] = "done"
        BY <1>0, <3>6 DEF Query, Moves, ReaderOK
      <4>2. dir[s] = Resolve /\ search[Resolve] = seen[s].m /\ seen[s].m \notin {NoIndex, NoDir}
        BY <1>3, <3>0, <4>1, PublicationAssumption DEF ReadsOne
      <4>3. seen' = [seen EXCEPT ![s].hits = seen[s].m]
        BY <3>6, <4>2 DEF Query, Served
      <4>4. /\ seen'[s].m = seen[s].m /\ seen'[s].r = seen[s].r /\ seen'[s].g = seen[s].g
            /\ seen'[s].hits = seen[s].m
        BY <1>0, <4>3 DEF ReaderOK, Reads
      <4> QED BY <3>0, <4>1, <4>4 DEF ReadsOne
    <3> QED BY <2>2, <3>1, <3>2, <3>3, <3>4, <3>5, <3>6, <3>0 DEF SessionStep, Refused
  <2> QED BY <2>1, <2>2
<1> QED BY <1>4, <1>5 DEF OneIndex

\* A request is answered from one index, whatever its session opened and whenever, unless a
\* run wrote during the request, a watch event was between its rows and its manifest or had
\* been killed there, an adoption was moving the files or had been killed there, or the system
\* refused it a file; nor from a database astray.
THEOREM AnswersAreOfOneIndex ==
    ASSUME AdoptionsComplete PROVE Spec => []AnswersOneIndex
PROOF
<1>1. Init => FactsSeen /\ OneIndex
  BY DEF Init, FactsSeen, OneIndex, ReadsOne, Calling
<1>2. Index /\ FactsSeen /\ OneIndex /\ [Next]_vars => FactsSeen' /\ OneIndex'
  <2> SUFFICES ASSUME Index, FactsSeen, OneIndex, [Next]_vars PROVE FactsSeen' /\ OneIndex'
    OBVIOUS
  <2>1. ReaderOK /\ MetOK /\ Placed
    BY TypeParts DEF Index, Placed
  <2>2. FactsSeen'
    BY <2>1, FactsSeenStep
  <2>3. CASE RunStep /\ UNCHANGED reader /\ Observe
    BY <2>1, <2>2, <2>3, OneIndexRun
  <2>4. CASE \E s \in Sessions : SessionStep(s)
    BY <2>2, <2>4, OneIndexSession
  <2>5. CASE UNCHANGED vars
    <3>1. UNCHANGED <<at, rows, graph, search, sealed, active, rpc, handle, dir, seen, answer, met>>
      BY <2>5 DEF vars, layout, stores, reader
    <3>2. Resolve' = Resolve
      BY <3>1 DEF Resolve
    <3> QED BY <2>2, <3>1, <3>2 DEF OneIndex, Clean, ReadsOne
  <2> QED BY <2>3, <2>4, <2>5 DEF Next
<1>3. OneIndex => AnswersOneIndex
  BY DEF OneIndex, Clean, ReadsOne, AnswersOneIndex
<1> QED BY <1>1, <1>2, <1>3, IndexHolds, PTL DEF Spec
=============================================================================
