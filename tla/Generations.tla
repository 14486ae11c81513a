--------------------------- MODULE Generations -----------------------------
(***************************************************************************)
(* Where the components of an index are, and how `ok index` adopts the     *)
(* layout of an earlier version: it moves .ok/index.sqlite, .ok/search and *)
(* .ok/vectors one by one into the generation directory g0-legacy, seals   *)
(* the directory with generation.json and replaces the active pointer      *)
(* (open-kioku-storage/src/generations.rs).  The steps belong to the       *)
(* process that holds the write lock; `pc` is the step it is at.           *)
(***************************************************************************)
CONSTANTS
    Dbs,        \* database files, as inodes
    NoDb,       \* no file
    NoIndex,    \* a search directory without an index in it
    NoDir       \* no search directory

VARIABLES
    at,         \* at[p]: the database file that place p names
    log,        \* log[p]: the database whose write-ahead log is beside p, not checkpointed
    search,     \* search[p]: the version indexed there (0: an empty index), NoIndex or NoDir
    vectors,    \* the places that have a vector store
    sealed,     \* g0-legacy has a readable generation.json
    active,     \* the active pointer names g0-legacy
    astray,     \* databases parted from their log, or opened beside that of another
    pc          \* what the holder of the write lock does next; "idle": nobody holds it

layout == <<at, log, search, vectors, sealed, active>>

Roots == {"legacy", "adopted"}

\* An import moves the database it replaces aside, beside the layouts.
Places == Roots \cup {"backup"}

AdoptionPcs == {"moveDb", "moveSearch", "moveVectors", "moveLog", "seal", "point"}

\* The root every reader and writer goes to.
Resolve == IF active /\ sealed THEN "adopted" ELSE "legacy"

LegacyLeft == at["legacy"] # NoDb \/ search["legacy"] # NoDir \/ "legacy" \in vectors

NothingToAdopt ==
    /\ pc = "adopt"
    /\ active \/ ~LegacyLeft
    /\ pc' = "open"
    /\ UNCHANGED layout

\* An earlier adoption got as far as the seal.
PointAtSealed ==
    /\ pc = "adopt"
    /\ ~active /\ LegacyLeft /\ sealed
    /\ pc' = "point"
    /\ UNCHANGED layout

StartAdoption ==
    /\ pc = "adopt"
    /\ ~active /\ LegacyLeft /\ ~sealed
    /\ pc' = "moveDb"
    /\ UNCHANGED layout

\* A component that the directory already has is taken for moved.
MoveDb ==
    /\ pc = "moveDb"
    /\ pc' = "moveSearch"
    /\ at' = IF at["adopted"] = NoDb
             THEN [at EXCEPT !["adopted"] = at["legacy"], !["legacy"] = NoDb]
             ELSE at
    /\ UNCHANGED <<log, search, vectors, sealed, active>>

MoveSearch ==
    /\ pc = "moveSearch"
    /\ pc' = "moveVectors"
    /\ search' = IF search["adopted"] = NoDir
                 THEN [search EXCEPT !["adopted"] = search["legacy"], !["legacy"] = NoDir]
                 ELSE search
    /\ UNCHANGED <<at, log, vectors, sealed, active>>

MoveVectors ==
    /\ pc = "moveVectors"
    /\ pc' = "moveLog"
    /\ vectors' = IF "adopted" \in vectors \/ vectors = {} THEN vectors ELSE {"adopted"}
    /\ UNCHANGED <<at, log, search, sealed, active>>

\* Mutant: the write-ahead log is left behind.
MoveLogForgotten == pc = "moveLog" /\ pc' = "seal" /\ UNCHANGED <<layout, astray>>

\* The log goes where the database went, whichever database it belongs to; that it could
\* not be moved is ignored.
MoveLog ==
    /\ pc = "moveLog"
    /\ pc' = "seal"
    /\ \/ /\ log["legacy"] # NoDb
          /\ log' = [log EXCEPT !["adopted"] = log["legacy"], !["legacy"] = NoDb]
          /\ UNCHANGED astray
       \/ /\ astray' = astray \cup ({log["legacy"]} \ {NoDb})
          /\ UNCHANGED log
    /\ UNCHANGED <<at, search, vectors, sealed, active>>

Seal ==
    /\ pc = "seal"
    /\ pc' = "point"
    /\ sealed' = TRUE
    /\ UNCHANGED <<at, log, search, vectors, active>>

\* publish_generation: the pointer is replaced by a rename.
Point ==
    /\ pc = "point"
    /\ pc' = "open"
    /\ active' = TRUE
    /\ UNCHANGED <<at, log, search, vectors, sealed>>

AdoptionStep ==
    \/ /\ \/ NothingToAdopt \/ PointAtSealed \/ StartAdoption
          \/ MoveDb \/ MoveSearch \/ MoveVectors \/ Seal \/ Point
       /\ UNCHANGED astray
    \/ MoveLog
=============================================================================
