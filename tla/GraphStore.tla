---------------------------- MODULE GraphStore -----------------------------
(***************************************************************************)
(* The rows of an index: the graph tables with their string dictionary,    *)
(* content hashes and window ranks, and the analysis facts of the files    *)
(* (open-kioku-storage-sqlite).  `ok index` replaces them; an event of     *)
(* `ok watch` replaces the rows of the changed files and reconciles the    *)
(* stored graph with the whole graph of the new scan, by id and hash.      *)
(* Versions from before the hashes and ranks may write to the same file.   *)
(* Each action is what a whole run leaves: what readers see between the    *)
(* transactions of one is in Publication.                                  *)
(***************************************************************************)
EXTENDS Integers

CONSTANTS
    Files,          \* paths (a file's id is made from its path)
    NoFile,         \* owner of a node that no file owns
    NodeIds, EdgeIds,
    NodeContents,   \* what a node stores beside its id
    EdgeContents,   \* what an edge stores beside its id: evidence, proofs, properties
    From, To,       \* the endpoints of an edge: its id hashes them
    OwnerOf,        \* the file a node belongs to, with its symbols' nodes
    PathOf,         \* the file an edge's evidence lies in
    RankOf,         \* graph_edge_window_rank of a content
    Scans           \* what a scan of the repository may find

Unranked == -1

\* A row holds one id once, as a primary key does.
Keyed(rows) == \A r, q \in rows : r.id = q.id => r = q

Ids(rows) == {r.id : r \in rows}

\* A graph ends its edges at nodes it holds, and records only what the scanned files say.
IsScan(s) ==
    /\ s.files \subseteq Files
    /\ s.nodes \subseteq [id: NodeIds, content: NodeContents]
    /\ s.edges \subseteq [id: EdgeIds, content: EdgeContents]
    /\ Keyed(s.nodes) /\ Keyed(s.edges)
    /\ \A w \in s.edges : {From[w.id], To[w.id]} \subseteq Ids(s.nodes)
    /\ s.facts \subseteq [holder: Files, target: Files, kind: {"file", "name"}]
    /\ \A f \in s.facts : f.holder \in s.files /\ (f.kind = "file" => f.target \in s.files)

ASSUME GraphStoreAssumption ==
    /\ From \in [EdgeIds -> NodeIds] /\ To \in [EdgeIds -> NodeIds]
    /\ OwnerOf \in [NodeIds -> Files \cup {NoFile}] /\ NoFile \notin Files
    /\ PathOf \in [EdgeContents -> Files]
    /\ RankOf \in [EdgeContents -> Nat]
    /\ \A s \in Scans : IsScan(s)

VARIABLES
    files,      \* the files with rows
    facts,      \* the analysis facts: what a file's code says of a file, or of a name
    nodes,      \* rows of graph_nodes
    edges,      \* rows of graph_edges
    strings,    \* the dictionary graph_strings
    ranked,     \* schema_meta records the present rank version
    discarded,  \* the edges of an older layout were dropped on open: graph_rebuild_required
    last,       \* the scan of the last run
    older,      \* an older version has updated the graph since this version last wrote it
    behind      \* an event without changed files published over the graph as it was

vars == <<files, facts, nodes, edges, strings, ranked, discarded, last, older, behind>>

\* An older version's statements name neither of the derived columns.
NodeRow(w, hash) == [id |-> w.id, content |-> w.content, hash |-> hash]
EdgeRow(w, hash, rank) ==
    [id |-> w.id, content |-> w.content, hash |-> hash, rank |-> rank]
NewEdges(new) == {EdgeRow(w, "set", RankOf[w.content]) : w \in new}
OldEdges(new) == {EdgeRow(w, "null", Unranked) : w \in new}

\* What rows hold, without the columns derived from it.
Held(rows) == {[id |-> r.id, content |-> r.content] : r \in rows}

\* The strings a row names through the dictionary.
NamesOf(r) == {From[r.id], To[r.id], PathOf[r.content]}
StringsOf(rows) == UNION {NamesOf(r) : r \in rows}

\* A file of this layout, or one of an older layout that this open has just reset.
Init ==
    /\ files = {} /\ facts = {} /\ edges = {} /\ strings = {}
    /\ last \in Scans
    /\ \/ nodes = {} /\ discarded = (last.edges # {} \/ last.nodes # {})
       \/ nodes = {NodeRow(w, "null") : w \in last.nodes} /\ discarded = TRUE
    /\ ranked = FALSE /\ older = FALSE /\ behind = FALSE

-----------------------------------------------------------------------------
\* migrate_graph_edge_window_ranks, on every open to write.  Rows can be decoded here: a damaged
\* one would keep its rank under the recorded version, and fail every read that reaches it.
OpenToWrite ==
    /\ edges' = IF ranked THEN edges ELSE {EdgeRow(r, r.hash, RankOf[r.content]) : r \in edges}
    /\ ranked' = TRUE
    /\ UNCHANGED <<files, facts, nodes, strings, discarded, last, older, behind>>

\* replace_index_rows, then replace_graph: everything is deleted and inserted.
Replace(s, present) ==
    /\ files' = s.files /\ facts' = s.facts
    /\ nodes' = {NodeRow(w, IF present THEN "set" ELSE "null") : w \in s.nodes}
    /\ edges' = IF present THEN NewEdges(s.edges) ELSE OldEdges(s.edges)
    /\ strings' = StringsOf(s.edges)
    /\ discarded' = FALSE
    /\ last' = s
    /\ older' = FALSE /\ behind' = FALSE

FullRun(s) == Replace(s, TRUE) /\ UNCHANGED ranked

-----------------------------------------------------------------------------
(* An event of the watcher: `modified` are the files whose hash changed.   *)

\* classify_file_changes, between indexes of one schema, mode and semantics.
Changed(s, modified) == modified \cup (s.files \ files)
Deleted(s)           == files \ s.files
Affected(s, modified) == Changed(s, modified) \cup Deleted(s)

\* The nodes whose rows go with their files, and the edges that go with those nodes.
OwnNodes(s, modified) == {r \in nodes : OwnerOf[r.id] \in Affected(s, modified)}
AtOwnNodes(s, modified) ==
    LET gone == Ids(OwnNodes(s, modified)) \cap strings
    IN  {r \in edges : From[r.id] \in gone \/ To[r.id] \in gone}

\* Mutant: a row without a hash is taken for unchanged.
KeptEdgesUnhashed(s, modified) ==
    {r \in edges \ AtOwnNodes(s, modified) :
        /\ PathOf[r.content] \notin Affected(s, modified) \cap strings
        /\ \/ [id |-> r.id, content |-> r.content] \in s.edges
           \/ r.id \in Ids(s.edges) /\ r.hash = "null"}

\* A row stays if the new graph has it, with what it holds: by hash, or decoded if it has
\* none.  One whose evidence is in an affected file is written again in any case.
KeptEdges(s, modified) ==
    {r \in edges \ AtOwnNodes(s, modified) :
        /\ PathOf[r.content] \notin Affected(s, modified) \cap strings
        /\ [id |-> r.id, content |-> r.content] \in s.edges}

KeptNodes(s, modified) ==
    {r \in nodes \ OwnNodes(s, modified) : [id |-> r.id, content |-> r.content] \in s.nodes}

\* Mutant: a row is new unless it is stored as it is now.
MissingByContent(new, kept) == new \ Held(kept)

\* The new graph's rows that are not stored yet.
Missing(new, kept) == {w \in new : w.id \notin Ids(kept)}

\* Mutant: only the strings of the edges that fail the comparison may be orphans.
StringsAfterForgetful(s, kept, row, modified) ==
    (strings \cup StringsOf(Missing(s.edges, kept)))
        \ (StringsOf((edges \ AtOwnNodes(s, modified)) \ kept) \ StringsOf(row))

\* Interned before the removed edges' strings are checked against the rows that stay.
StringsAfter(s, kept, row, modified) ==
    (strings \cup StringsOf(Missing(s.edges, kept)))
        \ (StringsOf(edges \ kept) \ StringsOf(row))

\* Mutant: what other files say of a deleted file stays.
FactsAfterHolders(s, modified) ==
    {f \in facts : f.holder \notin Affected(s, modified)}
    \cup {f \in s.facts : f.holder \in Changed(s, modified)}

\* A file's facts go with it, and the facts about a deleted file with that.
FactsAfter(s, modified) ==
    {f \in facts : /\ f.holder \notin Affected(s, modified)
                   /\ ~(f.kind = "file" /\ f.target \in Deleted(s))}
    \cup {f \in s.facts : f.holder \in Changed(s, modified)}

PartialRun(s, modified) ==
    /\ ~discarded
    /\ Affected(s, modified) # {}
    /\ files' = (files \ Affected(s, modified)) \cup Changed(s, modified)
    /\ facts' = FactsAfter(s, modified)
    /\ LET keptN == KeptNodes(s, modified)
           keptE == KeptEdges(s, modified)
       IN  /\ nodes' = {NodeRow(r, "set") : r \in keptN \cup Missing(s.nodes, keptN)}
           /\ edges' = {EdgeRow(r, "set", r.rank) : r \in keptE} \cup NewEdges(Missing(s.edges, keptE))
           /\ strings' = StringsAfter(s, keptE, edges', modified)
    /\ last' = s
    /\ older' = FALSE /\ behind' = FALSE
    /\ UNCHANGED <<ranked, discarded>>

\* No file changed: rows and graph stay, whatever else the scan read (the history of a commit).
UnchangedRun(s) ==
    /\ ~discarded
    /\ Affected(s, {}) = {}
    /\ last' = s
    /\ behind' = (behind \/ <<s.nodes, s.edges>> # <<last.nodes, last.edges>>)
    /\ UNCHANGED <<files, facts, nodes, edges, strings, ranked, discarded, older>>

-----------------------------------------------------------------------------
(* An earlier version writes, to its own rules.                            *)

\* Mutant: a row without a rank leaves the recorded version.
RankedAfterAlways(inserted) == ranked

\* The trigger graph_edges_unranked_insert withdraws the version.
RankedAfter(inserted) == ranked /\ inserted = {}

OldFullRun(s) ==
    /\ Replace(s, FALSE)
    /\ ranked' = RankedAfter(s.edges)

\* It kept every stored row that the new graph has an id for.
OldPartialRun(s, modified) ==
    /\ ~discarded
    /\ Affected(s, modified) # {}
    /\ files' = (files \ Affected(s, modified)) \cup Changed(s, modified)
    /\ facts' = FactsAfter(s, modified)
    /\ LET keptN == {r \in nodes \ OwnNodes(s, modified) : r.id \in Ids(s.nodes)}
           keptE == {r \in edges \ AtOwnNodes(s, modified) : r.id \in Ids(s.edges)}
       IN  /\ nodes' = keptN \cup {NodeRow(w, "null") : w \in Missing(s.nodes, keptN)}
           /\ edges' = keptE \cup OldEdges(Missing(s.edges, keptE))
           /\ strings' = StringsAfter(s, keptE, edges', modified)
           /\ ranked' = RankedAfter(Missing(s.edges, keptE))
    /\ last' = s
    /\ older' = TRUE /\ behind' = FALSE
    /\ UNCHANGED discarded

Next ==
    \/ OpenToWrite
    \/ \E s \in Scans :
         \/ FullRun(s) \/ UnchangedRun(s) \/ OldFullRun(s)
         \/ \E modified \in SUBSET (s.files \cap files) :
              PartialRun(s, modified) \/ OldPartialRun(s, modified)

Spec == Init /\ [][Next]_vars

-----------------------------------------------------------------------------
TypeOK ==
    /\ files \subseteq Files
    /\ facts \subseteq [holder: Files, target: Files, kind: {"file", "name"}]
    /\ nodes \subseteq [id: NodeIds, content: NodeContents, hash: {"set", "null"}]
    /\ edges \subseteq [id: EdgeIds, content: EdgeContents, hash: {"set", "null"}, rank: Nat \cup {Unranked}]
    /\ Keyed(nodes) /\ Keyed(edges)
    /\ strings \subseteq NodeIds \cup Files
    /\ ranked \in BOOLEAN /\ discarded \in BOOLEAN /\ older \in BOOLEAN /\ behind \in BOOLEAN
    /\ last \in Scans

Current == Held(nodes) = last.nodes /\ Held(edges) = last.edges

\* The stored graph is the one a clean rebuild of the last scan would store, node for node
\* and edge for edge, however full runs, partial updates and older writers alternated: unless
\* an older version updated it last, or an event found no file changed.
GraphIsLastScans == ~discarded /\ ~older /\ ~behind => Current

\* Bounded reads order and cut a node's edges in SQL only over ranks that are right: whoever
\* inserted rows since the version was recorded.
RanksTrusted == ranked => \A r \in edges : r.rank = RankOf[r.content]

\* Every string an edge names is in the dictionary, and no other: the updates neither break a
\* row they keep nor let the dictionary grow.
DictionaryExact == strings = StringsOf(edges)

\* No fact names, as a file, a file the index does not hold (an import's consistency check).
FactsNameIndexedFiles ==
    \A f \in facts : f.holder \in files /\ (f.kind = "file" => f.target \in files)
=============================================================================
