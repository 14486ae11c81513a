-------------------------- MODULE GraphStoreProofs --------------------------
(***************************************************************************)
(* Proofs about GraphStore, for any files, scans and alternation of        *)
(* versions: the invariants its run checks on seven scans.  They rest on    *)
(* what the rows of one reconciliation are (Rows..., DictionaryAfter) and   *)
(* on the primary keys, without which the rows that stay would not be those *)
(* of the new graph.                                                       *)
(***************************************************************************)
EXTENDS GraphStore, TLAPS

Fact == [holder: Files, target: Files, kind: {"file", "name"}]
Node == [id: NodeIds, content: NodeContents]
Edge == [id: EdgeIds, content: EdgeContents]
StoredNode == [id: NodeIds, content: NodeContents, hash: {"set", "null"}]
StoredEdge ==
    [id: EdgeIds, content: EdgeContents, hash: {"set", "null"}, rank: Nat \cup {Unranked}]

\* What the row constructors put in a row.
LEMMA RowFields ==
    /\ \A w, h : /\ NodeRow(w, h).id = w.id
                 /\ NodeRow(w, h).content = w.content
                 /\ NodeRow(w, h).hash = h
    /\ \A w, h, k : /\ EdgeRow(w, h, k).id = w.id
                    /\ EdgeRow(w, h, k).content = w.content
                    /\ EdgeRow(w, h, k).hash = h
                    /\ EdgeRow(w, h, k).rank = k
BY DEF NodeRow, EdgeRow

\* What they make of typed fields has the type of a stored row.
LEMMA RowTypes ==
    /\ \A w, h : w.id \in NodeIds /\ w.content \in NodeContents /\ h \in {"set", "null"}
                => NodeRow(w, h) \in StoredNode
    /\ \A w, h, k : /\ w.id \in EdgeIds /\ w.content \in EdgeContents
                    /\ h \in {"set", "null"} /\ k \in Nat \cup {Unranked}
                   => EdgeRow(w, h, k) \in StoredEdge
BY DEF NodeRow, EdgeRow, StoredNode, StoredEdge

\* Two rows made from equal fields are equal.
LEMMA RowsEqual ==
    /\ \A w, v, h : w.id = v.id /\ w.content = v.content => NodeRow(w, h) = NodeRow(v, h)
    /\ \A w, v, h, k : w.id = v.id /\ w.content = v.content => EdgeRow(w, h, k) = EdgeRow(v, h, k)
BY DEF NodeRow, EdgeRow

\* Where the rows that stay hold what the new graph does, and the rest is inserted, the rows
\* hold the new graph.
LEMMA HeldAfter ==
    ASSUME NEW new, Keyed(new), \A w \in new : w = [id |-> w.id, content |-> w.content],
           NEW kept, Held(kept) \subseteq new,
           NEW rows,
           \A r \in rows : \E v \in kept \cup Missing(new, kept) : r.id = v.id /\ r.content = v.content,
           \A v \in kept \cup Missing(new, kept) : \E r \in rows : r.id = v.id /\ r.content = v.content
    PROVE  Held(rows) = new
PROOF
<1>1. ASSUME NEW r \in rows PROVE [id |-> r.id, content |-> r.content] \in new
  <2>1. PICK v \in kept \cup Missing(new, kept) : r.id = v.id /\ r.content = v.content
    OBVIOUS
  <2>2. CASE v \in kept
    BY <2>1, <2>2 DEF Held
  <2>3. CASE v \in Missing(new, kept)
    <3>1. v \in new /\ v = [id |-> v.id, content |-> v.content]
      BY <2>3 DEF Missing
    <3> QED BY <2>1, <3>1
  <2> QED BY <2>1, <2>2, <2>3
<1>2. ASSUME NEW w \in new
      PROVE  \E r \in rows : w = [id |-> r.id, content |-> r.content]
  <2>1. \E v \in kept \cup Missing(new, kept) : w = [id |-> v.id, content |-> v.content]
    <3>1. CASE w.id \in Ids(kept)
      <4>1. PICK r \in kept : w.id = r.id
        BY <3>1 DEF Ids
      <4>2. [id |-> r.id, content |-> r.content] \in new
        BY DEF Held
      <4>3. w = [id |-> r.id, content |-> r.content]
        BY <4>1, <4>2 DEF Keyed
      <4> QED BY <4>3
    <3>2. CASE w.id \notin Ids(kept)
      BY <3>2 DEF Missing
    <3> QED BY <3>1, <3>2
  <2>2. PICK v \in kept \cup Missing(new, kept) : w = [id |-> v.id, content |-> v.content]
    BY <2>1
  <2>3. PICK r \in rows : r.id = v.id /\ r.content = v.content
    OBVIOUS
  <2> QED BY <2>2, <2>3
<1> QED BY <1>1, <1>2 DEF Held

\* The rows of a reconciliation: what was kept, and what the new graph has besides.
LEMMA RowsOfNodes ==
    ASSUME NEW new \in SUBSET Node, Keyed(new),
           NEW kept \in SUBSET StoredNode, Keyed(kept),
           NEW rows, rows = {NodeRow(r, "set") : r \in kept \cup Missing(new, kept)}
    PROVE  /\ rows \subseteq StoredNode /\ Keyed(rows)
           /\ Held(kept) \subseteq new => Held(rows) = new
PROOF
<1> DEFINE all == kept \cup Missing(new, kept)
<1>1. \A v \in all : v.id \in NodeIds /\ v.content \in NodeContents
  BY DEF Missing, Node, StoredNode
<1>2. \A v, w \in all : v.id = w.id => v.content = w.content
  BY DEF Keyed, Missing, Ids
<1>3. \A v \in all : NodeRow(v, "set") \in rows
  OBVIOUS
<1>4. \A r \in rows : \E v \in all : r = NodeRow(v, "set")
  OBVIOUS
<1> HIDE DEF all
<1>5. rows \subseteq StoredNode
  BY <1>1, <1>4, RowTypes
<1>6. Keyed(rows)
  <2>1. SUFFICES ASSUME NEW r \in rows, NEW q \in rows, r.id = q.id PROVE r = q
    BY DEF Keyed
  <2>2. PICK v \in all : r = NodeRow(v, "set")
    BY <1>4
  <2>3. PICK w \in all : q = NodeRow(w, "set")
    BY <1>4
  <2>4. v.id = w.id
    BY <2>1, <2>2, <2>3, RowFields
  <2> QED BY <1>2, <2>2, <2>3, <2>4, RowsEqual
<1>7. ASSUME Held(kept) \subseteq new PROVE Held(rows) = new
  <2>1. \A w \in new : w = [id |-> w.id, content |-> w.content]
    BY DEF Node
  <2>2. /\ \A r \in rows : \E v \in all : r.id = v.id /\ r.content = v.content
        /\ \A v \in all : \E r \in rows : r.id = v.id /\ r.content = v.content
    BY <1>3, <1>4, RowFields
  <2> QED BY <1>7, <2>1, <2>2, HeldAfter DEF all
<1> QED BY <1>5, <1>6, <1>7

\* The same of edges; their ranks are right if those of the rows that stay are.
LEMMA RowsOfEdges ==
    ASSUME NEW new \in SUBSET Edge, Keyed(new),
           NEW kept \in SUBSET StoredEdge, Keyed(kept),
           NEW rows,
           rows = {EdgeRow(r, "set", r.rank) : r \in kept} \cup NewEdges(Missing(new, kept))
    PROVE  /\ rows \subseteq StoredEdge /\ Keyed(rows)
           /\ Held(kept) \subseteq new => Held(rows) = new
           /\ (\A r \in kept : r.rank = RankOf[r.content])
                => \A r \in rows : r.rank = RankOf[r.content]
           /\ StringsOf(rows) = StringsOf(kept) \cup StringsOf(Missing(new, kept))
PROOF
<1> DEFINE come == Missing(new, kept)
           all == kept \cup come
<1>1. \A v \in all : v.id \in EdgeIds /\ v.content \in EdgeContents
  BY DEF Missing, Edge, StoredEdge
<1>2. \A v, w \in all : v.id = w.id => v = w
  BY DEF Keyed, Missing, Ids
<1>3. \A v \in kept : v.rank \in Nat \cup {Unranked}
  BY DEF StoredEdge
<1>4. \A v \in come : RankOf[v.content] \in Nat
  BY <1>1, GraphStoreAssumption
<1>5. /\ \A v \in kept : EdgeRow(v, "set", v.rank) \in rows
      /\ \A v \in come : EdgeRow(v, "set", RankOf[v.content]) \in rows
  BY DEF NewEdges
<1>6. \A r \in rows : \/ \E v \in kept : r = EdgeRow(v, "set", v.rank)
                     \/ \E v \in come : r = EdgeRow(v, "set", RankOf[v.content])
  BY DEF NewEdges
<1>7. kept \cap come = {} /\ \A v \in kept, w \in come : v.id # w.id
  BY DEF Missing, Ids
<1>8. kept \subseteq all /\ come \subseteq all
  OBVIOUS
<1> HIDE DEF come
<1>9. rows \subseteq StoredEdge
  BY <1>1, <1>3, <1>4, <1>6, <1>8, RowTypes
<1>10. Keyed(rows)
  <2>1. SUFFICES ASSUME NEW r \in rows, NEW q \in rows, r.id = q.id PROVE r = q
    BY DEF Keyed
  <2>2. CASE \E v \in kept : r = EdgeRow(v, "set", v.rank)
    <3>1. PICK v \in kept : r = EdgeRow(v, "set", v.rank)
      BY <2>2
    <3>2. \A w \in come : q # EdgeRow(w, "set", RankOf[w.content])
      BY <2>1, <3>1, <1>7, RowFields
    <3>3. PICK w \in kept : q = EdgeRow(w, "set", w.rank)
      BY <3>2, <1>6
    <3>4. v = w
      BY <1>2, <1>8, <2>1, <3>1, <3>3, RowFields
    <3> QED BY <3>1, <3>3, <3>4
  <2>3. CASE \E v \in come : r = EdgeRow(v, "set", RankOf[v.content])
    <3>1. PICK v \in come : r = EdgeRow(v, "set", RankOf[v.content])
      BY <2>3
    <3>2. \A w \in kept : q # EdgeRow(w, "set", w.rank)
      BY <2>1, <3>1, <1>7, RowFields
    <3>3. PICK w \in come : q = EdgeRow(w, "set", RankOf[w.content])
      BY <3>2, <1>6
    <3>4. v = w
      BY <1>2, <1>8, <2>1, <3>1, <3>3, RowFields
    <3> QED BY <3>1, <3>3, <3>4
  <2> QED BY <1>6, <2>2, <2>3
<1>11. /\ \A r \in rows : \E v \in all : r.id = v.id /\ r.content = v.content
       /\ \A v \in all : \E r \in rows : r.id = v.id /\ r.content = v.content
  BY <1>5, <1>6, RowFields
<1>12. ASSUME Held(kept) \subseteq new PROVE Held(rows) = new
  <2>1. \A w \in new : w = [id |-> w.id, content |-> w.content]
    BY DEF Edge
  <2> QED BY <1>11, <1>12, <2>1, HeldAfter DEF come
<1>13. ASSUME \A r \in kept : r.rank = RankOf[r.content]
       PROVE  \A r \in rows : r.rank = RankOf[r.content]
  BY <1>6, <1>13, RowFields
<1>14. StringsOf(rows) = StringsOf(kept) \cup StringsOf(come)
  <2>1. \A r, v : r.id = v.id /\ r.content = v.content => NamesOf(r) = NamesOf(v)
    BY DEF NamesOf
  <2>2. StringsOf(rows) = StringsOf(all)
    BY <1>11, <2>1 DEF StringsOf
  <2> QED BY <2>2 DEF StringsOf
<1> QED BY <1>9, <1>10, <1>12, <1>13, <1>14 DEF come

\* The dictionary after a reconciliation that keeps `kept` and inserts the missing edges.
LEMMA DictionaryAfter ==
    ASSUME NEW s, NEW modified, NEW kept \in SUBSET edges, NEW row,
           strings = StringsOf(edges),
           StringsOf(row) = StringsOf(kept) \cup StringsOf(Missing(s.edges, kept))
    PROVE  StringsAfter(s, kept, row, modified) = StringsOf(row)
PROOF
<1>1. StringsOf(edges) = StringsOf(kept) \cup StringsOf(edges \ kept)
  BY DEF StringsOf
<1> QED BY <1>1 DEF StringsAfter

-----------------------------------------------------------------------------
\* What a scan says of itself (IsScan), conjunct by conjunct.
LEMMA ScanFacts ==
    ASSUME NEW s \in Scans
    PROVE  /\ s.files \subseteq Files
           /\ s.nodes \in SUBSET Node /\ Keyed(s.nodes)
           /\ s.edges \in SUBSET Edge /\ Keyed(s.edges)
           /\ s.facts \subseteq Fact
           /\ \A f \in s.facts : f.holder \in s.files /\ (f.kind = "file" => f.target \in s.files)
BY GraphStoreAssumption DEF IsScan, Node, Edge, Fact

\* A graph written whole.
LEMMA WholeGraph ==
    ASSUME NEW s \in Scans
    PROVE  /\ \A h \in {"set", "null"} :
                LET rows == {NodeRow(w, h) : w \in s.nodes}
                IN  rows \subseteq StoredNode /\ Keyed(rows) /\ Held(rows) = s.nodes
           /\ \A rows \in {NewEdges(s.edges), OldEdges(s.edges)} :
                /\ rows \subseteq StoredEdge /\ Keyed(rows) /\ Held(rows) = s.edges
                /\ StringsOf(rows) = StringsOf(s.edges)
           /\ \A r \in NewEdges(s.edges) : r.rank = RankOf[r.content]
           /\ s.edges = {} => OldEdges(s.edges) = {}
PROOF
<1> USE ScanFacts
<1>1. Missing(s.nodes, {}) = s.nodes /\ Missing(s.edges, {}) = s.edges
  BY DEF Missing, Ids
<1>2. Held({}) = {} /\ Keyed({}) /\ StringsOf({}) = {}
  BY DEF Held, Keyed, StringsOf
<1>3. ASSUME NEW h \in {"set", "null"}, NEW rows, rows = {NodeRow(w, h) : w \in s.nodes}
      PROVE  rows \subseteq StoredNode /\ Keyed(rows) /\ Held(rows) = s.nodes
  <2>1. /\ \A w \in s.nodes : w.id \in NodeIds /\ w.content \in NodeContents
        /\ \A w \in s.nodes : w = [id |-> w.id, content |-> w.content]
    BY DEF Node
  <2>2. \A v, w \in s.nodes : v.id = w.id => v = w
    BY DEF Keyed
  <2>3. /\ \A r \in rows : \E v \in s.nodes : r = NodeRow(v, h)
        /\ \A v \in s.nodes : NodeRow(v, h) \in rows
    BY <1>3
  <2>4. rows \subseteq StoredNode
    BY <2>1, <2>3, RowTypes
  <2>5. Keyed(rows)
    BY <2>2, <2>3, RowFields DEF Keyed
  <2>6. /\ \A r \in rows : \E v \in s.nodes : r.id = v.id /\ r.content = v.content
        /\ \A v \in s.nodes : \E r \in rows : r.id = v.id /\ r.content = v.content
    BY <2>3, RowFields
  <2> QED BY <1>1, <1>2, <2>1, <2>4, <2>5, <2>6, HeldAfter
<1>4. ASSUME NEW rows,
             \/ rows = NewEdges(s.edges)
             \/ rows = OldEdges(s.edges)
      PROVE  /\ rows \subseteq StoredEdge /\ Keyed(rows) /\ Held(rows) = s.edges
             /\ StringsOf(rows) = StringsOf(s.edges)
  <2> DEFINE Row(w) == IF rows = NewEdges(s.edges) THEN EdgeRow(w, "set", RankOf[w.content])
                                                    ELSE EdgeRow(w, "null", Unranked)
  <2>1. /\ \A w \in s.edges : w.id \in EdgeIds /\ w.content \in EdgeContents
        /\ \A w \in s.edges : w = [id |-> w.id, content |-> w.content]
        /\ \A w \in s.edges : RankOf[w.content] \in Nat
    BY GraphStoreAssumption DEF Edge
  <2>2. \A v, w \in s.edges : v.id = w.id => v = w
    BY DEF Keyed
  <2>3. /\ \A r \in rows : \E v \in s.edges : r = Row(v)
        /\ \A v \in s.edges : Row(v) \in rows
    BY <1>4 DEF NewEdges, OldEdges
  <2>4. \A v \in s.edges : Row(v).id = v.id /\ Row(v).content = v.content
    BY RowFields
  <2>5. \A v \in s.edges : Row(v) \in StoredEdge
    BY <2>1, RowTypes
  <2> HIDE DEF Row
  <2>6. rows \subseteq StoredEdge
    BY <2>3, <2>5
  <2>7. Keyed(rows)
    BY <2>2, <2>3, <2>4 DEF Keyed
  <2>8. /\ \A r \in rows : \E v \in s.edges : r.id = v.id /\ r.content = v.content
        /\ \A v \in s.edges : \E r \in rows : r.id = v.id /\ r.content = v.content
    BY <2>3, <2>4
  <2>9. StringsOf(rows) = StringsOf(s.edges)
    <3>1. \A r, v : r.id = v.id /\ r.content = v.content => NamesOf(r) = NamesOf(v)
      BY DEF NamesOf
    <3> QED BY <2>8, <3>1 DEF StringsOf
  <2> QED BY <1>1, <1>2, <2>1, <2>6, <2>7, <2>8, <2>9, HeldAfter
<1>5. \A r \in NewEdges(s.edges) : r.rank = RankOf[r.content]
  BY RowFields DEF NewEdges
<1>6. s.edges = {} => OldEdges(s.edges) = {}
  BY DEF OldEdges
<1> QED BY <1>3, <1>4, <1>5, <1>6

-----------------------------------------------------------------------------
\* The parts of an action's effect that the invariants speak of.
GraphTyped == /\ nodes \subseteq StoredNode /\ Keyed(nodes)
              /\ edges \subseteq StoredEdge /\ Keyed(edges)

RowsTyped == /\ files \subseteq Files /\ facts \subseteq Fact
             /\ ranked \in BOOLEAN /\ discarded \in BOOLEAN
             /\ older \in BOOLEAN /\ behind \in BOOLEAN
             /\ last \in Scans

\* Together they are the type invariant of the run: what the dictionary holds is typed
\* because what the edges name is.
LEMMA Typed == ASSUME GraphTyped, RowsTyped, DictionaryExact PROVE TypeOK
PROOF
<1>1. StringsOf(edges) \subseteq NodeIds \cup Files
  BY GraphStoreAssumption DEF GraphTyped, StoredEdge, StringsOf, NamesOf
<1> QED BY <1>1 DEF GraphTyped, RowsTyped, DictionaryExact, TypeOK, StoredNode, StoredEdge, Fact

\* The rows of the files after a partial update, of either version.
LEMMA FilesAfter ==
    ASSUME NEW s \in Scans, NEW modified \in SUBSET (s.files \cap files),
           RowsTyped, FactsNameIndexedFiles,
           files' = (files \ Affected(s, modified)) \cup Changed(s, modified),
           facts' = FactsAfter(s, modified)
    PROVE  files' \subseteq Files /\ facts' \subseteq Fact /\ FactsNameIndexedFiles'
PROOF
<1>1. s.files \subseteq files'
  BY DEF Affected, Changed, Deleted
<1>2. files' \subseteq Files /\ facts' \subseteq Fact
  BY ScanFacts DEF RowsTyped, Affected, Changed, FactsAfter
<1>3. ASSUME NEW f \in facts'
      PROVE  f.holder \in files' /\ (f.kind = "file" => f.target \in files')
  <2>1. CASE f \in s.facts
    BY <1>1, <2>1, ScanFacts
  <2>2. CASE f \in facts /\ f.holder \notin Affected(s, modified)
                       /\ ~(f.kind = "file" /\ f.target \in Deleted(s))
    <3>1. f.holder \in files /\ (f.kind = "file" => f.target \in files)
      BY <2>2 DEF FactsNameIndexedFiles
    <3>2. f.holder \in files'
      BY <2>2, <3>1
    <3>3. f.kind = "file" => f.target \in s.files
      BY <2>2, <3>1 DEF Deleted
    <3> QED BY <1>1, <3>2, <3>3
  <2> QED BY <2>1, <2>2 DEF FactsAfter
<1> QED BY <1>2, <1>3 DEF FactsNameIndexedFiles

-----------------------------------------------------------------------------
\* A run that replaces everything.
LEMMA ReplaceLeaves ==
    ASSUME NEW s \in Scans, NEW present \in BOOLEAN, Replace(s, present), ranked' \in BOOLEAN
    PROVE  /\ GraphTyped' /\ RowsTyped' /\ Current' /\ DictionaryExact' /\ FactsNameIndexedFiles'
           /\ present => \A r \in edges' : r.rank = RankOf[r.content]
PROOF
<1> DEFINE h == IF present THEN "set" ELSE "null"
<1>1. h \in {"set", "null"}
  OBVIOUS
<1>2. nodes' \subseteq StoredNode /\ Keyed(nodes)' /\ Held(nodes') = s.nodes
  <2>1. nodes' = {NodeRow(w, h) : w \in s.nodes}
    BY DEF Replace
  <2> HIDE DEF h
  <2>2. nodes' \subseteq StoredNode /\ Keyed(nodes') /\ Held(nodes') = s.nodes
    BY <1>1, <2>1, WholeGraph
  <2> QED BY <2>2 DEF Keyed
<1>3. edges' \in {NewEdges(s.edges), OldEdges(s.edges)}
  BY DEF Replace
<1>4. /\ edges' \subseteq StoredEdge /\ Keyed(edges') /\ Held(edges') = s.edges
      /\ StringsOf(edges') = StringsOf(s.edges)
  BY <1>3, WholeGraph
<1>5. present => \A r \in edges' : r.rank = RankOf[r.content]
  BY WholeGraph DEF Replace
<1>6. RowsTyped' /\ FactsNameIndexedFiles'
  BY ScanFacts DEF Replace, RowsTyped, FactsNameIndexedFiles
<1>7. GraphTyped' /\ Current' /\ DictionaryExact'
  BY <1>2, <1>4 DEF Replace, GraphTyped, Current, DictionaryExact, Keyed, Held, StringsOf
<1> QED BY <1>5, <1>6, <1>7

\* The inductive invariant is the conjunction of what the run checks: each part needs the
\* primary keys, the dictionary those of the rows it keeps.
Inv ==
    /\ GraphTyped /\ RowsTyped
    /\ GraphIsLastScans /\ RanksTrusted /\ DictionaryExact /\ FactsNameIndexedFiles

\* A new file, and one whose edges this open dropped.
LEMMA InitInv == Init => Inv
PROOF
<1> SUFFICES ASSUME Init PROVE Inv
  OBVIOUS
<1>1. PICK h \in {"set", "null"} : nodes = {} \/ nodes = {NodeRow(w, h) : w \in last.nodes}
  BY DEF Init
<1>2. nodes \subseteq StoredNode /\ Keyed(nodes)
  <2>1. CASE nodes = {}
    BY <2>1 DEF Keyed
  <2>2. CASE nodes = {NodeRow(w, h) : w \in last.nodes}
    <3>1. last \in Scans
      BY DEF Init
    <3> QED BY <2>2, <3>1, WholeGraph
  <2> QED BY <1>1, <2>1, <2>2
<1>3. GraphTyped /\ RowsTyped
  BY <1>2 DEF Init, GraphTyped, RowsTyped, Keyed
<1>4. GraphIsLastScans
  BY DEF Init, GraphIsLastScans, Current, Held
<1>5. RanksTrusted /\ DictionaryExact /\ FactsNameIndexedFiles
  BY DEF Init, RanksTrusted, DictionaryExact, FactsNameIndexedFiles, StringsOf
<1> QED BY <1>3, <1>4, <1>5 DEF Inv

\* Ranking every row changes no id and no content.
LEMMA OpenToWriteInv == Inv /\ OpenToWrite => Inv'
PROOF
<1> SUFFICES ASSUME Inv, OpenToWrite PROVE Inv'
  OBVIOUS
<1> USE DEF Inv
<1>1. CASE ranked
  BY <1>1 DEF OpenToWrite, GraphTyped, RowsTyped, GraphIsLastScans, Current, RanksTrusted,
              DictionaryExact, FactsNameIndexedFiles
<1>2. CASE ~ranked
  <2>1. edges' = {EdgeRow(r, r.hash, RankOf[r.content]) : r \in edges}
    BY <1>2 DEF OpenToWrite
  <2>2. /\ \A r \in edges' : \E v \in edges : r = EdgeRow(v, v.hash, RankOf[v.content])
        /\ \A v \in edges : EdgeRow(v, v.hash, RankOf[v.content]) \in edges'
    BY <2>1
  <2>3. \A v \in edges : /\ v.id \in EdgeIds /\ v.content \in EdgeContents
                         /\ v.hash \in {"set", "null"} /\ RankOf[v.content] \in Nat
    BY GraphStoreAssumption DEF GraphTyped, StoredEdge
  <2>4. edges' \subseteq StoredEdge
    BY <2>2, <2>3, RowTypes
  <2>5. /\ \A r \in edges' : \E v \in edges : r.id = v.id /\ r.content = v.content
        /\ \A v \in edges : \E r \in edges' : r.id = v.id /\ r.content = v.content
    BY <2>2, RowFields
  <2>6. Keyed(edges')
    <3>1. \A v, w \in edges : v.id = w.id => v = w
      BY DEF GraphTyped, Keyed
    <3> QED BY <2>2, <3>1, RowFields DEF Keyed
  <2>7. Held(edges') = Held(edges)
    BY <2>5 DEF Held
  <2>8. StringsOf(edges') = StringsOf(edges)
    <3>1. \A r, v : r.id = v.id /\ r.content = v.content => NamesOf(r) = NamesOf(v)
      BY DEF NamesOf
    <3> QED BY <2>5, <3>1 DEF StringsOf
  <2>9. \A r \in edges' : r.rank = RankOf[r.content]
    BY <2>2, RowFields
  <2>10. /\ UNCHANGED <<files, facts, nodes, strings, discarded, last, older, behind>>
         /\ ranked' = TRUE
    BY DEF OpenToWrite
  <2>11. GraphTyped' /\ RowsTyped'
    BY <2>4, <2>6, <2>10 DEF GraphTyped, RowsTyped, Keyed
  <2>12. GraphIsLastScans'
    BY <2>7, <2>10 DEF GraphIsLastScans, Current, Held
  <2>13. RanksTrusted' /\ DictionaryExact' /\ FactsNameIndexedFiles'
    BY <2>8, <2>9, <2>10 DEF RanksTrusted, DictionaryExact, FactsNameIndexedFiles, StringsOf
  <2> QED BY <2>11, <2>12, <2>13
<1> QED BY <1>1, <1>2

\* Full runs of either version.
LEMMA FullRunInv == \A s \in Scans : Inv /\ (FullRun(s) \/ OldFullRun(s)) => Inv'
PROOF
<1> SUFFICES ASSUME NEW s \in Scans, Inv, FullRun(s) \/ OldFullRun(s) PROVE Inv'
  OBVIOUS
<1>1. CASE FullRun(s)
  <2>1. Replace(s, TRUE) /\ ranked' \in BOOLEAN
    BY <1>1 DEF FullRun, Inv, RowsTyped
  <2>2. /\ GraphTyped' /\ RowsTyped' /\ Current' /\ DictionaryExact' /\ FactsNameIndexedFiles'
        /\ \A r \in edges' : r.rank = RankOf[r.content]
    BY <2>1, ReplaceLeaves
  <2> QED BY <2>2 DEF Inv, GraphIsLastScans, RanksTrusted
<1>2. CASE OldFullRun(s)
  <2>1. Replace(s, FALSE) /\ ranked' \in BOOLEAN
    BY <1>2 DEF OldFullRun, RankedAfter, Inv, RowsTyped
  <2>2. GraphTyped' /\ RowsTyped' /\ Current' /\ DictionaryExact' /\ FactsNameIndexedFiles'
    BY <2>1, ReplaceLeaves
  <2>3. ranked' => edges' = {}
    BY <1>2, WholeGraph DEF OldFullRun, RankedAfter, Replace
  <2> QED BY <2>2, <2>3 DEF Inv, GraphIsLastScans, RanksTrusted
<1> QED BY <1>1, <1>2

\* A reconciliation by id and hash.
LEMMA PartialRunInv ==
    \A s \in Scans : \A modified \in SUBSET (s.files \cap files) :
        Inv /\ PartialRun(s, modified) => Inv'
PROOF
<1> SUFFICES ASSUME NEW s \in Scans, NEW modified \in SUBSET (s.files \cap files),
                    Inv, PartialRun(s, modified)
             PROVE  Inv'
  OBVIOUS
<1> DEFINE keptN == KeptNodes(s, modified)
           keptE == KeptEdges(s, modified)
<1>1. keptN \subseteq nodes /\ Held(keptN) \subseteq s.nodes
  BY DEF KeptNodes, Held
<1>2. keptE \subseteq edges /\ Held(keptE) \subseteq s.edges
  BY DEF KeptEdges, Held
<1>3. /\ nodes' = {NodeRow(r, "set") : r \in keptN \cup Missing(s.nodes, keptN)}
      /\ edges' = {EdgeRow(r, "set", r.rank) : r \in keptE} \cup NewEdges(Missing(s.edges, keptE))
      /\ strings' = StringsAfter(s, keptE, edges', modified)
      /\ files' = (files \ Affected(s, modified)) \cup Changed(s, modified)
      /\ facts' = FactsAfter(s, modified)
      /\ last' = s /\ older' = FALSE /\ behind' = FALSE /\ UNCHANGED <<ranked, discarded>>
  BY DEF PartialRun
<1>4. /\ keptN \in SUBSET StoredNode /\ Keyed(keptN)
      /\ keptE \in SUBSET StoredEdge /\ Keyed(keptE)
  BY <1>1, <1>2 DEF Inv, GraphTyped, Keyed
<1>5. strings = StringsOf(edges)
  BY DEF Inv, DictionaryExact
<1> HIDE DEF keptN, keptE
<1>6. nodes' \subseteq StoredNode /\ Keyed(nodes') /\ Held(nodes') = s.nodes
  <2>1. s.nodes \in SUBSET Node /\ Keyed(s.nodes)
    BY ScanFacts
  <2>2. nodes' = {NodeRow(r, "set") : r \in keptN \cup Missing(s.nodes, keptN)}
    BY <1>3
  <2>3. \A rows : rows = {NodeRow(r, "set") : r \in keptN \cup Missing(s.nodes, keptN)}
          => /\ rows \subseteq StoredNode /\ Keyed(rows)
             /\ Held(keptN) \subseteq s.nodes => Held(rows) = s.nodes
    BY <1>4, <2>1, RowsOfNodes
  <2> QED BY <1>1, <2>2, <2>3
<1>7. /\ edges' \subseteq StoredEdge /\ Keyed(edges') /\ Held(edges') = s.edges
      /\ (\A r \in keptE : r.rank = RankOf[r.content]) => \A r \in edges' : r.rank = RankOf[r.content]
      /\ StringsOf(edges') = StringsOf(keptE) \cup StringsOf(Missing(s.edges, keptE))
  <2>1. s.edges \in SUBSET Edge /\ Keyed(s.edges)
    BY ScanFacts
  <2>2. edges' = {EdgeRow(r, "set", r.rank) : r \in keptE} \cup NewEdges(Missing(s.edges, keptE))
    BY <1>3
  <2>3. \A rows :
          rows = {EdgeRow(r, "set", r.rank) : r \in keptE} \cup NewEdges(Missing(s.edges, keptE))
          => /\ rows \subseteq StoredEdge /\ Keyed(rows)
             /\ Held(keptE) \subseteq s.edges => Held(rows) = s.edges
             /\ (\A r \in keptE : r.rank = RankOf[r.content])
                  => \A r \in rows : r.rank = RankOf[r.content]
             /\ StringsOf(rows) = StringsOf(keptE) \cup StringsOf(Missing(s.edges, keptE))
    BY <1>4, <2>1, RowsOfEdges
  <2> QED BY <1>2, <2>2, <2>3
<1>8. strings' = StringsOf(edges')
  BY <1>2, <1>3, <1>5, <1>7, DictionaryAfter
<1>9. files' \subseteq Files /\ facts' \subseteq Fact /\ FactsNameIndexedFiles'
  BY <1>3, FilesAfter DEF Inv
<1>10. GraphTyped' /\ RowsTyped'
  BY <1>3, <1>6, <1>7, <1>9 DEF Inv, GraphTyped, RowsTyped, Keyed
<1>11. GraphIsLastScans' /\ DictionaryExact'
  BY <1>3, <1>6, <1>7, <1>8 DEF GraphIsLastScans, Current, DictionaryExact, Held, StringsOf
<1>12. RanksTrusted'
  BY <1>2, <1>3, <1>7 DEF Inv, RanksTrusted
<1> QED BY <1>9, <1>10, <1>11, <1>12 DEF Inv

\* An older version's reconciliation by id keeps keys, dictionary and facts right, and leaves
\* the recorded rank version only where it inserted nothing.
LEMMA OldPartialRunInv ==
    \A s \in Scans : \A modified \in SUBSET (s.files \cap files) :
        Inv /\ OldPartialRun(s, modified) => Inv'
PROOF
<1> SUFFICES ASSUME NEW s \in Scans, NEW modified \in SUBSET (s.files \cap files),
                    Inv, OldPartialRun(s, modified)
             PROVE  Inv'
  OBVIOUS
<1> DEFINE keptN == {r \in nodes \ OwnNodes(s, modified) : r.id \in Ids(s.nodes)}
           keptE == {r \in edges \ AtOwnNodes(s, modified) : r.id \in Ids(s.edges)}
           comeN == Missing(s.nodes, keptN)
           comeE == Missing(s.edges, keptE)
<1>1. keptN \subseteq nodes /\ keptE \subseteq edges
  OBVIOUS
<1>2. /\ nodes' = keptN \cup {NodeRow(w, "null") : w \in comeN}
      /\ edges' = keptE \cup {EdgeRow(w, "null", Unranked) : w \in comeE}
      /\ strings' = StringsAfter(s, keptE, edges', modified)
      /\ ranked' = RankedAfter(comeE)
      /\ files' = (files \ Affected(s, modified)) \cup Changed(s, modified)
      /\ facts' = FactsAfter(s, modified)
      /\ last' = s /\ older' = TRUE /\ behind' = FALSE /\ UNCHANGED discarded
  BY DEF OldPartialRun, OldEdges
<1>3. /\ \A w \in comeN : w \in s.nodes /\ w.id \in NodeIds /\ w.content \in NodeContents
      /\ \A w \in comeE : w \in s.edges /\ w.id \in EdgeIds /\ w.content \in EdgeContents
  BY ScanFacts DEF Missing, Node, Edge
<1>4. /\ \A r \in keptN, w \in comeN : r.id # w.id
      /\ \A r \in keptE, w \in comeE : r.id # w.id
  BY DEF Missing, Ids
<1>5. /\ \A v, w \in comeN : v.id = w.id => v = w
      /\ \A v, w \in comeE : v.id = w.id => v = w
      /\ \A v, w \in keptN : v.id = w.id => v = w
      /\ \A v, w \in keptE : v.id = w.id => v = w
  BY <1>1, <1>3, ScanFacts DEF Keyed, Inv, GraphTyped
<1>6. keptN \subseteq StoredNode /\ keptE \subseteq StoredEdge /\ strings = StringsOf(edges)
  BY <1>1 DEF Inv, GraphTyped, DictionaryExact
<1> HIDE DEF keptN, keptE, comeN
<1>7. nodes' \subseteq StoredNode
  BY <1>2, <1>3, <1>6, RowTypes
<1>8. Keyed(nodes')
  BY <1>2, <1>4, <1>5, RowFields DEF Keyed
<1>9. edges' \subseteq StoredEdge
  BY <1>2, <1>3, <1>6, RowTypes
<1>10. Keyed(edges')
  BY <1>2, <1>4, <1>5, RowFields DEF Keyed
<1>11. StringsOf(edges') = StringsOf(keptE) \cup StringsOf(comeE)
  <2>1. \A v : NamesOf(EdgeRow(v, "null", Unranked)) = NamesOf(v)
    BY RowFields DEF NamesOf
  <2>2. StringsOf({EdgeRow(w, "null", Unranked) : w \in comeE}) = StringsOf(comeE)
    BY <2>1 DEF StringsOf
  <2> QED BY <1>2, <2>2 DEF StringsOf
<1>12. strings' = StringsOf(edges')
  BY <1>1, <1>2, <1>6, <1>11, DictionaryAfter
<1>13. files' \subseteq Files /\ facts' \subseteq Fact /\ FactsNameIndexedFiles'
  BY <1>2, FilesAfter DEF Inv
<1>14. GraphTyped' /\ RowsTyped'
  BY <1>2, <1>7, <1>8, <1>9, <1>10, <1>13 DEF Inv, GraphTyped, RowsTyped, RankedAfter, Keyed
<1>15. RanksTrusted'
  BY <1>1, <1>2 DEF Inv, RanksTrusted, RankedAfter
<1>16. GraphIsLastScans' /\ DictionaryExact'
  BY <1>2, <1>12 DEF GraphIsLastScans, DictionaryExact, StringsOf
<1> QED BY <1>13, <1>14, <1>15, <1>16 DEF Inv

\* An event without a changed file is behind when the scan's graph differs from the last one's.
LEMMA UnchangedRunInv == \A s \in Scans : Inv /\ UnchangedRun(s) => Inv'
PROOF
<1> SUFFICES ASSUME NEW s \in Scans, Inv, UnchangedRun(s) PROVE Inv'
  OBVIOUS
<1>1. /\ UNCHANGED <<files, facts, nodes, edges, strings, ranked, discarded, older>>
      /\ last' = s
      /\ behind' = (behind \/ <<s.nodes, s.edges>> # <<last.nodes, last.edges>>)
  BY DEF UnchangedRun
<1>2. GraphIsLastScans'
  BY <1>1 DEF Inv, GraphIsLastScans, Current, Held
<1> QED BY <1>1, <1>2 DEF Inv, GraphTyped, RowsTyped, RanksTrusted, DictionaryExact,
                          FactsNameIndexedFiles, Keyed, StringsOf

\* Every behaviour of the store keeps the invariant.
THEOREM Invariance == Spec => []Inv
PROOF
<1>1. Inv /\ [Next]_vars => Inv'
  <2> SUFFICES ASSUME Inv, [Next]_vars PROVE Inv'
    OBVIOUS
  <2>1. CASE UNCHANGED vars
    BY <2>1 DEF vars, Inv, GraphTyped, RowsTyped, GraphIsLastScans, Current, RanksTrusted,
                DictionaryExact, FactsNameIndexedFiles
  <2>2. CASE Next
    BY <2>2, OpenToWriteInv, FullRunInv, PartialRunInv, OldPartialRunInv, UnchangedRunInv DEF Next
  <2> QED BY <2>1, <2>2
<1> QED BY <1>1, InitInv, PTL DEF Spec

\* The tables keep their keys and types, whatever versions write to them.
THEOREM GraphTypeCorrect == Spec => []TypeOK
PROOF
<1>1. Inv => TypeOK
  BY Typed DEF Inv
<1> QED BY <1>1, Invariance, PTL

\* Reconciliation ends in the graph a clean rebuild would store.
THEOREM ReconciledEqualsRebuilt == Spec => []GraphIsLastScans
BY Invariance, PTL DEF Inv

\* Ranks are right whenever the recorded version says so.
THEOREM TrustedRanksRight == Spec => []RanksTrusted
BY Invariance, PTL DEF Inv

\* The dictionary loses no string in use and keeps none out of use.
THEOREM DictionaryKept == Spec => []DictionaryExact
BY Invariance, PTL DEF Inv

\* Facts are about files the index holds.
THEOREM FactsConsistent == Spec => []FactsNameIndexedFiles
BY Invariance, PTL DEF Inv
=============================================================================
