---------------------------- MODULE GraphBuffer ----------------------------
(***************************************************************************)
(* How one graph is made of many writes (open-kioku-graph, buffer.rs).     *)
(* Files, symbols, occurrences, imports, resolved relationships and        *)
(* analysis facts each write nodes and edges; writes of one node, or of    *)
(* one edge, are folded together, in one buffer or in several that are     *)
(* merged later.  A full build and a partial one visit the writes in       *)
(* different orders, and GraphStore compares what they yield by hash: an   *)
(* edge that depended on the order would be rewritten by every event.      *)
(***************************************************************************)
EXTENDS Integers, FiniteSets

CONSTANTS
    Buffers,
    Keys,           \* the edges: (from, to, type)
    Ids,            \* the nodes
    EdgeWrites, NodeWrites, \* writes, named so that two of them may be equal
    Edge,           \* what an edge write holds
    Node,           \* what a node write holds
    FactWrites,     \* edge writes of facts that resolved to an indexed symbol
    SelfUses,       \* those whose symbol is the fact's own
    Establishing,   \* the proofs that lift an edge above heuristic authority
    NoSite,         \* evidence without a file range: after every site
    MaxLines,       \* merge_messages keeps 8
    MaxWrites       \* bound: writes of one build

Sites == 1 .. NoSite
NoColumn == 0       \* a call site made of a line range names no column

\* Numbers stand for ordered text; 0 is an absent source_pass, owner or label.
EdgeContents ==
    [rank: Nat, site: Sites, eid: Nat, source: Nat, lines: SUBSET Nat,
     calls: SUBSET (Nat \X Nat), notes: SUBSET Nat, proofs: SUBSET Nat]
NodeContents == [label: Nat, owner: Nat, source: Nat, notes: SUBSET Nat]

ASSUME GraphBufferAssumption ==
    /\ NoSite \in Nat \ {0} /\ MaxLines \in Nat
    /\ EdgeWrites \cap NodeWrites = {}
    /\ FactWrites \subseteq EdgeWrites /\ SelfUses \subseteq FactWrites
    /\ DOMAIN Edge = EdgeWrites /\ DOMAIN Node = NodeWrites
    /\ \A w \in EdgeWrites :
          /\ Edge[w].key \in Keys /\ Edge[w].content \in EdgeContents
          /\ IsFiniteSet(Edge[w].content.lines)
    /\ \A w \in NodeWrites : Node[w].id \in Ids /\ Node[w].content \in NodeContents
    \* Evidence ids hash what was written: two writes of an edge that tie are one statement.
    /\ \A v, w \in EdgeWrites :
          LET e == Edge[v].content
              f == Edge[w].content
          IN  Edge[v].key = Edge[w].key /\ e.rank = f.rank /\ e.site = f.site /\ e.eid = f.eid
              => e.source = f.source
    \* A fact that ends at a symbol carries no proof.
    /\ \A w \in FactWrites : Edge[w].content.proofs = {}
    \* The graph builder makes a node's id of its label, or of the file or symbol it stands
    \* for, and gives a label to every node that stands for one.
    /\ \A v, w \in NodeWrites :
          LET n == Node[v].content
              m == Node[w].content
          IN  /\ n.label = m.label /\ n.owner = m.owner => Node[v].id = Node[w].id
              /\ Node[v].id = Node[w].id /\ 0 \notin {n.owner, m.owner} => n.owner = m.owner
    /\ \A w \in NodeWrites : Node[w].content.owner # 0 => Node[w].content.label # 0

VARIABLES
    todo,   \* writes not yet made
    open,   \* buffers not yet merged into another
    edges,  \* EdgeSlot of each key, per buffer; `writes` (history) is {} where there is none
    nodes,  \* node of each id, per buffer, likewise
    skipped \* facts the build left out (history)

vars == <<todo, open, edges, nodes, skipped>>

(***************************************************************************)
(* Folding the writes of one edge                                          *)
(***************************************************************************)

NoEdge == [writes |-> {}, rank |-> 0, site |-> NoSite, eid |-> 0, source |-> 0, fall |-> 0,
           lines |-> {}, calls |-> {}, notes |-> {}, proofs |-> {}]

\* A slot of one write: its own fields are its fallbacks.
SlotOf(w) ==
    LET e == Edge[w].content
    IN  [writes |-> {w}, rank |-> e.rank, site |-> e.site, eid |-> e.eid, source |-> e.source,
         fall |-> e.source, lines |-> e.lines, calls |-> e.calls, notes |-> e.notes,
         proofs |-> e.proofs]

PrecedesById(a, b) == a.rank > b.rank \/ (a.rank = b.rank /\ a.eid < b.eid)

\* The better representative of an edge: the higher rank, then the earlier site.
Precedes(a, b) ==
    \/ a.rank > b.rank
    \/ a.rank = b.rank /\ a.site < b.site
    \/ a.rank = b.rank /\ a.site = b.site /\ a.eid < b.eid

JoinFirst(a, b) == IF a # 0 THEN a ELSE b

\* The smaller of two present values.
JoinMin(a, b) == IF a # 0 /\ (b = 0 \/ a <= b) THEN a ELSE b

\* merge_messages: the first lines, each once, in their order.
Smallest(lines) == {l \in lines : Cardinality({m \in lines : m < l}) < MaxLines}

\* The call sites a write lists, or else the site of its evidence.
CallSites(e) ==
    IF e.calls # {} THEN e.calls
    ELSE IF e.site = NoSite THEN {} ELSE {<<e.site, NoColumn>>}

Fold(old, new) ==
    LET won == IF Precedes(new, old) THEN new ELSE old
    IN  [writes |-> old.writes \cup new.writes,
         rank |-> won.rank, site |-> won.site, eid |-> won.eid, source |-> won.source,
         fall |-> JoinMin(old.fall, new.fall),
         lines |-> Smallest(old.lines \cup new.lines),
         calls |-> CallSites(old) \cup CallSites(new),
         notes |-> old.notes \cup new.notes,
         proofs |-> old.proofs \cup new.proofs]

\* insert_slot: the first one of a key is kept as it is.
Inserted(old, new) ==
    IF new.writes = {} THEN old ELSE IF old.writes = {} THEN new ELSE Fold(old, new)

\* into_edge: what the representative leaves unset is the smallest any write holds.
Yield(slot) ==
    [rank |-> slot.rank, site |-> slot.site, eid |-> slot.eid,
     source |-> IF slot.source # 0 THEN slot.source ELSE slot.fall,
     lines |-> slot.lines, calls |-> slot.calls, notes |-> slot.notes, proofs |-> slot.proofs]

\* relationship_authority, for proofs that agree on the symbols they relate: where merged ones
\* name another source or target it falls back to heuristic, and facts may come in again.
AboveHeuristic(slot) == slot.proofs \cap Establishing # {}

(***************************************************************************)
(* Joining the writes of one node                                          *)
(***************************************************************************)

NoNode == [writes |-> {}, label |-> 0, owner |-> 0, source |-> 0, notes |-> {}]

NodeOf(w) ==
    LET n == Node[w].content
    IN  [writes |-> {w}, label |-> n.label, owner |-> n.owner, source |-> n.source,
         notes |-> n.notes]

LabelKey(n) == (IF n.label # 0 THEN 2 ELSE 0) + (IF n.owner # 0 THEN 1 ELSE 0)

NamesBetter(old, new) ==
    \/ LabelKey(new) > LabelKey(old)
    \/ LabelKey(new) = LabelKey(old) /\ new.label < old.label

MergeNode(old, new) ==
    [writes |-> old.writes \cup new.writes,
     label |-> IF NamesBetter(old, new) THEN new.label ELSE old.label,
     owner |-> JoinMin(old.owner, new.owner),
     source |-> JoinMin(old.source, new.source),
     notes |-> old.notes \cup new.notes]

Upserted(old, new) ==
    IF new.writes = {} THEN old ELSE IF old.writes = {} THEN new ELSE MergeNode(old, new)

(***************************************************************************)
(* The build                                                               *)
(***************************************************************************)

Init ==
    /\ todo \in {ws \in SUBSET (EdgeWrites \cup NodeWrites) : Cardinality(ws) <= MaxWrites}
    /\ open = Buffers
    /\ edges = [b \in Buffers |-> [k \in Keys |-> NoEdge]]
    /\ nodes = [b \in Buffers |-> [i \in Ids |-> NoNode]]
    /\ skipped = {}

Insert(b, w) ==
    LET k == Edge[w].key
    IN  edges' = [edges EXCEPT ![b][k] = Inserted(edges[b][k], SlotOf(w))]

InsertEdge(b, w) ==
    /\ w \in todo \cap (EdgeWrites \ FactWrites)
    /\ Insert(b, w)
    /\ todo' = todo \ {w}
    /\ UNCHANGED <<open, nodes, skipped>>

\* upsert_node also keeps the id a label and an owner were first written under, and writes the
\* node there: it is the node's own (NodesJoined).
UpsertNode(b, w) ==
    /\ w \in todo \cap NodeWrites
    /\ LET i == Node[w].id
       IN  nodes' = [nodes EXCEPT ![b][i] = Upserted(nodes[b][i], NodeOf(w))]
    /\ todo' = todo \ {w}
    /\ UNCHANGED <<open, edges, skipped>>

FactsAnyTime(b) == b \in open

\* Every write that can carry a proof precedes the facts that end at a symbol.
FactsMayCome(b) == open = {b} /\ todo \cap EdgeWrites \subseteq FactWrites

LeftOut(b, w) == w \in SelfUses \/ AboveHeuristic(edges[b][Edge[w].key])

WriteFact(b, w) ==
    /\ w \in todo \cap FactWrites
    /\ FactsMayCome(b)
    /\ ~LeftOut(b, w)
    /\ Insert(b, w)
    /\ todo' = todo \ {w}
    /\ UNCHANGED <<open, nodes, skipped>>

SkipFact(b, w) ==
    /\ w \in todo \cap FactWrites
    /\ FactsMayCome(b)
    /\ LeftOut(b, w)
    /\ skipped' = skipped \cup {w}
    /\ todo' = todo \ {w}
    /\ UNCHANGED <<open, edges, nodes>>

MergeCopies(b, c) ==
    /\ b # c
    /\ edges' = [edges EXCEPT ![b] = [k \in Keys |-> Inserted(edges[b][k], edges[c][k])]]
    /\ nodes' = [nodes EXCEPT ![b] = [i \in Ids |-> Upserted(nodes[b][i], nodes[c][i])]]
    /\ UNCHANGED <<todo, open, skipped>>

\* merge takes the other buffer's slots, each of which may hold several writes.
Merge(b, c) ==
    /\ b # c
    /\ edges' = [edges EXCEPT ![b] = [k \in Keys |-> Inserted(edges[b][k], edges[c][k])],
                             ![c] = [k \in Keys |-> NoEdge]]
    /\ nodes' = [nodes EXCEPT ![b] = [i \in Ids |-> Upserted(nodes[b][i], nodes[c][i])],
                             ![c] = [i \in Ids |-> NoNode]]
    /\ open' = open \ {c}
    /\ UNCHANGED <<todo, skipped>>

Next ==
    \/ \E b \in open, w \in todo :
          InsertEdge(b, w) \/ UpsertNode(b, w) \/ WriteFact(b, w) \/ SkipFact(b, w)
    \/ \E b, c \in open : Merge(b, c)

Spec == Init /\ [][Next]_vars

(***************************************************************************)
(* Properties                                                              *)
(***************************************************************************)

Slots ==
    [writes: SUBSET EdgeWrites, rank: Nat, site: Sites, eid: Nat, source: Nat, fall: Nat,
     lines: SUBSET Nat, calls: SUBSET (Nat \X Nat), notes: SUBSET Nat, proofs: SUBSET Nat]
NodeSlots == [writes: SUBSET NodeWrites, label: Nat, owner: Nat, source: Nat, notes: SUBSET Nat]

\* Every write is made once: it waits, it was left out, or one slot of one buffer holds it,
\* the slot of the edge or node it writes.
TypeOK ==
    /\ todo \subseteq EdgeWrites \cup NodeWrites /\ open \subseteq Buffers
    /\ skipped \subseteq FactWrites /\ skipped \cap todo = {}
    /\ edges \in [Buffers -> [Keys -> Slots]]
    /\ nodes \in [Buffers -> [Ids -> NodeSlots]]
    /\ \A b \in Buffers, k \in Keys : \A w \in edges[b][k].writes :
          /\ Edge[w].key = k /\ w \notin todo \cup skipped /\ b \in open
          /\ \A c \in Buffers : w \in edges[c][k].writes => c = b
    /\ \A b \in Buffers, i \in Ids : \A w \in nodes[b][i].writes :
          /\ Node[w].id = i /\ w \notin todo /\ b \in open
          /\ \A c \in Buffers : w \in nodes[c][i].writes => c = b

\* The smallest number that is present, or 0.
IsLeast(n, ns) ==
    IF ns \subseteq {0} THEN n = 0 ELSE n \in ns \ {0} /\ \A m \in ns \ {0} : n <= m

EdgesOf(ws) == {Edge[w].content : w \in ws}

\* What a set of writes of one edge says, in no order.
EdgeOf(e, ws) ==
    LET all == EdgesOf(ws)
    IN  /\ \E r \in all :
              /\ \A v \in all :
                    /\ v.rank <= r.rank
                    /\ v.rank = r.rank => r.site <= v.site
                    /\ v.rank = r.rank /\ v.site = r.site => r.eid <= v.eid
              /\ e.rank = r.rank /\ e.site = r.site /\ e.eid = r.eid
              /\ IF r.source # 0 THEN e.source = r.source
                 ELSE IsLeast(e.source, {v.source : v \in all})
        /\ e.notes = UNION {v.notes : v \in all}
        /\ e.proofs = UNION {v.proofs : v \in all}
        /\ IF \E w \in ws : ws = {w}
           THEN \A v \in all : e.calls = v.calls /\ e.lines = v.lines
           ELSE /\ e.calls = UNION {CallSites(v) : v \in all}
                /\ e.lines = Smallest(UNION {v.lines : v \in all})

\* An edge a buffer would yield is what its writes say together, whatever order they came in
\* and whichever buffers they were in before (buffer.rs, "the edge a slot yields does not
\* depend on the order writes, or other buffers' slots, are folded into it").
EdgesJoined ==
    \A b \in Buffers, k \in Keys :
        edges[b][k].writes # {} => EdgeOf(Yield(edges[b][k]), edges[b][k].writes)

NodesOf(ws) == {Node[w].content : w \in ws}

\* What a set of writes of one node says: the writes with its owner name it, if any.
JoinOf(n, ws) ==
    LET all == NodesOf(ws)
        owned == {v \in all : v.owner # 0}
    IN  /\ IsLeast(n.label, {v.label : v \in IF owned # {} THEN owned ELSE all})
        /\ IsLeast(n.owner, {v.owner : v \in all})
        /\ IsLeast(n.source, {v.source : v \in all})
        /\ n.notes = UNION {v.notes : v \in all}

Named(b, i) == nodes[b][i].writes # {}

\* So is a node (#591: a full and a partial build once disagreed on its source_pass); and no
\* two nodes share a label and an owner, so that upsert_node never files a node under the id
\* of another, whose edges would then end at nothing.
NodesJoined ==
    /\ \A b \in Buffers, i \in Ids : Named(b, i) => JoinOf(nodes[b][i], nodes[b][i].writes)
    /\ \A b, c \in Buffers, i, j \in Ids :
          /\ Named(b, i) /\ Named(c, j)
          /\ nodes[b][i].label = nodes[c][j].label /\ nodes[b][i].owner = nodes[c][j].owner
          => i = j

\* A fact never adds its site or message to an edge that proofs establish, which they do at
\* their own sites only, and is left out for no other reason than that or its own symbol.
FactsKeepOff ==
    \A b \in Buffers, k \in Keys :
        LET above == AboveHeuristic(edges[b][k])
        IN  /\ above => edges[b][k].writes \cap FactWrites = {}
            /\ edges[b][k].writes \cap SelfUses = {}
            /\ open = {b} =>
                 \A w \in skipped \ SelfUses : Edge[w].key = k => above
=============================================================================
