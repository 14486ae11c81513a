------------------------- MODULE GraphBufferProofs -------------------------
(***************************************************************************)
(* Proofs about GraphBuffer, for any writes and any number of buffers.     *)
(***************************************************************************)
EXTENDS GraphBuffer, FiniteSetTheorems, WellFoundedInduction, TLAPS

(***************************************************************************)
(* The first lines of a message                                            *)
(***************************************************************************)

Below(x, S) == {m \in S : m < x}

\* A finite set of numbers has a least one: of the sets of those below one, take a smallest.
LEMMA LeastOne ==
    ASSUME NEW T \in SUBSET Nat, IsFiniteSet(T), T # {}
    PROVE  \E m \in T : \A n \in T : m <= n
PROOF
<1> DEFINE Lower == {Below(m, T) : m \in T}
<1>1. Lower \subseteq FiniteSubsetsOf(T) /\ Lower # {}
  <2>1. ASSUME NEW m \in T PROVE Below(m, T) \in SUBSET T /\ IsFiniteSet(Below(m, T))
    <3>1. Below(m, T) \in SUBSET T
      BY DEF Below
    <3> QED BY <3>1, FS_Subset
  <2> QED BY <2>1 DEF FiniteSubsetsOf
<1>2. PICK X \in Lower : \A Y \in Lower : ~(<<Y, X>> \in StrictSubsetOrdering(T))
  <2> HIDE DEF Lower
  <2> QED BY <1>1, WFMin, FS_StrictSubsetOrderingWellFounded
<1>3. PICK m \in T : X = Below(m, T)
  OBVIOUS
<1>4. ASSUME NEW n \in T, ~(m <= n) PROVE FALSE
  <2>1. Below(n, T) \subseteq Below(m, T) /\ n \in Below(m, T) /\ n \notin Below(n, T)
    <3>1. n \in Nat /\ m \in Nat /\ n < m
      BY <1>4
    <3>2. \A k \in T : k < n => k < m
      BY <3>1
    <3>3. ~(n < n)
      BY <3>1
    <3>4. n \in Below(m, T) /\ n \notin Below(n, T)
      BY <3>1, <3>3 DEF Below
    <3>5. Below(n, T) \subseteq Below(m, T)
      BY <3>2 DEF Below
    <3> QED BY <3>4, <3>5
  <2>2. Below(n, T) \in Lower
    OBVIOUS
  <2>3. <<Below(n, T), X>> \in StrictSubsetOrdering(T)
    BY <2>1, <1>3 DEF StrictSubsetOrdering, Below
  <2> QED BY <2>2, <2>3, <1>2
<1> QED BY <1>4

\* What lies between a set's first lines and the set has the same first lines.
LEMMA SmallestBetween ==
    ASSUME NEW A \in SUBSET Nat, IsFiniteSet(A),
           NEW D, Smallest(A) \subseteq D, D \subseteq A
    PROVE  Smallest(D) = Smallest(A)
PROOF
<1>0. /\ \A x : Below(x, A) \in SUBSET A /\ Below(x, D) \in SUBSET Below(x, A)
      /\ \A x : IsFiniteSet(Below(x, A)) /\ IsFiniteSet(Below(x, D))
      /\ \A x : Cardinality(Below(x, A)) \in Nat /\ Cardinality(Below(x, D)) \in Nat
  <2>1. \A x : Below(x, A) \in SUBSET A /\ Below(x, D) \in SUBSET Below(x, A)
    BY DEF Below
  <2>2. \A x : IsFiniteSet(Below(x, A))
    BY <2>1, FS_Subset
  <2>3. \A x : IsFiniteSet(Below(x, D))
    BY <2>1, <2>2, FS_Subset
  <2> QED BY <2>1, <2>2, <2>3, FS_CardinalityType
<1>1. /\ Smallest(A) = {x \in A : Cardinality(Below(x, A)) < MaxLines}
      /\ Smallest(D) = {x \in D : Cardinality(Below(x, D)) < MaxLines}
  BY DEF Smallest, Below
<1>2. MaxLines \in Nat
  BY GraphBufferAssumption
<1>3. ASSUME NEW x \in Smallest(A) PROVE x \in Smallest(D)
  <2>1. Cardinality(Below(x, D)) <= Cardinality(Below(x, A))
    BY <1>0, FS_Subset
  <2>2. Cardinality(Below(x, A)) < MaxLines
    BY <1>1
  <2>3. Cardinality(Below(x, D)) < MaxLines
    BY <2>1, <2>2, <1>0, <1>2
  <2> QED BY <2>3, <1>1
<1>4. ASSUME NEW x \in Smallest(D), x \notin Smallest(A) PROVE FALSE
  <2> DEFINE Left == A \ Smallest(A)
  <2>1. x \in Left /\ Left \in SUBSET Nat /\ IsFiniteSet(Left)
    <3>1. x \in Left
      BY <1>1, <1>4
    <3>2. Left \in SUBSET A
      BY <1>1
    <3>3. IsFiniteSet(Left)
      BY <3>2, FS_Subset
    <3> QED BY <3>1, <3>2, <3>3
  <2>2. PICK m \in Left : \A n \in Left : m <= n
    <3> HIDE DEF Left
    <3> QED BY <2>1, LeastOne
  <2>3. m \in Nat /\ x \in Nat /\ m <= x
    BY <2>1, <2>2
  <2>4. Below(m, A) \subseteq Below(x, D)
    <3>1. ASSUME NEW k \in Below(m, A) PROVE k \in D /\ k < x
      <4>1. k \in A /\ k < m /\ k \in Nat
        BY DEF Below
      <4>2. k \notin Left
        BY <4>1, <2>2, <2>3
      <4>3. k \in D
        BY <4>1, <4>2
      <4>4. k < x
        BY <4>1, <2>3
      <4> QED BY <4>3, <4>4
    <3> QED BY <3>1 DEF Below
  <2>5. Cardinality(Below(m, A)) <= Cardinality(Below(x, D))
    BY <2>4, <1>0, FS_Subset
  <2>6. ~(Cardinality(Below(m, A)) < MaxLines)
    BY <1>1, <2>2
  <2>7. Cardinality(Below(x, D)) < MaxLines
    BY <1>1
  <2> QED BY <2>5, <2>6, <2>7, <1>0, <1>2
<1> QED BY <1>3, <1>4

\* The first lines of two messages, each whole or cut to its first lines, are those of both.
LEMMA SmallestJoin ==
    ASSUME NEW A \in SUBSET Nat, IsFiniteSet(A), NEW B \in SUBSET Nat, IsFiniteSet(B),
           NEW a \in {A, Smallest(A)}, NEW b \in {B, Smallest(B)}
    PROVE  Smallest(a \cup b) = Smallest(A \cup B)
PROOF
<1>1. A \cup B \in SUBSET Nat /\ IsFiniteSet(A \cup B)
  BY FS_Union
<1>2. a \subseteq A /\ b \subseteq B
  BY DEF Smallest
<1>3. ASSUME NEW S, S \subseteq A \cup B, NEW x \in S, x \in Smallest(A \cup B)
      PROVE  x \in Smallest(S)
  <2>1. Below(x, S) \in SUBSET Below(x, A \cup B) /\ Below(x, A \cup B) \in SUBSET (A \cup B)
    BY <1>3 DEF Below
  <2>2. IsFiniteSet(Below(x, A \cup B))
    BY <2>1, <1>1, FS_Subset
  <2>3. /\ IsFiniteSet(Below(x, S))
        /\ Cardinality(Below(x, S)) <= Cardinality(Below(x, A \cup B))
    BY <2>1, <2>2, FS_Subset
  <2>4. Cardinality(Below(x, S)) \in Nat /\ Cardinality(Below(x, A \cup B)) \in Nat
    BY <2>2, <2>3, FS_CardinalityType
  <2>5. Cardinality(Below(x, A \cup B)) < MaxLines
    BY <1>3 DEF Smallest, Below
  <2>6. Cardinality(Below(x, S)) < MaxLines
    BY <2>3, <2>4, <2>5, GraphBufferAssumption
  <2> QED BY <2>6 DEF Smallest, Below
<1>4. Smallest(A \cup B) \subseteq a \cup b
  <2>1. ASSUME NEW x \in Smallest(A \cup B) PROVE x \in a \cup b
    <3>1. x \in A \cup B
      BY DEF Smallest
    <3>2. CASE x \in A
      BY <3>2, <1>3, A \subseteq A \cup B, x \in Smallest(A)
    <3>3. CASE x \in B
      BY <3>3, <1>3, B \subseteq A \cup B, x \in Smallest(B)
    <3> QED BY <3>1, <3>2, <3>3
  <2> QED BY <2>1
<1> QED BY <1>1, <1>2, <1>4, SmallestBetween

(***************************************************************************)
(* The slot of an edge                                                     *)
(***************************************************************************)

\* The smaller of the least of two sets is the least of both.
LEMMA LeastJoin ==
    ASSUME NEW A \in SUBSET Nat, NEW B \in SUBSET Nat, NEW a \in Nat, NEW b \in Nat,
           IsLeast(a, A), IsLeast(b, B)
    PROVE  IsLeast(JoinMin(a, b), A \cup B)
PROOF
<1>1. CASE A \subseteq {0}
  BY <1>1 DEF IsLeast, JoinMin
<1>2. CASE B \subseteq {0}
  BY <1>2 DEF IsLeast, JoinMin
<1>3. CASE ~(A \subseteq {0}) /\ ~(B \subseteq {0})
  <2>1. a \in A /\ a # 0 /\ \A m \in A \ {0} : a <= m
    BY <1>3 DEF IsLeast
  <2>2. b \in B /\ b # 0 /\ \A m \in B \ {0} : b <= m
    BY <1>3 DEF IsLeast
  <2>3. CASE a <= b
    <3>1. JoinMin(a, b) = a
      BY <2>1, <2>3 DEF JoinMin
    <3>2. \A m \in (A \cup B) \ {0} : a <= m
      BY <2>1, <2>2, <2>3
    <3> QED BY <1>3, <2>1, <3>1, <3>2 DEF IsLeast
  <2>4. CASE ~(a <= b)
    <3>1. JoinMin(a, b) = b
      BY <2>2, <2>4 DEF JoinMin
    <3>2. \A m \in (A \cup B) \ {0} : b <= m
      BY <2>1, <2>2, <2>4
    <3> QED BY <1>3, <2>2, <3>1, <3>2 DEF IsLeast
  <2> QED BY <2>3, <2>4
<1> QED BY <1>1, <1>2, <1>3

LEMMA LeastUnique ==
    ASSUME NEW S \in SUBSET Nat, NEW a, NEW b, IsLeast(a, S), IsLeast(b, S)
    PROVE  a = b
PROOF
<1>1. CASE S \subseteq {0}
  BY <1>1 DEF IsLeast
<1>2. CASE ~(S \subseteq {0})
  <2>1. a \in Nat /\ b \in Nat /\ a <= b /\ b <= a
    BY <1>2 DEF IsLeast
  <2> QED BY <2>1
<1> QED BY <1>1, <1>2

AtLeast(r, v) ==
    /\ v.rank <= r.rank
    /\ v.rank = r.rank => r.site <= v.site
    /\ v.rank = r.rank /\ v.site = r.site => r.eid <= v.eid

Foremost(r, all) == \A v \in all : AtLeast(r, v)

Represents(s, r) ==
    s.rank = r.rank /\ s.site = r.site /\ s.eid = r.eid /\ s.source = r.source

\* What a slot holds of the contents folded into it, but for the sites and lines it shows.
EdgeJoin(s, all) ==
    /\ \E r \in all : Foremost(r, all) /\ Represents(s, r)
    /\ IsLeast(s.fall, {v.source : v \in all})
    /\ s.notes = UNION {v.notes : v \in all}
    /\ s.proofs = UNION {v.proofs : v \in all}
    /\ CallSites(s) = UNION {CallSites(v) : v \in all}

\* The one that precedes is foremost of both sides.
LEMMA RepresentativeOfFold ==
    ASSUME NEW A \in SUBSET EdgeContents, NEW B \in SUBSET EdgeContents,
           NEW old, NEW new, NEW p \in A, NEW q \in B,
           Foremost(p, A), Represents(old, p), Foremost(q, B), Represents(new, q)
    PROVE  /\ Precedes(new, old) => Foremost(q, A \cup B)
           /\ ~Precedes(new, old) => Foremost(p, A \cup B)
PROOF
<1>1. \A v \in A \cup B : v.rank \in Nat /\ v.site \in Int /\ v.eid \in Nat
  BY GraphBufferAssumption DEF EdgeContents, Sites
<1>2. Precedes(new, old) <=> Precedes(q, p)
  BY DEF Represents, Precedes
<1>3. CASE Precedes(q, p)
  <2>1. \A v \in A : AtLeast(q, v)
    BY <1>1, <1>3 DEF Precedes, Foremost, AtLeast
  <2>2. Foremost(q, A \cup B)
    BY <2>1 DEF Foremost
  <2> QED BY <1>2, <1>3, <2>2
<1>4. CASE ~Precedes(q, p)
  <2>1. \A v \in B : AtLeast(p, v)
    BY <1>1, <1>4 DEF Precedes, Foremost, AtLeast
  <2>2. Foremost(p, A \cup B)
    BY <2>1 DEF Foremost
  <2> QED BY <1>2, <1>4, <2>2
<1> QED BY <1>3, <1>4

\* What the fields of a fold are.
LEMMA FoldFields ==
    ASSUME NEW old, NEW new
    PROVE  LET f == Fold(old, new)
           IN  /\ f.writes = old.writes \cup new.writes
               /\ Precedes(new, old) => Represents(f, new)
               /\ ~Precedes(new, old) => Represents(f, old)
               /\ f.fall = JoinMin(old.fall, new.fall)
               /\ f.lines = Smallest(old.lines \cup new.lines)
               /\ f.calls = CallSites(old) \cup CallSites(new)
               /\ f.notes = old.notes \cup new.notes /\ f.proofs = old.proofs \cup new.proofs
BY DEF Fold, Represents

\* A fold of two slots holds what both hold, and shows its call sites.
LEMMA FoldJoins ==
    ASSUME NEW A \in SUBSET EdgeContents, NEW B \in SUBSET EdgeContents,
           NEW old \in Slots, NEW new \in Slots, EdgeJoin(old, A), EdgeJoin(new, B)
    PROVE  /\ EdgeJoin(Fold(old, new), A \cup B)
           /\ Fold(old, new).calls = UNION {CallSites(v) : v \in A \cup B}
PROOF
<1> DEFINE f == Fold(old, new)
<1>1. \E r \in A \cup B : Foremost(r, A \cup B) /\ Represents(f, r)
  <2>1. PICK p \in A : Foremost(p, A) /\ Represents(old, p)
    BY DEF EdgeJoin
  <2>2. PICK q \in B : Foremost(q, B) /\ Represents(new, q)
    BY DEF EdgeJoin
  <2>3. CASE Precedes(new, old)
    <3>1. Foremost(q, A \cup B)
      BY <2>1, <2>2, <2>3, RepresentativeOfFold
    <3>2. Represents(f, new)
      BY <2>3, FoldFields
    <3>3. Represents(f, q)
      BY ONLY <2>2, <3>2 DEF Represents
    <3> QED BY <3>1, <3>3
  <2>4. CASE ~Precedes(new, old)
    <3>1. Foremost(p, A \cup B)
      BY <2>1, <2>2, <2>4, RepresentativeOfFold
    <3>2. Represents(f, old)
      BY <2>4, FoldFields
    <3>3. Represents(f, p)
      BY ONLY <2>1, <3>2 DEF Represents
    <3> QED BY <3>1, <3>3
  <2> QED BY <2>3, <2>4
<1>2. IsLeast(f.fall, {v.source : v \in A \cup B})
  <2> DEFINE SA == {v.source : v \in A}
             SB == {v.source : v \in B}
  <2>1. SA \in SUBSET Nat /\ SB \in SUBSET Nat
    BY DEF EdgeContents
  <2>2. old.fall \in Nat /\ new.fall \in Nat
    BY DEF Slots
  <2>3. IsLeast(old.fall, SA) /\ IsLeast(new.fall, SB)
    BY DEF EdgeJoin
  <2>4. IsLeast(JoinMin(old.fall, new.fall), SA \cup SB)
    <3> HIDE DEF SA, SB
    <3> QED BY <2>1, <2>2, <2>3, LeastJoin
  <2>5. SA \cup SB = {v.source : v \in A \cup B}
    OBVIOUS
  <2> QED BY <2>4, <2>5, FoldFields
<1>3. /\ f.notes = UNION {v.notes : v \in A \cup B}
      /\ f.proofs = UNION {v.proofs : v \in A \cup B}
  <2>1. f.notes = old.notes \cup new.notes /\ f.proofs = old.proofs \cup new.proofs
    BY FoldFields
  <2>2. /\ old.notes = UNION {v.notes : v \in A} /\ new.notes = UNION {v.notes : v \in B}
        /\ old.proofs = UNION {v.proofs : v \in A} /\ new.proofs = UNION {v.proofs : v \in B}
    BY DEF EdgeJoin
  <2> QED BY <2>1, <2>2
<1>4. f.calls = UNION {CallSites(v) : v \in A \cup B}
  <2>1. f.calls = CallSites(old) \cup CallSites(new)
    BY FoldFields
  <2>2. /\ CallSites(old) = UNION {CallSites(v) : v \in A}
        /\ CallSites(new) = UNION {CallSites(v) : v \in B}
    BY DEF EdgeJoin
  <2> HIDE DEF f
  <2> QED BY <2>1, <2>2
<1>5. CallSites(f) = f.calls
  <2>1. CASE f.calls # {}
    BY <2>1 DEF CallSites
  <2>2. CASE f.calls = {}
    <3>1. CallSites(old) = {} /\ CallSites(new) = {}
      <4>1. f.calls = CallSites(old) \cup CallSites(new)
        BY FoldFields
      <4> HIDE DEF f
      <4> QED BY <2>2, <4>1
    <3>2. old.site = NoSite /\ new.site = NoSite
      BY <3>1 DEF CallSites
    <3>3. f.site = NoSite
      <4>1. Represents(f, new) \/ Represents(f, old)
        BY FoldFields
      <4> QED BY ONLY <3>2, <4>1 DEF Represents
    <3> QED BY <2>2, <3>3 DEF CallSites
  <2> QED BY <2>1, <2>2
<1> QED BY <1>1, <1>2, <1>3, <1>4, <1>5 DEF EdgeJoin

LinesOf(ws) == UNION {v.lines : v \in EdgesOf(ws)}

\* What a slot that holds writes is.
SlotHolds(s, ws) ==
    /\ EdgeJoin(s, EdgesOf(ws))
    /\ IsFiniteSet(LinesOf(ws)) /\ s.lines \in {LinesOf(ws), Smallest(LinesOf(ws))}
    /\ IF \E w \in ws : ws = {w}
       THEN \A v \in EdgesOf(ws) : s.calls = v.calls /\ s.lines = v.lines
       ELSE /\ s.calls = UNION {CallSites(v) : v \in EdgesOf(ws)}
            /\ s.lines = Smallest(LinesOf(ws))

SlotInv(s) ==
    /\ s \in Slots
    /\ s.writes # {} => SlotHolds(s, s.writes)
    /\ s.writes = {} => s.proofs = {}

LEMMA EdgesOfTypes ==
    /\ \A ws : ws \subseteq EdgeWrites => EdgesOf(ws) \subseteq EdgeContents
    /\ \A A, B : EdgesOf(A \cup B) = EdgesOf(A) \cup EdgesOf(B)
    /\ \A w : EdgesOf({w}) = {Edge[w].content}
BY GraphBufferAssumption DEF EdgesOf

LEMMA LinesOfTypes ==
    /\ \A ws : ws \subseteq EdgeWrites => LinesOf(ws) \in SUBSET Nat
    /\ \A A, B : LinesOf(A \cup B) = LinesOf(A) \cup LinesOf(B)
    /\ \A w : LinesOf({w}) = Edge[w].content.lines
PROOF
<1>1. ASSUME NEW ws, ws \subseteq EdgeWrites PROVE LinesOf(ws) \in SUBSET Nat
  BY <1>1, EdgesOfTypes DEF LinesOf, EdgeContents
<1>2. ASSUME NEW A, NEW B PROVE LinesOf(A \cup B) = LinesOf(A) \cup LinesOf(B)
  BY EdgesOfTypes DEF LinesOf
<1>3. ASSUME NEW w PROVE LinesOf({w}) = Edge[w].content.lines
  <2>1. EdgesOf({w}) = {Edge[w].content}
    BY EdgesOfTypes
  <2>2. UNION {v.lines : v \in {Edge[w].content}} = Edge[w].content.lines
    OBVIOUS
  <2> QED BY <2>1, <2>2 DEF LinesOf
<1> QED BY <1>1, <1>2, <1>3

LEMMA NoEdgeInv == SlotInv(NoEdge) /\ NoEdge.writes = {}
BY GraphBufferAssumption DEF SlotInv, NoEdge, Slots, Sites

\* The slot of one write.
LEMMA SlotOfInv ==
    ASSUME NEW w \in EdgeWrites
    PROVE  SlotInv(SlotOf(w)) /\ SlotOf(w).writes = {w} /\ SlotOf(w).proofs = Edge[w].content.proofs
PROOF
<1> DEFINE e == Edge[w].content
           s == SlotOf(w)
<1>1. e \in EdgeContents /\ IsFiniteSet(e.lines)
  BY GraphBufferAssumption
<1>2. /\ s.writes = {w} /\ s.fall = e.source /\ s.lines = e.lines /\ s.calls = e.calls
      /\ s.notes = e.notes /\ s.proofs = e.proofs /\ Represents(s, e) /\ s.site = e.site
  BY DEF SlotOf, Represents
<1>3. s \in Slots
  BY <1>1 DEF SlotOf, Slots, EdgeContents
<1>4. EdgeJoin(s, {e})
  <2> HIDE DEF s, e
  <2>1. e.rank \in Nat /\ e.site \in Int /\ e.eid \in Nat /\ e.source \in Nat
    BY <1>1, GraphBufferAssumption DEF EdgeContents, Sites
  <2>2. Foremost(e, {e})
    BY <2>1 DEF Foremost, AtLeast
  <2>3. IsLeast(s.fall, {e.source})
    BY <2>1, <1>2 DEF IsLeast
  <2>4. CallSites(s) = CallSites(e)
    BY <1>2 DEF CallSites
  <2>5. /\ {v.source : v \in {e}} = {e.source} /\ UNION {v.notes : v \in {e}} = e.notes
        /\ UNION {v.proofs : v \in {e}} = e.proofs
        /\ UNION {CallSites(v) : v \in {e}} = CallSites(e)
    OBVIOUS
  <2> QED BY <2>2, <2>3, <2>4, <2>5, <1>2 DEF EdgeJoin
<1>5. EdgesOf({w}) = {e} /\ LinesOf({w}) = e.lines
  BY EdgesOfTypes, LinesOfTypes
<1>6. SlotHolds(s, {w})
  <2> HIDE DEF s, e
  <2> QED BY <1>1, <1>2, <1>4, <1>5 DEF SlotHolds
<1> QED BY <1>2, <1>3, <1>6 DEF SlotInv

\* Inserting a slot, empty or not, into another one.
LEMMA InsertedInv ==
    ASSUME NEW old, NEW new, SlotInv(old), SlotInv(new), old.writes \cap new.writes = {}
    PROVE  /\ SlotInv(Inserted(old, new))
           /\ Inserted(old, new).writes = old.writes \cup new.writes
           /\ Inserted(old, new).proofs = old.proofs \cup new.proofs
PROOF
<1>1. CASE new.writes = {}
  BY <1>1 DEF Inserted, SlotInv
<1>2. CASE new.writes # {} /\ old.writes = {}
  BY <1>2 DEF Inserted, SlotInv
<1>3. CASE new.writes # {} /\ old.writes # {}
  <2> DEFINE f == Fold(old, new)
             A == old.writes
             B == new.writes
  <2>1. /\ Inserted(old, new) = f /\ f.writes = A \cup B
        /\ f.proofs = old.proofs \cup new.proofs
    BY <1>3, FoldFields DEF Inserted
  <2>2. /\ old \in Slots /\ new \in Slots /\ SlotHolds(old, A) /\ SlotHolds(new, B)
        /\ A \subseteq EdgeWrites /\ B \subseteq EdgeWrites
    BY <1>3 DEF SlotInv, Slots
  <2>3. EdgesOf(A) \in SUBSET EdgeContents /\ EdgesOf(B) \in SUBSET EdgeContents
    BY <2>2, EdgesOfTypes
  <2>4. /\ EdgeJoin(f, EdgesOf(A \cup B))
        /\ f.calls = UNION {CallSites(v) : v \in EdgesOf(A \cup B)}
    <3>1. EdgeJoin(old, EdgesOf(A)) /\ EdgeJoin(new, EdgesOf(B))
      BY <2>2 DEF SlotHolds
    <3>2. /\ EdgeJoin(f, EdgesOf(A) \cup EdgesOf(B))
          /\ f.calls = UNION {CallSites(v) : v \in EdgesOf(A) \cup EdgesOf(B)}
      BY <2>2, <2>3, <3>1, FoldJoins
    <3> QED BY <3>2, EdgesOfTypes
  <2>5. IsFiniteSet(LinesOf(A \cup B)) /\ f.lines = Smallest(LinesOf(A \cup B))
    <3>1. /\ LinesOf(A) \in SUBSET Nat /\ LinesOf(B) \in SUBSET Nat
          /\ LinesOf(A \cup B) = LinesOf(A) \cup LinesOf(B)
      BY <2>2, LinesOfTypes
    <3>2. /\ IsFiniteSet(LinesOf(A)) /\ IsFiniteSet(LinesOf(B))
          /\ old.lines \in {LinesOf(A), Smallest(LinesOf(A))}
          /\ new.lines \in {LinesOf(B), Smallest(LinesOf(B))}
      BY <2>2 DEF SlotHolds
    <3>3. IsFiniteSet(LinesOf(A) \cup LinesOf(B))
      BY <3>2, FS_Union
    <3>4. Smallest(old.lines \cup new.lines) = Smallest(LinesOf(A) \cup LinesOf(B))
      <4> HIDE DEF A, B, f
      <4> QED BY <3>1, <3>2, SmallestJoin
    <3>5. f.lines = Smallest(old.lines \cup new.lines)
      BY FoldFields
    <3> QED BY <3>1, <3>3, <3>4, <3>5
  <2>6. ~\E w \in A \cup B : A \cup B = {w}
    BY <1>3
  <2>7. SlotHolds(f, A \cup B)
    <3> HIDE DEF f, A, B
    <3> QED BY <2>4, <2>5, <2>6 DEF SlotHolds
  <2>8. f \in Slots
    <3>1. JoinMin(old.fall, new.fall) \in Nat
      BY <2>2 DEF Slots, JoinMin
    <3>2. CallSites(old) \in SUBSET (Nat \X Nat) /\ CallSites(new) \in SUBSET (Nat \X Nat)
      BY <2>2, GraphBufferAssumption DEF Slots, CallSites, Sites, NoColumn
    <3>3. Smallest(old.lines \cup new.lines) \in SUBSET Nat
      BY <2>2 DEF Smallest, Slots
    <3> QED BY <2>2, <3>1, <3>2, <3>3 DEF Fold, Slots
  <2> QED BY <1>3, <2>1, <2>7, <2>8 DEF SlotInv
<1> QED BY <1>1, <1>2, <1>3

\* What a slot yields is what its writes say.
LEMMA YieldSays ==
    ASSUME NEW s, SlotInv(s), s.writes # {}
    PROVE  EdgeOf(Yield(s), s.writes)
PROOF
<1> DEFINE ws == s.writes
           all == EdgesOf(ws)
           e == Yield(s)
<1>1. SlotHolds(s, ws)
  BY DEF SlotInv
<1>2. /\ e.rank = s.rank /\ e.site = s.site /\ e.eid = s.eid /\ e.lines = s.lines
      /\ e.calls = s.calls /\ e.notes = s.notes /\ e.proofs = s.proofs
      /\ s.source # 0 => e.source = s.source
      /\ s.source = 0 => e.source = s.fall
  BY DEF Yield
<1> HIDE DEF e
<1>3. PICK r \in all : Foremost(r, all) /\ Represents(s, r)
  BY <1>1 DEF SlotHolds, EdgeJoin
<1>4. /\ e.rank = r.rank /\ e.site = r.site /\ e.eid = r.eid
      /\ IF r.source # 0 THEN e.source = r.source ELSE IsLeast(e.source, {v.source : v \in all})
  BY <1>1, <1>2, <1>3 DEF SlotHolds, EdgeJoin, Represents
<1>5. /\ e.notes = UNION {v.notes : v \in all}
      /\ e.proofs = UNION {v.proofs : v \in all}
  BY <1>1, <1>2 DEF SlotHolds, EdgeJoin
<1>6. IF \E w \in ws : ws = {w}
      THEN \A v \in all : e.calls = v.calls /\ e.lines = v.lines
      ELSE /\ e.calls = UNION {CallSites(v) : v \in all}
           /\ e.lines = Smallest(UNION {v.lines : v \in all})
  BY <1>1, <1>2 DEF SlotHolds, LinesOf
<1>7. \A v \in all : /\ v.rank <= r.rank
                     /\ v.rank = r.rank => r.site <= v.site
                     /\ v.rank = r.rank /\ v.site = r.site => r.eid <= v.eid
  BY <1>3 DEF Foremost, AtLeast
<1>8. EdgeOf(e, ws)
  <2> HIDE DEF ws
  <2> QED BY <1>4, <1>5, <1>6, <1>7 DEF EdgeOf
<1> QED BY <1>8 DEF e

(***************************************************************************)
(* The node of an id                                                       *)
(***************************************************************************)

OwnedOf(ws) == {v \in NodesOf(ws) : v.owner # 0}
NamingOf(ws) == IF OwnedOf(ws) # {} THEN OwnedOf(ws) ELSE NodesOf(ws)

Labels(vs) == {v.label : v \in vs}
Owners(vs) == {v.owner : v \in vs}
Sources(vs) == {v.source : v \in vs}

NodeInv(n) == n \in NodeSlots /\ (n.writes # {} => JoinOf(n, n.writes))

LEMMA NodesOfTypes ==
    /\ \A ws : ws \subseteq NodeWrites => NodesOf(ws) \subseteq NodeContents
    /\ \A ws : ws \subseteq NodeWrites => \A v \in OwnedOf(ws) : v.label # 0
    /\ \A A, B : NodesOf(A \cup B) = NodesOf(A) \cup NodesOf(B)
    /\ \A A, B : OwnedOf(A \cup B) = OwnedOf(A) \cup OwnedOf(B)
    /\ \A w : NodesOf({w}) = {Node[w].content}
    /\ \A ws : OwnedOf(ws) \subseteq NodesOf(ws)
BY GraphBufferAssumption DEF NodesOf, OwnedOf

LEMMA JoinOfParts ==
    ASSUME NEW n, NEW ws
    PROVE  JoinOf(n, ws) <=> /\ IsLeast(n.label, Labels(NamingOf(ws)))
                             /\ IsLeast(n.owner, Owners(NodesOf(ws)))
                             /\ IsLeast(n.source, Sources(NodesOf(ws)))
                             /\ n.notes = UNION {v.notes : v \in NodesOf(ws)}
BY DEF JoinOf, NamingOf, OwnedOf, Labels, Owners, Sources

LEMMA UnionsOfFields ==
    /\ \A A, B : /\ Labels(A \cup B) = Labels(A) \cup Labels(B)
                /\ Owners(A \cup B) = Owners(A) \cup Owners(B)
                /\ Sources(A \cup B) = Sources(A) \cup Sources(B)
    /\ \A A : A \subseteq NodeContents =>
          Labels(A) \in SUBSET Nat /\ Owners(A) \in SUBSET Nat /\ Sources(A) \in SUBSET Nat
BY DEF Labels, Owners, Sources, NodeContents

LEMMA NoNodeInv == NodeInv(NoNode) /\ NoNode.writes = {}
BY DEF NodeInv, NoNode, NodeSlots

LEMMA NodeOfInv ==
    ASSUME NEW w \in NodeWrites
    PROVE  NodeInv(NodeOf(w)) /\ NodeOf(w).writes = {w}
PROOF
<1> DEFINE e == Node[w].content
           n == NodeOf(w)
<1>1. e \in NodeContents
  BY GraphBufferAssumption
<1>2. /\ n.writes = {w} /\ n.label = e.label /\ n.owner = e.owner /\ n.source = e.source
      /\ n.notes = e.notes /\ n \in NodeSlots
  BY <1>1 DEF NodeOf, NodeSlots, NodeContents
<1>3. NodesOf({w}) = {e}
  BY NodesOfTypes
<1>4. NamingOf({w}) = {e}
  BY <1>3 DEF NamingOf, OwnedOf
<1> HIDE DEF e, n
<1>5. /\ Labels({e}) = {e.label} /\ Owners({e}) = {e.owner} /\ Sources({e}) = {e.source}
      /\ UNION {v.notes : v \in {e}} = e.notes
  BY DEF Labels, Owners, Sources
<1>6. \A x \in Nat : IsLeast(x, {x})
  BY DEF IsLeast
<1>7. JoinOf(n, {w})
  BY <1>1, <1>2, <1>3, <1>4, <1>5, <1>6, JoinOfParts DEF NodeContents
<1> QED BY <1>2, <1>7 DEF NodeInv, n

\* A node with an owner has its name from the writes with one.
LEMMA LabelKeyOf ==
    ASSUME NEW ws \in SUBSET NodeWrites, NEW n \in NodeSlots, JoinOf(n, ws)
    PROVE  /\ OwnedOf(ws) # {} => n.owner # 0 /\ n.label # 0
           /\ OwnedOf(ws) = {} => n.owner = 0
PROOF
<1>1. IsLeast(n.label, Labels(NamingOf(ws))) /\ IsLeast(n.owner, Owners(NodesOf(ws)))
  BY JoinOfParts
<1>2. CASE OwnedOf(ws) # {}
  <2>1. PICK v \in OwnedOf(ws) : TRUE
    BY <1>2
  <2>2. v.owner # 0 /\ v.owner \in Owners(NodesOf(ws))
    BY DEF OwnedOf, Owners
  <2>3. v.label # 0 /\ v.label \in Labels(NamingOf(ws))
    BY <1>2, NodesOfTypes DEF NamingOf, Labels
  <2> QED BY <1>1, <1>2, <2>2, <2>3 DEF IsLeast
<1>3. CASE OwnedOf(ws) = {}
  <2>1. Owners(NodesOf(ws)) \subseteq {0}
    BY <1>3 DEF OwnedOf, Owners
  <2> QED BY <1>1, <1>3, <2>1 DEF IsLeast
<1> QED BY <1>2, <1>3

\* merge_node keeps the label that names the writes of both sides.
LEMMA LabelJoins ==
    ASSUME NEW A \in SUBSET NodeWrites, NEW B \in SUBSET NodeWrites,
           NEW old \in NodeSlots, NEW new \in NodeSlots, JoinOf(old, A), JoinOf(new, B)
    PROVE  IsLeast(IF NamesBetter(old, new) THEN new.label ELSE old.label,
                   Labels(NamingOf(A \cup B)))
PROOF
<1> DEFINE label == IF NamesBetter(old, new) THEN new.label ELSE old.label
<1>1. /\ IsLeast(old.label, Labels(NamingOf(A))) /\ IsLeast(new.label, Labels(NamingOf(B)))
      /\ old.label \in Nat /\ new.label \in Nat /\ old.owner \in Nat /\ new.owner \in Nat
  BY JoinOfParts DEF NodeSlots
<1>2. OwnedOf(A \cup B) = OwnedOf(A) \cup OwnedOf(B)
  BY NodesOfTypes
<1>3. Labels(NamingOf(A)) \in SUBSET Nat /\ Labels(NamingOf(B)) \in SUBSET Nat
  <2>1. NamingOf(A) \subseteq NodeContents /\ NamingOf(B) \subseteq NodeContents
    BY NodesOfTypes DEF NamingOf
  <2> QED BY <2>1, UnionsOfFields
<1>4. CASE OwnedOf(A) # {} /\ OwnedOf(B) = {}
  <2>1. NamingOf(A \cup B) = NamingOf(A)
    BY <1>2, <1>4 DEF NamingOf
  <2>2. label = old.label
    <3>1. old.owner # 0 /\ old.label # 0 /\ new.owner = 0
      BY <1>4, LabelKeyOf
    <3> QED BY <1>1, <3>1 DEF NamesBetter, LabelKey
  <2> QED BY <1>1, <2>1, <2>2
<1>5. CASE OwnedOf(A) = {} /\ OwnedOf(B) # {}
  <2>1. NamingOf(A \cup B) = NamingOf(B)
    BY <1>2, <1>5 DEF NamingOf
  <2>2. label = new.label
    <3>1. new.owner # 0 /\ new.label # 0 /\ old.owner = 0
      BY <1>5, LabelKeyOf
    <3> QED BY <1>1, <3>1 DEF NamesBetter, LabelKey
  <2> QED BY <1>1, <2>1, <2>2
<1>6. CASE (OwnedOf(A) # {}) <=> (OwnedOf(B) # {})
  <2>1. NamingOf(A \cup B) = NamingOf(A) \cup NamingOf(B)
    BY <1>2, <1>6, NodesOfTypes DEF NamingOf
  <2>2. label = JoinMin(old.label, new.label)
    <3>1. old.owner = 0 <=> new.owner = 0
      BY <1>6, LabelKeyOf
    <3>2. old.owner # 0 => old.label # 0 /\ new.label # 0
      BY <1>6, LabelKeyOf
    <3> QED BY <1>1, <3>1, <3>2 DEF NamesBetter, LabelKey, JoinMin
  <2>3. IsLeast(JoinMin(old.label, new.label), Labels(NamingOf(A)) \cup Labels(NamingOf(B)))
    BY <1>1, <1>3, LeastJoin
  <2>4. Labels(NamingOf(A) \cup NamingOf(B)) = Labels(NamingOf(A)) \cup Labels(NamingOf(B))
    BY UnionsOfFields
  <2> HIDE DEF label
  <2>5. IsLeast(label, Labels(NamingOf(A \cup B)))
    BY <2>1, <2>2, <2>3, <2>4
  <2> QED BY <2>5 DEF label
<1> QED BY <1>4, <1>5, <1>6

LEMMA UpsertedInv ==
    ASSUME NEW old, NEW new, NodeInv(old), NodeInv(new)
    PROVE  /\ NodeInv(Upserted(old, new))
           /\ Upserted(old, new).writes = old.writes \cup new.writes
PROOF
<1>1. CASE new.writes = {}
  BY <1>1 DEF Upserted
<1>2. CASE new.writes # {} /\ old.writes = {}
  BY <1>2 DEF Upserted
<1>3. CASE new.writes # {} /\ old.writes # {}
  <2> DEFINE n == MergeNode(old, new)
             A == old.writes
             B == new.writes
  <2>1. /\ old \in NodeSlots /\ new \in NodeSlots /\ JoinOf(old, A) /\ JoinOf(new, B)
        /\ A \in SUBSET NodeWrites /\ B \in SUBSET NodeWrites
    BY <1>3 DEF NodeInv, NodeSlots
  <2>2. /\ n.writes = A \cup B
        /\ n.label = IF NamesBetter(old, new) THEN new.label ELSE old.label
        /\ n.owner = JoinMin(old.owner, new.owner) /\ n.source = JoinMin(old.source, new.source)
        /\ n.notes = old.notes \cup new.notes
    BY DEF MergeNode
  <2>3. n \in NodeSlots
    BY <2>1 DEF MergeNode, NodeSlots, JoinMin
  <2> HIDE DEF n, A, B
  <2>4. IsLeast(n.label, Labels(NamingOf(A \cup B)))
    BY <2>1, <2>2, LabelJoins
  <2>5. /\ IsLeast(old.owner, Owners(NodesOf(A))) /\ IsLeast(new.owner, Owners(NodesOf(B)))
        /\ IsLeast(old.source, Sources(NodesOf(A))) /\ IsLeast(new.source, Sources(NodesOf(B)))
        /\ old.notes = UNION {v.notes : v \in NodesOf(A)}
        /\ new.notes = UNION {v.notes : v \in NodesOf(B)}
    BY <2>1, JoinOfParts
  <2>6. /\ NodesOf(A) \subseteq NodeContents /\ NodesOf(B) \subseteq NodeContents
        /\ NodesOf(A \cup B) = NodesOf(A) \cup NodesOf(B)
    BY <2>1, NodesOfTypes
  <2>7. old.owner \in Nat /\ new.owner \in Nat /\ old.source \in Nat /\ new.source \in Nat
    BY <2>1 DEF NodeSlots
  <2>8. IsLeast(n.owner, Owners(NodesOf(A \cup B))) /\ IsLeast(n.source, Sources(NodesOf(A \cup B)))
    <3>1. /\ Owners(NodesOf(A)) \in SUBSET Nat /\ Owners(NodesOf(B)) \in SUBSET Nat
          /\ Sources(NodesOf(A)) \in SUBSET Nat /\ Sources(NodesOf(B)) \in SUBSET Nat
      BY <2>6, UnionsOfFields
    <3>2. IsLeast(n.owner, Owners(NodesOf(A)) \cup Owners(NodesOf(B)))
      BY <2>2, <2>5, <2>7, <3>1, LeastJoin
    <3>3. IsLeast(n.source, Sources(NodesOf(A)) \cup Sources(NodesOf(B)))
      BY <2>2, <2>5, <2>7, <3>1, LeastJoin
    <3>4. /\ Owners(NodesOf(A \cup B)) = Owners(NodesOf(A)) \cup Owners(NodesOf(B))
          /\ Sources(NodesOf(A \cup B)) = Sources(NodesOf(A)) \cup Sources(NodesOf(B))
      <4>1. /\ Owners(NodesOf(A) \cup NodesOf(B)) = Owners(NodesOf(A)) \cup Owners(NodesOf(B))
            /\ Sources(NodesOf(A) \cup NodesOf(B)) = Sources(NodesOf(A)) \cup Sources(NodesOf(B))
        BY UnionsOfFields
      <4> QED BY <4>1, <2>6
    <3> QED BY <3>2, <3>3, <3>4
  <2>9. n.notes = UNION {v.notes : v \in NodesOf(A \cup B)}
    BY <2>2, <2>5, <2>6
  <2>10. JoinOf(n, A \cup B)
    BY <2>4, <2>8, <2>9, JoinOfParts
  <2>11. Upserted(old, new) = n
    BY <1>3 DEF Upserted, n
  <2> QED BY <2>2, <2>3, <2>10, <2>11 DEF NodeInv, A, B
<1> QED BY <1>1, <1>2, <1>3

(***************************************************************************)
(* The build: types, and the writes each slot holds                        *)
(***************************************************************************)

\* Every slot of every buffer holds what its writes say.
SlotsInv ==
    /\ \A b \in Buffers, k \in Keys : SlotInv(edges[b][k])
    /\ \A b \in Buffers, i \in Ids : NodeInv(nodes[b][i])

Inv == TypeOK /\ SlotsInv

LEMMA InitInv == Init => Inv
PROOF
<1> SUFFICES ASSUME Init PROVE Inv
  OBVIOUS
<1>1. /\ \A b \in Buffers, k \in Keys : edges[b][k] = NoEdge
      /\ \A b \in Buffers, i \in Ids : nodes[b][i] = NoNode
  BY DEF Init
<1>2. SlotsInv
  BY <1>1, NoEdgeInv, NoNodeInv DEF SlotsInv
<1>3. TypeOK
  <2>1. NoEdge \in Slots /\ NoNode \in NodeSlots
    BY NoEdgeInv, NoNodeInv DEF SlotInv, NodeInv
  <2>2. edges \in [Buffers -> [Keys -> Slots]] /\ nodes \in [Buffers -> [Ids -> NodeSlots]]
    BY <2>1 DEF Init
  <2>3. todo \subseteq EdgeWrites \cup NodeWrites /\ open \subseteq Buffers /\ skipped = {}
    BY DEF Init
  <2>4. /\ \A b \in Buffers, k \in Keys : edges[b][k].writes = {}
        /\ \A b \in Buffers, i \in Ids : nodes[b][i].writes = {}
    BY <1>1, NoEdgeInv, NoNodeInv
  <2> QED BY <2>2, <2>3, <2>4 DEF TypeOK
<1> QED BY <1>2, <1>3 DEF Inv

\* Writing an edge, fact or not, changes its slot and no other.
LEMMA InsertInv ==
    ASSUME Inv, NEW b \in open, NEW w \in todo \cap EdgeWrites, Insert(b, w),
           todo' = todo \ {w}, UNCHANGED <<open, nodes, skipped>>
    PROVE  /\ Inv'
           /\ edges'[b][Edge[w].key].writes = edges[b][Edge[w].key].writes \cup {w}
           /\ edges'[b][Edge[w].key].proofs = edges[b][Edge[w].key].proofs \cup Edge[w].content.proofs
           /\ \A c \in Buffers, k \in Keys : c # b \/ k # Edge[w].key => edges'[c][k] = edges[c][k]
PROOF
<1> DEFINE key == Edge[w].key
           old == edges[b][key]
           new == Inserted(old, SlotOf(w))
<1>1. b \in Buffers /\ key \in Keys /\ w \in EdgeWrites /\ w \in todo
  BY GraphBufferAssumption DEF Inv, TypeOK
<1>2. /\ SlotInv(old) /\ SlotInv(SlotOf(w)) /\ SlotOf(w).writes = {w} /\ w \notin old.writes
      /\ SlotOf(w).proofs = Edge[w].content.proofs
  BY <1>1, SlotOfInv DEF Inv, SlotsInv, TypeOK
<1>3. /\ SlotInv(new) /\ new.writes = old.writes \cup {w}
      /\ new.proofs = old.proofs \cup Edge[w].content.proofs
  <2>1. old.writes \cap SlotOf(w).writes = {}
    BY <1>2
  <2> QED BY <1>2, <2>1, InsertedInv
<1>4. edges \in [Buffers -> [Keys -> Slots]]
  BY DEF Inv, TypeOK
<1>5. /\ edges'[b][key] = new
      /\ \A c \in Buffers, k \in Keys : c # b \/ k # key => edges'[c][k] = edges[c][k]
      /\ edges' \in [Buffers -> [Keys -> Slots]]
  <2>1. new \in Slots
    BY <1>3 DEF SlotInv
  <2> HIDE DEF new
  <2>2. edges' = [edges EXCEPT ![b][key] = new]
    BY DEF Insert, new
  <2> QED BY <1>1, <1>4, <2>1, <2>2
<1> HIDE DEF old, new, key
<1>6. SlotsInv'
  <2>1. \A c \in Buffers, k \in Keys : SlotInv(edges'[c][k])
    BY <1>3, <1>5 DEF Inv, SlotsInv
  <2>2. \A c \in Buffers, i \in Ids : NodeInv(nodes'[c][i])
    BY DEF Inv, SlotsInv
  <2> QED BY <2>1, <2>2 DEF SlotsInv
<1>7. TypeOK'
  <2>1. /\ todo' \subseteq EdgeWrites \cup NodeWrites /\ open' \subseteq Buffers
        /\ skipped' \subseteq FactWrites /\ skipped' \cap todo' = {}
        /\ nodes' \in [Buffers -> [Ids -> NodeSlots]]
    BY DEF Inv, TypeOK
  <2>2. ASSUME NEW c \in Buffers, NEW k \in Keys, NEW v \in edges'[c][k].writes
        PROVE  \/ v \in edges[c][k].writes
               \/ v = w /\ c = b /\ k = key
    BY <1>3, <1>5 DEF old
  <2>3. \A c \in Buffers, k \in Keys : w \notin edges[c][k].writes
    BY <1>1 DEF Inv, TypeOK
  <2>4. ASSUME NEW c \in Buffers, NEW k \in Keys, NEW v \in edges'[c][k].writes
        PROVE  /\ Edge[v].key = k /\ v \notin todo' \cup skipped' /\ c \in open'
               /\ \A d \in Buffers : v \in edges'[d][k].writes => d = c
    <3>1. CASE v \in edges[c][k].writes
      <4>1. v # w /\ Edge[v].key = k /\ v \notin todo \cup skipped /\ c \in open
        BY <2>3, <3>1 DEF Inv, TypeOK
      <4>2. \A d \in Buffers : v \in edges'[d][k].writes => d = c
        <5>1. \A d \in Buffers : v \in edges[d][k].writes => d = c
          BY <3>1 DEF Inv, TypeOK
        <5> QED BY <2>2, <4>1, <5>1
      <4> QED BY <4>1, <4>2
    <3>2. CASE v = w /\ c = b /\ k = key
      <4>1. w \notin skipped /\ b \in open
        BY <1>1 DEF Inv, TypeOK
      <4>2. \A d \in Buffers : w \in edges'[d][k].writes => d = b
        BY <2>2, <2>3
      <4> QED BY <3>2, <4>1, <4>2 DEF key
    <3> QED BY <2>2, <3>1, <3>2
  <2>5. ASSUME NEW c \in Buffers, NEW i \in Ids, NEW v \in nodes'[c][i].writes
        PROVE  /\ Node[v].id = i /\ v \notin todo' /\ c \in open'
               /\ \A d \in Buffers : v \in nodes'[d][i].writes => d = c
    BY DEF Inv, TypeOK
  <2> QED BY <1>5, <2>1, <2>4, <2>5 DEF TypeOK
<1> QED BY <1>3, <1>5, <1>6, <1>7 DEF Inv, key, old

LEMMA UpsertInv ==
    ASSUME Inv, NEW b \in open, NEW w \in todo, UpsertNode(b, w)
    PROVE  Inv'
PROOF
<1> DEFINE id == Node[w].id
           old == nodes[b][id]
           new == Upserted(old, NodeOf(w))
<1>1. b \in Buffers /\ id \in Ids /\ w \in NodeWrites /\ w \in todo
  BY GraphBufferAssumption DEF Inv, TypeOK, UpsertNode
<1>2. NodeInv(old) /\ NodeInv(NodeOf(w)) /\ NodeOf(w).writes = {w}
  BY <1>1, NodeOfInv DEF Inv, SlotsInv
<1>3. NodeInv(new) /\ new.writes = old.writes \cup {w}
  BY <1>2, UpsertedInv
<1>4. nodes \in [Buffers -> [Ids -> NodeSlots]]
  BY DEF Inv, TypeOK
<1>5. /\ nodes'[b][id] = new
      /\ \A c \in Buffers, i \in Ids : c # b \/ i # id => nodes'[c][i] = nodes[c][i]
      /\ nodes' \in [Buffers -> [Ids -> NodeSlots]]
  <2>1. new \in NodeSlots
    BY <1>3 DEF NodeInv
  <2> HIDE DEF new
  <2>2. nodes' = [nodes EXCEPT ![b][id] = new]
    BY DEF UpsertNode, new
  <2> QED BY <1>1, <1>4, <2>1, <2>2
<1>6. todo' = todo \ {w} /\ UNCHANGED <<open, edges, skipped>>
  BY DEF UpsertNode
<1> HIDE DEF old, new, id
<1>7. SlotsInv'
  <2>1. \A c \in Buffers, k \in Keys : SlotInv(edges'[c][k])
    BY <1>6 DEF Inv, SlotsInv
  <2>2. \A c \in Buffers, i \in Ids : NodeInv(nodes'[c][i])
    BY <1>3, <1>5 DEF Inv, SlotsInv
  <2> QED BY <2>1, <2>2 DEF SlotsInv
<1>8. TypeOK'
  <2>1. /\ todo' \subseteq EdgeWrites \cup NodeWrites /\ open' \subseteq Buffers
        /\ skipped' \subseteq FactWrites /\ skipped' \cap todo' = {}
        /\ edges' \in [Buffers -> [Keys -> Slots]]
    BY <1>6 DEF Inv, TypeOK
  <2>2. ASSUME NEW c \in Buffers, NEW i \in Ids, NEW v \in nodes'[c][i].writes
        PROVE  \/ v \in nodes[c][i].writes
               \/ v = w /\ c = b /\ i = id
    BY <1>3, <1>5 DEF old
  <2>3. \A c \in Buffers, i \in Ids : w \notin nodes[c][i].writes
    BY <1>1 DEF Inv, TypeOK
  <2>4. ASSUME NEW c \in Buffers, NEW i \in Ids, NEW v \in nodes'[c][i].writes
        PROVE  /\ Node[v].id = i /\ v \notin todo' /\ c \in open'
               /\ \A d \in Buffers : v \in nodes'[d][i].writes => d = c
    <3>1. CASE v \in nodes[c][i].writes
      <4>1. v # w /\ Node[v].id = i /\ v \notin todo /\ c \in open
        BY <2>3, <3>1 DEF Inv, TypeOK
      <4>2. \A d \in Buffers : v \in nodes'[d][i].writes => d = c
        <5>1. \A d \in Buffers : v \in nodes[d][i].writes => d = c
          BY <3>1 DEF Inv, TypeOK
        <5> QED BY <2>2, <4>1, <5>1
      <4> QED BY <4>1, <4>2, <1>6
    <3>2. CASE v = w /\ c = b /\ i = id
      <4>1. \A d \in Buffers : w \in nodes'[d][i].writes => d = b
        BY <2>2, <2>3
      <4> QED BY <3>2, <4>1, <1>6 DEF id
    <3> QED BY <2>2, <3>1, <3>2
  <2>5. ASSUME NEW c \in Buffers, NEW k \in Keys, NEW v \in edges'[c][k].writes
        PROVE  /\ Edge[v].key = k /\ v \notin todo' \cup skipped' /\ c \in open'
               /\ \A d \in Buffers : v \in edges'[d][k].writes => d = c
    BY <1>6 DEF Inv, TypeOK
  <2> QED BY <1>5, <2>1, <2>4, <2>5 DEF TypeOK
<1> QED BY <1>7, <1>8 DEF Inv

LEMMA SkipInv ==
    ASSUME Inv, NEW b \in open, NEW w \in todo, SkipFact(b, w)
    PROVE  Inv'
PROOF
<1>1. /\ w \in FactWrites /\ todo' = todo \ {w} /\ skipped' = skipped \cup {w}
      /\ UNCHANGED <<open, edges, nodes>>
  BY DEF SkipFact
<1>2. SlotsInv'
  BY <1>1 DEF Inv, SlotsInv
<1>3. \A c \in Buffers, k \in Keys : w \notin edges[c][k].writes
  BY DEF Inv, TypeOK
<1>4. TypeOK'
  BY <1>1, <1>3 DEF Inv, TypeOK
<1> QED BY <1>2, <1>4 DEF Inv

\* Merging changes the slots of the two buffers, and loses no write.
LEMMA MergeInv ==
    ASSUME Inv, NEW b \in open, NEW c \in open, Merge(b, c)
    PROVE  /\ Inv'
           /\ \A d \in Buffers, k \in Keys :
                 edges'[d][k].writes \subseteq edges[d][k].writes \cup edges[c][k].writes
PROOF
<1>1. /\ b \in Buffers /\ c \in Buffers /\ b # c
      /\ open' = open \ {c} /\ UNCHANGED <<todo, skipped>>
  BY DEF Inv, TypeOK, Merge
<1>2. edges \in [Buffers -> [Keys -> Slots]] /\ nodes \in [Buffers -> [Ids -> NodeSlots]]
  BY DEF Inv, TypeOK
<1>3. /\ \A k \in Keys : edges'[b][k] = Inserted(edges[b][k], edges[c][k]) /\ edges'[c][k] = NoEdge
      /\ \A d \in Buffers \ {b, c} : edges'[d] = edges[d]
      /\ DOMAIN edges' = Buffers /\ edges' = [d \in Buffers |-> edges'[d]]
      /\ edges'[b] = [k \in Keys |-> edges'[b][k]] /\ edges'[c] = [k \in Keys |-> edges'[c][k]]
  BY <1>1, <1>2 DEF Merge
<1>4. /\ \A i \in Ids : nodes'[b][i] = Upserted(nodes[b][i], nodes[c][i]) /\ nodes'[c][i] = NoNode
      /\ \A d \in Buffers \ {b, c} : nodes'[d] = nodes[d]
      /\ DOMAIN nodes' = Buffers /\ nodes' = [d \in Buffers |-> nodes'[d]]
      /\ nodes'[b] = [i \in Ids |-> nodes'[b][i]] /\ nodes'[c] = [i \in Ids |-> nodes'[c][i]]
  BY <1>1, <1>2 DEF Merge
<1>5. ASSUME NEW k \in Keys
      PROVE  /\ SlotInv(edges'[b][k])
             /\ edges'[b][k].writes = edges[b][k].writes \cup edges[c][k].writes
  <2>1. SlotInv(edges[b][k]) /\ SlotInv(edges[c][k])
    BY <1>1 DEF Inv, SlotsInv
  <2>2. edges[b][k].writes \cap edges[c][k].writes = {}
    BY <1>1 DEF Inv, TypeOK
  <2> QED BY <2>1, <2>2, <1>3, InsertedInv
<1>6. ASSUME NEW i \in Ids
      PROVE  /\ NodeInv(nodes'[b][i])
             /\ nodes'[b][i].writes = nodes[b][i].writes \cup nodes[c][i].writes
  <2>1. NodeInv(nodes[b][i]) /\ NodeInv(nodes[c][i])
    BY <1>1 DEF Inv, SlotsInv
  <2> QED BY <2>1, <1>4, UpsertedInv
<1>7. SlotsInv'
  <2>1. ASSUME NEW d \in Buffers, NEW k \in Keys PROVE SlotInv(edges'[d][k])
    BY <1>3, <1>5, NoEdgeInv DEF Inv, SlotsInv
  <2>2. ASSUME NEW d \in Buffers, NEW i \in Ids PROVE NodeInv(nodes'[d][i])
    BY <1>4, <1>6, NoNodeInv DEF Inv, SlotsInv
  <2> QED BY <2>1, <2>2 DEF SlotsInv
<1>8. edges' \in [Buffers -> [Keys -> Slots]]
  <2>1. ASSUME NEW d \in Buffers PROVE edges'[d] \in [Keys -> Slots]
    <3>1. \A k \in Keys : edges'[d][k] \in Slots
      BY <1>7 DEF SlotsInv, SlotInv
    <3>2. edges'[d] = [k \in Keys |-> edges'[d][k]]
      BY <1>2, <1>3
    <3> QED BY <3>1, <3>2
  <2> QED BY <2>1, <1>3
<1>9. nodes' \in [Buffers -> [Ids -> NodeSlots]]
  <2>1. ASSUME NEW d \in Buffers PROVE nodes'[d] \in [Ids -> NodeSlots]
    <3>1. \A i \in Ids : nodes'[d][i] \in NodeSlots
      BY <1>7 DEF SlotsInv, NodeInv
    <3>2. nodes'[d] = [i \in Ids |-> nodes'[d][i]]
      BY <1>2, <1>4
    <3> QED BY <3>1, <3>2
  <2> QED BY <2>1, <1>4
<1>10. ASSUME NEW d \in Buffers, NEW k \in Keys, NEW v \in edges'[d][k].writes
       PROVE  /\ d # c
              /\ v \in edges[d][k].writes \/ (d = b /\ v \in edges[c][k].writes)
  BY <1>1, <1>3, <1>5, NoEdgeInv
<1>11. ASSUME NEW d \in Buffers, NEW i \in Ids, NEW v \in nodes'[d][i].writes
       PROVE  /\ d # c
              /\ v \in nodes[d][i].writes \/ (d = b /\ v \in nodes[c][i].writes)
  BY <1>1, <1>4, <1>6, NoNodeInv
<1>12. TypeOK'
  <2>1. ASSUME NEW d \in Buffers, NEW k \in Keys, NEW v \in edges'[d][k].writes
        PROVE  /\ Edge[v].key = k /\ v \notin todo' \cup skipped' /\ d \in open'
               /\ \A a \in Buffers : v \in edges'[a][k].writes => a = d
    <3>1. Edge[v].key = k /\ v \notin todo \cup skipped /\ d \in open
      BY <1>1, <1>10 DEF Inv, TypeOK
    <3>2. ASSUME NEW a \in Buffers, v \in edges'[a][k].writes PROVE a = d
      <4>1. /\ a # c /\ d # c
            /\ v \in edges[a][k].writes \/ (a = b /\ v \in edges[c][k].writes)
            /\ v \in edges[d][k].writes \/ (d = b /\ v \in edges[c][k].writes)
        BY <3>2, <1>10
      <4>2. \A x, y \in Buffers : v \in edges[x][k].writes /\ v \in edges[y][k].writes => x = y
        BY DEF Inv, TypeOK
      <4> QED BY <1>1, <4>1, <4>2
    <3> QED BY <1>1, <1>10, <3>1, <3>2
  <2>2. ASSUME NEW d \in Buffers, NEW i \in Ids, NEW v \in nodes'[d][i].writes
        PROVE  /\ Node[v].id = i /\ v \notin todo' /\ d \in open'
               /\ \A a \in Buffers : v \in nodes'[a][i].writes => a = d
    <3>1. Node[v].id = i /\ v \notin todo /\ d \in open
      BY <1>1, <1>11 DEF Inv, TypeOK
    <3>2. ASSUME NEW a \in Buffers, v \in nodes'[a][i].writes PROVE a = d
      <4>1. /\ a # c /\ d # c
            /\ v \in nodes[a][i].writes \/ (a = b /\ v \in nodes[c][i].writes)
            /\ v \in nodes[d][i].writes \/ (d = b /\ v \in nodes[c][i].writes)
        BY <3>2, <1>11
      <4>2. \A x, y \in Buffers : v \in nodes[x][i].writes /\ v \in nodes[y][i].writes => x = y
        BY DEF Inv, TypeOK
      <4> QED BY <1>1, <4>1, <4>2
    <3> QED BY <1>1, <1>11, <3>1, <3>2
  <2>3. /\ todo' \subseteq EdgeWrites \cup NodeWrites /\ open' \subseteq Buffers
        /\ skipped' \subseteq FactWrites /\ skipped' \cap todo' = {}
    BY <1>1 DEF Inv, TypeOK
  <2> QED BY <1>8, <1>9, <2>1, <2>2, <2>3 DEF TypeOK
<1> QED BY <1>7, <1>10, <1>12 DEF Inv

LEMMA NextInv == Inv /\ [Next]_vars => Inv'
PROOF
<1> SUFFICES ASSUME Inv, [Next]_vars PROVE Inv'
  OBVIOUS
<1>1. ASSUME NEW b \in open, NEW w \in todo, InsertEdge(b, w) PROVE Inv'
  <2>1. w \in todo \cap EdgeWrites /\ Insert(b, w) /\ todo' = todo \ {w}
        /\ UNCHANGED <<open, nodes, skipped>>
    BY <1>1 DEF InsertEdge
  <2> QED BY <2>1, InsertInv
<1>2. ASSUME NEW b \in open, NEW w \in todo, UpsertNode(b, w) PROVE Inv'
  BY <1>2, UpsertInv
<1>3. ASSUME NEW b \in open, NEW w \in todo, WriteFact(b, w) PROVE Inv'
  <2>1. w \in todo \cap EdgeWrites /\ Insert(b, w) /\ todo' = todo \ {w}
        /\ UNCHANGED <<open, nodes, skipped>>
    BY <1>3, GraphBufferAssumption DEF WriteFact
  <2> QED BY <2>1, InsertInv
<1>4. ASSUME NEW b \in open, NEW w \in todo, SkipFact(b, w) PROVE Inv'
  BY <1>4, SkipInv
<1>5. ASSUME NEW b \in open, NEW c \in open, Merge(b, c) PROVE Inv'
  BY <1>5, MergeInv
<1>6. CASE UNCHANGED vars
  BY <1>6 DEF vars, Inv, TypeOK, SlotsInv
<1> QED BY <1>1, <1>2, <1>3, <1>4, <1>5, <1>6 DEF Next

\* Each write is in one place.
THEOREM BufferTypeCorrect == Spec => []TypeOK
PROOF
<1>1. Inv => TypeOK
  BY DEF Inv
<1> QED BY <1>1, InitInv, NextInv, PTL DEF Spec

\* In every build, whatever the order of the writes and the merges, each edge is what its
\* writes say together.
THEOREM EdgesAreJoined == Spec => []EdgesJoined
PROOF
<1>1. Inv => EdgesJoined
  BY YieldSays DEF Inv, SlotsInv, EdgesJoined
<1> QED BY <1>1, InitInv, NextInv, PTL DEF Spec

\* And that is one thing: two orders in which the same writes of an edge are folded yield the
\* same edge, field by field.
THEOREM OneEdgeOfWrites ==
    ASSUME NEW k \in Keys, NEW ws \in SUBSET EdgeWrites, \A w \in ws : Edge[w].key = k,
           NEW s, NEW t, EdgeOf(s, ws), EdgeOf(t, ws)
    PROVE  /\ s.rank = t.rank /\ s.site = t.site /\ s.eid = t.eid /\ s.source = t.source
           /\ s.notes = t.notes /\ s.proofs = t.proofs
           /\ s.calls = t.calls /\ s.lines = t.lines
PROOF
<1> DEFINE all == EdgesOf(ws)
           sources == {v.source : v \in all}
<1>1. all \subseteq EdgeContents
  BY EdgesOfTypes
<1>2. PICK p \in all :
          /\ Foremost(p, all) /\ s.rank = p.rank /\ s.site = p.site /\ s.eid = p.eid
          /\ IF p.source # 0 THEN s.source = p.source ELSE IsLeast(s.source, sources)
  BY DEF EdgeOf, Foremost, AtLeast
<1>3. PICK q \in all :
          /\ Foremost(q, all) /\ t.rank = q.rank /\ t.site = q.site /\ t.eid = q.eid
          /\ IF q.source # 0 THEN t.source = q.source ELSE IsLeast(t.source, sources)
  BY DEF EdgeOf, Foremost, AtLeast
<1>4. p.rank = q.rank /\ p.site = q.site /\ p.eid = q.eid
  <2>1. AtLeast(p, q) /\ AtLeast(q, p)
    BY <1>2, <1>3 DEF Foremost
  <2>2. /\ p.rank \in Nat /\ q.rank \in Nat /\ p.site \in Int /\ q.site \in Int
        /\ p.eid \in Nat /\ q.eid \in Nat
    BY <1>1, GraphBufferAssumption DEF EdgeContents, Sites
  <2> QED BY <2>1, <2>2 DEF AtLeast
<1>5. p.source = q.source
  <2>1. PICK v \in ws : p = Edge[v].content
    BY DEF EdgesOf
  <2>2. PICK w \in ws : q = Edge[w].content
    BY DEF EdgesOf
  <2> QED BY <1>4, <2>1, <2>2, GraphBufferAssumption
<1>6. s.source = t.source
  <2>1. sources \in SUBSET Nat
    BY <1>1 DEF EdgeContents
  <2> HIDE DEF sources
  <2>2. \A x, y : IsLeast(x, sources) /\ IsLeast(y, sources) => x = y
    BY <2>1, LeastUnique
  <2> QED BY <1>2, <1>3, <1>5, <2>2
<1>7. s.notes = t.notes /\ s.proofs = t.proofs
  BY DEF EdgeOf
<1>8. s.calls = t.calls /\ s.lines = t.lines
  <2>1. CASE \E w \in ws : ws = {w}
    BY <1>2, <2>1 DEF EdgeOf
  <2>2. CASE ~\E w \in ws : ws = {w}
    BY <2>2 DEF EdgeOf
  <2> QED BY <2>1, <2>2
<1> QED BY <1>2, <1>3, <1>4, <1>6, <1>7, <1>8

(***************************************************************************)
(* Nodes                                                                   *)
(***************************************************************************)

\* A node has the label and the owner of one of its writes.
LEMMA OfOneWrite ==
    ASSUME NEW i \in Ids, NEW ws \in SUBSET NodeWrites, ws # {},
           \A w \in ws : Node[w].id = i, NEW n \in NodeSlots, JoinOf(n, ws)
    PROVE  \E w \in ws : Node[w].content.label = n.label /\ Node[w].content.owner = n.owner
PROOF
<1>1. IsLeast(n.label, Labels(NamingOf(ws))) /\ IsLeast(n.owner, Owners(NodesOf(ws)))
  BY JoinOfParts
<1>2. CASE OwnedOf(ws) # {}
  <2>1. n.owner # 0 /\ n.label # 0
    BY <1>2, LabelKeyOf
  <2>2. n.label \in Labels(OwnedOf(ws)) /\ n.owner \in Owners(NodesOf(ws))
    <3>1. n.label \in Labels(NamingOf(ws)) /\ n.owner \in Owners(NodesOf(ws))
      BY <1>1, <2>1 DEF IsLeast
    <3> QED BY <1>2, <3>1 DEF NamingOf
  <2>3. PICK v \in ws : Node[v].content.label = n.label /\ Node[v].content.owner # 0
    BY <2>2 DEF Labels, OwnedOf, NodesOf
  <2>4. PICK w \in ws : Node[w].content.owner = n.owner
    BY <2>2 DEF Owners, NodesOf
  <2>5. Node[v].content.owner = Node[w].content.owner
    BY <2>1, <2>3, <2>4, GraphBufferAssumption
  <2> QED BY <2>3, <2>4, <2>5
<1>3. CASE OwnedOf(ws) = {}
  <2>1. n.owner = 0 /\ \A w \in ws : Node[w].content.owner = 0
    BY <1>3, LabelKeyOf DEF OwnedOf, NodesOf
  <2>2. \E w \in ws : Node[w].content.label = n.label
    <3>1. IsLeast(n.label, Labels(NodesOf(ws)))
      BY <1>1, <1>3 DEF NamingOf
    <3>2. CASE Labels(NodesOf(ws)) \subseteq {0}
      <4>1. n.label = 0
        BY <3>1, <3>2 DEF IsLeast
      <4>2. \A w \in ws : Node[w].content.label = 0
        BY <3>2 DEF Labels, NodesOf
      <4> QED BY <4>1, <4>2
    <3>3. CASE ~(Labels(NodesOf(ws)) \subseteq {0})
      <4>1. n.label \in Labels(NodesOf(ws))
        BY <3>1, <3>3 DEF IsLeast
      <4> QED BY <4>1 DEF Labels, NodesOf
    <3> QED BY <3>2, <3>3
  <2> QED BY <2>1, <2>2
<1> QED BY <1>2, <1>3

\* In every build each node is what its writes say together, under an id of its own.
THEOREM NodesAreJoined == Spec => []NodesJoined
PROOF
<1>1. ASSUME Inv PROVE NodesJoined
  <2>1. ASSUME NEW b \in Buffers, NEW i \in Ids, Named(b, i)
        PROVE  JoinOf(nodes[b][i], nodes[b][i].writes)
    BY <1>1, <2>1 DEF Inv, SlotsInv, NodeInv, Named
  <2>2. ASSUME NEW b \in Buffers, NEW i \in Ids, Named(b, i)
        PROVE  \E w \in NodeWrites : /\ Node[w].id = i
                                    /\ Node[w].content.label = nodes[b][i].label
                                    /\ Node[w].content.owner = nodes[b][i].owner
    <3>1. /\ nodes[b][i] \in NodeSlots /\ nodes[b][i].writes \in SUBSET NodeWrites
          /\ nodes[b][i].writes # {} /\ \A w \in nodes[b][i].writes : Node[w].id = i
      BY <1>1, <2>2 DEF Inv, SlotsInv, NodeInv, NodeSlots, TypeOK, Named
    <3> QED BY <2>1, <2>2, <3>1, OfOneWrite
  <2>3. ASSUME NEW b \in Buffers, NEW c \in Buffers, NEW i \in Ids, NEW j \in Ids,
               Named(b, i), Named(c, j),
               nodes[b][i].label = nodes[c][j].label, nodes[b][i].owner = nodes[c][j].owner
        PROVE  i = j
    BY <2>2, <2>3, GraphBufferAssumption
  <2> QED BY <2>1, <2>3 DEF NodesJoined
<1> QED BY <1>1, InitInv, NextInv, PTL DEF Spec

(***************************************************************************)
(* Facts                                                                   *)
(***************************************************************************)

\* A fact is written, or left out, only once every other edge is in the last buffer.
FactsCame == skipped # {} \/ \E b \in Buffers, k \in Keys : edges[b][k].writes \cap FactWrites # {}

FactsInv ==
    /\ FactsKeepOff
    /\ FactsCame => todo \cap EdgeWrites \subseteq FactWrites /\ \E b \in Buffers : open = {b}

\* Without facts there is nothing to keep off.
LEMMA NoFactsYet ==
    ASSUME skipped = {}, \A b \in Buffers, k \in Keys : edges[b][k].writes \cap FactWrites = {}
    PROVE  FactsInv
BY GraphBufferAssumption DEF FactsInv, FactsCame, FactsKeepOff

LEMMA WriteKeepsOff ==
    ASSUME Inv, FactsInv, NEW b \in open, NEW w \in todo, WriteFact(b, w)
    PROVE  FactsInv'
PROOF
<1> DEFINE key == Edge[w].key
<1>1. /\ w \in FactWrites /\ w \notin SelfUses /\ ~AboveHeuristic(edges[b][key]) /\ open = {b}
      /\ todo \cap EdgeWrites \subseteq FactWrites /\ todo' = todo \ {w}
      /\ UNCHANGED <<open, nodes, skipped>> /\ b \in Buffers /\ key \in Keys
      /\ w \in todo \cap EdgeWrites /\ Insert(b, w)
  BY GraphBufferAssumption DEF WriteFact, FactsMayCome, LeftOut, Inv, TypeOK
<1>2. /\ edges'[b][key].writes = edges[b][key].writes \cup {w}
      /\ edges'[b][key].proofs = edges[b][key].proofs \cup Edge[w].content.proofs
      /\ \A c \in Buffers, k \in Keys : c # b \/ k # key => edges'[c][k] = edges[c][k]
  BY <1>1, InsertInv
<1>3. edges'[b][key].proofs = edges[b][key].proofs
  BY <1>1, <1>2, GraphBufferAssumption
<1> HIDE DEF key
<1>4. \A c \in Buffers, k \in Keys : AboveHeuristic(edges'[c][k]) <=> AboveHeuristic(edges[c][k])
  BY <1>2, <1>3 DEF AboveHeuristic
<1>5. ASSUME NEW c \in Buffers, NEW k \in Keys
      PROVE  /\ AboveHeuristic(edges'[c][k]) => edges'[c][k].writes \cap FactWrites = {}
             /\ edges'[c][k].writes \cap SelfUses = {}
             /\ open' = {c} => \A v \in skipped' \ SelfUses :
                                Edge[v].key = k => AboveHeuristic(edges'[c][k])
  <2>1. /\ AboveHeuristic(edges[c][k]) => edges[c][k].writes \cap FactWrites = {}
        /\ edges[c][k].writes \cap SelfUses = {}
        /\ open = {c} => \A v \in skipped \ SelfUses :
                           Edge[v].key = k => AboveHeuristic(edges[c][k])
    BY DEF FactsInv, FactsKeepOff
  <2>2. CASE c = b /\ k = key
    BY <1>1, <1>2, <1>4, <2>1, <2>2 DEF key
  <2>3. CASE c # b \/ k # key
    BY <1>1, <1>2, <1>4, <2>1, <2>3
  <2> QED BY <2>2, <2>3
<1>6. FactsKeepOff'
  BY <1>5 DEF FactsKeepOff
<1> QED BY <1>1, <1>6 DEF FactsInv

LEMMA SkipKeepsOff ==
    ASSUME Inv, FactsInv, NEW b \in open, NEW w \in todo, SkipFact(b, w)
    PROVE  FactsInv'
PROOF
<1>1. /\ open = {b} /\ b \in Buffers /\ todo \cap EdgeWrites \subseteq FactWrites
      /\ todo' = todo \ {w} /\ skipped' = skipped \cup {w} /\ UNCHANGED <<open, edges, nodes>>
      /\ w \in SelfUses \/ AboveHeuristic(edges[b][Edge[w].key])
  BY DEF SkipFact, FactsMayCome, LeftOut, Inv, TypeOK
<1>2. FactsKeepOff'
  BY <1>1 DEF FactsInv, FactsKeepOff, AboveHeuristic
<1> QED BY <1>1, <1>2 DEF FactsInv

LEMMA NextKeepsOff == Inv /\ FactsInv /\ [Next]_vars => FactsInv'
PROOF
<1> SUFFICES ASSUME Inv, FactsInv, [Next]_vars PROVE FactsInv'
  OBVIOUS
<1>1. ASSUME NEW b \in open, NEW w \in todo, InsertEdge(b, w) PROVE FactsInv'
  <2>1. /\ w \in todo \cap EdgeWrites /\ w \notin FactWrites /\ Insert(b, w)
        /\ todo' = todo \ {w} /\ UNCHANGED <<open, nodes, skipped>>
    BY <1>1 DEF InsertEdge
  <2>2. ~FactsCame
    BY <2>1 DEF FactsInv
  <2>3. /\ edges'[b][Edge[w].key].writes = edges[b][Edge[w].key].writes \cup {w}
        /\ \A c \in Buffers, k \in Keys : c # b \/ k # Edge[w].key => edges'[c][k] = edges[c][k]
    BY <2>1, InsertInv
  <2>4. \A c \in Buffers, k \in Keys : edges'[c][k].writes \cap FactWrites = {}
    BY <2>1, <2>2, <2>3 DEF FactsCame
  <2>5. skipped' = {}
    BY <2>1, <2>2 DEF FactsCame
  <2> QED BY <2>4, <2>5, GraphBufferAssumption DEF FactsInv, FactsCame, FactsKeepOff
<1>2. ASSUME NEW b \in open, NEW w \in todo, UpsertNode(b, w) PROVE FactsInv'
  <2>1. todo' = todo \ {w} /\ UNCHANGED <<open, edges, skipped>>
    BY <1>2 DEF UpsertNode
  <2> QED BY <2>1 DEF FactsInv, FactsCame, FactsKeepOff, AboveHeuristic
<1>3. ASSUME NEW b \in open, NEW w \in todo, WriteFact(b, w) PROVE FactsInv'
  BY <1>3, WriteKeepsOff
<1>4. ASSUME NEW b \in open, NEW w \in todo, SkipFact(b, w) PROVE FactsInv'
  BY <1>4, SkipKeepsOff
<1>5. ASSUME NEW b \in open, NEW c \in open, Merge(b, c) PROVE FactsInv'
  <2>1. b # c /\ UNCHANGED <<todo, skipped>> /\ c \in Buffers
    BY <1>5 DEF Merge, Inv, TypeOK
  <2>2. ~FactsCame
    BY <2>1 DEF FactsInv
  <2>3. \A d \in Buffers, k \in Keys :
            edges'[d][k].writes \subseteq edges[d][k].writes \cup edges[c][k].writes
    BY <1>5, MergeInv
  <2>4. \A d \in Buffers, k \in Keys : edges'[d][k].writes \cap FactWrites = {}
    BY <2>1, <2>2, <2>3 DEF FactsCame
  <2>5. skipped' = {}
    BY <2>1, <2>2 DEF FactsCame
  <2> QED BY <2>4, <2>5, GraphBufferAssumption DEF FactsInv, FactsCame, FactsKeepOff
<1>6. CASE UNCHANGED vars
  BY <1>6 DEF vars, FactsInv, FactsCame, FactsKeepOff, AboveHeuristic
<1> QED BY <1>1, <1>2, <1>3, <1>4, <1>5, <1>6 DEF Next

\* In every build a fact leaves the edges that proofs establish as they were.
THEOREM FactsStayOff == Spec => []FactsKeepOff
PROOF
<1>1. Init => FactsInv
  <2> SUFFICES ASSUME Init PROVE FactsInv
    OBVIOUS
  <2>1. skipped = {} /\ \A b \in Buffers, k \in Keys : edges[b][k].writes = {}
    BY NoEdgeInv DEF Init
  <2> QED BY <2>1, NoFactsYet
<1>2. FactsInv => FactsKeepOff
  BY DEF FactsInv
<1> QED BY <1>1, <1>2, InitInv, NextInv, NextKeepsOff, PTL DEF Spec
=============================================================================
