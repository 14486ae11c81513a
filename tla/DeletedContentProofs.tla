------------------------ MODULE DeletedContentProofs -------------------------
(***************************************************************************)
(* Proofs about DeletedContent, for any paths and contents and any order   *)
(* of runs, failures and cuts: what leaves the index is gone from the      *)
(* bytes and from the derived stores, or the manifest says that it may     *)
(* not be.                                                                 *)
(***************************************************************************)
EXTENDS DeletedContent, TLAPS

-----------------------------------------------------------------------------
(***************************************************************************)
(* Scans, manifests and the state of a run.                                *)
(***************************************************************************)

ScanType ==
    [files : SUBSET Sources, history : SUBSET HistoryPaths,
     excluded : SUBSET (Deniable \cup Ignorable), denied : SUBSET Deniable,
     skips : SUBSET Skippable, hidden : [Skippable -> Sources \cup {NoContent}]]

\* What a scan finds agrees with the policy it follows.
ScanFits(scan) ==
    /\ scan.files \cap scan.excluded = {}
    /\ scan.history \cap scan.denied = {}
    /\ scan.denied \subseteq scan.excluded
    /\ Permanent \subseteq scan.files
    /\ \A s \in scan.skips : scan.hidden[s] \in Sources

LEMMA ScanFields ==
    ASSUME NEW p \in SUBSET Sources, NEW h \in SUBSET HistoryPaths,
           NEW d \in SUBSET Deniable, NEW i \in SUBSET Ignorable,
           NEW v \in [Vaults -> Sources \cup {NoContent}]
    PROVE  Scan(p, h, d, i, v) \in ScanType
PROOF
<1>1. /\ p \ (d \cup i) \in SUBSET Sources /\ h \ d \in SUBSET HistoryPaths
      /\ d \cup i \in SUBSET (Deniable \cup Ignorable)
      /\ (p \cap d) \cup {x \in Vaults : v[x] # NoContent} \in SUBSET Skippable
  BY DEF Skippable
<1>2. [s \in Skippable |-> IF s \in Vaults THEN v[s] ELSE IF s \in p \cap d THEN s ELSE NoContent]
        \in [Skippable -> Sources \cup {NoContent}]
  BY DEF Skippable
<1> QED BY <1>1, <1>2 DEF Scan, ScanType

LEMMA ScansFit ==
    ASSUME NEW scan \in Scans
    PROVE  scan \in ScanType /\ ScanFits(scan)
PROOF
<1>1. PICK p \in {q \in SUBSET Sources : Permanent \subseteq q}, h \in SUBSET HistoryPaths,
           d \in SUBSET Deniable, i \in SUBSET Ignorable,
           v \in [Vaults -> (Sources \ Permanent) \cup {NoContent}] :
         scan = Scan(p, h, d, i, v)
  BY DEF Scans
<1>2. p \in SUBSET Sources /\ v \in [Vaults -> Sources \cup {NoContent}]
  OBVIOUS
<1>3. scan \in ScanType
  BY <1>1, <1>2, ScanFields
<1>4. /\ scan.files = p \ (d \cup i) /\ scan.history = h \ d
      /\ scan.excluded = d \cup i /\ scan.denied = d
      /\ scan.skips = (p \cap d) \cup {x \in Vaults : v[x] # NoContent}
      /\ scan.hidden = [s \in Skippable |->
                          IF s \in Vaults THEN v[s] ELSE IF s \in p \cap d THEN s ELSE NoContent]
  BY <1>1 DEF Scan
<1>5. Permanent \subseteq scan.files
  BY <1>4, PathsAssumption
<1>6. ASSUME NEW s \in scan.skips PROVE scan.hidden[s] \in Sources
  <2>1. s \in Skippable
    BY <1>3 DEF ScanType
  <2>2. CASE s \in p \cap d
    BY <1>2, <1>4, <2>1, <2>2, PathsAssumption
  <2>3. CASE s \in Vaults /\ v[s] # NoContent
    BY <1>2, <1>4, <2>1, <2>3
  <2> QED BY <1>4, <2>2, <2>3
<1> QED BY <1>3, <1>4, <1>5, <1>6 DEF ScanFits

LEMMA ManifestFields ==
    ASSUME NEW m \in Manifests
    PROVE  /\ m.skips \subseteq Skippable
           /\ m.del \in BOOLEAN /\ m.prune \in BOOLEAN /\ m.pre \in BOOLEAN
           /\ m # NoManifest /\ m # Unreadable
PROOF BY ManifestAssumption DEF Manifests

LEMMA RunFields ==
    ASSUME NEW r \in Runs
    PROVE  /\ r.kind \in {"index", "start", "event"}
           /\ r.scan \in ScanType
           /\ r.previous \in Manifests \cup {NoManifest, Unreadable}
           /\ r.indexed \subseteq Sources /\ r.named \subseteq HistoryPaths
           /\ r.partial \in BOOLEAN /\ r.staged \in BOOLEAN /\ r.owed \in BOOLEAN
           /\ r.prunes \in BOOLEAN /\ r.compacted \in BOOLEAN /\ r.failed \in BOOLEAN
           /\ r.manifest \in Manifests
PROOF BY DEF Runs, ScanType

LEMMA NoRunFields ==
    /\ NoRun \in Runs /\ NoRun.kind = "index" /\ NoRun.partial = FALSE /\ NoRun.failed = FALSE
    /\ NoRun.compacted = FALSE /\ Blank \in Manifests
    /\ Blank.del = FALSE /\ Blank.prune = FALSE /\ Blank.pre = FALSE
PROOF
<1>1. NoScan \in ScanType
  BY ScanFields DEF NoScan
<1>2. Blank \in Manifests
  BY DEF Blank, Manifests
<1> QED BY <1>1, <1>2 DEF NoRun, Runs, ScanType, Blank

-----------------------------------------------------------------------------
(***************************************************************************)
(* Types, and what follows from where a run is.                            *)
(***************************************************************************)

Before  == pc \in {"idle", "stage"}
Staging == pc \in {"documents", "history", "decide"}
Decided == pc \in {"publish", "pre", "record_pre", "clear", "record", "prune",
                   "record_prune", "semantic"}
Serving == Decided /\ pc # "publish"

\* What a run knows of the store while it replaces the rows, and what it has replaced.
Shape ==
    /\ pc = "stage" => /\ run.previous = manifest /\ run.named = history
                       /\ run.indexed = rows \ {Raw}
    /\ pc = "stage" \/ Staging => /\ ScanFits(run.scan)
                                  /\ run.partial => Known /\ ~run.previous.pre
    /\ pc = "documents" => /\ run.partial
                           /\ rows \subseteq (run.indexed \cap Documents) \cup run.scan.files
                           /\ run.scan.files \ Documents \subseteq rows
                           /\ run.indexed \cap Documents \subseteq rows
    /\ pc \in {"documents", "history"} => run.named = history
    /\ pc \in {"history", "decide"} => rows = run.scan.files
    /\ pc = "decide" => history = run.scan.history
    /\ Staging \/ pc = "publish" => run.partial \/ manifest = NoManifest
    /\ Published \/ Staging \/ Decided => Permanent \subseteq rows
    /\ Decided => Raw \notin rows
    /\ Serving => Published

RowsOK    == rows \subseteq Sources \cup {Raw} /\ history \subseteq HistoryPaths
BytesOK   == freed \subseteq Contents /\ logged \subseteq Contents
FlagsOK   == /\ dropFlag \in BOOLEAN /\ gainFlag \in BOOLEAN
             /\ marked \in BOOLEAN /\ settled \in BOOLEAN /\ forgotten \subseteq Contents
DerivedOK == /\ vectors \subseteq (Sources \ Documents) \cup {Raw} /\ handles \subseteq Sources
             /\ pack \subseteq Sources /\ overtaken \subseteq Sources
SeenOK    == evicted \subseteq Contents /\ copied \subseteq Sources
MarkOK    == manifest \in Manifests \cup {NoManifest, Unreadable}
RunOK     == /\ pc \in Pcs /\ run \in Runs /\ (pc = "idle" => run = NoRun)
             /\ run.partial => run.kind = "event"

LEMMA TypeParts ==
    /\ TypeOK <=> RowsOK /\ BytesOK /\ FlagsOK /\ DerivedOK /\ SeenOK /\ MarkOK /\ RunOK
    /\ TypeOK' <=> RowsOK' /\ BytesOK' /\ FlagsOK' /\ DerivedOK' /\ SeenOK' /\ MarkOK' /\ RunOK'
PROOF
<1>1. UNION {handles, pack, overtaken} = handles \cup pack \cup overtaken
  OBVIOUS
<1>2. UNION {handles', pack', overtaken'} = handles' \cup pack' \cup overtaken'
  OBVIOUS
<1>3. TypeOK <=> RowsOK /\ BytesOK /\ FlagsOK /\ DerivedOK /\ SeenOK /\ MarkOK /\ RunOK
  BY <1>1 DEF TypeOK, RowsOK, BytesOK, FlagsOK, DerivedOK, SeenOK, MarkOK, RunOK
<1>4. TypeOK' <=> RowsOK' /\ BytesOK' /\ FlagsOK' /\ DerivedOK' /\ SeenOK' /\ MarkOK' /\ RunOK'
  BY <1>2 DEF TypeOK, RowsOK, BytesOK, FlagsOK, DerivedOK, SeenOK, MarkOK, RunOK
<1> QED BY <1>3, <1>4

LEMMA InitType == Init => TypeOK /\ Shape
PROOF
<1> SUFFICES ASSUME Init PROVE TypeOK /\ Shape
  OBVIOUS
<1>1. PICK s \in Stores :
        /\ rows = (CASE s = "new" -> {}
                     [] s = "unmarked" -> Permanent
                     [] s = "older" -> Permanent \cup {Raw}
                     [] OTHER -> Sources)
        /\ history = (IF s = "new" THEN {} ELSE HistoryPaths)
        /\ manifest = (CASE s = "new" -> NoManifest
                         [] s \in {"current", "unmarked"} -> Blank
                         [] s = "older" -> [Blank EXCEPT !.pre = TRUE]
                         [] s = "unreadable" -> Unreadable)
        /\ freed = (CASE s = "older" -> {Raw} \cup (Sources \ Permanent)
                      [] s = "unmarked" -> Sources \ Permanent
                      [] s = "unreadable" -> {Raw}
                      [] OTHER -> {})
        /\ marked = (s \in {"new", "current"})
        /\ vectors = (IF s = "unreadable" THEN rows \cup {Raw} ELSE rows) \ Documents
        /\ evicted = (IF s \in {"unmarked", "older"} THEN Sources \ Permanent ELSE {})
  BY DEF Init
<1>2. s \in {"new", "current", "unmarked", "older", "unreadable"} /\ Permanent \subseteq Sources
  BY PathsAssumption
<1>3. [Blank EXCEPT !.pre = TRUE] \in Manifests /\ Blank \in Manifests
  BY DEF Blank, Manifests
<1>4. /\ RowsOK /\ MarkOK /\ evicted \subseteq Sources
      /\ manifest # NoManifest => Permanent \subseteq rows
  <2>1. CASE s = "new"
    BY <1>1, <2>1 DEF RowsOK, MarkOK
  <2>2. CASE s = "current"
    BY <1>1, <1>2, <1>3, <2>2 DEF RowsOK, MarkOK
  <2>3. CASE s = "unmarked"
    BY <1>1, <1>2, <1>3, <2>3 DEF RowsOK, MarkOK
  <2>4. CASE s = "older"
    BY <1>1, <1>2, <1>3, <2>4 DEF RowsOK, MarkOK
  <2>5. CASE s = "unreadable"
    BY <1>1, <1>2, <1>3, <2>5 DEF RowsOK, MarkOK
  <2> QED BY <1>2, <2>1, <2>2, <2>3, <2>4, <2>5
<1>5. freed \subseteq Contents /\ vectors \subseteq (Sources \ Documents) \cup {Raw}
  <2>1. freed \subseteq Sources \cup {Raw}
    BY <1>1, <1>2
  <2> QED BY <1>1, <1>4, <2>1 DEF Contents, RowsOK
<1>6. marked \in BOOLEAN
  BY <1>1
<1>7. /\ logged = {} /\ dropFlag = FALSE /\ gainFlag = FALSE /\ handles = {} /\ pack = {}
      /\ pc = "idle" /\ run = NoRun /\ copied = {} /\ overtaken = {} /\ settled = FALSE
      /\ forgotten = {}
  BY DEF Init
<1>8. BytesOK /\ FlagsOK /\ DerivedOK /\ SeenOK
  BY <1>4, <1>5, <1>6, <1>7 DEF BytesOK, FlagsOK, DerivedOK, SeenOK, Contents
<1>9. RunOK
  BY <1>7, NoRunFields DEF RunOK, Pcs
<1>10. Shape
  BY <1>4, <1>7, ManifestAssumption DEF Shape, Staging, Decided, Serving, Published
<1> QED BY <1>4, <1>8, <1>9, <1>10, TypeParts

-----------------------------------------------------------------------------
(***************************************************************************)
(* What the steps do to the state of the run.                              *)
(***************************************************************************)

LEMMA BeginRun ==
    ASSUME TypeOK, NEW kind \in Kinds, NEW scan \in Scans, Begin(kind, scan)
    PROVE  /\ run' \in Runs /\ run'.kind = kind /\ run'.scan = scan /\ run'.previous = manifest
           /\ run'.indexed = rows \ {Raw} /\ run'.named = history /\ run'.failed = FALSE
           /\ run'.partial => kind = "event" /\ Published /\ ~manifest.pre
PROOF
<1>1. PICK partial \in {FALSE, MayBePartial(kind)} :
        run' = [NoRun EXCEPT !.kind = kind, !.scan = scan, !.previous = manifest,
                    !.indexed = rows \ {Raw}, !.named = history, !.partial = partial]
  BY DEF Begin
<1>2. partial \in BOOLEAN /\ (partial => kind = "event" /\ Published /\ ~manifest.pre)
  BY DEF MayBePartial
<1>3. /\ kind \in {"index", "start", "event"} /\ scan \in ScanType
      /\ manifest \in Manifests \cup {NoManifest, Unreadable}
      /\ rows \ {Raw} \in SUBSET Sources /\ history \in SUBSET HistoryPaths
  BY TypeParts, ScansFit, PathsAssumption DEF RowsOK, MarkOK
<1>4. NoRun \in Runs /\ NoRun.failed = FALSE
  BY NoRunFields
<1>5. run'.partial = partial
  BY <1>1, <1>4 DEF Runs
<1> HIDE DEF MayBePartial
<1>6. /\ run'.kind = kind /\ run'.scan = scan /\ run'.previous = manifest
      /\ run'.indexed = rows \ {Raw} /\ run'.named = history /\ run'.failed = FALSE
  BY <1>1, <1>4 DEF Runs
<1>7. run' \in Runs
  BY <1>1, <1>2, <1>3, <1>4 DEF Runs, ScanType
<1> QED BY <1>2, <1>5, <1>6, <1>7

LEMMA DecideRun ==
    ASSUME TypeOK, Decide
    PROVE  \E owed \in BOOLEAN :
             /\ CompactionOwed(owed)
             /\ run' \in Runs /\ run'.kind = run.kind /\ run'.partial = run.partial
             /\ run'.owed = owed /\ run'.compacted = FALSE /\ run'.failed = FALSE
             /\ run'.prunes <=> Prunes(owed)
             /\ run'.manifest.del <=> DeletedContentOwed(owed)
             /\ run'.manifest.prune <=> PruneOwed(owed)
             /\ run'.manifest.pre <=> PreRedactionOwed
PROOF
<1>1. PICK owed \in BOOLEAN :
        /\ CompactionOwed(owed)
        /\ run' = [NoRun EXCEPT
                     !.kind = run.kind, !.partial = run.partial, !.staged = run.staged,
                     !.owed = owed, !.prunes = Prunes(owed),
                     !.manifest = [skips |-> run.scan.skips,
                                   del   |-> DeletedContentOwed(owed),
                                   prune |-> PruneOwed(owed),
                                   pre   |-> PreRedactionOwed]]
  BY DEF Decide
<1>2. /\ DeletedContentOwed(owed) \in BOOLEAN
      /\ PreRedactionOwed \in BOOLEAN /\ Prunes(owed) \in BOOLEAN
  BY DEF DeletedContentOwed, PreRedactionOwed, Prunes
<1>3. PruneOwed(owed) \in BOOLEAN
  BY DEF PruneOwed
<1>4. PICK d \in BOOLEAN, p \in BOOLEAN, r \in BOOLEAN, u \in BOOLEAN :
        /\ d = DeletedContentOwed(owed) /\ p = PruneOwed(owed) /\ r = PreRedactionOwed
        /\ u = Prunes(owed)
  BY <1>2, <1>3
<1>5. run' = [NoRun EXCEPT
                !.kind = run.kind, !.partial = run.partial, !.staged = run.staged,
                !.owed = owed, !.prunes = u,
                !.manifest = [skips |-> run.scan.skips, del |-> d, prune |-> p, pre |-> r]]
  BY <1>1, <1>4
<1>6. NoRun \in Runs /\ NoRun.failed = FALSE /\ NoRun.compacted = FALSE
  BY NoRunFields
<1>7. run \in Runs /\ run.kind \in {"index", "start", "event"} /\ run.scan.skips \subseteq Skippable
      /\ run.partial \in BOOLEAN /\ run.staged \in BOOLEAN
  BY TypeParts, RunFields DEF RunOK, ScanType
<1>8. [skips |-> run.scan.skips, del |-> d, prune |-> p, pre |-> r] \in Manifests
  BY <1>7 DEF Manifests
<1>9. /\ run'.kind = run.kind /\ run'.partial = run.partial /\ run'.owed = owed /\ run'.prunes = u
      /\ run'.compacted = FALSE /\ run'.failed = FALSE
      /\ run'.manifest = [skips |-> run.scan.skips, del |-> d, prune |-> p, pre |-> r]
  BY <1>5, <1>6 DEF Runs
<1>10. run' \in Runs
  BY <1>5, <1>6, <1>7, <1>8 DEF Runs
<1>11. run'.manifest.del = d /\ run'.manifest.prune = p /\ run'.manifest.pre = r
  BY <1>9
<1> HIDE DEF CompactionOwed, Prunes, DeletedContentOwed, PruneOwed, PreRedactionOwed
<1> QED BY <1>1, <1>4, <1>9, <1>10, <1>11

\* A partial update notes whether a file changed, or gives up being partial.
LEMMA StagingRun ==
    ASSUME TypeOK, StagePartial \/ PartialFails
    PROVE  /\ run' \in Runs /\ run'.kind = run.kind /\ run'.scan = run.scan
           /\ run'.previous = run.previous /\ run'.indexed = run.indexed
           /\ run'.named = run.named /\ run'.partial \in {run.partial, FALSE}
           /\ StagePartial => run'.partial = run.partial
PROOF
<1>1. run \in Runs
  BY TypeParts DEF RunOK
<1>2. CASE StagePartial
  <2>1. PICK b \in BOOLEAN : run' = [run EXCEPT !.staged = b]
    BY <1>2 DEF StagePartial
  <2> QED BY <1>1, <2>1 DEF Runs
<1>3. CASE PartialFails
  <2>1. run' = [run EXCEPT !.partial = FALSE] /\ run.partial
    BY <1>3 DEF PartialFails
  <2>2. ~StagePartial
    BY <1>3 DEF PartialFails, StagePartial
  <2> QED BY <1>1, <2>1, <2>2 DEF Runs
<1> QED BY <1>2, <1>3

\* What a step that pays leaves of the run.
Same == /\ run'.kind = run.kind /\ run'.partial = run.partial
        /\ run'.owed = run.owed /\ run'.prunes = run.prunes

LEMMA PreClearRun ==
    ASSUME TypeOK, PreClear
    PROVE  /\ run' \in Runs /\ Same
           /\ run'.compacted = TRUE /\ run'.failed = run.failed
           /\ run'.manifest.pre = FALSE /\ run'.manifest.del = run.manifest.del
           /\ run'.manifest.prune = run.manifest.prune
PROOF
<1>1. run \in Runs
  BY TypeParts DEF RunOK
<1>2. run' = [run EXCEPT !.compacted = TRUE, !.manifest.pre = FALSE]
  BY DEF PreClear
<1> QED BY <1>1, <1>2 DEF Runs, Manifests, Same

LEMMA PreClearFailsRun ==
    ASSUME TypeOK, PreClearFails
    PROVE  /\ run' \in Runs /\ Same
           /\ run'.compacted = run.compacted /\ run'.failed = TRUE
           /\ run'.manifest = run.manifest
PROOF
<1>1. run \in Runs
  BY TypeParts DEF RunOK
<1>2. run' = [run EXCEPT !.failed = TRUE]
  BY DEF PreClearFails
<1> QED BY <1>1, <1>2 DEF Runs, Manifests, Same

LEMMA ClearRun ==
    ASSUME TypeOK, ClearDeletedContent
    PROVE  /\ run' \in Runs /\ Same
           /\ run'.manifest.del <=> run.manifest.del /\ ~(Full \/ run.owed \/ run.compacted)
           /\ run'.manifest.pre = run.manifest.pre /\ run'.manifest.prune = run.manifest.prune
           /\ run'.failed = run.failed
PROOF
<1>1. run \in Runs
  BY TypeParts DEF RunOK
<1>2. PICK d \in BOOLEAN :
        /\ d = (run.manifest.del /\ ~(Full \/ run.owed \/ run.compacted))
        /\ run' = [run EXCEPT !.manifest.del = d]
  BY <1>1 DEF ClearDeletedContent
<1>3. run' \in Runs /\ Same /\ run'.manifest.del = d
      /\ run'.manifest.pre = run.manifest.pre /\ run'.manifest.prune = run.manifest.prune
      /\ run'.failed = run.failed
  BY <1>1, <1>2 DEF Runs, Manifests, Same
<1> QED BY <1>2, <1>3

LEMMA ClearFailsRun ==
    ASSUME TypeOK, ClearFails
    PROVE  /\ run' \in Runs /\ Same
           /\ run'.manifest.del = TRUE /\ run'.failed = TRUE
           /\ run'.manifest.pre = run.manifest.pre /\ run'.manifest.prune = run.manifest.prune
PROOF
<1>1. run \in Runs
  BY TypeParts DEF RunOK
<1>2. run' = [run EXCEPT !.manifest.del = TRUE, !.failed = TRUE]
  BY DEF ClearFails
<1> QED BY <1>1, <1>2 DEF Runs, Manifests, Same

LEMMA PruneRun ==
    ASSUME TypeOK, PruneRemovedPaths
    PROVE  /\ run' \in Runs /\ Same
           /\ run'.manifest.prune = FALSE /\ run'.failed = run.failed
           /\ run'.manifest.pre = run.manifest.pre /\ run'.manifest.del = run.manifest.del
PROOF
<1>1. run \in Runs
  BY TypeParts DEF RunOK
<1>2. run' = [run EXCEPT !.manifest.prune = FALSE]
  BY DEF PruneRemovedPaths
<1> QED BY <1>1, <1>2 DEF Runs, Manifests, Same

LEMMA PruneFailsRun ==
    ASSUME TypeOK, PruneFails
    PROVE  /\ run' \in Runs /\ Same
           /\ run'.manifest.prune = TRUE /\ run'.failed = TRUE
           /\ run'.manifest.pre = run.manifest.pre /\ run'.manifest.del = run.manifest.del
PROOF
<1>1. run \in Runs
  BY TypeParts DEF RunOK
<1>2. run' = [run EXCEPT !.manifest.prune = TRUE, !.failed = TRUE]
  BY DEF PruneFails
<1> QED BY <1>1, <1>2 DEF Runs, Manifests, Same

-----------------------------------------------------------------------------
(***************************************************************************)
(* The steps keep the types and the shape.                                 *)
(***************************************************************************)

LEMMA ShapeBegin ==
    ASSUME TypeOK, Shape, NEW kind \in Kinds, NEW scan \in Scans, Begin(kind, scan)
    PROVE  TypeOK' /\ Shape'
PROOF
<1>1. /\ pc' = "stage" /\ settled' = FALSE
      /\ UNCHANGED <<rows, history, manifest, freed, logged, dropFlag, gainFlag, marked,
                     forgotten, vectors, handles, pack, overtaken, evicted, copied>>
  BY DEF Begin, content, bytes, flags, evidence, derived, readers
<1>2. /\ run' \in Runs /\ run'.kind = kind /\ run'.scan = scan /\ run'.previous = manifest
      /\ run'.indexed = rows \ {Raw} /\ run'.named = history /\ run'.failed = FALSE
      /\ run'.partial => kind = "event" /\ Published /\ ~manifest.pre
  BY BeginRun
<1>3. ScanFits(scan)
  BY ScansFit
<1>4. Shape'
  BY <1>1, <1>2, <1>3 DEF Shape, Staging, Decided, Serving, Known, Published, ScanFits
<1> QED BY <1>1, <1>2, <1>4, TypeParts
        DEF RowsOK, BytesOK, FlagsOK, DerivedOK, SeenOK, MarkOK, RunOK, Pcs

LEMMA ObservedType ==
    ASSUME TypeOK, Shape, pc = "stage", ObserveMoves
    PROVE  copied' \subseteq Sources
PROOF
<1>1. \A s \in run.scan.skips : run.scan.hidden[s] \in Sources
  BY DEF Shape, ScanFits
<1>2. Appeared \subseteq Sources
  BY <1>1 DEF Appeared
<1> QED BY <1>2, TypeParts DEF ObserveMoves, SeenOK

LEMMA ReplacedType ==
    ASSUME TypeOK, Shape, NEW new, NEW deleted, new \subseteq Sources \cup {Raw},
           deleted \subseteq rows, ReplaceRows(new, deleted)
    PROVE  rows' = new /\ BytesOK' /\ evicted' \subseteq Contents
PROOF BY TypeParts DEF ReplaceRows, BytesOK, RowsOK, SeenOK, Contents

LEMMA ShapeStaging ==
    ASSUME TypeOK, Shape,
           StageFull \/ StagePartial \/ PartialFails \/ ReplaceDocuments \/ PutHistory
    PROVE  TypeOK' /\ Shape'
PROOF
<1> USE TypeParts
<1>1. /\ run \in Runs /\ run.scan \in ScanType /\ run.indexed \subseteq Sources
      /\ run.scan.files \subseteq Sources /\ run.scan.history \subseteq HistoryPaths
      /\ Raw \notin Sources /\ Documents \subseteq Sources
  BY RunFields, PathsAssumption DEF RunOK, ScanType
<1>2. /\ UNCHANGED <<dropFlag, gainFlag, marked, vectors, handles, pack, overtaken, settled>>
      /\ forgotten' \subseteq forgotten
      /\ pc \in {"stage", "documents", "history"}
      /\ pc' \in {"stage", "documents", "history", "decide"}
  BY DEF StageFull, StagePartial, PartialFails, ReplaceDocuments, PutHistory, ReplaceRows,
         flags, evidence, derived, readers
<1>3. FlagsOK' /\ DerivedOK'
  BY <1>2 DEF FlagsOK, DerivedOK
<1>4. CASE StageFull
  <2>1. /\ pc = "stage" /\ ~run.partial /\ ReplaceRows(run.scan.files, rows) /\ ObserveMoves
        /\ manifest' = NoManifest /\ pc' = "history" /\ history' = history /\ run' = run
    BY <1>4 DEF StageFull
  <2>2. rows' = run.scan.files /\ BytesOK' /\ evicted' \subseteq Contents
    BY <1>1, <2>1, ReplacedType
  <2>3. copied' \subseteq Sources
    BY <2>1, ObservedType
  <2>4. Shape'
    BY <1>1, <2>1, <2>2, ManifestAssumption
       DEF Shape, Staging, Decided, Serving, Known, Published, ScanFits
  <2> QED BY <1>1, <1>3, <2>1, <2>2, <2>3, <2>4 DEF RowsOK, SeenOK, MarkOK, RunOK, Pcs
<1>5. CASE StagePartial
  <2> DEFINE new == (rows \cap Documents) \cup (run.scan.files \ Documents)
  <2>1. /\ pc = "stage" /\ run.partial /\ ReplaceRows(new, rows \ new) /\ ObserveMoves
        /\ manifest' = manifest /\ pc' = "documents" /\ history' = history
    BY <1>5 DEF StagePartial
  <2>2. /\ run' \in Runs /\ run'.kind = run.kind /\ run'.scan = run.scan
        /\ run'.previous = run.previous /\ run'.indexed = run.indexed
        /\ run'.named = run.named /\ run'.partial = run.partial
    BY <1>5, StagingRun
  <2>3. rows' = new /\ BytesOK' /\ evicted' \subseteq Contents
    BY <1>1, <2>1, ReplacedType DEF RowsOK
  <2>4. copied' \subseteq Sources
    BY <2>1, ObservedType
  <2>5. Known /\ ~run.previous.pre /\ run.previous = manifest /\ ScanFits(run.scan)
        /\ run.named = history /\ run.indexed = rows \ {Raw}
    BY <2>1 DEF Shape
  <2>6. Permanent \subseteq rows'
    BY <2>3, <2>5 DEF Shape, Known, Published, ScanFits
  <2>7. Shape'
    BY <1>1, <2>1, <2>2, <2>3, <2>5, <2>6
       DEF Shape, Staging, Decided, Serving, Known, Published, ScanFits
  <2> QED BY <1>1, <1>3, <2>1, <2>2, <2>3, <2>4, <2>7 DEF RowsOK, SeenOK, MarkOK, RunOK, Pcs
<1>6. CASE PartialFails
  <2>1. /\ pc = "stage" /\ pc' = "stage"
        /\ UNCHANGED <<rows, history, manifest, freed, logged, evicted, copied>>
    BY <1>6 DEF PartialFails, content, bytes
  <2>2. /\ run' \in Runs /\ run'.kind = run.kind /\ run'.scan = run.scan
        /\ run'.previous = run.previous /\ run'.indexed = run.indexed
        /\ run'.named = run.named /\ run'.partial \in {run.partial, FALSE}
    BY <1>6, StagingRun
  <2>3. Shape'
    BY <2>1, <2>2 DEF Shape, Staging, Decided, Serving, Known, Published, ScanFits
  <2> QED BY <1>3, <2>1, <2>2, <2>3 DEF RowsOK, BytesOK, SeenOK, MarkOK, RunOK, Pcs
<1>7. CASE ReplaceDocuments
  <2>1. /\ pc = "documents" /\ ReplaceRows(run.scan.files, rows \ run.scan.files)
        /\ pc' = "history" /\ UNCHANGED <<history, manifest, copied, run>>
    BY <1>7 DEF ReplaceDocuments
  <2>2. rows' = run.scan.files /\ BytesOK' /\ evicted' \subseteq Contents
    BY <1>1, <2>1, ReplacedType
  <2>3. Shape'
    BY <1>1, <2>1, <2>2 DEF Shape, Staging, Decided, Serving, Known, Published, ScanFits
  <2> QED BY <1>1, <1>3, <2>1, <2>2, <2>3 DEF RowsOK, SeenOK, MarkOK, RunOK, Pcs
<1>8. CASE PutHistory
  <2>1. /\ pc = "history" /\ pc' = "decide" /\ history' = run.scan.history
        /\ freed' = freed \cup history /\ logged' = logged \cup history
        /\ evicted' \subseteq evicted \cup history
        /\ UNCHANGED <<rows, manifest, copied, run>>
    BY <1>8 DEF PutHistory
  <2>2. BytesOK' /\ SeenOK' /\ RowsOK'
    BY <1>1, <2>1 DEF BytesOK, SeenOK, RowsOK, Contents
  <2>3. Shape'
    BY <1>1, <2>1 DEF Shape, Staging, Decided, Serving, Known, Published, ScanFits
  <2> QED BY <1>3, <2>1, <2>2, <2>3 DEF MarkOK, RunOK, Pcs
<1> QED BY <1>4, <1>5, <1>6, <1>7, <1>8

LEMMA ShapeDecide ==
    ASSUME TypeOK, Shape, Decide
    PROVE  TypeOK' /\ Shape'
PROOF
<1>1. /\ pc = "decide" /\ pc' = "publish"
      /\ UNCHANGED <<rows, history, manifest, freed, logged, marked, forgotten, vectors, handles,
                     pack, overtaken, evicted, copied, settled>>
  BY DEF Decide, content, bytes, derived, readers
<1>2. run' \in Runs /\ run'.kind = run.kind /\ run'.partial = run.partial
  BY DecideRun
<1>3. dropFlag' \in BOOLEAN /\ gainFlag' \in BOOLEAN
  BY DEF Decide, NoteRemovalEvidence
<1>4. Raw \notin rows
  BY <1>1, TypeParts, RunFields, PathsAssumption DEF Shape, RunOK, ScanType
<1>5. Shape'
  BY <1>1, <1>2, <1>4 DEF Shape, Staging, Decided, Serving, Published
<1> QED BY <1>1, <1>2, <1>3, <1>5, TypeParts
        DEF RowsOK, BytesOK, FlagsOK, DerivedOK, SeenOK, MarkOK, RunOK, Pcs

\* A step of the payment leaves the rows as they are and the index published.
LEMMA PaidShape ==
    ASSUME TypeOK, Shape, Decided, Serving', pc' \in Pcs, UNCHANGED <<rows, history>>,
           manifest' \in {manifest, run.manifest}, pc = "publish" => manifest' = run.manifest,
           run' \in Runs, run'.kind = run.kind, run'.partial = run.partial
    PROVE  Shape' /\ RunOK' /\ MarkOK' /\ RowsOK'
PROOF
<1>1. /\ run \in Runs /\ run.manifest \in Manifests /\ (run.partial => run.kind = "event")
      /\ MarkOK /\ RowsOK /\ Permanent \subseteq rows /\ Raw \notin rows
  BY TypeParts, RunFields DEF RunOK, Shape
<1>2. manifest' \in Manifests
  BY <1>1 DEF Shape, Serving, Published
<1>3. RunOK' /\ MarkOK' /\ RowsOK'
  BY <1>1, <1>2 DEF RunOK, MarkOK, RowsOK, Serving, Decided, Pcs
<1>4. Shape'
  BY <1>1, <1>2 DEF Shape, Staging, Decided, Serving, Published
<1> QED BY <1>3, <1>4

LEMMA ShapePut ==
    ASSUME TypeOK, Shape, Publish \/ RecordPreClear \/ RecordClearing \/ RecordPrune
    PROVE  TypeOK' /\ Shape'
PROOF
<1>1. /\ manifest' = run.manifest /\ run' = run
      /\ UNCHANGED <<rows, history, freed, logged, dropFlag, gainFlag, marked,
                     vectors, handles, pack, overtaken, evicted, copied, settled>>
      /\ forgotten' \in {forgotten, {}}
  BY DEF Publish, RecordPreClear, RecordClearing, RecordPrune, PutManifest,
         content, bytes, flags, evidence, derived, readers
<1>2. Decided /\ Serving' /\ pc' \in Pcs
  BY DEF Publish, RecordPreClear, RecordClearing, RecordPrune, Decided, Serving, Pcs
<1>3. Shape' /\ RunOK' /\ MarkOK' /\ RowsOK'
  BY <1>1, <1>2, PaidShape, TypeParts DEF RunOK
<1> QED BY <1>1, <1>3, TypeParts DEF BytesOK, FlagsOK, DerivedOK, SeenOK

LEMMA ShapePay ==
    ASSUME TypeOK, Shape,
           PreClear \/ PreClearFails \/ ClearDeletedContent \/ ClearFails
           \/ PruneRemovedPaths \/ PruneFails
    PROVE  TypeOK' /\ Shape'
PROOF
<1>1. run' \in Runs /\ Same
  BY PreClearRun, PreClearFailsRun, ClearRun, ClearFailsRun, PruneRun, PruneFailsRun
<1>2. /\ UNCHANGED <<rows, history, manifest, pack, evicted, settled>>
      /\ overtaken' \in {overtaken, {}} /\ handles' \subseteq handles
  BY DEF PreClear, PreClearFails, ClearDeletedContent, ClearFails, PruneRemovedPaths, PruneFails,
         content, derived, readers
<1>3. Serving /\ Serving' /\ pc' \in Pcs /\ pc # "publish"
  BY DEF PreClear, PreClearFails, ClearDeletedContent, ClearFails, PruneRemovedPaths, PruneFails,
         Decided, Serving, Pcs
<1>4. Shape' /\ RunOK' /\ MarkOK' /\ RowsOK'
  BY <1>1, <1>2, <1>3, PaidShape DEF Serving, Same
<1>5. /\ freed' \in {freed, {}} /\ logged' \in {logged, {}, logged \cup freed}
      /\ copied' \in {copied, {}}
      /\ UNCHANGED <<dropFlag, gainFlag, marked>> \/ (~dropFlag' /\ ~gainFlag' /\ marked')
      /\ dropFlag' \in {dropFlag, FALSE} /\ gainFlag' \in {gainFlag, FALSE}
      /\ marked' \in {marked, TRUE} /\ forgotten' \in {forgotten, {}}
  BY DEF PreClear, PreClearFails, ClearDeletedContent, ClearFails, PruneRemovedPaths, PruneFails,
         NothingCleared, Compact, CompactAndTruncate, Compacted, TruncateWal, bytes, flags,
         evidence
<1>6. BytesOK' /\ FlagsOK'
  BY <1>2, <1>5, TypeParts DEF BytesOK, FlagsOK
<1>7. vectors' \subseteq vectors
  BY DEF PreClear, PreClearFails, ClearDeletedContent, ClearFails, PruneRemovedPaths, PruneFails,
         derived
<1>8. DerivedOK' /\ SeenOK'
  BY <1>2, <1>5, <1>7, TypeParts DEF DerivedOK, SeenOK
<1> QED BY <1>4, <1>6, <1>8, TypeParts

\* The end of a run, in whatever way, and what happens besides.
LEMMA ShapeRest ==
    ASSUME TypeOK, Shape,
           FinishRun \/ CutShort \/ Withdraw \/ SemanticIndex \/ BuildPack \/ CompressPack
           \/ UNCHANGED vars
    PROVE  TypeOK' /\ Shape'
PROOF
<1>1. /\ UNCHANGED <<rows, history, freed, logged, dropFlag, gainFlag, marked, evicted>>
      /\ copied' \in {copied, {}}
  BY DEF FinishRun, CutShort, Withdraw, SemanticIndex, BuildPack, CompressPack, vars,
         content, bytes, flags, evidence
<1>2. /\ manifest' \in {manifest, NoManifest} /\ settled' \in BOOLEAN
      /\ vectors' \in {vectors, rows \ Documents}
      /\ pack' \in {pack, {}, rows \ {Raw}} /\ handles' \in {handles, handles \cup pack}
      /\ overtaken' \in {overtaken, (overtaken \ rows) \cup (pack \ rows),
                        overtaken \cup ((vectors \cup handles) \ (rows \cup {Raw}))}
      /\ forgotten' \subseteq forgotten \cup freed \cup logged
  BY TypeParts DEF FinishRun, CutShort, Withdraw, SemanticIndex, BuildPack, CompressPack, vars,
         derived, readers, flags, evidence, FlagsOK, PartiallyStaged, RunOK, Runs, Residue
<1>3. \/ pc' = pc /\ run' = run /\ manifest' = manifest
      \/ pc' = "idle" /\ run' = NoRun
  BY DEF FinishRun, CutShort, Withdraw, SemanticIndex, BuildPack, CompressPack, vars, End
<1>4. RowsOK' /\ BytesOK' /\ SeenOK' /\ FlagsOK' /\ MarkOK'
  BY <1>1, <1>2, TypeParts DEF RowsOK, BytesOK, SeenOK, FlagsOK, MarkOK
<1>5. DerivedOK'
  BY <1>2, TypeParts DEF DerivedOK, RowsOK
<1>6. RunOK'
  BY <1>3, NoRunFields, TypeParts DEF RunOK, Pcs
<1>7. Shape'
  <2>1. CASE pc' = "idle"
    BY <1>1, <1>2, <2>1, ManifestAssumption DEF Shape, Staging, Decided, Serving, Published
  <2>2. CASE pc' = pc /\ run' = run /\ manifest' = manifest
    BY <1>1, <2>2 DEF Shape, Staging, Decided, Serving, Published, Known, ScanFits
  <2> QED BY <1>3, <2>1, <2>2
<1> QED BY <1>4, <1>5, <1>6, <1>7, TypeParts

LEMMA StepShape ==
    ASSUME TypeOK, Shape, [Next]_vars
    PROVE  TypeOK' /\ Shape'
PROOF
<1>1. CASE \E kind \in Kinds, scan \in Scans : Begin(kind, scan)
  BY <1>1, ShapeBegin
<1>2. CASE StageFull \/ StagePartial \/ PartialFails \/ ReplaceDocuments \/ PutHistory
  BY <1>2, ShapeStaging
<1>3. CASE Decide
  BY <1>3, ShapeDecide
<1>4. CASE Publish \/ RecordPreClear \/ RecordClearing \/ RecordPrune
  BY <1>4, ShapePut
<1>5. CASE PreClear \/ PreClearFails \/ ClearDeletedContent \/ ClearFails
           \/ PruneRemovedPaths \/ PruneFails
  BY <1>5, ShapePay
<1>6. CASE FinishRun \/ CutShort \/ Withdraw \/ SemanticIndex \/ BuildPack \/ CompressPack
           \/ UNCHANGED vars
  BY <1>6, ShapeRest
<1> QED BY <1>1, <1>2, <1>3, <1>4, <1>5, <1>6 DEF Next

\* Every variable keeps its type, and no state of a run outlives it.
THEOREM ContentTypeCorrect == Spec => []TypeOK
PROOF
<1>1. Init => TypeOK /\ Shape
  BY InitType
<1>2. TypeOK /\ Shape /\ [Next]_vars => TypeOK' /\ Shape'
  BY StepShape
<1> QED BY <1>1, <1>2, PTL DEF Spec

\* A run that ends early leaves the manifest that was there, or none over rows that the
\* next run finds; only a partial update leaves that manifest over rows it has replaced.
LEMMA Interrupted ==
    ASSUME TypeOK, Shape, Permanent # {}, CutShort \/ Withdraw
    PROVE  /\ pc' = "idle" /\ run' = NoRun
           /\ UNCHANGED <<rows, history, freed, logged, dropFlag, gainFlag, marked, vectors,
                          handles, pack, evicted, settled>>
           /\ \/ /\ manifest' = manifest /\ (Before \/ Serving)
                 /\ UNCHANGED <<forgotten, overtaken, copied>>
              \/ /\ manifest' = NoManifest /\ rows \ {Raw} # {}
                 /\ UNCHANGED <<forgotten, overtaken, copied>>
              \/ /\ manifest' = manifest /\ rows \ {Raw} # {}
                 /\ marked => manifest.del \/ Residue \subseteq forgotten'
                 /\ copied' \subseteq copied /\ (copied' # {} => gainFlag)
                 /\ overtaken' = overtaken \cup ((vectors \cup handles) \ (rows \cup {Raw}))
PROOF
<1>1. /\ pc' = "idle" /\ run' = NoRun
      /\ UNCHANGED <<rows, history, freed, logged, dropFlag, gainFlag, marked, vectors,
                     handles, pack, evicted, settled>>
  BY DEF CutShort, Withdraw, End, content, bytes, flags, evidence, derived, readers
<1>2. Staging \/ pc = "publish" => rows \ {Raw} # {}
  BY PathsAssumption DEF Shape, Decided
<1>3. CASE CutShort /\ ~PartiallyStaged
  <2>1. manifest' = manifest /\ UNCHANGED <<forgotten, overtaken, copied>>
    BY <1>3 DEF CutShort
  <2>2. Before \/ Serving \/ Staging \/ pc = "publish"
    BY TypeParts DEF RunOK, Pcs, Before, Serving, Staging, Decided
  <2>3. Staging \/ pc = "publish" => manifest = NoManifest
    BY <1>3 DEF PartiallyStaged, Shape, Staging
  <2> QED BY <1>1, <1>2, <2>1, <2>2, <2>3
<1>4. CASE CutShort /\ PartiallyStaged
  <2>1. /\ manifest' = manifest
        /\ marked => manifest.del \/ Residue \subseteq forgotten'
        /\ copied' \subseteq copied /\ (copied' # {} => gainFlag)
        /\ overtaken' = overtaken \cup ((vectors \cup handles) \ (rows \cup {Raw}))
    BY <1>4 DEF CutShort
  <2>2. rows \ {Raw} # {}
    BY <1>2, <1>4 DEF PartiallyStaged, Staging
  <2> QED BY <1>1, <2>1, <2>2
<1>5. CASE Withdraw
  <2>1. /\ manifest' = NoManifest /\ (Staging \/ pc = "publish")
        /\ UNCHANGED <<forgotten, overtaken, copied>>
    BY <1>5 DEF Withdraw, PartiallyStaged, Staging, flags, evidence, readers
  <2> QED BY <1>1, <1>2, <2>1
<1> QED BY <1>3, <1>4, <1>5

\* A manifest is to be relied on before the rows change and once it is written again.
LEMMA ReliableWhen ==
    ASSUME TypeOK, Shape, Reliable
    PROVE  Before \/ Serving
PROOF BY TypeParts, ManifestAssumption
      DEF RunOK, Pcs, Before, Staging, Decided, Serving, Reliable, PartiallyStaged, Published, Shape

-----------------------------------------------------------------------------
(***************************************************************************)
(* The stores derived from the index.                                      *)
(***************************************************************************)

\* What a vector or a handle quotes of files that are gone.
Stale == (((vectors \cup handles) \ overtaken) \ Documents) \ (rows \cup {Raw})

\* Until it is pruned the manifest tells of it, or what the run under way has seen
\* makes it tell; where there is no manifest, the next run owes a prune.
StaleTold ==
    Stale # {} =>
      /\ Before  => (Published => manifest.prune) /\ (~Published => rows \ {Raw} # {})
      /\ Staging => /\ Known => run.previous.prune \/ Dropped \ Documents # {}
                    /\ ~Known => run.indexed # {}
      /\ Decided => run.manifest.prune
      /\ Serving => manifest.prune

LEMMA StaleInit == Init => StaleTold
PROOF
<1> SUFFICES ASSUME Init PROVE StaleTold
  OBVIOUS
<1>1. vectors \subseteq rows \cup {Raw} /\ handles = {}
  BY DEF Init
<1> QED BY <1>1 DEF StaleTold, Stale

LEMMA StaleStaging ==
    ASSUME TypeOK, Shape, StaleTold,
           StageFull \/ StagePartial \/ ReplaceDocuments \/ PutHistory
    PROVE  StaleTold'
PROOF
<1>1. /\ UNCHANGED <<vectors, handles, overtaken>> /\ Staging'
      /\ UNCHANGED <<run.previous, run.indexed>>
  BY StagingRun DEF StageFull, StagePartial, ReplaceDocuments, PutHistory, derived, readers, Staging
<1>2. ~Before' /\ ~Decided' /\ ~Serving' /\ Known' = Known
  BY <1>1 DEF Before, Decided, Serving, Staging, Known
<1> SUFFICES ASSUME NEW c \in Stale'
             PROVE  /\ Known => run.previous.prune \/ Dropped' \ Documents # {}
                    /\ ~Known => run.indexed # {}
  BY <1>1, <1>2 DEF StaleTold
<1>3. /\ c \in (vectors \cup handles) \ overtaken /\ c \notin Documents
      /\ c \notin rows' /\ c # Raw
  BY <1>1 DEF Stale
<1>4. c \notin rows => c \in Stale
  BY <1>3 DEF Stale
<1>5. CASE pc = "stage"
  <2>1. run.previous = manifest /\ run.indexed = rows \ {Raw} /\ Before
    BY <1>5 DEF Shape, Before
  <2>2. CASE c \in rows
    <3>1. c \in run'.indexed \ rows'
      BY <1>1, <1>3, <2>1, <2>2
    <3> QED BY <1>1, <1>3, <3>1 DEF Dropped
  <2>3. CASE c \notin rows
    BY <1>4, <2>1, <2>3 DEF StaleTold, Known, Published
  <2> QED BY <2>2, <2>3
<1>6. CASE pc = "documents"
  <2>1. rows' = run.scan.files /\ run' = run
    BY <1>6 DEF ReplaceDocuments, ReplaceRows, StageFull, StagePartial, PutHistory
  <2>2. c \notin rows
    BY <1>3, <1>6, <2>1 DEF Shape
  <2>3. Staging /\ c \in Stale
    BY <1>4, <1>6, <2>2 DEF Staging
  <2>4. \A d \in Dropped \ Documents : d \in Dropped' \ Documents
    BY <1>6, <2>1 DEF Shape, Dropped
  <2> QED BY <2>3, <2>4 DEF StaleTold
<1>7. CASE pc = "history"
  <2>1. rows' = rows /\ run' = run /\ Staging
    BY <1>7 DEF ReplaceDocuments, StageFull, StagePartial, PutHistory, Staging
  <2> QED BY <1>3, <1>4, <2>1 DEF StaleTold, Dropped
<1> QED BY <1>5, <1>6, <1>7 DEF StageFull, StagePartial, ReplaceDocuments, PutHistory

LEMMA StaleStep ==
    ASSUME TypeOK, Shape, StaleTold, Permanent # {}, [Next]_vars
    PROVE  StaleTold'
PROOF
<1>1. CASE \E kind \in Kinds, scan \in Scans : Begin(kind, scan)
  <2>1. /\ pc = "idle" /\ pc' = "stage"
        /\ UNCHANGED <<rows, manifest, vectors, handles, overtaken>>
    BY <1>1 DEF Begin, content, derived, readers
  <2> QED BY <2>1 DEF StaleTold, Stale, Before, Staging, Decided, Serving, Published
<1>2. CASE StageFull \/ StagePartial \/ ReplaceDocuments \/ PutHistory
  BY <1>2, StaleStaging
<1>3. CASE PartialFails
  <2>1. /\ pc = "stage" /\ pc' = "stage"
        /\ UNCHANGED <<rows, manifest, vectors, handles, overtaken>>
    BY <1>3 DEF PartialFails, content, derived, readers
  <2> QED BY <2>1 DEF StaleTold, Stale, Before, Staging, Decided, Serving, Published
<1>4. CASE Decide
  <2>1. /\ pc = "decide" /\ pc' = "publish" /\ UNCHANGED <<rows, vectors, handles, overtaken>>
    BY <1>4 DEF Decide, content, derived, readers
  <2>2. PICK owed \in BOOLEAN : run'.manifest.prune <=> PruneOwed(owed)
    BY <1>4, DecideRun
  <2>3. run.partial => Known
    BY <2>1 DEF Shape, Staging
  <2>4. Stale # {} => PruneOwed(owed)
    BY <2>1, <2>3 DEF StaleTold, Staging, PruneOwed, PartialDropped, DroppedIndexedPath
  <2> QED BY <2>1, <2>2, <2>4 DEF StaleTold, Stale, Before, Staging, Decided, Serving
<1>5. CASE Publish \/ RecordPreClear \/ RecordClearing \/ RecordPrune
  <2>1. /\ Decided /\ Decided' /\ manifest' = run.manifest /\ run' = run
        /\ UNCHANGED <<rows, vectors, handles, overtaken>>
    BY <1>5 DEF Publish, RecordPreClear, RecordClearing, RecordPrune, PutManifest,
                content, derived, readers, Decided
  <2> QED BY <2>1 DEF StaleTold, Stale, Before, Staging, Decided, Serving
<1>6. CASE PreClear \/ PreClearFails \/ ClearDeletedContent \/ ClearFails \/ PruneFails
  <2>1. /\ Serving /\ Serving' /\ Decided' /\ manifest' = manifest /\ vectors' \subseteq vectors
        /\ UNCHANGED <<rows, handles, overtaken>>
    BY <1>6 DEF PreClear, PreClearFails, ClearDeletedContent, ClearFails, PruneFails,
                content, derived, readers, Decided, Serving
  <2>2. run'.manifest.prune \in {run.manifest.prune, TRUE}
    BY <1>6, PreClearRun, PreClearFailsRun, ClearRun, ClearFailsRun, PruneFailsRun
  <2>3. Stale' \subseteq Stale
    BY <2>1 DEF Stale
  <2>4. Stale' # {} => run.manifest.prune /\ manifest.prune
    BY <2>1, <2>3 DEF StaleTold, Serving
  <2>5. Stale' # {} => run'.manifest.prune
    BY <2>2, <2>4
  <2> QED BY <2>1, <2>4, <2>5 DEF StaleTold, Before, Staging, Decided, Serving
<1>7. CASE PruneRemovedPaths
  <2>1. vectors' \subseteq rows \cup {Raw} /\ handles' \subseteq rows /\ rows' = rows
    BY <1>7, PathsAssumption DEF PruneRemovedPaths, content
  <2> QED BY <2>1 DEF StaleTold, Stale
<1>8. CASE CutShort \/ Withdraw
  <2>1. pc' = "idle" /\ UNCHANGED <<rows, vectors, handles>>
    BY <1>8, Interrupted
  <2>2. CASE /\ UNCHANGED overtaken
             /\ \/ manifest' = manifest /\ (Before \/ Serving)
                \/ manifest' = NoManifest /\ rows \ {Raw} # {}
    BY <2>1, <2>2, ManifestAssumption
       DEF StaleTold, Stale, Before, Staging, Decided, Serving, Published, Shape
  <2>3. CASE overtaken' = overtaken \cup ((vectors \cup handles) \ (rows \cup {Raw}))
    <3>1. Stale' = {}
      BY <2>1, <2>3 DEF Stale
    <3> QED BY <3>1 DEF StaleTold
  <2> QED BY <1>8, <2>2, <2>3, Interrupted
<1>9. CASE FinishRun \/ SemanticIndex \/ BuildPack \/ CompressPack \/ UNCHANGED vars
  <2>1. /\ UNCHANGED <<rows, manifest>> /\ vectors' \in {vectors, rows \ Documents}
        /\ (pc' = "idle" /\ Serving) \/ UNCHANGED <<pc, run>>
    BY <1>9 DEF FinishRun, SemanticIndex, BuildPack, CompressPack, vars, content, derived, End,
                Serving, Decided
  <2>2. (vectors' \cup handles') \ overtaken'
          \subseteq ((vectors \cup handles) \ overtaken) \cup rows
    BY <1>9, <2>1 DEF FinishRun, SemanticIndex, BuildPack, CompressPack, vars, derived, readers
  <2>3. Stale' \subseteq Stale
    BY <2>1, <2>2 DEF Stale
  <2>4. CASE pc' = "idle" /\ Serving
    BY <2>1, <2>3, <2>4 DEF StaleTold, Before, Staging, Decided, Serving, Published, Shape
  <2>5. CASE UNCHANGED <<pc, run>>
    BY <2>1, <2>3, <2>5
       DEF StaleTold, Before, Staging, Decided, Serving, Published, Known, Dropped
  <2> QED BY <2>1, <2>4, <2>5
<1> QED BY <1>1, <1>2, <1>3, <1>4, <1>5, <1>6, <1>7, <1>8, <1>9 DEF Next

\* Whatever is killed, fails or is stored late: a vector or a handle that quotes a file
\* the index no longer holds is reported, until it is pruned, unless a late reader stored
\* it or a partial update had removed the file when it was killed (prune_and_record).
THEOREM StaleQuotesReported ==
    ASSUME Permanent # {}
    PROVE  Spec => []DerivedStoresPruned
PROOF
<1>1. Init => TypeOK /\ Shape /\ StaleTold
  BY InitType, StaleInit
<1>2. TypeOK /\ Shape /\ StaleTold /\ [Next]_vars => TypeOK' /\ Shape' /\ StaleTold'
  BY StepShape, StaleStep
<1>3. TypeOK /\ Shape /\ StaleTold => DerivedStoresPruned
  <2> SUFFICES ASSUME TypeOK, Shape, StaleTold, Reliable, ~manifest.prune PROVE Stale = {}
    BY DEF DerivedStoresPruned, Stale
  <2>1. Before \/ Serving
    BY ReliableWhen
  <2> QED BY <2>1 DEF StaleTold, Reliable
<1> QED BY <1>1, <1>2, <1>3, PTL DEF Spec

-----------------------------------------------------------------------------
(***************************************************************************)
(* Text stored before redaction.                                           *)
(***************************************************************************)

RawSomewhere == Raw \in rows \cup freed \cup logged \cup vectors

\* The manifest says so, or cannot be read, or the run under way has seen that.
RawTold ==
    /\ RawSomewhere =>
         /\ Before  => manifest = Unreadable \/ (Published /\ manifest.pre)
         /\ Staging => run.previous = Unreadable \/ (Known /\ run.previous.pre)
         /\ Decided => run.manifest.pre
         /\ Serving => manifest.pre
    /\ manifest = Unreadable => "unreadable" \in Stores
    /\ (pc = "stage" \/ Staging) /\ run.previous = Unreadable => run.kind = "index"
    /\ pc = "publish" /\ run.partial => ~run.manifest.pre

LEMMA RawInit == Init => RawTold
PROOF
<1> SUFFICES ASSUME Init PROVE RawTold
  OBVIOUS
<1>1. PICK s \in Stores :
        /\ rows = (CASE s = "new" -> {}
                     [] s = "unmarked" -> Permanent
                     [] s = "older" -> Permanent \cup {Raw}
                     [] OTHER -> Sources)
        /\ manifest = (CASE s = "new" -> NoManifest
                         [] s \in {"current", "unmarked"} -> Blank
                         [] s = "older" -> [Blank EXCEPT !.pre = TRUE]
                         [] s = "unreadable" -> Unreadable)
        /\ freed = (CASE s = "older" -> {Raw} \cup (Sources \ Permanent)
                      [] s = "unmarked" -> Sources \ Permanent
                      [] s = "unreadable" -> {Raw}
                      [] OTHER -> {})
        /\ vectors = (IF s = "unreadable" THEN rows \cup {Raw} ELSE rows) \ Documents
  BY DEF Init
<1>2. /\ s \in {"new", "current", "unmarked", "older", "unreadable"} /\ Raw \notin Sources
      /\ Permanent \subseteq Sources /\ logged = {} /\ pc = "idle"
  BY PathsAssumption DEF Init
<1>3. /\ [Blank EXCEPT !.pre = TRUE] \in Manifests /\ Blank \in Manifests
      /\ [Blank EXCEPT !.pre = TRUE].pre = TRUE
  BY DEF Blank, Manifests
<1>4. CASE s \in {"new", "current", "unmarked"}
  <2>1. Raw \notin rows /\ Raw \notin freed /\ Raw \notin vectors /\ manifest # Unreadable
    BY <1>1, <1>2, <1>3, <1>4, ManifestAssumption
  <2> QED BY <1>2, <2>1 DEF RawTold, RawSomewhere, Staging, Decided, Serving
<1>5. CASE s = "older"
  <2>1. manifest = [Blank EXCEPT !.pre = TRUE]
    BY <1>1, <1>5
  <2>2. manifest \in Manifests /\ manifest.pre = TRUE /\ manifest # Unreadable
    BY <1>3, <2>1, ManifestAssumption
  <2> QED BY <1>2, <2>2 DEF RawTold, Published, Staging, Decided, Serving
<1>6. CASE s = "unreadable"
  <2>1. manifest = Unreadable
    BY <1>1, <1>6
  <2> QED BY <1>2, <1>6, <2>1 DEF RawTold, Staging, Decided, Serving
<1> QED BY <1>2, <1>4, <1>5, <1>6

LEMMA RawStep ==
    ASSUME TypeOK, Shape, RawTold, "start" \in Kinds => "unreadable" \notin Stores,
           CutPoints \cap {"history", "decide", "publish"} = {}, [Next]_vars
    PROVE  RawTold'
PROOF
<1>1. Raw \notin Sources /\ Raw \notin HistoryPaths /\ run \in Runs /\ run.manifest \in Manifests
      /\ history \subseteq HistoryPaths
  BY PathsAssumption, TypeParts, RunFields DEF RunOK, RowsOK
<1>2. ASSUME NEW kind \in Kinds, NEW scan \in Scans, Begin(kind, scan) PROVE RawTold'
  <2>1. /\ pc = "idle" /\ pc' = "stage" /\ (kind = "event" => manifest # Unreadable)
        /\ UNCHANGED <<rows, manifest, freed, logged, vectors>>
    BY <1>2 DEF Begin, content, bytes, derived
  <2>2. run'.kind = kind /\ run'.previous = manifest
    BY <1>2, BeginRun
  <2>3. manifest = Unreadable => kind = "index"
    BY <2>1, PathsAssumption DEF RawTold
  <2> QED BY <2>1, <2>2, <2>3
          DEF RawTold, RawSomewhere, Before, Staging, Decided, Serving, Published
<1>3. CASE StageFull \/ StagePartial \/ PartialFails \/ ReplaceDocuments \/ PutHistory
  <2>1. /\ vectors' = vectors /\ manifest' \in {manifest, NoManifest}
        /\ run'.previous = run.previous /\ run'.kind = run.kind
        /\ pc \in {"stage", "documents", "history"}
        /\ pc' \in {"documents", "history", "decide"} \/ (PartialFails /\ pc' = "stage")
    BY <1>3, StagingRun
       DEF StageFull, StagePartial, PartialFails, ReplaceDocuments, PutHistory, derived, content
  <2>2. /\ rows' \subseteq rows \cup Sources
        /\ freed' \cup logged' \subseteq freed \cup logged \cup rows \cup history
    <3>1. run.scan.files \subseteq Sources
      BY <1>1, RunFields DEF ScanType
    <3>2. CASE StageFull \/ StagePartial \/ ReplaceDocuments
      BY <3>1, <3>2 DEF StageFull, StagePartial, ReplaceDocuments, ReplaceRows
    <3>3. CASE PartialFails \/ PutHistory
      BY <3>3 DEF PartialFails, PutHistory, content, bytes
    <3> QED BY <1>3, <3>2, <3>3
  <2>3. RawSomewhere' => RawSomewhere
    BY <1>1, <2>1, <2>2 DEF RawSomewhere
  <2>4. pc = "stage" => run.previous = manifest
    BY DEF Shape
  <2>5. CASE Staging'
    BY <2>1, <2>3, <2>4, <2>5, ManifestAssumption
       DEF RawTold, Before, Staging, Decided, Serving, Known, Published
  <2>6. CASE pc' = "stage"
    <3>1. PartialFails /\ manifest' = manifest /\ pc = "stage"
      BY <2>1, <2>6 DEF PartialFails, Staging
    <3> QED BY <2>1, <2>3, <2>6, <3>1 DEF RawTold, Before, Staging, Decided, Serving, Published
  <2> QED BY <2>1, <2>5, <2>6 DEF Staging
<1>4. CASE Decide
  <2>1. /\ pc = "decide" /\ pc' = "publish" /\ UNCHANGED <<rows, manifest, freed, logged, vectors>>
    BY <1>4 DEF Decide, content, bytes, derived
  <2>2. /\ run'.manifest.pre <=> PreRedactionOwed
        /\ run'.partial = run.partial
    BY <1>4, DecideRun
  <2>3. RawSomewhere => PreRedactionOwed
    BY <2>1 DEF RawTold, Staging, PreRedactionOwed
  <2>4. run.partial => ~PreRedactionOwed
    <3>1. run.partial => run.kind = "event" /\ Known /\ ~run.previous.pre
      BY <2>1, TypeParts DEF Shape, Staging, RunOK
    <3> QED BY <3>1 DEF PreRedactionOwed
  <2> QED BY <2>1, <2>2, <2>3, <2>4 DEF RawTold, RawSomewhere, Before, Staging, Decided, Serving
<1>5. CASE Publish \/ RecordPreClear \/ RecordClearing \/ RecordPrune
  <2>1. /\ Decided /\ Serving' /\ manifest' = run.manifest /\ run' = run
        /\ UNCHANGED <<rows, freed, logged, vectors>>
    BY <1>5 DEF Publish, RecordPreClear, RecordClearing, RecordPrune, PutManifest,
                content, bytes, derived, Decided, Serving
  <2>2. run.manifest # Unreadable
    BY <1>1, ManifestFields
  <2> QED BY <2>1, <2>2 DEF RawTold, RawSomewhere, Before, Staging, Decided, Serving
<1>6. CASE PreClear
  <2>1. /\ pc' = "record_pre" /\ manifest' = manifest /\ rows' = rows
        /\ vectors' = {} /\ freed' = {} /\ logged' = {} /\ Decided
    BY <1>6 DEF PreClear, CompactAndTruncate, Compacted, content, Decided
  <2>2. ~RawSomewhere'
    BY <2>1 DEF RawSomewhere, Shape
  <2> QED BY <2>1, <2>2 DEF RawTold, Staging
<1>7. CASE PreClearFails \/ ClearDeletedContent \/ ClearFails \/ PruneRemovedPaths \/ PruneFails
  <2>1. /\ Serving /\ Serving' /\ manifest' = manifest /\ rows' = rows /\ vectors' \subseteq vectors
        /\ freed' \cup logged' \subseteq freed \cup logged
    BY <1>7 DEF PreClearFails, ClearDeletedContent, ClearFails, PruneRemovedPaths, PruneFails,
                NothingCleared, Compact, CompactAndTruncate, Compacted, TruncateWal,
                content, bytes, derived, Serving, Decided
  <2>2. run'.manifest.pre = run.manifest.pre
    BY <1>7, PreClearFailsRun, ClearRun, ClearFailsRun, PruneRun, PruneFailsRun
  <2>3. RawSomewhere' => RawSomewhere
    BY <2>1 DEF RawSomewhere
  <2> QED BY <2>1, <2>2, <2>3 DEF RawTold, Before, Staging, Decided, Serving
<1>8. CASE CutShort
  <2>1. /\ pc' = "idle" /\ pc \notin {"history", "decide", "publish"}
        /\ UNCHANGED <<rows, manifest, freed, logged, vectors>>
    BY <1>8 DEF CutShort, End, content, bytes, derived
  <2>2. Before \/ Serving \/ pc = "documents"
    BY <2>1, TypeParts DEF RunOK, Pcs, Before, Serving, Decided
  <2>3. pc = "documents" => ~RawSomewhere
    BY ManifestAssumption DEF Shape, RawTold, Staging, Known
  <2> QED BY <2>1, <2>2, <2>3
          DEF RawTold, RawSomewhere, Before, Staging, Decided, Serving, Published, Shape
<1>9. CASE Withdraw
  <2>1. /\ pc' = "idle" /\ UNCHANGED <<rows, freed, logged, vectors>> /\ manifest' = NoManifest
        /\ run.partial /\ (Staging \/ pc = "publish")
    BY <1>9 DEF Withdraw, End, content, bytes, derived, PartiallyStaged, Staging
  <2>2. ~RawSomewhere
    <3>1. CASE Staging
      BY <2>1, <3>1, ManifestAssumption DEF Shape, RawTold, Known
    <3>2. CASE pc = "publish"
      BY <2>1, <3>2 DEF RawTold, Decided
    <3> QED BY <2>1, <3>1, <3>2
  <2> QED BY <2>1, <2>2, ManifestAssumption
          DEF RawTold, RawSomewhere, Staging, Decided, Serving
<1>10. CASE FinishRun \/ SemanticIndex \/ BuildPack \/ CompressPack \/ UNCHANGED vars
  <2>1. /\ UNCHANGED <<rows, manifest, freed, logged>> /\ vectors' \in {vectors, rows \ Documents}
        /\ (pc' = "idle" /\ Serving) \/ UNCHANGED <<pc, run>>
    BY <1>10 DEF FinishRun, SemanticIndex, BuildPack, CompressPack, vars, content, bytes, derived,
                 End, Serving, Decided
  <2>2. RawSomewhere' => RawSomewhere
    BY <2>1 DEF RawSomewhere
  <2>3. CASE pc' = "idle" /\ Serving
    BY <2>1, <2>2, <2>3 DEF RawTold, Before, Staging, Decided, Serving, Published, Shape
  <2>4. CASE UNCHANGED <<pc, run>>
    BY <2>1, <2>2, <2>4 DEF RawTold, Before, Staging, Decided, Serving, Published, Known
  <2> QED BY <2>1, <2>3, <2>4
<1> QED BY <1>2, <1>3, <1>4, <1>5, <1>6, <1>7, <1>8, <1>9, <1>10 DEF Next

\* Text stored before redaction is reported until it is nowhere, where no run is cut
\* between removing the manifest and writing it again, and none takes an unreadable
\* manifest for none (compact_after_publish).
THEOREM RawTextReported ==
    ASSUME "start" \in Kinds => "unreadable" \notin Stores,
           CutPoints \cap {"history", "decide", "publish"} = {}
    PROVE  Spec => []PreRedactionTracked
PROOF
<1>1. Init => TypeOK /\ Shape /\ RawTold
  BY InitType, RawInit
<1>2. TypeOK /\ Shape /\ RawTold /\ [Next]_vars => TypeOK' /\ Shape' /\ RawTold'
  BY StepShape, RawStep
<1>3. TypeOK /\ Shape /\ RawTold => PreRedactionTracked
  <2> SUFFICES ASSUME TypeOK, Shape, RawTold, Reliable, ~manifest.pre PROVE ~RawSomewhere
    BY DEF PreRedactionTracked, RawSomewhere
  <2>1. Before \/ Serving
    BY ReliableWhen
  <2> QED BY <2>1, ManifestAssumption DEF RawTold, Reliable, Published
<1> QED BY <1>1, <1>2, <1>3, PTL DEF Spec

-----------------------------------------------------------------------------
(***************************************************************************)
(* Clearing.                                                               *)
(***************************************************************************)

\* From the decision to the clearing: what the run holds itself to owe, what it has
\* written down of it, and what it has cleared already.
Paying ==
    /\ pc \in {"publish", "pre", "record_pre", "clear"} =>
         /\ run.owed => run.manifest.del
         /\ Full /\ run.manifest.del => run.owed
         /\ Full => marked \/ run.owed
    /\ pc \in {"publish", "pre"} => ~run.compacted
    /\ pc \in {"pre", "clear"} => run.manifest = manifest
    /\ pc \in {"pre", "record_pre"} => manifest.pre
    /\ pc = "record_pre" => run.compacted
    /\ pc \in {"record_pre", "clear"} /\ run.compacted =>
         freed = {} /\ logged = {} /\ copied = {} /\ marked

LEMMA PayStep ==
    ASSUME TypeOK, Shape, Paying, [Next]_vars
    PROVE  Paying'
PROOF
<1>1. CASE Decide
  <2>1. pc = "decide" /\ pc' = "publish" /\ marked' = marked
    BY <1>1 DEF Decide
  <2>2. PICK owed \in BOOLEAN :
          /\ CompactionOwed(owed)
          /\ run'.kind = run.kind /\ run'.owed = owed /\ run'.compacted = FALSE
          /\ run'.manifest.del <=> DeletedContentOwed(owed)
    BY <1>1, DecideRun
  <2>3. Full /\ ~marked => owed
    BY <2>2 DEF CompactionOwed, OwedAlready
  <2> QED BY <2>1, <2>2, <2>3 DEF Paying, DeletedContentOwed, Full
<1>2. CASE Publish
  <2>1. /\ pc = "publish" /\ pc' = (IF run.manifest.pre THEN "pre" ELSE "clear")
        /\ manifest' = run.manifest /\ run' = run /\ marked' = marked
    BY <1>2 DEF Publish, PutManifest, flags, evidence
  <2> QED BY <2>1 DEF Paying, Full
<1>3. CASE RecordPreClear
  <2>1. /\ pc = "record_pre" /\ pc' = "clear" /\ manifest' = run.manifest
        /\ UNCHANGED <<run, marked, freed, logged, copied>>
    BY <1>3 DEF RecordPreClear, PutManifest, flags, evidence, bytes
  <2> QED BY <2>1 DEF Paying, Full
<1>4. CASE PreClear
  <2>1. /\ pc = "pre" /\ pc' = "record_pre" /\ manifest' = manifest
        /\ marked' = TRUE /\ freed' = {} /\ logged' = {} /\ copied' = {}
    BY <1>4 DEF PreClear, CompactAndTruncate, Compacted
  <2>2. Same /\ run'.manifest.del = run.manifest.del /\ run'.compacted = TRUE
    BY <1>4, PreClearRun
  <2> QED BY <2>1, <2>2 DEF Paying, Full, Same
<1>5. CASE PreClearFails
  <2>1. pc = "pre" /\ pc' = "clear" /\ manifest' = manifest /\ marked' \in {marked, TRUE}
    BY <1>5 DEF PreClearFails, NothingCleared, Compact, Compacted, flags, evidence
  <2>2. Same /\ run'.manifest = run.manifest /\ run'.compacted = run.compacted
    BY <1>5, PreClearFailsRun
  <2>3. ~run'.compacted
    BY <2>1, <2>2 DEF Paying
  <2> QED BY <2>1, <2>2, <2>3 DEF Paying, Full, Same
<1>6. CASE pc' \notin {"publish", "pre", "record_pre", "clear"}
  BY <1>6 DEF Paying
<1>7. CASE SemanticIndex \/ BuildPack \/ CompressPack \/ UNCHANGED vars
  <2>1. UNCHANGED <<pc, run, manifest, marked, freed, logged, copied>>
    BY <1>7 DEF SemanticIndex, BuildPack, CompressPack, vars, bytes, flags, evidence
  <2> QED BY <2>1 DEF Paying, Full
<1>8. CASE \/ \E kind \in Kinds, scan \in Scans : Begin(kind, scan)
           \/ StageFull \/ StagePartial \/ PartialFails \/ ReplaceDocuments \/ PutHistory
           \/ ClearDeletedContent \/ ClearFails \/ RecordClearing
           \/ PruneRemovedPaths \/ PruneFails \/ RecordPrune \/ FinishRun
           \/ CutShort \/ Withdraw
  <2>1. pc' \notin {"publish", "pre", "record_pre", "clear"}
    BY <1>8 DEF Begin, StageFull, StagePartial, PartialFails, ReplaceDocuments, PutHistory,
                ClearDeletedContent, ClearFails, RecordClearing, PruneRemovedPaths, PruneFails,
                RecordPrune, FinishRun, CutShort, Withdraw, End
  <2> QED BY <1>6, <2>1
<1> QED BY <1>1, <1>2, <1>3, <1>4, <1>5, <1>7, <1>8 DEF Next

-----------------------------------------------------------------------------
(***************************************************************************)
(* Content that left the index because the policy excludes it.             *)
(***************************************************************************)

\* Bytes of it are left in a database that no earlier version wrote, and not since a
\* partial update was killed.
EvictedLeft == marked /\ (evicted \cap Residue) \ forgotten # {}

\* Then the manifest tells, or what the run under way has seen makes it tell; where
\* there is no manifest, the next run owes a compaction.
EvictedTold ==
    EvictedLeft =>
      /\ Before  => /\ Published => manifest.del \/ manifest.pre
                    /\ ~Published => rows \ {Raw} # {}
      /\ Staging => /\ Known => \/ run.previous.del \/ run.previous.pre
                                \/ run.indexed \cap run.scan.excluded # {}
                                \/ run.named \cap run.scan.denied # {}
                    /\ ~Known => run.indexed # {}
      /\ Decided => run.manifest.del \/ run.manifest.pre
      /\ Serving => manifest.del \/ manifest.pre

EvictedGone ==
    /\ evicted \cap (rows \cup history) = {} /\ Raw \notin evicted
    /\ history # {} => Permanent \subseteq rows
    /\ Staging /\ run.named # {} => Permanent \subseteq run.indexed

LEMMA EvictedInit == Init => EvictedGone /\ EvictedTold
PROOF
<1> SUFFICES ASSUME Init PROVE EvictedGone /\ EvictedTold
  OBVIOUS
<1>1. PICK s \in Stores :
        /\ rows = (CASE s = "new" -> {}
                     [] s = "unmarked" -> Permanent
                     [] s = "older" -> Permanent \cup {Raw}
                     [] OTHER -> Sources)
        /\ history = (IF s = "new" THEN {} ELSE HistoryPaths)
        /\ marked = (s \in {"new", "current"})
        /\ evicted = (IF s \in {"unmarked", "older"} THEN Sources \ Permanent ELSE {})
  BY DEF Init
<1>2. /\ s \in {"new", "current", "unmarked", "older", "unreadable"} /\ Permanent \subseteq Sources
      /\ Raw \notin Sources /\ HistoryPaths \cap Sources = {} /\ pc = "idle"
  BY PathsAssumption DEF Init
<1>3. marked => evicted = {}
  BY <1>1, <1>2
<1>4. history # {} => Permanent \subseteq rows
  BY <1>1, <1>2
<1>5. evicted \cap (rows \cup history) = {} /\ Raw \notin evicted
  BY <1>1, <1>2
<1> QED BY <1>2, <1>3, <1>4, <1>5 DEF EvictedGone, EvictedTold, EvictedLeft, Staging

\* Replacing the rows of a run: what leaves them is what the run found indexed.
LEMMA EvictedReplace ==
    ASSUME TypeOK, Shape, EvictedGone, EvictedTold, Permanent # {},
           NEW new \in SUBSET Sources, NEW deleted \in SUBSET rows, ReplaceRows(new, deleted),
           pc \in {"stage", "documents"}, Staging', Shape',
           UNCHANGED <<history, marked>>,
           pc = "documents" => new = run.scan.files,
           run'.previous = run.previous, run'.indexed = run.indexed,
           run'.named = run.named, run'.scan = run.scan
    PROVE  EvictedGone' /\ EvictedTold'
PROOF
<1>1. /\ rows' = new /\ freed' = freed \cup deleted /\ logged' = logged \cup deleted
      /\ evicted' = (evicted \cup ((rows \ new) \cap run.scan.excluded)) \ new
      /\ forgotten' = forgotten \ new
  BY DEF ReplaceRows
<1>2. /\ rows \subseteq Sources \cup {Raw} /\ history \subseteq HistoryPaths
      /\ run.scan.excluded \subseteq Deniable \cup Ignorable
      /\ Raw \notin Sources \cup HistoryPaths /\ HistoryPaths \cap Sources = {}
      /\ Ignorable \subseteq Sources /\ Deniable \subseteq Sources \cup HistoryPaths
      /\ Permanent \subseteq Sources
  BY TypeParts, RunFields, PathsAssumption DEF RowsOK, RunOK, ScanType
<1>3. Permanent \subseteq rows'
  BY DEF Shape
<1>4. run.named # {} => Permanent \subseteq run.indexed
  <2>1. CASE pc = "stage"
    BY <1>2, <2>1 DEF Shape, EvictedGone
  <2>2. CASE pc = "documents"
    BY <2>2 DEF EvictedGone, Staging
  <2> QED BY <2>1, <2>2
<1>5. EvictedGone'
  <2>1. evicted' \cap (rows' \cup history') = {} /\ Raw \notin evicted'
    BY <1>1, <1>2 DEF EvictedGone
  <2> QED BY <1>3, <1>4, <2>1 DEF EvictedGone
<1>6. ASSUME EvictedLeft'
      PROVE  /\ Known => \/ run.previous.del \/ run.previous.pre
                         \/ run.indexed \cap run.scan.excluded # {}
                         \/ run.named \cap run.scan.denied # {}
             /\ ~Known => run.indexed # {}
  <2>1. PICK c \in evicted' : c \in Residue' /\ c \notin forgotten'
    BY <1>6 DEF EvictedLeft
  <2>2. /\ marked /\ c \notin forgotten /\ c \in freed' \cup logged'
        /\ c \notin rows' \cup history
    BY <1>1, <1>6, <2>1 DEF EvictedLeft, Residue
  <2>3. CASE c \in rows
    <3>1. c \in run.scan.excluded /\ c \notin new /\ c # Raw
      BY <1>1, <1>2, <2>1, <2>3 DEF EvictedGone
    <3>2. c \in run.indexed
      BY <2>3, <3>1 DEF Shape
    <3> QED BY <3>1, <3>2
  <2>4. CASE c \notin rows
    <3>1. EvictedLeft
      BY <1>1, <2>1, <2>2, <2>4 DEF EvictedLeft, Residue
    <3>2. CASE pc = "stage"
      <4>1. Before /\ run.previous = manifest /\ run.indexed = rows \ {Raw}
        BY <3>2 DEF Before, Shape
      <4> QED BY <3>1, <4>1 DEF EvictedTold, Known, Published
    <3>3. CASE pc = "documents"
      BY <3>1, <3>3 DEF EvictedTold, Staging
    <3> QED BY <3>2, <3>3
  <2> QED BY <2>3, <2>4
<1>7. ~Before' /\ ~Decided' /\ ~Serving' /\ Known' = Known
  BY DEF Before, Decided, Serving, Staging, Known
<1>8. EvictedTold'
  BY <1>6, <1>7 DEF EvictedTold
<1> QED BY <1>5, <1>8

LEMMA EvictedStaging ==
    ASSUME TypeOK, Shape, Shape', EvictedGone, EvictedTold, Permanent # {},
           StageFull \/ StagePartial \/ PartialFails \/ ReplaceDocuments \/ PutHistory
    PROVE  EvictedGone' /\ EvictedTold'
PROOF
<1>1. /\ run.scan.files \in SUBSET Sources /\ rows \subseteq Sources \cup {Raw}
      /\ history \subseteq HistoryPaths /\ Documents \subseteq Sources
      /\ Raw \notin HistoryPaths /\ HistoryPaths \cap Sources = {}
  BY TypeParts, RunFields, PathsAssumption DEF RowsOK, RunOK, ScanType
<1>2. CASE StageFull
  <2>1. /\ ReplaceRows(run.scan.files, rows) /\ pc = "stage" /\ Staging'
        /\ run' = run /\ UNCHANGED <<history, marked>>
    BY <1>2 DEF StageFull, Staging, flags, evidence
  <2> QED BY <1>1, <2>1, EvictedReplace
<1>3. CASE StagePartial
  <2> DEFINE new == (rows \cap Documents) \cup (run.scan.files \ Documents)
  <2>1. /\ ReplaceRows(new, rows \ new) /\ pc = "stage" /\ Staging'
        /\ UNCHANGED <<history, marked>>
    BY <1>3 DEF StagePartial, Staging, flags, evidence
  <2>2. /\ run'.previous = run.previous /\ run'.indexed = run.indexed
        /\ run'.named = run.named /\ run'.scan = run.scan
    BY <1>3, StagingRun
  <2>3. new \in SUBSET Sources /\ rows \ new \in SUBSET rows
    BY <1>1
  <2> HIDE DEF new
  <2> QED BY <2>1, <2>2, <2>3, EvictedReplace
<1>4. CASE PartialFails
  <2>1. /\ pc = "stage" /\ pc' = "stage"
        /\ UNCHANGED <<rows, history, manifest, freed, logged, marked, forgotten, evicted>>
    BY <1>4 DEF PartialFails, content, bytes, flags, evidence
  <2> QED BY <2>1 DEF EvictedGone, EvictedTold, EvictedLeft, Residue, Before, Staging, Decided,
                      Serving, Published
<1>5. CASE ReplaceDocuments
  <2>1. /\ ReplaceRows(run.scan.files, rows \ run.scan.files) /\ pc = "documents" /\ Staging'
        /\ run' = run /\ UNCHANGED <<history, marked>>
    BY <1>5 DEF ReplaceDocuments, Staging, flags, evidence
  <2>2. rows \ run.scan.files \in SUBSET rows
    OBVIOUS
  <2> QED BY <1>1, <2>1, <2>2, EvictedReplace
<1>6. CASE PutHistory
  <2>1. /\ pc = "history" /\ pc' = "decide" /\ history' = run.scan.history
        /\ freed' = freed \cup history /\ logged' = logged \cup history
        /\ evicted' = (evicted \cup ((history \ run.scan.history) \cap run.scan.denied))
                      \ run.scan.history
        /\ forgotten' = forgotten \ run.scan.history /\ UNCHANGED <<rows, run, marked>>
    BY <1>6 DEF PutHistory, flags, evidence
  <2>2. Staging /\ Staging' /\ ~Before' /\ ~Decided' /\ ~Serving' /\ run.named = history
    BY <2>1 DEF Staging, Before, Decided, Serving, Shape
  <2>3. run.scan.history \subseteq HistoryPaths
    BY TypeParts, RunFields DEF RunOK, ScanType
  <2>4. evicted' \cap (rows' \cup history') = {} /\ Raw \notin evicted'
    BY <1>1, <2>1, <2>3 DEF EvictedGone
  <2>5. EvictedGone'
    BY <2>1, <2>2, <2>4 DEF EvictedGone, Shape
  <2>6. ASSUME EvictedLeft'
        PROVE  /\ Known => \/ run.previous.del \/ run.previous.pre
                           \/ run.indexed \cap run.scan.excluded # {}
                           \/ run.named \cap run.scan.denied # {}
               /\ ~Known => run.indexed # {}
    <3>1. PICK c \in evicted' : c \in Residue' /\ c \notin forgotten'
      BY <2>6 DEF EvictedLeft
    <3>2. /\ marked /\ c \notin forgotten /\ c \in freed' \cup logged'
          /\ c \notin rows /\ c \notin history'
      BY <2>1, <2>6, <3>1 DEF EvictedLeft, Residue
    <3>3. CASE c \in history
      <4>1. c \in run.scan.denied
        BY <2>1, <3>1, <3>3 DEF EvictedGone
      <4>2. run.named # {} /\ run.named \cap run.scan.denied # {}
        BY <2>2, <3>3, <4>1
      <4> QED BY <2>2, <4>2 DEF EvictedGone
    <3>4. CASE c \notin history
      <4>1. EvictedLeft
        BY <2>1, <3>1, <3>2, <3>4 DEF EvictedLeft, Residue
      <4> QED BY <2>2, <4>1 DEF EvictedTold
    <3> QED BY <3>3, <3>4
  <2>7. Known' = Known
    BY <2>1 DEF Known
  <2> QED BY <2>1, <2>2, <2>5, <2>6, <2>7 DEF EvictedTold
<1> QED BY <1>2, <1>3, <1>4, <1>5, <1>6

LEMMA EvictedDecide ==
    ASSUME TypeOK, Shape, EvictedGone, EvictedTold, Decide
    PROVE  EvictedTold'
PROOF
<1>1. /\ pc = "decide" /\ pc' = "publish"
      /\ UNCHANGED <<rows, history, freed, logged, marked, forgotten, evicted>>
  BY DEF Decide, content, bytes
<1>2. PICK owed \in BOOLEAN :
        /\ CompactionOwed(owed)
        /\ run'.manifest.del <=> DeletedContentOwed(owed)
        /\ run'.manifest.pre <=> PreRedactionOwed
  BY DecideRun
<1>3. /\ rows = run.scan.files /\ history = run.scan.history
      /\ rows \cap run.scan.excluded = {} /\ history \cap run.scan.denied = {}
  BY <1>1 DEF Shape, ScanFits, Staging
<1>4. /\ run.indexed \cap run.scan.excluded # {} => Dropped \cap run.scan.excluded # {}
      /\ run.named \cap run.scan.denied # {} => (run.named \ history) \cap run.scan.denied # {}
  BY <1>3 DEF Dropped
<1>5. EvictedLeft => run'.manifest.del \/ run'.manifest.pre
  BY <1>1, <1>2, <1>4
     DEF EvictedTold, Staging, CompactionOwed, OwedAlready, RemovedExcluded, DeletedContentOwed,
         PreRedactionOwed
<1> QED BY <1>1, <1>5 DEF EvictedTold, EvictedLeft, Residue, Before, Staging, Decided, Serving

\* What a step of the payment leaves of the bytes.
LEMMA PaidBytes ==
    ASSUME TypeOK, Shape, Paying,
           PreClear \/ PreClearFails \/ ClearDeletedContent \/ ClearFails
    PROVE  \/ freed' = {} /\ logged' = {} /\ copied' = {} /\ marked'
           \/ /\ manifest.del \/ manifest.pre
              /\ run'.manifest.del \/ run'.manifest.pre
           \/ /\ UNCHANGED <<freed, flags, copied>> /\ logged' \subseteq logged
              /\ run.manifest.del => run'.manifest.del
              /\ run.manifest.pre => run'.manifest.pre
PROOF
<1>1. run \in Runs /\ run.manifest \in Manifests /\ run' \in Runs /\ run'.manifest \in Manifests
  BY TypeParts, RunFields, PreClearRun, PreClearFailsRun, ClearRun, ClearFailsRun DEF RunOK
<1>2. run.manifest.del \in BOOLEAN /\ run'.manifest.del \in BOOLEAN
  BY <1>1, ManifestFields
<1>3. CASE PreClear
  BY <1>3 DEF PreClear, CompactAndTruncate, Compacted
<1>4. CASE PreClearFails
  <2>1. run.manifest = manifest /\ manifest.pre
    BY <1>4 DEF PreClearFails, Paying
  <2> QED BY <1>4, <2>1, PreClearFailsRun
<1>5. CASE ClearDeletedContent
  <2>1. /\ pc = "clear"
        /\ IF run.owed /\ ~run.compacted THEN CompactAndTruncate ELSE TruncateWal
    BY <1>5 DEF ClearDeletedContent
  <2>2. /\ run'.manifest.del <=> run.manifest.del /\ ~(Full \/ run.owed \/ run.compacted)
        /\ run'.manifest.pre = run.manifest.pre
    BY <1>5, ClearRun
  <2>3. CASE run.owed /\ ~run.compacted
    BY <2>1, <2>3 DEF CompactAndTruncate, Compacted
  <2>4. CASE run.compacted
    BY <2>1, <2>4 DEF Paying, TruncateWal, flags, evidence
  <2>5. CASE ~run.owed /\ ~run.compacted
    <3>1. run'.manifest.del = run.manifest.del
      BY <1>2, <2>1, <2>2, <2>5 DEF Paying
    <3>2. UNCHANGED <<freed, flags, copied>> /\ logged' = {}
      BY <2>1, <2>5 DEF TruncateWal
    <3> QED BY <2>2, <3>1, <3>2
  <2> QED BY <2>3, <2>4, <2>5
<1>6. CASE ClearFails
  <2>1. /\ pc = "clear"
        /\ NothingCleared \/ (run.owed /\ ~run.compacted /\ Compact)
    BY <1>6 DEF ClearFails
  <2>2. run'.manifest.del = TRUE /\ run'.manifest.pre = run.manifest.pre
    BY <1>6, ClearFailsRun
  <2>3. run.manifest = manifest
    BY <2>1 DEF Paying
  <2>4. run.owed => run.manifest.del
    BY <2>1 DEF Paying
  <2>5. CASE NothingCleared
    BY <2>2, <2>5 DEF NothingCleared, bytes
  <2>6. CASE run.owed
    BY <2>2, <2>3, <2>4, <2>6
  <2> QED BY <2>1, <2>5, <2>6
<1> QED BY <1>3, <1>4, <1>5, <1>6

LEMMA EvictedStep ==
    ASSUME TypeOK, Shape, Shape', Paying, EvictedGone, EvictedTold, Permanent # {}, [Next]_vars
    PROVE  EvictedGone' /\ EvictedTold'
PROOF
<1>1. CASE StageFull \/ StagePartial \/ PartialFails \/ ReplaceDocuments \/ PutHistory
  BY <1>1, EvictedStaging
<1>2. CASE \E kind \in Kinds, scan \in Scans : Begin(kind, scan)
  <2>1. /\ pc = "idle" /\ pc' = "stage"
        /\ UNCHANGED <<rows, history, manifest, freed, logged, marked, forgotten, evicted>>
    BY <1>2 DEF Begin, content, bytes, flags, evidence
  <2> QED BY <2>1 DEF EvictedGone, EvictedTold, EvictedLeft, Residue, Before, Staging, Decided,
                      Serving, Published
<1>3. CASE Decide
  <2>1. UNCHANGED <<rows, history, evicted>> /\ pc' = "publish"
    BY <1>3 DEF Decide, content
  <2>2. EvictedGone'
    BY <2>1 DEF EvictedGone, Staging
  <2> QED BY <1>3, <2>2, EvictedDecide
<1>4. CASE Publish \/ RecordPreClear \/ RecordClearing \/ RecordPrune
  <2>1. /\ Decided /\ Decided' /\ manifest' = run.manifest /\ run' = run
        /\ run.manifest.del \/ forgotten' = forgotten
        /\ UNCHANGED <<rows, history, freed, logged, marked, evicted>>
    BY <1>4 DEF Publish, RecordPreClear, RecordClearing, RecordPrune, PutManifest,
                content, bytes, flags, evidence, Decided
  <2> QED BY <2>1 DEF EvictedGone, EvictedTold, EvictedLeft, Residue, Before, Staging, Decided,
                      Serving
<1>5. CASE PreClear \/ PreClearFails \/ ClearDeletedContent \/ ClearFails
  <2>1. /\ Serving /\ Serving' /\ Decided /\ Decided'
        /\ UNCHANGED <<rows, history, manifest, evicted>>
    BY <1>5 DEF PreClear, PreClearFails, ClearDeletedContent, ClearFails, content, Decided, Serving
  <2>2. ~Before' /\ ~Staging'
    BY <2>1 DEF Before, Staging, Decided
  <2>3. EvictedGone'
    BY <2>1, <2>2 DEF EvictedGone
  <2>4. \/ freed' = {} /\ logged' = {}
        \/ /\ manifest.del \/ manifest.pre
           /\ run'.manifest.del \/ run'.manifest.pre
        \/ /\ UNCHANGED <<freed, marked, forgotten>> /\ logged' \subseteq logged
           /\ run.manifest.del => run'.manifest.del
           /\ run.manifest.pre => run'.manifest.pre
    BY <1>5, PaidBytes DEF flags, evidence
  <2>5. EvictedTold'
    BY <2>1, <2>2, <2>4 DEF EvictedTold, EvictedLeft, Residue
  <2> QED BY <2>3, <2>5
<1>6. CASE PruneRemovedPaths \/ PruneFails
  <2>1. /\ Serving /\ Serving' /\ Decided /\ Decided' /\ pc' = "record_prune"
        /\ UNCHANGED <<rows, history, manifest, freed, logged, marked, forgotten, evicted>>
    BY <1>6 DEF PruneRemovedPaths, PruneFails, content, bytes, flags, evidence, Decided, Serving
  <2>2. run'.manifest.del = run.manifest.del /\ run'.manifest.pre = run.manifest.pre
    BY <1>6, PruneRun, PruneFailsRun
  <2> QED BY <2>1, <2>2 DEF EvictedGone, EvictedTold, EvictedLeft, Residue, Before, Staging
<1>7. CASE CutShort \/ Withdraw
  <2>1. /\ pc' = "idle" /\ UNCHANGED <<rows, history, freed, logged, marked, evicted>>
        /\ \/ /\ UNCHANGED forgotten
              /\ \/ manifest' = manifest /\ (Before \/ Serving)
                 \/ manifest' = NoManifest /\ rows \ {Raw} # {}
           \/ /\ manifest' = manifest /\ rows \ {Raw} # {}
              /\ marked => manifest.del \/ Residue \subseteq forgotten'
    BY <1>7, Interrupted
  <2> QED BY <2>1, ManifestAssumption
          DEF EvictedGone, EvictedTold, EvictedLeft, Residue, Before, Staging, Decided, Serving,
              Published, Shape
<1>8. CASE FinishRun \/ SemanticIndex \/ BuildPack \/ CompressPack \/ UNCHANGED vars
  <2>1. /\ UNCHANGED <<rows, history, manifest, freed, logged, marked, forgotten, evicted>>
        /\ (pc' = "idle" /\ Serving) \/ UNCHANGED <<pc, run>>
    BY <1>8 DEF FinishRun, SemanticIndex, BuildPack, CompressPack, vars, content, bytes,
                flags, evidence, End, Serving, Decided
  <2>2. CASE pc' = "idle" /\ Serving
    BY <2>1, <2>2 DEF EvictedGone, EvictedTold, EvictedLeft, Residue, Before, Staging, Decided,
                      Serving, Published, Shape
  <2>3. CASE UNCHANGED <<pc, run>>
    BY <2>1, <2>3 DEF EvictedGone, EvictedTold, EvictedLeft, Residue, Before, Staging, Decided,
                      Serving, Published, Known
  <2> QED BY <2>1, <2>2, <2>3
<1> QED BY <1>1, <1>2, <1>3, <1>4, <1>5, <1>6, <1>7, <1>8 DEF Next

LEMMA PayInit == Init => Paying
PROOF BY DEF Init, Paying

\* Whatever fails or is put off, and whatever runs are killed: content of an excluded path
\* is in no free page and in no log, or the manifest reports a clearing, but for what was
\* gone when a partial update was killed over a manifest that reports none (compaction_owed).
THEOREM ExcludedContentReported ==
    ASSUME Permanent # {}
    PROVE  Spec => []ExcludedContentCleared
PROOF
<1>1. Init => TypeOK /\ Shape /\ Paying /\ EvictedGone /\ EvictedTold
  BY InitType, PayInit, EvictedInit
<1>2. TypeOK /\ Shape /\ Paying /\ EvictedGone /\ EvictedTold /\ [Next]_vars
        => TypeOK' /\ Shape' /\ Paying' /\ EvictedGone' /\ EvictedTold'
  BY StepShape, PayStep, EvictedStep
<1>3. TypeOK /\ Shape /\ EvictedTold => ExcludedContentCleared
  <2> SUFFICES ASSUME TypeOK, Shape, EvictedTold, ReportsCleared
               PROVE  evicted \cap Residue \subseteq forgotten
    BY DEF ExcludedContentCleared
  <2>1. Before \/ Serving
    BY ReliableWhen DEF ReportsCleared
  <2> QED BY <2>1 DEF EvictedTold, EvictedLeft, ReportsCleared, Reliable
<1> QED BY <1>1, <1>2, <1>3, PTL DEF Spec

-----------------------------------------------------------------------------
(***************************************************************************)
(* Content that moved to a skipped path.                                   *)
(***************************************************************************)

\* Deleted contents of sources whose bytes may be left.
Leftover == ((freed \cup logged) \cap Sources) \ rows

\* No moved content is left but what is forgotten, and each half of a move has left its mark.
Quiet ==
    /\ (copied \cap Residue) \ forgotten = {}
    /\ copied # {} => gainFlag
    /\ Leftover \ forgotten # {} => dropFlag

\* The same while a run replaces the rows: what is new, the run has noticed itself.
Noticed ==
    /\ (copied \cap Residue) \ forgotten # {} => Dropped # {} \/ Gained
    /\ copied # {} => gainFlag \/ Gained
    /\ Leftover \ forgotten # {} => dropFlag \/ Dropped # {}

Owing == IF Published THEN manifest.del \/ manifest.pre ELSE rows \ {Raw} # {}
OwedBefore == IF Known THEN run.previous.del \/ run.previous.pre ELSE run.indexed # {}

MovesTold ==
    marked =>
      /\ Before  => Owing \/ Quiet
      /\ Staging => OwedBefore \/ Noticed
      /\ Decided => run.manifest.del \/ run.manifest.pre \/ Quiet
      /\ Serving => manifest.del \/ manifest.pre \/ Quiet

LEMMA MovesInit == Init => MovesTold
PROOF
<1> SUFFICES ASSUME Init PROVE MovesTold
  OBVIOUS
<1>1. PICK s \in Stores :
        /\ freed = (CASE s = "older" -> {Raw} \cup (Sources \ Permanent)
                      [] s = "unmarked" -> Sources \ Permanent
                      [] s = "unreadable" -> {Raw}
                      [] OTHER -> {})
        /\ marked = (s \in {"new", "current"})
  BY DEF Init
<1>2. marked => freed = {}
  BY <1>1
<1>3. logged = {} /\ copied = {} /\ pc = "idle"
  BY DEF Init
<1> QED BY <1>2, <1>3 DEF MovesTold, Quiet, Leftover, Staging, Decided, Serving

\* Replacing the rows from what the run found indexed, and observing the skips or not.
LEMMA NoticedReplace ==
    ASSUME TypeOK, Shape, MovesTold, marked, ~OwedBefore,
           NEW new \in SUBSET Sources, NEW deleted \in SUBSET rows, ReplaceRows(new, deleted),
           UNCHANGED <<history, gainFlag, dropFlag>>,
           \/ pc = "stage" /\ ObserveMoves
           \/ pc = "documents" /\ new = run.scan.files /\ copied' = copied,
           run'.previous = run.previous, run'.indexed = run.indexed, run'.scan = run.scan
    PROVE  Noticed'
PROOF
<1>1. /\ rows' = new /\ freed' = freed \cup deleted /\ logged' = logged \cup deleted
      /\ forgotten' = forgotten \ new
  BY DEF ReplaceRows
<1>2. rows \subseteq Sources \cup {Raw} /\ copied \subseteq Sources /\ Raw \notin Sources
  BY TypeParts, PathsAssumption DEF RowsOK, SeenOK
<1>3. Dropped' = run.indexed \ new /\ (Gained' <=> Gained)
  BY <1>1 DEF Dropped, Gained, SkipsBefore
<1>4. CASE pc = "stage" /\ ObserveMoves
  <2>1. Quiet
    BY <1>4 DEF MovesTold, Before, Shape, OwedBefore, Owing, Known, Published
  <2>2. copied' \subseteq copied \cup Appeared /\ (Appeared # {} => Gained)
    BY <1>4 DEF ObserveMoves, Appeared, Gained
  <2>3. \A c \in rows \cap Sources : c \notin new => c \in Dropped'
    BY <1>2, <1>3, <1>4 DEF Shape
  <2>4. copied' # {} => gainFlag \/ Gained
    BY <2>1, <2>2 DEF Quiet
  <2>5. Leftover' \ forgotten' # {} => dropFlag \/ Dropped' # {}
    <3> SUFFICES ASSUME NEW c \in Leftover' \ forgotten' PROVE dropFlag \/ Dropped' # {}
      OBVIOUS
    <3>1. c \in Sources /\ c \notin new
      BY <1>1 DEF Leftover
    <3>2. c \in Leftover \ forgotten \/ c \in rows
      BY <1>1, <3>1 DEF Leftover
    <3> QED BY <2>1, <2>3, <3>1, <3>2 DEF Quiet
  <2>6. (copied' \cap Residue') \ forgotten' # {} => Dropped' # {} \/ Gained
    <3> SUFFICES ASSUME NEW c \in copied', c \in Residue', c \notin forgotten', ~Gained
                 PROVE  Dropped' # {}
      OBVIOUS
    <3>1. c \in copied /\ c \in Sources
      BY <1>2, <2>2
    <3>2. c \in freed' \cup logged' /\ c \notin new /\ c \notin history /\ c \notin forgotten
      BY <1>1 DEF Residue
    <3>3. c \notin rows => c \in Residue
      BY <1>1, <3>2 DEF Residue
    <3> QED BY <2>1, <2>3, <3>1, <3>2, <3>3 DEF Quiet
  <2> QED BY <1>3, <2>4, <2>5, <2>6 DEF Noticed
<1>5. CASE pc = "documents" /\ new = run.scan.files /\ copied' = copied
  <2>1. Noticed
    BY <1>5 DEF MovesTold, Staging
  <2>2. \A c \in rows \cap Sources : c \notin new => c \in Dropped'
    BY <1>3, <1>5 DEF Shape
  <2>3. Dropped \subseteq Dropped'
    BY <1>3, <1>5 DEF Shape, Dropped
  <2>4. Leftover' \ forgotten' # {} => dropFlag \/ Dropped' # {}
    <3> SUFFICES ASSUME NEW c \in Leftover' \ forgotten' PROVE dropFlag \/ Dropped' # {}
      OBVIOUS
    <3>1. c \in Sources /\ c \notin new
      BY <1>1 DEF Leftover
    <3>2. c \in Leftover \ forgotten \/ c \in rows
      BY <1>1, <3>1 DEF Leftover
    <3> QED BY <2>1, <2>2, <2>3, <3>1, <3>2 DEF Noticed
  <2>5. (copied' \cap Residue') \ forgotten' # {} => Dropped' # {} \/ Gained
    <3> SUFFICES ASSUME NEW c \in copied, c \in Residue', c \notin forgotten', ~Gained
                 PROVE  Dropped' # {}
      BY <1>5
    <3>1. c \in freed' \cup logged' /\ c \notin new /\ c \notin history /\ c \notin forgotten
      BY <1>1 DEF Residue
    <3>2. c \notin rows => c \in Residue
      BY <1>1, <3>1 DEF Residue
    <3> QED BY <1>2, <2>1, <2>2, <2>3, <3>1, <3>2 DEF Noticed
  <2> QED BY <1>3, <1>5, <2>1, <2>4, <2>5 DEF Noticed
<1> QED BY <1>4, <1>5

LEMMA MovesStaging ==
    ASSUME TypeOK, Shape, MovesTold,
           StageFull \/ StagePartial \/ PartialFails \/ ReplaceDocuments \/ PutHistory
    PROVE  MovesTold'
PROOF
<1>1. /\ run.scan.files \in SUBSET Sources /\ history \subseteq HistoryPaths
      /\ copied \subseteq Sources /\ HistoryPaths \cap Sources = {} /\ Documents \subseteq Sources
      /\ run.scan.history \subseteq HistoryPaths
      /\ rows \subseteq Sources \cup {Raw}
  BY TypeParts, RunFields, PathsAssumption DEF RowsOK, RunOK, ScanType, SeenOK
<1>2. /\ UNCHANGED <<marked, gainFlag, dropFlag>>
      /\ run'.previous = run.previous /\ run'.indexed = run.indexed /\ run'.scan = run.scan
  BY StagingRun DEF StageFull, StagePartial, PartialFails, ReplaceDocuments, PutHistory,
                    flags, evidence
<1>3. OwedBefore' <=> OwedBefore
  BY <1>2 DEF OwedBefore, Known
<1>4. CASE StageFull \/ StagePartial \/ ReplaceDocuments
  <2>1. Staging' /\ ~Before' /\ ~Decided' /\ ~Serving' /\ history' = history
    BY <1>4 DEF StageFull, StagePartial, ReplaceDocuments, Staging, Before, Decided, Serving
  <2>2. /\ \E new \in SUBSET Sources, deleted \in SUBSET rows :
             /\ ReplaceRows(new, deleted)
             /\ pc = "documents" => new = run.scan.files
        /\ (pc = "stage" /\ ObserveMoves) \/ (pc = "documents" /\ copied' = copied)
    <3>1. CASE StageFull
      BY <1>1, <3>1 DEF StageFull
    <3>2. CASE StagePartial
      <4> DEFINE new == (rows \cap Documents) \cup (run.scan.files \ Documents)
      <4>1. new \in SUBSET Sources /\ rows \ new \in SUBSET rows
        BY <1>1
      <4>2. pc = "stage" /\ ObserveMoves /\ ReplaceRows(new, rows \ new)
        BY <3>2 DEF StagePartial
      <4> HIDE DEF new
      <4> QED BY <4>1, <4>2
    <3>3. CASE ReplaceDocuments
      <4>1. /\ pc = "documents" /\ copied' = copied
            /\ ReplaceRows(run.scan.files, rows \ run.scan.files)
        BY <3>3 DEF ReplaceDocuments
      <4>2. rows \ run.scan.files \in SUBSET rows
        OBVIOUS
      <4> QED BY <1>1, <4>1, <4>2
    <3> QED BY <1>4, <3>1, <3>2, <3>3
  <2>3. marked /\ ~OwedBefore => Noticed'
    BY <1>2, <2>1, <2>2, NoticedReplace
  <2> QED BY <1>2, <1>3, <2>1, <2>3 DEF MovesTold
<1>5. CASE PartialFails
  <2>1. /\ pc = "stage" /\ pc' = "stage"
        /\ UNCHANGED <<rows, history, manifest, freed, logged, flags, copied>>
    BY <1>5 DEF PartialFails, content, bytes
  <2> QED BY <2>1 DEF MovesTold, Owing, Published, Quiet, Leftover, Residue, flags, evidence,
                      Before, Staging, Decided, Serving
<1>6. CASE PutHistory
  <2>1. /\ pc = "history" /\ pc' = "decide" /\ history' = run.scan.history
        /\ freed' = freed \cup history /\ logged' = logged \cup history
        /\ forgotten' = forgotten \ run.scan.history /\ UNCHANGED <<rows, copied, run>>
    BY <1>6 DEF PutHistory
  <2>2. Staging /\ Staging' /\ ~Before' /\ ~Decided' /\ ~Serving'
    BY <2>1 DEF Staging, Before, Decided, Serving
  <2>3. Leftover' \ forgotten' = Leftover \ forgotten
    BY <1>1, <2>1 DEF Leftover
  <2>4. (copied \cap Residue') \ forgotten' \subseteq (copied \cap Residue) \ forgotten
    BY <1>1, <2>1 DEF Residue
  <2>5. Dropped' = Dropped /\ (Gained' <=> Gained)
    BY <2>1 DEF Dropped, Gained, SkipsBefore
  <2>6. Noticed => Noticed'
    BY <1>2, <2>1, <2>3, <2>4, <2>5 DEF Noticed
  <2> QED BY <1>2, <1>3, <2>2, <2>6 DEF MovesTold
<1> QED BY <1>4, <1>5, <1>6

LEMMA MovesDecide ==
    ASSUME TypeOK, Shape, MovesTold, Decide
    PROVE  MovesTold'
PROOF
<1>1. /\ pc = "decide" /\ pc' = "publish"
      /\ UNCHANGED <<rows, history, freed, logged, marked, forgotten, copied>>
      /\ NoteRemovalEvidence
  BY DEF Decide, content, bytes
<1>2. PICK owed \in BOOLEAN :
        /\ CompactionOwed(owed)
        /\ run'.manifest.del <=> DeletedContentOwed(owed)
        /\ run'.manifest.pre <=> PreRedactionOwed
  BY DecideRun
<1>3. ASSUME marked, ~run'.manifest.del, ~run'.manifest.pre
      PROVE  Quiet'
  <2>1. ~OwedAlready /\ ~MayHaveMoved
    BY <1>2, <1>3 DEF CompactionOwed, DeletedContentOwed
  <2>2. ~OwedBefore
    BY <1>2, <1>3, <2>1 DEF OwedBefore, OwedAlready, DeletedContentOwed, PreRedactionOwed
  <2>3. Noticed
    BY <1>1, <1>3, <2>2 DEF MovesTold, Staging
  <2>4. /\ dropFlag' = (dropFlag \/ Dropped # {})
        /\ gainFlag' = (gainFlag \/ Gained)
    BY <1>1, <2>1 DEF NoteRemovalEvidence
  <2>5. (copied \cap Residue) \ forgotten = {}
    <3> SUFFICES ASSUME NEW c \in copied, c \in Residue, c \notin forgotten PROVE FALSE
      OBVIOUS
    <3>1. c \in Leftover
      BY TypeParts DEF Leftover, Residue, SeenOK
    <3>2. /\ Dropped # {} \/ Gained
          /\ dropFlag \/ Dropped # {}
          /\ gainFlag \/ Gained
      BY <2>3, <3>1 DEF Noticed
    <3> QED BY <2>1, <3>2 DEF MayHaveMoved
  <2>6. copied # {} => gainFlag'
    BY <2>3, <2>4 DEF Noticed
  <2>7. Leftover \ forgotten # {} => dropFlag'
    BY <2>3, <2>4 DEF Noticed
  <2>8. copied' = copied /\ Residue' = Residue /\ Leftover' = Leftover
    BY <1>1 DEF Residue, Leftover
  <2> QED BY <1>1, <2>5, <2>6, <2>7, <2>8 DEF Quiet
<1> QED BY <1>1, <1>3 DEF MovesTold, Before, Staging, Decided, Serving

LEMMA MovesStep ==
    ASSUME TypeOK, Shape, Shape', Paying, MovesTold, Permanent # {}, [Next]_vars
    PROVE  MovesTold'
PROOF
<1>1. CASE StageFull \/ StagePartial \/ PartialFails \/ ReplaceDocuments \/ PutHistory
  BY <1>1, MovesStaging
<1>2. CASE \E kind \in Kinds, scan \in Scans : Begin(kind, scan)
  <2>1. /\ pc = "idle" /\ pc' = "stage"
        /\ UNCHANGED <<rows, history, manifest, freed, logged, marked, forgotten, dropFlag,
                       gainFlag, copied>>
    BY <1>2 DEF Begin, content, bytes, flags, evidence
  <2> QED BY <2>1 DEF MovesTold, Owing, Published, Quiet, Leftover, Residue, Before, Staging,
                      Decided, Serving
<1>3. CASE Decide
  BY <1>3, MovesDecide
<1>4. CASE Publish \/ RecordPreClear \/ RecordClearing \/ RecordPrune
  <2>1. /\ Decided /\ Decided' /\ manifest' = run.manifest /\ run' = run
        /\ run.manifest.del \/ forgotten' = forgotten
        /\ UNCHANGED <<rows, history, freed, logged, marked, dropFlag, gainFlag, copied>>
    BY <1>4 DEF Publish, RecordPreClear, RecordClearing, RecordPrune, PutManifest,
                content, bytes, flags, evidence, Decided
  <2>2. run.manifest.del \/ (Quiet' <=> Quiet)
    BY <2>1 DEF Quiet, Leftover, Residue
  <2> QED BY <2>1, <2>2 DEF MovesTold, Before, Staging, Decided, Serving
<1>5. CASE PreClear \/ PreClearFails \/ ClearDeletedContent \/ ClearFails
  <2>1. /\ Serving /\ Serving' /\ Decided /\ Decided' /\ UNCHANGED <<rows, history, manifest>>
    BY <1>5 DEF PreClear, PreClearFails, ClearDeletedContent, ClearFails, content, Decided, Serving
  <2>2. ~Before' /\ ~Staging'
    BY <2>1 DEF Before, Staging, Decided
  <2>3. CASE freed' = {} /\ logged' = {} /\ copied' = {}
    <3>1. Quiet'
      BY <2>3 DEF Quiet, Leftover
    <3> QED BY <2>1, <2>2, <3>1 DEF MovesTold
  <2>4. CASE /\ manifest.del \/ manifest.pre
             /\ run'.manifest.del \/ run'.manifest.pre
    BY <2>1, <2>2, <2>4 DEF MovesTold
  <2>5. CASE /\ UNCHANGED <<freed, flags, copied>> /\ logged' \subseteq logged
             /\ run.manifest.del => run'.manifest.del
             /\ run.manifest.pre => run'.manifest.pre
    <3>1. Quiet => Quiet'
      BY <2>1, <2>5 DEF Quiet, Leftover, Residue, flags, evidence
    <3> QED BY <2>1, <2>2, <2>5, <3>1 DEF MovesTold, flags, evidence
  <2> QED BY <1>5, <2>3, <2>4, <2>5, PaidBytes
<1>6. CASE PruneRemovedPaths \/ PruneFails
  <2>1. /\ Serving /\ Serving' /\ Decided /\ Decided' /\ pc' = "record_prune"
        /\ UNCHANGED <<rows, history, manifest, freed, logged, marked, forgotten, dropFlag,
                       gainFlag, copied>>
    BY <1>6 DEF PruneRemovedPaths, PruneFails, content, bytes, flags, evidence, Decided, Serving
  <2>2. run'.manifest.del = run.manifest.del /\ run'.manifest.pre = run.manifest.pre
    BY <1>6, PruneRun, PruneFailsRun
  <2>3. Quiet' <=> Quiet
    BY <2>1 DEF Quiet, Leftover, Residue
  <2> QED BY <2>1, <2>2, <2>3 DEF MovesTold, Before, Staging
<1>7. CASE CutShort \/ Withdraw
  <2>1. /\ pc' = "idle"
        /\ UNCHANGED <<rows, history, freed, logged, marked, dropFlag, gainFlag>>
    BY <1>7, Interrupted
  <2>2. UNCHANGED <<forgotten, copied>> => (Quiet' <=> Quiet)
    BY <2>1 DEF Quiet, Leftover, Residue
  <2>3. CASE manifest' = manifest /\ (Before \/ Serving) /\ UNCHANGED <<forgotten, copied>>
    BY <2>1, <2>2, <2>3 DEF MovesTold, Owing, Before, Staging, Decided, Serving, Published, Shape
  <2>4. CASE manifest' = NoManifest /\ rows \ {Raw} # {}
    BY <2>1, <2>4, ManifestAssumption DEF MovesTold, Owing, Published, Staging, Decided, Serving
  <2>5. CASE /\ manifest' = manifest /\ rows \ {Raw} # {}
             /\ marked => manifest.del \/ Residue \subseteq forgotten'
             /\ copied' \subseteq copied /\ (copied' # {} => gainFlag)
    <3>1. CASE marked /\ ~manifest.del
      <4>1. Leftover' \subseteq forgotten' /\ Residue' \subseteq forgotten'
        BY <2>1, <2>5, <3>1, TypeParts, PathsAssumption DEF Leftover, Residue, RowsOK
      <4>2. Quiet'
        BY <2>1, <2>5, <4>1 DEF Quiet
      <4> QED BY <2>1, <4>2 DEF MovesTold, Staging, Decided, Serving
    <3>2. CASE manifest.del
      BY <2>1, <2>5, <3>2 DEF MovesTold, Owing, Published, Staging, Decided, Serving
    <3> QED BY <2>1, <3>1, <3>2 DEF MovesTold
  <2> QED BY <1>7, <2>3, <2>4, <2>5, Interrupted
<1>8. CASE FinishRun \/ SemanticIndex \/ BuildPack \/ CompressPack \/ UNCHANGED vars
  <2>1. /\ UNCHANGED <<rows, history, manifest, freed, logged, marked, forgotten, dropFlag,
                       gainFlag, copied>>
        /\ (pc' = "idle" /\ Serving) \/ UNCHANGED <<pc, run>>
    BY <1>8 DEF FinishRun, SemanticIndex, BuildPack, CompressPack, vars, content, bytes,
                flags, evidence, End, Serving, Decided
  <2>2. Quiet' <=> Quiet
    BY <2>1 DEF Quiet, Leftover, Residue
  <2>3. CASE pc' = "idle" /\ Serving
    BY <2>1, <2>2, <2>3 DEF MovesTold, Owing, Before, Staging, Decided, Serving, Published, Shape
  <2>4. CASE UNCHANGED <<pc, run>>
    <3>1. Noticed' <=> Noticed
      BY <2>1, <2>4 DEF Noticed, Leftover, Residue, Dropped, Gained, SkipsBefore
    <3>2. (Owing' <=> Owing) /\ (OwedBefore' <=> OwedBefore)
      BY <2>1, <2>4 DEF Owing, OwedBefore, Published, Known
    <3> QED BY <2>1, <2>2, <2>4, <3>1, <3>2 DEF MovesTold, Before, Staging, Decided, Serving
  <2> QED BY <2>1, <2>3, <2>4
<1> QED BY <1>1, <1>2, <1>3, <1>4, <1>5, <1>6, <1>7, <1>8 DEF Next

\* Whatever fails or is put off, and whatever runs are killed: the two halves of a move
\* meet in the flags of the database, so that its bytes are cleared or a clearing reported,
\* with the same exception (compaction_owed, note_removal_evidence).
THEOREM MovedContentReported ==
    ASSUME Permanent # {}
    PROVE  Spec => []RecentMoveCleared
PROOF
<1>1. Init => TypeOK /\ Shape /\ Paying /\ MovesTold
  BY InitType, PayInit, MovesInit
<1>2. TypeOK /\ Shape /\ Paying /\ MovesTold /\ [Next]_vars
        => TypeOK' /\ Shape' /\ Paying' /\ MovesTold'
  BY StepShape, PayStep, MovesStep
<1>3. TypeOK /\ Shape /\ MovesTold => RecentMoveCleared
  <2> SUFFICES ASSUME TypeOK, Shape, MovesTold, ReportsCleared
               PROVE  copied \cap Residue \subseteq forgotten
    BY DEF RecentMoveCleared
  <2>1. Before \/ Serving
    BY ReliableWhen DEF ReportsCleared
  <2> QED BY <2>1 DEF MovesTold, Owing, Quiet, ReportsCleared, Reliable
<1> QED BY <1>1, <1>2, <1>3, PTL DEF Spec

-----------------------------------------------------------------------------
(***************************************************************************)
(* Full runs in which nothing fails.                                       *)
(***************************************************************************)

\* What a full run that has not failed has paid, step by step.
Settling ==
    /\ pc # "idle" => ~settled
    /\ pc = "idle" /\ settled =>
         marked /\ Published /\ ~manifest.del /\ ~manifest.prune /\ ~manifest.pre
    /\ Decided /\ Full => run.prunes
    /\ Decided /\ Full /\ ~run.failed =>
         /\ pc \in {"record_pre", "clear", "record", "prune", "record_prune", "semantic"} =>
              ~run.manifest.pre
         /\ pc \in {"record", "prune", "record_prune", "semantic"} =>
              marked /\ ~run.manifest.del
         /\ pc \in {"record_prune", "semantic"} => ~run.manifest.prune
         /\ pc = "semantic" => run.manifest = manifest

LEMMA SettleInit == Init => Settling
PROOF BY DEF Init, Settling, Decided

LEMMA SettleStep ==
    ASSUME TypeOK, Shape, Paying, Settling, [Next]_vars
    PROVE  Settling'
PROOF
<1>0. CASE \E kind \in Kinds, scan \in Scans : Begin(kind, scan)
  <2>1. pc' = "stage" /\ settled' = FALSE
    BY <1>0 DEF Begin
  <2> QED BY <2>1 DEF Settling, Decided
<1>1. CASE StageFull \/ StagePartial \/ PartialFails \/ ReplaceDocuments \/ PutHistory
  <2>1. /\ pc' \in {"stage", "documents", "history", "decide"}
        /\ settled' = settled /\ pc # "idle"
    BY <1>1 DEF StageFull, StagePartial, PartialFails, ReplaceDocuments, PutHistory
  <2> QED BY <2>1 DEF Settling, Decided
<1>2. CASE Decide
  <2>1. pc = "decide" /\ pc' = "publish" /\ settled' = settled
    BY <1>2 DEF Decide
  <2>2. PICK owed \in BOOLEAN :
          /\ run'.prunes <=> Prunes(owed)
          /\ run'.kind = run.kind
    BY <1>2, DecideRun
  <2>3. Full => ~run.partial
    BY TypeParts DEF RunOK, Full
  <2>4. Full' => run'.prunes
    BY <2>2, <2>3 DEF Prunes, Full
  <2> QED BY <2>1, <2>4 DEF Settling
<1>3. CASE Publish \/ RecordPreClear \/ RecordClearing \/ RecordPrune
  <2>1. /\ run' = run /\ manifest' = run.manifest /\ settled' = settled /\ marked' = marked
        /\ Decided
        /\ \/ pc = "publish" /\ pc' = (IF run.manifest.pre THEN "pre" ELSE "clear")
           \/ pc = "record_pre" /\ pc' = "clear"
           \/ pc = "record" /\ pc' = (IF run.prunes THEN "prune" ELSE "semantic")
           \/ pc = "record_prune" /\ pc' = "semantic"
    BY <1>3 DEF Publish, RecordPreClear, RecordClearing, RecordPrune, PutManifest,
                flags, evidence, Decided
  <2> QED BY <2>1 DEF Settling, Full
<1>4. CASE PreClear
  <2>1. pc = "pre" /\ pc' = "record_pre" /\ settled' = settled
    BY <1>4 DEF PreClear
  <2>2. Same /\ ~run'.manifest.pre
    BY <1>4, PreClearRun
  <2> QED BY <2>1, <2>2 DEF Settling, Full, Same, Decided
<1>5. CASE PreClearFails \/ ClearFails \/ PruneFails
  <2>1. /\ Decided /\ pc # "idle" /\ pc' # "idle" /\ settled' = settled
    BY <1>5 DEF PreClearFails, ClearFails, PruneFails, Decided
  <2>2. Same /\ run'.failed = TRUE
    BY <1>5, PreClearFailsRun, ClearFailsRun, PruneFailsRun
  <2> QED BY <2>1, <2>2 DEF Settling, Full, Same
<1>6. CASE ClearDeletedContent
  <2>1. /\ pc = "clear" /\ pc' = "record" /\ settled' = settled
        /\ IF run.owed /\ ~run.compacted THEN CompactAndTruncate ELSE TruncateWal
    BY <1>6 DEF ClearDeletedContent
  <2>2. /\ Same /\ run'.failed = run.failed /\ run'.manifest.pre = run.manifest.pre
        /\ run'.manifest.del <=> run.manifest.del /\ ~(Full \/ run.owed \/ run.compacted)
    BY <1>6, ClearRun
  <2>3. Full => marked'
    <3>1. CASE run.owed /\ ~run.compacted
      BY <2>1, <3>1 DEF CompactAndTruncate, Compacted
    <3>2. CASE ~(run.owed /\ ~run.compacted)
      <4>1. marked' = marked
        BY <2>1, <3>2 DEF TruncateWal, flags, evidence
      <4> QED BY <2>1, <3>2, <4>1 DEF Paying
    <3> QED BY <3>1, <3>2
  <2>4. Full' <=> Full
    BY <2>2 DEF Full, Same
  <2>5. ~run.failed /\ Full => ~run'.manifest.pre /\ ~run'.manifest.del
    BY <2>1, <2>2 DEF Settling, Decided
  <2> QED BY <2>1, <2>2, <2>3, <2>4, <2>5 DEF Settling, Same, Decided
<1>7. CASE PruneRemovedPaths
  <2>1. /\ pc = "prune" /\ pc' = "record_prune" /\ settled' = settled /\ marked' = marked
    BY <1>7 DEF PruneRemovedPaths, flags, evidence
  <2>2. /\ Same /\ run'.failed = run.failed /\ run'.manifest.prune = FALSE
        /\ run'.manifest.pre = run.manifest.pre /\ run'.manifest.del = run.manifest.del
    BY <1>7, PruneRun
  <2> QED BY <2>1, <2>2 DEF Settling, Full, Same, Decided
<1>8. CASE FinishRun
  <2>1. /\ pc = "semantic" /\ pc' = "idle" /\ settled' = (Full /\ ~run.failed)
        /\ UNCHANGED <<manifest, marked, forgotten>>
    BY <1>8 DEF FinishRun, End, flags, evidence
  <2>2. Decided /\ Serving /\ ~Decided'
    BY <2>1 DEF Decided, Serving
  <2>3. Published'
    BY <2>1, <2>2 DEF Shape, Published
  <2> QED BY <2>1, <2>2, <2>3 DEF Settling
<1>9. CASE CutShort \/ Withdraw
  <2>1. pc' = "idle" /\ settled' = settled /\ marked' = marked /\ ~Decided'
    BY <1>9 DEF CutShort, Withdraw, End, flags, evidence, Decided
  <2>2. settled' => pc = "idle" /\ manifest' = manifest
    BY <1>9, <2>1 DEF CutShort, Withdraw, PartiallyStaged, Settling
  <2> QED BY <2>1, <2>2 DEF Settling, Published
<1>10. CASE SemanticIndex \/ BuildPack \/ CompressPack \/ UNCHANGED vars
  <2>1. UNCHANGED <<pc, run, manifest, marked, forgotten, settled>>
    BY <1>10 DEF SemanticIndex, BuildPack, CompressPack, vars, flags, evidence
  <2> QED BY <2>1 DEF Settling, Published, Decided, Full
<1> QED BY <1>0, <1>1, <1>2, <1>3, <1>4, <1>5, <1>6, <1>7, <1>8, <1>9, <1>10 DEF Next

\* Nothing is owed after a full run in which no step failed, whatever the runs before it
\* left; and no content that had to go is left, but for what was gone when a partial update
\* was killed over a manifest that reports nothing (clear_deleted_content).
THEOREM FullRunPaysAll ==
    ASSUME Permanent # {}
    PROVE  Spec => []FullRunSettles
PROOF
<1>1. Init => /\ TypeOK /\ Shape /\ Paying /\ Settling
              /\ EvictedGone /\ EvictedTold /\ MovesTold
  BY InitType, PayInit, SettleInit, EvictedInit, MovesInit
<1>2. /\ TypeOK /\ Shape /\ Paying /\ Settling
      /\ EvictedGone /\ EvictedTold /\ MovesTold
      /\ [Next]_vars
      => /\ TypeOK' /\ Shape' /\ Paying' /\ Settling'
         /\ EvictedGone' /\ EvictedTold' /\ MovesTold'
  BY StepShape, PayStep, SettleStep, EvictedStep, MovesStep
<1>3. TypeOK /\ Settling /\ EvictedTold /\ MovesTold => FullRunSettles
  <2> SUFFICES ASSUME TypeOK, Settling, EvictedTold, MovesTold, pc = "idle", settled
               PROVE  /\ marked
                      /\ manifest \in [skips: SUBSET Skippable, del: {FALSE}, prune: {FALSE},
                                       pre: {FALSE}]
                      /\ Residue \cap (evicted \cup copied) \subseteq forgotten
    BY DEF FullRunSettles
  <2>1. marked /\ manifest \in Manifests /\ ~manifest.del /\ ~manifest.prune /\ ~manifest.pre
    BY DEF Settling, Published
  <2>2. manifest \in [skips: SUBSET Skippable, del: {FALSE}, prune: {FALSE}, pre: {FALSE}]
    BY <2>1 DEF Manifests
  <2>3. evicted \cap Residue \subseteq forgotten
    BY <2>1 DEF EvictedTold, EvictedLeft, Before, Published
  <2>4. copied \cap Residue \subseteq forgotten
    BY <2>1 DEF MovesTold, Owing, Quiet, Before, Published
  <2> QED BY <2>1, <2>2, <2>3, <2>4
<1> QED BY <1>1, <1>2, <1>3, PTL DEF Spec

=============================================================================
