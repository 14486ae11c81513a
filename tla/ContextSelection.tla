-------------------------- MODULE ContextSelection --------------------------
(***************************************************************************)
(* Which units of the repository a context pack shows                      *)
(* (crates/open-kioku-context: select_context_units and region.rs).        *)
(*                                                                         *)
(* Selection picks ranked candidates, round after round, under a budget of *)
(* tokens and a cap of units per file, or takes the first ones when only   *)
(* the number of files is limited.  Widening then grows the units of the   *)
(* first files: to the symbol around each, by the other candidates of the  *)
(* file, by the chunks next to each.  Each candidate has a retrieval trace *)
(* found by the key (path and lines) of its unit; widening changes the     *)
(* lines, so it moves the traces along.                                    *)
(*                                                                         *)
(* Lines are numbers and each costs a token when it is shown.  The f32     *)
(* utility only breaks ties among units of one priority: any of them may   *)
(* be chosen.  Whether two units read alike is a matter of their `text`.   *)
(* The symbol in a unit's key, which widening keeps, and the messages of   *)
(* the omission lists are left out.                                        *)
(***************************************************************************)
EXTENDS Integers, FiniteSetsExt, SequencesExt

CONSTANTS
    Paths,      \* files
    Chunks,     \* the disjoint line ranges each file was cut into
    Symbols,    \* the line ranges of the symbols of each file
    NoRange,    \* a candidate that is a file and no lines of it
    Texts,      \* what snippets read like
    Lists,      \* the ranked lists fusion may hand over
    Budgets,    \* the budgets callers may ask for
    Overhead    \* the tokens of a unit besides its lines

LineRanges == {r \in [start: Nat, end: Nat] : r.start <= r.end}
Ranges == LineRanges \cup {NoRange}
LinesOf(range) == range.start .. range.end

\* Chunks run from a file's first symbol to its end, or over all of a file without one.
ASSUME FilesAssumption ==
    /\ NoRange \notin LineRanges
    /\ Chunks \in [Paths -> SUBSET LineRanges] /\ Symbols \in [Paths -> SUBSET LineRanges]
    /\ \A path \in Paths : \A s \in Symbols[path] : \A l \in LinesOf(s) :
          \E c \in Chunks[path] : l \in LinesOf(c)

\* Fusion has one candidate of a source file, and of a document one per range of lines; a
\* document has no symbols.
ASSUME ListsAssumption ==
    /\ Lists \subseteq Seq([path: Paths, range: Ranges, shown: Nat, priority: Nat,
                             text: Texts, traced: BOOLEAN])
    /\ \A list \in Lists : \A i, j \in DOMAIN list :
          i # j /\ list[i].path = list[j].path =>
              list[i].range # list[j].range /\ Symbols[list[i].path] = {}

estimate_tokens(unit) == Overhead + unit.shown
Tokens(list) == [i \in DOMAIN list |-> estimate_tokens(list[i])]

\* A budget that limits files only has more tokens than any list.
ASSUME BudgetsAssumption ==
    /\ Overhead \in Nat
    /\ Budgets \subseteq [file_limit: BOOLEAN, available: Nat, max_per_file: Nat,
                           max_primary: Nat, region_files: Nat, region_tokens: Nat]
    /\ \A b \in Budgets, list \in Lists :
          b.file_limit => SumFunctionOnSet(Tokens(list), DOMAIN list) <= b.available

VARIABLES
    budget,     \* the caller's ContextBudget
    ranked,     \* the candidates, best first
    chosen,     \* the ranks selection chose
    refused,    \* why selection passed over a rank for good, or "no"
    pc,         \* what the builder does next
    pack,       \* the units presented: rank, lines, lines shown, re-admitted or not
    traces,     \* the key the retrieval trace of each rank answers to
    todo,       \* the files still to widen
    at,         \* the unit, or the rank, the pass over a file has come to
    side,       \* the side of the unit a neighbour is looked for
    grew,       \* the unit grew since both sides were last tried
    fileTokens, \* the tokens of the file being widened
    remaining   \* the tokens widening may still spend

selection == <<budget, ranked, chosen, refused>>
walk == <<side, grew>>
vars == <<selection, pc, pack, traces, todo, at, walk, fileTokens, remaining>>

-----------------------------------------------------------------------------
Ranks == DOMAIN ranked
Minus(m, n) == IF m > n THEN m - n ELSE 0

RetrievalUnitKey(unit) == <<ranked[unit.rank].path, unit.range>>
KeyOf(rank) == <<ranked[rank].path, ranked[rank].range>>

TotalTokens(ranks) == SumFunctionOnSet(Tokens(ranked), ranks)
PackTokens(places) == SumFunctionOnSet(Tokens(pack), places)

\* The members of a set of numbers, least first.
InOrder(S) ==
    CHOOSE order \in [1 .. Cardinality(S) -> S] :
        \A k, l \in DOMAIN order : k < l => order[k] < order[l]

\* The ranks of a file among ranks, and the units of a file in the pack.
InFile(ranks, path) == {i \in ranks : ranked[i].path = path}
unit_indices(path) == {k \in DOMAIN pack : ranked[pack[k].rank].path = path}

Overlap(r, s) == r # NoRange /\ s # NoRange /\ r.start <= s.end /\ s.start <= r.end
\* Mutant: only the first line of a range is looked for.
overlaps_start(path, except, range) ==
    \E k \in unit_indices(path) \ except :
        pack[k].range # NoRange /\ range.start \in LinesOf(pack[k].range)
overlaps_unit(path, except, range) ==
    \E k \in unit_indices(path) \ except : Overlap(pack[k].range, range)

\* The lines of the chunks within a range.
Covered(path, range) ==
    {l \in LinesOf(range) : \E c \in Chunks[path] : l \in LinesOf(c)}
RangeOf(lines) == [start |-> Min(lines), end |-> Max(lines)]

\* The smallest symbol that strictly extends a range, or none.
Around(path, range) ==
    {s \in Symbols[path] : s.start <= range.start /\ s.end >= range.end /\ s # range}
enclosing_symbol(path, range) ==
    {s \in Around(path, range) : \A t \in Around(path, range) :
        \/ s.end - s.start < t.end - t.start
        \/ s.end - s.start = t.end - t.start /\ s.start <= t.start}

-----------------------------------------------------------------------------
Init ==
    /\ budget \in Budgets /\ ranked \in Lists
    /\ chosen = {} /\ refused = [i \in Ranks |-> "no"]
    /\ pc = "select" /\ pack = <<>> /\ todo = <<>>
    /\ traces = [i \in Ranks |-> IF ranked[i].traced THEN KeyOf(i) ELSE <<>>]
    /\ at = 0 /\ side = "after" /\ grew = FALSE
    /\ fileTokens = 0 /\ remaining = 0

-----------------------------------------------------------------------------
(* Selection.                                                              *)

Capacity == budget.max_primary > 0 /\ budget.available > 0
Open == {i \in Ranks \ chosen : refused[i] = "no"}

\* Why a round passes over a candidate for good, in the order of the checks.
Refusal(i) ==
    IF Cardinality(InFile(chosen, ranked[i].path)) >= budget.max_per_file THEN "cap"
    ELSE IF estimate_tokens(ranked[i]) > Minus(budget.available, TotalTokens(chosen)) THEN "budget"
    ELSE IF ranked[i].priority = 0 /\ \E j \in chosen : ranked[j].text = ranked[i].text THEN "alike"
    ELSE "no"

Fit == {i \in Open : Refusal(i) = "no"}
\* Mutant: the best by value alone.
BestValue == Fit
Best == {i \in Fit : \A j \in Fit : ranked[j].priority <= ranked[i].priority}
Scan == refused' = [i \in Ranks |-> IF i \in Open THEN Refusal(i) ELSE refused[i]]

SelectRound ==
    /\ pc = "select" /\ Capacity /\ ~budget.file_limit
    /\ Cardinality(chosen) < budget.max_primary
    /\ Scan
    /\ \E best \in Best : chosen' = chosen \cup {best}
    /\ UNCHANGED <<budget, ranked, pc, pack, traces, todo, at, walk, fileTokens, remaining>>

Unit(rank, back) ==
    [rank |-> rank, range |-> ranked[rank].range, shown |-> ranked[rank].shown, back |-> back]

\* The units of a set of ranks, in rank order.
Units(ranks) ==
    [k \in 1 .. Cardinality(ranks) |-> Unit(InOrder(ranks)[k], FALSE)]

Present(ranks) ==
    /\ chosen' = ranks
    /\ pack' = Units(ranks)
    /\ pc' = "selected"
    /\ UNCHANGED <<budget, ranked, traces, todo, at, walk, fileTokens, remaining>>

\* The rounds end when the pack is full or nothing fits any more.
SelectionEnds ==
    /\ pc = "select" /\ Capacity /\ ~budget.file_limit
    /\ \/ Cardinality(chosen) >= budget.max_primary /\ UNCHANGED refused
       \/ Cardinality(chosen) < budget.max_primary /\ Fit = {} /\ Scan
    /\ Present(chosen)

\* "File-count callers historically select the reranked prefix."
SelectPrefix ==
    /\ pc = "select" /\ Capacity /\ budget.file_limit
    /\ Present({i \in Ranks : i <= budget.max_primary})
    /\ UNCHANGED refused

NoCapacity ==
    /\ pc = "select" /\ ~Capacity
    /\ Present({})
    /\ UNCHANGED refused

-----------------------------------------------------------------------------
(* Widening.                                                               *)

\* The files of the pack in the order of their first units, as many as may be widened.
FirstUnits == {k \in DOMAIN pack : \A l \in unit_indices(ranked[pack[k].rank].path) : k <= l}
RegionPaths ==
    [n \in 1 .. Min({Cardinality(FirstUnits), budget.region_files}) |->
        ranked[pack[InOrder(FirstUnits)[n]].rank].path]

StartWidening ==
    /\ pc = "selected"
    /\ pc' = "file"
    /\ remaining' = Minus(budget.available, PackTokens(DOMAIN pack))
    /\ todo' = IF budget.region_tokens = 0 THEN <<>> ELSE RegionPaths
    /\ UNCHANGED <<selection, pack, traces, at, walk, fileTokens>>

Path == Head(todo)
Mine == unit_indices(Path)

OpenFile ==
    /\ pc = "file" /\ todo # <<>>
    /\ pc' = "widen"
    /\ at' = Min(Mine)
    /\ fileTokens' = PackTokens(Mine)
    /\ UNCHANGED <<selection, pack, traces, todo, walk, remaining>>

Finish ==
    /\ pc = "file" /\ todo = <<>>
    /\ pc' = "done"
    /\ UNCHANGED <<selection, pack, traces, todo, at, walk, fileTokens, remaining>>

\* The pass goes on to the next unit of the file, or to what follows it.
NextUnit(then, place) ==
    LET later == {k \in Mine : k > at}
    IN  IF later # {}
        THEN pc' = pc /\ at' = Min(later)
        ELSE pc' = then /\ at' = place

\* Mutant: only the file's cap is asked.
FitsFile(tokens) == fileTokens + tokens <= budget.region_tokens
Fits(tokens) == fileTokens + tokens <= budget.region_tokens /\ tokens <= remaining
Spend(tokens) == fileTokens' = fileTokens + tokens /\ remaining' = remaining - tokens

Grown(unit, lines) == [unit EXCEPT !.range = RangeOf(lines), !.shown = Cardinality(lines)]
Growth(unit, lines) == Minus(Overhead + Cardinality(lines), estimate_tokens(unit))

\* The lines a unit shows once it is widened to the symbol around it, if there is one.
WidenedTo(unit) ==
    IF unit.range = NoRange THEN {}
    ELSE UNION {Covered(Path, [start |-> Min({unit.range.start, s.start}),
                               end |-> Max({unit.range.end, s.end})])
                   : s \in enclosing_symbol(Path, unit.range)}

Widen ==
    /\ pc = "widen"
    /\ NextUnit("readmit", 1)
    /\ LET lines == WidenedTo(pack[at])
       IN  IF /\ lines # {} /\ RangeOf(lines) # pack[at].range
              /\ Fits(Growth(pack[at], lines))
           THEN /\ pack' = [pack EXCEPT ![at] = Grown(@, lines)]
                /\ Spend(Growth(pack[at], lines))
           ELSE UNCHANGED <<pack, fileTokens, remaining>>
    /\ UNCHANGED <<selection, traces, todo, walk>>

\* A candidate of the file that is not in the pack comes back if it is apart from every
\* unit and there is room.
Readmits(i) ==
    /\ ranked[i].path = Path /\ ranked[i].range # NoRange
    /\ i \notin chosen
    /\ ~overlaps_unit(Path, {}, ranked[i].range)
    /\ Fits(estimate_tokens(ranked[i]))

Readmit ==
    /\ pc = "readmit" /\ at \in Ranks
    /\ at' = at + 1
    /\ IF Readmits(at)
       THEN /\ pack' = InsertAt(pack, Max(Mine) + 1, Unit(at, TRUE))
            /\ Spend(estimate_tokens(ranked[at]))
       ELSE UNCHANGED <<pack, fileTokens, remaining>>
    /\ UNCHANGED <<selection, pc, traces, todo, walk>>

ReadmitEnds ==
    /\ pc = "readmit" /\ at \notin Ranks
    /\ pc' = "absorb" /\ at' = Min(Mine)
    /\ side' = "after" /\ grew' = FALSE
    /\ UNCHANGED <<selection, pack, traces, todo, fileTokens, remaining>>

\* A unit's range with the chunk next to it on the side tried, if no other unit shows
\* any of it.
ExtendedTo(k) ==
    LET range == pack[k].range
        Beside(c) == IF side = "after" THEN c.start = range.end + 1
                                        ELSE c.end + 1 = range.start
    IN  IF range = NoRange THEN {}
        ELSE {RangeOf(LinesOf(range) \cup LinesOf(c)) :
                c \in {n \in Chunks[Path] : Beside(n) /\ ~overlaps_unit(Path, {k}, n)}}

\* The extended ranges the chunks cover from end to end and the budget has room for.
Absorbs(k) ==
    {range \in ExtendedTo(k) :
        /\ RangeOf(Covered(Path, range)) = range
        /\ Fits(Growth(pack[k], Covered(Path, range)))}

\* One side of a unit is tried, then the other; the unit again if it grew, or the next.
Absorb ==
    /\ pc = "absorb"
    /\ \/ /\ Absorbs(at) = {}
          /\ UNCHANGED <<pack, fileTokens, remaining>>
       \/ \E range \in Absorbs(at) :
             /\ pack' = [pack EXCEPT ![at] = Grown(@, Covered(Path, range))]
             /\ Spend(Growth(pack[at], Covered(Path, range)))
    /\ LET growing == grew \/ Absorbs(at) # {}
       IN  \/ /\ side = "after" /\ side' = "before" /\ grew' = growing
              /\ UNCHANGED <<pc, at>>
           \/ /\ side = "before" /\ side' = "after" /\ grew' = FALSE
              /\ IF growing THEN UNCHANGED <<pc, at>> ELSE NextUnit("retarget", Min(Mine))
    /\ UNCHANGED <<selection, traces, todo>>

\* Mutant: all the traces of the file are given to the unit.
retarget_path(k) ==
    [i \in Ranks |-> IF ranked[i].path = Path THEN RetrievalUnitKey(pack[k]) ELSE traces[i]]
\* The traces that answer to the key a unit had follow it to its new key.
retarget_trace(k) ==
    [i \in Ranks |-> IF traces[i] = KeyOf(pack[k].rank) THEN RetrievalUnitKey(pack[k])
                                                        ELSE traces[i]]

\* The units the file had when its widening began are gone through; then the file is done.
Retarget ==
    /\ pc = "retarget"
    /\ traces' = IF pack[at].back THEN traces ELSE retarget_trace(at)
    /\ NextUnit("file", 0)
    /\ todo' = IF pc' = "file" THEN Tail(todo) ELSE todo
    /\ UNCHANGED <<selection, pack, walk, fileTokens, remaining>>

Next ==
    \/ SelectRound \/ SelectionEnds \/ SelectPrefix \/ NoCapacity
    \/ StartWidening \/ OpenFile \/ Finish
    \/ Widen \/ Readmit \/ ReadmitEnds \/ Absorb \/ Retarget

Spec == Init /\ [][Next]_vars

-----------------------------------------------------------------------------
TypeOK ==
    /\ budget \in Budgets /\ ranked \in Lists
    /\ chosen \subseteq Ranks
    /\ refused \in [Ranks -> {"no", "cap", "budget", "alike"}]
    /\ pc \in {"select", "selected", "file", "widen", "readmit", "absorb", "retarget", "done"}
    /\ pack \in Seq([rank: Ranks, range: Ranges, shown: Nat, back: BOOLEAN])
    /\ traces \in [Ranks -> (Paths \X Ranges) \cup {<<>>}]
    /\ todo \in Seq(Paths)
    /\ at \in Nat /\ side \in {"after", "before"} /\ grew \in BOOLEAN
    /\ fileTokens \in Nat /\ remaining \in Nat

\* A unit is left out only for units of at least its priority: beside them alone it would
\* still exceed the budget or its file's cap, or it repeats a chosen unit and has no
\* priority, or they fill the pack.  Whatever the order in which rounds refused others.
Better(i) == {j \in chosen : ranked[j].priority >= ranked[i].priority}
RefusedForBetter ==
    \A i \in Ranks :
        /\ refused[i] = "budget" =>
               TotalTokens(Better(i)) + estimate_tokens(ranked[i]) > budget.available
        /\ refused[i] = "cap" =>
               Cardinality(InFile(Better(i), ranked[i].path)) >= budget.max_per_file
        /\ refused[i] = "alike" =>
               ranked[i].priority = 0 /\ \E j \in chosen : ranked[j].text = ranked[i].text
        /\ pc # "select" /\ ~budget.file_limit /\ Capacity /\ i \in Open =>
               Cardinality(Better(i)) = budget.max_primary

\* The units of the pack fit what is left of the caller's tokens once the reserves are
\* taken, and a widened file its own cap, unless selection alone exceeded it.
WithinBudget ==
    /\ PackTokens(DOMAIN pack) <= budget.available
    /\ \A k \in DOMAIN pack :
          LET path == ranked[pack[k].rank].path
              first == InFile(chosen, path)
          IN  \/ PackTokens(unit_indices(path)) <= budget.region_tokens
              \/ PackTokens(unit_indices(path)) = TotalTokens(first)

\* The budget is never overspent, and it is spent on the units that matter most.
BudgetWellSpent == WithinBudget /\ RefusedForBetter

\* "Nothing selection chose is removed or reordered": the chosen units are all there in
\* rank order, showing at least the lines they had, and units share a line only if they
\* did when they were chosen.
Selected == {k \in DOMAIN pack : ~pack[k].back}
SelectionKept ==
    pc # "select" =>
    /\ {pack[k].rank : k \in Selected} = chosen
    /\ \A k, l \in Selected : k < l => pack[k].rank < pack[l].rank
    /\ \A k \in DOMAIN pack : ranked[pack[k].rank].range # NoRange =>
          LinesOf(ranked[pack[k].rank].range) \subseteq LinesOf(pack[k].range)
    /\ \A k \in DOMAIN pack : \A l \in unit_indices(ranked[pack[k].rank].path) \ {k} :
          Overlap(pack[k].range, pack[l].range) =>
              /\ ~pack[k].back /\ ~pack[l].back
              /\ Overlap(ranked[pack[k].rank].range, ranked[pack[l].rank].range)

\* The ranks whose trace answers for a unit: the first of them, in the order of fusion,
\* which ranking does not keep, gives the unit its authority and its sources.
Answering(unit) == {i \in Ranks : traces[i] = RetrievalUnitKey(unit)}

\* When the pack is ready, a unit is answered for by the trace of its own candidate, and
\* else only by one of a candidate left out that had the very lines the unit grew to.
\* A unit that was re-admitted and then grew has lost its trace.
AttributionFollows ==
    pc = "done" =>
    \A k \in DOMAIN pack :
        LET own == pack[k].rank
            lost == pack[k].back /\ pack[k].range # ranked[own].range
        IN  /\ own \in Answering(pack[k]) <=> ranked[own].traced /\ ~lost
            /\ \A i \in Answering(pack[k]) \ {own} :
                  KeyOf(i) = RetrievalUnitKey(pack[k]) /\ \A l \in DOMAIN pack : pack[l].rank # i
=============================================================================
