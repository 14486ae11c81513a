------------------------ MODULE MCContextSelection -------------------------
(***************************************************************************)
(* An instance of ContextSelection for TLC: a source file and a test, of   *)
(* which fusion has one candidate each, and a document, of which it has    *)
(* one per line range.                                                     *)
(***************************************************************************)
EXTENDS ContextSelection, TLC

CONSTANTS code, test, doc

Lines(m, n) == [start |-> m, end |-> n]

\* The first line of the source file is above its first symbol, in no chunk.
MCChunks == (code :> {Lines(2, 3), Lines(4, 5)})
         @@ (test :> {Lines(1, 2)})
         @@ (doc :> {Lines(1, 2), Lines(3, 4), Lines(5, 6)})
MCSymbols == (code :> {Lines(2, 5), Lines(4, 5)}) @@ (test :> {}) @@ (doc :> {})

Candidate(path, range, shown, priority, text, traced) ==
    [path |-> path, range |-> range, shown |-> shown, priority |-> priority,
     text |-> text, traced |-> traced]

\* An exact match, an entry point added without a trace; an excerpt of a test.
OfCode == {Candidate(code, Lines(4, 5), 2, 2, "fn", TRUE),
           Candidate(code, Lines(2, 3), 2, 0, "class", FALSE),
           Candidate(test, Lines(1, 2), 1, 1, "x", TRUE)}

\* Chunks and a section; two of them read alike.
OfDoc == {Candidate(doc, Lines(1, 2), 2, 0, "x", TRUE),
          Candidate(doc, Lines(3, 4), 2, 0, "y", TRUE),
          Candidate(doc, Lines(5, 6), 2, 0, "x", TRUE),
          Candidate(doc, Lines(1, 4), 4, 0, "z", TRUE),
          Candidate(doc, Lines(1, 1), 1, 0, "x", TRUE),
          Candidate(doc, NoRange, 1, 0, "file", TRUE)}

MCLists ==
    {list \in UNION {[1 .. n -> OfCode \cup OfDoc] : n \in 0 .. 4} :
        \A i, j \in DOMAIN list : i # j =>
            /\ <<list[i].path, list[i].range>> # <<list[j].path, list[j].range>>
            /\ list[i].path # doc => list[i].path # list[j].path}

FileLimit(files, tokens) ==
    [file_limit |-> TRUE, available |-> 100, max_per_file |-> 100, max_primary |-> files,
     region_files |-> 2, region_tokens |-> tokens]
TokenLimit(available, units, files, regions, tokens) ==
    [file_limit |-> FALSE, available |-> available, max_per_file |-> units,
     max_primary |-> files, region_files |-> regions, region_tokens |-> tokens]

MCBudgets == {FileLimit(2, 9), FileLimit(2, 0), FileLimit(0, 9),
              TokenLimit(14, 1, 2, 2, 9), TokenLimit(14, 2, 3, 1, 9),
              TokenLimit(7, 2, 3, 2, 6)}
=============================================================================
