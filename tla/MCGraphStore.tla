--------------------------- MODULE MCGraphStore ----------------------------
(***************************************************************************)
(* An instance of GraphStore: a repository of two or three files with a    *)
(* few scans of it, which TLC takes in any order.                          *)
(***************************************************************************)
EXTENDS GraphStore, TLC

CONSTANTS a, b, nA, nB, nX, aX, bX, xX, ab

MCFiles == {a, b}
MCNodeIds == {nA, nB, nX}
MCEdgeIds == {ab, aX, bX, xX}

MCFrom == ab :> nA @@ aX :> nA @@ bX :> nB @@ xX :> nX
MCTo   == ab :> nB @@ aX :> nX @@ bX :> nX @@ xX :> nX
MCOwnerOf == nA :> a @@ nB :> b @@ nX :> NoFile

\* An edge's content is the file its evidence is in and the rank of its proof.
MCEdgeContents == MCFiles \X {0, 1}
MCPathOf == [c \in MCEdgeContents |-> c[1]]
MCRankOf == [c \in MCEdgeContents |-> c[2]]

N(id, content) == [id |-> id, content |-> content]
About(holder, target, kind) == [holder |-> holder, target |-> target, kind |-> kind]
Scan(fs, ns, es, ts) == [files |-> fs, nodes |-> ns, edges |-> es, facts |-> ts]

Both == {N(nA, 1), N(nB, 1)}

MCScans == {
    \* b calls what a defines, through a node no file owns; a's callee is in b.
    Scan({a, b}, Both \cup {N(nX, 1)}, {N(ab, <<a, 0>>), N(bX, <<b, 0>>)},
         {About(a, b, "file"), About(b, a, "name")}),
    \* The same files after a commit: a node and a proof differ under the same ids.
    Scan({a, b}, Both \cup {N(nX, 2)}, {N(ab, <<a, 1>>), N(bX, <<b, 0>>)},
         {About(a, b, "file"), About(b, a, "file")}),
    \* The evidence of b's edge has moved to a, and x has an edge of its own.
    Scan({a, b}, Both \cup {N(nX, 1)}, {N(bX, <<a, 0>>), N(xX, <<a, 1>>)},
         {About(b, a, "file")}),
    \* The symbol b used is gone.
    Scan({a, b}, {N(nA, 2), N(nB, 1)}, {N(ab, <<b, 1>>)}, {About(a, b, "name")}),
    \* b is deleted; a is deleted.
    Scan({a}, {N(nA, 1), N(nX, 1)}, {N(aX, <<a, 0>>), N(xX, <<a, 0>>)}, {About(a, b, "name")}),
    Scan({b}, {N(nB, 1), N(nX, 2)}, {N(bX, <<b, 1>>)}, {}),
    Scan({}, {}, {}, {})
}
=============================================================================
