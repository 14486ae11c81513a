--------------------------- MODULE MCGraphBuffer ---------------------------
(***************************************************************************)
(* Two buffers and any few of a dozen writes of one edge and of one node,  *)
(* with a second edge and a second node beside them.                       *)
(***************************************************************************)
EXTENDS GraphBuffer, TLC

CONSTANTS call, use, file, symbol, name

E(key, rank, site, eid, source, lines, calls, proofs) ==
    [key |-> key,
     content |-> [rank |-> rank, site |-> site, eid |-> eid, source |-> source, lines |-> lines,
                  calls |-> calls, notes |-> {eid}, proofs |-> proofs]]

MCEdge == <<
    E(call, 2, 2, 3, 0, {1}, {<<2, 5>>}, {1}),
    E(call, 2, 2, 3, 0, {4}, {<<2, 9>>}, {2}),      \* a second call on the same line
    E(call, 2, 1, 4, 2, {2}, {}, {}),
    E(call, 1, 1, 1, 1, {3}, {}, {}),
    E(call, 1, 3, 2, 3, {1, 5, 6}, {}, {2}),        \* evidence without a site
    E(call, 1, 3, 5, 0, {}, {<<2, 5>>}, {}),
    E(use, 1, 1, 1, 1, {1}, {}, {2}),
    E(call, 1, 2, 6, 1, {7}, {}, {}),               \* facts that resolved to the symbol
    E(call, 1, 2, 7, 2, {8}, {}, {}),
    E(use, 1, 2, 8, 3, {7}, {}, {}) >>

N(id, label, owner, source, notes) ==
    [id |-> id,
     content |-> [label |-> label, owner |-> owner, source |-> source, notes |-> notes]]

MCNodeWrites == 11 .. 18
MCNode ==
    11 :> N(file, 2, 1, 0, {}) @@           \* the file's own write
    12 :> N(file, 1, 0, 2, {1}) @@          \* facts that spell its path in two ways
    13 :> N(file, 2, 0, 1, {1, 2}) @@
    14 :> N(file, 0, 0, 3, {}) @@
    15 :> N(symbol, 3, 2, 0, {}) @@         \* a symbol, and a fact that did not resolve to it
    16 :> N(symbol, 3, 2, 4, {3}) @@
    17 :> N(name, 3, 0, 2, {}) @@
    18 :> N(name, 3, 0, 1, {1})
=============================================================================
