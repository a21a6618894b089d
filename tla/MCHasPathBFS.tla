----------------------------- MODULE MCHasPathBFS -----------------------------
(***************************************************************************)
(* Every query over two families of graphs: three nodes with self-loops    *)
(* and neighbour lists in both orders, and four nodes without self-loops   *)
(* (two walks of different length need four) and with no edge back to 1.   *)
(***************************************************************************)
EXTENDS HasPathBFS

Three == 1 .. 3

PairLists == {<<x, y>> : x \in Three, y \in Three} \ {<<x, x>> : x \in Three}
Small     == [Three -> {<<>>} \cup {<<x>> : x \in Three} \cup PairLists]

ListsOf(n) ==
  LET others == Nodes \ {n, 1}
  IN {<<>>} \cup {<<x>> : x \in others}
       \cup {<<e[1], e[2]>> : e \in {p \in others \X others : p[1] < p[2]}}

MCGraphs ==
  {[n \in Nodes |-> IF n \in Three THEN g[n] ELSE <<>>] : g \in Small}
    \cup {g \in [Nodes -> UNION {ListsOf(n) : n \in Nodes}] :
            \A n \in Nodes : g[n] \in ListsOf(n)}
=============================================================================
