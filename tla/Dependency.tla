------------------------------ MODULE Dependency ------------------------------
(***************************************************************************)
(* The component graph and the one question Layers 7 and 8 ask of it:      *)
(* "is there a directed path?" (rca_engine/dependency.py).  A graph is a   *)
(* function from each node to the set of nodes it points at.               *)
(*                                                                         *)
(* Reachability is stated without recursion: d is reachable from s when    *)
(* every successor-closed set of nodes that holds s also holds d.  Module  *)
(* HasPathBFS shows that the loop in has_path computes exactly this.       *)
(***************************************************************************)
EXTENDS Naturals, FiniteSets

\* A set of nodes no edge leaves.
Closed(g, C) == \A n \in C : g[n] \subseteq C

\* has_path(graph, src, dst); reflexive, as the source's first test makes it.
Reachable(g, src, dst) ==
  \A C \in SUBSET DOMAIN g : src \in C /\ Closed(g, C) => dst \in C

\* Every node has_path answers True for, from src.
ReachSet(g, src) == {dst \in DOMAIN g : Reachable(g, src, dst)}
=============================================================================
