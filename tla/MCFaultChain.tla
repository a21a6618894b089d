----------------------------- MODULE MCFaultChain -----------------------------
(***************************************************************************)
(* Instances of FaultChain over the services a, b, c, d.  With a, b, c     *)
(* every loop-free graph, for the scans of Layers 7 and 8 (d stays apart   *)
(* and normal); with all four, small mechanism graphs with inputs and an   *)
(* SLI, for exclusion, lag and the verdict.                                *)
(***************************************************************************)
EXTENDS FaultChain, TLC

CONSTANTS a, b, c, d, None

MCServices == {a, b, c, d}
MCDictPos  == (a :> 1) @@ (b :> 2) @@ (c :> 3) @@ (d :> 4)

\* A gauge and a metric over a window that reports one step late.
MCMetrics == {"gauge", "windowed"}
MCLag     == ("gauge" :> 0) @@ ("windowed" :> 1)
-----------------------------------------------------------------------------
(* The scans. *)

Scanned == {a, b, c}
Edges   == {e \in Scanned \X Scanned : e[1] # e[2]}
Adj(E)  == [s \in MCServices |-> {t \in MCServices : <<s, t>> \in E}]

ScanDomain(E, map, k) ==
  [nodes         |-> MCServices,
   graph         |-> Adj(E),
   exogenous     |-> {},
   sli           |-> None,
   threshold     |-> 1,
   useMap        |-> map,
   pathThreshold |-> [s \in MCServices |-> [t \in MCServices |->
                        IF {s, t} = k THEN 2 ELSE 1]],
   compensateLag |-> FALSE]

\* Every graph, no map, and with a map in which one pair has a wider window.
ScanDomains ==
  {ScanDomain(E, FALSE, {}) : E \in SUBSET Edges}
    \cup {ScanDomain(E, TRUE, k) : E \in SUBSET Edges, k \in {{a, b}, {b, c}}}

\* One metric, onsets 0..3.
ScanEvidence(s) ==
  {{[idx |-> i, metric |-> "gauge", dir |-> x] : x \in Directions} :
     i \in IF s = d THEN {} ELSE 0 .. 3}
-----------------------------------------------------------------------------
(* Mechanism graphs in the manner of rca_engine/domains/vllm.py. *)

MechDomain(nodes, graph, exo, sli, lag) ==
  [nodes         |-> nodes,
   graph         |-> graph,
   exogenous     |-> exo,
   sli           |-> sli,
   threshold     |-> 0,
   useMap        |-> FALSE,
   pathThreshold |-> [s \in MCServices |-> [t \in MCServices |-> 1]],
   compensateLag |-> lag]

\* a is the load, d the SLI.  In the second graph c cannot reach the SLI and is
\* a co-symptom, and the third does not know it; the fourth has neither inputs nor
\* SLI, as the Boutique.
MechDomains ==
  {MechDomain(MCServices, (a :> {b, c}) @@ (b :> {c, d}) @@ (c :> {d}) @@ (d :> {}), {a}, d, TRUE),
   MechDomain(MCServices, (a :> {b}) @@ (b :> {c, d}) @@ (c :> {}) @@ (d :> {}), {a}, d, TRUE),
   MechDomain({a, b, d}, (a :> {b}) @@ (b :> {d}) @@ (c :> {}) @@ (d :> {}), {a}, d, TRUE),
   MechDomain(MCServices, (a :> {b, c}) @@ (b :> {d}) @@ (c :> {}) @@ (d :> {}), {}, None, FALSE)}

MechFindings == [idx : 0 .. 1, metric : MCMetrics, dir : Directions]
MechEvidence == {{f, g} : f \in MechFindings, g \in MechFindings}
-----------------------------------------------------------------------------
MCDomains == ScanDomains \cup MechDomains

MCEvidence(dm, s) == IF dm \in MechDomains THEN MechEvidence ELSE ScanEvidence(s)
=============================================================================
