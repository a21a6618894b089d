------------------------------ MODULE RootCauses ------------------------------
(***************************************************************************)
(* What pinpoint_faults promises, without its scans: which of the abnormal *)
(* services are root causes, as a property of the set.                     *)
(*                                                                         *)
(* Take the candidates in order of onset.  A candidate is a victim when    *)
(* some root before it excuses it, and a root otherwise.  An excuse needs  *)
(* a propagation path in either direction, and timing: without a map, a    *)
(* start outside the primary's concurrency window; with a map, a start     *)
(* inside the window calibrated for the path.                              *)
(***************************************************************************)
EXTENDS Integers

CONSTANTS Services, DictPos, Domains, NoSli

VARIABLES
  stage,                           \* "collecting" evidence or "decided"
  dom, abnormal, onset, trend,     \* domain and evidence, as in FaultChain
  roots                            \* the root causes, {} until decided

vars == <<stage, dom, abnormal, onset, trend, roots>>

D == INSTANCE Dependency

HasPath(s, t) == D!Reachable(dom.graph, s, t)

Barred ==
  IF dom.sli = NoSli THEN dom.exogenous
  ELSE dom.exogenous \cup {dom.sli}
         \cup {s \in dom.nodes : ~HasPath(s, dom.sli)}

Linked(r, s) == HasPath(r, s) \/ HasPath(s, r)

Before(s, t) ==
  \/ onset[s] < onset[t]
  \/ onset[s] = onset[t] /\ DictPos[s] < DictPos[t]

Candidates == abnormal \ Barred

Excuses(r, s) ==
  /\ Before(r, s)
  /\ Linked(r, s)
  /\ \E p \in Candidates :
       /\ \A t \in Candidates \ {p} : Before(p, t)
       /\ LET gap == onset[s] - onset[p]
          IN IF dom.useMap THEN gap <= dom.pathThreshold[r][s] ELSE gap > dom.threshold

\* A workload or infrastructure event rather than one service's fault.
External ==
  /\ Barred = {}
  /\ abnormal = Services
  /\ \E d \in {"up", "down"} : {trend[s] : s \in abnormal} \ {"mixed"} = {d}

AreRootCauses(P) ==
  IF External THEN P = {}
  ELSE /\ P \subseteq Candidates
       /\ \A s \in Candidates : s \in P <=> ~\E r \in P : Excuses(r, s)

Init ==
  /\ stage = "collecting"
  /\ dom \in Domains
  /\ abnormal = {}
  /\ roots = {}

Collect ==
  /\ stage = "collecting"
  /\ abnormal \subseteq abnormal'
  /\ roots' = roots
  /\ UNCHANGED <<stage, dom>>

Decide ==
  /\ stage = "collecting"
  /\ stage' = "decided"
  /\ AreRootCauses(roots')
  /\ UNCHANGED <<dom, onset, trend>>
  /\ abnormal' = abnormal

Next == Collect \/ Decide

Spec == Init /\ [][Next]_vars
=============================================================================
