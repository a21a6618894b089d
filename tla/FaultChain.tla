------------------------------ MODULE FaultChain ------------------------------
(***************************************************************************)
(* One diagnosis: pinpoint_report and pinpoint_faults of                   *)
(* rca_engine/fault_chain.py, from the per-metric findings of Layers 1-4   *)
(* to the ranked report.  Each loop of the source is a phase and each      *)
(* iteration an action:                                                    *)
(*   "analyse"  Layer 5, one service of the metric matrix at a time        *)
(*   "layer6"   external-cause check, candidates, primary root cause       *)
(*   "layer7"   concurrency scan, with or without a propagation map        *)
(*   "layer8"   dependency filter                                          *)
(*   "rank"     sort, mark eligibility, classify                           *)
(*                                                                         *)
(* What Layers 1-4 find for a service is a set of findings                 *)
(* [idx, metric, dir]: a refined onset index, the metric it was seen in    *)
(* and the direction of the change.                                        *)
(***************************************************************************)
EXTENDS Integers, Sequences, FiniteSets

CONSTANTS
  Services,       \* keys of the metric matrix
  DictPos,        \* their insertion order: sorted() is stable and breaks ties by it
  Metrics,
  Lag,            \* DomainSpec.metrics[m].lag_seconds
  Domains,        \* the DomainSpecs analysed
  Evidence(_, _), \* the non-empty sets of findings Layers 1-4 may produce, by domain
                  \* and service
  NoSli           \* sli_node = None

Directions == {"up", "down"}
Trends     == Directions \cup {"mixed"}
Verdicts   == {"no_anomaly", "pathology", "capacity", "external"}
Phases     == {"analyse", "layer6", "layer7", "layer8", "rank", "done"}

Findings == [idx : Nat, metric : Metrics, dir : Directions]

\* A DomainSpec with what pinpoint_faults needs of the calibrated map.
DomainSpec ==
  [nodes         : SUBSET Services,                  \* keys of component_graph
   graph         : [Services -> SUBSET Services],
   exogenous     : SUBSET Services,
   sli           : Services \cup {NoSli},
   threshold     : Nat,                               \* concurrency_threshold_s
   useMap        : BOOLEAN,                           \* propagation_map is not None
   pathThreshold : [Services -> [Services -> Nat]],     \* get_path_threshold
   compensateLag : BOOLEAN]

ASSUME ServicesAssumption ==
  /\ IsFiniteSet(Services)
  /\ Services # {}
  /\ NoSli \notin Services
  /\ DictPos \in [Services -> Int]
  /\ \A s, t \in Services : DictPos[s] = DictPos[t] => s = t
ASSUME FindingsAssumption ==
  /\ Lag \in [Metrics -> Nat]
  /\ \A d \in Domains, s \in Services : Evidence(d, s) \subseteq SUBSET Findings
ASSUME DomainsAssumption ==
  /\ Domains \subseteq DomainSpec
  /\ \A d \in Domains : \A s \in Services \ d.nodes : d.graph[s] = {}

D == INSTANCE Dependency

VARIABLES
  dom,         \* the DomainSpec
  pc,          \* phase
  todo,        \* services the loop of the current phase has still to visit
  abnormal,    \* keys of service_onsets
  onset,       \* service_onsets, relative to the start of the fault window
  trend,       \* service_trends
  pinpointed,  \* the list pinpoint_faults builds
  ranked,      \* RcaReport.ranked, the service of each entry
  verdict      \* RcaReport.verdict

vars == <<dom, pc, todo, abnormal, onset, trend, pinpointed, ranked, verdict>>
evidence == <<abnormal, onset, trend>>
-----------------------------------------------------------------------------
(* Domain *)

HasPath(s, t) == D!Reachable(dom.graph, s, t)

\* DomainSpec.excluded_from_root_cause.  A service that the graph does not know is not
\* among those without a path to the SLI.
Excluded ==
  IF dom.sli = NoSli THEN dom.exogenous
  ELSE dom.exogenous \cup {dom.sli}
         \cup {s \in dom.nodes : ~HasPath(s, dom.sli)}

\* A propagation path in either direction: forward or back-pressure.
Linked(r, s) == HasPath(r, s) \/ HasPath(s, r)

(* Order *)

\* Place in sorted(service_onsets, key=onset).
Before(s, t) ==
  \/ onset[s] < onset[t]
  \/ onset[s] = onset[t] /\ DictPos[s] < DictPos[t]

\* Mutant: the candidates are visited without being sorted.
IsFirstUnsorted(s, S) == s \in S /\ \A t \in S \ {s} : DictPos[s] < DictPos[t]

IsFirst(s, S) == s \in S /\ \A t \in S \ {s} : Before(s, t)

InSeq(q) == {q[i] : i \in DOMAIN q}
Candidates == abnormal \ Excluded
-----------------------------------------------------------------------------
Init ==
  /\ dom \in Domains
  /\ pc = "analyse"
  /\ todo = Services
  /\ abnormal = {}
  /\ onset = [s \in Services |-> 0]
  /\ trend = [s \in Services |-> "mixed"]
  /\ pinpointed = <<>>
  /\ ranked = <<>>
  /\ verdict = "no_anomaly"

\* The timestamp of a finding: measurement lag is subtracted when the domain asks.
Timestamp(f) == f.idx - (IF dom.compensateLag THEN Lag[f.metric] ELSE 0)

\* Mutant: no return for a service whose metrics disagree.
TrendOfNone(E) ==
  IF {f.dir : f \in E} \in {{"up"}, {"down"}} THEN CHOOSE d \in Directions : TRUE ELSE "None"

\* _determine_trend
TrendOf(E) ==
  LET dirs == {f.dir : f \in E}
  IN CASE dirs = {"up"}   -> "up"
       [] dirs = {"down"} -> "down"
       [] OTHER           -> "mixed"

NextInMatrix(s) == s \in todo /\ \A t \in todo : DictPos[s] <= DictPos[t]

\* After the last service: an empty report, or on to Layer 6.
AfterAnalysis(abn) ==
  /\ pc' = IF todo' # {} THEN "analyse" ELSE IF abn = {} THEN "done" ELSE "layer6"
  /\ UNCHANGED <<dom, pinpointed, ranked, verdict>>

\* Every metric of the service was too short, or Layers 1-4 dropped it.
AnalyseNormal(s) ==
  /\ pc = "analyse"
  /\ NextInMatrix(s)
  /\ todo' = todo \ {s}
  /\ AfterAnalysis(abnormal)
  /\ UNCHANGED evidence

\* Layer 5: the earliest lag-compensated onset over the service's metrics.
AnalyseAbnormal(s) ==
  /\ pc = "analyse"
  /\ NextInMatrix(s)
  /\ todo' = todo \ {s}
  /\ \E E \in Evidence(dom, s) :
       \E f \in E :
         /\ \A g \in E : Timestamp(f) <= Timestamp(g)
         /\ onset' = [onset EXCEPT ![s] = Timestamp(f)]
         /\ trend' = [trend EXCEPT ![s] = TrendOf(E)]
  /\ abnormal' = abnormal \cup {s}
  /\ AfterAnalysis(abnormal')

\* Layer 6's test: nothing is excluded, every monitored service is abnormal
\* and the trends that are not "mixed" are one and the same.
ExternalCause ==
  /\ Excluded = {}
  /\ Cardinality(abnormal) >= Cardinality(Services)
  /\ \E d \in Directions : {trend[s] : s \in abnormal} \ {"mixed"} = {d}

Layer6External ==
  /\ pc = "layer6"
  /\ ExternalCause
  /\ pc' = "rank"
  /\ UNCHANGED <<dom, todo, evidence, pinpointed, ranked, verdict>>

\* Mutant: no early return when every abnormal service is excluded.
Layer6NoEarlyReturn ==
  /\ pc = "layer6"
  /\ ~ExternalCause
  /\ abnormal = {}
  /\ pc' = "rank"
  /\ UNCHANGED <<dom, todo, evidence, pinpointed, ranked, verdict>>

Layer6NoCandidate ==
  /\ pc = "layer6"
  /\ ~ExternalCause
  /\ Candidates = {}
  /\ pc' = "rank"
  /\ UNCHANGED <<dom, todo, evidence, pinpointed, ranked, verdict>>

\* Mutant: the primary is chosen before the exclusions apply.
Layer6PrimaryAny(s) ==
  /\ pc = "layer6"
  /\ ~ExternalCause
  /\ IsFirst(s, abnormal)
  /\ pinpointed' = <<s>>
  /\ todo' = Candidates \ {s}
  /\ pc' = "layer7"
  /\ UNCHANGED <<dom, evidence, ranked, verdict>>

\* The candidate with the earliest onset is the primary root cause.
Layer6Primary(s) ==
  /\ pc = "layer6"
  /\ ~ExternalCause
  /\ IsFirst(s, Candidates)
  /\ pinpointed' = <<s>>
  /\ todo' = Candidates \ {s}
  /\ pc' = "layer7"
  /\ UNCHANGED <<dom, evidence, ranked, verdict>>

\* Mutant: the gap is measured from the last root instead of the primary.
OnsetDiffLast(s) == onset[s] - onset[pinpointed[Len(pinpointed)]]

OnsetDiff(s) == onset[s] - onset[pinpointed[1]]

\* No map: inside the window a candidate is a concurrent fault.
Layer7Concurrent(s) ==
  /\ pc = "layer7"
  /\ ~dom.useMap
  /\ IsFirst(s, todo)
  /\ OnsetDiff(s) <= dom.threshold
  /\ pinpointed' = Append(pinpointed, s)
  /\ todo' = todo \ {s}
  /\ UNCHANGED <<dom, pc, evidence, ranked, verdict>>

\* Mutant: leaving the window returns the list, without the dependency filter.
Layer7BreakReturns(s) ==
  /\ pc = "layer7"
  /\ ~dom.useMap
  /\ IsFirst(s, todo)
  /\ OnsetDiff(s) > dom.threshold
  /\ pc' = "rank"
  /\ UNCHANGED <<dom, todo, evidence, pinpointed, ranked, verdict>>

\* No map: the first candidate outside the window breaks the scan.
Layer7Break(s) ==
  /\ pc = "layer7"
  /\ ~dom.useMap
  /\ IsFirst(s, todo)
  /\ OnsetDiff(s) > dom.threshold
  /\ pc' = "layer8"
  /\ todo' = Candidates
  /\ UNCHANGED <<dom, evidence, pinpointed, ranked, verdict>>

\* Map: some root explains s, being linked to it and within the path's window.
\* The gap compared is the one to the primary, whichever root is tried.
ExplainedByMap(s) ==
  \E r \in InSeq(pinpointed) :
    Linked(r, s) /\ OnsetDiff(s) <= dom.pathThreshold[r][s]

Layer7Map(s) ==
  /\ pc = "layer7"
  /\ dom.useMap
  /\ IsFirst(s, todo)
  /\ pinpointed' = IF ExplainedByMap(s) THEN pinpointed ELSE Append(pinpointed, s)
  /\ todo' = todo \ {s}
  /\ UNCHANGED <<dom, pc, evidence, ranked, verdict>>

Layer7End ==
  /\ pc = "layer7"
  /\ todo = {}
  /\ pc' = "layer8"
  /\ todo' = Candidates
  /\ UNCHANGED <<dom, evidence, pinpointed, ranked, verdict>>

\* Layer 8: a candidate no pinpointed service can have propagated to, or
\* stalled on, has a fault of its own.
Layer8Filter(s) ==
  /\ pc = "layer8"
  /\ IsFirst(s, todo)
  /\ pinpointed' =
       IF s \in InSeq(pinpointed) \/ \E r \in InSeq(pinpointed) : Linked(r, s)
       THEN pinpointed
       ELSE Append(pinpointed, s)
  /\ todo' = todo \ {s}
  /\ UNCHANGED <<dom, pc, evidence, ranked, verdict>>

Layer8End ==
  /\ pc = "layer8"
  /\ todo = {}
  /\ pc' = "rank"
  /\ UNCHANGED <<dom, todo, evidence, pinpointed, ranked, verdict>>

\* _sort_key: pinpointed first, then onset.  The rest of the key, confidence and
\* then dict order, is abstracted: services that tie are ranked in any order.
RankedNoLater(s, t) ==
  LET root(x) == x \in InSeq(pinpointed)
  IN \/ root(s) /\ ~root(t)
     \/ (root(s) <=> root(t)) /\ onset[s] <= onset[t]

\* by_onset[0]
MovedFirst(s) == IsFirst(s, abnormal)

\* Mutant: no test for a system in which only inputs and symptoms moved.
ClassifyAny ==
  IF \E s \in dom.exogenous : MovedFirst(s) /\ trend[s] # "down"
  THEN "capacity"
  ELSE IF pinpointed = <<>> THEN "external" ELSE "pathology"

\* _classify.  by_onset is not empty here: an empty one ended in "analyse".
Classify ==
  IF Excluded # {} /\ abnormal \subseteq Excluded
  THEN IF abnormal \cap dom.exogenous # {} THEN "capacity" ELSE "no_anomaly"
  ELSE IF \E s \in dom.exogenous : MovedFirst(s) /\ trend[s] # "down"
       THEN "capacity"
       ELSE IF pinpointed = <<>> THEN "external" ELSE "pathology"

Rankings ==
  {q \in [1 .. Cardinality(abnormal) -> abnormal] :
     /\ InSeq(q) = abnormal
     /\ \A i, j \in DOMAIN q : i < j => RankedNoLater(q[i], q[j])}

Rank ==
  /\ pc = "rank"
  /\ ranked' \in Rankings
  /\ verdict' = Classify
  /\ pc' = "done"
  /\ UNCHANGED <<dom, todo, evidence, pinpointed>>

Next ==
  \/ \E s \in Services :
       \/ AnalyseNormal(s)
       \/ AnalyseAbnormal(s)
       \/ Layer6Primary(s)
       \/ Layer7Concurrent(s)
       \/ Layer7Break(s)
       \/ Layer7Map(s)
       \/ Layer8Filter(s)
  \/ Layer6External
  \/ Layer6NoCandidate
  \/ Layer7End
  \/ Layer8End
  \/ Rank

\* pinpoint_report is one call of one thread: while a step is left it is taken.
Spec == Init /\ [][Next]_vars /\ WF_vars(Next)
-----------------------------------------------------------------------------
(* Properties *)

TypeOK ==
  /\ dom \in Domains /\ dom \in DomainSpec
  /\ pc \in Phases
  /\ todo \subseteq Services
  /\ abnormal \subseteq Services
  /\ onset \in [Services -> Int]
  /\ trend \in [Services -> Trends]
  /\ pinpointed \in Seq(Services)
  /\ ranked \in Seq(Services)
  /\ verdict \in Verdicts

\* Loads, prompt shapes, the SLI and components with no causal path to it go
\* abnormal in every incident; whatever the order of onsets, none is ever
\* named a root cause (fault_chain.py:576-579, domains/base.py:217-244).
RootsAreCandidates == InSeq(pinpointed) \subseteq Candidates

\* Once the filter has run, a candidate that was not pinpointed has a path to
\* or from some root that was: no abnormal component is dropped unexplained,
\* although Layer 7 breaks early and Layer 8's roots grow while it scans.
VictimsExplained ==
  pc = "rank" /\ ~ExternalCause =>
    \A s \in Candidates :
      s \in InSeq(pinpointed) \/ \E r \in InSeq(pinpointed) : Linked(r, s)

\* Without a map, a root that started after the concurrency window is
\* independent: neither the roots before it nor those after it can have
\* propagated to it or been stalled by it (fault_chain.py:532-545).
LateRootsIndependent ==
  ~dom.useMap =>
    \A i, j \in DOMAIN pinpointed :
      i # j /\ OnsetDiff(pinpointed[j]) > dom.threshold
        => ~Linked(pinpointed[i], pinpointed[j])

\* With a map, a root linked to an earlier one is one whose gap is outside
\* the calibrated window of their path (fault_chain.py:568-572).
MapRootsOutsideWindow ==
  dom.useMap =>
    \A i, j \in DOMAIN pinpointed :
      i < j /\ Linked(pinpointed[i], pinpointed[j])
        => OnsetDiff(pinpointed[j]) > dom.pathThreshold[pinpointed[i]][pinpointed[j]]

\* The three together: of what went abnormal, what is named a root has a reason
\* to be, and what is not has a root to explain it.
RootsJustified == VictimsExplained /\ LateRootsIndependent /\ MapRootsOutsideWindow

\* The list is ordered by onset, as its documentation says, although two
\* loops append to it (fault_chain.py:590-591).
RootsInOnsetOrder ==
  \A i, j \in DOMAIN pinpointed : i < j => Before(pinpointed[i], pinpointed[j])

\* RcaReport.top(): the first eligible entry.
IsTop(i) ==
  /\ i \in DOMAIN ranked
  /\ ranked[i] \notin Excluded
  /\ \A j \in 1 .. i - 1 : ranked[j] \in Excluded

\* The report and the evidence agree.
\*  - A pathology has a top entry, it is a root cause and no candidate moved before it;
\*    and no input that rose or wavered was the very first to move.
\*  - For capacity an input moved, and either no candidate did or an input that did
\*    not fall came before all of them.
\*  - An external cause is one direction of everything, where nothing is excluded.
\*  - No anomaly: neither a candidate nor an input moved.
\* That is less than the verdicts are documented to mean (fault_chain.py:89-102).  An
\* SLI alone is "no_anomaly", not nothing crossing a threshold; an SLI and then a load,
\* up or down, with no candidate, is "capacity", as is a load that moved at the same
\* index as a candidate and comes before it in the dictionary; and an SLI, a load and
\* a candidate, in this order, are a "pathology", although the input moved first.
ReportConsistent ==
  pc = "done" =>
    /\ verdict = "pathology" =>
         /\ \E i \in DOMAIN ranked :
              /\ IsTop(i)
              /\ ranked[i] \in InSeq(pinpointed)
              /\ \A s \in Candidates : onset[ranked[i]] <= onset[s]
         /\ \A x \in abnormal \cap dom.exogenous :
              (\A s \in abnormal \ {x} : onset[x] < onset[s]) => trend[x] = "down"
    /\ verdict = "capacity" =>
         \E x \in abnormal \cap dom.exogenous :
           \A s \in Candidates : onset[x] <= onset[s] /\ trend[x] # "down"
    /\ verdict = "external" =>
         /\ abnormal = Services /\ Excluded = {} /\ pinpointed = <<>>
         /\ \E d \in Directions : {trend[s] : s \in abnormal} \ {"mixed"} = {d}
    /\ verdict = "no_anomaly" => Candidates = {} /\ abnormal \cap dom.exogenous = {}

\* Every diagnosis ends in a report.
ReportProduced == <>(pc = "done")

\* The two scans and the early break compute a set of roots that can be said in
\* one sentence; module RootCauses says it.
RC == INSTANCE RootCauses WITH
        stage <- IF pc \in {"rank", "done"} THEN "decided" ELSE "collecting",
        roots <- IF pc \in {"rank", "done"} THEN InSeq(pinpointed) ELSE {}

\* Layers 6-8 decide exactly the root causes RootCauses specifies, in one step
\* of it, and change neither the roots nor the evidence afterwards.
ImplementsRootCauses == RC!Spec
=============================================================================
