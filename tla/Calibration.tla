----------------------------- MODULE Calibration -----------------------------
(***************************************************************************)
(* A calibration campaign, calibration/calibrate.py, and the propagation   *)
(* map it builds, calibration/propagation_map.py.                          *)
(*                                                                         *)
(* Each trial injects a fault into one service and notes for each of its   *)
(* callers how much later the anomaly showed there.  The map in memory     *)
(* keeps all delays of an edge with their median and threshold; after each *)
(* trial it replaces the file, which is written in place and which every   *)
(* diagnosis with a map reads (fault_chain.py:406-415).                    *)
(*                                                                         *)
(* Times are whole seconds.  Medians are doubled and thresholds taken four *)
(* times, so that both are integers.                                       *)
(***************************************************************************)
EXTENDS Integers, Sequences, FiniteSets, FiniteSetsExt, Functions

CONSTANTS
  Services,
  Graph,          \* the services each service calls
  Targets,        \* the services to inject into, in their order
  Trials,
  Onsets,         \* onset times a diagnosis may report
  MaxCampaigns,   \* bound: runs of the script
  Absent, Torn, NoOnset

ASSUME GraphAssumption ==
  /\ IsFiniteSet(Services)
  /\ Graph \in [Services -> SUBSET Services]
  /\ Targets \in Seq(Services)
  /\ Targets # <<>>
  /\ \A i, j \in DOMAIN Targets : Targets[i] = Targets[j] => i = j
  /\ \A i \in DOMAIN Targets : \E s \in Services : Targets[i] \in Graph[s]  \* _callee_services
ASSUME TrialsAssumption ==
  /\ Trials \in Nat \ {0} /\ MaxCampaigns \in Nat
  /\ Onsets \subseteq Nat /\ NoOnset \notin Nat

\* _callers_of
Callers(t) == {s \in Services : t \in Graph[s]}

\* The edges the campaign calibrates.
EdgesTo(t) == Callers(t) \X {t}
Calibrated == UNION {EdgesTo(Targets[i]) : i \in DOMAIN Targets}

\* A map holds an entry for some of them.
Entries  == [observed : Seq(Nat) \ {<<>>}, median : Nat, threshold : Nat]
IsMap(m) == \E D \in SUBSET Calibrated : m \in [D -> Entries]

ASSUME NamesAssumption ==
  /\ Absent # Torn
  /\ \A x \in {Absent, Torn}, D \in SUBSET Calibrated :
       x \notin [campaign : Nat, edges : [D -> Entries]]

DefaultThreshold == 4 * 2      \* default_threshold_s

VARIABLES
  file,       \* propagation_delays.json: a map with its campaign, Absent or Torn
  pc, campaign,
  place,      \* index of the current target
  trial,      \* number of the current trial, from 1
  edges,      \* PropagationMap._edges, by edge
  delays,     \* result of the trial under way, by caller
  (* for the properties *)
  observed,   \* the delays the trials of this campaign observed on each edge
  broken      \* the last campaign died while it wrote the file

vars == <<file, pc, campaign, place, trial, edges, delays, observed, broken>>

Readable(f) == f \notin {Absent, Torn}
Target      == Targets[place]
-----------------------------------------------------------------------------
(* The map *)

\* The k-th smallest entry of a sequence.
Smallest(q, k) ==
  CHOOSE x \in {q[i] : i \in DOMAIN q} :
    /\ Cardinality({i \in DOMAIN q : q[i] < x}) < k
    /\ k <= Cardinality({i \in DOMAIN q : q[i] <= x})

\* statistics.median, doubled.
Median(q) == Smallest(q, (Len(q) + 1) \div 2) + Smallest(q, Len(q) \div 2 + 1)

\* _compute_threshold of a doubled median, four times: median + max(1, median / 2).
Threshold(med) == 2 * med + Max({4, med})

\* _recompute_edge
Entry(q) == [observed |-> q, median |-> Median(q), threshold |-> Threshold(Median(q))]

\* Mutant: the threshold is that of the delays before this one.
RecordedLate(m, e, d) ==
  LET q == IF e \in DOMAIN m THEN m[e].observed ELSE <<>>
  IN IF q = <<>> THEN Entry(<<d>>) ELSE [Entry(q) EXCEPT !.observed = Append(q, d)]

\* record_observation: the entry of one edge.
Recorded(m, e, d) ==
  Entry(Append(IF e \in DOMAIN m THEN m[e].observed ELSE <<>>, d))

\* get_edge_threshold
EdgeThreshold(m, e) == IF e \in DOMAIN m THEN m[e].threshold ELSE DefaultThreshold

\* The edges of a walk, caller to callee, and the walks there are.
EdgesOf(walk) == {<<walk[i], walk[i + 1]>> : i \in 1 .. Len(walk) - 1}
Walks ==
  {w \in UNION {[1 .. n -> Services] : n \in 2 .. Cardinality(Services)} :
     \A e \in EdgesOf(w) : e[2] \in Graph[e[1]]}

\* find_path: a shortest walk between two services that has one (module HasPathBFS).
Linked == {<<w[1], w[Len(w)]>> : w \in Walks}
FindPath ==
  [st \in Linked |->
     LET found == {w \in Walks : <<w[1], w[Len(w)]>> = st}
     IN CHOOSE w \in found : \A x \in found : Len(w) <= Len(x)]

\* The thresholds along a walk, and their sum along the path found.
Thresholds(m, walk) == [i \in 1 .. Len(walk) - 1 |-> EdgeThreshold(m, <<walk[i], walk[i + 1]>>)]
PathSum(m, st)      == SumFunction(Thresholds(m, FindPath[st]))

\* get_path_threshold: the smaller sum of both directions; the default without a path.
PathThreshold(m, s, t) ==
  LET ways == {<<s, t>>, <<t, s>>} \cap Linked
  IN IF s = t \/ ways = {} THEN DefaultThreshold
     ELSE Min({PathSum(m, st) : st \in ways})
-----------------------------------------------------------------------------
(* The campaign *)

Unobserved == [e \in Calibrated |-> <<>>]

Init ==
  /\ file = Absent
  /\ pc = "idle" /\ campaign = 0
  /\ place = 0 /\ trial = 0
  /\ edges = <<>> /\ delays = <<>> /\ observed = Unobserved
  /\ broken = FALSE

\* calibrate: an empty map, whatever the file holds.
Start ==
  /\ pc = "idle"
  /\ campaign < MaxCampaigns
  /\ campaign' = campaign + 1
  /\ place' = 1 /\ trial' = 1
  /\ edges' = <<>>
  /\ delays' = <<>> /\ observed' = Unobserved
  /\ pc' = "inject"
  /\ UNCHANGED <<file, broken>>

\* Load, baseline, inject_one.  Whether the fault was confirmed is not asked.
Inject ==
  /\ pc = "inject"
  /\ pc' = "fetch"
  /\ UNCHANGED <<file, campaign, place, trial, edges, delays, observed, broken>>

\* The metrics cannot be fetched: no caller has a delay.
FetchFails ==
  /\ pc = "fetch"
  /\ delays' = [c \in Callers(Target) |-> NoOnset]
  /\ pc' = "record"
  /\ UNCHANGED <<file, campaign, place, trial, edges, observed, broken>>

\* onset_diff of a caller, not below zero; none if either showed no anomaly.
Delay(onset, c) ==
  IF onset[Target] = NoOnset \/ onset[c] = NoOnset THEN NoOnset
  ELSE Max({onset[c] - onset[Target], 0})

\* The diagnosis over the fault window reports onsets for some services.
Measure ==
  /\ pc = "fetch"
  /\ \E onset \in [Callers(Target) \cup {Target} -> Onsets \cup {NoOnset}] :
       delays' = [c \in Callers(Target) |-> Delay(onset, c)]
  /\ pc' = "record"
  /\ UNCHANGED <<file, campaign, place, trial, edges, observed, broken>>

\* Mutant: what was not observed counts as the default.
KeptDefault(d) == IF d = NoOnset THEN DefaultThreshold ELSE d

\* "no propagation (using 0.0 s)"
Kept(d) == IF d = NoOnset THEN 0 ELSE d

\* What the trial did observe, for the properties.
ObservedToo ==
  [e \in Calibrated |->
     IF e \in EdgesTo(Target) /\ delays[e[1]] # NoOnset
     THEN Append(observed[e], delays[e[1]])
     ELSE observed[e]]

\* Mutant: the map is saved after the last trial of a target.
RecordUnsaved ==
  /\ pc = "record"
  /\ edges' = [e \in DOMAIN edges \cup EdgesTo(Target) |->
                 IF e \in EdgesTo(Target) THEN Recorded(edges, e, Kept(delays[e[1]]))
                 ELSE edges[e]]
  /\ observed' = ObservedToo
  /\ delays' = <<>>
  /\ pc' = IF trial = Trials THEN "save" ELSE "next"
  /\ UNCHANGED <<file, campaign, place, trial, broken>>

\* The delays of all callers go into the map.
Record ==
  /\ pc = "record"
  /\ edges' = [e \in DOMAIN edges \cup EdgesTo(Target) |->
                 IF e \in EdgesTo(Target) THEN Recorded(edges, e, Kept(delays[e[1]]))
                 ELSE edges[e]]
  /\ observed' = ObservedToo
  /\ delays' = <<>>
  /\ pc' = "save"
  /\ UNCHANGED <<file, campaign, place, trial, broken>>

\* write_text opens the file, and the old map is gone.
SaveBegins ==
  /\ pc \in {"save", "final"}
  /\ file' = Torn
  /\ pc' = IF pc = "save" THEN "saving" ELSE "finishing"
  /\ UNCHANGED <<campaign, place, trial, edges, delays, observed, broken>>

SaveEnds ==
  /\ pc = "saving"
  /\ file' = [campaign |-> campaign, edges |-> edges]
  /\ broken' = FALSE
  /\ pc' = "next"
  /\ UNCHANGED <<campaign, place, trial, edges, delays, observed>>

NextTrial ==
  /\ pc = "next"
  /\ trial < Trials
  /\ trial' = trial + 1
  /\ pc' = "inject"
  /\ UNCHANGED <<file, campaign, place, edges, delays, observed, broken>>

NextTarget ==
  /\ pc = "next"
  /\ trial = Trials
  /\ place < Len(Targets)
  /\ place' = place + 1
  /\ trial' = 1
  /\ pc' = "inject"
  /\ UNCHANGED <<file, campaign, edges, delays, observed, broken>>

\* finalize: every entry once more, before the last save.
Finalize ==
  /\ pc = "next"
  /\ trial = Trials
  /\ place = Len(Targets)
  /\ edges' = [e \in DOMAIN edges |-> Entry(edges[e].observed)]
  /\ pc' = "final"
  /\ UNCHANGED <<file, campaign, place, trial, delays, observed, broken>>

Finish ==
  /\ pc = "finishing"
  /\ file' = [campaign |-> campaign, edges |-> edges]
  /\ broken' = FALSE
  /\ pc' = "done"
  /\ UNCHANGED <<campaign, place, trial, edges, delays, observed>>

\* The process ends: killed, or by an exception of the injection or the diagnosis,
\* which nothing catches.  What it was writing stays torn; what it held is not read
\* again.
Die ==
  /\ pc \notin {"idle", "done"}
  /\ pc' = "idle"
  /\ broken' = (broken \/ pc \in {"saving", "finishing"})
  /\ UNCHANGED <<file, campaign, place, trial, edges, delays, observed>>

\* A finished campaign may be followed by another one.
Again ==
  /\ pc = "done"
  /\ pc' = "idle"
  /\ UNCHANGED <<file, campaign, place, trial, edges, delays, observed, broken>>

Next ==
  \/ Start
  \/ Inject
  \/ FetchFails
  \/ Measure
  \/ Record
  \/ SaveBegins
  \/ SaveEnds
  \/ NextTrial
  \/ NextTarget
  \/ Finalize
  \/ Finish
  \/ Die
  \/ Again

Spec == Init /\ [][Next]_vars
-----------------------------------------------------------------------------
(* Properties *)

\* The number of delays a map has of an edge.
Samples(m, e) == IF e \in DOMAIN m THEN Len(m[e].observed) ELSE 0

TypeOK ==
  /\ pc \in {"idle", "inject", "fetch", "record", "save", "saving", "next",
             "final", "finishing", "done"}
  /\ campaign \in 0 .. MaxCampaigns
  /\ place \in 0 .. Len(Targets) /\ trial \in 0 .. Trials
  /\ IsMap(edges)
  /\ Readable(file) => file.campaign \in 1 .. campaign /\ IsMap(file.edges)
  /\ broken \in BOOLEAN
  /\ observed \in [Calibrated -> Seq(Nat)]

\* A map on disk, whichever campaign wrote it and however that ended, is one of
\* whole trials: every edge to a target has as many delays, and a target has some
\* only if those before it are complete; each threshold is that of the delays next
\* to it; and a finished campaign left no edge short, whatever failed on its way
\* (calibrate.py:246-268, propagation_map.py:188-204).
FileIsWholeTrials ==
  Readable(file) =>
    LET m == file.edges IN
    /\ \A i \in DOMAIN Targets : \A e, f \in EdgesTo(Targets[i]) :
         Samples(m, e) = Samples(m, f)
    /\ \A i, j \in DOMAIN Targets : i < j =>
         \A e \in EdgesTo(Targets[i]), f \in EdgesTo(Targets[j]) :
           Samples(m, f) > 0 => Samples(m, e) = Trials
    /\ \A e \in DOMAIN m : m[e] = Entry(m[e].observed)
    /\ pc = "done" => \A e \in Calibrated : Samples(m, e) = Trials

\* A file of this campaign that can be read lacks at most the trial that is about to
\* be saved; it is absent or of an earlier campaign only until this one, which starts
\* from an empty map, has a trial to save; and it cannot be read only while it is
\* written, or where a campaign died writing it: then all its trials are lost
\* (calibrate.py:216-219, 246-254).
ReadableFileKeepsUp ==
  /\ file = Torn => broken \/ pc \in {"saving", "finishing"}
  /\ file = Absent \/ (Readable(file) /\ file.campaign # campaign) =>
       \A e \in DOMAIN edges : Samples(edges, e) <= 1 /\ e[2] = Targets[1]
  /\ Readable(file) /\ file.campaign = campaign =>
       \A e \in DOMAIN edges :
         \/ Samples(edges, e) = Samples(file.edges, e)
         \/ /\ Samples(edges, e) = Samples(file.edges, e) + 1
            /\ e[2] = Target
            /\ pc \in {"save", "idle"}

\* The map of what the trials observed, and of nothing else.
ObservedMap ==
  [e \in {x \in Calibrated : observed[x] # <<>>} |-> Entry(observed[e])]

\* Trials that observe nothing are recorded as a delay of zero, and callers that
\* were abnormal first too (calibrate.py:166, 247), where get_edge_threshold documents
\* the default for an edge with "no propagation observed" (propagation_map.py:69-70,
\* 127-128).  For the window of a path that makes one difference: it may be narrower
\* than without those trials, below the default even, but is never wider; and at a
\* second per edge no window ever closes (propagation_map.py:53-59).  It bounds the
\* windows, not what a diagnosis makes of them: a narrower window can make a root of
\* an effect, and a victim of that root's of an event that was one itself.
MissesNarrowOnly ==
  \A st \in Linked :
    LET window == PathThreshold(edges, st[1], st[2]) IN
    /\ window <= PathThreshold(ObservedMap, st[1], st[2])
    /\ <<st[2], st[1]>> \notin Linked => window >= 4 * (Len(FindPath[st]) - 1)

(* A statement of a comment the code does not keep. *)

\* "Save intermediate results after every trial so a crash doesn't lose all data"
\* (calibrate.py:251-252): where the process has died with more than one trial done,
\* the file can be read.
CrashKeepsData ==
  pc = "idle" /\ (\E e \in DOMAIN edges : Samples(edges, e) > 1) => Readable(file)
=============================================================================
