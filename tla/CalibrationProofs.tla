-------------------------- MODULE CalibrationProofs --------------------------
(***************************************************************************)
(* Proofs about the calibration campaigns, for every graph of services,    *)
(* every list of targets, and any number of trials, campaigns and deaths.  *)
(*                                                                         *)
(* The file holds whole trials (Counts, FileInv), its medians are those of *)
(* the delays next to them (Fresh), and the delays are those observed with *)
(* zeros put in (NarrowInv), which lowers every order statistic, and with  *)
(* it medians, thresholds and the sums along paths.                        *)
(***************************************************************************)
EXTENDS Calibration, FiniteSetTheorems, WellFoundedInduction, TLAPS

-----------------------------------------------------------------------------
(* Order statistics *)

\* A nonempty finite set of numbers has a largest and a smallest element.
LEMMA HasLargest ==
  ASSUME NEW S \in SUBSET Int, IsFiniteSet(S), S # {}
  PROVE  \E x \in S : \A y \in S : x >= y
<1> DEFINE NoMax == {T \in SUBSET S : T # {} /\ ~ \E x \in T : \A y \in T : x >= y}
<1>1. ASSUME NoMax # {} PROVE FALSE
  <2>1. IsWellFoundedOn(StrictSubsetOrdering(S), SUBSET S)
    BY FS_StrictSubsetOrderingWellFounded, FS_FiniteSubsetsOfFinite
  <2>2. PICK T \in NoMax : \A U \in NoMax : <<U, T>> \notin StrictSubsetOrdering(S)
    <3> HIDE DEF NoMax
    <3>1. NoMax \subseteq SUBSET S
      BY DEF NoMax
    <3> QED BY <1>1, <2>1, <3>1, WFMin
  <2>3. PICK m \in T : TRUE
    OBVIOUS
  <2>4. T \ {m} # {}
    BY <2>2, <2>3
  <2>5. ASSUME NEW x \in T \ {m}, \A y \in T \ {m} : x >= y PROVE FALSE
    BY <2>2, <2>3, <2>5
  <2>6. T \ {m} \in NoMax
    BY <2>4, <2>5
  <2>7. <<T \ {m}, T>> \in StrictSubsetOrdering(S)
    BY <2>3 DEF StrictSubsetOrdering
  <2> QED BY <2>2, <2>6, <2>7
<1> QED BY <1>1

\* The entries of a sequence, and the positions of those below and up to a bound.
Values(q)   == {q[i] : i \in DOMAIN q}
Below(q, x) == {i \in DOMAIN q : q[i] < x}
UpTo(q, x)  == {i \in DOMAIN q : q[i] <= x}

LEMMA EntriesFacts ==
  ASSUME NEW q \in Seq(Nat)
  PROVE  /\ Len(q) \in Nat /\ DOMAIN q = 1 .. Len(q) /\ Cardinality(DOMAIN q) = Len(q)
         /\ \A i \in DOMAIN q : q[i] \in Nat /\ q[i] \in Values(q)
         /\ Values(q) \in SUBSET Nat /\ IsFiniteSet(Values(q))
         /\ \A x : /\ IsFiniteSet(Below(q, x)) /\ Cardinality(Below(q, x)) \in Nat
                  /\ IsFiniteSet(UpTo(q, x)) /\ Cardinality(UpTo(q, x)) \in Nat
<1>1. Len(q) \in Nat /\ DOMAIN q = 1 .. Len(q)
  OBVIOUS
<1>2. IsFiniteSet(1 .. Len(q)) /\ Cardinality(1 .. Len(q)) = Len(q)
  <2>1. /\ IsFiniteSet(1 .. Len(q))
        /\ Cardinality(1 .. Len(q)) = IF 1 > Len(q) THEN 0 ELSE Len(q) - 1 + 1
    BY <1>1, FS_Interval
  <2> QED BY <1>1, <2>1
<1>3. IsFiniteSet(DOMAIN q) /\ Cardinality(DOMAIN q) = Len(q)
  BY <1>1, <1>2
<1>4. \A i \in DOMAIN q : q[i] \in Nat /\ q[i] \in Values(q)
  BY <1>1 DEF Values
<1>5. Values(q) \in SUBSET Nat
  BY <1>4 DEF Values
<1>6. IsFiniteSet(Values(q))
  <2>1. [i \in DOMAIN q |-> q[i]] \in Surjection(DOMAIN q, Values(q))
    BY DEF Surjection, Values
  <2> QED BY <1>3, <2>1, FS_Surjection
<1>7. \A x : Below(q, x) \subseteq DOMAIN q /\ UpTo(q, x) \subseteq DOMAIN q
  BY DEF Below, UpTo
<1>8. \A x : IsFiniteSet(Below(q, x)) /\ IsFiniteSet(UpTo(q, x))
  BY <1>3, <1>7, FS_Subset
<1> QED BY <1>1, <1>3, <1>4, <1>5, <1>6, <1>8, FS_CardinalityType

LEMMA HasLeast ==
  ASSUME NEW S \in SUBSET Nat, IsFiniteSet(S), S # {}
  PROVE  \E x \in S : \A y \in S : x <= y
<1> DEFINE Neg == {-v : v \in S}
<1>1. Neg \in SUBSET Int /\ Neg # {}
  OBVIOUS
<1>2. [v \in S |-> -v] \in Surjection(S, Neg)
  BY DEF Surjection
<1>3. IsFiniteSet(Neg)
  BY <1>2, FS_Surjection
<1>4. PICK n \in Neg : \A y \in Neg : n >= y
  BY <1>1, <1>3, HasLargest
<1>5. PICK v \in S : n = -v
  OBVIOUS
<1>6. ASSUME NEW y \in S PROVE v <= y
  <2>1. -v >= -y
    BY <1>4, <1>5
  <2> QED BY <2>1
<1> QED BY <1>6

\* The k-th smallest entry of a sequence exists: the largest entry that has fewer than
\* k entries below it.
LEMMA SmallestIs ==
  ASSUME NEW q \in Seq(Nat), NEW k \in 1 .. Len(q)
  PROVE  /\ Smallest(q, k) \in Values(q) /\ Smallest(q, k) \in Nat
         /\ Cardinality(Below(q, Smallest(q, k))) < k
         /\ k <= Cardinality(UpTo(q, Smallest(q, k)))
<1> DEFINE V   == Values(q)
           Low == {x \in V : Cardinality(Below(q, x)) < k}
<1>1. /\ V \in SUBSET Nat /\ IsFiniteSet(V) /\ V # {}
      /\ \A i \in DOMAIN q : q[i] \in V
      /\ k \in Nat /\ k >= 1 /\ k <= Len(q)
  <2>1. Len(q) \in Nat /\ DOMAIN q = 1 .. Len(q) /\ k \in DOMAIN q
    BY EntriesFacts
  <2>2. q[k] \in V
    BY <2>1, EntriesFacts
  <2> QED BY <2>1, <2>2, EntriesFacts
<1> HIDE DEF V
<1>2. PICK m \in V : \A y \in V : m <= y
  BY <1>1, HasLeast
<1>3. m \in Low
  <2>1. Below(q, m) = {}
    <3> SUFFICES ASSUME NEW i \in DOMAIN q, q[i] < m PROVE FALSE
      BY DEF Below
    <3>1. q[i] \in V /\ q[i] \in Nat /\ m \in Nat
      BY <1>1
    <3> QED BY <1>2, <3>1
  <2>2. Cardinality(Below(q, m)) = 0
    BY <2>1, FS_EmptySet
  <2> QED BY <1>1, <2>2
<1>4. Low \subseteq V /\ Low \in SUBSET Int
  <2>1. Low \subseteq V
    OBVIOUS
  <2>2. V \subseteq Int
    BY <1>1
  <2> HIDE DEF Low
  <2> QED BY <2>1, <2>2
<1>5. IsFiniteSet(Low)
  BY <1>1, <1>4, FS_Subset
<1>6. PICK x \in Low : \A y \in Low : x >= y
  <2> HIDE DEF Low
  <2> QED BY <1>3, <1>4, <1>5, HasLargest
<1>7. x \in V /\ x \in Nat /\ Cardinality(Below(q, x)) < k
  BY <1>1, <1>6
\* Were fewer than k entries up to x, the next larger entry would be in Low as well.
<1>8. ASSUME Cardinality(UpTo(q, x)) < k PROVE FALSE
  <2> DEFINE More == {u \in V : u > x}
  <2>1. More # {}
    <3> SUFFICES ASSUME More = {} PROVE FALSE
      OBVIOUS
    <3>1. \A u \in V : u <= x
      BY <1>1, <1>7
    <3>2. UpTo(q, x) = DOMAIN q
      BY <1>1, <3>1 DEF UpTo
    <3> QED BY <1>1, <1>8, <3>2, EntriesFacts
  <2>2. More \subseteq V /\ More \in SUBSET Nat
    BY <1>1
  <2>3. IsFiniteSet(More)
    BY <1>1, <2>2, FS_Subset
  <2>4. PICK y \in More : \A z \in More : y <= z
    <3> HIDE DEF More
    <3> QED BY <2>1, <2>2, <2>3, HasLeast
  <2>5. y \in V /\ y \in Nat /\ y > x
    BY <2>2, <2>4
  <2>6. \A i \in DOMAIN q : q[i] < y <=> q[i] <= x
    <3> SUFFICES ASSUME NEW i \in DOMAIN q PROVE q[i] < y <=> q[i] <= x
      OBVIOUS
    <3>1. q[i] \in V /\ q[i] \in Nat
      BY <1>1
    <3>2. q[i] > x => y <= q[i]
      BY <2>4, <3>1
    <3> QED BY <1>7, <2>5, <3>1, <3>2
  <2>7. Below(q, y) = UpTo(q, x)
    BY <2>6 DEF Below, UpTo
  <2>8. y \in Low
    BY <1>8, <2>5, <2>7
  <2>9. x >= y
    BY <1>6, <2>8
  <2> QED BY <1>7, <2>5, <2>9
<1>9. k <= Cardinality(UpTo(q, x))
  BY <1>1, <1>8, EntriesFacts
<1>10. /\ Smallest(q, k) \in V /\ Cardinality(Below(q, Smallest(q, k))) < k
       /\ k <= Cardinality(UpTo(q, Smallest(q, k)))
  BY <1>7, <1>9 DEF Smallest, V, Values, Below, UpTo
<1> QED BY <1>1, <1>10 DEF V

\* The larger of a number and a natural one.
LEMMA MaxOfTwo ==
  ASSUME NEW a \in Int, NEW b \in Nat
  PROVE  Max({a, b}) \in Nat /\ Max({a, b}) >= a /\ Max({a, b}) >= b
<1>1. \E x \in {a, b} : \A y \in {a, b} : x >= y
  OBVIOUS
<1>2. Max({a, b}) \in {a, b} /\ \A y \in {a, b} : Max({a, b}) >= y
  BY <1>1 DEF Max
<1> QED BY <1>2

\* An entry is one of a map.
LEMMA EntryType ==
  ASSUME NEW q \in Seq(Nat), q # <<>>
  PROVE  Entry(q) \in Entries /\ Entry(q).observed = q
<1> DEFINE low == (Len(q) + 1) \div 2
           high == Len(q) \div 2 + 1
<1>1. low \in 1 .. Len(q) /\ high \in 1 .. Len(q)
  <2>1. Len(q) \in Nat /\ Len(q) >= 1
    OBVIOUS
  <2> QED BY <2>1
<1> HIDE DEF low, high
<1>2. Smallest(q, low) \in Nat /\ Smallest(q, high) \in Nat
  BY <1>1, SmallestIs
<1>3. Median(q) \in Nat
  BY <1>2 DEF Median, low, high
<1>4. Threshold(Median(q)) \in Nat
  <2> DEFINE med == Median(q)
             four == 4
  <2> HIDE DEF med, four
  <2>1. med \in Nat /\ four \in Int
    BY <1>3 DEF med, four
  <2>2. Max({four, med}) \in Nat
    BY <2>1, MaxOfTwo
  <2>3. 2 * med + Max({4, med}) \in Nat
    BY <2>1, <2>2 DEF four
  <2> QED BY <2>3 DEF Threshold, med
<1> QED BY <1>3, <1>4 DEF Entry, Entries

-----------------------------------------------------------------------------
(* The types *)

\* A campaign under way has a target and a trial, and a delay or none of each caller.
Placed ==
  /\ pc # "idle" => campaign >= 1
  /\ campaign >= 1 => place \in DOMAIN Targets /\ trial \in 1 .. Trials
  /\ pc = "record" => delays \in [Callers(Target) -> Nat \cup {NoOnset}]

TypeInv == TypeOK /\ Placed

LEMMA TargetsType ==
  /\ Len(Targets) \in Nat /\ DOMAIN Targets = 1 .. Len(Targets) /\ 1 \in DOMAIN Targets
  /\ \A i \in DOMAIN Targets : EdgesTo(Targets[i]) \subseteq Calibrated
  /\ \A e \in Calibrated : \E i \in DOMAIN Targets : e \in EdgesTo(Targets[i])
  BY GraphAssumption DEF Calibrated

\* An edge leads to one target.
LEMMA OneTarget ==
  ASSUME NEW i \in DOMAIN Targets, NEW j \in DOMAIN Targets, NEW e \in EdgesTo(Targets[i]),
         e \in EdgesTo(Targets[j])
  PROVE  i = j /\ e[2] = Targets[i]
<1>1. e[2] = Targets[i] /\ e[2] = Targets[j]
  BY DEF EdgesTo
<1> QED BY <1>1, GraphAssumption

LEMMA EmptyMap == IsMap(<<>>) /\ DOMAIN <<>> = {}
<1>1. <<>> \in [{} -> Entries]
  OBVIOUS
<1> QED BY <1>1 DEF IsMap

LEMMA MapType ==
  ASSUME NEW m, IsMap(m)
  PROVE  /\ DOMAIN m \subseteq Calibrated /\ m \in [DOMAIN m -> Entries]
         /\ \A e \in DOMAIN m : m[e].observed \in Seq(Nat) /\ m[e].observed # <<>>
         /\ \A e : Samples(m, e) \in Nat
<1>1. PICK D \in SUBSET Calibrated : m \in [D -> Entries]
  BY DEF IsMap
<1>2. \A e \in DOMAIN m : m[e].observed \in Seq(Nat) /\ m[e].observed # <<>>
  BY <1>1 DEF Entries
<1>3. \A e \in DOMAIN m : Len(m[e].observed) \in Nat
  BY <1>2
<1> QED BY <1>1, <1>2, <1>3 DEF Samples

\* What a trial adds to an edge.
LEMMA RecordedType ==
  ASSUME NEW m, IsMap(m), NEW e, NEW d \in Nat
  PROVE  /\ Recorded(m, e, d) \in Entries
         /\ Len(Recorded(m, e, d).observed) = Samples(m, e) + 1
         /\ Recorded(m, e, d) = Entry(Recorded(m, e, d).observed)
         /\ Recorded(m, e, d).observed # <<>>
<1> DEFINE q == IF e \in DOMAIN m THEN m[e].observed ELSE <<>>
<1>1. q \in Seq(Nat) /\ Len(q) = Samples(m, e) /\ Len(q) \in Nat
  BY MapType DEF Samples
<1> HIDE DEF q
<1>2. Append(q, d) \in Seq(Nat) /\ Len(Append(q, d)) = Len(q) + 1 /\ Append(q, d) # <<>>
  BY <1>1
<1>3. Entry(Append(q, d)) \in Entries /\ Entry(Append(q, d)).observed = Append(q, d)
  BY <1>2, EntryType
<1>4. Recorded(m, e, d) = Entry(Append(q, d))
  BY DEF Recorded, q
<1> QED BY <1>1, <1>2, <1>3, <1>4

\* The map after a trial.
LEMMA RecordType ==
  ASSUME TypeInv, Record
  PROVE  /\ IsMap(edges')
         /\ \A e \in EdgesTo(Target) :
              /\ Samples(edges', e) = Samples(edges, e) + 1
              /\ edges'[e] = Entry(edges'[e].observed) /\ edges'[e].observed # <<>>
         /\ \A e : e \notin EdgesTo(Target) =>
              /\ Samples(edges', e) = Samples(edges, e)
              /\ e \in DOMAIN edges' => e \in DOMAIN edges /\ edges'[e] = edges[e]
<1> DEFINE D == DOMAIN edges \cup EdgesTo(Target)
           New(e) == Recorded(edges, e, Kept(delays[e[1]]))
<1>1. /\ IsMap(edges) /\ place \in DOMAIN Targets
      /\ delays \in [Callers(Target) -> Nat \cup {NoOnset}]
  BY DEF TypeInv, TypeOK, Placed, Record
<1>2. EdgesTo(Target) \subseteq Calibrated
  BY <1>1, TargetsType DEF Target
<1>3. edges' = [e \in D |-> IF e \in EdgesTo(Target) THEN New(e) ELSE edges[e]]
  BY DEF Record
<1>4. ASSUME NEW e \in EdgesTo(Target)
      PROVE  /\ New(e) \in Entries /\ Len(New(e).observed) = Samples(edges, e) + 1
             /\ New(e) = Entry(New(e).observed) /\ New(e).observed # <<>>
  <2>1. e[1] \in Callers(Target)
    BY DEF EdgesTo
  <2>2. delays[e[1]] \in Nat \cup {NoOnset}
    BY <1>1, <2>1
  <2>3. Kept(delays[e[1]]) \in Nat
    BY <2>2 DEF Kept
  <2> QED BY <1>1, <2>3, RecordedType
<1> HIDE DEF New
<1>5. edges' \in [D -> Entries]
  BY <1>1, <1>3, <1>4, MapType
<1>6. D \in SUBSET Calibrated
  BY <1>1, <1>2, MapType
<1>7. IsMap(edges')
  BY <1>5, <1>6 DEF IsMap
<1>8. \A e \in EdgesTo(Target) : e \in DOMAIN edges' /\ edges'[e] = New(e)
  BY <1>3
<1>9. \A e : e \notin EdgesTo(Target) =>
        /\ e \in DOMAIN edges' <=> e \in DOMAIN edges
        /\ e \in DOMAIN edges => edges'[e] = edges[e]
  BY <1>3
<1> QED BY <1>4, <1>7, <1>8, <1>9 DEF Samples

LEMMA FileRecord ==
  ASSUME TypeInv, pc \in {"saving", "finishing"}, file' = [campaign |-> campaign, edges |-> edges]
  PROVE  /\ Readable(file') /\ file'.campaign = campaign /\ file'.edges = edges
         /\ campaign \in 1 .. campaign
<1>1. campaign \in 1 .. campaign /\ campaign \in Nat /\ IsMap(edges)
  BY TrialsAssumption DEF TypeInv, TypeOK, Placed
<1>2. DOMAIN edges \in SUBSET Calibrated /\ edges \in [DOMAIN edges -> Entries]
  BY <1>1, MapType
<1>3. file' \in [campaign : Nat, edges : [DOMAIN edges -> Entries]]
  BY <1>1, <1>2
<1>4. file' \notin {Absent, Torn}
  BY <1>2, <1>3, NamesAssumption
<1> QED BY <1>1, <1>4 DEF Readable

\* Finalize recomputes every entry.
LEMMA FinalizeType ==
  ASSUME TypeInv, Finalize, \A e \in DOMAIN edges : edges[e] = Entry(edges[e].observed)
  PROVE  edges' = edges
<1>1. edges' = [e \in DOMAIN edges |-> edges[e]]
  BY DEF Finalize
<1>2. edges \in [DOMAIN edges -> Entries]
  BY MapType DEF TypeInv, TypeOK
<1> QED BY <1>1, <1>2

\* The delays of a trial are no less than zero.
LEMMA DelayType ==
  ASSUME TypeInv, Measure
  PROVE  delays' \in [Callers(Target) -> Nat \cup {NoOnset}]
<1>1. PICK onset \in [Callers(Target) \cup {Target} -> Onsets \cup {NoOnset}] :
        delays' = [c \in Callers(Target) |-> Delay(onset, c)]
  BY DEF Measure
<1>2. ASSUME NEW c \in Callers(Target) PROVE Delay(onset, c) \in Nat \cup {NoOnset}
  <2>1. CASE onset[Target] = NoOnset \/ onset[c] = NoOnset
    BY <2>1 DEF Delay
  <2>2. CASE ~(onset[Target] = NoOnset \/ onset[c] = NoOnset)
    <3>1. onset[Target] \in Nat /\ onset[c] \in Nat
      BY <1>1, <2>2, TrialsAssumption
    <3> DEFINE ahead == onset[c] - onset[Target]
               zero  == 0
    <3>2. ahead \in Int /\ zero \in Nat
      BY <3>1
    <3> HIDE DEF ahead, zero
    <3>3. Max({ahead, zero}) \in Nat
      BY <3>2, MaxOfTwo
    <3> QED BY <2>2, <3>3 DEF Delay, ahead, zero
  <2> QED BY <2>1, <2>2
<1> QED BY <1>1, <1>2

\* What was observed, and what a trial adds to it.
LEMMA UnobservedType == Unobserved \in [Calibrated -> Seq(Nat)]
BY DEF Unobserved

LEMMA ObservedTooType ==
  ASSUME TypeInv, Record
  PROVE  observed' \in [Calibrated -> Seq(Nat)]
<1>1. ASSUME NEW e \in EdgesTo(Target), delays[e[1]] # NoOnset PROVE delays[e[1]] \in Nat
  <2>1. e[1] \in Callers(Target)
    BY DEF EdgesTo
  <2> QED BY <1>1, <2>1 DEF TypeInv, Placed, Record
<1>2. ASSUME NEW e \in Calibrated PROVE ObservedToo[e] \in Seq(Nat)
  BY <1>1 DEF ObservedToo, TypeInv, TypeOK
<1> QED BY <1>2 DEF ObservedToo, Record

LEMMA InitTypeInv == Init => TypeInv
<1> SUFFICES ASSUME Init PROVE TypeInv
  OBVIOUS
<1>1. IsMap(edges)
  BY EmptyMap DEF Init
<1>2. campaign \in 0 .. MaxCampaigns /\ place \in 0 .. Len(Targets) /\ trial \in 0 .. Trials
  BY TrialsAssumption, TargetsType DEF Init
<1>3. pc = "idle" /\ broken = FALSE /\ ~Readable(file) /\ ~(campaign >= 1)
  BY DEF Init, Readable
<1> QED BY <1>1, <1>2, <1>3, UnobservedType DEF TypeInv, TypeOK, Placed, Init

LEMMA StepTypeInv == TypeInv /\ [Next]_vars => TypeInv'
<1> SUFFICES ASSUME TypeInv, [Next]_vars PROVE TypeInv'
  OBVIOUS
<1> USE TrialsAssumption, TargetsType DEF TypeInv, Placed
<1>0. campaign \in Nat /\ campaign <= MaxCampaigns
  BY DEF TypeOK
<1>1. CASE Start
  BY <1>0, <1>1, EmptyMap, UnobservedType DEF TypeOK, Start, Readable
<1>2. CASE Inject
  BY <1>2 DEF TypeOK, Inject
<1>3. CASE FetchFails
  BY <1>3 DEF TypeOK, FetchFails, Target
<1>4. CASE Measure
  <2>1. delays' \in [Callers(Target') -> Nat \cup {NoOnset}]
    BY <1>4, DelayType DEF Measure, Target
  <2> QED BY <1>4, <2>1 DEF TypeOK, Measure
<1>5. CASE Record
  BY <1>5, RecordType, ObservedTooType DEF TypeOK, Record
<1>6. CASE SaveBegins
  BY <1>6 DEF TypeOK, SaveBegins, Readable
<1>7. CASE SaveEnds \/ Finish
  <2>1. file'.campaign = campaign /\ file'.edges = edges /\ campaign \in 1 .. campaign
    BY <1>7, FileRecord DEF SaveEnds, Finish
  <2> QED BY <1>7, <2>1 DEF TypeOK, SaveEnds, Finish
<1>8. CASE NextTrial
  BY <1>8 DEF TypeOK, NextTrial
<1>9. CASE NextTarget
  BY <1>9 DEF TypeOK, NextTarget
<1>10. CASE Finalize
  <2>1. ASSUME NEW e \in DOMAIN edges
        PROVE  Entry(edges[e].observed) \in Entries
    <3>1. edges[e].observed \in Seq(Nat) /\ edges[e].observed # <<>>
      BY MapType DEF TypeOK
    <3> QED BY <3>1, EntryType
  <2>2. edges' \in [DOMAIN edges -> Entries] /\ DOMAIN edges \in SUBSET Calibrated
    BY <1>10, <2>1, MapType DEF TypeOK, Finalize
  <2>3. IsMap(edges')
    BY <2>2 DEF IsMap
  <2> QED BY <1>10, <2>3 DEF TypeOK, Finalize
<1>11. CASE Die
  BY <1>11 DEF TypeOK, Die
<1>12. CASE Again
  BY <1>12 DEF TypeOK, Again
<1>13. CASE UNCHANGED vars
  BY <1>13 DEF TypeOK, vars, Target
<1> QED
  BY <1>1, <1>2, <1>3, <1>4, <1>5, <1>6, <1>7, <1>8, <1>9, <1>10, <1>11, <1>12, <1>13 DEF Next

\* Every map, in memory and on disk, holds entries of calibrated edges only.
THEOREM TypeCorrect == Spec => []TypeOK
<1>1. TypeInv => TypeOK
  BY DEF TypeInv
<1> QED BY <1>1, InitTypeInv, StepTypeInv, PTL DEF Spec

-----------------------------------------------------------------------------
(* The counts of a map *)

\* The targets before the h-th are complete, the h-th has n trials and those after it
\* none.
Counts(m, h, n) ==
  \A i \in DOMAIN Targets : \A e \in EdgesTo(Targets[i]) :
    Samples(m, e) = IF i < h THEN Trials ELSE IF i = h THEN n ELSE 0

\* Each median and threshold is that of the delays next to it.
Fresh(m) == \A e \in DOMAIN m : m[e] = Entry(m[e].observed)

\* The trials of the target at hand in memory, and in the file.
Held   == IF pc \in {"inject", "fetch", "record"} THEN trial - 1 ELSE trial
Stored == IF pc \in {"inject", "fetch", "record", "save"} THEN trial - 1 ELSE trial

MemoryInv ==
  /\ Fresh(edges)
  /\ pc # "idle" => Counts(edges, place, Held)
  /\ pc \in {"final", "finishing", "done"} => place = Len(Targets) /\ trial = Trials

\* The file is of whole trials; if it is this campaign's, it lacks at most one trial of
\* the map in memory, and if it is not, this campaign has not completed one.
FileInv ==
  /\ pc \in {"saving", "finishing"} => file = Torn
  /\ file = Torn => broken \/ pc \in {"saving", "finishing"}
  /\ pc \in {"next", "final", "done"} => Readable(file) /\ file.campaign = campaign
  /\ Readable(file) =>
       /\ Fresh(file.edges)
       /\ \E h \in DOMAIN Targets, n \in 0 .. Trials : Counts(file.edges, h, n)
  /\ Readable(file) /\ file.campaign = campaign =>
       IF pc = "idle"
       THEN \E s, n \in 0 .. Trials :
              Counts(file.edges, place, s) /\ Counts(edges, place, n) /\ n \in {s, s + 1}
       ELSE Counts(file.edges, place, Stored)
  /\ ~Readable(file) \/ file.campaign # campaign => file = Torn \/
       IF pc = "idle" THEN Counts(edges, 1, 0) \/ Counts(edges, 1, 1)
       ELSE pc \in {"inject", "fetch", "record", "save"} /\ place = 1 /\ trial = 1

IInv == TypeInv /\ MemoryInv /\ FileInv

LEMMA NothingCounted == Counts(<<>>, 1, 0) /\ Fresh(<<>>)
  BY EmptyMap, TargetsType DEF Counts, Fresh, Samples

\* A complete target is what the next one starts with.
LEMMA CountsMoveOn ==
  ASSUME NEW m, NEW h \in Nat, Counts(m, h, Trials)
  PROVE  Counts(m, h + 1, 0)
  BY TargetsType, TrialsAssumption DEF Counts

\* An edge of a map leads to a target that has trials.
LEMMA CountedEdge ==
  ASSUME NEW m, IsMap(m), NEW e \in DOMAIN m
  PROVE  /\ Samples(m, e) \in Nat /\ Samples(m, e) >= 1
         /\ \E i \in DOMAIN Targets : e \in EdgesTo(Targets[i]) /\ e[2] = Targets[i]
<1>1. m[e].observed \in Seq(Nat) /\ m[e].observed # <<>> /\ e \in Calibrated
  BY MapType
<1>2. Samples(m, e) = Len(m[e].observed)
  BY DEF Samples
<1>3. \E i \in DOMAIN Targets : e \in EdgesTo(Targets[i]) /\ e[2] = Targets[i]
  BY <1>1, TargetsType DEF EdgesTo
<1>4. Len(m[e].observed) \in Nat /\ Len(m[e].observed) >= 1
  BY <1>1
<1> QED BY <1>2, <1>3, <1>4

LEMMA RecordCounts ==
  ASSUME TypeInv, Fresh(edges), Counts(edges, place, trial - 1), Record
  PROVE  Counts(edges', place, trial) /\ Fresh(edges')
<1>1. place \in DOMAIN Targets /\ trial \in Nat
  BY TrialsAssumption DEF TypeInv, Placed, Record
<1>2. ASSUME NEW i \in DOMAIN Targets, NEW e \in EdgesTo(Targets[i])
      PROVE  Samples(edges', e) = IF i < place THEN Trials ELSE IF i = place THEN trial ELSE 0
  <2>1. Samples(edges, e) = IF i < place THEN Trials ELSE IF i = place THEN trial - 1 ELSE 0
    BY <1>2 DEF Counts
  <2>2. CASE i = place
    <3>1. e \in EdgesTo(Target)
      BY <2>2 DEF Target
    <3>2. Samples(edges', e) = Samples(edges, e) + 1
      BY <3>1, RecordType
    <3> QED BY <1>1, <2>1, <2>2, <3>2, TargetsType
  <2>3. CASE i # place
    <3>1. e \notin EdgesTo(Target)
      BY <1>1, <2>3, OneTarget DEF Target
    <3>2. Samples(edges', e) = Samples(edges, e)
      BY <3>1, RecordType
    <3> QED BY <2>1, <2>3, <3>2
  <2> QED BY <2>2, <2>3
<1>3. Fresh(edges')
  <2> SUFFICES ASSUME NEW e \in DOMAIN edges' PROVE edges'[e] = Entry(edges'[e].observed)
    BY DEF Fresh
  <2> QED BY RecordType DEF Fresh
<1> QED BY <1>2, <1>3 DEF Counts

LEMMA InitIInv == Init => IInv
<1> SUFFICES ASSUME Init PROVE IInv
  OBVIOUS
<1>1. Counts(edges, 1, 0) /\ Fresh(edges)
  BY NothingCounted DEF Init
<1>2. MemoryInv /\ FileInv
  BY <1>1, NamesAssumption DEF Init, MemoryInv, FileInv, Readable
<1> QED BY <1>2, InitTypeInv DEF IInv

LEMMA StepIInv == IInv /\ [Next]_vars => IInv'
<1> SUFFICES ASSUME IInv, [Next]_vars PROVE IInv'
  OBVIOUS
<1>0. TypeInv'
  BY StepTypeInv DEF IInv
<1> DEFINE own == Readable(file) /\ file.campaign = campaign
<1>a. /\ trial \in Nat /\ Trials \in Nat /\ campaign \in Nat
      /\ pc # "idle" => place \in DOMAIN Targets /\ place \in Nat /\ trial \in 1 .. Trials
      /\ Readable(file) => file.campaign \in 1 .. campaign
  BY TrialsAssumption, TargetsType DEF IInv, TypeInv, TypeOK, Placed
<1>1. CASE Start
  <2>1. MemoryInv'
    BY <1>1, NothingCounted DEF Start, MemoryInv, Held
  <2>2. Readable(file) => file.campaign # campaign'
    BY <1>a, <1>1 DEF Start
  <2>3. FileInv'
    BY <1>1, <2>2 DEF IInv, Start, FileInv, Readable
  <2> QED BY <1>0, <2>1, <2>3 DEF IInv
<1>2. CASE Inject \/ FetchFails \/ Measure
  <2>1. /\ UNCHANGED <<file, campaign, place, trial, edges, broken>>
        /\ pc \in {"inject", "fetch"} /\ pc' \in {"fetch", "record"}
    BY <1>2 DEF Inject, FetchFails, Measure
  <2>2. MemoryInv' /\ FileInv'
    BY <2>1 DEF IInv, MemoryInv, FileInv, Held, Stored, Readable
  <2> QED BY <1>0, <2>2 DEF IInv
<1>3. CASE Record
  <2>1. Counts(edges, place, trial - 1) /\ Fresh(edges)
    BY <1>3 DEF IInv, MemoryInv, Held, Record
  <2>2. Counts(edges', place, trial) /\ Fresh(edges')
    BY <1>3, <2>1, RecordCounts DEF IInv
  <2>3. MemoryInv'
    BY <1>3, <2>2 DEF Record, MemoryInv, Held
  <2>4. FileInv'
    BY <1>3 DEF IInv, Record, FileInv, Stored, Readable
  <2> QED BY <1>0, <2>3, <2>4 DEF IInv
<1>4. CASE SaveBegins
  <2>1. MemoryInv'
    BY <1>4 DEF IInv, SaveBegins, MemoryInv, Held
  <2>2. ~Readable(file') /\ file' = Torn /\ pc' \in {"saving", "finishing"}
    BY <1>4 DEF SaveBegins, Readable
  <2>3. FileInv'
    BY <2>2 DEF FileInv
  <2> QED BY <1>0, <2>1, <2>3 DEF IInv
<1>5. CASE SaveEnds \/ Finish
  <2>1. /\ Readable(file') /\ file'.campaign = campaign /\ file'.edges = edges
        /\ file' # Torn
    BY <1>5, FileRecord DEF IInv, SaveEnds, Finish, Readable
  <2>2. /\ Counts(edges, place, trial) /\ Fresh(edges) /\ pc' \in {"next", "done"}
        /\ UNCHANGED <<campaign, place, trial, edges>> /\ trial \in 0 .. Trials
        /\ place \in DOMAIN Targets
    BY <1>5, <1>a DEF IInv, MemoryInv, Held, SaveEnds, Finish
  <2>3. MemoryInv'
    BY <1>5, <2>2 DEF IInv, MemoryInv, Held, SaveEnds, Finish
  <2>4. Counts(file'.edges, place', Stored') /\ Fresh(file'.edges)
    BY <2>1, <2>2 DEF Stored
  <2>5. \E h \in DOMAIN Targets, n \in 0 .. Trials : Counts(file'.edges, h, n)
    BY <2>1, <2>2
  <2>6. FileInv'
    BY <2>1, <2>2, <2>4, <2>5 DEF FileInv
  <2> QED BY <1>0, <2>3, <2>6 DEF IInv
<1>6. CASE NextTrial
  <2>1. MemoryInv'
    BY <1>6, <1>a DEF IInv, NextTrial, MemoryInv, Held
  <2>2. own /\ Counts(file.edges, place, trial)
    BY <1>6 DEF IInv, NextTrial, FileInv, Stored
  <2>3. FileInv'
    BY <1>6, <1>a, <2>2 DEF IInv, NextTrial, FileInv, Stored, Readable
  <2> QED BY <1>0, <2>1, <2>3 DEF IInv
<1>7. CASE NextTarget
  <2>1. own /\ Counts(file.edges, place, Trials) /\ Counts(edges, place, Trials)
    BY <1>7 DEF IInv, NextTarget, MemoryInv, FileInv, Held, Stored
  <2>2. Counts(file.edges, place + 1, 0) /\ Counts(edges, place + 1, 0)
    BY <1>7, <1>a, <2>1, CountsMoveOn DEF NextTarget
  <2>3. place' = place + 1 /\ trial' - 1 = 0 /\ pc' = "inject"
    BY <1>7 DEF NextTarget
  <2>4. MemoryInv'
    BY <1>7, <2>2, <2>3 DEF IInv, NextTarget, MemoryInv, Held
  <2>5. FileInv'
    BY <1>7, <2>1, <2>2, <2>3 DEF IInv, NextTarget, FileInv, Stored, Readable
  <2> QED BY <1>0, <2>4, <2>5 DEF IInv
<1>8. CASE Finalize
  <2>1. edges' = edges
    BY <1>8, FinalizeType DEF IInv, MemoryInv, Fresh
  <2>2. MemoryInv'
    BY <1>8, <2>1 DEF IInv, Finalize, MemoryInv, Held
  <2>3. FileInv'
    BY <1>8, <2>1 DEF IInv, Finalize, FileInv, Stored, Readable
  <2> QED BY <1>0, <2>2, <2>3 DEF IInv
<1>9. CASE Die
  <2>1. /\ UNCHANGED <<file, campaign, place, trial, edges>> /\ pc # "idle" /\ pc' = "idle"
        /\ broken' = (broken \/ pc \in {"saving", "finishing"})
    BY <1>9 DEF Die
  <2>2. MemoryInv'
    BY <2>1 DEF IInv, MemoryInv
  <2>3. /\ Held \in 0 .. Trials /\ Stored \in 0 .. Trials
        /\ pc \notin {"saving", "finishing"} => Held \in {Stored, Stored + 1}
    BY <2>1, <1>a DEF Held, Stored
  <2>4. Counts(edges, place, Held)
    BY <2>1 DEF IInv, MemoryInv
  <2>5. own => Counts(file.edges, place, Stored)
    BY <2>1 DEF IInv, FileInv
  <2>6. own => \E s, n \in 0 .. Trials :
                 Counts(file.edges, place, s) /\ Counts(edges, place, n) /\ n \in {s, s + 1}
    BY <2>3, <2>4, <2>5 DEF IInv, FileInv, Readable
  <2>7. ~own => file = Torn \/ Counts(edges, 1, 0) \/ Counts(edges, 1, 1)
    BY <2>1, <2>4 DEF IInv, FileInv, Held
  <2>8. FileInv'
    BY <2>1, <2>6, <2>7 DEF IInv, FileInv, Readable
  <2> QED BY <1>0, <2>2, <2>8 DEF IInv
<1>10. CASE Again
  <2>1. /\ UNCHANGED <<file, campaign, place, trial, edges, broken>> /\ pc = "done"
        /\ pc' = "idle"
    BY <1>10 DEF Again
  <2>2. own /\ Counts(file.edges, place, trial) /\ Counts(edges, place, trial)
        /\ trial \in 0 .. Trials
    BY <2>1, <1>a DEF IInv, MemoryInv, FileInv, Held, Stored
  <2>3. MemoryInv'
    BY <2>1 DEF IInv, MemoryInv
  <2>4. \E s, n \in 0 .. Trials :
          Counts(file.edges, place, s) /\ Counts(edges, place, n) /\ n \in {s, s + 1}
    BY <2>2
  <2>5. FileInv'
    BY <2>1, <2>2, <2>4 DEF IInv, FileInv, Readable
  <2> QED BY <1>0, <2>3, <2>5 DEF IInv
<1>11. CASE UNCHANGED vars
  <2>1. MemoryInv' /\ FileInv'
    BY <1>11 DEF IInv, vars, MemoryInv, FileInv, Held, Stored, Readable
  <2> QED BY <1>0, <2>1 DEF IInv
<1> QED
  BY <1>1, <1>2, <1>3, <1>4, <1>5, <1>6, <1>7, <1>8, <1>9, <1>10, <1>11 DEF Next

LEMMA Inductive == Spec => []IInv
  BY InitIInv, StepIInv, PTL DEF Spec

\* Whichever campaign wrote it, and wherever that one died: a file that can be read holds
\* whole trials of the targets in their order, and a finished campaign's holds them all.
THEOREM FilesAreWholeTrials == Spec => []FileIsWholeTrials
<1>1. IInv => FileIsWholeTrials
  <2> SUFFICES ASSUME IInv, Readable(file) PROVE FileIsWholeTrials
    BY DEF FileIsWholeTrials
  <2> DEFINE m == file.edges
  <2>1. PICK h \in DOMAIN Targets, n \in 0 .. Trials : Counts(m, h, n)
    BY DEF IInv, FileInv
  <2>2. Fresh(m)
    BY DEF IInv, FileInv
  <2>3. pc = "done" => Counts(m, Len(Targets), Trials)
    BY DEF IInv, FileInv, MemoryInv, Stored
  <2> HIDE DEF m
  <2>4. \A i \in DOMAIN Targets : \A e, f \in EdgesTo(Targets[i]) : Samples(m, e) = Samples(m, f)
    BY <2>1 DEF Counts
  <2>5. ASSUME NEW i \in DOMAIN Targets, NEW j \in DOMAIN Targets, i < j,
               NEW e \in EdgesTo(Targets[i]), NEW f \in EdgesTo(Targets[j]), Samples(m, f) > 0
        PROVE  Samples(m, e) = Trials
    <3>1. j <= h
      BY <2>1, <2>5, TargetsType DEF Counts
    <3>2. i < h
      BY <2>5, <3>1, TargetsType
    <3> QED BY <2>1, <3>2 DEF Counts
  <2>6. ASSUME pc = "done", NEW e \in Calibrated PROVE Samples(m, e) = Trials
    <3>1. PICK i \in DOMAIN Targets : e \in EdgesTo(Targets[i])
      BY TargetsType
    <3>2. i <= Len(Targets)
      BY TargetsType
    <3> QED BY <2>3, <2>6, <3>1, <3>2, TargetsType DEF Counts
  <2> QED BY <2>2, <2>4, <2>5, <2>6 DEF FileIsWholeTrials, Fresh, m
<1> QED BY <1>1, Inductive, PTL

\* Wherever a campaign dies, a file of its own that can be read lacks at most one trial,
\* and one that cannot be read is one that a campaign died writing, with all its trials.
THEOREM ReadableFilesKeepUp == Spec => []ReadableFileKeepsUp
<1>1. IInv => ReadableFileKeepsUp
  <2> SUFFICES ASSUME IInv PROVE ReadableFileKeepsUp
    OBVIOUS
  <2> DEFINE own == Readable(file) /\ file.campaign = campaign
  <2>0. IsMap(edges) /\ place \in 0 .. Len(Targets)
        /\ (pc # "idle" => place \in DOMAIN Targets /\ trial \in 1 .. Trials)
        /\ (own => place \in DOMAIN Targets)
        /\ Trials \in Nat
    BY TrialsAssumption DEF IInv, TypeInv, TypeOK, Placed
  <2>1. file = Torn => broken \/ pc \in {"saving", "finishing"}
    BY DEF IInv, FileInv
  <2>2. ASSUME file = Absent \/ (Readable(file) /\ file.campaign # campaign),
               NEW e \in DOMAIN edges
        PROVE  Samples(edges, e) <= 1 /\ e[2] = Targets[1]
    <3>1. Counts(edges, 1, 0) \/ Counts(edges, 1, 1)
      BY <2>2, NamesAssumption DEF IInv, FileInv, MemoryInv, Held, Readable
    <3>2. PICK i \in DOMAIN Targets : e \in EdgesTo(Targets[i]) /\ e[2] = Targets[i]
      BY <2>0, CountedEdge
    <3>3. Samples(edges, e) \in Nat /\ Samples(edges, e) >= 1
      BY <2>0, CountedEdge
    <3>4. i = 1 /\ Samples(edges, e) <= 1
      BY <3>1, <3>2, <3>3, TargetsType DEF Counts
    <3> QED BY <3>2, <3>4
  <2>3. ASSUME own, NEW e \in DOMAIN edges
        PROVE  \/ Samples(edges, e) = Samples(file.edges, e)
               \/ /\ Samples(edges, e) = Samples(file.edges, e) + 1
                  /\ e[2] = Target
                  /\ pc \in {"save", "idle"}
    <3>1. PICK i \in DOMAIN Targets : e \in EdgesTo(Targets[i]) /\ e[2] = Targets[i]
      BY <2>0, CountedEdge
    <3>2. CASE pc = "idle"
      <4>1. PICK s \in 0 .. Trials, n \in 0 .. Trials :
              Counts(file.edges, place, s) /\ Counts(edges, place, n) /\ n \in {s, s + 1}
        BY <2>3, <3>2 DEF IInv, FileInv
      <4>2. CASE i = place
        <5>1. Samples(edges, e) = n /\ Samples(file.edges, e) = s
          BY <2>0, <3>1, <4>1, <4>2, TargetsType DEF Counts
        <5> QED BY <3>1, <3>2, <4>1, <4>2, <5>1 DEF Target
      <4>3. CASE i # place
        BY <3>1, <4>1, <4>3 DEF Counts
      <4> QED BY <4>2, <4>3
    <3>3. CASE pc # "idle"
      <4>1. Counts(file.edges, place, Stored) /\ Counts(edges, place, Held)
        BY <2>3, <3>3 DEF IInv, FileInv, MemoryInv
      <4>2. CASE i = place
        <5>1. Samples(edges, e) = Held /\ Samples(file.edges, e) = Stored
          BY <2>0, <3>1, <4>1, <4>2, TargetsType DEF Counts
        <5>2. Held = Stored \/ (Held = Stored + 1 /\ pc = "save")
          BY <2>0, <3>3 DEF Held, Stored
        <5> QED BY <3>1, <4>2, <5>1, <5>2 DEF Target
      <4>3. CASE i # place
        BY <3>1, <4>1, <4>3 DEF Counts
      <4> QED BY <4>2, <4>3
    <3> QED BY <3>2, <3>3
  <2> QED BY <2>1, <2>2, <2>3 DEF ReadableFileKeepsUp
<1> QED BY <1>1, Inductive, PTL

-----------------------------------------------------------------------------
(* Medians of what was recorded and of what was observed *)

\* No more entries of the first list than of the second are above any bound, and it is no
\* shorter: it is the second with small entries put in.
Narrower(all, some) ==
  /\ Len(some) <= Len(all)
  /\ \A x \in Nat :
       Len(all) - Cardinality(UpTo(all, x)) <= Len(some) - Cardinality(UpTo(some, x))

LEMMA CountAppended ==
  ASSUME NEW q \in Seq(Nat), NEW d \in Nat, NEW x \in Nat
  PROVE  Cardinality(UpTo(Append(q, d), x)) =
           Cardinality(UpTo(q, x)) + (IF d <= x THEN 1 ELSE 0)
<1>1. /\ Len(q) \in Nat /\ DOMAIN q = 1 .. Len(q)
      /\ DOMAIN Append(q, d) = 1 .. Len(q) + 1
      /\ \A i \in 1 .. Len(q) : Append(q, d)[i] = q[i]
      /\ Append(q, d)[Len(q) + 1] = d
  OBVIOUS
<1>2. IsFiniteSet(UpTo(q, x)) /\ Cardinality(UpTo(q, x)) \in Nat
  BY EntriesFacts
<1>3. CASE d <= x
  <2>1. UpTo(Append(q, d), x) = UpTo(q, x) \cup {Len(q) + 1}
    BY <1>1, <1>3 DEF UpTo
  <2>2. Len(q) + 1 \notin UpTo(q, x)
    BY <1>1 DEF UpTo
  <2> QED BY <1>2, <1>3, <2>1, <2>2, FS_AddElement
<1>4. CASE ~(d <= x)
  <2>1. UpTo(Append(q, d), x) = UpTo(q, x)
    BY <1>1, <1>4 DEF UpTo
  <2> QED BY <1>2, <1>4, <2>1
<1> QED BY <1>3, <1>4

\* A delay that was observed goes into both lists, one that was not as a zero into one.
LEMMA NarrowerAppended ==
  ASSUME NEW all \in Seq(Nat), NEW some \in Seq(Nat), Narrower(all, some), NEW d \in Nat
  PROVE  /\ Narrower(Append(all, d), Append(some, d))
         /\ Narrower(Append(all, 0), some)
<1>1. /\ Len(all) \in Nat /\ Len(some) \in Nat
      /\ Len(Append(all, d)) = Len(all) + 1 /\ Len(Append(all, 0)) = Len(all) + 1
      /\ Len(Append(some, d)) = Len(some) + 1
  OBVIOUS
<1>2. ASSUME NEW x \in Nat
      PROVE  /\ Len(Append(all, d)) - Cardinality(UpTo(Append(all, d), x))
                  <= Len(Append(some, d)) - Cardinality(UpTo(Append(some, d), x))
             /\ Len(Append(all, 0)) - Cardinality(UpTo(Append(all, 0), x))
                  <= Len(some) - Cardinality(UpTo(some, x))
  <2>1. /\ Cardinality(UpTo(all, x)) \in Nat /\ Cardinality(UpTo(some, x)) \in Nat
        /\ Len(all) - Cardinality(UpTo(all, x)) <= Len(some) - Cardinality(UpTo(some, x))
    BY EntriesFacts DEF Narrower
  <2>2. /\ Cardinality(UpTo(Append(all, d), x)) =
             Cardinality(UpTo(all, x)) + (IF d <= x THEN 1 ELSE 0)
        /\ Cardinality(UpTo(Append(some, d), x)) =
             Cardinality(UpTo(some, x)) + (IF d <= x THEN 1 ELSE 0)
        /\ Cardinality(UpTo(Append(all, 0), x)) = Cardinality(UpTo(all, x)) + 1
    BY CountAppended
  <2> QED BY <1>1, <2>1, <2>2
<1> QED BY <1>1, <1>2 DEF Narrower

\* Of the longer list, the j-th entry is no larger than the k-th of the other, if no
\* fewer come after it.
LEMMA NarrowSmallest ==
  ASSUME NEW all \in Seq(Nat), NEW some \in Seq(Nat), Narrower(all, some),
         NEW j \in 1 .. Len(all), NEW k \in 1 .. Len(some), Len(some) - k <= Len(all) - j
  PROVE  Smallest(all, j) <= Smallest(some, k)
<1> DEFINE x == Smallest(some, k)
           y == Smallest(all, j)
<1>1. /\ x \in Nat /\ k <= Cardinality(UpTo(some, x))
      /\ y \in Nat /\ Cardinality(Below(all, y)) < j
  BY SmallestIs
<1> HIDE DEF x, y
<1>2. Len(all) - Cardinality(UpTo(all, x)) <= Len(some) - Cardinality(UpTo(some, x))
  BY <1>1 DEF Narrower
<1>3. /\ Cardinality(UpTo(all, x)) \in Nat /\ Cardinality(UpTo(some, x)) \in Nat
      /\ IsFiniteSet(Below(all, y)) /\ Cardinality(Below(all, y)) \in Nat
      /\ Len(all) \in Nat /\ Len(some) \in Nat
  BY EntriesFacts
<1>4. j <= Cardinality(UpTo(all, x))
  BY <1>1, <1>2, <1>3
<1>5. ASSUME y > x PROVE FALSE
  <2>1. UpTo(all, x) \subseteq Below(all, y)
    <3>1. \A i \in DOMAIN all : all[i] \in Nat
      BY EntriesFacts
    <3> QED BY <1>1, <1>5, <3>1 DEF UpTo, Below
  <2>2. Cardinality(UpTo(all, x)) <= Cardinality(Below(all, y))
    BY <1>3, <2>1, FS_Subset
  <2> QED BY <1>1, <1>3, <1>4, <2>2
<1>6. y <= x
  BY <1>1, <1>5
<1> QED BY <1>6 DEF x, y

\* A threshold is at least a second, and grows with the median.
LEMMA ThresholdGrows ==
  ASSUME NEW a \in Nat, NEW b \in Nat, a <= b
  PROVE  /\ Threshold(a) \in Nat /\ Threshold(b) \in Nat
         /\ 4 <= Threshold(a) /\ Threshold(a) <= Threshold(b)
         /\ Threshold(0) = 4
<1>1. \A m \in Nat : Max({4, m}) = IF m >= 4 THEN m ELSE 4
  <2> SUFFICES ASSUME NEW m \in Nat PROVE Max({4, m}) = IF m >= 4 THEN m ELSE 4
    OBVIOUS
  <2>1. \E x \in {4, m} : \A y \in {4, m} : x >= y
    OBVIOUS
  <2>2. Max({4, m}) \in {4, m} /\ \A y \in {4, m} : Max({4, m}) >= y
    BY <2>1 DEF Max
  <2> QED BY <2>2
<1> QED BY <1>1 DEF Threshold

LEMMA MedianType ==
  ASSUME NEW q \in Seq(Nat), q # <<>>
  PROVE  /\ (Len(q) + 1) \div 2 \in 1 .. Len(q) /\ Len(q) \div 2 + 1 \in 1 .. Len(q)
         /\ Median(q) \in Nat
<1>1. (Len(q) + 1) \div 2 \in 1 .. Len(q) /\ Len(q) \div 2 + 1 \in 1 .. Len(q)
  <2>1. Len(q) \in Nat /\ Len(q) >= 1
    OBVIOUS
  <2> QED BY <2>1
<1>2. Smallest(q, (Len(q) + 1) \div 2) \in Nat /\ Smallest(q, Len(q) \div 2 + 1) \in Nat
  BY <1>1, SmallestIs
<1> QED BY <1>1, <1>2 DEF Median

LEMMA NarrowMedian ==
  ASSUME NEW all \in Seq(Nat), NEW some \in Seq(Nat), all # <<>>, some # <<>>,
         Narrower(all, some)
  PROVE  Median(all) <= Median(some)
<1> DEFINE j1 == (Len(all) + 1) \div 2
           j2 == Len(all) \div 2 + 1
           k1 == (Len(some) + 1) \div 2
           k2 == Len(some) \div 2 + 1
<1>1. j1 \in 1 .. Len(all) /\ j2 \in 1 .. Len(all) /\ k1 \in 1 .. Len(some) /\ k2 \in 1 .. Len(some)
  BY MedianType
<1>2. Len(some) - k1 <= Len(all) - j1 /\ Len(some) - k2 <= Len(all) - j2
  <2>1. Len(some) \in Nat /\ Len(all) \in Nat /\ Len(some) <= Len(all)
    BY DEF Narrower
  <2> QED BY <2>1
<1> HIDE DEF j1, j2, k1, k2
<1>3. Smallest(all, j1) <= Smallest(some, k1) /\ Smallest(all, j2) <= Smallest(some, k2)
  BY <1>1, <1>2, NarrowSmallest
<1>4. /\ Smallest(all, j1) \in Nat /\ Smallest(some, k1) \in Nat
      /\ Smallest(all, j2) \in Nat /\ Smallest(some, k2) \in Nat
  BY <1>1, SmallestIs
<1> QED BY <1>3, <1>4 DEF Median, j1, j2, k1, k2

\* Where nothing was observed, only zeros were recorded.
LEMMA ZeroMedian ==
  ASSUME NEW all \in Seq(Nat), all # <<>>, Narrower(all, <<>>)
  PROVE  Median(all) = 0
<1>1. ASSUME NEW j \in 1 .. Len(all) PROVE Smallest(all, j) = 0
  <2> DEFINE y == Smallest(all, j)
  <2>1. y \in Nat /\ Cardinality(Below(all, y)) < j
    BY SmallestIs
  <2> HIDE DEF y
  <2>2. /\ Cardinality(UpTo(all, 0)) \in Nat /\ Len(all) \in Nat
        /\ IsFiniteSet(Below(all, y)) /\ Cardinality(Below(all, y)) \in Nat
    BY EntriesFacts
  <2>3. Cardinality(UpTo(<<>>, 0)) = 0 /\ Len(<<>>) = 0
    <3>1. UpTo(<<>>, 0) = {}
      BY DEF UpTo
    <3> QED BY <3>1, FS_EmptySet
  <2>4. Len(all) <= Cardinality(UpTo(all, 0))
    <3>1. Len(all) - Cardinality(UpTo(all, 0)) <= Len(<<>>) - Cardinality(UpTo(<<>>, 0))
      BY 0 \in Nat DEF Narrower
    <3>2. Len(all) - Cardinality(UpTo(all, 0)) <= 0
      BY <2>3, <3>1
    <3> QED BY <2>2, <3>2
  <2>5. ASSUME y > 0 PROVE FALSE
    <3>1. UpTo(all, 0) \subseteq Below(all, y)
      <4>1. \A i \in DOMAIN all : all[i] \in Nat
        BY EntriesFacts
      <4> QED BY <2>1, <2>5, <4>1 DEF UpTo, Below
    <3>2. Cardinality(UpTo(all, 0)) <= Cardinality(Below(all, y))
      BY <2>2, <3>1, FS_Subset
    <3> QED BY <2>1, <2>2, <2>4, <3>2
  <2>6. y = 0
    BY <2>1, <2>5
  <2> QED BY <2>6 DEF y
<1>2. (Len(all) + 1) \div 2 \in 1 .. Len(all) /\ Len(all) \div 2 + 1 \in 1 .. Len(all)
  BY MedianType
<1>3. Smallest(all, (Len(all) + 1) \div 2) = 0 /\ Smallest(all, Len(all) \div 2 + 1) = 0
  BY <1>1, <1>2
<1> QED BY <1>3 DEF Median

-----------------------------------------------------------------------------
(* Sums *)

\* A nonempty family of subsets of a finite set has one that contains no other.
LEMMA Minimal ==
  ASSUME NEW S, IsFiniteSet(S), NEW F \in SUBSET SUBSET S, F # {}
  PROVE  \E T \in F : \A U \in F : ~(U \subseteq T /\ U # T)
<1>1. IsWellFoundedOn(StrictSubsetOrdering(S), SUBSET S)
  BY FS_StrictSubsetOrderingWellFounded, FS_FiniteSubsetsOfFinite
<1>2. PICK T \in F : \A U \in F : <<U, T>> \notin StrictSubsetOrdering(S)
  BY <1>1, WFMin
<1>3. ASSUME NEW U \in F, U \subseteq T, U # T PROVE FALSE
  <2>1. <<U, T>> \in StrictSubsetOrdering(S)
    BY <1>3 DEF StrictSubsetOrdering
  <2> QED BY <1>2, <2>1
<1> QED BY <1>3

\* SumFunctionOnSet adds up an element of its choice and what is left.
SomeOf(s) == CHOOSE x \in s : TRUE
SumTo(fun, S, it) ==
  it = [s \in SUBSET S |-> IF s = {} THEN 0 ELSE fun[SomeOf(s)] + it[s \ {SomeOf(s)}]]

LEMMA SumToAt ==
  ASSUME NEW fun, NEW S, NEW it, SumTo(fun, S, it), NEW s \in SUBSET S
  PROVE  it[s] = IF s = {} THEN 0 ELSE fun[SomeOf(s)] + it[s \ {SomeOf(s)}]
BY DEF SumTo

LEMMA SumUnique ==
  ASSUME NEW fun, NEW T, NEW U, IsFiniteSet(T), NEW g, NEW h,
         SumTo(fun, T, g), SumTo(fun, U, h)
  PROVE  \A s \in SUBSET T : s \in SUBSET U => g[s] = h[s]
<1> DEFINE Bad == {s \in SUBSET T : s \in SUBSET U /\ g[s] # h[s]}
<1> SUFFICES ASSUME Bad # {} PROVE FALSE
  OBVIOUS
<1>1. PICK m \in Bad : \A u \in Bad : ~(u \subseteq m /\ u # m)
  <2>1. Bad \in SUBSET SUBSET T
    OBVIOUS
  <2> HIDE DEF Bad
  <2> QED BY <2>1, Minimal
<1>2. /\ g[m] = IF m = {} THEN 0 ELSE fun[SomeOf(m)] + g[m \ {SomeOf(m)}]
      /\ h[m] = IF m = {} THEN 0 ELSE fun[SomeOf(m)] + h[m \ {SomeOf(m)}]
  <2>1. m \in SUBSET T /\ m \in SUBSET U
    OBVIOUS
  <2> HIDE DEF Bad
  <2>2. g[m] = IF m = {} THEN 0 ELSE fun[SomeOf(m)] + g[m \ {SomeOf(m)}]
    BY <2>1, SumToAt
  <2>3. h[m] = IF m = {} THEN 0 ELSE fun[SomeOf(m)] + h[m \ {SomeOf(m)}]
    BY <2>1, SumToAt
  <2> QED BY <2>2, <2>3
<1>3. m # {}
  BY <1>2
<1>4. SomeOf(m) \in m
  BY <1>3 DEF SomeOf
<1>5. m \ {SomeOf(m)} \notin Bad
  BY <1>1, <1>4
<1>6. g[m \ {SomeOf(m)}] = h[m \ {SomeOf(m)}]
  BY <1>5
<1> QED BY <1>2, <1>6

\* The recursion is well defined, on every finite set.
LEMMA SumExists ==
  ASSUME NEW fun, NEW S, IsFiniteSet(S)
  PROVE  \A T \in SUBSET S : \E g : SumTo(fun, T, g)
<1> DEFINE Bad == {T \in SUBSET S : ~\E g : SumTo(fun, T, g)}
<1> SUFFICES ASSUME Bad # {} PROVE FALSE
  OBVIOUS
<1>1. PICK T \in Bad : \A U \in Bad : ~(U \subseteq T /\ U # T)
  <2>1. Bad \in SUBSET SUBSET S
    OBVIOUS
  <2> HIDE DEF Bad
  <2> QED BY <2>1, Minimal
<1> DEFINE G(s) == CHOOSE g : SumTo(fun, s, g)
           x == SomeOf(T)
           h == [s \in SUBSET T |->
                   IF s = T THEN IF T = {} THEN 0 ELSE fun[x] + G(T \ {x})[T \ {x}]
                   ELSE G(s)[s]]
<1>2. ASSUME NEW s \in SUBSET T, s # T PROVE SumTo(fun, s, G(s))
  <2>1. s \notin Bad
    BY <1>1, <1>2
  <2>2. \E g : SumTo(fun, s, g)
    BY <1>1, <1>2, <2>1
  <2> QED BY <2>2
<1>3. ASSUME NEW s \in SUBSET T
      PROVE  h[s] = IF s = {} THEN 0 ELSE fun[SomeOf(s)] + h[s \ {SomeOf(s)}]
  <2>1. s # {} => SomeOf(s) \in s
    BY DEF SomeOf
  <2>2. CASE s = T
    <3>1. CASE T = {}
      BY <2>2, <3>1
    <3>2. CASE T # {}
      <4>1. T \ {x} # T /\ T \ {x} \in SUBSET T
        BY <2>1, <2>2, <3>2
      <4>2. h[T \ {x}] = G(T \ {x})[T \ {x}]
        BY <4>1
      <4>3. h[T] = fun[x] + G(T \ {x})[T \ {x}]
        BY <3>2
      <4> QED BY <2>2, <3>2, <4>2, <4>3
    <3> QED BY <3>1, <3>2
  <2>3. CASE s # T
    <3> DEFINE y == SomeOf(s)
    <3>1. h[s] = G(s)[s]
      BY <2>3
    <3>2. SumTo(fun, s, G(s))
      BY <1>2, <2>3
    <3>3. G(s)[s] = IF s = {} THEN 0 ELSE fun[y] + G(s)[s \ {y}]
      <4> HIDE DEF G
      <4> QED BY <3>2, SumToAt
    <3>4. ASSUME s # {} PROVE h[s \ {y}] = G(s)[s \ {y}]
      <4>1. s \ {y} \in SUBSET T /\ s \ {y} # T /\ s \ {y} \in SUBSET s
        BY <2>1, <2>3, <3>4
      <4>2. h[s \ {y}] = G(s \ {y})[s \ {y}]
        BY <4>1
      <4>3. SumTo(fun, s \ {y}, G(s \ {y}))
        BY <1>2, <4>1
      <4>4. IsFiniteSet(s)
        BY <1>1, FS_Subset
      <4>5. G(s)[s \ {y}] = G(s \ {y})[s \ {y}]
        <5> HIDE DEF G, y
        <5> QED BY <3>2, <4>1, <4>3, <4>4, SumUnique
      <4> QED BY <4>2, <4>5
    <3> HIDE DEF G, h
    <3> QED BY <3>1, <3>3, <3>4
  <2> QED BY <2>2, <2>3
<1>4. SumTo(fun, T, h)
  <2>1. h = [s \in SUBSET T |-> h[s]]
    OBVIOUS
  <2> HIDE DEF h
  <2> QED BY <1>3, <2>1 DEF SumTo
<1> QED BY <1>1, <1>4

LEMMA SumStep ==
  ASSUME NEW fun, NEW S, IsFiniteSet(S)
  PROVE  SumFunctionOnSet(fun, S) =
           IF S = {} THEN 0 ELSE fun[SomeOf(S)] + SumFunctionOnSet(fun, S \ {SomeOf(S)})
<1> DEFINE G(s) == CHOOSE g : SumTo(fun, s, g)
           y == SomeOf(S)
<1>1. \A s : SumFunctionOnSet(fun, s) = G(s)[s]
  BY DEF SumFunctionOnSet, FoldFunctionOnSet, MapThenFoldSet, SumTo, SomeOf
<1>2. SumTo(fun, S, G(S)) /\ SumTo(fun, S \ {y}, G(S \ {y}))
  BY SumExists
<1> HIDE DEF G
<1>3. PICK g, h : g = G(S) /\ h = G(S \ {y})
  OBVIOUS
<1>4. SumTo(fun, S, g) /\ SumTo(fun, S \ {y}, h)
  BY <1>2, <1>3
<1>5. g[S] = IF S = {} THEN 0 ELSE fun[SomeOf(S)] + g[S \ {SomeOf(S)}]
  <2>1. S \in SUBSET S
    OBVIOUS
  <2> QED BY <1>4, <2>1, SumToAt
<1>6. g[S \ {y}] = h[S \ {y}]
  <2> HIDE DEF y
  <2>1. S \ {y} \in SUBSET S /\ S \ {y} \in SUBSET (S \ {y})
    OBVIOUS
  <2>2. \A s \in SUBSET S : s \in SUBSET (S \ {y}) => g[s] = h[s]
    BY <1>4, SumUnique
  <2> QED BY <2>1, <2>2
<1> QED BY <1>1, <1>3, <1>5, <1>6

\* Sums grow with their terms.
LEMMA SumGrows ==
  ASSUME NEW f, NEW g, NEW S, IsFiniteSet(S), NEW c \in Nat,
         \A x \in S : f[x] \in Int /\ g[x] \in Int /\ f[x] <= g[x] /\ c <= f[x]
  PROVE  /\ SumFunctionOnSet(f, S) \in Int /\ SumFunctionOnSet(g, S) \in Int
         /\ SumFunctionOnSet(f, S) <= SumFunctionOnSet(g, S)
         /\ c * Cardinality(S) <= SumFunctionOnSet(f, S)
<1> DEFINE F(s) == SumFunctionOnSet(f, s)
           G(s) == SumFunctionOnSet(g, s)
           Good(s) == /\ F(s) \in Int /\ G(s) \in Int /\ F(s) <= G(s)
                      /\ c * Cardinality(s) <= F(s)
           Bad == {s \in SUBSET S : ~Good(s)}
<1>1. SUFFICES ASSUME Bad # {} PROVE FALSE
  <2>1. S \in SUBSET S
    OBVIOUS
  <2>2. Bad = {} => Good(S)
    <3> HIDE DEF Good
    <3> QED BY <2>1
  <2> QED BY <2>2
<1>2. PICK m \in Bad : \A u \in Bad : ~(u \subseteq m /\ u # m)
  <2>1. Bad \in SUBSET SUBSET S
    OBVIOUS
  <2> HIDE DEF Bad
  <2> QED BY <1>1, <2>1, Minimal
<1>3. IsFiniteSet(m) /\ Cardinality(m) \in Nat /\ m \in SUBSET S
  BY FS_Subset, FS_CardinalityType
<1>4. m # {}
  <2>1. m = {} => F(m) = 0 /\ G(m) = 0 /\ Cardinality(m) = 0
    BY <1>3, SumStep, FS_EmptySet
  <2> QED BY <1>2, <2>1
<1> DEFINE y == SomeOf(m)
<1>5. y \in m
  BY <1>4 DEF SomeOf
<1>6. F(m) = f[y] + F(m \ {y}) /\ G(m) = g[y] + G(m \ {y})
  BY <1>3, <1>4, SumStep
<1> HIDE DEF y
<1>7. Cardinality(m) = Cardinality(m \ {y}) + 1 /\ Cardinality(m \ {y}) \in Nat
  <2>1. IsFiniteSet(m \ {y}) /\ Cardinality(m \ {y}) = Cardinality(m) - 1
    BY <1>3, <1>5, FS_RemoveElement
  <2>2. Cardinality(m \ {y}) \in Nat
    BY <2>1, FS_CardinalityType
  <2> QED BY <1>3, <2>1, <2>2
<1>8. Good(m \ {y})
  <2>1. m \ {y} \notin Bad
    <3> HIDE DEF Bad
    <3> QED BY <1>2, <1>5
  <2> QED BY <1>3, <2>1
<1>9. f[y] \in Int /\ g[y] \in Int /\ f[y] <= g[y] /\ c <= f[y]
  BY <1>3, <1>5
<1>10. c * Cardinality(m) = c + c * Cardinality(m \ {y})
  BY <1>7
<1> HIDE DEF F, G
<1>11. Good(m)
  <2>1. PICK k \in Int : k = c * Cardinality(m \ {y})
    BY <1>7
  <2>2. F(m) \in Int /\ G(m) \in Int
    BY <1>6, <1>8, <1>9
  <2>3. F(m) <= G(m)
    BY <1>6, <1>8, <1>9
  <2>4. c * Cardinality(m) <= F(m)
    BY <1>6, <1>8, <1>9, <1>10, <2>1
  <2> QED BY <2>2, <2>3, <2>4
<1> QED BY <1>2, <1>11

-----------------------------------------------------------------------------
(* Paths and their windows *)

LEMMA Least ==
  ASSUME NEW S, S \subseteq Nat, S # {}
  PROVE  \E x \in S : \A y \in S : x <= y
<1>1. PICK x \in S : \A y \in S : ~(<<y, x>> \in OpToRel(<, Nat))
  BY NatLessThanWellFounded, WFMin
<1>2. \A y \in S : ~(y < x)
  BY <1>1 DEF OpToRel
<1>3. \A y \in S : x <= y
  BY <1>2
<1> QED BY <1>3

LEMMA MinIs ==
  ASSUME NEW S, S \subseteq Nat, S # {}
  PROVE  Min(S) \in S /\ \A y \in S : Min(S) <= y
BY Least DEF Min

LEMMA WalkType ==
  ASSUME NEW w \in Walks
  PROVE  /\ Len(w) \in Nat /\ 2 <= Len(w) /\ Len(w) <= Cardinality(Services)
         /\ w \in [1 .. Len(w) -> Services]
         /\ \A i \in 1 .. Len(w) - 1 : w[i + 1] \in Graph[w[i]]
<1>1. PICK n \in 2 .. Cardinality(Services) : w \in [1 .. n -> Services]
  BY DEF Walks
<1>2. n \in Nat /\ 2 <= n /\ n <= Cardinality(Services)
  BY GraphAssumption, FS_CardinalityType
<1>3. w \in Seq(Services) /\ Len(w) = n
  BY <1>1, <1>2
<1>4. ASSUME NEW i \in 1 .. Len(w) - 1 PROVE w[i + 1] \in Graph[w[i]]
  <2>1. <<w[i], w[i + 1]>> \in EdgesOf(w)
    BY DEF EdgesOf
  <2>2. \A e \in EdgesOf(w) : e[2] \in Graph[e[1]]
    BY DEF Walks
  <2> QED BY <2>1, <2>2
<1> QED BY <1>1, <1>2, <1>3, <1>4

\* The path that is found is a walk, and no walk that counts is shorter.
LEMMA FindPathIs ==
  ASSUME NEW st \in Linked
  PROVE  /\ FindPath[st] \in Walks
         /\ <<FindPath[st][1], FindPath[st][Len(FindPath[st])]>> = st
         /\ \A x \in Walks : <<x[1], x[Len(x)]>> = st => Len(FindPath[st]) <= Len(x)
<1> DEFINE found == {w \in Walks : <<w[1], w[Len(w)]>> = st}
           lens  == {Len(w) : w \in found}
<1>1. found # {}
  BY DEF Linked
<1>2. lens \subseteq Nat
  BY WalkType
<1>3. lens # {}
  BY <1>1
<1>4. PICK n \in lens : \A k \in lens : n <= k
  <2> HIDE DEF lens
  <2> QED BY <1>2, <1>3, Least
<1>5. PICK w \in found : Len(w) = n
  BY <1>4
<1>6. \A x \in found : Len(w) <= Len(x)
  BY <1>4, <1>5
<1>7. FindPath[st] = CHOOSE v \in found : \A x \in found : Len(v) <= Len(x)
  BY DEF FindPath
<1>8. FindPath[st] \in found /\ \A x \in found : Len(FindPath[st]) <= Len(x)
  <2> HIDE DEF found
  <2> QED BY <1>5, <1>6, <1>7
<1> QED BY <1>8

\* A map of which each threshold is no larger than that of another, and is at least a
\* second.
Under(m, n) ==
  \A e : /\ EdgeThreshold(m, e) \in Nat /\ EdgeThreshold(n, e) \in Nat
         /\ 4 <= EdgeThreshold(m, e) /\ EdgeThreshold(m, e) <= EdgeThreshold(n, e)

LEMMA PathSumGrows ==
  ASSUME NEW m, NEW n, Under(m, n), NEW st \in Linked
  PROVE  /\ PathSum(m, st) \in Nat /\ PathSum(n, st) \in Nat
         /\ PathSum(m, st) <= PathSum(n, st)
         /\ 4 * (Len(FindPath[st]) - 1) <= PathSum(m, st)
<1> DEFINE w == FindPath[st]
           S == 1 .. Len(w) - 1
           f == Thresholds(m, w)
           g == Thresholds(n, w)
           c == 4
<1>1. Len(w) \in Nat /\ 2 <= Len(w)
  BY FindPathIs, WalkType
<1> HIDE DEF w
<1>2. IsFiniteSet(S) /\ Cardinality(S) = Len(w) - 1
  <2>1. 1 \in Int /\ Len(w) - 1 \in Int
    BY <1>1
  <2>2. /\ IsFiniteSet(S)
        /\ Cardinality(S) = IF 1 > Len(w) - 1 THEN 0 ELSE (Len(w) - 1) - 1 + 1
    BY <2>1, FS_Interval
  <2> QED BY <1>1, <2>2
<1>3. /\ DOMAIN f = S /\ DOMAIN g = S
      /\ \A i \in S : /\ f[i] = EdgeThreshold(m, <<w[i], w[i + 1]>>)
                      /\ g[i] = EdgeThreshold(n, <<w[i], w[i + 1]>>)
  BY DEF Thresholds
<1>4. \A i \in S : f[i] \in Int /\ g[i] \in Int /\ f[i] <= g[i] /\ c <= f[i]
  <2> HIDE DEF S, f, g
  <2> SUFFICES ASSUME NEW i \in S
               PROVE  f[i] \in Int /\ g[i] \in Int /\ f[i] <= g[i] /\ c <= f[i]
    OBVIOUS
  <2> DEFINE e == <<w[i], w[i + 1]>>
  <2>1. f[i] = EdgeThreshold(m, e) /\ g[i] = EdgeThreshold(n, e)
    BY <1>3
  <2> HIDE DEF e
  <2>2. /\ EdgeThreshold(m, e) \in Nat /\ EdgeThreshold(n, e) \in Nat
        /\ 4 <= EdgeThreshold(m, e) /\ EdgeThreshold(m, e) <= EdgeThreshold(n, e)
    BY DEF Under
  <2> QED BY <2>1, <2>2
<1>5. PathSum(m, st) = SumFunctionOnSet(f, S) /\ PathSum(n, st) = SumFunctionOnSet(g, S)
  BY <1>3 DEF PathSum, SumFunction, w, SumFunctionOnSet
<1> HIDE DEF S, f, g, c
<1>6. c \in Nat
  BY DEF c
<1>7. /\ SumFunctionOnSet(f, S) \in Int /\ SumFunctionOnSet(g, S) \in Int
      /\ SumFunctionOnSet(f, S) <= SumFunctionOnSet(g, S)
      /\ c * Cardinality(S) <= SumFunctionOnSet(f, S)
  BY <1>2, <1>4, <1>6, SumGrows
<1>8. 4 * (Len(w) - 1) \in Nat /\ 4 * (Len(w) - 1) <= SumFunctionOnSet(f, S)
  BY <1>1, <1>2, <1>7 DEF c
<1> QED BY <1>5, <1>7, <1>8 DEF w

\* The window of a path is the smaller sum of its two directions.
LEMMA WindowIs ==
  ASSUME NEW m, NEW n, Under(m, n), NEW s, NEW t
  PROVE  /\ PathThreshold(m, s, t) \in Nat /\ PathThreshold(n, s, t) \in Nat
         /\ PathThreshold(m, s, t) <= PathThreshold(n, s, t)
         /\ s # t /\ <<s, t>> \in Linked /\ <<t, s>> \notin Linked =>
              4 * (Len(FindPath[<<s, t>>]) - 1) <= PathThreshold(m, s, t)
<1> DEFINE ways == {<<s, t>>, <<t, s>>} \cap Linked
           sums(x) == {PathSum(x, st) : st \in ways}
<1>1. \A x : PathThreshold(x, s, t) =
               IF s = t \/ ways = {} THEN DefaultThreshold ELSE Min(sums(x))
  BY DEF PathThreshold
<1>2. CASE s = t \/ ways = {}
  <2>1. PathThreshold(m, s, t) = DefaultThreshold /\ PathThreshold(n, s, t) = DefaultThreshold
    BY <1>1, <1>2
  <2>2. DefaultThreshold \in Nat
    BY DEF DefaultThreshold
  <2>3. s # t => <<s, t>> \notin Linked
    BY <1>2
  <2> QED BY <2>1, <2>2, <2>3
<1>3. CASE ~(s = t \/ ways = {})
  <2>1. ways \subseteq Linked /\ ways # {}
    BY <1>3
  <2>2. \A st \in ways : /\ PathSum(m, st) \in Nat /\ PathSum(n, st) \in Nat
                         /\ PathSum(m, st) <= PathSum(n, st)
                         /\ 4 * (Len(FindPath[st]) - 1) <= PathSum(m, st)
    BY <2>1, PathSumGrows
  <2>3. <<s, t>> \in Linked /\ <<t, s>> \notin Linked => ways = {<<s, t>>}
    OBVIOUS
  <2>4. PathThreshold(m, s, t) = Min(sums(m)) /\ PathThreshold(n, s, t) = Min(sums(n))
    BY <1>1, <1>3
  <2> HIDE DEF ways
  <2>5. sums(m) \subseteq Nat /\ sums(m) # {} /\ sums(n) \subseteq Nat /\ sums(n) # {}
    BY <2>1, <2>2
  <2>6. PICK st \in ways : Min(sums(n)) = PathSum(n, st)
    <3>1. Min(sums(n)) \in sums(n)
      <4> HIDE DEF sums
      <4> QED BY <2>5, MinIs
    <3> QED BY <3>1
  <2>7. \A x \in sums(m) : Min(sums(m)) <= x
    <3> HIDE DEF sums
    <3> QED BY <2>5, MinIs
  <2>8. PICK ts \in ways : Min(sums(m)) = PathSum(m, ts)
    <3>1. Min(sums(m)) \in sums(m)
      <4> HIDE DEF sums
      <4> QED BY <2>5, MinIs
    <3> QED BY <3>1
  <2>9. Min(sums(m)) <= PathSum(m, st)
    BY <2>7
  <2> HIDE DEF sums
  <2>10. /\ Min(sums(m)) \in Nat /\ Min(sums(n)) \in Nat
         /\ PathSum(m, st) \in Nat /\ PathSum(m, st) <= Min(sums(n))
    BY <2>2, <2>6, <2>8
  <2>11. ASSUME <<s, t>> \in Linked, <<t, s>> \notin Linked
         PROVE  4 * (Len(FindPath[<<s, t>>]) - 1) <= Min(sums(m))
    BY <2>2, <2>3, <2>8, <2>11
  <2>12. Min(sums(m)) <= Min(sums(n))
    BY <2>9, <2>10
  <2> QED BY <2>4, <2>10, <2>11, <2>12
<1> QED BY <1>2, <1>3

-----------------------------------------------------------------------------
(* What was not observed narrows *)

\* Of each edge the map in memory holds what was observed, with zeros put in.
NarrowInv ==
  \A e \in Calibrated :
    IF e \in DOMAIN edges THEN Narrower(edges[e].observed, observed[e])
    ELSE observed[e] = <<>>

LEMMA NarrowerEmpty == Narrower(<<>>, <<>>)
<1>1. <<>> \in Seq(Nat)
  OBVIOUS
<1>2. Len(<<>>) \in Nat
  OBVIOUS
<1>3. \A x : Cardinality(UpTo(<<>>, x)) \in Nat
  BY <1>1, EntriesFacts
<1> QED BY <1>2, <1>3 DEF Narrower

LEMMA InitNarrowInv == Init => NarrowInv
BY EmptyMap DEF Init, NarrowInv, Unobserved

LEMMA RecordNarrows == ASSUME IInv, NarrowInv, Record PROVE NarrowInv'
<1> DEFINE all(e)  == IF e \in DOMAIN edges THEN edges[e].observed ELSE <<>>
<1>1. /\ IsMap(edges) /\ observed \in [Calibrated -> Seq(Nat)]
      /\ delays \in [Callers(Target) -> Nat \cup {NoOnset}]
      /\ place \in DOMAIN Targets
  BY DEF IInv, TypeInv, TypeOK, Placed, Record
<1>2. ASSUME NEW e \in Calibrated
      PROVE  all(e) \in Seq(Nat) /\ Narrower(all(e), observed[e])
  BY <1>1, <1>2, MapType, NarrowerEmpty DEF NarrowInv
<1>3. ASSUME NEW e \in EdgesTo(Target), e \in Calibrated
      PROVE  /\ e \in DOMAIN edges'
             /\ edges'[e].observed = Append(all(e), Kept(delays[e[1]]))
             /\ delays[e[1]] \in Nat \cup {NoOnset}
  <2>1. e \in DOMAIN edges' /\ edges'[e] = Recorded(edges, e, Kept(delays[e[1]]))
    BY <1>3 DEF Record
  <2>2. e[1] \in Callers(Target)
    BY <1>3 DEF EdgesTo
  <2>3. delays[e[1]] \in Nat \cup {NoOnset}
    BY <1>1, <2>2
  <2>4. Recorded(edges, e, Kept(delays[e[1]])).observed = Append(all(e), Kept(delays[e[1]]))
    BY DEF Recorded, Entry
  <2> QED BY <2>1, <2>3, <2>4
<1>4. ASSUME NEW e \in Calibrated
      PROVE  IF e \in DOMAIN edges' THEN Narrower(edges'[e].observed, observed'[e])
             ELSE observed'[e] = <<>>
  <2>1. all(e) \in Seq(Nat) /\ Narrower(all(e), observed[e]) /\ observed[e] \in Seq(Nat)
    BY <1>1, <1>2
  <2>2. observed'[e] = IF e \in EdgesTo(Target) /\ delays[e[1]] # NoOnset
                       THEN Append(observed[e], delays[e[1]]) ELSE observed[e]
    BY DEF Record, ObservedToo
  <2>3. CASE e \in EdgesTo(Target) /\ delays[e[1]] # NoOnset
    <3>1. delays[e[1]] \in Nat /\ Kept(delays[e[1]]) = delays[e[1]]
      BY <1>3, <2>3 DEF Kept
    <3>2. Narrower(Append(all(e), delays[e[1]]), Append(observed[e], delays[e[1]]))
      <4> HIDE DEF all
      <4> QED BY <2>1, <3>1, NarrowerAppended
    <3> QED BY <1>3, <2>2, <2>3, <3>1, <3>2
  <2>4. CASE e \in EdgesTo(Target) /\ delays[e[1]] = NoOnset
    <3>1. Kept(delays[e[1]]) = 0
      BY <2>4 DEF Kept
    <3>2. Narrower(Append(all(e), 0), observed[e])
      <4> HIDE DEF all
      <4> QED BY <2>1, 0 \in Nat, NarrowerAppended
    <3> QED BY <1>3, <2>2, <2>4, <3>1, <3>2
  <2>5. CASE e \notin EdgesTo(Target)
    <3>1. /\ e \in DOMAIN edges' <=> e \in DOMAIN edges
          /\ e \in DOMAIN edges => edges'[e] = edges[e]
      BY <2>5 DEF Record
    <3> QED BY <2>2, <2>5, <3>1 DEF NarrowInv
  <2> QED BY <2>3, <2>4, <2>5
<1> QED BY <1>4 DEF NarrowInv

LEMMA StepNarrowInv == IInv /\ NarrowInv /\ [Next]_vars => NarrowInv'
<1> SUFFICES ASSUME IInv, NarrowInv, [Next]_vars PROVE NarrowInv'
  OBVIOUS
<1>1. CASE Start
  BY <1>1, EmptyMap DEF Start, NarrowInv, Unobserved
<1>2. CASE Record
  BY <1>2, RecordNarrows
<1>3. CASE Finalize
  <2>1. edges' = edges /\ observed' = observed
    BY <1>3, FinalizeType DEF IInv, MemoryInv, Fresh, Finalize
  <2> QED BY <2>1 DEF NarrowInv
<1>4. CASE \/ Inject \/ FetchFails \/ Measure \/ SaveBegins \/ SaveEnds \/ NextTrial
           \/ NextTarget \/ Finish \/ Die \/ Again \/ UNCHANGED vars
  <2>1. edges' = edges /\ observed' = observed
    BY <1>4 DEF Inject, FetchFails, Measure, SaveBegins, SaveEnds, NextTrial, NextTarget,
                Finish, Die, Again, vars
  <2> QED BY <2>1 DEF NarrowInv
<1> QED BY <1>1, <1>2, <1>3, <1>4 DEF Next

\* Each threshold in memory is at most that of the observed delays alone.
LEMMA MemoryUnder == ASSUME IInv, NarrowInv PROVE Under(edges, ObservedMap)
<1>1. /\ IsMap(edges) /\ observed \in [Calibrated -> Seq(Nat)]
      /\ Fresh(edges)
  BY DEF IInv, TypeInv, TypeOK, MemoryInv
<1> SUFFICES ASSUME NEW e
             PROVE  /\ EdgeThreshold(edges, e) \in Nat /\ EdgeThreshold(ObservedMap, e) \in Nat
                    /\ 4 <= EdgeThreshold(edges, e)
                    /\ EdgeThreshold(edges, e) <= EdgeThreshold(ObservedMap, e)
  BY DEF Under
<1>2. DOMAIN ObservedMap = {x \in Calibrated : observed[x] # <<>>}
  BY DEF ObservedMap
<1>3. CASE e \notin DOMAIN edges
  <2>1. e \notin DOMAIN ObservedMap
    BY <1>2, <1>3 DEF NarrowInv
  <2> QED BY <1>3, <2>1 DEF EdgeThreshold, DefaultThreshold
<1>4. CASE e \in DOMAIN edges
  <2> DEFINE all  == edges[e].observed
             some == observed[e]
  <2>1. /\ e \in Calibrated /\ all \in Seq(Nat) /\ all # <<>> /\ some \in Seq(Nat)
        /\ edges[e] = Entry(all)
    BY <1>1, <1>4, MapType DEF Fresh
  <2>2. Narrower(all, some)
    BY <1>4, <2>1 DEF NarrowInv
  <2>3. ObservedMap = [x \in {y \in Calibrated : observed[y] # <<>>} |-> Entry(observed[x])]
    BY DEF ObservedMap
  <2>4. some # <<>> => e \in DOMAIN ObservedMap /\ ObservedMap[e] = Entry(some)
    BY <2>1, <2>3
  <2> HIDE DEF all, some
  <2>5. EdgeThreshold(edges, e) = Threshold(Median(all)) /\ Median(all) \in Nat
    BY <1>4, <2>1, MedianType DEF EdgeThreshold, Entry
  <2>6. CASE some # <<>>
    <3>1. Median(some) \in Nat /\ Median(all) <= Median(some)
      BY <2>1, <2>2, <2>6, MedianType, NarrowMedian
    <3>2. EdgeThreshold(ObservedMap, e) = Threshold(Median(some))
      BY <2>4, <2>6 DEF EdgeThreshold, Entry
    <3> QED BY <2>5, <3>1, <3>2, ThresholdGrows
  <2>7. CASE some = <<>>
    <3>1. EdgeThreshold(ObservedMap, e) = DefaultThreshold
      BY <1>2, <2>7 DEF EdgeThreshold, some
    <3>2. Median(all) = 0
      BY <2>1, <2>2, <2>7, ZeroMedian
    <3>3. EdgeThreshold(edges, e) = 4
      BY <2>5, <3>2, ThresholdGrows
    <3> QED BY <3>1, <3>3 DEF DefaultThreshold
  <2> QED BY <2>6, <2>7
<1> QED BY <1>3, <1>4

\* Whatever the trials observe and miss, on any graph: no window is wider than it would
\* be had the misses been left out, and none closes.  What a diagnosis makes of the
\* narrower ones is another matter.
THEOREM MissesOnlyNarrow == Spec => []MissesNarrowOnly
<1>1. IInv /\ NarrowInv => MissesNarrowOnly
  <2> SUFFICES ASSUME IInv, NarrowInv, NEW st \in Linked
               PROVE  /\ PathThreshold(edges, st[1], st[2])
                           <= PathThreshold(ObservedMap, st[1], st[2])
                      /\ <<st[2], st[1]>> \notin Linked =>
                           PathThreshold(edges, st[1], st[2]) >= 4 * (Len(FindPath[st]) - 1)
    BY DEF MissesNarrowOnly
  <2>1. Under(edges, ObservedMap)
    BY MemoryUnder
  <2>2. <<st[1], st[2]>> = st
    BY DEF Linked
  <2>3. st[1] = st[2] => <<st[2], st[1]>> \in Linked
    BY <2>2
  <2>4. /\ PathThreshold(edges, st[1], st[2]) \in Nat
        /\ PathThreshold(edges, st[1], st[2]) <= PathThreshold(ObservedMap, st[1], st[2])
        /\ st[1] # st[2] /\ <<st[1], st[2]>> \in Linked /\ <<st[2], st[1]>> \notin Linked =>
             4 * (Len(FindPath[<<st[1], st[2]>>]) - 1) <= PathThreshold(edges, st[1], st[2])
    BY <2>1, WindowIs
  <2>5. ASSUME <<st[2], st[1]>> \notin Linked
        PROVE  PathThreshold(edges, st[1], st[2]) >= 4 * (Len(FindPath[st]) - 1)
    <3>1. Len(FindPath[st]) \in Nat
      BY FindPathIs, WalkType
    <3> QED BY <2>2, <2>3, <2>4, <2>5, <3>1
  <2> QED BY <2>4, <2>5
<1> QED BY <1>1, Inductive, InitNarrowInv, StepNarrowInv, PTL DEF Spec

-----------------------------------------------------------------------------
(* The paths that are found *)

\* A walk of n services, of whatever length.
IsWalk(w, n) ==
  /\ w \in [1 .. n -> Services]
  /\ \A i \in 1 .. n - 1 : w[i + 1] \in Graph[w[i]]

\* A walk that passes a service twice has a shorter one with the same ends.
LEMMA WalkShortens ==
  ASSUME NEW n \in Nat, NEW w, IsWalk(w, n), NEW i \in 1 .. n, NEW j \in 1 .. n,
         i < j, w[i] = w[j]
  PROVE  \E k \in Nat : \E v : /\ 1 <= k /\ k < n /\ IsWalk(v, k)
                               /\ v[1] = w[1] /\ v[k] = w[n]
<1> DEFINE k == n - (j - i)
           v == [x \in 1 .. k |-> IF x <= i THEN w[x] ELSE w[x + (j - i)]]
<1>1. k \in Nat /\ 1 <= k /\ i <= k /\ k < n
  OBVIOUS
<1>2. \A x \in 1 .. k : v[x] = IF x <= i THEN w[x] ELSE w[x + (j - i)]
  OBVIOUS
<1>3. w \in [1 .. n -> Services] /\ \A x \in 1 .. n - 1 : w[x + 1] \in Graph[w[x]]
  BY DEF IsWalk
<1>4. v \in [1 .. k -> Services]
  BY <1>1, <1>3
<1>5. DOMAIN v = 1 .. k
  OBVIOUS
<1> HIDE DEF v
<1>6. ASSUME NEW x \in 1 .. k - 1 PROVE v[x + 1] \in Graph[v[x]]
  <2>1. CASE x < i
    <3>1. v[x] = w[x] /\ v[x + 1] = w[x + 1] /\ x \in 1 .. n - 1
      BY <1>1, <1>2, <2>1
    <3> QED BY <1>3, <3>1
  <2>2. CASE x = i
    <3>1. v[x] = w[j] /\ v[x + 1] = w[(x + 1) + (j - i)] /\ (x + 1) + (j - i) = j + 1
      BY <1>1, <1>2, <2>2
    <3>2. j \in 1 .. n - 1
      BY <1>1, <2>2
    <3> QED BY <1>3, <3>1, <3>2
  <2>3. CASE x > i
    <3>1. /\ v[x] = w[x + (j - i)] /\ v[x + 1] = w[(x + 1) + (j - i)]
          /\ (x + 1) + (j - i) = (x + (j - i)) + 1
          /\ x + (j - i) \in 1 .. n - 1
      BY <1>1, <1>2, <2>3
    <3> QED BY <1>3, <3>1
  <2> QED BY <2>1, <2>2, <2>3
<1>7. v[1] = w[1]
  BY <1>1, <1>2
<1>8. v[k] = w[n]
  <2>1. CASE k = i
    <3>1. j = n
      BY <2>1
    <3> QED BY <1>1, <1>2, <2>1, <3>1
  <2>2. CASE k # i
    <3>1. v[k] = w[k + (j - i)] /\ k + (j - i) = n
      BY <1>1, <1>2, <2>2
    <3> QED BY <3>1
  <2> QED BY <2>1, <2>2
<1> QED BY <1>1, <1>4, <1>6, <1>7, <1>8 DEF IsWalk

\* What is no longer than the number of services is among the walks of the search.
LEMMA ShortWalk ==
  ASSUME NEW n \in Nat, 2 <= n, n <= Cardinality(Services), NEW w, IsWalk(w, n)
  PROVE  w \in Walks /\ Len(w) = n
<1>1. Cardinality(Services) \in Nat
  BY GraphAssumption, FS_CardinalityType
<1>2. w \in [1 .. n -> Services] /\ n \in 2 .. Cardinality(Services)
  BY <1>1 DEF IsWalk
<1>3. Len(w) = n
  BY <1>2
<1>4. ASSUME NEW e \in EdgesOf(w) PROVE e[2] \in Graph[e[1]]
  <2>1. PICK x \in 1 .. n - 1 : e = <<w[x], w[x + 1]>>
    BY <1>3 DEF EdgesOf
  <2> QED BY <2>1 DEF IsWalk
<1> QED BY <1>2, <1>3, <1>4 DEF Walks

\* On any graph, of all walks from one service to another, of whatever length and with
\* whatever cycles, there is one among those the search goes through, and the path that
\* find_path returns is no longer than any: a window adds up no detour
\* (dependency.py:59-81, propagation_map.py:155-170).
THEOREM PathsAreShortest ==
  \A n \in Nat : \A w \in [1 .. n -> Services] :
    /\ 1 <= n /\ w[1] # w[n]
    /\ \A i \in 1 .. n - 1 : w[i + 1] \in Graph[w[i]]
    => /\ <<w[1], w[n]>> \in Linked
       /\ Len(FindPath[<<w[1], w[n]>>]) <= n
<1> SUFFICES ASSUME NEW n \in Nat, NEW w \in [1 .. n -> Services], 1 <= n, w[1] # w[n],
                    \A i \in 1 .. n - 1 : w[i + 1] \in Graph[w[i]]
             PROVE  /\ <<w[1], w[n]>> \in Linked
                    /\ Len(FindPath[<<w[1], w[n]>>]) <= n
  OBVIOUS
<1> DEFINE Joins(v, k) == 1 <= k /\ IsWalk(v, k) /\ v[1] = w[1] /\ v[k] = w[n]
           lens == {k \in Nat : \E v : Joins(v, k)}
<1>1. n \in lens
  BY DEF IsWalk
<1>2. PICK k \in lens : \A x \in lens : k <= x
  <2> HIDE DEF lens
  <2>1. lens \subseteq Nat
    BY DEF lens
  <2> QED BY <1>1, <2>1, Least
<1>3. PICK v : Joins(v, k)
  OBVIOUS
<1>4. k \in Nat /\ k # 1 /\ k <= n
  BY <1>1, <1>2, <1>3
<1>5. k <= Cardinality(Services)
  <2>1. ASSUME NEW i \in 1 .. k, NEW j \in 1 .. k, i < j PROVE v[i] # v[j]
    <3> SUFFICES ASSUME v[i] = v[j] PROVE FALSE
      OBVIOUS
    <3>1. PICK l \in Nat : \E u : /\ 1 <= l /\ l < k /\ IsWalk(u, l)
                                  /\ u[1] = v[1] /\ u[l] = v[k]
      BY <1>3, <1>4, <2>1, WalkShortens
    <3>2. l \in lens
      BY <1>3, <3>1
    <3> QED BY <1>2, <1>4, <3>1, <3>2
  <2>2. v \in [1 .. k -> Services]
    BY <1>3 DEF IsWalk
  <2>3. \A i, j \in 1 .. k : v[i] = v[j] => i = j
    <3> SUFFICES ASSUME NEW i \in 1 .. k, NEW j \in 1 .. k, v[i] = v[j] PROVE i = j
      OBVIOUS
    <3>1. ~(i < j) /\ ~(j < i)
      BY <2>1
    <3> QED BY <1>4, <3>1
  <2>4. IsFiniteSet(1 .. k) /\ Cardinality(1 .. k) = k
    <3>1. /\ IsFiniteSet(1 .. k)
          /\ Cardinality(1 .. k) = IF 1 > k THEN 0 ELSE k - 1 + 1
      BY <1>4, FS_Interval
    <3> QED BY <1>3, <1>4, <3>1
  <2>5. Cardinality(Services) \in Nat
    BY GraphAssumption, FS_CardinalityType
  <2>6. ~(Cardinality(Services) < Cardinality(1 .. k))
    BY <2>2, <2>3, <2>4, GraphAssumption, FS_PigeonHole
  <2> QED BY <1>4, <2>4, <2>5, <2>6
<1>6. v \in Walks /\ Len(v) = k
  BY <1>3, <1>4, <1>5, ShortWalk
<1>7. <<v[1], v[Len(v)]>> = <<w[1], w[n]>>
  BY <1>3, <1>6
<1>8. <<w[1], w[n]>> \in Linked
  BY <1>6, <1>7 DEF Linked
<1>9. Len(FindPath[<<w[1], w[n]>>]) <= k /\ Len(FindPath[<<w[1], w[n]>>]) \in Nat
  BY <1>6, <1>7, <1>8, FindPathIs, WalkType
<1> QED BY <1>4, <1>8, <1>9

\* A map whose thresholds are those of its delays has none under a second.
LEMMA FreshUnder == ASSUME NEW m, IsMap(m), Fresh(m) PROVE Under(m, m)
<1> SUFFICES ASSUME NEW e PROVE EdgeThreshold(m, e) \in Nat /\ 4 <= EdgeThreshold(m, e)
  BY DEF Under
<1>1. CASE e \notin DOMAIN m
  BY <1>1 DEF EdgeThreshold, DefaultThreshold
<1>2. CASE e \in DOMAIN m
  <2> DEFINE q == m[e].observed
  <2>1. q \in Seq(Nat) /\ q # <<>> /\ m[e] = Entry(q)
    BY <1>2, MapType DEF Fresh
  <2> HIDE DEF q
  <2>2. EdgeThreshold(m, e) = Threshold(Median(q)) /\ Median(q) \in Nat
    BY <1>2, <2>1, MedianType DEF EdgeThreshold, Entry
  <2> QED BY <2>2, ThresholdGrows
<1> QED BY <1>1, <1>2

\* Under such a map the window of two services is the same either way round, and at
\* least a second.
Windows(m) ==
  \A s, t \in Services :
    /\ PathThreshold(m, s, t) \in Nat /\ 4 <= PathThreshold(m, s, t)
    /\ PathThreshold(m, s, t) = PathThreshold(m, t, s)

LEMMA FreshWindows == ASSUME NEW m, IsMap(m), Fresh(m) PROVE Windows(m)
<1> SUFFICES ASSUME NEW s \in Services, NEW t \in Services
             PROVE  /\ PathThreshold(m, s, t) \in Nat /\ 4 <= PathThreshold(m, s, t)
                    /\ PathThreshold(m, s, t) = PathThreshold(m, t, s)
  BY DEF Windows
<1> DEFINE ways == {<<s, t>>, <<t, s>>} \cap Linked
           back == {<<t, s>>, <<s, t>>} \cap Linked
           sums == {PathSum(m, st) : st \in ways}
<1>1. ways = back
  OBVIOUS
<1>2. PathThreshold(m, s, t) = IF s = t \/ ways = {} THEN DefaultThreshold ELSE Min(sums)
  BY DEF PathThreshold
<1>3. PathThreshold(m, t, s) =
        IF t = s \/ back = {} THEN DefaultThreshold ELSE Min({PathSum(m, st) : st \in back})
  BY DEF PathThreshold
<1>4. PathThreshold(m, s, t) = PathThreshold(m, t, s)
  <2> HIDE DEF ways, back
  <2> QED BY <1>1, <1>2, <1>3
<1>5. ASSUME NEW st \in Linked PROVE PathSum(m, st) \in Nat /\ 4 <= PathSum(m, st)
  <2>1. /\ PathSum(m, st) \in Nat
        /\ 4 * (Len(FindPath[st]) - 1) <= PathSum(m, st)
    BY FreshUnder, PathSumGrows
  <2>2. Len(FindPath[st]) \in Nat /\ 2 <= Len(FindPath[st])
    BY FindPathIs, WalkType
  <2> QED BY <2>1, <2>2
<1>6. CASE s = t \/ ways = {}
  BY <1>2, <1>4, <1>6 DEF DefaultThreshold
<1>7. CASE ~(s = t \/ ways = {})
  <2>1. sums \subseteq Nat /\ sums # {} /\ \A x \in sums : 4 <= x
    BY <1>5, <1>7
  <2>2. Min(sums) \in sums
    <3> HIDE DEF sums
    <3> QED BY <2>1, MinIs
  <2>3. PathThreshold(m, s, t) = Min(sums)
    BY <1>2, <1>7
  <2> HIDE DEF sums
  <2> QED BY <1>4, <2>1, <2>2, <2>3
<1> QED BY <1>6, <1>7

\* On any graph, whichever campaign wrote the file and wherever it died: the window that
\* a diagnosis reads from it between two services is at least a second and does not
\* depend on which of the two is named first (propagation_map.py:124-204).
THEOREM WindowsStayOpen == Spec => [](Readable(file) => Windows(file.edges))
<1>1. IInv => (Readable(file) => Windows(file.edges))
  <2> SUFFICES ASSUME IInv, Readable(file) PROVE Windows(file.edges)
    OBVIOUS
  <2>1. IsMap(file.edges)
    BY DEF IInv, TypeInv, TypeOK, Readable, IsMap
  <2>2. Fresh(file.edges)
    BY DEF IInv, FileInv
  <2> QED BY <2>1, <2>2, FreshWindows
<1> QED BY <1>1, InitIInv, StepIInv, PTL DEF Spec
=============================================================================
