--------------------------- MODULE FaultChainProofs ---------------------------
(***************************************************************************)
(* Layers 6-8 of FaultChain compute the set of roots RootCauses specifies, *)
(* for every set of services, graph, map and evidence.                     *)
(*                                                                         *)
(* The argument is one loop invariant.  A candidate is Decided when it is  *)
(* a root exactly if no root before it excuses it.  Both scans visit the   *)
(* candidates in onset order and append only the visited one, so a         *)
(* decision never depends on a later append; the early break of Layer 7    *)
(* leaves undecided only candidates outside the concurrency window, which  *)
(* is where Layer 8's untimed path test and the timed excuse coincide.     *)
(***************************************************************************)
EXTENDS FaultChain, HasPathBFS, FiniteSetTheorems, WellFoundedInduction, TLAPS

P == InSeq(pinpointed)

\* The timed excuse of RootCauses, measured from the primary root.
Excuses(r, s) ==
  /\ Before(r, s)
  /\ Linked(r, s)
  /\ IF dom.useMap THEN OnsetDiff(s) <= dom.pathThreshold[r][s]
     ELSE OnsetDiff(s) > dom.threshold

Decided(s) == s \in P <=> ~\E r \in P : Excuses(r, s)

\* From the primary root on: the chain is anchored and ordered.
Anchored ==
  /\ ~ExternalCause
  /\ pinpointed # <<>>
  /\ IsFirst(pinpointed[1], Candidates)
  /\ P \subseteq Candidates
  /\ RootsInOnsetOrder

\* Both scans visit the candidates in onset order.
InOrder ==
  /\ todo \subseteq Candidates
  /\ \A s \in Candidates \ todo, t \in todo : Before(s, t)

Layer7Inv ==
  /\ InOrder
  /\ P \subseteq Candidates \ todo
  /\ \A s \in Candidates \ todo : Decided(s)
  /\ ~dom.useMap =>
       \A s \in Candidates \ todo : s \in P /\ OnsetDiff(s) <= dom.threshold

Layer8Inv ==
  /\ InOrder
  /\ \A s \in Candidates :
       s \notin todo \/ dom.useMap \/ OnsetDiff(s) <= dom.threshold => Decided(s)
  /\ ~dom.useMap =>
       /\ \A s \in Candidates : OnsetDiff(s) <= dom.threshold => s \in P
       /\ \A s \in P : OnsetDiff(s) <= dom.threshold \/ s \notin todo

\* The scans are over, or Layer 6 returned early.
Concluded ==
  \/ pinpointed = <<>> /\ (ExternalCause \/ Candidates = {})
  \/ Anchored /\ \A s \in Candidates : Decided(s)

IInv ==
  /\ TypeOK
  /\ pc \in {"analyse", "layer6"} => pinpointed = <<>>
  /\ pc \in {"layer7", "layer8"} => Anchored
  /\ pc = "layer7" => Layer7Inv
  /\ pc = "layer8" => Layer8Inv
  /\ pc \in {"rank", "done"} => Concluded
-----------------------------------------------------------------------------
(* Facts about the operators of the model. *)

\* The stable order of sorted() is a strict total order on the services.
LEMMA BeforeOrder ==
  ASSUME onset \in [Services -> Int]
  PROVE  /\ \A s \in Services : ~Before(s, s)
         /\ \A s, t \in Services : Before(s, t) => ~Before(t, s)
         /\ \A s, t \in Services : s # t => Before(s, t) \/ Before(t, s)
         /\ \A s, t, u \in Services : Before(s, t) /\ Before(t, u) => Before(s, u)
BY ServicesAssumption DEF Before

\* list.append adds one element and keeps the others at their places.
LEMMA AppendFacts ==
  ASSUME NEW q \in Seq(Services), NEW s \in Services
  PROVE  /\ Append(q, s) \in Seq(Services)
         /\ Append(q, s) # <<>>
         /\ InSeq(Append(q, s)) = InSeq(q) \cup {s}
         /\ q # <<>> => Append(q, s)[1] = q[1]
<1>1. /\ Append(q, s) \in Seq(Services)
      /\ Len(Append(q, s)) = Len(q) + 1
      /\ \A i \in 1 .. Len(q) : Append(q, s)[i] = q[i]
      /\ Append(q, s)[Len(q) + 1] = s
  OBVIOUS
<1>2. DOMAIN q = 1 .. Len(q) /\ DOMAIN Append(q, s) = 1 .. Len(q) + 1 /\ Len(q) \in Nat
  BY <1>1
<1>3. InSeq(Append(q, s)) = InSeq(q) \cup {s}
  BY <1>1, <1>2 DEF InSeq
<1>4. q # <<>> => Append(q, s)[1] = q[1]
  BY <1>1
<1>5. Append(q, s) # <<>>
  BY <1>2
<1>6. QED
  BY <1>1, <1>3, <1>4, <1>5

\* Appending an element later than all of an ordered list keeps it ordered.
LEMMA AppendKeepsOrder ==
  ASSUME NEW q \in Seq(Services), NEW s \in Services,
         \A i, j \in DOMAIN q : i < j => Before(q[i], q[j]),
         \A r \in InSeq(q) : Before(r, s)
  PROVE  \A i, j \in DOMAIN Append(q, s) :
           i < j => Before(Append(q, s)[i], Append(q, s)[j])
<1> DEFINE p == Append(q, s)
<1>1. /\ \A i \in 1 .. Len(q) : p[i] = q[i]
      /\ p[Len(q) + 1] = s
      /\ DOMAIN q = 1 .. Len(q) /\ DOMAIN p = 1 .. Len(q) + 1 /\ Len(q) \in Nat
  OBVIOUS
<1> HIDE DEF p
<1> SUFFICES ASSUME NEW i \in DOMAIN p, NEW j \in DOMAIN p, i < j
             PROVE  Before(p[i], p[j])
  BY DEF p
<1>2. i \in 1 .. Len(q) /\ p[i] = q[i]
  BY <1>1
<1>3. CASE j \in 1 .. Len(q)
  BY <1>1, <1>2, <1>3
<1>4. CASE j = Len(q) + 1
  BY <1>1, <1>2, <1>4 DEF InSeq
<1>5. QED
  BY <1>1, <1>3, <1>4

\* Once the chain is being built neither the domain nor the evidence changes,
\* so the order, the paths and the candidates do not either.
LEMMA EvidenceStable ==
  ASSUME UNCHANGED <<dom, evidence>>
  PROVE  /\ ExternalCause' <=> ExternalCause
         /\ Candidates' = Candidates
         /\ \A s, t \in Services : Before(s, t)' <=> Before(s, t)
         /\ \A s, t \in Services : Linked(s, t)' <=> Linked(s, t)
<1>1. dom' = dom /\ abnormal' = abnormal /\ onset' = onset /\ trend' = trend
  BY DEF evidence
<1>2. Excluded' = Excluded
  BY <1>1 DEF Excluded, HasPath
<1>3. ExternalCause' <=> ExternalCause
  BY <1>1, <1>2 DEF ExternalCause
<1>4. Candidates' = Candidates
  BY <1>1, <1>2 DEF Candidates
<1>5. \A s, t \in Services : Before(s, t)' <=> Before(s, t)
  BY <1>1 DEF Before
<1>6. \A s, t \in Services : Linked(s, t)' <=> Linked(s, t)
  BY <1>1 DEF Linked, HasPath
<1>7. QED
  BY <1>3, <1>4, <1>5, <1>6

\* What the loops leave as it was when the list of roots does not change.
LEMMA RootsStable ==
  ASSUME TypeOK, UNCHANGED <<dom, evidence, pinpointed>>
  PROVE  /\ P' = P
         /\ Anchored => Anchored'
         /\ \A s \in Candidates : (Decided(s) <=> Decided(s)')
         /\ \A s \in Services : OnsetDiff(s)' = OnsetDiff(s)
<1>1. /\ dom' = dom /\ onset' = onset /\ pinpointed' = pinpointed
      /\ UNCHANGED <<dom, evidence>>
  BY DEF evidence
<1>2. /\ ExternalCause' <=> ExternalCause
      /\ Candidates' = Candidates
      /\ \A s, t \in Services : Before(s, t)' <=> Before(s, t)
      /\ \A s, t \in Services : Linked(s, t)' <=> Linked(s, t)
  BY <1>1, EvidenceStable
<1>3. P' = P /\ P \subseteq Services /\ Candidates \subseteq Services
  BY <1>1 DEF P, InSeq, TypeOK, Candidates
<1>4. \A s \in Services : OnsetDiff(s)' = OnsetDiff(s)
  BY <1>1 DEF OnsetDiff
<1>5. \A r, s \in Services : Excuses(r, s)' <=> Excuses(r, s)
  BY <1>1, <1>2, <1>4 DEF Excuses
<1>6. \A s \in Candidates : (Decided(s) <=> Decided(s)')
  BY <1>3, <1>5 DEF Decided
<1>7. RootsInOnsetOrder => RootsInOnsetOrder'
  BY <1>1, <1>2 DEF RootsInOnsetOrder, TypeOK
<1>8. ASSUME Anchored PROVE Anchored'
  <2>1. pinpointed[1] \in Services
    BY <1>8 DEF Anchored, IsFirst, Candidates, TypeOK
  <2>2. IsFirst(pinpointed[1], Candidates)'
    BY <1>1, <1>2, <1>3, <1>8, <2>1 DEF Anchored, IsFirst
  <2>3. QED
    BY <1>1, <1>2, <1>3, <1>7, <1>8, <2>2 DEF Anchored
<1>9. QED
  BY <1>3, <1>4, <1>6, <1>8

\* Appending a candidate later than all roots keeps the chain anchored and every
\* decision about the candidates before it.
LEMMA AppendRoot ==
  ASSUME TypeOK, Anchored, UNCHANGED <<dom, evidence>>,
         NEW s \in Candidates,
         \A r \in P : Before(r, s),
         pinpointed' = Append(pinpointed, s)
  PROVE  /\ P' = P \cup {s}
         /\ Anchored'
         /\ \A t \in Services : OnsetDiff(t)' = OnsetDiff(t)
         /\ \A t \in Candidates : Before(t, s) /\ Decided(t) => Decided(t)'
         /\ (~\E r \in P : Excuses(r, s)) => Decided(s)'
<1>1. dom' = dom /\ onset' = onset /\ abnormal' = abnormal
  BY DEF evidence
<1>2. /\ ExternalCause' <=> ExternalCause
      /\ Candidates' = Candidates
      /\ \A t, u \in Services : Before(t, u)' <=> Before(t, u)
      /\ \A t, u \in Services : Linked(t, u)' <=> Linked(t, u)
  BY EvidenceStable
<1>3. Candidates \subseteq Services /\ s \in Services /\ pinpointed \in Seq(Services)
  BY DEF Candidates, TypeOK
<1>4. P' = P \cup {s} /\ pinpointed' # <<>> /\ pinpointed'[1] = pinpointed[1]
  BY <1>3, AppendFacts DEF P, Anchored
<1>5. P \subseteq Services /\ P \subseteq Candidates /\ pinpointed[1] \in Services
  BY <1>3 DEF Anchored, IsFirst
<1>6. \A t \in Services : OnsetDiff(t)' = OnsetDiff(t)
  BY <1>1, <1>4 DEF OnsetDiff
<1>7. \A r, t \in Services : Excuses(r, t)' <=> Excuses(r, t)
  BY <1>1, <1>2, <1>6 DEF Excuses
<1>8. Anchored'
  <2>1. RootsInOnsetOrder'
    <3>1. \A i, j \in DOMAIN pinpointed' : i < j => Before(pinpointed'[i], pinpointed'[j])
      BY <1>3, AppendKeepsOrder DEF Anchored, RootsInOnsetOrder, P
    <3>2. \A i \in DOMAIN pinpointed' : pinpointed'[i] \in Services
      BY <1>3, AppendFacts
    <3>3. QED
      BY <1>2, <3>1, <3>2 DEF RootsInOnsetOrder
  <2>2. IsFirst(pinpointed[1], Candidates)'
    BY <1>2, <1>3, <1>4, <1>5 DEF Anchored, IsFirst
  <2>3. QED
    BY <1>2, <1>4, <1>5, <2>1, <2>2 DEF Anchored
<1>9. \A t \in Services : Before(t, s) => ~Excuses(s, t)
  BY <1>3, BeforeOrder DEF Excuses, TypeOK
<1>10. s \notin P /\ ~Excuses(s, s)
  BY <1>3, BeforeOrder DEF Excuses, TypeOK
<1>11. ASSUME NEW t \in Candidates, Before(t, s), Decided(t) PROVE Decided(t)'
  <2>1. t # s
    BY <1>3, <1>11, BeforeOrder DEF TypeOK
  <2>2. (\E r \in P' : Excuses(r, t)') <=> (\E r \in P : Excuses(r, t))
    BY <1>3, <1>4, <1>5, <1>7, <1>9, <1>11
  <2>3. QED
    BY <1>4, <1>11, <2>1, <2>2 DEF Decided
<1>12. ASSUME ~\E r \in P : Excuses(r, s) PROVE Decided(s)'
  BY <1>3, <1>4, <1>5, <1>7, <1>10, <1>12 DEF Decided
<1>13. QED
  BY <1>4, <1>6, <1>8, <1>11, <1>12
-----------------------------------------------------------------------------
(* Initial states and steps. *)

\* A function from an initial segment of the naturals is a sequence.
LEMMA FunctionIsSeq ==
  ASSUME NEW S, NEW n \in Nat, NEW q \in [1 .. n -> S]
  PROVE  q \in Seq(S)
OBVIOUS

\* A diagnosis starts with nothing analysed and no root.
LEMMA InitInductive == Init => IInv
<1> SUFFICES ASSUME Init PROVE IInv
  OBVIOUS
<1>1. TypeOK
  BY DomainsAssumption DEF Init, TypeOK, Phases, Trends, Verdicts
<1>2. QED
  BY <1>1 DEF Init, IInv

\* Types: every action keeps every variable in its set.
LEMMA TypePreserved == TypeOK /\ [Next]_vars => TypeOK'
<1> SUFFICES ASSUME TypeOK, [Next]_vars PROVE TypeOK'
  OBVIOUS
<1> USE DEF TypeOK, Phases, evidence
<1>1. ASSUME NEW s \in Services, AnalyseNormal(s) PROVE TypeOK'
  BY <1>1 DEF AnalyseNormal, AfterAnalysis
<1>2. ASSUME NEW s \in Services, AnalyseAbnormal(s) PROVE TypeOK'
  <2>0. PICK E \in Evidence(dom, s) : \E f \in E :
          /\ onset' = [onset EXCEPT ![s] = Timestamp(f)]
          /\ trend' = [trend EXCEPT ![s] = TrendOf(E)]
    BY <1>2 DEF AnalyseAbnormal
  <2>1. PICK f \in E :
          /\ onset' = [onset EXCEPT ![s] = Timestamp(f)]
          /\ trend' = [trend EXCEPT ![s] = TrendOf(E)]
    BY <2>0
  <2>2. f.idx \in Nat /\ f.metric \in Metrics
    BY FindingsAssumption DEF Findings
  <2>3. Timestamp(f) \in Int
    BY <2>2, FindingsAssumption DEF Timestamp
  <2>4. TrendOf(E) \in Trends
    BY DEF TrendOf, Trends, Directions
  <2>5. onset' \in [Services -> Int] /\ trend' \in [Services -> Trends]
    BY <2>1, <2>3, <2>4
  <2>6. QED
    BY <1>2, <2>5 DEF AnalyseAbnormal, AfterAnalysis
<1>3. ASSUME NEW s \in Services,
             \/ Layer6Primary(s) \/ Layer7Concurrent(s) \/ Layer7Break(s)
             \/ Layer7Map(s) \/ Layer8Filter(s)
      PROVE  TypeOK'
  <2>1. Append(pinpointed, s) \in Seq(Services) /\ <<s>> \in Seq(Services)
    BY AppendFacts
  <2>2. Candidates \subseteq Services
    BY DEF Candidates
  <2>3. todo' \subseteq Services /\ pinpointed' \in Seq(Services) /\ pc' \in Phases
    BY <1>3, <2>1, <2>2
    DEF Layer6Primary, Layer7Concurrent, Layer7Break, Layer7Map, Layer8Filter
  <2>4. UNCHANGED <<dom, abnormal, onset, trend, ranked, verdict>>
    BY <1>3 DEF Layer6Primary, Layer7Concurrent, Layer7Break, Layer7Map, Layer8Filter
  <2>5. QED
    BY <2>3, <2>4
<1>4. CASE Layer6External \/ Layer6NoCandidate \/ Layer7End \/ Layer8End
  BY <1>4 DEF Layer6External, Layer6NoCandidate, Layer7End, Layer8End, Candidates
<1>5. CASE Rank
  <2>1. ranked' \in Seq(Services)
    <3>1. PICK q \in [1 .. Cardinality(abnormal) -> abnormal] : ranked' = q
      BY <1>5 DEF Rank, Rankings
    <3>2. Cardinality(abnormal) \in Nat
      BY ServicesAssumption, FS_Subset, FS_CardinalityType
    <3>3. q \in [1 .. Cardinality(abnormal) -> Services]
      OBVIOUS
    <3>4. QED
      BY <3>1, <3>2, <3>3, FunctionIsSeq
  <2>2. Classify \in Verdicts
    BY DEF Classify, Verdicts
  <2>3. QED
    BY <1>5, <2>1, <2>2 DEF Rank
<1>6. CASE UNCHANGED vars
  BY <1>6 DEF vars
<1>7. QED
  BY <1>1, <1>2, <1>3, <1>4, <1>5, <1>6 DEF Next

\* While evidence is collected no root is named, and an empty report has none.
LEMMA AnalyseStep ==
  ASSUME IInv, TypeOK', NEW s \in Services, AnalyseNormal(s) \/ AnalyseAbnormal(s)
  PROVE  IInv'
<1>1. pinpointed' = <<>>
  BY DEF IInv, AnalyseNormal, AnalyseAbnormal, AfterAnalysis
<1>2. pc' = "done" => abnormal' = {}
  BY DEF AnalyseNormal, AnalyseAbnormal, AfterAnalysis, evidence
<1>3. pc' \in {"analyse", "layer6", "done"}
  BY DEF AnalyseNormal, AnalyseAbnormal, AfterAnalysis
<1>4. pc' = "done" => Concluded'
  BY <1>1, <1>2 DEF Concluded, Candidates
<1>5. QED
  BY <1>1, <1>3, <1>4 DEF IInv

\* Layer 6 concludes early with no root, or anchors the chain.
LEMMA Layer6Step ==
  ASSUME IInv, TypeOK',
         Layer6External \/ Layer6NoCandidate \/ \E s \in Services : Layer6Primary(s)
  PROVE  IInv'
<1>0. TypeOK /\ pinpointed = <<>>
  BY DEF IInv, Layer6External, Layer6NoCandidate, Layer6Primary
<1>1. CASE Layer6External \/ Layer6NoCandidate
  <2>1. UNCHANGED <<dom, evidence>> /\ pinpointed' = <<>> /\ pc' = "rank"
    BY <1>0, <1>1 DEF Layer6External, Layer6NoCandidate
  <2>2. ExternalCause' \/ Candidates' = {}
    BY <1>1, <2>1, EvidenceStable DEF Layer6External, Layer6NoCandidate
  <2>3. Concluded'
    BY <2>1, <2>2 DEF Concluded
  <2>4. QED
    BY <2>1, <2>3 DEF IInv
<1>2. ASSUME NEW s \in Services, Layer6Primary(s) PROVE IInv'
  <2>1. /\ UNCHANGED <<dom, evidence>> /\ pinpointed' = <<s>> /\ pc' = "layer7"
        /\ ~ExternalCause /\ IsFirst(s, Candidates) /\ todo' = Candidates \ {s}
    BY <1>2 DEF Layer6Primary
  <2>2. /\ Candidates' = Candidates
        /\ ~ExternalCause'
        /\ \A t, u \in Services : Before(t, u)' <=> Before(t, u)
    BY <2>1, EvidenceStable
  <2>3. P' = {s} /\ pinpointed' # <<>> /\ pinpointed'[1] = s
    BY <2>1 DEF P, InSeq
  <2>4. Candidates \subseteq Services /\ s \in Candidates
    BY <1>0, <2>1 DEF Candidates, TypeOK, IsFirst
  <2>5. IsFirst(s, Candidates)'
    BY <2>1, <2>2, <2>4 DEF IsFirst
  <2>6. RootsInOnsetOrder'
    BY <2>1 DEF RootsInOnsetOrder
  <2>7. Anchored'
    BY <2>2, <2>3, <2>4, <2>5, <2>6 DEF Anchored
  <2>8. InOrder'
    BY <2>1, <2>2, <2>4, <2>5 DEF InOrder, IsFirst
  <2>9. OnsetDiff(s)' = 0
    BY <2>3, TypeOK' DEF OnsetDiff, TypeOK
  <2>10. Decided(s)'
    <3>1. ~Before(s, s)'
      BY BeforeOrder, <1>0, <2>2 DEF TypeOK
    <3>2. QED
      BY <2>3, <3>1 DEF Decided, Excuses
  <2>11. dom'.threshold \in Nat
    BY DEF TypeOK, DomainSpec
  <2>12. Layer7Inv'
    BY <2>1, <2>2, <2>3, <2>4, <2>8, <2>9, <2>10, <2>11 DEF Layer7Inv
  <2>13. QED
    BY <2>1, <2>7, <2>12 DEF IInv
<1>3. QED
  BY <1>1, <1>2
\* The gap to the primary root is an integer number of steps.
LEMMA GapTypes ==
  ASSUME TypeOK, Anchored
  PROVE  dom.threshold \in Nat /\ \A s \in Services : OnsetDiff(s) \in Int
<1>1. dom.threshold \in Nat
  BY DEF TypeOK, DomainSpec
<1>2. pinpointed[1] \in Services
  BY DEF Anchored, IsFirst, Candidates, TypeOK
<1>3. QED
  BY <1>1, <1>2 DEF OnsetDiff, TypeOK

\* A scan visits the first of the candidates left: all candidates visited
\* before come before it, and it comes before all that are left.
LEMMA VisitInOrder ==
  ASSUME TypeOK, InOrder, UNCHANGED <<dom, evidence>>,
         NEW s \in Services, IsFirst(s, todo), todo' = todo \ {s}
  PROVE  /\ s \in Candidates
         /\ \A t \in Candidates \ todo : Before(t, s)
         /\ InOrder'
<1>1. Candidates \subseteq Services
  BY DEF Candidates, TypeOK
<1>2. s \in Candidates /\ \A t \in Candidates \ todo : Before(t, s)
  BY DEF InOrder, IsFirst
<1>3. /\ Candidates' = Candidates
      /\ \A t, u \in Services : Before(t, u)' <=> Before(t, u)
  BY EvidenceStable
<1>4. InOrder'
  BY <1>1, <1>3 DEF InOrder, IsFirst
<1>5. QED
  BY <1>2, <1>4

\* The scan over the concurrency window appends the visited candidate.
LEMMA Layer7ConcurrentStep ==
  ASSUME IInv, TypeOK', NEW s \in Services, Layer7Concurrent(s)
  PROVE  IInv'
<1>1. /\ TypeOK /\ Anchored /\ Layer7Inv /\ InOrder /\ pc' = "layer7"
      /\ UNCHANGED <<dom, evidence>> /\ ~dom.useMap
      /\ IsFirst(s, todo) /\ todo' = todo \ {s} /\ OnsetDiff(s) <= dom.threshold
      /\ pinpointed' = Append(pinpointed, s)
  BY DEF IInv, Layer7Concurrent, Layer7Inv
<1>2. s \in Candidates /\ (\A t \in Candidates \ todo : Before(t, s)) /\ InOrder'
  BY <1>1, VisitInOrder
<1>3. \A r \in P : Before(r, s)
  BY <1>1, <1>2 DEF Layer7Inv
<1>4. /\ P' = P \cup {s}
      /\ Anchored'
      /\ \A t \in Services : OnsetDiff(t)' = OnsetDiff(t)
      /\ \A t \in Candidates : Before(t, s) /\ Decided(t) => Decided(t)'
      /\ (~\E r \in P : Excuses(r, s)) => Decided(s)'
  BY <1>1, <1>2, <1>3, AppendRoot
<1>5. Candidates' = Candidates /\ Candidates \subseteq Services
  BY <1>1, EvidenceStable DEF Candidates, TypeOK
<1>6. ~\E r \in P : Excuses(r, s)
  <2>1. OnsetDiff(s) \in Int /\ dom.threshold \in Nat
    BY <1>1, GapTypes
  <2>2. QED
    BY <1>1, <2>1 DEF Excuses
<1>7. Candidates' \ todo' \subseteq (Candidates \ todo) \cup {s}
  BY <1>1, <1>5
<1>8. dom' = dom
  BY <1>1
<1>9. Layer7Inv'
  <2>1. P' \subseteq Candidates' \ todo'
    BY <1>1, <1>2, <1>4, <1>5 DEF Layer7Inv, IsFirst
  <2>2. \A t \in Candidates' \ todo' : Decided(t)'
    BY <1>1, <1>2, <1>4, <1>6, <1>7 DEF Layer7Inv
  <2>3. \A t \in Candidates' \ todo' : t \in P' /\ OnsetDiff(t)' <= dom'.threshold
    BY <1>1, <1>2, <1>4, <1>5, <1>7, <1>8 DEF Layer7Inv
  <2>4. QED
    BY <1>2, <2>1, <2>2, <2>3 DEF Layer7Inv
<1>10. QED
  BY <1>1, <1>4, <1>9 DEF IInv

\* With a map the visited candidate is appended unless a root excuses it; all
\* roots come before it, so "some root explains it" is the timed excuse.
LEMMA Layer7MapStep ==
  ASSUME IInv, TypeOK', NEW s \in Services, Layer7Map(s)
  PROVE  IInv'
<1>1. /\ TypeOK /\ Anchored /\ Layer7Inv /\ InOrder /\ pc' = "layer7"
      /\ UNCHANGED <<dom, evidence>> /\ dom.useMap
      /\ IsFirst(s, todo) /\ todo' = todo \ {s}
      /\ pinpointed' = IF ExplainedByMap(s) THEN pinpointed ELSE Append(pinpointed, s)
  BY DEF IInv, Layer7Map, Layer7Inv
<1>2. s \in Candidates /\ (\A t \in Candidates \ todo : Before(t, s)) /\ InOrder'
  BY <1>1, VisitInOrder
<1>3. \A r \in P : Before(r, s)
  BY <1>1, <1>2 DEF Layer7Inv
<1>4. ExplainedByMap(s) <=> \E r \in P : Excuses(r, s)
  BY <1>1, <1>3 DEF ExplainedByMap, Excuses, P
<1>5. Candidates' = Candidates /\ Candidates \subseteq Services
  BY <1>1, EvidenceStable DEF Candidates, TypeOK
<1>6. Candidates' \ todo' \subseteq (Candidates \ todo) \cup {s}
  BY <1>1, <1>5
<1>7. dom' = dom
  BY <1>1
<1>8. CASE ExplainedByMap(s)
  <2>1. UNCHANGED <<dom, evidence, pinpointed>>
    BY <1>1, <1>8
  <2>2. /\ P' = P /\ Anchored'
        /\ \A t \in Candidates : (Decided(t) <=> Decided(t)')
    BY <1>1, <2>1, RootsStable
  <2>3. s \notin P
    BY <1>1 DEF Layer7Inv, IsFirst
  <2>4. Decided(s)
    BY <1>4, <1>8, <2>3 DEF Decided
  <2>5. \A t \in Candidates' \ todo' : Decided(t)'
    BY <1>1, <1>2, <1>6, <2>2, <2>4 DEF Layer7Inv
  <2>6. P' \subseteq Candidates' \ todo'
    BY <1>1, <1>5, <2>2 DEF Layer7Inv
  <2>7. Layer7Inv'
    BY <1>1, <1>2, <1>7, <2>5, <2>6 DEF Layer7Inv
  <2>8. QED
    BY <1>1, <2>2, <2>7 DEF IInv
<1>9. CASE ~ExplainedByMap(s)
  <2>1. pinpointed' = Append(pinpointed, s)
    BY <1>1, <1>9
  <2>2. /\ P' = P \cup {s}
        /\ Anchored'
        /\ \A t \in Candidates : Before(t, s) /\ Decided(t) => Decided(t)'
        /\ Decided(s)'
    BY <1>1, <1>2, <1>3, <1>4, <1>9, <2>1, AppendRoot
  <2>3. \A t \in Candidates' \ todo' : Decided(t)'
    BY <1>1, <1>2, <1>6, <2>2 DEF Layer7Inv
  <2>4. P' \subseteq Candidates' \ todo'
    BY <1>1, <1>2, <1>5, <2>2 DEF Layer7Inv, IsFirst
  <2>5. Layer7Inv'
    BY <1>1, <1>2, <1>7, <2>3, <2>4 DEF Layer7Inv
  <2>6. QED
    BY <1>1, <2>2, <2>5 DEF IInv
<1>10. QED
  BY <1>8, <1>9
\* Layer 7 ends at the first candidate outside the window or at the last one.
\* What it leaves undecided lies outside the window.
LEMMA Layer7ExitStep ==
  ASSUME IInv, TypeOK', Layer7End \/ \E s \in Services : Layer7Break(s)
  PROVE  IInv'
<1>1. /\ TypeOK /\ Anchored /\ Layer7Inv /\ InOrder
      /\ UNCHANGED <<dom, evidence, pinpointed>>
      /\ pc' = "layer8" /\ todo' = Candidates
  BY DEF IInv, Layer7End, Layer7Break, Layer7Inv
<1>2. /\ P' = P /\ Anchored'
      /\ \A t \in Candidates : (Decided(t) <=> Decided(t)')
      /\ \A t \in Services : OnsetDiff(t)' = OnsetDiff(t)
  BY <1>1, RootsStable
<1>3. Candidates' = Candidates /\ Candidates \subseteq Services /\ dom' = dom
  BY <1>1, EvidenceStable DEF Candidates, TypeOK
<1>4. InOrder'
  BY <1>1, <1>3 DEF InOrder
<1>5. ~dom.useMap => \A t \in todo : OnsetDiff(t) > dom.threshold
  <2>1. CASE Layer7End
    BY <2>1 DEF Layer7End
  <2>2. ASSUME NEW s \in Services, Layer7Break(s)
        PROVE  \A t \in todo : OnsetDiff(t) > dom.threshold
    <3>1. IsFirst(s, todo) /\ OnsetDiff(s) > dom.threshold
      BY <2>2 DEF Layer7Break
    <3>2. ASSUME NEW t \in todo PROVE onset[s] <= onset[t]
      <4>1. onset[s] \in Int /\ onset[t] \in Int
        BY <1>1, <3>1 DEF IsFirst, TypeOK
      <4>2. t # s => Before(s, t)
        BY <3>1 DEF IsFirst
      <4>3. QED
        BY <4>1, <4>2 DEF Before
    <3>3. \A t \in todo : t \in Services /\ OnsetDiff(t) >= OnsetDiff(s)
      <4>1. pinpointed[1] \in Services
        BY <1>1, <1>3 DEF Anchored, IsFirst
      <4>2. QED
        BY <1>1, <3>2, <4>1 DEF OnsetDiff, TypeOK
    <3>4. QED
      BY <1>1, <3>1, <3>3, GapTypes
  <2>3. QED
    BY <2>1, <2>2
<1>6. dom.useMap => todo = {}
  BY DEF Layer7End, Layer7Break
<1>7. \A t \in Services : OnsetDiff(t) \in Int /\ dom.threshold \in Nat
  BY <1>1, GapTypes
<1>8. Layer8Inv'
  <2>1. ASSUME NEW t \in Candidates, dom.useMap \/ OnsetDiff(t) <= dom.threshold
        PROVE  Decided(t)'
    <3>1. t \notin todo
      BY <1>3, <1>5, <1>6, <1>7, <2>1
    <3>2. QED
      BY <1>1, <1>2, <3>1 DEF Layer7Inv
  <2>2. ~dom.useMap => /\ \A t \in Candidates : OnsetDiff(t) <= dom.threshold => t \in P
                       /\ \A t \in P : OnsetDiff(t) <= dom.threshold
    BY <1>1, <1>3, <1>5, <1>7 DEF Layer7Inv
  <2>3. P \subseteq Services
    BY <1>1, <1>3 DEF Anchored
  <2>4. QED
    BY <1>1, <1>2, <1>3, <1>4, <2>1, <2>2, <2>3 DEF Layer8Inv
<1>9. QED
  BY <1>1, <1>2, <1>8 DEF IInv

\* Layer 8 asks only for a path.  For the candidates it can still append, those
\* outside the window, every root comes before and the path alone excuses.
LEMMA Layer8FilterStep ==
  ASSUME IInv, TypeOK', NEW s \in Services, Layer8Filter(s)
  PROVE  IInv'
<1> DEFINE Victim == s \in P \/ \E r \in P : Linked(r, s)
<1>1. /\ TypeOK /\ Anchored /\ Layer8Inv /\ InOrder /\ pc' = "layer8"
      /\ UNCHANGED <<dom, evidence>>
      /\ IsFirst(s, todo) /\ todo' = todo \ {s}
      /\ pinpointed' = IF Victim THEN pinpointed ELSE Append(pinpointed, s)
  BY DEF IInv, Layer8Filter, Layer8Inv, P
<1>2. s \in Candidates /\ (\A t \in Candidates \ todo : Before(t, s)) /\ InOrder'
  BY <1>1, VisitInOrder
<1>3. /\ Candidates' = Candidates /\ Candidates \subseteq Services /\ dom' = dom
      /\ P \subseteq Candidates
  BY <1>1, EvidenceStable DEF Candidates, TypeOK, Anchored
<1>4. s \in todo /\ pinpointed[1] \in Services
  BY <1>1, <1>3 DEF IsFirst, Anchored
<1>5. dom.threshold \in Nat /\ \A t \in Services : OnsetDiff(t) \in Int
  BY <1>1, GapTypes
<1>6. ASSUME s \notin P, ~dom.useMap
      PROVE  /\ OnsetDiff(s) > dom.threshold
             /\ \A r \in P : Before(r, s)
  <2>1. OnsetDiff(s) > dom.threshold
    BY <1>1, <1>2, <1>3, <1>5, <1>6 DEF Layer8Inv
  <2>2. ASSUME NEW r \in P PROVE Before(r, s)
    <3>1. CASE r \notin todo
      BY <1>2, <1>3, <3>1
    <3>2. CASE OnsetDiff(r) <= dom.threshold
      <4>1. OnsetDiff(r) < OnsetDiff(s)
        BY <1>3, <1>5, <2>1, <3>2
      <4>2. onset[r] < onset[s]
        BY <1>1, <1>3, <1>4, <4>1 DEF OnsetDiff, TypeOK
      <4>3. QED
        BY <4>2 DEF Before
    <3>3. QED
      BY <1>1, <1>6, <3>1, <3>2 DEF Layer8Inv
  <2>3. QED
    BY <2>1, <2>2
<1>7. CASE Victim
  <2>1. UNCHANGED <<dom, evidence, pinpointed>>
    BY <1>1, <1>7
  <2>2. /\ P' = P /\ Anchored'
        /\ \A t \in Candidates : (Decided(t) <=> Decided(t)')
        /\ \A t \in Services : OnsetDiff(t)' = OnsetDiff(t)
    BY <1>1, <2>1, RootsStable
  <2>3. Decided(s)
    <3>1. CASE dom.useMap
      BY <1>1, <1>2, <3>1 DEF Layer8Inv
    <3>2. CASE s \in P /\ ~dom.useMap
      BY <1>1, <1>2, <1>4, <3>2 DEF Layer8Inv
    <3>3. CASE s \notin P /\ ~dom.useMap
      <4>1. \E r \in P : Excuses(r, s)
        BY <1>6, <1>7, <3>3 DEF Excuses
      <4>2. QED
        BY <3>3, <4>1 DEF Decided
    <3>4. QED
      BY <3>1, <3>2, <3>3
  <2>4. \A t \in Candidates :
          t \notin todo' \/ dom.useMap \/ OnsetDiff(t) <= dom.threshold => Decided(t)'
    BY <1>1, <2>2, <2>3 DEF Layer8Inv
  <2>5. ~dom.useMap =>
          /\ \A t \in Candidates : OnsetDiff(t) <= dom.threshold => t \in P
          /\ \A t \in P : OnsetDiff(t) <= dom.threshold \/ t \notin todo'
    BY <1>1 DEF Layer8Inv
  <2>6. Layer8Inv'
    BY <1>2, <1>3, <2>2, <2>4, <2>5 DEF Layer8Inv
  <2>7. QED
    BY <1>1, <2>2, <2>6 DEF IInv
<1>8. CASE ~Victim
  <2>1. ~dom.useMap
    <3>1. SUFFICES ASSUME dom.useMap PROVE FALSE
      OBVIOUS
    <3>2. Decided(s)
      BY <1>1, <1>2, <3>1 DEF Layer8Inv
    <3>3. PICK r \in P : Excuses(r, s)
      BY <1>8, <3>2 DEF Decided
    <3>4. QED
      BY <1>8, <3>3 DEF Excuses
  <2>2. OnsetDiff(s) > dom.threshold /\ \A r \in P : Before(r, s)
    BY <1>6, <1>8, <2>1
  <2>3. ~\E r \in P : Excuses(r, s)
    BY <1>8 DEF Excuses
  <2>4. pinpointed' = Append(pinpointed, s)
    BY <1>1, <1>8
  <2>5. /\ P' = P \cup {s}
        /\ Anchored'
        /\ \A t \in Services : OnsetDiff(t)' = OnsetDiff(t)
        /\ \A t \in Candidates : Before(t, s) /\ Decided(t) => Decided(t)'
        /\ Decided(s)'
    BY <1>1, <1>2, <2>2, <2>3, <2>4, AppendRoot
  <2>6. ASSUME NEW t \in Candidates, t # s,
               t \notin todo \/ OnsetDiff(t) <= dom.threshold
        PROVE  Decided(t)'
    <3>1. t \in P \/ t \notin todo
      BY <1>1, <2>1, <2>6 DEF Layer8Inv
    <3>2. Before(t, s)
      BY <1>2, <2>2, <3>1
    <3>3. Decided(t)
      BY <1>1, <2>6 DEF Layer8Inv
    <3>4. QED
      BY <2>5, <3>2, <3>3
  <2>7. \A t \in Candidates :
          t \notin todo' \/ OnsetDiff(t) <= dom.threshold => Decided(t)'
    BY <1>1, <2>5, <2>6
  <2>8. /\ \A t \in Candidates : OnsetDiff(t) <= dom.threshold => t \in P'
        /\ \A t \in P' : OnsetDiff(t) <= dom.threshold \/ t \notin todo'
    BY <1>1, <2>1, <2>5 DEF Layer8Inv
  <2>9. P' \subseteq Services
    BY <1>2, <1>3, <2>5
  <2>10. Layer8Inv'
    BY <1>2, <1>3, <2>1, <2>5, <2>7, <2>8, <2>9 DEF Layer8Inv
  <2>11. QED
    BY <1>1, <2>5, <2>10 DEF IInv
<1>9. QED
  BY <1>7, <1>8

\* With nothing left to visit every candidate is decided; ranking changes neither
\* the roots nor the evidence.
LEMMA ConclusionStep ==
  ASSUME IInv, TypeOK', Layer8End \/ Rank
  PROVE  IInv'
<1>1. /\ TypeOK /\ UNCHANGED <<dom, evidence, pinpointed>> /\ pc' \in {"rank", "done"}
  BY DEF IInv, Layer8End, Rank
<1>2. Concluded
  BY DEF IInv, Layer8End, Rank, Layer8Inv, Concluded
<1>3. /\ Candidates' = Candidates
      /\ ExternalCause' <=> ExternalCause
  BY <1>1, EvidenceStable
<1>4. /\ Anchored => Anchored'
      /\ \A t \in Candidates : (Decided(t) <=> Decided(t)')
  BY <1>1, RootsStable
<1>5. Concluded'
  BY <1>1, <1>2, <1>3, <1>4 DEF Concluded
<1>6. QED
  BY <1>1, <1>5 DEF IInv
-----------------------------------------------------------------------------
(* Theorems. *)

\* Every step of pinpoint_report keeps the loop invariant.
LEMMA Inductive == IInv /\ [Next]_vars => IInv'
<1> SUFFICES ASSUME IInv, [Next]_vars PROVE IInv'
  OBVIOUS
<1>1. TypeOK'
  BY TypePreserved DEF IInv
<1>2. CASE \E s \in Services : AnalyseNormal(s) \/ AnalyseAbnormal(s)
  BY <1>1, <1>2, AnalyseStep
<1>3. CASE Layer6External \/ Layer6NoCandidate \/ \E s \in Services : Layer6Primary(s)
  BY <1>1, <1>3, Layer6Step
<1>4. CASE \E s \in Services : Layer7Concurrent(s)
  BY <1>1, <1>4, Layer7ConcurrentStep
<1>5. CASE \E s \in Services : Layer7Map(s)
  BY <1>1, <1>5, Layer7MapStep
<1>6. CASE Layer7End \/ \E s \in Services : Layer7Break(s)
  BY <1>1, <1>6, Layer7ExitStep
<1>7. CASE \E s \in Services : Layer8Filter(s)
  BY <1>1, <1>7, Layer8FilterStep
<1>8. CASE Layer8End \/ Rank
  BY <1>1, <1>8, ConclusionStep
<1>9. CASE UNCHANGED vars
  <2>1. UNCHANGED <<dom, evidence, pinpointed>> /\ TypeOK
        /\ UNCHANGED <<pc, todo>>
    BY <1>9 DEF vars, evidence, IInv
  <2>2. /\ Candidates' = Candidates /\ Candidates \subseteq Services
        /\ ExternalCause' <=> ExternalCause
        /\ \A s, t \in Services : Before(s, t)' <=> Before(s, t)
    BY <2>1, EvidenceStable DEF Candidates, TypeOK
  <2>3. /\ P' = P /\ (Anchored => Anchored')
        /\ \A t \in Candidates : (Decided(t) <=> Decided(t)')
        /\ \A t \in Services : OnsetDiff(t)' = OnsetDiff(t)
    BY <2>1, RootsStable
  <2>4. InOrder => InOrder'
    BY <2>1, <2>2 DEF InOrder
  <2>5. Layer7Inv => Layer7Inv'
    BY <2>1, <2>2, <2>3, <2>4 DEF Layer7Inv
  <2>6. Layer8Inv => Layer8Inv'
    <3>1. P \subseteq Services
      BY <2>1 DEF P, InSeq, TypeOK
    <3>2. QED
      BY <2>1, <2>2, <2>3, <2>4, <3>1 DEF Layer8Inv
  <2>7. Concluded => Concluded'
    BY <2>1, <2>2, <2>3 DEF Concluded
  <2>8. QED
    BY <1>1, <2>1, <2>3, <2>5, <2>6, <2>7 DEF IInv
<1>10. QED
  BY <1>2, <1>3, <1>4, <1>5, <1>6, <1>7, <1>8, <1>9 DEF Next

\* The loop invariant holds throughout every diagnosis.
THEOREM Invariance == Spec => []IInv
<1>1. QED
  BY InitInductive, Inductive, PTL DEF Spec

\* Every variable of a diagnosis keeps its type.
THEOREM TypeCorrect == Spec => []TypeOK
<1>1. IInv => TypeOK
  BY DEF IInv
<1>2. QED
  BY <1>1, Invariance, PTL

\* No load, prompt shape, SLI or component without a causal path to it is ever
\* among the roots pinpoint_faults returns, in any domain.
THEOREM RootsAreEligible == Spec => []RootsAreCandidates
<1>1. IInv => RootsAreCandidates
  BY DEF IInv, TypeOK, Phases, Concluded, Anchored, P, RootsAreCandidates, InSeq
<1>2. QED
  BY <1>1, Invariance, PTL

\* The list of roots is ordered by onset however the two loops interleave.
THEOREM RootsAreOrdered == Spec => []RootsInOnsetOrder
<1>1. pinpointed = <<>> => RootsInOnsetOrder
  BY DEF RootsInOnsetOrder
<1>2. IInv => RootsInOnsetOrder
  BY <1>1 DEF IInv, TypeOK, Phases, Concluded, Anchored
<1>3. QED
  BY <1>2, Invariance, PTL

\* After the filter each candidate is a root or has a path to or from one.
THEOREM EveryVictimExplained == Spec => []VictimsExplained
<1>1. ASSUME IInv, pc = "rank", ~ExternalCause, NEW s \in Candidates
      PROVE  s \in P \/ \E r \in P : Linked(r, s)
  <2>1. Decided(s)
    BY <1>1 DEF IInv, Concluded
  <2>2. QED
    BY <2>1 DEF Decided, Excuses
<1>2. IInv => VictimsExplained
  BY <1>1 DEF VictimsExplained, P
<1>3. QED
  BY <1>2, Invariance, PTL

\* A root is not excused by any root before it, at any time.
LEMMA RootsDecided ==
  ASSUME IInv, NEW s \in P, NEW r \in P
  PROVE  ~Excuses(r, s)
<1>1. pinpointed # <<>>
  BY DEF P, InSeq
<1>2. Anchored
  BY <1>1 DEF IInv, TypeOK, Phases, Concluded
<1>3. s \in Candidates
  BY <1>2 DEF Anchored
<1>4. Decided(s)
  <2>1. CASE pc = "layer7"
    BY <2>1 DEF IInv, Layer7Inv
  <2>2. CASE pc = "layer8"
    BY <1>3, <2>2 DEF IInv, Layer8Inv
  <2>3. CASE pc \in {"rank", "done"}
    BY <1>1, <1>3, <2>3 DEF IInv, Concluded
  <2>4. QED
    BY <1>1, <2>1, <2>2, <2>3 DEF IInv, TypeOK, Phases
<1>5. QED
  BY <1>4 DEF Decided

\* Without a map, a root outside the concurrency window has no path to or from
\* any other root.
THEOREM LateRootsAreIndependent == Spec => []LateRootsIndependent
<1>1. ASSUME IInv, ~dom.useMap,
             NEW i \in DOMAIN pinpointed, NEW j \in DOMAIN pinpointed,
             i # j, OnsetDiff(pinpointed[j]) > dom.threshold
      PROVE  ~Linked(pinpointed[i], pinpointed[j])
  <2> DEFINE r == pinpointed[i]
             s == pinpointed[j]
  <2>1. /\ TypeOK /\ r \in P /\ s \in P /\ r \in Services /\ s \in Services
    BY <1>1 DEF IInv, TypeOK, P, InSeq
  <2>2. Anchored
    BY <1>1 DEF IInv, TypeOK, Phases, Concluded
  <2>3. ~Excuses(r, s) /\ ~Excuses(s, r)
    BY <1>1, <2>1, RootsDecided
  <2>4. CASE Before(r, s)
    BY <1>1, <2>3, <2>4 DEF Excuses
  <2>5. CASE Before(s, r)
    <3>1. onset[s] <= onset[r] /\ onset[s] \in Int /\ onset[r] \in Int
      BY <2>1, <2>5 DEF Before, TypeOK
    <3>2. pinpointed[1] \in Services
      BY <2>2, <2>1 DEF Anchored, IsFirst, Candidates, TypeOK
    <3>3. OnsetDiff(r) >= OnsetDiff(s)
      BY <2>1, <3>1, <3>2 DEF OnsetDiff, TypeOK
    <3>4. OnsetDiff(r) > dom.threshold
      BY <1>1, <2>1, <2>2, <3>3, GapTypes
    <3>5. ~Linked(s, r)
      BY <1>1, <2>3, <2>5, <3>4 DEF Excuses
    <3>6. QED
      BY <3>5 DEF Linked
  <2>6. Before(r, s) \/ Before(s, r)
    <3>1. i < j \/ j < i
      BY <1>1, <2>1 DEF TypeOK
    <3>2. QED
      BY <3>1, <2>2 DEF Anchored, RootsInOnsetOrder
  <2>7. QED
    BY <2>4, <2>5, <2>6
<1>2. IInv => LateRootsIndependent
  BY <1>1 DEF LateRootsIndependent
<1>3. QED
  BY <1>2, Invariance, PTL

\* With a map, a root linked to an earlier one started outside the window
\* calibrated for their path.
THEOREM MapRootsAreOutsideWindow == Spec => []MapRootsOutsideWindow
<1>1. ASSUME IInv, dom.useMap,
             NEW i \in DOMAIN pinpointed, NEW j \in DOMAIN pinpointed,
             i < j, Linked(pinpointed[i], pinpointed[j])
      PROVE  OnsetDiff(pinpointed[j]) > dom.pathThreshold[pinpointed[i]][pinpointed[j]]
  <2> DEFINE r == pinpointed[i]
             s == pinpointed[j]
  <2>1. /\ TypeOK /\ r \in P /\ s \in P /\ r \in Services /\ s \in Services
    BY <1>1 DEF IInv, TypeOK, P, InSeq
  <2>2. Anchored
    BY <1>1 DEF IInv, TypeOK, Phases, Concluded
  <2>3. ~Excuses(r, s) /\ Before(r, s)
    BY <1>1, <2>1, <2>2, RootsDecided DEF Anchored, RootsInOnsetOrder
  <2>4. ~(OnsetDiff(s) <= dom.pathThreshold[r][s])
    BY <1>1, <2>3 DEF Excuses
  <2>5. dom.pathThreshold \in [Services -> [Services -> Nat]]
    BY <2>1 DEF TypeOK, DomainSpec
  <2>6. dom.pathThreshold[r][s] \in Nat /\ OnsetDiff(s) \in Int
    BY <2>1, <2>2, <2>5, GapTypes
  <2>7. QED
    BY <2>4, <2>6
<1>2. IInv => MapRootsOutsideWindow
  BY <1>1 DEF MapRootsOutsideWindow
<1>3. QED
  BY <1>2, Invariance, PTL

\* A root has a reason to be one and a victim a root to explain it, with a map and
\* without.
THEOREM RootsAreJustified == Spec => []RootsJustified
BY EveryVictimExplained, LateRootsAreIndependent, MapRootsAreOutsideWindow, PTL
   DEF RootsJustified
-----------------------------------------------------------------------------
(* The report. *)

\* A report is empty because nothing was abnormal, or ranks all that was and is
\* classified by the very roots and evidence it ranks.
ReportInv ==
  /\ pc # "done" => verdict = "no_anomaly"
  /\ pc \notin {"analyse", "done"} => abnormal # {}
  /\ pc = "done" =>
       \/ abnormal = {} /\ verdict = "no_anomaly"
       \/ abnormal # {} /\ ranked \in Rankings /\ verdict = Classify

\* Verdict and ranking read only what no later step changes.
LEMMA ReportStable ==
  ASSUME UNCHANGED <<dom, evidence, pinpointed>>
  PROVE  Rankings' = Rankings /\ Classify' = Classify
<1>1. UNCHANGED <<dom, abnormal, onset, trend, pinpointed>>
  BY DEF evidence
<1>2. Excluded' = Excluded
  BY <1>1 DEF Excluded, HasPath
<1>3. \A s \in abnormal : MovedFirst(s)' <=> MovedFirst(s)
  BY <1>1 DEF MovedFirst, IsFirst, Before
<1>4. \A s \in dom.exogenous : MovedFirst(s)' <=> MovedFirst(s)
  BY <1>1 DEF MovedFirst, IsFirst, Before
<1>5. Classify' = Classify
  BY <1>1, <1>2, <1>4 DEF Classify
<1>6. Rankings' = Rankings
  BY <1>1 DEF Rankings, RankedNoLater
<1> QED BY <1>5, <1>6

LEMMA StepReport == TypeOK /\ ReportInv /\ [Next]_vars => ReportInv'
<1> SUFFICES ASSUME TypeOK, ReportInv, [Next]_vars PROVE ReportInv'
  OBVIOUS
<1>1. ASSUME NEW s \in Services, AnalyseNormal(s) \/ AnalyseAbnormal(s) PROVE ReportInv'
  <2>1. pc = "analyse" /\ verdict' = verdict /\ verdict = "no_anomaly"
    BY <1>1 DEF ReportInv, AnalyseNormal, AnalyseAbnormal, AfterAnalysis
  <2>2. /\ pc' \in {"analyse", "layer6", "done"}
        /\ pc' = "done" => abnormal' = {}
        /\ pc' = "layer6" => abnormal' # {}
    BY <1>1 DEF AnalyseNormal, AnalyseAbnormal, AfterAnalysis, evidence
  <2> QED BY <2>1, <2>2 DEF ReportInv
<1>2. CASE \/ Layer6External \/ Layer6NoCandidate \/ Layer7End \/ Layer8End
           \/ \E s \in Services : \/ Layer6Primary(s) \/ Layer7Concurrent(s)
                                  \/ Layer7Break(s) \/ Layer7Map(s) \/ Layer8Filter(s)
  <2>1. /\ pc \in {"layer6", "layer7", "layer8"} /\ pc' \in {"layer6", "layer7", "layer8", "rank"}
        /\ UNCHANGED <<abnormal, verdict>>
    BY <1>2 DEF Layer6External, Layer6NoCandidate, Layer7End, Layer8End, Layer6Primary,
                Layer7Concurrent, Layer7Break, Layer7Map, Layer8Filter, evidence
  <2> QED BY <2>1 DEF ReportInv
<1>3. CASE Rank
  <2>1. /\ abnormal # {} /\ ranked' \in Rankings /\ verdict' = Classify
        /\ pc' = "done" /\ abnormal' = abnormal
    BY <1>3 DEF Rank, ReportInv, evidence
  <2>2. Rankings' = Rankings /\ Classify' = Classify
    BY <1>3, ReportStable DEF Rank
  <2> QED BY <2>1, <2>2 DEF ReportInv
<1>4. CASE UNCHANGED vars
  <2>1. UNCHANGED <<dom, evidence, pinpointed>> /\ UNCHANGED <<pc, abnormal, ranked, verdict>>
    BY <1>4 DEF vars, evidence
  <2>2. Rankings' = Rankings /\ Classify' = Classify
    BY <2>1, ReportStable
  <2> QED BY <2>1, <2>2 DEF ReportInv
<1> QED BY <1>1, <1>2, <1>3, <1>4 DEF Next

\* Every ranking begins with a root, and with one that no root precedes.
LEMMA TopIsRoot ==
  ASSUME TypeOK, abnormal # {}, NEW q \in Rankings, P # {}, P \subseteq abnormal
  PROVE  /\ 1 \in DOMAIN q
         /\ q[1] \in P
         /\ \A r \in P : onset[q[1]] <= onset[r]
<1>1. /\ q \in [1 .. Cardinality(abnormal) -> abnormal]
      /\ InSeq(q) = abnormal
      /\ \A i, j \in DOMAIN q : i < j => RankedNoLater(q[i], q[j])
  BY DEF Rankings
<1>2. Cardinality(abnormal) \in Nat
  BY ServicesAssumption, FS_Subset, FS_CardinalityType DEF TypeOK
<1>3. DOMAIN q = 1 .. Cardinality(abnormal)
  BY <1>1
<1>4. ASSUME NEW r \in P
      PROVE  1 \in DOMAIN q /\ q[1] \in P /\ onset[q[1]] <= onset[r]
  <2>1. PICK j \in DOMAIN q : q[j] = r
    BY <1>1 DEF InSeq
  <2>2. 1 \in DOMAIN q
    BY <1>2, <1>3, <2>1
  <2>3. CASE j = 1
    BY <2>1, <2>2, <2>3 DEF TypeOK
  <2>4. CASE j # 1
    <3>1. 1 < j
      BY <1>2, <1>3, <2>1, <2>4
    <3>2. RankedNoLater(q[1], r)
      BY <1>1, <2>1, <2>2, <3>1
    <3> QED BY <2>2, <3>2 DEF RankedNoLater, P
  <2> QED BY <2>3, <2>4
<1> QED BY <1>4

\* The verdict of a report says which evidence it rests on: what a pathology ranks first,
\* what moved when for capacity, what is uniform for an external cause and what did not
\* move for no anomaly (_classify, fault_chain.py:136-168).
THEOREM ReportsAreConsistent == Spec => []ReportConsistent
<1>1. Init => ReportInv
  BY DEF Init, ReportInv
<1>2. ASSUME IInv, ReportInv, pc = "done" PROVE ReportConsistent
  <2>0. TypeOK /\ Concluded
    BY <1>2 DEF IInv
  <2>1. CASE abnormal = {} /\ verdict = "no_anomaly"
    <3>1. Candidates = {} /\ abnormal \cap dom.exogenous = {}
      BY <2>1 DEF Candidates
    <3> QED BY <2>1, <3>1 DEF ReportConsistent
  <2>2. CASE abnormal # {} /\ ranked \in Rankings /\ verdict = Classify
    <3>0. abnormal \subseteq Services /\ \A s \in abnormal : onset[s] \in Int
      BY <2>0 DEF TypeOK
    <3>1. ASSUME verdict = "pathology"
          PROVE  \E i \in DOMAIN ranked :
                   /\ IsTop(i) /\ ranked[i] \in InSeq(pinpointed)
                   /\ \A s \in Candidates : onset[ranked[i]] <= onset[s]
      <4>1. pinpointed # <<>>
        BY <2>2, <3>1 DEF Classify
      <4>2. Anchored
        BY <2>0, <4>1 DEF Concluded
      <4>3. P # {} /\ P \subseteq Candidates /\ pinpointed[1] \in P
        BY <2>0, <4>1, <4>2 DEF Anchored, P, InSeq, TypeOK
      <4>4. P \subseteq abnormal
        BY <4>3 DEF Candidates
      <4>5. /\ 1 \in DOMAIN ranked /\ ranked[1] \in P
            /\ onset[ranked[1]] <= onset[pinpointed[1]]
        BY <2>0, <2>2, <4>3, <4>4, TopIsRoot
      <4>6. IsTop(1)
        BY <4>3, <4>5 DEF IsTop, Candidates
      <4>7. ASSUME NEW s \in Candidates PROVE onset[ranked[1]] <= onset[s]
        <5>1. onset[pinpointed[1]] <= onset[s]
          <6>1. s = pinpointed[1] \/ Before(pinpointed[1], s)
            BY <4>2 DEF Anchored, IsFirst
          <6>2. onset[s] \in Int /\ onset[pinpointed[1]] \in Int
            BY <2>0, <4>3 DEF TypeOK, Candidates
          <6> QED BY <6>1, <6>2 DEF Before
        <5>2. /\ onset[ranked[1]] \in Int /\ onset[pinpointed[1]] \in Int
              /\ onset[s] \in Int
          BY <2>0, <4>3, <4>5 DEF TypeOK, Candidates
        <5> QED BY <4>5, <5>1, <5>2
      <4> QED BY <4>5, <4>6, <4>7 DEF P
    <3>2. ASSUME verdict = "pathology", NEW x \in abnormal \cap dom.exogenous,
                 \A s \in abnormal \ {x} : onset[x] < onset[s]
          PROVE  trend[x] = "down"
      <4>1. MovedFirst(x)
        BY <3>2 DEF MovedFirst, IsFirst, Before
      <4> QED BY <2>2, <3>2, <4>1 DEF Classify
    <3>3. ASSUME verdict = "capacity"
          PROVE  \E x \in abnormal \cap dom.exogenous :
                   \A s \in Candidates : onset[x] <= onset[s] /\ trend[x] # "down"
      <4>1. CASE abnormal \subseteq Excluded /\ abnormal \cap dom.exogenous # {}
        <5>1. Candidates = {}
          BY <4>1 DEF Candidates
        <5> QED BY <4>1, <5>1
      <4>2. CASE \E x \in dom.exogenous : MovedFirst(x) /\ trend[x] # "down"
        <5>1. PICK x \in dom.exogenous : MovedFirst(x) /\ trend[x] # "down"
          BY <4>2
        <5>2. x \in abnormal /\ \A s \in abnormal \ {x} : Before(x, s)
          BY <5>1 DEF MovedFirst, IsFirst
        <5>3. ASSUME NEW s \in Candidates PROVE onset[x] <= onset[s]
          <6>1. s \in abnormal
            BY DEF Candidates
          <6>2. onset[x] \in Int /\ onset[s] \in Int
            BY <3>0, <5>2, <6>1
          <6>3. s = x \/ Before(x, s)
            BY <5>2, <6>1
          <6> QED BY <6>2, <6>3 DEF Before
        <5> QED BY <5>1, <5>2, <5>3
      <4> QED BY <2>2, <3>3, <4>1, <4>2 DEF Classify
    <3>4. ASSUME verdict = "external"
          PROVE  /\ abnormal = Services /\ Excluded = {} /\ pinpointed = <<>>
                 /\ \E d \in Directions : {trend[s] : s \in abnormal} \ {"mixed"} = {d}
      <4>1. pinpointed = <<>> /\ ~(Excluded # {} /\ abnormal \subseteq Excluded)
        BY <2>2, <3>4 DEF Classify
      <4>2. ~Anchored
        BY <4>1 DEF Anchored
      <4>3. ~(Candidates = {})
        BY <2>2, <4>1 DEF Candidates
      <4>4. ExternalCause
        BY <2>0, <4>2, <4>3 DEF Concluded
      <4>5. Cardinality(abnormal) >= Cardinality(Services)
        BY <4>4 DEF ExternalCause
      <4>6. /\ Cardinality(abnormal) <= Cardinality(Services)
            /\ Cardinality(Services) = Cardinality(abnormal) => Services = abnormal
        BY <3>0, FS_Subset, ServicesAssumption
      <4>7. Cardinality(abnormal) \in Nat /\ Cardinality(Services) \in Nat
        BY <3>0, FS_Subset, FS_CardinalityType, ServicesAssumption
      <4>8. abnormal = Services
        BY <4>5, <4>6, <4>7
      <4> QED BY <4>1, <4>4, <4>8 DEF ExternalCause
    <3>5. ASSUME verdict = "no_anomaly"
          PROVE  Candidates = {} /\ abnormal \cap dom.exogenous = {}
      <4>1. abnormal \subseteq Excluded /\ abnormal \cap dom.exogenous = {}
        BY <2>2, <3>5 DEF Classify
      <4> QED BY <4>1 DEF Candidates
    <3> QED BY <3>1, <3>2, <3>3, <3>4, <3>5 DEF ReportConsistent
  <2> QED BY <1>2, <2>1, <2>2 DEF ReportInv
<1>3. IInv /\ ReportInv => ReportConsistent
  BY <1>2 DEF ReportConsistent
<1>4. IInv => TypeOK
  BY DEF IInv
<1> QED BY <1>1, <1>3, <1>4, StepReport, Invariance, PTL DEF Spec
-----------------------------------------------------------------------------
(* Refinement of RootCauses. *)

\* The two modules read the evidence alike.
LEMMA SameReading ==
  ASSUME abnormal \subseteq Services
  PROVE  /\ RC!External <=> ExternalCause
         /\ RC!Candidates = Candidates
         /\ \A s, t : RC!Before(s, t) <=> Before(s, t)
         /\ \A s, t : RC!Linked(s, t) <=> Linked(s, t)
<1>1. \A s, t : RC!HasPath(s, t) <=> HasPath(s, t)
  BY DEF RC!HasPath, HasPath, RC!D!Reachable, D!Reachable, RC!D!Closed, D!Closed
<1>2. RC!Barred = Excluded
  BY <1>1 DEF RC!Barred, Excluded
<1>3. RC!External <=> ExternalCause
  <2>1. Cardinality(abnormal) >= Cardinality(Services) <=> abnormal = Services
    <3>1. /\ Cardinality(abnormal) <= Cardinality(Services)
          /\ Cardinality(Services) = Cardinality(abnormal) => Services = abnormal
      BY FS_Subset, ServicesAssumption
    <3>2. Cardinality(abnormal) \in Nat /\ Cardinality(Services) \in Nat
      BY FS_Subset, FS_CardinalityType, ServicesAssumption
    <3>3. QED
      BY <3>1, <3>2
  <2>2. QED
    BY <1>2, <2>1 DEF RC!External, ExternalCause, Directions
<1>4. RC!Candidates = Candidates
  BY <1>2 DEF RC!Candidates, Candidates
<1>5. \A s, t : RC!Before(s, t) <=> Before(s, t)
  BY DEF RC!Before, Before
<1>6. \A s, t : RC!Linked(s, t) <=> Linked(s, t)
  BY <1>1 DEF RC!Linked, Linked
<1>7. QED
  BY <1>3, <1>4, <1>5, <1>6

\* When the scans are over the roots are those the specification allows.
LEMMA ConcludedAreRootCauses ==
  ASSUME TypeOK, Concluded
  PROVE  RC!AreRootCauses(P)
<1>0. /\ RC!External <=> ExternalCause
      /\ RC!Candidates = Candidates
      /\ \A s, t : RC!Before(s, t) <=> Before(s, t)
      /\ \A s, t : RC!Linked(s, t) <=> Linked(s, t)
  BY SameReading DEF TypeOK
<1>1. CASE pinpointed = <<>> /\ (ExternalCause \/ Candidates = {})
  <2>1. P = {}
    BY <1>1 DEF P, InSeq
  <2>2. QED
    BY <1>0, <1>1, <2>1 DEF RC!AreRootCauses
<1>2. CASE Anchored /\ \A s \in Candidates : Decided(s)
  <2>1. /\ P \subseteq Candidates /\ Candidates \subseteq Services
        /\ IsFirst(pinpointed[1], Candidates)
    BY <1>2 DEF Anchored, Candidates, TypeOK
  <2>2. ASSUME NEW p \in Candidates, \A t \in Candidates \ {p} : Before(p, t)
        PROVE  p = pinpointed[1]
    BY <2>1, <2>2, BeforeOrder DEF IsFirst, TypeOK
  <2>3. ASSUME NEW r \in P, NEW s \in Candidates
        PROVE  RC!Excuses(r, s) <=> Excuses(r, s)
    <3>1. RC!Excuses(r, s) <=>
            /\ Before(r, s) /\ Linked(r, s)
            /\ \E p \in Candidates :
                 /\ \A t \in Candidates \ {p} : Before(p, t)
                 /\ IF dom.useMap THEN onset[s] - onset[p] <= dom.pathThreshold[r][s]
                    ELSE onset[s] - onset[p] > dom.threshold
      BY <1>0 DEF RC!Excuses
    <3>2. QED
      BY <2>1, <2>2, <3>1 DEF Excuses, OnsetDiff, IsFirst
  <2>4. QED
    BY <1>0, <1>2, <2>1, <2>3 DEF RC!AreRootCauses, Decided, Anchored
<1>3. QED
  BY <1>1, <1>2 DEF Concluded

\* A step of the pipeline collects evidence, decides, or is invisible.
LEMMA StepRefines == IInv /\ IInv' /\ [Next]_vars => [RC!Next]_(RC!vars)
<1> DEFINE decided == pc \in {"rank", "done"}
<1> SUFFICES ASSUME IInv, IInv', [Next]_vars
             PROVE  RC!Next \/ UNCHANGED RC!vars
  OBVIOUS
<1>1. TypeOK /\ TypeOK'
  BY DEF IInv
<1>2. ASSUME NEW s \in Services, AnalyseNormal(s) \/ AnalyseAbnormal(s), ~decided'
      PROVE  RC!Collect
  <2>1. ~decided
    BY <1>2 DEF AnalyseNormal, AnalyseAbnormal
  <2>2. dom' = dom /\ abnormal \subseteq abnormal'
    BY <1>2 DEF AnalyseNormal, AnalyseAbnormal, AfterAnalysis, evidence
  <2>3. QED
    BY <1>2, <2>1, <2>2 DEF RC!Collect
<1>3. ASSUME decided', ~decided, UNCHANGED <<dom, evidence>>
      PROVE  RC!Decide
  <2>1. Concluded'
    BY <1>3 DEF IInv
  <2>2. RC!AreRootCauses(P)'
    <3>1. TypeOK' /\ Concluded' => RC!AreRootCauses(P)'
      BY ConcludedAreRootCauses, PTL
    <3>2. QED
      BY <1>1, <2>1, <3>1
  <2>3. dom' = dom /\ abnormal' = abnormal /\ onset' = onset /\ trend' = trend
    BY <1>3 DEF evidence
  <2>4. RC!AreRootCauses(P')
    <3>1. RC!Barred' = RC!Barred
      BY <2>3 DEF RC!Barred, RC!HasPath
    <3>2. RC!External' <=> RC!External
      BY <2>3, <3>1 DEF RC!External
    <3>3. RC!Candidates' = RC!Candidates
      BY <2>3, <3>1 DEF RC!Candidates
    <3>4. \A s, t : RC!Before(s, t)' <=> RC!Before(s, t)
      BY <2>3 DEF RC!Before
    <3>5. \A s, t : RC!Linked(s, t)' <=> RC!Linked(s, t)
      BY <2>3 DEF RC!Linked, RC!HasPath
    <3>6. \A s, t : RC!Excuses(s, t)' <=> RC!Excuses(s, t)
      BY <2>3, <3>3, <3>4, <3>5 DEF RC!Excuses
    <3>7. QED
      BY <2>2, <3>2, <3>3, <3>6 DEF RC!AreRootCauses
  <2>5. QED
    BY <1>3, <2>3, <2>4 DEF RC!Decide, P
<1>4. ASSUME NEW s \in Services, AnalyseNormal(s) \/ AnalyseAbnormal(s), decided'
      PROVE  RC!Decide
  <2>1. ~decided /\ dom' = dom
    BY <1>4 DEF AnalyseNormal, AnalyseAbnormal, AfterAnalysis
  <2>2. abnormal' = {}
    BY <1>4 DEF AnalyseNormal, AnalyseAbnormal, AfterAnalysis, evidence
  <2>3. AnalyseNormal(s)
    BY <1>4, <2>2 DEF AnalyseAbnormal
  <2>4. UNCHANGED <<dom, evidence>>
    BY <2>1, <2>3 DEF AnalyseNormal
  <2>5. QED
    BY <1>3, <1>4, <2>1, <2>4
<1>5. CASE Layer6External \/ Layer6NoCandidate \/ Layer8End
  <2>1. decided' /\ ~decided /\ UNCHANGED <<dom, evidence>>
    BY <1>5 DEF Layer6External, Layer6NoCandidate, Layer8End
  <2>2. QED
    BY <1>3, <2>1 DEF RC!Next
<1>6. ASSUME NEW s \in Services,
             \/ Layer6Primary(s) \/ Layer7Concurrent(s) \/ Layer7Break(s)
             \/ Layer7Map(s) \/ Layer8Filter(s)
      PROVE  UNCHANGED RC!vars
  <2>1. ~decided /\ ~decided' /\ UNCHANGED <<dom, abnormal, onset, trend>>
    BY <1>6
    DEF Layer6Primary, Layer7Concurrent, Layer7Break, Layer7Map, Layer8Filter, evidence
  <2>2. QED
    BY <2>1 DEF RC!vars
<1>7. CASE Layer7End
  BY <1>7 DEF Layer7End, RC!vars, evidence
<1>8. CASE Rank
  <2>1. /\ decided /\ decided' /\ UNCHANGED <<dom, abnormal, onset, trend, pinpointed>>
    BY <1>8 DEF Rank, evidence
  <2>2. QED
    BY <2>1 DEF RC!vars, InSeq
<1>9. CASE UNCHANGED vars
  BY <1>9 DEF vars, RC!vars, InSeq
<1>10. QED
  BY <1>2, <1>4, <1>5, <1>6, <1>7, <1>8, <1>9 DEF Next, RC!Next

\* The scans of Layers 6-8 implement RootCauses: in every domain, for all evidence,
\* the roots named are the set in which a candidate is left out exactly if a root
\* before it excuses it.
THEOREM PipelineImplementsRootCauses == Spec => ImplementsRootCauses
<1>1. Init => RC!Init
  BY DEF Init, RC!Init
<1>2. QED
  BY <1>1, StepRefines, Invariance, PTL DEF Spec, RC!Spec, ImplementsRootCauses
-----------------------------------------------------------------------------
(* A diagnosis is short *)

\* What the phases still cost at most, and the services that the loop of this one has
\* left.
Remaining ==
  LET all == Cardinality(Services)
      rest == [done |-> 0, rank |-> 1, layer8 |-> 2, layer7 |-> 3 + all,
               layer6 |-> 4 + 2 * all, analyse |-> 4 + 2 * all]
  IN rest[pc] + IF pc \in {"analyse", "layer7", "layer8"} THEN Cardinality(todo) ELSE 0

LEMMA PartOfServices ==
  /\ Cardinality(Services) \in Nat
  /\ \A T \in SUBSET Services :
       /\ Cardinality(T) \in Nat /\ Cardinality(T) <= Cardinality(Services)
       /\ \A s \in T : /\ Cardinality(T \ {s}) = Cardinality(T) - 1
                       /\ Cardinality(T) >= 1
<1>1. Cardinality(Services) \in Nat
  BY ServicesAssumption, FS_CardinalityType
<1>2. ASSUME NEW T \in SUBSET Services
      PROVE  /\ IsFiniteSet(T) /\ Cardinality(T) \in Nat
             /\ Cardinality(T) <= Cardinality(Services)
  <2>1. IsFiniteSet(T) /\ Cardinality(T) <= Cardinality(Services)
    BY ServicesAssumption, FS_Subset
  <2> QED BY <2>1, FS_CardinalityType
<1>3. ASSUME NEW T \in SUBSET Services, NEW s \in T
      PROVE  Cardinality(T \ {s}) = Cardinality(T) - 1 /\ Cardinality(T) >= 1
  <2>1. Cardinality(T \ {s}) = Cardinality(T) - 1
    BY <1>2, FS_RemoveElement
  <2>2. T \ {s} \in SUBSET Services
    OBVIOUS
  <2>3. Cardinality(T \ {s}) \in Nat
    BY <1>2, <2>2
  <2> QED BY <1>2, <2>1, <2>3
<1> QED BY <1>1, <1>2, <1>3

LEMMA RemainingType ==
  ASSUME TypeOK
  PROVE  Remaining \in 0 .. 3 * Cardinality(Services) + 4
<1>1. Cardinality(Services) \in Nat /\ Cardinality(todo) \in Nat
      /\ Cardinality(todo) <= Cardinality(Services)
  BY PartOfServices DEF TypeOK
<1>2. pc \in {"analyse", "layer6", "layer7", "layer8", "rank", "done"}
  BY DEF TypeOK, Phases
<1> QED BY <1>1, <1>2 DEF Remaining

LEMMA StepShortens == ASSUME TypeOK, Next PROVE Remaining' < Remaining
<1> DEFINE all == Cardinality(Services)
           c == Cardinality(todo)
           d == Cardinality(todo')
<1>0. /\ all \in Nat /\ c \in Nat /\ c <= all
      /\ Cardinality(Candidates) \in Nat /\ Cardinality(Candidates) <= all
      /\ \A s \in Candidates : Cardinality(Candidates \ {s}) = Cardinality(Candidates) - 1
      /\ \A s \in todo : Cardinality(todo \ {s}) = c - 1 /\ c >= 1
  <2>1. todo \in SUBSET Services /\ Candidates \in SUBSET Services
    BY DEF TypeOK, Candidates
  <2> QED BY <2>1, PartOfServices
<1>1. ASSUME NEW s \in Services, AnalyseNormal(s) \/ AnalyseAbnormal(s)
      PROVE  Remaining' < Remaining
  <2>1. s \in todo /\ todo' = todo \ {s} /\ pc = "analyse" /\ pc' \in {"analyse", "done", "layer6"}
    BY <1>1 DEF AnalyseNormal, AnalyseAbnormal, AfterAnalysis, NextInMatrix
  <2>2. d = c - 1 /\ c >= 1
    BY <1>0, <2>1
  <2> HIDE DEF c, d, all
  <2> QED BY <1>0, <2>1, <2>2 DEF Remaining, c, d, all
<1>2. ASSUME NEW s \in Services, Layer6Primary(s)
      PROVE  Remaining' < Remaining
  <2>1. s \in Candidates /\ todo' = Candidates \ {s} /\ pc = "layer6" /\ pc' = "layer7"
    BY <1>2 DEF Layer6Primary, IsFirst
  <2>2. d = Cardinality(Candidates) - 1
    BY <1>0, <2>1
  <2> QED BY <1>0, <2>1, <2>2 DEF Remaining
<1>3. ASSUME NEW s \in Services, Layer7Concurrent(s) \/ Layer7Map(s) \/ Layer8Filter(s)
      PROVE  Remaining' < Remaining
  <2>1. s \in todo /\ todo' = todo \ {s} /\ pc \in {"layer7", "layer8"} /\ pc' = pc
    BY <1>3 DEF Layer7Concurrent, Layer7Map, Layer8Filter, IsFirst
  <2>2. d = c - 1 /\ c >= 1
    BY <1>0, <2>1
  <2> QED BY <1>0, <2>1, <2>2 DEF Remaining
<1>4. ASSUME Layer7End \/ \E s \in Services : Layer7Break(s) PROVE Remaining' < Remaining
  <2>1. todo' = Candidates /\ pc = "layer7" /\ pc' = "layer8"
    BY <1>4 DEF Layer7End, Layer7Break
  <2> QED BY <1>0, <2>1 DEF Remaining
<1>5. CASE Layer6External \/ Layer6NoCandidate
  BY <1>0, <1>5 DEF Layer6External, Layer6NoCandidate, Remaining
<1>6. CASE Layer8End
  BY <1>0, <1>6 DEF Layer8End, Remaining
<1>7. CASE Rank
  BY <1>7 DEF Rank, Remaining
<1> QED BY <1>1, <1>2, <1>3, <1>4, <1>5, <1>6, <1>7 DEF Next

\* However the evidence falls, a diagnosis takes at most three steps a service and four:
\* the loops of Layers 5, 7 and 8 visit each service once at most, although Layer 8
\* appends to the list of roots that it compares with (fault_chain.py:326-394 and 598-690).
THEOREM DiagnosesAreShort ==
  Spec => /\ [](Remaining \in 0 .. 3 * Cardinality(Services) + 4)
          /\ [][Next => Remaining' < Remaining]_vars
<1>1. TypeOK => Remaining \in 0 .. 3 * Cardinality(Services) + 4
  BY RemainingType
<1>2. TypeOK /\ [Next]_vars => [Next => Remaining' < Remaining]_vars
  BY StepShortens
<1>3. Spec => []TypeOK
  BY TypeCorrect
<1> QED BY <1>1, <1>2, <1>3, PTL DEF Spec
-----------------------------------------------------------------------------
(***************************************************************************)
(* The searches of Layers 7 and 8.  FaultChain asks for a path with        *)
(* Reachable; here the loops of has_path and find_path, HasPathBFS with    *)
(* its own graph and state, are shown to answer that question.             *)
(***************************************************************************)
-----------------------------------------------------------------------------
(* Induction and lists *)

LEMMA Least ==
  ASSUME NEW S, S \subseteq Nat, S # {}
  PROVE  \E x \in S : \A y \in S : x <= y
<1>1. PICK x \in S : \A y \in S : ~(<<y, x>> \in OpToRel(<, Nat))
  BY NatLessThanWellFounded, WFMin
<1>2. \A y \in S : ~(y < x)
  BY <1>1 DEF OpToRel
<1>3. \A y \in S : x <= y
  BY <1>2
<1> QED BY <1>3

\* What holds at zero, and from each number to the next, holds up to b.
LEMMA UpTo ==
  ASSUME NEW b \in Nat, NEW N, 0 \in N, \A n \in 0 .. b - 1 : n \in N => n + 1 \in N
  PROVE  \A n \in 0 .. b : n \in N
<1> DEFINE Bad == {n \in Nat : n <= b /\ n \notin N}
<1>1. ASSUME NEW n \in Bad, \A k \in Bad : n <= k PROVE FALSE
  <2>1. n \in Nat /\ n <= b /\ n \notin N /\ n # 0
    OBVIOUS
  <2>2. n - 1 \in 0 .. b - 1 /\ (n - 1) + 1 = n /\ n - 1 \in Nat
    BY <2>1
  <2>3. n - 1 \in Bad
    BY <2>1, <2>2
  <2> QED BY <1>1, <2>1, <2>3
<1>2. Bad = {}
  BY <1>1, Least
<1> QED BY <1>2

Members(q) == {q[i] : i \in DOMAIN q}

\* Unseen by its recursion.
KeptTo(list, seen, b, f) ==
  f = [i \in 0 .. b |-> IF i = 0 THEN <<>>
                        ELSE IF list[i] \in seen THEN f[i - 1]
                        ELSE Append(f[i - 1], list[i])]

LEMMA KeptExists ==
  ASSUME NEW list, NEW seen, NEW b \in Nat
  PROVE  \E f : KeptTo(list, seen, b, f)
<1> DEFINE N == {n \in 0 .. b : \E f : KeptTo(list, seen, n, f)}
           Next1(q, n) == IF list[n] \in seen THEN q ELSE Append(q, list[n])
<1>1. 0 \in N
  <2> DEFINE f == [i \in 0 .. 0 |-> <<>>]
  <2>1. KeptTo(list, seen, 0, f)
    BY DEF KeptTo
  <2> QED BY <2>1
<1>2. ASSUME NEW n \in 0 .. b - 1, n \in N PROVE n + 1 \in N
  <2>1. PICK f : KeptTo(list, seen, n, f)
    BY <1>2
  <2> DEFINE g == [i \in 0 .. n + 1 |-> IF i = n + 1 THEN Next1(f[n], n + 1) ELSE f[i]]
  <2>2. ASSUME NEW i \in 0 .. n + 1
        PROVE  g[i] = IF i = 0 THEN <<>> ELSE Next1(g[i - 1], i)
    <3>1. CASE i = n + 1
      <4>1. n \in 0 .. n + 1 /\ n # n + 1 /\ i - 1 = n /\ i # 0
        BY <3>1
      <4>2. g[n] = f[n] /\ g[i] = Next1(f[n], i)
        BY <3>1, <4>1
      <4> HIDE DEF g, Next1
      <4> QED BY <4>1, <4>2
    <3>2. CASE i # n + 1
      <4>1. i \in 0 .. n /\ (i # 0 => i - 1 \in 0 .. n)
        BY <3>2
      <4>2. g[i] = f[i] /\ (i # 0 => g[i - 1] = f[i - 1])
        BY <3>2, <4>1
      <4>3. f[i] = IF i = 0 THEN <<>> ELSE Next1(f[i - 1], i)
        BY <2>1, <4>1 DEF KeptTo
      <4> HIDE DEF g, Next1
      <4> QED BY <4>2, <4>3
    <3> QED BY <3>1, <3>2
  <2>3. KeptTo(list, seen, n + 1, g)
    <3>1. g = [i \in 0 .. n + 1 |-> g[i]]
      OBVIOUS
    <3> HIDE DEF g
    <3> QED BY <2>2, <3>1 DEF KeptTo
  <2>4. n + 1 \in 0 .. b
    OBVIOUS
  <2> QED BY <2>3, <2>4
<1> HIDE DEF N
<1>3. \A n \in 0 .. b : n \in N
  BY <1>1, <1>2, UpTo
<1>4. b \in N
  BY <1>3
<1> QED BY <1>4 DEF N

LEMMA Appended ==
  ASSUME NEW S, NEW q \in Seq(S), NEW x \in S
  PROVE  Members(Append(q, x)) = Members(q) \cup {x}
<1>1. /\ Len(q) \in Nat /\ DOMAIN q = 1 .. Len(q) /\ DOMAIN Append(q, x) = 1 .. Len(q) + 1
      /\ \A i \in 1 .. Len(q) : Append(q, x)[i] = q[i]
      /\ Append(q, x)[Len(q) + 1] = x
  OBVIOUS
<1>2. ASSUME NEW i \in DOMAIN Append(q, x) PROVE Append(q, x)[i] \in Members(q) \cup {x}
  <2>1. i \in 1 .. Len(q) \/ i = Len(q) + 1
    BY <1>1
  <2> QED BY <1>1, <2>1 DEF Members
<1>3. ASSUME NEW i \in DOMAIN q PROVE q[i] \in Members(Append(q, x))
  <2>1. i \in 1 .. Len(q) + 1
    BY <1>1
  <2> QED BY <1>1, <2>1 DEF Members
<1>4. x \in Members(Append(q, x))
  <2>1. Len(q) + 1 \in 1 .. Len(q) + 1
    BY <1>1
  <2> QED BY <1>1, <2>1 DEF Members
<1>5. \A y : y \in Members(Append(q, x)) <=> y \in Members(q) \cup {x}
  BY <1>2, <1>3, <1>4 DEF Members
<1> QED BY <1>5

LEMMA UnseenIs ==
  ASSUME NEW S, NEW list \in Seq(S), NEW seen
  PROVE  /\ Unseen(list, seen) \in Seq(S)
         /\ Members(Unseen(list, seen)) = Members(list) \ seen
<1> DEFINE b == Len(list)
           f == CHOOSE f : KeptTo(list, seen, b, f)
<1>1. b \in Nat /\ DOMAIN list = 1 .. b
  OBVIOUS
<1>2. Unseen(list, seen) = f[b]
  BY DEF Unseen, KeptTo
<1>3. KeptTo(list, seen, b, f)
  BY <1>1, KeptExists
<1> HIDE DEF f, b
<1> DEFINE Held(n) == {list[k] : k \in 1 .. n} \ seen
           N == {n \in 0 .. b : f[n] \in Seq(S) /\ Members(f[n]) = Held(n)}
<1>4. 0 \in N
  <2>1. f[0] = <<>>
    BY <1>1, <1>3 DEF KeptTo
  <2>2. Members(<<>>) = {} /\ Held(0) = {} /\ <<>> \in Seq(S)
    BY DEF Members
  <2>3. 0 \in 0 .. b
    BY <1>1
  <2> HIDE DEF Held
  <2> QED BY <2>1, <2>2, <2>3
<1>5. ASSUME NEW n \in 0 .. b - 1, n \in N PROVE n + 1 \in N
  <2>1. n \in Nat /\ n + 1 \in 0 .. b /\ n + 1 \in DOMAIN list /\ (n + 1) - 1 = n /\ n + 1 # 0
    BY <1>1
  <2>2. f[n + 1] = IF list[n + 1] \in seen THEN f[n] ELSE Append(f[n], list[n + 1])
    BY <1>3, <2>1 DEF KeptTo
  <2>3. list[n + 1] \in S /\ f[n] \in Seq(S) /\ Members(f[n]) = Held(n)
    BY <1>5, <2>1
  <2>4. Held(n + 1) = IF list[n + 1] \in seen THEN Held(n) ELSE Held(n) \cup {list[n + 1]}
    BY <2>1
  <2>5. Members(Append(f[n], list[n + 1])) = Members(f[n]) \cup {list[n + 1]}
    BY <2>3, Appended
  <2>6. f[n + 1] \in Seq(S) /\ Members(f[n + 1]) = Held(n + 1)
    <3> HIDE DEF Held
    <3>1. CASE list[n + 1] \in seen
      BY <2>2, <2>3, <2>4, <3>1
    <3>2. CASE list[n + 1] \notin seen
      <4>1. f[n + 1] = Append(f[n], list[n + 1]) /\ Held(n + 1) = Held(n) \cup {list[n + 1]}
        BY <2>2, <2>4, <3>2
      <4>2. Append(f[n], list[n + 1]) \in Seq(S)
        BY <2>3
      <4> QED BY <2>3, <2>5, <4>1, <4>2
    <3> QED BY <3>1, <3>2
  <2> QED BY <2>1, <2>6
<1> HIDE DEF N
<1>6. b \in N
  BY <1>1, <1>4, <1>5, UpTo
<1>7. Held(b) = Members(list) \ seen
  BY <1>1 DEF Members
<1> QED BY <1>2, <1>6, <1>7 DEF N

LEMMA Popped ==
  ASSUME NEW S, NEW q \in Seq(S), q # <<>>
  PROVE  /\ Head(q) \in S /\ Tail(q) \in Seq(S)
         /\ Members(q) = {Head(q)} \cup Members(Tail(q))
<1>1. /\ Head(q) = q[1] /\ Tail(q) \in Seq(S) /\ Len(q) \in Nat /\ Len(q) >= 1
      /\ DOMAIN q = 1 .. Len(q) /\ DOMAIN Tail(q) = 1 .. Len(q) - 1
      /\ \A i \in 1 .. Len(q) - 1 : Tail(q)[i] = q[i + 1]
  OBVIOUS
<1>2. ASSUME NEW x PROVE x \in Members(q) <=> x \in {Head(q)} \cup Members(Tail(q))
  <2>1. ASSUME NEW i \in DOMAIN q PROVE q[i] = Head(q) \/ q[i] \in Members(Tail(q))
    <3>1. i = 1 \/ (i - 1 \in 1 .. Len(q) - 1 /\ (i - 1) + 1 = i)
      BY <1>1
    <3> QED BY <1>1, <3>1 DEF Members
  <2>2. ASSUME NEW i \in DOMAIN Tail(q) PROVE Tail(q)[i] \in Members(q)
    <3>1. i \in 1 .. Len(q) - 1 /\ i + 1 \in DOMAIN q
      BY <1>1
    <3> QED BY <1>1, <3>1 DEF Members
  <2>3. Head(q) \in Members(q)
    <3>1. 1 \in DOMAIN q
      BY <1>1
    <3> QED BY <1>1, <3>1 DEF Members
  <2> QED BY <2>1, <2>2, <2>3 DEF Members
<1> QED BY <1>1, <1>2

IsJoin(r, p, q) == r = p \o q

LEMMA JoinIs ==
  ASSUME NEW S, NEW p \in Seq(S), NEW q \in Seq(S), NEW r, IsJoin(r, p, q)
  PROVE  /\ r \in Seq(S) /\ DOMAIN r = 1 .. Len(p) + Len(q)
         /\ \A i \in 1 .. Len(p) : r[i] = p[i]
         /\ \A i \in 1 .. Len(q) : r[Len(p) + i] = q[i]
BY DEF IsJoin

LEMMA Joined ==
  ASSUME NEW S, NEW p \in Seq(S), NEW q \in Seq(S)
  PROVE  /\ p \o q \in Seq(S)
         /\ Members(p \o q) = Members(p) \cup Members(q)
<1>1. /\ p \o q \in Seq(S) /\ Len(p) \in Nat /\ Len(q) \in Nat
      /\ DOMAIN p = 1 .. Len(p) /\ DOMAIN q = 1 .. Len(q)
      /\ DOMAIN (p \o q) = 1 .. Len(p) + Len(q)
      /\ \A i \in 1 .. Len(p) : (p \o q)[i] = p[i]
      /\ \A i \in 1 .. Len(q) : (p \o q)[Len(p) + i] = q[i]
  OBVIOUS
<1>2. ASSUME NEW i \in DOMAIN (p \o q) PROVE (p \o q)[i] \in Members(p) \cup Members(q)
  <2>1. i \in 1 .. Len(p) \/ (i - Len(p) \in 1 .. Len(q) /\ Len(p) + (i - Len(p)) = i)
    BY <1>1
  <2> QED BY <1>1, <2>1 DEF Members
<1>3. ASSUME NEW i \in DOMAIN p PROVE p[i] \in Members(p \o q)
  <2>1. i \in 1 .. Len(p) + Len(q)
    BY <1>1
  <2> QED BY <1>1, <2>1 DEF Members
<1>4. ASSUME NEW i \in DOMAIN q PROVE q[i] \in Members(p \o q)
  <2>1. Len(p) + i \in 1 .. Len(p) + Len(q)
    BY <1>1
  <2> QED BY <1>1, <2>1 DEF Members
<1>5. \A x : x \in Members(p \o q) <=> x \in Members(p) \cup Members(q)
  BY <1>2, <1>3, <1>4 DEF Members
<1> QED BY <1>1, <1>5
-----------------------------------------------------------------------------
(* has_path *)

\* What is queued or visited is reachable; and until the answer is found nothing
\* reachable is lost: the visited nodes are closed but for what is queued.
HasInv ==
  /\ adj \in [Nodes -> Seq(Nodes)] /\ src \in Nodes /\ dst \in Nodes
  /\ queue \in Seq(Nodes) /\ visited \subseteq Nodes
  /\ answer \in {"searching", "yes", "no"}
  /\ \A n \in visited \cup Members(queue) : Reachable(Succ, src, n)
  /\ answer = "searching" =>
       /\ src # dst
       /\ src \in visited \cup Members(queue)
       /\ dst \notin visited
       /\ \A n \in visited : Succ[n] \subseteq visited \cup Members(queue)
  /\ HasPathExact

LEMMA SuccType ==
  ASSUME adj \in [Nodes -> Seq(Nodes)], NEW n \in Nodes
  PROVE  /\ DOMAIN Succ = Nodes /\ Succ[n] = Members(adj[n]) /\ Succ[n] \subseteq Nodes
         /\ \A x \in Succ[n] : \A c :
              Reachable(Succ, c, n) => Reachable(Succ, c, x)
<1>1. adj[n] \in Seq(Nodes) /\ DOMAIN Succ = Nodes /\ Succ[n] = Members(adj[n])
  BY DEF Succ, Members
<1>2. \A i \in DOMAIN adj[n] : adj[n][i] \in Nodes
  BY <1>1
<1>3. Succ[n] \subseteq Nodes
  BY <1>1, <1>2 DEF Members
<1> QED BY <1>1, <1>3 DEF Reachable, Closed

LEMMA InitHasInv == GraphsAssumption /\ SearchInit => HasInv
<1> SUFFICES ASSUME GraphsAssumption, SearchInit PROVE HasInv
  OBVIOUS
<1>1. adj \in [Nodes -> Seq(Nodes)] /\ src \in Nodes /\ dst \in Nodes
  BY DEF SearchInit, GraphsAssumption
<1>2. Reachable(Succ, src, src)
  BY DEF Reachable
<1>3. queue \in Seq(Nodes) /\ Members(queue) = {src}
  BY <1>1 DEF SearchInit, Members
<1> QED BY <1>1, <1>2, <1>3 DEF SearchInit, HasInv, HasPathExact

\* Nothing is queued and nothing was found: the visited nodes are the reachable ones.
LEMMA HasExhaustedStep == ASSUME HasInv, HasExhausted PROVE HasInv'
<1>1. /\ answer = "searching" /\ answer' = "no" /\ queue = <<>>
      /\ UNCHANGED <<adj, src, dst, queue, visited>>
  BY DEF HasExhausted, query
<1>2. Members(queue) = {}
  BY <1>1 DEF Members
<1>3. Closed(Succ, visited) /\ src \in visited /\ dst \notin visited
  BY <1>1, <1>2 DEF HasInv, Closed
<1>4. visited \in SUBSET DOMAIN Succ
  BY DEF HasInv, Succ
<1>5. ~Reachable(Succ, src, dst)
  BY <1>3, <1>4 DEF Reachable
<1>6. Succ' = Succ /\ Members(queue)' = Members(queue)
  BY <1>1 DEF Succ
<1> QED BY <1>1, <1>5, <1>6 DEF HasInv, HasPathExact

LEMMA HasPopStep == ASSUME HasInv, HasFound \/ HasSkip PROVE HasInv'
<1>1. /\ answer = "searching" /\ queue # <<>> /\ queue' = Tail(queue)
      /\ UNCHANGED <<adj, src, dst, visited>>
      /\ \/ Head(queue) = dst /\ answer' = "yes"
         \/ Head(queue) \in visited /\ answer' = answer
  BY DEF HasFound, HasSkip, query
<1>2. /\ Tail(queue) \in Seq(Nodes)
      /\ Members(queue) = {Head(queue)} \cup Members(Tail(queue))
  BY <1>1, Popped DEF HasInv
<1>3. Succ' = Succ /\ Members(queue)' = Members(Tail(queue))
  BY <1>1 DEF Succ
<1>4. \A n \in (visited \cup Members(queue))' : Reachable(Succ, src, n)'
  BY <1>1, <1>2, <1>3 DEF HasInv
<1>5. CASE answer' = "yes"
  <2>1. Reachable(Succ, src, dst)
    BY <1>1, <1>2, <1>5 DEF HasInv
  <2> QED BY <1>1, <1>2, <1>3, <1>4, <1>5, <2>1 DEF HasInv, HasPathExact
<1>6. CASE answer' # "yes"
  <2>1. Head(queue) \in visited /\ answer' = answer
    BY <1>1, <1>6
  <2>2. visited' \cup Members(queue)' = visited \cup Members(queue)
    BY <1>1, <1>2, <1>3, <2>1
  <2> QED BY <1>1, <1>2, <1>3, <1>4, <2>1, <2>2 DEF HasInv, HasPathExact
<1> QED BY <1>5, <1>6

LEMMA HasExpandStep == ASSUME HasInv, HasExpand PROVE HasInv'
<1> DEFINE node  == Head(queue)
           seen  == visited \cup {node}
           fresh == Unseen(adj[node], seen)
<1>1. /\ answer = "searching" /\ queue # <<>> /\ node # dst /\ node \notin visited
      /\ visited' = seen /\ queue' = Tail(queue) \o fresh
      /\ UNCHANGED <<adj, src, dst, answer>>
  BY DEF HasExpand, query
<1>2. /\ node \in Nodes /\ Tail(queue) \in Seq(Nodes)
      /\ Members(queue) = {node} \cup Members(Tail(queue))
  BY <1>1, Popped DEF HasInv
<1>3. /\ DOMAIN Succ = Nodes /\ Succ[node] = Members(adj[node])
      /\ Succ[node] \subseteq Nodes
      /\ \A x \in Succ[node] :
           Reachable(Succ, src, node) => Reachable(Succ, src, x)
  BY <1>2, SuccType DEF HasInv
<1>4. fresh \in Seq(Nodes) /\ Members(fresh) = Succ[node] \ seen
  <2>1. adj[node] \in Seq(Nodes)
    BY <1>2 DEF HasInv
  <2> QED BY <1>3, <2>1, UnseenIs
<1> HIDE DEF fresh
<1>5. queue' \in Seq(Nodes) /\ Members(queue)' = Members(Tail(queue)) \cup (Succ[node] \ seen)
  <2>1. Tail(queue) \o fresh \in Seq(Nodes)
    BY <1>2, <1>4, Joined
  <2>2. Members(Tail(queue) \o fresh) = Members(Tail(queue)) \cup Members(fresh)
    BY <1>2, <1>4, Joined
  <2>3. Members(queue)' = Members(Tail(queue) \o fresh)
    BY <1>1 DEF Members
  <2> QED BY <1>1, <1>4, <2>1, <2>2, <2>3
<1>6. visited' \cup Members(queue)' = (visited \cup Members(queue)) \cup Succ[node]
  BY <1>1, <1>2, <1>5
<1>7. Succ' = Succ
  BY <1>1 DEF Succ
<1>8. \A n \in (visited \cup Members(queue)) \cup Succ[node] : Reachable(Succ, src, n)
  BY <1>2, <1>3 DEF HasInv
<1>9. \A n \in (visited \cup Members(queue))' : Reachable(Succ, src, n)'
  BY <1>1, <1>6, <1>7, <1>8
<1>10. \A n \in visited' : Succ[n] \subseteq visited' \cup Members(queue)'
  BY <1>1, <1>6 DEF HasInv
<1>11. src \in visited' \cup Members(queue)' /\ dst \notin visited' /\ visited' \subseteq Nodes
  BY <1>1, <1>2, <1>6 DEF HasInv
<1> QED BY <1>1, <1>5, <1>7, <1>9, <1>10, <1>11 DEF HasInv, HasPathExact

LEMMA StepHasInv == HasInv /\ [SearchNext]_searchVars => HasInv'
<1> SUFFICES ASSUME HasInv, [SearchNext]_searchVars PROVE HasInv'
  OBVIOUS
<1>1. CASE HasFound \/ HasSkip
  BY <1>1, HasPopStep
<1>2. CASE HasExpand
  BY <1>2, HasExpandStep
<1>3. CASE HasExhausted
  BY <1>3, HasExhaustedStep
<1>4. CASE FindStep \/ UNCHANGED searchVars
  <2>1. UNCHANGED <<adj, src, dst, queue, visited, answer>>
    BY <1>4 DEF FindStep, FindSkip, FindFound,
                FindExpand, FindExhausted, searchVars, query, hasVars
  <2>2. Succ' = Succ /\ Members(queue)' = Members(queue)
    BY <2>1 DEF Succ
  <2> QED BY <2>1, <2>2 DEF HasInv, HasPathExact
<1> QED BY <1>1, <1>2, <1>3, <1>4 DEF SearchNext, HasStep

\* On every graph, cyclic ones included, has_path answers exactly reachability.
THEOREM SearchIsExact == SearchSpec => []HasPathExact
<1>1. HasInv => HasPathExact
  BY DEF HasInv
<1> QED BY <1>1, InitHasInv, StepHasInv, GraphsAssumption, PTL DEF SearchSpec
-----------------------------------------------------------------------------
(* find_path *)

\* The walks of k nodes from the source.
From(k) ==
  {w \in [1 .. k -> Nodes] : w[1] = src /\ \A i \in 1 .. k - 1 : w[i + 1] \in Succ[w[i]]}

\* Every queued path is one, and the queue is in layers: first the paths as long as
\* the one in front, then those one node longer.
Layered ==
  /\ \A i \in DOMAIN pqueue : Len(pqueue[i]) \in Nat \ {0} /\ pqueue[i] \in From(Len(pqueue[i]))
  /\ \A i \in DOMAIN pqueue :
       Len(pqueue[1]) <= Len(pqueue[i]) /\ Len(pqueue[i]) <= Len(pqueue[1]) + 1
  /\ \A i, k \in DOMAIN pqueue : i <= k => Len(pqueue[i]) <= Len(pqueue[k])

\* The ends of the queued paths of at most k nodes.
Ends(k) == {Last(pqueue[i]) : i \in {x \in DOMAIN pqueue : Len(pqueue[x]) <= k}}

\* No target beyond the visited nodes, and what is beyond them is queued; a walk no
\* longer than the path in front ends in a visited node or a queued path as short.
Frontier ==
  /\ src # dst
  /\ \A n \in pvisited :
       /\ dst \notin Succ[n]
       /\ Succ[n] \subseteq pvisited \cup {Last(pqueue[i]) : i \in DOMAIN pqueue}
  /\ \A i \in DOMAIN pqueue : \A k \in 1 .. Len(pqueue[1]) :
       \A w \in From(k) : w[k] \in pvisited \cup Ends(k)

FindInv ==
  /\ adj \in [Nodes -> Seq(Nodes)] /\ src \in Nodes /\ dst \in Nodes
  /\ pqueue \in Seq(Seq(Nodes)) /\ pvisited \subseteq Nodes
  /\ Layered
  /\ outcome = "searching" => Frontier
  /\ FindPathShortest

\* The queue q after a path is popped and longer ones are appended.
Pushed(q, longer) ==
  /\ pqueue # <<>>
  /\ q = Tail(pqueue) \o longer
  /\ longer \in Seq(Seq(Nodes))
  /\ \A i \in DOMAIN longer :
       /\ Len(longer[i]) = Len(Head(pqueue)) + 1
       /\ longer[i] \in From(Len(longer[i]))

LEMMA PushedQueue ==
  ASSUME FindInv, NEW q, NEW longer, Pushed(q, longer)
  PROVE  /\ q \in Seq(Seq(Nodes))
         /\ \A i \in DOMAIN q : \/ \E x \in DOMAIN pqueue : x > 1 /\ q[i] = pqueue[x]
                                \/ \E x \in DOMAIN longer : q[i] = longer[x]
         /\ \A x \in DOMAIN pqueue : x > 1 => \E i \in DOMAIN q : q[i] = pqueue[x]
         /\ \A x \in DOMAIN longer : \E i \in DOMAIN q : q[i] = longer[x]
         /\ \A i, k \in DOMAIN q : i <= k => Len(q[i]) <= Len(q[k])
         /\ \A i \in DOMAIN q : /\ Len(q[i]) \in Nat \ {0} /\ q[i] \in From(Len(q[i]))
                                /\ Len(Head(pqueue)) <= Len(q[i])
                                /\ Len(q[i]) <= Len(Head(pqueue)) + 1
<1> DEFINE a == Len(pqueue) - 1
           b == Len(longer)
           L == Len(Head(pqueue))
<1>0. PICK rest : rest = Tail(pqueue)
  OBVIOUS
<1>1. /\ pqueue \in Seq(Seq(Nodes)) /\ pqueue # <<>> /\ longer \in Seq(Seq(Nodes))
      /\ q = rest \o longer /\ rest = Tail(pqueue)
  BY <1>0 DEF FindInv, Pushed
<1>2. /\ Len(pqueue) \in Nat /\ Len(pqueue) >= 1 /\ DOMAIN pqueue = 1 .. Len(pqueue)
      /\ Head(pqueue) = pqueue[1]
      /\ rest \in Seq(Seq(Nodes)) /\ DOMAIN rest = 1 .. a /\ Len(rest) = a
      /\ \A i \in 1 .. a : rest[i] = pqueue[i + 1]
  BY <1>1
<1>3. b \in Nat /\ DOMAIN longer = 1 .. b /\ a \in Nat
  BY <1>1, <1>2
<1>4. /\ q \in Seq(Seq(Nodes)) /\ DOMAIN q = 1 .. a + b
      /\ \A i \in 1 .. a : q[i] = rest[i]
      /\ \A i \in 1 .. b : q[a + i] = longer[i]
  <2>1. IsJoin(q, rest, longer)
    BY <1>1 DEF IsJoin
  <2>2. rest \in Seq(Seq(Nodes)) /\ longer \in Seq(Seq(Nodes)) /\ Len(rest) = a
    BY <1>1, <1>2
  <2>3. PICK S : S = Seq(Nodes)
    OBVIOUS
  <2>4. rest \in Seq(S) /\ longer \in Seq(S)
    BY <2>2, <2>3
  <2>5. /\ q \in Seq(S) /\ DOMAIN q = 1 .. Len(rest) + Len(longer)
        /\ \A i \in 1 .. Len(rest) : q[i] = rest[i]
        /\ \A i \in 1 .. Len(longer) : q[Len(rest) + i] = longer[i]
    <3> HIDE DEF a, b, L
    <3> QED BY <2>1, <2>4, JoinIs
  <2> QED BY <2>2, <2>3, <2>5
<1>5. \A i \in 1 .. a : q[i] = pqueue[i + 1] /\ i + 1 \in DOMAIN pqueue /\ i + 1 > 1
  BY <1>2, <1>4
<1>6. ASSUME NEW i \in DOMAIN q
      PROVE  \/ i \in 1 .. a /\ q[i] = pqueue[i + 1] /\ i + 1 \in DOMAIN pqueue /\ i + 1 > 1
             \/ i - a \in DOMAIN longer /\ i > a /\ q[i] = longer[i - a]
  <2>1. i \in 1 .. a \/ (i - a \in 1 .. b /\ a + (i - a) = i /\ i > a)
    <3>1. i \in 1 .. a + b /\ a \in Nat /\ b \in Nat
      BY <1>3, <1>4
    <3> HIDE DEF a, b
    <3> QED BY <3>1
  <2> QED BY <1>3, <1>4, <1>5, <2>1
<1>7. L \in Nat \ {0}
  <2>1. 1 \in DOMAIN pqueue
    BY <1>2
  <2> QED BY <1>2, <2>1 DEF FindInv, Layered
<1>8. \A x \in DOMAIN pqueue : /\ Len(pqueue[x]) \in Nat \ {0} /\ pqueue[x] \in From(Len(pqueue[x]))
                               /\ L <= Len(pqueue[x]) /\ Len(pqueue[x]) <= L + 1
  BY <1>2 DEF FindInv, Layered
<1>9. \A x \in DOMAIN longer : Len(longer[x]) = L + 1 /\ longer[x] \in From(Len(longer[x]))
  BY DEF Pushed
<1> HIDE DEF L
<1>10. \A i \in DOMAIN q : /\ Len(q[i]) \in Nat \ {0} /\ q[i] \in From(Len(q[i]))
                           /\ L <= Len(q[i]) /\ Len(q[i]) <= L + 1
  BY <1>6, <1>7, <1>8, <1>9
<1>11. ASSUME NEW i \in DOMAIN q, NEW k \in DOMAIN q, i <= k PROVE Len(q[i]) <= Len(q[k])
  <2>1. CASE k > a
    <3>1. Len(q[k]) = L + 1
      <4>1. k - a \in DOMAIN longer /\ q[k] = longer[k - a]
        BY <1>3, <1>6, <2>1
      <4> QED BY <1>9, <4>1
    <3> QED BY <1>10, <3>1
  <2>2. CASE ~(k > a)
    <3>1. /\ q[i] = pqueue[i + 1] /\ q[k] = pqueue[k + 1] /\ i + 1 <= k + 1
          /\ i + 1 \in DOMAIN pqueue /\ k + 1 \in DOMAIN pqueue
      <4>1. i \in 1 .. a /\ k \in 1 .. a
        BY <1>3, <1>4, <1>11, <2>2
      <4> QED BY <1>5, <1>11, <4>1
    <3> QED BY <3>1 DEF FindInv, Layered
  <2> QED BY <2>1, <2>2
<1>12. ASSUME NEW x \in DOMAIN pqueue, x > 1 PROVE \E i \in DOMAIN q : q[i] = pqueue[x]
  <2>1. x - 1 \in 1 .. a /\ (x - 1) + 1 = x /\ x - 1 \in DOMAIN q
    <3>1. x \in 1 .. a + 1 /\ x > 1 /\ a \in Nat /\ b \in Nat /\ DOMAIN q = 1 .. a + b
      BY <1>2, <1>3, <1>4, <1>12
    <3> HIDE DEF a, b
    <3> QED BY <3>1
  <2> QED BY <1>5, <2>1
<1>13. ASSUME NEW x \in DOMAIN longer PROVE \E i \in DOMAIN q : q[i] = longer[x]
  <2>1. a + x \in DOMAIN q /\ x \in 1 .. b
    BY <1>3, <1>4
  <2> QED BY <1>4, <2>1
<1> QED BY <1>4, <1>6, <1>10, <1>11, <1>12, <1>13 DEF L

\* Without its last node a walk is a walk.
LEMMA Shortened ==
  ASSUME NEW k \in Nat, k > 1, NEW w \in From(k)
  PROVE  \E r \in From(k - 1) : r[k - 1] = w[k - 1] /\ w[k] \in Succ[r[k - 1]]
<1> DEFINE r == [i \in 1 .. k - 1 |-> w[i]]
<1>1. /\ w \in [1 .. k -> Nodes] /\ w[1] = src /\ \A i \in 1 .. k - 1 : w[i + 1] \in Succ[w[i]]
  BY DEF From
<1>2. k - 1 \in 1 .. k - 1 /\ 1 \in 1 .. k - 1 /\ (k - 1) + 1 = k
  OBVIOUS
<1>3. \A i \in 1 .. k - 1 : i \in 1 .. k
  OBVIOUS
<1>4. r \in [1 .. k - 1 -> Nodes]
  BY <1>1, <1>3
<1>5. r[1] = src /\ r[k - 1] = w[k - 1]
  BY <1>1, <1>2
<1>6. ASSUME NEW i \in 1 .. (k - 1) - 1 PROVE r[i + 1] \in Succ[r[i]]
  <2>1. i \in 1 .. k - 1 /\ i + 1 \in 1 .. k - 1
    OBVIOUS
  <2> QED BY <1>1, <2>1
<1>7. w[k] \in Succ[w[k - 1]]
  BY <1>1, <1>2
<1> HIDE DEF r
<1>8. r \in From(k - 1)
  BY <1>4, <1>5, <1>6 DEF From
<1> QED BY <1>5, <1>7, <1>8

\* With one node more it is again.
LEMMA Lengthened ==
  ASSUME adj \in [Nodes -> Seq(Nodes)], NEW p \in Seq(Nodes), Len(p) \in Nat \ {0},
         p \in From(Len(p)), NEW n \in Succ[Last(p)]
  PROVE  /\ Last(p) \in Nodes /\ n \in Nodes /\ Append(p, n) \in Seq(Nodes)
         /\ Len(Append(p, n)) = Len(p) + 1
         /\ Last(Append(p, n)) = n
         /\ Append(p, n) \in From(Len(p) + 1)
<1> DEFINE L == Len(p)
           w == Append(p, n)
<1>1. /\ L \in Nat \ {0} /\ L \in 1 .. L
      /\ p \in [1 .. L -> Nodes] /\ p[1] = src
      /\ \A i \in 1 .. L - 1 : p[i + 1] \in Succ[p[i]]
  BY DEF From
<1>2. Last(p) \in Nodes
  BY <1>1 DEF Last
<1>3. n \in Nodes
  BY <1>2, SuccType
<1>4. /\ w \in Seq(Nodes) /\ Len(w) = L + 1 /\ w \in [1 .. L + 1 -> Nodes]
      /\ \A i \in 1 .. L : w[i] = p[i]
      /\ w[L + 1] = n
  <2>1. w \in Seq(Nodes) /\ Len(w) = L + 1
    BY <1>3
  <2>2. w \in [1 .. Len(w) -> Nodes]
    <3> HIDE DEF w
    <3> QED BY <2>1
  <2>3. DOMAIN p = 1 .. L
    OBVIOUS
  <2>4. (\A i \in 1 .. L : w[i] = p[i]) /\ w[L + 1] = n
    BY <1>3, <2>3
  <2> QED BY <2>1, <2>2, <2>4
<1>5. w[1] = src
  BY <1>1, <1>4
<1>6. ASSUME NEW i \in 1 .. (L + 1) - 1 PROVE w[i + 1] \in Succ[w[i]]
  <2>1. CASE i = L
    <3>1. w[i + 1] = n /\ w[i] = Last(p)
      BY <1>1, <1>4, <2>1 DEF Last
    <3> QED BY <3>1
  <2>2. CASE i # L
    <3>1. i \in 1 .. L - 1 /\ i \in 1 .. L /\ i + 1 \in 1 .. L
      <4>1. L \in Nat
        OBVIOUS
      <4> HIDE DEF L
      <4> QED BY <2>2, <4>1
    <3> QED BY <1>1, <1>4, <3>1
  <2> QED BY <2>1, <2>2
<1>7. w \in From(L + 1)
  <2> HIDE DEF w, L
  <2> QED BY <1>4, <1>5, <1>6 DEF From
<1> QED BY <1>2, <1>3, <1>4, <1>7 DEF Last

\* A queue of paths in order, of two lengths at most, is in layers.
LEMMA LayersKept ==
  ASSUME UNCHANGED query, NEW L \in Nat, pqueue' \in Seq(Seq(Nodes)),
         \A i, k \in DOMAIN pqueue' : i <= k => Len(pqueue'[i]) <= Len(pqueue'[k]),
         \A i \in DOMAIN pqueue' :
           /\ Len(pqueue'[i]) \in Nat \ {0} /\ pqueue'[i] \in From(Len(pqueue'[i]))
           /\ L <= Len(pqueue'[i]) /\ Len(pqueue'[i]) <= L + 1
  PROVE  Layered'
<1>1. ASSUME NEW i \in DOMAIN pqueue' PROVE 1 \in DOMAIN pqueue' /\ 1 <= i
  <2>1. DOMAIN pqueue' = 1 .. Len(pqueue') /\ Len(pqueue') \in Nat
    OBVIOUS
  <2> QED BY <2>1
<1>2. ASSUME NEW i \in DOMAIN pqueue'
      PROVE  Len(pqueue'[1]) <= Len(pqueue'[i]) /\ Len(pqueue'[i]) <= Len(pqueue'[1]) + 1
  <2>1. Len(pqueue'[1]) <= Len(pqueue'[i]) /\ Len(pqueue'[1]) \in Nat /\ L <= Len(pqueue'[1])
    BY <1>1
  <2> QED BY <2>1
<1>3. \A k : From(k)' = From(k)
  BY DEF query, From, Succ
<1> QED BY <1>2, <1>3 DEF Layered

\* The walks keep their meaning, and so do the paths found.
LEMMA WalksStay ==
  ASSUME UNCHANGED query
  PROVE  /\ Succ' = Succ
         /\ \A k : From(k)' = From(k) /\ Walks(k)' = Walks(k)
BY DEF query, Succ, From, Walks

LEMMA InitFindInv == GraphsAssumption /\ SearchInit => FindInv
<1> SUFFICES ASSUME GraphsAssumption, SearchInit PROVE FindInv
  OBVIOUS
<1>1. adj \in [Nodes -> Seq(Nodes)] /\ src \in Nodes /\ dst \in Nodes
  BY DEF SearchInit, GraphsAssumption
<1>2. /\ pqueue \in Seq(Seq(Nodes)) /\ DOMAIN pqueue = {1} /\ pqueue[1] = <<src>>
      /\ Len(<<src>>) = 1 /\ Last(<<src>>) = src
  BY <1>1 DEF SearchInit, Last
<1>3. <<src>> \in From(1)
  BY <1>1 DEF From
<1>4. Layered
  <2>1. \A i \in DOMAIN pqueue : i = 1 /\ Len(pqueue[i]) = 1 /\ pqueue[i] \in From(1)
    BY <1>2, <1>3
  <2>2. PICK q : q = pqueue
    OBVIOUS
  <2>3. \A i \in DOMAIN q : i = 1 /\ Len(q[i]) = 1 /\ q[i] \in From(1)
    BY <2>1, <2>2
  <2>4. ASSUME NEW i \in DOMAIN q PROVE Len(q[i]) \in Nat \ {0} /\ q[i] \in From(Len(q[i]))
    <3>1. PICK w, n : w = q[i] /\ n = Len(w)
      OBVIOUS
    <3>2. n = 1 /\ w \in From(1)
      BY <2>3, <3>1
    <3>3. n \in Nat \ {0} /\ w \in From(n)
      BY <3>2
    <3> QED BY <3>1, <3>3
  <2>5. \A i \in DOMAIN q : Len(q[1]) <= Len(q[i]) /\ Len(q[i]) <= Len(q[1]) + 1
    BY <2>3
  <2>6. \A i, k \in DOMAIN q : Len(q[i]) <= Len(q[k])
    BY <2>3
  <2> QED BY <2>2, <2>4, <2>5, <2>6 DEF Layered
<1>5. ASSUME outcome = "searching" PROVE Frontier
  <2>1. pvisited = {} /\ src # dst
    BY <1>5 DEF SearchInit
  <2>2. src \in Ends(1)
    <3>1. 1 \in DOMAIN pqueue /\ Len(pqueue[1]) <= 1 /\ Last(pqueue[1]) = src
      BY <1>2
    <3> QED BY <3>1 DEF Ends
  <2>3. \A w \in From(1) : w[1] = src
    BY DEF From
  <2>4. \A k \in 1 .. Len(pqueue[1]) : k = 1
    BY <1>2
  <2> QED BY <2>1, <2>2, <2>3, <2>4 DEF Frontier
<1>6. FindPathShortest
  <2> SUFFICES ASSUME outcome = "path" PROVE FindPathShortest
    BY DEF FindPathShortest
  <2>1. path = <<src>> /\ src = dst /\ Len(path) = 1
    BY DEF SearchInit
  <2>2. path \in Walks(1)
    BY <1>1, <2>1 DEF Walks
  <2> QED BY <2>1, <2>2 DEF FindPathShortest
<1> QED BY <1>1, <1>2, <1>4, <1>5, <1>6 DEF SearchInit, FindInv

\* A target beyond the path in front is at the end of a shortest walk.
LEMMA FindFoundStep == ASSUME FindInv, FindFound PROVE FindInv'
<1> DEFINE p == Head(pqueue)
           L == Len(p)
<1>1. /\ outcome = "searching" /\ pqueue # <<>> /\ Last(p) \notin pvisited
      /\ dst \in Succ[Last(p)]
      /\ path' = Append(p, dst) /\ outcome' = "path"
      /\ pvisited' = pvisited \cup {Last(p)} /\ pqueue' = Tail(pqueue)
      /\ UNCHANGED query
  BY DEF FindFound
<1>2. /\ Pushed(Tail(pqueue), <<>>)
      /\ p = pqueue[1] /\ 1 \in DOMAIN pqueue /\ p \in Seq(Nodes)
  BY <1>1 DEF Pushed, FindInv
<1>3. L \in Nat \ {0} /\ p \in From(L) /\ L \in Nat
  BY <1>2 DEF FindInv, Layered
<1>4. /\ Last(p) \in Nodes
      /\ Len(path') = L + 1 /\ path' \in From(L + 1) /\ Last(path') = dst
  BY <1>1, <1>2, <1>3, Lengthened DEF FindInv
<1>5. path' \in Walks(L + 1)
  BY <1>4 DEF From, Walks, Last
<1>6. ASSUME NEW k \in 1 .. L, NEW w \in Walks(k) PROVE FALSE
  <2>1. /\ k \in Nat /\ k >= 1 /\ w \in From(k) /\ w[k] = dst /\ w[1] = src
    BY DEF Walks, From
  <2>2. k > 1
    BY <1>1, <2>1 DEF FindInv, Frontier
  <2>3. PICK r \in From(k - 1) : dst \in Succ[r[k - 1]]
    BY <2>1, <2>2, Shortened
  <2>4. k - 1 \in 1 .. L /\ k - 1 < L
    BY <1>3, <2>1, <2>2
  <2>5. r[k - 1] \in pvisited \cup Ends(k - 1)
    BY <1>1, <1>2, <2>4 DEF FindInv, Frontier
  <2>6. r[k - 1] \notin pvisited
    BY <1>1, <2>3 DEF FindInv, Frontier
  <2>7. PICK i \in DOMAIN pqueue : Len(pqueue[i]) <= k - 1
    BY <2>5, <2>6 DEF Ends
  <2>8. L <= Len(pqueue[i]) /\ Len(pqueue[i]) \in Nat
    BY <1>2 DEF FindInv, Layered
  <2> QED BY <1>3, <2>1, <2>4, <2>7, <2>8
<1>7. FindPathShortest'
  <2>1. \A k \in 1 .. Len(path') - 1 : Walks(k) = {}
    <3> TAKE k \in 1 .. Len(path') - 1
    <3>1. k \in 1 .. L
      BY <1>3, <1>4
    <3> QED BY <1>6, <3>1
  <2> QED BY <1>1, <1>4, <1>5, <2>1, WalksStay DEF FindPathShortest
<1>8. /\ Tail(pqueue) \in Seq(Seq(Nodes))
      /\ Layered'
  <2> DEFINE q == Tail(pqueue)
  <2>1. /\ q \in Seq(Seq(Nodes))
        /\ \A i, k \in DOMAIN q : i <= k => Len(q[i]) <= Len(q[k])
        /\ \A i \in DOMAIN q : /\ Len(q[i]) \in Nat \ {0} /\ q[i] \in From(Len(q[i]))
                               /\ L <= Len(q[i]) /\ Len(q[i]) <= L + 1
    <3>1. PICK s : s = <<>>
      OBVIOUS
    <3>2. Pushed(q, s)
      BY <1>2, <3>1
    <3> HIDE DEF q
    <3> QED BY <3>2, PushedQueue
  <2> QED BY <1>1, <1>3, <2>1, LayersKept
<1> QED BY <1>1, <1>4, <1>7, <1>8 DEF FindInv, query

\* A path is popped, and its end is visited, now or before; beyond the visited nodes
\* still lies no target, and the layers behind have taken its place.
LEMMA PopStep ==
  ASSUME FindInv, UNCHANGED query, pqueue # <<>>, outcome = "searching", outcome' = "searching",
         Last(Head(pqueue)) \in Nodes,
         pvisited' = pvisited \cup {Last(Head(pqueue))},
         NEW longer, Pushed(pqueue', longer),
         dst \notin Succ[Last(Head(pqueue))],
         Succ[Last(Head(pqueue))] \subseteq
           pvisited' \cup {Last(pqueue'[i]) : i \in DOMAIN pqueue'}
  PROVE  FindInv'
<1> DEFINE p == Head(pqueue)
           L == Len(p)
<1>1. p = pqueue[1] /\ 1 \in DOMAIN pqueue
  BY DEF FindInv
<1>2. L \in Nat \ {0}
  BY <1>1 DEF FindInv, Layered
<1>3. PICK q : q = pqueue'
  OBVIOUS
<1>4. /\ q \in Seq(Seq(Nodes))
      /\ \A x \in DOMAIN pqueue : x > 1 => \E i \in DOMAIN q : q[i] = pqueue[x]
      /\ \A i, k \in DOMAIN q : i <= k => Len(q[i]) <= Len(q[k])
      /\ \A i \in DOMAIN q : /\ Len(q[i]) \in Nat \ {0} /\ q[i] \in From(Len(q[i]))
                             /\ L <= Len(q[i]) /\ Len(q[i]) <= L + 1
  <2>1. Pushed(q, longer)
    BY <1>3
  <2> QED BY <2>1, PushedQueue
<1>5. Layered'
  BY <1>2, <1>3, <1>4, LayersKept
<1>6. \A x \in DOMAIN pqueue : x = 1 \/ x > 1
  <2>1. DOMAIN pqueue = 1 .. Len(pqueue) /\ Len(pqueue) \in Nat
    BY DEF FindInv
  <2> QED BY <2>1
<1>7. ASSUME NEW x \in DOMAIN pqueue
      PROVE  \/ Last(pqueue[x]) \in pvisited'
             \/ \E i \in DOMAIN q : q[i] = pqueue[x]
  BY <1>1, <1>4, <1>6
<1>8. ASSUME NEW n \in pvisited'
      PROVE  /\ dst \notin Succ[n]
             /\ Succ[n] \subseteq pvisited' \cup {Last(q[i]) : i \in DOMAIN q}
  <2>1. CASE n \in pvisited
    <3>1. /\ dst \notin Succ[n]
          /\ Succ[n] \subseteq pvisited \cup {Last(pqueue[i]) : i \in DOMAIN pqueue}
      BY <2>1 DEF FindInv, Frontier
    <3> QED BY <1>7, <3>1
  <2>2. CASE n \notin pvisited
    BY <1>3, <2>2
  <2> QED BY <2>1, <2>2
<1>9. ASSUME NEW i \in DOMAIN q, NEW k \in 1 .. Len(q[1]), NEW w \in From(k)
      PROVE  \/ w[k] \in pvisited'
             \/ \E x \in DOMAIN q : Len(q[x]) <= k /\ Last(q[x]) = w[k]
  <2>1. /\ 1 \in DOMAIN q /\ Len(q[1]) \in Nat /\ L <= Len(q[1]) /\ Len(q[1]) <= L + 1
        /\ \A x \in DOMAIN q : Len(q[1]) <= Len(q[x]) /\ Len(q[x]) \in Nat
    <3>1. DOMAIN q = 1 .. Len(q) /\ Len(q) \in Nat
      BY <1>4
    <3>2. 1 \in DOMAIN q /\ \A x \in DOMAIN q : 1 <= x
      BY <3>1
    <3> QED BY <1>4, <3>2
  <2>2. ASSUME NEW m \in 1 .. L, NEW v \in From(m)
        PROVE  \/ v[m] \in pvisited'
               \/ \E x \in DOMAIN q : Len(q[x]) <= m /\ Last(q[x]) = v[m]
    <3>1. v[m] \in pvisited \cup Ends(m)
      BY <1>1 DEF FindInv, Frontier
    <3>2. CASE v[m] \in Ends(m)
      <4>1. PICK x \in DOMAIN pqueue : Len(pqueue[x]) <= m /\ Last(pqueue[x]) = v[m]
        BY <3>2 DEF Ends
      <4> QED BY <1>7, <4>1
    <3> QED BY <3>1, <3>2
  <2>3. CASE k <= L
    <3>1. k \in 1 .. L
      BY <1>2, <2>1, <2>3
    <3> QED BY <2>2, <3>1
  <2>4. CASE ~(k <= L)
    <3>1. k = L + 1 /\ Len(q[1]) = L + 1 /\ k \in Nat /\ k > 1 /\ k - 1 = L /\ L \in 1 .. L
      BY <1>2, <2>1, <2>4
    <3>2. PICK r \in From(k - 1) : w[k] \in Succ[r[k - 1]]
      BY <3>1, Shortened
    <3>3. r[L] \in pvisited' \/ \E x \in DOMAIN q : Len(q[x]) <= L
      BY <2>2, <3>1, <3>2
    <3>4. \A x \in DOMAIN q : ~(Len(q[x]) <= L)
      BY <1>2, <2>1, <3>1
    <3>5. w[k] \in pvisited' \cup {Last(q[x]) : x \in DOMAIN q}
      BY <1>8, <3>1, <3>2, <3>3, <3>4
    <3>6. \A x \in DOMAIN q : Len(q[x]) <= k
      BY <1>4, <3>1
    <3> QED BY <3>5, <3>6
  <2> QED BY <2>3, <2>4
<1>10. Frontier'
  <2>1. /\ Succ' = Succ /\ src' = src /\ dst' = dst /\ \A k : From(k)' = From(k)
    BY WalksStay DEF query
  <2>2. ASSUME NEW i \in DOMAIN q, NEW k \in 1 .. Len(q[1]), NEW w \in From(k)
        PROVE  w[k] \in (pvisited \cup Ends(k))'
    BY <1>3, <1>9 DEF Ends
  <2>3. src # dst
    BY DEF FindInv, Frontier
  <2> QED BY <1>3, <1>8, <2>1, <2>2, <2>3 DEF Frontier
<1>11. FindPathShortest'
  BY DEF FindPathShortest
<1>12. adj' = adj /\ src' = src /\ dst' = dst /\ pvisited' \subseteq Nodes
  BY DEF query, FindInv
<1> QED BY <1>3, <1>4, <1>5, <1>10, <1>11, <1>12 DEF FindInv

LEMMA FindSkipStep == ASSUME FindInv, FindSkip PROVE FindInv'
<1> DEFINE p == Head(pqueue)
<1>1. /\ outcome = "searching" /\ outcome' = outcome /\ pqueue # <<>> /\ Last(p) \in pvisited
      /\ pqueue' = Tail(pqueue) /\ pvisited' = pvisited /\ UNCHANGED query
  BY DEF FindSkip
<1>2. /\ Last(p) \in Nodes /\ pvisited' = pvisited \cup {Last(p)}
      /\ dst \notin Succ[Last(p)]
      /\ Succ[Last(p)] \subseteq pvisited \cup {Last(pqueue[i]) : i \in DOMAIN pqueue}
  BY <1>1 DEF FindInv, Frontier
<1>3. Pushed(pqueue', <<>>)
  BY <1>1 DEF Pushed, FindInv
<1>4. Succ[Last(p)] \subseteq pvisited' \cup {Last(pqueue'[i]) : i \in DOMAIN pqueue'}
  <2>1. PICK q, s : q = pqueue' /\ s = <<>>
    OBVIOUS
  <2>2. Pushed(q, s)
    BY <1>3, <2>1
  <2>3. \A x \in DOMAIN pqueue : x > 1 => \E i \in DOMAIN q : q[i] = pqueue[x]
    BY <2>2, PushedQueue
  <2>4. \A x \in DOMAIN pqueue : x > 1 \/ pqueue[x] = p
    <3>1. DOMAIN pqueue = 1 .. Len(pqueue) /\ Len(pqueue) \in Nat /\ p = pqueue[1]
      BY <1>1 DEF FindInv
    <3> QED BY <3>1
  <2> QED BY <1>1, <1>2, <2>1, <2>3, <2>4
<1> HIDE DEF p
<1>5. PICK longer : longer = <<>>
  OBVIOUS
<1> QED BY <1>1, <1>2, <1>3, <1>4, <1>5, PopStep DEF p

LEMMA FindExpandStep == ASSUME FindInv, FindExpand PROVE FindInv'
<1> DEFINE p      == Head(pqueue)
           seen   == pvisited \cup {Last(p)}
           fresh  == Unseen(adj[Last(p)], seen)
           longer == [i \in DOMAIN fresh |-> Append(p, fresh[i])]
<1>1. /\ outcome = "searching" /\ outcome' = outcome /\ pqueue # <<>> /\ Last(p) \notin pvisited
      /\ dst \notin Succ[Last(p)]
      /\ pvisited' = seen /\ pqueue' = Tail(pqueue) \o longer /\ UNCHANGED query
  BY DEF FindExpand
<1>2. p = pqueue[1] /\ 1 \in DOMAIN pqueue /\ p \in Seq(Nodes)
  BY <1>1 DEF FindInv
<1>3. Len(p) \in Nat \ {0} /\ p \in From(Len(p))
  BY <1>2 DEF FindInv, Layered
<1>4. Last(p) \in Nodes
  <2>1. p \in [1 .. Len(p) -> Nodes] /\ Len(p) \in 1 .. Len(p)
    BY <1>3 DEF From
  <2> QED BY <2>1 DEF Last
<1>5. fresh \in Seq(Nodes) /\ Members(fresh) = Succ[Last(p)] \ seen
  <2>1. adj[Last(p)] \in Seq(Nodes) /\ Succ[Last(p)] = Members(adj[Last(p)])
    BY <1>4, SuccType DEF FindInv
  <2> QED BY <2>1, UnseenIs
<1>6. ASSUME NEW i \in DOMAIN fresh
      PROVE  /\ longer[i] \in Seq(Nodes) /\ Len(longer[i]) = Len(p) + 1
             /\ longer[i] \in From(Len(p) + 1) /\ Last(longer[i]) = fresh[i]
  <2>1. fresh[i] \in Succ[Last(p)]
    BY <1>5 DEF Members
  <2>2. longer[i] = Append(p, fresh[i])
    OBVIOUS
  <2> HIDE DEF p, fresh, longer
  <2> QED BY <1>2, <1>3, <2>1, <2>2, Lengthened DEF FindInv
<1>7. longer \in Seq(Seq(Nodes)) /\ DOMAIN longer = DOMAIN fresh
  <2>1. DOMAIN fresh = 1 .. Len(fresh) /\ Len(fresh) \in Nat
    BY <1>5
  <2>2. \A i \in 1 .. Len(fresh) : Append(p, fresh[i]) \in Seq(Nodes)
    BY <1>6, <2>1
  <2> HIDE DEF fresh, p
  <2> QED BY <2>1, <2>2
<1> HIDE DEF longer, fresh
<1>8. Pushed(pqueue', longer)
  BY <1>1, <1>6, <1>7 DEF Pushed
<1>9. Succ[Last(p)] \subseteq pvisited' \cup {Last(pqueue'[i]) : i \in DOMAIN pqueue'}
  <2>1. PICK q : q = pqueue'
    OBVIOUS
  <2>2. Pushed(q, longer)
    BY <1>8, <2>1
  <2>3. \A x \in DOMAIN longer : \E i \in DOMAIN q : q[i] = longer[x]
    BY <2>2, PushedQueue
  <2>4. ASSUME NEW n \in Succ[Last(p)], n \notin seen
        PROVE  \E i \in DOMAIN q : Last(q[i]) = n
    <3>1. PICK x \in DOMAIN fresh : n = fresh[x]
      BY <1>5, <2>4 DEF Members
    <3> QED BY <1>6, <1>7, <2>3, <3>1
  <2> QED BY <1>1, <2>1, <2>4
<1> QED BY <1>1, <1>4, <1>8, <1>9, PopStep

LEMMA StepFindInv == FindInv /\ [SearchNext]_searchVars => FindInv'
<1> SUFFICES ASSUME FindInv, [SearchNext]_searchVars PROVE FindInv'
  OBVIOUS
<1>1. CASE FindSkip
  BY <1>1, FindSkipStep
<1>2. CASE FindFound
  BY <1>2, FindFoundStep
<1>3. CASE FindExpand
  BY <1>3, FindExpandStep
<1>4. CASE FindExhausted \/ HasStep \/ UNCHANGED searchVars
  <2>1. /\ UNCHANGED <<adj, src, dst, pqueue, pvisited, path>>
        /\ outcome' = outcome \/ outcome' = "none"
    BY <1>4 DEF FindExhausted, HasStep, HasFound, HasSkip, HasExpand,
                HasExhausted,
                searchVars, query, findVars, hasVars
  <2>2. /\ Succ' = Succ
        /\ \A k : From(k)' = From(k) /\ Walks(k)' = Walks(k) /\ Ends(k)' = Ends(k)
    BY <2>1, WalksStay DEF query, Ends
  <2>3. Layered'
    BY <2>1, <2>2 DEF FindInv, Layered
  <2>4. outcome' = "searching" => Frontier'
    BY <2>1, <2>2 DEF FindInv, Frontier
  <2>5. FindPathShortest'
    BY <2>1, <2>2 DEF FindInv, FindPathShortest
  <2> QED BY <2>1, <2>3, <2>4, <2>5 DEF FindInv
<1> QED BY <1>1, <1>2, <1>3, <1>4 DEF SearchNext, FindStep

\* On every graph find_path returns a walk, and there is no shorter one.
THEOREM FoundPathsAreShortest == SearchSpec => []FindPathShortest
<1>1. FindInv => FindPathShortest
  BY DEF FindInv
<1> QED BY <1>1, InitFindInv, StepFindInv, GraphsAssumption, PTL DEF SearchSpec
-----------------------------------------------------------------------------
(* The searches are linear *)

\* The entries of the lists of the nodes outside a set.
ListOf(n)   == {n} \X DOMAIN adj[n]
Ahead(seen) == UNION {ListOf(n) : n \in Nodes \ seen}

\* What a search may still pop: what is queued, and an entry for each that is ahead;
\* and the test that finds its queue empty.
HasWork  == Len(queue) + Cardinality(Ahead(visited)) + IF answer = "searching" THEN 1 ELSE 0
FindWork == Len(pqueue) + Cardinality(Ahead(pvisited)) + IF outcome = "searching" THEN 1 ELSE 0

LEMMA ListCount ==
  ASSUME adj \in [Nodes -> Seq(Nodes)], NEW n \in Nodes
  PROVE  IsFiniteSet(ListOf(n)) /\ Cardinality(ListOf(n)) = Len(adj[n])
<1>1. Len(adj[n]) \in Nat /\ DOMAIN adj[n] = 1 .. Len(adj[n])
  OBVIOUS
<1>2. IsFiniteSet(DOMAIN adj[n]) /\ Cardinality(DOMAIN adj[n]) = Len(adj[n])
  <2>1. /\ IsFiniteSet(1 .. Len(adj[n]))
        /\ Cardinality(1 .. Len(adj[n])) =
             IF 1 > Len(adj[n]) THEN 0 ELSE Len(adj[n]) - 1 + 1
    BY <1>1, FS_Interval
  <2> QED BY <1>1, <2>1
<1>3. IsFiniteSet({n}) /\ Cardinality({n}) = 1
  BY FS_Singleton
<1>4. /\ IsFiniteSet({n} \X DOMAIN adj[n])
      /\ Cardinality({n} \X DOMAIN adj[n]) = Cardinality({n}) * Cardinality(DOMAIN adj[n])
  BY <1>2, <1>3, FS_Product
<1> QED BY <1>1, <1>2, <1>3, <1>4 DEF ListOf

LEMMA AheadFinite ==
  ASSUME IsFiniteSet(Nodes), adj \in [Nodes -> Seq(Nodes)], NEW seen
  PROVE  IsFiniteSet(Ahead(seen)) /\ Cardinality(Ahead(seen)) \in Nat
<1> DEFINE N == Nodes \ seen
           f == [n \in N |-> ListOf(n)]
           T == {ListOf(n) : n \in N}
<1>1. IsFiniteSet(N)
  <2>1. N \in SUBSET Nodes
    OBVIOUS
  <2> QED BY <2>1, FS_Subset
<1>2. f \in Surjection(N, T)
  BY DEF Surjection
<1>3. IsFiniteSet(T)
  <2> HIDE DEF f, N, T
  <2> QED BY <1>1, <1>2, FS_Surjection
<1>4. \A X \in T : IsFiniteSet(X)
  BY ListCount
<1>5. IsFiniteSet(UNION T)
  <2> HIDE DEF T
  <2> QED BY <1>3, <1>4, FS_UNION
<1> QED BY <1>5, FS_CardinalityType DEF Ahead

\* A node that is expanded takes its list from what is ahead.
LEMMA AheadLess ==
  ASSUME IsFiniteSet(Nodes), adj \in [Nodes -> Seq(Nodes)], NEW seen, NEW n \in Nodes \ seen
  PROVE  /\ Cardinality(Ahead(seen \cup {n})) \in Nat
         /\ Cardinality(Ahead(seen)) = Cardinality(Ahead(seen \cup {n})) + Len(adj[n])
<1> DEFINE rest == seen \cup {n}
<1>1. Ahead(seen) = Ahead(rest) \cup ListOf(n)
  <2>1. {ListOf(x) : x \in Nodes \ seen} = {ListOf(x) : x \in Nodes \ rest} \cup {ListOf(n)}
    OBVIOUS
  <2> QED BY <2>1 DEF Ahead
<1>2. Ahead(rest) \cap ListOf(n) = {}
  <2> SUFFICES ASSUME NEW e \in Ahead(rest), e \in ListOf(n) PROVE FALSE
    OBVIOUS
  <2>1. PICK x \in Nodes \ rest : e \in ListOf(x)
    BY DEF Ahead
  <2>2. e[1] = x /\ e[1] = n
    BY <2>1 DEF ListOf
  <2> QED BY <2>2
<1> HIDE DEF rest
<1>3. /\ IsFiniteSet(Ahead(rest)) /\ Cardinality(Ahead(rest)) \in Nat
      /\ IsFiniteSet(ListOf(n)) /\ Cardinality(ListOf(n)) = Len(adj[n])
  BY AheadFinite, ListCount
<1>4. Cardinality(Ahead(rest) \cup ListOf(n)) =
        Cardinality(Ahead(rest)) + Cardinality(ListOf(n))
          - Cardinality(Ahead(rest) \cap ListOf(n))
  BY <1>3, FS_Union
<1>5. Cardinality(Ahead(rest) \cap ListOf(n)) = 0
  BY <1>2, FS_EmptySet
<1>6. Len(adj[n]) \in Nat
  OBVIOUS
<1> QED BY <1>1, <1>3, <1>4, <1>5, <1>6 DEF rest

\* What a list holds outside a set is no longer than the list.
LEMMA UnseenShorter ==
  ASSUME NEW S, NEW list \in Seq(S), NEW seen
  PROVE  Len(Unseen(list, seen)) \in Nat /\ Len(Unseen(list, seen)) <= Len(list)
<1> DEFINE b == Len(list)
           f == CHOOSE f : KeptTo(list, seen, b, f)
<1>1. b \in Nat /\ DOMAIN list = 1 .. b
  OBVIOUS
<1>2. Unseen(list, seen) = f[b]
  BY DEF Unseen, KeptTo
<1>3. KeptTo(list, seen, b, f)
  BY <1>1, KeptExists
<1> HIDE DEF f, b
<1> DEFINE N == {n \in 0 .. b : f[n] \in Seq(S) /\ Len(f[n]) <= n}
<1>4. 0 \in N
  <2>1. f[0] = <<>>
    BY <1>1, <1>3 DEF KeptTo
  <2>2. <<>> \in Seq(S) /\ Len(<<>>) <= 0 /\ 0 \in 0 .. b
    BY <1>1
  <2> QED BY <2>1, <2>2
<1>5. ASSUME NEW n \in 0 .. b - 1, n \in N PROVE n + 1 \in N
  <2>1. n \in Nat /\ n + 1 \in 0 .. b /\ n + 1 \in DOMAIN list /\ (n + 1) - 1 = n /\ n + 1 # 0
    BY <1>1
  <2>2. f[n + 1] = IF list[n + 1] \in seen THEN f[n] ELSE Append(f[n], list[n + 1])
    BY <1>3, <2>1 DEF KeptTo
  <2>3. list[n + 1] \in S /\ f[n] \in Seq(S) /\ Len(f[n]) <= n
    BY <1>5, <2>1
  <2>4. Len(f[n]) \in Nat /\ Append(f[n], list[n + 1]) \in Seq(S)
        /\ Len(Append(f[n], list[n + 1])) = Len(f[n]) + 1
    BY <2>3
  <2>5. f[n + 1] \in Seq(S) /\ Len(f[n + 1]) <= n + 1
    <3>1. CASE list[n + 1] \in seen
      BY <2>1, <2>2, <2>3, <2>4, <3>1
    <3>2. CASE list[n + 1] \notin seen
      <4>1. f[n + 1] = Append(f[n], list[n + 1])
        BY <2>2, <3>2
      <4> QED BY <2>1, <2>3, <2>4, <4>1
    <3> QED BY <3>1, <3>2
  <2> QED BY <2>1, <2>5
<1> HIDE DEF N
<1>6. b \in N
  BY <1>1, <1>4, <1>5, UpTo
<1>7. f[b] \in Seq(S) /\ Len(f[b]) <= b
  BY <1>6 DEF N
<1> QED BY <1>2, <1>7 DEF b

LEMMA PoppedLength ==
  ASSUME NEW S, NEW q \in Seq(S), q # <<>>
  PROVE  /\ Len(q) \in Nat \ {0} /\ Len(Tail(q)) = Len(q) - 1 /\ Tail(q) \in Seq(S)
         /\ Head(q) \in S
OBVIOUS

LEMMA JoinedLength ==
  ASSUME NEW S, NEW p \in Seq(S), NEW q \in Seq(S)
  PROVE  Len(p \o q) = Len(p) + Len(q) /\ Len(p) \in Nat /\ Len(q) \in Nat
OBVIOUS

LEMMA WorkType ==
  ASSUME IsFiniteSet(Nodes), HasInv, FindInv
  PROVE  /\ HasWork \in Nat /\ FindWork \in Nat
         /\ Len(queue) \in Nat /\ Cardinality(Ahead(visited)) \in Nat
         /\ Len(pqueue) \in Nat /\ Cardinality(Ahead(pvisited)) \in Nat
<1>1. Len(queue) \in Nat /\ Len(pqueue) \in Nat
  BY DEF HasInv, FindInv
<1>2. Cardinality(Ahead(visited)) \in Nat /\ Cardinality(Ahead(pvisited)) \in Nat
  BY AheadFinite DEF HasInv
<1> QED BY <1>1, <1>2 DEF HasWork, FindWork

LEMMA HasNears ==
  ASSUME IsFiniteSet(Nodes), HasInv, FindInv, HasStep
  PROVE  HasWork' < HasWork /\ FindWork' = FindWork
<1>0. UNCHANGED <<adj, pqueue, pvisited, outcome>>
  BY DEF HasStep, HasFound, HasSkip, HasExpand, HasExhausted, query, findVars
<1>1. FindWork' = FindWork /\ \A s : Ahead(s)' = Ahead(s)
  BY <1>0 DEF FindWork, Ahead, ListOf
<1>2. CASE HasFound \/ HasSkip
  <2>1. queue # <<>> /\ queue' = Tail(queue) /\ visited' = visited /\ answer = "searching"
    BY <1>2 DEF HasFound, HasSkip
  <2>2. Len(queue') = Len(queue) - 1
    BY <2>1, PoppedLength DEF HasInv
  <2>3. Cardinality(Ahead(visited))' = Cardinality(Ahead(visited))
    BY <1>1, <2>1
  <2> QED BY <1>1, <2>1, <2>2, <2>3, WorkType DEF HasWork
<1>3. CASE HasExhausted
  <2>1. queue' = queue /\ visited' = visited /\ answer = "searching" /\ answer' = "no"
    BY <1>3 DEF HasExhausted
  <2>2. Cardinality(Ahead(visited))' = Cardinality(Ahead(visited))
    BY <1>1, <2>1
  <2> QED BY <1>1, <2>1, <2>2, WorkType DEF HasWork
<1>4. CASE HasExpand
  <2> DEFINE node  == Head(queue)
             seen  == visited \cup {node}
             fresh == Unseen(adj[node], seen)
  <2>1. /\ queue # <<>> /\ node \notin visited /\ answer' = answer
        /\ visited' = seen /\ queue' = Tail(queue) \o fresh
    BY <1>4 DEF HasExpand
  <2>2. /\ Len(Tail(queue)) = Len(queue) - 1 /\ Tail(queue) \in Seq(Nodes) /\ node \in Nodes
        /\ adj[node] \in Seq(Nodes) /\ Len(adj[node]) \in Nat
    BY <2>1, PoppedLength DEF HasInv
  <2>3. fresh \in Seq(Nodes) /\ Len(fresh) \in Nat /\ Len(fresh) <= Len(adj[node])
    BY <2>2, UnseenIs, UnseenShorter
  <2> HIDE DEF fresh
  <2>4. Len(queue') = Len(queue) - 1 + Len(fresh)
    BY <2>1, <2>2, <2>3, JoinedLength
  <2>5. /\ Cardinality(Ahead(seen)) \in Nat
        /\ Cardinality(Ahead(visited)) = Cardinality(Ahead(seen)) + Len(adj[node])
    BY <2>1, <2>2, AheadLess DEF HasInv
  <2>6. Cardinality(Ahead(visited))' = Cardinality(Ahead(seen))
    BY <1>1, <2>1
  <2> QED BY <1>1, <2>1, <2>2, <2>3, <2>4, <2>5, <2>6, WorkType DEF HasWork
<1> QED BY <1>2, <1>3, <1>4 DEF HasStep

LEMMA FindNears ==
  ASSUME IsFiniteSet(Nodes), HasInv, FindInv, FindStep
  PROVE  FindWork' < FindWork /\ HasWork' = HasWork
<1>0. UNCHANGED <<adj, queue, visited, answer>>
  BY DEF FindStep, FindSkip, FindFound, FindExpand, FindExhausted, query, hasVars
<1>1. HasWork' = HasWork /\ \A s : Ahead(s)' = Ahead(s)
  BY <1>0 DEF HasWork, Ahead, ListOf
<1>2. CASE FindSkip
  <2>1. /\ pqueue # <<>> /\ pqueue' = Tail(pqueue) /\ pvisited' = pvisited
        /\ outcome' = outcome
    BY <1>2 DEF FindSkip
  <2>2. Len(pqueue') = Len(pqueue) - 1
    BY <2>1, PoppedLength DEF FindInv
  <2>3. Cardinality(Ahead(pvisited))' = Cardinality(Ahead(pvisited))
    BY <1>1, <2>1
  <2> QED BY <1>1, <2>1, <2>2, <2>3, WorkType DEF FindWork
<1>3. CASE FindExhausted
  <2>1. /\ pqueue' = pqueue /\ pvisited' = pvisited /\ outcome = "searching"
        /\ outcome' = "none"
    BY <1>3 DEF FindExhausted
  <2>2. Cardinality(Ahead(pvisited))' = Cardinality(Ahead(pvisited))
    BY <1>1, <2>1
  <2> QED BY <1>1, <2>1, <2>2, WorkType DEF FindWork
<1>4. CASE FindFound \/ FindExpand
  <2> DEFINE p     == Head(pqueue)
             node  == Last(p)
             seen  == pvisited \cup {node}
             fresh == Unseen(adj[node], seen)
             longer == [i \in DOMAIN fresh |-> Append(p, fresh[i])]
  <2>1. /\ pqueue # <<>> /\ node \notin pvisited /\ outcome = "searching"
        /\ pvisited' = seen
        /\ \/ pqueue' = Tail(pqueue) /\ outcome' = "path"
           \/ pqueue' = Tail(pqueue) \o longer /\ outcome' = outcome
    BY <1>4 DEF FindFound, FindExpand
  <2>2. /\ Len(pqueue) \in Nat \ {0} /\ Len(Tail(pqueue)) = Len(pqueue) - 1
        /\ Tail(pqueue) \in Seq(Seq(Nodes)) /\ p \in Seq(Nodes)
    BY <2>1, PoppedLength DEF FindInv
  <2>3. node \in Nodes /\ adj[node] \in Seq(Nodes) /\ Len(adj[node]) \in Nat
    <3>1. 1 \in DOMAIN pqueue /\ p = pqueue[1]
      BY <2>1 DEF FindInv
    <3>2. Len(p) \in Nat \ {0}
      BY <3>1 DEF FindInv, Layered
    <3>3. node \in Nodes
      BY <2>2, <3>2 DEF Last
    <3> QED BY <3>3 DEF FindInv
  <2>4. fresh \in Seq(Nodes) /\ Len(fresh) \in Nat /\ Len(fresh) <= Len(adj[node])
    BY <2>3, UnseenIs, UnseenShorter
  <2>5. longer \in Seq(Seq(Nodes)) /\ Len(longer) = Len(fresh)
    <3> HIDE DEF fresh, p
    <3>1. DOMAIN fresh = 1 .. Len(fresh) /\ \A i \in DOMAIN fresh : fresh[i] \in Nodes
      BY <2>4
    <3>2. \A i \in DOMAIN fresh : Append(p, fresh[i]) \in Seq(Nodes)
      BY <2>2, <3>1
    <3>3. longer \in [1 .. Len(fresh) -> Seq(Nodes)]
      BY <3>1, <3>2
    <3> HIDE DEF longer
    <3> QED BY <2>4, <3>3
  <2>6. /\ Cardinality(Ahead(seen)) \in Nat
        /\ Cardinality(Ahead(pvisited)) = Cardinality(Ahead(seen)) + Len(adj[node])
    <3>1. node \in Nodes \ pvisited
      BY <2>1, <2>3
    <3> HIDE DEF node
    <3> QED BY <3>1, AheadLess DEF FindInv
  <2>7. Cardinality(Ahead(pvisited))' = Cardinality(Ahead(seen))
    BY <1>1, <2>1
  <2> HIDE DEF longer, fresh
  <2>8. Len(Tail(pqueue) \o longer) = Len(pqueue) - 1 + Len(longer)
    BY <2>2, <2>5, JoinedLength
  <2>9. Len(pqueue') \in Nat /\ Len(pqueue') <= Len(pqueue) - 1 + Len(adj[node])
    BY <2>1, <2>2, <2>3, <2>4, <2>5, <2>8
  <2> HIDE DEF node, seen
  <2>10. /\ Len(pqueue') + Cardinality(Ahead(pvisited))' \in Nat
         /\ Len(pqueue') + Cardinality(Ahead(pvisited))' <
              Len(pqueue) + Cardinality(Ahead(pvisited))
    BY <2>2, <2>3, <2>6, <2>7, <2>9
  <2>11. outcome = "searching"
    BY <2>1
  <2>12. FindWork = Len(pqueue) + Cardinality(Ahead(pvisited)) + 1
    BY <2>11 DEF FindWork
  <2>13. /\ FindWork' = Len(pqueue') + Cardinality(Ahead(pvisited))'
                          + IF outcome' = "searching" THEN 1 ELSE 0
    BY DEF FindWork
  <2>14. Len(pqueue) + Cardinality(Ahead(pvisited)) \in Nat
    BY WorkType
  <2> QED BY <1>1, <2>10, <2>12, <2>13, <2>14
<1> QED BY <1>2, <1>3, <1>4 DEF FindStep

\* On every finite graph, cyclic and with repeated neighbours: a search pops no more than
\* its source and once for each entry of the neighbour lists, although a node is queued
\* as often as it is met and is only skipped when it is popped (dependency.py:40-81).
THEOREM SearchesAreLinear ==
  IsFiniteSet(Nodes) => (SearchSpec =>
    /\ [](HasWork \in Nat /\ FindWork \in Nat)
    /\ [][/\ HasStep => HasWork' < HasWork /\ FindWork' = FindWork
          /\ FindStep => FindWork' < FindWork /\ HasWork' = HasWork]_searchVars)
<1> SUFFICES ASSUME IsFiniteSet(Nodes)
             PROVE  SearchSpec =>
                      /\ [](HasWork \in Nat /\ FindWork \in Nat)
                      /\ [][/\ HasStep => HasWork' < HasWork /\ FindWork' = FindWork
                            /\ FindStep => FindWork' < FindWork /\ HasWork' = HasWork]_searchVars
  OBVIOUS
<1>1. HasInv /\ FindInv => HasWork \in Nat /\ FindWork \in Nat
  BY WorkType
<1>2. HasInv /\ FindInv /\ [SearchNext]_searchVars =>
        [/\ HasStep => HasWork' < HasWork /\ FindWork' = FindWork
         /\ FindStep => FindWork' < FindWork /\ HasWork' = HasWork]_searchVars
  BY HasNears, FindNears
<1> QED BY <1>1, <1>2, InitHasInv, StepHasInv, InitFindInv, StepFindInv, GraphsAssumption,
           PTL DEF SearchSpec
=============================================================================
