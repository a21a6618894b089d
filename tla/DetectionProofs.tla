--------------------------- MODULE DetectionProofs ---------------------------
(***************************************************************************)
(* Proofs about the detection, for every length and every set of values of *)
(* the series, every reference value and threshold.                        *)
(***************************************************************************)
EXTENDS Detection, FiniteSetTheorems, WellFoundedInduction, TLAPS

-----------------------------------------------------------------------------
(* The types *)

\* The score is a natural number, whatever the sample.
LEMMA ScoreType ==
  ASSUME NEW g \in [Index -> Nat], NEW v \in Int, t \in 1 .. Length - 1
  PROVE  Score(g, v) \in Nat
<1>1. t - 1 \in Index
  BY LengthAssumption DEF Index
<1> QED BY <1>1, ThresholdsAssumption DEF Score, Larger

\* The scores of the sample at t.
LEMMA CusumScores ==
  ASSUME TypeOK, Cusum, t \in Nat \ {0}
  PROVE  /\ t \in Index /\ z[t] \in Int
         /\ up' \in [Index -> Nat] /\ down' \in [Index -> Nat]
<1>1. t \in 1 .. Length - 1 /\ t \in Index
  BY LengthAssumption DEF TypeOK, Cusum, Index
<1>2. z[t] \in Int
  BY <1>1, LengthAssumption DEF TypeOK
<1>3. Score(up, z[t]) \in Nat /\ Score(down, -z[t]) \in Nat
  BY <1>1, <1>2, -z[t] \in Int, ScoreType DEF TypeOK
<1> QED BY <1>1, <1>2, <1>3 DEF TypeOK, Cusum

\* While the scores are computed, t is past the first sample.
Started == pc = "cusum" => t >= 1

\* The walk stays in front of the alarm, and nothing is abnormal before Layers 2
\* and 3 have run.
Placed ==
  /\ pc = "walk" => j <= alarm - 1
  /\ pc \notin {"rollback", "slope"} => abnormal = {}

TypeInv == TypeOK /\ Started /\ Placed

LEMMA InitTypeInv == Init => TypeInv
  BY LengthAssumption DEF Init, TypeInv, TypeOK, Started, Placed, Index

LEMMA StepTypeInv == TypeInv /\ [Next]_vars => TypeInv'
<1> SUFFICES ASSUME TypeInv, [Next]_vars PROVE TypeInv'
  OBVIOUS
<1> USE LengthAssumption DEF TypeInv, Started, Placed, args, back
<1>1. CASE Cusum
  <2>1. t \in Nat \ {0}
    BY <1>1 DEF TypeOK, Cusum
  <2>2. up' \in [Index -> Nat] /\ down' \in [Index -> Nat]
    BY <1>1, <2>1, CusumScores
  <2> QED BY <1>1, <2>1, <2>2 DEF TypeOK, Cusum
<1>2. CASE CusumEnd
  BY <1>2 DEF TypeOK, CusumEnd
<1>3. CASE Quiet
  BY <1>3 DEF TypeOK, Quiet
<1>4. CASE Alarm
  BY <1>4 DEF TypeOK, Alarm, Index
<1>5. CASE SkipCrossing
  BY <1>5 DEF TypeOK, SkipCrossing, Index
<1>6. CASE EventEnds
  <2>1. Direction \in {"up", "down"} /\ alarm \in Index
    BY DEF Direction, TypeOK
  <2>2. CASE estimator = "crossing"
    BY <1>6, <2>1, <2>2 DEF TypeOK, EventEnds, Record
  <2>3. CASE estimator # "crossing"
    BY <1>6, <2>1, <2>3 DEF TypeOK, EventEnds, Index
  <2> QED BY <2>2, <2>3
<1>7. CASE WalkBack
  <2>1. j \in Nat /\ j <= Length - 1 /\ j' = j - 1 /\ alarm \in Nat /\ j <= alarm - 1
    BY <1>7 DEF TypeOK, WalkBack, Index
  <2>2. j' \in -1 .. Length - 1 /\ j' <= alarm - 1
    BY <2>1
  <2>3. UNCHANGED <<args, pc, t, up, down, alarm, points, crossing, back>>
    BY <1>7 DEF WalkBack
  <2> QED BY <2>2, <2>3 DEF TypeOK
<1>8. CASE WalkEnds
  <2>1. Direction \in {"up", "down"} /\ alarm \in Index /\ j + 1 \in Index
    BY <1>8 DEF Direction, TypeOK, WalkEnds, Index
  <2> QED BY <1>8, <2>1 DEF TypeOK, WalkEnds, Record
<1>9. CASE ScanEnds
  BY <1>9 DEF TypeOK, ScanEnds
<1>10. CASE Gate
  <2>1. points' \subseteq points
    BY <1>10 DEF Gate
  <2>2. DOMAIN crossing' = {p.onset : p \in points'}
    BY <1>10 DEF Gate
  <2>3. DOMAIN crossing' \subseteq Index /\ abnormal = {}
    BY <1>10, <2>1, <2>2 DEF TypeOK, Gate
  <2> QED BY <1>10, <2>1, <2>3 DEF TypeOK, Gate
<1>11. ASSUME NEW passed \in SUBSET DOMAIN crossing, Filter(passed) PROVE TypeInv'
  BY <1>11 DEF TypeOK, Filter
<1>12. ASSUME NEW cp \in abnormal, Begin(cp) PROVE TypeInv'
  BY <1>12 DEF TypeOK, Begin
<1>13. ASSUME NEW cp \in ChangePoints, RollBack(cp) PROVE TypeInv'
  <2>1. cp \in Index
    BY DEF TypeOK, ChangePoints
  <2> QED BY <1>13, <2>1 DEF TypeOK, RollBack
<1>14. CASE RollBackEnds
  BY <1>14 DEF TypeOK, RollBackEnds
<1>15. CASE UNCHANGED vars
  BY <1>15 DEF TypeOK, vars
<1> QED BY <1>1, <1>2, <1>3, <1>4, <1>5, <1>6, <1>7, <1>8, <1>9, <1>10, <1>11, <1>12,
           <1>13, <1>14, <1>15 DEF Next

\* Every variable keeps its type.
THEOREM TypeCorrect == Spec => []TypeOK
<1>1. TypeInv => TypeOK
  BY DEF TypeInv
<1> QED BY <1>1, InitTypeInv, StepTypeInv, PTL DEF Spec
-----------------------------------------------------------------------------
(* Onsets and directions *)

\* The recurrence run_cusum has established for sample i.
Recurrence(i) ==
  /\ up[i]   = Larger(0, up[i - 1] + z[i] - K)
  /\ down[i] = Larger(0, down[i - 1] - z[i] - K)

\* The scores so far.
Scored ==
  /\ up[0] = 0 /\ down[0] = 0
  /\ \A i \in 1 .. Length - 1 : (pc = "cusum" => i < t) => Recurrence(i)
  /\ pc = "cusum" => points = {}

\* What the walk has seen is all evidence.
Walked ==
  /\ pc \in {"skip", "walk"} => Crosses(alarm)
  /\ pc = "walk" => \A i \in Index : j < i /\ i < alarm => Fired(Direction)[i] > 0
  /\ pc = "walk" => estimator # "crossing"

\* At an onset by last reset the detector that fired has just left zero; an
\* onset by crossing is an alarm, and has its direction.
Traced(onset, dir) ==
  IF estimator = "crossing"
  THEN dir = (IF up[onset] >= down[onset] THEN "up" ELSE "down")
  ELSE /\ onset \in 1 .. Length - 1
       /\ Fired(dir)[onset - 1] = 0
       /\ Fired(dir)[onset] > 0

OnsetInv ==
  /\ TypeInv
  /\ Scored
  /\ Walked
  /\ \A p \in points : Traced(p.onset, p.dir)

\* A score leaves zero only through a sample beyond the reference value, and a
\* sample cannot be that in both directions.
LEMMA DirectionOfOnset ==
  ASSUME OnsetInv, NEW p \in points, NEW q \in points, p.onset = q.onset
  PROVE  p.dir = q.dir
<1>1. CASE estimator = "crossing"
  BY <1>1 DEF OnsetInv, Traced
<1>2. CASE estimator # "crossing"
  <2> DEFINE o == p.onset
  <2>1. /\ o \in 1 .. Length - 1
        /\ Fired(p.dir)[o - 1] = 0 /\ Fired(p.dir)[o] > 0
        /\ Fired(q.dir)[o - 1] = 0 /\ Fired(q.dir)[o] > 0
    BY <1>2 DEF OnsetInv, Traced
  <2>2. Recurrence(o)
    BY <2>1 DEF OnsetInv, Scored
  <2>3. z[o] \in Int /\ K \in Nat
    BY <2>1, LengthAssumption, ThresholdsAssumption DEF OnsetInv, TypeInv, TypeOK, Index
  <2>4. up[o - 1] = 0 /\ up[o] > 0 => z[o] > K
    BY <2>2, <2>3 DEF Recurrence, Larger
  <2>5. down[o - 1] = 0 /\ down[o] > 0 => -z[o] > K
    BY <2>2, <2>3 DEF Recurrence, Larger
  <2>6. p.dir \in {"up", "down"} /\ q.dir \in {"up", "down"}
    BY DEF OnsetInv, TypeInv, TypeOK
  <2> QED BY <2>1, <2>3, <2>4, <2>5, <2>6 DEF Fired
<1> QED BY <1>1, <1>2

\* The first sample never crosses, for the threshold is positive.
LEMMA AlarmIsLater ==
  ASSUME TypeOK, Scored, NEW a \in Index, Crosses(a)
  PROVE  a >= 1 /\ (up[a] >= down[a] => up[a] > 0) /\ (~(up[a] >= down[a]) => down[a] > 0)
<1>1. up[a] \in Nat /\ down[a] \in Nat
  BY DEF TypeOK
<1>2. Larger(up[a], down[a]) >= H
  BY DEF Crosses, Combined
<1> QED BY <1>1, <1>2, ThresholdsAssumption DEF Larger, Scored, Index

LEMMA InitOnsetInv == Init => OnsetInv
<1> SUFFICES ASSUME Init PROVE OnsetInv
  OBVIOUS
<1>1. TypeInv
  BY InitTypeInv
<1>2. Scored
  BY LengthAssumption DEF Init, Scored, Index
<1> QED BY <1>1, <1>2 DEF Init, OnsetInv, Walked

\* A sample more: the recurrence holds up to it.
LEMMA CusumStep == ASSUME OnsetInv, TypeInv', Cusum PROVE OnsetInv'
<1>1. /\ pc = "cusum" /\ pc' = "cusum" /\ t' = t + 1
      /\ t \in 1 .. Length - 1 /\ points' = points
  <2>1. pc = "cusum" /\ pc' = "cusum" /\ t' = t + 1 /\ t < Length /\ points' = points
    BY DEF Cusum
  <2>2. t \in 0 .. Length /\ t >= 1
    BY <2>1 DEF OnsetInv, TypeInv, TypeOK, Started
  <2> QED BY <2>1, <2>2, LengthAssumption
<1>2. /\ up'   = [up   EXCEPT ![t] = Larger(0, up[t - 1] + z[t] - K)]
      /\ down' = [down EXCEPT ![t] = Larger(0, down[t - 1] + (-z[t]) - K)]
      /\ z' = z
  BY DEF Cusum, Score, args
<1>3. up \in [Index -> Nat] /\ down \in [Index -> Nat] /\ z \in [Index -> Int]
  BY LengthAssumption DEF OnsetInv, TypeInv, TypeOK
<1>4. ASSUME NEW i \in 1 .. Length - 1, i < t' PROVE Recurrence(i)'
  <2>1. i \in Index /\ i - 1 \in Index /\ t \in Index /\ i - 1 # t
    BY <1>1, <1>4, LengthAssumption DEF Index
  <2>2. CASE i = t
    <3>1. /\ up'[i] = Larger(0, up'[i - 1] + z'[i] - K)
          /\ down'[i] = Larger(0, down'[i - 1] + (-z'[i]) - K)
      BY <1>2, <1>3, <2>1, <2>2
    <3>2. z'[i] \in Int /\ down'[i - 1] \in Int
      BY <1>2, <1>3, <2>1
    <3> QED BY <3>1, <3>2, ThresholdsAssumption DEF Recurrence
  <2>3. CASE i # t
    <3>1. Recurrence(i)
      BY <1>1, <1>4, <2>3, LengthAssumption DEF OnsetInv, Scored
    <3>2. up'[i] = up[i] /\ up'[i - 1] = up[i - 1] /\ down'[i] = down[i] /\ down'[i - 1] = down[i - 1]
      BY <1>2, <1>3, <2>1, <2>3
    <3> QED BY <3>1, <3>2, <1>2 DEF Recurrence
  <2> QED BY <2>2, <2>3
<1>5. up'[0] = 0 /\ down'[0] = 0
  BY <1>1, <1>2, <1>3, LengthAssumption DEF OnsetInv, Scored, Index
<1>6. points' = {}
  BY <1>1 DEF OnsetInv, Scored
<1>7. Scored'
  BY <1>1, <1>4, <1>5, <1>6 DEF Scored
<1> QED BY <1>1, <1>6, <1>7 DEF OnsetInv, Walked

\* Once the scores are complete they stay.
LEMMA ScoresStay ==
  ASSUME OnsetInv, pc # "cusum" \/ t = Length, pc' # "cusum", UNCHANGED <<z, estimator, up, down>>
  PROVE  /\ Scored'
         /\ \A onset, dir : Traced(onset, dir) => Traced(onset, dir)'
<1>1. ASSUME NEW i \in 1 .. Length - 1 PROVE Recurrence(i)
  <2>1. pc = "cusum" => i < t
    BY LengthAssumption
  <2> QED BY <2>1 DEF OnsetInv, Scored
<1>2. \A i \in 1 .. Length - 1 : Recurrence(i)'
  BY <1>1 DEF Recurrence
<1>3. Scored'
  BY <1>2 DEF OnsetInv, Scored
<1>4. \A onset, dir : Traced(onset, dir) => Traced(onset, dir)'
  BY DEF Traced, Fired
<1> QED BY <1>3, <1>4

\* The scan, up to the alarm and over its run of crossings.
LEMMA ScanStep ==
  ASSUME OnsetInv, TypeInv', CusumEnd \/ Quiet \/ Alarm \/ SkipCrossing
  PROVE  OnsetInv'
<1>1. /\ pc # "cusum" \/ t = Length
      /\ pc' \in {"scan", "skip"} /\ UNCHANGED <<z, estimator, up, down, points>>
      /\ pc' = "skip" => Crosses(alarm')
  BY DEF CusumEnd, Quiet, Alarm, SkipCrossing, args, OnsetInv, Walked
<1>2. Scored' /\ \A p \in points' : Traced(p.onset, p.dir)'
  BY <1>1, ScoresStay DEF OnsetInv
<1>3. Walked'
  BY <1>1 DEF Walked, Crosses, Combined
<1> QED BY <1>2, <1>3 DEF OnsetInv

\* The run is over: the onset is the alarm, or the walk begins in front of it.
LEMMA EventEndsStep == ASSUME OnsetInv, TypeInv', EventEnds PROVE OnsetInv'
<1>1. /\ pc = "skip" /\ pc' # "cusum" /\ pc' # "skip"
      /\ UNCHANGED <<z, estimator, up, down, alarm>>
  BY DEF EventEnds, args
<1>2. Scored' /\ \A p \in points : Traced(p.onset, p.dir)'
  BY <1>1, ScoresStay DEF OnsetInv
<1>3. CASE estimator = "crossing"
  <2>1. pc' = "scan" /\ points' = points \cup {[onset |-> alarm, dir |-> Direction, alarm |-> alarm]}
    BY <1>3 DEF EventEnds, Record
  <2>2. Traced(alarm, Direction)
    BY <1>3 DEF Traced, Direction
  <2>3. \A onset, dir : Traced(onset, dir) => Traced(onset, dir)'
    BY <1>1, ScoresStay
  <2>4. \A p \in points' : Traced(p.onset, p.dir)'
    BY <1>2, <2>1, <2>2, <2>3
  <2> QED BY <1>2, <2>1, <2>4 DEF OnsetInv, Walked
<1>4. CASE estimator # "crossing"
  <2>1. pc' = "walk" /\ j' = alarm - 1 /\ points' = points
    BY <1>4 DEF EventEnds
  <2>2. alarm \in Nat
    BY DEF OnsetInv, TypeInv, TypeOK, Index
  <2>3. \A i \in Index : ~(j' < i /\ i < alarm)
    BY <2>1, <2>2 DEF Index
  <2>4. Crosses(alarm)'
    BY <1>1 DEF OnsetInv, Walked, Crosses, Combined
  <2> QED BY <1>1, <1>2, <1>4, <2>1, <2>3, <2>4 DEF OnsetInv, Walked
<1> QED BY <1>3, <1>4

\* One sample back, and it is evidence.
LEMMA WalkBackStep == ASSUME OnsetInv, TypeInv', WalkBack PROVE OnsetInv'
<1>1. /\ pc = "walk" /\ pc' = "walk" /\ j' = j - 1
      /\ UNCHANGED <<z, estimator, up, down, alarm, points>>
      /\ j >= 0 /\ Fired(Direction)[j] # 0
  BY DEF WalkBack, args
<1>2. Scored' /\ \A p \in points' : Traced(p.onset, p.dir)'
  BY <1>1, ScoresStay DEF OnsetInv
<1>3. Fired(Direction) \in [Index -> Nat] /\ j \in Int
  BY DEF Fired, OnsetInv, TypeInv, TypeOK
<1>4. Fired(Direction)' = Fired(Direction)
  BY <1>1 DEF Fired, Direction
<1>5. ASSUME NEW i \in Index, j' < i, i < alarm PROVE Fired(Direction)[i] > 0
  <2>1. CASE i = j
    BY <1>1, <1>3, <2>1
  <2>2. CASE i # j
    <3>1. j < i
      BY <1>1, <1>3, <1>5, <2>2 DEF Index
    <3> QED BY <1>1, <1>5, <3>1 DEF OnsetInv, Walked
  <2> QED BY <2>1, <2>2
<1>6. Crosses(alarm)'
  BY <1>1 DEF OnsetInv, Walked, Crosses, Combined
<1>7. Walked'
  BY <1>1, <1>4, <1>5, <1>6 DEF OnsetInv, Walked
<1> QED BY <1>2, <1>7 DEF OnsetInv

\* The zero is found, for the first sample is one.
LEMMA WalkEndsStep == ASSUME OnsetInv, TypeInv', WalkEnds PROVE OnsetInv'
<1> DEFINE fired == Fired(Direction)
           new   == [onset |-> j + 1, dir |-> Direction, alarm |-> alarm]
<1>1. /\ pc = "walk" /\ pc' = "scan" /\ points' = points \cup {new}
      /\ UNCHANGED <<z, estimator, up, down, alarm>>
      /\ j >= 0 => fired[j] = 0
  BY DEF WalkEnds, args, Record
<1>2. Scored' /\ \A p \in points : Traced(p.onset, p.dir)'
  BY <1>1, ScoresStay DEF OnsetInv
<1>3. /\ TypeOK /\ Scored /\ Crosses(alarm) /\ alarm \in Index
      /\ j \in -1 .. Length - 1 /\ j <= alarm - 1
  BY <1>1 DEF OnsetInv, TypeInv, TypeOK, Walked, Placed
<1>4. alarm >= 1 /\ fired[alarm] > 0
  BY <1>3, AlarmIsLater DEF Fired, Direction
<1>5. fired[0] = 0
  BY <1>3 DEF Fired, Scored
<1>6. \A i \in Index : j < i /\ i < alarm => fired[i] > 0
  BY <1>1 DEF OnsetInv, Walked
<1> HIDE DEF fired
<1>7. j >= 0
  <2>1. 0 \in Index /\ alarm \in Nat
    BY <1>3, LengthAssumption DEF Index
  <2>2. ~(j < 0)
    BY <1>4, <1>5, <1>6, <2>1
  <2> QED BY <2>2, <1>3
<1>8. fired[j + 1] > 0
  <2>1. CASE j + 1 = alarm
    BY <1>4, <2>1
  <2>2. CASE j + 1 # alarm
    <3>1. j \in Nat /\ j <= alarm - 1 /\ alarm \in 0 .. Length - 1 /\ Length \in Nat
      BY <1>3, <1>7, LengthAssumption DEF Index
    <3>2. j + 1 < alarm
      BY <2>2, <3>1
    <3>3. j + 1 \in Index
      BY <3>1, <3>2 DEF Index
    <3>4. j < j + 1
      BY <3>1
    <3> QED BY <1>6, <3>2, <3>3, <3>4
  <2> QED BY <2>1, <2>2
<1>9. /\ new.onset = j + 1 /\ new.dir = Direction
      /\ j + 1 \in 1 .. Length - 1 /\ (j + 1) - 1 = j
  <2>1. j \in Nat /\ j <= alarm - 1 /\ alarm \in 0 .. Length - 1 /\ Length \in Nat
    BY <1>3, <1>7, LengthAssumption DEF Index
  <2>2. j + 1 \in 1 .. Length - 1 /\ (j + 1) - 1 = j
    BY <2>1
  <2> QED BY <2>2
<1>10. estimator # "crossing"
  BY <1>1 DEF OnsetInv, Walked
<1>11. Traced(j + 1, Direction)
  <2>1. j + 1 \in 1 .. Length - 1 /\ (j + 1) - 1 = j
    BY <1>9
  <2> QED BY <1>1, <1>7, <1>8, <1>10, <2>1 DEF Traced, fired
<1>12. \A onset, dir : Traced(onset, dir) => Traced(onset, dir)'
  BY <1>1, ScoresStay
<1>13. \A p \in points' : Traced(p.onset, p.dir)'
  BY <1>1, <1>2, <1>9, <1>11, <1>12
<1> QED BY <1>1, <1>2, <1>13 DEF OnsetInv, Walked

\* After Layer 1 nothing is recorded any more, and the gate only takes away.
LEMMA LaterStep ==
  ASSUME OnsetInv, TypeInv', pc \notin {"cusum", "skip", "walk"},
         pc' \notin {"cusum", "skip", "walk"},
         UNCHANGED <<z, estimator, up, down>>, points' \subseteq points
  PROVE  OnsetInv'
<1>1. Scored' /\ \A onset, dir : Traced(onset, dir) => Traced(onset, dir)'
  BY ScoresStay
<1>2. \A p \in points' : Traced(p.onset, p.dir)'
  BY <1>1 DEF OnsetInv
<1> QED BY <1>1, <1>2 DEF OnsetInv, Walked

LEMMA StepOnsetInv == OnsetInv /\ [Next]_vars => OnsetInv'
<1> SUFFICES ASSUME OnsetInv, [Next]_vars PROVE OnsetInv'
  OBVIOUS
<1>1. TypeInv'
  BY StepTypeInv DEF OnsetInv
<1> USE DEF args, back
<1>2. CASE Cusum
  BY <1>1, <1>2, CusumStep
<1>3. CASE CusumEnd \/ Quiet \/ Alarm \/ SkipCrossing
  BY <1>1, <1>3, ScanStep
<1>4. CASE EventEnds
  BY <1>1, <1>4, EventEndsStep
<1>5. CASE WalkBack
  BY <1>1, <1>5, WalkBackStep
<1>6. CASE WalkEnds
  BY <1>1, <1>6, WalkEndsStep
<1>7. CASE ScanEnds
  BY <1>1, <1>7, LaterStep DEF ScanEnds
<1>8. CASE Gate
  BY <1>1, <1>8, LaterStep DEF Gate
<1>9. ASSUME NEW passed \in SUBSET DOMAIN crossing, Filter(passed) PROVE OnsetInv'
  BY <1>1, <1>9, LaterStep DEF Filter
<1>10. ASSUME NEW cp \in abnormal, Begin(cp) PROVE OnsetInv'
  BY <1>1, <1>10, LaterStep DEF Begin
<1>11. ASSUME NEW cp \in ChangePoints, RollBack(cp) PROVE OnsetInv'
  BY <1>1, <1>11, LaterStep DEF RollBack
<1>12. CASE RollBackEnds
  BY <1>1, <1>12, LaterStep DEF RollBackEnds
<1>13. CASE UNCHANGED vars
  BY <1>1, <1>13 DEF vars, OnsetInv, Scored, Recurrence, Walked, Traced, Fired, Direction,
                     Crosses, Combined
<1> QED BY <1>2, <1>3, <1>4, <1>5, <1>6, <1>7, <1>8, <1>9, <1>10, <1>11, <1>12, <1>13 DEF Next

\* Two events with one onset are of one direction: keying them by their onset,
\* as everything after Layer 1 does, mistakes none for the other.
THEOREM OnsetDirections == Spec => []SameOnsetSameDirection
<1>1. OnsetInv => SameOnsetSameDirection
  BY DirectionOfOnset DEF SameOnsetSameDirection
<1> QED BY <1>1, InitOnsetInv, StepOnsetInv, PTL DEF Spec
-----------------------------------------------------------------------------
(* Events *)

\* Where a maximal run of crossings begins.
Starts == {i \in Index : Crosses(i) /\ (i > 0 => ~Crosses(i - 1))}

\* All runs that begin before n have been recorded, each once, and no other.
Recorded(n) ==
  /\ \A p \in points : p.alarm \in Starts /\ p.alarm < n
  /\ \A i \in Starts : i < n => \E p \in points : p.alarm = i
  /\ \A p, q \in points : p.alarm = q.alarm => p = q

\* The scan looks for the start of a run, and is at one as soon as it meets a
\* crossing; skipping passes over crossings only, and the walk follows the whole run.
RunInv ==
  /\ pc = "cusum" => points = {}
  /\ pc = "scan" => Recorded(t) /\ (t < Length /\ Crosses(t) => t \in Starts)
  /\ pc \in {"skip", "walk"} =>
       /\ Recorded(alarm)
       /\ alarm \in Starts /\ alarm <= t
       /\ \A i \in Index : alarm <= i /\ i < t => Crosses(i)
  /\ pc = "walk" => alarm < t /\ (t < Length => ~Crosses(t))
  /\ pc = "gate" => Recorded(Length)

\* Runs are runs of the scores, which stay once they are complete.
LEMMA RunsStay ==
  ASSUME UNCHANGED <<up, down>>
  PROVE  Starts' = Starts /\ \A i : Crosses(i)' <=> Crosses(i)
<1>1. Combined' = Combined
  BY DEF Combined
<1>2. \A i : Crosses(i)' <=> Crosses(i)
  BY <1>1 DEF Crosses
<1>3. Starts' = Starts
  BY <1>2 DEF Starts
<1> QED BY <1>2, <1>3

\* Inside and right after a run no other begins.
LEMMA OneStart ==
  ASSUME TypeInv, RunInv, pc \in {"skip", "walk"}, NEW i \in Starts, i < t
  PROVE  i <= alarm
<1> SUFFICES ASSUME alarm < i PROVE FALSE
  BY DEF Starts, TypeInv, TypeOK, Index
<1>1. i \in Index /\ alarm \in Index /\ t \in 0 .. Length
  BY DEF Starts, TypeInv, TypeOK
<1>2. i > 0 /\ i - 1 \in Index /\ alarm <= i - 1 /\ i - 1 < t
  BY <1>1, LengthAssumption DEF Index
<1>3. Crosses(i - 1)
  BY <1>2 DEF RunInv
<1> QED BY <1>2, <1>3 DEF Starts

\* An event recorded at the end of its run completes the records up to there.
LEMMA RecordRun ==
  ASSUME TypeInv, RunInv, pc \in {"skip", "walk"}, alarm < t, UNCHANGED <<up, down>>,
         NEW o, points' = points \cup {[onset |-> o, dir |-> Direction, alarm |-> alarm]}
  PROVE  /\ \A p \in points' : p.alarm \in Starts /\ p.alarm < t
         /\ \A i \in Starts : i < t => \E p \in points' : p.alarm = i
         /\ \A p, q \in points' : p.alarm = q.alarm => p = q
<1> DEFINE e == [onset |-> o, dir |-> Direction, alarm |-> alarm]
<1>1. e.alarm = alarm /\ points' = points \cup {e}
  OBVIOUS
<1>2. Recorded(alarm) /\ alarm \in Starts
  BY DEF RunInv
<1>3. alarm \in Nat /\ t \in Nat /\ \A i \in Starts : i \in Nat
  BY LengthAssumption DEF TypeInv, TypeOK, Starts, Index
<1> HIDE DEF e
<1>4. ASSUME NEW p \in points' PROVE p.alarm \in Starts /\ p.alarm < t
  <2>1. CASE p = e
    BY <1>1, <1>2, <2>1
  <2>2. CASE p \in points
    <3>1. p.alarm \in Starts /\ p.alarm < alarm
      BY <1>2, <2>2 DEF Recorded
    <3>2. p.alarm \in Nat
      BY <1>3, <3>1
    <3> QED BY <1>3, <3>1, <3>2
  <2> QED BY <1>1, <2>1, <2>2
<1>5. ASSUME NEW i \in Starts, i < t PROVE \E p \in points' : p.alarm = i
  <2>1. i <= alarm
    BY <1>5, OneStart
  <2>2. CASE i = alarm
    BY <1>1, <2>2
  <2>3. CASE i # alarm
    <3>1. i < alarm
      BY <1>3, <2>1, <2>3
    <3> QED BY <1>1, <1>2, <3>1 DEF Recorded
  <2> QED BY <2>2, <2>3
<1>6. ASSUME NEW p \in points', NEW q \in points', p.alarm = q.alarm PROVE p = q
  <2>1. \A r \in points : r.alarm # alarm
    BY <1>2, <1>3 DEF Recorded
  <2>2. CASE p \in points /\ q \in points
    BY <1>2, <1>6, <2>2 DEF Recorded
  <2>3. CASE p = e \/ q = e
    BY <1>1, <1>6, <2>1, <2>3
  <2> QED BY <1>1, <2>2, <2>3
<1> QED BY <1>4, <1>5, <1>6

LEMMA StepRunInv == TypeInv /\ RunInv /\ [Next]_vars => RunInv'
<1> SUFFICES ASSUME TypeInv, RunInv, [Next]_vars PROVE RunInv'
  OBVIOUS
<1>0. Length \in Nat /\ t \in 0 .. Length /\ alarm \in Index /\ \A i \in Starts : i \in Index
  BY LengthAssumption DEF TypeInv, TypeOK, Starts
<1>1. CASE Cusum
  <2>1. pc' = "cusum" /\ points' = points /\ pc = "cusum"
    BY <1>1 DEF Cusum
  <2> QED BY <2>1 DEF RunInv
<1>2. ASSUME UNCHANGED <<up, down, points>>
      PROVE  /\ \A i : Crosses(i)' <=> Crosses(i)
             /\ Starts' = Starts
             /\ \A n, m : n = m /\ Recorded(n) => Recorded(m)'
  <2>1. Starts' = Starts /\ \A i : Crosses(i)' <=> Crosses(i)
    BY <1>2, RunsStay
  <2>2. \A n, m : n = m /\ Recorded(n) => Recorded(m)'
    BY <1>2, <2>1 DEF Recorded
  <2> QED BY <2>1, <2>2
<1>3. CASE CusumEnd
  <2>1. pc = "cusum" /\ pc' = "scan" /\ t' = 0 /\ points' = {} /\ UNCHANGED <<up, down>>
    BY <1>3 DEF CusumEnd, RunInv
  <2>2. Starts' = Starts /\ \A i : Crosses(i)' <=> Crosses(i)
    BY <2>1, RunsStay
  <2>3. Recorded(0)'
    BY <1>0, <2>1, <2>2 DEF Recorded, Index
  <2>4. Crosses(0) => 0 \in Starts
    BY LengthAssumption DEF Starts, Index
  <2>5. Recorded(t)'
    BY <2>1, <2>3 DEF Recorded
  <2> QED BY <2>1, <2>2, <2>4, <2>5 DEF RunInv
<1>4. CASE Quiet
  <2>1. /\ pc = "scan" /\ pc' = "scan" /\ t' = t + 1 /\ t < Length /\ ~Crosses(t)
        /\ UNCHANGED <<up, down, points>>
    BY <1>4 DEF Quiet
  <2>2. Recorded(t + 1)
    <3>1. Recorded(t)
      BY <2>1 DEF RunInv
    <3>2. t \notin Starts
      BY <2>1 DEF Starts
    <3> QED BY <1>0, <3>1, <3>2 DEF Recorded, Index
  <2>3. Recorded(t)'
    BY <1>2, <2>1, <2>2
  <2>4. t + 1 < Length /\ Crosses(t + 1) => t + 1 \in Starts
    <3>1. (t + 1) - 1 = t
      BY <1>0
    <3> QED BY <1>0, <2>1, <3>1 DEF Starts, Index
  <2>5. t' < Length /\ Crosses(t)' => (t \in Starts)'
    <3>1. Crosses(t)' <=> Crosses(t')
      BY <2>1 DEF Crosses, Combined
    <3> QED BY <1>2, <2>1, <2>4, <3>1
  <2> QED BY <2>1, <2>3, <2>5 DEF RunInv
<1>5. CASE Alarm
  <2>1. /\ pc = "scan" /\ pc' = "skip" /\ t' = t /\ alarm' = t /\ t < Length /\ Crosses(t)
        /\ UNCHANGED <<up, down, points>>
    BY <1>5 DEF Alarm
  <2>2. Recorded(t) /\ t \in Starts
    BY <2>1 DEF RunInv
  <2>3. Recorded(alarm)'
    BY <1>2, <2>1, <2>2
  <2>4. alarm' \in Starts' /\ alarm' <= t' /\ \A i \in Index : ~(alarm' <= i /\ i < t')
    BY <1>0, <1>2, <2>1, <2>2 DEF Index
  <2> QED BY <2>1, <2>3, <2>4 DEF RunInv
<1>6. CASE SkipCrossing
  <2>1. /\ pc = "skip" /\ pc' = "skip" /\ t' = t + 1 /\ t < Length /\ Crosses(t) /\ alarm' = alarm
        /\ UNCHANGED <<up, down, points>>
    BY <1>6 DEF SkipCrossing
  <2>2. /\ Recorded(alarm) /\ alarm \in Starts /\ alarm <= t
        /\ \A i \in Index : alarm <= i /\ i < t => Crosses(i)
    BY <2>1 DEF RunInv
  <2>3. Recorded(alarm)' /\ alarm' \in Starts'
    BY <1>2, <2>1, <2>2
  <2>4. alarm' <= t'
    BY <1>0, <2>1, <2>2 DEF Index
  <2>5. ASSUME NEW i \in Index, alarm' <= i, i < t' PROVE Crosses(i)'
    <3>1. i < t \/ i = t
      BY <1>0, <2>1, <2>5 DEF Index
    <3> QED BY <1>2, <2>1, <2>2, <2>5, <3>1
  <2> QED BY <2>1, <2>3, <2>4, <2>5 DEF RunInv
<1>7. CASE EventEnds
  <2>1. /\ pc = "skip" /\ UNCHANGED <<t, up, down, alarm>>
        /\ t < Length => ~Crosses(t)
    BY <1>7 DEF EventEnds
  <2>2. /\ Recorded(alarm) /\ alarm \in Starts /\ alarm <= t
        /\ \A i \in Index : alarm <= i /\ i < t => Crosses(i)
    BY <2>1 DEF RunInv
  <2>3. alarm < t
    <3>1. Crosses(alarm)
      BY <2>2 DEF Starts
    <3>2. alarm # t
      BY <1>0, <2>1, <3>1 DEF Index
    <3> QED BY <1>0, <2>2, <3>2 DEF Index
  <2>4. Starts' = Starts /\ \A i : Crosses(i)' <=> Crosses(i)
    BY <2>1, RunsStay
  <2>5. CASE estimator = "crossing"
    <3>1. /\ points' = points \cup {[onset |-> alarm, dir |-> Direction, alarm |-> alarm]}
          /\ pc' = "scan"
      BY <1>7, <2>5 DEF EventEnds, Record
    <3>2. /\ \A p \in points' : p.alarm \in Starts /\ p.alarm < t
          /\ \A i \in Starts : i < t => \E p \in points' : p.alarm = i
          /\ \A p, q \in points' : p.alarm = q.alarm => p = q
      BY <2>1, <2>3, <3>1, RecordRun
    <3>3. Recorded(t)'
      BY <2>1, <2>4, <3>2 DEF Recorded
    <3>4. t' < Length => ~Crosses(t)'
      BY <2>1, <2>4
    <3> QED BY <3>1, <3>3, <3>4 DEF RunInv
  <2>6. CASE estimator # "crossing"
    <3>1. pc' = "walk" /\ points' = points
      BY <1>7, <2>6 DEF EventEnds
    <3>2. Recorded(alarm)'
      BY <1>2, <2>1, <2>2, <3>1
    <3>3. t' < Length => ~Crosses(t)'
      BY <2>1, <2>4
    <3> QED BY <2>1, <2>2, <2>3, <2>4, <3>1, <3>2, <3>3 DEF RunInv
  <2> QED BY <2>5, <2>6
<1>8. CASE WalkBack
  <2>1. pc = "walk" /\ pc' = "walk" /\ UNCHANGED <<t, up, down, alarm, points>>
    BY <1>8 DEF WalkBack
  <2>2. /\ Recorded(alarm) /\ alarm \in Starts /\ alarm <= t
        /\ \A i \in Index : alarm <= i /\ i < t => Crosses(i)
        /\ alarm < t /\ (t < Length => ~Crosses(t))
    BY <2>1 DEF RunInv
  <2>3. Recorded(alarm)' /\ (t' < Length => ~Crosses(t)')
    BY <1>2, <2>1, <2>2
  <2> QED BY <1>2, <2>1, <2>2, <2>3 DEF RunInv
<1>9. CASE WalkEnds
  <2>1. /\ pc = "walk" /\ pc' = "scan" /\ UNCHANGED <<t, up, down>>
        /\ points' = points \cup {[onset |-> j + 1, dir |-> Direction, alarm |-> alarm]}
    BY <1>9 DEF WalkEnds, Record
  <2>2. alarm < t /\ (t < Length => ~Crosses(t))
    BY <2>1 DEF RunInv
  <2>3. Starts' = Starts /\ \A i : Crosses(i)' <=> Crosses(i)
    BY <2>1, RunsStay
  <2>4. /\ \A p \in points' : p.alarm \in Starts /\ p.alarm < t
        /\ \A i \in Starts : i < t => \E p \in points' : p.alarm = i
        /\ \A p, q \in points' : p.alarm = q.alarm => p = q
    BY <2>1, <2>2, RecordRun
  <2>5. Recorded(t)'
    BY <2>1, <2>3, <2>4 DEF Recorded
  <2>6. t' < Length => ~Crosses(t)'
    BY <2>1, <2>2, <2>3
  <2> QED BY <2>1, <2>5, <2>6 DEF RunInv
<1>10. CASE ScanEnds
  <2>1. /\ pc = "scan" /\ pc' \in {"done", "gate"} /\ t = Length
        /\ UNCHANGED <<up, down, points>>
    BY <1>10 DEF ScanEnds
  <2>2. Recorded(Length)
    BY <2>1 DEF RunInv
  <2>3. Recorded(Length)'
    BY <1>2, <2>1, <2>2
  <2> QED BY <2>1, <2>3 DEF RunInv
<1>11. CASE Gate \/ (\E passed \in SUBSET DOMAIN crossing : Filter(passed))
            \/ (\E cp \in abnormal : Begin(cp)) \/ (\E cp \in ChangePoints : RollBack(cp))
            \/ RollBackEnds
  <2>1. pc' \in {"done", "filter", "rollback", "slope"}
    BY <1>11 DEF Gate, Filter, Begin, RollBack, RollBackEnds
  <2> QED BY <2>1 DEF RunInv
<1>12. CASE UNCHANGED vars
  BY <1>12 DEF vars, RunInv, Recorded, Starts, Crosses, Combined
<1> QED BY <1>1, <1>3, <1>4, <1>5, <1>6, <1>7, <1>8, <1>9, <1>10, <1>11, <1>12 DEF Next

\* Every run of crossings is one event and nothing else is: none is split, merged
\* with its neighbour or lost at the end of the window
\* (detect_crossings_and_onsets).
THEOREM RunsAreEvents == Spec => []EventsAreRuns
<1>1. Init => RunInv
  BY DEF Init, RunInv
<1>2. ASSUME TypeInv, RunInv, pc = "gate" PROVE EventsAreRuns
  <2>1. Recorded(Length)
    BY <1>2 DEF RunInv
  <2>2. \A i \in Starts : i < Length
    BY LengthAssumption DEF Starts, Index
  <2>3. {p.alarm : p \in points} = Starts
    BY <2>1, <2>2 DEF Recorded
  <2>4. Cardinality(points) = Cardinality(Starts)
    <3> DEFINE f == [p \in points |-> p.alarm]
    <3>1. f \in Surjection(points, Starts) /\ f \in Injection(points, Starts)
      BY <2>1, <2>3 DEF Surjection, Injection, IsInjective, Recorded
    <3>2. IsFiniteSet(Starts)
      <4>1. IsFiniteSet(Index) /\ Starts \in SUBSET Index
        BY LengthAssumption, FS_Interval DEF Index, Starts
      <4> QED BY <4>1, FS_Subset
    <3> QED BY <3>1, <3>2, FS_Injection
  <2> QED BY <2>3, <2>4 DEF EventsAreRuns, Starts
<1>3. TypeInv /\ RunInv => EventsAreRuns
  BY <1>2 DEF EventsAreRuns
<1> QED BY <1>1, <1>3, InitTypeInv, StepTypeInv, StepRunInv, PTL DEF Spec
-----------------------------------------------------------------------------
(* Rollbacks *)

\* Among subsets of a finite set there is a smallest, which no other is part of.
LEMMA Minimal ==
  ASSUME NEW S, IsFiniteSet(S), NEW F \in SUBSET SUBSET S, F # {}
  PROVE  \E T \in F : \A U \in F : ~(U \subseteq T /\ U # T)
<1>1. IsWellFoundedOn(StrictSubsetOrdering(S), SUBSET S)
  BY FS_StrictSubsetOrderingWellFounded, FS_FiniteSubsetsOfFinite
<1>2. PICK T \in F : \A U \in F : <<U, T>> \notin StrictSubsetOrdering(S)
  BY <1>1, WFMin
<1>3. ASSUME NEW U \in F, U \subseteq T, U # T PROVE FALSE
  <2>1. <<U, T>> \in StrictSubsetOrdering(S)
    BY <1>3 DEF StrictSubsetOrdering
  <2> QED BY <1>2, <2>1
<1> QED BY <1>3

\* A nonempty finite set of numbers has a largest element.
LEMMA HasLargest ==
  ASSUME NEW S, IsFiniteSet(S), S # {}, \A x \in S : x \in Int
  PROVE  \E x \in S : \A y \in S : x >= y
<1> DEFINE NoMax == {T \in SUBSET S : T # {} /\ ~ \E x \in T : \A y \in T : x >= y}
<1>1. ASSUME NoMax # {} PROVE FALSE
  <2>1. PICK T \in NoMax : \A U \in NoMax : ~(U \subseteq T /\ U # T)
    <3>1. NoMax \in SUBSET SUBSET S
      OBVIOUS
    <3> HIDE DEF NoMax
    <3> QED BY <1>1, <3>1, Minimal
  <2>2. PICK m \in T : TRUE
    OBVIOUS
  <2>3. T \ {m} # {}
    BY <2>1, <2>2
  <2>4. ASSUME NEW x \in T \ {m}, \A y \in T \ {m} : x >= y PROVE FALSE
    BY <2>1, <2>2, <2>4
  <2>5. T \ {m} \in NoMax
    BY <2>3, <2>4
  <2> QED BY <2>1, <2>2, <2>5
<1> QED BY <1>1

LEMMA ChangePointsFinite ==
  ASSUME TypeInv
  PROVE  /\ ChangePoints \in SUBSET Index /\ ChangePoints \in SUBSET Int
         /\ \A S \in SUBSET ChangePoints : IsFiniteSet(S) /\ Cardinality(S) \in Nat
<1>1. ChangePoints \in SUBSET Index /\ Index \in SUBSET Int
  BY DEF ChangePoints, TypeInv, TypeOK, Index
<1>2. IsFiniteSet(Index)
  BY LengthAssumption, FS_Interval DEF Index
<1>3. \A S \in SUBSET ChangePoints : S \in SUBSET Index
  BY <1>1
<1>4. \A S \in SUBSET ChangePoints : IsFiniteSet(S)
  BY <1>2, <1>3, FS_Subset
<1> QED BY <1>1, <1>4, FS_CardinalityType

\* Slopes are compared in either order alike.
LEMMA SimilarBothWays ==
  ASSUME TypeInv, NEW a \in Index, NEW b \in Index, Similar(a, b) PROVE Similar(b, a)
<1>1. ASSUME NEW i \in Index PROVE Tangent(i) \in Int
  <2>1. \A k \in Index : z[k] \in Int
    BY LengthAssumption DEF TypeInv, TypeOK
  <2>2. CASE i = 0
    <3>1. 0 \in Index /\ 1 \in Index
      BY LengthAssumption DEF Index
    <3>2. z[0] \in Int /\ z[1] \in Int
      BY <2>1, <3>1
    <3> QED BY <2>2, <3>2, LengthAssumption DEF Tangent
  <2>3. CASE i # 0 /\ i = Length - 1
    <3>1. i \in Index /\ i - 1 \in Index
      BY <2>3, LengthAssumption DEF Index
    <3>2. z[i] \in Int /\ z[i - 1] \in Int
      BY <2>1, <3>1
    <3> QED BY <2>3, <3>2 DEF Tangent
  <2>4. CASE i # 0 /\ i # Length - 1
    <3>1. i + 1 \in Index /\ i - 1 \in Index
      BY <2>4, LengthAssumption DEF Index
    <3>2. z[i + 1] \in Int /\ z[i - 1] \in Int
      BY <2>1, <3>1
    <3> QED BY <2>4, <3>2 DEF Tangent
  <2> QED BY <2>2, <2>3, <2>4
<1>2. PICK x \in Int : x = Tangent(a)
  BY <1>1
<1>3. PICK y \in Int : y = Tangent(b)
  BY <1>1
<1>4. Magnitude(x - y) = Magnitude(y - x)
  BY DEF Magnitude
<1> QED BY <1>2, <1>3, <1>4 DEF Similar

\* Where the rollback of cp has to end: at the first change point of its slope.
SlopeStart(cp, o) ==
  /\ o \in ChangePoints /\ o <= cp /\ Slope(cp, o)
  /\ \A c \in ChangePoints : c <= cp /\ Slope(cp, c) => o <= c

\* Change points cp was rolled back over.
Passed(cp, c) == {x \in ChangePoints : c < x /\ x <= cp}

\* The rollback under way has followed the slope of its start, over as many change
\* points as it made rounds; those that are over ended where theirs begins.
RollInv ==
  /\ pc \in {"filter", "rollback", "slope"} => DOMAIN crossing \subseteq ChangePoints
  /\ pc \notin {"rollback", "slope", "done"} => refined = {}
  /\ pc = "slope" =>
       /\ from \in ChangePoints /\ current \in ChangePoints
       /\ current <= from /\ Slope(from, current)
       /\ rounds = Cardinality(Passed(from, current))
  /\ \A r \in refined : r.cp \in ChangePoints /\ SlopeStart(r.cp, r.onset)

\* Only the series and the change points matter to a slope.
LEMMA SlopesStay ==
  ASSUME UNCHANGED <<z, points>>
  PROVE  /\ ChangePoints' = ChangePoints
         /\ \A a, b : (Similar(a, b)' <=> Similar(a, b)) /\ (Slope(a, b)' <=> Slope(a, b))
         /\ \A a, b : (SlopeStart(a, b)' <=> SlopeStart(a, b)) /\ Passed(a, b)' = Passed(a, b)
<1>1. ChangePoints' = ChangePoints
  BY DEF ChangePoints
<1>2. \A a, b : Similar(a, b)' <=> Similar(a, b)
  BY DEF Similar, Tangent
<1>3. \A a, b : Slope(a, b)' <=> Slope(a, b)
  BY <1>1, <1>2 DEF Slope
<1>4. \A a, b : SlopeStart(a, b)' <=> SlopeStart(a, b)
  BY <1>1, <1>3 DEF SlopeStart
<1>5. \A a, b : Passed(a, b)' = Passed(a, b)
  BY <1>1 DEF Passed
<1> QED BY <1>1, <1>2, <1>3, <1>4, <1>5

\* A change point is on its own slope, and a slope goes on to a preceding change
\* point that is like its first.
LEMMA SlopeGrows ==
  ASSUME TypeInv, NEW cp \in ChangePoints
  PROVE  /\ Slope(cp, cp)
         /\ \A c, d \in ChangePoints :
              /\ c <= cp /\ Slope(cp, c) /\ d < c /\ Similar(c, d)
              /\ \A e \in ChangePoints : e < c => e <= d
              => Slope(cp, d)
<1>1. ChangePoints \subseteq Index /\ ChangePoints \subseteq Int
  BY ChangePointsFinite
<1>2. Slope(cp, cp)
  BY <1>1 DEF Slope
<1>3. ASSUME NEW c \in ChangePoints, NEW d \in ChangePoints,
             c <= cp, Slope(cp, c), d < c, Similar(c, d),
             \A e \in ChangePoints : e < c => e <= d
      PROVE  Slope(cp, d)
  <2>1. SUFFICES ASSUME NEW x \in ChangePoints, NEW y \in ChangePoints,
                        d <= x, x <= cp, d <= y, y <= cp, x < y,
                        ~\E w \in ChangePoints : d <= w /\ w <= cp /\ x < w /\ w < y
                 PROVE  Similar(x, y)
    BY DEF Slope
  <2>2. /\ x \in Int /\ y \in Int /\ c \in Int /\ d \in Int /\ cp \in Int
        /\ c \in Index /\ d \in Index
    BY <1>1
  <2>3. CASE c <= x
    <3>1. c <= y
      BY <2>1, <2>2, <2>3
    <3>2. ~\E w \in ChangePoints : c <= w /\ w <= cp /\ x < w /\ w < y
      BY <1>1, <1>3, <2>1, <2>2
    <3> QED BY <1>3, <2>1, <2>3, <3>1, <3>2 DEF Slope
  <2>4. CASE x < c
    <3>1. x = d
      <4>1. x <= d
        BY <1>3, <2>4
      <4> QED BY <2>1, <2>2, <4>1
    <3>2. y = c
      <4>1. ~(c < y)
        BY <1>3, <2>1, <2>2, <3>1
      <4>2. ~(y < c)
        <5>1. y < c => y <= d
          BY <1>3
        <5> QED BY <2>1, <2>2, <3>1, <5>1
      <4> QED BY <2>2, <4>1, <4>2
    <3>3. Similar(d, c)
      BY <1>3, <2>2, SimilarBothWays
    <3> QED BY <3>1, <3>2, <3>3
  <2> QED BY <2>2, <2>3, <2>4
<1> QED BY <1>2, <1>3

\* A slope that ends before another begins on it.
LEMMA SlopeCut ==
  ASSUME TypeInv, NEW c \in ChangePoints, NEW a \in ChangePoints, NEW b \in ChangePoints,
         c <= a, a <= b, Slope(b, c)
  PROVE  Slope(a, c)
<1>1. ChangePoints \subseteq Int
  BY ChangePointsFinite
<1>2. SUFFICES ASSUME NEW x \in ChangePoints, NEW y \in ChangePoints,
                      c <= x, x <= a, c <= y, y <= a, x < y,
                      ~\E w \in ChangePoints : c <= w /\ w <= a /\ x < w /\ w < y
               PROVE  Similar(x, y)
  BY DEF Slope
<1>3. x <= b /\ y <= b
  BY <1>1, <1>2
<1>4. ~\E w \in ChangePoints : c <= w /\ w <= b /\ x < w /\ w < y
  BY <1>1, <1>2
<1> QED BY <1>2, <1>3, <1>4 DEF Slope

\* The bound on the rounds is never what ends a rollback: it has passed fewer change
\* points than there are.
LEMMA RoundsLeft ==
  ASSUME TypeInv, NEW cp \in ChangePoints, NEW c \in ChangePoints, c <= cp
  PROVE  Cardinality(Passed(cp, c)) < Cardinality(ChangePoints)
<1>1. ChangePoints \subseteq Int
  BY ChangePointsFinite
<1>2. Passed(cp, c) \in SUBSET ChangePoints /\ c \notin Passed(cp, c)
  BY <1>1 DEF Passed
<1>3. /\ IsFiniteSet(ChangePoints) /\ Cardinality(ChangePoints) \in Nat
      /\ Cardinality(Passed(cp, c)) \in Nat
  BY <1>2, ChangePointsFinite
<1>4. /\ Cardinality(Passed(cp, c)) <= Cardinality(ChangePoints)
      /\ Cardinality(ChangePoints) = Cardinality(Passed(cp, c)) => ChangePoints = Passed(cp, c)
  BY <1>2, <1>3, FS_Subset
<1> QED BY <1>2, <1>3, <1>4

\* A round: one change point more of the slope.
LEMMA RoundStep ==
  ASSUME TypeInv, RollInv, NEW cp \in ChangePoints, RollBack(cp) PROVE RollInv'
<1>1. /\ pc = "slope" /\ pc' = "slope" /\ current' = cp /\ rounds' = rounds + 1
      /\ UNCHANGED <<from, refined, crossing>> /\ UNCHANGED <<z, points>>
      /\ IsPreceding(cp) /\ Similar(current, cp)
  BY DEF RollBack, Continues, args
<1>2. PICK f, c : f = from /\ c = current
  OBVIOUS
<1>3. /\ f \in ChangePoints /\ c \in ChangePoints /\ c <= f /\ Slope(f, c)
      /\ rounds = Cardinality(Passed(f, c))
  BY <1>1, <1>2 DEF RollInv
<1>4. cp < c /\ (\A e \in ChangePoints : e < c => e <= cp) /\ Similar(c, cp)
  BY <1>1, <1>2 DEF IsPreceding, Earlier
<1>5. ChangePoints \in SUBSET Int
  BY ChangePointsFinite
<1>6. cp <= f /\ Slope(f, cp)
  <2>1. cp <= f
    BY <1>3, <1>4, <1>5
  <2> QED BY <1>3, <1>4, <2>1, SlopeGrows
<1>7. Cardinality(Passed(f, cp)) = rounds + 1
  <2>1. Passed(f, cp) = Passed(f, c) \cup {c}
    <3>1. c \in Int /\ cp \in Int /\ f \in Int
      BY <1>3, <1>5
    <3>2. ASSUME NEW e \in ChangePoints
          PROVE  (cp < e /\ e <= f) <=> (c < e /\ e <= f) \/ e = c
      <4>1. e \in Int /\ (e < c => e <= cp)
        BY <1>4, <1>5
      <4> QED BY <1>3, <1>4, <3>1, <4>1
    <3> QED BY <1>3, <3>2 DEF Passed
  <2>2. c \notin Passed(f, c) /\ Passed(f, c) \in SUBSET ChangePoints
    BY <1>3, <1>5 DEF Passed
  <2>3. IsFiniteSet(Passed(f, c))
    BY <2>2, ChangePointsFinite
  <2> QED BY <1>3, <2>1, <2>2, <2>3, FS_AddElement
<1>8. /\ ChangePoints' = ChangePoints
      /\ Slope(f, cp)' /\ Passed(f, cp)' = Passed(f, cp)
      /\ \A a, b : SlopeStart(a, b)' <=> SlopeStart(a, b)
  BY <1>1, <1>6, SlopesStay
<1>9. from' = f /\ current' = cp
  BY <1>1, <1>2
<1>10. Slope(from, current)' /\ rounds' = Cardinality(Passed(from, current))'
  BY <1>1, <1>7, <1>8, <1>9 DEF Slope, Passed
<1>11. \A r \in refined' : r.cp \in ChangePoints' /\ SlopeStart(r.cp, r.onset)'
  BY <1>1, <1>8 DEF RollInv
<1> QED BY <1>1, <1>3, <1>6, <1>8, <1>9, <1>10, <1>11 DEF RollInv

\* The end of a rollback: nothing precedes, or what does is not on the slope.
LEMMA RollEndsStep ==
  ASSUME TypeInv, RollInv, RollBackEnds PROVE RollInv'
<1>1. /\ pc = "slope" /\ pc' \in {"done", "rollback"}
      /\ refined' = refined \cup {[cp |-> from, onset |-> current, dir |-> DirectionOf(from)]}
      /\ UNCHANGED <<crossing, z, points>>
      /\ ~\E cp \in ChangePoints : Continues(cp)
  BY DEF RollBackEnds, args
<1>2. PICK f, c : f = from /\ c = current
  OBVIOUS
<1>3. /\ f \in ChangePoints /\ c \in ChangePoints /\ c <= f /\ Slope(f, c)
      /\ rounds = Cardinality(Passed(f, c))
  BY <1>1, <1>2 DEF RollInv
<1>4. /\ ChangePoints \in SUBSET Int /\ ChangePoints \in SUBSET Index
      /\ \A S \in SUBSET ChangePoints : IsFiniteSet(S)
  BY ChangePointsFinite
<1>5. rounds < Cardinality(ChangePoints)
  BY <1>3, RoundsLeft
<1>6. ASSUME NEW x \in ChangePoints, x <= f, Slope(f, x) PROVE c <= x
  <2>0. x \in Int /\ c \in Int /\ f \in Int
    BY <1>3, <1>4
  <2> SUFFICES ASSUME x < c PROVE FALSE
    BY <2>0
  <2> DEFINE E == {y \in ChangePoints : y < c}
  <2>1. E \in SUBSET Int /\ IsFiniteSet(E) /\ x \in E
    BY <1>4
  <2>2. PICK d \in E : \A y \in E : d >= y
    <3> HIDE DEF E
    <3> QED BY <2>1, HasLargest
  <2>3. d \in ChangePoints /\ d < c /\ \A y \in ChangePoints : y < c => y <= d
    BY <1>4, <2>2
  <2>4. IsPreceding(d)
    BY <1>2, <2>3 DEF IsPreceding, Earlier
  <2>5. Similar(d, c)
    <3>1. x <= d /\ d <= f /\ x <= c
      BY <1>3, <1>4, <2>3
    <3>2. ~\E w \in ChangePoints : d < w /\ w < c
      BY <1>4, <2>3
    <3> QED BY <1>3, <1>6, <2>3, <3>1, <3>2 DEF Slope
  <2>6. Similar(c, d)
    BY <1>3, <1>4, <2>3, <2>5, SimilarBothWays
  <2>7. Continues(d)
    BY <1>2, <1>5, <2>4, <2>6 DEF Continues
  <2> QED BY <1>1, <2>3, <2>7
<1>7. SlopeStart(f, c)
  BY <1>3, <1>6 DEF SlopeStart
<1>8. /\ ChangePoints' = ChangePoints
      /\ \A a, b : SlopeStart(a, b)' <=> SlopeStart(a, b)
  BY <1>1, SlopesStay
<1>9. ASSUME NEW r \in refined' PROVE r.cp \in ChangePoints' /\ SlopeStart(r.cp, r.onset)'
  <2>1. CASE r \in refined
    BY <1>8, <2>1 DEF RollInv
  <2>2. CASE r \notin refined
    <3>1. r.cp = f /\ r.onset = c
      BY <1>1, <1>2, <2>2
    <3>2. SlopeStart(f, c)'
      BY <1>7, <1>8
    <3> QED BY <1>3, <1>8, <3>1, <3>2
  <2> QED BY <2>1, <2>2
<1>10. DOMAIN crossing' \subseteq ChangePoints'
  BY <1>1, <1>8 DEF RollInv
<1> QED BY <1>1, <1>9, <1>10 DEF RollInv

LEMMA StepRollInv == TypeInv /\ RollInv /\ [Next]_vars => RollInv'
<1> SUFFICES ASSUME TypeInv, RollInv, [Next]_vars PROVE RollInv'
  OBVIOUS
<1> USE DEF args, back
<1>1. CASE Cusum \/ CusumEnd \/ Quiet \/ Alarm \/ SkipCrossing \/ EventEnds \/ WalkBack
           \/ WalkEnds \/ ScanEnds
  <2>1. /\ pc \in {"cusum", "scan", "skip", "walk"} /\ refined' = refined
        /\ pc' \in {"cusum", "scan", "skip", "walk", "gate", "done"}
    BY <1>1 DEF Cusum, CusumEnd, Quiet, Alarm, SkipCrossing, EventEnds, WalkBack, WalkEnds,
                ScanEnds
  <2> QED BY <2>1 DEF RollInv
<1>2. CASE Gate
  <2>1. /\ pc = "gate" /\ pc' \in {"done", "filter"} /\ refined' = refined
        /\ DOMAIN crossing' = {p.onset : p \in points'}
    BY <1>2 DEF Gate
  <2> QED BY <2>1 DEF RollInv, ChangePoints
<1>3. ASSUME UNCHANGED <<z, points>>, refined' = refined, crossing' = crossing
      PROVE  /\ ChangePoints' = ChangePoints
             /\ \A r \in refined' : r.cp \in ChangePoints' /\ SlopeStart(r.cp, r.onset)'
  BY <1>3, SlopesStay DEF RollInv
<1>4. CASE \E passed \in SUBSET DOMAIN crossing : Filter(passed)
  <2>1. /\ pc = "filter" /\ pc' \in {"done", "rollback"}
        /\ UNCHANGED <<z, points>> /\ refined' = refined /\ crossing' = crossing
    BY <1>4 DEF Filter
  <2>2. /\ ChangePoints' = ChangePoints
        /\ \A r \in refined' : r.cp \in ChangePoints' /\ SlopeStart(r.cp, r.onset)'
    BY <1>3, <2>1
  <2> QED BY <2>1, <2>2 DEF RollInv
<1>5. ASSUME NEW cp \in abnormal, Begin(cp) PROVE RollInv'
  <2>1. /\ pc = "rollback" /\ pc' = "slope" /\ from' = cp /\ current' = cp /\ rounds' = 0
        /\ UNCHANGED <<z, points>> /\ refined' = refined /\ crossing' = crossing
    BY <1>5 DEF Begin
  <2>2. /\ ChangePoints' = ChangePoints
        /\ \A r \in refined' : r.cp \in ChangePoints' /\ SlopeStart(r.cp, r.onset)'
    BY <1>3, <2>1
  <2>3. cp \in ChangePoints
    BY <2>1 DEF RollInv, TypeInv, TypeOK
  <2>4. cp \in Int
    BY <2>3, ChangePointsFinite
  <2>5. Slope(cp, cp)
    BY <2>3, SlopeGrows
  <2>6. Cardinality(Passed(cp, cp)) = 0
    <3>1. Passed(cp, cp) = {}
      <4>1. ChangePoints \subseteq Int
        BY ChangePointsFinite
      <4>2. \A x \in ChangePoints : ~(cp < x /\ x <= cp)
        BY <2>4, <4>1
      <4> QED BY <4>2 DEF Passed
    <3> QED BY <3>1, FS_EmptySet
  <2>7. Slope(cp, cp)' /\ Passed(cp, cp)' = Passed(cp, cp)
    BY <2>1, <2>5, SlopesStay
  <2>8. Slope(from, current)' /\ rounds' = Cardinality(Passed(from, current))'
    BY <2>1, <2>6, <2>7 DEF Slope, Passed
  <2> QED BY <2>1, <2>2, <2>3, <2>4, <2>8 DEF RollInv
<1>6. CASE \E cp \in ChangePoints : RollBack(cp)
  BY <1>6, RoundStep
<1>7. CASE RollBackEnds
  BY <1>7, RollEndsStep
<1>8. CASE UNCHANGED vars
  <2>1. /\ UNCHANGED <<z, points>> /\ refined' = refined /\ crossing' = crossing
        /\ UNCHANGED <<pc, from, current, rounds>>
    BY <1>8 DEF vars
  <2>2. /\ ChangePoints' = ChangePoints
        /\ \A r \in refined' : r.cp \in ChangePoints' /\ SlopeStart(r.cp, r.onset)'
    BY <1>3, <2>1
  <2>3. (Slope(from, current)' <=> Slope(from, current))
        /\ Passed(from, current)' = Passed(from, current)
    BY <2>1, <2>2 DEF Slope, Passed, Similar, Tangent
  <2> QED BY <2>1, <2>2, <2>3 DEF RollInv
<1> QED BY <1>1, <1>2, <1>4, <1>5, <1>6, <1>7, <1>8 DEF Next

\* A rollback ends at the first change point of the slope its start is on, whatever
\* the order in which the set of change points is visited, and two never swap
\* (rollback_onset).
THEOREM RollbacksAreExact == Spec => []RollbackExact
<1>1. Init => RollInv
  BY DEF Init, RollInv
<1>2. ASSUME TypeInv, RollInv PROVE RollbackExact
  <2>1. ChangePoints \subseteq Int
    BY <1>2, ChangePointsFinite
  <2>2. ASSUME NEW r \in refined
        PROVE  r.onset = Min({c \in ChangePoints : c <= r.cp /\ Slope(r.cp, c)})
    <3>1. SlopeStart(r.cp, r.onset)
      BY <1>2 DEF RollInv
    <3> DEFINE C == {c \in ChangePoints : c <= r.cp /\ Slope(r.cp, c)}
    <3>2. r.onset \in C /\ (\A c \in C : r.onset <= c) /\ C \subseteq Int
      BY <2>1, <3>1 DEF SlopeStart
    <3> HIDE DEF C
    <3>3. ASSUME NEW m \in C, \A c \in C : m <= c PROVE m = r.onset
      <4>1. m <= r.onset /\ r.onset <= m /\ m \in Int /\ r.onset \in Int
        BY <3>2, <3>3
      <4> QED BY <4>1
    <3>4. Min(C) = r.onset
      BY <3>2, <3>3 DEF Min
    <3> QED BY <3>4 DEF C
  <2>3. ASSUME NEW r \in refined, NEW q \in refined, r.cp < q.cp PROVE r.onset <= q.onset
    <3>1. /\ SlopeStart(r.cp, r.onset) /\ SlopeStart(q.cp, q.onset)
          /\ r.cp \in ChangePoints /\ q.cp \in ChangePoints
      BY <1>2 DEF RollInv
    <3>2. /\ r.onset \in ChangePoints /\ q.onset \in ChangePoints
          /\ r.onset <= r.cp /\ q.onset <= q.cp
      BY <3>1 DEF SlopeStart
    <3>3. r.onset \in Int /\ q.onset \in Int /\ r.cp \in Int /\ q.cp \in Int
      BY <2>1, <3>1, <3>2
    <3>4. CASE q.onset <= r.cp
      <4>1. Slope(q.cp, q.onset)
        BY <3>1 DEF SlopeStart
      <4>2. Slope(r.cp, q.onset)
        <5>1. r.cp <= q.cp
          BY <2>3, <3>3
        <5> QED BY <1>2, <3>1, <3>2, <3>4, <4>1, <5>1, SlopeCut
      <4> QED BY <3>1, <3>2, <3>4, <4>2 DEF SlopeStart
    <3>5. CASE r.cp < q.onset
      BY <3>2, <3>3, <3>5
    <3> QED BY <3>3, <3>4, <3>5
  <2> QED BY <2>2, <2>3 DEF RollbackExact
<1>3. TypeInv /\ RollInv => RollbackExact
  BY <1>2
<1> QED BY <1>1, <1>3, InitTypeInv, StepTypeInv, StepRollInv, PTL DEF Spec
-----------------------------------------------------------------------------
(* Induction and sums *)

\* What holds at a, and from each number to the next, holds up to b.
LEMMA UpTo ==
  ASSUME NEW a \in Int, NEW b \in Int, NEW N, a \in N, \A n \in a .. b - 1 : n \in N => n + 1 \in N
  PROVE  \A n \in a .. b : n \in N
<1> DEFINE Bad == {-n : n \in (a .. b) \ N}
<1> SUFFICES ASSUME Bad # {} PROVE FALSE
  OBVIOUS
<1>1. Bad \subseteq -b .. -a /\ \A n \in Bad : n \in Int
  OBVIOUS
<1>2. IsFiniteSet(-b .. -a)
  BY FS_Interval
<1>3. IsFiniteSet(Bad)
  <2> HIDE DEF Bad
  <2> QED BY <1>1, <1>2, FS_Subset
<1>4. PICK m \in Bad : \A n \in Bad : m >= n
  <2> HIDE DEF Bad
  <2> QED BY <1>1, <1>3, HasLargest
<1>5. PICK n \in (a .. b) \ N : m = -n
  BY <1>4
<1>6. n # a /\ n - 1 \in a .. b - 1 /\ (n - 1) + 1 = n
  BY <1>5
<1>7. n - 1 \notin N
  BY <1>5, <1>6
<1>8. -(n - 1) \in Bad
  BY <1>6, <1>7
<1>9. -n >= -(n - 1)
  BY <1>4, <1>5, <1>8
<1> QED BY <1>5, <1>9

\* SumFunctionOnSet adds up an element of its choice and what is left.
SomeOf(s) == CHOOSE x \in s : TRUE
SumTo(fun, S, it) ==
  it = [s \in SUBSET S |-> IF s = {} THEN 0 ELSE fun[SomeOf(s)] + it[s \ {SomeOf(s)}]]

LEMMA SumToAt ==
  ASSUME NEW fun, NEW S, NEW it, SumTo(fun, S, it), NEW s \in SUBSET S
  PROVE  it[s] = IF s = {} THEN 0 ELSE fun[SomeOf(s)] + it[s \ {SomeOf(s)}]
BY DEF SumTo

LEMMA SumUnique ==
  ASSUME NEW fun, NEW T, NEW U, IsFiniteSet(T), NEW g, NEW h,
         SumTo(fun, T, g), SumTo(fun, U, h)
  PROVE  \A s \in SUBSET T : s \in SUBSET U => g[s] = h[s]
<1> DEFINE Bad == {s \in SUBSET T : s \in SUBSET U /\ g[s] # h[s]}
<1> SUFFICES ASSUME Bad # {} PROVE FALSE
  OBVIOUS
<1>1. PICK m \in Bad : \A u \in Bad : ~(u \subseteq m /\ u # m)
  <2>1. Bad \in SUBSET SUBSET T
    OBVIOUS
  <2> HIDE DEF Bad
  <2> QED BY <2>1, Minimal
<1>2. /\ g[m] = IF m = {} THEN 0 ELSE fun[SomeOf(m)] + g[m \ {SomeOf(m)}]
      /\ h[m] = IF m = {} THEN 0 ELSE fun[SomeOf(m)] + h[m \ {SomeOf(m)}]
  <2>1. m \in SUBSET T /\ m \in SUBSET U
    OBVIOUS
  <2> HIDE DEF Bad
  <2>2. g[m] = IF m = {} THEN 0 ELSE fun[SomeOf(m)] + g[m \ {SomeOf(m)}]
    BY <2>1, SumToAt
  <2>3. h[m] = IF m = {} THEN 0 ELSE fun[SomeOf(m)] + h[m \ {SomeOf(m)}]
    BY <2>1, SumToAt
  <2> QED BY <2>2, <2>3
<1>3. m # {}
  BY <1>2
<1>4. SomeOf(m) \in m
  BY <1>3 DEF SomeOf
<1>5. m \ {SomeOf(m)} \notin Bad
  BY <1>1, <1>4
<1>6. g[m \ {SomeOf(m)}] = h[m \ {SomeOf(m)}]
  BY <1>5
<1> QED BY <1>2, <1>6

\* The recursion is well defined, on every finite set.
LEMMA SumExists ==
  ASSUME NEW fun, NEW S, IsFiniteSet(S)
  PROVE  \A T \in SUBSET S : \E g : SumTo(fun, T, g)
<1> DEFINE Bad == {T \in SUBSET S : ~\E g : SumTo(fun, T, g)}
<1> SUFFICES ASSUME Bad # {} PROVE FALSE
  OBVIOUS
<1>1. PICK T \in Bad : \A U \in Bad : ~(U \subseteq T /\ U # T)
  <2>1. Bad \in SUBSET SUBSET S
    OBVIOUS
  <2> HIDE DEF Bad
  <2> QED BY <2>1, Minimal
<1> DEFINE G(s) == CHOOSE g : SumTo(fun, s, g)
           x == SomeOf(T)
           h == [s \in SUBSET T |->
                   IF s = T THEN IF T = {} THEN 0 ELSE fun[x] + G(T \ {x})[T \ {x}]
                   ELSE G(s)[s]]
<1>2. ASSUME NEW s \in SUBSET T, s # T PROVE SumTo(fun, s, G(s))
  <2>1. s \notin Bad
    BY <1>1, <1>2
  <2>2. \E g : SumTo(fun, s, g)
    BY <1>1, <1>2, <2>1
  <2> QED BY <2>2
<1>3. ASSUME NEW s \in SUBSET T
      PROVE  h[s] = IF s = {} THEN 0 ELSE fun[SomeOf(s)] + h[s \ {SomeOf(s)}]
  <2>1. s # {} => SomeOf(s) \in s
    BY DEF SomeOf
  <2>2. CASE s = T
    <3>1. CASE T = {}
      BY <2>2, <3>1
    <3>2. CASE T # {}
      <4>1. T \ {x} # T /\ T \ {x} \in SUBSET T
        BY <2>1, <2>2, <3>2
      <4>2. h[T \ {x}] = G(T \ {x})[T \ {x}]
        BY <4>1
      <4>3. h[T] = fun[x] + G(T \ {x})[T \ {x}]
        BY <3>2
      <4> QED BY <2>2, <3>2, <4>2, <4>3
    <3> QED BY <3>1, <3>2
  <2>3. CASE s # T
    <3> DEFINE y == SomeOf(s)
    <3>1. h[s] = G(s)[s]
      BY <2>3
    <3>2. SumTo(fun, s, G(s))
      BY <1>2, <2>3
    <3>3. G(s)[s] = IF s = {} THEN 0 ELSE fun[y] + G(s)[s \ {y}]
      <4> HIDE DEF G
      <4> QED BY <3>2, SumToAt
    <3>4. ASSUME s # {} PROVE h[s \ {y}] = G(s)[s \ {y}]
      <4>1. s \ {y} \in SUBSET T /\ s \ {y} # T /\ s \ {y} \in SUBSET s
        BY <2>1, <2>3, <3>4
      <4>2. h[s \ {y}] = G(s \ {y})[s \ {y}]
        BY <4>1
      <4>3. SumTo(fun, s \ {y}, G(s \ {y}))
        BY <1>2, <4>1
      <4>4. IsFiniteSet(s)
        BY <1>1, FS_Subset
      <4>5. G(s)[s \ {y}] = G(s \ {y})[s \ {y}]
        <5> HIDE DEF G, y
        <5> QED BY <3>2, <4>1, <4>3, <4>4, SumUnique
      <4> QED BY <4>2, <4>5
    <3> HIDE DEF G, h
    <3> QED BY <3>1, <3>3, <3>4
  <2> QED BY <2>2, <2>3
<1>4. SumTo(fun, T, h)
  <2>1. h = [s \in SUBSET T |-> h[s]]
    OBVIOUS
  <2> HIDE DEF h
  <2> QED BY <1>3, <2>1 DEF SumTo
<1> QED BY <1>1, <1>4

LEMMA SumStep ==
  ASSUME NEW fun, NEW S, IsFiniteSet(S)
  PROVE  SumFunctionOnSet(fun, S) =
           IF S = {} THEN 0 ELSE fun[SomeOf(S)] + SumFunctionOnSet(fun, S \ {SomeOf(S)})
<1> DEFINE G(s) == CHOOSE g : SumTo(fun, s, g)
           y == SomeOf(S)
<1>1. \A s : SumFunctionOnSet(fun, s) = G(s)[s]
  BY DEF SumFunctionOnSet, FoldFunctionOnSet, MapThenFoldSet, SumTo, SomeOf
<1>2. SumTo(fun, S, G(S)) /\ SumTo(fun, S \ {y}, G(S \ {y}))
  BY SumExists
<1> HIDE DEF G
<1>3. PICK g, h : g = G(S) /\ h = G(S \ {y})
  OBVIOUS
<1>4. SumTo(fun, S, g) /\ SumTo(fun, S \ {y}, h)
  BY <1>2, <1>3
<1>5. g[S] = IF S = {} THEN 0 ELSE fun[SomeOf(S)] + g[S \ {SomeOf(S)}]
  <2>1. S \in SUBSET S
    OBVIOUS
  <2> QED BY <1>4, <2>1, SumToAt
<1>6. g[S \ {y}] = h[S \ {y}]
  <2> HIDE DEF y
  <2>1. S \ {y} \in SUBSET S /\ S \ {y} \in SUBSET (S \ {y})
    OBVIOUS
  <2>2. \A s \in SUBSET S : s \in SUBSET (S \ {y}) => g[s] = h[s]
    BY <1>4, SumUnique
  <2> QED BY <2>1, <2>2
<1> QED BY <1>1, <1>3, <1>5, <1>6

LEMMA SumType ==
  ASSUME NEW fun, NEW S, IsFiniteSet(S), \A x \in S : fun[x] \in Int
  PROVE  \A s \in SUBSET S : SumFunctionOnSet(fun, s) \in Int
<1> DEFINE Bad == {s \in SUBSET S : SumFunctionOnSet(fun, s) \notin Int}
<1> SUFFICES ASSUME Bad # {} PROVE FALSE
  OBVIOUS
<1>1. PICK m \in Bad : \A u \in Bad : ~(u \subseteq m /\ u # m)
  <2>1. Bad \in SUBSET SUBSET S
    OBVIOUS
  <2> HIDE DEF Bad
  <2> QED BY <2>1, Minimal
<1>2. IsFiniteSet(m)
  BY FS_Subset
<1>3. m # {}
  <2>1. m = {} => SumFunctionOnSet(fun, m) = 0
    BY <1>2, SumStep
  <2> QED BY <1>1, <2>1
<1>4. SomeOf(m) \in m
  BY <1>3 DEF SomeOf
<1>5. m \ {SomeOf(m)} \notin Bad
  BY <1>1, <1>4
<1>6. SumFunctionOnSet(fun, m \ {SomeOf(m)}) \in Int
  BY <1>1, <1>5
<1>7. fun[SomeOf(m)] \in Int
  BY <1>1, <1>4
<1>8. SumFunctionOnSet(fun, m) = fun[SomeOf(m)] + SumFunctionOnSet(fun, m \ {SomeOf(m)})
  BY <1>2, <1>3, SumStep
<1> QED BY <1>1, <1>6, <1>7, <1>8

\* The order does not matter: any element may be taken out.
LEMMA SumRemove ==
  ASSUME NEW fun, NEW S, IsFiniteSet(S), \A x \in S : fun[x] \in Int
  PROVE  \A s \in SUBSET S : \A x \in s :
           SumFunctionOnSet(fun, s) = fun[x] + SumFunctionOnSet(fun, s \ {x})
<1> DEFINE Sum(s) == SumFunctionOnSet(fun, s)
           Bad == {s \in SUBSET S : \E x \in s : Sum(s) # fun[x] + Sum(s \ {x})}
<1> SUFFICES ASSUME Bad # {} PROVE FALSE
  OBVIOUS
<1>1. PICK m \in Bad : \A u \in Bad : ~(u \subseteq m /\ u # m)
  <2>1. Bad \in SUBSET SUBSET S
    OBVIOUS
  <2> HIDE DEF Bad
  <2> QED BY <2>1, Minimal
<1>2. PICK x \in m : Sum(m) # fun[x] + Sum(m \ {x})
  BY <1>1
<1>3. IsFiniteSet(m) /\ m \in SUBSET S
  BY <1>1, FS_Subset
<1> DEFINE y == SomeOf(m)
<1>4. y \in m /\ Sum(m) = fun[y] + Sum(m \ {y})
  <2>1. y \in m
    BY <1>2 DEF SomeOf
  <2> QED BY <1>2, <1>3, <2>1, SumStep
<1>5. x # y
  BY <1>2, <1>4
<1> HIDE DEF y
<1>6. m \ {y} \notin Bad /\ m \ {x} \notin Bad
  <2>1. /\ m \ {y} \subseteq m /\ m \ {y} # m
        /\ m \ {x} \subseteq m /\ m \ {x} # m
    BY <1>2, <1>4
  <2> HIDE DEF Bad
  <2> QED BY <1>1, <2>1
<1>7. /\ Sum(m \ {y}) = fun[x] + Sum((m \ {y}) \ {x})
      /\ Sum(m \ {x}) = fun[y] + Sum((m \ {x}) \ {y})
  <2>1. x \in m \ {y} /\ y \in m \ {x} /\ m \ {y} \in SUBSET S /\ m \ {x} \in SUBSET S
    BY <1>2, <1>3, <1>4, <1>5
  <2> HIDE DEF Sum
  <2> QED BY <1>6, <2>1
<1>8. (m \ {y}) \ {x} = (m \ {x}) \ {y}
  OBVIOUS
<1>9. PICK r \in Int : r = Sum((m \ {y}) \ {x})
  <2>1. (m \ {y}) \ {x} \in SUBSET S
    BY <1>3
  <2> QED BY <2>1, SumType
<1>10. fun[x] \in Int /\ fun[y] \in Int
  BY <1>2, <1>3, <1>4
<1>11. Sum(m) = fun[y] + (fun[x] + r) /\ Sum(m \ {x}) = fun[y] + r
  BY <1>4, <1>7, <1>8, <1>9
<1> HIDE DEF Sum
<1> QED BY <1>2, <1>10, <1>11
-----------------------------------------------------------------------------
(* Onsets and evidence *)

\* A sum over an interval, from its last term.
LEMMA Interval ==
  ASSUME NEW f, NEW a \in Int, NEW b \in Int, a <= b, \A n \in a .. b : f[n] \in Int
  PROVE  /\ SumFunctionOnSet(f, a .. b - 1) \in Int
         /\ SumFunctionOnSet(f, a .. b) = SumFunctionOnSet(f, a .. b - 1) + f[b]
<1> DEFINE S == a .. b
<1>1. IsFiniteSet(S)
  BY FS_Interval
<1>2. S \in SUBSET S /\ b \in S /\ S \ {b} = a .. b - 1 /\ a .. b - 1 \in SUBSET S /\ f[b] \in Int
  OBVIOUS
<1>3. \A n \in S : f[n] \in Int
  OBVIOUS
<1> HIDE DEF S
<1>4. SumFunctionOnSet(f, a .. b - 1) \in Int
  BY <1>1, <1>2, <1>3, SumType
<1>5. SumFunctionOnSet(f, S) = f[b] + SumFunctionOnSet(f, S \ {b})
  BY <1>1, <1>2, <1>3, SumRemove
<1>6. SumFunctionOnSet(f, S) = SumFunctionOnSet(f, a .. b - 1) + f[b]
  <2>1. PICK s \in Int : s = SumFunctionOnSet(f, a .. b - 1)
    BY <1>4
  <2>2. SumFunctionOnSet(f, S \ {b}) = s
    BY <1>2, <2>1
  <2>3. f[b] + s = s + f[b]
    BY <1>2, <2>1
  <2> QED BY <1>5, <2>1, <2>2, <2>3
<1> QED BY <1>4, <1>6 DEF S

LEMMA OneTerm ==
  ASSUME NEW f, NEW a \in Int, f[a] \in Int
  PROVE  SumFunctionOnSet(f, a .. a) = f[a]
<1>1. a .. a - 1 = {} /\ a <= a /\ \A n \in a .. a : f[n] \in Int
  OBVIOUS
<1>2. SumFunctionOnSet(f, {}) = 0
  BY FS_EmptySet, SumStep
<1>3. SumFunctionOnSet(f, a .. a) = SumFunctionOnSet(f, a .. a - 1) + f[a]
  BY <1>1, Interval
<1> QED BY <1>1, <1>2, <1>3

\* A score that adds at least every term adds at least their sum.
LEMMA GrowsBySum ==
  ASSUME NEW f, NEW g, NEW a \in Int, NEW b \in Int, a <= b,
         \A n \in a - 1 .. b : g[n] \in Int,
         \A n \in a .. b : f[n] \in Int /\ g[n] >= g[n - 1] + f[n]
  PROVE  SumFunctionOnSet(f, a .. b) \in Int /\ g[b] >= g[a - 1] + SumFunctionOnSet(f, a .. b)
<1> DEFINE Sum(n) == SumFunctionOnSet(f, a .. n)
           N == {n \in a .. b : Sum(n) \in Int /\ g[n] >= g[a - 1] + Sum(n)}
<1>1. a \in N
  <2>1. a \in a .. b /\ f[a] \in Int /\ g[a] >= g[a - 1] + f[a]
    OBVIOUS
  <2>2. Sum(a) = f[a]
    BY <2>1, OneTerm
  <2> QED BY <2>1, <2>2
<1>2. ASSUME NEW n \in a .. b - 1, n \in N PROVE n + 1 \in N
  <2>1. /\ n + 1 \in a .. b /\ n \in a - 1 .. b /\ n + 1 \in a - 1 .. b /\ a - 1 \in a - 1 .. b
        /\ n \in Int /\ n + 1 \in Int /\ a <= n + 1 /\ (n + 1) - 1 = n
    OBVIOUS
  <2>2. \A i \in a .. n + 1 : f[i] \in Int
    OBVIOUS
  <2>3. Sum(n + 1) = Sum(n) + f[n + 1]
    BY <2>1, <2>2, Interval
  <2>4. Sum(n) \in Int /\ g[n] >= g[a - 1] + Sum(n)
    BY <1>2
  <2>5. /\ g[n + 1] >= g[n] + f[n + 1] /\ f[n + 1] \in Int
        /\ g[n + 1] \in Int /\ g[n] \in Int /\ g[a - 1] \in Int
    BY <2>1
  <2> HIDE DEF Sum
  <2>6. Sum(n + 1) \in Int /\ g[n + 1] >= g[a - 1] + Sum(n + 1)
    BY <2>3, <2>4, <2>5
  <2> QED BY <2>1, <2>6
<1> HIDE DEF N
<1>3. \A n \in a .. b : n \in N
  BY <1>1, <1>2, UpTo
<1>4. b \in N
  BY <1>3
<1> QED BY <1>4 DEF N

\* A score that starts at zero and adds every term is their sum.
LEMMA IsSum ==
  ASSUME NEW f, NEW g, NEW a \in Int, NEW b \in Int, a <= b, g[a - 1] = 0,
         \A n \in a .. b : f[n] \in Int /\ g[n] = g[n - 1] + f[n]
  PROVE  g[b] = SumFunctionOnSet(f, a .. b)
<1> DEFINE Sum(n) == SumFunctionOnSet(f, a .. n)
           N == {n \in a .. b : g[n] = Sum(n)}
<1>1. a \in N
  <2>1. a \in a .. b /\ f[a] \in Int /\ g[a] = f[a]
    OBVIOUS
  <2>2. Sum(a) = f[a]
    BY <2>1, OneTerm
  <2> QED BY <2>1, <2>2
<1>2. ASSUME NEW n \in a .. b - 1, n \in N PROVE n + 1 \in N
  <2>1. n + 1 \in a .. b /\ n + 1 \in Int /\ a <= n + 1 /\ (n + 1) - 1 = n
    OBVIOUS
  <2>2. \A i \in a .. n + 1 : f[i] \in Int
    OBVIOUS
  <2>3. Sum(n + 1) = Sum(n) + f[n + 1]
    BY <2>1, <2>2, Interval
  <2>4. g[n] = Sum(n) /\ g[n + 1] = g[n] + f[n + 1]
    BY <1>2, <2>1
  <2> HIDE DEF Sum
  <2> QED BY <2>1, <2>3, <2>4
<1> HIDE DEF N
<1>3. \A n \in a .. b : n \in N
  BY <1>1, <1>2, UpTo
<1>4. b \in N
  BY <1>3
<1> QED BY <1>4 DEF N

\* The term a sample adds to the score of a direction.
Change(dir) == [n \in Index |-> (IF dir = "up" THEN z[n] ELSE -z[n]) - K]

\* An onset is where its detector last left zero, and the detector has stayed
\* off zero up to the alarm, where it is over the threshold.
Evident(p) ==
  /\ p.onset \in 1 .. p.alarm
  /\ Fired(p.dir)[p.onset - 1] = 0
  /\ Fired(p.dir)[p.alarm] >= H
  /\ \A i \in p.onset .. p.alarm : Fired(p.dir)[i] > 0

EvidenceInv ==
  /\ OnsetInv
  /\ estimator # "crossing" => \A p \in points : Evident(p)

\* What the complete scores say of each sample.
LEMMA Terms ==
  ASSUME OnsetInv, pc # "cusum", NEW dir \in {"up", "down"}, NEW i \in 1 .. Length - 1
  PROVE  /\ i \in Index /\ i - 1 \in Index
         /\ Change(dir)[i] \in Int
         /\ Fired(dir)[i] \in Nat /\ Fired(dir)[i - 1] \in Nat
         /\ Fired(dir)[i] >= Fired(dir)[i - 1] + Change(dir)[i]
         /\ Fired(dir)[i] > 0 => Fired(dir)[i] = Fired(dir)[i - 1] + Change(dir)[i]
<1>1. i \in Index /\ i - 1 \in Index
  BY LengthAssumption DEF Index
<1>2. Recurrence(i)
  BY DEF OnsetInv, Scored
<1>3. z[i] \in Int /\ K \in Int
  <2>1. z \in [Index -> Scores] /\ Scores \subseteq Int /\ K \in Nat
    BY LengthAssumption, ThresholdsAssumption DEF OnsetInv, TypeInv, TypeOK
  <2>2. z[i] \in Scores
    BY <1>1, <2>1
  <2>3. z[i] \in Int
    BY <2>1, <2>2
  <2> QED BY <2>1, <2>3
<1>4. /\ up[i] \in Nat /\ up[i - 1] \in Nat /\ down[i] \in Nat /\ down[i - 1] \in Nat
  BY <1>1 DEF OnsetInv, TypeInv, TypeOK
<1>5. Change(dir)[i] = (IF dir = "up" THEN z[i] ELSE -z[i]) - K
  BY <1>1 DEF Change
<1>6. CASE dir = "up"
  <2>1. Change(dir)[i] = z[i] - K /\ Fired(dir) = up
    BY <1>5, <1>6 DEF Fired
  <2>2. up[i] = Larger(0, up[i - 1] + z[i] - K)
    BY <1>2 DEF Recurrence
  <2> QED BY <1>1, <1>3, <1>4, <2>1, <2>2 DEF Larger
<1>7. CASE dir = "down"
  <2>1. Change(dir)[i] = -z[i] - K /\ Fired(dir) = down
    BY <1>5, <1>7 DEF Fired
  <2>2. down[i] = Larger(0, down[i - 1] - z[i] - K)
    BY <1>2 DEF Recurrence
  <2> QED BY <1>1, <1>3, <1>4, <2>1, <2>2 DEF Larger
<1> QED BY <1>6, <1>7

\* The window from the onset on is worth the score at the alarm; a window that
\* starts elsewhere is worth no more than what the score has grown since.
LEMMA EvidentIsMost ==
  ASSUME OnsetInv, pc # "cusum", NEW p \in points, Evident(p)
  PROVE  /\ Excess(p.dir, p.onset, p.alarm) >= H
         /\ \A i \in 1 .. p.alarm :
              /\ Excess(p.dir, i, p.alarm) <= Excess(p.dir, p.onset, p.alarm)
              /\ i > p.onset => Excess(p.dir, i, p.alarm) < Excess(p.dir, p.onset, p.alarm)
<1>1. PICK o, a, dir : o = p.onset /\ a = p.alarm /\ dir = p.dir
  OBVIOUS
<1>2. /\ dir \in {"up", "down"} /\ a \in 1 .. Length - 1 /\ a \in Int /\ o \in Int /\ o \in 1 .. a
  BY <1>1, LengthAssumption DEF OnsetInv, TypeInv, TypeOK, Index, Evident
<1>3. PICK f, g : f = Change(dir) /\ g = Fired(dir)
  OBVIOUS
<1>4. /\ g[o - 1] = 0 /\ g[a] >= H
      /\ \A i \in o .. a : g[i] > 0
  BY <1>1, <1>3 DEF Evident
<1>5. \A i \in 1 .. a : /\ f[i] \in Int /\ g[i] \in Nat /\ g[i - 1] \in Nat
                        /\ g[i] >= g[i - 1] + f[i]
                        /\ g[i] > 0 => g[i] = g[i - 1] + f[i]
  <2> TAKE i \in 1 .. a
  <2>1. i \in 1 .. Length - 1
    BY <1>2, LengthAssumption
  <2> QED BY <1>2, <1>3, <2>1, Terms
<1>6. \A x, y : Excess(dir, x, y) = SumFunctionOnSet(f, x .. y)
  BY <1>3 DEF Excess, Change
<1>7. SumFunctionOnSet(f, o .. a) = g[a]
  <2>1. \A n \in o .. a : f[n] \in Int /\ g[n] = g[n - 1] + f[n]
    BY <1>2, <1>4, <1>5
  <2>2. o <= a
    BY <1>2
  <2> QED BY <1>2, <1>4, <2>1, <2>2, IsSum
<1>8. ASSUME NEW i \in 1 .. a
      PROVE  /\ SumFunctionOnSet(f, i .. a) \in Int
             /\ SumFunctionOnSet(f, i .. a) <= g[a]
             /\ i > o => SumFunctionOnSet(f, i .. a) < g[a]
  <2>1. /\ i \in Int /\ i <= a
        /\ \A n \in i .. a : f[n] \in Int /\ g[n] >= g[n - 1] + f[n]
    BY <1>2, <1>5
  <2>2. \A n \in i - 1 .. a : g[n] \in Int
    <3> TAKE n \in i - 1 .. a
    <3>1. n \in 1 .. a \/ (n = i - 1)
      BY <1>2
    <3> QED BY <1>5, <3>1
  <2>3. SumFunctionOnSet(f, i .. a) \in Int /\ g[a] >= g[i - 1] + SumFunctionOnSet(f, i .. a)
    BY <1>2, <2>1, <2>2, GrowsBySum
  <2>4. g[i - 1] \in Nat /\ g[a] \in Nat
    BY <1>2, <1>5
  <2>5. i > o => g[i - 1] > 0
    BY <1>2, <1>4
  <2> QED BY <2>3, <2>4, <2>5
<1> QED BY <1>1, <1>2, <1>4, <1>6, <1>7, <1>8

\* The walk ends in front of an evident onset.
LEMMA WalkFindsEvident ==
  ASSUME OnsetInv, WalkEnds
  PROVE  Evident([onset |-> j + 1, dir |-> Direction, alarm |-> alarm])
<1> DEFINE fired == Fired(Direction)
<1>1. /\ pc = "walk" /\ (j >= 0 => fired[j] = 0)
  BY DEF WalkEnds
<1>2. /\ TypeOK /\ Scored /\ Crosses(alarm) /\ alarm \in Index /\ j \in -1 .. Length - 1
      /\ j <= alarm - 1
      /\ \A i \in Index : j < i /\ i < alarm => fired[i] > 0
  BY <1>1 DEF OnsetInv, Walked, TypeInv, TypeOK, Placed
<1>3. alarm >= 1 /\ alarm \in Int
  BY <1>2, AlarmIsLater DEF Index
<1>4. fired[alarm] >= H /\ fired[alarm] > 0
  <2>1. up[alarm] \in Nat /\ down[alarm] \in Nat /\ H \in Nat \ {0}
    BY <1>2, ThresholdsAssumption DEF TypeOK
  <2>2. Larger(up[alarm], down[alarm]) >= H
    BY <1>2 DEF Crosses, Combined
  <2>3. fired[alarm] = Larger(up[alarm], down[alarm])
    BY <2>1 DEF Fired, Direction, Larger
  <2>4. fired[alarm] \in Nat
    BY <2>1 DEF Fired
  <2> HIDE DEF fired
  <2>5. fired[alarm] >= H
    BY <2>2, <2>3
  <2> QED BY <2>1, <2>4, <2>5
<1>5. fired[0] = 0
  BY <1>2 DEF Scored, Fired
<1>6. j >= 0
  <2> SUFFICES ASSUME j = -1 PROVE FALSE
    BY <1>2
  <2>1. 0 \in Index /\ j < 0 /\ 0 < alarm
    BY <1>3, LengthAssumption DEF Index
  <2>2. fired[0] > 0
    BY <1>2, <2>1
  <2> QED BY <1>5, <2>2
<1>7. ASSUME NEW i \in j + 1 .. alarm PROVE fired[i] > 0
  <2>1. CASE i = alarm
    BY <1>4, <2>1
  <2>2. CASE i # alarm
    <3>1. i \in Index /\ j < i /\ i < alarm
      <4>1. j \in Int /\ alarm \in 0 .. Length - 1 /\ Length \in Int /\ i \in Int
        BY <1>2, LengthAssumption DEF Index
      <4> QED BY <1>6, <2>2, <4>1 DEF Index
    <3> QED BY <1>2, <3>1
  <2> QED BY <2>1, <2>2
<1>8. j + 1 \in 1 .. alarm /\ (j + 1) - 1 = j
  BY <1>2, <1>3, <1>6
<1> HIDE DEF fired
<1>9. fired[j] = 0
  BY <1>1, <1>6
<1> QED BY <1>4, <1>7, <1>8, <1>9 DEF Evident, fired

LEMMA StepEvidenceInv == EvidenceInv /\ [Next]_vars => EvidenceInv'
<1> SUFFICES ASSUME EvidenceInv, [Next]_vars PROVE EvidenceInv'
  OBVIOUS
<1>1. OnsetInv /\ OnsetInv'
  BY StepOnsetInv DEF EvidenceInv
<1> SUFFICES ASSUME estimator' # "crossing", NEW p \in points' PROVE Evident(p)'
  BY <1>1 DEF EvidenceInv
<1>2. estimator' = estimator
  BY DEF Next, vars, args, Cusum, CusumEnd, Quiet, Alarm, SkipCrossing, EventEnds, WalkBack,
         WalkEnds, ScanEnds, Gate, Filter, Begin, RollBack, RollBackEnds
<1>3. CASE Cusum
  BY <1>1, <1>3 DEF Cusum, OnsetInv, Scored
<1>4. CASE ~Cusum
  <2>1. up' = up /\ down' = down
    BY <1>4 DEF Next, vars, args, CusumEnd, Quiet, Alarm, SkipCrossing, EventEnds, WalkBack,
                WalkEnds, ScanEnds, Gate, Filter, Begin, RollBack, RollBackEnds
  <2>2. \A q : Evident(q)' <=> Evident(q)
    BY <2>1 DEF Evident, Fired
  <2>3. CASE p \in points
    BY <1>2, <2>2, <2>3 DEF EvidenceInv
  <2>4. CASE p \notin points
    <3>1. WalkEnds
      BY <1>2, <1>4, <2>4 DEF Next, vars, args, CusumEnd, Quiet, Alarm, SkipCrossing, EventEnds,
                              WalkBack, ScanEnds, Gate, Filter, Begin, RollBack, RollBackEnds
    <3>2. p = [onset |-> j + 1, dir |-> Direction, alarm |-> alarm]
      BY <2>4, <3>1 DEF WalkEnds, Record
    <3> QED BY <1>1, <2>2, <3>1, <3>2, WalkFindsEvident
  <2> QED BY <2>3, <2>4
<1> QED BY <1>3, <1>4

\* The onset by last reset is the maximum likelihood start of the change: no
\* window that ends at the alarm deviates more than the one from the onset on.
THEOREM OnsetsCarryMostEvidence == Spec => []OnsetsMaximiseEvidence
<1>1. Init => EvidenceInv
  BY InitOnsetInv DEF Init, EvidenceInv
<1>2. EvidenceInv => OnsetsMaximiseEvidence
  <2> SUFFICES ASSUME EvidenceInv, pc = "gate", estimator = "last_reset", NEW p \in points
               PROVE  LET best == Excess(p.dir, p.onset, p.alarm)
                      IN  /\ p.onset \in 1 .. p.alarm
                          /\ best >= H
                          /\ \A i \in 1 .. p.alarm :
                               /\ Excess(p.dir, i, p.alarm) <= best
                               /\ i > p.onset => Excess(p.dir, i, p.alarm) < best
    BY DEF OnsetsMaximiseEvidence
  <2>1. OnsetInv /\ Evident(p)
    BY DEF EvidenceInv
  <2>2. p.onset \in 1 .. p.alarm
    BY <2>1 DEF Evident
  <2> QED BY <2>1, <2>2, EvidentIsMost
<1> QED BY <1>1, <1>2, StepEvidenceInv, PTL DEF Spec
=============================================================================
