------------------------------- MODULE Detection -------------------------------
(***************************************************************************)
(* Layers 1 and 4 for one metric, as _analyze_metric (fault_chain.py) runs *)
(* them: two-sided CUSUM scores, threshold crossings grouped into events   *)
(* and traced back to onsets (change_point.py), the effect size gate, the  *)
(* crossing at which each change point is judged, and the walk back along  *)
(* the slope (tangent_rollback.py).                                        *)
(*                                                                         *)
(* The series is in standard deviations from the mean of the baseline; the *)
(* threshold, a bootstrap estimate, is a constant.  Layers 2 and 3 compare *)
(* a prediction error with a spectral threshold: any set of change points  *)
(* may pass them.                                                          *)
(***************************************************************************)
EXTENDS Integers, FiniteSets, FiniteSetsExt, Functions

CONSTANTS
  Length,      \* samples in the look-back window
  Scores,      \* values of a sample
  K,           \* reference value of the CUSUM
  H,           \* bootstrap_threshold
  Estimators,  \* onset_estimator
  MinEffects,  \* min_effect_size
  SameSlope    \* twice the tangent threshold

ASSUME LengthAssumption == Length \in Nat /\ Length >= 2 /\ Scores \subseteq Int
ASSUME ThresholdsAssumption ==
  /\ K \in Nat /\ H \in Nat \ {0} /\ SameSlope \in Nat
  /\ Estimators \subseteq {"last_reset", "crossing"} /\ MinEffects \subseteq Nat

Index == 0 .. Length - 1

VARIABLES
  z, estimator, minEffect,   \* the arguments
  pc,          \* the loop or call under way
  t,           \* its index
  up, down,    \* g_up, g_down
  alarm,       \* alarm_time of the event being skipped
  j,           \* of _find_onset_via_last_reset
  points,      \* change_points and directions; in the order of their alarms
  crossing,    \* onset_to_crossing
  abnormal,    \* abnormal_cps still to be rolled back
  from,        \* abnormal_cp of the rollback under way
  current,     \* its current_cp
  rounds,      \* its iterations
  refined      \* what the rollbacks returned: change point, onset, direction

vars == <<z, estimator, minEffect, pc, t, up, down, alarm, j, points, crossing,
          abnormal, from, current, rounds, refined>>
args == <<z, estimator, minEffect>>
back == <<abnormal, from, current, rounds, refined>>

Larger(a, b) == IF a >= b THEN a ELSE b

Init ==
  /\ z \in [Index -> Scores]
  /\ estimator \in Estimators /\ minEffect \in MinEffects
  /\ pc = "cusum" /\ t = 1
  /\ up = [i \in Index |-> 0] /\ down = [i \in Index |-> 0]
  /\ alarm = 0 /\ j = 0 /\ points = {}
  /\ crossing = <<>> /\ abnormal = {}
  /\ from = 0 /\ current = 0 /\ rounds = 0 /\ refined = {}
-----------------------------------------------------------------------------
(* Layer 1 *)

\* Mutant: the score is not clamped.
ScoreUnclamped(g, change) == g[t - 1] + change - K

Score(g, change) == Larger(0, g[t - 1] + change - K)

\* run_cusum
Cusum ==
  /\ pc = "cusum" /\ t < Length
  /\ up'   = [up   EXCEPT ![t] = Score(up, z[t])]
  /\ down' = [down EXCEPT ![t] = Score(down, -z[t])]
  /\ t' = t + 1
  /\ UNCHANGED <<args, pc, alarm, j, points, crossing, back>>

CusumEnd ==
  /\ pc = "cusum" /\ t = Length
  /\ pc' = "scan" /\ t' = 0
  /\ UNCHANGED <<args, up, down, alarm, j, points, crossing, back>>

Combined == [i \in Index |-> Larger(up[i], down[i])]
Crosses(i) == Combined[i] >= H

Quiet ==
  /\ pc = "scan" /\ t < Length
  /\ ~Crosses(t)
  /\ t' = t + 1
  /\ UNCHANGED <<args, pc, up, down, alarm, j, points, crossing, back>>

Alarm ==
  /\ pc = "scan" /\ t < Length
  /\ Crosses(t)
  /\ alarm' = t
  /\ pc' = "skip"
  /\ UNCHANGED <<args, t, up, down, j, points, crossing, back>>

SkipCrossing ==
  /\ pc = "skip" /\ t < Length
  /\ Crosses(t)
  /\ t' = t + 1
  /\ UNCHANGED <<args, pc, up, down, alarm, j, points, crossing, back>>

Direction == IF up[alarm] >= down[alarm] THEN "up" ELSE "down"

\* Mutant: the combined score.
FiredCombined(dir) == Combined

\* The detector that fired.
Fired(dir) == IF dir = "up" THEN up ELSE down

\* onsets.append, directions.append
Record(onset) ==
  points' = points \cup {[onset |-> onset, dir |-> Direction, alarm |-> alarm]}

\* Mutant: an event may end while the score is still over the threshold.
EventEndsEarly ==
  /\ pc = "skip" /\ t > alarm
  /\ IF estimator = "crossing"
     THEN Record(alarm) /\ pc' = "scan" /\ UNCHANGED j
     ELSE pc' = "walk" /\ j' = alarm - 1 /\ UNCHANGED points
  /\ UNCHANGED <<args, t, up, down, alarm, crossing, back>>

\* The run of crossings is over: estimate its onset.
EventEnds ==
  /\ pc = "skip"
  /\ t < Length => ~Crosses(t)
  /\ IF estimator = "crossing"
     THEN Record(alarm) /\ pc' = "scan" /\ UNCHANGED j
     ELSE pc' = "walk" /\ j' = alarm - 1 /\ UNCHANGED points
  /\ UNCHANGED <<args, t, up, down, alarm, crossing, back>>

\* _find_onset_via_last_reset, backward to where the detector is zero.
WalkBack ==
  /\ pc = "walk"
  /\ j >= 0 /\ Fired(Direction)[j] # 0
  /\ j' = j - 1
  /\ UNCHANGED <<args, pc, t, up, down, alarm, points, crossing, back>>

\* One step after it, or 0 if it never is.
WalkEnds ==
  /\ pc = "walk"
  /\ j >= 0 => Fired(Direction)[j] = 0
  /\ Record(j + 1)
  /\ pc' = "scan"
  /\ UNCHANGED <<args, t, up, down, alarm, j, crossing, back>>

\* run_layer1 returns.
ScanEnds ==
  /\ pc = "scan" /\ t = Length
  /\ pc' = IF points = {} THEN "done" ELSE "gate"
  /\ UNCHANGED <<args, t, up, down, alarm, j, points, crossing, back>>
-----------------------------------------------------------------------------
(* _analyze_metric between the layers *)

ChangePoints == {p.onset : p \in points}

Magnitude(x) == IF x < 0 THEN -x ELSE x

\* effect_size(cp) >= min_effect_size: the mean from the change point on.
Matters(cp) ==
  Magnitude(SumFunctionOnSet(z, cp .. Length - 1)) >= minEffect * (Length - cp)

\* The first crossing at or after the onset.
CrossingOf(cp) ==
  LET after == {i \in cp .. Length - 1 : Crosses(i)}
  IN  IF after = {} THEN cp ELSE Min(after)

\* The effect size gate, and onset_to_crossing for what it kept.
Gate ==
  /\ pc = "gate"
  /\ points' = {p \in points : minEffect > 0 => Matters(p.onset)}
  /\ crossing' = [cp \in {p.onset : p \in points'} |-> CrossingOf(cp)]
  /\ pc' = IF points' = {} THEN "done" ELSE "filter"
  /\ UNCHANGED <<args, t, up, down, alarm, j, back>>

\* What Layers 2 and 3 let pass.
Filter(passed) ==
  /\ pc = "filter"
  /\ abnormal' = passed
  /\ pc' = IF passed = {} THEN "done" ELSE "rollback"
  /\ UNCHANGED <<args, t, up, down, alarm, j, points, crossing,
                 from, current, rounds, refined>>

\* cp_to_direction: of change points at the same index the last.
DirectionOf(cp) ==
  LET at == {p \in points : p.onset = cp}
  IN  (CHOOSE p \in at : \A q \in at : q.alarm <= p.alarm).dir
-----------------------------------------------------------------------------
(* Layer 4 *)

\* Twice compute_tangent.
Tangent(i) ==
  CASE i = 0          -> 2 * (z[1] - z[0])
    [] i = Length - 1 -> 2 * (z[i] - z[i - 1])
    [] OTHER          -> z[i + 1] - z[i - 1]

Similar(a, b) == Magnitude(Tangent(a) - Tangent(b)) < SameSlope

\* rollback_onset is called for the next abnormal change point.
Begin(cp) ==
  /\ pc = "rollback"
  /\ cp \in abnormal
  /\ from' = cp /\ current' = cp /\ rounds' = 0
  /\ pc' = "slope"
  /\ UNCHANGED <<args, t, up, down, alarm, j, points, crossing, abnormal, refined>>

Earlier == {cp \in ChangePoints : cp < current}

\* Mutant: the first change point of all.
IsPrecedingFirst(cp) == cp \in Earlier /\ \A c \in Earlier : cp <= c

\* preceding_cp
IsPreceding(cp) == cp \in Earlier /\ \A c \in Earlier : c <= cp

\* One more iteration of the loop, and the slope goes on to the preceding
\* change point.
Continues(cp) ==
  /\ rounds < Cardinality(ChangePoints)
  /\ IsPreceding(cp) /\ Similar(current, cp)

RollBack(cp) ==
  /\ pc = "slope" /\ Continues(cp)
  /\ current' = cp
  /\ rounds' = rounds + 1
  /\ UNCHANGED <<args, pc, t, up, down, alarm, j, points, crossing, abnormal, from, refined>>

RollBackEnds ==
  /\ pc = "slope" /\ ~\E cp \in ChangePoints : Continues(cp)
  /\ refined' = refined \cup {[cp |-> from, onset |-> current, dir |-> DirectionOf(from)]}
  /\ abnormal' = abnormal \ {from}
  /\ pc' = IF abnormal' = {} THEN "done" ELSE "rollback"
  /\ UNCHANGED <<args, t, up, down, alarm, j, points, crossing, from, current, rounds>>

Next ==
  \/ Cusum \/ CusumEnd
  \/ Quiet \/ Alarm \/ SkipCrossing \/ EventEnds \/ WalkBack \/ WalkEnds \/ ScanEnds
  \/ Gate \/ \E passed \in SUBSET DOMAIN crossing : Filter(passed)
  \/ \E cp \in abnormal : Begin(cp)
  \/ \E cp \in ChangePoints : RollBack(cp)
  \/ RollBackEnds

Spec == Init /\ [][Next]_vars
-----------------------------------------------------------------------------
(* Properties *)

TypeOK ==
  /\ z \in [Index -> Scores]
  /\ estimator \in Estimators /\ minEffect \in MinEffects
  /\ pc \in {"cusum", "scan", "skip", "walk", "gate", "filter", "rollback", "slope", "done"}
  /\ t \in 0 .. Length
  /\ up \in [Index -> Nat] /\ down \in [Index -> Nat]
  /\ alarm \in Index /\ j \in -1 .. Length - 1
  /\ points \subseteq [onset : Index, dir : {"up", "down"}, alarm : Index]
  /\ DOMAIN crossing \subseteq Index
  /\ abnormal \subseteq DOMAIN crossing
  /\ from \in Index /\ current \in Index /\ rounds \in Nat
  /\ \A r \in refined : r.cp \in Index /\ r.onset \in Index

\* Every maximal run of crossings is one event and nothing else is: none is
\* split, none merged, and the one that reaches the last sample is not lost.
EventsAreRuns ==
  pc = "gate" =>
    LET starts == {i \in Index : Crosses(i) /\ (i > 0 => ~Crosses(i - 1))}
    IN  /\ {p.alarm : p \in points} = starts
        /\ Cardinality(points) = Cardinality(starts)

\* What a window of the series accumulates beyond the reference value.
Excess(dir, a, b) ==
  SumFunctionOnSet([n \in Index |-> (IF dir = "up" THEN z[n] ELSE -z[n]) - K], a .. b)

\* The onset is the change point estimate CUSUM stands for: of all windows that
\* end at the alarm, the one from the onset on deviates most in the direction of
\* the event, and any shorter one less.  The threshold is met by that window.
OnsetsMaximiseEvidence ==
  pc = "gate" /\ estimator = "last_reset" =>
    \A p \in points :
      LET best == Excess(p.dir, p.onset, p.alarm)
      IN  /\ p.onset \in 1 .. p.alarm
          /\ best >= H
          /\ \A i \in 1 .. p.alarm :
               /\ Excess(p.dir, i, p.alarm) <= best
               /\ i > p.onset => Excess(p.dir, i, p.alarm) < best

\* Two events may share an onset, and everything after Layer 1 is keyed by it;
\* they are then of the same direction, so that nothing is mistaken.
SameOnsetSameDirection ==
  \A p, q \in points : p.onset = q.onset => p.dir = q.dir

Slope(cp, c) == \* all change points from c to cp are on one slope
  LET chain == {x \in ChangePoints : c <= x /\ x <= cp}
  IN  \A x \in chain, y \in chain :
        x < y /\ ~(\E w \in chain : x < w /\ w < y) => Similar(x, y)

\* Each rollback ends at the first change point of the slope its start is on,
\* and two change points never swap: the later one is not traced further back.
RollbackExact ==
  /\ \A r \in refined :
       r.onset = Min({c \in ChangePoints : c <= r.cp /\ Slope(r.cp, c)})
  /\ \A r, q \in refined : r.cp < q.cp => r.onset <= q.onset
=============================================================================
