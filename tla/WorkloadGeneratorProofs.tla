------------------------ MODULE WorkloadGeneratorProofs ------------------------
(***************************************************************************)
(* Proofs about the pacing thread, for every set of phases, every rate and *)
(* every cap, resync limit, duration and timeout.                          *)
(***************************************************************************)
EXTENDS WorkloadGenerator, FiniteSetTheorems, WellFoundedInduction, TLAPS

\* The schedule: next_req is never before the periods of all requests so far
\* have passed, and a request is under way only once next_req is reached.
OnSchedule ==
  /\ owed + last <= nextReq
  /\ owed <= now
  /\ seen <= now
  /\ loop = "dispatch" => nextReq <= now

\* The phase: a request under way with another phase is the first since the
\* switch, for the thread reads the phase again before the next one.
OnPhase ==
  /\ stale <= 1
  /\ loop = "dispatch" /\ using # phase => stale = 0

\* The stop event: a request under way once it is set is the last, for the
\* thread looks at the event before the next one; and an ended thread stays so.
OnStop ==
  /\ late <= 1
  /\ ~stop => late = 0
  /\ loop = "dispatch" => late = 0
  /\ caller = "joined" => loop \in {"over", "died"}

IInv == TypeOK /\ OnSchedule /\ OnPhase /\ OnStop

\* run() starts on schedule.
LEMMA InitIInv == Init => IInv
<1> SUFFICES ASSUME Init PROVE IInv
  OBVIOUS
<1>1. stop \in BOOLEAN
  BY Zenon DEF Init
<1>2. /\ now = 0 /\ loop = "top" /\ seen = 0 /\ wake = 0 /\ nextReq = 0
      /\ using = First /\ phase = First /\ caller = "running" /\ deadline = 0
      /\ owed = 0 /\ last = 0 /\ burst = 0 /\ stale = 0 /\ late = 0
  BY DEF Init
<1> QED
  BY <1>1, <1>2, PhasesAssumption DEF IInv, TypeOK, OnSchedule, OnPhase, OnStop

\* A request, the step that changes the schedule and the counts.
LEMMA DispatchStep == ASSUME IInv, Dispatch PROVE IInv'
<1> USE DEF IInv, Dispatch, Count
<1>1. Period[using] \in Nat \ {0}
  BY PhasesAssumption DEF TypeOK
<1>2. /\ nextReq' \in Nat
      /\ nextReq + Period[using] <= nextReq'
  BY <1>1, TimesAssumption DEF TypeOK, Schedule
<1>3. TypeOK'
  BY <1>1, <1>2 DEF TypeOK
<1>4. OnSchedule'
  BY <1>1, <1>2 DEF OnSchedule, TypeOK
<1>5. OnPhase'
  BY DEF OnPhase, TypeOK
<1>6. OnStop'
  BY DEF OnStop, TypeOK
<1> QED BY <1>3, <1>4, <1>5, <1>6

\* Every other step of the pacing thread.
LEMMA PacingStep ==
  ASSUME IInv, LoopEnds \/ LoopSleeps \/ Wake \/ ReadPhase \/ SpawnFails
  PROVE  IInv'
<1> USE TimesAssumption DEF IInv, TypeOK, OnSchedule, OnPhase, OnStop, counts
<1>1. CASE LoopEnds   BY <1>1 DEF LoopEnds
<1>2. CASE LoopSleeps BY <1>2 DEF LoopSleeps, Goes, Min2
<1>3. CASE Wake       BY <1>3 DEF Wake
<1>4. CASE ReadPhase  BY <1>4 DEF ReadPhase, Goes
<1>5. CASE SpawnFails BY <1>5 DEF SpawnFails
<1> QED BY <1>1, <1>2, <1>3, <1>4, <1>5

\* The experiment and the clock.
LEMMA CallerStep ==
  ASSUME IInv,
         (\E p \in Phases : SetPhase(p)) \/ Stop \/ Joined \/ JoinExpires \/ Tick
  PROVE  IInv'
<1> USE TimesAssumption DEF IInv, TypeOK, OnSchedule, OnPhase, OnStop, counts, thread
<1>1. CASE \E p \in Phases : SetPhase(p)
  <2>1. PICK p \in Phases : SetPhase(p)
    BY <1>1
  <2>2. /\ phase' \in Phases /\ stale' = 0
        /\ UNCHANGED <<now, thread, stop, caller, deadline, owed, last, burst, late>>
    BY <2>1 DEF SetPhase
  <2> QED BY <2>2
<1>2. CASE Stop        BY <1>2 DEF Stop
<1>3. CASE Joined      BY <1>3 DEF Joined
<1>4. CASE JoinExpires BY <1>4 DEF JoinExpires
<1>5. CASE Tick        BY <1>5 DEF Tick
<1> QED BY <1>1, <1>2, <1>3, <1>4, <1>5

\* The invariant is inductive.
LEMMA StepIInv == IInv /\ [Next]_vars => IInv'
<1> SUFFICES ASSUME IInv, [Next]_vars PROVE IInv'
  OBVIOUS
<1>1. CASE Dispatch
  BY <1>1, DispatchStep
<1>2. CASE LoopEnds \/ LoopSleeps \/ Wake \/ ReadPhase \/ SpawnFails
  BY <1>2, PacingStep
<1>3. CASE (\E p \in Phases : SetPhase(p)) \/ Stop \/ Joined \/ JoinExpires \/ Tick
  BY <1>3, CallerStep
<1>4. CASE UNCHANGED vars
  BY <1>4 DEF vars, IInv, TypeOK, OnSchedule, OnPhase, OnStop
<1> QED BY <1>1, <1>2, <1>3, <1>4 DEF Next, Pacing

\* IInv holds of every behaviour of the generator.
THEOREM Inductive == Spec => []IInv
  BY InitIInv, StepIInv, PTL DEF Spec

\* Every variable keeps its type.
THEOREM TypeCorrect == Spec => []TypeOK
<1>1. IInv => TypeOK
  BY DEF IInv
<1> QED BY <1>1, Inductive, PTL

\* The offered load is never above what the phases allow, over any number of
\* phase switches, early wake-ups and catch-ups (_run_loop).
THEOREM LoadNeverAhead == Spec => []NeverAhead
<1>1. IInv => NeverAhead
  BY DEF IInv, OnSchedule, NeverAhead
<1> QED BY <1>1, Inductive, PTL

\* After set_phase returned, one request at most carries another phase.
THEOREM PhaseSwitchIsClean == Spec => []CleanStep
<1>1. IInv => CleanStep
  BY DEF IInv, OnPhase, CleanStep
<1> QED BY <1>1, Inductive, PTL

\* After the stop event one request at most goes out, and none once stop() has
\* joined the pacing thread.
THEOREM StoppingIsClean == Spec => []StopClean
<1>1. IInv => StopClean
  BY DEF IInv, OnStop, StopClean
<1> QED BY <1>1, Inductive, PTL
-----------------------------------------------------------------------------
(* Bursts *)

\* A nonempty finite set of naturals has a least element: a largest set of those
\* without one would have a smaller one of the kind.
LEMMA FiniteHasLeast ==
  ASSUME NEW S \in SUBSET Nat, IsFiniteSet(S), S # {}
  PROVE  \E x \in S : \A y \in S : x <= y
<1> DEFINE NoMin == {T \in SUBSET S : T # {} /\ ~ \E x \in T : \A y \in T : x <= y}
<1>1. ASSUME NoMin # {} PROVE FALSE
  <2>1. IsWellFoundedOn(StrictSubsetOrdering(S), SUBSET S)
    BY FS_StrictSubsetOrderingWellFounded, FS_FiniteSubsetsOfFinite
  <2>2. PICK T \in NoMin : \A U \in NoMin : <<U, T>> \notin StrictSubsetOrdering(S)
    <3> HIDE DEF NoMin
    <3>1. NoMin \subseteq SUBSET S
      BY DEF NoMin
    <3> QED BY <1>1, <2>1, <3>1, WFMin
  <2>3. PICK m \in T : TRUE
    OBVIOUS
  <2>4. T \ {m} # {}
    BY <2>2, <2>3
  <2>5. ASSUME NEW x \in T \ {m}, \A y \in T \ {m} : x <= y PROVE FALSE
    BY <2>2, <2>3, <2>5
  <2>6. T \ {m} \in NoMin
    BY <2>4, <2>5
  <2>7. <<T \ {m}, T>> \in StrictSubsetOrdering(S)
    BY <2>3 DEF StrictSubsetOrdering
  <2> QED BY <2>2, <2>6, <2>7
<1> QED BY <1>1

\* There is a fastest phase, although there may be infinitely many.
LEMMA FastestIs ==
  /\ Period[Fastest] \in Nat \ {0}
  /\ \A q \in Phases : Period[Fastest] <= Period[q]
<1> DEFINE S == {n \in 1 .. Period[First] : \E p \in Phases : Period[p] = n}
<1>1. Period[First] \in Nat \ {0} /\ \A q \in Phases : Period[q] \in Nat \ {0}
  BY PhasesAssumption
<1>2. IsFiniteSet(S)
  <2>1. IsFiniteSet(1 .. Period[First])
    BY <1>1, FS_Interval
  <2>2. S \subseteq 1 .. Period[First]
    OBVIOUS
  <2> HIDE DEF S
  <2> QED BY <2>1, <2>2, FS_Subset
<1>3. Period[First] \in S
  BY <1>1, PhasesAssumption
<1>4. PICK n \in S : \A m \in S : n <= m
  <2>1. S \in SUBSET Nat /\ S # {}
    BY <1>1, <1>3
  <2> HIDE DEF S
  <2> QED BY <1>2, <2>1, FiniteHasLeast
<1>5. PICK p \in Phases : Period[p] = n
  BY <1>4
<1>6. \A q \in Phases : Period[p] <= Period[q]
  <2> TAKE q \in Phases
  <2>1. CASE Period[q] <= Period[First]
    <3>1. Period[q] \in S
      BY <1>1, <2>1
    <3> QED BY <1>4, <1>5, <3>1
  <2>2. CASE Period[q] > Period[First]
    <3>1. n <= Period[First]
      BY <1>3, <1>4
    <3> QED BY <1>1, <1>4, <1>5, <2>2, <3>1
  <2> QED BY <1>1, <2>1, <2>2
<1>7. Fastest \in Phases /\ \A q \in Phases : Period[Fastest] <= Period[q]
  BY <1>6 DEF Fastest
<1> QED BY <1>1, <1>7

\* So many periods that fit into a span are at most the whole ones in it.
LEMMA WholePeriods ==
  ASSUME NEW n \in Nat, NEW p \in Nat \ {0}, NEW span \in Nat, n * p <= span
  PROVE  n <= span \div p
<1> DEFINE d == span \div p
<1>1. d \in Nat /\ span < (d + 1) * p
  OBVIOUS
<1> HIDE DEF d
<1>2. ASSUME d + 1 <= n PROVE FALSE
  <2>1. (d + 1) * p <= n * p
    BY <1>1, <1>2
  <2>2. (d + 1) * p \in Nat /\ n * p \in Nat
    BY <1>1
  <2> QED BY <1>1, <2>1, <2>2
<1> QED BY <1>1, <1>2 DEF d

\* The second request of a burst leaves next_req no more than Resync behind, and
\* every one after it brings it a period closer to now.  The first may be one the
\* thread held before the clock advanced, and says nothing.
BurstInv ==
  /\ burst >= 1 /\ loop = "dispatch" => seen = now
  /\ burst >= 2 => now - Resync + (burst - 2) * Period[Fastest] <= nextReq
  /\ BurstBounded

\* A request: the third and later ones need next_req to have been reached.
LEMMA DispatchBurst == ASSUME IInv, BurstInv, Dispatch PROVE BurstInv'
<1> DEFINE p == Period[Fastest]
           b == burst
<1>1. p \in Nat \ {0} /\ Period[using] \in Nat \ {0} /\ p <= Period[using]
  BY FastestIs, PhasesAssumption DEF IInv, TypeOK
<1>2. /\ b \in Nat /\ now \in Nat /\ nextReq \in Nat /\ seen \in Nat /\ Resync \in Nat
      /\ nextReq <= now
  BY TimesAssumption DEF IInv, TypeOK, OnSchedule, Dispatch
<1>3. burst' = b + 1 /\ UNCHANGED <<now, seen>> /\ loop' = "top"
  BY DEF Dispatch, Count
<1>4. nextReq' = IF nextReq + Period[using] < seen - Resync THEN seen
                 ELSE nextReq + Period[using]
  BY DEF Dispatch, Schedule
<1>5. b >= 1 => seen = now
  BY DEF BurstInv, Dispatch
<1>6. b >= 2 => now - Resync + (b - 2) * p <= nextReq
  BY DEF BurstInv
<1> HIDE DEF p, b
<1>7. b >= 2 => (b - 2) * p \in Nat /\ (b - 1) * p = (b - 2) * p + p
  BY <1>1, <1>2
<1>8. b + 1 >= 2 => now - Resync + (b - 1) * p <= nextReq'
  <2>1. CASE b = 1
    <3>1. (b - 1) * p = 0
      BY <1>1, <2>1
    <3> QED BY <1>1, <1>2, <1>4, <1>5, <2>1, <3>1
  <2>2. CASE b >= 2
    BY <1>1, <1>2, <1>4, <1>5, <1>6, <1>7, <2>2
  <2> QED BY <1>2, <2>1, <2>2
<1>9. b + 1 <= Resync \div p + 3
  <2>1. Resync \div p \in Nat
    BY <1>1, <1>2
  <2>2. CASE b >= 2
    <3>1. (b - 2) * p <= Resync
      BY <1>2, <1>6, <1>7, <2>2
    <3>2. b - 2 \in Nat
      BY <1>2, <2>2
    <3>3. b - 2 <= Resync \div p
      BY <1>1, <1>2, <3>1, <3>2, WholePeriods
    <3> QED BY <1>2, <2>1, <3>3
  <2> QED BY <1>2, <2>1, <2>2
<1>10. Period' = Period /\ Fastest' = Fastest
  BY DEF Fastest
<1>11. (burst - 1) * Period[Fastest] = (b - 1) * p
  BY DEF b, p
<1>12. burst' >= 2 => now' - Resync + (burst' - 2) * Period[Fastest] <= nextReq'
  <2>1. burst' - 2 = b - 1
    BY <1>2, <1>3
  <2> QED BY <1>3, <1>8, <2>1 DEF p
<1>13. BurstBounded'
  BY <1>3, <1>9 DEF BurstBounded, p
<1> QED BY <1>3, <1>12, <1>13 DEF BurstInv

\* A tick ends a burst; the other steps leave its schedule as it is.
LEMMA OtherBurst ==
  ASSUME IInv, BurstInv, [Next]_vars, ~Dispatch PROVE BurstInv'
<1>1. Period[Fastest] \in Nat \ {0} /\ Resync \in Nat
  BY FastestIs, TimesAssumption
<1>2. CASE Tick
  <2>1. burst' = 0
    BY <1>2 DEF Tick
  <2>2. Resync \div Period[Fastest] \in Nat
    BY <1>1
  <2>3. BurstBounded'
    BY <2>1, <2>2 DEF BurstBounded
  <2> QED BY <2>1, <2>3 DEF BurstInv
<1>3. CASE ~Tick
  <2>1. UNCHANGED <<now, nextReq, burst>>
    BY <1>3 DEF Next, Pacing, LoopEnds, LoopSleeps, Wake, ReadPhase, SpawnFails, SetPhase, Stop,
                Joined, JoinExpires, vars, thread, counts
  <2>2. loop' = "dispatch" => seen' = now \/ UNCHANGED <<loop, seen>>
    BY <1>3 DEF Next, Pacing, LoopEnds, LoopSleeps, Wake, ReadPhase, SpawnFails, SetPhase, Stop,
                Joined, JoinExpires, vars, thread, counts
  <2>3. BurstBounded'
    BY <2>1 DEF BurstInv, BurstBounded
  <2> QED BY <2>1, <2>2, <2>3 DEF BurstInv
<1> QED BY <1>2, <1>3

\* However late the thread was, what it catches up with at once is bounded by the
\* resync limit: a stalled client never looks like a burst of load
\* (generator.py:353-356).
THEOREM BurstsAreBounded == Spec => []BurstBounded
<1>1. Init => BurstInv
  <2>1. Resync \div Period[Fastest] \in Nat
    BY FastestIs, TimesAssumption
  <2> QED BY <2>1 DEF Init, BurstInv, BurstBounded
<1>2. IInv /\ BurstInv /\ [Next]_vars => BurstInv'
  BY DispatchBurst, OtherBurst
<1>3. BurstInv => BurstBounded
  BY DEF BurstInv
<1> QED BY <1>1, <1>2, <1>3, Inductive, PTL DEF Spec
=============================================================================
