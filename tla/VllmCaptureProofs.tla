-------------------------- MODULE VllmCaptureProofs --------------------------
(***************************************************************************)
(* The capture batch, for every matrix, all repeats, any number of         *)
(* sessions and any failures: the types; the accounts, NeverRedone and     *)
(* TallyHonest; and what becomes of the faults, ServerRestored, LabelsTrue *)
(* and CountedCanBeScored.                                                 *)
(*                                                                         *)
(* A run becomes usable at one step (Collect) and is charged at another    *)
(* (Score, RunFails).  In between the disk is one ahead of the batch's     *)
(* variables; Charge is that one, and with it both accounts are inductive. *)
(*                                                                         *)
(* Serving says where a degraded server can be, and that the backend which *)
(* undoes it is the one that made it (DegradedInv), that nothing nominal   *)
(* can answer in its place (FaultInv), who holds the port (PortInv) and    *)
(* when there is a CPU fault (HogInv).                                     *)
(***************************************************************************)
EXTENDS VllmCapture, FiniteSetTheorems, TLAPS

-----------------------------------------------------------------------------
(* The types *)

\* A run has its directory from Preflight until it is scored or has failed.
InRun == {"baseline", "relaunch", "poll", "health", "fault", "collect", "timeline",
          "cleanup", "score"}

TypeInv == TypeOK /\ (pc \in InRun => dirs # <<>>)

LEMMA HereType ==
  ASSUME TypeInv, pc \in InRun
  PROVE  Here \in DOMAIN dirs /\ dirs[Here] \in Directory
<1>1. dirs \in Seq(Directory) /\ dirs # <<>>
  BY DEF TypeInv, TypeOK
<1> QED BY <1>1 DEF Here

LEMMA HereNat == TypeInv => Here \in Nat
BY DEF TypeInv, TypeOK, Here

LEMMA PlanType ==
  ASSUME TypeInv
  PROVE  Plan \in [Scenarios -> Nat] /\ \A s \in Scenarios : Existing(s) \in Nat
<1>1. IsFiniteSet(DOMAIN dirs)
  <2>1. dirs \in Seq(Directory)
    BY DEF TypeInv, TypeOK
  <2>2. DOMAIN dirs = 1 .. Len(dirs) /\ Len(dirs) \in Nat
    BY <2>1
  <2> QED BY <2>2, FS_Interval
<1>2. ASSUME NEW s \in Scenarios PROVE Existing(s) \in Nat
  <2> DEFINE U == {i \in DOMAIN dirs : dirs[i].scenario = s /\ Counted(dirs[i])}
  <2>1. IsFiniteSet(U)
    BY <1>1, FS_Subset
  <2> QED BY <2>1, FS_CardinalityType DEF Existing
<1>3. ASSUME NEW s \in Scenarios
      PROVE  (IF Existing(s) > Repeats[s] THEN 0 ELSE Repeats[s] - Existing(s)) \in Nat
  <2>1. Existing(s) \in Nat /\ Repeats[s] \in Nat
    BY <1>2, MatrixAssumption
  <2> QED BY <2>1
<1> QED BY <1>2, <1>3 DEF Plan

LEMMA UsableType ==
  ASSUME TypeInv
  PROVE  /\ IsFiniteSet(Usable) /\ Cardinality(Usable) \in Nat
         /\ DOMAIN dirs = 1 .. Len(dirs) /\ Len(dirs) \in Nat
<1>1. dirs \in Seq(Directory)
  BY DEF TypeInv, TypeOK
<1>2. DOMAIN dirs = 1 .. Len(dirs) /\ Len(dirs) \in Nat
  BY <1>1
<1>3. IsFiniteSet(DOMAIN dirs)
  BY <1>2, FS_Interval
<1>4. IsFiniteSet(Usable)
  BY <1>3, FS_Subset DEF Usable
<1> QED BY <1>2, <1>4, FS_CardinalityType

LEMMA AttemptedType ==
  ASSUME TypeInv, Attempted
  PROVE  left' \in [Scenarios -> Nat]
<1>1. PICK s \in Scenarios : Turn(s) /\ left' = [left EXCEPT ![s] = @ - 1]
  BY DEF Attempted
<1>2. left \in [Scenarios -> Nat] /\ left[s] > 0
  BY <1>1 DEF Turn, TypeInv, TypeOK
<1>3. left[s] - 1 \in Nat
  BY <1>2
<1> QED BY <1>1, <1>2, <1>3

LEMMA InitTypeInv == Init => TypeInv
<1> SUFFICES ASSUME Init PROVE TypeInv
  OBVIOUS
<1>1. PICK stack \in Stacks :
        /\ nativeState = (stack = "native")
        /\ inside = (stack = "compose")
        /\ container = IF stack = "compose" THEN "nominal" ELSE "none"
  BY DEF Init
<1>2. nativeState \in BOOLEAN /\ inside \in BOOLEAN
  BY <1>1
<1>3. container \in Configs \cup {"none"}
  BY <1>1 DEF Configs
<1>4. inside => server = container /\ container # "none"
  BY <1>1 DEF Init
<1>5. dirs \in Seq(Directory) /\ cut \subseteq Nat /\ left \in [Scenarios -> Nat]
  BY DEF Init
<1>6. {stop, failing, nativeState, inside} \subseteq BOOLEAN
  BY <1>2 DEF Init
<1>7. /\ server \in Configs \cup {"down"} /\ starting \subseteq Configs /\ hog \subseteq Hogs
      /\ control \in {"none", "native", "compose"} /\ pc \in Phases /\ pc \notin InRun
      /\ {done, failed, consecutive, existing, sessions} \subseteq Nat
      /\ goal \in Configs /\ mishaps \subseteq {"kill", "control", "beside"}
  BY DEF Init, InRun, Phases, Configs
<1> QED BY <1>3, <1>4, <1>5, <1>6, <1>7 DEF TypeInv, TypeOK

\* A step that leaves every directory's scenario, and whether it counts, as it was,
\* and removes no file.
SameRecords ==
  /\ dirs' \in Seq(Directory)
  /\ Len(dirs') = Len(dirs)
  /\ \A i \in DOMAIN dirs :
       /\ dirs'[i].scenario = dirs[i].scenario
       /\ dirs[i].files \subseteq dirs'[i].files
       /\ Counted(dirs'[i]) <=> Counted(dirs[i])

LEMMA UnchangedKeeps ==
  ASSUME TypeInv, dirs' = dirs
  PROVE  SameRecords
BY DEF TypeInv, TypeOK, SameRecords

\* The directory of the run in progress may be replaced.
LEMMA ReplaceHere ==
  ASSUME TypeInv, pc \in InRun, NEW d \in Directory, dirs' = [dirs EXCEPT ![Here] = d]
  PROVE  /\ dirs' \in Seq(Directory) /\ Len(dirs') = Len(dirs)
         /\ dirs'[Here] = d
         /\ \A i \in DOMAIN dirs : i # Here => dirs'[i] = dirs[i]
<1>1. dirs \in Seq(Directory) /\ Here \in DOMAIN dirs
  BY HereType DEF TypeInv, TypeOK
<1> QED BY <1>1

LEMMA NoteKeeps ==
  ASSUME TypeInv, pc \in InRun, NEW w \in {"baseline", "fault"}, NEW wrong, Note(w, wrong)
  PROVE  SameRecords
<1> DEFINE m == IF wrong THEN dirs[Here].mislabelled \cup {w} ELSE dirs[Here].mislabelled
           d == [dirs[Here] EXCEPT !.mislabelled = m]
<1>1. Here \in DOMAIN dirs /\ dirs[Here] \in Directory
  BY HereType
<1>2. m \in SUBSET {"baseline", "fault"}
  BY <1>1 DEF Directory
<1>3. d \in Directory /\ d.scenario = dirs[Here].scenario /\ d.files = dirs[Here].files
  BY <1>1, <1>2 DEF Directory
<1>4. dirs' = [dirs EXCEPT ![Here] = d]
  BY <1>1 DEF Note
<1>5. Counted(d) <=> Counted(dirs[Here])
  BY <1>3 DEF Counted
<1> HIDE DEF d, m
<1>6. /\ dirs' \in Seq(Directory) /\ Len(dirs') = Len(dirs)
      /\ dirs'[Here] = d
      /\ \A i \in DOMAIN dirs : i # Here => dirs'[i] = dirs[i]
  BY <1>3, <1>4, ReplaceHere
<1> QED BY <1>3, <1>5, <1>6 DEF SameRecords

\* Collect and Timeline add one file.
LEMMA AddFile ==
  ASSUME TypeInv, pc \in InRun, NEW f \in Files,
         dirs' = [dirs EXCEPT ![Here].files = @ \cup {f}]
  PROVE  /\ dirs' \in Seq(Directory) /\ Len(dirs') = Len(dirs)
         /\ dirs'[Here].scenario = dirs[Here].scenario
         /\ dirs'[Here].files = dirs[Here].files \cup {f}
         /\ dirs'[Here].mislabelled = dirs[Here].mislabelled
         /\ \A i \in DOMAIN dirs : i # Here => dirs'[i] = dirs[i]
<1> DEFINE d == [dirs[Here] EXCEPT !.files = @ \cup {f}]
<1>1. Here \in DOMAIN dirs /\ dirs[Here] \in Directory
  BY HereType
<1>2. /\ d \in Directory /\ d.scenario = dirs[Here].scenario
      /\ d.files = dirs[Here].files \cup {f}
      /\ d.mislabelled = dirs[Here].mislabelled
  BY <1>1 DEF Directory
<1>3. dirs' = [dirs EXCEPT ![Here] = d]
  BY <1>1
<1> HIDE DEF d
<1> QED BY <1>2, <1>3, ReplaceHere

LEMMA TimelineKeeps == TypeInv /\ Timeline => SameRecords
<1> SUFFICES ASSUME TypeInv, Timeline PROVE SameRecords
  OBVIOUS
<1>1. pc \in InRun /\ dirs' = [dirs EXCEPT ![Here].files = @ \cup {"timeline"}]
  BY DEF Timeline, InRun
<1>2. /\ dirs' \in Seq(Directory) /\ Len(dirs') = Len(dirs)
      /\ dirs'[Here].scenario = dirs[Here].scenario
      /\ dirs'[Here].files = dirs[Here].files \cup {"timeline"}
      /\ \A i \in DOMAIN dirs : i # Here => dirs'[i] = dirs[i]
  BY <1>1, AddFile DEF Files
<1>3. Counted(dirs'[Here]) <=> Counted(dirs[Here])
  BY <1>2 DEF Counted
<1> QED BY <1>2, <1>3 DEF SameRecords

LEMMA InjectKeeps ==
  ASSUME TypeInv, NEW k, Inject(k)
  PROVE  SameRecords
BY NoteKeeps DEF Inject, InRun

LEMMA FaultWindowKeeps == TypeInv /\ FaultWindow => SameRecords
BY NoteKeeps DEF FaultWindow, InRun

\* What every step may do to dirs, whatever it does beside.
LEMMA DirsStep ==
  ASSUME TypeInv, [Next]_vars
  PROVE  /\ dirs' \in Seq(Directory)
         /\ dirs # <<>> => dirs' # <<>>
<1>1. CASE SameRecords
  BY <1>1 DEF SameRecords, TypeInv, TypeOK
<1>2. CASE \E s \in Scenarios : Preflight(s)
  <2>1. PICK s \in Scenarios :
          dirs' = Append(dirs, [scenario |-> s, files |-> {"ground_truth"}, mislabelled |-> {}])
    BY <1>2 DEF Preflight
  <2>2. [scenario |-> s, files |-> {"ground_truth"}, mislabelled |-> {}] \in Directory
    BY DEF Directory, Files
  <2> QED BY <2>1, <2>2 DEF TypeInv, TypeOK
<1>3. CASE Collect
  <2>1. pc \in InRun /\ dirs' = [dirs EXCEPT ![Here].files = @ \cup {"metrics"}]
    BY <1>3 DEF Collect, InRun
  <2>2. dirs' \in Seq(Directory) /\ Len(dirs') = Len(dirs)
    BY <2>1, AddFile DEF Files
  <2> QED BY <2>2 DEF TypeInv, TypeOK
<1>4. dirs' = dirs \/ Timeline \/ FaultWindow \/ (\E k : Inject(k))
        \/ Collect \/ (\E s \in Scenarios : Preflight(s))
  BY DEF Next, BatchStep, ServerStep, vars, disk, procs, tally, run,
         Start, Interrupt, Finish, Check, Revive, Revived, ReviveGivesUp,
         PreflightFails, GeneratorFails, InjectConfig, InjectWorkload, InjectInfra,
         InjectInfraFails, CollectFails, TimelineFails, Cleanup, CleanupUnlifted, Score, RunFails,
         RelaunchRaises, Recreate, RecreateFails, Recreates, Pkill, PollGone,
         PollOutlived, Launch, Healthy, HealthTimeout, ServerExits, ServerUp,
         StartFails, ContainerUp, ContainerFails, Kill
<1> QED BY <1>1, <1>2, <1>3, <1>4, UnchangedKeeps, TimelineKeeps, FaultWindowKeeps,
           InjectKeeps

LEMMA StepTypeInv == TypeInv /\ [Next]_vars => TypeInv'
<1> SUFFICES ASSUME TypeInv, [Next]_vars PROVE TypeInv'
  OBVIOUS
<1>0. dirs' \in Seq(Directory) /\ (dirs # <<>> => dirs' # <<>>)
  BY DirsStep
<1> USE <1>0 DEF TypeInv, TypeOK, InRun, Phases, disk, procs, tally, run
<1>1. CASE Start
  <2>1. left' \in [Scenarios -> Nat] /\ existing' \in Nat
    BY <1>1, PlanType, UsableType DEF Start
  <2>2. {done', failed', consecutive', sessions'} \subseteq Nat
    BY <1>1 DEF Start
  <2>3. {stop', failing', nativeState', inside'} \subseteq BOOLEAN
    BY <1>1 DEF Start
  <2> QED BY <1>1, <2>1, <2>2, <2>3 DEF Start
<1>2. CASE Interrupt
  BY <1>2 DEF Interrupt
<1>3. CASE Finish
  BY <1>3 DEF Finish
<1>4. CASE Check
  BY <1>4 DEF Check
<1>5. CASE Revive
  BY <1>5 DEF Revive, Configs
<1>6. CASE Revived
  BY <1>6 DEF Revived
<1>7. CASE ReviveGivesUp
  BY <1>7 DEF ReviveGivesUp
<1>8. CASE PreflightFails
  BY <1>8, AttemptedType DEF PreflightFails, Failed
<1>9. CASE \E s \in Scenarios : Preflight(s)
  <2>1. dirs' # <<>>
    <3>1. PICK d \in Directory : dirs' = Append(dirs, d)
      BY <1>9 DEF Preflight, Directory, Files
    <3> QED BY <3>1
  <2>2. /\ failing' = FALSE /\ pc' = "baseline"
        /\ UNCHANGED <<nativeState, cut, procs, tally, goal, control, mishaps>>
    BY <1>9 DEF Preflight
  <2> QED BY <2>1, <2>2
<1>10. CASE GeneratorFails
  BY <1>10 DEF GeneratorFails
<1>11. CASE InjectConfig
  BY <1>11 DEF InjectConfig, Inject, Detected, Configs
<1>12. CASE InjectWorkload
  BY <1>12 DEF InjectWorkload, Inject
<1>13. CASE InjectInfra
  BY <1>13 DEF InjectInfra, Inject, Detected, Hogs
<1>14. CASE InjectInfraFails
  <2>1. hog' \subseteq Hogs /\ mishaps' \subseteq {"kill", "control", "beside"}
    <3>1. <<"loops", "stray">> \in Hogs
      BY DEF Hogs
    <3>2. \/ hog' = hog \cup {<<"loops", "stray">>} /\ mishaps' = mishaps \cup {"control"}
          \/ hog' = hog /\ mishaps' = mishaps
      BY <1>14 DEF InjectInfraFails
    <3> QED BY <3>1, <3>2
  <2>2. control' \in {"none", "native", "compose"} /\ failing' = TRUE /\ pc' = "cleanup"
    BY <1>14 DEF InjectInfraFails, Detected
  <2>3. dirs # <<>>
    BY <1>14 DEF InjectInfraFails, Inject
  <2>4. UNCHANGED <<nativeState, cut, server, starting, container, inside, tally, goal>>
    BY <1>14 DEF InjectInfraFails
  <2> QED BY <2>1, <2>2, <2>3, <2>4
<1>15. CASE FaultWindow
  BY <1>15 DEF FaultWindow
<1>16. CASE CollectFails
  BY <1>16 DEF CollectFails
<1>17. CASE Collect
  BY <1>17 DEF Collect
<1>18. CASE Timeline
  BY <1>18 DEF Timeline
<1>19. CASE Cleanup
  BY <1>19 DEF Cleanup, Undo, Detected, Configs
<1>20. CASE CleanupUnlifted
  BY <1>20 DEF CleanupUnlifted, Undo, Detected, Configs, Hogs
<1>21. CASE Score
  BY <1>21, AttemptedType DEF Score
<1>22. CASE RunFails
  BY <1>22, AttemptedType DEF RunFails, Failed
<1>23. CASE RelaunchRaises
  BY <1>23 DEF RelaunchRaises, Raised
<1>24. CASE Recreate
  BY <1>24 DEF Recreate, Recreates
<1>25. CASE RecreateFails
  BY <1>25 DEF RecreateFails, Recreates, Raised
<1>26. CASE Pkill
  BY <1>26 DEF Pkill
<1>27. CASE PollGone
  BY <1>27 DEF PollGone, Launch
<1>28. CASE PollOutlived
  BY <1>28 DEF PollOutlived, Launch
<1>29. CASE Healthy
  BY <1>29 DEF Healthy
<1>30. CASE HealthTimeout
  BY <1>30 DEF HealthTimeout, Raised
<1>31. CASE ServerExits
  BY <1>31 DEF ServerExits
<1>32. CASE \E c \in Configs : ServerUp(c)
  BY <1>32 DEF ServerUp
<1>33. CASE \E c \in Configs : StartFails(c)
  BY <1>33 DEF StartFails
<1>34. CASE ContainerUp
  BY <1>34 DEF ContainerUp
<1>35. CASE ContainerFails
  BY <1>35 DEF ContainerFails
<1>36. CASE Kill
  <2>1. cut' \subseteq Nat
    BY <1>36, HereNat DEF Kill
  <2>2. hog' \subseteq Hogs
    BY <1>36 DEF Kill, Hogs
  <2>3. /\ pc' = "off" /\ mishaps' = mishaps \cup {"kill"}
        /\ UNCHANGED <<dirs, nativeState, server, starting, container, inside, tally, run>>
    BY <1>36 DEF Kill
  <2> QED BY <2>1, <2>2, <2>3
<1>37. CASE TimelineFails
  BY <1>37, HereNat DEF TimelineFails
<1>38. CASE UNCHANGED vars
  BY <1>38 DEF vars
<1> QED BY <1>1, <1>2, <1>3, <1>4, <1>5, <1>6, <1>7, <1>8, <1>9, <1>10, <1>11, <1>12, <1>13, <1>14, <1>15, <1>16, <1>17, <1>18, <1>19, <1>20, <1>21, <1>22, <1>23, <1>24, <1>25, <1>26, <1>27, <1>28, <1>29, <1>30, <1>31, <1>32, <1>33, <1>34, <1>35, <1>36, <1>37, <1>38
       DEF Next, BatchStep, ServerStep

\* Whatever fails and dies, in whatever order, the state keeps its types, and the
\* container answers only while it is there.
THEOREM TypeCorrect == Spec => []TypeOK
<1>1. TypeInv => TypeOK
  BY DEF TypeInv
<1> QED BY <1>1, InitTypeInv, StepTypeInv, PTL DEF Spec

-----------------------------------------------------------------------------
(* The accounts *)

\* One while the disk has a usable run that is not charged yet.
Charge == IF pc \in InRun /\ Counted(dirs[Here]) THEN 1 ELSE 0

UsableOf(s) == {i \in DOMAIN dirs : dirs[i].scenario = s /\ Counted(dirs[i])}

\* No scenario has more than it wants, what is to come included; the run in
\* progress is of the scenario whose turn it is.
PlanInv ==
  /\ pc \in InRun => Turn(dirs[Here].scenario)
  /\ pc = "off" => \A s \in Scenarios : Existing(s) <= Repeats[s]
  /\ pc # "off" => \A s \in Scenarios :
       Existing(s) + left[s] <=
         Repeats[s] + (IF pc \in InRun /\ dirs[Here].scenario = s THEN Charge ELSE 0)

\* What the batch has tallied since it planned is on disk, but for the charge.
TallyInv ==
  pc # "off" =>
    /\ done + existing + Charge <= Cardinality(Usable)
    /\ Cardinality(Usable) <= done + failed + existing + Charge

\* Past Collect, if no exception is in flight.
Collected ==
  \/ pc = "timeline"
  \/ ~failing /\ pc \in {"cleanup", "score"}
  \/ ~failing /\ goal = "nominal" /\ pc \in {"relaunch", "poll", "health"}

\* A run is labelled, and one that gets to its end without an exception is usable.
CollectedInv ==
  /\ pc \in InRun => "ground_truth" \in dirs[Here].files
  /\ Collected => Counted(dirs[Here])

Accounts == PlanInv /\ TallyInv /\ CollectedInv

LEMMA ExistingIs == \A s : Existing(s) = Cardinality(UsableOf(s))
  BY DEF Existing, UsableOf

LEMMA UsableOfType ==
  ASSUME TypeInv, NEW s
  PROVE  IsFiniteSet(UsableOf(s)) /\ Existing(s) \in Nat
<1>1. IsFiniteSet(DOMAIN dirs)
  BY UsableType, FS_Interval
<1>2. IsFiniteSet(UsableOf(s))
  BY <1>1, FS_Subset DEF UsableOf
<1> QED BY <1>2, FS_CardinalityType, ExistingIs

\* Two scenarios cannot both be at their turn.
LEMMA OneTurn ==
  ASSUME TypeInv, NEW s \in Scenarios, NEW t \in Scenarios, Turn(s), Turn(t)
  PROVE  s = t
<1>1. PICK i \in DOMAIN Matrix :
        Matrix[i] = s /\ \A j \in 1 .. i - 1 : left[Matrix[j]] = 0
  BY DEF Turn
<1>2. PICK k \in DOMAIN Matrix :
        Matrix[k] = t /\ \A j \in 1 .. k - 1 : left[Matrix[j]] = 0
  BY DEF Turn
<1>3. left[s] > 0 /\ left[t] > 0
  BY DEF Turn
<1>4. DOMAIN Matrix = 1 .. Len(Matrix) /\ Len(Matrix) \in Nat
  BY MatrixAssumption
<1>5. ~(i < k) /\ ~(k < i)
  BY <1>1, <1>2, <1>3, <1>4
<1> QED BY <1>1, <1>2, <1>4, <1>5

\* The same records, the same accounts of the disk.
LEMMA SameUsable ==
  ASSUME TypeInv, SameRecords
  PROVE  /\ Usable' = Usable
         /\ \A s : Existing(s)' = Existing(s)
         /\ Here' = Here
         /\ pc \in InRun => /\ dirs'[Here'].scenario = dirs[Here].scenario
                            /\ Counted(dirs'[Here']) <=> Counted(dirs[Here])
<1>1. DOMAIN dirs' = DOMAIN dirs /\ Here' = Here
  BY DEF SameRecords, TypeInv, TypeOK, Here
<1>2. Usable' = Usable
  BY <1>1 DEF Usable, SameRecords, Counted
<1>3. ASSUME NEW s PROVE UsableOf(s)' = UsableOf(s)
  BY <1>1 DEF UsableOf, SameRecords, Counted
<1>4. ASSUME NEW s PROVE Existing(s)' = Existing(s)
  BY <1>3 DEF Existing, UsableOf
<1> QED BY <1>1, <1>2, <1>4, HereType DEF SameRecords

\* The batch moves on within a run, or outside of one, or ends.
LEMMA MovesOn ==
  ASSUME TypeInv, Accounts, SameRecords, CollectedInv',
         UNCHANGED <<left, done, failed, existing>>,
         pc' # pc => pc # "off" /\ (pc' = "off" \/ (pc \in InRun <=> pc' \in InRun))
  PROVE  Accounts'
<1>1. /\ Usable' = Usable
      /\ \A s : Existing(s)' = Existing(s) /\ Existing(s) \in Nat
      /\ pc \in InRun => /\ dirs'[Here'].scenario = dirs[Here].scenario
                         /\ Counted(dirs'[Here']) <=> Counted(dirs[Here])
  BY SameUsable, UsableOfType
<1>2. "off" \notin InRun
  BY DEF InRun
<1>3. \A s \in Scenarios : left[s] \in Nat /\ Repeats[s] \in Nat
  BY MatrixAssumption DEF TypeInv, TypeOK
<1>4. ASSUME pc' \in InRun PROVE Turn(dirs[Here].scenario)'
  <2>1. pc \in InRun
    BY <1>2, <1>4
  <2> QED BY <2>1, <1>1 DEF Accounts, PlanInv, Turn
<1>5. ASSUME pc' # "off" PROVE pc # "off" /\ Charge' = Charge /\ (pc' \in InRun <=> pc \in InRun)
  BY <1>1, <1>5 DEF Charge
<1>6. ASSUME pc' = "off", NEW s \in Scenarios PROVE Existing(s)' <= Repeats[s]
  <2>1. CASE pc = "off"
    BY <2>1, <1>1 DEF Accounts, PlanInv
  <2>2. CASE pc # "off"
    <3>1. Existing(s) + left[s] <=
            Repeats[s] + (IF pc \in InRun /\ dirs[Here].scenario = s THEN Charge ELSE 0)
      BY <2>2 DEF Accounts, PlanInv
    <3>2. CASE pc \in InRun /\ dirs[Here].scenario = s
      <4>1. left[s] > 0
        BY <3>2 DEF Accounts, PlanInv, Turn
      <4> QED BY <3>1, <4>1, <1>1, <1>3 DEF Charge
    <3>3. CASE ~(pc \in InRun /\ dirs[Here].scenario = s)
      BY <3>1, <3>3, <1>1, <1>3
    <3> QED BY <3>2, <3>3
  <2> QED BY <2>1, <2>2
<1>7. PlanInv'
  <2>1. ASSUME pc' # "off", NEW s \in Scenarios
        PROVE  Existing(s)' + left'[s] <=
                 Repeats[s] + (IF pc' \in InRun /\ dirs'[Here'].scenario = s THEN Charge' ELSE 0)
    BY <2>1, <1>1, <1>5 DEF Accounts, PlanInv
  <2> QED BY <2>1, <1>4, <1>6 DEF PlanInv
<1>8. TallyInv'
  BY <1>1, <1>5 DEF Accounts, TallyInv
<1> QED BY <1>7, <1>8 DEF Accounts

LEMMA CollectedStep ==
  ASSUME TypeInv, CollectedInv, SameRecords, [Next]_vars, ~Collect,
         \A s \in Scenarios : ~Preflight(s)
  PROVE  CollectedInv'
<1>1. /\ Here' = Here
      /\ pc \in InRun => /\ Counted(dirs'[Here']) <=> Counted(dirs[Here])
                         /\ dirs[Here].files \subseteq dirs'[Here'].files
  BY SameUsable, HereType DEF SameRecords
<1>2. (pc' \in InRun => pc \in InRun) /\ (Collected' => pc \in InRun /\ Collected)
  <2> USE DEF Collected, InRun, tally, run
  <2>0. goal \in {"nominal", "degraded"}
    BY DEF TypeInv, TypeOK, Configs
  <2>1. CASE Start
    BY <2>0, <2>1 DEF Start
  <2>2. CASE Interrupt
    BY <2>0, <2>2 DEF Interrupt
  <2>3. CASE Finish
    BY <2>0, <2>3 DEF Finish
  <2>4. CASE Check
    BY <2>0, <2>4 DEF Check
  <2>5. CASE Revive
    BY <2>0, <2>5 DEF Revive
  <2>6. CASE Revived
    BY <2>0, <2>6 DEF Revived
  <2>7. CASE ReviveGivesUp
    BY <2>0, <2>7 DEF ReviveGivesUp
  <2>8. CASE PreflightFails
    BY <2>0, <2>8 DEF PreflightFails, Failed
  <2>9. CASE GeneratorFails
    BY <2>0, <2>9 DEF GeneratorFails
  <2>10. CASE InjectConfig
    BY <2>0, <2>10 DEF InjectConfig, Inject
  <2>11. CASE InjectWorkload
    BY <2>0, <2>11 DEF InjectWorkload, Inject
  <2>12. CASE InjectInfra
    BY <2>0, <2>12 DEF InjectInfra, Inject
  <2>13. CASE InjectInfraFails
    BY <2>0, <2>13 DEF InjectInfraFails, Inject
  <2>14. CASE FaultWindow
    BY <2>0, <2>14 DEF FaultWindow
  <2>15. CASE CollectFails
    BY <2>0, <2>15 DEF CollectFails
  <2>16. CASE Timeline
    BY <2>0, <2>16 DEF Timeline
  <2>17. CASE Cleanup
    BY <2>0, <2>17 DEF Cleanup, Undo
  <2>18. CASE CleanupUnlifted
    BY <2>0, <2>18 DEF CleanupUnlifted, Undo
  <2>19. CASE Score
    BY <2>0, <2>19 DEF Score
  <2>20. CASE RunFails
    BY <2>0, <2>20 DEF RunFails, Failed
  <2>21. CASE RelaunchRaises
    BY <2>0, <2>21 DEF RelaunchRaises, Raised
  <2>22. CASE Recreate
    BY <2>0, <2>22 DEF Recreate, Recreates
  <2>23. CASE RecreateFails
    BY <2>0, <2>23 DEF RecreateFails, Recreates, Raised
  <2>24. CASE Pkill
    BY <2>0, <2>24 DEF Pkill
  <2>25. CASE PollGone
    BY <2>0, <2>25 DEF PollGone, Launch
  <2>26. CASE PollOutlived
    BY <2>0, <2>26 DEF PollOutlived, Launch
  <2>27. CASE Healthy
    BY <2>0, <2>27 DEF Healthy
  <2>28. CASE HealthTimeout
    BY <2>0, <2>28 DEF HealthTimeout, Raised
  <2>29. CASE ServerExits
    BY <2>0, <2>29 DEF ServerExits
  <2>30. CASE \E c \in Configs : ServerUp(c) \/ StartFails(c)
    BY <2>0, <2>30 DEF ServerUp, StartFails
  <2>31. CASE ContainerUp
    BY <2>0, <2>31 DEF ContainerUp
  <2>32. CASE ContainerFails
    BY <2>0, <2>32 DEF ContainerFails
  <2>33. CASE Kill
    BY <2>0, <2>33 DEF Kill
  <2>34. CASE UNCHANGED vars
    BY <2>0, <2>34 DEF vars
  <2>35. CASE TimelineFails
    BY <2>0, <2>35 DEF TimelineFails
  <2> QED BY <2>1, <2>2, <2>3, <2>4, <2>5, <2>6, <2>7, <2>8, <2>9, <2>10, <2>11, <2>12, <2>13, <2>14, <2>15, <2>16, <2>17, <2>18, <2>19, <2>20, <2>21, <2>22, <2>23, <2>24, <2>25, <2>26, <2>27, <2>28, <2>29, <2>30, <2>31, <2>32, <2>33, <2>34, <2>35
         DEF Next, BatchStep, ServerStep
<1> QED BY <1>1, <1>2 DEF CollectedInv

\* A run is charged, and its repeat is over.
LEMMA Charges ==
  ASSUME TypeInv, Accounts, Attempted, dirs' = dirs, existing' = existing,
         pc \in InRun \/ pc = "preflight",
         pc' \in {"check", "off"},
         \/ failed' = failed + 1 /\ done' = done
         \/ done' = done + 1 /\ failed' = failed /\ Charge = 1
  PROVE  Accounts'
<1>1. PICK t \in Scenarios : Turn(t) /\ left' = [left EXCEPT ![t] = @ - 1]
  BY DEF Attempted
<1>2. /\ Usable' = Usable
      /\ \A s : Existing(s)' = Existing(s) /\ Existing(s) \in Nat
  BY UnchangedKeeps, SameUsable, UsableOfType
<1>3. left[t] > 0 /\ \A s \in Scenarios : left[s] \in Nat /\ Repeats[s] \in Nat
  BY <1>1, MatrixAssumption DEF TypeInv, TypeOK, Turn
<1>4. left'[t] = left[t] - 1 /\ \A s \in Scenarios \ {t} : left'[s] = left[s]
  BY <1>1 DEF TypeInv, TypeOK
<1>5. pc \in InRun => dirs[Here].scenario = t
  <2>1. ASSUME pc \in InRun PROVE dirs[Here].scenario \in Scenarios
    BY <2>1, HereType DEF Directory
  <2> QED BY <1>1, <2>1, OneTurn DEF Accounts, PlanInv
<1>6. /\ Charge \in {0, 1} /\ Charge' = 0
      /\ pc # "off" /\ pc' \notin InRun
      /\ pc \notin InRun => Charge = 0
  BY DEF Charge, InRun
<1>7. ASSUME NEW s \in Scenarios PROVE Existing(s) + left'[s] <= Repeats[s] /\ left'[s] \in Nat
  <2>1. Existing(s) + left[s] <=
          Repeats[s] + (IF pc \in InRun /\ dirs[Here].scenario = s THEN Charge ELSE 0)
    BY <1>6 DEF Accounts, PlanInv
  <2>2. CASE s = t
    BY <2>1, <2>2, <1>2, <1>3, <1>4, <1>6
  <2>3. CASE s # t
    BY <2>1, <2>3, <1>2, <1>3, <1>4, <1>5
  <2> QED BY <2>2, <2>3
<1>8. PlanInv'
  <2>1. ASSUME NEW s \in Scenarios PROVE Existing(s)' <= Repeats[s]
    BY <1>2, <1>3, <1>7
  <2>2. ASSUME NEW s \in Scenarios PROVE Existing(s)' + left'[s] <= Repeats[s]
    BY <1>2, <1>7
  <2> QED BY <2>1, <2>2, <1>6, <1>3 DEF PlanInv
<1>9. TallyInv'
  <2>1. /\ done + existing + Charge <= Cardinality(Usable)
        /\ Cardinality(Usable) <= done + failed + existing + Charge
    BY <1>6 DEF Accounts, TallyInv
  <2>2. done \in Nat /\ failed \in Nat /\ existing \in Nat /\ Cardinality(Usable) \in Nat
    BY UsableType DEF TypeInv, TypeOK
  <2> QED BY <2>1, <2>2, <1>2, <1>6 DEF TallyInv
<1>10. CollectedInv'
  BY DEF CollectedInv, Collected, InRun
<1> QED BY <1>8, <1>9, <1>10 DEF Accounts

\* A session plans what is missing.
LEMMA StartAccounts == TypeInv /\ Accounts /\ Start => Accounts'
<1> SUFFICES ASSUME TypeInv, Accounts, Start PROVE Accounts'
  OBVIOUS
<1>1. /\ pc = "off" /\ pc' = "check" /\ dirs' = dirs /\ left' = Plan
      /\ done' = 0 /\ failed' = 0 /\ existing' = Cardinality(Usable)
  BY DEF Start, disk
<1>2. /\ Usable' = Usable
      /\ \A s : Existing(s)' = Existing(s) /\ Existing(s) \in Nat
  BY <1>1, UnchangedKeeps, SameUsable, UsableOfType
<1>3. ASSUME NEW s \in Scenarios PROVE Existing(s)' + left'[s] <= Repeats[s]
  <2>1. Existing(s) <= Repeats[s] /\ Repeats[s] \in Nat
    BY <1>1, MatrixAssumption DEF Accounts, PlanInv
  <2>2. left'[s] = Repeats[s] - Existing(s)
    BY <2>1, <1>1, <1>2 DEF Plan
  <2> QED BY <2>1, <2>2, <1>2
<1>4. pc' \notin InRun /\ Charge' = 0
  BY <1>1 DEF InRun, Charge
<1>5. PlanInv'
  <2>1. ASSUME NEW s \in Scenarios PROVE Repeats[s] \in Nat
    BY MatrixAssumption
  <2> QED BY <2>1, <1>1, <1>3, <1>4 DEF PlanInv
<1>6. TallyInv'
  BY <1>1, <1>2, <1>4, UsableType DEF TallyInv
<1>7. CollectedInv'
  BY <1>1 DEF CollectedInv, Collected, InRun
<1> QED BY <1>5, <1>6, <1>7 DEF Accounts

\* A new directory is labelled and does not count yet.
LEMMA PreflightAccounts ==
  ASSUME TypeInv, Accounts, NEW s \in Scenarios, Preflight(s)
  PROVE  Accounts'
<1> DEFINE d == [scenario |-> s, files |-> {"ground_truth"}, mislabelled |-> {}]
<1>1. /\ pc = "preflight" /\ pc' = "baseline" /\ Turn(s) /\ dirs' = Append(dirs, d)
      /\ UNCHANGED <<left, done, failed, existing>>
  BY DEF Preflight, tally
<1>2. dirs \in Seq(Directory) /\ d \in Directory
  BY DEF TypeInv, TypeOK, Directory, Files
<1>3. /\ DOMAIN dirs' = DOMAIN dirs \cup {Here'} /\ Here' \notin DOMAIN dirs
      /\ dirs'[Here'] = d
      /\ \A i \in DOMAIN dirs : dirs'[i] = dirs[i]
  <2> HIDE DEF d
  <2> QED BY <1>1, <1>2 DEF Here
<1>4. ~Counted(d) /\ d.scenario = s /\ d.files = {"ground_truth"}
  BY DEF Counted
<1> HIDE DEF d
<1>5. Usable' = Usable
  BY <1>3, <1>4 DEF Usable, Counted
<1>6. ASSUME NEW t PROVE Existing(t)' = Existing(t)
  <2>1. UsableOf(t)' = UsableOf(t)
    BY <1>3, <1>4 DEF UsableOf, Counted
  <2> QED BY <2>1 DEF Existing, UsableOf
<1>7. Charge = 0 /\ Charge' = 0 /\ pc \notin InRun
  BY <1>1, <1>3, <1>4 DEF Charge, InRun, Counted
<1>8. PlanInv'
  <2>1. Turn(dirs[Here].scenario)'
    BY <1>1, <1>3, <1>4 DEF Turn
  <2>2. ASSUME NEW t \in Scenarios PROVE Existing(t)' + left'[t] <= Repeats[t] /\ Repeats[t] \in Nat
    BY <1>1, <1>6, <1>7, MatrixAssumption DEF Accounts, PlanInv
  <2> QED BY <2>1, <2>2, <1>1, <1>7 DEF PlanInv
<1>9. TallyInv'
  BY <1>1, <1>5, <1>7 DEF Accounts, TallyInv
<1>10. CollectedInv'
  BY <1>1, <1>3, <1>4 DEF CollectedInv, Collected
<1> QED BY <1>8, <1>9, <1>10 DEF Accounts

\* The run becomes usable: the disk is one ahead.
LEMMA CollectAccounts == TypeInv /\ Accounts /\ Collect => Accounts'
<1> SUFFICES ASSUME TypeInv, Accounts, Collect PROVE Accounts'
  OBVIOUS
<1>1. /\ pc = "collect" /\ pc' = "timeline"
      /\ dirs' = [dirs EXCEPT ![Here].files = @ \cup {"metrics"}]
      /\ UNCHANGED <<left, done, failed, existing>>
  BY DEF Collect, tally
<1>2. pc \in InRun /\ pc' \in InRun
  BY <1>1 DEF InRun
<1>. PICK t \in Scenarios : dirs[Here].scenario = t
  <2>1. dirs[Here] \in Directory
    BY <1>2, HereType
  <2> QED BY <2>1 DEF Directory
<1>3. /\ dirs' \in Seq(Directory) /\ Len(dirs') = Len(dirs)
      /\ dirs'[Here].scenario = t
      /\ dirs'[Here].files = dirs[Here].files \cup {"metrics"}
      /\ \A i \in DOMAIN dirs : i # Here => dirs'[i] = dirs[i]
  BY <1>1, <1>2, AddFile DEF Files
<1>4. Here \in DOMAIN dirs /\ Here' = Here /\ DOMAIN dirs' = DOMAIN dirs
  BY <1>2, <1>3, HereType DEF Here, TypeInv, TypeOK
<1>5. Counted(dirs'[Here]) /\ "ground_truth" \in dirs'[Here].files
  BY <1>2, <1>3 DEF Counted, Accounts, CollectedInv
<1>6. Charge' = 1 /\ Charge \in {0, 1} /\ (Charge = 1 <=> Counted(dirs[Here]))
  BY <1>2, <1>4, <1>5 DEF Charge
<1>7. Cardinality(Usable') = Cardinality(Usable) + (1 - Charge)
  <2>1. Usable' = Usable \cup {Here}
    BY <1>3, <1>4, <1>5 DEF Usable, Counted
  <2>2. Here \in Usable <=> Charge = 1
    BY <1>4, <1>6 DEF Usable
  <2>3. IsFiniteSet(Usable) /\ Cardinality(Usable) \in Nat
    BY UsableType
  <2>4. Cardinality(Usable \cup {Here}) =
          IF Here \in Usable THEN Cardinality(Usable) ELSE Cardinality(Usable) + 1
    BY <2>3, FS_AddElement
  <2> QED BY <2>1, <2>2, <2>3, <2>4, <1>6
<1>8. Existing(t)' = Existing(t) + (1 - Charge)
  <2>1. UsableOf(t)' = UsableOf(t) \cup {Here}
    BY <1>3, <1>4, <1>5 DEF UsableOf, Counted
  <2>2. Here \in UsableOf(t) <=> Charge = 1
    BY <1>4, <1>6 DEF UsableOf
  <2>3. Cardinality(UsableOf(t)') = Cardinality(UsableOf(t)) + (1 - Charge)
    <3>1. IsFiniteSet(UsableOf(t)) /\ Cardinality(UsableOf(t)) \in Nat
      BY UsableOfType, ExistingIs
    <3>2. Cardinality(UsableOf(t) \cup {Here}) =
            IF Here \in UsableOf(t) THEN Cardinality(UsableOf(t))
            ELSE Cardinality(UsableOf(t)) + 1
      BY <3>1, FS_AddElement
    <3> QED BY <2>1, <2>2, <3>1, <3>2, <1>6
  <2>4. Existing(t)' = Cardinality(UsableOf(t)')
    BY <1>3, <1>4 DEF Existing, UsableOf
  <2> QED BY <2>3, <2>4, ExistingIs
<1>9. ASSUME NEW s \in Scenarios, s # t PROVE Existing(s)' = Existing(s)
  <2>1. UsableOf(s)' = UsableOf(s)
    BY <1>3, <1>4, <1>9 DEF UsableOf, Counted
  <2> QED BY <2>1 DEF Existing, UsableOf
<1>10. PlanInv'
  <2>1. Turn(dirs[Here].scenario)'
    BY <1>1, <1>2, <1>3, <1>4 DEF Turn, Accounts, PlanInv
  <2>2. ASSUME NEW s \in Scenarios
        PROVE  Existing(s)' + left'[s] <= Repeats[s] + (IF s = t THEN 1 ELSE 0)
    <3>1. Existing(s) + left[s] <= Repeats[s] + (IF s = t THEN Charge ELSE 0)
      BY <1>1, <1>2 DEF Accounts, PlanInv
    <3>2. Existing(s) \in Nat /\ left[s] \in Nat /\ Repeats[s] \in Nat
      BY UsableOfType, MatrixAssumption DEF TypeInv, TypeOK
    <3>3. CASE s = t
      BY <3>1, <3>2, <3>3, <1>1, <1>6, <1>8
    <3>4. CASE s # t
      BY <3>1, <3>2, <3>4, <1>1, <1>9
    <3> QED BY <3>3, <3>4
  <2>3. ASSUME NEW s \in Scenarios
        PROVE  Existing(s)' + left'[s] <=
                 Repeats[s] + (IF pc' \in InRun /\ dirs'[Here'].scenario = s THEN Charge' ELSE 0)
    BY <2>2, <1>2, <1>3, <1>4, <1>6
  <2> QED BY <2>1, <2>3, <1>1 DEF PlanInv
<1>11. TallyInv'
  <2>1. /\ done + existing + Charge <= Cardinality(Usable)
        /\ Cardinality(Usable) <= done + failed + existing + Charge
    BY <1>1 DEF Accounts, TallyInv
  <2>2. done \in Nat /\ failed \in Nat /\ existing \in Nat /\ Cardinality(Usable) \in Nat
    BY UsableType DEF TypeInv, TypeOK
  <2>3. Cardinality(Usable)' = Cardinality(Usable) + (1 - Charge)
    BY <1>7
  <2> QED BY <2>1, <2>2, <2>3, <1>1, <1>6 DEF TallyInv
<1>12. CollectedInv'
  BY <1>4, <1>5 DEF CollectedInv
<1> QED BY <1>10, <1>11, <1>12 DEF Accounts

LEMMA InitAccounts == Init => Accounts
<1> SUFFICES ASSUME Init PROVE Accounts
  OBVIOUS
<1>1. dirs = <<>> /\ pc = "off"
  BY DEF Init
<1>2. pc \notin InRun /\ ~Collected
  BY <1>1 DEF InRun, Collected
<1>3. ASSUME NEW s \in Scenarios PROVE Existing(s) <= Repeats[s]
  <2>1. UsableOf(s) = {}
    BY <1>1 DEF UsableOf
  <2>2. Existing(s) = 0
    BY <2>1, ExistingIs, FS_EmptySet
  <2> QED BY <2>2, MatrixAssumption
<1> QED BY <1>1, <1>2, <1>3 DEF Accounts, PlanInv, TallyInv, CollectedInv

LEMMA StepAccounts == TypeInv /\ Accounts /\ [Next]_vars => Accounts'
<1> SUFFICES ASSUME TypeInv, Accounts, [Next]_vars PROVE Accounts'
  OBVIOUS
<1>1. CASE Start
  BY <1>1, StartAccounts
<1>2. CASE \E s \in Scenarios : Preflight(s)
  BY <1>2, PreflightAccounts
<1>3. CASE Collect
  BY <1>3, CollectAccounts
<1>4. CASE PreflightFails
  BY <1>4, Charges DEF PreflightFails, Failed, disk
<1>5. CASE RunFails
  BY <1>5, Charges DEF RunFails, Failed, disk, InRun
<1>6. CASE Score
  <2>1. Charge = 1
    BY <1>6 DEF Score, Accounts, CollectedInv, Collected, Charge, InRun
  <2> QED BY <1>6, <2>1, Charges DEF Score, disk, InRun
<1>7. CASE ~Start /\ (\A s \in Scenarios : ~Preflight(s)) /\ ~Collect
             /\ ~PreflightFails /\ ~RunFails /\ ~Score
  <2>1. /\ SameRecords
        /\ UNCHANGED <<left, done, failed, existing>>
        /\ pc' # pc => pc # "off" /\ (pc' = "off" \/ (pc \in InRun <=> pc' \in InRun))
    <3> USE UnchangedKeeps DEF InRun, disk, tally
    <3>1. CASE Interrupt \/ Finish \/ Check \/ Revive \/ Revived \/ ReviveGivesUp
      BY <3>1 DEF Interrupt, Finish, Check, Revive, Revived, ReviveGivesUp
    <3>2. CASE InjectConfig \/ InjectWorkload \/ InjectInfra \/ InjectInfraFails
      BY <3>2, InjectKeeps DEF InjectConfig, InjectWorkload, InjectInfra, InjectInfraFails, Inject
    <3>3. CASE GeneratorFails \/ FaultWindow \/ CollectFails \/ Timeline \/ TimelineFails
      BY <3>3, FaultWindowKeeps, TimelineKeeps
         DEF GeneratorFails, FaultWindow, CollectFails, Timeline, TimelineFails
    <3>4. CASE Cleanup \/ CleanupUnlifted
      BY <3>4 DEF Cleanup, CleanupUnlifted, Undo
    <3>5. CASE RelaunchRaises \/ Recreate \/ RecreateFails \/ HealthTimeout
      BY <3>5 DEF RelaunchRaises, Recreate, RecreateFails, Recreates, HealthTimeout, Raised
    <3>6. CASE Pkill \/ PollGone \/ PollOutlived \/ Healthy
      BY <3>6 DEF Pkill, PollGone, PollOutlived, Launch, Healthy
    <3>7. CASE ServerStep
      BY <3>7 DEF ServerStep, ServerExits, ServerUp, StartFails, ContainerUp, ContainerFails
    <3>8. CASE Kill
      BY <3>8 DEF Kill
    <3>9. CASE UNCHANGED vars
      BY <3>9 DEF vars
    <3> QED BY <1>7, <3>1, <3>2, <3>3, <3>4, <3>5, <3>6, <3>7, <3>8, <3>9
            DEF Next, BatchStep
  <2>2. CollectedInv'
    BY <1>7, <2>1, CollectedStep DEF Accounts
  <2> QED BY <2>1, <2>2, MovesOn
<1> QED BY <1>1, <1>2, <1>3, <1>4, <1>5, <1>6, <1>7

LEMMA AccountsInductive == Spec => [](TypeInv /\ Accounts)
<1>1. Init => TypeInv /\ Accounts
  BY InitTypeInv, InitAccounts
<1>2. TypeInv /\ Accounts /\ [Next]_vars => (TypeInv /\ Accounts)'
  BY StepTypeInv, StepAccounts
<1> QED BY <1>1, <1>2, PTL DEF Spec

\* Kill the batch at any point and run it again, as often as you like: for every
\* matrix no scenario gets more usable directories than it has repeats.
THEOREM NothingRedone == Spec => []NeverRedone
<1>1. TypeInv /\ Accounts => NeverRedone
  <2> SUFFICES ASSUME TypeInv, Accounts, NEW s \in Scenarios PROVE Existing(s) <= Repeats[s]
    BY DEF NeverRedone
  <2>1. Existing(s) \in Nat /\ left[s] \in Nat /\ Repeats[s] \in Nat
    BY UsableOfType, MatrixAssumption DEF TypeInv, TypeOK
  <2>2. CASE pc = "off"
    BY <2>2 DEF Accounts, PlanInv
  <2>3. CASE pc # "off"
    <3>1. Existing(s) + left[s] <=
            Repeats[s] + (IF pc \in InRun /\ dirs[Here].scenario = s THEN Charge ELSE 0)
      BY <2>3 DEF Accounts, PlanInv
    <3>2. pc \in InRun /\ dirs[Here].scenario = s => left[s] > 0
      BY DEF Accounts, PlanInv, Turn
    <3>3. Charge \in {0, 1}
      BY DEF Charge
    <3>4. CASE pc \in InRun /\ dirs[Here].scenario = s
      BY <3>1, <3>2, <3>3, <3>4, <2>1
    <3>5. CASE ~(pc \in InRun /\ dirs[Here].scenario = s)
      BY <3>1, <3>5, <2>1
    <3> QED BY <3>4, <3>5
  <2> QED BY <2>2, <2>3
<1> QED BY <1>1, AccountsInductive, PTL

\* Between runs the tally and the disk agree, whatever failed where.
THEOREM TheTallyIsHonest == Spec => []TallyHonest
<1>1. TypeInv /\ Accounts => TallyHonest
  <2> SUFFICES ASSUME TypeInv, Accounts, pc = "check"
               PROVE  LET new == Cardinality(Usable) - existing
                      IN done <= new /\ new <= done + failed
    BY DEF TallyHonest
  <2>1. Charge = 0
    BY DEF Charge, InRun
  <2>2. done \in Nat /\ failed \in Nat /\ existing \in Nat /\ Cardinality(Usable) \in Nat
    BY UsableType DEF TypeInv, TypeOK
  <2> QED BY <2>1, <2>2 DEF Accounts, TallyInv
<1> QED BY <1>1, AccountsInductive, PTL

-----------------------------------------------------------------------------
(* The server and its faults *)

\* The run in progress is one with this kind of fault.
RunOf(kind) == pc \in InRun /\ Kind[dirs[Here].scenario] = kind

\* A host process has the port only where there is no container; and a run works on
\* a container that answers, unless it is one it has recreated itself.
PortInv ==
  /\ server # "down" /\ ~inside => container = "none"
  /\ pc \in InRun /\ control # "compose" => container = "none" \/ inside

\* The relaunch is one of a run with a configuration fault.
RelaunchInv ==
  /\ pc \in {"relaunch", "poll", "health"} => RunOf("config") /\ control # "none"
  /\ pc = "poll" => control = "native" /\ nativeState /\ starting = {}

\* From the injection until the recovery has made its own server.
Faulty == RunOf("config") /\ pc \in {"relaunch", "fault", "collect", "timeline", "cleanup"}
Faulting == goal = "degraded" /\ pc \in {"poll", "health"}

\* Where the degraded configuration can be, and that the backend which undoes it is
\* the one that made it.
DegradedInv ==
  /\ container = "degraded" => Faulty \/ Faulting
  /\ "degraded" \in starting => Faulty \/ Faulting
  /\ server = "degraded" => Faulty \/ Faulting \/ pc = "poll"
  /\ container = "degraded" => control = "compose"
  /\ "degraded" \in starting => control = "native" /\ nativeState
  /\ server = "degraded" /\ ~inside => control = "native" /\ nativeState

HogInv ==
  /\ hog # {} => RunOf("infra") /\ pc \in {"fault", "collect", "timeline", "cleanup"}
  /\ hog \in {{}, {<<"loops", "own">>}, {<<"quota", "own">>}}

\* Nothing nominal is left that could answer for the degraded server.
FaultInv ==
  /\ container # "none" => starting = {}
  /\ RunOf("config") /\ (pc = "fault" \/ (pc = "health" /\ goal = "degraded")) =>
       "nominal" \notin {server, container} \cup starting

LabelInv ==
  \A i \in DOMAIN dirs :
    dirs[i].mislabelled \subseteq (IF mishaps = {} THEN {} ELSE {"fault"})

\* The run in progress has not come to its metrics.
Early ==
  \/ pc \in {"baseline", "fault", "collect"}
  \/ goal = "degraded" /\ pc \in {"relaunch", "poll", "health"}

\* The files of the run in progress, up to its timeline, are the ones it has written.
TimelineInv ==
  /\ CountedCanBeScored
  /\ Early => dirs[Here].files = {"ground_truth"}
  /\ pc = "timeline" => Here \notin cut /\ dirs[Here].files = {"ground_truth", "metrics"}

Serving ==
  /\ PortInv /\ RelaunchInv /\ TimelineInv
  /\ Undisturbed => DegradedInv /\ HogInv /\ LabelInv
  /\ mishaps = {} => FaultInv

\* Mishaps are never forgotten.
LEMMA MishapsStay == [Next]_vars => mishaps \subseteq mishaps'
BY DEF Next, BatchStep, ServerStep, vars, disk, procs, tally, run,
       Start, Interrupt, Finish, Check, Revive, Revived, ReviveGivesUp,
       PreflightFails, Preflight, GeneratorFails, InjectConfig, InjectWorkload, InjectInfra,
       InjectInfraFails, FaultWindow, Collect, CollectFails, Timeline, TimelineFails, Cleanup,
       CleanupUnlifted, Score, RunFails,
       RelaunchRaises, Recreate, RecreateFails, Recreates, Pkill, PollGone,
       PollOutlived, Launch, Healthy, HealthTimeout, ServerExits, ServerUp,
       StartFails, ContainerUp, ContainerFails, Kill

\* A run is of one scenario to its end.
LEMMA ScenarioStays ==
  ASSUME TypeInv, [Next]_vars, pc \in InRun, NEW k
  PROVE  RunOf(k)' <=> pc' \in InRun /\ RunOf(k)
<1>1. CASE SameRecords
  <2>1. Here' = Here /\ dirs'[Here].scenario = dirs[Here].scenario
    BY <1>1, HereType DEF SameRecords, Here
  <2> QED BY <2>1 DEF RunOf
<1>2. CASE Collect
  <2>1. dirs' = [dirs EXCEPT ![Here].files = @ \cup {"metrics"}]
    BY <1>2 DEF Collect
  <2>2. Len(dirs') = Len(dirs) /\ dirs'[Here].scenario = dirs[Here].scenario
    BY <2>1, AddFile DEF Files
  <2> QED BY <2>2 DEF RunOf, Here
<1>3. dirs' = dirs \/ Timeline \/ FaultWindow \/ (\E j : Inject(j)) \/ Collect
  BY DEF InRun, Next, BatchStep, ServerStep, vars, disk, procs, tally, run,
         Start, Interrupt, Finish, Check, Revive, Revived, ReviveGivesUp, Preflight,
         PreflightFails, GeneratorFails, InjectConfig, InjectWorkload, InjectInfra,
         InjectInfraFails, CollectFails, TimelineFails, Cleanup, CleanupUnlifted, Score, RunFails,
         RelaunchRaises, Recreate, RecreateFails, Recreates, Pkill, PollGone,
         PollOutlived, Launch, Healthy, HealthTimeout, ServerExits, ServerUp,
         StartFails, ContainerUp, ContainerFails, Kill
<1> QED BY <1>1, <1>2, <1>3, UnchangedKeeps, TimelineKeeps, FaultWindowKeeps, InjectKeeps

\* An injection is one for the run's own kind of fault.
LEMMA InjectIs == \A k : Inject(k) => pc = "baseline" /\ RunOf(k)
BY DEF Inject, RunOf, InRun

\* A backend is detected once.
LEMMA DetectedIs ==
  \A c \in {"native", "compose"} : Detected(c) => control' = c /\ control \in {"none", c}
BY DEF Detected

\* Only a configuration fault is undone by a relaunch, with the backend of the injection.
LEMMA UndoIs ==
  ASSUME pc = "cleanup", Undo
  PROVE  \/ /\ RunOf("config")
            /\ pc' = "relaunch" /\ goal' = "nominal"
            /\ control' \in {"native", "compose"} /\ control \in {"none", control'}
         \/ /\ ~RunOf("config")
            /\ pc' = "score"
            /\ UNCHANGED <<goal, control>>
<1>1. RunOf("config") <=> Kind[dirs[Here].scenario] = "config"
  BY DEF RunOf, InRun
<1> QED BY <1>1, DetectedIs DEF Undo

\* Only a run that recreates containers works on one that does not answer yet.
LEMMA StepPort ==
  ASSUME TypeInv, PortInv, [Next]_vars
  PROVE  PortInv'
<1> USE DEF PortInv, TypeInv, TypeOK, Configs, disk, procs, tally, run, InRun
<1>1. CASE Start \/ Interrupt \/ Finish \/ Check \/ Revived \/ ReviveGivesUp
  BY <1>1 DEF Start, Interrupt, Finish, Check, Revived, ReviveGivesUp
<1>2. CASE PreflightFails \/ Score \/ RunFails
  BY <1>2 DEF PreflightFails, Failed, Score, RunFails
<1>3. CASE Revive
  BY <1>3 DEF Revive
<1>4. CASE \E s \in Scenarios : Preflight(s)
  BY <1>4 DEF Preflight
<1>5. CASE InjectConfig
  BY <1>5, InjectIs, DetectedIs DEF InjectConfig
<1>6. CASE InjectWorkload \/ InjectInfra \/ InjectInfraFails
  BY <1>6, InjectIs, DetectedIs DEF InjectWorkload, InjectInfra, InjectInfraFails
<1>7. CASE GeneratorFails \/ FaultWindow \/ Collect \/ CollectFails \/ Timeline
             \/ TimelineFails
  BY <1>7 DEF GeneratorFails, FaultWindow, Collect, CollectFails, Timeline,
               TimelineFails
<1>8. CASE Cleanup \/ CleanupUnlifted
  BY <1>8, UndoIs DEF Cleanup, CleanupUnlifted
<1>9. CASE RelaunchRaises \/ HealthTimeout \/ Healthy
  BY <1>9 DEF RelaunchRaises, HealthTimeout, Healthy, Raised
<1>10. CASE Recreate \/ RecreateFails
  BY <1>10 DEF Recreate, RecreateFails, Recreates, Raised
<1>11. CASE Pkill \/ PollGone \/ PollOutlived
  BY <1>11 DEF Pkill, PollGone, PollOutlived, Launch
<1>12. CASE ServerExits
  BY <1>12 DEF ServerExits
<1>13. CASE \E c \in Configs : ServerUp(c) \/ StartFails(c)
  BY <1>13 DEF ServerUp, StartFails
<1>14. CASE ContainerUp \/ ContainerFails
  BY <1>14 DEF ContainerUp, ContainerFails
<1>15. CASE Kill
  BY <1>15 DEF Kill
<1>16. CASE UNCHANGED vars
  BY <1>16 DEF vars
<1> QED BY <1>1, <1>2, <1>3, <1>4, <1>5, <1>6, <1>7, <1>8, <1>9, <1>10, <1>11, <1>12,
           <1>13, <1>14, <1>15, <1>16 DEF Next, BatchStep, ServerStep

\* Between pkill and the launch there is nothing that could come up on the host.
LEMMA StepRelaunch ==
  ASSUME TypeInv, RelaunchInv, [Next]_vars
  PROVE  RelaunchInv'
<1>0. pc \in InRun => (RunOf("config")' <=> pc' \in InRun /\ RunOf("config"))
  BY ScenarioStays
<1> USE <1>0 DEF RelaunchInv, TypeInv, TypeOK, disk, procs, tally, run, InRun
<1>1. CASE Start \/ Interrupt \/ Finish \/ Check \/ Revived \/ ReviveGivesUp
  BY <1>1 DEF Start, Interrupt, Finish, Check, Revived, ReviveGivesUp
<1>2. CASE PreflightFails \/ Score \/ RunFails
  BY <1>2 DEF PreflightFails, Failed, Score, RunFails
<1>3. CASE Revive
  BY <1>3 DEF Revive
<1>4. CASE \E s \in Scenarios : Preflight(s)
  BY <1>4 DEF Preflight
<1>5. CASE InjectConfig
  BY <1>5, InjectIs, DetectedIs DEF InjectConfig
<1>6. CASE InjectWorkload \/ InjectInfra \/ InjectInfraFails
  BY <1>6, InjectIs, DetectedIs DEF InjectWorkload, InjectInfra, InjectInfraFails
<1>7. CASE GeneratorFails \/ FaultWindow \/ Collect \/ CollectFails \/ Timeline
             \/ TimelineFails
  BY <1>7 DEF GeneratorFails, FaultWindow, Collect, CollectFails, Timeline,
               TimelineFails
<1>8. CASE Cleanup \/ CleanupUnlifted
  BY <1>8, UndoIs DEF Cleanup, CleanupUnlifted
<1>9. CASE RelaunchRaises \/ HealthTimeout \/ Healthy
  BY <1>9 DEF RelaunchRaises, HealthTimeout, Healthy, Raised
<1>10. CASE Recreate \/ RecreateFails
  BY <1>10 DEF Recreate, RecreateFails, Recreates, Raised
<1>11. CASE Pkill \/ PollGone \/ PollOutlived
  BY <1>11 DEF Pkill, PollGone, PollOutlived, Launch
<1>12. CASE ServerExits
  BY <1>12 DEF ServerExits
<1>13. CASE \E c \in Configs : ServerUp(c) \/ StartFails(c)
  BY <1>13 DEF ServerUp, StartFails
<1>14. CASE ContainerUp \/ ContainerFails
  BY <1>14 DEF ContainerUp, ContainerFails
<1>15. CASE Kill
  BY <1>15 DEF Kill
<1>16. CASE UNCHANGED vars
  BY <1>16 DEF vars
<1> QED BY <1>1, <1>2, <1>3, <1>4, <1>5, <1>6, <1>7, <1>8, <1>9, <1>10, <1>11, <1>12,
           <1>13, <1>14, <1>15, <1>16 DEF Next, BatchStep, ServerStep

\* The recovery ends in a server of its own making or finds nothing to recover.
LEMMA StepDegraded ==
  ASSUME TypeInv, PortInv, RelaunchInv, Undisturbed => DegradedInv, [Next]_vars,
         Undisturbed'
  PROVE  DegradedInv'
<1>. Undisturbed
  BY MishapsStay DEF Undisturbed
<1>0. pc \in InRun => (RunOf("config")' <=> pc' \in InRun /\ RunOf("config"))
  BY ScenarioStays
<1> USE <1>0 DEF DegradedInv, Faulty, Faulting, PortInv, RelaunchInv, Undisturbed,
        TypeInv, TypeOK, Configs, disk, procs, tally, run, InRun
<1>1. CASE Start \/ Interrupt \/ Finish \/ Check \/ Revived \/ ReviveGivesUp
  BY <1>1 DEF Start, Interrupt, Finish, Check, Revived, ReviveGivesUp
<1>2. CASE PreflightFails \/ Score \/ RunFails
  BY <1>2 DEF PreflightFails, Failed, Score, RunFails
<1>3. CASE Revive
  BY <1>3 DEF Revive
<1>4. CASE \E s \in Scenarios : Preflight(s)
  BY <1>4 DEF Preflight
<1>5. CASE InjectConfig
  BY <1>5, InjectIs, DetectedIs DEF InjectConfig
<1>6. CASE InjectWorkload \/ InjectInfra \/ InjectInfraFails
  BY <1>6, InjectIs, DetectedIs DEF InjectWorkload, InjectInfra, InjectInfraFails
<1>7. CASE GeneratorFails \/ FaultWindow \/ Collect \/ CollectFails \/ Timeline
             \/ TimelineFails
  BY <1>7 DEF GeneratorFails, FaultWindow, Collect, CollectFails, Timeline,
               TimelineFails
<1>8. CASE Cleanup \/ CleanupUnlifted
  BY <1>8, UndoIs DEF Cleanup, CleanupUnlifted
<1>9. CASE RelaunchRaises \/ HealthTimeout \/ Healthy
  BY <1>9 DEF RelaunchRaises, HealthTimeout, Healthy, Raised
<1>10. CASE Recreate \/ RecreateFails
  BY <1>10 DEF Recreate, RecreateFails, Recreates, Raised
<1>11. CASE Pkill \/ PollGone \/ PollOutlived
  BY <1>11 DEF Pkill, PollGone, PollOutlived, Launch
<1>12. CASE ServerExits
  BY <1>12 DEF ServerExits
<1>13. CASE \E c \in Configs : ServerUp(c) \/ StartFails(c)
  BY <1>13 DEF ServerUp, StartFails
<1>14. CASE ContainerUp \/ ContainerFails
  BY <1>14 DEF ContainerUp, ContainerFails
<1>15. CASE Kill
  BY <1>15 DEF Kill
<1>16. CASE UNCHANGED vars
  BY <1>16 DEF vars
<1> QED BY <1>1, <1>2, <1>3, <1>4, <1>5, <1>6, <1>7, <1>8, <1>9, <1>10, <1>11, <1>12,
           <1>13, <1>14, <1>15, <1>16 DEF Next, BatchStep, ServerStep

\* The token is there until the loops and the quota are gone.
LEMMA StepHog ==
  ASSUME TypeInv, RelaunchInv, Undisturbed => HogInv, [Next]_vars, Undisturbed'
  PROVE  HogInv'
<1>. Undisturbed
  BY MishapsStay DEF Undisturbed
<1>00. RunOf("config") /\ RunOf("infra") => FALSE
  BY DEF RunOf
<1>01. pc \in InRun => (RunOf("infra")' <=> pc' \in InRun /\ RunOf("infra"))
  BY ScenarioStays
<1> USE <1>00, <1>01 DEF HogInv, Quotas, RelaunchInv, Undisturbed, TypeInv, TypeOK,
        Configs, disk, procs, tally, run, InRun
<1>1. CASE Start \/ Interrupt \/ Finish \/ Check \/ Revived \/ ReviveGivesUp
  BY <1>1 DEF Start, Interrupt, Finish, Check, Revived, ReviveGivesUp
<1>2. CASE PreflightFails \/ Score \/ RunFails
  BY <1>2 DEF PreflightFails, Failed, Score, RunFails
<1>3. CASE Revive
  BY <1>3 DEF Revive
<1>4. CASE \E s \in Scenarios : Preflight(s)
  BY <1>4 DEF Preflight
<1>5. CASE InjectConfig
  BY <1>5, InjectIs, DetectedIs DEF InjectConfig
<1>6. CASE InjectWorkload \/ InjectInfra \/ InjectInfraFails
  BY <1>6, InjectIs, DetectedIs DEF InjectWorkload, InjectInfra, InjectInfraFails
<1>7. CASE GeneratorFails \/ FaultWindow \/ Collect \/ CollectFails \/ Timeline
             \/ TimelineFails
  BY <1>7 DEF GeneratorFails, FaultWindow, Collect, CollectFails, Timeline,
               TimelineFails
<1>8. CASE Cleanup \/ CleanupUnlifted
  BY <1>8, UndoIs DEF Cleanup, CleanupUnlifted
<1>9. CASE RelaunchRaises \/ HealthTimeout \/ Healthy
  BY <1>9 DEF RelaunchRaises, HealthTimeout, Healthy, Raised
<1>10. CASE Recreate \/ RecreateFails
  BY <1>10 DEF Recreate, RecreateFails, Recreates, Raised
<1>11. CASE Pkill \/ PollGone \/ PollOutlived
  BY <1>11 DEF Pkill, PollGone, PollOutlived, Launch
<1>12. CASE ServerExits
  BY <1>12 DEF ServerExits
<1>13. CASE \E c \in Configs : ServerUp(c) \/ StartFails(c)
  BY <1>13 DEF ServerUp, StartFails
<1>14. CASE ContainerUp \/ ContainerFails
  BY <1>14 DEF ContainerUp, ContainerFails
<1>15. CASE Kill
  BY <1>15 DEF Kill
<1>16. CASE UNCHANGED vars
  BY <1>16 DEF vars
<1> QED BY <1>1, <1>2, <1>3, <1>4, <1>5, <1>6, <1>7, <1>8, <1>9, <1>10, <1>11, <1>12,
           <1>13, <1>14, <1>15, <1>16 DEF Next, BatchStep, ServerStep

\* The server that was to be replaced is gone before its replacement is launched.
LEMMA StepFault ==
  ASSUME TypeInv, PortInv, RelaunchInv, mishaps = {} => FaultInv, [Next]_vars, mishaps' = {}
  PROVE  FaultInv'
<1>. mishaps = {}
  BY MishapsStay
<1>00. \A a, b : RunOf(a) /\ RunOf(b) => a = b
  BY DEF RunOf
<1>0. pc \in InRun => (RunOf("config")' <=> pc' \in InRun /\ RunOf("config"))
  BY ScenarioStays
<1> USE <1>0 DEF FaultInv, PortInv, RelaunchInv, TypeInv, TypeOK, Configs, disk, procs,
        tally, run, InRun
<1>1. CASE Start \/ Interrupt \/ Finish \/ Check \/ Revived \/ ReviveGivesUp
  BY <1>1 DEF Start, Interrupt, Finish, Check, Revived, ReviveGivesUp
<1>2. CASE PreflightFails \/ Score \/ RunFails
  BY <1>2 DEF PreflightFails, Failed, Score, RunFails
<1>3. CASE Revive
  BY <1>3 DEF Revive
<1>4. CASE \E s \in Scenarios : Preflight(s)
  BY <1>4 DEF Preflight
<1>5. CASE InjectConfig
  BY <1>5, InjectIs, DetectedIs DEF InjectConfig
<1>6. CASE InjectWorkload \/ InjectInfra \/ InjectInfraFails
  <2>1. RunOf("workload") \/ RunOf("infra")
    BY <1>6, InjectIs DEF InjectWorkload, InjectInfra, InjectInfraFails
  <2>2. ~RunOf("config")
    BY <2>1, <1>00
  <2>3. UNCHANGED <<server, starting, container>>
    BY <1>6 DEF InjectWorkload, InjectInfra, InjectInfraFails
  <2> QED BY <1>6, <2>2, <2>3, InjectIs DEF InjectWorkload, InjectInfra, InjectInfraFails
<1>7. CASE GeneratorFails \/ FaultWindow \/ Collect \/ CollectFails \/ Timeline
             \/ TimelineFails
  BY <1>7 DEF GeneratorFails, FaultWindow, Collect, CollectFails, Timeline,
               TimelineFails
<1>8. CASE Cleanup \/ CleanupUnlifted
  BY <1>8, UndoIs DEF Cleanup, CleanupUnlifted
<1>9. CASE RelaunchRaises \/ HealthTimeout \/ Healthy
  BY <1>9 DEF RelaunchRaises, HealthTimeout, Healthy, Raised
<1>10. CASE Recreate \/ RecreateFails
  BY <1>10 DEF Recreate, RecreateFails, Recreates, Raised
<1>11. CASE Pkill \/ PollGone \/ PollOutlived
  BY <1>11 DEF Pkill, PollGone, PollOutlived, Launch
<1>12. CASE ServerExits
  BY <1>12 DEF ServerExits
<1>13. CASE \E c \in Configs : ServerUp(c) \/ StartFails(c)
  BY <1>13 DEF ServerUp, StartFails
<1>14. CASE ContainerUp \/ ContainerFails
  BY <1>14 DEF ContainerUp, ContainerFails
<1>15. CASE Kill
  BY <1>15 DEF Kill
<1>16. CASE UNCHANGED vars
  BY <1>16 DEF vars
<1> QED BY <1>1, <1>2, <1>3, <1>4, <1>5, <1>6, <1>7, <1>8, <1>9, <1>10, <1>11, <1>12,
           <1>13, <1>14, <1>15, <1>16 DEF Next, BatchStep, ServerStep

\* What Note makes of the directory of the run in progress.
LEMMA NoteIs ==
  ASSUME TypeInv, pc \in InRun, NEW w \in {"baseline", "fault"}, NEW wrong, Note(w, wrong)
  PROVE  /\ Len(dirs') = Len(dirs) /\ DOMAIN dirs' = DOMAIN dirs
         /\ \A i \in DOMAIN dirs : dirs'[i].files = dirs[i].files
         /\ \A i \in DOMAIN dirs :
              dirs'[i].mislabelled \subseteq
                dirs[i].mislabelled \cup (IF wrong THEN {w} ELSE {})
<1> DEFINE m == IF wrong THEN dirs[Here].mislabelled \cup {w} ELSE dirs[Here].mislabelled
           d == [dirs[Here] EXCEPT !.mislabelled = m]
<1>1. Here \in DOMAIN dirs /\ dirs[Here] \in Directory
  BY HereType
<1>2. m \in SUBSET {"baseline", "fault"}
  BY <1>1 DEF Directory
<1>3. d \in Directory /\ d.mislabelled = m /\ d.files = dirs[Here].files
  BY <1>1, <1>2 DEF Directory
<1>4. dirs' = [dirs EXCEPT ![Here] = d]
  BY <1>1 DEF Note
<1>5. m \subseteq dirs[Here].mislabelled \cup (IF wrong THEN {w} ELSE {})
  OBVIOUS
<1> HIDE DEF d, m
<1>6. /\ dirs' \in Seq(Directory) /\ Len(dirs') = Len(dirs)
      /\ dirs'[Here] = d
      /\ \A i \in DOMAIN dirs : i # Here => dirs'[i] = dirs[i]
  BY <1>3, <1>4, ReplaceHere
<1>7. DOMAIN dirs' = DOMAIN dirs
  BY <1>4
<1> QED BY <1>3, <1>5, <1>6, <1>7

\* The steps that touch a directory.
LEMMA DirsChange ==
  ASSUME [Next]_vars
  PROVE  \/ dirs' = dirs
         \/ \E s \in Scenarios : Preflight(s)
         \/ (\E k : Inject(k)) \/ FaultWindow \/ Collect \/ Timeline
BY DEF Next, BatchStep, ServerStep, vars, disk, procs, tally, run,
       Start, Interrupt, Finish, Check, Revive, Revived, ReviveGivesUp,
       PreflightFails, GeneratorFails, InjectConfig, InjectWorkload, InjectInfra,
       InjectInfraFails, CollectFails, TimelineFails, Cleanup, CleanupUnlifted, Score, RunFails,
       RelaunchRaises, Recreate, RecreateFails, Recreates, Pkill, PollGone,
       PollOutlived, Launch, Healthy, HealthTimeout, ServerExits, ServerUp,
       StartFails, ContainerUp, ContainerFails, Kill

\* A new directory comes last, with its label alone.
LEMMA PreflightIs ==
  ASSUME TypeInv, NEW s \in Scenarios, Preflight(s)
  PROVE  /\ DOMAIN dirs' = DOMAIN dirs \cup {Here'} /\ Here' \notin DOMAIN dirs
         /\ dirs'[Here'].mislabelled = {} /\ dirs'[Here'].files = {"ground_truth"}
         /\ \A i \in DOMAIN dirs : dirs'[i] = dirs[i]
<1> DEFINE d == [scenario |-> s, files |-> {"ground_truth"}, mislabelled |-> {}]
<1>1. dirs' = Append(dirs, d) /\ dirs \in Seq(Directory) /\ d \in Directory
  BY DEF Preflight, TypeInv, TypeOK, Directory, Files
<1>2. d.mislabelled = {} /\ d.files = {"ground_truth"}
  OBVIOUS
<1> HIDE DEF d
<1>3. /\ DOMAIN dirs' = DOMAIN dirs \cup {Here'} /\ Here' \notin DOMAIN dirs
      /\ dirs'[Here'] = d
      /\ \A i \in DOMAIN dirs : dirs'[i] = dirs[i]
  BY <1>1 DEF Here
<1> QED BY <1>2, <1>3

\* The windows are noted where the invariants leave nothing to note.
LEMMA StepLabel ==
  ASSUME TypeInv, [Next]_vars, Undisturbed',
         Undisturbed => DegradedInv /\ HogInv /\ LabelInv,
         mishaps = {} => FaultInv
  PROVE  LabelInv'
<1> DEFINE allowed == IF mishaps = {} THEN {} ELSE {"fault"}
<1>1. Undisturbed /\ (allowed \subseteq (IF mishaps' = {} THEN {} ELSE {"fault"}))
  BY MishapsStay DEF Undisturbed
<1> SUFFICES ASSUME NEW i \in DOMAIN dirs'
             PROVE  dirs'[i].mislabelled \subseteq allowed
  BY <1>1 DEF LabelInv
<1>2. \A j \in DOMAIN dirs : dirs[j].mislabelled \subseteq allowed
  BY <1>1 DEF LabelInv
<1> HIDE DEF allowed
<1>3. CASE dirs' = dirs
  BY <1>2, <1>3
<1>4. CASE \E s \in Scenarios : Preflight(s)
  BY <1>2, <1>4, PreflightIs
<1>5. CASE \E k : Inject(k)
  <2>1. PICK k : Inject(k)
    BY <1>5
  <2>2. pc = "baseline" /\ Note("baseline", server = "degraded" \/ hog # {})
    BY <2>1 DEF Inject
  <2>3. ~(server = "degraded" \/ hog # {})
    BY <2>2, <1>1 DEF DegradedInv, HogInv, Faulty, Faulting
  <2>4. /\ DOMAIN dirs' = DOMAIN dirs
        /\ \A j \in DOMAIN dirs : dirs'[j].mislabelled \subseteq dirs[j].mislabelled
    BY <2>2, <2>3, NoteIs DEF InRun
  <2> QED BY <2>4, <1>2
<1>6. CASE FaultWindow
  <2> DEFINE wrong == Kind[dirs[Here].scenario] = "config" /\ server = "nominal"
  <2>1. pc = "fault" /\ Note("fault", wrong)
    BY <1>6 DEF FaultWindow
  <2>2. mishaps = {} => ~wrong
    BY <2>1 DEF FaultInv, RunOf, InRun
  <2> HIDE DEF wrong
  <2>3. /\ DOMAIN dirs' = DOMAIN dirs
        /\ \A j \in DOMAIN dirs : dirs'[j].mislabelled \subseteq
             dirs[j].mislabelled \cup (IF wrong THEN {"fault"} ELSE {})
    BY <2>1, NoteIs DEF InRun
  <2>4. (IF wrong THEN {"fault"} ELSE {}) \subseteq allowed
    BY <2>2 DEF allowed
  <2> QED BY <2>3, <2>4, <1>2
<1>7. CASE Collect \/ Timeline
  <2>1. pc \in InRun /\ \E f \in Files : dirs' = [dirs EXCEPT ![Here].files = @ \cup {f}]
    BY <1>7 DEF Collect, Timeline, InRun, Files
  <2>2. /\ DOMAIN dirs' = DOMAIN dirs
        /\ \A j \in DOMAIN dirs : dirs'[j].mislabelled = dirs[j].mislabelled
    BY <2>1, AddFile
  <2> QED BY <2>2, <1>2
<1> QED BY <1>3, <1>4, <1>5, <1>6, <1>7, DirsChange

\* How a run comes to its metrics, and how it leaves the step after them.
LEMMA TimelineMoves ==
  ASSUME [Next]_vars
  PROVE  /\ Early' => Early \/ \E s \in Scenarios : Preflight(s)
         /\ pc' = "timeline" => Collect \/ (pc = "timeline" /\ dirs' = dirs)
         /\ pc = "timeline" => Timeline \/ TimelineFails \/ Kill
                               \/ (pc' = "timeline" /\ dirs' = dirs)
         /\ cut' = cut \/ TimelineFails \/ Kill
BY DEF Early, Next, BatchStep, ServerStep, vars, disk, procs, tally, run,
       Start, Interrupt, Finish, Check, Revive, Revived, ReviveGivesUp,
       PreflightFails, Preflight, GeneratorFails, InjectConfig, InjectWorkload, InjectInfra,
       Inject, InjectInfraFails, FaultWindow, Collect, CollectFails, Timeline,
       TimelineFails, Cleanup, CleanupUnlifted, Undo, Score, RunFails, Failed,
       RelaunchRaises, Raised, Recreate, RecreateFails, Recreates, Pkill, PollGone,
       PollOutlived, Launch, Healthy, HealthTimeout, ServerExits, ServerUp,
       StartFails, ContainerUp, ContainerFails, Kill

\* The usable directories without a timeline.
Unscorable == {i \in Usable : "timeline" \notin dirs[i].files}

\* A run that has its metrics goes on to its timeline, or is accounted for.
LEMMA StepTimeline ==
  ASSUME TypeInv, TimelineInv, [Next]_vars
  PROVE  TimelineInv'
<1>1. Unscorable = IF pc = "timeline" THEN cut \cup {Here} ELSE cut
  BY DEF TimelineInv, CountedCanBeScored, Unscorable
<1>2. SUFFICES /\ Unscorable' = (IF pc' = "timeline" THEN cut' \cup {Here'} ELSE cut')
               /\ Early' => dirs'[Here'].files = {"ground_truth"}
               /\ pc' = "timeline" =>
                    Here' \notin cut' /\ dirs'[Here'].files = {"ground_truth", "metrics"}
  BY DEF TimelineInv, CountedCanBeScored, Unscorable
<1>3. CASE Kill
  <2>1. /\ dirs' = dirs /\ pc' = "off"
        /\ cut' = IF pc = "timeline" THEN cut \cup {Here} ELSE cut
    BY <1>3 DEF Kill
  <2>2. Unscorable' = Unscorable
    BY <2>1 DEF Unscorable, Usable, Counted
  <2> QED BY <2>1, <2>2, <1>1 DEF Early
<1>4. CASE TimelineFails
  <2>1. pc = "timeline" /\ pc' = "cleanup" /\ dirs' = dirs /\ cut' = cut \cup {Here}
    BY <1>4 DEF TimelineFails
  <2>2. Unscorable' = Unscorable
    BY <2>1 DEF Unscorable, Usable, Counted
  <2> QED BY <2>1, <2>2, <1>1 DEF Early
<1>5. CASE Timeline
  <2>1. /\ pc = "timeline" /\ pc' = "cleanup" /\ cut' = cut
        /\ dirs' = [dirs EXCEPT ![Here].files = @ \cup {"timeline"}]
    BY <1>5 DEF Timeline
  <2>2. /\ DOMAIN dirs' = DOMAIN dirs
        /\ dirs'[Here].files = dirs[Here].files \cup {"timeline"}
        /\ \A i \in DOMAIN dirs : i # Here => dirs'[i] = dirs[i]
    BY <2>1, AddFile DEF InRun, Files
  <2>3. Unscorable' = Unscorable \ {Here}
    BY <2>2 DEF Unscorable, Usable, Counted
  <2> QED BY <2>1, <2>3, <1>1 DEF TimelineInv, Early
<1>6. CASE Collect
  <2>1. /\ pc = "collect" /\ pc' = "timeline" /\ cut' = cut
        /\ dirs' = [dirs EXCEPT ![Here].files = @ \cup {"metrics"}]
    BY <1>6 DEF Collect
  <2>2. /\ Len(dirs') = Len(dirs) /\ DOMAIN dirs' = DOMAIN dirs
        /\ dirs'[Here].files = dirs[Here].files \cup {"metrics"}
        /\ \A i \in DOMAIN dirs : i # Here => dirs'[i] = dirs[i]
    BY <2>1, AddFile DEF InRun, Files
  <2>3. Here' = Here /\ Here \in DOMAIN dirs
    BY <2>1, <2>2, HereType DEF Here, InRun
  <2>4. dirs[Here].files = {"ground_truth"}
    BY <2>1 DEF TimelineInv, Early
  <2>5. Here \notin Unscorable /\ Unscorable' = Unscorable \cup {Here}
    BY <2>2, <2>3, <2>4 DEF Unscorable, Usable, Counted
  <2>6. dirs'[Here'].files = {"ground_truth", "metrics"}
    BY <2>2, <2>3, <2>4
  <2>7. ~Early'
    BY <2>1 DEF Early
  <2> QED BY <2>1, <2>3, <2>5, <2>6, <2>7, <1>1
<1>7. CASE \E s \in Scenarios : Preflight(s)
  <2>1. pc = "preflight" /\ pc' = "baseline" /\ cut' = cut
    BY <1>7 DEF Preflight
  <2>2. /\ DOMAIN dirs' = DOMAIN dirs \cup {Here'}
        /\ dirs'[Here'].files = {"ground_truth"}
        /\ \A i \in DOMAIN dirs : dirs'[i] = dirs[i]
    BY <1>7, PreflightIs
  <2>3. Unscorable' = Unscorable
    BY <2>2 DEF Unscorable, Usable, Counted
  <2> QED BY <2>1, <2>2, <2>3, <1>1
<1>8. CASE /\ ~Kill /\ ~TimelineFails /\ ~Timeline /\ ~Collect
           /\ ~\E s \in Scenarios : Preflight(s)
  <2>1. cut' = cut /\ (pc' = "timeline" <=> pc = "timeline") /\ (Early' => Early)
    BY <1>8, TimelineMoves
  <2>2. /\ Len(dirs') = Len(dirs) /\ DOMAIN dirs' = DOMAIN dirs
        /\ \A i \in DOMAIN dirs : dirs'[i].files = dirs[i].files
    <3>1. CASE dirs' = dirs
      BY <3>1
    <3>2. CASE \E k : Inject(k)
      BY <3>2, NoteIs DEF Inject, InRun
    <3>3. CASE FaultWindow
      BY <3>3, NoteIs DEF FaultWindow, InRun
    <3> QED BY <3>1, <3>2, <3>3, <1>8, DirsChange
  <2>3. Unscorable' = Unscorable /\ Here' = Here
    BY <2>2 DEF Unscorable, Usable, Counted, Here
  <2>4. Early \/ pc = "timeline" => Here \in DOMAIN dirs
    BY HereType DEF Early, InRun
  <2> QED BY <2>1, <2>2, <2>3, <2>4, <1>1 DEF TimelineInv
<1> QED BY <1>3, <1>4, <1>5, <1>6, <1>7, <1>8

LEMMA InitServing == Init => Serving
<1> SUFFICES ASSUME Init PROVE Serving
  OBVIOUS
<1>1. dirs = <<>> /\ cut = {} /\ pc = "off" /\ server = "nominal" /\ starting = {} /\ hog = {}
      /\ container \in {"nominal", "none"} /\ (~inside => container = "none")
  BY StacksAssumption DEF Init
<1>2. DOMAIN dirs = {}
  BY <1>1
<1> QED BY <1>1, <1>2 DEF Serving, PortInv, RelaunchInv, DegradedInv, HogInv, FaultInv,
           LabelInv, TimelineInv, CountedCanBeScored, Usable, Early, RunOf, InRun

LEMMA StepServing == TypeInv /\ Serving /\ [Next]_vars => Serving'
<1> SUFFICES ASSUME TypeInv, Serving, [Next]_vars PROVE Serving'
  OBVIOUS
<1>1. PortInv' /\ RelaunchInv' /\ TimelineInv'
  BY StepPort, StepRelaunch, StepTimeline DEF Serving
<1>2. ASSUME Undisturbed' PROVE (DegradedInv /\ HogInv)'
  BY <1>2, StepDegraded, StepHog DEF Serving
<1>3. ASSUME Undisturbed' PROVE LabelInv'
  BY <1>3, StepLabel DEF Serving
<1>4. ASSUME mishaps' = {} PROVE FaultInv'
  BY <1>4, StepFault DEF Serving
<1> QED BY <1>1, <1>2, <1>3, <1>4 DEF Serving

LEMMA ServingInductive == Spec => [](TypeInv /\ Serving)
<1>1. Init => TypeInv /\ Serving
  BY InitTypeInv, InitServing
<1>2. TypeInv /\ Serving /\ [Next]_vars => (TypeInv /\ Serving)'
  BY StepTypeInv, StepServing
<1> QED BY <1>1, <1>2, PTL DEF Spec

\* Undisturbed, no run leaves its fault behind, wherever it failed and whichever
\* backend it worked with.
THEOREM FaultsAreUndone == Spec => []ServerRestored
<1>1. Serving => ServerRestored
  BY DEF Serving, ServerRestored, DegradedInv, HogInv, Faulty, Faulting, RunOf, InRun
<1> QED BY <1>1, ServingInductive, PTL

\* Undisturbed, the windows of a usable trace are what its label says.
THEOREM LabelsAreTrue == Spec => []LabelsTrue
<1>1. TypeInv /\ Serving => LabelsTrue
  BY DEF Serving, LabelsTrue, LabelInv, Usable
<1> QED BY <1>1, ServingInductive, PTL

\* Whatever fails, is killed or comes in between, a directory that counts as captured
\* but cannot be scored is one of a run that ended between its metrics and its timeline.
THEOREM CapturedIsScorable == Spec => []CountedCanBeScored
<1>1. TypeInv /\ Serving => CountedCanBeScored
  BY DEF Serving, TimelineInv
<1> QED BY <1>1, ServingInductive, PTL

-----------------------------------------------------------------------------
(* Every session is finite *)

\* How far a phase is from the end of its run.  A configuration fault relaunches the
\* server twice, the first time before its window.
PhaseRank ==
  [off |-> 0, score |-> 5, health |-> 6, poll |-> 7, relaunch |-> 8, cleanup |-> 9,
   timeline |-> 10, collect |-> 11, fault |-> 12, baseline |-> 16, preflight |-> 17,
   reviving |-> 18, revive |-> 19, check |-> 20]

Rank ==
  PhaseRank[pc] +
    IF pc \in {"relaunch", "poll", "health"} /\ goal = "degraded" THEN 7 ELSE 0

\* A repeat less to attempt, or as many and the run closer to its end.
Charged == \E s \in Scenarios : left[s] > 0 /\ left' = [left EXCEPT ![s] = @ - 1]
Shrinks == Charged \/ (left' = left /\ Rank' < Rank)

LEMMA AttemptedCharges == Attempted => Charged
  BY DEF Attempted, Charged, Turn

LEMMA StepShrinks == BatchStep => Shrinks
<1> SUFFICES ASSUME BatchStep PROVE Shrinks
  OBVIOUS
<1> USE DEF Rank, PhaseRank, tally, run
<1>1. CASE Finish
  BY <1>1 DEF Finish, Shrinks
<1>2. CASE Check
  BY <1>2 DEF Check, Shrinks
<1>3. CASE Revive
  BY <1>3 DEF Revive, Shrinks
<1>4. CASE Revived
  BY <1>4 DEF Revived, Shrinks
<1>5. CASE ReviveGivesUp
  BY <1>5 DEF ReviveGivesUp, Shrinks
<1>6. CASE GeneratorFails
  BY <1>6 DEF GeneratorFails, Shrinks
<1>7. CASE InjectConfig
  BY <1>7 DEF InjectConfig, Inject, Shrinks
<1>8. CASE InjectWorkload
  BY <1>8 DEF InjectWorkload, Inject, Shrinks
<1>9. CASE InjectInfra
  BY <1>9 DEF InjectInfra, Inject, Shrinks
<1>10. CASE InjectInfraFails
  BY <1>10 DEF InjectInfraFails, Inject, Shrinks
<1>11. CASE FaultWindow
  BY <1>11 DEF FaultWindow, Shrinks
<1>12. CASE Collect
  BY <1>12 DEF Collect, Shrinks
<1>13. CASE CollectFails
  BY <1>13 DEF CollectFails, Shrinks
<1>14. CASE Timeline
  BY <1>14 DEF Timeline, Shrinks
<1>15. CASE Cleanup
  BY <1>15 DEF Cleanup, Undo, Shrinks
<1>16. CASE CleanupUnlifted
  BY <1>16 DEF CleanupUnlifted, Undo, Shrinks
<1>17. CASE RelaunchRaises
  BY <1>17 DEF RelaunchRaises, Raised, Shrinks
<1>18. CASE Recreate
  BY <1>18 DEF Recreate, Recreates, Shrinks
<1>19. CASE RecreateFails
  BY <1>19 DEF RecreateFails, Recreates, Raised, Shrinks
<1>20. CASE Pkill
  BY <1>20 DEF Pkill, Shrinks
<1>21. CASE PollGone
  BY <1>21 DEF PollGone, Launch, Shrinks
<1>22. CASE PollOutlived
  BY <1>22 DEF PollOutlived, Launch, Shrinks
<1>23. CASE Healthy
  BY <1>23 DEF Healthy, Shrinks
<1>24. CASE HealthTimeout
  BY <1>24 DEF HealthTimeout, Raised, Shrinks
<1>25. CASE \E s \in Scenarios : Preflight(s)
  BY <1>25 DEF Preflight, Shrinks
<1>29. CASE TimelineFails
  BY <1>29 DEF TimelineFails, Shrinks
<1>26. CASE PreflightFails
  BY <1>26, AttemptedCharges DEF PreflightFails, Failed, Shrinks
<1>27. CASE Score
  BY <1>27, AttemptedCharges DEF Score, Shrinks
<1>28. CASE RunFails
  BY <1>28, AttemptedCharges DEF RunFails, Failed, Shrinks
<1> QED BY <1>1, <1>2, <1>3, <1>4, <1>5, <1>6, <1>7, <1>8, <1>9, <1>10, <1>11, <1>12,
           <1>13, <1>14, <1>15, <1>16, <1>17, <1>18, <1>19, <1>20, <1>21, <1>22,
           <1>23, <1>24, <1>25, <1>26, <1>27, <1>28, <1>29
           DEF BatchStep

\* Nothing else but a new session adds to what is left to do.
LEMMA OthersKeep ==
  ASSUME TypeInv, [Next]_vars, ~Start, ~BatchStep
  PROVE  Shrinks \/ (left' = left /\ Rank' = Rank)
<1> USE DEF Rank, PhaseRank, tally, run
<1>1. CASE Kill
  BY <1>1 DEF Kill, Shrinks, TypeInv, TypeOK, Phases
<1>2. CASE Interrupt
  BY <1>2 DEF Interrupt
<1>3. CASE ServerExits
  BY <1>3 DEF ServerExits
<1>4. CASE \E c \in Configs : ServerUp(c) \/ StartFails(c)
  BY <1>4 DEF ServerUp, StartFails
<1>5. CASE ContainerUp \/ ContainerFails
  BY <1>5 DEF ContainerUp, ContainerFails
<1>6. CASE UNCHANGED vars
  BY <1>6 DEF vars
<1> QED BY <1>1, <1>2, <1>3, <1>4, <1>5, <1>6 DEF Next, ServerStep

\* No session goes in circles, however the server crashes and comes back: each step of
\* the batch takes one of the repeats still to attempt, or takes its run closer to the
\* end by a rank that is never over 20, and nothing but a new session adds to either.
\* With a session's repeats finite its steps are: as long as its calls return, BatchEnds
\* needs no fairness of the server (run_vllm_batch.py:219-275).
THEOREM SessionsShrink ==
  Spec => [][/\ Rank' \in 0 .. 20
             /\ BatchStep => Shrinks
             /\ ~Start => Shrinks \/ (left' = left /\ Rank' = Rank)]_vars
<1>1. TypeInv /\ [Next]_vars =>
        [/\ Rank' \in 0 .. 20
         /\ BatchStep => Shrinks
         /\ ~Start => Shrinks \/ (left' = left /\ Rank' = Rank)]_vars
  <2> SUFFICES ASSUME TypeInv, [Next]_vars
               PROVE  /\ Rank' \in 0 .. 20
                      /\ BatchStep => Shrinks
                      /\ ~Start => Shrinks \/ (left' = left /\ Rank' = Rank)
    OBVIOUS
  <2>1. Rank' \in 0 .. 20
    <3>1. pc' \in Phases
      BY StepTypeInv DEF TypeInv, TypeOK
    <3> QED BY <3>1 DEF Phases, Rank, PhaseRank
  <2>2. ~Start => Shrinks \/ (left' = left /\ Rank' = Rank)
    BY StepShrinks, OthersKeep
  <2> QED BY <2>1, <2>2, StepShrinks
<1> QED BY <1>1, InitTypeInv, StepTypeInv, PTL DEF Spec
=============================================================================
