-------------------------- MODULE BoutiqueRunProofs --------------------------
(***************************************************************************)
(* Proofs about the series of Boutique experiments, for any number of      *)
(* experiments, in any order, with any faults and any targets.             *)
(***************************************************************************)
EXTENDS BoutiqueRun, TLAPS

-----------------------------------------------------------------------------
(* The invariant *)

TypeInv == TypeOK /\ (pc # "cooldown" => run \in Runs)

\* The life of an injector: its return code comes with its end, it begins with its
\* first target, it is started once, and it is reaped unless its run failed.
LifeInv ==
  /\ \A r \in Runs : inj[r].step # "exited" <=> inj[r].rc = "none"
  /\ \A r \in Runs : inj[r].step \in {"none", "label"} => inj[r].k = 1
  /\ \A r \in Runs : r > run \/ (r = run /\ pc = "baseline") => inj[r].step = "none"
  /\ \A e \in scripts : inj[e[1]].step = "join" \/ inj[e[1]].rc \in {"killed", "one"}
  /\ pc = "recovery" => ~Injecting(run)
  /\ \A r \in Runs : (r < run \/ (r = run /\ Over)) /\ Injecting(r) => r \in failed

\* The resource of its j-th target may be there, created by run r.
MayHold(r, j) ==
  \/ At(r, "apply") /\ j < inj[r].k
  \/ At(r, "confirm") /\ j <= inj[r].k
  \/ At(r, "sleep")
  \/ At(r, "delete") /\ (j >= inj[r].k \/ r \in undeleted)
  \/ At(r, "exited") /\ (inj[r].rc = "zero" => r \in undeleted)

ResourceInv ==
  \A key \in Keys : \A r \in Runs : resource[key] = r =>
    \E j \in DOMAIN Series[r].targets :
      key = Key(r, Series[r].targets[j]) /\ MayHold(r, j)

\* Chaos resources and scripts do not mix, scripts that exit with zero ran on every
\* target, and what was confirmed after clean runs was struck.
StruckInv ==
  /\ \A r \in Runs : inj[r].step \in {"apply", "confirm", "sleep", "delete"} => Chaos(r)
  /\ run > 0 /\ ~Chaos(run) /\ inj[run].rc = "zero" => struck = Targets(run)
  /\ run > 0 /\ (\A q \in 1 .. run - 1 : Clean(q)) => confirmed \subseteq struck

MonitorInv ==
  /\ pc \in {"baseline", "collect", "rca", "reap", "recovery"} => mon = "off"
  /\ pc \in {"baseline", "fault", "observe"} => violation # "late"
  /\ trigger = "slo" => violation = "during"
  /\ pc \in {"collect", "rca", "reap", "recovery"} => harvested = violation

\* The actions of an injector with the outcomes of a confirmation, and of a script.
Confirms(r)    == \E took, seen \in BOOLEAN : Confirm(r, took, seen)
ScriptMoves(r) == \E s \in Targets(r) : ExecDropped(r, s) \/ ScriptEnds(r, s)

-----------------------------------------------------------------------------
(* The types *)

\* The runs are numbered from one.
LEMMA RunsAre == Runs = 1 .. Len(Series) /\ Len(Series) \in Nat \ {0} /\ Runs \subseteq Nat
<1>1. Series \in Seq({Series[r] : r \in Runs}) /\ Series # <<>>
  BY SeriesAssumption
<1>2. DOMAIN Series = 1 .. Len(Series) /\ Len(Series) \in Nat /\ Len(Series) # 0
  BY <1>1
<1> QED BY <1>2 DEF Runs

\* Every run has a list of targets, each of which has a key.
LEMMA TargetsAre ==
  ASSUME NEW r \in Runs
  PROVE  /\ DOMAIN Series[r].targets = 1 .. Len(Series[r].targets)
         /\ Len(Series[r].targets) \in Nat \ {0}
         /\ \A j \in DOMAIN Series[r].targets :
              Series[r].targets[j] \in Targets(r) /\ Key(r, Series[r].targets[j]) \in Keys
<1>1. Series[r].targets \in Seq(Targets(r)) /\ Series[r].targets # <<>>
  BY SeriesAssumption
<1>2. /\ DOMAIN Series[r].targets = 1 .. Len(Series[r].targets)
      /\ Len(Series[r].targets) \in Nat /\ Len(Series[r].targets) # 0
  BY <1>1
<1>3. \A j \in DOMAIN Series[r].targets : Series[r].targets[j] \in Targets(r)
  BY DEF Targets
<1>4. \A s \in Targets(r) : Key(r, s) \in Keys
  BY DEF Keys
<1> QED BY <1>2, <1>3, <1>4

\* The injector of run r is now at this step, at its k-th target, with this return
\* code, and the others are where they were.
Moves(r, step, k, rc) ==
  /\ inj' \in [Runs -> Injector]
  /\ inj'[r].step = step /\ inj'[r].k = k /\ inj'[r].rc = rc
  /\ \A q \in Runs : q # r => inj'[q] = inj[q]

LEMMA MovesInType ==
  ASSUME TypeInv, NEW r \in Runs,
         NEW i \in Injector,
         inj' = [inj EXCEPT ![r] = i]
  PROVE  Moves(r, i.step, i.k, i.rc)
<1>1. inj \in [Runs -> Injector]
  BY DEF TypeInv, TypeOK
<1>2. inj' \in [Runs -> Injector] /\ inj'[r] = i /\ \A q \in Runs : q # r => inj'[q] = inj[q]
  BY <1>1
<1> QED BY <1>2 DEF Moves

LEMMA StepMoves ==
  ASSUME TypeInv, NEW r \in Runs,
         NEW step \in {"none", "label", "apply", "confirm", "sleep", "delete",
                       "exec", "join", "exited"},
         inj' = [inj EXCEPT ![r].step = step]
  PROVE  Moves(r, step, inj[r].k, inj[r].rc)
<1> DEFINE i == [inj[r] EXCEPT !.step = step]
<1>1. /\ i \in Injector
      /\ i.step = step /\ i.k = inj[r].k /\ i.rc = inj[r].rc
  BY DEF TypeInv, TypeOK, Injector
<1>2. inj' = [inj EXCEPT ![r] = i]
  BY DEF TypeInv, TypeOK
<1> HIDE DEF i
<1> QED BY <1>1, <1>2, MovesInType

LEMMA ExitsMoves ==
  ASSUME TypeInv, NEW r \in Runs, NEW rc \in {"zero", "one", "killed"}, Exits(r, rc)
  PROVE  Moves(r, "exited", inj[r].k, rc)
<1> DEFINE i == [inj[r] EXCEPT !.step = "exited", !.rc = rc]
<1>1. /\ i \in Injector
      /\ i.step = "exited" /\ i.k = inj[r].k /\ i.rc = rc
  BY DEF TypeInv, TypeOK, Injector
<1>2. inj' = [inj EXCEPT ![r] = i]
  BY DEF TypeInv, TypeOK, Exits
<1> HIDE DEF i
<1> QED BY <1>1, <1>2, MovesInType

LEMMA SleepEndsMoves ==
  ASSUME TypeInv, NEW r \in Runs, SleepEnds(r)
  PROVE  Moves(r, "delete", 1, inj[r].rc)
<1> DEFINE i == [inj[r] EXCEPT !.step = "delete", !.k = 1]
<1>1. /\ i \in Injector
      /\ i.step = "delete" /\ i.k = 1 /\ i.rc = inj[r].rc
  BY DEF TypeInv, TypeOK, Injector
<1>2. inj' = [inj EXCEPT ![r] = i]
  BY DEF TypeInv, TypeOK, SleepEnds
<1> HIDE DEF i
<1> QED BY <1>1, <1>2, MovesInType

LEMMA ConfirmMoves ==
  ASSUME TypeInv, NEW r \in Runs, Confirms(r)
  PROVE  IF inj[r].k < Len(Series[r].targets)
         THEN Moves(r, "apply", inj[r].k + 1, inj[r].rc)
         ELSE Moves(r, "sleep", inj[r].k, inj[r].rc)
<1>1. CASE inj[r].k < Len(Series[r].targets)
  <2> DEFINE n == inj[r].k + 1
             i == [inj[r] EXCEPT !.step = "apply", !.k = n]
  <2>0. inj[r] \in Injector /\ n \in Nat
    BY DEF TypeInv, TypeOK, Injector
  <2>1. /\ i \in Injector
        /\ i.step = "apply" /\ i.k = n /\ i.rc = inj[r].rc
    <3> HIDE DEF n
    <3> QED BY <2>0 DEF Injector
  <2>2. inj' = [inj EXCEPT ![r] = i]
    BY <1>1 DEF TypeInv, TypeOK, Confirms, Confirm
  <2> HIDE DEF i
  <2> QED BY <1>1, <2>1, <2>2, MovesInType
<1>2. CASE ~(inj[r].k < Len(Series[r].targets))
  <2>1. inj' = [inj EXCEPT ![r].step = "sleep"]
    BY <1>2 DEF Confirms, Confirm, TypeInv, TypeOK
  <2> QED BY <1>2, <2>1, StepMoves
<1> QED BY <1>1, <1>2

LEMMA DeleteMoves ==
  ASSUME TypeInv, NEW r \in Runs, Delete(r)
  PROVE  IF inj[r].k < Len(Series[r].targets)
         THEN Moves(r, "delete", inj[r].k + 1, inj[r].rc)
         ELSE Moves(r, "exited", inj[r].k, IF Piped(r) THEN "zero" ELSE "one")
<1>1. CASE inj[r].k < Len(Series[r].targets)
  <2> DEFINE i == [inj[r] EXCEPT !.k = inj[r].k + 1]
  <2>0. inj[r] \in Injector
    BY DEF TypeInv, TypeOK
  <2>1. /\ i \in Injector
        /\ i.step = "delete" /\ i.k = inj[r].k + 1 /\ i.rc = inj[r].rc
    BY <2>0 DEF Injector, Delete, At
  <2>2. inj' = [inj EXCEPT ![r] = i]
    BY <1>1 DEF TypeInv, TypeOK, Delete
  <2> HIDE DEF i
  <2> QED BY <1>1, <2>1, <2>2, MovesInType
<1>2. CASE ~(inj[r].k < Len(Series[r].targets))
  <2>1. Exits(r, IF Piped(r) THEN "zero" ELSE "one")
    BY <1>2 DEF Delete
  <2> QED BY <1>2, <2>1, ExitsMoves
<1> QED BY <1>1, <1>2

LEMMA InitTypeInv == Init => TypeInv
<1> SUFFICES ASSUME Init PROVE TypeInv
  OBVIOUS
<1>1. \A r \in Runs : 1 \in DOMAIN Series[r].targets
  BY TargetsAre
<1>2. resource \in [Keys -> 0 .. Len(Series)] /\ run \in 0 .. Len(Series)
  BY RunsAre DEF Init
<1>3. /\ inj \in [Runs -> Injector]
      /\ \A r \in Runs : inj[r].k = 1
  BY DEF Init, Injector
<1> QED BY <1>1, <1>2, <1>3 DEF Init, TypeInv, TypeOK

\* What each injector action makes of the injector.
LEMMA InjectorMoves ==
  ASSUME TypeInv, NEW r \in Runs
  PROVE  /\ Label(r) => \E st \in {"apply", "exec"} : Moves(r, st, inj[r].k, inj[r].rc)
         /\ Apply(r) => Moves(r, "confirm", inj[r].k, inj[r].rc)
         /\ ApplyFails(r) => Moves(r, "exited", inj[r].k, "one")
         /\ BrokenPipe(r) => Moves(r, "exited", inj[r].k, "one")
         /\ ExecDone(r) => \E rc \in {"zero", "one"} :
                             /\ Moves(r, "exited", inj[r].k, rc)
                             /\ rc = "zero" => /\ struck = Targets(r) /\ Piped(r)
                                             /\ \A s \in Targets(r) : <<r, s>> \notin dropped
         /\ \A ok : ExecScripts(r, ok) => Moves(r, "join", inj[r].k, inj[r].rc)
<1>1. Label(r) => \E st \in {"apply", "exec"} : Moves(r, st, inj[r].k, inj[r].rc)
  <2>1. ASSUME Label(r)
        PROVE  inj' = [inj EXCEPT ![r].step = IF Chaos(r) THEN "apply" ELSE "exec"]
    BY <2>1 DEF Label
  <2> QED BY <2>1, StepMoves
<1>2. Apply(r) => Moves(r, "confirm", inj[r].k, inj[r].rc)
  BY StepMoves DEF Apply
<1>3. ApplyFails(r) \/ BrokenPipe(r) => Moves(r, "exited", inj[r].k, "one")
  BY ExitsMoves DEF ApplyFails, BrokenPipe
<1>4. ASSUME ExecDone(r)
      PROVE  \E rc \in {"zero", "one"} :
               /\ Moves(r, "exited", inj[r].k, rc)
               /\ rc = "zero" => /\ struck = Targets(r) /\ Piped(r)
                               /\ \A s \in Targets(r) : <<r, s>> \notin dropped
  <2>1. PICK rc \in {"zero", "one"} :
          /\ Exits(r, rc)
          /\ rc = "zero" => /\ struck = Targets(r) /\ Piped(r)
                          /\ \A s \in Targets(r) : <<r, s>> \notin dropped
    BY <1>4 DEF ExecDone
  <2> QED BY <2>1, ExitsMoves
<1>5. \A ok : ExecScripts(r, ok) => Moves(r, "join", inj[r].k, inj[r].rc)
  BY StepMoves DEF ExecScripts
<1> QED BY <1>1, <1>2, <1>3, <1>4, <1>5

\* The runner touches an injector twice: it starts it and it kills it.
LEMMA RunnerMoves ==
  ASSUME TypeInv
  PROVE  /\ Inject => Moves(run, "label", inj[run].k, inj[run].rc)
         /\ ReapKill => Moves(run, "exited", inj[run].k, "killed")
<1>1. Inject => Moves(run, "label", inj[run].k, inj[run].rc)
  BY StepMoves DEF Inject, TypeInv
<1>2. ASSUME ReapKill PROVE Moves(run, "exited", inj[run].k, "killed")
  <2>1. run \in Runs /\ Exits(run, "killed")
    BY <1>2 DEF ReapKill, TypeInv, Exits
  <2> QED BY <2>1, ExitsMoves
<1> QED BY <1>1, <1>2

\* What every injector action has in common: it is one of an injector at work, which
\* stays the same run's, and the runner and its monitor do not move.
LEMMA InjectorKeeps ==
  ASSUME TypeInv, InjectorStep
  PROVE  /\ UNCHANGED <<run, pc, failed, trigger, harvested, monitor>>
         /\ undeleted \subseteq undeleted' /\ undeleted' \subseteq Runs
         /\ inj' \in [Runs -> Injector]
         /\ \A q \in Runs :
              /\ inj[q].step \in {"none", "exited"} => inj'[q] = inj[q]
              /\ inj'[q].k \in DOMAIN Series[q].targets
              /\ inj[q].step \notin {"none", "exited"} => inj'[q].step # "none"
<1> USE DEF runner, monitor, cluster, pods, account
<1>0. /\ inj \in [Runs -> Injector] /\ undeleted \subseteq Runs
      /\ \A q \in Runs : inj[q].k \in DOMAIN Series[q].targets
  BY DEF TypeInv, TypeOK
<1>1. PICK r \in Runs :
        \/ Label(r) \/ Apply(r) \/ ApplyFails(r) \/ SleepEnds(r)
        \/ Delete(r) \/ BrokenPipe(r) \/ ExecDone(r) \/ Confirms(r) \/ ScriptMoves(r)
        \/ \E ok \in SUBSET Targets(r) : ExecScripts(r, ok)
  BY DEF InjectorStep, Confirms, ScriptMoves
<1>2. /\ UNCHANGED <<run, pc, failed, trigger, harvested, monitor>>
      /\ undeleted \subseteq undeleted' /\ undeleted' \subseteq Runs
  BY <1>0, <1>1 DEF Label, Apply, ApplyFails, Confirms, Confirm, SleepEnds, Delete, BrokenPipe, ExecDone,
     ExecScripts, ScriptMoves, ExecDropped, ScriptEnds
<1>3. \/ inj' = inj
      \/ /\ inj[r].step \notin {"none", "exited"}
         /\ \E st, k, rc : /\ Moves(r, st, k, rc) /\ st # "none"
                           /\ k \in DOMAIN Series[r].targets
  <2>0. /\ 1 \in DOMAIN Series[r].targets
        /\ inj[r].k \in Nat /\ (inj[r].k < Len(Series[r].targets) =>
                                   inj[r].k + 1 \in DOMAIN Series[r].targets)
    BY <1>0, TargetsAre
  <2>1. CASE Label(r) \/ Apply(r) \/ ApplyFails(r) \/ BrokenPipe(r) \/ ExecDone(r)
               \/ \E ok \in SUBSET Targets(r) : ExecScripts(r, ok)
    <3>1. inj[r].step \notin {"none", "exited"}
      BY <2>1 DEF Label, Apply, ApplyFails, BrokenPipe, ExecDone, ExecScripts, At
    <3>2. \E st, rc : Moves(r, st, inj[r].k, rc) /\ st # "none"
      <4>1. CASE Label(r)
        BY <4>1, InjectorMoves
      <4>2. CASE Apply(r)
        BY <4>2, InjectorMoves
      <4>3. CASE ApplyFails(r) \/ BrokenPipe(r) \/ ExecDone(r)
        BY <4>3, InjectorMoves
      <4>4. CASE \E ok \in SUBSET Targets(r) : ExecScripts(r, ok)
        BY <4>4, InjectorMoves
      <4> QED BY <2>1, <4>1, <4>2, <4>3, <4>4
    <3> QED BY <1>0, <3>1, <3>2
  <2>2. CASE Confirms(r)
    <3>1. inj[r].step \notin {"none", "exited"}
      BY <2>2 DEF Confirms, Confirm, At
    <3> QED BY <1>0, <2>0, <2>2, <3>1, ConfirmMoves
  <2>3. CASE SleepEnds(r)
    <3>1. inj[r].step \notin {"none", "exited"}
      BY <2>3 DEF SleepEnds, At
    <3> QED BY <2>0, <2>3, <3>1, SleepEndsMoves
  <2>4. CASE Delete(r)
    <3>1. inj[r].step \notin {"none", "exited"}
      BY <2>4 DEF Delete, At
    <3> QED BY <1>0, <2>0, <2>4, <3>1, DeleteMoves
  <2>5. CASE ScriptMoves(r)
    BY <2>5 DEF ScriptMoves, ExecDropped, ScriptEnds
  <2> QED BY <1>1, <2>1, <2>2, <2>3, <2>4, <2>5
<1> QED BY <1>0, <1>2, <1>3 DEF Moves

LEMMA RunnerTypeInv == TypeInv /\ RunnerStep => TypeInv'
<1> SUFFICES ASSUME TypeInv, RunnerStep PROVE TypeInv'
  OBVIOUS
<1> USE RunsAre DEF runner, monitor, cluster, pods, account, Goto
<1>1. /\ inj' \in [Runs -> Injector]
      /\ \A q \in Runs : inj'[q].k \in DOMAIN Series[q].targets
      /\ UNCHANGED <<pods, resource, undeleted>>
  <2>1. CASE Inject
    <3>1. UNCHANGED <<pods, resource, undeleted>>
      BY <2>1 DEF Inject
    <3> QED BY <2>1, <3>1, RunnerMoves DEF Moves, TypeInv, TypeOK
  <2>2. CASE ReapKill
    <3>1. UNCHANGED <<pods, resource, undeleted>>
      BY <2>2 DEF ReapKill
    <3> QED BY <2>2, <3>1, RunnerMoves DEF Moves, TypeInv, TypeOK
  <2>3. CASE ~Inject /\ ~ReapKill
    <3>1. UNCHANGED <<inj, pods, resource, undeleted>>
      BY <2>3 DEF RunnerStep, StartRun, Summary, NoBaseline, Abort, FaultEnds, WaitFires,
         Observed, WaitExpires, Harvest, Collect, Rca, RcaFails, Reap, Save
    <3> QED BY <3>1 DEF TypeInv, TypeOK
  <2> QED BY <2>1, <2>2, <2>3
<1>2. /\ files' \subseteq Files
      /\ struck' \cup confirmed' \subseteq (IF run' = 0 THEN {} ELSE Targets(run'))
  <2>1. CASE StartRun
    BY <2>1 DEF StartRun
  <2>2. CASE Collect \/ Rca \/ RcaFails \/ Save
    <3>1. UNCHANGED <<run, struck, confirmed>>
      BY <2>2 DEF Collect, Rca, RcaFails, Save
    <3>2. files' \subseteq Files
      BY <2>2 DEF Collect, Rca, RcaFails, Save, Files, TypeInv, TypeOK
    <3> QED BY <3>1, <3>2 DEF TypeInv, TypeOK
  <2>3. CASE ~StartRun /\ ~(Collect \/ Rca \/ RcaFails \/ Save)
    <3>1. UNCHANGED <<run, files, struck, confirmed>>
      BY <2>3 DEF RunnerStep, Summary, NoBaseline, Abort, Inject, FaultEnds,
         WaitFires, Observed, WaitExpires, Harvest, Reap, ReapKill
    <3> QED BY <3>1 DEF TypeInv, TypeOK
  <2> QED BY <2>1, <2>2, <2>3
<1>3. /\ run' \in 0 .. Len(Series) /\ (pc' # "cooldown" => run' \in Runs)
      /\ failed' \subseteq Runs
      /\ pc' \in {"cooldown", "baseline", "fault", "observe", "harvest", "collect",
                  "rca", "reap", "recovery", "finished"}
      /\ trigger' \in {"none", "slo", "duration"}
      /\ mon' \in {"off", "waiting", "polling"}
      /\ {violation', harvested'} \subseteq {"none", "during", "late"}
  <2> USE DEF TypeInv, TypeOK
  <2>0. run < Len(Series) => run + 1 \in Runs /\ run + 1 \in 0 .. Len(Series)
    OBVIOUS
  <2>1. CASE StartRun
    BY <2>0, <2>1 DEF StartRun
  <2>4. CASE Summary
    BY <2>4 DEF Summary
  <2>2. CASE NoBaseline \/ Inject \/ FaultEnds \/ WaitFires \/ Observed \/ WaitExpires \/ Harvest
    BY <2>2 DEF NoBaseline, Abort, Inject, FaultEnds, WaitFires, Observed, WaitExpires, Harvest
  <2>3. CASE Collect \/ Rca \/ RcaFails \/ Reap \/ ReapKill \/ Save
    BY <2>3 DEF Collect, Rca, RcaFails, Reap, ReapKill, Save
  <2> QED BY <2>1, <2>2, <2>3, <2>4 DEF RunnerStep
<1> QED BY <1>1, <1>2, <1>3 DEF TypeInv, TypeOK

LEMMA InjectorTypeInv == TypeInv /\ InjectorStep => TypeInv'
<1> SUFFICES ASSUME TypeInv, InjectorStep PROVE TypeInv'
  OBVIOUS
<1> USE DEF runner, monitor, cluster, pods, account
<1>1. PICK r \in Runs :
        \/ Label(r) \/ Apply(r) \/ ApplyFails(r) \/ SleepEnds(r)
        \/ Delete(r) \/ BrokenPipe(r) \/ ExecDone(r) \/ Confirms(r) \/ ScriptMoves(r)
        \/ \E ok \in SUBSET Targets(r) : ExecScripts(r, ok)
  BY DEF InjectorStep, Confirms, ScriptMoves
<1>2. files' \subseteq Files
  <2>1. files' = files \/ files' = files \cup {"ground_truth"}
    BY <1>1 DEF Label, Apply, ApplyFails, Confirms, Confirm, SleepEnds, Delete, BrokenPipe,
       ExecDone, ExecScripts, ScriptMoves, ExecDropped, ScriptEnds
  <2> QED BY <2>1 DEF TypeInv, TypeOK, Files
<1>3. struck' \cup confirmed' \subseteq (IF run' = 0 THEN {} ELSE Targets(run'))
  <2>0. run' = run
    BY InjectorKeeps
  <2>1. \/ UNCHANGED <<struck, confirmed>>
        \/ /\ r = run
           /\ \E X, Y \in SUBSET Targets(r) :
                struck' = struck \cup X /\ confirmed' = confirmed \cup Y
    <3>1. CASE Confirms(r)
      <4>1. Service(r) \in Targets(r) /\ r = run
        BY <3>1, TargetsAre DEF Service, TypeInv, TypeOK, Confirms, Confirm, Piped
      <4>2. PICK took, seen \in BOOLEAN : Confirm(r, took, seen)
        BY <3>1 DEF Confirms
      <4>3. /\ struck' = struck \cup {s \in {Service(r)} : took}
            /\ confirmed' = confirmed \cup {s \in {Service(r)} : seen}
        BY <4>2 DEF Confirm
      <4> QED BY <4>1, <4>3
    <3>2. CASE \E ok \in SUBSET Targets(r) : ExecScripts(r, ok)
      <4>1. PICK ok \in SUBSET Targets(r) : ExecScripts(r, ok)
        BY <3>2
      <4>2. /\ ok = {} \/ r = run
            /\ struck' = struck \cup ok /\ confirmed' = confirmed
        BY <4>1 DEF ExecScripts, Piped
      <4>3. confirmed' = confirmed \cup {}
        BY <4>2
      <4>4. CASE ok = {}
        BY <4>2, <4>4
      <4> QED BY <4>2, <4>3, <4>4
    <3>3. CASE ~Confirms(r) /\ ~\E ok \in SUBSET Targets(r) : ExecScripts(r, ok)
      BY <1>1, <3>3 DEF Label, Apply, ApplyFails, SleepEnds, Delete, BrokenPipe, ExecDone,
         ScriptMoves, ExecDropped, ScriptEnds
    <3> QED BY <3>1, <3>2, <3>3
  <2>2. r = run => run # 0
    BY RunsAre
  <2> QED BY <2>0, <2>1, <2>2 DEF TypeInv, TypeOK
<1>4. \A e \in scripts' \cup dropped' : \E q \in Runs : \E s \in Targets(q) : e = <<q, s>>
  <2>0. \A e \in scripts \cup dropped : \E q \in Runs : \E s \in Targets(q) : e = <<q, s>>
    BY DEF TypeInv, TypeOK
  <2>1. CASE \E ok \in SUBSET Targets(r) : ExecScripts(r, ok)
    BY <2>0, <2>1 DEF ExecScripts
  <2>2. CASE ScriptMoves(r)
    BY <2>0, <2>2 DEF ScriptMoves, ExecDropped, ScriptEnds
  <2>3. CASE ~ScriptMoves(r) /\ ~\E ok \in SUBSET Targets(r) : ExecScripts(r, ok)
    <3>1. UNCHANGED pods
      BY <1>1, <2>3 DEF Label, Apply, ApplyFails, Confirms, Confirm, SleepEnds, Delete,
         BrokenPipe, ExecDone
    <3> QED BY <2>0, <3>1
  <2> QED BY <2>1, <2>2, <2>3
<1>5. resource' \in [Keys -> 0 .. Len(Series)]
  <2>1. \/ resource' = resource
        \/ \E q \in {0, r} : resource' = [resource EXCEPT ![Key(r, Service(r))] = q]
    BY <1>1 DEF Label, Apply, ApplyFails, Confirms, Confirm, SleepEnds, Delete, BrokenPipe,
       ExecDone, ExecScripts, ScriptMoves, ExecDropped, ScriptEnds
  <2>2. {0, r} \subseteq 0 .. Len(Series)
    BY RunsAre
  <2> QED BY <2>1, <2>2 DEF TypeInv, TypeOK
<1>6. /\ UNCHANGED <<run, pc, failed, trigger, harvested, monitor>>
      /\ undeleted' \subseteq Runs /\ inj' \in [Runs -> Injector]
      /\ \A q \in Runs : inj'[q].k \in DOMAIN Series[q].targets
  BY InjectorKeeps
<1> QED BY <1>2, <1>3, <1>4, <1>5, <1>6 DEF TypeInv, TypeOK

LEMMA StepTypeInv == TypeInv /\ [Next]_vars => TypeInv'
<1> SUFFICES ASSUME TypeInv, [Next]_vars PROVE TypeInv'
  OBVIOUS
<1>1. CASE MonitorStep
  BY <1>1 DEF MonitorStep, Poll, NoViolation, Violation, MonitorStops, runner, cluster,
     pods, account, TypeInv, TypeOK
<1>2. CASE UNCHANGED vars
  BY <1>2 DEF vars, TypeInv, TypeOK
<1> QED BY <1>1, <1>2, RunnerTypeInv, InjectorTypeInv DEF Next

\* Whoever hangs, dies or outlives whom, the state keeps its types, and injectors and
\* scripts work on targets of their own run.
THEOREM TypeCorrect == Spec => []TypeOK
<1>1. TypeInv => TypeOK
  BY DEF TypeInv
<1> QED BY <1>1, InitTypeInv, StepTypeInv, PTL DEF Spec

-----------------------------------------------------------------------------
(* The monitor *)

LEMMA StepMonitor == TypeInv /\ MonitorInv /\ [Next]_vars => MonitorInv'
<1> SUFFICES ASSUME TypeInv, MonitorInv, [Next]_vars PROVE MonitorInv'
  OBVIOUS
<1> USE DEF MonitorInv, runner, monitor, cluster, pods, account, Goto
<1>1. CASE StartRun \/ Summary \/ NoBaseline \/ Inject \/ FaultEnds
  BY <1>1 DEF StartRun, Summary, NoBaseline, Abort, Inject, FaultEnds
<1>2. CASE WaitFires \/ Observed \/ WaitExpires \/ Harvest
  BY <1>2 DEF WaitFires, Observed, WaitExpires, Harvest, TypeInv, TypeOK
<1>3. CASE Collect \/ Rca \/ RcaFails \/ Reap \/ ReapKill \/ Save
  BY <1>3 DEF Collect, Rca, RcaFails, Reap, ReapKill, Save
<1>4. CASE MonitorStep
  BY <1>4 DEF MonitorStep, Poll, NoViolation, Violation, MonitorStops
<1>5. CASE InjectorStep
  BY <1>5, InjectorKeeps
<1>6. CASE UNCHANGED vars
  BY <1>6 DEF vars
<1> QED BY <1>1, <1>2, <1>3, <1>4, <1>5, <1>6 DEF Next, RunnerStep

LEMMA MonitorInductive == Spec => [](TypeInv /\ MonitorInv)
<1>1. Init => TypeInv /\ MonitorInv
  BY InitTypeInv DEF Init, MonitorInv
<1>2. TypeInv /\ MonitorInv /\ [Next]_vars => (TypeInv /\ MonitorInv)'
  BY StepTypeInv, StepMonitor
<1> QED BY <1>1, <1>2, PTL DEF Spec

\* A run said to be triggered by the SLO has a violation from within its window, and
\* what it recorded is what its monitor saw in the end.
THEOREM TriggersAreTrue == Spec => []TriggerTruth
<1>1. MonitorInv => TriggerTruth
  BY DEF MonitorInv, TriggerTruth
<1> QED BY <1>1, MonitorInductive, PTL

-----------------------------------------------------------------------------
(* The injectors *)

\* At the end of a run its injector has ended, or the run has failed; and an injector
\* that ends by itself leaves no script.
LEMMA LifeRunner == TypeInv /\ LifeInv /\ RunnerStep => LifeInv'
<1> SUFFICES ASSUME TypeInv, LifeInv, RunnerStep PROVE LifeInv'
  OBVIOUS
<1> USE RunsAre DEF LifeInv, runner, monitor, cluster, pods, account, Goto, Over
<1>0. run \in Nat /\ (pc # "cooldown" => run \in Runs) /\ Runs \subseteq Nat
  BY DEF TypeInv, TypeOK
<1>1. CASE StartRun
  BY <1>0, <1>1 DEF StartRun, Injecting
<1>2. CASE Summary
  BY <1>0, <1>2 DEF Summary, Injecting
<1>3. CASE NoBaseline
  <2>1. inj[run].step = "none" /\ UNCHANGED <<run, inj, scripts>> /\ pc' = "cooldown"
        /\ failed \subseteq failed'
    BY <1>0, <1>3 DEF NoBaseline, Abort
  <2> QED BY <1>0, <2>1 DEF Injecting
<1>4. CASE Inject
  <2>1. Moves(run, "label", inj[run].k, inj[run].rc) /\ run \in Runs
    BY <1>0, <1>4, RunnerMoves DEF Inject
  <2>2. UNCHANGED <<run, scripts, failed>> /\ pc' = "fault" /\ inj[run].step = "none"
    BY <1>0, <1>4 DEF Inject
  <2>3. \A e \in scripts : e[1] \in Runs /\ e[1] # run
    <3>1. \A e \in scripts : e[1] \in Runs
      BY DEF TypeInv, TypeOK
    <3> QED BY <2>1, <2>2, <3>1
  <2>4. \A r \in Runs : /\ inj'[r].step # "exited" <=> inj'[r].rc = "none"
                        /\ inj'[r].step \in {"none", "label"} => inj'[r].k = 1
    BY <2>1, <2>2 DEF Moves
  <2>5. \A r \in Runs : r > run => inj'[r].step = "none"
    BY <1>0, <2>1 DEF Moves
  <2>6. \A e \in scripts' : inj'[e[1]].step = "join" \/ inj'[e[1]].rc \in {"killed", "one"}
    BY <2>1, <2>2, <2>3 DEF Moves
  <2>7. \A r \in Runs : r < run /\ Injecting(r)' => r \in failed
    BY <1>0, <2>1 DEF Moves, Injecting
  <2> QED BY <2>2, <2>4, <2>5, <2>6, <2>7
<1>5. CASE ReapKill
  <2>1. Moves(run, "exited", inj[run].k, "killed") /\ run \in Runs
    BY <1>0, <1>5, RunnerMoves DEF ReapKill
  <2>2. UNCHANGED <<run, scripts, failed>> /\ pc' = "recovery"
    BY <1>5 DEF ReapKill
  <2>3. \A e \in scripts : e[1] \in Runs
    BY DEF TypeInv, TypeOK
  <2>4. \A r \in Runs : /\ inj'[r].step # "exited" <=> inj'[r].rc = "none"
                        /\ inj'[r].step \in {"none", "label"} => inj'[r].k = 1
    BY <2>1, <2>2 DEF Moves
  <2>5. \A r \in Runs : r > run => inj'[r].step = "none"
    BY <1>0, <2>1 DEF Moves
  <2>6. \A e \in scripts' : inj'[e[1]].step = "join" \/ inj'[e[1]].rc \in {"killed", "one"}
    BY <2>1, <2>2, <2>3 DEF Moves
  <2>7. \A r \in Runs : r < run /\ Injecting(r)' => r \in failed
    BY <1>0, <2>1 DEF Moves, Injecting
  <2>8. ~Injecting(run)'
    BY <2>1, <2>2 DEF Moves, Injecting
  <2> QED BY <2>2, <2>4, <2>5, <2>6, <2>7, <2>8
<1>6. CASE Reap
  BY <1>0, <1>6 DEF Reap, Injecting
<1>7. CASE Save
  BY <1>0, <1>7 DEF Save, Injecting
<1>8. CASE RcaFails
  BY <1>0, <1>8 DEF RcaFails, Injecting
<1>9. CASE FaultEnds \/ WaitFires \/ Observed \/ WaitExpires \/ Harvest \/ Collect \/ Rca
  BY <1>0, <1>9 DEF FaultEnds, WaitFires, Observed, WaitExpires, Harvest, Collect, Rca, Injecting
<1> QED BY <1>1, <1>2, <1>3, <1>4, <1>5, <1>6, <1>7, <1>8, <1>9 DEF RunnerStep

LEMMA LifeInjector == TypeInv /\ LifeInv /\ InjectorStep => LifeInv'
<1> SUFFICES ASSUME TypeInv, LifeInv, InjectorStep PROVE LifeInv'
  OBVIOUS
<1> USE RunsAre DEF LifeInv, runner, monitor, cluster, pods, account
<1>0. /\ UNCHANGED <<run, pc, failed>>
      /\ \A q \in Runs : inj[q].step \in {"none", "exited"} => inj'[q] = inj[q]
  BY InjectorKeeps
<1>1. PICK r \in Runs :
        \/ Label(r) \/ Apply(r) \/ ApplyFails(r) \/ SleepEnds(r)
        \/ Delete(r) \/ BrokenPipe(r) \/ ExecDone(r) \/ Confirms(r) \/ ScriptMoves(r)
        \/ \E ok \in SUBSET Targets(r) : ExecScripts(r, ok)
  BY DEF InjectorStep, Confirms, ScriptMoves
<1>2. \A e \in scripts : e[1] \in Runs
  BY DEF TypeInv, TypeOK
<1>3. /\ \A q \in Runs : inj'[q].step # "exited" <=> inj'[q].rc = "none"
      /\ \A q \in Runs : inj'[q].step \in {"none", "label"} => inj'[q].k = 1
      /\ \A e \in scripts' : inj'[e[1]].step = "join" \/ inj'[e[1]].rc \in {"killed", "one"}
  <2>1. CASE Label(r)
    <3>1. At(r, "label") /\ scripts' = scripts
      BY <2>1 DEF Label
    <3> QED BY <1>2, <2>1, <3>1, InjectorMoves DEF Moves, At
  <2>2. CASE Apply(r)
    <3>1. At(r, "apply") /\ scripts' = scripts
      BY <2>2 DEF Apply
    <3> QED BY <1>2, <2>2, <3>1, InjectorMoves DEF Moves, At
  <2>3. CASE ApplyFails(r) \/ BrokenPipe(r)
    <3>1. inj[r].step \notin {"join", "exited"} /\ scripts' = scripts
      BY <2>3 DEF ApplyFails, BrokenPipe, At
    <3> QED BY <1>2, <2>3, <3>1, InjectorMoves DEF Moves
  <2>4. CASE Confirms(r)
    <3>1. At(r, "confirm") /\ scripts' = scripts
      BY <2>4 DEF Confirms, Confirm
    <3> QED BY <1>2, <2>4, <3>1, ConfirmMoves DEF Moves, At
  <2>5. CASE SleepEnds(r)
    <3>1. At(r, "sleep") /\ scripts' = scripts
      BY <2>5 DEF SleepEnds
    <3> QED BY <1>2, <2>5, <3>1, SleepEndsMoves DEF Moves, At
  <2>6. CASE Delete(r)
    <3>1. At(r, "delete") /\ scripts' = scripts
      BY <2>6 DEF Delete
    <3> QED BY <1>2, <2>6, <3>1, DeleteMoves DEF Moves, At
  <2>7. CASE ExecDone(r)
    <3>1. /\ At(r, "join") /\ scripts' = scripts
          /\ \A s \in Targets(r) : <<r, s>> \notin scripts \ dropped
      BY <2>7 DEF ExecDone
    <3>2. PICK rc \in {"zero", "one"} :
            /\ Moves(r, "exited", inj[r].k, rc)
            /\ rc = "zero" => \A s \in Targets(r) : <<r, s>> \notin dropped
      BY <2>7, InjectorMoves
    <3>3. rc = "zero" => \A e \in scripts : e[1] # r
      BY <3>1, <3>2 DEF TypeInv, TypeOK
    <3> QED BY <1>2, <3>1, <3>2, <3>3 DEF Moves
  <2>8. CASE \E ok \in SUBSET Targets(r) : ExecScripts(r, ok)
    <3>1. PICK ok \in SUBSET Targets(r) : ExecScripts(r, ok)
      BY <2>8
    <3>2. At(r, "exec") /\ scripts' = scripts \cup {<<r, s>> : s \in ok}
      BY <3>1 DEF ExecScripts
    <3>3. Moves(r, "join", inj[r].k, inj[r].rc)
      BY <3>1, InjectorMoves
    <3> QED BY <1>2, <3>2, <3>3 DEF Moves, At
  <2>9. CASE ScriptMoves(r)
    <3>1. scripts' \subseteq scripts /\ inj' = inj
      BY <2>9 DEF ScriptMoves, ExecDropped, ScriptEnds
    <3> QED BY <1>2, <3>1
  <2> QED BY <1>1, <2>1, <2>2, <2>3, <2>4, <2>5, <2>6, <2>7, <2>8, <2>9
<1>4. \A q \in Runs : Injecting(q)' => Injecting(q)
  BY <1>0 DEF Injecting
<1>5. \A q \in Runs : q > run \/ (q = run /\ pc = "baseline") => inj'[q].step = "none"
  BY <1>0
<1>6. pc = "recovery" => ~Injecting(run)'
  <2>1. ASSUME pc = "recovery" PROVE run \in Runs
    BY <2>1 DEF TypeInv
  <2>2. run' = run
    BY <1>0
  <2> QED BY <1>4, <2>1, <2>2 DEF Injecting
<1>7. \A q \in Runs : (q < run \/ (q = run /\ Over)) /\ Injecting(q)' => q \in failed
  BY <1>4
<1>8. run' = run /\ pc' = pc /\ failed' = failed
  BY <1>0
<1> QED BY <1>3, <1>5, <1>6, <1>7, <1>8 DEF Over

LEMMA LifeInductive ==
  /\ Init => LifeInv
  /\ TypeInv /\ LifeInv /\ [Next]_vars => LifeInv'
<1>1. ASSUME Init PROVE LifeInv
  <2>1. /\ \A r \in Runs : inj[r].step = "none" /\ inj[r].rc = "none" /\ inj[r].k = 1
        /\ scripts = {} /\ pc = "cooldown"
    BY <1>1 DEF Init
  <2> QED BY <2>1 DEF LifeInv, Injecting
<1>2. ASSUME TypeInv, LifeInv, [Next]_vars PROVE LifeInv'
  <2>1. CASE MonitorStep \/ UNCHANGED vars
    <3>1. UNCHANGED <<run, pc, failed, inj, scripts>>
      BY <2>1 DEF MonitorStep, Poll, NoViolation, Violation, MonitorStops, runner, cluster, pods,
         account, vars
    <3> QED BY <1>2, <3>1 DEF LifeInv, Injecting, Over
  <2> QED BY <1>2, <2>1, LifeRunner, LifeInjector DEF Next
<1> QED BY <1>1, <1>2

-----------------------------------------------------------------------------
(* The cluster *)

\* A resource is created and deleted for its target; what its injector passed by stays.
LEMMA StepResource == TypeInv /\ LifeInv /\ ResourceInv /\ [Next]_vars => ResourceInv'
<1> SUFFICES ASSUME TypeInv, LifeInv, ResourceInv, [Next]_vars,
                    NEW key \in Keys, NEW owner \in Runs, resource'[key] = owner
             PROVE  \E j \in DOMAIN Series[owner].targets :
                      key = Key(owner, Series[owner].targets[j]) /\ MayHold(owner, j)'
  BY DEF ResourceInv
<1> USE DEF runner, monitor, cluster, pods, account
<1>0. /\ \A q \in Runs : inj[q] \in Injector /\ inj[q].k \in Nat
      /\ undeleted \subseteq Runs /\ resource \in [Keys -> 0 .. Len(Series)]
  BY DEF TypeInv, TypeOK, Injector
<1>1. ASSUME resource[key] = owner, \A j \in DOMAIN Series[owner].targets :
               key = Key(owner, Series[owner].targets[j]) /\ MayHold(owner, j)
                 => MayHold(owner, j)'
      PROVE  \E j \in DOMAIN Series[owner].targets :
               key = Key(owner, Series[owner].targets[j]) /\ MayHold(owner, j)'
  BY <1>1 DEF ResourceInv
<1>3. CASE RunnerStep
  <2>1. UNCHANGED <<resource, undeleted>>
    BY <1>3 DEF RunnerStep, StartRun, Summary, NoBaseline, Abort, Inject, FaultEnds, WaitFires,
       Observed, WaitExpires, Harvest, Collect, Rca, RcaFails, Reap, ReapKill, Save
  <2>3. ASSUME NEW j \in DOMAIN Series[owner].targets, MayHold(owner, j)
        PROVE  MayHold(owner, j)'
    <3>1. CASE Inject
      <4>1. Moves(run, "label", inj[run].k, inj[run].rc) /\ inj[run].step = "none"
        BY <3>1, RunnerMoves DEF Inject, LifeInv, TypeInv
      <4>2. owner # run
        BY <2>3, <4>1 DEF MayHold, At
      <4>3. inj'[owner] = inj[owner]
        BY <4>1, <4>2 DEF Moves
      <4> QED BY <2>1, <2>3, <4>3 DEF MayHold, At
    <3>2. CASE ReapKill
      <4>1. Moves(run, "exited", inj[run].k, "killed")
        BY <3>2, RunnerMoves
      <4>2. CASE owner = run
        BY <4>1, <4>2 DEF MayHold, At, Moves
      <4>3. CASE owner # run
        <5>1. inj'[owner] = inj[owner]
          BY <4>1, <4>3 DEF Moves
        <5> QED BY <2>1, <2>3, <5>1 DEF MayHold, At
      <4> QED BY <4>2, <4>3
    <3>3. CASE ~Inject /\ ~ReapKill
      <4>1. inj' = inj
        BY <1>3, <3>3 DEF RunnerStep, StartRun, Summary, NoBaseline, Abort, FaultEnds, WaitFires,
           Observed, WaitExpires, Harvest, Collect, Rca, RcaFails, Reap, Save
      <4> QED BY <2>1, <2>3, <4>1 DEF MayHold, At
    <3> QED BY <3>1, <3>2, <3>3
  <2> QED BY <1>1, <2>1, <2>3
<1>4. CASE MonitorStep \/ UNCHANGED vars
  <2>1. UNCHANGED <<resource, undeleted, inj>>
    BY <1>4 DEF MonitorStep, Poll, NoViolation, Violation, MonitorStops, vars
  <2>2. \A j \in DOMAIN Series[owner].targets : MayHold(owner, j) => MayHold(owner, j)'
    BY <2>1 DEF MayHold, At
  <2> QED BY <1>1, <2>1, <2>2
<1>5. ASSUME NEW r \in Runs,
             \/ Label(r) \/ Apply(r) \/ ApplyFails(r) \/ SleepEnds(r)
             \/ Delete(r) \/ BrokenPipe(r) \/ ExecDone(r) \/ Confirms(r) \/ ScriptMoves(r)
             \/ \E ok \in SUBSET Targets(r) : ExecScripts(r, ok)
      PROVE  \E j \in DOMAIN Series[owner].targets :
               key = Key(owner, Series[owner].targets[j]) /\ MayHold(owner, j)'
  <2>0. undeleted \subseteq undeleted' /\ InjectorStep
    <3>1. InjectorStep
      BY <1>5 DEF InjectorStep, Confirms, ScriptMoves
    <3> QED BY <3>1, InjectorKeeps
  <2>. USE DEF At
  \* The others' injectors are where they were.
  <2>1. ASSUME resource[key] = owner, owner # r, inj'[owner] = inj[owner]
        PROVE  \E j \in DOMAIN Series[owner].targets :
                 key = Key(owner, Series[owner].targets[j]) /\ MayHold(owner, j)'
    <3>1. \A j \in DOMAIN Series[owner].targets : MayHold(owner, j) => MayHold(owner, j)'
      BY <2>0, <2>1 DEF MayHold
    <3> QED BY <1>1, <2>1, <3>1
  <2>2. ASSUME NEW st, NEW k, NEW rc, Moves(r, st, k, rc), resource' = resource,
               owner = r => \A j \in DOMAIN Series[r].targets : MayHold(r, j) => MayHold(r, j)'
        PROVE  \E j \in DOMAIN Series[owner].targets :
                 key = Key(owner, Series[owner].targets[j]) /\ MayHold(owner, j)'
    <3>1. CASE owner = r
      BY <1>1, <2>2, <3>1
    <3>2. CASE owner # r
      <4>1. inj'[owner] = inj[owner]
        BY <2>2, <3>2 DEF Moves
      <4> QED BY <2>1, <2>2, <3>2, <4>1
    <3> QED BY <3>1, <3>2
  <2>3. CASE Label(r)
    <3>1. resource' = resource /\ \A j : ~MayHold(r, j)
      BY <2>3 DEF Label, MayHold
    <3> QED BY <2>2, <2>3, <3>1, InjectorMoves
  <2>4. CASE ApplyFails(r) \/ BrokenPipe(r)
    <3>1. resource' = resource /\ Moves(r, "exited", inj[r].k, "one")
      BY <2>4, InjectorMoves DEF ApplyFails, BrokenPipe
    <3>2. \A j : MayHold(r, j)'
      BY <3>1 DEF MayHold, Moves
    <3> QED BY <2>2, <3>1, <3>2
  <2>5. CASE ExecDone(r)
    <3>1. resource' = resource /\ \A j : ~MayHold(r, j)
      BY <2>5 DEF ExecDone, MayHold
    <3> QED BY <2>2, <2>5, <3>1, InjectorMoves
  <2>6. CASE \E ok \in SUBSET Targets(r) : ExecScripts(r, ok)
    <3>1. resource' = resource /\ \A j : ~MayHold(r, j)
      BY <2>6 DEF ExecScripts, MayHold
    <3> QED BY <2>2, <2>6, <3>1, InjectorMoves
  <2>7. CASE ScriptMoves(r)
    <3>1. UNCHANGED <<resource, inj, undeleted>>
      BY <2>7 DEF ScriptMoves, ExecDropped, ScriptEnds
    <3>2. \A j \in DOMAIN Series[owner].targets : MayHold(owner, j) => MayHold(owner, j)'
      BY <3>1 DEF MayHold
    <3> QED BY <1>1, <3>1, <3>2
  <2>8. CASE Confirms(r)
    <3>1. resource' = resource /\ inj[r].step = "confirm"
      BY <2>8 DEF Confirms, Confirm
    <3>2. CASE inj[r].k < Len(Series[r].targets)
      <4>1. Moves(r, "apply", inj[r].k + 1, inj[r].rc)
        BY <2>8, <3>2, ConfirmMoves
      <4>2. \A j \in DOMAIN Series[r].targets : MayHold(r, j) => MayHold(r, j)'
        BY <1>0, <3>1, <4>1, TargetsAre DEF MayHold, Moves
      <4> QED BY <2>2, <3>1, <4>1, <4>2
    <3>3. CASE ~(inj[r].k < Len(Series[r].targets))
      <4>1. Moves(r, "sleep", inj[r].k, inj[r].rc)
        BY <2>8, <3>3, ConfirmMoves
      <4>2. \A j \in DOMAIN Series[r].targets : MayHold(r, j)'
        BY <4>1 DEF MayHold, Moves
      <4> QED BY <2>2, <3>1, <4>1, <4>2
    <3> QED BY <3>2, <3>3
  <2>9. CASE SleepEnds(r)
    <3>1. resource' = resource /\ Moves(r, "delete", 1, inj[r].rc)
      BY <2>9, SleepEndsMoves DEF SleepEnds
    <3>2. \A j \in DOMAIN Series[r].targets : MayHold(r, j)'
      BY <3>1, TargetsAre DEF MayHold, Moves
    <3> QED BY <2>2, <3>1, <3>2
  <2>10. CASE Apply(r)
    <3>1. /\ inj[r].step = "apply"
          /\ \/ resource' = resource
             \/ resource' = [resource EXCEPT ![Key(r, Service(r))] = r]
      BY <2>10 DEF Apply
    <3>2. Moves(r, "confirm", inj[r].k, inj[r].rc)
      BY <2>10, InjectorMoves
    <3>3. \A j \in DOMAIN Series[r].targets : MayHold(r, j) => MayHold(r, j)'
      BY <1>0, <3>1, <3>2, TargetsAre DEF MayHold, Moves
    <3>4. CASE resource[key] = owner
      <4>1. CASE owner = r
        BY <1>1, <3>3, <3>4, <4>1
      <4>2. CASE owner # r
        BY <2>1, <3>2, <3>4, <4>2 DEF Moves
      <4> QED BY <4>1, <4>2
    <3>5. CASE resource[key] # owner
      <4>1. owner = r /\ key = Key(r, Service(r))
        BY <1>0, <3>1, <3>5
      <4>2. PICK k \in DOMAIN Series[r].targets : k = inj[r].k /\ k <= inj[r].k
        BY <1>0 DEF TypeInv, TypeOK
      <4>3. MayHold(r, k)'
        BY <3>2, <4>2 DEF MayHold, Moves
      <4>4. key = Key(r, Series[r].targets[k])
        BY <4>1, <4>2 DEF Service
      <4> QED BY <4>1, <4>3, <4>4
    <3> QED BY <3>4, <3>5
  <2>11. CASE Delete(r)
    <3>1. /\ inj[r].step = "delete" /\ inj[r].rc = "none"
          /\ \/ resource' = [resource EXCEPT ![Key(r, Service(r))] = 0]
             \/ resource' = resource /\ undeleted' = undeleted \cup {r}
      BY <2>11 DEF Delete, LifeInv
    <3>2. resource[key] = owner /\ (key # Key(r, Service(r)) \/ r \in undeleted')
      <4>1. owner # 0
        BY RunsAre
      <4> QED BY <1>0, <3>1, <4>1
    <3>3. ASSUME NEW j \in DOMAIN Series[r].targets, MayHold(r, j),
                 key = Key(r, Series[r].targets[j])
          PROVE  r \in undeleted' \/ j > inj[r].k
      <4>1. j # inj[r].k \/ r \in undeleted'
        BY <3>2, <3>3 DEF Service
      <4>2. j >= inj[r].k \/ r \in undeleted'
        BY <2>0, <3>1, <3>3 DEF MayHold
      <4> QED BY <1>0, <4>1, <4>2, TargetsAre
    <3>4. CASE owner # r
      <4>1. inj'[owner] = inj[owner]
        BY <2>11, <3>2, <3>4, DeleteMoves DEF Moves
      <4> QED BY <2>1, <3>2, <3>4, <4>1
    <3>5. CASE owner = r /\ inj[r].k < Len(Series[r].targets)
      <4>1. Moves(r, "delete", inj[r].k + 1, inj[r].rc)
        BY <2>11, <3>5, DeleteMoves
      <4>2. ASSUME NEW j \in DOMAIN Series[r].targets, MayHold(r, j),
                   key = Key(r, Series[r].targets[j])
            PROVE  MayHold(r, j)'
        <5>1. r \in undeleted' \/ j >= inj[r].k + 1
          BY <1>0, <3>3, <4>2, TargetsAre
        <5> QED BY <4>1, <5>1 DEF MayHold, Moves
      <4> QED BY <1>1, <3>2, <3>5, <4>2
    <3>6. CASE owner = r /\ ~(inj[r].k < Len(Series[r].targets))
      <4>1. \E rc : Moves(r, "exited", inj[r].k, rc)
        BY <2>11, <3>6, DeleteMoves
      <4>2. ASSUME NEW j \in DOMAIN Series[r].targets, MayHold(r, j),
                   key = Key(r, Series[r].targets[j])
            PROVE  MayHold(r, j)'
        <5>1. ~(j > inj[r].k)
          BY <1>0, <3>6, TargetsAre
        <5>2. r \in undeleted'
          BY <3>3, <4>2, <5>1
        <5> QED BY <4>1, <5>2 DEF MayHold, Moves
      <4> QED BY <1>1, <3>2, <3>6, <4>2
    <3> QED BY <3>4, <3>5, <3>6
  <2> QED BY <1>5, <2>3, <2>4, <2>5, <2>6, <2>7, <2>8, <2>9, <2>10, <2>11
<1> QED BY <1>3, <1>4, <1>5 DEF Next, InjectorStep, Confirms, ScriptMoves

-----------------------------------------------------------------------------
(* What was struck *)

LEMMA StruckRunner == TypeInv /\ LifeInv /\ StruckInv /\ RunnerStep => StruckInv'
<1> SUFFICES ASSUME TypeInv, LifeInv, StruckInv, RunnerStep PROVE StruckInv'
  OBVIOUS
<1> USE RunsAre DEF runner, monitor, cluster, pods, account, Chaos
<1>1. CASE StartRun
  <2>1. UNCHANGED inj /\ run' = run + 1 /\ confirmed' = {} /\ run \in Nat /\ run' \in Runs
    BY <1>1 DEF StartRun, TypeInv, TypeOK
  <2>2. inj[run'].rc = "none"
    BY <2>1 DEF LifeInv
  <2> QED BY <2>1, <2>2 DEF StruckInv
<1>2. CASE ~StartRun
  <2>1. UNCHANGED <<run, struck, confirmed, undeleted>> /\ failed \subseteq failed'
    BY <1>2 DEF RunnerStep, Summary, NoBaseline, Abort, Inject, FaultEnds, WaitFires,
       Observed, WaitExpires, Harvest, Collect, Rca, RcaFails, Reap, ReapKill, Save
  <2>2. ASSUME NEW q \in Runs
        PROVE  /\ inj'[q].rc = "zero" => inj[q].rc = "zero"
               /\ \/ inj'[q].step = inj[q].step
                  \/ inj'[q].step \in {"label", "exited"}
    <3>1. CASE Inject
      <4>1. Moves(run, "label", inj[run].k, inj[run].rc)
        BY <3>1, RunnerMoves
      <4> QED BY <4>1 DEF Moves
    <3>2. CASE ReapKill
      <4>1. Moves(run, "exited", inj[run].k, "killed")
        BY <3>2, RunnerMoves
      <4> QED BY <4>1 DEF Moves
    <3>3. CASE ~Inject /\ ~ReapKill
      <4>1. inj' = inj
        BY <1>2, <3>3 DEF RunnerStep, Summary, NoBaseline, Abort, FaultEnds, WaitFires,
           Observed, WaitExpires, Harvest, Collect, Rca, RcaFails, Reap, Save
      <4> QED BY <4>1
    <3> QED BY <3>1, <3>2, <3>3
  <2>3. run \in 0 .. Len(Series) /\ (run > 0 => run \in Runs) /\ 1 .. run - 1 \subseteq Runs
    BY DEF TypeInv, TypeOK
  <2>4. \A q \in 1 .. run - 1 : Clean(q)' => Clean(q)
    BY <2>1, <2>2, <2>3 DEF Clean
  <2>5. \A q \in Runs : inj'[q].step \in {"apply", "confirm", "sleep", "delete"} => Chaos(q)
    BY <2>2 DEF StruckInv
  <2>6. run > 0 /\ ~Chaos(run) /\ inj'[run].rc = "zero" => struck = Targets(run)
    BY <2>2, <2>3 DEF StruckInv
  <2> QED BY <2>1, <2>4, <2>5, <2>6 DEF StruckInv
<1> QED BY <1>1, <1>2

LEMMA StruckInjector ==
  TypeInv /\ LifeInv /\ ResourceInv /\ StruckInv /\ InjectorStep => StruckInv'
<1> SUFFICES ASSUME TypeInv, LifeInv, ResourceInv, StruckInv, InjectorStep
             PROVE  StruckInv'
  OBVIOUS
<1> USE DEF runner, monitor, cluster, pods, account
<1>0. /\ UNCHANGED <<run, pc, failed>> /\ undeleted \subseteq undeleted'
      /\ \A q \in Runs : inj[q].step \in {"none", "exited"} => inj'[q] = inj[q]
  BY InjectorKeeps
<1>1. /\ \A q \in Runs : inj[q] \in Injector /\ inj[q].k \in DOMAIN Series[q].targets
      /\ run \in 0 .. Len(Series) /\ Runs \subseteq Nat /\ Runs = 1 .. Len(Series)
      /\ run \in Nat /\ 1 .. run - 1 \subseteq Runs
      /\ resource \in [Keys -> 0 .. Len(Series)]
  BY RunsAre DEF TypeInv, TypeOK, Injector
<1>2. PICK r \in Runs :
        \/ Label(r) \/ Apply(r) \/ ApplyFails(r) \/ SleepEnds(r)
        \/ Delete(r) \/ BrokenPipe(r) \/ ExecDone(r) \/ Confirms(r) \/ ScriptMoves(r)
        \/ \E ok \in SUBSET Targets(r) : ExecScripts(r, ok)
  BY DEF InjectorStep, Confirms, ScriptMoves
\* The runs before this one are over, so that clean ones do not move.
<1>3. ASSUME NEW q \in 1 .. run - 1, Clean(q)'
      PROVE  Clean(q) /\ inj[q].step = "exited"
  <2>1. q \in Runs /\ q < run /\ q \notin failed /\ inj'[q].rc = "zero" /\ q \notin undeleted
    BY <1>0, <1>1, <1>3 DEF Clean
  <2>2. inj[q].step \in {"none", "exited"}
    BY <2>1 DEF LifeInv, Injecting
  <2>3. inj'[q] = inj[q]
    BY <1>0, <2>1, <2>2
  <2>4. inj[q].step = "exited"
    BY <2>1, <2>2, <2>3 DEF LifeInv
  <2> QED BY <2>1, <2>3, <2>4 DEF Clean
<1>4. /\ \A q \in Runs : inj'[q].step \in {"apply", "confirm", "sleep", "delete"} => Chaos(q)
      /\ \/ \A q \in Runs : inj'[q].rc = "zero" => inj[q].rc = "zero"
         \/ Chaos(r) /\ \A q \in Runs : q # r => inj'[q] = inj[q]
         \/ /\ \A q \in Runs : q # r => inj'[q] = inj[q]
            /\ r = run /\ struck = Targets(r) /\ struck' = struck
  <2> USE DEF At
  <2>1. CASE Label(r)
    <3>1. inj' = [inj EXCEPT ![r].step = IF Chaos(r) THEN "apply" ELSE "exec"]
      BY <2>1 DEF Label
    <3>2. /\ inj'[r].step = (IF Chaos(r) THEN "apply" ELSE "exec") /\ inj'[r].rc = inj[r].rc
          /\ \A q \in Runs : q # r => inj'[q] = inj[q]
      BY <1>1, <3>1 DEF Injector, TypeInv, TypeOK
    <3> QED BY <3>2 DEF StruckInv
  <2>2. CASE Apply(r)
    <3>1. Moves(r, "confirm", inj[r].k, inj[r].rc) /\ inj[r].step = "apply"
      BY <2>2, InjectorMoves DEF Apply
    <3> QED BY <3>1 DEF Moves, StruckInv
  <2>3. CASE ApplyFails(r) \/ BrokenPipe(r)
    <3>1. Moves(r, "exited", inj[r].k, "one")
      BY <2>3, InjectorMoves
    <3> QED BY <3>1 DEF Moves, StruckInv
  <2>4. CASE SleepEnds(r)
    <3>1. Moves(r, "delete", 1, inj[r].rc) /\ inj[r].step = "sleep"
      BY <2>4, SleepEndsMoves DEF SleepEnds
    <3> QED BY <3>1 DEF Moves, StruckInv
  <2>5. CASE Delete(r)
    <3>1. inj[r].step = "delete" /\ \E st, k, rc : Moves(r, st, k, rc)
      BY <2>5, DeleteMoves DEF Delete
    <3>2. Chaos(r)
      BY <3>1 DEF StruckInv
    <3> QED BY <3>1, <3>2 DEF Moves, StruckInv
  <2>6. CASE Confirms(r)
    <3>1. inj[r].step = "confirm" /\ \E st, k : Moves(r, st, k, inj[r].rc)
      BY <2>6, ConfirmMoves DEF Confirms, Confirm
    <3> QED BY <3>1 DEF Moves, StruckInv
  <2>7. CASE ScriptMoves(r)
    <3>1. inj' = inj
      BY <2>7 DEF ScriptMoves, ExecDropped, ScriptEnds
    <3> QED BY <3>1 DEF StruckInv
  <2>8. CASE \E ok \in SUBSET Targets(r) : ExecScripts(r, ok)
    <3>1. Moves(r, "join", inj[r].k, inj[r].rc)
      BY <2>8, InjectorMoves
    <3> QED BY <3>1 DEF Moves, StruckInv
  <2>9. CASE ExecDone(r)
    <3>1. PICK rc \in {"zero", "one"} :
            /\ Moves(r, "exited", inj[r].k, rc)
            /\ rc = "zero" => struck = Targets(r) /\ Piped(r)
      BY <2>9, InjectorMoves
    <3>2. struck' = struck
      BY <2>9 DEF ExecDone
    <3> QED BY <3>1, <3>2 DEF Moves, StruckInv, Piped
  <2> QED BY <1>2, <2>1, <2>2, <2>3, <2>4, <2>5, <2>6, <2>7, <2>8, <2>9
\* What is struck grows, and only with what the injector of this run does.
<1>5. struck \subseteq struck' /\ (struck' # struck => inj[run].step # "exited" /\ r = run)
  <2>1. CASE Confirms(r)
    BY <2>1 DEF Confirms, Confirm, At, Piped
  <2>2. CASE \E ok \in SUBSET Targets(r) : ExecScripts(r, ok)
    BY <2>2 DEF ExecScripts, At, Piped
  <2>3. CASE ~Confirms(r) /\ ~\E ok \in SUBSET Targets(r) : ExecScripts(r, ok)
    <3>1. struck' = struck
      BY <1>2, <2>3 DEF Label, Apply, ApplyFails, SleepEnds, Delete, BrokenPipe, ExecDone,
         ScriptMoves, ExecDropped, ScriptEnds
    <3> QED BY <3>1
  <2> QED BY <2>1, <2>2, <2>3
<1>6. ASSUME run > 0, ~Chaos(run), inj'[run].rc = "zero" PROVE struck' = Targets(run)
  <2>0. run \in Runs
    BY <1>1, <1>6
  <2>1. CASE inj[run].rc = "zero"
    <3>1. inj[run].step = "exited"
      BY <2>0, <2>1 DEF LifeInv
    <3> QED BY <1>5, <1>6, <2>1, <3>1 DEF StruckInv
  <2>2. CASE inj[run].rc # "zero"
    BY <1>4, <1>6, <2>0, <2>2
  <2> QED BY <2>1, <2>2
<1>7. ASSUME run > 0, \A q \in 1 .. run - 1 : Clean(q)' PROVE confirmed' \subseteq struck'
  <2>1. confirmed \subseteq struck
    BY <1>3, <1>7 DEF StruckInv
  <2>2. CASE Confirms(r)
    <3>1. PICK took, seen \in BOOLEAN : Confirm(r, took, seen)
      BY <2>2 DEF Confirms
    <3>2. /\ confirmed' = confirmed \cup {s \in {Service(r)} : seen}
          /\ struck' = struck \cup {s \in {Service(r)} : took}
          /\ seen => /\ resource[Key(r, Service(r))] # 0
                     /\ resource[Key(r, Service(r))] = r => took
          /\ r = run /\ ~Over
      BY <3>1 DEF Confirm, Piped
    <3>3. ASSUME seen PROVE resource[Key(r, Service(r))] = r
      <4>1. Key(r, Service(r)) \in Keys
        BY <1>1, TargetsAre DEF Service
      <4>2. PICK q \in Runs : resource[Key(r, Service(r))] = q
        BY <1>1, <3>2, <3>3, <4>1
      <4>3. PICK i \in DOMAIN Series[q].targets : MayHold(q, i)
        BY <4>1, <4>2 DEF ResourceInv
      <4>4. q <= run
        <5>1. inj[q].step # "none"
          BY <4>3 DEF MayHold, At
        <5> QED BY <1>1, <5>1 DEF LifeInv
      <4>5. ~(q < run)
        <5>1. ASSUME q < run PROVE FALSE
          <6>1. q \in 1 .. run - 1
            BY <1>1, <5>1
          <6>2. Clean(q) /\ inj[q].step = "exited"
            BY <1>3, <1>7, <6>1
          <6> QED BY <4>3, <6>2 DEF MayHold, At, Clean
        <5> QED BY <5>1
      <4>6. q \in Nat /\ run \in Nat
        BY <1>1
      <4> QED BY <3>2, <4>2, <4>4, <4>5, <4>6
    <3>4. seen => took
      BY <3>2, <3>3
    <3> QED BY <2>1, <3>2, <3>4
  <2>3. CASE ~Confirms(r)
    <3>1. confirmed' = confirmed
      BY <1>2, <2>3 DEF Label, Apply, ApplyFails, SleepEnds, Delete, BrokenPipe, ExecDone,
         ExecScripts, ScriptMoves, ExecDropped, ScriptEnds
    <3> QED BY <1>5, <2>1, <3>1
  <2> QED BY <2>2, <2>3
<1> QED BY <1>0, <1>4, <1>6, <1>7 DEF StruckInv, Chaos

-----------------------------------------------------------------------------
(* What is left behind *)

StrikeInv == LifeInv /\ ResourceInv /\ StruckInv

LEMMA StrikeInductive == Spec => [](TypeInv /\ StrikeInv)
<1>1. ASSUME Init PROVE TypeInv /\ StrikeInv
  <2>1. TypeInv /\ LifeInv
    BY <1>1, InitTypeInv, LifeInductive
  <2>2. ResourceInv
    <3>1. \A key \in Keys : \A r \in Runs : resource[key] # r
      BY <1>1, RunsAre DEF Init
    <3> QED BY <3>1 DEF ResourceInv
  <2>3. StruckInv
    <3>1. run = 0 /\ \A r \in Runs : inj[r].step = "none"
      BY <1>1 DEF Init
    <3> QED BY <3>1 DEF StruckInv
  <2> QED BY <2>1, <2>2, <2>3 DEF StrikeInv
<1>2. ASSUME TypeInv, StrikeInv, [Next]_vars PROVE (TypeInv /\ StrikeInv)'
  <2>1. TypeInv' /\ LifeInv' /\ ResourceInv'
    BY <1>2, StepTypeInv, LifeInductive, StepResource DEF StrikeInv
  <2>2. CASE MonitorStep \/ UNCHANGED vars
    <3>1. UNCHANGED <<run, failed, undeleted, inj, struck, confirmed>>
      BY <2>2 DEF MonitorStep, Poll, NoViolation, Violation, MonitorStops, runner, cluster, pods,
         account, vars
    <3>2. StruckInv'
      BY <1>2, <3>1 DEF StrikeInv, StruckInv, Clean, Chaos
    <3> QED BY <2>1, <3>2 DEF StrikeInv
  <2> QED BY <1>2, <2>1, <2>2, StruckRunner, StruckInjector DEF Next, StrikeInv
<1> QED BY <1>1, <1>2, PTL DEF Spec

\* Whatever is left behind is one of a run that failed, or whose injector was killed or
\* exited with an error; a resource also of one whose injector could not delete it.
THEOREM LeftoversAreReported == Spec => []LeftoversAccounted
<1>1. ASSUME TypeInv, StrikeInv PROVE LeftoversAccounted
  <2> USE DEF StrikeInv
  <2>0. run \in Nat /\ Runs \subseteq Nat /\ Runs = 1 .. Len(Series)
    BY <1>1, RunsAre DEF TypeInv, TypeOK
  \* At the end of a run what still injects is one of a failed run.
  <2>1. ASSUME NEW q \in Runs, q # run \/ Over, Injecting(q) PROVE Reported(q)
    <3>1. ~(q > run)
      BY <1>1, <2>1 DEF LifeInv, Injecting
    <3> QED BY <1>1, <2>0, <2>1, <3>1 DEF LifeInv, Reported
  <2>2. ASSUME pc = "cooldown", NEW key \in Keys, resource[key] # 0
        PROVE  Reported(resource[key]) \/ resource[key] \in undeleted
    <3>1. PICK r \in Runs : resource[key] = r
      <4>1. resource[key] \in 0 .. Len(Series)
        BY <1>1 DEF TypeInv, TypeOK
      <4> QED BY <2>0, <2>2, <4>1
    <3>2. PICK j \in DOMAIN Series[r].targets : MayHold(r, j)
      BY <1>1, <3>1 DEF ResourceInv
    <3>3. CASE inj[r].step = "exited"
      <4>1. inj[r].rc \in {"none", "zero", "one", "killed"}
        BY <1>1 DEF TypeInv, TypeOK, Injector
      <4>2. inj[r].rc # "none"
        BY <1>1, <3>3 DEF LifeInv
      <4> QED BY <3>1, <3>2, <3>3, <4>1, <4>2 DEF MayHold, At, Reported
    <3>4. CASE inj[r].step # "exited"
      <4>1. Injecting(r)
        BY <3>2, <3>4 DEF MayHold, At, Injecting
      <4> QED BY <2>1, <2>2, <3>1, <4>1 DEF Over
    <3> QED BY <3>3, <3>4
  <2>3. ASSUME NEW q \in Runs, q # run \/ Over, \E s \in Targets(q) : <<q, s>> \in scripts
        PROVE  Reported(q)
    <3>1. inj[q].step = "join" \/ inj[q].rc \in {"killed", "one"}
      BY <1>1, <2>3 DEF LifeInv
    <3> QED BY <2>1, <2>3, <3>1 DEF Injecting, Reported
  <2> QED BY <2>1, <2>2, <2>3 DEF LeftoversAccounted
<1> QED BY <1>1, StrikeInductive, PTL

\* What an injector printed as confirmed was struck by its own fault if the runs before
\* left nothing behind, and scripts that exited with zero ran on every target.
THEOREM ConfirmedAreStruck == Spec => []FaultsStruck
<1>1. TypeInv /\ StrikeInv => FaultsStruck
  BY DEF FaultsStruck, StrikeInv, StruckInv
<1> QED BY <1>1, StrikeInductive, PTL

-----------------------------------------------------------------------------
(* Every series is finite *)

\* How far a step of the runner is from the end of its run.
StepRank ==
  [finished |-> 0, cooldown |-> 1, recovery |-> 2, reap |-> 3, rca |-> 4, collect |-> 5,
   harvest |-> 6, observe |-> 9, fault |-> 10, baseline |-> 11]

\* What is left of the series: the runs to come, what is left of this one, and what
\* SLOMonitor.stop waits for before it joins the thread.
Joining  == IF pc # "harvest" \/ mon = "off" THEN 0 ELSE IF mon = "waiting" THEN 1 ELSE 2
Distance == 12 * (Len(Series) - run) + StepRank[pc] + Joining

LEMMA DistanceType == TypeInv => Distance \in Nat
<1> SUFFICES ASSUME TypeInv PROVE Distance \in Nat
  OBVIOUS
<1>1. /\ run \in 0 .. Len(Series) /\ Len(Series) \in Nat
      /\ pc \in {"cooldown", "baseline", "fault", "observe", "harvest", "collect",
                 "rca", "reap", "recovery", "finished"}
  BY RunsAre DEF TypeInv, TypeOK
<1>2. StepRank[pc] \in Nat /\ 12 * (Len(Series) - run) \in Nat
  BY <1>1 DEF StepRank
<1> QED BY <1>2 DEF Distance, Joining

LEMMA RunnerNears == TypeInv /\ RunnerStep => Distance' < Distance
<1> SUFFICES ASSUME TypeInv, RunnerStep PROVE Distance' < Distance
  OBVIOUS
<1>1. run \in Nat /\ Len(Series) \in Nat
  BY RunsAre DEF TypeInv, TypeOK
<1> USE <1>1 DEF Distance, Joining, StepRank, Goto, monitor
<1>2. CASE StartRun
  BY <1>2 DEF StartRun
<1>3. CASE Summary
  BY <1>3 DEF Summary
<1>4. CASE NoBaseline
  BY <1>4 DEF NoBaseline, Abort
<1>5. CASE Inject
  BY <1>5 DEF Inject
<1>6. CASE FaultEnds
  BY <1>6 DEF FaultEnds
<1>7. CASE WaitFires
  BY <1>7 DEF WaitFires
<1>8. CASE Observed
  BY <1>8 DEF Observed
<1>9. CASE WaitExpires
  BY <1>9 DEF WaitExpires
<1>10. CASE Harvest
  BY <1>10 DEF Harvest
<1>11. CASE Collect
  BY <1>11 DEF Collect
<1>12. CASE Rca
  BY <1>12 DEF Rca
<1>13. CASE RcaFails
  BY <1>13 DEF RcaFails
<1>14. CASE Reap
  BY <1>14 DEF Reap
<1>15. CASE ReapKill
  BY <1>15 DEF ReapKill
<1>16. CASE Save
  BY <1>16 DEF Save
<1> QED BY <1>2, <1>3, <1>4, <1>5, <1>6, <1>7, <1>8, <1>9, <1>10, <1>11, <1>12, <1>13,
           <1>14, <1>15, <1>16 DEF RunnerStep

LEMMA MonitorNears ==
  ASSUME TypeInv, MonitorStep
  PROVE  IF pc = "harvest" THEN Distance' < Distance ELSE Distance' = Distance
<1>1. run \in Nat /\ Len(Series) \in Nat
  BY RunsAre DEF TypeInv, TypeOK
<1>2. UNCHANGED <<run, pc>>
  BY DEF MonitorStep, Poll, NoViolation, Violation, MonitorStops, runner
<1>3. pc = "harvest" => \/ mon = "polling" /\ mon' = "waiting"
                        \/ mon = "waiting" /\ mon' = "off"
  BY DEF MonitorStep, Poll, NoViolation, Violation, MonitorStops
<1>4. CASE pc = "harvest"
  BY <1>1, <1>2, <1>3, <1>4 DEF Distance, Joining, StepRank
<1>5. CASE pc # "harvest"
  BY <1>2, <1>5 DEF Distance, Joining
<1> QED BY <1>4, <1>5

\* No run goes in circles, and nothing an injector does, or does not do, delays one:
\* each step of the runner brings the series closer to its end, so does each step of a
\* monitor that is being joined, and no step of anyone takes it further away.  The steps
\* of a series are finitely many, the monitor's polls within a fault window apart
\* (run_experiment.py:298-600, run_experiment_slo.py:322-560).
THEOREM SeriesShrinks ==
  Spec => [][/\ Distance \in Nat /\ Distance' <= Distance
             /\ RunnerStep \/ (MonitorStep /\ pc = "harvest") => Distance' < Distance]_vars
<1>1. TypeInv /\ [Next]_vars =>
        [/\ Distance \in Nat /\ Distance' <= Distance
         /\ RunnerStep \/ (MonitorStep /\ pc = "harvest") => Distance' < Distance]_vars
  <2> SUFFICES ASSUME TypeInv, [Next]_vars
               PROVE  /\ Distance \in Nat /\ Distance' <= Distance
                      /\ RunnerStep \/ (MonitorStep /\ pc = "harvest") => Distance' < Distance
    OBVIOUS
  <2>1. Distance \in Nat /\ Distance' \in Nat
    <3>1. /\ run' \in 0 .. Len(Series) /\ Len(Series) \in Nat
          /\ pc' \in {"cooldown", "baseline", "fault", "observe", "harvest", "collect",
                      "rca", "reap", "recovery", "finished"}
      BY RunsAre, StepTypeInv DEF TypeInv, TypeOK
    <3>2. StepRank[pc'] \in Nat /\ 12 * (Len(Series) - run') \in Nat
      BY <3>1 DEF StepRank
    <3>3. Distance' \in Nat
      <4>1. Joining' \in Nat
        BY DEF Joining
      <4> QED BY <3>2, <4>1 DEF Distance
    <3> QED BY <3>3, DistanceType
  <2>2. RunnerStep => Distance' < Distance
    BY RunnerNears
  <2>3. MonitorStep => IF pc = "harvest" THEN Distance' < Distance ELSE Distance' = Distance
    BY MonitorNears
  <2>4. InjectorStep => Distance' = Distance
    BY InjectorKeeps DEF Distance, Joining, monitor
  <2>5. UNCHANGED vars => Distance' = Distance
    BY DEF vars, Distance, Joining
  <2> QED BY <2>1, <2>2, <2>3, <2>4, <2>5 DEF Next
<1> QED BY <1>1, InitTypeInv, StepTypeInv, PTL DEF Spec
=============================================================================
