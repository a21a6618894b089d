------------------------------ MODULE BoutiqueRun ------------------------------
(***************************************************************************)
(* A series of fault injection experiments on Online Boutique, one after   *)
(* another as eval/run_batch.py runs them.  Four kinds of process meet:    *)
(*   the runner     eval/run_experiment.py, or run_experiment_slo.py,      *)
(*                  which starts an injector and reaps it                  *)
(*   the monitor    its SLOMonitor thread                                  *)
(*   the injectors  chaos_inject.py (Chaos Mesh resources) or inject.py    *)
(*                  (scripts inside the pods); one may outlive its run     *)
(*   the cluster    which keeps a resource until someone deletes it        *)
(***************************************************************************)
EXTENDS Integers, Sequences, FiniteSets

CONSTANT Series   \* experiments, in order: [fault, targets, chaos, slo]

Runs       == DOMAIN Series
Targets(r) == {Series[r].targets[i] : i \in DOMAIN Series[r].targets}
Key(r, s)  == <<Series[r].fault, s>>       \* kind and name of a chaos resource
Keys       == UNION {{Key(r, s) : s \in Targets(r)} : r \in Runs}

ASSUME SeriesAssumption ==
  /\ Series \in Seq({Series[r] : r \in Runs}) /\ Series # <<>>
  /\ \A r \in Runs :
       /\ Series[r].chaos \in BOOLEAN /\ Series[r].slo \in BOOLEAN
       /\ Series[r].targets \in Seq(Targets(r)) /\ Series[r].targets # <<>>
       /\ Cardinality(Targets(r)) = Len(Series[r].targets)

Files == {"ground_truth", "metrics", "rca", "results", "timeline"}

VARIABLES
  \* runner
  run,        \* index of the experiment
  pc,         \* its step, or "cooldown" between two
  failed,     \* run_batch's list
  files,      \* artifacts of this run
  trigger,    \* triggered_by: "none", "slo" or "duration"
  harvested,  \* what SLOMonitor.stop returned
  \* monitor
  mon,        \* "off", "waiting" or "polling"
  violation,  \* _violation_time: "none", "during" the fault window, "late" after it
  \* injectors
  inj,        \* per run: its step, the target it is at, its return code
  scripts,    \* <<run, service>> of scripts running in pods
  dropped,    \* <<run, service>> of kubectl exec calls that ended with an error
  \* cluster
  resource,   \* the run that created the chaos resource of a key, 0 if there is none
  \* accounting of the model
  struck,     \* targets of this run that its own fault took effect on
  confirmed,  \* targets of this run whose injection its injector printed as confirmed
  undeleted   \* runs whose injector could not delete a resource

runner  == <<run, pc, failed, files, trigger, harvested>>
monitor == <<mon, violation>>
pods    == <<scripts, dropped>>
account == <<struck, confirmed, undeleted>>
cluster == <<inj, pods, resource, account>>
vars    == <<run, pc, failed, files, trigger, harvested, mon, violation,
             inj, scripts, dropped, resource, struck, confirmed, undeleted>>

Slo   == Series[run].slo
Over  == pc \in {"cooldown", "finished"}
Injecting(r) == inj[r].step \notin {"none", "exited"}

\* The runner holds the other end of its injector's pipes until it exits.
Piped(r) == r = run /\ ~Over

Goto(step) == pc' = step

Init ==
  /\ run = 0 /\ pc = "cooldown" /\ failed = {}
  /\ files = {}
  /\ trigger = "none" /\ harvested = "none"
  /\ mon = "off" /\ violation = "none"
  /\ inj = [r \in Runs |-> [step |-> "none", k |-> 1, rc |-> "none"]]
  /\ scripts = {} /\ dropped = {}
  /\ resource = [key \in Keys |-> 0]
  /\ struck = {} /\ confirmed = {} /\ undeleted = {}
-----------------------------------------------------------------------------
(* The batch and the runner *)

\* run_batch: the next experiment, or the summary.
StartRun ==
  /\ pc = "cooldown" /\ run < Len(Series)
  /\ run' = run + 1
  /\ Goto("baseline")
  /\ trigger' = "none" /\ harvested' = "none"
  /\ mon' = "off" /\ violation' = "none"
  /\ files' = {} /\ struck' = {} /\ confirmed' = {}
  /\ UNCHANGED <<failed, inj, pods, resource, undeleted>>

Summary ==
  /\ pc = "cooldown" /\ run = Len(Series)
  /\ Goto("finished")
  /\ UNCHANGED <<run, failed, files, trigger, harvested, monitor, cluster>>

\* An exception leaves run(): a non-zero exit code, and no one left to reap.
Abort ==
  /\ failed' = failed \cup {run}
  /\ Goto("cooldown")
  /\ UNCHANGED <<run, files, trigger, harvested, monitor, cluster>>

\* No sample of the baseline is left: one runner says so and stops, the other
\* multiplies None in its summary line.
NoBaseline ==
  /\ pc = "baseline"
  /\ Abort

\* Popen, then the monitor's thread.
Inject ==
  /\ pc = "baseline"
  /\ inj' = [inj EXCEPT ![run].step = "label"]
  /\ mon' = "waiting"
  /\ Goto("fault")
  /\ UNCHANGED <<run, failed, files, trigger, harvested, violation,
                 pods, resource, account>>

\* time.sleep(duration) is over; fault_end is taken.
FaultEnds ==
  /\ pc = "fault" /\ ~Slo
  /\ Goto("harvest")
  /\ UNCHANGED <<run, failed, files, trigger, harvested, monitor, cluster>>

\* violation_event was set: wait for the observation buffer.
WaitFires ==
  /\ pc = "fault" /\ Slo
  /\ violation # "none"
  /\ trigger' = "slo"
  /\ Goto("observe")
  /\ UNCHANGED <<run, failed, files, harvested, monitor, cluster>>

Observed ==
  /\ pc = "observe"
  /\ Goto("harvest")
  /\ UNCHANGED <<run, failed, files, trigger, harvested, monitor, cluster>>

\* violation_event.wait times out.  The monitor may be about to set it.
WaitExpires ==
  /\ pc = "fault" /\ Slo
  /\ violation = "none"
  /\ trigger' = "duration"
  /\ Goto("harvest")
  /\ UNCHANGED <<run, failed, files, harvested, monitor, cluster>>

\* Mutant: stop() reads the violation time without joining the thread.
HarvestNoJoin ==
  /\ pc = "harvest"
  /\ harvested' = violation
  /\ Goto("collect")
  /\ UNCHANGED <<run, failed, files, trigger, monitor, cluster>>

\* SLOMonitor.stop joins the thread before it reads.  (A poll takes no time to
\* speak of, so the join's own timeout is left out.)
Harvest ==
  /\ pc = "harvest" /\ mon = "off"
  /\ harvested' = violation
  /\ Goto("collect")
  /\ UNCHANGED <<run, failed, files, trigger, monitor, cluster>>

\* Metrics arrive, or none do, or the fetch fails: the run goes on regardless.
Collect ==
  /\ pc = "collect"
  /\ \E got \in {{}, {"metrics"}} : files' = files \cup got
  /\ Goto("rca")
  /\ UNCHANGED <<run, failed, trigger, harvested, monitor, cluster>>

\* run_rca; rca_results.json is written whatever it returns.
Rca ==
  /\ pc = "rca"
  /\ files' = files \cup {"rca"}
  /\ Goto("reap")
  /\ UNCHANGED <<run, failed, trigger, harvested, monitor, cluster>>

\* run_rca caught an error: its result has no "ranked_services", and len(None)
\* ends run_experiment.py.  The SLO runner does not look.
RcaFails ==
  /\ pc = "rca" /\ ~Slo
  /\ files' = files \cup {"rca"}
  /\ failed' = failed \cup {run}
  /\ Goto("cooldown")
  /\ UNCHANGED <<run, trigger, harvested, monitor, cluster>>

\* Mutant: communicate() without a timeout and without the kill.
ReapKillNever == pc = "reap" /\ Injecting(run) /\ UNCHANGED vars

\* communicate() times out: kill, and what the injector started stays.
ReapKill ==
  /\ pc = "reap"
  /\ Injecting(run)
  /\ inj' = [inj EXCEPT ![run].step = "exited", ![run].rc = "killed"]
  /\ Goto("recovery")
  /\ UNCHANGED <<run, failed, files, trigger, harvested, monitor,
                 pods, resource, account>>

\* communicate() returns.  A non-zero return code is printed, no more.
Reap ==
  /\ pc = "reap"
  /\ ~Injecting(run)
  /\ Goto("recovery")
  /\ UNCHANGED <<run, failed, files, trigger, harvested, monitor, cluster>>

\* Recovery, gen.stop, and the last artifacts.
Save ==
  /\ pc = "recovery"
  /\ files' = files \cup {"timeline"} \cup (IF Slo THEN {} ELSE {"results"})
  /\ Goto("cooldown")
  /\ UNCHANGED <<run, failed, trigger, harvested, monitor, cluster>>
-----------------------------------------------------------------------------
(* The SLO monitor *)

Poll ==
  /\ mon = "waiting" /\ pc \in {"fault", "observe"}
  /\ mon' = "polling"
  /\ UNCHANGED <<runner, violation, cluster>>

\* No data, p95 below the threshold, or a violation on record already.
NoViolation ==
  /\ mon = "polling"
  /\ mon' = "waiting"
  /\ UNCHANGED <<runner, violation, cluster>>

Violation ==
  /\ mon = "polling" /\ violation = "none"
  /\ violation' = IF pc \in {"fault", "observe"} THEN "during" ELSE "late"
  /\ mon' = "waiting"
  /\ UNCHANGED <<runner, cluster>>

MonitorStops ==
  /\ mon = "waiting" /\ pc = "harvest"
  /\ mon' = "off"
  /\ UNCHANGED <<runner, violation, cluster>>
-----------------------------------------------------------------------------
(* The injectors *)

At(r, step) == inj[r].step = step
Chaos(r)    == Series[r].chaos
Service(r)  == Series[r].targets[inj[r].k]
Exits(r, rc) == inj' = [inj EXCEPT ![r].step = "exited", ![r].rc = rc]

\* gt.write comes before anything is injected.
Label(r) ==
  /\ At(r, "label") /\ Piped(r)
  /\ files' = files \cup {"ground_truth"}
  /\ inj' = [inj EXCEPT ![r].step = IF Chaos(r) THEN "apply" ELSE "exec"]
  /\ UNCHANGED <<run, pc, failed, trigger, harvested, monitor,
                 pods, resource, account>>

\* kubectl apply creates the resource; one of that name and content that is
\* still there is left as it is, and injects nothing.  Whether Chaos Mesh acts
\* on a resource is seen later.
Apply(r) ==
  /\ At(r, "apply")
  /\ IF resource[Key(r, Service(r))] = 0
     THEN resource' = [resource EXCEPT ![Key(r, Service(r))] = r]
     ELSE UNCHANGED resource
  /\ inj' = [inj EXCEPT ![r].step = "confirm"]
  /\ UNCHANGED <<runner, monitor, pods, account>>

\* kubectl apply fails: sys.exit(1), with earlier targets' resources applied.
ApplyFails(r) ==
  /\ At(r, "apply")
  /\ Exits(r, "one")
  /\ UNCHANGED <<runner, monitor, pods, resource, account>>

\* _wait_for_injection reads the status of the resource of that name, whoever
\* made it.  The fault of a resource of this run may have taken effect or not
\* (a Failed condition, 60 s without an answer); seen, it is printed as
\* confirmed.  In every case the next target follows, or the sleep.
Confirm(r, took, seen) ==
  /\ At(r, "confirm") /\ Piped(r)
  /\ LET owner == resource[Key(r, Service(r))]
     IN /\ took => owner = r
        /\ seen => owner # 0 /\ (owner = r => took)
  /\ struck' = struck \cup {s \in {Service(r)} : took}
  /\ confirmed' = confirmed \cup {s \in {Service(r)} : seen}
  /\ inj' = IF inj[r].k < Len(Series[r].targets)
            THEN [inj EXCEPT ![r].step = "apply", ![r].k = @ + 1]
            ELSE [inj EXCEPT ![r].step = "sleep"]
  /\ UNCHANGED <<runner, monitor, pods, resource, undeleted>>

\* Mutant: only the last target's resource is deleted.
SleepEndsLastOnly(r) ==
  /\ At(r, "sleep") /\ Piped(r)
  /\ inj' = [inj EXCEPT ![r].step = "delete"]
  /\ UNCHANGED <<runner, monitor, pods, resource, account>>

\* duration seconds later: "cleaning up chaos resources".
SleepEnds(r) ==
  /\ At(r, "sleep") /\ Piped(r)
  /\ inj' = [inj EXCEPT ![r].step = "delete", ![r].k = 1]
  /\ UNCHANGED <<runner, monitor, pods, resource, account>>

\* A deletion that fails is a warning and the loop goes on to an exit code of
\* zero, for which the runner does not print the warnings.  The last line of
\* output needs the pipe.
Delete(r) ==
  /\ At(r, "delete")
  /\ \/ resource' = [resource EXCEPT ![Key(r, Service(r))] = 0] /\ UNCHANGED undeleted
     \/ UNCHANGED resource /\ undeleted' = undeleted \cup {r}
  /\ IF inj[r].k < Len(Series[r].targets)
     THEN inj' = [inj EXCEPT ![r].k = @ + 1]
     ELSE Exits(r, IF Piped(r) THEN "zero" ELSE "one")
  /\ UNCHANGED <<runner, monitor, pods, struck, confirmed>>

\* The runner is gone and with it the pipe: the next line of output ends the
\* injector, before its clean-up.
BrokenPipe(r) ==
  /\ ~Piped(r)
  /\ At(r, "label") \/ At(r, "confirm") \/ At(r, "sleep")
  /\ Exits(r, "one")
  /\ UNCHANGED <<runner, monitor, pods, resource, account>>

\* inject.py: one thread per service runs its script in the first pod.  ok are
\* the services with a running pod, a shell and a script that starts; without
\* the pipe, a line of output fails before the script of each.
ExecScripts(r, ok) ==
  /\ At(r, "exec")
  /\ Piped(r) \/ ok = {}
  /\ scripts' = scripts \cup {<<r, s>> : s \in ok}
  /\ struck' = struck \cup ok
  /\ inj' = [inj EXCEPT ![r].step = "join"]
  /\ UNCHANGED <<runner, monitor, dropped, resource, confirmed, undeleted>>

\* kubectl exec ends with an error, its connection lost say, and the thread
\* with it; the script goes on in the pod.
ExecDropped(r, s) ==
  /\ At(r, "join") /\ <<r, s>> \in scripts
  /\ dropped' = dropped \cup {<<r, s>>}
  /\ UNCHANGED <<runner, monitor, inj, scripts, resource, account>>

\* A script ends after its duration, whether or not the injector still waits.
ScriptEnds(r, s) ==
  /\ <<r, s>> \in scripts
  /\ scripts' = scripts \ {<<r, s>>}
  /\ UNCHANGED <<runner, monitor, inj, dropped, resource, account>>

\* Mutant: what a thread raised is lost with the thread.
ExecDoneForgets(r) ==
  /\ At(r, "join")
  /\ \A s \in Targets(r) : <<r, s>> \notin scripts \ dropped
  /\ Exits(r, IF Piped(r) THEN "zero" ELSE "one")
  /\ UNCHANGED <<runner, monitor, pods, resource, account>>

\* All threads are joined, those whose kubectl exec was dropped too.
ExecDone(r) ==
  /\ At(r, "join")
  /\ \A s \in Targets(r) : <<r, s>> \notin scripts \ dropped
  /\ LET fine == struck = Targets(r) /\ \A s \in Targets(r) : <<r, s>> \notin dropped
     IN Exits(r, IF fine /\ Piped(r) THEN "zero" ELSE "one")
  /\ UNCHANGED <<runner, monitor, pods, resource, account>>

RunnerStep ==
  \/ StartRun \/ Summary \/ NoBaseline \/ Inject \/ FaultEnds
  \/ WaitFires \/ Observed \/ WaitExpires \/ Harvest
  \/ Collect \/ Rca \/ RcaFails \/ Reap \/ ReapKill \/ Save

MonitorStep == Poll \/ NoViolation \/ Violation \/ MonitorStops

InjectorStep ==
  \E r \in Runs :
    \/ Label(r) \/ Apply(r) \/ ApplyFails(r) \/ SleepEnds(r)
    \/ Delete(r) \/ BrokenPipe(r) \/ ExecDone(r)
    \/ \E took, seen \in BOOLEAN : Confirm(r, took, seen)
    \/ \E ok \in SUBSET Targets(r) : ExecScripts(r, ok)
    \/ \E s \in Targets(r) : ExecDropped(r, s) \/ ScriptEnds(r, s)

Next == RunnerStep \/ MonitorStep \/ InjectorStep

\* The runner and its monitor thread keep running.  Nothing is assumed of the
\* injectors: a call of kubectl may never return.
Spec == Init /\ [][Next]_vars /\ WF_vars(RunnerStep) /\ WF_vars(MonitorStep)
-----------------------------------------------------------------------------
(* Properties *)

Injector ==
  [step : {"none", "label", "apply", "confirm", "sleep", "delete", "exec", "join", "exited"},
   k : Nat, rc : {"none", "zero", "one", "killed"}]

TypeOK ==
  /\ run \in 0 .. Len(Series)
  /\ pc \in {"cooldown", "baseline", "fault", "observe", "harvest", "collect",
             "rca", "reap", "recovery", "finished"}
  /\ failed \subseteq Runs
  /\ files \subseteq Files
  /\ trigger \in {"none", "slo", "duration"}
  /\ mon \in {"off", "waiting", "polling"}
  /\ {violation, harvested} \subseteq {"none", "during", "late"}
  /\ inj \in [Runs -> Injector]
  /\ \A r \in Runs : inj[r].k \in DOMAIN Series[r].targets
  /\ struck \cup confirmed \subseteq (IF run = 0 THEN {} ELSE Targets(run))
  /\ \A e \in scripts \cup dropped : \E r \in Runs : \E s \in Targets(r) : e = <<r, s>>
  /\ resource \in [Keys -> 0 .. Len(Series)]
  /\ undeleted \subseteq Runs

\* What the batch's list, the runner's own warning or the injector's exit code
\* says of a run.
Reported(q) == q \in failed \/ inj[q].rc \in {"killed", "one"}

\* A run that left nothing behind in the cluster.
Clean(q) == q \notin failed /\ inj[q].rc = "zero" /\ q \notin undeleted

\* Between runs a chaos resource is left only by a run the batch or its runner
\* reported, or by one whose injector could not delete it.  (That one case is
\* silent: its warning is captured and its exit code is zero.)  And at any time
\* an injector or a script that outlives its run is one of a reported run: two
\* never inject at once unnoticed.
LeftoversAccounted ==
  /\ pc = "cooldown" =>
       \A key \in Keys :
         resource[key] # 0 => Reported(resource[key]) \/ resource[key] \in undeleted
  /\ \A q \in Runs :
       (q # run \/ Over) /\ (Injecting(q) \/ \E s \in Targets(q) : <<q, s>> \in scripts)
         => Reported(q)

\* When the runs before it left nothing behind, a target printed as confirmed was
\* reached by this run's own fault, not by a resource of the same name that an
\* earlier run made.  And scripts that exit with zero ran on every target.  (An
\* exit code of zero alone says nothing of a chaos run: an injection that failed
\* or was never confirmed leads to it too.)
FaultsStruck ==
  pc = "cooldown" /\ run > 0 =>
    /\ (\A q \in 1 .. run - 1 : Clean(q)) => confirmed \subseteq struck
    /\ ~Chaos(run) /\ inj[run].rc = "zero" => struck = Targets(run)

\* An SLO-triggered run has a violation on record from within the fault window,
\* and what any run recorded is what the monitor saw in the end.
TriggerTruth ==
  /\ trigger = "slo" => violation = "during"
  /\ pc \in {"collect", "rca", "reap", "recovery"} => harvested = violation

\* The series ends although injectors may hang for ever.
SeriesEnds == <>(pc = "finished")

(* Statements of the documentation the code does not keep. *)

\* run_experiment.py:20: the last step of every run that injected is to reap its
\* injector.
InjectorReaped == Over /\ run > 0 => ~Injecting(run)
=============================================================================
