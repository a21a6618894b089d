------------------------------ MODULE VllmCapture ------------------------------
(***************************************************************************)
(* Unattended capture of labelled traces: the batch loop of                *)
(* eval/run_vllm_batch.py, run_experiment of eval/run_vllm_experiment.py   *)
(* with both backends of eval/server_control.py, the vLLM server they kill *)
(* or recreate, and the trace directories that make a rerun resume.        *)
(*                                                                         *)
(* Three parties step independently: the batch process (pc), the server    *)
(* processes, and the outside world, which interrupts or kills the batch.  *)
(* A server is a process of the host ("native") or a container whose port  *)
(* docker holds on the host ("compose").                                   *)
(***************************************************************************)
EXTENDS Integers, Sequences, FiniteSets

CONSTANTS
  Matrix,          \* experiments of the matrix file, in order: a sequence of scenarios
  Kind,            \* Scenario.kind of each: "workload", "config" or "infra"
  Repeats,         \* repeats wanted of each
  MaxFailures,     \* MAX_CONSECUTIVE_FAILURES
  Stacks,          \* how the operator may have brought the server up
  MaxSessions      \* bound: starts of the batch process

Scenarios == {Matrix[i] : i \in DOMAIN Matrix}

ASSUME MatrixAssumption ==
  /\ Matrix \in Seq(Scenarios)
  /\ \A i, j \in DOMAIN Matrix : Matrix[i] = Matrix[j] => i = j
  /\ Kind \in [Scenarios -> {"workload", "config", "infra"}]
  /\ Repeats \in [Scenarios -> Nat]
ASSUME LimitsAssumption ==
  /\ MaxFailures \in Nat \ {0}
  /\ MaxSessions \in Nat
ASSUME StacksAssumption == Stacks \subseteq {"native", "compose"}

Configs == {"nominal", "degraded"}       \* without, with a scenario's server_args
Files   == {"ground_truth", "metrics", "timeline"}   \* rca_report.json is read by no one
Phases  == {"off", "check", "revive", "reviving", "preflight", "baseline",
            "relaunch", "poll", "health", "fault", "collect", "timeline",
            "cleanup", "score"}

\* CPU faults: busy loops or the quota of a container; "own" while the batch holds
\* the token that undoes them, "stray" once no one does.
Hogs == {"loops", "quota"} \X {"own", "stray"}
Quotas == {"quota"} \X {"own", "stray"}

VARIABLES
  \* disk
  dirs,         \* trace directories, oldest first
  nativeState,  \* native_state.json exists
  cut,          \* (accounting) directories whose run ended between metrics and timeline
  \* server processes
  server,       \* what /health reaches: "down" or a configuration
  starting,     \* configurations of host processes that are coming up
  container,    \* configuration of the running container, or "none"
  inside,       \* it is the container that answers
  hog,          \* CPU faults in effect
  \* batch process
  pc,
  left,         \* repeats of each scenario this session has still to attempt
  done, failed, consecutive,
  stop,         \* _stop, set by the SIGINT handler; or a limit was reached
  goal,         \* configuration _relaunch is asked for
  failing,      \* an exception is in flight through the finally block
  control,      \* _CONTROL
  \* accounting of the model
  existing,     \* usable directories when the session planned
  sessions,
  mishaps       \* "kill"; "control" (an old server outlived its poll, not all busy loops
                \* spawned, docker failed); "beside" (a host server was started while
                \* there was a container)

disk  == <<dirs, nativeState, cut>>
procs == <<server, starting, container, inside, hog>>
tally == <<left, done, failed, consecutive, stop, existing, sessions>>
run   == <<goal, failing, control>>
vars  == <<dirs, nativeState, cut, server, starting, container, inside, hog, pc, left,
           done, failed, consecutive, stop, goal, failing, control, existing,
           sessions, mishaps>>

Here == Len(dirs)                    \* the directory of the run in progress

\* count_existing
Counted(d) == {"ground_truth", "metrics"} \subseteq d.files
Existing(s) == Cardinality({i \in DOMAIN dirs : dirs[i].scenario = s /\ Counted(dirs[i])})
Usable == {i \in DOMAIN dirs : Counted(dirs[i])}

\* The repeat the two nested loops are at: the first scenario with some left.
Turn(s) ==
  \E i \in DOMAIN Matrix :
    /\ Matrix[i] = s
    /\ left[s] > 0
    /\ \A j \in 1 .. i - 1 : left[Matrix[j]] = 0
-----------------------------------------------------------------------------
Init ==
  /\ dirs = <<>> /\ cut = {}
  /\ server = "nominal" /\ starting = {} /\ hog = {}
  /\ \E stack \in Stacks :
       /\ nativeState = (stack = "native")
       /\ inside = (stack = "compose")
       /\ container = IF stack = "compose" THEN "nominal" ELSE "none"
  /\ pc = "off"
  /\ left = [s \in Scenarios |-> 0]
  /\ done = 0 /\ failed = 0 /\ consecutive = 0
  /\ stop = FALSE
  /\ goal = "nominal" /\ failing = FALSE /\ control = "none"
  /\ existing = 0 /\ sessions = 0 /\ mishaps = {}

(* The batch loop *)

\* Mutant: planning ignores what is on disk (--no-resume as the default).
PlanAll == [s \in Scenarios |-> Repeats[s]]

\* build_plan with Planned.todo = max(0, repeats - already_have)
Plan ==
  [s \in Scenarios |-> IF Existing(s) > Repeats[s] THEN 0 ELSE Repeats[s] - Existing(s)]

\* The operator starts the batch; with nothing to do it returns at once.
Start ==
  /\ pc = "off"
  /\ sessions < MaxSessions
  /\ \E s \in Scenarios : Plan[s] > 0
  /\ sessions' = sessions + 1
  /\ left' = Plan
  /\ done' = 0 /\ failed' = 0 /\ consecutive' = 0
  /\ stop' = FALSE
  /\ existing' = Cardinality(Usable)
  /\ control' = "none"
  /\ pc' = "check"
  /\ UNCHANGED <<disk, procs, goal, failing, mishaps>>

\* SIGINT, --max-runs or --budget-hours.  All three are looked at nowhere but at
\* the top of the loop, so it is enough to let them happen there.
Interrupt ==
  /\ pc = "check"
  /\ ~stop
  /\ stop' = TRUE
  /\ UNCHANGED <<disk, procs, pc, run, mishaps, left, done, failed, consecutive,
                 existing, sessions>>

Finish ==
  /\ pc = "check"
  /\ stop \/ \A s \in Scenarios : left[s] = 0
  /\ pc' = "off"
  /\ UNCHANGED <<disk, procs, tally, run, mishaps>>

\* server_healthy decides between the run and revive_server.
Check ==
  /\ pc = "check"
  /\ ~stop
  /\ \E s \in Scenarios : Turn(s)
  /\ pc' = IF server = "down" THEN "revive" ELSE "preflight"
  /\ UNCHANGED <<disk, procs, tally, run, mishaps>>

\* revive_server runs "serve_native.sh up", whatever the stack.  It starts a nominal
\* server on the host, next to whatever is already coming up, writes
\* native_state.json, and waits for /health, for its process to be gone or for a
\* timeout.  A server that will not come back stops the batch.
Revive ==
  /\ pc = "revive"
  /\ starting' = starting \cup {"nominal"}
  /\ nativeState' = TRUE
  /\ mishaps' = IF container # "none" THEN mishaps \cup {"beside"} ELSE mishaps
  /\ pc' = "reviving"
  /\ UNCHANGED <<dirs, cut, server, container, inside, hog, tally, run>>

Revived ==
  /\ pc = "reviving"
  /\ server # "down"
  /\ pc' = "preflight"
  /\ UNCHANGED <<disk, procs, tally, run, mishaps>>

\* The script may also fail before it starts anything.
ReviveGivesUp ==
  /\ pc = "revive" \/ (pc = "reviving" /\ server = "down")
  /\ pc' = "off"
  /\ UNCHANGED <<disk, procs, tally, run, mishaps>>

(* One call of run_experiment *)

\* Either way the loop moves on to the next repeat.
Attempted == \E s \in Scenarios : Turn(s) /\ left' = [left EXCEPT ![s] = @ - 1]

\* Mutant: the handler forgets its tally.
FailedUncounted ==
  /\ consecutive' = consecutive + 1
  /\ pc' = IF consecutive' >= MaxFailures THEN "off" ELSE "check"
  /\ Attempted
  /\ UNCHANGED <<done, failed, stop, existing, sessions>>

\* The batch's exception handler.
Failed ==
  /\ failed' = failed + 1
  /\ consecutive' = consecutive + 1
  /\ pc' = IF consecutive' >= MaxFailures THEN "off" ELSE "check"
  /\ Attempted
  /\ UNCHANGED <<done, stop, existing, sessions>>

\* preflight: unhealthy server or Prometheus, or a metric that does not resolve.
PreflightFails ==
  /\ pc = "preflight"
  /\ Failed
  /\ UNCHANGED <<disk, procs, run, mishaps>>

\* make_run_id, mkdir and write_scenario
Preflight(s) ==
  /\ pc = "preflight"
  /\ server # "down"
  /\ Turn(s)
  /\ dirs' = Append(dirs, [scenario |-> s, files |-> {"ground_truth"}, mislabelled |-> {}])
  /\ failing' = FALSE
  /\ pc' = "baseline"
  /\ UNCHANGED <<nativeState, cut, procs, tally, goal, control, mishaps>>

\* generator.run asks the server for its model, and raises when it is gone: at
\* the start of the run, and again on the server a configuration fault relaunched.
GeneratorFails ==
  /\ \/ pc = "baseline"
     \/ pc = "fault" /\ Kind[dirs[Here].scenario] = "config"
  /\ server = "down"
  /\ failing' = TRUE
  /\ pc' = "cleanup"
  /\ UNCHANGED <<disk, procs, tally, goal, control, mishaps>>

\* A window that did not show what its label says is noted for the properties.
Note(window, wrong) ==
  dirs' = [dirs EXCEPT ![Here].mislabelled = IF wrong THEN @ \cup {window} ELSE @]

\* Warmup and baseline are over and the fault of a scenario of this kind is due.
\* What health() makes of the baseline is a flag in timeline.json that neither
\* this run nor count_existing reads.
Inject(kind) ==
  /\ pc = "baseline"
  /\ Kind[dirs[Here].scenario] = kind
  /\ Note("baseline", server = "degraded" \/ hog # {})

\* control(): the backend is detected at its first use by a process.  Without
\* native_state.json it is docker, if "docker ps" succeeds.
Detected(c) ==
  /\ c \in IF control # "none" THEN {control}
           ELSE IF nativeState THEN {"native"} ELSE {"compose", "native"}
  /\ control' = c

InjectConfig ==
  /\ Inject("config")
  /\ \E c \in {"native", "compose"} : Detected(c)
  /\ goal' = "degraded"
  /\ pc' = "relaunch"
  /\ UNCHANGED <<nativeState, cut, procs, tally, failing, mishaps>>

InjectWorkload ==
  /\ Inject("workload")
  /\ pc' = "fault"
  /\ UNCHANGED <<nativeState, cut, procs, tally, run, mishaps>>

\* start_cpu_hog: busy loops, or a quota on the running container.
InjectInfra ==
  /\ Inject("infra")
  /\ \/ Detected("native") /\ hog' = hog \cup {<<"loops", "own">>}
     \/ Detected("compose") /\ container # "none" /\ hog' = hog \cup {<<"quota", "own">>}
  /\ pc' = "fault"
  /\ UNCHANGED <<nativeState, cut, server, starting, container, inside, tally, goal,
                 failing, mishaps>>

\* A later worker fails to spawn: the exception leaves without the token that
\* would stop the earlier ones.  Docker fails, or there is no container: nothing
\* was done.
InjectInfraFails ==
  /\ Inject("infra")
  /\ \/ /\ Detected("native")
        /\ hog' = hog \cup {<<"loops", "stray">>}
        /\ mishaps' = mishaps \cup {"control"}
     \/ Detected("compose") /\ UNCHANGED <<hog, mishaps>>
  /\ failing' = TRUE
  /\ pc' = "cleanup"
  /\ UNCHANGED <<nativeState, cut, server, starting, container, inside, tally, goal>>

FaultWindow ==
  /\ pc = "fault"
  /\ Note("fault", Kind[dirs[Here].scenario] = "config" /\ server = "nominal")
  /\ pc' = "collect"
  /\ UNCHANGED <<nativeState, cut, procs, tally, run, mishaps>>

\* Mutant: the parquet file is written before the frame is tested for data.
CollectEmptyWrites ==
  /\ pc = "collect"
  /\ dirs' = [dirs EXCEPT ![Here].files = @ \cup {"metrics"}]
  /\ failing' = TRUE
  /\ pc' = "cleanup"
  /\ UNCHANGED <<nativeState, cut, procs, tally, goal, control, mishaps>>

\* Prometheus is unreachable or has no data for the window.
CollectFails ==
  /\ pc = "collect"
  /\ failing' = TRUE
  /\ pc' = "cleanup"
  /\ UNCHANGED <<disk, procs, tally, goal, control, mishaps>>

\* The file counts from the moment it is created, written to its end or not.
Collect ==
  /\ pc = "collect"
  /\ dirs' = [dirs EXCEPT ![Here].files = @ \cup {"metrics"}]
  /\ pc' = "timeline"
  /\ UNCHANGED <<nativeState, cut, procs, tally, run, mishaps>>

Timeline ==
  /\ pc = "timeline"
  /\ dirs' = [dirs EXCEPT ![Here].files = @ \cup {"timeline"}]
  /\ pc' = "cleanup"
  /\ UNCHANGED <<nativeState, cut, procs, tally, run, mishaps>>

\* The rest of the parquet file, or timeline.json, cannot be written.
TimelineFails ==
  /\ pc = "timeline"
  /\ cut' = cut \cup {Here}
  /\ failing' = TRUE
  /\ pc' = "cleanup"
  /\ UNCHANGED <<dirs, nativeState, procs, tally, goal, control, mishaps>>

\* The finally block stops the generator and settles; a configuration fault is
\* undone by another relaunch.
Undo ==
  IF Kind[dirs[Here].scenario] = "config"
  THEN /\ \E c \in {"native", "compose"} : Detected(c)
       /\ goal' = "nominal" /\ pc' = "relaunch"
  ELSE /\ pc' = "score"
       /\ UNCHANGED <<goal, control>>

\* Mutant: recovery only on the way out of a run that went well.
CleanupOnSuccess ==
  /\ pc = "cleanup"
  /\ hog' = IF failing THEN hog ELSE {h \in hog : h[2] = "stray"}
  /\ IF failing THEN pc' = "score" /\ UNCHANGED <<goal, control>> ELSE Undo
  /\ UNCHANGED <<disk, server, starting, container, inside, tally, failing, mishaps>>

\* With a token, the loops are killed and the quota is lifted, whoever set it.
Cleanup ==
  /\ pc = "cleanup"
  /\ hog' = IF <<"quota", "own">> \in hog THEN hog \ Quotas ELSE hog \ {<<"loops", "own">>}
  /\ Undo
  /\ UNCHANGED <<disk, server, starting, container, inside, tally, failing, mishaps>>

\* stop_cpu_hog does not look at what docker says: the quota may stay.
CleanupUnlifted ==
  /\ pc = "cleanup"
  /\ <<"quota", "own">> \in hog
  /\ hog' = (hog \ {<<"quota", "own">>}) \cup {<<"quota", "stray">>}
  /\ mishaps' = mishaps \cup {"control"}
  /\ Undo
  /\ UNCHANGED <<disk, server, starting, container, inside, tally, failing>>

\* score_run and rca_report.json
Score ==
  /\ pc = "score"
  /\ ~failing
  /\ done' = done + 1
  /\ consecutive' = 0
  /\ Attempted
  /\ pc' = "check"
  /\ UNCHANGED <<disk, procs, run, failed, stop, existing, sessions, mishaps>>

\* The exception in flight, or one of the diagnosis, reaches the batch loop.
RunFails ==
  /\ pc = "score"
  /\ Failed
  /\ UNCHANGED <<disk, procs, run, mishaps>>
-----------------------------------------------------------------------------
(* ServerControl.restart_with and restore *)

\* The exception is one of the injection, or of the restore, where it replaces
\* whatever was in flight.
Raised ==
  /\ failing' = TRUE
  /\ pc' = IF goal = "degraded" THEN "cleanup" ELSE "score"

\* NativeControl without a state file; ComposeControl without a running container
\* or when docker fails, which leaves a running container as it is.
RelaunchRaises ==
  /\ pc = "relaunch"
  /\ control = "native" => ~nativeState
  /\ mishaps' = IF control = "compose" /\ container # "none"
                THEN mishaps \cup {"control"} ELSE mishaps
  /\ Raised
  /\ UNCHANGED <<disk, procs, tally, goal, control>>

\* ComposeControl._recreate replaces the container, and its quota with it.  The
\* new one may fail to start, and then there is none.
Recreates(c) ==
  /\ pc = "relaunch"
  /\ control = "compose"
  /\ container # "none"
  /\ container' = c
  /\ server' = "down" /\ inside' = FALSE
  /\ hog' = hog \ Quotas
  /\ UNCHANGED <<disk, starting, tally, goal, control, mishaps>>

Recreate      == Recreates(goal) /\ pc' = "health" /\ UNCHANGED failing
RecreateFails == Recreates("none") /\ Raised

\* NativeControl._relaunch: pkill -f "vllm serve" ends what is coming up on the host
\* and asks the server to end.
Pkill ==
  /\ pc = "relaunch"
  /\ control = "native"
  /\ nativeState
  /\ starting' = {}
  /\ pc' = "poll"
  /\ UNCHANGED <<disk, server, container, inside, hog, tally, run, mishaps>>

Launch ==
  /\ starting' = starting \cup {goal}
  /\ pc' = "health"
  /\ UNCHANGED <<disk, server, container, inside, hog, tally, run>>

\* Mutant: the replacement is launched without waiting for the port.
PollNot == pc = "poll" /\ Launch /\ UNCHANGED mishaps

\* The connection to /health is refused: the port is free for the replacement.
PollGone ==
  /\ pc = "poll"
  /\ server = "down"
  /\ Launch
  /\ UNCHANGED mishaps

\* The poll is over with the old server still there: range(60) runs out, or one
\* answer takes longer than the 2 s of the request, whose ReadTimeout ends the loop
\* as a refused connection does.
PollOutlived ==
  /\ pc = "poll"
  /\ server # "down"
  /\ Launch
  /\ mishaps' = mishaps \cup {"control"}

\* wait_for_health is content with whichever server answers.
Healthy ==
  /\ pc = "health"
  /\ server # "down"
  /\ pc' = IF goal = "degraded" THEN "fault" ELSE "score"
  /\ UNCHANGED <<disk, procs, tally, run, mishaps>>

\* Mutant: no deadline.
HealthNoDeadline == pc = "health" /\ server = "down" /\ UNCHANGED vars

\* HEALTH_TIMEOUT_S passes.
HealthTimeout ==
  /\ pc = "health"
  /\ server = "down"
  /\ Raised
  /\ UNCHANGED <<disk, procs, tally, goal, control, mishaps>>
-----------------------------------------------------------------------------
(* The server and the outside world *)

\* A server that was told to, or crashed.  Nothing restarts a container, and its
\* quota is gone with it.
ServerExits ==
  /\ server # "down"
  /\ server' = "down"
  /\ inside' = FALSE
  /\ container' = IF inside THEN "none" ELSE container
  /\ hog' = IF inside THEN hog \ Quotas ELSE hog
  /\ UNCHANGED <<disk, starting, pc, tally, run, mishaps>>

\* A process of the host that was coming up answers, once the port is free.
ServerUp(c) ==
  /\ c \in starting
  /\ server = "down" /\ container = "none"
  /\ server' = c
  /\ starting' = starting \ {c}
  /\ UNCHANGED <<disk, container, inside, hog, pc, tally, run, mishaps>>

\* It fails to bind, rejects a flag, runs out of memory.
StartFails(c) ==
  /\ c \in starting
  /\ starting' = starting \ {c}
  /\ UNCHANGED <<disk, server, container, inside, hog, pc, tally, run, mishaps>>

ContainerUp ==
  /\ container # "none" /\ ~inside
  /\ server = "down"
  /\ server' = container
  /\ inside' = TRUE
  /\ UNCHANGED <<disk, starting, container, hog, pc, tally, run, mishaps>>

ContainerFails ==
  /\ container # "none" /\ ~inside
  /\ container' = "none"
  /\ hog' = hog \ Quotas
  /\ UNCHANGED <<disk, server, starting, inside, pc, tally, run, mishaps>>

\* Busy loops, quotas and servers outlive the batch.
Kill ==
  /\ pc # "off"
  /\ pc' = "off"
  /\ hog' = {<<h[1], "stray">> : h \in hog}
  /\ cut' = IF pc = "timeline" THEN cut \cup {Here} ELSE cut
  /\ mishaps' = mishaps \cup {"kill"}
  /\ UNCHANGED <<dirs, nativeState, server, starting, container, inside, tally, run>>

BatchStep ==
  \/ Finish \/ Check \/ Revive \/ Revived \/ ReviveGivesUp
  \/ PreflightFails
  \/ \E s \in Scenarios : Preflight(s)
  \/ GeneratorFails
  \/ InjectConfig \/ InjectWorkload \/ InjectInfra \/ InjectInfraFails
  \/ FaultWindow \/ Collect \/ CollectFails \/ Timeline \/ TimelineFails
  \/ Cleanup \/ CleanupUnlifted
  \/ Score \/ RunFails
  \/ RelaunchRaises \/ Recreate \/ RecreateFails
  \/ Pkill \/ PollGone \/ PollOutlived \/ Healthy \/ HealthTimeout

ServerStep ==
  \/ ServerExits
  \/ \E c \in Configs : ServerUp(c) \/ StartFails(c)
  \/ ContainerUp \/ ContainerFails

Next == Start \/ BatchStep \/ ServerStep \/ Interrupt \/ Kill

\* Next comes a docker or pkill command that is run without a timeout: docker ps and
\* update of start_cpu_hog, update of stop_cpu_hog, docker ps and compose up of
\* _recreate, pkill of _relaunch.
InCall ==
  \/ /\ pc = "baseline" /\ Kind[dirs[Here].scenario] = "infra"
     /\ control = "compose" \/ (control = "none" /\ ~nativeState)
  \/ pc = "cleanup" /\ <<"quota", "own">> \in hog
  \/ pc = "relaunch" /\ (control = "compose" \/ nativeState)

\* The batch process keeps running: its waits for an answer over HTTP, and for
\* serve_native.sh, have deadlines, but nothing ends a docker or pkill command that
\* hangs.  Nothing is assumed of the server, nor that anyone starts the batch again.
\* (Every step of the batch moves pc.)
Spec == Init /\ [][Next]_vars /\ WF_pc(~InCall /\ BatchStep)
-----------------------------------------------------------------------------
(* Properties *)

Directory ==
  [scenario : Scenarios, files : SUBSET Files,
   mislabelled : SUBSET {"baseline", "fault"}]

TypeOK ==
  /\ dirs \in Seq(Directory)
  /\ cut \subseteq Nat
  /\ server \in Configs \cup {"down"}
  /\ starting \subseteq Configs
  /\ container \in Configs \cup {"none"}
  /\ inside => server = container /\ container # "none"
  /\ hog \subseteq Hogs
  /\ control \in {"none", "native", "compose"}
  /\ pc \in Phases
  /\ left \in [Scenarios -> Nat]
  /\ {done, failed, consecutive, existing, sessions} \subseteq Nat
  /\ {stop, failing, nativeState, inside} \subseteq BOOLEAN
  /\ goal \in Configs
  /\ mishaps \subseteq {"kill", "control", "beside"}

\* Kill the batch at any point and rerun it: no scenario ever gets more usable
\* directories than it has repeats, although failed runs may leave usable ones
\* and a killed run is counted only by what it left on disk
\* (run_vllm_batch.py:8-10).
NeverRedone == \A s \in Scenarios : Existing(s) <= Repeats[s]

\* Between runs the batch's tally agrees with the disk: each run it calls
\* captured left a usable directory, and none appeared without being charged
\* to a run, captured or failed (run_vllm_batch.py:261-268).
TallyHonest ==
  pc = "check" =>
    LET new == Cardinality(Usable) - existing
    IN done <= new /\ new <= done + failed

\* The batch was not killed, no old server outlived its poll, all busy loops spawned
\* and docker did as it was told.
Undisturbed == mishaps \subseteq {"beside"}

\* Undisturbed, a run that failed at any point, the injection and the recovery
\* included, leaves no fault behind for the next one; also where revive_server put a
\* host process in the place of a container or next to it, and later runs and
\* sessions work on the one with the backend of the other
\* (run_vllm_experiment.py:322-329, server_control.py:205-209).
ServerRestored ==
  pc = "check" /\ Undisturbed =>
    "degraded" \notin {server, container} \cup starting /\ hog = {}

\* Undisturbed, a usable trace is what its label says.  Its baseline was recorded on
\* a nominal server, whatever crashed and was revived before it; and a configuration
\* fault labels only traces in which the server ran with it, or not at all: the
\* health check is not satisfied by the server that was to be replaced
\* (server_control.py:148-170).  The second half needs more: a host process that
\* revive_server started next to a container that was only slow to come up takes
\* the port when a later, degraded container dies, and passes for it.
LabelsTrue ==
  Undisturbed => \A i \in Usable :
    dirs[i].mislabelled \subseteq (IF mishaps = {} THEN {} ELSE {"fault"})

\* The directories that count as captured, and so are never captured again, but
\* lack the timeline without which load_run can score nothing (eval/replay.py:99-117),
\* are those of the runs that were killed or failed between their metrics and their
\* timeline: nothing else the batch does leaves one, whatever else goes wrong.
CountedCanBeScored ==
  {i \in Usable : "timeline" \notin dirs[i].files} =
    IF pc = "timeline" THEN cut \cup {Here} ELSE cut

\* Every session of the batch ends, with the server crashing and coming back as it
\* likes and no answer ever coming, unless it hangs for ever in a docker or pkill
\* command (server_control.py:60-70, :152).
BatchEnds == (pc # "off" ~> pc = "off") \/ <>[]InCall

(* A statement of the documentation the code does not keep. *)

\* run_vllm_batch.py:8-10: kill it at any point and restart it, and it picks up
\* where it stopped: the traces of the restarted batch are like any others.
RestartIsClean ==
  "control" \notin mishaps =>
    \A i \in Usable : "baseline" \notin dirs[i].mislabelled
=============================================================================
