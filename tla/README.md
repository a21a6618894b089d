# A TLA+ development of microservice-blackbox-rca

The repository diagnoses incidents in a distributed system from metrics alone
(`rca_engine/`), produces the labelled incidents to evaluate that diagnosis on
(`workload/`, `fault_injection/`, `infra/`, `eval/`), and calibrates how fast an
anomaly travels along a dependency edge (`calibration/`).  Two systems are diagnosed:
Google's Online Boutique (services and their calls) and vLLM (mechanisms of one
inference server).

This directory holds TLA+ modules for the parts whose correctness lies in control
flow: which loop visits what in which order, what a failure leaves behind, who races
whom.  Line numbers below are paths in the repository.

## The system

### Components, their state and their operations

**Fault chain** (`rca_engine/fault_chain.py`, `dependency.py`, `domains/`).  One call
of `pinpoint_report` on one thread.  State: `service_onsets`, `service_trends`, the
list `pinpointed`, the report.  Operations, in order: Layers 1-4 per metric
(`_analyze_metric`), Layer 5 per service (earliest lag-compensated onset), Layer 6
(external cause, exclusion, primary), Layer 7 (concurrent faults, with or without a
propagation map), Layer 8 (dependency filter), ranking, `_classify`.
Hard: two loops append to a list that one of them also tests against, one of them
breaks early, and gaps, windows and paths meet at their boundaries.
Correct when no input, SLI or co-symptom is named, no abnormal component is dropped
unexplained, no explained one is named, and the verdict has the evidence it stands for.

**Graph searches** (`rca_engine/dependency.py`).  `has_path` and `find_path`: a queue
and a visited set each.  Correct when the answers are exact on any graph, cycles
included, and agree with each other (`get_path_threshold` uses one after the other).

**Detection** (`change_point.py`, `smoothing.py`, `predictability_filter.py`,
`tangent_rollback.py`).  CUSUM scores, the groups of crossings and their last reset, the
walk back to the onset, the rollback.  Correct when an event is one run of crossings, an
onset explains its alarm best, and dictionaries keyed by onset lose nothing.

**Normal model** (`normal_model.py`).  One Markov chain per metric: transition counts and
the matrix made of them, a frozen flag, the last bin.  Operations: `fit`,
`from_checkpoint`, `update`, `freeze`, `unfreeze`, `prediction_errors_for`.  Hard: counts
and matrix are kept apart and updated by row, by batch or by copy; the last bin survives
a freeze.  Correct when every prediction follows from what was learned, a frozen model
learns nothing, and no more than one move per freeze was never made.

**Capture of vLLM traces** (`eval/run_vllm_batch.py`, `eval/run_vllm_experiment.py`,
`eval/server_control.py`, `deploy/vllm/serve_native.sh`).  State: trace directories
on disk, `native_state.json`, the server process or container, processes coming up, CPU
busy loops or the container's quota; in the batch the plan, the tallies, `_stop` and the
backend chosen by `control()`.  Operations: plan from disk, check and
revive the server, preflight, warmup and baseline, injection, fault window, collection,
timeline, restore, scoring; relaunch as kill, poll, launch, wait for
health on the host, or as one recreation under docker.
Hard: the server dies or comes up whenever it likes, each step of a run may raise,
waits over HTTP time out and docker commands have no timeout, the batch may be
interrupted or killed.
Correct when nothing captured is redone, the tally is honest, a fault never outlives
its run, a label always says what the server did, and the batch ends.

**vLLM workload generator** (`workload/generator.py`, `workload/scenarios.py`).  A
pacing thread, one worker thread per request, shared phase, counters and result list
under a lock, a prefix pool without one.  Operations: `run`, `set_phase`, `_send`,
`health`, `stop`.  Correct when the rate is the phase's, a catch-up burst is bounded,
the counters balance and the pacing thread ends.

**Boutique runners** (`eval/run_experiment.py`, `eval/run_experiment_slo.py`,
`eval/run_batch.py`, `infra/loadgen.py`, `fault_injection/inject.py`,
`fault_injection/chaos_inject.py`).  The runner, the load generator's workers, the SLO
monitor thread and the injector process; they share samples, an event and a ground
truth file.  Correct when every run saves its results, the cluster is left as it was
found, and the trigger time and the fault window fit together.

**Propagation map and calibration** (`calibration/propagation_map.py`,
`calibration/calibrate.py`).  Delays per edge, their medians and thresholds, one JSON
file replaced after each trial and read by any diagnosis.  Hard: the campaign dies
anywhere, also while it writes; trials fail or observe nothing.  Correct when the map on
disk is one of whole trials and not far behind the campaign, and what was not observed
never widens a window.

**Markov checkpoints** (`rca_engine/markov_checkpoint.py`,
`rca_engine/scripts/train_markov_checkpoints.py`).  One file per key and window, a
manifest per key, a pin in a configuration file.  Operations: two modes of training (as
each window's time comes, or prefixes of past traffic), save, load, list, select.  Hard:
files are written in place, one after the other, while diagnoses read them; runs follow
each other after kills; training may outlast the wait for the next window.  Correct when
manifests tell what the files hold, a checkpoint covers the time in its name, and a
selected one can be read and is no longer than the history at hand.

**LLM baseline** (`eval/llm_baseline.py`).  A cache of responses by prompt hash.
Correct when an answer comes from the same question.

**Ground truth, replay, evaluation** (`fault_injection/ground_truth.py`,
`eval/replay.py`, `eval/metrics.py`, `eval/run_eval.py`): readers of finished traces.
**Metrics client, command line, other baselines, one-shot tools, deployment**: I/O and
arithmetic without lasting state.

### How they interact

    matrix file --> run_vllm_batch --> run_vllm_experiment --> generator --> vLLM server
                        ^   |                |     |                          ^
                        |   +-- revive ------+-----|--- serve_native.sh ------+
                        |                          +--- server_control -------+
                 count_existing                    |
                        |                          v
                        +-------------------- trace directory --> replay --> fault chain
    loadgen, injector, SLO monitor --> run_experiment --> fault chain --> results file
    calibrate --> propagation map --> fault chain (Layer 7)
    train_markov_checkpoints --> checkpoints, manifests --> normal model (Layer 2)

The batch and the evaluation meet only on disk; the batch and the server only through
`/health`, `pkill` and a launch, or docker.  Within a process the parties are threads that share
plain Python objects.

## Plan

| # | modules | what they model | state |
|---|---------|-----------------|-------|
| 1 | `Dependency`, `HasPathBFS` | reachability; the two searches that compute it; proofs, in `FaultChainProofs` | done |
| 2 | `FaultChain`, `RootCauses`, `FaultChainProofs` | Layers 5-8 and the report; what they promise; proofs | done |
| 3 | `VllmCapture`, `VllmCaptureProofs` | batch, run, both backends, server, disk; proofs of its accounts, its recovery and its labels | done |
| 4 | `WorkloadGenerator`, `WorkloadGeneratorProofs` | pacing thread, phase switch, stop; proofs | done |
| 5 | `BoutiqueRun`, `BoutiqueRunProofs` | runner, SLO monitor, injectors, the resources in the cluster; proofs | done |
| 6 | `Detection`, `DetectionProofs` | CUSUM, crossings, last reset, gate, rollback, against definitions of event, onset and slope; proofs | done |
| 7 | `NormalModel`, `NormalModelProofs` | transition counts and matrix through fits, freezes and replacements; proofs | done |
| 8 | `Calibration`, `CalibrationProofs` | campaign, propagation map, thresholds, saves and deaths; proofs | done |
| 9 | `Checkpoints`, `CheckpointsProofs` | both modes of training, files, manifests, choice by a diagnosis; proofs | done |
| 10 | more of the proof modules | `MissesNarrowOnly`, the last safety property that was model-checked only; windows and paths; the measures by which loops end | done |
| 11 | `LlmCache`; workers and `health()` of `generator.py` | cache keys; counters, pruning | perhaps |

Abstract specifications: `RootCauses` for the fault chain (done); for the searches the
definition in `Dependency` (done); for the detection an event as a maximal run of
crossings and an onset as the window of most evidence (done, as invariants); for the
normal model a batch over all that was learned (done, as invariants); for a campaign a
map of whole trials (done, as an invariant).

No theorem is left in the plan: every safety property that a passing run checks is proved,
and of liveness what the prover can say (below).

## Modules

**`Dependency`** defines `Reachable(g, src, dst)` without recursion, so that proofs may
use it: every set of nodes that holds `src` and that no edge leaves holds `dst`.  It
is reflexive, as the first test of `has_path` makes it.

**`HasPathBFS`** is the two loops of `dependency.py:40-81`, one action per branch of an
iteration.  `has_path` marks a node when it is popped and tests the target there;
`find_path` tests each neighbour for the target.  They run on the same query.  `Unseen` is
the inner loop that queues what was not expanded yet, as a recursive function, which
proofs can unfold.

**`FaultChain`** is one call of `pinpoint_report`.  `pc` names the loop, `todo` what
the loop has still to visit; a visit is an action whose guard `IsFirst` is the sort
order.  Layers 1-4 appear as the constant `Evidence`, the sets of findings they may
produce for a service: (index, metric, direction).  `AnalyseAbnormal` picks the
earliest timestamp after subtracting the metric's lag, and the trend of the set.
`Layer6*`, `Layer7*`, `Layer8*` follow the branches of `pinpoint_faults`; the dict
order by which Python's stable sort breaks ties is the constant `DictPos`.  `Rank`
chooses any ranking that respects "pinpointed, then onset": the rest of the key is a
confidence, which is arithmetic.  `Classify` is `_classify`, branch by branch.

**`RootCauses`** says what Layers 6-8 promise without loops: in onset order, a
candidate is a root exactly if no earlier root excuses it; an excuse is a path in
either direction together with the timing that the mode asks for.

**`FaultChainProofs`**: the theorems about the fault chain below, and those about the searches
it asks for paths: it extends `HasPathBFS` as well, which has a graph and a state of its own.

**`VllmCapture`** has three parties.  The batch process is a program counter `pc`
through the loop of `run_vllm_batch.main`, through `run_experiment` with its `finally`
block, and through a relaunch by either backend of `server_control.py`.  The server is
what `/health` reaches (`server`): a process of the host, with others on their way up
(`starting`), or the process of a container (`container`, `inside`).  `hog` holds the CPU
faults in effect, busy loops or the container's quota: "own" while the batch has the
token that undoes them, "stray" once no one does.  `Stacks` is how the operator brought
the server up; `revive_server` always uses `serve_native.sh`, so a host process may
take the place of a container, after which `detect` chooses differently in the next process.
The world crashes servers, lets launches fail or come up late, and kills or
interrupts the batch.  `dirs` is the disk: per directory the scenario, the files written
so far, and, for the properties only, which windows did not show what the label says.
`cut` holds the directories of runs that were killed or failed between their metrics and
their timeline.  `mishaps` records the events under which the recovery is known not to
hold: a "kill"; "control" for an old server that outlives the poll (60 answers, or one slower
than 2 s), a busy loop that does not spawn, and docker refusing; and "beside", under which a label may be wrong: `revive_server` starting a host process
where there is a container.

**`VllmCaptureProofs`**: its theorems.

**`BoutiqueRun`** is a series of Boutique experiments.  The runner walks through
`run_batch`, then `run_experiment.py` or `run_experiment_slo.py`, which differ in where
they harvest the monitor, whether a failed diagnosis is caught, and how long they wait
for the injector.  The monitor thread is a check of the stop event followed by a poll
that may be in flight when the runner sets it.  An injector is a process per run, with
its own copy of the targets: `chaos_inject.py` labels, applies, confirms, sleeps,
deletes; `inject.py` starts scripts inside pods.  `resource` says whose chaos resource
holds a name in the cluster, `scripts` what still runs inside pods, `dropped` which
`kubectl exec` calls ended before their scripts.  Applying a resource and the fault taking
effect are two things: `Confirm` lets an injection fail, stay unconfirmed, or be confirmed by
the resource an earlier run left, and the injector goes on in each case.  A deletion may fail
and leave no trace but `undeleted`, an account of the model.  A dead runner leaves
the injector running until it writes to the broken pipe.

**`BoutiqueRunProofs`**: its theorems.

**`WorkloadGenerator`** is the pacing thread of `workload/generator.py`, the experiment
that calls `set_phase` and `stop()`, and a clock.  The clock ticks between any two
steps: the thread may be late everywhere, its sleep may end early only by the stop
event.  One action per branch of an iteration; reading the phase and handing the
request to a worker are two.  `owed`, `burst`, `stale` and `late` are the model's
accounting of what was dispatched.

**`WorkloadGeneratorProofs`**: its theorems.

**`Detection`** is one call of `_analyze_metric`: the CUSUM recurrence sample by sample,
the scan over crossings, the walk back through the detector that fired, the effect size
gate, the crossing at which each change point is judged, and one rollback per change
point that Layers 2 and 3 let through (any set: their numbers are not modelled).  The
series is in whole standard deviations, the bootstrap threshold is the constant `H`.

**`DetectionProofs`**: its theorems.

**`NormalModel`** is the Markov chain of one metric: `Discretize` with its clamps, the
counts, the weights of each row of the matrix (uniform for an unseen bin, as in the
code), `Fit`, `FromCheckpoint`, `Update`, `Freeze`, `Unfreeze`, and the errors of a
series (of bins equally likely the first is predicted, as by numpy).  `base`,
`seen`, `stream` and `freezes` are the model's record of what the metric did.

**`NormalModelProofs`**: its theorems.

**`Checkpoints`** is the training script in both modes (`train_checkpoints_as_ready`,
`train_window_checkpoints`) and the files.  A file is absent, torn while it is written
and for good if the process dies then, or a record of what the checkpoint was trained
on.  Time passes in sleeps, and up to `MaxLate` seconds anywhere else; Prometheus may give
a short answer or none, or an error that `query_service_metric` does not catch (`QueryRaises`:
an HTTP error, a slow answer, one that is not JSON) and that ends the run.  A diagnosis
changes nothing, so it is the operators `Select` and `ModelSource`, evaluated in every state.

**`CheckpointsProofs`**: its theorems.

**`Calibration`** is a campaign target by target and trial by trial, with `PropagationMap`:
`Recorded` and `Entry` are `record_observation` and `_recompute_edge`, `PathThreshold` is
`get_path_threshold`, a sum along the path that `find_path` returns.  Medians are doubled and
thresholds quadrupled, so all is integer.  `observed` is the model's record of the delays that
trials did observe, which the code's map does not tell from misses.
The process dies anywhere, also between truncating the file and writing it, and is started again.

**`CalibrationProofs`**: its theorems.

The modules called `MC...` give the constants values.

Operators called "Mutant" in a comment are plausible mistakes.  Nothing uses them;
each one put in the place of the definition it varies makes some property fail.

`TypeOK` is stated in every module.  The runs of `FaultChain`, `Detection` and
`WorkloadGenerator` check it, and where it is not in a `.cfg` it holds on the same
instance and is there for the reader and for proofs.

## Runs

| run | question | bounds |
|-----|----------|--------|
| `has_path` | Are both searches exact, shortest, in agreement and terminating? | all graphs of 3 nodes with up to 2 neighbours in either order and self-loops; a family of 4-node graphs; every query |
| `fault_chain` | Do Layers 6-8 name exactly the roots `RootCauses` specifies; are exclusion, external cause, lag, ranking and verdict consistent; is there always a report? | all 64 loop-free graphs of 3 services, no map or one of two, all onsets 0..3; and 4 graphs of 4 mechanisms with load and SLI, with a co-symptom, with a service they do not know, and with neither load nor SLI, two metrics with lags 0 and 1, all pairs of findings |
| `vllm_capture` | Does the batch keep its promises whatever fails? | one scenario of each kind, both stacks, 2 sessions, limit of 2 failures in a row |
| `boutique` | Is the cluster accounted for, is every saved label true, and does the series end? | three runs, two of them with the same resource name, one with two targets, both runners, both injectors |
| `workload_generator` | Does the generator keep to its rate, and do switch and stop take effect? | a phase of 3 and one of 1 unit, sleeps of 1, resync at 2, clock up to 10 |
| `detection` | Are events, onsets and rollbacks what CUSUM and the slope define? | all series of 7 samples over -3, 0, 2, 5 deviations, K = 1, H = 3, both estimators, with and without gate |
| `normal_model` | Is the model at all times what a batch over its history would be? | 3 bins, samples below, on an edge and above, 4 baselines, 4 values and 2 freezes between fits |
| `checkpoints` | Do manifests, checkpoints and choices tell the truth, over runs, kills and concurrent diagnoses? | 2 keys, windows of 1 and 2 s, warmup 1 s, no tail, up to 2 s late, answers of 1 (too few, as none is), 2 or all samples, 2 runs in either mode, 1 kill |
| `calibration` | What does the file hold, whatever fails and dies, and what do missed observations do to the windows? | 2 targets with 1 and 2 callers, 3 trials, onsets 0 and 6 s or none, 2 campaigns |
| `restart_is_clean`, `injector_reaped`, `crash_keeps_data` | statements of comments the code does not keep | as above (`restart_is_clean` with a limit of 3) |

Why the bounds are enough.  Searches: marking when popping differs from marking when
pushing only if a node is queued twice, which three nodes allow; a path that is found
but not shortest needs two walks of different length, which four allow.  Scans: with
three services there is a primary, a service inside and one outside the window, and a
root appended by Layer 8 that has a neighbour still to visit; onsets 0..3 around a
threshold of 1 (and a window of 2 for one pair) put each gap below, at and above.  Theorems
cover the other sizes.  Verdict: one load, one SLI, one inner mechanism and one that is
a co-symptom in one graph give every branch of `_classify`.  Capture: a failure is
followed by a success and by another failure, so `consecutive` resets and reaches its
limit; a killed session is followed by one that meets its leftovers; the three kinds
have different injections and recoveries; and on a stack that began under docker a
revival is followed by the rest of its session and by a session of the other backend.  Boutique: the run that follows a killed injector
applies the same name, so a leftover meets its successor.  Generator: a unit is half a
second, which gives cap and resync limit the ratio they have in the code; the slow
period is longer than both, and the clock runs long enough for two stalls, each longer
than the resync limit, with a switch between them.  Detection: the values make a score
cross in one sample, in two, or stay and fall slowly, in both directions, so that events
follow each other closely, share an onset, or overlap in the tail of the other score.
Normal model: with two freezes and two values around each, a phantom move can meet a true
one of the same entry; theorems cover every other size.  Checkpoints: the prefix of the short
window is too short to train and that of the long one is not, training that is two seconds
late outlasts the wait for the next window and the end of the load, and a run that was
killed at any point is followed by one in either mode.  Calibration: an odd number of
trials gives medians of odd and even counts on the way, 6 s is above and 0 below the
minimum threshold, and a path of two edges sums an edge of the first target and one of the second.

Deadlock is not checked in any run: a diagnosis and a search end, and a batch with
nothing left to do is not started again.  Termination is checked as liveness instead.

### What they show

`has_path`: `HasPathExact`, `FindPathShortest` (with the first: the searches agree) and
`BothTerminate`.

`fault_chain`: `RootsJustified` (every root has a reason to be one and every other candidate
a root that explains it, in time where the mode asks for it), `RootsInOnsetOrder` (Layer 8
appends, and still never out of order; the onsets are compensated ones, so it says nothing
of whether a lag is right), `RootsAreCandidates`, `ReportProduced`,
and `ImplementsRootCauses`, the refinement, also in domains with exclusions and lag.
`ReportConsistent` says which evidence each verdict has: a pathology's top entry is a root
before which no candidate moved, and no input that rose moved strictly before everything else; for
capacity an input moved, ahead of every candidate if there is one; external is everything in one
direction; and for no anomaly neither a candidate nor an input moved.  It is less than
`fault_chain.py:89-102` says of the verdicts.  An SLI alone is "no_anomaly", not nothing
crossing a threshold (89); an SLI and then a load, up or down, without a candidate is
"capacity", though the input did not move first (96-97), as is a load at the same index as a
candidate that it precedes in the dictionary; and an SLI, a load and a candidate in this order
are a "pathology", though no internal component moved first (92) if the SLI is none.

`vllm_capture`: `NeverRedone` over kills and reruns; `TallyHonest`: what the batch
calls captured is on disk, and nothing appears there unaccounted for;
`ServerRestored` and `LabelsTrue`: short of a kill, a server outliving its poll, a
busy loop that does not spawn or docker refusing, no fault outlives its run and no window
of a usable trace is mislabelled, with servers crashing and starting at any point and
on a stack that changes its backend on the way.  In those four cases faults do outlive
runs, and nothing here says otherwise; the poll ends too early also on one answer slower
than its 2 s, against the comment at `server_control.py:149-150`.
`CountedCanBeScored`: the directories that count as captured and cannot be scored are exactly
those of runs cut off, by a kill or an error, between `metrics.parquet` and `timeline.json`.
`BatchEnds`: every session ends, unless it hangs in a docker or pkill command.

`LabelsTrue` makes an exception of the fault window (never of the baseline) where
`revive_server` has started a host process next to a container.  If the container was only
slow to come up, and a later, degraded one dies in the fault window, the nominal host process takes
the port, and neither `wait_for_health` nor the batch can tell.  It takes a repeated
configuration fault to get there, with docker chosen by the first repeat, a revival in
between and the second repeat on the container: more than the run has.
The proof covers every matrix, and needs the exception.

`boutique`: `LeftoversAccounted` (a script or injector that outlives its run belongs to one
that was reported as failed, killed or ended with an error, and so does a chaos resource, but
for one case: where `kubectl delete` fails the warning is on a captured stderr that the runners
print only for a non-zero return code, `run_experiment.py:568`, and the return code is zero),
`FaultsStruck` (where the runs before left nothing in the cluster, a target printed as
confirmed was reached by the run's own fault; a run with return code zero may have
unconfirmed targets that nothing reached, `chaos_inject.py:116-119`), `TriggerTruth` (an SLO-triggered run has a violation from
within the fault window on record) and `SeriesEnds`.

`workload_generator`: `NeverAhead` and `BurstBounded` bound the load from above over
long and over short times; `CleanStep` makes the step change of a workload fault one
request sharp; `StopClean` does so for the end.

`detection`: `EventsAreRuns`; `OnsetsMaximiseEvidence`, the meaning of a CUSUM onset: no
window ending at the alarm deviates more, no shorter one as much;
`SameOnsetSameDirection`, on which every dict keyed by onset relies; `RollbackExact`.

`normal_model`: `LearnsAccepted` (counting by the value, through freezes, refits and
replacements, counts the moves a batch over the accepted values counts),
`PredictsFromHistory` (a row recomputed alone, an unseen bin tested on another array: every
prediction is that of the whole history), `PhantomMovesBounded` (after `unfreeze` the
last bin is still that of before, and each freeze costs at most one move never made).

`checkpoints`: `ManifestTruthful`, `BaselinesHonest` (a checkpoint named after a window was
trained on that much time, give or take the run's delay), `RunsAccounted` (what a run is
past, also when an error nobody catches ends it between two keys, it trained and listed or
skipped for want of data; and a load fails only over a file torn by a kill),
`SelectionSound` (a checkpoint that exists and cannot be loaded is such a file or one being
written; a diagnosis that nobody told which window to use fails over no other, and never uses
more history than it has).  A forced window is loaded as it is, and so is a configured one
that exists, so the choices that `Select` makes on request need no more than the first part.

`calibration`: `FileIsWholeTrials`; `ReadableFileKeepsUp` (a file that can be read is one trial
behind its campaign at most; one that cannot is being written, or lost all its trials when a
campaign died writing it); and `MissesNarrowOnly` (trials without an observation count as a
delay of zero: they narrow the window of a path, below the default even that
`propagation_map.py:69-70` documents for them, and never widen it).  The last bounds windows
and not diagnoses: take callers `c` and `g` of `p`, `c->p` only ever missed, `g->p` with a
median of 2 s, and onsets 0, 2 and 3 for `c`, `p`, `g`.  Without the misses `p` is within the
default of `c`, and `g` a root; with them `p` is a root, and `g` its victim.

The three remaining runs each end in a counterexample to a sentence of the code's own
comments; `PROJECT.json` quotes them under "findings":

- a campaign that dies in a save leaves a file no one can read, and with it loses the trials
  that the saves were to preserve (`propagation_map.py:118` against `calibrate.py:251-252`);
- a kill during a fault leaves it applied, and the restarted batch records its
  baselines under it (`run_vllm_batch.py:239`);
- a failed diagnosis makes `run_experiment.py` raise `TypeError` (`len(None)`, line 552)
  before it reaps its injector or saves its results.

Further observations, visible in the models without a run of their own:

- a kill or an error between `metrics.parquet` and `timeline.json` leaves a directory that
  `count_existing` counts for ever among the "complete traces" of its docstring and that
  `load_run` rejects (`run_vllm_batch.py:69-74`);
- repeats of one scenario are consecutive, so one that always fails ends the batch with
  its third (`run_vllm_batch.py:267`) although the header promises that it costs only itself;
- a larger window torn by a kill makes every later run in the mode "ready" abort at its
  first manifest, since it trains and lists the smaller windows first
  (`train_markov_checkpoints.py:371-377`): such runs never repair it, a run with
  `--no-loadgen` does;
- a campaign that is restarted begins with an empty map and overwrites the trials the
  saves were to preserve (`calibrate.py:219`);
- after a revival of a docker stack a process that has already chosen its backend finds no
  container, and each of its configuration scenarios fails; the next process works
  (`run_vllm_batch.py:149`, `server_control.py:211`).

### Fairness

A search and a diagnosis are loops of one thread with no waits: `WF_vars(Next)`.  The
capture batch is given `WF_pc(~InCall /\ BatchStep)`: the process keeps running, and its
waits for HTTP (poll, health, Prometheus) and for `serve_native.sh` have timeouts in the code.
`InCall` says that a docker or pkill command comes next; those have none
(`server_control.py:83-101`, `112-126`, `151`), a step from there gets no fairness, and
`BatchEnds` makes an exception of a session that hangs in one for ever.  (Each step of the batch
moves `pc`, so weak fairness on `pc` is that on all variables.)  Nothing is assumed of the
server, and nothing of the operator: no fairness for crashes, launches, interrupts or starts.
`BoutiqueRun` has `WF_vars(RunnerStep)` and `WF_vars(MonitorStep)` (each wait of the
runner and each poll of the monitor has a timeout) and nothing of injectors, which call
`kubectl` without one.  `WorkloadGenerator`, `Detection`, `NormalModel`,
`Checkpoints` and `Calibration` state safety only and assume no fairness.

## Proofs

`FaultChainProofs` proves, for every finite set of services, dict order, domain,
lag and evidence (`ServicesAssumption`, `FindingsAssumption`, `DomainsAssumption`):

| theorem | property |
|---------|----------|
| `TypeCorrect` | `TypeOK` |
| `RootsAreEligible` | `RootsAreCandidates` |
| `RootsAreOrdered` | `RootsInOnsetOrder` |
| `EveryVictimExplained` | (`VictimsExplained`, first part of `RootsJustified`) |
| `LateRootsAreIndependent` | (`LateRootsIndependent`, second part) |
| `MapRootsAreOutsideWindow` | (`MapRootsOutsideWindow`, third part) |
| `RootsAreJustified` | `RootsJustified` |
| `ReportsAreConsistent` | `ReportConsistent` |
| `PipelineImplementsRootCauses` | `ImplementsRootCauses` |
| `DiagnosesAreShort` | (a bound on the steps of a diagnosis) |

None of the properties is inductive.  `IInv` adds, per phase, what the loops know:
`Anchored` (the first root is the first candidate, the list is ordered and eligible),
`InOrder` (what was visited comes before what was not), and `Decided(s)`: *s is a root
exactly if no root before it excuses it*.  An append concerns the visited service, and
only services before it can excuse it, so a decision never changes (`RootsStable`,
`AppendRoot`).  Layer 7 decides each service it visits.  The early break leaves
undecided only candidates outside the concurrency window, where Layer 8's test for any
path and the excuse, which asks for a gap outside the window, coincide; that is the heart of
`Layer8FilterStep`.  At the end every candidate is decided (`Concluded`), which is
`AreRootCauses`.  The refinement maps everything before "rank" to a collecting state.
For the report `ReportInv` says that a diagnosis that ended ranked what was abnormal, by
one of the possible rankings, and was classified by the very evidence it ranked; that the first
eligible entry of such a ranking is a root no later than the primary, is a fact about `Rankings` alone.

The same module proves, for every set of nodes and every set of graphs over it
(`GraphsAssumption`),
`SearchIsExact` (`HasPathExact`) and `FoundPathsAreShortest` (`FindPathShortest`).  `HasInv`:
what is queued or visited is reachable; the source is among it; and the visited nodes are
closed but for what is queued, so an empty queue leaves a closed set without the target.
`FindInv` adds the order that makes a breadth-first search short: the queue is in two layers,
paths as long as the one in front and then paths one node longer (`Layered`); and
every walk no longer than the one in front ends in a visited node or in a queued path
no longer than itself (`Frontier`).  A shorter walk to the target would, without its
last node, end in a visited node, beyond which there is no target, or in a queued path
shorter than the front.

Two theorems bound the loops.  `DiagnosesAreShort`: `Remaining`, what the phases to come may
cost and the services the loop of this one has left, is at most three times the number of
services and four, and every step lowers it.  `SearchesAreLinear`, for a finite set of nodes:
`HasWork` and `FindWork`, what is queued and the neighbour list entries of all nodes not yet
expanded, are lowered by every step of their own search.  Neither code keeps a node
from being queued twice, so counting nodes would not do: an expansion moves its entries from
the lists to the queue, and pops one.

`WorkloadGeneratorProofs` proves, for every set of phases with positive periods and all
natural limits (`PhasesAssumption`, `TimesAssumption`), `LoadNeverAhead` (`NeverAhead`),
`PhaseSwitchIsClean` (`CleanStep`), `StoppingIsClean` (`StopClean`), `BurstsAreBounded`
(`BurstBounded`) and `TypeCorrect` (`TypeOK`).  Here `IInv` adds
to the type invariant `OnSchedule` (the schedule is never before the sum of all periods,
which a resync, being forward, cannot break, and a request is under way only when the schedule is
reached), `OnPhase` (a request under way with an old phase is the first since the switch) and
`OnStop` (the same for the stop event).
For the burst `BurstInv` says that its second request leaves the schedule no more than `Resync`
behind and every later one brings it a period closer to now, and `FastestIs` that there is a
fastest phase, although phases may be infinitely many.

`DetectionProofs` proves, for every length of at least two samples, every series of
integers, every natural reference value and every positive threshold
(`LengthAssumption`, `ThresholdsAssumption`), `TypeCorrect` (`TypeOK`),
`OnsetDirections` (`SameOnsetSameDirection`), `RunsAreEvents` (`EventsAreRuns`),
`OnsetsCarryMostEvidence` (`OnsetsMaximiseEvidence`) and `RollbacksAreExact`
(`RollbackExact`).  `OnsetInv` adds the recurrence that the
scores satisfy up to the current sample (`Scored`), that the walk has passed positive
scores only (`Walked`), and of each recorded change point that the detector that fired
is zero just before it and positive at it (`Traced`).  The walk must find a zero, since
the first sample is one and does not cross.  A score leaves zero only through a sample
beyond the reference value in its direction (`DirectionOfOnset`), and no sample is that
in both directions.  `RunInv` follows the scan: all runs that began before it are recorded
(`Recorded`), and at a crossing it stands at the start of a run.  `EvidenceInv` keeps that
the firing score was zero just before the onset and positive from it to the alarm
(`Evident`).  Between two zeros a score is the sum of its terms (`GrowsBySum`) and otherwise
at least that, from which the comparison of windows follows.  The sum is a fold of the
community modules; `SumExists` to `SumRemove` unfold it and show that the order of its
elements does not matter.  `RollInv` says that the rollback under way is on the slope of its
start and has passed as many change points as it made rounds, so that the bound on rounds
is reached only where no change point is left.  All inductions over numbers go
through the least element of a set (`UpTo`), for want of induction over predicates.

`NormalModelProofs` proves, for every number (at least two) and width of bins, every set of
samples and every set of baselines over it (`BinsAssumption`, `SamplesAssumption`),
`TypeCorrect` (`TypeOK`), `LearnsWhatItAccepts` (`LearnsAccepted`), `PredictsFromWhatItLearned`
(`PredictsFromHistory`) and `FewPhantoms` (`PhantomMovesBounded`).  The one fact about
sequences they rest on is `MovesAppend`: a value appended to a history adds exactly the move
from the bin of the value before it.  `LearnsAccepted` is inductive with it.  For the
predictions `MatrixCurrent` adds that each row of the matrix is the one its counts give, so
that the test for unseen bins and the prediction speak of the same thing.
`PhantomInv` says where the next phantom comes from, in three cases: `OnlyBase` (nothing
learned one by one yet: counts are at most the checkpoint's), `InStep` (the last value
learned is the last the metric had: the next move is a true one) and `ToSpare` (a freeze
let values pass: one more move of the allowance is unused).

`VllmCaptureProofs` proves, for every matrix of distinct scenarios, all repeats and limits
and both stacks (`MatrixAssumption`, `LimitsAssumption`, `StacksAssumption`), `TypeCorrect`
(`TypeOK`), `NothingRedone` (`NeverRedone`) and `TheTallyIsHonest` (`TallyHonest`).  A run
becomes usable when it writes its metrics and is charged when it is scored or has failed;
`Charge` is one in between.  `PlanInv` says that what a scenario has and what it has left
exceed its repeats by the charge of its own run at most, and that the run in progress is of the
scenario whose turn it is (`OneTurn`: there is one), so a kill, which loses the charge,
loses a repeat with it.  `TallyInv` bounds the disk from both sides by the tally and the
charge.  `CollectedInv` says that a run that reaches its end without an exception is usable,
along every way through the relaunches.  All other steps leave the records
(`SameRecords`) and the accounts as they are.

It also proves `FaultsAreUndone` (`ServerRestored`), `LabelsAreTrue` (`LabelsTrue`) and
`CapturedIsScorable` (`CountedCanBeScored`).  The invariant is `Serving`.  `PortInv` and
`RelaunchInv` hold whatever happens: who has the port, and that a relaunch is one of a
configuration fault.  Undisturbed, `DegradedInv` says where the degraded configuration can
be, and that the backend that can undo it is the one this process has chosen: it is in
the container under "compose" and on the host under "native", and only between the injection
and the relaunch that undoes it.  `HogInv` does the same for the CPU faults,
`LabelInv` for what is on disk; `TimelineInv` says that outside the step between metrics and
timeline only `cut` directories have the one without the other.  Without mishaps `FaultInv` adds that nothing nominal
is left that could answer for the degraded server.  That last part is
false after "beside", as two repeats of a configuration fault show (see above), hence
the exception in `LabelsTrue`.

`SessionsShrink` is what can be proved of `BatchEnds`: each step of the batch spends one
of the repeats to attempt, or leaves them and lowers `Rank`, how far its run is from the end,
20 at most.  (That it takes the steps is another matter: a docker command may hang.)  Only a new session adds to either; servers and containers change
neither.  The relaunch is the one phase a run passes twice, and counts more the first time.

`BoutiqueRunProofs` proves, for every series of experiments with distinct targets
(`SeriesAssumption`), `TypeCorrect` (`TypeOK`), `TriggersAreTrue` (`TriggerTruth`),
`LeftoversAreReported` (`LeftoversAccounted`) and `ConfirmedAreStruck` (`FaultsStruck`).
`MonitorInv` says what the monitor may still record in each phase of the runner, and that
after the harvest nothing changes.  `LifeInv` is the life of an injector, which is reaped
unless its run is on record as failed.  `ResourceInv` says of each resource in the cluster
which of its injector's targets it is and that the injector is at a step where it may
hold it (`MayHold`): an exit code of zero leaves only what could not be deleted.
`StruckInv` says that what was confirmed after clean runs was struck, which needs that such
runs left no resource of that name; `ResourceInv` is about positions in the list of
targets, since two runs may share a name.

`SeriesShrinks` is what can be proved of `SeriesEnds`: `Distance`, the runs to come and the
steps of this one with what `SLOMonitor.stop` waits for before it joins the thread, is lowered
by every step of the runner and by every step of the monitor from the harvest on, and raised
by nobody.  Before the harvest the monitor polls as often as it likes.

`CheckpointsProofs` proves, for every finite set of windows, every step, warmup and tail, and
any number of runs and kills (`WindowsAssumption`, `NamesAssumption`), `TypeCorrect`
(`TypeOK`), `ManifestsAreTruthful` (`ManifestTruthful`), `BaselinesAreHonest`
(`BaselinesHonest`), `SelectionIsSound` (`SelectionSound`) and `RunsAreAccounted`
(`RunsAccounted`).  `TypeInv` carries how far the baseline at hand reaches in either mode.
`ListTruthful` says that what is going to be listed is in the files already, and that a key
nothing was saved of yet is as truthful as before.  `TornKnown` accounts for every torn
file.  `Progress` says, per mode, which windows of which keys the run has left behind, each
trained and listed or skipped; in the mode "ready" the loop over windows is outside
that over keys, in the mode "all" inside.

`CalibrationProofs` proves, for every graph of finitely many services, every list of distinct
targets that have callers, every number of trials and any number of campaigns and deaths (`GraphAssumption`,
`TrialsAssumption`, `NamesAssumption`), `TypeCorrect` (`TypeOK`), `FilesAreWholeTrials`
(`FileIsWholeTrials`) and `ReadableFilesKeepUp` (`ReadableFileKeepsUp`).  `Counts(m, h, n)`
describes a map of whole trials: the targets before the h-th are complete, the h-th has n
trials, those after it none.  `MemoryInv` gives the map in memory its place, `FileInv` that
of the file, which is the same or one trial behind, or of an earlier campaign while this one has
completed none.  `Fresh` says that each median and threshold is that of the delays next to
it; that a median exists and is a number rests on counting the entries below and up to it.

`MissesOnlyNarrow` (`MissesNarrowOnly`) compares the map with the one that leaves the misses
out.  `Narrower(all, some)` says that no more entries of the one list than of the other are
above any bound, and that it is no shorter; it survives the append of a delay to both
and of a zero to the first (`NarrowInv`).  Then every order statistic of the first is
at most that of the second, though they stand at different places of lists of different
length, and so are medians, thresholds and sums along a path.  An edge with misses
only is compared with the default, which is wider than the least threshold.

`PathsAreShortest`: between different services, of all walks of any length, one is among the
`Walks` no longer than the number of services, and `FindPath` is no longer than any (a
longer one repeats a service, by the pigeonhole principle, and can be cut there).  `WindowsStayOpen`:
a window read from a readable file is a natural number of quarter seconds, four at least,
and the same whichever service is named first.  This is what `FaultChain` assumes of
its maps (`DomainsAssumption`).

Only model-checked: liveness (`ReportProduced`, `BothTerminate`, `BatchEnds`,
`SeriesEnds`), since fairness and ENABLED are out of the prover's reach.  The theorems on
measures (`DiagnosesAreShort`, `SearchesAreLinear`, `SessionsShrink`, `SeriesShrinks`) prove, for
every value of the constants, that a process cannot take steps for ever; that it is not
stuck before its end rests on TLC.

## Not modelled

- Numbers that come from signal processing or statistics: bootstrap thresholds, the FFT
  that sets the expected error, confidences, moving averages, effect sizes.
- Prompts, explanations and the response cache of the LLM baseline; label validation and
  scoring arithmetic; HTTP and Prometheus queries; one-shot tools, manifests, deployment.
- The workers of `generator.py` with `health()` and the prefix pool; the sample windows
  of both load generators.
- In `VllmCapture`: a torn `native_state.json`, and two directories of one name.
- In `NormalModel`: NaN and infinite samples, and the rounding of bin edges.
- In `Checkpoints`: bin ranges, the dry run, `load_config` when its file is missing,
  fractions of a second in waits, and pods that restart under a load.  `_build_model` reads
  `checkpoint_config.json` relative to the working directory, so the pin a diagnosis sees is a parameter
  of `Select`.
- In `Calibration`: chaos resources that outlive a failed trial, the spare seconds of its
  load generator, rounding to milliseconds.

`PROJECT.json` lists every component with what is modelled of it.
