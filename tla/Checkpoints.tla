----------------------------- MODULE Checkpoints -----------------------------
(***************************************************************************)
(* Training and use of Markov checkpoints: the script                      *)
(* rca_engine/scripts/train_markov_checkpoints.py, the files it shares     *)
(* with every diagnosis (rca_engine/markov_checkpoint.py), and the choice  *)
(* a diagnosis makes among them (select_checkpoint, _build_model).         *)
(*                                                                         *)
(* A key is a service and a metric.  Its checkpoints, one per window, and  *)
(* its manifest are files written in place: while it is being written, and *)
(* for good if the process dies then, a file cannot be read ("torn").      *)
(*                                                                         *)
(* The script trains in one of two modes.  "ready" runs its own load and   *)
(* trains a window for all keys as soon as that much time has passed;      *)
(* "all" (--no-loadgen) takes the traffic of the past and trains, key by   *)
(* key, prefixes of one answer.  What a checkpoint was trained on is the   *)
(* record [run, n, behind, whole, idle]: the run, the number of samples,   *)
(* how late the baseline was cut, whether Prometheus had all of it, and    *)
(* whether it reaches past the end of the load.                            *)
(***************************************************************************)
EXTENDS Integers, FiniteSets, FiniteSetsExt

CONSTANTS
  Keys,
  Windows,        \* configured window_seconds
  Step,           \* step_seconds
  Warmup, Tail,   \* --warmup-seconds, _LOADGEN_TAIL_BUFFER_SECONDS
  ShortAnswers,   \* lengths of incomplete answers of Prometheus; 0 stands for None
  MaxLate,        \* bound: seconds a run loses to slow training and late wake-ups
  MaxRuns,        \* bound: runs of the script
  MaxKills,       \* bound: runs that are killed
  Absent, Torn, NoWindow, NoKey

Modes == {"ready", "all"}

ASSUME WindowsAssumption ==
  /\ IsFiniteSet(Windows) /\ Windows # {} /\ Windows \subseteq Nat \ {0}
  /\ Step \in Nat \ {0}
  /\ Warmup \in Nat /\ Tail \in Nat
  /\ ShortAnswers \subseteq Nat

\* What a checkpoint was trained on, and what a manifest lists.
Records == [run : Nat, n : Nat, behind : Int, whole : BOOLEAN, idle : BOOLEAN]
IsManifest(m) == \E D \in SUBSET Windows : m \in [D -> Records]

ASSUME NamesAssumption ==
  /\ NoKey \notin Keys /\ NoWindow \notin Windows
  /\ Absent # Torn
  /\ \A x \in {Absent, Torn} : x \notin Records /\ ~IsManifest(x)

VARIABLES
  file,       \* window_<w>s.npz of each key: a record, Absent or Torn
  manifest,   \* manifest.json of each key: records by window, Absent or Torn
  pc, mode, run,
  clock,      \* seconds since the load generator started
  late,       \* seconds lost in this run
  start, end, \* baseline_start, baseline_end
  todo,       \* windows left: of the run ("ready") or of the key ("all")
  keys,       \* keys left
  key, data,  \* key at work and length of full_data
  listed,     \* trained_checkpoints / window_checkpoints
  ended,      \* how the last run ended
  (* for the properties *)
  skipped,    \* <<key, window>> this run could not train
  cut,        \* keys whose files changed after the manifest did: the run died
  broken,     \* <<key, window>> whose file a run was writing when it died
  kills

disk == <<file, manifest>>
plan == <<mode, run>>
time == <<clock, late, start, end>>
loop == <<todo, keys, key, data, listed>>
vars == <<file, manifest, pc, mode, run, clock, late, start, end, todo, keys, key,
          data, listed, ended, skipped, cut, broken, kills>>

MaxWindow == Max(Windows)
Window    == Min(todo)                       \* sorted(windows), the next one

Readable(f) == f \notin {Absent, Torn}

\* Samples of a complete answer over s seconds: both ends are included.
Complete(s) == s \div Step + 1
-----------------------------------------------------------------------------
Init ==
  /\ file = [k \in Keys |-> [w \in Windows |-> Absent]]
  /\ manifest = [k \in Keys |-> Absent]
  /\ pc = "idle" /\ mode = "ready" /\ run = 0
  /\ clock = 0 /\ late = 0 /\ start = 0 /\ end = 0
  /\ todo = {} /\ keys = {} /\ key = NoKey /\ data = 0
  /\ listed = <<>>
  /\ ended = "never"
  /\ skipped = {} /\ cut = {} /\ broken = {} /\ kills = 0

\* The process is gone, and its variables with it.
ProcessEnds(how) ==
  /\ pc' = "idle"
  /\ ended' = how
  /\ clock' = 0 /\ late' = 0 /\ start' = 0 /\ end' = 0
  /\ todo' = {} /\ keys' = {} /\ key' = NoKey /\ data' = 0
  /\ listed' = <<>>

(* The run *)

\* main: with the load generator, or over the last MaxWindow seconds.
Start(m) ==
  /\ pc = "idle"
  /\ run < MaxRuns
  /\ run' = run + 1
  /\ mode' = m
  /\ pc' = IF m = "ready" THEN "warmup" ELSE "query"
  /\ clock' = 0 /\ late' = 0 /\ start' = 0
  /\ end' = IF m = "ready" THEN 0 ELSE MaxWindow
  /\ todo' = Windows
  /\ keys' = Keys
  /\ listed' = <<>>
  /\ ended' = "never"
  /\ skipped' = {}
  /\ UNCHANGED <<disk, key, data, cut, broken, kills>>

\* What the sleeping script waits for.
Target == IF pc = "warmup" THEN Warmup ELSE start + Window

\* Time passes: in a sleep, or, up to MaxLate seconds, anywhere.
Tick ==
  /\ pc # "idle" /\ mode = "ready"
  /\ clock' = clock + 1
  /\ IF pc \in {"warmup", "wait"} /\ clock < Target
     THEN late' = late
     ELSE late < MaxLate /\ late' = late + 1
  /\ UNCHANGED <<disk, pc, plan, start, end, loop, ended, skipped, cut, broken, kills>>

WarmupEnds ==
  /\ pc = "warmup"
  /\ clock >= Target
  /\ start' = clock
  /\ pc' = "wait"
  /\ UNCHANGED <<disk, plan, clock, late, end, loop, ended, skipped, cut, broken, kills>>

\* The window's time has come: its baseline ends now, for every key.
CaptureEnds ==
  /\ pc = "wait"
  /\ clock >= Target
  /\ end' = clock
  /\ keys' = Keys
  /\ pc' = "query"
  /\ UNCHANGED <<disk, plan, clock, late, start, todo, key, data, listed,
                 ended, skipped, cut, broken, kills>>

\* Never more samples than a complete answer has.
Answers ==
  LET complete == Complete(end - start)
  IN {d \in ShortAnswers : d < complete} \cup {complete}

\* Mutant: a key without data ends the loop over the keys.
SkipBreaks(k) ==
  /\ pc = "query"
  /\ k \in keys
  /\ \E d \in Answers : d < 2
  /\ keys' = {}
  /\ skipped' = skipped \cup ({k} \X (IF mode = "ready" THEN {Window} ELSE Windows))
  /\ UNCHANGED <<disk, pc, plan, time, todo, key, data, listed, ended, cut, broken, kills>>

\* Prometheus cannot be reached or reports a failure, or it has nothing or a single
\* sample: the key is skipped.
Skip(k) ==
  /\ pc = "query"
  /\ k \in keys
  /\ \E d \in Answers : d < 2
  /\ keys' = keys \ {k}
  /\ skipped' = skipped \cup ({k} \X (IF mode = "ready" THEN {Window} ELSE Windows))
  /\ UNCHANGED <<disk, pc, plan, time, todo, key, data, listed, ended, cut, broken, kills>>

\* Any other error of the fetch is not caught, and ends the run: an HTTP error, an
\* answer that takes longer than 30 s, one that is not JSON.
QueryRaises ==
  /\ pc = "query"
  /\ keys # {}
  /\ ProcessEnds("raised")
  /\ UNCHANGED <<disk, plan, skipped, cut, broken, kills>>

Query(k) ==
  /\ pc = "query"
  /\ k \in keys
  /\ \E d \in Answers : d >= 2 /\ data' = d
  /\ keys' = keys \ {k}
  /\ key' = k
  /\ todo' = IF mode = "ready" THEN todo ELSE Windows
  /\ listed' = <<>>
  /\ pc' = "train"
  /\ UNCHANGED <<disk, plan, time, ended, skipped, cut, broken, kills>>

NextKey ==
  /\ pc' = "query"
  /\ key' = NoKey /\ data' = 0 /\ listed' = <<>>

\* Mutant: the shorter windows get the latest samples available, all of them.
PrefixAll == data

\* "all" cuts a prefix, "ready" takes the answer as it is.
Prefix == IF mode = "all" THEN Min({data, Window \div Step}) ELSE data

TooFew ==
  /\ pc = "train"
  /\ Prefix < 2
  /\ todo' = todo \ {Window}
  /\ skipped' = skipped \cup {<<key, Window>>}
  /\ IF todo' = {} /\ listed = <<>> THEN NextKey
     ELSE /\ pc' = IF todo' = {} THEN "list" ELSE "train"
          /\ UNCHANGED <<key, data, listed>>
  /\ UNCHANGED <<disk, plan, time, keys, ended, cut, broken, kills>>

SaveBegins ==
  /\ pc = "train"
  /\ Prefix >= 2
  /\ file' = [file EXCEPT ![key][Window] = Torn]
  /\ pc' = "saving"
  /\ UNCHANGED <<manifest, plan, time, loop, ended, skipped, cut, broken, kills>>

\* Mutant: the generator is started without the warmup in its duration.
LoadEndsEarly == MaxWindow + Tail

\* run_seconds of the load generator.
LoadEnds == Warmup + MaxWindow + Tail

Trained ==
  [run    |-> run,
   n      |-> Prefix,
   behind |-> IF mode = "ready" THEN end - Warmup - Window ELSE 0,
   whole  |-> data = Complete(end - start),
   idle   |-> mode = "ready" /\ end > LoadEnds]

SaveEnds ==
  /\ pc = "saving"
  /\ file' = [file EXCEPT ![key][Window] = Trained]
  /\ IF mode = "ready"
     THEN /\ pc' = "load"
          /\ UNCHANGED <<todo, listed>>
     ELSE /\ listed' = [w \in DOMAIN listed \cup {Window} |->
                          IF w = Window THEN Trained ELSE listed[w]]
          /\ todo' = todo \ {Window}
          /\ pc' = IF todo' # {} THEN "train" ELSE "list"
  /\ broken' = broken \ {<<key, Window>>}
  /\ UNCHANGED <<manifest, plan, time, keys, key, data, ended, skipped, cut, kills>>

Existing(k) == {w \in Windows : file[k][w] # Absent}

\* Mutant: the manifest keeps what it said of the windows not trained now.
LoadKeeps ==
  /\ pc = "load"
  /\ \A w \in Existing(key) : file[key][w] # Torn
  /\ listed' = IF Readable(manifest[key])
               THEN [w \in DOMAIN manifest[key] \cup {Window} |->
                       IF w \in DOMAIN manifest[key] THEN manifest[key][w] ELSE file[key][w]]
               ELSE [w \in Existing(key) |-> file[key][w]]
  /\ pc' = "list"
  /\ UNCHANGED <<disk, plan, time, todo, keys, key, data, ended, skipped, cut, broken, kills>>

\* "ready" lists whatever windows the key has, loading each of them.
Load ==
  /\ pc = "load"
  /\ \A w \in Existing(key) : file[key][w] # Torn
  /\ listed' = [w \in Existing(key) |-> file[key][w]]
  /\ pc' = "list"
  /\ UNCHANGED <<disk, plan, time, todo, keys, key, data, ended, skipped, cut, broken, kills>>

\* One of them cannot be read: the exception ends the run.
LoadFails ==
  /\ pc = "load"
  /\ \E w \in Existing(key) : file[key][w] = Torn
  /\ ProcessEnds("aborted")
  /\ cut' = cut \cup {key}
  /\ UNCHANGED <<disk, plan, skipped, broken, kills>>

ListBegins ==
  /\ pc = "list"
  /\ manifest' = [manifest EXCEPT ![key] = Torn]
  /\ pc' = "listing"
  /\ UNCHANGED <<file, plan, time, loop, ended, skipped, cut, broken, kills>>

ListEnds ==
  /\ pc = "listing"
  /\ manifest' = [manifest EXCEPT ![key] = listed]
  /\ cut' = cut \ {key}
  /\ NextKey
  /\ UNCHANGED <<file, plan, time, todo, keys, ended, skipped, broken, kills>>

\* No key is left: the next window, or the end.
KeysDone ==
  /\ pc = "query"
  /\ keys = {}
  /\ mode = "ready" /\ Cardinality(todo) > 1
  /\ todo' = todo \ {Window}
  /\ pc' = "wait"
  /\ UNCHANGED <<disk, plan, time, keys, key, data, listed, ended, skipped, cut, broken, kills>>

RunDone ==
  /\ pc = "query"
  /\ keys = {}
  /\ mode = "ready" => Cardinality(todo) = 1
  /\ ProcessEnds("done")
  /\ UNCHANGED <<disk, plan, skipped, cut, broken, kills>>

\* Files of the key at work may have changed since its manifest was written.
Working == pc \in {"train", "saving", "load", "list", "listing"}

\* The process dies.  A file it is writing stays torn.
Kill ==
  /\ pc # "idle"
  /\ kills < MaxKills
  /\ kills' = kills + 1
  /\ ProcessEnds("killed")
  /\ cut' = IF Working THEN cut \cup {key} ELSE cut
  /\ broken' = IF pc = "saving" THEN broken \cup {<<key, Window>>} ELSE broken
  /\ UNCHANGED <<disk, plan, skipped>>

Next ==
  \/ \E m \in Modes : Start(m)
  \/ Tick
  \/ WarmupEnds
  \/ CaptureEnds
  \/ \E k \in Keys : Skip(k) \/ Query(k)
  \/ QueryRaises
  \/ TooFew
  \/ SaveBegins
  \/ SaveEnds
  \/ Load
  \/ LoadFails
  \/ ListBegins
  \/ ListEnds
  \/ KeysDone
  \/ RunDone
  \/ Kill

Spec == Init /\ [][Next]_vars
-----------------------------------------------------------------------------
(* A diagnosis.  It reads the files at any moment and changes none. *)

\* Mutant: without a window that fits, the smallest is taken.
AutomaticSmallest(k, available) ==
  LET fits == {w \in Windows : available >= w /\ file[k][w] # Absent}
      any  == {w \in Windows : file[k][w] # Absent}
  IN IF fits # {} THEN Max(fits) ELSE IF any # {} THEN Min(any) ELSE NoWindow

\* The largest window that exists and fits into the available baseline.
Automatic(k, available) ==
  LET fits == {w \in Windows : available >= w /\ file[k][w] # Absent}
  IN IF fits = {} THEN NoWindow ELSE Max(fits)

\* select_checkpoint: the window to load, by the caller's choice (force), that of
\* the configuration (pin) or automatically; NoWindow: fit from the baseline.
Select(k, available, force, pin) ==
  IF force # NoWindow THEN force
  ELSE IF pin # NoWindow /\ file[k][pin] # Absent THEN pin
  ELSE Automatic(k, available)

\* What _build_model builds its model from, with this window selected.
ModelSource(k, w) ==
  IF w = NoWindow THEN "baseline"
  ELSE IF Readable(file[k][w]) THEN "checkpoint" ELSE "error"
-----------------------------------------------------------------------------
(* Properties *)

TypeOK ==
  /\ file \in [Keys -> [Windows -> Records \cup {Absent, Torn}]]
  /\ \A k \in Keys : Readable(manifest[k]) => IsManifest(manifest[k])
  /\ pc \in {"idle", "warmup", "wait", "query", "train", "saving", "load", "list", "listing"}
  /\ mode \in Modes
  /\ ended \in {"never", "done", "raised", "aborted", "killed"}
  /\ todo \subseteq Windows /\ keys \subseteq Keys /\ key \in Keys \cup {NoKey}
  /\ cut \subseteq Keys /\ skipped \cup broken \subseteq Keys \X Windows

\* What a manifest says of a window is what its file holds, over any number of
\* runs in either mode, except for the key at work and for one at which a run
\* was killed or aborted and none has listed it since (markov_checkpoint.py:448-460).
ManifestTruthful ==
  \A k \in Keys :
    Readable(manifest[k]) /\ k \notin cut /\ ~(Working /\ key = k) =>
      \A w \in DOMAIN manifest[k] : manifest[k][w] = file[k][w]

\* The window in a checkpoint's name is the baseline it was trained on: with a
\* complete answer no less than the window, and no more than the window and the
\* seconds the run was behind schedule; and a baseline that ended no later than
\* the load generator's spare seconds allow was under load to its end
\* (train_markov_checkpoints.py:22-35).
BaselinesHonest ==
  \A k \in Keys, w \in Windows :
    LET c == file[k][w] IN
    Readable(c) =>
      /\ c.whole => c.n >= w \div Step
      /\ c.n <= Complete(w + c.behind)
      /\ c.behind <= Tail => ~c.idle

\* What a run is past: everything when it came to its end; between two keys the keys
\* it is done with, and in "ready" mode the windows before the one at hand.
Past(k, w) ==
  \/ ended = "done"
  \/ pc = "query" /\ IF mode = "all" THEN k \notin keys
                     ELSE w \notin todo \/ (w = Window /\ k \notin keys)

\* What a run is past it has trained, and lists, but for the windows it had no data
\* for; so it is when an error of a fetch ends the run between two keys.  And the other
\* error that ends a run, a checkpoint that cannot be read, is met only over a file
\* that an earlier run was writing when it died
\* (train_markov_checkpoints.py:151-155, 371-377, 392).
RunsAccounted ==
  /\ \A k \in Keys, w \in Windows :
       Past(k, w) =>
         <<k, w>> \in skipped
           \/ /\ Readable(file[k][w]) /\ file[k][w].run = run
              /\ Readable(manifest[k]) /\ w \in DOMAIN manifest[k]
  /\ ended = "aborted" => mode = "ready" /\ broken # {}

\* Whatever run is under way, and whatever runs died before: a checkpoint that exists
\* and cannot be loaded, whoever chose it, is being written or was being written when
\* a run died; and a diagnosis nobody told which window to use fails over no other, fits
\* a model of its own only when no checkpoint fits, and never uses more history than
\* it has itself, a sample and the run's delay apart (markov_checkpoint.py:331-345, 422-425).
SelectionSound ==
  \A k \in Keys :
    /\ \A w \in Windows :
         ModelSource(k, w) = "error" /\ file[k][w] # Absent =>
           <<k, w>> \in broken \/ (pc = "saving" /\ key = k /\ Window = w)
    /\ \A available \in 0 .. MaxWindow :
         LET w      == Select(k, available, NoWindow, NoWindow)
             source == ModelSource(k, w)
         IN /\ source = "error" => file[k][w] = Torn
            /\ source = "baseline" =>
                 \A v \in Windows : file[k][v] # Absent => v > available
            /\ source = "checkpoint" =>
                 file[k][w].n <= Complete(available + file[k][w].behind)

=============================================================================
