----------------------------- MODULE NormalModel -----------------------------
(***************************************************************************)
(* Layer 2: the Markov chain of one metric, rca_engine/normal_model.py,    *)
(* and the training of a checkpoint that it can be built from              *)
(* (train_checkpoint of markov_checkpoint.py).                             *)
(*                                                                         *)
(* A model counts moves between bins.  It learns in batch (fit, or the     *)
(* checkpoint it was built from) and one value at a time (update), the     *)
(* latter only while it is not frozen.  Samples are integers, the bins     *)
(* have integer width; errors are doubled, since a bin's centre may lie    *)
(* between two integers.  A row of the transition matrix is kept as the    *)
(* weights that the code divides by their sum.                             *)
(***************************************************************************)
EXTENDS Integers, Sequences, FiniteSets

CONSTANTS
  NumBins,
  MetricMin, Width,    \* bin edges: MetricMin, MetricMin + Width, ...
  Samples,             \* values the metric takes
  Baselines,           \* the series given to fit and train_checkpoint
  MaxStream,           \* bound: values given to the model since the last fit
  MaxFreezes           \* bound: calls of freeze since the last fit

Bins  == 0 .. NumBins - 1
NoBin == -1            \* _last_bin is None

ASSUME BinsAssumption ==
  /\ NumBins \in Nat /\ NumBins >= 2
  /\ MetricMin \in Int
  /\ Width \in Nat \ {0}
ASSUME SamplesAssumption ==
  /\ Samples \subseteq Int
  /\ Baselines \subseteq Seq(Samples)

VARIABLES
  counts,       \* moves seen, from bin to bin
  transition,   \* weights of the next bin, by current bin
  frozen, lastBin, isFit,
  (* what the model was given, for the properties *)
  base,         \* the data of the checkpoint it was built from
  seen,         \* the values it learned one after the other
  stream,       \* those and the values it was given while it was frozen
  freezes       \* calls of freeze that took effect since the last fit

model   == <<counts, transition, lastBin, isFit>>
history == <<base, seen, stream, freezes>>
vars    == <<counts, transition, frozen, lastBin, isFit,
             base, seen, stream, freezes>>
-----------------------------------------------------------------------------
(* Bins and rows *)

Edge(i) == MetricMin + i * Width

\* searchsorted(side="right") - 1, clamped to the first and the last bin.
Discretize(v) ==
  LET idx == Cardinality({i \in 0 .. NumBins : Edge(i) <= v}) - 1
  IN IF idx < 0 THEN 0 ELSE IF idx >= NumBins THEN NumBins - 1 ELSE idx

\* Twice the centre of a bin, and twice the metric's range.
Centre(b)   == Edge(b) + Edge(b + 1)
MetricRange == 2 * NumBins * Width

Uniform == [b \in Bins |-> 1]

Unseen(m, a) == \A b \in Bins : m[a][b] = 0

RecomputeRow(m, a) == IF Unseen(m, a) THEN Uniform ELSE m[a]
Normalise(m)       == [a \in Bins |-> RecomputeRow(m, a)]

\* Moves from bin a to bin b in a series.
Moves(data, a, b) ==
  Cardinality({i \in 1 .. Len(data) - 1 :
                 Discretize(data[i]) = a /\ Discretize(data[i + 1]) = b})

CountMatrix(data) == [a \in Bins |-> [b \in Bins |-> Moves(data, a, b)]]

\* train_checkpoint, what from_checkpoint copies of it.
Checkpoint(data) ==
  [counts |-> CountMatrix(data), transition |-> Normalise(CountMatrix(data))]
-----------------------------------------------------------------------------
(* Life of a model *)

Init ==
  /\ counts = [a \in Bins |-> [b \in Bins |-> 0]]
  /\ transition = [a \in Bins |-> Uniform]
  /\ frozen = FALSE
  /\ lastBin = NoBin
  /\ isFit = FALSE
  /\ base = <<>>
  /\ seen = <<>>
  /\ stream = <<>>
  /\ freezes = 0

\* Mutant: the counts of the last fit are kept.
FitKeepsCounts(data) ==
  /\ Len(data) >= 2
  /\ counts' = [a \in Bins |-> [b \in Bins |-> counts[a][b] + Moves(data, a, b)]]
  /\ transition' = Normalise(counts')
  /\ lastBin' = Discretize(data[Len(data)])
  /\ isFit' = TRUE
  /\ base' = <<>>
  /\ seen' = data
  /\ stream' = data
  /\ freezes' = IF frozen THEN 1 ELSE 0
  /\ UNCHANGED frozen

\* fit: starts over from a baseline; one of fewer than two samples is ignored.
\* A frozen model is fitted all the same, and stays frozen.
Fit(data) ==
  /\ Len(data) >= 2
  /\ counts' = CountMatrix(data)
  /\ transition' = Normalise(counts')
  /\ lastBin' = Discretize(data[Len(data)])
  /\ isFit' = TRUE
  /\ base' = <<>>
  /\ seen' = data
  /\ stream' = data
  /\ freezes' = IF frozen THEN 1 ELSE 0
  /\ UNCHANGED frozen

\* from_checkpoint: another model takes the place of this one.
FromCheckpoint(data) ==
  /\ Len(data) >= 2
  /\ counts' = Checkpoint(data).counts
  /\ transition' = Checkpoint(data).transition
  /\ frozen' = FALSE
  /\ lastBin' = NoBin
  /\ isFit' = TRUE
  /\ base' = data
  /\ seen' = <<>>
  /\ stream' = <<>>
  /\ freezes' = 0

Counted(a, b) == [counts EXCEPT ![a][b] = @ + 1]

\* Mutant: the row recomputed is that of the new bin.
LearnWrongRow(v) ==
  LET b == Discretize(v) IN
  /\ ~frozen
  /\ Len(stream) < MaxStream
  /\ IF lastBin = NoBin THEN UNCHANGED <<counts, transition>>
     ELSE /\ counts' = Counted(lastBin, b)
          /\ transition' = [transition EXCEPT ![b] = RecomputeRow(counts', b)]
  /\ lastBin' = b
  /\ isFit' = TRUE
  /\ seen' = Append(seen, v)
  /\ stream' = Append(stream, v)
  /\ UNCHANGED <<frozen, base, freezes>>

\* Mutant: a value beyond the range is ignored instead of clamped.
LearnInside(v) ==
  LET b == Discretize(v) IN
  /\ ~frozen
  /\ Len(stream) < MaxStream
  /\ stream' = Append(stream, v)
  /\ IF lastBin = NoBin \/ v < Edge(0) \/ v > Edge(NumBins)
     THEN UNCHANGED <<model, seen>>
     ELSE /\ counts' = Counted(lastBin, b)
          /\ transition' = [transition EXCEPT ![lastBin] = RecomputeRow(counts', lastBin)]
          /\ lastBin' = b
          /\ isFit' = TRUE
          /\ seen' = Append(seen, v)
  /\ UNCHANGED <<frozen, base, freezes>>

\* update: one move and its row of the matrix, once there is a bin to move from.
Learn(v) ==
  LET b == Discretize(v) IN
  /\ ~frozen
  /\ Len(stream) < MaxStream
  /\ IF lastBin = NoBin THEN UNCHANGED <<counts, transition>>
     ELSE /\ counts' = Counted(lastBin, b)
          /\ transition' = [transition EXCEPT ![lastBin] = RecomputeRow(counts', lastBin)]
  /\ lastBin' = b
  /\ isFit' = TRUE
  /\ seen' = Append(seen, v)
  /\ stream' = Append(stream, v)
  /\ UNCHANGED <<frozen, base, freezes>>

\* update of a frozen model: the value leaves no trace.
Drop(v) ==
  /\ frozen
  /\ Len(stream) < MaxStream
  /\ stream' = Append(stream, v)
  /\ UNCHANGED <<model, frozen, base, seen, freezes>>

Freeze ==
  /\ freezes < MaxFreezes
  /\ frozen' = TRUE
  /\ freezes' = IF frozen THEN freezes ELSE freezes + 1
  /\ UNCHANGED <<model, base, seen, stream>>

Unfreeze ==
  /\ frozen' = FALSE
  /\ UNCHANGED <<model, history>>

Next ==
  \/ \E data \in Baselines : Fit(data) \/ FromCheckpoint(data)
  \/ \E v \in Samples : Learn(v) \/ Drop(v)
  \/ Freeze
  \/ Unfreeze

Spec == Init /\ [][Next]_vars
-----------------------------------------------------------------------------
(* Prediction *)

\* np.argmax: the first of the largest.
ArgMax(row) ==
  CHOOSE j \in Bins : \A k \in Bins : row[k] < row[j] \/ (row[k] = row[j] /\ j <= k)

Abs(x) == IF x < 0 THEN -x ELSE x

\* prediction_error_at, doubled; index t of the code is t + 1 here.
PredictionErrorAt(t, series) ==
  IF t <= 0 \/ t >= Len(series) THEN 0
  ELSE LET a == Discretize(series[t])
       IN IF ~isFit \/ Unseen(counts, a) THEN MetricRange
          ELSE Abs(2 * series[t + 1] - Centre(ArgMax(transition[a])))

PredictionErrorsFor(changePoints, series) ==
  [cp \in changePoints |-> PredictionErrorAt(cp, series)]
-----------------------------------------------------------------------------
(* Properties *)

TypeOK ==
  /\ counts \in [Bins -> [Bins -> Nat]]
  /\ transition \in [Bins -> [Bins -> Nat]]
  /\ frozen \in BOOLEAN
  /\ lastBin \in Bins \cup {NoBin}
  /\ isFit \in BOOLEAN
  /\ base \in Seq(Samples)
  /\ seen \in Seq(Samples)
  /\ stream \in Seq(Samples)
  /\ freezes \in Nat

\* How often the metric moved from bin a to bin b in all that the model learned.
Learned(a, b) == Moves(base, a, b) + Moves(seen, a, b)

\* Learning one value at a time, through any number of freezes, refits and
\* replacements, counts exactly the moves that a batch over the same values
\* counts; in particular a frozen model learns nothing (normal_model.py:57-60).
LearnsAccepted ==
  /\ counts = [a \in Bins |-> [b \in Bins |-> Learned(a, b)]]
  /\ lastBin = IF seen = <<>> THEN NoBin ELSE Discretize(seen[Len(seen)])

\* The errors of a series of two values, from everything learned.
Expected(u, v) ==
  LET next == [b \in Bins |-> Learned(Discretize(u), b)]
  IN [t \in {0, 1, 2} |->
        IF t # 1 THEN 0
        ELSE IF \A b \in Bins : next[b] = 0 THEN MetricRange
        ELSE Abs(2 * v - Centre(ArgMax(next)))]

\* A prediction is the most frequent next bin of all that was learned, and a bin
\* nothing was learned from gives the range, although the matrix is recomputed
\* one row at a time and the test for unseen bins reads another array
\* (normal_model.py:352-374).
PredictsFromHistory ==
  \A u, v \in Samples : PredictionErrorsFor({0, 1, 2}, <<u, v>>) = Expected(u, v)

\* After unfreeze() the last bin is still the one from before freeze(), so the
\* next update counts a move the metric never made.  However often the model is
\* frozen, refitted or replaced, no entry exceeds the moves that were made by
\* more than one per freeze (normal_model.py:187-198).
PhantomMovesBounded ==
  \A a, b \in Bins : counts[a][b] <= Moves(base, a, b) + Moves(stream, a, b) + freezes
=============================================================================
