-------------------------- MODULE NormalModelProofs --------------------------
(***************************************************************************)
(* The counts, the predictions and the phantom moves of NormalModel, for   *)
(* every number and width of bins, all samples and baselines, and whatever *)
(* the bounds on values and freezes.                                       *)
(*                                                                         *)
(* One fact about series carries all of it: a value more adds one move,    *)
(* the one from the bin before it (MovesAppend).  The invariants then      *)
(* follow update by update, each with the part of the state it needs.      *)
(***************************************************************************)
EXTENDS NormalModel, FiniteSetTheorems, TLAPS

\* A series of samples, and the bin it ends in.
Series     == Seq(Samples)
LastBin(q) == Discretize(q[Len(q)])

\* The indices Moves counts.
MoveAt(data, a, b) ==
  {i \in 1 .. Len(data) - 1 : Discretize(data[i]) = a /\ Discretize(data[i + 1]) = b}

\* Every value has a bin.
LEMMA DiscretizeType == \A v : Discretize(v) \in Bins
<1> SUFFICES ASSUME NEW v PROVE Discretize(v) \in Bins
  OBVIOUS
<1> DEFINE below == {i \in 0 .. NumBins : Edge(i) <= v}
<1>1. IsFiniteSet(0 .. NumBins)
  BY BinsAssumption, FS_Interval
<1>2. IsFiniteSet(below)
  BY <1>1, FS_Subset
<1>3. Cardinality(below) \in Nat
  BY <1>2, FS_CardinalityType
<1>4. QED
  BY <1>3, BinsAssumption DEF Discretize, Bins

LEMMA NoBinIsNone == NoBin \notin Bins
BY BinsAssumption DEF NoBin, Bins

\* A series makes a natural number of moves, and an empty one none.
LEMMA MovesType ==
  \A data \in Series : \A a, b :
    IsFiniteSet(MoveAt(data, a, b)) /\ Moves(data, a, b) \in Nat
<1> SUFFICES ASSUME NEW data \in Series, NEW a, NEW b
             PROVE  IsFiniteSet(MoveAt(data, a, b)) /\ Moves(data, a, b) \in Nat
  OBVIOUS
<1>1. Len(data) - 1 \in Int
  BY DEF Series
<1>2. IsFiniteSet(1 .. Len(data) - 1)
  BY <1>1, FS_Interval
<1>3. IsFiniteSet(MoveAt(data, a, b))
  BY <1>2, FS_Subset DEF MoveAt
<1>4. QED
  BY <1>3, FS_CardinalityType DEF MoveAt, Moves

LEMMA MovesEmpty == \A a, b : Moves(<<>>, a, b) = 0
<1>1. 1 .. Len(<<>>) - 1 = {}
  OBVIOUS
<1>2. QED
  BY <1>1, FS_EmptySet DEF Moves

\* One value more is one move more, from the last bin to the new one.
LEMMA MovesAppend ==
  ASSUME NEW data \in Series, NEW v \in Samples, NEW a, NEW b
  PROVE  Moves(Append(data, v), a, b) =
           Moves(data, a, b)
             + IF data # <<>> /\ LastBin(data) = a /\ Discretize(v) = b THEN 1 ELSE 0
<1> DEFINE n     == Len(data)
           grown == Append(data, v)
           hit   == data # <<>> /\ LastBin(data) = a /\ Discretize(v) = b
<1>1. n \in Nat /\ (data = <<>> <=> n = 0)
  BY DEF Series
<1>2. /\ Len(grown) = n + 1
      /\ \A i \in 1 .. n : grown[i] = data[i]
      /\ grown[n + 1] = v
  BY DEF Series
<1>3. MoveAt(grown, a, b) = MoveAt(data, a, b) \cup (IF hit THEN {n} ELSE {})
  <2>1. ASSUME NEW i \in 1 .. n - 1
        PROVE  i \in MoveAt(grown, a, b) <=> i \in MoveAt(data, a, b)
    <3>1. i \in 1 .. n /\ i + 1 \in 1 .. n /\ i \in 1 .. Len(grown) - 1 /\ i \in 1 .. Len(data) - 1
      BY <1>1, <1>2, <2>1
    <3>2. grown[i] = data[i] /\ grown[i + 1] = data[i + 1]
      BY <1>2, <3>1
    <3>3. QED
      BY <3>1, <3>2 DEF MoveAt
  <2>2. n \in MoveAt(grown, a, b) <=> hit
    <3>1. CASE n = 0
      BY <1>1, <1>2, <3>1 DEF MoveAt
    <3>2. CASE n # 0
      <4>1. n \in 1 .. n /\ n \in 1 .. Len(grown) - 1
        BY <1>1, <1>2, <3>2
      <4>2. grown[n] = data[n] /\ grown[n + 1] = v
        BY <1>2, <4>1
      <4>3. QED
        BY <1>1, <3>2, <4>1, <4>2 DEF MoveAt, LastBin
    <3>3. QED
      BY <3>1, <3>2
  <2>3. \A i \in MoveAt(grown, a, b) : i \in 1 .. n - 1 \/ i = n
    BY <1>1, <1>2 DEF MoveAt
  <2>4. \A i \in MoveAt(data, a, b) : i \in 1 .. n - 1
    BY DEF MoveAt
  <2>5. QED
    BY <2>1, <2>2, <2>3, <2>4
<1>4. n \notin MoveAt(data, a, b) /\ IsFiniteSet(MoveAt(data, a, b))
  <2>1. n \notin 1 .. n - 1
    BY <1>1
  <2>2. n \notin MoveAt(data, a, b)
    BY <2>1 DEF MoveAt
  <2>3. IsFiniteSet(MoveAt(data, a, b))
    BY MovesType
  <2>4. QED
    BY <2>2, <2>3
<1>5. Cardinality(MoveAt(data, a, b) \cup {n}) = Cardinality(MoveAt(data, a, b)) + 1
  BY <1>4, FS_AddElement
<1>6. Cardinality(MoveAt(grown, a, b)) =
        Cardinality(MoveAt(data, a, b)) + IF hit THEN 1 ELSE 0
  <2>1. CASE hit
    BY <1>3, <1>5, <2>1
  <2>2. CASE ~hit
    <3>1. MoveAt(grown, a, b) = MoveAt(data, a, b)
      BY <1>3, <2>2
    <3>2. Cardinality(MoveAt(data, a, b)) \in Nat
      BY <1>4, FS_CardinalityType
    <3>3. QED
      BY <2>2, <3>1, <3>2
  <2>3. QED
    BY <2>1, <2>2
<1>7. QED
  BY <1>6 DEF Moves, MoveAt
-----------------------------------------------------------------------------
(* Types *)

LEMMA CountTypes ==
  /\ \A data \in Series : CountMatrix(data) \in [Bins -> [Bins -> Nat]]
  /\ \A m \in [Bins -> [Bins -> Nat]], a \in Bins : RecomputeRow(m, a) \in [Bins -> Nat]
  /\ \A m \in [Bins -> [Bins -> Nat]] : Normalise(m) \in [Bins -> [Bins -> Nat]]
<1>1. \A data \in Series : CountMatrix(data) \in [Bins -> [Bins -> Nat]]
  BY MovesType DEF CountMatrix
<1>2. \A m \in [Bins -> [Bins -> Nat]], a \in Bins : RecomputeRow(m, a) \in [Bins -> Nat]
  BY DEF RecomputeRow, Uniform
<1>3. \A m \in [Bins -> [Bins -> Nat]] : Normalise(m) \in [Bins -> [Bins -> Nat]]
  BY <1>2 DEF Normalise
<1>4. QED
  BY <1>1, <1>2, <1>3

LEMMA EmptySeries == <<>> \in Series
BY DEF Series

\* One count more.
LEMMA CountedFacts ==
  ASSUME counts \in [Bins -> [Bins -> Nat]], NEW a \in Bins, NEW b \in Bins
  PROVE  /\ Counted(a, b) \in [Bins -> [Bins -> Nat]]
         /\ \A c, d \in Bins :
              Counted(a, b)[c][d] = counts[c][d] + IF c = a /\ d = b THEN 1 ELSE 0
         /\ \A c \in Bins : c # a => Counted(a, b)[c] = counts[c]
<1>1. counts[a] \in [Bins -> Nat]
  OBVIOUS
<1>2. [counts[a] EXCEPT ![b] = @ + 1] \in [Bins -> Nat]
  BY <1>1
<1>3. QED
  BY <1>1, <1>2 DEF Counted

\* Each kind of step on the types.
LEMMA TypePreserved == TypeOK /\ [Next]_vars => TypeOK'
<1> SUFFICES ASSUME TypeOK, [Next]_vars PROVE TypeOK'
  OBVIOUS
<1> USE DEF Series
<1>1. ASSUME NEW data \in Baselines, Fit(data) PROVE TypeOK'
  <2>1. data \in Series
    BY SamplesAssumption
  <2>2. counts' \in [Bins -> [Bins -> Nat]] /\ transition' \in [Bins -> [Bins -> Nat]]
    BY <1>1, <2>1, CountTypes DEF Fit
  <2>3. lastBin' \in Bins
    BY <1>1, DiscretizeType DEF Fit
  <2>4. isFit' \in BOOLEAN /\ frozen' \in BOOLEAN
    BY <1>1 DEF Fit, TypeOK
  <2>5. base' \in Series /\ seen' \in Series /\ stream' \in Series /\ freezes' \in Nat
    BY <1>1, <2>1, EmptySeries DEF Fit
  <2>6. QED
    BY <2>2, <2>3, <2>4, <2>5 DEF TypeOK
<1>2. ASSUME NEW data \in Baselines, FromCheckpoint(data) PROVE TypeOK'
  <2>1. data \in Series
    BY SamplesAssumption
  <2>2. counts' \in [Bins -> [Bins -> Nat]] /\ transition' \in [Bins -> [Bins -> Nat]]
    BY <1>2, <2>1, CountTypes DEF FromCheckpoint, Checkpoint
  <2>3. isFit' \in BOOLEAN /\ frozen' \in BOOLEAN
    BY <1>2 DEF FromCheckpoint
  <2>4. base' \in Series /\ seen' \in Series /\ stream' \in Series /\ freezes' \in Nat
    BY <1>2, <2>1, EmptySeries DEF FromCheckpoint
  <2>5. lastBin' \in Bins \cup {NoBin}
    BY <1>2 DEF FromCheckpoint
  <2>6. QED
    BY <2>2, <2>3, <2>4, <2>5 DEF TypeOK
<1>3. ASSUME NEW v \in Samples, Learn(v) PROVE TypeOK'
  <2>1. Discretize(v) \in Bins
    BY DiscretizeType
  <2>2. counts' \in [Bins -> [Bins -> Nat]] /\ transition' \in [Bins -> [Bins -> Nat]]
    <3>1. CASE lastBin = NoBin
      BY <1>3, <3>1 DEF Learn, TypeOK
    <3>2. CASE lastBin # NoBin
      <4>1. lastBin \in Bins /\ counts' = Counted(lastBin, Discretize(v))
        BY <1>3, <3>2 DEF Learn, TypeOK
      <4>2. counts' \in [Bins -> [Bins -> Nat]]
        BY <2>1, <4>1, CountedFacts DEF TypeOK
      <4>3. RecomputeRow(counts', lastBin) \in [Bins -> Nat]
        BY <4>1, <4>2, CountTypes
      <4>4. QED
        BY <1>3, <3>2, <4>1, <4>2, <4>3 DEF Learn, TypeOK
    <3>3. QED
      BY <3>1, <3>2
  <2>3. Append(seen, v) \in Series /\ Append(stream, v) \in Series
    BY DEF TypeOK
  <2>4. QED
    BY <1>3, <2>1, <2>2, <2>3 DEF Learn, TypeOK
<1>4. ASSUME NEW v \in Samples, Drop(v) PROVE TypeOK'
  BY <1>4 DEF Drop, model, TypeOK
<1>5. ASSUME Freeze PROVE TypeOK'
  BY <1>5 DEF Freeze, model, TypeOK
<1>6. ASSUME Unfreeze PROVE TypeOK'
  BY <1>6 DEF Unfreeze, model, history, TypeOK
<1>7. CASE UNCHANGED vars
  BY <1>7 DEF vars, TypeOK
<1>8. QED
  BY <1>1, <1>2, <1>3, <1>4, <1>5, <1>6, <1>7 DEF Next

\* The types hold.
THEOREM TypeCorrect == Spec => []TypeOK
<1>1. ASSUME Init PROVE TypeOK
  <2>1. isFit \in BOOLEAN /\ frozen \in BOOLEAN
    BY <1>1 DEF Init
  <2>2. base \in Seq(Samples) /\ seen \in Seq(Samples) /\ stream \in Seq(Samples)
    BY <1>1, EmptySeries DEF Init, Series
  <2>3. counts \in [Bins -> [Bins -> Nat]] /\ transition \in [Bins -> [Bins -> Nat]]
    BY <1>1 DEF Init, Uniform
  <2>4. lastBin \in Bins \cup {NoBin} /\ freezes \in Nat
    BY <1>1 DEF Init
  <2>5. QED
    BY <2>1, <2>2, <2>3, <2>4 DEF TypeOK
<1>2. QED
  BY <1>1, TypePreserved, PTL DEF Spec
-----------------------------------------------------------------------------
(* Counting one value at a time counts what a batch counts. *)

\* After a value: the last bin is its bin, and only the move to it is new.
LEMMA SeriesGrows ==
  ASSUME NEW data \in Series, NEW v \in Samples
  PROVE  /\ Append(data, v) \in Series
         /\ Append(data, v) # <<>>
         /\ LastBin(Append(data, v)) = Discretize(v)
BY DEF Series, LastBin

LEMMA LearnsPreserved == TypeOK /\ LearnsAccepted /\ [Next]_vars => LearnsAccepted'
<1> SUFFICES ASSUME TypeOK, LearnsAccepted, [Next]_vars PROVE LearnsAccepted'
  OBVIOUS
<1>1. ASSUME NEW data \in Baselines, Fit(data) PROVE LearnsAccepted'
  <2>1. data \in Series /\ data # <<>>
    BY <1>1, SamplesAssumption DEF Fit, Series
  <2>2. base' = <<>> /\ seen' = data /\ counts' = CountMatrix(data)
    BY <1>1 DEF Fit
  <2>3. \A a, b : Moves(<<>>, a, b) + Moves(data, a, b) = Moves(data, a, b)
    BY <2>1, MovesEmpty, MovesType
  <2>4. counts' = [a \in Bins |-> [b \in Bins |-> Learned(a, b)']]
    BY <2>2, <2>3 DEF CountMatrix, Learned
  <2>5. QED
    BY <1>1, <2>1, <2>2, <2>4 DEF LearnsAccepted, Fit
<1>2. ASSUME NEW data \in Baselines, FromCheckpoint(data) PROVE LearnsAccepted'
  <2>1. data \in Series
    BY SamplesAssumption DEF Series
  <2>2. base' = data /\ seen' = <<>> /\ counts' = CountMatrix(data) /\ lastBin' = NoBin
    BY <1>2 DEF FromCheckpoint, Checkpoint
  <2>3. \A a, b : Moves(data, a, b) + Moves(<<>>, a, b) = Moves(data, a, b)
    BY <2>1, MovesEmpty, MovesType
  <2>4. counts' = [a \in Bins |-> [b \in Bins |-> Learned(a, b)']]
    BY <2>2, <2>3 DEF CountMatrix, Learned
  <2>5. QED
    BY <2>2, <2>4 DEF LearnsAccepted
<1>3. ASSUME NEW v \in Samples, Learn(v) PROVE LearnsAccepted'
  <2>1. /\ seen \in Series /\ base' = base /\ seen' = Append(seen, v)
        /\ lastBin' = Discretize(v)
    BY <1>3 DEF Learn, TypeOK, Series
  <2>2. Discretize(v) \in Bins /\ counts \in [Bins -> [Bins -> Nat]]
    BY DiscretizeType DEF TypeOK
  <2>3. \A a, b \in Bins :
          /\ Learned(a, b) \in Nat
          /\ Learned(a, b)' = Learned(a, b)
                + IF seen # <<>> /\ lastBin = a /\ Discretize(v) = b THEN 1 ELSE 0
    <3>1. ASSUME NEW a \in Bins, NEW b \in Bins
          PROVE  /\ Moves(base, a, b) \in Nat /\ Moves(seen, a, b) \in Nat
                 /\ Moves(Append(seen, v), a, b) = Moves(seen, a, b)
                      + IF seen # <<>> /\ LastBin(seen) = a /\ Discretize(v) = b THEN 1 ELSE 0
      <4>1. base \in Series
        BY DEF TypeOK, Series
      <4>2. Moves(base, a, b) \in Nat /\ Moves(seen, a, b) \in Nat
        BY <2>1, <4>1, MovesType
      <4>3. Moves(Append(seen, v), a, b) = Moves(seen, a, b)
              + IF seen # <<>> /\ LastBin(seen) = a /\ Discretize(v) = b THEN 1 ELSE 0
        BY <2>1, MovesAppend
      <4>4. QED
        BY <4>2, <4>3
    <3>2. seen # <<>> => LastBin(seen) = lastBin
      BY DEF LearnsAccepted, LastBin
    <3>3. QED
      BY <2>1, <3>1, <3>2 DEF Learned
  <2>4. \A a, b \in Bins : counts[a][b] = Learned(a, b)
    BY DEF LearnsAccepted
  <2>5. /\ counts' \in [Bins -> [Bins -> Nat]]
        /\ \A a, b \in Bins : counts'[a][b] = Learned(a, b)'
    <3>1. CASE seen = <<>>
      <4>1. counts' = counts
        BY <1>3, <3>1 DEF Learn, LearnsAccepted
      <4>2. QED
        BY <2>2, <2>3, <2>4, <3>1, <4>1
    <3>2. CASE seen # <<>>
      <4>1. lastBin \in Bins /\ lastBin # NoBin
        BY <3>2, DiscretizeType, NoBinIsNone DEF LearnsAccepted
      <4>2. counts' = Counted(lastBin, Discretize(v))
        BY <1>3, <4>1 DEF Learn
      <4>3. /\ Counted(lastBin, Discretize(v)) \in [Bins -> [Bins -> Nat]]
            /\ \A a, b \in Bins : Counted(lastBin, Discretize(v))[a][b] =
                 counts[a][b] + IF a = lastBin /\ b = Discretize(v) THEN 1 ELSE 0
        BY <2>2, <4>1, CountedFacts
      <4>4. ASSUME NEW a \in Bins, NEW b \in Bins
            PROVE  counts'[a][b] = Learned(a, b)'
        <5>1. Learned(a, b)' = Learned(a, b)
                + IF lastBin = a /\ Discretize(v) = b THEN 1 ELSE 0
          BY <2>3, <3>2
        <5>2. counts'[a][b] = counts[a][b] + IF a = lastBin /\ b = Discretize(v) THEN 1 ELSE 0
          BY <4>2, <4>3
        <5>3. QED
          BY <2>4, <5>1, <5>2
      <4>5. QED
        BY <4>2, <4>3, <4>4
    <3>3. QED
      BY <3>1, <3>2
  <2>6. counts' = [a \in Bins |-> [b \in Bins |-> Learned(a, b)']]
    BY <2>5
  <2>7. lastBin' = Discretize(seen'[Len(seen')]) /\ seen' # <<>>
    BY <2>1, SeriesGrows DEF LastBin
  <2>8. QED
    BY <2>6, <2>7 DEF LearnsAccepted
<1>4. ASSUME UNCHANGED <<counts, lastBin, base, seen>> PROVE LearnsAccepted'
  BY <1>4 DEF LearnsAccepted, Learned
<1>5. ASSUME NEW v \in Samples, Drop(v) PROVE UNCHANGED <<counts, lastBin, base, seen>>
  BY <1>5 DEF Drop, model
<1>6. Freeze \/ Unfreeze \/ UNCHANGED vars => UNCHANGED <<counts, lastBin, base, seen>>
  BY DEF Freeze, Unfreeze, vars, model, history
<1>7. QED
  BY <1>1, <1>2, <1>3, <1>4, <1>5, <1>6 DEF Next

\* The model learned, count for count, what it was given while it was not frozen.
THEOREM LearnsWhatItAccepts == Spec => []LearnsAccepted
<1>1. Init => LearnsAccepted
  BY MovesEmpty DEF Init, LearnsAccepted, Learned
<1>2. QED
  BY <1>1, TypeCorrect, LearnsPreserved, PTL DEF Spec
-----------------------------------------------------------------------------
(* Predictions. *)

\* The matrix is that of the counts, and only a fitted model has any.
MatrixCurrent ==
  /\ transition = Normalise(counts)
  /\ ~isFit => \A a \in Bins : Unseen(counts, a)

LEMMA MatrixPreserved == TypeOK /\ MatrixCurrent /\ [Next]_vars => MatrixCurrent'
<1> SUFFICES ASSUME TypeOK, MatrixCurrent, [Next]_vars PROVE MatrixCurrent'
  OBVIOUS
<1>1. ASSUME NEW data \in Baselines, Fit(data) PROVE MatrixCurrent'
  BY <1>1 DEF Fit, MatrixCurrent
<1>2. ASSUME NEW data \in Baselines, FromCheckpoint(data) PROVE MatrixCurrent'
  BY <1>2 DEF FromCheckpoint, Checkpoint, MatrixCurrent
<1>3. ASSUME NEW v \in Samples, Learn(v) PROVE MatrixCurrent'
  <2>1. CASE lastBin = NoBin
    BY <1>3, <2>1 DEF Learn, MatrixCurrent
  <2>2. CASE lastBin # NoBin
    <3>1. lastBin \in Bins /\ Discretize(v) \in Bins
      BY <2>2, DiscretizeType DEF TypeOK
    <3>2. /\ counts' = Counted(lastBin, Discretize(v))
          /\ transition' = [transition EXCEPT ![lastBin] = RecomputeRow(counts', lastBin)]
          /\ isFit'
      BY <1>3, <2>2 DEF Learn
    <3>3. \A c \in Bins : c # lastBin => counts'[c] = counts[c]
      <4>1. counts \in [Bins -> [Bins -> Nat]]
        BY DEF TypeOK
      <4>2. \A c \in Bins : c # lastBin => Counted(lastBin, Discretize(v))[c] = counts[c]
        BY <3>1, <4>1, CountedFacts
      <4>3. QED
        BY <3>2, <4>2
    <3>4. \A c \in Bins : c # lastBin => RecomputeRow(counts', c) = RecomputeRow(counts, c)
      BY <3>3 DEF RecomputeRow, Unseen
    <3>5. \A c \in Bins : transition'[c] = RecomputeRow(counts', c)
      BY <3>1, <3>2, <3>4 DEF MatrixCurrent, Normalise
    <3>6. transition' = Normalise(counts')
      BY <3>2, <3>5 DEF MatrixCurrent, Normalise
    <3>7. QED
      BY <3>2, <3>6 DEF MatrixCurrent
  <2>3. QED
    BY <2>1, <2>2
<1>4. ASSUME UNCHANGED <<counts, transition, isFit>> PROVE MatrixCurrent'
  BY <1>4 DEF MatrixCurrent
<1>5. ASSUME NEW v \in Samples, Drop(v) PROVE UNCHANGED <<counts, transition, isFit>>
  BY <1>5 DEF Drop, model
<1>6. Freeze \/ Unfreeze \/ UNCHANGED vars => UNCHANGED <<counts, transition, isFit>>
  BY DEF Freeze, Unfreeze, vars, model, history
<1>7. QED
  BY <1>1, <1>2, <1>3, <1>4, <1>5, <1>6 DEF Next

\* With the counts right and the matrix that of the counts, the prediction from a
\* bin is the most frequent move from it.
LEMMA PredictionOfLearned ==
  ASSUME LearnsAccepted, MatrixCurrent, NEW u \in Samples, NEW v \in Samples
  PROVE  \A t \in {0, 1, 2} : PredictionErrorAt(t, <<u, v>>) = Expected(u, v)[t]
<1> DEFINE a    == Discretize(u)
           next == [b \in Bins |-> Learned(a, b)]
<1>1. a \in Bins
  BY DiscretizeType
<1>2. counts[a] = next
  BY <1>1 DEF LearnsAccepted
<1>3. Unseen(counts, a) <=> \A b \in Bins : next[b] = 0
  BY <1>2 DEF Unseen
<1>4. ~Unseen(counts, a) => isFit /\ transition[a] = next
  BY <1>1, <1>2 DEF MatrixCurrent, Normalise, RecomputeRow
<1>5. Len(<<u, v>>) = 2 /\ <<u, v>>[1] = u /\ <<u, v>>[1 + 1] = v
  OBVIOUS
<1>6. PredictionErrorAt(0, <<u, v>>) = 0 /\ PredictionErrorAt(2, <<u, v>>) = 0
  BY <1>5 DEF PredictionErrorAt
<1>7. CASE Unseen(counts, a)
  <2>1. PredictionErrorAt(1, <<u, v>>) = MetricRange
    BY <1>5, <1>7 DEF PredictionErrorAt
  <2>2. Expected(u, v)[1] = MetricRange
    BY <1>3, <1>7 DEF Expected
  <2>3. QED
    BY <1>6, <2>1, <2>2 DEF Expected
<1>8. CASE ~Unseen(counts, a)
  <2>1. PredictionErrorAt(1, <<u, v>>) = Abs(2 * v - Centre(ArgMax(transition[a])))
    BY <1>4, <1>5, <1>8 DEF PredictionErrorAt
  <2>2. Expected(u, v)[1] = Abs(2 * v - Centre(ArgMax(next)))
    BY <1>3, <1>8 DEF Expected
  <2>3. PredictionErrorAt(1, <<u, v>>) = Expected(u, v)[1]
    BY <1>4, <1>8, <2>1, <2>2
  <2>4. QED
    BY <1>6, <2>3 DEF Expected
<1>9. QED
  BY <1>7, <1>8

\* Each prediction is the one a batch over everything learned would make.
THEOREM PredictsFromWhatItLearned == Spec => []PredictsFromHistory
<1>1. Init => MatrixCurrent
  BY DEF Init, MatrixCurrent, Normalise, RecomputeRow, Unseen, Uniform
<1>2. LearnsAccepted /\ MatrixCurrent => PredictsFromHistory
  BY PredictionOfLearned DEF PredictsFromHistory, PredictionErrorsFor, Expected
<1>3. QED
  BY <1>1, <1>2, TypeCorrect, LearnsWhatItAccepts, MatrixPreserved, PTL DEF Spec
-----------------------------------------------------------------------------
(* Moves the metric never made. *)

\* Moves made in the checkpoint's data and in all values since.
Made(a, b) == Moves(base, a, b) + Moves(stream, a, b)

\* A phantom needs a value that was dropped, so the model is in one of three
\* states: it learned no value yet; the last value given was learned, and each
\* freeze had its phantom; or one freeze still has its phantom to come.
OnlyBase == seen = <<>> /\ \A a, b \in Bins : counts[a][b] <= Moves(base, a, b)
InStep   == /\ seen # <<>> /\ stream # <<>>
            /\ LastBin(stream) = lastBin
            /\ \A a, b \in Bins : counts[a][b] <= Made(a, b) + freezes
ToSpare  == \A a, b \in Bins : counts[a][b] + 1 <= Made(a, b) + freezes

PhantomInv ==
  /\ OnlyBase \/ InStep \/ ToSpare
  /\ frozen => OnlyBase \/ ToSpare

LEMMA MadeType ==
  TypeOK => \A a, b \in Bins :
    /\ counts[a][b] \in Nat /\ freezes \in Nat /\ Made(a, b) \in Nat
    /\ Moves(base, a, b) \in Nat /\ Moves(base, a, b) <= Made(a, b)
<1> SUFFICES ASSUME TypeOK, NEW a \in Bins, NEW b \in Bins
             PROVE  /\ counts[a][b] \in Nat /\ freezes \in Nat /\ Made(a, b) \in Nat
                    /\ Moves(base, a, b) \in Nat /\ Moves(base, a, b) <= Made(a, b)
  OBVIOUS
<1>1. base \in Series /\ stream \in Series
  BY DEF TypeOK, Series
<1>2. Moves(base, a, b) \in Nat /\ Moves(stream, a, b) \in Nat
  BY <1>1, MovesType
<1>3. counts[a][b] \in Nat /\ freezes \in Nat
  BY DEF TypeOK
<1>4. QED
  BY <1>2, <1>3 DEF Made

\* A value given to the model, learned or not, adds the move from the bin before it.
LEMMA MadeGrows ==
  ASSUME TypeOK, NEW v \in Samples, base' = base, stream' = Append(stream, v)
  PROVE  \A a, b \in Bins :
           /\ Made(a, b)' = Made(a, b)
                + IF stream # <<>> /\ LastBin(stream) = a /\ Discretize(v) = b THEN 1 ELSE 0
           /\ Made(a, b) <= Made(a, b)'
<1> SUFFICES ASSUME NEW a \in Bins, NEW b \in Bins
             PROVE  /\ Made(a, b)' = Made(a, b)
                         + IF stream # <<>> /\ LastBin(stream) = a /\ Discretize(v) = b
                           THEN 1 ELSE 0
                    /\ Made(a, b) <= Made(a, b)'
  OBVIOUS
<1>1. stream \in Series /\ base \in Series
  BY DEF TypeOK, Series
<1>2. Moves(base, a, b) \in Nat /\ Moves(stream, a, b) \in Nat
  BY <1>1, MovesType
<1>3. Moves(Append(stream, v), a, b) = Moves(stream, a, b)
        + IF stream # <<>> /\ LastBin(stream) = a /\ Discretize(v) = b THEN 1 ELSE 0
  BY <1>1, MovesAppend
<1>4. QED
  BY <1>2, <1>3 DEF Made

LEMMA PhantomFit ==
  ASSUME TypeOK, NEW data \in Baselines, Fit(data)
  PROVE  PhantomInv'
<1>1. data \in Series /\ data # <<>>
  BY SamplesAssumption DEF Fit, Series
<1>2. /\ counts' = CountMatrix(data) /\ base' = <<>> /\ stream' = data /\ seen' = data
      /\ lastBin' = LastBin(data) /\ frozen' = frozen
      /\ freezes' = IF frozen THEN 1 ELSE 0
  BY DEF Fit, LastBin
<1>3. \A a, b \in Bins : counts'[a][b] = Made(a, b)' /\ counts'[a][b] \in Nat
  <2>1. \A a, b \in Bins :
          Moves(<<>>, a, b) + Moves(data, a, b) = Moves(data, a, b) /\ Moves(data, a, b) \in Nat
    BY <1>1, MovesEmpty, MovesType
  <2>2. QED
    BY <1>2, <2>1 DEF Made, CountMatrix
<1>4. CASE frozen
  BY <1>2, <1>3, <1>4 DEF PhantomInv, ToSpare
<1>5. CASE ~frozen
  BY <1>1, <1>2, <1>3, <1>5 DEF PhantomInv, InStep
<1>6. QED
  BY <1>4, <1>5

LEMMA PhantomFromCheckpoint ==
  ASSUME NEW data \in Baselines, FromCheckpoint(data)
  PROVE  PhantomInv'
<1>1. data \in Series
  BY SamplesAssumption DEF Series
<1>2. counts' = CountMatrix(data) /\ base' = data /\ seen' = <<>>
  BY DEF FromCheckpoint, Checkpoint
<1>3. \A a, b \in Bins : counts'[a][b] = Moves(base', a, b) /\ counts'[a][b] \in Nat
  BY <1>1, <1>2, MovesType DEF CountMatrix
<1>4. \A a, b \in Bins : counts'[a][b] <= Moves(base', a, b)
  BY <1>3
<1>5. QED
  BY <1>2, <1>4 DEF PhantomInv, OnlyBase

\* Learning a value: whatever was to spare pays for the one move it may invent.
LEMMA PhantomLearn ==
  ASSUME TypeOK, LearnsAccepted, PhantomInv, NEW v \in Samples, Learn(v)
  PROVE  PhantomInv'
<1> DEFINE hit(a, b) == lastBin = a /\ Discretize(v) = b
<1>1. /\ ~frozen /\ frozen' = frozen /\ freezes' = freezes /\ base' = base
      /\ seen' = Append(seen, v) /\ stream' = Append(stream, v)
      /\ lastBin' = Discretize(v)
  BY DEF Learn
<1>2. seen \in Series /\ stream \in Series /\ Discretize(v) \in Bins
  BY DiscretizeType DEF TypeOK, Series
<1>3. seen' # <<>> /\ stream' # <<>> /\ LastBin(stream') = lastBin'
  BY <1>1, <1>2, SeriesGrows
<1>4. lastBin = NoBin <=> seen = <<>>
  BY DiscretizeType, NoBinIsNone DEF LearnsAccepted
<1>5. \A a, b \in Bins :
        counts'[a][b] = counts[a][b] + IF seen # <<>> /\ hit(a, b) THEN 1 ELSE 0
  <2>1. CASE seen = <<>>
    <3>1. counts' = counts
      BY <1>4, <2>1 DEF Learn
    <3>2. QED
      BY <2>1, <3>1, MadeType
  <2>2. CASE seen # <<>>
    <3>1. counts \in [Bins -> [Bins -> Nat]] /\ lastBin \in Bins
      BY <1>4, <2>2 DEF TypeOK
    <3>2. counts' = Counted(lastBin, Discretize(v))
      BY <1>4, <2>2 DEF Learn
    <3>3. \A a, b \in Bins : Counted(lastBin, Discretize(v))[a][b] =
            counts[a][b] + IF a = lastBin /\ b = Discretize(v) THEN 1 ELSE 0
      BY <1>2, <3>1, CountedFacts
    <3>4. QED
      BY <2>2, <3>2, <3>3
  <2>3. QED
    BY <2>1, <2>2
<1>6. \A a, b \in Bins :
        /\ Made(a, b)' = Made(a, b)
             + IF stream # <<>> /\ LastBin(stream) = a /\ Discretize(v) = b THEN 1 ELSE 0
        /\ Made(a, b) <= Made(a, b)'
  BY <1>1, MadeGrows
<1>7. \A a, b \in Bins : counts'[a][b] <= Made(a, b)' + freezes'
  <2> SUFFICES ASSUME NEW a \in Bins, NEW b \in Bins
               PROVE  counts'[a][b] <= Made(a, b)' + freezes'
    OBVIOUS
  <2>1. /\ counts[a][b] \in Nat /\ freezes \in Nat /\ Made(a, b) \in Nat
        /\ Moves(base, a, b) \in Nat /\ Moves(base, a, b) <= Made(a, b)
    BY MadeType
  <2>2. /\ Made(a, b)' = Made(a, b)
             + IF stream # <<>> /\ LastBin(stream) = a /\ Discretize(v) = b THEN 1 ELSE 0
        /\ Made(a, b)' >= Made(a, b)
    BY <1>6, <2>1
  <2>3. CASE OnlyBase
    <3>1. counts[a][b] <= Moves(base, a, b) /\ seen = <<>>
      BY <2>3 DEF OnlyBase
    <3>2. QED
      BY <1>1, <1>5, <2>1, <2>2, <3>1
  <2>4. CASE InStep
    <3>1. /\ counts[a][b] <= Made(a, b) + freezes
          /\ seen # <<>> /\ stream # <<>> /\ LastBin(stream) = lastBin
      BY <2>4 DEF InStep
    <3>2. QED
      BY <1>1, <1>5, <2>1, <2>2, <3>1
  <2>5. CASE ToSpare
    <3>1. counts[a][b] + 1 <= Made(a, b) + freezes
      BY <2>5 DEF ToSpare
    <3>2. QED
      BY <1>1, <1>5, <2>1, <2>2, <3>1
  <2>6. QED
    BY <2>3, <2>4, <2>5 DEF PhantomInv
<1>8. QED
  BY <1>1, <1>3, <1>7 DEF PhantomInv, InStep

\* A value dropped: the moves made grow, the counts do not.
LEMMA PhantomDrop ==
  ASSUME TypeOK, PhantomInv, NEW v \in Samples, Drop(v)
  PROVE  PhantomInv'
<1>1. /\ frozen /\ counts' = counts /\ seen' = seen /\ base' = base
      /\ freezes' = freezes /\ stream' = Append(stream, v)
  BY DEF Drop, model
<1>2. OnlyBase => OnlyBase'
  BY <1>1 DEF OnlyBase
<1>3. ToSpare => ToSpare'
  <2> SUFFICES ASSUME ToSpare, NEW a \in Bins, NEW b \in Bins
               PROVE  counts'[a][b] + 1 <= Made(a, b)' + freezes'
    BY DEF ToSpare
  <2>1. counts[a][b] \in Nat /\ freezes \in Nat /\ Made(a, b) \in Nat
    BY MadeType
  <2>2. Made(a, b)' = Made(a, b)
          + IF stream # <<>> /\ LastBin(stream) = a /\ Discretize(v) = b THEN 1 ELSE 0
    BY <1>1, MadeGrows
  <2>3. counts[a][b] + 1 <= Made(a, b) + freezes
    BY DEF ToSpare
  <2>4. QED
    BY <1>1, <2>1, <2>2, <2>3
<1>4. QED
  BY <1>1, <1>2, <1>3 DEF PhantomInv

\* A freeze that takes effect adds one to the allowance; one of a frozen model is
\* the state it was in.
LEMMA PhantomFreeze ==
  ASSUME TypeOK, PhantomInv, Freeze
  PROVE  PhantomInv'
<1>1. /\ counts' = counts /\ seen' = seen /\ base' = base /\ stream' = stream
      /\ freezes' = IF frozen THEN freezes ELSE freezes + 1
  BY DEF Freeze, model
<1>2. OnlyBase => OnlyBase'
  BY <1>1 DEF OnlyBase
<1>3. (frozen /\ ToSpare) \/ (~frozen /\ InStep) \/ (~frozen /\ ToSpare) => ToSpare'
  <2> SUFFICES ASSUME (frozen /\ ToSpare) \/ (~frozen /\ InStep) \/ (~frozen /\ ToSpare),
                      NEW a \in Bins, NEW b \in Bins
               PROVE  counts'[a][b] + 1 <= Made(a, b)' + freezes'
    BY DEF ToSpare
  <2>1. counts[a][b] \in Nat /\ freezes \in Nat /\ Made(a, b) \in Nat
    BY MadeType
  <2>2. Made(a, b)' = Made(a, b)
    BY <1>1 DEF Made
  <2>3. CASE frozen /\ ToSpare
    BY <1>1, <2>1, <2>2, <2>3 DEF ToSpare
  <2>4. CASE ~frozen /\ InStep
    BY <1>1, <2>1, <2>2, <2>4 DEF InStep
  <2>5. CASE ~frozen /\ ToSpare
    BY <1>1, <2>1, <2>2, <2>5 DEF ToSpare
  <2>6. QED
    BY <2>3, <2>4, <2>5
<1>4. QED
  BY <1>2, <1>3 DEF PhantomInv

LEMMA PhantomPreserved ==
  TypeOK /\ LearnsAccepted /\ PhantomInv /\ [Next]_vars => PhantomInv'
<1> SUFFICES ASSUME TypeOK, LearnsAccepted, PhantomInv, [Next]_vars PROVE PhantomInv'
  OBVIOUS
<1>1. ASSUME UNCHANGED <<counts, lastBin, base, seen, stream, freezes>>, ~frozen'
      PROVE  PhantomInv'
  BY <1>1 DEF PhantomInv, OnlyBase, InStep, ToSpare, Made
<1>2. CASE Unfreeze
  BY <1>1, <1>2 DEF Unfreeze, model, history
<1>3. CASE UNCHANGED vars
  BY <1>3 DEF vars, PhantomInv, OnlyBase, InStep, ToSpare, Made
<1>4. QED
  BY <1>2, <1>3, PhantomFit, PhantomFromCheckpoint, PhantomLearn, PhantomDrop, PhantomFreeze
  DEF Next

\* No entry of the model exceeds the moves that were made by more than one per
\* freeze.
THEOREM FewPhantoms == Spec => []PhantomMovesBounded
<1>1. ASSUME Init PROVE PhantomInv
  <2>1. seen = <<>> /\ base = <<>> /\ \A a, b \in Bins : counts[a][b] = 0
    BY <1>1 DEF Init
  <2>2. \A a, b \in Bins : counts[a][b] <= Moves(base, a, b)
    BY <2>1, MovesEmpty
  <2>3. QED
    BY <2>1, <2>2 DEF PhantomInv, OnlyBase
<1>2. ASSUME TypeOK, PhantomInv PROVE PhantomMovesBounded
  <2> SUFFICES ASSUME NEW a \in Bins, NEW b \in Bins
               PROVE  counts[a][b] <= Made(a, b) + freezes
    BY DEF PhantomMovesBounded, Made
  <2>1. /\ counts[a][b] \in Nat /\ freezes \in Nat /\ Made(a, b) \in Nat
        /\ Moves(base, a, b) \in Nat /\ Moves(base, a, b) <= Made(a, b)
    BY <1>2, MadeType
  <2>2. CASE OnlyBase
    <3>1. counts[a][b] <= Moves(base, a, b)
      BY <2>2 DEF OnlyBase
    <3>2. QED
      BY <2>1, <3>1
  <2>3. CASE InStep
    BY <2>3 DEF InStep
  <2>4. CASE ToSpare
    <3>1. counts[a][b] + 1 <= Made(a, b) + freezes
      BY <2>4 DEF ToSpare
    <3>2. QED
      BY <2>1, <3>1
  <2>5. QED
    BY <1>2, <2>2, <2>3, <2>4 DEF PhantomInv
<1>3. QED
  BY <1>1, <1>2, TypeCorrect, LearnsWhatItAccepts, PhantomPreserved, PTL DEF Spec
=============================================================================
