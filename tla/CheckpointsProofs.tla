-------------------------- MODULE CheckpointsProofs --------------------------
(***************************************************************************)
(* Proofs about the checkpoints, for every set of keys and of windows,     *)
(* every step, warmup and tail, and any number of runs and kills.          *)
(***************************************************************************)
EXTENDS Checkpoints, FiniteSetTheorems, TLAPS

-----------------------------------------------------------------------------
(* The largest and the smallest of a set *)

LEMMA MaxIsGreatest ==
  ASSUME NEW S \in SUBSET Nat, IsFiniteSet(S), S # {}
  PROVE  Max(S) \in S /\ \A y \in S : Max(S) >= y
<1> DEFINE NoMax == {T \in SUBSET S : T # {} /\ ~ \E x \in T : \A y \in T : x >= y}
<1>1. ASSUME NoMax # {} PROVE FALSE
  <2>1. IsWellFoundedOn(StrictSubsetOrdering(S), SUBSET S)
    BY FS_StrictSubsetOrderingWellFounded, FS_FiniteSubsetsOfFinite
  <2>2. PICK T \in NoMax : \A U \in NoMax : <<U, T>> \notin StrictSubsetOrdering(S)
    <3> HIDE DEF NoMax
    <3>1. NoMax \subseteq SUBSET S
      BY DEF NoMax
    <3> QED BY <1>1, <2>1, <3>1, WFMin
  <2>3. PICK m \in T : TRUE
    OBVIOUS
  <2>4. T \ {m} # {}
    BY <2>2, <2>3
  <2>5. ASSUME NEW x \in T \ {m}, \A y \in T \ {m} : x >= y PROVE FALSE
    BY <2>2, <2>3, <2>5
  <2>6. T \ {m} \in NoMax
    BY <2>4, <2>5
  <2>7. <<T \ {m}, T>> \in StrictSubsetOrdering(S)
    BY <2>3 DEF StrictSubsetOrdering
  <2> QED BY <2>2, <2>6, <2>7
<1>2. \E x \in S : \A y \in S : x >= y
  BY <1>1
<1> QED BY <1>2 DEF Max

LEMMA MinIsLeast ==
  ASSUME NEW S \in SUBSET Nat, IsFiniteSet(S), S # {}
  PROVE  Min(S) \in S /\ \A y \in S : Min(S) <= y
<1>1. PICK n \in Nat : \A y \in S : n >= y
  BY MaxIsGreatest
<1> DEFINE Down == {n - y : y \in S}
<1>2. Down \in SUBSET Nat /\ Down # {} /\ \A d \in Down : d <= n
  BY <1>1
<1>3. IsFiniteSet(Down)
  BY <1>1, <1>2, FS_BoundedSetOfNaturals
<1>4. PICK d \in Down : \A y \in Down : d >= y
  BY <1>2, <1>3, MaxIsGreatest
<1>5. PICK x \in S : d = n - x
  OBVIOUS
<1>6. \A y \in S : x <= y
  <2> SUFFICES ASSUME NEW y \in S PROVE x <= y
    OBVIOUS
  <2>1. d >= n - y
    BY <1>4
  <2> QED BY <2>1, <1>5
<1> QED BY <1>6 DEF Min

\* More seconds have no fewer samples.
LEMMA DivMonotone ==
  ASSUME NEW a \in Int, NEW b \in Int, a <= b
  PROVE  a \div Step <= b \div Step
  BY WindowsAssumption

LEMMA CompleteType == \A a \in Nat : a \div Step \in Nat /\ Complete(a) \in Nat
  BY WindowsAssumption DEF Complete

LEMMA WindowType ==
  ASSUME todo \subseteq Windows, todo # {}
  PROVE  Window \in todo /\ Window \in Windows /\ Window \in Nat /\ \A w \in todo : Window <= w
<1>1. todo \in SUBSET Nat /\ IsFiniteSet(todo)
  BY WindowsAssumption, FS_Subset
<1>2. Window \in todo /\ \A w \in todo : Window <= w
  BY <1>1, MinIsLeast DEF Window
<1> QED BY <1>1, <1>2

LEMMA MaxWindowType ==
  MaxWindow \in Windows /\ MaxWindow \in Nat /\ \A w \in Windows : w <= MaxWindow
<1>1. MaxWindow \in Windows /\ \A w \in Windows : MaxWindow >= w
  BY WindowsAssumption, MaxIsGreatest DEF MaxWindow
<1> QED BY <1>1, WindowsAssumption

\* The samples a window is trained on.
LEMMA PrefixType ==
  ASSUME todo \subseteq Windows, todo # {}, data \in Nat
  PROVE  /\ Prefix \in Nat
         /\ mode # "all" => Prefix = data
         /\ mode = "all" => Prefix = IF data <= Window \div Step THEN data ELSE Window \div Step
<1> DEFINE v == Window \div Step
<1>1. v \in Nat
  BY WindowType, CompleteType
<1> HIDE DEF v
<1>2. IsFiniteSet({data, v}) /\ {data, v} \in SUBSET Nat
  <2>1. IsFiniteSet({data} \cup {v})
    BY FS_Singleton, FS_AddElement
  <2>2. {data, v} = {data} \cup {v}
    OBVIOUS
  <2> QED BY <1>1, <2>1, <2>2
<1>3. Min({data, v}) \in {data, v} /\ Min({data, v}) <= data /\ Min({data, v}) <= v
  BY <1>2, MinIsLeast
<1>4. Min({data, v}) = IF data <= v THEN data ELSE v
  BY <1>1, <1>3
<1> QED BY <1>1, <1>4 DEF Prefix, v

LEMMA NoWindowsListed == IsManifest(<<>>) /\ DOMAIN <<>> = {}
<1>1. <<>> \in [{} -> Records]
  OBVIOUS
<1> QED BY <1>1 DEF IsManifest

-----------------------------------------------------------------------------
(* The types *)

\* A key is at work, with data, while its windows are trained and listed.
Placed ==
  /\ mode = "all" => pc \notin {"warmup", "wait", "load"}
  /\ Working => key \in Keys /\ data >= 2
  /\ mode = "ready" /\ pc # "idle" => todo # {}
  /\ pc \in {"train", "saving"} => todo # {}
  /\ mode = "ready" /\ pc \in {"train", "saving", "load"} => listed = <<>>
  /\ pc # "idle" => ended = "never"

\* What the properties leave unsaid: types, and what the baseline is cut to.
Typed ==
  /\ manifest = [k \in Keys |-> manifest[k]]
  /\ run \in Nat /\ clock \in Nat /\ start \in Nat /\ end \in Nat /\ data \in Nat
  /\ IsManifest(listed)

Timed ==
  /\ mode = "ready" /\ pc \notin {"idle", "warmup"} => Warmup <= start /\ start <= clock
  /\ mode = "ready" /\ pc \in {"query", "train", "saving", "load", "list", "listing"} =>
       start + Window <= end
  /\ mode = "all" /\ pc # "idle" => start = 0 /\ end = MaxWindow
  /\ Working => data <= Complete(end - start)

TypeInv == TypeOK /\ Placed /\ Typed /\ Timed

LEMMA InitTypeInv == Init => TypeInv
  BY NoWindowsListed DEF Init, TypeInv, TypeOK, Placed, Typed, Timed, Working, Modes, Readable

\* How far the baseline at hand reaches.
LEMMA SpanType ==
  ASSUME TypeInv, pc \in {"query", "train", "saving", "load", "list", "listing"}
  PROVE  /\ end - start \in Nat /\ Complete(end - start) \in Nat
         /\ mode = "ready" => /\ Window \in todo /\ Window \in Nat
                              /\ start + Window <= end /\ Warmup <= start
         /\ mode = "all" => start = 0 /\ end = MaxWindow
<1>1. CASE mode = "ready"
  <2>1. todo \subseteq Windows /\ todo # {}
    BY <1>1 DEF TypeInv, TypeOK, Placed
  <2>2. Window \in todo /\ Window \in Nat
    BY <2>1, WindowType
  <2>3. start \in Nat /\ end \in Nat /\ start + Window <= end /\ Warmup <= start
    BY <1>1 DEF TypeInv, Typed, Timed
  <2>4. end - start \in Nat
    BY <2>2, <2>3
  <2> QED BY <1>1, <2>2, <2>3, <2>4, CompleteType
<1>2. CASE mode = "all"
  <2>1. start = 0 /\ end = MaxWindow
    BY <1>2 DEF TypeInv, Timed
  <2>2. end - start \in Nat
    BY <2>1, MaxWindowType
  <2> QED BY <1>2, <2>1, <2>2, CompleteType
<1> QED BY <1>1, <1>2 DEF TypeInv, TypeOK, Modes

\* What Trained says of the window at hand is a record.
LEMMA TrainedType ==
  ASSUME TypeInv, pc \in {"train", "saving"}
  PROVE  Trained \in Records /\ Window \in todo /\ Window \in Windows /\ Prefix \in Nat
<1>1. todo \subseteq Windows /\ todo # {} /\ data \in Nat /\ run \in Nat /\ end \in Nat
  BY DEF TypeInv, TypeOK, Placed, Typed
<1>2. Window \in todo /\ Window \in Windows /\ Window \in Nat /\ Prefix \in Nat
  BY <1>1, WindowType, PrefixType
<1>3. (IF mode = "ready" THEN end - Warmup - Window ELSE 0) \in Int
  BY <1>1, <1>2, WindowsAssumption
<1>4. (data = Complete(end - start)) \in BOOLEAN /\ (mode = "ready" /\ end > LoadEnds) \in BOOLEAN
  OBVIOUS
<1> QED BY <1>1, <1>2, <1>3, <1>4 DEF Trained, Records

\* The process ends.
LEMMA ProcessEndsStep ==
  ASSUME TypeInv, NEW how \in {"done", "raised", "aborted", "killed"}, ProcessEnds(how),
         file' = file, manifest' = manifest, mode' = mode, run' = run, skipped' = skipped,
         cut' \subseteq Keys, broken' \subseteq Keys \X Windows
  PROVE  TypeInv'
<1> USE DEF TypeInv, ProcessEnds
<1>1. TypeOK'
  BY DEF TypeOK, Readable
<1>2. Typed' /\ Timed' /\ Placed'
  BY NoWindowsListed DEF Typed, Timed, Placed, Working
<1> QED BY <1>1, <1>2

LEMMA NewManifest ==
  ASSUME TypeInv, NEW x, x \in {Absent, Torn} \/ IsManifest(x), key \in Keys,
         manifest' = [manifest EXCEPT ![key] = x]
  PROVE  /\ \A k \in Keys : Readable(manifest'[k]) => IsManifest(manifest'[k])
         /\ manifest' = [k \in Keys |-> manifest'[k]]
         /\ manifest'[key] = x /\ \A k \in Keys \ {key} : manifest'[k] = manifest[k]
  BY DEF TypeInv, TypeOK, Typed, Readable

LEMMA StepTypeInv == TypeInv /\ [Next]_vars => TypeInv'
<1> SUFFICES ASSUME TypeInv, [Next]_vars PROVE TypeInv'
  OBVIOUS
<1> USE DEF disk, plan, time, loop
<1>1. ASSUME NEW m \in Modes, Start(m) PROVE TypeInv'
  <2>1. TypeOK'
    BY <1>1 DEF TypeInv, TypeOK, Start, Modes, Readable
  <2>2. Typed' /\ Timed'
    BY <1>1, NoWindowsListed, MaxWindowType DEF TypeInv, Typed, Timed, Start, Modes, Working
  <2>3. Placed'
    BY <1>1, WindowsAssumption DEF TypeInv, Placed, Start, Modes, Working
  <2> QED BY <2>1, <2>2, <2>3 DEF TypeInv
<1>2. CASE Tick
  <2>1. TypeOK' /\ Placed'
    BY <1>2 DEF TypeInv, TypeOK, Placed, Tick, Readable, Working
  <2>2. clock' \in Nat /\ clock <= clock' /\ start' = start /\ end' = end
    BY <1>2 DEF TypeInv, Typed, Tick
  <2>3. Typed' /\ Timed'
    BY <1>2, <2>2 DEF TypeInv, Typed, Timed, Tick, Working, Window, Complete
  <2> QED BY <2>1, <2>3 DEF TypeInv
<1>3. CASE WarmupEnds
  <2>1. TypeOK' /\ Placed'
    BY <1>3 DEF TypeInv, TypeOK, Placed, WarmupEnds, Readable, Working
  <2>2. Typed' /\ Timed'
    BY <1>3, WindowsAssumption DEF TypeInv, Placed, Typed, Timed, WarmupEnds, Working, Target
  <2> QED BY <2>1, <2>2 DEF TypeInv
<1>4. CASE CaptureEnds
  <2>1. TypeOK' /\ Placed'
    BY <1>4 DEF TypeInv, TypeOK, Placed, CaptureEnds, Readable, Working
  <2>2. Typed' /\ Timed'
    BY <1>4 DEF TypeInv, Placed, Typed, Timed, CaptureEnds, Working, Target, Window
  <2> QED BY <2>1, <2>2 DEF TypeInv
<1>5. ASSUME NEW k \in Keys, Skip(k) PROVE TypeInv'
  <2>1. mode = "ready" => Window \in Windows
    BY <1>5, SpanType DEF TypeInv, TypeOK, Skip
  <2>2. {k} \X (IF mode = "ready" THEN {Window} ELSE Windows) \subseteq Keys \X Windows
    BY <2>1
  <2>3. TypeOK'
    BY <1>5, <2>2 DEF TypeInv, TypeOK, Skip, Readable
  <2>4. Placed' /\ Typed' /\ Timed'
    BY <1>5 DEF TypeInv, Placed, Typed, Timed, Skip, Working, Window, Complete
  <2> QED BY <2>3, <2>4 DEF TypeInv
<1>6. ASSUME NEW k \in Keys, Query(k) PROVE TypeInv'
  <2>1. end - start \in Nat /\ Complete(end - start) \in Nat
    BY <1>6, SpanType DEF Query
  <2>2. data' \in Nat /\ data' >= 2 /\ data' <= Complete(end - start)
    BY <1>6, <2>1, WindowsAssumption DEF Query, Answers
  <2>3. TypeOK' /\ Placed'
    BY <1>6, <2>2, WindowsAssumption DEF TypeInv, TypeOK, Placed, Query, Readable, Working, Modes
  <2>4. Typed' /\ Timed'
    BY <1>6, <2>2, NoWindowsListed DEF TypeInv, Typed, Timed, Query, Working, Window, Complete
  <2> QED BY <2>3, <2>4 DEF TypeInv
<1>7. CASE TooFew
  <2>1. Window \in todo /\ Window \in Windows /\ key \in Keys /\ data \in Nat /\ data >= 2
    BY <1>7, TrainedType DEF TypeInv, Placed, Typed, TooFew, Working
  <2>2. mode = "all"
    BY <1>7, <2>1, PrefixType DEF TypeInv, TypeOK, Placed, TooFew, Modes
  <2>3. TypeOK' /\ Placed'
    BY <1>7, <2>1, <2>2 DEF TypeInv, TypeOK, Placed, TooFew, NextKey, Readable, Working
  <2>4. Typed' /\ Timed'
    BY <1>7, <2>2, NoWindowsListed
    DEF TypeInv, Typed, Timed, TooFew, NextKey, Working, Complete
  <2> QED BY <2>3, <2>4 DEF TypeInv
<1>8. CASE SaveBegins
  <2>1. Window \in Windows /\ key \in Keys
    BY <1>8, TrainedType DEF TypeInv, Placed, SaveBegins, Working
  <2>2. TypeOK' /\ Placed'
    BY <1>8, <2>1 DEF TypeInv, TypeOK, Placed, SaveBegins, Readable, Working
  <2>3. Typed' /\ Timed'
    BY <1>8 DEF TypeInv, Typed, Timed, SaveBegins, Working, Window, Complete
  <2> QED BY <2>2, <2>3 DEF TypeInv
<1>9. CASE SaveEnds
  <2>1. Window \in todo /\ Window \in Windows /\ key \in Keys /\ Trained \in Records
    BY <1>9, TrainedType DEF TypeInv, Placed, SaveEnds, Working
  <2>2. file' \in [Keys -> [Windows -> Records \cup {Absent, Torn}]]
    BY <1>9, <2>1 DEF TypeInv, TypeOK, SaveEnds
  <2>3. TypeOK'
    BY <1>9, <2>2 DEF TypeInv, TypeOK, SaveEnds, Readable
  <2>4. Placed'
    BY <1>9 DEF TypeInv, TypeOK, Placed, SaveEnds, Working, Modes
  <2>5. IsManifest(listed')
    <3>1. CASE mode = "ready"
      BY <1>9, <3>1 DEF TypeInv, Typed, SaveEnds
    <3>2. CASE mode # "ready"
      <4>1. PICK D \in SUBSET Windows : listed \in [D -> Records]
        BY DEF TypeInv, Typed, IsManifest
      <4>2. listed' = [w \in D \cup {Window} |-> IF w = Window THEN Trained ELSE listed[w]]
        BY <1>9, <3>2, <4>1 DEF SaveEnds
      <4>3. listed' \in [D \cup {Window} -> Records]
        BY <2>1, <4>1, <4>2
      <4> QED BY <2>1, <4>3 DEF IsManifest
    <3> QED BY <3>1, <3>2
  <2>6. Typed'
    BY <1>9, <2>5 DEF TypeInv, Typed, SaveEnds
  <2>7. Timed'
    BY <1>9 DEF TypeInv, Timed, SaveEnds, Working, Window, Complete
  <2> QED BY <2>3, <2>4, <2>6, <2>7 DEF TypeInv
<1>10. CASE Load
  <2>1. key \in Keys /\ mode = "ready"
    BY <1>10 DEF TypeInv, TypeOK, Placed, Load, Working, Modes
  <2>2. \A w \in Existing(key) : file[key][w] \in Records /\ w \in Windows
    BY <1>10, <2>1 DEF TypeInv, TypeOK, Load, Existing
  <2>3. listed' \in [Existing(key) -> Records]
    BY <1>10, <2>2 DEF Load
  <2>4. IsManifest(listed')
    BY <2>2, <2>3 DEF IsManifest, Existing
  <2>5. TypeOK' /\ Placed'
    BY <1>10, <2>1 DEF TypeInv, TypeOK, Placed, Load, Readable, Working
  <2>6. Typed' /\ Timed'
    BY <1>10, <2>4 DEF TypeInv, Typed, Timed, Load, Working, Window, Complete
  <2> QED BY <2>5, <2>6 DEF TypeInv
<1>20. CASE QueryRaises
  BY <1>20, ProcessEndsStep DEF QueryRaises, TypeInv, TypeOK
<1>11. CASE LoadFails
  <2>1. cut' \subseteq Keys /\ broken' \subseteq Keys \X Windows
    BY <1>11 DEF TypeInv, TypeOK, Placed, LoadFails, Working
  <2> QED BY <1>11, <2>1, ProcessEndsStep DEF LoadFails
<1>12. CASE ListBegins
  <2>1. key \in Keys
    BY <1>12 DEF TypeInv, Placed, ListBegins, Working
  <2>2. TypeOK'
    BY <1>12, <2>1, NewManifest DEF TypeInv, TypeOK, ListBegins
  <2>3. Placed' /\ Timed'
    BY <1>12 DEF TypeInv, Placed, Timed, ListBegins, Working, Window, Complete
  <2>4. Typed'
    BY <1>12, <2>1, NewManifest DEF TypeInv, Typed, ListBegins
  <2> QED BY <2>2, <2>3, <2>4 DEF TypeInv
<1>13. CASE ListEnds
  <2>1. key \in Keys /\ IsManifest(listed)
    BY <1>13 DEF TypeInv, Placed, Typed, ListEnds, Working
  <2>2. TypeOK'
    BY <1>13, <2>1, NewManifest DEF TypeInv, TypeOK, ListEnds, NextKey
  <2>3. Placed' /\ Timed'
    BY <1>13 DEF TypeInv, Placed, Timed, ListEnds, NextKey, Working, Window, Complete
  <2>4. Typed'
    BY <1>13, <2>1, NewManifest, NoWindowsListed DEF TypeInv, Typed, ListEnds, NextKey
  <2> QED BY <2>2, <2>3, <2>4 DEF TypeInv
<1>14. CASE KeysDone
  <2>1. todo \ {Window} # {}
    <3>1. todo # {Window}
      <4>1. Cardinality({Window}) = 1
        BY FS_Singleton
      <4>2. Cardinality(todo) > 1
        BY <1>14 DEF KeysDone
      <4> QED BY <4>1, <4>2
    <3>2. todo # {}
      BY <1>14 DEF TypeInv, Placed, KeysDone
    <3> QED BY <3>1, <3>2
  <2>2. TypeOK' /\ Placed'
    BY <1>14, <2>1 DEF TypeInv, TypeOK, Placed, KeysDone, Readable, Working
  <2>3. Typed' /\ Timed'
    BY <1>14 DEF TypeInv, Typed, Timed, KeysDone, Working
  <2> QED BY <2>2, <2>3 DEF TypeInv
<1>15. CASE RunDone
  BY <1>15, ProcessEndsStep DEF TypeInv, TypeOK, RunDone
<1>16. CASE Kill
  <2>1. cut' \subseteq Keys
    BY <1>16 DEF TypeInv, TypeOK, Placed, Kill
  <2>2. broken' \subseteq Keys \X Windows
    BY <1>16, TrainedType DEF TypeInv, TypeOK, Placed, Kill, Working
  <2> QED BY <1>16, <2>1, <2>2, ProcessEndsStep DEF Kill
<1>17. CASE UNCHANGED vars
  BY <1>17 DEF vars, TypeInv, TypeOK, Placed, Typed, Timed, Readable, Working, Window, Complete
<1> QED
  BY <1>20, <1>1, <1>2, <1>3, <1>4, <1>5, <1>6, <1>7, <1>8, <1>9, <1>10, <1>11, <1>12, <1>13,
     <1>14, <1>15, <1>16, <1>17 DEF Next

\* Every file of a key is a record of its training, absent or torn, and everything
\* else the script keeps is of its type.
THEOREM TypeCorrect == Spec => []TypeOK
<1>1. Init => TypeInv
  BY InitTypeInv
<1>2. TypeInv /\ [Next]_vars => TypeInv'
  BY StepTypeInv
<1>3. TypeInv => TypeOK
  BY DEF TypeInv
<1> QED BY <1>1, <1>2, <1>3, PTL DEF Spec

-----------------------------------------------------------------------------
(* Manifests *)

\* The manifest of a key says what its files hold.
Truthful(k) ==
  Readable(manifest[k]) => \A w \in DOMAIN manifest[k] : manifest[k][w] = file[k][w]

\* What will be listed is in the files; and a key of which nothing has been saved
\* is as truthful as it was.
ListTruthful ==
  /\ pc \in {"train", "saving", "list", "listing"} =>
       \A w \in DOMAIN listed :
         /\ listed[w] = file[key][w]
         /\ mode = "all" => w \notin todo
  /\ pc = "train" /\ listed = <<>> => key \in cut \/ Truthful(key)

TruthInv == ManifestTruthful /\ ListTruthful

LEMMA TruthfulElsewhere ==
  ASSUME ManifestTruthful, NEW k \in Keys, k \notin cut, ~(Working /\ key = k)
  PROVE  Truthful(k)
  BY DEF ManifestTruthful, Truthful

LEMMA ManifestTruthfulIs ==
  ManifestTruthful' <=> \A k \in Keys : k \notin cut' /\ ~(Working' /\ key' = k) => Truthful(k)'
  BY DEF ManifestTruthful, Truthful

LEMMA StepTruthInv == TypeInv /\ TruthInv /\ [Next]_vars => TruthInv'
<1> SUFFICES ASSUME TypeInv, TruthInv, [Next]_vars PROVE TruthInv'
  OBVIOUS
<1> USE DEF disk, plan, time, loop
\* Between two keys, a step that changes no file.
<1>0. ASSUME ~Working, ~Working', cut' = cut, file' = file, manifest' = manifest PROVE TruthInv'
  BY <1>0 DEF TruthInv, ManifestTruthful, ListTruthful, Working
<1>1. ASSUME NEW m \in Modes, Start(m) PROVE TruthInv'
  BY <1>0, <1>1 DEF Start, Working
<1>2. CASE Tick
  BY <1>2 DEF Tick, TruthInv, ManifestTruthful, ListTruthful, Truthful, Working
<1>3. CASE WarmupEnds
  BY <1>0, <1>3 DEF WarmupEnds, Working
<1>4. CASE CaptureEnds
  BY <1>0, <1>4 DEF CaptureEnds, Working
<1>5. ASSUME NEW k \in Keys, Skip(k) PROVE TruthInv'
  BY <1>0, <1>5 DEF Skip, Working
<1>6. ASSUME NEW k \in Keys, Query(k) PROVE TruthInv'
  <2>1. ManifestTruthful'
    BY <1>6 DEF TruthInv, ManifestTruthful, Query, Working
  <2>2. k \in cut \/ Truthful(k)
    BY <1>6, TruthfulElsewhere DEF TruthInv, Query, Working
  <2>3. ListTruthful'
    BY <1>6, <2>2, NoWindowsListed DEF ListTruthful, Truthful, Query
  <2> QED BY <2>1, <2>3 DEF TruthInv
<1>7. CASE TooFew
  <2>1. CASE todo' = {} /\ listed = <<>>
    <3>1. key \in cut \/ Truthful(key)
      BY <1>7, <2>1 DEF TruthInv, ListTruthful, TooFew
    <3>2. \A k \in Keys : k \in cut \/ Truthful(k)
      BY <3>1, TruthfulElsewhere DEF TruthInv
    <3>3. ManifestTruthful'
      BY <1>7, <3>2 DEF ManifestTruthful, Truthful, TooFew
    <3>4. ListTruthful'
      BY <1>7, <2>1 DEF ListTruthful, TooFew, NextKey
    <3> QED BY <3>3, <3>4 DEF TruthInv
  <2>2. CASE ~(todo' = {} /\ listed = <<>>)
    <3>1. ManifestTruthful'
      BY <1>7, <2>2 DEF TruthInv, ManifestTruthful, TooFew, Working
    <3>2. ListTruthful'
      BY <1>7, <2>2 DEF TruthInv, ListTruthful, Truthful, TooFew
    <3> QED BY <3>1, <3>2 DEF TruthInv
  <2> QED BY <2>1, <2>2
<1>8. CASE SaveBegins
  <2>1. /\ \A w \in DOMAIN listed : w # Window
        /\ Window \in Windows /\ key \in Keys
    <3>1. Window \in todo /\ Window \in Windows /\ key \in Keys
      BY <1>8, TrainedType DEF TypeInv, Placed, SaveBegins, Working
    <3>2. mode = "ready" => listed = <<>>
      BY <1>8 DEF TypeInv, Placed, SaveBegins
    <3> QED BY <1>8, <3>1, <3>2, NoWindowsListed
        DEF TypeInv, TypeOK, Modes, TruthInv, ListTruthful, SaveBegins
  <2>2. /\ \A k \in Keys \ {key} : file'[k] = file[k]
        /\ \A w \in Windows \ {Window} : file'[key][w] = file[key][w]
    BY <1>8, <2>1 DEF TypeInv, TypeOK, SaveBegins
  <2>3. DOMAIN listed \subseteq Windows
    BY DEF TypeInv, Typed, IsManifest
  <2>4. ManifestTruthful'
    BY <1>8, <2>2 DEF TruthInv, ManifestTruthful, SaveBegins, Working
  <2>5. ListTruthful'
    BY <1>8, <2>1, <2>2, <2>3 DEF TruthInv, ListTruthful, SaveBegins
  <2> QED BY <2>4, <2>5 DEF TruthInv
<1>9. CASE SaveEnds
  <2>1. Window \in todo /\ Window \in Windows /\ key \in Keys
    BY <1>9, TrainedType DEF TypeInv, Placed, SaveEnds, Working
  <2>2. /\ \A k \in Keys \ {key} : file'[k] = file[k]
        /\ \A w \in Windows \ {Window} : file'[key][w] = file[key][w]
        /\ file'[key][Window] = Trained
    BY <1>9, <2>1 DEF TypeInv, TypeOK, SaveEnds
  <2>3. DOMAIN listed \subseteq Windows
    BY DEF TypeInv, Typed, IsManifest
  <2>4. ManifestTruthful'
    BY <1>9, <2>2 DEF TruthInv, ManifestTruthful, SaveEnds, Working
  <2>5. ListTruthful'
    <3>1. CASE mode = "ready"
      BY <1>9, <3>1 DEF ListTruthful, SaveEnds
    <3>2. CASE mode # "ready"
      <4>1. mode = "all" /\ mode' = "all" /\ key' = key /\ todo' = todo \ {Window}
        BY <1>9, <3>2 DEF TypeInv, TypeOK, Modes, SaveEnds
      <4>2. listed' = [w \in DOMAIN listed \cup {Window} |->
                         IF w = Window THEN Trained ELSE listed[w]]
        BY <1>9, <3>2 DEF SaveEnds
      <4>3. ASSUME NEW w \in DOMAIN listed' PROVE listed'[w] = file'[key'][w] /\ w \notin todo'
        <5>1. CASE w = Window
          BY <2>2, <4>1, <4>2, <5>1
        <5>2. CASE w # Window
          <6>1. w \in DOMAIN listed /\ listed'[w] = listed[w] /\ w \in Windows
            BY <2>3, <4>2, <5>2
          <6>2. listed[w] = file[key][w] /\ w \notin todo
            BY <1>9, <4>1, <6>1 DEF TruthInv, ListTruthful, SaveEnds
          <6> QED BY <2>2, <4>1, <5>2, <6>1, <6>2
        <5> QED BY <5>1, <5>2
      <4>4. listed' # <<>>
        BY <4>2, NoWindowsListed
      <4> QED BY <4>3, <4>4 DEF ListTruthful
    <3> QED BY <3>1, <3>2
  <2> QED BY <2>4, <2>5 DEF TruthInv
<1>10. CASE Load
  <2>1. ManifestTruthful'
    BY <1>10 DEF TruthInv, ManifestTruthful, Load, Working
  <2>2. mode' # "all"
    BY <1>10 DEF TypeInv, Placed, Load
  <2>3. ListTruthful'
    BY <1>10, <2>2 DEF ListTruthful, Load
  <2> QED BY <2>1, <2>3 DEF TruthInv
<1>20. CASE QueryRaises
  BY <1>20 DEF TruthInv, ManifestTruthful, ListTruthful, QueryRaises, ProcessEnds, Working
<1>11. CASE LoadFails
  BY <1>11 DEF TruthInv, ManifestTruthful, ListTruthful, LoadFails, ProcessEnds, Working
<1>12. CASE ListBegins
  <2>1. \A k \in Keys \ {key} : manifest'[k] = manifest[k]
    BY <1>12, NewManifest DEF TypeInv, Placed, ListBegins, Working
  <2>2. ManifestTruthful'
    BY <1>12, <2>1 DEF TruthInv, ManifestTruthful, ListBegins, Working
  <2>3. ListTruthful'
    BY <1>12 DEF TruthInv, ListTruthful, ListBegins
  <2> QED BY <2>2, <2>3 DEF TruthInv
<1>13. CASE ListEnds
  <2>1. /\ \A k \in Keys \ {key} : manifest'[k] = manifest[k]
        /\ key \in Keys /\ manifest'[key] = listed
    BY <1>13, NewManifest DEF TypeInv, Placed, Typed, ListEnds, Working
  <2>2. \A w \in DOMAIN listed : listed[w] = file[key][w]
    BY <1>13 DEF TruthInv, ListTruthful, ListEnds
  <2>3. ASSUME NEW k \in Keys, k \notin cut' PROVE Truthful(k)'
    <3>1. CASE k = key
      BY <1>13, <2>1, <2>2, <3>1 DEF Truthful, ListEnds
    <3>2. CASE k # key
      <4>1. Truthful(k)
        BY <1>13, <2>3, <3>2, TruthfulElsewhere DEF TruthInv, ListEnds
      <4> QED BY <1>13, <2>1, <3>2, <4>1 DEF Truthful, ListEnds
    <3> QED BY <3>1, <3>2
  <2>4. ManifestTruthful'
    BY <2>3, ManifestTruthfulIs
  <2>5. ListTruthful'
    BY <1>13 DEF ListTruthful, ListEnds, NextKey
  <2> QED BY <2>4, <2>5 DEF TruthInv
<1>14. CASE KeysDone
  BY <1>0, <1>14 DEF KeysDone, Working
<1>15. CASE RunDone
  BY <1>0, <1>15 DEF RunDone, ProcessEnds, Working
<1>16. CASE Kill
  <2>1. ManifestTruthful'
    BY <1>16 DEF TruthInv, ManifestTruthful, Kill, ProcessEnds, Working
  <2>2. ListTruthful'
    BY <1>16 DEF ListTruthful, Kill, ProcessEnds
  <2> QED BY <2>1, <2>2 DEF TruthInv
<1>17. CASE UNCHANGED vars
  BY <1>17 DEF vars, TruthInv, ManifestTruthful, ListTruthful, Truthful, Working
<1> QED
  BY <1>20, <1>1, <1>2, <1>3, <1>4, <1>5, <1>6, <1>7, <1>8, <1>9, <1>10, <1>11, <1>12, <1>13,
     <1>14, <1>15, <1>16, <1>17 DEF Next

\* Over any number of runs in either mode, killed at any moment: a manifest that can
\* be read says what the files of its key hold, unless a run died or aborted between
\* a file of the key and its manifest, or is at work on it.
THEOREM ManifestsAreTruthful == Spec => []ManifestTruthful
<1>1. Init => TypeInv /\ TruthInv
  BY InitTypeInv DEF Init, TruthInv, ManifestTruthful, ListTruthful, Readable
<1>2. TypeInv /\ TruthInv /\ [Next]_vars => (TypeInv /\ TruthInv)'
  BY StepTypeInv, StepTruthInv
<1>3. TruthInv => ManifestTruthful
  BY DEF TruthInv
<1> QED BY <1>1, <1>2, <1>3, PTL DEF Spec

-----------------------------------------------------------------------------
(* Checkpoints *)

\* What BaselinesHonest says of one checkpoint.
Honest(c, w) ==
  /\ c.whole => c.n >= w \div Step
  /\ c.n <= Complete(w + c.behind)
  /\ c.behind <= Tail => ~c.idle

LEMMA TrainedHonest ==
  ASSUME TypeInv, pc = "saving"
  PROVE  Honest(Trained, Window)
<1>1. /\ Window \in todo /\ Window \in Windows /\ Window \in Nat
      /\ todo \subseteq Windows /\ todo # {} /\ data \in Nat /\ start \in Nat /\ end \in Nat
      /\ data <= Complete(end - start)
  BY TrainedType, WindowsAssumption DEF TypeInv, TypeOK, Typed, Timed, Working
<1>2. end - start \in Nat /\ (end - start) \div Step \in Nat
  BY SpanType, CompleteType
<1>3. Window \div Step \in Nat
  BY <1>1, CompleteType
<1>4. CASE mode = "ready"
  <2>1. Prefix = data /\ start + Window <= end /\ Warmup <= start
    BY <1>1, <1>4, PrefixType, SpanType
  <2> DEFINE b == end - Warmup - Window
  <2>2. Trained.whole = (data = Complete(end - start)) /\ Trained.n = data
        /\ Trained.behind = b /\ Trained.idle = (end > LoadEnds)
    BY <1>4, <2>1 DEF Trained
  <2>3. Window + b \in Nat /\ end - start <= Window + b /\ Window <= end - start /\ b \in Int
    BY <1>1, <2>1, WindowsAssumption
  <2>4. Window \div Step <= (end - start) \div Step
    BY <1>1, <1>2, <2>3, DivMonotone
  <2>5. (end - start) \div Step <= (Window + b) \div Step /\ (Window + b) \div Step \in Nat
    BY <1>2, <2>3, DivMonotone, CompleteType
  <2>6. data = Complete(end - start) => data >= Window \div Step
    BY <1>2, <1>3, <2>4 DEF Complete
  <2>7. data <= Complete(Window + b)
    BY <1>1, <1>2, <2>5 DEF Complete
  <2>8. b <= Tail => ~(end > LoadEnds)
    BY <1>1, MaxWindowType, WindowsAssumption DEF LoadEnds
  <2> HIDE DEF b
  <2> QED BY <2>2, <2>6, <2>7, <2>8 DEF Honest
<1>5. CASE mode # "ready"
  <2>1. mode = "all"
    BY <1>5 DEF TypeInv, TypeOK, Modes
  <2>2. start = 0 /\ end = MaxWindow /\ MaxWindow \in Nat /\ Window <= MaxWindow
    BY <1>1, <2>1, SpanType, MaxWindowType
  <2>3. Prefix = (IF data <= Window \div Step THEN data ELSE Window \div Step) /\ Prefix \in Nat
    BY <1>1, <2>1, PrefixType
  <2>4. Trained.whole = (data = Complete(end - start)) /\ Trained.n = Prefix
        /\ Trained.behind = 0 /\ Trained.idle = FALSE
    BY <2>1 DEF Trained
  <2>5. Window \div Step <= (end - start) \div Step
    BY <1>1, <1>2, <2>2, DivMonotone
  <2>6. data = Complete(end - start) => Prefix >= Window \div Step
    BY <1>2, <1>3, <2>3, <2>5 DEF Complete
  <2>7. Prefix <= Complete(Window + 0)
    BY <1>1, <1>3, <2>3 DEF Complete
  <2> QED BY <2>4, <2>6, <2>7 DEF Honest
<1> QED BY <1>4, <1>5

\* The only steps that change a file.
LEMMA FileStep ==
  ASSUME TypeInv, [Next]_vars
  PROVE  \/ file' = file
         \/ /\ pc \in {"train", "saving"} /\ key \in Keys /\ Window \in Windows
            /\ \A k \in Keys, w \in Windows : k # key \/ w # Window => file'[k][w] = file[k][w]
            /\ \/ pc = "train" /\ file'[key][Window] = Torn
               \/ pc = "saving" /\ file'[key][Window] = Trained
<1> USE DEF disk, plan, time, loop
<1>1. CASE SaveBegins
  <2>1. key \in Keys /\ Window \in Windows
    BY <1>1, TrainedType DEF TypeInv, Placed, SaveBegins, Working
  <2> QED BY <1>1, <2>1 DEF TypeInv, TypeOK, SaveBegins
<1>2. CASE SaveEnds
  <2>1. key \in Keys /\ Window \in Windows
    BY <1>2, TrainedType DEF TypeInv, Placed, SaveEnds, Working
  <2> QED BY <1>2, <2>1 DEF TypeInv, TypeOK, SaveEnds
<1>3. CASE ~SaveBegins /\ ~SaveEnds
  BY <1>3 DEF Next, vars, Start, Tick, WarmupEnds, CaptureEnds, Skip, QueryRaises, Query, TooFew, Load,
     LoadFails, ListBegins, ListEnds, KeysDone, RunDone, Kill
<1> QED BY <1>1, <1>2, <1>3

LEMMA BaselinesHonestIs ==
  BaselinesHonest <=> \A k \in Keys, w \in Windows : Readable(file[k][w]) => Honest(file[k][w], w)
  BY DEF BaselinesHonest, Honest

LEMMA StepHonest == TypeInv /\ BaselinesHonest /\ [Next]_vars => BaselinesHonest'
<1> SUFFICES ASSUME TypeInv, BaselinesHonest, [Next]_vars,
                    NEW k \in Keys, NEW w \in Windows, Readable(file'[k][w])
             PROVE  Honest(file'[k][w], w)
  BY BaselinesHonestIs DEF BaselinesHonest, Honest
<1>1. CASE file'[k][w] = file[k][w]
  BY <1>1, BaselinesHonestIs
<1>2. CASE file'[k][w] # file[k][w]
  <2>1. k = key /\ w = Window
    BY <1>2, FileStep
  <2>2. pc = "saving" /\ file'[k][w] = Trained
    BY <1>2, <2>1, FileStep DEF Readable
  <2> QED BY <2>1, <2>2, TrainedHonest
<1> QED BY <1>1, <1>2

\* However late a window's time was noticed and however much of it Prometheus had: a
\* checkpoint never claims a baseline longer than the one it was trained on, nor one
\* under load that was not.
THEOREM BaselinesAreHonest == Spec => []BaselinesHonest
<1>1. Init => BaselinesHonest
  BY DEF Init, BaselinesHonest, Readable
<1>2. TypeInv /\ BaselinesHonest /\ [Next]_vars => (TypeInv /\ BaselinesHonest)'
  BY StepTypeInv, StepHonest
<1> QED BY <1>1, <1>2, InitTypeInv, PTL DEF Spec

-----------------------------------------------------------------------------
(* Torn files, and what a diagnosis makes of them *)

\* Only a file that is being written, or was when a run died, is torn.
TornKnown ==
  \A k \in Keys, w \in Windows :
    file[k][w] = Torn => <<k, w>> \in broken \/ (pc = "saving" /\ key = k /\ w = Window)

LEMMA TrainedIsReadable == ASSUME TypeInv, pc = "saving" PROVE Readable(Trained)
  BY TrainedType, NamesAssumption DEF Readable

LEMMA StepTornKnown == TypeInv /\ TornKnown /\ [Next]_vars => TornKnown'
<1> SUFFICES ASSUME TypeInv, TornKnown, [Next]_vars,
                    NEW k \in Keys, NEW w \in Windows, file'[k][w] = Torn
             PROVE  <<k, w>> \in broken' \/ (pc' = "saving" /\ key' = k /\ w = Window')
  BY DEF TornKnown
<1> USE DEF disk, plan, time, loop
<1>1. CASE SaveBegins
  <2>1. CASE k = key /\ w = Window
    BY <1>1, <2>1 DEF SaveBegins, Window
  <2>2. CASE ~(k = key /\ w = Window)
    <3>1. file[k][w] = Torn
      BY <1>1, <2>2, FileStep DEF SaveBegins
    <3> QED BY <1>1, <3>1 DEF TornKnown, SaveBegins
  <2> QED BY <2>1, <2>2
<1>2. CASE SaveEnds
  <2>1. k # key \/ w # Window
    BY <1>2, TrainedType, TrainedIsReadable DEF TypeInv, TypeOK, SaveEnds, Readable
  <2>2. file[k][w] = Torn
    BY <1>2, <2>1, FileStep DEF SaveEnds
  <2>3. <<k, w>> \in broken
    BY <2>1, <2>2 DEF TornKnown
  <2> QED BY <1>2, <2>1, <2>3 DEF SaveEnds
<1>3. CASE Kill
  BY <1>3 DEF TornKnown, Kill, ProcessEnds
<1>4. CASE pc # "saving" /\ file' = file /\ broken' = broken
  BY <1>4 DEF TornKnown
<1>5. CASE UNCHANGED <<file, broken, pc, key, todo>>
  BY <1>5 DEF TornKnown, Window
<1> QED
  BY <1>1, <1>2, <1>3, <1>4, <1>5
  DEF Next, vars, Start, Tick, WarmupEnds, CaptureEnds, Skip, QueryRaises, Query, TooFew, Load, LoadFails,
      ListBegins, ListEnds, KeysDone, RunDone, ProcessEnds

LEMMA TornInvariant == Spec => [](TypeInv /\ TornKnown)
<1>1. Init => TornKnown
  BY NamesAssumption DEF Init, TornKnown
<1>2. TypeInv /\ TornKnown /\ [Next]_vars => (TypeInv /\ TornKnown)'
  BY StepTypeInv, StepTornKnown
<1> QED BY <1>1, <1>2, InitTypeInv, PTL DEF Spec

\* What the automatic choice returns.
LEMMA AutomaticFits ==
  ASSUME NEW k \in Keys, NEW a \in Nat
  PROVE  LET w == Automatic(k, a) IN
         \/ w = NoWindow /\ \A v \in Windows : file[k][v] # Absent => v > a
         \/ w \in Windows /\ w <= a /\ file[k][w] # Absent
<1> DEFINE fits == {w \in Windows : a >= w /\ file[k][w] # Absent}
<1>1. fits \in SUBSET Nat /\ IsFiniteSet(fits)
  BY WindowsAssumption, FS_Subset, fits \in SUBSET Windows
<1>2. CASE fits = {}
  <2>1. \A v \in Windows : file[k][v] # Absent => v > a
    <3> SUFFICES ASSUME NEW v \in Windows, file[k][v] # Absent, ~(v > a) PROVE FALSE
      OBVIOUS
    <3>1. a >= v
      BY WindowsAssumption
    <3> QED BY <1>2, <3>1
  <2> QED BY <1>2, <2>1 DEF Automatic
<1>3. CASE fits # {}
  <2>1. Max(fits) \in fits
    BY <1>1, <1>3, MaxIsGreatest
  <2>2. Automatic(k, a) = Max(fits)
    BY <1>3 DEF Automatic
  <2>3. Max(fits) \in Windows /\ a >= Max(fits) /\ file[k][Max(fits)] # Absent
    BY <2>1
  <2>4. Max(fits) \in Nat
    BY <1>1, <2>1
  <2> QED BY <2>2, <2>3, <2>4
<1> QED BY <1>2, <1>3

LEMMA Selected == TypeInv /\ TornKnown /\ BaselinesHonest => SelectionSound
<1> SUFFICES ASSUME TypeInv, TornKnown, BaselinesHonest, NEW k \in Keys
             PROVE  /\ \A w \in Windows :
                         ModelSource(k, w) = "error" /\ file[k][w] # Absent =>
                           <<k, w>> \in broken \/ (pc = "saving" /\ key = k /\ Window = w)
                    /\ \A a \in 0 .. MaxWindow :
                         LET w      == Select(k, a, NoWindow, NoWindow)
                             source == ModelSource(k, w)
                         IN /\ source = "error" => file[k][w] = Torn
                            /\ source = "baseline" =>
                                 \A v \in Windows : file[k][v] # Absent => v > a
                            /\ source = "checkpoint" =>
                                 file[k][w].n <= Complete(a + file[k][w].behind)
  BY DEF SelectionSound
<1>1. NoWindow \notin Windows
  BY NamesAssumption
<1>2. ASSUME NEW w \in Windows, ModelSource(k, w) = "error", file[k][w] # Absent
      PROVE  <<k, w>> \in broken \/ (pc = "saving" /\ key = k /\ Window = w)
  BY <1>1, <1>2 DEF ModelSource, Readable, TornKnown
<1>3. ASSUME NEW a \in 0 .. MaxWindow
      PROVE  LET w      == Select(k, a, NoWindow, NoWindow)
                 source == ModelSource(k, w)
             IN /\ source = "error" => file[k][w] = Torn
                /\ source = "baseline" =>
                     \A v \in Windows : file[k][v] # Absent => v > a
                /\ source = "checkpoint" =>
                     file[k][w].n <= Complete(a + file[k][w].behind)
  <2> DEFINE w      == Automatic(k, a)
             source == ModelSource(k, w)
  <2>1. a \in Nat
    BY MaxWindowType
  <2>2. Select(k, a, NoWindow, NoWindow) = w
    BY DEF Select
  <2>3. source = IF w = NoWindow THEN "baseline"
                 ELSE IF Readable(file[k][w]) THEN "checkpoint" ELSE "error"
    BY DEF ModelSource
  <2>4. \/ w \in Windows /\ w <= a /\ file[k][w] # Absent
        \/ w = NoWindow /\ \A v \in Windows : file[k][v] # Absent => v > a
    BY <2>1, AutomaticFits
  <2> HIDE DEF w, source
  <2>5. ASSUME source = "error" PROVE file[k][w] = Torn
    BY <2>3, <2>4, <2>5, <1>1 DEF Readable
  <2>6. ASSUME source = "baseline" PROVE \A v \in Windows : file[k][v] # Absent => v > a
    BY <2>3, <2>4, <2>6, <1>1
  <2>7. ASSUME source = "checkpoint"
        PROVE  file[k][w].n <= Complete(a + file[k][w].behind)
    <3>1. w # NoWindow /\ Readable(file[k][w])
      BY <2>3, <2>7
    <3>2. w \in Windows /\ w \in Nat /\ w <= a
      BY <2>4, <3>1, WindowsAssumption
    <3>3. file[k][w] \in Records
      BY <3>1, <3>2 DEF TypeInv, TypeOK, Readable
    <3> DEFINE b == file[k][w].behind
               n == file[k][w].n
    <3>4. b \in Int /\ n \in Nat
      BY <3>3 DEF Records
    <3>5. n <= Complete(w + b)
      BY <3>1, <3>2 DEF BaselinesHonest
    <3> HIDE DEF b, n
    <3>6. (w + b) \div Step <= (a + b) \div Step
      BY <2>1, <3>2, <3>4, DivMonotone
    <3>7. (w + b) \div Step \in Int /\ (a + b) \div Step \in Int
      BY <2>1, <3>2, <3>4, WindowsAssumption
    <3>8. n <= Complete(a + b)
      BY <3>4, <3>5, <3>6, <3>7 DEF Complete
    <3> QED BY <3>8 DEF b, n
  <2> QED BY <2>2, <2>5, <2>6, <2>7 DEF source
<1> QED BY <1>2, <1>3

\* At any moment of a run and after any deaths of earlier ones, a checkpoint that cannot
\* be loaded is one that a run writes or wrote when it died; a diagnosis told nothing
\* fails over no other, fits its own model only where no checkpoint fits, and chooses
\* none with more history than it has.
THEOREM SelectionIsSound == Spec => []SelectionSound
  BY TornInvariant, BaselinesAreHonest, Selected, PTL

-----------------------------------------------------------------------------
(* Runs *)

AtQuery == pc \in {"query", "train", "saving", "load", "list", "listing"}

\* A window of a key is done: skipped, or trained by this run and listed.
FileDone(k, w) == Readable(file[k][w]) /\ file[k][w].run = run
Done(k, w) ==
  \/ <<k, w>> \in skipped
  \/ FileDone(k, w) /\ Readable(manifest[k]) /\ w \in DOMAIN manifest[k]
\* The same of the key at work, whose manifest is still to be written.
DoneAtWork(w) == <<key, w>> \in skipped \/ (FileDone(key, w) /\ w \in DOMAIN listed)

\* The windows that this run has left behind, of every key.
WindowsDone ==
  mode = "ready" /\ pc # "idle" =>
    \A k \in Keys, w \in Windows \ todo :
      Done(k, w) \/ (pc = "listing" /\ key = k /\ DoneAtWork(w))

\* The keys that it has left behind: of the window at hand, or of all windows.
KeysLeft ==
  AtQuery =>
    \A k \in Keys \ keys : ~(Working /\ key = k) =>
      \A w \in Windows : (mode = "ready" => w = Window) => Done(k, w)

\* The key at work.
KeyAtWork ==
  /\ mode = "ready" /\ pc \in {"load", "list", "listing"} => FileDone(key, Window)
  /\ mode = "ready" /\ pc \in {"list", "listing"} => DOMAIN listed = Existing(key)
  /\ mode = "all" /\ Working => \A w \in Windows \ todo : DoneAtWork(w)
  /\ mode = "all" /\ pc \in {"list", "listing"} => todo = {}

Progress == WindowsDone /\ KeysLeft /\ KeyAtWork

LEMMA ManifestIsReadable == \A m : IsManifest(m) => Readable(m)
  BY NamesAssumption DEF Readable

LEMMA FileDoneExists == \A k \in Keys, w \in Windows : FileDone(k, w) => w \in Existing(k)
  BY DEF FileDone, Existing, Readable

\* What is done stays done while the files of its key are left alone.
LEMMA StaysDone ==
  ASSUME NEW k, NEW w, skipped \subseteq skipped', run' = run,
         file'[k][w] = file[k][w]
  PROVE  /\ FileDone(k, w) => FileDone(k, w)'
         /\ Done(k, w) /\ manifest'[k] = manifest[k] => Done(k, w)'
  BY DEF FileDone, Done

\* A step of a run that leaves the files, the windows left and the key alone.
LEMMA QuietStep ==
  ASSUME Progress, skipped \subseteq skipped', run' = run, file' = file, manifest' = manifest,
         mode' = mode, todo' = todo, ~Working, ~Working',
         pc # "idle", AtQuery' => AtQuery,
         \A k \in keys \ keys', w \in Windows : (mode = "ready" => w = Window) => Done(k, w)'
  PROVE  Progress'
<1>1. \A k, w : Done(k, w) => Done(k, w)'
  BY StaysDone
<1>2. WindowsDone'
  BY <1>1 DEF Progress, WindowsDone, Working
<1>3. KeysLeft'
  BY <1>1 DEF Progress, KeysLeft, Window
<1>4. KeyAtWork'
  BY DEF KeyAtWork, Working
<1> QED BY <1>2, <1>3, <1>4 DEF Progress

LEMMA QueryProgress ==
  ASSUME TypeInv, Progress, NEW k \in Keys, Query(k)
  PROVE  Progress'
<1> USE DEF disk, plan, time
<1>1. /\ ~Working /\ AtQuery /\ AtQuery' /\ pc = "query" /\ pc' = "train" /\ key' = k
      /\ keys' = keys \ {k} /\ mode' = mode /\ mode \in {"ready", "all"}
      /\ mode = "ready" => todo' = todo /\ Window' = Window
      /\ mode = "all" => todo' = Windows
  BY DEF Query, Working, AtQuery, Window, TypeInv, TypeOK, Modes
<1>2. \A l, w : Done(l, w) => Done(l, w)'
  BY StaysDone DEF Query
<1>3. WindowsDone'
  BY <1>1, <1>2 DEF Progress, WindowsDone
<1>4. KeysLeft'
  BY <1>1, <1>2 DEF Progress, KeysLeft, Working
<1>5. KeyAtWork'
  BY <1>1 DEF KeyAtWork
<1> QED BY <1>3, <1>4, <1>5 DEF Progress

LEMMA TooFewProgress ==
  ASSUME TypeInv, Progress, TooFew
  PROVE  Progress'
<1> USE DEF disk, plan, time
<1>1. /\ Window \in todo /\ Window \in Windows /\ key \in Keys /\ data \in Nat /\ data >= 2
      /\ todo \subseteq Windows /\ todo # {}
  BY TrainedType DEF TypeInv, TypeOK, Placed, Typed, TooFew, Working
<1>2. mode = "all" /\ mode' = "all"
  BY <1>1, PrefixType DEF TypeInv, TypeOK, Modes, TooFew
<1>3. /\ todo' = todo \ {Window} /\ skipped' = skipped \cup {<<key, Window>>}
      /\ file' = file /\ manifest' = manifest /\ run' = run /\ keys' = keys
      /\ pc = "train" /\ Working /\ AtQuery
  BY DEF TooFew, Working, AtQuery
<1>4. \A l, w : Done(l, w) => Done(l, w)'
  BY <1>3, StaysDone
<1>5. \A w \in Windows \ todo' : <<key, w>> \in skipped' \/ (FileDone(key, w) /\ w \in DOMAIN listed)
  BY <1>1, <1>2, <1>3 DEF Progress, KeyAtWork, DoneAtWork
<1>6. WindowsDone'
  BY <1>2 DEF WindowsDone
<1>7. CASE todo' = {} /\ listed = <<>>
  <2>1. ~Working' /\ pc' = "query"
    BY <1>7 DEF TooFew, NextKey, Working
  <2>2. \A k \in {key}, w \in Windows : Done(k, w)'
    BY <1>3, <1>5, <1>7, NoWindowsListed DEF Done
  <2>3. KeysLeft'
    BY <1>2, <1>3, <1>4, <2>1, <2>2 DEF Progress, KeysLeft
  <2>4. KeyAtWork'
    BY <1>2, <2>1 DEF KeyAtWork
  <2> QED BY <1>6, <2>3, <2>4 DEF Progress
<1>8. CASE ~(todo' = {} /\ listed = <<>>)
  <2>1. /\ pc' = (IF todo' = {} THEN "list" ELSE "train") /\ key' = key /\ listed' = listed
        /\ Working'
    BY <1>8 DEF TooFew, Working
  <2>2. KeysLeft'
    BY <1>2, <1>3, <1>4, <2>1 DEF Progress, KeysLeft
  <2>3. \A w \in Windows \ todo' : DoneAtWork(w)'
    BY <1>3, <1>5, <2>1 DEF DoneAtWork, FileDone
  <2>4. KeyAtWork'
    BY <1>2, <2>1, <2>3 DEF KeyAtWork
  <2> QED BY <1>6, <2>2, <2>4 DEF Progress
<1> QED BY <1>7, <1>8

LEMMA SaveBeginsProgress ==
  ASSUME TypeInv, Progress, SaveBegins
  PROVE  Progress'
<1> USE DEF disk, plan, time, loop
<1>1. /\ Window \in todo /\ Window \in Windows /\ key \in Keys
      /\ todo' = todo /\ Window' = Window /\ mode' = mode /\ keys' = keys /\ key' = key
      /\ listed' = listed /\ pc' = "saving" /\ pc = "train" /\ Working /\ Working' /\ AtQuery
      /\ skipped' = skipped /\ run' = run /\ manifest' = manifest
  BY TrainedType DEF TypeInv, Placed, SaveBegins, Working, AtQuery, Window
<1>2. \A k \in Keys, w \in Windows : k # key \/ w # Window => file'[k][w] = file[k][w]
  BY <1>1 DEF TypeInv, TypeOK, SaveBegins
<1>3. \A k \in Keys, w \in Windows : k # key \/ w # Window =>
        (FileDone(k, w) => FileDone(k, w)') /\ (Done(k, w) => Done(k, w)')
  BY <1>1, <1>2, StaysDone
<1>4. WindowsDone'
  BY <1>1, <1>3 DEF Progress, WindowsDone
<1>5. KeysLeft'
  BY <1>1, <1>3 DEF Progress, KeysLeft
<1>6. \A w \in Windows \ todo : DoneAtWork(w) => DoneAtWork(w)'
  BY <1>1, <1>3 DEF DoneAtWork, FileDone
<1>7. KeyAtWork'
  BY <1>1, <1>6 DEF Progress, KeyAtWork
<1> QED BY <1>4, <1>5, <1>7 DEF Progress

LEMMA SaveEndsProgress ==
  ASSUME TypeInv, Progress, SaveEnds
  PROVE  Progress'
<1> USE DEF disk, plan, time
<1>1. /\ Window \in todo /\ Window \in Windows /\ key \in Keys
      /\ mode' = mode /\ keys' = keys /\ key' = key
      /\ pc = "saving" /\ Working /\ Working' /\ AtQuery
      /\ skipped' = skipped /\ run' = run /\ manifest' = manifest
      /\ pc' # "listing" /\ pc' # "idle"
  BY TrainedType DEF TypeInv, Placed, SaveEnds, Working, AtQuery
<1>2. /\ \A k \in Keys, w \in Windows : k # key \/ w # Window => file'[k][w] = file[k][w]
      /\ file'[key][Window] = Trained
  BY <1>1 DEF TypeInv, TypeOK, SaveEnds
<1>3. \A k \in Keys, w \in Windows : k # key \/ w # Window =>
        (FileDone(k, w) => FileDone(k, w)') /\ (Done(k, w) => Done(k, w)')
  BY <1>1, <1>2, StaysDone
<1>4. Trained.run = run /\ Readable(Trained)
  BY <1>1, TrainedIsReadable DEF Trained
<1>5. Readable(file'[key][Window]) /\ file'[key][Window].run = run
  BY <1>2, <1>4
<1>6. CASE mode = "ready"
  <2>1. todo' = todo /\ listed' = listed /\ pc' = "load" /\ Window' = Window
    BY <1>6 DEF SaveEnds, Window
  <2>2. WindowsDone'
    BY <1>1, <1>3, <2>1 DEF Progress, WindowsDone
  <2>3. KeysLeft'
    BY <1>1, <1>3, <2>1 DEF Progress, KeysLeft
  <2>4. FileDone(key, Window)'
    BY <1>1, <1>5, <2>1 DEF FileDone
  <2>5. KeyAtWork'
    BY <1>1, <1>6, <2>1, <2>4 DEF KeyAtWork
  <2> QED BY <2>2, <2>3, <2>5 DEF Progress
<1>7. CASE mode # "ready"
  <2>1. /\ mode = "all" /\ mode' = "all" /\ todo' = todo \ {Window}
        /\ listed' = [w \in DOMAIN listed \cup {Window} |-> IF w = Window THEN Trained ELSE listed[w]]
        /\ pc' = IF todo' # {} THEN "train" ELSE "list"
    BY <1>1, <1>7 DEF TypeInv, TypeOK, Modes, SaveEnds
  <2>2. DOMAIN listed' = DOMAIN listed \cup {Window}
    BY <2>1
  <2>3. WindowsDone'
    BY <2>1 DEF WindowsDone
  <2>4. KeysLeft'
    BY <1>1, <1>3, <2>1 DEF Progress, KeysLeft
  <2>5. ASSUME NEW w \in Windows \ todo' PROVE DoneAtWork(w)'
    <3>1. CASE w = Window
      BY <1>1, <1>5, <2>2, <3>1 DEF DoneAtWork, FileDone
    <3>2. CASE w # Window
      <4>1. DoneAtWork(w)
        BY <1>1, <2>1, <3>2 DEF Progress, KeyAtWork
      <4> QED BY <1>1, <1>3, <2>2, <3>2, <4>1 DEF DoneAtWork, FileDone
    <3> QED BY <3>1, <3>2
  <2>6. KeyAtWork'
    BY <2>1, <2>5 DEF KeyAtWork
  <2> QED BY <2>3, <2>4, <2>6 DEF Progress
<1> QED BY <1>6, <1>7

LEMMA LoadProgress ==
  ASSUME TypeInv, Progress, Load
  PROVE  Progress'
<1> USE DEF disk, plan, time
<1>1. /\ mode = "ready" /\ mode' = "ready" /\ keys' = keys /\ key' = key /\ todo' = todo
      /\ Window' = Window /\ pc = "load" /\ pc' = "list" /\ Working /\ Working' /\ AtQuery
      /\ skipped' = skipped /\ run' = run /\ manifest' = manifest /\ file' = file
  BY DEF TypeInv, TypeOK, Modes, Placed, Load, Working, AtQuery, Window
<1>2. DOMAIN listed' = Existing(key) /\ Existing(key)' = Existing(key)
  BY <1>1 DEF Load, Existing
<1>3. \A k, w : (Done(k, w) => Done(k, w)') /\ (FileDone(k, w) => FileDone(k, w)')
  BY <1>1, StaysDone
<1>4. WindowsDone'
  BY <1>1, <1>3 DEF Progress, WindowsDone
<1>5. KeysLeft'
  BY <1>1, <1>3 DEF Progress, KeysLeft
<1>6. FileDone(key, Window)'
  BY <1>1 DEF Progress, KeyAtWork, FileDone
<1>7. KeyAtWork'
  BY <1>1, <1>2, <1>6 DEF KeyAtWork, Existing
<1> QED BY <1>4, <1>5, <1>7 DEF Progress

LEMMA ListBeginsProgress ==
  ASSUME TypeInv, Progress, ListBegins
  PROVE  Progress'
<1> USE DEF disk, plan, time, loop
<1>1. /\ key \in Keys /\ mode' = mode /\ keys' = keys /\ key' = key /\ todo' = todo
      /\ Window' = Window /\ pc = "list" /\ pc' = "listing" /\ Working /\ Working' /\ AtQuery
      /\ skipped' = skipped /\ run' = run /\ file' = file /\ listed' = listed
      /\ pc' # "idle"
  BY DEF TypeInv, TypeOK, Placed, ListBegins, Working, AtQuery, Window
<1>2. \A k \in Keys \ {key} : manifest'[k] = manifest[k]
  BY <1>1, NewManifest DEF ListBegins
<1>3. \A k \in Keys \ {key}, w \in Windows : Done(k, w) => Done(k, w)'
  BY <1>1, <1>2, StaysDone
<1>4. \A w : DoneAtWork(w) => DoneAtWork(w)'
  BY <1>1 DEF DoneAtWork, FileDone
<1>5. mode = "ready" => \A w \in Windows : Done(key, w) => DoneAtWork(w)
  BY <1>1, FileDoneExists DEF Progress, KeyAtWork, Done, DoneAtWork
<1>6. WindowsDone'
  BY <1>1, <1>3, <1>4, <1>5 DEF Progress, WindowsDone
<1>7. KeysLeft'
  BY <1>1, <1>3 DEF Progress, KeysLeft
<1>8. KeyAtWork'
  BY <1>1, <1>4 DEF Progress, KeyAtWork, FileDone, Existing
<1> QED BY <1>6, <1>7, <1>8 DEF Progress

LEMMA ListEndsProgress ==
  ASSUME TypeInv, Progress, ListEnds
  PROVE  Progress'
<1> USE DEF disk, plan, time
<1>1. /\ key \in Keys /\ mode' = mode /\ keys' = keys /\ todo' = todo
      /\ Window' = Window /\ pc = "listing" /\ pc' = "query" /\ Working /\ ~Working' /\ AtQuery
      /\ skipped' = skipped /\ run' = run /\ file' = file /\ IsManifest(listed)
  BY DEF TypeInv, TypeOK, Placed, Typed, ListEnds, NextKey, Working, AtQuery, Window
<1>2. /\ \A k \in Keys \ {key} : manifest'[k] = manifest[k]
      /\ manifest'[key] = listed
  BY <1>1, NewManifest DEF ListEnds
<1>3. \A k \in Keys \ {key}, w \in Windows : Done(k, w) => Done(k, w)'
  BY <1>1, <1>2, StaysDone
<1>4. \A k \in {key}, w \in Windows : DoneAtWork(w) => Done(k, w)'
  BY <1>1, <1>2, ManifestIsReadable DEF DoneAtWork, Done, FileDone
<1>5. mode = "ready" => \A w \in Windows : Done(key, w) => DoneAtWork(w)
  BY <1>1, FileDoneExists DEF Progress, KeyAtWork, Done, DoneAtWork
<1>6. WindowsDone'
  BY <1>1, <1>3, <1>4, <1>5 DEF Progress, WindowsDone
<1>7. ASSUME NEW w \in Windows, mode = "ready" => w = Window PROVE DoneAtWork(w)
  <2>1. CASE mode = "ready"
    BY <1>1, <1>7, <2>1, FileDoneExists DEF Progress, KeyAtWork, DoneAtWork
  <2>2. CASE mode = "all"
    BY <1>1, <2>2 DEF Progress, KeyAtWork
  <2> QED BY <2>1, <2>2 DEF TypeInv, TypeOK, Modes
<1>8. KeysLeft'
  BY <1>1, <1>3, <1>4, <1>7 DEF Progress, KeysLeft
<1>9. KeyAtWork'
  BY <1>1 DEF KeyAtWork
<1> QED BY <1>6, <1>8, <1>9 DEF Progress

LEMMA StepProgress == TypeInv /\ Progress /\ [Next]_vars => Progress'
<1> SUFFICES ASSUME TypeInv, Progress, [Next]_vars PROVE Progress'
  OBVIOUS
<1> USE DEF disk, plan, time, loop
<1>1. ASSUME NEW m \in Modes, Start(m) PROVE Progress'
  BY <1>1 DEF Start, Progress, WindowsDone, KeysLeft, KeyAtWork, Working, AtQuery
<1>2. CASE Tick
  <2>1. /\ UNCHANGED <<file, manifest, pc, mode, run, todo, keys, key, listed, skipped>>
    BY <1>2 DEF Tick
  <2> QED BY <2>1 DEF Progress, WindowsDone, KeysLeft, KeyAtWork, Done, FileDone, DoneAtWork,
             Working, AtQuery, Window, Existing
<1>3. CASE WarmupEnds
  BY <1>3, QuietStep DEF WarmupEnds, Working, AtQuery
<1>4. CASE CaptureEnds
  <2>1. mode = "ready" /\ keys' = Keys
    BY <1>4 DEF CaptureEnds, TypeInv, TypeOK, Placed, Modes
  <2>2. \A k, w : Done(k, w) => Done(k, w)'
    BY <1>4, StaysDone DEF CaptureEnds
  <2>3. WindowsDone'
    BY <1>4, <2>2 DEF CaptureEnds, Progress, WindowsDone
  <2>4. KeysLeft' /\ KeyAtWork'
    BY <1>4 DEF CaptureEnds, KeysLeft, KeyAtWork, Working
  <2> QED BY <2>3, <2>4 DEF Progress
<1>5. ASSUME NEW k \in Keys, Skip(k) PROVE Progress'
  <2>1. /\ skipped' = skipped \cup ({k} \X (IF mode = "ready" THEN {Window} ELSE Windows))
        /\ keys' = keys \ {k} /\ pc = "query" /\ pc' = "query"
        /\ UNCHANGED <<file, manifest, mode, run, todo>>
    BY <1>5 DEF Skip
  <2>2. \A w \in Windows : (mode = "ready" => w = Window) => <<k, w>> \in skipped'
    BY <2>1
  <2>3. \A l \in keys \ keys', w \in Windows : (mode = "ready" => w = Window) => Done(l, w)'
    BY <2>1, <2>2 DEF Done
  <2>4. ~Working /\ ~Working' /\ pc # "idle" /\ AtQuery
    BY <2>1 DEF Working, AtQuery
  <2> QED BY <2>1, <2>3, <2>4, QuietStep
<1>6. ASSUME NEW k \in Keys, Query(k) PROVE Progress'
  BY <1>6, QueryProgress
<1>7. CASE TooFew
  BY <1>7, TooFewProgress
<1>8. CASE SaveBegins
  BY <1>8, SaveBeginsProgress
<1>9. CASE SaveEnds
  BY <1>9, SaveEndsProgress
<1>10. CASE Load
  BY <1>10, LoadProgress
<1>11. CASE ListBegins
  BY <1>11, ListBeginsProgress
<1>12. CASE ListEnds
  BY <1>12, ListEndsProgress
<1>13. CASE KeysDone
  <2>1. \A k, w : Done(k, w) => Done(k, w)'
    BY <1>13, StaysDone DEF KeysDone
  <2>2. \A k \in Keys : Done(k, Window) \/ Window \notin Windows
    BY <1>13 DEF KeysDone, Progress, KeysLeft, Working, AtQuery
  <2>3. WindowsDone'
    BY <1>13, <2>1, <2>2 DEF KeysDone, Progress, WindowsDone
  <2>4. KeysLeft' /\ KeyAtWork'
    BY <1>13 DEF KeysDone, KeysLeft, KeyAtWork, Working, AtQuery
  <2> QED BY <2>3, <2>4 DEF Progress
<1>14. CASE pc' = "idle"
  BY <1>14 DEF Progress, WindowsDone, KeysLeft, KeyAtWork, Working, AtQuery
<1>15. CASE UNCHANGED vars
  BY <1>15 DEF vars, Progress, WindowsDone, KeysLeft, KeyAtWork, Done, FileDone, DoneAtWork,
     Working, AtQuery, Window, Existing
<1>16. CASE LoadFails \/ QueryRaises \/ RunDone \/ Kill
  BY <1>14, <1>16 DEF LoadFails, QueryRaises, RunDone, Kill, ProcessEnds
<1> QED
  BY <1>1, <1>2, <1>3, <1>4, <1>5, <1>6, <1>7, <1>8, <1>9, <1>10, <1>11, <1>12, <1>13,
     <1>15, <1>16 DEF Next

\* What Progress says of the keys and windows that a run is past.
LEMMA PastIsDone ==
  ASSUME TypeInv, Progress, pc = "query", NEW k \in Keys, NEW w \in Windows,
         IF mode = "all" THEN k \notin keys
         ELSE w \notin todo \/ (w = Window /\ k \notin keys)
  PROVE  Done(k, w)
<1>1. AtQuery /\ ~Working /\ pc # "idle" /\ pc # "listing"
  BY DEF AtQuery, Working
<1>2. mode \in {"ready", "all"}
  BY DEF TypeInv, TypeOK, Modes
<1>3. CASE k \notin keys /\ (mode = "ready" => w = Window)
  BY <1>1, <1>3 DEF Progress, KeysLeft
<1>4. CASE mode = "ready" /\ w \notin todo
  BY <1>1, <1>4 DEF Progress, WindowsDone
<1> QED BY <1>2, <1>3, <1>4

\* How a run ends.
EndInv ==
  /\ ended = "done" => \A k \in Keys, w \in Windows : Done(k, w)
  /\ ended = "aborted" => mode = "ready" /\ broken # {}

LEMMA StepEndInv ==
  TypeInv /\ TornKnown /\ Progress /\ EndInv /\ [Next]_vars => EndInv'
<1> SUFFICES ASSUME TypeInv, TornKnown, Progress, EndInv, [Next]_vars
             PROVE  EndInv'
  OBVIOUS
<1> USE DEF disk, plan, time, loop
<1>1. CASE RunDone
  <2>1. ended' = "done" /\ UNCHANGED <<file, manifest, mode, run, skipped>> /\ AtQuery /\ ~Working
    BY <1>1 DEF RunDone, ProcessEnds, AtQuery, Working
  <2>2. ASSUME NEW k \in Keys, NEW w \in Windows PROVE Done(k, w)
    <3>1. (mode = "ready" => w = Window) => Done(k, w)
      BY <1>1, <2>1 DEF Progress, KeysLeft, RunDone
    <3>2. CASE mode = "ready"
      <4>1. Cardinality(todo) = 1 /\ todo \subseteq Windows /\ todo # {}
        BY <1>1, <3>2 DEF RunDone, TypeInv, TypeOK, Placed
      <4>2. IsFiniteSet(todo)
        BY <4>1, WindowsAssumption, FS_Subset
      <4>3. \E x : todo = {x}
        BY <4>1, <4>2, FS_Singleton
      <4>4. Window \in todo
        BY <4>1, WindowType
      <4>5. todo = {Window}
        BY <4>3, <4>4
      <4>6. w \notin todo => Done(k, w)
        BY <1>1, <3>2 DEF Progress, WindowsDone, RunDone
      <4> QED BY <3>1, <4>5, <4>6
    <3>3. CASE mode # "ready"
      BY <3>1, <3>3
    <3> QED BY <3>2, <3>3
  <2> QED BY <2>1, <2>2 DEF EndInv, Done, FileDone
<1>2. CASE LoadFails
  <2>1. PICK w \in Existing(key) : file[key][w] = Torn
    BY <1>2 DEF LoadFails
  <2>2. broken # {} /\ broken' = broken /\ mode' = "ready" /\ ended' = "aborted"
    BY <1>2, <2>1
    DEF TornKnown, LoadFails, ProcessEnds, Existing, TypeInv, TypeOK, Placed, Modes, Working
  <2> QED BY <2>2 DEF EndInv
<1>3. CASE Kill \/ QueryRaises
  BY <1>3 DEF EndInv, Kill, QueryRaises, ProcessEnds
<1>4. CASE ended' = "never"
  BY <1>4 DEF EndInv
<1>5. CASE UNCHANGED vars
  BY <1>5 DEF vars, EndInv, Done, FileDone
<1>6. CASE pc # "idle" /\ ended' = ended
  BY <1>4, <1>6 DEF TypeInv, Placed
<1> QED
  BY <1>1, <1>2, <1>3, <1>4, <1>5, <1>6
  DEF Next, Start, Tick, WarmupEnds, CaptureEnds, Skip, Query, TooFew, SaveBegins,
      SaveEnds, Load, ListBegins, ListEnds, KeysDone

\* Whenever a run is between two keys, and when it has come to its end, it has trained
\* and listed every window it is past but those it skipped; and no file stops one but
\* one that an earlier run died writing.
THEOREM RunsAreAccounted == Spec => []RunsAccounted
<1>1. Init => TornKnown /\ Progress /\ EndInv
  BY NamesAssumption
  DEF Init, TornKnown, Progress, WindowsDone, KeysLeft, KeyAtWork, EndInv, Working, AtQuery
<1>2. TypeInv /\ TornKnown /\ Progress /\ EndInv /\ [Next]_vars
        => (TypeInv /\ TornKnown /\ Progress /\ EndInv)'
  BY StepTypeInv, StepTornKnown, StepProgress, StepEndInv
<1>3. TypeInv /\ Progress /\ EndInv => RunsAccounted
  <2> SUFFICES ASSUME TypeInv, Progress, EndInv PROVE RunsAccounted
    OBVIOUS
  <2>1. ASSUME NEW k \in Keys, NEW w \in Windows, Past(k, w) PROVE Done(k, w)
    BY <2>1, PastIsDone DEF Past, EndInv
  <2> QED BY <2>1 DEF RunsAccounted, EndInv, Done, FileDone
<1> QED BY <1>1, <1>2, <1>3, InitTypeInv, PTL DEF Spec
=============================================================================
