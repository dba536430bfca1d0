-------------------------- MODULE LinkStreamProofs --------------------------
(***************************************************************************)
(* Proof that the artifacts each link streams while it is trained form a   *)
(* test step: LinkTrain.tla implements OcpSteps.tla, the log of a step     *)
(* being what its link has streamed.                                       *)
(***************************************************************************)
EXTENDS LinkTrainProofs

\* What the stream of a link says.
Begun(l, s) == Stream!ArtsOf(l, "seriesStart", s) # {}
Closed(l, s) == Stream!ArtsOf(l, "seriesEnd", s) # {}
Diagnosed(l) == Stream!Arts(l, "diagnosis") # {}
StepOver(l) == Stream!Arts(l, "stepEnd") # {}

Expected(i) == setup.fields[i].expected # {}

InLoop(l, place) == tpc[l] = place
Trained == {"train", "down", "check", "verdict", "restore", "close"}

\* The series of the checkers that are to have one are started one by one; their elements are
\* counted; they are ended one by one when the step was diagnosed.
SeriesAt(l) ==
  \A s \in FieldIds :
    /\ Begun(l, s) <=> s \in Checkers /\ Expected(s) /\ (InLoop(l, "series") => s < at[l])
    /\ Closed(l, s) <=> s \in Checkers /\ InLoop(l, "close") /\ s < at[l]

StreamAt(l) ==
  /\ tpc[l] \in {"idle", "record"} => out[l] = <<>>
  /\ tpc[l] \notin {"idle", "record"} => out[l] # <<>>
  /\ \A s \in Checkers : Expected(s) => Stream!Measured(l, s) = seriesCnt[l][s]
  /\ Active(l) /\ ~InLoop(l, "record") =>
       /\ ~StepOver(l) /\ SeriesAt(l)
       /\ Diagnosed(l) <=> InLoop(l, "restore") \/ InLoop(l, "close")

\* A link is trained only if all its checkers have a value to be compared with.
ExpectedAt(l) ==
  /\ tpc[l] = "initial" /\ fine[l] => \A i \in Checkers : i < at[l] => Expected(i)
  /\ tpc[l] \in Trained => \A i \in Checkers : Expected(i)

StreamInv == \A l \in Links : StreamAt(l) /\ ExpectedAt(l)
-----------------------------------------------------------------------------
\* What an artifact adds to what the stream says.

LEMMA OutFacts ==
  ASSUME TypeInv, NEW l \in Links
  PROVE  out[l] \in Seq(Artifacts) /\ DOMAIN out[l] = 1 .. Len(out[l]) /\ Len(out[l]) \in Nat
  BY SMT DEF TypeInv, StreamTypes

\* Artifacts are told apart by their kind.
LEMMA ArtifactKinds ==
  /\ Stream!StepStart.art = "stepStart" /\ Stream!StepEnd.art = "stepEnd"
  /\ \A type : Stream!Diagnosis(type).art = "diagnosis"
  /\ \A s : Stream!SeriesStart(s).art = "seriesStart" /\ Stream!SeriesStart(s).series = s
  /\ \A s, n : Stream!Element(s, n).art = "element" /\ Stream!Element(s, n).series = s
  /\ \A s, n : Stream!SeriesEnd(s, n).art = "seriesEnd" /\ Stream!SeriesEnd(s, n).series = s
  BY SMT DEF Stream!StepStart, Stream!StepEnd, Stream!Diagnosis, Stream!SeriesStart, Stream!Element,
             Stream!SeriesEnd

LEMMA ArtsHere ==
  ASSUME TypeInv, NEW l \in Links, NEW a \in Artifacts, Emit(l, a)
  PROVE  \E n :
             /\ out'[l] # <<>>
             /\ \A kind : Stream!Arts(l, kind)' = Stream!Arts(l, kind) \cup {k \in {n} : a.art = kind}
             /\ \A kind, s : /\ n \notin Stream!ArtsOf(l, kind, s)
                             /\ Stream!ArtsOf(l, kind, s)' =
                                  Stream!ArtsOf(l, kind, s) \cup {k \in {n} : a.art = kind /\ a.series = s}
  <1> DEFINE n == Len(out[l]) + 1
  <1>1. /\ out[l] \in Seq(Artifacts) /\ out'[l] = Append(out[l], a) /\ Len(out'[l]) = n
        /\ Len(out[l]) \in Nat /\ out'[l][n] = a /\ \A k \in 1 .. Len(out[l]) : out'[l][k] = out[l][k]
    BY OutFacts, EmitHere, Zenon
  <1>2. DOMAIN out[l] = 1 .. Len(out[l]) /\ DOMAIN out'[l] = 1 .. n
    BY <1>1, SMT
  <1>3. DOMAIN out'[l] = DOMAIN out[l] \cup {n} /\ n \notin DOMAIN out[l]
    BY <1>1, <1>2, SMT
  <1>4. \A k \in DOMAIN out[l] : out'[l][k] = out[l][k]
    BY <1>1, <1>2, Zenon
  <1>5. out'[l] # <<>>
    BY <1>1, SMT
  <1>6. out'[l][n] = a
    BY <1>1, Zenon
  <1> HIDE DEF n
  <1>7. ASSUME NEW kind
        PROVE  Stream!Arts(l, kind)' = Stream!Arts(l, kind) \cup {k \in {n} : a.art = kind}
    BY <1>3, <1>4, <1>6, SMT DEF Stream!Arts
  <1>8. ASSUME NEW kind, NEW s
        PROVE  /\ n \notin Stream!ArtsOf(l, kind, s)
               /\ Stream!ArtsOf(l, kind, s)' =
                    Stream!ArtsOf(l, kind, s) \cup {k \in {n} : a.art = kind /\ a.series = s}
    BY <1>3, <1>4, <1>6, SMT DEF Stream!Arts, Stream!ArtsOf
  <1> QED BY <1>5, <1>7, <1>8, Zenon

\* The cardinality that OcpSteps counts with is the one of the theorems about finite sets.
LEMMA SameCardinality == \A S : Stream!Cardinality(S) = Cardinality(S)
  BY Zenon DEF Stream!Cardinality, Cardinality

LEMMA MeasuredType ==
  ASSUME TypeInv, NEW l \in Links
  PROVE  \A kind, s : IsFiniteSet(Stream!ArtsOf(l, kind, s)) /\ Stream!Measured(l, s) \in Nat
  <1>1. DOMAIN out[l] = 1 .. Len(out[l]) /\ Len(out[l]) \in Nat
    BY OutFacts, Zenon
  <1>2. IsFiniteSet(1 .. Len(out[l]))
    <2>1. 1 \in Int /\ Len(out[l]) \in Int
      BY <1>1, SMT
    <2> QED BY <2>1, FS_Interval, Zenon
  <1>3. ASSUME NEW kind, NEW s PROVE IsFiniteSet(Stream!ArtsOf(l, kind, s))
    <2>1. Stream!ArtsOf(l, kind, s) \subseteq 1 .. Len(out[l])
      BY <1>1, Zenon DEF Stream!ArtsOf, Stream!Arts
    <2> QED BY <1>2, <2>1, FS_Subset, Zenon
  <1>4. ASSUME NEW s PROVE Stream!Measured(l, s) \in Nat
    BY <1>3, FS_CardinalityType, SameCardinality, Zenon DEF Stream!Measured
  <1> QED BY <1>3, <1>4, Zenon

LEMMA EmitMakes ==
  ASSUME TypeInv, NEW l \in Links, NEW a \in Artifacts, Emit(l, a)
  PROVE  /\ out'[l] # <<>>
         /\ StepOver(l)' <=> StepOver(l) \/ a.art = "stepEnd"
         /\ Diagnosed(l)' <=> Diagnosed(l) \/ a.art = "diagnosis"
         /\ \A s : Begun(l, s)' <=> Begun(l, s) \/ (a.art = "seriesStart" /\ a.series = s)
         /\ \A s : Closed(l, s)' <=> Closed(l, s) \/ (a.art = "seriesEnd" /\ a.series = s)
         /\ \A s : Stream!Measured(l, s)' =
                     IF a.art = "element" /\ a.series = s THEN Stream!Measured(l, s) + 1
                                                          ELSE Stream!Measured(l, s)
  <1>1. PICK n :
        /\ out'[l] # <<>>
        /\ \A kind : Stream!Arts(l, kind)' = Stream!Arts(l, kind) \cup {k \in {n} : a.art = kind}
        /\ \A kind, s : /\ n \notin Stream!ArtsOf(l, kind, s)
                        /\ Stream!ArtsOf(l, kind, s)' =
                             Stream!ArtsOf(l, kind, s) \cup {k \in {n} : a.art = kind /\ a.series = s}
    BY ArtsHere, Zenon
  <1>2. StepOver(l)' <=> StepOver(l) \/ a.art = "stepEnd"
    BY <1>1, Zenon DEF StepOver
  <1>3. Diagnosed(l)' <=> Diagnosed(l) \/ a.art = "diagnosis"
    BY <1>1, Zenon DEF Diagnosed
  <1>4. \A s : Begun(l, s)' <=> Begun(l, s) \/ (a.art = "seriesStart" /\ a.series = s)
    BY <1>1, SMT DEF Begun
  <1>5. \A s : Closed(l, s)' <=> Closed(l, s) \/ (a.art = "seriesEnd" /\ a.series = s)
    BY <1>1, SMT DEF Closed
  <1>6. ASSUME NEW s
        PROVE  Stream!Measured(l, s)' =
                 IF a.art = "element" /\ a.series = s THEN Stream!Measured(l, s) + 1
                                                      ELSE Stream!Measured(l, s)
    <2> DEFINE old == Stream!ArtsOf(l, "element", s)
               new == Stream!ArtsOf(l, "element", s)'
    <2>1. IsFiniteSet(old) /\ n \notin old /\ new = old \cup {k \in {n} : a.art = "element" /\ a.series = s}
      BY <1>1, MeasuredType, Zenon
    <2>2. Stream!Measured(l, s) = Cardinality(old) /\ Stream!Measured(l, s)' = Cardinality(new)
      BY SameCardinality, Zenon DEF Stream!Measured
    <2> HIDE DEF old, new
    <2>3. CASE a.art = "element" /\ a.series = s
      <3>1. new = old \cup {n}
        BY <2>1, <2>3, Zenon
      <3>2. Cardinality(old \cup {n}) = Cardinality(old) + 1
        BY <2>1, FS_AddElement, Zenon
      <3> QED BY <2>2, <2>3, <3>1, <3>2, Zenon
    <2>4. CASE ~(a.art = "element" /\ a.series = s)
      <3>1. new = old
        BY <2>1, <2>4, Zenon
      <3> QED BY <2>2, <2>4, <3>1, Zenon
    <2> QED BY <2>3, <2>4, Zenon
  <1> QED BY <1>1, <1>2, <1>3, <1>4, <1>5, <1>6, Zenon

LEMMA SilentMakes ==
  ASSUME NEW l \in Links, out'[l] = out[l]
  PROVE  /\ StepOver(l)' <=> StepOver(l)
         /\ Diagnosed(l)' <=> Diagnosed(l)
         /\ \A s : (Begun(l, s)' <=> Begun(l, s)) /\ (Closed(l, s)' <=> Closed(l, s))
                   /\ Stream!Measured(l, s)' = Stream!Measured(l, s)
  BY SMT DEF StepOver, Diagnosed, Begun, Closed, Stream!Measured, Stream!ArtsOf, Stream!Arts

-----------------------------------------------------------------------------
\* The invariant is kept.

LEMMA SetupSame ==
  ASSUME setup' = setup
  PROVE  /\ Checkers' = Checkers /\ Recorded' = Recorded
         /\ \A i : Expected(i)' <=> Expected(i)
  BY Zenon DEF Checkers, Recorded, FieldsOf, Fields, Expected

LEMMA CheckerFacts ==
  ASSUME TypeInv
  PROVE  /\ FieldIds' = FieldIds
         /\ \A i \in Fields : i \in FieldIds
         /\ \A i \in Checkers : i \in Fields /\ i \in FieldIds /\ i \in Nat \ {0}
  <1>1. setup \in Setups
    BY Zenon DEF TypeInv, MainTypes
  <1>2. \A i \in Fields : i \in FieldIds
    BY <1>1, Zenon DEF Fields, FieldIds
  <1> QED BY <1>1, <1>2, SetupFacts, Zenon DEF Checkers, FieldsOf, FieldIds

\* The checkers before the one the loop is at have been dealt with; at its end, all have.
LEMMA LoopFacts ==
  ASSUME TypeInv, NEW l \in Links
  PROVE  /\ at[l] \in Nat
         /\ \A i \in Fields : IsAt(l, Checkers, i) =>
              /\ i \in Checkers /\ at[l] <= i
              /\ \A j \in Checkers : j < i + 1 <=> j < at[l] \/ j = i
         /\ Over(l, Checkers) => \A j \in Checkers : j < at[l]
  <1>1. at[l] \in Nat /\ \A i \in Checkers : i \in Nat
    BY CheckerFacts, SetupFacts, SMT DEF TypeInv, LoopTypes, MainTypes
  <1>2. ASSUME NEW i \in Fields, IsAt(l, Checkers, i)
        PROVE  /\ i \in Checkers /\ at[l] <= i
               /\ \A j \in Checkers : j < i + 1 <=> j < at[l] \/ j = i
    BY <1>1, <1>2, SMT DEF IsAt, LeftOf
  <1>3. ASSUME Over(l, Checkers) PROVE \A j \in Checkers : j < at[l]
    BY <1>1, <1>3, SMT DEF Over, LeftOf
  <1> QED BY <1>1, <1>2, <1>3, Zenon

LEMMA StreamInit == Init => StreamInv
  <1> SUFFICES ASSUME Init, NEW l \in Links PROVE StreamAt(l) /\ ExpectedAt(l)
    BY Zenon DEF StreamInv
  <1>1. /\ tpc[l] = "idle" /\ out[l] = <<>>
        /\ \A s \in Fields : seriesCnt[l][s] = 0
    BY Zenon DEF Init
  <1>2. ASSUME NEW s \in Checkers PROVE Stream!Measured(l, s) = seriesCnt[l][s]
    <2>1. Stream!ArtsOf(l, "element", s) = {}
      BY <1>1, SMT DEF Stream!ArtsOf, Stream!Arts
    <2>2. s \in Fields
      BY Zenon DEF Checkers, FieldsOf
    <2> QED BY <1>1, <2>1, <2>2, FS_EmptySet, SameCardinality, Zenon DEF Stream!Measured
  <1> QED BY <1>1, <1>2, SMT DEF StreamAt, ExpectedAt, Active, Trained

\* What a link streams, and how it counts.
LEMMA StreamsHere ==
  ASSUME TypeInv, NEW l \in Links
  PROVE  /\ \A i \in Fields : StartSeries(l, i) =>
              /\ seriesCnt' = seriesCnt
              /\ IF Expected(i) THEN Emit(l, Stream!SeriesStart(i)) ELSE out' = out
         /\ \A i \in Fields : CheckField(l, i) =>
              /\ seriesCnt'[l][i] = seriesCnt[l][i] + 1
              /\ \A j \in Fields : j # i => seriesCnt'[l][j] = seriesCnt[l][j]
              /\ IF Expected(i) THEN Emit(l, Stream!Element(i, seriesCnt[l][i])) ELSE out' = out
         /\ \A i \in Fields : EndSeries(l, i) =>
              seriesCnt' = seriesCnt /\ Emit(l, Stream!SeriesEnd(i, seriesCnt[l][i]))
         /\ Record(l) => seriesCnt' = seriesCnt /\ Emit(l, Stream!StepStart)
         /\ InitialFails(l) => seriesCnt' = seriesCnt /\ Emit(l, Stream!Diagnosis("FAIL"))
         /\ Verdict(l) => /\ seriesCnt' = seriesCnt
                          /\ \E type \in {"PASS", "FAIL"} : Emit(l, Stream!Diagnosis(type))
         /\ EndStep(l) => seriesCnt' = seriesCnt /\ Emit(l, Stream!StepEnd)
         /\ \/ SeriesStarted(l) \/ InitialPasses(l) \/ Retrain(l) \/ TakeDown(l) \/ BringUp(l)
            \/ CheckPasses(l) \/ CheckFails(l) \/ Restored(l) \/ \E i \in Fields : RestoreField(l, i)
            => seriesCnt' = seriesCnt /\ out' = out
  <1>0. seriesCnt \in [Links -> [Fields -> Nat]]
    BY Zenon DEF TypeInv, StreamTypes
  <1>1. ASSUME NEW i \in Fields, StartSeries(l, i)
        PROVE  /\ seriesCnt' = seriesCnt
               /\ IF Expected(i) THEN Emit(l, Stream!SeriesStart(i)) ELSE out' = out
    BY <1>1, Zenon DEF StartSeries, Expected
  <1>2. ASSUME NEW i \in Fields, CheckField(l, i)
        PROVE  /\ seriesCnt'[l][i] = seriesCnt[l][i] + 1
               /\ \A j \in Fields : j # i => seriesCnt'[l][j] = seriesCnt[l][j]
               /\ IF Expected(i) THEN Emit(l, Stream!Element(i, seriesCnt[l][i])) ELSE out' = out
    <2>1. /\ seriesCnt' = [seriesCnt EXCEPT ![l][i] = seriesCnt[l][i] + 1]
          /\ IF Expected(i) THEN Emit(l, Stream!Element(i, seriesCnt[l][i])) ELSE out' = out
      BY <1>2, Zenon DEF CheckField, Counted, Expected
    <2>2. /\ seriesCnt'[l][i] = seriesCnt[l][i] + 1
          /\ \A j \in Fields : j # i => seriesCnt'[l][j] = seriesCnt[l][j]
      BY <1>0, <2>1, SMT
    <2> QED BY <2>1, <2>2, Zenon
  <1>3. \A i \in Fields : EndSeries(l, i) =>
          seriesCnt' = seriesCnt /\ Emit(l, Stream!SeriesEnd(i, seriesCnt[l][i]))
    BY Zenon DEF EndSeries
  <1>4. /\ Record(l) => seriesCnt' = seriesCnt /\ Emit(l, Stream!StepStart)
        /\ InitialFails(l) => seriesCnt' = seriesCnt /\ Emit(l, Stream!Diagnosis("FAIL"))
        /\ EndStep(l) => seriesCnt' = seriesCnt /\ Emit(l, Stream!StepEnd)
    BY Zenon DEF Record, InitialFails, EndStep
  <1>5. Verdict(l) => /\ seriesCnt' = seriesCnt
                      /\ \E type \in {"PASS", "FAIL"} : Emit(l, Stream!Diagnosis(type))
    BY Zenon DEF Verdict
  <1>6. \/ SeriesStarted(l) \/ InitialPasses(l) \/ Retrain(l) \/ TakeDown(l) \/ BringUp(l)
        \/ CheckPasses(l) \/ CheckFails(l) \/ Restored(l) \/ \E i \in Fields : RestoreField(l, i)
        => seriesCnt' = seriesCnt /\ out' = out
    BY Zenon
    DEF SeriesStarted, InitialPasses, Retrain, TakeDown, BringUp, CheckPasses, CheckFails, Restored,
        RestoreField, streamVars
  <1> QED BY <1>1, <1>2, <1>3, <1>4, <1>5, <1>6, Zenon

\* A step that streams nothing.
LEMMA SilentHere ==
  ASSUME TypeInv, NEW l \in Links, StreamAt(l), setup' = setup, out'[l] = out[l], out[l] # <<>>,
         \A s \in Checkers : Expected(s) => seriesCnt'[l][s] = seriesCnt[l][s],
         tpc[l] # "idle", tpc[l] # "record", tpc[l] # "ended",
         tpc'[l] # "idle", tpc'[l] # "record", tpc'[l] # "ended",
         \A s \in Checkers : Expected(s) =>
           ((InLoop(l, "series") => s < at[l]) <=> (tpc'[l] = "series" => s < at'[l])),
         \A s \in Checkers : InLoop(l, "close") /\ s < at[l] <=> tpc'[l] = "close" /\ s < at'[l],
         InLoop(l, "restore") \/ InLoop(l, "close") <=> tpc'[l] = "restore" \/ tpc'[l] = "close"
  PROVE  StreamAt(l)'
  <1>1. /\ out[l] # <<>> /\ ~StepOver(l) /\ SeriesAt(l)
        /\ Diagnosed(l) <=> InLoop(l, "restore") \/ InLoop(l, "close")
        /\ \A s \in Checkers : Expected(s) => Stream!Measured(l, s) = seriesCnt[l][s]
    BY SMT DEF StreamAt, InLoop, Active
  <1>2. /\ ~StepOver(l)' /\ (Diagnosed(l)' <=> Diagnosed(l))
        /\ \A s : (Begun(l, s)' <=> Begun(l, s)) /\ (Closed(l, s)' <=> Closed(l, s))
                  /\ Stream!Measured(l, s)' = Stream!Measured(l, s)
    BY <1>1, SilentMakes, Zenon
  <1>3. \A s \in Checkers : Expected(s) => Stream!Measured(l, s)' = seriesCnt'[l][s]
    BY <1>1, <1>2, Zenon
  <1>4. SeriesAt(l)'
    BY <1>1, <1>2, SetupSame, CheckerFacts, Zenon DEF SeriesAt, InLoop
  <1>5. Diagnosed(l)' <=> InLoop(l, "restore")' \/ InLoop(l, "close")'
    BY <1>1, <1>2, Zenon DEF InLoop
  <1> QED BY <1>2, <1>3, <1>4, <1>5, SetupSame, SMT DEF StreamAt

\* A step that streams an artifact.
LEMMA SpokenHere ==
  ASSUME TypeInv, NEW l \in Links, setup' = setup, out'[l] # <<>>, ~StepOver(l)', 
         tpc'[l] # "idle", tpc'[l] # "record",
         \A s \in Checkers : Expected(s) => Stream!Measured(l, s)' = seriesCnt'[l][s],
         \A s \in FieldIds :
           /\ Begun(l, s)' <=> s \in Checkers /\ Expected(s) /\ (tpc'[l] = "series" => s < at'[l])
           /\ Closed(l, s)' <=> s \in Checkers /\ tpc'[l] = "close" /\ s < at'[l],
         Diagnosed(l)' <=> tpc'[l] = "restore" \/ tpc'[l] = "close"
  PROVE  StreamAt(l)'
  <1>1. SeriesAt(l)'
    BY SetupSame, CheckerFacts, Zenon DEF SeriesAt, InLoop
  <1>2. Diagnosed(l)' <=> InLoop(l, "restore")' \/ InLoop(l, "close")'
    BY Zenon DEF InLoop
  <1> QED BY <1>1, <1>2, SetupSame, SMT DEF StreamAt

\* What the invariant says of a link that is tested.
LEMMA TestedFacts ==
  ASSUME NEW l \in Links, StreamAt(l), tpc[l] # "idle", tpc[l] # "record", tpc[l] # "ended"
  PROVE  /\ out[l] # <<>> /\ ~StepOver(l)
         /\ \A s \in Checkers : Expected(s) => Stream!Measured(l, s) = seriesCnt[l][s]
         /\ \A s \in FieldIds :
              /\ Begun(l, s) <=> s \in Checkers /\ Expected(s) /\ (tpc[l] = "series" => s < at[l])
              /\ Closed(l, s) <=> s \in Checkers /\ tpc[l] = "close" /\ s < at[l]
         /\ Diagnosed(l) <=> tpc[l] = "restore" \/ tpc[l] = "close"
  BY SMT DEF StreamAt, SeriesAt, InLoop, Active

LEMMA StreamHere ==
  ASSUME TypeInv, NEW l \in Links, StreamAt(l), TrainLoop(l)
  PROVE  StreamAt(l)'
  <1>0. setup' = setup
    BY SetupKept, Zenon
  <1>f. /\ \A i \in Fields : i \in FieldIds /\ seriesCnt[l][i] \in Nat /\ i \in Nat
        /\ \A i \in Checkers : i \in Fields /\ i \in FieldIds /\ i \in Nat \ {0}
    <2>1. setup \in Setups /\ seriesCnt \in [Links -> [Fields -> Nat]]
      BY Zenon DEF TypeInv, MainTypes, StreamTypes
    <2>2. \A i \in Fields : i \in Nat \ {0}
      BY <2>1, SetupFacts, Zenon
    <2> QED BY <2>1, <2>2, CheckerFacts, Zenon
  <1>1. ASSUME NEW i \in Fields, StartSeries(l, i) PROVE StreamAt(l)'
    <2>1. /\ tpc[l] = "series" /\ tpc'[l] = "series" /\ at'[l] = i + 1
          /\ i \in Checkers /\ at[l] <= i /\ \A j \in Checkers : j < i + 1 <=> j < at[l] \/ j = i
          /\ seriesCnt' = seriesCnt
      BY <1>1, FieldStepsHere, LoopFacts, StreamsHere, Zenon DEF StartSeriesHere, From, To
    <2>2. CASE Expected(i)
      <3>1. Emit(l, Stream!SeriesStart(i)) /\ Stream!SeriesStart(i) \in Artifacts
        BY <1>1, <1>f, <2>2, StreamsHere, ArtifactTypes, Zenon
      <3>2. /\ out'[l] # <<>> /\ (StepOver(l)' <=> StepOver(l)) /\ (Diagnosed(l)' <=> Diagnosed(l))
            /\ \A s : /\ Begun(l, s)' <=> Begun(l, s) \/ i = s
                      /\ Closed(l, s)' <=> Closed(l, s)
                      /\ Stream!Measured(l, s)' = Stream!Measured(l, s)
        <4> DEFINE a == Stream!SeriesStart(i)
        <4>1. a.art = "seriesStart" /\ a.series = i
          BY ArtifactKinds, Zenon
        <4> HIDE DEF a
        <4>2. Emit(l, a) /\ a \in Artifacts
          BY <3>1, Zenon DEF a
        <4> QED BY <4>1, <4>2, EmitMakes, SMT
      <3> QED BY <1>0, <1>f, <2>1, <2>2, <3>2, TestedFacts, SpokenHere, SMT
    <2>3. CASE ~Expected(i)
      <3>1. out' = out
        BY <1>1, <2>3, StreamsHere, Zenon
      <3> QED BY <1>0, <1>f, <2>1, <2>3, <3>1, TestedFacts, SilentHere, SMT DEF InLoop
    <2> QED BY <2>2, <2>3, Zenon

  <1>2. ASSUME NEW i \in Fields, CheckField(l, i) PROVE StreamAt(l)'
    <2>1. /\ tpc[l] = "initial" \/ tpc[l] = "check"
          /\ tpc'[l] = tpc[l]
          /\ seriesCnt'[l][i] = seriesCnt[l][i] + 1
          /\ \A j \in Fields : j # i => seriesCnt'[l][j] = seriesCnt[l][j]
      BY <1>2, FieldStepsHere, StreamsHere, Zenon DEF CheckFieldHere, From, To
    <2>2. CASE Expected(i)
      <3> DEFINE a == Stream!Element(i, seriesCnt[l][i])
      <3>1. Emit(l, a) /\ a \in Artifacts /\ a.art = "element" /\ a.series = i
        <4>1. a \in Artifacts
          BY <1>f, ArtifactTypes, Zenon
        <4>2. Emit(l, a)
          BY <1>2, <2>2, StreamsHere, Zenon
        <4>3. a.art = "element" /\ a.series = i
          BY SMT DEF Stream!Element
        <4> QED BY <4>1, <4>2, <4>3
      <3> HIDE DEF a
      <3>2. /\ out'[l] # <<>> /\ (StepOver(l)' <=> StepOver(l)) /\ (Diagnosed(l)' <=> Diagnosed(l))
            /\ \A s : /\ Begun(l, s)' <=> Begun(l, s)
                      /\ Closed(l, s)' <=> Closed(l, s)
                      /\ Stream!Measured(l, s)' = IF s = i THEN Stream!Measured(l, s) + 1
                                                           ELSE Stream!Measured(l, s)
        BY <3>1, EmitMakes, SMT
      <3> QED BY <1>0, <1>f, <2>1, <2>2, <3>2, TestedFacts, SpokenHere, SMT
    <2>3. CASE ~Expected(i)
      <3>1. out' = out
        BY <1>2, <2>3, StreamsHere, Zenon
      <3> QED BY <1>0, <1>f, <2>1, <2>3, <3>1, TestedFacts, SilentHere, SMT DEF InLoop
    <2> QED BY <2>2, <2>3, Zenon
  <1>3. ASSUME NEW i \in Fields, EndSeries(l, i) PROVE StreamAt(l)'
    <2> DEFINE a == Stream!SeriesEnd(i, seriesCnt[l][i])
    <2>1. /\ tpc[l] = "close" /\ tpc'[l] = "close" /\ at'[l] = i + 1
          /\ i \in Checkers /\ at[l] <= i /\ \A j \in Checkers : j < i + 1 <=> j < at[l] \/ j = i
          /\ seriesCnt' = seriesCnt
      BY <1>3, FieldStepsHere, LoopFacts, StreamsHere, Zenon DEF EndSeriesHere, From, To
    <2>2. Emit(l, a) /\ a \in Artifacts /\ a.art = "seriesEnd" /\ a.series = i
      <3>1. a \in Artifacts
        BY <1>f, ArtifactTypes, Zenon
      <3>2. Emit(l, a)
        BY <1>3, StreamsHere, Zenon
      <3>3. a.art = "seriesEnd" /\ a.series = i
        BY SMT DEF Stream!SeriesEnd
      <3> QED BY <3>1, <3>2, <3>3
    <2> HIDE DEF a
    <2>3. /\ out'[l] # <<>> /\ (StepOver(l)' <=> StepOver(l)) /\ (Diagnosed(l)' <=> Diagnosed(l))
          /\ \A s : /\ Begun(l, s)' <=> Begun(l, s)
                    /\ Closed(l, s)' <=> Closed(l, s) \/ s = i
                    /\ Stream!Measured(l, s)' = Stream!Measured(l, s)
      BY <2>2, EmitMakes, SMT
    <2> QED BY <1>0, <1>f, <2>1, <2>3, TestedFacts, SpokenHere, SMT
  <1>4. CASE Record(l)
    <2> DEFINE a == Stream!StepStart
    <2>1. tpc[l] = "record" /\ tpc'[l] = "series" /\ at'[l] = 1 /\ seriesCnt' = seriesCnt
      BY <1>4, LinkStepsHere, StreamsHere, Zenon DEF RecordHere, From, To
    <2>2. Emit(l, a) /\ a \in Artifacts /\ a.art = "stepStart"
      BY <1>4, StreamsHere, ArtifactTypes, ArtifactKinds, Zenon
    <2> HIDE DEF a
    <2>3. /\ out'[l] # <<>> /\ (StepOver(l)' <=> StepOver(l)) /\ (Diagnosed(l)' <=> Diagnosed(l))
          /\ \A s : /\ Begun(l, s)' <=> Begun(l, s)
                    /\ Closed(l, s)' <=> Closed(l, s)
                    /\ Stream!Measured(l, s)' = Stream!Measured(l, s)
      BY <2>2, EmitMakes, SMT
    <2>4. out[l] = <<>> /\ \A s \in Checkers : Expected(s) => Stream!Measured(l, s) = seriesCnt[l][s]
      BY <2>1, SMT DEF StreamAt
    <2>5. ~StepOver(l) /\ ~Diagnosed(l) /\ \A s : ~Begun(l, s) /\ ~Closed(l, s)
      BY <2>4, SMT DEF StepOver, Diagnosed, Begun, Closed, Stream!ArtsOf, Stream!Arts
    <2> QED BY <1>0, <1>f, <2>1, <2>3, <2>4, <2>5, SpokenHere, SMT
  <1>5. CASE InitialFails(l) \/ EndStep(l)
    <2>1. /\ tpc'[l] = "ended" /\ seriesCnt' = seriesCnt
          /\ tpc[l] = "initial" \/ tpc[l] = "close"
          /\ Emit(l, Stream!Diagnosis("FAIL")) \/ Emit(l, Stream!StepEnd)
      BY <1>5, LinkStepsHere, StreamsHere, Zenon DEF InitialFailsHere, EndStepHere, From, To
    <2>2. PICK a \in Artifacts : Emit(l, a) /\ (a.art = "diagnosis" \/ a.art = "stepEnd")
      BY <2>1, ArtifactTypes, ArtifactKinds, Zenon
    <2>3. out'[l] # <<>> /\ \A s : Stream!Measured(l, s)' = Stream!Measured(l, s)
      BY <2>2, EmitMakes, SMT
    <2>4. \A s \in Checkers : Expected(s) => Stream!Measured(l, s)' = seriesCnt'[l][s]
      BY <2>1, <2>3, TestedFacts, SMT
    <2> QED BY <1>0, <2>1, <2>3, <2>4, SetupSame, SMT DEF StreamAt, Active
  <1>6. CASE Verdict(l)
    <2>1. /\ tpc[l] = "verdict" \/ tpc[l] = "train"
          /\ tpc'[l] = "restore" /\ seriesCnt' = seriesCnt
      BY <1>6, LinkStepsHere, StreamsHere, Zenon DEF VerdictHere, From, To
    <2>2. PICK a \in Artifacts : Emit(l, a) /\ a.art = "diagnosis"
      BY <1>6, StreamsHere, ArtifactTypes, ArtifactKinds, Zenon
    <2>3. /\ out'[l] # <<>> /\ (StepOver(l)' <=> StepOver(l)) /\ Diagnosed(l)'
          /\ \A s : /\ Begun(l, s)' <=> Begun(l, s)
                    /\ Closed(l, s)' <=> Closed(l, s)
                    /\ Stream!Measured(l, s)' = Stream!Measured(l, s)
      BY <2>2, EmitMakes, SMT
    <2> QED BY <1>0, <1>f, <2>1, <2>3, TestedFacts, SpokenHere, SMT
  <1>7. ASSUME tpc[l] = "series" \/ tpc[l] = "initial" \/ tpc[l] = "train" \/ tpc[l] = "down"
                 \/ tpc[l] = "check" \/ tpc[l] = "restore",
               \/ tpc[l] = "series" /\ tpc'[l] = "initial" /\ \A s \in Checkers : s < at[l]
               \/ tpc[l] = "restore" /\ (tpc'[l] = "restore" \/ (tpc'[l] = "close" /\ at'[l] = 1))
               \/ /\ tpc[l] # "series" /\ tpc[l] # "restore"
                  /\ tpc'[l] = "train" \/ tpc'[l] = "down" \/ tpc'[l] = "check" \/ tpc'[l] = "verdict",
               seriesCnt' = seriesCnt /\ out' = out
        PROVE  StreamAt(l)'
    <2>1. tpc[l] # "idle" /\ tpc[l] # "record" /\ tpc[l] # "ended" /\ tpc[l] # "close"
      BY <1>7, SMT
    <2>2. tpc'[l] # "idle" /\ tpc'[l] # "record" /\ tpc'[l] # "ended" /\ tpc'[l] # "series"
      BY <1>7, SMT
    <2>3. \A s \in Checkers : (InLoop(l, "series") => s < at[l])
      BY <1>7, SMT DEF InLoop
    <2>4. \A s \in Checkers : tpc'[l] = "close" => ~(s < at'[l])
      BY <1>7, <1>f, SMT
    <2>5. InLoop(l, "restore") \/ InLoop(l, "close") <=> tpc'[l] = "restore" \/ tpc'[l] = "close"
      BY <1>7, SMT DEF InLoop
    <2>6. out[l] # <<>>
      BY <2>1, TestedFacts, Zenon
    <2> QED BY <1>0, <1>7, <2>1, <2>2, <2>3, <2>4, <2>5, <2>6, SilentHere, Zenon DEF InLoop
  <1>8. CASE \/ SeriesStarted(l) \/ InitialPasses(l) \/ Retrain(l) \/ TakeDown(l) \/ BringUp(l)
             \/ CheckPasses(l) \/ CheckFails(l) \/ Restored(l) \/ \E i \in Fields : RestoreField(l, i)
    <2>1. seriesCnt' = seriesCnt /\ out' = out
      BY <1>8, StreamsHere, Zenon
    <2>2. CASE SeriesStarted(l)
      BY <1>7, <2>1, <2>2, LinkStepsHere, LoopFacts, Zenon DEF SeriesStartedHere, From, To
    <2>3. CASE Restored(l)
      BY <1>7, <2>1, <2>3, LinkStepsHere, Zenon DEF RestoredHere, From, To
    <2>4. CASE \E i \in Fields : RestoreField(l, i)
      BY <1>7, <2>1, <2>4, FieldStepsHere, Zenon DEF RestoreFieldHere, From, To
    <2>5. CASE \/ InitialPasses(l) \/ Retrain(l) \/ TakeDown(l) \/ BringUp(l) \/ CheckPasses(l) \/ CheckFails(l)
      <3>1. /\ tpc[l] = "initial" \/ tpc[l] = "train" \/ tpc[l] = "down" \/ tpc[l] = "check"
            /\ tpc'[l] = "train" \/ tpc'[l] = "down" \/ tpc'[l] = "check" \/ tpc'[l] = "verdict"
        BY <2>5, LinkStepsHere, Zenon
        DEF InitialPassesHere, RetrainHere, TakeDownHere, BringUpHere, CheckPassesHere, CheckFailsHere, From, To
      <3>2. tpc[l] # "series" /\ tpc[l] # "restore"
        BY <3>1, SMT
      <3> QED BY <1>7, <2>1, <3>1, <3>2, Zenon
    <2> QED BY <1>8, <2>2, <2>3, <2>4, <2>5, Zenon
  <1> QED BY <1>1, <1>2, <1>3, <1>4, <1>5, <1>6, <1>8, Zenon DEF TrainLoop

LEMMA ExpectedHere ==
  ASSUME TypeInv, NEW l \in Links, ExpectedAt(l), TrainLoop(l)
  PROVE  ExpectedAt(l)'
  <1>0. setup' = setup /\ Checkers' = Checkers /\ (\A i : Expected(i)' <=> Expected(i))
        /\ \A i \in Checkers : i \in Nat \ {0}
    BY SetupKept, SetupSame, CheckerFacts, Zenon
  <1>1. ASSUME tpc'[l] \notin {"initial"} \cup Trained PROVE ExpectedAt(l)'
    BY <1>1, SMT DEF ExpectedAt, Trained
  <1>2. ASSUME tpc[l] \in Trained PROVE ExpectedAt(l)'
    <2>1. \A i \in Checkers : Expected(i)
      BY <1>2, Zenon DEF ExpectedAt
    <2> QED BY <1>0, <2>1, Zenon DEF ExpectedAt
  <1>3. CASE SeriesStarted(l)
    <2>1. tpc'[l] = "initial" /\ at'[l] = 1
      BY <1>3, LinkStepsHere, Zenon DEF SeriesStartedHere, To
    <2> QED BY <1>0, <2>1, SMT DEF ExpectedAt, Trained
  <1>4. ASSUME tpc[l] = "initial", NEW i \in Fields, CheckField(l, i) PROVE ExpectedAt(l)'
    <2>1. /\ tpc'[l] = "initial" /\ at'[l] = i + 1
          /\ fine'[l] = StillFine(l, setup.fields[i], ValueOf(l, setup.fields[i]))
          /\ \A j \in Checkers : j < i + 1 <=> j < at[l] \/ j = i
      BY <1>4, FieldStepsHere, LoopFacts, Zenon DEF CheckFieldHere, To
    <2>2. fine'[l] => fine[l] /\ Expected(i)
      BY <2>1, Zenon DEF StillFine, Matches, Expected
    <2>3. fine'[l] => \A j \in Checkers : j < i + 1 => Expected(j)
      BY <1>4, <2>1, <2>2, Zenon DEF ExpectedAt
    <2>4. tpc'[l] \notin Trained
      BY <2>1, SMT DEF Trained
    <2> QED BY <1>0, <2>1, <2>3, <2>4, Zenon DEF ExpectedAt
  <1>5. CASE InitialPasses(l)
    <2>1. tpc[l] = "initial" /\ Over(l, Checkers) /\ fine[l]
      BY <1>5, LinkStepsHere, Zenon DEF InitialPassesHere, From
    <2>2. \A j \in Checkers : Expected(j)
      BY <2>1, LoopFacts, Zenon DEF ExpectedAt
    <2> QED BY <1>0, <2>2, Zenon DEF ExpectedAt
  <1>6. \/ tpc'[l] = "series" \/ tpc'[l] = "ended"
        \/ \/ tpc[l] = "train" \/ tpc[l] = "down" \/ tpc[l] = "check" \/ tpc[l] = "verdict"
           \/ tpc[l] = "restore" \/ tpc[l] = "close"
        \/ SeriesStarted(l) \/ InitialPasses(l)
        \/ tpc[l] = "initial" /\ \E i \in Fields : CheckField(l, i)
    <2>1. ASSUME NEW i \in Fields,
                 StartSeries(l, i) \/ CheckField(l, i) \/ RestoreField(l, i) \/ EndSeries(l, i)
          PROVE  \/ tpc'[l] = "series" \/ tpc[l] = "check" \/ tpc[l] = "restore" \/ tpc[l] = "close"
                 \/ tpc[l] = "initial" /\ CheckField(l, i)
      BY <2>1, FieldStepsHere, Zenon
      DEF StartSeriesHere, CheckFieldHere, RestoreFieldHere, EndSeriesHere, From, To
    <2>2. \/ Record(l) \/ InitialFails(l) \/ Retrain(l) \/ TakeDown(l) \/ BringUp(l) \/ CheckPasses(l)
          \/ CheckFails(l) \/ Verdict(l) \/ Restored(l) \/ EndStep(l)
          => \/ tpc'[l] = "series" \/ tpc'[l] = "ended" \/ tpc[l] = "train" \/ tpc[l] = "down"
             \/ tpc[l] = "check" \/ tpc[l] = "verdict" \/ tpc[l] = "restore" \/ tpc[l] = "close"
      BY LinkStepsHere, Zenon
      DEF RecordHere, InitialFailsHere, RetrainHere, TakeDownHere, BringUpHere, CheckPassesHere,
          CheckFailsHere, VerdictHere, RestoredHere, EndStepHere, From, To
    <2> QED BY <2>1, <2>2, Zenon DEF TrainLoop
  <1>7. /\ \A place : place = "series" \/ place = "ended" => place \notin {"initial"} \cup Trained
        /\ \A place : \/ place = "train" \/ place = "down" \/ place = "check" \/ place = "verdict"
                      \/ place = "restore" \/ place = "close"
                      => place \in Trained
    BY SMT DEF Trained
  <1> QED BY <1>1, <1>2, <1>3, <1>4, <1>5, <1>6, <1>7, Zenon

LEMMA StreamKept == TypeInv /\ LinksInv /\ StreamInv /\ [Next]_vars => StreamInv'
  <1> SUFFICES ASSUME TypeInv, LinksInv, StreamInv, [Next]_vars, NEW k \in Links
               PROVE  StreamAt(k)' /\ ExpectedAt(k)'
    BY Zenon DEF StreamInv
  <1>0. StreamAt(k) /\ ExpectedAt(k)
    BY Zenon DEF StreamInv
  <1>1. ASSUME setup' = setup, out'[k] = out[k], seriesCnt'[k] = seriesCnt[k], at'[k] = at[k],
               fine'[k] = fine[k], tpc'[k] = tpc[k] \/ (tpc[k] = "idle" /\ tpc'[k] = "record")
        PROVE  StreamAt(k)' /\ ExpectedAt(k)'
    <2>1. /\ StepOver(k)' <=> StepOver(k)
          /\ Diagnosed(k)' <=> Diagnosed(k)
          /\ \A s : (Begun(k, s)' <=> Begun(k, s)) /\ (Closed(k, s)' <=> Closed(k, s))
                    /\ Stream!Measured(k, s)' = Stream!Measured(k, s)
      BY <1>1, SilentMakes, Zenon
    <2>2. Checkers' = Checkers /\ FieldIds' = FieldIds /\ \A i : Expected(i)' <=> Expected(i)
      BY <1>1, SetupSame, CheckerFacts, Zenon
    <2>3. CASE tpc'[k] = tpc[k]
      <3>1. SeriesAt(k)' <=> SeriesAt(k)
        BY <1>1, <2>1, <2>2, <2>3, Zenon DEF SeriesAt, InLoop
      <3>2. StreamAt(k)'
        BY <1>0, <1>1, <2>1, <2>2, <2>3, <3>1, Zenon DEF StreamAt, InLoop, Active
      <3>3. ExpectedAt(k)'
        BY <1>0, <1>1, <2>2, <2>3, Zenon DEF ExpectedAt
      <3> QED BY <3>2, <3>3, Zenon
    <2>4. CASE tpc[k] = "idle" /\ tpc'[k] = "record"
      <3>1. StreamAt(k)'
        BY <1>0, <1>1, <2>1, <2>2, <2>4, SMT DEF StreamAt, InLoop
      <3>2. ExpectedAt(k)'
        BY <2>4, SMT DEF ExpectedAt, Trained
      <3> QED BY <3>1, <3>2, Zenon
    <2> QED BY <1>1, <2>3, <2>4, Zenon
  <1>2. CASE SpawnLink
    <2>1. next \in Links /\ tpc[next] = "idle"
      BY <1>2, SpawnIs, SpawnedIdle, Zenon
    <2> QED BY <1>1, <1>2, <2>1, SpawnIs, Zenon
  <1>3. CASE Aside
    BY <1>1, <1>3, AsideIs, Zenon
  <1>4. ASSUME NEW l \in Links, TrainLoop(l), k # l PROVE StreamAt(k)' /\ ExpectedAt(k)'
    BY <1>1, <1>4, OthersKept, SetupKept, Zenon
  <1>5. CASE TrainLoop(k)
    BY <1>0, <1>5, StreamHere, ExpectedHere, Zenon
  <1> QED BY <1>2, <1>3, <1>4, <1>5, NextCases, Zenon

-----------------------------------------------------------------------------
\* Every step that streams an artifact is one of a test step.

LEMMA StreamNext == TypeInv /\ StreamInv /\ [Next]_vars => [Stream!Next]_out
  <1> SUFFICES ASSUME TypeInv, StreamInv, [Next]_vars PROVE Stream!Next \/ UNCHANGED out
    OBVIOUS
  <1>1. CASE SpawnLink
    BY <1>1, SpawnIs, Zenon
  <1>2. CASE Aside
    BY <1>2, AsideIs, Zenon
  <1>3. ASSUME NEW l \in Links, TrainLoop(l) PROVE Stream!Next \/ UNCHANGED out
    <2>0. StreamAt(l) /\ ExpectedAt(l)
      BY Zenon DEF StreamInv
    <2>w. \A a : Emit(l, a) <=> Stream!Write(l, a)
      BY Zenon DEF Emit, Stream!Write
    <2>r. out[l] # <<>> /\ ~StepOver(l) => Stream!Running(l)
      BY Zenon DEF Stream!Running, StepOver
    <2>t. ASSUME tpc[l] # "idle", tpc[l] # "record", tpc[l] # "ended"
          PROVE  /\ Stream!Running(l)
                 /\ \A s \in Checkers : Expected(s) => Stream!Measured(l, s) = seriesCnt[l][s]
                 /\ \A s \in FieldIds :
                      /\ Begun(l, s) <=> s \in Checkers /\ Expected(s) /\ (tpc[l] = "series" => s < at[l])
                      /\ Closed(l, s) <=> s \in Checkers /\ tpc[l] = "close" /\ s < at[l]
                 /\ Diagnosed(l) <=> tpc[l] = "restore" \/ tpc[l] = "close"
      BY <2>0, <2>r, <2>t, TestedFacts, Zenon
    <2>1. ASSUME NEW i \in Fields, StartSeries(l, i) PROVE Stream!Next \/ UNCHANGED out
      <3>1. tpc[l] = "series" /\ i \in Checkers /\ at[l] <= i /\ at[l] \in Nat /\ i \in Nat
            /\ i \in FieldIds
        BY <2>1, FieldStepsHere, LoopFacts, CheckerFacts, Zenon DEF StartSeriesHere, From
      <3>2. Stream!Running(l) /\ ~Begun(l, i)
        BY <2>t, <3>1, SMT
      <3>3. Emit(l, Stream!SeriesStart(i)) \/ UNCHANGED out
        BY <2>1, StreamsHere, Zenon
      <3>4. CASE Emit(l, Stream!SeriesStart(i))
        <4>1. Stream!StartSeries(l, i)
          BY <2>w, <3>2, <3>4, Zenon DEF Stream!StartSeries, Begun
        <4> QED BY <3>1, <4>1, Zenon DEF Stream!Next
      <3> QED BY <3>3, <3>4, Zenon
    <2>2. ASSUME NEW i \in Fields, CheckField(l, i) PROVE Stream!Next \/ UNCHANGED out
      <3>1. (tpc[l] = "initial" \/ tpc[l] = "check") /\ i \in Checkers /\ i \in FieldIds
        BY <2>2, FieldStepsHere, LoopFacts, CheckerFacts, Zenon DEF CheckFieldHere, From
      <3>2. CASE Expected(i)
        <4>1. Emit(l, Stream!Element(i, seriesCnt[l][i]))
          BY <2>2, <3>2, StreamsHere, Zenon
        <4>2. /\ Stream!Running(l) /\ Begun(l, i) /\ ~Closed(l, i)
              /\ Stream!Measured(l, i) = seriesCnt[l][i]
          BY <2>t, <3>1, <3>2, SMT
        <4>3. Stream!Write(l, Stream!Element(i, Stream!Measured(l, i)))
          BY <2>w, <4>1, <4>2, Zenon
        <4>4. Stream!Measure(l, i)
          BY <4>2, <4>3, Zenon DEF Stream!Measure, Stream!Open, Begun, Closed
        <4> QED BY <3>1, <4>4, Zenon DEF Stream!Next
      <3>3. CASE ~Expected(i)
        BY <2>2, <3>3, StreamsHere, Zenon
      <3> QED BY <3>2, <3>3, Zenon
    <2>3. ASSUME NEW i \in Fields, EndSeries(l, i) PROVE Stream!Next
      <3>1. tpc[l] = "close" /\ i \in Checkers /\ i \in FieldIds /\ at[l] <= i /\ at[l] \in Nat /\ i \in Nat
        BY <2>3, FieldStepsHere, LoopFacts, CheckerFacts, Zenon DEF EndSeriesHere, From
      <3>2. Expected(i)
        BY <2>0, <3>1, SMT DEF ExpectedAt, Trained
      <3>3. Emit(l, Stream!SeriesEnd(i, seriesCnt[l][i]))
        BY <2>3, StreamsHere, Zenon
      <3>4. /\ Stream!Running(l) /\ Begun(l, i) /\ ~Closed(l, i)
            /\ Stream!Measured(l, i) = seriesCnt[l][i]
        BY <2>t, <3>1, <3>2, SMT
      <3>5. Stream!Write(l, Stream!SeriesEnd(i, Stream!Measured(l, i)))
        BY <2>w, <3>3, <3>4, Zenon
      <3>6. Stream!EndSeries(l, i)
        BY <3>4, <3>5, Zenon DEF Stream!EndSeries, Stream!Open, Begun, Closed
      <3> QED BY <3>1, <3>6, Zenon DEF Stream!Next
    <2>4. CASE Record(l)
      <3>1. tpc[l] = "record" /\ Stream!Write(l, Stream!StepStart)
        BY <2>4, <2>w, LinkStepsHere, StreamsHere, Zenon DEF RecordHere, From
      <3>2. out[l] = <<>>
        BY <2>0, <3>1, SMT DEF StreamAt
      <3> QED BY <3>1, <3>2, Zenon DEF Stream!Next, Stream!Start
    <2>5. CASE InitialFails(l) \/ Verdict(l)
      <3>1. tpc[l] = "initial" \/ tpc[l] = "verdict" \/ tpc[l] = "train"
        BY <2>5, LinkStepsHere, Zenon DEF InitialFailsHere, VerdictHere, From
      <3>2. \E type \in {"PASS", "FAIL"} : Stream!Write(l, Stream!Diagnosis(type))
        BY <2>5, <2>w, StreamsHere, Zenon
      <3>3. Stream!Running(l) /\ ~Diagnosed(l)
        BY <2>t, <3>1, SMT
      <3>4. Stream!Diagnose(l)
        BY <3>2, <3>3, Zenon DEF Stream!Diagnose, Diagnosed
      <3> QED BY <3>4, Zenon DEF Stream!Next
    <2>6. CASE EndStep(l)
      <3>1. tpc[l] = "close" /\ Stream!Write(l, Stream!StepEnd) /\ \A j \in Checkers : j < at[l]
        BY <2>6, <2>w, LinkStepsHere, LoopFacts, StreamsHere, Zenon DEF EndStepHere, From
      <3>2. /\ Stream!Running(l) /\ Diagnosed(l)
            /\ \A s \in FieldIds : Begun(l, s) => Closed(l, s)
        BY <2>t, <3>1, SMT
      <3>3. Stream!End(l)
        BY <3>1, <3>2, Zenon DEF Stream!End, Stream!Open, Diagnosed, Begun, Closed
      <3> QED BY <3>3, Zenon DEF Stream!Next
    <2> QED BY <1>3, <2>1, <2>2, <2>3, <2>4, <2>5, <2>6, StreamsHere, Zenon DEF TrainLoop
  <1> QED BY <1>1, <1>2, <1>3, NextCases, Zenon

\* The artifacts of each link form a test step: started first, each series started before its
\* elements, these numbered without a gap and counted at its end, one diagnosis, and the end after
\* all series (linktrain.go:430, 444, 578, 594).
THEOREM StreamsFormSteps == Spec => StreamsWellFormed
  <1>1. Init => Stream!Init
    BY Zenon DEF Init, Stream!Init
  <1>2. Inv /\ StreamInv /\ [Next]_vars => (Inv /\ StreamInv)'
    BY InvStep, StreamKept, Zenon DEF Inv
  <1>3. Inv /\ StreamInv /\ [Next]_vars => [Stream!Next]_out
    BY StreamNext, Zenon DEF Inv
  <1>4. Init => Inv /\ StreamInv
    BY InvInit, StreamInit, Zenon
  <1> QED BY <1>1, <1>2, <1>3, <1>4, PTL DEF Spec, StreamsWellFormed, Stream!Spec
=============================================================================
