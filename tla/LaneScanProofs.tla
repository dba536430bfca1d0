--------------------------- MODULE LaneScanProofs ---------------------------
(***************************************************************************)
(* Proof that a scan of the eye (scanEye, LaneTest.tla) brackets its edge  *)
(* on both sides, for every capability, spec and eye.                      *)
(***************************************************************************)
EXTENDS LaneTestProofs

-----------------------------------------------------------------------------
\* The inductive invariant, by parts.

ScanMode == rng.mode \in {"target", "eyeScan"}

\* A scan's range, which its offsets keep to.
ReachInv ==
  /\ pc = "prepare" => ~ScanMode /\ passAt = [s \in Sides |-> None] /\ failAt = [s \in Sides |-> None]
  /\ pc \in {"eyePos", "eyeNeg"} => ~ScanMode
  /\ ScanMode => /\ rng.start \in 0 .. rng.target /\ rng.target \in 0 .. NumSteps
                 /\ rng.step \in Nat /\ rng.step >= 1
  /\ pc \in {"scanPos", "scanNeg"} => ScanMode /\ offset \in 0 .. rng.target

\* How far the receiver passes on a side.
Edge(s) == PassesTo(IF s = "pos" THEN 0 ELSE DirMask)

\* What the marks of a side say.
Marked(s) ==
  /\ passAt[s] # None => passAt[s] <= Edge(s)
  /\ failAt[s] # None => /\ failAt[s] > Edge(s)
                         /\ IF passAt[s] = None THEN failAt[s] = rng.start
                            ELSE failAt[s] <= passAt[s] + rng.step

\* A side that has not failed yet has passed a step before the offset at most, or at the offset.
Ahead(s) ==
  failAt[s] = None => IF passAt[s] = None THEN offset = rng.start ELSE offset <= passAt[s] + rng.step
Behind(s) == failAt[s] = None => passAt[s] = offset

\* Where the sides are in an iteration of the loop. The negative side of a receiver that does
\* not margin the two independently fails when the positive one does.
ScanPosInv ==
  pc = "scanPos" =>
    /\ Ahead("pos") /\ Ahead("neg")
    /\ ~indDir => (failAt["neg"] = None <=> failAt["pos"] = None)
ScanNegInv ==
  pc = "scanNeg" =>
    /\ Behind("pos") /\ Ahead("neg") /\ (passPos <=> failAt["pos"] = None)
    /\ ~indDir /\ failAt["neg"] # None => failAt["pos"] # None
    /\ ~indDir /\ failAt["neg"] = None /\ failAt["pos"] # None => failAt["pos"] = offset
ScanEndInv ==
  pc \in {"output", "done"} => \A s \in Sides : failAt[s] = None => passAt[s] = rng.target

MarksInv ==
  faults = 0 /\ ScanMode =>
    (\A s \in Sides : Marked(s)) /\ ScanPosInv /\ ScanNegInv /\ ScanEndInv

ScanInv == ReachInv /\ MarksInv
-----------------------------------------------------------------------------
\* The range of a scan lies within the lane's capability.
LEMMA ScanFacts ==
  ASSUME NEW s \in SpecType, NEW r, r = ScanRange(s, NumSteps)
  PROVE  /\ r.start \in 0 .. r.target /\ r.target \in 0 .. NumSteps
         /\ r.step \in Nat /\ r.step >= 1
  <1>1. /\ s.start = None \/ s.start \in Nat
        /\ s.target = None \/ s.target \in Nat
        /\ s.start \in Int /\ s.step \in Int /\ s.target \in Int
    BY SMT DEF SpecType, Optional, None
  <1>2. NumSteps \in Nat /\ NumSteps < WordSize
    BY ConstantsAssumption, WordSizeType, DirMaskType, SMT
  <1>3. U16(NumSteps) = NumSteps
    BY <1>2, U16Same, Zenon
  <1>4. ScanTarget(s, NumSteps) \in 0 .. NumSteps
    <2>1. CASE s.target = None
      <3>1. ScanTarget(s, NumSteps) = 0 \/ ScanTarget(s, NumSteps) = NumSteps
        BY <1>3, <2>1, Zenon DEF ScanTarget
      <3> QED BY <1>2, <3>1, SMT
    <2>2. CASE s.target # None /\ s.target > NumSteps
      <3>1. ScanTarget(s, NumSteps) = NumSteps
        BY <1>3, <2>2, Zenon DEF ScanTarget
      <3> QED BY <1>2, <3>1, SMT
    <2>3. CASE s.target # None /\ ~(s.target > NumSteps)
      <3>1. s.target \in Nat /\ s.target < WordSize /\ s.target \in 0 .. NumSteps
        BY <1>1, <1>2, <2>3, WordSizeType, SMT
      <3>2. U16(s.target) = s.target
        BY <3>1, U16Same, Zenon
      <3> QED BY <2>3, <3>1, <3>2, Zenon DEF ScanTarget
    <2> QED BY <2>1, <2>2, <2>3, Zenon
  <1>5. ScanStart(s, NumSteps) \in 0 .. ScanTarget(s, NumSteps)
    <2> DEFINE target == ScanTarget(s, NumSteps)
    <2>1. target \in 0 .. NumSteps
      BY <1>4, Zenon
    <2>2. U16(s.start) \in Nat
      <3>1. U16(s.start) \in OffsetType
        BY <1>1, U16Type, Zenon
      <3> QED BY <3>1, WordSizeType, SMT DEF OffsetType
    <2>3. ScanStart(s, NumSteps) = IF s.start = None \/ U16(s.start) > target THEN target ELSE U16(s.start)
      BY Zenon DEF ScanStart
    <2> HIDE DEF target
    <2>4. ScanStart(s, NumSteps) \in 0 .. target
      BY <1>2, <2>1, <2>2, <2>3, SMT
    <2> QED BY <2>4, Zenon DEF target
  <1>6. StepOf(s) \in Nat /\ StepOf(s) >= 1
    <2>1. U16(s.step) \in OffsetType
      BY <1>1, U16Type, Zenon
    <2>2. U16(s.step) \in Nat
      BY <2>1, WordSizeType, SMT DEF OffsetType
    <2> QED BY <2>2, SMT DEF StepOf
  <1>7. r.start = ScanStart(s, NumSteps) /\ r.target = ScanTarget(s, NumSteps) /\ r.step = StepOf(s)
    BY Zenon DEF ScanRange
  <1> QED BY <1>4, <1>5, <1>6, <1>7, Zenon

\* How far a receiver passes, by the side.
LEMMA EdgeIs ==
  ASSUME TypeOK
  PROVE  /\ Edge("pos") \in Int /\ Edge("neg") \in Int /\ ("pos" # "neg")
         /\ \A o \in Nat : o < DirMask => PassesTo(Payload(o)) = Edge("pos")
                                          /\ PassesTo(Payload(WithDir(o))) = Edge("neg")
         /\ ~indDir => Edge("pos") = Edge("neg")
  <1>1. eye.pos \in Int /\ eye.neg \in Int
    BY SMT DEF TypeOK, EyeType
  <1>2. 0 \in Nat /\ 0 < DirMask /\ 0 + DirMask = DirMask
    BY DirMaskType, SMT
  <1>3. ~IsNeg(0) /\ IsNeg(WithDir(0))
    BY <1>2, SmallOffset, Zenon
  <1>4. IsNeg(DirMask)
    BY <1>2, <1>3, Zenon DEF WithDir
  <1>5. "pos" # "neg"
    BY SMT
  <1>6. Edge("pos") = PassesTo(0) /\ Edge("neg") = PassesTo(DirMask)
    BY <1>5, Zenon DEF Edge
  <1>7. PassesTo(0) \in Int /\ PassesTo(DirMask) \in Int
    BY <1>1, Zenon DEF PassesTo
  <1>8. ASSUME NEW o \in Nat, o < DirMask
        PROVE  PassesTo(Payload(o)) = PassesTo(0) /\ PassesTo(Payload(WithDir(o))) = PassesTo(DirMask)
    <2>1. ~IsNeg(Payload(o)) /\ IsNeg(Payload(WithDir(o)))
      BY <1>8, SmallOffset, Zenon
    <2> QED BY <1>3, <1>4, <2>1, Zenon DEF PassesTo
  <1>9. ~indDir => PassesTo(0) = PassesTo(DirMask)
    BY Zenon DEF PassesTo
  <1> QED BY <1>5, <1>6, <1>7, <1>8, <1>9, Zenon

\* Without a fault a point within the lane's capability passes if it is within the eye.
LEMMA PointPasses ==
  ASSUME TypeOK, NEW o \in Nat, o <= NumSteps
  PROVE  /\ o < DirMask /\ StepsOf(o) = o /\ StepsOf(WithDir(o)) = o
         /\ Passes(ReceiverStatus(Payload(o))) <=> o <= Edge("pos")
         /\ Passes(ReceiverStatus(Payload(WithDir(o)))) <=> o <= Edge("neg")
  <1>1. o < DirMask
    BY ConstantsAssumption, SMT
  <1>2. /\ StepsOf(o) = o /\ StepsOf(WithDir(o)) = o
        /\ Payload(o) = o /\ Payload(WithDir(o)) = WithDir(o)
    BY <1>1, SmallOffset, Zenon
  <1>3. PassesTo(o) = Edge("pos") /\ PassesTo(WithDir(o)) = Edge("neg")
    BY <1>1, <1>2, EdgeIs, Zenon
  <1>4. /\ ReceiverStatus(o) = IF o > NumSteps THEN "NAK"
                               ELSE IF o <= Edge("pos") THEN "MARGINING" ELSE "ERROR_OUT"
        /\ ReceiverStatus(WithDir(o)) = IF o > NumSteps THEN "NAK"
                                        ELSE IF o <= Edge("neg") THEN "MARGINING" ELSE "ERROR_OUT"
    BY <1>2, <1>3, Zenon DEF ReceiverStatus
  <1>5. ~(o > NumSteps)
    BY ConstantsAssumption, SMT
  <1>6. "ERROR_OUT" # "MARGINING"
    BY SMT
  <1> QED BY <1>1, <1>2, <1>4, <1>5, <1>6, Zenon DEF Passes

-----------------------------------------------------------------------------
\* The range is kept to.

LEMMA AdvanceReach ==
  ASSUME TypeOK, ReachInv, ScanMode, offset \in 0 .. rng.target, NEW p, NEW n, Advance(p, n)
  PROVE  /\ pc' = "scanPos" => /\ offset' \in 0 .. rng.target /\ offset' <= offset + rng.step
                               /\ offset < rng.target
         /\ pc' = "scanPos" \/ pc' = "output"
         /\ pc' = "output" => offset = rng.target \/ (~p /\ ~n)
  <1>1. rng.target \in Nat /\ offset \in Nat /\ rng.step \in Nat /\ offset <= rng.target
    BY ConstantsAssumption, SMT DEF ReachInv
  <1> DEFINE o == U16(offset + rng.step)
  <1>2. o \in Nat /\ o <= offset + rng.step
    <2>1. offset + rng.step \in Nat
      BY <1>1, SMT
    <2>2. \A k \in Nat : U16(k) \in Nat /\ U16(k) <= k
      BY SMT DEF U16, WordSize
    <2> QED BY <2>1, <2>2, Zenon
  <1>3. \/ /\ pc' = "output" /\ (offset >= rng.target \/ (~p /\ ~n))
        \/ /\ pc' = "scanPos" /\ ~(offset >= rng.target)
           /\ offset' = IF o > rng.target THEN rng.target ELSE o
    BY Zenon DEF Advance
  <1>4. "output" # "scanPos"
    BY SMT
  <1> HIDE DEF o
  <1>5. CASE pc' = "output"
    <2>1. offset = rng.target \/ (~p /\ ~n)
      <3>1. offset >= rng.target => offset = rng.target
        BY <1>1, SMT
      <3> QED BY <1>3, <1>4, <1>5, <3>1, Zenon
    <2> QED BY <1>4, <1>5, <2>1, Zenon
  <1>6. CASE pc' = "scanPos"
    <2>1. ~(offset >= rng.target) /\ offset' = IF o > rng.target THEN rng.target ELSE o
      BY <1>3, <1>4, <1>6, Zenon
    <2>2. offset' \in 0 .. rng.target /\ offset' <= offset + rng.step /\ offset < rng.target
      BY <1>1, <1>2, <2>1, SMT
    <2> QED BY <1>4, <1>6, <2>2, Zenon
  <1> QED BY <1>3, <1>5, <1>6, Zenon

LEMMA ReachStep ==
  ASSUME TypeOK, ReachInv, [Next]_vars
  PROVE  ReachInv'
  <1>1. NumSteps \in Nat /\ spec \in SpecType
    BY ConstantsAssumption, Zenon DEF TypeOK
  <1>2. CASE UNCHANGED vars
    BY <1>2, Zenon DEF vars, ReachInv, ScanMode
  <1>3. CASE SkipEmpty \/ SetErrLimitFails
    <2>1. rng' = rng /\ pc = "prepare" /\ (pc' = "skipped" \/ pc' = "aborted")
      BY <1>3, Zenon DEF SkipEmpty, SetErrLimitFails
    <2>2. ~ScanMode /\ ~ScanMode'
      BY <2>1, Zenon DEF ReachInv, ScanMode
    <2> QED BY <2>1, <2>2, SMT DEF ReachInv
  <1>4. CASE DetermineMarginRange
    <2>1. /\ rng' = MarginRangeOf(spec, NumSteps)
          /\ IF rng'.mode = "eyeSize" THEN pc' = "eyePos" ELSE pc' = "scanPos" /\ offset' = rng'.start
      BY <1>4, Zenon DEF DetermineMarginRange
    <2>2. CASE EyeSizeMode(spec)
      <3>1. rng'.mode = "eyeSize"
        BY <2>1, <2>2, Zenon DEF MarginRangeOf, EyeSizeRange
      <3>2. pc' = "eyePos" /\ ~ScanMode'
        BY <2>1, <3>1, SMT DEF ScanMode
      <3> QED BY <3>2, SMT DEF ReachInv
    <2>3. CASE ~EyeSizeMode(spec)
      <3>1. rng' = ScanRange(spec, NumSteps)
        BY <2>1, <2>3, Zenon DEF MarginRangeOf
      <3>2. /\ rng'.start \in 0 .. rng'.target /\ rng'.target \in 0 .. NumSteps
            /\ rng'.step \in Nat /\ rng'.step >= 1
        BY <1>1, <3>1, ScanFacts, Zenon
      <3>3. rng'.mode = "target" \/ rng'.mode = "eyeScan"
        BY <3>1, Zenon DEF ScanRange
      <3>4. ScanMode' /\ rng'.mode # "eyeSize"
        BY <3>3, SMT DEF ScanMode
      <3>5. pc' = "scanPos" /\ offset' = rng'.start
        BY <2>1, <3>4, Zenon
      <3>6. pc' # "prepare" /\ pc' \notin {"eyePos", "eyeNeg"}
        BY <3>5, SMT
      <3> QED BY <3>2, <3>4, <3>5, <3>6, Zenon DEF ReachInv
    <2> QED BY <2>2, <2>3, Zenon
  <1>5. CASE TestEyeSize
    <2>1. rng' = rng /\ (pc = "eyePos" \/ pc = "eyeNeg")
      BY <1>5, Zenon DEF TestEyeSize, EyeBoth, EyePosPasses, EyePosFails, EyeNegPasses, EyeNegFails
    <2>2. pc' = "output" \/ pc' = "eyeNeg" \/ pc' = "eyePos"
      <3>1. pc = "eyePos" \/ pc = "eyeNeg"
        BY <2>1, Zenon
      <3> QED BY <1>5, <3>1, Zenon DEF TestEyeSize, EyeBoth, EyePosPasses, EyePosFails, EyeNegPasses, EyeNegFails, LeavePos
    <2>3. ~ScanMode
      BY <2>1, SMT DEF ReachInv
    <2>4. ~ScanMode'
      BY <2>1, <2>3, Zenon DEF ScanMode
    <2> QED BY <2>2, <2>4, SMT DEF ReachInv
  <1>6. CASE ScanPosSkipped \/ ScanPosMargins
    <2>1. rng' = rng /\ offset' = offset /\ pc = "scanPos" /\ pc' = "scanNeg"
      BY <1>6, Zenon DEF ScanPosSkipped, ScanPosMargins
    <2>2. ScanMode' <=> ScanMode
      BY <2>1, Zenon DEF ScanMode
    <2> QED BY <2>1, <2>2, SMT DEF ReachInv
  <1>7. CASE ScanNegFollows \/ ScanNegMargins
    <2>1. rng' = rng /\ pc = "scanNeg" /\ \E p, n : Advance(p, n)
      BY <1>7, Zenon DEF ScanNegFollows, ScanNegMargins
    <2>2. ScanMode' <=> ScanMode
      BY <2>1, Zenon DEF ScanMode
    <2>3. ScanMode /\ offset \in 0 .. rng.target
      BY <2>1, SMT DEF ReachInv
    <2>4. (pc' = "scanPos" => offset' \in 0 .. rng.target) /\ (pc' = "scanPos" \/ pc' = "output")
      BY <2>1, <2>3, AdvanceReach, Zenon
    <2>5. pc' # "prepare" /\ pc' \notin {"eyePos", "eyeNeg"} /\ (pc' \in {"scanPos", "scanNeg"} => pc' = "scanPos")
      BY <2>4, SMT
    <2> QED BY <2>1, <2>2, <2>3, <2>4, <2>5, Zenon DEF ReachInv
  <1>8. CASE OutputEyeMeasurement
    <2>1. rng' = rng /\ pc' = "done"
      BY <1>8, Zenon DEF OutputEyeMeasurement
    <2>2. ScanMode' <=> ScanMode
      BY <2>1, Zenon DEF ScanMode
    <2> QED BY <2>1, <2>2, SMT DEF ReachInv
  <1> QED BY <1>2, <1>3, <1>4, <1>5, <1>6, <1>7, <1>8, Zenon DEF Next, ScanEye

-----------------------------------------------------------------------------
\* The marks.

LEMMA MarkTypes ==
  ASSUME TypeOK, ReachInv, ScanMode
  PROVE  /\ \A s \in Sides : passAt[s] \in Int /\ failAt[s] \in Int /\ (passAt[s] = None \/ passAt[s] \in Nat)
         /\ rng.start \in Nat /\ rng.target \in Nat /\ rng.step \in Nat /\ rng.target <= NumSteps
         /\ rng.start <= rng.target /\ NumSteps \in Nat /\ None \notin Nat
  <1>1. \A m \in MarkType : m \in Int /\ (m = None \/ m \in Nat)
    BY WordSizeType, SMT DEF MarkType, None
  <1>2. \A s \in Sides : passAt[s] \in MarkType /\ failAt[s] \in MarkType
    BY Zenon DEF TypeOK
  <1>3. NumSteps \in Nat /\ None \notin Nat
    BY ConstantsAssumption, SMT DEF None
  <1>4. /\ rng.start \in Nat /\ rng.target \in Nat /\ rng.step \in Nat /\ rng.target <= NumSteps
        /\ rng.start <= rng.target
    BY <1>3, SMT DEF ReachInv
  <1> QED BY <1>1, <1>2, <1>3, <1>4, Zenon

\* A point is recorded on a side that has not failed, and passes within the eye only.
LEMMA RecordMakes ==
  ASSUME TypeOK, ReachInv, ScanMode, NEW s \in Sides, failAt[s] = None, Marked(s), Ahead(s), Edge(s) \in Int,
         offset \in Nat, NEW passed, passed <=> offset <= Edge(s), Record(s, passed, offset)
  PROVE  /\ passAt'[s] # None => passAt'[s] <= Edge(s)
         /\ failAt'[s] # None =>
              /\ failAt'[s] > Edge(s)
              /\ IF passAt'[s] = None THEN failAt'[s] = rng.start ELSE failAt'[s] <= passAt'[s] + rng.step
         /\ passed => failAt'[s] = None /\ passAt'[s] = offset
         /\ ~passed => failAt'[s] = offset
         /\ \A q \in Sides : q # s => passAt'[q] = passAt[q] /\ failAt'[q] = failAt[q]
  <1>0. passAt \in [Sides -> MarkType] /\ failAt \in [Sides -> MarkType] /\ offset # None
    BY MarkTypes, Zenon DEF TypeOK
  <1>1. CASE passed
    <2>1. passAt' = [passAt EXCEPT ![s] = offset] /\ failAt' = failAt
      BY <1>1, Zenon DEF Record
    <2>2. passAt'[s] = offset /\ \A q \in Sides : q # s => passAt'[q] = passAt[q]
      BY <1>0, <2>1, Zenon
    <2> QED BY <1>1, <2>1, <2>2, Zenon
  <1>2. CASE ~passed
    <2>1. failAt' = [failAt EXCEPT ![s] = offset] /\ passAt' = passAt
      BY <1>2, Zenon DEF Record
    <2>2. failAt'[s] = offset /\ \A q \in Sides : q # s => failAt'[q] = failAt[q]
      BY <1>0, <2>1, Zenon
    <2>3. offset > Edge(s)
      BY <1>2, SMT
    <2>4. IF passAt[s] = None THEN offset = rng.start ELSE offset <= passAt[s] + rng.step
      BY Zenon DEF Ahead
    <2> QED BY <1>2, <2>1, <2>2, <2>3, <2>4, Zenon DEF Marked
  <1> QED BY <1>1, <1>2, Zenon

\* What is left as it was.
LEMMA EdgeSame ==
  ASSUME eye' = eye, indDir' = indDir
  PROVE  \A s : Edge(s)' = Edge(s)
  BY Zenon DEF Edge, PassesTo

LEMMA MarkedSame ==
  ASSUME eye' = eye, indDir' = indDir, rng' = rng, NEW s, passAt'[s] = passAt[s], failAt'[s] = failAt[s], Marked(s)
  PROVE  Marked(s)'
  BY EdgeSame, Zenon DEF Marked

\* What a step leaves, of what the marks are of.
LEMMA ConfigSame ==
  ASSUME [Next]_vars
  PROVE  eye' = eye /\ indDir' = indDir /\ spec' = spec
  BY Zenon DEF Next, vars, SkipEmpty, SetErrLimitFails, DetermineMarginRange, TestEyeSize, ScanEye, EyeBoth,
               EyePosPasses, EyePosFails, EyeNegPasses, EyeNegFails, ScanPosSkipped, ScanPosMargins,
               ScanNegFollows, ScanNegMargins, OutputEyeMeasurement, config

\* Where the range is determined there are no marks yet.
LEMMA MarksStart ==
  ASSUME TypeOK, ReachInv, DetermineMarginRange, ScanMode'
  PROVE  MarksInv'
  <1>1. /\ pc = "prepare" /\ passAt' = passAt /\ failAt' = failAt
        /\ IF rng'.mode = "eyeSize" THEN pc' = "eyePos" ELSE pc' = "scanPos" /\ offset' = rng'.start
    BY Zenon DEF DetermineMarginRange, marks
  <1>2. rng'.mode # "eyeSize"
    BY SMT DEF ScanMode
  <1>3. pc' = "scanPos" /\ offset' = rng'.start
    BY <1>1, <1>2, Zenon
  <1>4. \A s \in Sides : passAt'[s] = None /\ failAt'[s] = None
    BY <1>1, Zenon DEF ReachInv
  <1>5. \A s \in Sides : Marked(s)'
    BY <1>4, Zenon DEF Marked
  <1>6. Ahead("pos")' /\ Ahead("neg")' /\ failAt'["neg"] = None /\ failAt'["pos"] = None
    BY <1>3, <1>4, SidesAre, Zenon DEF Ahead
  <1>7. ScanPosInv'
    BY <1>6, Zenon DEF ScanPosInv
  <1>8. pc' # "scanNeg" /\ pc' \notin {"output", "done"}
    BY <1>3, SMT
  <1> QED BY <1>5, <1>7, <1>8, Zenon DEF MarksInv, ScanNegInv, ScanEndInv

\* The positive side of an iteration, on a side that has failed.
LEMMA MarksSkip ==
  ASSUME TypeOK, ReachInv, MarksInv, ScanPosSkipped, faults' = 0
  PROVE  MarksInv'
  <1>1. /\ pc = "scanPos" /\ failAt["pos"] # None /\ passPos' = FALSE /\ pc' = "scanNeg"
        /\ eye' = eye /\ indDir' = indDir /\ faults = 0 /\ rng' = rng /\ offset' = offset
        /\ passAt' = passAt /\ failAt' = failAt
    BY Zenon DEF ScanPosSkipped, config, marks
  <1>2. ScanMode
    <2>1. pc \in {"scanPos", "scanNeg"}
      BY <1>1, SMT
    <2> QED BY <2>1, Zenon DEF ReachInv
  <1>3. (\A s \in Sides : Marked(s)) /\ ScanPosInv
    BY <1>1, <1>2, Zenon DEF MarksInv
  <1>4. \A s \in Sides : Marked(s)'
    BY <1>1, <1>3, MarkedSame, Zenon
  <1>5. Ahead("pos") /\ Ahead("neg") /\ (~indDir => (failAt["neg"] = None <=> failAt["pos"] = None))
    BY <1>1, <1>3, Zenon DEF ScanPosInv
  <1>6. Behind("pos")' /\ Ahead("neg")'
    BY <1>1, <1>5, Zenon DEF Behind, Ahead
  <1>7. ScanNegInv'
    BY <1>1, <1>5, <1>6, Zenon DEF ScanNegInv
  <1>8. pc' # "scanPos" /\ pc' \notin {"output", "done"}
    BY <1>1, SMT
  <1> QED BY <1>4, <1>7, <1>8, Zenon DEF MarksInv, ScanPosInv, ScanEndInv

\* The positive side of an iteration, margined.
LEMMA MarksPos ==
  ASSUME TypeOK, ReachInv, MarksInv, ScanPosMargins, faults' = 0
  PROVE  MarksInv'
  <1>1. /\ pc = "scanPos" /\ failAt["pos"] = None /\ pc' = "scanNeg"
        /\ eye' = eye /\ indDir' = indDir /\ rng' = rng /\ offset' = offset
    BY Zenon DEF ScanPosMargins, config
  <1>2. PICK status : Judge(offset, status) /\ passPos' = Passes(status)
                      /\ Record("pos", Passes(status), StepsOf(offset))
    BY Zenon DEF ScanPosMargins
  <1>3. faults = 0 /\ status = ReceiverStatus(Payload(offset))
    BY <1>2, PlainJudge, Zenon
  <1>4. ScanMode /\ offset \in 0 .. rng.target
    <2>1. pc \in {"scanPos", "scanNeg"}
      BY <1>1, SMT
    <2> QED BY <2>1, Zenon DEF ReachInv
  <1>5. offset \in Nat /\ offset <= NumSteps
    BY <1>4, MarkTypes, SMT
  <1>6. (\A s \in Sides : Marked(s)) /\ ScanPosInv
    BY <1>3, <1>4, Zenon DEF MarksInv
  <1>7. Ahead("pos") /\ Ahead("neg") /\ (~indDir => (failAt["neg"] = None <=> failAt["pos"] = None))
    BY <1>1, <1>6, Zenon DEF ScanPosInv
  <1>8. StepsOf(offset) = offset /\ (Passes(status) <=> offset <= Edge("pos"))
    BY <1>3, <1>5, PointPasses, Zenon
  <1>9. Edge("pos") \in Int /\ "pos" # "neg"
    BY EdgeIs, Zenon
  <1>10. Record("pos", Passes(status), offset)
    BY <1>2, <1>8, Zenon
  <1> DEFINE passed == Passes(status)
  <1>11. passed <=> offset <= Edge("pos")
    BY <1>8, Zenon
  <1>12. Record("pos", passed, offset) /\ passPos' = passed
    BY <1>2, <1>10, Zenon
  <1> HIDE DEF passed
  <1>13. /\ passAt'["pos"] # None => passAt'["pos"] <= Edge("pos")
         /\ failAt'["pos"] # None =>
              /\ failAt'["pos"] > Edge("pos")
              /\ IF passAt'["pos"] = None THEN failAt'["pos"] = rng.start
                 ELSE failAt'["pos"] <= passAt'["pos"] + rng.step
         /\ passed => failAt'["pos"] = None /\ passAt'["pos"] = offset
         /\ ~passed => failAt'["pos"] = offset
         /\ \A q \in Sides : q # "pos" => passAt'[q] = passAt[q] /\ failAt'[q] = failAt[q]
    BY <1>1, <1>4, <1>5, <1>6, <1>7, <1>9, <1>11, <1>12, SidesAre, RecordMakes, Zenon
  <1>14. offset # None
    BY <1>5, MarkTypes, <1>4, Zenon
  <1>15. passAt'["neg"] = passAt["neg"] /\ failAt'["neg"] = failAt["neg"]
    BY <1>9, <1>13, SidesAre, Zenon
  <1>16. Marked("pos")'
    BY <1>1, <1>13, EdgeSame, Zenon DEF Marked
  <1>17. \A s \in Sides : Marked(s)'
    BY <1>1, <1>6, <1>13, <1>16, MarkedSame, Zenon
  <1>18. Behind("pos")' /\ Ahead("neg")' /\ (passPos' <=> failAt'["pos"] = None)
    BY <1>1, <1>7, <1>12, <1>13, <1>14, <1>15, Zenon DEF Behind, Ahead
  <1>19. failAt'["pos"] # None => failAt'["pos"] = offset
    BY <1>13, Zenon
  <1>20. ScanNegInv'
    BY <1>1, <1>7, <1>15, <1>18, <1>19, Zenon DEF ScanNegInv
  <1>21. pc' # "scanPos" /\ pc' \notin {"output", "done"}
    BY <1>1, SMT
  <1> QED BY <1>17, <1>20, <1>21, Zenon DEF MarksInv, ScanPosInv, ScanEndInv

\* The end of an iteration: the next one, or the end of the scan.
LEMMA MarksTurn ==
  ASSUME TypeOK, ReachInv, ScanMode, offset \in 0 .. rng.target, rng' = rng, indDir' = indDir,
         NEW p, NEW n, Advance(p, n),
         \A s \in Sides : Marked(s)' /\ (failAt'[s] = None => passAt'[s] = offset),
         ~p => failAt'["pos"] # None, ~n => failAt'["neg"] # None,
         ~indDir => (failAt'["neg"] = None <=> failAt'["pos"] = None)
  PROVE  MarksInv'
  <1>1. /\ pc' = "scanPos" => offset' \in 0 .. rng.target /\ offset' <= offset + rng.step
        /\ pc' = "scanPos" \/ pc' = "output"
        /\ pc' = "output" => offset = rng.target \/ (~p /\ ~n)
    BY AdvanceReach, Zenon
  <1>2. offset # None
    <2>1. offset \in Nat
      BY MarkTypes, SMT
    <2> QED BY <2>1, MarkTypes, Zenon
  <1>3. "scanPos" # "scanNeg" /\ "output" # "scanNeg" /\ "output" # "scanPos" /\ "done" # "scanPos" /\ "done" # "output"
    BY SMT
  <1>4. ScanPosInv'
    <2> SUFFICES ASSUME pc' = "scanPos" PROVE ScanPosInv'
      BY Zenon DEF ScanPosInv
    <2>1. \A s \in Sides : failAt'[s] = None => passAt'[s] # None /\ offset' <= passAt'[s] + rng.step
      BY <1>1, <1>2, Zenon
    <2>2. Ahead("pos")' /\ Ahead("neg")'
      BY <2>1, SidesAre, Zenon DEF Ahead
    <2> QED BY <2>2, Zenon DEF ScanPosInv
  <1>5. ScanNegInv'
    BY <1>1, <1>3, Zenon DEF ScanNegInv
  <1>6. ScanEndInv'
    <2> SUFFICES ASSUME pc' \in {"output", "done"}, NEW s \in Sides, failAt'[s] = None
                 PROVE  passAt'[s] = rng.target
      BY Zenon DEF ScanEndInv
    <2>1. pc' = "output"
      BY <1>1, <1>3, Zenon
    <2>2. s = "pos" \/ s = "neg"
      BY Zenon DEF Sides
    <2>3. offset = rng.target
      BY <1>1, <2>1, <2>2, Zenon
    <2> QED BY <2>3, Zenon
  <1> QED BY <1>4, <1>5, <1>6, Zenon DEF MarksInv

\* The negative side of an iteration that takes the outcome of the positive one.
LEMMA MarksFollow ==
  ASSUME TypeOK, ReachInv, MarksInv, ScanNegFollows, faults' = 0
  PROVE  MarksInv'
  <1>1. /\ pc = "scanNeg" /\ (~indDir \/ failAt["neg"] # None)
        /\ Record("neg", passPos, StepsOf(offset)) /\ Advance(passPos, passPos)
        /\ eye' = eye /\ indDir' = indDir /\ rng' = rng /\ faults = 0
    BY Zenon DEF ScanNegFollows, config
  <1>2. ScanMode /\ offset \in 0 .. rng.target
    <2>1. pc \in {"scanPos", "scanNeg"}
      BY <1>1, SMT
    <2> QED BY <2>1, Zenon DEF ReachInv
  <1>3. offset \in Nat /\ offset <= NumSteps
    BY <1>2, MarkTypes, SMT
  <1>4. (\A s \in Sides : Marked(s)) /\ ScanNegInv
    BY <1>1, <1>2, Zenon DEF MarksInv
  <1>5. /\ Behind("pos") /\ Ahead("neg") /\ (passPos <=> failAt["pos"] = None)
        /\ ~indDir /\ failAt["neg"] # None => failAt["pos"] # None
        /\ ~indDir /\ failAt["neg"] = None /\ failAt["pos"] # None => failAt["pos"] = offset
    BY <1>1, <1>4, Zenon DEF ScanNegInv
  <1>6. StepsOf(offset) = offset
    BY <1>3, PointPasses, Zenon
  <1>7. /\ Edge("pos") \in Int /\ Edge("neg") \in Int /\ "pos" # "neg"
        /\ ~indDir => Edge("pos") = Edge("neg")
    BY EdgeIs, Zenon
  <1>8. \A s \in Sides : s = "pos" \/ s = "neg"
    BY Zenon DEF Sides
  <1>9. offset # None
    BY <1>2, <1>3, MarkTypes, Zenon
  <1>10. CASE failAt["neg"] # None
    <2>1. passAt' = passAt /\ failAt' = failAt
      BY <1>1, <1>10, Zenon DEF Record, marks
    <2>2. \A s \in Sides : Marked(s)'
      BY <1>1, <1>4, <2>1, MarkedSame, Zenon
    <2>3. \A s \in Sides : failAt'[s] = None => passAt'[s] = offset
      BY <1>5, <1>8, <1>10, <2>1, Zenon DEF Behind
    <2>4. ~indDir => (failAt'["neg"] = None <=> failAt'["pos"] = None)
      BY <1>5, <1>10, <2>1, Zenon
    <2>5. (~passPos => failAt'["pos"] # None) /\ (~passPos => failAt'["neg"] # None)
      BY <1>5, <1>10, <2>1, Zenon
    <2> QED BY <1>1, <1>2, <2>2, <2>3, <2>4, <2>5, MarksTurn, Zenon
  <1>11. CASE failAt["neg"] = None
    <2>1. ~indDir /\ Edge("pos") = Edge("neg")
      BY <1>1, <1>7, <1>11, Zenon
    <2>2. passPos <=> offset <= Edge("neg")
      <3>1. CASE failAt["pos"] = None
        <4>1. passPos /\ passAt["pos"] = offset /\ passAt["pos"] <= Edge("pos")
          BY <1>4, <1>5, <1>9, <3>1, SidesAre, Zenon DEF Behind, Marked
        <4> QED BY <2>1, <4>1, Zenon
      <3>2. CASE failAt["pos"] # None
        <4>1. ~passPos /\ failAt["pos"] = offset /\ failAt["pos"] > Edge("pos")
          BY <1>4, <1>5, <1>11, <2>1, <3>2, SidesAre, Zenon DEF Marked
        <4>2. ~passPos /\ offset > Edge("neg")
          BY <2>1, <4>1, Zenon
        <4>3. ~(offset <= Edge("neg"))
          BY <1>3, <1>7, <4>2, SMT
        <4> QED BY <4>2, <4>3, Zenon
      <3> QED BY <3>1, <3>2, Zenon
    <2>3. Record("neg", passPos, offset)
      BY <1>1, <1>6, Zenon
    <2>4. /\ passAt'["neg"] # None => passAt'["neg"] <= Edge("neg")
          /\ failAt'["neg"] # None =>
               /\ failAt'["neg"] > Edge("neg")
               /\ IF passAt'["neg"] = None THEN failAt'["neg"] = rng.start
                  ELSE failAt'["neg"] <= passAt'["neg"] + rng.step
          /\ passPos => failAt'["neg"] = None /\ passAt'["neg"] = offset
          /\ ~passPos => failAt'["neg"] = offset
          /\ \A q \in Sides : q # "neg" => passAt'[q] = passAt[q] /\ failAt'[q] = failAt[q]
      BY <1>2, <1>3, <1>4, <1>5, <1>7, <1>11, <2>2, <2>3, SidesAre, RecordMakes, Zenon
    <2>5. passAt'["pos"] = passAt["pos"] /\ failAt'["pos"] = failAt["pos"]
      BY <1>7, <2>4, SidesAre, Zenon
    <2>6. Marked("neg")'
      BY <1>1, <2>4, EdgeSame, Zenon DEF Marked
    <2>7. \A s \in Sides : Marked(s)'
      BY <1>1, <1>4, <1>8, <2>5, <2>6, MarkedSame, SidesAre, Zenon
    <2>8. \A s \in Sides : failAt'[s] = None => passAt'[s] = offset
      BY <1>5, <1>8, <1>9, <2>4, <2>5, Zenon DEF Behind
    <2>9. /\ ~passPos => failAt'["pos"] # None /\ failAt'["neg"] # None
          /\ failAt'["neg"] = None <=> failAt'["pos"] = None
      BY <1>5, <1>9, <2>4, <2>5, Zenon
    <2> QED BY <1>1, <1>2, <2>7, <2>8, <2>9, MarksTurn, Zenon
  <1> QED BY <1>10, <1>11, Zenon

\* The negative side of an iteration, margined.
LEMMA MarksNeg ==
  ASSUME TypeOK, ReachInv, MarksInv, ScanNegMargins, faults' = 0
  PROVE  MarksInv'
  <1>1. /\ pc = "scanNeg" /\ indDir /\ failAt["neg"] = None
        /\ eye' = eye /\ indDir' = indDir /\ rng' = rng
    BY Zenon DEF ScanNegMargins, config
  <1>2. PICK status : /\ Judge(WithDir(offset), status)
                      /\ Record("neg", Passes(status), StepsOf(WithDir(offset)))
                      /\ Advance(passPos, Passes(status))
    BY Zenon DEF ScanNegMargins
  <1>3. faults = 0 /\ status = ReceiverStatus(Payload(WithDir(offset)))
    BY <1>2, PlainJudge, Zenon
  <1>4. ScanMode /\ offset \in 0 .. rng.target
    <2>1. pc \in {"scanPos", "scanNeg"}
      BY <1>1, SMT
    <2> QED BY <2>1, Zenon DEF ReachInv
  <1>5. offset \in Nat /\ offset <= NumSteps
    BY <1>4, MarkTypes, SMT
  <1>6. (\A s \in Sides : Marked(s)) /\ ScanNegInv
    BY <1>3, <1>4, Zenon DEF MarksInv
  <1>7. Behind("pos") /\ Ahead("neg") /\ (passPos <=> failAt["pos"] = None)
    BY <1>1, <1>6, Zenon DEF ScanNegInv
  <1> DEFINE passed == Passes(status)
  <1>8. StepsOf(WithDir(offset)) = offset /\ (passed <=> offset <= Edge("neg"))
    BY <1>3, <1>5, PointPasses, Zenon
  <1>9. Record("neg", passed, offset) /\ Advance(passPos, passed)
    BY <1>2, <1>8, Zenon
  <1> HIDE DEF passed
  <1>10. Edge("neg") \in Int /\ "pos" # "neg"
    BY EdgeIs, Zenon
  <1>11. /\ passAt'["neg"] # None => passAt'["neg"] <= Edge("neg")
         /\ failAt'["neg"] # None =>
              /\ failAt'["neg"] > Edge("neg")
              /\ IF passAt'["neg"] = None THEN failAt'["neg"] = rng.start
                 ELSE failAt'["neg"] <= passAt'["neg"] + rng.step
         /\ passed => failAt'["neg"] = None /\ passAt'["neg"] = offset
         /\ ~passed => failAt'["neg"] = offset
         /\ \A q \in Sides : q # "neg" => passAt'[q] = passAt[q] /\ failAt'[q] = failAt[q]
    BY <1>1, <1>4, <1>5, <1>6, <1>7, <1>8, <1>9, <1>10, SidesAre, RecordMakes, Zenon
  <1>12. passAt'["pos"] = passAt["pos"] /\ failAt'["pos"] = failAt["pos"]
    BY <1>10, <1>11, SidesAre, Zenon
  <1>13. Marked("neg")'
    BY <1>1, <1>11, EdgeSame, Zenon DEF Marked
  <1>14. \A s \in Sides : s = "pos" \/ s = "neg"
    BY Zenon DEF Sides
  <1>15. \A s \in Sides : Marked(s)'
    BY <1>1, <1>6, <1>12, <1>13, <1>14, MarkedSame, SidesAre, Zenon
  <1>16. offset # None
    BY <1>4, <1>5, MarkTypes, Zenon
  <1>17. \A s \in Sides : failAt'[s] = None => passAt'[s] = offset
    BY <1>7, <1>11, <1>12, <1>14, <1>16, Zenon DEF Behind
  <1>18. (~passPos => failAt'["pos"] # None) /\ (~passed => failAt'["neg"] # None)
    BY <1>7, <1>11, <1>12, <1>16, Zenon
  <1> QED BY <1>1, <1>4, <1>9, <1>15, <1>17, <1>18, MarksTurn, Zenon

-----------------------------------------------------------------------------
\* The invariant, and what it comes to.

LEMMA ScanInit == Init => ScanInv
  <1> SUFFICES ASSUME Init PROVE ScanInv
    OBVIOUS
  <1>1. rng = NoRange /\ pc = "prepare" /\ passAt = [s \in Sides |-> None] /\ failAt = [s \in Sides |-> None]
    BY Zenon DEF Init
  <1>2. rng.mode = "none"
    BY <1>1, Zenon DEF NoRange
  <1>3. ~ScanMode
    BY <1>2, SMT DEF ScanMode
  <1>4. pc \notin {"scanPos", "scanNeg"}
    BY <1>1, SMT
  <1> QED BY <1>1, <1>3, <1>4, Zenon DEF ScanInv, ReachInv, MarksInv

\* A step preserves the invariant.
LEMMA ScanStep == TypeOK /\ ScanInv /\ [Next]_vars => ScanInv'
  <1> SUFFICES ASSUME TypeOK, ReachInv, MarksInv, [Next]_vars PROVE ScanInv'
    BY Zenon DEF ScanInv
  <1>1. ReachInv'
    BY ReachStep, Zenon
  <1>2. MarksInv'
    <2> SUFFICES ASSUME faults' = 0, ScanMode' PROVE MarksInv'
      BY Zenon DEF MarksInv
    <2>1. CASE UNCHANGED vars
      BY <2>1, Zenon DEF vars, MarksInv, ScanMode, Marked, Edge, PassesTo, ScanPosInv, ScanNegInv, ScanEndInv,
                         Ahead, Behind
    <2>2. CASE SkipEmpty \/ SetErrLimitFails
      <3>1. rng' = rng /\ pc = "prepare"
        BY <2>2, Zenon DEF SkipEmpty, SetErrLimitFails
      <3> QED BY <3>1, Zenon DEF ScanMode, ReachInv
    <2>3. CASE DetermineMarginRange
      BY <2>3, MarksStart, Zenon
    <2>4. CASE TestEyeSize
      <3>1. rng' = rng /\ (pc = "eyePos" \/ pc = "eyeNeg")
        BY <2>4, Zenon DEF TestEyeSize, EyeBoth, EyePosPasses, EyePosFails, EyeNegPasses, EyeNegFails
      <3> QED BY <3>1, Zenon DEF ScanMode, ReachInv
    <2>5. CASE ScanEye
      BY <2>5, MarksSkip, MarksPos, MarksFollow, MarksNeg, Zenon DEF ScanEye
    <2>6. CASE OutputEyeMeasurement
      <3>1. /\ faults = 0 /\ rng' = rng /\ pc = "output" /\ pc' = "done" /\ eye' = eye /\ indDir' = indDir
            /\ passAt' = passAt /\ failAt' = failAt
        BY <2>6, Zenon DEF OutputEyeMeasurement, config, marks
      <3>2. (\A s \in Sides : Marked(s)) /\ ScanEndInv
        BY <3>1, Zenon DEF MarksInv, ScanMode
      <3>3. \A s \in Sides : Marked(s)'
        BY <3>1, <3>2, MarkedSame, Zenon
      <3>4. ScanEndInv'
        BY <3>1, <3>2, Zenon DEF ScanEndInv
      <3>5. pc' # "scanPos" /\ pc' # "scanNeg"
        BY <3>1, SMT
      <3> QED BY <3>3, <3>4, <3>5, Zenon DEF MarksInv, ScanPosInv, ScanNegInv
    <2> QED BY <2>1, <2>2, <2>3, <2>4, <2>5, <2>6, Zenon DEF Next
  <1> QED BY <1>1, <1>2, Zenon DEF ScanInv

\* A scan without a fault brackets the edge of the eye on each side: the point it marks as the last
\* to pass is inside, the one it marks as the first to fail is outside and no more than a step away
\* (scanEye, lmt_lane.go:508-570), whatever the capability, the spec, the eye and the directions.
THEOREM ScanIsBracketed == Spec => []ScanBracketsEdge
  <1>1. TypeOK /\ ScanInv => ScanBracketsEdge
    <2> SUFFICES ASSUME TypeOK, ReachInv, MarksInv, pc = "done", ScanMode, faults = 0, NEW s \in Sides
                 PROVE  /\ passAt[s] # None => passAt[s] <= Edge(s)
                        /\ failAt[s] # None => failAt[s] > Edge(s)
                        /\ failAt[s] = None => passAt[s] = rng.target
                        /\ passAt[s] = None => failAt[s] = rng.start
                        /\ passAt[s] # None /\ failAt[s] # None => failAt[s] - passAt[s] \in 1 .. rng.step
      BY Zenon DEF ScanInv, ScanBracketsEdge, ScanMode, Edge
    <2>1. Marked(s) /\ (failAt[s] = None => passAt[s] = rng.target)
      BY Zenon DEF MarksInv, ScanEndInv
    <2>2. passAt[s] \in Int /\ failAt[s] \in Int /\ rng.step \in Nat /\ rng.target \in Nat /\ None \notin Nat
      BY MarkTypes, Zenon
    <2>3. Edge(s) \in Int
      BY EdgeIs, Zenon DEF Sides
    <2> DEFINE p == passAt[s]  f == failAt[s]  e == Edge(s)
    <2>4. /\ p # None => p <= e
          /\ f # None => f > e /\ IF p = None THEN f = rng.start ELSE f <= p + rng.step
      BY <2>1, Zenon DEF Marked
    <2>5. p \in Int /\ f \in Int /\ e \in Int
      BY <2>2, <2>3, Zenon
    <2> HIDE DEF p, f, e
    <2>6. p # None /\ f # None => f - p \in 1 .. rng.step
      BY <2>2, <2>4, <2>5, SMT
    <2>7. p = None => f # None
      BY <2>1, <2>2, Zenon DEF p, f
    <2> QED BY <2>1, <2>4, <2>6, <2>7, Zenon DEF p, f, e
  <1> QED BY <1>1, ScanInit, ScanStep, TypeCorrect, PTL DEF Spec
=============================================================================
