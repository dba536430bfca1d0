-------------------------- MODULE LaneTestProofs ---------------------------
(***************************************************************************)
(* Proofs about LaneTest: type correctness for every capability, spec and  *)
(* eye, then the correctness of the eye-size check.                        *)
(***************************************************************************)
EXTENDS LaneTest, TLAPS

LEMMA WordSizeType == WordSize \in Nat /\ WordSize >= 1024
  BY SMT DEF WordSize

\* A uint16 conversion yields a uint16, and changes no uint16.
LEMMA U16Type == \A n \in Int : U16(n) \in OffsetType
  BY SMT DEF U16, OffsetType, WordSize

LEMMA U16Same == \A n \in Nat : n < WordSize => U16(n) = n
  BY SMT DEF U16, WordSize

LEMMA ZeroOne == 0 \in OffsetType /\ 1 \in OffsetType
  BY SMT DEF OffsetType, WordSize

\* The direction bit is one of the two.
LEMMA DirMaskIs == DirMask = 64 \/ DirMask = 128
  BY ConstantsAssumption, SMT

LEMMA DirMaskType == DirMask \in Nat /\ DirMask <= 128 /\ DirMask >= 64
  BY ConstantsAssumption, SMT

\* What an offset below or beyond the direction bit can be.
LEMMA DirFacts ==
  ASSUME NEW o \in OffsetType
  PROVE  /\ IsNeg(o) => o >= DirMask
         /\ ~IsNeg(o) => o + DirMask < WordSize
  <1>1. o \in Nat /\ o < WordSize
    BY WordSizeType, SMT DEF OffsetType
  <1>2. CASE DirMask = 64
    <2>1. o % 128 >= 64 => o >= 64
      BY <1>1, SMT
    <2>2. ~(o % 128 >= 64) => o + 64 < WordSize
      BY <1>1, SMT DEF WordSize
    <2> QED BY <1>2, <2>1, <2>2, SMT DEF IsNeg
  <1>3. CASE DirMask = 128
    <2>1. o % 256 >= 128 => o >= 128
      BY <1>1, SMT
    <2>2. ~(o % 256 >= 128) => o + 128 < WordSize
      BY <1>1, SMT DEF WordSize
    <2>3. DirMask # 64
      BY <1>3, SMT
    <2> QED BY <1>3, <2>1, <2>2, <2>3, SMT DEF IsNeg
  <1> QED BY <1>2, <1>3, DirMaskIs, Zenon

\* Taking the direction bit off an offset and putting it on stay within uint16.
LEMMA DirType ==
  ASSUME NEW o \in OffsetType
  PROVE  StepsOf(o) \in OffsetType /\ WithDir(o) \in OffsetType
  <1>1. CASE IsNeg(o)
    <2>1. StepsOf(o) = o - DirMask /\ WithDir(o) = o
      BY <1>1, Zenon DEF StepsOf, WithDir
    <2> QED BY <1>1, <2>1, DirFacts, DirMaskType, WordSizeType, SMT DEF OffsetType
  <1>2. CASE ~IsNeg(o)
    <2>1. StepsOf(o) = o /\ WithDir(o) = o + DirMask
      BY <1>2, Zenon DEF StepsOf, WithDir
    <2> QED BY <1>2, <2>1, DirFacts, DirMaskType, WordSizeType, SMT DEF OffsetType
  <1> QED BY <1>1, <1>2, Zenon

RangeType == [mode : {"target", "eyeScan", "eyeSize"}, start : OffsetType, target : OffsetType,
              step : OffsetType, untilFail : BOOLEAN, errOutOK : BOOLEAN]

\* A margin range is in uint16, whatever the spec.
LEMMA RangeTyped == \A s \in SpecType : MarginRangeOf(s, NumSteps) \in RangeType
  <1> SUFFICES ASSUME NEW s \in SpecType PROVE MarginRangeOf(s, NumSteps) \in RangeType
    OBVIOUS
  <1>1. /\ s.start \in Int /\ s.step \in Int /\ s.target \in Int /\ s.eye \in Int
        /\ NumSteps \in Int
    BY ConstantsAssumption, SMT DEF SpecType, Optional, None
  <1>2. StepOf(s) \in OffsetType
    BY <1>1, U16Type, ZeroOne DEF StepOf
  <1>3. EyeSizeRange(s) \in RangeType
    BY <1>1, <1>2, U16Type, ZeroOne DEF EyeSizeRange, RangeType
  <1>4. ScanTarget(s, NumSteps) \in OffsetType
    BY <1>1, U16Type, ZeroOne DEF ScanTarget
  <1>5. ScanStart(s, NumSteps) \in OffsetType
    BY <1>1, <1>4, U16Type DEF ScanStart
  <1>6. ScanRange(s, NumSteps) \in RangeType
    BY <1>2, <1>4, <1>5 DEF ScanRange, RangeType
  <1> QED BY <1>3, <1>6 DEF MarginRangeOf

-----------------------------------------------------------------------------
\* Type correctness.

\* Judging one outcome keeps the verdict and the count of faults well typed.
LEMMA JudgeType ==
  ASSUME TypeOK, NEW o, NEW status \in Outcomes(o), Judge(o, status)
  PROVE  faults' \in 0 .. MaxFaults /\ flagged' \in BOOLEAN /\ lnPass' \in BOOLEAN
  <1>1. flagged' \in BOOLEAN /\ lnPass' \in BOOLEAN
    BY Zenon DEF Judge, TypeOK
  <1>2. faults' = faults \/ (faults' = faults + 1 /\ faults < MaxFaults)
    <2>1. CASE status = ReceiverStatus(Payload(o))
      BY <2>1, Zenon DEF Judge
    <2>2. CASE status # ReceiverStatus(Payload(o))
      BY <2>2, Zenon DEF Judge, Outcomes
    <2> QED BY <2>1, <2>2, Zenon
  <1>3. faults' \in 0 .. MaxFaults
    BY <1>2, ConstantsAssumption, SMT DEF TypeOK
  <1> QED BY <1>1, <1>3, Zenon

LEMMA ExceptType ==
  ASSUME NEW f \in [Sides -> MarkType], NEW s \in Sides, NEW v \in MarkType
  PROVE  [f EXCEPT ![s] = v] \in [Sides -> MarkType]
  BY SMT

LEMMA SidesAre == "pos" \in Sides /\ "neg" \in Sides
  BY Zenon DEF Sides

\* Recording a point keeps the marks well typed.
LEMMA RecordType ==
  ASSUME TypeOK, NEW side \in Sides, NEW passed \in BOOLEAN, NEW steps \in OffsetType,
         Record(side, passed, steps)
  PROVE  passAt' \in [Sides -> MarkType] /\ failAt' \in [Sides -> MarkType]
  <1>1. steps \in MarkType
    BY SMT DEF OffsetType, MarkType, None
  <1> QED BY <1>1, Zenon DEF Record, TypeOK, marks

\* So do the moves of the offset.
LEMMA NextInwardsType == TypeOK => NextInwards \in OffsetType
  <1> SUFFICES ASSUME TypeOK PROVE NextInwards \in OffsetType
    OBVIOUS
  <1>1. offset \in Int /\ rng.step \in Int /\ rng.target \in OffsetType
    BY WordSizeType, SMT DEF TypeOK, OffsetType
  <1>2. offset - rng.step \in Int
    BY <1>1, SMT
  <1> QED BY <1>1, <1>2, U16Type, Zenon DEF NextInwards

LEMMA LessType == TypeOK => rng.start - offset \in Int /\ offset + rng.step \in Int
  BY WordSizeType, SMT DEF TypeOK, OffsetType

LEMMA AdvanceType ==
  ASSUME TypeOK, NEW p, NEW n, Advance(p, n)
  PROVE  offset' \in OffsetType /\ pc' \in {"output", "scanPos"}
  <1>1. rng.target \in OffsetType /\ offset \in OffsetType
    BY SMT DEF TypeOK
  <1>2. U16(offset + rng.step) \in OffsetType
    BY LessType, U16Type, Zenon
  <1> QED BY <1>1, <1>2, Zenon DEF Advance

LEMMA LeavePosType ==
  ASSUME TypeOK, LeavePos
  PROVE  offset' \in OffsetType /\ pc' \in {"output", "eyeNeg"}
  BY LessType, U16Type, Zenon DEF LeavePos, TypeOK

\* Every state of a lane's test is well typed, whatever its capability, specs, eye and faults.
THEOREM TypeCorrect == Spec => []TypeOK
  <1>1. Init => TypeOK
    <2> SUFFICES ASSUME Init PROVE TypeOK
      OBVIOUS
    <2>1. spec \in SpecType /\ eye \in EyeType /\ faults \in 0 .. MaxFaults
      BY ConstantsAssumption, SMT DEF Init
    <2>2. rng \in [mode : {"none", "target", "eyeScan", "eyeSize"}, start : OffsetType,
                   target : OffsetType, step : OffsetType, untilFail : BOOLEAN,
                   errOutOK : BOOLEAN]
      BY ZeroOne, SMT DEF Init, NoRange
    <2>3. None \in MarkType
      BY WordSizeType, SMT DEF MarkType, None
    <2>4. passAt \in [Sides -> MarkType] /\ failAt \in [Sides -> MarkType]
      BY <2>3, Zenon DEF Init
    <2>5. 0 \in Nat
      OBVIOUS
    <2> QED BY <2>1, <2>2, <2>4, <2>5, ZeroOne, Zenon DEF Init, TypeOK
  <1>2. TypeOK /\ [Next]_vars => TypeOK'
    <2> SUFFICES ASSUME TypeOK, [Next]_vars PROVE TypeOK'
      OBVIOUS
    <2> USE DEF config, marks
    <2>1. offset \in OffsetType /\ StepsOf(offset) \in OffsetType
          /\ StepsOf(WithDir(offset)) \in OffsetType
      BY DirType DEF TypeOK
    <2>2. StepsOf(offset) \in MarkType /\ StepsOf(WithDir(offset)) \in MarkType
      BY <2>1, SMT DEF OffsetType, MarkType, None
    <2>3. NextInwards \in OffsetType /\ U16(rng.start - offset) \in OffsetType
      BY NextInwardsType, LessType, U16Type
    <2>4. ASSUME SkipEmpty PROVE TypeOK'
      BY <2>4, Zenon DEF SkipEmpty, TypeOK
    <2>5. ASSUME SetErrLimitFails PROVE TypeOK'
      BY <2>5, Zenon DEF SetErrLimitFails, SetupLaneValidators, TypeOK
    <2>6. ASSUME DetermineMarginRange PROVE TypeOK'
      <3>1. rng' \in RangeType
        BY <2>6, RangeTyped, Zenon DEF DetermineMarginRange, TypeOK
      <3>2. rng' \in [mode : {"none", "target", "eyeScan", "eyeSize"}, start : OffsetType,
                      target : OffsetType, step : OffsetType, untilFail : BOOLEAN,
                      errOutOK : BOOLEAN]
        BY <3>1, SMT DEF RangeType
      <3>3. rng'.start \in OffsetType /\ rng'.start - rng'.start \div 2 \in Int
        BY <3>1, WordSizeType, SMT DEF RangeType, OffsetType
      <3>4. offset' \in OffsetType /\ pc' \in {"eyePos", "scanPos"}
        BY <2>6, <3>3, U16Type, Zenon DEF DetermineMarginRange
      <3>5. statusOK' \in SUBSET {"MARGINING", "ERROR_OUT"}
        BY <2>6, Zenon DEF DetermineMarginRange, SetupLaneValidators
      <3> QED BY <2>6, <3>2, <3>4, <3>5, SMT DEF DetermineMarginRange, TypeOK
    <2>7. ASSUME EyeBoth PROVE TypeOK'
      <3>1. faults' \in 0 .. MaxFaults /\ flagged' \in BOOLEAN /\ lnPass' \in BOOLEAN
        BY <2>7, JudgeType, Zenon DEF EyeBoth
      <3>2. passAt' \in [Sides -> MarkType] /\ failAt' \in [Sides -> MarkType]
        BY <2>2, <2>7, Zenon DEF EyeBoth, TypeOK
      <3>3. passPos' \in BOOLEAN /\ passNeg' \in BOOLEAN
        BY <2>7, Zenon DEF EyeBoth, Passes
      <3> QED BY <2>7, <3>1, <3>2, <3>3, Zenon DEF EyeBoth, TypeOK
    <2>8. ASSUME EyePosPasses PROVE TypeOK'
      <3>1. faults' \in 0 .. MaxFaults /\ flagged' \in BOOLEAN /\ lnPass' \in BOOLEAN
        BY <2>8, JudgeType, Zenon DEF EyePosPasses
      <3>2. offset' \in OffsetType /\ pc' \in {"output", "eyeNeg"}
        BY <2>8, LeavePosType, Zenon DEF EyePosPasses
      <3>3. passAt' \in [Sides -> MarkType]
        BY <2>2, <2>8, ExceptType, SidesAre, Zenon DEF EyePosPasses, TypeOK
      <3> QED BY <2>8, <3>1, <3>2, <3>3, Zenon DEF EyePosPasses, TypeOK
    <2>9. ASSUME EyePosFails PROVE TypeOK'
      <3>1. faults' \in 0 .. MaxFaults /\ flagged' \in BOOLEAN /\ lnPass' \in BOOLEAN
        BY <2>9, JudgeType, Zenon DEF EyePosFails
      <3>2. offset' \in OffsetType /\ pc' \in {"output", "eyeNeg", "eyePos"}
        BY <2>3, <2>9, LeavePosType, Zenon DEF EyePosFails
      <3>3. failAt' \in [Sides -> MarkType]
        BY <2>2, <2>9, ExceptType, SidesAre, Zenon DEF EyePosFails, TypeOK
      <3> QED BY <2>9, <3>1, <3>2, <3>3, Zenon DEF EyePosFails, TypeOK
    <2>10. ASSUME EyeNegPasses PROVE TypeOK'
      <3>1. faults' \in 0 .. MaxFaults /\ flagged' \in BOOLEAN /\ lnPass' \in BOOLEAN
        BY <2>10, JudgeType, Zenon DEF EyeNegPasses
      <3>2. offset' \in OffsetType /\ pc' \in {"output", "eyePos"}
        BY <2>1, <2>3, <2>10, Zenon DEF EyeNegPasses
      <3>3. passAt' \in [Sides -> MarkType]
        BY <2>2, <2>10, ExceptType, SidesAre, Zenon DEF EyeNegPasses, TypeOK
      <3> QED BY <2>10, <3>1, <3>2, <3>3, Zenon DEF EyeNegPasses, TypeOK
    <2>11. ASSUME EyeNegFails PROVE TypeOK'
      <3>1. faults' \in 0 .. MaxFaults /\ flagged' \in BOOLEAN /\ lnPass' \in BOOLEAN
        BY <2>11, JudgeType, Zenon DEF EyeNegFails
      <3>2. offset' \in OffsetType /\ pc' \in {"output", "eyeNeg"}
        BY <2>1, <2>3, <2>11, Zenon DEF EyeNegFails
      <3>3. failAt' \in [Sides -> MarkType]
        BY <2>2, <2>11, ExceptType, SidesAre, Zenon DEF EyeNegFails, TypeOK
      <3> QED BY <2>11, <3>1, <3>2, <3>3, Zenon DEF EyeNegFails, TypeOK
    <2>12. ASSUME ScanPosSkipped PROVE TypeOK'
      BY <2>12, Zenon DEF ScanPosSkipped, TypeOK
    <2>13. ASSUME ScanPosMargins PROVE TypeOK'
      <3>1. PICK status \in Outcomes(offset) :
               Judge(offset, status) /\ passPos' = Passes(status)
               /\ Record("pos", Passes(status), StepsOf(offset))
        BY <2>13, Zenon DEF ScanPosMargins
      <3>2. faults' \in 0 .. MaxFaults /\ flagged' \in BOOLEAN /\ lnPass' \in BOOLEAN
        BY <3>1, JudgeType, Zenon
      <3>3. Passes(status) \in BOOLEAN /\ "pos" \in Sides
        BY Zenon DEF Passes, Sides
      <3>4. passAt' \in [Sides -> MarkType] /\ failAt' \in [Sides -> MarkType]
        BY <2>1, <3>1, <3>3, RecordType, Zenon
      <3> QED BY <2>13, <3>1, <3>2, <3>3, <3>4, Zenon DEF ScanPosMargins, TypeOK
    <2>14. ASSUME ScanNegFollows PROVE TypeOK'
      <3>1. offset' \in OffsetType /\ pc' \in {"output", "scanPos"}
        BY <2>14, AdvanceType, Zenon DEF ScanNegFollows
      <3>2. "neg" \in Sides /\ passPos \in BOOLEAN
        BY Zenon DEF Sides, TypeOK
      <3>3. passAt' \in [Sides -> MarkType] /\ failAt' \in [Sides -> MarkType]
        BY <2>1, <2>14, <3>2, RecordType, Zenon DEF ScanNegFollows
      <3> QED BY <2>14, <3>1, <3>2, <3>3, Zenon DEF ScanNegFollows, TypeOK
    <2>15. ASSUME ScanNegMargins PROVE TypeOK'
      <3>1. PICK status \in Outcomes(WithDir(offset)) :
               Judge(WithDir(offset), status) /\ passNeg' = Passes(status)
               /\ Record("neg", Passes(status), StepsOf(WithDir(offset)))
               /\ Advance(passPos, Passes(status))
        BY <2>15, Zenon DEF ScanNegMargins
      <3>2. faults' \in 0 .. MaxFaults /\ flagged' \in BOOLEAN /\ lnPass' \in BOOLEAN
        BY <3>1, JudgeType, Zenon
      <3>3. offset' \in OffsetType /\ pc' \in {"output", "scanPos"}
        BY <3>1, AdvanceType, Zenon
      <3>4. Passes(status) \in BOOLEAN /\ "neg" \in Sides
        BY Zenon DEF Passes, Sides
      <3>5. passAt' \in [Sides -> MarkType] /\ failAt' \in [Sides -> MarkType]
        BY <2>1, <3>1, <3>4, RecordType, Zenon
      <3> QED BY <2>15, <3>1, <3>2, <3>3, <3>4, <3>5, Zenon DEF ScanNegMargins, TypeOK
    <2>16. ASSUME OutputEyeMeasurement PROVE TypeOK'
      <3>1. TotalSize \in Nat
        <4>1. \A s \in Sides : SizeAt(s) \in Nat
          BY WordSizeType, SMT DEF SizeAt, TypeOK, MarkType, None
        <4> QED BY <4>1, SMT DEF TotalSize, Sides
      <3>2. eyeSize' \in Nat /\ lnPass' \in BOOLEAN
        BY <2>16, <3>1, Zenon DEF OutputEyeMeasurement, TypeOK
      <3> QED BY <2>16, <3>2, Zenon DEF OutputEyeMeasurement, TypeOK
    <2>17. CASE UNCHANGED vars
      BY <2>17, Zenon DEF vars, TypeOK
    <2> QED BY <2>4, <2>5, <2>6, <2>7, <2>8, <2>9, <2>10, <2>11, <2>12, <2>13, <2>14, <2>15,
               <2>16, <2>17, Zenon DEF Next, TestEyeSize, ScanEye
  <1> QED BY <1>1, <1>2, PTL DEF Spec

-----------------------------------------------------------------------------
\* The eye-size check: its range, for every step and target that cannot carry the offset below 0.

\* The inductive invariant, in parts.

\* The range is the one the spec asks for, once determined.
ModeInv ==
  /\ spec \in Specs /\ eye \in Eyes
  /\ pc \in {"prepare", "scanPos", "scanNeg"} => rng.mode # "eyeSize"
  /\ pc \in {"eyePos", "eyeNeg"} => rng.mode = "eyeSize"
  /\ rng.mode = "eyeSize" => EyeSizeMode(spec) /\ rng = EyeSizeRange(spec)

\* The offset leaves room for the target on both sides of the required eye.
FitInv ==
  pc \in {"eyePos", "eyeNeg"} => offset \in rng.target .. (rng.start - rng.target)

RangeInv == ModeInv /\ FitInv

\* Whatever fits the payload's 8 bits is margined as it is; the direction bit is in it or can be
\* put in, and the steps are at most the offset.
LEMMA PayloadOffset ==
  ASSUME NEW o \in Nat, o < 256
  PROVE  /\ Payload(o) = o /\ Payload(WithDir(o)) = WithDir(o) /\ IsNeg(WithDir(o))
         /\ StepsOf(o) \in Nat
         /\ IsNeg(o) => StepsOf(o) + DirMask = o
         /\ StepsOf(WithDir(o)) \in 0 .. o
  <1>1. /\ IsNeg(o) => o >= DirMask
        /\ ~IsNeg(o) => o + DirMask < 256 /\ IsNeg(o + DirMask)
    <2>1. CASE DirMask = 64
      <3>1. o % 128 >= 64 => o >= 64
        BY SMT
      <3>2. ~(o % 128 >= 64) => o + 64 < 256 /\ (o + 64) % 128 >= 64
        BY SMT
      <3> QED BY <2>1, <3>1, <3>2, SMT DEF IsNeg
    <2>2. CASE DirMask = 128
      BY <2>2, SMT DEF IsNeg
    <2> QED BY <2>1, <2>2, DirMaskIs, Zenon
  <1>2. \A n \in Nat : n < 256 => Payload(n) = n
    BY SMT DEF Payload
  <1>3. CASE IsNeg(o)
    <2>1. StepsOf(o) = o - DirMask /\ WithDir(o) = o
      BY <1>3, Zenon DEF StepsOf, WithDir
    <2> QED BY <1>1, <1>2, <1>3, <2>1, DirMaskType, SMT
  <1>4. CASE ~IsNeg(o)
    <2>1. StepsOf(o) = o /\ WithDir(o) = o + DirMask /\ IsNeg(o + DirMask)
      BY <1>1, <1>4, Zenon DEF StepsOf, WithDir
    <2>2. StepsOf(WithDir(o)) = (o + DirMask) - DirMask
      BY <2>1, Zenon DEF StepsOf
    <2>3. (o + DirMask) - DirMask = o /\ o + DirMask \in Nat /\ o + DirMask < 256
      BY <1>1, <1>4, DirMaskType, SMT
    <2>4. Payload(o) = o /\ Payload(WithDir(o)) = WithDir(o)
      BY <1>2, <2>1, <2>3, Zenon
    <2>5. StepsOf(WithDir(o)) = o
      BY <2>2, <2>3, Zenon
    <2>6. StepsOf(WithDir(o)) \in 0 .. o
      BY <2>5, SMT
    <2> QED BY <1>4, <2>1, <2>4, <2>6, Zenon
  <1> QED BY <1>3, <1>4, Zenon

\* A spec that stays clear of the direction bit stays in the payload.
LEMMA FitInPayload == EyeSpecsFit => EyeSpecsInPayload
  <1>1. \A s \in Specs : EyeSizeMode(s) => s.eye \in Nat
    BY ConstantsAssumption, SMT DEF SpecType, Optional, None, EyeSizeMode
  <1> QED BY <1>1, DirMaskType, SMT DEF EyeSpecsFit, EyeSpecsInPayload

\* What determineMarginRange makes of a spec in the payload.
LEMMA EyeFacts ==
  ASSUME EyeSpecsInPayload, spec \in Specs, NEW r, r = EyeSizeRange(spec), EyeSizeMode(spec)
  PROVE  /\ r.start = spec.eye /\ r.start \in Nat /\ r.start < 256
         /\ r.target \in Nat /\ 2 * r.target <= r.start
         /\ r.step \in Nat /\ r.step >= 1 /\ r.step <= r.target + 1
         /\ r.errOutOK
  <1>1. spec \in SpecType
    BY ConstantsAssumption, Zenon
  <1>2. /\ spec.start \in Int /\ spec.step \in Int
        /\ spec.target # None => spec.target \in Nat
        /\ spec.eye # None => spec.eye \in Nat
    BY <1>1, SMT DEF SpecType, Optional, None
  <1>3. spec.eye \in Nat /\ spec.eye < 256
    BY <1>2, Zenon DEF EyeSpecsInPayload, EyeSizeMode
  <1>4. U16(spec.eye) = spec.eye
    BY <1>3, U16Same, WordSizeType, SMT
  <1>5. r.start = spec.eye /\ r.errOutOK /\ r.step = StepOf(spec)
    BY <1>4, SMT DEF EyeSizeRange
  <1>6. r.target = IF spec.target = None THEN 0 ELSE spec.target
    <2>1. CASE spec.target = None
      BY <2>1, SMT DEF EyeSizeRange
    <2>2. CASE spec.target # None
      <3>1. spec.target < WordSize
        BY <2>2, <1>2, <1>3, WordSizeType, SMT DEF EyeSizeMode
      <3>2. U16(spec.target) = spec.target
        BY <3>1, <2>2, <1>2, U16Same, Zenon
      <3> QED BY <2>2, <3>2, SMT DEF EyeSizeRange
    <2> QED BY <2>1, <2>2, Zenon
  <1>7. r.target \in Nat /\ 2 * r.target <= r.start
    BY <1>2, <1>3, <1>5, <1>6, SMT DEF EyeSizeMode
  <1>8. r.step <= r.target + 1
    BY <1>5, <1>6, Zenon DEF EyeSpecsInPayload
  <1>9. StepOf(spec) \in Nat /\ StepOf(spec) >= 1
    <2>1. U16(spec.step) \in OffsetType
      BY <1>2, U16Type, Zenon
    <2>2. U16(spec.step) \in Nat
      BY <2>1, WordSizeType, SMT DEF OffsetType
    <2> QED BY <2>2, SMT DEF StepOf
  <1> QED BY <1>3, <1>5, <1>7, <1>8, <1>9, Zenon

\* A step inwards stays in the range and makes progress; a step of 1 is the next offset.
LEMMA InwardsFits ==
  ASSUME EyeSpecsInPayload, spec \in Specs, rng = EyeSizeRange(spec), EyeSizeMode(spec),
         offset \in rng.target .. (rng.start - rng.target), ~(offset <= rng.target)
  PROVE  /\ NextInwards \in rng.target .. (rng.start - rng.target)
         /\ NextInwards < offset
         /\ rng.step = 1 => NextInwards = offset - 1
  <1>1. /\ offset - rng.step \in Nat /\ offset - rng.step < WordSize
        /\ offset \in Nat /\ rng.target \in Nat /\ rng.start \in Nat /\ rng.step \in Nat
    BY EyeFacts, WordSizeType, SMT
  <1>2. U16(offset - rng.step) = offset - rng.step
    BY <1>1, U16Same, Zenon
  <1> QED BY <1>1, <1>2, EyeFacts, SMT DEF NextInwards

\* A pass is the receiver's, and tells how far the eye reaches on the side margined.
LEMMA PassIsReal ==
  ASSUME eye \in EyeType, NEW o \in Nat, o < 256, NEW status \in Outcomes(o), Passes(status)
  PROVE  /\ indDir => IF IsNeg(o) THEN StepsOf(o) <= eye.neg ELSE StepsOf(o) <= eye.pos
         /\ ~indDir => StepsOf(o) <= eye.pos /\ StepsOf(o) <= eye.neg
  <1>1. status = ReceiverStatus(o) /\ status = "MARGINING"
    BY PayloadOffset, ConstantsAssumption, Zenon DEF Outcomes, Passes
  <1>2. StepsOf(o) <= PassesTo(o) /\ StepsOf(o) \in Nat
    BY <1>1, PayloadOffset, SMT DEF ReceiverStatus
  <1>3. eye.pos \in Int /\ eye.neg \in Int
    BY SMT DEF EyeType
  <1>4. indDir => IF IsNeg(o) THEN StepsOf(o) <= eye.neg ELSE StepsOf(o) <= eye.pos
    BY <1>2, Zenon DEF PassesTo
  <1>5. ~indDir => PassesTo(o) = IF eye.pos < eye.neg THEN eye.pos ELSE eye.neg
    BY Zenon DEF PassesTo
  <1> QED BY <1>2, <1>3, <1>4, <1>5, SMT

LEMMA PassIsRealNeg ==
  ASSUME eye \in EyeType, indDir, NEW o \in Nat, o < 256, NEW status \in Outcomes(WithDir(o)),
         Passes(status)
  PROVE  StepsOf(WithDir(o)) <= eye.neg
  <1>1. status = ReceiverStatus(WithDir(o)) /\ status = "MARGINING"
    BY PayloadOffset, ConstantsAssumption, Zenon DEF Outcomes, Passes
  <1>2. StepsOf(WithDir(o)) <= PassesTo(WithDir(o))
    BY <1>1, PayloadOffset, SMT DEF ReceiverStatus
  <1> QED BY <1>2, PayloadOffset, Zenon DEF PassesTo

\* In a loop of testEyeSize the invariant gives the facts its steps need.
LEMMA LoopFacts ==
  ASSUME EyeSpecsInPayload, TypeOK, RangeInv, pc \in {"eyePos", "eyeNeg"}
  PROVE  /\ spec \in Specs /\ eye \in EyeType /\ eye.pos \in Int /\ eye.neg \in Int
         /\ rng = EyeSizeRange(spec) /\ EyeSizeMode(spec)
         /\ offset \in rng.target .. (rng.start - rng.target)
         /\ offset \in Nat /\ offset < 256
         /\ rng.start \in Nat /\ rng.target \in Nat
         /\ U16(rng.start - offset) \in rng.target .. (rng.start - rng.target)
         /\ U16(rng.start - offset) = rng.start - offset
  <1>1. spec \in Specs /\ eye \in EyeType /\ rng = EyeSizeRange(spec) /\ EyeSizeMode(spec)
        /\ offset \in rng.target .. (rng.start - rng.target)
    BY Zenon DEF RangeInv, ModeInv, FitInv, TypeOK
  <1>2. rng.start \in Nat /\ rng.target \in Nat /\ rng.start < 256
    BY <1>1, EyeFacts
  <1>3. offset \in Nat /\ offset < 256 /\ rng.start - offset \in Nat
        /\ rng.start - offset < WordSize
    BY <1>1, <1>2, WordSizeType, SMT
  <1>4. U16(rng.start - offset) = rng.start - offset
    BY <1>3, U16Same, Zenon
  <1>5. rng.start - offset \in rng.target .. (rng.start - rng.target)
    BY <1>1, <1>2, SMT
  <1>6. eye.pos \in Int /\ eye.neg \in Int
    BY <1>1, SMT DEF EyeType
  <1> QED BY <1>1, <1>2, <1>3, <1>4, <1>5, <1>6, Zenon

\* An eye-size check starts from half of the required eye, rounded up.
LEMMA HalfFits ==
  ASSUME EyeSpecsInPayload, spec \in Specs, rng' = EyeSizeRange(spec), EyeSizeMode(spec)
  PROVE  LET half == rng'.start - rng'.start \div 2
         IN  U16(half) = half /\ half \in rng'.target .. (rng'.start - rng'.target)
  <1> DEFINE r == EyeSizeRange(spec)
             half == r.start - r.start \div 2
  <1>1. r.start \in Nat /\ r.start < 256 /\ r.target \in Nat /\ 2 * r.target <= r.start
    BY EyeFacts
  <1>2. half \in Nat /\ half < WordSize /\ half \in r.target .. (r.start - r.target)
    <2> HIDE DEF r
    <2> QED BY <1>1, WordSizeType, SMT
  <1>3. U16(half) = half
    <2> HIDE DEF half
    <2> QED BY <1>2, U16Same, Zenon
  <1> QED BY <1>2, <1>3, Zenon

\* What a step of testEyeSize leaves alone, and where it goes.
LEMMA LoopStep ==
  ASSUME EyeSpecsInPayload, TypeOK, RangeInv, TestEyeSize
  PROVE  /\ pc \in {"eyePos", "eyeNeg"} /\ UNCHANGED <<spec, eye, indDir, rng>>
         /\ rng.mode = "eyeSize"
         /\ pc' \in {"eyePos", "eyeNeg", "output"}
         /\ pc' \in {"eyePos", "eyeNeg"} => offset' \in rng.target .. (rng.start - rng.target)
  <1> USE DEF config
  <1>1. pc \in {"eyePos", "eyeNeg"} /\ UNCHANGED <<spec, eye, indDir, rng>>
        /\ rng.mode = "eyeSize"
    BY Zenon DEF TestEyeSize, EyeBoth, EyePosPasses, EyePosFails, EyeNegPasses, EyeNegFails,
                 RangeInv, ModeInv
  <1>2. /\ spec \in Specs /\ rng = EyeSizeRange(spec) /\ EyeSizeMode(spec)
        /\ offset \in rng.target .. (rng.start - rng.target)
        /\ U16(rng.start - offset) \in rng.target .. (rng.start - rng.target)
    BY <1>1, LoopFacts, Zenon
  <1>3. ~(offset <= rng.target) => NextInwards \in rng.target .. (rng.start - rng.target)
    BY <1>2, InwardsFits, Zenon
  <1>4. /\ pc' \in {"eyePos", "eyeNeg", "output"}
        /\ pc' \in {"eyePos", "eyeNeg"} => offset' \in rng.target .. (rng.start - rng.target)
    BY <1>2, <1>3, Zenon DEF TestEyeSize, EyeBoth, EyePosPasses, EyePosFails,
                             EyeNegPasses, EyeNegFails, LeavePos
  <1> QED BY <1>1, <1>4, Zenon

\* A step of scanEye is not one of an eye-size check.
LEMMA ScanIsElsewhere ==
  ASSUME RangeInv, ScanEye
  PROVE  /\ pc \in {"scanPos", "scanNeg"} /\ pc' \in {"scanPos", "scanNeg", "output"}
         /\ spec' = spec /\ eye' = eye /\ rng' = rng /\ rng.mode # "eyeSize"
  BY Zenon DEF ScanEye, ScanPosSkipped, ScanPosMargins, ScanNegFollows, ScanNegMargins, Advance,
               RangeInv, ModeInv, config

\* Determining the range starts an eye-size check at half of the required eye, or a scan.
LEMMA DetermineStep ==
  ASSUME EyeSpecsInPayload, RangeInv, DetermineMarginRange
  PROVE  /\ pc = "prepare" /\ UNCHANGED <<spec, eye, indDir, passAt, failAt, passNeg, lnPass>>
         /\ \/ /\ EyeSizeMode(spec) /\ rng' = EyeSizeRange(spec) /\ rng'.mode = "eyeSize"
               /\ pc' = "eyePos" /\ offset' \in rng'.target .. (rng'.start - rng'.target)
            \/ pc' = "scanPos" /\ rng'.mode # "eyeSize"
  <1>1. /\ pc = "prepare" /\ UNCHANGED <<spec, eye, indDir, passAt, failAt, passNeg, lnPass>>
        /\ rng' = MarginRangeOf(spec, NumSteps) /\ spec \in Specs
    BY Zenon DEF DetermineMarginRange, RangeInv, ModeInv, config, marks
  <1>2. CASE EyeSizeMode(spec)
    <2>1. rng' = EyeSizeRange(spec)
      BY <1>1, <1>2, Zenon DEF MarginRangeOf
    <2>2. rng'.mode = "eyeSize"
      BY <2>1, SMT DEF EyeSizeRange
    <2>3. pc' = "eyePos" /\ offset' \in rng'.target .. (rng'.start - rng'.target)
      BY <1>1, <1>2, <2>1, <2>2, HalfFits, Zenon DEF DetermineMarginRange
    <2> QED BY <1>1, <1>2, <2>1, <2>2, <2>3, Zenon
  <1>3. CASE ~EyeSizeMode(spec)
    <2>1. rng'.mode # "eyeSize"
      BY <1>1, <1>3, SMT DEF MarginRangeOf, ScanRange
    <2>2. pc' = "scanPos"
      BY <2>1, Zenon DEF DetermineMarginRange
    <2> QED BY <1>1, <2>1, <2>2, Zenon
  <1> QED BY <1>2, <1>3, Zenon

\* A step preserves the range.
LEMMA RangeStep ==
  ASSUME EyeSpecsInPayload, TypeOK, RangeInv, [Next]_vars
  PROVE  RangeInv'
  <1> USE DEF config, marks
  <1>1. ModeInv /\ FitInv
    BY Zenon DEF RangeInv
  <1>2. CASE SkipEmpty
    BY <1>1, <1>2, SMT DEF SkipEmpty, RangeInv, ModeInv, FitInv
  <1>3. CASE SetErrLimitFails
    BY <1>1, <1>3, SMT DEF SetErrLimitFails, RangeInv, ModeInv, FitInv
  <1>4. CASE DetermineMarginRange
    <2>1. /\ spec' = spec /\ eye' = eye
          /\ \/ /\ EyeSizeMode(spec) /\ rng' = EyeSizeRange(spec) /\ rng'.mode = "eyeSize"
                /\ pc' = "eyePos" /\ offset' \in rng'.target .. (rng'.start - rng'.target)
             \/ pc' = "scanPos" /\ rng'.mode # "eyeSize"
      BY <1>4, DetermineStep, Zenon
    <2> QED BY <1>1, <2>1, SMT DEF RangeInv, ModeInv, FitInv
  <1>5. CASE TestEyeSize
    <2>1. /\ UNCHANGED <<spec, eye, indDir, rng>> /\ rng.mode = "eyeSize"
          /\ pc' \in {"eyePos", "eyeNeg", "output"}
          /\ pc' \in {"eyePos", "eyeNeg"} => offset' \in rng.target .. (rng.start - rng.target)
      BY <1>5, LoopStep, Zenon
    <2> QED BY <1>1, <2>1, SMT DEF RangeInv, ModeInv, FitInv
  <1>6. CASE ScanEye
    BY <1>1, <1>6, ScanIsElsewhere, SMT DEF RangeInv, ModeInv, FitInv
  <1>7. CASE OutputEyeMeasurement
    <2>1. pc' = "done" /\ UNCHANGED <<spec, eye, rng>>
      BY <1>7, Zenon DEF OutputEyeMeasurement
    <2> QED BY <1>1, <2>1, SMT DEF RangeInv, ModeInv, FitInv
  <1>8. CASE UNCHANGED vars
    BY <1>1, <1>8, SMT DEF vars, RangeInv, ModeInv, FitInv
  <1> QED BY <1>2, <1>3, <1>4, <1>5, <1>6, <1>7, <1>8, Zenon DEF Next

LEMMA RangeInit == Init => RangeInv
  BY SMT DEF Init, NoRange, RangeInv, ModeInv, FitInv

-----------------------------------------------------------------------------
\* The check is sound, in the whole of an offset's payload.

\* What is left of the required eye to the negative side.
Rest == IF pc = "eyeNeg" THEN offset ELSE SizeAt("neg")

\* A positive mark of an offset that had reached the direction bit: the offset and what it leaves
\* to the negative side are at most the required eye, and the mark is a direction bit short of it.
Misread == passAt["pos"] + DirMask + Rest <= rng.start

\* A pass marked on the negative side is real, one on the positive side real or misread.
RealInv ==
  rng.mode = "eyeSize" =>
    /\ passAt["neg"] # None => passAt["neg"] <= eye.neg
    /\ passAt["pos"] # None => passAt["pos"] <= eye.pos \/ Misread

\* How the loops use up the required eye.
UsedInv ==
  /\ pc = "prepare" => passAt["pos"] = None /\ passAt["neg"] = None /\ ~passNeg
  /\ pc = "eyePos" => IF passNeg THEN passAt["neg"] # None /\ passAt["neg"] + offset <= rng.start
                      ELSE passAt["pos"] = None /\ passAt["neg"] = None
  /\ pc = "eyeNeg" => indDir /\ passAt["neg"] = None

VerdictInv == rng.mode = "eyeSize" /\ pc = "done" /\ lnPass => TotalSize >= spec.eye

SoundInv == RangeInv /\ RealInv /\ UsedInv /\ VerdictInv

\* A step preserves the invariant: the loops of testEyeSize.
LEMMA SoundLoop ==
  ASSUME EyeSpecsInPayload, TypeOK, SoundInv, TestEyeSize
  PROVE  RealInv' /\ UsedInv'
  <1> USE DEF config, marks
  <1>1. RangeInv /\ RealInv /\ UsedInv
    BY Zenon DEF SoundInv
  <1>2. /\ pc \in {"eyePos", "eyeNeg"} /\ indDir' = indDir /\ eye' = eye /\ rng' = rng
        /\ rng.mode = "eyeSize"
    BY <1>1, LoopStep, Zenon
  <1>3. /\ spec \in Specs /\ eye \in EyeType /\ eye.pos \in Int /\ eye.neg \in Int
        /\ rng = EyeSizeRange(spec) /\ EyeSizeMode(spec)
        /\ offset \in rng.target .. (rng.start - rng.target)
        /\ offset \in Nat /\ offset < 256 /\ rng.start \in Nat /\ rng.target \in Nat
        /\ U16(rng.start - offset) = rng.start - offset
    BY <1>1, <1>2, LoopFacts, Zenon
  <1>4. /\ passAt \in [Sides -> MarkType] /\ DirMask \in Nat /\ DirMask >= 1
        /\ None \notin Nat
    BY DirMaskType, SMT DEF TypeOK, None
  <1>5. \A s \in Sides : passAt[s] = None \/ passAt[s] \in Nat
    BY <1>4, WordSizeType, SMT DEF MarkType, None
  <1>6. /\ StepsOf(offset) \in Nat
        /\ IsNeg(offset) => StepsOf(offset) + DirMask = offset
        /\ StepsOf(WithDir(offset)) \in 0 .. offset
    BY <1>3, PayloadOffset
  <1>7. ~(offset <= rng.target) => NextInwards \in Nat /\ NextInwards < offset
    BY <1>3, InwardsFits, SMT
  <1>8. ASSUME EyeBoth PROVE RealInv' /\ UsedInv'
    <2>1. PICK status \in Outcomes(offset) :
            IF Passes(status) THEN passAt' = [s \in Sides |-> StepsOf(offset)]
                              ELSE passAt' = passAt
      BY <1>8, Zenon DEF EyeBoth
    <2>2. ~indDir /\ pc = "eyePos" /\ pc' = "output"
      BY <1>8, Zenon DEF EyeBoth
    <2>3. CASE Passes(status)
      <3>1. StepsOf(offset) <= eye.pos /\ StepsOf(offset) <= eye.neg
        BY <1>3, <2>2, <2>3, PassIsReal, Zenon
      <3>2. passAt'["pos"] = StepsOf(offset) /\ passAt'["neg"] = StepsOf(offset)
        BY <2>1, <2>3, SidesAre, SMT
      <3> QED BY <1>2, <2>2, <3>1, <3>2, SMT DEF RealInv, UsedInv
    <2>4. CASE ~Passes(status)
      <3>1. passAt' = passAt
        BY <2>1, <2>4, Zenon
      <3>2. Rest' = Rest
        BY <2>2, <3>1, SMT DEF Rest, SizeAt
      <3> QED BY <1>1, <1>2, <2>2, <3>1, <3>2, SMT DEF RealInv, UsedInv, Misread
    <2> QED BY <2>3, <2>4, Zenon
  <1>9. ASSUME EyePosPasses PROVE RealInv' /\ UsedInv'
    <2>1. /\ indDir /\ pc = "eyePos" /\ passNeg' = passNeg
          /\ passAt' = [passAt EXCEPT !["pos"] = StepsOf(offset)]
          /\ IF passNeg THEN pc' = "output" ELSE pc' = "eyeNeg" /\ offset' = rng.start - offset
      BY <1>3, <1>9, Zenon DEF EyePosPasses, LeavePos
    <2>2. IF IsNeg(offset) THEN StepsOf(offset) <= eye.neg ELSE StepsOf(offset) <= eye.pos
      BY <1>3, <1>9, <2>1, PassIsReal, Zenon DEF EyePosPasses
    <2>3. passAt'["pos"] = StepsOf(offset) /\ passAt'["neg"] = passAt["neg"]
      BY <1>4, <2>1, SidesAre, SMT
    <2>4. CASE passNeg
      <3>1. passAt["neg"] \in Nat /\ passAt["neg"] + offset <= rng.start
        BY <1>1, <1>5, <2>1, <2>4, SidesAre, Zenon DEF UsedInv
      <3>2. pc' = "output" /\ Rest' = passAt["neg"]
        <4>1. pc' = "output" /\ passAt["neg"] # None
          BY <1>4, <2>1, <2>4, <3>1, Zenon
        <4> QED BY <2>3, <4>1, SMT DEF Rest, SizeAt
      <3>3. IsNeg(offset) => Misread'
        BY <1>2, <1>3, <1>4, <1>6, <2>3, <3>1, <3>2, SMT DEF Misread
      <3>4. StepsOf(offset) <= eye.pos \/ Misread'
        BY <2>2, <3>3, Zenon
      <3>5. RealInv'
        BY <1>1, <1>2, <2>3, <3>4, Zenon DEF RealInv
      <3>6. UsedInv'
        BY <3>2, SMT DEF UsedInv
      <3> QED BY <3>5, <3>6, Zenon
    <2>5. CASE ~passNeg
      <3>1. passAt["neg"] = None
        BY <1>1, <2>1, <2>5, Zenon DEF UsedInv
      <3>2. pc' = "eyeNeg" /\ Rest' = rng.start - offset
        BY <2>1, <2>5, Zenon DEF Rest
      <3>3. IsNeg(offset) => Misread'
        BY <1>2, <1>3, <1>4, <1>6, <2>3, <3>2, SMT DEF Misread
      <3>4. StepsOf(offset) <= eye.pos \/ Misread'
        BY <2>2, <3>3, Zenon
      <3>5. RealInv'
        BY <1>1, <1>2, <2>3, <3>4, Zenon DEF RealInv
      <3>6. UsedInv'
        BY <1>2, <2>1, <2>3, <3>1, <3>2, SMT DEF UsedInv
      <3> QED BY <3>5, <3>6, Zenon
    <2> QED BY <2>4, <2>5, Zenon
  <1>10. ASSUME EyePosFails PROVE RealInv' /\ UsedInv'
    <2>1. /\ indDir /\ pc = "eyePos" /\ passAt' = passAt /\ passNeg' = passNeg
          /\ \/ passNeg /\ pc' = "output"
             \/ ~passNeg /\ pc' = "eyeNeg"
             \/ ~(offset <= rng.target) /\ pc' = "eyePos" /\ offset' = NextInwards
      BY <1>10, Zenon DEF EyePosFails, LeavePos
    <2>2. CASE passNeg
      <3>1. /\ passAt["neg"] \in Nat /\ passAt["neg"] + offset <= rng.start
            /\ pc' = "output" \/ (pc' = "eyePos" /\ offset' \in Nat /\ offset' < offset)
        BY <1>1, <1>5, <1>7, <2>1, <2>2, SidesAre, Zenon DEF UsedInv
      <3>2. Rest' = Rest /\ pc' # "eyeNeg" /\ pc' # "prepare"
        BY <2>1, <3>1, SMT DEF Rest, SizeAt
      <3>3. RealInv'
        BY <1>1, <1>2, <2>1, <3>2, Zenon DEF RealInv, Misread
      <3>4. passAt["neg"] # None /\ (pc' = "eyePos" => passAt["neg"] + offset' <= rng.start)
        BY <1>3, <1>4, <3>1, SMT
      <3> QED BY <1>2, <2>1, <2>2, <3>2, <3>3, <3>4, Zenon DEF UsedInv
    <2>3. CASE ~passNeg
      <3>1. passAt["pos"] = None /\ passAt["neg"] = None
        BY <1>1, <2>1, <2>3, Zenon DEF UsedInv
      <3> QED BY <1>2, <2>1, <2>3, <3>1, SMT DEF RealInv, UsedInv
    <2> QED BY <2>2, <2>3, Zenon
  <1>11. ASSUME EyeNegPasses PROVE RealInv' /\ UsedInv'
    <2>1. /\ pc = "eyeNeg" /\ passNeg'
          /\ passAt' = [passAt EXCEPT !["neg"] = StepsOf(WithDir(offset))]
          /\ \/ pc' = "eyePos" /\ offset' = rng.start - offset
             \/ pc' = "output"
      BY <1>3, <1>11, Zenon DEF EyeNegPasses
    <2>2. indDir
      BY <1>1, <2>1, Zenon DEF UsedInv
    <2>3. StepsOf(WithDir(offset)) <= eye.neg
      BY <1>3, <1>11, <2>2, PassIsRealNeg, Zenon DEF EyeNegPasses
    <2>4. passAt'["neg"] = StepsOf(WithDir(offset)) /\ passAt'["pos"] = passAt["pos"]
      BY <1>4, <2>1, SidesAre, SMT
    <2>5. Rest = offset /\ Rest' = StepsOf(WithDir(offset))
      <3>1. StepsOf(WithDir(offset)) # None
        BY <1>6, SMT DEF None
      <3> QED BY <2>1, <2>4, <3>1, SMT DEF Rest, SizeAt
    <2>6. passAt["pos"] # None /\ Misread => Misread'
      BY <1>2, <1>3, <1>4, <1>5, <1>6, <2>4, <2>5, SidesAre, SMT DEF Misread
    <2>7. RealInv'
      BY <1>1, <1>2, <2>3, <2>4, <2>6, Zenon DEF RealInv
    <2>8. UsedInv'
      <3>1. /\ StepsOf(WithDir(offset)) # None
            /\ StepsOf(WithDir(offset)) + (rng.start - offset) <= rng.start
        BY <1>3, <1>6, SMT DEF None
      <3> QED BY <1>2, <2>1, <2>4, <3>1, SMT DEF UsedInv
    <2> QED BY <2>7, <2>8, Zenon
  <1>12. ASSUME EyeNegFails PROVE RealInv' /\ UsedInv'
    <2>1. /\ pc = "eyeNeg" /\ passAt' = passAt
          /\ \/ pc' = "output"
             \/ ~(offset <= rng.target) /\ pc' = "eyeNeg" /\ offset' = NextInwards
      BY <1>12, Zenon DEF EyeNegFails
    <2>2. indDir /\ passAt["neg"] = None
      BY <1>1, <2>1, Zenon DEF UsedInv
    <2>3. Rest = offset /\ Rest' \in Nat /\ Rest' <= offset
      <3>1. CASE pc' = "output"
        BY <1>3, <2>1, <2>2, <3>1, SMT DEF Rest, SizeAt
      <3>2. CASE pc' = "eyeNeg"
        BY <1>3, <1>7, <2>1, <3>2, SMT DEF Rest
      <3> QED BY <2>1, <3>1, <3>2, Zenon
    <2>4. passAt["pos"] # None /\ Misread => Misread'
      BY <1>2, <1>3, <1>4, <1>5, <2>1, <2>3, SidesAre, SMT DEF Misread
    <2>5. RealInv'
      BY <1>1, <1>2, <2>1, <2>4, Zenon DEF RealInv
    <2> QED BY <1>2, <2>1, <2>2, <2>5, SMT DEF UsedInv
  <1> QED BY <1>8, <1>9, <1>10, <1>11, <1>12, Zenon DEF TestEyeSize

\* The other steps.
LEMMA SoundStep ==
  ASSUME EyeSpecsInPayload, TypeOK, SoundInv, [Next]_vars
  PROVE  SoundInv'
  <1> USE DEF config, marks
  <1>1. RangeInv /\ RealInv /\ UsedInv /\ VerdictInv
    BY Zenon DEF SoundInv
  <1>2. RangeInv'
    BY <1>1, RangeStep, Zenon
  <1>3. CASE SkipEmpty \/ SetErrLimitFails
    <2>1. /\ pc = "prepare" /\ pc' \in {"skipped", "aborted"} /\ rng' = rng
      BY <1>3, Zenon DEF SkipEmpty, SetErrLimitFails
    <2>2. rng.mode # "eyeSize"
      BY <1>1, <2>1, Zenon DEF RangeInv, ModeInv
    <2> QED BY <1>2, <2>1, <2>2, SMT DEF SoundInv, RealInv, UsedInv, VerdictInv
  <1>4. CASE DetermineMarginRange
    <2>1. /\ pc = "prepare" /\ passAt' = passAt /\ passNeg' = passNeg
          /\ pc' \in {"eyePos", "scanPos"}
      BY <1>1, <1>4, DetermineStep, Zenon
    <2>2. passAt["pos"] = None /\ passAt["neg"] = None /\ ~passNeg
      BY <1>1, <2>1, Zenon DEF UsedInv
    <2> QED BY <1>2, <2>1, <2>2, SMT DEF SoundInv, RealInv, UsedInv, VerdictInv
  <1>5. CASE TestEyeSize
    <2>1. RealInv' /\ UsedInv' /\ pc' # "done"
      BY <1>1, <1>5, LoopStep, SoundLoop, SMT
    <2> QED BY <1>2, <2>1, Zenon DEF SoundInv, VerdictInv
  <1>6. CASE ScanEye
    <2>1. pc' \in {"scanPos", "scanNeg", "output"} /\ rng' = rng /\ rng.mode # "eyeSize"
      BY <1>1, <1>6, ScanIsElsewhere, Zenon
    <2> QED BY <1>2, <2>1, SMT DEF SoundInv, RealInv, UsedInv, VerdictInv
  <1>7. CASE OutputEyeMeasurement
    <2>1. /\ pc = "output" /\ pc' = "done" /\ UNCHANGED <<spec, eye, indDir, rng, passAt>>
          /\ rng.mode = "eyeSize" /\ lnPass' => spec.eye = None \/ TotalSize >= spec.eye
      BY <1>7, Zenon DEF OutputEyeMeasurement
    <2>2. TotalSize' = TotalSize /\ Rest' = Rest
      BY <2>1, SMT DEF TotalSize, SizeAt, Rest
    <2>3. rng.mode = "eyeSize" => spec.eye # None
      BY <1>1, Zenon DEF RangeInv, ModeInv, EyeSizeMode
    <2>4. VerdictInv'
      BY <2>1, <2>2, <2>3, Zenon DEF VerdictInv
    <2>5. RealInv'
      BY <1>1, <2>1, <2>2, Zenon DEF RealInv, Misread
    <2> QED BY <1>2, <2>1, <2>4, <2>5, SMT DEF SoundInv, UsedInv
  <1>8. CASE UNCHANGED vars
    BY <1>1, <1>2, <1>8, Zenon DEF vars, SoundInv, RealInv, UsedInv, VerdictInv, Misread, Rest,
                                   TotalSize, SizeAt
  <1> QED BY <1>3, <1>4, <1>5, <1>6, <1>7, <1>8, Zenon DEF Next

LEMMA SoundInit == Init => SoundInv
  <1> SUFFICES ASSUME Init PROVE SoundInv
    OBVIOUS
  <1>1. rng.mode = "none" /\ pc = "prepare" /\ ~passNeg
    BY SMT DEF Init, NoRange
  <1>2. passAt["pos"] = None /\ passAt["neg"] = None
    BY SidesAre, Zenon DEF Init
  <1> QED BY <1>1, <1>2, RangeInit, SMT DEF SoundInv, RealInv, UsedInv, VerdictInv

\* An eye-size check (testEyeSize, judged by outputEyeMeasurement) passes a lane only if the eye is
\* as large as required, whatever the receiver's capability, eye, directions and faults.  Assumed
\* of the specs: required eyes of less than 256 steps and steps of at most the target offset
\* plus 1 (EyeSpecsInPayload).  The code bounds neither, and the check is not sound beyond
\* them: a required eye of 511 steps, or a step of 2 that underflows, can pass a smaller one.
THEOREM EyeCheckSound ==
  ASSUME EyeSpecsInPayload
  PROVE  Spec => []EyeSizeSound
  <1>1. TypeOK /\ SoundInv => EyeSizeSound
    <2> SUFFICES ASSUME TypeOK, SoundInv, pc = "done", rng.mode = "eyeSize", lnPass
                 PROVE  EyeSpan >= spec.eye
      BY Zenon DEF EyeSizeSound
    <2>1. /\ TotalSize >= spec.eye
          /\ passAt["neg"] # None => passAt["neg"] <= eye.neg
          /\ passAt["pos"] # None => passAt["pos"] <= eye.pos \/ Misread
      BY Zenon DEF SoundInv, VerdictInv, RealInv
    <2>2. rng.start = spec.eye /\ spec.eye \in Nat
      BY EyeFacts, Zenon DEF SoundInv, RangeInv, ModeInv
    <2>3. /\ passAt["pos"] \in MarkType /\ passAt["neg"] \in MarkType
      BY SMT DEF TypeOK, Sides
    <2>4. /\ eye.pos \in Int /\ eye.neg \in Int /\ eye.pos >= -1 /\ eye.neg >= -1
          /\ (eye.pos = -1) <=> (eye.neg = -1)
      <3>1. eye \in Eyes /\ eye \in EyeType
        BY Zenon DEF SoundInv, RangeInv, ModeInv, TypeOK
      <3>2. (eye.pos = -1) <=> (eye.neg = -1)
        BY <3>1, ConstantsAssumption, Zenon
      <3> QED BY <3>1, <3>2, ConstantsAssumption, SMT DEF EyeType
    <2>5. Rest = SizeAt("neg")
      BY SMT DEF Rest
    <2>6. CASE passAt["pos"] # None /\ Misread
      \* Then the two marks fall short of the required eye, which the verdict excludes.
      BY <2>1, <2>2, <2>3, <2>5, <2>6, DirMaskType, WordSizeType, SMT
         DEF TotalSize, SizeAt, Misread, MarkType, None
    <2>7. CASE passAt["pos"] = None \/ passAt["pos"] <= eye.pos
      BY <2>1, <2>2, <2>3, <2>4, <2>7, WordSizeType, SMT
         DEF TotalSize, SizeAt, EyeSpan, MarkType, None
    <2> QED BY <2>1, <2>6, <2>7, Zenon
  <1>2. TypeOK /\ SoundInv /\ [Next]_vars => SoundInv'
    BY SoundStep, Zenon
  <1> QED BY <1>1, <1>2, SoundInit, TypeCorrect, PTL DEF Spec

-----------------------------------------------------------------------------
\* Below the direction bit the check stays in its range.

\* What the loops know of the marks: both sides have a pass before a redo, and a side
\* left without a pass has its failure at the target.
LoopInv ==
  /\ pc = "prepare" => /\ \A s \in Sides : passAt[s] = None /\ failAt[s] = None
                       /\ ~passNeg /\ lnPass
  /\ pc = "eyePos" => IF passNeg THEN passAt["pos"] # None /\ passAt["neg"] # None
                      ELSE passAt["pos"] = None
  /\ pc = "eyeNeg" => /\ indDir /\ ~passNeg
                      /\ passPos => passAt["pos"] # None
                      /\ passAt["pos"] = None => failAt["pos"] = rng.target

\* What is known once the loops are over.
EndInv ==
  rng.mode = "eyeSize" /\ pc \in {"output", "done"} /\ indDir =>
    \A s \in Sides : passAt[s] = None => failAt[s] = rng.target

EyeInv == RangeInv /\ LoopInv /\ EndInv

\* Below the direction bit an offset is the number of steps; with the bit on, too.
LEMMA SmallOffset ==
  ASSUME NEW o \in Nat, o < DirMask
  PROVE  /\ ~IsNeg(o) /\ Payload(o) = o /\ StepsOf(o) = o
         /\ IsNeg(WithDir(o)) /\ Payload(WithDir(o)) = WithDir(o) /\ StepsOf(WithDir(o)) = o
  <1>1. ~IsNeg(o) /\ IsNeg(o + DirMask)
    BY DirMaskIs, SMT DEF IsNeg
  <1>2. WithDir(o) = o + DirMask
    BY <1>1, Zenon DEF WithDir
  <1>3. StepsOf(o) = o /\ StepsOf(WithDir(o)) = (o + DirMask) - DirMask
    BY <1>1, <1>2, Zenon DEF StepsOf
  <1>4. (o + DirMask) - DirMask = o
    BY DirMaskType, SMT
  <1>5. o < 256
    BY DirMaskType, SMT
  <1> QED BY <1>1, <1>2, <1>3, <1>4, <1>5, PayloadOffset, Zenon

\* The offsets of a check that fits are so small.
LEMMA SmallLoop ==
  ASSUME EyeSpecsFit, TypeOK, RangeInv, pc \in {"eyePos", "eyeNeg"}
  PROVE  /\ offset < DirMask
         /\ StepsOf(offset) = offset /\ StepsOf(WithDir(offset)) = offset
  <1>1. /\ spec \in Specs /\ EyeSizeMode(spec) /\ rng = EyeSizeRange(spec)
        /\ offset \in rng.target .. (rng.start - rng.target) /\ offset \in Nat
    BY FitInPayload, LoopFacts, Zenon
  <1>2. rng.start = spec.eye /\ rng.start \in Nat /\ rng.target \in Nat
    BY <1>1, FitInPayload, EyeFacts, Zenon
  <1>3. spec.eye < DirMask
    BY <1>1, Zenon DEF EyeSpecsFit
  <1>4. offset < DirMask
    BY <1>1, <1>2, <1>3, DirMaskType, SMT
  <1> QED BY <1>1, <1>4, SmallOffset, Zenon

\* A step preserves the invariant.
LEMMA EyeInvStep ==
  ASSUME EyeSpecsFit, TypeOK, EyeInv, [Next]_vars
  PROVE  EyeInv'
  <1> USE DEF config, marks
  <1>1. RangeInv /\ LoopInv /\ EndInv /\ EyeSpecsInPayload
    BY FitInPayload, Zenon DEF EyeInv
  <1>2. RangeInv'
    BY <1>1, RangeStep, Zenon
  <1>3. CASE SkipEmpty \/ SetErrLimitFails
    <2>1. pc = "prepare" /\ pc' \in {"skipped", "aborted"}
      BY <1>3, Zenon DEF SkipEmpty, SetErrLimitFails
    <2> QED BY <1>2, <2>1, SMT DEF EyeInv, LoopInv, EndInv
  <1>4. CASE DetermineMarginRange
    <2>1. /\ pc = "prepare" /\ passAt' = passAt /\ passNeg' = passNeg
          /\ pc' \in {"eyePos", "scanPos"}
      BY <1>1, <1>4, DetermineStep, Zenon
    <2>2. passAt["pos"] = None /\ passAt["neg"] = None /\ ~passNeg
      BY <1>1, <2>1, SidesAre, Zenon DEF LoopInv
    <2> QED BY <1>2, <2>1, <2>2, SMT DEF EyeInv, LoopInv, EndInv
  <1>5. CASE TestEyeSize
    <2>1. pc \in {"eyePos", "eyeNeg"} /\ UNCHANGED <<spec, eye, indDir, rng>>
          /\ rng.mode = "eyeSize" /\ pc' \in {"eyePos", "eyeNeg", "output"}
      BY <1>1, <1>5, LoopStep, Zenon
    <2>2. /\ offset \in rng.target .. (rng.start - rng.target)
          /\ offset \in Nat /\ rng.start \in Nat /\ rng.target \in Nat
          /\ StepsOf(offset) = offset /\ StepsOf(WithDir(offset)) = offset
      BY <1>1, <2>1, LoopFacts, SmallLoop, Zenon
    <2>3. passAt \in [Sides -> MarkType] /\ failAt \in [Sides -> MarkType]
      BY Zenon DEF TypeOK
    <2>4. offset # None
      BY <2>2, SMT DEF None
    <2>5. ASSUME EyeBoth PROVE LoopInv' /\ EndInv'
      <3>1. ~indDir /\ pc' = "output"
        BY <2>5, Zenon DEF EyeBoth
      <3> QED BY <2>1, <3>1, SMT DEF LoopInv, EndInv
    <2>6. ASSUME EyePosPasses PROVE LoopInv' /\ EndInv'
      <3>1. /\ indDir /\ pc = "eyePos" /\ passPos' /\ failAt' = failAt /\ passNeg' = passNeg
            /\ passAt' = [passAt EXCEPT !["pos"] = offset]
            /\ IF passNeg THEN pc' = "output" ELSE pc' = "eyeNeg"
        BY <2>2, <2>6, Zenon DEF EyePosPasses, LeavePos
      <3>2. passAt'["pos"] = offset /\ passAt'["neg"] = passAt["neg"]
        BY <2>3, <3>1, SidesAre, SMT
      <3>3. passNeg => passAt["neg"] # None
        BY <1>1, <3>1, Zenon DEF LoopInv
      <3>4. LoopInv'
        BY <2>1, <2>4, <3>1, <3>2, SMT DEF LoopInv
      <3> QED BY <2>4, <3>1, <3>2, <3>3, <3>4, SMT DEF EndInv, Sides
    <2>7. ASSUME EyePosFails PROVE LoopInv' /\ EndInv'
      <3>1. /\ indDir /\ pc = "eyePos" /\ ~passPos' /\ passAt' = passAt /\ passNeg' = passNeg
            /\ failAt' = [failAt EXCEPT !["pos"] = offset]
            /\ IF offset <= rng.target
               THEN IF passNeg THEN pc' = "output" ELSE pc' = "eyeNeg"
               ELSE pc' = "eyePos"
        BY <2>2, <2>7, Zenon DEF EyePosFails, LeavePos
      <3>2. failAt'["pos"] = offset /\ failAt'["neg"] = failAt["neg"]
        BY <2>3, <3>1, SidesAre, SMT
      <3>3. IF passNeg THEN passAt["pos"] # None /\ passAt["neg"] # None ELSE passAt["pos"] = None
        BY <1>1, <3>1, Zenon DEF LoopInv
      <3>4. offset <= rng.target => offset = rng.target
        BY <2>2, SMT
      <3>5. LoopInv'
        BY <2>1, <3>1, <3>2, <3>3, <3>4, SMT DEF LoopInv
      <3> QED BY <3>1, <3>3, <3>5, SMT DEF EndInv, Sides
    <2>8. ASSUME EyeNegPasses PROVE LoopInv' /\ EndInv'
      <3>1. /\ pc = "eyeNeg" /\ passNeg' /\ failAt' = failAt /\ passPos' = passPos
            /\ passAt' = [passAt EXCEPT !["neg"] = offset]
            /\ IF RedoPos THEN pc' = "eyePos" ELSE pc' = "output"
        BY <2>2, <2>8, Zenon DEF EyeNegPasses
      <3>2. indDir /\ (passPos => passAt["pos"] # None)
            /\ (passAt["pos"] = None => failAt["pos"] = rng.target)
        BY <1>1, <3>1, Zenon DEF LoopInv
      <3>3. passAt'["neg"] = offset /\ passAt'["pos"] = passAt["pos"]
        BY <2>3, <3>1, SidesAre, SMT
      <3>4. LoopInv'
        BY <2>1, <2>4, <3>1, <3>2, <3>3, SMT DEF LoopInv, RedoPos
      <3> QED BY <2>1, <2>4, <3>1, <3>2, <3>3, <3>4, SMT DEF EndInv, Sides
    <2>9. ASSUME EyeNegFails PROVE LoopInv' /\ EndInv'
      <3>1. /\ pc = "eyeNeg" /\ ~passNeg' /\ passAt' = passAt /\ passPos' = passPos
            /\ failAt' = [failAt EXCEPT !["neg"] = offset]
            /\ IF offset <= rng.target THEN pc' = "output" ELSE pc' = "eyeNeg"
        BY <2>2, <2>9, Zenon DEF EyeNegFails
      <3>2. indDir /\ (passPos => passAt["pos"] # None)
            /\ (passAt["pos"] = None => failAt["pos"] = rng.target)
        BY <1>1, <3>1, Zenon DEF LoopInv
      <3>3. failAt'["neg"] = offset /\ failAt'["pos"] = failAt["pos"]
        BY <2>3, <3>1, SidesAre, SMT
      <3>4. offset <= rng.target => offset = rng.target
        BY <2>2, SMT
      <3>5. LoopInv'
        BY <2>1, <3>1, <3>2, <3>3, SMT DEF LoopInv
      <3> QED BY <2>1, <3>1, <3>2, <3>3, <3>4, <3>5, SMT DEF EndInv, Sides
    <2> QED BY <1>2, <1>5, <2>5, <2>6, <2>7, <2>8, <2>9, Zenon DEF TestEyeSize, EyeInv
  <1>6. CASE ScanEye
    <2>1. rng' = rng /\ rng.mode # "eyeSize" /\ pc' \in {"scanPos", "scanNeg", "output"}
      BY <1>1, <1>6, ScanIsElsewhere, Zenon
    <2> QED BY <1>2, <2>1, SMT DEF EyeInv, LoopInv, EndInv
  <1>7. CASE OutputEyeMeasurement
    <2>1. /\ pc = "output" /\ pc' = "done" /\ UNCHANGED <<indDir, rng, passAt, failAt>>
      BY <1>7, Zenon DEF OutputEyeMeasurement
    <2> QED BY <1>1, <1>2, <2>1, SMT DEF EyeInv, LoopInv, EndInv
  <1>8. CASE UNCHANGED vars
    BY <1>1, <1>2, <1>8, SMT DEF vars, EyeInv, LoopInv, EndInv
  <1> QED BY <1>3, <1>4, <1>5, <1>6, <1>7, <1>8, Zenon DEF Next

LEMMA EyeInvInit == Init => EyeInv
  <1> SUFFICES ASSUME Init PROVE EyeInv
    OBVIOUS
  <1>1. rng.mode = "none" /\ pc = "prepare" /\ ~passNeg /\ lnPass
    BY SMT DEF Init, NoRange
  <1>2. \A s \in Sides : passAt[s] = None /\ failAt[s] = None
    BY Zenon DEF Init
  <1> QED BY <1>1, <1>2, RangeInit, SMT DEF EyeInv, LoopInv, EndInv

\* A side that testEyeSize left without a pass was margined down to the target: the invariant of
\* its loops.
THEOREM EyeChecked ==
  ASSUME EyeSpecsFit
  PROVE  Spec => [](TypeOK /\ EyeInv)
  <1>1. TypeOK /\ EyeInv /\ [Next]_vars => EyeInv'
    BY EyeInvStep, Zenon
  <1> QED BY <1>1, EyeInvInit, TypeCorrect, PTL DEF Spec

\* testEyeSize margins from the target up to the required size only, and a side that never
\* passes ends at the target (comments at lmt_lane.go:612 and 616).
THEOREM EyeCheckInRange ==
  ASSUME EyeSpecsFit
  PROVE  Spec => []EyeSizeWithinRange
  <1>1. TypeOK /\ EyeInv => EyeSizeWithinRange
    <2> SUFFICES ASSUME TypeOK, EyeInv, rng.mode = "eyeSize" PROVE EyeSizeWithinRange
      BY DEF EyeSizeWithinRange
    <2>1. /\ rng.start \in Nat /\ rng.start < DirMask
          /\ rng.target \in Nat /\ 2 * rng.target <= rng.start
      <3>1. spec \in Specs /\ EyeSizeMode(spec) /\ rng = EyeSizeRange(spec)
        BY Zenon DEF EyeInv, RangeInv, ModeInv
      <3>2. rng.start = spec.eye /\ rng.start \in Nat /\ rng.target \in Nat
            /\ 2 * rng.target <= rng.start
        BY <3>1, FitInPayload, EyeFacts, Zenon
      <3> QED BY <3>1, <3>2, Zenon DEF EyeSpecsFit
    <2>2. StepsOf(rng.target) = rng.target
      <3>1. rng.target < DirMask
        BY <2>1, DirMaskType, SMT
      <3> QED BY <2>1, <3>1, SmallOffset, Zenon
    <2>3. pc \in {"eyePos", "eyeNeg"} => offset \in rng.target .. rng.start
      BY <2>1, SMT DEF EyeInv, RangeInv, FitInv
    <2>4. pc = "done" /\ indDir => \A s \in Sides : passAt[s] = None => failAt[s] = rng.target
      BY Zenon DEF EyeInv, EndInv
    <2> QED BY <2>2, <2>3, <2>4, Zenon DEF EyeSizeWithinRange
  <1> QED BY <1>1, EyeChecked, PTL

-----------------------------------------------------------------------------
\* A check down to offset 0 with a step of 1 is exact: it finds the eye wherever its center is.

Half == rng.start - rng.start \div 2
Enough == eye.pos + eye.neg >= spec.eye
Before(o) == o <= Half /\ (failAt["pos"] = None => o = Half)

\* No lane has failed yet but for want of eye.
PlainVerdict == ~lnPass => ~Enough

\* The first search of the positive side goes inwards from half of the required size.
PlainPos ==
  pc = "eyePos" /\ ~passNeg =>
    /\ failAt["neg"] = None
    /\ Before(offset)
    /\ failAt["pos"] # None => eye.pos <= offset

\* The search of the negative side goes inwards from what the positive one left; the positive
\* side is at its edge unless it passed at once.
PlainNeg ==
  pc = "eyeNeg" =>
    /\ passPos /\ passAt["pos"] \in Nat /\ passAt["pos"] <= eye.pos
    /\ Before(passAt["pos"])
    /\ failAt["pos"] # None => passAt["pos"] = eye.pos
    /\ offset <= rng.start - passAt["pos"]
    /\ failAt["neg"] = None => offset = rng.start - passAt["pos"]
    /\ failAt["neg"] # None => eye.neg <= offset /\ offset < rng.start - passAt["pos"]

\* The redo of the positive side starts from what the edge of the negative one left.
PlainRedo ==
  pc = "eyePos" /\ passNeg =>
    /\ passAt["neg"] = eye.neg
    /\ offset <= rng.start - passAt["neg"]
    /\ offset < rng.start - passAt["neg"] => eye.pos <= offset

\* In the end the two passes span the required size, or the whole eye.
PlainEnd ==
  pc \in {"output", "done"} =>
    /\ passAt["pos"] # None /\ passAt["neg"] # None
    /\ TotalSize = IF Enough THEN spec.eye ELSE eye.pos + eye.neg
    /\ pc = "done" => eyeSize = TotalSize

PlainParts == PlainVerdict /\ PlainPos /\ PlainNeg /\ PlainRedo /\ PlainEnd

EyePlainInv == PlainEyeCheck => PlainParts

\* Without a fault an offset within the eye passes, and one beyond it is an ERROR_OUT or a NAK.
LEMMA FailIsReal ==
  ASSUME eye \in EyeType, indDir, NEW o \in Nat, o < DirMask, 
         NEW status, status = ReceiverStatus(Payload(o)), ~Passes(status)
  PROVE  /\ o > eye.pos
         /\ status = "ERROR_OUT" \/ o > NumSteps
  <1>1. ReceiverStatus(Payload(o)) = IF o > NumSteps THEN "NAK"
                                     ELSE IF o <= eye.pos THEN "MARGINING" ELSE "ERROR_OUT"
    BY SmallOffset, Zenon DEF ReceiverStatus, PassesTo
  <1>2. NumSteps \in Nat /\ eye.pos \in Int /\ eye.pos <= NumSteps
    BY ConstantsAssumption, SMT DEF EyeType
  <1> QED BY <1>1, <1>2, SMT DEF Passes

LEMMA FailIsRealNeg ==
  ASSUME eye \in EyeType, indDir, NEW o \in Nat, o < DirMask, 
         NEW status, status = ReceiverStatus(Payload(WithDir(o))), ~Passes(status)
  PROVE  /\ o > eye.neg
         /\ status = "ERROR_OUT" \/ o > NumSteps
  <1>1. ReceiverStatus(Payload(WithDir(o))) =
             IF o > NumSteps THEN "NAK"
             ELSE IF o <= eye.neg THEN "MARGINING" ELSE "ERROR_OUT"
    BY SmallOffset, Zenon DEF ReceiverStatus, PassesTo
  <1>2. NumSteps \in Nat /\ eye.neg \in Int /\ eye.neg <= NumSteps
    BY ConstantsAssumption, SMT DEF EyeType
  <1> QED BY <1>1, <1>2, SMT DEF Passes

\* Without a fault the status is the receiver's.
LEMMA PlainJudge ==
  ASSUME TypeOK, NEW o, NEW status, Judge(o, status), faults' = 0
  PROVE  /\ faults = 0 /\ status = ReceiverStatus(Payload(o))
         /\ status = "ERROR_OUT" /\ rng.errOutOK => (lnPass => lnPass')
  <1>1. faults \in Nat
    BY ConstantsAssumption, SMT DEF TypeOK
  <1>2. faults' # faults + 1
    BY <1>1, SMT
  <1>3. /\ faults' = IF status = ReceiverStatus(Payload(o)) THEN faults ELSE faults + 1
        /\ lnPass' = (lnPass /\ \/ status \in {"MARGINING", "UNKNOWN"}
                                \/ status = "ERROR_OUT" /\ rng.errOutOK)
    BY <1>2, Zenon DEF Judge
  <1> QED BY <1>2, <1>3, Zenon

\* What the loops of such a check rest on.
LEMMA PlainFacts ==
  ASSUME EyeSpecsFit, TypeOK, EyeInv, PlainEyeCheck, pc \in {"eyePos", "eyeNeg"}
  PROVE  /\ rng.start = spec.eye /\ rng.start \in Nat /\ rng.target = 0 /\ rng.errOutOK
         /\ Half \in Nat /\ (2 * Half = rng.start \/ 2 * Half = rng.start + 1)
         /\ eye.pos \in Nat /\ eye.neg \in Nat /\ eye.pos <= NumSteps /\ eye.neg <= NumSteps
         /\ NumSteps \in Nat
         /\ offset \in Nat /\ offset <= rng.start
         /\ U16(rng.start - offset) = rng.start - offset
         /\ offset > 0 => NextInwards = offset - 1
  <1>1. /\ RangeInv /\ rng.mode = "eyeSize" /\ rng.step = 1 /\ rng.target = 0
        /\ eye.pos >= 0 /\ EyeSpecsInPayload
    BY FitInPayload, Zenon DEF EyeInv, PlainEyeCheck
  <1>2. spec \in Specs /\ rng = EyeSizeRange(spec) /\ EyeSizeMode(spec) /\ eye \in Eyes
    BY <1>1, Zenon DEF RangeInv, ModeInv
  <1>3. rng.start = spec.eye /\ rng.start \in Nat /\ rng.errOutOK
    BY <1>1, <1>2, EyeFacts
  <1>4. Half \in Nat /\ (2 * Half = rng.start \/ 2 * Half = rng.start + 1)
    BY <1>3, SMT DEF Half
  <1>5. /\ eye.pos \in Nat /\ eye.neg \in Nat /\ eye.pos <= NumSteps /\ eye.neg <= NumSteps
        /\ NumSteps \in Nat
    <2>1. eye \in EyeType /\ ((eye.pos = -1) <=> (eye.neg = -1)) /\ NumSteps \in Nat
      BY <1>2, ConstantsAssumption, Zenon DEF TypeOK
    <2> QED BY <1>1, <2>1, SMT DEF EyeType
  <1>6. offset \in 0 .. (rng.start - 0) /\ U16(rng.start - offset) = rng.start - offset
    BY <1>1, LoopFacts
  <1>7. ~(offset <= rng.target) => NextInwards = offset - 1
    BY <1>1, <1>2, InwardsFits, Zenon DEF RangeInv, FitInv
  <1> QED BY <1>1, <1>3, <1>4, <1>5, <1>6, <1>7, SMT

\* A step preserves the invariant.
LEMMA PlainStep ==
  ASSUME EyeSpecsFit, TypeOK, EyeInv, EyePlainInv, [Next]_vars, PlainEyeCheck'
  PROVE  PlainParts'
  <1> USE DEF config, marks
  <1>1. CASE SkipEmpty \/ SetErrLimitFails \/ ScanEye
    <2>1. rng' = rng /\ pc \in {"prepare", "scanPos", "scanNeg"} /\ rng'.mode = "eyeSize"
      BY <1>1, Zenon DEF SkipEmpty, SetErrLimitFails, ScanEye, ScanPosSkipped, ScanPosMargins,
                         ScanNegFollows, ScanNegMargins, PlainEyeCheck
    <2> QED BY <2>1, Zenon DEF EyeInv, RangeInv, ModeInv
  <1>2. CASE DetermineMarginRange
    <2>1. /\ pc = "prepare" /\ rng'.mode = "eyeSize" /\ pc' = "eyePos"
          /\ offset' = U16(rng'.start - rng'.start \div 2)
          /\ lnPass' = lnPass /\ passNeg' = passNeg /\ failAt' = failAt
      BY <1>2, Zenon DEF DetermineMarginRange, PlainEyeCheck
    <2>2. ~passNeg
      BY <2>1, Zenon DEF EyeInv, LoopInv
    <2>3. lnPass /\ failAt["pos"] = None /\ failAt["neg"] = None
      BY <2>1, SidesAre, Zenon DEF EyeInv, LoopInv
    <2>4. rng' = EyeSizeRange(spec) /\ EyeSizeMode(spec) /\ spec \in Specs
      <3>1. rng' = MarginRangeOf(spec, NumSteps)
        BY <1>2, Zenon DEF DetermineMarginRange
      <3>2. ScanRange(spec, NumSteps).mode # "eyeSize"
        BY SMT DEF ScanRange
      <3> QED BY <2>1, <3>1, <3>2, Zenon DEF MarginRangeOf, EyeInv, RangeInv, ModeInv
    <2>5. offset' = Half'
      BY <2>1, <2>4, FitInPayload, HalfFits, Zenon DEF Half
    <2>6. offset' <= Half'
      <3>1. rng'.start \in Nat
        BY <2>4, FitInPayload, EyeFacts
      <3>2. Half' \in Int
        BY <3>1, SMT DEF Half
      <3> QED BY <2>5, <3>2, SMT
    <2> QED BY <2>1, <2>2, <2>3, <2>5, <2>6, SMT
            DEF PlainParts, PlainVerdict, PlainPos, PlainNeg, PlainRedo, PlainEnd, Before
  <1>3. CASE EyeBoth
    BY <1>3, Zenon DEF EyeBoth, PlainEyeCheck
  <1>4. CASE EyePosPasses \/ EyePosFails \/ EyeNegPasses \/ EyeNegFails
    <2>1. UNCHANGED <<spec, eye, indDir, rng, eyeSize>> /\ faults' = 0
          /\ pc \in {"eyePos", "eyeNeg"} /\ indDir
      BY <1>4, Zenon DEF EyePosPasses, EyePosFails, EyeNegPasses, EyeNegFails, PlainEyeCheck
    <2>2. \E o, status : Judge(o, status)
      BY <1>4, Zenon DEF EyePosPasses, EyePosFails, EyeNegPasses, EyeNegFails
    <2>3. PlainEyeCheck
      BY <2>1, <2>2, PlainJudge, Zenon DEF PlainEyeCheck
    <2>4. PlainVerdict /\ PlainPos /\ PlainNeg /\ PlainRedo
      BY <2>3, Zenon DEF EyePlainInv, PlainParts
    <2>5. /\ rng.start = spec.eye /\ rng.start \in Nat /\ rng.target = 0 /\ rng.errOutOK
          /\ Half \in Nat /\ (2 * Half = rng.start \/ 2 * Half = rng.start + 1)
          /\ eye.pos \in Nat /\ eye.neg \in Nat /\ eye.pos <= NumSteps /\ eye.neg <= NumSteps
          /\ NumSteps \in Nat
          /\ offset \in Nat /\ offset <= rng.start
          /\ U16(rng.start - offset) = rng.start - offset
          /\ offset > 0 => NextInwards = offset - 1
      BY <2>1, <2>3, PlainFacts, Zenon
    <2>6. /\ eye \in EyeType /\ offset < DirMask /\ offset < 256 /\ ~IsNeg(offset)
          /\ StepsOf(offset) = offset /\ StepsOf(WithDir(offset)) = offset
      <3>1. RangeInv
        BY Zenon DEF EyeInv
      <3> QED BY <2>1, <2>5, <3>1, FitInPayload, LoopFacts, SmallLoop, SmallOffset, Zenon
    <2>7. /\ Half' = Half /\ (Enough' <=> Enough)
          /\ passAt \in [Sides -> MarkType] /\ failAt \in [Sides -> MarkType]
          /\ offset # None
      <3>1. Half' = Half /\ (Enough' <=> Enough)
        BY <2>1, Zenon DEF Half, Enough
      <3>2. offset # None
        BY <2>5, SMT DEF None
      <3> QED BY <3>1, <3>2, Zenon DEF TypeOK
    <2>8. \A s \in Sides : passAt[s] = None \/ passAt[s] \in Nat
      BY <2>7, WordSizeType, SMT DEF MarkType, None
    <2>9. CASE EyePosPasses
      <3>1. PICK status \in Outcomes(offset) : Passes(status) /\ Judge(offset, status)
        BY <2>9, Zenon DEF EyePosPasses
      <3>2. /\ pc = "eyePos" /\ passPos' /\ failAt' = failAt /\ passNeg' = passNeg
            /\ passAt' = [passAt EXCEPT !["pos"] = offset]
            /\ IF passNeg THEN pc' = "output" ELSE pc' = "eyeNeg" /\ offset' = rng.start - offset
        BY <2>5, <2>6, <2>9, Zenon DEF EyePosPasses, LeavePos
      <3>3. offset <= eye.pos
        BY <2>1, <2>5, <2>6, <3>1, PassIsReal, Zenon
      <3>4. passAt'["pos"] = offset /\ passAt'["neg"] = passAt["neg"]
        BY <2>7, <3>2, SidesAre, SMT
      <3>5. PlainVerdict'
        BY <2>4, <2>7, <3>1, Zenon DEF PlainVerdict, Judge, Passes
      <3>6. CASE passNeg
        <4>1. /\ passAt["neg"] = eye.neg /\ offset <= rng.start - eye.neg
              /\ offset < rng.start - eye.neg => eye.pos <= offset
          BY <2>4, <3>2, <3>6, Zenon DEF PlainRedo
        <4>2. TotalSize' = offset + eye.neg /\ eye.neg # None
          <5>1. eye.neg # None
            BY <2>5, SMT DEF None
          <5> QED BY <2>7, <3>4, <4>1, <5>1, Zenon DEF TotalSize, SizeAt
        <4>3. offset + eye.neg = IF Enough THEN spec.eye ELSE eye.pos + eye.neg
          BY <2>5, <3>3, <4>1, SMT DEF Enough
        <4> QED BY <2>1, <2>7, <3>2, <3>4, <3>5, <3>6, <4>1, <4>2, <4>3, SMT
                DEF PlainParts, PlainPos, PlainNeg, PlainRedo, PlainEnd
      <3>7. CASE ~passNeg
        <4>1. /\ failAt["neg"] = None /\ Before(offset)
              /\ failAt["pos"] # None => eye.pos <= offset
          BY <2>4, <3>2, <3>7, Zenon DEF PlainPos
        <4>2. failAt["pos"] # None => offset = eye.pos
          BY <2>5, <3>3, <4>1, SMT
        <4>3. Before(passAt["pos"])'
          BY <2>7, <3>2, <3>4, <4>1, Zenon DEF Before
        <4>4. offset' <= rng.start - offset
          BY <2>5, <3>2, <3>7, SMT
        <4>5. PlainNeg'
          BY <2>1, <2>5, <3>2, <3>3, <3>4, <3>7, <4>1, <4>2, <4>3, <4>4, Zenon DEF PlainNeg
        <4>6. pc' = "eyeNeg"
          BY <3>2, <3>7, Zenon
        <4> QED BY <3>5, <4>5, <4>6, SMT DEF PlainParts, PlainPos, PlainRedo, PlainEnd
      <3> QED BY <3>6, <3>7, Zenon
    <2>10. CASE EyePosFails
      <3>1. PICK status \in Outcomes(offset) : ~Passes(status) /\ Judge(offset, status)
        BY <2>10, Zenon DEF EyePosFails
      <3>2. status = ReceiverStatus(Payload(offset))
        BY <2>1, <3>1, PlainJudge, Zenon
      <3>3. offset > eye.pos /\ (status = "ERROR_OUT" \/ offset > NumSteps)
        BY <2>1, <2>5, <2>6, <3>1, <3>2, FailIsReal
      <3>4. ~(offset <= rng.target) /\ NextInwards = offset - 1
        BY <2>5, <3>3, SMT
      <3>5. /\ pc = "eyePos" /\ pc' = "eyePos" /\ passAt' = passAt /\ passNeg' = passNeg
            /\ offset' = offset - 1 /\ failAt' = [failAt EXCEPT !["pos"] = offset]
        BY <2>6, <2>10, <3>4, Zenon DEF EyePosFails
      <3>6. failAt'["pos"] = offset /\ failAt'["neg"] = failAt["neg"]
        BY <2>7, <3>5, SidesAre, SMT
      <3>7. eye.pos <= offset' /\ offset' < offset
        BY <2>5, <3>3, <3>5, SMT
      <3>8. status = "ERROR_OUT" => (lnPass => lnPass')
        BY <2>1, <2>5, <3>1, PlainJudge, Zenon
      <3>9. CASE passNeg
        <4>1. passAt["neg"] = eye.neg /\ offset <= rng.start - eye.neg
          BY <2>4, <3>5, <3>9, Zenon DEF PlainRedo
        <4>2. offset > NumSteps => ~Enough
          BY <2>5, <4>1, SMT DEF Enough
        <4>3. PlainVerdict'
          BY <2>4, <2>7, <3>3, <3>8, <4>2, Zenon DEF PlainVerdict
        <4>4. offset' <= rng.start - eye.neg
          BY <2>5, <3>5, <4>1, SMT
        <4> QED BY <2>1, <3>5, <3>7, <3>9, <4>1, <4>3, <4>4, SMT
                DEF PlainParts, PlainPos, PlainNeg, PlainRedo, PlainEnd
      <3>10. CASE ~passNeg
        <4>1. failAt["neg"] = None /\ offset <= Half
          BY <2>4, <3>5, <3>10, Zenon DEF PlainPos, Before
        <4>2. offset > NumSteps => ~Enough
          BY <2>5, <4>1, SMT DEF Enough
        <4>3. PlainVerdict'
          BY <2>4, <2>7, <3>3, <3>8, <4>2, Zenon DEF PlainVerdict
        <4>4. offset' <= Half
          BY <2>5, <3>5, <4>1, SMT
        <4> QED BY <2>1, <2>7, <3>5, <3>6, <3>7, <3>10, <4>1, <4>3, <4>4, SMT
                DEF PlainParts, PlainPos, PlainNeg, PlainRedo, PlainEnd, Before
      <3> QED BY <3>9, <3>10, Zenon
    <2>11. CASE EyeNegPasses
      <3>1. PICK status \in Outcomes(WithDir(offset)) :
              Passes(status) /\ Judge(WithDir(offset), status)
        BY <2>11, Zenon DEF EyeNegPasses
      <3>2. /\ pc = "eyeNeg" /\ passNeg' /\ failAt' = failAt /\ passPos' = passPos
            /\ passAt' = [passAt EXCEPT !["neg"] = offset]
            /\ IF RedoPos THEN pc' = "eyePos" /\ offset' = rng.start - offset ELSE pc' = "output"
        BY <2>5, <2>6, <2>11, Zenon DEF EyeNegPasses
      <3>3. offset <= eye.neg
        BY <2>1, <2>5, <2>6, <3>1, PassIsRealNeg, Zenon
      <3>4. passAt'["neg"] = offset /\ passAt'["pos"] = passAt["pos"]
        BY <2>7, <3>2, SidesAre, SMT
      <3>5. PlainVerdict'
        BY <2>4, <2>7, <3>1, Zenon DEF PlainVerdict, Judge, Passes
      <3>6. /\ passPos /\ passAt["pos"] \in Nat /\ passAt["pos"] <= eye.pos
            /\ failAt["pos"] # None => passAt["pos"] = eye.pos
            /\ failAt["neg"] = None => offset = rng.start - passAt["pos"]
            /\ failAt["neg"] # None => eye.neg <= offset /\ offset < rng.start - passAt["pos"]
        BY <2>4, <3>2, Zenon DEF PlainNeg
      <3>7. CASE RedoPos
        <4>1. failAt["neg"] # None
          BY <3>7, Zenon DEF RedoPos
        <4>2. offset = eye.neg
          BY <2>5, <3>3, <3>6, <4>1, SMT
        <4> QED BY <2>1, <2>5, <3>2, <3>4, <3>5, <3>7, <4>2, SMT
                DEF PlainParts, PlainPos, PlainNeg, PlainRedo, PlainEnd
      <3>8. CASE ~RedoPos
        <4>1. failAt["pos"] # None \/ failAt["neg"] = None
          BY <3>6, <3>8, Zenon DEF RedoPos
        <4>2. TotalSize' = passAt["pos"] + offset /\ passAt["pos"] # None
          <5>1. passAt["pos"] # None
            BY <3>6, SMT DEF None
          <5> QED BY <2>7, <3>4, <5>1, Zenon DEF TotalSize, SizeAt
        <4>3. passAt["pos"] + offset = IF Enough THEN spec.eye ELSE eye.pos + eye.neg
          <5>1. CASE failAt["neg"] = None
            <6>1. offset = rng.start - passAt["pos"]
              BY <3>6, <5>1, Zenon
            <6>2. passAt["pos"] \in Nat /\ passAt["pos"] <= eye.pos
              BY <3>6, Zenon
            <6>3. passAt["pos"] + offset = spec.eye
              BY <2>5, <6>1, <6>2, SMT
            <6>4. Enough
              BY <2>5, <3>3, <6>2, <6>3, SMT DEF Enough
            <6> QED BY <6>3, <6>4, Zenon
          <5>2. CASE failAt["neg"] # None
            <6>1. passAt["pos"] = eye.pos /\ eye.neg <= offset /\ offset < rng.start - passAt["pos"]
              BY <3>6, <4>1, <5>2, Zenon
            <6>2. offset = eye.neg
              BY <2>5, <3>3, <6>1, SMT
            <6>3. ~Enough
              BY <2>5, <6>1, <6>2, SMT DEF Enough
            <6> QED BY <6>1, <6>2, <6>3, Zenon
          <5> QED BY <5>1, <5>2, Zenon
        <4> QED BY <2>1, <2>7, <3>2, <3>4, <3>5, <3>8, <4>2, <4>3, SMT
                DEF PlainParts, PlainPos, PlainNeg, PlainRedo, PlainEnd
      <3> QED BY <3>7, <3>8, Zenon
    <2>12. CASE EyeNegFails
      <3>1. PICK status \in Outcomes(WithDir(offset)) :
              ~Passes(status) /\ Judge(WithDir(offset), status)
        BY <2>12, Zenon DEF EyeNegFails
      <3>2. status = ReceiverStatus(Payload(WithDir(offset)))
        BY <2>1, <3>1, PlainJudge, Zenon
      <3>3. offset > eye.neg /\ (status = "ERROR_OUT" \/ offset > NumSteps)
        BY <2>1, <2>5, <2>6, <3>1, <3>2, FailIsRealNeg
      <3>4. ~(offset <= rng.target) /\ NextInwards = offset - 1
        BY <2>5, <3>3, SMT
      <3>5. /\ pc = "eyeNeg" /\ pc' = "eyeNeg" /\ passAt' = passAt /\ passPos' = passPos
            /\ offset' = offset - 1 /\ failAt' = [failAt EXCEPT !["neg"] = offset]
        BY <2>6, <2>12, <3>4, Zenon DEF EyeNegFails
      <3>6. failAt'["neg"] = offset /\ failAt'["pos"] = failAt["pos"]
        BY <2>7, <3>5, SidesAre, SMT
      <3>7. eye.neg <= offset' /\ offset' < offset
        BY <2>5, <3>3, <3>5, SMT
      <3>8. /\ passPos /\ passAt["pos"] \in Nat /\ passAt["pos"] <= eye.pos
            /\ Before(passAt["pos"])
            /\ failAt["pos"] # None => passAt["pos"] = eye.pos
            /\ offset <= rng.start - passAt["pos"]
        BY <2>4, <3>5, Zenon DEF PlainNeg
      <3>9. offset > NumSteps => ~Enough
        BY <2>5, <3>8, SMT DEF Before, Enough
      <3>10. PlainVerdict'
        <4>1. status = "ERROR_OUT" => (lnPass => lnPass')
          BY <2>1, <2>5, <3>1, PlainJudge, Zenon
        <4> QED BY <2>4, <2>7, <3>3, <3>9, <4>1, Zenon DEF PlainVerdict
      <3>11. offset' < rng.start - passAt["pos"] /\ offset' <= rng.start - passAt["pos"]
        BY <2>5, <3>5, <3>8, SMT
      <3>12. Before(passAt["pos"])'
        BY <2>7, <3>5, <3>6, <3>8, Zenon DEF Before
      <3> QED BY <2>1, <2>7, <3>5, <3>6, <3>7, <3>8, <3>10, <3>11, <3>12, SMT
              DEF PlainParts, PlainPos, PlainNeg, PlainRedo, PlainEnd
    <2> QED BY <1>4, <2>9, <2>10, <2>11, <2>12
  <1>5. CASE OutputEyeMeasurement
    <2>1. /\ pc = "output" /\ pc' = "done"
          /\ UNCHANGED <<spec, eye, indDir, faults, rng, passAt, failAt>>
          /\ rng.mode = "eyeSize" => /\ eyeSize' = TotalSize
                                     /\ lnPass' = (lnPass /\ (spec.eye = None \/ TotalSize >= spec.eye))
      BY <1>5, Zenon DEF OutputEyeMeasurement
    <2>2. PlainEyeCheck /\ rng.mode = "eyeSize"
      BY <2>1, Zenon DEF PlainEyeCheck
    <2>3. /\ PlainVerdict /\ passAt["pos"] # None /\ passAt["neg"] # None
          /\ TotalSize = IF Enough THEN spec.eye ELSE eye.pos + eye.neg
      BY <2>1, <2>2, Zenon DEF EyePlainInv, PlainParts, PlainEnd
    <2>4. /\ TotalSize' = TotalSize /\ (Enough' <=> Enough)
      BY <2>1, Zenon DEF TotalSize, SizeAt, Enough
    <2>5. ~lnPass' => ~Enough
      <3>1. spec.eye \in Nat
        BY <2>2, FitInPayload, EyeFacts, Zenon DEF EyeInv, RangeInv, ModeInv
      <3>2. Enough => TotalSize >= spec.eye
        BY <2>3, <3>1, SMT
      <3> QED BY <2>1, <2>2, <2>3, <3>2, Zenon DEF PlainVerdict
    <2> QED BY <2>1, <2>2, <2>3, <2>4, <2>5, SMT
            DEF PlainParts, PlainVerdict, PlainPos, PlainNeg, PlainRedo, PlainEnd
  <1>6. CASE UNCHANGED vars
    <2>1. PlainParts
      BY <1>6, Zenon DEF vars, EyePlainInv, PlainEyeCheck
    <2> QED BY <1>6, <2>1, Zenon DEF vars, PlainParts, PlainVerdict, PlainPos, PlainNeg, PlainRedo,
                                     PlainEnd, Before, Half, Enough, TotalSize, SizeAt
  <1> QED BY <1>1, <1>2, <1>3, <1>4, <1>5, <1>6, Zenon DEF Next, TestEyeSize

LEMMA PlainInvStep ==
  ASSUME EyeSpecsFit, TypeOK, EyeInv, EyePlainInv, [Next]_vars
  PROVE  EyePlainInv'
  BY PlainStep, Zenon DEF EyePlainInv

LEMMA PlainInvInit == Init => EyePlainInv
  BY SMT DEF Init, NoRange, EyePlainInv, PlainEyeCheck

\* In a plain check, what testEyeSize has marked as failed on a side is outside the eye, and where
\* it has got to is inside of it or one step out: the invariant of its three loops.
THEOREM PlainChecked ==
  ASSUME EyeSpecsFit
  PROVE  Spec => [](TypeOK /\ EyeInv /\ EyePlainInv)
  <1>1. TypeOK /\ EyeInv /\ EyePlainInv /\ [Next]_vars => EyePlainInv'
    BY PlainInvStep, Zenon
  <1> QED BY <1>1, PlainInvInit, EyeChecked, PTL DEF Spec

\* The end of such a check, in the state it is in.
LEMMA PlainDone ==
  ASSUME EyeSpecsFit, TypeOK, EyeInv, EyePlainInv, pc = "done", PlainEyeCheck
  PROVE  /\ EyeSpan = eye.pos + eye.neg
         /\ lnPass \/ ~(EyeSpan >= spec.eye)
         /\ eyeSize = IF EyeSpan >= spec.eye THEN spec.eye ELSE EyeSpan
         /\ EyeSpan \in Int /\ spec.eye \in Int
  <1>1. /\ PlainVerdict /\ eyeSize = IF Enough THEN spec.eye ELSE eye.pos + eye.neg
        /\ eye.pos >= 0 /\ rng.mode = "eyeSize"
    BY Zenon DEF EyePlainInv, PlainParts, PlainEnd, PlainEyeCheck
  <1>2. eye.pos \in Int /\ eye.neg \in Int
    BY ConstantsAssumption, SMT DEF TypeOK, EyeType
  <1>3. EyeSpan = eye.pos + eye.neg
    BY <1>1, <1>2, SMT DEF EyeSpan
  <1>4. spec.eye \in Nat
    BY <1>1, FitInPayload, EyeFacts, Zenon DEF EyeInv, RangeInv, ModeInv
  <1> QED BY <1>1, <1>2, <1>3, <1>4, SMT DEF PlainVerdict, Enough

\* With a step of 1 down to offset 0 and no fault, the check fails no lane whose eye is large
\* enough, wherever its center is (the redo of testEyeSize).
THEOREM EyeCheckComplete ==
  ASSUME EyeSpecsFit
  PROVE  Spec => []EyeSizeComplete
  <1>1. TypeOK /\ EyeInv /\ EyePlainInv => EyeSizeComplete
    BY PlainDone, Zenon DEF EyeSizeComplete
  <1> QED BY <1>1, PlainChecked, PTL

\* Such a check reports (ln.eyeWidth, ln.eyeHeight) the eye itself, up to the size asked for.
THEOREM EyeCheckExact ==
  ASSUME EyeSpecsFit
  PROVE  Spec => []EyeSizeExact
  <1>1. TypeOK /\ EyeInv /\ EyePlainInv => EyeSizeExact
    <2> SUFFICES ASSUME TypeOK, EyeInv, EyePlainInv, pc = "done", PlainEyeCheck
                 PROVE  eyeSize = IF EyeSpan < spec.eye THEN EyeSpan ELSE spec.eye
      BY Zenon DEF EyeSizeExact
    <2> QED BY PlainDone, SMT
  <1> QED BY <1>1, PlainChecked, PTL
=============================================================================
