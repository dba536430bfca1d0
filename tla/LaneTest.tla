------------------------------ MODULE LaneTest ------------------------------
(***************************************************************************)
(* testAspect of lmt_lane.go: one aspect (timing or voltage) of one lane   *)
(* is margined offset by offset, either to scan the eye outwards (scanEye) *)
(* or to check its size, off-centered or not (testEyeSize), and judged by  *)
(* outputEyeMeasurement.  A step is one call of margin(), whose outcome    *)
(* comes from the receiver's eye.                                          *)
(***************************************************************************)
EXTENDS MarginRange

CONSTANTS
  DirMask,      \* direction bit of an offset: 64 for timing, 128 for voltage
  NumSteps,     \* the lane's capability: the largest offset it margins at
  Specs,        \* the test specs to consider
  Eyes,         \* the eyes to consider: largest passing offset on each side
  Faults,       \* statuses a faulty margin() may leave whatever the eye is like
  MaxFaults     \* bound on the faulty margin() calls

Sides == {"pos", "neg"}

\* -1: no offset passes, the center included (one point, which the sides share).
EyeType == [pos : -1 .. NumSteps, neg : -1 .. NumSteps]

ASSUME ConstantsAssumption ==
  /\ DirMask \in {64, 128}
  /\ NumSteps \in Nat /\ NumSteps < DirMask
  /\ Specs \subseteq SpecType
  /\ Eyes \subseteq EyeType
  /\ \A e \in Eyes : (e.pos = -1) <=> (e.neg = -1)
  /\ Faults \subseteq {"UNKNOWN", "NAK", "SETTING_UP"} /\ MaxFaults \in Nat

VARIABLES
  spec,         \* the test spec (t.spec)
  eye,          \* the receiver's eye
  faults,       \* margin() calls so far that ended with one of Faults instead
  indDir,       \* the receiver margins the two directions independently (t.indDir)
  rng,          \* the range determined from the spec (t.start, t.target, ...)
  pc,           \* where testAspect is
  offset,       \* the loop variable of scanEye and testEyeSize
  passPos,      \* the last positive (right, up) point passed
  passNeg,      \* the last negative (left, down) point passed
  passAt,       \* steps of t.mp[side][pass], None if nil
  failAt,       \* steps of t.mp[side][fail], None if nil
  statusOK,     \* ln.statusVal, the statuses its validator accepts
  flagged,      \* a Step-Status artifact was streamed that its validator rejects
  eyeSize,      \* ln.eyeWidth or ln.eyeHeight, in steps
  lnPass        \* ln.Pass

config == <<spec, eye, indDir>>
marks == <<passAt, failAt>>
vars == <<spec, eye, indDir, faults, rng, pc, offset, passPos, passNeg, passAt, failAt,
          statusOK, flagged, eyeSize, lnPass>>

-----------------------------------------------------------------------------
\* One margin() call.

\* The direction bit of an offset, the offset without it (recorded as the point's steps),
\* and with it.
IsNeg(o) == IF DirMask = 64 THEN o % 128 >= 64 ELSE o % 256 >= 128
StepsOf(o) == IF IsNeg(o) THEN o - DirMask ELSE o
WithDir(o) == IF IsNeg(o) THEN o ELSE o + DirMask

\* encode keeps 8 bits of the offset.
Payload(o) == o % 256

\* How far the receiver passes on the side an offset asks for; without independent
\* directions it margins both.
PassesTo(o) ==
  IF ~indDir THEN IF eye.pos < eye.neg THEN eye.pos ELSE eye.neg
  ELSE IF IsNeg(o) THEN eye.neg ELSE eye.pos

ReceiverStatus(o) ==
  IF StepsOf(o) > NumSteps THEN "NAK"
  ELSE IF StepsOf(o) <= PassesTo(o) THEN "MARGINING" ELSE "ERROR_OUT"

Outcomes(o) == {ReceiverStatus(Payload(o))} \cup (IF faults < MaxFaults THEN Faults ELSE {})

Passes(status) == status = "MARGINING"

\* margin() fails the lane on a bad status; UNKNOWN is a command error, which returns first.
\* It also returns before the verdict when the sample count cannot be read.
Judge(o, status) ==
  \/ /\ faults' = IF status = ReceiverStatus(Payload(o)) THEN faults ELSE faults + 1
     /\ lnPass' = (lnPass /\ \/ status \in {"MARGINING", "UNKNOWN"}
                             \/ status = "ERROR_OUT" /\ rng.errOutOK)
     /\ flagged' = (flagged \/ status \notin statusOK \cup {"UNKNOWN"})
  \/ /\ status \in {"MARGINING", "ERROR_OUT"} /\ faults < MaxFaults
     /\ faults' = faults + 1
     /\ UNCHANGED <<lnPass, flagged>>

-----------------------------------------------------------------------------
Init ==
  /\ spec \in Specs
  /\ eye \in Eyes
  /\ indDir \in BOOLEAN
  /\ faults = 0
  /\ rng = NoRange
  /\ pc = "prepare"
  /\ offset = 0
  /\ passPos = FALSE /\ passNeg = FALSE
  /\ passAt = [s \in Sides |-> None]
  /\ failAt = [s \in Sides |-> None]
  /\ statusOK = {}
  /\ flagged = FALSE
  /\ eyeSize = 0
  /\ lnPass = TRUE

\* Nothing to test: testAspect returns at once.
SkipEmpty ==
  /\ pc = "prepare" /\ IsEmpty(spec)
  /\ pc' = "skipped"
  /\ UNCHANGED <<config, faults, rng, offset, passPos, passNeg, marks, statusOK, flagged, eyeSize, lnPass>>

\* setupLaneValidators reads the aspect's errOutOK as it is at that point.
SetupLaneValidators ==
  statusOK' = IF rng.errOutOK THEN {"MARGINING", "ERROR_OUT"} ELSE {"MARGINING"}

\* setErrLimit's command is not echoed: the aspect, and the lane, end there.
SetErrLimitFails ==
  /\ pc = "prepare" /\ ~IsEmpty(spec)
  /\ SetupLaneValidators
  /\ pc' = "aborted"
  /\ UNCHANGED <<config, faults, rng, offset, passPos, passNeg, marks, flagged, eyeSize, lnPass>>

\* The start is half of the required eye, rounded up, for an eye size check.
DetermineMarginRange ==
  /\ pc = "prepare" /\ ~IsEmpty(spec)
  /\ SetupLaneValidators
  /\ rng' = MarginRangeOf(spec, NumSteps)
  /\ IF rng'.mode = "eyeSize"
     THEN pc' = "eyePos" /\ offset' = U16(rng'.start - rng'.start \div 2)
     ELSE pc' = "scanPos" /\ offset' = rng'.start
  /\ UNCHANGED <<config, faults, passPos, passNeg, marks, flagged, eyeSize, lnPass>>

-----------------------------------------------------------------------------
\* testEyeSize.

\* Mutant: the target offset is stepped over.
NextInwardsUnclamped == U16(offset - rng.step)

\* The next offset towards the target after a failing one, in uint16.
NextInwards ==
  LET o == U16(offset - rng.step)
  IN  IF o < rng.target THEN rng.target ELSE o

\* Mutant: the other side starts from half of the required eye, not from what is left of it.
LeavePosHalf ==
  IF passNeg
  THEN pc' = "output" /\ UNCHANGED offset
  ELSE pc' = "eyeNeg" /\ offset' = rng.start \div 2

\* After the positive loop: done if it was a redo, else go on to the other side,
\* from what the positive side leaves of the required eye.
LeavePos ==
  IF passNeg
  THEN pc' = "output" /\ UNCHANGED offset
  ELSE pc' = "eyeNeg" /\ offset' = U16(rng.start - offset)

\* One point stands for both sides.
EyeBoth ==
  /\ pc = "eyePos" /\ ~indDir
  /\ \E status \in Outcomes(offset) :
       /\ Judge(offset, status)
       /\ passPos' = Passes(status) /\ passNeg' = Passes(status)
       /\ LET both == [s \in Sides |-> StepsOf(offset)]
          IN  IF Passes(status)
              THEN passAt' = both /\ UNCHANGED failAt
              ELSE failAt' = both /\ UNCHANGED passAt
  /\ pc' = "output"
  /\ UNCHANGED <<config, rng, offset, statusOK, eyeSize>>

EyePosPasses ==
  /\ pc = "eyePos" /\ indDir
  /\ \E status \in Outcomes(offset) : Passes(status) /\ Judge(offset, status)
  /\ passPos' = TRUE
  /\ passAt' = [passAt EXCEPT !["pos"] = StepsOf(offset)]
  /\ LeavePos
  /\ UNCHANGED <<config, rng, passNeg, failAt, statusOK, eyeSize>>

EyePosFails ==
  /\ pc = "eyePos" /\ indDir
  /\ \E status \in Outcomes(offset) : ~Passes(status) /\ Judge(offset, status)
  /\ passPos' = FALSE
  /\ failAt' = [failAt EXCEPT !["pos"] = StepsOf(offset)]
  /\ IF offset <= rng.target THEN LeavePos ELSE offset' = NextInwards /\ UNCHANGED pc
  /\ UNCHANGED <<config, rng, passNeg, passAt, statusOK, eyeSize>>

\* Mutant: an eye with a center more positive is not looked for.
RedoNever == FALSE

\* The eye may be more positive: the positive side is redone from a larger offset.
RedoPos == passPos /\ failAt["pos"] = None /\ failAt["neg"] # None

EyeNegPasses ==
  /\ pc = "eyeNeg"
  /\ \E status \in Outcomes(WithDir(offset)) : Passes(status) /\ Judge(WithDir(offset), status)
  /\ passNeg' = TRUE
  /\ passAt' = [passAt EXCEPT !["neg"] = StepsOf(WithDir(offset))]
  /\ IF RedoPos
     THEN pc' = "eyePos" /\ offset' = U16(rng.start - offset)
     ELSE pc' = "output" /\ UNCHANGED offset
  /\ UNCHANGED <<config, rng, passPos, failAt, statusOK, eyeSize>>

EyeNegFails ==
  /\ pc = "eyeNeg"
  /\ \E status \in Outcomes(WithDir(offset)) : ~Passes(status) /\ Judge(WithDir(offset), status)
  /\ passNeg' = FALSE
  /\ failAt' = [failAt EXCEPT !["neg"] = StepsOf(WithDir(offset))]
  /\ IF offset <= rng.target
     THEN pc' = "output" /\ UNCHANGED offset
     ELSE offset' = NextInwards /\ UNCHANGED pc
  /\ UNCHANGED <<config, rng, passPos, passAt, statusOK, eyeSize>>

-----------------------------------------------------------------------------
\* scanEye: an iteration margins the positive side, then the negative one.

\* A point is recorded on a side unless the side has already failed.
Record(side, passed, steps) ==
  IF failAt[side] # None THEN UNCHANGED marks
  ELSE IF passed
       THEN passAt' = [passAt EXCEPT ![side] = steps] /\ UNCHANGED failAt
       ELSE failAt' = [failAt EXCEPT ![side] = steps] /\ UNCHANGED passAt

\* No further offsets on a side that failed.
ScanPosSkipped ==
  /\ pc = "scanPos" /\ failAt["pos"] # None
  /\ passPos' = FALSE
  /\ pc' = "scanNeg"
  /\ UNCHANGED <<config, faults, rng, offset, passNeg, marks, statusOK, flagged, eyeSize, lnPass>>

ScanPosMargins ==
  /\ pc = "scanPos" /\ failAt["pos"] = None
  /\ \E status \in Outcomes(offset) :
       /\ Judge(offset, status)
       /\ passPos' = Passes(status)
       /\ Record("pos", Passes(status), StepsOf(offset))
  /\ pc' = "scanNeg"
  /\ UNCHANGED <<config, rng, offset, passNeg, statusOK, eyeSize>>

\* Mutant: the last step is not brought back to the target.
AdvancePast(passedPos, passedNeg) ==
  IF offset >= rng.target \/ (rng.untilFail /\ ~passedPos /\ ~passedNeg)
  THEN pc' = "output" /\ UNCHANGED offset
  ELSE pc' = "scanPos" /\ offset' = U16(offset + rng.step)

\* End of an iteration: stop at the target, or once both sides fail when there is none.
Advance(passedPos, passedNeg) ==
  IF offset >= rng.target \/ (rng.untilFail /\ ~passedPos /\ ~passedNeg)
  THEN pc' = "output" /\ UNCHANGED offset
  ELSE /\ pc' = "scanPos"
       /\ LET o == U16(offset + rng.step)
          IN  offset' = IF o > rng.target THEN rng.target ELSE o

\* The negative side takes the outcome of the positive one: it is not independent, or failed.
ScanNegFollows ==
  /\ pc = "scanNeg" /\ (~indDir \/ failAt["neg"] # None)
  /\ passNeg' = passPos
  /\ Record("neg", passPos, StepsOf(offset))
  /\ Advance(passPos, passPos)
  /\ UNCHANGED <<config, faults, rng, passPos, statusOK, flagged, eyeSize, lnPass>>

ScanNegMargins ==
  /\ pc = "scanNeg" /\ indDir /\ failAt["neg"] = None
  /\ \E status \in Outcomes(WithDir(offset)) :
       /\ Judge(WithDir(offset), status)
       /\ passNeg' = Passes(status)
       /\ Record("neg", Passes(status), StepsOf(WithDir(offset)))
       /\ Advance(passPos, Passes(status))
  /\ UNCHANGED <<config, rng, passPos, statusOK, eyeSize>>

-----------------------------------------------------------------------------
\* outputEyeMeasurement.

SizeAt(side) == IF passAt[side] = None THEN 0 ELSE passAt[side]

TotalSize == SizeAt("pos") + SizeAt("neg")

\* Mutant: the measured eye is reported but not judged.
OutputUnjudged ==
  /\ pc = "output"
  /\ eyeSize' = IF rng.mode = "target" THEN eyeSize ELSE TotalSize
  /\ pc' = "done"
  /\ UNCHANGED <<config, faults, rng, offset, passPos, passNeg, marks, statusOK, flagged, lnPass>>

OutputEyeMeasurement ==
  /\ pc = "output"
  /\ IF rng.mode = "target"
     THEN UNCHANGED <<eyeSize, lnPass>>
     ELSE /\ eyeSize' = TotalSize
          /\ lnPass' = (lnPass /\ (spec.eye = None \/ TotalSize >= spec.eye))
  /\ pc' = "done"
  /\ UNCHANGED <<config, faults, rng, offset, passPos, passNeg, marks, statusOK, flagged>>

\* testAspect has returned.
Ended == pc \in {"done", "skipped", "aborted"}

TestEyeSize == EyeBoth \/ EyePosPasses \/ EyePosFails \/ EyeNegPasses \/ EyeNegFails
ScanEye == ScanPosSkipped \/ ScanPosMargins \/ ScanNegFollows \/ ScanNegMargins

Next ==
  \/ SkipEmpty \/ SetErrLimitFails \/ DetermineMarginRange
  \/ TestEyeSize \/ ScanEye
  \/ OutputEyeMeasurement

Spec == Init /\ [][Next]_vars

\* One goroutine, whose margin() calls all end (they time out).
FairSpec == Spec /\ WF_vars(Next)

-----------------------------------------------------------------------------
\* Properties.

OffsetType == 0 .. WordSize - 1
MarkType == None .. WordSize - 1

TypeOK ==
  /\ spec \in SpecType /\ eye \in EyeType /\ indDir \in BOOLEAN /\ faults \in 0 .. MaxFaults
  /\ rng \in [mode : {"none", "target", "eyeScan", "eyeSize"}, start : OffsetType,
              target : OffsetType, step : OffsetType, untilFail : BOOLEAN, errOutOK : BOOLEAN]
  /\ pc \in {"prepare", "skipped", "aborted", "eyePos", "eyeNeg", "scanPos", "scanNeg",
             "output", "done"}
  /\ offset \in OffsetType
  /\ passPos \in BOOLEAN /\ passNeg \in BOOLEAN
  /\ passAt \in [Sides -> MarkType]
  /\ failAt \in [Sides -> MarkType]
  /\ statusOK \in SUBSET {"MARGINING", "ERROR_OUT"}
  /\ flagged \in BOOLEAN
  /\ eyeSize \in Nat
  /\ lnPass \in BOOLEAN

\* The eye's size in steps; a closed eye has none.
EyeSpan == IF eye.pos = -1 THEN 0 ELSE eye.pos + eye.neg

\* A step of 1 down to offset 0, on a receiver with independent directions whose commands
\* all work and whose eye contains its center.
PlainEyeCheck ==
  /\ rng.mode = "eyeSize" /\ rng.step = 1 /\ rng.target = 0
  /\ indDir /\ faults = 0
  /\ eye.pos >= 0

\* Specs whose eye-size checks ask for no more than the 8 bits of an offset's payload hold, in
\* steps that cannot carry the offset below 0.
EyeSpecsInPayload ==
  \A s \in Specs : EyeSizeMode(s) =>
    /\ s.eye < 256
    /\ StepOf(s) <= (IF s.target = None THEN 0 ELSE s.target) + 1

\* Specs whose eye-size checks stay clear of the direction bit, too.
EyeSpecsFit ==
  \A s \in Specs : EyeSizeMode(s) =>
    /\ s.eye < DirMask
    /\ StepOf(s) <= (IF s.target = None THEN 0 ELSE s.target) + 1

\* An eye-size check (testEyeSize, judged by outputEyeMeasurement) passes a lane only if the eye,
\* off-centered or not, is that large.
EyeSizeSound ==
  pc = "done" /\ rng.mode = "eyeSize" /\ lnPass => EyeSpan >= spec.eye

\* The check fails no lane whose eye is large enough, wherever its center is: that is what the
\* redo of the positive side is for (lmt_lane.go:649-653).
EyeSizeComplete ==
  pc = "done" /\ PlainEyeCheck /\ EyeSpan >= spec.eye => lnPass

\* Below the direction bit the reported eye (ln.eyeWidth, ln.eyeHeight) is exact: the eye itself,
\* up to the size asked for.
EyeSizeExact ==
  pc = "done" /\ PlainEyeCheck /\ spec.eye < DirMask
    => eyeSize = IF EyeSpan < spec.eye THEN EyeSpan ELSE spec.eye

\* testEyeSize only margins from the target up to the required size, and ends a side that
\* never passes at the target (comments at lmt_lane.go:612 and 616).
EyeSizeWithinRange ==
  rng.mode = "eyeSize" =>
    /\ pc \in {"eyePos", "eyeNeg"} => offset \in rng.target .. rng.start
    /\ pc = "done" /\ indDir =>
         \A s \in Sides : passAt[s] = None => failAt[s] = StepsOf(rng.target)

\* scanEye brackets the edge of the eye on each side: the last passing offset is inside, the
\* first failing one outside, no more than a step apart; a side with no failure passed at
\* the target.
ScanBracketsEdge ==
  pc = "done" /\ rng.mode \in {"target", "eyeScan"} /\ faults = 0 =>
    \A s \in Sides :
      LET edge == PassesTo(IF s = "pos" THEN 0 ELSE DirMask)
      IN  /\ passAt[s] # None => passAt[s] <= edge
          /\ failAt[s] # None => failAt[s] > edge
          /\ failAt[s] = None => passAt[s] = rng.target
          /\ passAt[s] = None => failAt[s] = rng.start
          /\ passAt[s] # None /\ failAt[s] # None => failAt[s] - passAt[s] \in 1 .. rng.step

\* A target check passes a lane only if it margined at the target on both sides (README.md:38-40).
TargetCheckSound ==
  pc = "done" /\ rng.mode = "target" /\ lnPass =>
    \A s \in Sides : rng.target <= PassesTo(IF s = "pos" THEN 0 ELSE DirMask)

\* The artifacts agree with the verdict: a lane reported as passed streamed no status that its
\* own validator rejects (ERROR_OUT is how an eye scan ends, lmt.proto:87).
FlaggedLaneFails == pc = "done" /\ flagged => ~lnPass

\* Every margining ends.
AspectEnds == <>Ended
=============================================================================
