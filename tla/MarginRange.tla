---------------------------- MODULE MarginRange ----------------------------
(***************************************************************************)
(* What a test spec asks of one aspect (timing or voltage) of a lane:      *)
(* determineMarginRange of lmt_lane.go, with its uint16 conversions.       *)
(*                                                                         *)
(* A spec is a record of four optional fields.  eye stands for the eye     *)
(* size in steps, rounded up: the code compares the float eye size E only  *)
(* with whole numbers of steps (2*target < E, the measured size < E), and  *)
(* for whole n, n < E exactly when n < ceil(E).                            *)
(***************************************************************************)
EXTENDS Integers

None == -1                       \* an optional field that is not set
Optional == Nat \cup {None}

WordSize == 65536
U16(n) == n % WordSize           \* uint16(n)

SpecType == [start : Optional, step : Optional, target : Optional, eye : Optional]

\* testAspect skips a spec that sets none of the three.
IsEmpty(spec) == spec.start = None /\ spec.target = None /\ spec.eye = None

\* Mutants: an unset step is used as it is; a step of 0 is kept.
StepUnset(spec) == spec.step
StepAsGiven(spec) == IF spec.step = None THEN 1 ELSE U16(spec.step)

StepOf(spec) ==
  IF spec.step = None \/ U16(spec.step) = 0 THEN 1 ELSE U16(spec.step)

EyeSizeMode(spec) ==
  /\ spec.eye # None
  /\ ~ (spec.target = None /\ spec.start # None)
  /\ spec.target = None \/ 2 * spec.target < spec.eye

EyeSizeRange(spec) ==
  [mode |-> "eyeSize", start |-> U16(spec.eye),
   target |-> IF spec.target = None THEN 0 ELSE U16(spec.target),
   step |-> StepOf(spec), untilFail |-> FALSE, errOutOK |-> TRUE]

\* A target beyond the lane's capability is brought back to it; without one,
\* a scan goes on to the last step.
ScanTarget(spec, steps) ==
  IF spec.target = None
  THEN IF spec.start = None THEN 0 ELSE U16(steps)
  ELSE IF spec.target > steps THEN U16(steps) ELSE U16(spec.target)

ScanStart(spec, steps) ==
  LET target == ScanTarget(spec, steps)
  IN  IF spec.start = None \/ U16(spec.start) > target THEN target ELSE U16(spec.start)

ScanRange(spec, steps) ==
  [mode      |-> IF spec.start = None THEN "target" ELSE "eyeScan",
   start     |-> ScanStart(spec, steps),
   target    |-> ScanTarget(spec, steps),
   step      |-> StepOf(spec),
   untilFail |-> spec.target = None /\ spec.start # None,
   errOutOK  |-> spec.start # None]

MarginRangeOf(spec, steps) ==
  IF EyeSizeMode(spec) THEN EyeSizeRange(spec) ELSE ScanRange(spec, steps)

\* The zero value of the aspect's range fields, before determineMarginRange.
NoRange == [mode |-> "none", start |-> 0, target |-> 0, step |-> 0,
            untilFail |-> FALSE, errOutOK |-> FALSE]
============================================================================
