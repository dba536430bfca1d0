# Verification of pcie_lmt

TLA+ models of Google's PCIe lane margining tool (LMT), what TLC checks of them on small
instances, and what TLAPS proves of them for every value of their constants. `PROJECT.json`
lists components, runs, mutants, theorems, findings and hazards, and maps each definition to
the lines it stands for.

## The system

LMT takes a configuration of test specs, finds the PCIe links it is for, and margins their
lanes: it asks a receiver, by commands in configuration space, to sample off its center, and
judges how far it may go before bits are lost. `ltt`, beside it, retrains links over and over
and compares registers with expected values.

| Component | Source | State | Operations | Talks to |
|---|---|---|---|---|
| LMR command protocol | `lmt_cmdrsp.go` | the lane's control and status words | `lmrCmdRspBase`, `lmrBroadcastNoCmd`, `lmrCmdRsp`, `lmrCmdRspEcho`, `GetIndErrorSampler` | the receiver, over the link |
| Margin point | `lmt_offset.go` | the point, `ln.Pass`, the receiver's mode | `margin` | the command protocol, the artifact stream |
| Scan and eye size | `lmt_lane.go` | `aspect`: range, modes, marks `mp` | `determineMarginRange`, `setupLaneValidators`, `scanEye`, `testEyeSize`, `outputEyeMeasurement` | `margin` |
| Lane | `lmt_lane.go` | parameters, specs, `Pass`, `lane` | `MarginLane`, `readLaneParameters`, `setErrLimit`, `prepareMarginTests` | WaitGroups `rxwg`, `linkwg`, the link's `wg` |
| Link | `lmt_link.go` | receivers, lanes, `linkcheck` | `marginLink`, `GatherResult` | a goroutine per lane |
| Link control | `lmt_link.go` | `hawd`, `hasd`, LNKCTL, LNKCTL2 | `prepLink`, `restoreLink` | both ports |
| Run | `lanemargintest.go` | `testRunEnd` | `MarginLinks` | a goroutine per link |
| Discovery | `lanemargintest.go`, `ltt/linktrain.go` | the `linktest` list | `getLinks`, `getLMRcapability`, `getPcieCapOffset`, `FindDSP` | configuration space, sysfs |
| Artifact stream | `lanemargintest.go`, `ltt/linktrain.go` | `seqNum`, pipe and lock | `outputArtifact` | all goroutines |
| Tally | `lmt_tally.go` | counters | `TallyResults` | the links' final state |
| Link training | `ltt/linktrain.go` | fields with their states and values, counts, series | `LinkTrain`, `trainLoop`, `check`, `log`, `record`, `restore`, `retrain`, `secondaryBusReset`, `reenable` | configuration space, a goroutine per link, the artifact stream |
| CSV, command line, PCI access | `lmt_result2csv.go`, `lmt.go`, `pciutils.go` | | formatting, flags, cgo wrappers | |

What is hard to get right here, and to test without faulty hardware:

- the off-centered eye-size check goes back (`goto RedoPos`), in `uint16`, and its answer
  depends on the eye: which eyes are judged wrongly, and may an offset leave its range?
- a response does not say which command it answers, commands can be lost, and the polling
  loop of `margin` reads the status register without matching it;
- many error paths return early: what do they leave in the receiver, in `ln.Pass`, in the
  WaitGroups, and who still counts the lane as tested?
- lanes and links are goroutines that share two WaitGroups, one of them growing while it is
  waited for;
- registers of the user's machine are changed and must be given back: by `ltt`, while its own
  resets clear them, those of the links below included;
- capability lists are read from devices that may be broken, in a circle for instance;
- the verdicts come from flags and counters that many steps set: the state of a field, the
  readiness of a link, the counts of a run.

## Modules

| Module | Models | State and actions |
|---|---|---|
| `MarginRange` | `determineMarginRange` | pure operators: `MarginRangeOf(spec, steps)` is the range, with its `uint16` conversions |
| `LaneTest` | `testAspect`: one aspect of one lane | variables are the fields of `aspect` and `Lane`; an action is an iteration of a loop of `scanEye` or `testEyeSize`, with its `margin` call (`Judge` is the verdict of `margin`) |
| `Rpc` | the promise of the command protocol | `Call`, `Return` with the call's own response, `Fail` |
| `LaneCommands` | the commands of one lane, with the receiver | the program's actions are the writes, reads and deadlines of `lmrCmdRspBase` under the calls of `readLaneParameters`, `setErrLimit` and `margin`; the receiver's are `Receives`, `Loses`, `Progresses` |
| `LinkTest` | `MarginLinks`, `marginLink`, `prepLink`, `restoreLink`, `MarginLane` | a program counter per goroutine, WaitGroups as counters, registers of both ports, results; the lanes whose results are gathered are a set (`gathered`), and the run's result takes them in any order (`TakeResult`), as it does not depend on it |
| `Discovery` | `getLinks` of both tools, with the walks of the capability lists | the walk (`at`, `been`) of one list at a time, `links` with the offsets and flags found; an action is a header read or a decision of the loop over the devices |
| `LinkTrain` | `LinkTrain`, `trainLoop` and all it calls | a program counter per link; fields with `state` and `val`, and the place of the loop over them (`at`: the field the loop is at is the first one left of its kind, `IsAt`, and it is over when none is, `Over`); a link's registers, whether it is up (`up`), and the bit of the downstream port that takes it down (`down`, and `ctl`: the bit as read to be written back); an action per field checked or restored, per training step, per artifact, and `ComesUp` for the link itself |
| `OcpSteps` | what the artifacts of test steps promise | the artifacts of each step so far |
| `OcpStream` | `outputArtifact` under the goroutines of a run | counter, lock, pipe; a goroutine's place between taking a number and unlocking |
| `ArtifactLog` | what the stream of artifacts promises | the artifacts that got through |
| `LaneTestMC`, `LaneCommandsMC`, `LinkTestMC`, `DiscoveryMC`, `LinkTrainMC`, `OcpStreamMC` | instances for TLC | |
| `LaneTestProofs`, `LaneScanProofs`, `LaneCommandsProofs`, `LinkTestProofs`, `DiscoveryProofs`, `LinkTrainProofs`, `LinkStreamProofs`, `OcpStreamProofs` | theorems (see Proofs) | the inductive invariant of each comes first, by parts |

`Discovery` comes before `LinkTest` and `LinkTrain`, whose links are given. The others are
layers: `LinkTest` lets a lane's margining end as it may (`Margin`); `LaneTest` says how it ends
from the outcome of each `margin` call; `LaneCommands` says how such a call ends from the
commands. `LinkTrain` streams its artifacts as whole ones, in the order of each link; `OcpStream`
says that `outputArtifact` keeps them whole and in that order. `LinkTest` ends with the tally of
`lmt_tally.go`, an operator on its final states (`Tally`).

Two abstract specifications beside `Rpc`: `LinkTrain` implements `OcpSteps` for each link
(`StreamsWellFormed`, the log being what the link has streamed), and `OcpStream` implements
`ArtifactLog` (`LogSpec`, the log being the lines of the pipe).

Abstractions:

- The eye size, a float, is a whole number of steps rounded up. The code compares it only with
  whole numbers of steps (`2 * target < eye`, measured size `< eye`), which decide alike; float
  rounding is not modelled.
- A `margin` call's outcome is that of the eye (`ReceiverStatus`), or, up to `MaxFaults` times,
  one of `Faults`; an error of its later commands leaves the verdict as it is. That
  `determineMarginRange` also lowers the target in the lane's own copy of the spec is kept in
  `rng.target` only.
- Commands and responses carry in the model the serial number of their call. The program's
  guards never look at it: it is there for the properties.
- Sleeps and deadlines are nondeterministic: a deadline may pass whenever the response is not
  there to be had. `Timely` says that the receiver answers by then or never.
- Registers are booleans per port. A register read followed by a write of it is one step: the
  goroutine of a link is the only one to touch them.
- `LinkTrain`: a register is the set of its bits that are 1, a value that may be missing a set
  of at most one. A log of all fields is one step: nothing of another goroutine can be told
  apart in between, but for a reset of a link above. A register's read and the write that
  follows at once (`Retrain`, `TakeDown`, `RestoreField`) are one step; the write that comes
  after `Teardownwait` is another (`BringUp`). Elements streamed to the series with no name are
  counted (`nameless`) and not in `out`.
- `LinkTrain`, the links: the code sleeps `waitTime` after each training (`linktrain.go:136, 155,
  172`) and goes on, whatever became of the link. So a link taken down comes up again in time,
  later, in the midst of the checks or the writing back, or never (`ComesUp`), with its registers
  reset to what they may then hold (`Comes`); a retrained link keeps its configuration, comes
  back with another status, or is lost (`Retrain`). Registers of a link that is not up read all
  ones and what is written to them is lost; those of a downstream port are out of reach while a
  link above is not up. Links that were found up do not go down but by this training.
- `LaneCommands`: one aspect of the lane. `MarginLane` runs up to two, one after the other
  (`lmt_lane.go:170-176`), so the second's error limit, set after points were margined, is not
  run. The lane starts with nothing in the status register, or what an earlier test left there
  (`Leftover`).
- `Discovery`: an address is a model number, an ID one of those told apart; `LMR alias` stands
  for the extended IDs whose low 8 bits are those of lane margining. Vendor and device ID are
  one flag (`ids`).
- The artifacts' texts, the BER and the dwell time are left out: no decision depends on them.

## Runs

| Run | Shows | Bounds |
|---|---|---|
| `lane_test` | `EyeSizeSound`: an eye-size check that passes means an eye that large. `EyeSizeComplete`, `EyeSizeExact`: with step 1, no target and no fault, it fails no such eye and reports it exactly. `EyeSizeWithinRange`: it margins within target and size. `ScanBracketsEdge`: a scan brackets both edges within a step and tests the target. `AspectEnds` | timing (direction bit 64), 63 steps; small eyes and eyes at the capability, required eyes up to all of the payload's 8 bits, all the uses of a spec; one faulty call |
| `lane_commands` | `RpcSpec`: implements `Rpc`. `PolledOwn`: the status a point is judged by is of its own step margin. `NormalWhenTidy`: after a `margin` without error the receiver is in normal settings. `TrafficEnds` | 3 reports, 3 points (a first, a middle and a last), 2 lost commands, so that a loss can follow a loss within a call and across calls |
| `link_test` | `SeriesExclusive`, `LanesInTurn`, `QuietPorts`, `HawdRestored`, `ResultOfLanes`, `RunEnds`; `TallyAgrees`: the tally, the streamed diagnoses and the run's result do not contradict each other | one link with two receivers, one with three lanes in parallel (needed for a lane woken while another is started), two links at once, none; test specs to be ignored among them |
| `discovery` | `EligibleEnlisted`: the links are those of the devices asked for whose first PCIe capability makes them upstream ports, in order, and one that has no partner refuses all. `ReadyByRegisters`: offsets are those of the first header with the ID, by a definition of its own that has no walk in it (`FirstOf`: the match among the headers that lie in every set closed under the search, `Within`, `Across`), and a link is ready when both ports pass all checks. `WalksEnd` | every list over three addresses, in circles, missing or with several matches, in each place a walk is made; all pairs of twelve kinds of devices; requests with up to two words in `-bdf`; both tools |
| `link_train` | `VerdictOfFields`, `CountsAddUp`, `ResultOfLinks`: verdict, counts and result follow from the fields. `RecoveredAsFound`: a link below no other that is up when the writing back begins ends with its recorded fields as found, and one that passes does if a checker can tell that it is up. `LinksLeftUp`: no downstream port is left holding its link down, but where it could not be reached. `EvidenceKept`: the first failure's values stay. `OneAtATime`, `StreamsWellFormed`, `RunEnds` | a status and a configuration register of two bits; one link with seven fields, several of one register, and each method, or two, apart or one below the other; up to two iterations (none, a first, a later one) |
| `ocp_stream` | `LinesWhole`, `NumbersAccounted`, `MainFirstAndLast`, `LogSpec`, `StreamEnds` | three workers beside the main goroutine, one of which streams twice: enough for a goroutine to be overtaken between its number and the lock, and to have an order of its own; any artifact may fail to be marshalled |

Runs that show a disagreement between a comment or doc and the code (details in `PROJECT.json`):

| Run | The code |
|---|---|
| `lane_test_underflow` | a step greater than the offset wraps in `uint16`: the target is never margined |
| `lane_test_flagged` | the validator of an eye scan rejects the ERROR_OUT that ends it, in a lane that passes (`errOutOK` is read before it is set) |
| `lane_test_target` | a target check whose command fails passes the lane |
| `link_restore` | the speed disable bit is restored from the saved width disable bit |
| `link_barrier` | lane parameters are read while another lane is margined |
| `link_diag` | a receiver on which nothing was margined is diagnosed as passed |

Disagreements met while modelling that have no run of their own, each with its quote in
`PROJECT.json`: the sample count is asked for with no No Command before it; a greater dwell time
of the spec is not waited for; a `-bdf` none of whose words can be parsed selects every device;
fields that do not match are marked `S_ERROR` and never `S_FAIL`; 64-bit fields are not read; a
failed initial check leaves its test step open; the tally counts one lane too few; `ltt` writes the
recorded fields back without asking whether the link is up, and they are lost if it is not.

`CHECK_DEADLOCK FALSE` everywhere: every one of these programs ends. That it does not get stuck
before its end is what the liveness properties say.

### Fairness

- `LaneTest`: one goroutine, whose `margin` calls all end (`TrafficEnds` is why): `WF(Next)`.
- `LaneCommands`: the goroutine runs, deadlines pass (`TimesOut` is one alternative of its
  waiting steps), a command in flight arrives or gets lost. Nothing is assumed of the
  receiver's progress: a receiver that sets up forever is given up.
- `LinkTest`: some goroutine that can run does, `WF(Next)`: no more than Go's scheduler
  promises. It is enough since no goroutine can run forever. A panic (`crashed`) is an end.
- `Discovery`: one goroutine, whose reads return: `WF(Next)`.
- `LinkTrain`, `OcpStream`: as `LinkTest`; a goroutine at a lock or a WaitGroup that is not free
  has no step to take. Nothing is assumed of the links: `ComesUp` is not fair.

## Proofs

Every invariant and action property that a passing run checks is proved, and both refinements
and the calls of a lane in their safety part: TLC shows each on a small instance, the theorem
for all values of the constants that the module's `ConstantsAssumption` allows. The assumptions
beside it are three, `EyeSpecsInPayload`, `EyeSpecsFit` and `Timely`, and are said where they are
needed.

Each proof has the same shape: the properties are not inductive, so a conjunction of named
parts is stated first; one lemma per action says what the action makes of the variables
(`...Makes`, `...Is`), one lemma per part that every step keeps it; the theorem then is a
consequence of the invariant in a single state.

### `LaneTest`: `LaneTestProofs`, `LaneScanProofs`

For every direction bit, capability, set of specs, set of eyes, faults and `MaxFaults`.

| Theorem | Property | Assumes |
|---|---|---|
| `TypeCorrect` | `TypeOK`: every offset is a `uint16`, every mark a point's steps | |
| `EyeCheckSound` | `EyeSizeSound`, whatever the receiver's eye, capability, directions and faults | `EyeSpecsInPayload` |
| `EyeCheckInRange` | `EyeSizeWithinRange` | `EyeSpecsFit` |
| `EyeCheckComplete` | `EyeSizeComplete` | `EyeSpecsFit` |
| `EyeCheckExact` | `EyeSizeExact` | `EyeSpecsFit` |
| `ScanIsBracketed` | `ScanBracketsEdge` | |

The code bounds neither the required eye nor the step of an eye-size check
(`lmt_lane.go:418-437`); the theorems do. `EyeSpecsInPayload`: the required eye is less than 256
steps, so that an offset fits the payload's 8 bits, and the step at most the target plus 1, so that
the offset never falls below 0. `EyeSpecsFit`: the eye is below the direction bit, too. A scan
needs no such thing, its offsets are brought back to the lane's capability.

Soundness needs the first two. With a larger step the subtraction wraps (`lane_test_underflow`),
and the wrapped offset may pass: a voltage check for an eye of 2 by steps of 2 passes an eye of
1, with a positive mark at 65281. From 511 steps on, the offset of half the eye is 256 or more,
which the payload cuts to 0, so that a lane whose center passes is found to have an eye of 511
steps. Between 64 (or 128) and 255 steps the direction bit of a positive offset may be set by its
value, and the receiver margins the negative side instead: `SoundInv` shows why this passes no
lane that should fail. A negative mark is real. A positive one is real or misread (`Misread`):
its offset had the direction bit, is recorded without it, and is so a direction bit short of what
it used up of the required eye. The negative side got the rest of that (`Rest`, `UsedInv`), so
that the two marks cannot add up to the required eye, which the verdict asks for (`VerdictInv`).

Below the direction bit, `EyeInv` says: the range is what the spec asks for and the offset in it
(`RangeInv`: `ModeInv`, `FitInv`), both sides have a pass before a redo, a side left without one
has failed at the target (`LoopInv`), and so it is at the end (`EndInv`). For completeness,
`EyePlainInv` says of a plain check what the failing marks show: a loop that has failed at
`offset + 1` has left the eye there, so that the first loop stops at the edge or at half of the
size, the second at the edge or at the rest, and the redone one at the rest of what the second
found.

`ScanInv` says of a scan: its offsets lie within its range (`ReachInv`); each side's passing mark
is within the eye, its failing mark outside and a step further, or the start (`Marked`); a side
that has not failed has passed at the offset before (`Ahead`) or at this one (`Behind`),
depending on which half of the iteration is done. For a receiver that does not margin the
directions independently, the negative side fails with the positive one.

### `LaneCommands`: `LaneCommandsProofs`

For any number of reports, points and lost commands.

| Theorem | Property | Assumes |
|---|---|---|
| `TypeCorrect` | `TypeOK` | |
| `PolledIsOwn` | `PolledOwn` | `Timely` |
| `TidyIsNormal` | `NormalWhenTidy` | `Timely` |
| `CallsAreCalls` | the initial states and steps of `Rpc` (the safety part of `RpcSpec`) | `Timely` |

`Timely`: a response not there when the deadline passes never comes. Nothing in the protocol
tells a late response from the next command's: without it TLC finds `PolledOwn` violated in the
instance of `lane_commands`, and `NormalWhenTidy` with one more point and a longer wire.

`PhaseInv` ties the phase of a command to the call that makes it. `ExchangeInv` is the heart:
while a call waits, either the status register still holds the No Command (the sample count: a
step's status) and what is on the wire is the call's own, or the wire is empty and the register
holds the answer to this call; between the calls the wire is empty. `RegisterInv` says what the
register keeps between the calls (the polling loop reads it without a command of its own),
`NormalInv` where the receiver is known to be at its normal settings.

### `LinkTest`: `LinkTestProofs`

For any number of links, receivers, lanes and setups: `TypeCorrect` (`TypeOK`), `OneLaneAtATime`
(`SeriesExclusive`), `LanesRunInTurn` (`LanesInTurn`), `PortsAreQuiet` (`QuietPorts`),
`WidthIsRestored` (`HawdRestored`), `VerdictOfLanes` (`ResultOfLanes`) and `TallyIsRight`
(`TallyAgrees`).

Everything that is said of the goroutines after a `Wait` rests on `CountInv`: each WaitGroup's
counter is the number of the goroutines it is to wait for (`Cardinality` of those that run), so
that a counter of 0 means that none does. `LinksInv`, `OrderInv` and `LaneInv` say that links,
receivers and lanes are taken once and in order, and that a lane runs only while its receiver
is under test. `PortInv` follows both ports through preparation and restoration, with what was
saved of them. `GatherInv` and `DiagInv` say when a lane counts: its verdict is final when it is
gathered, a receiver's diagnosis is of all of its lanes. For the tally, every receiver that is
ready has been diagnosed by the end, or its link failed its check.

### `Discovery`: `DiscoveryProofs`

For any devices and any capability lists, in a circle or not: `TypeCorrect` (`TypeOK`),
`LinksAreEligible` (`EligibleEnlisted`) and `LinksAreReady` (`ReadyByRegisters`).

`PlaceInv` says which walk is made of which device, `WalkInv` what a walk has found out: what it
has read is the start of the list, without a match, and lies with the header it is at in every
set closed under the search. So a match it comes to is the only one that does (`FirstOf`), and a
walk that ends, or comes back to a header it has read, has shown that there is none. `ListInv`
ties the list of links to the eligible devices looked at so far, `KnownInv` each link's offsets
and flags to the walks that have been made of its ports (`Fresh`, `Half`, `Whole`).

### `LinkTrain`: `LinkTrainProofs`, `LinkStreamProofs`

For any number of links, one below the other or not, any fields, iterations and methods.

| Theorem | Property |
|---|---|
| `TypeCorrect` | `TypeOK` |
| `LinksTakeTurns` | `OneAtATime` |
| `VerdictIsOfFields` | `VerdictOfFields` |
| `CountsAreRight` | `CountsAddUp` |
| `EvidenceStays` | `EvidenceKept` (an action property) |
| `FieldsComeBack` | `RecoveredAsFound` |
| `LinksComeUp` | `LinksLeftUp` |
| `ResultIsOfLinks` | `ResultOfLinks` |
| `StreamsFormSteps` | `StreamsWellFormed`: each link's stream implements `OcpSteps` |

`LinksInv` is `CountInv` of the links' WaitGroup. `CountsInv` follows the counts through the
loop. `JudgedInv` ties the flags to the fields: something has failed exactly when a field is
`S_ERROR`, until then a field checked has passed, and one that passed has a value that matches;
`KindInv` keeps a field to the states of its kind. `DownInv`: a bit that takes a link down is
left set only if it was read while a link above was not up. `KeptInv` is about a link below no
other: only its own goroutine resets it, it is as found until it is trained, and what was
recorded of it is what it was found with. `Restoring`: once such a link is up when its fields
begin to be written back, those behind the loop's place are as found, and stay so. `UpInv` gives
the rest of `RecoveredAsFound`: a checker that all ones do not match has matched, so the link was
up, and it stays so until it is trained again. `EndedInv` tells how a goroutine ended from its
last artifact. `StreamInv` says what the stream contains by the place in the loop, which gives
every step of `OcpSteps` its guard; `ExpectedAt`, that a link is trained only if each series it
ends was started.

### `OcpStream`: `OcpStreamProofs`

For any goroutines and any number of artifacts: `TypeCorrect` (`TypeOK`), `LinesKeptWhole`
(`LinesWhole`), `NumbersKept` (`NumbersAccounted`), `MainComesFirstAndLast`
(`MainFirstAndLast`), and `StreamIsLog` (`LogSpec`: `ArtifactLog` is implemented).

`HandInv`: the artifact in hand has a number given out. `LockInv`: who writes holds the lock,
alone. `LineInv`: so the pipe is whole lines but for the writer's last. `OrderInv`: the numbers
of one goroutine grow. `GivenOut`: the numbers in the pipe, or lost, are among those given out.
`JoinInv`: the workers run between main's second and third artifact.

### Only model-checked

- The liveness properties: `AspectEnds`, `TrafficEnds`, `RunEnds` (`LinkTest` and `LinkTrain`),
  `WalksEnd`, `StreamEnds`, and the fairness in `RpcSpec`. Liveness under fairness is out of the
  prover's reach.
- What the runs that expect a violation show: counterexamples are TLC's to find.

## What the models do not promise

Some properties hold only as far as they are stated, and the runs with the limit taken off show
why:

- `RecoveredAsFound` is about links below no other, and those that are up when the fields begin
  to be written back, or pass with a checker that can tell. The fields of a link that did not
  come up, or came up while they were written, stay as the reset left them: `restore`
  (`linktrain.go:397-419`) writes once and looks at nothing. A link below another that is
  trained, too (both selected, as under a switch), may have what it restored cleared by a reset
  of the upper one.
- `LinksLeftUp` is about all links, with the exception it states: a read of a nested link's control
  register while a link above is not up returns all ones, which is then written back, so that
  the link stays disabled or in reset.
- `EyeSizeSound` holds as far as `EyeSpecsInPayload` (see Proofs).
- `ResultOfLanes` and `TallyAgrees` say how the verdicts follow from the lanes; that lanes whose
  margining was cut short count as passed is `link_diag`.
- `ReadyByRegisters` takes an `LMR alias` for lane margining, as the code does.

## Not modelled, and the plan

Left out for good: CSV conversion (formatting of a finished result), the command line's other
flags, cgo wrappers, texts of artifacts, dwell time and BER (floats).

Next, in this order:

1. Late responses (`Timely = FALSE`): which calls stay right. A call that starts with a No Command
   and waits for it to be reflected is the candidate; the direct one of the sample count and the
   polling loop are not.
2. A lane's test from its commands: the statuses that `LaneTest` lets a faulty `margin` end with
   against those that `LaneCommands` can produce, so that `Faults` is derived and not given.
3. Eye-size checks outside of `EyeSpecsInPayload`: which steps beyond the target plus 1 stay
   sound (with a direction bit of 64, of those tried, TLC finds none that does not), and required
   eyes from 256 to 510.
4. Bounds from above for the walks and loops that liveness is checked of (a walk reads each header
   at most once, a side margins at most the steps between start and target): the safety part of
   why they end, which can be proved.
