------------------------------ MODULE LinkTrain ------------------------------
(***************************************************************************)
(* LinkTrain of ltt/linktrain.go: every link is trained over and over by a *)
(* goroutine of its own (trainLoop), all at once or one after the other.   *)
(* Before the first training and after each one the fields to be checked   *)
(* are compared with what is expected (check); some fields are logged      *)
(* (log), and some recorded before (record) and written back after         *)
(* (restore).                                                              *)
(*                                                                         *)
(* A register is the set of its bits that are 1.  The code only waits for  *)
(* a link it has trained: the link comes up in time, later, or never, and  *)
(* until it does its registers cannot be reached.  A link may lie below    *)
(* another: it goes down with it, and is reset.                            *)
(***************************************************************************)
EXTENDS Integers, SequencesExt

CONSTANTS
  NumLinks,     \* links matching the configuration, at most
  Addrs,        \* registers of an upstream port
  Bits,         \* bits of a register
  Status,       \* the registers that tell how the link is, which any training may change
  Comes,        \* what each register may hold when its link is up again
  Setups        \* what may be asked, and the machines it may be asked of

Links == 1 .. NumLinks

\* A value that may be missing is a set of at most one.
Optional(S) == {{}} \cup {{v} : v \in S}

\* A field: what to do with it, its register, whether its size is one the code reads (UINT64
\* is not), its mask, and the expected value if there is one.
FieldType ==
  [kind : {"S_CHECK", "S_LOG", "S_RECOVER"}, addr : Addrs, sized : BOOLEAN, mask : SUBSET Bits,
   expected : Optional(SUBSET Bits)]

Methods == {"M_RETRAIN_DEFAULT", "M_SBR", "M_REENABLE"}

ASSUME ConstantsAssumption ==
  /\ NumLinks \in Nat \ {0}
  /\ Status \subseteq Addrs
  /\ Comes \in [Addrs -> SUBSET SUBSET Bits] /\ \A a \in Addrs : Comes[a] # {}
  /\ Setups \subseteq
       [links : Links, fields : Seq(FieldType), iterations : Nat, continue : BOOLEAN,
        method : Methods, parallel : BOOLEAN, below : [Links -> SUBSET Links],
        found : [Links -> [Addrs -> SUBSET Bits]]]
  /\ \A s \in Setups, l \in Links :
       l \notin s.below[l] /\ \A k \in s.below[l] : s.below[k] \subseteq s.below[l]

VARIABLES
  setup,        \* what is asked
  mpc,          \* LinkTrain: "spawn", "join", "done"
  next,         \* LinkTrain: the next link to start
  wg,           \* LinkTrain: its WaitGroup
  result,       \* testRunEnd.Result
  tpc,          \* where trainLoop is
  at,           \* trainLoop: the loop over fields, how far it is
  fine,         \* check: no field has failed so far
  itr,          \* trainLoop: the iterations done
  passCount, failCount,
  pass,         \* lt.Pass
  state, val,   \* of a link's fields
  seriesCnt,    \* of a link's checkers
  out,          \* the artifacts streamed for a link, but for
  nameless,     \* the elements streamed to a series with no name
  reg,          \* registers of the upstream ports
  up,           \* the link is trained: its upstream port answers
  down,         \* the downstream port's bit that takes the link down: link disable, bus reset
  ctl           \* that bit, as it was read before it was set

mainVars == <<mpc, next, wg, result>>
loopVars == <<tpc, at, fine, itr>>
countVars == <<passCount, failCount, pass>>
fieldVars == <<state, val>>
streamVars == <<seriesCnt, out, nameless>>
hwVars == <<reg, up, down, ctl>>
vars == <<setup, mainVars, loopVars, countVars, fieldVars, streamVars, hwVars>>

-----------------------------------------------------------------------------
Fields == DOMAIN setup.fields
FieldIds == UNION {DOMAIN s.fields : s \in Setups}

FieldsOf(kind) == {i \in Fields : setup.fields[i].kind = kind}

Checkers == FieldsOf("S_CHECK")
Recorded == FieldsOf("S_RECOVER")

\* getLinks' and the machine's initial state; the links are known and the run has started.
Init ==
  /\ setup \in Setups
  /\ mpc = "spawn" /\ next = 1 /\ wg = 0 /\ result = "NOT_APPLICABLE"
  /\ tpc = [l \in Links |-> "idle"]
  /\ at = [l \in Links |-> 1]
  /\ fine = [l \in Links |-> TRUE]
  /\ itr = [l \in Links |-> 0]
  /\ passCount = [l \in Links |-> 0]
  /\ failCount = [l \in Links |-> 0]
  /\ pass = [l \in Links |-> FALSE]
  /\ state = [l \in Links |-> [i \in Fields |-> setup.fields[i].kind]]
  /\ val = [l \in Links |-> [i \in Fields |-> {}]]
  /\ seriesCnt = [l \in Links |-> [i \in Fields |-> 0]]
  /\ out = [l \in Links |-> <<>>]
  /\ nameless = [l \in Links |-> 0]
  /\ reg = setup.found
  /\ up = [l \in Links |-> TRUE]
  /\ down = [l \in Links |-> FALSE]
  /\ ctl = [l \in Links |-> FALSE]

-----------------------------------------------------------------------------
\* LinkTrain.

\* Mutant: links that are to be trained in series are started at once.
MayStartAlways == TRUE

\* In series, a link is started when the one before has finished.
MayStart == setup.parallel \/ wg = 0

SpawnLink ==
  /\ mpc = "spawn" /\ next <= setup.links /\ MayStart
  /\ next' = next + 1 /\ wg' = wg + 1
  /\ tpc' = [tpc EXCEPT ![next] = "record"]
  /\ UNCHANGED <<setup, mpc, result, at, fine, itr, countVars, fieldVars, streamVars, hwVars>>

AllSpawned ==
  /\ mpc = "spawn" /\ next > setup.links
  /\ mpc' = "join"
  /\ UNCHANGED <<setup, next, wg, result, loopVars, countVars, fieldVars, streamVars, hwVars>>

\* Mutant: the last link decides.
ResultOfLast == IF pass[setup.links] THEN "PASS" ELSE "FAIL"

ResultOfAll == IF \E l \in 1 .. setup.links : ~pass[l] THEN "FAIL" ELSE "PASS"

RunEnd ==
  /\ mpc = "join" /\ wg = 0
  /\ mpc' = "done" /\ result' = ResultOfAll
  /\ UNCHANGED <<setup, next, wg, loopVars, countVars, fieldVars, streamVars, hwVars>>

-----------------------------------------------------------------------------
\* Configuration space.

Under(l) == setup.below[l] \cup {l}
Above(l) == {k \in Links : l \in setup.below[k]}

\* The downstream port of a link answers if the links above are up, the upstream port if the
\* link itself is, too.
DspReachable(l) == \A k \in Above(l) : up[k]
UspReachable(l) == DspReachable(l) /\ up[l]

\* A link goes down, and those below with it; their ports' bits are reset.
GoesDown(l, bit) ==
  /\ up' = [k \in Links |-> up[k] /\ k \notin Under(l)]
  /\ down' = [k \in Links |-> IF k = l THEN bit ELSE down[k] /\ k \notin setup.below[l]]

\* A write to the bit that takes a link down.
WriteDown(l, bit) ==
  IF ~DspReachable(l) THEN UNCHANGED <<up, down>>
  ELSE IF bit THEN GoesDown(l, TRUE)
  ELSE down' = [down EXCEPT ![l] = FALSE] /\ UNCHANGED up

\* A link that is not held down is trained by its ports, sooner or later or never, whatever the
\* code does meanwhile; its registers have been reset.
ComesUp(l) ==
  /\ ~up[l] /\ ~down[l] /\ DspReachable(l)
  /\ up' = [up EXCEPT ![l] = TRUE]
  /\ \E now \in [Addrs -> UNION {Comes[a] : a \in Addrs}] :
       /\ \A a \in Addrs : now[a] \in Comes[a]
       /\ reg' = [reg EXCEPT ![l] = now]
  /\ UNCHANGED <<setup, mainVars, loopVars, countVars, fieldVars, streamVars, down, ctl>>

\* The value the code has of a field: all ones if nobody answers, 0 for a size it does not read.
ValueOf(l, f) ==
  IF ~f.sized THEN {}
  ELSE IF UspReachable(l) THEN reg[l][f.addr] ELSE Bits

\* Mutant: the whole register is overwritten.
WrittenBackWhole(l, f, v) == v

\* A field's bits take the recorded value, in a read-modify-write.
WrittenBack(l, f, v) == (reg[l][f.addr] \ f.mask) \cup (v \cap f.mask)

-----------------------------------------------------------------------------
\* trainLoop: its parts.

Goto(l, place) == tpc' = [tpc EXCEPT ![l] = place]

\* The next part of trainLoop loops over fields from the first one.
GotoLoop(l, place) == Goto(l, place) /\ at' = [at EXCEPT ![l] = 1]

GotoCheck(l, place) == GotoLoop(l, place) /\ fine' = [fine EXCEPT ![l] = TRUE]

\* It is at a field of S, the first of those that are left, or at none any more.
LeftOf(l, S) == {i \in S : at[l] <= i}
IsAt(l, S, i) == i \in LeftOf(l, S) /\ \A j \in LeftOf(l, S) : i <= j
Over(l, S) == LeftOf(l, S) = {}

NextField(l, i) == at' = [at EXCEPT ![l] = i + 1]

Stream == INSTANCE OcpSteps WITH Steps <- Links, Series <- FieldIds, log <- out

Emit(l, artifact) == out' = [out EXCEPT ![l] = Append(@, artifact)]

\* wg.Done.
Done == wg' = wg - 1

\* The fields of a kind, and theirs only, get the value they are read with.
ReadAll(l, kind) ==
  val' = [val EXCEPT ![l] = [i \in Fields |->
            LET f == setup.fields[i]
            IN  IF f.kind = kind THEN {ValueOf(l, f) \cap f.mask} ELSE @[i]]]

Log(l) ==
  /\ ReadAll(l, "S_LOG")
  /\ state' = [state EXCEPT ![l] = [i \in Fields |->
                 IF setup.fields[i].kind = "S_LOG" THEN "S_LOGGED" ELSE @[i]]]

\* record, and the step's start.
Record(l) ==
  /\ tpc[l] = "record"
  /\ ReadAll(l, "S_RECOVER")
  /\ Emit(l, Stream!StepStart)
  /\ GotoLoop(l, "series")
  /\ UNCHANGED <<setup, mainVars, fine, itr, countVars, state, seriesCnt, nameless, hwVars>>

\* A series is started for each checker that has an expected value.
StartSeries(l, i) ==
  /\ tpc[l] = "series" /\ IsAt(l, Checkers, i)
  /\ IF setup.fields[i].expected = {}
     THEN state' = [state EXCEPT ![l][i] = "S_ERROR"] /\ UNCHANGED out
     ELSE Emit(l, Stream!SeriesStart(i)) /\ UNCHANGED state
  /\ NextField(l, i)
  /\ UNCHANGED <<setup, mainVars, tpc, fine, itr, countVars, val, seriesCnt, nameless, hwVars>>

SeriesStarted(l) ==
  /\ tpc[l] = "series" /\ Over(l, Checkers)
  /\ GotoCheck(l, "initial")
  /\ UNCHANGED <<setup, mainVars, itr, countVars, fieldVars, streamVars, hwVars>>

-----------------------------------------------------------------------------
\* check, a field at a time.

Matches(f, v) == \E e \in f.expected : e \cap f.mask = v \cap f.mask

\* Mutant: the last field decides.
StillFineLast(l, f, v) == Matches(f, v)

\* One pass flag for all the fields: once one has failed, it stays down.
StillFine(l, f, v) == fine[l] /\ Matches(f, v)

\* A field that was found in error keeps its value and state.
Judgeable(l, i) == state[l][i] \in {"S_CHECK", "S_PASS"}

\* Mutant: elements are counted only if they match.
CountedIfMatching(l, i, f, v) == IF Matches(f, v) THEN seriesCnt[l][i] + 1 ELSE seriesCnt[l][i]

Counted(l, i, f, v) == seriesCnt[l][i] + 1

\* A checker without an expected value has a series with an empty name.
CheckField(l, i) ==
  /\ tpc[l] \in {"initial", "check"} /\ IsAt(l, Checkers, i)
  /\ LET f == setup.fields[i]
         v == ValueOf(l, f)
     IN  /\ IF f.expected = {}
            THEN nameless' = [nameless EXCEPT ![l] = @ + 1] /\ UNCHANGED out
            ELSE Emit(l, Stream!Element(i, seriesCnt[l][i])) /\ UNCHANGED nameless
         /\ seriesCnt' = [seriesCnt EXCEPT ![l][i] = Counted(l, i, f, v)]
         /\ fine' = [fine EXCEPT ![l] = StillFine(l, f, v)]
         /\ IF f.expected = {}
            THEN state' = [state EXCEPT ![l][i] = "S_ERROR"] /\ UNCHANGED val
            ELSE IF Judgeable(l, i)
            THEN /\ val' = [val EXCEPT ![l][i] = {v \cap f.mask}]
                 /\ state' = [state EXCEPT ![l][i] = IF fine'[l] THEN "S_PASS" ELSE "S_ERROR"]
            ELSE UNCHANGED <<state, val>>
  /\ NextField(l, i)
  /\ UNCHANGED <<setup, mainVars, tpc, itr, countVars, hwVars>>

Checked(l, place) == tpc[l] = place /\ Over(l, Checkers)

InitialPasses(l) ==
  /\ Checked(l, "initial") /\ fine[l]
  /\ Goto(l, "train")
  /\ UNCHANGED <<setup, mainVars, at, fine, itr, countVars, fieldVars, streamVars, hwVars>>

\* Mutant: the goroutine returns early without wg.Done.
LeaveQuietly == UNCHANGED wg

\* Mutant: it is called twice.
LeaveTwice == wg' = wg - 2

\* The deferred wg.Done of a trainLoop that returns early.
Leave == Done

\* The link is not trained: trainLoop returns at once.
InitialFails(l) ==
  /\ Checked(l, "initial") /\ ~fine[l]
  /\ Log(l)
  /\ failCount' = [failCount EXCEPT ![l] = @ + 1]
  /\ pass' = [pass EXCEPT ![l] = FALSE]
  /\ Emit(l, Stream!Diagnosis("FAIL"))
  /\ Goto(l, "ended") /\ Leave
  /\ UNCHANGED <<setup, mpc, next, result, at, fine, itr, passCount, seriesCnt, nameless, hwVars>>

-----------------------------------------------------------------------------
\* The training methods.

MayTrain(l, method) == tpc[l] = "train" /\ itr[l] < setup.iterations /\ setup.method = method

\* The link is up again: its configuration is kept, its status may be another.
Retrained(l) ==
  /\ \E now \in [Status -> UNION {Comes[a] : a \in Status}] :
       /\ \A a \in Status : now[a] \in Comes[a]
       /\ reg' = [reg EXCEPT ![l] = [a \in Addrs |-> IF a \in Status THEN now[a] ELSE @[a]]]
  /\ UNCHANGED <<up, down>>

\* retrain: the link recovers, or is lost.
Retrain(l) ==
  /\ MayTrain(l, "M_RETRAIN_DEFAULT")
  /\ IF UspReachable(l)
     THEN Retrained(l) \/ (GoesDown(l, down[l]) /\ UNCHANGED reg)
     ELSE UNCHANGED <<reg, up, down>>
  /\ GotoCheck(l, "check")
  /\ UNCHANGED <<setup, mainVars, itr, countVars, fieldVars, streamVars, ctl>>

\* secondaryBusReset and reenable take the link down by a bit of a register, whose value they
\* keep (all ones if nobody answers), wait, and write that value back.
TakeDown(l) ==
  /\ MayTrain(l, "M_SBR") \/ MayTrain(l, "M_REENABLE")
  /\ ctl' = [ctl EXCEPT ![l] = IF DspReachable(l) THEN down[l] ELSE TRUE]
  /\ WriteDown(l, TRUE)
  /\ Goto(l, "down")
  /\ UNCHANGED <<setup, mainVars, at, fine, itr, countVars, fieldVars, streamVars, reg>>

\* Mutant: the value read back after the write is written back.
RestoredCtlReadback(l) == down[l]

RestoredCtl(l) == ctl[l]

\* The value is written back. Whether the link is up when the wait is over, nobody asks.
BringUp(l) ==
  /\ tpc[l] = "down"
  /\ WriteDown(l, RestoredCtl(l))
  /\ GotoCheck(l, "check")
  /\ UNCHANGED <<setup, mainVars, itr, countVars, fieldVars, streamVars, reg, ctl>>

-----------------------------------------------------------------------------
\* What comes of a check.

CheckPasses(l) ==
  /\ Checked(l, "check") /\ fine[l]
  /\ passCount' = [passCount EXCEPT ![l] = @ + 1]
  /\ itr' = [itr EXCEPT ![l] = @ + 1]
  /\ Goto(l, "train")
  /\ UNCHANGED <<setup, mainVars, at, fine, failCount, pass, fieldVars, streamVars, hwVars>>

\* Mutant: every failure is logged.
ToBeLoggedAlways(l) == TRUE

\* Only the first failure is logged.
ToBeLogged(l) == failCount[l] = 0

\* Mutant: the loop is left before the failure is counted.
FailuresIfContinued(l) == IF setup.continue THEN failCount[l] + 1 ELSE failCount[l]

Failures(l) == failCount[l] + 1

CheckFails(l) ==
  /\ Checked(l, "check") /\ ~fine[l]
  /\ IF ToBeLogged(l) THEN Log(l) ELSE UNCHANGED <<state, val>>
  /\ failCount' = [failCount EXCEPT ![l] = Failures(l)]
  /\ IF setup.continue
     THEN itr' = [itr EXCEPT ![l] = @ + 1] /\ Goto(l, "train")
     ELSE UNCHANGED itr /\ Goto(l, "verdict")
  /\ UNCHANGED <<setup, mainVars, at, fine, passCount, pass, streamVars, hwVars>>

\* The fields are logged now, if there was no failure to log them at.
Verdict(l) ==
  /\ tpc[l] = "verdict" \/ (tpc[l] = "train" /\ itr[l] >= setup.iterations)
  /\ IF failCount[l] = 0 /\ passCount[l] > 0
     THEN /\ Log(l)
          /\ pass' = [pass EXCEPT ![l] = TRUE]
          /\ Emit(l, Stream!Diagnosis("PASS"))
     ELSE /\ Emit(l, Stream!Diagnosis("FAIL"))
          /\ UNCHANGED <<state, val, pass>>
  /\ GotoLoop(l, "restore")
  /\ UNCHANGED <<setup, mainVars, fine, itr, passCount, failCount, seriesCnt, nameless, hwVars>>

-----------------------------------------------------------------------------
\* restore, and the end of the step.

RestoreField(l, i) ==
  /\ tpc[l] = "restore" /\ IsAt(l, Recorded, i)
  /\ LET f == setup.fields[i]
     IN  IF f.sized /\ UspReachable(l)
         THEN \E v \in val[l][i] : reg' = [reg EXCEPT ![l][f.addr] = WrittenBack(l, f, v)]
         ELSE UNCHANGED reg
  /\ NextField(l, i)
  /\ UNCHANGED <<setup, mainVars, tpc, fine, itr, countVars, fieldVars, streamVars, up, down,
                 ctl>>

Restored(l) ==
  /\ tpc[l] = "restore" /\ Over(l, Recorded)
  /\ GotoLoop(l, "close")
  /\ UNCHANGED <<setup, mainVars, fine, itr, countVars, fieldVars, streamVars, hwVars>>

EndSeries(l, i) ==
  /\ tpc[l] = "close" /\ IsAt(l, Checkers, i)
  /\ Emit(l, Stream!SeriesEnd(i, seriesCnt[l][i]))
  /\ NextField(l, i)
  /\ UNCHANGED <<setup, mainVars, tpc, fine, itr, countVars, fieldVars, seriesCnt, nameless,
                 hwVars>>

EndStep(l) ==
  /\ tpc[l] = "close" /\ Over(l, Checkers)
  /\ Emit(l, Stream!StepEnd)
  /\ Goto(l, "ended") /\ Done
  /\ UNCHANGED <<setup, mpc, next, result, at, fine, itr, countVars, fieldVars, seriesCnt, nameless,
                 hwVars>>

-----------------------------------------------------------------------------
LinkTrainMain == SpawnLink \/ AllSpawned \/ RunEnd

TrainLoop(l) ==
  \/ \E i \in Fields : StartSeries(l, i) \/ CheckField(l, i) \/ RestoreField(l, i) \/ EndSeries(l, i)
  \/ Record(l) \/ SeriesStarted(l) \/ InitialPasses(l) \/ InitialFails(l)
  \/ Retrain(l) \/ TakeDown(l) \/ BringUp(l)
  \/ CheckPasses(l) \/ CheckFails(l) \/ Verdict(l) \/ Restored(l) \/ EndStep(l)

Next == LinkTrainMain \/ \E l \in Links : TrainLoop(l) \/ ComesUp(l)

Spec == Init /\ [][Next]_vars

\* Some goroutine that can run does; a link need not come up.
FairSpec == Spec /\ WF_vars(LinkTrainMain \/ \E l \in Links : TrainLoop(l))

-----------------------------------------------------------------------------
\* Properties.

TypeOK ==
  /\ setup \in Setups
  /\ mpc \in {"spawn", "join", "done"} /\ next \in 1 .. NumLinks + 1 /\ wg \in 0 .. NumLinks
  /\ result \in {"NOT_APPLICABLE", "PASS", "FAIL"}
  /\ tpc \in [Links -> {"idle", "record", "series", "initial", "train", "down", "check", "verdict",
                        "restore", "close", "ended"}]
  /\ at \in [Links -> 1 .. Len(setup.fields) + 1] /\ fine \in [Links -> BOOLEAN]
  /\ itr \in [Links -> 0 .. setup.iterations]
  /\ passCount \in [Links -> Nat] /\ failCount \in [Links -> Nat] /\ pass \in [Links -> BOOLEAN]
  /\ state \in [Links -> [Fields -> {"S_LOG", "S_LOGGED", "S_CHECK", "S_PASS", "S_ERROR",
                                     "S_RECOVER"}]]
  /\ val \in [Links -> [Fields -> Optional(SUBSET Bits)]]
  /\ seriesCnt \in [Links -> [Fields -> Nat]] /\ nameless \in [Links -> Nat]
  /\ reg \in [Links -> [Addrs -> SUBSET Bits]]
  /\ up \in [Links -> BOOLEAN] /\ down \in [Links -> BOOLEAN] /\ ctl \in [Links -> BOOLEAN]

Ended(l) == tpc[l] = "ended"
Active(l) == tpc[l] \notin {"idle", "ended"}

\* Links that are not to be trained in parallel are trained one at a time
\* (linktrain.go:693-696).
OneAtATime == ~setup.parallel => \A k, l \in Links : Active(k) /\ Active(l) => k = l

\* A link passes if and only if it was trained and all of its checkers say S_PASS, each with
\* its expected value (linktrain.go:341-353, 552-554).
VerdictOfFields ==
  \A l \in Links : Ended(l) =>
    /\ pass[l] <=> passCount[l] > 0 /\ \A i \in Checkers : state[l][i] = "S_PASS"
    /\ \A i \in Checkers : state[l][i] = "S_PASS" =>
         \E v \in val[l][i] : Matches(setup.fields[i], v)

\* The counts of a trained link account for every iteration asked for, or for those up to the
\* first failure; one that fails the initial check has that failure only; and a link passes
\* when every iteration did (linktrain.go:500-503, 531-546).
CountsAddUp ==
  \A l \in Links : Ended(l) =>
    /\ IF Last(out[l]) = Stream!StepEnd
       THEN \/ passCount[l] + failCount[l] = setup.iterations
            \/ ~setup.continue /\ failCount[l] = 1 /\ passCount[l] < setup.iterations
       ELSE passCount[l] = 0 /\ failCount[l] = 1
    /\ pass[l] <=> passCount[l] = setup.iterations /\ setup.iterations > 0 /\ failCount[l] = 0

\* The link's recorded fields have the values they were found with.
AsFound(l) ==
  \A i \in Recorded :
    LET f == setup.fields[i]
    IN  f.sized => reg[l][f.addr] \cap f.mask = setup.found[l][f.addr] \cap f.mask

\* A checker that does not match a link that is not up, of which it reads all ones.
TellsDown(i) ==
  LET f == setup.fields[i]
  IN  i \in Checkers /\ f.sized /\ \A e \in f.expected : ~(f.mask \subseteq e)

\* A link that lies below no other and is up when its fields begin to be written back has them as
\* they were found when its test has ended, and from then on (ltt.proto:75); what is written to
\* one that is not up, as the code does not ask (linktrain.go:136, 155, 172), is lost.  So a link
\* that passes has them, if one of its checkers can tell that it is up.
RecoveredAsFound ==
  /\ \A l \in Links :
       [](tpc[l] = "restore" /\ at[l] = 1 /\ up[l] /\ Above(l) = {} => [](Ended(l) => AsFound(l)))
  /\ [](\A l \in Links :
          Ended(l) /\ pass[l] /\ Above(l) = {} /\ (\E i \in Fields : TellsDown(i)) => AsFound(l))

\* No link is left disabled or in reset, but one whose port could not be reached when the value
\* to be written back was read: below no other link there is none (linktrain.go:151, 168).
LinksLeftUp ==
  \A l \in Links : tpc[l] # "down" /\ down[l] => ctl[l] /\ Above(l) # {}

\* The run passes if and only if every link was trained and has passed (linktrain.go:707-712).
ResultOfLinks ==
  mpc = "done" => (result = "PASS" <=> \A l \in 1 .. setup.links : Ended(l) /\ pass[l])

\* What the first failure left stays: the value of a field in error and of a logged one never
\* changes again (linktrain.go:345, 532-535).
EvidenceKept ==
  [][\A l \in Links, i \in Fields :
       state[l][i] \in {"S_ERROR", "S_LOGGED"} =>
         state'[l][i] = state[l][i] /\ val'[l][i] = val[l][i]]_vars

\* The artifacts of each link form a test step (linktrain.go:430, 444, 578, 594).
StreamsWellFormed == Stream!Spec

\* Every run ends.
RunEnds == <>(mpc = "done")
=============================================================================
