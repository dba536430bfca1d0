------------------------------ MODULE LinkTest ------------------------------
(***************************************************************************)
(* MarginLinks of lanemargintest.go and marginLink of lmt_link.go: the     *)
(* links are tested in parallel by a goroutine each; a link's goroutine    *)
(* prepares the two ports, enlists the test specs, and takes its receivers *)
(* in turn, with a goroutine per lane (MarginLane of lmt_lane.go), all at  *)
(* once or one after the other.  What a lane's margining finds is a choice *)
(* here; LaneTest says how it is found.                                    *)
(***************************************************************************)
EXTENDS Integers, SequencesExt

CONSTANTS
  NumLinks,     \* links matching the configuration
  Width,        \* lanes of a port
  Present,      \* receiver numbers present on the links (retimers may be missing)
  Setups        \* what may be asked: the test specs, the links ready to be tested, and the
                \* link control bits their ports are found with

Links == 1 .. NumLinks
Receivers == 1 .. 6              \* 0 is for broadcasts, 7 is reserved
Lanes == 0 .. Width - 1
Ports == {"dsp", "usp"}
Aspects == {"timing", "voltage"}

\* A test spec: a receiver, an aspect, possibly missing, and lane numbers, all if none is given.
TestSpecType == [rec : 0 .. 7, aspect : Aspects \cup {"unknown"}, lanes : SUBSET Lanes]

PortType == [hawd : BOOLEAN, hasd : BOOLEAN, aspm : BOOLEAN]

ASSUME ConstantsAssumption ==
  /\ NumLinks \in Nat \ {0} /\ Width \in Nat \ {0}
  /\ Present \subseteq Receivers
  /\ Setups \subseteq [specs : Seq(TestSpecType), ready : SUBSET Links,
                     found : [Ports -> PortType]]

RxIds == Links \X Present
LaneIds == Links \X Present \X Lanes
PortIds == Links \X Ports
LanesOf(rx) == {rx[1]} \X {rx[2]} \X Lanes
RxOf(n) == <<n[1], n[2]>>

VARIABLES
  setup,        \* what is asked
  mpc,          \* MarginLinks: "spawn", "join", "done"
  next,         \* MarginLinks: the next link to start
  wg,           \* MarginLinks: its WaitGroup
  result,       \* testRunEnd.Result
  taken,        \* the gathered lanes it is computed from so far
  lpc,          \* where marginLink is
  rec,          \* marginLink: the receiver under test
  ln,           \* marginLink: the next lane to start
  lwg,          \* marginLink: its WaitGroup
  linkcheck,    \* marginLink: the link's width and speed have not changed
  gathered,     \* the lanes in the links' pb.ReceiverLanes
  parallel,     \* receiver.parallel
  ready,        \* receiver.testReady
  rxwg,         \* receiver.rxwg
  diag,         \* the diagnosis streamed for a receiver, "none" before
  specced,      \* the aspects whose spec, Lane.Vspec or Lane.Tspec, is not nil
  lane,         \* where MarginLane is
  pass,         \* Lane.Pass
  mature,       \* Lane.lane # nil: the margining was done to its end
  port,         \* the link control registers of the ports
  saved,        \* what prepLink saved of them
  crashed       \* a goroutine panicked: the process is gone

mainVars == <<mpc, next, wg, result, taken>>
linkVars == <<lpc, rec, ln, lwg, linkcheck, gathered>>
rxVars == <<parallel, ready, rxwg, diag>>
laneVars == <<specced, lane, pass, mature>>
portVars == <<port, saved>>
vars == <<setup, mainVars, linkVars, rxVars, laneVars, portVars, crashed>>

-----------------------------------------------------------------------------
Init ==
  /\ setup \in Setups
  /\ mpc = "spawn" /\ next = 1 /\ wg = 0
  /\ result = "NOT_APPLICABLE" /\ taken = {}
  /\ lpc = [l \in Links |-> "idle"]
  /\ rec = [l \in Links |-> 0]
  /\ ln = [l \in Links |-> 0]
  /\ lwg = [l \in Links |-> 0]
  /\ linkcheck = [l \in Links |-> TRUE]
  /\ gathered = {}
  /\ parallel = [r \in RxIds |-> FALSE]
  /\ ready = [r \in RxIds |-> FALSE]
  /\ rxwg = [r \in RxIds |-> 0]
  /\ diag = [r \in RxIds |-> "none"]
  /\ specced = [n \in LaneIds |-> {}]
  /\ lane = [n \in LaneIds |-> "idle"]
  /\ pass = [n \in LaneIds |-> TRUE]
  /\ mature = [n \in LaneIds |-> FALSE]
  /\ port = [p \in PortIds |-> setup.found[p[2]]]
  /\ saved = [p \in PortIds |-> [hawd |-> FALSE, hasd |-> FALSE]]
  /\ crashed = FALSE

-----------------------------------------------------------------------------
\* MarginLinks.

SpawnLink ==
  /\ mpc = "spawn" /\ next \in Links
  /\ next' = next + 1
  /\ IF next \in setup.ready
     THEN wg' = wg + 1 /\ lpc' = [lpc EXCEPT ![next] = "prep"]
     ELSE UNCHANGED <<wg, lpc>>
  /\ UNCHANGED <<setup, mpc, result, taken, rec, ln, lwg, linkcheck, gathered, rxVars, laneVars,
                 portVars, crashed>>

AllSpawned ==
  /\ mpc = "spawn" /\ next \notin Links
  /\ mpc' = "join"
  /\ UNCHANGED <<setup, next, wg, result, taken, linkVars, rxVars, laneVars, portVars, crashed>>

\* Mutant: the last lane decides.
ResultOfLast(sofar, n) == IF pass[n] THEN "PASS" ELSE "FAIL"

ResultWith(sofar, n) == IF pass[n] /\ sofar # "FAIL" THEN "PASS" ELSE "FAIL"

\* All the links are done: their lanes' results are taken, in an order that is left open.
TakeResult(n) ==
  /\ mpc = "join" /\ wg = 0 /\ n \in gathered \ taken
  /\ taken' = taken \cup {n} /\ result' = ResultWith(result, n)
  /\ UNCHANGED <<setup, mpc, next, wg, linkVars, rxVars, laneVars, portVars, crashed>>

RunEnd ==
  /\ mpc = "join" /\ wg = 0 /\ gathered = taken
  /\ mpc' = "done"
  /\ UNCHANGED <<setup, next, wg, result, taken, linkVars, rxVars, laneVars, portVars, crashed>>

-----------------------------------------------------------------------------
\* prepLink and restoreLink, a register of a port at a time.

At(l, place) == lpc[l] = place
Goto(l, place) == lpc' = [lpc EXCEPT ![l] = place]

\* Mutant: the width disable bit is saved after it has been set.
PrepCtlSavesLate(l, p) ==
  /\ port' = [port EXCEPT ![<<l, p>>] = [@ EXCEPT !.hawd = TRUE, !.aspm = FALSE]]
  /\ saved' = [saved EXCEPT ![<<l, p>>] = [@ EXCEPT !.hawd = TRUE]]

\* LNKCTL: width autonomy disabled, ASPM off.
PrepCtl(l, p) ==
  /\ port' = [port EXCEPT ![<<l, p>>] = [@ EXCEPT !.hawd = TRUE, !.aspm = FALSE]]
  /\ saved' = [saved EXCEPT ![<<l, p>>] = [@ EXCEPT !.hawd = port[<<l, p>>].hawd]]

\* Mutant: speed autonomy is left as it is.
PrepCtl2Only(l, p) ==
  /\ saved' = [saved EXCEPT ![<<l, p>>] = [@ EXCEPT !.hasd = port[<<l, p>>].hasd]]
  /\ UNCHANGED port

\* LNKCTL2: speed autonomy disabled.
PrepCtl2(l, p) ==
  /\ port' = [port EXCEPT ![<<l, p>>] = [@ EXCEPT !.hasd = TRUE]]
  /\ saved' = [saved EXCEPT ![<<l, p>>] = [@ EXCEPT !.hasd = port[<<l, p>>].hasd]]

PrepLink(l) ==
  /\ \/ At(l, "prep")     /\ PrepCtl(l, "dsp")  /\ Goto(l, "prep2")
     \/ At(l, "prep2")    /\ PrepCtl2(l, "dsp") /\ Goto(l, "prepUsp")
     \/ At(l, "prepUsp")  /\ PrepCtl(l, "usp")  /\ Goto(l, "prepUsp2")
     \/ At(l, "prepUsp2") /\ PrepCtl2(l, "usp") /\ Goto(l, "enlist")
  /\ UNCHANGED <<setup, mainVars, rec, ln, lwg, linkcheck, gathered, rxVars, laneVars, crashed>>

RestoreCtl(l, p) == port' = [port EXCEPT ![<<l, p>>] = [@ EXCEPT !.hawd = saved[<<l, p>>].hawd]]

\* The speed disable bit is restored from the saved width disable bit.
RestoreCtl2(l, p) == port' = [port EXCEPT ![<<l, p>>] = [@ EXCEPT !.hasd = saved[<<l, p>>].hawd]]

\* The deferred restoreLink; then the goroutine is done.
RestoreLink(l) ==
  /\ \/ At(l, "restore")     /\ RestoreCtl(l, "dsp")  /\ Goto(l, "restore2") /\ UNCHANGED wg
     \/ At(l, "restore2")    /\ RestoreCtl2(l, "dsp") /\ Goto(l, "restoreUsp") /\ UNCHANGED wg
     \/ At(l, "restoreUsp")  /\ RestoreCtl(l, "usp")  /\ Goto(l, "restoreUsp2") /\ UNCHANGED wg
     \/ At(l, "restoreUsp2") /\ RestoreCtl2(l, "usp") /\ Goto(l, "done") /\ wg' = wg - 1
  /\ UNCHANGED <<setup, mpc, next, result, taken, rec, ln, lwg, linkcheck, gathered, rxVars,
                 laneVars, saved, crashed>>

-----------------------------------------------------------------------------
\* marginLink, between the two.

\* Whether a test spec is for a receiver, for a lane of it.
Valid(spec) == spec.aspect \in Aspects
ForLane(spec, n) == spec.rec = n[2] /\ Valid(spec) /\ (spec.lanes = {} \/ n[3] \in spec.lanes)

\* The receivers are set up (one whose lane 0 reports an independent error sampler has its
\* lanes run in parallel) and the test specs enlisted; specs for broadcasts, reserved or absent
\* receivers are ignored, and a receiver is ready if the last spec for it has an aspect.
Enlist(l) ==
  /\ At(l, "enlist")
  /\ \E independent \in SUBSET Present :
       parallel' = [r \in RxIds |-> IF r[1] = l THEN r[2] \in independent ELSE parallel[r]]
  /\ LET specs == setup.specs
         specsOf(r) == SelectSeq(specs, LAMBDA s : s.rec = r)
     IN  /\ ready' = [r \in RxIds |-> IF r[1] = l
                                      THEN specsOf(r[2]) # <<>> /\ Valid(Last(specsOf(r[2])))
                                      ELSE ready[r]]
         /\ specced' = [n \in LaneIds |->
                          IF n[1] = l THEN {s.aspect : s \in {s \in ToSet(specs) : ForLane(s, n)}}
                                      ELSE specced[n]]
  /\ Goto(l, "next")
  /\ UNCHANGED <<setup, mainVars, rec, ln, lwg, linkcheck, gathered, rxwg, diag, lane, pass,
                 mature, portVars, crashed>>

\* The next receiver to test, unless the link is no longer what it was.
NextReceiver(l) ==
  /\ At(l, "next")
  /\ LET todo == {r \in Present : r > rec[l] /\ ready[<<l, r>>]}
     IN  IF todo = {} \/ ~linkcheck[l]
         THEN Goto(l, "restore") /\ UNCHANGED <<rec, ln>>
         ELSE /\ rec' = [rec EXCEPT ![l] = CHOOSE r \in todo : \A s \in todo : r <= s]
              /\ ln' = [ln EXCEPT ![l] = 0]
              /\ Goto(l, "spawn")
  /\ UNCHANGED <<setup, mainVars, lwg, linkcheck, gathered, rxVars, laneVars, portVars, crashed>>

\* Mutant: lanes that must run in series are started at once.
MayStartAlways(l) == TRUE

\* In series, a lane is started when the one before has finished.
MayStart(l) == parallel[<<l, rec[l]>>] \/ lwg[l] = 0

SpawnLane(l) ==
  /\ At(l, "spawn") /\ ln[l] \in Lanes
  /\ LET rx == <<l, rec[l]>>
         n == <<l, rec[l], ln[l]>>
     IN  IF specced[n] = {}
         THEN UNCHANGED <<lwg, rxwg, lane>>
         ELSE /\ MayStart(l)
              /\ lwg' = [lwg EXCEPT ![l] = @ + 1]
              /\ rxwg' = [rxwg EXCEPT ![rx] = @ + 1]
              /\ lane' = [lane EXCEPT ![n] = "reading"]
  /\ ln' = [ln EXCEPT ![l] = @ + 1]
  /\ UNCHANGED <<setup, mainVars, lpc, rec, linkcheck, gathered, parallel, ready, diag, specced,
                 pass, mature, portVars, crashed>>

\* Mutant: the lanes are not waited for.
NotJoined(l) == ln[l] = Width

Joined(l) == ln[l] = Width /\ lwg[l] = 0

\* All the lanes have finished: their results are gathered, the link is checked, and the
\* receiver diagnosed from all of its lanes.
Diagnose(l) ==
  /\ At(l, "spawn") /\ Joined(l)
  /\ LET rx == <<l, rec[l]>>
     IN  /\ gathered' = gathered \cup {n \in LanesOf(rx) : specced[n] # {} /\ mature[n]}
         /\ linkcheck' \in {linkcheck, [linkcheck EXCEPT ![l] = FALSE]}
         /\ diag' = [diag EXCEPT ![rx] =
                       IF linkcheck'[l] /\ \A n \in LanesOf(rx) : pass[n] THEN "PASS" ELSE "FAIL"]
  /\ Goto(l, "next")
  /\ UNCHANGED <<setup, mainVars, rec, ln, lwg, parallel, ready, rxwg, laneVars, portVars, crashed>>

-----------------------------------------------------------------------------
\* MarginLane, on a lane n.

\* rxwg.Done releases those who wait for it, when it is the last.
RxDone(n, place) ==
  /\ rxwg' = [rxwg EXCEPT ![RxOf(n)] = @ - 1]
  /\ lane' = [m \in LaneIds |->
       IF m = n THEN place
       ELSE IF rxwg[RxOf(n)] = 1 /\ RxOf(m) = RxOf(n) /\ lane[m] = "waiting" THEN "woken"
       ELSE lane[m]]

ReadParameters(n) ==
  /\ lane[n] = "reading" /\ RxDone(n, "arrived")
  /\ UNCHANGED <<setup, mainVars, linkVars, parallel, ready, diag, specced, pass, mature,
                 portVars, crashed>>

\* Mutant: a lane whose parameters cannot be read leaves without rxwg.Done.
LeaveQuietly(n) == lane' = [lane EXCEPT ![n] = "returning"] /\ UNCHANGED rxwg

\* Mutant: rxwg.Done is called twice on the way out.
LeaveTwice(n) ==
  /\ rxwg' = [rxwg EXCEPT ![RxOf(n)] = @ - 2]
  /\ lane' = [lane EXCEPT ![n] = "returning"]

Leave(n) == RxDone(n, "returning")

ReadFails(n) ==
  /\ lane[n] = "reading" /\ Leave(n)
  /\ UNCHANGED <<setup, mainVars, linkVars, parallel, ready, diag, specced, pass, mature,
                 portVars, crashed>>

\* rxwg.Wait returns at once if no lane is reading; linkwg.Wait always does, as nothing is
\* ever added to linkwg.
WaitRx(n) ==
  /\ lane[n] = "arrived"
  /\ lane' = [lane EXCEPT ![n] = IF rxwg[RxOf(n)] = 0 THEN "margining" ELSE "waiting"]
  /\ UNCHANGED <<setup, mainVars, linkVars, rxVars, specced, pass, mature, portVars, crashed>>

\* Woken up, rxwg.Wait panics if the WaitGroup is in use again: "WaitGroup is reused before
\* previous Wait has returned".
Wake(n) ==
  /\ lane[n] = "woken"
  /\ IF rxwg[RxOf(n)] = 0
     THEN lane' = [lane EXCEPT ![n] = "margining"] /\ UNCHANGED crashed
     ELSE crashed' = TRUE /\ UNCHANGED lane
  /\ UNCHANGED <<setup, mainVars, linkVars, rxVars, specced, pass, mature, portVars>>

\* The aspects are tested, the voltage only if the lane supports it; the lane passes or not.
\* An aspect whose error limit cannot be set ends the lane before its time.
Margin(n) ==
  /\ lane[n] = "margining"
  /\ specced' \in {specced, [specced EXCEPT ![n] = @ \ {"voltage"}]}
  /\ \E ok, toTheEnd \in BOOLEAN :
       /\ specced'[n] = {} => ok /\ toTheEnd
       /\ pass' = [pass EXCEPT ![n] = ok]
       /\ mature' = [mature EXCEPT ![n] = toTheEnd]
  /\ lane' = [lane EXCEPT ![n] = "returning"]
  /\ UNCHANGED <<setup, mainVars, linkVars, rxVars, portVars, crashed>>

\* The deferred wg.Done.
LaneDone(n) ==
  /\ lane[n] = "returning"
  /\ lane' = [lane EXCEPT ![n] = "ended"]
  /\ lwg' = [lwg EXCEPT ![n[1]] = @ - 1]
  /\ UNCHANGED <<setup, mainVars, lpc, rec, ln, linkcheck, gathered, rxVars, specced, pass,
                 mature, portVars, crashed>>

-----------------------------------------------------------------------------
\* TallyResults of lmt_tally.go, of what the links' tests leave.

\* Mutant: only the lanes margined to their end pass.
PassingMature(lanes) == {n \in lanes : pass[n] /\ mature[n]}

Passing(lanes) == {n \in lanes : pass[n]}

\* The counts start at -1.
Tally ==
  LET tallied == {n \in LaneIds : ready[RxOf(n)]}
  IN  [tested |-> Cardinality(tallied) - 1, passed |-> Cardinality(Passing(tallied)) - 1,
       pass |-> \A n \in tallied : pass[n]]

-----------------------------------------------------------------------------
MarginLinks == SpawnLink \/ AllSpawned \/ (\E n \in LaneIds : TakeResult(n)) \/ RunEnd

MarginLink(l) ==
  \/ PrepLink(l) \/ Enlist(l) \/ NextReceiver(l) \/ SpawnLane(l) \/ Diagnose(l) \/ RestoreLink(l)

MarginLane(n) ==
  \/ ReadParameters(n) \/ ReadFails(n) \/ WaitRx(n) \/ Wake(n) \/ Margin(n) \/ LaneDone(n)

Next ==
  /\ ~crashed
  /\ \/ MarginLinks
     \/ \E l \in Links : MarginLink(l)
     \/ \E n \in LaneIds : MarginLane(n)

Spec == Init /\ [][Next]_vars

\* Some goroutine that can run does.
FairSpec == Spec /\ WF_vars(Next)

-----------------------------------------------------------------------------
\* Properties.

TypeOK ==
  /\ setup \in Setups
  /\ mpc \in {"spawn", "join", "done"} /\ next \in 1 .. NumLinks + 1 /\ wg \in 0 .. NumLinks
  /\ result \in {"NOT_APPLICABLE", "PASS", "FAIL"}
  /\ lpc \in [Links -> {"idle", "prep", "prep2", "prepUsp", "prepUsp2", "enlist", "next", "spawn",
                        "restore", "restore2", "restoreUsp", "restoreUsp2", "done"}]
  /\ rec \in [Links -> 0 .. 6] /\ ln \in [Links -> 0 .. Width] /\ lwg \in [Links -> 0 .. Width]
  /\ linkcheck \in [Links -> BOOLEAN]
  /\ gathered \subseteq LaneIds /\ taken \subseteq LaneIds
  /\ parallel \in [RxIds -> BOOLEAN] /\ ready \in [RxIds -> BOOLEAN]
  /\ rxwg \in [RxIds -> 0 .. Width] /\ diag \in [RxIds -> {"none", "PASS", "FAIL"}]
  /\ specced \in [LaneIds -> SUBSET Aspects]
  /\ lane \in [LaneIds -> {"idle", "reading", "arrived", "waiting", "woken", "margining",
                           "returning", "ended"}]
  /\ pass \in [LaneIds -> BOOLEAN] /\ mature \in [LaneIds -> BOOLEAN]
  /\ port \in [PortIds -> PortType] /\ saved \in [PortIds -> [hawd : BOOLEAN, hasd : BOOLEAN]]
  /\ crashed \in BOOLEAN

Active(n) == lane[n] \notin {"idle", "ended"}

\* Without an independent error sampler, one lane of a receiver is tested at a time
\* (lmt_link.go:100, 177-180).
SeriesExclusive ==
  \A rx \in RxIds : ~parallel[rx] =>
    \A n, m \in LanesOf(rx) : Active(n) /\ Active(m) => n = m

\* A link's receivers are tested in turn, and a receiver is diagnosed, and the link restored,
\* when its lanes are done (lmt_link.go:144, 189).
LanesInTurn ==
  \A n \in LaneIds : Active(n) =>
    At(n[1], "spawn") /\ rec[n[1]] = n[2] /\ diag[RxOf(n)] = "none"

\* Lanes are margined with ASPM and the autonomous speed and width changes off in both ports
\* (lmt_link.go:334-342).
QuietPorts ==
  \A n \in LaneIds : Active(n) =>
    \A p \in Ports : port[<<n[1], p>>] = [hawd |-> TRUE, hasd |-> TRUE, aspm |-> FALSE]

\* A tested link has its width autonomy back as it was found (lmt_link.go:365-367).
HawdRestored ==
  \A l \in Links : At(l, "done") => \A p \in Ports : port[<<l, p>>].hawd = setup.found[p].hawd

\* The run's result is the verdict of the lanes margined to their end: FAIL if one of them
\* failed, PASS only if there are some (lanemargintest.go:258-273).
ResultOfLanes ==
  mpc = "done" =>
    LET tested == {n \in LaneIds : mature[n] /\ specced[n] # {}}
    IN  result = IF \E n \in tested : ~pass[n] THEN "FAIL"
                 ELSE IF tested # {} THEN "PASS" ELSE "NOT_APPLICABLE"

\* The tally agrees with what was streamed: it fails if the run does, it passes if all ready
\* receivers were diagnosed as passed, only then if no link changed, and its counts differ by
\* the lanes that failed (lmt_tally.go:40-78, lmt_link.go:264-306, lanemargintest.go:258-273).
TallyAgrees ==
  mpc = "done" =>
    LET allPassed == \A rx \in RxIds : ready[rx] => diag[rx] = "PASS"
    IN  /\ result = "FAIL" => ~Tally.pass
        /\ allPassed => Tally.pass
        /\ Tally.pass /\ (\A l \in Links : linkcheck[l]) => allPassed
        /\ Tally.pass <=> Tally.tested = Tally.passed

\* Every run ends, unless a goroutine panics.
RunEnds == <>(mpc = "done" \/ crashed)

\* The speed autonomy is back as it was found, too (lmt_link.go:363-367).
HasdRestored ==
  \A l \in Links : At(l, "done") => \A p \in Ports : port[<<l, p>>].hasd = setup.found[p].hasd

\* No lane's parameters are read while another lane is margined (lmt_link.go:182,
\* lmt_lane.go:163, lanemargintest.go:397).
NoReadDuringMargin ==
  \A n, m \in LaneIds : ~ (lane[n] = "reading" /\ lane[m] = "margining")

\* A receiver is diagnosed as "lanes tested, all passed" when the lanes that a test spec asks
\* for were tested to their end (lmt_link.go:277).
DiagPassTested ==
  \A rx \in RxIds : diag[rx] = "PASS" => \A n \in LanesOf(rx) : specced[n] # {} => mature[n]
=============================================================================
