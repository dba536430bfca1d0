--------------------------- MODULE LinkTestProofs ---------------------------
(***************************************************************************)
(* Proofs about the parallel test of the links (LinkTest.tla), for every   *)
(* number of links, receivers and lanes and every setup: the lanes' turns, *)
(* the ports while they run and after, the verdicts of the run and of the  *)
(* tally.                                                                  *)
(***************************************************************************)
EXTENDS LinkTest, FiniteSetTheorems, TLAPS

-----------------------------------------------------------------------------
\* The inductive invariant, by parts.

Before == {"idle", "prep", "prep2", "prepUsp", "prepUsp2", "enlist"}
Running == {l \in Links : lpc[l] \notin {"idle", "done"}}
ActiveOf(l) == {n \in LaneIds : n[1] = l /\ Active(n)}
Readers(rx) == {n \in LaneIds : RxOf(n) = rx /\ lane[n] = "reading"}

\* The links not yet started are idle; results are taken when all have ended.
LinksInv ==
  /\ \A l \in Links : l >= next => lpc[l] = "idle"
  /\ taken # {} \/ mpc = "done" => mpc # "spawn" /\ Running = {}

\* The WaitGroups count what they are to wait for.
CountInv ==
  /\ wg = Cardinality(Running)
  /\ \A l \in Links : lwg[l] = Cardinality(ActiveOf(l))
  /\ \A rx \in RxIds : rxwg[rx] = Cardinality(Readers(rx))

\* The receivers are taken in rising order.
OrderInv ==
  /\ \A l \in Links : lpc[l] \in Before => rec[l] = 0
  /\ \A l \in Links : At(l, "spawn") => rec[l] \in Present
  /\ \A rx \in RxIds : diag[rx] # "none" => /\ rx[2] <= rec[rx[1]]
                                            /\ At(rx[1], "spawn") => rx[2] # rec[rx[1]]

\* Lanes are started once, in order, and run while their receiver is under test.
LaneInv ==
  /\ \A n \in LaneIds : Active(n) => At(n[1], "spawn") /\ rec[n[1]] = n[2]
  /\ \A n \in LaneIds : lane[n] # "idle" =>
       \/ At(n[1], "spawn") /\ rec[n[1]] = n[2] /\ n[3] < ln[n[1]]
       \/ diag[RxOf(n)] # "none"

\* What the link control bits are, and what was saved of them, as the preparation goes on.
LinkPorts(l) ==
  /\ lpc[l] \in {"idle", "prep"} => port[<<l, "dsp">>].hawd = setup.found["dsp"].hawd
  /\ lpc[l] \in {"idle", "prep", "prep2", "prepUsp"} =>
       port[<<l, "usp">>].hawd = setup.found["usp"].hawd
  /\ lpc[l] \notin {"idle", "prep"} => saved[<<l, "dsp">>].hawd = setup.found["dsp"].hawd
  /\ lpc[l] \notin {"idle", "prep", "prep2", "prepUsp"} =>
       saved[<<l, "usp">>].hawd = setup.found["usp"].hawd
  /\ lpc[l] \in {"prep2", "prepUsp", "prepUsp2", "enlist", "next", "spawn"} =>
       port[<<l, "dsp">>].hawd = TRUE /\ port[<<l, "dsp">>].aspm = FALSE
  /\ lpc[l] \in {"prepUsp", "prepUsp2", "enlist", "next", "spawn"} =>
       port[<<l, "dsp">>].hasd = TRUE
  /\ lpc[l] \in {"prepUsp2", "enlist", "next", "spawn"} =>
       port[<<l, "usp">>].hawd = TRUE /\ port[<<l, "usp">>].aspm = FALSE
  /\ lpc[l] \in {"enlist", "next", "spawn"} => port[<<l, "usp">>].hasd = TRUE
  /\ lpc[l] \in {"restore2", "restoreUsp", "restoreUsp2", "done"} =>
       port[<<l, "dsp">>].hawd = setup.found["dsp"].hawd
  /\ lpc[l] \in {"restoreUsp2", "done"} => port[<<l, "usp">>].hawd = setup.found["usp"].hawd

PortInv == \A l \in Links : LinkPorts(l)

\* A lane's verdict comes from its margining; it is gathered when its receiver is diagnosed.
Gathers(n) ==
  /\ mature[n] \/ ~pass[n] => lane[n] \in {"returning", "ended"}
  /\ n \in gathered <=> mature[n] /\ specced[n] # {} /\ diag[RxOf(n)] # "none"
  /\ ~pass[n] => specced[n] # {}

GatherInv ==
  /\ \A n \in LaneIds : Gathers(n)
  /\ taken \subseteq gathered
  /\ mpc = "done" => taken = gathered
  /\ result = IF \E n \in taken : ~pass[n] THEN "FAIL"
              ELSE IF taken # {} THEN "PASS" ELSE "NOT_APPLICABLE"

\* A receiver is diagnosed if it is ready and its turn has come, by all of its lanes.
Diagnoses(rx) ==
  /\ lpc[rx[1]] \in Before => ~ready[rx]
  /\ diag[rx] # "none" => ready[rx]
  /\ diag[rx] = "PASS" => \A n \in LanesOf(rx) : pass[n]
  /\ diag[rx] = "FAIL" => ~linkcheck[rx[1]] \/ \E n \in LanesOf(rx) : ~pass[n]
  /\ ready[rx] /\ diag[rx] = "none" => \/ At(rx[1], "next") /\ rec[rx[1]] < rx[2]
                                       \/ At(rx[1], "spawn") /\ rec[rx[1]] <= rx[2]
                                       \/ ~linkcheck[rx[1]]

DiagInv ==
  /\ \A l \in Links : At(l, "spawn") => ready[<<l, rec[l]>>]
  /\ \A rx \in RxIds : Diagnoses(rx)

LinkPlaces ==
  Before \cup {"next", "spawn", "restore", "restore2", "restoreUsp", "restoreUsp2", "done"}
LanePlaces ==
  {"idle", "reading", "arrived", "waiting", "woken", "margining", "returning", "ended"}

\* The types, with the counters in the integers; CountInv bounds them.
MainTypes ==
  /\ setup \in Setups /\ crashed \in BOOLEAN
  /\ mpc \in {"spawn", "join", "done"} /\ next \in 1 .. NumLinks + 1 /\ wg \in Int
  /\ result \in {"NOT_APPLICABLE", "PASS", "FAIL"} /\ taken \subseteq LaneIds

LinkTypes ==
  /\ lpc \in [Links -> LinkPlaces] /\ rec \in [Links -> 0 .. 6] /\ ln \in [Links -> 0 .. Width]
  /\ lwg \in [Links -> Int] /\ linkcheck \in [Links -> BOOLEAN] /\ gathered \subseteq LaneIds

RxTypes ==
  /\ parallel \in [RxIds -> BOOLEAN] /\ ready \in [RxIds -> BOOLEAN]
  /\ rxwg \in [RxIds -> Int] /\ diag \in [RxIds -> {"none", "PASS", "FAIL"}]

LaneTypes ==
  /\ specced \in [LaneIds -> SUBSET Aspects] /\ lane \in [LaneIds -> LanePlaces]
  /\ pass \in [LaneIds -> BOOLEAN] /\ mature \in [LaneIds -> BOOLEAN]

PortTypes ==
  port \in [PortIds -> PortType] /\ saved \in [PortIds -> [hawd : BOOLEAN, hasd : BOOLEAN]]

TypeInv == MainTypes /\ LinkTypes /\ RxTypes /\ LaneTypes /\ PortTypes

-----------------------------------------------------------------------------
\* Receivers and lanes.

LEMMA RxFacts ==
  ASSUME NEW rx \in RxIds
  PROVE  /\ rx[1] \in Links /\ rx[2] \in Present /\ rx = <<rx[1], rx[2]>>
         /\ rx[2] \in Nat /\ rx[2] >= 1
  <1>1. rx[1] \in Links /\ rx[2] \in Present /\ rx = <<rx[1], rx[2]>>
    BY SMT DEF RxIds
  <1>2. rx[2] \in Nat /\ rx[2] >= 1
    BY <1>1, ConstantsAssumption, SMT DEF Receivers
  <1> QED BY <1>1, <1>2, Zenon

LEMMA LaneFacts ==
  ASSUME NEW n \in LaneIds
  PROVE  /\ n[1] \in Links /\ n[2] \in Present /\ n[3] \in Lanes /\ n = <<n[1], n[2], n[3]>>
         /\ RxOf(n) \in RxIds /\ RxOf(n)[1] = n[1] /\ RxOf(n)[2] = n[2]
         /\ n[2] \in Nat /\ n[2] >= 1 /\ n[3] \in Int /\ 0 <= n[3] /\ n[3] < Width
  <1>1. n[1] \in Links /\ n[2] \in Present /\ n[3] \in Lanes /\ n = <<n[1], n[2], n[3]>>
    BY SMT DEF LaneIds
  <1>2. RxOf(n) \in RxIds /\ RxOf(n)[1] = n[1] /\ RxOf(n)[2] = n[2]
    BY <1>1, SMT DEF RxOf, RxIds
  <1>3. n[3] \in Int /\ 0 <= n[3] /\ n[3] < Width
    BY <1>1, ConstantsAssumption, SMT DEF Lanes
  <1> QED BY <1>1, <1>2, <1>3, RxFacts, Zenon

LEMMA LanesOfFacts ==
  ASSUME NEW rx \in RxIds
  PROVE  LanesOf(rx) = {n \in LaneIds : RxOf(n) = rx}
  <1>1. ASSUME NEW n \in LanesOf(rx) PROVE n \in LaneIds /\ RxOf(n) = rx
    BY <1>1, RxFacts, SMT DEF LanesOf, LaneIds, RxOf
  <1>2. ASSUME NEW n \in LaneIds, RxOf(n) = rx PROVE n \in LanesOf(rx)
    <2>1. n = <<rx[1], rx[2], n[3]>> /\ n[3] \in Lanes
      BY <1>2, LaneFacts, SMT DEF RxOf
    <2> QED BY <2>1, SMT DEF LanesOf
  <1> QED BY <1>1, <1>2, Zenon

LEMMA LinksFinite == IsFiniteSet(Links) /\ Cardinality(Links) = NumLinks
  BY FS_Interval, ConstantsAssumption, SMT DEF Links

LEMMA LanesFinite ==
  ASSUME NEW rx \in RxIds
  PROVE  IsFiniteSet(LanesOf(rx)) /\ Cardinality(LanesOf(rx)) <= Width
  <1> DEFINE f == [i \in Lanes |-> <<rx[1], rx[2], i>>]
  <1>1. IsFiniteSet(Lanes) /\ Cardinality(Lanes) = Width
    BY FS_Interval, ConstantsAssumption, SMT DEF Lanes
  <1>2. f \in [Lanes -> LanesOf(rx)]
    BY RxFacts, SMT DEF LanesOf
  <1>3. \A n \in LanesOf(rx) : \E i \in Lanes : f[i] = n
    BY SMT DEF LanesOf
  <1>4. f \in Surjection(Lanes, LanesOf(rx))
    BY <1>2, <1>3, Zenon DEF Surjection
  <1> QED BY <1>1, <1>4, FS_Surjection, Zenon

LEMMA LaneIdsFinite == IsFiniteSet(LaneIds)
  <1> DEFINE f == [q \in RxIds \X Lanes |-> <<q[1][1], q[1][2], q[2]>>]
  <1>1. IsFiniteSet(Lanes) /\ IsFiniteSet(Links) /\ IsFiniteSet(Receivers)
    <2>1. Width - 1 \in Int /\ 0 \in Int /\ 1 \in Int /\ 6 \in Int
      BY ConstantsAssumption, SMT
    <2> QED BY <2>1, FS_Interval, LinksFinite, Zenon DEF Lanes, Receivers
  <1>2. IsFiniteSet(Present)
    BY <1>1, FS_Subset, ConstantsAssumption, Zenon
  <1>3. IsFiniteSet(RxIds \X Lanes)
    BY <1>1, <1>2, FS_Product, Zenon DEF RxIds
  <1>4. f \in [RxIds \X Lanes -> LaneIds]
    BY SMT DEF LaneIds, RxIds
  <1>5. \A n \in LaneIds : \E q \in RxIds \X Lanes : f[q] = n
    <2> SUFFICES ASSUME NEW n \in LaneIds PROVE \E q \in RxIds \X Lanes : f[q] = n
      OBVIOUS
    <2> DEFINE q == <<<<n[1], n[2]>>, n[3]>>
    <2>1. q \in RxIds \X Lanes /\ f[q] = n
      BY LaneFacts, SMT DEF RxIds
    <2> QED BY <2>1, Zenon
  <1>6. f \in Surjection(RxIds \X Lanes, LaneIds)
    BY <1>4, <1>5, Zenon DEF Surjection
  <1> QED BY <1>3, <1>6, FS_Surjection, Zenon

\* The receivers to do have a first one.
LEMMA LeastReceiver ==
  ASSUME NEW S \in SUBSET Present, S # {}
  PROVE  \E r \in S : \A s \in S : r <= s
  <1> DEFINE From(i) == \A s \in S : s >= i
             Goal == \E r \in S : \A s \in S : r <= s
  <1>1. \A s \in S : s \in Int /\ 1 <= s /\ s <= 6
    BY ConstantsAssumption, SMT DEF Receivers
  <1>2. ASSUME NEW i \in Int, From(i) PROVE From(i + 1) \/ Goal
    <2>1. CASE i \in S
      BY <1>2, <2>1, Zenon
    <2>2. CASE i \notin S
      BY <1>1, <1>2, <2>2, SMT
    <2> QED BY <2>1, <2>2, Zenon
  <1>3. From(1) /\ ~From(7)
    BY <1>1, SMT
  <1> HIDE DEF From, Goal
  <1>4. /\ From(1) => From(2) \/ Goal
        /\ From(2) => From(3) \/ Goal
        /\ From(3) => From(4) \/ Goal
        /\ From(4) => From(5) \/ Goal
        /\ From(5) => From(6) \/ Goal
        /\ From(6) => From(7) \/ Goal
    BY <1>2, SMT
  <1> QED BY <1>3, <1>4, Zenon DEF Goal

-----------------------------------------------------------------------------
\* Types.

LEMMA TypeInit == Init => TypeInv
  <1> SUFFICES ASSUME Init PROVE TypeInv
    OBVIOUS
  <1>1. /\ setup \in Setups
        /\ mpc = "spawn" /\ next = 1 /\ wg = 0 /\ result = "NOT_APPLICABLE" /\ taken = {}
        /\ lpc = [l \in Links |-> "idle"] /\ rec = [l \in Links |-> 0]
        /\ ln = [l \in Links |-> 0] /\ lwg = [l \in Links |-> 0]
        /\ linkcheck = [l \in Links |-> TRUE] /\ gathered = {}
        /\ parallel = [r \in RxIds |-> FALSE] /\ ready = [r \in RxIds |-> FALSE]
        /\ rxwg = [r \in RxIds |-> 0] /\ diag = [r \in RxIds |-> "none"]
        /\ specced = [n \in LaneIds |-> {}] /\ lane = [n \in LaneIds |-> "idle"]
        /\ pass = [n \in LaneIds |-> TRUE] /\ mature = [n \in LaneIds |-> FALSE]
        /\ port = [p \in PortIds |-> setup.found[p[2]]]
        /\ saved = [p \in PortIds |-> [hawd |-> FALSE, hasd |-> FALSE]]
        /\ crashed = FALSE
    BY Zenon DEF Init
  <1>2. setup.found \in [Ports -> PortType]
    BY <1>1, ConstantsAssumption, SMT
  <1>3. port \in [PortIds -> PortType]
    BY <1>1, <1>2, SMT DEF PortIds
  <1>4. saved \in [PortIds -> [hawd : BOOLEAN, hasd : BOOLEAN]]
    BY <1>1, SMT
  <1>5. /\ next \in 1 .. NumLinks + 1 /\ wg \in Int
        /\ rec \in [Links -> 0 .. 6] /\ ln \in [Links -> 0 .. Width] /\ lwg \in [Links -> Int]
        /\ rxwg \in [RxIds -> Int]
    BY <1>1, ConstantsAssumption, SMT
  <1>6. /\ linkcheck \in [Links -> BOOLEAN]
        /\ parallel \in [RxIds -> BOOLEAN] /\ ready \in [RxIds -> BOOLEAN]
        /\ pass \in [LaneIds -> BOOLEAN] /\ mature \in [LaneIds -> BOOLEAN]
        /\ crashed \in BOOLEAN
    BY <1>1, Zenon
  <1>7. /\ lpc \in [Links -> LinkPlaces] /\ lane \in [LaneIds -> LanePlaces]
        /\ diag \in [RxIds -> {"none", "PASS", "FAIL"}] /\ specced \in [LaneIds -> SUBSET Aspects]
        /\ taken \subseteq LaneIds /\ gathered \subseteq LaneIds
        /\ mpc \in {"spawn", "join", "done"} /\ result \in {"NOT_APPLICABLE", "PASS", "FAIL"}
    BY <1>1, SMT DEF LinkPlaces, LanePlaces, Before
  <1> QED
    BY <1>1, <1>3, <1>4, <1>5, <1>6, <1>7, Zenon
    DEF TypeInv, MainTypes, LinkTypes, RxTypes, LaneTypes, PortTypes

\* What the preparation and the restoration do to one port.
LEMMA PortStep ==
  ASSUME TypeInv, NEW l \in Links, NEW p \in Ports,
         \/ PrepCtl(l, p) \/ PrepCtl2(l, p)
         \/ (RestoreCtl(l, p) \/ RestoreCtl2(l, p)) /\ saved' = saved
  PROVE  PortTypes'
  <1> DEFINE q == <<l, p>>
             SavedType == [hawd : BOOLEAN, hasd : BOOLEAN]
  <1>1. /\ port \in [PortIds -> PortType] /\ saved \in [PortIds -> SavedType] /\ q \in PortIds
    BY SMT DEF TypeInv, PortTypes, PortIds
  <1>2. /\ port[q] \in PortType /\ saved[q] \in SavedType /\ port[q].hawd \in BOOLEAN
        /\ port[q].hasd \in BOOLEAN /\ saved[q].hawd \in BOOLEAN
    BY <1>1, SMT DEF PortType
  <1> HIDE DEF q
  <1>3. ASSUME NEW bits \in PortType, port' = [port EXCEPT ![q] = bits]
        PROVE  port' \in [PortIds -> PortType]
    BY <1>1, <1>3, SMT
  <1>4. ASSUME NEW bits \in SavedType, saved' = [saved EXCEPT ![q] = bits]
        PROVE  saved' \in [PortIds -> SavedType]
    BY <1>1, <1>4, SMT
  <1>5. ASSUME NEW b \in BOOLEAN
        PROVE  /\ [port[q] EXCEPT !.hawd = b, !.aspm = FALSE] \in PortType
               /\ [port[q] EXCEPT !.hawd = b] \in PortType
               /\ [port[q] EXCEPT !.hasd = b] \in PortType
               /\ [saved[q] EXCEPT !.hawd = b] \in SavedType
               /\ [saved[q] EXCEPT !.hasd = b] \in SavedType
    BY <1>2, <1>5, Zenon DEF PortType
  <1>6. CASE PrepCtl(l, p)
    BY <1>2, <1>3, <1>4, <1>5, <1>6, Zenon DEF PrepCtl, q, PortTypes
  <1>7. CASE PrepCtl2(l, p)
    BY <1>2, <1>3, <1>4, <1>5, <1>7, Zenon DEF PrepCtl2, q, PortTypes
  <1>8. CASE RestoreCtl(l, p) /\ saved' = saved
    BY <1>1, <1>2, <1>3, <1>5, <1>8, Zenon DEF RestoreCtl, q, PortTypes
  <1>9. CASE RestoreCtl2(l, p) /\ saved' = saved
    BY <1>1, <1>2, <1>3, <1>5, <1>9, Zenon DEF RestoreCtl2, q, PortTypes
  <1> QED BY <1>6, <1>7, <1>8, <1>9, Zenon DEF PortTypes

LEMMA KeptTypes ==
  ASSUME TypeInv
  PROVE  /\ UNCHANGED <<setup, mainVars, crashed>> => MainTypes'
         /\ UNCHANGED linkVars => LinkTypes'
         /\ UNCHANGED rxVars => RxTypes'
         /\ UNCHANGED laneVars => LaneTypes'
         /\ UNCHANGED portVars => PortTypes'
  <1> USE DEF TypeInv
  <1>1. UNCHANGED <<setup, mainVars, crashed>> => MainTypes'
    BY SMT DEF MainTypes, mainVars
  <1>2. UNCHANGED linkVars => LinkTypes'
    BY SMT DEF LinkTypes, linkVars
  <1>3. UNCHANGED rxVars => RxTypes'
    BY SMT DEF RxTypes, rxVars
  <1>4. UNCHANGED laneVars => LaneTypes'
    BY SMT DEF LaneTypes, laneVars
  <1>5. UNCHANGED portVars => PortTypes'
    BY SMT DEF PortTypes, portVars
  <1> QED BY <1>1, <1>2, <1>3, <1>4, <1>5, Zenon

\* A link moves on, to one of its places, and nothing else of the links changes.
LEMMA GotoTypes ==
  ASSUME TypeInv, NEW l \in Links, NEW place \in LinkPlaces, lpc' = [lpc EXCEPT ![l] = place]
  PROVE  /\ lpc' \in [Links -> LinkPlaces]
         /\ UNCHANGED <<rec, ln, lwg, linkcheck, gathered>> => LinkTypes'
  <1>1. lpc' \in [Links -> LinkPlaces]
    BY SMT DEF TypeInv, LinkTypes
  <1>2. UNCHANGED <<rec, ln, lwg, linkcheck, gathered>> => LinkTypes'
    BY <1>1, SMT DEF TypeInv, LinkTypes
  <1> QED BY <1>1, <1>2, Zenon

LEMMA LinkPlacesAre ==
  {"idle", "prep", "prep2", "prepUsp", "prepUsp2", "enlist", "next", "spawn", "restore",
   "restore2", "restoreUsp", "restoreUsp2", "done"} = LinkPlaces
  BY SMT DEF LinkPlaces, Before

\* MarginLinks.
LEMMA TypeStepMain == TypeInv /\ MarginLinks => TypeInv'
  <1> SUFFICES ASSUME TypeInv, MarginLinks PROVE TypeInv'
    OBVIOUS
  <1>1. CASE SpawnLink
    <2>1. /\ UNCHANGED <<setup, mpc, result, taken, crashed>>
          /\ next' = next + 1 /\ next \in Links /\ wg' \in {wg, wg + 1}
      BY <1>1, Zenon DEF SpawnLink
    <2>2. MainTypes'
      <3>1. wg' \in Int /\ next' \in 1 .. NumLinks + 1
        BY <2>1, ConstantsAssumption, SMT DEF TypeInv, MainTypes, Links
      <3> QED BY <2>1, <3>1, SMT DEF TypeInv, MainTypes
    <2>3. LinkTypes'
      <3>1. /\ UNCHANGED <<rec, ln, lwg, linkcheck, gathered>>
            /\ lpc' = lpc \/ lpc' = [lpc EXCEPT ![next] = "prep"]
        BY <1>1, Zenon DEF SpawnLink
      <3>2. CASE lpc' = lpc
        BY <3>1, <3>2, KeptTypes, Zenon DEF linkVars
      <3>3. CASE lpc' = [lpc EXCEPT ![next] = "prep"]
        BY <2>1, <3>1, <3>3, GotoTypes, LinkPlacesAre, Zenon
      <3> QED BY <3>1, <3>2, <3>3, Zenon
    <2> QED BY <1>1, <2>2, <2>3, KeptTypes, Zenon DEF SpawnLink, TypeInv
  <1>2. CASE AllSpawned \/ RunEnd
    <2>1. MainTypes'
      <3>1. UNCHANGED <<setup, next, wg, result, taken, crashed>> /\ mpc' \in {"join", "done"}
        BY <1>2, Zenon DEF AllSpawned, RunEnd
      <3> QED BY <3>1, SMT DEF TypeInv, MainTypes
    <2> QED BY <1>2, <2>1, KeptTypes, Zenon DEF AllSpawned, RunEnd, TypeInv
  <1>3. ASSUME NEW n \in LaneIds, TakeResult(n) PROVE TypeInv'
    <2>1. MainTypes'
      <3>1. /\ UNCHANGED <<setup, mpc, next, wg, crashed>> /\ taken' = taken \cup {n}
            /\ result' \in {"PASS", "FAIL"}
        BY <1>3, Zenon DEF TakeResult, ResultWith
      <3> QED BY <3>1, SMT DEF TypeInv, MainTypes
    <2> QED BY <1>3, <2>1, KeptTypes, Zenon DEF TakeResult, TypeInv
  <1> QED BY <1>1, <1>2, <1>3, Zenon DEF MarginLinks

\* marginLink.
LEMMA TypeStepLink ==
  ASSUME NEW l \in Links
  PROVE  TypeInv /\ OrderInv /\ MarginLink(l) => TypeInv'
  <1> SUFFICES ASSUME TypeInv, OrderInv, MarginLink(l) PROVE TypeInv'
    OBVIOUS
  <1>0. lpc[l] \in LinkPlaces /\ rec[l] \in 0 .. 6 /\ ln[l] \in 0 .. Width /\ lwg[l] \in Int
    BY SMT DEF TypeInv, LinkTypes
  <1>1. CASE PrepLink(l)
    <2>1. LinkTypes'
      <3>1. /\ UNCHANGED <<rec, ln, lwg, linkcheck, gathered>>
            /\ \E place \in LinkPlaces : lpc' = [lpc EXCEPT ![l] = place]
        BY <1>1, LinkPlacesAre, Zenon DEF PrepLink, Goto
      <3> QED BY <3>1, GotoTypes, Zenon
    <2>2. PortTypes'
      <3>1. \E p \in Ports : PrepCtl(l, p) \/ PrepCtl2(l, p)
        BY <1>1, Zenon DEF PrepLink, Ports
      <3> QED BY <3>1, PortStep, Zenon
    <2> QED BY <1>1, <2>1, <2>2, KeptTypes, Zenon DEF PrepLink, TypeInv
  <1>2. CASE RestoreLink(l)
    <2>1. LinkTypes'
      <3>1. /\ UNCHANGED <<rec, ln, lwg, linkcheck, gathered>>
            /\ \E place \in LinkPlaces : lpc' = [lpc EXCEPT ![l] = place]
        BY <1>2, LinkPlacesAre, Zenon DEF RestoreLink, Goto
      <3> QED BY <3>1, GotoTypes, Zenon
    <2>2. PortTypes'
      BY <1>2, PortStep, Zenon DEF RestoreLink, Ports
    <2>3. MainTypes'
      <3>1. UNCHANGED <<setup, mpc, next, result, taken, crashed>> /\ wg' \in {wg, wg - 1}
        BY <1>2, Zenon DEF RestoreLink
      <3> QED BY <3>1, SMT DEF TypeInv, MainTypes
    <2> QED BY <1>2, <2>1, <2>2, <2>3, KeptTypes, Zenon DEF RestoreLink, TypeInv
  <1>3. CASE Enlist(l)
    <2>1. LinkTypes'
      BY <1>3, GotoTypes, LinkPlacesAre, Zenon DEF Enlist, Goto
    <2>2. RxTypes'
      <3>1. UNCHANGED <<rxwg, diag>>
        BY <1>3, Zenon DEF Enlist
      <3>2. parallel' \in [RxIds -> BOOLEAN]
        <4>1. PICK independent \in SUBSET Present :
                parallel' = [r \in RxIds |-> IF r[1] = l THEN r[2] \in independent ELSE parallel[r]]
          BY <1>3, Zenon DEF Enlist
        <4>2. \A r \in RxIds : (IF r[1] = l THEN r[2] \in independent ELSE parallel[r]) \in BOOLEAN
          <5>1. \A r \in RxIds : parallel[r] \in BOOLEAN
            BY Zenon DEF TypeInv, RxTypes
          <5>2. \A r \in RxIds : (r[2] \in independent) \in BOOLEAN
            BY SMT
          <5> QED BY <5>1, <5>2, Zenon
        <4> QED BY <4>1, <4>2, Zenon
      <3>3. ready' \in [RxIds -> BOOLEAN]
        <4> DEFINE specsOf(r) == SelectSeq(setup.specs, LAMBDA s : s.rec = r)
                   is(r) == specsOf(r) # <<>> /\ Valid(Last(specsOf(r)))
        <4>1. ready' = [r \in RxIds |-> IF r[1] = l THEN is(r[2]) ELSE ready[r]]
          BY <1>3, Zenon DEF Enlist
        <4>2. \A r : is(r) \in BOOLEAN
          BY Zenon DEF Valid
        <4> HIDE DEF is
        <4>3. \A r \in RxIds : (IF r[1] = l THEN is(r[2]) ELSE ready[r]) \in BOOLEAN
          BY <4>2, SMT DEF TypeInv, RxTypes
        <4> QED BY <4>1, <4>3, Zenon
      <3> QED BY <3>1, <3>2, <3>3, SMT DEF TypeInv, RxTypes
    <2>3. LaneTypes'
      <3>1. UNCHANGED <<lane, pass, mature>>
        BY <1>3, Zenon DEF Enlist
      <3>2. specced' \in [LaneIds -> SUBSET Aspects]
        <4> DEFINE asked(n) == {s.aspect : s \in {s \in ToSet(setup.specs) : ForLane(s, n)}}
        <4>1. specced' = [n \in LaneIds |-> IF n[1] = l THEN asked(n) ELSE specced[n]]
          BY <1>3, Zenon DEF Enlist
        <4>2. \A n : asked(n) \in SUBSET Aspects
          BY Zenon DEF ForLane, Valid
        <4> HIDE DEF asked
        <4>3. \A n \in LaneIds :
                (IF n[1] = l THEN asked(n) ELSE specced[n]) \in SUBSET Aspects
          BY <4>2, SMT DEF TypeInv, LaneTypes
        <4> QED BY <4>1, <4>3, Zenon
      <3> QED BY <3>1, <3>2, SMT DEF TypeInv, LaneTypes
    <2> QED BY <1>3, <2>1, <2>2, <2>3, KeptTypes, Zenon DEF Enlist, TypeInv
  <1>4. CASE NextReceiver(l)
    <2>1. LinkTypes'
      <3> DEFINE todo == {r \in Present : r > rec[l] /\ ready[<<l, r>>]}
                 first == CHOOSE r \in todo : \A s \in todo : r <= s
      <3>1. UNCHANGED <<lwg, linkcheck, gathered>>
        BY <1>4, Zenon DEF NextReceiver
      <3>2. \/ lpc' = [lpc EXCEPT ![l] = "restore"] /\ UNCHANGED <<rec, ln>>
            \/ /\ todo # {} /\ rec' = [rec EXCEPT ![l] = first] /\ ln' = [ln EXCEPT ![l] = 0]
               /\ lpc' = [lpc EXCEPT ![l] = "spawn"]
        BY <1>4, Zenon DEF NextReceiver, Goto
      <3>3. todo # {} => first \in Present
        BY LeastReceiver, Zenon
      <3> HIDE DEF todo, first
      <3>4. todo # {} => first \in 0 .. 6
        <4>1. Present \subseteq Receivers
          BY ConstantsAssumption, Zenon
        <4>2. first \in Present => first \in 0 .. 6
          BY <4>1, SMT DEF Receivers
        <4> QED BY <3>3, <4>2, Zenon
      <3>5. lpc' \in [Links -> LinkPlaces]
        BY <3>2, GotoTypes, LinkPlacesAre, Zenon
      <3>6. rec' \in [Links -> 0 .. 6] /\ ln' \in [Links -> 0 .. Width]
        <4>1. rec \in [Links -> 0 .. 6] /\ ln \in [Links -> 0 .. Width] /\ 0 \in 0 .. Width
          BY ConstantsAssumption, SMT DEF TypeInv, LinkTypes
        <4>2. CASE UNCHANGED <<rec, ln>>
          BY <4>1, <4>2, SMT
        <4>3. CASE todo # {} /\ rec' = [rec EXCEPT ![l] = first] /\ ln' = [ln EXCEPT ![l] = 0]
          BY <3>4, <4>1, <4>3, SMT
        <4> QED BY <3>2, <4>2, <4>3, Zenon
      <3> QED BY <3>1, <3>5, <3>6, SMT DEF TypeInv, LinkTypes
    <2> QED BY <1>4, <2>1, KeptTypes, Zenon DEF NextReceiver, TypeInv
  <1>5. CASE SpawnLane(l)
    <2> DEFINE rx == <<l, rec[l]>>
               n == <<l, rec[l], ln[l]>>
    <2>1. /\ UNCHANGED <<lpc, rec, linkcheck, gathered, parallel, ready, diag, specced, pass, mature>>
          /\ ln[l] \in Lanes /\ ln' = [ln EXCEPT ![l] = ln[l] + 1]
          /\ \/ UNCHANGED <<lwg, rxwg, lane>>
             \/ /\ lwg' = [lwg EXCEPT ![l] = lwg[l] + 1]
                /\ rxwg' = [rxwg EXCEPT ![rx] = rxwg[rx] + 1]
                /\ lane' = [lane EXCEPT ![n] = "reading"]
      BY <1>5, Zenon DEF SpawnLane
    <2> HIDE DEF rx, n
    <2>2. ln' \in [Links -> 0 .. Width] /\ lwg' \in [Links -> Int]
      BY <1>0, <2>1, ConstantsAssumption, SMT DEF TypeInv, LinkTypes, Lanes
    <2>3. LinkTypes'
      BY <2>1, <2>2, SMT DEF TypeInv, LinkTypes
    <2>4. RxTypes'
      <3>1. rxwg' \in [RxIds -> Int]
        BY <2>1, SMT DEF TypeInv, RxTypes
      <3> QED BY <2>1, <3>1, SMT DEF TypeInv, RxTypes
    <2>5. LaneTypes'
      <3>1. lane' \in [LaneIds -> LanePlaces]
        BY <2>1, SMT DEF TypeInv, LaneTypes, LanePlaces
      <3> QED BY <2>1, <3>1, SMT DEF TypeInv, LaneTypes
    <2> QED BY <1>5, <2>3, <2>4, <2>5, KeptTypes, Zenon DEF SpawnLane, TypeInv
  <1>6. CASE Diagnose(l)
    <2> DEFINE rx == <<l, rec[l]>>
    <2>0. rx \in RxIds
      BY <1>6, SMT DEF Diagnose, RxIds, OrderInv
    <2>1. /\ UNCHANGED <<rec, ln, lwg, parallel, ready, rxwg>>
          /\ gathered' = gathered \cup {n \in LanesOf(rx) : specced[n] # {} /\ mature[n]}
          /\ linkcheck' \in {linkcheck, [linkcheck EXCEPT ![l] = FALSE]}
          /\ lpc' = [lpc EXCEPT ![l] = "next"]
          /\ \E verdict \in {"PASS", "FAIL"} : diag' = [diag EXCEPT ![rx] = verdict]
      BY <1>6, Zenon DEF Diagnose, Goto
    <2>2. LinkTypes'
      <3>1. lpc' \in [Links -> LinkPlaces]
        BY <2>1, GotoTypes, LinkPlacesAre, Zenon
      <3>3. gathered' \subseteq LaneIds
        BY <2>0, <2>1, LanesOfFacts, Zenon DEF TypeInv, LinkTypes
      <3>4. linkcheck' \in [Links -> BOOLEAN]
        BY <2>1, Zenon DEF TypeInv, LinkTypes
      <3> QED BY <2>1, <3>1, <3>3, <3>4, SMT DEF TypeInv, LinkTypes
    <2>3. RxTypes'
      <3> HIDE DEF rx
      <3>1. diag' \in [RxIds -> {"none", "PASS", "FAIL"}]
        <4>1. PICK verdict \in {"PASS", "FAIL"} : diag' = [diag EXCEPT ![rx] = verdict]
          BY <2>1, Zenon
        <4>2. diag \in [RxIds -> {"none", "PASS", "FAIL"}]
          BY Zenon DEF TypeInv, RxTypes
        <4> QED BY <2>0, <4>1, <4>2, SMT
      <3> QED BY <2>1, <3>1, SMT DEF TypeInv, RxTypes
    <2> QED BY <1>6, <2>2, <2>3, KeptTypes, Zenon DEF Diagnose, TypeInv
  <1> QED BY <1>1, <1>2, <1>3, <1>4, <1>5, <1>6, Zenon DEF MarginLink

\* A lane's own moves, and those of the lanes it releases.
LEMMA RxDoneIs ==
  ASSUME TypeInv, NEW n \in LaneIds, NEW place \in LanePlaces, RxDone(n, place)
  PROVE  /\ lane' \in [LaneIds -> LanePlaces] /\ lane'[n] = place
         /\ \A m \in LaneIds : m # n => \/ lane'[m] = lane[m]
                                        \/ lane[m] = "waiting" /\ lane'[m] = "woken"
         /\ rxwg' = [rxwg EXCEPT ![RxOf(n)] = rxwg[RxOf(n)] - 1] /\ rxwg' \in [RxIds -> Int]
  <1> DEFINE woken(m) == rxwg[RxOf(n)] = 1 /\ RxOf(m) = RxOf(n) /\ lane[m] = "waiting"
  <1>1. lane' = [m \in LaneIds |-> IF m = n THEN place ELSE IF woken(m) THEN "woken" ELSE lane[m]]
    BY Zenon DEF RxDone
  <1>2. \A m \in LaneIds : woken(m) => lane[m] = "waiting"
    OBVIOUS
  <1>3. \A m \in LaneIds : lane[m] \in LanePlaces
    BY Zenon DEF TypeInv, LaneTypes
  <1>4. "woken" \in LanePlaces
    BY Zenon DEF LanePlaces
  <1> HIDE DEF woken
  <1>5. lane' \in [LaneIds -> LanePlaces]
    <2>1. \A m \in LaneIds :
            (IF m = n THEN place ELSE IF woken(m) THEN "woken" ELSE lane[m]) \in LanePlaces
      BY <1>3, <1>4, Zenon
    <2> QED BY <1>1, <2>1, Zenon
  <1>6. lane'[n] = place
    BY <1>1, SMT
  <1>7. \A m \in LaneIds : m # n => lane'[m] = lane[m] \/ (lane[m] = "waiting" /\ lane'[m] = "woken")
    <2> SUFFICES ASSUME NEW m \in LaneIds, m # n
                 PROVE  lane'[m] = lane[m] \/ (lane[m] = "waiting" /\ lane'[m] = "woken")
      OBVIOUS
    <2>1. lane'[m] = IF m = n THEN place ELSE IF woken(m) THEN "woken" ELSE lane[m]
      BY <1>1, Zenon
    <2> QED BY <1>2, <2>1, Zenon
  <1>8. rxwg' = [rxwg EXCEPT ![RxOf(n)] = rxwg[RxOf(n)] - 1]
    BY Zenon DEF RxDone
  <1>9. rxwg' \in [RxIds -> Int]
    BY <1>8, LaneFacts, SMT DEF TypeInv, RxTypes
  <1> QED BY <1>5, <1>6, <1>7, <1>8, <1>9, Zenon

\* What a step of a lane's goroutine may do.
LaneMoves(n) ==
  /\ UNCHANGED <<setup, mainVars, lpc, rec, ln, linkcheck, gathered, parallel, ready, diag, portVars>>
  /\ lane' \in [LaneIds -> LanePlaces]
  /\ lane[n] \notin {"idle", "ended"} /\ lane'[n] \notin {"idle", "reading"}
  /\ \A m \in LaneIds : m # n => \/ lane'[m] = lane[m]
                                 \/ lane[m] = "waiting" /\ lane'[m] = "woken"
  /\ \/ lane'[n] # "ended" /\ lwg' = lwg
     \/ lane'[n] = "ended" /\ lwg' = [lwg EXCEPT ![n[1]] = lwg[n[1]] - 1]
  /\ \/ lane[n] # "reading" /\ rxwg' = rxwg
     \/ lane[n] = "reading" /\ rxwg' = [rxwg EXCEPT ![RxOf(n)] = rxwg[RxOf(n)] - 1]
  /\ \/ UNCHANGED <<specced, pass, mature>> /\ (lane[n] = "returning" => lane'[n] = "ended")
     \/ /\ lane[n] = "margining" /\ lane'[n] = "returning"
        /\ specced' \in {specced, [specced EXCEPT ![n] = specced[n] \ {"voltage"}]}
        /\ \E ok, toTheEnd \in BOOLEAN :
             /\ specced'[n] = {} => ok /\ toTheEnd
             /\ pass' = [pass EXCEPT ![n] = ok] /\ mature' = [mature EXCEPT ![n] = toTheEnd]

LEMMA LaneMovesIs ==
  ASSUME TypeInv, NEW n \in LaneIds, MarginLane(n)
  PROVE  LaneMoves(n)
  <1>0. lane \in [LaneIds -> LanePlaces]
    BY Zenon DEF TypeInv, LaneTypes
  \* A lane that moves by itself.
  <1>1. ASSUME NEW place \in LanePlaces, lane' = [lane EXCEPT ![n] = place]
        PROVE  /\ lane' \in [LaneIds -> LanePlaces] /\ lane'[n] = place
               /\ \A m \in LaneIds : m # n => lane'[m] = lane[m]
    BY <1>0, <1>1, SMT
  <1>2. {"idle", "reading", "arrived", "waiting", "woken", "margining", "returning", "ended"}
          = LanePlaces
    BY Zenon DEF LanePlaces
  <1>3. CASE ReadParameters(n) \/ ReadFails(n)
    <2>1. PICK place \in {"arrived", "returning"} : RxDone(n, place)
      BY <1>3, Zenon DEF ReadParameters, ReadFails, Leave
    <2>2. place \in LanePlaces /\ place \notin {"idle", "reading", "ended"}
      BY SMT DEF LanePlaces
    <2>3. lane[n] = "reading"
      BY <1>3, Zenon DEF ReadParameters, ReadFails
    <2>4. /\ UNCHANGED <<setup, mainVars, lpc, rec, ln, lwg, linkcheck, gathered, parallel, ready,
                         diag, portVars, specced, pass, mature>>
      BY <1>3, Zenon DEF ReadParameters, ReadFails, linkVars
    <2>5. lane[n] \notin {"idle", "ended", "returning"}
      BY <2>3, SMT
    <2> QED BY <2>1, <2>2, <2>3, <2>4, <2>5, RxDoneIs, Zenon DEF LaneMoves
  <1>4. CASE WaitRx(n)
    <2>1. /\ UNCHANGED <<setup, mainVars, lpc, rec, ln, lwg, linkcheck, gathered, parallel, ready,
                         rxwg, diag, portVars, specced, pass, mature>>
          /\ lane[n] = "arrived"
      BY <1>4, Zenon DEF WaitRx, linkVars, rxVars
    <2>2. PICK place \in {"margining", "waiting"} : lane' = [lane EXCEPT ![n] = place]
      BY <1>4, Zenon DEF WaitRx
    <2>3. place \in LanePlaces /\ place \notin {"idle", "reading", "ended"}
      BY SMT DEF LanePlaces
    <2>4. lane[n] \notin {"idle", "ended", "reading", "returning"}
      BY <2>1, SMT
    <2> QED BY <1>1, <2>1, <2>2, <2>3, <2>4, Zenon DEF LaneMoves
  <1>5. CASE Wake(n)
    <2>1. /\ UNCHANGED <<setup, mainVars, lpc, rec, ln, lwg, linkcheck, gathered, parallel, ready,
                         rxwg, diag, portVars, specced, pass, mature>>
          /\ lane[n] = "woken" /\ (lane' = lane \/ lane' = [lane EXCEPT ![n] = "margining"])
      BY <1>5, Zenon DEF Wake, linkVars, rxVars
    <2>2. /\ lane[n] \notin {"idle", "ended", "reading", "returning"}
          /\ "margining" \notin {"idle", "reading", "ended"}
      BY <2>1, SMT
    <2>3. CASE lane' = lane
      BY <1>0, <2>1, <2>2, <2>3, Zenon DEF LaneMoves
    <2>4. CASE lane' = [lane EXCEPT ![n] = "margining"]
      BY <1>1, <1>2, <2>1, <2>2, <2>4, Zenon DEF LaneMoves
    <2> QED BY <2>1, <2>3, <2>4, Zenon
  <1>6. CASE Margin(n)
    <2>1. /\ UNCHANGED <<setup, mainVars, lpc, rec, ln, lwg, linkcheck, gathered, parallel, ready,
                         rxwg, diag, portVars>>
          /\ lane[n] = "margining" /\ lane' = [lane EXCEPT ![n] = "returning"]
          /\ specced' \in {specced, [specced EXCEPT ![n] = specced[n] \ {"voltage"}]}
          /\ \E ok, toTheEnd \in BOOLEAN :
               /\ specced'[n] = {} => ok /\ toTheEnd
               /\ pass' = [pass EXCEPT ![n] = ok] /\ mature' = [mature EXCEPT ![n] = toTheEnd]
      BY <1>6, Zenon DEF Margin, linkVars, rxVars
    <2>2. lane[n] \notin {"idle", "ended", "reading"} /\ "returning" \notin {"idle", "reading", "ended"}
      BY <2>1, SMT
    <2> QED BY <1>1, <1>2, <2>1, <2>2, Zenon DEF LaneMoves
  <1>7. CASE LaneDone(n)
    <2>1. /\ UNCHANGED <<setup, mainVars, lpc, rec, ln, linkcheck, gathered, parallel, ready,
                         rxwg, diag, portVars, specced, pass, mature>>
          /\ lane[n] = "returning" /\ lane' = [lane EXCEPT ![n] = "ended"]
          /\ lwg' = [lwg EXCEPT ![n[1]] = lwg[n[1]] - 1]
      BY <1>7, Zenon DEF LaneDone, rxVars
    <2>2. lane[n] \notin {"idle", "ended", "reading"} /\ "ended" \notin {"idle", "reading"}
      BY <2>1, SMT
    <2> QED BY <1>1, <1>2, <2>1, <2>2, Zenon DEF LaneMoves
  <1> QED BY <1>3, <1>4, <1>5, <1>6, <1>7, Zenon DEF MarginLane

LEMMA TypeStepLane == ASSUME NEW n \in LaneIds PROVE TypeInv /\ MarginLane(n) => TypeInv'
  <1> SUFFICES ASSUME TypeInv, MarginLane(n) PROVE TypeInv'
    OBVIOUS
  <1>1. LaneMoves(n) /\ n[1] \in Links /\ RxOf(n) \in RxIds
    BY LaneMovesIs, LaneFacts, Zenon
  <1>2. MainTypes'
    <2>1. crashed' = crashed \/ crashed' = TRUE
      BY Zenon DEF MarginLane, ReadParameters, ReadFails, WaitRx, Wake, Margin, LaneDone
    <2>2. crashed' \in BOOLEAN
      BY <2>1, Zenon DEF TypeInv, MainTypes
    <2>3. UNCHANGED <<setup, mpc, next, wg, result, taken>>
      BY <1>1, Zenon DEF LaneMoves, mainVars
    <2> QED BY <2>2, <2>3, SMT DEF TypeInv, MainTypes
  <1>3. LinkTypes'
    <2>1. UNCHANGED <<lpc, rec, ln, linkcheck, gathered>>
          /\ (lwg' = lwg \/ lwg' = [lwg EXCEPT ![n[1]] = lwg[n[1]] - 1])
      BY <1>1, Zenon DEF LaneMoves
    <2>2. lwg' \in [Links -> Int]
      BY <1>1, <2>1, SMT DEF TypeInv, LinkTypes
    <2> QED BY <2>1, <2>2, SMT DEF TypeInv, LinkTypes
  <1>4. RxTypes'
    <2>1. UNCHANGED <<parallel, ready, diag>>
          /\ (rxwg' = rxwg \/ rxwg' = [rxwg EXCEPT ![RxOf(n)] = rxwg[RxOf(n)] - 1])
      BY <1>1, Zenon DEF LaneMoves
    <2>2. rxwg' \in [RxIds -> Int]
      BY <1>1, <2>1, SMT DEF TypeInv, RxTypes
    <2> QED BY <2>1, <2>2, SMT DEF TypeInv, RxTypes
  <1>5. LaneTypes'
    <2>1. lane' \in [LaneIds -> LanePlaces]
      BY <1>1, Zenon DEF LaneMoves
    <2>2. /\ \E b \in BOOLEAN : pass' = pass \/ pass' = [pass EXCEPT ![n] = b]
          /\ \E b \in BOOLEAN : mature' = mature \/ mature' = [mature EXCEPT ![n] = b]
          /\ specced' = specced \/ specced' = [specced EXCEPT ![n] = specced[n] \ {"voltage"}]
      BY <1>1, Zenon DEF LaneMoves
    <2>3. pass' \in [LaneIds -> BOOLEAN] /\ mature' \in [LaneIds -> BOOLEAN]
      BY <2>2, Zenon DEF TypeInv, LaneTypes
    <2>4. specced' \in [LaneIds -> SUBSET Aspects]
      <3>1. specced \in [LaneIds -> SUBSET Aspects] /\ specced[n] \ {"voltage"} \in SUBSET Aspects
        BY Zenon DEF TypeInv, LaneTypes
      <3> QED BY <2>2, <3>1, Zenon
    <2> QED BY <2>1, <2>3, <2>4, Zenon DEF LaneTypes
  <1>6. PortTypes'
    BY <1>1, KeptTypes, Zenon DEF LaneMoves
  <1> QED BY <1>2, <1>3, <1>4, <1>5, <1>6, Zenon DEF TypeInv

LEMMA TypeStep == TypeInv /\ OrderInv /\ [Next]_vars => TypeInv'
  <1> SUFFICES ASSUME TypeInv, OrderInv, [Next]_vars PROVE TypeInv'
    OBVIOUS
  <1>1. CASE UNCHANGED vars
    BY <1>1, KeptTypes, Zenon DEF vars, TypeInv
  <1> QED BY <1>1, TypeStepMain, TypeStepLink, TypeStepLane, Zenon DEF Next

-----------------------------------------------------------------------------
\* What the steps of a link's goroutine do, the ports aside.

Moves(l, from, to) ==
  /\ lpc[l] = from /\ lpc'[l] = to /\ \A m \in Links : m # l => lpc'[m] = lpc[m]

LEMMA MovesIs ==
  ASSUME TypeInv, NEW l \in Links, NEW from, NEW to, At(l, from), Goto(l, to)
  PROVE  Moves(l, from, to)
  <1>1. lpc \in [Links -> LinkPlaces] /\ lpc[l] = from /\ lpc' = [lpc EXCEPT ![l] = to]
    BY Zenon DEF TypeInv, LinkTypes, At, Goto
  <1> QED BY <1>1, SMT DEF Moves

Preparing == {"prep", "prep2", "prepUsp", "prepUsp2"}
Restoring == {"restore", "restore2", "restoreUsp", "restoreUsp2"}

LEMMA PrepIs ==
  ASSUME TypeInv, NEW l \in Links, PrepLink(l)
  PROVE  /\ \E from \in Preparing, to \in {"prep2", "prepUsp", "prepUsp2", "enlist"} : Moves(l, from, to)
         /\ UNCHANGED <<setup, mainVars, rec, ln, lwg, linkcheck, gathered, rxVars, laneVars>>
  BY MovesIs, Zenon DEF PrepLink, Preparing

LEMMA RestoreIs ==
  ASSUME TypeInv, NEW l \in Links, RestoreLink(l)
  PROVE  /\ \/ \E from \in Restoring, to \in {"restore2", "restoreUsp", "restoreUsp2"} :
                 Moves(l, from, to) /\ wg' = wg
            \/ Moves(l, "restoreUsp2", "done") /\ wg' = wg - 1
         /\ UNCHANGED <<setup, mpc, next, result, taken, rec, ln, lwg, linkcheck, gathered, rxVars,
                        laneVars>>
  BY MovesIs, Zenon DEF RestoreLink, Restoring

LEMMA NextIs ==
  ASSUME TypeInv, NEW l \in Links, NextReceiver(l)
  PROVE  /\ \/ /\ Moves(l, "next", "restore") /\ UNCHANGED <<rec, ln>>
               /\ ~linkcheck[l] \/ \A r \in Present : r > rec[l] => ~ready[<<l, r>>]
            \/ /\ Moves(l, "next", "spawn")
               /\ rec'[l] \in Present /\ rec'[l] > rec[l] /\ ready[<<l, rec'[l]>>] /\ ln'[l] = 0
               /\ \A r \in Present : r > rec[l] /\ ready[<<l, r>>] => rec'[l] <= r
               /\ \A m \in Links : m # l => rec'[m] = rec[m] /\ ln'[m] = ln[m]
         /\ UNCHANGED <<setup, mainVars, lwg, linkcheck, gathered, rxVars, laneVars, portVars>>
  <1> DEFINE todo == {r \in Present : r > rec[l] /\ ready[<<l, r>>]}
             first == CHOOSE r \in todo : \A s \in todo : r <= s
  <1>1. /\ UNCHANGED <<setup, mainVars, lwg, linkcheck, gathered, rxVars, laneVars, portVars>>
        /\ At(l, "next")
    BY Zenon DEF NextReceiver
  <1>2. \/ (todo = {} \/ ~linkcheck[l]) /\ Goto(l, "restore") /\ UNCHANGED <<rec, ln>>
        \/ /\ todo # {} /\ rec' = [rec EXCEPT ![l] = first] /\ ln' = [ln EXCEPT ![l] = 0]
           /\ Goto(l, "spawn")
    BY Zenon DEF NextReceiver
  <1>3. CASE (todo = {} \/ ~linkcheck[l]) /\ Goto(l, "restore") /\ UNCHANGED <<rec, ln>>
    <2>1. ~linkcheck[l] \/ \A r \in Present : r > rec[l] => ~ready[<<l, r>>]
      BY <1>3, Zenon
    <2> QED BY <1>1, <1>3, <2>1, MovesIs, Zenon
  <1>4. CASE /\ todo # {} /\ rec' = [rec EXCEPT ![l] = first] /\ ln' = [ln EXCEPT ![l] = 0]
             /\ Goto(l, "spawn")
    <2>1. first \in todo /\ \A s \in todo : first <= s
      BY <1>4, LeastReceiver, Zenon
    <2>2. /\ first \in Present /\ first > rec[l] /\ ready[<<l, first>>]
          /\ \A r \in Present : r > rec[l] /\ ready[<<l, r>>] => first <= r
      BY <2>1, Zenon
    <2> HIDE DEF first, todo
    <2>3. rec \in [Links -> 0 .. 6] /\ ln \in [Links -> 0 .. Width]
      BY Zenon DEF TypeInv, LinkTypes
    <2>4. /\ rec'[l] = first /\ ln'[l] = 0
          /\ \A m \in Links : m # l => rec'[m] = rec[m] /\ ln'[m] = ln[m]
      BY <1>4, <2>3, SMT
    <2> QED BY <1>1, <1>4, <2>2, <2>4, MovesIs, Zenon
  <1> QED BY <1>2, <1>3, <1>4, Zenon

LEMMA SpawnIs ==
  ASSUME TypeInv, OrderInv, LaneInv, NEW l \in Links, SpawnLane(l)
  PROVE  /\ UNCHANGED <<setup, mainVars, lpc, rec, linkcheck, gathered, parallel, ready, diag,
                        specced, pass, mature, portVars>>
         /\ At(l, "spawn") /\ ln[l] \in Lanes /\ rec[l] \in Present
         /\ ln'[l] = ln[l] + 1 /\ \A m \in Links : m # l => ln'[m] = ln[m]
         /\ \/ UNCHANGED <<lwg, rxwg, lane>>
            \/ \E n \in LaneIds :
                 /\ n[1] = l /\ n[2] = rec[l] /\ n[3] = ln[l] /\ RxOf(n) = <<l, rec[l]>>
                 /\ lane[n] = "idle" /\ specced[n] # {} /\ MayStart(l)
                 /\ lane' = [lane EXCEPT ![n] = "reading"]
                 /\ lwg' = [lwg EXCEPT ![l] = lwg[l] + 1]
                 /\ rxwg' = [rxwg EXCEPT ![RxOf(n)] = rxwg[RxOf(n)] + 1]
  <1> DEFINE rx == <<l, rec[l]>>
             n == <<l, rec[l], ln[l]>>
  <1>1. /\ UNCHANGED <<setup, mainVars, lpc, rec, linkcheck, gathered, parallel, ready, diag,
                       specced, pass, mature, portVars>>
        /\ At(l, "spawn") /\ ln[l] \in Lanes /\ ln' = [ln EXCEPT ![l] = ln[l] + 1]
        /\ \/ UNCHANGED <<lwg, rxwg, lane>>
           \/ /\ specced[n] # {} /\ MayStart(l)
              /\ lwg' = [lwg EXCEPT ![l] = lwg[l] + 1]
              /\ rxwg' = [rxwg EXCEPT ![rx] = rxwg[rx] + 1]
              /\ lane' = [lane EXCEPT ![n] = "reading"]
    BY Zenon DEF SpawnLane
  <1>2. rec[l] \in Present
    BY <1>1, Zenon DEF OrderInv
  <1>3. n \in LaneIds /\ rx \in RxIds /\ RxOf(n) = rx /\ n[1] = l /\ n[2] = rec[l] /\ n[3] = ln[l]
        /\ rx[1] = l /\ rx[2] = rec[l]
    <2>1. l \in Links /\ rec[l] \in Present /\ ln[l] \in Lanes
      BY <1>1, <1>2, Zenon
    <2> QED BY <2>1, SMT DEF RxIds, LaneIds, RxOf
  <1> HIDE DEF rx, n
  <1>4. diag[rx] = "none"
    BY <1>1, <1>3, Zenon DEF OrderInv
  <1>5. ~(n[3] < ln[l])
    BY <1>3, LaneFacts, SMT
  <1>6. lane[n] = "idle"
    BY <1>3, <1>4, <1>5, Zenon DEF LaneInv
  <1>7. ln'[l] = ln[l] + 1 /\ \A m \in Links : m # l => ln'[m] = ln[m]
    BY <1>1, SMT DEF TypeInv, LinkTypes
  <1> QED BY <1>1, <1>2, <1>3, <1>6, <1>7, Zenon DEF rx

LEMMA DiagIs ==
  ASSUME TypeInv, OrderInv, NEW l \in Links, Diagnose(l)
  PROVE  /\ Moves(l, "spawn", "next") /\ Joined(l) /\ rec[l] \in Present
         /\ \E rx \in RxIds :
              /\ rx = <<l, rec[l]>> /\ rx[1] = l /\ rx[2] = rec[l] /\ diag'[rx] \in {"PASS", "FAIL"}
              /\ diag'[rx] = "PASS" <=> linkcheck'[l] /\ \A n \in LanesOf(rx) : pass[n]
              /\ \A r \in RxIds : r # rx => diag'[r] = diag[r]
              /\ gathered' = gathered \cup {n \in LanesOf(rx) : specced[n] # {} /\ mature[n]}
         /\ \A m \in Links : m # l => linkcheck'[m] = linkcheck[m]
         /\ ~linkcheck[l] => ~linkcheck'[l]
         /\ UNCHANGED <<setup, mainVars, rec, ln, lwg, parallel, ready, rxwg, laneVars, portVars>>
  <1> DEFINE rx == <<l, rec[l]>>
             passed == linkcheck'[l] /\ \A n \in LanesOf(rx) : pass[n]
  <1>1. /\ UNCHANGED <<setup, mainVars, rec, ln, lwg, parallel, ready, rxwg, laneVars, portVars>>
        /\ At(l, "spawn") /\ Joined(l) /\ Goto(l, "next")
        /\ gathered' = gathered \cup {n \in LanesOf(rx) : specced[n] # {} /\ mature[n]}
        /\ linkcheck' \in {linkcheck, [linkcheck EXCEPT ![l] = FALSE]}
        /\ diag' = [diag EXCEPT ![rx] = IF passed THEN "PASS" ELSE "FAIL"]
    BY Zenon DEF Diagnose
  <1>2. rec[l] \in Present
    BY <1>1, Zenon DEF OrderInv
  <1>3. rx \in RxIds /\ rx[1] = l /\ rx[2] = rec[l]
    BY <1>2, SMT DEF RxIds
  <1>4. diag \in [RxIds -> {"none", "PASS", "FAIL"}] /\ linkcheck \in [Links -> BOOLEAN]
    BY Zenon DEF TypeInv, RxTypes, LinkTypes
  <1>5. \A m \in Links : m # l => linkcheck'[m] = linkcheck[m]
    BY <1>1, <1>4, SMT
  <1>6. ~linkcheck[l] => ~linkcheck'[l]
    BY <1>1, <1>4, SMT
  <1>7. Moves(l, "spawn", "next")
    BY <1>1, MovesIs, Zenon
  <1> HIDE DEF rx, passed
  <1>8. /\ diag'[rx] = IF passed THEN "PASS" ELSE "FAIL"
        /\ \A r \in RxIds : r # rx => diag'[r] = diag[r]
    BY <1>1, <1>3, <1>4, Zenon
  <1>9. diag'[rx] \in {"PASS", "FAIL"} /\ (diag'[rx] = "PASS" <=> passed)
    BY <1>8, SMT
  <1> QED BY <1>1, <1>2, <1>3, <1>5, <1>6, <1>7, <1>8, <1>9, Zenon DEF rx, passed

LEMMA EnlistIs ==
  ASSUME TypeInv, NEW l \in Links, Enlist(l)
  PROVE  /\ Moves(l, "enlist", "next")
         /\ UNCHANGED <<setup, mainVars, rec, ln, lwg, linkcheck, gathered, rxwg, diag, lane, pass,
                        mature, portVars>>
         /\ \A r \in RxIds : r[1] # l => parallel'[r] = parallel[r] /\ ready'[r] = ready[r]
         /\ \A n \in LaneIds : n[1] # l => specced'[n] = specced[n]
  <1>1. /\ At(l, "enlist") /\ Goto(l, "next")
        /\ UNCHANGED <<setup, mainVars, rec, ln, lwg, linkcheck, gathered, rxwg, diag, lane, pass,
                       mature, portVars>>
    BY Zenon DEF Enlist
  <1>2. \A r \in RxIds : r[1] # l => parallel'[r] = parallel[r]
    BY Zenon DEF Enlist
  <1>3. \A r \in RxIds : r[1] # l => ready'[r] = ready[r]
    BY Zenon DEF Enlist
  <1>4. \A n \in LaneIds : n[1] # l => specced'[n] = specced[n]
    BY Zenon DEF Enlist
  <1> QED BY <1>1, <1>2, <1>3, <1>4, MovesIs, Zenon

LEMMA SpawnLinkIs ==
  ASSUME TypeInv, SpawnLink
  PROVE  /\ mpc = "spawn" /\ next \in Links /\ next' = next + 1
         /\ \/ lpc' = lpc /\ wg' = wg
            \/ /\ wg' = wg + 1 /\ lpc'[next] = "prep"
               /\ \A m \in Links : m # next => lpc'[m] = lpc[m]
         /\ UNCHANGED <<setup, mpc, result, taken, rec, ln, lwg, linkcheck, gathered, rxVars,
                        laneVars, portVars>>
  <1>1. /\ mpc = "spawn" /\ next \in Links /\ next' = next + 1
        /\ \/ lpc' = lpc /\ wg' = wg
           \/ wg' = wg + 1 /\ lpc' = [lpc EXCEPT ![next] = "prep"]
        /\ UNCHANGED <<setup, mpc, result, taken, rec, ln, lwg, linkcheck, gathered, rxVars,
                       laneVars, portVars>>
    BY Zenon DEF SpawnLink
  <1>2. lpc \in [Links -> LinkPlaces]
    BY Zenon DEF TypeInv, LinkTypes
  <1>3. lpc' = [lpc EXCEPT ![next] = "prep"] =>
          lpc'[next] = "prep" /\ \A m \in Links : m # next => lpc'[m] = lpc[m]
    BY <1>1, <1>2, SMT
  <1> QED BY <1>1, <1>3, Zenon

\* MarginLinks' other steps.
LEMMA ResultIs ==
  ASSUME AllSpawned \/ RunEnd \/ \E n \in LaneIds : TakeResult(n)
  PROVE  UNCHANGED <<setup, next, wg, linkVars, rxVars, laneVars, portVars>>
  BY Zenon DEF AllSpawned, RunEnd, TakeResult

\* A link comes under test, or is diagnosed, only by the steps named so.
Steady ==
  /\ UNCHANGED <<rec, diag>>
  /\ \A m \in Links : /\ lpc'[m] \in Before => lpc[m] \in Before
                      /\ lpc'[m] = "spawn" <=> lpc[m] = "spawn"
                      /\ lpc[m] = "next" => lpc'[m] = "next"

LEMMA SteadyIf ==
  ASSUME NEW l \in Links, NEW from, NEW to, Moves(l, from, to), UNCHANGED <<rec, diag>>,
         to \in Before => from \in Before, to # "spawn", from # "spawn", from # "next"
  PROVE  Steady
  BY SMT DEF Moves, Steady

Still ==
  UNCHANGED <<ln, lwg, linkcheck, gathered, parallel, ready, rxwg, specced, lane, pass, mature>>

LEMMA StepShape ==
  ASSUME TypeInv, LinksInv, OrderInv, LaneInv, [Next]_vars
  PROVE  \/ Steady /\ Still
         \/ Steady /\ \E l \in Links : Enlist(l) \/ SpawnLane(l)
         \/ Steady /\ \E n \in LaneIds : LaneMoves(n)
         \/ \E l \in Links : NextReceiver(l) \/ Diagnose(l)
  <1>0. lpc' = lpc /\ UNCHANGED <<rec, diag>> => Steady
    BY SMT DEF Steady
  <1>1. CASE SpawnLink
    <2>1. /\ next \in Links /\ UNCHANGED <<rec, diag>> /\ Still
          /\ lpc' = lpc \/ (lpc'[next] = "prep" /\ \A m \in Links : m # next => lpc'[m] = lpc[m])
      BY <1>1, SpawnLinkIs, Zenon DEF rxVars, laneVars, Still
    <2>2. lpc[next] = "idle"
      BY <2>1, SMT DEF LinksInv, Links
    <2>3. lpc'[next] = "prep" /\ (\A m \in Links : m # next => lpc'[m] = lpc[m])
            => Moves(next, "idle", "prep")
      BY <2>2, Zenon DEF Moves
    <2>4. "idle" \in Before /\ "prep" # "spawn" /\ "idle" # "spawn" /\ "idle" # "next"
      BY SMT DEF Before
    <2> QED BY <1>0, <2>1, <2>3, <2>4, SteadyIf, Zenon
  <1>2. CASE AllSpawned \/ RunEnd \/ \E n \in LaneIds : TakeResult(n)
    BY <1>0, <1>2, ResultIs, Zenon DEF linkVars, rxVars, laneVars, Still
  <1>3. ASSUME NEW l \in Links, PrepLink(l) PROVE Steady /\ Still
    <2>1. UNCHANGED <<rec, diag>> /\ Still
      BY <1>3, PrepIs, Zenon DEF rxVars, laneVars, Still
    <2>2. PICK from \in Preparing, to \in {"prep2", "prepUsp", "prepUsp2", "enlist"} :
            Moves(l, from, to)
      BY <1>3, PrepIs, Zenon
    <2>3. from \in Before /\ to # "spawn" /\ from # "spawn" /\ from # "next"
      BY SMT DEF Preparing, Before
    <2> QED BY <2>1, <2>2, <2>3, SteadyIf, Zenon
  <1>4. ASSUME NEW l \in Links, RestoreLink(l) PROVE Steady /\ Still
    <2>1. UNCHANGED <<rec, diag>> /\ Still
      BY <1>4, RestoreIs, Zenon DEF rxVars, laneVars, Still
    <2>2. PICK from \in Restoring, to \in {"restore2", "restoreUsp", "restoreUsp2", "done"} :
            Moves(l, from, to)
      BY <1>4, RestoreIs, Zenon DEF Restoring
    <2>3. to \notin Before /\ to # "spawn" /\ from # "spawn" /\ from # "next"
      BY SMT DEF Restoring, Before
    <2> QED BY <2>1, <2>2, <2>3, SteadyIf, Zenon
  <1>5. ASSUME NEW l \in Links, Enlist(l) PROVE Steady
    <2>1. "enlist" # "spawn" /\ "enlist" # "next" /\ "next" # "spawn" /\ "next" \notin Before
      BY SMT DEF Before
    <2> QED BY <1>5, <2>1, EnlistIs, SteadyIf, Zenon
  <1>6. ASSUME NEW l \in Links, SpawnLane(l) PROVE Steady
    BY <1>0, <1>6, SpawnIs, Zenon
  <1>7. ASSUME NEW n \in LaneIds, MarginLane(n) PROVE Steady /\ LaneMoves(n)
    BY <1>0, <1>7, LaneMovesIs, Zenon DEF LaneMoves
  <1>8. CASE UNCHANGED vars
    BY <1>0, <1>8, Zenon DEF vars, linkVars, rxVars, laneVars, Still
  <1> QED
    BY <1>1, <1>2, <1>3, <1>4, <1>5, <1>6, <1>7, <1>8, Zenon DEF Next, MarginLinks, MarginLink

LEMMA OrderInit == Init => OrderInv
  <1> SUFFICES ASSUME Init PROVE OrderInv
    OBVIOUS
  <1>1. /\ lpc = [l \in Links |-> "idle"] /\ rec = [l \in Links |-> 0]
        /\ diag = [r \in RxIds |-> "none"]
    BY Zenon DEF Init
  <1> QED BY <1>1, SMT DEF OrderInv, At

LEMMA OrderStep == TypeInv /\ LinksInv /\ OrderInv /\ LaneInv /\ [Next]_vars => OrderInv'
  <1> SUFFICES ASSUME TypeInv, LinksInv, OrderInv, LaneInv, [Next]_vars PROVE OrderInv'
    OBVIOUS
  <1>0. /\ rec \in [Links -> 0 .. 6]
        /\ \A rx \in RxIds : rx[1] \in Links /\ rx[2] \in Nat /\ rx[2] >= 1
        /\ \A l \in Links : lpc[l] \in Before => rec[l] = 0
        /\ \A l \in Links : lpc[l] = "spawn" => rec[l] \in Present
        /\ \A rx \in RxIds : diag[rx] # "none" => /\ rx[2] <= rec[rx[1]]
                                                  /\ lpc[rx[1]] = "spawn" => rx[2] # rec[rx[1]]
    BY RxFacts, Zenon DEF TypeInv, LinkTypes, OrderInv, At
  <1> DEFINE InTurn(rx) == /\ rx[2] <= rec'[rx[1]]
                           /\ lpc'[rx[1]] = "spawn" => rx[2] # rec'[rx[1]]
  <1>q. SUFFICES /\ \A l \in Links : lpc'[l] \in Before => rec'[l] = 0
                 /\ \A l \in Links : lpc'[l] = "spawn" => rec'[l] \in Present
                 /\ \A rx \in RxIds : diag'[rx] # "none" => InTurn(rx)
    BY Zenon DEF OrderInv, At
  <1>1. CASE Steady
    BY <1>0, <1>1, SMT DEF Steady
  <1>2. ASSUME NEW l \in Links, NextReceiver(l)
        PROVE  /\ \A m \in Links : lpc'[m] \in Before => rec'[m] = 0
               /\ \A m \in Links : lpc'[m] = "spawn" => rec'[m] \in Present
               /\ \A rx \in RxIds : diag'[rx] # "none" => InTurn(rx)
    <2>1. "restore" \notin Before /\ "spawn" \notin Before /\ "restore" # "spawn"
      BY SMT DEF Before
    <2>2. /\ diag' = diag
          /\ \/ Moves(l, "next", "restore") /\ rec' = rec
             \/ /\ Moves(l, "next", "spawn") /\ rec'[l] \in Present /\ rec'[l] > rec[l]
                /\ \A m \in Links : m # l => rec'[m] = rec[m]
      BY <1>2, NextIs, Zenon DEF rxVars
    <2>3. CASE Moves(l, "next", "restore") /\ rec' = rec
      <3>1. \A m \in Links : /\ lpc'[m] \in Before => lpc[m] \in Before
                             /\ lpc'[m] = "spawn" => lpc[m] = "spawn"
        BY <2>1, <2>3, Zenon DEF Moves
      <3>2. \A rx \in RxIds : diag'[rx] # "none" => InTurn(rx)
        BY <1>0, <2>2, <2>3, <3>1, Zenon
      <3> QED BY <1>0, <2>2, <2>3, <3>1, <3>2, SMT
    <2>4. CASE /\ Moves(l, "next", "spawn") /\ rec'[l] \in Present /\ rec'[l] > rec[l]
               /\ \A m \in Links : m # l => rec'[m] = rec[m]
      <3>1. rec'[l] \in Int /\ rec[l] \in Int
        <4>1. Present \subseteq Receivers
          BY ConstantsAssumption, Zenon
        <4>2. rec'[l] \in Receivers
          BY <2>4, <4>1, Zenon
        <4>3. rec[l] \in Int
          BY <1>0, SMT
        <4> QED BY <4>2, <4>3, SMT DEF Receivers
      <3>2. \A m \in Links : lpc'[m] \in Before => rec'[m] = 0
        BY <1>0, <2>1, <2>4, Zenon DEF Moves
      <3>3. \A m \in Links : lpc'[m] = "spawn" => rec'[m] \in Present
        BY <1>0, <2>4, Zenon DEF Moves
      <3>4. ASSUME NEW rx \in RxIds, diag[rx] # "none"
            PROVE  InTurn(rx)
        <4>1. CASE rx[1] = l
          <5>1. rx[2] <= rec[l] /\ rx[2] \in Int
            BY <1>0, <3>4, <4>1, SMT
          <5> QED BY <2>4, <3>1, <4>1, <5>1, SMT
        <4>2. CASE rx[1] # l
          BY <1>0, <2>4, <3>4, <4>2, Zenon DEF Moves
        <4> QED BY <4>1, <4>2
      <3> QED BY <2>2, <3>2, <3>3, <3>4, Zenon
    <2> QED BY <2>2, <2>3, <2>4, Zenon
  <1>3. ASSUME NEW l \in Links, Diagnose(l)
        PROVE  /\ \A m \in Links : lpc'[m] \in Before => rec'[m] = 0
               /\ \A m \in Links : lpc'[m] = "spawn" => rec'[m] \in Present
               /\ \A rx \in RxIds : diag'[rx] # "none" => InTurn(rx)
    <2>1. rec' = rec /\ Moves(l, "spawn", "next")
      BY <1>3, DiagIs, Zenon
    <2>2. "next" \notin Before /\ "next" # "spawn"
      BY SMT DEF Before
    <2>3. PICK rx \in RxIds : rx[1] = l /\ rx[2] = rec[l] /\ \A r \in RxIds : r # rx => diag'[r] = diag[r]
      <3>1. \E rx \in RxIds :
              /\ rx[1] = l /\ rx[2] = rec[l]
              /\ \A r \in RxIds : r # rx => diag'[r] = diag[r]
        BY <1>3, DiagIs, SMT
      <3> QED BY <3>1, Zenon
    <2>4. \A m \in Links : /\ lpc'[m] \in Before => lpc[m] \in Before
                           /\ lpc'[m] = "spawn" => lpc[m] = "spawn" /\ m # l
      BY <2>1, <2>2, Zenon DEF Moves
    <2>5. ASSUME NEW r \in RxIds, diag'[r] # "none"
          PROVE  InTurn(r)
      <3>1. CASE r = rx
        <4>0. r[1] \in Links /\ r[2] \in Nat
          BY <1>0, Zenon
        <4>1. r[1] = l /\ r[2] = rec[l] /\ lpc'[l] # "spawn"
          BY <2>3, <2>4, <3>1, SMT
        <4> QED BY <2>1, <4>0, <4>1, SMT
      <3>2. CASE r # rx
        <4>1. diag[r] # "none" /\ r[1] \in Links
          BY <1>0, <2>3, <2>5, <3>2, Zenon
        <4> QED BY <1>0, <2>1, <2>4, <4>1, SMT
      <3> QED BY <3>1, <3>2
    <2> QED BY <1>0, <2>1, <2>4, <2>5, SMT
  <1> QED BY <1>1, <1>2, <1>3, StepShape, Zenon

\* No lanes of a link are active when it waits for none.
LEMMA NoneActive ==
  ASSUME CountInv, NEW l \in Links, lwg[l] = 0
  PROVE  \A n \in LaneIds : n[1] = l => ~Active(n)
  <1>1. IsFiniteSet(ActiveOf(l)) /\ Cardinality(ActiveOf(l)) = 0
    <2>1. ActiveOf(l) \subseteq LaneIds
      BY Zenon DEF ActiveOf
    <2>2. lwg[l] = Cardinality(ActiveOf(l))
      BY Zenon DEF CountInv
    <2> QED BY <2>1, <2>2, LaneIdsFinite, FS_Subset, Zenon
  <1>2. ActiveOf(l) = {}
    BY <1>1, FS_EmptySet, Zenon
  <1> QED BY <1>2, Zenon DEF ActiveOf

LEMMA LaneInit == Init => LaneInv
  BY SMT DEF Init, LaneInv, Active

LEMMA LaneStep ==
  TypeInv /\ LinksInv /\ CountInv /\ OrderInv /\ LaneInv /\ [Next]_vars => LaneInv'
  <1> SUFFICES ASSUME TypeInv, LinksInv, CountInv, OrderInv, LaneInv, [Next]_vars PROVE LaneInv'
    OBVIOUS
  <1> DEFINE Runs(n) == lpc[n[1]] = "spawn" /\ rec[n[1]] = n[2]
             RunsNext(n) == lpc'[n[1]] = "spawn" /\ rec'[n[1]] = n[2]
             Busy(n) == lane[n] \notin {"idle", "ended"}
             BusyNext(n) == lane'[n] \notin {"idle", "ended"}
             Kept(n) == /\ BusyNext(n) => RunsNext(n)
                        /\ lane'[n] # "idle" =>
                             \/ RunsNext(n) /\ n[3] < ln'[n[1]]
                             \/ diag'[RxOf(n)] # "none"
  <1>q. SUFFICES ASSUME NEW n \in LaneIds PROVE Kept(n)
    BY Zenon DEF LaneInv, At, Active
  <1>0. /\ n[1] \in Links /\ RxOf(n) \in RxIds /\ RxOf(n)[1] = n[1] /\ RxOf(n)[2] = n[2]
        /\ n[3] \in Int /\ ln[n[1]] \in Int
        /\ Busy(n) => Runs(n)
        /\ lane[n] # "idle" => (Runs(n) /\ n[3] < ln[n[1]]) \/ diag[RxOf(n)] # "none"
    <2>1. ln[n[1]] \in Int
      BY LaneFacts, SMT DEF TypeInv, LinkTypes
    <2> QED BY <2>1, LaneFacts, Zenon DEF LaneInv, At, Active
  \* The link goes on as it is.
  <1>1. ASSUME Steady PROVE (Runs(n) <=> RunsNext(n)) /\ diag' = diag
    BY <1>0, <1>1, Zenon DEF Steady
  <1>2. CASE Steady /\ Still
    BY <1>0, <1>1, <1>2, Zenon DEF Still
  <1>3. ASSUME Steady, NEW l \in Links, Enlist(l) PROVE Kept(n)
    BY <1>0, <1>1, <1>3, EnlistIs, Zenon
  <1>4. ASSUME Steady, NEW l \in Links, SpawnLane(l) PROVE Kept(n)
    <2>1. ln[n[1]] <= ln'[n[1]]
      <3>1. ln'[l] = ln[l] + 1 /\ \A m \in Links : m # l => ln'[m] = ln[m]
        BY <1>4, SpawnIs, Zenon
      <3> QED BY <1>0, <3>1, SMT
    <2>2. ln'[n[1]] \in Int
      <3>1. ln'[l] = ln[l] + 1 /\ \A m \in Links : m # l => ln'[m] = ln[m]
        BY <1>4, SpawnIs, Zenon
      <3> QED BY <1>0, <3>1, SMT
    <2>3. CASE lane' = lane
      BY <1>0, <1>1, <1>4, <2>1, <2>2, <2>3, SMT
    <2>4. ASSUME NEW k \in LaneIds, k[1] = l, k[2] = rec[l], k[3] = ln[l],
                 lane' = [lane EXCEPT ![k] = "reading"]
          PROVE  Kept(n)
      <3>1. CASE n = k
        <4>1. RunsNext(n)
          BY <1>1, <1>4, <2>4, <3>1, SpawnIs, Zenon DEF At
        <4>2. n[3] < ln'[n[1]]
          BY <1>0, <1>4, <2>4, <3>1, SpawnIs, SMT
        <4> QED BY <4>1, <4>2, Zenon
      <3>2. CASE n # k
        <4>1. lane'[n] = lane[n]
          BY <2>4, <3>2, SMT DEF TypeInv, LaneTypes
        <4> QED BY <1>0, <1>1, <1>4, <2>1, <2>2, <4>1, SMT
      <3> QED BY <3>1, <3>2
    <2> QED BY <1>4, <2>3, <2>4, SpawnIs, Zenon
  <1>5. ASSUME Steady, NEW k \in LaneIds, LaneMoves(k) PROVE Kept(n)
    <2>1. /\ ln' = ln
          /\ lane[k] \notin {"idle", "ended"} /\ lane'[k] \notin {"idle", "reading"}
          /\ \A m \in LaneIds : m # k => \/ lane'[m] = lane[m]
                                         \/ lane[m] = "waiting" /\ lane'[m] = "woken"
      BY <1>5, Zenon DEF LaneMoves
    <2>2. (BusyNext(n) => Busy(n)) /\ (lane'[n] # "idle" => lane[n] # "idle")
      BY <2>1, SMT
    <2> QED BY <1>0, <1>1, <1>5, <2>1, <2>2, Zenon
  <1>6. ASSUME NEW l \in Links, NextReceiver(l) PROVE Kept(n)
    <2>1. lane' = lane /\ diag' = diag /\ lpc[l] = "next"
      BY <1>6, NextIs, Zenon DEF laneVars, rxVars, Moves
    <2>2. CASE n[1] = l
      <3>1. ~Runs(n)
        BY <2>1, <2>2, SMT
      <3> QED BY <1>0, <2>1, <3>1, Zenon
    <2>3. CASE n[1] # l
      <3>1. lpc'[n[1]] = lpc[n[1]] /\ rec'[n[1]] = rec[n[1]] /\ ln'[n[1]] = ln[n[1]]
        BY <1>0, <1>6, <2>3, NextIs, Zenon DEF Moves
      <3> QED BY <1>0, <2>1, <3>1, Zenon
    <2> QED BY <2>2, <2>3, Zenon
  <1>7. ASSUME NEW l \in Links, Diagnose(l) PROVE Kept(n)
    <2>1. lane' = lane /\ rec' = rec /\ ln' = ln /\ lwg[l] = 0
      BY <1>7, DiagIs, Zenon DEF laneVars, Joined
    <2>2. PICK rx \in RxIds : /\ rx = <<l, rec[l]>> /\ diag'[rx] \in {"PASS", "FAIL"}
                              /\ \A r \in RxIds : r # rx => diag'[r] = diag[r]
      BY <1>7, DiagIs, SMT
    <2>3. diag[RxOf(n)] # "none" => diag'[RxOf(n)] # "none"
      BY <1>0, <2>2, SMT
    <2>4. CASE n[1] = l
      <3>1. ~Busy(n) /\ ~BusyNext(n)
        BY <2>1, <2>4, NoneActive, Zenon DEF Active
      <3>2. Runs(n) => RxOf(n) = rx
        BY <2>2, <2>4, Zenon DEF RxOf
      <3>3. Runs(n) => diag'[RxOf(n)] # "none"
        BY <2>2, <3>2, SMT
      <3> QED BY <1>0, <2>1, <2>3, <3>1, <3>3, Zenon
    <2>5. CASE n[1] # l
      <3>1. lpc'[n[1]] = lpc[n[1]]
        <4>1. Moves(l, "spawn", "next")
          BY <1>7, DiagIs, Zenon
        <4> QED BY <1>0, <2>5, <4>1, Zenon DEF Moves
      <3> QED BY <1>0, <2>1, <2>3, <3>1, Zenon
    <2> QED BY <2>4, <2>5, Zenon
  <1> QED BY <1>2, <1>3, <1>4, <1>5, <1>6, <1>7, StepShape, Zenon

\* What the steps do to the links that run.
LEMMA RunShape ==
  ASSUME TypeInv, OrderInv, LaneInv, [Next]_vars
  PROVE  \/ SpawnLink
         \/ AllSpawned \/ RunEnd \/ \E n \in LaneIds : TakeResult(n)
         \/ lpc' = lpc /\ UNCHANGED mainVars
         \/ \E l \in Links, from \in LinkPlaces \ {"idle", "done"}, to \in LinkPlaces \ {"idle"} :
              /\ Moves(l, from, to)
              /\ UNCHANGED <<mpc, next, result, taken>>
              /\ IF to = "done" THEN wg' = wg - 1 ELSE wg' = wg
  <1> DEFINE There == LinkPlaces \ {"idle", "done"}
             Thither == LinkPlaces \ {"idle"}
             Runs == \E l \in Links, from \in There, to \in Thither :
                       /\ Moves(l, from, to)
                       /\ UNCHANGED <<mpc, next, result, taken>>
                       /\ IF to = "done" THEN wg' = wg - 1 ELSE wg' = wg
  <1>0. /\ {"prep", "prep2", "prepUsp", "prepUsp2", "enlist", "next", "spawn", "restore", "restore2",
            "restoreUsp", "restoreUsp2"} \subseteq There
        /\ Thither = There \cup {"done"} /\ "done" \notin There
    BY SMT DEF LinkPlaces, Before
  <1>1. ASSUME NEW l \in Links, NEW from \in There, NEW to \in There, Moves(l, from, to),
               UNCHANGED mainVars
        PROVE  Runs
    <2>1. UNCHANGED <<mpc, next, result, taken>> /\ wg' = wg /\ to # "done" /\ to \in Thither
      BY <1>0, <1>1, Zenon DEF mainVars
    <2> QED BY <1>1, <2>1, Zenon
  <1> HIDE DEF There, Thither, Runs
  <1>2. ASSUME NEW l \in Links, PrepLink(l) PROVE Runs
    <2>1. UNCHANGED mainVars
      BY <1>2, PrepIs, Zenon
    <2>2. PICK from \in Preparing, to \in {"prep2", "prepUsp", "prepUsp2", "enlist"} :
            Moves(l, from, to)
      BY <1>2, PrepIs, Zenon
    <2>3. from \in There /\ to \in There
      BY <1>0, Zenon DEF Preparing
    <2> QED BY <1>1, <2>1, <2>2, <2>3, Zenon
  <1>3. ASSUME NEW l \in Links, RestoreLink(l) PROVE Runs
    <2>1. UNCHANGED <<mpc, next, result, taken>>
      BY <1>3, RestoreIs, Zenon
    <2>2. CASE Moves(l, "restoreUsp2", "done") /\ wg' = wg - 1
      <3>1. "restoreUsp2" \in There /\ "done" \in Thither
        BY <1>0, Zenon
      <3> QED BY <2>1, <2>2, <3>1, Zenon DEF Runs
    <2>3. CASE \E from \in Restoring, to \in {"restore2", "restoreUsp", "restoreUsp2"} :
                 Moves(l, from, to) /\ wg' = wg
      <3>1. PICK from \in Restoring, to \in {"restore2", "restoreUsp", "restoreUsp2"} :
              Moves(l, from, to) /\ wg' = wg
        BY <2>3, Zenon
      <3>2. from \in There /\ to \in There
        BY <1>0, Zenon DEF Restoring
      <3>3. UNCHANGED mainVars
        BY <2>1, <3>1, SMT DEF mainVars
      <3> QED BY <1>1, <3>1, <3>2, <3>3, Zenon
    <2> QED BY <1>3, <2>2, <2>3, RestoreIs, Zenon
  <1>4. ASSUME NEW l \in Links, Enlist(l) PROVE Runs
    <2>1. UNCHANGED mainVars /\ Moves(l, "enlist", "next")
      BY <1>4, EnlistIs, Zenon
    <2> QED BY <1>0, <1>1, <2>1, Zenon
  <1>5. ASSUME NEW l \in Links, NextReceiver(l) PROVE Runs
    <2>1. UNCHANGED mainVars /\ (Moves(l, "next", "restore") \/ Moves(l, "next", "spawn"))
      BY <1>5, NextIs, Zenon
    <2> QED BY <1>0, <1>1, <2>1, Zenon
  <1>6. ASSUME NEW l \in Links, Diagnose(l) PROVE Runs
    <2>1. UNCHANGED mainVars /\ Moves(l, "spawn", "next")
      BY <1>6, DiagIs, Zenon
    <2> QED BY <1>0, <1>1, <2>1, Zenon
  <1>7. ASSUME NEW l \in Links, SpawnLane(l) PROVE lpc' = lpc /\ UNCHANGED mainVars
    BY <1>7, SpawnIs, Zenon
  <1>8. ASSUME NEW n \in LaneIds, MarginLane(n) PROVE lpc' = lpc /\ UNCHANGED mainVars
    BY <1>8, LaneMovesIs, Zenon DEF LaneMoves
  <1>9. CASE UNCHANGED vars
    BY <1>9, Zenon DEF vars, linkVars
  <1> QED
    BY <1>2, <1>3, <1>4, <1>5, <1>6, <1>7, <1>8, <1>9, Zenon
    DEF Next, MarginLinks, MarginLink, Runs, There, Thither

LEMMA LinksInit == Init => LinksInv
  BY SMT DEF Init, LinksInv

LEMMA NoneRunning ==
  ASSUME CountInv, wg = 0
  PROVE  Running = {}
  <1>1. IsFiniteSet(Running)
    <2>1. Running \subseteq Links
      BY Zenon DEF Running
    <2> QED BY <2>1, LinksFinite, FS_Subset, Zenon
  <1>2. Cardinality(Running) = 0
    BY Zenon DEF CountInv
  <1> QED BY <1>1, <1>2, FS_EmptySet, Zenon

LEMMA LinksStep ==
  TypeInv /\ LinksInv /\ CountInv /\ OrderInv /\ LaneInv /\ [Next]_vars => LinksInv'
  <1> SUFFICES ASSUME TypeInv, LinksInv, CountInv, OrderInv, LaneInv, [Next]_vars PROVE LinksInv'
    OBVIOUS
  <1>0. next \in Int /\ \A l \in Links : l \in Int
    BY SMT DEF TypeInv, MainTypes, Links
  <1>1. CASE SpawnLink
    <2>1. /\ mpc = "spawn" /\ next' = next + 1 /\ mpc' = mpc /\ taken' = taken
          /\ \A m \in Links : m # next => lpc'[m] = lpc[m]
      BY <1>1, SpawnLinkIs, Zenon
    <2>2. taken = {} /\ mpc # "done"
      BY <2>1, SMT DEF LinksInv
    <2>3. \A l \in Links : l >= next' => lpc'[l] = "idle"
      BY <1>0, <2>1, SMT DEF LinksInv
    <2> QED BY <2>1, <2>2, <2>3, Zenon DEF LinksInv
  <1>2. CASE AllSpawned \/ RunEnd \/ \E n \in LaneIds : TakeResult(n)
    <2>1. next' = next /\ lpc' = lpc
      BY <1>2, ResultIs, Zenon DEF linkVars
    <2>2. Running' = Running
      BY <2>1, Zenon DEF Running
    <2>3. CASE AllSpawned
      <3>1. mpc = "spawn" /\ taken' = taken /\ mpc' = "join"
        BY <2>3, Zenon DEF AllSpawned
      <3>2. taken = {} /\ mpc' # "done"
        BY <3>1, SMT DEF LinksInv
      <3> QED BY <2>1, <3>1, <3>2, Zenon DEF LinksInv
    <2>4. CASE RunEnd \/ \E n \in LaneIds : TakeResult(n)
      <3>1. wg = 0 /\ mpc' \in {"join", "done"}
        BY <2>4, Zenon DEF RunEnd, TakeResult
      <3>2. mpc' # "spawn"
        BY <3>1, SMT
      <3> QED BY <2>1, <2>2, <3>1, <3>2, NoneRunning, Zenon DEF LinksInv
    <2> QED BY <1>2, <2>3, <2>4, Zenon
  <1>3. CASE lpc' = lpc /\ UNCHANGED mainVars
    BY <1>3, SMT DEF LinksInv, mainVars, Running
  <1>4. ASSUME NEW l \in Links, NEW from \in LinkPlaces \ {"idle", "done"}, NEW to,
               Moves(l, from, to), UNCHANGED <<mpc, next, taken>>
        PROVE  LinksInv'
    <2>1. lpc[l] \notin {"idle", "done"} /\ \A m \in Links : m # l => lpc'[m] = lpc[m]
      BY <1>4, SMT DEF Moves
    <2>2. l \in Running
      BY <2>1, Zenon DEF Running
    <2>3. ~(l >= next)
      BY <2>1, SMT DEF LinksInv
    <2>4. \A m \in Links : m >= next' => lpc'[m] = "idle"
      BY <1>4, <2>1, <2>3, SMT DEF LinksInv
    <2>5. taken' = {} /\ mpc' # "done"
      BY <1>4, <2>2, SMT DEF LinksInv
    <2> QED BY <2>4, <2>5, Zenon DEF LinksInv
  <1> QED BY <1>1, <1>2, <1>3, <1>4, RunShape, Zenon

LEMMA OneMore ==
  ASSUME NEW S, NEW T, NEW x, NEW c, IsFiniteSet(S), x \notin S, T = S \cup {x}, c = Cardinality(S)
  PROVE  Cardinality(T) = c + 1
  BY FS_AddElement, Zenon

LEMMA OneLess ==
  ASSUME NEW S, NEW T, NEW x, NEW c, IsFiniteSet(S), x \in S, T = S \ {x}, c = Cardinality(S)
  PROVE  Cardinality(T) = c - 1
  BY FS_RemoveElement, Zenon

LEMMA CountedFinite ==
  /\ IsFiniteSet(Running) /\ IsFiniteSet(Running)'
  /\ \A l \in Links : IsFiniteSet(ActiveOf(l))
  /\ \A rx \in RxIds : IsFiniteSet(Readers(rx))
  <1>1. Running \subseteq Links /\ Running' \subseteq Links
    BY Zenon DEF Running
  <1>2. /\ \A l \in Links : ActiveOf(l) \subseteq LaneIds
        /\ \A rx \in RxIds : Readers(rx) \subseteq LaneIds
    BY Zenon DEF ActiveOf, Readers
  <1>3. IsFiniteSet(Running) /\ IsFiniteSet(Running')
    BY <1>1, LinksFinite, FS_Subset, Zenon
  <1>4. \A S \in SUBSET LaneIds : IsFiniteSet(S)
    BY LaneIdsFinite, FS_Subset, Zenon
  <1> QED BY <1>2, <1>3, <1>4, Zenon

LEMMA CountInit == Init => CountInv
  <1> SUFFICES ASSUME Init PROVE CountInv
    OBVIOUS
  <1>1. /\ wg = 0 /\ lpc = [l \in Links |-> "idle"] /\ lwg = [l \in Links |-> 0]
        /\ rxwg = [r \in RxIds |-> 0] /\ lane = [n \in LaneIds |-> "idle"]
    BY Zenon DEF Init
  <1>2. /\ Running = {}
        /\ \A l \in Links : ActiveOf(l) = {} /\ lwg[l] = 0
        /\ \A rx \in RxIds : Readers(rx) = {} /\ rxwg[rx] = 0
    BY <1>1, SMT DEF Running, ActiveOf, Readers, Active
  <1> QED BY <1>1, <1>2, FS_EmptySet, SMT DEF CountInv

\* MarginLinks' WaitGroup.
LEMMA CountLinks ==
  TypeInv /\ LinksInv /\ CountInv /\ OrderInv /\ LaneInv /\ [Next]_vars
    => wg' = Cardinality(Running')
  <1> SUFFICES ASSUME TypeInv, LinksInv, CountInv, OrderInv, LaneInv, [Next]_vars
               PROVE  wg' = Cardinality(Running')
    OBVIOUS
  <1>0. wg = Cardinality(Running) /\ IsFiniteSet(Running)
    BY CountedFinite, Zenon DEF CountInv
  <1>1. CASE lpc' = lpc /\ wg' = wg
    BY <1>0, <1>1, Zenon DEF Running
  <1>2. CASE SpawnLink
    <2>1. PICK l \in Links : /\ l = next
                             /\ \/ lpc' = lpc /\ wg' = wg
                                \/ /\ wg' = wg + 1 /\ lpc'[l] = "prep"
                                   /\ \A m \in Links : m # l => lpc'[m] = lpc[m]
      BY <1>2, SpawnLinkIs, Zenon
    <2>2. CASE wg' = wg + 1 /\ lpc'[l] = "prep" /\ \A m \in Links : m # l => lpc'[m] = lpc[m]
      <3>1. lpc[l] = "idle"
        BY <2>1, SMT DEF LinksInv, Links
      <3>2. l \notin Running /\ Running' = Running \cup {l}
        BY <2>2, <3>1, SMT DEF Running
      <3> QED BY <1>0, <2>2, <3>2, OneMore, Zenon
    <2> QED BY <1>1, <2>1, <2>2, Zenon
  <1>3. CASE AllSpawned \/ RunEnd \/ \E n \in LaneIds : TakeResult(n)
    BY <1>1, <1>3, ResultIs, Zenon DEF linkVars
  <1>4. ASSUME NEW l \in Links, NEW from \in LinkPlaces \ {"idle", "done"},
               NEW to \in LinkPlaces \ {"idle"}, Moves(l, from, to),
               IF to = "done" THEN wg' = wg - 1 ELSE wg' = wg
        PROVE  wg' = Cardinality(Running')
    <2>1. /\ lpc[l] \notin {"idle", "done"} /\ lpc'[l] = to /\ to # "idle"
          /\ \A m \in Links : m # l => lpc'[m] = lpc[m]
      BY <1>4, SMT DEF Moves
    <2>2. CASE to = "done"
      <3>1. l \in Running /\ Running' = Running \ {l}
        BY <2>1, <2>2, SMT DEF Running
      <3> QED BY <1>0, <1>4, <2>2, <3>1, OneLess, Zenon
    <2>3. CASE to # "done"
      <3>1. Running' = Running
        BY <2>1, <2>3, SMT DEF Running
      <3> QED BY <1>0, <1>4, <2>3, <3>1, Zenon
    <2> QED BY <2>2, <2>3, Zenon
  <1>5. CASE lpc' = lpc /\ UNCHANGED mainVars
    BY <1>1, <1>5, Zenon DEF mainVars
  <1> QED BY <1>2, <1>3, <1>4, <1>5, RunShape, Zenon

\* marginLink's WaitGroup and the receivers'.
LEMMA CountLanes ==
  TypeInv /\ LinksInv /\ CountInv /\ OrderInv /\ LaneInv /\ [Next]_vars =>
    /\ \A l \in Links : lwg'[l] = Cardinality(ActiveOf(l)')
    /\ \A rx \in RxIds : rxwg'[rx] = Cardinality(Readers(rx)')
  <1> DEFINE Goal == /\ \A l \in Links : lwg'[l] = Cardinality(ActiveOf(l)')
                     /\ \A rx \in RxIds : rxwg'[rx] = Cardinality(Readers(rx)')
  <1> SUFFICES ASSUME TypeInv, LinksInv, CountInv, OrderInv, LaneInv, [Next]_vars PROVE Goal
    OBVIOUS
  <1>0. /\ \A l \in Links : lwg[l] = Cardinality(ActiveOf(l)) /\ IsFiniteSet(ActiveOf(l))
        /\ \A rx \in RxIds : rxwg[rx] = Cardinality(Readers(rx)) /\ IsFiniteSet(Readers(rx))
        /\ lwg \in [Links -> Int] /\ rxwg \in [RxIds -> Int] /\ lane \in [LaneIds -> LanePlaces]
    BY CountedFinite, Zenon DEF CountInv, TypeInv, LinkTypes, RxTypes, LaneTypes
  <1>1. CASE UNCHANGED <<lane, lwg, rxwg>>
    <2>1. lane' = lane /\ lwg' = lwg /\ rxwg' = rxwg
      BY <1>1, Zenon
    <2>2. \A l \in Links : ActiveOf(l)' = ActiveOf(l)
      BY <2>1, Zenon DEF ActiveOf, Active
    <2>3. \A rx \in RxIds : Readers(rx)' = Readers(rx)
      BY <2>1, Zenon DEF Readers
    <2> QED BY <1>0, <2>1, <2>2, <2>3, Zenon
  <1>2. ASSUME NEW n \in LaneIds, lane[n] = "idle", lane' = [lane EXCEPT ![n] = "reading"],
               lwg' = [lwg EXCEPT ![n[1]] = lwg[n[1]] + 1],
               rxwg' = [rxwg EXCEPT ![RxOf(n)] = rxwg[RxOf(n)] + 1]
        PROVE  Goal
    <2>0. n[1] \in Links /\ RxOf(n) \in RxIds
      BY LaneFacts, Zenon
    <2>1. lane'[n] = "reading" /\ \A m \in LaneIds : m # n => lane'[m] = lane[m]
      BY <1>0, <1>2, SMT
    <2>2. ASSUME NEW l \in Links PROVE lwg'[l] = Cardinality(ActiveOf(l)')
      <3>1. CASE l = n[1]
        <4>1. n \notin ActiveOf(l) /\ ActiveOf(l)' = ActiveOf(l) \cup {n}
          BY <1>2, <2>1, <3>1, SMT DEF ActiveOf, Active
        <4>2. Cardinality(ActiveOf(l)') = lwg[l] + 1
          <5>1. lwg[l] = Cardinality(ActiveOf(l)) /\ IsFiniteSet(ActiveOf(l))
            BY <1>0, Zenon
          <5> QED BY <4>1, <5>1, OneMore, SMT
        <4>3. lwg'[l] = lwg[l] + 1
          BY <1>0, <1>2, <3>1, SMT
        <4> QED BY <4>2, <4>3, Zenon
      <3>2. CASE l # n[1]
        <4>1. ActiveOf(l)' = ActiveOf(l)
          BY <2>1, <3>2, SMT DEF ActiveOf, Active
        <4>2. lwg'[l] = lwg[l]
          BY <1>0, <1>2, <2>0, <3>2, SMT
        <4> QED BY <1>0, <4>1, <4>2, Zenon
      <3> QED BY <3>1, <3>2
    <2>3. ASSUME NEW rx \in RxIds PROVE rxwg'[rx] = Cardinality(Readers(rx)')
      <3> DEFINE mine == RxOf(n)
      <3>0. rxwg' = [rxwg EXCEPT ![mine] = rxwg[mine] + 1] /\ mine \in RxIds /\ mine = RxOf(n)
        BY <1>2, <2>0, Zenon
      <3> HIDE DEF mine
      <3>1. CASE rx = mine
        <4>1. n \notin Readers(rx) /\ Readers(rx)' = Readers(rx) \cup {n}
          BY <1>2, <2>1, <3>0, <3>1, SMT DEF Readers
        <4>2. Cardinality(Readers(rx)') = rxwg[rx] + 1
          <5>1. rxwg[rx] = Cardinality(Readers(rx)) /\ IsFiniteSet(Readers(rx))
            BY <1>0, Zenon
          <5> QED BY <4>1, <5>1, OneMore, SMT
        <4>3. rxwg'[rx] = rxwg[rx] + 1
          BY <1>0, <3>0, <3>1, SMT
        <4> QED BY <4>2, <4>3, Zenon
      <3>2. CASE rx # mine
        <4>1. Readers(rx)' = Readers(rx)
          BY <2>1, <3>0, <3>2, SMT DEF Readers
        <4>2. rxwg'[rx] = rxwg[rx]
          BY <1>0, <3>0, <3>2, SMT
        <4> QED BY <1>0, <4>1, <4>2, Zenon
      <3> QED BY <3>1, <3>2
    <2> QED BY <2>2, <2>3, Zenon
  <1>3. ASSUME NEW n \in LaneIds, LaneMoves(n) PROVE Goal
    <2>0. n[1] \in Links /\ RxOf(n) \in RxIds
      BY LaneFacts, Zenon
    <2>1. /\ lane[n] \notin {"idle", "ended"} /\ lane'[n] \notin {"idle", "reading"}
          /\ \A m \in LaneIds : m # n => \/ lane'[m] = lane[m]
                                         \/ lane[m] = "waiting" /\ lane'[m] = "woken"
          /\ \/ lane'[n] # "ended" /\ lwg' = lwg
             \/ lane'[n] = "ended" /\ lwg' = [lwg EXCEPT ![n[1]] = lwg[n[1]] - 1]
          /\ \/ lane[n] # "reading" /\ rxwg' = rxwg
             \/ lane[n] = "reading" /\ rxwg' = [rxwg EXCEPT ![RxOf(n)] = rxwg[RxOf(n)] - 1]
      BY <1>3, Zenon DEF LaneMoves
    <2>2. ASSUME NEW l \in Links PROVE lwg'[l] = Cardinality(ActiveOf(l)')
      <3>1. CASE l = n[1] /\ lane'[n] = "ended"
        <4>1. n \in ActiveOf(l) /\ ActiveOf(l)' = ActiveOf(l) \ {n}
          BY <2>1, <3>1, SMT DEF ActiveOf, Active
        <4>2. Cardinality(ActiveOf(l)') = lwg[l] - 1
          <5>1. lwg[l] = Cardinality(ActiveOf(l)) /\ IsFiniteSet(ActiveOf(l))
            BY <1>0, Zenon
          <5> QED BY <4>1, <5>1, OneLess, SMT
        <4>3. lwg'[l] = lwg[l] - 1
          BY <1>0, <2>1, <3>1, SMT
        <4> QED BY <4>2, <4>3, Zenon
      <3>2. CASE ~(l = n[1] /\ lane'[n] = "ended")
        <4>1. ActiveOf(l)' = ActiveOf(l)
          BY <2>1, <3>2, SMT DEF ActiveOf, Active
        <4>2. lwg'[l] = lwg[l]
          BY <1>0, <2>0, <2>1, <3>2, SMT
        <4> QED BY <1>0, <4>1, <4>2, Zenon
      <3> QED BY <3>1, <3>2
    <2>3. ASSUME NEW rx \in RxIds PROVE rxwg'[rx] = Cardinality(Readers(rx)')
      <3> DEFINE mine == RxOf(n)
      <3>0. /\ mine \in RxIds /\ mine = RxOf(n)
            /\ \/ lane[n] # "reading" /\ rxwg' = rxwg
               \/ lane[n] = "reading" /\ rxwg' = [rxwg EXCEPT ![mine] = rxwg[mine] - 1]
        BY <2>0, <2>1, Zenon
      <3> HIDE DEF mine
      <3>1. CASE rx = mine /\ lane[n] = "reading"
        <4>1. n \in Readers(rx) /\ Readers(rx)' = Readers(rx) \ {n}
          BY <2>1, <3>0, <3>1, SMT DEF Readers
        <4>2. Cardinality(Readers(rx)') = rxwg[rx] - 1
          <5>1. rxwg[rx] = Cardinality(Readers(rx)) /\ IsFiniteSet(Readers(rx))
            BY <1>0, Zenon
          <5> QED BY <4>1, <5>1, OneLess, SMT
        <4>3. rxwg'[rx] = rxwg[rx] - 1
          BY <1>0, <3>0, <3>1, SMT
        <4> QED BY <4>2, <4>3, Zenon
      <3>2. CASE ~(rx = mine /\ lane[n] = "reading")
        <4>1. Readers(rx)' = Readers(rx)
          BY <2>1, <3>0, <3>2, SMT DEF Readers
        <4>2. rxwg'[rx] = rxwg[rx]
          BY <1>0, <3>0, <3>2, SMT
        <4> QED BY <1>0, <4>1, <4>2, Zenon
      <3> QED BY <3>1, <3>2
    <2> QED BY <2>2, <2>3, Zenon
  <1> HIDE DEF Goal
  <1>4. ASSUME NEW l \in Links, SpawnLane(l) PROVE Goal
    <2>1. CASE UNCHANGED <<lwg, rxwg, lane>>
      BY <1>1, <2>1, Zenon
    <2>2. ASSUME NEW n \in LaneIds, n[1] = l, lane[n] = "idle",
                 lane' = [lane EXCEPT ![n] = "reading"],
                 lwg' = [lwg EXCEPT ![l] = lwg[l] + 1],
                 rxwg' = [rxwg EXCEPT ![RxOf(n)] = rxwg[RxOf(n)] + 1]
          PROVE  Goal
      BY <1>2, <2>2, Zenon
    <2>3. \/ UNCHANGED <<lwg, rxwg, lane>>
          \/ \E n \in LaneIds : /\ n[1] = l /\ lane[n] = "idle"
                               /\ lane' = [lane EXCEPT ![n] = "reading"]
                               /\ lwg' = [lwg EXCEPT ![l] = lwg[l] + 1]
                               /\ rxwg' = [rxwg EXCEPT ![RxOf(n)] = rxwg[RxOf(n)] + 1]
      BY <1>4, SpawnIs, SMT
    <2> QED BY <2>1, <2>2, <2>3, Zenon
  <1>5. CASE Still
    BY <1>1, <1>5, Zenon DEF Still
  <1>6. ASSUME NEW l \in Links, Enlist(l) \/ NextReceiver(l) \/ Diagnose(l) PROVE Goal
    BY <1>1, <1>6, EnlistIs, NextIs, DiagIs, Zenon DEF laneVars, rxVars
  <1> QED BY <1>3, <1>4, <1>5, <1>6, StepShape, Zenon

LEMMA CountStep ==
  TypeInv /\ LinksInv /\ CountInv /\ OrderInv /\ LaneInv /\ [Next]_vars => CountInv'
  BY CountLinks, CountLanes, Zenon DEF CountInv

-----------------------------------------------------------------------------
\* The ports.

LEMMA PortInit == Init => PortInv
  <1> SUFFICES ASSUME Init, NEW l \in Links PROVE LinkPorts(l)
    BY Zenon DEF PortInv
  <1>1. /\ lpc = [m \in Links |-> "idle"] /\ port = [p \in PortIds |-> setup.found[p[2]]]
    BY Zenon DEF Init
  <1>2. <<l, "dsp">> \in PortIds /\ <<l, "usp">> \in PortIds
    BY SMT DEF PortIds, Ports
  <1>3. lpc[l] = "idle"
    BY <1>1, Zenon
  <1>4. port[<<l, "dsp">>] = setup.found["dsp"] /\ port[<<l, "usp">>] = setup.found["usp"]
    BY <1>1, <1>2, SMT
  <1> QED BY <1>3, <1>4, SMT DEF LinkPorts

\* What the preparation and the restoration do to the bits of a port.
LEMMA PortBits ==
  ASSUME TypeInv, NEW l \in Links, NEW p \in Ports
  PROVE  /\ PrepCtl(l, p) =>
              /\ port'[<<l, p>>].hawd = TRUE /\ port'[<<l, p>>].aspm = FALSE
              /\ saved'[<<l, p>>].hawd = port[<<l, p>>].hawd
         /\ PrepCtl2(l, p) =>
              /\ port'[<<l, p>>].hasd = TRUE /\ port'[<<l, p>>].hawd = port[<<l, p>>].hawd
              /\ port'[<<l, p>>].aspm = port[<<l, p>>].aspm
              /\ saved'[<<l, p>>].hawd = saved[<<l, p>>].hawd
         /\ RestoreCtl(l, p) => port'[<<l, p>>].hawd = saved[<<l, p>>].hawd
         /\ RestoreCtl2(l, p) => port'[<<l, p>>].hawd = port[<<l, p>>].hawd
         /\ PrepCtl(l, p) \/ PrepCtl2(l, p) \/ RestoreCtl(l, p) \/ RestoreCtl2(l, p) =>
              \A q \in PortIds : q # <<l, p>> => port'[q] = port[q]
         /\ PrepCtl(l, p) \/ PrepCtl2(l, p) =>
              \A q \in PortIds : q # <<l, p>> => saved'[q] = saved[q]
  <1> DEFINE r == <<l, p>>
  <1>0. /\ r \in PortIds /\ port \in [PortIds -> PortType]
        /\ saved \in [PortIds -> [hawd : BOOLEAN, hasd : BOOLEAN]]
    BY SMT DEF PortIds, TypeInv, PortTypes
  <1> HIDE DEF r
  <1>1. ASSUME port' = [port EXCEPT ![r] = [@ EXCEPT !.hawd = TRUE, !.aspm = FALSE]],
               saved' = [saved EXCEPT ![r] = [@ EXCEPT !.hawd = port[r].hawd]]
        PROVE  /\ port'[r].hawd = TRUE /\ port'[r].aspm = FALSE /\ saved'[r].hawd = port[r].hawd
               /\ \A q \in PortIds : q # r => port'[q] = port[q] /\ saved'[q] = saved[q]
    BY <1>0, <1>1, SMT DEF PortType
  <1>2. ASSUME port' = [port EXCEPT ![r] = [@ EXCEPT !.hasd = TRUE]],
               saved' = [saved EXCEPT ![r] = [@ EXCEPT !.hasd = port[r].hasd]]
        PROVE  /\ port'[r].hasd = TRUE /\ port'[r].hawd = port[r].hawd
               /\ port'[r].aspm = port[r].aspm /\ saved'[r].hawd = saved[r].hawd
               /\ \A q \in PortIds : q # r => port'[q] = port[q] /\ saved'[q] = saved[q]
    BY <1>0, <1>2, SMT DEF PortType
  <1>3. ASSUME port' = [port EXCEPT ![r] = [@ EXCEPT !.hawd = saved[r].hawd]]
        PROVE  /\ port'[r].hawd = saved[r].hawd
               /\ \A q \in PortIds : q # r => port'[q] = port[q]
    BY <1>0, <1>3, SMT DEF PortType
  <1>4. ASSUME port' = [port EXCEPT ![r] = [@ EXCEPT !.hasd = saved[r].hawd]]
        PROVE  /\ port'[r].hawd = port[r].hawd
               /\ \A q \in PortIds : q # r => port'[q] = port[q]
    BY <1>0, <1>4, SMT DEF PortType
  <1>5. /\ PrepCtl(l, p) => /\ port' = [port EXCEPT ![r] = [@ EXCEPT !.hawd = TRUE, !.aspm = FALSE]]
                            /\ saved' = [saved EXCEPT ![r] = [@ EXCEPT !.hawd = port[r].hawd]]
        /\ PrepCtl2(l, p) => /\ port' = [port EXCEPT ![r] = [@ EXCEPT !.hasd = TRUE]]
                             /\ saved' = [saved EXCEPT ![r] = [@ EXCEPT !.hasd = port[r].hasd]]
        /\ RestoreCtl(l, p) => port' = [port EXCEPT ![r] = [@ EXCEPT !.hawd = saved[r].hawd]]
        /\ RestoreCtl2(l, p) => port' = [port EXCEPT ![r] = [@ EXCEPT !.hasd = saved[r].hawd]]
    BY Zenon DEF PrepCtl, PrepCtl2, RestoreCtl, RestoreCtl2, r
  <1>6. /\ PrepCtl(l, p) => /\ port'[r].hawd = TRUE /\ port'[r].aspm = FALSE
                            /\ saved'[r].hawd = port[r].hawd
                            /\ \A q \in PortIds : q # r => port'[q] = port[q] /\ saved'[q] = saved[q]
    BY <1>1, <1>5, Zenon
  <1>7. /\ PrepCtl2(l, p) => /\ port'[r].hasd = TRUE /\ port'[r].hawd = port[r].hawd
                             /\ port'[r].aspm = port[r].aspm /\ saved'[r].hawd = saved[r].hawd
                             /\ \A q \in PortIds : q # r => port'[q] = port[q] /\ saved'[q] = saved[q]
    BY <1>2, <1>5, Zenon
  <1>8. /\ RestoreCtl(l, p) => /\ port'[r].hawd = saved[r].hawd
                               /\ \A q \in PortIds : q # r => port'[q] = port[q]
        /\ RestoreCtl2(l, p) => /\ port'[r].hawd = port[r].hawd
                                /\ \A q \in PortIds : q # r => port'[q] = port[q]
    BY <1>3, <1>4, <1>5, Zenon
  <1> QED BY <1>6, <1>7, <1>8, Zenon DEF r

\* The moves of a link that leave the ports alone.
Passes(l) ==
  \/ lpc'[l] = lpc[l]
  \/ lpc[l] = "idle" /\ lpc'[l] = "prep"
  \/ lpc[l] = "enlist" /\ lpc'[l] = "next"
  \/ lpc[l] = "next" /\ lpc'[l] \in {"spawn", "restore"}
  \/ lpc[l] = "spawn" /\ lpc'[l] = "next"

LEMMA PortShape ==
  ASSUME TypeInv, LinksInv, OrderInv, LaneInv, [Next]_vars
  PROVE  /\ setup' = setup
         /\ \/ UNCHANGED portVars /\ \A l \in Links : Passes(l)
            \/ \E l \in Links : PrepLink(l) \/ RestoreLink(l)
  <1> DEFINE Quiet == setup' = setup /\ UNCHANGED portVars /\ \A l \in Links : Passes(l)
  <1>0. ASSUME lpc' = lpc PROVE \A l \in Links : Passes(l)
    BY <1>0, Zenon DEF Passes
  <1>1. ASSUME NEW l \in Links, NEW from, NEW to, Moves(l, from, to),
               \/ from = "idle" /\ to = "prep"
               \/ from = "enlist" /\ to = "next"
               \/ from = "next" /\ to \in {"spawn", "restore"}
               \/ from = "spawn" /\ to = "next"
        PROVE  \A m \in Links : Passes(m)
    BY <1>1, SMT DEF Passes, Moves
  <1>2. CASE SpawnLink
    <2>1. /\ next \in Links /\ setup' = setup /\ UNCHANGED portVars
          /\ lpc' = lpc \/ (lpc'[next] = "prep" /\ \A m \in Links : m # next => lpc'[m] = lpc[m])
      BY <1>2, SpawnLinkIs, Zenon
    <2>2. lpc[next] = "idle"
      BY <2>1, SMT DEF LinksInv, Links
    <2>3. lpc'[next] = "prep" /\ (\A m \in Links : m # next => lpc'[m] = lpc[m])
            => Moves(next, "idle", "prep")
      BY <2>2, Zenon DEF Moves
    <2> QED BY <1>0, <1>1, <2>1, <2>3, Zenon
  <1>3. CASE AllSpawned \/ RunEnd \/ \E n \in LaneIds : TakeResult(n)
    BY <1>0, <1>3, ResultIs, Zenon DEF linkVars
  <1>4. ASSUME NEW l \in Links, Enlist(l) PROVE Quiet
    BY <1>1, <1>4, EnlistIs, Zenon
  <1>5. ASSUME NEW l \in Links, NextReceiver(l) PROVE Quiet
    <2>1. /\ setup' = setup /\ UNCHANGED portVars
          /\ Moves(l, "next", "restore") \/ Moves(l, "next", "spawn")
      BY <1>5, NextIs, Zenon
    <2> QED BY <1>1, <2>1, Zenon
  <1>6. ASSUME NEW l \in Links, Diagnose(l) PROVE Quiet
    <2>1. setup' = setup /\ UNCHANGED portVars /\ Moves(l, "spawn", "next")
      BY <1>6, DiagIs, Zenon
    <2> QED BY <1>1, <2>1, Zenon
  <1>7. ASSUME NEW l \in Links, SpawnLane(l) PROVE Quiet
    BY <1>0, <1>7, SpawnIs, Zenon
  <1>8. ASSUME NEW n \in LaneIds, MarginLane(n) PROVE Quiet
    BY <1>0, <1>8, LaneMovesIs, Zenon DEF LaneMoves
  <1>9. CASE UNCHANGED vars
    BY <1>0, <1>9, Zenon DEF vars, linkVars
  <1>10. ASSUME NEW l \in Links, PrepLink(l) \/ RestoreLink(l) PROVE setup' = setup
    BY <1>10, PrepIs, RestoreIs, Zenon
  <1> HIDE DEF Quiet
  <1> QED
    BY <1>2, <1>3, <1>4, <1>5, <1>6, <1>7, <1>8, <1>9, <1>10, Zenon
    DEF Next, MarginLinks, MarginLink, Quiet

\* A step of the preparation or the restoration, of its link.
LEMMA LinkPortsPrep ==
  ASSUME TypeInv, NEW l \in Links, LinkPorts(l), PrepLink(l), setup' = setup
  PROVE  LinkPorts(l)'
  <1> DEFINE d == <<l, "dsp">>
             u == <<l, "usp">>
  <1>0. /\ d \in PortIds /\ u \in PortIds /\ d # u /\ "dsp" \in Ports /\ "usp" \in Ports
        /\ lpc \in [Links -> LinkPlaces]
    BY SMT DEF PortIds, Ports, TypeInv, LinkTypes
  <1>1. \/ lpc[l] = "prep" /\ PrepCtl(l, "dsp") /\ lpc' = [lpc EXCEPT ![l] = "prep2"]
        \/ lpc[l] = "prep2" /\ PrepCtl2(l, "dsp") /\ lpc' = [lpc EXCEPT ![l] = "prepUsp"]
        \/ lpc[l] = "prepUsp" /\ PrepCtl(l, "usp") /\ lpc' = [lpc EXCEPT ![l] = "prepUsp2"]
        \/ lpc[l] = "prepUsp2" /\ PrepCtl2(l, "usp") /\ lpc' = [lpc EXCEPT ![l] = "enlist"]
    BY Zenon DEF PrepLink, At, Goto
  <1>2. CASE lpc[l] = "prep" /\ PrepCtl(l, "dsp") /\ lpc' = [lpc EXCEPT ![l] = "prep2"]
    <2>1. /\ port'[d].hawd = TRUE /\ port'[d].aspm = FALSE /\ saved'[d].hawd = port[d].hawd
          /\ port'[u] = port[u] /\ saved'[u] = saved[u]
      BY <1>0, <1>2, PortBits, Zenon
    <2>2. lpc'[l] = "prep2"
      BY <1>0, <1>2, SMT
    <2> QED BY <1>2, <2>1, <2>2, SMT DEF LinkPorts
  <1>3. CASE lpc[l] = "prep2" /\ PrepCtl2(l, "dsp") /\ lpc' = [lpc EXCEPT ![l] = "prepUsp"]
    <2>1. /\ port'[d].hasd = TRUE /\ port'[d].hawd = port[d].hawd /\ port'[d].aspm = port[d].aspm
          /\ saved'[d].hawd = saved[d].hawd
          /\ port'[u] = port[u] /\ saved'[u] = saved[u]
      BY <1>0, <1>3, PortBits, Zenon
    <2>2. lpc'[l] = "prepUsp"
      BY <1>0, <1>3, SMT
    <2> QED BY <1>3, <2>1, <2>2, SMT DEF LinkPorts
  <1>4. CASE lpc[l] = "prepUsp" /\ PrepCtl(l, "usp") /\ lpc' = [lpc EXCEPT ![l] = "prepUsp2"]
    <2>1. /\ port'[u].hawd = TRUE /\ port'[u].aspm = FALSE /\ saved'[u].hawd = port[u].hawd
          /\ port'[d] = port[d] /\ saved'[d] = saved[d]
      BY <1>0, <1>4, PortBits, Zenon
    <2>2. lpc'[l] = "prepUsp2"
      BY <1>0, <1>4, SMT
    <2> QED BY <1>4, <2>1, <2>2, SMT DEF LinkPorts
  <1>5. CASE lpc[l] = "prepUsp2" /\ PrepCtl2(l, "usp") /\ lpc' = [lpc EXCEPT ![l] = "enlist"]
    <2>1. /\ port'[u].hasd = TRUE /\ port'[u].hawd = port[u].hawd /\ port'[u].aspm = port[u].aspm
          /\ saved'[u].hawd = saved[u].hawd
          /\ port'[d] = port[d] /\ saved'[d] = saved[d]
      BY <1>0, <1>5, PortBits, Zenon
    <2>2. lpc'[l] = "enlist"
      BY <1>0, <1>5, SMT
    <2> QED BY <1>5, <2>1, <2>2, SMT DEF LinkPorts
  <1> QED BY <1>1, <1>2, <1>3, <1>4, <1>5, Zenon

LEMMA LinkPortsRestore ==
  ASSUME TypeInv, NEW l \in Links, LinkPorts(l), RestoreLink(l), setup' = setup
  PROVE  LinkPorts(l)'
  <1> DEFINE d == <<l, "dsp">>
             u == <<l, "usp">>
  <1>0. /\ d \in PortIds /\ u \in PortIds /\ d # u /\ "dsp" \in Ports /\ "usp" \in Ports
        /\ lpc \in [Links -> LinkPlaces]
    BY SMT DEF PortIds, Ports, TypeInv, LinkTypes
  <1>1. /\ saved' = saved
        /\ \/ lpc[l] = "restore" /\ RestoreCtl(l, "dsp") /\ lpc' = [lpc EXCEPT ![l] = "restore2"]
           \/ /\ lpc[l] = "restore2" /\ RestoreCtl2(l, "dsp")
              /\ lpc' = [lpc EXCEPT ![l] = "restoreUsp"]
           \/ /\ lpc[l] = "restoreUsp" /\ RestoreCtl(l, "usp")
              /\ lpc' = [lpc EXCEPT ![l] = "restoreUsp2"]
           \/ lpc[l] = "restoreUsp2" /\ RestoreCtl2(l, "usp") /\ lpc' = [lpc EXCEPT ![l] = "done"]
    BY Zenon DEF RestoreLink, At, Goto
  <1>2. CASE lpc[l] = "restore" /\ RestoreCtl(l, "dsp") /\ lpc' = [lpc EXCEPT ![l] = "restore2"]
    <2>1. port'[d].hawd = saved[d].hawd /\ port'[u] = port[u]
      BY <1>0, <1>2, PortBits, Zenon
    <2>2. lpc'[l] = "restore2"
      BY <1>0, <1>2, SMT
    <2> QED BY <1>1, <1>2, <2>1, <2>2, SMT DEF LinkPorts
  <1>3. CASE /\ lpc[l] = "restore2" /\ RestoreCtl2(l, "dsp")
             /\ lpc' = [lpc EXCEPT ![l] = "restoreUsp"]
    <2>1. port'[d].hawd = port[d].hawd /\ port'[u] = port[u]
      BY <1>0, <1>3, PortBits, Zenon
    <2>2. lpc'[l] = "restoreUsp"
      BY <1>0, <1>3, SMT
    <2> QED BY <1>1, <1>3, <2>1, <2>2, SMT DEF LinkPorts
  <1>4. CASE /\ lpc[l] = "restoreUsp" /\ RestoreCtl(l, "usp")
             /\ lpc' = [lpc EXCEPT ![l] = "restoreUsp2"]
    <2>1. port'[u].hawd = saved[u].hawd /\ port'[d] = port[d]
      BY <1>0, <1>4, PortBits, Zenon
    <2>2. lpc'[l] = "restoreUsp2"
      BY <1>0, <1>4, SMT
    <2> QED BY <1>1, <1>4, <2>1, <2>2, SMT DEF LinkPorts
  <1>5. CASE lpc[l] = "restoreUsp2" /\ RestoreCtl2(l, "usp") /\ lpc' = [lpc EXCEPT ![l] = "done"]
    <2>1. port'[u].hawd = port[u].hawd /\ port'[d] = port[d]
      BY <1>0, <1>5, PortBits, Zenon
    <2>2. lpc'[l] = "done"
      BY <1>0, <1>5, SMT
    <2> QED BY <1>1, <1>5, <2>1, <2>2, SMT DEF LinkPorts
  <1> QED BY <1>1, <1>2, <1>3, <1>4, <1>5, Zenon

LEMMA PortInvStep ==
  TypeInv /\ LinksInv /\ OrderInv /\ LaneInv /\ PortInv /\ [Next]_vars => PortInv'
  <1> SUFFICES ASSUME TypeInv, LinksInv, OrderInv, LaneInv, PortInv, [Next]_vars PROVE PortInv'
    OBVIOUS
  <1>0. setup' = setup
    BY PortShape, Zenon
  <1>1. CASE UNCHANGED portVars /\ \A l \in Links : Passes(l)
    <2> SUFFICES ASSUME NEW l \in Links PROVE LinkPorts(l)'
      BY Zenon DEF PortInv
    <2>1. port' = port /\ saved' = saved /\ Passes(l) /\ LinkPorts(l)
      BY <1>1, Zenon DEF portVars, PortInv
    <2> QED BY <1>0, <2>1, SMT DEF LinkPorts, Passes
  <1>2. ASSUME NEW l \in Links, PrepLink(l) \/ RestoreLink(l) PROVE PortInv'
    <2> SUFFICES ASSUME NEW m \in Links PROVE LinkPorts(m)'
      BY Zenon DEF PortInv
    <2>1. LinkPorts(m)
      BY Zenon DEF PortInv
    <2>2. CASE m = l
      BY <1>0, <1>2, <2>1, <2>2, LinkPortsPrep, LinkPortsRestore, Zenon
    <2>3. CASE m # l
      <3>1. lpc'[m] = lpc[m]
        <4>1. lpc \in [Links -> LinkPlaces] /\ \E place : lpc' = [lpc EXCEPT ![l] = place]
          BY <1>2, Zenon DEF PrepLink, RestoreLink, Goto, TypeInv, LinkTypes
        <4> QED BY <2>3, <4>1, SMT
      <3>2. \A p, q \in Ports : <<m, p>> \in PortIds /\ <<m, p>> # <<l, q>>
        BY <2>3, SMT DEF PortIds
      <3>3. \A q \in PortIds : (\A p \in Ports : q # <<l, p>>)
              => port'[q] = port[q] /\ saved'[q] = saved[q]
        <4>1. PICK p \in Ports : \/ PrepCtl(l, p) \/ PrepCtl2(l, p)
                                 \/ (RestoreCtl(l, p) \/ RestoreCtl2(l, p)) /\ saved' = saved
          BY <1>2, Zenon DEF PrepLink, RestoreLink, Ports
        <4> QED BY <4>1, PortBits, Zenon
      <3>4. \A p \in Ports : port'[<<m, p>>] = port[<<m, p>>] /\ saved'[<<m, p>>] = saved[<<m, p>>]
        BY <3>2, <3>3, Zenon
      <3>5. /\ port'[<<m, "dsp">>] = port[<<m, "dsp">>] /\ saved'[<<m, "dsp">>] = saved[<<m, "dsp">>]
            /\ port'[<<m, "usp">>] = port[<<m, "usp">>] /\ saved'[<<m, "usp">>] = saved[<<m, "usp">>]
        BY <3>4, Zenon DEF Ports
      <3> QED BY <1>0, <2>1, <3>1, <3>5, SMT DEF LinkPorts
    <2> QED BY <2>2, <2>3
  <1> QED BY <1>1, <1>2, PortShape, Zenon

-----------------------------------------------------------------------------
\* Lanes in series.

LEMMA SeriesInit == Init => SeriesExclusive
  <1> SUFFICES ASSUME Init, NEW rx \in RxIds, NEW n \in LanesOf(rx) PROVE ~Active(n)
    BY Zenon DEF SeriesExclusive
  <1>1. n \in LaneIds /\ lane = [m \in LaneIds |-> "idle"]
    BY LanesOfFacts, Zenon DEF Init
  <1> QED BY <1>1, SMT DEF Active

LEMMA SeriesStep ==
  TypeInv /\ LinksInv /\ CountInv /\ OrderInv /\ LaneInv /\ SeriesExclusive /\ [Next]_vars
    => SeriesExclusive'
  <1> SUFFICES ASSUME TypeInv, LinksInv, CountInv, OrderInv, LaneInv, SeriesExclusive, [Next]_vars,
                      NEW rx \in RxIds, ~parallel'[rx],
                      NEW n \in LanesOf(rx), NEW m \in LanesOf(rx), Active(n)', Active(m)'
               PROVE  n = m
    BY Zenon DEF SeriesExclusive
  <1>0. /\ n \in LaneIds /\ m \in LaneIds /\ RxOf(n) = rx /\ RxOf(m) = rx
        /\ n[1] = rx[1] /\ m[1] = rx[1] /\ n[2] = rx[2] /\ m[2] = rx[2] /\ rx[1] \in Links
        /\ lane'[n] \notin {"idle", "ended"} /\ lane'[m] \notin {"idle", "ended"}
    <2>1. n \in LaneIds /\ m \in LaneIds /\ RxOf(n) = rx /\ RxOf(m) = rx
      BY LanesOfFacts, Zenon
    <2> QED BY <2>1, LaneFacts, RxFacts, Zenon DEF Active
  <1>1. ASSUME parallel'[rx] = parallel[rx], Active(n), Active(m) PROVE n = m
    BY <1>1, Zenon DEF SeriesExclusive
  <1>2. CASE UNCHANGED <<parallel, lane>>
    BY <1>0, <1>1, <1>2, SMT DEF Active
  <1>3. ASSUME NEW l \in Links, Enlist(l) PROVE n = m
    <2>1. /\ lane' = lane /\ lpc[l] = "enlist"
          /\ \A r \in RxIds : r[1] # l => parallel'[r] = parallel[r]
      BY <1>3, EnlistIs, Zenon DEF Moves
    <2>2. Active(n) /\ Active(m)
      BY <1>0, <2>1, Zenon DEF Active
    <2>3. rx[1] # l
      <3>1. lpc[rx[1]] = "spawn"
        BY <1>0, <2>2, Zenon DEF LaneInv, At
      <3> QED BY <2>1, <3>1, SMT
    <2> QED BY <1>1, <2>1, <2>2, <2>3, Zenon
  <1>4. ASSUME NEW l \in Links, SpawnLane(l) PROVE n = m
    <2>0. parallel' = parallel
      BY <1>4, SpawnIs, Zenon
    <2>1. CASE lane' = lane
      BY <1>2, <2>0, <2>1, Zenon
    <2>2. ASSUME NEW k \in LaneIds, k[1] = l, RxOf(k) = <<l, rec[l]>>, MayStart(l),
                 lane' = [lane EXCEPT ![k] = "reading"]
          PROVE  n = m
      <3>1. \A i \in LaneIds : i # k => lane'[i] = lane[i]
        BY <2>2, SMT DEF TypeInv, LaneTypes
      <3>2. CASE n # k /\ m # k
        <4>1. Active(n) /\ Active(m)
          BY <1>0, <3>1, <3>2, Zenon DEF Active
        <4> QED BY <1>1, <2>0, <4>1, Zenon
      <3>3. CASE n = k \/ m = k
        <4>1. rx = <<l, rec[l]>> /\ rx[1] = l
          BY <1>0, <2>2, <3>3, Zenon
        <4>2. lwg[l] = 0
          BY <2>0, <2>2, <4>1, Zenon DEF MayStart
        <4>3. ~Active(n) /\ ~Active(m)
          BY <1>0, <4>1, <4>2, NoneActive, Zenon
        <4>4. n = k /\ m = k
          BY <1>0, <3>1, <4>3, Zenon DEF Active
        <4> QED BY <4>4
      <3> QED BY <3>2, <3>3, Zenon
    <2>3. \/ lane' = lane
          \/ \E k \in LaneIds : /\ k[1] = l /\ RxOf(k) = <<l, rec[l]>> /\ MayStart(l)
                               /\ lane' = [lane EXCEPT ![k] = "reading"]
      BY <1>4, SpawnIs, SMT
    <2> QED BY <2>1, <2>2, <2>3, Zenon
  <1>5. ASSUME NEW k \in LaneIds, LaneMoves(k) PROVE n = m
    <2>1. /\ parallel' = parallel /\ lane[k] \notin {"idle", "ended"}
          /\ \A i \in LaneIds : i # k => \/ lane'[i] = lane[i]
                                         \/ lane[i] = "waiting" /\ lane'[i] = "woken"
      BY <1>5, Zenon DEF LaneMoves
    <2>2. Active(n) /\ Active(m)
      BY <1>0, <2>1, SMT DEF Active
    <2> QED BY <1>1, <2>1, <2>2, Zenon
  <1>6. ASSUME NEW l \in Links, NextReceiver(l) \/ Diagnose(l) PROVE n = m
    BY <1>2, <1>6, NextIs, DiagIs, Zenon DEF laneVars, rxVars
  <1> QED BY <1>2, <1>3, <1>4, <1>5, <1>6, StepShape, Zenon DEF Still

-----------------------------------------------------------------------------
\* The lanes' verdicts and the run's.

\* A lane under test has not been diagnosed; one that has is not under test.
LEMMA NotYet ==
  ASSUME OrderInv, LaneInv, NEW n \in LaneIds
  PROVE  /\ Active(n) => diag[RxOf(n)] = "none"
         /\ lpc[n[1]] \in Before => diag[RxOf(n)] = "none" /\ lane[n] = "idle"
  <1>0. /\ n[1] \in Links /\ RxOf(n) \in RxIds /\ RxOf(n)[1] = n[1] /\ RxOf(n)[2] = n[2]
        /\ n[2] \in Nat /\ n[2] >= 1
    BY LaneFacts, Zenon
  <1>1. Active(n) => diag[RxOf(n)] = "none"
    BY <1>0, Zenon DEF LaneInv, OrderInv
  <1>2. ASSUME lpc[n[1]] \in Before PROVE diag[RxOf(n)] = "none" /\ lane[n] = "idle"
    <2>1. rec[n[1]] = 0 /\ lpc[n[1]] # "spawn"
      <3>1. lpc[n[1]] # "spawn"
        BY <1>2, SMT DEF Before
      <3> QED BY <1>0, <1>2, <3>1, Zenon DEF OrderInv
    <2>2. ~(n[2] <= 0)
      BY <1>0, SMT
    <2>3. diag[RxOf(n)] = "none"
      BY <1>0, <2>1, <2>2, Zenon DEF OrderInv
    <2> QED BY <2>1, <2>3, Zenon DEF LaneInv, At
  <1> QED BY <1>1, <1>2, Zenon

LEMMA GatherInit == Init => GatherInv
  <1> SUFFICES ASSUME Init PROVE GatherInv
    OBVIOUS
  <1>1. /\ mpc = "spawn" /\ result = "NOT_APPLICABLE" /\ taken = {} /\ gathered = {}
        /\ pass = [n \in LaneIds |-> TRUE] /\ mature = [n \in LaneIds |-> FALSE]
    BY Zenon DEF Init
  <1>2. \A n \in LaneIds : pass[n] = TRUE /\ mature[n] = FALSE /\ n \notin gathered
    BY <1>1, Zenon
  <1>3. \A n \in LaneIds : Gathers(n)
    BY <1>2, Zenon DEF Gathers
  <1> QED BY <1>1, <1>3, SMT DEF GatherInv

LEMMA GathersStep ==
  ASSUME TypeInv, LinksInv, OrderInv, LaneInv, GatherInv, [Next]_vars, NEW n \in LaneIds
  PROVE  Gathers(n)' /\ (n \in gathered => n \in gathered' /\ pass'[n] = pass[n])
  <1> DEFINE Goal == Gathers(n)' /\ (n \in gathered => n \in gathered' /\ pass'[n] = pass[n])
  <1>0. /\ n[1] \in Links /\ RxOf(n) \in RxIds /\ RxOf(n)[1] = n[1] /\ RxOf(n)[2] = n[2]
        /\ Gathers(n)
    BY LaneFacts, Zenon DEF GatherInv
  <1>1. CASE UNCHANGED <<gathered, diag, specced, lane, pass, mature>>
    BY <1>0, <1>1, SMT DEF Gathers
  <1>2. ASSUME NEW l \in Links, Enlist(l) PROVE Goal
    <2>1. /\ UNCHANGED <<gathered, diag, lane, pass, mature>> /\ lpc[l] = "enlist"
          /\ \A i \in LaneIds : i[1] # l => specced'[i] = specced[i]
      BY <1>2, EnlistIs, Zenon DEF Moves
    <2>2. CASE n[1] # l
      BY <1>0, <2>1, <2>2, SMT DEF Gathers
    <2>3. CASE n[1] = l
      <3>1. diag[RxOf(n)] = "none" /\ lane[n] = "idle"
        BY <2>1, <2>3, NotYet, SMT DEF Before
      <3> QED BY <1>0, <2>1, <3>1, SMT DEF Gathers
    <2> QED BY <2>2, <2>3, Zenon
  <1>3. ASSUME NEW l \in Links, SpawnLane(l) PROVE Goal
    <2>1. /\ UNCHANGED <<gathered, diag, specced, pass, mature>>
          /\ lane'[n] = lane[n] \/ lane[n] = "idle"
      <3>1. \/ lane' = lane
            \/ \E k \in LaneIds : lane[k] = "idle" /\ lane' = [lane EXCEPT ![k] = "reading"]
        BY <1>3, SpawnIs, SMT
      <3>2. lane \in [LaneIds -> LanePlaces]
        BY Zenon DEF TypeInv, LaneTypes
      <3>3. lane'[n] = lane[n] \/ lane[n] = "idle"
        BY <3>1, <3>2, SMT
      <3> QED BY <1>3, <3>3, SpawnIs, Zenon
    <2> QED BY <1>0, <2>1, SMT DEF Gathers
  <1>4. ASSUME NEW k \in LaneIds, LaneMoves(k), Steady PROVE Goal
    <2>1. gathered' = gathered /\ diag' = diag
      BY <1>4, Zenon DEF LaneMoves, Steady
    <2>2. /\ lane[k] \notin {"idle", "ended"}
          /\ n # k => \/ lane'[n] = lane[n]
                      \/ lane[n] = "waiting" /\ lane'[n] = "woken"
      BY <1>4, Zenon DEF LaneMoves
    <2>3. CASE UNCHANGED <<specced, pass, mature>> /\ (lane[k] = "returning" => lane'[k] = "ended")
      BY <1>0, <2>1, <2>2, <2>3, SMT DEF Gathers
    <2>4. ASSUME lane[k] = "margining", lane'[k] = "returning",
                 specced' \in {specced, [specced EXCEPT ![k] = specced[k] \ {"voltage"}]},
                 NEW ok \in BOOLEAN, NEW toTheEnd \in BOOLEAN, specced'[k] = {} => ok /\ toTheEnd,
                 pass' = [pass EXCEPT ![k] = ok], mature' = [mature EXCEPT ![k] = toTheEnd]
          PROVE  Goal
      <3>0. /\ specced \in [LaneIds -> SUBSET Aspects]
            /\ pass \in [LaneIds -> BOOLEAN] /\ mature \in [LaneIds -> BOOLEAN]
        BY Zenon DEF TypeInv, LaneTypes
      <3>1. CASE n # k
        <4>1. specced'[n] = specced[n] /\ pass'[n] = pass[n] /\ mature'[n] = mature[n]
          BY <2>4, <3>0, <3>1, SMT
        <4> QED BY <1>0, <2>1, <2>2, <3>1, <4>1, SMT DEF Gathers
      <3>2. CASE n = k
        <4>1. diag[RxOf(n)] = "none"
          BY <2>2, <3>2, NotYet, Zenon DEF Active
        <4>2. n \notin gathered
          BY <1>0, <4>1, Zenon DEF Gathers
        <4>3. pass'[n] = ok
          BY <2>4, <3>0, <3>2, SMT
        <4>4. ~pass'[n] => specced'[n] # {}
          BY <2>4, <3>2, <4>3, Zenon
        <4>5. lane'[n] \in {"returning", "ended"}
          BY <2>4, <3>2, Zenon
        <4> QED BY <2>1, <4>1, <4>2, <4>4, <4>5, Zenon DEF Gathers
      <3> QED BY <3>1, <3>2, Zenon
    <2>5. \/ UNCHANGED <<specced, pass, mature>> /\ (lane[k] = "returning" => lane'[k] = "ended")
          \/ /\ lane[k] = "margining" /\ lane'[k] = "returning"
             /\ specced' \in {specced, [specced EXCEPT ![k] = specced[k] \ {"voltage"}]}
             /\ \E ok, toTheEnd \in BOOLEAN :
                  /\ specced'[k] = {} => ok /\ toTheEnd
                  /\ pass' = [pass EXCEPT ![k] = ok] /\ mature' = [mature EXCEPT ![k] = toTheEnd]
      BY <1>4, Zenon DEF LaneMoves
    <2> HIDE DEF Goal
    <2> QED BY <2>3, <2>4, <2>5, Zenon
  <1>5. ASSUME NEW l \in Links, NextReceiver(l) PROVE Goal
    BY <1>1, <1>5, NextIs, Zenon DEF laneVars, rxVars
  <1>6. ASSUME NEW l \in Links, Diagnose(l) PROVE Goal
    <2>1. UNCHANGED <<specced, lane, pass, mature>>
      BY <1>6, DiagIs, Zenon DEF laneVars
    <2>2. PICK rx \in RxIds :
            /\ rx = <<l, rec[l]>> /\ diag'[rx] \in {"PASS", "FAIL"}
            /\ \A r \in RxIds : r # rx => diag'[r] = diag[r]
            /\ gathered' = gathered \cup {i \in LanesOf(rx) : specced[i] # {} /\ mature[i]}
      BY <1>6, DiagIs, SMT
    <2>3. n \in LanesOf(rx) <=> RxOf(n) = rx
      BY LanesOfFacts, Zenon
    <2>4. CASE RxOf(n) = rx
      <3>1. diag'[RxOf(n)] # "none"
        BY <2>2, <2>4, SMT
      <3>2. n \in gathered' <=> specced[n] # {} /\ mature[n]
        BY <1>0, <2>2, <2>3, <2>4, Zenon DEF Gathers
      <3>3. n \in gathered => n \in gathered'
        BY <2>2, Zenon
      <3> QED BY <1>0, <2>1, <3>1, <3>2, <3>3, SMT DEF Gathers
    <2>5. CASE RxOf(n) # rx
      <3>1. diag'[RxOf(n)] = diag[RxOf(n)] /\ (n \in gathered' <=> n \in gathered)
        BY <1>0, <2>2, <2>3, <2>5, Zenon
      <3> QED BY <1>0, <2>1, <3>1, SMT DEF Gathers
    <2> QED BY <2>4, <2>5, Zenon
  <1>7. CASE Steady /\ Still
    BY <1>1, <1>7, Zenon DEF Steady, Still
  <1> HIDE DEF Goal
  <1> QED BY <1>2, <1>3, <1>4, <1>5, <1>6, <1>7, StepShape, Zenon DEF Goal

\* Passing is unchanged where results have been taken, so the verdict is.
LEMMA VerdictStep ==
  TypeInv /\ LinksInv /\ OrderInv /\ LaneInv /\ GatherInv /\ [Next]_vars =>
    /\ taken' \subseteq gathered'
    /\ result' = IF \E n \in taken' : ~pass'[n] THEN "FAIL"
                 ELSE IF taken' # {} THEN "PASS" ELSE "NOT_APPLICABLE"
  <1> SUFFICES ASSUME TypeInv, LinksInv, OrderInv, LaneInv, GatherInv, [Next]_vars
               PROVE  /\ taken' \subseteq gathered'
                      /\ result' = IF \E n \in taken' : ~pass'[n] THEN "FAIL"
                                   ELSE IF taken' # {} THEN "PASS" ELSE "NOT_APPLICABLE"
    OBVIOUS
  <1>0. /\ taken \subseteq gathered /\ gathered \subseteq LaneIds
        /\ result = IF \E n \in taken : ~pass[n] THEN "FAIL"
                    ELSE IF taken # {} THEN "PASS" ELSE "NOT_APPLICABLE"
    BY Zenon DEF GatherInv, TypeInv, LinkTypes
  <1>1. \A n \in gathered : n \in gathered' /\ pass'[n] = pass[n]
    BY <1>0, GathersStep, Zenon
  <1>2. CASE UNCHANGED <<result, taken>>
    <2>1. (\E n \in taken' : ~pass'[n]) <=> (\E n \in taken : ~pass[n])
      BY <1>0, <1>1, <1>2, Zenon
    <2> QED BY <1>0, <1>1, <1>2, <2>1, SMT
  <1>3. ASSUME NEW k \in LaneIds, TakeResult(k)
        PROVE  /\ taken' \subseteq gathered'
               /\ result' = IF \E n \in taken' : ~pass'[n] THEN "FAIL"
                            ELSE IF taken' # {} THEN "PASS" ELSE "NOT_APPLICABLE"
    <2>1. /\ k \in gathered /\ taken' = taken \cup {k}
          /\ result' = IF pass[k] /\ result # "FAIL" THEN "PASS" ELSE "FAIL"
      BY <1>3, Zenon DEF TakeResult, ResultWith
    <2>2. taken' # {} /\ taken' \subseteq gathered'
      BY <1>0, <1>1, <2>1, Zenon
    <2>3. (\E n \in taken' : ~pass'[n]) <=> ~pass[k] \/ \E n \in taken : ~pass[n]
      BY <1>0, <1>1, <2>1, Zenon
    <2>4. result = "FAIL" <=> \E n \in taken : ~pass[n]
      BY <1>0, SMT
    <2> QED BY <2>1, <2>2, <2>3, <2>4, SMT
  <1>4. CASE AllSpawned \/ RunEnd
    BY <1>2, <1>4, Zenon DEF AllSpawned, RunEnd
  <1>5. CASE SpawnLink
    BY <1>2, <1>5, SpawnLinkIs, Zenon
  <1>6. CASE UNCHANGED mainVars
    BY <1>2, <1>6, Zenon DEF mainVars
  <1> QED BY <1>2, <1>3, <1>4, <1>5, <1>6, RunShape, Zenon

LEMMA GatherStep ==
  TypeInv /\ LinksInv /\ OrderInv /\ LaneInv /\ GatherInv /\ [Next]_vars => GatherInv'
  <1> SUFFICES ASSUME TypeInv, LinksInv, OrderInv, LaneInv, GatherInv, [Next]_vars PROVE GatherInv'
    OBVIOUS
  <1>1. mpc' = "done" => taken' = gathered'
    <2>1. CASE SpawnLink
      <3>1. mpc' = "spawn"
        BY <2>1, SpawnLinkIs, Zenon
      <3> QED BY <3>1, SMT
    <2>2. CASE AllSpawned
      <3>1. mpc' = "join"
        BY <2>2, Zenon DEF AllSpawned
      <3> QED BY <3>1, SMT
    <2>3. CASE RunEnd
      BY <2>3, Zenon DEF RunEnd, linkVars
    <2>4. ASSUME NEW n \in LaneIds, TakeResult(n) PROVE mpc' # "done"
      <3>1. mpc' = "join"
        BY <2>4, Zenon DEF TakeResult
      <3> QED BY <3>1, SMT
    <2>5. CASE UNCHANGED <<mpc, taken>>
      <3> SUFFICES ASSUME mpc = "done" PROVE gathered' = gathered
        BY <2>5, Zenon DEF GatherInv
      <3>1. \A l \in Links : lpc[l] # "spawn"
        <4>1. Running = {}
          BY Zenon DEF LinksInv
        <4> QED BY <4>1, SMT DEF Running
      <3>2. ASSUME NEW l \in Links PROVE ~Diagnose(l)
        BY <3>1, Zenon DEF Diagnose, At
      <3>3. ASSUME NEW l \in Links, Enlist(l) \/ SpawnLane(l) \/ NextReceiver(l)
            PROVE  gathered' = gathered
        BY <3>3, EnlistIs, SpawnIs, NextIs, Zenon
      <3> QED BY <3>2, <3>3, StepShape, Zenon DEF Still, LaneMoves
    <2>6. CASE UNCHANGED mainVars
      BY <2>5, <2>6, Zenon DEF mainVars
    <2> QED BY <2>1, <2>2, <2>3, <2>4, <2>5, <2>6, RunShape, Zenon
  <1> QED BY <1>1, VerdictStep, GathersStep, Zenon DEF GatherInv

-----------------------------------------------------------------------------
\* The diagnoses.

LEMMA DiagInit == Init => DiagInv
  <1> SUFFICES ASSUME Init PROVE DiagInv
    OBVIOUS
  <1>1. /\ lpc = [l \in Links |-> "idle"] /\ diag = [r \in RxIds |-> "none"]
        /\ ready = [r \in RxIds |-> FALSE]
    BY Zenon DEF Init
  <1>2. \A r \in RxIds : diag[r] = "none" /\ ~ready[r]
    BY <1>1, Zenon
  <1>3. \A r \in RxIds : Diagnoses(r)
    BY <1>2, SMT DEF Diagnoses
  <1>4. \A l \in Links : lpc[l] # "spawn"
    BY <1>1, SMT
  <1> QED BY <1>3, <1>4, Zenon DEF DiagInv, At

LEMMA DiagStep ==
  TypeInv /\ LinksInv /\ OrderInv /\ LaneInv /\ GatherInv /\ DiagInv /\ [Next]_vars => DiagInv'
  <1> SUFFICES ASSUME TypeInv, LinksInv, OrderInv, LaneInv, GatherInv, DiagInv, [Next]_vars
               PROVE  DiagInv'
    OBVIOUS
  \* The receiver under test is a ready one.
  <1>1. ASSUME NEW m \in Links, lpc'[m] = "spawn" PROVE ready'[<<m, rec'[m]>>]
    <2>1. ASSUME Steady, \/ ready' = ready
                         \/ /\ lpc[m] = "spawn"
                            /\ \A r \in RxIds : r[1] = m => ready'[r] = ready[r]
          PROVE  ready'[<<m, rec'[m]>>]
      <3>1. lpc[m] = "spawn" /\ rec'[m] = rec[m]
        BY <1>1, <2>1, Zenon DEF Steady
      <3>2. rec[m] \in Present /\ ready[<<m, rec[m]>>]
        BY <3>1, Zenon DEF OrderInv, DiagInv, At
      <3>3. <<m, rec[m]>> \in RxIds /\ <<m, rec[m]>>[1] = m
        BY <3>2, SMT DEF RxIds
      <3> QED BY <2>1, <3>1, <3>2, <3>3, Zenon
    <2>2. ASSUME Steady, NEW l \in Links, Enlist(l) PROVE ready'[<<m, rec'[m]>>]
      <3>1. lpc[l] = "enlist" /\ \A r \in RxIds : r[1] # l => ready'[r] = ready[r]
        BY <2>2, EnlistIs, Zenon DEF Moves
      <3>2. lpc[m] = "spawn" /\ m # l
        <4>1. lpc[m] = "spawn"
          BY <1>1, <2>2, Zenon DEF Steady
        <4> QED BY <3>1, <4>1, SMT
      <3> QED BY <2>1, <2>2, <3>1, <3>2, Zenon
    <2>3. ASSUME NEW l \in Links, NextReceiver(l) PROVE ready'[<<m, rec'[m]>>]
      <3>1. /\ ready' = ready
            /\ \/ lpc'[l] = "restore"
               \/ ready[<<l, rec'[l]>>]
        BY <2>3, NextIs, Zenon DEF rxVars, Moves
      <3>2. CASE m = l
        BY <1>1, <3>1, <3>2, SMT
      <3>3. CASE m # l
        <4>1. lpc'[m] = lpc[m] /\ rec'[m] = rec[m]
          BY <2>3, <3>3, NextIs, Zenon DEF Moves
        <4> QED BY <1>1, <3>1, <4>1, Zenon DEF DiagInv, At
      <3> QED BY <3>2, <3>3, Zenon
    <2>4. ASSUME NEW l \in Links, Diagnose(l) PROVE ready'[<<m, rec'[m]>>]
      <3>1. ready' = ready /\ rec' = rec /\ Moves(l, "spawn", "next")
        BY <2>4, DiagIs, Zenon
      <3>2. lpc[m] = "spawn"
        BY <1>1, <3>1, Zenon DEF Moves
      <3> QED BY <3>1, <3>2, Zenon DEF DiagInv, At
    <2>5. ASSUME NEW l \in Links, SpawnLane(l) PROVE ready' = ready
      BY <2>5, SpawnIs, Zenon
    <2> QED BY <2>1, <2>2, <2>3, <2>4, <2>5, StepShape, Zenon DEF Still, LaneMoves
  <1>2. ASSUME NEW rx \in RxIds PROVE Diagnoses(rx)'
    <2>0. /\ rx[1] \in Links /\ rx[2] \in Present /\ rx = <<rx[1], rx[2]>> /\ rx[2] \in Nat
          /\ rx[2] >= 1 /\ Diagnoses(rx)
      BY RxFacts, Zenon DEF DiagInv
    <2>1. ASSUME NEW n \in LanesOf(rx), diag[rx] # "none" PROVE pass'[n] = pass[n]
      <3>1. n \in LaneIds /\ RxOf(n) = rx
        BY LanesOfFacts, Zenon
      <3>2. ~Active(n)
        BY <2>1, <3>1, NotYet, Zenon
      <3>3. CASE \E l \in Links : Enlist(l) \/ SpawnLane(l) \/ NextReceiver(l) \/ Diagnose(l)
        BY <3>3, EnlistIs, SpawnIs, NextIs, DiagIs, Zenon DEF laneVars
      <3>4. ASSUME NEW k \in LaneIds, LaneMoves(k) PROVE pass'[n] = pass[n]
        <4>1. k # n
          BY <3>2, <3>4, Zenon DEF LaneMoves, Active
        <4>2. pass' = pass \/ \E ok \in BOOLEAN : pass' = [pass EXCEPT ![k] = ok]
          BY <3>4, Zenon DEF LaneMoves
        <4>3. pass \in [LaneIds -> BOOLEAN]
          BY Zenon DEF TypeInv, LaneTypes
        <4> QED BY <3>1, <4>1, <4>2, <4>3, SMT
      <3> QED BY <3>3, <3>4, StepShape, Zenon DEF Still
    \* The receiver's link goes on, with nothing new about the receiver.
    <2>2. ASSUME lpc'[rx[1]] \in Before => lpc[rx[1]] \in Before,
                 lpc[rx[1]] = "next" => lpc'[rx[1]] = "next",
                 lpc[rx[1]] = "spawn" => lpc'[rx[1]] = "spawn",
                 rec'[rx[1]] = rec[rx[1]], diag'[rx] = diag[rx], ready'[rx] = ready[rx],
                 linkcheck'[rx[1]] = linkcheck[rx[1]]
          PROVE  Diagnoses(rx)'
      BY <2>0, <2>1, <2>2, SMT DEF Diagnoses, At
    <2>3. CASE Steady /\ UNCHANGED <<ready, linkcheck>>
      BY <2>0, <2>2, <2>3, Zenon DEF Steady
    <2>4. ASSUME Steady, NEW l \in Links, Enlist(l) PROVE Diagnoses(rx)'
      <3>1. /\ lpc[l] = "enlist" /\ lpc'[l] = "next"
            /\ UNCHANGED <<rec, linkcheck, diag>>
            /\ \A r \in RxIds : r[1] # l => ready'[r] = ready[r]
        BY <2>4, EnlistIs, Zenon DEF Moves
      <3>2. CASE rx[1] # l
        BY <2>0, <2>2, <2>4, <3>1, <3>2, Zenon DEF Steady
      <3>3. CASE rx[1] = l
        <4>1. rec[l] = 0 /\ "next" \notin Before
          BY <3>1, SMT DEF OrderInv, Before
        <4>2. diag[rx] = "none"
          <5>1. ~(rx[2] <= 0)
            BY <2>0, SMT
          <5> QED BY <3>3, <4>1, <5>1, Zenon DEF OrderInv
        <4>3. 0 < rx[2]
          BY <2>0, SMT
        <4> QED BY <3>1, <3>3, <4>1, <4>2, <4>3, SMT DEF Diagnoses, At
      <3> QED BY <3>2, <3>3, Zenon
    <2>5. ASSUME NEW l \in Links, NextReceiver(l) PROVE Diagnoses(rx)'
      <3>1. UNCHANGED <<linkcheck, diag, ready>>
        BY <2>5, NextIs, Zenon DEF rxVars
      <3>2. CASE rx[1] # l
        <4>1. lpc'[rx[1]] = lpc[rx[1]] /\ rec'[rx[1]] = rec[rx[1]]
          <5>1. /\ \E to : Moves(l, "next", to)
                /\ \A m \in Links : m # l => rec'[m] = rec[m]
            BY <2>5, NextIs, Zenon
          <5> QED BY <2>0, <3>2, <5>1, Zenon DEF Moves
        <4> QED BY <2>2, <3>1, <4>1, Zenon
      <3>3. CASE rx[1] = l
        <4>1. \/ /\ lpc'[l] = "restore"
                 /\ ~linkcheck[l] \/ \A r \in Present : r > rec[l] => ~ready[<<l, r>>]
              \/ /\ lpc'[l] = "spawn"
                 /\ \A r \in Present : r > rec[l] /\ ready[<<l, r>>] => rec'[l] <= r
          BY <2>5, NextIs, Zenon DEF Moves
        <4>2. lpc[l] = "next"
          BY <2>5, NextIs, Zenon DEF Moves
        <4>3. "restore" \notin Before /\ "spawn" \notin Before /\ "next" # "spawn"
          BY SMT DEF Before
        <4>4. rec[l] \in Int
          BY SMT DEF TypeInv, LinkTypes
        <4>5. /\ rec[l] < rx[2] => rx[2] > rec[l]
          BY <2>0, <4>4, SMT
        <4>6. ready[rx] /\ diag[rx] = "none" => rec[l] < rx[2] \/ ~linkcheck[l]
          BY <2>0, <3>3, <4>2, <4>3, Zenon DEF Diagnoses, At
        <4>7. ready[rx] /\ diag[rx] = "none" =>
                (lpc'[l] = "spawn" /\ rec'[l] <= rx[2]) \/ ~linkcheck[l]
          BY <2>0, <3>3, <4>1, <4>5, <4>6, Zenon
        <4>8. lpc'[l] \notin Before
          BY <4>1, <4>3, Zenon
        <4> QED BY <2>0, <2>1, <3>1, <3>3, <4>7, <4>8, SMT DEF Diagnoses, At
      <3> QED BY <3>2, <3>3, Zenon
    <2>6. ASSUME NEW l \in Links, Diagnose(l) PROVE Diagnoses(rx)'
      <3>1. /\ UNCHANGED <<rec, ready, pass>> /\ lpc[l] = "spawn" /\ lpc'[l] = "next"
            /\ \A m \in Links : m # l => lpc'[m] = lpc[m] /\ linkcheck'[m] = linkcheck[m]
            /\ ~linkcheck[l] => ~linkcheck'[l]
        <4>1. /\ UNCHANGED <<rec, ready, pass>> /\ Moves(l, "spawn", "next")
              /\ \A m \in Links : m # l => linkcheck'[m] = linkcheck[m]
              /\ ~linkcheck[l] => ~linkcheck'[l]
          BY <2>6, DiagIs, Zenon DEF laneVars
        <4> QED BY <4>1, Zenon DEF Moves
      <3>2. PICK r \in RxIds :
              /\ r = <<l, rec[l]>> /\ r[1] = l /\ r[2] = rec[l] /\ diag'[r] \in {"PASS", "FAIL"}
              /\ diag'[r] = "PASS" <=> linkcheck'[l] /\ \A n \in LanesOf(r) : pass[n]
              /\ \A s \in RxIds : s # r => diag'[s] = diag[s]
        BY <2>6, DiagIs, SMT
      <3>3. "next" \notin Before /\ "next" # "spawn"
        BY SMT DEF Before
      <3>4. CASE rx = r
        <4>1. ready'[rx]
          BY <3>1, <3>2, <3>4, Zenon DEF DiagInv, At
        <4>2. lpc'[rx[1]] \notin Before /\ diag'[rx] # "none"
          BY <3>1, <3>2, <3>3, <3>4, SMT
        <4>3. diag'[rx] = "PASS" => \A n \in LanesOf(rx) : pass'[n]
          BY <3>1, <3>2, <3>4, Zenon
        <4>4. diag'[rx] = "FAIL" => ~linkcheck'[rx[1]] \/ \E n \in LanesOf(rx) : ~pass'[n]
          BY <3>1, <3>2, <3>4, SMT
        <4> QED BY <4>1, <4>2, <4>3, <4>4, Zenon DEF Diagnoses
      <3>5. CASE rx # r /\ rx[1] = l
        <4>1. rx[2] # rec[l] /\ rec[l] \in Int /\ diag'[rx] = diag[rx]
          <5>1. rx[2] # rec[l]
            BY <2>0, <3>2, <3>5, Zenon
          <5>2. rec[l] \in Int
            BY SMT DEF TypeInv, LinkTypes
          <5> QED BY <3>2, <3>5, <5>1, <5>2, Zenon
        <4>2. rec[l] <= rx[2] => rec[l] < rx[2]
          BY <2>0, <4>1, SMT
        <4>3. lpc'[rx[1]] = "next" /\ lpc'[rx[1]] \notin Before
          BY <3>1, <3>3, <3>5, Zenon
        <4>4. ready[rx] /\ diag[rx] = "none" => rec[l] < rx[2] \/ ~linkcheck[l]
          BY <2>0, <3>1, <3>3, <3>5, <4>2, Zenon DEF Diagnoses, At
        <4> QED BY <2>0, <3>1, <3>5, <4>1, <4>3, <4>4, SMT DEF Diagnoses, At
      <3>6. CASE rx[1] # l
        <4>1. diag'[rx] = diag[rx]
          BY <3>2, <3>6, Zenon
        <4>2. lpc'[rx[1]] = lpc[rx[1]] /\ linkcheck'[rx[1]] = linkcheck[rx[1]]
          BY <2>0, <3>1, <3>6, Zenon
        <4>3. rec'[rx[1]] = rec[rx[1]] /\ ready'[rx] = ready[rx]
          BY <3>1, Zenon
        <4> QED BY <2>2, <4>1, <4>2, <4>3, Zenon
      <3> QED BY <3>4, <3>5, <3>6, Zenon
    <2>7. ASSUME NEW l \in Links, SpawnLane(l) PROVE UNCHANGED <<ready, linkcheck>>
      BY <2>7, SpawnIs, Zenon
    <2> QED BY <2>3, <2>4, <2>5, <2>6, <2>7, StepShape, Zenon DEF Still, LaneMoves
  <1> QED BY <1>1, <1>2, Zenon DEF DiagInv, At

-----------------------------------------------------------------------------
\* The invariant, and what follows from it.

Inv ==
  /\ TypeInv /\ LinksInv /\ CountInv /\ OrderInv /\ LaneInv
  /\ PortInv /\ SeriesExclusive /\ GatherInv /\ DiagInv

LEMMA Invariant == Spec => []Inv
  <1>1. Init => Inv
    BY TypeInit, LinksInit, CountInit, OrderInit, LaneInit, PortInit, SeriesInit, GatherInit,
       DiagInit, Zenon DEF Inv
  <1>2. Inv /\ [Next]_vars => Inv'
    BY TypeStep, LinksStep, CountStep, OrderStep, LaneStep, PortInvStep, SeriesStep, GatherStep,
       DiagStep, Zenon DEF Inv
  <1> QED BY <1>1, <1>2, PTL DEF Spec

\* The WaitGroups count at most the links, and the lanes of a receiver.
LEMMA CountsBounded ==
  Inv => /\ wg \in 0 .. NumLinks
         /\ lwg \in [Links -> 0 .. Width] /\ rxwg \in [RxIds -> 0 .. Width]
  <1> SUFFICES ASSUME Inv
               PROVE  /\ wg \in 0 .. NumLinks
                      /\ lwg \in [Links -> 0 .. Width] /\ rxwg \in [RxIds -> 0 .. Width]
    OBVIOUS
  <1>0. Width \in Nat /\ NumLinks \in Nat
    BY ConstantsAssumption, SMT
  <1>1. wg \in 0 .. NumLinks
    <2>1. Running \subseteq Links
      BY Zenon DEF Running
    <2>2. /\ wg = Cardinality(Running) /\ IsFiniteSet(Running)
          /\ Cardinality(Running) <= NumLinks
      BY <2>1, LinksFinite, FS_Subset, Zenon DEF Inv, CountInv
    <2>3. wg \in Nat
      BY <2>2, FS_CardinalityType, Zenon
    <2> QED BY <1>0, <2>2, <2>3, SMT
  <1>2. ASSUME NEW rx \in RxIds, NEW S \in SUBSET LanesOf(rx) PROVE Cardinality(S) \in 0 .. Width
    <2>1. /\ IsFiniteSet(S) /\ Cardinality(S) <= Cardinality(LanesOf(rx))
          /\ IsFiniteSet(LanesOf(rx)) /\ Cardinality(LanesOf(rx)) <= Width
      BY LanesFinite, FS_Subset, Zenon
    <2>2. Cardinality(S) \in Nat /\ Cardinality(LanesOf(rx)) \in Nat
      BY <2>1, FS_CardinalityType, Zenon
    <2> QED BY <1>0, <2>1, <2>2, SMT
  <1>3. ASSUME NEW l \in Links PROVE lwg[l] \in 0 .. Width
    <2>1. lwg[l] = Cardinality(ActiveOf(l))
      BY Zenon DEF Inv, CountInv
    <2>2. CASE ActiveOf(l) = {}
      <3>1. lwg[l] = 0
        BY <2>1, <2>2, FS_EmptySet, Zenon
      <3> QED BY <1>0, <3>1, SMT
    <2>3. CASE ActiveOf(l) # {}
      <3> DEFINE rx == <<l, rec[l]>>
      <3>1. \A n \in ActiveOf(l) : n \in LaneIds /\ n[1] = l /\ n[2] = rec[l] /\ n[2] \in Present
        BY LaneFacts, Zenon DEF ActiveOf, Inv, LaneInv
      <3>2. rec[l] \in Present
        BY <2>3, <3>1, Zenon
      <3>3. rx \in RxIds
        BY <3>2, SMT DEF RxIds
      <3>4. ActiveOf(l) \subseteq LanesOf(rx)
        BY <3>1, <3>3, LanesOfFacts, Zenon DEF RxOf
      <3> HIDE DEF rx
      <3> QED BY <1>2, <2>1, <3>3, <3>4, Zenon
    <2> QED BY <2>2, <2>3, Zenon
  <1>4. ASSUME NEW rx \in RxIds PROVE rxwg[rx] \in 0 .. Width
    <2>1. rxwg[rx] = Cardinality(Readers(rx))
      BY Zenon DEF Inv, CountInv
    <2>2. Readers(rx) \subseteq LanesOf(rx)
      BY LanesOfFacts, Zenon DEF Readers
    <2> QED BY <1>2, <2>1, <2>2, Zenon
  <1>5. lwg \in [Links -> Int] /\ rxwg \in [RxIds -> Int]
    BY Zenon DEF Inv, TypeInv, LinkTypes, RxTypes
  <1>6. lwg \in [Links -> 0 .. Width]
    BY <1>3, <1>5, Zenon
  <1>7. rxwg \in [RxIds -> 0 .. Width]
    BY <1>4, <1>5, Zenon
  <1> QED BY <1>1, <1>6, <1>7, Zenon

\* Types are kept, and the WaitGroups of MarginLinks, marginLink and the receivers never fall
\* below zero, where Go's WaitGroup panics, nor count more than the links, and a receiver's
\* lanes (lanemargintest.go:236-252, lmt_link.go:171-185, lmt_lane.go:230-262).
THEOREM TypeCorrect == Spec => []TypeOK
  <1>1. Inv => TypeOK
    BY CountsBounded, LinkPlacesAre, Zenon
    DEF Inv, TypeInv, MainTypes, LinkTypes, RxTypes, LaneTypes, PortTypes, TypeOK, LanePlaces
  <1> QED BY <1>1, Invariant, PTL

\* Without an independent error sampler, one lane of a receiver is tested at a time: the
\* WaitGroup that a lane's start waits for counts the lanes that run (lmt_link.go:100, 177-180).
THEOREM OneLaneAtATime == Spec => []SeriesExclusive
  <1>1. Inv => SeriesExclusive
    BY Zenon DEF Inv
  <1> QED BY <1>1, Invariant, PTL

\* Lanes run only while their link's goroutine is at their receiver, and before it is diagnosed
\* (lmt_link.go:144, 189).
THEOREM LanesRunInTurn == Spec => []LanesInTurn
  <1>1. Inv => LanesInTurn
    BY NotYet, Zenon DEF Inv, LanesInTurn, LaneInv
  <1> QED BY <1>1, Invariant, PTL

\* While lanes are margined, ASPM and the autonomous width and speed changes are off in both
\* ports of their link (lmt_link.go:334-342).
THEOREM PortsAreQuiet == Spec => []QuietPorts
  <1>1. ASSUME Inv, NEW n \in LaneIds, Active(n), NEW p \in Ports
        PROVE  port[<<n[1], p>>] = [hawd |-> TRUE, hasd |-> TRUE, aspm |-> FALSE]
    <2> DEFINE q == <<n[1], p>>
    <2>1. n[1] \in Links /\ lpc[n[1]] = "spawn"
      BY <1>1, LaneFacts, Zenon DEF Inv, LaneInv, At
    <2>2. LinkPorts(n[1])
      BY <1>1, <2>1, Zenon DEF Inv, PortInv
    <2>3. /\ port[<<n[1], "dsp">>].hawd = TRUE /\ port[<<n[1], "dsp">>].aspm = FALSE
          /\ port[<<n[1], "dsp">>].hasd = TRUE
          /\ port[<<n[1], "usp">>].hawd = TRUE /\ port[<<n[1], "usp">>].aspm = FALSE
          /\ port[<<n[1], "usp">>].hasd = TRUE
      BY <2>1, <2>2, SMT DEF LinkPorts
    <2>4. port[q].hawd = TRUE /\ port[q].hasd = TRUE /\ port[q].aspm = FALSE
      BY <2>3, Zenon DEF Ports
    <2>5. port[q] \in PortType
      <3>1. q \in PortIds
        BY <2>1, SMT DEF PortIds
      <3> QED BY <1>1, <3>1, Zenon DEF Inv, TypeInv, PortTypes
    <2> HIDE DEF q
    <2>6. port[q] = [hawd |-> TRUE, hasd |-> TRUE, aspm |-> FALSE]
      <3> DEFINE bits == port[q]
      <3>1. bits = [hawd |-> bits.hawd, hasd |-> bits.hasd, aspm |-> bits.aspm]
        BY <2>5, Zenon DEF PortType
      <3> QED BY <2>4, <3>1, Zenon
    <2> QED BY <2>6, Zenon DEF q
  <1>2. Inv => QuietPorts
    BY <1>1, Zenon DEF QuietPorts
  <1> QED BY <1>2, Invariant, PTL

\* A tested link has its width autonomy back as it was found, whatever the order in which the
\* links' goroutines touched their ports (lmt_link.go:365-367).
THEOREM WidthIsRestored == Spec => []HawdRestored
  <1>1. ASSUME Inv, NEW l \in Links, lpc[l] = "done"
        PROVE  \A p \in Ports : port[<<l, p>>].hawd = setup.found[p].hawd
    <2>1. LinkPorts(l)
      BY <1>1, Zenon DEF Inv, PortInv
    <2>2. /\ port[<<l, "dsp">>].hawd = setup.found["dsp"].hawd
          /\ port[<<l, "usp">>].hawd = setup.found["usp"].hawd
      BY <1>1, <2>1, SMT DEF LinkPorts
    <2> QED BY <2>2, Zenon DEF Ports
  <1>2. Inv => HawdRestored
    BY <1>1, Zenon DEF HawdRestored, At
  <1> QED BY <1>2, Invariant, PTL

\* What was gathered at the end is what was margined to its end.
LEMMA AllGathered ==
  ASSUME Inv, mpc = "done"
  PROVE  taken = gathered /\ gathered = {n \in LaneIds : mature[n] /\ specced[n] # {}}
  <1>1. \A l \in Links : lpc[l] # "spawn"
    <2>1. Running = {}
      BY Zenon DEF Inv, LinksInv
    <2> QED BY <2>1, SMT DEF Running
  <1>2. ASSUME NEW n \in LaneIds, mature[n] PROVE diag[RxOf(n)] # "none"
    <2>1. n[1] \in Links /\ Gathers(n)
      BY LaneFacts, Zenon DEF Inv, GatherInv
    <2>2. lane[n] # "idle"
      BY <1>2, <2>1, SMT DEF Gathers
    <2> QED BY <1>1, <2>1, <2>2, Zenon DEF Inv, LaneInv, At
  <1>3. \A n \in LaneIds : n \in gathered <=> mature[n] /\ specced[n] # {}
    BY <1>2, Zenon DEF Inv, GatherInv, Gathers
  <1>4. taken = gathered /\ gathered \subseteq LaneIds
    BY Zenon DEF Inv, GatherInv, TypeInv, LinkTypes
  <1> QED BY <1>3, <1>4, Zenon

\* The run's result is the verdict of the lanes margined to their end, whatever order the lanes
\* and the links finish in: FAIL if one of them failed, PASS only if there are some
\* (lanemargintest.go:258-273).
THEOREM VerdictOfLanes == Spec => []ResultOfLanes
  <1>1. ASSUME Inv, mpc = "done" PROVE ResultOfLanes
    <2> DEFINE tested == {n \in LaneIds : mature[n] /\ specced[n] # {}}
    <2>1. taken = tested
      BY <1>1, AllGathered, Zenon
    <2>2. result = IF \E n \in taken : ~pass[n] THEN "FAIL"
                   ELSE IF taken # {} THEN "PASS" ELSE "NOT_APPLICABLE"
      BY <1>1, Zenon DEF Inv, GatherInv
    <2> QED BY <2>1, <2>2, Zenon DEF ResultOfLanes
  <1>2. Inv => ResultOfLanes
    BY <1>1, Zenon DEF ResultOfLanes
  <1> QED BY <1>2, Invariant, PTL

\* The tally agrees with what was streamed of the receivers and of the run, whatever order the
\* lanes and the links finish in (lmt_tally.go:40-78, lmt_link.go:264-306).
THEOREM TallyIsRight == Spec => []TallyAgrees
  <1>1. ASSUME Inv, mpc = "done" PROVE TallyAgrees
    <2> DEFINE tallied == {n \in LaneIds : ready[RxOf(n)]}
               passed == {n \in tallied : pass[n]}
               allPassed == \A rx \in RxIds : ready[rx] => diag[rx] = "PASS"
    <2>1. /\ Tally.pass = (\A n \in tallied : pass[n])
          /\ Tally.tested = Cardinality(tallied) - 1 /\ Tally.passed = Cardinality(passed) - 1
      BY SMT DEF Tally, Passing
    <2>2. /\ \A n \in LaneIds : RxOf(n) \in RxIds /\ n \in LanesOf(RxOf(n)) /\ Gathers(n)
          /\ \A rx \in RxIds : Diagnoses(rx)
          /\ \A rx \in RxIds : diag[rx] \in {"none", "PASS", "FAIL"}
      BY <1>1, LaneFacts, LanesOfFacts, Zenon DEF Inv, GatherInv, DiagInv, TypeInv, RxTypes
    <2>3. ASSUME result = "FAIL" PROVE ~Tally.pass
      <3>1. \E n \in taken : ~pass[n]
        BY <1>1, <2>3, SMT DEF Inv, GatherInv
      <3>2. PICK n \in LaneIds : n \in gathered /\ ~pass[n]
        BY <1>1, <3>1, Zenon DEF Inv, GatherInv, TypeInv, LinkTypes
      <3>3. ready[RxOf(n)]
        BY <2>2, <3>2, Zenon DEF Gathers, Diagnoses
      <3> QED BY <2>1, <3>2, <3>3, Zenon
    <2>4. ASSUME allPassed PROVE Tally.pass
      BY <2>1, <2>2, <2>4, Zenon DEF Diagnoses
    <2>5. ASSUME Tally.pass, \A l \in Links : linkcheck[l], NEW rx \in RxIds, ready[rx]
          PROVE  diag[rx] = "PASS"
      <3>1. rx[1] \in Links /\ lpc[rx[1]] # "spawn" /\ lpc[rx[1]] # "next"
        <4>1. Running = {} /\ rx[1] \in Links
          BY <1>1, RxFacts, Zenon DEF Inv, LinksInv
        <4> QED BY <4>1, SMT DEF Running
      <3>2. diag[rx] # "none"
        BY <2>2, <2>5, <3>1, Zenon DEF Diagnoses, At
      <3>3. \A n \in LanesOf(rx) : pass[n]
        BY <2>1, <2>5, LanesOfFacts, Zenon
      <3>4. diag[rx] # "FAIL"
        BY <2>2, <2>5, <3>1, <3>3, Zenon DEF Diagnoses
      <3> QED BY <2>2, <3>2, <3>4, Zenon
    <2>6. Tally.pass <=> Tally.tested = Tally.passed
      <3>1. IsFiniteSet(tallied) /\ tallied \subseteq LaneIds
        BY LaneIdsFinite, FS_Subset, Zenon
      <3>2. /\ passed \in SUBSET tallied /\ IsFiniteSet(passed)
            /\ Cardinality(tallied) = Cardinality(passed) => tallied = passed
        BY <3>1, FS_Subset, Zenon
      <3>3. Cardinality(tallied) \in Nat /\ Cardinality(passed) \in Nat
        BY <3>1, <3>2, FS_CardinalityType, Zenon
      <3>4. Tally.tested = Tally.passed <=> Cardinality(tallied) = Cardinality(passed)
        BY <2>1, <3>3, SMT
      <3>5. (\A n \in tallied : pass[n]) <=> tallied = passed
        OBVIOUS
      <3> QED BY <2>1, <3>2, <3>4, <3>5, Zenon
    <2> QED BY <2>3, <2>4, <2>5, <2>6, Zenon DEF TallyAgrees
  <1>2. Inv => TallyAgrees
    BY <1>1, Zenon DEF TallyAgrees
  <1> QED BY <1>2, Invariant, PTL
=============================================================================
