------------------------------ MODULE Discovery ------------------------------
(***************************************************************************)
(* How the two tools choose what they test: getLinks of lanemargintest.go  *)
(* and of ltt/linktrain.go, with the walks of the capability lists that    *)
(* getPcieCapOffset and getLMRcapability make in the configuration spaces, *)
(* and the device lists given on the command line (lmt.go, ltt/ltt.go).    *)
(* The lists are what a device's registers say, in a circle if they say so.*)
(***************************************************************************)
EXTENDS Naturals, Sequences, SequencesExt, FiniteSets

CONSTANTS
  Addrs,        \* addresses of capability headers, all but 0
  Bdfs,         \* names of devices
  Setups        \* machines and requests

Null == 0
Invalid == "invalid"             \* a word of the command line that names no device
Tools == {"lmt", "ltt"}
Ports == {"dsp", "usp"}
Targets == [caps |-> {"EXP"}, ext |-> {"LMR", "LMR alias"}]

\* A list of capabilities, or of extended capabilities: where it starts, and what is found at
\* an address, the capability's ID and the address of the next one.
ListType ==
  [head : Addrs \cup {Null}, id : [Addrs -> {"EXP", "LMR", "LMR alias", "other"}],
   next : [Addrs -> Addrs \cup {Null}]]

PortType == [caps : ListType, ext : ListType, speed : {"8G", "16G", "32G", "64G"}]

\* A device: whether it has the IDs asked for, its name, whether it is device 0, function 0,
\* its port type, and the port above it, if the system knows one.
DeviceType ==
  [ids : BOOLEAN, bdf : Bdfs, first : BOOLEAN,
   type : {"endpoint", "upstream", "root", "downstream"}, usp : PortType, dsp : SUBSET PortType]

\* What the user asks for: the names in the spec, and in the flags -bus and -bdf if given.
RequestType == [spec : SUBSET Bdfs, bus : Seq(Bdfs \cup {Invalid}), bdf : Seq(Bdfs \cup {Invalid})]

ASSUME ConstantsAssumption ==
  /\ Null \notin Addrs /\ IsFiniteSet(Addrs) /\ Invalid \notin Bdfs
  /\ Setups \subseteq [tool : Tools, devs : Seq(DeviceType), request : RequestType]

VARIABLES
  setup,        \* the tool, the machine's devices and the request
  pc,           \* where getLinks is
  dev,          \* the device looked at
  port,         \* the port whose capabilities are looked for
  at,           \* the walk: the address to read next
  been,         \* the walk: the addresses that were read
  links,        \* the links enlisted
  outcome       \* how getLinks and its caller end

vars == <<setup, pc, dev, port, at, been, links, outcome>>

Devices == setup.devs
Device == Devices[dev]
\* The link being enlisted, which is of the device looked at.
Link == Last(links)

Port(d, p) == IF p = "usp" THEN d.usp ELSE CHOOSE q \in d.dsp : TRUE

\* A flag that is given replaces what was asked before; its invalid words are reported only.
Given(flag, otherwise) == IF flag = <<>> THEN otherwise ELSE ToSet(flag) \ {Invalid}

\* The names asked for; none stands for all devices.
Asked(r) == Given(r.bdf, Given(r.bus, r.spec))

\* The filters of the loop over the devices.
Selected(d, r) == d.ids /\ (Asked(r) = {} \/ d.bdf \in Asked(r)) /\ d.first

RightType(d) == d.type \in {"endpoint", "upstream"}

-----------------------------------------------------------------------------
\* A walk of a list, one header at a time.

Walking == pc \in {"eligible", "caps", "ext"}
List == LET p == Port(Device, port) IN IF pc = "ext" THEN p.ext ELSE p.caps
Target == IF pc = "ext" THEN Targets.ext ELSE Targets.caps

Found == at # Null /\ List.id[at] \in Target

\* Mutant: the walk does not remember where it was.
SeenNothing(b, a) == b

\* Mutant: the address read next is remembered, in place of the one just read.
SeenNext(b, a) == b \cup {List.next[a]}

Seen(b, a) == b \cup {a}

\* The list ends, or comes back to where it was.
Missing ==
  \/ at = Null
  \/ (at # Null /\ ~Found /\ List.next[at] \in Seen(been, at))

Follow ==
  /\ Walking /\ ~Found /\ ~Missing
  /\ been' = Seen(been, at) /\ at' = List.next[at]
  /\ UNCHANGED <<setup, pc, dev, port, links, outcome>>

\* The walk for a place to start with.
StartWalk(place, p) ==
  /\ pc' = place /\ port' = p /\ been' = {}
  /\ at' = LET q == Port(Device, p) IN IF place = "ext" THEN q.ext.head ELSE q.caps.head

-----------------------------------------------------------------------------
Init ==
  /\ setup \in Setups
  /\ pc = "device" /\ dev = 1 /\ port = "usp" /\ at = Null /\ been = {}
  /\ links = <<>> /\ outcome = "none"

\* Mutant: the port is not moved to the next device's.
Stay == UNCHANGED dev /\ pc' = "device"

NextDevice == dev' = dev + 1 /\ pc' = "device"

\* Mutant: the device without one is passed over.
PassOver(error) == NextDevice /\ UNCHANGED outcome

\* getLinks returns an error.
Refuse(error) == outcome' = error /\ pc' = "done" /\ UNCHANGED dev

SkipDevice ==
  /\ pc = "device" /\ dev <= Len(Devices) /\ ~Selected(Device, setup.request)
  /\ NextDevice
  /\ UNCHANGED <<setup, port, at, been, links, outcome>>

\* The PCIe capability tells the port type.
SelectDevice ==
  /\ pc = "device" /\ dev <= Len(Devices) /\ Selected(Device, setup.request)
  /\ StartWalk("eligible", "usp")
  /\ UNCHANGED <<setup, dev, links, outcome>>

\* A device without the capability, or of another type, is left out.
LeaveOut ==
  /\ pc = "eligible" /\ (Missing \/ (Found /\ ~RightType(Device)))
  /\ NextDevice
  /\ UNCHANGED <<setup, port, at, been, links, outcome>>

\* The link's other port; lmt enlists the link at once, ltt when that port has the capability.
FindDSP ==
  /\ pc = "eligible" /\ Found /\ RightType(Device) /\ Device.dsp # {}
  /\ links' = IF setup.tool = "ltt" THEN links
              ELSE Append(links, [dev |-> dev, testReady |-> TRUE,
                                  ready |-> [p \in Ports |-> TRUE],
                                  pcieCapOffset |-> [p \in Ports |-> Null],
                                  lmrAddr |-> [p \in Ports |-> Null]])
  /\ StartWalk("caps", "dsp")
  /\ UNCHANGED <<setup, dev, outcome>>

FindDSPFails ==
  /\ pc = "eligible" /\ Found /\ RightType(Device) /\ Device.dsp = {}
  /\ Refuse("noPort")
  /\ UNCHANGED <<setup, port, at, been, links>>

\* The ports of ltt: links' only register address is the downstream port's.
EnlistTrained ==
  /\ pc = "caps" /\ setup.tool = "ltt" /\ Found
  /\ links' = Append(links, [dev |-> dev, testReady |-> TRUE,
                             ready |-> [p \in Ports |-> TRUE],
                             pcieCapOffset |-> [p \in Ports |-> IF p = "dsp" THEN at ELSE Null],
                             lmrAddr |-> [p \in Ports |-> Null]])
  /\ NextDevice
  /\ UNCHANGED <<setup, port, at, been, outcome>>

TrainedFails ==
  /\ pc = "caps" /\ setup.tool = "ltt" /\ Missing
  /\ Refuse("noCapability")
  /\ UNCHANGED <<setup, port, at, been, links>>

RightSpeed(p) == p.speed \in {"16G", "32G"}

\* Mutant: what a later check finds counts.
ReadyIfLast(link, p, ok) == [link EXCEPT !.ready[p] = ok, !.testReady = ok]

\* A failing check of a port makes it and the link not ready; a passing one changes nothing.
ReadyIf(link, p, ok) ==
  IF ok THEN link ELSE [link EXCEPT !.ready[p] = FALSE, !.testReady = FALSE]

\* lmt: the PCIe capability of a port, and the speed of the link.
CheckSpeed ==
  /\ pc = "caps" /\ setup.tool = "lmt" /\ (Found \/ Missing)
  /\ links' = [links EXCEPT ![Len(links)] =
       IF Missing THEN ReadyIf(Link, port, FALSE)
       ELSE ReadyIf([Link EXCEPT !.pcieCapOffset[port] = at], port,
                    RightSpeed(Port(Device, port)))]
  /\ StartWalk("ext", port)
  /\ UNCHANGED <<setup, dev, outcome>>

\* lmt: the lane margining capability of a port; after the downstream port, the upstream one.
CheckLmr ==
  /\ pc = "ext" /\ (Found \/ Missing)
  /\ links' = [links EXCEPT ![Len(links)] =
       IF Missing THEN ReadyIf(Link, port, FALSE)
       ELSE ReadyIf([Link EXCEPT !.lmrAddr[port] = at], port, TRUE)]
  /\ IF port = "dsp"
     THEN StartWalk("caps", "usp") /\ UNCHANGED dev
     ELSE NextDevice /\ UNCHANGED <<port, at, been>>
  /\ UNCHANGED <<setup, outcome>>

\* All devices are done: there is something to test or not.
Conclude ==
  /\ pc = "device" /\ dev > Len(Devices)
  /\ pc' = "done"
  /\ outcome' = IF Devices = <<>> THEN "noDevices"
                ELSE IF links = <<>> THEN "noneMatch" ELSE "test"
  /\ UNCHANGED <<setup, dev, port, at, been, links>>

Next ==
  \/ Follow \/ SkipDevice \/ SelectDevice \/ LeaveOut \/ FindDSP \/ FindDSPFails
  \/ EnlistTrained \/ TrainedFails \/ CheckSpeed \/ CheckLmr \/ Conclude

Spec == Init /\ [][Next]_vars
FairSpec == Spec /\ WF_vars(Next)

-----------------------------------------------------------------------------
\* Properties.

LinkType ==
  [dev : 1 .. Len(Devices), testReady : BOOLEAN, ready : [Ports -> BOOLEAN],
   pcieCapOffset : [Ports -> Addrs \cup {Null}], lmrAddr : [Ports -> Addrs \cup {Null}]]

TypeOK ==
  /\ setup \in Setups
  /\ pc \in {"device", "eligible", "caps", "ext", "done"}
  /\ dev \in 1 .. Len(Devices) + 1
  /\ port \in Ports /\ at \in Addrs \cup {Null} /\ been \in SUBSET Addrs
  /\ links \in Seq(LinkType) /\ Len(links) <= Len(Devices)
  /\ outcome \in {"none", "noDevices", "noPort", "noCapability", "noneMatch", "test"}

\* The headers of a list that a search for one of the IDs comes across, whether the list ends
\* or not: those in every set that has the first one and, with one of another ID, the next one.
Within(list, ids) ==
  {S \in SUBSET Addrs :
     /\ list.head \in S \cup {Null}
     /\ \A a \in S : list.id[a] \in ids \/ list.next[a] \in S \cup {Null}}
Across(list, ids) == {a \in Addrs : \A S \in Within(list, ids) : a \in S}

\* The first address of a list that holds one of the IDs, Null if there is none.
FirstOf(list, ids) ==
  LET hits == {a \in Across(list, ids) : list.id[a] \in ids}
  IN  IF hits = {} THEN Null ELSE CHOOSE a \in hits : TRUE

\* The devices asked for whose PCIe capability makes them the upstream port of a link.
Eligible(i) ==
  LET d == Devices[i]
  IN  Selected(d, setup.request) /\ FirstOf(d.usp.caps, Targets.caps) # Null
      /\ d.type \in {"endpoint", "upstream"}

\* Whether a device makes getLinks refuse the machine.
Refused(i) ==
  /\ Eligible(i)
  /\ \/ Devices[i].dsp = {}
     \/ setup.tool = "ltt" /\ FirstOf(Port(Devices[i], "dsp").caps, Targets.caps) = Null

\* A link is enlisted for each eligible device, once, in the order of the devices, and all are
\* refused when one of them cannot be (lanemargintest.go:407-456, linktrain.go:233-293).
EligibleEnlisted ==
  pc = "done" =>
    IF \E i \in 1 .. Len(Devices) : Refused(i)
    THEN outcome \in {"noPort", "noCapability"}
    ELSE /\ outcome \in {"test", "noneMatch", "noDevices"}
         /\ {links[k].dev : k \in 1 .. Len(links)} = {i \in 1 .. Len(Devices) : Eligible(i)}
         /\ \A j, k \in 1 .. Len(links) : j < k => links[j].dev < links[k].dev

\* The offsets that the tests will use are those of the first header with the ID in each port's
\* list, and lmt tests exactly the links both of whose ports have both and a speed that can be
\* margined (lanemargintest.go:462-496, 505-554; linktrain.go:175-200).
ReadyByRegisters ==
  \A k \in 1 .. Len(links) :
    LET l == links[k]
        cap(p) == FirstOf(Port(Devices[l.dev], p).caps, Targets.caps)
        lmr(p) == FirstOf(Port(Devices[l.dev], p).ext, Targets.ext)
        ok(p) == cap(p) # Null /\ RightSpeed(Port(Devices[l.dev], p)) /\ lmr(p) # Null
    IN  IF setup.tool = "ltt" THEN l.pcieCapOffset["dsp"] = cap("dsp") /\ l.testReady
        ELSE dev # l.dev \/ pc = "done" =>
               /\ \A p \in Ports : l.pcieCapOffset[p] = cap(p) /\ l.lmrAddr[p] = lmr(p)
               /\ \A p \in Ports : l.ready[p] <=> ok(p)
               /\ l.testReady <=> \A p \in Ports : ok(p)

\* getLinks returns, whatever the lists (lanemargintest.go:523, 548; linktrain.go:194).
WalksEnd == <>(pc = "done")
=============================================================================
