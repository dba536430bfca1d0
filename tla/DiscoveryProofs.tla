--------------------------- MODULE DiscoveryProofs ---------------------------
(***************************************************************************)
(* Proofs about how the links to be tested are found (Discovery.tla), for  *)
(* any devices and any lists of capabilities, in a circle or not.          *)
(***************************************************************************)
EXTENDS Discovery, TLAPS

-----------------------------------------------------------------------------
\* The inductive invariant, by parts.

TypeInv ==
  /\ setup \in Setups
  /\ pc \in {"device", "eligible", "caps", "ext", "done"} /\ dev \in 1 .. Len(Devices) + 1
  /\ port \in Ports /\ at \in Addrs \cup {Null} /\ been \in SUBSET Addrs
  /\ links \in Seq(LinkType)
  /\ outcome \in {"none", "noDevices", "noPort", "noCapability", "noneMatch", "test"}

\* Which walks are made of which devices.
PlaceInv ==
  /\ Walking => dev <= Len(Devices) /\ Selected(Device, setup.request)
  /\ pc = "eligible" => port = "usp"
  /\ pc \in {"caps", "ext"} => Eligible(dev) /\ Device.dsp # {}
  /\ setup.tool = "ltt" => pc # "ext" /\ (pc = "caps" => port = "dsp")
  /\ pc = "done" <=> outcome # "none"

\* A walk that is at a: what it has read is of no ID looked for, is the start of the list up to
\* a, and is in every set that is closed under the search.
Walked(list, ids, read, a) ==
  /\ read \subseteq Addrs /\ \A b \in read : list.id[b] \notin ids
  /\ list.head \in read \cup {a} /\ \A b \in read : list.next[b] \in read \cup {a}
  /\ \A S \in Within(list, ids) : read \subseteq S /\ a \in S \cup {Null}

WalkInv == Walking => Walked(List, Target, been, at)

\* lmt has enlisted the link of the device that is looked at.
Enlisted == setup.tool = "lmt" /\ pc \in {"caps", "ext"}
\* Everything went well up to the device that is looked at, or all of them.
Going == pc # "done" \/ outcome \in {"test", "noneMatch", "noDevices"}

Eligibles == {i \in 1 .. Len(Devices) : Eligible(i)}
Refusing == {i \in 1 .. Len(Devices) : Refused(i)}

ListInv ==
  /\ Going => \A i \in 1 .. Len(Devices) :
       (i \in Eligibles /\ (i < dev \/ (i = dev /\ Enlisted))) <=> \E k \in 1 .. Len(links) : links[k].dev = i
  /\ \A j, k \in 1 .. Len(links) : j < k => links[j].dev < links[k].dev
  /\ \A k \in 1 .. Len(links) : links[k].dev < dev \/ (links[k].dev = dev /\ Enlisted /\ k = Len(links))
  /\ Enlisted => Len(links) # 0 /\ links[Len(links)].dev = dev
  /\ Len(links) < dev \/ (Len(links) = dev /\ Enlisted)
  /\ \A i \in Refusing : i >= dev
  /\ pc = "done" => IF Going THEN dev > Len(Devices) ELSE dev \in Refusing

\* What lmt knows of a port: nothing, its PCIe capability and speed, all.
CapOf(d, p) == FirstOf(Port(Devices[d], p).caps, Targets.caps)
LmrOf(d, p) == FirstOf(Port(Devices[d], p).ext, Targets.ext)
SpeedOk(d, p) == CapOf(d, p) # Null /\ RightSpeed(Port(Devices[d], p))
AllOk(d, p) == SpeedOk(d, p) /\ LmrOf(d, p) # Null

Fresh(l, p) == l.pcieCapOffset[p] = Null /\ l.lmrAddr[p] = Null /\ l.ready[p]
Half(l, p) ==
  l.pcieCapOffset[p] = CapOf(l.dev, p) /\ l.lmrAddr[p] = Null /\ (l.ready[p] <=> SpeedOk(l.dev, p))
Whole(l, p) ==
  /\ l.pcieCapOffset[p] = CapOf(l.dev, p) /\ l.lmrAddr[p] = LmrOf(l.dev, p)
  /\ l.ready[p] <=> AllOk(l.dev, p)

\* The downstream port's capabilities are looked for first.
Progress(l, place, p) ==
  /\ place = "caps" /\ p = "dsp" => Fresh(l, "dsp") /\ Fresh(l, "usp")
  /\ place = "ext" /\ p = "dsp" => Half(l, "dsp") /\ Fresh(l, "usp")
  /\ place = "caps" /\ p = "usp" => Whole(l, "dsp") /\ Fresh(l, "usp")
  /\ place = "ext" /\ p = "usp" => Whole(l, "dsp") /\ Half(l, "usp")

ReadyBoth(l) == l.testReady <=> l.ready["dsp"] /\ l.ready["usp"]

KnownAt(k) ==
  IF setup.tool = "ltt" THEN links[k].pcieCapOffset["dsp"] = CapOf(links[k].dev, "dsp") /\ links[k].testReady
  ELSE /\ ReadyBoth(links[k])
       /\ IF Enlisted /\ k = Len(links) THEN Progress(links[k], pc, port)
          ELSE Whole(links[k], "dsp") /\ Whole(links[k], "usp")

KnownInv == \A k \in 1 .. Len(links) : KnownAt(k)

Inv == TypeInv /\ PlaceInv /\ WalkInv /\ ListInv /\ KnownInv
-----------------------------------------------------------------------------
\* What is asked, and of which machine.

LEMMA SetupFacts ==
  ASSUME setup \in Setups
  PROVE  /\ setup.tool = "lmt" \/ setup.tool = "ltt"
         /\ Devices \in Seq(DeviceType) /\ Len(Devices) \in Nat
         /\ \A i \in 1 .. Len(Devices) : Devices[i] \in DeviceType
  <1>1. setup \in [tool : Tools, devs : Seq(DeviceType), request : RequestType]
    BY ConstantsAssumption, Zenon
  <1>2. setup.tool \in Tools /\ setup.devs \in Seq(DeviceType)
    BY <1>1, Zenon
  <1>3. setup.tool = "lmt" \/ setup.tool = "ltt"
    BY <1>2, SMT DEF Tools
  <1>4. Len(Devices) \in Nat /\ \A i \in 1 .. Len(Devices) : Devices[i] \in DeviceType
    BY <1>2, SMT DEF Devices
  <1> QED BY <1>2, <1>3, <1>4, Zenon DEF Devices

LEMMA PortFacts ==
  ASSUME NEW d \in DeviceType, NEW p \in Ports, p = "dsp" => d.dsp # {}
  PROVE  /\ Port(d, p) \in PortType /\ Port(d, p).caps \in ListType /\ Port(d, p).ext \in ListType
  <1>1. d.usp \in PortType /\ d.dsp \in SUBSET PortType
    BY Zenon DEF DeviceType
  <1>2. CASE p = "usp"
    BY <1>1, <1>2, Zenon DEF Port, PortType
  <1>3. CASE p # "usp"
    <2>1. p = "dsp"
      BY <1>3, SMT DEF Ports
    <2>2. PICK q \in d.dsp : TRUE
      BY <2>1, Zenon
    <2>3. (CHOOSE x \in d.dsp : TRUE) \in d.dsp
      BY <2>2, Zenon
    <2> QED BY <1>1, <1>3, <2>3, Zenon DEF Port, PortType
  <1> QED BY <1>2, <1>3, Zenon

LEMMA ListFacts ==
  ASSUME NEW list \in ListType
  PROVE  /\ list.head \in Addrs \cup {Null}
         /\ \A a \in Addrs : list.next[a] \in Addrs \cup {Null}
  BY Zenon DEF ListType

\* What is looked for in the list of a place.
LEMMA ListIs ==
  /\ pc = "ext" => List = Port(Device, port).ext /\ Target = Targets.ext
  /\ pc # "ext" => List = Port(Device, port).caps /\ Target = Targets.caps
  BY Zenon DEF List, Target

-----------------------------------------------------------------------------
\* The walk finds the first header of an ID looked for, by its definition.

\* A set that is closed under the search has all headers that the search comes across.
LEMMA AcrossWithin ==
  ASSUME NEW list, NEW ids, NEW S \in Within(list, ids)
  PROVE  Across(list, ids) \subseteq S
  BY Zenon DEF Across

LEMMA WalkFinds ==
  ASSUME NEW list, NEW ids, NEW read, NEW a \in Addrs, Walked(list, ids, read, a), list.id[a] \in ids
  PROVE  FirstOf(list, ids) = a
  <1>0. Null \notin Addrs
    BY ConstantsAssumption, Zenon
  <1> DEFINE S == read \cup {a}
             hits == {b \in Across(list, ids) : list.id[b] \in ids}
  <1>1. S \in Within(list, ids)
    <2>1. S \in SUBSET Addrs /\ list.head \in S \cup {Null}
      BY Zenon DEF Walked
    <2>2. \A b \in S : list.id[b] \in ids \/ list.next[b] \in S \cup {Null}
      BY Zenon DEF Walked
    <2> HIDE DEF S
    <2> QED BY <2>1, <2>2, Zenon DEF Within
  <1>2. Across(list, ids) \subseteq S
    BY <1>1, AcrossWithin, Zenon
  <1>3. \A b \in hits : b = a
    BY <1>2, Zenon DEF Walked
  <1>4. a \in Across(list, ids)
    BY <1>0, Zenon DEF Walked, Across
  <1>5. a \in hits
    BY <1>4, Zenon
  <1> HIDE DEF hits
  <1>6. (CHOOSE b \in hits : TRUE) = a
    BY <1>3, <1>5, Zenon
  <1>7. hits # {}
    BY <1>5, Zenon
  <1>8. FirstOf(list, ids) = IF hits = {} THEN Null ELSE CHOOSE b \in hits : TRUE
    BY Zenon DEF FirstOf, hits
  <1> QED BY <1>6, <1>7, <1>8, Zenon

LEMMA WalkMisses ==
  ASSUME NEW list, NEW ids, NEW read, NEW a \in Addrs \cup {Null}, Walked(list, ids, read, a),
         a = Null \/ (a \in Addrs /\ list.id[a] \notin ids /\ list.next[a] \in read \cup {a})
  PROVE  FirstOf(list, ids) = Null
  <1> DEFINE S == (read \cup {a}) \ {Null}
             hits == {b \in Across(list, ids) : list.id[b] \in ids}
  <1>0. Null \notin Addrs
    BY ConstantsAssumption, Zenon
  <1>1. S \in Within(list, ids)
    <2>1. S \in SUBSET Addrs
      BY Zenon DEF Walked
    <2>2. list.head \in S \cup {Null}
      BY Zenon DEF Walked
    <2>3. \A b \in S : list.next[b] \in S \cup {Null}
      BY Zenon DEF Walked
    <2> HIDE DEF S
    <2> QED BY <2>1, <2>2, <2>3, Zenon DEF Within
  <1>2. Across(list, ids) \subseteq S
    BY <1>1, AcrossWithin, Zenon
  <1>3. \A b \in S : list.id[b] \notin ids
    BY Zenon DEF Walked
  <1>4. hits = {}
    BY <1>2, <1>3, Zenon
  <1> HIDE DEF hits
  <1>5. FirstOf(list, ids) = IF hits = {} THEN Null ELSE CHOOSE b \in hits : TRUE
    BY Zenon DEF FirstOf, hits
  <1> QED BY <1>4, <1>5, Zenon

\* It starts at the head, and goes on by a header.
LEMMA WalkStarts ==
  ASSUME NEW list, NEW ids
  PROVE  Walked(list, ids, {}, list.head)
  <1>1. \A S \in Within(list, ids) : {} \subseteq S /\ list.head \in S \cup {Null}
    BY Zenon DEF Within
  <1> QED BY <1>1, Zenon DEF Walked

LEMMA WalkGoesOn ==
  ASSUME NEW list, NEW ids, NEW read, NEW a \in Addrs, Walked(list, ids, read, a), list.id[a] \notin ids
  PROVE  Walked(list, ids, read \cup {a}, list.next[a])
  <1>0. Null \notin Addrs
    BY ConstantsAssumption, Zenon
  <1>1. read \cup {a} \subseteq Addrs /\ \A b \in read \cup {a} : list.id[b] \notin ids
    BY Zenon DEF Walked
  <1>2. /\ list.head \in (read \cup {a}) \cup {list.next[a]}
        /\ \A b \in read \cup {a} : list.next[b] \in (read \cup {a}) \cup {list.next[a]}
    BY Zenon DEF Walked
  <1>3. ASSUME NEW S \in Within(list, ids)
        PROVE  read \cup {a} \subseteq S /\ list.next[a] \in S \cup {Null}
    <2>1. read \subseteq S /\ a \in S
      BY <1>0, Zenon DEF Walked
    <2>2. list.id[a] \in ids \/ list.next[a] \in S \cup {Null}
      BY <2>1, Zenon DEF Within
    <2> QED BY <2>1, <2>2, Zenon
  <1> QED BY <1>1, <1>2, <1>3, Zenon DEF Walked

LEMMA DevFacts ==
  ASSUME TypeInv
  PROVE  /\ setup \in Setups /\ dev \in Nat \ {0} /\ Len(Devices) \in Nat /\ dev <= Len(Devices) + 1
         /\ dev <= Len(Devices) => dev \in 1 .. Len(Devices)
  <1>1. setup \in Setups /\ dev \in 1 .. Len(Devices) + 1
    BY Zenon DEF TypeInv
  <1>2. Len(Devices) \in Nat
    BY <1>1, SetupFacts, Zenon
  <1> QED BY <1>1, <1>2, SMT

\* What a walk has come to, where the links' search is.
LEMMA WalkFacts ==
  ASSUME TypeInv, PlaceInv, Walking
  PROVE  /\ dev \in 1 .. Len(Devices) /\ Device \in DeviceType
         /\ \A p \in Ports : p = "usp" \/ pc # "eligible" =>
              Port(Device, p) \in PortType /\ Port(Device, p).caps \in ListType /\ Port(Device, p).ext \in ListType
         /\ List \in ListType
  <1>1. dev \in 1 .. Len(Devices) /\ Device \in DeviceType
    <2>1. dev \in 1 .. Len(Devices)
      BY DevFacts, Zenon DEF PlaceInv
    <2> QED BY <2>1, SetupFacts, Zenon DEF TypeInv, Device
  <1>2. pc # "eligible" => Device.dsp # {}
    BY SMT DEF PlaceInv, Walking
  <1>3. ASSUME NEW p \in Ports, p = "usp" \/ pc # "eligible"
        PROVE  Port(Device, p) \in PortType /\ Port(Device, p).caps \in ListType /\ Port(Device, p).ext \in ListType
    <2>1. p = "dsp" => Device.dsp # {}
      BY <1>2, <1>3, SMT
    <2> QED BY <1>1, <2>1, PortFacts, Zenon
  <1>4. port \in Ports /\ (port = "usp" \/ pc # "eligible")
    BY Zenon DEF TypeInv, PlaceInv
  <1>5. List \in ListType
    BY <1>3, <1>4, ListIs, Zenon
  <1> QED BY <1>1, <1>3, <1>5, Zenon

LEMMA WalkEnds ==
  ASSUME TypeInv, PlaceInv, WalkInv, Walking
  PROVE  /\ Found => at \in Addrs /\ at # Null /\ FirstOf(List, Target) = at
         /\ Missing => ~Found /\ FirstOf(List, Target) = Null
         /\ ~Found /\ ~Missing => at \in Addrs /\ List.id[at] \notin Target
  <1>0. at \in Addrs \cup {Null} /\ Walked(List, Target, been, at) /\ Null \notin Addrs
    BY ConstantsAssumption, Zenon DEF TypeInv, WalkInv
  <1>1. Found => at \in Addrs /\ at # Null /\ FirstOf(List, Target) = at
    BY <1>0, WalkFinds, Zenon DEF Found
  <1>2. ASSUME Missing PROVE ~Found /\ FirstOf(List, Target) = Null
    <2>1. at = Null \/ (at # Null /\ ~Found /\ List.next[at] \in been \cup {at})
      BY <1>2, Zenon DEF Missing, Seen
    <2>2. at = Null \/ (at \in Addrs /\ List.id[at] \notin Target /\ List.next[at] \in been \cup {at})
      BY <1>0, <2>1, Zenon DEF Found
    <2>3. FirstOf(List, Target) = Null
      BY <1>0, <2>2, WalkMisses, Zenon
    <2> QED BY <2>1, <2>3, Zenon DEF Found
  <1>3. ~Found /\ ~Missing => at \in Addrs /\ List.id[at] \notin Target
    BY <1>0, Zenon DEF Found, Missing
  <1> QED BY <1>1, <1>2, <1>3, Zenon

\* The addresses of a walk that goes on, or that starts.
LEMMA FollowTypes ==
  ASSUME TypeInv, PlaceInv, WalkInv, Follow
  PROVE  at' \in Addrs \cup {Null} /\ been' \in SUBSET Addrs
  <1>1. at \in Addrs /\ been \in SUBSET Addrs
    BY WalkEnds, Zenon DEF Follow, TypeInv
  <1>2. List.next[at] \in Addrs \cup {Null}
    BY <1>1, WalkFacts, ListFacts, Zenon DEF Follow
  <1> QED BY <1>1, <1>2, Zenon DEF Follow, Seen

LEMMA StartWalkTypes ==
  ASSUME TypeInv, NEW place, NEW p \in Ports, StartWalk(place, p), Device \in DeviceType,
         p = "dsp" => Device.dsp # {}
  PROVE  /\ pc' = place /\ port' = p /\ been' = {} /\ at' \in Addrs \cup {Null}
         /\ at' = IF place = "ext" THEN Port(Device, p).ext.head ELSE Port(Device, p).caps.head
  <1>1. Port(Device, p).caps \in ListType /\ Port(Device, p).ext \in ListType
    BY PortFacts, Zenon
  <1>2. Port(Device, p).caps.head \in Addrs \cup {Null} /\ Port(Device, p).ext.head \in Addrs \cup {Null}
    BY <1>1, ListFacts, Zenon
  <1>3. /\ pc' = place /\ port' = p /\ been' = {}
        /\ at' = IF place = "ext" THEN Port(Device, p).ext.head ELSE Port(Device, p).caps.head
    BY Zenon DEF StartWalk
  <1> QED BY <1>2, <1>3, Zenon

\* The parts of the search that start a walk.
LEMMA Starts ==
  ASSUME TypeInv, PlaceInv
  PROVE  /\ SelectDevice => /\ StartWalk("eligible", "usp") /\ Device \in DeviceType
                            /\ dev' = dev /\ setup' = setup /\ dev \in 1 .. Len(Devices)
         /\ FindDSP => /\ StartWalk("caps", "dsp") /\ Device \in DeviceType /\ Device.dsp # {}
                       /\ dev' = dev /\ setup' = setup /\ dev \in 1 .. Len(Devices)
         /\ CheckSpeed => /\ StartWalk("ext", port) /\ Device \in DeviceType /\ Device.dsp # {}
                          /\ dev' = dev /\ setup' = setup /\ dev \in 1 .. Len(Devices)
         /\ CheckLmr /\ port = "dsp" =>
              /\ StartWalk("caps", "usp") /\ Device \in DeviceType /\ dev' = dev /\ setup' = setup
              /\ dev \in 1 .. Len(Devices)
  <1>1. Walking => dev \in 1 .. Len(Devices) /\ Device \in DeviceType
    BY WalkFacts, Zenon
  <1>2. pc = "eligible" \/ pc = "caps" \/ pc = "ext" => Walking
    BY SMT DEF Walking
  <1>3. SelectDevice => dev \in 1 .. Len(Devices) /\ Device \in DeviceType
    <2>1. SelectDevice => dev \in 1 .. Len(Devices)
      BY DevFacts, Zenon DEF SelectDevice
    <2> QED BY <2>1, SetupFacts, Zenon DEF TypeInv, Device
  <1>4. pc = "caps" => Device.dsp # {}
    BY SMT DEF PlaceInv
  <1> QED BY <1>1, <1>2, <1>3, <1>4, Zenon DEF SelectDevice, FindDSP, CheckSpeed, CheckLmr

\* The other actions but Follow leave no walk.
LEMMA NoWalk ==
  ASSUME \/ SkipDevice \/ LeaveOut \/ FindDSPFails \/ EnlistTrained \/ TrainedFails \/ Conclude
         \/ CheckLmr /\ port # "dsp"
  PROVE  /\ (pc' = "device" /\ dev' = dev + 1) \/ (pc' = "done" /\ dev' = dev)
         /\ setup' = setup /\ port' = port /\ at' = at /\ been' = been
  BY Zenon DEF SkipDevice, LeaveOut, FindDSPFails, EnlistTrained, TrainedFails, Conclude, CheckLmr, NextDevice, Refuse

-----------------------------------------------------------------------------
\* The walks.

LEMMA WalkInit == Init => WalkInv
  BY SMT DEF Init, WalkInv, Walking

LEMMA WalkStep == TypeInv /\ PlaceInv /\ WalkInv /\ [Next]_vars => WalkInv'
  <1> SUFFICES ASSUME TypeInv, PlaceInv, WalkInv, [Next]_vars PROVE WalkInv'
    OBVIOUS
  <1>1. ASSUME UNCHANGED <<setup, pc, dev, port>>
        PROVE  List' = List /\ Target' = Target /\ (Walking' <=> Walking)
    <2>1. Device' = Device
      BY <1>1, Zenon DEF Device, Devices
    <2>2. List' = List
      BY <1>1, <2>1, SMT DEF List, Port
    <2>3. Target' = Target /\ (Walking' <=> Walking)
      BY <1>1, Zenon DEF Target, Walking
    <2> QED BY <2>2, <2>3, Zenon
  <1>2. CASE Follow
    <2>1. Walking /\ ~Found /\ ~Missing /\ been' = been \cup {at} /\ at' = List.next[at]
      BY <1>2, Zenon DEF Follow, Seen
    <2>2. Walked(List, Target, been \cup {at}, List.next[at])
      BY <2>1, WalkEnds, WalkGoesOn, Zenon DEF WalkInv
    <2>3. List' = List /\ Target' = Target
      BY <1>1, <1>2, Zenon DEF Follow
    <2> QED BY <2>1, <2>2, <2>3, Zenon DEF WalkInv
  <1>3. ASSUME NEW place \in {"eligible", "caps", "ext"}, NEW p \in Ports, StartWalk(place, p), setup' = setup,
               dev' = dev
        PROVE  WalkInv'
    <2>1. /\ pc' = place /\ port' = p /\ been' = {}
          /\ at' = IF place = "ext" THEN Port(Device, p).ext.head ELSE Port(Device, p).caps.head
      BY <1>3, Zenon DEF StartWalk
    <2>2. Device' = Device
      BY <1>3, Zenon DEF Device, Devices
    <2>3. List' = IF place = "ext" THEN Port(Device, p).ext ELSE Port(Device, p).caps
      BY <2>1, <2>2, SMT DEF List, Port
    <2>4. at' = List'.head
      BY <2>1, <2>3, Zenon
    <2>5. Walked(List', Target', {}, List'.head)
      BY WalkStarts, Zenon
    <2> QED BY <2>1, <2>4, <2>5, Zenon DEF WalkInv
  <1>4. CASE SelectDevice
    <2>1. "usp" \in Ports /\ "eligible" \in {"eligible", "caps", "ext"}
      BY SMT DEF Ports
    <2> QED BY <1>3, <1>4, <2>1, Starts, Zenon
  <1>5. CASE FindDSP
    <2>1. "dsp" \in Ports /\ "caps" \in {"eligible", "caps", "ext"}
      BY SMT DEF Ports
    <2> QED BY <1>3, <1>5, <2>1, Starts, Zenon
  <1>6. CASE CheckSpeed
    <2>1. port \in Ports /\ "ext" \in {"eligible", "caps", "ext"}
      BY Zenon DEF TypeInv
    <2> QED BY <1>3, <1>6, <2>1, Starts, Zenon
  <1>7. CASE CheckLmr /\ port = "dsp"
    <2>1. "usp" \in Ports /\ "caps" \in {"eligible", "caps", "ext"}
      BY SMT DEF Ports
    <2> QED BY <1>3, <1>7, <2>1, Starts, Zenon
  <1>8. CASE \/ SkipDevice \/ LeaveOut \/ FindDSPFails \/ EnlistTrained \/ TrainedFails \/ Conclude
             \/ CheckLmr /\ port # "dsp"
    <2>1. pc' = "device" \/ pc' = "done"
      BY <1>8, NoWalk, Zenon
    <2> QED BY <2>1, SMT DEF WalkInv, Walking
  <1>9. CASE UNCHANGED vars
    <2>1. List' = List /\ Target' = Target /\ (Walking' <=> Walking) /\ been' = been /\ at' = at
      BY <1>1, <1>9, Zenon DEF vars
    <2> QED BY <2>1, Zenon DEF WalkInv
  <1> QED BY <1>2, <1>4, <1>5, <1>6, <1>7, <1>8, <1>9, Zenon DEF Next

-----------------------------------------------------------------------------
\* Where the search is.

LEMMA PlaceInit == Init => PlaceInv
  BY SMT DEF Init, PlaceInv, Walking

\* The PCIe capability of the upstream port was found: the device is eligible.
LEMMA FoundEligible ==
  ASSUME TypeInv, PlaceInv, WalkInv, pc = "eligible", Found
  PROVE  RightType(Device) <=> Eligible(dev)
  <1>1. Walking /\ pc # "ext"
    BY SMT DEF Walking
  <1>2. List = Device.usp.caps /\ Target = Targets.caps
    BY <1>1, ListIs, Zenon DEF PlaceInv, Port
  <1>3. FirstOf(Device.usp.caps, Targets.caps) # Null
    BY <1>1, <1>2, WalkEnds, Zenon
  <1>4. Selected(Device, setup.request)
    BY <1>1, Zenon DEF PlaceInv
  <1> QED BY <1>3, <1>4, Zenon DEF Eligible, RightType, Device

LEMMA MissingEligible ==
  ASSUME TypeInv, PlaceInv, WalkInv, pc = "eligible", Missing
  PROVE  ~Eligible(dev)
  <1>1. Walking /\ pc # "ext"
    BY SMT DEF Walking
  <1>2. List = Device.usp.caps /\ Target = Targets.caps
    BY <1>1, ListIs, Zenon DEF PlaceInv, Port
  <1>3. FirstOf(Device.usp.caps, Targets.caps) = Null
    BY <1>1, <1>2, WalkEnds, Zenon
  <1> QED BY <1>3, Zenon DEF Eligible, Device

LEMMA EligibleSame ==
  ASSUME setup' = setup
  PROVE  /\ Devices' = Devices /\ LinkType' = LinkType
         /\ \A i : (Eligible(i)' <=> Eligible(i)) /\ (Refused(i)' <=> Refused(i))
  BY Zenon DEF Devices, LinkType, Eligible, Refused

LEMMA PlaceStep == TypeInv /\ PlaceInv /\ WalkInv /\ [Next]_vars => PlaceInv'
  <1> SUFFICES ASSUME TypeInv, PlaceInv, WalkInv, [Next]_vars PROVE PlaceInv'
    OBVIOUS
  <1>1. ASSUME UNCHANGED <<setup, pc, dev, port, outcome>> PROVE PlaceInv'
    BY <1>1, Zenon DEF PlaceInv, Walking, Device, Devices, Eligible
  <1>2. CASE Follow \/ UNCHANGED vars
    BY <1>1, <1>2, Zenon DEF Follow, vars
  <1>3. ASSUME setup' = setup, dev' = dev, dev <= Len(Devices), Selected(Device, setup.request),
               outcome' = outcome, pc # "done",
               \/ pc' = "eligible" /\ port' = "usp"
               \/ pc' = "caps" /\ port' = "dsp" /\ Eligible(dev) /\ Device.dsp # {}
               \/ /\ pc' = "caps" \/ pc' = "ext"
                  /\ setup.tool # "ltt" /\ Eligible(dev) /\ Device.dsp # {}
        PROVE  PlaceInv'
    <2>1. Device' = Device /\ Devices' = Devices /\ (Eligible(dev)' <=> Eligible(dev))
      BY <1>3, EligibleSame, Zenon DEF Device, Devices
    <2>2. outcome = "none"
      BY <1>3, Zenon DEF PlaceInv
    <2>3. dev' <= Len(Devices') /\ Selected(Device', setup'.request)
      BY <1>3, <2>1, Zenon
    <2>4. /\ pc' = "eligible" => port' = "usp"
          /\ pc' \in {"caps", "ext"} => Eligible(dev)' /\ Device'.dsp # {}
          /\ setup'.tool = "ltt" => pc' # "ext" /\ (pc' = "caps" => port' = "dsp")
      BY <1>3, <2>1, SMT
    <2> QED BY <1>3, <2>2, <2>3, <2>4, Zenon DEF PlaceInv
  <1>4. CASE SelectDevice
    BY <1>3, <1>4, SMT DEF SelectDevice, StartWalk
  <1>5. CASE FindDSP
    <2>1. Eligible(dev)
      BY <1>5, FoundEligible, Zenon DEF FindDSP
    <2>2. Walking
      BY <1>5, SMT DEF FindDSP, Walking
    <2> QED BY <1>3, <1>5, <2>1, <2>2, SMT DEF FindDSP, StartWalk, PlaceInv
  <1>6. CASE CheckSpeed
    <2>1. Walking /\ pc \in {"caps", "ext"} /\ setup.tool # "ltt"
      BY <1>6, SMT DEF CheckSpeed, Walking
    <2> QED BY <1>3, <1>6, <2>1, SMT DEF CheckSpeed, StartWalk, PlaceInv
  <1>7. CASE CheckLmr /\ port = "dsp"
    <2>1. Walking /\ pc \in {"caps", "ext"} /\ setup.tool # "ltt"
      BY <1>7, SMT DEF CheckLmr, Walking, PlaceInv
    <2> QED BY <1>3, <1>7, <2>1, SMT DEF CheckLmr, StartWalk, PlaceInv
  <1>8. CASE SkipDevice \/ LeaveOut \/ EnlistTrained \/ (CheckLmr /\ port # "dsp")
    <2>1. /\ pc' = "device" /\ outcome' = outcome
          /\ pc = "device" \/ pc = "eligible" \/ pc = "caps" \/ pc = "ext"
      BY <1>8, Zenon DEF SkipDevice, LeaveOut, EnlistTrained, CheckLmr, NextDevice
    <2> QED BY <2>1, SMT DEF PlaceInv, Walking
  <1>9. CASE FindDSPFails \/ TrainedFails \/ Conclude
    <2>1. /\ pc' = "done"
          /\ \/ outcome' = "noPort" \/ outcome' = "noCapability"
             \/ outcome' = "noDevices" \/ outcome' = "noneMatch" \/ outcome' = "test"
      BY <1>9, Zenon DEF FindDSPFails, TrainedFails, Conclude, Refuse
    <2> QED BY <2>1, SMT DEF PlaceInv, Walking
  <1> QED BY <1>2, <1>4, <1>5, <1>6, <1>7, <1>8, <1>9, Zenon DEF Next

-----------------------------------------------------------------------------
\* What a step makes of the links.

\* A link as it was, but for a check of a port, or an offset or address of a port.
Judged(l, r, p, ok) ==
  /\ r \in LinkType /\ r.dev = l.dev
  /\ r.pcieCapOffset = l.pcieCapOffset /\ r.lmrAddr = l.lmrAddr
  /\ r.testReady <=> l.testReady /\ ok
  /\ r.ready[p] <=> l.ready[p] /\ ok
  /\ \A q \in Ports : q # p => r.ready[q] = l.ready[q]
Capped(l, r, p, a) ==
  /\ r \in LinkType /\ r.dev = l.dev /\ r.lmrAddr = l.lmrAddr
  /\ r.testReady = l.testReady /\ r.ready = l.ready /\ r.pcieCapOffset[p] = a
  /\ \A q \in Ports : q # p => r.pcieCapOffset[q] = l.pcieCapOffset[q]
Addressed(l, r, p, a) ==
  /\ r \in LinkType /\ r.dev = l.dev /\ r.pcieCapOffset = l.pcieCapOffset
  /\ r.testReady = l.testReady /\ r.ready = l.ready /\ r.lmrAddr[p] = a
  /\ \A q \in Ports : q # p => r.lmrAddr[q] = l.lmrAddr[q]

LEMMA ReadyIfMakes ==
  ASSUME NEW l \in LinkType, NEW p \in Ports, NEW ok
  PROVE  Judged(l, ReadyIf(l, p, ok), p, ok)
  <1> DEFINE r == ReadyIf(l, p, ok)
  <1> SUFFICES Judged(l, r, p, ok)
    OBVIOUS
  <1>1. CASE ok
    BY <1>1, Zenon DEF ReadyIf, Judged
  <1>2. CASE ~ok
    <2> DEFINE Flag == BOOLEAN
               off == FALSE
               Flags == [Ports -> BOOLEAN]
               Offsets == [Ports -> Addrs \cup {Null}]
               Numbers == 1 .. Len(Devices)
               new == [l.ready EXCEPT ![p] = FALSE]
               m == [l EXCEPT !.ready = new]
    <2>1. off \in Flag /\ new \in Flags
      BY Zenon DEF LinkType
    <2>2. new[p] = FALSE /\ \A q \in Ports : q # p => new[q] = l.ready[q]
      BY Zenon DEF LinkType
    <2>3. r = [m EXCEPT !.testReady = off]
      BY <1>2, Zenon DEF ReadyIf
    <2>4. LinkType = [dev : Numbers, testReady : Flag, ready : Flags,
                      pcieCapOffset : Offsets, lmrAddr : Offsets]
      BY Zenon DEF LinkType
    <2>5. l \in LinkType
      OBVIOUS
    <2> HIDE DEF off, new, Flag, Flags, Offsets, Numbers
    <2>6. m \in LinkType /\ m.ready = new /\ m.dev = l.dev
          /\ m.pcieCapOffset = l.pcieCapOffset /\ m.lmrAddr = l.lmrAddr
      BY <2>1, <2>4, <2>5, SMT
    <2> HIDE DEF m, r
    <2>7. r \in LinkType /\ r.ready = m.ready /\ r.testReady = off /\ r.dev = m.dev
          /\ r.pcieCapOffset = m.pcieCapOffset /\ r.lmrAddr = m.lmrAddr
      BY <2>1, <2>3, <2>4, <2>6, SMT
    <2> QED BY <1>2, <2>2, <2>6, <2>7, Zenon DEF off, Judged
  <1> QED BY <1>1, <1>2, Zenon

LEMMA CapMakes ==
  ASSUME NEW l \in LinkType, NEW p \in Ports, NEW a \in Addrs
  PROVE  Capped(l, [l EXCEPT !.pcieCapOffset[p] = a], p, a)
  <1> DEFINE r == [l EXCEPT !.pcieCapOffset[p] = a]
             Offsets == [Ports -> Addrs \cup {Null}]
             caps == [l.pcieCapOffset EXCEPT ![p] = a]
  <1> SUFFICES Capped(l, r, p, a)
    OBVIOUS
  <1>1. caps \in Offsets /\ caps[p] = a
    BY Zenon DEF LinkType
  <1>2. \A q \in Ports : q # p => caps[q] = l.pcieCapOffset[q]
    BY Zenon DEF LinkType
  <1>3. r = [l EXCEPT !.pcieCapOffset = caps]
    BY Zenon
  <1>4. l \in LinkType
    OBVIOUS
  <1>5. LinkType = [dev : 1 .. Len(Devices), testReady : BOOLEAN, ready : [Ports -> BOOLEAN],
                    pcieCapOffset : Offsets, lmrAddr : Offsets]
    BY Zenon DEF LinkType
  <1> HIDE DEF r, caps, Offsets
  <1>6. /\ r \in LinkType /\ r.dev = l.dev /\ r.lmrAddr = l.lmrAddr
        /\ r.testReady = l.testReady /\ r.ready = l.ready /\ r.pcieCapOffset = caps
    BY <1>1, <1>3, <1>4, <1>5, SMT
  <1> QED BY <1>1, <1>2, <1>6, Zenon DEF Capped

LEMMA AddrMakes ==
  ASSUME NEW l \in LinkType, NEW p \in Ports, NEW a \in Addrs
  PROVE  Addressed(l, [l EXCEPT !.lmrAddr[p] = a], p, a)
  <1> DEFINE r == [l EXCEPT !.lmrAddr[p] = a]
             Offsets == [Ports -> Addrs \cup {Null}]
             lmrs == [l.lmrAddr EXCEPT ![p] = a]
  <1> SUFFICES Addressed(l, r, p, a)
    OBVIOUS
  <1>1. lmrs \in Offsets /\ lmrs[p] = a
    BY Zenon DEF LinkType
  <1>2. \A q \in Ports : q # p => lmrs[q] = l.lmrAddr[q]
    BY Zenon DEF LinkType
  <1>3. r = [l EXCEPT !.lmrAddr = lmrs]
    BY Zenon
  <1>4. l \in LinkType
    OBVIOUS
  <1>5. LinkType = [dev : 1 .. Len(Devices), testReady : BOOLEAN, ready : [Ports -> BOOLEAN],
                    pcieCapOffset : Offsets, lmrAddr : Offsets]
    BY Zenon DEF LinkType
  <1> HIDE DEF r, lmrs, Offsets
  <1>6. /\ r \in LinkType /\ r.dev = l.dev /\ r.pcieCapOffset = l.pcieCapOffset
        /\ r.testReady = l.testReady /\ r.ready = l.ready /\ r.lmrAddr = lmrs
    BY <1>1, <1>3, <1>4, <1>5, SMT
  <1> QED BY <1>1, <1>2, <1>6, Zenon DEF Addressed

LEMMA LinkFacts ==
  ASSUME TypeInv, Enlisted, ListInv
  PROVE  /\ Len(links) \in Nat \ {0} /\ Len(links) \in 1 .. Len(links) /\ Link = links[Len(links)]
         /\ Link \in LinkType /\ Link.dev = dev
  <1>1. links \in Seq(LinkType) /\ Len(links) # 0 /\ links[Len(links)].dev = dev
    BY Zenon DEF TypeInv, ListInv
  <1>2. Link = links[Len(links)]
    BY Zenon DEF Link, Last
  <1> HIDE DEF LinkType
  <1>3. Len(links) \in Nat \ {0} /\ Len(links) \in 1 .. Len(links) /\ links[Len(links)] \in LinkType
    BY <1>1, SMT
  <1> QED BY <1>1, <1>2, <1>3, Zenon

\* A link is enlisted.
LEMMA FindDSPMakes ==
  ASSUME TypeInv, PlaceInv, FindDSP
  PROVE  IF setup.tool = "ltt" THEN links' = links
         ELSE \E l \in LinkType : /\ links' = Append(links, l) /\ l.dev = dev /\ l.testReady
                                  /\ Fresh(l, "dsp") /\ Fresh(l, "usp")
  <1>1. CASE setup.tool = "ltt"
    BY <1>1, Zenon DEF FindDSP
  <1>2. CASE setup.tool # "ltt"
    <2> DEFINE nulls == [p \in Ports |-> Null]
               trues == [p \in Ports |-> TRUE]
               l == [dev |-> dev, testReady |-> TRUE, ready |-> trues, pcieCapOffset |-> nulls, lmrAddr |-> nulls]
    <2>1. links' = Append(links, l)
      BY <1>2, Zenon DEF FindDSP
    <2>2. nulls \in [Ports -> Addrs \cup {Null}] /\ trues \in [Ports -> BOOLEAN]
      BY Zenon
    <2>3. nulls["dsp"] = Null /\ nulls["usp"] = Null /\ trues["dsp"] = TRUE /\ trues["usp"] = TRUE
      BY SMT DEF Ports
    <2>4. dev \in 1 .. Len(Devices)
      BY Starts, Zenon
    <2> HIDE DEF nulls, trues
    <2>5. l \in LinkType
      BY <2>2, <2>4, Zenon DEF LinkType
    <2>6. l.dev = dev /\ l.testReady = TRUE /\ Fresh(l, "dsp") /\ Fresh(l, "usp")
      BY <2>3, Zenon DEF Fresh
    <2> HIDE DEF l
    <2> QED BY <1>2, <2>1, <2>5, <2>6, Zenon
  <1> QED BY <1>1, <1>2, Zenon

LEMMA EnlistMakes ==
  ASSUME TypeInv, PlaceInv, WalkInv, EnlistTrained
  PROVE  /\ at = CapOf(dev, "dsp") /\ at # Null
         /\ \E l \in LinkType : /\ links' = Append(links, l) /\ l.dev = dev /\ l.testReady
                                /\ l.pcieCapOffset["dsp"] = at
  <1>0. Walking /\ pc # "ext" /\ port = "dsp"
    BY SMT DEF EnlistTrained, Walking, PlaceInv
  <1>1. List = Port(Device, "dsp").caps /\ Target = Targets.caps
    BY <1>0, ListIs, Zenon
  <1>2. at \in Addrs /\ at # Null /\ at = CapOf(dev, "dsp")
    BY <1>0, <1>1, WalkEnds, Zenon DEF EnlistTrained, CapOf, Device
  <1> DEFINE caps == [p \in Ports |-> IF p = "dsp" THEN at ELSE Null]
             nulls == [p \in Ports |-> Null]
             trues == [p \in Ports |-> TRUE]
             l == [dev |-> dev, testReady |-> TRUE, ready |-> trues, pcieCapOffset |-> caps, lmrAddr |-> nulls]
  <1>3. links' = Append(links, l)
    BY Zenon DEF EnlistTrained
  <1>4. nulls \in [Ports -> Addrs \cup {Null}] /\ trues \in [Ports -> BOOLEAN]
    BY Zenon
  <1>5. caps \in [Ports -> Addrs \cup {Null}] /\ caps["dsp"] = at
    BY <1>2, SMT DEF Ports
  <1>6. dev \in 1 .. Len(Devices)
    BY <1>0, WalkFacts, Zenon
  <1> HIDE DEF caps, nulls, trues
  <1>7. l \in LinkType
    BY <1>4, <1>5, <1>6, Zenon DEF LinkType
  <1>8. l.dev = dev /\ l.testReady = TRUE /\ l.pcieCapOffset["dsp"] = at
    BY <1>5, Zenon
  <1> HIDE DEF l
  <1> QED BY <1>2, <1>3, <1>7, <1>8, Zenon

\* What lmt finds of a port is noted in the link.
LEMMA SpeedMakes ==
  ASSUME TypeInv, PlaceInv, WalkInv, ListInv, CheckSpeed
  PROVE  /\ Enlisted
         /\ \E r \in LinkType :
              /\ links' = [links EXCEPT ![Len(links)] = r] /\ r.dev = dev
              /\ r.lmrAddr = Link.lmrAddr
              /\ r.testReady <=> Link.testReady /\ SpeedOk(dev, port)
              /\ r.ready[port] <=> Link.ready[port] /\ SpeedOk(dev, port)
              /\ Link.pcieCapOffset[port] = Null => r.pcieCapOffset[port] = CapOf(dev, port)
              /\ \A q \in Ports : q # port => /\ r.ready[q] = Link.ready[q]
                                              /\ r.pcieCapOffset[q] = Link.pcieCapOffset[q]
  <1>0. Walking /\ pc # "ext" /\ Enlisted /\ port \in Ports
    <2>1. port \in Ports
      BY Zenon DEF TypeInv
    <2>2. Walking /\ pc # "ext" /\ Enlisted
      BY SMT DEF CheckSpeed, Walking, Enlisted
    <2> QED BY <2>1, <2>2, Zenon
  <1>1. Link \in LinkType /\ Link.dev = dev
    BY <1>0, LinkFacts, Zenon
  <1>2. List = Port(Device, port).caps /\ Target = Targets.caps
    BY <1>0, ListIs, Zenon
  <1>3. FirstOf(List, Target) = CapOf(dev, port)
    BY <1>2, Zenon DEF CapOf, Device
  <1>4. CASE Missing
    <2> DEFINE r == ReadyIf(Link, port, FALSE)
    <2>1. links' = [links EXCEPT ![Len(links)] = r]
      BY <1>4, Zenon DEF CheckSpeed
    <2>2. CapOf(dev, port) = Null
      BY <1>0, <1>3, <1>4, WalkEnds, Zenon
    <2>3. ~SpeedOk(dev, port)
      BY <2>2, Zenon DEF SpeedOk
    <2>4. Judged(Link, r, port, FALSE)
      BY <1>0, <1>1, ReadyIfMakes, Zenon
    <2> HIDE DEF r
    <2> QED BY <1>0, <1>1, <2>1, <2>2, <2>3, <2>4, Zenon DEF Judged
  <1>5. CASE ~Missing
    <2> DEFINE ok == RightSpeed(Port(Device, port))
               o == [Link EXCEPT !.pcieCapOffset[port] = at]
               r == ReadyIf(o, port, ok)
    <2>1. links' = [links EXCEPT ![Len(links)] = r] /\ Found
      BY <1>5, Zenon DEF CheckSpeed
    <2>2. at \in Addrs /\ CapOf(dev, port) = at /\ at # Null
      BY <1>0, <1>3, <2>1, WalkEnds, Zenon
    <2>3. SpeedOk(dev, port) <=> ok
      BY <2>2, Zenon DEF SpeedOk, Device
    <2> HIDE DEF ok
    <2>4. Capped(Link, o, port, at)
      BY <1>0, <1>1, <2>2, CapMakes, Zenon
    <2> HIDE DEF o
    <2>5. Judged(o, r, port, ok)
      BY <1>0, <2>4, ReadyIfMakes, Zenon DEF Capped
    <2> HIDE DEF r
    <2>6. /\ r \in LinkType /\ r.dev = dev /\ r.lmrAddr = Link.lmrAddr
          /\ r.testReady <=> Link.testReady /\ SpeedOk(dev, port)
          /\ r.ready[port] <=> Link.ready[port] /\ SpeedOk(dev, port)
          /\ r.pcieCapOffset[port] = CapOf(dev, port)
          /\ \A q \in Ports : q # port => r.ready[q] = Link.ready[q] /\ r.pcieCapOffset[q] = Link.pcieCapOffset[q]
      BY <1>1, <2>2, <2>3, <2>4, <2>5, Zenon DEF Judged, Capped
    <2> QED BY <1>0, <2>1, <2>6, Zenon
  <1> QED BY <1>4, <1>5, Zenon

LEMMA LmrMakes ==
  ASSUME TypeInv, PlaceInv, WalkInv, ListInv, CheckLmr
  PROVE  /\ Enlisted
         /\ \E r \in LinkType :
              /\ links' = [links EXCEPT ![Len(links)] = r] /\ r.dev = dev
              /\ r.pcieCapOffset = Link.pcieCapOffset
              /\ r.testReady <=> Link.testReady /\ LmrOf(dev, port) # Null
              /\ r.ready[port] <=> Link.ready[port] /\ LmrOf(dev, port) # Null
              /\ Link.lmrAddr[port] = Null => r.lmrAddr[port] = LmrOf(dev, port)
              /\ \A q \in Ports : q # port => r.ready[q] = Link.ready[q] /\ r.lmrAddr[q] = Link.lmrAddr[q]
  <1>0. Walking /\ pc = "ext" /\ Enlisted /\ port \in Ports
    <2>1. port \in Ports /\ setup \in Setups
      BY Zenon DEF TypeInv
    <2>2. setup.tool = "lmt" \/ setup.tool = "ltt"
      BY <2>1, SetupFacts, Zenon
    <2>3. Walking /\ pc = "ext" /\ Enlisted
      BY <2>2, SMT DEF CheckLmr, Walking, Enlisted, PlaceInv
    <2> QED BY <2>1, <2>3, Zenon
  <1>1. Link \in LinkType /\ Link.dev = dev
    BY <1>0, LinkFacts, Zenon
  <1>2. List = Port(Device, port).ext /\ Target = Targets.ext
    BY <1>0, ListIs, Zenon
  <1>3. FirstOf(List, Target) = LmrOf(dev, port)
    BY <1>2, Zenon DEF LmrOf, Device
  <1>4. CASE Missing
    <2> DEFINE r == ReadyIf(Link, port, FALSE)
    <2>1. links' = [links EXCEPT ![Len(links)] = r]
      BY <1>4, Zenon DEF CheckLmr
    <2>2. LmrOf(dev, port) = Null
      BY <1>0, <1>3, <1>4, WalkEnds, Zenon
    <2>3. Judged(Link, r, port, FALSE)
      BY <1>0, <1>1, ReadyIfMakes, Zenon
    <2> HIDE DEF r
    <2> QED BY <1>0, <1>1, <2>1, <2>2, <2>3, Zenon DEF Judged
  <1>5. CASE ~Missing
    <2> DEFINE o == [Link EXCEPT !.lmrAddr[port] = at]
               r == ReadyIf(o, port, TRUE)
    <2>1. links' = [links EXCEPT ![Len(links)] = r] /\ Found
      BY <1>5, Zenon DEF CheckLmr
    <2>2. at \in Addrs /\ LmrOf(dev, port) = at /\ at # Null
      BY <1>0, <1>3, <2>1, WalkEnds, Zenon
    <2>3. Addressed(Link, o, port, at)
      BY <1>0, <1>1, <2>2, AddrMakes, Zenon
    <2> HIDE DEF o
    <2>4. Judged(o, r, port, TRUE)
      BY <1>0, <2>3, ReadyIfMakes, Zenon DEF Addressed
    <2> HIDE DEF r
    <2>5. /\ r \in LinkType /\ r.dev = dev /\ r.pcieCapOffset = Link.pcieCapOffset
          /\ r.testReady <=> Link.testReady
          /\ r.ready[port] <=> Link.ready[port]
          /\ r.lmrAddr[port] = LmrOf(dev, port)
          /\ \A q \in Ports : q # port => r.ready[q] = Link.ready[q] /\ r.lmrAddr[q] = Link.lmrAddr[q]
      BY <1>1, <2>2, <2>3, <2>4, Zenon DEF Judged, Addressed
    <2> QED BY <1>0, <2>1, <2>2, <2>5, Zenon
  <1> QED BY <1>4, <1>5, Zenon

LEMMA AppendMakes ==
  ASSUME TypeInv, NEW l \in LinkType, links' = Append(links, l)
  PROVE  /\ links' \in Seq(LinkType) /\ Len(links) \in Nat /\ Len(links') = Len(links) + 1
         /\ links'[Len(links) + 1] = l /\ \A k \in 1 .. Len(links) : links'[k] = links[k]
  <1>1. links \in Seq(LinkType)
    BY Zenon DEF TypeInv
  <1> HIDE DEF LinkType
  <1> QED BY <1>1, SMT

LEMMA ReplaceMakes ==
  ASSUME TypeInv, NEW r \in LinkType, Len(links) \in 1 .. Len(links), links' = [links EXCEPT ![Len(links)] = r]
  PROVE  /\ links' \in Seq(LinkType) /\ Len(links) \in Nat /\ Len(links') = Len(links)
         /\ links'[Len(links)] = r /\ \A k \in 1 .. Len(links) : k # Len(links) => links'[k] = links[k]
  <1>1. links \in Seq(LinkType)
    BY Zenon DEF TypeInv
  <1> HIDE DEF LinkType
  <1> QED BY <1>1, SMT

LEMMA SameMakes ==
  ASSUME \/ Follow \/ SkipDevice \/ SelectDevice \/ LeaveOut \/ FindDSPFails \/ TrainedFails \/ Conclude
         \/ UNCHANGED vars
  PROVE  links' = links
  BY Zenon DEF Follow, SkipDevice, SelectDevice, LeaveOut, FindDSPFails, TrainedFails, Conclude, vars

-----------------------------------------------------------------------------
\* Types.

LEMMA SetupStays ==
  ASSUME [Next]_vars
  PROVE  setup' = setup /\ Devices' = Devices /\ LinkType' = LinkType
         /\ Eligibles' = Eligibles /\ Refusing' = Refusing
  <1>1. setup' = setup
    BY Zenon DEF Next, vars, Follow, SkipDevice, SelectDevice, LeaveOut, FindDSP, FindDSPFails, EnlistTrained,
                 TrainedFails, CheckSpeed, CheckLmr, Conclude
  <1> QED BY <1>1, EligibleSame, Zenon DEF Eligibles, Refusing, Eligible, Refused, Devices

LEMMA LinksType ==
  ASSUME TypeInv, PlaceInv, WalkInv, ListInv, [Next]_vars
  PROVE  links' \in Seq(LinkType)
  <1>1. links \in Seq(LinkType)
    BY Zenon DEF TypeInv
  <1>2. CASE FindDSP
    <2>1. CASE setup.tool = "ltt"
      BY <1>1, <1>2, <2>1, FindDSPMakes, Zenon
    <2>2. CASE setup.tool # "ltt"
      BY <1>2, <2>2, FindDSPMakes, AppendMakes, Zenon
    <2> QED BY <2>1, <2>2, Zenon
  <1>3. CASE EnlistTrained
    BY <1>3, EnlistMakes, AppendMakes, Zenon
  <1>4. CASE CheckSpeed
    BY <1>4, SpeedMakes, LinkFacts, ReplaceMakes, Zenon
  <1>5. CASE CheckLmr
    BY <1>5, LmrMakes, LinkFacts, ReplaceMakes, Zenon
  <1>6. CASE UNCHANGED vars
    BY <1>1, <1>6, SameMakes, Zenon
  <1> QED BY <1>1, <1>2, <1>3, <1>4, <1>5, <1>6, SameMakes, Zenon DEF Next

LEMMA TypeInit == Init => TypeInv
  <1> SUFFICES ASSUME Init PROVE TypeInv
    OBVIOUS
  <1>1. setup \in Setups /\ Len(Devices) \in Nat
    BY SetupFacts, Zenon DEF Init
  <1>2. links \in Seq(LinkType)
    <2>1. links = <<>>
      BY Zenon DEF Init
    <2> HIDE DEF LinkType
    <2> QED BY <2>1, SMT
  <1>3. dev \in 1 .. Len(Devices) + 1
    BY <1>1, SMT DEF Init
  <1>4. at \in Addrs \cup {Null} /\ been \in SUBSET Addrs
    BY Zenon DEF Init
  <1>5. /\ pc \in {"device", "eligible", "caps", "ext", "done"} /\ port \in Ports
        /\ outcome \in {"none", "noDevices", "noPort", "noCapability", "noneMatch", "test"}
    BY SMT DEF Init, Ports
  <1> QED BY <1>1, <1>2, <1>3, <1>4, <1>5, Zenon DEF TypeInv

LEMMA WalkTypes ==
  ASSUME TypeInv, PlaceInv, WalkInv, [Next]_vars
  PROVE  port' \in Ports /\ at' \in Addrs \cup {Null} /\ been' \in SUBSET Addrs
  <1>1. port \in Ports /\ at \in Addrs \cup {Null} /\ been \in SUBSET Addrs /\ {} \in SUBSET Addrs
    BY Zenon DEF TypeInv
  <1>2. "usp" \in Ports /\ "dsp" \in Ports
    BY SMT DEF Ports
  <1>3. CASE Follow
    BY <1>1, <1>3, FollowTypes, Zenon DEF Follow
  <1>4. CASE SelectDevice
    <2>1. "usp" = "dsp" => Device.dsp # {}
      BY SMT
    <2> QED BY <1>1, <1>2, <1>4, <2>1, Starts, StartWalkTypes, Zenon
  <1>5. CASE FindDSP
    BY <1>1, <1>2, <1>5, Starts, StartWalkTypes, Zenon
  <1>6. CASE CheckSpeed
    BY <1>1, <1>2, <1>6, Starts, StartWalkTypes, Zenon
  <1>7. CASE CheckLmr /\ port = "dsp"
    <2>1. "usp" = "dsp" => Device.dsp # {}
      BY SMT
    <2> QED BY <1>1, <1>2, <1>7, <2>1, Starts, StartWalkTypes, Zenon
  <1>8. CASE \/ SkipDevice \/ LeaveOut \/ FindDSPFails \/ EnlistTrained \/ TrainedFails \/ Conclude
             \/ CheckLmr /\ port # "dsp"
    BY <1>1, <1>8, NoWalk, Zenon
  <1>9. CASE UNCHANGED vars
    BY <1>1, <1>9, Zenon DEF vars
  <1> QED BY <1>3, <1>4, <1>5, <1>6, <1>7, <1>8, <1>9, Zenon DEF Next

\* The device looked at is one of the machine's while there is a walk, or one is to be skipped.
LEMMA DevStep ==
  ASSUME TypeInv, PlaceInv, [Next]_vars
  PROVE  /\ dev' = dev \/ (dev' = dev + 1 /\ dev <= Len(Devices))
         /\ pc' \in {"device", "eligible", "caps", "ext", "done"}
  <1>1. pc \in {"device", "eligible", "caps", "ext", "done"}
    BY Zenon DEF TypeInv
  <1>2. Walking => dev <= Len(Devices)
    BY Zenon DEF PlaceInv
  <1>3. CASE Follow \/ UNCHANGED vars
    BY <1>1, <1>3, Zenon DEF Follow, vars
  <1>4. CASE SelectDevice \/ FindDSP \/ CheckSpeed \/ (CheckLmr /\ port = "dsp")
    <2>1. dev' = dev /\ (pc' = "eligible" \/ pc' = "caps" \/ pc' = "ext")
      BY <1>4, Zenon DEF SelectDevice, FindDSP, CheckSpeed, CheckLmr, StartWalk
    <2> QED BY <2>1, SMT
  <1>5. CASE LeaveOut \/ EnlistTrained \/ (CheckLmr /\ port # "dsp")
    <2>1. pc = "eligible" \/ pc = "caps" \/ pc = "ext"
      BY <1>5, Zenon DEF LeaveOut, EnlistTrained, CheckLmr
    <2>2. Walking
      BY <2>1, SMT DEF Walking
    <2>3. dev' = dev + 1 /\ pc' = "device"
      BY <1>5, Zenon DEF LeaveOut, EnlistTrained, CheckLmr, NextDevice
    <2> QED BY <1>2, <2>2, <2>3, SMT
  <1>6. CASE SkipDevice
    BY <1>6, SMT DEF SkipDevice, NextDevice
  <1>7. CASE FindDSPFails \/ TrainedFails \/ Conclude
    <2>1. pc' = "done" /\ dev' = dev
      BY <1>7, Zenon DEF FindDSPFails, TrainedFails, Conclude, Refuse
    <2> QED BY <2>1, SMT
  <1> QED BY <1>3, <1>4, <1>5, <1>6, <1>7, Zenon DEF Next

LEMMA OutcomeType ==
  ASSUME TypeInv, [Next]_vars
  PROVE  outcome' \in {"none", "noDevices", "noPort", "noCapability", "noneMatch", "test"}
  <1>1. outcome \in {"none", "noDevices", "noPort", "noCapability", "noneMatch", "test"}
    BY Zenon DEF TypeInv
  <1>2. CASE Conclude
    <2>1. outcome' = "noDevices" \/ outcome' = "noneMatch" \/ outcome' = "test"
      BY <1>2, Zenon DEF Conclude
    <2> QED BY <2>1, SMT
  <1>3. CASE FindDSPFails \/ TrainedFails
    <2>1. outcome' = "noPort" \/ outcome' = "noCapability"
      BY <1>3, Zenon DEF FindDSPFails, TrainedFails, Refuse
    <2> QED BY <2>1, SMT
  <1>4. CASE ~Conclude /\ ~FindDSPFails /\ ~TrainedFails
    <2>1. outcome' = outcome
      BY <1>4, Zenon DEF Next, vars, Follow, SkipDevice, SelectDevice, LeaveOut, FindDSP, EnlistTrained,
                         CheckSpeed, CheckLmr
    <2> QED BY <1>1, <2>1, Zenon
  <1> QED BY <1>2, <1>3, <1>4, Zenon

LEMMA TypeStep == TypeInv /\ PlaceInv /\ WalkInv /\ ListInv /\ [Next]_vars => TypeInv'
  <1> SUFFICES ASSUME TypeInv, PlaceInv, WalkInv, ListInv, [Next]_vars PROVE TypeInv'
    OBVIOUS
  <1>1. setup' \in Setups /\ Devices' = Devices /\ LinkType' = LinkType
    BY SetupStays, Zenon DEF TypeInv
  <1>2. dev' \in 1 .. Len(Devices) + 1
    BY DevStep, DevFacts, SMT
  <1>3. links' \in Seq(LinkType)
    BY LinksType, Zenon
  <1> QED BY <1>1, <1>2, <1>3, DevStep, WalkTypes, OutcomeType, Zenon DEF TypeInv

-----------------------------------------------------------------------------
\* The links are those of the eligible devices.

LEMMA ListInit == Init => ListInv
  <1> SUFFICES ASSUME Init PROVE ListInv
    OBVIOUS
  <1>1. Len(Devices) \in Nat
    BY SetupFacts, Zenon DEF Init
  <1>2. Refusing \subseteq 1 .. Len(Devices)
    BY Zenon DEF Refusing
  <1>3. dev = 1 /\ links = <<>> /\ pc # "done" /\ ~Enlisted
    BY SMT DEF Init, Enlisted
  <1>4. Len(links) = 0
    BY <1>3, SMT
  <1>5. ~\E k \in 1 .. Len(links) : TRUE
    BY <1>4, SMT
  <1>6. \A i \in 1 .. Len(Devices) : ~(i < dev)
    BY <1>3, SMT
  <1>7. \A i \in Refusing : i >= dev
    BY <1>1, <1>2, <1>3, SMT
  <1>8. Len(links) < dev
    BY <1>3, <1>4, SMT
  <1>9. \A i \in 1 .. Len(Devices) :
          (i \in Eligibles /\ (i < dev \/ (i = dev /\ Enlisted))) <=> \E k \in 1 .. Len(links) : links[k].dev = i
    BY <1>3, <1>5, <1>6, Zenon
  <1> QED BY <1>3, <1>5, <1>7, <1>8, <1>9, Zenon DEF ListInv

\* The numbers of links, which are what matters here, stay or one is added.
LEMMA LinkDevs ==
  ASSUME TypeInv
  PROVE  links \in Seq(LinkType) /\ Len(links) \in Nat /\ \A k \in 1 .. Len(links) : links[k].dev \in 1 .. Len(Devices)
  <1>1. links \in Seq(LinkType) /\ \A l \in LinkType : l.dev \in 1 .. Len(Devices)
    BY Zenon DEF TypeInv, LinkType
  <1> HIDE DEF LinkType
  <1>2. Len(links) \in Nat /\ \A k \in 1 .. Len(links) : links[k] \in LinkType
    BY <1>1, SMT
  <1> QED BY <1>1, <1>2, Zenon

DevsKept == Len(links') = Len(links) /\ \A k \in 1 .. Len(links) : links'[k].dev = links[k].dev
DevAdded ==
  /\ Len(links') = Len(links) + 1 /\ links'[Len(links) + 1].dev = dev
  /\ \A k \in 1 .. Len(links) : links'[k].dev = links[k].dev

LEMMA ListStays ==
  ASSUME TypeInv, ListInv, [Next]_vars, DevsKept, dev' = dev, Enlisted' <=> Enlisted, pc # "done", pc' # "done"
  PROVE  ListInv'
  <1>1. Eligibles' = Eligibles /\ Refusing' = Refusing /\ Devices' = Devices
    BY SetupStays, Zenon
  <1>2. Len(links) \in Nat
    BY LinkDevs, Zenon
  <1>3. Going /\ Going'
    BY Zenon DEF Going
  <1>4. \A k \in 1 .. Len(links) : links'[k].dev = links[k].dev
    BY Zenon DEF DevsKept
  <1>5. Len(links') = Len(links)
    BY Zenon DEF DevsKept
  <1>6. Enlisted => Len(links) \in 1 .. Len(links)
    BY <1>2, SMT DEF ListInv
  <1> QED BY <1>1, <1>3, <1>4, <1>5, <1>6, Zenon DEF ListInv

LEMMA ListPasses ==
  ASSUME TypeInv, ListInv, [Next]_vars, DevsKept, dev' = dev + 1, dev <= Len(Devices), pc # "done", pc' # "done",
         ~Enlisted', dev \in Eligibles <=> Enlisted, dev \notin Refusing
  PROVE  ListInv'
  <1>1. Eligibles' = Eligibles /\ Refusing' = Refusing /\ Devices' = Devices
    BY SetupStays, Zenon
  <1>2. Len(links) \in Nat /\ dev \in Nat \ {0} /\ Len(Devices) \in Nat
    BY LinkDevs, DevFacts, Zenon
  <1>3. \A k \in 1 .. Len(links) : links'[k].dev = links[k].dev /\ links[k].dev \in 1 .. Len(Devices)
    BY LinkDevs, Zenon DEF DevsKept
  <1>4. Len(links') = Len(links)
    BY Zenon DEF DevsKept
  <1>5. Refusing \subseteq 1 .. Len(Devices)
    BY Zenon DEF Refusing
  <1>6. \A i \in 1 .. Len(Devices) :
          (i \in Eligibles /\ (i < dev' \/ (i = dev' /\ Enlisted'))) <=> \E k \in 1 .. Len(links') : links'[k].dev = i
    <2>1. ASSUME NEW i \in 1 .. Len(Devices)
          PROVE  i < dev' <=> (i < dev \/ i = dev)
      BY <1>2, SMT
    <2>2. \A i \in 1 .. Len(Devices) :
            (i \in Eligibles /\ (i < dev \/ (i = dev /\ Enlisted))) <=> \E k \in 1 .. Len(links) : links[k].dev = i
      BY Zenon DEF ListInv, Going
    <2> QED BY <1>3, <1>4, <2>1, <2>2, Zenon
  <1>7. \A j, k \in 1 .. Len(links') : j < k => links'[j].dev < links'[k].dev
    BY <1>3, <1>4, Zenon DEF ListInv
  <1>8. \A k \in 1 .. Len(links') : links'[k].dev < dev'
    <2>1. \A k \in 1 .. Len(links) : links[k].dev < dev \/ links[k].dev = dev
      BY Zenon DEF ListInv
    <2>2. \A n \in 1 .. Len(Devices) : n < dev \/ n = dev => n < dev'
      BY <1>2, SMT
    <2> QED BY <1>3, <1>4, <2>1, <2>2, Zenon
  <1>9. Len(links') < dev'
    BY <1>2, <1>4, SMT DEF ListInv
  <1>10. \A i \in Refusing : i >= dev'
    <2>1. \A i \in Refusing : i >= dev
      BY Zenon DEF ListInv
    <2> QED BY <1>2, <1>5, <2>1, SMT
  <1> QED BY <1>1, <1>6, <1>7, <1>8, <1>9, <1>10, Zenon DEF ListInv

LEMMA ListGrows ==
  ASSUME TypeInv, ListInv, [Next]_vars, DevAdded, ~Enlisted, dev <= Len(Devices), pc # "done", pc' # "done",
         dev \in Eligibles,
         \/ dev' = dev /\ Enlisted'
         \/ dev' = dev + 1 /\ ~Enlisted' /\ dev \notin Refusing
  PROVE  ListInv'
  <1>1. Eligibles' = Eligibles /\ Refusing' = Refusing /\ Devices' = Devices
    BY SetupStays, Zenon
  <1>2. Len(links) \in Nat /\ dev \in Nat \ {0} /\ Len(Devices) \in Nat /\ dev \in 1 .. Len(Devices)
    BY LinkDevs, DevFacts, Zenon
  <1> DEFINE n == Len(links) + 1
  <1>3. /\ \A k \in 1 .. Len(links) : links'[k].dev = links[k].dev /\ links[k].dev \in 1 .. Len(Devices)
        /\ Len(links') = n /\ links'[n].dev = dev
    BY LinkDevs, Zenon DEF DevAdded
  <1>4. n \in 1 .. n /\ \A k \in 1 .. n : k \in 1 .. Len(links) \/ k = n
    BY <1>2, SMT
  <1>a. \A k \in 1 .. Len(links) : k \in 1 .. n
    BY <1>2, SMT
  <1>5. Refusing \subseteq 1 .. Len(Devices)
    BY Zenon DEF Refusing
  <1>6. \A i \in 1 .. Len(Devices) :
          (i \in Eligibles /\ (i < dev' \/ (i = dev' /\ Enlisted'))) <=> \E k \in 1 .. Len(links') : links'[k].dev = i
    <2>1. ASSUME NEW i \in 1 .. Len(Devices)
          PROVE  (i < dev' \/ (i = dev' /\ Enlisted')) <=> (i < dev \/ i = dev)
      BY <1>2, SMT
    <2>2. \A i \in 1 .. Len(Devices) :
            (i \in Eligibles /\ i < dev) <=> \E k \in 1 .. Len(links) : links[k].dev = i
      BY Zenon DEF ListInv, Going
    <2> HIDE DEF n
    <2> QED BY <1>3, <1>4, <1>a, <2>1, <2>2, Zenon
  <1>7. \A j, k \in 1 .. Len(links') : j < k => links'[j].dev < links'[k].dev
    <2>1. \A k \in 1 .. Len(links) : links[k].dev < dev
      BY Zenon DEF ListInv
    <2>2. \A j, k \in 1 .. n : j < k => j \in 1 .. Len(links)
      BY <1>2, SMT
    <2>3. \A j, k \in 1 .. Len(links) : j < k => links[j].dev < links[k].dev
      BY Zenon DEF ListInv
    <2> HIDE DEF n
    <2> QED BY <1>3, <1>4, <2>1, <2>2, <2>3, Zenon
  <1>8. \A k \in 1 .. Len(links') : links'[k].dev < dev' \/ (links'[k].dev = dev' /\ Enlisted' /\ k = Len(links'))
    <2>1. \A k \in 1 .. Len(links) : links[k].dev < dev
      BY Zenon DEF ListInv
    <2>2. \A i \in 1 .. Len(Devices) : i < dev => i < dev'
      BY <1>2, SMT
    <2>3. dev < dev' \/ (dev = dev' /\ Enlisted')
      BY <1>2, SMT
    <2> HIDE DEF n
    <2> QED BY <1>3, <1>4, <2>1, <2>2, <2>3, Zenon
  <1>9. Len(links') < dev' \/ (Len(links') = dev' /\ Enlisted')
    <2>1. Len(links) < dev
      BY Zenon DEF ListInv
    <2> QED BY <1>2, <1>3, <2>1, SMT
  <1>10. \A i \in Refusing : i >= dev'
    <2>1. \A i \in Refusing : i >= dev
      BY Zenon DEF ListInv
    <2> QED BY <1>2, <1>5, <2>1, SMT
  <1>11. Enlisted' => Len(links') # 0 /\ links'[Len(links')].dev = dev'
    <2>1. Enlisted' => dev' = dev
      BY Zenon
    <2>2. n # 0
      BY <1>2, SMT
    <2> QED BY <1>3, <2>1, <2>2, Zenon
  <1> QED BY <1>1, <1>6, <1>7, <1>8, <1>9, <1>10, <1>11, Zenon DEF ListInv

LEMMA ListEnds ==
  ASSUME TypeInv, ListInv, [Next]_vars, links' = links, dev' = dev, ~Enlisted, pc # "done", pc' = "done",
         \/ outcome' \in {"noPort", "noCapability"} /\ dev \in Refusing
         \/ outcome' \in {"test", "noneMatch", "noDevices"} /\ dev > Len(Devices)
  PROVE  ListInv'
  <1>1. Eligibles' = Eligibles /\ Refusing' = Refusing /\ Devices' = Devices
    BY SetupStays, Zenon
  <1>2. ~Enlisted'
    BY SMT DEF Enlisted
  <1>3. Going
    BY Zenon DEF Going
  <1>4. IF Going' THEN dev > Len(Devices) ELSE dev \in Refusing
    BY SMT DEF Going
  <1> QED BY <1>1, <1>2, <1>3, <1>4, Zenon DEF ListInv

\* Which devices a step leaves behind.
LEMMA Membership ==
  ASSUME TypeInv, dev <= Len(Devices)
  PROVE  (dev \in Eligibles <=> Eligible(dev)) /\ (dev \in Refusing <=> Refused(dev))
  BY DevFacts, Zenon DEF Eligibles, Refusing

LEMMA SameKeeps == links' = links => DevsKept
  BY Zenon DEF DevsKept

LEMMA ReplaceKeeps ==
  ASSUME TypeInv, Enlisted, ListInv, NEW r \in LinkType, links' = [links EXCEPT ![Len(links)] = r], r.dev = dev
  PROVE  DevsKept
  <1>1. Len(links) \in 1 .. Len(links) /\ links[Len(links)].dev = dev
    BY LinkFacts, Zenon
  <1>2. /\ Len(links') = Len(links) /\ links'[Len(links)] = r
        /\ \A k \in 1 .. Len(links) : k # Len(links) => links'[k] = links[k]
    BY <1>1, ReplaceMakes, Zenon
  <1> QED BY <1>1, <1>2, Zenon DEF DevsKept

LEMMA AppendAdds ==
  ASSUME TypeInv, NEW l \in LinkType, links' = Append(links, l), l.dev = dev
  PROVE  DevAdded
  BY AppendMakes, Zenon DEF DevAdded

LEMMA ListStep == TypeInv /\ PlaceInv /\ WalkInv /\ ListInv /\ [Next]_vars => ListInv'
  <1> SUFFICES ASSUME TypeInv, PlaceInv, WalkInv, ListInv, [Next]_vars PROVE ListInv'
    OBVIOUS
  <1>0. setup' = setup /\ Eligibles' = Eligibles /\ Refusing' = Refusing /\ Devices' = Devices
    BY SetupStays, Zenon
  <1>a. Walking => dev <= Len(Devices) /\ Selected(Device, setup.request)
    BY Zenon DEF PlaceInv
  <1>b. pc = "eligible" \/ pc = "caps" \/ pc = "ext" => Walking
    BY SMT DEF Walking
  <1>c. pc = "caps" \/ pc = "ext" => Eligible(dev) /\ Device.dsp # {}
    BY SMT DEF PlaceInv
  <1>1. CASE UNCHANGED vars
    <2>1. links' = links /\ dev' = dev /\ pc' = pc /\ outcome' = outcome
      BY <1>1, Zenon DEF vars
    <2> QED BY <1>0, <2>1, Zenon DEF ListInv, Going, Enlisted
  <1>2. CASE Follow
    <2>1. links' = links /\ dev' = dev /\ pc' = pc /\ pc # "done"
      BY <1>2, SMT DEF Follow, Walking
    <2>2. Enlisted' <=> Enlisted
      BY <1>0, <2>1, Zenon DEF Enlisted
    <2> QED BY <2>1, <2>2, SameKeeps, ListStays, Zenon
  <1>3. CASE SelectDevice
    <2>1. links' = links /\ dev' = dev /\ pc = "device" /\ pc' = "eligible"
      BY <1>3, Zenon DEF SelectDevice, StartWalk
    <2>2. ~Enlisted /\ ~Enlisted' /\ pc # "done" /\ pc' # "done"
      BY <2>1, SMT DEF Enlisted
    <2> QED BY <2>1, <2>2, SameKeeps, ListStays, Zenon
  <1>4. CASE FindDSP
    <2>1. /\ dev' = dev /\ pc = "eligible" /\ pc' = "caps" /\ dev <= Len(Devices) /\ Eligible(dev)
      BY <1>4, <1>a, <1>b, FoundEligible, Zenon DEF FindDSP, StartWalk
    <2>2. ~Enlisted /\ pc # "done" /\ pc' # "done" /\ (Enlisted' <=> setup.tool = "lmt")
      BY <1>0, <2>1, SMT DEF Enlisted
    <2>3. setup.tool = "lmt" \/ setup.tool = "ltt"
      BY SetupFacts, Zenon DEF TypeInv
    <2>4. CASE setup.tool = "ltt"
      <3>1. links' = links /\ ~Enlisted'
        BY <1>4, <2>2, <2>4, FindDSPMakes, SMT
      <3> QED BY <2>1, <2>2, <3>1, SameKeeps, ListStays, Zenon
    <2>5. CASE setup.tool # "ltt"
      <3>1. DevAdded
        BY <1>4, <2>5, FindDSPMakes, AppendAdds, Zenon
      <3> QED BY <2>1, <2>2, <2>3, <2>5, <3>1, Membership, ListGrows, Zenon
    <2> QED BY <2>4, <2>5, Zenon
  <1>5. CASE CheckSpeed
    <2>1. dev' = dev /\ pc = "caps" /\ pc' = "ext" /\ setup.tool = "lmt"
      BY <1>5, Zenon DEF CheckSpeed, StartWalk
    <2>2. Enlisted /\ Enlisted' /\ pc # "done" /\ pc' # "done"
      BY <1>0, <2>1, SMT DEF Enlisted
    <2>3. DevsKept
      BY <1>5, <2>2, SpeedMakes, ReplaceKeeps, Zenon
    <2> QED BY <2>1, <2>2, <2>3, ListStays, Zenon
  <1>6. CASE CheckLmr
    <2>1. pc = "ext" /\ Enlisted /\ DevsKept
      BY <1>6, LmrMakes, ReplaceKeeps, Zenon DEF CheckLmr
    <2>2. setup.tool = "lmt" /\ pc # "done"
      BY <2>1, SMT DEF Enlisted
    <2>3. CASE port = "dsp"
      <3>1. dev' = dev /\ pc' = "caps"
        BY <1>6, <2>3, Zenon DEF CheckLmr, StartWalk
      <3>2. Enlisted' /\ pc' # "done"
        BY <1>0, <2>2, <3>1, SMT DEF Enlisted
      <3> QED BY <2>1, <2>2, <3>1, <3>2, ListStays, Zenon
    <2>4. CASE port # "dsp"
      <3>1. dev' = dev + 1 /\ pc' = "device" /\ dev <= Len(Devices)
        BY <1>6, <2>1, <2>4, <1>a, <1>b, Zenon DEF CheckLmr, NextDevice
      <3>2. ~Enlisted' /\ pc' # "done" /\ setup.tool # "ltt"
        BY <2>2, <3>1, SMT DEF Enlisted
      <3>3. Eligible(dev) /\ ~Refused(dev)
        BY <1>c, <2>1, <3>2, Zenon DEF Refused, Device
      <3> QED BY <2>1, <2>2, <3>1, <3>2, <3>3, Membership, ListPasses, Zenon
    <2> QED BY <2>3, <2>4, Zenon
  <1>7. CASE SkipDevice
    <2>1. links' = links /\ dev' = dev + 1 /\ pc = "device" /\ pc' = "device" /\ dev <= Len(Devices)
      BY <1>7, Zenon DEF SkipDevice, NextDevice
    <2>2. ~Enlisted /\ ~Enlisted' /\ pc # "done" /\ pc' # "done"
      BY <2>1, SMT DEF Enlisted
    <2>3. ~Eligible(dev) /\ ~Refused(dev)
      BY <1>7, Zenon DEF SkipDevice, Eligible, Refused, Device
    <2> QED BY <2>1, <2>2, <2>3, Membership, SameKeeps, ListPasses, Zenon
  <1>8. CASE LeaveOut
    <2>1. links' = links /\ dev' = dev + 1 /\ pc = "eligible" /\ pc' = "device" /\ dev <= Len(Devices)
      BY <1>8, <1>a, <1>b, Zenon DEF LeaveOut, NextDevice
    <2>2. ~Enlisted /\ ~Enlisted' /\ pc # "done" /\ pc' # "done"
      BY <2>1, SMT DEF Enlisted
    <2>3. ~Eligible(dev)
      BY <1>8, <2>1, FoundEligible, MissingEligible, Zenon DEF LeaveOut
    <2>4. ~Refused(dev)
      BY <2>3, Zenon DEF Refused
    <2> QED BY <2>1, <2>2, <2>3, <2>4, Membership, SameKeeps, ListPasses, Zenon
  <1>9. CASE EnlistTrained
    <2>1. /\ dev' = dev + 1 /\ pc = "caps" /\ pc' = "device" /\ dev <= Len(Devices) /\ setup.tool = "ltt"
          /\ Eligible(dev) /\ Device.dsp # {}
      BY <1>9, <1>a, <1>b, <1>c, Zenon DEF EnlistTrained, NextDevice
    <2>2. ~Enlisted /\ ~Enlisted' /\ pc # "done" /\ pc' # "done"
      BY <2>1, SMT DEF Enlisted
    <2>3. ~Refused(dev)
      BY <1>9, <2>1, EnlistMakes, Zenon DEF Refused, CapOf, Device
    <2>4. DevAdded
      BY <1>9, EnlistMakes, AppendAdds, Zenon
    <2> QED BY <2>1, <2>2, <2>3, <2>4, Membership, ListGrows, Zenon
  <1>10. CASE FindDSPFails
    <2>1. /\ links' = links /\ dev' = dev /\ pc = "eligible" /\ pc' = "done" /\ outcome' = "noPort"
          /\ dev <= Len(Devices) /\ Eligible(dev) /\ Device.dsp = {}
      BY <1>10, <1>a, <1>b, FoundEligible, Zenon DEF FindDSPFails, Refuse
    <2>2. ~Enlisted /\ pc # "done" /\ outcome' \in {"noPort", "noCapability"}
      BY <2>1, SMT DEF Enlisted
    <2>3. dev \in Refusing
      BY <2>1, Membership, Zenon DEF Refused, Device
    <2> QED BY <2>1, <2>2, <2>3, ListEnds, Zenon
  <1>11. CASE TrainedFails
    <2>1. /\ links' = links /\ dev' = dev /\ pc = "caps" /\ pc' = "done" /\ outcome' = "noCapability"
          /\ dev <= Len(Devices) /\ Eligible(dev) /\ setup.tool = "ltt"
      BY <1>11, <1>a, <1>b, <1>c, Zenon DEF TrainedFails, Refuse
    <2>2. ~Enlisted /\ pc # "done" /\ pc # "ext" /\ outcome' \in {"noPort", "noCapability"} /\ port = "dsp"
      BY <2>1, SMT DEF Enlisted, PlaceInv
    <2>3. List = Port(Device, "dsp").caps /\ Target = Targets.caps
      BY <2>2, ListIs, Zenon
    <2>4. FirstOf(Port(Device, "dsp").caps, Targets.caps) = Null
      BY <1>11, <1>b, <2>1, <2>3, WalkEnds, Zenon DEF TrainedFails
    <2>5. dev \in Refusing
      BY <2>1, <2>4, Membership, Zenon DEF Refused, Device
    <2> QED BY <2>1, <2>2, <2>5, ListEnds, Zenon
  <1>12. CASE Conclude
    <2>1. /\ links' = links /\ dev' = dev /\ pc = "device" /\ pc' = "done" /\ dev > Len(Devices)
          /\ outcome' = "noDevices" \/ outcome' = "noneMatch" \/ outcome' = "test"
      BY <1>12, Zenon DEF Conclude
    <2>2. ~Enlisted /\ pc # "done" /\ outcome' \in {"test", "noneMatch", "noDevices"}
      BY <2>1, SMT DEF Enlisted
    <2> QED BY <2>1, <2>2, ListEnds, Zenon
  <1> QED BY <1>1, <1>2, <1>3, <1>4, <1>5, <1>6, <1>7, <1>8, <1>9, <1>10, <1>11, <1>12, Zenon DEF Next

-----------------------------------------------------------------------------
\* What is known of the links.

LEMMA KnownInit == Init => KnownInv
  <1> SUFFICES ASSUME Init PROVE KnownInv
    OBVIOUS
  <1>1. links = <<>>
    BY Zenon DEF Init
  <1>2. ~\E k \in 1 .. Len(links) : TRUE
    BY <1>1, SMT
  <1> QED BY <1>2, Zenon DEF KnownInv

LEMMA KnownBecomes ==
  ASSUME setup' = setup, NEW k, NEW r, links'[k] = r, setup.tool # "ltt", ReadyBoth(r),
         IF Enlisted' /\ k = Len(links') THEN Progress(r, pc', port') ELSE Whole(r, "dsp") /\ Whole(r, "usp")
  PROVE  KnownAt(k)'
  <1>1. ASSUME NEW p
        PROVE  /\ CapOf(links[k].dev, p)' = CapOf(r.dev, p) /\ LmrOf(links[k].dev, p)' = LmrOf(r.dev, p)
               /\ Port(Devices[links[k].dev], p)' = Port(Devices[r.dev], p)
    BY Zenon DEF CapOf, LmrOf, Devices
  <1>2. ASSUME NEW p
        PROVE  /\ SpeedOk(links[k].dev, p)' <=> SpeedOk(r.dev, p)
               /\ AllOk(links[k].dev, p)' <=> AllOk(r.dev, p)
    BY <1>1, Zenon DEF SpeedOk, AllOk
  <1>3. ASSUME NEW p
        PROVE  /\ Fresh(links[k], p)' <=> Fresh(r, p)
               /\ Half(links[k], p)' <=> Half(r, p)
               /\ Whole(links[k], p)' <=> Whole(r, p)
    BY <1>1, <1>2, Zenon DEF Fresh, Half, Whole
  <1>4. Progress(links[k], pc, port)' <=> Progress(r, pc', port')
    BY <1>3, Zenon DEF Progress
  <1>5. ReadyBoth(links[k])' <=> ReadyBoth(r)
    BY Zenon DEF ReadyBoth
  <1> QED BY <1>3, <1>4, <1>5, Zenon DEF KnownAt

\* Of ltt, of which less is kept.
LEMMA TrainedBecomes ==
  ASSUME setup' = setup, NEW k, NEW r, links'[k] = r, setup.tool = "ltt",
         r.pcieCapOffset["dsp"] = CapOf(r.dev, "dsp"), r.testReady
  PROVE  KnownAt(k)'
  <1>1. CapOf(links[k].dev, "dsp")' = CapOf(r.dev, "dsp")
    BY Zenon DEF CapOf, Devices
  <1> QED BY <1>1, Zenon DEF KnownAt

\* The links that a step leaves alone.
LEMMA KnownKept ==
  ASSUME TypeInv, KnownInv, [Next]_vars, NEW k \in 1 .. Len(links), links'[k] = links[k],
         setup.tool = "ltt" \/ (~(Enlisted /\ k = Len(links)) /\ ~(Enlisted' /\ k = Len(links')))
  PROVE  KnownAt(k)'
  <1>0. setup' = setup
    BY SetupStays, Zenon
  <1>1. KnownAt(k)
    BY Zenon DEF KnownInv
  <1>2. CASE setup.tool = "ltt"
    <2>1. links[k].pcieCapOffset["dsp"] = CapOf(links[k].dev, "dsp") /\ links[k].testReady
      BY <1>1, <1>2, Zenon DEF KnownAt
    <2> QED BY <1>0, <1>2, <2>1, TrainedBecomes, Zenon
  <1>3. CASE setup.tool # "ltt"
    <2>1. ReadyBoth(links[k]) /\ Whole(links[k], "dsp") /\ Whole(links[k], "usp")
      BY <1>1, <1>3, Zenon DEF KnownAt
    <2> QED BY <1>0, <1>3, <2>1, KnownBecomes, Zenon
  <1> QED BY <1>2, <1>3, Zenon

LEMMA KnownSame ==
  ASSUME TypeInv, KnownInv, [Next]_vars, links' = links,
         setup.tool = "ltt" \/ (~Enlisted /\ ~Enlisted')
  PROVE  KnownInv'
  <1>1. \A k \in 1 .. Len(links) : KnownAt(k)'
    BY KnownKept, Zenon
  <1> QED BY <1>1, Zenon DEF KnownInv

LEMMA KnownGrows ==
  ASSUME TypeInv, KnownInv, [Next]_vars, NEW l \in LinkType, links' = Append(links, l), ~Enlisted,
         NEW n, n = Len(links) + 1, KnownAt(n)'
  PROVE  KnownInv'
  <1>1. /\ Len(links) \in Nat /\ Len(links') = Len(links) + 1 /\ \A k \in 1 .. Len(links) : links'[k] = links[k]
    BY AppendMakes, Zenon
  <1>2. ASSUME NEW k \in 1 .. Len(links') PROVE KnownAt(k)'
    <2>1. CASE k = n
      BY <2>1, Zenon
    <2>2. CASE k # n
      <3>1. k \in 1 .. Len(links) /\ k # Len(links')
        BY <1>1, <2>2, SMT
      <3> QED BY <1>1, <3>1, KnownKept, Zenon
    <2> QED BY <2>1, <2>2, Zenon
  <1> QED BY <1>2, Zenon DEF KnownInv

LEMMA KnownReplaced ==
  ASSUME TypeInv, ListInv, KnownInv, [Next]_vars, Enlisted, NEW r \in LinkType,
         links' = [links EXCEPT ![Len(links)] = r], NEW n, n = Len(links), KnownAt(n)'
  PROVE  KnownInv'
  <1>1. /\ Len(links') = Len(links)
        /\ \A k \in 1 .. Len(links) : k # Len(links) => links'[k] = links[k]
    BY LinkFacts, ReplaceMakes, Zenon
  <1>2. ASSUME NEW k \in 1 .. Len(links') PROVE KnownAt(k)'
    <2>1. CASE k = n
      BY <2>1, Zenon
    <2>2. CASE k # n
      BY <1>1, <2>2, KnownKept, Zenon
    <2> QED BY <2>1, <2>2, Zenon
  <1> QED BY <1>2, Zenon DEF KnownInv

LEMMA KnownLink ==
  ASSUME TypeInv, ListInv, KnownInv, Enlisted
  PROVE  ReadyBoth(Link) /\ Progress(Link, pc, port) /\ setup.tool # "ltt"
  <1>1. setup.tool # "ltt"
    BY SMT DEF Enlisted
  <1>2. Len(links) \in 1 .. Len(links) /\ Link = links[Len(links)]
    BY LinkFacts, Zenon
  <1>3. KnownAt(Len(links))
    BY <1>2, Zenon DEF KnownInv
  <1> QED BY <1>1, <1>2, <1>3, Zenon DEF KnownAt

\* A check of a port makes the half of what is known, and the other one the whole.
LEMMA KnownSpeed ==
  ASSUME TypeInv, PlaceInv, WalkInv, ListInv, KnownInv, [Next]_vars, CheckSpeed
  PROVE  KnownInv'
  <1>0. "dsp" # "usp" /\ "usp" # "dsp" /\ "dsp" \in Ports /\ "usp" \in Ports /\ "caps" # "ext" /\ "ext" # "caps"
    BY SMT DEF Ports
  <1>1. pc = "caps" /\ pc' = "ext" /\ port' = port /\ Enlisted
    BY SpeedMakes, Zenon DEF CheckSpeed, StartWalk
  <1>2. PICK r \in LinkType :
              /\ links' = [links EXCEPT ![Len(links)] = r] /\ r.dev = dev
              /\ r.lmrAddr = Link.lmrAddr
              /\ r.testReady <=> Link.testReady /\ SpeedOk(dev, port)
              /\ r.ready[port] <=> Link.ready[port] /\ SpeedOk(dev, port)
              /\ Link.pcieCapOffset[port] = Null => r.pcieCapOffset[port] = CapOf(dev, port)
              /\ \A q \in Ports : q # port => /\ r.ready[q] = Link.ready[q]
                                              /\ r.pcieCapOffset[q] = Link.pcieCapOffset[q]
    BY SpeedMakes, Zenon
  <1>3. ReadyBoth(Link) /\ Progress(Link, pc, port) /\ setup.tool # "ltt" /\ setup' = setup
    BY <1>1, KnownLink, SetupStays, Zenon
  <1>n. PICK n : n = Len(links)
    BY Zenon
  <1>4. Link.dev = dev /\ Len(links) \in 1 .. Len(links)
    BY <1>1, LinkFacts, Zenon
  <1>5. ReadyBoth(r) /\ Progress(r, "ext", port)
    <2>1. CASE port = "dsp"
      <3>1. Fresh(Link, "dsp") /\ Fresh(Link, "usp")
        BY <1>1, <1>3, <2>1, Zenon DEF Progress
      <3>2. r.ready["usp"] = Link.ready["usp"] /\ r.pcieCapOffset["usp"] = Link.pcieCapOffset["usp"]
        BY <1>0, <1>2, <2>1, Zenon
      <3>3. Fresh(r, "usp")
        BY <1>2, <3>1, <3>2, Zenon DEF Fresh
      <3>4. Half(r, "dsp")
        BY <1>2, <2>1, <3>1, Zenon DEF Fresh, Half
      <3>5. ReadyBoth(r)
        BY <1>2, <1>3, <2>1, <3>2, Zenon DEF ReadyBoth
      <3> QED BY <1>0, <2>1, <3>3, <3>4, <3>5, Zenon DEF Progress
    <2>2. CASE port = "usp"
      <3>1. Whole(Link, "dsp") /\ Fresh(Link, "usp")
        BY <1>1, <1>3, <2>2, Zenon DEF Progress
      <3>2. r.ready["dsp"] = Link.ready["dsp"] /\ r.pcieCapOffset["dsp"] = Link.pcieCapOffset["dsp"]
        BY <1>0, <1>2, <2>2, Zenon
      <3>3. Whole(r, "dsp")
        BY <1>2, <1>4, <3>1, <3>2, Zenon DEF Whole
      <3>4. Half(r, "usp")
        BY <1>2, <2>2, <3>1, Zenon DEF Fresh, Half
      <3>5. ReadyBoth(r)
        BY <1>2, <1>3, <2>2, <3>2, Zenon DEF ReadyBoth
      <3> QED BY <1>0, <2>2, <3>3, <3>4, <3>5, Zenon DEF Progress
    <2> QED BY <2>1, <2>2, Zenon DEF TypeInv, Ports
  <1>6. links'[n] = r /\ Len(links') = n /\ n = Len(links)
    BY <1>2, <1>4, <1>n, ReplaceMakes, Zenon
  <1>7. Enlisted'
    BY <1>1, <1>3, SMT DEF Enlisted
  <1>8. KnownAt(n)'
    BY <1>1, <1>3, <1>5, <1>6, <1>7, KnownBecomes, Zenon
  <1> QED BY <1>1, <1>2, <1>6, <1>8, KnownReplaced, Zenon

LEMMA KnownLmr ==
  ASSUME TypeInv, PlaceInv, WalkInv, ListInv, KnownInv, [Next]_vars, CheckLmr
  PROVE  KnownInv'
  <1>0. "dsp" # "usp" /\ "usp" # "dsp" /\ "dsp" \in Ports /\ "usp" \in Ports /\ "caps" # "ext" /\ "ext" # "caps"
    BY SMT DEF Ports
  <1>1. pc = "ext" /\ Enlisted
    BY LmrMakes, Zenon DEF CheckLmr
  <1>2. PICK r \in LinkType :
              /\ links' = [links EXCEPT ![Len(links)] = r] /\ r.dev = dev
              /\ r.pcieCapOffset = Link.pcieCapOffset
              /\ r.testReady <=> Link.testReady /\ LmrOf(dev, port) # Null
              /\ r.ready[port] <=> Link.ready[port] /\ LmrOf(dev, port) # Null
              /\ Link.lmrAddr[port] = Null => r.lmrAddr[port] = LmrOf(dev, port)
              /\ \A q \in Ports : q # port => r.ready[q] = Link.ready[q] /\ r.lmrAddr[q] = Link.lmrAddr[q]
    BY LmrMakes, Zenon
  <1>3. ReadyBoth(Link) /\ Progress(Link, pc, port) /\ setup.tool # "ltt" /\ setup' = setup
    BY <1>1, KnownLink, SetupStays, Zenon
  <1>n. PICK n : n = Len(links)
    BY Zenon
  <1>4. Link.dev = dev /\ Len(links) \in 1 .. Len(links)
    BY <1>1, LinkFacts, Zenon
  <1>5. links'[n] = r /\ Len(links') = n /\ n = Len(links)
    BY <1>2, <1>4, <1>n, ReplaceMakes, Zenon
  <1>6. CASE port = "dsp"
    <2>1. Half(Link, "dsp") /\ Fresh(Link, "usp")
      BY <1>1, <1>3, <1>6, Zenon DEF Progress
    <2>2. r.ready["usp"] = Link.ready["usp"] /\ r.lmrAddr["usp"] = Link.lmrAddr["usp"]
      BY <1>0, <1>2, <1>6, Zenon
    <2>3. Fresh(r, "usp")
      BY <1>2, <2>1, <2>2, Zenon DEF Fresh
    <2>4. Whole(r, "dsp")
      BY <1>2, <1>4, <1>6, <2>1, Zenon DEF Half, Whole, AllOk
    <2>5. ReadyBoth(r)
      BY <1>2, <1>3, <1>6, <2>2, Zenon DEF ReadyBoth
    <2>6. pc' = "caps" /\ port' = "usp"
      BY <1>6, Zenon DEF CheckLmr, StartWalk
    <2>7. Progress(r, "caps", "usp")
      BY <1>0, <2>3, <2>4, Zenon DEF Progress
    <2>8. Enlisted'
      BY <1>1, <1>3, <2>6, SMT DEF Enlisted
    <2>9. KnownAt(n)'
      BY <1>3, <1>5, <2>5, <2>6, <2>7, <2>8, KnownBecomes, Zenon
    <2> QED BY <1>1, <1>2, <1>5, <2>9, KnownReplaced, Zenon
  <1>7. CASE port = "usp"
    <2>1. Whole(Link, "dsp") /\ Half(Link, "usp")
      BY <1>1, <1>3, <1>7, Zenon DEF Progress
    <2>2. r.ready["dsp"] = Link.ready["dsp"] /\ r.lmrAddr["dsp"] = Link.lmrAddr["dsp"]
      BY <1>0, <1>2, <1>7, Zenon
    <2>3. Whole(r, "dsp")
      BY <1>2, <1>4, <2>1, <2>2, Zenon DEF Whole
    <2>4. Whole(r, "usp")
      BY <1>2, <1>4, <1>7, <2>1, Zenon DEF Half, Whole, AllOk
    <2>5. ReadyBoth(r)
      BY <1>2, <1>3, <1>7, <2>2, Zenon DEF ReadyBoth
    <2>6. pc' = "device"
      BY <1>0, <1>7, Zenon DEF CheckLmr, NextDevice
    <2>7. ~Enlisted'
      BY <2>6, SMT DEF Enlisted
    <2>8. KnownAt(n)'
      BY <1>3, <1>5, <2>3, <2>4, <2>5, <2>7, KnownBecomes, Zenon
    <2> QED BY <1>1, <1>2, <1>5, <2>8, KnownReplaced, Zenon
  <1> QED BY <1>6, <1>7, Zenon DEF TypeInv, Ports

LEMMA KnownStutters ==
  ASSUME KnownInv, setup' = setup, links' = links, pc' = pc, port' = port
  PROVE  KnownInv'
  <1>1. Enlisted' <=> Enlisted
    BY Zenon DEF Enlisted
  <1>2. ASSUME NEW k \in 1 .. Len(links) PROVE KnownAt(k)'
    <2>1. KnownAt(k) /\ links'[k] = links[k]
      BY Zenon DEF KnownInv
    <2>2. CASE setup.tool = "ltt"
      <3>1. links[k].pcieCapOffset["dsp"] = CapOf(links[k].dev, "dsp") /\ links[k].testReady
        BY <2>1, <2>2, Zenon DEF KnownAt
      <3> QED BY <2>1, <2>2, <3>1, TrainedBecomes, Zenon
    <2>3. CASE setup.tool # "ltt"
      <3>1. ReadyBoth(links[k])
        BY <2>1, <2>3, Zenon DEF KnownAt
      <3>2. IF Enlisted' /\ k = Len(links') THEN Progress(links[k], pc', port')
            ELSE Whole(links[k], "dsp") /\ Whole(links[k], "usp")
        BY <1>1, <2>1, <2>3, Zenon DEF KnownAt
      <3> QED BY <2>1, <2>3, <3>1, <3>2, KnownBecomes, Zenon
    <2> QED BY <2>2, <2>3, Zenon
  <1> QED BY <1>2, Zenon DEF KnownInv

LEMMA KnownStep == TypeInv /\ PlaceInv /\ WalkInv /\ ListInv /\ KnownInv /\ [Next]_vars => KnownInv'
  <1> SUFFICES ASSUME TypeInv, PlaceInv, WalkInv, ListInv, KnownInv, [Next]_vars PROVE KnownInv'
    OBVIOUS
  <1>0. setup' = setup
    BY SetupStays, Zenon
  <1>1. CASE UNCHANGED vars
    <2>1. links' = links /\ pc' = pc /\ port' = port
      BY <1>1, Zenon DEF vars
    <2> QED BY <1>0, <2>1, KnownStutters, Zenon
  <1>2. CASE Follow
    <2>1. links' = links /\ pc' = pc /\ port' = port
      BY <1>2, Zenon DEF Follow
    <2> QED BY <1>0, <2>1, KnownStutters, Zenon
  <1>3. CASE SkipDevice \/ SelectDevice \/ LeaveOut \/ FindDSPFails \/ Conclude
    <2>1. /\ pc = "device" \/ pc = "eligible"
          /\ pc' = "device" \/ pc' = "eligible" \/ pc' = "done"
      BY <1>3, Zenon DEF SkipDevice, SelectDevice, LeaveOut, FindDSPFails, Conclude, StartWalk, NextDevice, Refuse
    <2>2. ~Enlisted /\ ~Enlisted'
      BY <2>1, SMT DEF Enlisted
    <2> QED BY <1>3, <2>2, SameMakes, KnownSame, Zenon
  <1>4. CASE TrainedFails
    BY <1>4, SameMakes, KnownSame, Zenon DEF TrainedFails
  <1>5. CASE FindDSP
    <2>1. pc = "eligible" /\ pc' = "caps" /\ port' = "dsp"
      BY <1>5, Zenon DEF FindDSP, StartWalk
    <2>2. ~Enlisted /\ (Enlisted' <=> setup.tool = "lmt") /\ "caps" # "ext" /\ "dsp" # "usp"
      BY <1>0, <2>1, SMT DEF Enlisted
    <2>3. CASE setup.tool = "ltt"
      BY <1>5, <2>3, FindDSPMakes, KnownSame, Zenon
    <2>4. CASE setup.tool # "ltt"
      <3>1. PICK l \in LinkType : /\ links' = Append(links, l) /\ l.dev = dev /\ l.testReady
                                  /\ Fresh(l, "dsp") /\ Fresh(l, "usp")
        BY <1>5, <2>4, FindDSPMakes, Zenon
      <3>2. PICK n : n = Len(links) + 1
        BY Zenon
      <3>3. links'[n] = l /\ Len(links') = n
        BY <3>1, <3>2, AppendMakes, Zenon
      <3>4. ReadyBoth(l)
        BY <3>1, Zenon DEF ReadyBoth, Fresh
      <3>5. Progress(l, pc', port')
        BY <2>1, <2>2, <3>1, Zenon DEF Progress
      <3>6. setup.tool = "lmt"
        BY <2>4, SetupFacts, Zenon DEF TypeInv
      <3>7. KnownAt(n)'
        BY <1>0, <2>2, <2>4, <3>3, <3>4, <3>5, <3>6, KnownBecomes, Zenon
      <3> QED BY <2>2, <3>1, <3>2, <3>7, KnownGrows, Zenon
    <2> QED BY <2>3, <2>4, Zenon
  <1>6. CASE EnlistTrained
    <2>1. PICK l \in LinkType : links' = Append(links, l) /\ l.dev = dev /\ l.testReady /\ l.pcieCapOffset["dsp"] = at
      BY <1>6, EnlistMakes, Zenon
    <2>2. PICK n : n = Len(links) + 1
      BY Zenon
    <2>3. links'[n] = l
      BY <2>1, <2>2, AppendMakes, Zenon
    <2>4. setup.tool = "ltt" /\ at = CapOf(dev, "dsp")
      BY <1>6, EnlistMakes, Zenon DEF EnlistTrained
    <2>5. KnownAt(n)'
      BY <1>0, <2>1, <2>3, <2>4, TrainedBecomes, Zenon
    <2>6. ~Enlisted
      BY <2>4, SMT DEF Enlisted
    <2> QED BY <2>1, <2>2, <2>5, <2>6, KnownGrows, Zenon
  <1>7. CASE CheckSpeed
    BY <1>7, KnownSpeed, Zenon
  <1>8. CASE CheckLmr
    BY <1>8, KnownLmr, Zenon
  <1> QED BY <1>1, <1>2, <1>3, <1>4, <1>5, <1>6, <1>7, <1>8, Zenon DEF Next

-----------------------------------------------------------------------------
\* The theorems.

\* The invariant holds in every state of a search.
THEOREM Invariance == Spec => []Inv
  <1>1. Init => Inv
    BY TypeInit, PlaceInit, WalkInit, ListInit, KnownInit, Zenon DEF Inv
  <1>2. Inv /\ [Next]_vars => Inv'
    BY TypeStep, PlaceStep, WalkStep, ListStep, KnownStep, Zenon DEF Inv
  <1> QED BY <1>1, <1>2, PTL DEF Spec

\* The search's state is of its types, its addresses are those of registers or none, and it
\* enlists no more links than there are devices (lanemargintest.go:389-456, linktrain.go:226-293).
THEOREM TypeCorrect == Spec => []TypeOK
  <1>1. Inv => TypeOK
    <2> SUFFICES ASSUME TypeInv, ListInv PROVE TypeOK
      BY Zenon DEF Inv
    <2>1. Len(links) \in Nat /\ dev \in Nat /\ Len(Devices) \in Nat /\ dev <= Len(Devices) + 1
      BY LinkDevs, DevFacts, Zenon
    <2>2. Len(links) < dev \/ Len(links) = dev
      BY Zenon DEF ListInv
    <2>3. CASE Len(links) < dev
      <3>1. Len(links) <= Len(Devices)
        BY <2>1, <2>3, SMT
      <3> QED BY <3>1, Zenon DEF TypeInv, TypeOK
    <2>4. CASE Len(links) = dev /\ Len(links) # 0
      <3>1. Len(links) \in 1 .. Len(links)
        BY <2>1, <2>4, SMT
      <3>2. links[Len(links)].dev \in 1 .. Len(Devices)
        BY <3>1, LinkDevs, Zenon
      <3>3. links[Len(links)].dev = dev \/ links[Len(links)].dev < dev
        BY <3>1, Zenon DEF ListInv
      <3>4. dev <= Len(Devices)
        <4>1. Len(links) = dev /\ Enlisted
          BY <2>1, <2>4, SMT DEF ListInv
        <4>2. links[Len(links)].dev = dev
          BY <4>1, Zenon DEF ListInv
        <4> QED BY <2>1, <3>2, <4>2, SMT
      <3> QED BY <2>4, <3>4, Zenon DEF TypeInv, TypeOK
    <2> QED BY <2>1, <2>2, <2>3, <2>4, DevFacts, SMT
  <1> QED BY <1>1, Invariance, PTL

\* Whatever the lists of capabilities, a circle included, the links that are tested are those of
\* the devices asked for that are upstream ports, each once and in order, unless one of those is
\* refused, and then there is an error (lanemargintest.go:407-456, linktrain.go:233-293).
THEOREM LinksAreEligible == Spec => []EligibleEnlisted
  <1>1. Inv => EligibleEnlisted
    <2> SUFFICES ASSUME TypeInv, PlaceInv, ListInv, pc = "done"
                 PROVE  IF \E i \in 1 .. Len(Devices) : Refused(i)
                        THEN outcome \in {"noPort", "noCapability"}
                        ELSE /\ outcome \in {"test", "noneMatch", "noDevices"}
                             /\ {links[k].dev : k \in 1 .. Len(links)} = {i \in 1 .. Len(Devices) : Eligible(i)}
                             /\ \A j, k \in 1 .. Len(links) : j < k => links[j].dev < links[k].dev
      BY Zenon DEF Inv, EligibleEnlisted
    <2>1. CASE Going
      <3>1. outcome \in {"test", "noneMatch", "noDevices"} /\ dev > Len(Devices)
        BY <2>1, Zenon DEF Going, ListInv
      <3>2. dev \in Nat /\ Len(Devices) \in Nat
        BY DevFacts, Zenon
      <3>3. \A i \in 1 .. Len(Devices) : i < dev /\ ~(i >= dev)
        BY <3>1, <3>2, SMT
      <3>4. ~\E i \in 1 .. Len(Devices) : Refused(i)
        BY <3>3, Zenon DEF ListInv, Refusing
      <3>5. \A i \in 1 .. Len(Devices) : Eligible(i) <=> \E k \in 1 .. Len(links) : links[k].dev = i
        BY <2>1, <3>3, Zenon DEF ListInv, Eligibles
      <3>6. \A k \in 1 .. Len(links) : links[k].dev \in 1 .. Len(Devices)
        BY LinkDevs, Zenon
      <3>7. {links[k].dev : k \in 1 .. Len(links)} = {i \in 1 .. Len(Devices) : Eligible(i)}
        BY <3>5, <3>6, Zenon
      <3>8. \A j, k \in 1 .. Len(links) : j < k => links[j].dev < links[k].dev
        BY Zenon DEF ListInv
      <3> QED BY <3>1, <3>4, <3>7, <3>8, Zenon
    <2>2. CASE ~Going
      <3>1. dev \in Refusing
        BY <2>2, Zenon DEF ListInv
      <3>2. \E i \in 1 .. Len(Devices) : Refused(i)
        BY <3>1, Zenon DEF Refusing
      <3>3. outcome # "none" /\ outcome \notin {"test", "noneMatch", "noDevices"}
        BY <2>2, Zenon DEF PlaceInv, Going
      <3>4. outcome \in {"none", "noDevices", "noPort", "noCapability", "noneMatch", "test"}
        BY Zenon DEF TypeInv
      <3>5. outcome \in {"noPort", "noCapability"}
        BY <3>3, <3>4, SMT
      <3> QED BY <3>2, <3>5, Zenon
    <2> QED BY <2>1, <2>2, Zenon
  <1> QED BY <1>1, Invariance, PTL

\* What a test will use of a link's ports is what their registers say, and lmt tests the links of
\* which it found all it needs, and a speed that can be margined, at both ports, and no others
\* (lanemargintest.go:462-496, 505-554; linktrain.go:175-200).
THEOREM LinksAreReady == Spec => []ReadyByRegisters
  <1>1. Inv => ReadyByRegisters
    <2> SUFFICES ASSUME TypeInv, PlaceInv, ListInv, KnownInv, NEW k \in 1 .. Len(links)
                 PROVE  LET l == links[k]
                            cap(p) == FirstOf(Port(Devices[l.dev], p).caps, Targets.caps)
                            lmr(p) == FirstOf(Port(Devices[l.dev], p).ext, Targets.ext)
                            ok(p) == cap(p) # Null /\ RightSpeed(Port(Devices[l.dev], p)) /\ lmr(p) # Null
                        IN  IF setup.tool = "ltt" THEN l.pcieCapOffset["dsp"] = cap("dsp") /\ l.testReady
                            ELSE dev # l.dev \/ pc = "done" =>
                                   /\ \A p \in Ports : l.pcieCapOffset[p] = cap(p) /\ l.lmrAddr[p] = lmr(p)
                                   /\ \A p \in Ports : l.ready[p] <=> ok(p)
                                   /\ l.testReady <=> \A p \in Ports : ok(p)
      BY Zenon DEF Inv, ReadyByRegisters
    <2> DEFINE l == links[k]
    <2>1. KnownAt(k)
      BY Zenon DEF KnownInv
    <2>2. CASE setup.tool = "ltt"
      BY <2>1, <2>2, Zenon DEF KnownAt, CapOf
    <2>3. CASE setup.tool # "ltt" /\ (dev # l.dev \/ pc = "done")
      <3>1. ~(Enlisted /\ k = Len(links))
        <4>1. pc = "done" => ~Enlisted
          BY SMT DEF Enlisted
        <4>2. Enlisted /\ k = Len(links) => l.dev = dev
          BY Zenon DEF ListInv
        <4> QED BY <2>3, <4>1, <4>2, Zenon
      <3>2. ReadyBoth(l) /\ Whole(l, "dsp") /\ Whole(l, "usp")
        BY <2>1, <2>3, <3>1, Zenon DEF KnownAt
      <3>3. \A p \in Ports : Whole(l, p)
        BY <3>2, Zenon DEF Ports
      <3>4. \A p \in Ports : l.pcieCapOffset[p] = CapOf(l.dev, p) /\ l.lmrAddr[p] = LmrOf(l.dev, p)
                              /\ (l.ready[p] <=> AllOk(l.dev, p))
        BY <3>3, Zenon DEF Whole
      <3>5. l.testReady <=> \A p \in Ports : AllOk(l.dev, p)
        BY <3>2, Zenon DEF ReadyBoth, Whole, Ports
      <3> QED BY <2>3, <3>4, <3>5, Zenon DEF AllOk, SpeedOk, CapOf, LmrOf
    <2> QED BY <2>2, <2>3, Zenon
  <1> QED BY <1>1, Invariance, PTL
=============================================================================
