-------------------------- MODULE LinkTrainProofs --------------------------
(***************************************************************************)
(* Proofs about the training of the links (LinkTrain.tla), for every       *)
(* number of links, every list of fields and every method: the turns the   *)
(* links take, their verdicts and counts, the evidence of a failure, the   *)
(* registers written back, and the artifacts of each link.                 *)
(***************************************************************************)
EXTENDS LinkTrain, FiniteSetTheorems, TLAPS

-----------------------------------------------------------------------------
\* The inductive invariant, by parts.

Places == {"idle", "record", "series", "initial", "train", "down", "check", "verdict",
           "restore", "close", "ended"}
States == {"S_LOG", "S_LOGGED", "S_CHECK", "S_PASS", "S_ERROR", "S_RECOVER"}

Artifacts ==
  [art : {"stepStart", "stepEnd"}] \cup [art : {"diagnosis"}, type : {"PASS", "FAIL"}]
    \cup [art : {"seriesStart"}, series : Nat]
    \cup [art : {"element"}, series : Nat, index : Nat]
    \cup [art : {"seriesEnd"}, series : Nat, total : Nat]

MainTypes ==
  /\ setup \in Setups
  /\ mpc \in {"spawn", "join", "done"} /\ next \in 1 .. NumLinks + 1 /\ wg \in Int
  /\ result \in {"NOT_APPLICABLE", "PASS", "FAIL"}

LoopTypes ==
  /\ tpc \in [Links -> Places] /\ at \in [Links -> 1 .. Len(setup.fields) + 1]
  /\ fine \in [Links -> BOOLEAN] /\ itr \in [Links -> Nat]

CountTypes ==
  passCount \in [Links -> Nat] /\ failCount \in [Links -> Nat] /\ pass \in [Links -> BOOLEAN]

FieldTypes ==
  state \in [Links -> [Fields -> States]] /\ val \in [Links -> [Fields -> Optional(SUBSET Bits)]]

StreamTypes ==
  /\ seriesCnt \in [Links -> [Fields -> Nat]] /\ nameless \in [Links -> Nat]
  /\ out \in [Links -> Seq(Artifacts)]

HwTypes ==
  /\ reg \in [Links -> [Addrs -> SUBSET Bits]] /\ up \in [Links -> BOOLEAN]
  /\ down \in [Links -> BOOLEAN] /\ ctl \in [Links -> BOOLEAN]

TypeInv == MainTypes /\ LoopTypes /\ CountTypes /\ FieldTypes /\ StreamTypes /\ HwTypes
-----------------------------------------------------------------------------
\* What is asked.

LEMMA SetupFacts ==
  ASSUME setup \in Setups
  PROVE  /\ setup.links \in Links /\ setup.iterations \in Nat /\ setup.continue \in BOOLEAN
         /\ setup.parallel \in BOOLEAN /\ setup.below \in [Links -> SUBSET Links]
         /\ setup.found \in [Links -> [Addrs -> SUBSET Bits]]
         /\ Fields = 1 .. Len(setup.fields) /\ Len(setup.fields) \in Nat
         /\ \A i \in Fields : setup.fields[i] \in FieldType /\ i \in Nat \ {0}
         /\ \A l \in Links : l \notin setup.below[l]
         /\ \A l \in Links : \A k \in setup.below[l] : setup.below[k] \subseteq setup.below[l]
  <1>1. /\ setup.links \in Links /\ setup.iterations \in Nat /\ setup.continue \in BOOLEAN
        /\ setup.parallel \in BOOLEAN /\ setup.below \in [Links -> SUBSET Links]
        /\ setup.found \in [Links -> [Addrs -> SUBSET Bits]] /\ setup.fields \in Seq(FieldType)
        /\ \A l \in Links : l \notin setup.below[l]
        /\ \A l \in Links : \A k \in setup.below[l] : setup.below[k] \subseteq setup.below[l]
    <2>1. setup \in [links : Links, fields : Seq(FieldType), iterations : Nat, continue : BOOLEAN,
                     method : Methods, parallel : BOOLEAN, below : [Links -> SUBSET Links],
                     found : [Links -> [Addrs -> SUBSET Bits]]]
      BY ConstantsAssumption, Zenon
    <2>2. /\ \A l \in Links : l \notin setup.below[l]
          /\ \A l \in Links : \A k \in setup.below[l] : setup.below[k] \subseteq setup.below[l]
      BY ConstantsAssumption, Zenon
    <2> QED BY <2>1, <2>2, Zenon
  <1>2. Fields = 1 .. Len(setup.fields) /\ Len(setup.fields) \in Nat
    BY <1>1, SMT DEF Fields
  <1>3. \A i \in Fields : setup.fields[i] \in FieldType /\ i \in Nat \ {0}
    BY <1>1, <1>2, SMT
  <1> QED BY <1>1, <1>2, <1>3, Zenon

LEMMA FieldFacts ==
  ASSUME setup \in Setups, NEW i \in Fields
  PROVE  /\ setup.fields[i].kind \in {"S_CHECK", "S_LOG", "S_RECOVER"}
         /\ setup.fields[i].addr \in Addrs /\ setup.fields[i].sized \in BOOLEAN
         /\ setup.fields[i].mask \in SUBSET Bits
         /\ setup.fields[i].expected \in Optional(SUBSET Bits)
  BY SetupFacts, Zenon DEF FieldType

\* The value of a field is one of the register's bits.
LEMMA ValueType ==
  ASSUME TypeInv, NEW l \in Links, NEW i \in Fields
  PROVE  /\ ValueOf(l, setup.fields[i]) \in SUBSET Bits
         /\ {ValueOf(l, setup.fields[i]) \cap setup.fields[i].mask} \in Optional(SUBSET Bits)
  <1> DEFINE f == setup.fields[i]
  <1>1. f.addr \in Addrs /\ reg[l][f.addr] \in SUBSET Bits
    BY FieldFacts, SMT DEF TypeInv, MainTypes, HwTypes
  <1>2. ValueOf(l, f) \in SUBSET Bits
    BY <1>1, SMT DEF ValueOf
  <1>3. ValueOf(l, f) \cap f.mask \in SUBSET Bits
    BY <1>2, Zenon
  <1>4. {ValueOf(l, f) \cap f.mask} \in Optional(SUBSET Bits)
    BY <1>3, Zenon DEF Optional
  <1> QED BY <1>2, <1>4, Zenon

-----------------------------------------------------------------------------
\* Types.

LEMMA TypeInit == Init => TypeInv
  <1> SUFFICES ASSUME Init PROVE TypeInv
    OBVIOUS
  <1>1. /\ setup \in Setups
        /\ mpc = "spawn" /\ next = 1 /\ wg = 0 /\ result = "NOT_APPLICABLE"
        /\ tpc = [l \in Links |-> "idle"] /\ at = [l \in Links |-> 1]
        /\ fine = [l \in Links |-> TRUE] /\ itr = [l \in Links |-> 0]
        /\ passCount = [l \in Links |-> 0] /\ failCount = [l \in Links |-> 0]
        /\ pass = [l \in Links |-> FALSE]
        /\ state = [l \in Links |-> [i \in Fields |-> setup.fields[i].kind]]
        /\ val = [l \in Links |-> [i \in Fields |-> {}]]
        /\ seriesCnt = [l \in Links |-> [i \in Fields |-> 0]]
        /\ out = [l \in Links |-> <<>>] /\ nameless = [l \in Links |-> 0]
        /\ reg = setup.found /\ up = [l \in Links |-> TRUE]
        /\ down = [l \in Links |-> FALSE] /\ ctl = [l \in Links |-> FALSE]
    BY Zenon DEF Init
  <1>2. MainTypes
    BY <1>1, ConstantsAssumption, SMT DEF MainTypes
  <1>3. LoopTypes
    <2>1. tpc \in [Links -> Places] /\ at \in [Links -> 1 .. Len(setup.fields) + 1]
          /\ itr \in [Links -> Nat]
      BY <1>1, SetupFacts, SMT DEF Places
    <2>2. fine \in [Links -> BOOLEAN]
      BY <1>1, Zenon
    <2> QED BY <2>1, <2>2, Zenon DEF LoopTypes
  <1>4. CountTypes
    <2>1. pass \in [Links -> BOOLEAN]
      BY <1>1, Zenon
    <2>2. passCount \in [Links -> Nat] /\ failCount \in [Links -> Nat]
      BY <1>1, SMT
    <2> QED BY <2>1, <2>2, Zenon DEF CountTypes
  <1>5. FieldTypes
    <2>1. \A i \in Fields : setup.fields[i].kind \in States /\ {} \in Optional(SUBSET Bits)
      BY <1>1, FieldFacts, SMT DEF States, Optional
    <2> QED BY <1>1, <2>1, Zenon DEF FieldTypes
  <1>6. StreamTypes
    BY <1>1, SMT DEF StreamTypes
  <1>7. HwTypes
    <2>1. reg \in [Links -> [Addrs -> SUBSET Bits]]
      BY <1>1, SetupFacts, Zenon
    <2> QED BY <1>1, <2>1, Zenon DEF HwTypes
  <1> QED BY <1>2, <1>3, <1>4, <1>5, <1>6, <1>7, Zenon DEF TypeInv

LEMMA KeptTypes ==
  ASSUME TypeInv
  PROVE  /\ UNCHANGED <<setup, mainVars>> => MainTypes'
         /\ UNCHANGED <<setup, loopVars>> => LoopTypes'
         /\ UNCHANGED countVars => CountTypes'
         /\ UNCHANGED <<setup, fieldVars>> => FieldTypes'
         /\ UNCHANGED <<setup, streamVars>> => StreamTypes'
         /\ UNCHANGED hwVars => HwTypes'
  <1> USE DEF TypeInv
  <1>1. UNCHANGED <<setup, mainVars>> => MainTypes'
    BY SMT DEF MainTypes, mainVars
  <1>2. UNCHANGED <<setup, loopVars>> => LoopTypes'
    BY SMT DEF LoopTypes, loopVars
  <1>3. UNCHANGED countVars => CountTypes'
    BY SMT DEF CountTypes, countVars
  <1>4. UNCHANGED <<setup, fieldVars>> => FieldTypes'
    BY Zenon DEF FieldTypes, fieldVars, Fields
  <1>5. UNCHANGED <<setup, streamVars>> => StreamTypes'
    BY SMT DEF StreamTypes, streamVars, Fields
  <1>6. UNCHANGED hwVars => HwTypes'
    BY SMT DEF HwTypes, hwVars
  <1> QED BY <1>1, <1>2, <1>3, <1>4, <1>5, <1>6, Zenon

\* What moves a link on.
LEMMA GotoTypes ==
  ASSUME TypeInv, setup' = setup, NEW l \in Links
  PROVE  /\ \A place \in Places : Goto(l, place) => tpc' \in [Links -> Places]
         /\ \A place \in Places : Goto(l, place) /\ UNCHANGED <<at, fine, itr>> => LoopTypes'
         /\ \A place \in Places : GotoLoop(l, place) /\ UNCHANGED <<fine, itr>> => LoopTypes'
         /\ \A place \in Places : GotoCheck(l, place) /\ UNCHANGED itr => LoopTypes'
         /\ \A i \in Fields, b \in BOOLEAN :
              /\ NextField(l, i) /\ UNCHANGED <<tpc, itr>>
              /\ fine' = fine \/ fine' = [fine EXCEPT ![l] = b]
              => LoopTypes'
  <1>0. /\ tpc \in [Links -> Places] /\ at \in [Links -> 1 .. Len(setup.fields) + 1]
        /\ fine \in [Links -> BOOLEAN] /\ itr \in [Links -> Nat]
        /\ Fields = 1 .. Len(setup.fields) /\ Len(setup.fields) \in Nat
    BY SetupFacts, Zenon DEF TypeInv, MainTypes, LoopTypes
  <1>1. \A place \in Places : Goto(l, place) => tpc' \in [Links -> Places]
    BY <1>0, SMT DEF Goto
  <1>2. ASSUME at' = [at EXCEPT ![l] = 1] PROVE at' \in [Links -> 1 .. Len(setup.fields) + 1]
    BY <1>0, <1>2, SMT
  <1>3. ASSUME NEW b \in BOOLEAN, fine' = [fine EXCEPT ![l] = b] PROVE fine' \in [Links -> BOOLEAN]
    BY <1>0, <1>3, Zenon
  <1>4. ASSUME NEW i \in Fields, NextField(l, i)
        PROVE  at' \in [Links -> 1 .. Len(setup.fields) + 1]
    BY <1>0, <1>4, SMT DEF NextField
  <1>5. \A place \in Places : Goto(l, place) /\ UNCHANGED <<at, fine, itr>> => LoopTypes'
    BY <1>0, <1>1, SMT DEF LoopTypes
  <1>6. \A place \in Places : GotoLoop(l, place) /\ UNCHANGED <<fine, itr>> => LoopTypes'
    BY <1>0, <1>1, <1>2, SMT DEF LoopTypes, GotoLoop
  <1>7. \A place \in Places : GotoCheck(l, place) /\ UNCHANGED itr => LoopTypes'
    BY <1>0, <1>1, <1>2, <1>3, Zenon DEF LoopTypes, GotoCheck, GotoLoop
  <1>8. \A i \in Fields, b \in BOOLEAN :
          /\ NextField(l, i) /\ UNCHANGED <<tpc, itr>>
          /\ fine' = fine \/ fine' = [fine EXCEPT ![l] = b]
          => LoopTypes'
    BY <1>0, <1>3, <1>4, Zenon DEF LoopTypes
  <1> QED BY <1>1, <1>5, <1>6, <1>7, <1>8, Zenon

LEMMA EmitTypes ==
  ASSUME TypeInv, setup' = setup, NEW l \in Links
  PROVE  /\ \A a \in Artifacts : Emit(l, a) => out' \in [Links -> Seq(Artifacts)]
         /\ \A a \in Artifacts : Emit(l, a) /\ UNCHANGED <<seriesCnt, nameless>> => StreamTypes'
  <1>0. /\ seriesCnt \in [Links -> [Fields -> Nat]] /\ nameless \in [Links -> Nat]
        /\ out \in [Links -> Seq(Artifacts)] /\ Fields' = Fields
    BY Zenon DEF TypeInv, StreamTypes, Fields
  <1>1. ASSUME NEW a \in Artifacts, Emit(l, a) PROVE out' \in [Links -> Seq(Artifacts)]
    <2>1. Append(out[l], a) \in Seq(Artifacts)
      BY <1>0, <1>1, SMT
    <2> QED BY <1>0, <1>1, <2>1, Zenon DEF Emit
  <1> QED BY <1>0, <1>1, Zenon DEF StreamTypes

LEMMA ReadTypes ==
  ASSUME TypeInv, setup' = setup, NEW l \in Links
  PROVE  /\ \A kind : ReadAll(l, kind) => val' \in [Links -> [Fields -> Optional(SUBSET Bits)]]
         /\ Log(l) => FieldTypes'
  <1>0. /\ state \in [Links -> [Fields -> States]]
        /\ val \in [Links -> [Fields -> Optional(SUBSET Bits)]] /\ Fields' = Fields
    BY Zenon DEF TypeInv, FieldTypes, Fields
  <1>1. ASSUME NEW kind, ReadAll(l, kind) PROVE val' \in [Links -> [Fields -> Optional(SUBSET Bits)]]
    <2> DEFINE new == [i \in Fields |->
                 LET f == setup.fields[i]
                 IN  IF f.kind = kind THEN {ValueOf(l, f) \cap f.mask} ELSE val[l][i]]
    <2>1. new \in [Fields -> Optional(SUBSET Bits)]
      BY <1>0, ValueType, Zenon
    <2>2. val' = [val EXCEPT ![l] = new]
      BY <1>1, Zenon DEF ReadAll
    <2> HIDE DEF new
    <2> QED BY <1>0, <2>1, <2>2, Zenon
  <1>2. ASSUME Log(l) PROVE state' \in [Links -> [Fields -> States]]
    <2> DEFINE new == [i \in Fields |-> IF setup.fields[i].kind = "S_LOG" THEN "S_LOGGED"
                                        ELSE state[l][i]]
    <2>1. new \in [Fields -> States]
      BY <1>0, SMT DEF States
    <2>2. state' = [state EXCEPT ![l] = new]
      BY <1>2, Zenon DEF Log
    <2> HIDE DEF new
    <2> QED BY <1>0, <2>1, <2>2, SMT
  <1>3. Log(l) => FieldTypes'
    BY <1>0, <1>1, <1>2, Zenon DEF Log, FieldTypes
  <1> QED BY <1>1, <1>3, Zenon

LEMMA ArtifactTypes ==
  /\ Stream!StepStart \in Artifacts /\ Stream!StepEnd \in Artifacts
  /\ Stream!Diagnosis("PASS") \in Artifacts /\ Stream!Diagnosis("FAIL") \in Artifacts
  /\ \A i \in Nat : Stream!SeriesStart(i) \in Artifacts
  /\ \A i \in Nat, n \in Nat : Stream!Element(i, n) \in Artifacts /\ Stream!SeriesEnd(i, n) \in Artifacts
  <1> USE DEF Artifacts
  <1>1. Stream!StepStart \in Artifacts /\ Stream!StepEnd \in Artifacts
    BY Zenon DEF Stream!StepStart, Stream!StepEnd
  <1>2. Stream!Diagnosis("PASS") \in Artifacts /\ Stream!Diagnosis("FAIL") \in Artifacts
    BY Zenon DEF Stream!Diagnosis
  <1>3. \A i \in Nat : Stream!SeriesStart(i) \in Artifacts
    BY Zenon DEF Stream!SeriesStart
  <1>4. \A i \in Nat, n \in Nat : Stream!Element(i, n) \in Artifacts
    BY Zenon DEF Stream!Element
  <1>5. \A i \in Nat, n \in Nat : Stream!SeriesEnd(i, n) \in Artifacts
    BY Zenon DEF Stream!SeriesEnd
  <1> QED BY <1>1, <1>2, <1>3, <1>4, <1>5, Zenon

\* A step that takes links down, or lets them come up.
LEMMA PortTypes ==
  ASSUME TypeInv, NEW l \in Links
  PROVE  /\ \A b \in BOOLEAN : GoesDown(l, b) => up' \in [Links -> BOOLEAN] /\ down' \in [Links -> BOOLEAN]
         /\ \A b : WriteDown(l, b) => up' \in [Links -> BOOLEAN] /\ down' \in [Links -> BOOLEAN]
  <1>0. up \in [Links -> BOOLEAN] /\ down \in [Links -> BOOLEAN]
    BY Zenon DEF TypeInv, HwTypes
  <1>1. ASSUME NEW b \in BOOLEAN, GoesDown(l, b)
        PROVE  up' \in [Links -> BOOLEAN] /\ down' \in [Links -> BOOLEAN]
    <2>1. up' \in [Links -> BOOLEAN]
      BY <1>0, <1>1, Zenon DEF GoesDown
    <2>2. down' \in [Links -> BOOLEAN]
      BY <1>0, <1>1, Zenon DEF GoesDown
    <2> QED BY <2>1, <2>2, Zenon
  <1>2. ASSUME NEW b, WriteDown(l, b) PROVE up' \in [Links -> BOOLEAN] /\ down' \in [Links -> BOOLEAN]
    <2>1. \/ UNCHANGED <<up, down>>
          \/ GoesDown(l, TRUE)
          \/ down' = [down EXCEPT ![l] = FALSE] /\ UNCHANGED up
      BY <1>2, Zenon DEF WriteDown
    <2> QED BY <1>0, <1>1, <2>1, Zenon
  <1> QED BY <1>1, <1>2, Zenon

\* Configuration space stays well typed, whatever a link holds when it is up again.
LEMMA HwTypesStep ==
  ASSUME TypeInv, NEW l \in Links
  PROVE  /\ Retrain(l) => HwTypes'
         /\ TakeDown(l) => HwTypes'
         /\ BringUp(l) => HwTypes'
         /\ ComesUp(l) => HwTypes'
         /\ \A i \in Fields : RestoreField(l, i) => HwTypes'
  <1> DEFINE Regs == [Addrs -> SUBSET Bits]
  <1>0. /\ reg \in [Links -> Regs] /\ up \in [Links -> BOOLEAN]
        /\ down \in [Links -> BOOLEAN] /\ ctl \in [Links -> BOOLEAN]
    BY Zenon DEF TypeInv, HwTypes
  <1>1. \A a \in Addrs : Comes[a] \in SUBSET SUBSET Bits
    BY ConstantsAssumption, Zenon
  <1>2. Status \subseteq Addrs
    BY ConstantsAssumption, Zenon
  <1>3. ASSUME Retrain(l) PROVE HwTypes'
    <2>1. ctl' = ctl
      BY <1>3, Zenon DEF Retrain
    <2>2. CASE Retrained(l)
      <3>1. PICK now : /\ \A a \in Status : now[a] \in Comes[a]
                       /\ reg' = [reg EXCEPT ![l] = [a \in Addrs |->
                            IF a \in Status THEN now[a] ELSE reg[l][a]]]
        BY <2>2, Zenon DEF Retrained
      <3> DEFINE new == [a \in Addrs |-> IF a \in Status THEN now[a] ELSE reg[l][a]]
      <3>2. new \in Regs
        <4>1. ASSUME NEW a \in Addrs
              PROVE  (IF a \in Status THEN now[a] ELSE reg[l][a]) \in SUBSET Bits
          <5>1. a \in Status => now[a] \in SUBSET Bits
            BY <1>1, <3>1, Zenon
          <5>2. reg[l][a] \in SUBSET Bits
            BY <1>0, Zenon
          <5> QED BY <5>1, <5>2, Zenon
        <4> QED BY <4>1, Zenon
      <3>3. up' = up /\ down' = down
        BY <2>2, Zenon DEF Retrained
      <3> HIDE DEF new
      <3>4. reg' = [reg EXCEPT ![l] = new]
        BY <3>1, Zenon DEF new
      <3> QED BY <1>0, <2>1, <3>2, <3>3, <3>4, Zenon DEF HwTypes
    <2>3. CASE ~Retrained(l)
      <3>1. reg' = reg /\ (UNCHANGED <<up, down>> \/ GoesDown(l, down[l]))
        BY <1>3, <2>3, Zenon DEF Retrain
      <3>2. down[l] \in BOOLEAN
        BY <1>0, Zenon
      <3> QED BY <1>0, <2>1, <3>1, <3>2, PortTypes, Zenon DEF HwTypes
    <2> QED BY <2>2, <2>3, Zenon
  <1>4. ASSUME TakeDown(l) PROVE HwTypes'
    <2>1. /\ reg' = reg /\ WriteDown(l, TRUE)
          /\ \E b \in BOOLEAN : ctl' = [ctl EXCEPT ![l] = b]
      BY <1>0, <1>4, Zenon DEF TakeDown
    <2> QED BY <1>0, <2>1, PortTypes, Zenon DEF HwTypes
  <1>5. ASSUME BringUp(l) PROVE HwTypes'
    BY <1>0, <1>5, PortTypes, Zenon DEF BringUp, HwTypes
  <1>6. ASSUME NEW i \in Fields, RestoreField(l, i) PROVE HwTypes'
    <2> DEFINE f == setup.fields[i]
    <2>1. up' = up /\ down' = down /\ ctl' = ctl
      BY <1>6, Zenon DEF RestoreField
    <2>2. f.addr \in Addrs
      BY FieldFacts, Zenon DEF TypeInv, MainTypes
    <2>3. val[l][i] \in Optional(SUBSET Bits)
      BY Zenon DEF TypeInv, FieldTypes
    <2>4. ASSUME NEW v \in val[l][i] PROVE WrittenBack(l, f, v) \in SUBSET Bits
      <3>1. v \in SUBSET Bits
        BY <2>3, <2>4, Zenon DEF Optional
      <3> QED BY <1>0, <2>2, <3>1, Zenon DEF WrittenBack
    <2>5. reg' = reg \/ \E v \in val[l][i] : reg' = [reg EXCEPT ![l][f.addr] = WrittenBack(l, f, v)]
      BY <1>6, Zenon DEF RestoreField
    <2>6. ASSUME NEW v \in SUBSET Bits, reg' = [reg EXCEPT ![l][f.addr] = v]
          PROVE  reg' \in [Links -> Regs]
      BY <1>0, <2>2, <2>6, SMT
    <2> QED BY <1>0, <2>1, <2>4, <2>5, <2>6, Zenon DEF HwTypes
  <1>7. ASSUME ComesUp(l) PROVE HwTypes'
    <2>1. PICK now \in [Addrs -> UNION {Comes[a] : a \in Addrs}] :
            /\ \A a \in Addrs : now[a] \in Comes[a]
            /\ reg' = [reg EXCEPT ![l] = now]
      BY <1>7, Zenon DEF ComesUp
    <2>2. now \in Regs
      BY <1>1, <2>1, Zenon
    <2>3. up' = [up EXCEPT ![l] = TRUE] /\ down' = down /\ ctl' = ctl
      BY <1>7, Zenon DEF ComesUp
    <2>4. up' \in [Links -> BOOLEAN]
      BY <1>0, <2>3, Zenon
    <2> QED BY <1>0, <2>1, <2>2, <2>3, <2>4, Zenon DEF HwTypes
  <1> QED BY <1>3, <1>4, <1>5, <1>6, <1>7, Zenon

\* What a check, and a series' start, make of a field.
LEMMA FieldTypesStep ==
  ASSUME TypeInv, NEW l \in Links, NEW i \in Fields
  PROVE  /\ StartSeries(l, i) => FieldTypes' /\ StreamTypes'
         /\ CheckField(l, i) => FieldTypes' /\ StreamTypes'
         /\ EndSeries(l, i) => StreamTypes'
  <1> DEFINE f == setup.fields[i]
             v == ValueOf(l, f)
  <1>0. /\ state \in [Links -> [Fields -> States]]
        /\ val \in [Links -> [Fields -> Optional(SUBSET Bits)]]
        /\ seriesCnt \in [Links -> [Fields -> Nat]] /\ nameless \in [Links -> Nat]
        /\ out \in [Links -> Seq(Artifacts)]
    BY Zenon DEF TypeInv, FieldTypes, StreamTypes
  <1>1. i \in Nat /\ seriesCnt[l][i] \in Nat
    <2>1. i \in Nat \ {0}
      BY SetupFacts, Zenon DEF TypeInv, MainTypes
    <2> QED BY <1>0, <2>1, SMT
  <1>2. /\ Stream!SeriesStart(i) \in Artifacts /\ Stream!Element(i, seriesCnt[l][i]) \in Artifacts
        /\ Stream!SeriesEnd(i, seriesCnt[l][i]) \in Artifacts
    BY <1>1, ArtifactTypes, Zenon
  <1>3. ASSUME NEW s \in States, state' = [state EXCEPT ![l][i] = s]
        PROVE  state' \in [Links -> [Fields -> States]]
    BY <1>0, <1>3, SMT
  <1>4. ASSUME val' = [val EXCEPT ![l][i] = {v \cap f.mask}]
        PROVE  val' \in [Links -> [Fields -> Optional(SUBSET Bits)]]
    <2> DEFINE w == {v \cap f.mask}
               T == Optional(SUBSET Bits)
    <2>1. w \in T /\ val \in [Links -> [Fields -> T]] /\ val' = [val EXCEPT ![l][i] = w]
      BY <1>0, <1>4, ValueType, Zenon
    <2> HIDE DEF w, T
    <2>2. val' \in [Links -> [Fields -> T]]
      BY <2>1, SMT
    <2> QED BY <2>2, Zenon DEF T
  <1>5. "S_ERROR" \in States /\ "S_PASS" \in States
    BY SMT DEF States
  <1>6. ASSUME StartSeries(l, i) PROVE FieldTypes' /\ StreamTypes'
    <2>1. setup' = setup /\ Fields' = Fields /\ val' = val /\ seriesCnt' = seriesCnt /\ nameless' = nameless
      BY <1>6, Zenon DEF StartSeries, Fields
    <2>2. CASE f.expected = {}
      BY <1>0, <1>3, <1>5, <1>6, <2>1, <2>2, Zenon DEF StartSeries, FieldTypes, StreamTypes
    <2>3. CASE f.expected # {}
      <3>1. Emit(l, Stream!SeriesStart(i)) /\ state' = state
        BY <1>6, <2>3, Zenon DEF StartSeries
      <3> QED BY <1>0, <1>2, <2>1, <3>1, EmitTypes, Zenon DEF FieldTypes
    <2> QED BY <2>2, <2>3, Zenon
  <1>7. ASSUME CheckField(l, i) PROVE FieldTypes' /\ StreamTypes'
    <2>1. setup' = setup /\ Fields' = Fields
      BY <1>7, Zenon DEF CheckField, Fields
    <2>2. FieldTypes'
      <3>1. \/ state' = state /\ val' = val
            \/ state' = [state EXCEPT ![l][i] = "S_ERROR"] /\ val' = val
            \/ /\ val' = [val EXCEPT ![l][i] = {v \cap f.mask}]
               /\ state' = [state EXCEPT ![l][i] = "S_PASS"] \/ state' = [state EXCEPT ![l][i] = "S_ERROR"]
        BY <1>7, Zenon DEF CheckField
      <3> QED BY <1>0, <1>3, <1>4, <1>5, <2>1, <3>1, Zenon DEF FieldTypes
    <2>3. seriesCnt' \in [Links -> [Fields -> Nat]]
      <3>1. seriesCnt' = [seriesCnt EXCEPT ![l][i] = seriesCnt[l][i] + 1]
        BY <1>7, Zenon DEF CheckField, Counted
      <3> QED BY <1>0, <1>1, <3>1, SMT
    <2>4. out' \in [Links -> Seq(Artifacts)] /\ nameless' \in [Links -> Nat]
      <3>1. CASE f.expected = {}
        <4>1. nameless' = [nameless EXCEPT ![l] = nameless[l] + 1] /\ out' = out
          BY <1>7, <3>1, Zenon DEF CheckField
        <4> QED BY <1>0, <4>1, SMT
      <3>2. CASE f.expected # {}
        <4>1. Emit(l, Stream!Element(i, seriesCnt[l][i])) /\ nameless' = nameless
          BY <1>7, <3>2, Zenon DEF CheckField
        <4> QED BY <1>0, <1>2, <2>1, <4>1, EmitTypes, Zenon
      <3> QED BY <3>1, <3>2, Zenon
    <2> QED BY <2>1, <2>2, <2>3, <2>4, Zenon DEF StreamTypes
  <1>8. ASSUME EndSeries(l, i) PROVE StreamTypes'
    <2>1. setup' = setup /\ Emit(l, Stream!SeriesEnd(i, seriesCnt[l][i]))
          /\ UNCHANGED <<seriesCnt, nameless>>
      BY <1>8, Zenon DEF EndSeries
    <2> QED BY <1>2, <2>1, EmitTypes, Zenon
  <1> QED BY <1>6, <1>7, <1>8, Zenon

LEMMA MainTypesStep == TypeInv /\ LinkTrainMain => TypeInv'
  <1> SUFFICES ASSUME TypeInv, LinkTrainMain PROVE TypeInv'
    OBVIOUS
  <1>0. /\ setup \in Setups /\ mpc \in {"spawn", "join", "done"} /\ next \in 1 .. NumLinks + 1
        /\ wg \in Int /\ result \in {"NOT_APPLICABLE", "PASS", "FAIL"}
        /\ setup.links \in 1 .. NumLinks /\ NumLinks \in Nat
    BY SetupFacts, ConstantsAssumption, SMT DEF TypeInv, MainTypes, Links
  <1>1. ASSUME SpawnLink PROVE TypeInv'
    <2>1. /\ next <= setup.links /\ next' = next + 1 /\ wg' = wg + 1
          /\ setup' = setup /\ mpc' = mpc /\ result' = result
          /\ Goto(next, "record") /\ UNCHANGED <<at, fine, itr>>
          /\ UNCHANGED <<countVars, fieldVars, streamVars, hwVars>>
      BY <1>1, Zenon DEF SpawnLink, Goto
    <2>2. MainTypes' /\ next \in Links
      BY <1>0, <2>1, SMT DEF MainTypes, Links
    <2>3. LoopTypes'
      BY <2>1, <2>2, GotoTypes, SMT DEF Places
    <2> QED BY <2>1, <2>2, <2>3, KeptTypes, Zenon DEF TypeInv
  <1>2. ASSUME AllSpawned PROVE TypeInv'
    <2>1. MainTypes'
      BY <1>0, <1>2, SMT DEF AllSpawned, MainTypes
    <2> QED BY <1>2, <2>1, KeptTypes, Zenon DEF TypeInv, AllSpawned
  <1>3. ASSUME RunEnd PROVE TypeInv'
    <2>1. MainTypes'
      BY <1>0, <1>3, SMT DEF RunEnd, MainTypes, ResultOfAll
    <2> QED BY <1>3, <2>1, KeptTypes, Zenon DEF TypeInv, RunEnd
  <1> QED BY <1>1, <1>2, <1>3, Zenon DEF LinkTrainMain

LEMMA LoopTypesStep ==
  ASSUME TypeInv, NEW l \in Links, TrainLoop(l)
  PROVE  TypeInv'
  <1>0. /\ passCount \in [Links -> Nat] /\ failCount \in [Links -> Nat]
        /\ pass \in [Links -> BOOLEAN] /\ itr \in [Links -> Nat] /\ wg \in Int
        /\ fine \in [Links -> BOOLEAN]
    BY Zenon DEF TypeInv, CountTypes, LoopTypes, MainTypes
  <1>p. \A place \in {"idle", "record", "series", "initial", "train", "down", "check", "verdict",
                      "restore", "close", "ended"} : place \in Places
    BY Zenon DEF Places
  <1>k. /\ UNCHANGED mainVars <=> UNCHANGED <<mpc, next, wg, result>>
        /\ UNCHANGED countVars <=> UNCHANGED <<passCount, failCount, pass>>
        /\ UNCHANGED fieldVars <=> UNCHANGED <<state, val>>
        /\ UNCHANGED hwVars <=> UNCHANGED <<reg, up, down, ctl>>
        /\ UNCHANGED streamVars <=> UNCHANGED <<seriesCnt, out, nameless>>
    BY Zenon DEF mainVars, countVars, fieldVars, hwVars, streamVars
  <1>w. setup' = setup /\ UNCHANGED <<mpc, next, result>> /\ wg' = wg - 1 => MainTypes'
    BY SMT DEF TypeInv, MainTypes
  <1>c. ASSUME \/ passCount' = [passCount EXCEPT ![l] = @ + 1] /\ UNCHANGED <<failCount, pass>>
               \/ failCount' = [failCount EXCEPT ![l] = @ + 1] /\ UNCHANGED <<passCount, pass>>
        PROVE  CountTypes'
    BY <1>0, <1>c, SMT DEF CountTypes
  <1>b. ASSUME NEW b \in BOOLEAN, pass' = [pass EXCEPT ![l] = b] PROVE pass' \in [Links -> BOOLEAN]
    BY <1>0, <1>b, Zenon
  <1>i. ASSUME NEW place \in Places, Goto(l, place), setup' = setup,
               UNCHANGED <<at, fine>>, itr' = itr \/ itr' = [itr EXCEPT ![l] = @ + 1]
        PROVE  LoopTypes'
    <2>1. itr' \in [Links -> Nat]
      BY <1>0, <1>i, SMT
    <2> QED BY <1>i, <2>1, GotoTypes, Zenon DEF TypeInv, LoopTypes
  <1>1. ASSUME NEW i \in Fields, StartSeries(l, i) PROVE TypeInv'
    BY <1>1, <1>k, KeptTypes, GotoTypes, FieldTypesStep, Zenon DEF StartSeries, TypeInv
  <1>2. ASSUME NEW i \in Fields, CheckField(l, i) PROVE TypeInv'
    <2>1. setup' = setup /\ NextField(l, i) /\ UNCHANGED <<tpc, itr>>
          /\ \E b \in BOOLEAN : fine' = [fine EXCEPT ![l] = b]
      BY <1>0, <1>2, Zenon DEF CheckField, StillFine, Matches
    <2>2. LoopTypes'
      BY <2>1, GotoTypes, Zenon
    <2> QED BY <1>2, <2>2, KeptTypes, FieldTypesStep, Zenon DEF CheckField, TypeInv
  <1>3. ASSUME NEW i \in Fields, RestoreField(l, i) PROVE TypeInv'
    BY <1>3, <1>k, KeptTypes, GotoTypes, HwTypesStep, Zenon DEF RestoreField, TypeInv
  <1>4. ASSUME NEW i \in Fields, EndSeries(l, i) PROVE TypeInv'
    BY <1>4, <1>k, KeptTypes, GotoTypes, FieldTypesStep, Zenon DEF EndSeries, TypeInv
  <1>5. ASSUME Record(l) PROVE TypeInv'
    <2>1. setup' = setup /\ ReadAll(l, "S_RECOVER") /\ state' = state
      BY <1>5, Zenon DEF Record
    <2>2. FieldTypes'
      BY <2>1, ReadTypes, Zenon DEF FieldTypes, TypeInv, Fields
    <2> QED BY <1>5, <1>p, <2>2, KeptTypes, GotoTypes, EmitTypes, ArtifactTypes, Zenon DEF Record, TypeInv
  <1>6. ASSUME SeriesStarted(l) PROVE TypeInv'
    BY <1>6, <1>p, KeptTypes, GotoTypes, Zenon DEF SeriesStarted, TypeInv
  <1>7. ASSUME InitialPasses(l) PROVE TypeInv'
    BY <1>7, <1>p, KeptTypes, GotoTypes, Zenon DEF InitialPasses, TypeInv
  <1>8. ASSUME InitialFails(l) PROVE TypeInv'
    <2>1. /\ setup' = setup /\ MainTypes' /\ LoopTypes' /\ HwTypes'
      BY <1>8, <1>p, <1>w, KeptTypes, GotoTypes, Zenon DEF InitialFails, Leave, Done
    <2>2. FieldTypes' /\ StreamTypes'
      BY <1>8, ReadTypes, EmitTypes, ArtifactTypes, Zenon DEF InitialFails
    <2>3. CountTypes'
      <3>1. failCount' \in [Links -> Nat]
        BY <1>0, <1>8, SMT DEF InitialFails
      <3> QED BY <1>0, <1>8, <1>b, <3>1, Zenon DEF CountTypes, InitialFails
    <2> QED BY <2>1, <2>2, <2>3, Zenon DEF TypeInv
  <1>9. ASSUME Retrain(l) PROVE TypeInv'
    BY <1>9, <1>p, KeptTypes, GotoTypes, HwTypesStep, Zenon DEF Retrain, TypeInv
  <1>10. ASSUME TakeDown(l) PROVE TypeInv'
    BY <1>10, <1>p, KeptTypes, GotoTypes, HwTypesStep, Zenon DEF TakeDown, TypeInv
  <1>11. ASSUME BringUp(l) PROVE TypeInv'
    BY <1>11, <1>p, KeptTypes, GotoTypes, HwTypesStep, Zenon DEF BringUp, TypeInv
  <1>12. ASSUME CheckPasses(l) PROVE TypeInv'
    BY <1>12, <1>p, <1>c, <1>i, KeptTypes, Zenon DEF CheckPasses, TypeInv
  <1>13. ASSUME CheckFails(l) PROVE TypeInv'
    <2>1. CountTypes'
      BY <1>13, <1>c, Zenon DEF CheckFails, Failures
    <2>2. FieldTypes'
      BY <1>13, <1>k, KeptTypes, ReadTypes, Zenon DEF CheckFails
    <2>3. LoopTypes'
      BY <1>13, <1>p, <1>i, Zenon DEF CheckFails
    <2> QED BY <1>13, <2>1, <2>2, <2>3, KeptTypes, Zenon DEF CheckFails, TypeInv
  <1>14. ASSUME Verdict(l) PROVE TypeInv'
    <2>1. FieldTypes' /\ StreamTypes'
      BY <1>14, <1>k, KeptTypes, ReadTypes, EmitTypes, ArtifactTypes, Zenon DEF Verdict
    <2>2. CountTypes'
      BY <1>0, <1>14, <1>b, Zenon DEF Verdict, CountTypes
    <2> QED BY <1>14, <1>p, <2>1, <2>2, KeptTypes, GotoTypes, Zenon DEF Verdict, TypeInv
  <1>15. ASSUME Restored(l) PROVE TypeInv'
    BY <1>15, <1>p, KeptTypes, GotoTypes, Zenon DEF Restored, TypeInv
  <1>16. ASSUME EndStep(l) PROVE TypeInv'
    BY <1>16, <1>p, <1>w, KeptTypes, GotoTypes, EmitTypes, ArtifactTypes, Zenon DEF EndStep, Done, TypeInv
  <1> QED
    BY <1>1, <1>2, <1>3, <1>4, <1>5, <1>6, <1>7, <1>8, <1>9, <1>10, <1>11, <1>12, <1>13, <1>14,
       <1>15, <1>16, Zenon DEF TrainLoop
  
LEMMA TypeStep == TypeInv /\ [Next]_vars => TypeInv'
  <1>1. TypeInv /\ UNCHANGED vars => TypeInv'
    BY KeptTypes, Zenon DEF vars, TypeInv
  <1>2. ASSUME TypeInv, NEW l \in Links, ComesUp(l) PROVE TypeInv'
    BY <1>2, KeptTypes, HwTypesStep, Zenon DEF ComesUp, TypeInv
  <1> QED BY <1>1, <1>2, MainTypesStep, LoopTypesStep, Zenon DEF Next

-----------------------------------------------------------------------------
\* What a step of one link's goroutine leaves alone: the run, and the other links but for their
\* registers.

LEMMA OthersKept ==
  ASSUME TypeInv, NEW l \in Links, TrainLoop(l), NEW k \in Links, k # l
  PROVE  /\ tpc'[k] = tpc[k] /\ at'[k] = at[k] /\ fine'[k] = fine[k] /\ itr'[k] = itr[k]
         /\ passCount'[k] = passCount[k] /\ failCount'[k] = failCount[k] /\ pass'[k] = pass[k]
         /\ state'[k] = state[k] /\ val'[k] = val[k]
         /\ seriesCnt'[k] = seriesCnt[k] /\ out'[k] = out[k] /\ ctl'[k] = ctl[k]
         /\ setup' = setup /\ mpc' = mpc /\ next' = next /\ result' = result
  <1> DEFINE Only(v, w) == w = v \/ \E x : w = [v EXCEPT ![l] = x]
             OnlyAt(v, w) == w = v \/ \E i, x : w = [v EXCEPT ![l][i] = x]
  <1>1. /\ Only(tpc, tpc') /\ Only(at, at') /\ Only(fine, fine') /\ Only(itr, itr')
        /\ Only(passCount, passCount') /\ Only(failCount, failCount') /\ Only(pass, pass')
        /\ Only(state, state') \/ OnlyAt(state, state')
        /\ Only(val, val') \/ OnlyAt(val, val')
        /\ OnlyAt(seriesCnt, seriesCnt') /\ Only(out, out') /\ Only(ctl, ctl')
        /\ setup' = setup /\ mpc' = mpc /\ next' = next /\ result' = result
    <2> USE DEF Goto, GotoLoop, GotoCheck, NextField, Emit, ReadAll, Log, mainVars, loopVars, countVars,
                fieldVars, streamVars, hwVars
    <2>1. ASSUME NEW i \in Fields, StartSeries(l, i) PROVE <1>1!:
      BY <2>1, Zenon DEF StartSeries
    <2>2. ASSUME NEW i \in Fields, CheckField(l, i) PROVE <1>1!:
      BY <2>2, Zenon DEF CheckField
    <2>3. ASSUME NEW i \in Fields, RestoreField(l, i) PROVE <1>1!:
      BY <2>3, Zenon DEF RestoreField
    <2>4. ASSUME NEW i \in Fields, EndSeries(l, i) PROVE <1>1!:
      BY <2>4, Zenon DEF EndSeries
    <2>5. CASE Record(l)
      BY <2>5, Zenon DEF Record
    <2>6. CASE SeriesStarted(l)
      BY <2>6, Zenon DEF SeriesStarted
    <2>7. CASE InitialPasses(l)
      BY <2>7, Zenon DEF InitialPasses
    <2>8. CASE InitialFails(l)
      BY <2>8, Zenon DEF InitialFails
    <2>9. CASE Retrain(l)
      BY <2>9, Zenon DEF Retrain
    <2>10. CASE TakeDown(l)
      BY <2>10, Zenon DEF TakeDown
    <2>11. CASE BringUp(l)
      BY <2>11, Zenon DEF BringUp
    <2>12. CASE CheckPasses(l)
      BY <2>12, Zenon DEF CheckPasses
    <2>13. CASE CheckFails(l)
      BY <2>13, Zenon DEF CheckFails
    <2>14. CASE Verdict(l)
      BY <2>14, Zenon DEF Verdict
    <2>15. CASE Restored(l)
      BY <2>15, Zenon DEF Restored
    <2>16. CASE EndStep(l)
      BY <2>16, Zenon DEF EndStep
    <2> QED
      BY <2>1, <2>2, <2>3, <2>4, <2>5, <2>6, <2>7, <2>8, <2>9, <2>10, <2>11, <2>12, <2>13, <2>14,
         <2>15, <2>16, Zenon DEF TrainLoop
  <1>2. /\ tpc \in [Links -> Places] /\ DOMAIN at = Links /\ DOMAIN fine = Links
        /\ DOMAIN itr = Links /\ DOMAIN passCount = Links /\ DOMAIN failCount = Links
        /\ DOMAIN pass = Links /\ DOMAIN state = Links /\ DOMAIN val = Links
        /\ DOMAIN seriesCnt = Links /\ DOMAIN out = Links /\ DOMAIN ctl = Links /\ DOMAIN tpc = Links
    BY Zenon DEF TypeInv, LoopTypes, CountTypes, FieldTypes, StreamTypes, HwTypes
  <1>3. ASSUME NEW v, NEW w, DOMAIN v = Links, Only(v, w) \/ OnlyAt(v, w) PROVE w[k] = v[k]
    BY <1>3, SMT
  <1> HIDE DEF Only, OnlyAt
  <1> QED BY <1>1, <1>2, <1>3, Zenon

-----------------------------------------------------------------------------
\* What a step makes of its own link's control: where it is, and its counts.

From(l, place) == tpc[l] = place
To(l, place) == tpc'[l] = place
AtSame(l) == at'[l] = at[l] /\ fine'[l] = fine[l]
CountsSame(l) ==
  itr'[l] = itr[l] /\ passCount'[l] = passCount[l] /\ failCount'[l] = failCount[l] /\ pass'[l] = pass[l]

StartSeriesHere(l, i) ==
  /\ From(l, "series") /\ To(l, "series") /\ IsAt(l, Checkers, i) /\ at'[l] = i + 1
  /\ fine'[l] = fine[l] /\ CountsSame(l) /\ wg' = wg
CheckFieldHere(l, i) ==
  /\ From(l, "initial") \/ From(l, "check")
  /\ To(l, tpc[l]) /\ IsAt(l, Checkers, i) /\ at'[l] = i + 1
  /\ fine'[l] = StillFine(l, setup.fields[i], ValueOf(l, setup.fields[i]))
  /\ CountsSame(l) /\ wg' = wg
RestoreFieldHere(l, i) ==
  /\ From(l, "restore") /\ To(l, "restore") /\ IsAt(l, Recorded, i) /\ at'[l] = i + 1
  /\ fine'[l] = fine[l] /\ CountsSame(l) /\ wg' = wg
EndSeriesHere(l, i) ==
  /\ From(l, "close") /\ To(l, "close") /\ IsAt(l, Checkers, i) /\ at'[l] = i + 1
  /\ fine'[l] = fine[l] /\ CountsSame(l) /\ wg' = wg
RecordHere(l) ==
  /\ From(l, "record") /\ To(l, "series") /\ at'[l] = 1 /\ fine'[l] = fine[l] /\ CountsSame(l) /\ wg' = wg
SeriesStartedHere(l) ==
  /\ From(l, "series") /\ Over(l, Checkers) /\ To(l, "initial") /\ at'[l] = 1 /\ fine'[l] = TRUE
  /\ CountsSame(l) /\ wg' = wg
InitialPassesHere(l) ==
  /\ From(l, "initial") /\ Over(l, Checkers) /\ fine[l] /\ To(l, "train") /\ AtSame(l)
  /\ CountsSame(l) /\ wg' = wg
InitialFailsHere(l) ==
  /\ From(l, "initial") /\ Over(l, Checkers) /\ ~fine[l] /\ To(l, "ended") /\ AtSame(l)
  /\ itr'[l] = itr[l] /\ passCount'[l] = passCount[l] /\ failCount'[l] = failCount[l] + 1
  /\ pass'[l] = FALSE /\ wg' = wg - 1
RetrainHere(l) ==
  /\ From(l, "train") /\ itr[l] < setup.iterations /\ To(l, "check") /\ at'[l] = 1
  /\ fine'[l] = TRUE /\ CountsSame(l) /\ wg' = wg
TakeDownHere(l) ==
  /\ From(l, "train") /\ itr[l] < setup.iterations /\ To(l, "down") /\ AtSame(l)
  /\ CountsSame(l) /\ wg' = wg
BringUpHere(l) ==
  /\ From(l, "down") /\ To(l, "check") /\ at'[l] = 1 /\ fine'[l] = TRUE /\ CountsSame(l) /\ wg' = wg
CheckPassesHere(l) ==
  /\ From(l, "check") /\ Over(l, Checkers) /\ fine[l] /\ To(l, "train") /\ AtSame(l)
  /\ itr'[l] = itr[l] + 1 /\ passCount'[l] = passCount[l] + 1 /\ failCount'[l] = failCount[l]
  /\ pass'[l] = pass[l] /\ wg' = wg
CheckFailsHere(l) ==
  /\ From(l, "check") /\ Over(l, Checkers) /\ ~fine[l] /\ AtSame(l)
  /\ IF setup.continue THEN To(l, "train") /\ itr'[l] = itr[l] + 1
     ELSE To(l, "verdict") /\ itr'[l] = itr[l]
  /\ passCount'[l] = passCount[l] /\ failCount'[l] = failCount[l] + 1
  /\ pass'[l] = pass[l] /\ wg' = wg
VerdictHere(l) ==
  /\ From(l, "verdict") \/ (From(l, "train") /\ itr[l] >= setup.iterations)
  /\ To(l, "restore") /\ at'[l] = 1 /\ fine'[l] = fine[l]
  /\ itr'[l] = itr[l] /\ passCount'[l] = passCount[l] /\ failCount'[l] = failCount[l]
  /\ pass'[l] = IF failCount[l] = 0 /\ passCount[l] > 0 THEN TRUE ELSE pass[l]
  /\ wg' = wg
RestoredHere(l) ==
  /\ From(l, "restore") /\ Over(l, Recorded) /\ To(l, "close") /\ at'[l] = 1 /\ fine'[l] = fine[l]
  /\ CountsSame(l) /\ wg' = wg
EndStepHere(l) ==
  /\ From(l, "close") /\ Over(l, Checkers) /\ To(l, "ended") /\ AtSame(l) /\ CountsSame(l) /\ wg' = wg - 1

\* Links in TrainLoop step as above.
LEMMA FieldStepsHere ==
  ASSUME TypeInv, NEW l \in Links, NEW i \in Fields
  PROVE  /\ StartSeries(l, i) => StartSeriesHere(l, i)
         /\ CheckField(l, i) => CheckFieldHere(l, i)
         /\ RestoreField(l, i) => RestoreFieldHere(l, i)
         /\ EndSeries(l, i) => EndSeriesHere(l, i)
  <1>1. DOMAIN at = Links /\ DOMAIN fine = Links
    BY Zenon DEF TypeInv, LoopTypes
  <1> USE DEF From, To, CountsSame, NextField, mainVars, countVars
  <1>2. StartSeries(l, i) => StartSeriesHere(l, i)
    BY <1>1, Zenon DEF StartSeries, StartSeriesHere
  <1>3. CheckField(l, i) => CheckFieldHere(l, i)
    BY <1>1, Zenon DEF CheckField, CheckFieldHere
  <1>4. RestoreField(l, i) => RestoreFieldHere(l, i)
    BY <1>1, Zenon DEF RestoreField, RestoreFieldHere
  <1>5. EndSeries(l, i) => EndSeriesHere(l, i)
    BY <1>1, Zenon DEF EndSeries, EndSeriesHere
  <1> QED BY <1>2, <1>3, <1>4, <1>5, Zenon

LEMMA LinkStepsHere ==
  ASSUME TypeInv, NEW l \in Links
  PROVE  /\ Record(l) => RecordHere(l)
         /\ SeriesStarted(l) => SeriesStartedHere(l)
         /\ InitialPasses(l) => InitialPassesHere(l)
         /\ InitialFails(l) => InitialFailsHere(l)
         /\ Retrain(l) => RetrainHere(l)
         /\ TakeDown(l) => TakeDownHere(l)
         /\ BringUp(l) => BringUpHere(l)
         /\ CheckPasses(l) => CheckPassesHere(l)
         /\ CheckFails(l) => CheckFailsHere(l)
         /\ Verdict(l) => VerdictHere(l)
         /\ Restored(l) => RestoredHere(l)
         /\ EndStep(l) => EndStepHere(l)
  <1>1. DOMAIN tpc = Links /\ DOMAIN at = Links /\ DOMAIN fine = Links /\ DOMAIN itr = Links
        /\ DOMAIN passCount = Links /\ DOMAIN failCount = Links /\ DOMAIN pass = Links
    BY Zenon DEF TypeInv, LoopTypes, CountTypes
  <1> USE DEF From, To, AtSame, CountsSame, Goto, GotoLoop, GotoCheck, Checked, MayTrain, Leave, Done, Failures,
              mainVars, countVars
  <1>2. Record(l) => RecordHere(l)
    BY <1>1, Zenon DEF Record, RecordHere
  <1>3. SeriesStarted(l) => SeriesStartedHere(l)
    BY <1>1, Zenon DEF SeriesStarted, SeriesStartedHere
  <1>4. InitialPasses(l) => InitialPassesHere(l)
    BY <1>1, Zenon DEF InitialPasses, InitialPassesHere
  <1>5. InitialFails(l) => InitialFailsHere(l)
    BY <1>1, Zenon DEF InitialFails, InitialFailsHere
  <1>6. Retrain(l) => RetrainHere(l)
    BY <1>1, Zenon DEF Retrain, RetrainHere
  <1>7. TakeDown(l) => TakeDownHere(l)
    BY <1>1, Zenon DEF TakeDown, TakeDownHere
  <1>8. BringUp(l) => BringUpHere(l)
    BY <1>1, Zenon DEF BringUp, BringUpHere
  <1>9. CheckPasses(l) => CheckPassesHere(l)
    BY <1>1, Zenon DEF CheckPasses, CheckPassesHere
  <1>10. CheckFails(l) => CheckFailsHere(l)
    BY <1>1, Zenon DEF CheckFails, CheckFailsHere
  <1>11. Verdict(l) => VerdictHere(l)
    BY <1>1, Zenon DEF Verdict, VerdictHere
  <1>12. Restored(l) => RestoredHere(l)
    BY <1>1, Zenon DEF Restored, RestoredHere
  <1>13. EndStep(l) => EndStepHere(l)
    BY <1>1, Zenon DEF EndStep, EndStepHere
  <1> QED BY <1>2, <1>3, <1>4, <1>5, <1>6, <1>7, <1>8, <1>9, <1>10, <1>11, <1>12, <1>13, Zenon

LEMMA StepsHere ==
  ASSUME TypeInv, NEW l \in Links, TrainLoop(l)
  PROVE  \/ \E i \in Fields : StartSeriesHere(l, i) \/ CheckFieldHere(l, i)
                              \/ RestoreFieldHere(l, i) \/ EndSeriesHere(l, i)
         \/ RecordHere(l) \/ SeriesStartedHere(l) \/ InitialPassesHere(l) \/ InitialFailsHere(l)
         \/ RetrainHere(l) \/ TakeDownHere(l) \/ BringUpHere(l) \/ CheckPassesHere(l)
         \/ CheckFailsHere(l) \/ VerdictHere(l) \/ RestoredHere(l) \/ EndStepHere(l)
  BY FieldStepsHere, LinkStepsHere, Zenon DEF TrainLoop

LEMMA SetupKept ==
  ASSUME NEW l \in Links, TrainLoop(l)
  PROVE  setup' = setup /\ mpc' = mpc /\ next' = next /\ result' = result
  BY Zenon
  DEF TrainLoop, StartSeries, CheckField, RestoreField, EndSeries, Record, SeriesStarted, InitialPasses,
      InitialFails, Retrain, TakeDown, BringUp, CheckPasses, CheckFails, Verdict, Restored, EndStep,
      mainVars

\* A goroutine runs, and its WaitGroup counts it down when it ends.
LEMMA PlaceMoves ==
  ASSUME TypeInv, NEW l \in Links, TrainLoop(l)
  PROVE  /\ Active(l) /\ tpc'[l] \in Places \ {"idle"}
         /\ IF tpc'[l] = "ended" THEN wg' = wg - 1 ELSE wg' = wg
  <1> DEFINE Runs(place) == \/ place = "record" \/ place = "series" \/ place = "initial"
                            \/ place = "train" \/ place = "down" \/ place = "check"
                            \/ place = "verdict" \/ place = "restore" \/ place = "close"
  <1>1. /\ Runs(tpc[l])
        /\ (tpc'[l] = "ended" /\ wg' = wg - 1) \/ (Runs(tpc'[l]) /\ wg' = wg)
    BY StepsHere, Zenon
    DEF From, To, StartSeriesHere, CheckFieldHere, RestoreFieldHere, EndSeriesHere, RecordHere,
        SeriesStartedHere, InitialPassesHere, InitialFailsHere, RetrainHere, TakeDownHere, BringUpHere,
        CheckPassesHere, CheckFailsHere, VerdictHere, RestoredHere, EndStepHere
  <1>2. \A place : Runs(place) => place \in Places \ {"idle", "ended"}
    BY SMT DEF Places
  <1> HIDE DEF Runs
  <1> QED BY <1>1, <1>2, SMT DEF Active, Places

LEMMA SpawnIs ==
  ASSUME TypeInv, SpawnLink
  PROVE  /\ mpc = "spawn" /\ next <= setup.links /\ MayStart /\ next \in Links
         /\ next' = next + 1 /\ wg' = wg + 1 /\ setup' = setup /\ mpc' = mpc /\ result' = result
         /\ tpc'[next] = "record" /\ \A k \in Links : k # next => tpc'[k] = tpc[k]
         /\ UNCHANGED <<at, fine, itr, passCount, failCount, pass, state, val, seriesCnt, out, nameless,
                        reg, up, down, ctl>>
  <1>1. /\ mpc = "spawn" /\ next <= setup.links /\ MayStart
        /\ next' = next + 1 /\ wg' = wg + 1 /\ setup' = setup /\ mpc' = mpc /\ result' = result
        /\ tpc' = [tpc EXCEPT ![next] = "record"]
        /\ UNCHANGED <<at, fine, itr, passCount, failCount, pass, state, val, seriesCnt, out, nameless,
                       reg, up, down, ctl>>
    BY Zenon DEF SpawnLink, countVars, fieldVars, streamVars, hwVars
  <1>2. next \in Links
    BY <1>1, SetupFacts, ConstantsAssumption, SMT DEF TypeInv, MainTypes, Links
  <1>3. tpc \in [Links -> Places]
    BY Zenon DEF TypeInv, LoopTypes
  <1>4. tpc'[next] = "record" /\ \A k \in Links : k # next => tpc'[k] = tpc[k]
    BY <1>1, <1>2, <1>3, SMT
  <1> QED BY <1>1, <1>2, <1>4, Zenon

\* The other steps of LinkTrain, what links do by themselves, and stuttering leave the goroutines
\* of the links alone.
Aside == AllSpawned \/ RunEnd \/ (\E l \in Links : ComesUp(l)) \/ UNCHANGED vars

LEMMA AsideIs ==
  ASSUME Aside
  PROVE  /\ setup' = setup /\ next' = next /\ wg' = wg
         /\ UNCHANGED <<tpc, at, fine, itr, passCount, failCount, pass, state, val, seriesCnt, out, nameless,
                        down, ctl>>
  <1> DEFINE Same ==
               UNCHANGED <<setup, next, wg, tpc, at, fine, itr, passCount, failCount, pass, state, val,
                           seriesCnt, out, nameless, down, ctl>>
  <1> USE DEF mainVars, loopVars, countVars, fieldVars, streamVars, hwVars
  <1>1. ASSUME AllSpawned \/ RunEnd \/ UNCHANGED vars PROVE Same
    BY <1>1, Zenon DEF AllSpawned, RunEnd, vars
  <1>2. ASSUME NEW l \in Links, ComesUp(l) PROVE Same
    BY <1>2, Zenon DEF ComesUp
  <1> QED BY <1>1, <1>2, Zenon DEF Aside

\* A link that comes up was not up, and leaves the other links as they are.
LEMMA AsideHw ==
  ASSUME TypeInv, Aside, NEW k \in Links
  PROVE  up[k] => up'[k] /\ reg'[k] = reg[k]
  <1>1. ASSUME AllSpawned \/ RunEnd \/ UNCHANGED vars PROVE up' = up /\ reg' = reg
    BY <1>1, Zenon DEF AllSpawned, RunEnd, vars, hwVars
  <1>2. ASSUME NEW l \in Links, ComesUp(l), up[k] PROVE up'[k] /\ reg'[k] = reg[k]
    <2>1. k # l
      BY <1>2, Zenon DEF ComesUp
    <2>2. up' = [up EXCEPT ![l] = TRUE] /\ \E x : reg' = [reg EXCEPT ![l] = x]
      BY <1>2, Zenon DEF ComesUp
    <2>3. DOMAIN up = Links /\ DOMAIN reg = Links
      BY Zenon DEF TypeInv, HwTypes
    <2> QED BY <1>2, <2>1, <2>2, <2>3, Zenon
  <1> QED BY <1>1, <1>2, Zenon DEF Aside

LEMMA NextCases ==
  ASSUME [Next]_vars
  PROVE  SpawnLink \/ Aside \/ \E l \in Links : TrainLoop(l)
  BY Zenon DEF Next, LinkTrainMain, Aside
-----------------------------------------------------------------------------
\* The links' turns, and the WaitGroup.

Running == {l \in Links : Active(l)}

\* The links are started in order, and the WaitGroup counts those that run.
LinksInv ==
  /\ wg = Cardinality(Running)
  /\ \A l \in Links : l < next <=> tpc[l] # "idle"
  /\ mpc # "spawn" => next > setup.links
  /\ mpc = "done" => Running = {} /\ result = ResultOfAll

LEMMA RunningFinite == IsFiniteSet(Running) /\ Cardinality(Running) \in 0 .. NumLinks
  <1>1. IsFiniteSet(Links) /\ Cardinality(Links) = NumLinks /\ NumLinks \in Nat
    BY FS_Interval, ConstantsAssumption, SMT DEF Links
  <1>2. IsFiniteSet(Running) /\ Cardinality(Running) <= NumLinks
    BY <1>1, FS_Subset, Zenon DEF Running
  <1>3. Cardinality(Running) \in Nat
    BY <1>2, FS_CardinalityType, Zenon
  <1> QED BY <1>1, <1>2, <1>3, SMT

LEMMA NoneRunning == Cardinality(Running) = 0 => Running = {}
  BY RunningFinite, FS_EmptySet, Zenon

LEMMA OneMore ==
  ASSUME NEW S, NEW T, NEW x, IsFiniteSet(S), x \notin S, T = S \cup {x}
  PROVE  Cardinality(T) = Cardinality(S) + 1
  BY FS_AddElement, Zenon

LEMMA OneLess ==
  ASSUME NEW S, NEW T, NEW x, IsFiniteSet(S), x \in S, T = S \ {x}
  PROVE  Cardinality(T) = Cardinality(S) - 1
  BY FS_RemoveElement, Zenon

LEMMA LinksInit == Init => LinksInv
  <1> SUFFICES ASSUME Init PROVE LinksInv
    OBVIOUS
  <1>1. mpc = "spawn" /\ next = 1 /\ wg = 0 /\ tpc = [l \in Links |-> "idle"]
    BY Zenon DEF Init
  <1>2. Running = {}
    BY <1>1, SMT DEF Running, Active
  <1>3. wg = Cardinality(Running)
    BY <1>1, <1>2, FS_EmptySet, Zenon
  <1> QED BY <1>1, <1>3, ConstantsAssumption, SMT DEF LinksInv, Links

LEMMA LinksStep == TypeInv /\ LinksInv /\ [Next]_vars => LinksInv'
  <1> SUFFICES ASSUME TypeInv, LinksInv, [Next]_vars PROVE LinksInv'
    OBVIOUS
  <1>0. /\ wg = Cardinality(Running) /\ wg \in Int /\ next \in Int /\ IsFiniteSet(Running)
        /\ \A l \in Links : l < next <=> tpc[l] # "idle"
        /\ mpc # "spawn" => next > setup.links
        /\ mpc = "done" => Running = {} /\ result = ResultOfAll
        /\ \A l \in Links : l \in Int
    <2>1. \A l \in Links : l \in Int
      BY ConstantsAssumption, SMT DEF Links
    <2>2. wg \in Int /\ next \in Int
      BY ConstantsAssumption, SMT DEF TypeInv, MainTypes
    <2> QED BY <2>1, <2>2, RunningFinite, Zenon DEF LinksInv
  <1>1. CASE SpawnLink
    <2>1. /\ next \in Links /\ next' = next + 1 /\ wg' = wg + 1 /\ setup' = setup /\ mpc' = mpc
          /\ mpc = "spawn"
          /\ tpc'[next] = "record" /\ \A k \in Links : k # next => tpc'[k] = tpc[k]
      BY <1>1, SpawnIs, Zenon
    <2>2. tpc[next] = "idle"
      BY <1>0, <2>1, SMT
    <2>3. next \notin Running /\ Running' = Running \cup {next}
      BY <2>1, <2>2, SMT DEF Running, Active
    <2>4. wg' = Cardinality(Running')
      BY <1>0, <2>1, <2>3, OneMore, Zenon
    <2>5. \A l \in Links : l < next' <=> tpc'[l] # "idle"
      BY <1>0, <2>1, SMT
    <2> QED BY <2>1, <2>4, <2>5, SMT DEF LinksInv
  <1>2. CASE Aside
    <2>1. setup' = setup /\ next' = next /\ wg' = wg /\ tpc' = tpc /\ pass' = pass
      BY <1>2, AsideIs, Zenon
    <2>2. Running' = Running /\ ResultOfAll' = ResultOfAll
      BY <2>1, Zenon DEF Running, Active, ResultOfAll
    <2>3. mpc' # "spawn" => next' > setup'.links
      <3>1. AllSpawned => next > setup.links
        BY Zenon DEF AllSpawned
      <3>2. RunEnd => mpc # "spawn"
        BY SMT DEF RunEnd
      <3>3. (\E l \in Links : ComesUp(l)) \/ UNCHANGED vars => mpc' = mpc
        BY Zenon DEF ComesUp, vars, mainVars
      <3> QED BY <1>0, <1>2, <2>1, <3>1, <3>2, <3>3, Zenon DEF Aside
    <2>4. mpc' = "done" => Running' = {} /\ result' = ResultOfAll'
      <3>1. AllSpawned => mpc' # "done"
        BY SMT DEF AllSpawned
      <3>2. RunEnd => Cardinality(Running) = 0 /\ result' = ResultOfAll
        BY <1>0, Zenon DEF RunEnd
      <3>3. (\E l \in Links : ComesUp(l)) \/ UNCHANGED vars => mpc' = mpc /\ result' = result
        BY Zenon DEF ComesUp, vars, mainVars
      <3> QED BY <1>0, <1>2, <2>2, <3>1, <3>2, <3>3, NoneRunning, Zenon DEF Aside
    <2> QED BY <1>0, <2>1, <2>2, <2>3, <2>4, Zenon DEF LinksInv
  <1>3. ASSUME NEW l \in Links, TrainLoop(l) PROVE LinksInv'
    <2>1. /\ Active(l) /\ tpc'[l] \in Places \ {"idle"}
          /\ IF tpc'[l] = "ended" THEN wg' = wg - 1 ELSE wg' = wg
      BY <1>3, PlaceMoves, Zenon
    <2>2. /\ \A k \in Links : k # l => tpc'[k] = tpc[k]
          /\ setup' = setup /\ mpc' = mpc /\ next' = next /\ result' = result
      <3>1. \A k \in Links : k # l => tpc'[k] = tpc[k]
        BY <1>3, OthersKept, Zenon
      <3>2. setup' = setup /\ mpc' = mpc /\ next' = next /\ result' = result
        BY <1>3, SetupKept, Zenon
      <3> QED BY <3>1, <3>2, Zenon
    <2>3. tpc[l] # "idle" /\ tpc[l] # "ended" /\ l \in Running /\ mpc # "done"
      BY <1>0, <2>1, SMT DEF Active, Running
    <2>4. wg' = Cardinality(Running')
      <3>1. CASE tpc'[l] = "ended"
        <4>1. Running' = Running \ {l}
          BY <2>2, <2>3, <3>1, SMT DEF Running, Active
        <4> QED BY <1>0, <2>1, <2>3, <3>1, <4>1, OneLess, Zenon
      <3>2. CASE tpc'[l] # "ended"
        <4>1. Running' = Running
          BY <2>1, <2>2, <2>3, <3>2, SMT DEF Running, Active
        <4> QED BY <1>0, <2>1, <3>2, <4>1, Zenon
      <3> QED BY <3>1, <3>2, Zenon
    <2>5. \A k \in Links : k < next' <=> tpc'[k] # "idle"
      <3>1. tpc'[l] # "idle"
        BY <2>1, Zenon
      <3> QED BY <1>0, <2>2, <2>3, <3>1, Zenon
    <2> QED BY <1>0, <2>2, <2>3, <2>4, <2>5, Zenon DEF LinksInv
  <1> QED BY <1>1, <1>2, <1>3, NextCases, Zenon

LEMMA SpawnedIdle ==
  ASSUME TypeInv, LinksInv, SpawnLink
  PROVE  next \in Links /\ tpc[next] = "idle"
  <1>1. next \in Links /\ \A l \in Links : l < next <=> tpc[l] # "idle"
    BY SpawnIs, Zenon DEF LinksInv
  <1>2. ~(next < next)
    BY <1>1, ConstantsAssumption, SMT DEF Links
  <1> QED BY <1>1, <1>2, Zenon

LEMMA TurnStep == TypeInv /\ LinksInv /\ OneAtATime /\ [Next]_vars => OneAtATime'
  <1> SUFFICES ASSUME TypeInv, LinksInv, OneAtATime, [Next]_vars PROVE OneAtATime'
    OBVIOUS
  <1>1. CASE SpawnLink
    <2>1. /\ next \in Links /\ MayStart /\ setup' = setup
          /\ \A k \in Links : k # next => tpc'[k] = tpc[k]
      BY <1>1, SpawnIs, Zenon
    <2>2. setup.parallel \/ Running = {}
      BY <2>1, NoneRunning, Zenon DEF MayStart, LinksInv
    <2> QED BY <2>1, <2>2, Zenon DEF OneAtATime, Running, Active
  <1>2. CASE Aside
    BY <1>2, AsideIs, Zenon DEF OneAtATime, Active
  <1>3. ASSUME NEW l \in Links, TrainLoop(l) PROVE OneAtATime'
    <2>1. Active(l) /\ setup' = setup /\ \A k \in Links : k # l => tpc'[k] = tpc[k]
      <3>1. setup' = setup
        BY <1>3, SetupKept, Zenon
      <3> QED BY <1>3, <3>1, PlaceMoves, OthersKept, Zenon
    <2> QED BY <2>1, Zenon DEF OneAtATime, Active
  <1> QED BY <1>1, <1>2, <1>3, NextCases, Zenon
-----------------------------------------------------------------------------
\* The counts.

BeforeTraining == {"idle", "record", "series", "initial"}

\* Every iteration was done, or those up to the first failure.
AllTrained(l) ==
  \/ passCount[l] + failCount[l] = setup.iterations
  \/ ~setup.continue /\ failCount[l] = 1 /\ passCount[l] < setup.iterations

CountsAt(l) ==
  /\ tpc[l] \in BeforeTraining => itr[l] = 0 /\ passCount[l] = 0 /\ failCount[l] = 0
  /\ tpc[l] \in {"train", "down", "check"} =>
       itr[l] = passCount[l] + failCount[l] /\ (setup.continue \/ failCount[l] = 0)
  /\ tpc[l] \in {"down", "check"} => itr[l] < setup.iterations
  /\ tpc[l] = "verdict" =>
       ~setup.continue /\ failCount[l] = 1 /\ passCount[l] < setup.iterations
  /\ tpc[l] \in {"restore", "close"} => AllTrained(l)
  /\ tpc[l] = "ended" => AllTrained(l) \/ (passCount[l] = 0 /\ failCount[l] = 1)
  /\ itr[l] <= setup.iterations
  /\ pass[l] <=> /\ tpc[l] \in {"restore", "close", "ended"}
                 /\ failCount[l] = 0 /\ passCount[l] > 0

CountsInv == \A l \in Links : CountsAt(l)

LEMMA CountsInit == Init => CountsInv
  <1> SUFFICES ASSUME Init, NEW l \in Links PROVE CountsAt(l)
    BY Zenon DEF CountsInv
  <1>1. /\ tpc[l] = "idle" /\ itr[l] = 0 /\ passCount[l] = 0 /\ failCount[l] = 0 /\ pass[l] = FALSE
        /\ setup \in Setups
    BY Zenon DEF Init
  <1>2. setup.iterations \in Nat
    BY <1>1, SetupFacts, Zenon
  <1> QED BY <1>1, <1>2, SMT DEF CountsAt, BeforeTraining

LEMMA CountsHere ==
  ASSUME TypeInv, CountsInv, NEW l \in Links, TrainLoop(l), setup' = setup
  PROVE  CountsAt(l)'
  <1>0. /\ CountsAt(l) /\ itr[l] \in Nat /\ passCount[l] \in Nat /\ failCount[l] \in Nat
        /\ setup.iterations \in Nat /\ setup.continue \in BOOLEAN
    BY SetupFacts, Zenon DEF CountsInv, TypeInv, MainTypes, LoopTypes, CountTypes
  <1> USE <1>0 DEF CountsAt, AllTrained, BeforeTraining, From, To, CountsSame
  <1>1. ASSUME CountsSame(l), tpc'[l] = tpc[l] PROVE CountsAt(l)'
    BY <1>1, SMT
  <1>2. ASSUME NEW i \in Fields,
               StartSeriesHere(l, i) \/ CheckFieldHere(l, i) \/ RestoreFieldHere(l, i) \/ EndSeriesHere(l, i)
        PROVE  CountsAt(l)'
    <2>1. CountsSame(l) /\ tpc'[l] = tpc[l]
      BY <1>2, Zenon DEF StartSeriesHere, CheckFieldHere, RestoreFieldHere, EndSeriesHere
    <2> QED BY <1>1, <2>1, Zenon
  <1>3. CASE RecordHere(l)
    BY <1>3, SMT DEF RecordHere
  <1>4. CASE SeriesStartedHere(l)
    BY <1>4, SMT DEF SeriesStartedHere
  <1>5. CASE InitialPassesHere(l)
    BY <1>5, SMT DEF InitialPassesHere
  <1>6. CASE InitialFailsHere(l)
    BY <1>6, SMT DEF InitialFailsHere
  <1>7. CASE RetrainHere(l)
    BY <1>7, SMT DEF RetrainHere
  <1>8. CASE TakeDownHere(l)
    BY <1>8, SMT DEF TakeDownHere
  <1>9. CASE BringUpHere(l)
    BY <1>9, SMT DEF BringUpHere
  <1>10. CASE CheckPassesHere(l)
    BY <1>10, SMT DEF CheckPassesHere
  <1>11. CASE CheckFailsHere(l)
    BY <1>11, SMT DEF CheckFailsHere
  <1>12. CASE VerdictHere(l)
    BY <1>12, SMT DEF VerdictHere
  <1>13. CASE RestoredHere(l)
    BY <1>13, SMT DEF RestoredHere
  <1>14. CASE EndStepHere(l)
    BY <1>14, SMT DEF EndStepHere
  <1> QED
    BY <1>2, <1>3, <1>4, <1>5, <1>6, <1>7, <1>8, <1>9, <1>10, <1>11, <1>12, <1>13, <1>14, StepsHere, Zenon

LEMMA CountsStep == TypeInv /\ LinksInv /\ CountsInv /\ [Next]_vars => CountsInv'
  <1> SUFFICES ASSUME TypeInv, LinksInv, CountsInv, [Next]_vars, NEW k \in Links PROVE CountsAt(k)'
    BY Zenon DEF CountsInv
  <1>0. CountsAt(k)
    BY Zenon DEF CountsInv
  <1>1. CASE SpawnLink
    <2>1. /\ k = next => tpc[k] = "idle" /\ tpc'[k] = "record"
          /\ k # next => tpc'[k] = tpc[k]
          /\ UNCHANGED <<setup, itr, passCount, failCount, pass>>
      BY <1>1, SpawnIs, SpawnedIdle, Zenon
    <2>2. CASE k = next
      BY <1>0, <2>1, <2>2, SMT DEF CountsAt, BeforeTraining
    <2>3. CASE k # next
      BY <1>0, <2>1, <2>3, Zenon DEF CountsAt, AllTrained
    <2> QED BY <2>2, <2>3, Zenon
  <1>2. CASE Aside
    BY <1>0, <1>2, AsideIs, Zenon DEF CountsAt, AllTrained
  <1>3. ASSUME NEW l \in Links, TrainLoop(l) PROVE CountsAt(k)'
    <2>1. CASE k = l
      BY <1>3, <2>1, CountsHere, SetupKept, Zenon
    <2>2. CASE k # l
      <3>1. /\ tpc'[k] = tpc[k] /\ itr'[k] = itr[k] /\ passCount'[k] = passCount[k]
            /\ failCount'[k] = failCount[k] /\ pass'[k] = pass[k] /\ setup' = setup
        BY <1>3, <2>2, OthersKept, Zenon
      <3> QED BY <1>0, <3>1, Zenon DEF CountsAt, AllTrained
    <2> QED BY <2>1, <2>2, Zenon
  <1> QED BY <1>1, <1>2, <1>3, NextCases, Zenon

-----------------------------------------------------------------------------
\* The ports' bits.

\* A port's bit stays set only if it was read so, and it is read so only below another link; it
\* is reset when the links above are not up.
DownAt(l) ==
  /\ tpc[l] # "down" /\ down[l] => ctl[l]
  /\ ctl[l] => Above(l) # {}
  /\ ~DspReachable(l) => ~down[l]

DownInv == \A l \in Links : DownAt(l)

\* A link above a link is not one that goes down with it.
LEMMA AboveFacts ==
  ASSUME TypeInv, NEW l \in Links, NEW k \in Links, NEW j \in Above(k)
  PROVE  /\ j \in Links /\ k \in setup.below[j]
         /\ j \in Under(l) => k \in setup.below[l] /\ k # l
  <1>1. /\ \A m \in Links : m \notin setup.below[m]
        /\ \A m \in Links : \A i \in setup.below[m] : setup.below[i] \subseteq setup.below[m]
    BY SetupFacts, Zenon DEF TypeInv, MainTypes
  <1>2. j \in Links /\ k \in setup.below[j]
    BY Zenon DEF Above
  <1> QED BY <1>1, <1>2, Zenon DEF Under

\* What the steps do to the ports' bits, and to which links are up.
PortsMove(l) ==
  \/ UNCHANGED <<up, down>>
  \/ \E b \in BOOLEAN : DspReachable(l) /\ GoesDown(l, b)
  \/ down' = [down EXCEPT ![l] = FALSE] /\ up' = up

LEMMA PortSteps ==
  ASSUME TypeInv, NEW l \in Links, TrainLoop(l)
  PROVE  PortsMove(l) /\ (TakeDown(l) \/ BringUp(l) \/ (ctl' = ctl /\ (down'[l] => down[l])))
  <1>0. up \in [Links -> BOOLEAN] /\ down \in [Links -> BOOLEAN] /\ down[l] \in BOOLEAN
    BY Zenon DEF TypeInv, HwTypes
  <1>1. ASSUME NEW b, WriteDown(l, b) PROVE PortsMove(l)
    BY <1>1, Zenon DEF WriteDown, PortsMove
  <1>2. CASE TakeDown(l) \/ BringUp(l)
    BY <1>1, <1>2, Zenon DEF TakeDown, BringUp
  <1>3. CASE Retrain(l)
    <2>1. ctl' = ctl /\ (UNCHANGED <<up, down>> \/ (UspReachable(l) /\ GoesDown(l, down[l])))
      BY <1>3, Zenon DEF Retrain, Retrained
    <2>2. GoesDown(l, down[l]) => down'[l] = down[l]
      BY Zenon DEF GoesDown
    <2> QED BY <1>0, <2>1, <2>2, Zenon DEF UspReachable, PortsMove
  <1>4. ASSUME ~TakeDown(l), ~BringUp(l), ~Retrain(l) PROVE UNCHANGED <<up, down, ctl>>
    BY <1>4, Zenon
    DEF TrainLoop, StartSeries, CheckField, RestoreField, EndSeries, Record, SeriesStarted, InitialPasses,
        InitialFails, CheckPasses, CheckFails, Verdict, Restored, EndStep, hwVars
  <1> QED BY <1>2, <1>3, <1>4, Zenon DEF PortsMove

\* Another link's step does not set a port's bit, and resets it when it takes a link above down.
LEMMA PortsKept ==
  ASSUME TypeInv, NEW l \in Links, PortsMove(l), setup' = setup, NEW k \in Links,
         ~DspReachable(k) => ~down[k]
  PROVE  (k # l => (down'[k] => down[k])) /\ (~DspReachable(k)' => ~down'[k])
  <1>0. /\ up \in [Links -> BOOLEAN] /\ down \in [Links -> BOOLEAN] /\ Above(k)' = Above(k)
        /\ \A j \in Above(k) : j \in Links
    BY Zenon DEF TypeInv, HwTypes, Above
  <1>1. CASE UNCHANGED <<up, down>>
    BY <1>0, <1>1, Zenon DEF DspReachable
  <1>2. ASSUME NEW b \in BOOLEAN, DspReachable(l), GoesDown(l, b)
        PROVE  (k # l => (down'[k] => down[k])) /\ (~DspReachable(k)' => ~down'[k])
    <2>1. k # l => (down'[k] <=> down[k] /\ k \notin setup.below[l])
      BY <1>2, Zenon DEF GoesDown
    <2>2. ASSUME NEW j \in Above(k), ~up'[j] PROVE ~down'[k]
      <3>1. ~up[j] \/ j \in Under(l)
        BY <1>0, <1>2, <2>2, Zenon DEF GoesDown
      <3>2. ~up[j] => ~down[k] /\ k # l
        BY <1>2, Zenon DEF DspReachable
      <3>3. j \in Under(l) => k # l /\ k \in setup.below[l]
        BY AboveFacts, Zenon
      <3> QED BY <2>1, <3>1, <3>2, <3>3, Zenon
    <2> QED BY <1>0, <2>1, <2>2, Zenon DEF DspReachable
  <1>3. CASE down' = [down EXCEPT ![l] = FALSE] /\ up' = up
    <2>1. DspReachable(k)' <=> DspReachable(k)
      BY <1>0, <1>3, Zenon DEF DspReachable
    <2>2. down'[k] => down[k]
      BY <1>0, <1>3, Zenon
    <2> QED BY <2>1, <2>2, Zenon
  <1> QED BY <1>1, <1>2, <1>3, Zenon DEF PortsMove

LEMMA DownMoves ==
  ASSUME TypeInv, NEW l \in Links, TrainLoop(l), ~TakeDown(l), ~BringUp(l)
  PROVE  tpc[l] # "down" /\ tpc'[l] # "down"
  <1> DEFINE Up(place) == \/ place = "record" \/ place = "series" \/ place = "initial"
                          \/ place = "train" \/ place = "check" \/ place = "verdict"
                          \/ place = "restore" \/ place = "close" \/ place = "ended"
  <1>1. Up(tpc[l]) /\ Up(tpc'[l])
    BY FieldStepsHere, LinkStepsHere, Zenon
    DEF TrainLoop, From, To, StartSeriesHere, CheckFieldHere, RestoreFieldHere, EndSeriesHere, RecordHere,
        SeriesStartedHere, InitialPassesHere, InitialFailsHere, RetrainHere,
        CheckPassesHere, CheckFailsHere, VerdictHere, RestoredHere, EndStepHere
  <1>2. \A place : Up(place) => place # "down"
    BY SMT
  <1> HIDE DEF Up
  <1> QED BY <1>1, <1>2, Zenon

LEMMA DownInit == Init => DownInv
  <1> SUFFICES ASSUME Init, NEW l \in Links PROVE DownAt(l)
    BY Zenon DEF DownInv
  <1>1. ~down[l] /\ ~ctl[l]
    BY Zenon DEF Init
  <1> QED BY <1>1, Zenon DEF DownAt

\* A link's own steps: the bit is kept as it was read, and written back.
LEMMA DownHere ==
  ASSUME TypeInv, NEW l \in Links, TrainLoop(l), setup' = setup, DownAt(l)
  PROVE  DownAt(l)'
  <1>0. /\ down[l] \in BOOLEAN /\ ctl \in [Links -> BOOLEAN] /\ down \in [Links -> BOOLEAN]
        /\ Above(l)' = Above(l)
    BY Zenon DEF TypeInv, HwTypes, Above
  <1>1. ~DspReachable(l)' => ~down'[l]
    BY PortSteps, PortsKept, Zenon DEF DownAt
  <1>2. CASE TakeDown(l)
    <2>1. tpc[l] = "train" /\ tpc'[l] = "down"
      BY <1>2, LinkStepsHere, Zenon DEF TakeDownHere, From, To
    <2>2. tpc[l] # "down"
      BY <2>1, SMT
    <2>3. ctl'[l] = IF DspReachable(l) THEN down[l] ELSE TRUE
      BY <1>0, <1>2, Zenon DEF TakeDown
    <2>4. ~DspReachable(l) => Above(l) # {}
      BY Zenon DEF DspReachable
    <2> QED BY <1>0, <1>1, <2>1, <2>2, <2>3, <2>4, Zenon DEF DownAt
  <1>3. CASE BringUp(l)
    <2>1. ctl' = ctl /\ WriteDown(l, ctl[l])
      BY <1>3, Zenon DEF BringUp, RestoredCtl
    <2>2. down'[l] => ctl[l]
      <3>1. ~DspReachable(l) => ~down'[l]
        BY <2>1, Zenon DEF WriteDown, DownAt
      <3>2. DspReachable(l) /\ ~ctl[l] => ~down'[l]
        BY <1>0, <2>1, Zenon DEF WriteDown
      <3> QED BY <3>1, <3>2, Zenon
    <2> QED BY <1>0, <1>1, <2>1, <2>2, Zenon DEF DownAt
  <1>4. CASE ~TakeDown(l) /\ ~BringUp(l)
    <2>1. tpc[l] # "down" /\ ctl' = ctl /\ (down'[l] => down[l])
      BY <1>4, DownMoves, PortSteps, Zenon
    <2> QED BY <1>0, <1>1, <2>1, Zenon DEF DownAt
  <1> QED BY <1>2, <1>3, <1>4, Zenon

LEMMA DownStep == TypeInv /\ LinksInv /\ DownInv /\ [Next]_vars => DownInv'
  <1> SUFFICES ASSUME TypeInv, LinksInv, DownInv, [Next]_vars, NEW k \in Links
               PROVE  DownAt(k)'
    BY Zenon DEF DownInv
  <1>0. DownAt(k)
    BY Zenon DEF DownInv
  <1>1. CASE SpawnLink
    <2>1. /\ tpc'[k] = tpc[k] \/ (tpc[k] = "idle" /\ tpc'[k] = "record")
          /\ setup' = setup /\ up' = up /\ down' = down /\ ctl' = ctl
      BY <1>1, SpawnIs, SpawnedIdle, Zenon
    <2>2. tpc[k] = "down" => tpc'[k] = "down"
      BY <2>1, SMT
    <2> QED BY <1>0, <2>1, <2>2, Zenon DEF DownAt, Above, DspReachable
  <1>2. CASE Aside
    <2>1. setup' = setup /\ down' = down /\ ctl' = ctl /\ tpc' = tpc /\ Above(k)' = Above(k)
      BY <1>2, AsideIs, Zenon DEF Above
    <2>2. DspReachable(k) => DspReachable(k)'
      BY <1>2, <2>1, AsideHw, Zenon DEF DspReachable, Above
    <2> QED BY <1>0, <2>1, <2>2, Zenon DEF DownAt
  <1>3. ASSUME NEW l \in Links, TrainLoop(l) PROVE DownAt(k)'
    <2>0. setup' = setup /\ Above(k)' = Above(k)
      <3>1. setup' = setup
        BY <1>3, SetupKept, Zenon
      <3> QED BY <3>1, Zenon DEF Above
    <2>1. CASE k = l
      BY <1>0, <1>3, <2>0, <2>1, DownHere, Zenon
    <2>2. CASE k # l
      <3>1. tpc'[k] = tpc[k] /\ ctl'[k] = ctl[k]
        BY <1>3, <2>2, OthersKept, Zenon
      <3>2. (down'[k] => down[k]) /\ (~DspReachable(k)' => ~down'[k])
        BY <1>0, <1>3, <2>0, <2>2, PortSteps, PortsKept, Zenon DEF DownAt
      <3> QED BY <1>0, <2>0, <3>1, <3>2, Zenon DEF DownAt
    <2> QED BY <2>1, <2>2, Zenon
  <1> QED BY <1>1, <1>2, <1>3, NextCases, Zenon

-----------------------------------------------------------------------------
\* The fields.

\* A field keeps to the states of its kind; one is logged after the first failure or at the end.
KindAt(l) ==
  \A i \in Fields :
    /\ setup.fields[i].kind = "S_CHECK" => state[l][i] \in {"S_CHECK", "S_PASS", "S_ERROR"}
    /\ setup.fields[i].kind = "S_LOG" => state[l][i] \in {"S_LOG", "S_LOGGED"}
    /\ setup.fields[i].kind = "S_RECOVER" => state[l][i] = "S_RECOVER"
    /\ state[l][i] = "S_LOGGED" => failCount[l] > 0 \/ tpc[l] \in {"restore", "close", "ended"}

KindInv == \A l \in Links : KindAt(l)

FieldSame(l, i) == state'[l][i] = state[l][i] /\ val'[l][i] = val[l][i]

LEMMA KindFacts ==
  ASSUME setup \in Setups, NEW i \in Fields
  PROVE  /\ i \in Checkers <=> setup.fields[i].kind = "S_CHECK"
         /\ i \in Recorded <=> setup.fields[i].kind = "S_RECOVER"
         /\ setup.fields[i].kind \in {"S_CHECK", "S_LOG", "S_RECOVER"}
  BY FieldFacts, Zenon DEF Checkers, Recorded, FieldsOf

\* What the steps make of the link's fields.
LogMakes(l) ==
  \A j \in Fields : /\ setup.fields[j].kind = "S_LOG" => state'[l][j] = "S_LOGGED"
                    /\ setup.fields[j].kind # "S_LOG" => FieldSame(l, j)

LEMMA LogHere ==
  ASSUME TypeInv, NEW l \in Links, Log(l)
  PROVE  LogMakes(l)
  <1> SUFFICES ASSUME NEW j \in Fields
               PROVE  /\ setup.fields[j].kind = "S_LOG" => state'[l][j] = "S_LOGGED"
                      /\ setup.fields[j].kind # "S_LOG" => FieldSame(l, j)
    BY Zenon DEF LogMakes
  <1>1. DOMAIN state = Links /\ DOMAIN val = Links
    BY Zenon DEF TypeInv, FieldTypes
  <1> QED BY <1>1, Zenon DEF Log, ReadAll, FieldSame

LEMMA RecordMakes ==
  ASSUME TypeInv, NEW l \in Links, Record(l), NEW j \in Fields
  PROVE  /\ state'[l][j] = state[l][j]
         /\ IF j \in Recorded
            THEN val'[l][j] = {ValueOf(l, setup.fields[j]) \cap setup.fields[j].mask}
            ELSE val'[l][j] = val[l][j]
  <1>1. DOMAIN state = Links /\ DOMAIN val = Links
    BY Zenon DEF TypeInv, FieldTypes
  <1>2. ReadAll(l, "S_RECOVER") /\ state' = state
    BY Zenon DEF Record
  <1>3. j \in Recorded <=> setup.fields[j].kind = "S_RECOVER"
    BY Zenon DEF Recorded, FieldsOf
  <1> QED BY <1>1, <1>2, <1>3, Zenon DEF ReadAll

LEMMA StartSeriesMakes ==
  ASSUME TypeInv, NEW l \in Links, NEW i \in Fields, StartSeries(l, i)
  PROVE  /\ \A j \in Fields : j # i => FieldSame(l, j)
         /\ val'[l][i] = val[l][i]
         /\ state'[l][i] = IF setup.fields[i].expected = {} THEN "S_ERROR" ELSE state[l][i]
  <1>1. state \in [Links -> [Fields -> States]]
    BY Zenon DEF TypeInv, FieldTypes
  <1>2. val' = val
    BY Zenon DEF StartSeries
  <1>3. CASE setup.fields[i].expected = {}
    <2>1. state' = [state EXCEPT ![l][i] = "S_ERROR"]
      BY <1>3, Zenon DEF StartSeries
    <2>2. state'[l][i] = "S_ERROR" /\ \A j \in Fields : j # i => state'[l][j] = state[l][j]
      BY <1>1, <2>1, SMT
    <2> QED BY <1>2, <1>3, <2>2, Zenon DEF FieldSame
  <1>4. CASE setup.fields[i].expected # {}
    BY <1>2, <1>4, Zenon DEF StartSeries, FieldSame
  <1> QED BY <1>3, <1>4, Zenon

LEMMA CheckFieldMakes ==
  ASSUME TypeInv, NEW l \in Links, NEW i \in Fields, CheckField(l, i)
  PROVE  /\ \A j \in Fields : j # i => FieldSame(l, j)
         /\ setup.fields[i].expected = {} => state'[l][i] = "S_ERROR" /\ val'[l][i] = val[l][i]
         /\ setup.fields[i].expected # {} /\ ~Judgeable(l, i) => FieldSame(l, i)
         /\ setup.fields[i].expected # {} /\ Judgeable(l, i) =>
              /\ val'[l][i] = {ValueOf(l, setup.fields[i]) \cap setup.fields[i].mask}
              /\ state'[l][i] = IF fine'[l] THEN "S_PASS" ELSE "S_ERROR"
  <1> DEFINE f == setup.fields[i]
             w == {ValueOf(l, f) \cap f.mask}
  <1>1. /\ state \in [Links -> [Fields -> States]]
        /\ val \in [Links -> [Fields -> Optional(SUBSET Bits)]]
    BY Zenon DEF TypeInv, FieldTypes
  <1>2. ASSUME NEW s, state' = [state EXCEPT ![l][i] = s]
        PROVE  state'[l][i] = s /\ \A j \in Fields : j # i => state'[l][j] = state[l][j]
    BY <1>1, <1>2, SMT
  <1>3. ASSUME NEW s, val' = [val EXCEPT ![l][i] = s]
        PROVE  val'[l][i] = s /\ \A j \in Fields : j # i => val'[l][j] = val[l][j]
    BY <1>1, <1>3, SMT
  <1>4. CASE f.expected = {}
    <2>1. state' = [state EXCEPT ![l][i] = "S_ERROR"] /\ val' = val
      BY <1>4, Zenon DEF CheckField
    <2> QED BY <1>2, <1>4, <2>1, Zenon DEF FieldSame
  <1>5. CASE f.expected # {} /\ ~Judgeable(l, i)
    BY <1>5, Zenon DEF CheckField, FieldSame
  <1>6. CASE f.expected # {} /\ Judgeable(l, i)
    <2>1. /\ val' = [val EXCEPT ![l][i] = w]
          /\ state' = [state EXCEPT ![l][i] = IF fine'[l] THEN "S_PASS" ELSE "S_ERROR"]
      BY <1>6, Zenon DEF CheckField
    <2> QED BY <1>2, <1>3, <1>6, <2>1, Zenon DEF FieldSame
  <1> QED BY <1>4, <1>5, <1>6, Zenon

\* The other steps log the fields, at the first failure or at the end, or leave them alone.
Logs(l) == InitialFails(l) \/ (CheckFails(l) /\ ToBeLogged(l)) \/ (Verdict(l) /\ failCount[l] = 0 /\ passCount[l] > 0)

LEMMA FieldSteps ==
  ASSUME TypeInv, NEW l \in Links, TrainLoop(l)
  PROVE  \/ \E i \in Fields : StartSeries(l, i) \/ CheckField(l, i)
         \/ Record(l)
         \/ Logs(l) /\ LogMakes(l)
         \/ state' = state /\ val' = val /\ ~InitialFails(l)
  <1>1. Logs(l) => Log(l)
    BY Zenon DEF Logs, InitialFails, CheckFails, Verdict
  <1>2. \/ \E i \in Fields : StartSeries(l, i) \/ CheckField(l, i)
        \/ Record(l) \/ Logs(l) \/ (state' = state /\ val' = val)
    BY Zenon
    DEF TrainLoop, RestoreField, EndSeries, SeriesStarted, InitialPasses, Logs, Retrain, TakeDown,
        BringUp, CheckPasses, CheckFails, Verdict, Restored, EndStep, fieldVars
  <1>3. InitialFails(l) => Logs(l)
    BY Zenon DEF Logs
  <1> QED BY <1>1, <1>2, <1>3, LogHere, Zenon

\* Fields are logged once.
LEMMA LogsOnce ==
  ASSUME TypeInv, CountsInv, NEW l \in Links, Logs(l)
  PROVE  /\ failCount[l] = 0 /\ tpc[l] \notin {"restore", "close", "ended"}
         /\ failCount'[l] > 0 \/ tpc'[l] \in {"restore", "close", "ended"}
  <1>0. failCount[l] \in Nat
    BY Zenon DEF TypeInv, CountTypes
  <1>1. CASE InitialFails(l)
    <2>1. tpc[l] = "initial" /\ failCount'[l] = failCount[l] + 1
      BY <1>1, LinkStepsHere, Zenon DEF InitialFailsHere, From
    <2>2. failCount[l] = 0
      BY <2>1, SMT DEF CountsInv, CountsAt, BeforeTraining
    <2> QED BY <2>1, <2>2, SMT
  <1>2. CASE CheckFails(l) /\ ToBeLogged(l)
    <2>1. tpc[l] = "check" /\ failCount'[l] = failCount[l] + 1 /\ failCount[l] = 0
      BY <1>2, LinkStepsHere, Zenon DEF CheckFailsHere, From, ToBeLogged
    <2> QED BY <2>1, SMT
  <1>3. CASE Verdict(l) /\ failCount[l] = 0 /\ passCount[l] > 0
    <2>1. tpc[l] = "verdict" \/ tpc[l] = "train"
      BY <1>3, LinkStepsHere, Zenon DEF VerdictHere, From
    <2>2. tpc'[l] = "restore"
      BY <1>3, LinkStepsHere, Zenon DEF VerdictHere, To
    <2> QED BY <1>3, <2>1, <2>2, SMT
  <1> QED BY <1>1, <1>2, <1>3, Zenon DEF Logs

\* The first failure is not forgotten, and what was to be logged was.
LEMMA LoggedStays ==
  ASSUME TypeInv, NEW l \in Links, TrainLoop(l)
  PROVE  /\ failCount[l] > 0 => failCount'[l] > 0
         /\ tpc[l] \in {"restore", "close", "ended"} => tpc'[l] \in {"restore", "close", "ended"}
  <1>0. failCount[l] \in Nat
    BY Zenon DEF TypeInv, CountTypes
  <1>1. failCount'[l] = failCount[l] \/ failCount'[l] = failCount[l] + 1
    BY StepsHere, Zenon
    DEF CountsSame, StartSeriesHere, CheckFieldHere, RestoreFieldHere, EndSeriesHere, RecordHere,
        SeriesStartedHere, InitialPassesHere, InitialFailsHere, RetrainHere, TakeDownHere, BringUpHere,
        CheckPassesHere, CheckFailsHere, VerdictHere, RestoredHere, EndStepHere
  <1> DEFINE Early(place) == \/ place = "record" \/ place = "series" \/ place = "initial"
                             \/ place = "train" \/ place = "down" \/ place = "check" \/ place = "verdict"
             Late(place) == place = "restore" \/ place = "close" \/ place = "ended"
  <1>2. Early(tpc[l]) \/ Late(tpc'[l])
    BY StepsHere, Zenon
    DEF From, To, StartSeriesHere, CheckFieldHere, RestoreFieldHere, EndSeriesHere, RecordHere,
        SeriesStartedHere, InitialPassesHere, InitialFailsHere, RetrainHere, TakeDownHere, BringUpHere,
        CheckPassesHere, CheckFailsHere, VerdictHere, RestoredHere, EndStepHere
  <1>3. tpc[l] \in {"restore", "close", "ended"} => tpc'[l] \in {"restore", "close", "ended"}
    BY <1>2, SMT
  <1> QED BY <1>0, <1>1, <1>3, SMT

LEMMA KindInit == Init => KindInv
  <1> SUFFICES ASSUME Init, NEW l \in Links PROVE KindAt(l)
    BY Zenon DEF KindInv
  <1>1. \A i \in Fields : state[l][i] = setup.fields[i].kind
    BY Zenon DEF Init
  <1>2. \A i \in Fields : setup.fields[i].kind \in {"S_CHECK", "S_LOG", "S_RECOVER"}
    BY FieldFacts, Zenon DEF Init
  <1> QED BY <1>1, <1>2, SMT DEF KindAt

LEMMA KindHere ==
  ASSUME TypeInv, CountsInv, KindInv, NEW l \in Links, TrainLoop(l), setup' = setup
  PROVE  KindAt(l)'
  <1> SUFFICES ASSUME NEW j \in Fields
               PROVE  /\ setup.fields[j].kind = "S_CHECK" => state'[l][j] \in {"S_CHECK", "S_PASS", "S_ERROR"}
                      /\ setup.fields[j].kind = "S_LOG" => state'[l][j] \in {"S_LOG", "S_LOGGED"}
                      /\ setup.fields[j].kind = "S_RECOVER" => state'[l][j] = "S_RECOVER"
                      /\ state'[l][j] = "S_LOGGED" =>
                           failCount'[l] > 0 \/ tpc'[l] \in {"restore", "close", "ended"}
    BY Zenon DEF KindAt, Fields
  <1>0. /\ setup.fields[j].kind = "S_CHECK" => state[l][j] \in {"S_CHECK", "S_PASS", "S_ERROR"}
        /\ setup.fields[j].kind = "S_LOG" => state[l][j] \in {"S_LOG", "S_LOGGED"}
        /\ setup.fields[j].kind = "S_RECOVER" => state[l][j] = "S_RECOVER"
        /\ state[l][j] = "S_LOGGED" => failCount[l] > 0 \/ tpc[l] \in {"restore", "close", "ended"}
        /\ setup \in Setups
    BY Zenon DEF KindInv, KindAt, TypeInv, MainTypes
  <1>1. CASE state'[l][j] = state[l][j]
    BY <1>0, <1>1, LoggedStays, Zenon
  <1>2. CASE setup.fields[j].kind = "S_CHECK" /\ state'[l][j] \in {"S_PASS", "S_ERROR"}
    BY <1>0, <1>2, SMT
  <1>3. CASE setup.fields[j].kind = "S_LOG" /\ state'[l][j] = "S_LOGGED" /\ Logs(l)
    BY <1>3, LogsOnce, SMT
  <1>4. ASSUME NEW i \in Fields, StartSeries(l, i) \/ CheckField(l, i), state'[l][j] # state[l][j]
        PROVE  setup.fields[j].kind = "S_CHECK" /\ state'[l][j] \in {"S_PASS", "S_ERROR"}
    <2>1. i \in Checkers
      BY <1>4, Zenon DEF StartSeries, CheckField, IsAt, LeftOf
    <2>2. i = j
      <3>1. CASE StartSeries(l, i)
        BY <1>4, <3>1, StartSeriesMakes, SMT DEF FieldSame
      <3>2. CASE CheckField(l, i)
        BY <1>4, <3>2, CheckFieldMakes, SMT DEF FieldSame
      <3> QED BY <1>4, <3>1, <3>2, Zenon
    <2>3. state'[l][j] = "S_ERROR" \/ state'[l][j] = "S_PASS"
      <3>1. CASE StartSeries(l, j)
        BY <1>4, <3>1, StartSeriesMakes, Zenon
      <3>2. CASE CheckField(l, j)
        <4>1. fine'[l] \/ ~fine'[l]
          OBVIOUS
        <4> QED BY <1>4, <3>2, <4>1, CheckFieldMakes, Zenon DEF FieldSame
      <3> QED BY <1>4, <2>2, <3>1, <3>2, Zenon
    <2>4. setup.fields[j].kind = "S_CHECK"
      BY <1>0, <2>1, <2>2, KindFacts, Zenon
    <2> QED BY <2>3, <2>4, Zenon
  <1>5. Record(l) => state'[l][j] = state[l][j]
    BY RecordMakes, Zenon
  <1>6. LogMakes(l) =>
          state'[l][j] = state[l][j] \/ (setup.fields[j].kind = "S_LOG" /\ state'[l][j] = "S_LOGGED")
    BY Zenon DEF LogMakes, FieldSame
  <1> QED BY <1>1, <1>2, <1>3, <1>4, <1>5, <1>6, FieldSteps, Zenon

LEMMA KindStep == TypeInv /\ LinksInv /\ CountsInv /\ KindInv /\ [Next]_vars => KindInv'
  <1> SUFFICES ASSUME TypeInv, LinksInv, CountsInv, KindInv, [Next]_vars, NEW k \in Links PROVE KindAt(k)'
    BY Zenon DEF KindInv
  <1>0. KindAt(k)
    BY Zenon DEF KindInv
  <1>1. CASE SpawnLink
    <2>1. /\ tpc'[k] = tpc[k] \/ tpc[k] = "idle"
          /\ UNCHANGED <<setup, state, failCount>>
      BY <1>1, SpawnIs, SpawnedIdle, Zenon
    <2>2. tpc[k] \in {"restore", "close", "ended"} => tpc'[k] = tpc[k]
      BY <2>1, SMT
    <2> QED BY <1>0, <2>1, <2>2, Zenon DEF KindAt, Fields
  <1>2. CASE Aside
    BY <1>0, <1>2, AsideIs, Zenon DEF KindAt, Fields
  <1>3. ASSUME NEW l \in Links, TrainLoop(l) PROVE KindAt(k)'
    <2>1. CASE k = l
      BY <1>3, <2>1, KindHere, SetupKept, Zenon
    <2>2. CASE k # l
      <3>1. tpc'[k] = tpc[k] /\ failCount'[k] = failCount[k] /\ state'[k] = state[k] /\ setup' = setup
        BY <1>3, <2>2, OthersKept, Zenon
      <3> QED BY <1>0, <3>1, Zenon DEF KindAt, Fields
    <2> QED BY <2>1, <2>2, Zenon
  <1> QED BY <1>1, <1>2, <1>3, NextCases, Zenon

\* A step leaves the fields in error, and those logged, as they are.
LEMMA EvidenceStep ==
  ASSUME TypeInv, CountsInv, KindInv, [Next]_vars, NEW k \in Links, NEW j \in Fields,
         state[k][j] \in {"S_ERROR", "S_LOGGED"}
  PROVE  FieldSame(k, j)
  <1>0. /\ setup.fields[j].kind = "S_CHECK" => state[k][j] \in {"S_CHECK", "S_PASS", "S_ERROR"}
        /\ setup.fields[j].kind = "S_LOG" => state[k][j] \in {"S_LOG", "S_LOGGED"}
        /\ setup.fields[j].kind = "S_RECOVER" => state[k][j] = "S_RECOVER"
        /\ state[k][j] = "S_LOGGED" => failCount[k] > 0 \/ tpc[k] \in {"restore", "close", "ended"}
        /\ setup \in Setups
    BY Zenon DEF KindInv, KindAt, TypeInv, MainTypes
  <1>1. CASE SpawnLink \/ Aside
    BY <1>1, SpawnIs, AsideIs, Zenon DEF FieldSame
  <1>2. ASSUME NEW l \in Links, TrainLoop(l), k # l PROVE FieldSame(k, j)
    BY <1>2, OthersKept, Zenon DEF FieldSame
  <1>3. ASSUME TrainLoop(k) PROVE FieldSame(k, j)
    <2>1. ASSUME NEW i \in Fields, StartSeries(k, i) \/ CheckField(k, i) PROVE FieldSame(k, j)
      <3>1. CASE i # j
        BY <2>1, <3>1, StartSeriesMakes, CheckFieldMakes, Zenon
      <3>2. CASE i = j
        <4>1. j \in Checkers
          BY <2>1, <3>2, Zenon DEF StartSeries, CheckField, IsAt, LeftOf
        <4>2. setup.fields[j].kind = "S_CHECK"
          BY <1>0, <4>1, KindFacts, Zenon
        <4>3. state[k][j] = "S_ERROR" /\ ~Judgeable(k, j)
          BY <1>0, <4>2, SMT DEF Judgeable
        <4> QED BY <2>1, <3>2, <4>3, StartSeriesMakes, CheckFieldMakes, Zenon DEF FieldSame
      <3> QED BY <3>1, <3>2, Zenon
    <2>2. CASE Record(k)
      <3>1. setup.fields[j].kind # "S_RECOVER"
        BY <1>0, SMT
      <3> QED BY <1>0, <2>2, <3>1, RecordMakes, KindFacts, Zenon DEF FieldSame
    <2>3. CASE Logs(k) /\ LogMakes(k)
      <3>1. failCount[k] = 0 /\ tpc[k] \notin {"restore", "close", "ended"}
        BY <2>3, LogsOnce, Zenon
      <3>2. setup.fields[j].kind # "S_LOG"
        BY <1>0, <3>1, SMT
      <3> QED BY <2>3, <3>2, Zenon DEF LogMakes
    <2> QED BY <1>3, <2>1, <2>2, <2>3, FieldSteps, Zenon DEF FieldSame
  <1> QED BY <1>1, <1>2, <1>3, NextCases, Zenon

-----------------------------------------------------------------------------
\* The verdict of the fields.

\* Something has failed: in the check that is going on, or before.
Failing(l) == failCount[l] > 0 \/ ((tpc[l] = "initial" \/ tpc[l] = "check") /\ ~fine[l])

Matched(l, i) == state[l][i] = "S_PASS" => \E v \in val[l][i] : Matches(setup.fields[i], v)
Unchecked(l, i) == state[l][i] = "S_ERROR" => setup.fields[i].expected = {}

JudgedAt(l) ==
  /\ \A i \in Checkers : Matched(l, i)
  /\ Failing(l) => \E i \in Checkers : state[l][i] = "S_ERROR"
  /\ ~Failing(l) => \A i \in Checkers : Unchecked(l, i)
  /\ ~Failing(l) /\ tpc[l] = "initial" => \A i \in Checkers : i < at[l] => state[l][i] = "S_PASS"
  /\ ~Failing(l) /\ tpc[l] \notin BeforeTraining => \A i \in Checkers : state[l][i] = "S_PASS"

JudgedInv == \A l \in Links : JudgedAt(l)

LEMMA JudgedInit == Init => JudgedInv
  <1> SUFFICES ASSUME Init, NEW l \in Links PROVE JudgedAt(l)
    BY Zenon DEF JudgedInv
  <1>1. /\ tpc[l] = "idle" /\ failCount[l] = 0
        /\ \A i \in Fields : state[l][i] = setup.fields[i].kind
    BY Zenon DEF Init
  <1>2. \A i \in Checkers : state[l][i] = "S_CHECK"
    BY <1>1, Zenon DEF Checkers, FieldsOf
  <1> QED BY <1>1, <1>2, SMT DEF JudgedAt, Failing, Matched, Unchecked, BeforeTraining

\* The checkers are touched by the start of their series and by checks only.
LEMMA CheckersKept ==
  ASSUME TypeInv, NEW l \in Links, TrainLoop(l), NEW j \in Checkers,
         \A i \in Fields : ~StartSeries(l, i) /\ ~CheckField(l, i)
  PROVE  FieldSame(l, j)
  <1>1. j \in Fields /\ setup.fields[j].kind = "S_CHECK" /\ setup \in Setups
    BY Zenon DEF Checkers, FieldsOf, TypeInv, MainTypes
  <1>2. setup.fields[j].kind # "S_LOG" /\ setup.fields[j].kind # "S_RECOVER"
    BY <1>1, SMT
  <1>3. Record(l) => FieldSame(l, j)
    BY <1>1, <1>2, RecordMakes, KindFacts, Zenon DEF FieldSame
  <1>4. LogMakes(l) => FieldSame(l, j)
    BY <1>1, <1>2, Zenon DEF LogMakes
  <1> QED BY <1>3, <1>4, FieldSteps, Zenon DEF FieldSame

\* Then whether something has failed stays so, too: a check that fails is counted.
LEMMA FailingKept ==
  ASSUME TypeInv, NEW l \in Links, TrainLoop(l), \A i \in Fields : ~CheckField(l, i)
  PROVE  /\ Failing(l)' <=> Failing(l)
         /\ tpc'[l] = "initial" => at'[l] = 1
         /\ tpc'[l] \notin BeforeTraining =>
              \/ tpc[l] \notin BeforeTraining
              \/ tpc[l] = "initial" /\ Over(l, Checkers)
              \/ Failing(l)'
  <1>0. failCount[l] \in Nat
    BY Zenon DEF TypeInv, CountTypes
  <1> DEFINE Goal == /\ Failing(l)' <=> Failing(l)
                     /\ tpc'[l] = "initial" => at'[l] = 1
                     /\ tpc'[l] \notin BeforeTraining =>
                          \/ tpc[l] \notin BeforeTraining
                          \/ tpc[l] = "initial" /\ Over(l, Checkers)
                          \/ Failing(l)'
  <1> SUFFICES Goal
    OBVIOUS
  <1> USE <1>0 DEF Failing, From, To, AtSame, CountsSame, BeforeTraining
  <1>1. ASSUME NEW i \in Fields, StartSeriesHere(l, i) PROVE Goal
    BY <1>1, SMT DEF StartSeriesHere
  <1>2. ASSUME NEW i \in Fields, RestoreFieldHere(l, i) PROVE Goal
    BY <1>2, SMT DEF RestoreFieldHere
  <1>3. ASSUME NEW i \in Fields, EndSeriesHere(l, i) PROVE Goal
    BY <1>3, SMT DEF EndSeriesHere
  <1>4. CASE RecordHere(l)
    BY <1>4, SMT DEF RecordHere
  <1>5. CASE SeriesStartedHere(l)
    BY <1>5, SMT DEF SeriesStartedHere
  <1>6. CASE InitialPassesHere(l)
    BY <1>6, SMT DEF InitialPassesHere
  <1>7. CASE InitialFailsHere(l)
    BY <1>7, SMT DEF InitialFailsHere
  <1>8. CASE RetrainHere(l)
    BY <1>8, SMT DEF RetrainHere
  <1>9. CASE TakeDownHere(l)
    BY <1>9, SMT DEF TakeDownHere
  <1>10. CASE BringUpHere(l)
    BY <1>10, SMT DEF BringUpHere
  <1>11. CASE CheckPassesHere(l)
    BY <1>11, SMT DEF CheckPassesHere
  <1>12. CASE CheckFailsHere(l)
    BY <1>12, SMT DEF CheckFailsHere
  <1>13. CASE VerdictHere(l)
    BY <1>13, SMT DEF VerdictHere
  <1>14. CASE RestoredHere(l)
    BY <1>14, SMT DEF RestoredHere
  <1>15. CASE EndStepHere(l)
    BY <1>15, SMT DEF EndStepHere
  <1> HIDE DEF Goal
  <1> QED
    BY <1>1, <1>2, <1>3, <1>4, <1>5, <1>6, <1>7, <1>8, <1>9, <1>10, <1>11, <1>12, <1>13, <1>14, <1>15,
       FieldStepsHere, LinkStepsHere, Zenon DEF TrainLoop

LEMMA JudgedByCheck ==
  ASSUME TypeInv, KindInv, JudgedInv, NEW l \in Links, NEW i \in Fields, CheckField(l, i), setup' = setup
  PROVE  JudgedAt(l)'
  <1> DEFINE f == setup.fields[i]
             v == ValueOf(l, f)
  <1>0. /\ JudgedAt(l) /\ Checkers' = Checkers /\ Checkers \subseteq Fields /\ failCount[l] \in Nat
        /\ fine[l] \in BOOLEAN
    BY Zenon DEF JudgedInv, Checkers, FieldsOf, Fields, TypeInv, CountTypes, LoopTypes
  <1>1. /\ tpc[l] = "initial" \/ tpc[l] = "check"
        /\ tpc'[l] = tpc[l] /\ at'[l] = i + 1 /\ failCount'[l] = failCount[l]
        /\ fine'[l] <=> fine[l] /\ Matches(f, v)
        /\ i \in Checkers /\ \A j \in Checkers : j < at[l] \/ i <= j
    <2>1. CheckFieldHere(l, i)
      BY FieldStepsHere, Zenon
    <2>2. i \in Checkers /\ \A j \in Checkers : at[l] <= j => i <= j
      BY <2>1, Zenon DEF CheckFieldHere, IsAt, LeftOf
    <2>3. \A j \in Checkers : j \in Int
      BY <1>0, SetupFacts, SMT DEF TypeInv, MainTypes
    <2>4. at[l] \in Int
      BY SetupFacts, SMT DEF TypeInv, MainTypes, LoopTypes
    <2>5. \A j \in Checkers : j < at[l] \/ i <= j
      BY <2>2, <2>3, <2>4, SMT
    <2> QED BY <2>1, <2>2, <2>5, Zenon DEF CheckFieldHere, From, To, CountsSame, StillFine
  <1>2. /\ \A j \in Fields : j # i => FieldSame(l, j)
        /\ f.expected = {} => state'[l][i] = "S_ERROR" /\ val'[l][i] = val[l][i]
        /\ f.expected # {} /\ ~Judgeable(l, i) => FieldSame(l, i)
        /\ f.expected # {} /\ Judgeable(l, i) =>
             /\ val'[l][i] = {v \cap f.mask}
             /\ state'[l][i] = IF fine'[l] THEN "S_PASS" ELSE "S_ERROR"
    BY CheckFieldMakes, Zenon
  <1>3. Matches(f, v) => f.expected # {} /\ Matches(f, v \cap f.mask)
    BY SMT DEF Matches
  <1>4. state[l][i] = "S_CHECK" \/ state[l][i] = "S_PASS" \/ state[l][i] = "S_ERROR"
    BY <1>0, <1>1, KindFacts, SMT DEF KindInv, KindAt, TypeInv, MainTypes
  <1>5. Judgeable(l, i) <=> state[l][i] # "S_ERROR"
    BY <1>4, SMT DEF Judgeable
  <1>6. Failing(l)' <=> failCount[l] > 0 \/ ~fine'[l]
    BY <1>1, Zenon DEF Failing
  <1>7. Failing(l) <=> failCount[l] > 0 \/ ~fine[l]
    BY <1>1, Zenon DEF Failing
  <1> HIDE DEF f, v
  <1>8. \A j \in Checkers : Matched(l, j)'
    <2> SUFFICES ASSUME NEW j \in Checkers PROVE Matched(l, j)'
      BY <1>0, Zenon
    <2>1. Matched(l, j)
      BY <1>0, Zenon DEF JudgedAt
    <2>2. CASE FieldSame(l, j)
      BY <2>1, <2>2, Zenon DEF FieldSame, Matched
    <2>3. CASE j = i /\ f.expected = {}
      <3>1. state'[l][j] # "S_PASS"
        BY <1>2, <2>3, SMT
      <3> QED BY <3>1, Zenon DEF Matched
    <2>4. CASE j = i /\ f.expected # {} /\ Judgeable(l, i)
      <3>1. fine'[l] => Matches(f, v \cap f.mask) /\ val'[l][i] = {v \cap f.mask}
        BY <1>1, <1>2, <1>3, <2>4, Zenon
      <3>2. ~fine'[l] => state'[l][i] # "S_PASS"
        BY <1>2, <2>4, SMT
      <3> QED BY <2>4, <3>1, <3>2, Zenon DEF Matched, f
    <2> QED BY <1>0, <1>2, <2>2, <2>3, <2>4, Zenon
  <1>9. Failing(l)' => \E j \in Checkers : state'[l][j] = "S_ERROR"
    <2>1. CASE Failing(l)
      <3>1. PICK j \in Checkers : state[l][j] = "S_ERROR"
        BY <1>0, <2>1, Zenon DEF JudgedAt
      <3>2. state'[l][j] = "S_ERROR"
        BY <1>0, <1>2, <1>5, <3>1, Zenon DEF FieldSame
      <3> QED BY <3>2, Zenon
    <2>2. CASE ~fine'[l]
      <3>1. state'[l][i] = "S_ERROR"
        BY <1>2, <1>5, <2>2, Zenon DEF FieldSame
      <3> QED BY <1>1, <3>1, Zenon
    <2> QED BY <1>6, <1>7, <2>1, <2>2, Zenon
  <1>10. ASSUME ~Failing(l)'
         PROVE  /\ \A j \in Checkers : Unchecked(l, j)'
                /\ state'[l][i] = "S_PASS"
                /\ \A j \in Checkers : j # i => state'[l][j] = state[l][j]
                /\ ~Failing(l)
    <2>1. fine'[l] /\ fine[l] /\ Matches(f, v) /\ f.expected # {} /\ ~Failing(l)
      BY <1>1, <1>3, <1>6, <1>7, <1>10, Zenon
    <2>2. \A j \in Checkers : Unchecked(l, j)
      BY <1>0, <2>1, Zenon DEF JudgedAt
    <2>3. Judgeable(l, i)
      BY <1>1, <1>5, <2>1, <2>2, Zenon DEF Unchecked, f
    <2>4. state'[l][i] = "S_PASS"
      BY <1>2, <2>1, <2>3, Zenon
    <2>5. \A j \in Checkers : j # i => state'[l][j] = state[l][j]
      BY <1>0, <1>2, Zenon DEF FieldSame
    <2>6. state'[l][i] # "S_ERROR"
      BY <2>4, SMT
    <2>7. \A j \in Checkers : Unchecked(l, j)'
      BY <2>2, <2>5, <2>6, Zenon DEF Unchecked
    <2> QED BY <2>1, <2>4, <2>5, <2>7, Zenon
  <1>11. ASSUME ~Failing(l)', tpc'[l] = "initial", NEW j \in Checkers, j < at'[l]
         PROVE  state'[l][j] = "S_PASS"
    <2>1. j = i \/ j < at[l]
      <3>1. i \in Int /\ j \in Int /\ at[l] \in Int
        BY <1>0, <1>1, SetupFacts, SMT DEF TypeInv, MainTypes, LoopTypes
      <3> QED BY <1>1, <1>11, <3>1, SMT
    <2> QED BY <1>0, <1>1, <1>10, <1>11, <2>1, Zenon DEF JudgedAt
  <1>12. ASSUME ~Failing(l)', tpc'[l] \notin BeforeTraining, NEW j \in Checkers
         PROVE  state'[l][j] = "S_PASS"
    BY <1>0, <1>1, <1>10, <1>12, Zenon DEF JudgedAt
  <1> QED BY <1>0, <1>8, <1>9, <1>10, <1>11, <1>12, Zenon DEF JudgedAt

LEMMA JudgedByStart ==
  ASSUME TypeInv, JudgedInv, NEW l \in Links, NEW i \in Fields, StartSeries(l, i), setup' = setup
  PROVE  JudgedAt(l)'
  <1>0. JudgedAt(l) /\ Checkers' = Checkers /\ Checkers \subseteq Fields
    BY Zenon DEF JudgedInv, Checkers, FieldsOf, Fields
  <1>1. tpc[l] = "series" /\ tpc'[l] = "series"
    BY FieldStepsHere, Zenon DEF StartSeriesHere, From, To
  <1>2. Failing(l)' <=> Failing(l)
    <2>1. \A j \in Fields : ~CheckField(l, j)
      BY <1>1, SMT DEF CheckField
    <2> QED BY <2>1, FailingKept, Zenon DEF TrainLoop
  <1>3. /\ \A j \in Fields : j # i => FieldSame(l, j)
        /\ val'[l][i] = val[l][i]
        /\ setup.fields[i].expected = {} => state'[l][i] = "S_ERROR"
        /\ setup.fields[i].expected # {} => state'[l][i] = state[l][i]
    BY StartSeriesMakes, Zenon
  <1>4. ASSUME NEW j \in Checkers
        PROVE  /\ Matched(l, j)'
               /\ state[l][j] = "S_ERROR" => state'[l][j] = "S_ERROR"
               /\ Unchecked(l, j) => Unchecked(l, j)'
    <2>1. Matched(l, j)
      BY <1>0, Zenon DEF JudgedAt
    <2>2. CASE FieldSame(l, j)
      BY <2>1, <2>2, Zenon DEF FieldSame, Matched, Unchecked
    <2>3. CASE j = i /\ setup.fields[i].expected = {} /\ state'[l][i] = "S_ERROR"
      <3>1. state'[l][j] # "S_PASS"
        BY <2>3, SMT
      <3> QED BY <2>3, <3>1, Zenon DEF Matched, Unchecked
    <2> QED BY <1>0, <1>3, <2>2, <2>3, Zenon DEF FieldSame
  <1>5. tpc'[l] # "initial" /\ tpc'[l] \in BeforeTraining
    BY <1>1, SMT DEF BeforeTraining
  <1>6. Failing(l)' => \E j \in Checkers : state'[l][j] = "S_ERROR"
    BY <1>0, <1>2, <1>4, Zenon DEF JudgedAt
  <1>7. ~Failing(l)' => \A j \in Checkers : Unchecked(l, j)'
    BY <1>0, <1>2, <1>4, Zenon DEF JudgedAt
  <1> QED BY <1>0, <1>4, <1>5, <1>6, <1>7, Zenon DEF JudgedAt

LEMMA JudgedElse ==
  ASSUME TypeInv, JudgedInv, NEW l \in Links, TrainLoop(l), setup' = setup,
         \A i \in Fields : ~StartSeries(l, i) /\ ~CheckField(l, i)
  PROVE  JudgedAt(l)'
  <1>0. JudgedAt(l) /\ Checkers' = Checkers /\ Checkers \subseteq Fields
    BY Zenon DEF JudgedInv, Checkers, FieldsOf, Fields
  <1>1. \A j \in Checkers : FieldSame(l, j)
    BY CheckersKept, Zenon
  <1>2. /\ Failing(l)' <=> Failing(l)
        /\ tpc'[l] = "initial" => at'[l] = 1
        /\ tpc'[l] \notin BeforeTraining =>
             \/ tpc[l] \notin BeforeTraining
             \/ tpc[l] = "initial" /\ Over(l, Checkers)
             \/ Failing(l)'
    BY FailingKept, Zenon
  <1>3. \A j \in Checkers : Matched(l, j)' /\ (Unchecked(l, j) => Unchecked(l, j)')
    BY <1>0, <1>1, Zenon DEF JudgedAt, Matched, Unchecked, FieldSame
  <1>4. Failing(l)' => \E j \in Checkers : state'[l][j] = "S_ERROR"
    BY <1>0, <1>1, <1>2, Zenon DEF JudgedAt, FieldSame
  <1>5. ~Failing(l)' => \A j \in Checkers : Unchecked(l, j)'
    BY <1>0, <1>2, <1>3, Zenon DEF JudgedAt
  <1>6. \A j \in Checkers : j \in Nat \ {0}
    BY <1>0, SetupFacts, Zenon DEF TypeInv, MainTypes
  <1>7. tpc'[l] = "initial" => \A j \in Checkers : ~(j < at'[l])
    BY <1>2, <1>6, SMT
  <1>8. ASSUME ~Failing(l)', tpc'[l] \notin BeforeTraining, NEW j \in Checkers
        PROVE  state'[l][j] = "S_PASS"
    <2>1. CASE tpc[l] = "initial" /\ Over(l, Checkers)
      <3>1. j < at[l]
        <4>1. ~(at[l] <= j)
          BY <2>1, Zenon DEF Over, LeftOf
        <4>2. at[l] \in Int /\ j \in Int
          BY <1>6, SetupFacts, SMT DEF TypeInv, MainTypes, LoopTypes
        <4> QED BY <4>1, <4>2, SMT
      <3> QED BY <1>0, <1>1, <1>2, <1>8, <2>1, <3>1, Zenon DEF JudgedAt, FieldSame
    <2>2. CASE tpc[l] \notin BeforeTraining
      BY <1>0, <1>1, <1>2, <1>8, <2>2, Zenon DEF JudgedAt, FieldSame
    <2> QED BY <1>2, <1>8, <2>1, <2>2, Zenon
  <1> QED BY <1>0, <1>3, <1>4, <1>5, <1>7, <1>8, Zenon DEF JudgedAt

LEMMA JudgedStep == TypeInv /\ LinksInv /\ KindInv /\ JudgedInv /\ [Next]_vars => JudgedInv'
  <1> SUFFICES ASSUME TypeInv, LinksInv, KindInv, JudgedInv, [Next]_vars, NEW k \in Links
               PROVE  JudgedAt(k)'
    BY Zenon DEF JudgedInv
  <1>0. JudgedAt(k)
    BY Zenon DEF JudgedInv
  <1> USE DEF JudgedAt, Failing, Matched, Unchecked, Matches, Checkers, FieldsOf, Fields
  <1>1. CASE SpawnLink
    <2>1. /\ UNCHANGED <<setup, at, fine, state, val, failCount>>
          /\ tpc'[k] = tpc[k] \/ (tpc[k] = "idle" /\ tpc'[k] = "record")
      BY <1>1, SpawnIs, SpawnedIdle, Zenon
    <2>2. /\ tpc'[k] \notin BeforeTraining => tpc[k] \notin BeforeTraining
          /\ tpc'[k] = "initial" <=> tpc[k] = "initial"
          /\ tpc'[k] = "check" <=> tpc[k] = "check"
      BY <2>1, SMT DEF BeforeTraining
    <2> QED BY <1>0, <2>1, <2>2, Zenon
  <1>2. CASE Aside
    BY <1>0, <1>2, AsideIs, Zenon
  <1>3. ASSUME NEW l \in Links, TrainLoop(l) PROVE JudgedAt(k)'
    <2>0. setup' = setup
      BY <1>3, SetupKept, Zenon
    <2>1. CASE k = l
      <3> HIDE DEF JudgedAt
      <3> QED BY <1>3, <2>0, <2>1, JudgedByCheck, JudgedByStart, JudgedElse, Zenon
    <2>2. CASE k # l
      <3>1. /\ tpc'[k] = tpc[k] /\ failCount'[k] = failCount[k] /\ state'[k] = state[k] /\ val'[k] = val[k]
            /\ at'[k] = at[k] /\ fine'[k] = fine[k]
        BY <1>3, <2>2, OthersKept, Zenon
      <3>2. Checkers' = Checkers /\ (Failing(k)' <=> Failing(k))
        BY <2>0, <3>1, Zenon
      <3>3. \A i \in Checkers : Matched(k, i)' <=> Matched(k, i)
        BY <2>0, <3>1, Zenon
      <3>4. \A i \in Checkers : Unchecked(k, i)' <=> Unchecked(k, i)
        BY <2>0, <3>1, Zenon
      <3> HIDE DEF Checkers, Failing, Matched, Unchecked
      <3> QED BY <1>0, <3>1, <3>2, <3>3, <3>4, Zenon
    <2> QED BY <2>1, <2>2, Zenon
  <1> QED BY <1>1, <1>2, <1>3, NextCases, Zenon

-----------------------------------------------------------------------------
\* The recorded fields are written back.

WrittenBackAt(l, i) ==
  LET f == setup.fields[i]
  IN  f.sized => reg[l][f.addr] \cap f.mask = setup.found[l][f.addr] \cap f.mask
RecordedAt(l, i) ==
  LET f == setup.fields[i]
  IN  f.sized => val[l][i] = {setup.found[l][f.addr] \cap f.mask}

\* A link below no other is up and its registers are as found until it is trained; what was
\* recorded of them is kept.
KeptAt(l) ==
  Above(l) = {} =>
    /\ tpc[l] \in BeforeTraining => up[l] /\ reg[l] = setup.found[l]
    /\ tpc[l] \notin {"idle", "record"} => \A i \in Recorded : RecordedAt(l, i)

KeptInv == \A l \in Links : KeptAt(l)

\* A link below no other that is up when its test is over but for the writing back: its fields are
\* written back one after the other, and stay so.
Restoring(l) ==
  /\ Above(l) = {} /\ up[l] /\ tpc[l] \in {"restore", "close", "ended"}
  /\ \A i \in Recorded : (tpc[l] = "restore" => i < at[l]) => WrittenBackAt(l, i)

LEMMA KeptInit == Init => KeptInv
  <1> SUFFICES ASSUME Init, NEW l \in Links PROVE KeptAt(l)
    BY Zenon DEF KeptInv
  <1>1. tpc[l] = "idle" /\ reg[l] = setup.found[l] /\ up[l]
    BY Zenon DEF Init
  <1> QED BY <1>1, SMT DEF KeptAt

\* Another link's step does not reach a link that is not below it.
LEMMA RegsKept ==
  ASSUME TypeInv, NEW l \in Links, TrainLoop(l), NEW k \in Links, k # l, Above(k) = {}
  PROVE  reg'[k] = reg[k] /\ up'[k] = up[k]
  <1>0. reg \in [Links -> [Addrs -> SUBSET Bits]] /\ up \in [Links -> BOOLEAN]
    BY Zenon DEF TypeInv, HwTypes
  <1>1. up'[k] = up[k]
    <2>1. k \notin Under(l)
      BY Zenon DEF Under, Above
    <2>2. up' = up \/ \E b : GoesDown(l, b)
      BY PortSteps, Zenon DEF PortsMove
    <2>3. ASSUME NEW b, GoesDown(l, b) PROVE up'[k] = up[k]
      BY <1>0, <2>1, <2>3, Zenon DEF GoesDown
    <2> QED BY <2>2, <2>3, Zenon
  <1>2. CASE Retrain(l)
    <2>1. reg' = reg \/ \E x : reg' = [reg EXCEPT ![l] = x]
      BY <1>2, Zenon DEF Retrain, Retrained
    <2> QED BY <1>0, <1>1, <2>1, Zenon
  <1>3. ASSUME NEW i \in Fields, RestoreField(l, i) PROVE reg'[k] = reg[k]
    <2>1. reg' = reg \/ \E a, x : reg' = [reg EXCEPT ![l][a] = x]
      BY <1>3, Zenon DEF RestoreField
    <2> QED BY <1>0, <2>1, SMT
  <1>4. ASSUME ~Retrain(l), \A i \in Fields : ~RestoreField(l, i) PROVE reg' = reg
    BY <1>4, Zenon
    DEF TrainLoop, StartSeries, CheckField, EndSeries, Record, SeriesStarted, InitialPasses,
        InitialFails, TakeDown, BringUp, CheckPasses, CheckFails, Verdict, Restored, EndStep, hwVars
  <1> QED BY <1>1, <1>2, <1>3, <1>4, Zenon

\* What the steps of a link do to its registers and what is recorded of them.
LEMMA OwnRegs ==
  ASSUME NEW l \in Links, TrainLoop(l), ~Retrain(l), ~TakeDown(l), ~BringUp(l)
  PROVE  up' = up /\ ((\A i \in Fields : ~RestoreField(l, i)) => reg' = reg)
  BY Zenon
  DEF TrainLoop, StartSeries, CheckField, RestoreField, EndSeries, Record, SeriesStarted, InitialPasses,
      InitialFails, CheckPasses, CheckFails, Verdict, Restored, EndStep, hwVars

LEMMA RecordsKept ==
  ASSUME TypeInv, NEW l \in Links, TrainLoop(l), ~Record(l), NEW j \in Recorded
  PROVE  val'[l][j] = val[l][j]
  <1>1. j \in Fields /\ setup.fields[j].kind = "S_RECOVER" /\ setup \in Setups
    BY Zenon DEF Recorded, FieldsOf, TypeInv, MainTypes
  <1>2. setup.fields[j].kind # "S_LOG" /\ setup.fields[j].kind # "S_CHECK"
    BY <1>1, SMT
  <1>3. ASSUME NEW i \in Fields, StartSeries(l, i) \/ CheckField(l, i) PROVE val'[l][j] = val[l][j]
    <2>1. i \in Checkers
      BY <1>3, Zenon DEF StartSeries, CheckField, IsAt, LeftOf
    <2>2. i # j
      BY <1>1, <1>2, <2>1, KindFacts, Zenon
    <2>3. FieldSame(l, j)
      BY <1>1, <1>3, <2>2, StartSeriesMakes, CheckFieldMakes, Zenon
    <2> QED BY <2>3, Zenon DEF FieldSame
  <1>4. LogMakes(l) => val'[l][j] = val[l][j]
    BY <1>1, <1>2, Zenon DEF LogMakes, FieldSame
  <1> QED BY <1>3, <1>4, FieldSteps, Zenon

\* Bits written back within a mask, over bits already as found within another.
LEMMA MasksOverlap ==
  ASSUME NEW R, NEW F, NEW M, NEW N, NEW X, X = (R \ M) \cup ((F \cap M) \cap M)
  PROVE  X \cap M = F \cap M /\ (R \cap N = F \cap N => X \cap N = F \cap N)
  BY SMT

\* A field is written back, and those written back before it stay so.
LEMMA WriteBack ==
  ASSUME TypeInv, KeptInv, NEW l \in Links, Above(l) = {}, up[l],
         NEW i \in Fields, RestoreField(l, i), setup' = setup, NEW j \in Recorded,
         j = i \/ WrittenBackAt(l, j)
  PROVE  WrittenBackAt(l, j)'
  <1> DEFINE f == setup.fields[i]
             g == setup.fields[j]
  <1>0. /\ i \in Recorded /\ j \in Fields /\ tpc[l] = "restore" /\ KeptAt(l)
        /\ reg \in [Links -> [Addrs -> SUBSET Bits]] /\ f.addr \in Addrs /\ g.addr \in Addrs
        /\ f.sized \in BOOLEAN /\ g.sized \in BOOLEAN
    BY FieldFacts, Zenon
    DEF RestoreField, IsAt, LeftOf, Recorded, FieldsOf, KeptInv, TypeInv, MainTypes, HwTypes
  <1>1. UspReachable(l)
    BY Zenon DEF UspReachable, DspReachable
  <1>2. CASE ~f.sized
    <2>1. reg' = reg
      BY <1>2, Zenon DEF RestoreField
    <2> QED BY <1>2, <2>1, Zenon DEF WrittenBackAt
  <1>3. CASE f.sized
    <2>1. val[l][i] = {setup.found[l][f.addr] \cap f.mask}
      <3>1. tpc[l] \notin {"idle", "record"}
        BY <1>0, SMT
      <3> QED BY <1>0, <1>3, <3>1, Zenon DEF KeptAt, RecordedAt
    <2> DEFINE new == WrittenBack(l, f, setup.found[l][f.addr] \cap f.mask)
    <2>2. reg' = [reg EXCEPT ![l][f.addr] = new]
      BY <1>1, <1>3, <2>1, Zenon DEF RestoreField
    <2>3. /\ reg'[l][f.addr] = new
          /\ \A a \in Addrs : a # f.addr => reg'[l][a] = reg[l][a]
      <3> HIDE DEF new, f
      <3> QED BY <1>0, <2>2, SMT
    <2>4. /\ reg'[l][f.addr] \cap f.mask = setup.found[l][f.addr] \cap f.mask
          /\ reg[l][f.addr] \cap g.mask = setup.found[l][f.addr] \cap g.mask =>
               reg'[l][f.addr] \cap g.mask = setup.found[l][f.addr] \cap g.mask
      <3> DEFINE R == reg[l][f.addr]
                 F == setup.found[l][f.addr]
                 M == f.mask
                 N == g.mask
                 X == reg'[l][f.addr]
      <3>1. X = (R \ M) \cup ((F \cap M) \cap M)
        BY <2>3, Zenon DEF WrittenBack
      <3> HIDE DEF R, F, M, N, X
      <3>2. X \cap M = F \cap M /\ (R \cap N = F \cap N => X \cap N = F \cap N)
        BY <3>1, MasksOverlap, Zenon
      <3> QED BY <3>2, Zenon DEF R, F, M, N, X
    <2>5. CASE j = i
      BY <2>4, <2>5, Zenon DEF WrittenBackAt
    <2>6. CASE WrittenBackAt(l, j) /\ g.addr # f.addr
      <3>1. reg'[l][g.addr] = reg[l][g.addr]
        BY <1>0, <2>3, <2>6, Zenon
      <3> QED BY <2>6, <3>1, Zenon DEF WrittenBackAt
    <2>7. CASE WrittenBackAt(l, j) /\ g.addr = f.addr
      <3>1. ASSUME g.sized PROVE reg'[l][g.addr] \cap g.mask = setup.found[l][g.addr] \cap g.mask
        <4>1. reg[l][f.addr] \cap g.mask = setup.found[l][f.addr] \cap g.mask
          BY <2>7, <3>1, Zenon DEF WrittenBackAt
        <4>2. reg'[l][f.addr] \cap g.mask = setup.found[l][f.addr] \cap g.mask
          BY <2>4, <4>1, Zenon
        <4> QED BY <2>7, <4>2, Zenon
      <3> QED BY <3>1, Zenon DEF WrittenBackAt
    <2> QED BY <2>5, <2>6, <2>7, Zenon
  <1> QED BY <1>2, <1>3, Zenon

\* Where the other steps lead.
LEMMA KeptMoves ==
  ASSUME TypeInv, NEW l \in Links, TrainLoop(l), ~Record(l)
  PROVE  /\ tpc[l] \notin {"idle", "record"}
         /\ tpc'[l] \in BeforeTraining => tpc[l] \in BeforeTraining
         /\ tpc'[l] \in BeforeTraining => ~Retrain(l) /\ ~TakeDown(l) /\ ~BringUp(l)
         /\ tpc'[l] \in BeforeTraining => \A i \in Fields : ~RestoreField(l, i)
         /\ tpc[l] \in {"restore", "close", "ended"} =>
              /\ ~Retrain(l) /\ ~TakeDown(l) /\ ~BringUp(l)
              /\ \/ tpc[l] = "restore" /\ \E i \in Fields : RestoreField(l, i)
                 \/ tpc[l] = "restore" /\ tpc'[l] = "close" /\ Over(l, Recorded)
                 \/ tpc[l] = "close" /\ tpc'[l] \in {"close", "ended"}
  <1> DEFINE Goal == /\ tpc[l] \notin {"idle", "record"}
                     /\ tpc'[l] \in BeforeTraining => tpc[l] \in BeforeTraining
                     /\ tpc'[l] \in BeforeTraining => ~Retrain(l) /\ ~TakeDown(l) /\ ~BringUp(l)
                     /\ tpc'[l] \in BeforeTraining => \A i \in Fields : ~RestoreField(l, i)
                     /\ tpc[l] \in {"restore", "close", "ended"} =>
                          /\ ~Retrain(l) /\ ~TakeDown(l) /\ ~BringUp(l)
                          /\ \/ tpc[l] = "restore" /\ \E i \in Fields : RestoreField(l, i)
                             \/ tpc[l] = "restore" /\ tpc'[l] = "close" /\ Over(l, Recorded)
                             \/ tpc[l] = "close" /\ tpc'[l] \in {"close", "ended"}
  <1> SUFFICES Goal
    OBVIOUS
  <1> USE DEF From, To, BeforeTraining
  <1>r. /\ Retrain(l) \/ TakeDown(l) => tpc[l] = "train" /\ tpc'[l] # tpc[l]
        /\ BringUp(l) => tpc[l] = "down"
        /\ \A i \in Fields : RestoreField(l, i) => tpc[l] = "restore" /\ tpc'[l] = "restore"
    <2>1. /\ Retrain(l) => tpc[l] = "train" /\ tpc'[l] = "check"
          /\ TakeDown(l) => tpc[l] = "train" /\ tpc'[l] = "down"
          /\ BringUp(l) => tpc[l] = "down"
          /\ \A i \in Fields : RestoreField(l, i) => tpc[l] = "restore" /\ tpc'[l] = "restore"
      BY FieldStepsHere, LinkStepsHere, Zenon DEF RetrainHere, TakeDownHere, BringUpHere, RestoreFieldHere
    <2> QED BY <2>1, SMT
  <1>m. Retrain(l) \/ TakeDown(l) \/ BringUp(l) => tpc'[l] \notin BeforeTraining
    <2>1. /\ Retrain(l) => tpc'[l] = "check"
          /\ TakeDown(l) => tpc'[l] = "down"
          /\ BringUp(l) => tpc'[l] = "check"
      BY LinkStepsHere, Zenon DEF RetrainHere, TakeDownHere, BringUpHere
    <2> QED BY <2>1, SMT
  <1>1. ASSUME NEW i \in Fields, StartSeriesHere(l, i) PROVE Goal
    BY <1>1, <1>r, <1>m, SMT DEF StartSeriesHere
  <1>2. ASSUME NEW i \in Fields, CheckFieldHere(l, i) PROVE Goal
    BY <1>2, <1>r, <1>m, SMT DEF CheckFieldHere
  <1>3. ASSUME NEW i \in Fields, EndSeriesHere(l, i) PROVE Goal
    BY <1>3, <1>r, <1>m, SMT DEF EndSeriesHere
  <1>0. ASSUME NEW i \in Fields, RestoreField(l, i) PROVE Goal
    BY <1>0, <1>r, <1>m, SMT
  <1>4. CASE SeriesStartedHere(l)
    BY <1>4, <1>r, <1>m, SMT DEF SeriesStartedHere
  <1>5. CASE InitialPassesHere(l)
    BY <1>5, <1>r, <1>m, SMT DEF InitialPassesHere
  <1>6. CASE InitialFailsHere(l)
    BY <1>6, <1>r, <1>m, SMT DEF InitialFailsHere
  <1>7. CASE RetrainHere(l)
    BY <1>7, <1>r, <1>m, SMT DEF RetrainHere
  <1>8. CASE TakeDownHere(l)
    BY <1>8, <1>r, <1>m, SMT DEF TakeDownHere
  <1>9. CASE BringUpHere(l)
    BY <1>9, <1>r, <1>m, SMT DEF BringUpHere
  <1>10. CASE CheckPassesHere(l)
    BY <1>10, <1>r, <1>m, SMT DEF CheckPassesHere
  <1>11. CASE CheckFailsHere(l)
    BY <1>11, <1>r, <1>m, SMT DEF CheckFailsHere
  <1>12. CASE VerdictHere(l)
    BY <1>12, <1>r, <1>m, SMT DEF VerdictHere
  <1>13. CASE RestoredHere(l)
    BY <1>13, <1>r, <1>m, SMT DEF RestoredHere
  <1>14. CASE EndStepHere(l)
    BY <1>14, <1>r, <1>m, SMT DEF EndStepHere
  <1> HIDE DEF Goal
  <1> QED
    BY <1>0, <1>1, <1>2, <1>3, <1>4, <1>5, <1>6, <1>7, <1>8, <1>9, <1>10, <1>11, <1>12, <1>13, <1>14,
       FieldStepsHere, LinkStepsHere, Zenon DEF TrainLoop

LEMMA KeptHere ==
  ASSUME TypeInv, KeptInv, NEW l \in Links, TrainLoop(l), setup' = setup
  PROVE  KeptAt(l)'
  <1> SUFFICES ASSUME Above(l) = {} PROVE KeptAt(l)'
    BY Zenon DEF KeptAt, Above
  <1>0. /\ tpc[l] \in BeforeTraining => up[l] /\ reg[l] = setup.found[l]
        /\ tpc[l] \notin {"idle", "record"} => \A j \in Recorded : RecordedAt(l, j)
        /\ Recorded' = Recorded /\ Recorded \subseteq Fields
    BY Zenon DEF KeptInv, KeptAt, Recorded, FieldsOf, Fields
  <1>1. CASE Record(l)
    <2>1. tpc[l] = "record" /\ reg' = reg /\ up' = up
      BY <1>1, Zenon DEF Record, hwVars
    <2>2. up[l] /\ reg[l] = setup.found[l]
      BY <1>0, <2>1, SMT DEF BeforeTraining
    <2>3. UspReachable(l)
      BY <2>2, Zenon DEF UspReachable, DspReachable
    <2>4. \A j \in Recorded : RecordedAt(l, j)'
      <3> SUFFICES ASSUME NEW j \in Recorded, setup.fields[j].sized
                   PROVE  val'[l][j] = {setup.found[l][setup.fields[j].addr] \cap setup.fields[j].mask}
        BY <1>0, Zenon DEF RecordedAt
      <3>1. val'[l][j] = {ValueOf(l, setup.fields[j]) \cap setup.fields[j].mask}
        BY <1>0, <1>1, RecordMakes, Zenon
      <3>2. ValueOf(l, setup.fields[j]) = setup.found[l][setup.fields[j].addr]
        BY <2>2, <2>3, Zenon DEF ValueOf
      <3> QED BY <3>1, <3>2, Zenon
    <2> QED BY <1>0, <2>1, <2>2, <2>4, Zenon DEF KeptAt
  <1>2. CASE ~Record(l)
    <2>1. \A j \in Recorded : RecordedAt(l, j)'
      <3>1. \A j \in Recorded : val'[l][j] = val[l][j]
        BY <1>2, RecordsKept, Zenon
      <3> QED BY <1>0, <1>2, <3>1, KeptMoves, Zenon DEF RecordedAt
    <2>2. ASSUME tpc'[l] \in BeforeTraining PROVE up'[l] /\ reg'[l] = setup.found[l]
      BY <1>0, <1>2, <2>2, KeptMoves, OwnRegs, Zenon
    <2> QED BY <1>0, <2>1, <2>2, Zenon DEF KeptAt
  <1> QED BY <1>1, <1>2, Zenon

LEMMA KeptStep == TypeInv /\ LinksInv /\ KeptInv /\ [Next]_vars => KeptInv'
  <1> SUFFICES ASSUME TypeInv, LinksInv, KeptInv, [Next]_vars, NEW k \in Links PROVE KeptAt(k)'
    BY Zenon DEF KeptInv
  <1>0. KeptAt(k)
    BY Zenon DEF KeptInv
  <1>1. ASSUME setup' = setup, val'[k] = val[k],
               Above(k) # {} \/ (up[k] => up'[k] /\ reg'[k] = reg[k]),
               tpc'[k] = tpc[k] \/ (tpc[k] = "idle" /\ tpc'[k] = "record")
        PROVE  KeptAt(k)'
    <2>1. /\ Above(k)' = Above(k) /\ Recorded' = Recorded
          /\ \A i \in Recorded : RecordedAt(k, i)' <=> RecordedAt(k, i)
      <3>1. Above(k)' = Above(k) /\ Recorded' = Recorded
        BY <1>1, Zenon DEF Above, Recorded, FieldsOf, Fields
      <3>2. \A i \in Recorded : RecordedAt(k, i)' <=> RecordedAt(k, i)
        BY <1>1, Zenon DEF RecordedAt
      <3> QED BY <3>1, <3>2, Zenon
    <2>2. /\ tpc'[k] \in BeforeTraining => tpc[k] \in BeforeTraining
          /\ tpc'[k] \notin {"idle", "record"} => tpc[k] \notin {"idle", "record"}
      BY <1>1, SMT DEF BeforeTraining
    <2> QED BY <1>0, <1>1, <2>1, <2>2, Zenon DEF KeptAt
  <1>2. CASE SpawnLink
    BY <1>1, <1>2, SpawnIs, SpawnedIdle, Zenon
  <1>3. CASE Aside
    BY <1>1, <1>3, AsideIs, AsideHw, Zenon
  <1>4. ASSUME NEW l \in Links, TrainLoop(l) PROVE KeptAt(k)'
    <2>1. CASE k = l
      BY <1>4, <2>1, KeptHere, SetupKept, Zenon
    <2>2. CASE k # l
      BY <1>1, <1>4, <2>2, OthersKept, RegsKept, Zenon
    <2> QED BY <2>1, <2>2, Zenon
  <1> QED BY <1>2, <1>3, <1>4, NextCases, Zenon

\* A link that is up when the writing back begins: nothing is written back yet.
LEMMA RestoringBegins ==
  ASSUME TypeInv, NEW l \in Links, Above(l) = {}, up[l], tpc[l] = "restore", at[l] = 1
  PROVE  Restoring(l)
  <1>1. \A i \in Recorded : i \in Nat \ {0}
    BY SetupFacts, Zenon DEF TypeInv, MainTypes, Recorded, FieldsOf
  <1>2. \A i \in Recorded : ~(i < at[l])
    BY <1>1, SMT
  <1> QED BY <1>2, SMT DEF Restoring

\* Its own steps write one field back after the other.
LEMMA RestoringHere ==
  ASSUME TypeInv, KeptInv, NEW l \in Links, TrainLoop(l), Restoring(l), setup' = setup
  PROVE  Restoring(l)'
  <1>0. /\ Above(l) = {} /\ up[l] /\ tpc[l] \in {"restore", "close", "ended"}
        /\ \A j \in Recorded : (tpc[l] = "restore" => j < at[l]) => WrittenBackAt(l, j)
        /\ Above(l)' = Above(l) /\ Recorded' = Recorded /\ Recorded \subseteq Fields
    BY Zenon DEF Restoring, Above, Recorded, FieldsOf, Fields
  <1>1. ~Record(l)
    BY <1>0, SMT DEF Record
  <1>2. ~Retrain(l) /\ ~TakeDown(l) /\ ~BringUp(l) /\ up' = up
    BY <1>0, <1>1, KeptMoves, OwnRegs, Zenon
  <1>i. at[l] \in Int /\ \A j \in Recorded : j \in Int
    <2>1. \A j \in Recorded : j \in Nat \ {0}
      BY <1>0, SetupFacts, Zenon DEF TypeInv, MainTypes
    <2>2. at[l] \in Int
      BY SetupFacts, SMT DEF TypeInv, MainTypes, LoopTypes
    <2> QED BY <2>1, <2>2, SMT
  <1>3. ASSUME NEW i \in Fields, RestoreField(l, i) PROVE Restoring(l)'
    <2>1. /\ tpc[l] = "restore" /\ tpc'[l] = "restore" /\ at'[l] = i + 1 /\ i \in Recorded
          /\ \A j \in Recorded : at[l] <= j => i <= j
      BY <1>3, FieldStepsHere, Zenon DEF RestoreFieldHere, From, To, IsAt, LeftOf
    <2>2. ASSUME NEW j \in Recorded, j < at'[l] PROVE WrittenBackAt(l, j)'
      <3>1. j = i \/ j < at[l]
        BY <1>i, <2>1, <2>2, SMT
      <3>2. j = i \/ WrittenBackAt(l, j)
        BY <1>0, <2>1, <3>1, Zenon
      <3> QED BY <1>0, <1>3, <3>2, WriteBack, Zenon
    <2> QED BY <1>0, <1>2, <2>1, <2>2, Zenon DEF Restoring
  <1>4. ASSUME \A i \in Fields : ~RestoreField(l, i) PROVE Restoring(l)'
    <2>1. \/ tpc[l] = "restore" /\ tpc'[l] = "close" /\ Over(l, Recorded)
          \/ tpc[l] = "close" /\ tpc'[l] \in {"close", "ended"}
      BY <1>0, <1>1, <1>4, KeptMoves, Zenon
    <2>2. \A j \in Recorded : WrittenBackAt(l, j)
      <3>1. ASSUME Over(l, Recorded) PROVE \A j \in Recorded : j < at[l]
        <4>1. \A j \in Recorded : ~(at[l] <= j)
          BY <3>1, Zenon DEF Over, LeftOf
        <4> QED BY <1>i, <4>1, SMT
      <3>2. tpc[l] = "close" => tpc[l] # "restore"
        BY SMT
      <3> QED BY <1>0, <2>1, <3>1, <3>2, Zenon
    <2>3. \A j \in Recorded : WrittenBackAt(l, j)'
      <3>1. reg' = reg
        BY <1>2, <1>4, OwnRegs, Zenon
      <3> QED BY <2>2, <3>1, Zenon DEF WrittenBackAt
    <2>4. tpc'[l] \in {"restore", "close", "ended"}
      BY <2>1, SMT
    <2> QED BY <1>0, <1>2, <2>3, <2>4, Zenon DEF Restoring
  <1> QED BY <1>3, <1>4, Zenon

LEMMA RestoringStep ==
  ASSUME TypeInv, LinksInv, KeptInv, [Next]_vars, NEW k \in Links, Restoring(k)
  PROVE  Restoring(k)'
  <1>0. Above(k) = {} /\ up[k] /\ tpc[k] \in {"restore", "close", "ended"}
    BY Zenon DEF Restoring
  <1>1. ASSUME setup' = setup, tpc'[k] = tpc[k], at'[k] = at[k], up'[k] /\ reg'[k] = reg[k]
        PROVE  Restoring(k)'
    <2>1. Above(k)' = Above(k) /\ Recorded' = Recorded
      BY <1>1, Zenon DEF Above, Recorded, FieldsOf, Fields
    <2>2. \A i \in Recorded : WrittenBackAt(k, i)' <=> WrittenBackAt(k, i)
      BY <1>1, Zenon DEF WrittenBackAt
    <2> QED BY <1>0, <1>1, <2>1, <2>2, Zenon DEF Restoring
  <1>2. CASE SpawnLink
    <2>1. next # k
      <3>1. tpc[next] = "idle"
        BY <1>2, SpawnedIdle, Zenon
      <3> QED BY <1>0, <3>1, SMT
    <2> QED BY <1>0, <1>1, <1>2, <2>1, SpawnIs, Zenon
  <1>3. CASE Aside
    BY <1>0, <1>1, <1>3, AsideIs, AsideHw, Zenon
  <1>4. ASSUME NEW l \in Links, TrainLoop(l) PROVE Restoring(k)'
    <2>1. CASE k = l
      BY <1>4, <2>1, RestoringHere, SetupKept, Zenon
    <2>2. CASE k # l
      BY <1>0, <1>1, <1>4, <2>2, OthersKept, RegsKept, Zenon
    <2> QED BY <2>1, <2>2, Zenon
  <1> QED BY <1>2, <1>3, <1>4, NextCases, Zenon

-----------------------------------------------------------------------------
\* A link that passes is up, if a checker can tell.

\* A link below no other with such a checker was up when the checker last matched, and is so until
\* it is trained again.
UpAt(l, i) ==
  Above(l) = {} /\ TellsDown(i) =>
    /\ ~Failing(l) /\ (tpc[l] = "train" \/ ((tpc[l] = "initial" \/ tpc[l] = "check") /\ i < at[l])) => up[l]
    /\ pass[l] => Restoring(l)

UpInv == \A l \in Links : \A i \in Fields : UpAt(l, i)

LEMMA UpInit == Init => UpInv
  <1> SUFFICES ASSUME Init, NEW l \in Links, NEW i \in Fields PROVE UpAt(l, i)
    BY Zenon DEF UpInv
  <1>1. tpc[l] = "idle" /\ pass[l] = FALSE
    BY Zenon DEF Init
  <1> QED BY <1>1, SMT DEF UpAt

\* All ones do not match such a checker.
LEMMA MatchesIfUp ==
  ASSUME TypeInv, NEW l \in Links, Above(l) = {}, NEW i \in Fields, TellsDown(i),
         Matches(setup.fields[i], ValueOf(l, setup.fields[i]))
  PROVE  up[l]
  <1> DEFINE f == setup.fields[i]
  <1> SUFFICES ASSUME ~up[l] PROVE FALSE
    OBVIOUS
  <1>1. ~UspReachable(l) /\ f.sized /\ f.mask \in SUBSET Bits
    BY FieldFacts, Zenon DEF UspReachable, TellsDown, TypeInv, MainTypes
  <1>2. ValueOf(l, f) = Bits
    BY <1>1, Zenon DEF ValueOf
  <1>3. PICK e \in f.expected : e \cap f.mask = Bits \cap f.mask
    BY <1>2, Zenon DEF Matches
  <1>4. f.mask \subseteq e
    BY <1>1, <1>3, Zenon
  <1> QED BY <1>3, <1>4, Zenon DEF TellsDown

\* Where the steps that check nothing lead.
LEMMA UpMoves ==
  ASSUME TypeInv, NEW l \in Links, TrainLoop(l), \A i \in Fields : ~CheckField(l, i)
  PROVE  /\ tpc'[l] = "train" =>
              Failing(l)' \/ ((tpc[l] = "initial" \/ tpc[l] = "check") /\ Over(l, Checkers))
         /\ tpc'[l] = "initial" \/ tpc'[l] = "check" => at'[l] = 1
         /\ pass'[l] => \/ pass[l]
                        \/ /\ tpc[l] = "train" \/ tpc[l] = "verdict"
                           /\ failCount[l] = 0 /\ tpc'[l] = "restore" /\ at'[l] = 1
         /\ tpc'[l] = "train" \/ tpc'[l] = "restore" => ~Retrain(l) /\ ~TakeDown(l) /\ ~BringUp(l)
  <1> DEFINE Trains == tpc'[l] = "train" =>
                         Failing(l)' \/ ((tpc[l] = "initial" \/ tpc[l] = "check") /\ Over(l, Checkers))
             Checks == tpc'[l] = "initial" \/ tpc'[l] = "check" => at'[l] = 1
             Passes == pass'[l] => \/ pass[l]
                                   \/ /\ tpc[l] = "train" \/ tpc[l] = "verdict"
                                      /\ failCount[l] = 0 /\ tpc'[l] = "restore" /\ at'[l] = 1
             Goal == Trains /\ Checks /\ Passes
  <1>0. failCount[l] \in Nat
    BY Zenon DEF TypeInv, CountTypes
  <1>r. tpc'[l] = "train" \/ tpc'[l] = "restore" => ~Retrain(l) /\ ~TakeDown(l) /\ ~BringUp(l)
    <2>1. /\ Retrain(l) => tpc'[l] = "check"
          /\ TakeDown(l) => tpc'[l] = "down"
          /\ BringUp(l) => tpc'[l] = "check"
      BY LinkStepsHere, Zenon DEF RetrainHere, TakeDownHere, BringUpHere, To
    <2> QED BY <2>1, SMT
  <1> USE <1>0 DEF Failing, From, To, AtSame, CountsSame
  <1>1. ASSUME NEW i \in Fields, StartSeriesHere(l, i) PROVE Goal
    BY <1>1, SMT DEF StartSeriesHere
  <1>2. ASSUME NEW i \in Fields, RestoreFieldHere(l, i) PROVE Goal
    BY <1>2, SMT DEF RestoreFieldHere
  <1>3. ASSUME NEW i \in Fields, EndSeriesHere(l, i) PROVE Goal
    BY <1>3, SMT DEF EndSeriesHere
  <1>4. ASSUME RecordHere(l) PROVE Goal
    BY <1>4, SMT DEF RecordHere
  <1>5. ASSUME SeriesStartedHere(l) PROVE Goal
    BY <1>5, SMT DEF SeriesStartedHere
  <1>6. ASSUME InitialPassesHere(l) PROVE Goal
    <2>1. Trains /\ Passes
      BY <1>6, Zenon DEF InitialPassesHere
    <2>2. Checks
      BY <1>6, SMT DEF InitialPassesHere
    <2> QED BY <2>1, <2>2, Zenon
  <1>7. ASSUME InitialFailsHere(l) PROVE Goal
    BY <1>7, SMT DEF InitialFailsHere
  <1>8. ASSUME RetrainHere(l) PROVE Goal
    BY <1>8, SMT DEF RetrainHere
  <1>9. ASSUME TakeDownHere(l) PROVE Goal
    BY <1>9, SMT DEF TakeDownHere
  <1>10. ASSUME BringUpHere(l) PROVE Goal
    BY <1>10, SMT DEF BringUpHere
  <1>11. ASSUME CheckPassesHere(l) PROVE Goal
    <2>1. Trains /\ Passes
      BY <1>11, Zenon DEF CheckPassesHere
    <2>2. Checks
      BY <1>11, SMT DEF CheckPassesHere
    <2> QED BY <2>1, <2>2, Zenon
  <1>12. ASSUME CheckFailsHere(l) PROVE Goal
    <2>1. Passes
      BY <1>12, Zenon DEF CheckFailsHere
    <2>2. failCount'[l] = failCount[l] + 1 /\ (tpc'[l] = "train" \/ tpc'[l] = "verdict")
      BY <1>12, Zenon DEF CheckFailsHere
    <2>3. Trains /\ Checks
      BY <2>2, SMT
    <2> QED BY <2>1, <2>3, Zenon
  <1>13. ASSUME VerdictHere(l) PROVE Goal
    <2>1. Passes /\ tpc'[l] = "restore"
      BY <1>13, Zenon DEF VerdictHere
    <2>2. Trains /\ Checks
      BY <2>1, SMT
    <2> QED BY <2>1, <2>2, Zenon
  <1>14. ASSUME RestoredHere(l) PROVE Goal
    BY <1>14, SMT DEF RestoredHere
  <1>15. ASSUME EndStepHere(l) PROVE Goal
    BY <1>15, SMT DEF EndStepHere
  <1>16. Goal
    <2> HIDE DEF Goal, Trains, Checks, Passes
    <2> QED
      BY <1>1, <1>2, <1>3, <1>4, <1>5, <1>6, <1>7, <1>8, <1>9, <1>10, <1>11, <1>12, <1>13, <1>14, <1>15,
         FieldStepsHere, LinkStepsHere, Zenon DEF TrainLoop
  <1> QED BY <1>16, <1>r, Zenon

LEMMA UpHere ==
  ASSUME TypeInv, CountsInv, KeptInv, NEW l \in Links, NEW i \in Fields, UpAt(l, i), TrainLoop(l),
         setup' = setup
  PROVE  UpAt(l, i)'
  <1> SUFFICES ASSUME Above(l) = {}, TellsDown(i) PROVE UpAt(l, i)'
    BY Zenon DEF UpAt, Above, TellsDown, Checkers, FieldsOf, Fields
  <1>0. /\ ~Failing(l) /\ (tpc[l] = "train" \/ ((tpc[l] = "initial" \/ tpc[l] = "check") /\ i < at[l])) => up[l]
        /\ pass[l] => Restoring(l)
        /\ i \in Checkers /\ CountsAt(l)
    BY Zenon DEF UpAt, TellsDown, CountsInv
  <1>i. at[l] \in Int /\ \A j \in Fields : j \in Int /\ j > 0
    <2>1. \A j \in Fields : j \in Nat \ {0}
      BY SetupFacts, Zenon DEF TypeInv, MainTypes
    <2>2. at[l] \in Int
      BY SetupFacts, SMT DEF TypeInv, MainTypes, LoopTypes
    <2> QED BY <2>1, <2>2, SMT
  <1>1. ASSUME NEW j \in Fields, CheckField(l, j) PROVE UpAt(l, i)'
    <2>1. /\ tpc[l] = "initial" \/ tpc[l] = "check"
          /\ tpc'[l] = tpc[l] /\ at'[l] = j + 1 /\ pass'[l] = pass[l] /\ failCount'[l] = failCount[l]
          /\ fine'[l] => fine[l] /\ Matches(setup.fields[j], ValueOf(l, setup.fields[j]))
          /\ at[l] <= i => j <= i
      BY <1>0, <1>1, FieldStepsHere, Zenon
      DEF CheckFieldHere, From, To, CountsSame, StillFine, IsAt, LeftOf
    <2>2. up' = up
      BY <1>1, Zenon DEF CheckField, hwVars
    <2>3. ~pass[l] /\ tpc[l] # "train"
      BY <1>0, <2>1, SMT DEF CountsAt
    <2>4. ASSUME ~Failing(l)', i < at'[l] PROVE up'[l]
      <3>1. fine'[l] /\ ~Failing(l)
        BY <2>1, <2>4, Zenon DEF Failing
      <3>2. i = j \/ i < at[l]
        BY <1>i, <2>1, <2>4, SMT
      <3>3. CASE i = j
        BY <2>1, <2>2, <3>1, <3>3, MatchesIfUp, Zenon
      <3>4. CASE i < at[l]
        BY <1>0, <2>1, <2>2, <3>1, <3>4, Zenon
      <3> QED BY <3>2, <3>3, <3>4, Zenon
    <2> QED BY <2>1, <2>3, <2>4, Zenon DEF UpAt
  <1>2. ASSUME \A j \in Fields : ~CheckField(l, j) PROVE UpAt(l, i)'
    <2>1. Failing(l)' <=> Failing(l)
      BY <1>2, FailingKept, Zenon
    <2>2. ASSUME ~Failing(l)', tpc'[l] = "train" PROVE up'[l]
      <3>1. (tpc[l] = "initial" \/ tpc[l] = "check") /\ Over(l, Checkers) /\ ~Failing(l)
        BY <1>2, <2>1, <2>2, UpMoves, Zenon
      <3>2. i < at[l]
        <4>1. ~(at[l] <= i)
          BY <1>0, <3>1, Zenon DEF Over, LeftOf
        <4> QED BY <1>i, <4>1, SMT
      <3>3. up' = up
        BY <1>2, <2>2, UpMoves, OwnRegs, Zenon
      <3> QED BY <1>0, <3>1, <3>2, <3>3, Zenon
    <2>3. ASSUME tpc'[l] = "initial" \/ tpc'[l] = "check", i < at'[l] PROVE FALSE
      <3>1. at'[l] = 1
        BY <1>2, <2>3, UpMoves, Zenon
      <3> QED BY <1>i, <2>3, <3>1, SMT
    <2>4. ASSUME pass'[l] PROVE Restoring(l)'
      <3>1. CASE pass[l]
        BY <1>0, <3>1, RestoringHere, Zenon
      <3>2. CASE ~pass[l]
        <4>1. /\ tpc[l] = "train" \/ tpc[l] = "verdict"
              /\ failCount[l] = 0 /\ tpc'[l] = "restore" /\ at'[l] = 1
          BY <1>2, <2>4, <3>2, UpMoves, Zenon
        <4>2. tpc[l] = "train" /\ ~Failing(l)
          BY <1>0, <4>1, SMT DEF CountsAt, Failing
        <4>3. up'[l]
          BY <1>0, <1>2, <4>1, <4>2, UpMoves, OwnRegs, Zenon
        <4>4. Above(l)' = {} /\ Recorded' = Recorded /\ Recorded \subseteq Fields
          BY Zenon DEF Above, Recorded, FieldsOf, Fields
        <4>5. \A j \in Recorded : ~(j < at'[l])
          BY <1>i, <4>1, <4>4, SMT
        <4> QED BY <4>1, <4>3, <4>4, <4>5, Zenon DEF Restoring
      <3> QED BY <3>1, <3>2, Zenon
    <2> QED BY <2>2, <2>3, <2>4, Zenon DEF UpAt
  <1> QED BY <1>1, <1>2, Zenon

LEMMA UpStep == TypeInv /\ LinksInv /\ CountsInv /\ KeptInv /\ UpInv /\ [Next]_vars => UpInv'
  <1> SUFFICES ASSUME TypeInv, LinksInv, CountsInv, KeptInv, UpInv, [Next]_vars PROVE UpInv'
    OBVIOUS
  <1>s. setup' = setup /\ Fields' = Fields
    <2>1. setup' = setup
      BY SpawnIs, AsideIs, SetupKept, NextCases, Zenon
    <2> QED BY <2>1, Zenon DEF Fields
  <1> SUFFICES ASSUME NEW k \in Links, NEW i \in Fields PROVE UpAt(k, i)'
    BY <1>s, Zenon DEF UpInv
  <1>0. UpAt(k, i)
    BY Zenon DEF UpInv
  <1>a. Above(k)' = Above(k) /\ (TellsDown(i)' <=> TellsDown(i))
    BY <1>s, Zenon DEF Above, TellsDown, Checkers, FieldsOf
  <1>1. ASSUME tpc'[k] = tpc[k] \/ (tpc[k] = "idle" /\ tpc'[k] = "record"),
               at'[k] = at[k], fine'[k] = fine[k], failCount'[k] = failCount[k], pass'[k] = pass[k],
               Above(k) = {} /\ up[k] => up'[k]
        PROVE  UpAt(k, i)'
    <2>1. /\ tpc'[k] = "train" <=> tpc[k] = "train"
          /\ tpc'[k] = "initial" <=> tpc[k] = "initial"
          /\ tpc'[k] = "check" <=> tpc[k] = "check"
      BY <1>1, SMT
    <2>2. Failing(k)' <=> Failing(k)
      BY <1>1, <2>1, Zenon DEF Failing
    <2>3. Restoring(k) => Restoring(k)'
      BY RestoringStep, Zenon
    <2> QED BY <1>0, <1>1, <1>a, <2>1, <2>2, <2>3, Zenon DEF UpAt
  <1>2. CASE SpawnLink
    BY <1>1, <1>2, SpawnIs, SpawnedIdle, Zenon
  <1>3. CASE Aside
    BY <1>1, <1>3, AsideIs, AsideHw, Zenon
  <1>4. ASSUME NEW l \in Links, TrainLoop(l) PROVE UpAt(k, i)'
    <2>1. CASE k = l
      BY <1>0, <1>4, <1>s, <2>1, UpHere, Zenon
    <2>2. CASE k # l
      BY <1>1, <1>4, <2>2, OthersKept, RegsKept, Zenon
    <2> QED BY <2>1, <2>2, Zenon
  <1> QED BY <1>2, <1>3, <1>4, NextCases, Zenon

-----------------------------------------------------------------------------
\* How a link's goroutine ended shows in the last artifact it streamed.

EndedAt(l) ==
  tpc[l] = "ended" =>
    IF Last(out[l]) = Stream!StepEnd THEN AllTrained(l) ELSE passCount[l] = 0 /\ failCount[l] = 1

EndedInv == \A l \in Links : EndedAt(l)

LEMMA EmitHere ==
  ASSUME TypeInv, NEW l \in Links, NEW a \in Artifacts, Emit(l, a)
  PROVE  /\ out'[l] = Append(out[l], a) /\ Last(out'[l]) = a
         /\ Len(out'[l]) = Len(out[l]) + 1 /\ Len(out[l]) \in Nat /\ out'[l][Len(out[l]) + 1] = a
         /\ \A n \in 1 .. Len(out[l]) : out'[l][n] = out[l][n]
  <1>1. out \in [Links -> Seq(Artifacts)] /\ out' = [out EXCEPT ![l] = Append(@, a)]
    BY Zenon DEF TypeInv, StreamTypes, Emit
  <1>2. out'[l] = Append(out[l], a) /\ out[l] \in Seq(Artifacts)
    BY <1>1, Zenon
  <1>3. /\ Len(out'[l]) = Len(out[l]) + 1 /\ Len(out[l]) \in Nat /\ out'[l][Len(out[l]) + 1] = a
        /\ \A n \in 1 .. Len(out[l]) : out'[l][n] = out[l][n]
    BY <1>2, SMT
  <1> QED BY <1>2, <1>3, Zenon DEF Last

LEMMA EndedInit == Init => EndedInv
  <1> SUFFICES ASSUME Init, NEW l \in Links PROVE EndedAt(l)
    BY Zenon DEF EndedInv
  <1>1. tpc[l] = "idle"
    BY Zenon DEF Init
  <1> QED BY <1>1, SMT DEF EndedAt

LEMMA EndedStep == TypeInv /\ LinksInv /\ CountsInv /\ EndedInv /\ [Next]_vars => EndedInv'
  <1> SUFFICES ASSUME TypeInv, LinksInv, CountsInv, EndedInv, [Next]_vars, NEW k \in Links
               PROVE  EndedAt(k)'
    BY Zenon DEF EndedInv
  <1>0. EndedAt(k) /\ CountsAt(k) /\ passCount[k] \in Nat /\ failCount[k] \in Nat
    BY Zenon DEF EndedInv, CountsInv, TypeInv, CountTypes
  <1>1. ASSUME UNCHANGED <<setup, passCount, failCount, out>>, tpc'[k] = tpc[k] \/ tpc'[k] = "record"
        PROVE  EndedAt(k)'
    <2>1. tpc'[k] = "ended" => tpc[k] = "ended"
      BY <1>1, SMT
    <2> QED BY <1>0, <1>1, <2>1, Zenon DEF EndedAt, AllTrained
  <1>2. CASE SpawnLink
    BY <1>1, <1>2, SpawnIs, Zenon
  <1>3. CASE Aside
    BY <1>1, <1>3, AsideIs, Zenon
  <1>4. ASSUME NEW l \in Links, TrainLoop(l), k # l PROVE EndedAt(k)'
    <2>1. tpc'[k] = tpc[k] /\ passCount'[k] = passCount[k] /\ failCount'[k] = failCount[k]
          /\ out'[k] = out[k] /\ setup' = setup
      BY <1>4, OthersKept, Zenon
    <2> QED BY <1>0, <2>1, Zenon DEF EndedAt, AllTrained
  <1>5. ASSUME TrainLoop(k), tpc'[k] = "ended" PROVE EndedAt(k)'
    <2>1. InitialFails(k) \/ EndStep(k)
      <3> DEFINE On(place) == \/ place = "record" \/ place = "series" \/ place = "initial"
                              \/ place = "train" \/ place = "down" \/ place = "check"
                              \/ place = "verdict" \/ place = "restore" \/ place = "close"
      <3>1. On(tpc'[k]) \/ InitialFails(k) \/ EndStep(k)
        BY <1>5, FieldStepsHere, LinkStepsHere, Zenon
        DEF TrainLoop, From, To, StartSeriesHere, CheckFieldHere, RestoreFieldHere, EndSeriesHere, RecordHere,
            SeriesStartedHere, InitialPassesHere, RetrainHere, TakeDownHere, BringUpHere, CheckPassesHere,
            CheckFailsHere, VerdictHere, RestoredHere
      <3>2. ~On("ended")
        BY SMT
      <3> HIDE DEF On
      <3> QED BY <1>5, <3>1, <3>2, Zenon
    <2>2. CASE InitialFails(k)
      <3>1. tpc[k] = "initial" /\ passCount'[k] = passCount[k] /\ failCount'[k] = failCount[k] + 1
        BY <2>2, LinkStepsHere, Zenon DEF InitialFailsHere, From
      <3>2. passCount'[k] = 0 /\ failCount'[k] = 1
        BY <1>0, <3>1, SMT DEF CountsAt, BeforeTraining
      <3>3. Last(out'[k]) = Stream!Diagnosis("FAIL")
        BY <2>2, EmitHere, ArtifactTypes, Zenon DEF InitialFails
      <3>4. Stream!Diagnosis("FAIL") # Stream!StepEnd
        BY SMT DEF Stream!Diagnosis, Stream!StepEnd
      <3> QED BY <3>2, <3>3, <3>4, Zenon DEF EndedAt
    <2>3. CASE EndStep(k)
      <3>1. tpc[k] = "close" /\ passCount'[k] = passCount[k] /\ failCount'[k] = failCount[k]
        BY <2>3, LinkStepsHere, Zenon DEF EndStepHere, From, CountsSame
      <3>2. Last(out'[k]) = Stream!StepEnd
        BY <2>3, EmitHere, ArtifactTypes, Zenon DEF EndStep
      <3>3. AllTrained(k)'
        <4>1. AllTrained(k)
          BY <1>0, <3>1, Zenon DEF CountsAt
        <4>2. setup' = setup
          BY <1>5, SetupKept, Zenon
        <4> QED BY <3>1, <4>1, <4>2, Zenon DEF AllTrained
      <3> QED BY <3>2, <3>3, Zenon DEF EndedAt
    <2> QED BY <2>1, <2>2, <2>3, Zenon
  <1>6. tpc'[k] # "ended" => EndedAt(k)'
    BY Zenon DEF EndedAt
  <1> QED BY <1>2, <1>3, <1>4, <1>5, <1>6, NextCases, Zenon
-----------------------------------------------------------------------------
\* The inductive invariant.

Inv ==
  /\ TypeInv /\ LinksInv /\ OneAtATime /\ CountsInv /\ DownInv /\ KindInv /\ JudgedInv /\ KeptInv
  /\ UpInv /\ EndedInv

LEMMA InvInit == Init => Inv
  <1>1. Init => OneAtATime
    <2> SUFFICES ASSUME Init PROVE OneAtATime
      OBVIOUS
    <2>1. \A l \in Links : tpc[l] = "idle"
      BY Zenon DEF Init
    <2> QED BY <2>1, SMT DEF OneAtATime, Active
  <1> QED
    BY <1>1, TypeInit, LinksInit, CountsInit, DownInit, KindInit, JudgedInit, KeptInit, UpInit, EndedInit,
       Zenon
    DEF Inv

LEMMA InvStep == Inv /\ [Next]_vars => Inv'
  BY TypeStep, LinksStep, TurnStep, CountsStep, DownStep, KindStep, JudgedStep, KeptStep, UpStep,
     EndedStep, Zenon
  DEF Inv

LEMMA Invariance == Spec => []Inv
  BY InvInit, InvStep, PTL DEF Spec
-----------------------------------------------------------------------------
\* Every variable has its type: the WaitGroup never goes negative, and no link does more iterations
\* than asked for (linktrain.go:522, 690-703).
THEOREM TypeCorrect == Spec => []TypeOK
  <1>1. Inv => TypeOK
    <2> SUFFICES ASSUME Inv PROVE TypeOK
      OBVIOUS
    <2>1. wg \in 0 .. NumLinks
      BY RunningFinite, Zenon DEF Inv, LinksInv
    <2>2. itr \in [Links -> 0 .. setup.iterations]
      <3>1. setup.iterations \in Nat /\ itr \in [Links -> Nat]
            /\ \A l \in Links : itr[l] <= setup.iterations
        BY SetupFacts, Zenon DEF Inv, TypeInv, MainTypes, LoopTypes, CountsInv, CountsAt
      <3> QED BY <3>1, SMT
    <2> QED
      BY <2>1, <2>2, Zenon
      DEF Inv, TypeInv, MainTypes, LoopTypes, CountTypes, FieldTypes, StreamTypes, HwTypes, TypeOK, Places,
          States
  <1> QED BY <1>1, Invariance, PTL

\* Links that are not to be trained in parallel are trained one at a time (linktrain.go:693-696).
THEOREM LinksTakeTurns == Spec => []OneAtATime
  <1>1. Inv => OneAtATime
    BY Zenon DEF Inv
  <1> QED BY <1>1, Invariance, PTL

\* A link passes if and only if it was trained and all of its checkers say S_PASS, each with its
\* expected value (linktrain.go:341-353, 552-554).
THEOREM VerdictIsOfFields == Spec => []VerdictOfFields
  <1>1. Inv => VerdictOfFields
    <2> SUFFICES ASSUME Inv, NEW l \in Links, Ended(l)
                 PROVE  /\ pass[l] <=> passCount[l] > 0 /\ \A i \in Checkers : state[l][i] = "S_PASS"
                        /\ \A i \in Checkers : state[l][i] = "S_PASS" =>
                             \E v \in val[l][i] : Matches(setup.fields[i], v)
      BY Zenon DEF VerdictOfFields
    <2>0. /\ JudgedAt(l) /\ CountsAt(l) /\ tpc[l] = "ended" /\ failCount[l] \in Nat
      BY Zenon DEF Inv, JudgedInv, CountsInv, TypeInv, CountTypes, Ended
    <2>1. tpc[l] \notin BeforeTraining /\ tpc[l] # "check" /\ tpc[l] # "initial"
      BY <2>0, SMT DEF BeforeTraining
    <2>2. pass[l] <=> failCount[l] = 0 /\ passCount[l] > 0
      BY <2>0, SMT DEF CountsAt
    <2>3. Failing(l) <=> failCount[l] # 0
      BY <2>0, <2>1, SMT DEF Failing
    <2>4. failCount[l] = 0 => \A i \in Checkers : state[l][i] = "S_PASS"
      BY <2>0, <2>1, <2>3, Zenon DEF JudgedAt
    <2>5. failCount[l] # 0 => \E i \in Checkers : state[l][i] # "S_PASS"
      <3>1. failCount[l] # 0 => \E i \in Checkers : state[l][i] = "S_ERROR"
        BY <2>0, <2>3, Zenon DEF JudgedAt
      <3> QED BY <3>1, SMT
    <2> QED BY <2>0, <2>2, <2>4, <2>5, Zenon DEF JudgedAt, Matched
  <1> QED BY <1>1, Invariance, PTL

\* The counts of a trained link account for every iteration asked for, or for those up to the
\* first failure; one that fails the initial check has that failure only (linktrain.go:500-503,
\* 531-546).
THEOREM CountsAreRight == Spec => []CountsAddUp
  <1>1. Inv => CountsAddUp
    <2> SUFFICES ASSUME Inv, NEW l \in Links, Ended(l)
                 PROVE  /\ IF Last(out[l]) = Stream!StepEnd
                           THEN \/ passCount[l] + failCount[l] = setup.iterations
                                \/ ~setup.continue /\ failCount[l] = 1 /\ passCount[l] < setup.iterations
                           ELSE passCount[l] = 0 /\ failCount[l] = 1
                        /\ pass[l] <=> /\ passCount[l] = setup.iterations /\ setup.iterations > 0
                                       /\ failCount[l] = 0
      BY Zenon DEF CountsAddUp
    <2>0. /\ EndedAt(l) /\ CountsAt(l) /\ tpc[l] = "ended" /\ failCount[l] \in Nat /\ passCount[l] \in Nat
          /\ setup.iterations \in Nat
      BY SetupFacts, Zenon DEF Inv, EndedInv, CountsInv, TypeInv, CountTypes, MainTypes, Ended
    <2>1. pass[l] <=> passCount[l] = setup.iterations /\ setup.iterations > 0 /\ failCount[l] = 0
      BY <2>0, SMT DEF CountsAt, AllTrained
    <2> QED BY <2>0, <2>1, Zenon DEF EndedAt, AllTrained
  <1> QED BY <1>1, Invariance, PTL

\* A link that lies below no other and is up when its fields begin to be written back has them as
\* they were found when its test has ended, and from then on; a link that passes was up then, if
\* one of its checkers can tell (ltt.proto:75, linktrain.go:136, 155, 172, 397-419).
THEOREM FieldsComeBack == Spec => RecoveredAsFound
  <1>1. ASSUME NEW l \in Links
        PROVE  Spec => [](tpc[l] = "restore" /\ at[l] = 1 /\ up[l] /\ Above(l) = {}
                            => [](Ended(l) => AsFound(l)))
    <2>1. Inv /\ tpc[l] = "restore" /\ at[l] = 1 /\ up[l] /\ Above(l) = {} => Restoring(l)
      BY RestoringBegins, Zenon DEF Inv
    <2>2. Inv /\ Restoring(l) /\ [Next]_vars => Restoring(l)'
      BY RestoringStep, Zenon DEF Inv
    <2>3. Restoring(l) => (Ended(l) => AsFound(l))
      BY SMT DEF Restoring, Ended, AsFound, WrittenBackAt
    <2> QED BY <2>1, <2>2, <2>3, Invariance, PTL DEF Spec
  <1>2. Spec => [](\A l \in Links :
                     Ended(l) /\ pass[l] /\ Above(l) = {} /\ (\E i \in Fields : TellsDown(i)) => AsFound(l))
    <2>1. Inv => \A l \in Links :
                   Ended(l) /\ pass[l] /\ Above(l) = {} /\ (\E i \in Fields : TellsDown(i)) => AsFound(l)
      <3> SUFFICES ASSUME Inv, NEW l \in Links, Ended(l), pass[l], Above(l) = {},
                          NEW i \in Fields, TellsDown(i)
                   PROVE  AsFound(l)
        OBVIOUS
      <3>1. Restoring(l)
        BY Zenon DEF Inv, UpInv, UpAt
      <3> QED BY <3>1, SMT DEF Restoring, Ended, AsFound, WrittenBackAt
    <2> QED BY <2>1, Invariance, PTL
  <1> QED BY <1>1, <1>2, Zenon DEF RecoveredAsFound

\* No link is left disabled or in reset, but one whose port could not be reached when the value to
\* be written back was read: below no other link there is none (linktrain.go:151, 168).
THEOREM LinksComeUp == Spec => []LinksLeftUp
  <1>1. Inv => LinksLeftUp
    BY Zenon DEF Inv, DownInv, DownAt, LinksLeftUp
  <1> QED BY <1>1, Invariance, PTL

\* The run passes if and only if every link was trained and has passed (linktrain.go:707-712).
THEOREM ResultIsOfLinks == Spec => []ResultOfLinks
  <1>1. Inv => ResultOfLinks
    <2> SUFFICES ASSUME Inv, mpc = "done"
                 PROVE  result = "PASS" <=> \A l \in 1 .. setup.links : Ended(l) /\ pass[l]
      BY Zenon DEF ResultOfLinks
    <2>1. Running = {} /\ result = ResultOfAll /\ next > setup.links
          /\ \A l \in Links : l < next <=> tpc[l] # "idle"
      BY SMT DEF Inv, LinksInv
    <2>2. \A l \in 1 .. setup.links : l \in Links /\ l < next
      BY <2>1, SetupFacts, ConstantsAssumption, SMT DEF Inv, TypeInv, MainTypes, Links
    <2>3. \A l \in 1 .. setup.links : Ended(l)
      BY <2>1, <2>2, SMT DEF Running, Active, Ended
    <2>4. result = "PASS" <=> \A l \in 1 .. setup.links : pass[l]
      BY <2>1, SMT DEF ResultOfAll
    <2> QED BY <2>3, <2>4, Zenon
  <1> QED BY <1>1, Invariance, PTL

\* What the first failure left stays: the value of a field in error and of a logged one never
\* changes again (linktrain.go:345, 532-535).
THEOREM EvidenceStays == Spec => EvidenceKept
  <1>1. Inv /\ [Next]_vars =>
          [\A l \in Links, i \in Fields :
             state[l][i] \in {"S_ERROR", "S_LOGGED"} =>
               state'[l][i] = state[l][i] /\ val'[l][i] = val[l][i]]_vars
    BY EvidenceStep, Zenon DEF Inv, FieldSame
  <1> QED BY <1>1, Invariance, PTL DEF Spec, EvidenceKept
=============================================================================
