-------------------------- MODULE OcpStreamProofs --------------------------
(***************************************************************************)
(* Proofs about OcpStream, for any goroutines and any number of artifacts. *)
(***************************************************************************)
EXTENDS OcpStream, SequenceTheorems, TLAPS

\* The artifact in hand has a number that was given out, and is one the goroutine has.
HandInv == \A g \in Goroutines : pc[g] # "out" => num[g] > 0 /\ nth[g] <= Total(g)

\* The lock is held by the goroutine that writes, by no other.
LockInv ==
  /\ \A g \in Goroutines : g \in lock <=> pc[g] \in {"data", "newline", "unlock"}
  /\ \A g, h \in lock : g = h

\* Artifacts and newlines alternate, and a newline is missing while its writer is about to
\* write it.
LineInv ==
  /\ \A i \in DOMAIN pipe : i \in Written <=> i % 2 = 1
  /\ Len(pipe) % 2 = 1 <=> \E g \in Goroutines : pc[g] = "newline"

\* Each goroutine writes in its own order, and what is in hand is yet to be written.
OrderInv ==
  /\ \A i \in Written :
       LET g == pipe[i].by
       IN  /\ pipe[i].num <= num[g] /\ pipe[i].nth <= nth[g]
           /\ InHand(g) => pipe[i].num < num[g]
           /\ pc[g] \notin {"newline", "unlock"} => pipe[i].nth < nth[g]
  /\ \A i, j \in Written :
       pipe[i].by = pipe[j].by /\ i < j => pipe[i].nth < pipe[j].nth /\ pipe[i].num < pipe[j].num

GivenOut == WrittenNumbers \cup lost \subseteq 1 .. seqNum

\* Main is at its last artifact, or has ended.
MainEnds == nth[Main] > Before /\ (pc[Main] # "out" \/ Finished(Main))

\* The workers run between main's second artifact and its third, whose number is the last.
JoinInv ==
  /\ nth[Main] <= Before =>
       /\ \A w \in Workers : pc[w] = "out"
       /\ \A i \in Written : pipe[i].by = Main
  /\ MainEnds => num[Main] = seqNum /\ \A w \in Workers : Finished(w)
  /\ closed => Finished(Main)

-----------------------------------------------------------------------------
\* Type correctness, with HandInv, which bounds nth.

TypeInv == TypeOK /\ HandInv

LEMMA TotalType == \A g \in Goroutines : Total(g) \in Nat
  BY ConstantsAssumption, SMT DEF Total, Before, Goroutines

\* What is written has its type.
LEMMA DataType ==
  ASSUME TypeInv, NEW g \in Goroutines, pc[g] = "data"
  PROVE  Data(g) \in PieceType
  <1>1. nth[g] \in Nat \ {0} /\ num[g] \in Nat \ {0}
    BY SMT DEF TypeInv, TypeOK, HandInv
  <1>2. Data(g) \in [kind : {"data"}, by : Goroutines, nth : Nat \ {0}, num : Nat \ {0}]
    BY <1>1, SMT DEF Data
  <1> QED BY <1>2, Zenon DEF PieceType

LEMMA TypeInvInit == Init => TypeInv
  <1> SUFFICES ASSUME Init PROVE TypeInv
    OBVIOUS
  <1>1. pipe \in Seq(PieceType)
    BY SMT DEF Init
  <1>2. lock \subseteq Goroutines /\ lost \subseteq 1 .. seqNum
    BY SMT DEF Init
  <1>3. \A g \in Goroutines : pc[g] = "out" /\ nth[g] = 1 /\ num[g] = 0
    BY SMT DEF Init
  <1>4. \A g \in Goroutines : nth[g] <= Total(g) + 1
    BY <1>3, TotalType, SMT
  <1>5. num \in [Goroutines -> 0 .. seqNum] /\ nth \in [Goroutines -> Nat \ {0}]
    BY SMT DEF Init
  <1>6. TypeOK
    <2>1. pc \in [Goroutines -> {"out", "marshal", "lock", "data", "newline", "unlock"}]
      BY SMT DEF Init
    <2>2. seqNum \in Nat
      BY SMT DEF Init
    <2>3. closed \in BOOLEAN
      BY Zenon DEF Init
    <2> QED BY <1>1, <1>2, <1>4, <1>5, <2>1, <2>2, <2>3, Zenon DEF TypeOK
  <1>7. HandInv
    BY <1>3, Zenon DEF HandInv
  <1> QED BY <1>6, <1>7, Zenon DEF TypeInv

LEMMA TypeInvStep == TypeInv /\ [Next]_vars => TypeInv'
  <1> SUFFICES ASSUME TypeInv, [Next]_vars PROVE TypeInv'
    OBVIOUS
  <1> USE TotalType DEF TypeInv, TypeOK, HandInv
  <1>1. ASSUME NEW g \in Goroutines, Number(g) PROVE TypeInv'
    <2>1. seqNum' = seqNum + 1 /\ num' = [num EXCEPT ![g] = seqNum + 1] /\ nth[g] <= Total(g)
      BY <1>1, SMT DEF Number, Counted, Finished
    <2>2. num' \in [Goroutines -> 0 .. seqNum']
      BY <2>1, SMT
    <2>3. lost' \subseteq 1 .. seqNum'
      BY <1>1, <2>1, SMT DEF Number
    <2>4. pc' = [pc EXCEPT ![g] = "marshal"] /\ UNCHANGED <<lock, nth, pipe, closed>>
      BY <1>1, Zenon DEF Number, Goto
    <2>5. nth' \in [Goroutines -> Nat \ {0}] /\ \A h \in Goroutines : nth'[h] <= Total(h) + 1
      BY <2>4, SMT
    <2>6. HandInv'
      BY <2>1, <2>4, SMT
    <2>7. TypeOK'
      BY <2>1, <2>2, <2>3, <2>4, <2>5, SMT
    <2> QED BY <2>6, <2>7, Zenon
  <1>2. ASSUME NEW g \in Goroutines, Marshal(g) PROVE TypeInv'
    BY <1>2, SMT DEF Marshal, Goto
  <1>3. ASSUME NEW g \in Goroutines, MarshalFails(g) PROVE TypeInv'
    <2>1. pc' = [pc EXCEPT ![g] = "out"] /\ nth' = [nth EXCEPT ![g] = @ + 1]
          /\ UNCHANGED <<seqNum, lock, num, pipe, closed>> /\ pc[g] # "out"
      BY <1>3, SMT DEF MarshalFails, Goto
    <2>2. lost' \subseteq 1 .. seqNum'
      <3>1. num[g] \in 1 .. seqNum
        BY <2>1, SMT
      <3>2. lost' = lost \cup {num[g]} /\ seqNum' = seqNum
        BY <1>3, Zenon DEF MarshalFails
      <3>3. lost \subseteq 1 .. seqNum
        BY Zenon
      <3> QED BY <3>1, <3>2, <3>3, Zenon
    <2>3. nth' \in [Goroutines -> Nat \ {0}]
      BY <2>1, SMT
    <2>4. \A h \in Goroutines : nth'[h] <= Total(h) + 1
      BY <2>1, SMT
    <2>5. HandInv'
      BY <2>1, SMT
    <2>6. TypeOK'
      <3>1. seqNum' \in Nat /\ lock' \subseteq Goroutines /\ num' \in [Goroutines -> 0 .. seqNum']
            /\ pipe' \in Seq(PieceType) /\ closed' \in BOOLEAN
        BY <2>1, SMT
      <3>2. pc' \in [Goroutines -> {"out", "marshal", "lock", "data", "newline", "unlock"}]
        BY <2>1, Zenon
      <3> QED BY <2>2, <2>3, <2>4, <3>1, <3>2, Zenon
    <2> QED BY <2>5, <2>6, Zenon
  <1>4. ASSUME NEW g \in Goroutines, Lock(g) PROVE TypeInv'
    BY <1>4, SMT DEF Lock, Goto
  <1>5. ASSUME NEW g \in Goroutines, WriteData(g) PROVE TypeInv'
    <2>1. Data(g) \in PieceType
      BY <1>5, DataType, Zenon DEF WriteData
    <2>2. pipe' \in Seq(PieceType)
      BY <1>5, <2>1, SMT DEF WriteData
    <2>3. pc' = [pc EXCEPT ![g] = "newline"] /\ UNCHANGED <<seqNum, lock, nth, num, lost, closed>>
          /\ pc[g] # "out"
      BY <1>5, SMT DEF WriteData, Goto
    <2>4. HandInv'
      BY <2>3, SMT
    <2>5. TypeOK'
      <3>1. nth' \in [Goroutines -> Nat \ {0}] /\ \A h \in Goroutines : nth'[h] <= Total(h) + 1
        BY <2>3, SMT
      <3>2. pc' \in [Goroutines -> {"out", "marshal", "lock", "data", "newline", "unlock"}]
        BY <2>3, Zenon
      <3>3. seqNum' \in Nat /\ closed' \in BOOLEAN /\ num' \in [Goroutines -> 0 .. seqNum']
        BY <2>3, SMT
      <3> QED BY <2>2, <2>3, <3>1, <3>2, <3>3, Zenon
    <2> QED BY <2>4, <2>5, Zenon
  <1>6. ASSUME NEW g \in Goroutines, WriteNewline(g) PROVE TypeInv'
    <2>1. Newline \in PieceType
      BY Zenon DEF PieceType
    <2> QED BY <1>6, <2>1, SMT DEF WriteNewline, Goto
  <1>7. ASSUME NEW g \in Goroutines, Unlock(g) PROVE TypeInv'
    BY <1>7, SMT DEF Unlock, Unlocked, Goto
  <1>8. CASE Close
    BY <1>8, SMT DEF Close
  <1>9. CASE UNCHANGED vars
    BY <1>9, SMT DEF vars
  <1> QED
    BY <1>1, <1>2, <1>3, <1>4, <1>5, <1>6, <1>7, <1>8, <1>9, Zenon DEF Next, OutputArtifact

\* Every variable has its type; a goroutine is never past its artifacts by more than one
\* (outputArtifact, lanemargintest.go:285-309).
THEOREM TypeCorrect == Spec => []TypeOK
  <1>1. TypeInv => TypeOK
    BY Zenon DEF TypeInv
  <1> QED BY <1>1, TypeInvInit, TypeInvStep, PTL DEF Spec
-----------------------------------------------------------------------------
\* The lock, and what it makes of the pipe.

LEMMA LockInvInit == Init => LockInv
  BY SMT DEF Init, LockInv

LEMMA LockInvStep == TypeInv /\ LockInv /\ [Next]_vars => LockInv'
  <1> SUFFICES ASSUME TypeInv, LockInv, [Next]_vars PROVE LockInv'
    OBVIOUS
  <1> USE DEF LockInv
  <1>0. pc \in [Goroutines -> {"out", "marshal", "lock", "data", "newline", "unlock"}]
        /\ lock \subseteq Goroutines
    BY Zenon DEF TypeInv, TypeOK
  <1>1. ASSUME NEW g \in Goroutines, Number(g) PROVE LockInv'
    BY <1>0, <1>1, SMT DEF Number, Goto
  <1>2. ASSUME NEW g \in Goroutines, Marshal(g) PROVE LockInv'
    BY <1>0, <1>2, SMT DEF Marshal, Goto
  <1>3. ASSUME NEW g \in Goroutines, MarshalFails(g) PROVE LockInv'
    BY <1>0, <1>3, SMT DEF MarshalFails, Goto
  <1>4. ASSUME NEW g \in Goroutines, Lock(g) PROVE LockInv'
    BY <1>0, <1>4, SMT DEF Lock, LockFree, Goto
  <1>5. ASSUME NEW g \in Goroutines, WriteData(g) PROVE LockInv'
    BY <1>0, <1>5, SMT DEF WriteData, Goto
  <1>6. ASSUME NEW g \in Goroutines, WriteNewline(g) PROVE LockInv'
    BY <1>0, <1>6, SMT DEF WriteNewline, Goto
  <1>7. ASSUME NEW g \in Goroutines, Unlock(g) PROVE LockInv'
    BY <1>0, <1>7, SMT DEF Unlock, Unlocked, Goto
  <1>8. CASE Close
    BY <1>8, SMT DEF Close
  <1>9. CASE UNCHANGED vars
    BY <1>9, SMT DEF vars
  <1> QED
    BY <1>1, <1>2, <1>3, <1>4, <1>5, <1>6, <1>7, <1>8, <1>9, Zenon DEF Next, OutputArtifact

\* The pieces written so far stay as they are.
SamePieces == Written' = Written /\ \A i \in Written : pipe'[i] = pipe[i]

LEMMA PipeFacts ==
  ASSUME TypeInv
  PROVE  /\ Len(pipe) \in Nat /\ DOMAIN pipe = 1 .. Len(pipe)
         /\ \A i \in DOMAIN pipe : pipe[i] \in PieceType
         /\ \A i \in Written : /\ pipe[i].by \in Goroutines
                               /\ pipe[i].nth \in Nat \ {0} /\ pipe[i].num \in Nat \ {0}
  <1>1. pipe \in Seq(PieceType)
    BY Zenon DEF TypeInv, TypeOK
  <1>2. Len(pipe) \in Nat /\ DOMAIN pipe = 1 .. Len(pipe)
        /\ \A i \in DOMAIN pipe : pipe[i] \in PieceType
    BY <1>1, SMT
  <1>3. \A x \in PieceType : x.kind = "data" =>
          x.by \in Goroutines /\ x.nth \in Nat \ {0} /\ x.num \in Nat \ {0}
    BY SMT DEF PieceType, Newline
  <1> QED BY <1>2, <1>3, Zenon DEF Written

LEMMA SamePipe == pipe' = pipe => SamePieces
  BY Zenon DEF SamePieces, Written

LEMMA DataWritten ==
  ASSUME TypeInv, NEW g \in Goroutines, WriteData(g)
  PROVE  /\ Len(pipe') = Len(pipe) + 1 /\ Len(pipe) + 1 \notin Written
         /\ Written' = Written \cup {Len(pipe) + 1} /\ pipe'[Len(pipe) + 1] = Data(g)
         /\ \A i \in Written : pipe'[i] = pipe[i] /\ i \in 1 .. Len(pipe)
  <1>1. pipe \in Seq(PieceType) /\ Data(g) \in PieceType /\ pipe' = Append(pipe, Data(g))
    BY DataType, Zenon DEF TypeInv, TypeOK, WriteData
  <1>2. /\ Len(pipe') = Len(pipe) + 1 /\ DOMAIN pipe' = 1 .. Len(pipe) + 1
        /\ \A i \in 1 .. Len(pipe) : pipe'[i] = pipe[i]
        /\ pipe'[Len(pipe) + 1] = Data(g) /\ Len(pipe) \in Nat /\ DOMAIN pipe = 1 .. Len(pipe)
    BY <1>1, SMT
  <1>3. Data(g).kind = "data"
    BY SMT DEF Data
  <1> QED BY <1>2, <1>3, SMT DEF Written

LEMMA NewlineWritten ==
  ASSUME TypeInv, NEW g \in Goroutines, WriteNewline(g)
  PROVE  /\ Len(pipe') = Len(pipe) + 1 /\ Len(pipe) + 1 \notin Written'
         /\ SamePieces /\ \A i \in Written : i \in 1 .. Len(pipe)
  <1>1. pipe \in Seq(PieceType) /\ Newline \in PieceType /\ pipe' = Append(pipe, Newline)
    BY Zenon DEF TypeInv, TypeOK, WriteNewline, PieceType
  <1>2. /\ Len(pipe') = Len(pipe) + 1 /\ DOMAIN pipe' = 1 .. Len(pipe) + 1
        /\ \A i \in 1 .. Len(pipe) : pipe'[i] = pipe[i]
        /\ pipe'[Len(pipe) + 1] = Newline /\ Len(pipe) \in Nat /\ DOMAIN pipe = 1 .. Len(pipe)
    BY <1>1, SMT
  <1>3. Newline.kind # "data"
    BY SMT DEF Newline
  <1> QED BY <1>2, <1>3, SMT DEF Written, SamePieces

LEMMA LineInvInit == Init => LineInv
  <1> SUFFICES ASSUME Init PROVE LineInv
    OBVIOUS
  <1>1. Len(pipe) = 0 /\ DOMAIN pipe = {}
    BY SMT DEF Init
  <1>2. \A g \in Goroutines : pc[g] # "newline"
    BY SMT DEF Init
  <1> QED BY <1>1, <1>2, SMT DEF LineInv

LEMMA LineInvStep == TypeInv /\ LockInv /\ LineInv /\ [Next]_vars => LineInv'
  <1> SUFFICES ASSUME TypeInv, LockInv, LineInv, [Next]_vars PROVE LineInv'
    OBVIOUS
  <1>0. /\ pc \in [Goroutines -> {"out", "marshal", "lock", "data", "newline", "unlock"}]
        /\ Len(pipe) \in Nat /\ DOMAIN pipe = 1 .. Len(pipe)
    BY PipeFacts, Zenon DEF TypeInv, TypeOK
  <1>1. ASSUME pipe' = pipe,
               \A g \in Goroutines : pc'[g] = "newline" <=> pc[g] = "newline"
        PROVE  LineInv'
    BY <1>1, Zenon DEF LineInv, Written
  <1>2. ASSUME NEW g \in Goroutines, WriteData(g) PROVE LineInv'
    <2>1. \A h \in Goroutines : pc[h] # "newline"
      BY <1>2, SMT DEF LockInv, WriteData
    <2>2. pc'[g] = "newline"
      BY <1>0, <1>2, SMT DEF WriteData, Goto
    <2>3. Len(pipe) % 2 = 0 /\ (Len(pipe) + 1) % 2 = 1
      BY <1>0, <2>1, SMT DEF LineInv
    <2>4. DOMAIN pipe' = 1 .. Len(pipe) + 1
      BY <1>0, <1>2, DataType, SMT DEF WriteData, TypeInv, TypeOK
    <2>5. \A i \in DOMAIN pipe' : i \in Written' <=> i % 2 = 1
      BY <1>0, <1>2, <2>3, <2>4, DataWritten, SMT DEF LineInv
    <2> QED BY <1>2, <2>2, <2>3, <2>5, DataWritten, Zenon DEF LineInv
  <1>3. ASSUME NEW g \in Goroutines, WriteNewline(g) PROVE LineInv'
    <2>1. \A h \in Goroutines : pc'[h] # "newline"
      BY <1>0, <1>3, SMT DEF LockInv, WriteNewline, Goto
    <2>2. Len(pipe) % 2 = 1
      BY <1>3, Zenon DEF LineInv, WriteNewline
    <2>3. (Len(pipe) + 1) % 2 = 0
      BY <1>0, <2>2, SMT
    <2>4. DOMAIN pipe' = 1 .. Len(pipe) + 1
      BY <1>0, <1>3, SMT DEF WriteNewline, TypeInv, TypeOK
    <2>5. \A i \in DOMAIN pipe' : i \in Written' <=> i % 2 = 1
      BY <1>0, <1>3, <2>3, <2>4, NewlineWritten, SMT DEF LineInv, SamePieces
    <2>6. Len(pipe') % 2 # 1
      BY <1>3, <2>3, NewlineWritten, SMT
    <2> QED BY <2>1, <2>5, <2>6, Zenon DEF LineInv
  <1>4. ASSUME NEW g \in Goroutines,
               Number(g) \/ Marshal(g) \/ MarshalFails(g) \/ Lock(g) \/ Unlock(g)
        PROVE  LineInv'
    <2>1. pipe' = pipe
      BY <1>4, Zenon DEF Number, Marshal, MarshalFails, Lock, Unlock
    <2>2. \A h \in Goroutines : pc'[h] = "newline" <=> pc[h] = "newline"
      BY <1>0, <1>4, SMT DEF Number, Marshal, MarshalFails, Lock, Unlock, Goto
    <2> QED BY <1>1, <2>1, <2>2, Zenon
  <1>5. CASE Close \/ UNCHANGED vars
    BY <1>1, <1>5, Zenon DEF Close, vars
  <1> QED BY <1>2, <1>3, <1>4, <1>5, Zenon DEF Next, OutputArtifact

\* An artifact and its newline are never torn apart (lanemargintest.go:303-306).
THEOREM LinesKeptWhole == Spec => []LinesWhole
  <1>1. TypeInv /\ LineInv => LinesWhole
    <2> SUFFICES ASSUME TypeInv, LineInv, NEW i \in DOMAIN pipe
                 PROVE  IF i \in Written THEN i < Len(pipe) => i + 1 \notin Written
                                         ELSE i > 1 /\ i - 1 \in Written
      BY Zenon DEF LinesWhole
    <2>1. DOMAIN pipe = 1 .. Len(pipe) /\ Len(pipe) \in Nat
      BY PipeFacts, Zenon
    <2> QED BY <2>1, SMT DEF LineInv
  <1> QED
    BY <1>1, TypeInvInit, TypeInvStep, LockInvInit, LockInvStep, LineInvInit, LineInvStep,
       PTL DEF Spec
-----------------------------------------------------------------------------
\* The sequence numbers.

CountInv == GivenOut /\ NumbersAccounted

LEMMA CountInvInit == Init => CountInv
  <1> SUFFICES ASSUME Init PROVE CountInv
    OBVIOUS
  <1>1. Written = {} /\ lost = {} /\ 1 .. seqNum = {}
    BY SMT DEF Init, Written
  <1>2. WrittenNumbers = {}
    BY <1>1, Zenon DEF WrittenNumbers
  <1>3. \A g \in Goroutines : ~InHand(g)
    BY SMT DEF Init, InHand
  <1>4. GivenOut
    BY <1>1, <1>2, Zenon DEF GivenOut
  <1> QED BY <1>1, <1>2, <1>3, <1>4, Zenon DEF CountInv, NumbersAccounted

LEMMA SameNumbers == SamePieces => WrittenNumbers' = WrittenNumbers
  BY Zenon DEF SamePieces, WrittenNumbers

\* The steps that give no number out and write none.
Uncounted ==
  /\ UNCHANGED <<seqNum, num, lost>> /\ SamePieces
  /\ \A g \in Goroutines : InHand(g)' <=> InHand(g)

LEMMA UncountedStep ==
  ASSUME TypeInv, \/ \E g \in Goroutines : Marshal(g) \/ Lock(g) \/ WriteNewline(g) \/ Unlock(g)
                  \/ Close \/ UNCHANGED vars
  PROVE  Uncounted
  <1>0. pc \in [Goroutines -> {"out", "marshal", "lock", "data", "newline", "unlock"}]
    BY Zenon DEF TypeInv, TypeOK
  <1>1. ASSUME NEW g \in Goroutines, Marshal(g) \/ Lock(g) \/ Unlock(g) PROVE Uncounted
    <2>1. UNCHANGED <<seqNum, num, lost, pipe>>
      BY <1>1, Zenon DEF Marshal, Lock, Unlock
    <2>2. \A h \in Goroutines : InHand(h)' <=> InHand(h)
      BY <1>0, <1>1, SMT DEF Marshal, Lock, Unlock, Goto, InHand
    <2> QED BY <2>1, <2>2, SamePipe, Zenon DEF Uncounted
  <1>2. ASSUME NEW g \in Goroutines, WriteNewline(g) PROVE Uncounted
    <2>1. UNCHANGED <<seqNum, num, lost>>
      BY <1>2, Zenon DEF WriteNewline
    <2>2. \A h \in Goroutines : InHand(h)' <=> InHand(h)
      BY <1>0, <1>2, SMT DEF WriteNewline, Goto, InHand
    <2> QED BY <1>2, <2>1, <2>2, NewlineWritten, Zenon DEF Uncounted
  <1>3. CASE Close \/ UNCHANGED vars
    BY <1>3, SamePipe, Zenon DEF Close, vars, Uncounted, InHand
  <1> QED BY <1>1, <1>2, <1>3, Zenon

LEMMA CountInvStep == TypeInv /\ CountInv /\ [Next]_vars => CountInv'
  <1> SUFFICES ASSUME TypeInv, CountInv, [Next]_vars PROVE CountInv'
    OBVIOUS
  <1>0. /\ pc \in [Goroutines -> {"out", "marshal", "lock", "data", "newline", "unlock"}]
        /\ seqNum \in Nat /\ num \in [Goroutines -> 0 .. seqNum]
    BY Zenon DEF TypeInv, TypeOK
  <1>a. \A n \in 1 .. seqNum :
          n \in WrittenNumbers \/ n \in lost \/ \E g \in Goroutines : InHand(g) /\ num[g] = n
    BY Zenon DEF CountInv, NumbersAccounted
  <1>b. \A i, j \in Written : pipe[i].num = pipe[j].num => i = j
    BY Zenon DEF CountInv, NumbersAccounted
  <1>c. \A g, h \in Goroutines : InHand(g) /\ InHand(h) /\ num[g] = num[h] => g = h
    BY Zenon DEF CountInv, NumbersAccounted
  <1>d. \A g \in Goroutines : InHand(g) => num[g] \notin WrittenNumbers \cup lost
    BY Zenon DEF CountInv, NumbersAccounted
  <1>e. WrittenNumbers \cap lost = {}
    BY Zenon DEF CountInv, NumbersAccounted
  <1>1. ASSUME Uncounted PROVE CountInv'
    BY <1>1, SameNumbers, Zenon DEF Uncounted, SamePieces, CountInv, GivenOut, NumbersAccounted
  <1>2. ASSUME NEW g \in Goroutines, Number(g) PROVE CountInv'
    <2>1. /\ seqNum' = seqNum + 1 /\ num'[g] = seqNum + 1 /\ InHand(g)' /\ ~InHand(g)
          /\ \A h \in Goroutines \ {g} : num'[h] = num[h] /\ (InHand(h)' <=> InHand(h))
      BY <1>0, <1>2, SMT DEF Number, Counted, Goto, InHand
    <2>2. lost' = lost /\ SamePieces /\ WrittenNumbers' = WrittenNumbers
      BY <1>2, SamePipe, SameNumbers, Zenon DEF Number
    <2>3. seqNum + 1 \notin WrittenNumbers \cup lost /\ \A h \in Goroutines : num[h] # seqNum + 1
      BY <1>0, SMT DEF CountInv, GivenOut
    <2>4. 1 .. seqNum' = (1 .. seqNum) \cup {seqNum + 1}
      BY <1>0, <2>1, SMT
    <2>5. \A n \in 1 .. seqNum' : n \in WrittenNumbers' \/ n \in lost'
                                \/ \E h \in Goroutines : InHand(h)' /\ num'[h] = n
      <3> SUFFICES ASSUME NEW n \in (1 .. seqNum) \cup {seqNum + 1}
                   PROVE  n \in WrittenNumbers' \/ n \in lost'
                            \/ \E h \in Goroutines : InHand(h)' /\ num'[h] = n
        BY <2>4, Zenon
      <3>1. CASE n = seqNum + 1
        BY <2>1, <3>1, Zenon
      <3>2. CASE n \in 1 .. seqNum
        BY <1>a, <2>1, <2>2, <3>2, Zenon
      <3> QED BY <3>1, <3>2, Zenon
    <2>6. \A h, k \in Goroutines : InHand(h)' /\ InHand(k)' /\ num'[h] = num'[k] => h = k
      BY <1>c, <2>1, <2>3, Zenon
    <2>7. \A h \in Goroutines : InHand(h)' => num'[h] \notin WrittenNumbers' \cup lost'
      BY <1>d, <2>1, <2>2, <2>3, Zenon
    <2>8. GivenOut'
      BY <2>2, <2>4, Zenon DEF CountInv, GivenOut
    <2>9. \A i, j \in Written' : pipe'[i].num = pipe'[j].num => i = j
      BY <1>b, <2>2, SMT DEF SamePieces
    <2>10. WrittenNumbers' \cap lost' = {}
      BY <1>e, <2>2, Zenon
    <2> QED BY <2>5, <2>6, <2>7, <2>8, <2>9, <2>10, Zenon DEF CountInv, NumbersAccounted
  <1>3. ASSUME NEW g \in Goroutines, MarshalFails(g) PROVE CountInv'
    <2>1. /\ UNCHANGED <<seqNum, num>> /\ InHand(g) /\ ~InHand(g)'
          /\ \A h \in Goroutines \ {g} : InHand(h)' <=> InHand(h)
      BY <1>0, <1>3, SMT DEF MarshalFails, Goto, InHand
    <2>2. lost' = lost \cup {num[g]} /\ SamePieces /\ WrittenNumbers' = WrittenNumbers
      BY <1>3, SamePipe, SameNumbers, Zenon DEF MarshalFails
    <2>3. num[g] \in 1 .. seqNum
      BY <1>0, <2>1, SMT DEF TypeInv, HandInv, InHand
    <2>4. GivenOut'
      BY <2>1, <2>2, <2>3, Zenon DEF CountInv, GivenOut
    <2>5. \A n \in 1 .. seqNum' : n \in WrittenNumbers' \/ n \in lost'
                                \/ \E h \in Goroutines : InHand(h)' /\ num'[h] = n
      <3> SUFFICES ASSUME NEW n \in 1 .. seqNum
                   PROVE  n \in WrittenNumbers' \/ n \in lost'
                            \/ \E h \in Goroutines : InHand(h)' /\ num'[h] = n
        BY <2>1, Zenon
      <3>1. CASE n = num[g]
        BY <2>2, <3>1, Zenon
      <3>2. CASE n # num[g]
        BY <1>a, <2>1, <2>2, <3>2, Zenon
      <3> QED BY <3>1, <3>2, Zenon
    <2>6. \A h \in Goroutines : InHand(h)' => num'[h] \notin WrittenNumbers' \cup lost'
      BY <1>c, <1>d, <2>1, <2>2, Zenon
    <2>7. WrittenNumbers' \cap lost' = {}
      BY <1>d, <1>e, <2>1, <2>2, Zenon
    <2>8. \A i, j \in Written' : pipe'[i].num = pipe'[j].num => i = j
      BY <1>b, <2>2, SMT DEF SamePieces
    <2>9. \A h, k \in Goroutines : InHand(h)' /\ InHand(k)' /\ num'[h] = num'[k] => h = k
      BY <1>c, <2>1, Zenon
    <2> QED BY <2>4, <2>5, <2>6, <2>7, <2>8, <2>9, Zenon DEF CountInv, NumbersAccounted
  <1>4. ASSUME NEW g \in Goroutines, WriteData(g) PROVE CountInv'
    <2>1. /\ UNCHANGED <<seqNum, num, lost>> /\ InHand(g) /\ ~InHand(g)'
          /\ \A h \in Goroutines \ {g} : InHand(h)' <=> InHand(h)
      BY <1>0, <1>4, SMT DEF WriteData, Goto, InHand
    <2> DEFINE n == Len(pipe) + 1
    <2>2. /\ Written' = Written \cup {n} /\ n \notin Written /\ pipe'[n].num = num[g]
          /\ \A i \in Written : pipe'[i] = pipe[i]
      <3>1. Data(g).num = num[g]
        BY SMT DEF Data
      <3> QED BY <1>4, <3>1, DataWritten, Zenon
    <2> HIDE DEF n
    <2>3. WrittenNumbers' = WrittenNumbers \cup {num[g]}
      BY <2>2, Zenon DEF WrittenNumbers
    <2>4. num[g] \in 1 .. seqNum
      BY <1>0, <2>1, SMT DEF TypeInv, HandInv, InHand
    <2>5. GivenOut'
      BY <2>1, <2>3, <2>4, Zenon DEF CountInv, GivenOut
    <2>6. \A m \in 1 .. seqNum' : m \in WrittenNumbers' \/ m \in lost'
                                \/ \E h \in Goroutines : InHand(h)' /\ num'[h] = m
      <3> SUFFICES ASSUME NEW m \in 1 .. seqNum
                   PROVE  m \in WrittenNumbers' \/ m \in lost'
                            \/ \E h \in Goroutines : InHand(h)' /\ num'[h] = m
        BY <2>1, Zenon
      <3>1. CASE m = num[g]
        BY <2>3, <3>1, Zenon
      <3>2. CASE m # num[g]
        BY <1>a, <2>1, <2>3, <3>2, Zenon
      <3> QED BY <3>1, <3>2, Zenon
    <2>7. \A i, j \in Written' : pipe'[i].num = pipe'[j].num => i = j
      <3>1. \A i \in Written : pipe'[i].num \in WrittenNumbers /\ pipe'[i].num # num[g]
        BY <1>d, <2>1, <2>2, Zenon DEF WrittenNumbers
      <3> QED BY <1>b, <2>2, <3>1, SMT
    <2>8. \A h \in Goroutines : InHand(h)' => num'[h] \notin WrittenNumbers' \cup lost'
      BY <1>c, <1>d, <2>1, <2>3, Zenon
    <2>9. WrittenNumbers' \cap lost' = {}
      BY <1>d, <1>e, <2>1, <2>3, Zenon
    <2>10. \A h, k \in Goroutines : InHand(h)' /\ InHand(k)' /\ num'[h] = num'[k] => h = k
      BY <1>c, <2>1, Zenon
    <2> QED
      BY <2>5, <2>6, <2>7, <2>8, <2>9, <2>10, Zenon DEF CountInv, NumbersAccounted
  <1>5. CASE Close \/ UNCHANGED vars
    BY <1>1, <1>5, UncountedStep, Zenon
  <1> QED BY <1>1, <1>2, <1>3, <1>4, <1>5, UncountedStep, Zenon DEF Next, OutputArtifact

\* Every sequence number is that of exactly one artifact, written, lost or in hand
\* (lanemargintest.go:104, 289).
THEOREM NumbersKept == Spec => []NumbersAccounted
  <1>1. CountInv => NumbersAccounted
    BY Zenon DEF CountInv
  <1> QED
    BY <1>1, TypeInvInit, TypeInvStep, CountInvInit, CountInvStep, PTL DEF Spec
-----------------------------------------------------------------------------
\* The orders of the artifacts.

LEMMA OrderInvInit == Init => OrderInv
  <1> SUFFICES ASSUME Init PROVE OrderInv
    OBVIOUS
  <1>1. Written = {}
    BY SMT DEF Init, Written
  <1> QED BY <1>1, Zenon DEF OrderInv

LEMMA OrderInvStep == TypeInv /\ OrderInv /\ [Next]_vars => OrderInv'
  <1> SUFFICES ASSUME TypeInv, OrderInv, [Next]_vars PROVE OrderInv'
    OBVIOUS
  <1>0. /\ pc \in [Goroutines -> {"out", "marshal", "lock", "data", "newline", "unlock"}]
        /\ seqNum \in Nat /\ num \in [Goroutines -> 0 .. seqNum] /\ nth \in [Goroutines -> Nat \ {0}]
    BY Zenon DEF TypeInv, TypeOK
  <1>1. \A i \in Written :
          /\ pipe[i].by \in Goroutines /\ pipe[i].nth \in Nat \ {0} /\ pipe[i].num \in Nat \ {0}
          /\ i \in Nat
    BY PipeFacts, SMT DEF Written
  <1>2. ASSUME NEW g \in Goroutines, Number(g) PROVE OrderInv'
    <2>1. SamePieces /\ nth' = nth
      BY <1>2, SamePipe, Zenon DEF Number
    <2>2. /\ num' = [num EXCEPT ![g] = seqNum + 1]
          /\ pc' = [pc EXCEPT ![g] = "marshal"] /\ pc[g] = "out"
      BY <1>2, Zenon DEF Number, Counted, Goto
    <2> QED BY <1>0, <1>1, <2>1, <2>2, SMT DEF OrderInv, SamePieces, InHand
  <1>3. ASSUME NEW g \in Goroutines, Marshal(g) \/ Lock(g) PROVE OrderInv'
    <2>1. SamePieces /\ UNCHANGED <<nth, num>>
      BY <1>3, SamePipe, Zenon DEF Marshal, Lock
    <2>2. \A h \in Goroutines : /\ InHand(h)' <=> InHand(h)
                                /\ pc'[h] \notin {"newline", "unlock"}
                                      <=> pc[h] \notin {"newline", "unlock"}
      BY <1>0, <1>3, SMT DEF Marshal, Lock, Goto, InHand
    <2> QED BY <1>1, <2>1, <2>2, SMT DEF OrderInv, SamePieces
  <1>4. ASSUME NEW g \in Goroutines, MarshalFails(g) \/ Unlock(g) PROVE OrderInv'
    <2>1. SamePieces /\ num' = num
      BY <1>4, SamePipe, Zenon DEF MarshalFails, Unlock
    <2>2. nth' = [nth EXCEPT ![g] = @ + 1] /\ pc' = [pc EXCEPT ![g] = "out"]
      BY <1>4, Zenon DEF MarshalFails, Unlock, Goto
    <2> QED BY <1>0, <1>1, <2>1, <2>2, SMT DEF OrderInv, SamePieces, InHand
  <1>5. ASSUME NEW g \in Goroutines, WriteData(g) PROVE OrderInv'
    <2>1. UNCHANGED <<nth, num>> /\ pc' = [pc EXCEPT ![g] = "newline"] /\ pc[g] = "data"
      BY <1>5, Zenon DEF WriteData, Goto
    <2> DEFINE n == Len(pipe) + 1
    <2>2. /\ Written' = Written \cup {n} /\ \A i \in Written : pipe'[i] = pipe[i] /\ i < n
          /\ pipe'[n].by = g /\ pipe'[n].nth = nth[g] /\ pipe'[n].num = num[g]
      <3>1. Data(g).by = g /\ Data(g).nth = nth[g] /\ Data(g).num = num[g]
        BY SMT DEF Data
      <3>2. \A i \in Written : i < n
        BY <1>5, DataWritten, PipeFacts, SMT
      <3> QED BY <1>5, <3>1, <3>2, DataWritten, Zenon
    <2>3. n \in Nat
      BY PipeFacts, SMT
    <2> HIDE DEF n
    <2>4. \A i \in Written : LET h == pipe[i].by
                           IN  /\ pipe[i].num <= num[h] /\ pipe[i].nth <= nth[h]
                               /\ pc'[h] \in {"marshal", "lock", "data"} => pipe[i].num < num[h]
                               /\ pc'[h] \notin {"newline", "unlock"} => pipe[i].nth < nth[h]
      BY <1>0, <1>1, <2>1, SMT DEF OrderInv, InHand
    <2>5. \A i \in Written' : LET h == pipe'[i].by
                            IN  /\ pipe'[i].num <= num'[h] /\ pipe'[i].nth <= nth'[h]
                                /\ pc'[h] \in {"marshal", "lock", "data"} => pipe'[i].num < num'[h]
                                /\ pc'[h] \notin {"newline", "unlock"} => pipe'[i].nth < nth'[h]
      BY <1>0, <2>1, <2>2, <2>4, SMT
    <2>6. \A i \in Written : pipe[i].by = g => pipe[i].nth < nth[g] /\ pipe[i].num < num[g]
      BY <2>1, SMT DEF OrderInv, InHand
    <2>7. \A i, j \in Written' : pipe'[i].by = pipe'[j].by /\ i < j =>
                                  pipe'[i].nth < pipe'[j].nth /\ pipe'[i].num < pipe'[j].num
      BY <1>1, <2>2, <2>3, <2>6, SMT DEF OrderInv
    <2> QED BY <2>5, <2>7, Zenon DEF OrderInv, InHand
  <1>6. ASSUME NEW g \in Goroutines, WriteNewline(g) PROVE OrderInv'
    <2>1. SamePieces /\ UNCHANGED <<nth, num>>
      BY <1>6, NewlineWritten, Zenon DEF WriteNewline
    <2>2. \A h \in Goroutines : /\ InHand(h)' <=> InHand(h)
                                /\ pc'[h] \notin {"newline", "unlock"}
                                      <=> pc[h] \notin {"newline", "unlock"}
      BY <1>0, <1>6, SMT DEF WriteNewline, Goto, InHand
    <2> QED BY <1>1, <2>1, <2>2, SMT DEF OrderInv, SamePieces
  <1>7. CASE Close \/ UNCHANGED vars
    <2>1. SamePieces /\ UNCHANGED <<nth, num, pc>>
      BY <1>7, SamePipe, Zenon DEF Close, vars
    <2> QED BY <2>1, SMT DEF OrderInv, SamePieces, InHand
  <1> QED BY <1>2, <1>3, <1>4, <1>5, <1>6, <1>7, Zenon DEF Next, OutputArtifact

LEMMA MainFacts ==
  Main \in Goroutines /\ Main \notin Workers /\ Total(Main) = Before + 1 /\ Before = 2
  /\ \A g \in Goroutines : g = Main \/ g \in Workers
  BY ConstantsAssumption, Zenon DEF Total, Before, Goroutines

LEMMA JoinInvInit == Init => JoinInv
  <1> SUFFICES ASSUME Init PROVE JoinInv
    OBVIOUS
  <1>1. Written = {}
    BY SMT DEF Init, Written
  <1>2. nth[Main] = 1 /\ \A g \in Goroutines : pc[g] = "out"
    BY MainFacts, SMT DEF Init
  <1>3. ~closed
    BY Zenon DEF Init
  <1>4. ~MainEnds
    BY <1>2, MainFacts, SMT DEF MainEnds
  <1>5. \A w \in Workers : pc[w] = "out"
    BY <1>2, Zenon DEF Goroutines
  <1> QED BY <1>1, <1>3, <1>4, <1>5, Zenon DEF JoinInv

LEMMA JoinInvStep == TypeInv /\ JoinInv /\ [Next]_vars => JoinInv'
  <1> SUFFICES ASSUME TypeInv, JoinInv, [Next]_vars PROVE JoinInv'
    OBVIOUS
  <1>0. /\ pc \in [Goroutines -> {"out", "marshal", "lock", "data", "newline", "unlock"}]
        /\ nth \in [Goroutines -> Nat \ {0}] /\ seqNum \in Nat /\ num \in [Goroutines -> 0 .. seqNum]
        /\ \A g \in Goroutines : Total(g) \in Nat
    BY TotalType, Zenon DEF TypeInv, TypeOK
  <1>a. Workers \subseteq Goroutines
    BY Zenon DEF Goroutines
  <1>1. ASSUME NEW g \in Goroutines, Number(g) PROVE JoinInv'
    <2>1. /\ SamePieces /\ UNCHANGED <<nth, closed>> /\ nth[g] <= Total(g) /\ Ready(g)
          /\ pc' = [pc EXCEPT ![g] = "marshal"] /\ pc[g] = "out"
          /\ num' = [num EXCEPT ![g] = seqNum + 1] /\ seqNum' = seqNum + 1
      BY <1>0, <1>1, SamePipe, SMT DEF Number, Counted, Goto, Finished
    <2>2. CASE g = Main
      <3>1. MainEnds' => num'[Main] = seqNum' /\ \A w \in Workers : Finished(w)'
        BY <1>0, <2>1, <2>2, MainFacts, SMT DEF MainEnds, Ready, Finished
      <3>2. \A w \in Workers : pc'[w] = pc[w]
        BY <1>0, <1>a, <2>1, <2>2, MainFacts, SMT
      <3>3. closed' => Finished(Main)'
        BY <2>1, Zenon DEF JoinInv, Finished
      <3> QED BY <2>1, <3>1, <3>2, <3>3, SMT DEF JoinInv, SamePieces
    <2>3. CASE g \in Workers
      <3>1. nth[Main] > Before
        BY <2>1, <2>3, MainFacts, Zenon DEF Ready
      <3>2. ~MainEnds
        BY <1>0, <2>1, <2>3, SMT DEF JoinInv, Finished
      <3>3. ~MainEnds'
        BY <1>0, <2>1, <2>3, <3>2, MainFacts, SMT DEF MainEnds, Finished
      <3>4. closed' => Finished(Main)'
        BY <2>1, Zenon DEF JoinInv, Finished
      <3>5. ~(nth'[Main] <= Before)
        BY <1>0, <2>1, <3>1, MainFacts, SMT
      <3> QED BY <3>3, <3>4, <3>5, Zenon DEF JoinInv
    <2> QED BY <2>2, <2>3, MainFacts, Zenon
  <1>2. ASSUME NEW g \in Goroutines, MarshalFails(g) \/ Unlock(g) PROVE JoinInv'
    <2>1. /\ SamePieces /\ UNCHANGED <<seqNum, num, closed>> /\ pc[g] # "out"
          /\ pc' = [pc EXCEPT ![g] = "out"] /\ nth' = [nth EXCEPT ![g] = @ + 1]
      BY <1>2, SamePipe, SMT DEF MarshalFails, Unlock, Goto
    <2>2. \A h \in Goroutines : nth'[h] >= nth[h] /\ (pc[h] = "out" => pc'[h] = "out")
      BY <1>0, <2>1, SMT
    <2>3. \A h \in Goroutines : Finished(h) => Finished(h)'
      BY <1>0, <2>1, SMT DEF Finished
    <2>4. MainEnds' => MainEnds
      BY <1>0, <2>1, MainFacts, SMT DEF MainEnds, Finished
    <2>5. nth'[Main] <= Before => nth[Main] <= Before
      BY <1>0, <2>1, MainFacts, SMT
    <2> QED BY <1>a, <2>1, <2>2, <2>3, <2>4, <2>5, MainFacts, SMT DEF JoinInv, SamePieces
  <1>3. ASSUME UNCHANGED <<nth, num, seqNum, closed>>,
               \A g \in Goroutines : pc'[g] = "out" <=> pc[g] = "out",
               nth[Main] <= Before => \A i \in Written' : pipe'[i].by = Main
        PROVE  JoinInv'
    <2>1. MainEnds' <=> MainEnds
      BY <1>3, MainFacts, Zenon DEF MainEnds, Finished
    <2> QED BY <1>3, <1>a, <2>1, Zenon DEF JoinInv, Finished
  <1>4. ASSUME NEW g \in Goroutines, Marshal(g) \/ Lock(g) \/ WriteNewline(g) PROVE JoinInv'
    <2>1. SamePieces /\ UNCHANGED <<nth, num, seqNum, closed>>
      BY <1>4, SamePipe, NewlineWritten, Zenon DEF Marshal, Lock, WriteNewline
    <2>2. \A h \in Goroutines : pc'[h] = "out" <=> pc[h] = "out"
      BY <1>0, <1>4, SMT DEF Marshal, Lock, WriteNewline, Goto
    <2>3. nth[Main] <= Before => \A i \in Written' : pipe'[i].by = Main
      BY <2>1, SMT DEF SamePieces, JoinInv
    <2> QED BY <1>3, <2>1, <2>2, <2>3, Zenon
  <1>5. ASSUME NEW g \in Goroutines, WriteData(g) PROVE JoinInv'
    <2>1. UNCHANGED <<nth, num, seqNum, closed>> /\ pc[g] = "data"
      BY <1>5, Zenon DEF WriteData
    <2>2. \A h \in Goroutines : pc'[h] = "out" <=> pc[h] = "out"
      BY <1>0, <1>5, SMT DEF WriteData, Goto
    <2>3. nth[Main] <= Before => \A i \in Written' : pipe'[i].by = Main
      <3> SUFFICES ASSUME nth[Main] <= Before, NEW i \in Written' PROVE pipe'[i].by = Main
        OBVIOUS
      <3>1. g = Main
        BY <2>1, MainFacts, SMT DEF JoinInv
      <3>2. Data(g).by = g
        BY SMT DEF Data
      <3>3. CASE i \in Written
        BY <1>5, <3>3, DataWritten, Zenon DEF JoinInv
      <3>4. CASE i = Len(pipe) + 1
        BY <1>5, <3>1, <3>2, <3>4, DataWritten, Zenon
      <3> QED BY <1>5, <3>3, <3>4, DataWritten, Zenon
    <2> QED BY <1>3, <2>1, <2>2, <2>3, Zenon
  <1>6. CASE Close
    <2>1. SamePieces /\ UNCHANGED <<nth, num, seqNum, pc>> /\ Finished(Main)
      BY <1>6, SamePipe, Zenon DEF Close
    <2> QED BY <2>1, SMT DEF JoinInv, SamePieces, MainEnds, Finished
  <1>7. CASE UNCHANGED vars
    <2>1. SamePieces /\ UNCHANGED <<nth, num, seqNum, pc, closed>>
      BY <1>7, SamePipe, Zenon DEF vars
    <2> QED BY <2>1, SMT DEF JoinInv, SamePieces, MainEnds, Finished
  <1> QED BY <1>1, <1>2, <1>4, <1>5, <1>6, <1>7, Zenon DEF Next, OutputArtifact
LEMMA FirstLastStep ==
  TypeInv /\ CountInv /\ OrderInv /\ JoinInv /\ MainFirstAndLast /\ [Next]_vars => MainFirstAndLast'
  <1> SUFFICES ASSUME TypeInv, CountInv, OrderInv, JoinInv, MainFirstAndLast, [Next]_vars
               PROVE  MainFirstAndLast'
    OBVIOUS
  <1>1. ASSUME SamePieces PROVE MainFirstAndLast'
    BY <1>1, SMT DEF SamePieces, MainFirstAndLast
  <1>2. ASSUME NEW g \in Goroutines, WriteData(g) PROVE MainFirstAndLast'
    <2>0. /\ nth \in [Goroutines -> Nat \ {0}] /\ seqNum \in Nat /\ num \in [Goroutines -> 0 .. seqNum]
          /\ nth[g] <= Total(g) /\ InHand(g) /\ pc[g] = "data"
      BY <1>2, Zenon DEF TypeInv, TypeOK, HandInv, WriteData, InHand
    <2> DEFINE n == Len(pipe) + 1
    <2>1. /\ Written' = Written \cup {n} /\ n \notin Written
          /\ \A i \in Written : pipe'[i] = pipe[i] /\ i < n
          /\ pipe'[n].by = g /\ pipe'[n].nth = nth[g] /\ pipe'[n].num = num[g]
      <3>1. Data(g).by = g /\ Data(g).nth = nth[g] /\ Data(g).num = num[g]
        BY SMT DEF Data
      <3>2. \A i \in Written : i < n
        BY <1>2, DataWritten, PipeFacts, SMT
      <3> QED BY <1>2, <3>1, <3>2, DataWritten, Zenon
    <2>2. n \in Nat
      BY PipeFacts, SMT
    <2> HIDE DEF n
    <2>3. \A i \in Written : /\ pipe[i].nth \in Nat /\ pipe[i].num \in 1 .. seqNum /\ pipe[i].num # num[g]
                            /\ pipe[i].by \in Goroutines
      <3>1. \A i \in Written : pipe[i].num \in WrittenNumbers
        BY Zenon DEF WrittenNumbers
      <3>2. \A x \in WrittenNumbers : x \in 1 .. seqNum /\ x # num[g]
        <4>1. WrittenNumbers \subseteq 1 .. seqNum
          BY Zenon DEF CountInv, GivenOut
        <4>2. num[g] \notin WrittenNumbers
          BY <2>0, Zenon DEF CountInv, NumbersAccounted
        <4> QED BY <4>1, <4>2, Zenon
      <3>3. \A i \in Written : pipe[i].nth \in Nat /\ pipe[i].by \in Goroutines
        BY PipeFacts, SMT
      <3> QED BY <3>1, <3>2, <3>3, Zenon
    \* What main wrote last is not before anything.
    <2>4. \A i \in Written : ~(pipe[i].by = Main /\ pipe[i].nth > Before)
      <3> SUFFICES ASSUME NEW i \in Written, pipe[i].by = Main, pipe[i].nth > Before PROVE FALSE
        OBVIOUS
      <3>1. /\ pipe[i].nth <= nth[Main]
            /\ pc[Main] \notin {"newline", "unlock"} => pipe[i].nth < nth[Main]
        BY Zenon DEF OrderInv
      <3>2. nth[Main] > Before /\ nth[Main] \in Nat
        BY <2>0, <2>3, <3>1, MainFacts, SMT
      <3>3. MainEnds
        BY <2>0, <2>3, <3>1, <3>2, MainFacts, SMT DEF MainEnds, Finished
      <3>4. CASE g = Main
        BY <2>0, <2>3, <3>1, <3>2, <3>4, MainFacts, SMT
      <3>5. CASE g \in Workers
        <4>1. Finished(g)
          BY <3>3, <3>5, Zenon DEF JoinInv
        <4>2. Total(g) \in Nat /\ nth[g] \in Nat
          BY <2>0, TotalType, Zenon
        <4> QED BY <2>0, <4>1, <4>2, SMT DEF Finished
      <3> QED BY <3>4, <3>5, MainFacts, Zenon
    <2>5. ASSUME NEW i \in Written', NEW j \in Written', pipe'[i].by = Main
          PROVE  /\ pipe'[i].nth <= Before /\ pipe'[j].by # Main => i < j
                 /\ pipe'[i].nth > Before /\ j # i => j < i /\ pipe'[j].num < pipe'[i].num
      <3>1. CASE i \in Written /\ j \in Written
        BY <2>1, <2>5, <3>1, SMT DEF MainFirstAndLast
      <3>2. CASE i \in Written /\ j = n
        <4>1. ~(pipe'[i].nth > Before) /\ i < j
          BY <2>1, <2>4, <2>5, <3>2, Zenon
        <4> QED BY <4>1, Zenon
      <3>3. CASE i = n /\ j \in Written
        <4>1. g = Main
          BY <2>1, <2>5, <3>3, Zenon
        <4>2. nth[Main] <= Before => pipe[j].by = Main
          BY <3>3, Zenon DEF JoinInv
        <4>3. nth[Main] > Before => num[Main] = seqNum
          BY <2>0, <4>1, Zenon DEF JoinInv, MainEnds, InHand
        <4>4. nth[Main] > Before => pipe[j].num < num[Main]
          BY <2>0, <2>3, <3>3, <4>1, <4>3, SMT
        <4> QED BY <2>1, <3>3, <4>1, <4>2, <4>4, Zenon
      <3>4. CASE i = n /\ j = n
        BY <2>1, <2>5, <3>4, Zenon
      <3> QED BY <2>1, <3>1, <3>2, <3>3, <3>4, Zenon
    <2> QED BY <2>5, Zenon DEF MainFirstAndLast
  <1>3. ASSUME NEW g \in Goroutines,
               \/ Number(g) \/ Marshal(g) \/ MarshalFails(g) \/ Lock(g) \/ WriteNewline(g) \/ Unlock(g)
        PROVE  SamePieces
    BY <1>3, SamePipe, NewlineWritten, Zenon
       DEF Number, Marshal, MarshalFails, Lock, Unlock
  <1>4. CASE Close \/ UNCHANGED vars
    BY <1>1, <1>4, SamePipe, Zenon DEF Close, vars
  <1> QED BY <1>1, <1>2, <1>3, <1>4, Zenon DEF Next, OutputArtifact

\* The run's start comes before the workers' artifacts, and the run's end, with the highest
\* number of all, after everything else (lanemargintest.go:242, 256, 280).
THEOREM MainComesFirstAndLast == Spec => []MainFirstAndLast
  <1>1. Init => MainFirstAndLast
    <2>1. Init => Written = {}
      BY SMT DEF Init, Written
    <2> QED BY <2>1, Zenon DEF MainFirstAndLast
  <1> QED
    BY <1>1, TypeInvInit, TypeInvStep, CountInvInit, CountInvStep, OrderInvInit, OrderInvStep,
       JoinInvInit, JoinInvStep, FirstLastStep, PTL DEF Spec

-----------------------------------------------------------------------------
\* The pipe's lines are the abstract log.

LineAt(i) == [by |-> pipe[i].by, nth |-> pipe[i].nth, num |-> pipe[i].num]

LEMMA LinesIs ==
  ASSUME TypeInv, LineInv
  PROVE  /\ Len(Lines) = Len(pipe) \div 2 /\ DOMAIN Lines = 1 .. Len(pipe) \div 2
         /\ Lines \in Seq(Log!Artifact)
         /\ \A k \in 1 .. Len(pipe) \div 2 : Lines[k] = LineAt(2 * k - 1) /\ 2 * k - 1 \in Written
  <1> DEFINE m == Len(pipe) \div 2
  <1>1. Len(pipe) \in Nat /\ m \in Nat /\ DOMAIN pipe = 1 .. Len(pipe)
    BY PipeFacts, SMT
  <1>2. \A k \in 1 .. m : 2 * k - 1 \in 1 .. Len(pipe) /\ (2 * k - 1) % 2 = 1
    BY <1>1, SMT
  <1>3. \A k \in 1 .. m : 2 * k - 1 \in Written
    BY <1>1, <1>2, Zenon DEF LineInv
  <1>4. \A k \in 1 .. m : LineAt(2 * k - 1) \in Log!Artifact
    BY <1>3, PipeFacts, SMT DEF LineAt, Log!Artifact
  <1>5. Lines = [k \in 1 .. m |-> LineAt(2 * k - 1)]
    BY Zenon DEF Lines, LineAt
  <1> HIDE DEF m
  <1>6. Lines \in Seq(Log!Artifact) /\ Len(Lines) = m
    BY <1>1, <1>4, <1>5, SMT
  <1> QED BY <1>3, <1>5, <1>6, Zenon DEF m
LEMMA Halves ==
  \A n \in Nat : n % 2 = 1 =>
    n \div 2 \in Nat /\ n = 2 * (n \div 2) + 1 /\ (n + 1) \div 2 = n \div 2 + 1
  BY SMT

LEMMA AppendIs ==
  ASSUME NEW S, NEW s \in Seq(S), NEW e \in S
  PROVE  [k \in 1 .. Len(s) + 1 |-> IF k = Len(s) + 1 THEN e ELSE s[k]] = Append(s, e)
  <1> DEFINE t == [k \in 1 .. Len(s) + 1 |-> IF k = Len(s) + 1 THEN e ELSE s[k]]
  <1>1. Len(s) \in Nat
    BY SMT
  <1>2. Append(s, e) \in Seq(S) /\ Len(Append(s, e)) = Len(s) + 1
        /\ \A k \in 1 .. Len(s) + 1 : Append(s, e)[k] = IF k = Len(s) + 1 THEN e ELSE s[k]
    BY SMT
  <1>3. t \in Seq(S) /\ Len(t) = Len(s) + 1
    BY <1>1, SMT
  <1>4. \A k \in 1 .. Len(t) : t[k] = Append(s, e)[k]
    BY <1>1, <1>2, <1>3, SMT
  <1> HIDE DEF t
  <1>5. t = Append(s, e)
    BY <1>2, <1>3, <1>4, SeqEqual, Zenon
  <1> QED BY <1>5, Zenon DEF t

\* A line is added by the newline; every other step but Close leaves the lines as they are.
LEMMA LinesStep ==
  TypeInv /\ TypeInv' /\ LockInv /\ LineInv /\ LineInv' /\ CountInv /\ OrderInv /\ JoinInv /\ [Next]_vars
    => [Log!Next]_<<Lines, closed>>
  <1> SUFFICES ASSUME TypeInv, TypeInv', LockInv, LineInv, LineInv', CountInv, OrderInv, JoinInv,
                      [Next]_vars
               PROVE  [Log!Next]_<<Lines, closed>>
    OBVIOUS
  <1>0. Len(pipe) \in Nat /\ DOMAIN pipe = 1 .. Len(pipe)
    BY PipeFacts, Zenon
  <1>1. pipe' = pipe => Lines' = Lines
    BY Zenon DEF Lines
  <1>2. ASSUME NEW g \in Goroutines, WriteData(g) PROVE UNCHANGED <<Lines, closed>>
    <2>1. closed' = closed
      BY <1>2, Zenon DEF WriteData
    <2>2. \A h \in Goroutines : pc[h] # "newline"
      BY <1>2, SMT DEF LockInv, WriteData
    <2>3. Len(pipe) % 2 # 1 /\ Len(pipe') = Len(pipe) + 1
      BY <1>2, <2>2, DataWritten, Zenon DEF LineInv
    <2>4. Len(pipe') \div 2 = Len(pipe) \div 2
      BY <1>0, <2>3, SMT
    <2>5. \A k \in 1 .. Len(pipe) \div 2 : pipe'[2 * k - 1] = pipe[2 * k - 1]
      BY <1>2, DataWritten, LinesIs, Zenon
    <2>6. Lines' = Lines
      BY <2>4, <2>5, SMT DEF Lines
    <2> QED BY <2>1, <2>6, Zenon
  <1>3. ASSUME NEW g \in Goroutines, WriteNewline(g) PROVE Log!Put
    <2> DEFINE m == Len(pipe) \div 2
               new == LineAt(Len(pipe))
    <2>1. Len(pipe') = Len(pipe) + 1 /\ SamePieces
      BY <1>3, NewlineWritten, Zenon
    <2>2. Len(pipe) % 2 = 1
      BY <1>3, Zenon DEF LineInv, WriteNewline
    <2>3. m \in Nat /\ Len(pipe) = 2 * m + 1 /\ Len(pipe') \div 2 = m + 1
      BY <1>0, <2>1, <2>2, Halves, Zenon
    <2>4. Len(pipe) \in Written
      BY <1>0, <2>2, <2>3, SMT DEF LineInv
    <2>5. new \in Log!Artifact
      BY <2>4, PipeFacts, SMT DEF LineAt, Log!Artifact
    <2>6. Lines \in Seq(Log!Artifact) /\ Len(Lines) = m /\ DOMAIN Lines = 1 .. m
          /\ \A k \in 1 .. m : Lines[k] = LineAt(2 * k - 1) /\ 2 * k - 1 \in Written
      BY LinesIs, Zenon
    <2>7. Lines' = [k \in 1 .. m + 1 |-> IF k = m + 1 THEN new ELSE Lines[k]]
      <3>1. \A k \in 1 .. m + 1 : 2 * k - 1 \in Written /\ pipe'[2 * k - 1] = pipe[2 * k - 1]
        <4>1. \A k \in 1 .. m + 1 : k \in 1 .. m \/ 2 * k - 1 = Len(pipe)
          BY <2>3, SMT
        <4> QED BY <2>1, <2>4, <2>6, <4>1, Zenon DEF SamePieces
      <3>2. Lines' = [k \in 1 .. m + 1 |-> LineAt(2 * k - 1)]
        BY <2>3, <3>1, SMT DEF Lines, LineAt
      <3>3. \A k \in 1 .. m + 1 : LineAt(2 * k - 1) = IF k = m + 1 THEN new ELSE Lines[k]
        BY <2>3, <2>6, SMT
      <3> HIDE DEF m, new
      <3> QED BY <3>2, <3>3, SMT
    <2>8. Lines' = Append(Lines, new) /\ Len(Lines') = m + 1 /\ Lines'[m + 1] = new
      <3> HIDE DEF m, new
      <3>1. Lines' = [k \in 1 .. Len(Lines) + 1 |-> IF k = Len(Lines) + 1 THEN new ELSE Lines[k]]
        BY <2>6, <2>7, Zenon
      <3>2. Lines' = Append(Lines, new)
        BY <2>5, <2>6, <3>1, AppendIs, Zenon
      <3>3. Len(Append(Lines, new)) = m + 1 /\ Append(Lines, new)[m + 1] = new
        BY <2>5, <2>6, AppendProperties, Zenon
      <3> QED BY <3>2, <3>3, Zenon
    <2>9. \A k \in 1 .. m : Log!Follows(new, Lines[k])
      <3> SUFFICES ASSUME NEW k \in 1 .. m PROVE Log!Follows(new, Lines[k])
        OBVIOUS
      <3>1. 2 * k - 1 \in Written /\ 2 * k - 1 < Len(pipe) /\ Lines[k] = LineAt(2 * k - 1)
        BY <2>3, <2>6, SMT
      <3> DEFINE i == 2 * k - 1
                 j == Len(pipe)
      <3>2. pipe[i].num # pipe[j].num
        BY <1>0, <2>4, <3>1, SMT DEF CountInv, NumbersAccounted
      <3>3. pipe[i].by = pipe[j].by => pipe[i].nth < pipe[j].nth /\ pipe[i].num < pipe[j].num
        BY <2>4, <3>1, Zenon DEF OrderInv
      <3>4. /\ pipe[i].nth \in Nat /\ pipe[i].num \in Nat
            /\ pipe[j].nth \in Nat /\ pipe[j].num \in Nat
        BY <2>4, <3>1, PipeFacts, SMT
      <3> HIDE DEF i, j
      <3>5. Log!Follows(LineAt(j), LineAt(i))
        BY <3>2, <3>3, <3>4, SMT DEF Log!Follows, LineAt
      <3> QED BY <3>1, <3>5, Zenon DEF i, j
    <2>10. ~closed
      <3>1. pc[g] # "out" /\ nth[g] <= Total(g) /\ nth[g] \in Nat /\ Total(g) \in Nat
        BY <1>3, TotalType, SMT DEF WriteNewline, TypeInv, TypeOK, HandInv
      <3>2. ~Finished(g)
        BY <3>1, SMT DEF Finished
      <3>3. Finished(Main) => MainEnds
        <4>1. nth[Main] \in Nat
          BY MainFacts, SMT DEF TypeInv, TypeOK
        <4> QED BY <4>1, MainFacts, SMT DEF MainEnds, Finished
      <3>4. Finished(Main) => \A h \in Goroutines : Finished(h)
        BY <3>3, MainFacts, Zenon DEF JoinInv
      <3> QED BY <3>2, <3>4, Zenon DEF JoinInv
    <2>11. closed' = closed
      BY <1>3, Zenon DEF WriteNewline
    <2>12. Len(Lines') > Len(Lines) /\ Lines'[Len(Lines) + 1] = new
      BY <2>3, <2>6, <2>8, SMT
    <2> HIDE DEF m, new
    <2> QED BY <2>5, <2>6, <2>8, <2>9, <2>10, <2>11, <2>12, Zenon DEF Log!Put
  <1>4. ASSUME NEW g \in Goroutines,
               Number(g) \/ Marshal(g) \/ MarshalFails(g) \/ Lock(g) \/ Unlock(g)
        PROVE  UNCHANGED <<Lines, closed>>
    BY <1>1, <1>4, Zenon DEF Number, Marshal, MarshalFails, Lock, Unlock
  <1>5. CASE Close
    <2>1. Lines' = Lines /\ ~closed /\ closed' = TRUE
      BY <1>1, <1>5, Zenon DEF Close
    <2>2. Log!Close
      BY <2>1, Zenon DEF Log!Close
    <2> QED BY <2>2, Zenon DEF Log!Next
  <1>6. CASE UNCHANGED vars
    BY <1>1, <1>6, Zenon DEF vars
  <1> QED
    BY <1>2, <1>3, <1>4, <1>5, <1>6, Zenon DEF Next, OutputArtifact, Log!Next

\* The stream implements the log it promises: each writer's artifacts in its order, with growing
\* numbers, none after the close (lanemargintest.go:104, 281-309).
THEOREM StreamIsLog == Spec => LogSpec
  <1>1. Init => Log!Init
    <2> SUFFICES ASSUME Init PROVE Log!Init
      OBVIOUS
    <2>1. Len(pipe) = 0 /\ closed = FALSE
      BY SMT DEF Init
    <2>2. TypeInv /\ LineInv
      BY TypeInvInit, LineInvInit, Zenon
    <2>3. Len(Lines) = 0 /\ Lines \in Seq(Log!Artifact)
      BY <2>1, <2>2, LinesIs, SMT
    <2>4. Lines = <<>>
      BY <2>3, SMT
    <2> QED BY <2>1, <2>4, Zenon DEF Log!Init
  <1> QED
    BY <1>1, LinesStep, TypeInvInit, TypeInvStep, LockInvInit, LockInvStep, LineInvInit, LineInvStep,
       CountInvInit, CountInvStep, OrderInvInit, OrderInvStep, JoinInvInit, JoinInvStep,
       PTL DEF Spec, LogSpec, Log!Spec
=============================================================================
