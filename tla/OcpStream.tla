------------------------------ MODULE OcpStream ------------------------------
(***************************************************************************)
(* outputArtifact of lanemargintest.go (ltt/linktrain.go has its own copy):*)
(* the goroutines of a run share a pipe, its lock, and the counter of      *)
(* sequence numbers.  The main goroutine streams the schema version and    *)
(* the run's start, then lets the others stream what they have, and at     *)
(* last streams the run's end and closes the pipe.                         *)
(***************************************************************************)
EXTENDS Integers, SequencesExt, FiniteSets

CONSTANTS
  Workers,      \* goroutines of links and lanes
  Main,         \* the goroutine of MarginLinks
  Count         \* how many artifacts each worker streams

Before == 2     \* schema version and run start
Goroutines == Workers \cup {Main}
Total(g) == IF g = Main THEN Before + 1 ELSE Count[g]

ASSUME ConstantsAssumption == Main \notin Workers /\ Count \in [Workers -> Nat]

VARIABLES
  seqNum,       \* the counter
  lock,         \* the goroutines that hold ocpPipeLock
  pc,           \* where in outputArtifact a goroutine is; "out" outside of it
  nth,          \* which of its artifacts a goroutine is at
  num,          \* the sequence number of that artifact
  pipe,         \* what was written: artifacts and newlines
  lost,         \* sequence numbers of the artifacts that could not be marshalled
  closed        \* the pipe is closed

vars == <<seqNum, lock, pc, nth, num, pipe, lost, closed>>

Newline == [kind |-> "newline"]
Data(g) == [kind |-> "data", by |-> g, nth |-> nth[g], num |-> num[g]]

\* OcpInit.
Init ==
  /\ seqNum = 0 /\ lock = {}
  /\ pc = [g \in Goroutines |-> "out"]
  /\ nth = [g \in Goroutines |-> 1]
  /\ num = [g \in Goroutines |-> 0]
  /\ pipe = <<>> /\ lost = {} /\ closed = FALSE

Goto(g, place) == pc' = [pc EXCEPT ![g] = place]

Finished(g) == nth[g] > Total(g)

\* Mutant: the run's end is streamed without waiting for the others.
ReadyUnjoined(g) ==
  IF g = Main THEN TRUE ELSE nth[Main] > Before

\* The workers start after the run's start, and the run's end comes after the workers' end.
Ready(g) ==
  IF g = Main THEN nth[Main] <= Before \/ \A w \in Workers : Finished(w)
              ELSE nth[Main] > Before

\* Mutant: the counter is read and written apart, and what others add meanwhile is lost.
CountedApart(g) ==
  /\ num' = [num EXCEPT ![g] = seqNum + 1]
  /\ seqNum' \in {seqNum, seqNum + 1}

Counted(g) ==
  /\ seqNum' = seqNum + 1
  /\ num' = [num EXCEPT ![g] = seqNum + 1]

Number(g) ==
  /\ pc[g] = "out" /\ ~Finished(g) /\ Ready(g)
  /\ Counted(g)
  /\ Goto(g, "marshal")
  /\ UNCHANGED <<lock, nth, pipe, lost, closed>>

Marshal(g) ==
  /\ pc[g] = "marshal"
  /\ Goto(g, "lock")
  /\ UNCHANGED <<seqNum, lock, nth, num, pipe, lost, closed>>

\* The artifact is dropped; its number is used up.
MarshalFails(g) ==
  /\ pc[g] = "marshal"
  /\ lost' = lost \cup {num[g]}
  /\ nth' = [nth EXCEPT ![g] = @ + 1]
  /\ Goto(g, "out")
  /\ UNCHANGED <<seqNum, lock, num, pipe, closed>>

\* Mutant: the pipe is not locked.
LockFreeAlways == TRUE

LockFree == lock = {}

Lock(g) ==
  /\ pc[g] = "lock" /\ LockFree
  /\ lock' = lock \cup {g}
  /\ Goto(g, "data")
  /\ UNCHANGED <<seqNum, nth, num, pipe, lost, closed>>

WriteData(g) ==
  /\ pc[g] = "data"
  /\ pipe' = Append(pipe, Data(g))
  /\ Goto(g, "newline")
  /\ UNCHANGED <<seqNum, lock, nth, num, lost, closed>>

WriteNewline(g) ==
  /\ pc[g] = "newline"
  /\ pipe' = Append(pipe, Newline)
  /\ Goto(g, "unlock")
  /\ UNCHANGED <<seqNum, lock, nth, num, lost, closed>>

\* Mutant: the lock is not given back.
StillLocked(g) == lock

Unlocked(g) == lock \ {g}

Unlock(g) ==
  /\ pc[g] = "unlock"
  /\ lock' = Unlocked(g)
  /\ nth' = [nth EXCEPT ![g] = @ + 1]
  /\ Goto(g, "out")
  /\ UNCHANGED <<seqNum, num, pipe, lost, closed>>

\* Under the lock, the pipe is closed.
Close ==
  /\ Finished(Main) /\ ~closed /\ LockFree
  /\ closed' = TRUE
  /\ UNCHANGED <<seqNum, lock, pc, nth, num, pipe, lost>>

OutputArtifact(g) ==
  \/ Number(g) \/ Marshal(g) \/ MarshalFails(g)
  \/ Lock(g) \/ WriteData(g) \/ WriteNewline(g) \/ Unlock(g)

Next == Close \/ \E g \in Goroutines : OutputArtifact(g)

Spec == Init /\ [][Next]_vars

\* Some goroutine that can run does.
FairSpec == Spec /\ WF_vars(Next)

-----------------------------------------------------------------------------
\* Properties.

PieceType ==
  [kind : {"data"}, by : Goroutines, nth : Nat \ {0}, num : Nat \ {0}] \cup {Newline}

TypeOK ==
  /\ seqNum \in Nat /\ lock \subseteq Goroutines
  /\ pc \in [Goroutines -> {"out", "marshal", "lock", "data", "newline", "unlock"}]
  /\ nth \in [Goroutines -> Nat \ {0}] /\ \A g \in Goroutines : nth[g] <= Total(g) + 1
  /\ num \in [Goroutines -> 0 .. seqNum]
  /\ pipe \in Seq(PieceType)
  /\ lost \subseteq 1 .. seqNum
  /\ closed \in BOOLEAN

Written == {i \in DOMAIN pipe : pipe[i].kind = "data"}
WrittenNumbers == {pipe[i].num : i \in Written}

\* The artifact in hand has a number and has not been written.
InHand(g) == pc[g] \in {"marshal", "lock", "data"}

\* Nothing gets between an artifact and its newline (lanemargintest.go:303-306).
LinesWhole ==
  \A i \in DOMAIN pipe : IF i \in Written THEN i < Len(pipe) => i + 1 \notin Written
                                         ELSE i > 1 /\ i - 1 \in Written

\* Every sequence number given out is that of exactly one artifact: one that is written, one
\* that was lost, or one in the hands of a goroutine.  So a number that is missing in the end
\* is a lost artifact, and until then no more are missing than lost or in hand
\* (lanemargintest.go:104).
NumbersAccounted ==
  /\ \A n \in 1 .. seqNum :
       n \in WrittenNumbers \/ n \in lost \/ \E g \in Goroutines : InHand(g) /\ num[g] = n
  /\ \A i, j \in Written : pipe[i].num = pipe[j].num => i = j
  /\ \A g, h \in Goroutines : InHand(g) /\ InHand(h) /\ num[g] = num[h] => g = h
  /\ \A g \in Goroutines : InHand(g) => num[g] \notin WrittenNumbers \cup lost
  /\ WrittenNumbers \cap lost = {}

\* The stream starts with what main streams first, if it is not lost, and ends with what it
\* streams last, with the highest number of all (lanemargintest.go:242, 256, 280).
MainFirstAndLast ==
  \A i, j \in Written :
    /\ pipe[i].by = Main /\ pipe[i].nth <= Before /\ pipe[j].by # Main => i < j
    /\ pipe[i].by = Main /\ pipe[i].nth > Before /\ j # i => j < i /\ pipe[j].num < pipe[i].num

\* The lines written so far: an artifact and a newline each.
Lines ==
  [k \in 1 .. Len(pipe) \div 2 |->
     LET x == pipe[2 * k - 1] IN [by |-> x.by, nth |-> x.nth, num |-> x.num]]

Log == INSTANCE ArtifactLog WITH Writers <- Goroutines, log <- Lines

\* The lines in the pipe are such a log (lanemargintest.go:104, 289-308).
LogSpec == Log!Spec

\* All artifacts are streamed, and the pipe is closed.
StreamEnds == <>(closed /\ \A g \in Goroutines : Finished(g) /\ pc[g] = "out")
=============================================================================
