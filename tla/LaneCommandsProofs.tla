------------------------- MODULE LaneCommandsProofs -------------------------
(***************************************************************************)
(* Proofs about the commands of one lane (LaneCommands.tla), for every     *)
(* number of reports, points and lost commands: the types always; and,     *)
(* when a response that misses its deadline never comes, that every call   *)
(* returns the response to its own command or an error.                    *)
(***************************************************************************)
EXTENDS LaneCommands, SequenceTheorems, TLAPS

-----------------------------------------------------------------------------
\* The inductive invariant, by parts.

\* Where a call can be: only the sample count is asked for directly.
PhaseInv ==
  /\ phase = "direct" => pc = "count"
  /\ pc = "count" => phase \in {"direct", "answer"}
  /\ pc \notin Calls => phase = "noCmd"

\* Between the calls nothing is on its way, in a call its own commands only, and the status
\* register holds nothing that its own response could be taken for.
ExchangeInv ==
  /\ phase \in {"noCmd", "direct"} => wire = <<>>
  /\ phase = "reflect" => wire \in {<<>>, <<NoCmd>>}
  /\ phase = "cmd" => wire \in {<<>>, <<NoCmd>>} /\ sts = NoCmd
  /\ phase = "answer" /\ pc # "count" =>
       \/ sts = NoCmd /\ wire \in {<<>>, <<NoCmd>>, <<Command>>, <<NoCmd, Command>>}
       \/ wire = <<>> /\ sts.id = serial
  /\ phase = "answer" /\ pc = "count" =>
       \/ sts.typ = "Step" /\ wire \in {<<>>, <<Command>>}
       \/ wire = <<>> /\ sts.id = serial

\* What the status register keeps: the No Command has no serial number; the point's step margin
\* is there until the sample count is asked for.
RegisterInv ==
  /\ sts.typ = "NoCmd" => sts = NoCmd
  /\ pc = "poll" \/ phase = "direct" => sts.typ = "Step"
  /\ pc = "poll" => sts.id = serial /\ rsp.typ = "Step" /\ rsp.id = serial

\* Where the receiver is known to be at its normal settings.
NormalInv ==
  /\ sts.payload = "GoToNormalSettings" => rx = "normal"
  /\ pc \in {"rdReport", "limit"} => rx = "normal"
  /\ NormalWhenTidy

-----------------------------------------------------------------------------
\* Lemmas about the messages.

LEMMA Tuples ==
  \A a, b : /\ Head(<<a>>) = a /\ Tail(<<a>>) = <<>> /\ <<a>> # <<>>
            /\ Head(<<a, b>>) = a /\ Tail(<<a, b>>) = <<b>> /\ <<a, b>> # <<>>
            /\ Append(<<>>, a) = <<a>> /\ Append(<<a>>, b) = <<a, b>>
  <1> TAKE a, b
  <1>1. Head(<<a>>) = a /\ <<a>> # <<>> /\ Head(<<a, b>>) = a /\ <<a, b>> # <<>>
    BY SMT
  <1>2. Tail(<<a>>) = <<>> /\ Tail(<<a, b>>) = <<b>>
    BY SMT
  <1>3. Append(<<>>, a) = <<a>>
    BY SMT
  <1>4. Append(<<a>>, b) = <<a, b>>
    <2>1. <<a>> \in Seq({a, b}) /\ Len(<<a>>) = 1 /\ <<a>>[1] = a /\ b \in {a, b}
      BY SMT
    <2>2. /\ Append(<<a>>, b) \in Seq({a, b}) /\ Len(Append(<<a>>, b)) = 2
          /\ Append(<<a>>, b)[1] = a /\ Append(<<a>>, b)[2] = b
      BY <2>1, AppendProperties, SMT
    <2>3. <<a, b>> \in Seq({a, b}) /\ Len(<<a, b>>) = 2 /\ <<a, b>>[1] = a /\ <<a, b>>[2] = b
      BY SMT
    <2>4. \A i \in 1 .. 2 : Append(<<a>>, b)[i] = <<a, b>>[i]
      BY <2>2, <2>3, SMT
    <2> QED BY <2>2, <2>3, <2>4, SeqEqual, Zenon
  <1> QED BY <1>1, <1>2, <1>3, <1>4, Zenon

LEMMA Renumbered ==
  ASSUME NEW m \in MessageType, NEW n \in Nat
  PROVE  /\ [m EXCEPT !.id = n] \in MessageType
         /\ [m EXCEPT !.id = n] = Message(m.typ, m.payload, n)
  BY SMT DEF MessageType, Message

LEMMA NoCmdIs ==
  /\ NoCmd \in MessageType /\ NoCmd.typ = "NoCmd" /\ NoCmd.payload = "NoCmd" /\ NoCmd.id = 0
  BY SMT DEF NoCmd, Message, MessageType

\* Each call's command carries its own type, payload and serial number.
LEMMA CommandIs ==
  ASSUME pc \in Calls
  PROVE  /\ Command.id = serial
         /\ Command.typ \in {"Set", "Report", "Step"}
         /\ Command.typ = "Step" <=> pc = "step"
         /\ Command.typ = "Set" <=> pc \in {"rdClear", "clear", "rdNormal", "normal", "limit"}
         /\ Command.payload = "GoToNormalSettings" <=> pc \in {"rdNormal", "normal"}
         /\ Command.payload \in {"ClearErrorLog", "GoToNormalSettings", "ErrorCountLimit",
                                 "report", "offset"}
         /\ serial \in Nat => Command \in MessageType
         /\ Command = Message(Command.typ, Command.payload, serial)
  BY SMT DEF Calls, Command, Message, MessageType

\* What the receiver answers to each command.
LEMMA ReceivesIs ==
  ASSUME Receives, TypeOK
  PROVE  /\ UNCHANGED <<client, lost>> /\ wire # <<>> /\ wire' = Tail(wire)
         /\ Head(wire) \in MessageType /\ wire' \in Seq(MessageType)
         /\ sts' \in MessageType /\ sts'.typ = Head(wire).typ /\ sts'.id = Head(wire).id
         /\ Head(wire).typ = "Step" => sts'.payload \in {"SETTING_UP", "NAK"}
         /\ Head(wire).typ = "Report" => sts'.payload = "value"
         /\ Head(wire).typ \notin {"Step", "Report"} => sts' = Head(wire)
         /\ rx' = IF sts'.payload = "SETTING_UP" THEN "margining"
                  ELSE IF Head(wire).payload = "GoToNormalSettings" THEN "normal" ELSE rx
  <1> DEFINE cmd == Head(wire)
  <1>1. UNCHANGED <<client, lost>> /\ wire # <<>> /\ wire' = Tail(wire)
    BY Zenon DEF Receives
  <1>2. wire \in Seq(MessageType)
    BY Zenon DEF TypeOK
  <1>3. cmd \in MessageType /\ wire' \in Seq(MessageType)
    BY <1>1, <1>2, SMT
  <1>4. PICK answer \in (CASE cmd.typ = "Report" -> {"value"}
                           [] cmd.typ = "Step"   -> {"SETTING_UP", "NAK"}
                           [] OTHER              -> {cmd.payload}) :
               sts' = [cmd EXCEPT !.payload = answer]
    BY Zenon DEF Receives
  <1>5. rx' = IF sts'.payload = "SETTING_UP" THEN "margining"
              ELSE IF cmd.payload = "GoToNormalSettings" THEN "normal" ELSE rx
    BY Zenon DEF Receives
  <1> HIDE DEF cmd
  <1>6. /\ cmd.typ = "Step" => answer \in {"SETTING_UP", "NAK"}
        /\ cmd.typ = "Report" => answer = "value"
        /\ cmd.typ \notin {"Step", "Report"} => answer = cmd.payload
    BY <1>4, SMT
  <1>7. answer \in {"NoCmd", "ClearErrorLog", "GoToNormalSettings", "ErrorCountLimit", "report",
                    "value", "offset"} \cup StepStatus
    BY <1>3, <1>6, SMT DEF MessageType, StepStatus
  <1>8. sts' \in MessageType /\ sts'.typ = cmd.typ /\ sts'.id = cmd.id /\ sts'.payload = answer
    BY <1>3, <1>4, <1>7, SMT DEF MessageType
  <1>9. answer = cmd.payload => sts' = cmd
    BY <1>3, <1>4, SMT DEF MessageType
  <1> QED BY <1>1, <1>3, <1>5, <1>6, <1>8, <1>9, Zenon DEF cmd

-----------------------------------------------------------------------------
\* Types.

\* What is left over from before the test is no response to a Set command.
LEMMA LeftoverIs ==
  ASSUME NEW m \in Leftover
  PROVE  /\ m \in MessageType /\ m.payload # "GoToNormalSettings"
         /\ m.typ = "NoCmd" => m = NoCmd
  BY SMT DEF Leftover, NoCmd, Message, MessageType, StepStatus

LEMMA TypeInit == Init => TypeOK
  <1> SUFFICES ASSUME Init PROVE TypeOK
    OBVIOUS
  <1>1. sts \in MessageType /\ rsp \in MessageType
    BY NoCmdIs, LeftoverIs, Zenon DEF Init
  <1>2. wire \in Seq(MessageType)
    BY SMT DEF Init
  <1> QED BY <1>1, <1>2, ConstantsAssumption, SMT DEF Init, TypeOK, Calls

\* What follows a call, the end of the lane included.
LEMMA NextCallTypes ==
  ASSUME TypeOK, Succeeds \/ Fails
  PROVE  /\ pc' \in Calls \cup {"poll", "done", "failed"} /\ phase' \in {"noCmd", "direct"}
         /\ k' \in Nat /\ tidy' \in BOOLEAN
  <1>1. pc' \in Calls \cup {"poll", "done", "failed"} /\ phase' \in {"noCmd", "direct"}
    BY SMT DEF Succeeds, Fails, NextPoint, Goto, Calls
  <1>2. k' \in Nat
    BY SMT DEF Succeeds, Fails, NextPoint, Goto, TypeOK
  <1>3. tidy' = tidy \/ tidy' = TRUE \/ tidy' = FALSE
    BY Zenon DEF Succeeds, Fails
  <1>4. tidy' = tidy => tidy' \in BOOLEAN
    BY SMT DEF TypeOK
  <1> QED BY <1>1, <1>2, <1>3, <1>4, Zenon

LEMMA TypeStep == TypeOK /\ PhaseInv /\ [Next]_vars => TypeOK'
  <1> SUFFICES ASSUME TypeOK, PhaseInv, [Next]_vars PROVE TypeOK'
    OBVIOUS
  <1> DEFINE Pcs == Calls \cup {"poll", "done", "failed"}
             Phases == {"noCmd", "reflect", "cmd", "direct", "answer"}
  <1>0. /\ counted \in BOOLEAN /\ tidy \in BOOLEAN /\ pc \in Pcs /\ phase \in Phases
        /\ k \in Nat /\ serial \in Nat /\ answered \in Nat /\ lost \in 0 .. MaxLost
        /\ rsp \in MessageType /\ sts \in MessageType /\ sts.id \in Nat
        /\ wire \in Seq(MessageType) /\ rx \in {"normal", "margining"}
    BY SMT DEF TypeOK, MessageType
  <1>1. CASE Receives
    <2>1. /\ UNCHANGED <<counted, pc, k, phase, rsp, serial, answered, tidy, lost>>
          /\ wire' \in Seq(MessageType) /\ sts' \in MessageType /\ rx' \in {"normal", "margining"}
      BY <1>0, <1>1, ReceivesIs, Zenon DEF client
    <2> QED BY <1>0, <2>1, SMT DEF TypeOK
  <1>2. CASE Loses
    <2>1. UNCHANGED <<counted, pc, k, phase, rsp, serial, answered, tidy, sts, rx>>
      BY <1>2, Zenon DEF Loses, client
    <2>2. wire' \in Seq(MessageType) /\ lost' \in 0 .. MaxLost
      BY <1>0, <1>2, ConstantsAssumption, SMT DEF Loses
    <2> QED BY <1>0, <2>1, <2>2, SMT DEF TypeOK
  <1>3. CASE Progresses
    <2>1. UNCHANGED <<counted, pc, k, phase, rsp, serial, answered, tidy, wire, lost, rx>>
      BY <1>3, Zenon DEF Progresses, client
    <2>2. sts' \in MessageType
      BY <1>0, <1>3, SMT DEF Progresses, MessageType, StepStatus
    <2> QED BY <1>0, <2>1, <2>2, SMT DEF TypeOK
  <1>4. CASE BroadcastNoCmd
    <2>1. /\ UNCHANGED <<counted, pc, k, rsp, tidy, sts, lost, rx>>
          /\ wire' = Append(wire, NoCmd) /\ phase' = "reflect" /\ serial' = serial + 1
          /\ answered' = 0
      BY <1>4, Zenon DEF BroadcastNoCmd, receiver
    <2>2. wire' \in Seq(MessageType)
      BY <1>0, <2>1, NoCmdIs, SMT
    <2> QED BY <1>0, <2>1, <2>2, SMT DEF TypeOK
  <1>5. CASE NoCmdReflected
    BY <1>0, <1>5, SMT DEF NoCmdReflected, receiver, TypeOK
  <1>6. CASE WriteCommand
    <2>1. /\ UNCHANGED <<counted, pc, k, rsp, serial, answered, tidy, sts, lost, rx>>
          /\ wire' = Append(wire, Command) /\ phase = "cmd" /\ phase' = "answer"
      BY <1>6, Zenon DEF WriteCommand, receiver
    <2>2. Command \in MessageType
      BY <1>0, <2>1, CommandIs, SMT DEF PhaseInv
    <2>3. wire' \in Seq(MessageType)
      BY <1>0, <2>1, <2>2, SMT
    <2> QED BY <1>0, <2>1, <2>3, SMT DEF TypeOK
  <1>7. CASE WriteDirectly
    <2>1. /\ UNCHANGED <<counted, pc, k, rsp, tidy, sts, lost, rx>>
          /\ wire' = Append(wire, [Command EXCEPT !.id = serial + 1])
          /\ phase = "direct" /\ phase' = "answer" /\ serial' = serial + 1 /\ answered' = 0
      BY <1>7, Zenon DEF WriteDirectly, receiver
    <2>2. Command \in MessageType
      BY <1>0, <2>1, CommandIs, SMT DEF PhaseInv
    <2>3. [Command EXCEPT !.id = serial + 1] \in MessageType
      <3>1. serial + 1 \in Nat
        BY <1>0, SMT
      <3> QED BY <2>2, <3>1, Renumbered, Zenon
    <2>4. wire' \in Seq(MessageType)
      BY <1>0, <2>1, <2>3, SMT
    <2> QED BY <1>0, <2>1, <2>4, SMT DEF TypeOK
  <1>8. CASE Answered
    <2>1. /\ UNCHANGED <<counted, serial, wire, sts, lost, rx>>
          /\ rsp' = sts /\ answered' = sts.id /\ Succeeds
      BY <1>8, Zenon DEF Answered, receiver
    <2>2. pc' \in Pcs /\ phase' \in Phases /\ k' \in Nat /\ tidy' \in BOOLEAN
      BY <2>1, NextCallTypes, Zenon
    <2> QED BY <1>0, <2>1, <2>2, SMT DEF TypeOK
  <1>9. CASE TimesOut
    <2>1. /\ UNCHANGED <<counted, rsp, serial, wire, sts, lost, rx>> /\ answered' = 0 /\ Fails
      BY <1>9, Zenon DEF TimesOut, Fails, receiver
    <2>2. pc' \in Pcs /\ phase' \in Phases /\ k' \in Nat /\ tidy' \in BOOLEAN
      BY <2>1, NextCallTypes, Zenon
    <2> QED BY <1>0, <2>1, <2>2, SMT DEF TypeOK
  <1>10. CASE Rereads
    BY <1>0, <1>10, SMT DEF Rereads, receiver, TypeOK
  <1>11. CASE GivesUp \/ Dwelled
    <2>1. UNCHANGED <<counted, k, rsp, serial, answered, tidy, wire, sts, lost, rx>>
      BY <1>11, Zenon DEF GivesUp, Dwelled, receiver
    <2>2. pc' \in Pcs /\ phase' \in Phases
      BY <1>11, SMT DEF GivesUp, Dwelled, Goto, Calls
    <2> QED BY <1>0, <2>1, <2>2, SMT DEF TypeOK
  <1>12. CASE UNCHANGED vars
    <2>1. /\ UNCHANGED <<counted, pc, k, phase, rsp, serial, answered, tidy, wire, sts, lost, rx>>
      BY <1>12, Zenon DEF vars, client, receiver
    <2> QED BY <1>0, <2>1, SMT DEF TypeOK
  <1> QED
    BY <1>1, <1>2, <1>3, <1>4, <1>5, <1>6, <1>7, <1>8, <1>9, <1>10, <1>11, <1>12, Zenon
    DEF Next, Receiver, Program

LEMMA PhaseInit == Init => PhaseInv
  BY SMT DEF Init, PhaseInv, Calls

LEMMA PhaseStep == TypeOK /\ PhaseInv /\ [Next]_vars => PhaseInv'
  <1> SUFFICES ASSUME TypeOK, PhaseInv, [Next]_vars PROVE PhaseInv'
    OBVIOUS
  <1>1. CASE UNCHANGED <<pc, phase>>
    BY <1>1, SMT DEF PhaseInv
  <1>2. CASE BroadcastNoCmd \/ NoCmdReflected \/ WriteCommand \/ WriteDirectly
    <2>1. /\ pc' = pc /\ phase' \in {"reflect", "cmd", "answer"}
          /\ (pc \in Calls /\ phase = "noCmd") \/ phase \in {"reflect", "cmd", "direct"}
          /\ phase' \in {"reflect", "cmd"} => phase # "direct"
      BY <1>2, Zenon DEF BroadcastNoCmd, NoCmdReflected, WriteCommand, WriteDirectly
    <2> QED BY <2>1, SMT DEF PhaseInv
  <1>3. CASE Succeeds \/ Fails \/ GivesUp \/ Dwelled
    BY <1>3, SMT DEF Succeeds, Fails, NextPoint, GivesUp, Dwelled, Goto, PhaseInv, Calls
  <1> QED
    BY <1>1, <1>2, <1>3, ReceivesIs, Zenon
    DEF Next, Receiver, Program, Receives, Loses, Progresses, Answered, TimesOut, Rereads, vars, client

\* Type correctness: the registers hold messages, the commands on their way a sequence of
\* them, whichever commands are lost or late (lmt_cmdrsp.go:103-223).
THEOREM TypeCorrect == Spec => []TypeOK
  BY TypeInit, TypeStep, PhaseInit, PhaseStep, PTL DEF Spec

-----------------------------------------------------------------------------
\* What is on its way in each call, when a late response never comes.

\* While something is on its way, it is the call's own.
LEMMA OnTheWire ==
  ASSUME TypeOK, PhaseInv, ExchangeInv, wire # <<>>
  PROVE  \/ phase \in {"reflect", "cmd"} /\ wire = <<NoCmd>>
         \/ /\ phase = "answer" /\ pc # "count" /\ pc \in Calls /\ sts = NoCmd
            /\ wire \in {<<NoCmd>>, <<Command>>, <<NoCmd, Command>>}
         \/ phase = "answer" /\ pc = "count" /\ sts.typ = "Step" /\ wire = <<Command>>
  <1>1. phase \in {"noCmd", "reflect", "cmd", "direct", "answer"}
    BY Zenon DEF TypeOK
  <1>2. phase = "answer" => pc \in Calls
    BY SMT DEF PhaseInv
  <1> QED BY <1>1, <1>2, Zenon DEF ExchangeInv

\* A response that is taken is the call's own, and nothing is left on its way.
LEMMA AnsweredIs ==
  ASSUME TypeOK, PhaseInv, ExchangeInv, Answered
  PROVE  /\ wire = <<>> /\ sts.id = serial /\ sts.typ = Command.typ /\ pc \in Calls
         /\ Command.typ = "Set" => sts.payload = Command.payload
         /\ UNCHANGED <<serial, wire, sts, rx>> /\ rsp' = sts /\ answered' = sts.id /\ Succeeds
  <1>1. /\ UNCHANGED <<serial, wire, sts, rx>> /\ rsp' = sts /\ answered' = sts.id /\ Succeeds
        /\ phase = "answer" /\ sts.typ = Command.typ
        /\ Command.typ = "Set" => sts.payload = Command.payload
    BY Zenon DEF Answered, Matches, receiver
  <1>2. pc \in Calls
    BY <1>1, SMT DEF PhaseInv
  <1>3. sts # NoCmd
    BY <1>1, <1>2, CommandIs, NoCmdIs, SMT
  <1>4. pc = "count" => sts.typ # "Step"
    BY <1>1, <1>2, CommandIs, SMT
  <1>5. wire = <<>> /\ sts.id = serial
    BY <1>1, <1>3, <1>4, Zenon DEF ExchangeInv
  <1> QED BY <1>1, <1>2, <1>5, Zenon

LEMMA ExchangeInit == Init => ExchangeInv
  BY Zenon DEF Init, ExchangeInv

LEMMA ExchangeStep ==
  ASSUME Timely
  PROVE  TypeOK /\ PhaseInv /\ PhaseInv' /\ ExchangeInv /\ RegisterInv /\ [Next]_vars => ExchangeInv'
  <1> SUFFICES ASSUME TypeOK, PhaseInv, PhaseInv', ExchangeInv, RegisterInv, [Next]_vars
               PROVE  ExchangeInv'
    OBVIOUS
  <1>0. UNCHANGED <<pc, serial>> => Command' = Command
    BY Zenon DEF Command
  \* Nothing is on its way before a call, nor after it.
  <1>1. ASSUME wire' = <<>>, phase' \in {"noCmd", "direct"} PROVE ExchangeInv'
    BY <1>1, Zenon DEF ExchangeInv
  <1>2. CASE Receives
    <2>1. UNCHANGED <<pc, phase, serial>> /\ wire # <<>> /\ wire' = Tail(wire)
      BY <1>2, Zenon DEF Receives, client
    <2>2. Head(wire) = NoCmd => sts' = NoCmd
      BY <1>2, ReceivesIs, NoCmdIs, SMT
    <2>3. pc \in Calls /\ Head(wire) = Command => sts'.id = serial
      BY <1>2, ReceivesIs, CommandIs, Zenon
    <2>4. CASE phase \in {"reflect", "cmd"} /\ wire = <<NoCmd>>
      <3>1. wire' = <<>> /\ sts' = NoCmd /\ phase' \in {"reflect", "cmd"}
        BY <2>1, <2>2, <2>4, Tuples, SMT
      <3> QED BY <3>1, Zenon DEF ExchangeInv
    <2>5. CASE /\ phase = "answer" /\ pc # "count" /\ pc \in Calls /\ sts = NoCmd
               /\ wire \in {<<NoCmd>>, <<Command>>, <<NoCmd, Command>>}
      <3>1. \/ wire' = <<>> /\ sts' = NoCmd
            \/ wire' = <<>> /\ sts'.id = serial
            \/ wire' = <<Command>> /\ sts' = NoCmd
        BY <2>1, <2>2, <2>3, <2>5, Tuples, Zenon
      <3>2. phase' = "answer" /\ pc' # "count"
        BY <2>1, <2>5, Zenon
      <3> QED BY <1>0, <2>1, <3>1, <3>2, Zenon DEF ExchangeInv
    <2>6. CASE phase = "answer" /\ pc = "count" /\ sts.typ = "Step" /\ wire = <<Command>>
      <3>1. wire' = <<>> /\ sts'.id = serial /\ serial' = serial
        <4>1. pc \in Calls
          BY <2>6, Zenon DEF Calls
        <4> QED BY <2>1, <2>3, <2>6, <4>1, Tuples, Zenon
      <3>2. phase' = "answer" /\ pc' = "count"
        BY <2>1, <2>6, Zenon
      <3> QED BY <3>1, <3>2, Zenon DEF ExchangeInv
    <2> QED BY <2>1, <2>4, <2>5, <2>6, OnTheWire, Zenon
  <1>3. CASE Loses
    <2>1. UNCHANGED <<pc, phase, serial, sts>> /\ wire # <<>> /\ wire' = Tail(wire)
      BY <1>3, Zenon DEF Loses, client
    <2>2. CASE phase \in {"reflect", "cmd"} /\ wire = <<NoCmd>>
      <3>1. wire' = <<>> /\ phase' = phase
        BY <2>1, <2>2, Tuples, SMT
      <3> QED BY <2>1, <2>2, <3>1, Zenon DEF ExchangeInv
    <2>3. CASE /\ phase = "answer" /\ pc # "count" /\ pc \in Calls /\ sts = NoCmd
               /\ wire \in {<<NoCmd>>, <<Command>>, <<NoCmd, Command>>}
      <3>1. (wire' = <<>> \/ wire' = <<Command>>) /\ sts' = NoCmd
        BY <2>1, <2>3, Tuples, Zenon
      <3>2. phase' = "answer" /\ pc' # "count"
        BY <2>1, <2>3, Zenon
      <3> QED BY <1>0, <2>1, <3>1, <3>2, Zenon DEF ExchangeInv
    <2>4. CASE phase = "answer" /\ pc = "count" /\ sts.typ = "Step" /\ wire = <<Command>>
      <3>1. wire' = <<>> /\ sts'.typ = "Step" /\ phase' = "answer" /\ pc' = "count"
        BY <2>1, <2>4, Tuples, Zenon
      <3> QED BY <3>1, Zenon DEF ExchangeInv
    <2> QED BY <2>1, <2>2, <2>3, <2>4, OnTheWire, Zenon
  <1>4. CASE Progresses
    <2>1. UNCHANGED <<pc, phase, serial, wire>> /\ sts.typ = "Step"
      BY <1>4, Zenon DEF Progresses, client
    <2>2. sts'.typ = "Step" /\ sts'.id = sts.id /\ sts # NoCmd
      BY <1>4, <2>1, NoCmdIs, SMT DEF Progresses, TypeOK, MessageType
    <2>3. phase # "cmd"
      BY <2>2, Zenon DEF ExchangeInv
    <2>4. phase' = "answer" /\ pc' # "count" => wire' = <<>> /\ sts'.id = serial'
      BY <2>1, <2>2, Zenon DEF ExchangeInv
    <2>5. phase' = "answer" /\ pc' = "count" =>
            \/ sts'.typ = "Step" /\ wire' \in {<<>>, <<Command'>>}
            \/ wire' = <<>> /\ sts'.id = serial'
      BY <1>0, <2>1, <2>2, Zenon DEF ExchangeInv
    <2>6. phase' # "cmd"
      BY <2>1, <2>3, Zenon
    <2>7. /\ phase' \in {"noCmd", "direct"} => wire' = <<>>
          /\ phase' = "reflect" => wire' \in {<<>>, <<NoCmd>>}
      BY <2>1, Zenon DEF ExchangeInv
    <2>8. NoCmd' = NoCmd
      BY Zenon DEF NoCmd, Message
    <2> QED BY <2>4, <2>5, <2>6, <2>7, <2>8, Zenon DEF ExchangeInv
  <1>5. CASE BroadcastNoCmd
    <2>1. phase = "noCmd" /\ phase' = "reflect" /\ wire' = Append(wire, NoCmd)
      BY <1>5, Zenon DEF BroadcastNoCmd
    <2>2. wire' = <<NoCmd>>
      BY <2>1, Tuples, Zenon DEF ExchangeInv
    <2> QED BY <2>1, <2>2, Zenon DEF ExchangeInv
  <1>6. CASE NoCmdReflected
    <2>1. phase = "reflect" /\ phase' = "cmd" /\ sts.typ = "NoCmd" /\ UNCHANGED <<wire, sts>>
      BY <1>6, NoCmdIs, Zenon DEF NoCmdReflected, Matches, receiver
    <2>2. wire \in {<<>>, <<NoCmd>>} /\ sts = NoCmd
      BY <2>1, Zenon DEF ExchangeInv, RegisterInv
    <2> QED BY <2>1, <2>2, Zenon DEF ExchangeInv
  <1>7. CASE WriteCommand
    <2>1. /\ phase = "cmd" /\ phase' = "answer" /\ wire' = Append(wire, Command)
          /\ UNCHANGED <<pc, serial, sts>>
      BY <1>7, Zenon DEF WriteCommand, receiver
    <2>2. pc' # "count"
      BY <2>1, SMT DEF PhaseInv
    <2>3. wire \in {<<>>, <<NoCmd>>} /\ sts = NoCmd
      BY <2>1, Zenon DEF ExchangeInv
    <2>4. wire' \in {<<Command>>, <<NoCmd, Command>>}
      BY <2>1, <2>3, Tuples, Zenon
    <2> QED BY <1>0, <2>1, <2>2, <2>3, <2>4, Zenon DEF ExchangeInv
  <1>8. CASE WriteDirectly
    <2>1. /\ phase = "direct" /\ phase' = "answer" /\ serial' = serial + 1 /\ UNCHANGED <<pc, sts>>
          /\ wire' = Append(wire, [Command EXCEPT !.id = serial + 1])
      BY <1>8, Zenon DEF WriteDirectly, receiver
    <2>2. pc = "count" /\ pc \in Calls /\ wire = <<>> /\ sts.typ = "Step"
      BY <2>1, SMT DEF PhaseInv, ExchangeInv, RegisterInv, Calls
    <2>3. Command' = Message("Report", "report", serial + 1)
      BY <2>1, <2>2, SMT DEF Command
    <2>4. [Command EXCEPT !.id = serial + 1] = Message("Report", "report", serial + 1)
      BY <2>2, SMT DEF Command, Message
    <2>5. wire' = <<Command'>>
      BY <2>1, <2>2, <2>3, <2>4, Tuples, Zenon
    <2> QED BY <2>1, <2>2, <2>5, Zenon DEF ExchangeInv
  <1>9. CASE Answered
    <2>1. wire' = <<>>
      BY <1>9, AnsweredIs, Zenon
    <2>2. phase' \in {"noCmd", "direct"}
      BY <1>9, NextCallTypes, Zenon DEF Answered
    <2> QED BY <1>1, <2>1, <2>2, Zenon
  <1>10. CASE TimesOut
    <2>1. wire' = <<>>
      BY <1>10, Zenon DEF TimesOut
    <2>2. phase' \in {"noCmd", "direct"}
      BY <1>10, NextCallTypes, Zenon DEF TimesOut
    <2> QED BY <1>1, <2>1, <2>2, Zenon
  <1>11. CASE Rereads \/ GivesUp \/ Dwelled
    <2>1. wire' = wire /\ pc = "poll" /\ (phase' = phase \/ phase' \in {"noCmd", "direct"})
      BY <1>11, SMT DEF Rereads, GivesUp, Dwelled, Goto
    <2>2. phase = "noCmd"
      BY <2>1, SMT DEF PhaseInv, Calls
    <2> QED BY <1>1, <2>1, <2>2, Zenon DEF ExchangeInv
  <1>12. CASE UNCHANGED vars
    <2>1. UNCHANGED <<pc, phase, serial, wire, sts>>
      BY <1>12, Zenon DEF vars, client, receiver
    <2> QED BY <1>0, <2>1, Zenon DEF ExchangeInv
  <1> QED
    BY <1>2, <1>3, <1>4, <1>5, <1>6, <1>7, <1>8, <1>9, <1>10, <1>11, <1>12, Zenon
    DEF Next, Receiver, Program

LEMMA RegisterInit == Init => RegisterInv
  <1> SUFFICES ASSUME Init PROVE RegisterInv
    OBVIOUS
  <1>1. /\ pc = "rdClear" /\ phase = "noCmd"
        /\ sts.typ = "NoCmd" => sts = NoCmd
    BY LeftoverIs, Zenon DEF Init
  <1> QED BY <1>1, SMT DEF RegisterInv

LEMMA RegisterStep ==
  TypeOK /\ PhaseInv /\ ExchangeInv /\ RegisterInv /\ [Next]_vars => RegisterInv'
  <1> SUFFICES ASSUME TypeOK, PhaseInv, ExchangeInv, RegisterInv, [Next]_vars PROVE RegisterInv'
    OBVIOUS
  <1>0. NoCmd' = NoCmd
    BY Zenon DEF NoCmd, Message
  <1>1. CASE Receives
    <2>1. UNCHANGED <<pc, phase, serial, rsp>> /\ wire # <<>>
      BY <1>1, Zenon DEF Receives, client
    <2>2. pc' # "poll" /\ phase' # "direct"
      BY <2>1, SMT DEF PhaseInv, ExchangeInv, Calls
    <2>3. pc \in Calls
      BY <2>1, SMT DEF PhaseInv, ExchangeInv
    <2>4. Head(wire) = NoCmd \/ Head(wire) = Command
      BY <2>1, OnTheWire, Tuples, SMT
    <2>5. Head(wire) = NoCmd => sts' = NoCmd
      BY <1>1, ReceivesIs, NoCmdIs, SMT
    <2>6. Head(wire) = Command => sts'.typ # "NoCmd"
      BY <1>1, <2>3, ReceivesIs, CommandIs, SMT
    <2> QED BY <1>0, <2>2, <2>4, <2>5, <2>6, Zenon DEF RegisterInv
  <1>2. CASE Progresses
    <2>1. UNCHANGED <<pc, phase, serial, rsp>> /\ sts.typ = "Step"
      BY <1>2, Zenon DEF Progresses, client
    <2>2. sts'.typ = "Step" /\ sts'.id = sts.id
      BY <1>2, <2>1, SMT DEF Progresses, TypeOK, MessageType
    <2>3. sts'.typ # "NoCmd"
      BY <2>2, SMT
    <2> QED BY <2>1, <2>2, <2>3, Zenon DEF RegisterInv
  <1>3. CASE BroadcastNoCmd \/ NoCmdReflected \/ WriteCommand \/ WriteDirectly
    <2>1. sts' = sts /\ pc' = pc /\ phase' # "direct" /\ pc \in Calls
      BY <1>3, Zenon DEF BroadcastNoCmd, NoCmdReflected, WriteCommand, WriteDirectly, receiver,
                         PhaseInv
    <2>2. pc' # "poll"
      BY <2>1, SMT DEF Calls
    <2> QED BY <1>0, <2>1, <2>2, Zenon DEF RegisterInv
  <1>4. CASE Answered
    <2>1. sts' = sts /\ serial' = serial /\ rsp' = sts /\ sts.id = serial /\ sts.typ = Command.typ
          /\ pc \in Calls /\ Succeeds
      BY <1>4, AnsweredIs, Zenon
    <2>2. (pc' = "poll" => pc = "step") /\ phase' # "direct"
      BY <2>1, SMT DEF Succeeds, NextPoint, Goto
    <2>3. pc = "step" => sts.typ = "Step"
      BY <2>1, CommandIs, Zenon
    <2> QED BY <1>0, <2>1, <2>2, <2>3, Zenon DEF RegisterInv
  <1>5. CASE TimesOut
    <2>1. sts' = sts /\ Fails
      BY <1>5, Zenon DEF TimesOut, receiver
    <2>2. pc' # "poll" /\ phase' # "direct"
      BY <2>1, SMT DEF Fails, NextPoint, Goto
    <2> QED BY <1>0, <2>1, <2>2, Zenon DEF RegisterInv
  <1>6. CASE Rereads
    <2>1. UNCHANGED <<pc, phase, serial, sts>> /\ rsp' = sts
      BY <1>6, Zenon DEF Rereads, receiver
    <2> QED BY <1>0, <2>1, Zenon DEF RegisterInv
  <1>7. CASE GivesUp \/ Dwelled
    <2>1. sts' = sts /\ pc = "poll"
      BY <1>7, Zenon DEF GivesUp, Dwelled, receiver
    <2>2. pc' # "poll"
      BY <1>7, SMT DEF GivesUp, Dwelled, Goto
    <2>3. sts.typ = "Step"
      BY <2>1, Zenon DEF RegisterInv
    <2> QED BY <1>0, <2>1, <2>2, <2>3, Zenon DEF RegisterInv
  <1>8. CASE Loses \/ UNCHANGED vars
    <2>1. UNCHANGED <<pc, phase, serial, rsp, sts>>
      BY <1>8, Zenon DEF Loses, vars, client, receiver
    <2> QED BY <1>0, <2>1, Zenon DEF RegisterInv
  <1> QED
    BY <1>1, <1>2, <1>3, <1>4, <1>5, <1>6, <1>7, <1>8, Zenon DEF Next, Receiver, Program

LEMMA NormalInit == Init => NormalInv
  <1> SUFFICES ASSUME Init PROVE NormalInv
    OBVIOUS
  <1>1. sts.payload # "GoToNormalSettings" /\ pc = "rdClear"
    BY LeftoverIs, Zenon DEF Init
  <1> QED BY <1>1, SMT DEF NormalInv, NormalWhenTidy

LEMMA NormalStep ==
  TypeOK /\ PhaseInv /\ ExchangeInv /\ NormalInv /\ [Next]_vars => NormalInv'
  <1> SUFFICES ASSUME TypeOK, PhaseInv, ExchangeInv, NormalInv, [Next]_vars PROVE NormalInv'
    OBVIOUS
  <1> USE DEF NormalInv, NormalWhenTidy
  <1>1. CASE Receives
    <2>1. UNCHANGED <<pc, phase, tidy>> /\ wire # <<>>
      BY <1>1, Zenon DEF Receives, client
    <2>2. pc \in Calls /\ pc # "done"
      BY <2>1, SMT DEF PhaseInv, ExchangeInv, Calls
    <2>3. Head(wire) = NoCmd \/ Head(wire) = Command
      BY <2>1, OnTheWire, Tuples, SMT
    <2>4. sts'.payload = "GoToNormalSettings" => rx' = "normal"
      <3>1. CASE Head(wire).typ \in {"Step", "Report"}
        BY <1>1, <3>1, ReceivesIs, SMT
      <3>2. CASE Head(wire).typ \notin {"Step", "Report"}
        BY <1>1, <3>2, ReceivesIs, SMT
      <3> QED BY <3>1, <3>2, Zenon
    <2>5. pc # "step" => sts'.payload # "SETTING_UP"
      <3> SUFFICES ASSUME pc # "step" PROVE sts'.payload # "SETTING_UP"
        OBVIOUS
      <3>1. Head(wire).typ # "Step" /\ Head(wire).payload # "SETTING_UP"
        BY <2>2, <2>3, CommandIs, NoCmdIs, SMT
      <3> QED BY <1>1, <3>1, ReceivesIs, SMT
    <2>6. Head(wire) = NoCmd => rx' = rx
      BY <1>1, ReceivesIs, NoCmdIs, SMT
    <2>7. pc # "step" /\ rx = "normal" => rx' = "normal"
      BY <1>1, <2>5, ReceivesIs, SMT
    <2>8. phase \in {"noCmd", "reflect", "cmd"} => Head(wire) = NoCmd
      BY <2>1, OnTheWire, Tuples, SMT
    <2> QED BY <2>1, <2>2, <2>4, <2>6, <2>7, <2>8, SMT
  <1>2. CASE Progresses
    <2>1. UNCHANGED <<pc, phase, tidy, rx>>
      BY <1>2, Zenon DEF Progresses, client
    <2>2. sts'.payload # "GoToNormalSettings"
      BY <1>2, SMT DEF Progresses, TypeOK, MessageType
    <2> QED BY <2>1, <2>2, SMT
  <1>3. CASE BroadcastNoCmd \/ NoCmdReflected \/ WriteCommand \/ WriteDirectly
    <2>1. /\ UNCHANGED <<pc, tidy, sts, rx>>
          /\ phase \in {"noCmd", "reflect"} \/ phase' = "answer"
      BY <1>3, Zenon DEF BroadcastNoCmd, NoCmdReflected, WriteCommand, WriteDirectly, receiver
    <2> QED BY <2>1, SMT
  <1>4. CASE Answered
    <2>1. /\ UNCHANGED <<sts, rx>> /\ Succeeds /\ pc \in Calls
          /\ Command.typ = "Set" => sts.payload = Command.payload
      BY <1>4, AnsweredIs, Zenon
    <2>2. pc \in {"rdNormal", "normal"} => rx = "normal"
      BY <2>1, CommandIs, SMT
    <2>3. pc' \in {"rdReport", "limit", "step", "done"} =>
            pc \in {"rdNormal", "rdReport", "limit", "normal"}
      BY <2>1, SMT DEF Succeeds, NextPoint, Goto
    <2> QED BY <2>1, <2>2, <2>3, SMT
  <1>5. CASE TimesOut
    <2>1. UNCHANGED <<sts, rx>> /\ Fails
      BY <1>5, Zenon DEF TimesOut, receiver
    <2>2. pc' \in {"step", "done"} => tidy' = FALSE
      BY <2>1, SMT DEF Fails, NextPoint, Goto
    <2>3. pc' \notin {"rdReport", "limit"}
      BY <2>1, SMT DEF Fails, NextPoint, Goto
    <2> QED BY <2>1, <2>2, <2>3, SMT
  <1>6. CASE Rereads \/ GivesUp \/ Dwelled
    <2>1. UNCHANGED <<sts, rx>> /\ pc = "poll" /\ pc' \in {"poll", "count", "clear"}
      BY <1>6, SMT DEF Rereads, GivesUp, Dwelled, Goto, receiver
    <2> QED BY <2>1, SMT
  <1>7. CASE Loses \/ UNCHANGED vars
    <2>1. UNCHANGED <<pc, phase, tidy, sts, rx>>
      BY <1>7, Zenon DEF Loses, vars, client, receiver
    <2> QED BY <2>1, SMT
  <1> QED
    BY <1>1, <1>2, <1>3, <1>4, <1>5, <1>6, <1>7, Zenon DEF Next, Receiver, Program

-----------------------------------------------------------------------------
\* The invariants. Timely is the assumption that a response not there when the 12 ms deadline
\* passes never comes; without it a late one is taken for the next command's.

LEMMA Invariance ==
  ASSUME Timely
  PROVE  Spec => [](TypeOK /\ PhaseInv /\ ExchangeInv /\ RegisterInv /\ NormalInv)
  BY TypeInit, TypeStep, PhaseInit, PhaseStep, ExchangeInit, ExchangeStep, RegisterInit,
     RegisterStep, NormalInit, NormalStep, PTL DEF Spec

\* When responses are timely, the status margin() judges a point by is that of the point's own
\* step margin, the unmatched reads of its polling loop included (lmt_offset.go:155, 173).
THEOREM PolledIsOwn ==
  ASSUME Timely
  PROVE  Spec => []PolledOwn
  <1>1. RegisterInv => PolledOwn
    BY Zenon DEF RegisterInv, PolledOwn
  <1> QED BY <1>1, Invariance, PTL

\* When responses are timely, a margin() that has returned no error leaves the receiver at its
\* normal settings, until the step margin of the next point (lmt_offset.go:267-277).
THEOREM TidyIsNormal ==
  ASSUME Timely
  PROVE  Spec => []NormalWhenTidy
  <1>1. NormalInv => NormalWhenTidy
    BY Zenon DEF NormalInv
  <1> QED BY <1>1, Invariance, PTL

-----------------------------------------------------------------------------
\* Every call is a remote procedure call.

Busy == phase \in {"reflect", "cmd", "answer"}

LEMMA RpcStep ==
  TypeOK /\ PhaseInv /\ ExchangeInv /\ [Next]_vars
    => [CallsAreRpc!Next]_<<serial, Busy, answered>>
  <1> SUFFICES ASSUME TypeOK, PhaseInv, ExchangeInv, [Next]_vars
               PROVE  CallsAreRpc!Next \/ UNCHANGED <<serial, Busy, answered>>
    BY Zenon
  <1>1. CASE BroadcastNoCmd
    <2>1. ~Busy /\ Busy' = TRUE /\ serial' = serial + 1 /\ answered' = 0
      BY <1>1, SMT DEF BroadcastNoCmd, Busy
    <2> QED BY <2>1, Zenon DEF CallsAreRpc!Next, CallsAreRpc!Call, CallsAreRpc!None, Busy
  <1>2. CASE WriteDirectly
    <2>1. ~Busy /\ Busy' = TRUE /\ serial' = serial + 1 /\ answered' = 0
      BY <1>2, SMT DEF WriteDirectly, Busy
    <2> QED BY <2>1, Zenon DEF CallsAreRpc!Next, CallsAreRpc!Call, CallsAreRpc!None, Busy
  <1>3. CASE Answered
    <2>1. serial' = serial /\ answered' = serial
      BY <1>3, AnsweredIs, Zenon
    <2>2. Busy /\ Busy' = FALSE
      BY <1>3, NextCallTypes, SMT DEF Answered, Busy
    <2> QED BY <2>1, <2>2, Zenon DEF CallsAreRpc!Next, CallsAreRpc!Return, Busy
  <1>4. CASE TimesOut
    <2>1. serial' = serial /\ answered' = 0
      BY <1>4, Zenon DEF TimesOut, Fails
    <2>2. Busy /\ Busy' = FALSE
      BY <1>4, NextCallTypes, SMT DEF TimesOut, Busy
    <2> QED BY <2>1, <2>2, Zenon DEF CallsAreRpc!Next, CallsAreRpc!Fail, CallsAreRpc!None, Busy
  <1>5. CASE NoCmdReflected \/ WriteCommand
    <2>1. serial' = serial /\ answered' = answered
      BY <1>5, Zenon DEF NoCmdReflected, WriteCommand
    <2>2. /\ phase \in {"reflect", "cmd", "answer"}
          /\ phase' \in {"reflect", "cmd", "answer"}
      BY <1>5, Zenon DEF NoCmdReflected, WriteCommand
    <2>3. Busy' = Busy
      BY <2>2, SMT DEF Busy
    <2> QED BY <2>1, <2>3, Zenon
  <1>6. CASE Rereads \/ GivesUp \/ Dwelled
    <2>1. serial' = serial /\ answered' = answered
      BY <1>6, Zenon DEF Rereads, GivesUp, Dwelled
    <2>2. phase = "noCmd" /\ phase' \in {"noCmd", "direct"}
      BY <1>6, SMT DEF Rereads, GivesUp, Dwelled, Goto, PhaseInv, Calls
    <2>3. Busy' = Busy
      BY <2>2, SMT DEF Busy
    <2> QED BY <2>1, <2>3, Zenon
  <1>7. CASE Receives \/ Loses \/ Progresses \/ UNCHANGED vars
    <2>1. UNCHANGED <<serial, phase, answered>>
      BY <1>7, Zenon DEF Receives, Loses, Progresses, vars, client
    <2> QED BY <2>1, Zenon DEF Busy
  <1> QED
    BY <1>1, <1>2, <1>3, <1>4, <1>5, <1>6, <1>7, Zenon DEF Next, Receiver, Program

\* When responses are timely, lmrCmdRsp is a remote procedure call: one call at a time, ended
\* by the response to that very command or by an error (lmt_cmdrsp.go:146-163). That a call
\* ends, the fairness in RpcSpec, is not part of this.
THEOREM CallsAreCalls ==
  ASSUME Timely
  PROVE  Spec => CallsAreRpc!Init /\ [][CallsAreRpc!Next]_<<serial, Busy, answered>>
  <1>1. Init => CallsAreRpc!Init
    <2> SUFFICES ASSUME Init PROVE CallsAreRpc!Init
      OBVIOUS
    <2>1. (phase \in {"reflect", "cmd", "answer"}) = FALSE
      BY SMT DEF Init
    <2> QED BY <2>1, Zenon DEF Init, CallsAreRpc!Init, CallsAreRpc!None
  <1> QED BY <1>1, RpcStep, Invariance, PTL DEF Spec
=============================================================================
