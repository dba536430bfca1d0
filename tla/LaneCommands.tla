--------------------------- MODULE LaneCommands ----------------------------
(***************************************************************************)
(* The commands MarginLane sends to one lane's receiver and their          *)
(* responses: the protocol of lmt_cmdrsp.go (write the control register,   *)
(* poll the status register until it matches or 12 ms have passed) under   *)
(* the calls of readLaneParameters, setErrLimit and margin().              *)
(*                                                                         *)
(* The receiver, outside the program, gets the commands in order, may lose *)
(* one, and reflects each response in the status register, where it stays  *)
(* until the next; a step margin's status goes on changing there.  Every   *)
(* command and response carries the serial number of its call, which the   *)
(* program does not see.                                                   *)
(***************************************************************************)
EXTENDS Naturals, Sequences

CONSTANTS
  NumReports,   \* Report commands of readLaneParameters (8 in the code)
  NumPoints,    \* margin() calls of the aspect
  Timely,       \* a response not there when the deadline passes never comes
  MaxLost,      \* bound on lost commands
  MaxWire       \* bound on commands in flight

ASSUME ConstantsAssumption ==
  /\ NumReports \in Nat \ {0} /\ NumPoints \in Nat \ {0}
  /\ Timely \in BOOLEAN
  /\ MaxLost \in Nat /\ MaxWire \in Nat \ {0}

VARIABLES
  counted,      \* the sample count is read from the receiver, not computed
  pc,           \* which call MarginLane is at
  k,            \* Report commands, then points, done
  phase,        \* where lmrCmdRsp is in that call
  rsp,          \* the response last decoded for the caller
  serial,       \* calls made so far
  answered,     \* the call whose response the last one returned, 0 for an error
  tidy,         \* the last margin() (or readLaneParameters) returned no error
  wire,         \* commands on their way to the receiver
  sts,          \* the status register
  lost,         \* commands lost so far
  rx            \* "normal" or "margining"

client == <<counted, pc, k, phase, rsp, serial, answered, tidy>>
receiver == <<sts, lost, rx>>
vars == <<client, wire, receiver>>

-----------------------------------------------------------------------------
\* Commands and responses.

StepStatus == {"SETTING_UP", "MARGINING", "ERROR_OUT", "NAK"}

\* Mutant: the type is encoded in the payload's place.
MessageOfType(typ, payload, id) == [typ |-> typ, payload |-> typ, id |-> id]

Message(typ, payload, id) == [typ |-> typ, payload |-> payload, id |-> id]

NoCmd == Message("NoCmd", "NoCmd", 0)

\* The command of each call; its echo is expected for the Set ones (lmrCmdRspEcho).
Command ==
  CASE pc \in {"rdClear", "clear"}   -> Message("Set", "ClearErrorLog", serial)
    [] pc \in {"rdNormal", "normal"} -> Message("Set", "GoToNormalSettings", serial)
    [] pc = "limit"                  -> Message("Set", "ErrorCountLimit", serial)
    [] pc \in {"rdReport", "count"}  -> Message("Report", "report", serial)
    [] pc = "step"                   -> Message("Step", "offset", serial)

Calls == {"rdClear", "rdNormal", "rdReport", "limit", "step", "count", "clear", "normal"}

\* Mutant: the response's type is not compared.
MatchesAnyType(cmd, matchPayload) == matchPayload => sts.payload = cmd.payload

Matches(cmd, matchPayload) ==
  sts.typ = cmd.typ /\ (matchPayload => sts.payload = cmd.payload)

\* The step margin status in a payload; 0x9C, 0x55, 0x0F and 0xC0 read as one, too.
StatusOf(r) ==
  CASE r.payload = "NoCmd"              -> {"MARGINING"}
    [] r.payload = "ClearErrorLog"      -> {"SETTING_UP"}
    [] r.payload = "GoToNormalSettings" -> {"ERROR_OUT"}
    [] r.payload = "ErrorCountLimit"    -> {"NAK"}
    [] r.payload \in StepStatus         -> {r.payload}
    [] OTHER                            -> StepStatus

-----------------------------------------------------------------------------
\* What the status register may hold from before the test: nothing yet, a response or a status.
Leftover == {NoCmd, [typ |-> "Report", payload |-> "value", id |-> 0],
                    [typ |-> "Step", payload |-> "MARGINING", id |-> 0]}

Init ==
  /\ counted \in BOOLEAN
  /\ pc = "rdClear" /\ phase = "noCmd" /\ k = 0
  /\ rsp = NoCmd /\ serial = 0 /\ answered = 0 /\ tidy = TRUE
  /\ wire = <<>>
  /\ sts \in Leftover
  /\ lost = 0
  /\ rx \in {"normal", "margining"}

-----------------------------------------------------------------------------
\* The receiver.

Receives ==
  /\ wire # <<>>
  /\ wire' = Tail(wire)
  /\ LET cmd == Head(wire)
     IN  /\ \E answer \in (CASE cmd.typ = "Report" -> {"value"}
                             [] cmd.typ = "Step"   -> {"SETTING_UP", "NAK"}
                             [] OTHER              -> {cmd.payload}) :
              sts' = [cmd EXCEPT !.payload = answer]
         /\ rx' = IF sts'.payload = "SETTING_UP" THEN "margining"
                  ELSE IF cmd.payload = "GoToNormalSettings" THEN "normal" ELSE rx
  /\ UNCHANGED <<client, lost>>

Loses ==
  /\ wire # <<>> /\ lost < MaxLost
  /\ wire' = Tail(wire) /\ lost' = lost + 1
  /\ UNCHANGED <<client, sts, rx>>

\* The status of the step margin under way.
Progresses ==
  /\ sts.typ = "Step" /\ rx = "margining"
  /\ \/ sts.payload = "SETTING_UP" /\ sts' = [sts EXCEPT !.payload = "MARGINING"]
     \/ sts.payload = "MARGINING"  /\ sts' = [sts EXCEPT !.payload = "ERROR_OUT"]
  /\ UNCHANGED <<client, wire, lost, rx>>

-----------------------------------------------------------------------------
\* What MarginLane does after a call: the next call, and its phase.

Goto(place) ==
  pc' = place /\ phase' = IF place = "count" THEN "direct" ELSE "noCmd"

NextPoint ==
  /\ k' = k + 1
  /\ IF k + 1 < NumPoints THEN Goto("step") ELSE Goto("done")

\* Mutant: margin() does not return the error of its last commands.
FailsSilently ==
  /\ answered' = 0
  /\ IF pc \in {"step", "count", "clear", "normal"}
     THEN NextPoint /\ tidy' = (pc \in {"clear", "normal"})
     ELSE pc' = "failed" /\ phase' = "noCmd" /\ UNCHANGED <<k, tidy>>
  /\ UNCHANGED <<counted, rsp, serial>>

\* margin() returns its error, which the scan only logs; readLaneParameters and setErrLimit
\* end the lane.
Fails ==
  /\ answered' = 0
  /\ IF pc \in {"step", "count", "clear", "normal"}
     THEN NextPoint /\ tidy' = FALSE
     ELSE pc' = "failed" /\ phase' = "noCmd" /\ UNCHANGED <<k, tidy>>
  /\ UNCHANGED <<counted, rsp, serial>>

Succeeds ==
  \/ pc = "rdClear"  /\ Goto("rdNormal") /\ UNCHANGED <<k, tidy>>
  \/ pc = "rdNormal" /\ Goto("rdReport") /\ UNCHANGED <<k, tidy>>
  \/ pc = "rdReport" /\ k + 1 < NumReports /\ k' = k + 1 /\ Goto("rdReport") /\ UNCHANGED tidy
  \/ pc = "rdReport" /\ k + 1 = NumReports /\ k' = 0 /\ Goto("limit") /\ UNCHANGED tidy
  \/ pc = "limit"    /\ Goto("step") /\ UNCHANGED <<k, tidy>>
  \/ pc = "step"     /\ pc' = "poll" /\ phase' = "noCmd" /\ UNCHANGED <<k, tidy>>
  \/ pc = "count"    /\ Goto("clear") /\ UNCHANGED <<k, tidy>>
  \/ pc = "clear"    /\ Goto("normal") /\ UNCHANGED <<k, tidy>>
  \/ pc = "normal"   /\ NextPoint /\ tidy' = TRUE

-----------------------------------------------------------------------------
\* lmrBroadcastNoCmd, then lmrCmdRspBase.

\* Mutant: the commands are not separated by a No Command.
BroadcastNothing ==
  /\ pc \in Calls /\ phase = "noCmd"
  /\ phase' = "cmd" /\ serial' = serial + 1 /\ answered' = 0
  /\ UNCHANGED <<counted, pc, k, rsp, tidy, wire, receiver>>

BroadcastNoCmd ==
  /\ pc \in Calls /\ phase = "noCmd"
  /\ wire' = Append(wire, NoCmd)
  /\ phase' = "reflect" /\ serial' = serial + 1 /\ answered' = 0
  /\ UNCHANGED <<counted, pc, k, rsp, tidy, receiver>>

NoCmdReflected ==
  /\ phase = "reflect" /\ Matches(NoCmd, TRUE)
  /\ phase' = "cmd"
  /\ UNCHANGED <<counted, pc, k, rsp, serial, answered, tidy, wire, receiver>>

WriteCommand ==
  /\ phase = "cmd"
  /\ wire' = Append(wire, Command)
  /\ phase' = "answer"
  /\ UNCHANGED <<counted, pc, k, rsp, serial, answered, tidy, receiver>>

\* The sample count is asked for while the step margin goes on, with no No Command before.
WriteDirectly ==
  /\ phase = "direct"
  /\ serial' = serial + 1 /\ answered' = 0
  /\ wire' = Append(wire, [Command EXCEPT !.id = serial + 1])
  /\ phase' = "answer"
  /\ UNCHANGED <<counted, pc, k, rsp, tidy, receiver>>

Answered ==
  /\ phase = "answer" /\ Matches(Command, Command.typ = "Set")
  /\ rsp' = sts /\ answered' = sts.id
  /\ Succeeds
  /\ UNCHANGED <<counted, serial, wire, receiver>>

\* The deadline is checked after a read that does not match; the response may have come since.
TimesOut ==
  /\ phase \in {"reflect", "answer"}
  /\ IF Timely THEN wire = <<>> ELSE Len(wire) < MaxWire
  /\ Fails
  /\ UNCHANGED <<wire, receiver>>

-----------------------------------------------------------------------------
\* The polling loop of margin(), which reads the status register again without matching it.

Rereads ==
  /\ pc = "poll" /\ StatusOf(rsp) \cap {"SETTING_UP", "MARGINING"} # {}
  /\ rsp' = sts
  /\ UNCHANGED <<counted, pc, k, phase, serial, answered, tidy, wire, receiver>>

\* Mutant: a receiver that is never ready is waited for.
GivesUpNever == FALSE

\* A NAK, or a receiver still setting up after marginTimeout (1000 ms): no sample count.
GivesUp ==
  /\ pc = "poll" /\ StatusOf(rsp) \cap {"NAK", "SETTING_UP"} # {}
  /\ Goto("clear")
  /\ UNCHANGED <<counted, k, rsp, serial, answered, tidy, wire, receiver>>

\* An ERROR_OUT, or the end of the dwell time.
Dwelled ==
  /\ pc = "poll" /\ StatusOf(rsp) \cap {"ERROR_OUT", "MARGINING"} # {}
  /\ Goto(IF counted THEN "count" ELSE "clear")
  /\ UNCHANGED <<counted, k, rsp, serial, answered, tidy, wire, receiver>>

-----------------------------------------------------------------------------
Receiver == Receives \/ Loses \/ Progresses

Program ==
  \/ BroadcastNoCmd \/ NoCmdReflected \/ WriteCommand \/ WriteDirectly \/ Answered \/ TimesOut
  \/ Rereads \/ GivesUp \/ Dwelled

Next == Receiver \/ Program

Spec == Init /\ [][Next]_vars

\* The goroutine runs, its deadlines pass, and commands reach the receiver or get lost.
FairSpec ==
  /\ Spec
  /\ WF_vars(Receives \/ Loses)
  /\ WF_vars(BroadcastNoCmd \/ WriteCommand \/ WriteDirectly)
  /\ WF_vars(NoCmdReflected \/ Answered \/ TimesOut)
  /\ WF_vars(GivesUp \/ Dwelled)

-----------------------------------------------------------------------------
\* Properties.

MessageType ==
  [typ : {"NoCmd", "Set", "Report", "Step"},
   payload : {"NoCmd", "ClearErrorLog", "GoToNormalSettings", "ErrorCountLimit", "report",
              "value", "offset"} \cup StepStatus,
   id : Nat]

TypeOK ==
  /\ counted \in BOOLEAN /\ tidy \in BOOLEAN
  /\ pc \in Calls \cup {"poll", "done", "failed"}
  /\ phase \in {"noCmd", "reflect", "cmd", "direct", "answer"}
  /\ k \in Nat /\ serial \in Nat /\ answered \in Nat /\ lost \in 0 .. MaxLost
  /\ rsp \in MessageType /\ sts \in MessageType
  /\ wire \in Seq(MessageType)
  /\ rx \in {"normal", "margining"}

\* Every call returns the response to its own command, or an error (lmt_cmdrsp.go:146-163).
CallsAreRpc == INSTANCE Rpc WITH busy <- phase \in {"reflect", "cmd", "answer"}

RpcSpec == CallsAreRpc!Spec

\* The status that margin() judges a point by is that of its own step margin, the unmatched
\* reads of the polling loop included (lmt_offset.go:155, 173).
PolledOwn == pc = "poll" => rsp.typ = "Step" /\ rsp.id = serial

\* When margin() has returned no error, the receiver is back to normal settings until the
\* next step margin (lmt_offset.go:267-277).
NormalWhenTidy ==
  tidy /\ \/ pc = "step" /\ phase \in {"noCmd", "reflect", "cmd"}
          \/ pc = "done"
    => rx = "normal"

\* The lane's commands come to an end, whatever is lost and however long the receiver sets up.
TrafficEnds == <>(pc \in {"done", "failed"})
=============================================================================
