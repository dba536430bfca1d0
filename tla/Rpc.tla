-------------------------------- MODULE Rpc --------------------------------
(***************************************************************************)
(* What lmrCmdRsp promises its callers: calls one at a time, each of which *)
(* ends with the receiver's response to that very command, or an error.    *)
(***************************************************************************)
EXTENDS Naturals

None == 0

VARIABLES
  serial,       \* calls made so far; the serial number of the last one
  busy,         \* a call is under way
  answered      \* the call whose response the last one returned, None for an error

vars == <<serial, busy, answered>>

Init == serial = 0 /\ busy = FALSE /\ answered = None

Call == ~busy /\ busy' = TRUE /\ serial' = serial + 1 /\ answered' = None

Return == busy /\ busy' = FALSE /\ answered' = serial /\ UNCHANGED serial

Fail == busy /\ busy' = FALSE /\ answered' = None /\ UNCHANGED serial

Next == Call \/ Return \/ Fail

\* A call always ends; the caller may stop calling.
Spec == Init /\ [][Next]_vars /\ WF_vars(Return \/ Fail)
============================================================================
