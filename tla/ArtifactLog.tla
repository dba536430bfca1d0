----------------------------- MODULE ArtifactLog -----------------------------
(***************************************************************************)
(* What the artifact stream promises of the artifacts that get through:    *)
(* each writer's come in its order, with a sequence number of their own,   *)
(* until the stream is closed.  Between writers it promises no order.      *)
(***************************************************************************)
EXTENDS Integers, Sequences

CONSTANT Writers

VARIABLES
  log,          \* the artifacts: by whom, which one of its artifacts, its sequence number
  closed

Artifact == [by : Writers, nth : Nat \ {0}, num : Nat \ {0}]

Init == log = <<>> /\ closed = FALSE

\* An artifact comes after another: with a number of its own, and, if it is by the same writer,
\* later in that writer's order and numbers.
Follows(a, b) == a.num # b.num /\ (a.by = b.by => a.nth > b.nth /\ a.num > b.num)

\* The log grows by an artifact that may come after all the others.
Put ==
  /\ ~closed /\ Len(log') > Len(log)
  /\ LET new == log'[Len(log) + 1]
     IN  /\ log' = Append(log, new) /\ new \in Artifact
         /\ \A i \in DOMAIN log : Follows(new, log[i])
  /\ UNCHANGED closed

Close == ~closed /\ closed' = TRUE /\ UNCHANGED log

Next == Put \/ Close

Spec == Init /\ [][Next]_<<log, closed>>
=============================================================================
