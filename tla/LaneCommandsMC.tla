--------------------------- MODULE LaneCommandsMC ---------------------------
(* LaneCommands with a few reports, points and lost commands. *)
EXTENDS LaneCommands
=============================================================================
