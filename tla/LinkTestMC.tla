----------------------------- MODULE LinkTestMC -----------------------------
(* LinkTest on one link with two receivers, three lanes in parallel, and two links; and on a
   single link, for the runs that show a disagreement. *)
EXTENDS LinkTest

S(r, a, ns) == [rec |-> r, aspect |-> a, lanes |-> ns]

\* Two receivers of a link, the first with both aspects; specs to ignore come along.
TwoReceivers ==
  <<S(0, "timing", {}), S(1, "timing", {0}), S(1, "voltage", {0, 1}), S(2, "timing", {}),
    S(6, "timing", {0, 1})>>

\* The lanes of one receiver, enough for one to be woken up while another is started.
ThreeLanes == <<S(6, "timing", {})>>

\* The same receiver of each link.
OneLane == <<S(1, "voltage", {0})>>

\* A spec without an aspect comes after a valid one.
NoAspect == <<S(1, "timing", {1}), S(1, "unknown", {}), S(6, "timing", {2})>>

Found(d, u) == [p \in Ports |-> IF p = "dsp" THEN d ELSE u]
WidthOnly == [hawd |-> TRUE, hasd |-> FALSE, aspm |-> FALSE]
SpeedOnly == [hawd |-> FALSE, hasd |-> TRUE, aspm |-> TRUE]

Setup(specs, links, found) == [specs |-> specs, ready |-> links, found |-> found]

MCSetups ==
  {Setup(TwoReceivers, {1}, Found(WidthOnly, SpeedOnly)),
   Setup(ThreeLanes, {2}, Found(SpeedOnly, SpeedOnly)),
   Setup(OneLane, {1, 2}, Found(SpeedOnly, WidthOnly)),
   Setup(NoAspect, {2}, Found(WidthOnly, WidthOnly)),
   Setup(ThreeLanes, {}, Found(WidthOnly, SpeedOnly))}

SingleSetup == {Setup(ThreeLanes, {1}, Found(WidthOnly, SpeedOnly))}
=============================================================================
