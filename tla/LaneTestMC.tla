----------------------------- MODULE LaneTestMC -----------------------------
(* LaneTest on small eyes and on specs near and beyond the direction bit. *)
EXTENDS LaneTest

\* Limits of the eye on each side: small ones, and ones near the lane's capability.
MCEyes == {e \in [pos : {-1, 0, 1, 4, 57, 63}, neg : {-1, 0, 2, 3, 44, 63}] :
             (e.pos = -1) <=> (e.neg = -1)}

MCSizes == {0, 1, 3, 6, 60, 101, 127, 255}

MCSpecType == [start : {None, 0, 54}, step : {None, 0, 3}, target : {None, 2, 63, 100},
               eye : MCSizes \cup {None}]

\* Bounds the offsets of a scan.
ShortScan(s) ==
  LET r == MarginRangeOf(s, NumSteps)
  IN  r.mode = "eyeScan" => r.target - r.start <= 10

\* An eye-size check whose step cannot carry the offset below 0.
NoUnderflow(s) == EyeSizeMode(s) => StepOf(s) <= (IF s.target = None THEN 0 ELSE s.target) + 1

MCSpecs == {s \in MCSpecType : ShortScan(s) /\ NoUnderflow(s)}

UnderflowSpecs == {s \in MCSpecType : EyeSizeMode(s) /\ ~NoUnderflow(s) /\ s.eye < 10}
=============================================================================
