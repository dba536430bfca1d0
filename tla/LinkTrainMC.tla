----------------------------- MODULE LinkTrainMC -----------------------------
(* LinkTrain on one link, with every method, and on two links, apart or one below the other. *)
EXTENDS LinkTrain

\* A status register with a bit that should be 1 and one that should be 0, and a register of
\* the configuration, which a reset clears.
MCAddrs == {"status", "config"}
MCComes == [a \in MCAddrs |-> IF a = "status" THEN {{1}, {2}} ELSE {{}}]
FoundUp == [a \in MCAddrs |-> IF a = "status" THEN {1} ELSE {1, 2}]

Field(kind, addr, mask, expected) ==
  [kind |-> kind, addr |-> addr, sized |-> TRUE, mask |-> mask, expected |-> expected]
Unsized(f) == [f EXCEPT !.sized = FALSE]

CheckUp == Field("S_CHECK", "status", {1}, {{1}})
CheckGood == Field("S_CHECK", "status", {2}, {{}})
LogBoth == Field("S_LOG", "status", {1, 2}, {})
Recover(mask) == Field("S_RECOVER", "config", mask, {})

\* Fields of one register in turn, with a size that is not read among them.
AllFields ==
  <<CheckUp, Recover({1}), LogBoth, CheckGood, Recover({2}), Unsized(Recover({1})), Unsized(CheckGood)>>

NoExpected == <<CheckUp, Field("S_CHECK", "status", {2}, {}), LogBoth>>

FewFields == <<CheckGood, LogBoth, Recover({1, 2})>>

Setup(links, fields, iterations, continue, method, parallel, below) ==
  [links |-> links, fields |-> fields, iterations |-> iterations, continue |-> continue,
   method |-> method, parallel |-> parallel, below |-> below,
   found |-> [l \in Links |-> FoundUp]]

Apart == [l \in Links |-> {}]
SecondBelow == [l \in Links |-> IF l = 1 THEN {2} ELSE {}]
FirstBelow == [l \in Links |-> IF l = 2 THEN {1} ELSE {}]

MCSetups ==
  {Setup(1, AllFields, 2, c, m, FALSE, Apart) : c \in BOOLEAN, m \in Methods}
    \cup {Setup(1, AllFields, 0, TRUE, "M_SBR", FALSE, Apart),
          Setup(1, NoExpected, 1, TRUE, "M_SBR", TRUE, Apart),
          Setup(2, FewFields, 1, TRUE, "M_RETRAIN_DEFAULT", TRUE, Apart)}
    \cup {Setup(2, FewFields, 2, TRUE, "M_SBR", FALSE, b) : b \in {Apart, SecondBelow, FirstBelow}}
    \cup {Setup(2, FewFields, 1, TRUE, "M_REENABLE", TRUE, b) : b \in {Apart, SecondBelow}}
=============================================================================
