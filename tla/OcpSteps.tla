------------------------------ MODULE OcpSteps ------------------------------
(***************************************************************************)
(* What a reader of the artifact stream may rely on for test steps that    *)
(* measure series: a step's start comes first; a series starts before its  *)
(* elements, which are numbered from 0 without a gap, and ends with their  *)
(* count; a step has one diagnosis, and ends after its series.             *)
(***************************************************************************)
EXTENDS Integers, Sequences, FiniteSets

CONSTANTS
  Steps,        \* the test steps of the run
  Series        \* the series a step may have

VARIABLE log    \* the artifacts of each step so far

StepStart == [art |-> "stepStart"]
StepEnd == [art |-> "stepEnd"]
Diagnosis(type) == [art |-> "diagnosis", type |-> type]
SeriesStart(s) == [art |-> "seriesStart", series |-> s]
Element(s, i) == [art |-> "element", series |-> s, index |-> i]
SeriesEnd(s, n) == [art |-> "seriesEnd", series |-> s, total |-> n]

Arts(t, kind) == {k \in DOMAIN log[t] : log[t][k].art = kind}
ArtsOf(t, kind, s) == {k \in Arts(t, kind) : log[t][k].series = s}

Running(t) == log[t] # <<>> /\ Arts(t, "stepEnd") = {}
Open(t, s) == Running(t) /\ ArtsOf(t, "seriesStart", s) # {} /\ ArtsOf(t, "seriesEnd", s) = {}
Measured(t, s) == Cardinality(ArtsOf(t, "element", s))

Write(t, artifact) == log' = [log EXCEPT ![t] = Append(@, artifact)]

Init == log = [t \in Steps |-> <<>>]

Start(t) == log[t] = <<>> /\ Write(t, StepStart)

StartSeries(t, s) ==
  Running(t) /\ ArtsOf(t, "seriesStart", s) = {} /\ Write(t, SeriesStart(s))

Measure(t, s) == Open(t, s) /\ Write(t, Element(s, Measured(t, s)))

EndSeries(t, s) == Open(t, s) /\ Write(t, SeriesEnd(s, Measured(t, s)))

Diagnose(t) ==
  /\ Running(t) /\ Arts(t, "diagnosis") = {}
  /\ \E type \in {"PASS", "FAIL"} : Write(t, Diagnosis(type))

End(t) ==
  /\ Running(t) /\ Arts(t, "diagnosis") # {} /\ \A s \in Series : ~Open(t, s)
  /\ Write(t, StepEnd)

Next ==
  \E t \in Steps :
    \/ Start(t) \/ Diagnose(t) \/ End(t)
    \/ \E s \in Series : StartSeries(t, s) \/ Measure(t, s) \/ EndSeries(t, s)

Spec == Init /\ [][Next]_log
=============================================================================
