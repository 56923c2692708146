----------------------------- MODULE MCOrchestrator -----------------------------
(* Small plants, scenarios and alarms for the orchestrator's runs, and the cases   *)
(* of the evaluation harness.                                                     *)
EXTENDS EvalHarness

\* Amp lists serve every port; the plant document only knows port "P1".
AmpList(parent) == [p \in Ports |-> [parent |-> parent, kind |-> [a \in DOMAIN parent |-> "AMP"]]]
ChainOfTwo == AmpList(<<None, 1>>)
FlatPair   == AmpList(<<None, None>>)
NoAmps     == AmpList(<<>>)
SplitterPlant ==   \* RPD 4 - splitter 3 - amps 1 and 2
  [p \in {"P1"} |-> [parent |-> <<3, 3, 4, None>>, kind |-> <<"AMP", "AMP", "PASSIVE", "RPD">>]]

\* The classes of captures are any.
Scenario(segments, labelled, faults, failed) ==
  [segments |-> segments, looks |-> [d \in labelled \cup {RpdRef} |-> Classes],
   faults |-> faults, failedAmps |-> failed]

FaultSets == {{}, {"rpd_unreachable"}, {"rpd_stale_only"}, {"rpd_measurement_unavailable_once"},
              {"topology_unavailable"}, {"analyze_fails"},
              {"rpd_measurement_unavailable_once", "rpd_stale_only"}}

\* Every fault set with every set of failing amps; the plant document may hold an amp
\* that the scenario does not label, while an amp list is the scenario's own.
SmallScenarios ==
  {Scenario(s, {1, 2}, f, a) :
     s \in {ChainOfTwo, FlatPair, SplitterPlant}, f \in FaultSets, a \in SUBSET {1, 2}}
    \cup {Scenario(SplitterPlant, {1}, f, {}) : f \in FaultSets}
    \cup {Scenario(NoAmps, {}, {}, {})}
SmallScenariosAndCases == SmallScenarios \cup {c.scenario : c \in Cases}

Alarm(entity, type, ports) == [entity |-> entity, alarmType |-> type, port |-> ports]

SmallAlarms ==
  {Alarm("rpdPort", "highUpstreamFecErrors", {"P1"}),
   Alarm("rpdPort", "highUpstreamFecErrors", {"P2"}),
   Alarm("rpdPort", "highUpstreamFecErrors", {}),
   Alarm("rpdPort", "highDownstreamSnr", {"P1"}),
   Alarm("cableModem", "highUpstreamFecErrors", {})}

================================================================================
