----------------------------- MODULE AlarmTrigger -----------------------------
(* The gate between an alarm and the workflow: AlarmTrigger.evaluate.          *)

\* The alarm types that start the workflow.
UpstreamFecAlarmTypes ==
  {"highUpstreamFecErrors", "highUpstreamCorrectables", "highUpstreamUncorrectables",
   "highUpstreamCorrectablesAndUncorrectables"}

\* An alarm: its type, the type of the entity it names, and the port identified, a
\* set that is empty when rpdId or portId is missing.
ShouldTrigger(alarm) ==
  /\ alarm.entity = "rpdPort"
  /\ alarm.alarmType \in UpstreamFecAlarmTypes
  /\ alarm.port # {}

Verdict(alarm) == IF ShouldTrigger(alarm) THEN "call" ELSE "noCall"

================================================================================
