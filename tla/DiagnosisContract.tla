--------------------------- MODULE DiagnosisContract ---------------------------
(******************************************************************************)
(* What either agent promises its callers and the auditors, whoever makes the  *)
(* decisions inside a run: results and records come in pairs and are never     *)
(* taken back, each pair agrees on the outcome, a human is handed exactly the  *)
(* triggered runs that did not localize, and a run that leaves with an         *)
(* exception leaves neither a result nor a record.                             *)
(******************************************************************************)
EXTENDS Sequences

VARIABLES phase,     \* "idle" or "running": is a run under way?
          log,       \* the outcomes recorded for audit
          results    \* what the callers got

contractVars == <<phase, log, results>>

Init == phase = "idle" /\ log = <<>> /\ results = <<>>

Report(outcome) ==
  /\ log' = Append(log, outcome)
  /\ results' = Append(results, [outcome |-> outcome, handoff |-> outcome = "unresolved"])

Start == phase = "idle" /\ phase' = "running" /\ UNCHANGED <<log, results>>

Conclude ==
  /\ phase = "running"
  /\ phase' = "idle"
  /\ \E outcome \in {"localized", "unresolved"} : Report(outcome)

Fail == phase = "running" /\ phase' = "idle" /\ UNCHANGED <<log, results>>

TurnAway == phase = "idle" /\ Report("not_triggered") /\ UNCHANGED phase

Next == Start \/ Conclude \/ Fail \/ TurnAway

Spec == Init /\ [][Next]_contractVars

================================================================================
