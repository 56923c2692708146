----------------------------- MODULE Orchestrator -----------------------------
(******************************************************************************)
(* The deterministic orchestrator: one object, used for a sequence of runs     *)
(* against one server. A run is started by run() or by run_from_alarm(), makes  *)
(* the six tool calls in order, and leaves through one of its exits, where it   *)
(* writes its audit record and returns a result. Each step is one action: the   *)
(* call, its trace entry, and what the code does with the reply.                *)
(*                                                                              *)
(* "audit" is what the trace store holds, "returned" the results callers got.   *)
(* Writing the record may raise (a full disk, an unreadable log): the exception *)
(* leaves run(), so there is then neither a record nor a result.                *)
(******************************************************************************)
EXTENDS McpServer, AlarmTrigger

CONSTANTS Alarms,        \* the alarms that may arrive
          MaxRemeasure,  \* max_remeasure: extra attempts of step 1
          MaxRuns        \* bound: runs started in a behaviour

\* A port that an alarm identifies is a port, and there is one to start from.
ASSUME AlarmsNamePorts == Ports # {} /\ \A alarm \in Alarms : alarm.port \subseteq Ports
ASSUME MaxRemeasureNat == MaxRemeasure \in Nat
ASSUME MaxRunsNat == MaxRuns \in Nat

VARIABLES pc,        \* the step the current run is at, or "idle"
          port,      \* rpd_id/port_id of the current run
          attempt,   \* the loop counter of step 1
          held,      \* rpd_class_ref and impairment_type, kept from step 2 to step 6
          trace,     \* the current run's ToolCallTrace
          trigger,   \* _trigger: the verdict of the last alarm, empty before any
          audit, returned, runs

runVars == <<pc, port, attempt, held, trace, trigger, audit, returned, runs>>
vars == <<serverVars, runVars>>

Steps == {"rpd", "classifyRpd", "amps", "measure", "classifyAmps", "localize"}
NewTrace == [calls |-> <<>>, status |-> "", label |-> "positive"]

Init ==
  /\ ServerInit
  /\ pc = "idle"
  /\ port = CHOOSE p \in Ports : TRUE
  /\ attempt = 0
  /\ held = <<>>
  /\ trace = NewTrace
  /\ trigger = {}
  /\ audit = <<>>
  /\ returned = <<>>
  /\ runs = 0

--------------------------------------------------------------------------------
\* The trace entry of a call that has just returned.
WithCall(step) ==
  [trace EXCEPT !.calls = Append(@, [step |-> step, port |-> port, result |-> reply'])]

\* _record: one audit record for the trace, with the trigger the object holds.
AuditRecord(tr, trig) == [trace |-> tr, trigger |-> trig]

\* Seeded fault: the record is written before the trace is complete.
FinishEarly(status, tr, trig, handoff) ==
  /\ \/ /\ audit' = Append(audit, AuditRecord(trace, trig))
        /\ returned' = Append(returned, [status |-> status, trace |-> tr, handoff |-> handoff])
     \/ UNCHANGED <<audit, returned>>
  /\ trace' = tr
  /\ pc' = "idle"

\* The end of a run: write the record and return, or let the write's exception out.
Finish(status, tr, trig, handoff) ==
  /\ \/ /\ audit' = Append(audit, AuditRecord(tr, trig))
        /\ returned' = Append(returned, [status |-> status, trace |-> tr, handoff |-> handoff])
     \/ UNCHANGED <<audit, returned>>
  /\ trace' = tr
  /\ pc' = "idle"

\* _escalate: every exit of a started run other than "localized".
Escalate(status, tr) ==
  Finish(status, [tr EXCEPT !.status = IF status # "failed" THEN "escalated" ELSE "failed",
                            !.label = "negative"], trigger, TRUE)

\* A step that keeps the run going.
GoTo(step, tr) ==
  /\ pc' = step
  /\ trace' = tr
  /\ UNCHANGED <<audit, returned>>

--------------------------------------------------------------------------------
BeginUnreset(p) ==   \* Seeded fault: the loop counter of step 1 is not reset.
  /\ runs < MaxRuns
  /\ runs' = runs + 1
  /\ pc = "idle"
  /\ pc' = "rpd"
  /\ port' = p
  /\ held' = <<>>
  /\ trace' = NewTrace
  /\ UNCHANGED <<attempt, serverVars, audit, returned>>

Begin(p) ==
  /\ runs < MaxRuns
  /\ runs' = runs + 1
  /\ pc = "idle"
  /\ pc' = "rpd"
  /\ port' = p
  /\ attempt' = 0
  /\ held' = <<>>
  /\ trace' = NewTrace
  /\ UNCHANGED <<serverVars, audit, returned>>

\* run(): the caller names the port itself.
Run(p) == Begin(p) /\ UNCHANGED trigger

\* run_from_alarm() on a positive alarm: note the verdict, then run().
RunFromAlarm(alarm) ==
  /\ ShouldTrigger(alarm)
  /\ \E p \in alarm.port : Begin(p)
  /\ trigger' = {Verdict(alarm)}

\* run_from_alarm() on a negative alarm: record "not_triggered" and return.
RejectAlarm(alarm) ==
  /\ pc = "idle"
  /\ runs < MaxRuns
  /\ runs' = runs + 1
  /\ ~ShouldTrigger(alarm)
  /\ trigger' = {Verdict(alarm)}
  /\ Finish("not_triggered", [NewTrace EXCEPT !.status = "not_triggered"],
            {Verdict(alarm)}, FALSE)
  /\ UNCHANGED <<serverVars, port, attempt, held>>

Transient(code) == code \in {"STALE_DATA_ONLY", "MEASUREMENT_UNAVAILABLE"}

RetriesTooOften(code) == Transient(code) /\ attempt <= MaxRemeasure    \* Seeded fault.
RetriesTooRarely(code) == Transient(code) /\ attempt + 1 < MaxRemeasure  \* Seeded fault.
Retries(code) == Transient(code) /\ attempt < MaxRemeasure

\* Seeded fault: the loop counter wraps around instead of ending the loop, whose
\* repeated captures are not traced.
CaptureRpdWrapping ==
  /\ pc = "rpd"
  /\ GetRPDSpectrumMeasurements(port)
  /\ attempt' = (attempt + 1) % (MaxRemeasure + 1)
  /\ IF reply'.status = "success" THEN GoTo("classifyRpd", WithCall("rpd"))
     ELSE IF Transient(reply'.code) THEN GoTo("rpd", trace)
     ELSE Escalate("failed", WithCall("rpd"))
  /\ UNCHANGED <<port, held, trigger, runs>>

\* Step 1: capture the RPD spectrum, again on a transient error while attempts last.
CaptureRpd ==
  /\ pc = "rpd"
  /\ GetRPDSpectrumMeasurements(port)
  /\ attempt' = attempt + 1
  /\ IF reply'.status = "success" THEN GoTo("classifyRpd", WithCall("rpd"))
     ELSE IF Retries(reply'.code) THEN GoTo("rpd", WithCall("rpd"))
     ELSE Escalate("failed", WithCall("rpd"))
  /\ UNCHANGED <<port, held, trigger, runs>>

\* classesPresent is sorted, so the impairment is the least non-Clean class of the reply;
\* the RPD reply has one class at most.
ImpairmentType(classes) ==
  IF classes \ {"Clean"} = {} THEN "UnknownImpairment" ELSE CHOOSE c \in classes \ {"Clean"} : TRUE

\* Step 2: classify that capture and keep its classification for step 6.
ClassifyRpd ==
  /\ pc = "classifyRpd"
  /\ AnalyzeMeasurements(<<reply.ref>>)
  /\ IF reply'.status # "success"
     THEN Escalate("failed", WithCall("classifyRpd")) /\ UNCHANGED held
     ELSE IF reply'.impaired = 0
     THEN Escalate("low_confidence", WithCall("classifyRpd")) /\ UNCHANGED held
     ELSE /\ GoTo("amps", WithCall("classifyRpd"))
          /\ held' = <<reply'.ref, ImpairmentType(reply'.classes)>>
  /\ UNCHANGED <<port, attempt, trigger, runs>>

\* Step 3: list the amps of the segment.
ListAmps ==
  /\ pc = "amps"
  /\ GetAllAmpsInSegment(port)
  /\ IF reply'.status # "success" THEN Escalate("failed", WithCall("amps"))
     ELSE GoTo("measure", WithCall("amps"))
  /\ UNCHANGED <<port, attempt, held, trigger, runs>>

\* Step 4: capture all of them; some may fail.
MeasureSegment ==
  /\ pc = "measure"
  /\ GetAmpUpstreamSpectrumMeasurements(reply.ref)
  /\ IF reply'.status \notin {"success", "partial_success"}
     THEN Escalate("failed", WithCall("measure"))
     ELSE GoTo("classifyAmps", WithCall("measure"))
  /\ UNCHANGED <<port, attempt, held, trigger, runs>>

\* Step 5: classify the amp captures.
ClassifyAmps ==
  /\ pc = "classifyAmps"
  /\ AnalyzeMeasurementSet(reply.ref)
  /\ IF reply'.status # "success" THEN Escalate("failed", WithCall("classifyAmps"))
     ELSE GoTo("localize", WithCall("classifyAmps"))
  /\ UNCHANGED <<port, attempt, held, trigger, runs>>

\* Seeded fault: a low-confidence localization is returned like any other.
LocalizeSourceUnescalated ==
  /\ pc = "localize"
  /\ LocalizeUpstreamSpectrumImpairmentSource(port, held[2], <<held[1], reply.ref>>)
  /\ IF reply'.status # "success" THEN Escalate("failed", WithCall("localize"))
     ELSE LET status == reply'.localization.status
          IN  Finish(status, [WithCall("localize") EXCEPT !.status = status], trigger, FALSE)
  /\ UNCHANGED <<port, attempt, held, trigger, runs>>

\* Step 6: localize over the RPD and the amp classifications, and finish.
LocalizeSource ==
  /\ pc = "localize"
  /\ LocalizeUpstreamSpectrumImpairmentSource(port, held[2], <<held[1], reply.ref>>)
  /\ IF reply'.status # "success" THEN Escalate("failed", WithCall("localize"))
     ELSE IF reply'.localization.status = "low_confidence"
     THEN Escalate("low_confidence", WithCall("localize"))
     ELSE Finish("localized", [WithCall("localize") EXCEPT !.status = "localized"],
                 trigger, FALSE)
  /\ UNCHANGED <<port, attempt, held, trigger, runs>>

Step == \/ CaptureRpd \/ ClassifyRpd \/ ListAmps
        \/ MeasureSegment \/ ClassifyAmps \/ LocalizeSource

\* The bound on runs is reached: nothing but this stuttering step is left, so any other
\* state without a successor is a run that cannot go on, which TLC reports as a deadlock.
Stopped == pc = "idle" /\ runs = MaxRuns /\ UNCHANGED vars

Next == \/ \E p \in Ports : Run(p)
        \/ \E alarm \in Alarms : RunFromAlarm(alarm) \/ RejectAlarm(alarm)
        \/ Step
        \/ Stopped

Spec == Init /\ [][Next]_vars

\* run() is a sequential call: once started it goes on to its end. The fair action is
\* what any step does to the place of the run in the code; that some step can be taken
\* there is what the absence of deadlock shows.
Advance == pc # "idle" /\ pc' \in Steps \cup {"idle"} /\ attempt' \in 0 .. MaxRemeasure + 1
FairSpec == Spec /\ WF_<<pc, attempt>>(Advance)

--------------------------------------------------------------------------------
(* Properties.                                                                *)

\* The variables keep their shapes, and a run never has more records than starts.
TypeOK ==
  /\ pc \in Steps \cup {"idle"}
  /\ port \in Ports
  /\ attempt \in 0 .. MaxRemeasure + 1
  /\ held # <<>> => (held[1] \in Kinds \X Nat /\ held[2] \in Classes)
  /\ trigger \in {{}, {"call"}, {"noCall"}}
  /\ trace.status \in {"", "localized", "escalated", "failed", "not_triggered"}
  /\ runs \in 0 .. MaxRuns
  /\ Len(audit) <= runs

\* The trace of the run under way and those of the runs that returned.
Traces == {trace} \cup {returned[i].trace : i \in DOMAIN returned}

Chain == <<"rpd", "classifyRpd", "amps", "measure", "classifyAmps", "localize">>
CaptureCalls(tr) == {i \in DOMAIN tr.calls : tr.calls[i].step = "rpd"}
Failed(call) == call.result.status \in {"error", "raised"}

\* The fixed chain, whatever the server answers: captures first, at most
\* max_remeasure + 1 of them, then the five other tools in order; nothing is called
\* after a failure except a capture after a transient one.
ChainStopsAtFailure ==
  \A tr \in Traces :
    LET n == Cardinality(CaptureCalls(tr))
    IN  /\ n <= MaxRemeasure + 1
        /\ \A i \in DOMAIN tr.calls :
             tr.calls[i].step = IF i <= n THEN "rpd" ELSE Chain[i - n + 1]
        /\ \A i \in 1 .. Len(tr.calls) - 1 :
             Failed(tr.calls[i]) => /\ Transient(tr.calls[i].result.code)
                                    /\ tr.calls[i + 1].step = "rpd"

\* Nothing the orchestrator sends is refused or makes a tool raise: every handle is
\* live and of the right kind, and localization, once reached, always answers (so
\* the error exit after step 6 is never taken).
RequestsAreAccepted ==
  \A tr \in Traces : \A i \in DOMAIN tr.calls :
    LET call == tr.calls[i]
    IN  Failed(call) =>
          /\ call.step # "localize"
          /\ call.result.status # "raised"
          /\ call.result.code \notin {"INVALID_MEASUREMENT_REF", "INVALID_AMP_LIST_REF"}

\* The readings a returned run took, found through the handles in its own trace.
ReplyOf(tr, step) ==
  LET calls == {i \in DOMAIN tr.calls : tr.calls[i].step = step}
  IN  tr.calls[Max(calls)].result
RpdReading(tr) == Get(ReplyOf(tr, "rpd").ref).class
AmpReadings(tr) == LET items == Get(ReplyOf(tr, "measure").ref)
                   IN  {items[i] : i \in DOMAIN items}

\* "localized" rests on the run's own evidence and on all of it, across the handles
\* of earlier runs, partial captures and two classification sets: this run read every
\* amp of the port's segment, the impaired ones show the class this run read at the
\* RPD, that class is the one reported, and they are the supporting devices.
LocalizedRestsOnOwnReadings ==
  \A i \in DOMAIN returned :
    LET tr == returned[i].trace
        impaired == {r \in AmpReadings(tr) : r.class # "Clean"}
        answer == ReplyOf(tr, "localize")
    IN  returned[i].status = "localized" =>
          /\ {r.device : r \in AmpReadings(tr)} = AmpIds(Segment(tr.calls[1].port))
          /\ {r.class : r \in impaired} = {RpdReading(tr)}
          /\ answer.type = RpdReading(tr)
          /\ \A c \in answer.localization.candidates :
               c.supporting = {r.device : r \in impaired}

\* The re-measure does its work: a capture that is unavailable once, and no other
\* RPD fault, never fails a run that may measure again.
TransientFaultIsAbsorbed ==
  "rpd_measurement_unavailable_once" \in scn.faults /\ MaxRemeasure > 0
    /\ scn.faults \cap {"rpd_unreachable", "rpd_stale_only"} = {} =>
    \A i \in DOMAIN returned :
      returned[i].status = "failed" => Last(returned[i].trace.calls).step # "rpd"

\* What was returned is what was audited, one record per result: the same calls, a
\* final status that tells localized, failed and untriggered runs apart, and a label
\* "negative" on exactly the runs a human is handed.
ResultsAreAudited ==
  /\ Len(audit) = Len(returned)
  /\ \A i \in DOMAIN returned :
       /\ audit[i].trace = returned[i].trace
       /\ \A s \in {"localized", "failed", "not_triggered"} :
            returned[i].status = s <=> audit[i].trace.status = s
       /\ returned[i].handoff <=> audit[i].trace.label = "negative"

Outcome(status) == IF status \in {"localized", "not_triggered"} THEN status ELSE "unresolved"

\* The orchestrator keeps the contract both agents have: results and records come in pairs
\* and are never taken back, each pair agrees on the outcome, a human is handed exactly the
\* runs that were triggered and did not localize, and only a run under way may vanish.
Contract == INSTANCE DiagnosisContract WITH
  phase <- IF pc = "idle" THEN "idle" ELSE "running",
  log <- [i \in DOMAIN audit |-> Outcome(audit[i].trace.status)],
  results <- [i \in DOMAIN returned |-> [outcome |-> Outcome(returned[i].status),
                                         handoff |-> returned[i].handoff]]
KeepsContract == Contract!Spec

\* Every run that starts comes to an end: no reply sequence makes step 1 loop.
RunsEnd == pc # "idle" ~> pc = "idle"

================================================================================
