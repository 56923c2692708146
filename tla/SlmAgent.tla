-------------------------------- MODULE SlmAgent --------------------------------
(******************************************************************************)
(* The SLM agent: McpToolset and LangGraphAgent, around a language model that   *)
(* may do anything its tool schemas allow. One agent object serves a sequence   *)
(* of runs; its toolset keeps the bound port, the last localization and the     *)
(* trace from one run to the next. Within a run, turns of the model alternate   *)
(* with turns of the tools, and the calls of one turn run in threads, so a      *)
(* toolset method is split where it touches what the threads share.             *)
(*                                                                              *)
(* The agent framework is external: it runs the threads, and an exception of a  *)
(* tool either leaves graph.invoke() or is told to the model.                   *)
(******************************************************************************)
EXTENDS McpServer, AlarmTrigger

CONSTANTS Alarms,        \* the alarms that may arrive
          HomePort,      \* Scenario.portId, bound until an alarm names another
          AmpIdLists,    \* the explicit amp ids the model may ask for, as sets
          MaxTurns,      \* recursion_limit, in turns of the tools
          MaxBatch,      \* bound: calls of one turn
          MaxRefs,       \* bound: handles in a list argument
          MaxCalls,      \* bound: calls in a behaviour
          MaxRuns        \* bound: runs in a behaviour

ASSUME SlmBounds == MaxTurns \in Nat /\ MaxBatch \in Nat /\ MaxRefs \in Nat /\ MaxRuns \in Nat
ASSUME HomePortIsPort == HomePort \in Ports
ASSUME SlmAlarmsNamePorts == \A alarm \in Alarms : alarm.port \subseteq Ports
ASSUME AmpIdListsAreFinite == \A ids \in AmpIdLists : ids \subseteq Nat /\ IsFiniteSet(ids)

VARIABLES pc,        \* "idle", "think" (the model's turn) or "act" (the tools')
          pending,   \* calls of this turn that no thread has taken up yet
          at, jobs,  \* per thread under way: where it is, and what it holds
          raising,   \* did a call of this turn raise?
          turns,     \* turns of the tools in this run
          bound,     \* the toolset's rpd_id/port_id
          last,      \* the toolset's last_localization, empty before the first
          trace, trigger, audit, returned,   \* as in the orchestrator, the trace shared
          asked, runs                        \* counters for the bounds

callVars == <<pending, at, jobs, raising>>
outVars == <<audit, returned>>
agentVars == <<pc, callVars, turns, bound, last, trace, trigger, outVars, asked, runs>>
vars == <<serverVars, agentVars>>

Init ==
  /\ ServerInit
  /\ pc = "idle"
  /\ pending = 0 /\ at = <<>> /\ jobs = <<>> /\ raising = FALSE
  /\ turns = 0
  /\ bound = HomePort
  /\ last = {}
  /\ trace = [calls |-> <<>>, status |-> "", label |-> "positive"]
  /\ trigger = {}
  /\ audit = <<>> /\ returned = <<>>
  /\ asked = 0 /\ runs = 0

--------------------------------------------------------------------------------
(* What the model may ask for: any tool, any handle of the store or the next of a *)
(* kind, made up. Ports are not its to choose. Handles are numbered, so a call can  *)
(* also name what another call of its turn is about to make: what a thread asks is  *)
(* therefore chosen when the thread runs.                                           *)

Given == UNION {{k} \X DOMAIN store[k] : k \in Kinds}
Handles == Given \cup {NextHandle("classset")}
Lists == UNION {[1 .. n -> Handles] : n \in 0 .. MaxRefs}

Call(tool, arg) == [tool |-> tool, arg |-> arg]
Calls ==
  {Call(tool, {}) : tool \in {"rpd", "amps", "analyzeNothing", "measureAmbiguous"}}
    \cup {Call(tool, h) : tool \in {"analyzeSet", "measure"}, h \in Handles}
    \cup {Call(tool, refs) : tool \in {"analyze", "localize"}, refs \in Lists}
    \cup {Call("measureById", ids) : ids \in AmpIdLists}

\* The toolset method behind each tool, up to the server's answer. The impairment type
\* is one the model read in an answer, or any of the labels.
Invoke(call) ==
  CASE call.tool = "rpd" -> GetRPDSpectrumMeasurements(bound)
    [] call.tool = "amps" -> GetAllAmpsInSegment(bound)
    [] call.tool = "analyze" -> AnalyzeMeasurements(call.arg)
    [] call.tool = "analyzeSet" -> AnalyzeMeasurementSet(call.arg)
    [] call.tool = "analyzeNothing" -> AnalyzeNothing
    [] call.tool = "measure" -> GetAmpUpstreamSpectrumMeasurements(call.arg)
    [] call.tool = "measureById" -> GetAmpMeasurementsById(call.arg)
    [] call.tool = "measureAmbiguous" -> MeasureAmbiguous
    [] call.tool = "localize" ->
         \E type \in Classes \ {"Clean"} :
           LocalizeUpstreamSpectrumImpairmentSource(bound, type, call.arg)

--------------------------------------------------------------------------------
(* The threads of a turn. They differ in nothing, so they are numbered in the   *)
(* order in which they start, and one that has finished is gone.                *)

Stages == {"remember", "number", "append"}
Move(t, stage) == at' = [at EXCEPT ![t] = stage]
Leave(t) == at' = RemoveAt(at, t) /\ jobs' = RemoveAt(jobs, t)

\* A thread makes its call. An exception ends it: the call is then in no trace.
CallServer ==
  /\ pending > 0
  /\ pending' = pending - 1
  /\ \E call \in Calls :
       /\ Invoke(call)
       /\ IF reply' = Raised THEN raising' = TRUE /\ UNCHANGED <<at, jobs>>
          ELSE /\ jobs' = Append(jobs, [tool |-> call.tool, result |-> reply', step |-> 0])
               /\ at' = Append(at, IF call.tool = "localize" /\ reply'.status = "success"
                                   THEN "remember" ELSE "number")
               /\ UNCHANGED raising
  /\ UNCHANGED <<pc, turns, bound, last, trace, trigger, outVars, asked, runs>>

\* A localization that succeeds is kept on the toolset.
Remember(t) ==
  /\ at[t] = "remember"
  /\ last' = {jobs[t].result.localization}
  /\ Move(t, "number")
  /\ UNCHANGED <<serverVars, pc, pending, jobs, raising, turns, bound, trace, trigger, outVars,
                 asked, runs>>

\* ToolCallTrace.add: the step number is read off the list, then the entry appended.
Number(t) ==
  /\ at[t] = "number"
  /\ jobs' = [jobs EXCEPT ![t].step = Len(trace.calls) + 1]
  /\ Move(t, "append")
  /\ UNCHANGED <<serverVars, pc, pending, raising, turns, bound, last, trace, trigger, outVars,
                 asked, runs>>

Entry(job) == [step |-> job.step, tool |-> job.tool, port |-> bound, result |-> job.result]

AppendByNumber(t) ==   \* Seeded fault: the entry goes where its number says.
  /\ at[t] = "append"
  /\ trace' = [trace EXCEPT !.calls = Append(SubSeq(@, 1, jobs[t].step - 1), Entry(jobs[t]))]
  /\ Leave(t)
  /\ UNCHANGED <<serverVars, pc, pending, raising, turns, bound, last, trigger, outVars, asked, runs>>
AppendEntry(t) ==
  /\ at[t] = "append"
  /\ trace' = [trace EXCEPT !.calls = Append(@, Entry(jobs[t]))]
  /\ Leave(t)
  /\ UNCHANGED <<serverVars, pc, pending, raising, turns, bound, last, trigger, outVars, asked, runs>>

--------------------------------------------------------------------------------
(* The graph: the model asks, the tools answer, until the model stops. *)

AskTools ==
  /\ pc = "think"
  /\ turns < MaxTurns
  /\ \E n \in 1 .. MaxBatch :
       /\ asked + n <= MaxCalls
       /\ asked' = asked + n
       /\ pending' = n
  /\ pc' = "act"
  /\ turns' = turns + 1
  /\ UNCHANGED <<serverVars, at, jobs, raising, bound, last, trace, trigger, outVars, runs>>

JoinEarly ==   \* Seeded fault: calls still being traced are not waited for.
  /\ pc = "act"
  /\ pending = 0
  /\ pc' \in {"think"} \cup (IF raising THEN {"idle"} ELSE {})
  /\ raising' = FALSE
  /\ UNCHANGED <<serverVars, pending, at, jobs, turns, bound, last, trace, trigger, outVars, asked,
                 runs>>
JoinLeftover ==   \* Seeded fault: the exceptions of a turn are not forgotten.
  /\ pc = "act"
  /\ pending = 0 /\ at = <<>>
  /\ pc' \in {"think"} \cup (IF raising THEN {"idle"} ELSE {})
  /\ UNCHANGED <<serverVars, callVars, turns, bound, last, trace, trigger, outVars, asked, runs>>

\* The tools' turn is over; an exception among them may end the run.
JoinTools ==
  /\ pc = "act"
  /\ pending = 0 /\ at = <<>>
  /\ pc' \in {"think"} \cup (IF raising THEN {"idle"} ELSE {})
  /\ raising' = FALSE
  /\ UNCHANGED <<serverVars, pending, at, jobs, turns, bound, last, trace, trigger, outVars, asked,
                 runs>>

\* graph.invoke() raises: the endpoint fails, or the model never stops asking.
GraphFails ==
  /\ pc = "think"
  /\ pc' = "idle"
  /\ UNCHANGED <<serverVars, callVars, turns, bound, last, trace, trigger, outVars, asked, runs>>

--------------------------------------------------------------------------------
(* The beginning and the end of a run. *)

\* Write the record, which may raise, and return.
Finish(status, localization, handoff, tr, trig) ==
  /\ trace' = tr
  /\ \/ /\ audit' = Append(audit, [trace |-> tr, trigger |-> trig])
        /\ returned' = Append(returned, [status |-> status, localization |-> localization,
                                         handoff |-> handoff])
     \/ UNCHANGED outVars

Begin ==
  /\ pc = "idle"
  /\ runs < MaxRuns
  /\ runs' = runs + 1
  /\ pc' = "think"
  /\ turns' = 0
  /\ UNCHANGED <<serverVars, callVars, last, trace, outVars, asked>>

\* run(): nothing of an earlier run is reset, and the port stays the one last bound.
Run == Begin /\ UNCHANGED <<bound, trigger>>

RunFromAlarm(alarm) ==
  /\ ShouldTrigger(alarm)
  /\ Begin
  /\ bound' \in alarm.port
  /\ trigger' = {Verdict(alarm)}

RejectAlarm(alarm) ==
  /\ pc = "idle"
  /\ runs < MaxRuns
  /\ runs' = runs + 1
  /\ ~ShouldTrigger(alarm)
  /\ trigger' = {Verdict(alarm)}
  /\ Finish("not_triggered", {}, FALSE, [trace EXCEPT !.status = "not_triggered"], trigger')
  /\ UNCHANGED <<serverVars, pc, callVars, turns, bound, last, asked>>

LastStatus == IF last = {} THEN "escalated" ELSE (CHOOSE l \in last : TRUE).status

ConcludeUnescalated ==   \* Seeded fault: a localization, however unsure, needs no human.
  /\ pc = "think"
  /\ pc' = "idle"
  /\ Finish(LastStatus, last, last = {}, [trace EXCEPT !.status = LastStatus], trigger)
  /\ UNCHANGED <<serverVars, callVars, turns, bound, last, trigger, asked, runs>>

\* The model answers without asking for tools: the run ends with the localization that
\* the toolset holds.
Conclude ==
  /\ pc = "think"
  /\ pc' = "idle"
  /\ Finish(LastStatus, last, LastStatus # "localized",
            [trace EXCEPT !.status = LastStatus,
                          !.label = IF LastStatus # "localized" THEN "negative" ELSE @], trigger)
  /\ UNCHANGED <<serverVars, callVars, turns, bound, last, trigger, asked, runs>>

ThreadStep == CallServer \/ \E t \in DOMAIN at : Remember(t) \/ Number(t) \/ AppendEntry(t)

Stopped == pc = "idle" /\ runs = MaxRuns /\ UNCHANGED vars

Next == \/ Run
        \/ \E alarm \in Alarms : RunFromAlarm(alarm) \/ RejectAlarm(alarm)
        \/ AskTools \/ ThreadStep \/ JoinTools \/ GraphFails \/ Conclude
        \/ Stopped

Spec == Init /\ [][Next]_vars

--------------------------------------------------------------------------------
(* Properties. *)

\* The control state hangs together: threads exist during the tools' turn only, nothing
\* is recorded twice, and what the toolset remembers is one finished localization.
TypeOK ==
  /\ pc \in {"idle", "think", "act"}
  /\ at \in UNION {[1 .. n -> Stages] : n \in 0 .. MaxBatch}
  /\ DOMAIN jobs = DOMAIN at
  /\ pending + Len(at) <= MaxBatch
  /\ pc # "act" => pending = 0 /\ at = <<>> /\ ~raising
  /\ turns \in 0 .. MaxTurns
  /\ bound \in Ports
  /\ \A l \in last : l.status \in {"localized", "low_confidence"}
  /\ trigger \in {{}, {"call"}, {"noCall"}}
  /\ Len(audit) = Len(returned) /\ Len(returned) <= runs

Answered(tool) == {trace.calls[i].result : i \in {j \in DOMAIN trace.calls :
                     trace.calls[j].tool \in tool /\ trace.calls[j].result.status \in {"success", "partial_success"}}}

\* Whatever the model asks for, in parallel or not, and however earlier runs ended: when no
\* tool is running, the handles in the trace are exactly the captures, amp lists, sets and
\* classifications there are. No evidence exists that an auditor cannot see being made.
AuditShowsEveryHandle ==
  pc # "act" =>
    {r.ref : r \in Answered({"rpd", "amps", "analyze", "analyzeSet", "measure", "measureById"})}
      = {h \in Given : \/ h[1] \in {"amplist", "measset", "classset"}
                       \/ h[1] = "meas" /\ Get(h).device = RpdRef}

\* However the model picks its handles, a result is only ever "localized" when every amp
\* of the segment it was computed for has been captured, the supporting devices have been
\* captured impaired, and the computation is in the trace.
EvidenceWasMeasured ==
  \A i \in DOMAIN returned : returned[i].status = "localized" =>
    \E j \in DOMAIN audit[i].trace.calls :
      LET call == audit[i].trace.calls[j]
          captures == {store["meas"][k] : k \in DOMAIN store["meas"]}
      IN  /\ call.tool = "localize" /\ call.result.status = "success"
          /\ returned[i].localization = {call.result.localization}
          /\ AmpIds(Segment(call.port)) \subseteq {c.device : c \in captures}
          /\ \A candidate \in call.result.localization.candidates :
               candidate.supporting \subseteq {c.device : c \in {d \in captures : d.class # "Clean"}}

Outcome(status) == IF status \in {"localized", "not_triggered"} THEN status ELSE "unresolved"

\* The agent keeps the contract both agents have: every returned result has its record,
\* they agree, and a human gets exactly the unresolved runs.
Contract == INSTANCE DiagnosisContract WITH
  phase <- IF pc = "idle" THEN "idle" ELSE "running",
  log <- [i \in DOMAIN audit |-> Outcome(audit[i].trace.status)],
  results <- [i \in DOMAIN returned |-> [outcome |-> Outcome(returned[i].status),
                                         handoff |-> returned[i].handoff]]
KeepsContract == Contract!Spec

\* The step numbers in a trace are assigned before the entries are appended, so parallel
\* calls can share one: an entry's number never passes its place and lags it by less
\* than the number of calls of a turn, whatever earlier turns and runs did.
StepNumbersStayClose ==
  \A i \in DOMAIN trace.calls : i - MaxBatch < trace.calls[i].step /\ trace.calls[i].step <= i

\* grader.py: "the SLM emits ``escalated`` when it stops without a confident localization".
\* A run that ends without a localize call of its own that succeeded is then never
\* reported as localized.
StoppingShortEscalates ==
  \A i \in DOMAIN returned : returned[i].status = "localized" =>
    \E j \in (IF i = 1 THEN 1 ELSE Len(audit[i - 1].trace.calls) + 1) .. Len(audit[i].trace.calls) :
      LET call == audit[i].trace.calls[j]
      IN  call.tool = "localize" /\ call.result.status = "success"

================================================================================
