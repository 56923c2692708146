--------------------------- MODULE OrchestratorProofs ---------------------------
(* Proofs about the orchestrator, for every set of scenarios and alarms and every  *)
(* number of runs and attempts, and about the harness that composes it with the    *)
(* server and the cases of the corpus. The server is the one of McpServer, with     *)
(* whatever earlier runs left in it; the harness's theorems are in the second half. *)
EXTENDS EvalHarness, McpServerProofs

Busy == pc # "idle"

\* The places of the code that come after a step's call.
AfterRpd         == pc \in {"classifyRpd", "amps", "measure", "classifyAmps", "localize"}
AfterClassifyRpd == pc \in {"amps", "measure", "classifyAmps", "localize"}
AfterAmps        == pc \in {"measure", "classifyAmps", "localize"}
AfterMeasure     == pc \in {"classifyAmps", "localize"}

\* The calls that a run at this place has made since its last capture.
CallsSince(step) ==
  IF step \in {"rpd", "classifyRpd"} THEN 0
  ELSE IF step = "amps" THEN 1 ELSE IF step = "measure" THEN 2
  ELSE IF step = "classifyAmps" THEN 3 ELSE 4

IsTrace(tr) == tr = [calls |-> tr.calls, status |-> tr.status, label |-> tr.label]

\* The control state: the results and records are sequences, a run under way is one that
\* has neither yet.
Control ==
  /\ pc \in Steps \cup {"idle"}
  /\ port \in Ports
  /\ attempt \in 0 .. MaxRemeasure + 1
  /\ pc = "rpd" => attempt <= MaxRemeasure
  /\ trigger \in {{}, {"call"}, {"noCall"}}
  /\ runs \in 0 .. MaxRuns
  /\ IsSeq(audit) /\ IsSeq(returned)
  /\ Len(audit) + (IF Busy THEN 1 ELSE 0) <= runs
  /\ IsTrace(trace)
  /\ trace.status \in {"", "localized", "escalated", "failed", "not_triggered"}
  /\ Busy => trace.label = "positive"
  /\ held # <<>> => (held[1] \in Kinds \X Nat /\ held[2] \in Classes)

\* n captures, then steps of the chain, and nothing after a failure but a capture.
Shaped(calls, n) ==
  /\ IsSeq(calls)
  /\ n <= Len(calls) /\ Len(calls) <= n + 5
  /\ \A i \in DOMAIN calls : calls[i].step = IF i <= n THEN "rpd" ELSE Chain[i - n + 1]
  /\ \A i \in 1 .. Len(calls) - 1 :
       Failed(calls[i]) => /\ Transient(calls[i].result.code)
                           /\ calls[i + 1].step = "rpd"

WellShaped(calls) == \E n \in 0 .. MaxRemeasure + 1 : Shaped(calls, n)

\* Nothing was refused or raised.
Accepted(calls) ==
  \A i \in DOMAIN calls :
    Failed(calls[i]) =>
      /\ calls[i].step # "localize"
      /\ calls[i].result.status # "raised"
      /\ calls[i].result.code \notin {"INVALID_MEASUREMENT_REF", "INVALID_AMP_LIST_REF"}

\* The calls of the run under way and of those that returned.
CallsInv ==
  /\ WellShaped(trace.calls) /\ Accepted(trace.calls)
  /\ \A i \in DOMAIN returned :
       WellShaped(returned[i].trace.calls) /\ Accepted(returned[i].trace.calls)
  /\ Busy =>
       /\ Shaped(trace.calls, attempt)
       /\ Len(trace.calls) = attempt + CallsSince(pc)
       /\ \A i \in DOMAIN trace.calls : trace.calls[i].port = port
       /\ Len(trace.calls) > 0 => reply = trace.calls[Len(trace.calls)].result
  /\ pc = "rpd" => \A i \in DOMAIN trace.calls :
                     Failed(trace.calls[i]) /\ Transient(trace.calls[i].result.code)
  /\ AfterRpd => attempt > 0 /\ ~Failed(trace.calls[Len(trace.calls)])

\* What is behind the handles of a run: the reading of the RPD, its classification, kept
\* with the class it found, and one capture of each measurable amp.
RpdRefOf(calls, n) == calls[n].result.ref
AmpsRefOf(calls, n) == calls[n + 3].result.ref

RpdEvidence(st, calls, n) ==
  /\ Live(st, RpdRefOf(calls, n), "meas")
  /\ GetIn(st, RpdRefOf(calls, n)).device = RpdRef

ClassEvidence(st, calls, n, kept) ==
  LET rpd == GetIn(st, RpdRefOf(calls, n))
  IN  /\ kept # <<>> /\ Live(st, kept[1], "classset")
      /\ GetIn(st, kept[1]) = <<rpd>>
      /\ kept[2] = rpd.class /\ rpd.class # "Clean"

AmpEvidence(st, calls, n, amps) ==
  LET items == GetIn(st, AmpsRefOf(calls, n))
  IN  Live(st, AmpsRefOf(calls, n), "measset") /\ OneOfEach(items, amps)

SegmentAmps == AmpIds(Segment(port))

EvidenceInv ==
  /\ AfterRpd => RpdEvidence(store, trace.calls, attempt)
  /\ AfterClassifyRpd => ClassEvidence(store, trace.calls, attempt, held)
  /\ AfterAmps => HasSegment(port) /\ SegmentAmps # {}
  /\ pc = "measure" => Live(store, reply.ref, "amplist") /\ GetIn(store, reply.ref) = SegmentAmps
  /\ AfterMeasure => AmpEvidence(store, trace.calls, attempt, Measurable(SegmentAmps))
  /\ pc = "localize" =>
       /\ Live(store, reply.ref, "classset")
       /\ GetIn(store, reply.ref) = GetIn(store, AmpsRefOf(trace.calls, attempt))

\* What a run that localized has in its calls: its own readings, still in the store.
RestsOnReadings(st, calls, n, amps) ==
  LET rpd   == GetIn(st, RpdRefOf(calls, n))
      items == Held(GetIn(st, AmpsRefOf(calls, n)))
      impaired == {r \in items : r.class # "Clean"}
      answer == calls[n + 5].result
  IN  /\ Live(st, RpdRefOf(calls, n), "meas") /\ Live(st, AmpsRefOf(calls, n), "measset")
      /\ {r.device : r \in items} = amps
      /\ {r.class : r \in impaired} = {rpd.class}
      /\ answer.type = rpd.class
      /\ \A c \in answer.localization.candidates : c.supporting = {r.device : r \in impaired}

AmpsOf(sc, p) == AmpIds(sc.segments[p])

RestsOnOwn(st, sc, result) ==
  \E n \in 1 .. MaxRemeasure + 1 :
    LET calls == result.trace.calls
    IN  /\ Shaped(calls, n) /\ Len(calls) = n + 5
        /\ RestsOnReadings(st, calls, n, AmpsOf(sc, calls[1].port))

LocalizedInv ==
  \A i \in DOMAIN returned :
    returned[i].status = "localized" => RestsOnOwn(store, scn, returned[i])

\* A transient fault is gone once the server has been asked.
AbsorbsInv ==
  /\ attempts \in 0 .. 2
  /\ pc = "rpd" /\ attempts = 0 => attempt = 0
  /\ TransientFaultIsAbsorbed

Inv == StoreOK /\ Control /\ CallsInv /\ EvidenceInv /\ LocalizedInv /\ AbsorbsInv

--------------------------------------------------------------------------------
(* The steps of a run. Whatever the reply is, a step adds its call to the trace    *)
(* and either goes on or ends the run.                                             *)

NewCall == [step |-> pc, port |-> port, result |-> reply']
NewCalls == Append(trace.calls, NewCall)

Continues(next) ==
  /\ pc' = next
  /\ trace' = [trace EXCEPT !.calls = NewCalls]
  /\ UNCHANGED <<audit, returned>>

FinalStatus(status) ==
  IF status = "localized" THEN "localized" ELSE IF status = "failed" THEN "failed" ELSE "escalated"

Ends(status) ==
  /\ pc' = "idle"
  /\ trace' = [calls |-> NewCalls, status |-> FinalStatus(status),
               label |-> IF status = "localized" THEN trace.label ELSE "negative"]
  /\ \/ /\ audit' = Append(audit, AuditRecord(trace', trigger))
        /\ returned' = Append(returned, [status |-> status, trace |-> trace',
                                         handoff |-> status # "localized"])
     \/ UNCHANGED <<audit, returned>>

Following(step) ==
  IF step = "rpd" THEN "classifyRpd" ELSE IF step = "classifyRpd" THEN "amps"
  ELSE IF step = "amps" THEN "measure" ELSE IF step = "measure" THEN "classifyAmps" ELSE "localize"

\* What makes the run go on, measure again, or end.
RunStep ==
  /\ Busy
  /\ UNCHANGED <<scn, port, trigger, runs>>
  /\ attempt' = IF pc = "rpd" THEN attempt + 1 ELSE attempt
  /\ \/ pc # "localize" /\ ~Failure(reply') /\ Continues(Following(pc))
     \/ /\ pc = "rpd" /\ reply'.status = "error" /\ Retries(reply'.code)
        /\ Continues("rpd")
     \/ /\ Failure(reply') /\ Ends("failed")
        /\ ~(pc = "rpd" /\ reply'.status = "error" /\ Retries(reply'.code))
     \/ pc \in {"classifyRpd", "localize"} /\ ~Failure(reply') /\ Ends("low_confidence")
     \/ pc = "localize" /\ ~Failure(reply') /\ Ends("localized")

\* The reply is one that the orchestrator may get.
AcceptedReply ==
  Failure(reply') =>
    /\ pc # "localize" /\ reply'.status # "raised"
    /\ reply'.code \notin {"INVALID_MEASUREMENT_REF", "INVALID_AMP_LIST_REF"}

\* The exits, as one shape.
LEMMA ExitEnds ==
  ASSUME Control, NEW step, step = pc
  PROVE  /\ Escalate("failed", WithCall(step)) => Ends("failed")
         /\ Escalate("low_confidence", WithCall(step)) => Ends("low_confidence")
         /\ Finish("localized", [WithCall(step) EXCEPT !.status = "localized"], trigger, FALSE)
              => Ends("localized")
         /\ \A next : GoTo(next, WithCall(step)) => Continues(next)
<1> DEFINE tr(status) == [calls |-> NewCalls, status |-> FinalStatus(status),
                          label |-> IF status = "localized" THEN trace.label ELSE "negative"]
<1>1. trace = [calls |-> trace.calls, status |-> trace.status, label |-> trace.label]
  BY DEF Control, IsTrace
<1>2. WithCall(step) = [calls |-> NewCalls, status |-> trace.status, label |-> trace.label]
  BY <1>1, SMTT(20) DEF WithCall, NewCalls, NewCall
<1> DEFINE w == WithCall(step)
<1>3. /\ [w EXCEPT !.status = "failed", !.label = "negative"] = tr("failed")
      /\ [w EXCEPT !.status = "escalated", !.label = "negative"] = tr("low_confidence")
      /\ [w EXCEPT !.status = "localized"] = tr("localized")
  <2> HIDE DEF w
  <2>1. w = [calls |-> NewCalls, status |-> trace.status, label |-> trace.label]
    BY <1>2 DEF w
  <2>2. ASSUME NEW status, NEW final
        PROVE  [w EXCEPT !.status = status, !.label = final]
                 = [calls |-> NewCalls, status |-> status, label |-> final]
    <3> DEFINE v == [w EXCEPT !.status = status]
    <3>1. v = [calls |-> NewCalls, status |-> status, label |-> trace.label]
      BY <2>1
    <3>2. [w EXCEPT !.status = status, !.label = final] = [v EXCEPT !.label = final]
      BY <2>1
    <3>3. [v EXCEPT !.label = final] = [calls |-> NewCalls, status |-> status, label |-> final]
      <4> HIDE DEF v
      <4> QED BY <3>1
    <3> QED BY <3>2, <3>3
  <2>3. /\ tr("failed") = [calls |-> NewCalls, status |-> "failed", label |-> "negative"]
        /\ tr("low_confidence") = [calls |-> NewCalls, status |-> "escalated", label |-> "negative"]
        /\ tr("localized") = [calls |-> NewCalls, status |-> "localized", label |-> trace.label]
    BY DEF FinalStatus
  <2>4. [w EXCEPT !.status = "failed", !.label = "negative"] = tr("failed")
    BY <2>2, <2>3, Zenon
  <2>5. [w EXCEPT !.status = "escalated", !.label = "negative"] = tr("low_confidence")
    BY <2>2, <2>3, Zenon
  <2>6. [w EXCEPT !.status = "localized"] = tr("localized")
    BY <2>1, <2>3
  <2> QED BY <2>4, <2>5, <2>6
<1>4. ASSUME Escalate("failed", WithCall(step)) PROVE Ends("failed")
  BY <1>3, <1>4 DEF Escalate, Finish, Ends
<1>5. ASSUME Escalate("low_confidence", WithCall(step)) PROVE Ends("low_confidence")
  BY <1>3, <1>5 DEF Escalate, Finish, Ends
<1>6. ASSUME Finish("localized", [WithCall(step) EXCEPT !.status = "localized"], trigger, FALSE)
      PROVE  Ends("localized")
  BY <1>3, <1>6 DEF Finish, Ends
<1>7. ASSUME NEW next, GoTo(next, WithCall(step)) PROVE Continues(next)
  BY <1>7 DEF GoTo, WithCall, Continues, NewCalls, NewCall
<1> QED BY <1>4, <1>5, <1>6, <1>7

\* What the calls are once one is added.
LEMMA CallAdded ==
  ASSUME IsSeq(trace.calls)
  PROVE  LET n == Len(trace.calls)
         IN  /\ n \in Nat /\ DOMAIN trace.calls = 1 .. n
             /\ IsSeq(NewCalls) /\ Len(NewCalls) = n + 1 /\ DOMAIN NewCalls = 1 .. n + 1
             /\ \A i \in 1 .. n : NewCalls[i] = trace.calls[i]
             /\ NewCalls[n + 1].step = pc /\ NewCalls[n + 1].port = port
             /\ NewCalls[n + 1].result = reply'
<1>1. NewCalls[Len(trace.calls) + 1] = NewCall
  BY AppendKeeps DEF NewCalls
<1>2. NewCall.step = pc /\ NewCall.port = port /\ NewCall.result = reply'
  BY DEF NewCall
<1> QED BY <1>1, <1>2, AppendKeeps DEF NewCalls

--------------------------------------------------------------------------------
(* What every step keeps, whatever the server answers.                            *)

HeldIsTyped == held # <<>> => (held[1] \in Kinds \X Nat /\ held[2] \in Classes)

\* A step of a run keeps the program counter, the held references and the recorded
\* calls in agreement.
LEMMA StepKeepsControl ==
  ASSUME Control, RunStep, HeldIsTyped'
  PROVE  Control'
<1>0. /\ pc \in Steps /\ port \in Ports /\ trigger \in {{}, {"call"}, {"noCall"}}
      /\ runs \in 0 .. MaxRuns /\ attempt \in 0 .. MaxRemeasure + 1
      /\ pc = "rpd" => attempt <= MaxRemeasure
      /\ UNCHANGED <<port, trigger, runs>>
      /\ attempt' = IF pc = "rpd" THEN attempt + 1 ELSE attempt
      /\ IsSeq(audit) /\ IsSeq(returned) /\ Len(audit) + 1 <= runs
  BY DEF Control, RunStep, Busy
<1>1. /\ port' \in Ports /\ trigger' \in {{}, {"call"}, {"noCall"}} /\ runs' \in 0 .. MaxRuns
      /\ attempt' \in 0 .. MaxRemeasure + 1
  BY <1>0, MaxRemeasureNat
<1>1a. Len(audit) \in Nat
  BY <1>0, SeqIsSeq DEF IsSeq
<1>2. ASSUME NEW next, Continues(next), next \in Steps,
             next = "rpd" => Retries(reply'.code)
      PROVE  Control'
  <2>1. IsTrace(trace)' /\ trace'.status = trace.status /\ trace'.label = trace.label
    <3>1. trace = [calls |-> trace.calls, status |-> trace.status, label |-> trace.label]
      BY DEF Control, IsTrace
    <3>2. trace' = [calls |-> NewCalls, status |-> trace.status, label |-> trace.label]
      BY <1>2, <3>1 DEF Continues
    <3> QED BY <3>2 DEF IsTrace
  <2>2. pc' = "rpd" => attempt' <= MaxRemeasure
    <3>1. next = "rpd" => attempt < MaxRemeasure
      BY <1>2 DEF Retries
    <3>2. pc' = next
      BY <1>2 DEF Continues
    <3> QED BY <1>0, <3>1, <3>2, MaxRemeasureNat
  <2>3. pc' \in Steps /\ audit' = audit /\ returned' = returned
    BY <1>2 DEF Continues
  <2>4. pc # "idle" /\ pc' # "idle" /\ trace.label = "positive"
        /\ trace.status \in {"", "localized", "escalated", "failed", "not_triggered"}
    BY <2>3 DEF Control, RunStep, Busy, Steps
  <2> QED BY <1>0, <1>1, <1>1a, <2>1, <2>2, <2>3, <2>4 DEF Control, Busy, HeldIsTyped
<1>3. ASSUME NEW status, Ends(status)
      PROVE  Control'
  <2>1. IsTrace(trace)' /\ trace'.status \in {"", "localized", "escalated", "failed", "not_triggered"}
    BY <1>3 DEF Ends, FinalStatus, IsTrace
  <2>2. /\ IsSeq(audit') /\ IsSeq(returned')
        /\ Len(audit') \in {Len(audit), Len(audit) + 1}
    <3>1. CASE UNCHANGED <<audit, returned>>
      BY <1>0, <3>1
    <3>2. CASE ~UNCHANGED <<audit, returned>>
      <4> PICK a, r : audit' = Append(audit, a) /\ returned' = Append(returned, r)
        BY <1>3, <3>2 DEF Ends
      <4> QED BY <1>0, AppendKeeps
    <3> QED BY <3>1, <3>2
  <2>3. pc' = "idle"
    BY <1>3 DEF Ends
  <2>4. Len(audit') + (IF pc' # "idle" THEN 1 ELSE 0) <= runs'
    BY <1>0, <1>1, <1>1a, <2>2, <2>3
  <2> QED BY <1>1, <2>1, <2>2, <2>3, <2>4 DEF Control, Busy, HeldIsTyped
<1>4. Following(pc) \in Steps \ {"rpd"}
  BY DEF Following, Steps
<1> QED BY <1>0, <1>2, <1>3, <1>4 DEF RunStep, Steps

\* One more call keeps the shape, if the step is the one that the chain has next.
LEMMA StepKeepsCalls ==
  ASSUME Control, CallsInv, RunStep, AcceptedReply
  PROVE  CallsInv' /\ Shaped(NewCalls, attempt') /\ trace'.calls = NewCalls
<1> DEFINE n == Len(trace.calls)
           calls == trace.calls
<1>0. /\ Shaped(calls, attempt) /\ n = attempt + CallsSince(pc)
      /\ \A i \in DOMAIN calls : calls[i].port = port
      /\ pc = "rpd" => \A i \in DOMAIN calls : Failed(calls[i]) /\ Transient(calls[i].result.code)
      /\ AfterRpd => attempt > 0 /\ ~Failed(calls[n])
      /\ Accepted(calls)
  BY DEF CallsInv, RunStep
<1>1. /\ n \in Nat /\ DOMAIN calls = 1 .. n
      /\ IsSeq(NewCalls) /\ Len(NewCalls) = n + 1 /\ DOMAIN NewCalls = 1 .. n + 1
      /\ \A i \in 1 .. n : NewCalls[i] = calls[i]
      /\ NewCalls[n + 1].step = pc /\ NewCalls[n + 1].port = port /\ NewCalls[n + 1].result = reply'
  <2>1. IsSeq(calls)
    BY <1>0 DEF Shaped
  <2> QED BY <2>1, CallAdded
<1>2. pc \in Steps /\ attempt \in 0 .. MaxRemeasure + 1 /\ (pc = "rpd" => attempt <= MaxRemeasure)
      /\ attempt' = (IF pc = "rpd" THEN attempt + 1 ELSE attempt)
      /\ attempt' \in 0 .. MaxRemeasure + 1
  <2>1. pc \in Steps /\ attempt \in 0 .. MaxRemeasure + 1 /\ (pc = "rpd" => attempt <= MaxRemeasure)
        /\ attempt' = (IF pc = "rpd" THEN attempt + 1 ELSE attempt)
    BY DEF Control, RunStep, Busy
  <2> QED BY <2>1, MaxRemeasureNat
<1>3. trace'.calls = NewCalls
  <2>1. "calls" \in DOMAIN trace
    <3> DEFINE status == trace.status
               label == trace.label
    <3>1. trace = [calls |-> calls, status |-> status, label |-> label]
      BY DEF Control, IsTrace
    <3> HIDE DEF calls, status, label
    <3> QED BY <3>1
  <2> QED BY <2>1 DEF RunStep, Continues, Ends
<1> HIDE DEF calls, n
<1>4. Shaped(NewCalls, attempt')
  <2>1. attempt' <= n + 1 /\ n + 1 <= attempt' + 5
    BY <1>0, <1>1, <1>2 DEF CallsSince, Steps
  <2>2. ASSUME NEW i \in 1 .. n + 1
        PROVE  NewCalls[i].step = IF i <= attempt' THEN "rpd" ELSE Chain[i - attempt' + 1]
    <3>1. CASE i <= n
      <4>1. NewCalls[i] = calls[i]
        BY <1>1, <3>1
      <4>2. calls[i].step = IF i <= attempt THEN "rpd" ELSE Chain[i - attempt + 1]
        BY <1>0, <1>1, <3>1 DEF Shaped
      <4>3. pc = "rpd" => i <= attempt
        BY <1>0, <1>1, <1>2, <3>1 DEF CallsSince
      <4> QED BY <1>2, <4>1, <4>2, <4>3
    <3>2. CASE i = n + 1
      <4>1. NewCalls[i].step = pc
        BY <1>1, <3>2
      <4>2. pc = "rpd" => i <= attempt'
        BY <1>0, <1>1, <1>2, <3>2 DEF CallsSince
      <4>3. pc # "rpd" => i > attempt' /\ Chain[i - attempt' + 1] = pc
        BY <1>0, <1>1, <1>2, <3>2 DEF CallsSince, Steps, Chain
      <4> QED BY <1>1, <1>2, <4>1, <4>2, <4>3
    <3> QED BY <1>1, <3>1, <3>2
  <2>3. ASSUME NEW i \in 1 .. n, Failed(NewCalls[i])
        PROVE  Transient(NewCalls[i].result.code) /\ NewCalls[i + 1].step = "rpd"
    <3>1. NewCalls[i] = calls[i] /\ Failed(calls[i])
      BY <1>1, <2>3
    <3>2. CASE i < n
      <4>1. i \in 1 .. n - 1 /\ i + 1 \in 1 .. n
        BY <1>1, <3>2
      <4>2. Transient(calls[i].result.code) /\ calls[i + 1].step = "rpd"
        BY <1>0, <3>1, <4>1 DEF Shaped, n, calls
      <4>3. NewCalls[i + 1] = calls[i + 1]
        BY <1>1, <4>1
      <4> QED BY <3>1, <4>2, <4>3
    <3>3. CASE i = n
      <4>1. pc = "rpd"
        BY <1>0, <1>2, <3>1, <3>3 DEF AfterRpd, Steps
      <4>2. Transient(calls[i].result.code) /\ NewCalls[i + 1].step = "rpd"
        BY <1>0, <1>1, <3>3, <4>1
      <4> QED BY <3>1, <4>2
    <3> QED BY <1>1, <3>2, <3>3
  <2> QED BY <1>1, <2>1, <2>2, <2>3 DEF Shaped
<1>5. WellShaped(NewCalls)
  BY <1>2, <1>4 DEF WellShaped
<1>6. Accepted(NewCalls)
  <2> SUFFICES ASSUME NEW i \in 1 .. n + 1, Failed(NewCalls[i])
               PROVE  /\ NewCalls[i].step # "localize"
                      /\ NewCalls[i].result.status # "raised"
                      /\ NewCalls[i].result.code \notin {"INVALID_MEASUREMENT_REF", "INVALID_AMP_LIST_REF"}
    BY <1>1 DEF Accepted
  <2>1. CASE i <= n
    BY <1>0, <1>1, <2>1 DEF Accepted
  <2>2. CASE i = n + 1
    BY <1>1, <2>2 DEF AcceptedReply, Failed, Failure
  <2> QED BY <1>1, <2>1, <2>2
<1>7. \A i \in 1 .. n + 1 : NewCalls[i].port = port'
  <2>1. port' = port
    BY DEF RunStep
  <2> QED BY <1>0, <1>1, <2>1
<1>8. \A i \in DOMAIN returned' :
        WellShaped(returned'[i].trace.calls) /\ Accepted(returned'[i].trace.calls)
  <2>1. CASE returned' = returned
    BY <2>1 DEF CallsInv
  <2>2. CASE returned' # returned
    <3>1. PICK r : returned' = Append(returned, r) /\ r.trace = trace'
      BY <2>2 DEF RunStep, Continues, Ends
    <3>2. IsSeq(returned)
      BY DEF Control
    <3>3. DOMAIN returned = 1 .. Len(returned) /\ DOMAIN returned' = 1 .. Len(returned) + 1
          /\ Len(returned) \in Nat
          /\ (\A i \in 1 .. Len(returned) : returned'[i] = returned[i])
          /\ returned'[Len(returned) + 1] = r
      BY <3>1, <3>2, AppendKeeps
    <3> QED BY <1>3, <1>5, <1>6, <3>1, <3>3 DEF CallsInv
  <2> QED BY <2>1, <2>2
<1>9. pc' # "idle" => n + 1 = attempt' + CallsSince(pc')
  <2>1. CASE pc' = Following(pc) /\ pc # "localize"
    BY <1>0, <1>1, <1>2, <2>1 DEF CallsSince, Following, Steps
  <2>2. CASE pc' = "rpd" /\ pc = "rpd"
    BY <1>0, <1>1, <1>2, <2>2 DEF CallsSince
  <2> QED BY <2>1, <2>2 DEF RunStep, Continues, Ends
<1>10. pc' = "rpd" => \A i \in 1 .. n + 1 : Failed(NewCalls[i]) /\ Transient(NewCalls[i].result.code)
  <2> SUFFICES ASSUME pc' = "rpd", NEW i \in 1 .. n + 1
               PROVE  Failed(NewCalls[i]) /\ Transient(NewCalls[i].result.code)
    OBVIOUS
  <2>1. pc = "rpd" /\ reply'.status = "error" /\ Transient(reply'.code)
    BY <1>2 DEF RunStep, Continues, Ends, Following, Steps, Retries
  <2>2. CASE i <= n
    BY <1>0, <1>1, <2>1, <2>2
  <2>3. CASE i = n + 1
    BY <1>1, <2>1, <2>3 DEF Failed
  <2> QED BY <1>1, <2>2, <2>3
<1>11. pc' \in {"classifyRpd", "amps", "measure", "classifyAmps", "localize"} =>
         attempt' > 0 /\ ~Failed(NewCalls[n + 1])
  <2> SUFFICES ASSUME pc' \in {"classifyRpd", "amps", "measure", "classifyAmps", "localize"}
               PROVE  attempt' > 0 /\ ~Failed(NewCalls[n + 1])
    OBVIOUS
  <2>1. ~Failure(reply')
    BY DEF RunStep, Continues, Ends
  <2>2. attempt' > 0
    BY <1>0, <1>2 DEF AfterRpd, Steps
  <2> QED BY <1>1, <2>1, <2>2 DEF Failed, Failure
<1> QED BY <1>1, <1>3, <1>4, <1>5, <1>6, <1>7, <1>8, <1>9, <1>10, <1>11 DEF CallsInv, AfterRpd, Busy

--------------------------------------------------------------------------------
(* Evidence outlives every call, and the calls that come after it in a trace.     *)

\* What a call captured at the RPD stays what its reference names while the store only
\* grows and the trace keeps its calls.
LEMMA RpdEvidenceKept ==
  ASSUME NEW st, NEW next, Kept(st, next), NEW calls, NEW more, NEW n, more[n] = calls[n],
         RpdEvidence(st, calls, n)
  PROVE  RpdEvidence(next, more, n)
         /\ GetIn(next, RpdRefOf(more, n)) = GetIn(st, RpdRefOf(calls, n))
<1>1. Live(st, RpdRefOf(calls, n), "meas") /\ "meas" \in Kinds
  BY DEF RpdEvidence, Kinds
<1>2. RpdRefOf(more, n) = RpdRefOf(calls, n)
  BY DEF RpdRefOf
<1> QED BY <1>1, <1>2, LiveIsKept DEF RpdEvidence

\* The classification of the RPD capture stays on record in the same way.
LEMMA ClassEvidenceKept ==
  ASSUME NEW st, NEW next, Kept(st, next), NEW calls, NEW more, NEW n, more[n] = calls[n],
         RpdEvidence(st, calls, n), NEW kept, ClassEvidence(st, calls, n, kept)
  PROVE  ClassEvidence(next, more, n, kept)
<1>1. GetIn(next, RpdRefOf(more, n)) = GetIn(st, RpdRefOf(calls, n))
  BY RpdEvidenceKept
<1>2. Live(st, kept[1], "classset") /\ "classset" \in Kinds
  BY DEF ClassEvidence, Kinds
<1>3. Live(next, kept[1], "classset") /\ GetIn(next, kept[1]) = GetIn(st, kept[1])
  BY <1>2, LiveIsKept
<1> QED BY <1>1, <1>3 DEF ClassEvidence

\* The amplifiers listed for the segment and their captures stay on record in the same
\* way.
LEMMA AmpEvidenceKept ==
  ASSUME NEW st, NEW next, Kept(st, next), NEW calls, NEW more, NEW n, more[n + 3] = calls[n + 3],
         NEW amps, AmpEvidence(st, calls, n, amps)
  PROVE  AmpEvidence(next, more, n, amps)
         /\ GetIn(next, AmpsRefOf(more, n)) = GetIn(st, AmpsRefOf(calls, n))
<1>1. Live(st, AmpsRefOf(calls, n), "measset") /\ "measset" \in Kinds
  BY DEF AmpEvidence, Kinds
<1>2. AmpsRefOf(more, n) = AmpsRefOf(calls, n)
  BY DEF AmpsRefOf
<1> QED BY <1>1, <1>2, LiveIsKept DEF AmpEvidence

\* A localization that rests on the run's readings still does when the store has
\* grown.
LEMMA ReadingsKept ==
  ASSUME NEW st, NEW next, Kept(st, next), NEW calls, NEW n, NEW amps,
         RestsOnReadings(st, calls, n, amps)
  PROVE  RestsOnReadings(next, calls, n, amps)
<1>1. /\ Live(st, RpdRefOf(calls, n), "meas") /\ "meas" \in Kinds
      /\ Live(st, AmpsRefOf(calls, n), "measset") /\ "measset" \in Kinds
  BY DEF RestsOnReadings, Kinds
<1>2. /\ Live(next, RpdRefOf(calls, n), "meas")
      /\ GetIn(next, RpdRefOf(calls, n)) = GetIn(st, RpdRefOf(calls, n))
      /\ Live(next, AmpsRefOf(calls, n), "measset")
      /\ GetIn(next, AmpsRefOf(calls, n)) = GetIn(st, AmpsRefOf(calls, n))
  BY <1>1, LiveIsKept
<1> QED BY <1>2 DEF RestsOnReadings

\* A finished run that rests on its own readings still does when the store has grown.
LEMMA RestsKept ==
  ASSUME NEW st, NEW next, Kept(st, next), NEW sc, NEW result, RestsOnOwn(st, sc, result)
  PROVE  RestsOnOwn(next, sc, result)
<1> DEFINE calls == result.trace.calls
           amps == AmpsOf(sc, calls[1].port)
<1>1. PICK n \in 1 .. MaxRemeasure + 1 :
        Shaped(calls, n) /\ Len(calls) = n + 5 /\ RestsOnReadings(st, calls, n, amps)
  BY DEF RestsOnOwn
<1> HIDE DEF calls, amps
<1>2. RestsOnReadings(next, calls, n, amps)
  BY <1>1, ReadingsKept
<1> QED BY <1>1, <1>2 DEF calls, amps, RestsOnOwn

--------------------------------------------------------------------------------
(* The six steps, each with what it shows of the server and adds to the evidence. *)

\* Where the calls of the run are, and what is the last one.
LEMMA Places ==
  ASSUME Control, CallsInv, Busy
  PROVE  LET n == Len(trace.calls)
         IN  /\ n \in Nat /\ attempt \in Nat /\ n = attempt + CallsSince(pc)
             /\ AfterRpd => attempt > 0 /\ n > 0
             /\ n > 0 => reply = trace.calls[n].result
             /\ \A i \in 1 .. n : NewCalls[i] = trace.calls[i]
             /\ NewCalls[n + 1].result = reply'
             /\ \A next : Continues(next) => trace'.calls = NewCalls
<1>1. IsSeq(trace.calls)
  BY DEF CallsInv, Shaped
<1>2. Len(trace.calls) = attempt + CallsSince(pc) /\ (AfterRpd => attempt > 0)
      /\ (Len(trace.calls) > 0 => reply = trace.calls[Len(trace.calls)].result)
  BY DEF CallsInv
<1>3. attempt \in Nat
  <2>1. attempt \in 0 .. MaxRemeasure + 1
    BY DEF Control
  <2> QED BY <2>1, MaxRemeasureNat
<1>4. CallsSince(pc) \in Nat
  BY DEF CallsSince
<1>5. "calls" \in DOMAIN trace
  <2> DEFINE calls == trace.calls
             status == trace.status
             label == trace.label
  <2>1. trace = [calls |-> calls, status |-> status, label |-> label]
    BY DEF Control, IsTrace
  <2> HIDE DEF calls, status, label
  <2> QED BY <2>1
<1>6. \A next : Continues(next) => trace'.calls = NewCalls
  BY <1>5 DEF Continues
<1> QED BY <1>1, <1>2, <1>3, <1>4, <1>6, CallAdded

\* No step but the last adds a localized result.
LEMMA LocalizedKept ==
  ASSUME Control, LocalizedInv, Grows, scn' = scn,
         returned' = returned \/ \E r : returned' = Append(returned, r) /\ r.status # "localized"
  PROVE  LocalizedInv'
<1>1. Kept(store, store')
  BY DEF Grows
<1>2. \A i \in DOMAIN returned' : returned'[i].status = "localized" =>
                                   i \in DOMAIN returned /\ returned'[i] = returned[i]
  <2>1. CASE returned' = returned
    BY <2>1
  <2>2. CASE \E r : returned' = Append(returned, r) /\ r.status # "localized"
    <3> PICK r : returned' = Append(returned, r) /\ r.status # "localized"
      BY <2>2
    <3>1. IsSeq(returned)
      BY DEF Control
    <3> QED BY <3>1, AppendKeeps
  <2> QED BY <2>1, <2>2
<1> QED BY <1>1, <1>2, RestsKept DEF LocalizedInv

\* A step that fails or ends leaves no evidence to look after.
LEMMA IdleHasNoEvidence ==
  ASSUME pc' \in {"idle", "rpd"}
  PROVE  EvidenceInv'
BY DEF EvidenceInv, AfterRpd, AfterClassifyRpd, AfterAmps, AfterMeasure

\* Capturing at the RPD keeps the store and the evidence in order, and fails only with
\* a code the scenario plants for this attempt.
LEMMA CaptureRpdStep ==
  ASSUME Inv, CaptureRpd
  PROVE  /\ RunStep /\ StoreOK' /\ Grows /\ AcceptedReply /\ HeldIsTyped' /\ EvidenceInv'
         /\ attempts' \in 1 .. 2
         /\ Failure(reply') => \E code \in RpdFault(attempts + 1) : reply' = Error(code)
<1> USE DEF CaptureRpd
<1>0. StoreOK /\ Control /\ CallsInv /\ pc = "rpd" /\ Busy /\ attempts \in 0 .. 2
  BY DEF Inv, Busy, AbsorbsInv
<1>1. /\ scn' = scn
      /\ \/ \E code \in RpdFault(attempts + 1) : store' = store /\ reply' = Error(code)
         \/ \E class \in Classes : Makes("meas", [device |-> RpdRef, class |-> class])
  BY <1>0, RpdCaptured
<1>2. attempts' \in 1 .. 2
  <2>1. attempts' = Min({attempts + 1, 2})
    BY DEF GetRPDSpectrumMeasurements
  <2>2. \E x \in {attempts + 1, 2} : \A y \in {attempts + 1, 2} : x <= y
    BY <1>0
  <2> QED BY <1>0, <2>1, <2>2 DEF Min
<1>3. UNCHANGED <<scn, port, trigger, runs>> /\ held' = held /\ attempt' = attempt + 1 /\ HeldIsTyped'
  BY <1>0, <1>1 DEF Control, HeldIsTyped
<1>4. CASE \E code \in RpdFault(attempts + 1) : store' = store /\ reply' = Error(code)
  <2>1. PICK code \in RpdFault(attempts + 1) : store' = store /\ reply' = Error(code)
    BY <1>4
  <2>2. StoreOK' /\ Grows
    BY <1>0, <1>1, <2>1, NothingStored
  <2>3. reply'.status = "error" /\ reply'.code = code /\ Failure(reply')
    BY <2>1 DEF Error, Failure
  <2>4. AcceptedReply
    BY <1>0, <2>1, <2>3 DEF AcceptedReply, RpdFault
  <2>5. RunStep /\ pc' \in {"idle", "rpd"}
    <3>1. CASE Retries(reply'.code)
      <4>1. Continues("rpd")
        BY <1>0, <2>3, <3>1, ExitEnds
      <4> QED BY <1>0, <1>3, <2>3, <3>1, <4>1 DEF RunStep, Continues
    <3>2. CASE ~Retries(reply'.code)
      <4>1. Ends("failed")
        BY <1>0, <2>3, <3>2, ExitEnds
      <4> QED BY <1>0, <1>3, <2>3, <3>2, <4>1 DEF RunStep, Ends
    <3> QED BY <3>1, <3>2
  <2>6. EvidenceInv'
    BY <2>5, IdleHasNoEvidence
  <2> QED BY <1>2, <1>3, <2>1, <2>2, <2>4, <2>5, <2>6
<1>5. CASE \E class \in Classes : Makes("meas", [device |-> RpdRef, class |-> class])
  <2> PICK class \in Classes : Makes("meas", [device |-> RpdRef, class |-> class])
    BY <1>5
  <2>1. /\ StoreOK' /\ Grows
        /\ reply'.ref \in {"meas"} \X Nat /\ HasIn(store', reply'.ref)
        /\ GetIn(store', reply'.ref) = [device |-> RpdRef, class |-> class]
    BY <1>0, <1>1, MakesKeepsStore DEF Kinds
  <2>2. reply'.status = "success" /\ ~Failure(reply')
    BY DEF Makes, Failure
  <2>3. Continues("classifyRpd")
    BY <1>0, <2>2, ExitEnds
  <2>4. RunStep /\ AcceptedReply
    BY <1>0, <1>3, <2>2, <2>3 DEF RunStep, Following, AcceptedReply
  <2>5. trace'.calls[attempt'].result = reply'
    <3>1. Len(trace.calls) = attempt /\ trace'.calls = NewCalls
          /\ NewCalls[Len(trace.calls) + 1].result = reply'
      BY <1>0, <2>3, Places DEF CallsSince
    <3> QED BY <1>3, <3>1
  <2>6. RpdEvidence(store', trace'.calls, attempt')
    BY <2>1, <2>5 DEF RpdEvidence, RpdRefOf, Live
  <2>7. EvidenceInv'
    BY <2>3, <2>6 DEF EvidenceInv, Continues, AfterClassifyRpd, AfterAmps, AfterMeasure
  <2> QED BY <1>2, <1>3, <2>1, <2>2, <2>4, <2>7
<1> QED BY <1>1, <1>4, <1>5

\* A step in the middle of the chain that fails ends the run.
LEMMA FailedStep ==
  ASSUME Control, Busy, pc \notin {"rpd", "localize"}, UNCHANGED <<scn, port, attempt, trigger, runs, held>>,
         NEW codes, Fails(codes), reply' # Raised,
         codes \cap {"INVALID_MEASUREMENT_REF", "INVALID_AMP_LIST_REF"} = {},
         NEW step, step = pc, Escalate("failed", WithCall(step)), StoreOK
  PROVE  RunStep /\ StoreOK' /\ Grows /\ AcceptedReply /\ HeldIsTyped' /\ EvidenceInv'
<1>1. StoreOK' /\ Grows /\ Failure(reply') /\ reply'.code \in codes
  BY FailsKeepsStore
<1>2. reply'.status # "raised"
  BY DEF Fails, Error
<1>3. AcceptedReply
  BY <1>1, <1>2 DEF AcceptedReply
<1>4. Ends("failed")
  BY ExitEnds
<1>5. RunStep
  BY <1>1, <1>4 DEF RunStep
<1>6. EvidenceInv'
  BY <1>4, IdleHasNoEvidence DEF Ends
<1>7. HeldIsTyped'
  BY DEF Control, HeldIsTyped
<1> QED BY <1>1, <1>3, <1>5, <1>6, <1>7

\* Classifying the RPD capture keeps the store and the evidence in order and touches
\* no attempt counter.
LEMMA ClassifyRpdStep ==
  ASSUME Inv, ClassifyRpd
  PROVE  /\ RunStep /\ StoreOK' /\ Grows /\ AcceptedReply /\ HeldIsTyped' /\ EvidenceInv'
         /\ attempts' = attempts
<1> DEFINE n == attempt
           calls == trace.calls
           rpd == Get(reply.ref)
<1>0. /\ StoreOK /\ Control /\ CallsInv /\ pc = "classifyRpd" /\ Busy /\ AfterRpd
      /\ UNCHANGED <<port, attempt, trigger, runs>>
  BY DEF Inv, Busy, AfterRpd, ClassifyRpd
<1>1. /\ n \in Nat /\ n > 0 /\ Len(calls) = n /\ reply = calls[n].result
      /\ NewCalls[n] = calls[n]
      /\ \A next : Continues(next) => trace'.calls = NewCalls
  <2>1. CallsSince(pc) = 0
    BY <1>0 DEF CallsSince
  <2>2. /\ n \in Nat /\ n > 0 /\ Len(calls) = n + 0 /\ (Len(calls) > 0 => reply = calls[Len(calls)].result)
        /\ \A i \in 1 .. Len(calls) : NewCalls[i] = calls[i]
        /\ \A next : Continues(next) => trace'.calls = NewCalls
    BY <1>0, <2>1, Places
  <2> QED BY <2>2
<1>2. RpdEvidence(store, calls, n)
  BY <1>0 DEF Inv, EvidenceInv
<1>3. /\ reply.ref = RpdRefOf(calls, n) /\ rpd = GetIn(store, RpdRefOf(calls, n))
      /\ reply.ref \in {"meas"} \X Nat /\ Has(reply.ref)
  BY <1>1, <1>2 DEF RpdRefOf, RpdEvidence, Live, HasIn, Has, Get, GetIn
<1> DEFINE refs == <<reply.ref>>
           items == [i \in DOMAIN refs |-> Get(refs[i])]
<1>4. /\ refs \in Seq(Kinds \X Nat) /\ DOMAIN refs = {1} /\ refs[1] = reply.ref
  BY <1>3 DEF Kinds
<1>5. items = <<rpd>>
  BY <1>4
<1> HIDE DEF items, n, calls, rpd
<1>6. /\ UNCHANGED <<scn, attempts>>
      /\ \/ Fails({"CLASSIFICATION_FAILED"}) /\ reply' # Raised
         \/ items \in Pools /\ Classify(items)
  <2>1. AnalyzeMeasurements(refs)
    BY DEF ClassifyRpd
  <2>2. /\ UNCHANGED <<scn, attempts>>
        /\ \/ /\ Fails({"CLASSIFICATION_FAILED", "INVALID_MEASUREMENT_REF"})
              /\ reply' = Error("INVALID_MEASUREMENT_REF") =>
                   \E i \in DOMAIN refs : ~Has(refs[i])
              /\ reply' = Raised => \E i \in DOMAIN refs : refs[i][1] # "meas"
           \/ items \in Pools /\ Classify(items)
    BY <1>0, <1>4, <2>1, MeasurementsAnalyzed DEF items
  <2>3. CASE /\ Fails({"CLASSIFICATION_FAILED", "INVALID_MEASUREMENT_REF"})
             /\ reply' = Error("INVALID_MEASUREMENT_REF") =>
                   \E i \in DOMAIN refs : ~Has(refs[i])
             /\ reply' = Raised => \E i \in DOMAIN refs : refs[i][1] # "meas"
    <3>1. reply' # Error("INVALID_MEASUREMENT_REF") /\ reply' # Raised
      BY <1>3, <1>4, <2>3
    <3> QED BY <2>2, <2>3, <3>1 DEF Fails
  <2> QED BY <2>2, <2>3
<1>7. CASE Fails({"CLASSIFICATION_FAILED"}) /\ reply' # Raised
  <2>1. reply'.status # "success"
    BY <1>7 DEF Fails, Error
  <2>2. Escalate("failed", WithCall("classifyRpd")) /\ held' = held
    BY <2>1 DEF ClassifyRpd
  <2>3. UNCHANGED <<scn, port, attempt, trigger, runs, held>>
    BY <1>0, <1>6, <2>2
  <2> QED BY <1>0, <1>6, <1>7, <2>2, <2>3, FailedStep
<1>8. CASE items \in Pools /\ Classify(items)
  <2>1. /\ Makes("classset", items)
        /\ reply'.impaired = Cardinality({i \in DOMAIN items : items[i].class # "Clean"})
        /\ reply'.classes = {items[i].class : i \in DOMAIN items}
    BY <1>0, <1>8, Classified
  <2>2. /\ StoreOK' /\ Grows
        /\ reply'.ref \in {"classset"} \X Nat /\ HasIn(store', reply'.ref)
        /\ GetIn(store', reply'.ref) = items
    BY <1>0, <1>6, <2>1, MakesKeepsStore DEF Kinds
  <2>3. reply'.status = "success" /\ ~Failure(reply')
    BY <2>1 DEF Makes, Failure
  <2>4. AcceptedReply
    BY <2>3 DEF AcceptedReply
  <2>5. CASE reply'.impaired = 0
    <3>1. Escalate("low_confidence", WithCall("classifyRpd")) /\ held' = held
      BY <2>3, <2>5 DEF ClassifyRpd
    <3>2. Ends("low_confidence")
      BY <1>0, <3>1, ExitEnds
    <3>3. RunStep
      BY <1>0, <1>6, <2>3, <3>2 DEF RunStep
    <3>4. EvidenceInv'
      BY <3>2, IdleHasNoEvidence DEF Ends
    <3>5. HeldIsTyped'
      BY <1>0, <3>1 DEF Control, HeldIsTyped
    <3> QED BY <1>6, <2>2, <2>4, <3>3, <3>4, <3>5
  <2>6. CASE reply'.impaired # 0
    <3>1. /\ GoTo("amps", WithCall("classifyRpd"))
          /\ held' = <<reply'.ref, ImpairmentType(reply'.classes)>>
      BY <2>3, <2>6 DEF ClassifyRpd
    <3>2. Continues("amps")
      BY <1>0, <3>1, ExitEnds
    <3>3. RunStep
      BY <1>0, <1>6, <2>3, <3>2 DEF RunStep, Following
    <3>4. DOMAIN items = {1} /\ items[1] = rpd
      BY <1>5
    <3>5. rpd.class # "Clean"
      <4>1. ASSUME rpd.class = "Clean" PROVE FALSE
        <5>1. {i \in DOMAIN items : items[i].class # "Clean"} = {}
          BY <3>4, <4>1
        <5>2. reply'.impaired = 0
          BY <2>1, <5>1, FS_EmptySet
        <5> QED BY <2>6, <5>2
      <4> QED BY <4>1
    <3>6. rpd.class \in Classes
      <4>1. items[1] \in Capture
        BY <1>8, <3>4 DEF Pools
      <4> QED BY <3>4, <4>1 DEF Capture
    <3>7. ImpairmentType(reply'.classes) = rpd.class
      <4>1. reply'.classes = {rpd.class}
        BY <2>1, <3>4
      <4>2. {rpd.class} \ {"Clean"} = {rpd.class}
        BY <3>5
      <4>3. \A x : (CHOOSE c \in {x} : TRUE) = x
        OBVIOUS
      <4> QED BY <4>1, <4>2, <4>3 DEF ImpairmentType
    <3>8. HeldIsTyped'
      BY <2>2, <3>1, <3>6, <3>7 DEF HeldIsTyped, Kinds
    <3>9. trace'.calls = NewCalls /\ attempt' = n
      BY <1>0, <1>1, <3>2 DEF n
    <3>10. /\ RpdEvidence(store', trace'.calls, attempt')
           /\ GetIn(store', RpdRefOf(trace'.calls, attempt')) = rpd
      <4>1. Kept(store, store')
        BY <2>2 DEF Grows
      <4>2. /\ RpdEvidence(store', NewCalls, n)
            /\ GetIn(store', RpdRefOf(NewCalls, n)) = GetIn(store, RpdRefOf(calls, n))
        BY <1>1, <1>2, <4>1, RpdEvidenceKept
      <4> QED BY <1>3, <3>9, <4>2
    <3>11. ClassEvidence(store', trace'.calls, attempt', held')
      <4>1. held' # <<>> /\ held'[1] = reply'.ref /\ held'[2] = rpd.class
        BY <3>1, <3>7
      <4> QED BY <1>5, <2>2, <3>5, <3>10, <4>1 DEF ClassEvidence, Live
    <3>12. EvidenceInv'
      BY <3>2, <3>10, <3>11 DEF EvidenceInv, Continues, AfterAmps, AfterMeasure
    <3> QED BY <1>6, <2>2, <2>4, <3>3, <3>8, <3>12
  <2> QED BY <2>5, <2>6
<1> QED BY <1>6, <1>7, <1>8

\* The evidence of the captures before this step is still there after it.
LEMMA EvidenceCarried ==
  ASSUME Control, CallsInv, EvidenceInv, AfterClassifyRpd, Grows,
         UNCHANGED <<scn, port, attempt, held>>, NEW next, Continues(next)
  PROVE  /\ RpdEvidence(store', trace'.calls, attempt')
         /\ ClassEvidence(store', trace'.calls, attempt', held')
         /\ AfterAmps => HasSegment(port)' /\ SegmentAmps' = SegmentAmps /\ SegmentAmps # {}
         /\ AfterMeasure => /\ AmpEvidence(store', trace'.calls, attempt', Measurable(SegmentAmps)')
                            /\ GetIn(store', AmpsRefOf(trace'.calls, attempt'))
                                 = GetIn(store, AmpsRefOf(trace.calls, attempt))
<1> DEFINE n == attempt
           calls == trace.calls
<1>1. Busy /\ AfterRpd /\ Kept(store, store')
  BY DEF AfterClassifyRpd, AfterRpd, Busy, Grows
<1>2. /\ n \in Nat /\ n > 0 /\ Len(calls) = n + CallsSince(pc)
      /\ trace'.calls = NewCalls
      /\ \A i \in 1 .. Len(calls) : NewCalls[i] = calls[i]
  BY <1>1, Places
<1>3. CallsSince(pc) \in 1 .. 4 /\ (AfterMeasure => CallsSince(pc) \in 3 .. 4)
  BY DEF AfterClassifyRpd, AfterMeasure, CallsSince
<1>4. RpdEvidence(store, calls, n) /\ ClassEvidence(store, calls, n, held)
  BY <1>1 DEF EvidenceInv
<1>5. AfterMeasure => AmpEvidence(store, calls, n, Measurable(SegmentAmps))
  BY DEF EvidenceInv
<1>6. AfterAmps => HasSegment(port) /\ SegmentAmps # {}
  BY DEF EvidenceInv
<1>7. SegmentAmps' = SegmentAmps /\ HasSegment(port)' = HasSegment(port)
      /\ Measurable(SegmentAmps)' = Measurable(SegmentAmps)
  BY DEF SegmentAmps, Segment, HasSegment, Measurable, Labelled
<1>8. attempt' = n /\ held' = held
  OBVIOUS
<1> HIDE DEF n, calls
<1>9. NewCalls[n] = calls[n] /\ (AfterMeasure => NewCalls[n + 3] = calls[n + 3])
  BY <1>2, <1>3
<1>10. RpdEvidence(store', NewCalls, n) /\ ClassEvidence(store', NewCalls, n, held)
  BY <1>1, <1>4, <1>9, RpdEvidenceKept, ClassEvidenceKept
<1>11. ASSUME AfterMeasure
       PROVE  /\ AmpEvidence(store', NewCalls, n, Measurable(SegmentAmps))
              /\ GetIn(store', AmpsRefOf(NewCalls, n)) = GetIn(store, AmpsRefOf(calls, n))
  BY <1>1, <1>5, <1>9, <1>11, AmpEvidenceKept
<1>12. RpdEvidence(store', trace'.calls, attempt') /\ ClassEvidence(store', trace'.calls, attempt', held')
  BY <1>2, <1>8, <1>10
<1>13. ASSUME AfterMeasure
       PROVE  /\ AmpEvidence(store', trace'.calls, attempt', Measurable(SegmentAmps)')
              /\ GetIn(store', AmpsRefOf(trace'.calls, attempt')) = GetIn(store, AmpsRefOf(trace.calls, attempt))
  BY <1>2, <1>7, <1>8, <1>11, <1>13 DEF n, calls
<1> QED BY <1>6, <1>7, <1>12, <1>13

\* Listing the segment's amplifiers keeps the store and the evidence in order and
\* touches no attempt counter.
LEMMA ListAmpsStep ==
  ASSUME Inv, ListAmps
  PROVE  /\ RunStep /\ StoreOK' /\ Grows /\ AcceptedReply /\ HeldIsTyped' /\ EvidenceInv'
         /\ attempts' = attempts
<1>0. /\ StoreOK /\ Control /\ CallsInv /\ EvidenceInv /\ pc = "amps" /\ Busy /\ AfterClassifyRpd
      /\ UNCHANGED <<port, attempt, trigger, runs, held>>
      /\ GetAllAmpsInSegment(port)
  BY DEF Inv, Busy, AfterClassifyRpd, ListAmps
<1>1. /\ UNCHANGED <<scn, attempts>>
      /\ \/ Fails({"TOPOLOGY_UNAVAILABLE", "INVALID_RPD_PORT", "EMPTY_SEGMENT"}) /\ reply' # Raised
         \/ HasSegment(port) /\ SegmentAmps # {} /\ Makes("amplist", SegmentAmps)
  BY <1>0, AmpsListed DEF SegmentAmps
<1>2. UNCHANGED <<scn, port, attempt, trigger, runs, held>>
  BY <1>0, <1>1
<1>3. CASE Fails({"TOPOLOGY_UNAVAILABLE", "INVALID_RPD_PORT", "EMPTY_SEGMENT"}) /\ reply' # Raised
  <2>1. reply'.status # "success"
    BY <1>3 DEF Fails, Error
  <2>2. Escalate("failed", WithCall("amps"))
    BY <2>1 DEF ListAmps
  <2> QED BY <1>0, <1>1, <1>2, <1>3, <2>2, FailedStep
<1>4. CASE HasSegment(port) /\ SegmentAmps # {} /\ Makes("amplist", SegmentAmps)
  <2>1. /\ StoreOK' /\ Grows
        /\ reply'.ref \in {"amplist"} \X Nat /\ HasIn(store', reply'.ref)
        /\ GetIn(store', reply'.ref) = SegmentAmps
    BY <1>0, <1>1, <1>4, MakesKeepsStore DEF Kinds
  <2>2. reply'.status = "success" /\ ~Failure(reply') /\ AcceptedReply
    BY <1>4 DEF Makes, Failure, AcceptedReply
  <2>3. GoTo("measure", WithCall("amps"))
    BY <2>2 DEF ListAmps
  <2>4. Continues("measure")
    BY <1>0, <2>3, ExitEnds
  <2>5. RunStep
    BY <1>0, <1>2, <2>2, <2>4 DEF RunStep, Following
  <2>6. HeldIsTyped'
    BY <1>0 DEF Control, HeldIsTyped
  <2>7. /\ RpdEvidence(store', trace'.calls, attempt')
        /\ ClassEvidence(store', trace'.calls, attempt', held')
    BY <1>0, <1>2, <2>1, <2>4, EvidenceCarried
  <2>8. SegmentAmps' = SegmentAmps /\ HasSegment(port)'
    BY <1>2, <1>4 DEF SegmentAmps, Segment, HasSegment
  <2>9. pc' = "measure"
    BY <2>4 DEF Continues
  <2>10. EvidenceInv'
    BY <1>4, <2>1, <2>7, <2>8, <2>9 DEF EvidenceInv, AfterMeasure, Live
  <2> QED BY <1>1, <2>1, <2>2, <2>5, <2>6, <2>10
<1> QED BY <1>1, <1>3, <1>4

\* Measuring the amplifiers keeps the store and the evidence in order and touches no
\* attempt counter.
LEMMA MeasureSegmentStep ==
  ASSUME Inv, MeasureSegment
  PROVE  /\ RunStep /\ StoreOK' /\ Grows /\ AcceptedReply /\ HeldIsTyped' /\ EvidenceInv'
         /\ attempts' = attempts
<1>0. /\ StoreOK /\ Control /\ CallsInv /\ EvidenceInv /\ pc = "measure" /\ Busy /\ AfterClassifyRpd
      /\ AfterRpd /\ AfterAmps
      /\ UNCHANGED <<port, attempt, trigger, runs, held>>
      /\ GetAmpUpstreamSpectrumMeasurements(reply.ref)
  BY DEF Inv, Busy, AfterClassifyRpd, AfterRpd, AfterAmps, MeasureSegment
<1>1. Live(store, reply.ref, "amplist") /\ GetIn(store, reply.ref) = SegmentAmps
  BY <1>0 DEF EvidenceInv
<1>2. /\ reply.ref \in Kinds \X Nat /\ Has(reply.ref) /\ reply.ref[1] = "amplist"
      /\ Get(reply.ref) = SegmentAmps
  BY <1>1 DEF Live, HasIn, GetIn, Has, Get, Kinds
<1>3. /\ UNCHANGED <<scn, attempts>>
      /\ \/ Fails({"AMP_MEASUREMENTS_UNAVAILABLE"}) /\ reply' # Raised
         \/ StoreOK' /\ Grows /\ \E items \in Pools : MakesSet(SegmentAmps, items)
  <2>1. /\ UNCHANGED <<scn, attempts>>
        /\ \/ /\ Fails({"AMP_MEASUREMENTS_UNAVAILABLE", "INVALID_AMP_LIST_REF"})
              /\ reply' = Error("INVALID_AMP_LIST_REF") => ~Has(reply.ref)
              /\ reply' = Raised => reply.ref[1] # "amplist"
           \/ StoreOK' /\ Grows /\ \E items \in Pools : MakesSet(Get(reply.ref), items)
    BY <1>0, <1>2, SegmentMeasured
  <2> QED BY <1>2, <2>1 DEF Fails
<1>4. UNCHANGED <<scn, port, attempt, trigger, runs, held>>
  BY <1>0, <1>3
<1>5. CASE Fails({"AMP_MEASUREMENTS_UNAVAILABLE"}) /\ reply' # Raised
  <2>1. reply'.status \notin {"success", "partial_success"}
    BY <1>5 DEF Fails, Error
  <2>2. Escalate("failed", WithCall("measure"))
    BY <2>1 DEF MeasureSegment
  <2> QED BY <1>0, <1>3, <1>4, <1>5, <2>2, FailedStep
<1>6. CASE StoreOK' /\ Grows /\ \E items \in Pools : MakesSet(SegmentAmps, items)
  <2> PICK items \in Pools : MakesSet(SegmentAmps, items)
    BY <1>6
  <2>1. /\ reply'.status \in {"success", "partial_success"}
        /\ reply'.ref = <<"measset", Len(store["measset"]) + 1>>
        /\ store'["measset"] = Append(store["measset"], items)
        /\ {items[i].device : i \in DOMAIN items} = Measurable(SegmentAmps)
        /\ \A i, j \in DOMAIN items : items[i].device = items[j].device => i = j
    BY DEF MakesSet
  <2>2. ~Failure(reply') /\ AcceptedReply
    BY <2>1 DEF Failure, AcceptedReply
  <2>3. GoTo("classifyAmps", WithCall("measure"))
    BY <2>1 DEF MeasureSegment
  <2>4. Continues("classifyAmps")
    BY <1>0, <2>3, ExitEnds
  <2>5. RunStep
    BY <1>0, <1>4, <2>2, <2>4 DEF RunStep, Following
  <2>6. HeldIsTyped'
    BY <1>0 DEF Control, HeldIsTyped
  <2>7. /\ RpdEvidence(store', trace'.calls, attempt')
        /\ ClassEvidence(store', trace'.calls, attempt', held')
        /\ HasSegment(port)' /\ SegmentAmps' = SegmentAmps /\ SegmentAmps # {}
    BY <1>0, <1>4, <1>6, <2>4, EvidenceCarried
  <2>8. /\ Live(store', reply'.ref, "measset") /\ GetIn(store', reply'.ref) = items
    <3>1. IsSeq(store["measset"])
      <4>1. store["measset"] \in Seq(ValuesOf("measset"))
        BY <1>0 DEF StoreOK, Kinds
      <4> QED BY <4>1, SeqIsSeq
    <3>2. /\ Len(store["measset"]) \in Nat
          /\ DOMAIN store'["measset"] = 1 .. Len(store["measset"]) + 1
          /\ store'["measset"][Len(store["measset"]) + 1] = items
      BY <2>1, <3>1, AppendKeeps
    <3>3. reply'.ref[1] = "measset" /\ reply'.ref[2] = Len(store["measset"]) + 1
          /\ reply'.ref \in {"measset"} \X Nat
      BY <2>1, <3>2
    <3> QED BY <3>2, <3>3 DEF Live, HasIn, GetIn
  <2>9. AmpsRefOf(trace'.calls, attempt') = reply'.ref
    <3>1. CallsSince(pc) = 2
      BY <1>0 DEF CallsSince
    <3>2. /\ attempt \in Nat /\ Len(trace.calls) = attempt + 2
          /\ trace'.calls = NewCalls /\ NewCalls[Len(trace.calls) + 1].result = reply'
      BY <1>0, <2>4, <3>1, Places
    <3>3. Len(trace.calls) + 1 = attempt + 3 /\ attempt' = attempt
      BY <1>4, <3>2
    <3> QED BY <3>2, <3>3 DEF AmpsRefOf
  <2>10. AmpEvidence(store', trace'.calls, attempt', Measurable(SegmentAmps))
    BY <2>1, <2>8, <2>9 DEF AmpEvidence, OneOfEach
  <2>11. Measurable(SegmentAmps)' = Measurable(SegmentAmps)
    BY <1>4, <2>7 DEF Measurable, Labelled
  <2>12. pc' = "classifyAmps"
    BY <2>4 DEF Continues
  <2>13. EvidenceInv'
    BY <2>7, <2>10, <2>11, <2>12 DEF EvidenceInv
  <2> QED BY <1>3, <1>6, <2>2, <2>5, <2>6, <2>13
<1> QED BY <1>3, <1>5, <1>6

\* Classifying the amplifiers' captures keeps the store and the evidence in order and
\* touches no attempt counter.
LEMMA ClassifyAmpsStep ==
  ASSUME Inv, ClassifyAmps
  PROVE  /\ RunStep /\ StoreOK' /\ Grows /\ AcceptedReply /\ HeldIsTyped' /\ EvidenceInv'
         /\ attempts' = attempts
<1>0. /\ StoreOK /\ Control /\ CallsInv /\ EvidenceInv /\ pc = "classifyAmps" /\ Busy
      /\ AfterRpd /\ AfterClassifyRpd /\ AfterAmps /\ AfterMeasure
      /\ UNCHANGED <<port, attempt, trigger, runs, held>>
      /\ AnalyzeMeasurementSet(reply.ref)
  BY DEF Inv, Busy, AfterClassifyRpd, AfterRpd, AfterAmps, AfterMeasure, ClassifyAmps
<1>1. AmpsRefOf(trace.calls, attempt) = reply.ref
  <2>1. CallsSince(pc) = 3
    BY <1>0 DEF CallsSince
  <2>2. /\ attempt \in Nat /\ Len(trace.calls) = attempt + 3
        /\ Len(trace.calls) > 0 => reply = trace.calls[Len(trace.calls)].result
    BY <1>0, <2>1, Places
  <2> QED BY <2>2 DEF AmpsRefOf
<1>2. Live(store, reply.ref, "measset")
  BY <1>0, <1>1 DEF EvidenceInv, AmpEvidence
<1>3. /\ reply.ref \in Kinds \X Nat /\ Has(reply.ref) /\ reply.ref[1] = "measset"
      /\ Get(reply.ref) = GetIn(store, reply.ref)
  BY <1>2 DEF Live, HasIn, GetIn, Has, Get, Kinds
<1>4. /\ UNCHANGED <<scn, attempts>>
      /\ \/ Fails({"CLASSIFICATION_FAILED"}) /\ reply' # Raised
         \/ Get(reply.ref) \in Pools /\ Classify(Get(reply.ref))
  <2>1. /\ UNCHANGED <<scn, attempts>>
        /\ \/ /\ Fails({"CLASSIFICATION_FAILED", "INVALID_MEASUREMENT_REF"})
              /\ reply' = Error("INVALID_MEASUREMENT_REF") => ~Has(reply.ref)
              /\ reply' = Raised => reply.ref[1] # "measset"
           \/ Get(reply.ref) \in Pools /\ Classify(Get(reply.ref))
    BY <1>0, <1>3, SetAnalyzed
  <2> QED BY <1>3, <2>1 DEF Fails
<1>5. UNCHANGED <<scn, port, attempt, trigger, runs, held>>
  BY <1>0, <1>4
<1>6. CASE Fails({"CLASSIFICATION_FAILED"}) /\ reply' # Raised
  <2>1. reply'.status # "success"
    BY <1>6 DEF Fails, Error
  <2>2. Escalate("failed", WithCall("classifyAmps"))
    BY <2>1 DEF ClassifyAmps
  <2> QED BY <1>0, <1>4, <1>5, <1>6, <2>2, FailedStep
<1>7. CASE Get(reply.ref) \in Pools /\ Classify(Get(reply.ref))
  <2> DEFINE items == Get(reply.ref)
  <2> HIDE DEF items
  <2>0. items \in Pools /\ Classify(items)
    BY <1>7 DEF items
  <2>1. Makes("classset", items)
    BY <1>0, <2>0, Classified
  <2>2. /\ StoreOK' /\ Grows
        /\ reply'.ref \in {"classset"} \X Nat /\ HasIn(store', reply'.ref)
        /\ GetIn(store', reply'.ref) = items
    BY <1>0, <1>4, <2>1, MakesKeepsStore DEF Kinds
  <2>3. reply'.status = "success" /\ ~Failure(reply') /\ AcceptedReply
    BY <2>1 DEF Makes, Failure, AcceptedReply
  <2>4. GoTo("localize", WithCall("classifyAmps"))
    BY <2>3 DEF ClassifyAmps
  <2>5. Continues("localize")
    BY <1>0, <2>4, ExitEnds
  <2>6. RunStep
    BY <1>0, <1>5, <2>3, <2>5 DEF RunStep, Following
  <2>7. HeldIsTyped'
    BY <1>0 DEF Control, HeldIsTyped
  <2>8. /\ RpdEvidence(store', trace'.calls, attempt')
        /\ ClassEvidence(store', trace'.calls, attempt', held')
        /\ HasSegment(port)' /\ SegmentAmps' = SegmentAmps /\ SegmentAmps # {}
        /\ AmpEvidence(store', trace'.calls, attempt', Measurable(SegmentAmps)')
        /\ GetIn(store', AmpsRefOf(trace'.calls, attempt')) = GetIn(store, AmpsRefOf(trace.calls, attempt))
    BY <1>0, <1>5, <2>2, <2>5, EvidenceCarried
  <2>9. GetIn(store, AmpsRefOf(trace.calls, attempt)) = items
    BY <1>1, <1>3 DEF items
  <2>10. pc' = "localize"
    BY <2>5 DEF Continues
  <2>11. Live(store', reply'.ref, "classset")
    BY <2>2 DEF Live
  <2>12. EvidenceInv'
    BY <2>2, <2>8, <2>9, <2>10, <2>11 DEF EvidenceInv
  <2> QED BY <1>4, <2>2, <2>3, <2>6, <2>7, <2>12
<1> QED BY <1>4, <1>6, <1>7

\* The last step answers from a pool of the run's own reading of the RPD and captures of
\* the amps, and ends the run with the status of the answer.
AnswersFrom(pool) ==
  LET rpd   == GetIn(store, RpdRefOf(trace.calls, attempt))
      items == GetIn(store, AmpsRefOf(trace.calls, attempt))
  IN  /\ IsSeq(pool) /\ Held(pool) = {rpd} \cup Held(items)
      /\ reply' = [status |-> "success", type |-> rpd.class,
                   localization |-> PublicLocalization(Localize(Segment(port), pool))]
      /\ Ends(PublicLocalization(Localize(Segment(port), pool)).status)

\* The last step always gets an answer. Where it is "localized", the run's calls hold what
\* it rests on.
LEMMA LocalizeSourceStep ==
  ASSUME Inv, LocalizeSource
  PROVE  /\ RunStep /\ StoreOK' /\ Grows /\ AcceptedReply /\ HeldIsTyped' /\ EvidenceInv'
         /\ attempts' = attempts
         /\ Ends("low_confidence") \/ Ends("localized")
         /\ \E pool : AnswersFrom(pool)
         /\ Ends("localized") => RestsOnReadings(store', NewCalls, attempt, AmpsOf(scn, port))
<1> DEFINE n == attempt
           calls == trace.calls
           rpd == GetIn(store, RpdRefOf(calls, n))
           items == GetIn(store, AmpsRefOf(calls, n))
           refs == <<held[1], reply.ref>>
           type == held[2]
<1>0. /\ StoreOK /\ Control /\ CallsInv /\ EvidenceInv /\ pc = "localize" /\ Busy
      /\ AfterRpd /\ AfterClassifyRpd /\ AfterAmps /\ AfterMeasure
      /\ UNCHANGED <<port, attempt, trigger, runs, held>>
      /\ LocalizeUpstreamSpectrumImpairmentSource(port, type, refs)
  BY DEF Inv, Busy, AfterClassifyRpd, AfterRpd, AfterAmps, AfterMeasure, LocalizeSource
<1>1. /\ n \in Nat /\ n > 0 /\ Len(calls) = n + 4
      /\ \A i \in 1 .. Len(calls) : NewCalls[i] = calls[i]
      /\ NewCalls[Len(calls) + 1].result = reply'
  <2>1. CallsSince(pc) = 4
    BY <1>0 DEF CallsSince
  <2> QED BY <1>0, <2>1, Places
<1>2. /\ RpdEvidence(store, calls, n) /\ ClassEvidence(store, calls, n, held)
      /\ HasSegment(port) /\ SegmentAmps # {}
      /\ AmpEvidence(store, calls, n, Measurable(SegmentAmps))
      /\ Live(store, reply.ref, "classset") /\ GetIn(store, reply.ref) = items
  BY <1>0 DEF EvidenceInv
<1>3. /\ rpd.device = RpdRef /\ rpd.class # "Clean" /\ type = rpd.class /\ type \in Classes
      /\ Live(store, held[1], "classset") /\ GetIn(store, held[1]) = <<rpd>>
  BY <1>0, <1>2 DEF RpdEvidence, ClassEvidence, Control
<1>4. OneOfEach(items, Measurable(SegmentAmps))
  BY <1>2 DEF AmpEvidence
<1>5. /\ refs \in Seq(Kinds \X Nat) /\ DOMAIN refs = {1, 2}
      /\ refs[1] = held[1] /\ refs[2] = reply.ref
  BY <1>2, <1>3 DEF Live, Kinds
<1> HIDE DEF n, calls, rpd, items, refs, type
<1>6. /\ AllClassifications(refs)
      /\ Get(refs[1]) = <<rpd>> /\ Get(refs[2]) = items
  BY <1>2, <1>3, <1>5 DEF AllClassifications, Live, HasIn, GetIn, Has, Get
<1> DEFINE pool == Pool(refs)
<1>7. pool \in Pools /\ Held(pool) = {rpd} \cup Held(items)
  <2>1. pool \in Pools /\ Held(pool) = UNION {Held(Get(refs[i])) : i \in DOMAIN refs}
    BY <1>0, <1>5, <1>6, PoolHolds
  <2>2. Held(<<rpd>>) = {rpd}
    BY DEF Held
  <2>3. UNION {Held(Get(refs[i])) : i \in DOMAIN refs} = Held(Get(refs[1])) \cup Held(Get(refs[2]))
    BY <1>5
  <2> QED BY <1>6, <2>1, <2>2, <2>3
<1> HIDE DEF pool
<1>8. IsSeq(pool)
  BY <1>7, SeqIsSeq DEF Pools
<1>9. Localizable(port, type, refs)
  <2>1. ImpairedLabels(pool) # {}
    <3>1. \E k \in DOMAIN pool : pool[k] = rpd
      BY <1>7 DEF Held
    <3> QED BY <1>3, <3>1 DEF ImpairedLabels
  <2>2. NodeIds(Segment(port)) # {}
    BY <1>2 DEF SegmentAmps, AmpIds
  <2> QED BY <1>2, <1>3, <1>6, <2>1, <2>2 DEF Localizable, pool
<1> DEFINE public == PublicLocalization(Localize(Segment(port), pool))
<1>10. /\ UNCHANGED <<scn, attempts>> /\ StoreOK' /\ Grows
       /\ reply' = [status |-> "success", type |-> type, localization |-> public]
  BY <1>0, <1>5, <1>9, SourceLocalized DEF pool
<1>11. public.status \in {"localized", "low_confidence"}
  BY LocalizeShape, PublicShape
<1> HIDE DEF public
<1>12. /\ reply'.status = "success" /\ reply'.type = type /\ reply'.localization = public
       /\ ~Failure(reply') /\ AcceptedReply
  BY <1>10 DEF Failure, AcceptedReply
<1>13. HeldIsTyped'
  BY <1>0 DEF Control, HeldIsTyped
<1>14. UNCHANGED <<scn, port, attempt, trigger, runs>>
  BY <1>0, <1>10
<1>14a. Ends(public.status) => \E q : AnswersFrom(q)
  <2> SUFFICES ASSUME Ends(public.status) PROVE AnswersFrom(pool)
    OBVIOUS
  <2> QED BY <1>3, <1>7, <1>8, <1>10 DEF AnswersFrom, rpd, items, n, calls, public
<1>15. CASE public.status = "low_confidence"
  <2>1. Escalate("low_confidence", WithCall("localize"))
    BY <1>12, <1>15 DEF LocalizeSource
  <2>2. Ends("low_confidence")
    BY <1>0, <2>1, ExitEnds
  <2>3. RunStep
    BY <1>0, <1>12, <1>14, <2>2 DEF RunStep
  <2>4. EvidenceInv'
    BY <2>2, IdleHasNoEvidence DEF Ends
  <2>5. ~Ends("localized")
    BY <2>2 DEF Ends, FinalStatus
  <2> QED BY <1>10, <1>12, <1>13, <1>14a, <1>15, <2>2, <2>3, <2>4, <2>5
<1>16. CASE public.status = "localized"
  <2>1. Finish("localized", [WithCall("localize") EXCEPT !.status = "localized"], trigger, FALSE)
    BY <1>12, <1>16 DEF LocalizeSource
  <2>2. Ends("localized")
    BY <1>0, <2>1, ExitEnds
  <2>3. RunStep
    BY <1>0, <1>12, <1>14, <2>2 DEF RunStep
  <2>4. EvidenceInv'
    BY <2>2, IdleHasNoEvidence DEF Ends
  <2> DEFINE impaired == {r \in Held(items) : r.class # "Clean"}
  <2>5. /\ {r.device : r \in Held(items)} = AmpIds(Segment(port))
        /\ {r.class : r \in impaired} = {rpd.class}
        /\ \A c \in public.candidates : c.supporting = {r.device : r \in impaired}
    <3> DEFINE measured == Measurable(SegmentAmps)
               topo == Segment(port)
    <3>1. measured \subseteq AmpIds(topo) /\ RpdRef \notin measured
      BY DEF Measurable, Labelled, SegmentAmps
    <3>2. OneOfEach(items, measured)
      BY <1>4
    <3>3. public = PublicLocalization(Localize(topo, pool))
      BY DEF public
    <3> HIDE DEF measured, topo, impaired
    <3>4. PublicLocalization(Localize(topo, pool)).status = "localized"
      BY <1>16, <3>3
    <3>5. ExplainedBy(PublicLocalization(Localize(topo, pool)), topo, rpd, items)
      BY <1>3, <1>7, <1>8, <3>1, <3>2, <3>4, LocalizedOverReadings
    <3> QED BY <3>3, <3>5 DEF ExplainedBy, impaired, topo
  <2>6. Kept(store, store')
    BY <1>10 DEF Grows
  <2>7. NewCalls[n] = calls[n] /\ NewCalls[n + 3] = calls[n + 3] /\ NewCalls[n + 5].result = reply'
    <3>1. n \in 1 .. Len(calls) /\ n + 3 \in 1 .. Len(calls) /\ Len(calls) + 1 = n + 5
      BY <1>1
    <3> QED BY <1>1, <3>1
  <2>8. /\ Live(store', RpdRefOf(NewCalls, n), "meas") /\ GetIn(store', RpdRefOf(NewCalls, n)) = rpd
    BY <1>2, <2>6, <2>7, RpdEvidenceKept DEF rpd, RpdEvidence
  <2>9. /\ Live(store', AmpsRefOf(NewCalls, n), "measset") /\ GetIn(store', AmpsRefOf(NewCalls, n)) = items
    <3> DEFINE measured == Measurable(SegmentAmps)
    <3>1. AmpEvidence(store, calls, n, measured)
      BY <1>2
    <3> HIDE DEF measured
    <3>2. /\ AmpEvidence(store', NewCalls, n, measured)
          /\ GetIn(store', AmpsRefOf(NewCalls, n)) = GetIn(store, AmpsRefOf(calls, n))
      BY <2>6, <2>7, <3>1, AmpEvidenceKept
    <3> QED BY <3>2 DEF items, AmpEvidence
  <2>10. AmpsOf(scn, port) = AmpIds(Segment(port))
    BY DEF AmpsOf, Segment
  <2>11. RestsOnReadings(store', NewCalls, n, AmpsOf(scn, port))
    BY <1>3, <1>12, <2>5, <2>7, <2>8, <2>9, <2>10 DEF RestsOnReadings
  <2> QED BY <1>10, <1>12, <1>13, <1>14a, <1>16, <2>2, <2>3, <2>4, <2>11 DEF n
<1> QED BY <1>11, <1>15, <1>16

--------------------------------------------------------------------------------
(* The invariant, action by action.                                               *)

\* What a step may add to the results.
LEMMA StepReturns ==
  ASSUME RunStep
  PROVE  \/ returned' = returned
         \/ \E r : /\ returned' = Append(returned, r) /\ r.trace = trace'
                  /\ \E status \in {"failed", "low_confidence", "localized"} :
                       r.status = status /\ Ends(status)
<1>1. ASSUME NEW next, Continues(next) PROVE returned' = returned
  BY <1>1 DEF Continues
<1>2. ASSUME NEW status \in {"failed", "low_confidence", "localized"}, Ends(status), returned' # returned
      PROVE  \E r : returned' = Append(returned, r) /\ r.trace = trace' /\ r.status = status
  <2> DEFINE r == [status |-> status, trace |-> trace', handoff |-> status # "localized"]
  <2>1. returned' = Append(returned, r)
    BY <1>2 DEF Ends
  <2>2. r.trace = trace' /\ r.status = status
    OBVIOUS
  <2> HIDE DEF r
  <2> QED BY <2>1, <2>2
<1>3. (\E next : Continues(next)) \/ \E status \in {"failed", "low_confidence", "localized"} : Ends(status)
  BY DEF RunStep
<1> QED BY <1>1, <1>2, <1>3

Absorbable ==
  "rpd_measurement_unavailable_once" \in scn.faults /\ MaxRemeasure > 0
    /\ scn.faults \cap {"rpd_unreachable", "rpd_stale_only"} = {}

\* A step of a run that does not fail over an absorbable fault keeps the claim that
\* such a fault is absorbed, and the attempts it counts.
LEMMA StepKeepsAbsorbs ==
  ASSUME Control, CallsInv, AbsorbsInv, RunStep, trace'.calls = NewCalls,
         attempts' \in 0 .. 2, pc = "rpd" => attempts' # 0,
         pc = "rpd" /\ Ends("failed") => ~Absorbable
  PROVE  AbsorbsInv'
<1>1. pc' = "rpd" => pc = "rpd"
  BY DEF RunStep, Continues, Ends, Following
<1>2. scn' = scn
  BY DEF RunStep
<1>3. ASSUME Absorbable, NEW i \in DOMAIN returned', returned'[i].status = "failed"
      PROVE  Last(returned'[i].trace.calls).step # "rpd"
  <2>1. CASE returned' = returned
    BY <1>3, <2>1 DEF AbsorbsInv, TransientFaultIsAbsorbed, Absorbable
  <2>2. CASE returned' # returned
    <3>1. PICK r : /\ returned' = Append(returned, r) /\ r.trace = trace'
                   /\ \E status \in {"failed", "low_confidence", "localized"} :
                       r.status = status /\ Ends(status)
      BY <2>2, StepReturns
    <3>2. IsSeq(returned)
      BY DEF Control
    <3>3. /\ DOMAIN returned = 1 .. Len(returned) /\ DOMAIN returned' = 1 .. Len(returned) + 1
          /\ Len(returned) \in Nat
          /\ \A j \in 1 .. Len(returned) : returned'[j] = returned[j]
          /\ returned'[Len(returned) + 1] = r
      BY <3>1, <3>2, AppendKeeps
    <3>4. CASE i \in DOMAIN returned
      BY <1>3, <3>3, <3>4 DEF AbsorbsInv, TransientFaultIsAbsorbed, Absorbable
    <3>5. CASE i = Len(returned) + 1
      <4>1. returned'[i] = r /\ r.status = "failed" /\ Ends("failed")
        BY <1>3, <3>1, <3>3, <3>5
      <4>2. pc # "rpd"
        BY <1>3, <4>1
      <4>3. IsSeq(trace.calls)
        BY DEF CallsInv, Shaped, WellShaped
      <4>4. Len(NewCalls) = Len(trace.calls) + 1 /\ NewCalls[Len(trace.calls) + 1].step = pc
        BY <4>3, CallAdded
      <4>5. Last(NewCalls).step = pc
        BY <4>4 DEF Last
      <4> QED BY <3>1, <4>1, <4>2, <4>5
    <3> QED BY <3>3, <3>4, <3>5
  <2> QED BY <2>1, <2>2
<1>4. TransientFaultIsAbsorbed'
  BY <1>2, <1>3 DEF TransientFaultIsAbsorbed, Absorbable
<1>5. pc' = "rpd" /\ attempts' = 0 => attempt' = 0
  BY <1>1
<1> QED BY <1>4, <1>5 DEF AbsorbsInv

\* All of the above, for a step whose localized result rests on the run's readings.
LEMMA StepKeepsAll ==
  ASSUME Inv, RunStep, StoreOK', Grows, AcceptedReply, HeldIsTyped', EvidenceInv',
         attempts' \in 0 .. 2, pc = "rpd" => attempts' # 0,
         pc = "rpd" /\ Ends("failed") => ~Absorbable,
         Ends("localized") => /\ pc = "localize"
                              /\ RestsOnReadings(store', NewCalls, attempt, AmpsOf(scn, port))
  PROVE  Inv'
<1>0. StoreOK /\ Control /\ CallsInv /\ EvidenceInv /\ LocalizedInv /\ AbsorbsInv
  BY DEF Inv
<1>1. Control'
  BY <1>0, StepKeepsControl
<1>2. CallsInv' /\ Shaped(NewCalls, attempt') /\ trace'.calls = NewCalls
  BY <1>0, StepKeepsCalls
<1>3. AbsorbsInv'
  BY <1>0, <1>2, StepKeepsAbsorbs
<1>4. UNCHANGED <<scn, port>> /\ Busy
  BY DEF RunStep
<1>5. LocalizedInv'
  <2>1. CASE \/ returned' = returned
             \/ \E r : returned' = Append(returned, r) /\ r.status # "localized"
    BY <1>0, <1>4, <2>1, LocalizedKept
  <2>2. CASE \E r : returned' = Append(returned, r) /\ r.trace = trace' /\ Ends("localized")
    <3>1. PICK r : returned' = Append(returned, r) /\ r.trace = trace'
      BY <2>2
    <3>2. IsSeq(returned)
      BY <1>0 DEF Control
    <3>3. /\ DOMAIN returned = 1 .. Len(returned) /\ DOMAIN returned' = 1 .. Len(returned) + 1
          /\ Len(returned) \in Nat
          /\ \A j \in 1 .. Len(returned) : returned'[j] = returned[j]
          /\ returned'[Len(returned) + 1] = r
      BY <3>1, <3>2, AppendKeeps
    <3>4. /\ pc = "localize" /\ AfterRpd
          /\ RestsOnReadings(store', NewCalls, attempt, AmpsOf(scn, port))
      BY <2>2 DEF AfterRpd
    <3>5. /\ attempt \in Nat /\ attempt > 0 /\ Len(trace.calls) = attempt + 4
      <4>1. CallsSince(pc) = 4
        BY <3>4 DEF CallsSince
      <4> QED BY <1>0, <1>4, <3>4, <4>1, Places
    <3>6. /\ Len(NewCalls) = attempt + 5 /\ Shaped(NewCalls, attempt) /\ NewCalls[1].port = port
      <4>1. IsSeq(trace.calls)
        BY <1>0 DEF CallsInv, Shaped, WellShaped
      <4>2. /\ Len(NewCalls) = Len(trace.calls) + 1
            /\ \A k \in 1 .. Len(trace.calls) : NewCalls[k] = trace.calls[k]
            /\ DOMAIN trace.calls = 1 .. Len(trace.calls)
        BY <4>1, CallAdded
      <4>3. 1 \in 1 .. Len(trace.calls)
        BY <3>5
      <4>4. trace.calls[1].port = port
        BY <1>0, <1>4, <4>2, <4>3 DEF CallsInv
      <4>5. attempt' = attempt
        BY <3>4 DEF RunStep
      <4>6. NewCalls[1] = trace.calls[1]
        BY <4>2, <4>3
      <4>7. Len(NewCalls) = attempt + 5
        BY <3>5, <4>2
      <4> QED BY <1>2, <4>4, <4>5, <4>6, <4>7
    <3>7. attempt \in 1 .. MaxRemeasure + 1
      <4>1. attempt \in 0 .. MaxRemeasure + 1
        BY <1>0 DEF Control
      <4> QED BY <3>5, <4>1
    <3>8. RestsOnOwn(store', scn, r)
      <4> DEFINE n == attempt
                 calls == r.trace.calls
      <4>1. calls = NewCalls
        BY <1>2, <3>1
      <4>2. /\ Shaped(calls, n) /\ Len(calls) = n + 5
            /\ RestsOnReadings(store', calls, n, AmpsOf(scn, calls[1].port))
        BY <3>4, <3>6, <4>1
      <4>3. n \in 1 .. MaxRemeasure + 1
        BY <3>7
      <4> HIDE DEF n, calls
      <4>4. \E k \in 1 .. MaxRemeasure + 1 :
              /\ Shaped(calls, k) /\ Len(calls) = k + 5
              /\ RestsOnReadings(store', calls, k, AmpsOf(scn, calls[1].port))
        BY <4>2, <4>3
      <4> QED BY <4>4 DEF RestsOnOwn, calls
    <3>9. \A i \in DOMAIN returned :
            returned[i].status = "localized" => RestsOnOwn(store', scn, returned[i])
      BY <1>0, RestsKept DEF Grows, LocalizedInv
    <3> QED BY <1>4, <3>3, <3>8, <3>9 DEF LocalizedInv
  <2>3. \/ returned' = returned
        \/ \E r : returned' = Append(returned, r) /\ r.status # "localized"
        \/ \E r : returned' = Append(returned, r) /\ r.trace = trace' /\ Ends("localized")
    BY StepReturns
  <2> QED BY <2>1, <2>2, <2>3
<1> QED BY <1>1, <1>2, <1>3, <1>5 DEF Inv

\* Every step of a run keeps the invariant, and is one of the shapes of RunStep.
LEMMA StepKeepsInv ==
  ASSUME Inv, Step
  PROVE  Inv' /\ RunStep
<1>0. attempts \in 0 .. 2 /\ pc \in Steps \cup {"idle"} /\ (pc = "rpd" => attempt <= MaxRemeasure)
      /\ (pc = "rpd" /\ attempts = 0 => attempt = 0)
  BY DEF Inv, AbsorbsInv, Control
<1>1. CASE CaptureRpd
  <2>1. /\ RunStep /\ StoreOK' /\ Grows /\ AcceptedReply /\ HeldIsTyped' /\ EvidenceInv'
        /\ attempts' \in 1 .. 2
        /\ Failure(reply') => \E code \in RpdFault(attempts + 1) : reply' = Error(code)
    BY <1>1, CaptureRpdStep
  <2>2. pc = "rpd"
    BY <1>1 DEF CaptureRpd
  <2>3. Ends("failed") => ~Absorbable
    <3> SUFFICES ASSUME Ends("failed"), Absorbable PROVE FALSE
      OBVIOUS
    <3>1. Failure(reply') /\ ~(reply'.status = "error" /\ Retries(reply'.code))
      <4>1. trace'.status = "failed"
        BY DEF Ends, FinalStatus
      <4>2. pc' = "idle"
        BY DEF Ends
      <4> QED BY <2>1, <2>2, <4>1, <4>2 DEF RunStep, Continues, Ends, FinalStatus, Following
    <3>2. PICK code \in RpdFault(attempts + 1) : reply' = Error(code)
      BY <2>1, <3>1
    <3>3. code = "MEASUREMENT_UNAVAILABLE" /\ attempts + 1 = 1
      BY DEF Absorbable, RpdFault
    <3>4. attempt = 0 /\ MaxRemeasure > 0
      BY <1>0, <2>2, <3>3 DEF Absorbable
    <3>5. Retries(reply'.code) /\ reply'.status = "error"
      BY <3>2, <3>3, <3>4 DEF Retries, Transient, Error
    <3> QED BY <3>1, <3>5
  <2>4. ~Ends("localized")
    BY <2>1, <2>2 DEF RunStep, Continues, Ends, FinalStatus, Following
  <2> QED BY <2>1, <2>2, <2>3, <2>4, StepKeepsAll
<1>2. CASE ClassifyRpd
  <2>1. /\ RunStep /\ StoreOK' /\ Grows /\ AcceptedReply /\ HeldIsTyped' /\ EvidenceInv'
        /\ attempts' = attempts
    BY <1>2, ClassifyRpdStep
  <2>2. pc = "classifyRpd"
    BY <1>2 DEF ClassifyRpd
  <2>3. ~Ends("localized")
    BY <2>1, <2>2 DEF RunStep, Continues, Ends, FinalStatus, Following
  <2> QED BY <1>0, <2>1, <2>2, <2>3, StepKeepsAll
<1>3. CASE ListAmps
  <2>1. /\ RunStep /\ StoreOK' /\ Grows /\ AcceptedReply /\ HeldIsTyped' /\ EvidenceInv'
        /\ attempts' = attempts
    BY <1>3, ListAmpsStep
  <2>2. pc = "amps"
    BY <1>3 DEF ListAmps
  <2>3. ~Ends("localized")
    BY <2>1, <2>2 DEF RunStep, Continues, Ends, FinalStatus, Following
  <2> QED BY <1>0, <2>1, <2>2, <2>3, StepKeepsAll
<1>4. CASE MeasureSegment
  <2>1. /\ RunStep /\ StoreOK' /\ Grows /\ AcceptedReply /\ HeldIsTyped' /\ EvidenceInv'
        /\ attempts' = attempts
    BY <1>4, MeasureSegmentStep
  <2>2. pc = "measure"
    BY <1>4 DEF MeasureSegment
  <2>3. ~Ends("localized")
    BY <2>1, <2>2 DEF RunStep, Continues, Ends, FinalStatus, Following
  <2> QED BY <1>0, <2>1, <2>2, <2>3, StepKeepsAll
<1>5. CASE ClassifyAmps
  <2>1. /\ RunStep /\ StoreOK' /\ Grows /\ AcceptedReply /\ HeldIsTyped' /\ EvidenceInv'
        /\ attempts' = attempts
    BY <1>5, ClassifyAmpsStep
  <2>2. pc = "classifyAmps"
    BY <1>5 DEF ClassifyAmps
  <2>3. ~Ends("localized")
    BY <2>1, <2>2 DEF RunStep, Continues, Ends, FinalStatus, Following
  <2> QED BY <1>0, <2>1, <2>2, <2>3, StepKeepsAll
<1>6. CASE LocalizeSource
  <2>1. /\ RunStep /\ StoreOK' /\ Grows /\ AcceptedReply /\ HeldIsTyped' /\ EvidenceInv'
        /\ attempts' = attempts
        /\ Ends("localized") => RestsOnReadings(store', NewCalls, attempt, AmpsOf(scn, port))
    BY <1>6, LocalizeSourceStep
  <2>2. pc = "localize"
    BY <1>6 DEF LocalizeSource
  <2> QED BY <1>0, <2>1, <2>2, StepKeepsAll
<1>7. Inv'
  BY <1>1, <1>2, <1>3, <1>4, <1>5, <1>6 DEF Step
<1>8. RunStep
  BY CaptureRpdStep, ClassifyRpdStep, ListAmpsStep, MeasureSegmentStep, ClassifyAmpsStep,
     LocalizeSourceStep DEF Step
<1> QED BY <1>7, <1>8

\* A run's calls before it has made any.
LEMMA NoCalls ==
  /\ IsSeq(<<>>) /\ Len(<<>>) = 0 /\ DOMAIN <<>> = {}
  /\ Shaped(<<>>, 0) /\ WellShaped(<<>>) /\ Accepted(<<>>)
<1>1. IsSeq(<<>>) /\ Len(<<>>) = 0 /\ DOMAIN <<>> = {}
  BY DEF IsSeq
<1>2. Shaped(<<>>, 0)
  BY <1>1 DEF Shaped
<1>3. 0 \in 0 .. MaxRemeasure + 1
  BY MaxRemeasureNat
<1> QED BY <1>1, <1>2, <1>3 DEF WellShaped, Accepted

\* The traces of a run that starts and of one that is turned away.
TurnedAway == [NewTrace EXCEPT !.status = "not_triggered"]

\* The record a run starts with and the record of an alarm turned away are traces with
\* no call.
LEMMA TracesAreTraces ==
  /\ IsTrace(NewTrace) /\ NewTrace.calls = <<>> /\ NewTrace.status = "" /\ NewTrace.label = "positive"
  /\ IsTrace(TurnedAway) /\ TurnedAway.calls = <<>> /\ TurnedAway.status = "not_triggered"
  /\ TurnedAway.label = "positive"
<1> DEFINE none == <<>>
<1>1. NewTrace = [calls |-> none, status |-> "", label |-> "positive"]
  BY DEF NewTrace
<1> HIDE DEF none
<1>2. /\ NewTrace.calls = none /\ NewTrace.status = "" /\ NewTrace.label = "positive"
  BY <1>1
<1>3. TurnedAway = [calls |-> none, status |-> "not_triggered", label |-> "positive"]
  <2> DEFINE status == "not_triggered"
  <2> HIDE DEF status
  <2>1. \A w, x : w = [calls |-> none, status |-> x, label |-> "positive"] =>
          [w EXCEPT !.status = status] = [calls |-> none, status |-> status, label |-> "positive"]
    OBVIOUS
  <2>2. TurnedAway = [NewTrace EXCEPT !.status = status]
    BY DEF TurnedAway, status
  <2> QED BY <1>1, <2>1, <2>2 DEF status
<1>4. /\ TurnedAway.calls = none /\ TurnedAway.status = "not_triggered" /\ TurnedAway.label = "positive"
  BY <1>3
<1>5. IsTrace(NewTrace)
  BY <1>1, <1>2 DEF IsTrace
<1>6. IsTrace(TurnedAway)
  BY <1>3, <1>4 DEF IsTrace
<1> QED BY <1>2, <1>4, <1>5, <1>6 DEF none

\* A run that starts finds the object as the last one left it, and resets what is its own.
LEMMA BeginKeepsInv ==
  ASSUME Inv, NEW p \in Ports, Begin(p), trigger' \in {{}, {"call"}, {"noCall"}}
  PROVE  Inv'
<1>0. StoreOK /\ Control /\ CallsInv /\ LocalizedInv /\ AbsorbsInv
  BY DEF Inv
<1>1. /\ pc = "idle" /\ pc' = "rpd" /\ runs < MaxRuns /\ runs' = runs + 1 /\ port' = p
      /\ attempt' = 0 /\ held' = <<>> /\ trace' = NewTrace
      /\ UNCHANGED <<scn, store, attempts, reply, audit, returned>>
  BY DEF Begin, serverVars
<1>2. StoreOK' /\ Grows
  BY <1>0, <1>1, NothingStored
<1>3. Control'
  <2>1. /\ runs \in 0 .. MaxRuns /\ IsSeq(audit) /\ IsSeq(returned) /\ Len(audit) + 0 <= runs
        /\ Len(audit) \in Nat
    BY <1>0, <1>1, SeqIsSeq DEF Control, Busy, IsSeq
  <2>2. runs' \in 0 .. MaxRuns /\ Len(audit') + 1 <= runs' /\ attempt' \in 0 .. MaxRemeasure + 1
        /\ attempt' <= MaxRemeasure
    BY <1>1, <2>1, MaxRunsNat, MaxRemeasureNat
  <2>3. /\ IsTrace(trace') /\ trace'.status = "" /\ trace'.label = "positive"
    BY <1>1, TracesAreTraces
  <2> QED BY <1>1, <2>1, <2>2, <2>3 DEF Control, Busy, Steps
<1>4. CallsInv'
  <2>1. trace'.calls = <<>>
    BY <1>1, TracesAreTraces
  <2>2. /\ DOMAIN <<>> = {} /\ Len(<<>>) = 0
        /\ Shaped(<<>>, 0) /\ WellShaped(<<>>) /\ Accepted(<<>>)
    BY NoCalls
  <2> QED BY <1>0, <1>1, <2>1, <2>2 DEF CallsInv, Busy, AfterRpd, CallsSince
<1>5. EvidenceInv'
  BY <1>1, IdleHasNoEvidence
<1>6. LocalizedInv'
  BY <1>0, <1>1, <1>2, LocalizedKept
<1>7. AbsorbsInv'
  BY <1>0, <1>1 DEF AbsorbsInv, TransientFaultIsAbsorbed
<1> QED BY <1>2, <1>3, <1>4, <1>5, <1>6, <1>7 DEF Inv

\* Turning an alarm away disturbs nothing of the runs already finished.
LEMMA RejectKeepsInv ==
  ASSUME Inv, NEW alarm \in Alarms, RejectAlarm(alarm)
  PROVE  Inv'
<1> DEFINE turned == TurnedAway
<1>0. StoreOK /\ Control /\ CallsInv /\ LocalizedInv /\ AbsorbsInv
  BY DEF Inv
<1>1. /\ pc = "idle" /\ pc' = "idle" /\ runs < MaxRuns /\ runs' = runs + 1
      /\ trigger' = {Verdict(alarm)} /\ trace' = turned
      /\ UNCHANGED <<scn, store, attempts, reply, port, attempt, held>>
      /\ \/ \E a, r : /\ audit' = Append(audit, a) /\ returned' = Append(returned, r)
                      /\ r.status = "not_triggered" /\ r.trace = turned
         \/ UNCHANGED <<audit, returned>>
  <2> DEFINE a == AuditRecord(turned, {Verdict(alarm)})
             r == [status |-> "not_triggered", trace |-> turned, handoff |-> FALSE]
  <2>1. /\ pc = "idle" /\ pc' = "idle" /\ runs < MaxRuns /\ runs' = runs + 1
        /\ trigger' = {Verdict(alarm)} /\ trace' = turned
        /\ UNCHANGED <<scn, store, attempts, reply, port, attempt, held>>
        /\ \/ audit' = Append(audit, a) /\ returned' = Append(returned, r)
           \/ UNCHANGED <<audit, returned>>
    BY DEF RejectAlarm, Finish, serverVars, TurnedAway
  <2>2. r.status = "not_triggered" /\ r.trace = turned
    OBVIOUS
  <2> HIDE DEF a, r, turned
  <2> QED BY <2>1, <2>2
<1>2. /\ IsTrace(turned) /\ turned.calls = <<>> /\ turned.status = "not_triggered"
      /\ DOMAIN <<>> = {}
  BY TracesAreTraces, NoCalls
<1> HIDE DEF turned
<1>3. StoreOK' /\ Grows
  BY <1>0, <1>1, NothingStored
<1>4. /\ IsSeq(audit) /\ IsSeq(returned) /\ runs \in 0 .. MaxRuns /\ Len(audit) + 0 <= runs
      /\ Len(audit) \in Nat
  BY <1>0, <1>1, SeqIsSeq DEF Control, Busy, IsSeq
<1>5. IsSeq(audit') /\ IsSeq(returned') /\ Len(audit') \in {Len(audit), Len(audit) + 1}
  <2>1. CASE UNCHANGED <<audit, returned>>
    BY <1>4, <2>1
  <2>2. CASE ~UNCHANGED <<audit, returned>>
    <3> PICK a, r : audit' = Append(audit, a) /\ returned' = Append(returned, r)
      BY <1>1, <2>2
    <3> QED BY <1>4, AppendKeeps
  <2> QED BY <2>1, <2>2
<1>6. Control'
  <2>1. runs' \in 0 .. MaxRuns /\ Len(audit') <= runs' /\ Len(audit') + 0 <= runs'
    BY <1>1, <1>4, <1>5, MaxRunsNat
  <2>2. trigger' \in {{}, {"call"}, {"noCall"}}
    BY <1>1 DEF Verdict
  <2>3. /\ port \in Ports /\ attempt \in 0 .. MaxRemeasure + 1
        /\ held # <<>> => (held[1] \in Kinds \X Nat /\ held[2] \in Classes)
    BY <1>0 DEF Control
  <2> QED BY <1>1, <1>2, <1>5, <2>1, <2>2, <2>3 DEF Control, Busy
<1>7. CallsInv'
  <2>1. WellShaped(<<>>) /\ Accepted(<<>>)
    BY NoCalls
  <2>2. ASSUME NEW i \in DOMAIN returned'
        PROVE  WellShaped(returned'[i].trace.calls) /\ Accepted(returned'[i].trace.calls)
    <3>1. CASE returned' = returned
      BY <1>0, <3>1 DEF CallsInv
    <3>2. CASE returned' # returned
      <4>1. PICK r : returned' = Append(returned, r) /\ r.trace = turned
        BY <1>1, <3>2
      <4>2. /\ DOMAIN returned = 1 .. Len(returned) /\ DOMAIN returned' = 1 .. Len(returned) + 1
            /\ Len(returned) \in Nat
            /\ \A j \in 1 .. Len(returned) : returned'[j] = returned[j]
            /\ returned'[Len(returned) + 1] = r
        BY <1>4, <4>1, AppendKeeps
      <4> QED BY <1>0, <1>2, <2>1, <4>1, <4>2 DEF CallsInv
    <3> QED BY <3>1, <3>2
  <2> QED BY <1>1, <1>2, <2>1, <2>2 DEF CallsInv, Busy, AfterRpd
<1>8. EvidenceInv'
  BY <1>1, IdleHasNoEvidence
<1>9. \/ returned' = returned
      \/ \E r : returned' = Append(returned, r) /\ r.status = "not_triggered"
  BY <1>1
<1>10. LocalizedInv'
  BY <1>0, <1>1, <1>3, <1>9, LocalizedKept
<1>11. AbsorbsInv'
  <2>1. ASSUME NEW i \in DOMAIN returned', returned'[i].status = "failed"
        PROVE  i \in DOMAIN returned /\ returned'[i] = returned[i]
    <3>1. CASE returned' = returned
      BY <2>1, <3>1
    <3>2. CASE returned' # returned
      <4>1. PICK r : returned' = Append(returned, r) /\ r.status = "not_triggered"
        BY <1>9, <3>2
      <4> QED BY <1>4, <2>1, <4>1, AppendKeeps
    <3> QED BY <3>1, <3>2
  <2> QED BY <1>0, <1>1, <2>1 DEF AbsorbsInv, TransientFaultIsAbsorbed
<1> QED BY <1>3, <1>6, <1>7, <1>8, <1>10, <1>11 DEF Inv

\* The invariant holds before the first alarm.
LEMMA InitInv == Init => Inv
<1> SUFFICES ASSUME Init PROVE Inv
  OBVIOUS
<1>1. /\ pc = "idle" /\ port \in Ports /\ attempt = 0 /\ held = <<>> /\ trace = NewTrace
      /\ trigger = {} /\ audit = <<>> /\ returned = <<>> /\ runs = 0 /\ attempts = 0
      /\ ServerInit
  BY AlarmsNamePorts DEF Init, ServerInit
<1>2. StoreOK
  BY <1>1, InitStoreOK
<1>3. IsSeq(<<>>) /\ Len(<<>>) = 0 /\ DOMAIN <<>> = {}
  BY NoCalls
<1>4. /\ IsTrace(trace) /\ trace.calls = <<>> /\ trace.status = ""
  BY <1>1, TracesAreTraces
<1>5. Control
  <2>1. 0 \in 0 .. MaxRuns /\ 0 \in 0 .. MaxRemeasure + 1
    BY MaxRunsNat, MaxRemeasureNat
  <2>2. ~Busy /\ Len(audit) + (IF Busy THEN 1 ELSE 0) <= runs
    BY <1>1, <1>3 DEF Busy
  <2>3. IsSeq(audit) /\ IsSeq(returned)
    BY <1>1, <1>3
  <2> QED BY <1>1, <1>4, <2>1, <2>2, <2>3 DEF Control
<1>6. CallsInv
  BY <1>1, <1>3, <1>4, NoCalls DEF CallsInv, Busy, AfterRpd
<1>7. EvidenceInv
  BY <1>1 DEF EvidenceInv, AfterRpd, AfterClassifyRpd, AfterAmps, AfterMeasure
<1>8. LocalizedInv
  BY <1>1, <1>3 DEF LocalizedInv
<1>9. AbsorbsInv
  BY <1>1, <1>3 DEF AbsorbsInv, TransientFaultIsAbsorbed
<1> QED BY <1>2, <1>5, <1>6, <1>7, <1>8, <1>9 DEF Inv

\* Every step keeps the invariant.
LEMMA NextKeepsInv == Inv /\ [Next]_vars => Inv'
<1> SUFFICES ASSUME Inv, [Next]_vars PROVE Inv'
  OBVIOUS
<1>1. CASE \E p \in Ports : Run(p)
  <2> PICK p \in Ports : Run(p)
    BY <1>1
  <2>1. trigger' \in {{}, {"call"}, {"noCall"}}
    BY DEF Run, Inv, Control
  <2> QED BY <2>1, BeginKeepsInv DEF Run
<1>2. CASE \E alarm \in Alarms : RunFromAlarm(alarm)
  <2> PICK alarm \in Alarms : RunFromAlarm(alarm)
    BY <1>2
  <2>1. PICK p \in alarm.port : Begin(p)
    BY DEF RunFromAlarm
  <2>2. p \in Ports
    BY AlarmsNamePorts
  <2>3. trigger' \in {{}, {"call"}, {"noCall"}}
    BY DEF RunFromAlarm, Verdict
  <2> QED BY <2>1, <2>2, <2>3, BeginKeepsInv
<1>3. CASE \E alarm \in Alarms : RejectAlarm(alarm)
  BY <1>3, RejectKeepsInv
<1>4. CASE Step
  BY <1>4, StepKeepsInv
<1>5. CASE UNCHANGED vars
  <2>1. UNCHANGED <<scn, store, attempts, reply, pc, port, attempt, held, trace, trigger, audit,
                    returned, runs>>
    BY <1>5 DEF vars, serverVars, runVars
  <2>2. StoreOK' /\ Grows
    BY <2>1, NothingStored DEF Inv
  <2>3. Control'
    BY <2>1 DEF Inv, Control, Busy
  <2>4. CallsInv'
    BY <2>1 DEF Inv, CallsInv, Busy, AfterRpd
  <2>5. EvidenceInv'
    BY <2>1 DEF Inv, EvidenceInv, AfterRpd, AfterClassifyRpd, AfterAmps, AfterMeasure,
                HasSegment, SegmentAmps, Segment, Measurable, Labelled
  <2>6. LocalizedInv'
    BY <2>1 DEF Inv, LocalizedInv
  <2>7. AbsorbsInv'
    BY <2>1 DEF Inv, AbsorbsInv, TransientFaultIsAbsorbed
  <2> QED BY <2>2, <2>3, <2>4, <2>5, <2>6, <2>7 DEF Inv
<1> QED BY <1>1, <1>2, <1>3, <1>4, <1>5 DEF Next, Stopped

\* The invariant that the theorems follow from: the state of the store, the place of the run,
\* the shape of its calls, the evidence behind its handles, and what results rest on.
THEOREM InvHolds == Spec => []Inv
BY InitInv, NextKeepsInv, PTL DEF Spec

--------------------------------------------------------------------------------
(* What the runs check, for every value of the constants.                          *)

\* Type correctness: no reply and no exit leaves the object, its trace or the records in a
\* shape that the next step does not expect.
THEOREM TypeCorrect == Spec => []TypeOK
<1>1. Inv => TypeOK
  <2> SUFFICES ASSUME Inv PROVE TypeOK
    OBVIOUS
  <2>1. IsSeq(audit) /\ Len(audit) + (IF Busy THEN 1 ELSE 0) <= runs /\ runs \in 0 .. MaxRuns
    BY DEF Inv, Control
  <2>2. Len(audit) \in Nat
    BY <2>1, SeqIsSeq DEF IsSeq
  <2>3. Len(audit) <= runs
    BY <2>1, <2>2
  <2> QED BY <2>3 DEF Inv, Control, TypeOK
<1> QED BY <1>1, InvHolds, PTL

\* The captures of calls of that shape, and where its other steps are.
LEMMA ShapeTells ==
  ASSUME NEW tr, NEW n \in 0 .. MaxRemeasure + 1, Shaped(tr.calls, n)
  PROVE  /\ CaptureCalls(tr) = 1 .. n /\ Cardinality(CaptureCalls(tr)) = n
         /\ Len(tr.calls) \in Nat /\ DOMAIN tr.calls = 1 .. Len(tr.calls)
         /\ Len(tr.calls) = n + 5 =>
              /\ {i \in DOMAIN tr.calls : tr.calls[i].step = "measure"} = {n + 3}
              /\ {i \in DOMAIN tr.calls : tr.calls[i].step = "localize"} = {n + 5}
<1> DEFINE calls == tr.calls
<1>1. /\ Len(calls) \in Nat /\ DOMAIN calls = 1 .. Len(calls)
      /\ n <= Len(calls) /\ Len(calls) <= n + 5
      /\ \A i \in DOMAIN calls : calls[i].step = IF i <= n THEN "rpd" ELSE Chain[i - n + 1]
  BY SeqIsSeq DEF Shaped, IsSeq
<1> HIDE DEF calls
<1>2. n \in Nat
  BY MaxRemeasureNat
<1>3. \A i \in 1 .. Len(calls) :
        /\ i <= n => calls[i].step = "rpd"
        /\ i = n + 1 => calls[i].step = "classifyRpd"
        /\ i = n + 2 => calls[i].step = "amps"
        /\ i = n + 3 => calls[i].step = "measure"
        /\ i = n + 4 => calls[i].step = "classifyAmps"
        /\ i = n + 5 => calls[i].step = "localize"
        /\ i <= n \/ i \in {n + 1, n + 2, n + 3, n + 4, n + 5}
  BY <1>1, <1>2, SMTT(20) DEF Chain
<1>4. {i \in DOMAIN calls : calls[i].step = "rpd"} = 1 .. n
  BY <1>1, <1>2, <1>3
<1>5. Cardinality(1 .. n) = n
  BY <1>2, FS_Interval
<1>6. Len(calls) = n + 5 =>
        /\ {i \in DOMAIN calls : calls[i].step = "measure"} = {n + 3}
        /\ {i \in DOMAIN calls : calls[i].step = "localize"} = {n + 5}
  BY <1>1, <1>2, <1>3
<1> QED BY <1>1, <1>4, <1>5, <1>6 DEF CaptureCalls, calls

\* Every run's calls are the fixed chain, cut short at the first failure that is not a
\* transient one of the capture, with at most max_remeasure + 1 captures.
THEOREM ChainHolds == Spec => []ChainStopsAtFailure
<1>1. Inv => ChainStopsAtFailure
  <2> SUFFICES ASSUME Inv, NEW tr \in Traces
               PROVE  LET n == Cardinality(CaptureCalls(tr))
                      IN  /\ n <= MaxRemeasure + 1
                          /\ \A i \in DOMAIN tr.calls :
                               tr.calls[i].step = IF i <= n THEN "rpd" ELSE Chain[i - n + 1]
                          /\ \A i \in 1 .. Len(tr.calls) - 1 :
                               Failed(tr.calls[i]) => /\ Transient(tr.calls[i].result.code)
                                                      /\ tr.calls[i + 1].step = "rpd"
    BY DEF ChainStopsAtFailure
  <2>1. WellShaped(tr.calls)
    BY DEF Inv, CallsInv, Traces
  <2>2. PICK n \in 0 .. MaxRemeasure + 1 : Shaped(tr.calls, n)
    BY <2>1 DEF WellShaped
  <2>3. Cardinality(CaptureCalls(tr)) = n
    BY <2>2, ShapeTells
  <2>4. n <= MaxRemeasure + 1
    BY MaxRemeasureNat
  <2> QED BY <2>2, <2>3, <2>4 DEF Shaped
<1> QED BY <1>1, InvHolds, PTL

\* No call of a run is refused for its handles or makes a tool raise, and a run that gets to
\* the localization gets an answer.
THEOREM RequestsHold == Spec => []RequestsAreAccepted
<1>1. Inv => RequestsAreAccepted
  <2> SUFFICES ASSUME Inv, NEW tr \in Traces PROVE Accepted(tr.calls)
    BY DEF RequestsAreAccepted, Accepted
  <2> QED BY DEF Inv, CallsInv, Traces
<1> QED BY <1>1, InvHolds, PTL

\* A localized result rests on all of the run's own readings, and on nothing else.
THEOREM LocalizedHolds == Spec => []LocalizedRestsOnOwnReadings
<1>1. Inv => LocalizedRestsOnOwnReadings
  <2> SUFFICES ASSUME Inv, NEW i \in DOMAIN returned, returned[i].status = "localized"
               PROVE  LET tr == returned[i].trace
                          impaired == {r \in AmpReadings(tr) : r.class # "Clean"}
                          answer == ReplyOf(tr, "localize")
                      IN  /\ {r.device : r \in AmpReadings(tr)} = AmpIds(Segment(tr.calls[1].port))
                          /\ {r.class : r \in impaired} = {RpdReading(tr)}
                          /\ answer.type = RpdReading(tr)
                          /\ \A c \in answer.localization.candidates :
                               c.supporting = {r.device : r \in impaired}
    BY DEF LocalizedRestsOnOwnReadings
  <2> DEFINE tr == returned[i].trace
             calls == tr.calls
             amps == AmpsOf(scn, calls[1].port)
  <2>1. PICK n \in 1 .. MaxRemeasure + 1 :
          /\ Shaped(calls, n) /\ Len(calls) = n + 5
          /\ RestsOnReadings(store, calls, n, amps)
    BY DEF Inv, LocalizedInv, RestsOnOwn
  <2>2. amps = AmpIds(Segment(calls[1].port))
    BY DEF AmpsOf, Segment
  <2> HIDE DEF tr
  <2>3. n \in Nat /\ n > 0 /\ n \in 0 .. MaxRemeasure + 1
    BY MaxRemeasureNat
  <2>4. /\ CaptureCalls(tr) = 1 .. n
        /\ {k \in DOMAIN calls : calls[k].step = "measure"} = {n + 3}
        /\ {k \in DOMAIN calls : calls[k].step = "localize"} = {n + 5}
    BY <2>1, <2>3, ShapeTells
  <2>5. Max(1 .. n) = n /\ Max({n + 3}) = n + 3 /\ Max({n + 5}) = n + 5
    BY <2>3, MaxOfOne, MaxOfInterval
  <2>6. /\ ReplyOf(tr, "rpd") = calls[n].result
        /\ ReplyOf(tr, "measure") = calls[n + 3].result
        /\ ReplyOf(tr, "localize") = calls[n + 5].result
    BY <2>4, <2>5 DEF ReplyOf, CaptureCalls
  <2>7. /\ RpdReading(tr) = GetIn(store, RpdRefOf(calls, n)).class
        /\ AmpReadings(tr) = Held(GetIn(store, AmpsRefOf(calls, n)))
    BY <2>6 DEF RpdReading, AmpReadings, Get, GetIn, RpdRefOf, AmpsRefOf, Held
  <2> HIDE DEF calls, amps
  <2>8. LET impaired == {r \in AmpReadings(tr) : r.class # "Clean"}
            answer == ReplyOf(tr, "localize")
        IN  /\ {r.device : r \in AmpReadings(tr)} = amps
            /\ {r.class : r \in impaired} = {RpdReading(tr)}
            /\ answer.type = RpdReading(tr)
            /\ \A c \in answer.localization.candidates :
                 c.supporting = {r.device : r \in impaired}
    BY <2>1, <2>6, <2>7 DEF RestsOnReadings
  <2> QED BY <2>2, <2>8 DEF tr, calls
<1> QED BY <1>1, InvHolds, PTL

\* A run that may measure again is never failed by a capture that is unavailable once.
THEOREM TransientHolds == Spec => []TransientFaultIsAbsorbed
<1>1. Inv => TransientFaultIsAbsorbed
  BY DEF Inv, AbsorbsInv
<1> QED BY <1>1, InvHolds, PTL

--------------------------------------------------------------------------------
(* Results and audit records.                                                     *)

\* A record and the result that it was written for.
Matches(record, result) ==
  /\ record.trace = result.trace
  /\ result.status \in {"localized", "failed", "low_confidence", "not_triggered"}
  /\ result.handoff \in BOOLEAN
  /\ \A s \in {"localized", "failed", "not_triggered"} : result.status = s <=> record.trace.status = s
  /\ result.handoff <=> record.trace.label = "negative"
  /\ result.handoff <=> result.status \in {"failed", "low_confidence"}

AuditInv ==
  /\ IsSeq(audit) /\ IsSeq(returned)
  /\ Len(audit) = Len(returned)
  /\ \A i \in DOMAIN returned : Matches(audit[i], returned[i])

\* One more pair, or none, for a final status that the result has.
Reports(status) ==
  \/ UNCHANGED <<audit, returned>>
  \/ \E a, r : /\ audit' = Append(audit, a) /\ returned' = Append(returned, r)
              /\ Matches(a, r) /\ r.status = status

\* A run that ends reports its status in the result it returns and in the trace it
\* stores.
LEMMA EndReports ==
  ASSUME Control, Busy, NEW status \in {"localized", "failed", "low_confidence"}, Ends(status)
  PROVE  Reports(status)
<1> DEFINE a == AuditRecord(trace', trigger)
           r == [status |-> status, trace |-> trace', handoff |-> status # "localized"]
<1>1. UNCHANGED <<audit, returned>> \/ (audit' = Append(audit, a) /\ returned' = Append(returned, r))
  BY DEF Ends
<1>2. /\ trace'.status = FinalStatus(status)
      /\ trace'.label = IF status = "localized" THEN "positive" ELSE "negative"
  BY DEF Ends, Control
<1>3. a.trace = trace' /\ r.trace = trace' /\ r.status = status /\ r.handoff = (status # "localized")
  BY DEF AuditRecord
<1> HIDE DEF a, r
<1>4. Matches(a, r)
  BY <1>2, <1>3 DEF Matches, FinalStatus
<1> QED BY <1>1, <1>3, <1>4 DEF Reports

\* An alarm turned away is reported as not triggered.
LEMMA RejectReports ==
  ASSUME NEW alarm, RejectAlarm(alarm)
  PROVE  Reports("not_triggered")
<1> DEFINE a == AuditRecord(TurnedAway, {Verdict(alarm)})
           r == [status |-> "not_triggered", trace |-> TurnedAway, handoff |-> FALSE]
<1>1. UNCHANGED <<audit, returned>> \/ (audit' = Append(audit, a) /\ returned' = Append(returned, r))
  BY DEF RejectAlarm, Finish, TurnedAway
<1>2. TurnedAway.status = "not_triggered" /\ TurnedAway.label = "positive"
  BY TracesAreTraces
<1>3. a.trace = TurnedAway /\ r.trace = TurnedAway /\ r.status = "not_triggered" /\ r.handoff = FALSE
  BY DEF AuditRecord
<1> HIDE DEF a, r
<1>4. Matches(a, r)
  BY <1>2, <1>3 DEF Matches
<1> QED BY <1>1, <1>3, <1>4 DEF Reports

\* What a step of the program does to the results, as the contract sees it.
Proceeds ==
  \/ pc = "idle" /\ pc' = "rpd" /\ UNCHANGED <<audit, returned>>
  \/ pc # "idle" /\ pc' # "idle" /\ UNCHANGED <<audit, returned>>
  \/ /\ pc # "idle" /\ pc' = "idle"
     /\ \E status \in {"localized", "failed", "low_confidence"} : Reports(status)
  \/ pc = "idle" /\ pc' = "idle" /\ Reports("not_triggered")

\* Seen through the contract, every step accepts an alarm, proceeds or reports once.
LEMMA NextProceeds ==
  ASSUME Inv, [Next]_vars
  PROVE  Proceeds
<1>1. CASE \E p \in Ports : Run(p)
  BY <1>1 DEF Run, Begin, Proceeds
<1>2. CASE \E alarm \in Alarms : RunFromAlarm(alarm)
  BY <1>2 DEF RunFromAlarm, Begin, Proceeds
<1>3. CASE \E alarm \in Alarms : RejectAlarm(alarm)
  <2> PICK alarm \in Alarms : RejectAlarm(alarm)
    BY <1>3
  <2>1. pc = "idle" /\ pc' = "idle"
    BY DEF RejectAlarm, Finish
  <2>2. Reports("not_triggered")
    BY RejectReports
  <2> QED BY <2>1, <2>2 DEF Proceeds
<1>4. CASE Step
  <2>1. RunStep /\ Busy /\ Control
    BY <1>4, StepKeepsInv DEF RunStep, Inv
  <2>2. ASSUME NEW next, Continues(next), next # "idle" PROVE Proceeds
    BY <2>1, <2>2 DEF Continues, Proceeds, Busy
  <2>3. ASSUME NEW status \in {"localized", "failed", "low_confidence"}, Ends(status) PROVE Proceeds
    <3>1. Reports(status)
      BY <2>1, <2>3, EndReports
    <3> QED BY <2>1, <2>3, <3>1 DEF Ends, Proceeds, Busy
  <2>4. Following(pc) # "idle"
    BY DEF Following
  <2> QED BY <2>1, <2>2, <2>3, <2>4 DEF RunStep
<1>5. CASE UNCHANGED vars
  <2>1. UNCHANGED <<pc, audit, returned>>
    BY <1>5 DEF vars, runVars
  <2> QED BY <2>1 DEF Proceeds, Reports
<1> QED BY <1>1, <1>2, <1>3, <1>4, <1>5 DEF Next, Stopped

\* A report adds the result and its audit record together, so they stay paired.
LEMMA ReportsKeepAudit ==
  ASSUME AuditInv, NEW status, Reports(status)
  PROVE  AuditInv'
<1>1. CASE UNCHANGED <<audit, returned>>
  BY <1>1 DEF AuditInv
<1>2. CASE ~UNCHANGED <<audit, returned>>
  <2>1. PICK a, r : audit' = Append(audit, a) /\ returned' = Append(returned, r) /\ Matches(a, r)
    BY <1>2 DEF Reports
  <2>2. IsSeq(audit) /\ IsSeq(returned) /\ Len(audit) = Len(returned)
        /\ \A i \in DOMAIN returned : Matches(audit[i], returned[i])
    BY DEF AuditInv
  <2> DEFINE n == Len(returned)
  <2>3. /\ IsSeq(audit') /\ Len(audit') = n + 1
        /\ (\A i \in 1 .. n : audit'[i] = audit[i]) /\ audit'[n + 1] = a
    BY <2>1, <2>2, AppendKeeps
  <2>4. /\ IsSeq(returned') /\ Len(returned') = n + 1 /\ DOMAIN returned' = 1 .. n + 1
        /\ (\A i \in 1 .. n : returned'[i] = returned[i]) /\ returned'[n + 1] = r
        /\ n \in Nat /\ DOMAIN returned = 1 .. n
    BY <2>1, <2>2, AppendKeeps
  <2>5. \A i \in 1 .. n + 1 : Matches(audit'[i], returned'[i])
    BY <2>1, <2>2, <2>3, <2>4
  <2> QED BY <2>3, <2>4, <2>5 DEF AuditInv
<1> QED BY <1>1, <1>2

\* Results and audit records are paired at all times.
LEMMA AuditInvHolds == Spec => []AuditInv
<1>1. Init => AuditInv
  <2> SUFFICES ASSUME Init PROVE AuditInv
    OBVIOUS
  <2>1. audit = <<>> /\ returned = <<>>
    BY DEF Init
  <2> QED BY <2>1, NoCalls DEF AuditInv
<1>2. AuditInv /\ Inv /\ [Next]_vars => AuditInv'
  <2> SUFFICES ASSUME AuditInv, Inv, [Next]_vars PROVE AuditInv'
    OBVIOUS
  <2>1. Proceeds
    BY NextProceeds
  <2>2. CASE UNCHANGED <<audit, returned>>
    BY <2>2 DEF AuditInv
  <2>3. CASE \E status : Reports(status)
    BY <2>3, ReportsKeepAudit
  <2> QED BY <2>1, <2>2, <2>3 DEF Proceeds
<1> QED BY <1>1, <1>2, InvHolds, PTL DEF Spec

\* What a caller got is what the auditors have: one record per result, with the same calls,
\* a status that tells the outcomes apart, and "negative" on exactly the handed-off runs.
THEOREM AuditHolds == Spec => []ResultsAreAudited
<1>1. AuditInv => ResultsAreAudited
  BY DEF AuditInv, Matches, ResultsAreAudited
<1> QED BY <1>1, AuditInvHolds, PTL

--------------------------------------------------------------------------------
(* The contract. Its log and its results are the outcomes of audit and returned.   *)

LogOf(records) == [i \in DOMAIN records |-> Outcome(records[i].trace.status)]
ResultsOf(results) == [i \in DOMAIN results |-> [outcome |-> Outcome(results[i].status),
                                                  handoff |-> results[i].handoff]]

\* A matching pair, as the contract sees it, is one report.
LEMMA PairIsReport ==
  ASSUME IsSeq(audit), IsSeq(returned), NEW a, NEW r, Matches(a, r),
         audit' = Append(audit, a), returned' = Append(returned, r)
  PROVE  LET outcome == Outcome(r.status)
         IN  /\ LogOf(audit') = Append(LogOf(audit), outcome)
             /\ ResultsOf(returned') = Append(ResultsOf(returned),
                  [outcome |-> outcome, handoff |-> outcome = "unresolved"])
<1> DEFINE outcome == Outcome(r.status)
           pair == [outcome |-> outcome, handoff |-> outcome = "unresolved"]
           m == Len(audit)
           n == Len(returned)
<1>1. Outcome(a.trace.status) = outcome
  BY DEF Matches, Outcome
<1>2. [outcome |-> Outcome(r.status), handoff |-> r.handoff] = pair
  <2>1. r.handoff = (outcome = "unresolved")
    BY DEF Matches, Outcome
  <2> QED BY <2>1
<1> HIDE DEF outcome, pair
<1>3. LogOf(audit') = Append(LogOf(audit), outcome)
  <2> DEFINE old == LogOf(audit)
             new == LogOf(audit')
  <2>1. /\ m \in Nat /\ DOMAIN audit = 1 .. m /\ DOMAIN audit' = 1 .. m + 1
        /\ \A i \in 1 .. m : audit'[i] = audit[i]
        /\ audit'[m + 1] = a
    BY AppendKeeps
  <2>2. /\ old = [i \in 1 .. m |-> old[i]]
        /\ new = [i \in 1 .. m + 1 |-> new[i]]
        /\ \A i \in 1 .. m : new[i] = old[i]
        /\ new[m + 1] = outcome
    BY <1>1, <2>1 DEF LogOf
  <2> HIDE DEF old, new, m
  <2>3. IsSeq(old) /\ Len(old) = m
    BY <2>1, <2>2, FunctionIsSeq
  <2>4. new = Append(old, outcome)
    BY <2>2, <2>3, IsAppended
  <2> QED BY <2>4 DEF old, new
<1>4. ResultsOf(returned') = Append(ResultsOf(returned), pair)
  <2> DEFINE old == ResultsOf(returned)
             new == ResultsOf(returned')
  <2>1. /\ n \in Nat /\ DOMAIN returned = 1 .. n /\ DOMAIN returned' = 1 .. n + 1
        /\ \A i \in 1 .. n : returned'[i] = returned[i]
        /\ returned'[n + 1] = r
    BY AppendKeeps
  <2>2. /\ old = [i \in 1 .. n |-> old[i]]
        /\ new = [i \in 1 .. n + 1 |-> new[i]]
        /\ \A i \in 1 .. n : new[i] = old[i]
        /\ new[n + 1] = pair
    BY <1>2, <2>1 DEF ResultsOf
  <2> HIDE DEF old, new, n
  <2>3. IsSeq(old) /\ Len(old) = n
    BY <2>1, <2>2, FunctionIsSeq
  <2>4. new = Append(old, pair)
    BY <2>2, <2>3, IsAppended
  <2> QED BY <2>4 DEF old, new
<1> QED BY <1>3, <1>4 DEF outcome, pair

\* The orchestrator implements the contract that it shares with the agent: a run starts,
\* steps in it are not seen, and it concludes with a pair or fails with none.
THEOREM ImplementsContract == Spec => KeepsContract
<1>1. Init => Contract!Init
  <2> SUFFICES ASSUME Init PROVE Contract!Init
    OBVIOUS
  <2>1. pc = "idle" /\ audit = <<>> /\ returned = <<>> /\ DOMAIN <<>> = {}
    BY NoCalls DEF Init
  <2>2. LogOf(audit) = <<>> /\ ResultsOf(returned) = <<>>
    BY <2>1 DEF LogOf, ResultsOf
  <2> QED BY <2>1, <2>2 DEF Contract!Init, LogOf, ResultsOf
<1>2. Inv /\ AuditInv /\ [Next]_vars => [Contract!Next]_(Contract!contractVars)
  <2> SUFFICES ASSUME Inv, AuditInv, [Next]_vars
               PROVE  [Contract!Next]_(Contract!contractVars)
    OBVIOUS
  <2>1. Proceeds
    BY NextProceeds
  <2>2. ASSUME NEW status, Reports(status), ~UNCHANGED <<audit, returned>>
        PROVE  Contract!Report(Outcome(status))
    <3>1. PICK a, r : /\ audit' = Append(audit, a) /\ returned' = Append(returned, r)
                      /\ Matches(a, r) /\ r.status = status
      BY <2>2 DEF Reports
    <3>2. IsSeq(audit) /\ IsSeq(returned)
      BY DEF AuditInv
    <3> DEFINE outcome == Outcome(status)
    <3>3. /\ LogOf(audit') = Append(LogOf(audit), outcome)
          /\ ResultsOf(returned') = Append(ResultsOf(returned),
               [outcome |-> outcome, handoff |-> outcome = "unresolved"])
      BY <3>1, <3>2, PairIsReport
    <3> QED BY <3>3 DEF Contract!Report, LogOf, ResultsOf
  <2>3. CASE pc = "idle" /\ pc' = "rpd" /\ UNCHANGED <<audit, returned>>
    <3>1. Contract!Start
      BY <2>3 DEF Contract!Start
    <3> QED BY <3>1 DEF Contract!Next
  <2>4. CASE UNCHANGED <<audit, returned>> /\ (pc = "idle" <=> pc' = "idle")
    BY <2>4 DEF Contract!contractVars
  <2>5. CASE pc # "idle" /\ pc' = "idle" /\ UNCHANGED <<audit, returned>>
    <3>1. Contract!Fail
      BY <2>5 DEF Contract!Fail
    <3> QED BY <3>1 DEF Contract!Next
  <2>6. CASE /\ pc # "idle" /\ pc' = "idle" /\ ~UNCHANGED <<audit, returned>>
             /\ \E status \in {"localized", "failed", "low_confidence"} : Reports(status)
    <3>1. PICK status \in {"localized", "failed", "low_confidence"} : Reports(status)
      BY <2>6
    <3>2. Contract!Report(Outcome(status)) /\ Outcome(status) \in {"localized", "unresolved"}
      BY <2>2, <2>6, <3>1 DEF Outcome
    <3>3. Contract!Conclude
      BY <2>6, <3>2 DEF Contract!Conclude
    <3> QED BY <3>3 DEF Contract!Next
  <2>7. CASE /\ pc = "idle" /\ pc' = "idle" /\ ~UNCHANGED <<audit, returned>>
             /\ Reports("not_triggered")
    <3>1. Contract!Report("not_triggered")
      BY <2>2, <2>7 DEF Outcome
    <3>2. Contract!TurnAway
      BY <2>7, <3>1 DEF Contract!TurnAway
    <3> QED BY <3>2 DEF Contract!Next
  <2> QED BY <2>1, <2>3, <2>4, <2>5, <2>6, <2>7 DEF Proceeds
<1> QED BY <1>1, <1>2, InvHolds, AuditInvHolds, PTL DEF Spec, KeepsContract, Contract!Spec

--------------------------------------------------------------------------------
(* The harness. A generated tree is a segment all of whose nodes are amps, and what *)
(* the generator calls a descendant is what the localizer finds the amp above.      *)

AmpTree(p) == [parent |-> p, kind |-> [a \in DOMAIN p |-> "AMP"]]

\* Every tree the generator draws is a tree below its first amp.
LEMMA DrawnTree ==
  ASSUME NEW n \in Nat \ {0}, NEW p \in Trees(n)
  PROVE  /\ DOMAIN p = 1 .. n
         /\ NodeIds(AmpTree(p)) = 1 .. n /\ AmpIds(AmpTree(p)) = 1 .. n
         /\ AmpTree(p).parent = p /\ \A a \in 1 .. n : AmpTree(p).kind[a] = "AMP"
         /\ p[1] = None /\ \A a \in 2 .. n : p[a] \in 1 .. a - 1
         /\ IsTree(AmpTree(p), 1) /\ OnlyTopIsRpd(AmpTree(p), 1)
<1>1. /\ p \in [1 .. n -> 0 .. n - 1] /\ p[1] = None /\ \A a \in 2 .. n : p[a] \in 1 .. a - 1
      /\ DOMAIN p = 1 .. n
  BY DEF Trees
<1> DEFINE t == AmpTree(p)
<1>2. /\ t.parent = p /\ t.kind = [a \in 1 .. n |-> "AMP"]
      /\ NodeIds(t) = 1 .. n /\ AmpIds(t) = 1 .. n
  BY <1>1 DEF AmpTree, NodeIds, AmpIds
<1>3. IsFiniteSet(1 .. n) /\ Cardinality(1 .. n) = n
  BY FS_Interval
<1>4. IsTopology(t)
  <2>1. 1 .. n \subseteq Nat \ {None}
    BY DEF None
  <2>2. p \in [1 .. n -> Nat]
    BY <1>1
  <2> QED BY <1>2, <1>3, <2>1, <2>2 DEF IsTopology
<1>5. 1 \in 1 .. n
  OBVIOUS
<1>6. \A a \in 1 .. n : p[a] = None <=> a = 1
  <2> SUFFICES ASSUME NEW a \in 1 .. n, a # 1 PROVE p[a] # None
    BY <1>1
  <2>1. a \in 2 .. n
    OBVIOUS
  <2>2. p[a] \in 1 .. a - 1
    BY <1>1, <2>1
  <2> QED BY <2>2 DEF None
<1>7. \A a \in 1 .. n : p[a] \in 1 .. n \cup {None}
  BY <1>1 DEF None
<1>8. \E rank \in [NodeIds(t) -> 1 .. Cardinality(NodeIds(t))] : Rises(t, rank)
  <2> DEFINE rank == [a \in 1 .. n |-> a]
  <2>1. rank \in [1 .. n -> 1 .. n]
    OBVIOUS
  <2>2. \A a \in 1 .. n : p[a] # None => rank[p[a]] < rank[a]
    BY <1>1, <1>6
  <2> HIDE DEF rank, t
  <2>3. Rises(t, rank)
    BY <1>2, <2>2 DEF Rises
  <2> QED BY <1>2, <1>3, <2>1, <2>3
<1>9. IsTree(t, 1)
  <2> HIDE DEF t
  <2> QED BY <1>2, <1>4, <1>5, <1>6, <1>7, <1>8 DEF IsTree
<1>10. OnlyTopIsRpd(t, 1)
  <2> HIDE DEF t
  <2> QED BY <1>2 DEF OnlyTopIsRpd
<1> QED BY <1>1, <1>2, <1>9, <1>10

\* The amps above one are itself and, unless it is the first, those above its parent.
LEMMA AboveFromParent ==
  ASSUME NEW n \in Nat \ {0}, NEW p \in Trees(n), NEW a \in 1 .. n
  PROVE  Above(AmpTree(p), a) = {a} \cup (IF a = 1 THEN {} ELSE Above(AmpTree(p), p[a]))
<1> DEFINE t == AmpTree(p)
           r == WayTo(t, a)
<1>1. /\ IsTree(t, 1) /\ NodeIds(t) = 1 .. n /\ t.parent = p
      /\ a \in NodeIds(t) /\ \A b \in 2 .. n : p[b] \in 1 .. b - 1
  BY DrawnTree
<1> HIDE DEF t
<1>2. GoesDown(r, t, 1, a) /\ Above(t, a) = Held(r)
  BY <1>1, WayToGoesDown
<1>3. a \in Above(t, a)
  BY <1>1, AboveOrders
<1>4. /\ Len(r) \in Nat \ {0} /\ DOMAIN r = 1 .. Len(r) /\ r[1] = 1 /\ r[Len(r)] = a
      /\ \A k \in 1 .. Len(r) - 1 : p[r[k + 1]] = r[k]
  BY <1>1, <1>2 DEF GoesDown
<1>5. CASE a = 1
  <2>1. Len(r) = 1
    <3>1. \A i \in 1 .. Len(WayTo(t, a)) : WayTo(t, a)[i] = a => i = Len(WayTo(t, a))
      BY <1>1, <1>3, WayBegins
    <3>2. 1 \in 1 .. Len(r) /\ r[1] = a
      BY <1>4, <1>5
    <3> QED BY <3>1, <3>2
  <2>2. Held(r) = {a}
    BY <1>4, <2>1 DEF Held
  <2> QED BY <1>2, <1>5, <2>2 DEF t
<1>6. CASE a # 1
  <2> DEFINE q == p[a]
  <2>1. q \in 1 .. a - 1 /\ q \in NodeIds(t) /\ t.parent[a] = q /\ q # a
    BY <1>1, <1>6
  <2>2. q \in Above(t, a)
    BY <1>1, <2>1, ParentIsAbove
  <2>3. Above(t, q) \subseteq Above(t, a)
    BY <1>1, <2>2, AboveOrders
  <2> HIDE DEF q, r
  <2>4. Len(r) > 1 /\ r[Len(r) - 1] = q
    <3>1. Len(r) > 1
      BY <1>4, <1>6
    <3> QED BY <1>4, <3>1 DEF q
  <2>5. /\ Len(WayTo(t, q)) \in 1 .. Len(r)
        /\ \A k \in 1 .. Len(WayTo(t, q)) : WayTo(t, q)[k] = r[k]
        /\ \A i \in 1 .. Len(r) : r[i] = q => i = Len(WayTo(t, q))
    BY <1>1, <2>2, WayBegins DEF r
  <2>6. Len(WayTo(t, q)) = Len(r) - 1
    <3>1. Len(r) - 1 \in 1 .. Len(r) /\ r[Len(r) - 1] = q
      BY <1>4, <2>4
    <3> QED BY <2>5, <3>1
  <2>7. GoesDown(WayTo(t, q), t, 1, q) /\ Above(t, q) = Held(WayTo(t, q))
    BY <1>1, <2>1, WayToGoesDown
  <2>8. ASSUME NEW m \in Above(t, a), m # a PROVE m \in Above(t, q)
    <3>1. PICK i \in 1 .. Len(r) : r[i] = m
      BY <1>2, <1>4, <2>8 DEF Held
    <3>2. i \in 1 .. Len(WayTo(t, q))
      BY <1>4, <2>6, <2>8, <3>1
    <3>3. DOMAIN WayTo(t, q) = 1 .. Len(WayTo(t, q))
      BY <2>7 DEF GoesDown
    <3> QED BY <2>5, <2>7, <3>1, <3>2, <3>3 DEF Held
  <2> QED BY <1>3, <1>6, <2>3, <2>8 DEF t, q
<1> QED BY <1>5, <1>6

\* The amps the generator counts as descendants are those the fault's amp is above.
LEMMA DescendantsAreBelow ==
  ASSUME NEW n \in Nat \ {0}, NEW p \in Trees(n), NEW root \in 1 .. n
  PROVE  Descendants(p, root) = {a \in 1 .. n : root \in Above(AmpTree(p), a)}
<1> DEFINE Body(f) == [a \in DOMAIN p |-> a = root \/ (p[a] \in DOMAIN p /\ f[p[a]])]
           below == CHOOSE f : f = Body(f)
           IsAbove(a) == root \in Above(AmpTree(p), a)
           w == [a \in DOMAIN p |-> IsAbove(a)]
<1>1. DOMAIN p = 1 .. n /\ p[1] = None /\ \A a \in 2 .. n : p[a] \in 1 .. a - 1
  BY DrawnTree
<1>2. \A a \in 1 .. n : IsAbove(a) <=> (a = root \/ (a # 1 /\ IsAbove(p[a])))
  BY AboveFromParent
<1> HIDE DEF IsAbove
<1>3. \A a \in 1 .. n : p[a] \in 1 .. n <=> a # 1
  BY <1>1 DEF None
<1>4. \A a \in 1 .. n : w[a] = (a = root \/ (p[a] \in DOMAIN p /\ w[p[a]]))
  <2> TAKE a \in 1 .. n
  <2>1. w[a] = IsAbove(a)
    BY <1>1
  <2>2. p[a] \in DOMAIN p => w[p[a]] = IsAbove(p[a])
    OBVIOUS
  <2>3. p[a] \in DOMAIN p <=> a # 1
    BY <1>1, <1>3
  <2> HIDE DEF w
  <2>4. IsAbove(a) <=> (a = root \/ (p[a] \in DOMAIN p /\ w[p[a]]))
    BY <1>2, <2>2, <2>3
  <2>5. IsAbove(a) \in BOOLEAN
    BY DEF IsAbove
  <2> QED BY <2>1, <2>4, <2>5
<1>5. w = Body(w)
  BY <1>1, <1>4
<1>6. below = Body(below)
  <2> HIDE DEF w, Body
  <2> QED BY <1>5
<1>7. Descendants(p, root) = {a \in DOMAIN p : below[a]}
  BY DEF Descendants
<1> HIDE DEF below
<1>8. \A a \in 1 .. n : below[a] <=> (a = root \/ (p[a] \in 1 .. n /\ below[p[a]]))
  BY <1>1, <1>6
<1> DEFINE P == {k \in 0 .. n : \A a \in 1 .. k : below[a] <=> IsAbove(a)}
<1>9. \A k \in 0 .. n : k \in P
  <2>1. 0 \in P
    OBVIOUS
  <2>2. ASSUME NEW k \in 0 .. n - 1, k \in P PROVE k + 1 \in P
    <3>1. \A a \in 1 .. k : below[a] <=> IsAbove(a)
      BY <2>2
    <3>2. k + 1 \in 1 .. n
      OBVIOUS
    <3>3. below[k + 1] <=> (k + 1 = root \/ (k + 1 # 1 /\ below[p[k + 1]]))
      BY <1>3, <1>8, <3>2
    <3>4. k + 1 # 1 => (below[p[k + 1]] <=> IsAbove(p[k + 1]))
      <4>1. k + 1 # 1 => p[k + 1] \in 1 .. k
        BY <1>1
      <4> QED BY <3>1, <4>1
    <3>5. below[k + 1] <=> IsAbove(k + 1)
      BY <1>2, <3>2, <3>3, <3>4
    <3>6. \A a \in 1 .. k + 1 : a \in 1 .. k \/ a = k + 1
      OBVIOUS
    <3> QED BY <3>1, <3>2, <3>5, <3>6
  <2> HIDE DEF P
  <2> QED BY <2>1, <2>2, InductionUpTo
<1>10. \A a \in 1 .. n : below[a] <=> IsAbove(a)
  BY <1>9
<1> QED BY <1>1, <1>7, <1>10 DEF IsAbove

\* A measurable node is its own reference.
LEMMA AmpIsItsReference ==
  ASSUME NEW n \in Nat \ {0}, NEW p \in Trees(n), NEW f \in 1 .. n
  PROVE  RefFor(AmpTree(p), f) = f
<1> DEFINE t == AmpTree(p)
<1>1. /\ IsTree(t, 1) /\ OnlyTopIsRpd(t, 1) /\ NodeIds(t) = 1 .. n
      /\ \A a \in 1 .. n : t.kind[a] = "AMP"
  BY DrawnTree
<1> HIDE DEF t
<1>2. f \in Above(t, f) /\ \A m \in Above(t, f) : f \in Above(t, m) => m = f
  BY <1>1, AboveOrders
<1>3. /\ RefFor(t, f) \in Above(t, f)
      /\ \A m \in Above(t, f) : t.kind[m] # "PASSIVE" => m \in Above(t, RefFor(t, f))
  BY <1>1, <1>2, RefForHolds
<1>4. f \in Above(t, RefFor(t, f))
  BY <1>1, <1>2, <1>3
<1> QED BY <1>2, <1>3, <1>4 DEF t

\* The common point of amps that are all at or below one of them is that one, ...
LEMMA HighestIsCommon ==
  ASSUME NEW n \in Nat \ {0}, NEW p \in Trees(n), NEW I \in SUBSET (1 .. n), NEW f \in I,
         \A a \in I : f \in Above(AmpTree(p), a)
  PROVE  CommonPoint(AmpTree(p), I) = f
<1> DEFINE t == AmpTree(p)
           common == CommonPoint(t, I)
<1>1. IsTree(t, 1) /\ NodeIds(t) = 1 .. n
  BY DrawnTree
<1> HIDE DEF t
<1>2. /\ common \in NodeIds(t)
      /\ \A m : (\A a \in I : m \in Above(t, a)) <=> m \in Above(t, common)
  BY <1>1, CommonPointHolds
<1>3. f \in Above(t, common)
  BY <1>2 DEF t
<1> HIDE DEF common
<1>4. common \in Above(t, common)
  BY <1>1, <1>2, AboveOrders
<1>5. common \in Above(t, f)
  BY <1>2, <1>4
<1>6. common = f
  BY <1>1, <1>3, <1>5, AboveOrders
<1> QED BY <1>6 DEF t, common

\* ... and that of the subtrees of two children of the first amp is the first amp.
LEMMA FirstIsCommonOfTwo ==
  ASSUME NEW n \in Nat \ {0}, NEW p \in Trees(n),
         NEW b \in ChildrenOf(p, 1), NEW d \in ChildrenOf(p, 1), b # d,
         NEW I \in SUBSET (1 .. n), b \in I, d \in I
  PROVE  CommonPoint(AmpTree(p), I) = 1
<1> DEFINE t == AmpTree(p)
           common == CommonPoint(t, I)
<1>1. IsTree(t, 1) /\ NodeIds(t) = 1 .. n /\ DOMAIN p = 1 .. n /\ p[1] = None
  BY DrawnTree
<1>2. /\ b \in 1 .. n /\ d \in 1 .. n /\ p[b] = 1 /\ p[d] = 1 /\ b # 1 /\ d # 1 /\ 1 \in 1 .. n
  BY <1>1 DEF ChildrenOf, None
<1>3. Above(t, 1) = {1}
  BY <1>2, AboveFromParent
<1>4. Above(t, b) = {b, 1}
  BY <1>2, <1>3, AboveFromParent
<1>5. Above(t, d) = {d, 1}
  BY <1>2, <1>3, AboveFromParent
<1> HIDE DEF t
<1>6. /\ common \in NodeIds(t)
      /\ \A m : (\A a \in I : m \in Above(t, a)) <=> m \in Above(t, common)
  BY <1>1, CommonPointHolds
<1>7. common \in Above(t, common)
  BY <1>1, <1>6, AboveOrders
<1>8. common \in Above(t, b) /\ common \in Above(t, d)
  BY <1>6, <1>7
<1> HIDE DEF common
<1>9. common = 1
  BY <1>4, <1>5, <1>8
<1> QED BY <1>9 DEF t, common

--------------------------------------------------------------------------------
(* The answer over the readings of a case.                                          *)

\* What a chain that measured a drawn plant hands to the localizer: the RPD and every amp
\* that measures, each as its label makes it look.
ReadsAs(pool, amps, impaired) ==
  /\ IsSeq(pool)
  /\ {pool[i].device : i \in DOMAIN pool} = {RpdRef} \cup amps
  /\ \A i \in DOMAIN pool :
       pool[i].class = IF pool[i].device \in impaired \cup {RpdRef} THEN Planted ELSE "Clean"

\* The localizer then compares the paths of exactly the impaired amps.
LEMMA ReadingsAreCompared ==
  ASSUME NEW n \in Nat \ {0}, NEW p \in Trees(n),
         NEW X \in SUBSET (1 .. n), NEW I \in SUBSET ((1 .. n) \ X), I # {},
         NEW pool, ReadsAs(pool, (1 .. n) \ X, I)
  PROVE  Localize(AmpTree(p), pool) = CommonPointResult(AmpTree(p), I, ((1 .. n) \ X) \ I, X)
<1> DEFINE t == AmpTree(p)
           amps == (1 .. n) \ X
<1>1. AmpIds(t) = 1 .. n
  BY DrawnTree
<1>2. DOMAIN AmpClass(pool) = amps
  <2>1. RpdRef \notin amps
    BY DEF RpdRef
  <2>2. DOMAIN AmpClass(pool) = ({RpdRef} \cup amps) \ {RpdRef}
    BY AmpsAreRead DEF ReadsAs
  <2> HIDE DEF amps
  <2> QED BY <2>1, <2>2
<1>3. ASSUME NEW a \in amps
      PROVE  AmpClass(pool)[a] = IF a \in I THEN Planted ELSE "Clean"
  <2>1. a # RpdRef
    BY DEF RpdRef
  <2>2. PICK i \in DOMAIN pool : pool[i].device = a /\ AmpClass(pool)[a] = pool[i].class
    BY <1>2, AmpClassIsRead DEF ReadsAs
  <2>3. pool[i].class = IF a \in I \cup {RpdRef} THEN Planted ELSE "Clean"
    BY <2>2 DEF ReadsAs
  <2> QED BY <2>1, <2>2, <2>3
<1>4. Planted # "Clean"
  BY DEF Planted
<1>5. ImpairedAmps(pool) = I
  <2>1. I \subseteq amps
    OBVIOUS
  <2> HIDE DEF amps
  <2> QED BY <1>2, <1>3, <1>4, <2>1 DEF ImpairedAmps
<1>6. ImpairedLabels(pool) = {Planted}
  <2>1. \A i \in DOMAIN pool : pool[i].class \in {Planted, "Clean"}
    BY DEF ReadsAs
  <2>2. PICK i \in DOMAIN pool : pool[i].device = RpdRef
    BY DEF ReadsAs
  <2>3. pool[i].class = Planted
    BY <2>2 DEF ReadsAs
  <2> QED BY <1>4, <2>1, <2>2, <2>3 DEF ImpairedLabels
<1>7. Cardinality(ImpairedLabels(pool)) = 1
  BY <1>6, FS_Singleton
<1>8. AmpIds(t) \ amps = X
  BY <1>1
<1> HIDE DEF t, amps
<1>9. Localize(t, pool) = CommonPointResult(t, ImpairedAmps(pool),
        DOMAIN AmpClass(pool) \ ImpairedAmps(pool), AmpIds(t) \ DOMAIN AmpClass(pool))
  <2>1. ~(Cardinality(ImpairedLabels(pool)) > 1)
    BY <1>7
  <2> QED BY <1>5, <2>1 DEF Localize, ImpairedAmps
<1> QED BY <1>2, <1>5, <1>8, <1>9 DEF t, amps

\* What the public answer says, of one candidate with everything that could be read.
AnswerIs(public, type, source, impaired, uncertain) ==
  /\ uncertain = {} => public.status = "localized"
  /\ uncertain # {} => public.status = "low_confidence"
  /\ \E c : public.candidates = {c}
  /\ \A c \in public.candidates :
       /\ c.type = type /\ c.supporting = impaired /\ c.uncertain = uncertain
       /\ type # "device" => c.upstream = source

\* The answer is the span below the common point when that is clean, the device when only
\* one amp is impaired, and otherwise the branch at the common point.
LEMMA AnswerOfReadings ==
  ASSUME NEW n \in Nat \ {0}, NEW p \in Trees(n),
         NEW X \in SUBSET (1 .. n), NEW I \in SUBSET ((1 .. n) \ X), I # {},
         NEW pool, ReadsAs(pool, (1 .. n) \ X, I)
  PROVE  LET common == CommonPoint(AmpTree(p), I)
         IN  AnswerIs(PublicLocalization(Localize(AmpTree(p), pool)),
                      IF common \in ((1 .. n) \ X) \ I THEN "span"
                      ELSE IF Cardinality(I) = 1 THEN "device" ELSE "branch",
                      common, I, X)
<1> DEFINE t == AmpTree(p)
           clean == ((1 .. n) \ X) \ I
           common == CommonPoint(t, I)
           r == CommonPointResult(t, I, clean, X)
           source == LikelySource(t, I, clean)
           public == PublicLocalization(r)
           type == IF common \in clean THEN "span"
                   ELSE IF Cardinality(I) = 1 THEN "device" ELSE "branch"
<1>1. Localize(t, pool) = r
  BY ReadingsAreCompared
<1>2. common \in 1 .. n
  <2>1. IsTree(t, 1) /\ NodeIds(t) = 1 .. n
    BY DrawnTree
  <2> HIDE DEF t
  <2> QED BY <2>1, CommonPointHolds
<1>3. common # None /\ RefFor(t, common) = common /\ common \in Nat
  BY <1>2, AmpIsItsReference DEF None
<1> HIDE DEF t, clean, common
<1>4. source = IF common \in clean
               THEN [score |-> 85, likely |-> [type |-> "span", upstream |-> {common}]]
               ELSE IF Cardinality(I) = 1
               THEN [score |-> 90, likely |-> [type |-> "device", upstream |-> {}]]
               ELSE [score |-> 80, likely |-> [type |-> "branch", upstream |-> {common}]]
  BY <1>3 DEF LikelySource, common
<1>5. /\ (X = {} => r.status = "localized") /\ (X # {} => r.status = "low_confidence")
      /\ r.likely = source.likely /\ r.likely # NoLikely
      /\ r.supporting = I /\ r.uncertain = X
  <2>1. (X = {} => r.status = "localized") /\ (X # {} => r.status = "low_confidence")
    <3>1. ASSUME X = {} PROVE r.status = "localized"
      BY <3>1, CommonPointParts
    <3>2. ASSUME X # {} PROVE r.status = "low_confidence"
      BY <3>2, CommonPointParts
    <3> HIDE DEF r
    <3> QED BY <3>1, <3>2
  <2>2. r.likely = source.likely /\ r.likely # NoLikely
    BY CommonPointParts
  <2>3. r.supporting = I /\ r.uncertain = X
    BY CommonPointParts
  <2> QED BY <2>1, <2>2, <2>3
<1> HIDE DEF source
<1>6. r.likely.type = type
  BY <1>4, <1>5
<1>7. type # "device" => PublicUpstream(r) = common
  <2> SUFFICES ASSUME type # "device" PROVE PublicUpstream(r) = common
    OBVIOUS
  <2>1. r.likely.upstream = {common}
    BY <1>4, <1>5
  <2> HIDE DEF r
  <2>2. PublicUpstream(r) = Min({common})
    BY <2>1 DEF PublicUpstream
  <2> QED BY <1>3, <2>2, MinOfOne
<1> HIDE DEF r, type
<1> DEFINE c == [type |-> IF r.likely = NoLikely THEN "branch" ELSE r.likely.type,
                 upstream |-> PublicUpstream(r), supporting |-> r.supporting,
                 clean |-> r.boundary, uncertain |-> r.uncertain]
<1>8. public.status = r.status /\ public.candidates = {c}
  BY <1>5 DEF PublicLocalization
<1>9. c.type = type /\ c.supporting = I /\ c.uncertain = X /\ c.upstream = PublicUpstream(r)
  BY <1>5, <1>6
<1> HIDE DEF c, public
<1>10. AnswerIs(public, type, common, I, X)
  BY <1>5, <1>7, <1>8, <1>9 DEF AnswerIs
<1> QED BY <1>1, <1>10 DEF public, t, clean, common, type

--------------------------------------------------------------------------------
(* The scenarios of the cases.                                                      *)

OnceUnavailable == "rpd_measurement_unavailable_once"

\* What the generator draws: a tree of some size, the label of the RPD, the impaired amps,
\* the injected faults and the failing amps.
IsDraw(d) ==
  /\ d.size \in Nat \ {0} /\ d.tree \in Trees(d.size)
  /\ d.label \in {"Clean", Planted}
  /\ d.failed \in SUBSET (1 .. d.size) /\ (1 .. d.size) \ d.failed # {}
  /\ d.impaired \in SUBSET ((1 .. d.size) \ d.failed)
  /\ d.faults \in {{}, {OnceUnavailable}, {"rpd_unreachable"}, {"rpd_stale_only"}}

MeasuredIn(d) == (1 .. d.size) \ d.failed
ScenarioOf(d) == CaseScenario(d.tree, d.label, d.impaired, d.faults, d.failed)

\* The server built for a draw: every port has its tree, every device the look of its label.
LEMMA DrawnScenario ==
  ASSUME NEW d, IsDraw(d), scn = ScenarioOf(d)
  PROVE  /\ \A q \in Ports : HasSegment(q) /\ Segment(q) = AmpTree(d.tree)
         /\ \A x \in scn.looks[RpdRef] : x = d.label
         /\ \A a \in MeasuredIn(d) : \A x \in scn.looks[a] :
              x = IF a \in d.impaired THEN Planted ELSE "Clean"
         /\ scn.faults = d.faults
         /\ Measurable(1 .. d.size) = MeasuredIn(d)
<1> DEFINE p == d.tree
           segments == [q \in Ports |-> AmpTree(p)]
           looks == [x \in DOMAIN p \cup {RpdRef} |->
                       {IF x = RpdRef THEN d.label ELSE IF x \in d.impaired THEN Planted ELSE "Clean"}]
<1>1. scn = [segments |-> segments, looks |-> looks, faults |-> d.faults, failedAmps |-> d.failed]
  BY DEF ScenarioOf, CaseScenario, AmpTree
<1>2. /\ scn.segments = segments /\ scn.looks = looks
      /\ scn.faults = d.faults /\ scn.failedAmps = d.failed
  <2> HIDE DEF segments, looks
  <2> QED BY <1>1
<1>3. DOMAIN p = 1 .. d.size
  BY DrawnTree DEF IsDraw
<1>4. \A q \in Ports : HasSegment(q) /\ Segment(q) = AmpTree(p)
  BY <1>2 DEF HasSegment, Segment
<1>5. \A x \in scn.looks[RpdRef] : x = d.label
  BY <1>2
<1>6. RpdRef \notin 1 .. d.size
  BY DEF RpdRef
<1>7. \A a \in 1 .. d.size : scn.looks[a] = {IF a \in d.impaired THEN Planted ELSE "Clean"}
  BY <1>2, <1>3, <1>6
<1>8. Labelled = 1 .. d.size
  <2>1. DOMAIN scn.looks = 1 .. d.size \cup {RpdRef}
    BY <1>2, <1>3
  <2> QED BY <1>6, <2>1 DEF Labelled
<1>9. Measurable(1 .. d.size) = MeasuredIn(d)
  BY <1>2, <1>8 DEF Measurable, MeasuredIn
<1>10. \A a \in MeasuredIn(d) : \A x \in scn.looks[a] :
         x = IF a \in d.impaired THEN Planted ELSE "Clean"
  BY <1>7 DEF MeasuredIn
<1> QED BY <1>2, <1>4, <1>5, <1>9, <1>10

--------------------------------------------------------------------------------
(* The first run on such a server.                                                  *)

\* The captures it takes to get a reading of the RPD.
CapturesFor(faults) == IF faults = {OnceUnavailable} THEN 2 ELSE 1

\* The captures of the amps look as labelled.
AmpsLook(d, items) ==
  \A i \in DOMAIN items :
    items[i].class = IF items[i].device \in d.impaired THEN Planted ELSE "Clean"

\* What the first run is known to have done: the attempts are its own, a reading is had
\* where no lasting fault is injected, and readings look as labelled.
FirstRunUnderWay(d) ==
  /\ returned = <<>> /\ audit = <<>>
  /\ trigger \in {{}, {"call"}}
  /\ attempts = IF attempt > 1 THEN 2 ELSE attempt
  /\ pc = "rpd" => \/ attempt = 0
                   \/ d.faults = {OnceUnavailable} /\ attempt = 1
                   \/ d.faults = {"rpd_stale_only"}
  /\ AfterRpd => /\ d.faults \in {{}, {OnceUnavailable}} /\ attempt = CapturesFor(d.faults)
                 /\ GetIn(store, RpdRefOf(trace.calls, attempt)).class = d.label
  /\ AfterMeasure => AmpsLook(d, GetIn(store, AmpsRefOf(trace.calls, attempt)))

\* What it returns: how far the chain goes is decided by the faults and the label of the
\* RPD, and an answer is one over the readings of the draw.
FirstResult(d, result) ==
  LET calls == result.trace.calls
  IN  \/ /\ \/ d.faults = {"rpd_unreachable"}
            \/ d.faults = {OnceUnavailable} /\ MaxRemeasure = 0
         /\ result.status = "failed" /\ Shaped(calls, 1) /\ Len(calls) = 1
      \/ /\ d.faults = {"rpd_stale_only"}
         /\ result.status = "failed"
         /\ Shaped(calls, MaxRemeasure + 1) /\ Len(calls) = MaxRemeasure + 1
      \/ /\ d.faults \in {{}, {OnceUnavailable}} /\ d.label = "Clean"
         /\ result.status = "low_confidence"
         /\ Shaped(calls, CapturesFor(d.faults)) /\ Len(calls) = CapturesFor(d.faults) + 1
      \/ /\ d.faults \in {{}, {OnceUnavailable}} /\ d.label = Planted
         /\ Shaped(calls, CapturesFor(d.faults)) /\ Len(calls) = CapturesFor(d.faults) + 5
         /\ \E pool :
              LET public == PublicLocalization(Localize(AmpTree(d.tree), pool))
              IN  /\ ReadsAs(pool, MeasuredIn(d), d.impaired)
                  /\ result.status = public.status
                  /\ calls[CapturesFor(d.faults) + 5].result
                       = [status |-> "success", type |-> Planted, localization |-> public]

\* A first run that was turned away made no call; any other ended as its draw has it.
FirstRunOver(d) ==
  \A i \in DOMAIN returned :
    /\ i = 1
    /\ \/ /\ audit[1].trigger = {"noCall"}
          /\ returned[1].status = "not_triggered" /\ returned[1].trace.calls = <<>>
       \/ /\ audit[1].trigger \in {{}, {"call"}}
          /\ FirstResult(d, returned[1])

FirstRunInv ==
  /\ runs = 0 => pc = "idle" /\ attempts = 0 /\ returned = <<>> /\ audit = <<>> /\ trigger = {}
  /\ runs = 1 => \A d : IsDraw(d) /\ scn = ScenarioOf(d) =>
                   IF Busy THEN FirstRunUnderWay(d) ELSE FirstRunOver(d)

\* Captures of the amps look as labelled.
LEMMA AmpsLookAsLabelled ==
  ASSUME Inv, MeasureSegment
  PROVE  /\ Measurable(SegmentAmps) # {} => ~Failure(reply')
         /\ ~Failure(reply') =>
              LET items == GetIn(store', reply'.ref)
              IN  \A i \in DOMAIN items :
                    /\ items[i].device \in Measurable(SegmentAmps)
                    /\ items[i].class \in scn.looks[items[i].device]
<1>1. /\ StoreOK /\ EvidenceInv /\ pc = "measure"
      /\ GetAmpUpstreamSpectrumMeasurements(reply.ref)
  BY DEF Inv, MeasureSegment
<1>2. Live(store, reply.ref, "amplist") /\ GetIn(store, reply.ref) = SegmentAmps
  BY <1>1 DEF EvidenceInv
<1>3. /\ reply.ref \in Kinds \X Nat /\ Has(reply.ref) /\ reply.ref[1] = "amplist"
      /\ Get(reply.ref) = SegmentAmps
  BY <1>2 DEF Live, HasIn, GetIn, Has, Get, Kinds
<1>4. \/ Fails({"AMP_MEASUREMENTS_UNAVAILABLE", "INVALID_AMP_LIST_REF"})
      \/ \E items \in Pools : MakesSet(SegmentAmps, items)
  <2>1. \/ Fails({"AMP_MEASUREMENTS_UNAVAILABLE", "INVALID_AMP_LIST_REF"})
        \/ \E items \in Pools : MakesSet(Get(reply.ref), items)
    BY <1>1, <1>3, SegmentMeasured
  <2> QED BY <1>3, <2>1
<1>5. Measurable(SegmentAmps) # {} => ~Failure(reply')
  <2> SUFFICES ASSUME Measurable(SegmentAmps) # {} PROVE ~Failure(reply')
    OBVIOUS
  <2>1. MeasureAmps(SegmentAmps)
    BY <1>1, <1>3 DEF GetAmpUpstreamSpectrumMeasurements, MeasureIds
  <2>2. reply'.status \in {"success", "partial_success"}
    BY <2>1 DEF MeasureAmps
  <2> QED BY <2>2 DEF Failure
<1>6. ASSUME NEW items \in Pools, MakesSet(SegmentAmps, items)
      PROVE  /\ GetIn(store', reply'.ref) = items
             /\ \A i \in DOMAIN items :
                  /\ items[i].device \in Measurable(SegmentAmps)
                  /\ items[i].class \in scn.looks[items[i].device]
  <2>1. /\ reply'.ref = <<"measset", Len(store["measset"]) + 1>>
        /\ store'["measset"] = Append(store["measset"], items)
        /\ {items[i].device : i \in DOMAIN items} = Measurable(SegmentAmps)
        /\ \A i \in DOMAIN items : items[i].class \in scn.looks[items[i].device]
    BY <1>6 DEF MakesSet
  <2>2. IsSeq(store["measset"])
    <3>1. store["measset"] \in Seq(ValuesOf("measset"))
      BY <1>1 DEF StoreOK, Kinds
    <3> QED BY <3>1, SeqIsSeq
  <2>3. store'["measset"][Len(store["measset"]) + 1] = items
    BY <2>1, <2>2, AppendKeeps
  <2> QED BY <2>1, <2>3 DEF GetIn
<1>7. ASSUME Fails({"AMP_MEASUREMENTS_UNAVAILABLE", "INVALID_AMP_LIST_REF"}) PROVE Failure(reply')
  BY <1>7 DEF Fails, Error, Raised, Failure
<1> QED BY <1>4, <1>5, <1>6, <1>7

\* A first run that ends leaves a result of its draw, or neither record nor result.
LEMMA FirstEnding ==
  ASSUME NEW d, returned = <<>>, audit = <<>>, trigger \in {{}, {"call"}},
         NEW status, Ends(status),
         \A result : result.status = status /\ result.trace.calls = NewCalls => FirstResult(d, result)
  PROVE  FirstRunOver(d)'
<1>1. trace'.calls = NewCalls
  BY DEF Ends
<1>2. CASE UNCHANGED <<audit, returned>>
  <2>1. DOMAIN returned' = {}
    BY <1>2
  <2> QED BY <2>1 DEF FirstRunOver
<1>3. CASE ~UNCHANGED <<audit, returned>>
  <2> DEFINE r == [status |-> status, trace |-> trace', handoff |-> status # "localized"]
             a == AuditRecord(trace', trigger)
  <2>1. audit' = <<a>> /\ returned' = <<r>>
    BY <1>3 DEF Ends
  <2>2. r.status = status /\ r.trace.calls = NewCalls /\ a.trigger = trigger
    BY <1>1 DEF AuditRecord
  <2> HIDE DEF a, r
  <2>3. DOMAIN returned' = {1} /\ returned'[1] = r /\ audit'[1] = a
    BY <2>1
  <2>4. FirstResult(d, r)
    BY <2>2
  <2>5. audit'[1].trigger \in {{}, {"call"}}
    BY <2>2, <2>3
  <2> QED BY <2>3, <2>4, <2>5 DEF FirstRunOver
<1> QED BY <1>2, <1>3

\* The fault that meets the next attempt of a first run.
LEMMA FaultsOfDraw ==
  ASSUME NEW d, IsDraw(d), scn = ScenarioOf(d)
  PROVE  /\ d.faults = {} => RpdFault(attempts + 1) = {}
         /\ d.faults = {OnceUnavailable} =>
              RpdFault(attempts + 1) = IF attempts + 1 = 1 THEN {"MEASUREMENT_UNAVAILABLE"} ELSE {}
         /\ d.faults = {"rpd_unreachable"} => RpdFault(attempts + 1) = {"DEVICE_UNREACHABLE"}
         /\ d.faults = {"rpd_stale_only"} => RpdFault(attempts + 1) = {"STALE_DATA_ONLY"}
<1>1. scn.faults = d.faults
  BY DrawnScenario
<1> QED BY <1>1 DEF RpdFault, OnceUnavailable

\* The counter of the server follows that of the run.
LEMMA FirstAttempts ==
  ASSUME attempt \in Nat, attempts = IF attempt > 1 THEN 2 ELSE attempt,
         attempt' = attempt + 1, attempts' = Min({attempts + 1, 2})
  PROVE  attempts' = IF attempt' > 1 THEN 2 ELSE attempt'
<1>1. {attempts + 1, 2} \subseteq Nat /\ {attempts + 1, 2} # {}
  OBVIOUS
<1>2. attempts' \in {attempts + 1, 2} /\ \A x \in {attempts + 1, 2} : attempts' <= x
  BY <1>1, MinOfNaturals
<1> QED BY <1>2

\* Step 1 of a first run.
LEMMA FirstCapture ==
  ASSUME NEW d, IsDraw(d), scn = ScenarioOf(d), Inv, FirstRunUnderWay(d), CaptureRpd
  PROVE  IF Busy' THEN FirstRunUnderWay(d)' ELSE FirstRunOver(d)'
<1>0. /\ StoreOK /\ Control /\ CallsInv /\ pc = "rpd" /\ Busy
      /\ GetRPDSpectrumMeasurements(port)
      /\ d.faults \in {{}, {OnceUnavailable}, {"rpd_unreachable"}, {"rpd_stale_only"}}
  BY DEF Inv, Busy, CaptureRpd, IsDraw
<1>1. RunStep /\ AcceptedReply
  BY CaptureRpdStep
<1>2. attempt \in Nat /\ attempt <= MaxRemeasure /\ attempt' = attempt + 1 /\ UNCHANGED trigger
  <2>1. attempt \in 0 .. MaxRemeasure + 1 /\ attempt <= MaxRemeasure
    BY <1>0 DEF Control
  <2>2. attempt' = attempt + 1 /\ trigger' = trigger
    BY <1>0, <1>1 DEF RunStep
  <2> QED BY <2>1, <2>2, MaxRemeasureNat
<1>3. attempts' = IF attempt' > 1 THEN 2 ELSE attempt'
  <2>1. attempts' = Min({attempts + 1, 2})
    BY <1>0 DEF GetRPDSpectrumMeasurements
  <2> QED BY <1>2, <2>1, FirstAttempts DEF FirstRunUnderWay
<1>4. /\ Shaped(NewCalls, attempt') /\ trace'.calls = NewCalls
      /\ Len(trace.calls) = attempt /\ Len(NewCalls) = attempt'
      /\ NewCalls[attempt'].result = reply'
  <2>1. Shaped(NewCalls, attempt') /\ trace'.calls = NewCalls
    BY <1>0, <1>1, StepKeepsCalls
  <2>2. IsSeq(trace.calls) /\ Len(trace.calls) = attempt + 0
    BY <1>0 DEF CallsInv, Shaped, WellShaped, CallsSince
  <2> QED BY <1>2, <2>1, <2>2, CallAdded
<1>5. /\ returned = <<>> /\ audit = <<>> /\ trigger \in {{}, {"call"}}
      /\ attempts = IF attempt > 1 THEN 2 ELSE attempt
      /\ \/ attempt = 0
         \/ d.faults = {OnceUnavailable} /\ attempt = 1
         \/ d.faults = {"rpd_stale_only"}
  BY <1>0 DEF FirstRunUnderWay
<1>6. CASE RpdFault(attempts + 1) = {}
  <2>1. reply'.status = "success" /\ GetIn(store', reply'.ref).class \in scn.looks[RpdRef]
    BY <1>0, <1>6, RpdLooksAsLabelled
  <2>2. ~Failure(reply')
    BY <2>1 DEF Failure
  <2>3. Continues("classifyRpd")
    BY <1>0, <1>1, <2>1, <2>2 DEF RunStep, Following
  <2>4. GetIn(store', RpdRefOf(trace'.calls, attempt')).class = d.label
    BY <1>4, <2>1, DrawnScenario DEF RpdRefOf
  <2>5. d.faults \in {{}, {OnceUnavailable}} /\ attempt' = CapturesFor(d.faults)
    <3>1. d.faults \notin {{"rpd_unreachable"}, {"rpd_stale_only"}}
      BY <1>6, FaultsOfDraw
    <3>2. CASE d.faults = {}
      BY <1>2, <1>5, <3>2 DEF CapturesFor, OnceUnavailable
    <3>3. CASE d.faults = {OnceUnavailable}
      <4>1. attempts + 1 # 1
        BY <1>6, <3>3, FaultsOfDraw
      <4>2. attempt # 0
        BY <1>5, <4>1
      <4> QED BY <1>2, <1>5, <3>3, <4>2 DEF CapturesFor, OnceUnavailable
    <3> QED BY <1>0, <3>1, <3>2, <3>3
  <2>6. /\ pc' = "classifyRpd" /\ Busy' /\ ~AfterMeasure' /\ AfterRpd'
        /\ returned' = <<>> /\ audit' = <<>>
    BY <1>5, <2>3 DEF Continues, Busy, AfterMeasure, AfterRpd
  <2>7. FirstRunUnderWay(d)'
    BY <1>2, <1>3, <1>5, <2>4, <2>5, <2>6 DEF FirstRunUnderWay
  <2> QED BY <2>6, <2>7
<1>7. CASE RpdFault(attempts + 1) # {}
  <2>1. PICK code \in RpdFault(attempts + 1) : reply' = Error(code)
    BY <1>0, <1>7, RpdLooksAsLabelled
  <2>2. reply'.status = "error" /\ reply'.code = code /\ Failure(reply')
    BY <2>1 DEF Error, Failure
  <2>3. /\ d.faults # {}
        /\ d.faults = {OnceUnavailable} => attempt = 0 /\ code = "MEASUREMENT_UNAVAILABLE"
        /\ d.faults = {"rpd_unreachable"} => attempt = 0 /\ code = "DEVICE_UNREACHABLE"
        /\ d.faults = {"rpd_stale_only"} => code = "STALE_DATA_ONLY"
    <3>1. d.faults # {}
      BY <1>7, FaultsOfDraw
    <3>2. ASSUME d.faults = {OnceUnavailable}
          PROVE  attempt = 0 /\ code = "MEASUREMENT_UNAVAILABLE"
      <4>1. attempts + 1 = 1 /\ code = "MEASUREMENT_UNAVAILABLE"
        BY <2>1, <3>2, FaultsOfDraw
      <4> QED BY <1>2, <1>5, <4>1
    <3>3. ASSUME d.faults = {"rpd_unreachable"}
          PROVE  attempt = 0 /\ code = "DEVICE_UNREACHABLE"
      BY <1>5, <2>1, <3>3, FaultsOfDraw DEF OnceUnavailable
    <3>4. d.faults = {"rpd_stale_only"} => code = "STALE_DATA_ONLY"
      BY <2>1, FaultsOfDraw
    <3> QED BY <3>1, <3>2, <3>3, <3>4
  <2>4. \/ Retries(code) /\ Continues("rpd")
        \/ ~Retries(code) /\ Ends("failed")
    BY <1>0, <1>1, <2>2 DEF RunStep
  <2>5. CASE Retries(code) /\ Continues("rpd")
    <3>1. /\ pc' = "rpd" /\ Busy' /\ ~AfterMeasure' /\ ~AfterRpd'
          /\ returned' = <<>> /\ audit' = <<>>
      BY <1>5, <2>5 DEF Continues, Busy, AfterMeasure, AfterRpd
    <3>2. d.faults # {"rpd_unreachable"}
      BY <2>3, <2>5 DEF Retries, Transient
    <3>3. \/ d.faults = {OnceUnavailable} /\ attempt' = 1
          \/ d.faults = {"rpd_stale_only"}
      BY <1>0, <1>2, <2>3, <3>2
    <3>4. FirstRunUnderWay(d)'
      BY <1>2, <1>3, <1>5, <3>1, <3>3 DEF FirstRunUnderWay
    <3> QED BY <3>1, <3>4
  <2>6. CASE ~Retries(code) /\ Ends("failed")
    <3>1. ~Busy'
      BY <2>6 DEF Ends, Busy
    <3>2. d.faults # {"rpd_unreachable"} => attempt = MaxRemeasure
      <4>1. d.faults # {"rpd_unreachable"} => ~(attempt < MaxRemeasure)
        BY <1>0, <2>3, <2>6 DEF Retries, Transient
      <4> QED BY <1>2, <4>1, MaxRemeasureNat
    <3>3. \/ /\ \/ d.faults = {"rpd_unreachable"}
                \/ d.faults = {OnceUnavailable} /\ MaxRemeasure = 0
             /\ attempt' = 1
          \/ d.faults = {"rpd_stale_only"} /\ attempt' = MaxRemeasure + 1
      BY <1>0, <1>2, <2>3, <3>2
    <3>4. ASSUME NEW result, result.status = "failed", result.trace.calls = NewCalls
          PROVE  FirstResult(d, result)
      BY <1>4, <3>3, <3>4 DEF FirstResult
    <3>5. FirstRunOver(d)'
      BY <1>5, <2>6, <3>4, FirstEnding
    <3> QED BY <3>1, <3>5
  <2> QED BY <2>4, <2>5, <2>6
<1> QED BY <1>6, <1>7
\* The readings of a first run are what the trace goes on naming.
LEMMA FirstGoesOn ==
  ASSUME NEW d, IsDraw(d), Inv, FirstRunUnderWay(d), AfterRpd,
         RunStep, Grows, attempts' = attempts,
         NEW next \in {"amps", "measure", "classifyAmps", "localize"}, Continues(next),
         next = "classifyAmps" => AmpsLook(d, GetIn(store', AmpsRefOf(trace'.calls, attempt'))),
         next = "localize" => AfterMeasure
  PROVE  Busy' /\ FirstRunUnderWay(d)'
<1> DEFINE n == attempt
           calls == trace.calls
<1>0. /\ Control /\ CallsInv /\ EvidenceInv /\ Busy /\ Kept(store, store') /\ pc # "rpd"
  BY DEF Inv, AfterRpd, Busy, Grows
<1>1. /\ n \in Nat /\ n > 0 /\ Len(calls) = n + CallsSince(pc)
      /\ trace'.calls = NewCalls
      /\ \A i \in 1 .. Len(calls) : NewCalls[i] = calls[i]
  BY <1>0, Places
<1>2. CallsSince(pc) \in 0 .. 4 /\ (AfterMeasure => CallsSince(pc) \in 3 .. 4)
  BY DEF AfterRpd, AfterMeasure, CallsSince
<1>3. RpdEvidence(store, calls, n)
  BY <1>0 DEF EvidenceInv
<1>4. AfterMeasure => AmpEvidence(store, calls, n, Measurable(SegmentAmps))
  BY <1>0 DEF EvidenceInv
<1>5. attempt' = n /\ trigger' = trigger
  BY <1>0 DEF RunStep
<1>6. /\ returned = <<>> /\ audit = <<>> /\ trigger \in {{}, {"call"}}
      /\ attempts = IF attempt > 1 THEN 2 ELSE attempt
      /\ d.faults \in {{}, {OnceUnavailable}} /\ attempt = CapturesFor(d.faults)
      /\ GetIn(store, RpdRefOf(calls, n)).class = d.label
  BY DEF FirstRunUnderWay
<1>7. AfterMeasure => AmpsLook(d, GetIn(store, AmpsRefOf(calls, n)))
  BY DEF FirstRunUnderWay
<1> HIDE DEF n, calls
<1>8. NewCalls[n] = calls[n] /\ (AfterMeasure => NewCalls[n + 3] = calls[n + 3])
  BY <1>1, <1>2
<1>9. GetIn(store', RpdRefOf(NewCalls, n)) = GetIn(store, RpdRefOf(calls, n))
  BY <1>0, <1>3, <1>8, RpdEvidenceKept
<1>10. ASSUME AfterMeasure
       PROVE  GetIn(store', AmpsRefOf(NewCalls, n)) = GetIn(store, AmpsRefOf(calls, n))
  BY <1>0, <1>4, <1>8, <1>10, AmpEvidenceKept
<1>11. pc' = next /\ returned' = <<>> /\ audit' = <<>>
  BY <1>6 DEF Continues
<1>12. GetIn(store', RpdRefOf(trace'.calls, attempt')).class = d.label
  BY <1>1, <1>5, <1>6, <1>9
<1>13. AfterMeasure' => AmpsLook(d, GetIn(store', AmpsRefOf(trace'.calls, attempt')))
  <2>1. AfterMeasure' => next \in {"classifyAmps", "localize"}
    BY <1>11 DEF AfterMeasure
  <2>2. ASSUME next = "localize" PROVE AmpsLook(d, GetIn(store', AmpsRefOf(trace'.calls, attempt')))
    BY <1>1, <1>5, <1>7, <1>10, <2>2
  <2> QED BY <2>1, <2>2
<1>14. /\ attempts' = IF attempt' > 1 THEN 2 ELSE attempt'
       /\ trigger' \in {{}, {"call"}} /\ attempt' = CapturesFor(d.faults)
  BY <1>5, <1>6 DEF n
<1>15. AmpsLook(d, GetIn(store, AmpsRefOf(trace.calls, attempt)))'
         <=> AmpsLook(d, GetIn(store', AmpsRefOf(trace'.calls, attempt')))
  BY DEF AmpsLook, GetIn, AmpsRefOf
<1> HIDE DEF AmpsLook
<1>16. Busy' /\ pc' # "rpd"
  BY <1>11 DEF Busy
<1> QED BY <1>6, <1>11, <1>12, <1>13, <1>14, <1>15, <1>16 DEF FirstRunUnderWay

\* Where the calls of a run that goes on or ends stand.
LEMMA FirstCalls ==
  ASSUME Inv, RunStep, AcceptedReply, AfterRpd
  PROVE  /\ Shaped(NewCalls, attempt) /\ Len(NewCalls) = attempt + CallsSince(pc) + 1
         /\ attempt \in Nat /\ NewCalls[attempt + CallsSince(pc) + 1].result = reply'
<1>0. Control /\ CallsInv /\ Busy /\ pc # "rpd"
  BY DEF Inv, AfterRpd, Busy
<1>1. attempt' = attempt
  BY <1>0 DEF RunStep
<1>2. Shaped(NewCalls, attempt)
  BY <1>0, <1>1, StepKeepsCalls
<1>3. IsSeq(trace.calls)
  BY <1>0 DEF CallsInv, Shaped
<1>4. /\ Len(NewCalls) = Len(trace.calls) + 1
      /\ NewCalls[Len(trace.calls) + 1].result = reply'
  BY <1>3, CallAdded
<1>5. attempt \in Nat /\ Len(trace.calls) = attempt + CallsSince(pc)
  BY <1>0, Places
<1> QED BY <1>2, <1>4, <1>5

\* Step 2 of a first run: an RPD labelled clean ends it.
LEMMA FirstClassify ==
  ASSUME NEW d, IsDraw(d), scn = ScenarioOf(d), Inv, FirstRunUnderWay(d), ClassifyRpd
  PROVE  IF Busy' THEN FirstRunUnderWay(d)' ELSE FirstRunOver(d)'
<1> DEFINE rpd == Get(reply.ref)
           refs == <<reply.ref>>
           items == [i \in DOMAIN refs |-> Get(refs[i])]
<1>0. /\ StoreOK /\ Control /\ CallsInv /\ EvidenceInv /\ pc = "classifyRpd" /\ AfterRpd /\ Busy
  BY DEF Inv, Busy, AfterRpd, ClassifyRpd
<1>1. /\ RunStep /\ Grows /\ AcceptedReply /\ attempts' = attempts
  BY ClassifyRpdStep
<1>2. /\ Shaped(NewCalls, attempt) /\ Len(NewCalls) = attempt + 1 /\ attempt \in Nat
  <2>1. CallsSince(pc) = 0
    BY <1>0 DEF CallsSince
  <2> QED BY <1>0, <1>1, <2>1, FirstCalls
<1>3. /\ returned = <<>> /\ audit = <<>> /\ trigger \in {{}, {"call"}}
      /\ d.faults \in {{}, {OnceUnavailable}} /\ attempt = CapturesFor(d.faults)
      /\ GetIn(store, RpdRefOf(trace.calls, attempt)).class = d.label
  BY <1>0 DEF FirstRunUnderWay
<1>4. reply = trace.calls[attempt].result
  <2>1. CallsSince(pc) = 0
    BY <1>0 DEF CallsSince
  <2>2. Len(trace.calls) = attempt + 0 /\ Len(trace.calls) > 0
        /\ reply = trace.calls[Len(trace.calls)].result
    BY <1>0, <2>1, Places
  <2> QED BY <1>2, <2>2
<1>5. /\ rpd.class = d.label /\ Has(reply.ref) /\ reply.ref[1] = "meas"
  BY <1>0, <1>3, <1>4 DEF EvidenceInv, RpdEvidence, RpdRefOf, Live, HasIn, GetIn, Has, Get
<1>6. DOMAIN refs = {1} /\ refs[1] = reply.ref /\ items = <<rpd>> /\ {refs[i] : i \in DOMAIN refs} = {reply.ref}
  OBVIOUS
<1>7. Classify(items)
  <2>1. "analyze_fails" \notin scn.faults
    <3>1. scn.faults = d.faults
      BY DrawnScenario
    <3> QED BY <1>3, <3>1 DEF OnceUnavailable
  <2>2. Analyze({refs[i] : i \in DOMAIN refs}, "meas", items)
    BY DEF ClassifyRpd, AnalyzeMeasurements
  <2> HIDE DEF items, refs, rpd
  <2>3. Analyze({reply.ref}, "meas", items)
    BY <1>6, <2>2
  <2> QED BY <1>5, <2>1, <2>3 DEF Analyze
<1> HIDE DEF rpd, refs, items
<1>8. /\ reply'.status = "success" /\ ~Failure(reply')
      /\ reply'.impaired = Cardinality({i \in DOMAIN items : items[i].class # "Clean"})
  BY <1>7 DEF Classify, Failure
<1>9. reply'.impaired = 0 => d.label = "Clean"
  <2> SUFFICES ASSUME d.label # "Clean" PROVE reply'.impaired # 0
    OBVIOUS
  <2>1. {i \in DOMAIN items : items[i].class # "Clean"} = {1}
    BY <1>5, <1>6
  <2> QED BY <1>8, <2>1, FS_Singleton
<1>10. Continues("amps") \/ Ends("low_confidence")
  BY <1>0, <1>1, <1>8 DEF RunStep, Following
<1>11. CASE Continues("amps")
  <2>1. Busy' /\ FirstRunUnderWay(d)'
    BY <1>0, <1>1, <1>11, FirstGoesOn
  <2> QED BY <2>1
<1>12. CASE Ends("low_confidence")
  <2>1. pc' = "idle" /\ ~Busy'
    BY <1>12 DEF Ends, Busy
  <2>2. reply'.impaired = 0
    BY <1>8, <2>1 DEF ClassifyRpd, GoTo
  <2>3. ASSUME NEW result, result.status = "low_confidence", result.trace.calls = NewCalls
        PROVE  FirstResult(d, result)
    BY <1>2, <1>3, <1>9, <2>2, <2>3 DEF FirstResult
  <2>4. FirstRunOver(d)'
    BY <1>3, <1>12, <2>3, FirstEnding
  <2> QED BY <2>1, <2>4
<1> QED BY <1>10, <1>11, <1>12
\* The segment of a run on such a server.
LEMMA DrawnSegment ==
  ASSUME NEW d, IsDraw(d), scn = ScenarioOf(d), Control
  PROVE  /\ HasSegment(port) /\ Segment(port) = AmpTree(d.tree)
         /\ SegmentAmps = 1 .. d.size /\ SegmentAmps # {}
         /\ Measurable(SegmentAmps) = MeasuredIn(d) /\ MeasuredIn(d) # {}
<1>1. HasSegment(port) /\ Segment(port) = AmpTree(d.tree)
  BY DrawnScenario DEF Control
<1>2. SegmentAmps = 1 .. d.size
  <2>1. AmpIds(AmpTree(d.tree)) = 1 .. d.size
    BY DrawnTree DEF IsDraw
  <2> QED BY <1>1, <2>1 DEF SegmentAmps
<1>3. Measurable(SegmentAmps) = MeasuredIn(d)
  BY <1>2, DrawnScenario
<1>4. 1 .. d.size # {} /\ MeasuredIn(d) # {}
  BY DEF IsDraw, MeasuredIn
<1> QED BY <1>1, <1>2, <1>3, <1>4

\* Step 3 of a first run finds the segment.
LEMMA FirstList ==
  ASSUME NEW d, IsDraw(d), scn = ScenarioOf(d), Inv, FirstRunUnderWay(d), ListAmps
  PROVE  IF Busy' THEN FirstRunUnderWay(d)' ELSE FirstRunOver(d)'
<1>0. /\ Control /\ pc = "amps" /\ AfterRpd /\ Busy /\ GetAllAmpsInSegment(port)
  BY DEF Inv, Busy, AfterRpd, ListAmps
<1>1. /\ RunStep /\ Grows /\ AcceptedReply /\ attempts' = attempts
  BY ListAmpsStep
<1>2. "topology_unavailable" \notin scn.faults
  <2>1. scn.faults = d.faults /\ d.faults \in {{}, {OnceUnavailable}}
    BY <1>0, DrawnScenario DEF FirstRunUnderWay
  <2> QED BY <2>1 DEF OnceUnavailable
<1>3. HasSegment(port) /\ AmpIds(Segment(port)) # {}
  BY <1>0, DrawnSegment DEF SegmentAmps
<1>4. reply'.status = "success"
  BY <1>0, <1>2, <1>3 DEF GetAllAmpsInSegment
<1>5. Continues("measure")
  BY <1>0, <1>1, <1>4 DEF RunStep, Failure, Following
<1>6. Busy' /\ FirstRunUnderWay(d)'
  BY <1>0, <1>1, <1>5, FirstGoesOn
<1> QED BY <1>6

\* Step 4 of a first run reads the amps that measure, as labelled.
LEMMA FirstMeasure ==
  ASSUME NEW d, IsDraw(d), scn = ScenarioOf(d), Inv, FirstRunUnderWay(d), MeasureSegment
  PROVE  IF Busy' THEN FirstRunUnderWay(d)' ELSE FirstRunOver(d)'
<1>0. /\ Control /\ CallsInv /\ pc = "measure" /\ AfterRpd /\ Busy
  BY DEF Inv, Busy, AfterRpd, MeasureSegment
<1>1. /\ RunStep /\ Grows /\ AcceptedReply /\ attempts' = attempts
  BY MeasureSegmentStep
<1>2. Measurable(SegmentAmps) = MeasuredIn(d) /\ MeasuredIn(d) # {}
  BY <1>0, DrawnSegment
<1>3. /\ ~Failure(reply')
      /\ LET items == GetIn(store', reply'.ref)
         IN  \A i \in DOMAIN items :
               /\ items[i].device \in MeasuredIn(d)
               /\ items[i].class \in scn.looks[items[i].device]
  BY <1>2, AmpsLookAsLabelled
<1>4. AmpsLook(d, GetIn(store', reply'.ref))
  BY <1>3, DrawnScenario DEF AmpsLook
<1>5. Continues("classifyAmps")
  BY <1>0, <1>1, <1>3 DEF RunStep, Following
<1>6. AmpsRefOf(trace'.calls, attempt') = reply'.ref
  <2>1. CallsSince(pc) = 2
    BY <1>0 DEF CallsSince
  <2>2. NewCalls[attempt + 2 + 1].result = reply' /\ attempt \in Nat
    BY <1>0, <1>1, <2>1, FirstCalls
  <2>3. trace'.calls = NewCalls /\ attempt' = attempt
    BY <1>0, <1>1, <1>5, Places DEF RunStep
  <2>4. attempt + 2 + 1 = attempt + 3
    BY <2>2
  <2> QED BY <2>2, <2>3, <2>4 DEF AmpsRefOf
<1>7. Busy' /\ FirstRunUnderWay(d)'
  BY <1>0, <1>1, <1>4, <1>5, <1>6, FirstGoesOn
<1> QED BY <1>7

\* Step 5 of a first run classifies what it read.
LEMMA FirstClassifyAmps ==
  ASSUME NEW d, IsDraw(d), scn = ScenarioOf(d), Inv, FirstRunUnderWay(d), ClassifyAmps
  PROVE  IF Busy' THEN FirstRunUnderWay(d)' ELSE FirstRunOver(d)'
<1>0. /\ Control /\ CallsInv /\ EvidenceInv /\ pc = "classifyAmps" /\ AfterRpd /\ AfterMeasure /\ Busy
      /\ AnalyzeMeasurementSet(reply.ref)
  BY DEF Inv, Busy, AfterRpd, AfterMeasure, ClassifyAmps
<1>1. /\ RunStep /\ Grows /\ AcceptedReply /\ attempts' = attempts
  BY ClassifyAmpsStep
<1>2. "analyze_fails" \notin scn.faults
  <2>1. scn.faults = d.faults /\ d.faults \in {{}, {OnceUnavailable}}
    BY <1>0, DrawnScenario DEF FirstRunUnderWay
  <2> QED BY <2>1 DEF OnceUnavailable
<1>3. Live(store, reply.ref, "measset")
  <2>1. CallsSince(pc) = 3
    BY <1>0 DEF CallsSince
  <2>2. /\ Len(trace.calls) = attempt + 3 /\ Len(trace.calls) > 0
        /\ reply = trace.calls[Len(trace.calls)].result
    BY <1>0, <2>1, Places
  <2>3. AmpsRefOf(trace.calls, attempt) = reply.ref
    BY <2>2 DEF AmpsRefOf
  <2> QED BY <1>0, <2>3 DEF EvidenceInv, AmpEvidence
<1>4. Has(reply.ref) /\ reply.ref[1] = "measset"
  BY <1>3 DEF Live, HasIn, Has
<1>5. Classify(Get(reply.ref))
  <2>1. Analyze({reply.ref}, "measset", Get(reply.ref))
    BY <1>0, <1>4 DEF AnalyzeMeasurementSet
  <2> QED BY <1>2, <1>4, <2>1 DEF Analyze
<1>6. ~Failure(reply')
  BY <1>5 DEF Classify, Failure
<1>7. Continues("localize")
  BY <1>0, <1>1, <1>6 DEF RunStep, Following
<1>8. Busy' /\ FirstRunUnderWay(d)'
  BY <1>0, <1>1, <1>7, FirstGoesOn
<1> QED BY <1>8

\* Step 6 of a first run answers over the readings of the draw.
LEMMA FirstLocalize ==
  ASSUME NEW d, IsDraw(d), scn = ScenarioOf(d), Inv, FirstRunUnderWay(d), LocalizeSource
  PROVE  IF Busy' THEN FirstRunUnderWay(d)' ELSE FirstRunOver(d)'
<1> DEFINE rpd == GetIn(store, RpdRefOf(trace.calls, attempt))
           items == GetIn(store, AmpsRefOf(trace.calls, attempt))
<1>0. /\ Control /\ CallsInv /\ EvidenceInv /\ pc = "localize"
      /\ AfterRpd /\ AfterClassifyRpd /\ AfterMeasure /\ Busy
  BY DEF Inv, Busy, AfterRpd, AfterClassifyRpd, AfterMeasure, LocalizeSource
<1>1. RunStep /\ AcceptedReply /\ \E pool : AnswersFrom(pool)
  BY LocalizeSourceStep
<1>2. PICK pool : AnswersFrom(pool)
  BY <1>1
<1>3. /\ returned = <<>> /\ audit = <<>> /\ trigger \in {{}, {"call"}}
      /\ d.faults \in {{}, {OnceUnavailable}} /\ attempt = CapturesFor(d.faults)
      /\ rpd.class = d.label /\ AmpsLook(d, items)
  BY <1>0 DEF FirstRunUnderWay
<1>4. rpd.device = RpdRef /\ rpd.class = Planted /\ d.label = Planted
  <2>1. RpdEvidence(store, trace.calls, attempt) /\ ClassEvidence(store, trace.calls, attempt, held)
    BY <1>0 DEF EvidenceInv
  <2>2. rpd.device = RpdRef /\ rpd.class # "Clean"
    BY <2>1 DEF RpdEvidence, ClassEvidence
  <2> QED BY <1>3, <2>2 DEF IsDraw
<1>5. {items[i].device : i \in DOMAIN items} = MeasuredIn(d)
  <2> DEFINE amps == Measurable(SegmentAmps)
  <2>1. AmpEvidence(store, trace.calls, attempt, amps)
    BY <1>0 DEF EvidenceInv
  <2>2. amps = MeasuredIn(d)
    BY <1>0, DrawnSegment
  <2> HIDE DEF amps
  <2> QED BY <2>1, <2>2 DEF AmpEvidence, OneOfEach
<1>6. Segment(port) = AmpTree(d.tree)
  BY <1>0, DrawnSegment
<1> DEFINE public == PublicLocalization(Localize(AmpTree(d.tree), pool))
<1>7. /\ IsSeq(pool) /\ Held(pool) = {rpd} \cup Held(items)
      /\ reply' = [status |-> "success", type |-> Planted, localization |-> public]
      /\ Ends(public.status)
  BY <1>2, <1>4, <1>6 DEF AnswersFrom
<1> HIDE DEF rpd, items
<1>8. ReadsAs(pool, MeasuredIn(d), d.impaired)
  <2>1. {pool[i].device : i \in DOMAIN pool} = {x.device : x \in Held(pool)}
    BY DEF Held
  <2>2. {items[i].device : i \in DOMAIN items} = {x.device : x \in Held(items)}
    BY DEF Held
  <2>3. {pool[i].device : i \in DOMAIN pool} = {RpdRef} \cup MeasuredIn(d)
    BY <1>4, <1>5, <1>7, <2>1, <2>2
  <2>4. ASSUME NEW i \in DOMAIN pool
        PROVE  pool[i].class = IF pool[i].device \in d.impaired \cup {RpdRef} THEN Planted ELSE "Clean"
    <3>1. pool[i] = rpd \/ \E k \in DOMAIN items : pool[i] = items[k]
      BY <1>7 DEF Held
    <3>2. CASE pool[i] = rpd
      BY <1>4, <3>2
    <3>3. CASE \E k \in DOMAIN items : pool[i] = items[k]
      <4>1. PICK k \in DOMAIN items : pool[i] = items[k]
        BY <3>3
      <4>2. items[k].device # RpdRef
        BY <1>5 DEF MeasuredIn, RpdRef
      <4>3. items[k].class = IF items[k].device \in d.impaired THEN Planted ELSE "Clean"
        BY <1>3 DEF AmpsLook
      <4> QED BY <4>1, <4>2, <4>3
    <3> QED BY <3>1, <3>2, <3>3
  <2> QED BY <1>7, <2>3, <2>4 DEF ReadsAs
<1> DEFINE status == public.status
<1>9. /\ Shaped(NewCalls, attempt) /\ Len(NewCalls) = attempt + 5
      /\ NewCalls[attempt + 5].result = reply'
  <2>1. CallsSince(pc) = 4
    BY <1>0 DEF CallsSince
  <2>2. /\ Shaped(NewCalls, attempt) /\ Len(NewCalls) = attempt + 4 + 1 /\ attempt \in Nat
        /\ NewCalls[attempt + 4 + 1].result = reply'
    BY <1>0, <1>1, <2>1, FirstCalls
  <2>3. attempt + 4 + 1 = attempt + 5
    BY <2>2
  <2> QED BY <2>2, <2>3
<1>10. ASSUME NEW result, result.status = status, result.trace.calls = NewCalls
       PROVE  FirstResult(d, result)
  <2>1. /\ Shaped(result.trace.calls, CapturesFor(d.faults))
        /\ Len(result.trace.calls) = CapturesFor(d.faults) + 5
        /\ result.trace.calls[CapturesFor(d.faults) + 5].result
             = [status |-> "success", type |-> Planted, localization |-> public]
    BY <1>3, <1>7, <1>9, <1>10
  <2> QED BY <1>3, <1>4, <1>8, <1>10, <2>1 DEF FirstResult
<1>11. Ends(status)
  BY <1>7
<1> HIDE DEF status
<1>12. FirstRunOver(d)'
  BY <1>3, <1>10, <1>11, FirstEnding
<1>13. ~Busy'
  BY <1>11 DEF Ends, Busy
<1> QED BY <1>12, <1>13
\* A first run starts with nothing behind it, ...
LEMMA FirstBegin ==
  ASSUME Inv, FirstRunInv, NEW p \in Ports, Begin(p), trigger' \in {trigger, {"call"}}
  PROVE  FirstRunInv'
<1>1. runs \in Nat
  <2>1. runs \in 0 .. MaxRuns
    BY DEF Inv, Control
  <2> QED BY <2>1, MaxRunsNat
<1>2. /\ runs' = runs + 1 /\ pc' = "rpd" /\ attempt' = 0
      /\ attempts' = attempts /\ audit' = audit /\ returned' = returned
  BY DEF Begin, serverVars
<1>3. runs' # 0
  BY <1>1, <1>2
<1>4. ASSUME runs' = 1, NEW d PROVE Busy' /\ FirstRunUnderWay(d)'
  <2>1. runs = 0
    BY <1>1, <1>2, <1>4
  <2>2. attempts = 0 /\ returned = <<>> /\ audit = <<>> /\ trigger = {}
    BY <2>1 DEF FirstRunInv
  <2>3. Busy' /\ ~AfterRpd' /\ ~AfterMeasure'
    BY <1>2 DEF Busy, AfterRpd, AfterMeasure
  <2> QED BY <1>2, <2>2, <2>3 DEF FirstRunUnderWay
<1> QED BY <1>3, <1>4 DEF FirstRunInv

\* ... one that is turned away makes no call, ...
LEMMA FirstReject ==
  ASSUME Inv, FirstRunInv, NEW alarm \in Alarms, RejectAlarm(alarm)
  PROVE  FirstRunInv'
<1> DEFINE a == AuditRecord(TurnedAway, {Verdict(alarm)})
           r == [status |-> "not_triggered", trace |-> TurnedAway, handoff |-> FALSE]
<1>1. runs \in Nat
  <2>1. runs \in 0 .. MaxRuns
    BY DEF Inv, Control
  <2> QED BY <2>1, MaxRunsNat
<1>2. /\ runs' = runs + 1 /\ pc' = "idle" /\ Verdict(alarm) = "noCall"
      /\ \/ audit' = Append(audit, a) /\ returned' = Append(returned, r)
         \/ UNCHANGED <<audit, returned>>
  BY DEF RejectAlarm, Finish, TurnedAway, Verdict
<1>3. /\ r.status = "not_triggered" /\ r.trace.calls = <<>> /\ a.trigger = {"noCall"}
  <2>1. TurnedAway.calls = <<>>
    BY TracesAreTraces
  <2>2. Verdict(alarm) = "noCall"
    BY <1>2
  <2> HIDE DEF TurnedAway
  <2> QED BY <2>1, <2>2 DEF AuditRecord
<1> HIDE DEF a, r
<1>4. runs' # 0
  BY <1>1, <1>2
<1>5. ASSUME runs' = 1, NEW d PROVE ~Busy' /\ FirstRunOver(d)'
  <2>1. runs = 0
    BY <1>1, <1>2, <1>5
  <2>2. returned = <<>> /\ audit = <<>>
    BY <2>1 DEF FirstRunInv
  <2>3. ~Busy'
    BY <1>2 DEF Busy
  <2>4. CASE UNCHANGED <<audit, returned>>
    <3>1. DOMAIN returned' = {}
      BY <2>2, <2>4
    <3> QED BY <2>3, <3>1 DEF FirstRunOver
  <2>5. CASE audit' = Append(audit, a) /\ returned' = Append(returned, r)
    <3>1. audit' = <<a>> /\ returned' = <<r>>
      BY <2>2, <2>5
    <3>2. DOMAIN returned' = {1} /\ returned'[1] = r /\ audit'[1] = a
      BY <3>1
    <3> QED BY <1>3, <2>3, <3>2 DEF FirstRunOver
  <2> QED BY <1>2, <2>4, <2>5
<1> QED BY <1>4, <1>5 DEF FirstRunInv

\* ... and the others go step by step.
LEMMA FirstStep ==
  ASSUME Inv, FirstRunInv, Step
  PROVE  FirstRunInv'
<1>1. RunStep /\ Busy /\ runs' = runs /\ scn' = scn
  BY StepKeepsInv DEF RunStep
<1>2. runs # 0
  BY <1>1 DEF FirstRunInv, Busy
<1>3. ASSUME runs = 1, NEW d, IsDraw(d), scn = ScenarioOf(d)
      PROVE  IF Busy' THEN FirstRunUnderWay(d)' ELSE FirstRunOver(d)'
  <2>1. FirstRunUnderWay(d)
    BY <1>1, <1>3 DEF FirstRunInv
  <2>2. CASE CaptureRpd
    BY <1>3, <2>1, <2>2, FirstCapture
  <2>3. CASE ClassifyRpd
    BY <1>3, <2>1, <2>3, FirstClassify
  <2>4. CASE ListAmps
    BY <1>3, <2>1, <2>4, FirstList
  <2>5. CASE MeasureSegment
    BY <1>3, <2>1, <2>5, FirstMeasure
  <2>6. CASE ClassifyAmps
    BY <1>3, <2>1, <2>6, FirstClassifyAmps
  <2>7. CASE LocalizeSource
    BY <1>3, <2>1, <2>7, FirstLocalize
  <2> QED BY <2>2, <2>3, <2>4, <2>5, <2>6, <2>7 DEF Step
<1> QED BY <1>1, <1>2, <1>3 DEF FirstRunInv

\* What the first run against a generated server does, whatever alarm or caller starts it.
LEMMA FirstRunHolds == Spec => []FirstRunInv
<1>1. Init => FirstRunInv
  BY DEF Init, ServerInit, FirstRunInv
<1>2. Inv /\ FirstRunInv /\ [Next]_vars => FirstRunInv'
  <2> SUFFICES ASSUME Inv, FirstRunInv, [Next]_vars PROVE FirstRunInv'
    OBVIOUS
  <2>1. CASE \E p \in Ports : Run(p)
    BY <2>1, FirstBegin DEF Run
  <2>2. CASE \E alarm \in Alarms : RunFromAlarm(alarm)
    <3> PICK alarm \in Alarms : RunFromAlarm(alarm)
      BY <2>2
    <3>1. PICK p \in alarm.port : Begin(p)
      BY DEF RunFromAlarm
    <3>2. p \in Ports
      BY AlarmsNamePorts
    <3>3. trigger' = {"call"}
      BY DEF RunFromAlarm, Verdict
    <3> QED BY <3>1, <3>2, <3>3, FirstBegin
  <2>3. CASE \E alarm \in Alarms : RejectAlarm(alarm)
    BY <2>3, FirstReject
  <2>4. CASE Step
    BY <2>4, FirstStep
  <2>5. CASE UNCHANGED vars
    <3>1. UNCHANGED <<scn, store, attempts, reply, pc, port, attempt, held, trace, trigger, audit,
                      returned, runs>>
      BY <2>5 DEF vars, serverVars, runVars
    <3>2. ASSUME NEW d PROVE FirstRunUnderWay(d) <=> FirstRunUnderWay(d)'
      BY <3>1 DEF FirstRunUnderWay, AfterRpd, AfterMeasure
    <3>3. ASSUME NEW d PROVE FirstRunOver(d) <=> FirstRunOver(d)'
      BY <3>1 DEF FirstRunOver
    <3>4. Busy <=> Busy'
      BY <3>1 DEF Busy
    <3> QED BY <3>1, <3>2, <3>3, <3>4 DEF FirstRunInv
  <2> QED BY <2>1, <2>2, <2>3, <2>4, <2>5 DEF Next, Stopped
<1> QED BY <1>1, <1>2, InvHolds, PTL DEF Spec
--------------------------------------------------------------------------------
(* The cases, as draws and their truths.                                            *)

DrawOf(n, p, label, impaired, faults, failed) ==
  [size |-> n, tree |-> p, label |-> label, impaired |-> impaired,
   faults |-> faults, failed |-> failed]

CommonIn(d) == CommonPoint(AmpTree(d.tree), d.impaired)
TypeIn(d) == IF CommonIn(d) \in MeasuredIn(d) \ d.impaired THEN "span"
             ELSE IF Cardinality(d.impaired) = 1 THEN "device" ELSE "branch"

\* A fault to be localized: its truth is that the common point is the source, with the
\* type the localizer gives it if the truth has one at all.
FindableDraw(d, truth) ==
  /\ d.label = Planted /\ d.impaired # {} /\ d.faults \in {{}, {OnceUnavailable}}
  /\ TypeIn(d) = "span" \/ CommonIn(d) \in d.impaired
  /\ \E types \in {{}, {TypeIn(d)}} :
       truth = Findable(CommonIn(d), types, d.impaired,
                        {IF d.failed = {} THEN "localized" ELSE "low_confidence"},
                        d.failed, CapturesFor(d.faults) - 1)

\* Nothing to be localized: a clean RPD, or one that is never read, or an alarm turned away.
NothingDraw(d, truth) ==
  /\ d.impaired = {} /\ d.failed = {}
  /\ \/ /\ d.label = "Clean" /\ d.faults = {}
        /\ truth = Nothing("call", {"low_confidence", "unresolved"}, 2 .. 4, 1)
     \/ /\ d.label = Planted /\ d.faults = {"rpd_unreachable"}
        /\ truth = Nothing("call", {"unresolved"}, 1 .. 2, 1)
     \/ /\ d.label = Planted /\ d.faults = {"rpd_stale_only"}
        /\ truth = Nothing("call", {"unresolved"}, 2 .. 3, 2)
     \/ truth = Nothing("noCall", {"not_triggered"}, 0 .. 0, 0)

\* The fields of a draw.
LEMMA DrawFields ==
  ASSUME NEW n, NEW p, NEW label, NEW impaired, NEW faults, NEW failed, NEW d,
         d = DrawOf(n, p, label, impaired, faults, failed)
  PROVE  /\ d.size = n /\ d.tree = p /\ d.label = label /\ d.impaired = impaired
         /\ d.faults = faults /\ d.failed = failed
         /\ ScenarioOf(d) = CaseScenario(p, label, impaired, faults, failed)
<1>1. /\ d.size = n /\ d.tree = p /\ d.label = label /\ d.impaired = impaired
      /\ d.faults = faults /\ d.failed = failed
  BY DEF DrawOf
<1>2. ScenarioOf(d) = CaseScenario(p, label, impaired, faults, failed)
  BY <1>1 DEF ScenarioOf
<1> QED BY <1>1, <1>2

\* Impaired amps that are one amp and amps below it have that one as their common point.
LEMMA BelowOne ==
  ASSUME NEW d, IsDraw(d), NEW fault \in 1 .. d.size,
         fault \in d.impaired, d.impaired \subseteq Descendants(d.tree, fault)
  PROVE  /\ CommonIn(d) = fault
         /\ TypeIn(d) = IF Cardinality(d.impaired) = 1 THEN "device" ELSE "branch"
<1> DEFINE n == d.size
           p == d.tree
           impaired == d.impaired
<1>1. /\ n \in Nat \ {0} /\ p \in Trees(n) /\ impaired \in SUBSET (1 .. n)
  BY DEF IsDraw
<1> HIDE DEF n, p, impaired
<1>2. fault \in 1 .. n /\ fault \in impaired /\ impaired \subseteq Descendants(p, fault)
  BY DEF n, p, impaired
<1>3. \A a \in impaired : fault \in Above(AmpTree(p), a)
  BY <1>1, <1>2, DescendantsAreBelow
<1>4. CommonPoint(AmpTree(p), impaired) = fault
  BY <1>1, <1>2, <1>3, HighestIsCommon
<1>5. CommonIn(d) = fault
  BY <1>4 DEF CommonIn, p, impaired
<1> QED BY <1>5 DEF TypeIn

\* The trees of a dimension are trees of some size.
LEMMA TreesHaveSizes ==
  ASSUME NEW least \in Nat \ {0}
  PROVE  /\ \A p \in TreesFrom(least) : \E n \in Nat \ {0} : p \in Trees(n) /\ DOMAIN p = 1 .. n
         /\ \A p \in BranchingTreesFrom(least) :
              \E n \in Nat \ {0} : p \in Trees(n) /\ DOMAIN p = 1 .. n
<1>1. \A n \in least .. least + ExtraAmps : n \in Nat \ {0}
  BY ExtraAmpsNat
<1>2. \A n \in Nat \ {0} : \A p \in Trees(n) : DOMAIN p = 1 .. n
  BY DrawnTree
<1> QED BY <1>1, <1>2 DEF TreesFrom, BranchingTreesFrom, BranchingTrees

\* The root of some amps is one of them.
LEMMA RootDescends ==
  ASSUME NEW n \in Nat \ {0}, NEW p \in Trees(n), NEW root \in 1 .. n
  PROVE  root \in Descendants(p, root) /\ Descendants(p, root) \subseteq 1 .. n
<1>1. IsTree(AmpTree(p), 1) /\ NodeIds(AmpTree(p)) = 1 .. n
  BY DrawnTree
<1> DEFINE t == AmpTree(p)
<1> HIDE DEF t
<1>2. root \in Above(t, root)
  BY <1>1, AboveOrders DEF t
<1> QED BY <1>2, DescendantsAreBelow DEF t

\* What a case is to a draw of its scenario.
IsCaseOf(c, d) ==
  IsDraw(d) /\ c.scenario = ScenarioOf(d) /\ (FindableDraw(d, c.truth) \/ NothingDraw(d, c.truth))

\* The parts of a case.
LEMMA CaseParts ==
  ASSUME NEW scenario, NEW truth
  PROVE  Case(scenario, truth).scenario = scenario /\ Case(scenario, truth).truth = truth
BY DEF Case

\* One impaired amp.
LEMMA SingleDrawn == \A c \in SingleDeviceCases : \E d : IsCaseOf(c, d)
<1> SUFFICES ASSUME NEW c \in SingleDeviceCases PROVE \E d : IsCaseOf(c, d)
  OBVIOUS
<1>1. PICK p \in TreesFrom(3) : \E fault \in DOMAIN p :
        c = Case(CaseScenario(p, Planted, {fault}, {}, {}),
                 Findable(fault, {"device"}, {fault}, {"localized"}, {}, 0))
  BY DEF SingleDeviceCases
<1>2. PICK n \in Nat \ {0} : p \in Trees(n) /\ DOMAIN p = 1 .. n
  BY <1>1, TreesHaveSizes
<1>3. PICK fault \in 1 .. n :
        c = Case(CaseScenario(p, Planted, {fault}, {}, {}),
                 Findable(fault, {"device"}, {fault}, {"localized"}, {}, 0))
  BY <1>1, <1>2
<1> DEFINE d == DrawOf(n, p, Planted, {fault}, {}, {})
<1>4. /\ c.scenario = CaseScenario(p, Planted, {fault}, {}, {})
      /\ c.truth = Findable(fault, {"device"}, {fault}, {"localized"}, {}, 0)
  BY <1>3, CaseParts
<1>5. /\ d.size = n /\ d.tree = p /\ d.label = Planted /\ d.impaired = {fault}
      /\ d.faults = {} /\ d.failed = {}
      /\ ScenarioOf(d) = CaseScenario(p, Planted, {fault}, {}, {})
  BY DrawFields
<1> HIDE DEF d
<1>6. IsDraw(d)
  BY <1>2, <1>5 DEF IsDraw
<1>7. CommonIn(d) = fault /\ TypeIn(d) = "device"
  <2>1. {fault} \subseteq Descendants(p, fault)
    BY <1>2, RootDescends
  <2>2. Cardinality({fault}) = 1
    BY FS_Singleton
  <2> QED BY <1>5, <1>6, <2>1, <2>2, BelowOne
<1>8. CapturesFor(d.faults) - 1 = 0
  BY <1>5 DEF CapturesFor
<1>9. FindableDraw(d, c.truth)
  BY <1>4, <1>5, <1>7, <1>8 DEF FindableDraw
<1> QED BY <1>4, <1>5, <1>6, <1>9 DEF IsCaseOf
\* An impaired branch, with or without a miss of the RPD.
LEMMA BranchDrawn ==
  ASSUME NEW faults \in {{}, {OnceUnavailable}}
  PROVE  \A c \in BranchCases(faults, CapturesFor(faults) - 1) : \E d : IsCaseOf(c, d)
<1> DEFINE extra == CapturesFor(faults) - 1
<1> SUFFICES ASSUME NEW c \in BranchCases(faults, extra) PROVE \E d : IsCaseOf(c, d)
  OBVIOUS
<1> HIDE DEF extra
<1>1. PICK p \in TreesFrom(4) : \E fault \in {a \in DOMAIN p : ChildrenOf(p, a) # {}} :
        c = Case(CaseScenario(p, Planted, Descendants(p, fault), faults, {}),
                 Findable(fault, {"branch"}, Descendants(p, fault), {"localized"}, {}, extra))
  BY DEF BranchCases
<1>2. PICK n \in Nat \ {0} : p \in Trees(n) /\ DOMAIN p = 1 .. n
  BY <1>1, TreesHaveSizes
<1>3. PICK fault \in 1 .. n :
        /\ ChildrenOf(p, fault) # {}
        /\ c = Case(CaseScenario(p, Planted, Descendants(p, fault), faults, {}),
                 Findable(fault, {"branch"}, Descendants(p, fault), {"localized"}, {}, extra))
  BY <1>1, <1>2
<1> DEFINE impaired == Descendants(p, fault)
           d == DrawOf(n, p, Planted, impaired, faults, {})
<1>4. /\ c.scenario = CaseScenario(p, Planted, impaired, faults, {})
      /\ c.truth = Findable(fault, {"branch"}, impaired, {"localized"}, {}, extra)
  BY <1>3, CaseParts
<1>5. /\ d.size = n /\ d.tree = p /\ d.label = Planted /\ d.impaired = impaired
      /\ d.faults = faults /\ d.failed = {}
      /\ ScenarioOf(d) = CaseScenario(p, Planted, impaired, faults, {})
  BY DrawFields
<1>6. fault \in impaired /\ impaired \subseteq 1 .. n
  BY <1>2, RootDescends
<1>7. Cardinality(impaired) # 1
  <2>1. PICK b : b \in ChildrenOf(p, fault)
    BY <1>3
  <2>2. b \in 1 .. n /\ p[b] = fault /\ b # 1
    BY <1>2, <2>1, DrawnTree DEF ChildrenOf, None
  <2>3. b # fault
    <3>1. p[b] \in 1 .. b - 1
      BY <1>2, <2>2, DrawnTree
    <3> QED BY <2>2, <3>1
  <2>4. b \in impaired
    <3>1. fault \in Above(AmpTree(p), fault)
      BY <1>2, <1>6, DescendantsAreBelow
    <3>2. fault \in Above(AmpTree(p), b)
      BY <1>2, <2>2, <3>1, AboveFromParent
    <3> QED BY <1>2, <2>2, <3>2, DescendantsAreBelow
  <2>5. IsFiniteSet(1 .. n)
    BY <1>2, FS_Interval
  <2>6. IsFiniteSet(impaired)
    BY <1>6, <2>5, FS_Subset
  <2> HIDE DEF impaired
  <2>7. Cardinality(impaired) = 1 => \E x : impaired = {x}
    BY <2>6, FS_Singleton
  <2> QED BY <1>6, <2>3, <2>4, <2>7
<1> HIDE DEF d
<1>8. IsDraw(d)
  <2>1. (1 .. n) \ {} # {} /\ impaired \in SUBSET ((1 .. n) \ {})
    BY <1>6
  <2> HIDE DEF impaired
  <2> QED BY <1>2, <1>5, <2>1 DEF IsDraw
<1>9. CommonIn(d) = fault /\ TypeIn(d) = "branch"
  <2> DEFINE below == Descendants(p, fault)
  <2>1. impaired \subseteq below
    OBVIOUS
  <2> HIDE DEF impaired
  <2> QED BY <1>5, <1>6, <1>7, <1>8, <2>1, BelowOne
<1> HIDE DEF impaired
<1>10. FindableDraw(d, c.truth)
  BY <1>4, <1>5, <1>6, <1>9 DEF FindableDraw, extra
<1> QED BY <1>4, <1>5, <1>8, <1>10 DEF IsCaseOf

\* The impaired span below the first amp.
LEMMA SpanDrawn == \A c \in SpanCases : \E d : IsCaseOf(c, d)
<1> SUFFICES ASSUME NEW c \in SpanCases PROVE \E d : IsCaseOf(c, d)
  OBVIOUS
<1>1. PICK p \in BranchingTreesFrom(5) : \E pair \in kSubset(2, ChildrenOf(p, 1)) :
        LET impaired == UNION {Descendants(p, b) : b \in pair}
        IN  c = Case(CaseScenario(p, Planted, impaired, {}, {}),
                     Findable(1, {"span"}, impaired, {"localized"}, {}, 0))
  BY DEF SpanCases
<1>2. PICK n \in Nat \ {0} : p \in Trees(n) /\ DOMAIN p = 1 .. n
  BY <1>1, TreesHaveSizes
<1>3. PICK pair \in kSubset(2, ChildrenOf(p, 1)) :
        LET impaired == UNION {Descendants(p, b) : b \in pair}
        IN  c = Case(CaseScenario(p, Planted, impaired, {}, {}),
                     Findable(1, {"span"}, impaired, {"localized"}, {}, 0))
  BY <1>1
<1> DEFINE impaired == UNION {Descendants(p, b) : b \in pair}
           d == DrawOf(n, p, Planted, impaired, {}, {})
<1>4. /\ c.scenario = CaseScenario(p, Planted, impaired, {}, {})
      /\ c.truth = Findable(1, {"span"}, impaired, {"localized"}, {}, 0)
  BY <1>3, CaseParts
<1>5. /\ d.size = n /\ d.tree = p /\ d.label = Planted /\ d.impaired = impaired
      /\ d.faults = {} /\ d.failed = {}
      /\ ScenarioOf(d) = CaseScenario(p, Planted, impaired, {}, {})
  BY DrawFields
<1>6. /\ ChildrenOf(p, 1) \subseteq 2 .. n
      /\ \A b \in ChildrenOf(p, 1) : p[b] = 1
  BY <1>2, DrawnTree DEF ChildrenOf, None
<1>7. PICK x \in ChildrenOf(p, 1), y \in ChildrenOf(p, 1) : x # y /\ pair = {x, y}
  <2>1. pair \in SUBSET ChildrenOf(p, 1) /\ Cardinality(pair) = 2
    BY DEF kSubset
  <2>2. IsFiniteSet(1 .. n)
    BY <1>2, FS_Interval
  <2>3. IsFiniteSet(pair)
    <3>1. pair \subseteq 1 .. n
      BY <1>6, <2>1
    <3> QED BY <2>2, <3>1, FS_Subset
  <2>4. PICK x : x \in pair
    BY <2>1, <2>3, FS_EmptySet
  <2>5. IsFiniteSet(pair \ {x}) /\ Cardinality(pair \ {x}) = 1
    <3>1. /\ IsFiniteSet(pair \ {x})
          /\ Cardinality(pair \ {x}) = IF x \in pair THEN Cardinality(pair) - 1 ELSE Cardinality(pair)
      BY <2>3, FS_RemoveElement
    <3> QED BY <2>1, <2>4, <3>1
  <2>6. PICK y : pair \ {x} = {y}
    BY <2>5, FS_Singleton
  <2> QED BY <2>1, <2>4, <2>6
<1>8. /\ x \in impaired /\ y \in impaired /\ impaired \subseteq 1 .. n
  <2>1. /\ x \in Descendants(p, x) /\ y \in Descendants(p, y)
        /\ Descendants(p, x) \subseteq 1 .. n /\ Descendants(p, y) \subseteq 1 .. n
    BY <1>2, <1>6, RootDescends
  <2> QED BY <1>7, <2>1
<1>9. 1 \notin impaired
  <2>1. Above(AmpTree(p), 1) = {1}
    BY <1>2, AboveFromParent
  <2>2. ASSUME NEW b \in {x, y} PROVE 1 \notin Descendants(p, b)
    BY <1>2, <1>6, <2>1, DescendantsAreBelow
  <2> QED BY <1>7, <2>2
<1> HIDE DEF d, impaired
<1>10. IsDraw(d)
  BY <1>2, <1>5, <1>8 DEF IsDraw
<1>11. CommonIn(d) = 1
  <2>1. CommonPoint(AmpTree(p), impaired) = 1
    BY <1>2, <1>7, <1>8, FirstIsCommonOfTwo
  <2> QED BY <1>5, <2>1 DEF CommonIn
<1>12. TypeIn(d) = "span"
  BY <1>2, <1>5, <1>9, <1>11 DEF TypeIn, MeasuredIn
<1>13. CapturesFor(d.faults) - 1 = 0
  BY <1>5 DEF CapturesFor
<1>14. FindableDraw(d, c.truth)
  BY <1>4, <1>5, <1>8, <1>11, <1>12, <1>13 DEF FindableDraw
<1> QED BY <1>4, <1>5, <1>10, <1>14 DEF IsCaseOf

\* An impaired child of the first amp, with a clean amp that does not measure.
LEMMA PartialDrawn == \A c \in PartialFailureCases : \E d : IsCaseOf(c, d)
<1> SUFFICES ASSUME NEW c \in PartialFailureCases PROVE \E d : IsCaseOf(c, d)
  OBVIOUS
<1>1. PICK p \in BranchingTreesFrom(5) : \E fault \in ChildrenOf(p, 1) :
        \E failed \in DOMAIN p \ Descendants(p, fault) :
        c = Case(CaseScenario(p, Planted, Descendants(p, fault), {}, {failed}),
                 Findable(fault, {}, Descendants(p, fault), {"low_confidence"}, {failed}, 0))
  <2> DEFINE CaseOf(p, fault, failed) ==
               Case(CaseScenario(p, Planted, Descendants(p, fault), {}, {failed}),
                    Findable(fault, {}, Descendants(p, fault), {"low_confidence"}, {failed}, 0))
             OfTree(p) == UNION {{CaseOf(p, fault, failed) : failed \in DOMAIN p \ Descendants(p, fault)}
                                  : fault \in ChildrenOf(p, 1)}
  <2>1. PartialFailureCases = UNION {OfTree(p) : p \in BranchingTreesFrom(5)}
    BY DEF PartialFailureCases
  <2> HIDE DEF CaseOf
  <2>2. PICK p \in BranchingTreesFrom(5) : c \in OfTree(p)
    BY <2>1
  <2>3. PICK fault \in ChildrenOf(p, 1) :
          c \in {CaseOf(p, fault, failed) : failed \in DOMAIN p \ Descendants(p, fault)}
    BY <2>2
  <2>4. PICK failed \in DOMAIN p \ Descendants(p, fault) : c = CaseOf(p, fault, failed)
    BY <2>3
  <2> QED BY <2>4 DEF CaseOf
<1>2. PICK n \in Nat \ {0} : p \in Trees(n) /\ DOMAIN p = 1 .. n
  BY <1>1, TreesHaveSizes
<1>3. PICK fault \in 1 .. n : \E failed \in 1 .. n \ Descendants(p, fault) :
        c = Case(CaseScenario(p, Planted, Descendants(p, fault), {}, {failed}),
                 Findable(fault, {}, Descendants(p, fault), {"low_confidence"}, {failed}, 0))
  BY <1>1, <1>2 DEF ChildrenOf
<1> DEFINE impaired == Descendants(p, fault)
<1>4. PICK failed \in 1 .. n \ impaired :
        c = Case(CaseScenario(p, Planted, impaired, {}, {failed}),
                 Findable(fault, {}, impaired, {"low_confidence"}, {failed}, 0))
  BY <1>3
<1> DEFINE d == DrawOf(n, p, Planted, impaired, {}, {failed})
<1>5. /\ c.scenario = CaseScenario(p, Planted, impaired, {}, {failed})
      /\ c.truth = Findable(fault, {}, impaired, {"low_confidence"}, {failed}, 0)
  BY <1>4, CaseParts
<1>6. /\ d.size = n /\ d.tree = p /\ d.label = Planted /\ d.impaired = impaired
      /\ d.faults = {} /\ d.failed = {failed}
      /\ ScenarioOf(d) = CaseScenario(p, Planted, impaired, {}, {failed})
  BY DrawFields
<1>7. fault \in impaired /\ impaired \subseteq 1 .. n
  BY <1>2, RootDescends
<1>8. IsDraw(d)
  <2>1. fault \in (1 .. n) \ {failed} /\ impaired \in SUBSET ((1 .. n) \ {failed})
    BY <1>7
  <2> HIDE DEF d, impaired
  <2> QED BY <1>2, <1>6, <2>1 DEF IsDraw
<1>9. CommonIn(d) = fault
  <2>1. d.impaired \subseteq Descendants(d.tree, fault)
    BY <1>6
  <2> HIDE DEF d, impaired
  <2> QED BY <1>6, <1>7, <1>8, <2>1, BelowOne
<1> HIDE DEF d, impaired
<1>10. CapturesFor(d.faults) - 1 = 0
  BY <1>6 DEF CapturesFor
<1>11. FindableDraw(d, c.truth)
  BY <1>5, <1>6, <1>7, <1>9, <1>10 DEF FindableDraw
<1> QED BY <1>5, <1>6, <1>8, <1>11 DEF IsCaseOf

\* The cases without an impaired amp.
LEMMA CleanDrawn ==
  ASSUME NEW label \in {"Clean", Planted},
         NEW faults \in {{}, {"rpd_unreachable"}, {"rpd_stale_only"}}, NEW truth,
         \A d : /\ d.impaired = {} /\ d.failed = {} /\ d.label = label /\ d.faults = faults
                => NothingDraw(d, truth)
  PROVE  \A c \in AllCleanCases(label, faults, truth) : \E d : IsCaseOf(c, d)
<1> SUFFICES ASSUME NEW c \in AllCleanCases(label, faults, truth) PROVE \E d : IsCaseOf(c, d)
  OBVIOUS
<1>1. PICK p \in TreesFrom(3) : c = Case(CaseScenario(p, label, {}, faults, {}), truth)
  BY DEF AllCleanCases
<1>2. PICK n \in Nat \ {0} : p \in Trees(n)
  BY <1>1, TreesHaveSizes
<1> DEFINE d == DrawOf(n, p, label, {}, faults, {})
<1>3. /\ c.scenario = CaseScenario(p, label, {}, faults, {}) /\ c.truth = truth
  BY <1>1, CaseParts
<1>4. /\ d.size = n /\ d.tree = p /\ d.label = label /\ d.impaired = {}
      /\ d.faults = faults /\ d.failed = {}
      /\ ScenarioOf(d) = CaseScenario(p, label, {}, faults, {})
  BY DrawFields
<1> HIDE DEF d
<1>5. IsDraw(d)
  <2>1. 1 \in (1 .. n) \ {}
    OBVIOUS
  <2>2. (1 .. n) \ {} # {}
    BY <2>1
  <2> QED BY <1>2, <1>4, <2>2 DEF IsDraw
<1>6. NothingDraw(d, truth)
  BY <1>4
<1> QED BY <1>3, <1>4, <1>5, <1>6 DEF IsCaseOf

\* Every case is one of a draw of its scenario.
LEMMA CasesAreDrawn == \A c \in Cases : \E d : IsCaseOf(c, d)
<1> DEFINE once == "rpd_measurement_unavailable_once"
<1>1. ASSUME NEW c \in BranchCases({}, 0) PROVE \E d : IsCaseOf(c, d)
  <2> DEFINE faults == {}
  <2>1. CapturesFor(faults) - 1 = 0 /\ faults \in {{}, {OnceUnavailable}}
    BY DEF CapturesFor, OnceUnavailable
  <2>2. c \in BranchCases(faults, CapturesFor(faults) - 1)
    BY <1>1, <2>1
  <2> HIDE DEF faults
  <2> QED BY <2>1, <2>2, BranchDrawn
<1>2. ASSUME NEW c \in BranchCases({once}, 1) PROVE \E d : IsCaseOf(c, d)
  <2> DEFINE faults == {once}
  <2>1. CapturesFor(faults) - 1 = 1 /\ faults \in {{}, {OnceUnavailable}}
    BY DEF CapturesFor, OnceUnavailable
  <2>2. c \in BranchCases(faults, CapturesFor(faults) - 1)
    BY <1>2, <2>1
  <2> HIDE DEF faults
  <2> QED BY <2>1, <2>2, BranchDrawn
<1> DEFINE clean == Nothing("call", {"low_confidence", "unresolved"}, 2 .. 4, 1)
           unread == Nothing("call", {"unresolved"}, 1 .. 2, 1)
           stale == Nothing("call", {"unresolved"}, 2 .. 3, 2)
           refused == Nothing("noCall", {"not_triggered"}, 0 .. 0, 0)
<1>3. \A c \in AllCleanCases("Clean", {}, clean) : \E d : IsCaseOf(c, d)
  <2> DEFINE label == "Clean"
             faults == {}
  <2>1. \A d : /\ d.impaired = {} /\ d.failed = {} /\ d.label = label /\ d.faults = faults
               => NothingDraw(d, clean)
    BY DEF NothingDraw
  <2>2. label \in {"Clean", Planted} /\ faults \in {{}, {"rpd_unreachable"}, {"rpd_stale_only"}}
    OBVIOUS
  <2> HIDE DEF label, faults, clean
  <2>3. \A c \in AllCleanCases(label, faults, clean) : \E d : IsCaseOf(c, d)
    BY <2>1, <2>2, CleanDrawn
  <2> QED BY <2>3 DEF label, faults
<1>4. \A c \in AllCleanCases(Planted, {"rpd_unreachable"}, unread) : \E d : IsCaseOf(c, d)
  <2> DEFINE faults == {"rpd_unreachable"}
  <2>1. \A d : /\ d.impaired = {} /\ d.failed = {} /\ d.label = Planted /\ d.faults = faults
               => NothingDraw(d, unread)
    BY DEF NothingDraw
  <2>2. faults \in {{}, {"rpd_unreachable"}, {"rpd_stale_only"}}
    OBVIOUS
  <2> HIDE DEF faults, unread
  <2>3. \A c \in AllCleanCases(Planted, faults, unread) : \E d : IsCaseOf(c, d)
    BY <2>1, <2>2, CleanDrawn
  <2> QED BY <2>3 DEF faults
<1>5. \A c \in AllCleanCases(Planted, {"rpd_stale_only"}, stale) : \E d : IsCaseOf(c, d)
  <2> DEFINE faults == {"rpd_stale_only"}
  <2>1. \A d : /\ d.impaired = {} /\ d.failed = {} /\ d.label = Planted /\ d.faults = faults
               => NothingDraw(d, stale)
    BY DEF NothingDraw
  <2>2. faults \in {{}, {"rpd_unreachable"}, {"rpd_stale_only"}}
    OBVIOUS
  <2> HIDE DEF faults, stale
  <2>3. \A c \in AllCleanCases(Planted, faults, stale) : \E d : IsCaseOf(c, d)
    BY <2>1, <2>2, CleanDrawn
  <2> QED BY <2>3 DEF faults
<1>6. \A c \in AllCleanCases(Planted, {}, refused) : \E d : IsCaseOf(c, d)
  <2> DEFINE faults == {}
  <2>1. \A d : /\ d.impaired = {} /\ d.failed = {} /\ d.label = Planted /\ d.faults = faults
               => NothingDraw(d, refused)
    BY DEF NothingDraw
  <2>2. faults \in {{}, {"rpd_unreachable"}, {"rpd_stale_only"}}
    OBVIOUS
  <2> HIDE DEF faults, refused
  <2>3. \A c \in AllCleanCases(Planted, faults, refused) : \E d : IsCaseOf(c, d)
    BY <2>1, <2>2, CleanDrawn
  <2> QED BY <2>3 DEF faults
<1> HIDE DEF clean, unread, stale, refused
<1>7. ASSUME NEW c \in Cases
      PROVE  \/ c \in SingleDeviceCases \/ c \in BranchCases({}, 0) \/ c \in SpanCases
             \/ c \in PartialFailureCases \/ c \in BranchCases({once}, 1)
             \/ c \in AllCleanCases("Clean", {}, clean)
             \/ c \in AllCleanCases(Planted, {"rpd_unreachable"}, unread)
             \/ c \in AllCleanCases(Planted, {"rpd_stale_only"}, stale)
             \/ c \in AllCleanCases(Planted, {}, refused)
  BY <1>7 DEF Cases, clean, unread, stale, refused
<1> HIDE DEF once
<1> QED BY <1>1, <1>2, <1>3, <1>4, <1>5, <1>6, <1>7, SingleDrawn, SpanDrawn, PartialDrawn
--------------------------------------------------------------------------------
(* What the grader compares, and more.                                              *)

\* The steps of calls of that shape, place by place.
LEMMA StepsByPlace ==
  ASSUME NEW calls, NEW n \in Nat, Shaped(calls, n)
  PROVE  /\ Len(calls) \in Nat /\ DOMAIN calls = 1 .. Len(calls)
         /\ n <= Len(calls) /\ Len(calls) <= n + 5
         /\ \A i \in DOMAIN calls : i <= n \/ i \in {n + 1, n + 2, n + 3, n + 4, n + 5}
         /\ \A i \in DOMAIN calls : i <= n => calls[i].step = "rpd"
         /\ n + 1 \in DOMAIN calls => calls[n + 1].step = "classifyRpd"
         /\ n + 2 \in DOMAIN calls => calls[n + 2].step = "amps"
         /\ n + 3 \in DOMAIN calls => calls[n + 3].step = "measure"
         /\ n + 4 \in DOMAIN calls => calls[n + 4].step = "classifyAmps"
         /\ n + 5 \in DOMAIN calls => calls[n + 5].step = "localize"
         /\ \A i \in DOMAIN calls : calls[i].step = "localize" => i = n + 5
<1>1. /\ Len(calls) \in Nat /\ DOMAIN calls = 1 .. Len(calls)
      /\ n <= Len(calls) /\ Len(calls) <= n + 5
      /\ \A i \in DOMAIN calls : calls[i].step = IF i <= n THEN "rpd" ELSE Chain[i - n + 1]
  BY SeqIsSeq DEF Shaped, IsSeq
<1>2. \A i \in 1 .. Len(calls) :
        /\ i <= n => calls[i].step = "rpd"
        /\ i = n + 1 => calls[i].step = "classifyRpd"
        /\ i = n + 2 => calls[i].step = "amps"
        /\ i = n + 3 => calls[i].step = "measure"
        /\ i = n + 4 => calls[i].step = "classifyAmps"
        /\ i = n + 5 => calls[i].step = "localize"
        /\ i <= n \/ i \in {n + 1, n + 2, n + 3, n + 4, n + 5}
  BY <1>1 DEF Chain
<1> QED BY <1>1, <1>2

\* What a returned first run of a case is: turned away, or a result of the draw.
LEMMA FirstReturned ==
  ASSUME Inv, FirstRunInv, FirstRunReturned, NEW d, IsDraw(d), scn = ScenarioOf(d)
  PROVE  \/ /\ audit[1].trigger = {"noCall"}
            /\ returned[1].status = "not_triggered" /\ returned[1].trace.calls = <<>>
         \/ audit[1].trigger \in {{}, {"call"}} /\ FirstResult(d, returned[1])
<1>1. ~Busy /\ runs = 1
  BY DEF FirstRunReturned, Busy
<1>2. 1 \in DOMAIN returned
  <2>1. IsSeq(returned) /\ Len(returned) = 1
    BY DEF Inv, Control, FirstRunReturned
  <2> QED BY <2>1, SeqIsSeq DEF IsSeq
<1>3. FirstRunOver(d)
  BY <1>1 DEF FirstRunInv
<1> QED BY <1>2, <1>3 DEF FirstRunOver

\* An answer is only in the calls of a chain that went all the way.
LEMMA AnswerOfDraw ==
  ASSUME NEW d, IsDraw(d), d.impaired # {}, NEW run, FirstResult(d, run),
         NEW answer \in Localizations(run)
  PROVE  /\ d.label = Planted
         /\ answer.type = Planted
         /\ AnswerIs(answer.localization, TypeIn(d), CommonIn(d), d.impaired, d.failed)
<1> DEFINE calls == run.trace.calls
           n == CapturesFor(d.faults)
<1>1. PICK i \in DOMAIN calls : calls[i].step = "localize" /\ answer = calls[i].result
  BY DEF Localizations
<1>2. n \in Nat
  BY DEF CapturesFor
<1> HIDE DEF calls, n
<1>3. ASSUME NEW m \in Nat, Shaped(calls, m) PROVE i = m + 5 /\ Len(calls) >= m + 5
  BY <1>1, <1>3, StepsByPlace
<1>4. MaxRemeasure + 1 \in Nat
  BY MaxRemeasureNat
<1>5. /\ d.label = Planted /\ Shaped(calls, n)
      /\ \E pool :
           LET public == PublicLocalization(Localize(AmpTree(d.tree), pool))
           IN  /\ ReadsAs(pool, MeasuredIn(d), d.impaired)
               /\ calls[n + 5].result = [status |-> "success", type |-> Planted, localization |-> public]
  <2>1. ~(Shaped(calls, 1) /\ Len(calls) = 1)
    BY <1>3
  <2>2. ~(Shaped(calls, MaxRemeasure + 1) /\ Len(calls) = MaxRemeasure + 1)
    BY <1>3, <1>4
  <2>3. ~(Shaped(calls, n) /\ Len(calls) = n + 1)
    BY <1>2, <1>3
  <2> QED BY <2>1, <2>2, <2>3 DEF FirstResult, calls, n
<1>6. PICK pool : /\ ReadsAs(pool, MeasuredIn(d), d.impaired)
                  /\ calls[n + 5].result
                       = [status |-> "success", type |-> Planted,
                          localization |-> PublicLocalization(Localize(AmpTree(d.tree), pool))]
  BY <1>5
<1>7. answer = [status |-> "success", type |-> Planted,
                localization |-> PublicLocalization(Localize(AmpTree(d.tree), pool))]
  BY <1>1, <1>2, <1>3, <1>5, <1>6
<1>8. /\ answer.type = Planted
      /\ answer.localization = PublicLocalization(Localize(AmpTree(d.tree), pool))
  BY <1>7
<1> DEFINE size == d.size
           p == d.tree
           X == d.failed
           I == d.impaired
<1>9. /\ size \in Nat \ {0} /\ p \in Trees(size) /\ X \in SUBSET (1 .. size)
      /\ I \in SUBSET ((1 .. size) \ X) /\ I # {} /\ MeasuredIn(d) = (1 .. size) \ X
  BY DEF IsDraw, MeasuredIn
<1>10. ReadsAs(pool, (1 .. size) \ X, I)
  BY <1>6, <1>9
<1> HIDE DEF size, p, X, I
<1>11. LET common == CommonPoint(AmpTree(p), I)
       IN  AnswerIs(PublicLocalization(Localize(AmpTree(p), pool)),
                    IF common \in ((1 .. size) \ X) \ I THEN "span"
                    ELSE IF Cardinality(I) = 1 THEN "device" ELSE "branch",
                    common, I, X)
  BY <1>9, <1>10, AnswerOfReadings
<1>12. AnswerIs(PublicLocalization(Localize(AmpTree(p), pool)), TypeIn(d), CommonIn(d), I, X)
  BY <1>9, <1>11 DEF TypeIn, CommonIn, p, I
<1> QED BY <1>5, <1>8, <1>12 DEF p, I, X

\* The parts of a truth.
LEMMA TruthParts ==
  /\ \A source, type, impaired, statuses, uncertain, extra :
       LET truth == Findable(source, type, impaired, statuses, uncertain, extra)
       IN  /\ truth.verdict = "call" /\ truth.localize = TRUE /\ truth.statuses = statuses
           /\ truth.impairment = {Planted} /\ truth.sources = {source} /\ truth.type = type
           /\ truth.impaired = impaired /\ truth.uncertain = uncertain
           /\ truth.calls = 6 + extra .. 9 + extra /\ truth.rpdCalls = 1 + extra
  /\ \A verdict, statuses, calls, rpdCalls :
       LET truth == Nothing(verdict, statuses, calls, rpdCalls)
       IN  /\ truth.verdict = verdict /\ truth.localize = FALSE /\ truth.statuses = statuses
           /\ truth.impairment = {} /\ truth.sources = {} /\ truth.uncertain = {}
           /\ truth.calls = calls /\ truth.rpdCalls = rpdCalls
BY DEF Findable, Nothing

\* The planted truth, from what the answer of such a draw says.
LEMMA AnswerIsTruth ==
  ASSUME NEW d, NEW truth, FindableDraw(d, truth), NEW public,
         AnswerIs(public, TypeIn(d), CommonIn(d), d.impaired, d.failed)
  PROVE  /\ Cardinality(public.candidates) = 1
         /\ \A candidate \in public.candidates :
              /\ truth.type \subseteq {candidate.type}
              /\ candidate.supporting = truth.impaired
              /\ candidate.uncertain = truth.uncertain
              /\ candidate.type \in {"branch", "span"} => candidate.upstream \in truth.sources
<1>1. PICK types \in {{}, {TypeIn(d)}} :
        truth = Findable(CommonIn(d), types, d.impaired,
                         {IF d.failed = {} THEN "localized" ELSE "low_confidence"},
                         d.failed, CapturesFor(d.faults) - 1)
  BY DEF FindableDraw
<1>2. /\ truth.type = types /\ truth.impaired = d.impaired /\ truth.uncertain = d.failed
      /\ truth.sources = {CommonIn(d)}
  BY <1>1, TruthParts
<1>3. Cardinality(public.candidates) = 1
  BY FS_Singleton DEF AnswerIs
<1>4. TypeIn(d) \in {"span", "device", "branch"}
  BY DEF TypeIn
<1> QED BY <1>1, <1>2, <1>3, <1>4 DEF AnswerIs

\* The planted truth is reproduced, for every tree, fault and failing amp that the generator
\* can draw: one candidate, of the planted type, supported by exactly the amps the fault
\* impairs, uncertain about exactly those that did not measure, with the source where the
\* generator put it.
THEOREM AnswerIsTheFault == Spec => []AnswerIsThePlantedFault
<1>1. Inv /\ FirstRunInv => AnswerIsThePlantedFault
  <2> SUFFICES ASSUME Inv, FirstRunInv, FirstRunReturned, NEW c \in CasesAtHand,
                      NEW answer \in Localizations(returned[1]), c.truth.localize
               PROVE  /\ Cardinality(answer.localization.candidates) = 1
                      /\ \A candidate \in answer.localization.candidates :
                           /\ c.truth.type \subseteq {candidate.type}
                           /\ candidate.supporting = c.truth.impaired
                           /\ candidate.uncertain = c.truth.uncertain
                           /\ candidate.type \in {"branch", "span"} =>
                                candidate.upstream \in c.truth.sources
    BY DEF AnswerIsThePlantedFault
  <2>1. PICK d : IsCaseOf(c, d)
    BY CasesAreDrawn DEF CasesAtHand
  <2>2. IsDraw(d) /\ scn = ScenarioOf(d) /\ (FindableDraw(d, c.truth) \/ NothingDraw(d, c.truth))
    BY <2>1 DEF IsCaseOf, CasesAtHand
  <2>3. ~NothingDraw(d, c.truth)
    BY TruthParts DEF NothingDraw
  <2>4. FindableDraw(d, c.truth) /\ d.impaired # {}
    BY <2>2, <2>3 DEF FindableDraw
  <2>5. returned[1].trace.calls # <<>>
    BY DEF Localizations
  <2>6. FirstResult(d, returned[1])
    BY <2>2, <2>5, FirstReturned
  <2>7. AnswerIs(answer.localization, TypeIn(d), CommonIn(d), d.impaired, d.failed)
    BY <2>2, <2>4, <2>6, AnswerOfDraw
  <2> QED BY <2>4, <2>7, AnswerIsTruth
<1> QED BY <1>1, InvHolds, FirstRunHolds, PTL

--------------------------------------------------------------------------------
(* The grader's folds.                                                             *)

\* The two folds of the grader, over the tools of a run: the tools without repetitions,
\* and the place in a chain where the last of them is found.
CollapseStep(out, t) == IF out # <<>> /\ Last(out) = t THEN out ELSE Append(out, t)
After(place, t, full) == {i \in place + 1 .. Len(full) : full[i] = t}
PlaceStep(place, t, full) ==
  IF After(place, t, full) = {} THEN Len(full) + 1 ELSE Min(After(place, t, full))

FoldStart(fold) == IF fold = "collapse" THEN <<>> ELSE 0
FoldStep(fold, out, t) == IF fold = "collapse" THEN CollapseStep(out, t) ELSE PlaceStep(out, t, FullChain)
FoldBody(fold, tools, S, f) ==
  [s \in SUBSET S |-> IF s = {} THEN FoldStart(fold)
                      ELSE FoldStep(fold, f[s \ {Max(s)}], tools[Max(s)])]
FoldOf(fold, tools) == CHOOSE f : f = FoldBody(fold, tools, DOMAIN tools, f)

\* The grader's two loops over the tools of a trace are these folds.
LEMMA GraderFolds ==
  ASSUME NEW tools
  PROVE  /\ CollapseConsecutive(tools) = FoldOf("collapse", tools)[DOMAIN tools]
         /\ IsSubsequence(tools, FullChain) <=> FoldOf("place", tools)[DOMAIN tools] <= Len(FullChain)
<1>1. CollapseConsecutive(tools) = FoldOf("collapse", tools)[DOMAIN tools]
  BY DEF CollapseConsecutive, FoldLeft, MapThenFoldSet, FoldOf, FoldBody, FoldStart, FoldStep,
         CollapseStep
<1>2. IsSubsequence(tools, FullChain) <=> FoldOf("place", tools)[DOMAIN tools] <= Len(FullChain)
  BY DEF IsSubsequence, FoldLeft, MapThenFoldSet, FoldOf, FoldBody, FoldStart, FoldStep,
         PlaceStep, After
<1> QED BY <1>1, <1>2

\* Such a fold goes from left to right.
LEMMA FoldGoesRight ==
  ASSUME NEW fold, NEW tools, NEW n \in Nat, DOMAIN tools = 1 .. n
  PROVE  LET f == FoldOf(fold, tools)
         IN  /\ f[{}] = FoldStart(fold)
             /\ \A k \in 1 .. n : f[1 .. k] = FoldStep(fold, f[1 .. k - 1], tools[k])
<1> DEFINE Body(k, f) == FoldBody(fold, tools, 1 .. k, f)
           P == {k \in 0 .. n : \E f : f = Body(k, f)}
<1>0. \A k \in Nat : \A s \in SUBSET (1 .. k) : s # {} => Max(s) \in s /\ \A x \in s : x <= Max(s)
  <2> TAKE k \in Nat
  <2> TAKE s \in SUBSET (1 .. k)
  <2>1. IsFiniteSet(1 .. k)
    BY FS_Interval
  <2>2. IsFiniteSet(s)
    BY <2>1, FS_Subset
  <2>3. s \subseteq Nat
    OBVIOUS
  <2> QED BY <2>2, <2>3, MaxOfFinite
<1>1. 0 \in P
  <2> DEFINE f == [s \in SUBSET (1 .. 0) |-> FoldStart(fold)]
  <2>1. f = Body(0, f)
    <3>1. \A s \in SUBSET (1 .. 0) : s = {}
      OBVIOUS
    <3> QED BY <3>1 DEF FoldBody
  <2> HIDE DEF f, Body
  <2> QED BY <2>1
<1>2. ASSUME NEW k \in 0 .. n - 1, k \in P PROVE k + 1 \in P
  <2>1. PICK f : f = Body(k, f)
    BY <1>2
  <2> DEFINE g == [s \in SUBSET (1 .. k + 1) |->
                     IF k + 1 \in s THEN FoldStep(fold, f[s \ {k + 1}], tools[k + 1]) ELSE f[s]]
  <2>2. ASSUME NEW s \in SUBSET (1 .. k + 1), k + 1 \in s
        PROVE  s # {} /\ g[s] = FoldStep(fold, g[s \ {Max(s)}], tools[Max(s)])
    <3>1. Max(s) = k + 1
      <4>0. k + 1 \in Nat /\ s # {}
        BY <2>2
      <4>1. Max(s) \in s /\ \A x \in s : x <= Max(s)
        BY <1>0, <4>0
      <4>2. Max(s) \in 1 .. k + 1 /\ k + 1 <= Max(s)
        BY <2>2, <4>1
      <4> QED BY <4>2
    <3>2. s \ {k + 1} \in SUBSET (1 .. k + 1)
      OBVIOUS
    <3>3. g[s \ {k + 1}] = f[s \ {k + 1}]
      BY <3>2
    <3> QED BY <2>2, <3>1, <3>3
  <2>3. ASSUME NEW s \in SUBSET (1 .. k + 1), k + 1 \notin s
        PROVE  g[s] = IF s = {} THEN FoldStart(fold)
                      ELSE FoldStep(fold, g[s \ {Max(s)}], tools[Max(s)])
    <3>1. s \in SUBSET (1 .. k)
      BY <2>3
    <3>2. f[s] = IF s = {} THEN FoldStart(fold)
                 ELSE FoldStep(fold, f[s \ {Max(s)}], tools[Max(s)])
      BY <2>1, <3>1 DEF FoldBody
    <3>3. g[s] = f[s] /\ g[s \ {Max(s)}] = f[s \ {Max(s)}]
      <4>1. s \ {Max(s)} \in SUBSET (1 .. k + 1) /\ k + 1 \notin s \ {Max(s)}
        BY <2>3
      <4> QED BY <2>3, <4>1
    <3> HIDE DEF g
    <3> QED BY <3>2, <3>3
  <2>4. g = [s \in SUBSET (1 .. k + 1) |-> g[s]]
    OBVIOUS
  <2> HIDE DEF g
  <2>5. g = Body(k + 1, g)
    <3>1. \A s \in SUBSET (1 .. k + 1) :
            g[s] = IF s = {} THEN FoldStart(fold)
                   ELSE FoldStep(fold, g[s \ {Max(s)}], tools[Max(s)])
      BY <2>2, <2>3
    <3> QED BY <2>4, <3>1 DEF FoldBody
  <2>6. k + 1 \in 0 .. n
    OBVIOUS
  <2> HIDE DEF Body
  <2> QED BY <2>5, <2>6
<1>3. n \in P
  <2>1. 0 \in Nat /\ n \in 0 .. n
    OBVIOUS
  <2> HIDE DEF P
  <2> QED BY <1>1, <1>2, <2>1, InductionUpTo
<1> DEFINE f == FoldOf(fold, tools)
<1>4. f = Body(n, f)
  <2>1. \E h : h = Body(n, h)
    BY <1>3
  <2>2. f = CHOOSE h : h = Body(n, h)
    BY DEF FoldOf
  <2> HIDE DEF f, Body
  <2> QED BY <2>1, <2>2
<1> HIDE DEF f
<1>5. f[{}] = FoldStart(fold)
  BY <1>4 DEF FoldBody
<1>6. ASSUME NEW k \in 1 .. n PROVE f[1 .. k] = FoldStep(fold, f[1 .. k - 1], tools[k])
  <2>1. 1 .. k \in SUBSET (1 .. n) /\ 1 .. k # {} /\ (1 .. k) \ {k} = 1 .. k - 1
    OBVIOUS
  <2>2. Max(1 .. k) = k
    BY MaxOfInterval
  <2>3. f[1 .. k] = FoldStep(fold, f[(1 .. k) \ {Max(1 .. k)}], tools[Max(1 .. k)])
    BY <1>4, <2>1 DEF FoldBody
  <2> QED BY <2>1, <2>2, <2>3
<1> QED BY <1>5, <1>6 DEF f

--------------------------------------------------------------------------------
(* The tools of a run whose calls have the shape of the chain.                      *)

ChainUpTo(m) == [i \in 1 .. m |-> FullChain[i]]

\* The chain has six tools, no two next to each other the same.
LEMMA FullChainIs ==
  /\ Len(FullChain) = 6
  /\ FullChain[1] = "rpd" /\ FullChain[2] = "analyze" /\ FullChain[3] = "amps"
  /\ FullChain[4] = "measure" /\ FullChain[5] = "analyze" /\ FullChain[6] = "localize"
  /\ \A i \in 1 .. 5 : FullChain[i] # FullChain[i + 1]
BY DEF FullChain

\* A tool follows those of the chain before it, or repeats the last of them.
LEMMA CollapseAlongChain ==
  /\ CollapseStep(<<>>, "rpd") = ChainUpTo(1)
  /\ \A m \in 1 .. 6 : CollapseStep(ChainUpTo(m), FullChain[m]) = ChainUpTo(m)
  /\ \A m \in 1 .. 5 : CollapseStep(ChainUpTo(m), FullChain[m + 1]) = ChainUpTo(m + 1)
<1>1. CollapseStep(<<>>, "rpd") = ChainUpTo(1)
  BY FullChainIs DEF CollapseStep, ChainUpTo
<1> DEFINE S == {FullChain[i] : i \in 1 .. 6}
<1>2. \A i \in 1 .. 6 : FullChain[i] \in S
  OBVIOUS
<1> HIDE DEF S
<1>3. \A m \in 1 .. 6 : /\ ChainUpTo(m) \in Seq(S) /\ Len(ChainUpTo(m)) = m
                        /\ Last(ChainUpTo(m)) = FullChain[m] /\ ChainUpTo(m) # <<>>
  BY <1>2 DEF ChainUpTo, Last
<1>4. \A m \in 1 .. 6 : CollapseStep(ChainUpTo(m), FullChain[m]) = ChainUpTo(m)
  BY <1>3 DEF CollapseStep
<1>5. ASSUME NEW m \in 1 .. 5
      PROVE  CollapseStep(ChainUpTo(m), FullChain[m + 1]) = ChainUpTo(m + 1)
  <2>1. CollapseStep(ChainUpTo(m), FullChain[m + 1]) = Append(ChainUpTo(m), FullChain[m + 1])
    BY <1>3, FullChainIs DEF CollapseStep
  <2>2. Append(ChainUpTo(m), FullChain[m + 1]) = ChainUpTo(m + 1)
    BY <1>2, <1>3 DEF ChainUpTo
  <2> QED BY <2>1, <2>2
<1> QED BY <1>1, <1>4, <1>5

\* The tools of a run of that shape, without repetitions, are the chain up to a place.
LEMMA CollapseOfChain ==
  ASSUME NEW N \in Nat, NEW n \in 1 .. N, N <= n + 5, NEW tools, DOMAIN tools = 1 .. N,
         \A i \in 1 .. N : tools[i] = IF i <= n THEN "rpd" ELSE FullChain[i - n + 1]
  PROVE  CollapseConsecutive(tools) = ChainUpTo(N - n + 1)
<1> DEFINE f == FoldOf("collapse", tools)
           At(k) == IF k <= n THEN 1 ELSE k - n + 1
           P == {k \in 1 .. N : f[1 .. k] = ChainUpTo(At(k))}
<1>1. f[{}] = <<>> /\ \A k \in 1 .. N : f[1 .. k] = CollapseStep(f[1 .. k - 1], tools[k])
  BY FoldGoesRight DEF FoldStart, FoldStep
<1> HIDE DEF f
<1>2. 1 \in P
  <2>1. 1 .. 0 = {} /\ 1 - 1 = 0 /\ 1 \in 1 .. N /\ tools[1] = "rpd" /\ At(1) = 1
    OBVIOUS
  <2>2. f[1 .. 1] = CollapseStep(f[1 .. 0], tools[1])
    BY <1>1, <2>1
  <2> QED BY <1>1, <2>1, <2>2, CollapseAlongChain
<1>3. ASSUME NEW k \in 1 .. N - 1, k \in P PROVE k + 1 \in P
  <2>1. k + 1 \in 1 .. N /\ k + 1 - 1 = k
    OBVIOUS
  <2>2. f[1 .. k + 1] = CollapseStep(ChainUpTo(At(k)), tools[k + 1])
    BY <1>1, <1>3, <2>1
  <2>3. CASE k + 1 <= n
    <3>1. At(k) = 1 /\ At(k + 1) = 1 /\ tools[k + 1] = FullChain[1]
      BY <2>1, <2>3, FullChainIs
    <3> QED BY <2>1, <2>2, <3>1, CollapseAlongChain
  <2>4. CASE k >= n
    <3>1. /\ At(k) = k - n + 1 /\ At(k + 1) = k - n + 2 /\ k - n + 1 \in 1 .. 5
          /\ tools[k + 1] = FullChain[k - n + 2]
      BY <2>1, <2>4
    <3> DEFINE m == k - n + 1
    <3>2. At(k) = m /\ At(k + 1) = m + 1 /\ m \in 1 .. 5 /\ tools[k + 1] = FullChain[m + 1]
      BY <3>1
    <3> HIDE DEF m, At
    <3> QED BY <2>1, <2>2, <3>2, CollapseAlongChain
  <2> QED BY <2>3, <2>4
<1>4. f[1 .. N] = ChainUpTo(N - n + 1)
  <2>1. N \in 1 .. N /\ 1 \in Nat /\ At(N) = N - n + 1
    OBVIOUS
  <2>2. N \in P
    <3> HIDE DEF P
    <3> QED BY <1>2, <1>3, <2>1, InductionUpTo
  <2> HIDE DEF At
  <2> QED BY <2>1, <2>2
<1> QED BY <1>4, GraderFolds DEF f

\* A chain that stops early is in order.
LEMMA ChainInOrder ==
  ASSUME NEW m \in 1 .. 6
  PROVE  IsSubsequence(ChainUpTo(m), FullChain)
<1> DEFINE tools == ChainUpTo(m)
           f == FoldOf("place", tools)
           P == {k \in 0 .. m : f[1 .. k] = k}
<1>1. DOMAIN tools = 1 .. m /\ \A k \in 1 .. m : tools[k] = FullChain[k]
  BY DEF ChainUpTo
<1> HIDE DEF tools
<1>2. f[{}] = 0 /\ \A k \in 1 .. m : f[1 .. k] = PlaceStep(f[1 .. k - 1], tools[k], FullChain)
  BY <1>1, FoldGoesRight DEF FoldStart, FoldStep
<1> HIDE DEF f
<1>3. 0 \in P
  <2>1. 1 .. 0 = {}
    OBVIOUS
  <2> QED BY <1>2, <2>1
<1>4. ASSUME NEW k \in 0 .. m - 1, k \in P PROVE k + 1 \in P
  <2>1. k + 1 \in 1 .. m /\ k + 1 - 1 = k
    OBVIOUS
  <2>2. f[1 .. k + 1] = PlaceStep(k, FullChain[k + 1], FullChain)
    BY <1>1, <1>2, <1>4, <2>1
  <2> DEFINE A == After(k, FullChain[k + 1], FullChain)
  <2>3. A \subseteq Nat /\ k + 1 \in A /\ \A x \in A : k + 1 <= x
    BY <2>1, FullChainIs DEF After
  <2> HIDE DEF A
  <2>4. Min(A) \in A /\ \A x \in A : Min(A) <= x
    BY <2>3, MinOfNaturals
  <2>5. Min(A) = k + 1
    <3>1. k + 1 \in Nat /\ Min(A) \in Nat
      BY <2>3, <2>4
    <3>2. k + 1 <= Min(A) /\ Min(A) <= k + 1
      BY <2>3, <2>4
    <3> HIDE DEF P
    <3> QED BY <3>1, <3>2
  <2>6. f[1 .. k + 1] = k + 1
    BY <2>2, <2>3, <2>5 DEF PlaceStep, A
  <2> QED BY <2>1, <2>6
<1>5. f[1 .. m] = m
  <2>1. m \in 0 .. m /\ 0 \in Nat /\ m \in Nat
    OBVIOUS
  <2>2. m \in P
    <3> HIDE DEF P
    <3> QED BY <1>3, <1>4, <2>1, InductionUpTo
  <2> QED BY <2>2
<1> QED BY <1>1, <1>5, GraderFolds, FullChainIs DEF f, tools

\* What the grader makes of the calls of a chain: its tools in order, the captures counted,
\* and localization called by a chain that got to its end and by no other.
LEMMA ToolsOfShape ==
  ASSUME NEW tr, NEW n \in Nat \ {0}, Shaped(tr.calls, n)
  PROVE  LET tools == Tools(tr)
         IN  /\ Len(tools) = Len(tr.calls) /\ DOMAIN tools = DOMAIN tr.calls /\ tools # <<>>
             /\ "localize" \in {tools[i] : i \in DOMAIN tools} <=> Len(tr.calls) = n + 5
             /\ Cardinality({i \in DOMAIN tools : tools[i] = "rpd"}) = n
             /\ IsSubsequence(CollapseConsecutive(tools), FullChain)
<1> DEFINE calls == tr.calls
           tools == Tools(tr)
           N == Len(calls)
<1>1. /\ N \in Nat /\ DOMAIN calls = 1 .. N /\ n <= N /\ N <= n + 5
      /\ \A i \in DOMAIN calls : i <= n \/ i \in {n + 1, n + 2, n + 3, n + 4, n + 5}
      /\ \A i \in DOMAIN calls : i <= n => calls[i].step = "rpd"
      /\ n + 1 \in DOMAIN calls => calls[n + 1].step = "classifyRpd"
      /\ n + 2 \in DOMAIN calls => calls[n + 2].step = "amps"
      /\ n + 3 \in DOMAIN calls => calls[n + 3].step = "measure"
      /\ n + 4 \in DOMAIN calls => calls[n + 4].step = "classifyAmps"
      /\ n + 5 \in DOMAIN calls => calls[n + 5].step = "localize"
  <2>1. n \in Nat /\ Shaped(calls, n)
    OBVIOUS
  <2> HIDE DEF calls, tools
  <2> QED BY <2>1, StepsByPlace
<1>2. tools = [i \in 1 .. N |-> ToolOf(calls[i].step)]
  BY <1>1 DEF Tools
<1> HIDE DEF calls, tools, N
<1>3. DOMAIN tools = 1 .. N /\ \A i \in 1 .. N : tools[i] = ToolOf(calls[i].step)
  BY <1>2
<1>4. n \in 1 .. N /\ N \in Nat /\ N <= n + 5
  BY <1>1
<1>5. Len(tools) = N
  BY <1>1, <1>2
<1>6. tools # <<>>
  BY <1>3, <1>4
<1>7. ASSUME NEW i \in 1 .. N
      PROVE  /\ i <= n => tools[i] = "rpd"
             /\ i > n => i - n + 1 \in 2 .. 6 /\ tools[i] = FullChain[i - n + 1]
             /\ tools[i] = "localize" <=> i = n + 5
             /\ tools[i] = "rpd" <=> i <= n
  <2>1. CASE i <= n
    <3>1. tools[i] = "rpd"
      BY <1>1, <1>3, <2>1 DEF ToolOf
    <3> QED BY <2>1, <3>1
  <2>2. CASE i > n
    <3>1. i \in {n + 1, n + 2, n + 3, n + 4, n + 5}
      BY <1>1, <2>2
    <3>2. i = n + 1 => tools[i] = "analyze" /\ i - n + 1 = 2
      BY <1>1, <1>3 DEF ToolOf
    <3>3. i = n + 2 => tools[i] = "amps" /\ i - n + 1 = 3
      BY <1>1, <1>3 DEF ToolOf
    <3>4. i = n + 3 => tools[i] = "measure" /\ i - n + 1 = 4
      BY <1>1, <1>3 DEF ToolOf
    <3>5. i = n + 4 => tools[i] = "analyze" /\ i - n + 1 = 5
      BY <1>1, <1>3 DEF ToolOf
    <3>6. i = n + 5 => tools[i] = "localize" /\ i - n + 1 = 6
      BY <1>1, <1>3 DEF ToolOf
    <3>7. tools[i] = FullChain[i - n + 1]
      BY <3>1, <3>2, <3>3, <3>4, <3>5, <3>6, FullChainIs
    <3>8. i - n + 1 \in 2 .. 6
      BY <3>1
    <3>9. n + 1 # n + 5 /\ n + 2 # n + 5 /\ n + 3 # n + 5 /\ n + 4 # n + 5
      OBVIOUS
    <3>10. tools[i] = "localize" <=> i = n + 5
      BY <3>1, <3>2, <3>3, <3>4, <3>5, <3>6, <3>9
    <3>11. tools[i] # "rpd"
      BY <3>1, <3>2, <3>3, <3>4, <3>5, <3>6
    <3> QED BY <2>2, <3>7, <3>8, <3>10, <3>11
  <2> QED BY <2>1, <2>2
<1>8. "localize" \in {tools[i] : i \in DOMAIN tools} <=> N = n + 5
  <2>1. ASSUME N = n + 5 PROVE n + 5 \in 1 .. N
    BY <1>4, <2>1
  <2>2. ASSUME n + 5 \in 1 .. N PROVE N = n + 5
    BY <1>4, <2>2
  <2> QED BY <1>3, <1>7, <2>1, <2>2
<1>9. Cardinality({i \in DOMAIN tools : tools[i] = "rpd"}) = n
  <2>1. {i \in DOMAIN tools : tools[i] = "rpd"} = 1 .. n
    BY <1>3, <1>4, <1>7
  <2>2. Cardinality(1 .. n) = n
    BY FS_Interval
  <2> QED BY <2>1, <2>2
<1>10. CollapseConsecutive(tools) = ChainUpTo(N - n + 1)
  <2>1. \A i \in 1 .. N : tools[i] = IF i <= n THEN "rpd" ELSE FullChain[i - n + 1]
    BY <1>4, <1>7
  <2> QED BY <1>3, <1>4, <2>1, CollapseOfChain
<1>11. N - n + 1 \in 1 .. 6
  BY <1>4
<1>12. IsSubsequence(CollapseConsecutive(tools), FullChain)
  BY <1>10, <1>11, ChainInOrder
<1> QED BY <1>1, <1>3, <1>5, <1>6, <1>8, <1>9, <1>12 DEF calls, tools, N

\* Nothing is missed when every criterion is met.
LEMMA NothingMissed ==
  ASSUME NEW truth, NEW verdict, NEW run,
         verdict = truth.verdict,
         LET tools == Tools(run.trace)
         IN  /\ "localize" \in {tools[i] : i \in DOMAIN tools} <=> truth.localize
             /\ IF tools = <<>> THEN 0 \in truth.calls
                ELSE IsSubsequence(CollapseConsecutive(tools), FullChain)
             /\ Cardinality({i \in DOMAIN tools : tools[i] = "rpd"}) = truth.rpdCalls
             /\ Len(tools) \in truth.calls,
         LET answers == Localizations(run)
         IN  /\ truth.localize \/ answers = {}
             /\ truth.localize =>
                  \E a \in answers : truth.sources \cap DeviceIds(a.localization) # {}
             /\ \A a \in answers, type \in truth.impairment : a.type = type
             /\ truth.uncertain # {} =>
                  \A a \in answers : \E c \in a.localization.candidates : c.uncertain # {},
         NormalizeStatus(run.status) \in truth.statuses
  PROVE  Missed(truth, verdict, run) = {}
BY DEF Missed

\* The answers in the calls of a chain: the one of its end, if it got there.
LEMMA AnswersOfShape ==
  ASSUME NEW run, NEW n \in Nat \ {0}, Shaped(run.trace.calls, n)
  PROVE  /\ Len(run.trace.calls) # n + 5 => Localizations(run) = {}
         /\ /\ Len(run.trace.calls) = n + 5
            /\ run.trace.calls[n + 5].result.status = "success"
            => Localizations(run) = {run.trace.calls[n + 5].result}
<1> DEFINE calls == run.trace.calls
<1>1. Shaped(calls, n) /\ n \in Nat
  OBVIOUS
<1>2. Localizations(run) = {calls[i].result : i \in {j \in DOMAIN calls :
        calls[j].step = "localize" /\ calls[j].result.status = "success"}}
  BY DEF Localizations
<1> HIDE DEF calls
<1>3. /\ DOMAIN calls = 1 .. Len(calls) /\ Len(calls) \in Nat /\ Len(calls) <= n + 5
      /\ \A i \in DOMAIN calls : calls[i].step = "localize" => i = n + 5
      /\ n + 5 \in DOMAIN calls => calls[n + 5].step = "localize"
  BY <1>1, StepsByPlace
<1>4. ASSUME Len(calls) # n + 5 PROVE Localizations(run) = {}
  <2>1. n \in Nat /\ Len(calls) \in Nat /\ Len(calls) <= n + 5
    BY <1>1, <1>3
  <2>2. n + 5 \notin 1 .. Len(calls)
    BY <1>4, <2>1
  <2>3. n + 5 \notin DOMAIN calls
    BY <1>3, <2>2
  <2> QED BY <1>2, <1>3, <2>3
<1>5. ASSUME Len(calls) = n + 5, calls[n + 5].result.status = "success"
      PROVE  Localizations(run) = {calls[n + 5].result}
  <2>1. n + 5 \in DOMAIN calls
    BY <1>1, <1>3, <1>5
  <2>2. {j \in DOMAIN calls : calls[j].step = "localize" /\ calls[j].result.status = "success"}
          = {n + 5}
    BY <1>3, <1>5, <2>1
  <2> QED BY <1>2, <2>2
<1> QED BY <1>4, <1>5 DEF calls

\* A fault that can be localized: the run of its draw misses nothing of its truth.
LEMMA FindableIsMet ==
  ASSUME MaxRemeasure = 1, NEW d, IsDraw(d), NEW truth, FindableDraw(d, truth),
         NEW run, FirstResult(d, run)
  PROVE  Missed(truth, "call", run) = {}
<1> DEFINE calls == run.trace.calls
           tools == Tools(run.trace)
           n == CapturesFor(d.faults)
<1>1. /\ d.label = Planted /\ d.impaired # {} /\ d.faults \in {{}, {OnceUnavailable}}
      /\ TypeIn(d) = "span" \/ CommonIn(d) \in d.impaired
  BY DEF FindableDraw
<1>2. PICK types :
        truth = Findable(CommonIn(d), types, d.impaired,
                         {IF d.failed = {} THEN "localized" ELSE "low_confidence"}, d.failed, n - 1)
  BY DEF FindableDraw
<1>3. /\ truth.verdict = "call" /\ truth.localize = TRUE
      /\ truth.statuses = {IF d.failed = {} THEN "localized" ELSE "low_confidence"}
      /\ truth.impairment = {Planted} /\ truth.sources = {CommonIn(d)}
      /\ truth.uncertain = d.failed
      /\ truth.calls = 6 + (n - 1) .. 9 + (n - 1) /\ truth.rpdCalls = 1 + (n - 1)
  BY <1>2, TruthParts
<1>4. n \in {1, 2}
  BY DEF CapturesFor
<1>5. PICK pool :
        LET public == PublicLocalization(Localize(AmpTree(d.tree), pool))
        IN  /\ Shaped(calls, n) /\ Len(calls) = n + 5
            /\ run.status = public.status
            /\ calls[n + 5].result = [status |-> "success", type |-> Planted, localization |-> public]
  <2>1. d.faults # {"rpd_unreachable"} /\ d.faults # {"rpd_stale_only"} /\ d.label # "Clean"
    BY <1>1 DEF OnceUnavailable, Planted
  <2>2. MaxRemeasure # 0
    OBVIOUS
  <2> QED BY <2>1, <2>2 DEF FirstResult
<1> DEFINE public == PublicLocalization(Localize(AmpTree(d.tree), pool))
           answer == calls[n + 5].result
<1>6. /\ Shaped(calls, n) /\ Len(calls) = n + 5 /\ run.status = public.status
      /\ answer = [status |-> "success", type |-> Planted, localization |-> public]
  BY <1>5
<1>7. answer.status = "success" /\ answer.type = Planted /\ answer.localization = public
  <2> HIDE DEF answer, public
  <2> QED BY <1>6
<1> HIDE DEF public
<1>8. n \in Nat \ {0}
  BY <1>4
<1>9. Localizations(run) = {answer}
  BY <1>6, <1>7, <1>8, AnswersOfShape
<1> HIDE DEF answer
<1>10. AnswerIs(public, TypeIn(d), CommonIn(d), d.impaired, d.failed)
  BY <1>1, <1>7, <1>9, AnswerOfDraw
<1>11. NormalizeStatus(run.status) \in truth.statuses
  BY <1>3, <1>6, <1>10 DEF AnswerIs, NormalizeStatus
<1>12. PICK c \in public.candidates :
         /\ c.type = TypeIn(d) /\ c.supporting = d.impaired /\ c.uncertain = d.failed
         /\ TypeIn(d) # "device" => c.upstream = CommonIn(d)
  BY <1>10 DEF AnswerIs
<1>13. CommonIn(d) \in DeviceIds(public)
  <2>1. CommonIn(d) \in {c.upstream} \cup c.supporting
    BY <1>1, <1>12
  <2>2. CommonIn(d) \in 1 .. d.size
    BY <1>1 DEF IsDraw, TypeIn, MeasuredIn
  <2>3. CommonIn(d) # RpdRef
    BY <2>2 DEF RpdRef
  <2> QED BY <2>1, <2>3 DEF DeviceIds
<1>14. /\ "localize" \in {tools[i] : i \in DOMAIN tools}
       /\ tools # <<>> /\ Len(tools) = n + 5
       /\ Cardinality({i \in DOMAIN tools : tools[i] = "rpd"}) = n
       /\ IsSubsequence(CollapseConsecutive(tools), FullChain)
  BY <1>6, <1>8, ToolsOfShape
<1>15. n + 5 \in truth.calls /\ n = truth.rpdCalls
  BY <1>3, <1>4
<1>16. /\ truth.sources \cap DeviceIds(answer.localization) # {}
       /\ \A type \in truth.impairment : answer.type = type
       /\ truth.uncertain # {} => \E k \in answer.localization.candidates : k.uncertain # {}
  BY <1>3, <1>7, <1>12, <1>13
<1>17. LET answers == Localizations(run)
       IN  /\ truth.localize \/ answers = {}
           /\ truth.localize =>
                \E a \in answers : truth.sources \cap DeviceIds(a.localization) # {}
           /\ \A a \in answers, type \in truth.impairment : a.type = type
           /\ truth.uncertain # {} =>
                \A a \in answers : \E k \in a.localization.candidates : k.uncertain # {}
  BY <1>3, <1>9, <1>16
<1> QED BY <1>3, <1>11, <1>14, <1>15, <1>17, NothingMissed, ZenonT(40)

\* Nothing to be localized, and an alarm that starts a run: nothing is missed either.
LEMMA NothingIsMet ==
  ASSUME MaxRemeasure = 1, NEW d, IsDraw(d), NEW truth, NothingDraw(d, truth),
         truth.verdict = "call", NEW run, FirstResult(d, run)
  PROVE  Missed(truth, "call", run) = {}
<1> DEFINE calls == run.trace.calls
           tools == Tools(run.trace)
<1>1. \E n \in {1, 2}, N \in {1, 2} :
        /\ Shaped(calls, n) /\ Len(calls) = N /\ N \in truth.calls /\ n = truth.rpdCalls
        /\ ~truth.localize /\ truth.impairment = {} /\ truth.uncertain = {}
        /\ NormalizeStatus(run.status) \in truth.statuses
  <2>1. CASE d.label = "Clean" /\ d.faults = {}
               /\ truth = Nothing("call", {"low_confidence", "unresolved"}, 2 .. 4, 1)
    <3>1. run.status = "low_confidence" /\ Shaped(calls, 1) /\ Len(calls) = 2
      <4>1. /\ d.faults # {"rpd_unreachable"} /\ d.faults # {"rpd_stale_only"}
            /\ d.faults # {OnceUnavailable} /\ d.label # Planted
        BY <2>1 DEF Planted
      <4>2. CapturesFor(d.faults) = 1
        BY <4>1 DEF CapturesFor
      <4>3. /\ run.status = "low_confidence" /\ Shaped(calls, CapturesFor(d.faults))
            /\ Len(calls) = CapturesFor(d.faults) + 1
        BY <4>1 DEF FirstResult
      <4> QED BY <4>2, <4>3
    <3>2. /\ truth.statuses = {"low_confidence", "unresolved"} /\ truth.localize = FALSE
          /\ truth.impairment = {} /\ truth.uncertain = {}
          /\ truth.calls = 2 .. 4 /\ truth.rpdCalls = 1
      BY <2>1, TruthParts
    <3> QED BY <3>1, <3>2 DEF NormalizeStatus
  <2>2. CASE d.faults = {"rpd_unreachable"}
               /\ truth = Nothing("call", {"unresolved"}, 1 .. 2, 1)
    <3>1. run.status = "failed" /\ Shaped(calls, 1) /\ Len(calls) = 1
      BY <2>2 DEF FirstResult, OnceUnavailable
    <3>2. /\ truth.statuses = {"unresolved"} /\ truth.localize = FALSE
          /\ truth.impairment = {} /\ truth.uncertain = {}
          /\ truth.calls = 1 .. 2 /\ truth.rpdCalls = 1
      BY <2>2, TruthParts
    <3> QED BY <3>1, <3>2 DEF NormalizeStatus
  <2>3. CASE d.faults = {"rpd_stale_only"}
               /\ truth = Nothing("call", {"unresolved"}, 2 .. 3, 2)
    <3>1. run.status = "failed" /\ Shaped(calls, 2) /\ Len(calls) = 2
      <4>1. /\ d.faults # {"rpd_unreachable"} /\ d.faults # {OnceUnavailable}
            /\ d.faults \notin {{}, {OnceUnavailable}}
        BY <2>3 DEF OnceUnavailable
      <4>2. /\ run.status = "failed" /\ Shaped(calls, MaxRemeasure + 1)
            /\ Len(calls) = MaxRemeasure + 1
        BY <4>1 DEF FirstResult
      <4>3. MaxRemeasure + 1 = 2
        OBVIOUS
      <4> QED BY <4>2, <4>3
    <3>2. /\ truth.statuses = {"unresolved"} /\ truth.localize = FALSE
          /\ truth.impairment = {} /\ truth.uncertain = {}
          /\ truth.calls = 2 .. 3 /\ truth.rpdCalls = 2
      BY <2>3, TruthParts
    <3> QED BY <3>1, <3>2 DEF NormalizeStatus
  <2>4. CASE truth = Nothing("noCall", {"not_triggered"}, 0 .. 0, 0)
    BY <2>4, TruthParts
  <2> QED BY <2>1, <2>2, <2>3, <2>4 DEF NothingDraw
<1>2. PICK n \in {1, 2}, N \in {1, 2} :
        /\ Shaped(calls, n) /\ Len(calls) = N /\ N \in truth.calls /\ n = truth.rpdCalls
        /\ ~truth.localize /\ truth.impairment = {} /\ truth.uncertain = {}
        /\ NormalizeStatus(run.status) \in truth.statuses
  BY <1>1
<1>3. n \in Nat \ {0} /\ Len(calls) # n + 5
  BY <1>2
<1>4. Localizations(run) = {}
  BY <1>2, <1>3, AnswersOfShape
<1>5. /\ ~("localize" \in {tools[i] : i \in DOMAIN tools})
      /\ tools # <<>> /\ Len(tools) = N
      /\ Cardinality({i \in DOMAIN tools : tools[i] = "rpd"}) = n
      /\ IsSubsequence(CollapseConsecutive(tools), FullChain)
  BY <1>2, <1>3, ToolsOfShape
<1> QED BY <1>2, <1>4, <1>5, NothingMissed

\* An alarm turned away: no call is made, and none was to be made.
LEMMA TurnedAwayIsMet ==
  ASSUME NEW d, NEW truth, FindableDraw(d, truth) \/ NothingDraw(d, truth),
         truth.verdict = "noCall", NEW run, run.status = "not_triggered", run.trace.calls = <<>>
  PROVE  Missed(truth, "noCall", run) = {}
<1> DEFINE tools == Tools(run.trace)
<1>1. truth = Nothing("noCall", {"not_triggered"}, 0 .. 0, 0)
  BY TruthParts DEF FindableDraw, NothingDraw
<1>2. /\ truth.statuses = {"not_triggered"} /\ truth.localize = FALSE
      /\ truth.impairment = {} /\ truth.uncertain = {} /\ truth.verdict = "noCall"
      /\ truth.calls = 0 .. 0 /\ truth.rpdCalls = 0
  BY <1>1, TruthParts
<1>3. tools = <<>>
  BY DEF Tools
<1>4. Localizations(run) = {}
  BY DEF Localizations
<1>5. Len(tools) = 0 /\ DOMAIN tools = {}
  BY <1>3
<1>6. {i \in DOMAIN tools : tools[i] = "rpd"} = {} /\ ~("localize" \in {tools[i] : i \in DOMAIN tools})
  BY <1>5
<1>7. Cardinality({i \in DOMAIN tools : tools[i] = "rpd"}) = 0
  BY <1>6, FS_EmptySet
<1>8. NormalizeStatus(run.status) \in truth.statuses
  BY <1>2 DEF NormalizeStatus
<1>9. 0 \in truth.calls
  BY <1>2
<1> HIDE DEF tools
<1> QED BY <1>2, <1>3, <1>4, <1>5, <1>6, <1>7, <1>8, <1>9, NothingMissed DEF tools

\* What the harness claims of the reference orchestrator, for every tree, fault and failing
\* amp that its generator can draw and every alarm that can come with a case: a first run
\* that returns misses no criterion of the case's truth, hard or soft. It is a claim about
\* max_remeasure = 1, what the orchestrator is built with: with fewer attempts the recovery
\* cases fail, with more the stale ones take more captures than their truth allows.
THEOREM ReferenceIsRight == ASSUME MaxRemeasure = 1 PROVE Spec => []ReferenceMeetsEveryCriterion
<1>1. Inv /\ FirstRunInv => ReferenceMeetsEveryCriterion
  <2> SUFFICES ASSUME Inv, FirstRunInv, FirstRunReturned, NEW c \in CasesAtHand,
                      NEW alarm \in CaseAlarms(c.truth.verdict = "call"),
                      audit[1].trigger = {Verdict(alarm)}
               PROVE  Missed(c.truth, Verdict(alarm), returned[1]) = {}
    BY DEF ReferenceMeetsEveryCriterion
  <2> DEFINE truth == c.truth
             run == returned[1]
  <2>1. PICK d : IsCaseOf(c, d)
    BY CasesAreDrawn DEF CasesAtHand
  <2>2. IsDraw(d) /\ scn = ScenarioOf(d) /\ (FindableDraw(d, truth) \/ NothingDraw(d, truth))
    BY <2>1 DEF IsCaseOf, CasesAtHand
  <2>3. truth.verdict \in {"call", "noCall"}
    BY <2>2, TruthParts DEF FindableDraw, NothingDraw
  <2>4. Verdict(alarm) = truth.verdict
    <3>1. CASE truth.verdict = "call"
      BY <3>1 DEF CaseAlarms, Verdict, ShouldTrigger
    <3>2. CASE truth.verdict = "noCall"
      <4>1. alarm \in CaseAlarms(FALSE)
        BY <3>2
      <4>2. alarm.entity = "cableModem" \/ alarm.alarmType = "highDownstreamSnr"
        BY <4>1 DEF CaseAlarms
      <4>3. ~ShouldTrigger(alarm)
        BY <4>2 DEF ShouldTrigger, UpstreamFecAlarmTypes
      <4> QED BY <3>2, <4>3 DEF Verdict
    <3> QED BY <2>3, <3>1, <3>2
  <2>5. \/ /\ audit[1].trigger = {"noCall"}
           /\ run.status = "not_triggered" /\ run.trace.calls = <<>>
        \/ audit[1].trigger \in {{}, {"call"}} /\ FirstResult(d, run)
    BY <2>2, FirstReturned
  <2> HIDE DEF truth, run
  <2>6. CASE truth.verdict = "call"
    <3>1. FirstResult(d, run)
      BY <2>4, <2>5, <2>6
    <3> QED BY <2>2, <2>4, <2>6, <3>1, FindableIsMet, NothingIsMet DEF truth, run
  <2>7. CASE truth.verdict = "noCall"
    <3>1. run.status = "not_triggered" /\ run.trace.calls = <<>>
      BY <2>4, <2>5, <2>7
    <3> QED BY <2>2, <2>4, <2>7, <3>1, TurnedAwayIsMet DEF truth, run
  <2> QED BY <2>3, <2>6, <2>7
<1> QED BY <1>1, InvHolds, FirstRunHolds, PTL

================================================================================
