------------------------------ MODULE EvalHarness ------------------------------
(******************************************************************************)
(* The evaluation harness: the cases ScenarioGenerator can draw, each with the  *)
(* ground truth it derives from the fault it planted, and the grader that       *)
(* scores a run of the reference orchestrator against it. A random draw is any  *)
(* of the values it can return. Amps are numbered as the generator names them.  *)
(******************************************************************************)
EXTENDS Orchestrator

CONSTANT ExtraAmps   \* amps beyond a dimension's least number; the generator's is 3

ASSUME ExtraAmpsNat == ExtraAmps \in Nat

--------------------------------------------------------------------------------
(* The generator. A tree is the parent of each amp; parents come first.         *)

Trees(n) ==
  {p \in [1 .. n -> 0 .. n - 1] : p[1] = None /\ \A a \in 2 .. n : p[a] \in 1 .. a - 1}
BranchingTrees(n) == {p \in Trees(n) : p[2] = 1 /\ p[3] = 1}
TreesFrom(least) == UNION {Trees(n) : n \in least .. least + ExtraAmps}
BranchingTreesFrom(least) == UNION {BranchingTrees(n) : n \in least .. least + ExtraAmps}

ChildrenOf(p, a) == {b \in DOMAIN p : p[b] = a}
Descendants(p, root) ==
  LET below[a \in DOMAIN p] == a = root \/ (p[a] \in DOMAIN p /\ below[p[a]])
  IN  {a \in DOMAIN p : below[a]}

\* A generated scenario; an impaired amp carries the planted label, the only one the
\* generator plants as it is read back as itself.
Planted == "CPD"
CaseScenario(p, rpdLabel, impaired, faults, failed) ==
  [segments |-> [q \in Ports |-> [parent |-> p, kind |-> [a \in DOMAIN p |-> "AMP"]]],
   looks |-> [d \in DOMAIN p \cup {RpdRef} |->
                {IF d = RpdRef THEN rpdLabel ELSE IF d \in impaired THEN Planted ELSE "Clean"}],
   faults |-> faults, failedAmps |-> failed]

\* The alarms that may come with a case.
CaseAlarms(triggering) ==
  LET Alarm(entity, type, named) == [entity |-> entity, alarmType |-> type, port |-> named]
  IN  IF triggering THEN {Alarm("rpdPort", t, {"P1"}) : t \in UpstreamFecAlarmTypes}
      ELSE {Alarm("cableModem", t, {}) : t \in UpstreamFecAlarmTypes}
             \cup {Alarm("rpdPort", "highDownstreamSnr", {"P1"})}

\* The truth of a case whose fault can be localized, and of one that has none to find.
Findable(source, type, impaired, statuses, uncertain, extraRpdCalls) ==
  [verdict |-> "call", localize |-> TRUE, statuses |-> statuses, impairment |-> {Planted},
   sources |-> {source}, type |-> type, impaired |-> impaired, uncertain |-> uncertain,
   calls |-> 6 + extraRpdCalls .. 9 + extraRpdCalls, rpdCalls |-> 1 + extraRpdCalls]
Nothing(verdict, statuses, calls, rpdCalls) ==
  [verdict |-> verdict, localize |-> FALSE, statuses |-> statuses, impairment |-> {},
   sources |-> {}, type |-> {}, impaired |-> {}, uncertain |-> {},
   calls |-> calls, rpdCalls |-> rpdCalls]
Case(scenario, truth) == [scenario |-> scenario, truth |-> truth]

SingleDeviceCases ==
  UNION {{Case(CaseScenario(p, Planted, {fault}, {}, {}),
               Findable(fault, {"device"}, {fault}, {"localized"}, {}, 0))
            : fault \in {a \in DOMAIN p : ChildrenOf(p, a) = {}}} : p \in TreesFrom(3)}

\* A fault at an amp with amps below it; "recovery" has the RPD miss once.
BranchCases(faults, extraRpdCalls) ==
  UNION {{Case(CaseScenario(p, Planted, Descendants(p, fault), faults, {}),
               Findable(fault, {"branch"}, Descendants(p, fault), {"localized"}, {}, extraRpdCalls))
            : fault \in {a \in DOMAIN p : ChildrenOf(p, a) # {}}} : p \in TreesFrom(4)}

\* The span below a clean A1 that feeds two of its subtrees.
SpanCases ==
  UNION {LET Below(pair) == UNION {Descendants(p, c) : c \in pair}
         IN  {Case(CaseScenario(p, Planted, Below(pair), {}, {}),
                   Findable(1, {"span"}, Below(pair), {"localized"}, {}, 0))
                : pair \in kSubset(2, ChildrenOf(p, 1))} : p \in BranchingTreesFrom(5)}

PartialFailureCasesAnyAmp ==   \* Seeded fault: an impaired amp may be the one that fails.
  UNION {UNION {{Case(CaseScenario(p, Planted, Descendants(p, fault), {}, {failed}),
                      Findable(fault, {}, Descendants(p, fault), {"low_confidence"}, {failed}, 0))
                   : failed \in DOMAIN p}
                  : fault \in ChildrenOf(p, 1)} : p \in BranchingTreesFrom(5)}
\* A fault at a child of A1, and a clean amp elsewhere that does not measure.
PartialFailureCases ==
  UNION {UNION {{Case(CaseScenario(p, Planted, Descendants(p, fault), {}, {failed}),
                      Findable(fault, {}, Descendants(p, fault), {"low_confidence"}, {failed}, 0))
                   : failed \in DOMAIN p \ Descendants(p, fault)}
                  : fault \in ChildrenOf(p, 1)} : p \in BranchingTreesFrom(5)}

\* The cases where no amp is labelled impaired.
AllCleanCases(rpdLabel, faults, truth) ==
  {Case(CaseScenario(p, rpdLabel, {}, faults, {}), truth) : p \in TreesFrom(3)}

Cases ==
  UNION {SingleDeviceCases, BranchCases({}, 0), SpanCases, PartialFailureCases,
         BranchCases({"rpd_measurement_unavailable_once"}, 1),
         AllCleanCases("Clean", {}, Nothing("call", {"low_confidence", "unresolved"}, 2 .. 4, 1)),
         AllCleanCases(Planted, {"rpd_unreachable"}, Nothing("call", {"unresolved"}, 1 .. 2, 1)),
         AllCleanCases(Planted, {"rpd_stale_only"}, Nothing("call", {"unresolved"}, 2 .. 3, 2)),
         AllCleanCases(Planted, {}, Nothing("noCall", {"not_triggered"}, 0 .. 0, 0))}

--------------------------------------------------------------------------------
(* The grader.                                                                  *)

FullChain == <<"rpd", "analyze", "amps", "measure", "analyze", "localize">>
ToolOf(step) == IF step \in {"classifyRpd", "classifyAmps"} THEN "analyze" ELSE step
Tools(tr) == [i \in DOMAIN tr.calls |-> ToolOf(tr.calls[i].step)]

NormalizeStatus(status) ==
  IF status \in {"localized", "low_confidence", "not_triggered"} THEN status ELSE "unresolved"

CollapseConsecutive(tools) ==
  FoldLeft(LAMBDA out, t : IF out # <<>> /\ Last(out) = t THEN out ELSE Append(out, t), <<>>, tools)

\* Each tool is looked for after the place where the one before it was found.
IsSubsequence(sub, full) ==
  LET After(place, t) == {i \in place + 1 .. Len(full) : full[i] = t}
      end == FoldLeft(LAMBDA place, t : IF After(place, t) = {} THEN Len(full) + 1
                                        ELSE Min(After(place, t)), 0, sub)
  IN  end <= Len(full)

\* The device ids anywhere in the candidates of a localization; an RPD's is no amp's.
DeviceIds(localization) ==
  (UNION {{c.upstream} \cup c.supporting : c \in localization.candidates}) \ {RpdRef}

\* What the result of a run carries: the answer of a localization that succeeded.
Localizations(run) ==
  {run.trace.calls[i].result : i \in {j \in DOMAIN run.trace.calls :
     run.trace.calls[j].step = "localize" /\ run.trace.calls[j].result.status = "success"}}

\* grade_case: the criteria a run misses.
Missed(truth, verdict, run) ==
  LET tools == Tools(run.trace)
      called == "localize" \in {tools[i] : i \in DOMAIN tools}
      rpdCalls == Cardinality({i \in DOMAIN tools : tools[i] = "rpd"})
      answers == Localizations(run)
      Criterion(name, met) == IF met THEN {} ELSE {name}
  IN  UNION {
        Criterion("trigger_correct", verdict = truth.verdict),
        Criterion("localize_presence", called <=> truth.localize),
        Criterion("no_false_localize",
                  truth.localize \/ \A a \in answers : a.localization.status # "localized"),
        Criterion("source_match",
                  truth.localize => \E a \in answers : truth.sources \cap DeviceIds(a.localization) # {}),
        Criterion("status_match", NormalizeStatus(run.status) \in truth.statuses),
        Criterion("impairment_match", \A a \in answers, type \in truth.impairment : a.type = type),
        Criterion("uncertain_match",
                  truth.uncertain # {} =>
                    \A a \in answers : \E c \in a.localization.candidates : c.uncertain # {}),
        Criterion("sequence_order",
                  IF tools = <<>> THEN 0 \in truth.calls
                  ELSE IsSubsequence(CollapseConsecutive(tools), FullChain)),
        Criterion("recovery", rpdCalls = truth.rpdCalls),
        Criterion("efficiency", Len(tools) \in truth.calls)}

--------------------------------------------------------------------------------
(* Properties, of the first run against a server built for a generated case.    *)

FirstRunReturned == pc = "idle" /\ runs = 1 /\ Len(returned) = 1
CasesAtHand == {c \in Cases : c.scenario = scn}

\* The harness's own claim, for every tree, fault and failing amp that can be drawn: the
\* reference orchestrator, started by the case's alarm, misses no criterion, hard or soft.
ReferenceMeetsEveryCriterion ==
  FirstRunReturned =>
    \A c \in CasesAtHand : \A alarm \in CaseAlarms(c.truth.verdict = "call") :
      audit[1].trigger = {Verdict(alarm)} => Missed(c.truth, Verdict(alarm), returned[1]) = {}

\* The planted truth is reproduced beyond what the grader compares: the answer has exactly
\* one candidate, of the planted type, supported by exactly the amps the fault impairs,
\* with the failed amps uncertain, and its boundary is the source unless it is the device.
AnswerIsThePlantedFault ==
  FirstRunReturned =>
    \A c \in CasesAtHand : \A answer \in Localizations(returned[1]) : c.truth.localize =>
      /\ Cardinality(answer.localization.candidates) = 1
      /\ \A candidate \in answer.localization.candidates :
           /\ c.truth.type \subseteq {candidate.type}
           /\ candidate.supporting = c.truth.impaired
           /\ candidate.uncertain = c.truth.uncertain
           /\ candidate.type \in {"branch", "span"} => candidate.upstream \in c.truth.sources

================================================================================
