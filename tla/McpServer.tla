------------------------------- MODULE McpServer -------------------------------
(******************************************************************************)
(* The mock MCP server: its handle store, the faults a scenario injects, and   *)
(* the tools of the six-step chain, one action each. A tool call is synchronous *)
(* and its return value is "reply"; a caller's action conjoins the tool and     *)
(* reads reply'. A Python exception out of a tool is the reply Raised.          *)
(*                                                                              *)
(* What a spectrum looks like is the class the classifier gives it. That class  *)
(* is fixed when the spectrum is captured: classifying a payload again gives    *)
(* the same answer. Which classes a device may show belongs to the scenario, in *)
(* "looks": all of them, when nothing is to depend on how well the simulator    *)
(* and the classifier agree, or those its label can give.                       *)
(******************************************************************************)
EXTENDS Localizer

CONSTANTS Classes,     \* the labels of ImpairmentLabel, "Clean" among them
          Ports,       \* the RPD ports an alarm or a caller may name
          Scenarios    \* the scenarios a server may be built with

ASSUME ClassesHoldClean == "Clean" \in Classes

\* A scenario labels the RPD, labels have looks among the classes, and its segments come
\* out of Topology.from_amp_list or from_data_package.
ASSUME ScenariosAreTyped ==
  \A s \in Scenarios :
    /\ RpdRef \in DOMAIN s.looks
    /\ \A d \in DOMAIN s.looks : s.looks[d] \subseteq Classes
    /\ \A p \in DOMAIN s.segments : IsTopology(s.segments[p])

VARIABLES scn,         \* the Scenario: segments, looks, faults and failing amps
          store,       \* kind -> the values put under that prefix, oldest first
          attempts,    \* _rpd_measurement_attempts, up to 2: only "= 1" is ever asked
          reply        \* what the last tool call returned

serverVars == <<scn, store, attempts, reply>>

Kinds == {"meas", "measset", "classset", "amplist", "failed",
          "supportdev", "cleandev", "uncertaindev"}

\* A scenario: "segments" maps each port that resolves to its topology (with an
\* amp list every port does), "looks" the RPD and each id in Scenario.amps to the
\* classes a capture of it may show.
ServerInit ==
  /\ scn \in Scenarios
  /\ store = [k \in Kinds |-> <<>>]
  /\ attempts = 0
  /\ reply = [status |-> "none"]

--------------------------------------------------------------------------------
\* The handle store: a handle is a prefix and the count of values under it.
NextHandleLate(kind) == <<kind, Len(store[kind])>>   \* Seeded fault: count read late.
NextHandle(kind) == <<kind, Len(store[kind]) + 1>>
Has(h) == h[2] \in DOMAIN store[h[1]]
Get(h) == store[h[1]][h[2]]

Error(code) == [status |-> "error", code |-> code]
Raised == [status |-> "raised"]
Answer(r) == reply' = r /\ UNCHANGED store

HasSegment(port) == port \in DOMAIN scn.segments
Segment(port) == scn.segments[port]

--------------------------------------------------------------------------------
(* Tool 1: getRPDSpectrumMeasurements.                                          *)

\* The injected fault that meets the n-th attempt, in the order the code tests them.
RpdFault(n) ==
  IF "rpd_unreachable" \in scn.faults THEN {"DEVICE_UNREACHABLE"}
  ELSE IF "rpd_stale_only" \in scn.faults THEN {"STALE_DATA_ONLY"}
  ELSE IF "rpd_measurement_unavailable_once" \in scn.faults /\ n = 1
       THEN {"MEASUREMENT_UNAVAILABLE"} ELSE {}

GetRPDSpectrumMeasurements(port) ==
  /\ attempts' = Min({attempts + 1, 2})
  /\ \/ \E code \in RpdFault(attempts + 1) : Answer(Error(code))
     \/ /\ RpdFault(attempts + 1) = {}
        /\ \E class \in scn.looks[RpdRef] :
             store' = [store EXCEPT !["meas"] = Append(@, [device |-> RpdRef, class |-> class])]
        /\ reply' = [status |-> "success", ref |-> NextHandle("meas")]
  /\ UNCHANGED scn

(* Tools 2 and 5: analyzeSpectrumMeasurements, on references or on a set.       *)

Classify(items) ==
  /\ store' = [store EXCEPT !["classset"] = Append(@, items)]
  /\ reply' = [status |-> "success", ref |-> NextHandle("classset"),
               impaired |-> Cardinality({i \in DOMAIN items : items[i].class # "Clean"}),
               classes |-> {items[i].class : i \in DOMAIN items}]

Analyze(handles, kind, items) ==
  /\ IF "analyze_fails" \in scn.faults THEN Answer(Error("CLASSIFICATION_FAILED"))
     ELSE IF \E h \in handles : ~Has(h) THEN Answer(Error("INVALID_MEASUREMENT_REF"))
     ELSE IF \E h \in handles : h[1] # kind THEN Answer(Raised)
     ELSE Classify(items)
  /\ UNCHANGED <<scn, attempts>>

AnalyzeMeasurements(refs) ==
  Analyze({refs[i] : i \in DOMAIN refs}, "meas", [i \in DOMAIN refs |-> Get(refs[i])])

\* Another kind of value is iterated over all the same, and an empty one has no item
\* to trip over: only a classification of no captures can be empty.
AnalyzeMeasurementSet(setRef) ==
  LET empty == setRef[1] = "classset" /\ Has(setRef) /\ Get(setRef) = <<>>
  IN  Analyze({setRef}, IF empty THEN "classset" ELSE "measset", Get(setRef))

\* Called with neither kind of argument.
AnalyzeNothing ==
  /\ Answer(Error(IF "analyze_fails" \in scn.faults THEN "CLASSIFICATION_FAILED"
                  ELSE "INVALID_MEASUREMENT_REF"))
  /\ UNCHANGED <<scn, attempts>>

(* Tool 3: getAllAmpsInSegment.                                                 *)

GetAllAmpsInSegment(port) ==
  /\ IF "topology_unavailable" \in scn.faults THEN Answer(Error("TOPOLOGY_UNAVAILABLE"))
     ELSE IF ~HasSegment(port) THEN Answer(Error("INVALID_RPD_PORT"))
     ELSE IF AmpIds(Segment(port)) = {} THEN Answer(Error("EMPTY_SEGMENT"))
     ELSE /\ store' = [store EXCEPT !["amplist"] = Append(@, AmpIds(Segment(port)))]
          /\ reply' = [status |-> "success", ref |-> NextHandle("amplist")]
  /\ UNCHANGED <<scn, attempts>>

(* Tool 4: getAmpUpstreamSpectrumMeasurements, by amp list handle or by amp ids. *)
(* Amps whose port fails, or that the scenario does not know, count as failed.   *)

Labelled == DOMAIN scn.looks \ {RpdRef}
Measurable(ids) == (ids \cap Labelled) \ scn.failedAmps

\* What the captures of some devices may show.
Readings(ids) == {f \in [ids -> Classes] : \A a \in ids : f[a] \in scn.looks[a]}

MeasureAmps(ids) ==
  \E class \in Readings(Measurable(ids)) :
    LET failed == ids \ Measurable(ids)
        items  == SetToSeq({[device |-> a, class |-> class[a]] : a \in Measurable(ids)})
    IN  /\ store' = [store EXCEPT !["meas"]    = @ \o items,
                                  !["measset"] = Append(@, items),
                                  !["failed"]  = IF failed = {} THEN @ ELSE Append(@, failed)]
        /\ reply' = [status |-> IF failed = {} THEN "success" ELSE "partial_success",
                     ref |-> NextHandle("measset"), failed |-> Cardinality(failed)]

MeasureIds(ids) ==
  IF Measurable(ids) = {} THEN Answer(Error("AMP_MEASUREMENTS_UNAVAILABLE")) ELSE MeasureAmps(ids)

GetAmpUpstreamSpectrumMeasurements(listRef) ==
  /\ IF ~Has(listRef) THEN Answer(Error("INVALID_AMP_LIST_REF"))
     ELSE IF listRef[1] \notin {"amplist", "meas"} THEN Answer(Raised)
     ELSE MeasureIds(IF listRef[1] = "meas" THEN {} ELSE Get(listRef))
  /\ UNCHANGED <<scn, attempts>>

GetAmpMeasurementsById(ids) == MeasureIds(ids) /\ UNCHANGED <<scn, attempts>>

\* Called with both kinds of argument, or with neither.
MeasureAmbiguous == Answer(Error("INVALID_AMP_LIST_REF")) /\ UNCHANGED <<scn, attempts>>

(* Tool 6: localizeUpstreamSpectrumImpairmentSource. The evidence of each       *)
(* candidate goes behind handles, and only a non-empty list gets one.           *)

PutEvidence(candidates) ==
  LET With(kind, devices) ==
        store[kind] \o SetToSeq({c[devices] : c \in {d \in candidates : d[devices] # {}}})
  IN  store' = [store EXCEPT !["supportdev"]   = With("supportdev", "supporting"),
                             !["cleandev"]     = With("cleandev", "clean"),
                             !["uncertaindev"] = With("uncertaindev", "uncertain")]

\* The values behind the handles that are classifications, and the positions of those
\* that are not. A value that is not one makes the search for an impaired item raise,
\* unless an impaired item comes before it; then the localizer raises instead.
Misfits(refs) == {i \in DOMAIN refs : refs[i][1] # "classset"}
Pool(refs) == FlattenSeq([i \in DOMAIN refs |-> IF i \in Misfits(refs) THEN <<>> ELSE Get(refs[i])])
UpTo(refs, i) == SubSeq(refs, 1, i)

LocalizeUpstreamSpectrumImpairmentSource(port, impairmentType, refs) ==
  /\ IF \E i \in DOMAIN refs : ~Has(refs[i])
     THEN Answer(Error("INVALID_CLASSIFICATION_SET_REF"))
     ELSE IF \E i \in Misfits(refs) : ImpairedLabels(Pool(UpTo(refs, i))) = {} THEN Answer(Raised)
     ELSE IF ImpairedLabels(Pool(refs)) = {} THEN Answer(Error("NO_IMPAIRMENT_CONFIRMED"))
     ELSE IF ~HasSegment(port) \/ NodeIds(Segment(port)) = {}
          THEN Answer(Error("TOPOLOGY_UNAVAILABLE"))
     ELSE IF impairmentType \notin Classes \/ Misfits(refs) # {} THEN Answer(Raised)
     ELSE LET public == PublicLocalization(Localize(Segment(port), Pool(refs)))
          IN  /\ PutEvidence(public.candidates)
              /\ reply' = [status |-> "success", type |-> impairmentType, localization |-> public]
  /\ UNCHANGED <<scn, attempts>>

================================================================================
