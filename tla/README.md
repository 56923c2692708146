# TLA+ verification of the upstream impairment localizer

This directory holds the formal side of the repository: TLA+ modules translated from the
Python sources under `src/uil`, TLC configurations that check them on small instances, and
TLAPS proofs, for instances of every size, of the safety properties of the audit log, both
agents, the evaluation harness, the localizer, the plant parser and the spectrum.

## 1. The system

An alarm about upstream FEC errors on an RPD port starts a diagnosis: capture the RPD's
upstream spectrum, classify it, list the amplifiers of the segment, capture and classify
theirs, and localize the source of the impairment in the plant. Two agents can drive the
six tool calls, a deterministic orchestrator (the reference) and a language-model agent. The
tools are served by a mock MCP server. Every run leaves an audit record. A generator plants
faults for evaluation, and a grader scores the runs.

| Component | Source | State it keeps | Operations | Module |
|---|---|---|---|---|
| Alarm gate | `agent/trigger.py` | none | `evaluate` | `AlarmTrigger` |
| Orchestrator | `agent/orchestrator.py`, `trace.py`, `handoff.py` | `_trigger`; per run: trace, attempt, handles | `run`, `run_from_alarm`, `_escalate`, `_record` | `Orchestrator` |
| SLM agent | `agent/langgraph_agent.py` | trace, toolset with bound port and last localization, `_trigger` | `run`, `run_from_alarm`, the five tools | `SlmAgent` |
| MCP server | `mcp_server/server.py`, `handle_store.py` | scenario, handle store, measurement attempts | tools 1 to 8, `resolve_localization` | `McpServer` (tools 1 to 6) |
| Localizer | `localizer/graph_localizer.py`, `domain/localization.py` | none | `localize`, `build_public_localization` | `Localizer`, `LocalizerCases` |
| Plant parser | `localizer/plant_topology.py` | per call: two stacks, visited edges, devices found | `parse_data_package` | `PlantTopology`, `PlantSegment` |
| Audit store | `agent/trace_store.py` | one JSONL file per UTC day | `record`, `verify` | `TraceStore`, `AuditLog` |
| Evaluation harness | `eval/generator.py`, `eval/grader.py` | none | `generate`, `grade_case` | `EvalHarness` |
| Classifiers | `classifier/*.py` | model weights | `classify_spectrum`, `classify_snapshots` | `Spectrum` (rule classifier) |
| Spectrum simulation | `sim/*.py` | random generator | `generate` | `Spectrum` (`SpectrumSimulator`) |
| Wire types | `domain/*.py`, `schemas/` | none | none | not modelled |

How they interact: the gate and the agents are plain calls; the agents call the server's
tools synchronously and pass opaque handles (`meas-0001`, `classset-0002`, ...) from one call
to the next; the server calls the simulator, the classifier, the plant parser and the
localizer; both agents write to an audit store. One agent object may serve many runs, the SLM
agent's framework may run the tool calls of one model turn in threads, and many
processes may write to one audit directory. Nothing in the repository takes a lock.

### What is hard here

* Audit store: reading the last hash and appending are separate file accesses, so processes
  interleave; a write can stop part way; the UTC date changes between two steps; a text can
  hold a character that JSON does not escape and `splitlines()` splits at.
* Orchestrator: state that outlives a run (`_trigger`, the handle store, the server's
  attempt counter), nine exits that must agree on status, label, handoff and record, a
  bounded retry, partial failures in the middle of a run, a failing audit write.
* SLM agent: a model that may call any tool with any handle, in any order and in parallel;
  a toolset that no run resets; exceptions that leave `run()` before the record.
* Localizer: missing measurements, contradicting classes, passives that have no reference
  of their own, several top-level branches, and which propagation of a fault is assumed.
* Plant parser: meshed and cyclic documents, walked twice, once with marks on nodes and once
  with marks on edges; the first path wins, and stack order decides which one is first.
* Evaluation harness: ten criteria that must accept every run of the reference on every
  case, and cases whose truth must follow from what can be measured.
* Spectrum: random levels against fixed thresholds, in four rules of which the first wins.

`PROJECT.json` lists each hazard at its line with the properties that cover it.

## 2. The modules

```
PlantTopology --+-- PlantSegment --- MCPlantSegment         one parse_data_package() call
Localizer ------+
    |
    +-- LocalizerCases --- MCLocalizer                      one localize() call
    |
    +-- McpServer --+-- Orchestrator --- EvalHarness --- MCOrchestrator
                    |        |                              runs of the orchestrator
        AlarmTrigger+        :... implements ... DiagnosisContract
                    |        :... implements ...
                    +-- SlmAgent --- MCSlmAgent             runs of the SLM agent

Spectrum --- MCSpectrum                                     one capture, classified

TraceStore --- MCTraceStore                                 processes over one directory
    :... implements ... AuditLog
```

The proofs are in modules that extend the ones they are about:

```
LocalizerLemmas --+-- LocalizerCasesProofs                  (LocalizerCases)
                  +-- PlantTopologyProofs                   (PlantSegment)
                  +-- McpServerProofs --+-- OrchestratorProofs  (EvalHarness, Orchestrator)
                                        +-- SlmAgentProofs      (SlmAgent)
SpectrumProofs                                              (Spectrum)
TraceStoreProofs                                            (TraceStore)
```

Operators marked "Seeded fault" are faulty variants of the definition they stand before.
They are used by no specification; substituting one must break the property it is paired
with in `PROJECT.json`, which shows that the property can fail.

**Localizer** has `localize()` and its helpers as operators with the names of the code
(`PathToRpd`, `RefFor`, `CommonPoint`, `CleanBoundary`, `Localize`) and the conversion to the
public result. A topology is a parent map and a kind per node; ids are numbers so that their
order stands for the order `sorted()` gives, since the code picks first elements of sorted lists.
Confidence is in hundredths. Descriptions and recommended actions are left out.

**LocalizerCases** calls it once on a segment and a set of readings and compares the answer
with definitions that do not walk paths: "at or above" is the least set closed under
`parent`.

**McpServer** has the handle store and one action per tool. A tool call is a whole
handler: error paths are alternatives in the order the code tests them, and an
exception (a handle of the wrong kind) is the reply `Raised`. Tools take every kind of
argument their schemas allow: a handle or explicit amp ids, neither, both. A stored spectrum
is the class the classifier will give it, chosen at capture from the classes the scenario
lets the device show (`scn.looks`): any class where nothing should depend on how well
simulation and classification agree, the planted one where the harness says they do.
Counting attempts stops at 2, because the code only asks whether the attempt is the first.

**AlarmTrigger** is the gate. **Orchestrator** has an action per step of `run()` (the call, its
trace entry and the decision on the reply), `RunFromAlarm` and `RejectAlarm` for
`run_from_alarm`, and `Run` for a direct call. All exits go through `Finish`, which writes
the record and returns, or does neither because the write raised.

**SlmAgent** has `McpToolset` and `LangGraphAgent` around a model that may do anything its
tool schemas allow: `AskTools` starts a turn of several calls, whose arguments are any
handles of the store or the next one made up. A toolset method is split where it touches
what threads share: `CallServer` (the server's handler, one step), `Remember`
(`last_localization`), `Number` (the step number read off the list) and `AppendEntry`. The
threads differ in nothing, so they are kept in the order in which they start. `JoinTools` and
`GraphFails` are the framework, known only from how the code calls it: an exception of a tool is told to
the model or leaves `graph.invoke()`. `Run`, `RunFromAlarm`, `RejectAlarm` and `Conclude` are
the agent; nothing that the code keeps on its objects is reset between runs.

**DiagnosisContract** is what both agents promise: results and records come in pairs and
are never taken back, a pair agrees on its outcome, a human is handed exactly the
unresolved runs, and a run may vanish (an exception) but only while one is under way.

**EvalHarness** extends the orchestrator with the generator and the grader. `Cases` is the set of
all cases each of the nine dimensions can draw over its tree shapes, fault sites and failing
amps, each a scenario and a ground truth; `Missed` is `grade_case` with its ten criteria, evaluated on the
result and the trace of a run. The generator draws up to three amps
beyond the least number; `ExtraAmps` bounds them.

**PlantTopology** is `parse_data_package`. The two loops are actions, one turn each:
`ExtendScope` collects the segment below the requested port, `StartRoot` and `Visit` walk it
depth first and register the devices with parent and distance. The order in which children
are pushed and roots taken is any order. Edges are a set: the code's adjacency lists may hold an edge
twice, which only changes whether a port that is listed twice counts as ambiguous. Lengths are whole metres.
**PlantSegment** hands the result to `Localizer` as `Topology.from_data_package` does.

**Spectrum** draws one capture with `SpectrumSimulator.generate` and reads it with
`RuleClassifier`, in integers: frequencies in units of 250 Hz, levels in tenths of a dB.
Severity is 1, as on every call of the server. The draws of the simulator are unbounded normals,
so the module names what it takes them to be. A noise is `Ordinary`: no bin beyond 5 dB, at
most two bins of 4 dB or more, and enough bins low, high, or not too low. Of captures drawn
with N(0, 1 dB), less than 2 in 10,000 are not. The jitter of a CPD floor is within four of its standard
deviations (6 dB), and a stub rise in its uniform range of 3 to 6 dB. The instances for TLC deal out
the quantiles of the normal distribution over the band in twenty evenly spread orders.

**TraceStore** splits `record()` where other processes can get in: `ChoosePath` (the file of
the current date), `ReadLastHash`, `AppendLine`. `ReadRaises` is the `JSONDecodeError` of
`_last_hash`, `AppendTorn` a write that stops part way, `Abandon` a death of the process
or a file that cannot be opened, `Rotate` midnight UTC. A line is a record or `Damaged`, and
`cut` says that a file does not end in a newline, so that the next text continues its last
line. Three constants choose the environment: `Concurrent`, `TornWrites` and `SplitRuns`
(runs whose text is split by `splitlines()`). **AuditLog** is what the store promises: runs
are added to a day, once and for good, and a returned id is in the log.

## 3. What the runs show

### Passing

| Run | Instance | Properties |
|---|---|---|
| `localizer` | all trees of 4 amps with one top amp; all plants of 3 amps or passives under an RPD; each amp clean, missing or one of 2 classes | `LocalizedIsConclusive`, `RegionHoldsImpaired`, `BoundaryIsLowestCommonAncestor`, `PlantedFaultIsNamed`, `PlantedFaultNeverExcluded` |
| `orchestrator` | 2 runs on one server; 92 small scenarios (three segments of 2 amps and an empty one, fault flags, failing and unlabelled amps) and every case of the harness with up to 1 extra amp; 5 alarms; writes that fail | `ChainStopsAtFailure`, `RequestsAreAccepted`, `LocalizedRestsOnOwnReadings`, `TransientFaultIsAbsorbed`, `ResultsAreAudited`, `ReferenceMeetsEveryCriterion`, `AnswerIsThePlantedFault`, `KeepsContract`, `RunsEnd` |
| `slm_agent` | 2 runs; 2 turns a run, 3 calls, 2 of them in parallel, one handle in a list, or a model that keeps the order, with 3 turns and 6 calls; a chain of 2 amps behind one port and a port that resolves to nothing | `AuditShowsEveryHandle`, `EvidenceWasMeasured`, `StepNumbersStayClose`, `KeepsContract` |
| `plant` | every graph on 3 components below a port with up to 3 edges among them, with and without back edges; two ports, several sources or none; scoped, unscoped and malformed requests | `RegistersTheReachable`, `EveryDeviceHangsFromARoot`, `ParentAndDistanceAgree`, `SegmentIsBelowItsPort`, `ImpairedAmpsHaveACommonPoint`, `ParsingEnds` |
| `spectrum` | nine labels; 20 noises, CPD jitter up to 3.5 dB, stub rises of 3 to 6 dB | `SignaturesReadBack`, `FaultsAreNeverCleared` |
| `trace_store_shared` | 2 interleaved processes, 3 runs, 2 days | `ReturnedIsStored`, `StoredOnce`, `LinksPointBack`, `OnlyForksBreakTheChain`, `ChangesAreDetected`, `AppendOnly`, `ImplementsAuditLog` |
| `trace_store_torn` | one at a time, torn writes and a run that splits | `DamageIsTheTail` |

Six modules also have a `TypeOK`. Why the bounds are enough:

* The localizer treats nodes alike but for kind, parent and order, and four nodes give
  chains, forks, and forks below chains, with every assignment of ids to places; two classes
  are needed to disagree and no code compares three.
* Two runs are what it takes for state of an earlier run to reach a later one, in either
  agent, and one re-measure makes the retry loop take both exits. Each dimension of
  the generator gets every tree of the least size that it needs and of one amp more, so that there is an
  amp which the fault does not touch.
* Two calls at once are one race, three calls are a capture of the RPD or of the segment,
  its classification and a localization. The order the prompt recommends takes six calls, but the
  model need not keep it: explicit amp ids and one classification set reach "localized" in
  three, in one run or across two. For two localizations to differ, and so for their race to matter,
  there must be two captures and two classifications as well. These six calls are left to a model that
  keeps the recommended order in one direct run (`orderly` in `MCSlmAgent`); a model free to call anything gets three.
* Three components below a port hold a device, a connector and a second path around
  either, and every cycle of one, two or three of them.
* Three records give a first, a middle and a last line, two days one midnight, two processes
  one race.

*Deadlock* is checked in the runs of both agents and of the plant parser: the only
states without a step of their own are idle ones after the last run, or after the parser's end,
where `Stopped` and `Ended` stutter. The localizer's, the spectrum's and the trace store's
runs end when the call is made or the runs are used up, so deadlock checking is off.

*Fairness.* `RunsEnd` assumes that a started `run()` goes on: it is one sequential call in one
thread, with no wait in it. The fair action is what any step does to the place of the run
(`pc`, `attempt`); that some step can be taken there is what the absence of deadlock shows.
Nothing is assumed of alarms or callers. `ParsingEnds` assumes the same of
`parse_data_package`, which is one call of one function: weak fairness of its steps. No liveness is
claimed of the SLM agent: what ends its runs is the recursion limit of the framework, which the
model has as a bound, so such a property would only show the bound.

### Disagreements between code and documentation

Each of these runs checks one statement of the repository and TLC finds it violated.

| Run | Statement | What the code does |
|---|---|---|
| `localizer_flat` | the common point is an ancestor of every impaired amp (`graph_localizer.py:159`) | with several top-level amps the anchor is the first impaired amp, and others lie outside the reported branch |
| `slm_stale` | the SLM "emits `escalated` when it stops without a confident localization" (`grader.py:37-38`) | `last_localization` is never reset: a later run whose model stops at once returns and records the earlier run's localization as its own |
| `spectrum_misread` | "the planted label round-trips exactly" (`evaluation-harness.md:90`) | the jitter on a CPD floor rise is unbounded; from about -4 dB down (71 of 20,000 captures drawn with the simulator) a CPD capture reads Ingress |
| `trace_store_fork` | `verify()` returns true if intact (`trace_store.py:126`) | two processes that read the same last hash fork the chain |
| `trace_store_split` | every run is durably recorded (`README.md:100`) | `ensure_ascii=False` leaves U+2028 in the text, `splitlines()` splits there, and every later `record()` of the day raises |

Two passing properties of the run `spectrum`, proved as well, contradict what the repository says. The
documents and comments are wrong there, and the code does better:

| Property | Statement | What the code does |
|---|---|---|
| `SignaturesReadBack` | CPD is "the only impairment with a modelled simulator signature that round-trips through the RuleClassifier back to the same label" (`generator.py:32-33`); the paths of "Ingress / Wideband / Narrowband" are stubs (`evaluation-harness.md:84-86`); CPD is "the one class the simulator and rule classifier round-trip faithfully" (`docs/paper/reference-architecture-and-evaluation.md:246-247`) | Ingress and NarrowbandInterference have signatures of their own (`spectrum_simulator.py:110-117`), and every capture of them is read back as planted |
| `FaultsAreNeverCleared` | "ImpulseNoise / Ripple / Suckout classify as Clean" (`evaluation-harness.md:86-87`); the other labels "classify as Clean or drift" (`generator.py:33-34`) | the stub (`spectrum_simulator.py:118-120`) lifts the whole band by 3 to 6 dB and reads Ingress, WidebandNoise or, near the margin, CPD; never Clean |

The generator restricts itself to CPD on these grounds (`_IMPAIRMENTS`). As far as the spectra go, it
could plant Ingress and NarrowbandInterference, too; not the stubs, which are misread.

More are visible in the model and have no run of their own:

* A direct `run()` of the orchestrator after an alarm keeps the alarm's trigger, so a record may say
  `noCall` and hold calls (`orchestrator.py:43`, `README.md:75-76`).
* `_escalate` records a low-confidence run as `escalated`; no record says `low_confidence`
  (`orchestrator.py:157`, `README.md:102-103`).
* An exception of the agent graph leaves the SLM agent's `run()` before the record is written
  (`langgraph_agent.py:290`, `README.md:100`); `KeepsContract` allows it to both agents.
* The SLM agent's label stays `negative` after a run that did not localize
  (`langgraph_agent.py:301`).
* An alarm rebinds the SLM agent's tools to its port for good (`langgraph_agent.py:281`): a later direct run is
  told the scenario's port and measures the alarm's, though the toolset should hold the ids "from the
  alarm in `run_from_alarm`, else scenario defaults" (`open-decisions.md:119-120`). `EvidenceWasMeasured`
  is about the port that the calls name and would not notice.
* The module docstring of the localizer (`graph_localizer.py:3-5`) says that the devices from
  the fault up to the RPD see it; the algorithm and the generator fit faults seen from the fault downwards.
* Removing the last records of a day leaves a valid chain, and the last record can be rewritten
  with a hash that fits, as the digest has no key; any edit or deletion should be detectable
  (`README.md:106-107`, `trace_store.py:11`). `ChangesAreDetected` covers removed and rewritten
  records where another follows, and every edit that keeps the stored hash.
* A torn write makes later calls raise (`ReadRaises`), and a record appended to a line
  without its newline is merged into it, so `ReturnedIsStored` is only stated without torn writes.
* `_clean_boundary` looks at the direct parent (`graph_localizer.py:274`), so a clean amp above a
  passive is left out of the clean boundary.

## 4. What is proved

Every theorem holds for all values of the constants that satisfy the modules' named
assumptions, so for any number of processes, runs, turns, amps, components or days. TLC
evaluates each assumption on the instances above. In words: component ids are positive, amp
ids natural numbers, documents and segments finite; a parsed request names at most one RPD;
an alarm names a port that exists; a scenario labels the RPD and its segments are topologies (a
finite map of parents and kinds, `IsTopology`: cycles and dangling parents are allowed);
"clean" is no impairment; bounds are natural numbers; a digest function maps to digests; and
noises are ordinary, jitters and stub rises in the ranges of section 2.

| Module | Theorem | Hypotheses | Result |
|---|---|---|---|
| `OrchestratorProofs` | `TypeCorrect` | none | `[]TypeOK` |
| | `ChainHolds` | none | `[]ChainStopsAtFailure` |
| | `RequestsHold` | none | `[]RequestsAreAccepted` |
| | `LocalizedHolds` | none | `[]LocalizedRestsOnOwnReadings` |
| | `TransientHolds` | none | `[]TransientFaultIsAbsorbed` |
| | `AuditHolds` | none | `[]ResultsAreAudited` |
| | `ImplementsContract` | none | `KeepsContract` |
| | `AnswerIsTheFault` | none | `[]AnswerIsThePlantedFault` |
| | `ReferenceIsRight` | one re-measure | `[]ReferenceMeetsEveryCriterion` |
| `SlmAgentProofs` | `TypeCorrect` | none | `[]TypeOK` |
| | `NumbersHold` | none | `[]StepNumbersStayClose` |
| | `AuditHolds` | none | `[]AuditShowsEveryHandle` |
| | `EvidenceHolds` | none | `[]EvidenceWasMeasured` |
| | `ImplementsContract` | none | `KeepsContract` |
| `LocalizerCasesProofs` | `CasesTypeCorrect` | segments are topologies | `[]TypeOK` |
| | `LocalizedHolds` | segments are topologies | `[]LocalizedIsConclusive` |
| | `BoundaryHolds` | segments are trees | `[]BoundaryIsLowestCommonAncestor` |
| | `RegionHolds` | segments are trees | `[]RegionHoldsImpaired` |
| | `PlantedFaultHolds` | segments are trees | `[]PlantedFaultIsNamed` |
| | `FaultStaysPossible` | segments are trees | `[]PlantedFaultNeverExcluded` |
| `PlantTopologyProofs` | `TypesCorrect` | none | `[]TypeOK` |
| | `ParentLinksAreAForest` | none | `[]EveryDeviceHangsFromARoot` |
| | `ParserFindsTheReachable` | none | `[]RegistersTheReachable` |
| | `SegmentHolds` | none | `[]SegmentIsBelowItsPort` |
| | `ParentsAndDistancesAgree` | none | `[]ParentAndDistanceAgree` |
| | `CommonPointExists` | none | `[]ImpairedAmpsHaveACommonPoint` |
| | `SegmentsAreTreesBelowTheRpd` | none | `[]SegmentIsATree` |
| | `SegmentsHaveOneRpd` | no RPD is fed by another component | the RPD of a segment is its only one |
| `TraceStoreProofs` | `TypeCorrect` | none | `[]TypeOK` |
| | `LogIsAppendOnly` | no torn writes | `AppendOnly` |
| | `RunsAreStoredOnce` | whole writes | `[]StoredOnce` |
| | `ReturnedRunsAreStored` | whole writes | `[]ReturnedIsStored` |
| | `TraceStoreImplementsAuditLog` | whole writes | `ImplementsAuditLog` |
| | `RacesOnlyForkTheChain` | whole writes | `[]LinksPointBack` |
| | `OnlyForksAreRejected` | whole writes | `[]OnlyForksBreakTheChain` |
| | `NoneIsRefusedUnlessDamaged` | whole writes | `[]NoRunIsRefused` |
| | `ChangesToIntactLogAreDetected` | whole writes, a collision-free digest | `[]ChangesAreDetected` |
| | `SerialLogVerifies` | whole writes, one `record()` at a time | `[]UntouchedLogVerifies` |
| | `DamageStaysAtTheEnd` | one `record()` at a time | `[]DamageIsTheTail` |
| `SpectrumProofs` | `SpectrumTypes` | none | `[]TypeOK` |
| | `NoFaultIsCleared` | none | `[]FaultsAreNeverCleared` |
| | `SignaturesAreReadBack` | no jitter under -3.5 dB | `[]SignaturesReadBack` |

*The hypotheses.* "Whole writes" are neither torn nor split. "Trees" have one top node, every
other node has its parent among the nodes, ranks rise along the parents (so there is no cycle), and only the
top may be an RPD. All 192 trees and plants of the run `localizer` are such trees, and so is what
the parser makes of a document: `SegmentsAreTreesBelowTheRpd` proves it for every
request that names an RPD, and `SegmentsHaveOneRpd` that no second RPD is in the segment
unless a document feeds one from another component. A list given to `from_amp_list` need not be a tree; where
it has several top amps, `RegionHoldsImpaired` fails (`localizer_flat`). "One re-measure" is
`MaxRemeasure = 1`, what the orchestrator is built with (`orchestrator.py:33`) and what the
truths of the generator are written for: without one the cases that recover fail, and with two the
cases that stay stale take a capture more than their truth counts. A jitter lower than
-3.5 dB comes in less than one CPD capture in a hundred, and most of these still read as CPD
(`spectrum_misread`). Each of the other hypotheses is also dropped in a run that finds a violation, or
named in the list after it.

*Induction.* The induction theorems of the proof library take the formula to be proved as a
parameter, which the provers cannot fill in. `LocalizerLemmas` replaces them by a least counterexample:
`LeastNatural` (a nonempty set of naturals has a least member, from the well-foundedness of strict
inclusion among finite sets) and `InductionUpTo`, which take a set of numbers. With these the recursive
functions of the model, `PathToRpd`, the folds and the concatenations, can be reasoned about. A function
defined by `CHOOSE` from its equation must first be shown to exist (`ClimbExists`, `RunsExist`).

*The localizer.* `LocalizerLemmas` proves of any topology and any pool what `localize` reads
from its readings and when it may answer "localized" (`LocalizedMeans`), which needs no tree. On
a tree, `PathToRpd` is the climb from a node to the top (`PathGoesUp`): it ends because ranks fall, so
it cannot be longer than the topology is large. Reversed it is a way down (`WayToGoesDown`). Two ways from
the top pass a node at the same place if at all (`WaysMeetOnce`), so a node is on all ways exactly when
it is in their longest common prefix, and the last of the prefix is the lowest common ancestor
(`CommonPointHolds`). `RefFor` climbs out of passives to the first node that has a reference
(`RefForHolds`), the lowest *measurable* common ancestor. The properties state the
same with least closed sets (`AboveIsReference`). For a planted fault the impaired amps are the fault's amp
and the amps below it, whose lowest common ancestor is the fault.

*The orchestrator.* `Inv` has six parts. `StoreOK`: every handle stands for a value of its
kind. `Control`: place, attempt and record counts agree. `CallsInv`: every list of calls is some captures and
then the chain, and the list of the run under way has exactly the length its place says. `EvidenceInv` says
what is behind the handles the run holds: its RPD capture, that capture's classification, one
capture of each measurable amp. `LocalizedInv`: what a localized run says follows from
readings that are still in the store. `AbsorbsInv`: a transient fault is gone once the
server was asked. A run only passes handles on, so `EvidenceInv` must
say at every place what they stand for, and that a later call does not change it rests on `Grows`, proved of
every tool in `McpServerProofs`: the store only adds. The contract is implemented because
only `Finish` and `RejectAlarm` touch results and records (`NextProceeds`), and they add to both.

*The harness.* Both theorems are about the first run on a generated server, so they need to know
all that the run does and not only what it may do. A case is described by a draw: a tree, the
label of the RPD, the impaired amps, the injected faults and the amps that do not measure
(`CasesAreDrawn` says that each dimension makes nothing else, and what its truth is).
`FirstRunInv` says of the first run on the server of a draw, step by step, what is behind the last
handle and which fault the next attempt meets, and at its end how many captures it took and where
the chain stopped. It uses `Inv` throughout, and that captures look as they are labelled, which is
an assumption of the harness. A run that gets to the end answers over exactly the readings of the
draw, and the lemmas on trees say what the localizer makes of them: the generator's descendants
are those that `AboveIds` finds an amp above (`DescendantsAreBelow`), and the root of the impaired
amps is their common point. For the grader, its loops over the tools of a trace are folds over
index sets; `FoldGoesRight` turns them into folds from left to right, with which the tools of a
run without repetitions are shown to be the chain up to some place, for any number of captures.

*The SLM agent.* `Inv` (also checked by TLC, on the instance of `slm_agent`) has five parts.
`StoreOK` is the same. `NumbersInv` bounds the number a thread read by the calls that the turn
has left, counting threads that have read it and those to come; `StepNumbersStayClose` alone is
not inductive as it says nothing of these threads. `HandlesInv`: each handle an auditor is to see
is in the trace or with a thread about to append it. `EvidenceInv`: behind every set
and classification of the store are captures of the store (`PoolsAreCaptured`), whichever handles the model
combined, so each localization, in the trace, with a thread or remembered from an earlier run, was made
from captures; and what `last_localization` holds was computed in some call of
the trace or by a thread. This is the part that survives the stale result of `slm_stale`: the
evidence exists, if in the wrong run.

*The plant parser.* `TypeOK` is not inductive alone: one must know what each phase has not
touched yet (`Phases`: no device is registered before the walk, no frame is left when it is
over). `EveryDeviceHangsFromARoot` is then inductive: `Register` only adds devices, and gives them a parent
that is registered already, so a set that is closed under "parent is in it" and held all the old
devices holds the new ones. `RegistersTheReachable` needs the invariant of a graph walk that
marks edges (`WalkInv`). Call a component met when it is a root or a visited edge leads to it and
it is no home. A met component is a root still to come, on the stack, or has all its edges visited
(`AllAreFollowed`); a met device is a root still to come or registered (`DevicesAreRegistered`);
and only reachable components are registered or on the stack (`NothingElseIsMet`). `StartKeepsWalk` and `VisitKeepsWalk`
show that a turn keeps this, in any order of pushing, and `WalkedIsReached` that at the end, with
no root and no frame left, the met components are closed under `Children` and so are all that is
reachable. `ScopeInv` is the same for the walk that collects a segment. For distances, `RunInv` says
that a frame is a run of connectors from its device, followed for at most as many steps as
components were entered: all edges of a component are visited together (`EnteredAreExpanded`), so each step
enters a new one and a run is never longer than the scope is large, which is the bound to which the
property follows runs. `RankInv` ranks devices by registration, which makes a segment a tree.

*The spectrum.* The rules compare medians over 118 to 256 bins. `MedianIsBounded` says what is
needed of an order statistic: if more than half of the bins have a level of at most x, so has the
median, and likewise from below. Its proof counts how many bins are below a middle level. The rest
is counting too: how many bins a band has (`PartsHold`), how many of them a label raises, and how
many of those have noise far from the floor (`FarAreFew`). A narrowband carrier raises at most
three bins over a quiet median (`PeakIsSharp`) and any other fault at least four
(`ManyAreRaised`), so none reads clean (`FaultIsNotClean`). A part of the band where more than
half of the bins and two more are left alone is not lifted (`QuietIsNotLifted`), so the rules that
come first do not fire for the later labels (`SignatureIsRead`). The constants in `Ordinary` are
the numbers these counts need.

*The audit log.* With no torn write no line is ever cut (`NothingCut`), so an append touches no
line that is there. With no split either, every line is a record (`AllReadable`) and
`AppendLine` adds exactly one (`OneLineAdded`). `StoredOnce` is not inductive alone: one must
know that a run inside `record()` is on no line yet and in no other process
(`RunsAreFresh`), which holds as run ids are not reused. Together these are `WholeInv`, and a write
then is a `Record` step of `AuditLog`. `UntouchedLogVerifies` further needs that the hash a
process read is still the last one of its file when it writes (`HashIsFresh`), which follows
from `OneAtATime` and is what concurrency destroys; these make up `ChainInv`. What concurrency
leaves is weaker: the hash a process holds is Genesis or that of a line of its file
(`HashIsKnown`), which later appends cannot undo, and from which `LinksPointBack` follows
(`LinkInv`). A line appended after a hash that is not the last one's shares it with the line that
followed, so `OnlyForksBreakTheChain`. Without whole writes, and one process at a time, a hash is
only ever read off a file without damage and is its last (`LastIsRead`), so nothing follows damage:
`TailInv`, also checked by TLC on the instance of `trace_store_torn`.
Detection is a fact about single files: a line moved up cannot link in its new place
(`MovedUpIsUnlinked`), as equal hashes would mean equal runs, and a line given a new hash is not
the one that the next line links to (`RewritingIsDetected`). `CollisionFree` cannot hold for
a finite set of digests, so it is a hypothesis of the theorem and not an assumption on
the constants; TLC's digest, the sequence of runs so far, has it up to the length of its logs.

Only model-checked:

* `RunsEnd` and `ParsingEnds`: liveness rests on fairness and `ENABLED`, which are outside what the
  prover handles.
* The disagreements above, which are counterexamples.

## 5. What is not modelled

* Tools 7 and 8 of the server, which draw samples and store one value nobody reads; the
  expansion `resolve_localization`, read-only; the alias of tool 4.
* The CNN classifier, numerical code with learnt weights, and `SpectrumSampleGenerator`, the
  floating-point synthesis of its inputs. The tables between their labels do not
  invert each other (`Suckout` comes back as `WidebandNoise`, `UnknownImpairment` as `Clean`), so the captures of
  the server's model may have any class.
* Prompts, model construction and everything inside LangChain and LangGraph.
* Unwrapping a plant document's JSON, and parsing and rounding a length.
* The order in which text of one `write()` reaches the disk: `AppendLine` is one step, so
  concurrent appends never mix within a line.
* `UIL_TRACE_DISABLE` (`record()` then does nothing) and a fixed file name (no rotation).
* Declarations of wire types, the example scripts, and `build/lib`, a stale copy of the package.

## 6. Plan

Every safety property and every refinement that a passing run checks is now also a theorem. What
is left is both agents over `TraceStore` as their audit sink, several of them at a time: the sink of
the agents' models either writes a record or raises, and `AuditLog` says that a store with whole
writes keeps what was written, but no module composes the two.
