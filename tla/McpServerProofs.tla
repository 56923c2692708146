----------------------------- MODULE McpServerProofs -----------------------------
(* What a tool call does to the handle store and what its reply says of it, for    *)
(* every scenario, store and argument. The proofs about both agents rest on this.  *)
EXTENDS McpServer, LocalizerLemmas

Capture == [device : Nat, class : Classes]
Pools == Seq(Capture)
AmpLists == {s \in SUBSET Nat : IsFiniteSet(s)}

\* The values that a kind of handle can stand for.
ValuesOf(kind) ==
  IF kind = "meas" THEN Capture
  ELSE IF kind \in {"measset", "classset"} THEN Pools
  ELSE IF kind = "amplist" THEN AmpLists
  ELSE SUBSET Nat

StoreOK ==
  /\ scn \in Scenarios
  /\ DOMAIN store = Kinds
  /\ \A k \in Kinds : store[k] \in Seq(ValuesOf(k))

\* Has and Get on a given state of the store.
HasIn(st, h) == h[2] \in DOMAIN st[h[1]]
GetIn(st, h) == st[h[1]][h[2]]

\* No handle ever loses or changes its value.
Kept(st, next) ==
  \A k \in Kinds : \A i \in DOMAIN st[k] : i \in DOMAIN next[k] /\ next[k][i] = st[k][i]
Grows == Kept(store, store')

\* A handle of some kind that is in the store.
Live(st, h, kind) == h \in {kind} \X Nat /\ HasIn(st, h)

Failure(r) == r.status \in {"error", "raised"}

--------------------------------------------------------------------------------
\* A server starts with an empty store of the right shape.
LEMMA InitStoreOK == ServerInit => StoreOK
<1> SUFFICES ASSUME ServerInit PROVE StoreOK
  OBVIOUS
<1>1. DOMAIN store = Kinds /\ \A k \in Kinds : store[k] = <<>>
  BY DEF ServerInit
<1>2. \A S : <<>> \in Seq(S)
  OBVIOUS
<1> QED BY <1>1, <1>2 DEF ServerInit, StoreOK

\* A call that stores nothing changes no handle.
LEMMA NothingStored ==
  ASSUME StoreOK, UNCHANGED <<scn, store>>
  PROVE  StoreOK' /\ Grows
BY DEF StoreOK, Grows, Kept

\* The two ways in which a tool stores something: one more value of a kind, or several.
LEMMA PutOne ==
  ASSUME StoreOK, scn' = scn, NEW kind \in Kinds, NEW v \in ValuesOf(kind),
         store' = [store EXCEPT ![kind] = Append(@, v)]
  PROVE  /\ StoreOK' /\ Grows
         /\ \A k \in Kinds \ {kind} : store'[k] = store[k]
         /\ store'[kind] = Append(store[kind], v)
         /\ Len(store[kind]) \in Nat /\ DOMAIN store[kind] = 1 .. Len(store[kind])
         /\ DOMAIN store'[kind] = 1 .. Len(store[kind]) + 1
         /\ store'[kind][Len(store[kind]) + 1] = v
<1>1. /\ DOMAIN store' = Kinds
      /\ \A k \in Kinds \ {kind} : store'[k] = store[k]
      /\ store'[kind] = Append(store[kind], v)
  BY DEF StoreOK
<1>2. store[kind] \in Seq(ValuesOf(kind))
  BY DEF StoreOK
<1>3. store'[kind] \in Seq(ValuesOf(kind))
  BY <1>1, <1>2
<1>4. IsSeq(store[kind])
  BY <1>2, SeqIsSeq
<1>5. /\ Len(store[kind]) \in Nat /\ DOMAIN store[kind] = 1 .. Len(store[kind])
      /\ DOMAIN store'[kind] = 1 .. Len(store[kind]) + 1
      /\ \A i \in 1 .. Len(store[kind]) : store'[kind][i] = store[kind][i]
      /\ store'[kind][Len(store[kind]) + 1] = v
  BY <1>1, <1>4, AppendKeeps
<1>6. \A i \in DOMAIN store[kind] : i \in DOMAIN store'[kind] /\ store'[kind][i] = store[kind][i]
  BY <1>5
<1>7. Grows
  BY <1>1, <1>6 DEF Grows, Kept
<1>8. StoreOK'
  BY <1>1, <1>3 DEF StoreOK, ValuesOf, Pools, Capture, AmpLists
<1> QED BY <1>1, <1>5, <1>7, <1>8

\* Storing several records at once keeps the store well formed and only adds to it.
LEMMA PutMany ==
  ASSUME StoreOK, scn' = scn, DOMAIN store' = Kinds,
         NEW added, \A k \in Kinds : added[k] \in Seq(ValuesOf(k)) /\ store'[k] = store[k] \o added[k]
  PROVE  StoreOK' /\ Grows
<1>1. ASSUME NEW k \in Kinds
      PROVE  /\ store'[k] \in Seq(ValuesOf(k))
             /\ \A i \in DOMAIN store[k] : i \in DOMAIN store'[k] /\ store'[k][i] = store[k][i]
  <2>1. store[k] \in Seq(ValuesOf(k)) /\ added[k] \in Seq(ValuesOf(k))
    BY DEF StoreOK
  <2>2. store'[k] = store[k] \o added[k]
    OBVIOUS
  <2> DEFINE V == ValuesOf(k)
             old == store[k]
             more == added[k]
  <2>3. old \in Seq(V) /\ more \in Seq(V) /\ store'[k] = old \o more
    BY <2>1, <2>2
  <2> HIDE DEF V, old, more
  <2>4. old \o more \in Seq(V)
        /\ \A i \in DOMAIN old : i \in DOMAIN (old \o more) /\ (old \o more)[i] = old[i]
    BY <2>3, ConcatKeeps
  <2> QED BY <2>3, <2>4 DEF V, old
<1>2. StoreOK'
  BY <1>1 DEF StoreOK, ValuesOf, Pools, Capture, AmpLists
<1> QED BY <1>1, <1>2 DEF Grows, Kept

--------------------------------------------------------------------------------
(* The tools. A call either fails and stores nothing, or it makes one handle.     *)

Fails(codes) ==
  /\ store' = store
  /\ reply' = Raised \/ \E code \in codes : reply' = Error(code)

\* The reply names the next handle of a kind, and v is now behind it.
Makes(kind, v) ==
  /\ v \in ValuesOf(kind)
  /\ store' = [store EXCEPT ![kind] = Append(@, v)]
  /\ reply'.status = "success" /\ reply'.ref = <<kind, Len(store[kind]) + 1>>

\* Such a handle is a new one, and the only one.
LEMMA MakesKeepsStore ==
  ASSUME StoreOK, scn' = scn, NEW kind \in Kinds, NEW v, Makes(kind, v)
  PROVE  /\ StoreOK' /\ Grows
         /\ reply'.ref \in {kind} \X Nat
         /\ ~HasIn(store, reply'.ref) /\ HasIn(store', reply'.ref)
         /\ GetIn(store', reply'.ref) = v
<1> DEFINE n == Len(store[kind]) + 1
<1>1. /\ StoreOK' /\ Grows
      /\ Len(store[kind]) \in Nat /\ DOMAIN store[kind] = 1 .. Len(store[kind])
      /\ DOMAIN store'[kind] = 1 .. n
      /\ store'[kind][n] = v
  BY PutOne DEF Makes
<1>2. reply'.ref = <<kind, n>>
  BY DEF Makes
<1>3. n \in Nat /\ n \in 1 .. n /\ n \notin 1 .. Len(store[kind])
  BY <1>1
<1> HIDE DEF n
<1> QED BY <1>1, <1>2, <1>3 DEF HasIn, GetIn

\* What was behind a handle stays behind it.
LEMMA LiveIsKept ==
  ASSUME NEW st, NEW next, Kept(st, next), NEW kind \in Kinds, NEW h, Live(st, h, kind)
  PROVE  Live(next, h, kind) /\ GetIn(next, h) = GetIn(st, h)
BY DEF Kept, Live, HasIn, GetIn

\* A call that fails stores nothing and answers with one of its own error codes, or
\* raises.
LEMMA FailsKeepsStore ==
  ASSUME StoreOK, scn' = scn, NEW codes, Fails(codes)
  PROVE  StoreOK' /\ Grows /\ Failure(reply') /\ (reply' # Raised => reply'.code \in codes)
<1>1. StoreOK' /\ Grows
  BY NothingStored DEF Fails
<1> QED BY <1>1 DEF Fails, Raised, Error, Failure

\* Tool 1 meets the injected fault, or stores a capture of the RPD.
LEMMA RpdCaptured ==
  ASSUME StoreOK, NEW p, GetRPDSpectrumMeasurements(p)
  PROVE  /\ scn' = scn
         /\ \/ \E code \in RpdFault(attempts + 1) : store' = store /\ reply' = Error(code)
            \/ \E class \in Classes : Makes("meas", [device |-> RpdRef, class |-> class])
<1> USE DEF GetRPDSpectrumMeasurements
<1>1. scn' = scn
  OBVIOUS
<1>2. CASE \E code \in RpdFault(attempts + 1) : Answer(Error(code))
  BY <1>1, <1>2 DEF Answer
<1>3. CASE RpdFault(attempts + 1) = {}
  <2>1. PICK class \in scn.looks[RpdRef] :
          store' = [store EXCEPT !["meas"] = Append(@, [device |-> RpdRef, class |-> class])]
    BY <1>3
  <2>2. class \in Classes
    BY ScenariosAreTyped DEF StoreOK
  <2>3. [device |-> RpdRef, class |-> class] \in ValuesOf("meas")
    BY <2>2 DEF ValuesOf, Capture, RpdRef
  <2>4. reply' = [status |-> "success", ref |-> NextHandle("meas")]
    BY <1>3
  <2>5. Makes("meas", [device |-> RpdRef, class |-> class])
    BY <2>1, <2>3, <2>4 DEF Makes, NextHandle
  <2> QED BY <1>1, <2>2, <2>5
<1> QED BY <1>2, <1>3

\* It is met where the scenario injects one; otherwise the capture looks as the label of the
\* RPD lets it.
LEMMA RpdLooksAsLabelled ==
  ASSUME StoreOK, NEW p, GetRPDSpectrumMeasurements(p)
  PROVE  IF RpdFault(attempts + 1) # {}
         THEN \E code \in RpdFault(attempts + 1) : reply' = Error(code)
         ELSE /\ reply'.status = "success"
              /\ GetIn(store', reply'.ref).class \in scn.looks[RpdRef]
<1>1. CASE RpdFault(attempts + 1) # {}
  BY <1>1 DEF GetRPDSpectrumMeasurements, Answer
<1>2. CASE RpdFault(attempts + 1) = {}
  <2>1. PICK class \in scn.looks[RpdRef] :
          store' = [store EXCEPT !["meas"] = Append(@, [device |-> RpdRef, class |-> class])]
    BY <1>2 DEF GetRPDSpectrumMeasurements
  <2>2. class \in Classes /\ scn' = scn
    BY ScenariosAreTyped DEF StoreOK, GetRPDSpectrumMeasurements
  <2>3. [device |-> RpdRef, class |-> class] \in ValuesOf("meas")
    BY <2>2 DEF ValuesOf, Capture, RpdRef
  <2>4. reply' = [status |-> "success", ref |-> NextHandle("meas")]
    BY <1>2 DEF GetRPDSpectrumMeasurements
  <2>5. Makes("meas", [device |-> RpdRef, class |-> class])
    BY <2>1, <2>3, <2>4 DEF Makes, NextHandle
  <2>6. GetIn(store', reply'.ref) = [device |-> RpdRef, class |-> class]
    BY <2>2, <2>5, MakesKeepsStore DEF Kinds
  <2> QED BY <1>2, <2>4, <2>6
<1> QED BY <1>1, <1>2

\* A classification counts the impaired items and lists the classes that are there.
LEMMA Classified ==
  ASSUME StoreOK, NEW items \in Pools, Classify(items)
  PROVE  /\ Makes("classset", items)
         /\ reply'.impaired = Cardinality({i \in DOMAIN items : items[i].class # "Clean"})
         /\ reply'.classes = {items[i].class : i \in DOMAIN items}
<1>1. items \in ValuesOf("classset")
  BY DEF ValuesOf
<1> QED BY <1>1 DEF Classify, Makes, NextHandle

\* Tool 2 classifies the captures behind its references.
LEMMA MeasurementsAnalyzed ==
  ASSUME StoreOK, NEW refs \in Seq(Kinds \X Nat), AnalyzeMeasurements(refs)
  PROVE  LET items == [i \in DOMAIN refs |-> Get(refs[i])]
         IN  /\ UNCHANGED <<scn, attempts>>
             /\ \/ /\ Fails({"CLASSIFICATION_FAILED", "INVALID_MEASUREMENT_REF"})
                   /\ reply' = Error("INVALID_MEASUREMENT_REF") =>
                        \E i \in DOMAIN refs : ~Has(refs[i])
                   /\ reply' = Raised => \E i \in DOMAIN refs : refs[i][1] # "meas"
                \/ /\ items \in Pools /\ Classify(items)
                   /\ \A i \in DOMAIN refs : Has(refs[i]) /\ refs[i][1] = "meas"
<1> DEFINE items == [i \in DOMAIN refs |-> Get(refs[i])]
           handles == {refs[i] : i \in DOMAIN refs}
<1> USE DEF AnalyzeMeasurements, Analyze
<1>1. UNCHANGED <<scn, attempts>>
  OBVIOUS
<1>2. CASE "analyze_fails" \in scn.faults
  BY <1>1, <1>2 DEF Answer, Fails, Error, Raised
<1>3. CASE "analyze_fails" \notin scn.faults /\ \E h \in handles : ~Has(h)
  BY <1>1, <1>3 DEF Answer, Fails, Error, Raised
<1>4. CASE "analyze_fails" \notin scn.faults /\ ~(\E h \in handles : ~Has(h))
           /\ \E h \in handles : h[1] # "meas"
  BY <1>1, <1>4 DEF Answer, Fails, Error, Raised
<1>5. CASE "analyze_fails" \notin scn.faults /\ ~(\E h \in handles : ~Has(h))
           /\ ~\E h \in handles : h[1] # "meas"
  <2>1. Classify(items)
    BY <1>5
  <2>2. ASSUME NEW i \in DOMAIN refs PROVE Has(refs[i]) /\ refs[i][1] = "meas" /\ items[i] \in Capture
    <3>1. Has(refs[i]) /\ refs[i][1] = "meas"
      BY <1>5
    <3>2. store["meas"] \in Seq(Capture)
      BY DEF StoreOK, ValuesOf, Kinds
    <3>3. Get(refs[i]) \in Capture
      BY <3>1, <3>2 DEF Has, Get
    <3> QED BY <3>1, <3>3
  <2>3. items \in Pools
    <3>1. DOMAIN refs = 1 .. Len(refs) /\ Len(refs) \in Nat
      OBVIOUS
    <3>2. items \in [1 .. Len(refs) -> Capture]
      BY <2>2, <3>1
    <3> DEFINE n == Len(refs)
    <3>3. n \in Nat /\ items \in [1 .. n -> Capture]
      BY <3>1, <3>2
    <3> HIDE DEF items, n
    <3>4. items \in Seq(Capture)
      BY <3>3
    <3> QED BY <3>4 DEF Pools
  <2> QED BY <1>1, <2>1, <2>2, <2>3
<1> QED BY <1>2, <1>3, <1>4, <1>5

\* Tool 5 classifies a set of captures, or classifies a classification again.
LEMMA SetAnalyzed ==
  ASSUME StoreOK, NEW setRef \in Kinds \X Nat, AnalyzeMeasurementSet(setRef)
  PROVE  /\ UNCHANGED <<scn, attempts>>
         /\ \/ /\ Fails({"CLASSIFICATION_FAILED", "INVALID_MEASUREMENT_REF"})
               /\ reply' = Error("INVALID_MEASUREMENT_REF") => ~Has(setRef)
               /\ reply' = Raised => setRef[1] # "measset"
            \/ /\ Has(setRef) /\ setRef[1] \in {"measset", "classset"}
               /\ Get(setRef) \in Pools /\ Classify(Get(setRef))
<1> DEFINE kind == IF setRef[1] = "classset" /\ Has(setRef) /\ Get(setRef) = <<>>
                   THEN "classset" ELSE "measset"
<1>0. Analyze({setRef}, kind, Get(setRef))
  BY DEF AnalyzeMeasurementSet
<1>0a. kind \in {"measset", "classset"} /\ (setRef[1] = "measset" => kind = "measset")
  OBVIOUS
<1> HIDE DEF kind
<1> USE DEF Analyze
<1>1. UNCHANGED <<scn, attempts>>
  BY <1>0
<1>2. CASE "analyze_fails" \in scn.faults
  BY <1>0, <1>1, <1>2 DEF Answer, Fails, Error, Raised
<1>3. CASE "analyze_fails" \notin scn.faults /\ ~Has(setRef)
  BY <1>0, <1>1, <1>3 DEF Answer, Fails, Error, Raised
<1>4. CASE "analyze_fails" \notin scn.faults /\ Has(setRef) /\ setRef[1] # kind
  BY <1>0, <1>0a, <1>1, <1>4 DEF Answer, Fails, Error, Raised
<1>5. CASE "analyze_fails" \notin scn.faults /\ Has(setRef) /\ setRef[1] = kind
  <2>1. Classify(Get(setRef))
    BY <1>0, <1>5
  <2>2. store[setRef[1]] \in Seq(Pools)
    BY <1>0a, <1>5 DEF StoreOK, ValuesOf, Kinds
  <2>3. Get(setRef) \in Pools
    BY <1>5, <2>2 DEF Has, Get
  <2> QED BY <1>0a, <1>1, <1>5, <2>1, <2>3
<1> QED BY <1>2, <1>3, <1>4, <1>5

\* Tool 3 stores the amps of a segment that is there and has some.
LEMMA AmpsListed ==
  ASSUME StoreOK, NEW p, GetAllAmpsInSegment(p)
  PROVE  /\ UNCHANGED <<scn, attempts>>
         /\ \/ Fails({"TOPOLOGY_UNAVAILABLE", "INVALID_RPD_PORT", "EMPTY_SEGMENT"}) /\ reply' # Raised
            \/ /\ HasSegment(p) /\ AmpIds(Segment(p)) # {}
               /\ Makes("amplist", AmpIds(Segment(p)))
<1> USE DEF GetAllAmpsInSegment
<1>1. UNCHANGED <<scn, attempts>>
  OBVIOUS
<1>2. CASE \/ "topology_unavailable" \in scn.faults
           \/ ~HasSegment(p) \/ AmpIds(Segment(p)) = {}
  <2>1. \E code \in {"TOPOLOGY_UNAVAILABLE", "INVALID_RPD_PORT", "EMPTY_SEGMENT"} :
          store' = store /\ reply' = Error(code)
    BY <1>2 DEF Answer
  <2> QED BY <1>1, <2>1 DEF Fails, Error, Raised
<1>3. CASE ~(\/ "topology_unavailable" \in scn.faults
             \/ ~HasSegment(p) \/ AmpIds(Segment(p)) = {})
  <2>1. IsTopology(Segment(p))
    BY <1>3, ScenariosAreTyped DEF StoreOK, HasSegment, Segment
  <2>2. AmpIds(Segment(p)) \subseteq NodeIds(Segment(p))
    BY DEF AmpIds
  <2>3. IsFiniteSet(AmpIds(Segment(p))) /\ AmpIds(Segment(p)) \subseteq Nat
    BY <2>1, <2>2, FS_Subset DEF IsTopology
  <2>4. AmpIds(Segment(p)) \in ValuesOf("amplist")
    BY <2>3 DEF ValuesOf, AmpLists
  <2> QED BY <1>1, <1>3, <2>4 DEF Makes, NextHandle
<1> QED BY <1>2, <1>3

--------------------------------------------------------------------------------
(* Tool 4 stores one capture of each measurable amp, and the set of them.         *)

MakesSet(ids, items) ==
  /\ items \in Pools
  /\ store'["meas"] = store["meas"] \o items
  /\ store'["measset"] = Append(store["measset"], items)
  /\ \A k \in Kinds \ {"meas", "measset", "failed"} : store'[k] = store[k]
  /\ reply'.status \in {"success", "partial_success"}
  /\ reply'.ref = <<"measset", Len(store["measset"]) + 1>>
  /\ {items[i].device : i \in DOMAIN items} = Measurable(ids)
  /\ \A i, j \in DOMAIN items : items[i].device = items[j].device => i = j
  /\ \A i \in DOMAIN items : items[i].class \in scn.looks[items[i].device]

\* Measuring a list of amplifiers fails as a whole or stores one capture per amplifier
\* and the set of them.
LEMMA AmpsMeasured ==
  ASSUME StoreOK, scn' = scn, NEW ids \in AmpLists, MeasureIds(ids)
  PROVE  \/ Fails({"AMP_MEASUREMENTS_UNAVAILABLE"}) /\ reply' # Raised
         \/ /\ StoreOK' /\ Grows
            /\ \E items \in Pools : MakesSet(ids, items)
<1>1. CASE Measurable(ids) = {}
  BY <1>1 DEF MeasureIds, Answer, Fails, Error, Raised
<1>2. CASE Measurable(ids) # {}
  <2> DEFINE M == Measurable(ids)
             failed == ids \ M
  <2>0. MeasureAmps(ids)
    BY <1>2 DEF MeasureIds
  <2>1. M \subseteq Nat /\ IsFiniteSet(M) /\ M \subseteq DOMAIN scn.looks /\ failed \subseteq Nat
    <3>1. M \subseteq ids /\ M \subseteq DOMAIN scn.looks
      BY DEF Measurable, Labelled
    <3> QED BY <3>1, FS_Subset DEF AmpLists
  <2>2. PICK class \in Readings(M) :
          LET items == SetToSeq({[device |-> a, class |-> class[a]] : a \in M})
          IN  /\ store' = [store EXCEPT !["meas"]    = @ \o items,
                                        !["measset"] = Append(@, items),
                                        !["failed"]  = IF failed = {} THEN @ ELSE Append(@, failed)]
              /\ reply' = [status |-> IF failed = {} THEN "success" ELSE "partial_success",
                           ref |-> NextHandle("measset"), failed |-> Cardinality(failed)]
    BY <2>0 DEF MeasureAmps
  <2> DEFINE capture == [a \in M |-> [device |-> a, class |-> class[a]]]
             S == {capture[a] : a \in M}
             items == SetToSeq(S)
  <2>3. S = {[device |-> a, class |-> class[a]] : a \in M}
    OBVIOUS
  <2>4. class \in [M -> Classes]
    BY DEF Readings
  <2>5. capture \in [M -> Capture]
    BY <2>1, <2>4 DEF Capture
  <2>6. S \subseteq Capture
    <3> HIDE DEF capture
    <3> QED BY <2>5
  <2>7. IsFiniteSet(S)
    <3> HIDE DEF capture, M
    <3> QED BY <2>1, <2>5, ImageIsFinite
  <2>8. \A x \in S : x.device \in M /\ x = capture[x.device]
    OBVIOUS
  <2>9. \A a \in M : capture[a] \in S /\ capture[a].device = a
    OBVIOUS
  <2>9a. \A a \in M : capture[a].class \in scn.looks[a]
    BY DEF Readings
  <2>10. /\ store' = [store EXCEPT !["meas"]    = @ \o items,
                                   !["measset"] = Append(@, items),
                                   !["failed"]  = IF failed = {} THEN @ ELSE Append(@, failed)]
         /\ reply' = [status |-> IF failed = {} THEN "success" ELSE "partial_success",
                      ref |-> NextHandle("measset"), failed |-> Cardinality(failed)]
    BY <2>2, <2>3
  <2> HIDE DEF S, M, capture
  <2>11. /\ Cardinality(S) \in Nat /\ items \in Seq(S) /\ Len(items) = Cardinality(S)
         /\ \A i, j \in 1 .. Cardinality(S) : items[i] = items[j] => i = j
         /\ \A x \in S : \E i \in 1 .. Cardinality(S) : items[i] = x
    BY <2>7, SetToSeqLists
  <2> HIDE DEF items
  <2>12. DOMAIN items = 1 .. Cardinality(S) /\ (\A i \in DOMAIN items : items[i] \in S)
         /\ items \in Pools
    BY <2>6, <2>11 DEF Pools
  <2>13. {items[i].device : i \in DOMAIN items} = M
    <3>1. ASSUME NEW a \in M PROVE \E i \in DOMAIN items : items[i].device = a
      BY <2>9, <2>11, <2>12
    <3>2. \A i \in DOMAIN items : items[i].device \in M
      BY <2>8, <2>12
    <3> QED BY <3>1, <3>2
  <2>14. ASSUME NEW i \in DOMAIN items, NEW j \in DOMAIN items, items[i].device = items[j].device
         PROVE  i = j
    <3>1. items[i] = items[j]
      BY <2>8, <2>12, <2>14
    <3> QED BY <2>11, <2>12, <3>1
  <2> HIDE DEF failed
  <2>15. /\ DOMAIN store' = Kinds
         /\ store'["meas"] = store["meas"] \o items
         /\ store'["measset"] = Append(store["measset"], items)
         /\ store'["failed"] = IF failed = {} THEN store["failed"] ELSE Append(store["failed"], failed)
         /\ \A k \in Kinds \ {"meas", "measset", "failed"} : store'[k] = store[k]
    BY <2>10 DEF StoreOK, Kinds
  <2>16. reply'.status \in {"success", "partial_success"}
         /\ reply'.ref = <<"measset", Len(store["measset"]) + 1>>
    BY <2>10 DEF NextHandle
  <2>16a. \A i \in DOMAIN items : items[i].class \in scn.looks[items[i].device]
    BY <2>8, <2>9a, <2>12
  <2>17. MakesSet(ids, items)
    BY <2>12, <2>13, <2>14, <2>15, <2>16, <2>16a DEF MakesSet, M
  <2> DEFINE added == [k \in Kinds |->
               IF k = "meas" THEN items ELSE IF k = "measset" THEN <<items>>
               ELSE IF k = "failed" /\ failed # {} THEN <<failed>> ELSE <<>>]
  <2>18. ASSUME NEW k \in Kinds
         PROVE  added[k] \in Seq(ValuesOf(k)) /\ store'[k] = store[k] \o added[k]
    <3> DEFINE V == ValuesOf(k)
               old == store[k]
    <3>1. old \in Seq(V)
      BY DEF StoreOK
    <3>1a. /\ <<>> \in Seq(V) /\ old \o <<>> = old
           /\ \A x \in V : <<x>> \in Seq(V) /\ Append(old, x) = old \o <<x>>
      <4> HIDE DEF V, old
      <4> QED BY <3>1, AppendAsConcat
    <3>2. CASE k = "meas"
      BY <2>12, <2>15, <3>2 DEF ValuesOf, Pools
    <3>3. CASE k = "measset"
      <4>1. added[k] = <<items>> /\ items \in V
        BY <2>12, <3>3 DEF ValuesOf
      <4>2. store'[k] = Append(old, items)
        BY <2>15, <3>3
      <4> HIDE DEF added, V, old
      <4>3. added[k] \in Seq(V) /\ store'[k] = old \o added[k]
        BY <3>1a, <4>1, <4>2
      <4> QED BY <4>3 DEF V, old
    <3>4. CASE k = "failed" /\ failed # {}
      <4>1. added[k] = <<failed>> /\ failed \in V
        BY <2>1, <3>4 DEF ValuesOf, failed
      <4>2. store'[k] = Append(old, failed)
        BY <2>15, <3>4
      <4> HIDE DEF added, V, old
      <4>3. added[k] \in Seq(V) /\ store'[k] = old \o added[k]
        BY <3>1a, <4>1, <4>2
      <4> QED BY <4>3 DEF V, old
    <3>5. CASE k \notin {"meas", "measset"} /\ ~(k = "failed" /\ failed # {})
      <4>1. added[k] = <<>> /\ store'[k] = old
        BY <2>15, <3>5
      <4> HIDE DEF added, V, old
      <4>2. added[k] \in Seq(V) /\ store'[k] = old \o added[k]
        BY <3>1a, <4>1
      <4> QED BY <4>2 DEF V, old
    <3> QED BY <3>2, <3>3, <3>4, <3>5
  <2>19. StoreOK' /\ Grows
    <3> HIDE DEF added
    <3> QED BY <2>15, <2>18, PutMany
  <2> QED BY <2>12, <2>17, <2>19
<1> QED BY <1>1, <1>2

\* Tool 4 by handle measures the amps behind an amp list, and no others.
LEMMA SegmentMeasured ==
  ASSUME StoreOK, NEW h \in Kinds \X Nat, GetAmpUpstreamSpectrumMeasurements(h)
  PROVE  /\ UNCHANGED <<scn, attempts>>
         /\ \/ /\ Fails({"AMP_MEASUREMENTS_UNAVAILABLE", "INVALID_AMP_LIST_REF"})
               /\ reply' = Error("INVALID_AMP_LIST_REF") => ~Has(h)
               /\ reply' = Raised => h[1] # "amplist"
            \/ /\ StoreOK' /\ Grows
               /\ Has(h) /\ h[1] = "amplist"
               /\ \E items \in Pools : MakesSet(Get(h), items)
<1> USE DEF GetAmpUpstreamSpectrumMeasurements
<1>1. UNCHANGED <<scn, attempts>>
  OBVIOUS
<1>2. CASE ~Has(h)
  BY <1>1, <1>2 DEF Answer, Fails, Error, Raised
<1>3. CASE Has(h) /\ h[1] \notin {"amplist", "meas"}
  BY <1>1, <1>3 DEF Answer, Fails, Error, Raised
<1>4. CASE Has(h) /\ h[1] = "meas"
  <2>1. MeasureIds({}) /\ Measurable({}) = {}
    BY <1>4 DEF Measurable
  <2> QED BY <1>1, <1>4, <2>1 DEF MeasureIds, Answer, Fails, Error, Raised
<1>5. CASE Has(h) /\ h[1] = "amplist"
  <2>1. MeasureIds(Get(h))
    BY <1>5
  <2>2. store["amplist"] \in Seq(AmpLists)
    BY DEF StoreOK, ValuesOf, Kinds
  <2>3. Get(h) \in AmpLists
    BY <1>5, <2>2 DEF Has, Get
  <2>4. \/ Fails({"AMP_MEASUREMENTS_UNAVAILABLE"}) /\ reply' # Raised
        \/ /\ StoreOK' /\ Grows
           /\ \E items \in Pools : MakesSet(Get(h), items)
    BY <1>1, <2>1, <2>3, AmpsMeasured
  <2> QED BY <1>1, <1>5, <2>4 DEF Fails, Error
<1> QED BY <1>2, <1>3, <1>4, <1>5

--------------------------------------------------------------------------------
(* Tool 6 answers exactly when it can, and puts the evidence behind handles.      *)

AllClassifications(refs) == \A i \in DOMAIN refs : Has(refs[i]) /\ refs[i][1] = "classset"

Localizable(p, type, refs) ==
  /\ AllClassifications(refs)
  /\ ImpairedLabels(Pool(refs)) # {}
  /\ HasSegment(p) /\ NodeIds(Segment(p)) # {}
  /\ type \in Classes

\* What the localizer gets is what is behind the handles, in one pool.
LEMMA PoolHolds ==
  ASSUME StoreOK, NEW refs \in Seq(Kinds \X Nat), AllClassifications(refs)
  PROVE  /\ Misfits(refs) = {}
         /\ Pool(refs) \in Pools
         /\ Held(Pool(refs)) = UNION {Held(Get(refs[i])) : i \in DOMAIN refs}
<1> DEFINE n == Len(refs)
           sets == [i \in DOMAIN refs |-> Get(refs[i])]
<1>1. n \in Nat /\ DOMAIN refs = 1 .. n
  OBVIOUS
<1>2. Misfits(refs) = {}
  BY DEF Misfits, AllClassifications
<1>3. ASSUME NEW i \in DOMAIN refs PROVE Get(refs[i]) \in Pools
  <2>1. store["classset"] \in Seq(Pools)
    BY DEF StoreOK, ValuesOf, Kinds
  <2> QED BY <2>1 DEF AllClassifications, Has, Get
<1>4. Pool(refs) = FlattenSeq(sets)
  BY <1>2 DEF Pool
<1>5. sets \in [1 .. n -> Seq(Capture)] /\ DOMAIN sets = DOMAIN refs
  BY <1>1, <1>3 DEF Pools
<1>6. \A i \in DOMAIN refs : sets[i] = Get(refs[i])
  OBVIOUS
<1> HIDE DEF sets, n
<1>7. sets \in Seq(Seq(Capture))
  BY <1>1, <1>5
<1>8. /\ FlattenSeq(sets) \in Seq(Capture)
      /\ Held(FlattenSeq(sets)) = UNION {Held(sets[j]) : j \in DOMAIN sets}
  BY <1>7, FlattenSeqHolds
<1>9. {Held(sets[j]) : j \in DOMAIN sets} = {Held(Get(refs[i])) : i \in DOMAIN refs}
  BY <1>5, <1>6
<1> QED BY <1>2, <1>4, <1>8, <1>9 DEF Pools

\* The evidence of one candidate at most, in sets of amps.
LEMMA EvidenceStored ==
  ASSUME StoreOK, scn' = scn, NEW candidates, PutEvidence(candidates),
         candidates = {} \/ \E c : candidates = {c},
         \A c \in candidates : c.supporting \subseteq Nat /\ c.clean \subseteq Nat /\ c.uncertain \subseteq Nat
  PROVE  /\ StoreOK' /\ Grows
         /\ \A k \in {"meas", "measset", "classset", "amplist"} : store'[k] = store[k]
<1> DEFINE Evidence(devices) == {c[devices] : c \in {d \in candidates : d[devices] # {}}}
<1>1. ASSUME NEW devices \in {"supporting", "clean", "uncertain"}
      PROVE  SetToSeq(Evidence(devices)) \in Seq(SUBSET Nat)
  <2>1. IsFiniteSet(Evidence(devices)) /\ Evidence(devices) \subseteq SUBSET Nat
    <3>1. CASE candidates = {}
      <4>1. Evidence(devices) = {}
        BY <3>1
      <4> HIDE DEF Evidence
      <4> QED BY <4>1, FS_EmptySet
    <3>2. CASE \E c : candidates = {c}
      <4> PICK c : candidates = {c}
        BY <3>2
      <4>1. Evidence(devices) \subseteq {c[devices]}
        OBVIOUS
      <4>2. c[devices] \in SUBSET Nat
        BY <1>1
      <4>3. IsFiniteSet({c[devices]})
        BY FS_Singleton
      <4> HIDE DEF Evidence
      <4> QED BY <4>1, <4>2, <4>3, FS_Subset
    <3> QED BY <3>1, <3>2
  <2> DEFINE S == Evidence(devices)
             e == SetToSeq(S)
  <2> HIDE DEF S
  <2>2. IsFiniteSet(S) /\ S \subseteq SUBSET Nat
    BY <2>1 DEF S
  <2>3. e \in Seq(S)
    BY <2>2, SetToSeqLists
  <2> DEFINE T == SUBSET Nat
  <2>4. S \subseteq T
    BY <2>2
  <2> HIDE DEF e, T
  <2>5. e \in Seq(T)
    BY <2>3, <2>4
  <2> QED BY <2>5 DEF e, S, T
<1> DEFINE added == [k \in Kinds |->
             IF k = "supportdev" THEN SetToSeq(Evidence("supporting"))
             ELSE IF k = "cleandev" THEN SetToSeq(Evidence("clean"))
             ELSE IF k = "uncertaindev" THEN SetToSeq(Evidence("uncertain")) ELSE <<>>]
<1>2. store' = [store EXCEPT !["supportdev"]   = store["supportdev"] \o SetToSeq(Evidence("supporting")),
                             !["cleandev"]     = store["cleandev"] \o SetToSeq(Evidence("clean")),
                             !["uncertaindev"] = store["uncertaindev"] \o SetToSeq(Evidence("uncertain"))]
  BY DEF PutEvidence
<1> HIDE DEF Evidence
<1>3. ASSUME NEW k \in {"supportdev", "cleandev", "uncertaindev"}
      PROVE  added[k] \in Seq(ValuesOf(k)) /\ store'[k] = store[k] \o added[k]
  <2>1. k \in Kinds /\ ValuesOf(k) = SUBSET Nat
    BY <1>3 DEF Kinds, ValuesOf
  <2>2. added[k] \in Seq(SUBSET Nat)
    BY <1>1, <1>3, <2>1
  <2>3. store'[k] = store[k] \o added[k]
    BY <1>2, <1>3, <2>1 DEF StoreOK
  <2> QED BY <2>1, <2>2, <2>3
<1>4. DOMAIN store' = Kinds /\ \A k \in Kinds \ {"supportdev", "cleandev", "uncertaindev"} : store'[k] = store[k]
  BY <1>2 DEF StoreOK
<1>5. ASSUME NEW k \in Kinds \ {"supportdev", "cleandev", "uncertaindev"}
      PROVE  added[k] \in Seq(ValuesOf(k)) /\ store'[k] = store[k] \o added[k]
  <2> DEFINE V == ValuesOf(k)
             old == store[k]
  <2>1. old \in Seq(V)
    BY <1>5 DEF StoreOK
  <2>2. added[k] = <<>> /\ store'[k] = old
    BY <1>4, <1>5
  <2> HIDE DEF added, V, old
  <2>3. added[k] \in Seq(V) /\ store'[k] = old \o added[k]
    BY <2>1, <2>2, AppendAsConcat
  <2> QED BY <2>3 DEF V, old
<1>6. StoreOK' /\ Grows
  <2>1. \A k \in Kinds : added[k] \in Seq(ValuesOf(k)) /\ store'[k] = store[k] \o added[k]
    BY <1>3, <1>5
  <2> HIDE DEF added
  <2> QED BY <1>4, <2>1, PutMany
<1> QED BY <1>4, <1>6 DEF Kinds

\* A localization is refused with one of its codes, or stores its result and nothing
\* else, and publishes what the localizer computed from the pooled readings.
LEMMA SourceLocalized ==
  ASSUME StoreOK, NEW p, NEW type, NEW refs \in Seq(Kinds \X Nat),
         LocalizeUpstreamSpectrumImpairmentSource(p, type, refs)
  PROVE  /\ UNCHANGED <<scn, attempts>>
         /\ \/ /\ Fails({"INVALID_CLASSIFICATION_SET_REF", "NO_IMPAIRMENT_CONFIRMED",
                         "TOPOLOGY_UNAVAILABLE"})
               /\ ~Localizable(p, type, refs)
            \/ /\ Localizable(p, type, refs)
               /\ StoreOK' /\ Grows
               /\ \A k \in {"meas", "measset", "classset", "amplist"} : store'[k] = store[k]
               /\ reply' = [status |-> "success", type |-> type,
                            localization |-> PublicLocalization(Localize(Segment(p), Pool(refs)))]
<1>1. UNCHANGED <<scn, attempts>>
  BY DEF LocalizeUpstreamSpectrumImpairmentSource
<1>2. CASE \E i \in DOMAIN refs : ~Has(refs[i])
  <2>1. Answer(Error("INVALID_CLASSIFICATION_SET_REF"))
    BY <1>2 DEF LocalizeUpstreamSpectrumImpairmentSource
  <2>2. ~Localizable(p, type, refs)
    BY <1>2 DEF Localizable, AllClassifications
  <2> QED BY <1>1, <2>1, <2>2 DEF Answer, Fails
<1>3. CASE (\A i \in DOMAIN refs : Has(refs[i])) /\ Misfits(refs) # {}
  <2>1. \/ Answer(Raised) \/ Answer(Error("NO_IMPAIRMENT_CONFIRMED"))
        \/ Answer(Error("TOPOLOGY_UNAVAILABLE"))
    BY <1>3 DEF LocalizeUpstreamSpectrumImpairmentSource
  <2>2. ~Localizable(p, type, refs)
    BY <1>3 DEF Localizable, AllClassifications, Misfits
  <2> QED BY <1>1, <2>1, <2>2 DEF Answer, Fails
<1>4. CASE (\A i \in DOMAIN refs : Has(refs[i])) /\ Misfits(refs) = {}
  <2>1. AllClassifications(refs)
    BY <1>4 DEF AllClassifications, Misfits
  <2>2. CASE ~Localizable(p, type, refs)
    <3>1. \/ ImpairedLabels(Pool(refs)) = {}
          \/ ~HasSegment(p) \/ NodeIds(Segment(p)) = {} \/ type \notin Classes
      BY <2>1, <2>2 DEF Localizable
    <3>2. \/ Answer(Raised) \/ Answer(Error("NO_IMPAIRMENT_CONFIRMED"))
          \/ Answer(Error("TOPOLOGY_UNAVAILABLE"))
      BY <1>4, <3>1 DEF LocalizeUpstreamSpectrumImpairmentSource
    <3> QED BY <1>1, <2>2, <3>2 DEF Answer, Fails
  <2>3. CASE Localizable(p, type, refs)
    <3> DEFINE public == PublicLocalization(Localize(Segment(p), Pool(refs)))
    <3>1. /\ PutEvidence(public.candidates)
          /\ reply' = [status |-> "success", type |-> type, localization |-> public]
      BY <1>4, <2>3 DEF LocalizeUpstreamSpectrumImpairmentSource, Localizable
    <3>2. Pool(refs) \in Pools
      BY <2>1, PoolHolds
    <3>3. DOMAIN AmpClass(Pool(refs)) \subseteq Nat
      <4> DEFINE pool == Pool(refs)
      <4>1. pool \in Seq(Capture)
        BY <3>2 DEF Pools
      <4> HIDE DEF pool
      <4>2. \A i \in DOMAIN pool : pool[i] \in Capture
        BY <4>1
      <4>3. {pool[i].device : i \in DOMAIN pool} \subseteq Nat
        BY <4>2 DEF Capture
      <4>4. DOMAIN AmpClass(pool) \subseteq Nat
        BY <4>3, AmpsAreRead
      <4> QED BY <4>4 DEF pool
    <3>4. ImpairedAmps(Pool(refs)) \subseteq Nat
      BY <3>3 DEF ImpairedAmps
    <3>5. AmpIds(Segment(p)) \subseteq Nat
      <4>1. IsTopology(Segment(p))
        BY <2>3, ScenariosAreTyped DEF StoreOK, Localizable, HasSegment, Segment
      <4> QED BY <4>1 DEF IsTopology, AmpIds
    <3>6. /\ Localize(Segment(p), Pool(refs)).uncertain \subseteq Nat
          /\ Localize(Segment(p), Pool(refs)).boundary \subseteq Nat
      BY <3>3, <3>5, LocalizeShape
    <3>7. \A c \in public.candidates :
            c.supporting \subseteq Nat /\ c.clean \subseteq Nat /\ c.uncertain \subseteq Nat
      BY <3>4, <3>6, PublicShape
    <3>8. public.candidates = {} \/ \E c : public.candidates = {c}
      BY PublicShape
    <3> HIDE DEF public
    <3>9. /\ StoreOK' /\ Grows
          /\ \A k \in {"meas", "measset", "classset", "amplist"} : store'[k] = store[k]
      BY <1>1, <3>1, <3>7, <3>8, EvidenceStored
    <3> QED BY <1>1, <2>3, <3>1, <3>9 DEF public
  <2> QED BY <2>2, <2>3
<1> QED BY <1>2, <1>3, <1>4

================================================================================
