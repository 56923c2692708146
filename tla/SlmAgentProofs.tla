----------------------------- MODULE SlmAgentProofs -----------------------------
(* Proofs about the SLM agent, for every model behaviour that its tool schemas      *)
(* allow, every interleaving of the threads of a turn, and every number of turns,   *)
(* calls and runs.                                                                  *)
EXTENDS SlmAgent, McpServerProofs

IsTrace(tr) == tr = [calls |-> tr.calls, status |-> tr.status, label |-> tr.label]
IsJob(job) == job = [tool |-> job.tool, result |-> job.result, step |-> job.step]

\* A localize call that was answered.
Localized(call) == call.tool = "localize" /\ call.result.status = "success"

\* The state of the object, of a run and of its threads: these exist in the tools' turn
\* only, there are no more of them than calls in a turn, and a thread that still has to
\* remember holds a localization.
Control ==
  /\ pc \in {"idle", "think", "act"}
  /\ at \in Seq(Stages) /\ IsSeq(jobs) /\ Len(jobs) = Len(at)
  /\ \A t \in DOMAIN jobs : IsJob(jobs[t])
  /\ \A t \in DOMAIN jobs : at[t] = "remember" => Localized(jobs[t])
  /\ pending \in Nat /\ pending + Len(at) <= MaxBatch
  /\ raising \in BOOLEAN
  /\ pc # "act" => pending = 0 /\ at = <<>> /\ ~raising
  /\ turns \in 0 .. MaxTurns
  /\ bound \in Ports
  /\ trigger \in {{}, {"call"}, {"noCall"}}
  /\ IsTrace(trace) /\ IsSeq(trace.calls)
  /\ runs \in 0 .. MaxRuns
  /\ IsSeq(audit) /\ IsSeq(returned) /\ Len(audit) = Len(returned)
  /\ Len(returned) + (IF pc = "idle" THEN 0 ELSE 1) <= runs

\* A number that was read off the trace is still near its end: the threads and the calls
\* to come are fewer than what the turn has left.
NumbersInv ==
  /\ StepNumbersStayClose
  /\ \A t \in DOMAIN at : at[t] = "append" =>
       /\ jobs[t].step \in 1 .. Len(trace.calls) + 1
       /\ Len(trace.calls) + Len(at) + pending < jobs[t].step + MaxBatch

\* The handles that an auditor is to see, and those in the answers of some calls.
HandlesOf(st, kind) == {h \in {kind} \X Nat : HasIn(st, h)}
RpdCaptures(st) == {h \in HandlesOf(st, "meas") : GetIn(st, h).device = RpdRef}
Visible(st) ==
  HandlesOf(st, "amplist") \cup HandlesOf(st, "measset") \cup HandlesOf(st, "classset")
    \cup RpdCaptures(st)

Makers == {"rpd", "amps", "analyze", "analyzeSet", "measure", "measureById"}
Gives(call) == call.tool \in Makers /\ call.result.status \in {"success", "partial_success"}
Shown(calls) == {call.result.ref : call \in {c \in Held(calls) : Gives(c)}}

\* Each such handle is in an entry of the trace or with a thread that is about to add it.
HandlesInv == Visible(store) = Shown(trace.calls) \cup Shown(jobs)

\* A localization, computed for a port, whose evidence is captures that are in the store.
Captured(st) == Held(st["meas"])
Measured(st, sc, p, loc) ==
  loc.status = "localized" =>
    /\ AmpIds(sc.segments[p]) \subseteq {c.device : c \in Captured(st)}
    /\ \A candidate \in loc.candidates :
         candidate.supporting \subseteq {c.device : c \in {d \in Captured(st) : d.class # "Clean"}}

\* What is behind the handles of sets and classifications are captures.
PoolsAreCaptured ==
  \A k \in {"measset", "classset"} : \A i \in DOMAIN store[k] : Held(store[k][i]) \subseteq Captured(store)

\* What a result with this localization rests on in some calls.
Computed(calls, loc) ==
  \E j \in DOMAIN calls : Localized(calls[j]) /\ calls[j].result.localization = loc

\* A result, next to its record, that is "localized" only with such a computation.
ResultRests(st, sc, record, result) ==
  result.status = "localized" =>
    \E j \in DOMAIN record.trace.calls :
      LET call == record.trace.calls[j]
      IN  /\ Localized(call)
          /\ result.localization = {call.result.localization}
          /\ call.result.localization.status = "localized"
          /\ Measured(st, sc, call.port, call.result.localization)

IsLast(set) == \A l \in set : set = {l} /\ l.status \in {"localized", "low_confidence"}

EvidenceInv ==
  /\ PoolsAreCaptured
  /\ \A j \in DOMAIN trace.calls : Localized(trace.calls[j]) =>
       Measured(store, scn, trace.calls[j].port, trace.calls[j].result.localization)
  /\ \A t \in DOMAIN jobs : Localized(jobs[t]) =>
       /\ Measured(store, scn, bound, jobs[t].result.localization)
       /\ jobs[t].result.localization.status \in {"localized", "low_confidence"}
  /\ IsLast(last)
  /\ \A l \in last : Computed(trace.calls, l) \/ Computed(jobs, l)
  /\ \A i \in DOMAIN returned : ResultRests(store, scn, audit[i], returned[i])

Inv == StoreOK /\ Control /\ NumbersInv /\ HandlesInv /\ EvidenceInv

--------------------------------------------------------------------------------
(* What a call of the model does to the server.                                   *)

\* One more handle of a kind.
LEMMA HandleAdded ==
  ASSUME NEW st, NEW next, NEW kind, IsSeq(st[kind]), NEW v, next[kind] = Append(st[kind], v)
  PROVE  HandlesOf(next, kind) = HandlesOf(st, kind) \cup {<<kind, Len(st[kind]) + 1>>}
<1> DEFINE n == Len(st[kind])
<1>1. n \in Nat /\ DOMAIN st[kind] = 1 .. n /\ DOMAIN next[kind] = 1 .. n + 1
  BY AppendKeeps
<1> HIDE DEF n
<1>2. \A h \in {kind} \X Nat : HasIn(next, h) <=> HasIn(st, h) \/ h = <<kind, n + 1>>
  BY <1>1 DEF HasIn
<1>3. <<kind, n + 1>> \in {kind} \X Nat
  BY <1>1
<1> QED BY <1>2, <1>3 DEF HandlesOf, n

\* A store that kept the records of a kind has the same handles of that kind.
LEMMA SameHandles ==
  ASSUME NEW st, NEW next, NEW kind, next[kind] = st[kind]
  PROVE  HandlesOf(next, kind) = HandlesOf(st, kind)
BY DEF HandlesOf, HasIn

\* A store that kept its captures has the same captures of the RPD.
LEMMA SameRpdCaptures ==
  ASSUME NEW st, NEW next, next["meas"] = st["meas"]
  PROVE  RpdCaptures(next) = RpdCaptures(st)
BY DEF RpdCaptures, HandlesOf, HasIn, GetIn

\* No capture is lost, and no pool holds anything but captures.
LEMMA PoolsKept ==
  ASSUME Grows, PoolsAreCaptured,
         \A k \in {"measset", "classset"} : \A i \in DOMAIN store'[k] :
           i \in DOMAIN store[k] \/ Held(store'[k][i]) \subseteq Captured(store')
  PROVE  PoolsAreCaptured' /\ Captured(store) \subseteq Captured(store')
<1>1. Captured(store) \subseteq Captured(store')
  <2>1. \A i \in DOMAIN store["meas"] : i \in DOMAIN store'["meas"] /\ store'["meas"][i] = store["meas"][i]
    BY DEF Grows, Kept, Kinds
  <2> QED BY <2>1 DEF Captured, Held
<1>2. ASSUME NEW k \in {"measset", "classset"}, NEW i \in DOMAIN store'[k]
      PROVE  Held(store'[k][i]) \subseteq Captured(store')
  <2>1. CASE i \in DOMAIN store[k]
    <3>1. store'[k][i] = store[k][i]
      BY <2>1 DEF Grows, Kept, Kinds
    <3> QED BY <1>1, <2>1, <3>1 DEF PoolsAreCaptured
  <2>2. CASE i \notin DOMAIN store[k]
    BY <2>2
  <2> QED BY <2>1, <2>2
<1> QED BY <1>1, <1>2 DEF PoolsAreCaptured

\* What the auditor's view and the captures are after a call that made nothing, ...
Unseen ==
  /\ scn' = scn /\ StoreOK' /\ Grows /\ PoolsAreCaptured'
  /\ Visible(store') = Visible(store)
\* ... and after one that made the handle it answers with.
Seen ==
  /\ scn' = scn /\ StoreOK' /\ Grows /\ PoolsAreCaptured'
  /\ Visible(store') = Visible(store) \cup {reply'.ref}

\* A call that stored nothing shows the model no new handle.
LEMMA NothingSeen ==
  ASSUME StoreOK, PoolsAreCaptured, scn' = scn, store' = store
  PROVE  Unseen
<1>1. StoreOK' /\ Grows
  BY NothingStored
<1>2. PoolsAreCaptured' /\ Visible(store') = Visible(store)
  BY DEF PoolsAreCaptured
<1> QED BY <1>1, <1>2 DEF Unseen

\* A call that stored one record shows the model the handle of that record and no
\* other new one.
LEMMA OneSeen ==
  ASSUME StoreOK, PoolsAreCaptured, scn' = scn, NEW kind \in {"meas", "amplist", "classset"}, NEW v,
         Makes(kind, v), kind = "meas" => v.device = RpdRef,
         kind = "classset" => Held(v) \subseteq Captured(store)
  PROVE  Seen /\ reply'.status = "success"
<1> DEFINE n == Len(store[kind])
<1>0. /\ kind \in Kinds /\ v \in ValuesOf(kind)
      /\ store' = [store EXCEPT ![kind] = Append(@, v)]
  BY DEF Makes, Kinds
<1>1. /\ StoreOK' /\ Grows
      /\ \A k \in Kinds \ {kind} : store'[k] = store[k]
      /\ store'[kind] = Append(store[kind], v)
      /\ n \in Nat /\ DOMAIN store[kind] = 1 .. n
      /\ DOMAIN store'[kind] = 1 .. n + 1
      /\ store'[kind][n + 1] = v
  BY <1>0, PutOne
<1>2. reply'.status = "success" /\ reply'.ref = <<kind, n + 1>>
  BY DEF Makes
<1>3. IsSeq(store[kind])
  <2>1. store[kind] \in Seq(ValuesOf(kind))
    BY DEF StoreOK, Kinds
  <2> QED BY <2>1, SeqIsSeq
<1>4. HandlesOf(store', kind) = HandlesOf(store, kind) \cup {reply'.ref}
  <2> DEFINE old == store
             next == store'
  <2>1. IsSeq(old[kind]) /\ next[kind] = Append(old[kind], v)
    BY <1>1, <1>3
  <2> HIDE DEF old, next
  <2>2. HandlesOf(next, kind) = HandlesOf(old, kind) \cup {<<kind, Len(old[kind]) + 1>>}
    BY <2>1, HandleAdded
  <2> QED BY <1>2, <2>2 DEF old, next
<1> HIDE DEF n
<1>5. PoolsAreCaptured'
  <2>1. ASSUME NEW k \in {"measset", "classset"}, NEW i \in DOMAIN store'[k], i \notin DOMAIN store[k]
        PROVE  Held(store'[k][i]) \subseteq Captured(store')
    <3>1. k = kind
      BY <1>1, <2>1 DEF Kinds
    <3>2. i = n + 1
      BY <1>1, <2>1, <3>1
    <3>3. store'[k][i] = v /\ kind = "classset"
      BY <1>1, <3>1, <3>2
    <3>4. store'["meas"] = store["meas"]
      BY <1>1, <3>3 DEF Kinds
    <3> QED BY <3>3, <3>4 DEF Captured
  <2> QED BY <1>1, <2>1, PoolsKept
<1>6. CASE kind = "meas"
  <2>1. RpdCaptures(store') = RpdCaptures(store) \cup {reply'.ref}
    <3>1. GetIn(store', reply'.ref).device = RpdRef
      BY <1>1, <1>2, <1>6 DEF GetIn
    <3>2. \A h \in HandlesOf(store, "meas") : GetIn(store', h) = GetIn(store, h)
      BY <1>1 DEF HandlesOf, HasIn, GetIn, Grows, Kept, Kinds
    <3> QED BY <1>4, <1>6, <3>1, <3>2 DEF RpdCaptures
  <2>2. \A k \in {"amplist", "measset", "classset"} : HandlesOf(store', k) = HandlesOf(store, k)
    BY <1>1, <1>6, SameHandles DEF Kinds
  <2> QED BY <1>1, <1>2, <1>5, <2>1, <2>2 DEF Seen, Visible
<1>7. CASE kind \in {"amplist", "classset"}
  <2>1. RpdCaptures(store') = RpdCaptures(store)
    BY <1>1, <1>7, SameRpdCaptures DEF Kinds
  <2>2. \A k \in {"amplist", "measset", "classset"} \ {kind} : HandlesOf(store', k) = HandlesOf(store, k)
    BY <1>1, SameHandles DEF Kinds
  <2> QED BY <1>1, <1>2, <1>4, <1>5, <1>7, <2>1, <2>2 DEF Seen, Visible
<1> QED BY <1>6, <1>7

\* The captures of amps are seen as one set.
LEMMA SetSeen ==
  ASSUME StoreOK, PoolsAreCaptured, scn' = scn, StoreOK', Grows, NEW ids, NEW items \in Pools,
         MakesSet(ids, items)
  PROVE  Seen /\ reply'.status \in {"success", "partial_success"}
<1> DEFINE n == Len(store["measset"])
<1>1. /\ store'["meas"] = store["meas"] \o items
      /\ store'["measset"] = Append(store["measset"], items)
      /\ store'["classset"] = store["classset"] /\ store'["amplist"] = store["amplist"]
      /\ reply'.status \in {"success", "partial_success"}
      /\ reply'.ref = <<"measset", n + 1>>
      /\ {items[i].device : i \in DOMAIN items} = Measurable(ids)
  BY DEF MakesSet, Kinds
<1>2. /\ store["meas"] \in Seq(Capture) /\ store["measset"] \in Seq(Pools) /\ items \in Seq(Capture)
  BY DEF StoreOK, Kinds, ValuesOf, Pools
<1>3. /\ HandlesOf(store', "measset") = HandlesOf(store, "measset") \cup {reply'.ref}
      /\ n \in Nat /\ DOMAIN store["measset"] = 1 .. n
      /\ DOMAIN store'["measset"] = 1 .. n + 1 /\ store'["measset"][n + 1] = items
  <2>1. IsSeq(store["measset"])
    BY <1>2, SeqIsSeq
  <2>2. HandlesOf(store', "measset") = HandlesOf(store, "measset") \cup {reply'.ref}
    <3> DEFINE old == store
               next == store'
    <3>1. IsSeq(old["measset"]) /\ next["measset"] = Append(old["measset"], items)
      BY <1>1, <2>1
    <3> HIDE DEF old, next
    <3>2. HandlesOf(next, "measset")
            = HandlesOf(old, "measset") \cup {<<"measset", Len(old["measset"]) + 1>>}
      BY <3>1, HandleAdded
    <3> QED BY <1>1, <3>2 DEF old, next
  <2> QED BY <1>1, <2>1, <2>2, AppendKeeps
<1> HIDE DEF n
<1>4. HandlesOf(store', "classset") = HandlesOf(store, "classset")
      /\ HandlesOf(store', "amplist") = HandlesOf(store, "amplist")
  BY <1>1, SameHandles
<1>5. \A x \in Held(items) : x.device # RpdRef
  <2>1. RpdRef \notin Measurable(ids)
    BY DEF Measurable, Labelled
  <2> QED BY <1>1, <2>1 DEF Held
<1>6. /\ \A i \in DOMAIN store["meas"] : /\ i \in DOMAIN store'["meas"]
                                       /\ store'["meas"][i] = store["meas"][i]
      /\ \A i \in DOMAIN store'["meas"] : i \in DOMAIN store["meas"] \/ store'["meas"][i] \in Held(items)
      /\ Captured(store') = Captured(store) \cup Held(items)
  BY <1>1, <1>2, ConcatKeeps, ConcatHolds DEF Captured
<1>7. RpdCaptures(store') = RpdCaptures(store)
  BY <1>5, <1>6 DEF RpdCaptures, HandlesOf, HasIn, GetIn
<1>8. PoolsAreCaptured'
  <2>1. ASSUME NEW k \in {"measset", "classset"}, NEW i \in DOMAIN store'[k], i \notin DOMAIN store[k]
        PROVE  Held(store'[k][i]) \subseteq Captured(store')
    <3>1. k = "measset" /\ i = n + 1
      BY <1>1, <1>3, <2>1
    <3> QED BY <1>3, <1>6, <3>1
  <2> QED BY <2>1, PoolsKept
<1> QED BY <1>1, <1>3, <1>4, <1>7, <1>8 DEF Seen, Visible

\* A call that fails shows the auditor nothing.
LEMMA FailureUnseen ==
  ASSUME StoreOK, PoolsAreCaptured, scn' = scn, NEW codes, Fails(codes)
  PROVE  Unseen /\ reply'.status \in {"error", "raised"}
<1>1. store' = store
  BY DEF Fails
<1> QED BY <1>1, NothingSeen DEF Fails, Raised, Error

\* A localization stores evidence of its own, which no entry shows, and it says "localized"
\* only of amps that were captured.
LEMMA SourceUnseen ==
  ASSUME StoreOK, PoolsAreCaptured, NEW p, NEW type, NEW refs \in Seq(Kinds \X Nat),
         LocalizeUpstreamSpectrumImpairmentSource(p, type, refs)
  PROVE  /\ Unseen
         /\ reply'.status = "success" =>
              /\ reply'.localization.status \in {"localized", "low_confidence"}
              /\ Measured(store', scn, p, reply'.localization)
<1>1. scn' = scn
  BY SourceLocalized
<1>2. ASSUME NEW codes, Fails(codes)
      PROVE  Unseen /\ reply'.status # "success"
  BY <1>1, <1>2, FailureUnseen
<1>3. ASSUME Localizable(p, type, refs), StoreOK', Grows,
             \A k \in {"meas", "measset", "classset", "amplist"} : store'[k] = store[k],
             reply' = [status |-> "success", type |-> type,
                       localization |-> PublicLocalization(Localize(Segment(p), Pool(refs)))]
      PROVE  /\ Unseen
             /\ reply'.localization.status \in {"localized", "low_confidence"}
             /\ Measured(store', scn, p, reply'.localization)
  <2> DEFINE topo == scn.segments[p]
             pool == Pool(refs)
             loc == PublicLocalization(Localize(topo, pool))
  <2>1. reply'.localization = loc
    BY <1>3 DEF Segment
  <2>2. Visible(store') = Visible(store) /\ Captured(store') = Captured(store)
    <3>1. \A k \in {"measset", "classset", "amplist"} : HandlesOf(store', k) = HandlesOf(store, k)
      BY <1>3, SameHandles
    <3>2. RpdCaptures(store') = RpdCaptures(store)
      BY <1>3, SameRpdCaptures
    <3> QED BY <1>3, <3>1, <3>2 DEF Visible, Captured
  <2>3. PoolsAreCaptured'
    BY <1>3, <2>2 DEF PoolsAreCaptured
  <2>4. Unseen
    BY <1>1, <1>3, <2>2, <2>3 DEF Unseen
  <2>5. AllClassifications(refs)
    BY <1>3 DEF Localizable
  <2>6. pool \in Pools /\ Held(pool) = UNION {Held(Get(refs[i])) : i \in DOMAIN refs}
    BY <2>5, PoolHolds
  <2>7. Held(pool) \subseteq Captured(store)
    <3>1. \A i \in DOMAIN refs : Held(Get(refs[i])) \subseteq Captured(store)
      BY <2>5 DEF AllClassifications, Has, Get, PoolsAreCaptured
    <3> QED BY <2>6, <3>1
  <2>8. IsSeq(pool)
    <3>1. pool \in Seq(Capture)
      BY <2>6 DEF Pools
    <3> HIDE DEF pool
    <3> QED BY <3>1, SeqIsSeq
  <2> HIDE DEF topo, pool
  <2>9. loc.status \in {"localized", "low_confidence"}
    <3>1. loc.status = Localize(topo, pool).status
      BY PublicShape
    <3>2. Localize(topo, pool).status \in {"localized", "low_confidence"}
      BY LocalizeShape
    <3> QED BY <3>1, <3>2
  <2>10. \A a \in DOMAIN AmpClass(pool) :
           \E x \in Held(pool) : x.device = a /\ AmpClass(pool)[a] = x.class
    BY <2>8, AmpClassIsRead DEF Held
  <2>11. loc.status = "localized" => AmpIds(topo) \subseteq DOMAIN AmpClass(pool)
    BY <2>8, LocalizedMeans
  <2>12. \A c \in loc.candidates : c.supporting = ImpairedAmps(pool)
    BY PublicShape
  <2> HIDE DEF loc
  <2>13. Measured(store', scn, p, loc)
    <3>1. loc.status = "localized" => AmpIds(topo) \subseteq {c.device : c \in Captured(store')}
      BY <2>2, <2>7, <2>10, <2>11
    <3>2. ImpairedAmps(pool) \subseteq {c.device : c \in {d \in Captured(store') : d.class # "Clean"}}
      BY <2>2, <2>7, <2>10 DEF ImpairedAmps
    <3> QED BY <2>12, <3>1, <3>2 DEF Measured, topo
  <2> QED BY <2>1, <2>4, <2>9, <2>13
<1>4. \/ Fails({"INVALID_CLASSIFICATION_SET_REF", "NO_IMPAIRMENT_CONFIRMED", "TOPOLOGY_UNAVAILABLE"})
      \/ /\ Localizable(p, type, refs) /\ StoreOK' /\ Grows
         /\ \A k \in {"meas", "measset", "classset", "amplist"} : store'[k] = store[k]
         /\ reply' = [status |-> "success", type |-> type,
                      localization |-> PublicLocalization(Localize(Segment(p), Pool(refs)))]
  BY SourceLocalized
<1> QED BY <1>2, <1>3, <1>4

\* The handles the model may name, and the lists of them.
LEMMA HandlesAreTyped ==
  ASSUME StoreOK
  PROVE  Handles \subseteq Kinds \X Nat /\ Lists \subseteq Seq(Kinds \X Nat)
<1>1. \A k \in Kinds : Len(store[k]) \in Nat /\ DOMAIN store[k] = 1 .. Len(store[k])
  <2>1. ASSUME NEW k \in Kinds PROVE Len(store[k]) \in Nat /\ DOMAIN store[k] = 1 .. Len(store[k])
    <3>1. store[k] \in Seq(ValuesOf(k))
      BY DEF StoreOK
    <3> QED BY <3>1, SeqIsSeq
  <2> QED BY <2>1
<1>2. Given \subseteq Kinds \X Nat
  BY <1>1 DEF Given
<1>3. NextHandle("classset") \in Kinds \X Nat
  BY <1>1 DEF NextHandle, Kinds
<1>4. Handles \subseteq Kinds \X Nat
  BY <1>2, <1>3 DEF Handles
<1>5. Lists \subseteq Seq(Kinds \X Nat)
  <2>1. ASSUME NEW n \in Nat, NEW refs \in [1 .. n -> Handles] PROVE refs \in Seq(Kinds \X Nat)
    <3>1. refs \in [1 .. n -> Kinds \X Nat]
      BY <1>4
    <3> QED BY <3>1
  <2> QED BY <2>1, SlmBounds DEF Lists
<1> QED BY <1>4, <1>5

\* Whatever the model calls: what the auditor's view gains is the handle in the answer, and
\* only a localization of captured amps is answered with "localized".
LEMMA InvokeEffect ==
  ASSUME StoreOK, PoolsAreCaptured, NEW call \in Calls, Invoke(call)
  PROVE  /\ \/ Unseen /\ ~(call.tool \in Makers /\ reply'.status \in {"success", "partial_success"})
            \/ Seen /\ call.tool \in Makers /\ reply'.status \in {"success", "partial_success"}
         /\ call.tool = "localize" /\ reply'.status = "success" =>
              /\ reply'.localization.status \in {"localized", "low_confidence"}
              /\ Measured(store', scn, bound, reply'.localization)
<1> DEFINE Goal == /\ \/ /\ Unseen
                         /\ ~(call.tool \in Makers /\ reply'.status \in {"success", "partial_success"})
                      \/ /\ Seen
                         /\ call.tool \in Makers /\ reply'.status \in {"success", "partial_success"}
                   /\ call.tool = "localize" /\ reply'.status = "success" =>
                        /\ reply'.localization.status \in {"localized", "low_confidence"}
                        /\ Measured(store', scn, bound, reply'.localization)
<1> USE DEF Call
<1>0. ASSUME NEW codes, Fails(codes), scn' = scn PROVE Goal
  BY <1>0, FailureUnseen
<1>1. ASSUME call.tool \in Makers, Seen, reply'.status \in {"success", "partial_success"} PROVE Goal
  BY <1>1 DEF Makers
<1>2. ASSUME NEW items \in Pools, Classify(items), scn' = scn, Held(items) \subseteq Captured(store)
      PROVE  Seen /\ reply'.status = "success"
  <2>1. Makes("classset", items)
    BY <1>2, Classified
  <2> QED BY <1>2, <2>1, OneSeen
<1>3. ASSUME NEW ids, NEW items \in Pools, StoreOK', Grows, scn' = scn, MakesSet(ids, items)
      PROVE  Seen /\ reply'.status \in {"success", "partial_success"}
  BY <1>3, SetSeen
<1>4. \A r, codes : Answer(r) /\ r \in {Error(code) : code \in codes} => Fails(codes)
  BY DEF Answer, Fails
<1>5. CASE call.tool = "rpd"
  <2>1. GetRPDSpectrumMeasurements(bound)
    BY <1>5 DEF Invoke
  <2>2. CASE \E code \in RpdFault(attempts + 1) : store' = store /\ reply' = Error(code)
    <3>1. Fails(RpdFault(attempts + 1)) /\ scn' = scn
      BY <2>1, <2>2, RpdCaptured DEF Fails
    <3> QED BY <1>0, <3>1
  <2>3. ASSUME NEW class \in Classes, Makes("meas", [device |-> RpdRef, class |-> class])
        PROVE  Goal
    <3> DEFINE v == [device |-> RpdRef, class |-> class]
    <3>1. scn' = scn /\ v.device = RpdRef /\ Makes("meas", v)
      BY <2>1, <2>3, RpdCaptured
    <3> HIDE DEF v
    <3>2. Seen /\ reply'.status = "success"
      BY <3>1, OneSeen
    <3> QED BY <1>1, <1>5, <3>2 DEF Makers
  <2> QED BY <2>1, <2>2, <2>3, RpdCaptured
<1>6. CASE call.tool = "amps"
  <2>1. GetAllAmpsInSegment(bound)
    BY <1>6 DEF Invoke
  <2>2. scn' = scn /\ \/ Fails({"TOPOLOGY_UNAVAILABLE", "INVALID_RPD_PORT", "EMPTY_SEGMENT"})
                      \/ Makes("amplist", AmpIds(Segment(bound)))
    BY <2>1, AmpsListed
  <2>3. ASSUME Makes("amplist", AmpIds(Segment(bound))) PROVE Seen /\ reply'.status = "success"
    BY <2>2, <2>3, OneSeen
  <2> QED BY <1>0, <1>1, <1>6, <2>2, <2>3 DEF Makers
<1>7. CASE call.tool = "analyze"
  <2> DEFINE refs == call.arg
             items == [i \in DOMAIN refs |-> Get(refs[i])]
  <2>1. AnalyzeMeasurements(refs) /\ refs \in Seq(Kinds \X Nat)
    BY <1>7, HandlesAreTyped DEF Invoke, Calls
  <2>2. /\ scn' = scn
        /\ \/ Fails({"CLASSIFICATION_FAILED", "INVALID_MEASUREMENT_REF"})
           \/ /\ items \in Pools /\ Classify(items)
              /\ \A i \in DOMAIN refs : Has(refs[i]) /\ refs[i][1] = "meas"
    BY <2>1, MeasurementsAnalyzed
  <2>3. (\A i \in DOMAIN refs : Has(refs[i]) /\ refs[i][1] = "meas") => Held(items) \subseteq Captured(store)
    BY DEF Has, Get, Held, Captured
  <2> HIDE DEF items, refs
  <2> QED BY <1>0, <1>1, <1>2, <1>7, <2>2, <2>3 DEF Makers
<1>8. CASE call.tool = "analyzeSet"
  <2>1. AnalyzeMeasurementSet(call.arg) /\ call.arg \in Kinds \X Nat
    BY <1>8, HandlesAreTyped DEF Invoke, Calls
  <2>2. /\ scn' = scn
        /\ \/ Fails({"CLASSIFICATION_FAILED", "INVALID_MEASUREMENT_REF"})
           \/ /\ Has(call.arg) /\ call.arg[1] \in {"measset", "classset"}
              /\ Get(call.arg) \in Pools /\ Classify(Get(call.arg))
    BY <2>1, SetAnalyzed
  <2>3. Has(call.arg) /\ call.arg[1] \in {"measset", "classset"} => Held(Get(call.arg)) \subseteq Captured(store)
    BY DEF Has, Get, PoolsAreCaptured
  <2> QED BY <1>0, <1>1, <1>2, <1>8, <2>2, <2>3 DEF Makers
<1>9. CASE call.tool = "measure"
  <2>1. GetAmpUpstreamSpectrumMeasurements(call.arg) /\ call.arg \in Kinds \X Nat
    BY <1>9, HandlesAreTyped DEF Invoke, Calls
  <2>2. /\ scn' = scn
        /\ \/ Fails({"AMP_MEASUREMENTS_UNAVAILABLE", "INVALID_AMP_LIST_REF"})
           \/ StoreOK' /\ Grows /\ \E items \in Pools : MakesSet(Get(call.arg), items)
    BY <2>1, SegmentMeasured
  <2> QED BY <1>0, <1>1, <1>3, <1>9, <2>2 DEF Makers
<1>10. CASE call.tool = "measureById"
  <2>1. MeasureIds(call.arg) /\ scn' = scn /\ call.arg \in AmpIdLists
    BY <1>10 DEF Invoke, Calls, GetAmpMeasurementsById
  <2>2. call.arg \in AmpLists
    BY <2>1, AmpIdListsAreFinite DEF AmpLists
  <2>3. \/ Fails({"AMP_MEASUREMENTS_UNAVAILABLE"})
        \/ StoreOK' /\ Grows /\ \E items \in Pools : MakesSet(call.arg, items)
    BY <2>1, <2>2, AmpsMeasured
  <2> QED BY <1>0, <1>1, <1>3, <1>10, <2>1, <2>3 DEF Makers
<1>11. CASE call.tool \in {"analyzeNothing", "measureAmbiguous"}
  <2>1. AnalyzeNothing \/ MeasureAmbiguous
    BY <1>11 DEF Invoke
  <2>2. scn' = scn /\ \E code : Answer(Error(code))
    BY <2>1 DEF AnalyzeNothing, MeasureAmbiguous
  <2>3. PICK code : Answer(Error(code))
    BY <2>2
  <2>4. Fails({code})
    BY <2>3 DEF Answer, Fails
  <2> QED BY <1>0, <2>2, <2>4
<1>12. CASE call.tool = "localize"
  <2>1. call.arg \in Seq(Kinds \X Nat)
    BY <1>12, HandlesAreTyped DEF Calls
  <2>2. \E type : LocalizeUpstreamSpectrumImpairmentSource(bound, type, call.arg)
    BY <1>12 DEF Invoke
  <2>3. /\ Unseen
        /\ reply'.status = "success" =>
             /\ reply'.localization.status \in {"localized", "low_confidence"}
             /\ Measured(store', scn, bound, reply'.localization)
    BY <2>1, <2>2, SourceUnseen
  <2> QED BY <1>12, <2>3 DEF Makers
<1>13. call.tool \in {"rpd", "amps", "analyze", "analyzeSet", "measure", "measureById",
                      "analyzeNothing", "measureAmbiguous", "localize"}
  BY DEF Calls
<1> QED BY <1>5, <1>6, <1>7, <1>8, <1>9, <1>10, <1>11, <1>12, <1>13

--------------------------------------------------------------------------------
(* The calls in a trace, and those the threads hold.                              *)

\* One more call shows the handle that it gives.
LEMMA ShownAppends ==
  ASSUME NEW calls, IsSeq(calls), NEW call
  PROVE  Shown(Append(calls, call)) = Shown(calls) \cup {c.result.ref : c \in {d \in {call} : Gives(d)}}
<1> DEFINE more == Append(calls, call)
<1>1. Held(more) = Held(calls) \cup {call}
  BY AppendHolds
<1> HIDE DEF more
<1> QED BY <1>1 DEF Shown, more

\* It adds to what is computed.
LEMMA ComputedAppends ==
  ASSUME NEW calls, IsSeq(calls), NEW call, NEW l
  PROVE  /\ Computed(calls, l) => Computed(Append(calls, call), l)
         /\ Localized(call) /\ call.result.localization = l => Computed(Append(calls, call), l)
<1> DEFINE more == Append(calls, call)
           n == Len(calls)
<1>1. /\ n \in Nat /\ DOMAIN calls = 1 .. n /\ DOMAIN more = 1 .. n + 1
      /\ \A i \in 1 .. n : more[i] = calls[i]
      /\ more[n + 1] = call
  BY AppendKeeps
<1> HIDE DEF more, n
<1> QED BY <1>1 DEF Computed, more

\* What was measured stays measured.
LEMMA MeasuredStays ==
  ASSUME NEW st, NEW next, Captured(st) \subseteq Captured(next), NEW sc, NEW p, NEW loc,
         Measured(st, sc, p, loc)
  PROVE  Measured(next, sc, p, loc)
BY DEF Measured

\* A result that rests on captured readings still does when more has been captured.
LEMMA RestsStays ==
  ASSUME NEW st, NEW next, Captured(st) \subseteq Captured(next), NEW sc, NEW record, NEW result,
         ResultRests(st, sc, record, result)
  PROVE  ResultRests(next, sc, record, result)
BY MeasuredStays DEF ResultRests

\* Where no thread is under way, none holds a call.
LEMMA NoThreads ==
  ASSUME Control, at = <<>>
  PROVE  jobs = <<>> /\ DOMAIN jobs = {} /\ DOMAIN at = {} /\ Len(at) = 0
<1>1. IsSeq(jobs) /\ Len(jobs) = Len(at)
  BY DEF Control
<1>2. Len(at) = 0 /\ DOMAIN at = {}
  OBVIOUS
<1> DEFINE S == Held(jobs)
<1>3. jobs \in Seq(S)
  BY <1>1 DEF IsSeq
<1> HIDE DEF S
<1>4. jobs = <<>>
  BY <1>1, <1>2, <1>3
<1> QED BY <1>2, <1>4

--------------------------------------------------------------------------------
(* The steps of the threads.                                                      *)

\* A call of the model, answered: the answer is with a new thread, ...
LEMMA AnsweredKeepsControl ==
  ASSUME Control, NumbersInv, pending > 0, pending' = pending - 1,
         NEW job, IsJob(job), NEW stage \in {"remember", "number"},
         stage = "remember" => Localized(job),
         jobs' = Append(jobs, job), at' = Append(at, stage), raising' = raising,
         UNCHANGED <<pc, turns, bound, last, trace, trigger, outVars, asked, runs>>
  PROVE  Control' /\ NumbersInv'
<1> DEFINE n == Len(at)
<1>1. /\ pending \in Nat /\ pending + n <= MaxBatch /\ at \in Seq(Stages) /\ n \in Nat
      /\ IsSeq(jobs) /\ Len(jobs) = n /\ DOMAIN at = 1 .. n
      /\ pc = "act"
  BY SlmBounds DEF Control
<1>2. /\ at' \in Seq(Stages) /\ Len(at') = n + 1
      /\ DOMAIN at' = 1 .. n + 1
      /\ at'[n + 1] = stage /\ \A i \in 1 .. n : at'[i] = at[i]
  BY <1>1 DEF Stages
<1>3. /\ IsSeq(jobs') /\ Len(jobs') = n + 1
      /\ DOMAIN jobs = 1 .. n /\ DOMAIN jobs' = 1 .. n + 1
      /\ jobs'[n + 1] = job /\ \A i \in 1 .. n : jobs'[i] = jobs[i]
  BY <1>1, AppendKeeps
<1> HIDE DEF n
<1>4. /\ \A i \in DOMAIN jobs' : IsJob(jobs'[i])
      /\ \A i \in DOMAIN jobs' : at'[i] = "remember" => Localized(jobs'[i])
  BY <1>1, <1>2, <1>3 DEF Control
<1>5. pending' \in Nat /\ pending' + Len(at') <= MaxBatch
      /\ Len(at') + pending' = Len(at) + pending
  BY <1>1, <1>2 DEF n
<1>6. Control'
  BY <1>1, <1>2, <1>3, <1>4, <1>5 DEF Control, outVars
<1>7. ASSUME NEW i \in DOMAIN at', at'[i] = "append"
      PROVE  /\ jobs'[i].step \in 1 .. Len(trace'.calls) + 1
             /\ Len(trace'.calls) + Len(at') + pending' < jobs'[i].step + MaxBatch
  <2>1. i \in DOMAIN at /\ at[i] = "append" /\ jobs'[i] = jobs[i]
    BY <1>1, <1>2, <1>3, <1>7
  <2>2. /\ jobs[i].step \in 1 .. Len(trace.calls) + 1
        /\ Len(trace.calls) + Len(at) + pending < jobs[i].step + MaxBatch
    BY <2>1 DEF NumbersInv
  <2>3. Len(trace.calls) \in Nat
    <3>1. IsSeq(trace.calls)
      BY DEF Control
    <3> QED BY <3>1, SeqIsSeq DEF IsSeq
  <2>4. Len(trace.calls) + Len(at') + pending' = Len(trace.calls) + Len(at) + pending
    <3> DEFINE l == Len(trace.calls)
               a == Len(at')
               b == Len(at)
    <3>1. a \in Nat /\ b \in Nat /\ l \in Nat /\ pending \in Nat /\ pending' \in Nat
      BY <1>1, <1>2, <1>5, <2>3 DEF n
    <3>2. a + pending' = b + pending
      BY <1>5
    <3> HIDE DEF l, a, b
    <3>3. l + a + pending' = l + b + pending
      BY <3>1, <3>2
    <3> QED BY <3>3 DEF l, a, b
  <2> QED BY <2>1, <2>2, <2>4
<1>8. StepNumbersStayClose'
  BY DEF NumbersInv, StepNumbersStayClose
<1> QED BY <1>6, <1>7, <1>8 DEF NumbersInv

\* ... or it raised, and there is none.
LEMMA RaisedKeepsControl ==
  ASSUME Control, NumbersInv, pending > 0, pending' = pending - 1, raising' = TRUE,
         UNCHANGED <<at, jobs, pc, turns, bound, last, trace, trigger, outVars, asked, runs>>
  PROVE  Control' /\ NumbersInv'
<1>1. /\ pending \in Nat /\ pending + Len(at) <= MaxBatch /\ at \in Seq(Stages) /\ Len(at) \in Nat
      /\ pc = "act"
  BY SlmBounds DEF Control
<1>2. pending' \in Nat /\ pending' + Len(at') <= MaxBatch
  BY <1>1, SlmBounds
<1>3. Control'
  BY <1>1, <1>2 DEF Control, outVars
<1>4. StepNumbersStayClose'
  BY DEF NumbersInv, StepNumbersStayClose
<1>5. ASSUME NEW i \in DOMAIN at', at'[i] = "append"
      PROVE  /\ jobs'[i].step \in 1 .. Len(trace'.calls) + 1
             /\ Len(trace'.calls) + Len(at') + pending' < jobs'[i].step + MaxBatch
  <2>1. /\ jobs[i].step \in 1 .. Len(trace.calls) + 1
        /\ Len(trace.calls) + Len(at) + pending < jobs[i].step + MaxBatch
    BY <1>5 DEF NumbersInv
  <2>2. Len(trace.calls) \in Nat
    <3>1. IsSeq(trace.calls)
      BY DEF Control
    <3> QED BY <3>1, SeqIsSeq DEF IsSeq
  <2>3. jobs[i].step \in Nat
    BY <2>1, <2>2
  <2>4. Len(trace.calls) + Len(at) + (pending - 1) < jobs[i].step + MaxBatch
    BY <1>1, <2>1, <2>2, <2>3, SlmBounds
  <2> QED BY <2>1, <2>4
<1> QED BY <1>3, <1>4, <1>5 DEF NumbersInv

\* What the answer says of the evidence holds with the new store.
LEMMA CallKeepsEvidence ==
  ASSUME Control, EvidenceInv, Grows, PoolsAreCaptured', scn' = scn,
         UNCHANGED <<bound, last, trace, outVars>>,
         \/ jobs' = jobs
         \/ \E job : /\ jobs' = Append(jobs, job)
                     /\ Localized(job) =>
                          /\ Measured(store', scn, bound, job.result.localization)
                          /\ job.result.localization.status \in {"localized", "low_confidence"}
  PROVE  EvidenceInv'
<1>1. Captured(store) \subseteq Captured(store')
  <2>1. \A i \in DOMAIN store["meas"] : i \in DOMAIN store'["meas"] /\ store'["meas"][i] = store["meas"][i]
    BY DEF Grows, Kept, Kinds
  <2> QED BY <2>1 DEF Captured, Held
<1>2. ASSUME NEW j \in DOMAIN trace'.calls, Localized(trace'.calls[j])
      PROVE  Measured(store', scn', trace'.calls[j].port, trace'.calls[j].result.localization)
  BY <1>1, <1>2, MeasuredStays DEF EvidenceInv
<1>3. ASSUME NEW i \in DOMAIN returned' PROVE ResultRests(store', scn', audit'[i], returned'[i])
  BY <1>1, RestsStays DEF EvidenceInv, outVars
<1>4. \A t \in DOMAIN jobs : Localized(jobs[t]) =>
        /\ Measured(store', scn, bound, jobs[t].result.localization)
        /\ jobs[t].result.localization.status \in {"localized", "low_confidence"}
  BY <1>1, MeasuredStays DEF EvidenceInv
<1>5. /\ \A t \in DOMAIN jobs' : Localized(jobs'[t]) =>
           /\ Measured(store', scn', bound', jobs'[t].result.localization)
           /\ jobs'[t].result.localization.status \in {"localized", "low_confidence"}
      /\ \A l : Computed(jobs, l) => Computed(jobs', l)
  <2>1. CASE jobs' = jobs
    BY <1>4, <2>1
  <2>2. ASSUME NEW job, jobs' = Append(jobs, job),
               Localized(job) =>
                 /\ Measured(store', scn, bound, job.result.localization)
                 /\ job.result.localization.status \in {"localized", "low_confidence"}
        PROVE  <1>5!1 /\ <1>5!2
    <3>1. IsSeq(jobs)
      BY DEF Control
    <3> DEFINE n == Len(jobs)
    <3>2. /\ n \in Nat /\ DOMAIN jobs = 1 .. n /\ DOMAIN jobs' = 1 .. n + 1
          /\ \A i \in 1 .. n : jobs'[i] = jobs[i]
          /\ jobs'[n + 1] = job
      BY <2>2, <3>1, AppendKeeps
    <3> HIDE DEF n
    <3>3. \A l : Computed(jobs, l) => Computed(jobs', l)
      BY <2>2, <3>1, ComputedAppends
    <3>4. ASSUME NEW t \in DOMAIN jobs', Localized(jobs'[t])
          PROVE  /\ Measured(store', scn', bound', jobs'[t].result.localization)
                 /\ jobs'[t].result.localization.status \in {"localized", "low_confidence"}
      <4>1. CASE t \in 1 .. n
        BY <1>4, <3>2, <3>4, <4>1
      <4>2. CASE t = n + 1
        BY <2>2, <3>2, <3>4, <4>2
      <4> QED BY <3>2, <4>1, <4>2
    <3> QED BY <3>3, <3>4
  <2> QED BY <2>1, <2>2
<1>6. IsLast(last') /\ \A l \in last' : Computed(trace'.calls, l) \/ Computed(jobs', l)
  BY <1>5 DEF EvidenceInv
<1> QED BY <1>2, <1>3, <1>5, <1>6 DEF EvidenceInv

\* A thread makes its call.
LEMMA CallServerKeepsInv == Inv /\ CallServer => Inv'
<1> SUFFICES ASSUME Inv, CallServer PROVE Inv'
  OBVIOUS
<1> USE DEF Inv
<1>1. /\ pending > 0 /\ pending' = pending - 1
      /\ UNCHANGED <<pc, turns, bound, last, trace, trigger, outVars, asked, runs>>
  BY DEF CallServer
<1>2. PICK call \in Calls :
        /\ Invoke(call)
        /\ IF reply' = Raised THEN raising' = TRUE /\ UNCHANGED <<at, jobs>>
           ELSE /\ jobs' = Append(jobs, [tool |-> call.tool, result |-> reply', step |-> 0])
                /\ at' = Append(at, IF call.tool = "localize" /\ reply'.status = "success"
                                    THEN "remember" ELSE "number")
                /\ UNCHANGED raising
  BY DEF CallServer
<1> DEFINE job == [tool |-> call.tool, result |-> reply', step |-> 0]
<1>3. /\ \/ Unseen /\ ~Gives(job)
         \/ Seen /\ Gives(job)
      /\ Localized(job) =>
           /\ Measured(store', scn, bound, job.result.localization)
           /\ job.result.localization.status \in {"localized", "low_confidence"}
  <2>1. job.tool = call.tool /\ job.result = reply'
    OBVIOUS
  <2>2. /\ \/ Unseen /\ ~(call.tool \in Makers /\ reply'.status \in {"success", "partial_success"})
           \/ Seen /\ call.tool \in Makers /\ reply'.status \in {"success", "partial_success"}
        /\ call.tool = "localize" /\ reply'.status = "success" =>
             /\ reply'.localization.status \in {"localized", "low_confidence"}
             /\ Measured(store', scn, bound, reply'.localization)
    BY <1>2, InvokeEffect DEF EvidenceInv
  <2> HIDE DEF job
  <2> QED BY <2>1, <2>2 DEF Gives, Localized
<1>4. IsJob(job) /\ job.result = reply'
  BY DEF IsJob
<1>5. StoreOK' /\ Grows /\ PoolsAreCaptured' /\ scn' = scn
  BY <1>3 DEF Unseen, Seen
<1>6. CASE reply' = Raised
  <2>1. raising' = TRUE /\ UNCHANGED <<at, jobs>>
    BY <1>2, <1>6
  <2>2. Control' /\ NumbersInv'
    BY <1>1, <2>1, RaisedKeepsControl
  <2>3. ~Gives(job)
    BY <1>4, <1>6 DEF Gives, Raised
  <2>4. HandlesInv'
    BY <1>1, <1>3, <2>1, <2>3 DEF HandlesInv, Unseen
  <2>5. EvidenceInv'
    BY <1>1, <1>5, <2>1, CallKeepsEvidence
  <2> QED BY <1>5, <2>2, <2>4, <2>5
<1>7. CASE reply' # Raised
  <2> DEFINE stage == IF call.tool = "localize" /\ reply'.status = "success" THEN "remember" ELSE "number"
  <2>1. jobs' = Append(jobs, job) /\ at' = Append(at, stage) /\ raising' = raising
    BY <1>2, <1>7
  <2>2. stage \in {"remember", "number"} /\ (stage = "remember" => Localized(job))
    BY DEF Localized
  <2> HIDE DEF stage, job
  <2>3. Control' /\ NumbersInv'
    BY <1>1, <1>4, <2>1, <2>2, AnsweredKeepsControl
  <2>4. HandlesInv'
    <3>1. Shown(jobs') = Shown(jobs) \cup {c.result.ref : c \in {d \in {job} : Gives(d)}}
      BY <2>1, ShownAppends DEF Control
    <3>2. CASE Unseen /\ ~Gives(job)
      <4>1. {c.result.ref : c \in {d \in {job} : Gives(d)}} = {}
        BY <3>2
      <4> QED BY <1>1, <3>1, <3>2, <4>1 DEF HandlesInv, Unseen
    <3>3. CASE Seen /\ Gives(job)
      <4>1. {c.result.ref : c \in {d \in {job} : Gives(d)}} = {reply'.ref}
        BY <1>4, <3>3
      <4>2. Visible(store') = Visible(store) \cup {reply'.ref}
        BY <3>3 DEF Seen
      <4>3. Visible(store) = Shown(trace.calls) \cup Shown(jobs)
        BY DEF HandlesInv
      <4> QED BY <1>1, <3>1, <4>1, <4>2, <4>3 DEF HandlesInv
    <3> QED BY <1>3, <3>2, <3>3
  <2>5. EvidenceInv'
    BY <1>1, <1>3, <1>5, <2>1, CallKeepsEvidence
  <2> QED BY <1>5, <2>3, <2>4, <2>5
<1> QED BY <1>6, <1>7

\* A thread keeps the localization that it was answered.
LEMMA RememberKeepsInv == \A t \in DOMAIN at : Inv /\ Remember(t) => Inv'
<1> SUFFICES ASSUME NEW t \in DOMAIN at, Inv, Remember(t) PROVE Inv'
  OBVIOUS
<1> USE DEF Inv
<1>1. /\ at[t] = "remember" /\ last' = {jobs[t].result.localization}
      /\ at' = [at EXCEPT ![t] = "number"]
      /\ UNCHANGED <<scn, store, pc, pending, jobs, raising, turns, bound, trace, trigger,
                     audit, returned, runs>>
  BY DEF Remember, Move, serverVars, outVars
<1>2. /\ at \in Seq(Stages) /\ DOMAIN jobs = DOMAIN at /\ Localized(jobs[t])
  <2>1. at \in Seq(Stages) /\ IsSeq(jobs) /\ Len(jobs) = Len(at)
    BY DEF Control
  <2>2. DOMAIN jobs = DOMAIN at
    BY <2>1, SeqIsSeq DEF IsSeq
  <2> QED BY <1>1, <2>1, <2>2 DEF Control
<1>3. /\ at' \in Seq(Stages) /\ Len(at') = Len(at) /\ DOMAIN at' = DOMAIN at
      /\ at'[t] = "number" /\ \A i \in DOMAIN at \ {t} : at'[i] = at[i]
      /\ at # <<>>
  BY <1>1, <1>2 DEF Stages
<1>4. StoreOK' /\ HandlesInv'
  BY <1>1 DEF StoreOK, HandlesInv
<1>5. Control'
  <2>1. \A i \in DOMAIN jobs' : IsJob(jobs'[i]) /\ (at'[i] = "remember" => Localized(jobs'[i]))
    BY <1>1, <1>2, <1>3 DEF Control
  <2> QED BY <1>1, <1>3, <2>1 DEF Control
<1>6. NumbersInv'
  BY <1>1, <1>3 DEF NumbersInv, StepNumbersStayClose
<1>7. EvidenceInv'
  <2>1. IsLast(last')
    BY <1>1, <1>2 DEF EvidenceInv, IsLast
  <2>2. \A l \in last' : Computed(jobs', l)
    BY <1>1, <1>2 DEF Computed
  <2>3. PoolsAreCaptured'
    BY <1>1 DEF EvidenceInv, PoolsAreCaptured
  <2> QED BY <1>1, <2>1, <2>2, <2>3 DEF EvidenceInv
<1> QED BY <1>4, <1>5, <1>6, <1>7

\* A thread reads its number off the trace.
LEMMA NumberKeepsInv == \A t \in DOMAIN at : Inv /\ Number(t) => Inv'
<1> SUFFICES ASSUME NEW t \in DOMAIN at, Inv, Number(t) PROVE Inv'
  OBVIOUS
<1> USE DEF Inv
<1> DEFINE k == Len(trace.calls)
<1>1. /\ at[t] = "number" /\ jobs' = [jobs EXCEPT ![t].step = k + 1]
      /\ at' = [at EXCEPT ![t] = "append"]
      /\ UNCHANGED <<scn, store, pc, pending, raising, turns, bound, last, trace, trigger,
                     audit, returned, runs>>
  BY DEF Number, Move, serverVars, outVars
<1>2. /\ at \in Seq(Stages) /\ IsSeq(jobs) /\ Len(jobs) = Len(at) /\ DOMAIN jobs = DOMAIN at
      /\ IsJob(jobs[t]) /\ k \in Nat
  <2>1. at \in Seq(Stages) /\ IsSeq(jobs) /\ Len(jobs) = Len(at) /\ IsSeq(trace.calls)
    BY DEF Control
  <2>2. DOMAIN jobs = DOMAIN at /\ k \in Nat
    BY <2>1, SeqIsSeq DEF IsSeq
  <2> QED BY <2>1, <2>2 DEF Control
<1>3. /\ at' \in Seq(Stages) /\ Len(at') = Len(at) /\ DOMAIN at' = DOMAIN at
      /\ at'[t] = "append" /\ \A i \in DOMAIN at \ {t} : at'[i] = at[i]
      /\ at # <<>> /\ Len(at) \in Nat
  BY <1>1, <1>2 DEF Stages
<1> HIDE DEF k
<1>4. \A job, x : IsJob(job) =>
        LET next == [job EXCEPT !.step = x]
        IN  IsJob(next) /\ next.step = x /\ next.tool = job.tool /\ next.result = job.result
  BY DEF IsJob
<1>5. /\ IsSeq(jobs') /\ Len(jobs') = Len(jobs) /\ DOMAIN jobs' = DOMAIN jobs
      /\ IsJob(jobs'[t]) /\ jobs'[t].step = k + 1
      /\ jobs'[t].tool = jobs[t].tool /\ jobs'[t].result = jobs[t].result
      /\ \A i \in DOMAIN jobs \ {t} : jobs'[i] = jobs[i]
  <2> DEFINE job == [jobs[t] EXCEPT !.step = k + 1]
             S == Held(jobs) \cup {job}
  <2>1. jobs' = [jobs EXCEPT ![t] = job]
    BY <1>1
  <2>2. IsJob(job) /\ job.step = k + 1 /\ job.tool = jobs[t].tool /\ job.result = jobs[t].result
    BY <1>2, <1>4
  <2>3. jobs \in Seq(Held(jobs))
    BY <1>2 DEF IsSeq
  <2>4. Held(jobs) \subseteq S /\ job \in S
    OBVIOUS
  <2> HIDE DEF job, S
  <2>5. jobs' \in Seq(S) /\ Len(jobs') = Len(jobs) /\ DOMAIN jobs' = DOMAIN jobs
        /\ jobs'[t] = job /\ \A i \in DOMAIN jobs \ {t} : jobs'[i] = jobs[i]
    BY <1>2, <2>1, <2>3, <2>4
  <2> QED BY <2>2, <2>5, SeqIsSeq
<1>6. \A i \in DOMAIN jobs : jobs'[i].tool = jobs[i].tool /\ jobs'[i].result = jobs[i].result
  BY <1>5
<1>7. (\A i \in DOMAIN jobs : (Gives(jobs'[i]) <=> Gives(jobs[i]))
                              /\ (Localized(jobs'[i]) <=> Localized(jobs[i])))
      /\ Shown(jobs') = Shown(jobs)
  <2>1. \A i \in DOMAIN jobs : (Gives(jobs'[i]) <=> Gives(jobs[i]))
                              /\ (Localized(jobs'[i]) <=> Localized(jobs[i]))
    BY <1>6 DEF Gives, Localized
  <2>2. \A c \in Held(jobs') : Gives(c) => \E d \in Held(jobs) : Gives(d) /\ d.result.ref = c.result.ref
    BY <1>5, <1>6, <2>1 DEF Held
  <2>3. \A c \in Held(jobs) : Gives(c) => \E d \in Held(jobs') : Gives(d) /\ d.result.ref = c.result.ref
    BY <1>5, <1>6, <2>1 DEF Held
  <2> QED BY <2>1, <2>2, <2>3 DEF Shown
<1>8. StoreOK' /\ HandlesInv'
  BY <1>1, <1>7 DEF StoreOK, HandlesInv
<1>9. Control'
  <2>1. \A i \in DOMAIN jobs' : IsJob(jobs'[i]) /\ (at'[i] = "remember" => Localized(jobs'[i]))
    BY <1>2, <1>3, <1>5, <1>7 DEF Control
  <2> QED BY <1>1, <1>2, <1>3, <1>5, <2>1 DEF Control
<1>10. NumbersInv'
  <2>1. StepNumbersStayClose'
    BY <1>1 DEF NumbersInv, StepNumbersStayClose
  <2>2. ASSUME NEW i \in DOMAIN at', at'[i] = "append"
        PROVE  /\ jobs'[i].step \in 1 .. Len(trace'.calls) + 1
               /\ Len(trace'.calls) + Len(at') + pending' < jobs'[i].step + MaxBatch
    <3>1. CASE i = t
      <4>1. pending \in Nat /\ pending + Len(at) <= MaxBatch
        BY DEF Control
      <4>2. k + Len(at) + pending < (k + 1) + MaxBatch
        BY <1>2, <1>3, <4>1, SlmBounds
      <4>3. k + 1 \in 1 .. k + 1
        BY <1>2
      <4> QED BY <1>1, <1>3, <1>5, <3>1, <4>2, <4>3 DEF k
    <3>2. CASE i # t
      BY <1>1, <1>2, <1>3, <1>5, <2>2, <3>2 DEF NumbersInv
    <3> QED BY <3>1, <3>2
  <2> QED BY <2>1, <2>2 DEF NumbersInv
<1>11. EvidenceInv'
  <2>1. \A l : Computed(jobs, l) => Computed(jobs', l)
    BY <1>5, <1>6, <1>7 DEF Computed
  <2>2. PoolsAreCaptured'
    BY <1>1 DEF EvidenceInv, PoolsAreCaptured
  <2>3. \A i \in DOMAIN jobs' : Localized(jobs'[i]) =>
          /\ Measured(store, scn, bound, jobs'[i].result.localization)
          /\ jobs'[i].result.localization.status \in {"localized", "low_confidence"}
    BY <1>5, <1>6, <1>7 DEF EvidenceInv
  <2> QED BY <1>1, <2>1, <2>2, <2>3 DEF EvidenceInv
<1> QED BY <1>8, <1>9, <1>10, <1>11

\* A thread appends its entry, and is gone.
LEMMA AppendKeepsInv == \A t \in DOMAIN at : Inv /\ AppendEntry(t) => Inv'
<1> SUFFICES ASSUME NEW t \in DOMAIN at, Inv, AppendEntry(t) PROVE Inv'
  OBVIOUS
<1> USE DEF Inv
<1> DEFINE k == Len(trace.calls)
           n == Len(at)
           entry == Entry(jobs[t])
           more == Append(trace.calls, entry)
           left == RemoveAt(jobs, t)
           stages == RemoveAt(at, t)
           From(i) == IF i < t THEN i ELSE i + 1
<1>1. /\ at[t] = "append" /\ trace' = [trace EXCEPT !.calls = more]
      /\ at' = stages /\ jobs' = left
      /\ UNCHANGED <<scn, store, pc, pending, raising, turns, bound, last, trigger,
                     audit, returned, runs>>
  BY DEF AppendEntry, Leave, serverVars, outVars
<1>2. /\ at \in Seq(Stages) /\ n \in Nat /\ DOMAIN at = 1 .. n
      /\ IsSeq(jobs) /\ Len(jobs) = n /\ DOMAIN jobs = 1 .. n
      /\ IsSeq(trace.calls) /\ k \in Nat /\ DOMAIN trace.calls = 1 .. k
      /\ t \in 1 .. n /\ n # 0
  <2>1. at \in Seq(Stages) /\ IsSeq(jobs) /\ Len(jobs) = n /\ IsSeq(trace.calls)
    BY DEF Control
  <2>2. n \in Nat /\ DOMAIN at = 1 .. n
    BY <2>1
  <2>3. DOMAIN jobs = 1 .. n
    BY <2>1, SeqIsSeq DEF IsSeq
  <2>4. k \in Nat /\ DOMAIN trace.calls = 1 .. k
    BY <2>1, SeqIsSeq DEF IsSeq
  <2> QED BY <2>1, <2>2, <2>3, <2>4
<1>3. /\ at' \in Seq(Stages) /\ Len(at') = n - 1
      /\ \A i \in 1 .. n - 1 : at'[i] = at[From(i)]
  <2>1. /\ stages \in Seq(Stages) /\ Len(stages) = Len(at) - 1
        /\ \A i \in 1 .. Len(at) - 1 : stages[i] = at[IF i < t THEN i ELSE i + 1]
    BY <1>2, RemoveAtKeeps
  <2> HIDE DEF stages
  <2> QED BY <1>1, <2>1
<1>4. /\ IsSeq(jobs') /\ Len(jobs') = n - 1
      /\ \A i \in 1 .. n - 1 : jobs'[i] = jobs[From(i)]
      /\ Held(jobs) = Held(jobs') \cup {jobs[t]}
  <2> DEFINE S == Held(jobs)
  <2>1. jobs \in Seq(S) /\ t \in DOMAIN jobs
    BY <1>2 DEF IsSeq
  <2> HIDE DEF S
  <2>2. /\ left \in Seq(S) /\ Len(left) = Len(jobs) - 1
        /\ \A i \in 1 .. Len(jobs) - 1 : left[i] = jobs[IF i < t THEN i ELSE i + 1]
        /\ Held(jobs) = Held(left) \cup {jobs[t]}
    BY <2>1, RemoveAtKeeps
  <2> HIDE DEF left
  <2>3. IsSeq(left)
    BY <2>2, SeqIsSeq
  <2> QED BY <1>1, <1>2, <2>2, <2>3
<1>5. DOMAIN at' = 1 .. n - 1 /\ DOMAIN jobs' = 1 .. n - 1
      /\ \A i \in 1 .. n - 1 : From(i) \in 1 .. n
  <2>1. DOMAIN at' = 1 .. n - 1
    BY <1>3
  <2>2. DOMAIN jobs' = 1 .. n - 1
    BY <1>4, SeqIsSeq DEF IsSeq
  <2>3. \A i \in 1 .. n - 1 : From(i) \in 1 .. n
    BY <1>2
  <2> QED BY <2>1, <2>2, <2>3
<1>6. /\ IsTrace(trace') /\ trace'.calls = more
      /\ IsSeq(more) /\ Len(more) = k + 1 /\ DOMAIN more = 1 .. k + 1
      /\ \A i \in 1 .. k : more[i] = trace.calls[i]
      /\ more[k + 1] = entry
  <2>1. IsTrace(trace)
    BY DEF Control
  <2> HIDE DEF more
  <2>2. IsTrace(trace') /\ trace'.calls = more
    BY <1>1, <2>1 DEF IsTrace
  <2> QED BY <1>2, <2>2, AppendKeeps DEF more
<1>7. /\ entry.step = jobs[t].step /\ entry.tool = jobs[t].tool
      /\ entry.port = bound /\ entry.result = jobs[t].result
      /\ (Gives(entry) <=> Gives(jobs[t])) /\ (Localized(entry) <=> Localized(jobs[t]))
  BY DEF Entry, Gives, Localized
<1> HIDE DEF entry, left, stages
<1>8. StoreOK'
  BY <1>1 DEF StoreOK
<1>9. HandlesInv'
  <2>1. Shown(more) = Shown(trace.calls) \cup {c.result.ref : c \in {d \in {entry} : Gives(d)}}
    BY <1>2, ShownAppends
  <2> HIDE DEF more
  <2>2. Shown(jobs) = Shown(jobs') \cup {c.result.ref : c \in {d \in {jobs[t]} : Gives(d)}}
    BY <1>4 DEF Shown
  <2>3. {c.result.ref : c \in {d \in {entry} : Gives(d)}}
          = {c.result.ref : c \in {d \in {jobs[t]} : Gives(d)}}
    BY <1>7
  <2>4. Visible(store) = Shown(trace.calls) \cup Shown(jobs)
    BY DEF HandlesInv
  <2> QED BY <1>1, <1>6, <2>1, <2>2, <2>3, <2>4 DEF HandlesInv
<1> HIDE DEF more, From
<1>10. Control'
  <2>1. /\ \A i \in 1 .. n : IsJob(jobs[i]) /\ (at[i] = "remember" => Localized(jobs[i]))
        /\ pending \in Nat /\ pending + n <= MaxBatch
        /\ pc = "act"
    BY <1>2 DEF Control
  <2>2. \A i \in DOMAIN jobs' : IsJob(jobs'[i]) /\ (at'[i] = "remember" => Localized(jobs'[i]))
    BY <1>3, <1>4, <1>5, <2>1
  <2>3. pending' + Len(at') <= MaxBatch
    BY <1>1, <1>2, <1>3, <2>1, SlmBounds
  <2>4. Len(jobs') = Len(at')
    BY <1>3, <1>4
  <2> HIDE DEF k, n
  <2> QED BY <1>1, <1>3, <1>4, <1>6, <2>1, <2>2, <2>3, <2>4 DEF Control
<1>11. NumbersInv'
  <2>1. \A i \in 1 .. n : at[i] = "append" =>
          /\ jobs[i].step \in 1 .. k + 1
          /\ k + n + pending < jobs[i].step + MaxBatch
    BY <1>2 DEF NumbersInv
  <2>2. pending \in Nat
    BY DEF Control
  <2>3. jobs[t].step \in 1 .. k + 1 /\ k + n + pending < jobs[t].step + MaxBatch
    BY <1>1, <1>2, <2>1
  <2>4. (k + 1) - MaxBatch < jobs[t].step /\ jobs[t].step <= k + 1
    <3> DEFINE x == jobs[t].step
    <3>1. x \in 1 .. k + 1 /\ k + n + pending < x + MaxBatch
      BY <2>3
    <3> HIDE DEF x, k, n
    <3>2. x \in Nat
      BY <1>2, <3>1
    <3>3. (k + 1) - MaxBatch < x /\ x <= k + 1
      BY <1>2, <2>2, <3>1, <3>2, SlmBounds
    <3> QED BY <3>3 DEF x
  <2>5. StepNumbersStayClose'
    <3>1. \A i \in 1 .. k : i - MaxBatch < trace.calls[i].step /\ trace.calls[i].step <= i
      BY <1>2 DEF NumbersInv, StepNumbersStayClose
    <3>2. ASSUME NEW i \in 1 .. k + 1 PROVE i - MaxBatch < more[i].step /\ more[i].step <= i
      <4>1. CASE i = k + 1
        BY <1>6, <1>7, <2>4, <4>1
      <4>2. CASE i # k + 1
        <5>1. i \in 1 .. k
          BY <1>2, <4>2
        <5> QED BY <1>6, <3>1, <5>1
      <4> QED BY <4>1, <4>2
    <3> QED BY <1>6, <3>2 DEF StepNumbersStayClose
  <2>6. ASSUME NEW i \in DOMAIN at', at'[i] = "append"
        PROVE  /\ jobs'[i].step \in 1 .. Len(trace'.calls) + 1
               /\ Len(trace'.calls) + Len(at') + pending' < jobs'[i].step + MaxBatch
    <3>1. /\ jobs'[i].step \in 1 .. k + 1
          /\ k + n + pending < jobs'[i].step + MaxBatch
      BY <1>3, <1>4, <1>5, <2>1, <2>6
    <3>2. Len(trace'.calls) = k + 1 /\ Len(at') = n - 1 /\ pending' = pending
      BY <1>1, <1>3, <1>6
    <3> HIDE DEF k, n
    <3>3. (k + 1) + (n - 1) + pending = k + n + pending /\ 1 .. k + 1 \subseteq 1 .. (k + 1) + 1
      BY <1>2, <2>2
    <3> QED BY <3>1, <3>2, <3>3
  <2> QED BY <2>5, <2>6 DEF NumbersInv
<1>12. EvidenceInv'
  <2>1. PoolsAreCaptured'
    BY <1>1 DEF EvidenceInv, PoolsAreCaptured
  <2>2. ASSUME NEW j \in DOMAIN trace'.calls, Localized(trace'.calls[j])
        PROVE  Measured(store', scn', trace'.calls[j].port, trace'.calls[j].result.localization)
    <3>1. CASE j \in 1 .. k
      BY <1>1, <1>2, <1>6, <2>2, <3>1 DEF EvidenceInv
    <3>2. CASE j = k + 1
      <4>1. trace'.calls[j] = entry
        BY <1>6, <3>2
      <4>2. Measured(store, scn, bound, jobs[t].result.localization)
        BY <1>2, <1>7, <2>2, <4>1 DEF EvidenceInv
      <4> QED BY <1>1, <1>7, <4>1, <4>2
    <3> QED BY <1>2, <1>6, <3>1, <3>2
  <2>3. \A i \in DOMAIN jobs' : Localized(jobs'[i]) =>
          /\ Measured(store', scn', bound', jobs'[i].result.localization)
          /\ jobs'[i].result.localization.status \in {"localized", "low_confidence"}
    BY <1>1, <1>2, <1>4, <1>5 DEF EvidenceInv
  <2>4. ASSUME NEW l \in last' PROVE Computed(trace'.calls, l) \/ Computed(jobs', l)
    <3>1. CASE Computed(trace.calls, l)
      <4>1. Computed(more, l)
        BY <1>2, <3>1, ComputedAppends DEF more
      <4> QED BY <1>6, <4>1
    <3>2. CASE Computed(jobs, l)
      <4>1. PICK j \in DOMAIN jobs : Localized(jobs[j]) /\ jobs[j].result.localization = l
        BY <3>2 DEF Computed
      <4>2. jobs[j] \in Held(jobs') \/ jobs[j] = jobs[t]
        <5>1. jobs[j] \in Held(jobs)
          BY DEF Held
        <5> QED BY <1>4, <5>1
      <4>3. CASE jobs[j] \in Held(jobs')
        BY <4>1, <4>3 DEF Held, Computed
      <4>4. CASE jobs[j] = jobs[t]
        <5>1. Localized(entry) /\ entry.result.localization = l
          BY <1>7, <4>1, <4>4
        <5>2. Computed(more, l)
          BY <1>2, <5>1, ComputedAppends DEF more
        <5> QED BY <1>6, <5>2
      <4> QED BY <4>2, <4>3, <4>4
    <3> QED BY <1>1, <3>1, <3>2 DEF EvidenceInv
  <2> QED BY <1>1, <2>1, <2>2, <2>3, <2>4 DEF EvidenceInv
<1> QED BY <1>8, <1>9, <1>10, <1>11, <1>12

--------------------------------------------------------------------------------
(* The steps of the graph, which no thread is there to see.                       *)

\* A step between two calls, which stores nothing, keeps the invariant.
LEMMA QuietKeepsInv ==
  ASSUME Inv, at = <<>>, UNCHANGED <<scn, store, at, jobs, last>>, trace'.calls = trace.calls,
         \A i \in DOMAIN returned' : ResultRests(store, scn, audit'[i], returned'[i]), Control'
  PROVE  Inv'
<1> USE DEF Inv
<1>1. jobs = <<>> /\ DOMAIN jobs = {} /\ DOMAIN at = {}
  BY NoThreads
<1>2. StoreOK' /\ HandlesInv'
  BY DEF StoreOK, HandlesInv
<1>3. NumbersInv'
  BY <1>1 DEF NumbersInv, StepNumbersStayClose
<1>4. EvidenceInv'
  <2>1. PoolsAreCaptured'
    BY DEF EvidenceInv, PoolsAreCaptured
  <2> QED BY <1>1, <2>1 DEF EvidenceInv
<1> QED BY <1>2, <1>3, <1>4

\* The end of a run: a result comes with its record, or there is neither.
LEMMA FinishKeeps ==
  ASSUME Inv, NEW status, NEW loc, NEW handoff, NEW tr, NEW trig, Finish(status, loc, handoff, tr, trig),
         ResultRests(store, scn, [trace |-> tr, trigger |-> trig],
                     [status |-> status, localization |-> loc, handoff |-> handoff])
  PROVE  /\ IsSeq(audit') /\ IsSeq(returned') /\ Len(audit') = Len(returned')
         /\ Len(returned') \in Nat /\ Len(returned') <= Len(returned) + 1
         /\ \A i \in DOMAIN returned' : ResultRests(store, scn, audit'[i], returned'[i])
<1> DEFINE n == Len(returned)
           record == [trace |-> tr, trigger |-> trig]
           result == [status |-> status, localization |-> loc, handoff |-> handoff]
<1>1. /\ IsSeq(audit) /\ IsSeq(returned) /\ Len(audit) = n
      /\ \A i \in DOMAIN returned : ResultRests(store, scn, audit[i], returned[i])
      /\ ResultRests(store, scn, record, result)
  BY DEF Inv, Control, EvidenceInv
<1>2. n \in Nat /\ DOMAIN returned = 1 .. n
  BY <1>1, AppendKeeps
<1>3. \/ audit' = Append(audit, record) /\ returned' = Append(returned, result)
      \/ audit' = audit /\ returned' = returned
  BY DEF Finish, outVars
<1> HIDE DEF n, record, result
<1>4. CASE audit' = Append(audit, record) /\ returned' = Append(returned, result)
  <2>1. /\ IsSeq(audit') /\ Len(audit') = n + 1
        /\ \A i \in 1 .. n : audit'[i] = audit[i]
        /\ audit'[n + 1] = record
    BY <1>1, <1>4, AppendKeeps
  <2>2. /\ IsSeq(returned') /\ Len(returned') = n + 1 /\ DOMAIN returned' = 1 .. n + 1
        /\ \A i \in 1 .. n : returned'[i] = returned[i]
        /\ returned'[n + 1] = result
    BY <1>1, <1>4, AppendKeeps DEF n
  <2>3. \A i \in 1 .. n + 1 : i \in 1 .. n \/ i = n + 1
    BY <1>2
  <2> QED BY <1>1, <1>2, <2>1, <2>2, <2>3 DEF n
<1>5. CASE audit' = audit /\ returned' = returned
  BY <1>1, <1>2, <1>5 DEF n
<1> QED BY <1>3, <1>4, <1>5

\* The model asks, the tools have answered, the graph fails.
LEMMA GraphKeepsInv == Inv /\ (AskTools \/ JoinTools \/ GraphFails) => Inv'
<1> SUFFICES ASSUME Inv, AskTools \/ JoinTools \/ GraphFails PROVE Inv'
  OBVIOUS
<1>1. /\ at = <<>> /\ UNCHANGED <<scn, store, at, jobs, last, trace, audit, returned, bound, trigger, runs>>
      /\ pc # "idle"
  <2>1. CASE AskTools
    BY <2>1 DEF AskTools, Inv, Control, serverVars, outVars
  <2>2. CASE JoinTools
    BY <2>2 DEF JoinTools, serverVars, outVars
  <2>3. CASE GraphFails
    BY <2>3 DEF GraphFails, Inv, Control, serverVars, callVars, outVars
  <2> QED BY <2>1, <2>2, <2>3
<1>2. \A i \in DOMAIN returned' : ResultRests(store, scn, audit'[i], returned'[i])
  BY <1>1 DEF Inv, EvidenceInv
<1>3. /\ Len(at) = 0 /\ at \in Seq(Stages) /\ pending \in Nat /\ pending + Len(at) <= MaxBatch
      /\ turns \in 0 .. MaxTurns /\ Len(returned) \in Nat /\ runs \in Nat
      /\ Len(returned) + 1 <= runs
      /\ DOMAIN jobs = {}
  <2>1. IsSeq(returned)
    BY DEF Inv, Control
  <2>2. Len(returned) \in Nat
    BY <2>1, SeqIsSeq DEF IsSeq
  <2>3. Len(at) = 0 /\ DOMAIN jobs = {}
    BY <1>1, NoThreads DEF Inv
  <2> QED BY <1>1, <2>2, <2>3 DEF Inv, Control
<1>4. /\ pc' \in {"idle", "think", "act"} /\ raising' \in BOOLEAN
      /\ pending' \in Nat /\ pending' <= MaxBatch
      /\ pc' # "act" => pending' = 0 /\ ~raising'
      /\ turns' \in 0 .. MaxTurns
  <2>1. CASE AskTools
    BY <1>3, <2>1, SlmBounds DEF AskTools, Inv, Control
  <2>2. CASE JoinTools
    <3>1. pc' \in {"idle", "think"} /\ raising' = FALSE /\ pending' = 0 /\ turns' = turns
      BY <2>2 DEF JoinTools
    <3>2. turns' \in 0 .. MaxTurns
      BY <1>3, <3>1
    <3>3. 0 \in Nat /\ 0 <= MaxBatch
      BY SlmBounds
    <3> QED BY <3>1, <3>2, <3>3
  <2>3. CASE GraphFails
    BY <1>3, <2>3, SlmBounds DEF GraphFails, Inv, Control, callVars
  <2> QED BY <2>1, <2>2, <2>3
<1>5. pending' + Len(at') <= MaxBatch
  BY <1>1, <1>3, <1>4
<1>6. Len(returned') + (IF pc' = "idle" THEN 0 ELSE 1) <= runs'
  BY <1>1, <1>3
<1>7. Control'
  BY <1>1, <1>3, <1>4, <1>5, <1>6 DEF Inv, Control
<1> QED BY <1>1, <1>2, <1>7, QuietKeepsInv

\* A run begins, for the port of its alarm or for the last one.
LEMMA BeginKeepsInv == Inv /\ (Run \/ \E alarm \in Alarms : RunFromAlarm(alarm)) => Inv'
<1> SUFFICES ASSUME Inv, Run \/ \E alarm \in Alarms : RunFromAlarm(alarm) PROVE Inv'
  OBVIOUS
<1>1. /\ Begin
      /\ bound' \in Ports /\ trigger' \in {{}, {"call"}, {"noCall"}}
  <2>1. CASE Run
    BY <2>1 DEF Run, Inv, Control
  <2>2. CASE \E alarm \in Alarms : RunFromAlarm(alarm)
    BY <2>2, SlmAlarmsNamePorts DEF RunFromAlarm, Verdict
  <2> QED BY <2>1, <2>2
<1>2. /\ pc = "idle" /\ runs < MaxRuns /\ runs' = runs + 1 /\ pc' = "think" /\ turns' = 0
      /\ UNCHANGED <<scn, store, pending, at, jobs, raising, last, trace, audit, returned>>
  BY <1>1 DEF Begin, serverVars, callVars, outVars
<1>3. at = <<>>
  BY <1>2 DEF Inv, Control
<1>4. DOMAIN jobs = {}
  BY <1>3, NoThreads DEF Inv
<1>5. \A i \in DOMAIN returned' : ResultRests(store, scn, audit'[i], returned'[i])
  BY <1>2 DEF Inv, EvidenceInv
<1>6. /\ runs' \in 0 .. MaxRuns /\ turns' \in 0 .. MaxTurns
      /\ Len(returned') + (IF pc' = "idle" THEN 0 ELSE 1) <= runs'
  <2>1. IsSeq(returned)
    BY DEF Inv, Control
  <2>2. Len(returned) \in Nat
    BY <2>1, SeqIsSeq DEF IsSeq
  <2>3. Len(returned) <= runs /\ runs \in 0 .. MaxRuns
    BY <1>2, <2>2 DEF Inv, Control
  <2> QED BY <1>2, <2>2, <2>3, SlmBounds
<1>7. Control'
  BY <1>1, <1>2, <1>3, <1>4, <1>6 DEF Inv, Control
<1> QED BY <1>2, <1>3, <1>5, <1>7, QuietKeepsInv

\* An alarm is turned away, which is a result of its own.
LEMMA RejectKeepsInv == \A alarm \in Alarms : Inv /\ RejectAlarm(alarm) => Inv'
<1> SUFFICES ASSUME NEW alarm \in Alarms, Inv, RejectAlarm(alarm) PROVE Inv'
  OBVIOUS
<1> DEFINE tr == [trace EXCEPT !.status = "not_triggered"]
<1>1. /\ pc = "idle" /\ runs < MaxRuns /\ runs' = runs + 1
      /\ trigger' \in {{}, {"call"}, {"noCall"}}
      /\ Finish("not_triggered", {}, FALSE, tr, trigger')
      /\ trace' = tr
      /\ UNCHANGED <<scn, store, pc, pending, at, jobs, raising, turns, bound, last>>
  BY DEF RejectAlarm, Verdict, serverVars, callVars, Finish
<1>2. tr.calls = trace.calls /\ IsTrace(tr)
  <2>1. IsTrace(trace)
    BY DEF Inv, Control
  <2> QED BY <2>1 DEF IsTrace
<1> HIDE DEF tr
<1>3. ResultRests(store, scn, [trace |-> tr, trigger |-> trigger'],
                  [status |-> "not_triggered", localization |-> {}, handoff |-> FALSE])
  BY DEF ResultRests
<1>4. /\ IsSeq(audit') /\ IsSeq(returned') /\ Len(audit') = Len(returned')
      /\ Len(returned') \in Nat /\ Len(returned') <= Len(returned) + 1
      /\ \A i \in DOMAIN returned' : ResultRests(store, scn, audit'[i], returned'[i])
  BY <1>1, <1>3, FinishKeeps
<1>5. at = <<>>
  BY <1>1 DEF Inv, Control
<1>6. runs' \in 0 .. MaxRuns /\ Len(returned') + (IF pc' = "idle" THEN 0 ELSE 1) <= runs'
  <2>1. IsSeq(returned)
    BY DEF Inv, Control
  <2>2. Len(returned) \in Nat
    BY <2>1, SeqIsSeq DEF IsSeq
  <2>3. Len(returned) <= runs /\ runs \in 0 .. MaxRuns
    BY <1>1, <2>2 DEF Inv, Control
  <2> QED BY <1>1, <1>4, <2>2, <2>3, SlmBounds
<1>7. Control'
  BY <1>1, <1>2, <1>4, <1>6 DEF Inv, Control
<1> QED BY <1>1, <1>2, <1>4, <1>5, <1>7, QuietKeepsInv

\* The model stops: the run ends with what the toolset remembers.
LEMMA ConcludeKeepsInv == Inv /\ Conclude => Inv'
<1> SUFFICES ASSUME Inv, Conclude PROVE Inv'
  OBVIOUS
<1> DEFINE tr == [trace EXCEPT !.status = LastStatus,
                               !.label = IF LastStatus # "localized" THEN "negative" ELSE @]
<1>1. /\ pc = "think" /\ pc' = "idle"
      /\ Finish(LastStatus, last, LastStatus # "localized", tr, trigger)
      /\ trace' = tr
      /\ UNCHANGED <<scn, store, pending, at, jobs, raising, turns, bound, last, trigger, runs>>
  BY DEF Conclude, Finish, serverVars, callVars
<1>2. tr.calls = trace.calls /\ IsTrace(tr)
  <2> DEFINE x == LastStatus
             y == IF LastStatus # "localized" THEN "negative" ELSE trace.label
  <2>1. tr = [trace EXCEPT !.status = x, !.label = y]
    BY DEF Inv, Control, IsTrace
  <2> HIDE DEF x, y, tr
  <2>2. IsTrace(trace)
    BY DEF Inv, Control
  <2> QED BY <2>1, <2>2 DEF IsTrace
<1>3. at = <<>>
  BY <1>1 DEF Inv, Control
<1>4. DOMAIN jobs = {}
  BY <1>3, NoThreads DEF Inv
<1> HIDE DEF tr
<1>5. ResultRests(store, scn, [trace |-> tr, trigger |-> trigger],
                  [status |-> LastStatus, localization |-> last, handoff |-> LastStatus # "localized"])
  <2> SUFFICES ASSUME LastStatus = "localized"
               PROVE  \E j \in DOMAIN trace.calls :
                        LET call == trace.calls[j]
                        IN  /\ Localized(call)
                            /\ last = {call.result.localization}
                            /\ call.result.localization.status = "localized"
                            /\ Measured(store, scn, call.port, call.result.localization)
    BY <1>2 DEF ResultRests
  <2>1. PICK l : last = {l} /\ l.status = "localized"
    <3>1. last # {}
      BY DEF LastStatus
    <3>2. PICK l \in last : last = {l}
      BY <3>1 DEF Inv, EvidenceInv, IsLast
    <3>3. (CHOOSE m \in last : TRUE) = l
      BY <3>2
    <3> QED BY <3>1, <3>2, <3>3 DEF LastStatus
  <2>2. Computed(trace.calls, l)
    BY <1>4, <2>1 DEF Inv, EvidenceInv, Computed
  <2>3. PICK j \in DOMAIN trace.calls :
          Localized(trace.calls[j]) /\ trace.calls[j].result.localization = l
    BY <2>2 DEF Computed
  <2>4. Measured(store, scn, trace.calls[j].port, trace.calls[j].result.localization)
    BY <2>3 DEF Inv, EvidenceInv
  <2> QED BY <2>1, <2>3, <2>4
<1>6. /\ IsSeq(audit') /\ IsSeq(returned') /\ Len(audit') = Len(returned')
      /\ Len(returned') \in Nat /\ Len(returned') <= Len(returned) + 1
      /\ \A i \in DOMAIN returned' : ResultRests(store, scn, audit'[i], returned'[i])
  BY <1>1, <1>5, FinishKeeps
<1>7. Len(returned') + (IF pc' = "idle" THEN 0 ELSE 1) <= runs'
  <2>1. IsSeq(returned)
    BY DEF Inv, Control
  <2>2. Len(returned) \in Nat
    BY <2>1, SeqIsSeq DEF IsSeq
  <2>3. Len(returned) + 1 <= runs /\ runs \in 0 .. MaxRuns
    BY <1>1, <2>2 DEF Inv, Control
  <2> QED BY <1>1, <1>6, <2>2, <2>3, SlmBounds
<1>8. Control'
  BY <1>1, <1>2, <1>3, <1>6, <1>7 DEF Inv, Control
<1> QED BY <1>1, <1>2, <1>3, <1>6, <1>8, QuietKeepsInv

--------------------------------------------------------------------------------
(* The theorems. *)

\* Facts about the empty sequence.
LEMMA NoElements ==
  IsSeq(<<>>) /\ DOMAIN <<>> = {} /\ Len(<<>>) = 0 /\ \A S : <<>> \in Seq(S)
BY DEF IsSeq

\* The invariant holds before the first run: there is no handle, no call and no thread.
LEMMA InitHolds == Init => Inv
<1> SUFFICES ASSUME Init PROVE Inv
  OBVIOUS
<1>1. /\ ServerInit /\ StoreOK
      /\ pc = "idle" /\ pending = 0 /\ at = <<>> /\ jobs = <<>> /\ raising = FALSE
      /\ turns = 0 /\ bound = HomePort /\ last = {} /\ trigger = {}
      /\ IsTrace(trace) /\ trace.calls = <<>>
      /\ audit = <<>> /\ returned = <<>> /\ runs = 0
  BY InitStoreOK DEF Init, IsTrace
<1>2. IsSeq(<<>>) /\ DOMAIN <<>> = {} /\ Len(<<>>) = 0 /\ <<>> \in Seq(Stages)
  BY NoElements
<1>3. Control
  <2>1. /\ pc \in {"idle", "think", "act"} /\ raising \in BOOLEAN
        /\ trigger \in {{}, {"call"}, {"noCall"}} /\ bound \in Ports
    BY <1>1, HomePortIsPort
  <2>2. /\ pending \in Nat /\ pending + Len(at) <= MaxBatch
        /\ turns \in 0 .. MaxTurns /\ runs \in 0 .. MaxRuns
        /\ Len(returned) + (IF pc = "idle" THEN 0 ELSE 1) <= runs
    BY <1>1, <1>2, SlmBounds
  <2>3. /\ at \in Seq(Stages) /\ IsSeq(jobs) /\ Len(jobs) = Len(at) /\ DOMAIN jobs = {}
        /\ IsSeq(trace.calls) /\ IsSeq(audit) /\ IsSeq(returned) /\ Len(audit) = Len(returned)
    BY <1>1, <1>2
  <2>4. pc # "act" => pending = 0 /\ at = <<>> /\ ~raising
    BY <1>1
  <2> QED BY <1>1, <2>1, <2>2, <2>3, <2>4 DEF Control
<1>4. NumbersInv
  BY <1>1, <1>2 DEF NumbersInv, StepNumbersStayClose
<1>5. HandlesInv
  <2>1. \A k \in Kinds : store[k] = <<>>
    BY <1>1 DEF ServerInit
  <2>2. \A k \in Kinds : HandlesOf(store, k) = {}
    BY <1>2, <2>1 DEF HandlesOf, HasIn
  <2>3. Visible(store) = {}
    BY <2>2 DEF Visible, RpdCaptures, Kinds
  <2>4. Shown(<<>>) = {}
    BY <1>2 DEF Shown, Held
  <2> QED BY <1>1, <2>3, <2>4 DEF HandlesInv
<1>6. EvidenceInv
  <2>1. \A k \in {"measset", "classset"} : store[k] = <<>>
    BY <1>1 DEF ServerInit, Kinds
  <2>2. PoolsAreCaptured
    BY <1>2, <2>1 DEF PoolsAreCaptured
  <2> QED BY <1>1, <1>2, <2>2 DEF EvidenceInv, IsLast
<1> QED BY <1>1, <1>3, <1>4, <1>5, <1>6 DEF Inv

\* Every step keeps the invariant.
LEMMA StepKeepsInv == Inv /\ [Next]_vars => Inv'
<1> SUFFICES ASSUME Inv, [Next]_vars PROVE Inv'
  OBVIOUS
<1>1. CASE Run \/ \E alarm \in Alarms : RunFromAlarm(alarm)
  BY <1>1, BeginKeepsInv
<1>2. CASE \E alarm \in Alarms : RejectAlarm(alarm)
  BY <1>2, RejectKeepsInv
<1>3. CASE AskTools \/ JoinTools \/ GraphFails
  BY <1>3, GraphKeepsInv
<1>4. CASE Conclude
  BY <1>4, ConcludeKeepsInv
<1>5. CASE ThreadStep
  <2>1. CASE CallServer
    BY <2>1, CallServerKeepsInv
  <2>2. ASSUME NEW t \in DOMAIN at, Remember(t) \/ Number(t) \/ AppendEntry(t) PROVE Inv'
    BY <2>2, RememberKeepsInv, NumberKeepsInv, AppendKeepsInv
  <2> QED BY <1>5, <2>1, <2>2 DEF ThreadStep
<1>6. CASE UNCHANGED vars
  <2>1. /\ UNCHANGED <<scn, store, pc, pending, at, jobs, raising, turns, bound, last, trace>>
        /\ UNCHANGED <<trigger, audit, returned, runs>>
    BY <1>6 DEF vars, serverVars, agentVars, callVars, outVars
  <2>2. StoreOK' /\ NumbersInv' /\ HandlesInv'
    BY <2>1 DEF Inv, StoreOK, NumbersInv, StepNumbersStayClose, HandlesInv
  <2>3. Control'
    BY <2>1 DEF Inv, Control
  <2>4. EvidenceInv'
    BY <2>1 DEF Inv, EvidenceInv, PoolsAreCaptured
  <2> QED BY <2>2, <2>3, <2>4 DEF Inv
<1> QED BY <1>1, <1>2, <1>3, <1>4, <1>5, <1>6 DEF Next, Stopped

\* The inductive invariant, which everything below follows from.
THEOREM InvHolds == Spec => []Inv
BY InitHolds, StepKeepsInv, PTL DEF Spec

\* Threads exist in the tools' turn only and no more of them than calls, what the toolset
\* remembers is one localization, and every record has its result.
THEOREM TypeCorrect == Spec => []TypeOK
<1>1. Inv => TypeOK
  <2> SUFFICES ASSUME Inv PROVE TypeOK
    OBVIOUS
  <2> DEFINE n == Len(at)
  <2>1. /\ at \in Seq(Stages) /\ IsSeq(jobs) /\ Len(jobs) = n
        /\ pending \in Nat /\ pending + n <= MaxBatch
    BY DEF Inv, Control
  <2>2. n \in Nat /\ at \in [1 .. n -> Stages] /\ DOMAIN at = 1 .. n
    BY <2>1
  <2>3. DOMAIN jobs = DOMAIN at
    BY <2>1, <2>2, SeqIsSeq DEF IsSeq
  <2> HIDE DEF n
  <2>4. n \in 0 .. MaxBatch
    BY <2>1, <2>2, SlmBounds
  <2>5. at \in UNION {[1 .. m -> Stages] : m \in 0 .. MaxBatch}
    BY <2>2, <2>4
  <2>6. \A l \in last : l.status \in {"localized", "low_confidence"}
    BY DEF Inv, EvidenceInv, IsLast
  <2>7. Len(returned) <= runs
    <3>1. IsSeq(returned)
      BY DEF Inv, Control
    <3>2. Len(returned) \in Nat
      BY <3>1, SeqIsSeq DEF IsSeq
    <3>3. Len(returned) + (IF pc = "idle" THEN 0 ELSE 1) <= runs /\ runs \in 0 .. MaxRuns
      BY DEF Inv, Control
    <3> QED BY <3>2, <3>3, SlmBounds
  <2> QED BY <2>1, <2>3, <2>5, <2>6, <2>7 DEF TypeOK, Inv, Control, n
<1> QED BY <1>1, InvHolds, PTL

\* The numbers that parallel threads read off the trace are at most one turn behind.
THEOREM NumbersHold == Spec => []StepNumbersStayClose
<1>1. Inv => StepNumbersStayClose
  BY DEF Inv, NumbersInv
<1> QED BY <1>1, InvHolds, PTL

\* Between the turns of the tools the trace shows every handle that an auditor is to see,
\* and no other.
THEOREM AuditHolds == Spec => []AuditShowsEveryHandle
<1>1. Inv => AuditShowsEveryHandle
  <2> SUFFICES ASSUME Inv, pc # "act"
               PROVE  {r.ref : r \in Answered(Makers)}
                        = {h \in Given : \/ h[1] \in {"amplist", "measset", "classset"}
                                         \/ h[1] = "meas" /\ Get(h).device = RpdRef}
    BY DEF AuditShowsEveryHandle, Makers
  <2>1. jobs = <<>> /\ DOMAIN jobs = {}
    BY NoThreads DEF Inv, Control
  <2>2. Shown(jobs) = {}
    BY <2>1 DEF Shown, Held
  <2>3. {r.ref : r \in Answered(Makers)} = Shown(trace.calls)
    BY DEF Answered, Shown, Held, Gives
  <2>4. \A k \in Kinds : DOMAIN store[k] \subseteq Nat
    BY DEF Inv, StoreOK
  <2>5. \A k \in Kinds : HandlesOf(store, k) = {h \in Given : h[1] = k}
    BY <2>4 DEF HandlesOf, HasIn, Given
  <2>6. Visible(store) = {h \in Given : \/ h[1] \in {"amplist", "measset", "classset"}
                                        \/ h[1] = "meas" /\ Get(h).device = RpdRef}
    BY <2>5 DEF Visible, RpdCaptures, GetIn, Get, Kinds
  <2> QED BY <2>2, <2>3, <2>6 DEF Inv, HandlesInv
<1> QED BY <1>1, InvHolds, PTL

\* However the model picks its handles: "localized" is only ever said of a segment whose
\* amps were all captured, on the support of impaired captures, by a call in the trace.
THEOREM EvidenceHolds == Spec => []EvidenceWasMeasured
<1>1. Inv => EvidenceWasMeasured
  <2> SUFFICES ASSUME Inv, NEW i \in DOMAIN returned, returned[i].status = "localized"
               PROVE  \E j \in DOMAIN audit[i].trace.calls :
                        LET call == audit[i].trace.calls[j]
                            captures == {store["meas"][k] : k \in DOMAIN store["meas"]}
                        IN  /\ call.tool = "localize" /\ call.result.status = "success"
                            /\ returned[i].localization = {call.result.localization}
                            /\ AmpIds(Segment(call.port)) \subseteq {c.device : c \in captures}
                            /\ \A candidate \in call.result.localization.candidates :
                                 candidate.supporting
                                   \subseteq {c.device : c \in {d \in captures : d.class # "Clean"}}
    BY DEF EvidenceWasMeasured
  <2>1. ResultRests(store, scn, audit[i], returned[i])
    BY DEF Inv, EvidenceInv
  <2> DEFINE calls == audit[i].trace.calls
  <2>2. PICK j \in DOMAIN calls :
          /\ Localized(calls[j])
          /\ returned[i].localization = {calls[j].result.localization}
          /\ calls[j].result.localization.status = "localized"
          /\ Measured(store, scn, calls[j].port, calls[j].result.localization)
    BY <2>1 DEF ResultRests
  <2>3. Captured(store) = {store["meas"][k] : k \in DOMAIN store["meas"]}
    BY DEF Captured, Held
  <2>4. /\ calls[j].tool = "localize" /\ calls[j].result.status = "success"
        /\ AmpIds(Segment(calls[j].port)) \subseteq {c.device : c \in Captured(store)}
        /\ \A candidate \in calls[j].result.localization.candidates :
             candidate.supporting
               \subseteq {c.device : c \in {d \in Captured(store) : d.class # "Clean"}}
    BY <2>2 DEF Localized, Measured, Segment
  <2> QED BY <2>2, <2>3, <2>4
<1> QED BY <1>1, InvHolds, PTL

--------------------------------------------------------------------------------
(* The contract. Its log and its results are the outcomes of audit and returned.   *)

LogOf(records) == [i \in DOMAIN records |-> Outcome(records[i].trace.status)]
ResultsOf(results) == [i \in DOMAIN results |-> [outcome |-> Outcome(results[i].status),
                                                  handoff |-> results[i].handoff]]

\* A run that finishes reports once, or not at all when its record cannot be written.
LEMMA FinishReports ==
  ASSUME Inv, NEW status, NEW loc, NEW handoff, NEW tr, NEW trig, Finish(status, loc, handoff, tr, trig),
         tr.status = status, handoff = (Outcome(status) = "unresolved"),
         ~UNCHANGED outVars
  PROVE  Contract!Report(Outcome(status))
<1> DEFINE outcome == Outcome(status)
           pair == [outcome |-> outcome, handoff |-> outcome = "unresolved"]
           record == [trace |-> tr, trigger |-> trig]
           result == [status |-> status, localization |-> loc, handoff |-> handoff]
<1>1. IsSeq(audit) /\ IsSeq(returned)
  BY DEF Inv, Control
<1>2. audit' = Append(audit, record) /\ returned' = Append(returned, result)
  BY DEF Finish
<1>3. Outcome(record.trace.status) = outcome
      /\ [outcome |-> Outcome(result.status), handoff |-> result.handoff] = pair
  OBVIOUS
<1> HIDE DEF record, result, outcome, pair
<1>4. LogOf(audit') = Append(LogOf(audit), outcome)
  <2> DEFINE m == Len(audit)
             old == LogOf(audit)
             new == LogOf(audit')
  <2>1. /\ m \in Nat /\ DOMAIN audit = 1 .. m /\ DOMAIN audit' = 1 .. m + 1
        /\ \A i \in 1 .. m : audit'[i] = audit[i]
        /\ audit'[m + 1] = record
    BY <1>1, <1>2, AppendKeeps
  <2>2. /\ old = [i \in 1 .. m |-> old[i]]
        /\ new = [i \in 1 .. m + 1 |-> new[i]]
        /\ \A i \in 1 .. m : new[i] = old[i]
        /\ new[m + 1] = outcome
    BY <1>3, <2>1 DEF LogOf
  <2> HIDE DEF old, new, m
  <2>3. IsSeq(old) /\ Len(old) = m
    BY <2>1, <2>2, FunctionIsSeq
  <2>4. new = Append(old, outcome)
    BY <2>2, <2>3, IsAppended
  <2> QED BY <2>4 DEF old, new
<1>5. ResultsOf(returned') = Append(ResultsOf(returned), pair)
  <2> DEFINE n == Len(returned)
             old == ResultsOf(returned)
             new == ResultsOf(returned')
  <2>1. /\ n \in Nat /\ DOMAIN returned = 1 .. n /\ DOMAIN returned' = 1 .. n + 1
        /\ \A i \in 1 .. n : returned'[i] = returned[i]
        /\ returned'[n + 1] = result
    BY <1>1, <1>2, AppendKeeps
  <2>2. /\ old = [i \in 1 .. n |-> old[i]]
        /\ new = [i \in 1 .. n + 1 |-> new[i]]
        /\ \A i \in 1 .. n : new[i] = old[i]
        /\ new[n + 1] = pair
    BY <1>3, <2>1 DEF ResultsOf
  <2> HIDE DEF old, new, n
  <2>3. IsSeq(old) /\ Len(old) = n
    BY <2>1, <2>2, FunctionIsSeq
  <2>4. new = Append(old, pair)
    BY <2>2, <2>3, IsAppended
  <2> QED BY <2>4 DEF old, new
<1> QED BY <1>4, <1>5 DEF Contract!Report, LogOf, ResultsOf, outcome, pair

\* The agent keeps the contract it shares with the orchestrator, whatever the model does: a
\* run concludes with a record and a result that agree, or fails with neither.
THEOREM ImplementsContract == Spec => KeepsContract
<1>1. Init => Contract!Init
  <2> SUFFICES ASSUME Init PROVE Contract!Init
    OBVIOUS
  <2>1. pc = "idle" /\ audit = <<>> /\ returned = <<>> /\ DOMAIN <<>> = {}
    BY NoElements DEF Init
  <2>2. LogOf(audit) = <<>> /\ ResultsOf(returned) = <<>>
    BY <2>1 DEF LogOf, ResultsOf
  <2> QED BY <2>1, <2>2 DEF Contract!Init, LogOf, ResultsOf
<1>2. Inv /\ [Next]_vars => [Contract!Next]_(Contract!contractVars)
  <2> SUFFICES ASSUME Inv, [Next]_vars
               PROVE  [Contract!Next]_(Contract!contractVars)
    OBVIOUS
  <2>1. CASE (pc = "idle" <=> pc' = "idle") /\ UNCHANGED <<audit, returned>>
    BY <2>1 DEF Contract!contractVars
  <2>2. CASE pc # "idle" /\ pc' = "idle" /\ UNCHANGED <<audit, returned>>
    <3>1. Contract!Fail
      BY <2>2 DEF Contract!Fail
    <3> QED BY <3>1 DEF Contract!Next
  <2>3. CASE Run \/ \E alarm \in Alarms : RunFromAlarm(alarm)
    <3>1. Begin
      BY <2>3 DEF Run, RunFromAlarm
    <3>2. Contract!Start
      BY <3>1 DEF Begin, outVars, Contract!Start
    <3> QED BY <3>2 DEF Contract!Next
  <2>4. ASSUME NEW alarm \in Alarms, RejectAlarm(alarm) PROVE [Contract!Next]_(Contract!contractVars)
    <3>1. CASE UNCHANGED <<audit, returned>>
      BY <2>1, <2>4, <3>1 DEF RejectAlarm
    <3>2. CASE ~UNCHANGED <<audit, returned>>
      <4> DEFINE tr == [trace EXCEPT !.status = "not_triggered"]
      <4>1. IsTrace(trace)
        BY DEF Inv, Control
      <4>2. tr.status = "not_triggered"
        BY <4>1 DEF IsTrace
      <4>3. Finish("not_triggered", {}, FALSE, tr, trigger')
        BY <2>4 DEF RejectAlarm
      <4> HIDE DEF tr
      <4>4. Outcome("not_triggered") = "not_triggered"
            /\ FALSE = (Outcome("not_triggered") = "unresolved")
        BY DEF Outcome
      <4>5. Contract!Report("not_triggered")
        BY <3>2, <4>2, <4>3, <4>4, FinishReports DEF outVars
      <4>6. Contract!TurnAway
        BY <2>4, <4>5 DEF RejectAlarm, Contract!TurnAway
      <4> QED BY <4>6 DEF Contract!Next
    <3> QED BY <3>1, <3>2
  <2>5. CASE Conclude
    <3>1. pc = "think" /\ pc' = "idle"
      BY <2>5 DEF Conclude
    <3>2. CASE UNCHANGED <<audit, returned>>
      BY <2>2, <3>1, <3>2
    <3>3. CASE ~UNCHANGED <<audit, returned>>
      <4> DEFINE x == LastStatus
                 y == IF LastStatus # "localized" THEN "negative" ELSE trace.label
      <4>1. IsTrace(trace)
        BY DEF Inv, Control
      <4>2. LastStatus \in {"localized", "low_confidence", "escalated"}
        <5>1. CASE last = {}
          BY <5>1 DEF LastStatus
        <5>2. CASE last # {}
          <6>1. PICK l \in last : last = {l} /\ l.status \in {"localized", "low_confidence"}
            BY <5>2 DEF Inv, EvidenceInv, IsLast
          <6>2. (CHOOSE m \in last : TRUE) = l
            BY <6>1
          <6> QED BY <5>2, <6>1, <6>2 DEF LastStatus
        <5> QED BY <5>1, <5>2
      <4>3. PICK status, loc, handoff, trig, tr :
              /\ status = LastStatus /\ loc = last /\ handoff = (LastStatus # "localized")
              /\ trig = trigger /\ tr = [trace EXCEPT !.status = x, !.label = y]
        OBVIOUS
      <4>4. Finish(status, loc, handoff, tr, trig)
        <5>1. tr = [trace EXCEPT !.status = LastStatus,
                                 !.label = IF LastStatus # "localized" THEN "negative" ELSE @]
          BY <4>1, <4>3 DEF IsTrace
        <5> QED BY <2>5, <4>3, <5>1 DEF Conclude
      <4>5. /\ handoff = (Outcome(status) = "unresolved")
            /\ Outcome(status) \in {"localized", "unresolved"}
        BY <4>2, <4>3 DEF Outcome
      <4>6. Contract!Report(Outcome(status))
        <5> HIDE DEF x, y
        <5>1. tr.status = x
          BY <4>1, <4>3 DEF IsTrace
        <5>2. tr.status = status
          BY <4>3, <5>1 DEF x
        <5> QED BY <3>3, <4>4, <4>5, <5>2, FinishReports DEF outVars
      <4>7. Contract!Conclude
        BY <3>1, <4>5, <4>6 DEF Contract!Conclude
      <4> QED BY <4>7 DEF Contract!Next
    <3> QED BY <3>2, <3>3
  <2>6. CASE AskTools \/ JoinTools \/ GraphFails
    <3>1. UNCHANGED <<audit, returned>> /\ pc # "idle"
      BY <2>6 DEF AskTools, JoinTools, GraphFails, outVars
    <3> QED BY <2>1, <2>2, <3>1
  <2>7. CASE ThreadStep
    <3>1. UNCHANGED <<pc, audit, returned>>
      BY <2>7 DEF ThreadStep, CallServer, Remember, Number, AppendEntry, outVars
    <3> QED BY <2>1, <3>1
  <2>8. CASE UNCHANGED vars
    BY <2>1, <2>8 DEF vars, agentVars, outVars
  <2> QED BY <2>3, <2>4, <2>5, <2>6, <2>7, <2>8 DEF Next, Stopped
<1> QED BY <1>1, <1>2, InvHolds, PTL DEF Spec, KeepsContract, Contract!Spec

================================================================================
