-------------------------- MODULE LocalizerCasesProofs --------------------------
(******************************************************************************)
(* Proofs about one call of the localizer, for every segment that is a tree and *)
(* every set of measurements: what its walks up the plant and its comparison of *)
(* them compute, and what a technician may conclude from the answer.            *)
(******************************************************************************)
EXTENDS LocalizerCases, LocalizerLemmas

\* The nodes on the way up are the least set closed under "parent": the reference
\* definition that the properties are stated with.
LEMMA AboveIsReference ==
  ASSUME NEW top, IsTree(topo, top), NEW n \in NodeIds(topo)
  PROVE  AtOrAbove(n) = Above(topo, n)
<1> DEFINE s == PathToRpd(topo, n)
           Closed(S) == n \in S /\ \A m \in S : topo.parent[m] \in S \cup {None}
<1>1. AtOrAbove(n) = {m \in NodeIds(topo) : \A S \in SUBSET NodeIds(topo) : Closed(S) => m \in S}
  BY DEF AtOrAbove
<1>2. GoesUp(s, topo, n) /\ Above(topo, n) = Held(s)
  BY PathGoesUp DEF Above
<1> HIDE DEF s
<1>3. /\ Len(s) \in Nat \ {0} /\ DOMAIN s = 1 .. Len(s)
      /\ s[1] = n
      /\ \A k \in 1 .. Len(s) : s[k] \in NodeIds(topo)
      /\ \A k \in 1 .. Len(s) - 1 : s[k + 1] = topo.parent[s[k]]
  BY <1>2 DEF GoesUp
<1>4. None \notin NodeIds(topo) /\ \A m \in NodeIds(topo) : topo.parent[m] \in NodeIds(topo) \cup {None}
  BY DEF IsTree, IsTopology
<1>5. Closed(Above(topo, n)) /\ Above(topo, n) \in SUBSET NodeIds(topo)
  <2>1. n \in Above(topo, n) /\ Above(topo, n) \in SUBSET NodeIds(topo)
    BY AboveOrders
  <2>2. ASSUME NEW m \in Above(topo, n), topo.parent[m] # None
        PROVE  topo.parent[m] \in Above(topo, n)
    <3>1. m \in NodeIds(topo) /\ topo.parent[m] \in NodeIds(topo)
      BY <1>4, <2>1, <2>2
    <3>2. topo.parent[m] \in Above(topo, m)
      BY <3>1, ParentIsAbove
    <3> QED BY <3>2, AboveOrders
  <2> QED BY <2>1, <2>2
<1>6. ASSUME NEW S \in SUBSET NodeIds(topo), Closed(S), NEW i \in 1 .. Len(s)
      PROVE  s[i] \in S
  <2> DEFINE P == {k \in 1 .. Len(s) : s[k] \in S}
  <2>1. 1 \in P
    BY <1>3, <1>6
  <2>2. ASSUME NEW k \in 1 .. Len(s) - 1, k \in P PROVE k + 1 \in P
    <3>1. k + 1 \in 1 .. Len(s) /\ s[k + 1] = topo.parent[s[k]]
      BY <1>3
    <3>2. s[k + 1] # None
      BY <1>3, <1>4, <3>1
    <3> QED BY <1>6, <2>2, <3>1, <3>2
  <2>3. \A k \in 1 .. Len(s) : k \in P
    <3> HIDE DEF P
    <3> QED BY <1>3, <2>1, <2>2, InductionUpTo
  <2> QED BY <2>3
<1> HIDE DEF Closed
<1>7. \A m \in Above(topo, n) : \E i \in 1 .. Len(s) : m = s[i]
  BY <1>2, <1>3 DEF Held
<1> QED BY <1>1, <1>3, <1>5, <1>6, <1>7

--------------------------------------------------------------------------------
(* What the call is given, and what it answers.                               *)

CleanAmps == {a \in AmpIds(topo) : seen[a] = "Clean"}
MeasuredAmps == {a \in AmpIds(topo) : seen[a] # "missing"}

\* Measurements of the amps of a segment.
Measurements == seen \in [AmpIds(topo) -> Labels \cup {"Clean", "missing"}]

\* The localizer sorts the amplifiers of the topology into impaired, clean and missing
\* ones, and no amplifier is in two sorts.
LEMMA SortsOfAmps ==
  ASSUME IsTopology(topo), Measurements
  PROVE  /\ MeasuredAmps \ Impaired = CleanAmps
         /\ Impaired \subseteq MeasuredAmps
         /\ AmpIds(topo) \ MeasuredAmps = Missing
         /\ Impaired = {a \in MeasuredAmps : seen[a] # "Clean"}
         /\ AmpIds(topo) \subseteq NodeIds(topo) /\ IsFiniteSet(AmpIds(topo))
         /\ AmpIds(topo) \subseteq Nat \ {RpdRef}
<1>1. AmpIds(topo) \subseteq NodeIds(topo)
  BY DEF AmpIds
<1>2. IsFiniteSet(AmpIds(topo)) /\ AmpIds(topo) \subseteq Nat \ {RpdRef}
  BY <1>1, FS_Subset DEF IsTopology, None, RpdRef
<1>3. \A a \in AmpIds(topo) : seen[a] \in Labels \cup {"Clean", "missing"}
  BY DEF Measurements
<1>4. "Clean" \notin Labels /\ "missing" \notin Labels
  BY LabelsAreImpairments
<1> QED BY <1>1, <1>2, <1>3, <1>4 DEF MeasuredAmps, CleanAmps, Impaired, Missing

\* The label of the RPD reading that starts a localization is an impairment label.
LEMMA RpdClassIsImpairment == RpdClass \in Labels /\ RpdClass # "Clean"
BY LabelsAreImpairments DEF RpdClass

Reading(a) == [device |-> a, class |-> seen[a]]
RpdReading == [device |-> RpdRef, class |-> RpdClass]
Pool == PoolOf(RpdClass, seen)
Readings == SetToSeq({Reading(a) : a \in MeasuredAmps})

\* The pool holds the reading of the RPD and one of each measured amp.
LEMMA PoolHolds ==
  ASSUME IsTopology(topo), Measurements
  PROVE  /\ IsSeq(Pool)
         /\ Held(Pool) = {RpdReading} \cup Held(Readings)
         /\ Held(Readings) = {Reading(a) : a \in MeasuredAmps}
         /\ OneOfEach(Readings, MeasuredAmps)
<1> DEFINE R == {Reading(a) : a \in MeasuredAmps}
           q == SetToSeq(R)
<1>1. Pool = <<RpdReading>> \o q
  BY DEF Pool, PoolOf, Reading, RpdReading, MeasuredAmps, Measurements
<1>2. IsFiniteSet(MeasuredAmps)
  BY SortsOfAmps, FS_Subset DEF MeasuredAmps
<1>3. IsFiniteSet(R)
  <2> DEFINE f == [a \in MeasuredAmps |-> Reading(a)]
  <2> DEFINE S == MeasuredAmps
  <2>1. f \in [S -> R]
    OBVIOUS
  <2>2. R = {f[a] : a \in S}
    OBVIOUS
  <2> HIDE DEF f, R, q, S
  <2>3. IsFiniteSet({f[a] : a \in S})
    BY <1>2, <2>1, ImageIsFinite DEF S
  <2> QED BY <2>2, <2>3
<1> HIDE DEF R
<1>4. /\ Cardinality(R) \in Nat
      /\ q \in Seq(R) /\ Len(q) = Cardinality(R)
      /\ \A i, j \in 1 .. Cardinality(R) : q[i] = q[j] => i = j
      /\ \A x \in R : \E i \in 1 .. Cardinality(R) : q[i] = x
  BY <1>3, SetToSeqLists
<1> HIDE DEF q
<1>5. DOMAIN q = 1 .. Len(q)
  BY <1>4, LenProperties
<1>6. Held(q) = R
  <2>1. \A i \in DOMAIN q : q[i] \in R
    BY <1>4, <1>5
  <2>2. \A x \in R : \E i \in DOMAIN q : q[i] = x
    BY <1>4, <1>5
  <2> QED BY <2>1, <2>2 DEF Held
<1>7. IsSeq(Pool) /\ Held(Pool) = {RpdReading} \cup R
  <2> DEFINE S == R \cup {RpdReading}
  <2>1. <<RpdReading>> \in Seq(S) /\ q \in Seq(S)
    BY <1>4
  <2>2. Held(<<RpdReading>>) = {RpdReading}
    BY DEF Held
  <2> HIDE DEF S
  <2>3. Pool \in Seq(S) /\ Held(Pool) = Held(<<RpdReading>>) \cup Held(q)
    BY <1>1, <2>1, ConcatHolds
  <2>4. IsSeq(Pool)
    BY <2>3, SeqIsSeq
  <2> QED BY <1>6, <2>2, <2>3, <2>4
<1>8. OneOfEach(q, MeasuredAmps)
  <2>1. \A i \in DOMAIN q : \E a \in MeasuredAmps : q[i] = Reading(a) /\ q[i].device = a
    <3>1. \A i \in DOMAIN q : q[i] \in R
      BY <1>4, <1>5
    <3>2. \A x \in R : \E a \in MeasuredAmps : x = Reading(a)
      BY DEF R
    <3>3. \A a : Reading(a).device = a
      BY DEF Reading
    <3> QED BY <3>1, <3>2, <3>3
  <2>2. \A a \in MeasuredAmps : \E i \in DOMAIN q : q[i] = Reading(a)
    BY <1>4, <1>5 DEF R
  <2>3. \A a \in MeasuredAmps : \E i \in DOMAIN q : q[i].device = a
    <3>1. \A a : Reading(a).device = a
      BY DEF Reading
    <3> QED BY <2>2, <3>1
  <2>4. \A i, j \in DOMAIN q : q[i].device = q[j].device => i = j
    <3> SUFFICES ASSUME NEW i \in DOMAIN q, NEW j \in DOMAIN q, q[i].device = q[j].device
                 PROVE  i = j
      OBVIOUS
    <3>1. q[i] = q[j]
      BY <2>1
    <3> QED BY <1>4, <1>5, <3>1
  <2>5. {q[i].device : i \in DOMAIN q} = MeasuredAmps
    BY <2>1, <2>3
  <2> QED BY <2>4, <2>5 DEF OneOfEach
<1> QED BY <1>6, <1>7, <1>8 DEF R, q, Readings

\* So the localizer sees each amp as it was measured, and compares the class of the RPD with
\* those of the impaired amps.
LEMMA PoolIsRead ==
  ASSUME IsTopology(topo), Measurements
  PROVE  /\ DOMAIN AmpClass(Pool) = MeasuredAmps
         /\ ImpairedAmps(Pool) = Impaired
         /\ ImpairedLabels(Pool) = {RpdClass} \cup {seen[a] : a \in Impaired}
<1>1. /\ IsSeq(Pool)
      /\ \A i \in DOMAIN Pool : Pool[i] = RpdReading \/ \E a \in MeasuredAmps : Pool[i] = Reading(a)
      /\ \A a \in MeasuredAmps : \E i \in DOMAIN Pool : Pool[i] = Reading(a)
      /\ \E i \in DOMAIN Pool : Pool[i] = RpdReading
  BY PoolHolds DEF Held
<1>2. /\ RpdReading.device = RpdRef /\ RpdReading.class = RpdClass
      /\ \A a : Reading(a).device = a /\ Reading(a).class = seen[a]
  BY DEF RpdReading, Reading
<1>3. /\ RpdRef \notin MeasuredAmps
      /\ Impaired = {a \in MeasuredAmps : seen[a] # "Clean"}
  BY SortsOfAmps DEF MeasuredAmps
<1>4. {Pool[i].device : i \in DOMAIN Pool} \ {RpdRef} = MeasuredAmps
  <2>1. \A i \in DOMAIN Pool : Pool[i].device = RpdRef \/ Pool[i].device \in MeasuredAmps
    BY <1>1, <1>2
  <2>2. \A a \in MeasuredAmps : \E i \in DOMAIN Pool : Pool[i].device = a
    BY <1>1, <1>2
  <2> QED BY <1>3, <2>1, <2>2
<1>5. DOMAIN AmpClass(Pool) = MeasuredAmps
  BY <1>4, AmpsAreRead
<1>6. ASSUME NEW a \in MeasuredAmps PROVE AmpClass(Pool)[a] = seen[a]
  <2>1. PICK i \in DOMAIN Pool : Pool[i].device = a /\ AmpClass(Pool)[a] = Pool[i].class
    BY <1>1, <1>5, AmpClassIsRead
  <2> QED BY <1>1, <1>2, <1>3, <2>1
<1>7. ImpairedAmps(Pool) = Impaired
  BY <1>3, <1>5, <1>6 DEF ImpairedAmps
<1>8. ImpairedLabels(Pool) = {RpdClass} \cup {seen[a] : a \in Impaired}
  <2>1. ASSUME NEW i \in DOMAIN Pool, Pool[i].class # "Clean"
        PROVE  Pool[i].class \in {RpdClass} \cup {seen[a] : a \in Impaired}
    BY <1>1, <1>2, <1>3, <2>1
  <2>2. \E i \in DOMAIN Pool : Pool[i].class = RpdClass
    BY <1>1, <1>2
  <2>3. \A a \in Impaired : \E i \in DOMAIN Pool : Pool[i].class = seen[a]
    BY <1>1, <1>2, <1>3
  <2>4. \A a \in Impaired : seen[a] # "Clean"
    BY <1>3
  <2> QED BY <2>1, <2>2, <2>3, <2>4, RpdClassIsImpairment DEF ImpairedLabels
<1> QED BY <1>5, <1>7, <1>8

Answer == Localize(topo, Pool)
Common == CommonPoint(topo, Impaired)

\* Impaired devices that disagree.
Conflict == \E a \in Impaired : seen[a] # RpdClass

\* localize(): disagreeing devices, no impaired amp, or a common point to report.
LEMMA AnswerCases ==
  ASSUME IsTopology(topo), Measurements
  PROVE  Answer = IF Conflict THEN Low(30, Impaired, Missing)
                  ELSE IF Impaired = {} THEN Low(20, {}, Missing)
                  ELSE CommonPointResult(topo, Impaired, CleanAmps, Missing)
<1> DEFINE labels == ImpairedLabels(Pool)
<1>1. /\ DOMAIN AmpClass(Pool) = MeasuredAmps /\ ImpairedAmps(Pool) = Impaired
      /\ labels = {RpdClass} \cup {seen[a] : a \in Impaired}
  BY PoolIsRead
<1>2. MeasuredAmps \ Impaired = CleanAmps /\ AmpIds(topo) \ MeasuredAmps = Missing
      /\ IsFiniteSet(Impaired)
  <2>1. Impaired \subseteq AmpIds(topo)
    BY DEF Impaired
  <2> QED BY <2>1, SortsOfAmps, FS_Subset
<1>3. IsFiniteSet(labels)
  <2> DEFINE f == [a \in Impaired |-> seen[a]]
             R == {seen[a] : a \in Impaired}
  <2>1. f \in [Impaired -> R] /\ R = {f[a] : a \in Impaired}
    OBVIOUS
  <2>2. labels = R \cup {RpdClass}
    BY <1>1
  <2> HIDE DEF f, R, labels
  <2>3. IsFiniteSet({f[a] : a \in Impaired})
    BY <1>2, <2>1, ImageIsFinite
  <2>4. IsFiniteSet(R)
    BY <2>1, <2>3
  <2>5. IsFiniteSet(R \cup {RpdClass})
    BY <2>4, FS_AddElement
  <2> QED BY <2>2, <2>5
<1>4. Answer = IF Cardinality(labels) > 1 THEN Low(30, Impaired, Missing)
               ELSE IF Impaired = {} THEN Low(20, {}, Missing)
               ELSE CommonPointResult(topo, Impaired, CleanAmps, Missing)
  <2>1. Answer = IF Cardinality(labels) > 1
                 THEN Low(30, ImpairedAmps(Pool), AmpIds(topo) \ DOMAIN AmpClass(Pool))
                 ELSE IF ImpairedAmps(Pool) = {}
                 THEN Low(20, {}, AmpIds(topo) \ DOMAIN AmpClass(Pool))
                 ELSE CommonPointResult(topo, ImpairedAmps(Pool),
                        DOMAIN AmpClass(Pool) \ ImpairedAmps(Pool),
                        AmpIds(topo) \ DOMAIN AmpClass(Pool))
    BY DEF Answer, Localize, ImpairedAmps
  <2> HIDE DEF labels
  <2> QED BY <1>1, <1>2, <2>1
<1> HIDE DEF labels
<1>5. CASE Conflict
  <2>1. PICK a \in Impaired : seen[a] # RpdClass
    BY <1>5 DEF Conflict
  <2>2. seen[a] \in labels /\ RpdClass \in labels
    BY <1>1
  <2>3. ~(Cardinality(labels) <= 1)
    BY <1>3, <2>1, <2>2, AtMostOne
  <2>4. Cardinality(labels) \in Nat
    BY <1>3, FS_CardinalityType
  <2>5. Cardinality(labels) > 1
    BY <2>3, <2>4
  <2> QED BY <1>4, <1>5, <2>5
<1>6. CASE ~Conflict
  <2>1. labels = {RpdClass}
    BY <1>1, <1>6 DEF Conflict
  <2>2. Cardinality({RpdClass}) = 1
    BY FS_Singleton
  <2>3. ~(Cardinality(labels) > 1)
    BY <2>1, <2>2
  <2> QED BY <1>4, <1>6, <2>3
<1> QED BY <1>5, <1>6

\* The three shapes of a common-point answer on a tree, where there is always a common point.
LEMMA SourceCases ==
  ASSUME NEW top, IsTree(topo, top), Measurements, Impaired # {}
  PROVE  LikelySource(topo, Impaired, CleanAmps) =
           IF Common \in CleanAmps
           THEN [score |-> 85, likely |-> [type |-> "span", upstream |-> {RefFor(topo, Common)}]]
           ELSE IF Cardinality(Impaired) = 1
           THEN [score |-> 90, likely |-> [type |-> "device", upstream |-> {}]]
           ELSE [score |-> 80, likely |-> [type |-> "branch", upstream |-> {RefFor(topo, Common)}]]
<1>1. IsTopology(topo)
  BY DEF IsTree
<1>2. Common # None
  <2>1. Impaired \subseteq NodeIds(topo)
    BY <1>1, SortsOfAmps DEF Impaired
  <2> QED BY <2>1, CommonPointHolds DEF IsTree, IsTopology, Common
<1> QED BY <1>2 DEF LikelySource, Common

\* What a call returned: the answer of localize and its public form.
CallInv ==
  /\ topo \in Topologies
  /\ Measurements
  /\ Done => answers = <<[internal |-> Answer, public |-> PublicLocalization(Answer)]>>

\* What was measured and what was answered belong to one call: the invariant every
\* theorem of this module starts from.
LEMMA CallInvariant == Spec => []CallInv
<1>1. Init => CallInv
  <2> SUFFICES ASSUME Init PROVE CallInv
    OBVIOUS
  <2>1. answers = <<>>
    BY DEF Init
  <2> QED BY <2>1 DEF Init, CallInv, Measurements, Done
<1>2. CallInv /\ [CallLocalizer]_vars => CallInv'
  <2> SUFFICES ASSUME CallInv, [CallLocalizer]_vars PROVE CallInv'
    OBVIOUS
  <2>1. CASE CallLocalizer
    <3>1. answers' = <<[internal |-> Answer, public |-> PublicLocalization(Answer)]>>
      BY <2>1 DEF CallLocalizer, Answer, Pool
    <3>2. topo' = topo /\ seen' = seen
      BY <2>1 DEF CallLocalizer
    <3>3. Answer' = Answer
      BY <3>2 DEF Answer, Pool
    <3> QED BY <3>1, <3>2, <3>3 DEF CallInv, Measurements
  <2>2. CASE UNCHANGED vars
    <3>1. Answer' = Answer
      BY <2>2 DEF Answer, Pool, vars
    <3> QED BY <2>2, <3>1 DEF CallInv, vars, Measurements, Done
  <2> QED BY <2>1, <2>2
<1> QED BY <1>1, <1>2, PTL DEF Spec

--------------------------------------------------------------------------------
(* The parts of an answer.                                                    *)

\* The answer of a disagreement, and of no impaired amp.
LEMMA LowParts ==
  ASSUME NEW n, NEW supporting, NEW uncertain
  PROVE  LET r == Low(n, supporting, uncertain)
         IN  /\ r.status = "low_confidence" /\ r.confidence = n
             /\ r.likely = NoLikely /\ r.supporting = supporting
             /\ r.uncertain = uncertain /\ PublicUpstream(r) = RpdRef
<1> DEFINE r == Low(n, supporting, uncertain)
<1>1. /\ r.status = "low_confidence" /\ r.confidence = n
      /\ r.likely = NoLikely /\ r.supporting = supporting
      /\ r.uncertain = uncertain /\ r.boundary = {}
  BY DEF Low
<1> HIDE DEF r
<1>2. PublicUpstream(r) = RpdRef
  BY <1>1 DEF PublicUpstream, NoLikely
<1> QED BY <1>1, <1>2 DEF r

\* Once the call has returned, its two results are the localizer's answer and what the
\* server publishes of it.
LEMMA ResultParts ==
  ASSUME CallInv, Done
  PROVE  result.internal = Answer /\ result.public = PublicLocalization(Answer)
BY DEF CallInv, result

\* The boundary a result names is the RPD or an amp of the segment.
LEMMA UpstreamIsDevice ==
  ASSUME IsTopology(topo), Measurements
  PROVE  PublicUpstream(Answer) \in AmpIds(topo) \cup {RpdRef}
<1>1. CASE Conflict \/ Impaired = {}
  BY <1>1, AnswerCases, LowParts
<1>2. CASE ~(Conflict \/ Impaired = {})
  <2> DEFINE r == CommonPointResult(topo, Impaired, CleanAmps, Missing)
  <2>1. Answer = r
    BY <1>2, AnswerCases
  <2>2. /\ r.boundary = CleanBoundary(topo, Impaired, CleanAmps)
        /\ \/ r.likely.upstream = {}
           \/ \E a : r.likely.upstream = {RefFor(topo, a)}
    BY CommonPointParts
  <2> HIDE DEF r
  <2>3. r.boundary \subseteq AmpIds(topo) /\ AmpIds(topo) \subseteq Nat /\ RpdRef \in Nat
    BY <2>2, SortsOfAmps DEF CleanBoundary, CleanAmps, RpdRef
  <2>4. CASE r.likely.upstream # {}
    <3>1. PICK a : r.likely.upstream = {RefFor(topo, a)}
      BY <2>2, <2>4
    <3>2. RefFor(topo, a) \in AmpIds(topo) \cup {RpdRef}
      BY RefIsDevice
    <3>3. Min({RefFor(topo, a)}) = RefFor(topo, a)
      BY <2>3, <3>2, MinOfOne
    <3>4. PublicUpstream(r) = Min(r.likely.upstream)
      BY <2>4 DEF PublicUpstream
    <3> QED BY <2>1, <3>1, <3>2, <3>3, <3>4
  <2>5. CASE r.likely.upstream = {} /\ r.boundary # {}
    <3>1. PublicUpstream(r) = Min(r.boundary)
      BY <2>5 DEF PublicUpstream
    <3>2. r.boundary \subseteq Nat
      BY <2>3
    <3>3. Min(r.boundary) \in r.boundary
      BY <2>5, <3>2, MinOfNaturals
    <3> QED BY <2>1, <2>3, <3>1, <3>3
  <2>6. CASE r.likely.upstream = {} /\ r.boundary = {}
    BY <2>1, <2>6 DEF PublicUpstream
  <2> QED BY <2>4, <2>5, <2>6
<1> QED BY <1>1, <1>2

--------------------------------------------------------------------------------
(* Theorems.                                                                  *)

SegmentsAreTopologies == \A t \in Topologies : IsTopology(t)
SegmentsAreTrees == \A t \in Topologies : \E top : IsTree(t, top) /\ OnlyTopIsRpd(t, top)

\* On every topology, cyclic and dangling ones included: the public answer has at most one
\* candidate, its confidence is a percentage, and its boundary the RPD or an amp.
THEOREM CasesTypeCorrect == ASSUME SegmentsAreTopologies PROVE Spec => []TypeOK
<1>1. CallInv => TypeOK
  <2> SUFFICES ASSUME CallInv PROVE TypeOK
    OBVIOUS
  <2>1. IsTopology(topo) /\ Measurements
    BY DEF CallInv, SegmentsAreTopologies
  <2>2. ASSUME Done
        PROVE  /\ result.public.confidence \in 0 .. 100
               /\ Cardinality(result.public.candidates) <= 1
               /\ \A c \in result.public.candidates : c.upstream \in AmpIds(topo) \cup {RpdRef}
    <3>1. result.public = PublicLocalization(Answer)
      BY <2>2, ResultParts
    <3>2. Answer.confidence \in 0 .. 100
      <4>1. CASE Conflict \/ Impaired = {}
        <5>1. Answer.confidence \in {20, 30}
          BY <2>1, <4>1, AnswerCases, LowParts
        <5> QED BY <5>1
      <4>2. CASE ~(Conflict \/ Impaired = {})
        BY <2>1, <4>2, AnswerCases, CommonPointParts
      <4> QED BY <4>1, <4>2
    <3>3. PublicUpstream(Answer) \in AmpIds(topo) \cup {RpdRef}
      BY <2>1, UpstreamIsDevice
    <3> QED BY <3>1, <3>2, <3>3, PublicParts
  <2> QED BY <2>1, <2>2 DEF TypeOK, Measurements
<1> QED BY <1>1, CallInvariant, PTL

\* On every topology: "localized" is only answered when every amp was measured, some amp is
\* impaired, and all that are show the class of the RPD.
THEOREM LocalizedHolds == ASSUME SegmentsAreTopologies PROVE Spec => []LocalizedIsConclusive
<1>1. CallInv => LocalizedIsConclusive
  <2> SUFFICES ASSUME CallInv, Localized
               PROVE  Missing = {} /\ Impaired # {} /\ \A a \in Impaired : seen[a] = RpdClass
    BY DEF LocalizedIsConclusive
  <2>1. IsTopology(topo) /\ Measurements
    BY DEF CallInv, SegmentsAreTopologies
  <2>2. Answer.status = "localized"
    BY ResultParts, PublicParts DEF Localized
  <2>3. ~Conflict /\ Impaired # {}
    <3>1. \A n, supporting, uncertain : Low(n, supporting, uncertain).status # "localized"
      BY DEF Low
    <3> QED BY <2>1, <2>2, <3>1, AnswerCases
  <2>4. Answer = CommonPointResult(topo, Impaired, CleanAmps, Missing)
    BY <2>1, <2>3, AnswerCases
  <2>5. Missing = {}
    BY <2>2, <2>4, CommonPointParts
  <2> QED BY <2>3, <2>5 DEF Conflict
<1> QED BY <1>1, CallInvariant, PTL

\* What the reported boundary of a common-point answer is, on a tree.
LEMMA BoundaryOnTree ==
  ASSUME NEW top, IsTree(topo, top), OnlyTopIsRpd(topo, top), Measurements, NEW up \in Answer.likely.upstream
  PROVE  IF CommonAncestors \cap AmpIds(topo) = {} THEN up = RpdRef
         ELSE /\ up \in CommonAncestors /\ topo.kind[up] = "AMP"
              /\ CommonAncestors \subseteq AtOrAbove(up)
<1>1. IsTopology(topo)
  BY DEF IsTree
<1>2. ~(Conflict \/ Impaired = {})
  <2> SUFFICES ASSUME Conflict \/ Impaired = {} PROVE FALSE
    OBVIOUS
  <2>1. Answer.likely = NoLikely
    BY <1>1, AnswerCases, LowParts
  <2> QED BY <2>1 DEF NoLikely
<1>3. Answer.likely = LikelySource(topo, Impaired, CleanAmps).likely
  BY <1>1, <1>2, AnswerCases, CommonPointParts
<1>4. up = RefFor(topo, Common)
  BY <1>2, <1>3, SourceCases
<1>5. Impaired \subseteq NodeIds(topo)
  BY <1>1, SortsOfAmps DEF Impaired
<1> DEFINE common == {m \in NodeIds(topo) :
                        topo.kind[m] # "PASSIVE" /\ \A a \in Impaired : m \in Above(topo, a)}
<1>6. common = CommonAncestors
  <2>1. \A a \in Impaired : AtOrAbove(a) = Above(topo, a)
    BY <1>5, AboveIsReference
  <2> QED BY <2>1 DEF CommonAncestors
<1>7. IF common \cap AmpIds(topo) = {} THEN up = RpdRef
      ELSE up \in common /\ topo.kind[up] = "AMP" /\ common \subseteq Above(topo, up)
  BY <1>2, <1>4, <1>5, LowestCommonAncestor DEF Common
<1>8. up \in common => AtOrAbove(up) = Above(topo, up)
  BY AboveIsReference
<1> HIDE DEF common
<1> QED BY <1>6, <1>7, <1>8

\* On every tree, whatever the measurements: for a branch or a span, the walks up the plant,
\* their comparison and the climb out of passives compute the lowest measurable common
\* ancestor of the impaired amps, defined without walks as a least closed set.
THEOREM BoundaryHolds ==
  ASSUME SegmentsAreTrees PROVE Spec => []BoundaryIsLowestCommonAncestor
<1>1. CallInv => BoundaryIsLowestCommonAncestor
  <2> SUFFICES ASSUME CallInv, Done, NEW up \in result.internal.likely.upstream
               PROVE  IF CommonAncestors \cap AmpIds(topo) = {} THEN up = RpdRef
                      ELSE up \in CommonAncestors /\ CommonAncestors \subseteq AtOrAbove(up)
    BY DEF BoundaryIsLowestCommonAncestor
  <2>1. PICK top : IsTree(topo, top) /\ OnlyTopIsRpd(topo, top)
    BY DEF CallInv, SegmentsAreTrees
  <2>2. Measurements /\ up \in Answer.likely.upstream
    BY ResultParts DEF CallInv
  <2> QED BY <2>1, <2>2, BoundaryOnTree
<1> QED BY <1>1, CallInvariant, PTL

\* The walk to the reported boundary of a single impaired amp: its parent, when clean.
LEMMA BoundaryOfOne ==
  ASSUME NEW top, IsTree(topo, top), Measurements, Impaired # {}, Cardinality(Impaired) = 1,
         NEW up \in CleanBoundary(topo, Impaired, CleanAmps)
  PROVE  \A a \in Impaired : a \in AtOrBelow(up)
<1>1. IsTopology(topo)
  BY DEF IsTree
<1>2. Impaired \subseteq NodeIds(topo) /\ IsFiniteSet(Impaired)
  <2>1. Impaired \subseteq AmpIds(topo)
    BY DEF Impaired
  <2> QED BY <1>1, <2>1, SortsOfAmps, FS_Subset
<1>3. \A a, b \in Impaired : a = b
  BY <1>2, AtMostOne
<1>4. PICK b \in Impaired : up = topo.parent[b] /\ up \in AmpIds(topo)
  BY DEF CleanBoundary, CleanAmps
<1>5. up \in NodeIds(topo) /\ b \in NodeIds(topo)
  BY <1>2, <1>4 DEF AmpIds
<1>6. up \in Above(topo, b)
  BY <1>4, <1>5, ParentIsAbove
<1>7. up \in AtOrAbove(b)
  BY <1>5, <1>6, AboveIsReference
<1> QED BY <1>3, <1>5, <1>7 DEF AtOrBelow

\* On a tree below the RPD every published candidate carries all the amplifiers that
\* were found impaired.
LEMMA RegionOnTree ==
  ASSUME NEW top, IsTree(topo, top), OnlyTopIsRpd(topo, top), Measurements,
         NEW c \in PublicLocalization(Answer).candidates
  PROVE  Impaired \subseteq Region(c)
<1>1. IsTopology(topo) /\ Impaired \subseteq NodeIds(topo)
  <2>1. Impaired \subseteq AmpIds(topo) /\ IsTopology(topo)
    BY DEF Impaired, IsTree
  <2> QED BY <2>1, SortsOfAmps
<1>2. c.upstream = PublicUpstream(Answer)
  BY PublicParts
<1>3. CASE PublicUpstream(Answer) = RpdRef
  BY <1>1, <1>2, <1>3 DEF Region
<1>4. CASE PublicUpstream(Answer) # RpdRef
  <2>1. ~(Conflict \/ Impaired = {})
    BY <1>1, <1>4, AnswerCases, LowParts
  <2> DEFINE r == CommonPointResult(topo, Impaired, CleanAmps, Missing)
  <2>2. Answer = r
    BY <1>1, <2>1, AnswerCases
  <2>3. /\ r.boundary = CleanBoundary(topo, Impaired, CleanAmps)
        /\ \/ r.likely.upstream = {} /\ Cardinality(Impaired) = 1
           \/ \E a : r.likely.upstream = {RefFor(topo, a)}
    BY CommonPointParts
  <2> HIDE DEF r
  <2>4. \A a \in Impaired : a \in AtOrBelow(PublicUpstream(r))
    <3>1. CASE r.likely.upstream # {}
      <4>1. PICK a : r.likely.upstream = {RefFor(topo, a)}
        BY <2>3, <3>1
      <4> DEFINE up == RefFor(topo, a)
      <4>2. up \in AmpIds(topo) \cup {RpdRef}
        BY <1>1, RefIsDevice
      <4> HIDE DEF up
      <4>3. up \in Nat
        BY <1>1, <4>2, SortsOfAmps DEF RpdRef
      <4>4. PublicUpstream(r) = up
        <5>1. PublicUpstream(r) = Min({up})
          BY <3>1, <4>1 DEF PublicUpstream, up
        <5> QED BY <4>3, <5>1, MinOfOne
      <4>5. up \in Answer.likely.upstream
        BY <2>2, <4>1 DEF up
      <4>6. up \in CommonAncestors
        BY <1>4, <2>2, <4>4, <4>5, BoundaryOnTree
      <4> QED BY <1>1, <4>4, <4>6 DEF CommonAncestors, AtOrBelow
    <3>2. CASE r.likely.upstream = {}
      <4>1. Cardinality(Impaired) = 1
        BY <2>3, <3>2
      <4>2. r.boundary # {} /\ PublicUpstream(r) = Min(r.boundary)
        BY <1>4, <2>2, <3>2 DEF PublicUpstream
      <4>3. r.boundary \subseteq Nat
        BY <1>1, <2>3, SortsOfAmps DEF CleanBoundary, CleanAmps
      <4>4. Min(r.boundary) \in r.boundary
        BY <4>2, <4>3, MinOfNaturals
      <4> QED BY <2>1, <2>3, <4>1, <4>2, <4>4, BoundaryOfOne
    <3> QED BY <3>1, <3>2
  <2> QED BY <1>2, <1>4, <2>2, <2>4 DEF Region
<1> QED BY <1>3, <1>4

\* On every tree, whatever the measurements: the reported region holds every impaired amp.
\* (Without a single top amp it need not: that is a recorded finding.)
THEOREM RegionHolds == ASSUME SegmentsAreTrees PROVE Spec => []RegionHoldsImpaired
<1>1. CallInv => RegionHoldsImpaired
  <2> SUFFICES ASSUME CallInv, Done, NEW c \in result.public.candidates
               PROVE  Impaired \subseteq Region(c)
    BY DEF RegionHoldsImpaired
  <2>1. PICK top : IsTree(topo, top) /\ OnlyTopIsRpd(topo, top)
    BY DEF CallInv, SegmentsAreTrees
  <2>2. Measurements /\ c \in PublicLocalization(Answer).candidates
    BY ResultParts DEF CallInv
  <2> QED BY <2>1, <2>2, RegionOnTree
<1> QED BY <1>1, CallInvariant, PTL

--------------------------------------------------------------------------------
(* A single planted fault.                                                    *)

\* An amp that carries a fault, and was measured, is impaired with the class of the RPD.
LEMMA FaultIsSeen ==
  ASSUME NEW top, IsTree(topo, top), Measurements,
         NEW f \in AmpIds(topo), SeenBelow(f), f \notin Missing
  PROVE  f \in Impaired /\ seen[f] = RpdClass
<1>1. f \in NodeIds(topo)
  BY DEF AmpIds
<1>2. f \in AtOrBelow(f)
  BY <1>1, AboveOrders, AboveIsReference DEF AtOrBelow
<1>3. seen[f] = RpdClass
  BY <1>2 DEF SeenBelow
<1> QED BY <1>3, RpdClassIsImpairment DEF Impaired

\* When every amp was measured, the impaired ones are those at or below the fault, and they
\* agree.
LEMMA FaultDecidesImpaired ==
  ASSUME NEW top, IsTree(topo, top), Measurements, Missing = {},
         NEW f \in AmpIds(topo), SeenBelow(f)
  PROVE  ~Conflict /\ \A a \in Impaired : a \in NodeIds(topo) /\ f \in Above(topo, a)
<1>1. ASSUME NEW a \in Impaired
      PROVE  seen[a] = RpdClass /\ a \in NodeIds(topo) /\ f \in Above(topo, a)
  <2>1. a \in AmpIds(topo) /\ a \in NodeIds(topo) /\ seen[a] \in Labels
    BY DEF Impaired, AmpIds
  <2>2. seen[a] # "Clean"
    BY <2>1, LabelsAreImpairments
  <2>3. a \in AtOrBelow(f) /\ seen[a] = RpdClass
    BY <2>1, <2>2 DEF SeenBelow
  <2>4. f \in AtOrAbove(a)
    BY <2>3 DEF AtOrBelow
  <2> QED BY <2>1, <2>3, <2>4, AboveIsReference
<1> QED BY <1>1 DEF Conflict

\* So the common point is the amp of the fault, and so is its reference.
LEMMA FaultIsCommonPoint ==
  ASSUME NEW top, IsTree(topo, top), OnlyTopIsRpd(topo, top), Measurements, Missing = {},
         NEW f \in AmpIds(topo), SeenBelow(f)
  PROVE  Common = f /\ RefFor(topo, Common) = f
<1>1. f \in Impaired /\ f \in NodeIds(topo) /\ topo.kind[f] = "AMP"
  BY FaultIsSeen DEF AmpIds
<1>2. \A a \in Impaired : a \in NodeIds(topo) /\ f \in Above(topo, a)
  BY FaultDecidesImpaired
<1>3. /\ Common \in NodeIds(topo)
      /\ \A m : (\A a \in Impaired : m \in Above(topo, a)) <=> m \in Above(topo, Common)
  BY <1>1, <1>2, CommonPointHolds DEF Common
<1>4. f \in Above(topo, Common)
  BY <1>2, <1>3
<1>5. Common \in Above(topo, f)
  BY <1>1, <1>3, AboveOrders
<1>6. Common = f
  BY <1>1, <1>4, <1>5, AboveOrders
<1>7. RefFor(topo, f) = f
  <2>1. f \in Above(topo, f)
    BY <1>1, AboveOrders
  <2>2. /\ RefFor(topo, f) \in Above(topo, f)
        /\ \A m \in Above(topo, f) : topo.kind[m] # "PASSIVE" => m \in Above(topo, RefFor(topo, f))
    BY <1>1, <2>1, RefForHolds
  <2>3. f \in Above(topo, RefFor(topo, f))
    BY <1>1, <2>1, <2>2
  <2> QED BY <1>1, <2>2, <2>3, AboveOrders
<1> QED BY <1>6, <1>7

\* On every tree: a single fault seen by its amp and everything below it, every amp measured,
\* is named, as a device when it is alone and as the boundary of a branch otherwise.
THEOREM PlantedFaultHolds == ASSUME SegmentsAreTrees PROVE Spec => []PlantedFaultIsNamed
<1>1. CallInv => PlantedFaultIsNamed
  <2> SUFFICES ASSUME CallInv, Done, Missing = {}, NEW f \in AmpIds(topo), SeenBelow(f)
               PROVE  /\ result.public.status = "localized"
                      /\ \A c \in result.public.candidates :
                           IF Impaired = {f} THEN c.type = "device" /\ c.supporting = {f}
                                             ELSE c.type = "branch" /\ c.upstream = f
    BY DEF PlantedFaultIsNamed
  <2>1. PICK top : IsTree(topo, top) /\ OnlyTopIsRpd(topo, top)
    BY DEF CallInv, SegmentsAreTrees
  <2>2. Measurements /\ result.public = PublicLocalization(Answer) /\ IsTopology(topo)
    BY <2>1, ResultParts DEF CallInv, IsTree
  <2>3. f \in Impaired /\ ~Conflict
    BY <2>1, <2>2, FaultIsSeen, FaultDecidesImpaired
  <2>4. Common = f /\ RefFor(topo, Common) = f
    BY <2>1, <2>2, FaultIsCommonPoint
  <2> DEFINE r == CommonPointResult(topo, Impaired, CleanAmps, Missing)
             source == LikelySource(topo, Impaired, CleanAmps)
  <2>5. Answer = r
    BY <2>2, <2>3, AnswerCases
  <2>6. /\ r.status = "localized" /\ r.likely = source.likely /\ r.likely # NoLikely
        /\ r.supporting = Impaired
    BY CommonPointParts
  <2>7. f \notin CleanAmps
    BY <2>3, LabelsAreImpairments DEF Impaired, CleanAmps
  <2>8. source = IF Cardinality(Impaired) = 1
                 THEN [score |-> 90, likely |-> [type |-> "device", upstream |-> {}]]
                 ELSE [score |-> 80, likely |-> [type |-> "branch", upstream |-> {f}]]
    BY <2>1, <2>2, <2>3, <2>4, <2>7, SourceCases
  <2> HIDE DEF r, source
  <2>9. Cardinality(Impaired) = 1 <=> Impaired = {f}
    <3>1. Cardinality({f}) = 1
      BY FS_Singleton
    <3>2. IsFiniteSet(Impaired)
      <4>1. Impaired \subseteq AmpIds(topo)
        BY DEF Impaired
      <4> QED BY <2>2, <4>1, SortsOfAmps, FS_Subset
    <3>3. Cardinality(Impaired) = 1 => \A a, b \in Impaired : a = b
      BY <3>2, AtMostOne
    <3>4. (\A a, b \in Impaired : a = b) => Impaired = {f}
      BY <2>3
    <3> QED BY <3>1, <3>3, <3>4
  <2>10. Impaired # {f} => PublicUpstream(Answer) = f
    <3> SUFFICES ASSUME Impaired # {f} PROVE PublicUpstream(r) = f
      BY <2>5
    <3>1. r.likely.upstream = {f}
      BY <2>6, <2>8, <2>9
    <3>2. f \in Nat
      BY <2>2, SortsOfAmps
    <3>3. PublicUpstream(r) = Min({f})
      BY <3>1 DEF PublicUpstream
    <3> QED BY <3>2, <3>3, MinOfOne
  <2>11. Answer.likely.type = IF Impaired = {f} THEN "device" ELSE "branch"
    BY <2>5, <2>6, <2>8, <2>9
  <2>12. result.public.status = "localized"
    BY <2>2, <2>5, <2>6, PublicParts
  <2>13. ASSUME NEW c \in result.public.candidates
         PROVE  /\ c.type = Answer.likely.type /\ c.supporting = Impaired
                /\ c.upstream = PublicUpstream(Answer)
    BY <2>2, <2>5, <2>6, PublicParts
  <2> QED BY <2>10, <2>11, <2>12, <2>13
<1> QED BY <1>1, CallInvariant, PTL

\* On every tree, with any measurements missing: the amp of a single fault is among the
\* uncertain devices or in the reported region.
THEOREM FaultStaysPossible == ASSUME SegmentsAreTrees PROVE Spec => []PlantedFaultNeverExcluded
<1>1. CallInv => PlantedFaultNeverExcluded
  <2> SUFFICES ASSUME CallInv, Done, NEW f \in AmpIds(topo), SeenBelow(f)
               PROVE  \/ f \in result.internal.uncertain
                      \/ \E c \in result.public.candidates : f \in Region(c)
    BY DEF PlantedFaultNeverExcluded
  <2>1. PICK top : IsTree(topo, top) /\ OnlyTopIsRpd(topo, top)
    BY DEF CallInv, SegmentsAreTrees
  <2>2. /\ Measurements /\ IsTopology(topo)
        /\ result.internal = Answer /\ result.public = PublicLocalization(Answer)
    BY <2>1, ResultParts DEF CallInv, IsTree
  <2>3. CASE f \in Missing
    <3>1. Answer.uncertain = Missing
      <4>1. CASE Conflict \/ Impaired = {}
        BY <2>2, <4>1, AnswerCases, LowParts
      <4>2. CASE ~(Conflict \/ Impaired = {})
        BY <2>2, <4>2, AnswerCases, CommonPointParts
      <4> QED BY <4>1, <4>2
    <3> QED BY <2>2, <2>3, <3>1
  <2>4. CASE f \notin Missing
    <3>1. f \in Impaired
      BY <2>1, <2>2, <2>4, FaultIsSeen
    <3>2. Answer.supporting # {}
      <4>1. CASE Conflict
        BY <2>2, <3>1, <4>1, AnswerCases, LowParts
      <4>2. CASE ~Conflict
        BY <2>2, <3>1, <4>2, AnswerCases, CommonPointParts
      <4> QED BY <4>1, <4>2
    <3>3. PICK c \in PublicLocalization(Answer).candidates : TRUE
      BY <3>2, PublicParts
    <3>4. Impaired \subseteq Region(c)
      BY <2>1, <2>2, RegionOnTree
    <3> QED BY <2>2, <3>1, <3>4
  <2> QED BY <2>3, <2>4
<1> QED BY <1>1, CallInvariant, PTL

================================================================================
