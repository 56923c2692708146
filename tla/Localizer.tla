------------------------------- MODULE Localizer -------------------------------
(******************************************************************************)
(* The common-point localizer: GraphLocalizer.localize over a Topology, and   *)
(* the conversion of its result into the public candidate location.           *)
(*                                                                            *)
(* A topology is a record of two functions on its node ids,                   *)
(*    parent : id -> id of the node above, or None                            *)
(*    kind   : id -> "AMP" | "PASSIVE" | "RPD"                                *)
(* Ids are positive naturals, so that their order is the order sorted() uses. *)
(* A pool is the sequence of classifications localize() receives, each        *)
(* [device |-> amp id or RpdRef, class |-> label]; a measurement is impaired  *)
(* exactly when its class is not "Clean", as both classifiers have it.        *)
(* Confidence is in hundredths.                                               *)
(******************************************************************************)
EXTENDS Naturals, FiniteSets, Sequences, SequencesExt, FiniteSetsExt

None   == 0    \* no node: an absent parentId, an empty common point
RpdRef == 0    \* the reference of the RPD port, as opposed to an amp's

NodeIds(topo) == DOMAIN topo.parent

\* Every node has an entry for its parent, which need not be a node, and a kind.
IsTopology(topo) ==
  /\ NodeIds(topo) \subseteq Nat \ {None}
  /\ IsFiniteSet(NodeIds(topo))
  /\ topo.parent \in [NodeIds(topo) -> Nat]
  /\ topo.kind \in [NodeIds(topo) -> {"AMP", "PASSIVE", "RPD"}]

\* The measured devices: passives and the root are excluded.
AmpIds(topo) == {n \in NodeIds(topo) : topo.kind[n] = "AMP"}

\* The ids from a to the top of the segment; it stops at an id the topology does not
\* hold, and at one it has already seen.
PathToRpd(topo, a) ==
  LET size == Cardinality(NodeIds(topo))
      up[k \in 0 .. size] ==
        IF k = 0 THEN a
        ELSE IF up[k - 1] \in NodeIds(topo) THEN topo.parent[up[k - 1]] ELSE None
      Visited(k) == /\ up[k] \in NodeIds(topo)
                    /\ \A j \in 0 .. k - 1 : up[j] # up[k]
      length == Cardinality({k \in 0 .. size : \A j \in 0 .. k : Visited(j)})
  IN  [k \in 1 .. length |-> up[k - 1]]

\* The reference of a node: itself when it is measurable, else its nearest
\* measurable ancestor, else the RPD.
RefForItself(topo, n) ==       \* Seeded fault: passives are not climbed out of.
  IF n \notin NodeIds(topo) \/ topo.kind[n] = "RPD" THEN RpdRef ELSE n
RefForTopmost(topo, n) ==      \* Seeded fault: the last measurable node, not the first.
  LET path == PathToRpd(topo, n)
      measurable == {i \in DOMAIN path : topo.kind[path[i]] # "PASSIVE"}
  IN  IF measurable = {} \/ topo.kind[path[Max(measurable)]] = "RPD"
      THEN RpdRef ELSE path[Max(measurable)]
RefFor(topo, n) ==
  LET path == PathToRpd(topo, n)
      measurable == {i \in DOMAIN path : topo.kind[path[i]] # "PASSIVE"}
  IN  IF measurable = {} \/ topo.kind[path[Min(measurable)]] = "RPD"
      THEN RpdRef ELSE path[Min(measurable)]

\* The last id that all root-first paths of the impaired amps share from the start.
CommonPointAmpFirst(topo, impaired) ==   \* Seeded fault: the paths are not reversed.
  LET shared == LongestCommonPrefix({PathToRpd(topo, a) : a \in impaired})
  IN  IF shared = <<>> THEN None ELSE Last(shared)
CommonPoint(topo, impaired) ==
  LET shared == LongestCommonPrefix({Reverse(PathToRpd(topo, a)) : a \in impaired})
  IN  IF shared = <<>> THEN None ELSE Last(shared)

\* Clean amps that are the parent of an impaired one.
CleanBoundary(topo, impaired, clean) ==
  clean \cap {topo.parent[a] : a \in impaired \cap NodeIds(topo)}

--------------------------------------------------------------------------------
\* What localize() answers. "likely" holds the location type and the upstream
\* boundary, a set of at most one reference, empty when the code leaves it unset.
NoLikely == [type |-> "none", upstream |-> {}]

LowForgetful(confidence, supporting, uncertain) ==   \* Seeded fault: no uncertain list.
  [status |-> "low_confidence", confidence |-> confidence, likely |-> NoLikely,
   supporting |-> supporting, boundary |-> {}, uncertain |-> {}]
Low(confidence, supporting, uncertain) ==
  [status |-> "low_confidence", confidence |-> confidence, likely |-> NoLikely,
   supporting |-> supporting, boundary |-> {}, uncertain |-> uncertain]

\* Seeded fault: two impaired amps are taken for one device.
LikelySourceTwoAsOne(topo, impaired, clean) ==
  LET common == CommonPoint(topo, impaired)
  IN  IF common # None /\ common \in clean
      THEN [score |-> 85, likely |-> [type |-> "span", upstream |-> {RefFor(topo, common)}]]
      ELSE IF Cardinality(impaired) <= 2
      THEN [score |-> 90, likely |-> [type |-> "device", upstream |-> {}]]
      ELSE [score |-> 80, likely |-> [type |-> "branch", upstream |-> {RefFor(topo, common)}]]

\* The three shapes of a common-point answer, with the score of each.
LikelySource(topo, impaired, clean) ==
  LET common == CommonPoint(topo, impaired)
      anchor == IF common # None THEN common ELSE Min(impaired)
  IN  IF common # None /\ common \in clean
      THEN [score |-> 85, likely |-> [type |-> "span", upstream |-> {RefFor(topo, common)}]]
      ELSE IF Cardinality(impaired) = 1
      THEN [score |-> 90, likely |-> [type |-> "device", upstream |-> {}]]
      ELSE [score |-> 80, likely |-> [type |-> "branch", upstream |-> {RefFor(topo, anchor)}]]

\* Seeded fault: the confidence alone decides, uncertain devices or not.
CommonPointResultByScore(topo, impaired, clean, uncertain) ==
  LET source == LikelySource(topo, impaired, clean)
      confidence == source.score - (IF uncertain = {} THEN 0 ELSE 15)
  IN  [status |-> IF confidence >= 60 THEN "localized" ELSE "low_confidence",
       confidence |-> confidence, likely |-> source.likely, supporting |-> impaired,
       boundary |-> CleanBoundary(topo, impaired, clean), uncertain |-> uncertain]

CommonPointResult(topo, impaired, clean, uncertain) ==
  LET source == LikelySource(topo, impaired, clean)
      confidence == source.score - (IF uncertain = {} THEN 0 ELSE 15)
  IN  [status |-> IF confidence >= 60 /\ uncertain = {} THEN "localized" ELSE "low_confidence",
       confidence |-> confidence, likely |-> source.likely, supporting |-> impaired,
       boundary |-> CleanBoundary(topo, impaired, clean), uncertain |-> uncertain]

\* The class of each measured amp: a later classification replaces an earlier one.
AmpClass(pool) ==
  [a \in {pool[i].device : i \in DOMAIN pool} \ {RpdRef} |->
     pool[Max({i \in DOMAIN pool : pool[i].device = a})].class]

ImpairedLabelsOfAmps(pool) ==   \* Seeded fault: the RPD's class is not compared.
  {pool[i].class : i \in {j \in DOMAIN pool : pool[j].device # RpdRef}} \ {"Clean"}
ImpairedLabels(pool) == {pool[i].class : i \in DOMAIN pool} \ {"Clean"}

Localize(topo, pool) ==
  LET ampClass  == AmpClass(pool)
      measured  == DOMAIN ampClass
      impaired  == {a \in measured : ampClass[a] # "Clean"}
      uncertain == AmpIds(topo) \ measured
  IN  IF Cardinality(ImpairedLabels(pool)) > 1 THEN Low(30, impaired, uncertain)
      ELSE IF impaired = {} THEN Low(20, {}, uncertain)
      ELSE CommonPointResult(topo, impaired, measured \ impaired, uncertain)

--------------------------------------------------------------------------------
\* The public result: at most one candidate, with both boundaries filled in.
PublicUpstream(result) ==
  IF result.likely.upstream # {} THEN Min(result.likely.upstream)
  ELSE IF result.boundary # {} THEN Min(result.boundary)
  ELSE RpdRef

PublicLocalization(result) ==
  [status     |-> result.status,
   confidence |-> result.confidence,
   candidates |->
     IF result.supporting = {} THEN {}
     ELSE {[type       |-> IF result.likely = NoLikely THEN "branch" ELSE result.likely.type,
            upstream   |-> PublicUpstream(result),
            supporting |-> result.supporting,
            clean      |-> result.boundary,
            uncertain  |-> result.uncertain]}]

================================================================================
