----------------------------- MODULE LocalizerCases -----------------------------
(******************************************************************************)
(* One call of the localizer on one plant segment and one set of amp          *)
(* measurements, and what a technician may conclude from its answer. The      *)
(* segments come as a constant, so that a configuration chooses their shape.  *)
(******************************************************************************)
EXTENDS Localizer

CONSTANTS Topologies,  \* the segments to try
          Labels       \* impairment classes

ASSUME LabelsAreImpairments == Labels # {} /\ Labels \cap {"Clean", "missing"} = {}

VARIABLES topo,     \* the segment
          seen,     \* amp -> the class measured, or "missing"
          answers   \* what the call returned, internal and public: empty before it

vars == <<topo, seen, answers>>

Done == answers # <<>>
result == answers[1]

\* The RPD capture that started the run is impaired with rpdClass; missing amps
\* contribute no classification.
PoolOf(rpdClass, readings) ==
  LET amps == {a \in DOMAIN readings : readings[a] # "missing"}
  IN  <<[device |-> RpdRef, class |-> rpdClass]>> \o
      SetToSeq({[device |-> a, class |-> readings[a]] : a \in amps})

RpdClass == CHOOSE l \in Labels : TRUE

Init == /\ topo \in Topologies
        /\ seen \in [AmpIds(topo) -> Labels \cup {"Clean", "missing"}]
        /\ answers = <<>>

CallLocalizer ==
  /\ ~Done
  /\ answers' = LET internal == Localize(topo, PoolOf(RpdClass, seen))
                IN  <<[internal |-> internal, public |-> PublicLocalization(internal)]>>
  /\ UNCHANGED <<topo, seen>>

Spec == Init /\ [][CallLocalizer]_vars

--------------------------------------------------------------------------------
(* Reference definitions, independent of paths: the nodes at or above a node   *)
(* are the least set that holds the node and is closed under "parent".         *)

AtOrAbove(n) ==
  LET Closed(S) == n \in S /\ \A m \in S : topo.parent[m] \in S \cup {None}
  IN  {m \in NodeIds(topo) : \A S \in SUBSET NodeIds(topo) : Closed(S) => m \in S}

AtOrBelow(n) == {m \in NodeIds(topo) : n \in AtOrAbove(m)}

Impaired == {a \in AmpIds(topo) : seen[a] \in Labels}
Missing  == {a \in AmpIds(topo) : seen[a] = "missing"}

\* The nodes a technician sent to the reported boundary would walk.
Region(candidate) ==
  IF candidate.upstream = RpdRef THEN NodeIds(topo) ELSE AtOrBelow(candidate.upstream)

Localized == Done /\ result.public.status = "localized"

\* Measurable nodes that every impaired amp lies at or below.
CommonAncestors ==
  {m \in NodeIds(topo) : topo.kind[m] # "PASSIVE" /\ \A a \in Impaired : m \in AtOrAbove(a)}

\* The measurements when a fault at amp f is seen by f and everything below it.
SeenBelow(f) ==
  \A a \in AmpIds(topo) \ Missing :
    seen[a] = (IF a \in AtOrBelow(f) THEN RpdClass ELSE "Clean")

--------------------------------------------------------------------------------
(* Properties.                                                                *)

\* The answer is a well-formed public result: confidence is a percentage, there
\* is at most one candidate, and its boundary is the RPD or an amp of the segment.
TypeOK ==
  /\ seen \in [AmpIds(topo) -> Labels \cup {"Clean", "missing"}]
  /\ Done => /\ result.public.confidence \in 0 .. 100
             /\ Cardinality(result.public.candidates) <= 1
             /\ \A c \in result.public.candidates : c.upstream \in AmpIds(topo) \cup {RpdRef}

\* "Localized" is only said when nothing could overturn it: every amp of the
\* segment was measured, some amp is impaired, and all that are carry the class
\* the RPD shows (localize's uncertain and conflicting checks).
LocalizedIsConclusive ==
  Localized => /\ Missing = {}
               /\ Impaired # {}
               /\ \A a \in Impaired : seen[a] = RpdClass

\* The reported region holds every impaired amp: nobody is sent below a boundary
\* that part of the evidence lies outside of.
RegionHoldsImpaired ==
  Done => \A c \in result.public.candidates : Impaired \subseteq Region(c)

\* For a branch or a span, path walking, prefix comparison and the climb out of
\* passives compute the lowest measurable common ancestor: the boundary is a
\* common ancestor and every other one lies above it.
BoundaryIsLowestCommonAncestor ==
  Done =>
    \A up \in result.internal.likely.upstream :
      IF CommonAncestors \cap AmpIds(topo) = {} THEN up = RpdRef
      ELSE up \in CommonAncestors /\ CommonAncestors \subseteq AtOrAbove(up)

\* A single fault seen by its amp and everything below it, every amp measured: the
\* answer is "localized", and it names that amp, as the downstream device when it
\* is alone and as the branch boundary otherwise.
PlantedFaultIsNamed ==
  Done /\ Missing = {} =>
    \A f \in AmpIds(topo) : SeenBelow(f) =>
      /\ result.public.status = "localized"
      /\ \A c \in result.public.candidates :
           IF Impaired = {f} THEN c.type = "device" /\ c.supporting = {f}
                             ELSE c.type = "branch" /\ c.upstream = f

\* Missing measurements may blur that answer but never exclude the fault: its amp
\* is in the reported region, or among the uncertain devices.
PlantedFaultNeverExcluded ==
  Done =>
    \A f \in AmpIds(topo) : SeenBelow(f) =>
      \/ f \in result.internal.uncertain
      \/ \E c \in result.public.candidates : f \in Region(c)

================================================================================
