------------------------------ MODULE PlantSegment ------------------------------
(* The topology the localizer works on when it comes from a plant document:     *)
(* Topology.from_data_package over the parser's result.                         *)
EXTENDS PlantTopology, Localizer

\* _norm_type, with one kind for all passive types; a root has no node above it.
Kind(n) == IF IsRoot(n) THEN "RPD" ELSE IF doc.type[n] \in AmpTypes THEN "AMP" ELSE "PASSIVE"

\* Seeded fault: only measured devices are kept.
SegmentOfAmps ==
  LET amps == {n \in DOMAIN nodes : Kind(n) = "AMP"}
  IN  [parent |-> [n \in amps |-> nodes[n].parent], kind |-> [n \in amps |-> "AMP"]]
Segment == [parent |-> [n \in DOMAIN nodes |-> nodes[n].parent],
            kind   |-> [n \in DOMAIN nodes |-> Kind(n)]]

\* The fallback of the localizer for impaired amps without a common ancestor is for
\* amp lists only: in a segment of a plant document any impaired amps have a common
\* point, which is on every one of their paths, and each path ends at the RPD.
ImpairedAmpsHaveACommonPoint ==
  pc = "done" /\ Scoped =>
    \A impaired \in SUBSET AmpIds(Segment) \ {{}} :
      LET common == CommonPoint(Segment, impaired)
      IN  \A a \in impaired :
            LET path == PathToRpd(Segment, a)
            IN  /\ path[Len(path)] \in request.rpd
                /\ \E i \in DOMAIN path : path[i] = common

================================================================================
