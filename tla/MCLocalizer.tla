------------------------------ MODULE MCLocalizer ------------------------------
(* Every small segment of each shape the server builds a topology from.       *)
EXTENDS LocalizerCases

\* All ways to hang the nodes 1..n under each other or under "top", without cycles.
ParentMaps(n, top) ==
  LET Acyclic(p) == \E rank \in [1 .. n -> 1 .. n] :
                      \A m \in 1 .. n : p[m] \in 1 .. n => rank[p[m]] < rank[m]
  IN  {p \in [1 .. n -> (1 .. n) \cup {top}] : Acyclic(p)}

\* Segments as Topology.from_amp_list builds them: amps only, no RPD node.
AmpLists(n) == {[parent |-> p, kind |-> [m \in 1 .. n |-> "AMP"]] : p \in ParentMaps(n, None)}

TopAmps(t) == {m \in NodeIds(t) : t.parent[m] = None}
AmpTrees(n) == {t \in AmpLists(n) : Cardinality(TopAmps(t)) = 1}

\* Segments as Topology.from_data_package builds them: node n+1 is the RPD, the
\* others are amps and passives below it.
Plants(n) ==
  {[parent |-> [m \in 1 .. n + 1 |-> IF m <= n THEN p[m] ELSE None],
    kind   |-> [m \in 1 .. n + 1 |-> IF m > n THEN "RPD"
                                     ELSE IF m \in amps THEN "AMP" ELSE "PASSIVE"]]
     : p \in ParentMaps(n, n + 1), amps \in SUBSET (1 .. n)}

TreesAndPlants == AmpTrees(4) \cup Plants(3)
FlatLists == AmpLists(3)

================================================================================
