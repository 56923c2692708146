----------------------------- MODULE PlantTopology -----------------------------
(******************************************************************************)
(* parse_data_package: a plant document, which is a graph of components of     *)
(* every type, becomes the parent links and distances of its RF devices.       *)
(* Ports, cables and components of unknown type are walked through, subscriber *)
(* homes are dropped. One action per turn of a loop of the code.               *)
(*                                                                             *)
(* A document is [type, length, portId : functions on its component ids,       *)
(* edges : a set of pairs]. Two lists of the code are sets here, the edges and *)
(* the components, and what depends on their order is any order: that of the   *)
(* roots, and that in which the fresh children of a component are pushed.      *)
(* Lengths are whole metres, so that round() changes nothing.                  *)
(******************************************************************************)
EXTENDS Naturals, FiniteSets, Sequences

CONSTANTS Documents,   \* the plant documents to parse
          Requests     \* the (rpd_id, port_id) arguments, each a set of at most one

NoParent == 0          \* component ids are positive

ASSUME DocumentsAreGraphs ==
  \A d \in Documents :
    /\ IsFiniteSet(DOMAIN d.type) /\ DOMAIN d.type \subseteq Nat \ {NoParent}
    /\ d.length \in [DOMAIN d.type -> Nat]

ASSUME RequestsNameOneRpd == \A q \in Requests : \A a, b \in q.rpd : a = b

VARIABLES doc, request,
          pc,          \* the phase: "start", "scope", "roots", "walk", "done" or "refused"
          scope,       \* the ids the walk is restricted to
          todo,        \* the stack of the scope's traversal, top first
          roots,       \* the roots still to walk from
          stack,       \* the stack of the walk: [node, sig, len], top first
          visited,     \* visited_edges
          nodes        \* id -> [parent, dist], the devices registered so far

vars == <<doc, request, pc, scope, todo, roots, stack, visited, nodes>>

Ids == DOMAIN doc.type
RootTypes == {"RfSource"}
AmpTypes == {"RfAmp"}
PassiveTypes == {"RfSplitter", "RfTap", "RfCoupler", "RfPowerInserter"}
LeafTypes == {"device"}
IsRoot(n) == doc.type[n] \in RootTypes
IsLeaf(n) == doc.type[n] \in LeafTypes
IsSignificant(n) == doc.type[n] \in RootTypes \cup AmpTypes \cup PassiveTypes

\* Seeded fault: the whole document's edges are followed.
ChildrenAnywhere(n) == {c \in Ids : <<n, c>> \in doc.edges}
Downstream(n) == {c \in Ids : <<n, c>> \in doc.edges}
Children(n) == Downstream(n) \cap scope

\* The sequences that list the elements of S.
Orders(S) == {s \in [1 .. Cardinality(S) -> S] : \A x \in S : \E i \in DOMAIN s : s[i] = x}

Init ==
  /\ doc \in Documents
  /\ request \in Requests
  /\ pc = "start"
  /\ scope = {} /\ todo = <<>> /\ roots = <<>> /\ stack = <<>> /\ visited = {} /\ nodes = <<>>

--------------------------------------------------------------------------------
(* Resolving the request and collecting the segment of its port.               *)

Scoped == request.rpd # {}
Half == (request.rpd = {}) # (request.port = {})
RpdFound == \E r \in request.rpd : r \in Ids /\ IsRoot(r)

MatchingPorts(rpd) ==
  {p \in Downstream(rpd) : doc.type[p] = "RfPort" /\ doc.portId[p] \in request.port}

Resolves == RpdFound /\ \A r \in request.rpd : Cardinality(MatchingPorts(r)) = 1

Refused == Half \/ (Scoped /\ ~Resolves)

Refuse ==
  /\ pc = "start"
  /\ Refused
  /\ pc' = "refused"
  /\ UNCHANGED <<doc, request, scope, todo, roots, stack, visited, nodes>>

ParseWhole ==
  /\ pc = "start"
  /\ ~Refused /\ ~Scoped
  /\ scope' = Ids
  /\ pc' = "roots"
  /\ UNCHANGED <<doc, request, todo, roots, stack, visited, nodes>>

ParseSegment ==
  /\ pc = "start"
  /\ ~Refused /\ Scoped
  /\ \E r \in request.rpd : \E p \in MatchingPorts(r) : scope' = {r, p} /\ todo' = <<p>>
  /\ pc' = "scope"
  /\ UNCHANGED <<doc, request, roots, stack, visited, nodes>>

ExtendScopeForgetful ==   \* Seeded fault: a child is pushed again when it is met again.
  /\ pc = "scope"
  /\ todo # <<>>
  /\ LET found == Downstream(Head(todo))
     IN  /\ scope' = scope \cup found
         /\ \E order \in Orders(found) : todo' = order \o Tail(todo)
  /\ UNCHANGED <<doc, request, pc, roots, stack, visited, nodes>>

ExtendScope ==
  /\ pc = "scope"
  /\ todo # <<>>
  /\ LET found == Downstream(Head(todo)) \ scope
     IN  /\ scope' = scope \cup found
         /\ \E order \in Orders(found) : todo' = order \o Tail(todo)
  /\ UNCHANGED <<doc, request, pc, roots, stack, visited, nodes>>

EndScope ==
  /\ pc = "scope"
  /\ todo = <<>>
  /\ pc' = "roots"
  /\ UNCHANGED <<doc, request, scope, todo, roots, stack, visited, nodes>>

--------------------------------------------------------------------------------
(* The walk: depth first, carrying the nearest device above and the cable       *)
(* length since it.                                                             *)

Unfed(n) == \A m \in scope : n \notin Children(m)
Sources == {n \in scope : IsRoot(n)}

\* The requested RPD, else the sources nothing feeds, else the sources, else the
\* devices nothing feeds.
RootIds ==
  IF Scoped THEN request.rpd
  ELSE IF \E n \in Sources : Unfed(n) THEN {n \in Sources : Unfed(n)}
  ELSE IF Sources # {} THEN Sources
  ELSE {n \in scope : IsSignificant(n) /\ Unfed(n)}

ChooseRoots ==
  /\ pc = "roots"
  /\ roots' \in Orders(RootIds)
  /\ pc' = "walk"
  /\ UNCHANGED <<doc, request, scope, todo, stack, visited, nodes>>

\* _register: the first path to a device gives its parent and distance.
RegisterLast(ids, node) ==   \* Seeded fault: a later path overwrites them.
  nodes' = [n \in DOMAIN nodes \cup ids |-> IF n \in ids THEN node ELSE nodes[n]]
Register(ids, node) ==
  nodes' = [n \in DOMAIN nodes \cup ids |-> IF n \in DOMAIN nodes THEN nodes[n] ELSE node]

StartRoot ==
  /\ pc = "walk"
  /\ stack = <<>>
  /\ roots # <<>>
  /\ Register({Head(roots)}, [parent |-> NoParent, dist |-> 0])
  /\ stack' = <<[node |-> Head(roots), sig |-> Head(roots), len |-> 0]>>
  /\ roots' = Tail(roots)
  /\ UNCHANGED <<doc, request, pc, scope, todo, visited>>

\* Seeded fault: every child is taken for the device above.
ContinueFromChild(frame, c) == [node |-> c, sig |-> c, len |-> 0]
\* Seeded fault: the length is not reset below a device.
ContinueAccumulating(frame, c) ==
  [node |-> c,
   sig |-> IF IsSignificant(c) THEN c ELSE frame.sig,
   len |-> frame.len + (IF doc.type[c] = "RfCable" THEN doc.length[c] ELSE 0)]

\* How the walk goes on at a child: from the child itself when it is a device, else
\* with the same device above and the cable's length added.
Continue(frame, c) ==
  IF IsSignificant(c) THEN [node |-> c, sig |-> c, len |-> 0]
  ELSE [node |-> c, sig |-> frame.sig,
        len |-> frame.len + (IF doc.type[c] = "RfCable" THEN doc.length[c] ELSE 0)]

\* The children whose edge the walk has not followed yet.
Fresh(n) == {c \in Children(n) : <<n, c>> \notin visited}

\* Seeded fault: the walk does not go on below a device.
VisitFrameStopping(frame, fresh) ==
  /\ visited' = visited \cup ({frame.node} \X fresh)
  /\ Register({c \in fresh : IsSignificant(c)},
              [parent |-> frame.sig, dist |-> nodes[frame.sig].dist + frame.len])
  /\ \E order \in Orders({c \in fresh : ~IsLeaf(c) /\ ~IsSignificant(c)}) :
       stack' = [i \in DOMAIN order |-> Continue(frame, order[i])] \o Tail(stack)
VisitFrame(frame, fresh) ==
  /\ visited' = visited \cup ({frame.node} \X fresh)
  /\ Register({c \in fresh : IsSignificant(c)},
              [parent |-> frame.sig, dist |-> nodes[frame.sig].dist + frame.len])
  /\ \E order \in Orders({c \in fresh : ~IsLeaf(c)}) :
       stack' = [i \in DOMAIN order |-> Continue(frame, order[i])] \o Tail(stack)

Visit ==
  /\ pc = "walk"
  /\ stack # <<>>
  /\ VisitFrame(Head(stack), Fresh(Head(stack).node))
  /\ UNCHANGED <<doc, request, pc, scope, todo, roots>>

Finish ==
  /\ pc = "walk"
  /\ stack = <<>> /\ roots = <<>>
  /\ pc' = "done"
  /\ UNCHANGED <<doc, request, scope, todo, roots, stack, visited, nodes>>

Step == \/ Refuse \/ ParseWhole \/ ParseSegment \/ ExtendScope \/ EndScope
        \/ ChooseRoots \/ StartRoot \/ Visit \/ Finish

Ended == pc \in {"done", "refused"} /\ UNCHANGED vars

Next == Step \/ Ended

Spec == Init /\ [][Next]_vars

\* The parser is a sequential function: it goes on until it returns or raises.
FairSpec == Spec /\ WF_vars(Step)

--------------------------------------------------------------------------------
(* Properties.                                                                 *)

Frame == [node : scope, sig : DOMAIN nodes, len : Nat]

\* The walk stays in the scope, and its stack only names registered devices, so the
\* code's fallback for a parent it does not know is never needed.
TypeOK ==
  /\ pc \in {"start", "scope", "roots", "walk", "done", "refused"}
  /\ scope \subseteq Ids
  /\ todo \in Seq(scope)
  /\ roots \in Seq(RootIds)
  /\ stack \in Seq(Frame)
  /\ visited \subseteq doc.edges
  /\ DOMAIN nodes \subseteq {n \in scope : IsSignificant(n)}
  /\ \A n \in DOMAIN nodes : nodes[n] \in [parent : DOMAIN nodes \cup {NoParent}, dist : Nat]

\* The components the roots reach without passing through a subscriber home: the least
\* set that holds the roots and every child, other than a home, of one it holds.
Closed(S) ==
  /\ RootIds \subseteq S
  /\ \A n \in S : \A c \in Children(n) : ~IsLeaf(c) => c \in S
Reached == {n \in scope : \A S \in SUBSET scope : Closed(S) => n \in S}

\* Whatever the graph's meshes and cycles, and although the walk follows an edge only
\* once and keeps the first path, the parser returns exactly the devices it can reach.
RegistersTheReachable ==
  pc = "done" => DOMAIN nodes = {n \in Reached : IsSignificant(n)}

\* Parent links never form a cycle and never leave the result: every set that holds the
\* registered roots, and every device whose parent it holds, holds them all.
EveryDeviceHangsFromARoot ==
  \A S \in SUBSET DOMAIN nodes :
    (\A n \in DOMAIN nodes : nodes[n].parent \in S \cup {NoParent} => n \in S) => S = DOMAIN nodes

\* What can be met from device p over connectors alone, with the cable on the way.
Runs(p) ==
  LET Added(c) == IF doc.type[c] = "RfCable" THEN doc.length[c] ELSE 0
      runs[k \in 0 .. Cardinality(scope)] ==
        IF k = 0 THEN {<<p, 0>>}
        ELSE runs[k - 1] \cup
             UNION {{<<c, run[2] + Added(c)>> : c \in Children(run[1])} :
                      run \in {r \in runs[k - 1] :
                                 r = <<p, 0>> \/ ~(IsSignificant(r[1]) \/ IsLeaf(r[1]))}}
  IN  runs[Cardinality(scope)]

\* Which path wins in a meshed plant depends on the traversal, but parent and distance
\* are always those of one path: connectors alone lead from the parent to the device,
\* and their cables are as long as the two distances are apart.
ParentAndDistanceAgree ==
  pc = "done" =>
    \A n \in DOMAIN nodes :
      LET p == nodes[n].parent
      IN  IF p = NoParent THEN n \in RootIds /\ nodes[n].dist = 0
          ELSE /\ nodes[n].dist >= nodes[p].dist
               /\ <<n, nodes[n].dist - nodes[p].dist>> \in Runs(p)

\* What the port leads to without going back through the RPD.
BelowPort(rpd) ==
  {n \in Ids : \A S \in SUBSET Ids :
     (MatchingPorts(rpd) \subseteq S /\ \A m \in S \ {rpd} : Downstream(m) \subseteq S) => n \in S}

\* A segment is its RPD and all that is below the requested port. An edge back to the RPD
\* does not lead on into its other ports; a cable into another port's branch makes what it
\* reaches part of what is below this port.
SegmentIsBelowItsPort ==
  pc = "done" /\ Scoped =>
    \A r \in request.rpd : scope = {r} \cup BelowPort(r) /\ DOMAIN nodes \subseteq scope

\* The parser returns or raises: no cycle of the document keeps a loop going.
ParsingEnds == <>(pc \in {"done", "refused"})

================================================================================
