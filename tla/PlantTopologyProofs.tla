--------------------------- MODULE PlantTopologyProofs ---------------------------
(* Theorems about the plant parser, for every finite document and request: its   *)
(* types, that its parent links are a forest below its roots, that it finds      *)
(* exactly the devices the roots reach and no others than the segment's, that    *)
(* distances are lengths of cable, and that a segment is a tree below its RPD,   *)
(* in which the localizer finds a common point.                                  *)
EXTENDS PlantSegment, LocalizerLemmas

--------------------------------------------------------------------------------
(* Lists.                                                                        *)

\* An order of a finite set is a sequence of its elements that misses none.
LEMMA OrdersAreLists ==
  ASSUME NEW S, IsFiniteSet(S), NEW s \in Orders(S)
  PROVE  s \in Seq(S) /\ \A x \in S : \E i \in DOMAIN s : s[i] = x
<1>1. Cardinality(S) \in Nat
  BY FS_CardinalityType
<1>2. s \in [1 .. Cardinality(S) -> S]
  BY DEF Orders
<1>3. s \in Seq(S)
  BY <1>1, <1>2
<1> QED BY <1>3 DEF Orders

Elements(s) == {s[i] : i \in DOMAIN s}

\* Popping t and pushing s: what is then on the stack is from s or t, and of those only
\* the head of t may be gone.
LEMMA PopAndPush ==
  ASSUME NEW A, NEW s \in Seq(A), NEW t \in Seq(A), t # <<>>, NEW u, u = s \o Tail(t)
  PROVE  /\ u \in Seq(A)
         /\ Elements(s) \subseteq Elements(u)
         /\ Elements(t) \subseteq Elements(u) \cup {Head(t)}
         /\ Elements(u) \subseteq Elements(s) \cup Elements(t)
<1>1. Tail(t) \in Seq(A) /\ Len(Tail(t)) = Len(t) - 1 /\ Len(t) \in Nat /\ Len(t) > 0
  OBVIOUS
<1>2. \A i \in 1 .. Len(Tail(t)) : Tail(t)[i] = t[i + 1]
  OBVIOUS
<1>3. u \in Seq(A) /\ Len(u) = Len(s) + Len(Tail(t)) /\ Len(s) \in Nat
  BY <1>1
<1>4. \A k \in 1 .. Len(u) : u[k] = IF k <= Len(s) THEN s[k] ELSE Tail(t)[k - Len(s)]
  BY <1>1
<1>5. DOMAIN s = 1 .. Len(s) /\ DOMAIN t = 1 .. Len(t) /\ DOMAIN u = 1 .. Len(u)
  BY <1>3
<1>6. \A i \in DOMAIN s : u[i] = s[i] /\ i \in DOMAIN u
  BY <1>1, <1>3, <1>4, <1>5
<1>7. ASSUME NEW i \in DOMAIN t, t[i] # Head(t)
      PROVE  \E k \in DOMAIN u : u[k] = t[i]
  <2>1. i # 1 /\ i - 1 \in 1 .. Len(Tail(t))
    BY <1>1, <1>5, <1>7
  <2>2. Len(s) + (i - 1) \in DOMAIN u /\ u[Len(s) + (i - 1)] = Tail(t)[i - 1]
    BY <2>1, <1>1, <1>3, <1>4, <1>5
  <2> QED BY <2>1, <2>2, <1>2
<1>8. ASSUME NEW k \in DOMAIN u
      PROVE  (\E i \in DOMAIN s : u[k] = s[i]) \/ (\E i \in DOMAIN t : u[k] = t[i])
  <2>1. CASE k <= Len(s)
    BY <2>1, <1>3, <1>4, <1>5
  <2>2. CASE k > Len(s)
    <3>1. k - Len(s) \in 1 .. Len(Tail(t)) /\ u[k] = Tail(t)[k - Len(s)]
      BY <2>2, <1>1, <1>3, <1>4, <1>5
    <3>2. k - Len(s) + 1 \in DOMAIN t /\ u[k] = t[k - Len(s) + 1]
      BY <3>1, <1>1, <1>2, <1>5
    <3> QED BY <3>2
  <2> QED BY <2>1, <2>2, <1>3, <1>5
<1>9. Elements(s) \subseteq Elements(u)
  BY <1>6, Zenon DEF Elements
<1>10. Elements(t) \subseteq Elements(u) \cup {Head(t)}
  BY <1>7, Zenon DEF Elements
<1>11. Elements(u) \subseteq Elements(s) \cup Elements(t)
  BY <1>8, Zenon DEF Elements
<1> QED BY <1>3, <1>9, <1>10, <1>11

--------------------------------------------------------------------------------
(* The invariant. "Met" is what the walk has reached so far; every component met *)
(* waits among the roots, waits on the stack, or had all its edges followed, and  *)
(* nothing is met that a set closed under reachability could leave out.           *)

Phases ==
  /\ doc \in Documents /\ request \in Requests
  /\ pc \in {"start", "refused", "scope", "roots"} =>
       roots = <<>> /\ stack = <<>> /\ visited = {} /\ nodes = <<>>
  /\ pc \in {"scope", "roots", "walk", "done"} /\ Scoped =>
       request.rpd \subseteq {n \in scope : IsRoot(n)}
  /\ pc = "done" => roots = <<>> /\ stack = <<>>

ToStart(n) == \E i \in DOMAIN roots : roots[i] = n
OnStack(n) == \E i \in DOMAIN stack : stack[i].node = n
Expanded(n) == \A c \in Children(n) : <<n, c>> \in visited
Target(n) == n \in scope /\ ~IsLeaf(n) /\ \E m \in scope : <<m, n>> \in visited
Met(n) == n \in RootIds \/ Target(n)

Walking == pc \in {"walk", "done"}
AllAreFollowed == Walking => \A n : Met(n) => ToStart(n) \/ OnStack(n) \/ Expanded(n)
DevicesAreRegistered == Walking => \A n : Met(n) /\ IsSignificant(n) => ToStart(n) \/ n \in DOMAIN nodes
NothingElseIsMet ==
  Walking => \A S \in SUBSET scope : Closed(S) =>
               DOMAIN nodes \subseteq S /\ \A n : OnStack(n) => n \in S

WalkInv == AllAreFollowed /\ DevicesAreRegistered /\ NothingElseIsMet

\* The scope of a parse is finite, and so is every part of it.
LEMMA ScopeIsFinite ==
  ASSUME TypeOK, Phases, NEW S, S \subseteq scope
  PROVE  IsFiniteSet(S)
<1>1. IsFiniteSet(Ids)
  BY DocumentsAreGraphs DEF Phases, Ids
<1> QED BY <1>1, FS_Subset DEF TypeOK

\* The roots a walk starts from are devices inside the scope.
LEMMA RootsAreDevices ==
  ASSUME TypeOK, Phases, pc \in {"roots", "walk", "done"}
  PROVE  RootIds \subseteq {n \in scope : IsSignificant(n)}
BY DEF Phases, RootIds, Sources, IsRoot, IsSignificant

\* The empty result and the empty lists of the phases before the walk.
LEMMA NothingRegistered == DOMAIN <<>> = {}
OBVIOUS

--------------------------------------------------------------------------------
(* What one turn of the walk does.                                                *)

\* What expanding one frame does: it registers the fresh devices below the frame's
\* device, at its distance plus the length of the run, and pushes what has connections
\* of its own.
LEMMA VisitEffect ==
  ASSUME TypeOK, Phases, Visit
  PROVE  LET frame == Head(stack)
             fresh == Fresh(frame.node)
         IN  /\ OnStack(frame.node)
             /\ frame \in Frame
             /\ DOMAIN nodes' = DOMAIN nodes \cup {c \in fresh : IsSignificant(c)}
             /\ \A n \in DOMAIN nodes : nodes'[n] = nodes[n]
             /\ \A n \in DOMAIN nodes' \ DOMAIN nodes :
                  nodes'[n] = [parent |-> frame.sig, dist |-> nodes[frame.sig].dist + frame.len]
             /\ stack' \in Seq(Frame')
             /\ \A c \in fresh : ~IsLeaf(c) => OnStack(c)'
             /\ \A n : OnStack(n) => n = frame.node \/ OnStack(n)'
             /\ \A n : OnStack(n)' => OnStack(n) \/ (n \in fresh /\ ~IsLeaf(n))
             /\ \A k \in DOMAIN stack' :
                  \/ \E i \in DOMAIN stack : stack'[k] = stack[i]
                  \/ \E c \in fresh : ~IsLeaf(c) /\ stack'[k] = Continue(frame, c)
<1> DEFINE frame == Head(stack)
           fresh == Fresh(frame.node)
           pushed == {c \in fresh : ~IsLeaf(c)}
<1>1. stack \in Seq(Frame) /\ stack # <<>> /\ VisitFrame(frame, fresh)
  BY DEF TypeOK, Visit
<1>2. frame = stack[1] /\ 1 \in DOMAIN stack /\ frame \in Frame
  BY <1>1
<1>3. /\ DOMAIN nodes' = DOMAIN nodes \cup {c \in fresh : IsSignificant(c)}
      /\ \A n \in DOMAIN nodes : nodes'[n] = nodes[n]
      /\ \A n \in DOMAIN nodes' \ DOMAIN nodes :
           nodes'[n] = [parent |-> frame.sig, dist |-> nodes[frame.sig].dist + frame.len]
  BY <1>1 DEF VisitFrame, Register
<1>4. scope' = scope /\ doc' = doc
  BY DEF Visit
<1>5. PICK order \in Orders(pushed) :
        stack' = [i \in DOMAIN order |-> Continue(frame, order[i])] \o Tail(stack)
  BY <1>1 DEF VisitFrame
<1> DEFINE frames == [i \in DOMAIN order |-> Continue(frame, order[i])]
<1>6. pushed \subseteq scope /\ IsFiniteSet(pushed)
  BY ScopeIsFinite DEF Fresh, Children
<1>7. order \in Seq(pushed) /\ \A c \in pushed : \E i \in DOMAIN order : order[i] = c
  <2> HIDE DEF pushed
  <2> QED BY <1>5, <1>6, OrdersAreLists
<1>8. \A c \in pushed : Continue(frame, c) \in Frame' /\ Continue(frame, c).node = c
  <2> SUFFICES ASSUME NEW c \in pushed
               PROVE  Continue(frame, c) \in Frame' /\ Continue(frame, c).node = c
    OBVIOUS
  <2>1. c \in scope /\ c \in DOMAIN doc.type /\ doc.length[c] \in Nat
    BY <1>6, DocumentsAreGraphs DEF TypeOK, Phases, Ids
  <2>2. frame.sig \in DOMAIN nodes' /\ frame.len \in Nat
    BY <1>2, <1>3 DEF Frame
  <2>3. IsSignificant(c) => c \in DOMAIN nodes'
    BY <1>3
  <2> QED BY <2>1, <2>2, <2>3, <1>4 DEF Continue, Frame
<1>9. frames \in Seq(Frame')
  BY <1>7, <1>8
<1>10. stack \in Seq(Frame')
  <2>1. Frame \subseteq Frame'
    BY <1>3, <1>4 DEF Frame
  <2> QED BY <2>1, <1>1
<1>11. /\ stack' \in Seq(Frame')
       /\ Elements(frames) \subseteq Elements(stack')
       /\ Elements(stack) \subseteq Elements(stack') \cup {frame}
       /\ Elements(stack') \subseteq Elements(frames) \cup Elements(stack)
  <2>1. stack' = frames \o Tail(stack)
    BY <1>5
  <2> HIDE DEF frames
  <2> QED BY <2>1, <1>1, <1>9, <1>10, PopAndPush
<1>12. \A c \in pushed : OnStack(c)'
  <2> SUFFICES ASSUME NEW c \in pushed PROVE OnStack(c)'
    OBVIOUS
  <2>1. PICK i \in DOMAIN order : order[i] = c
    BY <1>7
  <2>2. i \in DOMAIN frames /\ frames[i].node = c
    BY <2>1, <1>8
  <2> QED BY <2>2, <1>11 DEF OnStack, Elements
<1>13. \A n : OnStack(n)' => OnStack(n) \/ n \in pushed
  <2> SUFFICES ASSUME NEW n, OnStack(n)', ~OnStack(n) PROVE n \in pushed
    OBVIOUS
  <2>1. PICK k \in DOMAIN stack' : stack'[k].node = n
    BY DEF OnStack
  <2>2. PICK i \in DOMAIN frames : stack'[k] = frames[i]
    BY <2>1, <1>11 DEF OnStack, Elements
  <2>3. order[i] \in pushed /\ frames[i].node = order[i]
    BY <2>2, <1>7, <1>8
  <2> QED BY <2>1, <2>2, <2>3
<1>14. \A n : OnStack(n) => n = frame.node \/ OnStack(n)'
  BY <1>11 DEF OnStack, Elements
<1>15. ASSUME NEW k \in DOMAIN stack'
       PROVE  \/ \E i \in DOMAIN stack : stack'[k] = stack[i]
              \/ \E c \in fresh : ~IsLeaf(c) /\ stack'[k] = Continue(frame, c)
  <2>1. stack'[k] \in Elements(frames) \/ stack'[k] \in Elements(stack)
    BY <1>11 DEF Elements
  <2>2. CASE stack'[k] \in Elements(frames)
    <3>1. PICK i \in DOMAIN order : stack'[k] = Continue(frame, order[i])
      BY <2>2 DEF Elements
    <3>2. order[i] \in pushed
      BY <1>7
    <3> QED BY <3>1, <3>2
  <2> QED BY <2>1, <2>2 DEF Elements
<1> QED BY <1>2, <1>3, <1>11, <1>12, <1>13, <1>14, <1>15 DEF OnStack

--------------------------------------------------------------------------------
(* Types.                                                                         *)

\* The parser starts well typed.
LEMMA InitTypes == Init => TypeOK /\ Phases
<1> SUFFICES ASSUME Init PROVE TypeOK /\ Phases
  OBVIOUS
<1>1. TypeOK
  BY NothingRegistered DEF Init, TypeOK
<1> QED BY <1>1 DEF Init, Phases

\* Refusing or accepting a document keeps the state well typed.
LEMMA StartTypes ==
  ASSUME TypeOK, Phases, Refuse \/ ParseWhole \/ ParseSegment
  PROVE  TypeOK' /\ Phases'
<1>1. pc = "start" /\ roots = <<>> /\ stack = <<>> /\ visited = {} /\ nodes = <<>>
  BY DEF Refuse, ParseWhole, ParseSegment, Phases
<1>2. CASE Refuse
  <2>1. TypeOK'
    BY <1>1, <1>2, NothingRegistered DEF Refuse, TypeOK, Ids
  <2> QED BY <2>1, <1>1, <1>2 DEF Refuse, Phases
<1>3. CASE ParseWhole
  <2>1. TypeOK'
    <3>1. todo' \in Seq(scope')
      BY <1>3 DEF ParseWhole, TypeOK
    <3> QED BY <3>1, <1>1, <1>3, NothingRegistered DEF ParseWhole, TypeOK, Ids
  <2> QED BY <2>1, <1>1, <1>3 DEF ParseWhole, Phases, Scoped
<1>4. CASE ParseSegment
  <2>0. PICK r \in request.rpd : \E p \in MatchingPorts(r) : scope' = {r, p} /\ todo' = <<p>>
    BY <1>4 DEF ParseSegment
  <2>1. PICK p \in MatchingPorts(r) : scope' = {r, p} /\ todo' = <<p>>
    BY <2>0
  <2>2. r \in Ids /\ IsRoot(r) /\ request.rpd = {r}
    BY <1>4, RequestsNameOneRpd DEF ParseSegment, Refused, Resolves, RpdFound, Phases
  <2>3. p \in Ids
    BY DEF MatchingPorts, Downstream
  <2>4. TypeOK'
    BY <2>1, <2>2, <2>3, <1>1, <1>4, NothingRegistered DEF ParseSegment, TypeOK, Ids
  <2> QED BY <2>1, <2>2, <2>4, <1>1, <1>4 DEF ParseSegment, Phases, Scoped, IsRoot
<1> QED BY <1>2, <1>3, <1>4

\* Collecting the segment's scope keeps the state well typed.
LEMMA ScopeTypes ==
  ASSUME TypeOK, Phases, ExtendScope \/ EndScope
  PROVE  TypeOK' /\ Phases'
<1>1. pc = "scope" /\ roots = <<>> /\ stack = <<>> /\ visited = {} /\ nodes = <<>>
  BY DEF ExtendScope, EndScope, Phases
<1>2. CASE ExtendScope
  <2> DEFINE found == Downstream(Head(todo)) \ scope
  <2>1. found \subseteq Ids /\ IsFiniteSet(found)
    BY DocumentsAreGraphs, FS_Subset DEF Phases, Ids, Downstream
  <2>2. scope' = scope \cup found /\ \E order \in Orders(found) : todo' = order \o Tail(todo)
    BY <1>2 DEF ExtendScope
  <2> HIDE DEF found
  <2>3. PICK order \in Orders(found) : todo' = order \o Tail(todo)
    BY <2>2
  <2>4. order \in Seq(scope') /\ Tail(todo) \in Seq(scope')
    <3>1. order \in Seq(found)
      BY <2>1, OrdersAreLists
    <3> QED BY <3>1, <2>2, <1>2 DEF ExtendScope, TypeOK
  <2>5. todo' \in Seq(scope') /\ scope' \subseteq Ids
    <3>1. order \o Tail(todo) \in Seq(scope')
      BY <2>4
    <3> QED BY <3>1, <2>1, <2>2, <2>3 DEF TypeOK
  <2>6. TypeOK'
    BY <2>5, <1>1, <1>2, NothingRegistered DEF ExtendScope, TypeOK, Ids
  <2> QED BY <2>2, <2>6, <1>1, <1>2 DEF ExtendScope, Phases, Scoped, IsRoot
<1>3. CASE EndScope
  <2>1. TypeOK'
    BY <1>1, <1>3, NothingRegistered DEF EndScope, TypeOK, Ids
  <2> QED BY <2>1, <1>1, <1>3 DEF EndScope, Phases, Scoped, IsRoot
<1> QED BY <1>2, <1>3

\* What the steps of the walk leave alone.
LEMMA SameGraph ==
  ASSUME UNCHANGED <<doc, request, scope>>
  PROVE  /\ RootIds' = RootIds /\ Ids' = Ids /\ Scoped' = Scoped
         /\ \A n : Children(n)' = Children(n) /\ IsRoot(n)' = IsRoot(n)
         /\ \A n : IsLeaf(n)' = IsLeaf(n) /\ IsSignificant(n)' = IsSignificant(n)
<1>1. \A n : Children(n)' = Children(n) /\ IsRoot(n)' = IsRoot(n) /\ IsSignificant(n)' = IsSignificant(n)
  BY DEF Children, Downstream, Ids, IsRoot, IsSignificant
<1>2. (\A n : Unfed(n)' = Unfed(n)) /\ Sources' = Sources /\ Scoped' = Scoped
  BY <1>1 DEF Unfed, Sources, Scoped
<1>3. RootIds' = RootIds
  BY <1>1, <1>2 DEF RootIds
<1> QED BY <1>1, <1>2, <1>3 DEF Ids, IsLeaf

\* Choosing the roots and walking keeps the state well typed.
LEMMA WalkTypes ==
  ASSUME TypeOK, Phases, ChooseRoots \/ StartRoot \/ Visit \/ Finish
  PROVE  TypeOK' /\ Phases'
<1>1. UNCHANGED <<doc, request, scope>> /\ todo' = todo /\ pc \in {"roots", "walk"} /\ pc' \in {"walk", "done"}
  BY DEF ChooseRoots, StartRoot, Visit, Finish
<1>2. /\ RootIds' = RootIds /\ Ids' = Ids /\ Scoped' = Scoped
      /\ \A n : IsRoot(n)' = IsRoot(n) /\ IsSignificant(n)' = IsSignificant(n)
  BY <1>1, SameGraph
<1>3. Phases'
  <2>1. pc' = "done" => roots' = <<>> /\ stack' = <<>>
    BY DEF ChooseRoots, StartRoot, Visit, Finish
  <2> QED BY <2>1, <1>1, <1>2 DEF Phases
<1>4. RootIds \subseteq {n \in scope : IsSignificant(n)} /\ IsFiniteSet(RootIds)
  BY <1>1, RootsAreDevices, ScopeIsFinite
<1>5. CASE ChooseRoots
  <2>1. roots' \in Seq(RootIds)
    BY <1>4, <1>5, OrdersAreLists DEF ChooseRoots
  <2>2. stack = <<>> /\ nodes = <<>> /\ stack' = stack /\ nodes' = nodes /\ visited' = visited
    BY <1>5 DEF ChooseRoots, Phases
  <2>3. stack' \in Seq(Frame')
    BY <2>2
  <2> QED BY <2>1, <2>2, <2>3, <1>1, <1>2, <1>3, NothingRegistered DEF TypeOK
<1>6. CASE StartRoot
  <2> DEFINE root == Head(roots)
  <2>1. roots \in Seq(RootIds) /\ roots # <<>>
    BY <1>6 DEF TypeOK, StartRoot
  <2>2. root \in RootIds /\ roots' \in Seq(RootIds)
    BY <2>1, <1>6 DEF StartRoot
  <2>3. root \in scope /\ IsSignificant(root)
    BY <2>2, <1>4
  <2>4. /\ DOMAIN nodes' = DOMAIN nodes \cup {root}
        /\ \A n \in DOMAIN nodes' :
             nodes'[n] = IF n \in DOMAIN nodes THEN nodes[n] ELSE [parent |-> NoParent, dist |-> 0]
    BY <1>6 DEF StartRoot, Register
  <2>5. stack' \in Seq(Frame')
    <3>1. [node |-> root, sig |-> root, len |-> 0] \in Frame'
      BY <2>3, <2>4, <1>1 DEF Frame
    <3> QED BY <3>1, <1>6 DEF StartRoot
  <2>6. \A n \in DOMAIN nodes' : nodes'[n] \in [parent : DOMAIN nodes' \cup {NoParent}, dist : Nat]
    BY <2>4 DEF TypeOK
  <2>7. visited' = visited
    BY <1>6 DEF StartRoot
  <2> QED BY <2>2, <2>3, <2>4, <2>5, <2>6, <2>7, <1>1, <1>2, <1>3 DEF TypeOK
<1>7. CASE Visit
  <2> DEFINE frame == Head(stack)
             fresh == Fresh(frame.node)
  <2>1. /\ frame \in Frame
        /\ DOMAIN nodes' = DOMAIN nodes \cup {c \in fresh : IsSignificant(c)}
        /\ \A n \in DOMAIN nodes : nodes'[n] = nodes[n]
        /\ \A n \in DOMAIN nodes' \ DOMAIN nodes :
             nodes'[n] = [parent |-> frame.sig, dist |-> nodes[frame.sig].dist + frame.len]
        /\ stack' \in Seq(Frame')
    BY <1>7, VisitEffect
  <2>2. frame.sig \in DOMAIN nodes /\ frame.len \in Nat /\ nodes[frame.sig].dist \in Nat
    BY <2>1 DEF Frame, TypeOK
  <2>3. \A n \in DOMAIN nodes' : nodes'[n] \in [parent : DOMAIN nodes' \cup {NoParent}, dist : Nat]
    <3> SUFFICES ASSUME NEW n \in DOMAIN nodes'
                 PROVE  nodes'[n] \in [parent : DOMAIN nodes' \cup {NoParent}, dist : Nat]
      OBVIOUS
    <3>1. CASE n \in DOMAIN nodes
      BY <3>1, <2>1 DEF TypeOK
    <3>2. CASE n \notin DOMAIN nodes
      BY <3>2, <2>1, <2>2
    <3> QED BY <3>1, <3>2
  <2>4. visited' \subseteq doc.edges /\ fresh \subseteq scope /\ roots' = roots
    BY <1>7 DEF Visit, VisitFrame, TypeOK, Fresh, Children, Downstream
  <2> QED BY <2>1, <2>3, <2>4, <1>1, <1>2, <1>3 DEF TypeOK
<1>8. CASE Finish
  BY <1>8, <1>1, <1>2, <1>3 DEF Finish, TypeOK, Frame
<1> QED BY <1>5, <1>6, <1>7, <1>8

\* A step that changes nothing keeps the state well typed.
LEMMA StutterKeepsTypes ==
  ASSUME TypeOK, Phases, UNCHANGED vars
  PROVE  TypeOK' /\ Phases'
<1>1. RootIds' = RootIds /\ Ids' = Ids /\ Scoped' = Scoped /\ \A n : IsRoot(n)' = IsRoot(n) /\ IsSignificant(n)' = IsSignificant(n)
  BY SameGraph DEF vars
<1>2. TypeOK'
  BY <1>1 DEF TypeOK, vars, Frame
<1> QED BY <1>1, <1>2 DEF Phases, vars

\* Every step keeps the state well typed and its phases in order.
LEMMA NextTypes == TypeOK /\ Phases /\ [Next]_vars => TypeOK' /\ Phases'
BY StartTypes, ScopeTypes, WalkTypes, StutterKeepsTypes DEF Next, Step, Ended

\* The parser's data keeps its shape: the walk never leaves the scope, and the device a
\* frame names as the nearest one above is always registered.
THEOREM TypesCorrect == Spec => []TypeOK
<1>1. TypeOK /\ Phases /\ [Next]_vars => (TypeOK /\ Phases)'
  BY NextTypes
<1> QED BY <1>1, InitTypes, PTL DEF Spec

--------------------------------------------------------------------------------
(* The forest of parent links.                                                    *)

\* Registering devices below one that is registered keeps every device hanging from a
\* root.
LEMMA VisitKeepsForest ==
  ASSUME TypeOK, Phases, EveryDeviceHangsFromARoot, Visit
  PROVE  EveryDeviceHangsFromARoot'
<1> DEFINE frame == Head(stack)
<1>1. /\ DOMAIN nodes \subseteq DOMAIN nodes' /\ frame.sig \in DOMAIN nodes
      /\ \A n \in DOMAIN nodes : nodes'[n] = nodes[n]
      /\ \A n \in DOMAIN nodes' \ DOMAIN nodes : nodes'[n].parent = frame.sig
  BY VisitEffect DEF Frame
<1> HIDE DEF frame
<1> SUFFICES ASSUME NEW S \in SUBSET DOMAIN nodes',
                    \A n \in DOMAIN nodes' : nodes'[n].parent \in S \cup {NoParent} => n \in S
             PROVE  S = DOMAIN nodes'
  BY DEF EveryDeviceHangsFromARoot
<1>2. S \cap DOMAIN nodes = DOMAIN nodes
  <2>1. \A n \in DOMAIN nodes : nodes[n].parent \in (S \cap DOMAIN nodes) \cup {NoParent} => n \in S \cap DOMAIN nodes
    BY <1>1
  <2> QED BY <2>1 DEF EveryDeviceHangsFromARoot
<1>3. \A n \in DOMAIN nodes' \ DOMAIN nodes : n \in S
  BY <1>1, <1>2
<1> QED BY <1>2, <1>3

\* Registering a root keeps every device hanging from a root.
LEMMA StartKeepsForest ==
  ASSUME EveryDeviceHangsFromARoot, StartRoot
  PROVE  EveryDeviceHangsFromARoot'
<1>1. /\ DOMAIN nodes \subseteq DOMAIN nodes'
      /\ \A n \in DOMAIN nodes : nodes'[n] = nodes[n]
      /\ \A n \in DOMAIN nodes' \ DOMAIN nodes : nodes'[n].parent = NoParent
  BY DEF StartRoot, Register
<1> SUFFICES ASSUME NEW S \in SUBSET DOMAIN nodes',
                    \A n \in DOMAIN nodes' : nodes'[n].parent \in S \cup {NoParent} => n \in S
             PROVE  S = DOMAIN nodes'
  BY DEF EveryDeviceHangsFromARoot
<1>2. S \cap DOMAIN nodes = DOMAIN nodes
  <2>1. \A n \in DOMAIN nodes : nodes[n].parent \in (S \cap DOMAIN nodes) \cup {NoParent} => n \in S \cap DOMAIN nodes
    BY <1>1
  <2> QED BY <2>1 DEF EveryDeviceHangsFromARoot
<1> QED BY <1>1, <1>2

\* Only starting a root and expanding a frame register devices.
LEMMA NodesUnchangedUnlessWalking ==
  ASSUME [Next]_vars, ~StartRoot, ~Visit
  PROVE  nodes' = nodes
BY DEF Next, Step, Ended, vars, Refuse, ParseWhole, ParseSegment, ExtendScope, EndScope,
       ChooseRoots, Finish

\* Whatever meshes and cycles a document has, parent links form a forest below its roots:
\* path_to_rpd() from any device ends at one.
THEOREM ParentLinksAreAForest == Spec => []EveryDeviceHangsFromARoot
<1> DEFINE Forest == TypeOK /\ Phases /\ EveryDeviceHangsFromARoot
<1>1. Init => Forest
  <2>1. Init => EveryDeviceHangsFromARoot
    BY NothingRegistered DEF Init, EveryDeviceHangsFromARoot
  <2> QED BY <2>1, InitTypes
<1>2. Forest /\ [Next]_vars => Forest'
  <2> SUFFICES ASSUME Forest, [Next]_vars PROVE EveryDeviceHangsFromARoot'
    BY NextTypes
  <2>1. CASE Visit
    BY <2>1, VisitKeepsForest
  <2>2. CASE StartRoot
    BY <2>2, StartKeepsForest
  <2>3. CASE ~Visit /\ ~StartRoot
    BY <2>3, NodesUnchangedUnlessWalking DEF EveryDeviceHangsFromARoot
  <2> QED BY <2>1, <2>2, <2>3
<1>3. Forest => EveryDeviceHangsFromARoot
  OBVIOUS
<1> QED BY <1>1, <1>2, <1>3, PTL DEF Spec

--------------------------------------------------------------------------------
(* The walk finds what the roots reach, and nothing else.                         *)

\* What is met after a step that follows no edge.
LEMMA SameEdgesSameMet ==
  ASSUME UNCHANGED <<doc, request, scope, visited>>
  PROVE  \A n : Met(n)' = Met(n) /\ Expanded(n)' = Expanded(n)
BY SameGraph DEF Met, Target, Expanded

\* Starting a root keeps the walk's invariant: what is visited is on the stack or has
\* been expanded.
LEMMA StartKeepsWalk ==
  ASSUME TypeOK, Phases, WalkInv, StartRoot
  PROVE  WalkInv'
<1> DEFINE root == Head(roots)
<1>1. /\ UNCHANGED <<doc, request, scope, visited>>
      /\ pc = "walk" /\ stack = <<>> /\ roots # <<>> /\ roots \in Seq(RootIds) /\ roots' = Tail(roots)
  BY DEF StartRoot, TypeOK
<1>2. \A n : ToStart(n) => n = root \/ ToStart(n)'
  <2> SUFFICES ASSUME NEW i \in DOMAIN roots, roots[i] # root
               PROVE  \E k \in DOMAIN roots' : roots'[k] = roots[i]
    BY DEF ToStart
  <2>1. i - 1 \in DOMAIN roots' /\ roots'[i - 1] = roots[i]
    BY <1>1
  <2> QED BY <2>1
<1>3. \A n : OnStack(n)' <=> n = root
  BY DEF StartRoot, OnStack
<1>4. DOMAIN nodes' = DOMAIN nodes \cup {root}
  BY DEF StartRoot, Register
<1>5. \A n : Met(n)' = Met(n) /\ Expanded(n)' = Expanded(n) /\ IsSignificant(n)' = IsSignificant(n)
  BY <1>1, SameEdgesSameMet, SameGraph
<1>6. ~(\E n : OnStack(n))
  BY <1>1 DEF OnStack
<1>7. AllAreFollowed'
  BY <1>1, <1>2, <1>3, <1>5, <1>6 DEF WalkInv, AllAreFollowed, Walking
<1>8. DevicesAreRegistered'
  BY <1>1, <1>2, <1>4, <1>5 DEF WalkInv, DevicesAreRegistered, Walking
<1>9. root \in RootIds
  BY <1>1
<1>10. NothingElseIsMet'
  <2> SUFFICES ASSUME NEW S \in SUBSET scope, Closed(S)
               PROVE  DOMAIN nodes' \subseteq S /\ \A n : OnStack(n)' => n \in S
    BY <1>1, SameGraph DEF NothingElseIsMet, Closed
  <2>1. DOMAIN nodes \subseteq S
    BY <1>1 DEF WalkInv, NothingElseIsMet, Walking
  <2> QED BY <2>1, <1>3, <1>4, <1>9 DEF Closed
<1> QED BY <1>7, <1>8, <1>10 DEF WalkInv

\* Expanding a frame keeps the walk's invariant.
LEMMA VisitKeepsWalk ==
  ASSUME TypeOK, Phases, WalkInv, Visit
  PROVE  WalkInv'
<1>0. PICK f : f = Head(stack).node
  OBVIOUS
<1> DEFINE fresh == Fresh(f)
<1>1. /\ UNCHANGED <<doc, request, scope, roots>> /\ pc = "walk"
      /\ visited' = visited \cup ({f} \X fresh)
  BY <1>0 DEF Visit, VisitFrame
<1>2. /\ OnStack(f) /\ f \in scope
      /\ DOMAIN nodes' = DOMAIN nodes \cup {c \in fresh : IsSignificant(c)}
      /\ \A c \in fresh : ~IsLeaf(c) => OnStack(c)'
      /\ \A n : OnStack(n) => n = f \/ OnStack(n)'
      /\ \A n : OnStack(n)' => OnStack(n) \/ (n \in fresh /\ ~IsLeaf(n))
  BY <1>0, VisitEffect DEF Frame
<1>3. fresh \subseteq Children(f) /\ \A c \in Children(f) : c \in fresh \/ <<f, c>> \in visited
  BY DEF Fresh
<1> HIDE DEF fresh
<1>4. /\ RootIds' = RootIds
      /\ \A n : Children(n)' = Children(n) /\ IsSignificant(n)' = IsSignificant(n) /\ IsLeaf(n)' = IsLeaf(n)
      /\ \A n : ToStart(n)' = ToStart(n)
  BY <1>1, SameGraph DEF ToStart
<1>5. \A n : Met(n)' => Met(n) \/ (n \in fresh /\ ~IsLeaf(n))
  BY <1>1, <1>4 DEF Met, Target
<1>6. Expanded(f)' /\ \A n : Expanded(n) => Expanded(n)'
  BY <1>1, <1>3, <1>4 DEF Expanded
<1>7. AllAreFollowed'
  BY <1>1, <1>2, <1>4, <1>5, <1>6 DEF WalkInv, AllAreFollowed, Walking
<1>8. DevicesAreRegistered'
  BY <1>1, <1>2, <1>4, <1>5 DEF WalkInv, DevicesAreRegistered, Walking
<1>9. NothingElseIsMet'
  <2> SUFFICES ASSUME NEW S \in SUBSET scope, Closed(S)
               PROVE  DOMAIN nodes' \subseteq S /\ \A n : OnStack(n)' => n \in S
    BY <1>1, <1>4 DEF NothingElseIsMet, Closed
  <2>1. DOMAIN nodes \subseteq S /\ \A n : OnStack(n) => n \in S
    BY <1>1 DEF WalkInv, NothingElseIsMet, Walking
  <2>2. \A c \in fresh : ~IsLeaf(c) => c \in S
    BY <2>1, <1>2, <1>3 DEF Closed
  <2>3. \A c : IsSignificant(c) => ~IsLeaf(c)
    BY DEF IsSignificant, IsLeaf, RootTypes, AmpTypes, PassiveTypes, LeafTypes
  <2> QED BY <2>1, <2>2, <2>3, <1>2
<1> QED BY <1>7, <1>8, <1>9 DEF WalkInv

\* The walk's invariant holds when the roots have been chosen.
LEMMA ChooseStartsWalk ==
  ASSUME TypeOK, Phases, ChooseRoots
  PROVE  WalkInv'
<1>1. /\ UNCHANGED <<doc, request, scope, visited, stack, nodes>>
      /\ pc = "roots" /\ visited = {} /\ stack = <<>> /\ nodes = <<>> /\ roots' \in Orders(RootIds)
  BY DEF ChooseRoots, Phases
<1>2. RootIds' = RootIds /\ IsFiniteSet(RootIds)
  BY <1>1, SameGraph, RootsAreDevices, ScopeIsFinite
<1>3. \A n \in RootIds : ToStart(n)'
  BY <1>1, <1>2, OrdersAreLists DEF ToStart
<1>4. \A n : Met(n)' => n \in RootIds
  BY <1>1, <1>2 DEF Met, Target
<1>5. ~(\E n : OnStack(n)')
  BY <1>1 DEF OnStack
<1> QED BY <1>1, <1>3, <1>4, <1>5, NothingRegistered
        DEF WalkInv, AllAreFollowed, DevicesAreRegistered, NothingElseIsMet

\* The walk's invariant holds on when the parse ends.
LEMMA FinishKeepsWalk ==
  ASSUME WalkInv, Finish \/ UNCHANGED vars
  PROVE  WalkInv'
<1>1. UNCHANGED <<doc, request, scope, visited, stack, nodes, roots>> /\ (Walking' => Walking)
  BY DEF Finish, vars, Walking
<1>2. \A n : /\ Met(n)' = Met(n) /\ Expanded(n)' = Expanded(n) /\ OnStack(n)' = OnStack(n)
             /\ ToStart(n)' = ToStart(n) /\ IsSignificant(n)' = IsSignificant(n) /\ Closed(n)' = Closed(n)
  BY <1>1, SameEdgesSameMet, SameGraph DEF OnStack, ToStart, Closed
<1> QED BY <1>1, <1>2 DEF WalkInv, AllAreFollowed, DevicesAreRegistered, NothingElseIsMet

\* Before the walk its invariant says nothing.
LEMMA BeforeTheWalk ==
  ASSUME Refuse \/ ParseWhole \/ ParseSegment \/ ExtendScope \/ EndScope
  PROVE  WalkInv'
<1>1. ~Walking'
  BY DEF Walking, Refuse, ParseWhole, ParseSegment, ExtendScope, EndScope
<1> QED BY <1>1 DEF WalkInv, AllAreFollowed, DevicesAreRegistered, NothingElseIsMet

\* When the walk has ended, what it visited is exactly what a root reaches.
LEMMA WalkedIsReached ==
  ASSUME TypeOK, Phases, WalkInv
  PROVE  RegistersTheReachable
<1> SUFFICES ASSUME pc = "done" PROVE DOMAIN nodes = {n \in Reached : IsSignificant(n)}
  BY DEF RegistersTheReachable
<1>1. /\ Walking /\ \A n : ~ToStart(n) /\ ~OnStack(n)
      /\ RootIds \subseteq scope
  BY RootsAreDevices DEF Walking, Phases, ToStart, OnStack
<1> DEFINE M == {n \in scope : Met(n)}
<1>2. Closed(M)
  <2>1. RootIds \subseteq M
    BY <1>1 DEF Met
  <2>2. ASSUME NEW n \in M, NEW c \in Children(n), ~IsLeaf(c)
        PROVE  c \in M
    <3>1. <<n, c>> \in visited
      BY <1>1 DEF WalkInv, AllAreFollowed, Expanded
    <3> QED BY <3>1, <2>2 DEF Met, Target, Children
  <2> QED BY <2>1, <2>2 DEF Closed
<1>3. \A n \in Reached : IsSignificant(n) => n \in DOMAIN nodes
  BY <1>1, <1>2 DEF Reached, WalkInv, DevicesAreRegistered
<1>4. \A n \in DOMAIN nodes : n \in Reached /\ IsSignificant(n)
  BY <1>1 DEF TypeOK, Reached, WalkInv, NothingElseIsMet
<1> QED BY <1>3, <1>4

\* For every document, meshed or cyclic, and every order of its edges and components: the
\* devices returned are those the roots reach in the scope, no more and no fewer.
THEOREM ParserFindsTheReachable == Spec => []RegistersTheReachable
<1> DEFINE Walk == TypeOK /\ Phases /\ WalkInv
<1>1. Init => Walk
  <2>1. Init => ~Walking
    BY DEF Init, Walking
  <2> QED BY <2>1, InitTypes DEF WalkInv, AllAreFollowed, DevicesAreRegistered, NothingElseIsMet
<1>2. Walk /\ [Next]_vars => Walk'
  <2> SUFFICES ASSUME Walk, [Next]_vars PROVE WalkInv'
    BY NextTypes
  <2> QED BY StartKeepsWalk, VisitKeepsWalk, ChooseStartsWalk, FinishKeepsWalk, BeforeTheWalk
          DEF Next, Step, Ended
<1>3. Walk => RegistersTheReachable
  BY WalkedIsReached
<1> QED BY <1>1, <1>2, <1>3, PTL DEF Spec

--------------------------------------------------------------------------------
(* The segment of a port.                                                         *)

\* What holds of a set that a port leads to, without going back through the RPD.
ClosedBelow(rpd, S) ==
  MatchingPorts(rpd) \subseteq S /\ \A m \in S \ {rpd} : Downstream(m) \subseteq S

Waits(n) == \E i \in DOMAIN todo : todo[i] = n

\* While the scope grows it holds the RPD and its port, every component in it but the RPD
\* waits on the stack or brought in all below it, and nothing is in it that a closed set
\* could leave out.
PortsAreIn == \A r \in request.rpd : r \in scope /\ MatchingPorts(r) \subseteq scope
AllAreExtended ==
  \A r \in request.rpd : \A m \in scope \ {r} : Waits(m) \/ Downstream(m) \subseteq scope
NothingElseIsIn ==
  \A r \in request.rpd : /\ ~Waits(r)
                         /\ \A S \in SUBSET Ids : ClosedBelow(r, S) => scope \subseteq S \cup {r}
NothingWaits == pc # "scope" => todo = <<>>

ScopeInv ==
  pc \in {"scope", "roots", "walk", "done"} /\ Scoped =>
    PortsAreIn /\ AllAreExtended /\ NothingElseIsIn /\ NothingWaits

\* A segment parse that is accepted has one RPD and one matching port, and starts its
\* scope from the two.
LEMMA OnlyPort ==
  ASSUME TypeOK, Phases, ParseSegment
  PROVE  \E r, p : /\ request.rpd = {r} /\ r \in Ids /\ p \in Ids /\ p # r
                   /\ MatchingPorts(r) = {p}
                   /\ scope' = {r, p} /\ todo' = <<p>>
<1>1. PICK r \in request.rpd : \E p \in MatchingPorts(r) : scope' = {r, p} /\ todo' = <<p>>
  BY DEF ParseSegment
<1>2. PICK p \in MatchingPorts(r) : scope' = {r, p} /\ todo' = <<p>>
  BY <1>1
<1>3. r \in Ids /\ IsRoot(r) /\ request.rpd = {r} /\ Cardinality(MatchingPorts(r)) = 1
  BY RequestsNameOneRpd DEF ParseSegment, Refused, Resolves, RpdFound, Phases
<1>4. p \in Ids /\ doc.type[p] = "RfPort" /\ p # r
  BY <1>3 DEF MatchingPorts, Downstream, IsRoot, RootTypes
<1>5. IsFiniteSet(MatchingPorts(r))
  BY DocumentsAreGraphs, FS_Subset DEF Phases, Ids, MatchingPorts, Downstream
<1>6. MatchingPorts(r) = {p}
  BY <1>3, <1>5, FS_Singleton
<1> QED BY <1>2, <1>3, <1>4, <1>6

\* The scope's invariant holds when the parse of a segment starts.
LEMMA ScopeStarts ==
  ASSUME TypeOK, Phases, ParseSegment
  PROVE  ScopeInv'
<1>1. PICK r, p : /\ request.rpd = {r} /\ r \in Ids /\ p \in Ids /\ p # r
                  /\ MatchingPorts(r) = {p}
                  /\ scope' = {r, p} /\ todo' = <<p>>
  BY OnlyPort
<1>2. doc' = doc /\ request' = request /\ pc' = "scope"
  BY DEF ParseSegment
<1>3. \A n : (Waits(n))' <=> n = p
  BY <1>1 DEF Waits
<1>4. Ids' = Ids /\ MatchingPorts(r)' = MatchingPorts(r)
  BY <1>2 DEF Ids, MatchingPorts, Downstream
<1>5. PortsAreIn'
  BY <1>1, <1>2, <1>4 DEF PortsAreIn
<1>6. AllAreExtended'
  BY <1>1, <1>2, <1>3 DEF AllAreExtended
<1>7. NothingElseIsIn'
  <2>1. \A S : ClosedBelow(r, S)' => p \in S
    BY <1>1, <1>4 DEF ClosedBelow
  <2> QED BY <1>1, <1>2, <1>3, <2>1 DEF NothingElseIsIn
<1> QED BY <1>2, <1>5, <1>6, <1>7 DEF ScopeInv, NothingWaits

\* Extending the scope by what one component feeds keeps the scope's invariant.
LEMMA ScopeGrows ==
  ASSUME TypeOK, Phases, ScopeInv, Scoped, ExtendScope
  PROVE  ScopeInv'
<1> DEFINE m == Head(todo)
           found == Downstream(m) \ scope
<1>1. /\ pc = "scope" /\ todo \in Seq(scope) /\ todo # <<>>
      /\ doc' = doc /\ request' = request /\ pc' = pc /\ scope' = scope \cup found
  BY DEF ExtendScope, TypeOK
<1>2. m \in scope /\ Waits(m)
  BY <1>1 DEF Waits
<1>3. found \subseteq Ids /\ IsFiniteSet(found)
  BY DocumentsAreGraphs, FS_Subset DEF Phases, Ids, Downstream
<1>4. PICK order \in Orders(found) : todo' = order \o Tail(todo)
  BY DEF ExtendScope
<1> HIDE DEF found
<1>5. order \in Seq(found) /\ \A c \in found : \E i \in DOMAIN order : order[i] = c
  BY <1>3, <1>4, OrdersAreLists
<1>6. /\ Elements(order) \subseteq Elements(todo')
      /\ Elements(todo) \subseteq Elements(todo') \cup {m}
      /\ Elements(todo') \subseteq Elements(order) \cup Elements(todo)
  <2> DEFINE A == scope \cup found
  <2>1. order \in Seq(A) /\ todo \in Seq(A)
    BY <1>1, <1>5
  <2> HIDE DEF A
  <2> QED BY <1>1, <1>4, <2>1, PopAndPush
<1>7. Elements(order) = found
  <2>1. \A i \in DOMAIN order : order[i] \in found
    BY <1>5
  <2> QED BY <1>5, <2>1 DEF Elements
<1>8. \A n : Waits(n) <=> n \in Elements(todo)
  BY DEF Waits, Elements
<1>9. \A n : Waits(n)' <=> n \in Elements(todo')
  BY DEF Waits, Elements
<1> HIDE DEF m
<1>10. \A n : (n \in found => Waits(n)') /\ (Waits(n) => n = m \/ Waits(n)')
             /\ (Waits(n)' => Waits(n) \/ n \in found)
  BY <1>6, <1>7, <1>8, <1>9
<1>11. /\ Ids' = Ids /\ Scoped
       /\ \A n : Downstream(n)' = Downstream(n) /\ MatchingPorts(n)' = MatchingPorts(n)
  BY <1>1 DEF Ids, MatchingPorts, Downstream
<1>12. PortsAreIn /\ AllAreExtended /\ NothingElseIsIn
  BY <1>1 DEF ScopeInv
<1>13. Downstream(m) \subseteq scope'
  BY <1>1 DEF found, m
<1>14. PortsAreIn'
  BY <1>1, <1>11, <1>12 DEF PortsAreIn
<1>15. AllAreExtended'
  <2> SUFFICES ASSUME NEW r \in request.rpd, NEW n \in scope' \ {r}
               PROVE  Waits(n)' \/ Downstream(n)' \subseteq scope'
    BY <1>1 DEF AllAreExtended
  <2>1. CASE n \in found
    BY <1>10, <2>1
  <2>2. CASE n \in scope
    <3>1. Waits(n) \/ Downstream(n) \subseteq scope
      BY <1>12, <2>2 DEF AllAreExtended
    <3> QED BY <1>1, <1>10, <1>11, <1>13, <3>1
  <2> QED BY <1>1, <2>1, <2>2
<1>16. NothingElseIsIn'
  <2> SUFFICES ASSUME NEW r \in request.rpd
               PROVE  /\ ~Waits(r)'
                      /\ \A S \in SUBSET Ids : ClosedBelow(r, S)' => scope' \subseteq S \cup {r}
    BY <1>1, <1>11 DEF NothingElseIsIn
  <2>1. r \in scope /\ ~Waits(r)
    BY <1>12 DEF PortsAreIn, NothingElseIsIn
  <2>2. r \notin found
    BY <2>1 DEF found
  <2>3. ASSUME NEW S \in SUBSET Ids, ClosedBelow(r, S)'
        PROVE  scope' \subseteq S \cup {r}
    <3>1. ClosedBelow(r, S)
      BY <1>11, <2>3 DEF ClosedBelow
    <3>2. scope \subseteq S \cup {r}
      BY <1>12, <3>1 DEF NothingElseIsIn
    <3>3. m # r /\ m \in S
      BY <1>2, <2>1, <3>2
    <3>4. found \subseteq S
      BY <3>1, <3>3 DEF ClosedBelow, found
    <3> QED BY <1>1, <3>2, <3>4
  <2> QED BY <1>10, <2>1, <2>2, <2>3
<1> QED BY <1>1, <1>14, <1>15, <1>16 DEF ScopeInv, NothingWaits

\* The steps after the scope's traversal leave it, its stack and the document alone.
LEMMA ScopeStays ==
  ASSUME TypeOK, Phases, ScopeInv,
         EndScope \/ ChooseRoots \/ StartRoot \/ Visit \/ Finish \/ UNCHANGED vars
  PROVE  ScopeInv'
<1>1. /\ UNCHANGED <<doc, request, scope, todo>>
      /\ pc' \in {"scope", "roots", "walk", "done"} => pc \in {"scope", "roots", "walk", "done"}
      /\ (pc # "scope" => todo = <<>>) => (pc' # "scope" => todo' = <<>>)
  BY DEF EndScope, ChooseRoots, StartRoot, Visit, Finish, vars
<1>2. /\ Scoped' = Scoped /\ Ids' = Ids
      /\ \A n : Waits(n)' = Waits(n) /\ Downstream(n)' = Downstream(n)
      /\ \A n : MatchingPorts(n)' = MatchingPorts(n)
  BY <1>1 DEF Scoped, Ids, Waits, Downstream, MatchingPorts
<1>3. \A r, S : ClosedBelow(r, S)' = ClosedBelow(r, S)
  BY <1>2 DEF ClosedBelow
<1>4. /\ PortsAreIn' = PortsAreIn /\ AllAreExtended' = AllAreExtended
      /\ NothingElseIsIn' = NothingElseIsIn /\ (NothingWaits => NothingWaits')
  BY <1>1, <1>2, <1>3 DEF PortsAreIn, AllAreExtended, NothingElseIsIn, NothingWaits
<1> QED BY <1>1, <1>2, <1>4 DEF ScopeInv

\* The traversal invariant holds in every state.
LEMMA ScopeInvariant == Spec => [](TypeOK /\ Phases /\ ScopeInv)
<1>1. Init => TypeOK /\ Phases /\ ScopeInv
  <2>1. Init => ScopeInv
    BY DEF Init, ScopeInv
  <2> QED BY <2>1, InitTypes
<1>2. TypeOK /\ Phases /\ ScopeInv /\ [Next]_vars => (TypeOK /\ Phases /\ ScopeInv)'
  <2> SUFFICES ASSUME TypeOK, Phases, ScopeInv, [Next]_vars PROVE ScopeInv'
    BY NextTypes
  <2>1. CASE Refuse \/ ParseWhole
    <3>1. CASE Refuse
      BY <3>1 DEF Refuse, ScopeInv
    <3>2. CASE ParseWhole
      BY <3>2 DEF ParseWhole, ScopeInv, Scoped
    <3> QED BY <2>1, <3>1, <3>2
  <2>2. CASE ParseSegment
    BY <2>2, ScopeStarts
  <2>3. CASE ExtendScope
    <3>1. CASE Scoped
      BY <2>3, <3>1, ScopeGrows
    <3>2. CASE ~Scoped
      BY <2>3, <3>2 DEF ExtendScope, ScopeInv, Scoped
    <3> QED BY <3>1, <3>2
  <2>4. CASE EndScope \/ ChooseRoots \/ StartRoot \/ Visit \/ Finish \/ UNCHANGED vars
    BY <2>4, ScopeStays
  <2> QED BY <2>1, <2>2, <2>3, <2>4 DEF Next, Step, Ended
<1> QED BY <1>1, <1>2, PTL DEF Spec

\* For every document: the segment parsed is the RPD and what is below the requested port,
\* and an edge back to the RPD does not lead on into its other ports.
THEOREM SegmentHolds == Spec => []SegmentIsBelowItsPort
<1>1. TypeOK /\ Phases /\ ScopeInv => SegmentIsBelowItsPort
  <2> SUFFICES ASSUME TypeOK, Phases, ScopeInv, pc = "done", Scoped, NEW r \in request.rpd
               PROVE  scope = {r} \cup BelowPort(r) /\ DOMAIN nodes \subseteq scope
    BY DEF SegmentIsBelowItsPort
  <2>1. /\ r \in scope /\ MatchingPorts(r) \subseteq scope
        /\ \A m \in scope \ {r} : Downstream(m) \subseteq scope
        /\ \A S \in SUBSET Ids : ClosedBelow(r, S) => scope \subseteq S \cup {r}
    <3>1. PortsAreIn /\ AllAreExtended /\ NothingElseIsIn /\ todo = <<>>
      BY DEF ScopeInv, NothingWaits
    <3>2. \A m : ~Waits(m)
      BY <3>1 DEF Waits
    <3> QED BY <3>1, <3>2 DEF PortsAreIn, AllAreExtended, NothingElseIsIn
  <2>2. BelowPort(r) = {n \in Ids : \A S \in SUBSET Ids : ClosedBelow(r, S) => n \in S}
    BY DEF BelowPort, ClosedBelow
  <2>3. scope \in SUBSET Ids /\ ClosedBelow(r, scope) /\ DOMAIN nodes \subseteq scope
    BY <2>1 DEF ClosedBelow, TypeOK
  <2>4. BelowPort(r) \subseteq scope
    BY <2>2, <2>3
  <2>5. ASSUME NEW n \in scope, n # r PROVE n \in BelowPort(r)
    BY <2>1, <2>2, <2>3, <2>5
  <2> QED BY <2>1, <2>3, <2>4, <2>5
<1> QED BY <1>1, ScopeInvariant, PTL

--------------------------------------------------------------------------------
(* What the walk meets below a device.                                            *)

Cable(c) == IF doc.type[c] = "RfCable" THEN doc.length[c] ELSE 0
GoesOn(p, run) == run = <<p, 0>> \/ ~(IsSignificant(run[1]) \/ IsLeaf(run[1]))
OneFurther(p, R) ==
  R \cup UNION {{<<c, run[2] + Cable(c)>> : c \in Children(run[1])} : run \in {r \in R : GoesOn(p, r)}}

\* The equation that the runs below p solve, for their first n steps.
Grows(runs, p, n) == runs = [k \in 0 .. n |-> IF k = 0 THEN {<<p, 0>>} ELSE OneFurther(p, runs[k - 1])]

\* That equation has a solution.
LEMMA RunsExist ==
  ASSUME NEW p, NEW n \in Nat
  PROVE  \E runs : Grows(runs, p, n)
<1> DEFINE P == {k \in Nat : \E runs : Grows(runs, p, k)}
<1>1. 0 \in P
  <2> DEFINE g == [k \in 0 .. 0 |-> {<<p, 0>>}]
  <2>1. g = [k \in 0 .. 0 |-> IF k = 0 THEN {<<p, 0>>} ELSE OneFurther(p, g[k - 1])]
    OBVIOUS
  <2> HIDE DEF g
  <2> QED BY <2>1 DEF Grows
<1>2. ASSUME NEW k \in 0 .. n - 1, k \in P PROVE k + 1 \in P
  <2> PICK g : Grows(g, p, k)
    BY <1>2
  <2> DEFINE h == [i \in 0 .. k + 1 |-> IF i = k + 1 THEN OneFurther(p, g[k]) ELSE g[i]]
  <2>1. ASSUME NEW i \in 0 .. k + 1
        PROVE  h[i] = IF i = 0 THEN {<<p, 0>>} ELSE OneFurther(p, h[i - 1])
    <3>1. CASE i = k + 1
      <4>1. i # 0 /\ h[i - 1] = g[k]
        BY <3>1
      <4> QED BY <3>1, <4>1
    <3>2. CASE i # k + 1
      <4>1. i \in 0 .. k /\ h[i] = g[i] /\ (i # 0 => h[i - 1] = g[i - 1])
        BY <3>2
      <4>2. g[i] = IF i = 0 THEN {<<p, 0>>} ELSE OneFurther(p, g[i - 1])
        BY <4>1 DEF Grows
      <4> HIDE DEF h
      <4> QED BY <4>1, <4>2
    <3> QED BY <3>1, <3>2
  <2>2. h = [i \in 0 .. k + 1 |-> h[i]]
    OBVIOUS
  <2> HIDE DEF h
  <2>3. Grows(h, p, k + 1)
    BY <2>1, <2>2 DEF Grows
  <2> QED BY <2>3
<1>3. \A k \in 0 .. n : k \in P
  <2> HIDE DEF P
  <2> QED BY <1>1, <1>2, InductionUpTo
<1> QED BY <1>3

\* What is met from p in at most k steps.
RunsIn(p, k) == (CHOOSE runs : Grows(runs, p, Cardinality(scope)))[k]

\* The runs of the first steps, and of one step more.
LEMMA RunsGrow ==
  ASSUME NEW p, Cardinality(scope) \in Nat
  PROVE  /\ Runs(p) = RunsIn(p, Cardinality(scope))
         /\ <<p, 0>> \in RunsIn(p, 0)
         /\ \A k \in 0 .. Cardinality(scope) - 1 :
              /\ RunsIn(p, k) \subseteq RunsIn(p, k + 1)
              /\ \A run \in RunsIn(p, k) : GoesOn(p, run) =>
                   \A c \in Children(run[1]) : <<c, run[2] + Cable(c)>> \in RunsIn(p, k + 1)
<1> DEFINE size == Cardinality(scope)
           runs == CHOOSE g : Grows(g, p, size)
<1>1. Runs(p) = runs[size]
  BY DEF Runs, Grows, OneFurther, GoesOn, Cable
<1>2. Grows(runs, p, size)
  <2> HIDE DEF size
  <2> QED BY RunsExist DEF size
<1> HIDE DEF runs
<1>3. \A k \in 0 .. size : runs[k] = IF k = 0 THEN {<<p, 0>>} ELSE OneFurther(p, runs[k - 1])
  BY <1>2 DEF Grows
<1> HIDE DEF size
<1>4. size \in Nat
  BY DEF size
<1>5. <<p, 0>> \in runs[0]
  BY <1>3, <1>4
<1>6. \A k \in 0 .. size - 1 : runs[k + 1] = OneFurther(p, runs[k])
  <2> TAKE k \in 0 .. size - 1
  <2>1. k + 1 \in 0 .. size /\ k + 1 # 0 /\ (k + 1) - 1 = k
    BY <1>4
  <2> QED BY <1>3, <2>1
<1>7. \A R : /\ R \subseteq OneFurther(p, R)
             /\ \A run \in R : GoesOn(p, run) =>
                  \A c \in Children(run[1]) : <<c, run[2] + Cable(c)>> \in OneFurther(p, R)
  <2> SUFFICES ASSUME NEW R, NEW run \in R, GoesOn(p, run), NEW c \in Children(run[1])
               PROVE  <<c, run[2] + Cable(c)>> \in OneFurther(p, R)
    BY DEF OneFurther
  <2> DEFINE next(r) == {<<d, r[2] + Cable(d)>> : d \in Children(r[1])}
  <2>1. <<c, run[2] + Cable(c)>> \in next(run)
    OBVIOUS
  <2> HIDE DEF next
  <2>2. <<c, run[2] + Cable(c)>> \in UNION {next(r) : r \in {r \in R : GoesOn(p, r)}}
    BY <2>1
  <2> QED BY <2>2 DEF OneFurther, next
<1>8. \A k : RunsIn(p, k) = runs[k]
  BY DEF RunsIn, runs, size
<1> QED BY <1>1, <1>5, <1>6, <1>7, <1>8 DEF size

\* More steps meet more.
LEMMA RunsStay ==
  ASSUME NEW p, Cardinality(scope) \in Nat, NEW i \in 0 .. Cardinality(scope)
  PROVE  \A k \in i .. Cardinality(scope) : RunsIn(p, i) \subseteq RunsIn(p, k)
<1> DEFINE size == Cardinality(scope)
           P == {k \in i .. size : RunsIn(p, i) \subseteq RunsIn(p, k)}
<1>1. i \in P /\ size \in Nat /\ i \in Nat
  OBVIOUS
<1>2. ASSUME NEW k \in i .. size - 1, k \in P PROVE k + 1 \in P
  <2>1. k \in 0 .. size - 1 /\ k + 1 \in i .. size
    BY <1>1
  <2> QED BY <1>2, <2>1, RunsGrow
<1>3. \A k \in i .. size : k \in P
  <2> HIDE DEF P, size
  <2> QED BY <1>1, <1>2, InductionUpTo
<1> QED BY <1>3

--------------------------------------------------------------------------------
(* Parents and distances.                                                         *)

\* Each component is entered once, all its edges together, so a walk below a device has at
\* most as many steps as components were entered: that bounds the runs the walk follows.
Entered == {m \in scope : \E c : <<m, c>> \in visited}
EnteredAreExpanded == \A m \in Entered : Expanded(m)
IsRun(frame) ==
  /\ GoesOn(frame.sig, <<frame.node, frame.len>>)
  /\ \E k \in 0 .. Cardinality(Entered) : <<frame.node, frame.len>> \in RunsIn(frame.sig, k)
FramesAreRuns == Walking => \A frame \in Elements(stack) : IsRun(frame)
LinkIsRun(n) ==
  LET p == nodes[n].parent
  IN  IF p = NoParent THEN n \in RootIds /\ nodes[n].dist = 0
      ELSE /\ nodes[n].dist >= nodes[p].dist
           /\ <<n, nodes[n].dist - nodes[p].dist>> \in Runs(p)
LinksAreRuns == Walking => \A n \in DOMAIN nodes : LinkIsRun(n)

RunInv == EnteredAreExpanded /\ FramesAreRuns /\ LinksAreRuns

\* The components entered so far are finitely many, at most as many as the scope
\* holds.
LEMMA EnteredIsFinite ==
  ASSUME TypeOK, Phases
  PROVE  /\ IsFiniteSet(Entered) /\ Cardinality(Entered) \in Nat
         /\ Cardinality(scope) \in Nat /\ Cardinality(Entered) <= Cardinality(scope)
<1>1. IsFiniteSet(scope) /\ Entered \subseteq scope
  BY ScopeIsFinite DEF Entered
<1> QED BY <1>1, FS_Subset, FS_CardinalityType

\* The runs of a step that leaves document and scope alone.
LEMMA SameRuns ==
  ASSUME UNCHANGED <<doc, request, scope>>
  PROVE  /\ \A p, k : RunsIn(p, k)' = RunsIn(p, k)
         /\ \A p, run : GoesOn(p, run)' = GoesOn(p, run)
         /\ \A p : Runs(p)' = Runs(p)
<1>1. \A n : Children(n)' = Children(n) /\ IsLeaf(n)' = IsLeaf(n) /\ IsSignificant(n)' = IsSignificant(n)
  BY SameGraph
<1>2. \A c : Cable(c)' = Cable(c)
  BY DEF Cable
<1>3. \A p, run : GoesOn(p, run)' = GoesOn(p, run)
  BY <1>1 DEF GoesOn
<1>4. \A p, R : OneFurther(p, R)' = OneFurther(p, R)
  BY <1>1, <1>2, <1>3 DEF OneFurther
<1>5. \A g, p, n : Grows(g, p, n)' = Grows(g, p, n)
  BY <1>4 DEF Grows
<1>6. \A p, k : RunsIn(p, k)' = RunsIn(p, k)
  BY <1>5 DEF RunsIn
<1>7. \A p : Runs(p)' = Runs(p)
  <2>1. \A p : Runs(p) = RunsIn(p, Cardinality(scope))
    BY DEF Runs, RunsIn, Grows, OneFurther, GoesOn, Cable
  <2>2. \A p : Runs(p)' = RunsIn(p, Cardinality(scope))'
    BY DEF Runs, RunsIn, Grows, OneFurther, GoesOn, Cable
  <2> QED BY <1>6, <2>1, <2>2
<1> QED BY <1>3, <1>6, <1>7

\* Expanding a frame enters its component at most once, so the number of entered
\* components grows by one when something fresh was found.
LEMMA VisitKeepsEntered ==
  ASSUME TypeOK, Phases, EnteredAreExpanded, Visit
  PROVE  LET fresh == Fresh(Head(stack).node)
         IN  /\ EnteredAreExpanded'
             /\ fresh = {} => Entered' = Entered
             /\ fresh # {} => Cardinality(Entered') = Cardinality(Entered) + 1
             /\ Cardinality(Entered) <= Cardinality(Entered')
<1>0. PICK f : f = Head(stack).node
  OBVIOUS
<1> DEFINE fresh == Fresh(f)
<1>1. /\ UNCHANGED <<doc, request, scope>>
      /\ visited' = visited \cup ({f} \X fresh) /\ f \in scope
  BY <1>0, VisitEffect DEF Visit, VisitFrame, Frame
<1>2. fresh \subseteq Children(f) /\ \A c \in Children(f) : c \in fresh \/ <<f, c>> \in visited
  BY DEF Fresh
<1>3. f \in Entered => fresh = {}
  BY <1>2 DEF EnteredAreExpanded, Expanded, Fresh
<1>4. \A n : Children(n)' = Children(n)
  BY <1>1, SameGraph
<1> HIDE DEF fresh
<1>5. Entered' = IF fresh = {} THEN Entered ELSE Entered \cup {f}
  <2>1. \A m, c : <<m, c>> \in visited' <=> <<m, c>> \in visited \/ (m = f /\ c \in fresh)
    BY <1>1
  <2>2. \A m : m \in Entered' <=> m \in scope /\ \E c : <<m, c>> \in visited'
    BY <1>1 DEF Entered
  <2>3. \A m : m \in Entered' <=> m \in Entered \/ (m = f /\ fresh # {})
    BY <1>1, <2>1, <2>2 DEF Entered
  <2> QED BY <2>3
<1>6. EnteredAreExpanded'
  <2> SUFFICES ASSUME NEW m \in Entered', NEW c \in Children(m) PROVE <<m, c>> \in visited'
    BY <1>4 DEF EnteredAreExpanded, Expanded
  <2>1. CASE m = f
    BY <1>1, <1>2, <2>1
  <2>2. CASE m # f
    <3>1. m \in Entered
      BY <1>5, <2>2
    <3> QED BY <1>1, <3>1 DEF EnteredAreExpanded, Expanded
  <2> QED BY <2>1, <2>2
<1>7. /\ IsFiniteSet(Entered) /\ Cardinality(Entered) \in Nat
      /\ Cardinality(Entered \cup {f}) = IF f \in Entered THEN Cardinality(Entered)
                                                          ELSE Cardinality(Entered) + 1
  BY EnteredIsFinite, FS_AddElement
<1>8. fresh # {} => Cardinality(Entered') = Cardinality(Entered) + 1
  BY <1>3, <1>5, <1>7
<1>9. Cardinality(Entered) <= Cardinality(Entered')
  BY <1>5, <1>7, <1>8
<1> QED BY <1>0, <1>5, <1>6, <1>8, <1>9 DEF fresh

\* A run stays one while the scope does and no fewer components are entered.
LEMMA RunStays ==
  ASSUME UNCHANGED <<doc, request, scope>>, NEW frame, IsRun(frame),
         Cardinality(Entered) \in Nat, Cardinality(Entered') \in Nat,
         Cardinality(Entered) <= Cardinality(Entered')
  PROVE  IsRun(frame)'
<1>1. GoesOn(frame.sig, <<frame.node, frame.len>>)'
  BY SameRuns DEF IsRun
<1>2. PICK k \in 0 .. Cardinality(Entered) : <<frame.node, frame.len>> \in RunsIn(frame.sig, k)
  BY DEF IsRun
<1>3. k \in 0 .. Cardinality(Entered') /\ <<frame.node, frame.len>> \in RunsIn(frame.sig, k)'
  BY <1>2, SameRuns
<1> QED BY <1>1, <1>3 DEF IsRun

\* Where the walk can start: at a device itself, after no step.
LEMMA OwnRun ==
  ASSUME NEW p, Cardinality(scope) \in Nat, Cardinality(Entered) \in Nat
  PROVE  IsRun([node |-> p, sig |-> p, len |-> 0])
<1>1. <<p, 0>> \in RunsIn(p, 0) /\ GoesOn(p, <<p, 0>>) /\ 0 \in 0 .. Cardinality(Entered)
  BY RunsGrow DEF GoesOn
<1> QED BY <1>1 DEF IsRun

\* Starting a root keeps the invariant of runs and distances.
LEMMA StartKeepsRuns ==
  ASSUME TypeOK, Phases, RunInv, StartRoot
  PROVE  RunInv'
<1> DEFINE root == Head(roots)
<1>1. /\ UNCHANGED <<doc, request, scope, visited>> /\ pc = "walk" /\ Walking
      /\ roots \in Seq(RootIds) /\ roots # <<>>
      /\ stack' = <<[node |-> root, sig |-> root, len |-> 0]>>
  BY DEF StartRoot, TypeOK, Walking
<1>2. root \in RootIds
  BY <1>1
<1>3. /\ DOMAIN nodes' = DOMAIN nodes \cup {root}
      /\ \A n \in DOMAIN nodes' :
           nodes'[n] = IF n \in DOMAIN nodes THEN nodes[n] ELSE [parent |-> NoParent, dist |-> 0]
  BY DEF StartRoot, Register
<1> HIDE DEF root
<1>4. Entered' = Entered /\ RootIds' = RootIds /\ (EnteredAreExpanded => EnteredAreExpanded')
  <2>1. Entered' = Entered /\ \A n : Expanded(n)' = Expanded(n)
    BY <1>1, SameEdgesSameMet DEF Entered
  <2> QED BY <1>1, <2>1, SameGraph DEF EnteredAreExpanded
<1>5. /\ Cardinality(scope) \in Nat /\ Cardinality(Entered) \in Nat
      /\ Cardinality(Entered) <= Cardinality(Entered')
  BY <1>4, EnteredIsFinite
<1>6. FramesAreRuns'
  <2> SUFFICES ASSUME NEW g \in Elements(stack') PROVE IsRun(g)'
    BY DEF FramesAreRuns
  <2>1. g = [node |-> root, sig |-> root, len |-> 0]
    BY <1>1 DEF Elements
  <2>2. IsRun(g)
    BY <1>5, <2>1, OwnRun
  <2> QED BY <1>1, <1>4, <1>5, <2>2, RunStays
<1>7. LinksAreRuns'
  <2> SUFFICES ASSUME NEW n \in DOMAIN nodes' PROVE LinkIsRun(n)'
    BY DEF LinksAreRuns
  <2>1. CASE n \in DOMAIN nodes
    <3>1. LinkIsRun(n) /\ nodes'[n] = nodes[n]
      BY <1>1, <1>3, <2>1 DEF RunInv, LinksAreRuns
    <3>2. nodes[n].parent = NoParent \/ nodes'[nodes[n].parent] = nodes[nodes[n].parent]
      BY <1>3, <2>1 DEF TypeOK
    <3> QED BY <1>1, <1>4, <3>1, <3>2, SameRuns DEF LinkIsRun
  <2>2. CASE n \notin DOMAIN nodes
    <3>1. n = root /\ nodes'[n] = [parent |-> NoParent, dist |-> 0]
      BY <1>3, <2>2
    <3> QED BY <1>2, <1>4, <3>1 DEF LinkIsRun
  <2> QED BY <2>1, <2>2
<1> QED BY <1>4, <1>6, <1>7 DEF RunInv

\* A turn of the walk: each fresh child is one step further than the component it hangs
\* from, and a device registered there is a run below the device above.
LEMMA VisitKeepsRuns ==
  ASSUME TypeOK, Phases, RunInv, Visit
  PROVE  RunInv'
<1>0. PICK frame : frame = Head(stack)
  OBVIOUS
<1> DEFINE fresh == Fresh(frame.node)
           p == frame.sig
<1>1. /\ UNCHANGED <<doc, request, scope>> /\ Walking /\ stack # <<>> /\ stack \in Seq(Frame)
  BY DEF Visit, Walking, TypeOK
<1>2. /\ frame \in Frame
      /\ DOMAIN nodes' = DOMAIN nodes \cup {c \in fresh : IsSignificant(c)}
      /\ \A n \in DOMAIN nodes : nodes'[n] = nodes[n]
      /\ \A n \in DOMAIN nodes' \ DOMAIN nodes :
           nodes'[n] = [parent |-> p, dist |-> nodes[p].dist + frame.len]
      /\ \A k \in DOMAIN stack' :
           \/ \E i \in DOMAIN stack : stack'[k] = stack[i]
           \/ \E c \in fresh : ~IsLeaf(c) /\ stack'[k] = Continue(frame, c)
  BY <1>0, VisitEffect
<1>3. /\ EnteredAreExpanded'
      /\ fresh # {} => Cardinality(Entered') = Cardinality(Entered) + 1
      /\ Cardinality(Entered) <= Cardinality(Entered')
  BY <1>0, VisitKeepsEntered DEF RunInv
<1>4. /\ Cardinality(scope) \in Nat /\ Cardinality(Entered) \in Nat
      /\ Cardinality(Entered') \in Nat /\ Cardinality(Entered') <= Cardinality(scope)
  <2>1. Cardinality(scope) \in Nat /\ Cardinality(Entered) \in Nat
    BY EnteredIsFinite
  <2>2. IsFiniteSet(scope) /\ Entered' \subseteq scope
    BY <1>1, ScopeIsFinite DEF Entered
  <2> QED BY <2>1, <2>2, FS_Subset, FS_CardinalityType
<1>5. \A c \in fresh : c \in Children(frame.node) /\ c \in scope
  BY DEF Fresh, Children
<1>6. IsRun(frame) /\ p \in DOMAIN nodes /\ frame.len \in Nat /\ p # NoParent
  <2>1. frame = stack[1] /\ 1 \in DOMAIN stack
    BY <1>0, <1>1
  <2>2. p \in DOMAIN nodes /\ frame.len \in Nat
    BY <1>2 DEF Frame
  <2>3. NoParent \notin Ids /\ DOMAIN nodes \subseteq Ids
    BY DocumentsAreGraphs DEF Phases, Ids, TypeOK
  <2> QED BY <1>1, <2>1, <2>2, <2>3 DEF RunInv, FramesAreRuns, Elements
<1> HIDE DEF fresh
<1>7. ASSUME NEW c \in fresh
      PROVE  \E k \in 0 .. Cardinality(Entered') :
               <<c, frame.len + Cable(c)>> \in RunsIn(p, k)
  <2>1. PICK k \in 0 .. Cardinality(Entered) : <<frame.node, frame.len>> \in RunsIn(p, k)
    BY <1>6 DEF IsRun
  <2>2. GoesOn(p, <<frame.node, frame.len>>)
    BY <1>6 DEF IsRun
  <2>3. k \in 0 .. Cardinality(scope) - 1 /\ k + 1 \in 0 .. Cardinality(Entered')
    BY <1>3, <1>4, <1>7
  <2>4. \A run \in RunsIn(p, k) : GoesOn(p, run) =>
          \A d \in Children(run[1]) : <<d, run[2] + Cable(d)>> \in RunsIn(p, k + 1)
    BY <1>4, <2>3, RunsGrow
  <2>5. <<c, frame.len + Cable(c)>> \in RunsIn(p, k + 1)
    BY <1>5, <1>7, <2>1, <2>2, <2>4
  <2> QED BY <2>3, <2>5
<1>8. FramesAreRuns'
  <2> SUFFICES ASSUME NEW g \in Elements(stack') PROVE IsRun(g)'
    BY DEF FramesAreRuns
  <2>1. CASE g \in Elements(stack)
    <3>1. IsRun(g)
      BY <1>1, <2>1 DEF RunInv, FramesAreRuns
    <3> QED BY <1>1, <1>3, <1>4, <3>1, RunStays
  <2>2. ASSUME NEW c \in fresh, ~IsLeaf(c), g = Continue(frame, c)
        PROVE  IsRun(g)'
    <3>1. CASE IsSignificant(c)
      <4>1. g = [node |-> c, sig |-> c, len |-> 0]
        BY <2>2, <3>1 DEF Continue
      <4> QED BY <1>1, <1>3, <1>4, <4>1, OwnRun, RunStays
    <3>2. CASE ~IsSignificant(c)
      <4>1. g = [node |-> c, sig |-> p, len |-> frame.len + Cable(c)]
        BY <2>2, <3>2 DEF Continue, Cable
      <4>2. GoesOn(g.sig, <<g.node, g.len>>)
        BY <2>2, <3>2, <4>1 DEF GoesOn
      <4>3. PICK j \in 0 .. Cardinality(Entered') : <<g.node, g.len>> \in RunsIn(g.sig, j)
        BY <1>7, <4>1
      <4>4. GoesOn(g.sig, <<g.node, g.len>>)' /\ <<g.node, g.len>> \in RunsIn(g.sig, j)'
        BY <1>1, <4>2, <4>3, SameRuns
      <4> QED BY <4>3, <4>4 DEF IsRun
    <3> QED BY <3>1, <3>2
  <2>3. g \in Elements(stack) \/ \E c \in fresh : ~IsLeaf(c) /\ g = Continue(frame, c)
    BY <1>2 DEF Elements
  <2> QED BY <2>1, <2>2, <2>3
<1>9. LinksAreRuns'
  <2> SUFFICES ASSUME NEW n \in DOMAIN nodes' PROVE LinkIsRun(n)'
    BY DEF LinksAreRuns
  <2>1. CASE n \in DOMAIN nodes
    <3>1. LinkIsRun(n) /\ nodes'[n] = nodes[n]
      BY <1>1, <1>2, <2>1 DEF RunInv, LinksAreRuns
    <3>2. nodes[n].parent = NoParent \/ nodes'[nodes[n].parent] = nodes[nodes[n].parent]
      BY <1>2, <2>1 DEF TypeOK
    <3>3. RootIds' = RootIds
      BY <1>1, SameGraph
    <3> QED BY <1>1, <3>1, <3>2, <3>3, SameRuns DEF LinkIsRun
  <2>2. CASE n \notin DOMAIN nodes
    <3>1. n \in fresh /\ IsSignificant(n)
      BY <1>2, <2>2
    <3>2. /\ nodes'[n].parent = p /\ nodes'[p] = nodes[p]
          /\ nodes'[n].dist = nodes[p].dist + frame.len
      BY <1>2, <1>6, <2>2
    <3>3. nodes[p].dist \in Nat /\ frame.len \in Nat
      BY <1>6 DEF TypeOK
    <3>4. nodes'[n].dist >= nodes'[p].dist /\ nodes'[n].dist - nodes'[p].dist = frame.len
      BY <3>2, <3>3
    <3>5. Cable(n) = 0
      BY <3>1 DEF Cable, IsSignificant, RootTypes, AmpTypes, PassiveTypes
    <3>6. PICK k \in 0 .. Cardinality(Entered') : <<n, frame.len>> \in RunsIn(p, k)
      BY <1>6, <1>7, <3>1, <3>5
    <3>7. <<n, frame.len>> \in RunsIn(p, Cardinality(scope))
      <4>1. k \in 0 .. Cardinality(scope) /\ Cardinality(scope) \in k .. Cardinality(scope)
        BY <1>4
      <4>2. RunsIn(p, k) \subseteq RunsIn(p, Cardinality(scope))
        BY <1>4, <4>1, RunsStay
      <4> QED BY <3>6, <4>2
    <3>8. <<n, frame.len>> \in Runs(p)
      BY <1>4, <3>7, RunsGrow
    <3>9. \A q : Runs(q)' = Runs(q)
      BY <1>1, SameRuns
    <3> QED BY <1>6, <3>2, <3>4, <3>8, <3>9 DEF LinkIsRun
  <2> QED BY <2>1, <2>2
<1> QED BY <1>3, <1>8, <1>9 DEF RunInv

\* Before the walk no frame and no device has a run to account for.
LEMMA RunsBeforeTheWalk ==
  ASSUME TypeOK, Phases, Refuse \/ ParseWhole \/ ParseSegment \/ ExtendScope \/ EndScope \/ ChooseRoots
  PROVE  RunInv'
<1>1. stack' = <<>> /\ nodes' = <<>> /\ visited' = {}
  BY DEF Refuse, ParseWhole, ParseSegment, ExtendScope, EndScope, ChooseRoots, Phases
<1>2. Elements(stack') = {} /\ Entered' = {} /\ DOMAIN nodes' = {}
  BY <1>1, NothingRegistered DEF Elements, Entered
<1> QED BY <1>2 DEF RunInv, EnteredAreExpanded, FramesAreRuns, LinksAreRuns

\* The invariant of runs and distances holds on when the parse ends.
LEMMA RunsKept ==
  ASSUME RunInv, Finish \/ UNCHANGED vars
  PROVE  RunInv'
<1>1. UNCHANGED <<doc, request, scope, visited, stack, nodes>> /\ (Walking' => Walking)
  BY DEF Finish, vars, Walking
<1>2. /\ Entered' = Entered /\ RootIds' = RootIds
      /\ \A n : Expanded(n)' = Expanded(n)
  BY <1>1, SameEdgesSameMet, SameGraph DEF Entered
<1>3. \A f : IsRun(f)' = IsRun(f)
  BY <1>1, <1>2, SameRuns DEF IsRun
<1>4. ASSUME NEW n, LinkIsRun(n) PROVE LinkIsRun(n)'
  <2>1. nodes' = nodes /\ RootIds' = RootIds /\ \A p : Runs(p)' = Runs(p)
    BY <1>1, <1>2, SameRuns
  <2> QED BY <1>4, <2>1 DEF LinkIsRun
<1> QED BY <1>1, <1>2, <1>3, <1>4 DEF RunInv, EnteredAreExpanded, FramesAreRuns, LinksAreRuns

\* For every document, whichever path wins in a mesh: parent and distance of a device are
\* those of one path of connectors, its cables as long as the two distances are apart.
THEOREM ParentsAndDistancesAgree == Spec => []ParentAndDistanceAgree
<1>1. Init => TypeOK /\ Phases /\ RunInv
  <2>1. Init => RunInv
    <3> SUFFICES ASSUME Init PROVE RunInv
      OBVIOUS
    <3>1. Entered = {} /\ ~Walking
      BY DEF Init, Entered, Walking
    <3> QED BY <3>1 DEF RunInv, EnteredAreExpanded, FramesAreRuns, LinksAreRuns
  <2> QED BY <2>1, InitTypes
<1>2. TypeOK /\ Phases /\ RunInv /\ [Next]_vars => (TypeOK /\ Phases /\ RunInv)'
  <2> SUFFICES ASSUME TypeOK, Phases, RunInv, [Next]_vars PROVE RunInv'
    BY NextTypes
  <2> QED BY RunsBeforeTheWalk, StartKeepsRuns, VisitKeepsRuns, RunsKept DEF Next, Step, Ended
<1>3. TypeOK /\ Phases /\ RunInv => ParentAndDistanceAgree
  BY DEF RunInv, LinksAreRuns, LinkIsRun, Walking, ParentAndDistanceAgree
<1> QED BY <1>1, <1>2, <1>3, PTL DEF Spec

--------------------------------------------------------------------------------
(* The tree of a segment.                                                         *)

\* Devices are ranked by when they were registered: a parent always before its children.
RankInv ==
  \E rank \in [DOMAIN nodes -> 1 .. Cardinality(DOMAIN nodes)] :
    \A n \in DOMAIN nodes : nodes[n].parent # NoParent => rank[nodes[n].parent] < rank[n]

\* What is registered later can be ranked after all that was there.
LEMMA RanksExtend ==
  ASSUME NEW D, NEW E, IsFiniteSet(E), D \subseteq E,
         NEW rank \in [D -> 1 .. Cardinality(D)]
  PROVE  \E ext \in [E -> 1 .. Cardinality(E)] :
           /\ \A n \in D : ext[n] = rank[n]
           /\ \A n \in D, m \in E \ D : ext[n] < ext[m]
<1> DEFINE a == Cardinality(D)
           b == Cardinality(E)
           ext == [n \in E |-> IF n \in D THEN rank[n] ELSE b]
<1>1. a \in Nat /\ b \in Nat /\ a <= b /\ (a = b => D = E)
  BY FS_Subset, FS_CardinalityType
<1>2. E # {} => b # 0
  BY FS_EmptySet
<1> HIDE DEF a, b
<1>3. \A n \in D : rank[n] \in 1 .. a
  BY DEF a
<1>4. ext \in [E -> 1 .. b]
  <2> SUFFICES ASSUME NEW n \in E PROVE (IF n \in D THEN rank[n] ELSE b) \in 1 .. b
    OBVIOUS
  <2> QED BY <1>1, <1>2, <1>3
<1>5. \A n \in D : ext[n] = rank[n]
  OBVIOUS
<1>6. ASSUME NEW n \in D, NEW m \in E \ D PROVE ext[n] < ext[m]
  <2>1. a # b /\ ext[m] = b /\ ext[n] = rank[n]
    BY <1>1
  <2> QED BY <1>1, <1>3, <2>1
<1> HIDE DEF ext
<1> QED BY <1>4, <1>5, <1>6 DEF b

\* A device registered below a registered one can be ranked above it, so the ranks
\* extend to the new devices.
LEMMA RegisteringKeepsRanks ==
  ASSUME TypeOK, Phases, RankInv,
         IsFiniteSet(DOMAIN nodes'), DOMAIN nodes \subseteq DOMAIN nodes',
         \A n \in DOMAIN nodes : nodes'[n] = nodes[n],
         \A n \in DOMAIN nodes' \ DOMAIN nodes : nodes'[n].parent \in DOMAIN nodes \cup {NoParent}
  PROVE  RankInv'
<1>1. PICK rank \in [DOMAIN nodes -> 1 .. Cardinality(DOMAIN nodes)] :
        \A n \in DOMAIN nodes : nodes[n].parent # NoParent => rank[nodes[n].parent] < rank[n]
  BY DEF RankInv
<1>2. PICK ext \in [DOMAIN nodes' -> 1 .. Cardinality(DOMAIN nodes')] :
        /\ \A n \in DOMAIN nodes : ext[n] = rank[n]
        /\ \A n \in DOMAIN nodes, m \in DOMAIN nodes' \ DOMAIN nodes : ext[n] < ext[m]
  BY RanksExtend
<1>3. ASSUME NEW n \in DOMAIN nodes', nodes'[n].parent # NoParent
      PROVE  ext[nodes'[n].parent] < ext[n]
  <2>1. CASE n \in DOMAIN nodes
    <3>1. nodes'[n] = nodes[n] /\ nodes[n].parent \in DOMAIN nodes
      BY <1>3, <2>1 DEF TypeOK
    <3> QED BY <1>1, <1>2, <1>3, <2>1, <3>1
  <2>2. CASE n \notin DOMAIN nodes
    BY <1>2, <1>3, <2>2
  <2> QED BY <2>1, <2>2
<1> QED BY <1>3 DEF RankInv

\* At all times the registered devices have ranks that fall along the parent links.
LEMMA RankInvariant == Spec => [](TypeOK /\ Phases /\ RankInv)
<1>1. Init => TypeOK /\ Phases /\ RankInv
  <2> SUFFICES ASSUME Init PROVE RankInv
    BY InitTypes
  <2>1. nodes = <<>>
    BY DEF Init
  <2>2. nodes \in [DOMAIN nodes -> 1 .. Cardinality(DOMAIN nodes)] /\ DOMAIN nodes = {}
    BY <2>1, NothingRegistered
  <2> QED BY <2>2 DEF RankInv
<1>2. TypeOK /\ Phases /\ RankInv /\ [Next]_vars => (TypeOK /\ Phases /\ RankInv)'
  <2> SUFFICES ASSUME TypeOK, Phases, RankInv, [Next]_vars PROVE RankInv'
    BY NextTypes
  <2>1. IsFiniteSet(DOMAIN nodes')
    <3>1. IsFiniteSet(scope') /\ DOMAIN nodes' \subseteq scope'
      BY NextTypes, DocumentsAreGraphs, FS_Subset DEF TypeOK, Phases, Ids
    <3> QED BY <3>1, FS_Subset
  <2>2. CASE StartRoot
    <3>1. /\ DOMAIN nodes \subseteq DOMAIN nodes'
          /\ \A n \in DOMAIN nodes : nodes'[n] = nodes[n]
          /\ \A n \in DOMAIN nodes' \ DOMAIN nodes : nodes'[n].parent = NoParent
      BY <2>2 DEF StartRoot, Register
    <3> QED BY <2>1, <3>1, RegisteringKeepsRanks
  <2>3. CASE Visit
    <3> DEFINE frame == Head(stack)
    <3>1. /\ DOMAIN nodes \subseteq DOMAIN nodes' /\ frame.sig \in DOMAIN nodes
          /\ \A n \in DOMAIN nodes : nodes'[n] = nodes[n]
          /\ \A n \in DOMAIN nodes' \ DOMAIN nodes : nodes'[n].parent = frame.sig
      BY <2>3, VisitEffect DEF Frame
    <3> HIDE DEF frame
    <3> QED BY <2>1, <3>1, RegisteringKeepsRanks
  <2>4. CASE ~StartRoot /\ ~Visit
    <3>1. nodes' = nodes
      BY <2>4, NodesUnchangedUnlessWalking
    <3> QED BY <3>1 DEF RankInv
  <2> QED BY <2>2, <2>3, <2>4
<1> QED BY <1>1, <1>2, PTL DEF Spec

\* A requested segment is a tree below its RPD.
SegmentIsATree == pc = "done" /\ Scoped => \A r \in request.rpd : IsTree(Segment, r)

\* The segment handed to the localizer has the registered devices as nodes, with the
\* parents and kinds the parser gave them.
LEMMA SegmentFields ==
  /\ NodeIds(Segment) = DOMAIN nodes
  /\ \A n \in DOMAIN nodes : Segment.parent[n] = nodes[n].parent /\ Segment.kind[n] = Kind(n)
BY DEF NodeIds, Segment

\* When a parse of one RPD's segment has ended, the ranks and the reachability make
\* its segment a tree below that RPD.
LEMMA ParsedIsATree ==
  ASSUME TypeOK, Phases, RankInv, RegistersTheReachable, ParentAndDistanceAgree,
         EveryDeviceHangsFromARoot
  PROVE  SegmentIsATree
<1> SUFFICES ASSUME pc = "done", Scoped, NEW r \in request.rpd PROVE IsTree(Segment, r)
  BY DEF SegmentIsATree
<1>1. RootIds = {r} /\ r \in scope /\ IsSignificant(r)
  BY RequestsNameOneRpd, RootsAreDevices DEF Phases, RootIds
<1>2. r \in DOMAIN nodes
  BY <1>1 DEF RegistersTheReachable, Reached, Closed
<1>3. \A n \in DOMAIN nodes : nodes[n].parent = NoParent => n = r
  BY <1>1 DEF ParentAndDistanceAgree
<1>4. DOMAIN nodes \subseteq Nat \ {NoParent} /\ IsFiniteSet(DOMAIN nodes)
  <2>1. DOMAIN nodes \subseteq scope
    BY DEF TypeOK
  <2>2. IsFiniteSet(DOMAIN nodes)
    BY <2>1, ScopeIsFinite
  <2> QED BY <2>2, DocumentsAreGraphs DEF TypeOK, Phases, Ids
<1>5. \A n \in DOMAIN nodes : nodes[n].parent \in DOMAIN nodes \cup {NoParent}
  BY DEF TypeOK
<1>6. nodes[r].parent = NoParent
  <2> SUFFICES ASSUME nodes[r].parent # NoParent PROVE FALSE
    OBVIOUS
  <2>1. \A n \in DOMAIN nodes : nodes[n].parent \notin {} \cup {NoParent}
    BY <1>2, <1>3
  <2>2. {} = DOMAIN nodes
    BY <2>1 DEF EveryDeviceHangsFromARoot
  <2> QED BY <1>2, <2>2
<1>7. IsTopology(Segment)
  <2>1. Segment.parent \in [DOMAIN nodes -> Nat]
    BY <1>4, <1>5 DEF Segment, NoParent
  <2>2. Segment.kind \in [DOMAIN nodes -> {"AMP", "PASSIVE", "RPD"}]
    BY DEF Segment, Kind
  <2> QED BY <1>4, <2>1, <2>2, SegmentFields DEF IsTopology, None, NoParent
<1>8. \E rank \in [NodeIds(Segment) -> 1 .. Cardinality(NodeIds(Segment))] : Rises(Segment, rank)
  <2>1. PICK rank \in [DOMAIN nodes -> 1 .. Cardinality(DOMAIN nodes)] :
          \A n \in DOMAIN nodes : nodes[n].parent # NoParent => rank[nodes[n].parent] < rank[n]
    BY DEF RankInv
  <2>2. Rises(Segment, rank)
    BY <2>1, SegmentFields DEF Rises, None, NoParent
  <2> QED BY <2>1, <2>2, SegmentFields
<1> QED BY <1>2, <1>3, <1>5, <1>6, <1>7, <1>8, SegmentFields DEF IsTree, None, NoParent

\* For every document and request: the topology of a requested segment is a tree below its
\* RPD. This is what the theorems about the localizer assume of a segment.
THEOREM SegmentsAreTreesBelowTheRpd == Spec => []SegmentIsATree
BY ParsedIsATree, RankInvariant, ParserFindsTheReachable, ParentsAndDistancesAgree,
   ParentLinksAreAForest, PTL

\* For every document and request: any impaired amps of a requested segment have a common
\* point, it is on the path of each, and each path ends at the RPD. The fallback for amps
\* without a common ancestor is never needed there.
THEOREM CommonPointExists == Spec => []ImpairedAmpsHaveACommonPoint
<1>1. SegmentIsATree => ImpairedAmpsHaveACommonPoint
  <2> SUFFICES ASSUME SegmentIsATree, pc = "done", Scoped,
                      NEW impaired \in SUBSET AmpIds(Segment) \ {{}}, NEW a \in impaired
               PROVE  /\ PathToRpd(Segment, a)[Len(PathToRpd(Segment, a))] \in request.rpd
                      /\ \E i \in DOMAIN PathToRpd(Segment, a) :
                           PathToRpd(Segment, a)[i] = CommonPoint(Segment, impaired)
    BY DEF ImpairedAmpsHaveACommonPoint
  <2> DEFINE path == PathToRpd(Segment, a)
             common == CommonPoint(Segment, impaired)
  <2>1. PICK top \in request.rpd : IsTree(Segment, top)
    BY DEF SegmentIsATree, Scoped
  <2>2. impaired \subseteq NodeIds(Segment) /\ impaired # {}
    BY DEF AmpIds
  <2>3. GoesUp(path, Segment, a)
    BY <2>1, <2>2, PathGoesUp
  <2>4. /\ common \in NodeIds(Segment)
        /\ common \in Above(Segment, common) => common \in Above(Segment, a)
    BY <2>1, <2>2, CommonPointHolds
  <2>5. common \in Held(path)
    BY <2>1, <2>4, AboveOrders DEF Above
  <2> HIDE DEF path, common
  <2>6. path[Len(path)] = top
    <3>1. Len(path) \in 1 .. Len(path)
      BY <2>3 DEF GoesUp
    <3> QED BY <2>1, <2>3, <3>1 DEF GoesUp, IsTree
  <2>7. \E i \in DOMAIN path : path[i] = common
    BY <2>5 DEF Held
  <2> QED BY <2>6, <2>7 DEF path, common
<1> QED BY <1>1, SegmentsAreTreesBelowTheRpd, PTL

\* No RPD is fed by another component.
SourcesAreUnfed ==
  \A d \in Documents : \A e \in d.edges : e[2] \in DOMAIN d.type => d.type[e[2]] \notin RootTypes

\* Where no RPD of a document is fed by another component, the RPD of a requested segment is
\* its only one: the localizer's other assumption.
THEOREM SegmentsHaveOneRpd ==
  ASSUME SourcesAreUnfed
  PROVE  Spec => [](pc = "done" /\ Scoped => \A r \in request.rpd : OnlyTopIsRpd(Segment, r))
<1>1. TypeOK /\ Phases /\ RegistersTheReachable =>
        (pc = "done" /\ Scoped => \A r \in request.rpd : OnlyTopIsRpd(Segment, r))
  <2> SUFFICES ASSUME TypeOK, Phases, RegistersTheReachable, pc = "done", Scoped,
                      NEW r \in request.rpd, NEW n \in DOMAIN nodes, Kind(n) = "RPD"
               PROVE  n = r
    BY SegmentFields DEF OnlyTopIsRpd
  <2>1. RootIds = {r} /\ r \in scope
    BY RequestsNameOneRpd, RootsAreDevices DEF Phases, RootIds
  <2>2. IsRoot(n) /\ n \in Reached
    BY DEF Kind, RegistersTheReachable
  <2> DEFINE S == {r} \cup {m \in scope : ~IsRoot(m)}
  <2>3. S \in SUBSET scope /\ RootIds \subseteq S
    BY <2>1
  <2>4. ASSUME NEW m \in S, NEW c \in Children(m) PROVE c \in S
    <3>1. c \in scope /\ c \in Ids /\ <<m, c>> \in doc.edges
      BY DEF Children, Downstream
    <3>2. <<m, c>>[2] = c /\ doc \in Documents
      BY DEF Phases
    <3>3. ~IsRoot(c)
      BY <3>1, <3>2 DEF SourcesAreUnfed, IsRoot, Ids
    <3> QED BY <3>1, <3>3
  <2>5. Closed(S)
    BY <2>3, <2>4 DEF Closed
  <2>6. n \in S
    BY <2>2, <2>3, <2>5 DEF Reached
  <2> QED BY <2>2, <2>6
<1> QED BY <1>1, ScopeInvariant, ParserFindsTheReachable, PTL

================================================================================
