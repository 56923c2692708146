---------------------------- MODULE MCPlantSegment ----------------------------
(* Small plant documents and the requests made of them.                         *)
EXTENDS PlantSegment

\* Component 1 is an RPD and 2 its port "P1"; lengths differ, so that a distance shows
\* which cables it counts.
Document(types, edges, portIds) ==
  [type   |-> <<"RfSource", "RfPort">> \o types,
   length |-> <<0, 0, 1, 2, 4>>,
   portId |-> <<"", "P1">> \o portIds,
   edges  |-> edges]

Below == {3, 4, 5}
Rank(t) == CASE t = "RfAmp" -> 1 [] t = "RfSplitter" -> 2 [] t = "RfCable" -> 3 [] t = "device" -> 4
SomeTypes == {"RfAmp", "RfSplitter", "RfCable", "device"}

\* The graphs on three components below the port with at most MaxMesh edges among
\* them, of every choice of types, with and without edges back to the RPD and the port.
MaxMesh == 3
Segments ==
  {Document(t, {<<1, 2>>} \cup {<<2, n>> : n \in first} \cup mesh \cup back, <<"", "", "">>) :
     t \in {u \in SomeTypes \X SomeTypes \X SomeTypes :
              Rank(u[1]) <= Rank(u[2]) /\ Rank(u[2]) <= Rank(u[3])},
     first \in (SUBSET Below) \ {{}},
     mesh \in {m \in SUBSET {e \in Below \X Below : e[1] # e[2]} : Cardinality(m) <= MaxMesh},
     back \in {{}, {<<3, 1>>, <<3, 3>>, <<5, 2>>}}}

\* A second port of the RPD, with another number or the same, and amps below both.
TwoPorts ==
  {Document(<<"RfAmp", t, "RfPort">>, {<<1, 2>>, <<1, 5>>, <<2, 3>>, <<5, 4>>} \cup mesh,
            <<"", "", p>>) :
     t \in {"RfAmp", "RfCable"}, p \in {"P1", "P2"},
     mesh \in SUBSET {<<3, 1>>, <<3, 4>>, <<4, 3>>, <<3, 5>>, <<4, 1>>}}

\* Documents with several sources, or with none that nothing feeds, or with none at all.
SourceLayouts ==
  {[Document(<<"RfAmp", t, "RfTap">>, edges, <<"", "", "">>) EXCEPT !.type[1] = s] :
     t \in {"RfSource", "RfAmp"}, s \in {"RfSource", "RfCable", "RfUnknown"},
     edges \in SUBSET {<<1, 2>>, <<2, 3>>, <<3, 1>>, <<4, 3>>, <<3, 4>>, <<4, 5>>, <<5, 9>>}}

AllDocuments == Segments \cup TwoPorts \cup SourceLayouts

SomeRequests == {[rpd |-> {}, port |-> {}], [rpd |-> {1}, port |-> {"P1"}],
                 [rpd |-> {1}, port |-> {}], [rpd |-> {2}, port |-> {"P1"}]}

================================================================================
