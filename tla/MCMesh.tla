------------------------------- MODULE MCMesh -------------------------------
(* Small meshes for TLC. *)
EXTENDS Mesh, TLC

MCHears(nodes, edges) ==
  [n \in nodes |-> {m \in nodes : <<n, m>> \in edges \/ <<m, n>> \in edges}]

\* Breadth-first distances; a node that cannot be reached is Cardinality(nodes)
\* hops away, which is further than any other.
MCDistance(nodes, edges) ==
  LET ball[o \in nodes, h \in 0 .. Cardinality(nodes)] ==
        IF h = 0 THEN {o}
        ELSE ball[o, h - 1]
               \cup UNION {MCHears(nodes, edges)[m] : m \in ball[o, h - 1]}
  IN  [o \in nodes |-> [n \in nodes |->
         CHOOSE h \in 0 .. Cardinality(nodes) :
           /\ n \in ball[o, h] \/ h = Cardinality(nodes)
           /\ \A g \in 0 .. h - 1 : n \notin ball[o, g]]]

\* A chain of three nodes: nobody has two neighbours that hear each other.
MCThree == {"a", "b", "c"}
MCChainEdges == {<<"a", "b">>, <<"b", "c">>}
MCChain == MCHears(MCThree, MCChainEdges)
MCChainHops == MCDistance(MCThree, MCChainEdges)

\* A triangle a, b, c with a tail: d hears c alone.
MCFour == {"a", "b", "c", "d"}
MCTailEdges == {<<"a", "b">>, <<"a", "c">>, <<"b", "c">>, <<"c", "d">>}
MCTail == MCHears(MCFour, MCTailEdges)
MCTailHops == MCDistance(MCFour, MCTailEdges)

\* Every frame is for the second node, so that it is delivered and relayed.
MCForB == [k \in Keys |-> {"b"}]

\* A medium without impairments; one that loses and duplicates.
MCOnce == {1}
MCImpaired == {0, 1, 2}
=============================================================================
