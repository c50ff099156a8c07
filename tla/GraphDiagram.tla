---------------------------- MODULE GraphDiagram ----------------------------
(***************************************************************************)
(* generateKnowledgeGraphDiagram of aipkg/rag/graph: which entities and    *)
(* relations are drawn together.                                           *)
(***************************************************************************)
EXTENDS GraphBuilder

Adjacent == {key \in DOMAIN relationshipMap : Known(key[1]) /\ Known(key[2])}

\* As Dfs, but only along the relations.
RECURSIVE DfsForward(_, _)
DfsForward(title, visited) ==
    FoldSet(LAMBDA t, seen : IF t \in seen THEN seen ELSE DfsForward(t, seen), visited \union {title},
            {t \in Titles : <<title, t>> \in Adjacent})

\* dfs: along the relations of a title, then against them.
RECURSIVE Dfs(_, _)
Dfs(title, visited) ==
    LET next == {t \in Titles : <<title, t>> \in Adjacent \/ <<t, title>> \in Adjacent}
    IN FoldSet(LAMBDA t, seen : IF t \in seen THEN seen ELSE Dfs(t, seen), visited \union {title}, next)

Subgraphs ==
    FoldSet(LAMBDA t, parts : IF t \in UNION parts THEN parts ELSE parts \union {Dfs(t, UNION parts) \ UNION parts},
            {}, DOMAIN entityMap)

\* A title alone is drawn only when some relation names it.
Drawn == {part \in Subgraphs : \/ Cardinality(part) > 1
                               \/ \E key \in DOMAIN relationshipMap : {key[1], key[2]} \intersect part # {}}

\* The subgraphs of the diagram hold every entity once, every relation between
\* known entities is inside one of them, and none of them falls apart.
DiagramIsComplete ==
    /\ UNION Subgraphs = DOMAIN entityMap
    /\ \A a, b \in Subgraphs : a = b \/ a \intersect b = {}
    /\ \A key \in Adjacent : \E part \in Drawn : key[1] \in part /\ key[2] \in part
    /\ \A part \in Subgraphs, some \in SUBSET Titles :
          some # {} /\ some \subseteq part /\ some # part =>
              \E key \in Adjacent : (key[1] \in some) # (key[2] \in some)
=============================================================================
