------------------------------- MODULE MCRag -------------------------------
(***************************************************************************)
(* Instances of Chunker, GraphBuilder and ContextCompact for TLC.  A       *)
(* behaviour is one of one of them, or of MCTools; the others are at rest. *)
(***************************************************************************)
EXTENDS Chunker, GraphDiagram, ContextCompact, TLC

(***************************************************************************)
(* Chunker: texts of a few lines, each line one of the kinds that the      *)
(* chunkers tell apart.                                                    *)
(***************************************************************************)
Short == <<"a", "a">>
Long == <<"a", "a", "a", "a", "a", "a", "a">>
Words == <<"a", " ", "a", "a", "a", "a", " ", "a">>
Stops == <<"a", ".", "a", "a", ".", "a", "a", "a", ".">>
Code == <<"f", "a", ".", "a", "f">>
H1 == <<"#1", "a">>
H2 == <<"#2", "a">>
Page1 == <<"<", " ", "1", " ", ">">>
Page2 == <<"<", " ", "2", " ", ">">>
Odd == <<" ", "e", "u">>

TextOf(lines) == AsText(FoldLeftDomain(LAMBDA t, i : t \o (IF i = 1 THEN <<>> ELSE Newline) \o lines[i],
                                       <<>>, lines))
TextsOf(kinds, n) == {TextOf(lines) : lines \in UNION {[1..k -> kinds] : k \in 1..n}}

Defaults == [size |-> 6, overlap |-> 0, trim |-> FALSE, noURLs |-> FALSE, noEllipsis |-> FALSE,
             depth |-> 5, saveTitle |-> TRUE]

CallsOf(strategy, texts, options) ==
    [strategy : {strategy}, text : texts, o : options]

CharacterCalls == CallsOf("characters",
    TextsOf({Short, Long, Words, <<>>, Page1, Page2, Odd}, 3),
    {[Defaults EXCEPT !.size = s, !.overlap = v, !.trim = b, !.noURLs = b, !.noEllipsis = b] :
        s \in {0, 4, 8}, v \in {-1, 0, 30}, b \in BOOLEAN})

SemanticCalls == CallsOf("semantic",
    TextsOf({Short, Long, Words, <<>>, Page2, Odd}, 3),
    {[Defaults EXCEPT !.size = s, !.overlap = v, !.trim = b, !.noURLs = b, !.noEllipsis = b] :
        s \in {4, 8}, v \in {0, 50, 100}, b \in BOOLEAN})

SectionCalls ==
    CallsOf("paragraphs", TextsOf({Short, Stops, Code, H1, H2, <<>>, Page2}, 4),
        {[Defaults EXCEPT !.size = s, !.trim = b, !.saveTitle = b] : s \in {5, 8}, b \in BOOLEAN})

FlatCalls ==
    CallsOf("paragraphs",
        TextsOf({Short, Stops, <<>>, Odd}, 4)
            \* paragraphs of one line, two empty lines apart
            \cup {TextOf([i \in 1..16 |-> IF i % 3 = 1 THEN line ELSE <<>>]) :
                     line \in {Short, <<"a">>, <<" ", "a", ".">>}},
        {[Defaults EXCEPT !.size = s, !.depth = 0, !.noEllipsis = b] : s \in {6, 30}, b \in BOOLEAN})

MCChunkCalls == <<CharacterCalls, SemanticCalls, SectionCalls, FlatCalls>>

(***************************************************************************)
(* GraphBuilder: three chunks, of which two overlap, and models that       *)
(* answer with few or no entities, and with relations that have one key    *)
(* or an end that no entity has.                                           *)
(***************************************************************************)
CONSTANTS h1, h2, h3

A == <<"a">>
B == <<"b">>
C == <<"c">>
MCTitles == {A, B, C}
WithHash(s, t) == s \o <<"#">> \o t

Relation(s, t, n) == [source |-> s, target |-> t, strength |-> n]
MCWindow == h1 :> [from |-> 0, upto |-> 3] @@ h2 :> [from |-> 2, upto |-> 5]
            @@ h3 :> [from |-> 5, upto |-> 5]
MCPlans == {<<<<h1, h2, h3>>>>, <<<<h1>>, <<h1, h2>>>>, <<<<h1, h2>>>>}
MCEntities == {<<>>, <<A>>, <<A, B>>, <<C, NoTitle>>, <<B, B, C>>}
MCRelations == {<<Relation(A, B, 9)>>, <<Relation(A, B, 1), Relation(B, C, 9)>>,
                <<Relation(A, A, 5), Relation(A, WithHash(B, C), 5), Relation(WithHash(A, B), C, 5)>>}

(***************************************************************************)
(* The parts together.                                                     *)
(***************************************************************************)
VARIABLE part   \* "chunks", "graph", "compaction" or "none"

SomeCall == CHOOSE call \in ChunkCalls[1] : TRUE
SomePlan == CHOOSE p \in Plans : TRUE

RagInit ==
    /\ \/ part = "chunks" /\ plan = SomePlan
       \/ part = "graph" /\ asked = SomeCall
       \/ part \in {"compaction", "none"} /\ asked = SomeCall /\ plan = SomePlan
    /\ ChunkInit /\ GraphInit /\ CompactInit

RagNext ==
    /\ UNCHANGED part
    /\ \/ part = "chunks" /\ ChunkNext /\ UNCHANGED <<graphBuilderVars, compactVars>>
       \/ part = "graph" /\ GraphNext /\ UNCHANGED <<chunkVars, compactVars>>
       \/ part = "compaction" /\ CompactNext /\ UNCHANGED <<chunkVars, graphBuilderVars>>

ragVars == <<part, chunkVars, graphBuilderVars, compactVars>>
=============================================================================
