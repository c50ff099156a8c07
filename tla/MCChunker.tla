----------------------------- MODULE MCChunker -----------------------------
(* Words of several lengths and blanks between them, with and without an  *)
(* overlap: an instance of Chunker for TLC.                               *)
EXTENDS Chunker

Letters(n) == [i \in 1..n |-> "a"]

WordsOf(lengths) ==
    AsText(FoldLeftDomain(LAMBDA t, i : t \o (IF i = 1 THEN <<>> ELSE <<" ">>) \o Letters(lengths[i]),
                          <<>>, lengths))

LoopCalls ==
    <<[strategy : {"characters"},
       text : {WordsOf(lengths) : lengths \in UNION {[1..k -> {1, 3, 7}] : k \in 1..3}},
       o : [size : {4}, overlap : {0, 30}, trim : BOOLEAN, noURLs : {FALSE}, noEllipsis : {FALSE},
            depth : {0}, saveTitle : {FALSE}]]>>
=============================================================================
