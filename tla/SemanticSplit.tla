--------------------------- MODULE SemanticSplit ---------------------------
(***************************************************************************)
(* SemanticStrategy of aipkg/rag/split: a document is cut into sentences,  *)
(* and neighbouring sentences that are alike are put together again.  How  *)
(* alike two texts are, the cosine of their TF-IDF vectors, is any value:  *)
(* the greedy and the double-merging loop are given the answer step by     *)
(* step, the window mode a sequence of distances.                          *)
(***************************************************************************)
EXTENDS DocStructure

VARIABLE sem   \* the loop that runs: its mode, where it is, what it holds

IsHeadingLine(t) == FirstClass(t) \in {"#1", "#2", "#3"}
IsCodeSentence(t) == FirstClass(t) = "f"
IsListLine(t) == FirstClass(t) \in {"-", "N", "N2"}

(***************************************************************************)
(* splitIntoSentencesPreserveNewlinesWithCodeBlocks: a heading, an item of *)
(* a list and a block of code are one sentence, a line of text is cut      *)
(* after every full stop.                                                  *)
(***************************************************************************)
CutAtStops(line) ==
    FoldLeft(LAMBDA out, r :
                IF out # <<>> /\ Last(Last(out))[1] # "." THEN Append(Front(out), Append(Last(out), r))
                ELSE Append(out, <<r>>),
             <<>>, line)

SentencesOfLine(line) ==
    LET cut == CutAtStops(line)
        full == [i \in DOMAIN cut |->
                   IF i = Len(cut) THEN cut[i] \o Written(Newline) ELSE cut[i]]
    IN SelectSeq(full, LAMBDA t : ~ AllBlank(t))

\* The lines of a document, those of a block of code together.
BlocksOf(lines) ==
    FoldLeft(LAMBDA s, line :
                [out |-> IF s.open THEN Append(Front(s.out), Append(Last(s.out), line))
                         ELSE Append(s.out, <<line>>),
                 open |-> IF IsFence(line) THEN ~ s.open ELSE s.open],
             [out |-> <<>>, open |-> FALSE], lines).out

SentencesOf(text) ==
    EachOfMany(BlocksOf(Lines(text)),
               LAMBDA b : IF IsFence(b[1]) \/ IsHeadingLine(b[1]) \/ IsListLine(b[1])
                          THEN <<JoinWith(b, Newline) \o Written(Newline)>>
                          ELSE SentencesOfLine(b[1]))

\* splitLongSentence
SplitLongSentence(t, size) ==
    IF Len(t) <= size THEN <<t>>
    ELSE EachOfMany(Inked(RecursiveSplit(t, <<<<",">>, <<" ">>>>, size)),
                    LAMBDA part : HardSplit(part, size))

\* tailSentencesByLen, and the same loop in the flush of the greedy mode.
TailSentences(sents, limit) ==
    LET From(k) == Len(FlattenSeq(SubSeq(sents, k, Len(sents))))
        fits == {k \in DOMAIN sents : From(k) <= limit}
        \* a sentence that ends the tail is taken, however long it is
        start == IF fits = {} THEN Len(sents) ELSE Min(fits)
    IN IF limit <= 0 \/ sents = <<>> THEN <<>> ELSE SubSeq(sents, start, Len(sents))

(***************************************************************************)
(* The window mode.  distances[i] says how far the windows around sentence *)
(* i and i + 1 are apart; a sentence whose distance is above a percentile  *)
(* ends its group.                                                         *)
(***************************************************************************)
PercentileValue(values, pct) ==
    LET sorted == SortSeq(values, <)
        pos == (pct * (Len(values) - 1) + 99) \div 100
    IN sorted[pos + 1]

GroupAt(sents, breaks) ==
    FoldLeftDomain(
        LAMBDA groups, i :
            IF i > 1 /\ (i - 1) \notin breaks
            THEN Append(Front(groups), Append(Last(groups), sents[i]))
            ELSE Append(groups, <<sents[i]>>),
        <<>>, sents)

GroupLen(g) == Len(FlattenSeq(g))

RECURSIVE MergeSmallGroups(_, _, _, _)
MergeSmallGroups(groups, merged, min, size) ==
    LET g == Head(groups)
        more == Len(groups) > 1
        withNext == g \o groups[2]
        heading == Len(g) = 1 /\ IsHeadingLine(g[1])
    IN IF groups = <<>> THEN merged
       ELSE IF min <= 0 THEN merged \o groups
       ELSE IF more /\ (heading \/ GroupLen(g) < min) /\ GroupLen(withNext) <= size
       THEN MergeSmallGroups(SubSeq(groups, 3, Len(groups)), Append(merged, withNext), min, size)
       ELSE IF more /\ GroupLen(g) < min /\ merged # <<>> /\ GroupLen(Last(merged) \o g) <= size
       THEN MergeSmallGroups(Tail(groups), Append(Front(merged), Last(merged) \o g), min, size)
       ELSE MergeSmallGroups(Tail(groups), Append(merged, g), min, size)

\* A group longer than a chunk is packed again, a sentence longer than that is cut.
Repack(group, size) ==
    FoldLeft(LAMBDA out, t :
                IF out # <<>> /\ GroupLen(Last(out)) + Len(t) <= size
                THEN Append(Front(out), Append(Last(out), t))
                ELSE Append(out, <<t>>),
             <<>>, group)

SplitGroups(groups, size) ==
    EachOfMany(EachOfMany(groups, LAMBDA g : Repack(g, size)),
               LAMBDA g : IF GroupLen(g) <= size THEN <<g>>
                          ELSE Each(Inked(SplitLongSentence(g[1], size)), LAMBDA t : <<t>>))

OverlapGroups(groups, limit, size) ==
    LET Longer(g, tail) == IF GroupLen(tail) + GroupLen(g) > size THEN g ELSE tail \o g
    IN IF Len(groups) <= 1 \/ limit <= 0 THEN groups
       ELSE FoldLeft(LAMBDA out, g : Append(out, Longer(g, TailSentences(Last(out), limit))),
                     <<Head(groups)>>, Tail(groups))

Breakpoints(distances, pct) ==
    {i \in DOMAIN distances : distances[i] > PercentileValue(distances, pct)}

WindowGroups(sents, distances, o) ==
    OverlapGroups(
        SplitGroups(MergeSmallGroups(GroupAt(sents, Breakpoints(distances, o.percentile)),
                                     <<>>, o.min, o.size), o.size),
        OverlapTokens(o.size, o.ratio), o.size)

WindowSplit(sents, distances, o) ==
    IF Len(sents) <= 1 THEN <<FlattenSeq(sents)>>
    ELSE Each(WindowGroups(sents, distances, o), FlattenSeq)

(***************************************************************************)
(* The greedy mode: a sentence joins the chunk that is open when it is     *)
(* like the last one in it, follows a lone heading, or is code.  A flush   *)
(* leaves the tail of the chunk behind; only a chunk opened by a heading,  *)
(* or after a sentence too long for a chunk, starts with it.               *)
(***************************************************************************)
Idle == [mode |-> "idle"]

\* Whether the cosine of the vectors of two texts is above the threshold.
Alike == BOOLEAN

StartGreedy(sents, o) ==
    sem' = [mode |-> "greedy", rest |-> sents, cur |-> <<>>, carry |-> <<>>, out |-> <<>>, o |-> o]

FlushGreedy(s) ==
    [s EXCEPT !.out = IF s.cur = <<>> THEN @ ELSE Append(@, FlattenSeq(s.cur)),
              !.carry = TailSentences(s.cur, OverlapTokens(s.o.size, s.o.ratio)),
              !.cur = <<>>]

Take(s, t, alike) ==
    LET Fits(sents) == GroupLen(sents) + Len(t) <= s.o.size
        welcome == \/ alike \/ IsCodeSentence(t)
                   \/ Len(s.cur) = 1 /\ IsHeadingLine(s.cur[1])
    IN IF Len(t) > s.o.size
       THEN [FlushGreedy(s) EXCEPT !.out = @ \o SplitLongSentence(t, s.o.size)]
       ELSE IF s.cur = <<>>
       THEN [s EXCEPT !.cur = Append(IF Fits(s.carry) THEN s.carry ELSE <<>>, t), !.carry = <<>>]
       ELSE IF welcome /\ Fits(s.cur) THEN [s EXCEPT !.cur = Append(@, t)]
       ELSE [FlushGreedy(s) EXCEPT !.cur = <<t>>]

GreedySentence(alike) ==
    LET t == Head(sem.rest)
    IN /\ sem.mode = "greedy" /\ sem.rest # <<>>
       /\ sem' = Take([(IF IsHeadingLine(t) THEN FlushGreedy(sem) ELSE sem) EXCEPT !.rest = Tail(@)],
                      t, alike)

EndGreedy ==
    /\ sem.mode = "greedy" /\ sem.rest = <<>>
    /\ sem' = [mode |-> "done", out |-> FlushGreedy(sem).out]

(***************************************************************************)
(* The double-merging mode.  The first pass gathers sentences into chunks, *)
(* the second joins a chunk with one of the next, over the ones between    *)
(* them; what is then longer than a chunk is cut.                          *)
(***************************************************************************)
Joined(texts, o) == JoinWith(texts, o.sep)

StartGather(sents, o) ==
    sem' = [mode |-> "gather", rest |-> Tail(sents), cur |-> Head(sents), out |-> <<>>, o |-> o]

GatherSentence(alike) ==
    LET t == Head(sem.rest)
        o == sem.o
        s == [sem EXCEPT !.rest = Tail(@)]
        emitted == IF s.cur = <<>> THEN s.out ELSE Append(s.out, s.cur)
        together == Joined(<<s.cur, t>>, o)
    IN /\ sem.mode = "gather" /\ sem.rest # <<>>
       /\ sem' = IF Len(t) > o.max
                 THEN [s EXCEPT !.out = emitted \o (IF IsCodeSentence(t) THEN <<t>>
                                                    ELSE SplitLongSentence(t, o.max)),
                                !.cur = <<>>]
                 ELSE IF s.cur # <<>> /\ Len(together) <= o.max /\ (alike \/ Len(s.cur) < o.min)
                 THEN [s EXCEPT !.cur = together]
                 ELSE [s EXCEPT !.out = emitted, !.cur = t]

\* The second pass starts with the first chunk, and fails without one.
StartMerge ==
    LET chunks == IF sem.cur = <<>> THEN sem.out ELSE Append(sem.out, sem.cur)
    IN /\ sem.mode = "gather" /\ sem.rest = <<>>
       /\ sem' = IF chunks = <<>> THEN [mode |-> "panic"]
                 ELSE [mode |-> "merge", rest |-> Tail(chunks), cur |-> Head(chunks),
                       out |-> <<>>, o |-> sem.o]

WithNext(k) == Joined(<<sem.cur>> \o SubSeq(sem.rest, 1, k), sem.o)
TooShort == Len(sem.cur) < sem.o.min /\ Len(WithNext(1)) <= sem.o.max

\* The open chunk and the k next become one when it is like the last of them.
JoinChunks(k) ==
    /\ sem.mode = "merge" /\ k \in 1..Min({sem.o.range + 1, Len(sem.rest)})
    /\ \/ TooShort /\ k = 1
       \/ ~ TooShort /\ Len(sem.cur) < sem.o.max /\ Len(WithNext(k)) <= sem.o.max
    /\ sem' = [sem EXCEPT !.cur = WithNext(k), !.rest = SubSeq(@, k + 1, Len(@))]

KeepChunk ==
    /\ sem.mode = "merge" /\ sem.rest # <<>> /\ ~ TooShort
    /\ sem' = [sem EXCEPT !.out = Append(@, sem.cur), !.cur = Head(sem.rest), !.rest = Tail(@)]

EndMerge ==
    /\ sem.mode = "merge" /\ sem.rest = <<>>
    /\ sem' = [mode |-> "done",
               out |-> EachOfMany(Inked(Append(sem.out, sem.cur)),
                                  LAMBDA t : SplitLongSentence(t, sem.o.size))]

\* Every loop looks at the context before it takes the next sentence or chunk.
Cancelled ==
    /\ sem.mode \in {"greedy", "gather", "merge"} /\ sem.rest # <<>>
    /\ sem' = [mode |-> "cancelled"]

SemanticNext ==
    \/ \E alike \in Alike : GreedySentence(alike) \/ GatherSentence(alike)
    \/ EndGreedy \/ StartMerge \/ EndMerge
    \/ \E k \in 1..3 : JoinChunks(k)
    \/ KeepChunk \/ Cancelled
=============================================================================
