----------------------------- MODULE TextSplit -----------------------------
(***************************************************************************)
(* The recursive-character strategy of aipkg/rag/split, with the helpers   *)
(* of util.go that every strategy ends in: the overlap of neighbouring     *)
(* chunks and convertToChunks, which finds the page of each chunk.  A page *)
(* marker "<!-- Page: 2 -->" is the three runes "<" "2" ">", so that       *)
(* cutting a text can cut a marker.                                        *)
(***************************************************************************)
EXTENDS Runes, Windows

CONSTANT DefaultSize   \* the 500 runes of a strategy without a chunk size

\* What validateBase leaves of a size and a ratio, or that it refuses them.
ValidSize(size) == IF size <= 0 THEN DefaultSize ELSE size
ValidRatio(pct) == IF pct = 0 THEN 10 ELSE pct
RatioAllowed(pct) == ValidRatio(pct) \in 10..20

\* preProcessText, for a text without tables: "u" stands for a URL or an
\* address, "i" for an image, "r" and "t" for a carriage return and a tab.
PreProcess(t, o) ==
    LET kept == SelectSeq(t, LAMBDA r : ~ (o.urls /\ r[1] = "u") /\ ~ (o.images /\ r[1] = "i"))
        unix == At(kept, {i \in DOMAIN kept :
                            ~ (kept[i][1] = "r" /\ i < Len(kept) /\ kept[i + 1][1] = "n")})
        flat == [i \in DOMAIN unix |-> IF unix[i][1] = "t" THEN <<" ", unix[i][2]>> ELSE unix[i]]
        done == IF o.normalize THEN CollapseRuns(flat, {" ", "n"}) ELSE unix
    IN IF o.trim THEN TrimSpace(done) ELSE done

(***************************************************************************)
(* recursiveSplit: cut at the first separator, cut what is still too long  *)
(* at the next ones, then put neighbours together again up to the size.    *)
(***************************************************************************)
\* Mutant: the separators between the parts are not counted.
MergePartsOnly(parts, mark, size) ==
    LET Put(groups, p) ==
            IF groups # <<>> /\ Len(FlattenSeq(Last(groups))) + Len(p) <= size
            THEN Append(Front(groups), Append(Last(groups), p))
            ELSE Append(groups, <<p>>)
        groups == FoldLeft(Put, <<>>, parts)
    IN [i \in DOMAIN groups |-> JoinWith(groups[i], mark)]

MergeParts(parts, mark, size) ==
    LET Put(groups, p) ==
            IF groups # <<>> /\ Len(JoinWith(Last(groups), mark)) + Len(mark) + Len(p) <= size
            THEN Append(Front(groups), Append(Last(groups), p))
            ELSE Append(groups, <<p>>)
        groups == FoldLeft(Put, <<>>, parts)
    IN FlattenSeq([i \in DOMAIN groups |->
          IF Len(groups[i]) = 1 /\ Len(groups[i][1]) > size
          THEN HardSplit(groups[i][1], size)
          ELSE <<JoinWith(groups[i], mark)>>])

RECURSIVE RecursiveSplit(_, _, _)
RecursiveSplit(t, marks, size) ==
    IF t = <<>> THEN <<>>
    ELSE IF Len(t) <= size THEN <<t>>
    ELSE IF marks = <<>> THEN HardSplit(t, size)
    ELSE LET parts == SplitAt(t, Head(marks))
             inked == SelectSeq(parts, LAMBDA p : ~ AllBlank(p))
             refined == FlattenSeq([i \in DOMAIN inked |->
                           RecursiveSplit(inked[i], Tail(marks), size)])
         IN IF Len(parts) = 1 \/ refined = <<>>
            THEN RecursiveSplit(t, Tail(marks), size)
            ELSE MergeParts(refined, Head(marks), size)

(***************************************************************************)
(* applyOverlapToStrings and applyOverlapToChunks: a chunk is preceded by  *)
(* the end of the chunk before it, which already has its own prefix.       *)
(***************************************************************************)
\* Mutant: the chunk with its prefix is cut to the chunk size.
ApplyOverlapTight(chunks, size, pct) ==
    LET o == OverlapTokens(size, pct)
        Add(out, c) == Append(out, IF out = <<>> THEN c ELSE Cut(Tailing(Last(out), o) \o c, size))
    IN IF Len(chunks) <= 1 \/ o = 0 THEN chunks ELSE FoldLeft(Add, <<>>, chunks)

ApplyOverlap(chunks, size, pct) ==
    LET o == OverlapTokens(size, pct)
        Add(out, c) == Append(out, IF out = <<>> THEN c
                                   ELSE Cut(Tailing(Last(out), o) \o c, size + o))
    IN IF Len(chunks) <= 1 \/ o = 0 THEN chunks ELSE FoldLeft(Add, <<>>, chunks)

(***************************************************************************)
(* Pages.                                                                  *)
(***************************************************************************)
Digits == {"1", "2", "3"}
PageOf(digit) == CHOOSE n \in 1..3 : digit = <<"1", "2", "3">>[n]

\* Where t holds a whole page marker.
MarkersIn(t) ==
    {i \in 1..(Len(t) - 2) : t[i][1] = "<" /\ t[i + 1][1] \in Digits /\ t[i + 2][1] = ">"}

\* Mutant: the last marker of the document, wherever the chunk is.
FindPagesLast(start, text) ==
    LET all == MarkersIn(text)
    IN IF all = {} THEN {1} ELSE {PageOf(text[Max(all) + 1][1])}

FindPages(start, text) ==
    LET before == {i \in MarkersIn(text) : i <= start}
    IN IF before = {} THEN {1} ELSE {PageOf(text[Max(before) + 1][1])}

PagesFor(content, text) ==
    LET at == Occurrences(text, Classes(content))
        inside == {PageOf(content[i + 1][1]) : i \in MarkersIn(content)}
    IN IF at # {} THEN FindPages(Min(at), text)
       ELSE IF inside = {} THEN {1} ELSE inside

RemoveMarkers(t) == At(t, DOMAIN t \ UNION {i..(i + 2) : i \in MarkersIn(t)})

\* Nothing to read: no letter or digit, or the rest of a marker cut in two.
Meaningless(t) ==
    \/ \A i \in DOMAIN t : t[i][1] \notin ({"a", "-"} \union Digits)
    \/ Len(t) = 2 /\ t[1][1] \in Digits /\ t[2][1] = ">"

\* convertToChunks: what a document's text becomes; nothing when only marks
\* are left.  "of" is the text before its markers were taken out.
ConvertToChunks(texts, whole) ==
    LET Chunk(i) ==
            LET clean == TrimSpace(CollapseRuns(RemoveMarkers(texts[i]), {"n"}))
            IN IF Meaningless(clean) THEN <<>>
               ELSE <<[text |-> clean, of |-> texts[i],
                       pages |-> PagesFor(texts[i], whole), segment |-> i]>>
    IN FlattenSeq([i \in DOMAIN texts |-> Chunk(i)])

\* Empty documents are left out before the conversion; TrimSpace is a flag of
\* the strategy.
Documents(texts, trim) ==
    LET done == IF trim THEN [i \in DOMAIN texts |-> TrimSpace(texts[i])] ELSE texts
    IN SelectSeq(done, LAMBDA t : t # <<>>)

=============================================================================
