------------------------------- MODULE Chunker -------------------------------
(***************************************************************************)
(* The three strategies of aipkg/rag/chunker: recursive characters,        *)
(* paragraphs under headings, and "semantic".  Texts are those of Runes;   *)
(* "e" is an ellipsis, "u" a URL, "f" a code fence, "#1" and "#2" begin a  *)
(* heading, and a page marker "--- 2 ---" is the five runes "<" " " "2"    *)
(* " " ">", which a cut at a space takes apart.                            *)
(***************************************************************************)
EXTENDS Runes

CONSTANTS ChunkCalls,   \* the calls to look at, [strategy, text, o]: a sequence of sets
          DefaultChunk  \* the 500 runes of a strategy without a size

VARIABLES asked, chunked   \* a call and what it answers

chunkVars == <<asked, chunked>>

\* Validate: a size or an overlap that is not accepted is replaced.
Checked(o) ==
    [o EXCEPT !.size = IF @ <= 0 THEN DefaultChunk ELSE @,
              !.overlap = IF @ < 0 \/ @ > 100 THEN 10 ELSE @,
              !.depth = Max({@, 0})]

\* calculateOverlap, rounded down.
ChunkOverlap(o) == (o.size * o.overlap) \div 100

\* normalizeEscapedWhitespace: any run of white space is one blank.
OneBlank(t) ==
    At([i \in DOMAIN t |-> IF Blank(t[i]) THEN <<" ", t[i][2]>> ELSE t[i]],
       {i \in DOMAIN t : ~ (Blank(t[i]) /\ i > 1 /\ Blank(t[i - 1]))})

Prepared(t, o) ==
    OneBlank(SelectSeq(t, LAMBDA r : ~ (o.noURLs /\ r[1] = "u") /\ ~ (o.noEllipsis /\ r[1] = "e")))

(***************************************************************************)
(* Documents and their pages: the last marker in a chunk, 0 without one.   *)
(***************************************************************************)
PageMarks(t) ==
    {i \in 1..(Len(t) - 4) : /\ t[i][1] = "<" /\ t[i + 2][1] \in {"1", "2"} /\ t[i + 4][1] = ">"
                             /\ Blank(t[i + 1]) /\ Blank(t[i + 3])}
PageAt(t, i) == IF t[i + 2][1] = "1" THEN 1 ELSE 2
PageNumber(t) == IF PageMarks(t) = {} THEN 0 ELSE PageAt(t, Max(PageMarks(t)))
WithoutPages(t) == TrimSpace(At(t, DOMAIN t \ UNION {i..(i + 4) : i \in PageMarks(t)}))

Document(t, title) == [of |-> t, text |-> WithoutPages(t), page |-> PageNumber(t), title |-> title]
DocumentsOf(texts) == [i \in DOMAIN texts |-> Document(texts[i], <<>>)]

\* A chunk without a page gets the page of the chunk before it.
Inherit(docs) ==
    FoldLeft(LAMBDA out, d :
                Append(out, IF d.page = 0 /\ out # <<>> THEN [d EXCEPT !.page = Last(out).page] ELSE d),
             <<>>, docs)

(***************************************************************************)
(* mergePartsWithOverlap: parts are put together up to the size; the next  *)
(* chunk starts as many parts back as the overlap needs.  A round that     *)
(* goes back as far as it went on is repeated for ever.                    *)
(***************************************************************************)
Taken(parts, mark, size, i) ==
    LET fits == {n \in 1..(Len(parts) - i + 1) :
                    Len(JoinWith(SubSeq(parts, i, i + n - 1), mark)) <= size}
    IN IF fits = {} THEN 1 ELSE Max(fits)

BackParts(taken, mark, overlap) ==
    LET enough == {b \in 1..Len(taken) :
                     Len(JoinWith(SubSeq(taken, Len(taken) - b + 1, Len(taken)), mark)) >= overlap}
    IN IF enough = {} THEN Len(taken) ELSE Min(enough)

\* Where the chunk after the one of taken, which began at i, begins.
NextIndex(parts, mark, taken, overlap, i) ==
    IF overlap > 0 /\ i + Len(taken) <= Len(parts)
    THEN i + Len(taken) - BackParts(taken, mark, overlap)
    ELSE i + Len(taken)

RECURSIVE MergeFrom(_, _, _, _, _, _)
MergeFrom(parts, mark, size, overlap, i, chunks) ==
    LET taken == SubSeq(parts, i, i + Taken(parts, mark, size, i) - 1)
        next == NextIndex(parts, mark, taken, overlap, i)
        chunk == JoinWith(taken, mark)
    IN IF i > Len(parts) THEN [loops |-> FALSE, texts |-> chunks]
       ELSE IF Len(chunk) > size
       THEN MergeFrom(parts, mark, size, overlap, i + 1, Append(chunks, SubSeq(chunk, 1, size)))
       ELSE IF next = i THEN [loops |-> TRUE, texts |-> Append(chunks, chunk)]
       ELSE MergeFrom(parts, mark, size, overlap, next, Append(chunks, chunk))

Merged(parts, mark, o) == MergeFrom(parts, mark, o.size, ChunkOverlap(o), 1, <<>>)

MergeSubs(subs, mark, o) ==
    IF \E i \in DOMAIN subs : subs[i].loops THEN [loops |-> TRUE, texts |-> <<>>]
    ELSE Merged(EachOfMany(subs, LAMBDA sub : sub.texts), mark, o)

RECURSIVE RecursiveChunks(_, _, _)
RecursiveChunks(t, marks, o) ==
    LET parts == SplitAt(t, Head(marks))
    IN IF t = <<>> THEN [loops |-> FALSE, texts |-> <<>>]
       ELSE IF marks = <<>> THEN Merged(Each(t, LAMBDA r : <<r>>), <<>>, o)
       ELSE IF Len(parts) = 1 THEN RecursiveChunks(t, Tail(marks), o)
       ELSE MergeSubs(Each(SelectSeq(parts, LAMBDA p : ~ AllBlank(p)),
                           LAMBDA p : IF Len(p) > o.size THEN RecursiveChunks(p, Tail(marks), o)
                                      ELSE [loops |-> FALSE, texts |-> <<p>>]),
                      Head(marks), o)

Trimmed(t, o) == IF o.trim THEN TrimSpace(t) ELSE t
ChunkMarks == <<Newline \o Newline, Newline, <<" ">>>>

Shown(found, o) ==
    [loops |-> found.loops,
     docs |-> Inherit(DocumentsOf(SelectSeq(Each(found.texts, LAMBDA c : Trimmed(c, o)),
                                            LAMBDA c : c # <<>>)))]

CharacterChunks(t, o) == Shown(RecursiveChunks(Prepared(t, o), ChunkMarks, o), o)

(***************************************************************************)
(* The semantic strategy: the blanks are gone before it looks for empty    *)
(* lines, so that a text is one paragraph, cut by its size.                *)
(***************************************************************************)
BySize(t, size, overlap) ==
    LET step == size - overlap
        n == (Len(t) - size + step - 1) \div step
    IN [k \in 1..(n + 1) |-> SubSeq(t, (k - 1) * step + 1, Min({(k - 1) * step + size, Len(t)}))]

OfParagraph(para, o) ==
    IF Len(para) > o.size /\ ChunkOverlap(o) = o.size THEN [loops |-> TRUE, docs |-> <<>>]
    ELSE [loops |-> FALSE,
          docs |-> IF para = <<>> THEN <<>>
                   ELSE DocumentsOf(IF Len(para) <= o.size THEN <<para>>
                                    ELSE BySize(para, o.size, ChunkOverlap(o)))]

SemanticChunks(t, o) == OfParagraph(Trimmed(Prepared(t, o), o), o)

(***************************************************************************)
(* The paragraph strategy.  A sentence ends with a stop that is not in a   *)
(* block of code; blanks on their own wait for the next sentence.          *)
(***************************************************************************)
SentencesRead(t) ==
    FoldLeft(LAMBDA s, r :
                IF r[1] = "." /\ ~ s.code
                THEN [s EXCEPT !.out = Append(@, Append(s.cur, r)), !.cur = <<>>]
                ELSE [s EXCEPT !.cur = Append(@, r), !.code = IF r[1] = "f" THEN ~ @ ELSE @],
             [out |-> <<>>, cur |-> <<>>, code |-> FALSE], t)

Sentences(t) ==
    LET s == SentencesRead(t) IN IF AllBlank(s.cur) THEN s.out ELSE Append(s.out, s.cur)

Finished(t) == IF t # <<>> /\ Last(t)[1] # "." THEN t \o Written(<<".">>) ELSE t
Together(sents) == FlattenSeq(sents)

\* Groups of sentences up to a size; the last one is still open.
Groups(sents, size) ==
    FoldLeft(LAMBDA g, s :
                IF Len(Together(g.open)) + Len(s) <= size THEN [g EXCEPT !.open = Append(@, s)]
                ELSE [out |-> IF g.open = <<>> THEN g.out ELSE Append(g.out, g.open), open |-> <<s>>],
             [out |-> <<>>, open |-> <<>>], sents)

\* The last group again, at half the size: a sentence that is longer, when no
\* other waits before it, is a chunk as it is.
HalfGroups(sents, half, o) ==
    FoldLeft(LAMBDA h, s :
                IF Len(Together(h.open)) + Len(s) <= half THEN [h EXCEPT !.open = Append(@, s)]
                ELSE IF h.open = <<>> THEN [h EXCEPT !.out = Append(@, Trimmed(s, o))]
                ELSE [out |-> Append(h.out, Finished(Together(h.open))), open |-> <<s>>],
             [out |-> <<>>, open |-> <<>>], sents)

\* As Halves, but the sentences left at the end are forgotten.
HalvesLeft(sents, half, o) == HalfGroups(sents, half, o).out

Halves(sents, half, o) ==
    LET h == HalfGroups(sents, half, o)
    IN IF h.open = <<>> THEN h.out ELSE Append(h.out, Trimmed(Finished(Together(h.open)), o))

ChunksOf(g, o) ==
    LET Chunk(sents) == Trimmed(Finished(Together(sents)), o)
    IN Each(g.out, Chunk)
       \o (IF g.open = <<>> THEN <<>>
           ELSE IF Len(Chunk(g.open)) > o.size \div 2 THEN Halves(g.open, o.size \div 2, o)
           ELSE <<Chunk(g.open)>>)

Titled(t, title, o) == Document(t, IF o.saveTitle THEN title ELSE <<>>)

SplitLargeSection(t, title, o) ==
    Each(ChunksOf(Groups(Sentences(SelectSeq(t, LAMBDA r : ~ (o.noEllipsis /\ r[1] = "e"))), o.size),
                  o),
         LAMBDA c : Titled(c, title, o))

Section(lines, title, o) ==
    LET t == TrimSpace(JoinWith(lines, Newline))
    IN IF t = <<>> THEN <<>>
       ELSE IF Len(t) > o.size THEN SplitLargeSection(t, title, o)
       ELSE <<Titled(t, title, o)>>

IsHeading(line) == line # <<>> /\ line[1][1] \in {"#1", "#2"}

\* The sections of a text, [title, lines]; what stands before the first heading
\* has no title.
Sections(lines) ==
    FoldLeft(LAMBDA secs, line :
                IF IsHeading(line)
                THEN Append(secs, [title |-> TrimSpace(Tail(line)), lines |-> <<>>])
                ELSE Append(Front(secs), [Last(secs) EXCEPT !.lines = Append(@, line)]),
             <<[title |-> <<>>, lines |-> <<>>]>>, lines)

\* As Hierarchy, but the title changes before the section is closed.
HierarchyUnderNext(secs, o) ==
    FlattenSeq([i \in DOMAIN secs |->
                  Section(secs[i].lines, secs[Min({i + 1, Len(secs)})].title, o)])

Hierarchy(secs, o) == EachOfMany(secs, LAMBDA s : Section(s.lines, s.title, o))

ChunkWithHierarchy(t, o) ==
    IF \E i \in DOMAIN Lines(t) : IsHeading(Lines(t)[i]) THEN Hierarchy(Sections(Lines(t)), o)
    ELSE SplitLargeSection(t, <<>>, o)

\* Two blank lines end a paragraph; one is dropped from it.
ParagraphsRead(lines) ==
    FoldLeft(LAMBDA s, line :
                IF ~ AllBlank(line) THEN [s EXCEPT !.lines = Append(@, line), !.blanks = 0]
                ELSE IF s.lines # <<>> /\ s.blanks >= 1
                THEN [out |-> Append(s.out, s.lines), lines |-> <<>>, blanks |-> 0]
                ELSE [s EXCEPT !.blanks = @ + 1],
             [out |-> <<>>, lines |-> <<>>, blanks |-> 0], lines)

Paragraphs(t) ==
    LET s == ParagraphsRead(Lines(t))
    IN Each(IF s.lines = <<>> THEN s.out ELSE Append(s.out, s.lines),
            LAMBDA lines : JoinWith(lines, Newline))

\* No paragraph is longer than a text that fits a chunk.
ChunkFlat(t, o) ==
    IF Len(Paragraphs(t)) <= 5 \/ Len(t) > o.size THEN SplitLargeSection(t, <<>>, o)
    ELSE Each(Paragraphs(t), LAMBDA p : Document(TrimSpace(p), <<>>))

OrFlat(found, t, o) == IF found # <<>> THEN found ELSE ChunkFlat(t, o)

ParagraphChunks(t, o) ==
    OrFlat(IF o.depth > 0 THEN ChunkWithHierarchy(t, o) ELSE <<>>, t, o)

(***************************************************************************)
(* Chunk, of a strategy that was validated, with a text.                   *)
(***************************************************************************)
NotYet == [status |-> "asked"]
Answered(docs) == [status |-> "chunks", docs |-> docs]
Outcome(found) == IF found.loops THEN [status |-> "loops"] ELSE Answered(found.docs)

ChunkInit == (\E k \in DOMAIN ChunkCalls : asked \in ChunkCalls[k]) /\ chunked = NotYet

Asks(strategy) == chunked = NotYet /\ asked.strategy = strategy /\ UNCHANGED asked

ChunkCancelled ==
    /\ chunked = NotYet /\ chunked' = [status |-> "cancelled"] /\ UNCHANGED asked

ChunkCharacters ==
    Asks("characters") /\ chunked' = Outcome(CharacterChunks(asked.text, Checked(asked.o)))

ChunkSemantic ==
    Asks("semantic") /\ chunked' = Outcome(SemanticChunks(asked.text, Checked(asked.o)))

ChunkParagraphs ==
    Asks("paragraphs") /\ chunked' = Answered(ParagraphChunks(asked.text, Checked(asked.o)))

ChunkNext == ChunkCancelled \/ ChunkCharacters \/ ChunkSemantic \/ ChunkParagraphs

ChunkSpec == ChunkInit /\ [][ChunkNext]_chunkVars /\ WF_chunkVars(ChunkNext)

(***************************************************************************)
(* Properties.                                                             *)
(***************************************************************************)
HasChunks == chunked.status = "chunks"
ChunkLetters == [i \in DOMAIN chunked.docs |-> LettersOf(chunked.docs[i].text)]
OwnPlaces(t) == LET own == SelectSeq(t, LAMBDA r : r[2] > 0) IN [k \in DOMAIN own |-> own[k][2]]
HeadingLetters(t) ==
    UNION {ToSet(LettersOf(Lines(t)[i])) : i \in {n \in DOMAIN Lines(t) : IsHeading(Lines(t)[n])}}

\* No letter of the text is lost, whatever is cut, collapsed, merged and
\* overlapped; the strategy of paragraphs repeats none either, but takes the
\* headings out of the text when there is something under one of them.
ChunksHoldAll ==
    HasChunks =>
        LET all == LettersOf(asked.text)
            held == FlattenSeq(ChunkLetters)
        IN IF asked.strategy # "paragraphs" THEN ToSet(held) = ToSet(all)
           ELSE held \in {all, SelectSeq(all, LAMBDA p : p \notin HeadingLetters(asked.text))}

\* The runes of a chunk ascend, and it ends after the chunk before it does.
ChunksInOrder ==
    HasChunks =>
        LET read == [i \in DOMAIN chunked.docs |-> OwnPlaces(chunked.docs[i].of)]
        IN /\ \A i \in DOMAIN read : read[i] # <<>> /\ Ascending(read[i])
           /\ \A i \in 1..(Len(read) - 1) : Last(read[i]) < Last(read[i + 1])

\* A chunk is no longer than the size, but for one sentence that is, and the stop
\* that is written after a chunk without one.
ChunksFit ==
    HasChunks =>
        \A i \in DOMAIN chunked.docs :
            LET d == chunked.docs[i]
                size == Checked(asked.o).size
            IN \/ Len(d.of) <= size
               \/ /\ asked.strategy = "paragraphs"
                  /\ \/ Len(d.of) = size + 1 /\ Last(d.of) = <<".", 0>>
                     \/ Len(Sentences(d.of)) = 1

\* A chunk is said to be on a page that begins before it ends, and the chunks of
\* the recursive strategy never turn back to a page.
PagesFollowText ==
    HasChunks =>
        /\ \A i \in DOMAIN chunked.docs :
              LET d == chunked.docs[i]
              IN d.page = 0 \/ \E m \in PageMarks(asked.text) :
                    PageAt(asked.text, m) = d.page /\ m < Last(OwnPlaces(d.of))
        /\ asked.strategy = "characters"
              /\ (\A m, n \in PageMarks(asked.text) : m < n => PageAt(asked.text, m) <= PageAt(asked.text, n)) =>
              \A i \in 1..(Len(chunked.docs) - 1) : chunked.docs[i].page <= chunked.docs[i + 1].page

\* A chunk has the title of the heading it stands under: the last one before
\* its letters, and none of its letters is under another.
TitleIsNearest ==
    HasChunks /\ asked.strategy = "paragraphs" /\ asked.o.depth > 0 /\ asked.o.saveTitle =>
        \A i \in DOMAIN chunked.docs :
            LET d == chunked.docs[i]
                mine == ToSet(ChunkLetters[i])
                heads == HeadingLetters(asked.text)
            IN d.title # <<>> =>
                  \A p \in mine : /\ LettersOf(d.title)[1] < p
                                  /\ \A h \in heads \ ToSet(LettersOf(d.title)) :
                                        h < LettersOf(d.title)[1] \/ h > p

\* Chunk comes back.  It does not: the merge of the recursive strategy starts
\* again where it was when the overlap needs all the parts of a chunk that has
\* no room for the next one, and an overlap of 1 leaves no step between two chunks.
ChunkReturns == chunked.status # "loops"

\* Chunk keeps the text, in order and in chunks of the size asked for, each with
\* the page and the title of where it stands.
ChunkedWell == ChunksHoldAll /\ ChunksInOrder /\ ChunksFit /\ PagesFollowText /\ TitleIsNearest
=============================================================================
