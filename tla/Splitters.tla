------------------------------ MODULE Splitters ------------------------------
(***************************************************************************)
(* Splitter.Split of aipkg/rag/split: a call of one of its four strategies *)
(* with a text and options, from its validation to the chunks it returns.  *)
(* The fixed-size, recursive-character and window strategies answer in one *)
(* step; the greedy and the double-merging loop of the semantic strategy   *)
(* take one step per sentence.                                             *)
(***************************************************************************)
EXTENDS SemanticSplit, TableGrid

\* "partial" is an answer like any other to the caller, who gets no error.
CONSTANT Calls   \* the calls to look at, [strategy, text, o]: a sequence of sets

VARIABLES call,    \* the call
          doc,     \* what it works on: valid options, the text, its sections
          result

splitVars == <<call, doc, sem, result>>

Unread == [text |-> <<>>]
Pending == [status |-> "pending"]

SplitInit ==
    /\ \E k \in DOMAIN Calls : call \in Calls[k]
    /\ doc = Unread
    /\ sem = Idle
    /\ result = Pending

(***************************************************************************)
(* Validate, which replaces what it does not accept, or fails.             *)
(***************************************************************************)
Between(n, low, high) == Max({low, Min({n, high})})

Valid(o) ==
    LET size == ValidSize(o.size)
    IN [o EXCEPT !.size = size, !.ratio = ValidRatio(@), !.max = IF @ <= 0 THEN size ELSE @,
                 !.min = Max({@, 0}), !.range = Between(@, 1, 2),
                 !.percentile = IF @ = 0 THEN 95 ELSE Between(@, 50, 99)]

O == doc.o
Whole == doc.text
Sections == doc.secs

Starting == result = Pending /\ doc = Unread

Refuse ==
    /\ Starting /\ call.strategy # "table" /\ ~ RatioAllowed(call.o.ratio)
    /\ result' = [status |-> "error"]
    /\ UNCHANGED <<call, doc, sem>>

Read(text, o) ==
    [o |-> o, text |-> text,
     secs |-> IF call.strategy = "structure" THEN ParseHeadingTree(text, o.depth) ELSE <<>>]

Prepare ==
    /\ Starting /\ call.strategy # "table" /\ RatioAllowed(call.o.ratio)
    /\ doc' = Read(PreProcess(call.text, Valid(call.o)), Valid(call.o))
    /\ UNCHANGED <<call, sem, result>>

Accepted == doc # Unread /\ sem = Idle /\ result = Pending

AnswerWith(docs, status) ==
    [status |-> status, docs |-> docs, chunks |-> ConvertToChunks(docs, Whole)]

Answer(texts) == AnswerWith(Documents(texts, O.trim), "chunks")

AnswerNothing ==
    /\ Accepted /\ Whole = <<>>
    /\ result' = Answer(<<>>)
    /\ UNCHANGED <<call, doc, sem>>

SplitFixed ==
    /\ Accepted /\ call.strategy = "fixed" /\ Whole # <<>>
    /\ result' = Answer(FixedSizeSplit(Whole, O.size, O.asked, O.ratio))
    /\ UNCHANGED <<call, doc, sem>>

Separators == <<BlankLine, Newline, <<".">>, <<",">>, <<" ">>>>

SplitRecursive ==
    /\ Accepted /\ call.strategy = "recursive" /\ Whole # <<>>
    /\ result' = Answer(ApplyOverlap(RecursiveSplit(Whole, Separators, O.size), O.size, O.ratio))
    /\ UNCHANGED <<call, doc, sem>>

(***************************************************************************)
(* The structure strategy overlaps its chunks after their conversion.      *)
(***************************************************************************)
WithTexts(chunks, texts) == [i \in DOMAIN chunks |-> [chunks[i] EXCEPT !.text = texts[i]]]

Overlapped(answer) ==
    [answer EXCEPT !.chunks =
        WithTexts(@, ApplyOverlap(Each(@, LAMBDA c : c.text), O.size, O.ratio))]

IsTable == ~ HasSections(Sections) /\ MostlyTableRows(Whole)

SplitStructure(lost, kept) ==
    /\ Accepted /\ call.strategy = "structure" /\ (lost = 0 => kept = 0)
    /\ Whole # <<>> /\ HasSections(Sections) /\ lost <= Len(Children(Sections, 1))
    /\ result' = IF LostBeforeLast(Sections, lost) THEN [status |-> "error"]
                 ELSE Overlapped(AnswerWith(StructureTexts(Sections, O, lost, kept),
                                            IF lost = 0 THEN "chunks" ELSE "partial"))
    /\ UNCHANGED <<call, doc, sem>>

SplitTable ==
    /\ Accepted /\ call.strategy = "structure" /\ Whole # <<>> /\ IsTable
    /\ result' = Overlapped(Answer(SplitTableRows(Whole, O.size)))
    /\ UNCHANGED <<call, doc, sem>>

\* preProcessText turns each table of the document into rows of JSON, by
\* itself; a call of strategy "table" has one table in place of a text.
ConvertTable ==
    /\ Starting /\ call.strategy = "table"
    /\ result' = [status |-> "rows", json |-> JSONRows(call.text), markdown |-> MarkdownRows(call.text)]
    /\ UNCHANGED <<call, doc, sem>>

(***************************************************************************)
(* The semantic strategy, and the structure strategy for a document        *)
(* without headings that is not a table; the latter in the greedy mode.    *)
(***************************************************************************)
BySemantics ==
    \/ call.strategy = "semantic"
    \/ call.strategy = "structure" /\ ~ HasSections(Sections) /\ ~ IsTable

Mode == IF call.strategy = "semantic" THEN O.mode ELSE "greedy"

Start(sents) ==
    IF sents = <<>> THEN result' = Answer(<<>>) /\ UNCHANGED sem
    ELSE IF Mode = "window"
    THEN /\ \E distances \in [1..(Len(sents) - 1) -> 0..2] :
              result' = Answer(WindowSplit(sents, distances, O))
         /\ UNCHANGED sem
    ELSE /\ IF Mode = "double" THEN StartGather(sents, O) ELSE StartGreedy(sents, O)
         /\ UNCHANGED result

StartSemantic ==
    /\ Accepted /\ Whole # <<>> /\ BySemantics
    /\ Start(SentencesOf(Whole))
    /\ UNCHANGED <<call, doc>>

SemanticStep == result = Pending /\ SemanticNext /\ UNCHANGED <<call, doc, result>>

SemanticReturns ==
    /\ result = Pending /\ sem.mode \in {"done", "cancelled", "panic"}
    /\ result' = CASE sem.mode = "done" -> Answer(sem.out)
                   [] sem.mode = "cancelled" -> [status |-> "error"]
                   [] sem.mode = "panic" -> [status |-> "panic"]
    /\ UNCHANGED <<call, doc, sem>>

SplitNext ==
    \/ Refuse \/ Prepare \/ AnswerNothing \/ SplitFixed \/ SplitRecursive
    \/ \E lost, kept \in 0..1 : SplitStructure(lost, kept)
    \/ SplitTable \/ ConvertTable \/ StartSemantic \/ SemanticStep \/ SemanticReturns

SplitSpec == SplitInit /\ [][SplitNext]_splitVars /\ WF_splitVars(SplitNext)

(***************************************************************************)
(* Properties.  LettersOf says which letters of the document a text holds. *)
(***************************************************************************)
Done == result.status = "chunks"
Docs == [i \in DOMAIN result.docs |-> LettersOf(result.docs[i])]
PlacesIn(t) == LET own == SelectSeq(t, LAMBDA r : r[2] > 0) IN [k \in DOMAIN own |-> own[k][2]]
Held(texts) == UNION {ToSet(texts[i]) : i \in DOMAIN texts}
ByStructure == call.strategy = "structure" /\ HasSections(Sections)

\* What the structure strategy does not promise to keep: text before the first
\* heading, a heading with nothing under it, what is under a heading as long as
\* a chunk, blocks of code, and rows that are longer than a chunk with their
\* heading, which the overlap cuts.
RECURSIVE Reached(_, _)
Reached(secs, n) ==
    n = 1 \/ (/\ Len(Prefix(secs[n])) < O.size
             /\ Reached(secs, secs[n].parent))

Promised(secs) ==
    UNION {ToSet(LettersOf(Direct(secs, n))) : n \in {m \in 2..Len(secs) : Reached(secs, m)}}

LineTooLong == \E i \in DOMAIN Lines(Whole) :
    IsJSONLine(Lines(Whole)[i]) /\ Len(Lines(Whole)[i]) > O.size
TextsFit == \A i \in DOMAIN result.docs : Len(result.docs[i]) <= O.size
HasCode == \E i \in DOMAIN Whole : Whole[i][1] = "f"

\* Every letter of the document is in a chunk the caller gets: cutting at
\* separators, dropping blank pieces, putting parts together again, overlaps
\* and their truncation, and the filter of meaningless chunks lose none.  (What
\* a table loses is seen by TableKeepsRows.)
NoLetterLost ==
    Done /\ (call.strategy = "structure" => ~ HasCode /\ ~ IsTable /\ TextsFit) =>
        LET shown == Held([i \in DOMAIN result.chunks |-> LettersOf(result.chunks[i].text)])
            secs == Sections
        IN IF ByStructure THEN Promised(secs) \subseteq shown
           ELSE shown = ToSet(LettersOf(Whole))

\* Chunks keep the order of the document: its runes ascend in a chunk, whatever
\* tail or heading it starts with, and each chunk ends after the one before.
InOrder ==
    result.status \in {"chunks", "partial"} /\ ~ (ByStructure /\ HasCode) =>
        LET read == [i \in DOMAIN result.docs |-> PlacesIn(result.docs[i])]
        IN /\ \A i \in DOMAIN read : read[i] # <<>> /\ Ascending(read[i])
           /\ \A i \in 1..(Len(read) - 1) : Last(read[i]) < Last(read[i + 1])

\* No text is longer than the chunk size, but for the overlap of the recursive
\* strategy and one row of a table; the rows of a document that is a table and
\* a document of one sentence, in the window mode, are seen by ChunkSizeKept.
WithinSize ==
    Done /\ ~ (call.strategy = "structure" /\ IsTable)
         /\ ~ (call.strategy = "semantic" /\ Mode = "window" /\ Len(SentencesOf(Whole)) = 1) =>
        \A i \in DOMAIN result.docs :
            LET t == result.docs[i]
            IN \/ Len(t) <= O.size
               \/ call.strategy = "recursive" /\ Len(t) <= O.size + OverlapTokens(O.size, O.ratio)
               \/ ByStructure /\ IsJSONLine(Last(Lines(t)))

\* ChunkSize is the most runes of a chunk (splitter.go); rows longer than that
\* and the shared part of neighbours, which other comments except, aside.
ChunkSizeKept ==
    Done => \A i \in DOMAIN result.docs :
        \/ Len(result.docs[i]) <= O.size + OverlapTokens(O.size, O.ratio)
        \/ IsJSONLine(Last(Lines(result.docs[i])))

\* Rows of a table are atoms that are put together (document_structure.go): every
\* letter of every row that fits a chunk is in a chunk.
TableKeepsRows ==
    Done /\ call.strategy = "structure" /\ IsTable /\ ~ LineTooLong =>
        Held([i \in DOMAIN result.chunks |-> LettersOf(result.chunks[i].text)])
            = ToSet(LettersOf(Whole))

\* Windows of a fixed size follow each other by the size less the overlap, and
\* the last one ends where the text ends.
FixedWindows ==
    Done /\ call.strategy = "fixed" /\ ~ O.trim /\ Whole # <<>> =>
        AreWindows(result.docs, Whole, O.size, FixedOverlap(O.size, O.asked, O.ratio))

\* The page of a chunk is found by looking for its text, which may stand in the
\* document more than once: a piece of the document is never said to be on a
\* page that begins after its first rune.
PageNotPastPiece ==
    LET whole == Whole
        markers == MarkersIn(whole)
    IN Done => \A i \in DOMAIN result.chunks :
        LET c == result.chunks[i]
            first == c.of[1][2]
            piece == first > 0 /\ \A k \in DOMAIN c.of : c.of[k][2] = first + k - 1
        IN piece => \A n \in c.pages : n = 1 \/ \E m \in markers :
              whole[m][2] <= first /\ PageOf(whole[m + 1][1]) = n

\* A heading and what is under it are in one chunk: whatever letter of a
\* section a chunk holds, it holds the section's heading.
HeadingStaysWithContent ==
    LET secs == Sections
        docs == Docs
    IN Done /\ ByStructure =>
        \A i \in DOMAIN docs, n \in 2..Len(secs) :
            ToSet(LettersOf(Direct(secs, n))) \intersect ToSet(docs[i]) # {} =>
                ToSet(LettersOf(secs[n].heading)) \subseteq ToSet(docs[i])

\* The semantic modes take a block of code as one sentence: one that fits a
\* chunk is never cut.
CodeStaysWhole ==
    Done /\ call.strategy = "semantic" /\ O.max <= O.size =>
        LET blocks == ProtectCodeBlocks(Whole).blocks
            docs == Docs
        IN \A i \in DOMAIN blocks :
              Len(blocks[i]) < O.size =>
                  \E k \in DOMAIN docs : ToSet(LettersOf(blocks[i])) \subseteq ToSet(docs[k])

\* The name that stands for a block of code is never in a text, as long as the
\* heading leaves room for it.
NamesAreRestored ==
    LET secs == Sections
    IN Done /\ ByStructure /\ (\A n \in 2..Len(secs) :
                                O.size - Len(Prefix(secs[n])) >= PlaceholderLen) =>
        \A i \in DOMAIN result.docs : ~ \E k \in DOMAIN result.docs[i] : result.docs[i][k][1] = "b"

\* The double-merging mode never starts its second pass without a chunk.
MergeHasAChunk == result.status # "panic"

\* addChunkBody never gets to its rows: what it is given and is too long is one
\* row, or has none.
RowsAreCutBefore ==
    LET secs == Sections
    IN Done /\ ByStructure =>
        \A n \in 2..Len(secs) :
            LET prefix == Prefix(secs[n])
                bodies == Bodies(secs, n, O.size - Len(prefix))
            IN Len(prefix) < O.size =>
                \A i \in DOMAIN bodies :
                    bodies[i].sec = 0 => ~ TooLongWithRows(prefix, bodies[i].text, O.size)

\* Every cell of a table is read in the column in which it stands, whatever the
\* cells above it span: in Markdown of any table, in JSON of one whose header
\* spans nothing.  call.o is where the cells stand: text -> <<row, column>>.  A
\* row that cells from above fill is dropped but still counted by their spans,
\* which moves the cells below it: such tables are not claimed to come out right.
CellsInPlace ==
    result.status = "rows" /\ (\A r \in DOMAIN call.text : call.text[r] # <<>>) =>
        LET at == call.o
            header == call.text[1]
            plain == \A i \in DOMAIN header : header[i].rows = 1 /\ header[i].cols = 1
            Once(rows, t) ==
                Cardinality({p \in (DOMAIN rows) \X (DOMAIN rows[1]) : rows[p[1]][p[2]] = t}) = 1
        IN /\ \A t \in DOMAIN at : result.markdown[at[t][1]][at[t][2]] = t /\ Once(result.markdown, t)
           /\ plain => \A t \in DOMAIN at :
                at[t][1] > 1 => result.json[at[t][1] - 1][at[t][2]] = t /\ Once(result.json, t)

(***************************************************************************)
(* What the runs check.                                                    *)
(***************************************************************************)
\* Split answers with the document, whole, in order and on its pages, in texts of
\* the sizes asked for.
SplitWell ==
    MergeHasAChunk /\ NoLetterLost /\ InOrder /\ PageNotPastPiece /\ WithinSize /\ FixedWindows

\* Split does not tear apart what belongs together: a heading and its text, a
\* block of code, a row of a table, a cell and its column.
PartsKeptTogether ==
    CellsInPlace /\ HeadingStaysWithContent /\ CodeStaysWhole /\ NamesAreRestored /\ RowsAreCutBefore
=============================================================================
