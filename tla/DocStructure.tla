---------------------------- MODULE DocStructure ----------------------------
(***************************************************************************)
(* DocumentStructureStrategy of aipkg/rag/split: a document becomes a tree *)
(* of sections, a section becomes chunks that start with its heading.      *)
(*                                                                         *)
(* The first rune of a line says what it is: "#1".."#3" a Markdown heading *)
(* of that depth, "N" and "N2" a numbered line "3. ..." or "3.1 ..." (a     *)
(* heading where the document has no Markdown heading), "f" a code fence,  *)
(* "{" (with "}" at the end) a row of a table as a JSON line.              *)
(***************************************************************************)
EXTENDS TextSplit

CONSTANT PlaceholderLen   \* runes of the name that stands for a code block

BlankLine == Newline \o Newline
Sentences == <<BlankLine, <<".">>, Newline, <<",">>>>   \* splitBySentences

FirstClass(line) == LET t == TrimSpace(line) IN IF t = <<>> THEN "" ELSE t[1][1]
IsFence(line) == FirstClass(line) = "f"
IsJSONLine(line) ==
    LET t == TrimSpace(line) IN Len(t) > 2 /\ t[1][1] = "{" /\ Last(t)[1] = "}"
JSONLines(t) == Cardinality({i \in DOMAIN Lines(t) : IsJSONLine(Lines(t)[i])})
HasJSONLines(t) == JSONLines(t) >= 2

MarkdownDepth(line) ==
    LET t == TrimSpace(line)
    IN IF Len(t) <= 1 THEN 0
       ELSE CASE t[1][1] = "#1" -> 1 [] t[1][1] = "#2" -> 2 [] t[1][1] = "#3" -> 3 [] OTHER -> 0

\* parseHeadingLine: the depth of a heading, 0 for any other line.  Where two
\* numbers are too deep, "3.1 ..." is read as "3.", with "1 ..." for a title.
HeadingDepth(line, maxDepth, markdownOnly) ==
    LET d == MarkdownDepth(line)
        numbered == ~ markdownOnly /\ Len(TrimSpace(line)) > 1
    IN CASE d > 0 -> IF d <= maxDepth THEN d ELSE 0
         [] numbered /\ FirstClass(line) = "N" -> 1
         [] numbered /\ FirstClass(line) = "N2" -> Min({2, maxDepth})
         [] OTHER -> 0

(***************************************************************************)
(* parseHeadingTree: a sequence of sections, each with the index of the    *)
(* one it is in; the first is the root.  A heading closes every open       *)
(* section that is not above it; fences hide headings.                     *)
(***************************************************************************)
RECURSIVE Above(_, _, _)
Above(secs, i, depth) ==
    IF secs[i].depth >= depth THEN Above(secs, secs[i].parent, depth) ELSE i

OutsideCode(lines, i) ==
    /\ ~ IsFence(lines[i])
    /\ Cardinality({j \in 1..i : IsFence(lines[j])}) % 2 = 0

\* The depth of every line, 0 for text.
Depths(lines, maxDepth) ==
    LET markdown == \E i \in DOMAIN lines : OutsideCode(lines, i) /\ MarkdownDepth(lines[i]) > 0
    IN [i \in DOMAIN lines |->
          IF OutsideCode(lines, i) THEN HeadingDepth(lines[i], maxDepth, markdown) ELSE 0]

Nest(lines, depths) ==
    FoldLeftDomain(
        LAMBDA s, i :
            IF depths[i] = 0
            THEN [s EXCEPT !.secs[s.at].content = Append(@, lines[i])]
            ELSE [at |-> Len(s.secs) + 1,
                  secs |-> Append(s.secs,
                              [depth |-> depths[i], parent |-> Above(s.secs, s.at, depths[i]),
                               heading |-> TrimSpace(lines[i]), content |-> <<>>])],
        [at |-> 1, secs |-> <<[depth |-> 0, parent |-> 0, heading |-> <<>>, content |-> <<>>]>>],
        lines).secs

ParseHeadingTree(text, maxDepth) == Nest(Lines(text), Depths(Lines(text), maxDepth))

Children(secs, n) == SelectSeq([i \in DOMAIN secs |-> i], LAMBDA i : secs[i].parent = n)
Direct(secs, n) == TrimSpace(JoinWith(secs[n].content, Newline))

\* Mutant: a subsection is its text only.
RenderBare(secs, n) ==
    LET kids == Children(secs, n)
    IN Direct(secs, n)
       \o FlattenSeq([k \in DOMAIN kids |-> Written(BlankLine) \o Direct(secs, kids[k])])

\* renderSection: a section with all that is below it, as one text.
RECURSIVE Render(_, _)
Render(secs, n) ==
    LET kids == Children(secs, n)
        direct == Direct(secs, n)
    IN secs[n].heading
       \o (IF direct = <<>> THEN <<>> ELSE Written(Newline) \o direct)
       \o FlattenSeq([k \in DOMAIN kids |-> Written(BlankLine) \o Render(secs, kids[k])])

(***************************************************************************)
(* Cutting a text that is too long for its section.                        *)
(***************************************************************************)
Inked(texts) == SelectSeq(Each(texts, TrimSpace), LAMBDA t : t # <<>>)

\* splitTableRows packs rows without counting the newline it will write;
\* splitJSONAware counts it.  A line longer than the size is alone.
PackLines(lines, size, newline) ==
    FoldLeft(LAMBDA out, line :
                IF out # <<>> /\ Len(Last(out)) + newline + Len(line) <= size
                THEN Append(Front(out), Last(out) \o Written(Newline) \o line)
                ELSE Append(out, line),
             <<>>, Inked(lines))

SplitBySentences(t, size) == RecursiveSplit(t, Sentences, size)

SplitJSONAware(t, size) ==
    EachOfMany(PackLines(Lines(t), size, 1),
               LAMBDA p : IF Len(p) <= size \/ IsJSONLine(p) THEN <<p>>
                          ELSE Inked(SplitBySentences(p, size)))

\* protectCodeBlocks: every block of code becomes one line with its name, a
\* run of PlaceholderLen runes of class "b" that carry the block's number; a
\* block the document does not close ends with it.
NameBlock(s) ==
    [out |-> Append(s.out, [k \in 1..PlaceholderLen |-> <<"b", -(Len(s.blocks) + 1)>>]),
     blocks |-> Append(s.blocks, JoinWith(s.buf, Newline)), buf |-> <<>>]

BlocksNamed(lines) ==
    FoldLeft(LAMBDA s, line :
                IF IsFence(line) /\ s.buf # <<>> THEN NameBlock([s EXCEPT !.buf = Append(@, line)])
                ELSE IF IsFence(line) \/ s.buf # <<>> THEN [s EXCEPT !.buf = Append(@, line)]
                ELSE [s EXCEPT !.out = Append(@, line)],
             [out |-> <<>>, blocks |-> <<>>, buf |-> <<>>], lines)

Closed(s) == IF s.buf = <<>> THEN s ELSE NameBlock(s)
ProtectCodeBlocks(t) == Closed(BlocksNamed(Lines(t)))

\* restoreCodeBlocks: a name that was itself cut in two is not found again.
RECURSIVE RestoreCodeBlocks(_, _)
RestoreCodeBlocks(t, blocks) ==
    LET names == {i \in 1..(Len(t) - PlaceholderLen + 1) :
                    \A k \in 0..(PlaceholderLen - 1) : t[i + k][1] = "b" /\ t[i + k] = t[i]}
        i == Min(names)
    IN IF names = {} THEN t
       ELSE SubSeq(t, 1, i - 1) \o blocks[-t[i][2]]
            \o RestoreCodeBlocks(SubSeq(t, i + PlaceholderLen, Len(t)), blocks)

SplitAroundCode(safe, size) ==
    Each(Inked(SplitBySentences(JoinWith(safe.out, Newline), size)),
         LAMBDA p : RestoreCodeBlocks(p, safe.blocks))

SplitTextForStructure(t, size) ==
    LET trimmed == TrimSpace(t)
    IN IF trimmed = <<>> THEN <<>>
       ELSE IF Len(trimmed) <= size THEN <<trimmed>>
       ELSE IF HasJSONLines(trimmed) THEN SplitJSONAware(trimmed, size)
       ELSE SplitAroundCode(ProtectCodeBlocks(trimmed), size)

(***************************************************************************)
(* splitSection.  The bodies of a section are what its chunks hold under   *)
(* the heading: its own text and its subsections, packed up to the room    *)
(* the heading leaves.  A subsection too long for that is a section of its *)
(* own; the section's own text is cut.                                     *)
(***************************************************************************)
Prefix(sec) == sec.heading \o Written(BlankLine)

\* addChunkBody: a chunk that is too long is cut, unless it is one JSON line.
\* TooLongWithRows is where the code would go on to pack rows of JSON.
TooLongWithRows(prefix, body, size) ==
    Len(prefix \o body) > size /\ ~ IsJSONLine(body) /\ HasJSONLines(body)

AddChunkBody(prefix, body, size, trim) ==
    LET b == IF trim THEN TrimSpace(body) ELSE body
        chunk == IF trim THEN TrimSpace(prefix \o b) ELSE prefix \o b
    IN IF b = <<>> THEN <<>>
       ELSE IF Len(chunk) > size /\ ~ IsJSONLine(b) THEN <<Cut(chunk, size)>>
       ELSE <<chunk>>

\* The units of a section in the order of the document; "sec" is 0 for its
\* own text.
Units(secs, n) ==
    LET kids == Children(secs, n)
        direct == Direct(secs, n)
    IN (IF direct = <<>> THEN <<>> ELSE <<[sec |-> 0, text |-> direct]>>)
       \o [k \in DOMAIN kids |-> [sec |-> kids[k], text |-> TrimSpace(Render(secs, kids[k]))]]

\* What is packed is text; a unit too long for that is alone.
PackUnits(units, room) ==
    FoldLeft(LAMBDA out, u :
                IF /\ out # <<>> /\ Len(Last(out).text) <= room
                   /\ Len(Last(out).text) + 2 + Len(u.text) <= room
                THEN Append(Front(out),
                            [sec |-> 0, text |-> Last(out).text \o Written(BlankLine) \o u.text])
                ELSE Append(out, IF Len(u.text) > room THEN u ELSE [u EXCEPT !.sec = 0]),
             <<>>, units)

\* Bodies and subsections in the order in which they become chunks: a record
\* with a body, or with the index of a subsection.
Bodies(secs, n, room) ==
    EachOfMany(PackUnits(Units(secs, n), room),
               LAMBDA b : IF b.sec # 0 \/ Len(b.text) <= room THEN <<b>>
                          ELSE Each(SplitTextForStructure(b.text, room),
                                    LAMBDA part : [sec |-> 0, text |-> part]))

RECURSIVE SplitSection(_, _, _)
SplitSection(secs, n, o) ==
    LET kids == Children(secs, n)
        prefix == Prefix(secs[n])
        short == Cut(prefix, o.size)
    IN IF o.skipEmpty /\ Direct(secs, n) = <<>> /\ kids # <<>>
       THEN EachOfMany(kids, LAMBDA kid : SplitSection(secs, kid, o))
       ELSE IF Len(prefix) >= o.size
       THEN <<IF o.trim THEN TrimSpace(short) ELSE short>>
       ELSE EachOfMany(Bodies(secs, n, o.size - Len(prefix)),
                       LAMBDA b : IF b.sec # 0 THEN SplitSection(secs, b.sec, o)
                                  ELSE AddChunkBody(prefix, b.text, o.size, o.trim))

(***************************************************************************)
(* Split.  A document without a heading is a table, when most of its lines *)
(* are rows of one, or goes to the semantic strategy.                      *)
(***************************************************************************)
MostlyTableRows(t) == 2 * JSONLines(t) > Len(Lines(t))

SplitTableRows(t, size) == PackLines(Lines(t), size, 0)

HasSections(secs) == Len(secs) > 1

\* "lost" is the top section during which the context ends (0: it does not):
\* splitSection then returns what it has so far, or nothing, and only the loop
\* over the top sections, at the next one, makes that an error.
LostBeforeLast(secs, lost) == lost \in 1..(Len(Children(secs, 1)) - 1)

StructureTexts(secs, o, lost, kept) ==
    LET tops == Children(secs, 1)
        Kept(k, texts) == IF k = lost THEN Cut(texts, kept) ELSE texts
    IN FlattenSeq([k \in DOMAIN tops |-> Kept(k, SplitSection(secs, tops[k], o))])
=============================================================================
