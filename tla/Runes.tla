------------------------------- MODULE Runes -------------------------------
(***************************************************************************)
(* Texts as the splitters of aipkg/rag see them: sequences of runes.  A    *)
(* rune is <<class, place>>: its class is all a splitter looks at ("a" is  *)
(* a letter, "n" a newline, any other class a mark with a meaning), its    *)
(* place is where it stood in the document, 0 when a splitter wrote it.    *)
(* Places tell apart two runes that look alike, so what was lost, repeated *)
(* or moved can be said exactly.                                           *)
(***************************************************************************)
EXTENDS Integers, Sequences, SequencesExt, FiniteSetsExt

AsText(classes) == [i \in DOMAIN classes |-> <<classes[i], i>>]
Written(classes) == [i \in DOMAIN classes |-> <<classes[i], 0>>]
Classes(t) == [i \in DOMAIN t |-> t[i][1]]

\* What Op makes of each element, and all of it in one sequence.
Each(s, Op(_)) == [i \in DOMAIN s |-> Op(s[i])]
EachOfMany(s, Op(_)) == FlattenSeq(Each(s, Op))

Newline == <<"n">>
Blank(r) == r[1] \in {"n", " "}
AllBlank(t) == \A i \in DOMAIN t : Blank(t[i])

TrimSpace(t) ==
    LET ink == {i \in DOMAIN t : ~ Blank(t[i])}
    IN IF ink = {} THEN <<>> ELSE SubSeq(t, Min(ink), Max(ink))

\* Where the classes of mark occur in t.
Occurrences(t, mark) ==
    {i \in 1..(Len(t) - Len(mark) + 1) :
        \A k \in DOMAIN mark : t[i + k - 1][1] = mark[k]}

\* strings.Split, strings.Join and strings.TrimSpace of every part.
RECURSIVE SplitAt(_, _)
SplitAt(t, mark) ==
    LET found == Occurrences(t, mark)
    IN IF found = {} THEN <<t>>
       ELSE LET i == Min(found)
            IN <<SubSeq(t, 1, i - 1)>>
                 \o SplitAt(SubSeq(t, i + Len(mark), Len(t)), mark)

JoinWith(parts, mark) ==
    FlattenSeq([i \in DOMAIN parts |-> IF i = 1 THEN parts[i] ELSE Written(mark) \o parts[i]])

Lines(t) == SplitAt(t, Newline)

\* The runes of t at a set of its indices.
At(t, keep) == Each(SelectSeq([i \in DOMAIN t |-> i], LAMBDA i : i \in keep), LAMBDA i : t[i])

\* A run of one of these classes becomes its first rune.
CollapseRuns(t, classes) ==
    At(t, {i \in DOMAIN t : ~ (t[i][1] \in classes /\ i > 1 /\ t[i - 1][1] = t[i][1])})

\* What the properties look at: the document's runes of a set of classes, in
\* the order in which a text holds them.
PlacesOf(t, classes) ==
    LET mine == SelectSeq(t, LAMBDA r : r[1] \in classes /\ r[2] > 0)
    IN [i \in DOMAIN mine |-> mine[i][2]]

LettersOf(t) == PlacesOf(t, {"a"})

Ascending(s) == \A i \in 1..(Len(s) - 1) : s[i] < s[i + 1]
=============================================================================
