------------------------------- MODULE MCText -------------------------------
(***************************************************************************)
(* Calls of Splitters for TLC: texts of a few lines, each line one of the  *)
(* kinds that the splitters tell apart, and options with small sizes.      *)
(***************************************************************************)
EXTENDS Runes

Plain == <<"a", "a">>
Marks == <<"a", ".", "a", ",", "a", "a", ".">>
Wordy == <<"a", "a", ",", "a", "a", " ", "a", "a", "a", "a">>
H1 == <<"#1", "a">>
H2 == <<"#2", "a">>
Numbered == <<"N", "a">>
Numbered2 == <<"N2", "a">>
Fence == <<"f">>
Row == <<"{", "a", "}">>
LongRow == <<"{", "a", "a", "a", "a", "a", "a", "}">>
Item == <<"-", "a">>
Page2 == <<"<", "2", ">">>
Page3 == <<"<", "3", ">">>

Text(lines) == AsText(FoldLeftDomain(LAMBDA t, i : t \o (IF i = 1 THEN <<>> ELSE Newline) \o lines[i],
                                     <<>>, lines))
Texts(kinds, n) == {Text(lines) : lines \in UNION {[1..k -> kinds] : k \in 1..n}}

Defaults == [size |-> 6, ratio |-> 10, asked |-> 0, trim |-> FALSE, skipEmpty |-> FALSE,
             urls |-> FALSE, images |-> FALSE, normalize |-> FALSE, depth |-> 3,
             mode |-> "greedy", min |-> 0, max |-> 0, range |-> 1, sep |-> <<>>, percentile |-> 50]

CallsOf(strategy, texts, options) ==
    [strategy : {strategy}, text : texts, o : options]

FixedCalls == CallsOf("fixed",
    Texts({Plain, Marks, <<>>, Page2, Page3}, 3)
        \union Texts({<<"u", "a", "r">>, <<" ", " ", "i", "a">>, <<"t", "a">>}, 2),
    {[Defaults EXCEPT !.size = s, !.asked = a, !.ratio = 20, !.urls = b, !.images = b,
                      !.normalize = b, !.trim = b] :
        s \in {1, 4, 5}, a \in {-1, 0, 2}, b \in BOOLEAN})

RecursiveCalls == CallsOf("recursive", Texts({Plain, Marks, Wordy, <<>>, Page2}, 3),
    {[Defaults EXCEPT !.size = s, !.ratio = 20, !.trim = b] : s \in {0, 1, 4, 6}, b \in BOOLEAN})

StructureCalls ==
    <<CallsOf("structure", Texts({Plain, Marks, H1, H2, Row}, 4),
        {[Defaults EXCEPT !.size = s, !.skipEmpty = b] : s \in {5, 9}, b \in BOOLEAN}),
      CallsOf("structure", Texts({Numbered, Numbered2, Fence, Plain, LongRow}, 4),
        {[Defaults EXCEPT !.size = 6, !.trim = TRUE, !.depth = 1],
         [Defaults EXCEPT !.size = 9, !.depth = 2]})>>

SemanticCalls ==
    <<CallsOf("semantic", Texts({Plain, Marks, Wordy, H1, Item}, 3),
        {[Defaults EXCEPT !.size = s, !.ratio = 20, !.mode = "greedy"] : s \in {5, 8}}),
      CallsOf("semantic", Texts({Plain, Marks, Fence}, 3) \union Texts({Plain}, 4),
        {[Defaults EXCEPT !.size = 5, !.mode = "double", !.min = 3, !.max = 7, !.sep = <<" ">>],
         [Defaults EXCEPT !.size = 12, !.mode = "double", !.min = 3, !.range = 3]}),
      CallsOf("semantic", Texts({Plain, Marks, Wordy, H1, Fence}, 2),
        {[Defaults EXCEPT !.size = s, !.ratio = 20, !.mode = "window", !.min = m] :
            s \in {5, 8}, m \in {-1, 3}})>>

BadCalls == CallsOf("fixed", Texts({Plain, <<>>}, 2), {[Defaults EXCEPT !.ratio = r] : r \in {0, 9, 21}})

SetToSeqBy(tiles) == SetToSortSeq(tiles, LAMBDA a, b : a.at[2] < b.at[2])

\* Every way to cover the cells of a grid from "left" on with rectangles, as a
\* set of [at, rows, cols].
RECURSIVE Tilings(_)
Tilings(left) ==
    IF left = {} THEN {{}}
    ELSE LET top == Min({p[1] : p \in left})
             at == <<top, Min({p[2] : p \in {q \in left : q[1] = top}})>>
             Cells(h, w) == (at[1]..(at[1] + h - 1)) \X (at[2]..(at[2] + w - 1))
         IN UNION {{tiles \union {[at |-> at, rows |-> h, cols |-> w]} : tiles \in Tilings(left \ Cells(h, w))} :
                     <<h, w>> \in {hw \in (1..3) \X (1..3) : Cells(hw[1], hw[2]) \subseteq left}}

\* The table of a tiling: each tile is a cell of the row in which it begins,
\* its text is its place.
TableCall(tiles, height) ==
    LET CellsOf(r) == SetToSeqBy({t \in tiles : t.at[1] = r})
    IN [strategy |-> "table", o |-> [p \in {t.at : t \in tiles} |-> p],
        text |-> [r \in 1..height |-> [i \in DOMAIN CellsOf(r) |->
                    [text |-> CellsOf(r)[i].at, rows |-> CellsOf(r)[i].rows, cols |-> CellsOf(r)[i].cols]]]]

TableCalls ==
    UNION {{TableCall(tiles, h) : tiles \in Tilings((1..h) \X (1..w))} : <<h, w>> \in (1..3) \X (1..3)}

MCCalls == <<TableCalls, FixedCalls, RecursiveCalls, BadCalls>> \o StructureCalls \o SemanticCalls
=============================================================================
