------------------------------ MODULE Windows ------------------------------
(***************************************************************************)
(* Cutting a text by its length alone, in aipkg/rag/split: into windows    *)
(* that share their ends (the fixed-size strategy), into pieces (the last  *)
(* resort of the recursive strategy), and the overlap of neighbours.       *)
(* Ratios are percentages.                                                 *)
(***************************************************************************)
EXTENDS Integers, Sequences, SequencesExt, FiniteSetsExt

\* math.Round(size * ratio)
OverlapTokens(size, pct) ==
    IF size <= 0 \/ pct <= 0 THEN 0 ELSE (2 * size * pct + 100) \div 200

Tailing(t, n) == SubSeq(t, Max({1, Len(t) - n + 1}), Len(t))
Cut(t, n) == SubSeq(t, 1, Min({n, Len(t)}))

HardSplit(t, size) ==
    [k \in 1..((Len(t) + size - 1) \div size) |->
        SubSeq(t, (k - 1) * size + 1, Min({k * size, Len(t)}))]

(***************************************************************************)
(* FixedSizeStrategy.Split: windows of size runes, one step apart, until a *)
(* window reaches the end of the text.                                     *)
(***************************************************************************)
FixedOverlap(size, asked, pct) ==
    LET wanted == IF asked <= 0 THEN OverlapTokens(size, pct) ELSE asked
    IN Min({wanted, size - 1})

FixedSizeSplit(t, size, asked, pct) ==
    LET step == size - FixedOverlap(size, asked, pct)
        last == IF Len(t) <= size THEN 0 ELSE (Len(t) - size + step - 1) \div step
        windows == [k \in 1..(last + 1) |->
                      SubSeq(t, (k - 1) * step + 1, Min({(k - 1) * step + size, Len(t)}))]
    IN IF t = <<>> THEN <<>> ELSE windows

\* The pieces begin and end with the text; each but the last is of the whole size,
\* and the next begins with the end that they share, and goes on behind it.
AreWindows(pieces, t, size, shared) ==
    /\ pieces[1] = Cut(t, size)
    /\ IsSuffix(Last(pieces), t)
    /\ \A i \in 1..(Len(pieces) - 1) :
         /\ Len(pieces[i]) = size
         /\ Cut(pieces[i + 1], shared) = Tailing(pieces[i], Min({shared, Len(pieces[i + 1])}))
         /\ Len(pieces[i + 1]) > shared
=============================================================================
