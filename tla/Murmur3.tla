------------------------------ MODULE Murmur3 ------------------------------
(***************************************************************************)
(* The incremental digest of pkg/murmur3.                                  *)
(* The words h1 and h2 are a function of the blocks that were mixed in,    *)
(* and the final words of them, of the bytes that are left and of the      *)
(* length: the functions are left open, so that two sums are equal only    *)
(* when they mix the same bytes at the same places.  Block is the 16 bytes *)
(* of a block, of which the first half goes into k1 and the other into k2. *)
(***************************************************************************)
EXTENDS Integers, SequencesExt

CONSTANTS Byte,         \* the values of a byte
          Block,        \* the size of a block, even
          MaxWrite,     \* the length of one Write
          MaxInput      \* the length of the input since the last Reset

ASSUME MurmurAssumption == 
    /\ Block \in Nat \ {0} /\ Block % 2 = 0
    /\ MaxWrite \in Nat /\ MaxInput \in Nat

VARIABLES
    mixed,      \* h1 and h2: the blocks that were mixed in
    buf,        \* the array of Block bytes
    tail,       \* how many of its bytes the tail has
    clen,       \* the length of the input so far
    input       \* history: the input since the last Reset

murmurVars == <<mixed, buf, tail, clen, input>>

Pending == SubSeq(buf, 1, tail)

\* bmix: all whole blocks of p; the rest is the new tail.
BlocksOf(p) == [k \in 1..(Len(p) \div Block) |-> SubSeq(p, (k - 1) * Block + 1, k * Block)]
RestOf(p) == SubSeq(p, (Len(p) \div Block) * Block + 1, Len(p))

\* Sum128, of blocks, the tail and the length.
Sum128(blocks, rest, length) ==
    [h |-> blocks,
     k1 |-> SubSeq(rest, 1, Min({Block \div 2, Len(rest)})),
     k2 |-> SubSeq(rest, Block \div 2 + 1, Len(rest)),
     clen |-> length]

\* Sum128WithSeed of data at once.
SumOf(data) == Sum128(BlocksOf(data), RestOf(data), Len(data))

MurmurInit ==
    /\ mixed = <<>> /\ buf \in [1..Block -> {CHOOSE b \in Byte : TRUE}] /\ tail = 0
    /\ clen = 0 /\ input = <<>>

\* The bytes are copied to the front of the array; what is behind them stays.
CopyToBuf(rest, array) == rest \o SubSeq(array, Len(rest) + 1, Block)

\* append(d.tail, p...) writes into the array behind the tail.
AppendToFront(p) == CopyToBuf(p, buf)
AppendToTail(p) == CopyToBuf(Pending \o p, buf)

Write(p) ==
    LET free  == Block - tail
        fills == tail > 0 /\ free < Len(p)
        array == IF tail > 0 THEN AppendToTail(SubSeq(p, 1, Min({free, Len(p)}))) ELSE buf
        rest  == CASE fills -> SubSeq(p, free + 1, Len(p))
                   [] tail > 0 /\ ~fills -> SubSeq(array, 1, tail + Len(p))
                   [] tail = 0 -> p
    IN /\ clen' = clen + Len(p)
       /\ mixed' = mixed \o (IF fills THEN <<array>> ELSE <<>>) \o BlocksOf(rest)
       /\ tail' = Len(RestOf(rest))
       /\ buf' = CopyToBuf(RestOf(rest), array)
       /\ input' = input \o p

Reset ==
    /\ mixed' = <<>> /\ tail' = 0 /\ clen' = 0
    /\ input' = <<>> /\ UNCHANGED buf

MurmurNext ==
    \/ \E n \in 0..MaxWrite : \E p \in [1..n -> Byte] : Len(input) + n <= MaxInput /\ Write(p)
    \/ Reset

MurmurSpec == MurmurInit /\ [][MurmurNext]_murmurVars

(***************************************************************************)
(* Properties.                                                             *)
(***************************************************************************)
\* However the input is cut into writes, and whatever is left in the array from
\* earlier ones, a sum at any time is the sum of the whole input at once: the same
\* blocks were mixed in the same order, the same bytes are in k1 and in k2, and the
\* length is the same (murmur128.go:183-193).
DigestOfTheWhole == tail < Block /\ Sum128(mixed, Pending, clen) = SumOf(input)
=============================================================================
