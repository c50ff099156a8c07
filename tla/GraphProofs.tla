----------------------------- MODULE GraphProofs -----------------------------
(***************************************************************************)
(* Safety of the graph builder, proved for any chunks, answers and calls,  *)
(* and any order in which the tasks run and the map of relations is        *)
(* visited.                                                                *)
(***************************************************************************)
EXTENDS GraphBuilder, FiniteSetTheorems, SequenceTheorems, WellFoundedInduction, TLAPS

\* The call: its argument, its goroutines and what it returned.
CallTypes ==
    /\ plan \in Seq(Seq(Chunks)) /\ chunks \in Seq(Chunks)
    /\ phase \in {"idle", "extracting", "relating", "weighted", "measured"}
    /\ outcome \in {"none", "ok", "error"}
    /\ task \in [DOMAIN chunks -> {"waiting", "calling", "done", "failed"}]
    /\ DOMAIN found = DOMAIN chunks /\ found \in Seq(ToSet(found))
    /\ phase = "relating" => /\ DOMAIN batch = DOMAIN Batches(chunks)
                             /\ \A k \in DOMAIN batch : batch[k] \in {"waiting", "calling", "done", "failed"}

\* A call that is past its first part has read every chunk, and so has one that returned nil.
ReadBefore ==
    /\ phase # "idle" => outcome = "none"
    /\ phase \in {"relating", "weighted", "measured"} \/ outcome = "ok" =>
          \A i \in DOMAIN chunks : task[i] = "done"

Entities == [chunks : SUBSET Chunks, freq : Nat, degree : Nat]
AreEntities(map) ==
    \A t \in DOMAIN map : /\ map[t] \in Entities
                          /\ IsFiniteSet(map[t].chunks)
                          /\ map[t].freq >= Cardinality(map[t].chunks)

EntitiesFit ==
    /\ \A i \in DOMAIN found : Range(found[i]) \subseteq DOMAIN entityMap
    /\ AreEntities(entityMap)

\* The chunks of the ends of a relation that are known.
ChunksOfEnds(key) == UNION {entityMap[t].chunks : t \in {key[1], key[2]} \intersect DOMAIN entityMap}

IsEnds(key) == key = <<key[1], key[2]>> /\ IsTitle(key[1]) /\ IsTitle(key[2])

Relations == [chunks : SUBSET Chunks, strength : Int, weight : Int, degree : Int]
AreRelations(map) ==
    /\ IsFiniteSet(DOMAIN map)
    /\ \A key \in DOMAIN map :
          /\ IsEnds(key)
          /\ map[key] \in Relations
          /\ IsFiniteSet(map[key].chunks)
          /\ Plain(key) => map[key].chunks \subseteq ChunksOfEnds(key)

\* A relation with these ends was added to map: the chunks ids are there under its key,
\* and it is there itself when its titles have no "#".
HasRelation(map, ends, ids) ==
    \E key \in DOMAIN map : /\ Key(key) = Key(ends)
                            /\ Plain(ends) => key = ends
                            /\ ids \subseteq map[key].chunks

\* What the model said is in the maps.
Remembered ==
    /\ \A n \in named : Known(n[1]) /\ n[2] \in entityMap[n[1]].chunks
    /\ \A r \in related : HasRelation(relationshipMap, r.rel, r.in)

\* Links go both ways, with the same weight and degree.
LinksFit ==
    /\ DOMAIN chunkGraph \subseteq UNION {Pairs(key) : key \in DOMAIN relationshipMap}
    /\ \A p \in DOMAIN chunkGraph :
          /\ chunkGraph[p] \in [weight : Int, degree : Int]
          /\ <<p[2], p[1]>> \in DOMAIN chunkGraph
          /\ chunkGraph[<<p[2], p[1]>>] = chunkGraph[p]

DegreesAreCounts ==
    /\ \A t \in DOMAIN entityMap : entityMap[t].degree = DegreeOf(t)
    /\ \A key \in DOMAIN relationshipMap :
          Known(key[1]) /\ Known(key[2]) =>
              relationshipMap[key].degree = DegreeOf(key[1]) + DegreeOf(key[2])

LinksAreCurrent ==
    \A key \in DOMAIN relationshipMap : \A p \in Pairs(key) :
        /\ p \in DOMAIN chunkGraph
        /\ \E q \in DOMAIN relationshipMap : p \in Pairs(q) /\ chunkGraph[p] = Link(q)

Finished ==
    /\ phase = "measured" \/ outcome = "ok" => DegreesAreCounts
    /\ outcome = "ok" => LinksAreCurrent

GraphInv ==
    /\ CallTypes /\ ReadBefore
    /\ EntitiesFit /\ AreRelations(relationshipMap) /\ Remembered
    /\ LinksFit /\ Finished

-----------------------------------------------------------------------------
(* Induction: a set of numbers stands for what is shown of its elements *)

LEMMA Upward ==
  ASSUME NEW S, 0 \in S, \A n \in Nat : n \in S => n + 1 \in S
  PROVE  Nat \subseteq S
<1> DEFINE T == Nat \ S
           R == OpToRel(<, Nat)
<1> SUFFICES ASSUME T # {} PROVE FALSE
  OBVIOUS
<1>1. T \subseteq Nat
  OBVIOUS
<1>2. IsWellFoundedOn(R, Nat)
  BY NatLessThanWellFounded
<1>3. \A x, y \in Nat : x < y => <<x, y>> \in R
  BY DEF OpToRel
<1> HIDE DEF T, R
<1>4. PICK x \in T : \A y \in T : ~ (<<y, x>> \in R)
  BY <1>1, <1>2, WFMin
<1>5. x \in Nat /\ x # 0 /\ x \notin S
  BY <1>1, <1>4 DEF T
<1>6. x - 1 \in Nat /\ x - 1 < x
  BY <1>5
<1>7. x - 1 \in S
  BY <1>3, <1>4, <1>5, <1>6 DEF T
<1>8. (x - 1) + 1 \in S
  BY <1>6, <1>7
<1> QED BY <1>5, <1>8

LEMMA UpTo ==
  ASSUME NEW N \in Nat, NEW S, 0 \in S, \A n \in 0..(N - 1) : n \in S => n + 1 \in S
  PROVE  0..N \subseteq S
<1> DEFINE T == {n \in Nat : n <= N => n \in S}
<1>1. 0 \in T
  OBVIOUS
<1>2. \A n \in Nat : n \in T => n + 1 \in T
  <2> SUFFICES ASSUME NEW n \in Nat, n \in T, n + 1 <= N PROVE n + 1 \in S
    OBVIOUS
  <2>1. n \in 0..(N - 1)
    OBVIOUS
  <2> QED BY <2>1
<1>3. Nat \subseteq T
  <2> HIDE DEF T
  <2> QED BY <1>1, <1>2, Upward
<1> QED BY <1>3

-----------------------------------------------------------------------------
(* The greatest of a finite set of numbers *)

LEMMA GreatestOf ==
  ASSUME NEW N \in Nat, NEW f \in [1..N -> Int]
  PROVE  \A n \in 1..N : \E i \in 1..n : \A j \in 1..n : f[j] <= f[i]
<1> DEFINE S == {n \in 0..N : n = 0 \/ \E i \in 1..n : \A j \in 1..n : f[j] <= f[i]}
<1>1. 0 \in S
  OBVIOUS
<1>2. \A n \in 0..(N - 1) : n \in S => n + 1 \in S
  <2> SUFFICES ASSUME NEW n \in 0..(N - 1), n \in S PROVE n + 1 \in S
    OBVIOUS
  <2>1. n + 1 \in 1..N
    OBVIOUS
  <2>2. CASE n = 0
    <3>1. \A j \in 1..1 : f[j] <= f[1]
      BY <2>1, <2>2
    <3> QED BY <2>1, <2>2, <3>1
  <2>3. CASE n # 0
    <3>1. PICK i \in 1..n : \A j \in 1..n : f[j] <= f[i]
      BY <2>3
    <3>2. CASE f[n + 1] <= f[i]
      <4>1. \A j \in 1..(n + 1) : f[j] <= f[i]
        BY <3>1, <3>2
      <4>2. i \in 1..(n + 1)
        OBVIOUS
      <4> QED BY <2>1, <4>1, <4>2
    <3>3. CASE ~ (f[n + 1] <= f[i])
      <4>1. \A j \in 1..n : f[j] \in Int
        BY <2>1
      <4>2. f[i] \in Int /\ f[n + 1] \in Int /\ f[i] <= f[n + 1]
        BY <2>1, <3>3, <4>1
      <4>3. \A j \in 1..(n + 1) : f[j] <= f[n + 1]
        BY <3>1, <4>1, <4>2
      <4> QED BY <2>1, <4>3
    <3> QED BY <3>2, <3>3
  <2> QED BY <2>2, <2>3
<1>3. 0..N \subseteq S
  <2> HIDE DEF S
  <2> QED BY <1>1, <1>2, UpTo
<1> SUFFICES ASSUME NEW n \in 1..N PROVE \E i \in 1..n : \A j \in 1..n : f[j] <= f[i]
  OBVIOUS
<1>4. n \in 0..N /\ n # 0
  OBVIOUS
<1>5. n \in S
  BY <1>3, <1>4
<1> QED BY <1>4, <1>5

LEMMA MaxIs ==
  ASSUME NEW S, S \subseteq Int, IsFiniteSet(S), S # {}
  PROVE  Max(S) \in S /\ \A x \in S : x <= Max(S)
<1>1. Cardinality(S) \in Nat /\ ExistsBijection(1..Cardinality(S), S)
  BY FS_CardinalityType
<1>2. PICK f \in Bijection(1..Cardinality(S), S) : TRUE
  BY <1>1 DEF ExistsBijection
<1>3. f \in [1..Cardinality(S) -> S] /\ \A x \in S : \E i \in 1..Cardinality(S) : f[i] = x
  BY <1>2 DEF Bijection, Injection, Surjection
<1>4. f \in [1..Cardinality(S) -> Int]
  BY <1>3
<1>5. Cardinality(S) \in 1..Cardinality(S)
  BY <1>1, FS_EmptySet
<1>6. PICK i \in 1..Cardinality(S) : \A j \in 1..Cardinality(S) : f[j] <= f[i]
  BY <1>1, <1>4, <1>5, GreatestOf
<1>7. f[i] \in S /\ \A x \in S : f[i] >= x
  BY <1>3, <1>4, <1>6
<1>8. \E x \in S : \A y \in S : x >= y
  BY <1>7
<1>9. Max(S) \in S /\ \A y \in S : Max(S) >= y
  BY <1>8 DEF Max
<1> QED BY <1>9

LEMMA MinOfTwo ==
  ASSUME NEW a \in Int, NEW b \in Int
  PROVE  Min({a, b}) = IF a <= b THEN a ELSE b
BY DEF Min

-----------------------------------------------------------------------------
(* The text of a batch *)

\* The recursive function by which MergeChunkContents is defined exists.
LEMMA MergedExists ==
  ASSUME NEW ids, Len(ids) \in Nat
  PROVE  \E merged : /\ merged = [i \in 0..Len(ids) |->
                            IF i = 0 THEN <<>> ELSE merged[i - 1] \o Content(ids[i], FromOf(ids, i))]
                     /\ MergeChunkContents(ids) = merged[Len(ids)]
<1> DEFINE Step(s, i) == s \o Content(ids[i], FromOf(ids, i))
           Fits(f, n) == f = [i \in 0..n |-> IF i = 0 THEN <<>> ELSE Step(f[i - 1], i)]
           S == {n \in Nat : \E f : Fits(f, n)}
<1>1. 0 \in S
  <2> DEFINE f == [i \in 0..0 |-> <<>>]
  <2>1. Fits(f, 0)
    OBVIOUS
  <2> QED BY <2>1
<1>2. \A n \in Nat : n \in S => n + 1 \in S
  <2> SUFFICES ASSUME NEW n \in Nat, n \in S PROVE n + 1 \in S
    OBVIOUS
  <2>1. PICK f : Fits(f, n)
    OBVIOUS
  <2> DEFINE g == [i \in 0..(n + 1) |-> IF i <= n THEN f[i] ELSE Step(f[n], n + 1)]
  <2> HIDE DEF Step
  <2>2. \A i \in 0..(n + 1) : g[i] = IF i = 0 THEN <<>> ELSE Step(g[i - 1], i)
    <3> SUFFICES ASSUME NEW i \in 0..(n + 1)
                 PROVE  g[i] = IF i = 0 THEN <<>> ELSE Step(g[i - 1], i)
      OBVIOUS
    <3>1. CASE i = 0
      BY <2>1, <3>1
    <3>2. CASE i \in 1..n
      <4>1. i - 1 \in 0..(n + 1) /\ i - 1 <= n /\ i \in 0..n /\ i # 0
        BY <3>2
      <4>2. g[i] = f[i] /\ g[i - 1] = f[i - 1]
        BY <3>2, <4>1
      <4>3. f[i] = Step(f[i - 1], i)
        BY <2>1, <4>1
      <4> QED BY <4>1, <4>2, <4>3
    <3>3. CASE i = n + 1
      <4>1. i - 1 = n /\ ~ (i <= n) /\ n \in 0..(n + 1) /\ i # 0
        BY <3>3
      <4>2. g[i] = Step(f[n], n + 1) /\ g[i - 1] = f[n]
        BY <3>3, <4>1
      <4> QED BY <3>3, <4>1, <4>2
    <3> QED BY <3>1, <3>2, <3>3
  <2>3. Fits(g, n + 1)
    <3>1. g = [i \in 0..(n + 1) |-> g[i]]
      OBVIOUS
    <3> HIDE DEF g
    <3> QED BY <2>2, <3>1
  <2>4. n + 1 \in Nat
    OBVIOUS
  <2> HIDE DEF g, Fits
  <2> QED BY <2>3, <2>4
<1>3. Len(ids) \in S
  <2> HIDE DEF S
  <2> QED BY <1>1, <1>2, Upward
<1>4. PICK f : Fits(f, Len(ids))
  BY <1>3
<1>5. \E merged : merged = [i \in 0..Len(ids) |->
          IF i = 0 THEN <<>> ELSE merged[i - 1] \o Content(ids[i], FromOf(ids, i))]
  BY <1>4
<1> QED BY <1>5 DEF MergeChunkContents

LEMMA ContentIs ==
  ASSUME NEW c \in Chunks, NEW f \in Int
  PROVE  /\ Window[c].from \in Int /\ Window[c].upto \in Int
         /\ Content(c, f) \in Seq(Int)
         /\ Len(Content(c, f)) = IF f <= Window[c].upto THEN Window[c].upto - f ELSE 0
         /\ \A n \in 1..Len(Content(c, f)) : Content(c, f)[n] = f + n
         /\ ToSet(Content(c, f)) = (f + 1)..Window[c].upto
<1>1. Window[c].from \in Int /\ Window[c].upto \in Int
  BY GraphInputs
<1> DEFINE u == Window[c].upto
           N == IF f <= u THEN u - f ELSE 0
           s == [n \in 1..(u - f) |-> f + n]
<1>2. N \in Nat /\ 1..(u - f) = 1..N
  BY <1>1
<1>3. s \in [1..N -> Int]
  BY <1>1, <1>2
<1>4. s \in Seq(Int) /\ Len(s) = N /\ DOMAIN s = 1..N
  <2> HIDE DEF s, N
  <2> QED BY <1>2, <1>3
<1>5. \A n \in 1..N : s[n] = f + n
  BY <1>2
<1>6. ToSet(s) = (f + 1)..u
  <2>1. ASSUME NEW x \in ToSet(s) PROVE x \in (f + 1)..u
    <3>1. PICK n \in 1..N : x = s[n]
      BY <1>4 DEF ToSet
    <3>2. x = f + n
      BY <1>5, <3>1
    <3> QED BY <1>1, <1>2, <3>2
  <2>2. ASSUME NEW x \in (f + 1)..u PROVE x \in ToSet(s)
    <3>1. x - f \in 1..N /\ f + (x - f) = x
      BY <1>1
    <3>2. s[x - f] = x /\ x - f \in DOMAIN s
      BY <1>2, <1>5, <3>1
    <3> QED BY <3>2 DEF ToSet
  <2> HIDE DEF s, u
  <2> QED BY <2>1, <2>2
<1>7. Content(c, f) = s
  BY DEF Content
<1> HIDE DEF s
<1> QED BY <1>1, <1>2, <1>4, <1>5, <1>6, <1>7

\* The windows of the chunks of a batch follow each other.
Follow(ids) ==
    \A i \in 1..(Len(ids) - 1) : /\ Window[ids[i]].from <= Window[ids[i + 1]].from
                                 /\ Window[ids[i]].upto <= Window[ids[i + 1]].upto

\* The text of the first n chunks.
Reads(text, ids, n) ==
    /\ text \in Seq(Int)
    /\ \A i \in 1..(Len(text) - 1) : text[i] < text[i + 1]
    /\ \A i \in 1..Len(text) : n > 0 /\ text[i] <= Window[ids[n]].upto
    /\ ToSet(text) = UNION {(Window[ids[i]].from + 1)..Window[ids[i]].upto : i \in 1..n}

LEMMA ToSetOfConcat ==
  ASSUME NEW S, NEW s \in Seq(S), NEW t \in Seq(S)
  PROVE  ToSet(s \o t) = ToSet(s) \union ToSet(t)
<1>1. \A x \in ToSet(s \o t) : x \in ToSet(s) \union ToSet(t)
  <2> SUFFICES ASSUME NEW i \in 1..(Len(s) + Len(t)) PROVE (s \o t)[i] \in ToSet(s) \union ToSet(t)
    BY DEF ToSet
  <2>1. CASE i \in 1..Len(s)
    BY <2>1 DEF ToSet
  <2>2. CASE i \notin 1..Len(s)
    <3>1. i - Len(s) \in 1..Len(t) /\ (s \o t)[i] = t[i - Len(s)]
      BY <2>2
    <3> QED BY <3>1 DEF ToSet
  <2> QED BY <2>1, <2>2
<1>2. \A i \in 1..Len(s) : s[i] \in ToSet(s \o t)
  <2> SUFFICES ASSUME NEW i \in 1..Len(s) PROVE s[i] \in ToSet(s \o t)
    OBVIOUS
  <2>1. i \in 1..Len(s \o t) /\ (s \o t)[i] = s[i]
    OBVIOUS
  <2> QED BY <2>1 DEF ToSet
<1>3. \A i \in 1..Len(t) : t[i] \in ToSet(s \o t)
  <2> SUFFICES ASSUME NEW i \in 1..Len(t) PROVE t[i] \in ToSet(s \o t)
    OBVIOUS
  <2>1. Len(s) + i \in 1..Len(s \o t) /\ (s \o t)[Len(s) + i] = t[i]
    OBVIOUS
  <2> QED BY <2>1 DEF ToSet
<1>4. ToSet(s) = {s[i] : i \in 1..Len(s)} /\ ToSet(t) = {t[i] : i \in 1..Len(t)}
  BY DEF ToSet
<1>5. ToSet(s) \union ToSet(t) \subseteq ToSet(s \o t)
  BY <1>2, <1>3, <1>4
<1> QED BY <1>1, <1>5

LEMMA ReadsOn ==
  ASSUME NEW ids \in Seq(Chunks), Follow(ids), NEW n \in 0..(Len(ids) - 1),
         NEW text, Reads(text, ids, n)
  PROVE  Reads(text \o Content(ids[n + 1], FromOf(ids, n + 1)), ids, n + 1)
<1> DEFINE c == ids[n + 1]
           f == FromOf(ids, n + 1)
           t == Content(c, f)
           W(i) == (Window[ids[i]].from + 1)..Window[ids[i]].upto
<1>1. Len(ids) \in Nat /\ n + 1 \in 1..Len(ids) /\ c \in Chunks /\ \A i \in 1..Len(ids) : ids[i] \in Chunks
  OBVIOUS
<1>2. \A i \in 1..Len(ids) : Window[ids[i]].from \in Int /\ Window[ids[i]].upto \in Int
  BY <1>1, GraphInputs
<1>3. CASE n = 0
  <2>1. f = Window[c].from
    BY <1>3 DEF FromOf
  <2>2. f \in Int
    BY <1>1, <1>2, <2>1
  <2>3. /\ t \in Seq(Int) /\ \A i \in 1..Len(t) : t[i] = f + i
        /\ Len(t) = IF f <= Window[c].upto THEN Window[c].upto - f ELSE 0
        /\ ToSet(t) = (f + 1)..Window[c].upto
    BY <1>1, <2>2, ContentIs
  <2>4. text = <<>>
    BY <1>3 DEF Reads
  <2>5. text \o t = t
    <3> HIDE DEF t
    <3> QED BY <2>3, <2>4
  <2>6. UNION {W(i) : i \in 1..1} = W(1)
    <3>1. 1..1 = {1}
      OBVIOUS
    <3> HIDE DEF W
    <3> QED BY <3>1
  <2>7. ToSet(t) = UNION {W(i) : i \in 1..(n + 1)}
    <3>1. W(1) = (f + 1)..Window[c].upto
      BY <1>3, <2>1
    <3>2. n + 1 = 1
      BY <1>3
    <3> HIDE DEF W, t, f, c
    <3> QED BY <2>3, <2>6, <3>1, <3>2
  <2> DEFINE u == Window[c].upto
  <2>8. u \in Int
    BY <1>1, <1>2
  <2>9. Len(t) \in Nat
    <3> HIDE DEF t
    <3> QED BY <2>3
  <2>10. \A i \in 1..Len(t) : t[i] <= u
    <3> SUFFICES ASSUME NEW i \in 1..Len(t) PROVE t[i] <= u
      OBVIOUS
    <3>1. t[i] = f + i /\ i <= Len(t) /\ i >= 1 /\ i \in Int
      BY <2>3, <2>9
    <3>2. Len(t) = IF f <= u THEN u - f ELSE 0
      BY <2>3
    <3> HIDE DEF t, f, u
    <3> QED BY <2>2, <2>8, <2>9, <3>1, <3>2
  <2>11. \A i \in 1..(Len(t) - 1) : t[i] < t[i + 1]
    <3> SUFFICES ASSUME NEW i \in 1..(Len(t) - 1) PROVE t[i] < t[i + 1]
      OBVIOUS
    <3>1. i \in 1..Len(t) /\ i + 1 \in 1..Len(t) /\ i \in Int
      BY <2>9
    <3>2. t[i] = f + i /\ t[i + 1] = f + (i + 1)
      BY <2>3, <3>1
    <3> HIDE DEF t, f
    <3> QED BY <2>2, <3>1, <3>2
  <2>12. t \in Seq(Int) /\ n + 1 > 0
    BY <2>3
  <2>13. Reads(t, ids, n + 1)
    <3> HIDE DEF t
    <3> QED BY <2>7, <2>10, <2>11, <2>12 DEF Reads
  <2> QED BY <2>5, <2>13
<1>4. CASE n # 0
  <2> DEFINE b == Window[ids[n]].upto
             u == Window[c].upto
             w == Window[c].from
  <2>1. n \in 1..(Len(ids) - 1) /\ n \in 1..Len(ids) /\ (n + 1) - 1 = n
    BY <1>4
  <2>2. b \in Int /\ u \in Int /\ w \in Int /\ b <= u
    BY <1>1, <1>2, <2>1 DEF Follow
  <2>3. f = IF b > w THEN b ELSE w
    BY <2>1 DEF FromOf
  <2>4. f \in Int /\ f >= b
    BY <2>2, <2>3
  <2>5. /\ t \in Seq(Int) /\ \A i \in 1..Len(t) : t[i] = f + i
        /\ Len(t) = IF f <= u THEN u - f ELSE 0
        /\ ToSet(t) = (f + 1)..u
    BY <1>1, <2>4, ContentIs
  <2>6. text \in Seq(Int) /\ \A i \in 1..Len(text) : text[i] \in Int /\ text[i] <= b
    BY DEF Reads
  <2> HIDE DEF t, f, b, u, w
  <2>7. text \o t \in Seq(Int) /\ Len(text \o t) = Len(text) + Len(t)
    BY <2>5, <2>6
  <2>8. \A i \in 1..Len(text) : (text \o t)[i] = text[i]
    BY <2>5, <2>6
  <2>9. \A i \in 1..Len(t) : (text \o t)[Len(text) + i] = f + i
    BY <2>5, <2>6
  <2>10. ASSUME NEW i \in 1..(Len(text \o t) - 1) PROVE (text \o t)[i] < (text \o t)[i + 1]
    <3>1. CASE i < Len(text)
      <4>1. text[i] < text[i + 1]
        BY <2>6, <3>1 DEF Reads
      <4>2. i \in 1..Len(text) /\ i + 1 \in 1..Len(text)
        BY <2>6, <2>7, <3>1
      <4> QED BY <2>8, <4>1, <4>2
    <3>2. CASE i = Len(text)
      <4>1. i \in 1..Len(text) /\ 1 \in 1..Len(t)
        BY <2>5, <2>6, <2>7, <3>2
      <4>2. (text \o t)[i] <= b /\ (text \o t)[i] \in Int /\ (text \o t)[i + 1] = f + 1
        BY <2>6, <2>8, <2>9, <3>2, <4>1
      <4> QED BY SMTT(30), <2>2, <2>4, <4>2
    <3>3. CASE i > Len(text)
      <4>1. PICK k \in 1..Len(t) : i = Len(text) + k /\ k + 1 \in 1..Len(t)
        <5>1. i - Len(text) \in 1..Len(t) /\ (i - Len(text)) + 1 \in 1..Len(t) /\ i = Len(text) + (i - Len(text))
          BY SMTT(30), <2>5, <2>6, <2>7, <3>3
        <5> QED BY <5>1
      <4>2. i + 1 = Len(text) + (k + 1)
        BY <2>6, <4>1
      <4>3. (text \o t)[i] = f + k /\ (text \o t)[i + 1] = f + (k + 1)
        BY <2>9, <4>1, <4>2
      <4> QED BY <2>4, <4>3
    <3>4. Len(text) \in Nat /\ i \in Int
      BY <2>6
    <3> QED BY <3>1, <3>2, <3>3, <3>4
  <2>11. ASSUME NEW i \in 1..Len(text \o t) PROVE (text \o t)[i] <= u
    <3>1. CASE i \in 1..Len(text)
      <4>1. (text \o t)[i] \in Int /\ (text \o t)[i] <= b
        BY <2>6, <2>8, <3>1
      <4> QED BY <2>2, <4>1
    <3>2. CASE i \notin 1..Len(text)
      <4>1. i - Len(text) \in 1..Len(t) /\ i = Len(text) + (i - Len(text))
        BY <2>5, <2>6, <2>7, <3>2
      <4>2. (text \o t)[i] = f + (i - Len(text))
        BY <2>9, <4>1
      <4> QED BY <2>2, <2>4, <2>5, <4>1, <4>2
    <3> QED BY <3>1, <3>2
  <2>12. ToSet(text \o t) = ToSet(text) \union ToSet(t)
    <3>1. text \in Seq(Int) /\ t \in Seq(Int)
      BY <2>5, <2>6
    <3> QED BY <3>1, ToSetOfConcat
  <2> DEFINE Upto(m) == UNION {W(i) : i \in 1..m}
  <2>13. Upto(n + 1) = Upto(n) \union W(n + 1)
    <3>1. \A i : i \in 1..(n + 1) <=> i \in 1..n \/ i = n + 1
      OBVIOUS
    <3> HIDE DEF W
    <3>2. \A x : x \in Upto(n + 1) <=> \E i \in 1..(n + 1) : x \in W(i)
      OBVIOUS
    <3>3. \A x : x \in Upto(n) <=> \E i \in 1..n : x \in W(i)
      OBVIOUS
    <3>4. \A x : x \in Upto(n + 1) <=> x \in Upto(n) \/ x \in W(n + 1)
      BY <3>1, <3>2, <3>3
    <3> HIDE DEF Upto
    <3> QED BY <3>4
  <2>14. W(n + 1) \ W(n) \subseteq ToSet(t) /\ ToSet(t) \subseteq W(n + 1)
    <3>1. W(n + 1) = (w + 1)..u
      BY DEF w, u
    <3>2. Window[ids[n]].from \in Int /\ Window[ids[n]].from <= w
      BY <1>2, <2>1 DEF Follow, w
    <3>3. \A x \in (w + 1)..b : x \in W(n)
      BY <2>2, <3>2 DEF b
    <3> HIDE DEF W
    <3>4. \A x \in (w + 1)..u : x \in (w + 1)..b \/ x \in (f + 1)..u
      BY <2>2, <2>3
    <3>5. \A x \in (f + 1)..u : x \in (w + 1)..u
      BY <2>2, <2>3
    <3> QED BY <2>5, <3>1, <3>3, <3>4, <3>5
  <2>15. W(n) \subseteq Upto(n)
    BY <2>1
  <2>16. ToSet(text) = Upto(n)
    BY DEF Reads
  <2>17. ToSet(text \o t) = Upto(n + 1)
    <3> HIDE DEF W, Upto
    <3> QED BY <2>12, <2>13, <2>14, <2>15, <2>16
  <2>18. n + 1 > 0
    OBVIOUS
  <2> QED BY <2>7, <2>10, <2>11, <2>17, <2>18 DEF Reads, t, u, f
<1> QED BY <1>3, <1>4

LEMMA BatchText ==
  ASSUME NEW ids \in Seq(Chunks), Follow(ids)
  PROVE  Reads(MergeChunkContents(ids), ids, Len(ids))
<1> DEFINE N == Len(ids)
<1>1. N \in Nat
  OBVIOUS
<1>2. PICK merged : /\ merged = [i \in 0..Len(ids) |->
                        IF i = 0 THEN <<>> ELSE merged[i - 1] \o Content(ids[i], FromOf(ids, i))]
                    /\ MergeChunkContents(ids) = merged[Len(ids)]
  BY <1>1, MergedExists
<1>3. \A i \in 0..N : merged[i] = IF i = 0 THEN <<>> ELSE merged[i - 1] \o Content(ids[i], FromOf(ids, i))
  BY <1>2
<1> DEFINE S == {n \in 0..N : Reads(merged[n], ids, n)}
<1>4. 0 \in S
  <2>1. merged[0] = <<>>
    BY <1>1, <1>3
  <2>2. Reads(<<>>, ids, 0)
    <3>1. ToSet(<<>>) = {}
      BY DEF ToSet
    <3>2. UNION {(Window[ids[i]].from + 1)..Window[ids[i]].upto : i \in 1..0} = {}
      OBVIOUS
    <3>3. <<>> \in Seq(Int) /\ Len(<<>>) = 0
      OBVIOUS
    <3> QED BY <3>1, <3>2, <3>3 DEF Reads
  <2> QED BY <1>1, <2>1, <2>2
<1>5. ASSUME NEW n \in 0..(N - 1), n \in S PROVE n + 1 \in S
  <2>1. Reads(merged[n], ids, n)
    BY <1>5
  <2>2. n + 1 \in 0..N /\ n + 1 # 0 /\ (n + 1) - 1 = n
    BY <1>1
  <2>3. merged[n + 1] = merged[n] \o Content(ids[n + 1], FromOf(ids, n + 1))
    BY <1>3, <2>2
  <2>4. Reads(merged[n] \o Content(ids[n + 1], FromOf(ids, n + 1)), ids, n + 1)
    BY <2>1, ReadsOn
  <2> QED BY <2>2, <2>3, <2>4
<1>6. 0..N \subseteq S
  <2> HIDE DEF S, N
  <2> QED BY <1>1, <1>4, <1>5, UpTo
<1>7. N \in S
  <2>1. N \in 0..N
    BY <1>1
  <2> HIDE DEF S, N
  <2> QED BY <1>6, <2>1
<1> QED BY <1>2, <1>7

-----------------------------------------------------------------------------
(* The entities of an answer *)

LEMMA AddEntitiesKeeps ==
  ASSUME NEW map, AreEntities(map), NEW chunk \in Chunks,
         NEW answer, answer \in Seq(ToSet(answer)),
         NEW new, new = AddEntities(map, answer, chunk)
  PROVE  /\ DOMAIN new = DOMAIN map \union (ToSet(answer) \ {NoTitle})
         /\ AreEntities(new)
         /\ \A t \in DOMAIN map : map[t].chunks \subseteq new[t].chunks
         /\ \A t \in ToSet(answer) \ {NoTitle} : chunk \in new[t].chunks
<1> DEFINE titles == ToSet(answer) \ {NoTitle}
           Was(t) == IF t \in DOMAIN map THEN map[t] ELSE [chunks |-> {}, freq |-> 0, degree |-> 0]
           Places(t) == {n \in DOMAIN answer : answer[n] = t}
           Times(t) == Cardinality(Places(t))
<1>1. new = [t \in DOMAIN map \union titles |->
                IF t \in titles
                THEN [Was(t) EXCEPT !.chunks = @ \union {chunk}, !.freq = @ + Times(t)]
                ELSE map[t]]
  BY DEF AddEntities
<1>2. ASSUME NEW t PROVE /\ Was(t) \in Entities /\ IsFiniteSet(Was(t).chunks)
                         /\ Was(t).freq >= Cardinality(Was(t).chunks)
  <2>1. CASE t \in DOMAIN map
    BY <2>1 DEF AreEntities
  <2>2. CASE t \notin DOMAIN map
    <3>1. Was(t) = [chunks |-> {}, freq |-> 0, degree |-> 0]
      BY <2>2
    <3>2. IsFiniteSet({}) /\ Cardinality({}) = 0
      BY FS_EmptySet
    <3>3. Was(t).chunks = {} /\ Was(t).freq = 0
      BY <3>1
    <3>4. Was(t) \in Entities
      BY <3>1 DEF Entities
    <3> HIDE DEF Was
    <3> QED BY <3>2, <3>3, <3>4
  <2> QED BY <2>1, <2>2
<1>3. ASSUME NEW t \in titles PROVE Times(t) \in Nat /\ Times(t) >= 1
  <2>1. Len(answer) \in Nat /\ DOMAIN answer = 1..Len(answer)
    OBVIOUS
  <2>2. Places(t) \in SUBSET (1..Len(answer)) /\ Places(t) # {}
    BY <2>1 DEF ToSet
  <2>3. IsFiniteSet(1..Len(answer))
    BY <2>1, FS_Interval
  <2> HIDE DEF Places
  <2>4. IsFiniteSet(Places(t))
    BY <2>2, <2>3, FS_Subset
  <2>5. Cardinality(Places(t)) \in Nat /\ Cardinality(Places(t)) # 0
    BY <2>2, <2>4, FS_CardinalityType, FS_EmptySet
  <2> QED BY <2>5
<1> HIDE DEF titles, Was, Times
<1>4. ASSUME NEW t \in titles
      PROVE  /\ new[t] \in Entities /\ IsFiniteSet(new[t].chunks)
             /\ new[t].freq >= Cardinality(new[t].chunks)
             /\ new[t].chunks = Was(t).chunks \union {chunk}
  <2>1. new[t] = [Was(t) EXCEPT !.chunks = @ \union {chunk}, !.freq = @ + Times(t)]
    BY <1>1
  <2>2. Times(t) \in Nat /\ Times(t) >= 1
    BY <1>3
  <2>3. Was(t) \in Entities /\ IsFiniteSet(Was(t).chunks) /\ Was(t).freq >= Cardinality(Was(t).chunks)
    BY <1>2
  <2>4. /\ new[t].chunks = Was(t).chunks \union {chunk}
        /\ new[t].freq = Was(t).freq + Times(t) /\ new[t] \in Entities
    <3>1. new[t] = [chunks |-> Was(t).chunks \union {chunk}, freq |-> Was(t).freq + Times(t),
                    degree |-> Was(t).degree]
      BY <2>1, <2>3 DEF Entities
    <3>2. Was(t).chunks \in SUBSET Chunks /\ Was(t).freq \in Nat /\ Was(t).degree \in Nat
      BY <2>3 DEF Entities
    <3>3. Was(t).chunks \union {chunk} \in SUBSET Chunks /\ Was(t).freq + Times(t) \in Nat
      BY <2>2, <3>2
    <3> QED BY <3>1, <3>2, <3>3 DEF Entities
  <2>5. /\ IsFiniteSet(Was(t).chunks \union {chunk})
        /\ Cardinality(Was(t).chunks) \in Nat
        /\ Cardinality(Was(t).chunks \union {chunk}) <= Cardinality(Was(t).chunks) + 1
    <3>1. IsFiniteSet(Was(t).chunks)
      BY <2>3
    <3>2. Cardinality(Was(t).chunks) \in Nat
      BY <3>1, FS_CardinalityType
    <3>3. /\ IsFiniteSet(Was(t).chunks \union {chunk})
          /\ Cardinality(Was(t).chunks \union {chunk})
               = IF chunk \in Was(t).chunks THEN Cardinality(Was(t).chunks) ELSE Cardinality(Was(t).chunks) + 1
      BY <3>1, FS_AddElement
    <3> QED BY <3>2, <3>3
  <2>6. Cardinality(Was(t).chunks \union {chunk}) \in Nat
    BY <2>5, FS_CardinalityType
  <2>7. Was(t).freq \in Nat
    BY <2>3 DEF Entities
  <2>8. Was(t).freq + Times(t) >= Cardinality(Was(t).chunks \union {chunk})
    BY <2>2, <2>3, <2>5, <2>6, <2>7
  <2> QED BY <2>4, <2>5, <2>8
<1>5. ASSUME NEW t \in DOMAIN map, t \notin titles PROVE new[t] = map[t]
  BY <1>1, <1>5
<1>6. DOMAIN new = DOMAIN map \union titles
  BY <1>1
<1>7. AreEntities(new)
  BY <1>4, <1>5, <1>6 DEF AreEntities
<1>8. ASSUME NEW t \in DOMAIN map PROVE map[t].chunks \subseteq new[t].chunks
  <2>1. CASE t \in titles
    BY <1>4, <2>1 DEF Was
  <2>2. CASE t \notin titles
    BY <1>5, <2>2
  <2> QED BY <2>1, <2>2
<1>9. \A t \in titles : chunk \in new[t].chunks
  BY <1>4
<1> QED BY <1>6, <1>7, <1>8, <1>9 DEF titles

-----------------------------------------------------------------------------
(* The relations of an answer *)

\* What is in one map is in the other, with all its chunks.
Extends(map, new) ==
    /\ DOMAIN map \subseteq DOMAIN new
    /\ \A key \in DOMAIN map : map[key].chunks \subseteq new[key].chunks

\* Titles without a "#" can be told from their key.
LEMMA SeparatorTellsApart ==
  ASSUME NEW S, NEW s \in Seq(S), NEW t \in Seq(S), NEW u \in Seq(S), NEW v \in Seq(S),
         NEW m \in S, m \notin ToSet(s) \union ToSet(t),
         s \o <<m>> \o t = u \o <<m>> \o v
  PROVE  s = u /\ t = v
<1> DEFINE x == s \o <<m>> \o t
           y == u \o <<m>> \o v
           p == Len(s)
           q == Len(u)
<1>1. /\ p \in Nat /\ q \in Nat /\ Len(t) \in Nat /\ Len(v) \in Nat
      /\ Len(x) = p + 1 + Len(t) /\ Len(y) = q + 1 + Len(v)
  OBVIOUS
<1>2. /\ \A i \in 1..p : x[i] = s[i]
      /\ x[p + 1] = m
      /\ \A i \in 1..Len(t) : x[p + 1 + i] = t[i]
  OBVIOUS
<1>3. /\ \A i \in 1..q : y[i] = u[i]
      /\ y[q + 1] = m
      /\ \A i \in 1..Len(v) : y[q + 1 + i] = v[i]
  OBVIOUS
<1>4. /\ \A i \in 1..p : s[i] # m
      /\ \A i \in 1..Len(t) : t[i] # m
  BY DEF ToSet
<1> HIDE DEF x, y
<1>5. x = y
  BY DEF x, y
<1>6. p = q
  <2>1. CASE q < p
    <3>1. q + 1 \in 1..p
      BY <1>1, <2>1
    <3> QED BY <1>2, <1>3, <1>4, <1>5, <3>1
  <2>2. CASE p < q
    <3> DEFINE i == q - p
    <3>1. i \in 1..Len(t) /\ p + 1 + i = q + 1
      BY <1>1, <1>5, <2>2
    <3> HIDE DEF i
    <3> QED BY <1>2, <1>3, <1>4, <1>5, <3>1
  <2> QED BY <1>1, <2>1, <2>2
<1>7. Len(t) = Len(v)
  BY <1>1, <1>5, <1>6
<1>8. \A i \in 1..p : s[i] = u[i]
  BY <1>2, <1>3, <1>5, <1>6
<1>9. \A i \in 1..Len(t) : t[i] = v[i]
  BY <1>2, <1>3, <1>5, <1>6, <1>7
<1>10. s = u
  BY <1>6, <1>8
<1>11. t = v
  <2>1. t \in Seq(S) /\ v \in Seq(S)
    OBVIOUS
  <2> HIDE DEF p, q
  <2> QED BY ONLY <1>7, <1>9, <2>1
<1> QED BY <1>10, <1>11

LEMMA KeyTellsApart ==
  ASSUME NEW e, IsEnds(e), NEW f, IsEnds(f), Key(e) = Key(f), Plain(e)
  PROVE  e = f
<1> DEFINE S == ToSet(e[1]) \union ToSet(e[2]) \union ToSet(f[1]) \union ToSet(f[2]) \union {"#"}
<1>1. "#" \in S /\ "#" \notin ToSet(e[1]) \union ToSet(e[2])
  BY DEF Plain
<1>2. e[1] \in Seq(S) /\ e[2] \in Seq(S) /\ f[1] \in Seq(S) /\ f[2] \in Seq(S)
  <2>1. /\ e[1] \in Seq(ToSet(e[1])) /\ e[2] \in Seq(ToSet(e[2]))
        /\ f[1] \in Seq(ToSet(f[1])) /\ f[2] \in Seq(ToSet(f[2]))
    BY DEF IsEnds, IsTitle
  <2>2. /\ ToSet(e[1]) \subseteq S /\ ToSet(e[2]) \subseteq S
        /\ ToSet(f[1]) \subseteq S /\ ToSet(f[2]) \subseteq S
    OBVIOUS
  <2> HIDE DEF S
  <2> QED BY <2>1, <2>2
<1> HIDE DEF S
<1> DEFINE m == "#"
<1>3. /\ m \in S /\ m \notin ToSet(e[1]) \union ToSet(e[2])
      /\ e[1] \o <<m>> \o e[2] = f[1] \o <<m>> \o f[2]
  BY <1>1 DEF Key
<1> HIDE DEF m
<1>4. e[1] = f[1] /\ e[2] = f[2]
  <2> DEFINE s == e[1]
             t == e[2]
             u == f[1]
             v == f[2]
  <2>1. s \in Seq(S) /\ t \in Seq(S) /\ u \in Seq(S) /\ v \in Seq(S)
    BY <1>2
  <2>2. m \in S /\ m \notin ToSet(s) \union ToSet(t)
    BY <1>3
  <2>3. s \o <<m>> \o t = u \o <<m>> \o v
    BY <1>3
  <2>4. s = u /\ t = v
    <3> HIDE DEF s, t, u, v
    <3> QED BY ONLY <2>1, <2>2, <2>3, SeparatorTellsApart
  <2> QED BY <2>4
<1> QED BY <1>4 DEF IsEnds

\* A relation is stored with its own key, and as itself when its titles, or those of the
\* one that is stored, have no "#".
LEMMA StoredWithKey ==
  ASSUME NEW map, AreRelations(map), NEW ends, IsEnds(ends),
         NEW key, key = StoredAs(map, ends)
  PROVE  /\ IsEnds(key) /\ Key(key) = Key(ends)
         /\ Plain(ends) => key = ends
         /\ Plain(key) => key = ends
<1> DEFINE same == {q \in DOMAIN map : Key(q) = Key(ends)}
<1>1. key = IF same = {} THEN ends ELSE CHOOSE q \in same : TRUE
  BY DEF StoredAs
<1>2. CASE same = {}
  BY <1>1, <1>2
<1>3. CASE same # {}
  <2>1. key \in same
    BY <1>1, <1>3
  <2>2. IsEnds(key) /\ Key(key) = Key(ends)
    BY <2>1 DEF AreRelations
  <2> QED BY <2>2, KeyTellsApart
<1> QED BY <1>2, <1>3

LEMMA AverageIsInt ==
  ASSUME NEW a \in Int, NEW b \in Int, NEW n \in Nat
  PROVE  (a * n + b) \div (n + 1) \in Int
<1>1. a * n \in Int
  OBVIOUS
<1> DEFINE x == a * n
<1> HIDE DEF x
<1>2. x + b \in Int /\ n + 1 \in Nat \ {0}
  BY <1>1 DEF x
<1> DEFINE y == x + b
           m == n + 1
<1> HIDE DEF y, m
<1>3. y \div m \in Int
  BY <1>2 DEF y, m
<1> QED BY <1>3 DEF x, y, m

LEMMA AddRelationKeeps ==
  ASSUME NEW map, AreRelations(map), NEW rel, rel.strength \in Int,
         IsTitle(rel.source), IsTitle(rel.target),
         NEW ids, ids \in SUBSET Chunks, IsFiniteSet(ids),
         ids \subseteq ChunksOfEnds(<<rel.source, rel.target>>),
         NEW new, new = AddRelation(map, rel, ids)
  PROVE  /\ AreRelations(new) /\ Extends(map, new)
         /\ ids # {} => HasRelation(new, <<rel.source, rel.target>>, ids)
<1> DEFINE ends == <<rel.source, rel.target>>
           key == StoredAs(map, ends)
           all == map[key].chunks \union ids
           n == Cardinality(all)
           avg == (map[key].strength * n + rel.strength) \div (n + 1)
<1>0. /\ IsEnds(key) /\ Key(key) = Key(ends)
      /\ Plain(ends) => key = ends
      /\ Plain(key) => key = ends
  <2>1. IsEnds(ends)
    BY DEF IsEnds
  <2> HIDE DEF ends
  <2> QED BY <2>1, StoredWithKey
<1> HIDE DEF ends
<1>1. CASE ids = {}
  <2>1. new = map
    BY <1>1 DEF AddRelation
  <2> QED BY <1>1, <2>1 DEF Extends
<1>2. CASE ids # {} /\ key \in DOMAIN map
  <2>1. new = [map EXCEPT ![key].chunks = all,
                          ![key].strength = (@ * n + rel.strength) \div (n + 1)]
    BY <1>2 DEF AddRelation, ends
  <2>2. /\ map[key] \in Relations /\ IsFiniteSet(map[key].chunks)
        /\ Plain(key) => map[key].chunks \subseteq ChunksOfEnds(key)
    BY <1>2 DEF AreRelations
  <2> HIDE DEF key
  <2>3. DOMAIN new = DOMAIN map /\ \A k \in DOMAIN map : k # key => new[k] = map[k]
    BY <2>1
  <2>4. new[key] = [chunks |-> all, strength |-> avg, weight |-> map[key].weight, degree |-> map[key].degree]
    BY <1>2, <2>1, <2>2 DEF Relations
  <2>5. IsFiniteSet(all)
    BY <2>2, FS_Union
  <2>6. n \in Nat
    BY <2>5, FS_CardinalityType
  <2>7. /\ map[key].chunks \in SUBSET Chunks /\ map[key].strength \in Int
        /\ map[key].weight \in Int /\ map[key].degree \in Int
    BY <2>2 DEF Relations
  <2>8. avg \in Int
    <3> HIDE DEF n
    <3> QED BY <2>6, <2>7, AverageIsInt
  <2>9. all \in SUBSET Chunks /\ (Plain(key) => all \subseteq ChunksOfEnds(key))
    BY <1>0, <2>2, <2>7 DEF ends
  <2> HIDE DEF all, avg
  <2>10. new[key] \in Relations /\ new[key].chunks = all
    BY <2>4, <2>7, <2>8, <2>9 DEF Relations
  <2>11. AreRelations(new)
    <3>1. IsFiniteSet(DOMAIN new)
      BY <2>3 DEF AreRelations
    <3>2. ASSUME NEW k \in DOMAIN new
          PROVE  /\ IsEnds(k) /\ new[k] \in Relations /\ IsFiniteSet(new[k].chunks)
                 /\ Plain(k) => new[k].chunks \subseteq ChunksOfEnds(k)
      <4>1. CASE k = key
        BY <1>0, <2>5, <2>9, <2>10, <4>1
      <4>2. CASE k # key
        BY <2>3, <4>2 DEF AreRelations
      <4> QED BY <4>1, <4>2
    <3> QED BY <3>1, <3>2 DEF AreRelations
  <2>12. Extends(map, new)
    <3>1. map[key].chunks \subseteq new[key].chunks
      BY <2>10 DEF all
    <3> QED BY <2>3, <3>1 DEF Extends
  <2>13. HasRelation(new, ends, ids)
    <3>1. ids \subseteq new[key].chunks
      BY <2>10 DEF all
    <3> QED BY <1>0, <1>2, <2>3, <3>1 DEF HasRelation
  <2> QED BY <2>11, <2>12, <2>13 DEF ends
<1>3. CASE ids # {} /\ key \notin DOMAIN map
  <2> DEFINE added == [chunks |-> ids, strength |-> rel.strength, weight |-> 0, degree |-> 0]
  <2>1. new = [k \in DOMAIN map \union {key} |-> IF k = key THEN added ELSE map[k]]
    BY <1>3 DEF AddRelation, ends
  <2>2. added \in Relations /\ added.chunks = ids
    BY DEF Relations
  <2>3. Plain(key) => ids \subseteq ChunksOfEnds(key)
    BY <1>0 DEF ends
  <2> HIDE DEF key, added
  <2>4. DOMAIN new = DOMAIN map \union {key} /\ new[key] = added
    BY <2>1
  <2>5. \A k \in DOMAIN map : k # key /\ new[k] = map[k]
    BY <1>3, <2>1
  <2>6. AreRelations(new)
    <3>1. IsFiniteSet(DOMAIN map)
      BY DEF AreRelations
    <3>2. IsFiniteSet(DOMAIN new)
      BY <2>4, <3>1, FS_AddElement
    <3>3. ASSUME NEW k \in DOMAIN new
          PROVE  /\ IsEnds(k) /\ new[k] \in Relations /\ IsFiniteSet(new[k].chunks)
                 /\ Plain(k) => new[k].chunks \subseteq ChunksOfEnds(k)
      <4>1. CASE k = key
        BY <1>0, <2>2, <2>3, <2>4, <4>1
      <4>2. CASE k # key
        BY <2>4, <2>5, <4>2 DEF AreRelations
      <4> QED BY <4>1, <4>2
    <3> QED BY <3>2, <3>3 DEF AreRelations
  <2>7. Extends(map, new)
    BY <2>4, <2>5 DEF Extends
  <2>8. HasRelation(new, ends, ids)
    BY <1>0, <2>2, <2>4 DEF HasRelation
  <2> QED BY <2>6, <2>7, <2>8 DEF ends
<1> QED BY <1>1, <1>2, <1>3

LEMMA FindRelationChunkIDsOfEnds ==
  ASSUME AreEntities(entityMap), NEW a, NEW b, NEW titles, titles \subseteq DOMAIN entityMap,
         NEW ids, ids = FindRelationChunkIDs(a, b, titles)
  PROVE  /\ ids \in SUBSET Chunks /\ IsFiniteSet(ids)
         /\ ids \subseteq ChunksOfEnds(<<a, b>>)
<1> DEFINE T == {a, b} \intersect titles
           S == {entityMap[t].chunks : t \in T}
<1>1. ids = UNION S
  BY DEF FindRelationChunkIDs
<1>2. T \subseteq DOMAIN entityMap
  OBVIOUS
<1>3. \A t \in T : entityMap[t].chunks \in SUBSET Chunks /\ IsFiniteSet(entityMap[t].chunks)
  BY <1>2 DEF AreEntities, Entities
<1>4. IsFiniteSet(ids)
  <2> DEFINE Of(t) == IF t \in T THEN entityMap[t].chunks ELSE {}
  <2>1. IsFiniteSet(Of(a)) /\ IsFiniteSet(Of(b))
    BY <1>3, FS_EmptySet
  <2>2. UNION S = Of(a) \union Of(b)
    <3>1. \A x : x \in UNION S <=> \E t \in T : x \in entityMap[t].chunks
      OBVIOUS
    <3>2. \A t : t \in T <=> t \in T /\ (t = a \/ t = b)
      OBVIOUS
    <3> HIDE DEF S, T
    <3>3. \A x : x \in UNION S <=> x \in Of(a) \/ x \in Of(b)
      BY <3>1, <3>2
    <3> DEFINE U == UNION S
    <3>4. \A x : x \in U <=> x \in Of(a) \/ x \in Of(b)
      BY <3>3
    <3> HIDE DEF U, Of
    <3>5. U = Of(a) \union Of(b)
      BY <3>4
    <3> QED BY <3>5 DEF U
  <2> HIDE DEF Of, S
  <2>3. IsFiniteSet(Of(a) \union Of(b))
    BY ONLY <2>1, FS_Union
  <2>4. ids = Of(a) \union Of(b)
    BY <1>1, <2>2
  <2> QED BY <2>3, <2>4
<1>5. ids \in SUBSET Chunks
  BY <1>1, <1>3
<1>6. ids \subseteq ChunksOfEnds(<<a, b>>)
  <2>1. \A t \in T : t \in {<<a, b>>[1], <<a, b>>[2]} \intersect DOMAIN entityMap
    BY <1>2
  <2> HIDE DEF T
  <2> QED BY <1>1, <2>1 DEF ChunksOfEnds
<1> QED BY <1>4, <1>5, <1>6

\* The recursive function by which AddRelations is defined exists.
LEMMA AfterExists ==
  ASSUME NEW map, NEW titles, NEW answer, Len(answer) \in Nat
  PROVE  \E after :
           /\ after = [n \in 0..Len(answer) |->
                         IF n = 0 THEN map
                         ELSE AddRelation(after[n - 1], answer[n],
                                FindRelationChunkIDs(answer[n].source, answer[n].target, titles))]
           /\ AddRelations(map, answer, titles) = after[Len(answer)]
<1> DEFINE Step(m, i) == AddRelation(m, answer[i],
                             FindRelationChunkIDs(answer[i].source, answer[i].target, titles))
           Fits(f, n) == f = [i \in 0..n |-> IF i = 0 THEN map ELSE Step(f[i - 1], i)]
           S == {n \in Nat : \E f : Fits(f, n)}
<1>1. 0 \in S
  <2> DEFINE f == [i \in 0..0 |-> map]
  <2>1. Fits(f, 0)
    OBVIOUS
  <2> QED BY <2>1
<1>2. \A n \in Nat : n \in S => n + 1 \in S
  <2> SUFFICES ASSUME NEW n \in Nat, n \in S PROVE n + 1 \in S
    OBVIOUS
  <2>1. PICK f : Fits(f, n)
    OBVIOUS
  <2> DEFINE g == [i \in 0..(n + 1) |-> IF i <= n THEN f[i] ELSE Step(f[n], n + 1)]
  <2> HIDE DEF Step
  <2>2. \A i \in 0..(n + 1) : g[i] = IF i = 0 THEN map ELSE Step(g[i - 1], i)
    <3> SUFFICES ASSUME NEW i \in 0..(n + 1)
                 PROVE  g[i] = IF i = 0 THEN map ELSE Step(g[i - 1], i)
      OBVIOUS
    <3>1. CASE i = 0
      BY <2>1, <3>1
    <3>2. CASE i \in 1..n
      <4>1. i - 1 \in 0..(n + 1) /\ i - 1 <= n /\ i \in 0..n /\ i # 0
        BY <3>2
      <4>2. g[i] = f[i] /\ g[i - 1] = f[i - 1]
        BY <3>2, <4>1
      <4>3. f[i] = Step(f[i - 1], i)
        BY <2>1, <4>1
      <4> QED BY <4>1, <4>2, <4>3
    <3>3. CASE i = n + 1
      <4>1. i - 1 = n /\ ~ (i <= n) /\ n \in 0..(n + 1) /\ i # 0
        BY <3>3
      <4>2. g[i] = Step(f[n], n + 1) /\ g[i - 1] = f[n]
        BY <3>3, <4>1
      <4> QED BY <3>3, <4>1, <4>2
    <3> QED BY <3>1, <3>2, <3>3
  <2>3. Fits(g, n + 1)
    <3>1. g = [i \in 0..(n + 1) |-> g[i]]
      OBVIOUS
    <3> HIDE DEF g
    <3> QED BY <2>2, <3>1
  <2>4. n + 1 \in Nat
    OBVIOUS
  <2> HIDE DEF g, Fits
  <2> QED BY <2>3, <2>4
<1>3. Len(answer) \in S
  <2> HIDE DEF S
  <2> QED BY <1>1, <1>2, Upward
<1>4. PICK f : Fits(f, Len(answer))
  BY <1>3
<1>5. \E after : after = [n \in 0..Len(answer) |->
          IF n = 0 THEN map
          ELSE AddRelation(after[n - 1], answer[n],
                 FindRelationChunkIDs(answer[n].source, answer[n].target, titles))]
  BY <1>4
<1> QED BY <1>5 DEF AddRelations

LEMMA ExtendsFurther ==
  ASSUME NEW a, NEW b, NEW c, Extends(a, b), Extends(b, c)
  PROVE  Extends(a, c)
<1>1. ASSUME NEW key \in DOMAIN a PROVE key \in DOMAIN c /\ a[key].chunks \subseteq c[key].chunks
  BY <1>1 DEF Extends
<1> QED BY <1>1 DEF Extends

LEMMA StillHasRelation ==
  ASSUME NEW a, NEW b, Extends(a, b), NEW ends, NEW ids, HasRelation(a, ends, ids)
  PROVE  HasRelation(b, ends, ids)
<1>1. PICK key \in DOMAIN a : /\ Key(key) = Key(ends)
                              /\ Plain(ends) => key = ends
                              /\ ids \subseteq a[key].chunks
  BY DEF HasRelation
<1>2. key \in DOMAIN b /\ a[key].chunks \subseteq b[key].chunks
  BY DEF Extends
<1> QED BY <1>1, <1>2 DEF HasRelation

\* The relation rel of an answer is in map, if any chunks were found for it.
Kept(map, rel, ids) == ids # {} => HasRelation(map, <<rel.source, rel.target>>, ids)

LEMMA StillKept ==
  ASSUME NEW a, NEW b, Extends(a, b), NEW rel, NEW ids, Kept(a, rel, ids)
  PROVE  Kept(b, rel, ids)
BY StillHasRelation DEF Kept

LEMMA AddRelationsKeeps ==
  ASSUME AreEntities(entityMap), NEW map, AreRelations(map),
         NEW titles, titles \subseteq DOMAIN entityMap,
         NEW answer \in RelationAnswers,
         NEW new, new = AddRelations(map, answer, titles)
  PROVE  /\ AreRelations(new) /\ Extends(map, new)
         /\ \A rel \in ToSet(answer) :
               Kept(new, rel, FindRelationChunkIDs(rel.source, rel.target, titles))
<1> DEFINE N == Len(answer)
           Ids(rel) == FindRelationChunkIDs(rel.source, rel.target, titles)
<1>1. N \in Nat /\ DOMAIN answer = 1..N
  <2>1. answer \in Seq(ToSet(answer))
    BY GraphInputs
  <2> QED BY <2>1
<1>2. \A n \in 1..N : /\ answer[n].strength \in Int
                     /\ IsTitle(answer[n].source) /\ IsTitle(answer[n].target)
  BY <1>1, GraphInputs DEF ToSet
<1>3. PICK after :
           /\ after = [n \in 0..Len(answer) |->
                         IF n = 0 THEN map
                         ELSE AddRelation(after[n - 1], answer[n],
                                FindRelationChunkIDs(answer[n].source, answer[n].target, titles))]
           /\ AddRelations(map, answer, titles) = after[Len(answer)]
  BY <1>1, AfterExists
<1>4. /\ after[0] = map
      /\ \A n \in 1..N : after[n] = AddRelation(after[n - 1], answer[n], Ids(answer[n]))
  BY <1>1, <1>3
<1> DEFINE Good(n) == /\ AreRelations(after[n]) /\ Extends(map, after[n])
                      /\ \A i \in 1..n : Kept(after[n], answer[i], Ids(answer[i]))
           S == {n \in 0..N : Good(n)}
<1> HIDE DEF Ids
<1>5. 0 \in S
  <2>1. Extends(map, map)
    BY DEF Extends
  <2>2. Good(0)
    BY <1>4, <2>1
  <2> HIDE DEF Good
  <2> QED BY <1>1, <2>2
<1>6. ASSUME NEW n \in 0..(N - 1), n \in S PROVE n + 1 \in S
  <2>1. Good(n)
    BY <1>6
  <2>2. n + 1 \in 1..N /\ (n + 1) - 1 = n /\ n + 1 \in 0..N
    BY <1>1
  <2> DEFINE rel == answer[n + 1]
             ids == Ids(rel)
             a == after[n]
             b == after[n + 1]
  <2>3. /\ b = AddRelation(a, rel, ids) /\ rel.strength \in Int
        /\ IsTitle(rel.source) /\ IsTitle(rel.target)
    BY <1>2, <1>4, <2>2
  <2>4. ids \in SUBSET Chunks /\ IsFiniteSet(ids) /\ ids \subseteq ChunksOfEnds(<<rel.source, rel.target>>)
    <3>1. ids = FindRelationChunkIDs(rel.source, rel.target, titles)
      BY DEF Ids
    <3> HIDE DEF ids
    <3> QED BY <3>1, FindRelationChunkIDsOfEnds
  <2>5. AreRelations(a) /\ Extends(map, a)
    BY <2>1
  <2>6. \A i \in 1..n : Kept(a, answer[i], Ids(answer[i]))
    BY <2>1
  <2>7. AreRelations(b) /\ Extends(a, b) /\ Kept(b, rel, ids)
    <3> HIDE DEF a, b, rel, ids
    <3> QED BY <2>3, <2>4, <2>5, AddRelationKeeps DEF Kept
  <2>8. Extends(map, b)
    <3> HIDE DEF a, b
    <3> QED BY <2>5, <2>7, ExtendsFurther
  <2>9. ASSUME NEW i \in 1..(n + 1) PROVE Kept(b, answer[i], Ids(answer[i]))
    <3>1. CASE i = n + 1
      BY <2>7, <3>1
    <3>2. CASE i # n + 1
      <4>1. i \in 1..n
        BY <3>2
      <4>2. Kept(a, answer[i], Ids(answer[i]))
        BY <2>6, <4>1
      <4> HIDE DEF a, b
      <4> QED BY <2>7, <4>2, StillKept
    <3> QED BY <3>1, <3>2
  <2>10. Good(n + 1)
    BY <2>7, <2>8, <2>9
  <2> HIDE DEF Good
  <2> QED BY <2>2, <2>10
<1>7. N \in S
  <2>1. N \in 0..N
    BY <1>1
  <2> HIDE DEF S, N
  <2>2. 0..N \subseteq S
    BY <1>1, <1>5, <1>6, UpTo
  <2> QED BY <2>1, <2>2
<1>8. new = after[N]
  BY <1>3
<1>9. Good(N)
  BY <1>7
<1>10. ASSUME NEW rel \in ToSet(answer) PROVE Kept(new, rel, Ids(rel))
  <2>1. PICK i \in 1..N : rel = answer[i]
    BY <1>1 DEF ToSet
  <2> QED BY <1>8, <1>9, <2>1
<1> QED BY <1>8, <1>9, <1>10 DEF Ids

-----------------------------------------------------------------------------
(* Batches *)

LEMMA OwnSeq ==
  ASSUME NEW n \in Nat, NEW f, f = [i \in 1..n |-> f[i]]
  PROVE  f \in Seq(ToSet(f)) /\ Len(f) = n /\ DOMAIN f = 1..n
<1>1. DOMAIN f = 1..n
  OBVIOUS
<1>2. \A i \in 1..n : f[i] \in ToSet(f)
  BY <1>1 DEF ToSet
<1>3. f \in [1..n -> ToSet(f)]
  BY <1>2
<1> QED BY <1>1, <1>3

LEMMA BatchIs ==
  ASSUME NEW S, NEW s \in Seq(S)
  PROVE  /\ DOMAIN Batches(s) = 1..((Len(s) + RelationBatchSize - 1) \div RelationBatchSize)
         /\ \A k \in DOMAIN Batches(s) : Batches(s)[k] \in Seq(S) /\ ToSet(Batches(s)[k]) \subseteq ToSet(s)
<1>1. DOMAIN Batches(s) = 1..((Len(s) + RelationBatchSize - 1) \div RelationBatchSize)
  BY DEF Batches
<1>2. ASSUME NEW k \in DOMAIN Batches(s)
      PROVE  Batches(s)[k] \in Seq(S) /\ ToSet(Batches(s)[k]) \subseteq ToSet(s)
  <2> DEFINE a == (k - 1) * RelationBatchSize + 1
             b == Min({k * RelationBatchSize, Len(s)})
             sub == SubSeq(s, a, b)
  <2>1. sub = Batches(s)[k]
    BY <1>2 DEF Batches
  <2>2. RelationBatchSize \in Nat /\ Len(s) \in Nat /\ RelationBatchSize > 0
    BY GraphAssumption
  <2>3. (Len(s) + RelationBatchSize - 1) \div RelationBatchSize \in Int
    BY <2>2
  <2>4. k \in Int /\ k >= 1
    BY <1>1, <1>2, <2>3
  <2>5. k * RelationBatchSize \in Int /\ (k - 1) * RelationBatchSize \in Nat
    <3>1. k - 1 \in Nat
      BY <2>4
    <3> QED BY <2>2, <2>4, <3>1
  <2>6. a \in Int /\ a >= 1
    BY <2>5
  <2>7. b \in Int /\ b <= Len(s)
    <3>1. b = IF k * RelationBatchSize <= Len(s) THEN k * RelationBatchSize ELSE Len(s)
      BY <2>2, <2>5, MinOfTwo
    <3> QED BY <2>2, <2>5, <3>1
  <2> HIDE DEF a, b
  <2> DEFINE T == S \intersect ToSet(s)
  <2>8. \A i \in a..b : s[i] \in T
    <3> SUFFICES ASSUME NEW i \in a..b PROVE s[i] \in T
      OBVIOUS
    <3>1. i \in 1..Len(s)
      BY <2>2, <2>6, <2>7
    <3> QED BY <3>1 DEF ToSet
  <2> HIDE DEF T, sub
  <2>9. sub \in Seq(T)
    BY <2>6, <2>7, <2>8, SubSeqProperties DEF sub
  <2>10. \A i \in DOMAIN sub : sub[i] \in T
    BY <2>9
  <2>11. sub \in Seq(S)
    BY <2>9 DEF T
  <2>12. ToSet(sub) \subseteq ToSet(s)
    BY <2>10 DEF ToSet, T
  <2> QED BY <2>1, <2>11, <2>12
<1> QED BY <1>1, <1>2

\* The entities of a batch are in the map.
LEMMA TitlesKnown ==
  ASSUME CallTypes, EntitiesFit, phase = "relating", NEW k \in DOMAIN batch
  PROVE  TitlesOf(k) \subseteq DOMAIN entityMap
<1>1. found \in Seq(ToSet(found)) /\ chunks \in Seq(Chunks) /\ DOMAIN found = DOMAIN chunks
  BY DEF CallTypes
<1>2. Len(found) = Len(chunks)
  BY <1>1
<1>3. DOMAIN Batches(found) = DOMAIN Batches(chunks)
  BY <1>1, <1>2, BatchIs
<1>4. k \in DOMAIN Batches(found)
  BY <1>3 DEF CallTypes
<1>5. ToSet(Batches(found)[k]) \subseteq ToSet(found)
  BY <1>1, <1>4, BatchIs
<1>6. \A f \in ToSet(found) : Range(f) \subseteq DOMAIN entityMap
  BY DEF ToSet, EntitiesFit
<1> QED BY <1>5, <1>6 DEF TitlesOf

-----------------------------------------------------------------------------
(* Growing maps *)

LEMMA ChunksOfEndsGrow ==
  ASSUME Extends(entityMap, entityMap'), NEW key
  PROVE  ChunksOfEnds(key) \subseteq ChunksOfEnds(key)'
BY DEF Extends, ChunksOfEnds

LEMMA PairsGrow ==
  ASSUME Extends(entityMap, entityMap'), NEW key
  PROVE  Pairs(key) \subseteq Pairs(key)'
<1>1. CASE Known(key[1]) /\ Known(key[2])
  <2> DEFINE A == entityMap[key[1]].chunks
             B == entityMap[key[2]].chunks
  <2>1. Known(key[1])' /\ Known(key[2])' /\ A \subseteq A' /\ B \subseteq B'
    BY <1>1 DEF Known, Extends
  <2>2. Pairs(key) = (A \X B) \union {<<p[2], p[1]>> : p \in A \X B}
    BY <1>1 DEF Pairs
  <2>3. Pairs(key)' = (A' \X B') \union {<<p[2], p[1]>> : p \in A' \X B'}
    BY <2>1 DEF Pairs
  <2> DEFINE C == entityMap'[key[1]].chunks
             D == entityMap'[key[2]].chunks
  <2>4. A \X B \subseteq C \X D
    BY <2>1
  <2>5. {<<p[2], p[1]>> : p \in A \X B} \subseteq {<<p[2], p[1]>> : p \in C \X D}
    BY <2>4
  <2>6. Pairs(key)' = (C \X D) \union {<<p[2], p[1]>> : p \in C \X D}
    BY <2>3
  <2> HIDE DEF A, B, C, D
  <2> QED BY <2>2, <2>4, <2>5, <2>6
<1>2. CASE ~ (Known(key[1]) /\ Known(key[2]))
  BY <1>2 DEF Pairs
<1> QED BY <1>1, <1>2

\* Links stay in order while the maps grow.
LEMMA LinksStay ==
  ASSUME LinksFit, Extends(entityMap, entityMap'), DOMAIN relationshipMap \subseteq DOMAIN relationshipMap',
         UNCHANGED chunkGraph
  PROVE  LinksFit'
<1>1. UNION {Pairs(key) : key \in DOMAIN relationshipMap} \subseteq (UNION {Pairs(key) : key \in DOMAIN relationshipMap})'
  <2> SUFFICES ASSUME NEW key \in DOMAIN relationshipMap, NEW p \in Pairs(key)
               PROVE  p \in (UNION {Pairs(k) : k \in DOMAIN relationshipMap})'
    OBVIOUS
  <2>1. p \in Pairs(key)'
    BY PairsGrow
  <2>2. key \in DOMAIN relationshipMap'
    OBVIOUS
  <2> QED BY <2>1, <2>2
<1> QED BY <1>1 DEF LinksFit

-----------------------------------------------------------------------------
(* Weights and degrees are numbers *)

LEMMA RankIsInt ==
  ASSUME AreRelations(relationshipMap), NEW key
  PROVE  Rank(key) \in Int
<1> DEFINE positive == {q \in DOMAIN relationshipMap : Ratio(q)[2] > 0 /\ Ratio(q)[1] > Ratio(q)[2]}
           below == {q \in positive : Ratio(q)[1] * Ratio(key)[2] <= Ratio(key)[1] * Ratio(q)[2]}
<1>1. positive \in SUBSET DOMAIN relationshipMap /\ below \in SUBSET positive
  OBVIOUS
<1>2. Rank(key) = IF key \in positive THEN (100 * Cardinality(below)) \div Cardinality(positive) ELSE 0
  BY DEF Rank
<1> HIDE DEF positive, below
<1>3. IsFiniteSet(DOMAIN relationshipMap)
  BY DEF AreRelations
<1>4. IsFiniteSet(positive)
  BY <1>1, <1>3, FS_Subset
<1>5. IsFiniteSet(below)
  BY <1>1, <1>4, FS_Subset
<1>6. Cardinality(positive) \in Nat /\ Cardinality(below) \in Nat
  BY <1>4, <1>5, FS_CardinalityType
<1>7. CASE key \in positive
  <2>1. Cardinality(positive) # 0
    BY <1>4, <1>7, FS_EmptySet
  <2>2. Cardinality(positive) > 0 /\ 100 * Cardinality(below) \in Int
    BY <1>6, <2>1
  <2>3. (100 * Cardinality(below)) \div Cardinality(positive) \in Int
    BY <1>6, <2>2
  <2> QED BY <1>2, <1>7, <2>3
<1>8. CASE key \notin positive
  BY <1>2, <1>8
<1> QED BY <1>7, <1>8

LEMMA WeightIsInt ==
  ASSUME AreRelations(relationshipMap), NEW key \in DOMAIN relationshipMap
  PROVE  WeightOf(key) \in Int
<1> DEFINE D == DOMAIN relationshipMap
           T == {relationshipMap[q].strength : q \in D}
           f == [q \in D |-> relationshipMap[q].strength]
           most == Max({1} \union T)
           strength == (100 * relationshipMap[key].strength) \div most
<1>1. \A q \in D : relationshipMap[q].strength \in Int
  BY DEF AreRelations, Relations
<1>2. f \in Surjection(D, T)
  BY DEF Surjection
<1>3. IsFiniteSet(D)
  BY DEF AreRelations
<1>4. T \subseteq Int
  BY <1>1
<1>5. IsFiniteSet(T)
  <2> HIDE DEF f, T, D
  <2> QED BY <1>2, <1>3, FS_Surjection
<1>6. most \in Int /\ 1 <= most
  <2> DEFINE U == {1} \union T
  <2>1. U \subseteq Int /\ U # {} /\ 1 \in U
    BY <1>4
  <2>2. IsFiniteSet(U)
    <3>1. IsFiniteSet({1})
      BY FS_Singleton
    <3> HIDE DEF T
    <3> QED BY <1>5, <3>1, FS_Union
  <2> HIDE DEF U
  <2>3. Max(U) \in U /\ \A x \in U : x <= Max(U)
    BY <2>1, <2>2, MaxIs
  <2> QED BY <2>1, <2>3 DEF U
<1>7. relationshipMap[key].strength \in Int
  BY <1>1
<1>8. WeightOf(key) = 100 + (9 * (6 * Rank(key) + 4 * strength)) \div 10
  BY DEF WeightOf
<1>9. strength \in Int
  <2>1. 100 * relationshipMap[key].strength \in Int
    BY <1>7
  <2>2. most > 0
    BY <1>6
  <2> HIDE DEF most
  <2> QED BY <1>6, <2>1, <2>2
<1>10. Rank(key) \in Int
  BY RankIsInt
<1> HIDE DEF strength
<1>11. 9 * (6 * Rank(key) + 4 * strength) \in Int
  BY <1>9, <1>10
<1>12. (9 * (6 * Rank(key) + 4 * strength)) \div 10 \in Int
  BY <1>11
<1> QED BY <1>8, <1>12

LEMMA DegreeIsNat ==
  ASSUME IsFiniteSet(DOMAIN relationshipMap), NEW t
  PROVE  DegreeOf(t) \in Nat
<1> DEFINE Out == {key \in DOMAIN relationshipMap : key[1] = t}
           In == {key \in DOMAIN relationshipMap : key[2] = t}
<1>1. Out \in SUBSET DOMAIN relationshipMap /\ In \in SUBSET DOMAIN relationshipMap
  OBVIOUS
<1>2. DegreeOf(t) = Cardinality(Out) + Cardinality(In)
  BY DEF DegreeOf
<1> HIDE DEF Out, In
<1>3. Cardinality(Out) \in Nat /\ Cardinality(In) \in Nat
  BY <1>1, FS_Subset, FS_CardinalityType
<1> QED BY <1>2, <1>3

-----------------------------------------------------------------------------
(* What the calls do to the maps *)

MapsFit == EntitiesFit /\ AreRelations(relationshipMap) /\ Remembered /\ LinksFit

LEMMA MapsFitStays ==
  ASSUME MapsFit, UNCHANGED <<found, graphVars, named, related>>
  PROVE  MapsFit'
<1>1. /\ found' = found /\ entityMap' = entityMap /\ relationshipMap' = relationshipMap
      /\ chunkGraph' = chunkGraph /\ named' = named /\ related' = related
  BY DEF graphVars
<1>2. EntitiesFit'
  BY <1>1 DEF MapsFit, EntitiesFit
<1>3. AreRelations(relationshipMap)'
  BY <1>1 DEF MapsFit, AreRelations, ChunksOfEnds
<1>4. Remembered'
  BY <1>1 DEF MapsFit, Remembered, Known
<1>5. LinksFit'
  BY <1>1 DEF MapsFit, LinksFit, Pairs, Known
<1> QED BY <1>2, <1>3, <1>4, <1>5 DEF MapsFit

\* Entities are only added to, and so relations keep the chunks of their ends.
LEMMA RelationsStay ==
  ASSUME AreRelations(relationshipMap), Extends(entityMap, entityMap'), UNCHANGED relationshipMap
  PROVE  AreRelations(relationshipMap)'
<1>1. \A key : ChunksOfEnds(key) \subseteq ChunksOfEnds(key)'
  BY ChunksOfEndsGrow
<1> QED BY <1>1 DEF AreRelations

\* A relation has the chunks of its ends, whatever else is said of it.
LEMMA RelationsRevised ==
  ASSUME AreRelations(relationshipMap), Extends(entityMap, entityMap'),
         DOMAIN relationshipMap' = DOMAIN relationshipMap,
         \A key \in DOMAIN relationshipMap :
             /\ relationshipMap'[key] \in Relations
             /\ relationshipMap'[key].chunks = relationshipMap[key].chunks
  PROVE  AreRelations(relationshipMap)' /\ Extends(relationshipMap, relationshipMap')
<1>1. \A key : ChunksOfEnds(key) \subseteq ChunksOfEnds(key)'
  BY ChunksOfEndsGrow
<1>2. IsFiniteSet(DOMAIN relationshipMap')
  BY DEF AreRelations
<1>3. ASSUME NEW key \in DOMAIN relationshipMap'
      PROVE  /\ IsEnds(key)
             /\ relationshipMap'[key] \in Relations
             /\ IsFiniteSet(relationshipMap'[key].chunks)
             /\ Plain(key) => relationshipMap'[key].chunks \subseteq ChunksOfEnds(key)'
  BY <1>1 DEF AreRelations
<1> QED BY <1>2, <1>3 DEF AreRelations, Extends

-----------------------------------------------------------------------------
(* The initial state and the steps *)

LEMMA InvInit == GraphInit => GraphInv
<1> SUFFICES ASSUME GraphInit PROVE GraphInv
  OBVIOUS
<1>1. /\ chunks = <<>> /\ phase = "idle" /\ outcome = "none" /\ task = <<>> /\ found = <<>>
      /\ entityMap = <<>> /\ relationshipMap = <<>> /\ chunkGraph = <<>>
      /\ named = {} /\ related = {} /\ plan \in Seq(Seq(Chunks))
  BY GraphInputs DEF GraphInit
<1>2. CallTypes
  <2>1. task \in [DOMAIN chunks -> {"waiting", "calling", "done", "failed"}]
    BY <1>1
  <2>2. DOMAIN found = DOMAIN chunks /\ found \in Seq(ToSet(found))
    BY <1>1
  <2> QED BY <1>1, <2>1, <2>2 DEF CallTypes
<1>3. ReadBefore
  BY <1>1 DEF ReadBefore
<1>4. EntitiesFit
  BY <1>1 DEF EntitiesFit, AreEntities
<1>5. AreRelations(relationshipMap)
  <2>1. DOMAIN relationshipMap = {}
    BY <1>1
  <2> QED BY <2>1, FS_EmptySet DEF AreRelations
<1>6. Remembered /\ LinksFit /\ Finished
  BY <1>1 DEF Remembered, LinksFit, Finished
<1> QED BY <1>2, <1>3, <1>4, <1>5, <1>6 DEF GraphInv

LEMMA InvStutter == GraphInv /\ UNCHANGED graphBuilderVars => GraphInv'
<1> SUFFICES ASSUME GraphInv, UNCHANGED graphBuilderVars PROVE GraphInv'
  OBVIOUS
<1>1. /\ plan' = plan /\ chunks' = chunks /\ outcome' = outcome /\ phase' = phase /\ task' = task
      /\ found' = found /\ batch' = batch /\ entityMap' = entityMap /\ chunkGraph' = chunkGraph
      /\ relationshipMap' = relationshipMap /\ named' = named /\ related' = related
  BY DEF graphBuilderVars, callVars, buildVars, graphVars
<1>2. MapsFit'
  BY <1>1, MapsFitStays DEF GraphInv, MapsFit, graphVars
<1>3. CallTypes' /\ ReadBefore'
  BY <1>1 DEF GraphInv, CallTypes, ReadBefore
<1>4. Finished'
  <2>1. DegreesAreCounts => DegreesAreCounts'
    <3>1. \A t : DegreeOf(t)' = DegreeOf(t)
      BY <1>1 DEF DegreeOf
    <3> QED BY <1>1, <3>1 DEF DegreesAreCounts, Known
  <2>2. LinksAreCurrent => LinksAreCurrent'
    <3>1. \A key : Pairs(key)' = Pairs(key) /\ Link(key)' = Link(key)
      BY <1>1 DEF Pairs, Known, Link
    <3> QED BY <1>1, <3>1 DEF LinksAreCurrent
  <2> QED BY <1>1, <2>1, <2>2 DEF GraphInv, Finished
<1> QED BY <1>2, <1>3, <1>4 DEF GraphInv, MapsFit

LEMMA InvBuildGraph == GraphInv /\ BuildGraph => GraphInv'
<1> SUFFICES ASSUME GraphInv, BuildGraph PROVE GraphInv'
  OBVIOUS
<1> DEFINE arg == Head(plan)
<1>1. arg \in Seq(Chunks) /\ Tail(plan) \in Seq(Seq(Chunks))
  BY DEF GraphInv, CallTypes, BuildGraph
<1>2. /\ chunks' = arg /\ plan' = Tail(plan) /\ phase' = "extracting" /\ outcome' = "none"
      /\ task' = [i \in DOMAIN arg |-> "waiting"] /\ found' = [i \in DOMAIN arg |-> <<>>]
      /\ named' = {} /\ related' = {} /\ entityMap' = entityMap
      /\ relationshipMap' = relationshipMap /\ chunkGraph' = chunkGraph
  BY DEF BuildGraph, graphVars
<1> HIDE DEF arg
<1>3. CallTypes'
  <2>1. Len(arg) \in Nat /\ DOMAIN arg = 1..Len(arg)
    BY <1>1
  <2>2. found' = [i \in 1..Len(arg) |-> found'[i]]
    BY <1>2, <2>1
  <2>3. found' \in Seq(ToSet(found')) /\ DOMAIN found' = DOMAIN chunks'
    BY <1>2, <2>1, <2>2, OwnSeq
  <2> QED BY <1>1, <1>2, <2>3 DEF CallTypes
<1>4. ReadBefore' /\ Finished'
  BY <1>2 DEF ReadBefore, Finished
<1>5. EntitiesFit'
  <2>1. \A i \in DOMAIN found' : Range(found'[i]) = {}
    BY <1>2 DEF Range
  <2> QED BY <1>2, <2>1 DEF GraphInv, EntitiesFit
<1>6. AreRelations(relationshipMap)' /\ LinksFit'
  BY <1>2 DEF GraphInv, AreRelations, ChunksOfEnds, LinksFit, Pairs, Known
<1>7. Remembered'
  BY <1>2 DEF Remembered
<1> QED BY <1>3, <1>4, <1>5, <1>6, <1>7 DEF GraphInv

\* A step of a goroutine that leaves the maps alone.
LEMMA InvTask ==
  ASSUME GraphInv, phase = "extracting", NEW i \in DOMAIN task,
         NEW next \in {"waiting", "calling", "done", "failed"}, task' = [task EXCEPT ![i] = next],
         UNCHANGED <<callVars, phase, found, batch, graphVars, named, related>>
  PROVE  GraphInv'
<1>1. MapsFit'
  BY MapsFitStays DEF GraphInv, MapsFit
<1>2. /\ plan' = plan /\ chunks' = chunks /\ outcome' = outcome /\ phase' = phase
      /\ found' = found /\ outcome = "none"
  BY DEF GraphInv, ReadBefore, callVars
<1>3. CallTypes'
  BY <1>2 DEF GraphInv, CallTypes
<1>4. ReadBefore' /\ Finished'
  BY <1>2 DEF ReadBefore, Finished
<1> QED BY <1>1, <1>3, <1>4 DEF GraphInv, MapsFit

LEMMA InvStartExtract ==
  ASSUME GraphInv, NEW i \in DOMAIN task, StartExtract(i)
  PROVE  GraphInv'
BY InvTask DEF StartExtract

LEMMA InvExtractFails ==
  ASSUME GraphInv, NEW i \in DOMAIN task, ExtractFails(i)
  PROVE  GraphInv'
BY InvTask DEF ExtractFails

\* A step of the goroutine of a batch that leaves the maps alone.
LEMMA InvBatch ==
  ASSUME GraphInv, phase = "relating", NEW k \in DOMAIN batch,
         NEW next \in {"waiting", "calling", "done", "failed"}, batch' = [batch EXCEPT ![k] = next],
         UNCHANGED <<callVars, phase, task, found, graphVars, named, related>>
  PROVE  GraphInv'
<1>1. MapsFit'
  BY MapsFitStays DEF GraphInv, MapsFit
<1>2. /\ plan' = plan /\ chunks' = chunks /\ outcome' = outcome /\ phase' = phase
      /\ task' = task /\ found' = found /\ outcome = "none"
  BY DEF GraphInv, ReadBefore, callVars
<1>3. CallTypes'
  <2>1. DOMAIN Batches(chunks') = DOMAIN Batches(chunks)
    BY <1>2
  <2>2. DOMAIN batch' = DOMAIN batch /\ \A j \in DOMAIN batch : batch'[j] \in {"waiting", "calling", "done", "failed"}
    BY DEF GraphInv, CallTypes
  <2> QED BY <1>2, <2>1, <2>2 DEF GraphInv, CallTypes
<1>4. ReadBefore' /\ Finished'
  BY <1>2 DEF GraphInv, ReadBefore, Finished
<1> QED BY <1>1, <1>3, <1>4 DEF GraphInv, MapsFit

LEMMA InvStartRelate ==
  ASSUME GraphInv, NEW k \in DOMAIN batch, StartRelate(k)
  PROVE  GraphInv'
BY InvBatch DEF StartRelate

LEMMA InvRelateFails ==
  ASSUME GraphInv, NEW k \in DOMAIN batch, RelateFails(k)
  PROVE  GraphInv'
BY InvBatch DEF RelateFails

LEMMA InvExtractEntities ==
  ASSUME GraphInv, NEW i \in DOMAIN task, NEW answer \in EntityAnswers, ExtractEntities(i, answer)
  PROVE  GraphInv'
<1> DEFINE valid == {n \in DOMAIN answer : answer[n] # NoTitle}
           chunk == chunks[i]
<1>1. /\ phase = "extracting" /\ entityMap' = AddEntities(entityMap, answer, chunk)
      /\ found' = [found EXCEPT ![i] = Restrict(answer, valid)]
      /\ task' = [task EXCEPT ![i] = "done"]
      /\ named' = named \union {<<answer[n], chunk>> : n \in valid}
      /\ plan' = plan /\ chunks' = chunks /\ outcome' = outcome /\ phase' = phase
      /\ relationshipMap' = relationshipMap /\ chunkGraph' = chunkGraph /\ related' = related
  BY DEF ExtractEntities, callVars
<1>2. /\ chunks \in Seq(Chunks) /\ DOMAIN task = DOMAIN chunks /\ DOMAIN found = DOMAIN chunks
      /\ outcome = "none" /\ AreEntities(entityMap)
  BY <1>1 DEF GraphInv, CallTypes, ReadBefore, EntitiesFit
<1>3. chunk \in Chunks
  BY <1>2
<1>4. answer \in Seq(ToSet(answer))
  BY GraphInputs
<1> DEFINE titles == ToSet(answer) \ {NoTitle}
<1>5. \A n \in valid : answer[n] \in titles
  BY DEF ToSet
<1> HIDE DEF chunk, titles, valid
<1>6. /\ DOMAIN entityMap' = DOMAIN entityMap \union titles
      /\ AreEntities(entityMap')
      /\ \A t \in DOMAIN entityMap : entityMap[t].chunks \subseteq entityMap'[t].chunks
      /\ \A t \in titles : chunk \in entityMap'[t].chunks
  <2> DEFINE new == entityMap'
  <2>1. new = AddEntities(entityMap, answer, chunk)
    BY <1>1
  <2> HIDE DEF new
  <2>2. /\ DOMAIN new = DOMAIN entityMap \union (ToSet(answer) \ {NoTitle})
        /\ AreEntities(new)
        /\ \A t \in DOMAIN entityMap : entityMap[t].chunks \subseteq new[t].chunks
        /\ \A t \in ToSet(answer) \ {NoTitle} : chunk \in new[t].chunks
    <3>1. AreEntities(entityMap)
      BY <1>2
    <3> QED BY <1>3, <1>4, <2>1, <3>1, AddEntitiesKeeps
  <2> QED BY <2>2 DEF titles, new
<1>7. Extends(entityMap, entityMap')
  BY <1>6 DEF Extends
<1>8. CallTypes'
  <2>1. Len(chunks) \in Nat /\ DOMAIN chunks = 1..Len(chunks)
    BY <1>2
  <2>2. found' = [j \in 1..Len(chunks) |-> found'[j]]
    BY <1>1, <1>2, <2>1
  <2>3. found' \in Seq(ToSet(found')) /\ DOMAIN found' = DOMAIN chunks'
    BY <1>1, <2>1, <2>2, OwnSeq
  <2>4. task' \in [DOMAIN chunks -> {"waiting", "calling", "done", "failed"}]
    BY <1>1 DEF GraphInv, CallTypes
  <2> QED BY <1>1, <2>3, <2>4 DEF GraphInv, CallTypes
<1>9. ReadBefore' /\ Finished'
  BY <1>1, <1>2 DEF ReadBefore, Finished
<1>10. EntitiesFit'
  <2>1. ASSUME NEW j \in DOMAIN found' PROVE Range(found'[j]) \subseteq DOMAIN entityMap'
    <3>1. CASE j = i
      <4>1. found'[j] = Restrict(answer, valid)
        BY <1>1, <1>2, <3>1
      <4>2. Range(Restrict(answer, valid)) \subseteq titles
        BY <1>5 DEF Range, Restrict
      <4> QED BY <1>6, <4>1, <4>2
    <3>2. CASE j # i
      <4>1. j \in DOMAIN found /\ found'[j] = found[j]
        BY <1>1, <2>1, <3>2
      <4>2. Range(found[j]) \subseteq DOMAIN entityMap
        BY <4>1 DEF GraphInv, EntitiesFit
      <4> QED BY <1>6, <4>1, <4>2
    <3> QED BY <3>1, <3>2
  <2> QED BY <1>6, <2>1 DEF EntitiesFit
<1>11. AreRelations(relationshipMap)' /\ LinksFit'
  BY <1>1, <1>7, RelationsStay, LinksStay DEF GraphInv
<1>12. Remembered'
  <2>1. ASSUME NEW n \in named' PROVE n[1] \in DOMAIN entityMap' /\ n[2] \in entityMap'[n[1]].chunks
    <3>1. CASE n \in named
      BY <1>6, <3>1 DEF GraphInv, Remembered, Known
    <3>2. CASE n \notin named
      <4>1. PICK m \in valid : n = <<answer[m], chunk>>
        BY <1>1, <3>2
      <4> QED BY <1>5, <1>6, <4>1
    <3> QED BY <3>1, <3>2
  <2> QED BY <1>1, <2>1 DEF GraphInv, Remembered, Known
<1> QED BY <1>8, <1>9, <1>10, <1>11, <1>12, <1>6 DEF GraphInv

LEMMA InvExtracted == GraphInv /\ Extracted => GraphInv'
<1> SUFFICES ASSUME GraphInv, Extracted PROVE GraphInv'
  OBVIOUS
<1>1. /\ phase = "extracting" /\ Ended(task) /\ plan' = plan /\ chunks' = chunks /\ task' = task /\ found' = found
      /\ UNCHANGED <<found, graphVars, named, related>>
  BY DEF Extracted
<1>2. MapsFit'
  BY <1>1, MapsFitStays DEF GraphInv, MapsFit
<1>3. outcome = "none" /\ DOMAIN task = DOMAIN chunks
  BY <1>1 DEF GraphInv, ReadBefore, CallTypes
<1>4. CASE \E i \in DOMAIN task : task[i] = "failed"
  <2>1. phase' = "idle" /\ outcome' = "error"
    BY <1>4 DEF Extracted
  <2>2. CallTypes'
    BY <1>1, <2>1 DEF GraphInv, CallTypes
  <2>3. ReadBefore' /\ Finished'
    BY <2>1 DEF ReadBefore, Finished
  <2> QED BY <1>2, <2>2, <2>3 DEF GraphInv, MapsFit
<1>5. CASE ~ \E i \in DOMAIN task : task[i] = "failed"
  <2>1. /\ phase' = "relating" /\ outcome' = outcome
        /\ batch' = [k \in DOMAIN Batches(chunks) |->
                        IF Cardinality(UseEntities(k)) < 2 THEN "done" ELSE "waiting"]
    BY <1>5 DEF Extracted
  <2>2. DOMAIN Batches(chunks') = DOMAIN Batches(chunks)
    BY <1>1
  <2>3. DOMAIN batch' = DOMAIN Batches(chunks) /\ \A k \in DOMAIN batch' : batch'[k] \in {"waiting", "calling", "done", "failed"}
    BY <2>1
  <2>4. CallTypes'
    BY <1>1, <2>1, <2>2, <2>3 DEF GraphInv, CallTypes
  <2>5. \A i \in DOMAIN chunks : task[i] = "done"
    BY <1>1, <1>3, <1>5 DEF Ended
  <2>6. ReadBefore' /\ Finished'
    BY <1>1, <1>3, <2>1, <2>5 DEF ReadBefore, Finished
  <2> QED BY <1>2, <2>4, <2>6 DEF GraphInv, MapsFit
<1> QED BY <1>4, <1>5

LEMMA InvExtractRelationships ==
  ASSUME GraphInv, NEW k \in DOMAIN batch, NEW answer \in RelationAnswers, ExtractRelationships(k, answer)
  PROVE  GraphInv'
<1> DEFINE titles == TitlesOf(k)
           Ids(rel) == FindRelationChunkIDs(rel.source, rel.target, titles)
<1>1. /\ phase = "relating" /\ relationshipMap' = AddRelations(relationshipMap, answer, titles)
      /\ batch' = [batch EXCEPT ![k] = "done"]
      /\ related' = related \union {[rel |-> <<rel.source, rel.target>>, in |-> Ids(rel)] :
                                        rel \in {r \in ToSet(answer) : Ids(r) # {}}}
      /\ plan' = plan /\ chunks' = chunks /\ outcome' = outcome /\ phase' = phase /\ task' = task
      /\ found' = found /\ entityMap' = entityMap /\ chunkGraph' = chunkGraph /\ named' = named
  BY DEF ExtractRelationships, callVars
<1>2. outcome = "none" /\ AreEntities(entityMap) /\ AreRelations(relationshipMap)
  BY <1>1 DEF GraphInv, ReadBefore, EntitiesFit
<1>3. titles \subseteq DOMAIN entityMap
  BY <1>1, TitlesKnown DEF GraphInv
<1> HIDE DEF titles
<1> DEFINE new == relationshipMap'
<1>4. /\ AreRelations(new) /\ Extends(relationshipMap, new)
      /\ \A rel \in ToSet(answer) : Kept(new, rel, Ids(rel))
  <2>1. new = AddRelations(relationshipMap, answer, titles)
    BY <1>1
  <2> HIDE DEF new
  <2> QED BY <1>2, <1>3, <2>1, AddRelationsKeeps
<1>5. AreRelations(relationshipMap)'
  BY <1>1, <1>4 DEF AreRelations, ChunksOfEnds
<1>6. LinksFit'
  <2>1. Extends(entityMap, entityMap')
    BY <1>1 DEF Extends
  <2>2. DOMAIN relationshipMap \subseteq DOMAIN relationshipMap'
    BY <1>4 DEF Extends
  <2> QED BY <1>1, <2>1, <2>2, LinksStay DEF GraphInv
<1>7. EntitiesFit'
  BY <1>1 DEF GraphInv, EntitiesFit
<1>8. Remembered'
  <2> HIDE DEF new, Ids
  <2>1. ASSUME NEW r \in related' PROVE HasRelation(new, r.rel, r.in)
    <3>1. CASE r \in related
      <4>1. HasRelation(relationshipMap, r.rel, r.in)
        BY <3>1 DEF GraphInv, Remembered
      <4> QED BY <1>4, <4>1, StillHasRelation
    <3>2. CASE r \notin related
      <4>1. PICK rel \in ToSet(answer) : Ids(rel) # {} /\ r = [rel |-> <<rel.source, rel.target>>, in |-> Ids(rel)]
        BY <1>1, <3>2
      <4>2. Kept(new, rel, Ids(rel))
        BY <1>4
      <4>3. HasRelation(new, <<rel.source, rel.target>>, Ids(rel))
        BY <4>1, <4>2 DEF Kept
      <4>4. r.rel = <<rel.source, rel.target>> /\ r.in = Ids(rel)
        BY <4>1
      <4> QED BY <4>3, <4>4
    <3> QED BY <3>1, <3>2
  <2> QED BY <1>1, <2>1 DEF GraphInv, Remembered, Known, new
<1>9. CallTypes'
  <2>1. DOMAIN Batches(chunks') = DOMAIN Batches(chunks)
    BY <1>1
  <2>2. DOMAIN batch' = DOMAIN batch /\ \A j \in DOMAIN batch : batch'[j] \in {"waiting", "calling", "done", "failed"}
    BY <1>1 DEF GraphInv, CallTypes
  <2> QED BY <1>1, <2>1, <2>2 DEF GraphInv, CallTypes
<1>10. ReadBefore' /\ Finished'
  BY <1>1, <1>2 DEF GraphInv, ReadBefore, Finished
<1> QED BY <1>5, <1>6, <1>7, <1>8, <1>9, <1>10 DEF GraphInv

LEMMA InvCalculateWeights == GraphInv /\ CalculateWeights => GraphInv'
<1> SUFFICES ASSUME GraphInv, CalculateWeights PROVE GraphInv'
  OBVIOUS
<1>1. /\ phase = "relating" /\ phase' = "weighted"
      /\ relationshipMap' = [key \in DOMAIN relationshipMap |->
                                [relationshipMap[key] EXCEPT !.weight = WeightOf(key)]]
      /\ plan' = plan /\ chunks' = chunks /\ outcome' = outcome /\ task' = task /\ found' = found
      /\ entityMap' = entityMap /\ chunkGraph' = chunkGraph /\ named' = named /\ related' = related
  BY DEF CalculateWeights, callVars
<1>2. outcome = "none" /\ AreRelations(relationshipMap)
  BY <1>1 DEF GraphInv, ReadBefore
<1>3. Extends(entityMap, entityMap')
  BY <1>1 DEF Extends
<1>4. ASSUME NEW key \in DOMAIN relationshipMap
      PROVE  /\ relationshipMap'[key] \in Relations
             /\ relationshipMap'[key].chunks = relationshipMap[key].chunks
  <2>1. WeightOf(key) \in Int
    BY <1>2, WeightIsInt
  <2> DEFINE old == relationshipMap[key]
             w == WeightOf(key)
  <2>2. old \in Relations /\ relationshipMap'[key] = [old EXCEPT !.weight = w] /\ w \in Int
    BY <1>1, <1>2, <2>1 DEF AreRelations
  <2> HIDE DEF old, w
  <2>3. [old EXCEPT !.weight = w] \in Relations /\ [old EXCEPT !.weight = w].chunks = old.chunks
    BY <2>2 DEF Relations
  <2> QED BY <2>2, <2>3 DEF old
<1>5. DOMAIN relationshipMap' = DOMAIN relationshipMap
  BY <1>1
<1>6. AreRelations(relationshipMap)' /\ Extends(relationshipMap, relationshipMap')
  BY <1>2, <1>3, <1>4, <1>5, RelationsRevised
<1>7. LinksFit'
  BY <1>1, <1>3, <1>5, LinksStay DEF GraphInv
<1>8. EntitiesFit'
  BY <1>1 DEF GraphInv, EntitiesFit
<1>9. Remembered'
  <2>1. \A r \in related : HasRelation(relationshipMap', r.rel, r.in)
    BY <1>6, StillHasRelation DEF GraphInv, Remembered
  <2> QED BY <1>1, <2>1 DEF GraphInv, Remembered, Known, HasRelation
<1>10. CallTypes' /\ ReadBefore' /\ Finished'
  BY <1>1, <1>2 DEF GraphInv, CallTypes, ReadBefore, Finished
<1> QED BY <1>6, <1>7, <1>8, <1>9, <1>10 DEF GraphInv

\* With the same keys every entity keeps the degree that is counted for it.
LEMMA DegreeOfStays ==
  ASSUME DOMAIN relationshipMap' = DOMAIN relationshipMap, NEW t
  PROVE  DegreeOf(t)' = DegreeOf(t)
BY DEF DegreeOf

LEMMA InvCalculateDegrees == GraphInv /\ CalculateDegrees => GraphInv'
<1> SUFFICES ASSUME GraphInv, CalculateDegrees PROVE GraphInv'
  OBVIOUS
<1>1. /\ phase = "weighted" /\ phase' = "measured"
      /\ entityMap' = [t \in DOMAIN entityMap |-> [entityMap[t] EXCEPT !.degree = DegreeOf(t)]]
      /\ relationshipMap' = [key \in DOMAIN relationshipMap |->
              IF Known(key[1]) /\ Known(key[2])
              THEN [relationshipMap[key] EXCEPT !.degree = DegreeOf(key[1]) + DegreeOf(key[2])]
              ELSE relationshipMap[key]]
      /\ plan' = plan /\ chunks' = chunks /\ outcome' = outcome /\ task' = task /\ found' = found
      /\ chunkGraph' = chunkGraph /\ named' = named /\ related' = related
  BY DEF CalculateDegrees, callVars
<1>2. outcome = "none" /\ AreRelations(relationshipMap) /\ AreEntities(entityMap)
  BY <1>1 DEF GraphInv, ReadBefore, EntitiesFit
<1>3. \A t : DegreeOf(t) \in Nat
  BY <1>2, DegreeIsNat DEF AreRelations
<1>4. DOMAIN entityMap' = DOMAIN entityMap /\ DOMAIN relationshipMap' = DOMAIN relationshipMap
  BY <1>1
<1>5. ASSUME NEW t \in DOMAIN entityMap
      PROVE  /\ entityMap'[t] \in Entities /\ entityMap'[t].chunks = entityMap[t].chunks
             /\ entityMap'[t].freq = entityMap[t].freq /\ entityMap'[t].degree = DegreeOf(t)
  <2> DEFINE old == entityMap[t]
             d == DegreeOf(t)
  <2>1. old \in Entities /\ entityMap'[t] = [old EXCEPT !.degree = d] /\ d \in Nat
    BY <1>1, <1>2, <1>3 DEF AreEntities
  <2> HIDE DEF old, d
  <2> DEFINE new == [old EXCEPT !.degree = d]
  <2>2. new \in Entities /\ new.chunks = old.chunks /\ new.freq = old.freq /\ new.degree = d
    BY <2>1 DEF Entities
  <2> QED BY <2>1, <2>2 DEF old, d
<1>6. ASSUME NEW key \in DOMAIN relationshipMap
      PROVE  /\ relationshipMap'[key] \in Relations
             /\ relationshipMap'[key].chunks = relationshipMap[key].chunks
             /\ Known(key[1]) /\ Known(key[2]) =>
                   relationshipMap'[key].degree = DegreeOf(key[1]) + DegreeOf(key[2])
  <2> DEFINE old == relationshipMap[key]
             d == DegreeOf(key[1]) + DegreeOf(key[2])
  <2>1. old \in Relations
    BY <1>2 DEF AreRelations
  <2>2. DegreeOf(key[1]) \in Nat /\ DegreeOf(key[2]) \in Nat
    BY <1>3
  <2>3. d \in Int
    BY <2>2
  <2>4. relationshipMap'[key] = IF Known(key[1]) /\ Known(key[2]) THEN [old EXCEPT !.degree = d] ELSE old
    BY <1>1
  <2> HIDE DEF old, d
  <2> DEFINE new == [old EXCEPT !.degree = d]
  <2>5. new \in Relations /\ new.chunks = old.chunks /\ new.degree = d
    BY <2>1, <2>3 DEF Relations
  <2> QED BY <2>1, <2>4, <2>5 DEF old, d
<1>7. AreEntities(entityMap') /\ Extends(entityMap, entityMap')
  BY <1>2, <1>4, <1>5 DEF AreEntities, Extends
<1>8. EntitiesFit'
  BY <1>1, <1>4, <1>7 DEF GraphInv, EntitiesFit
<1>9. AreRelations(relationshipMap)' /\ Extends(relationshipMap, relationshipMap')
  BY <1>2, <1>4, <1>6, <1>7, RelationsRevised
<1>10. LinksFit'
  BY <1>1, <1>4, <1>7, LinksStay DEF GraphInv
<1>11. Remembered'
  <2>1. \A r \in related : HasRelation(relationshipMap', r.rel, r.in)
    BY <1>9, StillHasRelation DEF GraphInv, Remembered
  <2>2. \A n \in named : Known(n[1])' /\ n[2] \in entityMap'[n[1]].chunks
    BY <1>7 DEF GraphInv, Remembered, Known, Extends
  <2> QED BY <1>1, <2>1, <2>2 DEF Remembered, HasRelation
<1>12. CallTypes' /\ ReadBefore'
  BY <1>1, <1>2 DEF GraphInv, CallTypes, ReadBefore
<1>13. Finished'
  <2>1. \A t : DegreeOf(t)' = DegreeOf(t)
    BY <1>4, DegreeOfStays
  <2>2. \A t : Known(t)' <=> Known(t)
    BY <1>4 DEF Known
  <2>3. DegreesAreCounts'
    BY <1>4, <1>5, <1>6, <2>1, <2>2 DEF DegreesAreCounts
  <2> QED BY <1>1, <1>2, <2>3 DEF Finished
<1> QED BY <1>8, <1>9, <1>10, <1>11, <1>12, <1>13 DEF GraphInv

\* An order of the map of relations has every one of them.
LEMMA OrderHasAll ==
  ASSUME IsFiniteSet(DOMAIN relationshipMap), NEW order \in SetToSeqs(DOMAIN relationshipMap)
  PROVE  /\ IsFiniteSet(DOMAIN order) /\ DOMAIN order \subseteq Int
         /\ \A i \in DOMAIN order : order[i] \in DOMAIN relationshipMap
         /\ \A key \in DOMAIN relationshipMap : \E i \in DOMAIN order : order[i] = key
<1> DEFINE S == DOMAIN relationshipMap
           D == 1..Cardinality(S)
<1>1. order \in [D -> S] /\ \A i, j \in D : i # j => order[i] # order[j]
  BY DEF SetToSeqs
<1> HIDE DEF S
<1>2. IsFiniteSet(S) /\ Cardinality(S) \in Nat
  BY FS_CardinalityType DEF S
<1>3. IsFiniteSet(D) /\ Cardinality(D) = Cardinality(S)
  BY <1>2, FS_Interval
<1>4. D \subseteq Int
  BY <1>2
<1> HIDE DEF D
<1>5. order \in Injection(D, S)
  BY <1>1 DEF Injection, IsInjective
<1>6. order \in Surjection(D, S)
  BY <1>2, <1>3, <1>5, FS_Injection
<1>7. \A key \in S : \E i \in D : order[i] = key
  BY <1>6 DEF Surjection
<1>8. DOMAIN order = D /\ \A i \in D : order[i] \in S
  BY <1>1
<1> QED BY <1>3, <1>4, <1>7, <1>8 DEF S

LEMMA PairsGoBothWays ==
  ASSUME NEW key, NEW p \in Pairs(key)
  PROVE  p = <<p[1], p[2]>> /\ <<p[2], p[1]>> \in Pairs(key)
<1> DEFINE there == entityMap[key[1]].chunks \X entityMap[key[2]].chunks
           back == {<<q[2], q[1]>> : q \in there}
<1>1. Pairs(key) = there \union back
  BY DEF Pairs
<1>2. CASE p \in there
  BY <1>1, <1>2
<1>3. CASE p \in back
  <2>1. PICK q \in there : p = <<q[2], q[1]>>
    BY <1>3
  <2>2. q = <<q[1], q[2]>> /\ <<p[2], p[1]>> = q
    BY <2>1
  <2> QED BY <1>1, <2>1, <2>2
<1> QED BY <1>1, <1>2, <1>3

LEMMA InvBuildChunkGraph ==
  ASSUME GraphInv, NEW order \in SetToSeqs(DOMAIN relationshipMap), BuildChunkGraph(order)
  PROVE  GraphInv'
<1> DEFINE Drawn(p) == {i \in DOMAIN order : p \in Pairs(order[i])}
           all == UNION {Pairs(order[i]) : i \in DOMAIN order}
<1>1. /\ phase = "measured" /\ phase' = "idle" /\ outcome' = "ok"
      /\ chunkGraph' = [p \in DOMAIN chunkGraph \union all |->
                           IF Drawn(p) = {} THEN chunkGraph[p] ELSE Link(order[Max(Drawn(p))])]
      /\ plan' = plan /\ chunks' = chunks /\ task' = task /\ found' = found /\ entityMap' = entityMap
      /\ relationshipMap' = relationshipMap /\ named' = named /\ related' = related
  BY DEF BuildChunkGraph
<1>2. AreRelations(relationshipMap) /\ LinksFit /\ DegreesAreCounts /\ IsFiniteSet(DOMAIN relationshipMap)
  BY <1>1 DEF GraphInv, Finished, AreRelations
<1>3. /\ IsFiniteSet(DOMAIN order) /\ DOMAIN order \subseteq Int
      /\ \A i \in DOMAIN order : order[i] \in DOMAIN relationshipMap
      /\ \A key \in DOMAIN relationshipMap : \E i \in DOMAIN order : order[i] = key
  BY <1>2, OrderHasAll
<1>4. ASSUME NEW p, Drawn(p) # {}
      PROVE  /\ Max(Drawn(p)) \in DOMAIN order
             /\ p \in Pairs(order[Max(Drawn(p))])
  <2> DEFINE S == Drawn(p)
  <2>1. S \subseteq DOMAIN order
    OBVIOUS
  <2> HIDE DEF S
  <2>2. IsFiniteSet(S)
    BY <1>3, <2>1, FS_Subset
  <2>3. Max(S) \in S
    BY <1>3, <1>4, <2>1, <2>2, MaxIs DEF S
  <2> QED BY <2>3 DEF S
<1>5. \A p \in all : Drawn(p) # {}
  OBVIOUS
<1>6. \A key \in DOMAIN relationshipMap : Pairs(key) \subseteq all
  BY <1>3
<1>7. \A p : p \in DOMAIN chunkGraph \/ p \in all => <<p[2], p[1]>> \in DOMAIN chunkGraph \union all
  BY <1>2, PairsGoBothWays DEF LinksFit
<1>8. \A key \in DOMAIN relationshipMap : Link(key) \in [weight : Int, degree : Int]
  BY <1>2 DEF AreRelations, Relations, Link
<1>9. ASSUME NEW p \in DOMAIN chunkGraph' PROVE p = <<p[1], p[2]>>
  <2>1. p \in DOMAIN chunkGraph \/ p \in all
    BY <1>1
  <2>2. PICK key : p \in Pairs(key)
    BY <1>2, <2>1 DEF LinksFit
  <2> QED BY <2>2, PairsGoBothWays
<1>10. ASSUME NEW p \in DOMAIN chunkGraph' PROVE Drawn(<<p[2], p[1]>>) = Drawn(p)
  <2>1. p = <<p[1], p[2]>>
    BY <1>9
  <2> DEFINE q == <<p[2], p[1]>>
  <2>2. <<q[2], q[1]>> = p
    BY <2>1
  <2>3. \A key : q \in Pairs(key) => p \in Pairs(key)
    <3> HIDE DEF q
    <3> QED BY <2>2, PairsGoBothWays
  <2>4. \A key : p \in Pairs(key) => q \in Pairs(key)
    BY PairsGoBothWays
  <2> QED BY <2>3, <2>4
<1>11. /\ DOMAIN chunkGraph' = DOMAIN chunkGraph \union all
       /\ \A p \in DOMAIN chunkGraph' :
             chunkGraph'[p] = IF Drawn(p) = {} THEN chunkGraph[p] ELSE Link(order[Max(Drawn(p))])
  BY <1>1
<1>12. \A p \in DOMAIN chunkGraph' : Drawn(p) = {} => p \in DOMAIN chunkGraph
  BY <1>5, <1>11
<1>13. \A key : Pairs(key)' = Pairs(key) /\ Link(key)' = Link(key)
  BY <1>1 DEF Pairs, Link, Known
<1> HIDE DEF Drawn, all
<1>14. LinksFit'
  <2>1. ASSUME NEW p \in DOMAIN chunkGraph' PROVE \E key \in DOMAIN relationshipMap : p \in Pairs(key)
    <3>1. CASE Drawn(p) = {}
      BY <1>2, <1>12, <3>1 DEF LinksFit
    <3>2. CASE Drawn(p) # {}
      BY <1>3, <1>4, <3>2
    <3> QED BY <3>1, <3>2
  <2>2. ASSUME NEW p \in DOMAIN chunkGraph' PROVE chunkGraph'[p] \in [weight : Int, degree : Int]
    <3>1. CASE Drawn(p) = {}
      BY <1>2, <1>11, <1>12, <3>1 DEF LinksFit
    <3>2. CASE Drawn(p) # {}
      BY <1>3, <1>4, <1>8, <1>11, <3>2
    <3> QED BY <3>1, <3>2
  <2>3. ASSUME NEW p \in DOMAIN chunkGraph'
        PROVE  <<p[2], p[1]>> \in DOMAIN chunkGraph' /\ chunkGraph'[<<p[2], p[1]>>] = chunkGraph'[p]
    <3>1. <<p[2], p[1]>> \in DOMAIN chunkGraph'
      BY <1>7, <1>11
    <3>2. Drawn(<<p[2], p[1]>>) = Drawn(p)
      BY <1>10
    <3>3. CASE Drawn(p) = {}
      <4>1. chunkGraph[<<p[2], p[1]>>] = chunkGraph[p]
        BY <1>2, <1>12, <3>3 DEF LinksFit
      <4> QED BY <1>11, <3>1, <3>2, <3>3, <4>1
    <3>4. CASE Drawn(p) # {}
      BY <1>11, <3>1, <3>2, <3>4
    <3> QED BY <3>1, <3>3, <3>4
  <2>4. DOMAIN chunkGraph' \subseteq UNION {Pairs(key)' : key \in DOMAIN relationshipMap'}
    BY <1>1, <1>13, <2>1
  <2> QED BY <2>2, <2>3, <2>4 DEF LinksFit
<1>15. LinksAreCurrent'
  <2>1. ASSUME NEW key \in DOMAIN relationshipMap, NEW p \in Pairs(key)
        PROVE  /\ p \in DOMAIN chunkGraph'
               /\ \E q \in DOMAIN relationshipMap : p \in Pairs(q) /\ chunkGraph'[p] = Link(q)
    <3>1. p \in all
      BY <1>6
    <3>2. p \in DOMAIN chunkGraph' /\ Drawn(p) # {}
      BY <1>5, <1>11, <3>1
    <3>3. chunkGraph'[p] = Link(order[Max(Drawn(p))])
      BY <1>11, <3>2
    <3>4. order[Max(Drawn(p))] \in DOMAIN relationshipMap /\ p \in Pairs(order[Max(Drawn(p))])
      BY <1>3, <1>4, <3>2
    <3> QED BY <3>2, <3>3, <3>4
  <2>2. ASSUME NEW key \in DOMAIN relationshipMap', NEW p \in Pairs(key)'
        PROVE  /\ p \in DOMAIN chunkGraph'
               /\ \E q \in DOMAIN relationshipMap' : p \in Pairs(q)' /\ chunkGraph'[p] = Link(q)'
    <3>1. key \in DOMAIN relationshipMap /\ p \in Pairs(key)
      BY <1>1, <1>13
    <3>2. PICK q \in DOMAIN relationshipMap : p \in Pairs(q) /\ chunkGraph'[p] = Link(q)
      BY <2>1, <3>1
    <3>3. q \in DOMAIN relationshipMap' /\ p \in Pairs(q)' /\ Link(q)' = Link(q)
      BY <1>1, <1>13, <3>2
    <3> QED BY <2>1, <3>1, <3>2, <3>3
  <2> QED BY <2>2 DEF LinksAreCurrent
<1>16. DegreesAreCounts'
  <2>1. \A t : DegreeOf(t)' = DegreeOf(t)
    BY <1>1, DegreeOfStays
  <2> QED BY <1>1, <1>2, <2>1 DEF DegreesAreCounts, Known
<1>17. EntitiesFit' /\ AreRelations(relationshipMap)' /\ Remembered'
  BY <1>1 DEF GraphInv, EntitiesFit, AreRelations, ChunksOfEnds, Remembered, Known
<1>18. CallTypes' /\ ReadBefore'
  BY <1>1 DEF GraphInv, CallTypes, ReadBefore
<1> QED BY <1>14, <1>15, <1>16, <1>17, <1>18 DEF GraphInv, Finished

LEMMA InvNext == GraphInv /\ [GraphNext]_graphBuilderVars => GraphInv'
<1> SUFFICES ASSUME GraphInv, [GraphNext]_graphBuilderVars PROVE GraphInv'
  OBVIOUS
<1>1. CASE BuildGraph
  BY <1>1, InvBuildGraph
<1>2. CASE Extracted
  BY <1>2, InvExtracted
<1>3. CASE CalculateWeights
  BY <1>3, InvCalculateWeights
<1>4. CASE CalculateDegrees
  BY <1>4, InvCalculateDegrees
<1>5. ASSUME NEW i \in DOMAIN task,
             \/ StartExtract(i) \/ ExtractFails(i)
             \/ \E answer \in EntityAnswers : ExtractEntities(i, answer)
      PROVE  GraphInv'
  BY <1>5, InvStartExtract, InvExtractFails, InvExtractEntities
<1>6. ASSUME NEW k \in DOMAIN batch,
             \/ StartRelate(k) \/ RelateFails(k)
             \/ \E answer \in RelationAnswers : ExtractRelationships(k, answer)
      PROVE  GraphInv'
  BY <1>6, InvStartRelate, InvRelateFails, InvExtractRelationships
<1>7. ASSUME NEW order \in SetToSeqs(DOMAIN relationshipMap), BuildChunkGraph(order)
      PROVE  GraphInv'
  BY <1>7, InvBuildChunkGraph
<1>8. CASE UNCHANGED graphBuilderVars
  BY <1>8, InvStutter
<1> QED BY <1>1, <1>2, <1>3, <1>4, <1>5, <1>6, <1>7, <1>8 DEF GraphNext

-----------------------------------------------------------------------------
(* What follows from the invariant *)

LEMMA BatchesRead == GraphInv => BatchTextReadsOnce
<1> SUFFICES ASSUME CallTypes, NEW k \in DOMAIN Batches(chunks), Follow(Batches(chunks)[k])
             PROVE  LET ids == Batches(chunks)[k]
                        text == MergeChunkContents(ids)
                    IN /\ \A i \in 1..(Len(text) - 1) : text[i] < text[i + 1]
                       /\ ToSet(text) = UNION {(Window[c].from + 1)..Window[c].upto : c \in ToSet(ids)}
  BY DEF GraphInv, BatchTextReadsOnce, Follow
<1> DEFINE ids == Batches(chunks)[k]
           text == MergeChunkContents(ids)
           Span(c) == (Window[c].from + 1)..Window[c].upto
<1>1. ids \in Seq(Chunks)
  BY BatchIs DEF CallTypes
<1> HIDE DEF ids
<1>2. Reads(text, ids, Len(ids))
  BY <1>1, BatchText DEF ids
<1>3. DOMAIN ids = 1..Len(ids)
  BY <1>1
<1>4. UNION {Span(ids[i]) : i \in 1..Len(ids)} = UNION {Span(c) : c \in ToSet(ids)}
  <2> HIDE DEF Span
  <2> QED BY <1>3 DEF ToSet
<1> QED BY <1>2, <1>4 DEF Reads, ids

LEMMA TaggedCount ==
  ASSUME NEW A, IsFiniteSet(A), NEW B, IsFiniteSet(B)
  PROVE  /\ IsFiniteSet(({1} \X A) \union ({2} \X B))
         /\ Cardinality(({1} \X A) \union ({2} \X B)) = Cardinality(A) + Cardinality(B)
<1>1. \A i \in {1, 2} : IsFiniteSet({i}) /\ Cardinality({i}) = 1
  BY FS_Singleton
<1>2. Cardinality(A) \in Nat /\ Cardinality(B) \in Nat
  BY FS_CardinalityType
<1>3. IsFiniteSet({1} \X A) /\ Cardinality({1} \X A) = Cardinality(A)
  <2>1. IsFiniteSet({1} \X A) /\ Cardinality({1} \X A) = Cardinality({1}) * Cardinality(A)
    BY <1>1, FS_Product
  <2> QED BY <1>1, <1>2, <2>1
<1>4. IsFiniteSet({2} \X B) /\ Cardinality({2} \X B) = Cardinality(B)
  <2>1. IsFiniteSet({2} \X B) /\ Cardinality({2} \X B) = Cardinality({2}) * Cardinality(B)
    BY <1>1, FS_Product
  <2> QED BY <1>1, <1>2, <2>1
<1>5. ({1} \X A) \intersect ({2} \X B) = {}
  OBVIOUS
<1>6. Cardinality(({1} \X A) \intersect ({2} \X B)) = 0
  BY <1>5, FS_EmptySet
<1> DEFINE S == {1} \X A
           T == {2} \X B
<1> HIDE DEF S, T
<1>7. /\ IsFiniteSet(S \union T)
      /\ Cardinality(S \union T) = Cardinality(S) + Cardinality(T) - Cardinality(S \intersect T)
  BY <1>3, <1>4, FS_Union DEF S, T
<1> QED BY <1>2, <1>3, <1>4, <1>6, <1>7 DEF S, T

\* The places that the degrees count are in bijection with the ends of the relations.
LEMMA DegreesAdded ==
  ASSUME GraphInv, DegreesAreCounts
  PROVE  Cardinality(UNION {{t} \X (1..entityMap[t].degree) : t \in DOMAIN entityMap})
             = Cardinality({key \in DOMAIN relationshipMap : Known(key[1])})
                 + Cardinality({key \in DOMAIN relationshipMap : Known(key[2])})
<1> DEFINE D == DOMAIN relationshipMap
           E == DOMAIN entityMap
           Out(t) == {key \in D : key[1] = t}
           In(t) == {key \in D : key[2] = t}
           From == {key \in D : Known(key[1])}
           To == {key \in D : Known(key[2])}
           Ends(t) == ({1} \X Out(t)) \union ({2} \X In(t))
           all == ({1} \X From) \union ({2} \X To)
           Deg(t) == entityMap[t].degree
           places == UNION {{t} \X (1..Deg(t)) : t \in E}
<1>1. IsFiniteSet(D)
  BY DEF GraphInv, AreRelations
<1>2. ASSUME NEW t PROVE IsFiniteSet(Out(t)) /\ IsFiniteSet(In(t))
  <2>1. Out(t) \in SUBSET D /\ In(t) \in SUBSET D
    OBVIOUS
  <2> HIDE DEF D, Out, In
  <2> QED BY <1>1, <2>1, FS_Subset
<1>3. IsFiniteSet(From) /\ IsFiniteSet(To)
  <2>1. From \in SUBSET D /\ To \in SUBSET D
    OBVIOUS
  <2> HIDE DEF D, From, To
  <2> QED BY <1>1, <2>1, FS_Subset
<1>4. \A t \in E : Deg(t) = Cardinality(Out(t)) + Cardinality(In(t))
  BY DEF DegreesAreCounts, DegreeOf
<1>5. \A t \in E : /\ \A x \in Ends(t) : x \in all /\ x[2][x[1]] = t
                   /\ \A key \in Out(t) : <<1, key>> \in Ends(t)
                   /\ \A key \in In(t) : <<2, key>> \in Ends(t)
  <2>1. ASSUME NEW t \in E, NEW x \in Ends(t) PROVE x \in all /\ x[2][x[1]] = t
    <3>1. CASE x \in {1} \X Out(t)
      BY <3>1 DEF Known
    <3>2. CASE x \in {2} \X In(t)
      BY <3>2 DEF Known
    <3> QED BY <3>1, <3>2
  <2>2. ASSUME NEW t \in E, NEW key PROVE /\ key \in Out(t) => <<1, key>> \in Ends(t)
                                          /\ key \in In(t) => <<2, key>> \in Ends(t)
    OBVIOUS
  <2> HIDE DEF E, Ends, Out, In, all
  <2> QED BY <2>1, <2>2
<1>6. \A x \in all : x[2][x[1]] \in E /\ x \in Ends(x[2][x[1]])
  <2> SUFFICES ASSUME NEW x \in all PROVE x[2][x[1]] \in E /\ x \in Ends(x[2][x[1]])
    OBVIOUS
  <2>1. CASE x \in {1} \X From
    BY <2>1 DEF Known
  <2>2. CASE x \in {2} \X To
    BY <2>2 DEF Known
  <2> QED BY <2>1, <2>2
<1> HIDE DEF D, E, Out, In, From, To, Deg
<1>7. IsFiniteSet(all) /\ Cardinality(all) = Cardinality(From) + Cardinality(To)
  BY <1>3, TaggedCount
<1>8. ASSUME NEW t \in E PROVE \E b : b \in Bijection(1..Deg(t), Ends(t))
  <2>1. IsFiniteSet(Ends(t)) /\ Cardinality(Ends(t)) = Deg(t)
    BY <1>2, <1>4, TaggedCount
  <2> HIDE DEF Ends
  <2>2. ExistsBijection(1..Cardinality(Ends(t)), Ends(t))
    BY <2>1, FS_CardinalityType
  <2> QED BY <2>1, <2>2 DEF ExistsBijection
<1> HIDE DEF Ends, all
<1> DEFINE B(t) == CHOOSE b : b \in Bijection(1..Deg(t), Ends(t))
<1>9. \A t \in E : /\ \A n \in 1..Deg(t) : B(t)[n] \in Ends(t)
                   /\ \A n, m \in 1..Deg(t) : B(t)[n] = B(t)[m] => n = m
                   /\ \A x \in Ends(t) : \E n \in 1..Deg(t) : B(t)[n] = x
  <2> SUFFICES ASSUME NEW t \in E
               PROVE  /\ \A n \in 1..Deg(t) : B(t)[n] \in Ends(t)
                      /\ \A n, m \in 1..Deg(t) : B(t)[n] = B(t)[m] => n = m
                      /\ \A x \in Ends(t) : \E n \in 1..Deg(t) : B(t)[n] = x
    OBVIOUS
  <2>1. B(t) \in Bijection(1..Deg(t), Ends(t))
    BY <1>8
  <2> HIDE DEF B
  <2> QED BY <2>1 DEF Bijection, Injection, Surjection, IsInjective
<1> HIDE DEF B
<1>10. \A p \in places : p[1] \in E /\ p[2] \in 1..Deg(p[1]) /\ p = <<p[1], p[2]>>
  OBVIOUS
<1>11. \A t \in E : \A n \in 1..Deg(t) : <<t, n>> \in places
  OBVIOUS
<1> HIDE DEF places
<1> DEFINE f == [p \in places |-> B(p[1])[p[2]]]
<1>12. f \in Injection(places, all)
  <2>1. \A p \in places : f[p] \in all /\ f[p][2][f[p][1]] = p[1]
    BY <1>5, <1>9, <1>10
  <2>2. ASSUME NEW p \in places, NEW q \in places, f[p] = f[q] PROVE p = q
    <3>1. p[1] = q[1]
      BY <2>1, <2>2
    <3>2. B(p[1])[p[2]] = B(p[1])[q[2]] /\ q[2] \in 1..Deg(p[1])
      BY <1>10, <2>2, <3>1
    <3>3. p[2] = q[2]
      BY <1>9, <1>10, <3>2
    <3> QED BY <1>10, <3>1, <3>3
  <2>3. f \in [places -> all]
    BY <2>1
  <2> HIDE DEF f
  <2> QED BY <2>2, <2>3 DEF Injection, IsInjective
<1>13. f \in Surjection(places, all)
  <2>1. ASSUME NEW x \in all PROVE \E p \in places : f[p] = x
    <3>1. PICK t \in E : x \in Ends(t)
      BY <1>6
    <3>2. PICK n \in 1..Deg(t) : B(t)[n] = x
      BY <1>9, <3>1
    <3>3. <<t, n>> \in places /\ f[<<t, n>>] = x
      BY <1>11, <3>2
    <3> QED BY <3>3
  <2>2. f \in [places -> all]
    BY <1>12 DEF Injection
  <2> HIDE DEF f
  <2> QED BY <2>1, <2>2 DEF Surjection
<1>14. Cardinality(places) = Cardinality(all)
  <2> HIDE DEF f
  <2> QED BY <1>7, <1>12, <1>13, FS_Injection
<1> QED BY <1>7, <1>14 DEF places, From, To, D, E, Deg

LEMMA DegreesFollow == GraphInv => DegreesAddUp
<1> SUFFICES ASSUME GraphInv, outcome = "ok" PROVE DegreesAddUp
  BY DEF DegreesAddUp
<1>1. DegreesAreCounts
  BY DEF GraphInv, Finished
<1>2. ASSUME NEW key \in DOMAIN relationshipMap, Known(key[1]), Known(key[2])
      PROVE  relationshipMap[key].degree = entityMap[key[1]].degree + entityMap[key[2]].degree
  BY <1>1, <1>2 DEF DegreesAreCounts, Known
<1> QED BY <1>1, <1>2, DegreesAdded DEF DegreesAddUp

LEMMA LinksFollow == GraphInv => LinksAreDerived
<1> SUFFICES ASSUME GraphInv PROVE LinksAreDerived
  OBVIOUS
<1>1. LinksFit /\ (outcome = "ok" => LinksAreCurrent)
  BY DEF GraphInv, Finished
<1>2. ASSUME outcome = "ok", NEW key \in DOMAIN relationshipMap, NEW p \in Pairs(key)
      PROVE  /\ {p, <<p[2], p[1]>>} \subseteq DOMAIN chunkGraph
             /\ chunkGraph[p] = chunkGraph[<<p[2], p[1]>>]
             /\ \E q \in DOMAIN relationshipMap : p \in Pairs(q) /\ chunkGraph[p] = Link(q)
  <2>1. /\ p \in DOMAIN chunkGraph
        /\ \E q \in DOMAIN relationshipMap : p \in Pairs(q) /\ chunkGraph[p] = Link(q)
    BY <1>1, <1>2 DEF LinksAreCurrent
  <2> QED BY <1>1, <2>1 DEF LinksFit
<1> QED BY <1>1, <1>2 DEF LinksAreDerived, LinksFit

LEMMA DirectBothWays ==
  ASSUME LinksFit, NEW c \in Chunks, NEW d \in Direct(c)
  PROVE  /\ d \in Chunks /\ c \in Direct(d)
         /\ <<c, d>> \in DOMAIN chunkGraph
         /\ chunkGraph[<<c, d>>] \in [weight : Int, degree : Int]
         /\ chunkGraph[<<d, c>>] = chunkGraph[<<c, d>>]
<1> DEFINE p == <<c, d>>
<1>1. p \in DOMAIN chunkGraph /\ d \in Chunks
  BY DEF Direct
<1>2. /\ chunkGraph[p] \in [weight : Int, degree : Int]
      /\ <<p[2], p[1]>> \in DOMAIN chunkGraph
      /\ chunkGraph[<<p[2], p[1]>>] = chunkGraph[p]
  BY <1>1 DEF LinksFit
<1>3. <<p[2], p[1]>> = <<d, c>>
  OBVIOUS
<1>4. c \in Direct(d)
  BY <1>2, <1>3 DEF Direct
<1> QED BY <1>1, <1>2, <1>3, <1>4

LEMMA PathBothWays ==
  ASSUME LinksFit, NEW c \in Chunks, NEW d \in Direct(c), NEW e \in Direct(d)
  PROVE  Path(c, d, e) = Path(e, d, c)
<1>1. /\ d \in Chunks /\ chunkGraph[<<d, c>>] = chunkGraph[<<c, d>>]
      /\ chunkGraph[<<c, d>>] \in [weight : Int, degree : Int]
  BY DirectBothWays
<1>2. /\ chunkGraph[<<e, d>>] = chunkGraph[<<d, e>>]
      /\ chunkGraph[<<d, e>>] \in [weight : Int, degree : Int]
  BY <1>1, DirectBothWays
<1> DEFINE a == chunkGraph[<<c, d>>]
           b == chunkGraph[<<d, e>>]
<1>3. a.weight \in Int /\ b.weight \in Int
  BY <1>1, <1>2
<1>4. a.weight * b.weight = b.weight * a.weight
  BY <1>3
<1>5. {a.degree, b.degree} = {b.degree, a.degree}
  OBVIOUS
<1>6. Path(c, d, e) = [weight |-> (a.weight * b.weight) \div 200, degree |-> Max({a.degree, b.degree})]
  BY DEF Path
<1>7. Path(e, d, c) = [weight |-> (b.weight * a.weight) \div 200, degree |-> Max({b.degree, a.degree})]
  BY <1>1, <1>2 DEF Path
<1> HIDE DEF a, b
<1> QED BY <1>4, <1>5, <1>6, <1>7

LEMMA IndirectBothWays ==
  ASSUME LinksFit, NEW c \in Chunks, NEW e \in Chunks
  PROVE  /\ e \in Indirect(c) => c \in Indirect(e)
         /\ IndirectLinks(c, e) = IndirectLinks(e, c)
<1>1. \A x \in Chunks : \A d \in Direct(x) : d \in Chunks /\ x \in Direct(d)
  BY DirectBothWays
<1>2. e \in Indirect(c) => c \in Indirect(e)
  <2> SUFFICES ASSUME e \in Indirect(c) PROVE c \in Indirect(e)
    OBVIOUS
  <2>1. PICK d \in Direct(c) : e \in Direct(d)
    BY DEF Indirect
  <2>2. e \notin Direct(c) /\ e # c
    BY DEF Indirect
  <2>3. d \in Direct(e) /\ c \in Direct(d)
    BY <1>1, <2>1
  <2>4. c \notin Direct(e)
    BY <1>1, <2>2
  <2> QED BY <2>2, <2>3, <2>4 DEF Indirect
<1>3. IndirectLinks(c, e) = IndirectLinks(e, c)
  <2> DEFINE There == {x \in Direct(c) : e \in Direct(x)}
             Back == {x \in Direct(e) : c \in Direct(x)}
             Paths == {Path(c, d, e) : d \in There}
             PathsBack == {Path(e, d, c) : d \in Back}
  <2>1. There = Back
    BY <1>1
  <2>2. \A d \in There : Path(c, d, e) = Path(e, d, c)
    BY PathBothWays
  <2>3. Paths = PathsBack
    <3> HIDE DEF There, Back
    <3> QED BY <2>1, <2>2
  <2> QED BY <2>3 DEF IndirectLinks
<1> QED BY <1>2, <1>3

LEMMA TopIsOf ==
  ASSUME NEW link, NEW topK, NEW s \in TopOf(link, topK)
  PROVE  ToSet(s) \subseteq DOMAIN link
<1> DEFINE n == IF topK > 0 THEN Min({topK, Cardinality(DOMAIN link)}) ELSE Cardinality(DOMAIN link)
<1>1. s \in [1..n -> DOMAIN link]
  BY DEF TopOf
<1> HIDE DEF n
<1> QED BY <1>1 DEF ToSet

LEMMA QueriesFollow == GraphInv => QueriesAgree
<1> SUFFICES ASSUME GraphInv, NEW c \in Chunks, NEW e \in Chunks
             PROVE  /\ e \in Direct(c) <=> c \in Direct(e)
                    /\ e \in Indirect(c) => c \in Indirect(e) /\ IndirectLinks(c, e) = IndirectLinks(e, c)
                    /\ \A s \in GetRelationChunks(c, 1), t \in GetIndirectRelationChunks(c, 2) :
                          ToSet(s) \intersect ToSet(t) = {}
  BY DEF QueriesAgree
<1>1. LinksFit
  BY DEF GraphInv
<1>2. e \in Direct(c) <=> c \in Direct(e)
  BY <1>1, DirectBothWays
<1>3. e \in Indirect(c) => c \in Indirect(e) /\ IndirectLinks(c, e) = IndirectLinks(e, c)
  BY <1>1, IndirectBothWays
<1>4. ASSUME NEW s \in GetRelationChunks(c, 1), NEW t \in GetIndirectRelationChunks(c, 2)
      PROVE  ToSet(s) \intersect ToSet(t) = {}
  <2> DEFINE link == [d \in Direct(c) |-> chunkGraph[<<c, d>>]]
             all == UNION {IndirectLinks(c, x) : x \in Indirect(c)}
  <2>1. ToSet(s) \subseteq Direct(c)
    <3>1. s \in TopOf(link, 1) /\ DOMAIN link = Direct(c)
      BY DEF GetRelationChunks
    <3> QED BY <3>1, TopIsOf
  <2>2. ToSet(t) \subseteq Indirect(c)
    <3>1. PICK links \in [Indirect(c) -> all] : t \in TopOf(links, 2)
      BY DEF GetIndirectRelationChunks
    <3>2. DOMAIN links = Indirect(c)
      BY <3>1
    <3> QED BY <3>1, <3>2, TopIsOf
  <2>3. Direct(c) \intersect Indirect(c) = {}
    BY DEF Indirect
  <2> QED BY <2>1, <2>2, <2>3
<1> QED BY <1>2, <1>3, <1>4

LEMMA AnswersKept == GraphInv => NothingSaidIsLost /\ NilMeansAllRead
<1> SUFFICES ASSUME GraphInv PROVE NothingSaidIsLost /\ NilMeansAllRead
  OBVIOUS
<1>1. /\ \A n \in named : Known(n[1]) /\ n[2] \in entityMap[n[1]].chunks
      /\ \A r \in related : HasRelation(relationshipMap, r.rel, r.in)
  BY DEF GraphInv, Remembered
<1>2. \A key \in DOMAIN relationshipMap :
          Plain(key) => relationshipMap[key].chunks \subseteq ChunksOfEnds(key)
  BY DEF GraphInv, AreRelations
<1>3. \A t \in DOMAIN entityMap : entityMap[t].freq >= Cardinality(entityMap[t].chunks)
  BY DEF GraphInv, EntitiesFit, AreEntities
<1>4. NothingSaidIsLost
  BY <1>1, <1>2, <1>3 DEF NothingSaidIsLost, HasRelation, ChunksOfEnds
<1>5. NilMeansAllRead
  BY DEF GraphInv, ReadBefore, NilMeansAllRead
<1> QED BY <1>4, <1>5

-----------------------------------------------------------------------------
(* What the builder promises *)

\* GraphInv holds in every state, however the goroutines of the chunks and of the
\* batches take turns, whichever of them fail, and in whatever order the map of
\* relations is ranged over.
THEOREM GraphInvariant == GraphSpec => []GraphInv
<1>1. GraphInit => GraphInv
  BY InvInit
<1>2. GraphInv /\ [GraphNext]_graphBuilderVars => GraphInv'
  BY InvNext
<1> QED BY <1>1, <1>2, PTL DEF GraphSpec

\* extractEntities and extractRelationships lose nothing that the model said and the
\* builder could read, a call that returns nil has read every chunk, and the text that
\* mergeChunkContents makes of a batch has each position of its chunks once.
THEOREM GraphKeepsAnswers == GraphSpec => []BuilderKeepsAnswers
<1>1. GraphInv => BuilderKeepsAnswers
  BY AnswersKept, BatchesRead DEF BuilderKeepsAnswers
<1> QED BY <1>1, GraphInvariant, PTL

\* After calculateDegrees and buildChunkGraph the degrees count every end of a relation
\* once, the chunks are linked as the relations say, both ways, and the two queries
\* for related chunks agree with the links and never give the same chunk.
THEOREM GraphAgrees == GraphSpec => []GraphAgreesWithRelations
<1>1. GraphInv => GraphAgreesWithRelations
  BY LinksFollow, DegreesFollow, QueriesFollow DEF GraphAgreesWithRelations
<1> QED BY <1>1, GraphInvariant, PTL
=============================================================================
